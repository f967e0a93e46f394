--------------------------- MODULE UsbfsTransfer ---------------------------
(***************************************************************************)
(* One transfer on Linux: libusb's usbfs backend cuts it into URBs, the    *)
(* kernel runs and returns them, the event thread reaps them, and the user *)
(* or a timeout cancels them.  Three threads (user, timer, reaper) share   *)
(* the transfer under itransfer->lock (lock) and the context's list of     *)
(* transfers under flying_transfers_lock (flying).                         *)
(*                                                                         *)
(* A mode is a kind of transfer and, for bulk and interrupt transfers,     *)
(* what the capabilities of usbfs make submit_bulk_transfer do: "single"   *)
(* (one URB), "continuation" and "split" (URBs of UrbLen with and without  *)
(* the continuation flag).                                                 *)
(* Data is counted in units, numbered from 1 as the device sends them; for *)
(* isochronous transfers a unit is a packet and buffer holds the packet    *)
(* descriptors.                                                            *)
(***************************************************************************)
EXTENDS Integers, Sequences, FiniteSets

CONSTANTS
    Lengths,    \* lengths of the transfer
    UrbLen,     \* MAX_BULK_BUFFER_LENGTH, MAX_ISO_PACKETS_PER_URB
    Faults      \* for each mode what the device and the kernel may do wrong

Modes == DOMAIN Faults
Kinds == {"unplug", "stall", "overflow", "error", "refuse"}

ASSUME FaultsAssumption ==
    /\ Modes \subseteq {"single", "continuation", "split", "iso", "control"}
    /\ \A m \in Modes : Faults[m] \subseteq Kinds
ASSUME SizesAssumption == UrbLen \in Nat \ {0} /\ Lengths \subseteq Nat

VARIABLES
    mode, length,
    urb,        \* the kernel's view of each URB: where it is and its result
    completed,  \* the kernel's list of URBs to be reaped
    line,       \* the endpoint: "up", "halted", "ended" (a continuation ended short), "gone"
    sent,       \* units the device has sent since the submission
    buffer,
    lock, flying,
    user, timer, reaper,
    loop,       \* the loop of discard_urbs, run by the thread that holds lock
    hand,       \* the URB reap_for_handle has got and not yet handled
    tp,         \* itransfer and linux_transfer_priv
    fd_removed,
    owner,      \* who may touch the transfer by the rules of the interface
    called,     \* callbacks since the submission
    result,     \* status and actual_length given to the last callback
    cause       \* whose cancellation succeeded

kernel == <<urb, completed, line, sent>>
vars == <<mode, length, kernel, buffer, lock, flying, user, timer, reaper, loop,
          hand, tp, fd_removed, owner, called, result, cause>>

Least(a, b) == IF a < b THEN a ELSE b

(* num_urbs, and the part of the buffer that belongs to URB i. *)
Pieces(n) == (n + UrbLen - 1) \div UrbLen
BulkUrbs == IF mode = "single" \/ length = 0 THEN 1 ELSE Pieces(length)
IsoUrbs == Pieces(length)
NumUrbs == CASE mode = "control" -> 1
             [] mode = "iso" -> IsoUrbs
             [] OTHER -> BulkUrbs
Urbs == 1..NumUrbs
Start(i) == (i - 1) * UrbLen
Len1(i) == IF NumUrbs = 1 THEN length ELSE Least(UrbLen, length - Start(i))

Queued == {i \in Urbs : urb[i].at = "queued"}
Active(i) == i \in Queued /\ \A j \in Queued : i <= j
Fault(f) == f \in Faults[mode]

(***************************************************************************)
(* The kernel and the device (external).                                   *)
(***************************************************************************)

Ended(i, from, n, status) ==
    [urb EXCEPT ![i] = [at |-> "done", actual |-> n, from |-> from, status |-> status]]

(* URB i leaves the endpoint with n units.  A kernel that knows the        *)
(* continuation flag takes the rest of the transfer off the endpoint when  *)
(* one of its URBs fails or falls short.                                   *)
Complete(i, n, status) ==
    LET ends == mode = "continuation" /\ status \notin {"ok", "gone"}
        rest == IF ends THEN Queued \ {i} ELSE {}
    IN  /\ urb' = [j \in Urbs |->
            IF j \in rest THEN Ended(j, sent + n, 0, "cancelled")[j]
                          ELSE Ended(i, sent, n, status)[j]]
        /\ completed' = completed \o <<i>> \o [k \in 1..Cardinality(rest) |-> i + k]
        /\ sent' = sent + n
        /\ line' = CASE ends -> "ended" [] ~ends /\ status = "stall" -> "halted" [] OTHER -> line

(* The device fills the active URB, ends it short or fails.  SHORT_NOT_OK  *)
(* is set on all but the last URB of a continuation.                       *)
DeviceRuns ==
    /\ line = "up"
    /\ \E i \in Urbs :
        /\ Active(i)
        /\ \/ Complete(i, Len1(i), "ok")
           \/ /\ mode # "iso"
              /\ \E n \in 0..(Len1(i) - 1) :
                  \/ Complete(i, n, IF mode = "continuation" /\ i < NumUrbs THEN "short" ELSE "ok")
                  \/ Fault("stall") /\ Complete(i, n, "stall")
                  \/ Fault("error") /\ Complete(i, n, "error")
           \/ Fault("overflow") /\ i = NumUrbs /\ mode # "iso" /\ Complete(i, Len1(i), "overflow")
    /\ UNCHANGED <<mode, length, buffer, lock, flying, user, timer, reaper, loop, hand, tp,
                   fd_removed, owner, called, result, cause>>

(* The device is unplugged: calls fail from now on, and the URBs come back *)
(* in whatever order the host controller has.                              *)
Unplug ==
    /\ Fault("unplug")
    /\ \/ line # "gone" /\ line' = "gone" /\ UNCHANGED <<urb, completed, sent>>
       \/ /\ line = "gone"
          /\ \E i \in Queued : Complete(i, 0, "gone")
    /\ UNCHANGED <<mode, length, buffer, lock, flying, user, timer, reaper, loop, hand, tp,
                   fd_removed, owner, called, result, cause>>

(***************************************************************************)
(* discard_urbs: from last to first, one ioctl per step.                   *)
(***************************************************************************)

(* Mutant: i > first ends the loop.                                        *)
Discards_NotFirst(first, last) ==
    [at |-> last, first |-> first + 1, last |-> last, ret |-> "success"]

Discards(first, last) == [at |-> last, first |-> first, last |-> last, ret |-> "success"]

(* The ioctl on the URB at loop.at.  A URB the device is working on comes  *)
(* back with what it has received.                                         *)
Discard ==
    /\ lock # "free" /\ loop.at >= loop.first
    /\ LET i == loop.at
       IN \/ /\ line = "gone"
             /\ loop' = [loop EXCEPT !.at = @ - 1, !.ret = "no_device"]
             /\ UNCHANGED kernel
          \/ /\ line # "gone" /\ i \in Queued
             /\ \E n \in IF Active(i) /\ line = "up" /\ mode # "iso" THEN 0..Len1(i) ELSE {0} :
                    urb' = Ended(i, sent, n, "cancelled") /\ sent' = sent + n
             /\ completed' = Append(completed, i)
             /\ loop' = [loop EXCEPT !.at = @ - 1]
             /\ UNCHANGED line
          \/ /\ line # "gone" /\ i \notin Queued
             /\ loop' = [loop EXCEPT !.at = @ - 1,
                            !.ret = IF i = loop.last THEN "not_found" ELSE @]
             /\ UNCHANGED kernel
    /\ UNCHANGED <<mode, length, buffer, lock, flying, user, timer, reaper, hand, tp,
                   fd_removed, owner, called, result, cause>>

Discarded == loop.at < loop.first

(***************************************************************************)
(* The user: libusb_submit_transfer, libusb_cancel_transfer.               *)
(***************************************************************************)

SubmitLock ==
    /\ user = "idle" /\ owner = "user" /\ flying = "free"
    /\ flying' = "user" /\ user' = "lock"
    /\ UNCHANGED <<mode, length, kernel, buffer, lock, timer, reaper, loop, hand, tp,
                   fd_removed, owner, called, result, cause>>

(* The second lock, add_to_flying_list, and the fields the backend resets; *)
(* the user has cleared a halted endpoint.                                 *)
SubmitAdd ==
    /\ user = "lock" /\ lock = "free"
    /\ lock' = "user" /\ flying' = "free" /\ user' = "submit" /\ owner' = "libusb"
    /\ tp' = [urbs |-> TRUE, num_retired |-> 0, reap_action |-> "NORMAL", reap_status |-> "COMPLETED",
              transferred |-> 0, in_flight |-> FALSE, cancelling |-> FALSE, handled |-> FALSE,
              timed_out |-> FALSE, listed |-> TRUE]
    /\ urb' = [i \in Urbs |-> [at |-> "idle", actual |-> 0, from |-> 0, status |-> "ok"]]
    /\ line' = IF line = "gone" THEN line ELSE "up"
    /\ buffer' = [k \in 1..length |-> 0]
    /\ sent' = 0 /\ called' = 0 /\ cause' = "none" /\ loop' = Discards(1, 0)
    /\ result' = [status |-> "COMPLETED", actual |-> 0]
    /\ UNCHANGED <<mode, length, completed, timer, reaper, hand, fd_removed>>

Submitted == {i \in Urbs : urb[i].at # "idle"}

(* The ioctl for the next URB.                                             *)
SubmitUrb ==
    /\ user = "submit"
    /\ \E i \in Urbs :
        /\ Submitted = 1..(i - 1)
        /\ line # "gone" /\ ~(line = "ended" /\ i > 1)
        /\ urb' = [urb EXCEPT ![i].at = "queued"]
        /\ user' = IF i = NumUrbs THEN "submitted" ELSE user
    /\ UNCHANGED <<mode, length, completed, line, sent, buffer, lock, flying, timer, reaper, loop,
                   hand, tp, fd_removed, owner, called, result, cause>>

(* Mutant: all URBs count as retired.                                      *)
NotSubmitted_All(i) == NumUrbs

NotSubmitted(i) == NumUrbs - i + 1

(* The ioctl for URB i may fail: the device is gone, an earlier URB has    *)
(* ended a continuation (EREMOTEIO), or the kernel has no memory.          *)
Refused(i) ==
    /\ user = "submit" /\ Submitted = 1..(i - 1)
    /\ line = "gone" \/ (line = "ended" /\ i > 1) \/ Fault("refuse")
    /\ UNCHANGED <<mode, length, kernel, buffer, flying, timer, reaper, hand, fd_removed, owner,
                   called, result, cause>>

(* The first URB's failure, the only one of a control transfer, is the     *)
(* submission's.                                                           *)
FirstRefused ==
    /\ Refused(1)
    /\ tp' = [tp EXCEPT !.urbs = FALSE]
    /\ user' = "undo" /\ lock' = "free" /\ UNCHANGED loop

(* Later the submission succeeds all the same: the URBs not submitted      *)
(* count as retired, and the others are discarded unless the kernel        *)
(* refuses because the transfer needs no more URBs.                        *)
BulkRefused ==
    /\ mode # "iso"
    /\ \E i \in Urbs \ {1} :
        /\ Refused(i)
        /\ tp' = [tp EXCEPT !.reap_action = IF line = "ended" THEN "COMPLETED_EARLY" ELSE "SUBMIT_FAILED",
                            !.num_retired = @ + NotSubmitted(i)]
        /\ loop' = IF line = "ended" THEN loop ELSE Discards(1, i - 1)
    /\ user' = "submitted" /\ UNCHANGED lock

IsoRefused ==
    /\ mode = "iso"
    /\ \E i \in Urbs \ {1} :
        /\ Refused(i)
        /\ tp' = [tp EXCEPT !.reap_action = "SUBMIT_FAILED", !.num_retired = NotSubmitted(i)]
        /\ loop' = Discards(1, i - 1)
    /\ user' = "submitted" /\ UNCHANGED lock

SubmitReturns ==
    /\ user = "submitted" /\ Discarded
    /\ tp' = [tp EXCEPT !.in_flight = TRUE]
    /\ lock' = "free" /\ user' = "idle"
    /\ UNCHANGED <<mode, length, kernel, buffer, flying, timer, reaper, loop, hand, fd_removed,
                   owner, called, result, cause>>

SubmitUndo ==
    /\ user = "undo" /\ flying = "free"
    /\ tp' = [tp EXCEPT !.listed = FALSE]
    /\ user' = "idle" /\ owner' = "user"
    /\ UNCHANGED <<mode, length, kernel, buffer, lock, flying, timer, reaper, loop, hand,
                   fd_removed, called, result, cause>>

(* What libusb_cancel_transfer and op_cancel_transfer do before the        *)
(* discards: t is the state of the thread t once the lock is taken, and    *)
(* done its state if there is nothing to cancel.                           *)
CancelBegin(t, pc, discarding, done) ==
    /\ lock = "free"
    /\ IF tp.in_flight /\ ~tp.cancelling /\ tp.urbs
       THEN lock' = t /\ loop' = Discards(1, NumUrbs) /\ pc' = discarding /\ UNCHANGED tp
       ELSE /\ tp' = IF tp.in_flight THEN [tp EXCEPT !.cancelling = TRUE] ELSE tp
            /\ pc' = done /\ UNCHANGED <<lock, loop>>

(* What reap_action may be after them.  A bulk transfer keeps ERROR; an    *)
(* interrupt transfer, which is otherwise like it, does not.               *)
CancelActions ==
    IF loop.ret # "success" THEN {tp.reap_action}
    ELSE {"CANCELLED"} \cup ({tp.reap_action} \cap (IF mode = "control" THEN {} ELSE {"ERROR"}))

(* ... and after them.                                                     *)
CancelEnd(t) ==
    /\ lock = t /\ Discarded
    /\ lock' = "free"
    /\ \E action \in CancelActions :
         tp' = [tp EXCEPT !.cancelling = TRUE, !.reap_action = action]
    /\ cause' = IF loop.ret = "success" THEN t ELSE cause

Cancel ==
    /\ \/ /\ user = "idle" /\ owner = "libusb"
          /\ CancelBegin("user", user, "cancel", "idle")
          /\ UNCHANGED cause
       \/ /\ user = "cancel" /\ CancelEnd("user")
          /\ user' = "idle" /\ UNCHANGED loop
    /\ UNCHANGED <<mode, length, kernel, buffer, flying, timer, reaper, hand, fd_removed, owner,
                   called, result>>

(***************************************************************************)
(* The timer: handle_timeouts_locked and handle_timeout, which keep        *)
(* flying_transfers_lock until the transfer is marked.                     *)
(***************************************************************************)

Expire ==
    /\ timer = "idle" /\ flying = "free" /\ tp.listed /\ ~tp.handled
    /\ flying' = "timer" /\ timer' = "lock"
    /\ tp' = [tp EXCEPT !.handled = TRUE]
    /\ UNCHANGED <<mode, length, kernel, buffer, lock, user, reaper, loop, hand, fd_removed,
                   owner, called, result, cause>>

TimerCancel ==
    /\ \/ timer = "lock" /\ CancelBegin("timer", timer, "cancel", "leave") /\ UNCHANGED cause
       \/ /\ timer = "cancel" /\ CancelEnd("timer")
          /\ timer' = IF loop.ret = "success" THEN "mark" ELSE "leave"
          /\ UNCHANGED loop
    /\ UNCHANGED <<mode, length, kernel, buffer, flying, user, reaper, hand, fd_removed, owner,
                   called, result>>

TimerLeave ==
    /\ timer \in {"mark", "leave"}
    /\ tp' = IF timer = "mark" THEN [tp EXCEPT !.timed_out = TRUE] ELSE tp
    /\ timer' = "idle" /\ flying' = "free"
    /\ UNCHANGED <<mode, length, kernel, buffer, lock, user, reaper, loop, hand, fd_removed,
                   owner, called, result, cause>>

(***************************************************************************)
(* The event thread: op_handle_events and what it calls.  reaper is its    *)
(* place and, when a transfer is complete, the status it will report.      *)
(***************************************************************************)

At(pc) == [pc |-> pc, status |-> "COMPLETED"]
Report(status) == [pc |-> "remove", status |-> status]

(* IOCTL_USBFS_REAPURBNDELAY: the kernel fills the URB's part of the       *)
(* buffer; the lock is taken afterwards.                                   *)
Reap ==
    /\ reaper.pc = "idle" /\ ~fd_removed /\ completed # <<>>
    /\ hand' = Head(completed) /\ completed' = Tail(completed)
    /\ urb' = [urb EXCEPT ![Head(completed)].at = "back"]
    /\ LET i == Head(completed)
       IN  buffer' = IF mode = "iso" THEN buffer
                     ELSE [k \in 1..length |->
                            IF k \in (Start(i) + 1)..(Start(i) + urb[i].actual)
                            THEN urb[i].from + k - Start(i) ELSE buffer[k]]
    /\ reaper' = At("reaped")
    /\ UNCHANGED <<mode, length, line, sent, lock, flying, user, timer, loop, tp, fd_removed,
                   owner, called, result, cause>>

Retired == tp.num_retired + 1

(* Mutant: off by one.                                                     *)
AllRetired_Early == Retired >= NumUrbs - 1

AllRetired == Retired = NumUrbs

(* Mutant: the surplus data stays where the kernel put it.                 *)
Moved_InPlace(i) == buffer

Moved(i) ==
    [k \in 1..length |->
        IF k \in (tp.transferred + 1)..(tp.transferred + urb[i].actual)
        THEN buffer[Start(i) + k - tp.transferred] ELSE buffer[k]]

(* handle_bulk_completion once reap_action is not NORMAL: surplus data is  *)
(* moved to the end of what has been received, and the last URB ends the   *)
(* transfer.                                                               *)
Surplus(i) ==
    /\ tp.reap_action # "NORMAL"
    /\ buffer' = Moved(i)
    /\ tp' = [tp EXCEPT !.num_retired = Retired,
                        !.transferred = @ + urb[i].actual,
                        !.urbs = ~AllRetired,
                        !.reap_status = IF /\ AllRetired /\ @ = "COMPLETED"
                                           /\ tp.reap_action # "COMPLETED_EARLY"
                                        THEN "ERROR" ELSE @]
    /\ reaper' = CASE ~AllRetired -> At("idle")
                   [] AllRetired /\ tp.reap_action = "CANCELLED" -> At("cancelled")
                   [] OTHER -> Report(tp'.reap_status)
    /\ UNCHANGED <<lock, loop>>

(* The same function while reap_action is NORMAL: what the status of the   *)
(* URB says of the transfer, ...                                           *)
ReapStatus(i) ==
    IF tp.reap_status # "COMPLETED" /\ urb[i].status # "gone" THEN tp.reap_status
    ELSE CASE urb[i].status = "gone" -> "NO_DEVICE"
           [] urb[i].status = "stall" -> "STALL"
           [] urb[i].status = "overflow" -> "OVERFLOW"
           [] urb[i].status = "error" -> "ERROR"
           [] OTHER -> "COMPLETED"

(* ... whether it ends it at once, and whether the remaining URBs are      *)
(* discarded.                                                              *)
Regular(i) ==
    LET fails == urb[i].status \in {"gone", "stall", "error"}
        last == urb[i].status = "overflow" \/ (~fails /\ i = NumUrbs)
        short == ~fails /\ ~last /\ urb[i].actual < Len1(i)
        ends == last \/ ((fails \/ short) /\ AllRetired)
        discards == ~ends /\ (fails \/ short)
    IN  /\ tp.reap_action = "NORMAL"
        /\ tp' = [tp EXCEPT !.num_retired = Retired,
                            !.transferred = @ + urb[i].actual,
                            !.reap_status = ReapStatus(i),
                            !.reap_action = CASE urb[i].status = "error" -> "ERROR"
                                              [] short -> "COMPLETED_EARLY"
                                              [] OTHER -> @,
                            !.urbs = ~ends]
        /\ reaper' = CASE ends -> Report(ReapStatus(i))
                       [] discards -> At("discard")
                       [] OTHER -> At("idle")
        /\ lock' = IF discards THEN "reaper" ELSE "free"
        /\ loop' = IF discards THEN Discards(i + 1, NumUrbs) ELSE loop
        /\ UNCHANGED buffer

(* handle_iso_completion: the packets of the URB go to the next            *)
(* descriptors.                                                            *)
IsoReaped(i) ==
    LET n == Len1(i)
        abnormal == tp.reap_action # "NORMAL"
        ends == IF abnormal THEN AllRetired ELSE i = NumUrbs
    IN  /\ buffer' = [k \in 1..length |->
                IF k \in (tp.transferred + 1)..(tp.transferred + n)
                THEN Start(i) + k - tp.transferred ELSE buffer[k]]
        /\ tp' = [tp EXCEPT !.num_retired = Retired, !.transferred = @ + n, !.urbs = ~ends]
        /\ reaper' = CASE ~ends -> At("idle")
                       [] ends /\ tp.reap_action = "CANCELLED" -> At("cancelled")
                       [] ends /\ abnormal /\ tp.reap_action # "CANCELLED" -> Report("ERROR")
                       [] OTHER -> Report(CASE urb[i].status \in {"ok", "cancelled"} -> "COMPLETED"
                                            [] urb[i].status = "gone" -> "NO_DEVICE"
                                            [] OTHER -> "ERROR")
        /\ UNCHANGED <<lock, loop>>

(* handle_control_completion.                                              *)
ControlReaped(i) ==
    /\ tp' = [tp EXCEPT !.transferred = @ + urb[i].actual, !.urbs = FALSE]
    /\ reaper' = IF tp.reap_action = "CANCELLED" THEN At("cancelled")
                 ELSE Report(CASE urb[i].status = "ok" -> "COMPLETED"
                               [] urb[i].status = "cancelled" -> "CANCELLED"
                               [] urb[i].status = "gone" -> "NO_DEVICE"
                               [] urb[i].status = "stall" -> "STALL"
                               [] urb[i].status = "overflow" -> "OVERFLOW"
                               [] OTHER -> "ERROR")
    /\ UNCHANGED <<buffer, lock, loop>>

HandleReaped ==
    /\ reaper.pc = "reaped" /\ lock = "free"
    /\ hand' = 0
    /\ CASE mode = "iso" -> IsoReaped(hand)
         [] mode = "control" -> ControlReaped(hand)
         [] OTHER -> Surplus(hand) \/ Regular(hand)
    /\ UNCHANGED <<mode, length, kernel, flying, user, timer, fd_removed, owner, called, result, cause>>

RemainingDiscarded ==
    /\ reaper.pc = "discard" /\ Discarded
    /\ lock' = "free" /\ reaper' = At("idle")
    /\ UNCHANGED <<mode, length, kernel, buffer, flying, user, timer, loop, hand, tp, fd_removed,
                   owner, called, result, cause>>

(* Mutant: timed_out is read without the lock.                             *)
HandleCancellation_NoLock ==
    /\ reaper.pc = "cancelled"
    /\ reaper' = Report(IF tp.timed_out THEN "TIMED_OUT" ELSE "CANCELLED")
    /\ UNCHANGED <<mode, length, kernel, buffer, lock, flying, user, timer, loop, hand, tp,
                   fd_removed, owner, called, result, cause>>

(* usbi_handle_transfer_cancellation: TIMED_OUT is read under              *)
(* flying_transfers_lock, which handle_timeout still holds if it is the    *)
(* one that cancels.                                                       *)
HandleCancellation ==
    /\ reaper.pc = "cancelled" /\ flying = "free"
    /\ reaper' = Report(IF tp.timed_out THEN "TIMED_OUT" ELSE "CANCELLED")
    /\ UNCHANGED <<mode, length, kernel, buffer, lock, flying, user, timer, loop, hand, tp,
                   fd_removed, owner, called, result, cause>>

(* usbi_handle_transfer_completion: off the list, no longer in flight, and *)
(* the callback.                                                           *)
RemoveFromList ==
    /\ reaper.pc = "remove" /\ flying = "free"
    /\ tp' = [tp EXCEPT !.listed = FALSE]
    /\ reaper' = [reaper EXCEPT !.pc = "callback"]
    /\ UNCHANGED <<mode, length, kernel, buffer, lock, flying, user, timer, loop, hand,
                   fd_removed, owner, called, result, cause>>

Callback ==
    /\ reaper.pc = "callback" /\ lock = "free"
    /\ tp' = [tp EXCEPT !.in_flight = FALSE]
    /\ result' = [status |-> reaper.status, actual |-> tp.transferred]
    /\ called' = called + 1 /\ owner' = "user"
    /\ reaper' = At(IF fd_removed THEN "find" ELSE "idle")
    /\ UNCHANGED <<mode, length, kernel, buffer, lock, flying, user, timer, loop, hand,
                   fd_removed, cause>>

(* POLLERR: the file descriptor is given up, with the URBs not yet reaped  *)
(* if the kernel cannot reap after a disconnection or has none ready.      *)
Disconnect ==
    /\ reaper.pc = "idle" /\ ~fd_removed /\ line = "gone"
    /\ fd_removed' = TRUE /\ reaper' = At("find")
    /\ UNCHANGED <<mode, length, kernel, buffer, lock, flying, user, timer, loop, hand, tp,
                   owner, called, result, cause>>

(* usbi_handle_disconnect: both locks to find a transfer in flight, then   *)
(* its lock to clear it.                                                   *)
FindLock ==
    /\ reaper.pc = "find" /\ flying = "free"
    /\ IF tp.listed THEN flying' = "reaper" /\ reaper' = At("check")
                    ELSE reaper' = At("idle") /\ UNCHANGED flying
    /\ UNCHANGED <<mode, length, kernel, buffer, lock, user, timer, loop, hand, tp, fd_removed,
                   owner, called, result, cause>>

FindCheck ==
    /\ reaper.pc = "check" /\ lock = "free"
    /\ flying' = "free"
    /\ reaper' = At(IF tp.in_flight THEN "clear" ELSE "idle")
    /\ UNCHANGED <<mode, length, kernel, buffer, lock, user, timer, loop, hand, tp, fd_removed,
                   owner, called, result, cause>>

ClearPriv ==
    /\ reaper.pc = "clear" /\ lock = "free"
    /\ tp' = [tp EXCEPT !.urbs = FALSE]
    /\ reaper' = Report("NO_DEVICE")
    /\ UNCHANGED <<mode, length, kernel, buffer, lock, flying, user, timer, loop, hand, fd_removed,
                   owner, called, result, cause>>

Init ==
    /\ mode \in Modes /\ length \in Lengths
    /\ mode = "iso" => length > 0    \* no packets are refused
    /\ urb = [i \in Urbs |-> [at |-> "idle", actual |-> 0, from |-> 0, status |-> "ok"]]
    /\ completed = <<>> /\ line = "up" /\ sent = 0
    /\ buffer = [k \in 1..length |-> 0]
    /\ lock = "free" /\ flying = "free"
    /\ user = "idle" /\ timer = "idle" /\ reaper = At("idle")
    /\ loop = Discards(1, 0) /\ hand = 0
    /\ tp = [urbs |-> FALSE, num_retired |-> 0, reap_action |-> "NORMAL", reap_status |-> "COMPLETED",
             transferred |-> 0, in_flight |-> FALSE, cancelling |-> FALSE, handled |-> FALSE,
             timed_out |-> FALSE, listed |-> FALSE]
    /\ fd_removed = FALSE /\ owner = "user" /\ called = 0
    /\ result = [status |-> "COMPLETED", actual |-> 0] /\ cause = "none"

User ==
    \/ SubmitLock \/ SubmitAdd \/ SubmitUrb \/ FirstRefused \/ BulkRefused \/ IsoRefused
    \/ SubmitReturns \/ SubmitUndo \/ Cancel
Timer == Expire \/ TimerCancel \/ TimerLeave
Reaper ==
    \/ Reap \/ HandleReaped \/ RemainingDiscarded \/ HandleCancellation \/ RemoveFromList
    \/ Callback \/ Disconnect \/ FindLock \/ FindCheck \/ ClearPriv

Next == DeviceRuns \/ Unplug \/ Discard \/ User \/ Timer \/ Reaper

(* Threads run.  The user need not submit or cancel, no timeout need       *)
(* expire, the device need not send.                                       *)
Fairness ==
    /\ WF_vars(Discard)
    /\ WF_vars(user # "idle" /\ User)
    /\ WF_vars(timer # "idle" /\ Timer)
    /\ WF_vars(Reaper)

Spec == Init /\ [][Next]_vars /\ Fairness

(***************************************************************************)
(* Properties.                                                             *)
(***************************************************************************)

Statuses == {"COMPLETED", "ERROR", "TIMED_OUT", "CANCELLED", "STALL", "NO_DEVICE", "OVERFLOW"}

(* Every variable has its type; no more URBs are retired than there are,   *)
(* and no more is counted than fits the buffer.                            *)
TypeOK ==
    /\ \A i \in Urbs : urb[i].at \in {"idle", "queued", "done", "back"}
    /\ completed \in Seq(Urbs) /\ hand \in {0} \cup Urbs
    /\ line \in {"up", "halted", "ended", "gone"}
    /\ {lock, flying} \subseteq {"free", "user", "timer", "reaper"}
    /\ tp.num_retired \in 0..NumUrbs /\ tp.transferred \in 0..length
    /\ result.status \in Statuses /\ reaper.status \in Statuses

(* The URBs are freed, and the transfer goes back to its user, only when   *)
(* the kernel holds none of them (linux_usbfs.c:2513, "cancel remaining    *)
(* urbs and wait for their completion before reporting results"), and it   *)
(* goes back once.  A file descriptor that was given up returns no URBs.   *)
FreedLast ==
    /\ (~tp.urbs \/ owner = "user") /\ ~fd_removed =>
            hand = 0 /\ completed = <<>> /\ Queued = {}
    /\ called <= 1 /\ (called = 1 => owner = "user")

(* What the device sent is at the start of the buffer, without holes, and  *)
(* counted (handle_bulk_completion: "not to lose any surplus data"); only  *)
(* a lost device loses data.  The packets of an isochronous transfer that  *)
(* is reported complete are in their own descriptors.                      *)
DataKept ==
    called = 1 =>
        IF mode = "iso"
        THEN result.status = "COMPLETED" => \A k \in 1..length : buffer[k] = k
        ELSE /\ \A k \in 1..result.actual : buffer[k] = k
             /\ result.status # "NO_DEVICE" => result.actual = sent

(* A transfer reports TIMED_OUT if it was its timeout that cancelled it,   *)
(* and CANCELLED if it was the user.                                       *)
CauseReported ==
    called = 1 =>
        /\ result.status = "TIMED_OUT" => cause = "timer"
        /\ result.status = "CANCELLED" => cause = "user"

(* A transfer that has been cancelled, even if in vain, comes to its       *)
(* callback without the device sending anything more.                      *)
CancelEnds == (tp.in_flight /\ tp.cancelling) ~> (owner = "user")

=============================================================================
