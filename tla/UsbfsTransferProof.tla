------------------------- MODULE UsbfsTransferProof -------------------------
(***************************************************************************)
(* The URBs of a transfer are freed last, the cause of a cancellation is   *)
(* reported, and what the device sent is kept, for any length, any size of *)
(* a URB and any number of submissions, with the faults a transfer         *)
(* survives (Survivable; the README says what the others do).              *)
(*                                                                         *)
(* Two of the ways in which handle_bulk_completion and                     *)
(* handle_iso_completion decide that a transfer is over look at counters   *)
(* and at positions, not at the URBs.  The invariant IInv says what they   *)
(* stand for: num_retired is the number of URBs back or never submitted    *)
(* (Counted), and as long as reap_action is NORMAL URBs come back in order *)
(* (InOrder), but for a loop of discards that will set reap_action before  *)
(* it releases the lock.                                                   *)
(*                                                                         *)
(* The second part is about the data (DInv), with no sum over the URBs:    *)
(* each URB says from which unit on it was filled (Filled), those that are *)
(* done follow each other without a gap (Chain), so the counter is where   *)
(* the next URB begins (Accounted), and what is counted is at the start of *)
(* the buffer (Prefix).                                                    *)
(***************************************************************************)
EXTENDS UsbfsTransfer, FiniteSetTheorems, SequenceTheorems, TLAPS

Survivable ==
    \A m \in Modes :
        /\ m \in {"continuation", "split", "iso"} => "unplug" \notin Faults[m]
        /\ m = "split" => "stall" \notin Faults[m]

UrbPlaces == {"idle", "queued", "done", "back"}
UrbResults == {"ok", "short", "stall", "error", "overflow", "cancelled", "gone"}
UserPcs == {"idle", "lock", "submit", "submitted", "undo", "cancel"}
TimerPcs == {"idle", "lock", "cancel", "mark", "leave"}
ReaperPcs == {"idle", "reaped", "discard", "cancelled", "remove", "callback",
               "find", "check", "clear"}
UrbStatuses == Statuses \ {"TIMED_OUT", "CANCELLED"}
Actions == {"NORMAL", "SUBMIT_FAILED", "CANCELLED", "COMPLETED_EARLY", "ERROR"}
UrbRecords == [at : UrbPlaces, actual : Int, from : Int, status : UrbResults]
Loops == [at : Int, first : Int, last : Int, ret : {"success", "not_found", "no_device"}]
Privates == [urbs : BOOLEAN, num_retired : Int, reap_action : Actions, reap_status : UrbStatuses,
             transferred : Int, in_flight : BOOLEAN, cancelling : BOOLEAN, handled : BOOLEAN,
             timed_out : BOOLEAN, listed : BOOLEAN]

Typed ==
    /\ mode \in Modes /\ length \in Lengths /\ (mode = "iso" => length > 0)
    /\ urb \in [Urbs -> UrbRecords]
    /\ completed \in Seq(Urbs) /\ hand \in {0} \union Urbs
    /\ line \in {"up", "halted", "ended", "gone"} /\ sent \in Int
    /\ {lock, flying} \subseteq {"free", "user", "timer", "reaper"}
    /\ user \in UserPcs /\ timer \in TimerPcs
    /\ reaper \in [pc : ReaperPcs, status : Statuses]
    /\ loop \in Loops /\ tp \in Privates
    /\ fd_removed \in BOOLEAN /\ owner \in {"user", "libusb"} /\ called \in Nat
    /\ result \in [status : Statuses, actual : Int]
    /\ cause \in {"none", "user", "timer"}

(* Who is where has which lock.                                            *)
Locks ==
    /\ lock = "user" <=> user \in {"submit", "submitted", "cancel"}
    /\ lock = "timer" <=> timer = "cancel"
    /\ lock = "reaper" <=> reaper.pc = "discard"
    /\ flying = "user" <=> user = "lock"
    /\ flying = "timer" <=> timer # "idle"
    /\ flying = "reaper" <=> reaper.pc = "check"

CancelLoop == user = "cancel" \/ timer = "cancel"

(* The way of a transfer from its submission to its callback.              *)
Phases ==
    /\ owner = "libusb" <=> tp.in_flight \/ user \in {"submit", "submitted", "undo"}
    /\ tp.in_flight => user \notin {"lock", "submit", "submitted", "undo"}
    /\ user \in {"submit", "submitted"} => tp.urbs
    /\ user = "undo" \/ owner = "user" => ~tp.urbs
    /\ owner = "libusb" => called = 0
    /\ called <= 1
    /\ CancelLoop => tp.in_flight /\ tp.urbs /\ ~tp.cancelling
    /\ reaper.pc \in {"discard", "cancelled", "remove", "callback", "clear"} => tp.in_flight
    /\ reaper.pc \in {"cancelled", "remove", "callback"} => ~tp.urbs
    /\ reaper.pc = "discard" => tp.urbs
    /\ reaper.pc = "reaped" <=> hand # 0
    /\ fd_removed => reaper.pc \in {"idle", "find", "check", "clear", "remove", "callback"}
    /\ reaper.pc \in {"find", "check", "clear"} => fd_removed

(* Whose cancellation succeeded, and who has been told.                    *)
Causes ==
    /\ cause # "none" => tp.cancelling
    /\ tp.reap_action = "CANCELLED" \/ reaper.pc = "cancelled" => cause # "none"
    /\ tp.timed_out \/ timer = "mark" => cause = "timer"
    /\ cause = "timer" => tp.timed_out \/ timer = "mark"
    /\ reaper.pc \in {"remove", "callback"} =>
        /\ reaper.status = "TIMED_OUT" => cause = "timer"
        /\ reaper.status = "CANCELLED" => cause = "user"
    /\ CauseReported

Unsubmitted == {i \in Urbs : urb[i].at = "idle"}
Reaped == {i \in Urbs : urb[i].at = "back" /\ i # hand}

(* The kernel's queues while it returns URBs.                              *)
Queues ==
    /\ \A i \in 1..Len(completed) : urb[completed[i]].at = "done"
    /\ \A i, j \in 1..Len(completed) : completed[i] = completed[j] => i = j
    /\ \A i \in Urbs : urb[i].at = "done" => \E k \in 1..Len(completed) : completed[k] = i
    /\ \A i, j \in Urbs : i < j /\ urb[i].at = "idle" => urb[j].at = "idle"
    /\ hand # 0 => urb[hand].at = "back"
    /\ ~tp.urbs => hand = 0 /\ completed = <<>> /\ Queued = {}

(* num_retired counts URBs that are back and URBs that were refused.       *)
Counted ==
    tp.urbs =>
        /\ user = "submit" => tp.num_retired = 0 /\ tp.reap_action = "NORMAL" /\ Reaped = {}
        /\ user # "submit" => tp.num_retired = Cardinality(Reaped \union Unsubmitted)
        /\ user # "submit" /\ tp.reap_action = "NORMAL" => Unsubmitted = {}

Ascending ==
    /\ \A i, j \in 1..Len(completed) : i < j => completed[i] < completed[j]
    /\ \A i, j \in Urbs : i < j => /\ urb[j].at = "done" => urb[i].at \in {"done", "back"}
                                   /\ urb[j].at = "back" => urb[i].at = "back"

InOrder ==
    tp.urbs /\ tp.reap_action = "NORMAL" =>
        /\ Ascending \/ (CancelLoop /\ loop.ret = "success" /\ loop.at < loop.last)
        /\ CancelLoop /\ loop.ret = "not_found" => Queued = {}
        /\ reaper.pc = "discard" => Queued = {}

CancelLoops ==
    CancelLoop => /\ loop.last = NumUrbs /\ loop.first = 1 /\ loop.at <= loop.last
                  /\ loop.at = loop.last => loop.ret = "success"
                  /\ loop.ret = "no_device" => line = "gone"

(* What the results of URBs say of the endpoint.                           *)
Possible ==
    /\ mode \in {"continuation", "split", "iso"} =>
        line # "gone" /\ \A i \in Urbs : urb[i].status # "gone"
    /\ mode \in {"split", "iso"} => \A i \in Urbs : urb[i].status # "stall"
    /\ mode # "continuation" => line # "ended"
    /\ fd_removed => line = "gone"
    /\ \A i \in Urbs : urb[i].status = "overflow" => i = NumUrbs

StallEnds ==
    /\ mode = "continuation" /\ (\E i \in Urbs : urb[i].status = "stall") => line = "ended"
    /\ line = "ended" => Queued = {} /\ urb[1].at # "idle"

(* ... and of who discarded the URB of a control transfer.                 *)
ControlCancelled ==
    mode = "control" /\ tp.urbs =>
        \A i \in Urbs : urb[i].status = "cancelled" =>
            \/ tp.reap_action = "CANCELLED"
            \/ CancelLoop /\ loop.ret = "success" /\ loop.at < loop.first

(* The URBs of a continuation on the endpoint have no gaps.                *)
Contiguous ==
    mode = "continuation" =>
        /\ \A i, j, k \in Urbs : i < j /\ j < k /\ i \in Queued /\ k \in Queued => j \in Queued
        /\ user = "submit" =>
            \A i, j \in Urbs : i < j /\ i \in Queued /\ urb[j].at # "idle" => j \in Queued

Results == Possible /\ StallEnds /\ ControlCancelled /\ Contiguous

(* discard_urbs goes downwards, from a URB with none on the endpoint       *)
(* behind it.                                                              *)
Downwards ==
    /\ user = "submit" \/ (user = "submitted" /\ tp.reap_action = "NORMAL")
         => loop.at < loop.first
    /\ lock # "free" /\ line # "gone" /\ loop.first <= loop.at =>
        \A j \in Urbs : loop.at < j => j \notin Queued
    /\ user = "submitted" /\ loop.first <= loop.at => NumUrbs # 1
    /\ reaper.pc = "discard" => mode \notin {"iso", "control"}

Kernel == Queues /\ Counted /\ InOrder

IInv ==
    /\ Typed /\ Locks /\ Phases /\ Causes /\ CancelLoops /\ Downwards /\ Results
    /\ ~fd_removed => Kernel

-----------------------------------------------------------------------------
(* A number is divided by one that is not larger.                          *)
LEMMA Quotient ==
  ASSUME NEW n \in Nat, NEW u \in Nat \ {0}, n >= u PROVE n \div u \in Nat \ {0}
BY SMT

(* There is at least one URB.                                              *)
LEMMA SomeUrbs == ASSUME Typed PROVE NumUrbs \in Nat \ {0}
<1>1. ASSUME length > 0 PROVE Pieces(length) \in Nat \ {0}
  BY <1>1, SizesAssumption, Quotient DEF Typed, Pieces
<1> QED  BY <1>1, SizesAssumption DEF NumUrbs, BulkUrbs, IsoUrbs, Typed

(* A multiple that is rounded up is the next one.                          *)
LEMMA Rounded ==
  ASSUME NEW n \in Nat, NEW u \in Nat \ {0}
  PROVE  LET q == (n + u - 1) \div u IN (q - 1) * u < n /\ n <= q * u
BY SMT

(* Multiples are in the order of their factors.                            *)
LEMMA Multiples ==
  ASSUME NEW u \in Nat
  PROVE  \A a, b \in Int : a <= b => a * u <= b * u
BY SMT

(* The parts of the buffer that belong to the URBs are next to each other  *)
(* and make up the whole.                                                  *)
LEMMA Layout ==
  ASSUME Typed
  PROVE  /\ \A i \in Urbs : Start(i) \in Nat /\ Len1(i) \in Nat /\ Start(i) + Len1(i) <= length
         /\ \A i, j \in Urbs : i < j => /\ Start(i) + Len1(i) <= Start(j)
                                        /\ Len1(i) > 0 /\ Len1(j) > 0
         /\ \A i \in Urbs : i < NumUrbs => Start(i + 1) = Start(i) + Len1(i)
         /\ Start(1) = 0 /\ Start(NumUrbs) + Len1(NumUrbs) = length
<1>1. NumUrbs \in Nat \ {0} /\ Urbs = 1..NumUrbs /\ UrbLen \in Nat \ {0} /\ length \in Nat
  BY SomeUrbs, SizesAssumption DEF Urbs, Typed
<1>2. Start(1) = 0
  BY <1>1 DEF Start
<1>3. CASE NumUrbs = 1
  BY <1>1, <1>2, <1>3 DEF Len1
<1>4. CASE NumUrbs # 1
  <2>1. NumUrbs = Pieces(length)
    BY <1>4 DEF NumUrbs, BulkUrbs, IsoUrbs
  <2>2. (NumUrbs - 1) * UrbLen < length /\ length <= NumUrbs * UrbLen
    BY <1>1, <2>1, Rounded DEF Pieces
  <2>3. \A i \in Int : Start(i) \in Int /\ Start(i + 1) = Start(i) + UrbLen
    BY <1>1 DEF Start
  <2>4. \A i, j \in Int : i <= j => Start(i) <= Start(j)
    <3>1. TAKE i, j \in Int
    <3>2. i - 1 \in Int /\ j - 1 \in Int
      OBVIOUS
    <3> QED  BY <1>1, <3>2, Multiples DEF Start
  <2>5. Start(NumUrbs) < length /\ length <= Start(NumUrbs + 1)
    BY <1>1, <2>2 DEF Start
  <2>6. \A i \in Urbs : Len1(i) = IF i = NumUrbs THEN length - Start(i) ELSE UrbLen
    <3> TAKE i \in Urbs
    <3>1. i \in Int /\ NumUrbs \in Int /\ Len1(i) = Least(UrbLen, length - Start(i))
      BY <1>1, <1>4 DEF Len1
    <3>4. Start(i) \in Int /\ Start(i + 1) = Start(i) + UrbLen /\ Start(NumUrbs) \in Int
           /\ Start(NumUrbs + 1) = Start(NumUrbs) + UrbLen
      BY <2>3, <3>1
    <3>2. CASE i = NumUrbs
      <4>1. length - Start(i) <= UrbLen
        BY <1>1, <2>5, <3>4, <3>2
      <4> QED  BY <1>1, <3>1, <3>4, <3>2, <4>1 DEF Least
    <3>3. CASE i # NumUrbs
      <4>1. i + 1 \in Int /\ i + 1 <= NumUrbs
        BY <1>1, <3>3
      <4>2. Start(i + 1) <= Start(NumUrbs)
        BY <2>4, <3>1, <4>1
      <4>3. UrbLen <= length - Start(i)
        BY <1>1, <2>5, <3>4, <4>2
      <4> QED  BY <1>1, <3>1, <3>4, <3>3, <4>3 DEF Least
    <3> QED  BY <3>2, <3>3
  <2>7. \A i \in Urbs : /\ Start(i) \in Nat /\ Len1(i) \in Nat \ {0}
                        /\ Start(i) + Len1(i) <= length
                        /\ i < NumUrbs => Start(i + 1) = Start(i) + Len1(i)
    <3>1. TAKE i \in Urbs
    <3>2. i \in Int /\ 1 <= i /\ Start(i) \in Int /\ Start(i + 1) = Start(i) + UrbLen
          /\ Start(NumUrbs) \in Int
      <4>1. i \in Int /\ 1 <= i /\ NumUrbs \in Int
        BY <1>1
      <4> QED  BY <2>3, <4>1
    <3>3. Start(i) >= 0
      BY <1>2, <2>4, <3>2
    <3>4. CASE i = NumUrbs
      BY <1>1, <2>5, <2>6, <3>2, <3>3, <3>4
    <3>5. CASE i # NumUrbs
      <4>1. i + 1 \in Int /\ i + 1 <= NumUrbs
        BY <1>1, <3>5
      <4>2. Start(i + 1) <= Start(NumUrbs)
        BY <1>1, <2>4, <4>1
      <4> QED  BY <1>1, <2>5, <2>6, <3>2, <3>3, <3>5, <4>2
    <3> QED  BY <3>4, <3>5
  <2>8. \A i, j \in Urbs : i < j => Start(i) + Len1(i) <= Start(j)
    <3>1. TAKE i, j \in Urbs
    <3>2. HAVE i < j
    <3>3. i + 1 \in Int /\ i + 1 <= j /\ j \in Int /\ i < NumUrbs
      BY <1>1, <3>2
    <3>4. Start(i + 1) <= Start(j)
      BY <2>4, <3>3
    <3>5. Start(i + 1) = Start(i) + Len1(i)
      BY Zenon, <2>7, <3>3
    <3> QED  BY <3>4, <3>5
  <2>9. Start(NumUrbs) + Len1(NumUrbs) = length
    <3>1. NumUrbs \in Urbs /\ NumUrbs \in Int
      BY <1>1
    <3> QED  BY <1>1, <2>3, <2>6, <3>1
  <2>10. \A i \in Urbs : Start(i) \in Nat /\ Len1(i) \in Nat /\ Start(i) + Len1(i) <= length
    BY <2>7
  <2>11. \A i, j \in Urbs : i < j => /\ Start(i) + Len1(i) <= Start(j)
                                     /\ Len1(i) > 0 /\ Len1(j) > 0
    <3>1. \A i \in Urbs : Len1(i) > 0
      BY <2>7
    <3> QED  BY Zenon, <2>8, <3>1
  <2>12. \A i \in Urbs : i < NumUrbs => Start(i + 1) = Start(i) + Len1(i)
    BY Zenon, <2>7
  <2> QED  BY <1>2, <2>9, <2>10, <2>11, <2>12
<1> QED  BY <1>3, <1>4

(* The length of a URB is a number.                                        *)
LEMMA LengthsOfUrbs ==
  ASSUME Typed, NEW i \in Urbs PROVE Len1(i) \in Nat
BY Layout

(* No step changes what the transfer is.                                   *)
LEMMA SameTransfer ==
  ASSUME [Next]_vars
  PROVE  mode' = mode /\ length' = length /\ NumUrbs' = NumUrbs /\ Urbs' = Urbs
<1>1. mode' = mode /\ length' = length
  BY Zenon DEF Next, User, Timer, Reaper, vars, kernel, DeviceRuns, Unplug, Discard, SubmitLock,
     SubmitAdd, SubmitUrb, FirstRefused, BulkRefused, IsoRefused, Refused, SubmitReturns,
     SubmitUndo, Cancel, Expire, TimerCancel, TimerLeave, Reap, HandleReaped, RemainingDiscarded,
     HandleCancellation, RemoveFromList, Callback, Disconnect, FindLock, FindCheck, ClearPriv
<1> QED  BY <1>1 DEF NumUrbs, Urbs, BulkUrbs, IsoUrbs, Pieces

(***************************************************************************)
(* What handle_*_completion does with the URB in hand: the transfer goes   *)
(* on, the rest of it is discarded, or it ends.                            *)
(***************************************************************************)
GoesOn == tp'.urbs /\ lock' = "free" /\ loop' = loop /\ reaper' = At("idle")

DiscardsRest ==
    /\ tp'.urbs /\ lock' = "reaper" /\ loop' = Discards(hand + 1, NumUrbs)
    /\ reaper' = At("discard") /\ mode \notin {"iso", "control"}
    /\ tp'.reap_action = "NORMAL" => urb[hand].status \in {"gone", "stall"}

EndsCancelled ==
    /\ ~tp'.urbs /\ lock' = "free" /\ loop' = loop /\ reaper' = At("cancelled")
    /\ tp.reap_action = "CANCELLED"

EndsReported ==
    /\ ~tp'.urbs /\ lock' = "free" /\ loop' = loop
    /\ reaper' \in [pc : {"remove"}, status : Statuses \ {"TIMED_OUT"}]
    /\ reaper'.pc = "remove" /\ reaper'.status # "TIMED_OUT"
    /\ reaper'.status = "CANCELLED" =>
        mode = "control" /\ urb[hand].status = "cancelled" /\ tp.reap_action # "CANCELLED"

Counts ==
    /\ tp' \in Privates
    /\ tp'.in_flight = tp.in_flight /\ tp'.cancelling = tp.cancelling
    /\ tp'.timed_out = tp.timed_out
    /\ tp'.reap_action = "CANCELLED" <=> tp.reap_action = "CANCELLED"
    /\ tp'.reap_action = "NORMAL" => tp.reap_action = "NORMAL"
    /\ tp'.urbs => tp'.num_retired = Retired
    /\ ~tp'.urbs => \/ mode = "control" \/ AllRetired
                    \/ tp.reap_action = "NORMAL"
                       /\ (hand = NumUrbs \/ urb[hand].status = "overflow")

(* HandleReaped does one of these, and counts.                             *)
LEMMA UrbReaped ==
  ASSUME Typed, HandleReaped, hand \in Urbs
  PROVE  Counts /\ (GoesOn \/ DiscardsRest \/ EndsCancelled \/ EndsReported)
<1>1. /\ tp \in Privates /\ urb[hand] \in UrbRecords /\ Len1(hand) \in Int
      /\ lock = "free"
  BY LengthsOfUrbs DEF Typed, HandleReaped
<1>0. /\ Retired \in Int /\ tp.transferred + Len1(hand) \in Int
      /\ tp.transferred + urb[hand].actual \in Int
  BY <1>1 DEF Privates, UrbRecords, Retired
<1> HIDE DEF Typed
<1>2. CASE mode = "iso"
  <2>1. IsoReaped(hand)
    BY <1>2 DEF HandleReaped
  <2> DEFINE abnormal == tp.reap_action # "NORMAL"
             ends == IF abnormal THEN AllRetired ELSE hand = NumUrbs
  <2>2. lock' = lock /\ loop' = loop
    BY <2>1 DEF IsoReaped
  <2>3. CASE ends
    <3>1. tp' = [tp EXCEPT !.num_retired = Retired, !.transferred = @ + Len1(hand), !.urbs = FALSE]
      BY <2>1, <2>3 DEF IsoReaped
    <3>2. Counts
      <4>1. tp' \in Privates
        BY Zenon, <1>0, <1>1, <2>3, <3>1 DEF Privates
      <4>2. /\ tp'.in_flight = tp.in_flight /\ tp'.cancelling = tp.cancelling
            /\ tp'.timed_out = tp.timed_out
        BY Zenon, <1>1, <2>3, <3>1 DEF Privates
      <4> QED  BY <1>0, <1>1, <2>3, <3>1, <4>1, <4>2 DEF Counts, Privates, AllRetired
    <3>3. CASE tp.reap_action = "CANCELLED"
      BY <1>1, <2>1, <2>2, <2>3, <3>1, <3>2, <3>3 DEF IsoReaped, EndsCancelled, Privates
    <3>4. CASE tp.reap_action # "CANCELLED"
      BY <1>1, <2>1, <2>2, <2>3, <3>1, <3>2, <3>4 DEF IsoReaped, EndsReported, Privates,
         Report, UrbRecords, UrbResults, Statuses
    <3> QED  BY <3>2, <3>3, <3>4
  <2>4. CASE ~ends
    <3>1. tp' = [tp EXCEPT !.num_retired = Retired, !.transferred = @ + Len1(hand), !.urbs = TRUE]
      BY <2>1, <2>4 DEF IsoReaped
    <3>2. Counts
      <4>1. tp' \in Privates
        BY Zenon, <1>0, <1>1, <3>1 DEF Privates
      <4>2. /\ tp'.in_flight = tp.in_flight /\ tp'.cancelling = tp.cancelling
            /\ tp'.timed_out = tp.timed_out
        BY Zenon, <1>1, <3>1 DEF Privates
      <4> QED  BY <1>0, <1>1, <3>1, <4>1, <4>2 DEF Counts, Privates, AllRetired
    <3>3. reaper' = At("idle")
      BY <2>1, <2>4 DEF IsoReaped
    <3> QED  BY <1>1, <2>2, <3>1, <3>2, <3>3 DEF GoesOn, Privates
  <2> QED  BY <2>3, <2>4
<1>3. CASE mode = "control"
  <2>1. ControlReaped(hand)
    BY <1>3 DEF HandleReaped
  <2>2. lock' = lock /\ loop' = loop
        /\ tp' = [tp EXCEPT !.transferred = @ + urb[hand].actual, !.urbs = FALSE]
    BY <2>1 DEF ControlReaped
  <2>3. Counts
    <3>1. tp' \in Privates
      BY Zenon, <1>0, <1>1, <1>3, <2>2 DEF Privates
    <3>2. /\ tp'.in_flight = tp.in_flight /\ tp'.cancelling = tp.cancelling
          /\ tp'.timed_out = tp.timed_out
      BY Zenon, <1>1, <1>3, <2>2 DEF Privates
    <3> QED  BY <1>0, <1>1, <1>3, <2>2, <3>1, <3>2 DEF Counts, Privates, AllRetired
  <2>4. CASE tp.reap_action = "CANCELLED"
    BY <1>1, <2>1, <2>2, <2>3, <2>4 DEF ControlReaped, EndsCancelled, Privates
  <2>5. CASE tp.reap_action # "CANCELLED"
    BY <1>1, <1>3, <2>1, <2>2, <2>3, <2>5 DEF ControlReaped, EndsReported, Privates, Report,
       UrbRecords, UrbResults, Statuses
  <2> QED  BY <2>3, <2>4, <2>5
<1>4. CASE mode \notin {"iso", "control"} /\ Surplus(hand)
  <2>1. lock' = lock /\ loop' = loop /\ tp.reap_action # "NORMAL"
    BY <1>4 DEF Surplus
  <2>2. CASE AllRetired
    <3>1. PICK s \in UrbStatuses :
            tp' = [tp EXCEPT !.num_retired = Retired, !.transferred = @ + urb[hand].actual,
                             !.urbs = FALSE, !.reap_status = s]
      BY <1>1, <1>4, <2>2 DEF Surplus, Privates, UrbStatuses, Statuses
    <3>2. Counts
      <4>1. tp' \in Privates
        BY Zenon, <1>0, <1>1, <2>1, <2>2, <3>1 DEF Privates
      <4>2. /\ tp'.in_flight = tp.in_flight /\ tp'.cancelling = tp.cancelling
            /\ tp'.timed_out = tp.timed_out
        BY Zenon, <1>1, <2>1, <2>2, <3>1 DEF Privates
      <4> QED  BY <1>0, <1>1, <2>1, <2>2, <3>1, <4>1, <4>2 DEF Counts, Privates, AllRetired
    <3>3. CASE tp.reap_action = "CANCELLED"
      BY <1>1, <1>4, <2>1, <2>2, <3>1, <3>2, <3>3 DEF Surplus, EndsCancelled, Privates
    <3>4. CASE tp.reap_action # "CANCELLED"
      <4>1. reaper' = Report(s)
        BY <1>1, <1>4, <2>2, <3>1, <3>4 DEF Surplus, Privates
      <4> QED  BY <1>1, <2>1, <3>1, <3>2, <4>1 DEF EndsReported, Privates, Report,
                  UrbStatuses, Statuses
    <3> QED  BY <3>2, <3>3, <3>4
  <2>3. CASE ~AllRetired
    <3>1. PICK s \in UrbStatuses :
            tp' = [tp EXCEPT !.num_retired = Retired, !.transferred = @ + urb[hand].actual,
                             !.urbs = TRUE, !.reap_status = s]
      BY <1>1, <1>4, <2>3 DEF Surplus, Privates
    <3>2. Counts
      <4>1. tp' \in Privates
        BY Zenon, <1>0, <1>1, <2>1, <3>1 DEF Privates
      <4>2. /\ tp'.in_flight = tp.in_flight /\ tp'.cancelling = tp.cancelling
            /\ tp'.timed_out = tp.timed_out
        BY Zenon, <1>1, <2>1, <3>1 DEF Privates
      <4> QED  BY <1>0, <1>1, <2>1, <3>1, <4>1, <4>2 DEF Counts, Privates, AllRetired
    <3>3. reaper' = At("idle")
      BY <1>4, <2>3 DEF Surplus
    <3> QED  BY <1>1, <2>1, <3>1, <3>2, <3>3 DEF GoesOn, Privates
  <2> QED  BY <2>2, <2>3
<1>5. CASE mode \notin {"iso", "control"} /\ Regular(hand)
  <2> DEFINE i == hand
             fails == urb[i].status \in {"gone", "stall", "error"}
             last == urb[i].status = "overflow" \/ (~fails /\ i = NumUrbs)
             short == ~fails /\ ~last /\ urb[i].actual < Len1(i)
             ends == last \/ ((fails \/ short) /\ AllRetired)
             discards == ~ends /\ (fails \/ short)
             action == CASE urb[i].status = "error" -> "ERROR"
                         [] short -> "COMPLETED_EARLY"
                         [] OTHER -> tp.reap_action
  <2>1. /\ tp.reap_action = "NORMAL"
        /\ action \in Actions \ {"CANCELLED"}
        /\ action = "NORMAL" /\ (fails \/ short) => urb[i].status \in {"gone", "stall"}
    BY <1>5 DEF Regular, Actions
  <2>2. ReapStatus(i) \in UrbStatuses
    BY <1>1 DEF ReapStatus, Privates, UrbStatuses, Statuses
  <2>3. CASE ends
    <3>1. /\ tp' = [tp EXCEPT !.num_retired = Retired, !.transferred = @ + urb[i].actual,
                              !.reap_status = ReapStatus(i), !.reap_action = action, !.urbs = FALSE]
          /\ reaper' = Report(ReapStatus(i)) /\ lock' = "free" /\ loop' = loop
      BY <1>5, <2>3 DEF Regular
    <3> HIDE DEF action
    <3>2. Counts
      <4>1. tp' \in Privates
        BY Zenon, <1>0, <1>1, <2>1, <2>2, <2>3, <3>1 DEF Privates
      <4>2. /\ tp'.in_flight = tp.in_flight /\ tp'.cancelling = tp.cancelling
            /\ tp'.timed_out = tp.timed_out
        BY Zenon, <1>1, <2>1, <2>2, <2>3, <3>1 DEF Privates
      <4> QED  BY <1>0, <1>1, <2>1, <2>2, <2>3, <3>1, <4>1, <4>2 DEF Counts, Privates,
                  AllRetired
    <3> QED  BY <1>1, <2>2, <3>1, <3>2 DEF EndsReported, Privates, Report, UrbStatuses, Statuses
  <2>4. CASE ~ends
    <3>1. /\ tp' = [tp EXCEPT !.num_retired = Retired, !.transferred = @ + urb[i].actual,
                              !.reap_status = ReapStatus(i), !.reap_action = action, !.urbs = TRUE]
          /\ ~discards => reaper' = At("idle") /\ lock' = "free" /\ loop' = loop
          /\ discards => /\ reaper' = At("discard") /\ lock' = "reaper"
                         /\ loop' = Discards(hand + 1, NumUrbs) /\ (fails \/ short)
      BY <1>5, <2>4 DEF Regular
    <3> HIDE DEF action
    <3>2. Counts
      <4>1. tp' \in Privates
        BY Zenon, <1>0, <1>1, <2>1, <2>2, <3>1 DEF Privates
      <4>2. /\ tp'.in_flight = tp.in_flight /\ tp'.cancelling = tp.cancelling
            /\ tp'.timed_out = tp.timed_out
        BY Zenon, <1>1, <2>1, <2>2, <3>1 DEF Privates
      <4> QED  BY <1>0, <1>1, <2>1, <2>2, <3>1, <4>1, <4>2 DEF Counts, Privates, AllRetired
    <3>3. CASE discards
      BY <1>1, <1>5, <2>1, <3>1, <3>2, <3>3 DEF DiscardsRest, Privates
    <3>4. CASE ~discards
      BY <1>1, <3>1, <3>2, <3>4 DEF GoesOn, Privates
    <3> QED  BY <3>3, <3>4
  <2> QED  BY <2>3, <2>4
<1> QED  BY <1>2, <1>3, <1>4, <1>5 DEF HandleReaped

(* A cancellation that has gone through its discards lets go of the lock   *)
(* and leaves reap_action as it was, or CANCELLED.                         *)
LEMMA CancelEndSteps ==
  ASSUME tp \in Privates, NEW t, CancelEnd(t)
  PROVE  /\ lock = t /\ lock' = "free" /\ Discarded /\ tp' \in Privates
         /\ cause' = IF loop.ret = "success" THEN t ELSE cause
         /\ tp'.cancelling /\ tp'.urbs = tp.urbs /\ tp'.in_flight = tp.in_flight
         /\ tp'.timed_out = tp.timed_out
         /\ \/ tp'.reap_action = tp.reap_action
            \/ loop.ret = "success" /\ tp'.reap_action = "CANCELLED"
<1>1. PICK action \in CancelActions :
        tp' = [tp EXCEPT !.cancelling = TRUE, !.reap_action = action]
  BY DEF CancelEnd
<1>2. action = tp.reap_action \/ (loop.ret = "success" /\ action = "CANCELLED")
  BY DEF CancelActions
<1>3. /\ tp'.cancelling /\ tp'.urbs = tp.urbs /\ tp'.in_flight = tp.in_flight
      /\ tp'.timed_out = tp.timed_out /\ tp'.reap_action = action
  BY <1>1 DEF Privates
<1>4. tp' \in Privates
  BY <1>1, <1>2 DEF Privates, Actions
<1> QED  BY <1>2, <1>3, <1>4 DEF CancelEnd

(* Each lock is held by the thread whose place says so.                    *)
LEMMA NextLocks ==
  ASSUME IInv, [Next]_vars PROVE Locks'
<1> USE DEF IInv, Typed, Locks, kernel
<1>1. CASE DeviceRuns
  BY <1>1 DEF DeviceRuns
<1>2. CASE Unplug
  BY <1>2 DEF Unplug
<1>3. CASE Discard
  BY <1>3 DEF Discard
<1>4. CASE SubmitLock
  BY <1>4 DEF SubmitLock
<1>5. CASE SubmitAdd
  BY <1>5 DEF SubmitAdd
<1>6. CASE SubmitUrb
  BY <1>6 DEF SubmitUrb
<1>7. CASE FirstRefused
  BY <1>7 DEF FirstRefused, Refused
<1>8. CASE BulkRefused
  BY <1>8 DEF BulkRefused, Refused
<1>9. CASE IsoRefused
  BY <1>9 DEF IsoRefused, Refused
<1>10. CASE SubmitReturns
  BY <1>10 DEF SubmitReturns
<1>11. CASE SubmitUndo
  BY <1>11 DEF SubmitUndo
<1>12. CASE Cancel
  BY <1>12 DEF Cancel, CancelBegin, CancelEnd
<1>13. CASE Expire
  BY <1>13 DEF Expire
<1>14. CASE TimerCancel
  BY <1>14 DEF TimerCancel, CancelBegin, CancelEnd
<1>15. CASE TimerLeave
  BY <1>15 DEF TimerLeave
<1>16. CASE Reap
  BY <1>16 DEF Reap, At
<1>17. CASE HandleReaped
  <2>0. /\ tp.urbs /\ tp.in_flight /\ owner = "libusb" /\ called = 0 /\ ~CancelLoop /\ ~fd_removed
        /\ hand \in Urbs /\ lock = "free" /\ reaper.pc = "reaped"
    BY <1>17 DEF HandleReaped, Kernel, Queues, Phases, Typed, Locks, CancelLoop
  <2>1. Counts /\ (GoesOn \/ DiscardsRest \/ EndsCancelled \/ EndsReported)
    BY <1>17, <2>0, UrbReaped
  <2>2. hand' = 0
        /\ UNCHANGED <<mode, length, urb, completed, line, sent,
                        flying, user, timer, fd_removed, owner, called, result, cause>>
    BY <1>17 DEF HandleReaped
  <2>3. CASE GoesOn
    BY <2>0, <2>1, <2>2, <2>3 DEF Counts, GoesOn, At
  <2>4. CASE DiscardsRest
    BY <2>0, <2>1, <2>2, <2>4 DEF Counts, DiscardsRest, At, Discards
  <2>5. CASE EndsCancelled
    BY <2>0, <2>1, <2>2, <2>5 DEF Counts, EndsCancelled, At
  <2>6. CASE EndsReported
    BY <2>0, <2>1, <2>2, <2>6 DEF Counts, EndsReported
  <2> QED  BY <2>1, <2>3, <2>4, <2>5, <2>6
<1>18. CASE RemainingDiscarded
  BY <1>18 DEF RemainingDiscarded, At
<1>19. CASE HandleCancellation
  BY <1>19 DEF HandleCancellation, Report
<1>20. CASE RemoveFromList
  BY <1>20 DEF RemoveFromList
<1>21. CASE Callback
  BY <1>21 DEF Callback, At
<1>22. CASE Disconnect
  BY <1>22 DEF Disconnect, At
<1>23. CASE FindLock
  BY <1>23 DEF FindLock, At
<1>24. CASE FindCheck
  BY <1>24 DEF FindCheck, At
<1>25. CASE ClearPriv
  BY <1>25 DEF ClearPriv, Report
<1>26. CASE UNCHANGED vars
  BY <1>26 DEF vars
<1> QED  BY <1>1, <1>2, <1>3, <1>4, <1>5, <1>6, <1>7, <1>8, <1>9, <1>10, <1>11, <1>12,
            <1>13, <1>14, <1>15, <1>16, <1>17, <1>18, <1>19, <1>20, <1>21, <1>22, <1>23,
            <1>24, <1>25, <1>26 DEF Next, User, Timer, Reaper

(* A transfer goes from its submission to its callback as Phases says:     *)
(* what is cancelled, discarded or reaped is in flight, and its URBs are   *)
(* freed before the callback and after the last of them is back.           *)
LEMMA NextPhases ==
  ASSUME IInv, [Next]_vars PROVE Phases'
<1> USE DEF IInv, Typed, Locks, Phases, CancelLoop, kernel
<1>1. CASE DeviceRuns
  BY <1>1 DEF DeviceRuns
<1>2. CASE Unplug
  BY <1>2 DEF Unplug
<1>3. CASE Discard
  BY <1>3 DEF Discard
<1>4. CASE SubmitLock
  BY <1>4 DEF SubmitLock
<1>5. CASE SubmitAdd
  BY <1>5 DEF SubmitAdd
<1>6. CASE SubmitUrb
  BY <1>6 DEF SubmitUrb
<1>7. CASE FirstRefused
  BY <1>7 DEF FirstRefused, Refused
<1>8. CASE BulkRefused
  BY <1>8 DEF BulkRefused, Refused
<1>9. CASE IsoRefused
  BY <1>9 DEF IsoRefused, Refused
<1>10. CASE SubmitReturns
  BY <1>10 DEF SubmitReturns
<1>11. CASE SubmitUndo
  BY <1>11 DEF SubmitUndo
<1>12. CASE Cancel
  <2> DEFINE able == tp.in_flight /\ ~tp.cancelling /\ tp.urbs
  <2>1. CASE user = "idle" /\ owner = "libusb" /\ CancelBegin("user", user, "cancel", "idle")
             /\ UNCHANGED cause /\ able
    BY <1>12, <2>1 DEF Cancel, CancelBegin, Discards
  <2>2. CASE user = "idle" /\ owner = "libusb" /\ CancelBegin("user", user, "cancel", "idle")
             /\ UNCHANGED cause /\ ~able
    <3>1. /\ tp' = IF tp.in_flight THEN [tp EXCEPT !.cancelling = TRUE] ELSE tp
          /\ lock = "free" /\ UNCHANGED <<lock, loop, timer, reaper, flying, cause>>
      BY <1>12, <2>2 DEF Cancel, CancelBegin
    <3>2. /\ tp'.in_flight = tp.in_flight /\ tp'.urbs = tp.urbs
             /\ (tp.cancelling => tp'.cancelling)
          /\ tp'.timed_out = tp.timed_out /\ tp'.reap_action = tp.reap_action
      BY <3>1 DEF Privates
    <3> QED  BY <1>12, <2>2, <3>1, <3>2 DEF Cancel, CancelBegin
  <2>3. CASE user = "cancel" /\ CancelEnd("user") /\ user' = "idle" /\ UNCHANGED loop
    BY <1>12, <2>3, CancelEndSteps DEF Cancel
  <2> QED  BY <1>12, <2>1, <2>2, <2>3 DEF Cancel
<1>13. CASE Expire
  BY <1>13 DEF Expire
<1>14. CASE TimerCancel
  <2> DEFINE able == tp.in_flight /\ ~tp.cancelling /\ tp.urbs
  <2>1. CASE timer = "lock" /\ CancelBegin("timer", timer, "cancel", "leave") /\ UNCHANGED cause
             /\ able
    BY <1>14, <2>1 DEF TimerCancel, CancelBegin, Discards
  <2>2. CASE timer = "lock" /\ CancelBegin("timer", timer, "cancel", "leave") /\ UNCHANGED cause
             /\ ~able
    <3>1. /\ tp' = IF tp.in_flight THEN [tp EXCEPT !.cancelling = TRUE] ELSE tp
          /\ lock = "free" /\ UNCHANGED <<lock, loop, user, reaper, flying, cause>>
      BY <1>14, <2>2 DEF TimerCancel, CancelBegin
    <3>2. /\ tp'.in_flight = tp.in_flight /\ tp'.urbs = tp.urbs
             /\ (tp.cancelling => tp'.cancelling)
          /\ tp'.timed_out = tp.timed_out /\ tp'.reap_action = tp.reap_action
      BY <3>1 DEF Privates
    <3> QED  BY <1>14, <2>2, <3>1, <3>2 DEF TimerCancel, CancelBegin
  <2>3. CASE timer = "cancel" /\ CancelEnd("timer")
             /\ timer' = (IF loop.ret = "success" THEN "mark" ELSE "leave") /\ UNCHANGED loop
    BY <1>14, <2>3, CancelEndSteps DEF TimerCancel
  <2> QED  BY <1>14, <2>1, <2>2, <2>3 DEF TimerCancel
<1>15. CASE TimerLeave
  BY <1>15 DEF TimerLeave
<1>16. CASE Reap
  <2>1. tp.urbs /\ hand' # 0
    <3>1. completed # <<>> /\ ~fd_removed /\ hand' = Head(completed)
      BY <1>16 DEF Reap
    <3>2. Head(completed) \in Urbs
      BY <3>1
    <3> QED  BY <3>1, <3>2, SomeUrbs DEF Kernel, Queues, Urbs
  <2> QED  BY <1>16, <2>1 DEF Reap, At
<1>17. CASE HandleReaped
  <2>0. /\ tp.urbs /\ tp.in_flight /\ owner = "libusb" /\ called = 0 /\ ~CancelLoop /\ ~fd_removed
        /\ hand \in Urbs /\ lock = "free" /\ reaper.pc = "reaped"
    BY <1>17 DEF HandleReaped, Kernel, Queues, Phases, Typed, Locks, CancelLoop
  <2>1. Counts /\ (GoesOn \/ DiscardsRest \/ EndsCancelled \/ EndsReported)
    BY <1>17, <2>0, UrbReaped
  <2>2. hand' = 0
        /\ UNCHANGED <<mode, length, urb, completed, line, sent,
                        flying, user, timer, fd_removed, owner, called, result, cause>>
    BY <1>17 DEF HandleReaped
  <2>3. CASE GoesOn
    BY <2>0, <2>1, <2>2, <2>3 DEF Counts, GoesOn, At
  <2>4. CASE DiscardsRest
    BY <2>0, <2>1, <2>2, <2>4 DEF Counts, DiscardsRest, At, Discards
  <2>5. CASE EndsCancelled
    BY <2>0, <2>1, <2>2, <2>5 DEF Counts, EndsCancelled, At
  <2>6. CASE EndsReported
    BY <2>0, <2>1, <2>2, <2>6 DEF Counts, EndsReported
  <2> QED  BY <2>1, <2>3, <2>4, <2>5, <2>6
<1>18. CASE RemainingDiscarded
  BY <1>18 DEF RemainingDiscarded, At
<1>19. CASE HandleCancellation
  BY <1>19 DEF HandleCancellation, Report
<1>20. CASE RemoveFromList
  BY <1>20 DEF RemoveFromList
<1>21. CASE Callback
  BY <1>21 DEF Callback, At
<1>22. CASE Disconnect
  BY <1>22 DEF Disconnect, At
<1>23. CASE FindLock
  BY <1>23 DEF FindLock, At
<1>24. CASE FindCheck
  BY <1>24 DEF FindCheck, At
<1>25. CASE ClearPriv
  BY <1>25 DEF ClearPriv, Report
<1>26. CASE UNCHANGED vars
  BY <1>26 DEF vars
<1> QED  BY <1>1, <1>2, <1>3, <1>4, <1>5, <1>6, <1>7, <1>8, <1>9, <1>10, <1>11, <1>12,
            <1>13, <1>14, <1>15, <1>16, <1>17, <1>18, <1>19, <1>20, <1>21, <1>22, <1>23,
            <1>24, <1>25, <1>26 DEF Next, User, Timer, Reaper

(* reap_action, TIMED_OUT and the status of the callback follow the        *)
(* cancellation that succeeded. The timeout holds flying_transfers_lock    *)
(* until it has marked the transfer, and HandleCancellation waits for it.  *)
LEMMA NextCauses ==
  ASSUME IInv, [Next]_vars PROVE Causes'
<1> USE DEF IInv, Typed, Locks, Phases, Causes, CauseReported, CancelLoop, kernel, UrbStatuses
<1>1. CASE DeviceRuns
  BY <1>1 DEF DeviceRuns
<1>2. CASE Unplug
  BY <1>2 DEF Unplug
<1>3. CASE Discard
  BY <1>3 DEF Discard
<1>4. CASE SubmitLock
  BY <1>4 DEF SubmitLock
<1>5. CASE SubmitAdd
  BY <1>5 DEF SubmitAdd
<1>6. CASE SubmitUrb
  BY <1>6 DEF SubmitUrb
<1>7. CASE FirstRefused
  BY <1>7 DEF FirstRefused, Refused
<1>8. CASE BulkRefused
  BY <1>8 DEF BulkRefused, Refused
<1>9. CASE IsoRefused
  BY <1>9 DEF IsoRefused, Refused
<1>10. CASE SubmitReturns
  BY <1>10 DEF SubmitReturns
<1>11. CASE SubmitUndo
  BY <1>11 DEF SubmitUndo
<1>12. CASE Cancel
  <2> DEFINE able == tp.in_flight /\ ~tp.cancelling /\ tp.urbs
  <2>1. CASE user = "idle" /\ owner = "libusb" /\ CancelBegin("user", user, "cancel", "idle")
             /\ UNCHANGED cause /\ able
    BY <1>12, <2>1 DEF Cancel, CancelBegin, Discards
  <2>2. CASE user = "idle" /\ owner = "libusb" /\ CancelBegin("user", user, "cancel", "idle")
             /\ UNCHANGED cause /\ ~able
    <3>1. /\ tp' = IF tp.in_flight THEN [tp EXCEPT !.cancelling = TRUE] ELSE tp
          /\ lock = "free" /\ UNCHANGED <<lock, loop, timer, reaper, flying, cause>>
      BY <1>12, <2>2 DEF Cancel, CancelBegin
    <3>2. /\ tp'.in_flight = tp.in_flight /\ tp'.urbs = tp.urbs
             /\ (tp.cancelling => tp'.cancelling)
          /\ tp'.timed_out = tp.timed_out /\ tp'.reap_action = tp.reap_action
      BY <3>1 DEF Privates
    <3> QED  BY <1>12, <2>2, <3>1, <3>2 DEF Cancel, CancelBegin
  <2>3. CASE user = "cancel" /\ CancelEnd("user") /\ user' = "idle" /\ UNCHANGED loop
    BY <1>12, <2>3, CancelEndSteps DEF Cancel
  <2> QED  BY <1>12, <2>1, <2>2, <2>3 DEF Cancel
<1>13. CASE Expire
  BY <1>13 DEF Expire
<1>14. CASE TimerCancel
  <2> DEFINE able == tp.in_flight /\ ~tp.cancelling /\ tp.urbs
  <2>1. CASE timer = "lock" /\ CancelBegin("timer", timer, "cancel", "leave") /\ UNCHANGED cause
             /\ able
    BY <1>14, <2>1 DEF TimerCancel, CancelBegin, Discards
  <2>2. CASE timer = "lock" /\ CancelBegin("timer", timer, "cancel", "leave") /\ UNCHANGED cause
             /\ ~able
    <3>1. /\ tp' = IF tp.in_flight THEN [tp EXCEPT !.cancelling = TRUE] ELSE tp
          /\ lock = "free" /\ UNCHANGED <<lock, loop, user, reaper, flying, cause>>
      BY <1>14, <2>2 DEF TimerCancel, CancelBegin
    <3>2. /\ tp'.in_flight = tp.in_flight /\ tp'.urbs = tp.urbs
             /\ (tp.cancelling => tp'.cancelling)
          /\ tp'.timed_out = tp.timed_out /\ tp'.reap_action = tp.reap_action
      BY <3>1 DEF Privates
    <3> QED  BY <1>14, <2>2, <3>1, <3>2 DEF TimerCancel, CancelBegin
  <2>3. CASE timer = "cancel" /\ CancelEnd("timer")
             /\ timer' = (IF loop.ret = "success" THEN "mark" ELSE "leave") /\ UNCHANGED loop
    BY <1>14, <2>3, CancelEndSteps DEF TimerCancel
  <2> QED  BY <1>14, <2>1, <2>2, <2>3 DEF TimerCancel
<1>15. CASE TimerLeave
  BY <1>15 DEF TimerLeave
<1>16. CASE Reap
  BY <1>16 DEF Reap, At
<1>17. CASE HandleReaped
  <2>0. /\ tp.urbs /\ tp.in_flight /\ owner = "libusb" /\ called = 0 /\ ~CancelLoop /\ ~fd_removed
        /\ hand \in Urbs /\ lock = "free" /\ reaper.pc = "reaped"
    BY <1>17 DEF HandleReaped, Kernel, Queues, Phases, Typed, Locks, CancelLoop
  <2>1. Counts /\ (GoesOn \/ DiscardsRest \/ EndsCancelled \/ EndsReported)
    BY <1>17, <2>0, UrbReaped
  <2>2. hand' = 0
        /\ UNCHANGED <<mode, length, urb, completed, line, sent,
                        flying, user, timer, fd_removed, owner, called, result, cause>>
    BY <1>17 DEF HandleReaped
  <2>3. CASE GoesOn
    BY <2>0, <2>1, <2>2, <2>3 DEF Counts, GoesOn, At
  <2>4. CASE DiscardsRest
    BY <2>0, <2>1, <2>2, <2>4 DEF Counts, DiscardsRest, At, Discards
  <2>5. CASE EndsCancelled
    BY <2>0, <2>1, <2>2, <2>5 DEF Counts, EndsCancelled, At
  <2>6. CASE EndsReported
    <3>1. reaper'.status = "CANCELLED" => FALSE
      BY <2>0, <2>6 DEF EndsReported, Results, ControlCancelled
    <3> QED  BY <2>0, <2>1, <2>2, <2>6, <3>1 DEF Counts, EndsReported
  <2> QED  BY <2>1, <2>3, <2>4, <2>5, <2>6
<1>18. CASE RemainingDiscarded
  BY <1>18 DEF RemainingDiscarded, At
<1>19. CASE HandleCancellation
  BY <1>19 DEF HandleCancellation, Report
<1>20. CASE RemoveFromList
  BY <1>20 DEF RemoveFromList
<1>21. CASE Callback
  BY <1>21 DEF Callback, At
<1>22. CASE Disconnect
  BY <1>22 DEF Disconnect, At
<1>23. CASE FindLock
  BY <1>23 DEF FindLock, At
<1>24. CASE FindCheck
  BY <1>24 DEF FindCheck, At
<1>25. CASE ClearPriv
  BY <1>25 DEF ClearPriv, Report
<1>26. CASE UNCHANGED vars
  BY <1>26 DEF vars
<1> QED  BY <1>1, <1>2, <1>3, <1>4, <1>5, <1>6, <1>7, <1>8, <1>9, <1>10, <1>11, <1>12,
            <1>13, <1>14, <1>15, <1>16, <1>17, <1>18, <1>19, <1>20, <1>21, <1>22, <1>23,
            <1>24, <1>25, <1>26 DEF Next, User, Timer, Reaper

-----------------------------------------------------------------------------
(* A set of URBs that is not empty has a last one.                         *)
LEMMA MaxOfUrbs ==
  ASSUME NEW n \in Nat, NEW S \in SUBSET (1..n), S # {}
  PROVE  \E m \in S : \A j \in S : j <= m
<1> DEFINE R == OpToRel(<, Nat)
           T == {n - j : j \in S}
<1>1. \A x, y \in Nat : <<y, x>> \in R <=> y < x
  BY DEF OpToRel
<1>2. IsWellFoundedOn(R, Nat)
  BY NatLessThanWellFounded
<1>3. T \in SUBSET Nat /\ T # {}
  <2>1. \A j \in S : n - j \in Nat
    OBVIOUS
  <2> QED  BY <2>1
<1> HIDE DEF R
<1>4. PICK x \in T : \A y \in T : ~ (<<y, x>> \in R)
  <2> HIDE DEF T
  <2> QED  BY <1>2, <1>3, WFMin
<1>5. PICK m \in S : x = n - m
  BY <1>4
<1>6. ASSUME NEW j \in S PROVE j <= m
  <2>1. n - j \in T /\ n - j \in Nat /\ n - m \in Nat
    BY <1>3
  <2>2. ~ (n - j < n - m)
    BY <1>1, <1>4, <1>5, <2>1
  <2> QED  BY <2>2
<1> QED  BY <1>6

(* The URBs behind the one at the head of the endpoint's queue.            *)
LEMMA TailOfQueue ==
  ASSUME Typed, Results, mode = "continuation", NEW i \in Urbs, Active(i)
  PROVE  \E c \in Nat : /\ Queued \ {i} = (i + 1)..(i + c) /\ i + c <= NumUrbs
                        /\ Cardinality(Queued \ {i}) = c
<1>1. NumUrbs \in Nat /\ Queued \subseteq 1..NumUrbs /\ i \in Nat /\ i <= NumUrbs
  BY SomeUrbs DEF Urbs, Queued
<1>2. CASE Queued \ {i} = {}
  <2>1. (i + 1)..(i + 0) = {}
    BY <1>1
  <2>2. Cardinality(Queued \ {i}) = 0 /\ i + 0 <= NumUrbs
    <3>1. Cardinality({}) = 0
      BY FS_EmptySet
    <3>2. Cardinality(Queued \ {i}) = 0
      BY Zenon, <1>2, <3>1
    <3> QED  BY <1>1, <3>2
  <2> QED  BY <1>2, <2>1, <2>2
<1>3. CASE Queued \ {i} # {}
  <2>1. PICK m \in Queued \ {i} : \A j \in Queued \ {i} : j <= m
    BY <1>1, <1>3, MaxOfUrbs
  <2>2. i \in Queued /\ \A j \in Queued : i <= j
    BY DEF Active
  <2>3. \A j \in Urbs : i < j /\ j < m => j \in Queued
    BY <2>1, <2>2 DEF Results, Contiguous, Queued
  <2>4. Queued \ {i} = (i + 1)..m
    <3>1. ASSUME NEW j \in Queued \ {i} PROVE j \in (i + 1)..m
      BY <1>1, <2>1, <2>2
    <3>2. ASSUME NEW j \in (i + 1)..m PROVE j \in Queued \ {i}
      <4>1. j \in Urbs /\ i < j /\ j <= m /\ m \in Queued
        BY <1>1, <2>1 DEF Urbs
      <4> QED  BY <1>1, <2>3, <4>1
    <3> QED  BY <3>1, <3>2
  <2>5. m \in Nat /\ m > i /\ m <= NumUrbs
    BY <1>1, <2>1, <2>2
  <2>6. Cardinality((i + 1)..m) = m - i
    BY <1>1, <2>5, FS_Interval
  <2>7. m - i \in Nat /\ i + (m - i) = m
    BY <1>1, <2>5
  <2> QED  BY <2>4, <2>5, <2>6, <2>7
<1> QED  BY <1>2, <1>3

(* What the kernel writes of a URB, and of no other.                       *)
LEMMA EndedUrb ==
  ASSUME Typed, NEW i \in Urbs, NEW from \in Int, NEW n \in Int, NEW status \in UrbResults
  PROVE  /\ Ended(i, from, n, status) \in [Urbs -> UrbRecords]
         /\ Ended(i, from, n, status)[i] =
               [at |-> "done", actual |-> n, from |-> from, status |-> status]
         /\ \A k \in Urbs \ {i} : Ended(i, from, n, status)[k] = urb[k]
BY DEF Typed, Ended, UrbRecords, UrbPlaces

(***************************************************************************)
(* A URB leaves the endpoint, with c more behind it.                       *)
(***************************************************************************)
Leaves(i, c, status) ==
    /\ i \in Queued /\ c \in Nat /\ i + c <= NumUrbs
    /\ \A k \in 1..c : i + k \in Queued
    /\ completed' \in Seq(Urbs) /\ Len(completed') = Len(completed) + 1 + c
    /\ \A k \in 1..Len(completed) : completed'[k] = completed[k]
    /\ completed'[Len(completed) + 1] = i
    /\ \A k \in 1..c : completed'[Len(completed) + 1 + k] = i + k
    /\ urb' \in [Urbs -> UrbRecords]
    /\ urb'[i].at = "done" /\ urb'[i].status = status
    /\ \A j \in Urbs : i < j /\ j <= i + c => urb'[j].at = "done" /\ urb'[j].status = "cancelled"
    /\ \A j \in Urbs : j < i \/ i + c < j => urb'[j] = urb[j]

(* ... and with the n units that the device has sent since the last one.   *)
Carries(i, c, n) ==
    /\ sent' = sent + n /\ urb'[i].actual = n /\ urb'[i].from = sent
    /\ \A j \in Urbs : i < j /\ j <= i + c => urb'[j].actual = 0 /\ urb'[j].from = sent + n

(* Complete is a URB that leaves, and what becomes of the endpoint.        *)
LEMMA CompleteLeaves ==
  ASSUME Typed, Results, NEW i \in Queued, NEW n \in Int, NEW status \in UrbResults,
         Complete(i, n, status), mode = "continuation" => Active(i) \/ status \in {"ok", "gone"}
  PROVE  /\ sent' \in Int /\ line' \in {"up", "halted", "ended", "gone"}
         /\ \E c \in Nat :
              /\ Leaves(i, c, status) /\ Carries(i, c, n)
              /\ c > 0 => mode = "continuation" /\ status \notin {"ok", "gone"}
              /\ IF mode = "continuation" /\ status \notin {"ok", "gone"}
                 THEN line' = "ended" /\ Queued = i..(i + c)
                 ELSE line' = (IF status = "stall" THEN "halted" ELSE line)
<1> DEFINE ends == mode = "continuation" /\ status \notin {"ok", "gone"}
           rest == IF ends THEN Queued \ {i} ELSE {}
<1>1. /\ NumUrbs \in Nat /\ i \in Urbs /\ i \in Nat /\ i <= NumUrbs /\ Urbs = 1..NumUrbs
      /\ completed \in Seq(Urbs) /\ sent \in Int /\ urb \in [Urbs -> UrbRecords]
      /\ line \in {"up", "halted", "ended", "gone"}
  BY SomeUrbs DEF Urbs, Queued, Typed
<1>2. PICK c \in Nat : /\ rest = (i + 1)..(i + c) /\ i + c <= NumUrbs /\ Cardinality(rest) = c
                       /\ c > 0 => ends
  <2>1. CASE ends
    BY <1>1, <2>1, TailOfQueue
  <2>2. CASE ~ends
    <3>1. (i + 1)..(i + 0) = {}
      BY <1>1
    <3> QED  BY <1>1, <2>2, <3>1, FS_EmptySet
  <2> QED  BY <2>1, <2>2
<1>3. /\ completed' = completed \o <<i>> \o [k \in 1..c |-> i + k]
      /\ urb' = [j \in Urbs |-> IF j \in rest THEN Ended(j, sent + n, 0, "cancelled")[j]
                                ELSE Ended(i, sent, n, status)[j]]
      /\ sent' = sent + n
      /\ line' = IF ends THEN "ended" ELSE IF status = "stall" THEN "halted" ELSE line
  BY <1>2 DEF Complete
<1>4. [k \in 1..c |-> i + k] \in Seq(Urbs) /\ Len([k \in 1..c |-> i + k]) = c
  BY <1>1, <1>2
<1>5. /\ completed' \in Seq(Urbs) /\ Len(completed') = Len(completed) + 1 + c
      /\ \A k \in 1..Len(completed) : completed'[k] = completed[k]
      /\ completed'[Len(completed) + 1] = i
      /\ \A k \in 1..c : completed'[Len(completed) + 1 + k] = i + k
  <2> DEFINE tail == [k \in 1..c |-> i + k]
  <2>1. \A k \in 1..c : tail[k] = i + k
    OBVIOUS
  <2> HIDE DEF tail
  <2>2. tail \in Seq(Urbs) /\ Len(tail) = c /\ completed' = completed \o <<i>> \o tail
    BY <1>3, <1>4 DEF tail
  <2> DEFINE head == completed \o <<i>>
  <2>3. /\ head \in Seq(Urbs) /\ Len(head) = Len(completed) + 1 /\ head[Len(completed) + 1] = i
        /\ \A k \in 1..Len(completed) : head[k] = completed[k]
    BY <1>1
  <2> HIDE DEF head
  <2>4. completed' = head \o tail
    BY <2>2 DEF head
  <2>5. /\ completed' \in Seq(Urbs) /\ Len(completed') = Len(head) + Len(tail)
        /\ \A k \in 1..Len(head) : completed'[k] = head[k]
        /\ \A k \in 1..Len(tail) : completed'[Len(head) + k] = tail[k]
    <3>1. /\ head \o tail \in Seq(Urbs) /\ Len(head \o tail) = Len(head) + Len(tail)
          /\ \A k \in 1..Len(head) + Len(tail) :
               (head \o tail)[k] = IF k <= Len(head) THEN head[k] ELSE tail[k - Len(head)]
      BY <2>2, <2>3, ConcatProperties
    <3>2. Len(head) \in Nat /\ Len(tail) \in Nat
      BY <2>2, <2>3
    <3>3. ASSUME NEW k \in 1..Len(tail)
          PROVE  /\ Len(head) + k \in 1..Len(head) + Len(tail) /\ ~ (Len(head) + k <= Len(head))
                 /\ (Len(head) + k) - Len(head) = k
      BY <3>2
    <3>4. \A k \in 1..Len(tail) : (head \o tail)[Len(head) + k] = tail[k]
      BY Zenon, <3>1, <3>3
    <3> QED  BY <2>4, <3>1, <3>2, <3>4
  <2>6. Len(completed) \in Nat /\ Len(head) = Len(completed) + 1 /\ Len(tail) = c
    BY <1>1, <2>2, <2>3
  <2>7. /\ \A k \in 1..Len(completed) : completed'[k] = completed[k]
        /\ completed'[Len(completed) + 1] = i
    BY <2>3, <2>5, <2>6
  <2> QED  BY <2>1, <2>5, <2>6, <2>7
<1>7. ASSUME NEW j \in Urbs
      PROVE  /\ j \in rest
                  => urb'[j] = [at |-> "done", actual |-> 0, from |-> sent + n,
                                status |-> "cancelled"]
             /\ j = i /\ i \notin rest
                  => urb'[j] = [at |-> "done", actual |-> n, from |-> sent, status |-> status]
             /\ j # i /\ j \notin rest => urb'[j] = urb[j]
             /\ urb'[j] \in UrbRecords
  <2>1. urb'[j] = IF j \in rest THEN Ended(j, sent + n, 0, "cancelled")[j]
                       ELSE Ended(i, sent, n, status)[j]
    BY <1>3
  <2>2. /\ Ended(i, sent, n, status) \in [Urbs -> UrbRecords]
        /\ Ended(i, sent, n, status)[i]
              = [at |-> "done", actual |-> n, from |-> sent, status |-> status]
        /\ \A k \in Urbs \ {i} : Ended(i, sent, n, status)[k] = urb[k]
    <3>1. i \in Urbs /\ sent \in Int /\ n \in Int /\ status \in UrbResults
      BY <1>1
    <3> QED  BY <3>1, EndedUrb
  <2>3. /\ Ended(j, sent + n, 0, "cancelled") \in [Urbs -> UrbRecords]
        /\ Ended(j, sent + n, 0, "cancelled")[j]
              = [at |-> "done", actual |-> 0, from |-> sent + n, status |-> "cancelled"]
    <3>1. sent + n \in Int /\ 0 \in Int /\ "cancelled" \in UrbResults
      BY <1>1 DEF UrbResults
    <3> QED  BY <3>1, EndedUrb
  <2> HIDE DEF rest
  <2> QED  BY <1>1, <2>1, <2>2, <2>3
<1>8. i \notin rest /\ \A k \in 1..c : i + k \in Queued
  <2>1. rest = (i + 1)..(i + c) /\ rest \subseteq Queued /\ i \in Nat /\ c \in Nat
    BY <1>1, <1>2
  <2> HIDE DEF rest
  <2>2. \A k \in 1..c : i + k \in (i + 1)..(i + c)
    BY <2>1
  <2> QED  BY <2>1, <2>2
<1>9. /\ urb'[i].at = "done" /\ urb'[i].status = status
      /\ \A j \in Urbs : i < j /\ j <= i + c
           => urb'[j].at = "done" /\ urb'[j].status = "cancelled"
      /\ \A j \in Urbs : j < i \/ i + c < j => urb'[j] = urb[j]
  <2> HIDE DEF rest
  <2>1. \A j \in Urbs : j \in rest <=> i < j /\ j <= i + c
    <3>1. rest = (i + 1)..(i + c) /\ c \in Nat
      BY <1>2
    <3> QED  BY <1>1, <3>1
  <2>2. \A j \in Urbs : j < i \/ i + c < j => j # i /\ j \notin rest
    BY <1>1, <1>2, <2>1
  <2>3. \A j \in Urbs : j < i \/ i + c < j => urb'[j] = urb[j]
    BY <1>7, <2>2
  <2>4. \A j \in Urbs : i < j /\ j <= i + c => urb'[j].at = "done" /\ urb'[j].status = "cancelled"
    BY <1>7, <2>1
  <2>5. urb'[i].at = "done" /\ urb'[i].status = status
    BY <1>1, <1>7, <1>8
  <2> QED  BY <2>3, <2>4, <2>5
<1>10. ends => Queued = i..(i + c)
  <2> SUFFICES ASSUME ends PROVE Queued = {i} \union rest /\ {i} \union rest = i..(i + c)
    BY <1>1, <1>2
  <2> QED  BY <1>1, <1>2
<1>11. Leaves(i, c, status)
  <2>1. urb' \in [Urbs -> UrbRecords]
    BY <1>3, <1>7
  <2> HIDE DEF rest
  <2> QED  BY <1>1, <1>2, <1>5, <1>8, <1>9, <2>1 DEF Leaves
<1>13. Carries(i, c, n)
  <2> HIDE DEF rest
  <2>1. \A j \in Urbs : i < j /\ j <= i + c => j \in rest
    <3>1. rest = (i + 1)..(i + c) /\ c \in Nat
      BY <1>2
    <3> QED  BY <1>1, <3>1
  <2>2. urb'[i].actual = n /\ urb'[i].from = sent
    BY <1>1, <1>7, <1>8
  <2>3. \A j \in Urbs : i < j /\ j <= i + c => urb'[j].actual = 0 /\ urb'[j].from = sent + n
    BY <1>7, <2>1
  <2> QED  BY <1>3, <2>2, <2>3 DEF Carries
<1>12. sent' \in Int /\ line' \in {"up", "halted", "ended", "gone"}
  BY <1>1, <1>3
<1> QED  BY <1>2, <1>3, <1>10, <1>11, <1>12, <1>13

(* What a step of the kernel does to the URBs: unplug, one leaves, or (in  *)
(* a continuation that fails) one leaves with all behind it.               *)
Unplugs == "unplug" \in Faults[mode] /\ line' = "gone" /\ UNCHANGED <<urb, completed, sent>>

Fills(i, c, status) ==
    \E n \in 0..Len1(i) : Carries(i, c, n) /\ (status = "gone" => n = 0)

Runs(i, c, status) ==
    /\ Leaves(i, c, status) /\ sent' \in Int /\ Fills(i, c, status)
    /\ status \in UrbResults \ {"cancelled"}
    /\ Active(i) \/ (status = "gone" /\ "unplug" \in Faults[mode])
    /\ status = "stall" => mode # "iso" /\ "stall" \in Faults[mode]
    /\ status = "overflow" => i = NumUrbs
    /\ IF status = "gone" THEN "unplug" \in Faults[mode] ELSE line = "up"
    /\ c > 0 => mode = "continuation" /\ status \notin {"ok", "gone"}
    /\ IF mode = "continuation" /\ status \notin {"ok", "gone"}
       THEN line' = "ended" /\ Queued = i..(i + c)
       ELSE line' = (IF status = "stall" THEN "halted" ELSE line)

threads == <<mode, length, buffer, lock, flying, user, timer, reaper, loop, hand, tp,
             fd_removed, owner, called, result, cause>>

(* The steps of the kernel and the device are of these two kinds.          *)
LEMMA KernelSteps ==
  ASSUME Typed, Results, DeviceRuns \/ Unplug
  PROVE  /\ UNCHANGED threads
         /\ Unplugs \/ \E i \in Queued, c \in Nat, status \in UrbResults : Runs(i, c, status)
<1>1. ASSUME NEW i \in Queued, NEW n \in 0..Len1(i),
             NEW status \in UrbResults \ {"cancelled"},
             Complete(i, n, status), status = "gone" => n = 0,
             Active(i) \/ (status = "gone" /\ "unplug" \in Faults[mode]),
             status = "stall" => mode # "iso" /\ "stall" \in Faults[mode],
             status = "overflow" => i = NumUrbs,
             IF status = "gone" THEN "unplug" \in Faults[mode] ELSE line = "up"
      PROVE  \E c \in Nat : Runs(i, c, status)
  <2>1. i \in Urbs /\ n \in Int
    BY LengthsOfUrbs DEF Queued
  <2>2. PICK c \in Nat :
          /\ Leaves(i, c, status) /\ Carries(i, c, n) /\ sent' \in Int
          /\ c > 0 => mode = "continuation" /\ status \notin {"ok", "gone"}
          /\ IF mode = "continuation" /\ status \notin {"ok", "gone"}
             THEN line' = "ended" /\ Queued = i..(i + c)
             ELSE line' = (IF status = "stall" THEN "halted" ELSE line)
    BY <1>1, <2>1, CompleteLeaves
  <2>3. Fills(i, c, status)
    BY <1>1, <2>2 DEF Fills
  <2> QED  BY <1>1, <2>2, <2>3 DEF Runs
<1>2. CASE DeviceRuns
  <2>1. PICK i \in Urbs :
          /\ Active(i)
          /\ \/ Complete(i, Len1(i), "ok")
             \/ /\ mode # "iso"
                /\ \E n \in 0..(Len1(i) - 1) :
                    \/ Complete(i, n,
                               IF mode = "continuation" /\ i < NumUrbs THEN "short" ELSE "ok")
                    \/ Fault("stall") /\ Complete(i, n, "stall")
                    \/ Fault("error") /\ Complete(i, n, "error")
             \/ Fault("overflow") /\ i = NumUrbs /\ mode # "iso"
                /\ Complete(i, Len1(i), "overflow")
    BY <1>2 DEF DeviceRuns
  <2>2. i \in Queued /\ Len1(i) \in Nat
    BY <2>1, LengthsOfUrbs DEF Active
  <2>3. PICK n \in 0..Len1(i), status \in {"ok", "short", "stall", "error", "overflow"} :
          /\ Complete(i, n, status)
          /\ status = "stall" => mode # "iso" /\ "stall" \in Faults[mode]
          /\ status = "overflow" => i = NumUrbs
    <3>1. CASE Complete(i, Len1(i), "ok")
      BY <2>2, <3>1
    <3>2. CASE Fault("overflow") /\ i = NumUrbs /\ Complete(i, Len1(i), "overflow")
      BY <2>2, <3>2
    <3>3. ASSUME mode # "iso", NEW n \in 0..(Len1(i) - 1),
                 \/ Complete(i, n, IF mode = "continuation" /\ i < NumUrbs THEN "short" ELSE "ok")
                 \/ Fault("stall") /\ Complete(i, n, "stall")
                 \/ Fault("error") /\ Complete(i, n, "error")
          PROVE  \E m \in 0..Len1(i), status \in {"ok", "short", "stall", "error", "overflow"} :
                   /\ Complete(i, m, status)
                   /\ status = "stall" => mode # "iso" /\ "stall" \in Faults[mode]
                   /\ status = "overflow" => i = NumUrbs
      <4>1. n \in 0..Len1(i)
        BY <2>2
      <4>2. CASE Complete(i, n, "ok") \/ Complete(i, n, "short")
        BY <4>1, <4>2
      <4>3. CASE Fault("stall") /\ Complete(i, n, "stall")
        BY <3>3, <4>1, <4>3 DEF Fault
      <4>4. CASE Complete(i, n, "error")
        BY <4>1, <4>4
      <4> QED  BY <3>3, <4>2, <4>3, <4>4
    <3> QED  BY <2>1, <3>1, <3>2, <3>3
  <2>4. status \in UrbResults \ {"cancelled"} /\ status # "gone" /\ line = "up"
    BY <1>2 DEF UrbResults, DeviceRuns
  <2>5. \E c \in Nat : Runs(i, c, status)
    BY <1>1, <2>1, <2>2, <2>3, <2>4
  <2> QED  BY <1>2, <2>2, <2>4, <2>5 DEF DeviceRuns, threads
<1>3. CASE Unplug
  <2>1. "unplug" \in Faults[mode] /\ UNCHANGED threads
    BY <1>3 DEF Unplug, Fault, threads
  <2>2. CASE line # "gone" /\ line' = "gone" /\ UNCHANGED <<urb, completed, sent>>
    BY <2>1, <2>2 DEF Unplugs
  <2>3. CASE \E i \in Queued : Complete(i, 0, "gone")
    <3>1. PICK i \in Queued : Complete(i, 0, "gone")
      BY <2>3
    <3>2. 0 \in 0..Len1(i) /\ "gone" \in UrbResults \ {"cancelled"}
      BY LengthsOfUrbs DEF UrbResults, Queued
    <3>3. \E c \in Nat : Runs(i, c, "gone")
      BY <1>1, <2>1, <3>1, <3>2
    <3> QED  BY <2>1, <3>2, <3>3
  <2> QED  BY <1>3, <2>2, <2>3 DEF Unplug
<1> QED  BY <1>2, <1>3

(* A URB that is discarded comes back at the end of the queue.             *)
Discarded1(i) ==
    /\ i \in Queued /\ completed' = Append(completed, i) /\ sent' \in Int /\ line' = line
    /\ \E n \in 0..Len1(i) : Carries(i, 0, n) /\ (~Active(i) => n = 0)
    /\ urb' \in [Urbs -> UrbRecords]
    /\ urb'[i].at = "done" /\ urb'[i].status = "cancelled"
    /\ \A j \in Urbs \ {i} : urb'[j] = urb[j]

(* One ioctl of discard_urbs.                                              *)
LEMMA DiscardSteps ==
  ASSUME Typed, Discard
  PROVE  /\ UNCHANGED <<mode, length, lock, flying, user, timer, reaper, hand, tp,
                        fd_removed, owner, called, result, cause>>
         /\ lock # "free" /\ loop.at >= loop.first
         /\ loop' \in Loops /\ loop'.first = loop.first /\ loop'.last = loop.last
         /\ loop'.at = loop.at - 1
         /\ \/ line = "gone" /\ UNCHANGED kernel /\ loop'.ret = "no_device"
            \/ line # "gone" /\ Discarded1(loop.at) /\ loop'.ret = loop.ret
            \/ /\ line # "gone" /\ loop.at \notin Queued /\ UNCHANGED kernel
               /\ loop'.ret = IF loop.at = loop.last THEN "not_found" ELSE loop.ret
<1>1. loop \in Loops
  BY DEF Typed
<1>2. lock # "free" /\ loop.at >= loop.first
  BY DEF Discard
<1>3. UNCHANGED <<mode, length, lock, flying, user, timer, reaper, hand, tp,
                  fd_removed, owner, called, result, cause>>
  BY DEF Discard
<1>4. CASE line = "gone" /\ loop' = [loop EXCEPT !.at = @ - 1, !.ret = "no_device"]
           /\ UNCHANGED kernel
  <2>1. loop.at - 1 \in Int /\ "no_device" \in {"success", "not_found", "no_device"}
    BY <1>1 DEF Loops
  <2>2. loop' \in Loops
    BY Zenon, <1>1, <1>4, <2>1 DEF Loops
  <2>3. /\ loop'.first = loop.first /\ loop'.last = loop.last /\ loop'.at = loop.at - 1
        /\ loop'.ret = "no_device"
    BY <1>1, <1>4 DEF Loops
  <2> QED  BY <1>2, <1>3, <1>4, <2>2, <2>3
<1>5. CASE /\ line # "gone" /\ loop.at \in Queued
           /\ \E n \in IF Active(loop.at) /\ line = "up" /\ mode # "iso"
                      THEN 0..Len1(loop.at) ELSE {0} :
                  urb' = Ended(loop.at, sent, n, "cancelled") /\ sent' = sent + n
           /\ completed' = Append(completed, loop.at)
           /\ loop' = [loop EXCEPT !.at = @ - 1]
           /\ UNCHANGED line
  <2>1. loop.at \in Urbs
    BY <1>5 DEF Queued
  <2>2. PICK n \in 0..Len1(loop.at) :
          /\ urb' = Ended(loop.at, sent, n, "cancelled") /\ sent' = sent + n
          /\ ~Active(loop.at) => n = 0
    BY <1>5, <2>1, LengthsOfUrbs
  <2>3. /\ urb' \in [Urbs -> UrbRecords]
        /\ urb'[loop.at] = [at |-> "done", actual |-> n, from |-> sent, status |-> "cancelled"]
        /\ \A k \in Urbs \ {loop.at} : urb'[k] = urb[k]
    <3>1. "cancelled" \in UrbResults /\ sent \in Int /\ n \in Int
      BY <2>1, LengthsOfUrbs DEF UrbResults, Typed
    <3> QED  BY <2>1, <2>2, <3>1, EndedUrb
  <2>4. sent' \in Int /\ loop.at \in Nat
    BY <2>1, <2>2, LengthsOfUrbs, SomeUrbs DEF Typed, Urbs
  <2>7. Carries(loop.at, 0, n)
    BY <2>2, <2>3, <2>4, SomeUrbs DEF Carries, Urbs
  <2>5. Discarded1(loop.at)
    BY <1>5, <2>2, <2>3, <2>4, <2>7 DEF Discarded1
  <2>6. loop' \in Loops /\ loop'.first = loop.first /\ loop'.last = loop.last
        /\ loop'.at = loop.at - 1 /\ loop'.ret = loop.ret
    BY <1>1, <1>5 DEF Loops
  <2> QED  BY <1>2, <1>3, <1>5, <2>5, <2>6
<1>6. CASE /\ line # "gone" /\ loop.at \notin Queued /\ UNCHANGED kernel
           /\ loop' = [loop EXCEPT !.at = @ - 1,
                                    !.ret = IF loop.at = loop.last THEN "not_found" ELSE @]
  <2>1. loop.at - 1 \in Int
        /\ (IF loop.at = loop.last THEN "not_found" ELSE loop.ret)
              \in {"success", "not_found", "no_device"}
    BY <1>1 DEF Loops
  <2>2. loop' \in Loops
    BY Zenon, <1>1, <1>6, <2>1 DEF Loops
  <2>3. /\ loop'.first = loop.first /\ loop'.last = loop.last /\ loop'.at = loop.at - 1
        /\ loop'.ret = (IF loop.at = loop.last THEN "not_found" ELSE loop.ret)
    BY <1>1, <1>6 DEF Loops
  <2> QED  BY <1>2, <1>3, <1>6, <2>2, <2>3
<1> QED  BY <1>4, <1>5, <1>6 DEF Discard

(* The event thread takes the first of the URBs that are done.             *)
LEMMA ReapSteps ==
  ASSUME Typed, Reap
  PROVE  /\ UNCHANGED <<mode, length, line, sent, lock, flying, user, timer, loop, tp, fd_removed,
                        owner, called, result, cause>>
         /\ reaper.pc = "idle" /\ ~fd_removed /\ reaper' = At("reaped")
         /\ hand' = completed[1] /\ hand' \in Urbs
         /\ completed \in Seq(Urbs) /\ Len(completed) \in Nat \ {0}
         /\ completed' \in Seq(Urbs) /\ Len(completed') = Len(completed) - 1
         /\ \A k \in 1..Len(completed') : completed'[k] = completed[k + 1]
         /\ urb' \in [Urbs -> UrbRecords]
         /\ urb'[hand'].at = "back" /\ urb'[hand'].status = urb[hand'].status
         /\ \A j \in Urbs \ {hand'} : urb'[j] = urb[j]
<1>1. completed # <<>> /\ completed \in Seq(Urbs) /\ hand' = Head(completed)
      /\ completed' = Tail(completed) /\ urb' = [urb EXCEPT ![Head(completed)].at = "back"]
      /\ urb \in [Urbs -> UrbRecords]
  BY DEF Reap, Typed
<1>2. /\ Len(completed) \in Nat \ {0} /\ completed' \in Seq(Urbs)
      /\ Len(completed') = Len(completed) - 1
      /\ \A k \in 1..Len(completed') : completed'[k] = completed[k + 1]
      /\ hand' = completed[1] /\ hand' \in Urbs
  BY <1>1
<1>3. /\ urb' \in [Urbs -> UrbRecords]
      /\ urb'[hand'].at = "back" /\ urb'[hand'].status = urb[hand'].status
      /\ \A j \in Urbs \ {hand'} : urb'[j] = urb[j]
  BY <1>1, <1>2 DEF UrbRecords, UrbPlaces
<1> QED  BY <1>1, <1>2, <1>3 DEF Reap

(* The types of the URBs and of what the kernel keeps.                     *)
LEMMA TypedUrbs ==
  ASSUME IInv, [Next]_vars
  PROVE  /\ urb' \in [Urbs -> UrbRecords] /\ completed' \in Seq(Urbs) /\ hand' \in {0} \union Urbs
         /\ line' \in {"up", "halted", "ended", "gone"} /\ sent' \in Int
<1> USE DEF IInv, Typed, kernel
<1>1. CASE DeviceRuns \/ Unplug
  <2>1. UNCHANGED hand
    BY <1>1, KernelSteps DEF threads
  <2>2. CASE Unplugs
    BY <2>1, <2>2 DEF Unplugs
  <2>3. ASSUME NEW i \in Queued, NEW c \in Nat, NEW status \in UrbResults, Runs(i, c, status)
        PROVE  /\ urb' \in [Urbs -> UrbRecords] /\ completed' \in Seq(Urbs)
               /\ line' \in {"up", "halted", "ended", "gone"} /\ sent' \in Int
    BY <2>3 DEF Runs, Leaves
  <2> QED  BY <1>1, <2>1, <2>2, <2>3, KernelSteps
<1>2. CASE Discard
  <2>1. UNCHANGED hand
    BY <1>2, DiscardSteps
  <2>2. CASE UNCHANGED kernel
    BY <2>1, <2>2
  <2>3. CASE Discarded1(loop.at)
    BY <2>1, <2>3 DEF Discarded1, Queued
  <2> QED  BY <1>2, <2>2, <2>3, DiscardSteps
<1>3. CASE Reap
  BY <1>3, ReapSteps
<1>4. CASE HandleReaped
  BY <1>4 DEF HandleReaped
<1>5. CASE SubmitAdd
  <2>1. "ok" \in UrbResults /\ "idle" \in UrbPlaces
    BY DEF UrbResults, UrbPlaces
  <2> QED  BY <1>5, <2>1 DEF SubmitAdd, UrbRecords
<1>6. CASE SubmitUrb
  <2>1. PICK i \in Urbs : urb' = [urb EXCEPT ![i].at = "queued"]
    BY <1>6 DEF SubmitUrb
  <2>2. [urb[i] EXCEPT !.at = "queued"] \in UrbRecords
    BY DEF UrbRecords, UrbPlaces
  <2>3. urb' \in [Urbs -> UrbRecords]
    BY <2>1, <2>2
  <2> QED  BY <1>6, <2>3 DEF SubmitUrb
<1>7. CASE FirstRefused \/ BulkRefused \/ IsoRefused
  BY <1>7 DEF FirstRefused, BulkRefused, IsoRefused, Refused
<1>8. CASE SubmitLock \/ SubmitReturns \/ SubmitUndo \/ Cancel
  BY <1>8 DEF SubmitLock, SubmitReturns, SubmitUndo, Cancel
<1>9. CASE Timer
  BY <1>9 DEF Timer, Expire, TimerCancel, TimerLeave
<1>10. CASE RemainingDiscarded \/ HandleCancellation \/ RemoveFromList \/ Callback
  BY <1>10 DEF RemainingDiscarded, HandleCancellation, RemoveFromList, Callback
<1>11. CASE Disconnect \/ FindLock \/ FindCheck \/ ClearPriv
  BY <1>11 DEF Disconnect, FindLock, FindCheck, ClearPriv
<1>12. CASE UNCHANGED vars
  BY <1>12 DEF vars
<1> QED  BY <1>1, <1>2, <1>3, <1>4, <1>5, <1>6, <1>7, <1>8, <1>9, <1>10, <1>11, <1>12
         DEF Next, User, Reaper

ThreadTypes ==
    /\ {lock, flying} \subseteq {"free", "user", "timer", "reaper"}
    /\ user \in UserPcs /\ timer \in TimerPcs
    /\ reaper \in [pc : ReaperPcs, status : Statuses]
    /\ loop \in Loops
    /\ fd_removed \in BOOLEAN /\ owner \in {"user", "libusb"} /\ called \in Nat
    /\ result \in [status : Statuses, actual : Int]
    /\ cause \in {"none", "user", "timer"}

(* The types of what the threads keep.                                     *)
LEMMA TypedThreads ==
  ASSUME IInv, ThreadTypes, [Next]_vars PROVE ThreadTypes'
<1> USE DEF ThreadTypes, UserPcs, TimerPcs, ReaperPcs, Statuses, Loops, At, Report, kernel, Discards
<1>0. Typed
  BY DEF IInv
<1>1. CASE DeviceRuns
  BY <1>1, <1>0, SomeUrbs DEF DeviceRuns
<1>2. CASE Unplug
  BY <1>2, <1>0, SomeUrbs DEF Unplug
<1>3. CASE Discard
  BY <1>3, <1>0, DiscardSteps
<1>4. CASE SubmitLock
  BY <1>4, <1>0, SomeUrbs DEF SubmitLock
<1>5. CASE SubmitAdd
  BY <1>5, <1>0, SomeUrbs DEF SubmitAdd
<1>6. CASE SubmitUrb
  BY <1>6, <1>0, SomeUrbs DEF SubmitUrb
<1>7. CASE FirstRefused
  BY <1>7, <1>0, SomeUrbs DEF FirstRefused, Refused
<1>8. CASE BulkRefused
  <2>1. PICK i \in Urbs : loop' \in {loop, Discards(1, i - 1)} /\ i \in Int
    BY <1>8, <1>0, SomeUrbs DEF BulkRefused, Urbs
  <2>2. loop' \in Loops
    BY <2>1
  <2> QED  BY <1>8, <2>2 DEF BulkRefused, Refused
<1>9. CASE IsoRefused
  <2>1. PICK i \in Urbs : loop' \in {loop, Discards(1, i - 1)} /\ i \in Int
    BY <1>9, <1>0, SomeUrbs DEF IsoRefused, Urbs
  <2>2. loop' \in Loops
    BY <2>1
  <2> QED  BY <1>9, <2>2 DEF IsoRefused, Refused
<1>10. CASE SubmitReturns
  BY <1>10, <1>0, SomeUrbs DEF SubmitReturns
<1>11. CASE SubmitUndo
  BY <1>11, <1>0, SomeUrbs DEF SubmitUndo
<1>12. CASE Cancel
  <2>1. CASE CancelBegin("user", user, "cancel", "idle") /\ UNCHANGED cause
    BY <1>12, <2>1, <1>0, SomeUrbs DEF Cancel, CancelBegin
  <2>2. CASE CancelEnd("user") /\ user' = "idle" /\ UNCHANGED loop
    BY <1>12, <2>2, <1>0, CancelEndSteps DEF Cancel, Typed
  <2> QED  BY <1>12, <2>1, <2>2 DEF Cancel
<1>13. CASE Expire
  BY <1>13, <1>0, SomeUrbs DEF Expire
<1>14. CASE TimerCancel
  <2>1. CASE CancelBegin("timer", timer, "cancel", "leave") /\ UNCHANGED cause
    BY <1>14, <2>1, <1>0, SomeUrbs DEF TimerCancel, CancelBegin
  <2>2. CASE /\ CancelEnd("timer") /\ UNCHANGED loop
             /\ timer' = IF loop.ret = "success" THEN "mark" ELSE "leave"
    BY <1>14, <2>2, <1>0, CancelEndSteps DEF TimerCancel, Typed
  <2> QED  BY <1>14, <2>1, <2>2 DEF TimerCancel
<1>15. CASE TimerLeave
  BY <1>15, <1>0, SomeUrbs DEF TimerLeave
<1>16. CASE Reap
  BY <1>16, <1>0, SomeUrbs DEF Reap, At
<1>17. CASE HandleReaped
  <2>0. hand \in Urbs
    BY <1>17, <1>0 DEF IInv, HandleReaped, Phases, Typed
  <2>1. Counts /\ (GoesOn \/ DiscardsRest \/ EndsCancelled \/ EndsReported)
    BY <1>17, <1>0, <2>0, UrbReaped
  <2>2. UNCHANGED <<flying, user, timer, fd_removed, owner, called, result, cause>>
    BY <1>17 DEF HandleReaped
  <2>3. hand + 1 \in Int /\ NumUrbs \in Int
    BY <1>0, <2>0, SomeUrbs DEF Urbs
  <2>4. CASE GoesOn
    BY <2>2, <2>4 DEF GoesOn
  <2>5. CASE DiscardsRest
    BY <2>2, <2>3, <2>5 DEF DiscardsRest, Discards
  <2>6. CASE EndsCancelled
    BY <2>2, <2>6 DEF EndsCancelled
  <2>7. CASE EndsReported
    BY <2>2, <2>7 DEF EndsReported
  <2> QED  BY <2>1, <2>4, <2>5, <2>6, <2>7
<1>18. CASE RemainingDiscarded
  BY <1>18, <1>0, SomeUrbs DEF RemainingDiscarded, At
<1>19. CASE HandleCancellation
  BY <1>19, <1>0, SomeUrbs DEF HandleCancellation, Report
<1>20. CASE RemoveFromList
  BY <1>20, <1>0, SomeUrbs DEF RemoveFromList
<1>21. CASE Callback
  <2>1. tp.transferred \in Int /\ reaper.status \in Statuses
    BY <1>0 DEF Typed, Privates
  <2> QED  BY <1>21, <2>1 DEF Callback, At
<1>22. CASE Disconnect
  BY <1>22, <1>0, SomeUrbs DEF Disconnect, At
<1>23. CASE FindLock
  BY <1>23, <1>0, SomeUrbs DEF FindLock, At
<1>24. CASE FindCheck
  BY <1>24, <1>0, SomeUrbs DEF FindCheck, At
<1>25. CASE ClearPriv
  BY <1>25, <1>0, SomeUrbs DEF ClearPriv, Report
<1>26. CASE UNCHANGED vars
  BY <1>26, <1>0, SomeUrbs DEF vars
<1> QED  BY <1>1, <1>2, <1>3, <1>4, <1>5, <1>6, <1>7, <1>8, <1>9, <1>10, <1>11, <1>12,
            <1>13, <1>14, <1>15, <1>16, <1>17, <1>18, <1>19, <1>20, <1>21, <1>22, <1>23,
            <1>24, <1>25, <1>26 DEF Next, User, Timer, Reaper

(* The types of the fields of the transfer.                                *)
LEMMA TypedPrivates ==
  ASSUME IInv, tp \in Privates, [Next]_vars PROVE tp' \in Privates
<1> USE DEF Privates, Actions, Statuses, UrbStatuses, kernel
<1>0. Typed
  BY DEF IInv
<1>1. CASE DeviceRuns
  BY <1>1 DEF DeviceRuns
<1>2. CASE Unplug
  BY <1>2 DEF Unplug
<1>3. CASE Discard
  BY <1>3 DEF Discard
<1>4. CASE SubmitLock
  BY <1>4 DEF SubmitLock
<1>5. CASE SubmitAdd
  BY <1>5 DEF SubmitAdd
<1>6. CASE SubmitUrb
  BY <1>6 DEF SubmitUrb
<1>7. CASE FirstRefused
  BY <1>7 DEF FirstRefused, Refused
<1>8. CASE BulkRefused
  <2>1. PICK i \in Urbs \ {1}, a \in {"COMPLETED_EARLY", "SUBMIT_FAILED"} :
          tp' = [tp EXCEPT !.reap_action = a, !.num_retired = @ + NotSubmitted(i)]
    BY <1>8 DEF BulkRefused
  <2>2. tp.num_retired + NotSubmitted(i) \in Int
    BY <1>0, SomeUrbs DEF NotSubmitted, Urbs
  <2>3. a \in Actions
    BY DEF Actions
  <2> QED  BY Zenon, <2>1, <2>2, <2>3 DEF Privates
<1>9. CASE IsoRefused
  <2>1. PICK i \in Urbs \ {1} :
                 tp' = [tp EXCEPT !.reap_action = "SUBMIT_FAILED", !.num_retired = NotSubmitted(i)]
    BY <1>9 DEF IsoRefused
  <2>2. NotSubmitted(i) \in Int
    BY <1>0, SomeUrbs DEF NotSubmitted, Urbs
  <2> QED  BY Zenon, <2>1, <2>2 DEF Privates, Actions
<1>10. CASE SubmitReturns
  BY <1>10 DEF SubmitReturns
<1>11. CASE SubmitUndo
  BY <1>11 DEF SubmitUndo
<1>12. CASE Cancel
  <2>1. CASE CancelBegin("user", user, "cancel", "idle")
    BY <2>1 DEF CancelBegin
  <2>2. CASE CancelEnd("user")
    BY <2>2, CancelEndSteps
  <2> QED  BY <1>12, <2>1, <2>2 DEF Cancel
<1>13. CASE Expire
  BY <1>13 DEF Expire
<1>14. CASE TimerCancel
  <2>1. CASE CancelBegin("timer", timer, "cancel", "leave")
    BY <2>1 DEF CancelBegin
  <2>2. CASE CancelEnd("timer")
    BY <2>2, CancelEndSteps
  <2> QED  BY <1>14, <2>1, <2>2 DEF TimerCancel
<1>15. CASE TimerLeave
  BY <1>15 DEF TimerLeave
<1>16. CASE Reap
  BY <1>16 DEF Reap, At
<1>17. CASE HandleReaped
  <2>0. hand \in Urbs
    BY <1>17, <1>0 DEF IInv, HandleReaped, Phases, Typed
  <2> QED  BY <1>17, <1>0, <2>0, UrbReaped DEF Counts
<1>18. CASE RemainingDiscarded
  BY <1>18 DEF RemainingDiscarded, At
<1>19. CASE HandleCancellation
  BY <1>19 DEF HandleCancellation, Report
<1>20. CASE RemoveFromList
  BY <1>20 DEF RemoveFromList
<1>21. CASE Callback
  BY <1>21 DEF Callback, At
<1>22. CASE Disconnect
  BY <1>22 DEF Disconnect, At
<1>23. CASE FindLock
  BY <1>23 DEF FindLock, At
<1>24. CASE FindCheck
  BY <1>24 DEF FindCheck, At
<1>25. CASE ClearPriv
  BY <1>25 DEF ClearPriv, Report
<1>26. CASE UNCHANGED vars
  BY <1>26 DEF vars
<1> QED  BY <1>1, <1>2, <1>3, <1>4, <1>5, <1>6, <1>7, <1>8, <1>9, <1>10, <1>11, <1>12,
            <1>13, <1>14, <1>15, <1>16, <1>17, <1>18, <1>19, <1>20, <1>21, <1>22, <1>23,
            <1>24, <1>25, <1>26 DEF Next, User, Timer, Reaper

(* Every variable keeps its type.                                          *)
LEMMA NextTyped == ASSUME IInv, [Next]_vars PROVE Typed'
BY TypedUrbs, TypedThreads, TypedPrivates, SameTransfer DEF IInv, Typed, ThreadTypes

-----------------------------------------------------------------------------
(***************************************************************************)
(* What is left of a step for the URBs.  Frame: nothing but that the       *)
(* transfer may be given up with its file descriptor.  A cancellation      *)
(* starts its loop, and ends it.                                           *)
(***************************************************************************)
Frame ==
    /\ UNCHANGED <<mode, length, urb, completed, line, hand, loop>>
    /\ tp'.num_retired = tp.num_retired /\ tp'.reap_action = tp.reap_action
    /\ tp'.urbs => tp.urbs
    /\ ~fd_removed' => ~fd_removed /\ tp'.urbs = tp.urbs
    /\ user' = "submit" <=> user = "submit"
    /\ user' = "submitted" => user = "submitted"
    /\ CancelLoop' <=> CancelLoop
    /\ reaper'.pc = "discard" => reaper.pc = "discard"
    /\ lock' # "free" => lock # "free"

CancelStarts ==
    /\ UNCHANGED <<mode, length, urb, completed, line, hand, tp, fd_removed, reaper>>
    /\ loop' = Discards(1, NumUrbs) /\ lock' # "free"
    /\ user \notin {"submit", "submitted"} /\ user' \notin {"submit", "submitted"}
    /\ tp.in_flight /\ tp.urbs /\ reaper.pc # "discard" /\ ~CancelLoop

CancelStops ==
    /\ UNCHANGED <<mode, length, urb, completed, line, hand, loop, fd_removed, reaper>>
    /\ user \notin {"submit", "submitted"} /\ user' \notin {"submit", "submitted"}
    /\ reaper.pc # "discard" /\ CancelLoop /\ ~CancelLoop' /\ loop.at < loop.first
    /\ lock' = "free" /\ tp'.urbs = tp.urbs /\ tp'.num_retired = tp.num_retired
    /\ tp'.reap_action \in CancelActions

Quiet ==
    \/ SubmitLock \/ SubmitReturns \/ SubmitUndo \/ Cancel \/ Timer \/ RemainingDiscarded
    \/ HandleCancellation \/ RemoveFromList \/ Callback \/ Disconnect \/ FindLock \/ FindCheck
    \/ ClearPriv \/ UNCHANGED vars

(* All other steps are one of these three.                                 *)
LEMMA QuietSteps ==
  ASSUME IInv, Quiet PROVE Frame \/ CancelStarts \/ CancelStops
<1> USE DEF kernel, CancelLoop
<1>0. /\ tp \in Privates /\ Locks /\ Phases /\ user \in UserPcs
      /\ timer \in TimerPcs /\ reaper \in [pc : ReaperPcs, status : Statuses]
  BY DEF IInv, Typed
<1>1. CASE SubmitLock \/ SubmitReturns \/ SubmitUndo
  BY <1>0, <1>1 DEF SubmitLock, SubmitReturns, SubmitUndo, Frame, Privates, Locks
<1>2. ASSUME NEW t, NEW pc, NEW pc_, NEW discarding, NEW done, lock = "free",
             IF tp.in_flight /\ ~tp.cancelling /\ tp.urbs
             THEN lock' = t /\ loop' = Discards(1, NumUrbs) /\ pc_ = discarding /\ UNCHANGED tp
             ELSE /\ tp' = IF tp.in_flight THEN [tp EXCEPT !.cancelling = TRUE] ELSE tp
                  /\ pc_ = done /\ UNCHANGED <<lock, loop>>
      PROVE  \/ /\ tp.in_flight /\ tp.urbs /\ lock' = t /\ UNCHANGED tp
                /\ loop' = Discards(1, NumUrbs) /\ pc_ = discarding
             \/ /\ pc_ = done /\ UNCHANGED <<lock, loop>>
                /\ tp'.urbs = tp.urbs /\ tp'.num_retired = tp.num_retired
                /\ tp'.reap_action = tp.reap_action
  BY <1>0, <1>2 DEF Privates
<1>3. ASSUME NEW t, CancelEnd(t)
      PROVE  /\ lock = t /\ loop.at < loop.first /\ lock' = "free"
             /\ tp'.urbs = tp.urbs /\ tp'.num_retired = tp.num_retired
             /\ tp'.reap_action \in CancelActions
  BY <1>0, <1>3 DEF CancelEnd, Discarded, Privates
<1>4. CASE Cancel
  <2>1. UNCHANGED <<mode, length, kernel, hand, fd_removed, timer, reaper>>
    BY <1>4 DEF Cancel
  <2>2. CASE user = "idle" /\ CancelBegin("user", user, "cancel", "idle")
    <3>1. \/ /\ tp.in_flight /\ tp.urbs /\ lock' = "user" /\ UNCHANGED tp
             /\ loop' = Discards(1, NumUrbs) /\ user' = "cancel"
          \/ /\ user' = "idle" /\ UNCHANGED <<lock, loop>>
             /\ tp'.urbs = tp.urbs /\ tp'.num_retired = tp.num_retired
             /\ tp'.reap_action = tp.reap_action
      BY <2>2, <1>2 DEF CancelBegin
    <3> QED  BY <1>0, <2>1, <2>2, <3>1 DEF Frame, CancelStarts, Locks, CancelBegin
  <2>3. CASE user = "cancel" /\ CancelEnd("user") /\ user' = "idle" /\ UNCHANGED loop
    BY <1>0, <1>3, <2>1, <2>3 DEF CancelStops, Locks
  <2> QED  BY <1>4, <2>2, <2>3 DEF Cancel
<1>5. CASE TimerCancel
  <2>1. UNCHANGED <<mode, length, kernel, hand, fd_removed, user, reaper>>
    BY <1>5 DEF TimerCancel
  <2>2. CASE timer = "lock" /\ CancelBegin("timer", timer, "cancel", "leave")
    <3>1. \/ /\ tp.in_flight /\ tp.urbs /\ lock' = "timer" /\ UNCHANGED tp
             /\ loop' = Discards(1, NumUrbs) /\ timer' = "cancel"
          \/ /\ timer' = "leave" /\ UNCHANGED <<lock, loop>>
             /\ tp'.urbs = tp.urbs /\ tp'.num_retired = tp.num_retired
             /\ tp'.reap_action = tp.reap_action
      BY <2>2, <1>2 DEF CancelBegin
    <3> QED  BY <1>0, <2>1, <2>2, <3>1 DEF Frame, CancelStarts, Locks, CancelBegin
  <2>3. CASE timer = "cancel" /\ CancelEnd("timer") /\ timer' \in {"mark", "leave"}
             /\ UNCHANGED loop
    BY <1>0, <1>3, <2>1, <2>3 DEF CancelStops, Locks
  <2> QED  BY <1>5, <2>2, <2>3 DEF TimerCancel
<1>6. CASE Expire \/ TimerLeave
  BY <1>0, <1>6 DEF Expire, TimerLeave, Frame, Privates
<1>7. CASE RemainingDiscarded \/ HandleCancellation \/ RemoveFromList \/ Callback
  BY <1>0, <1>7 DEF RemainingDiscarded, HandleCancellation, RemoveFromList, Callback, Frame,
     Privates, At, Report, ReaperPcs
<1>8. CASE Disconnect \/ FindLock \/ FindCheck \/ ClearPriv
  BY <1>0, <1>8 DEF Disconnect, FindLock, FindCheck, ClearPriv, Frame, Privates, At, Report,
     Phases
<1>9. CASE UNCHANGED vars
  BY <1>9 DEF vars, Frame
<1> QED  BY <1>1, <1>4, <1>5, <1>6, <1>7, <1>8, <1>9 DEF Quiet, Timer

(* SubmitUrb gives the kernel the first URB it does not have.              *)
LEMMA SubmitSteps ==
  ASSUME Typed, SubmitUrb
  PROVE  /\ user = "submit"
         /\ UNCHANGED <<mode, length, completed, line, lock, loop, hand,
                         tp, fd_removed, reaper, timer>>
         /\ \E i \in Urbs :
              /\ Submitted = 1..(i - 1) /\ line # "gone" /\ (line = "ended" => i = 1)
              /\ urb' \in [Urbs -> UrbRecords]
              /\ urb'[i].at = "queued" /\ urb'[i].status = urb[i].status
              /\ \A j \in Urbs \ {i} : urb'[j] = urb[j]
              /\ user' = IF i = NumUrbs THEN "submitted" ELSE "submit"
<1>1. PICK i \in Urbs :
        /\ Submitted = 1..(i - 1) /\ line # "gone" /\ ~(line = "ended" /\ i > 1)
        /\ urb' = [urb EXCEPT ![i].at = "queued"]
        /\ user' = IF i = NumUrbs THEN "submitted" ELSE user
  BY DEF SubmitUrb
<1>2. /\ urb' \in [Urbs -> UrbRecords]
      /\ urb'[i].at = "queued" /\ urb'[i].status = urb[i].status
      /\ \A j \in Urbs \ {i} : urb'[j] = urb[j]
  BY <1>1 DEF Typed, UrbRecords, UrbPlaces
<1>3. line = "ended" => i = 1
  BY <1>1, SomeUrbs DEF Urbs
<1> QED  BY <1>1, <1>2, <1>3 DEF SubmitUrb

(* A later URB is refused: those never submitted are retired.              *)
LEMMA RefusedSteps ==
  ASSUME Typed, BulkRefused \/ IsoRefused
  PROVE  /\ user = "submit" /\ user' = "submitted"
         /\ UNCHANGED <<mode, length, urb, completed, line, lock, hand, fd_removed, reaper, timer>>
         /\ tp'.urbs = tp.urbs /\ tp'.reap_action \notin {"NORMAL", "CANCELLED"}
         /\ \E i \in Urbs \ {1} :
              /\ Submitted = 1..(i - 1)
              /\ tp.num_retired = 0 => tp'.num_retired = NumUrbs - i + 1
              /\ loop' \in {loop, Discards(1, i - 1)}
<1> USE DEF Refused, kernel, Typed, Privates
<1>0. NumUrbs \in Nat \ {0} /\ Urbs = 1..NumUrbs
  BY SomeUrbs DEF Urbs
<1>1. CASE BulkRefused
  <2>1. PICK i \in Urbs \ {1} : /\ Refused(i)
                                /\ tp' = [tp EXCEPT !.reap_action = IF line = "ended"
                                                         THEN "COMPLETED_EARLY" ELSE "SUBMIT_FAILED",
                                                    !.num_retired = @ + NotSubmitted(i)]
                                /\ loop' \in {loop, Discards(1, i - 1)}
    BY <1>1 DEF BulkRefused
  <2>2. /\ tp'.urbs = tp.urbs /\ tp'.reap_action \notin {"NORMAL", "CANCELLED"}
        /\ tp'.num_retired = tp.num_retired + NotSubmitted(i)
    BY <2>1
  <2>3. tp.num_retired = 0 => tp'.num_retired = NumUrbs - i + 1
    BY <1>0, <2>2 DEF NotSubmitted
  <2> QED  BY <1>1, <2>1, <2>2, <2>3 DEF BulkRefused
<1>2. CASE IsoRefused
  <2>1. PICK i \in Urbs \ {1} : /\ Refused(i)
                                /\ tp' = [tp EXCEPT !.reap_action = "SUBMIT_FAILED",
                                                      !.num_retired = NotSubmitted(i)]
                                /\ loop' = Discards(1, i - 1)
    BY <1>2 DEF IsoRefused
  <2>2. /\ tp'.urbs = tp.urbs /\ tp'.reap_action \notin {"NORMAL", "CANCELLED"}
        /\ tp'.num_retired = NotSubmitted(i)
    BY <2>1
  <2> QED  BY <1>2, <2>1, <2>2 DEF IsoRefused, NotSubmitted
<1> QED  BY <1>1, <1>2

(* HandleReaped happens to a transfer in flight that nobody is submitting  *)
(* or cancelling.                                                          *)
LEMMA HandledSteps ==
  ASSUME IInv, HandleReaped
  PROVE  /\ hand \in Urbs /\ hand' = 0 /\ urb[hand].at = "back"
         /\ UNCHANGED <<mode, length, urb, completed, line, user, fd_removed, timer>>
         /\ ~fd_removed /\ tp.urbs /\ tp.in_flight /\ user \notin {"submit", "submitted"}
         /\ ~CancelLoop /\ ~CancelLoop' /\ lock = "free" /\ Counts
         /\ \/ DiscardsRest
            \/ loop' = loop /\ lock' = "free" /\ reaper'.pc # "discard"
<1>1. /\ hand \in Urbs /\ ~fd_removed
  BY DEF IInv, HandleReaped, Phases, Typed
<1>2. Counts /\ (GoesOn \/ DiscardsRest \/ EndsCancelled \/ EndsReported)
  BY <1>1, UrbReaped DEF IInv
<1>3. hand # 0
  BY <1>1, SomeUrbs DEF Urbs, IInv
<1>4. /\ tp.urbs /\ tp.in_flight /\ user \notin {"submit", "submitted"}
      /\ urb[hand].at = "back" /\ lock = "free"
  <2>1. urb[hand].at = "back" /\ tp.urbs
    BY <1>1, <1>3 DEF IInv, Kernel, Queues
  <2>2. lock = "free" /\ user \notin {"submit", "submitted"}
    BY DEF IInv, HandleReaped, Locks
  <2>3. tp.in_flight
    BY <2>1, <2>2 DEF IInv, Phases, Typed
  <2> QED  BY <2>1, <2>2, <2>3
<1>5. /\ hand' = 0 /\ UNCHANGED <<mode, length, urb, completed, line, user, fd_removed, timer>>
  BY DEF HandleReaped, kernel
<1>6. ~CancelLoop /\ ~CancelLoop'
  BY <1>4, <1>5 DEF CancelLoop, IInv, Locks
<1>7. GoesOn \/ EndsCancelled \/ EndsReported
        => loop' = loop /\ lock' = "free" /\ reaper'.pc # "discard"
  BY DEF GoesOn, EndsCancelled, EndsReported, At
<1> QED  BY <1>1, <1>2, <1>4, <1>5, <1>6, <1>7

(* The URBs that leave the endpoint were on it, and are done.              *)
LEMMA LeavesUrbs ==
  ASSUME Typed, Urbs' = Urbs, NEW i, NEW c, NEW status, Leaves(i, c, status)
  PROVE  /\ i \in Urbs /\ Queued' \subseteq Queued
         /\ \A j \in Urbs : \/ urb'[j] = urb[j] /\ (j < i \/ i + c < j)
                            \/ /\ i <= j /\ j <= i + c /\ j \in Queued /\ urb'[j].at = "done"
                               /\ urb'[j].status = IF j = i THEN status ELSE "cancelled"
<1>1. /\ NumUrbs \in Nat \ {0} /\ Urbs = 1..NumUrbs /\ i \in Urbs /\ c \in Nat /\ i \in Queued
  BY SomeUrbs DEF Leaves, Queued, Urbs
<1>2. ASSUME NEW j \in Urbs
      PROVE \/ urb'[j] = urb[j] /\ (j < i \/ i + c < j)
            \/ /\ i <= j /\ j <= i + c /\ j \in Queued /\ urb'[j].at = "done"
               /\ urb'[j].status = IF j = i THEN status ELSE "cancelled"
  <2>1. CASE j < i \/ i + c < j
    BY <2>1 DEF Leaves
  <2>2. CASE j = i
    <3>1. i <= i /\ i <= i + c
      BY <1>1
    <3> QED  BY <1>1, <2>2, <3>1 DEF Leaves
  <2>3. CASE i < j /\ j <= i + c
    <3>1. j - i \in 1..c /\ i + (j - i) = j /\ i <= j /\ j # i
      BY <1>1, <2>3
    <3>2. j \in Queued
      BY <3>1 DEF Leaves
    <3> QED  BY <2>3, <3>1, <3>2 DEF Leaves
  <2> QED  BY <1>1, <2>1, <2>2, <2>3
<1>3. Queued' \subseteq Queued
  BY <1>2 DEF Queued
<1> QED  BY <1>1, <1>2, <1>3

(* The loops of discards go downwards.                                     *)
LEMMA NextDownwards == ASSUME IInv, [Next]_vars PROVE Downwards'
<1> USE DEF Downwards
<1>0. /\ Typed /\ Results /\ Locks /\ Downwards /\ Phases
      /\ loop \in Loops /\ NumUrbs \in Nat \ {0} /\ Urbs = 1..NumUrbs
  BY SomeUrbs DEF IInv, Typed, Urbs
<1>01. Urbs' = Urbs /\ NumUrbs' = NumUrbs /\ mode' = mode
  BY SameTransfer
<1>1. CASE DeviceRuns \/ Unplug
  <2>1. UNCHANGED <<lock, loop, user, tp, reaper>>
    BY <1>0, <1>1, KernelSteps DEF threads
  <2>2. CASE Unplugs
    BY <1>0, <1>01, <2>1, <2>2 DEF Unplugs
  <2>3. ASSUME NEW i \in Queued, NEW c \in Nat, NEW status \in UrbResults, Runs(i, c, status)
        PROVE  Queued' \subseteq Queued /\ (line' = "gone" <=> line = "gone")
    <3>1. Queued' \subseteq Queued
      BY <1>0, <1>01, <2>3, LeavesUrbs DEF Runs
    <3> QED  BY <2>3, <3>1 DEF Runs
  <2> QED  BY <1>0, <1>01, <1>1, <2>1, <2>2, <2>3, KernelSteps
<1>2. CASE Discard
  <2>1. /\ UNCHANGED <<lock, user, tp, reaper>> /\ loop'.first = loop.first
           /\ loop'.at = loop.at - 1
        /\ lock # "free" /\ loop.at >= loop.first
        /\ \/ line' = "gone"
           \/ line # "gone" /\ Discarded1(loop.at)
           \/ line # "gone" /\ loop.at \notin Queued /\ UNCHANGED kernel
    BY <1>0, <1>2, DiscardSteps DEF kernel
  <2>2. ~(user = "submit" \/ (user = "submitted" /\ tp.reap_action = "NORMAL"))
    BY <1>0, <2>1 DEF Loops
  <2>6. /\ loop'.first <= loop'.at => loop.first <= loop.at
    BY <2>1
  <2>3. CASE line' = "gone"
    BY <1>0, <1>01, <2>1, <2>2, <2>3, <2>6
  <2>4. CASE line # "gone" /\ Discarded1(loop.at)
    <3>1. \A j \in Urbs : loop.at - 1 < j => urb'[j].at # "queued"
      BY <1>0, <2>1, <2>4 DEF Discarded1, Queued, Loops
    <3> QED  BY <1>0, <1>01, <2>1, <2>2, <2>6, <3>1 DEF Queued
  <2>5. CASE line # "gone" /\ loop.at \notin Queued /\ UNCHANGED kernel
    <3>1. \A j \in Urbs : loop.at - 1 < j => urb'[j].at # "queued"
      BY <1>0, <2>1, <2>5 DEF Queued, Loops, kernel
    <3> QED  BY <1>0, <1>01, <2>1, <2>2, <2>6, <3>1 DEF Queued
  <2> QED  BY <2>1, <2>3, <2>4, <2>5
<1>3. CASE SubmitAdd
  BY <1>0, <1>01, <1>3 DEF SubmitAdd, Discards
<1>4. CASE SubmitUrb
  <2>1. user = "submit" /\ UNCHANGED <<loop, reaper>>
    BY <1>0, <1>4, SubmitSteps
  <2> QED  BY <1>0, <1>01, <2>1 DEF Loops
<1>5. CASE FirstRefused
  BY <1>0, <1>01, <1>5 DEF FirstRefused, Refused
<1>6. CASE BulkRefused \/ IsoRefused
  <2>1. PICK i \in Urbs \ {1} : Submitted = 1..(i - 1) /\ loop' \in {loop, Discards(1, i - 1)}
    BY <1>0, <1>6, RefusedSteps
  <2>2. user = "submit" /\ user' = "submitted" /\ UNCHANGED <<urb, lock, line, reaper>>
        /\ tp'.reap_action # "NORMAL"
    BY <1>0, <1>6, RefusedSteps
  <2>3. CASE loop' = loop
    BY <1>0, <1>01, <2>2, <2>3 DEF Loops
  <2>4. CASE loop' = Discards(1, i - 1)
    <3>1. \A j \in Urbs : i - 1 < j => urb'[j].at # "queued"
      BY <1>0, <2>1, <2>2 DEF Submitted
    <3> QED  BY <1>0, <1>01, <2>1, <2>2, <2>4, <3>1 DEF Queued, Discards
  <2> QED  BY <2>1, <2>3, <2>4
<1>7. CASE Reap
  <2>1. UNCHANGED <<lock, loop, user, tp, line>> /\ reaper'.pc = "reaped"
    BY <1>0, <1>7, ReapSteps DEF At
  <2>2. \A j \in Urbs : urb'[j].at = "queued" => urb[j].at = "queued"
    BY <1>0, <1>7, ReapSteps
  <2> QED  BY <1>0, <1>01, <2>1, <2>2 DEF Queued
<1>8. CASE HandleReaped
  <2>1. user' \notin {"submit", "submitted"} /\ hand \in Urbs
    BY <1>8, HandledSteps
  <2>2. (lock' = "free" /\ reaper'.pc # "discard") \/ DiscardsRest
    BY <1>8, HandledSteps
  <2>3. CASE DiscardsRest
    BY <1>0, <1>01, <2>1, <2>3 DEF DiscardsRest, Discards
  <2> QED  BY <2>1, <2>2, <2>3
<1>9. CASE Quiet
  <2>1. CASE Frame
    BY <1>0, <1>01, <2>1 DEF Frame, Queued
  <2>2. CASE CancelStarts
    BY <1>0, <1>01, <2>2 DEF CancelStarts, Discards
  <2>3. CASE CancelStops
    BY <2>3 DEF CancelStops
  <2> QED  BY <1>9, <2>1, <2>2, <2>3, QuietSteps
<1> QED  BY <1>1, <1>2, <1>3, <1>4, <1>5, <1>6, <1>7, <1>8, <1>9
         DEF Next, User, Reaper, Quiet

(* Only the results that the mode and its faults allow.                    *)
LEMMA NextPossible == ASSUME Survivable, IInv, [Next]_vars PROVE Possible'
<1>0. /\ Typed /\ Results /\ Possible /\ urb \in [Urbs -> UrbRecords]
      /\ NumUrbs \in Nat \ {0} /\ Urbs = 1..NumUrbs /\ mode \in Modes
  BY SomeUrbs DEF IInv, Typed, Urbs, Results
<1>01. Urbs' = Urbs /\ NumUrbs' = NumUrbs /\ mode' = mode
  BY SameTransfer
<1>02. /\ mode \in {"continuation", "split", "iso"} => "unplug" \notin Faults[mode]
       /\ mode = "split" => "stall" \notin Faults[mode]
  BY <1>0 DEF Survivable
<1> USE DEF Possible
<1>03. ASSUME \A i \in Urbs : urb'[i].status \in {urb[i].status, "ok", "cancelled"},
              fd_removed' => line' = "gone", line' \in {line, "up"}
       PROVE  Possible'
  BY <1>0, <1>01, <1>03
<1>1. CASE DeviceRuns \/ Unplug
  <2>1. UNCHANGED fd_removed
    BY <1>0, <1>1, KernelSteps DEF threads
  <2>2. CASE Unplugs
    BY <1>0, <1>01, <1>02, <2>1, <2>2 DEF Unplugs
  <2>3. ASSUME NEW i \in Queued, NEW c \in Nat, NEW status \in UrbResults, Runs(i, c, status)
        PROVE  Possible'
    <3>1. \A j \in Urbs : urb'[j].status \in {urb[j].status, status, "cancelled"}
      BY <1>0, <1>01, <2>3, LeavesUrbs DEF Runs
    <3>2. \A j \in Urbs : urb'[j].status = "overflow"
            => urb[j].status = "overflow" \/ (j = i /\ status = "overflow")
      BY <1>0, <1>01, <2>3, LeavesUrbs DEF Runs
    <3>3. /\ status = "stall" => mode # "iso" /\ "stall" \in Faults[mode]
          /\ status = "overflow" => i = NumUrbs
          /\ IF status = "gone" THEN "unplug" \in Faults[mode] ELSE line = "up"
          /\ line' \in {line, "halted", "ended"}
             /\ (line' = "ended" => mode = "continuation" \/ line = "ended")
          /\ line = "gone" => line' = "gone"
      BY <2>3 DEF Runs
    <3> QED  BY <1>0, <1>01, <1>02, <2>1, <3>1, <3>2, <3>3
  <2> QED  BY <1>0, <1>1, <2>2, <2>3, KernelSteps
<1>2. CASE Discard
  <2>1. UNCHANGED <<fd_removed, line>>
    BY <1>0, <1>2, DiscardSteps DEF kernel, Discarded1
  <2>2. \A i \in Urbs : urb'[i].status \in {urb[i].status, "cancelled"}
    BY <1>0, <1>2, DiscardSteps DEF kernel, Discarded1
  <2> QED  BY <1>0, <1>03, <2>1, <2>2
<1>3. CASE SubmitAdd
  <2>1. \A i \in Urbs : urb'[i].status = "ok"
    BY <1>3 DEF SubmitAdd
  <2> QED  BY <1>0, <1>03, <1>3, <2>1 DEF SubmitAdd
<1>4. CASE SubmitUrb
  <2>1. UNCHANGED <<fd_removed, line>>
    BY <1>0, <1>4, SubmitSteps
  <2>2. \A i \in Urbs : urb'[i].status = urb[i].status
    BY <1>0, <1>4, SubmitSteps
  <2> QED  BY <1>0, <1>03, <2>1, <2>2
<1>5. CASE FirstRefused
  BY <1>0, <1>03, <1>5 DEF FirstRefused, Refused, kernel
<1>6. CASE BulkRefused \/ IsoRefused
  <2>1. UNCHANGED <<fd_removed, line, urb>>
    BY <1>0, <1>6, RefusedSteps
  <2> QED  BY <1>0, <1>03, <2>1
<1>7. CASE Reap
  <2>1. UNCHANGED <<fd_removed, line>>
    BY <1>0, <1>7, ReapSteps
  <2>2. \A i \in Urbs : urb'[i].status = urb[i].status
    BY <1>0, <1>7, ReapSteps
  <2> QED  BY <1>0, <1>03, <2>1, <2>2
<1>8. CASE HandleReaped
  <2>1. UNCHANGED <<fd_removed, line, urb>>
    BY <1>8, HandledSteps
  <2> QED  BY <1>0, <1>03, <2>1
<1>9. CASE Quiet
  <2>1. UNCHANGED <<line, urb>>
    BY <1>9, QuietSteps DEF Frame, CancelStarts, CancelStops
  <2>2. fd_removed' => fd_removed \/ line = "gone"
    BY <1>9 DEF Quiet, SubmitLock, SubmitReturns, SubmitUndo, Cancel, Timer, Expire,
       TimerCancel,
       TimerLeave, RemainingDiscarded, HandleCancellation, RemoveFromList, Callback, Disconnect,
       FindLock, FindCheck, ClearPriv, vars
  <2> QED  BY <1>0, <1>03, <2>1, <2>2
<1> QED  BY <1>1, <1>2, <1>3, <1>4, <1>5, <1>6, <1>7, <1>8, <1>9
         DEF Next, User, Reaper, Quiet

(* A continuation that stalls, or ends short, has no URBs left on the      *)
(* endpoint.                                                               *)
LEMMA NextStallEnds == ASSUME Survivable, IInv, [Next]_vars PROVE StallEnds'
<1>0. /\ Typed /\ Results /\ Possible /\ StallEnds /\ urb \in [Urbs -> UrbRecords]
      /\ NumUrbs \in Nat \ {0} /\ Urbs = 1..NumUrbs
      /\ line \in {"up", "halted", "ended", "gone"}
  BY SomeUrbs DEF IInv, Typed, Urbs, Results
<1>01. Urbs' = Urbs /\ NumUrbs' = NumUrbs /\ mode' = mode
  BY SameTransfer
<1> USE DEF StallEnds
<1>03. ASSUME \A i \in Urbs : urb'[i].status \in {urb[i].status, "cancelled"},
              line' = line, Queued' \subseteq Queued \/ line # "ended",
              line = "ended" /\ urb[1].at # "idle" => urb'[1].at # "idle"
       PROVE  StallEnds'
  BY <1>0, <1>01, <1>03
<1>1. CASE DeviceRuns \/ Unplug
  <2>2. CASE Unplugs
    <3>1. mode # "continuation"
      BY <1>0, <2>2 DEF Unplugs, Survivable, Typed
    <3> QED  BY <1>0, <1>01, <2>2, <3>1 DEF Unplugs, Possible
  <2>3. ASSUME NEW i \in Queued, NEW c \in Nat, NEW status \in UrbResults, Runs(i, c, status)
        PROVE  StallEnds'
    <3>1. /\ Queued' \subseteq Queued /\ i \in Urbs
          /\ \A j \in Urbs : urb'[j].status \in {urb[j].status, "cancelled"}
               \/ (j = i /\ urb'[j].status = status)
          /\ \A j \in Urbs : urb'[j].at \in {urb[j].at, "done"}
      BY <1>0, <1>01, <2>3, LeavesUrbs DEF Runs
    <3>2. CASE mode = "continuation" /\ status \notin {"ok", "gone"}
      <4>1. line' = "ended" /\ Queued = i..(i + c) /\ ~fd_removed
        BY <1>0, <2>3, <3>2 DEF Runs, Possible
      <4>2. Queued' = {}
        <5>1. ASSUME NEW j \in Queued' PROVE FALSE
          <6>1. j \in Queued /\ j \in Urbs
            BY <1>01, <3>1, <5>1 DEF Queued
          <6>2. urb'[j].at = "done"
            BY <1>0, <1>01, <2>3, <4>1, <6>1, LeavesUrbs DEF Runs
          <6> QED  BY <5>1, <6>2 DEF Queued
        <5> QED  BY <5>1
      <4>3. urb[1].at # "idle"
        <5>1. urb[i].at = "queued"
          BY DEF Queued
        <5> QED  BY <1>0, <3>1, <4>1, <5>1 DEF IInv, Kernel, Queues
      <4> QED  BY <1>0, <1>01, <3>1, <4>1, <4>2, <4>3
    <3>3. CASE ~(mode = "continuation" /\ status \notin {"ok", "gone"})
      <4>1. line' = (IF status = "stall" THEN "halted" ELSE line)
            /\ (mode = "continuation" => status # "stall")
        BY <2>3, <3>3 DEF Runs
      <4>2. mode # "continuation" => line' # "ended" /\ line # "ended"
        BY <1>0, <4>1 DEF Possible
      <4>3. CASE mode = "continuation"
        <5>1. \A j \in Urbs : urb'[j].status = "stall" => urb[j].status = "stall"
          BY <3>1, <4>1, <4>3
        <5> QED  BY <1>0, <1>01, <3>1, <4>1, <4>3, <5>1
      <4>4. CASE mode # "continuation"
        BY <1>01, <4>2, <4>4
      <4> QED  BY <4>3, <4>4
    <3> QED  BY <3>2, <3>3
  <2> QED  BY <1>0, <1>1, <2>2, <2>3, KernelSteps
<1>2. CASE Discard
  <2>1. UNCHANGED line
    BY <1>0, <1>2, DiscardSteps DEF kernel, Discarded1
  <2>2. \A i \in Urbs : urb'[i].status \in {urb[i].status, "cancelled"}
    BY <1>0, <1>2, DiscardSteps DEF kernel, Discarded1
  <2>3. \A i \in Urbs : urb'[i].at \in {urb[i].at, "done"}
    BY <1>0, <1>2, DiscardSteps DEF kernel, Discarded1
  <2> QED  BY <1>0, <1>01, <1>03, <2>1, <2>2, <2>3 DEF Queued
<1>3. CASE SubmitAdd
  <2>1. \A i \in Urbs : urb'[i].status = "ok"
    BY <1>3 DEF SubmitAdd
  <2>2. line' # "ended"
    BY <1>3 DEF SubmitAdd
  <2> QED  BY <1>01, <2>1, <2>2
<1>4. CASE SubmitUrb
  <2>1. PICK i \in Urbs : /\ Submitted = 1..(i - 1) /\ (line = "ended" => i = 1) /\ line' = line
                          /\ urb'[i].at = "queued" /\ urb'[i].status = urb[i].status
                          /\ \A j \in Urbs \ {i} : urb'[j] = urb[j]
    BY <1>0, <1>4, SubmitSteps
  <2>2. line # "ended"
    BY <1>0, <2>1 DEF Submitted
  <2> QED  BY <1>0, <1>03, <2>1, <2>2
<1>5. CASE FirstRefused
  BY <1>0, <1>01, <1>03, <1>5 DEF FirstRefused, Refused, kernel, Queued
<1>6. CASE BulkRefused \/ IsoRefused
  <2>1. UNCHANGED <<line, urb>>
    BY <1>0, <1>6, RefusedSteps
  <2> QED  BY <1>0, <1>01, <1>03, <2>1 DEF Queued
<1>7. CASE Reap
  <2>1. UNCHANGED line
    BY <1>0, <1>7, ReapSteps
  <2>2. \A i \in Urbs : urb'[i].status = urb[i].status
    BY <1>0, <1>7, ReapSteps
  <2>3. \A i \in Urbs : urb'[i].at \in {urb[i].at, "back"}
    BY <1>0, <1>7, ReapSteps
  <2> QED  BY <1>0, <1>01, <1>03, <2>1, <2>2, <2>3 DEF Queued
<1>8. CASE HandleReaped
  <2>1. UNCHANGED <<line, urb>>
    BY <1>8, HandledSteps
  <2> QED  BY <1>0, <1>01, <1>03, <2>1 DEF Queued
<1>9. CASE Quiet
  <2>1. UNCHANGED <<line, urb>>
    BY <1>9, QuietSteps DEF Frame, CancelStarts, CancelStops
  <2> QED  BY <1>0, <1>01, <1>03, <2>1 DEF Queued
<1> QED  BY <1>1, <1>2, <1>3, <1>4, <1>5, <1>6, <1>7, <1>8, <1>9
         DEF Next, User, Reaper, Quiet

(* A control transfer is discarded only by a cancellation.                 *)
LEMMA NextControlCancelled == ASSUME IInv, [Next]_vars PROVE ControlCancelled'
<1> SUFFICES ASSUME mode' = "control", tp'.urbs, NEW i \in Urbs, urb'[i].status = "cancelled"
             PROVE  \/ tp'.reap_action = "CANCELLED"
                    \/ CancelLoop' /\ loop'.ret = "success" /\ loop'.at < loop'.first
  BY SameTransfer DEF ControlCancelled
<1>0. /\ Typed /\ Results /\ ControlCancelled /\ Locks /\ Phases /\ Downwards /\ CancelLoops
      /\ loop \in Loops /\ NumUrbs = 1 /\ Urbs = {1} /\ mode = "control" /\ i = 1
  BY SameTransfer DEF IInv, Typed, Urbs, Results, NumUrbs
<1>03. ASSUME tp.urbs, urb[1].status = "cancelled"
       PROVE  \/ tp.reap_action = "CANCELLED"
              \/ CancelLoop /\ loop.ret = "success" /\ loop.at < loop.first
  BY <1>0, <1>03 DEF ControlCancelled
<1>1. CASE DeviceRuns \/ Unplug
  <2>1. UNCHANGED threads
    BY <1>0, <1>1, KernelSteps
  <2>2. urb[1].status = "cancelled"
    <3>1. CASE Unplugs
      BY <1>0, <3>1 DEF Unplugs
    <3>2. ASSUME NEW k \in Queued, NEW c \in Nat, NEW status \in UrbResults, Runs(k, c, status)
          PROVE  urb[1].status = "cancelled"
      <4>1. status # "cancelled"
        BY <3>2 DEF Runs
      <4>2. \/ urb'[1] = urb[1]
            \/ urb'[1].status = IF 1 = k THEN status ELSE "cancelled"
        BY <1>0, <3>2, SameTransfer, LeavesUrbs DEF Runs
      <4>3. k = 1
        BY <1>0 DEF Queued
      <4> QED  BY <1>0, <4>1, <4>2, <4>3
    <3> QED  BY <1>0, <1>1, <3>1, <3>2, KernelSteps
  <2> QED  BY <1>03, <2>1, <2>2 DEF threads, CancelLoop
<1>2. CASE Discard
  <2>1. /\ UNCHANGED <<user, timer, reaper, tp>> /\ lock # "free" /\ loop.at >= loop.first
        /\ loop'.first = loop.first /\ loop'.at = loop.at - 1
        /\ \/ Discarded1(loop.at) /\ loop'.ret = loop.ret
           \/ UNCHANGED urb
    BY <1>0, <1>2, DiscardSteps DEF kernel
  <2>2. CASE UNCHANGED urb
    BY <1>0, <1>03, <2>1, <2>2 DEF Loops
  <2>3. CASE Discarded1(loop.at) /\ loop'.ret = loop.ret
    <3>1. loop.at = 1
      BY <1>0, <2>3 DEF Discarded1, Queued
    <3>2. CancelLoop
      <4>1. loop.at \in Int /\ loop.first \in Int /\ loop.first <= loop.at
            /\ ~(loop.at < loop.first)
        BY <1>0, <2>1 DEF Loops
      <4>2. user \notin {"submit", "submitted"} /\ reaper.pc # "discard"
        BY <1>0, <4>1 DEF Downwards
      <4>3. lock \in {"user", "timer", "reaper"}
        BY <1>0, <2>1 DEF Typed
      <4> QED  BY <1>0, <4>2, <4>3 DEF Locks, CancelLoop
    <3>3. loop.ret = "success" /\ loop.first = 1
      BY <1>0, <3>1, <3>2 DEF CancelLoops
    <3> QED  BY <2>1, <2>3, <3>1, <3>2, <3>3 DEF CancelLoop
  <2> QED  BY <2>1, <2>2, <2>3
<1>3. CASE SubmitAdd
  BY <1>0, <1>3 DEF SubmitAdd
<1>4. CASE SubmitUrb
  <2>1. UNCHANGED <<loop, tp>> /\ user = "submit" /\ urb'[1].status = urb[1].status
    BY <1>0, <1>4, SubmitSteps
  <2> QED  BY <1>0, <1>03, <2>1 DEF CancelLoop, Locks
<1>5. CASE FirstRefused
  BY <1>0, <1>5 DEF FirstRefused, Typed, Privates
<1>6. CASE BulkRefused \/ IsoRefused
  BY <1>0, <1>6, RefusedSteps
<1>7. CASE Reap
  <2>1. UNCHANGED <<loop, tp, user, timer>> /\ urb'[1].status = urb[1].status
    BY <1>0, <1>7, ReapSteps
  <2> QED  BY <1>0, <1>03, <2>1 DEF CancelLoop
<1>8. CASE HandleReaped
  <2>1. UNCHANGED urb /\ ~CancelLoop /\ tp.urbs
        /\ (tp'.reap_action = "CANCELLED" <=> tp.reap_action = "CANCELLED")
    BY <1>8, HandledSteps DEF Counts
  <2> QED  BY <1>0, <1>03, <2>1
<1>9. CASE Quiet
  <2>1. CASE Frame
    BY <1>0, <1>03, <2>1 DEF Frame
  <2>2. CASE CancelStarts
    BY <1>0, <1>03, <2>2 DEF CancelStarts
  <2>3. CASE CancelStops
    BY <1>0, <1>03, <2>3 DEF CancelStops, CancelActions
  <2> QED  BY <1>9, <2>1, <2>2, <2>3, QuietSteps
<1> QED  BY <1>1, <1>2, <1>3, <1>4, <1>5, <1>6, <1>7, <1>8, <1>9
         DEF Next, User, Reaper, Quiet

(* A continuation has no gaps on the endpoint: URBs leave it from the      *)
(* front, or are discarded from the back.                                  *)
LEMMA NextContiguous == ASSUME Survivable, IInv, [Next]_vars PROVE Contiguous'
<1> SUFFICES ASSUME mode = "continuation" PROVE Contiguous'
  BY SameTransfer DEF Contiguous
<1>0. /\ Typed /\ Results /\ Contiguous /\ Possible /\ Locks /\ Downwards
      /\ loop \in Loops /\ NumUrbs \in Nat \ {0} /\ Urbs = 1..NumUrbs
  BY SomeUrbs DEF IInv, Typed, Urbs, Results
<1>01. Urbs' = Urbs /\ NumUrbs' = NumUrbs /\ mode' = mode
  BY SameTransfer
<1>02. ~fd_removed /\ line # "gone" /\ Queues
  BY <1>0 DEF Possible, IInv, Kernel, Typed
<1> USE DEF Contiguous
<1>03. ASSUME Queued' = Queued, user' = "submit" => user = "submit",
              \A i \in Urbs : urb'[i].at # "idle" => urb[i].at # "idle"
       PROVE  Contiguous'
  BY <1>0, <1>01, <1>03
<1>1. CASE DeviceRuns \/ Unplug
  <2>2. CASE Unplugs
    BY <1>0, <1>03, <1>1, <2>2, <1>01, KernelSteps DEF Unplugs, threads, Queued
  <2>3. ASSUME NEW i \in Queued, NEW c \in Nat, NEW status \in UrbResults, Runs(i, c, status)
        PROVE  Contiguous'
    <3>1. /\ user' = user /\ i \in Urbs /\ (c > 0 => Queued = i..(i + c))
      BY <1>0, <1>1, <2>3, KernelSteps DEF threads, Runs, Queued
    <3>2. \A j \in Urbs : \/ urb'[j] = urb[j] /\ (j < i \/ i + c < j)
                          \/ i <= j /\ j <= i + c /\ j \in Queued /\ urb'[j].at = "done"
      BY <1>0, <1>01, <2>3, LeavesUrbs DEF Runs
    <3>3. Queued' = {j \in Queued : j < i \/ i + c < j}
      BY <1>0, <1>01, <3>1, <3>2 DEF Queued
    <3>4. CASE c > 0
      <4>1. Queued' = {}
        BY <1>0, <3>1, <3>3, <3>4
      <4> QED  BY <4>1
    <3>5. CASE c = 0
      <4>2. \A j \in Queued : i <= j
        BY <1>0, <2>3 DEF Runs, Active, Survivable, Typed
      <4>3. Queued' = Queued \ {i}
        BY <1>0, <3>1, <3>3, <3>5 DEF Queued
      <4>4. \A j \in Urbs : urb'[j].at # "idle" => urb[j].at # "idle"
        BY <3>2 DEF Queued
      <4> QED  BY <1>0, <1>01, <3>1, <4>2, <4>3, <4>4
    <3> QED  BY <3>4, <3>5
  <2> QED  BY <1>0, <1>1, <2>2, <2>3, KernelSteps
<1>2. CASE Discard
  <2>1. /\ UNCHANGED user /\ lock # "free" /\ loop.at >= loop.first
        /\ Discarded1(loop.at) \/ UNCHANGED urb
    BY <1>0, <1>2, DiscardSteps DEF kernel
  <2>2. user # "submit" /\ \A j \in Urbs : loop.at < j => j \notin Queued
    BY <1>0, <1>02, <2>1 DEF Downwards, Loops
  <2>3. CASE UNCHANGED urb
    BY <1>03, <1>01, <2>1, <2>3 DEF Queued
  <2>4. CASE Discarded1(loop.at)
    <3>1. Queued' = Queued \ {loop.at} /\ loop.at \in Urbs
      BY <1>01, <2>4 DEF Discarded1, Queued
    <3> QED  BY <1>0, <1>01, <2>1, <2>2, <3>1
  <2> QED  BY <2>1, <2>3, <2>4
<1>3. CASE SubmitAdd
  <2>1. Queued' = {}
    BY <1>01, <1>3 DEF SubmitAdd, Queued
  <2> QED  BY <2>1
<1>4. CASE SubmitUrb
  <2>1. PICK i \in Urbs : /\ Submitted = 1..(i - 1) /\ user = "submit" /\ urb'[i].at = "queued"
                          /\ \A j \in Urbs \ {i} : urb'[j] = urb[j]
    BY <1>0, <1>4, SubmitSteps
  <2>2. Queued' = Queued \union {i} /\ \A j \in Urbs : urb[j].at # "idle" <=> j < i
    BY <1>0, <1>01, <2>1 DEF Submitted, Queued
  <2>3. \A j \in Queued : j < i
    BY <2>2 DEF Queued
  <2>4. \A j \in Urbs : urb'[j].at # "idle" => j <= i
    BY <1>0, <2>1, <2>2
  <2> QED  BY <1>0, <1>01, <2>1, <2>2, <2>3, <2>4
<1>5. CASE FirstRefused
  BY <1>01, <1>03, <1>5 DEF FirstRefused, Refused, kernel, Queued
<1>6. CASE BulkRefused \/ IsoRefused
  <2>1. UNCHANGED urb /\ user' = "submitted"
    BY <1>0, <1>6, RefusedSteps
  <2> QED  BY <1>01, <1>03, <2>1 DEF Queued
<1>7. CASE Reap
  <2>1. UNCHANGED user /\ hand' = completed[1] /\ Len(completed) \in Nat \ {0}
    BY <1>0, <1>7, ReapSteps
  <2>2. urb'[hand'].at = "back" /\ \A j \in Urbs \ {hand'} : urb'[j] = urb[j]
    BY <1>0, <1>7, ReapSteps
  <2>3. urb[hand'].at = "done"
    BY <1>02, <2>1 DEF Queues
  <2> QED  BY <1>0, <1>01, <1>03, <2>1, <2>2, <2>3 DEF Queued
<1>8. CASE HandleReaped
  <2>1. UNCHANGED <<urb, user>>
    BY <1>8, HandledSteps
  <2> QED  BY <1>01, <1>03, <2>1 DEF Queued
<1>9. CASE Quiet
  <2>1. UNCHANGED urb /\ (user' = "submit" => user = "submit")
    BY <1>9, QuietSteps DEF Frame, CancelStarts, CancelStops
  <2> QED  BY <1>01, <1>03, <2>1 DEF Queued
<1> QED  BY <1>1, <1>2, <1>3, <1>4, <1>5, <1>6, <1>7, <1>8, <1>9
         DEF Next, User, Reaper, Quiet

(* A URB that is discarded leaves the endpoint, alone.                     *)
LEMMA DiscardedLeaves ==
  ASSUME Typed, NEW i \in Int, Discarded1(i) PROVE Leaves(i, 0, "cancelled")
<1>1. /\ NumUrbs \in Nat \ {0} /\ Urbs = 1..NumUrbs /\ i \in Urbs /\ completed \in Seq(Urbs)
  BY SomeUrbs DEF Discarded1, Queued, Urbs, Typed
<1>2. /\ completed' \in Seq(Urbs) /\ Len(completed') = Len(completed) + 1
      /\ \A k \in 1..Len(completed) : completed'[k] = completed[k]
      /\ completed'[Len(completed) + 1] = i
  BY <1>1 DEF Discarded1
<1>3. Len(completed) + 1 + 0 = Len(completed) + 1 /\ i + 0 = i
  BY <1>1
<1>4. \A j \in Urbs : i < j => ~(j <= i) /\ j # i
  BY <1>1
<1>5. \A j \in Urbs : j < i => j # i
  BY <1>1
<1> QED  BY <1>1, <1>2, <1>3, <1>4, <1>5 DEF Discarded1, Leaves

(* A URB that leaves keeps the queues in order, ...                        *)
LEMMA LeavesQueues ==
  ASSUME Typed, Queues, Urbs' = Urbs, hand' = hand, tp' = tp,
         NEW i, NEW c, NEW status, Leaves(i, c, status)
  PROVE  Queues'
<1>0. /\ NumUrbs \in Nat \ {0} /\ Urbs = 1..NumUrbs /\ i \in Urbs /\ c \in Nat /\ i + c <= NumUrbs
      /\ completed \in Seq(Urbs) /\ completed' \in Seq(Urbs)
      /\ Len(completed) \in Nat /\ Len(completed') = Len(completed) + 1 + c
  BY SomeUrbs DEF Leaves, Queued, Urbs, Typed
<1>01. \A k \in 1..Len(completed') : completed'[k] \in Urbs
  <2>1. completed' \in Seq(Urbs)
    BY <1>0
  <2> QED  BY <2>1
<1>1. \A j \in Urbs : \/ urb'[j] = urb[j] /\ (j < i \/ i + c < j)
                      \/ /\ i <= j /\ j <= i + c /\ urb[j].at = "queued" /\ urb'[j].at = "done"
  BY LeavesUrbs DEF Queued
<1>2. /\ \A k \in 1..Len(completed) : completed'[k] = completed[k] /\ completed[k] \in Urbs
                                      /\ urb[completed[k]].at = "done"
      /\ completed'[Len(completed) + 1] = i
      /\ \A k \in 1..c : completed'[Len(completed) + 1 + k] = i + k
  <2>1. completed \in Seq(Urbs)
    BY <1>0
  <2>2. \A k \in 1..Len(completed) : completed[k] \in Urbs
    BY <2>1
  <2> QED  BY Zenon, <2>2 DEF Leaves, Queues
<1>3. ASSUME NEW k \in 1..Len(completed')
      PROVE \/ /\ k \in 1..Len(completed) /\ completed'[k] = completed[k]
               /\ completed'[k] < i \/ i + c < completed'[k]
            \/ k > Len(completed) /\ completed'[k] = i + (k - (Len(completed) + 1))
  <2>1. CASE k \in 1..Len(completed)
    BY <1>1, <1>2, <2>1
  <2>2. CASE k = Len(completed) + 1
    BY <1>0, <1>2, <2>2
  <2>3. CASE k > Len(completed) + 1
    <3>1. PICK m \in 1..c : k = Len(completed) + 1 + m
      <4>1. k - (Len(completed) + 1) \in 1..c
            /\ k = Len(completed) + 1 + (k - (Len(completed) + 1))
        BY <1>0, <2>3
      <4> QED  BY <4>1
    <3>2. completed'[k] = i + m
      BY <1>2, <3>1
    <3>3. m = k - (Len(completed) + 1)
      BY <1>0, <3>1
    <3> QED  BY <2>3, <3>2, <3>3, <1>0
  <2> QED  BY <1>0, <2>1, <2>2, <2>3
<1>4. ASSUME NEW k \in 1..Len(completed') PROVE urb'[completed'[k]].at = "done"
  <2>1. completed'[k] \in Urbs
    BY <1>01
  <2>2. CASE k \in 1..Len(completed) /\ completed'[k] = completed[k]
    BY <1>1, <1>2, <2>1, <2>2
  <2>3. CASE k > Len(completed) /\ completed'[k] = i + (k - (Len(completed) + 1))
    <3>1. i <= completed'[k] /\ completed'[k] <= i + c
      BY <1>0, <2>3
    <3>2. ~(completed'[k] < i \/ i + c < completed'[k])
      BY <1>0, <2>1, <3>1
    <3> QED  BY <1>1, <2>1, <3>2
  <2> QED  BY <1>3, <2>2, <2>3
<1>5. ASSUME NEW k \in 1..Len(completed'), NEW m \in 1..Len(completed'),
                     completed'[k] = completed'[m]
      PROVE  k = m
  <2>1. \A a, b \in 1..Len(completed) : completed[a] = completed[b] => a = b
    BY DEF Queues
  <2> DEFINE x == completed'[k]
  <2>2. x \in Int /\ k \in Int /\ m \in Int
    BY <1>0, <1>01
  <2>3. \/ /\ k \in 1..Len(completed) /\ x = completed[k] /\ (x < i \/ i + c < x)
        \/ k > Len(completed) /\ x = i + (k - (Len(completed) + 1))
    BY <1>3
  <2>4. \/ /\ m \in 1..Len(completed) /\ x = completed[m] /\ (x < i \/ i + c < x)
        \/ m > Len(completed) /\ x = i + (m - (Len(completed) + 1))
    BY <1>3, <1>5
  <2>5. k <= Len(completed) + 1 + c /\ m <= Len(completed) + 1 + c
    BY <1>0
  <2> HIDE DEF x
  <2>6. k \notin 1..Len(completed) => i <= x /\ x <= i + c
    BY <1>0, <2>2, <2>3, <2>5
  <2>7. m \notin 1..Len(completed) => i <= x /\ x <= i + c
    BY <1>0, <2>2, <2>4, <2>5
  <2>8. CASE k \in 1..Len(completed) /\ m \in 1..Len(completed)
    <3>0. Len(completed) \in Nat
      BY <1>0
    <3>1. ~(k > Len(completed)) /\ ~(m > Len(completed))
      BY <2>8, <3>0
    <3>2. completed[k] = completed[m]
      BY <2>3, <2>4, <3>1
    <3> QED  BY Zenon, <2>1, <2>8, <3>2
  <2>9. CASE k \notin 1..Len(completed) /\ m \notin 1..Len(completed)
    BY <1>0, <2>2, <2>3, <2>4, <2>9
  <2> QED  BY <1>0, <2>2, <2>3, <2>4, <2>6, <2>7, <2>8, <2>9
<1>6. ASSUME NEW j \in Urbs, urb'[j].at = "done"
      PROVE  \E k \in 1..Len(completed') : completed'[k] = j
  <2>1. CASE urb'[j] = urb[j]
    <3>1. PICK k \in 1..Len(completed) : completed[k] = j
      BY <1>6, <2>1 DEF Queues
    <3>2. k \in 1..Len(completed')
      BY <1>0, <3>1
    <3>3. completed'[k] = j
      BY Zenon, <1>2, <3>1
    <3> QED  BY <3>2, <3>3
  <2>2. CASE i <= j /\ j <= i + c
    <3>1. CASE j = i
      <4>1. Len(completed) + 1 \in 1..Len(completed')
        BY <1>0
      <4> QED  BY <1>2, <3>1, <4>1
    <3>2. CASE j # i
      <4>1. PICK m \in 1..c : j = i + m
        <5>1. j - i \in 1..c /\ j = i + (j - i)
          BY <1>0, <2>2, <3>2
        <5> QED  BY <5>1
      <4>2. Len(completed) + 1 + m \in 1..Len(completed')
        BY <1>0
      <4> QED  BY <1>2, <4>1, <4>2
    <3> QED  BY <3>1, <3>2
  <2> QED  BY <1>1, <2>1, <2>2
<1>7. \A j \in Urbs : urb'[j].at = "idle" <=> urb[j].at = "idle"
  BY <1>1
<1>8. \A a, b \in Urbs : a < b /\ urb'[a].at = "idle" => urb'[b].at = "idle"
  BY <1>7 DEF Queues
<1>9. hand' # 0 => urb'[hand'].at = "back"
  BY <1>1 DEF Queues, Typed
<1>10. tp'.urbs
  BY DEF Queues, Leaves
<1> QED  BY <1>4, <1>5, <1>6, <1>8, <1>9, <1>10 DEF Queues

(* When as many URBs are retired as there are, all others are back.        *)
LEMMA AllOthersBack ==
  ASSUME Typed, hand \in Urbs, urb[hand].at = "back",
         Cardinality(Reaped \union Unsubmitted) + 1 = NumUrbs
  PROVE  \A i \in Urbs : urb[i].at \in {"back", "idle"}
<1> DEFINE S == Reaped \union Unsubmitted
<1>1. NumUrbs \in Nat \ {0} /\ Urbs = 1..NumUrbs
  BY SomeUrbs DEF Urbs
<1>2. IsFiniteSet(Urbs) /\ Cardinality(Urbs) = NumUrbs
  BY <1>1, FS_Interval
<1>3. S \subseteq Urbs /\ hand \notin S
  BY DEF Reaped, Unsubmitted
<1>4. IsFiniteSet(S) /\ Cardinality(S) + 1 = NumUrbs
  BY <1>2, <1>3, FS_Subset
<1> HIDE DEF S
<1>5. IsFiniteSet(S \union {hand}) /\ Cardinality(S \union {hand}) = NumUrbs
  BY <1>3, <1>4, FS_AddElement
<1>6. S \union {hand} = Urbs
  BY <1>2, <1>3, <1>5, FS_Subset
<1> QED  BY <1>6 DEF S, Reaped, Unsubmitted

(* A transfer whose URBs are freed has none with the kernel: because it    *)
(* has only one, because all are retired, or because the last one is back  *)
(* in order.                                                               *)
LEMMA LastBack ==
  ASSUME IInv, HandleReaped, ~tp'.urbs
  PROVE  completed = <<>> /\ Queued = {}
<1>1. /\ hand \in Urbs /\ urb[hand].at = "back" /\ ~fd_removed /\ tp.urbs
      /\ user \notin {"submit", "submitted"} /\ ~CancelLoop /\ Counts
  BY HandledSteps
<1>2. /\ Queues /\ Counted /\ InOrder /\ Typed /\ Possible
      /\ NumUrbs \in Nat \ {0} /\ Urbs = 1..NumUrbs /\ completed \in Seq(Urbs)
  BY <1>1, SomeUrbs DEF IInv, Kernel, Results, Urbs, Typed
<1>3. \A i \in Urbs : urb[i].at \notin {"queued", "done"}
  <2>1. CASE mode = "control"
    <3>1. Urbs = {hand}
      BY <1>1, <1>2, <2>1 DEF NumUrbs
    <3> QED  BY <1>1, <3>1
  <2>2. CASE AllRetired
    <3>1. Cardinality(Reaped \union Unsubmitted) + 1 = NumUrbs
      BY <1>1, <1>2, <2>2 DEF AllRetired, Retired, Counted
    <3> QED  BY <1>1, <1>2, <3>1, AllOthersBack
  <2>3. CASE tp.reap_action = "NORMAL" /\ (hand = NumUrbs \/ urb[hand].status = "overflow")
    <3>1. hand = NumUrbs
      BY <1>1, <1>2, <2>3 DEF Possible
    <3>2. Ascending
      BY <1>1, <1>2, <2>3 DEF InOrder
    <3>3. \A i \in Urbs : i # hand => i < hand
      BY <1>2, <3>1
    <3> QED  BY <1>1, <3>2, <3>3 DEF Ascending
  <2> QED  BY <1>1, <2>1, <2>2, <2>3 DEF Counts
<1>4. Len(completed) = 0
  <2>1. ASSUME Len(completed) # 0 PROVE FALSE
    <3>1. 1 \in 1..Len(completed) /\ completed[1] \in Urbs
      BY <1>2, <2>1
    <3> QED  BY <1>2, <1>3, <3>1 DEF Queues
  <2> QED  BY <2>1
<1>5. completed = <<>>
  BY <1>2, <1>4
<1> QED  BY <1>3, <1>5 DEF Queued

(* A file descriptor that was given up stays so.                           *)
LEMMA StillReaped == ASSUME IInv, [Next]_vars, ~fd_removed' PROVE ~fd_removed /\ Kernel
<1>1. fd_removed' = fd_removed \/ fd_removed' = TRUE
  BY Zenon DEF Next, User, Timer, Reaper, vars, kernel, DeviceRuns, Unplug, Discard, SubmitLock,
     SubmitAdd, SubmitUrb, FirstRefused, BulkRefused, IsoRefused, Refused, SubmitReturns,
     SubmitUndo, Cancel, Expire, TimerCancel, TimerLeave, Reap, HandleReaped, RemainingDiscarded,
     HandleCancellation, RemoveFromList, Callback, Disconnect, FindLock, FindCheck, ClearPriv
<1> QED  BY <1>1 DEF IInv

(* ... and so does Reap, which takes the URB at their head.               *)
LEMMA ReapQueues ==
  ASSUME Typed, Queues, Reap, Urbs' = Urbs PROVE Queues' /\ urb[hand'].at = "done"
<1>0. /\ NumUrbs \in Nat \ {0} /\ Urbs = 1..NumUrbs /\ hand' \in Urbs /\ hand' = completed[1]
      /\ Len(completed) \in Nat \ {0} /\ Len(completed') = Len(completed) - 1
      /\ \A k \in 1..Len(completed') : completed'[k] = completed[k + 1]
      /\ urb'[hand'].at = "back" /\ \A j \in Urbs \ {hand'} : urb'[j] = urb[j]
      /\ tp' = tp /\ completed \in Seq(Urbs)
  BY SomeUrbs, ReapSteps DEF Urbs
<1>1. urb[hand'].at = "done"
  BY <1>0 DEF Queues
<1>2. ASSUME NEW k \in 1..Len(completed')
      PROVE /\ k + 1 \in 1..Len(completed) /\ completed'[k] = completed[k + 1]
            /\ completed'[k] \in Urbs \ {hand'} /\ urb'[completed'[k]].at = "done"
  <2>1. k + 1 \in 1..Len(completed) /\ k + 1 # 1 /\ 1 \in 1..Len(completed)
    BY <1>0
  <2>2. completed'[k] = completed[k + 1] /\ completed[k + 1] \in Urbs
    <3>1. completed[k + 1] \in Urbs
      BY <1>0, <2>1
    <3> QED  BY <1>0, <3>1
  <2>3. completed[k + 1] # completed[1]
    BY <2>1 DEF Queues
  <2>4. completed[k + 1] \in Urbs \ {hand'} /\ urb[completed[k + 1]].at = "done"
    BY <1>0, <2>1, <2>2, <2>3 DEF Queues
  <2>5. urb'[completed[k + 1]] = urb[completed[k + 1]]
    BY <1>0, <2>4
  <2> QED  BY Zenon, <2>1, <2>2, <2>4, <2>5
<1>3. \A k, m \in 1..Len(completed') : completed'[k] = completed'[m] => k = m
  <2>1. ASSUME NEW k \in 1..Len(completed'), NEW m \in 1..Len(completed'),
                     completed'[k] = completed'[m]
        PROVE  k + 1 = m + 1
    BY <1>2, <2>1 DEF Queues
  <2> QED  BY <2>1
<1>4. ASSUME NEW j \in Urbs, urb'[j].at = "done"
      PROVE  \E k \in 1..Len(completed') : completed'[k] = j
  <2>1. j # hand' /\ urb[j].at = "done"
    BY <1>0, <1>4
  <2>2. PICK k \in 1..Len(completed) : completed[k] = j
    BY <2>1 DEF Queues
  <2>3. k # 1
    BY <1>0, <2>1, <2>2
  <2>4. k - 1 \in 1..Len(completed') /\ (k - 1) + 1 = k
    BY <1>0, <2>3
  <2>5. completed'[k - 1] = j
    BY <1>0, <2>2, <2>4
  <2> QED  BY <2>4, <2>5
<1>5. \A a, b \in Urbs : a < b /\ urb'[a].at = "idle" => urb'[b].at = "idle"
  <2>1. \A j \in Urbs : urb'[j].at = "idle" <=> urb[j].at = "idle"
    BY <1>0, <1>1
  <2> QED  BY <2>1 DEF Queues
<1>6. tp'.urbs
  <2>1. completed # <<>>
    BY <1>0
  <2> QED  BY <1>0, <2>1 DEF Queues
<1> QED  BY <1>0, <1>1, <1>2, <1>3, <1>4, <1>5, <1>6 DEF Queues

(* The queues of the kernel.                                               *)
LEMMA NextQueues == ASSUME IInv, [Next]_vars, ~fd_removed' PROVE Queues'
<1>0. /\ Typed /\ Results /\ Queues /\ Phases /\ ~fd_removed
      /\ NumUrbs \in Nat \ {0} /\ Urbs = 1..NumUrbs /\ completed \in Seq(Urbs)
  BY SomeUrbs, StillReaped DEF IInv, Kernel, Urbs, Typed
<1>01. Urbs' = Urbs
  BY SameTransfer
<1>03. ASSUME UNCHANGED <<urb, completed>>, hand' \in {0, hand}, tp'.urbs = tp.urbs
       PROVE  Queues'
  BY <1>0, <1>01, <1>03 DEF Queues, Queued
<1>04. ASSUME \A i \in Urbs : urb[i].at = "idle" PROVE completed = <<>> /\ hand = 0
  <2>1. Len(completed) = 0
    <3>1. ASSUME Len(completed) # 0 PROVE FALSE
      <4>1. 1 \in 1..Len(completed) /\ completed[1] \in Urbs
        BY <1>0, <3>1
      <4> QED  BY <1>0, <1>04, <4>1 DEF Queues
    <3> QED  BY <3>1
  <2>2. completed = <<>>
    BY <1>0, <2>1
  <2> QED  BY <1>0, <1>04, <2>2 DEF Queues, Typed
<1>1. CASE DeviceRuns \/ Unplug
  <2>1. UNCHANGED <<hand, tp>>
    BY <1>0, <1>1, KernelSteps DEF threads
  <2>2. CASE Unplugs
    BY <1>03, <2>1, <2>2 DEF Unplugs
  <2>3. ASSUME NEW i \in Queued, NEW c \in Nat, NEW status \in UrbResults, Runs(i, c, status)
        PROVE  Queues'
    BY <1>0, <1>01, <2>1, <2>3, LeavesQueues DEF Runs
  <2> QED  BY <1>0, <1>1, <2>2, <2>3, KernelSteps
<1>2. CASE Discard
  <2>1. UNCHANGED <<hand, tp>> /\ (UNCHANGED <<urb, completed>> \/ Discarded1(loop.at))
    BY <1>0, <1>2, DiscardSteps DEF kernel
  <2>2. CASE Discarded1(loop.at)
    <3>1. loop.at \in Int
      BY <1>0 DEF Typed, Loops
    <3> QED  BY <1>0, <1>01, <2>1, <2>2, <3>1, DiscardedLeaves, LeavesQueues
  <2> QED  BY <1>03, <2>1, <2>2
<1>3. CASE SubmitAdd
  <2>1. ~tp.urbs
    BY <1>0, <1>3 DEF SubmitAdd, Phases, Typed
  <2>2. completed = <<>> /\ hand = 0
    BY <1>0, <2>1 DEF Queues
  <2>3. completed' = <<>> /\ hand' = 0 /\ tp'.urbs /\ \A i \in Urbs : urb'[i].at = "idle"
    BY <1>3, <2>2 DEF SubmitAdd
  <2>4. Len(completed') = 0
    BY <2>3
  <2> QED  BY <1>01, <2>3, <2>4 DEF Queues
<1>4. CASE SubmitUrb
  <2>1. PICK i \in Urbs : /\ Submitted = 1..(i - 1) /\ urb'[i].at = "queued"
                          /\ \A j \in Urbs \ {i} : urb'[j] = urb[j]
    BY <1>0, <1>4, SubmitSteps
  <2>2. user = "submit" /\ UNCHANGED <<hand, tp, completed>>
    BY <1>0, <1>4, SubmitSteps
  <2>3. \A j \in Urbs : urb[j].at = "idle" <=> i <= j
    BY <1>0, <2>1 DEF Submitted
  <2>4. \A j \in Urbs : urb'[j].at = "idle" <=> i < j
    BY <1>0, <2>1, <2>3
  <2>5. urb[i].at = "idle"
    BY <1>0, <2>3
  <2>6. \A j \in Urbs : urb[j].at \in {"done", "back"} => urb'[j].at = urb[j].at
    BY <2>1, <2>5
  <2>7. \A j \in Urbs : urb'[j].at = "done" => urb[j].at = "done"
    BY <2>1
  <2>8. \A k \in 1..Len(completed) : completed[k] \in Urbs
    BY <1>0
  <2>9. tp.urbs
    BY <1>0, <2>2 DEF Phases
  <2>10. \A a, b \in Urbs : a < b /\ urb'[a].at = "idle" => urb'[b].at = "idle"
    BY <1>0, <2>4
  <2>11. hand # 0 => urb'[hand].at = "back"
    BY <1>0, <2>6 DEF Queues, Typed
  <2>12. \A k \in 1..Len(completed) : urb'[completed[k]].at = "done"
    BY <1>0, <2>6, <2>8 DEF Queues
  <2>13. \A j \in Urbs : urb'[j].at = "done" => \E k \in 1..Len(completed) : completed[k] = j
    BY <1>0, <2>7 DEF Queues
  <2>14. \A j, k \in 1..Len(completed) : completed[j] = completed[k] => j = k
    BY <1>0 DEF Queues
  <2> QED  BY Zenon, <1>01, <2>2, <2>9, <2>10, <2>11, <2>12, <2>13, <2>14 DEF Queues
<1>5. CASE FirstRefused
  <2>1. UNCHANGED <<urb, completed, hand>> /\ Submitted = 1..(1 - 1)
    BY <1>5 DEF FirstRefused, Refused, kernel
  <2>2. \A i \in Urbs : urb[i].at = "idle"
    BY <2>1 DEF Submitted
  <2> QED  BY <1>0, <1>01, <1>04, <2>1, <2>2 DEF Queues, Queued
<1>6. CASE BulkRefused \/ IsoRefused
  BY <1>0, <1>03, <1>6, RefusedSteps
<1>7. CASE Reap
  BY <1>0, <1>01, <1>7, ReapQueues
<1>8. CASE HandleReaped
  <2>1. UNCHANGED <<urb, completed>> /\ hand' = 0 /\ tp.urbs
    BY <1>8, HandledSteps
  <2>2. CASE tp'.urbs
    <3>1. tp' \in Privates /\ tp \in Privates
      BY <1>0, <1>8, HandledSteps DEF Counts, Typed
    <3> QED  BY <1>0, <1>03, <2>1, <2>2, <3>1 DEF Privates
  <2>3. CASE ~tp'.urbs
    <3>1. completed = <<>> /\ Queued = {}
      BY <1>8, <2>3, LastBack
    <3> QED  BY <1>0, <1>01, <2>1, <3>1 DEF Queues, Queued
  <2> QED  BY <2>2, <2>3
<1>9. CASE Quiet
  <2>1. UNCHANGED <<urb, completed, hand>> /\ tp'.urbs = tp.urbs
    BY <1>9, QuietSteps DEF Frame, CancelStarts, CancelStops
  <2> QED  BY <1>03, <2>1
<1> QED  BY <1>1, <1>2, <1>3, <1>4, <1>5, <1>6, <1>7, <1>8, <1>9
         DEF Next, User, Reaper, Quiet

(* num_retired is the number of URBs back or never submitted.              *)
LEMMA NextCounted == ASSUME IInv, [Next]_vars, ~fd_removed' PROVE Counted'
<1>0. /\ Typed /\ Queues /\ Counted /\ Phases /\ Locks /\ ~fd_removed
      /\ NumUrbs \in Nat \ {0} /\ Urbs = 1..NumUrbs
  BY SomeUrbs, StillReaped DEF IInv, Kernel, Urbs
<1>01. Urbs' = Urbs
  BY SameTransfer
<1>02. ASSUME \A i \in Urbs : urb'[i].at = "idle" <=> urb[i].at = "idle"
       PROVE  Unsubmitted' = Unsubmitted
  BY <1>01, <1>02 DEF Unsubmitted
<1>03. ASSUME \A i \in Urbs : (urb'[i].at = "back" /\ i # hand')
                <=> (urb[i].at = "back" /\ i # hand)
       PROVE  Reaped' = Reaped
  BY <1>01, <1>03 DEF Reaped
<1>04. ASSUME Unsubmitted' = Unsubmitted, Reaped' = Reaped, user' = "submit" <=> user = "submit",
              tp'.urbs => tp.urbs, tp'.num_retired = tp.num_retired,
              tp'.reap_action = tp.reap_action \/ (user # "submit" /\ tp'.reap_action # "NORMAL")
       PROVE  Counted'
  BY <1>0, <1>04 DEF Counted
<1>1. CASE DeviceRuns \/ Unplug
  <2>1. UNCHANGED <<hand, tp, user>>
    BY <1>0, <1>1, KernelSteps DEF threads, IInv
  <2>2. CASE Unplugs
    BY <1>02, <1>03, <1>04, <2>1, <2>2 DEF Unplugs
  <2>3. ASSUME NEW i \in Queued, NEW c \in Nat, NEW status \in UrbResults, Runs(i, c, status)
        PROVE  Counted'
    <3>1. \A j \in Urbs : \/ urb'[j] = urb[j]
                          \/ urb[j].at = "queued" /\ urb'[j].at = "done"
      BY <1>0, <1>01, <2>3, LeavesUrbs DEF Runs, Queued
    <3>2. Unsubmitted' = Unsubmitted
      BY <1>02, <3>1
    <3>3. Reaped' = Reaped
      BY <1>03, <2>1, <3>1
    <3> QED  BY <1>04, <2>1, <3>2, <3>3
  <2> QED  BY <1>0, <1>1, <2>2, <2>3, KernelSteps DEF IInv
<1>2. CASE Discard
  <2>1. UNCHANGED <<hand, tp, user>> /\ (UNCHANGED urb \/ Discarded1(loop.at))
    BY <1>0, <1>2, DiscardSteps DEF kernel
  <2>2. \A j \in Urbs : \/ urb'[j] = urb[j]
                        \/ urb[j].at = "queued" /\ urb'[j].at = "done"
    BY <2>1 DEF Discarded1, Queued
  <2>3. Unsubmitted' = Unsubmitted
    BY <1>02, <2>2
  <2>4. Reaped' = Reaped
    BY <1>03, <2>1, <2>2
  <2> QED  BY <1>04, <2>1, <2>3, <2>4
<1>3. CASE SubmitAdd
  BY <1>01, <1>3 DEF SubmitAdd, Counted, Reaped
<1>4. CASE SubmitUrb
  <2>1. PICK i \in Urbs : /\ Submitted = 1..(i - 1) /\ urb'[i].at = "queued"
                          /\ \A j \in Urbs \ {i} : urb'[j] = urb[j]
                          /\ user' = IF i = NumUrbs THEN "submitted" ELSE "submit"
    BY <1>0, <1>4, SubmitSteps
  <2>2. user = "submit" /\ UNCHANGED <<hand, tp>> /\ tp.urbs
    BY <1>0, <1>4, SubmitSteps DEF Phases
  <2>3. urb[i].at = "idle"
    BY <1>0, <2>1 DEF Submitted
  <2>4. Reaped' = {} /\ tp.num_retired = 0 /\ tp.reap_action = "NORMAL"
    <3>1. Reaped' = Reaped
      BY <1>03, <2>1, <2>2, <2>3
    <3> QED  BY <1>0, <2>2, <3>1 DEF Counted
  <2>5. CASE i # NumUrbs
    BY <2>1, <2>2, <2>4, <2>5 DEF Counted
  <2>6. CASE i = NumUrbs
    <3>1. \A j \in Urbs : urb'[j].at # "idle"
      BY <1>0, <2>1, <2>6 DEF Submitted
    <3>2. Unsubmitted' = {}
      BY <1>01, <3>1 DEF Unsubmitted
    <3>3. Cardinality(Reaped' \union Unsubmitted') = 0
      <4>1. Reaped' \union Unsubmitted' = {}
        BY <2>4, <3>2
      <4> QED  BY Zenon, <4>1, FS_EmptySet
    <3> QED  BY <2>1, <2>2, <2>4, <2>6, <3>2, <3>3 DEF Counted
  <2> QED  BY <2>5, <2>6
<1>5. CASE FirstRefused
  BY <1>0, <1>5 DEF FirstRefused, Counted, Typed, Privates
<1>6. CASE BulkRefused \/ IsoRefused
  <2>1. PICK i \in Urbs \ {1} : /\ Submitted = 1..(i - 1)
                                /\ tp.num_retired = 0 => tp'.num_retired = NumUrbs - i + 1
    BY <1>0, <1>6, RefusedSteps
  <2>2. /\ user = "submit" /\ user' = "submitted" /\ UNCHANGED <<urb, hand>>
        /\ tp'.reap_action # "NORMAL"
    BY <1>0, <1>6, RefusedSteps
  <2>3. tp.num_retired = 0 /\ Reaped' = {}
    <3>1. Reaped' = Reaped
      BY <1>03, <2>2
    <3> QED  BY <1>0, <2>2, <3>1 DEF Counted, Phases
  <2>4. Unsubmitted' = i..NumUrbs
    <3>1. \A j \in Urbs : urb[j].at = "idle" <=> i <= j
      BY <1>0, <2>1 DEF Submitted
    <3>2. Unsubmitted' = {j \in Urbs : i <= j}
      BY <1>01, <2>2, <3>1 DEF Unsubmitted
    <3> QED  BY <1>0, <3>2
  <2>5. Cardinality(i..NumUrbs) = NumUrbs - i + 1
    BY <1>0, FS_Interval
  <2>6. Reaped' \union Unsubmitted' = i..NumUrbs
    BY <2>3, <2>4
  <2> QED  BY <2>1, <2>2, <2>3, <2>5, <2>6 DEF Counted
<1>7. CASE Reap
  <2>1. UNCHANGED <<user, tp>> /\ hand' \in Urbs /\ urb'[hand'].at = "back"
        /\ \A j \in Urbs \ {hand'} : urb'[j] = urb[j]
    BY <1>0, <1>7, ReapSteps
  <2>2. urb[hand'].at = "done" /\ hand = 0
    BY <1>0, <1>01, <1>7, ReapQueues, ReapSteps DEF Phases
  <2>3. Unsubmitted' = Unsubmitted
    BY <1>02, <2>1, <2>2
  <2>4. Reaped' = Reaped
    BY <1>0, <1>03, <2>1, <2>2
  <2> QED  BY <1>04, <2>1, <2>3, <2>4
<1>8. CASE HandleReaped
  <2>1. /\ hand \in Urbs /\ hand' = 0 /\ urb[hand].at = "back" /\ UNCHANGED <<urb, user>>
        /\ tp.urbs /\ user \notin {"submit", "submitted"}
        /\ tp'.urbs => tp'.num_retired = Retired
        /\ tp'.reap_action = "NORMAL" => tp.reap_action = "NORMAL"
    BY <1>8, HandledSteps DEF Counts
  <2>2. Unsubmitted' = Unsubmitted
    BY <1>02, <2>1
  <2>3. Reaped' = Reaped \union {hand} /\ hand \notin Reaped \union Unsubmitted
    BY <1>0, <1>01, <2>1 DEF Reaped, Unsubmitted
  <2>4. IsFiniteSet(Reaped \union Unsubmitted)
    <3>1. IsFiniteSet(Urbs)
      BY <1>0, FS_Interval
    <3>2. Reaped \union Unsubmitted \subseteq Urbs
      BY DEF Reaped, Unsubmitted
    <3> QED  BY <3>1, <3>2, FS_Subset
  <2>5. Cardinality(Reaped' \union Unsubmitted') = Cardinality(Reaped \union Unsubmitted) + 1
    <3>1. Reaped' \union Unsubmitted' = (Reaped \union Unsubmitted) \union {hand}
      BY <2>2, <2>3
    <3> QED  BY <2>3, <2>4, <3>1, FS_AddElement
  <2> QED  BY <1>0, <2>1, <2>2, <2>5 DEF Counted, Retired
<1>9. CASE Quiet
  <2>1. /\ UNCHANGED <<urb, hand>> /\ (user' = "submit" <=> user = "submit")
        /\ tp'.urbs = tp.urbs /\ tp'.num_retired = tp.num_retired
        /\ tp'.reap_action = tp.reap_action \/ (user # "submit" /\ tp'.reap_action # "NORMAL")
    BY <1>9, QuietSteps DEF Frame, CancelStarts, CancelStops, CancelActions
  <2>2. Unsubmitted' = Unsubmitted /\ Reaped' = Reaped
    BY <1>02, <1>03, <2>1
  <2> QED  BY <1>04, <2>1, <2>2
<1> QED  BY <1>1, <1>2, <1>3, <1>4, <1>5, <1>6, <1>7, <1>8, <1>9
         DEF Next, User, Reaper, Quiet

(* Ascending is kept by a URB that leaves the endpoint when it is the      *)
(* first one there, ...                                                    *)
LEMMA LeavesAscending ==
  ASSUME Typed, Queues, Ascending, Urbs' = Urbs,
         NEW i, NEW c, NEW status, Leaves(i, c, status), \A j \in Queued : i <= j
  PROVE  Ascending'
<1>0. /\ NumUrbs \in Nat \ {0} /\ Urbs = 1..NumUrbs /\ i \in Urbs /\ c \in Nat /\ i + c <= NumUrbs
      /\ i \in Queued /\ completed \in Seq(Urbs)
      /\ Len(completed) \in Nat /\ Len(completed') = Len(completed) + 1 + c
  BY SomeUrbs DEF Leaves, Queued, Urbs, Typed
<1>1. \A j \in Urbs : \/ urb'[j] = urb[j] /\ (j < i \/ i + c < j)
                      \/ /\ i <= j /\ j <= i + c /\ urb[j].at = "queued" /\ urb'[j].at = "done"
  BY LeavesUrbs DEF Queued
<1>2. \A k \in 1..Len(completed) : completed'[k] = completed[k] /\ completed[k] \in Urbs
                                   /\ urb[completed[k]].at = "done"
  <2>1. completed \in Seq(Urbs)
    BY <1>0
  <2>2. \A k \in 1..Len(completed) : completed[k] \in Urbs
    BY <2>1
  <2> QED  BY Zenon, <2>2 DEF Leaves, Queues
<1>3. \A k \in 1..Len(completed) : completed[k] < i
  <2>1. ASSUME NEW k \in 1..Len(completed), i <= completed[k] PROVE FALSE
    <3>1. urb[i].at = "queued" /\ urb[completed[k]].at = "done"
      BY <1>0, <1>2 DEF Queued
    <3>2. i < completed[k]
      BY <1>0, <1>2, <2>1, <3>1
    <3> QED  BY <1>0, <1>2, <3>1, <3>2 DEF Ascending
  <2> QED  BY <1>0, <1>2, <2>1
<1>4. ASSUME NEW k \in 1..Len(completed')
      PROVE \/ k \in 1..Len(completed) /\ completed'[k] = completed[k]
            \/ k > Len(completed) /\ completed'[k] = i + (k - (Len(completed) + 1))
  <2>1. CASE k \in 1..Len(completed)
    BY <1>2, <2>1
  <2>2. CASE k = Len(completed) + 1
    BY <1>0, <2>2 DEF Leaves
  <2>3. CASE k > Len(completed) + 1
    <3>1. PICK m \in 1..c : k = Len(completed) + 1 + m
      <4>1. k - (Len(completed) + 1) \in 1..c
            /\ k = Len(completed) + 1 + (k - (Len(completed) + 1))
        BY <1>0, <2>3
      <4> QED  BY <4>1
    <3>2. completed'[k] = i + m
      BY <3>1 DEF Leaves
    <3>3. m = k - (Len(completed) + 1)
      BY <1>0, <3>1
    <3> QED  BY <2>3, <3>2, <3>3, <1>0
  <2>4. k \in 1..Len(completed) \/ k = Len(completed) + 1 \/ k > Len(completed) + 1
    BY <1>0
  <2> QED  BY <2>1, <2>2, <2>3, <2>4
<1>5. ASSUME NEW k \in 1..Len(completed'), NEW m \in 1..Len(completed'), k < m
      PROVE  completed'[k] < completed'[m]
  <2>1. CASE m \in 1..Len(completed)
    <3>1. k \in 1..Len(completed)
      BY <1>0, <1>5, <2>1
    <3> QED  BY <1>2, <1>5, <2>1, <3>1 DEF Ascending
  <2>2. CASE k \in 1..Len(completed) /\ m > Len(completed)
    <3>1. completed'[k] = completed[k] /\ completed[k] < i /\ completed[k] \in Urbs
      BY <1>2, <1>3, <2>2
    <3>2. completed'[m] = i + (m - (Len(completed) + 1))
      BY <1>4, <2>2
    <3> QED  BY <1>0, <2>2, <3>1, <3>2
  <2>3. CASE k > Len(completed) /\ m > Len(completed)
    <3>1. /\ completed'[k] = i + (k - (Len(completed) + 1))
          /\ completed'[m] = i + (m - (Len(completed) + 1))
      BY <1>4, <2>3
    <3> QED  BY <1>0, <1>5, <2>3, <3>1
  <2> QED  BY <1>0, <2>1, <2>2, <2>3
<1>6. ASSUME NEW a \in Urbs, NEW b \in Urbs, a < b
      PROVE  /\ urb'[b].at = "done" => urb'[a].at \in {"done", "back"}
             /\ urb'[b].at = "back" => urb'[a].at = "back"
  <2>1. urb[b].at = "done" => urb[a].at \in {"done", "back"}
    BY <1>6 DEF Ascending
  <2>2. urb[b].at = "back" => urb[a].at = "back"
    BY <1>6 DEF Ascending
  <2>3. urb[a].at = "queued" => i <= a
    BY DEF Queued
  <2>4. a < i => urb[a].at \in {"done", "back"}
    <3>1. urb[i].at = "queued"
      BY <1>0 DEF Queued
    <3>2. urb[a].at = "idle" => ~(a < i)
      BY <1>0, <3>1 DEF Queues
    <3>3. urb[a].at \in UrbPlaces
      BY DEF Typed, UrbRecords
    <3> QED  BY <1>0, <2>3, <3>2, <3>3 DEF UrbPlaces
  <2>5. \/ urb'[a] = urb[a] /\ (a < i \/ i + c < a)
        \/ i <= a /\ a <= i + c /\ urb[a].at = "queued" /\ urb'[a].at = "done"
    BY <1>1
  <2>6. \/ urb'[b] = urb[b]
        \/ i <= b /\ b <= i + c /\ urb[b].at = "queued" /\ urb'[b].at = "done"
    BY <1>1
  <2> QED  BY <1>0, <1>6, <2>1, <2>2, <2>4, <2>5, <2>6
<1> QED  BY <1>5, <1>6 DEF Ascending

(* ... and by the event thread.                                            *)
LEMMA ReapAscending ==
  ASSUME Typed, Queues, Ascending, Reap, Urbs' = Urbs PROVE Ascending'
<1>0. /\ NumUrbs \in Nat \ {0} /\ Urbs = 1..NumUrbs /\ hand' \in Urbs /\ hand' = completed[1]
      /\ Len(completed) \in Nat \ {0} /\ Len(completed') = Len(completed) - 1
      /\ \A k \in 1..Len(completed') : completed'[k] = completed[k + 1]
      /\ urb'[hand'].at = "back" /\ \A j \in Urbs \ {hand'} : urb'[j] = urb[j]
      /\ completed \in Seq(Urbs)
  BY SomeUrbs, ReapSteps DEF Urbs
<1>1. urb[hand'].at = "done"
  BY ReapQueues
<1>2. ASSUME NEW k \in 1..Len(completed'), NEW m \in 1..Len(completed'), k < m
      PROVE  completed'[k] < completed'[m]
  <2>1. k + 1 \in 1..Len(completed) /\ m + 1 \in 1..Len(completed) /\ k + 1 < m + 1
    BY <1>0, <1>2
  <2>2. completed[k + 1] < completed[m + 1]
    BY <2>1 DEF Ascending
  <2> QED  BY <1>0, <2>2
<1>3. ASSUME NEW a \in Urbs, a < hand' PROVE urb[a].at = "back"
  <2>1. urb[a].at \in {"done", "back"}
    BY <1>0, <1>1, <1>3 DEF Ascending
  <2>2. ASSUME urb[a].at = "done" PROVE FALSE
    <3>1. PICK k \in 1..Len(completed) : completed[k] = a
      BY <2>2 DEF Queues
    <3>2. k # 1 /\ 1 \in 1..Len(completed) /\ 1 < k
      BY <1>0, <1>3, <3>1
    <3>3. completed[1] < completed[k]
      BY <3>2 DEF Ascending
    <3> QED  BY <1>0, <1>3, <3>1, <3>3
  <2> QED  BY <2>1, <2>2
<1>4. ASSUME NEW a \in Urbs, NEW b \in Urbs, a < b
      PROVE  /\ urb'[b].at = "done" => urb'[a].at \in {"done", "back"}
             /\ urb'[b].at = "back" => urb'[a].at = "back"
  <2>1. CASE b = hand'
    <3>1. urb'[a] = urb[a] /\ urb[a].at = "back"
      BY <1>0, <1>3, <1>4, <2>1
    <3> QED  BY <3>1
  <2>2. CASE b # hand'
    <3>1. urb'[b] = urb[b] /\ (urb'[a] = urb[a] \/ urb'[a].at = "back")
      BY <1>0, <2>2
    <3> QED  BY <1>4, <3>1 DEF Ascending
  <2> QED  BY <2>1, <2>2
<1> QED  BY <1>2, <1>4 DEF Ascending

(* The loop of a cancellation goes over all URBs, and is a success as long *)
(* as the last one was discarded.                                          *)
LEMMA NextCancelLoops == ASSUME IInv, [Next]_vars PROVE CancelLoops'
<1>0. /\ Typed /\ Results /\ CancelLoops /\ Locks /\ Phases
      /\ loop \in Loops /\ NumUrbs \in Nat \ {0}
  BY SomeUrbs DEF IInv, Typed
<1>01. NumUrbs' = NumUrbs
  BY SameTransfer
<1> USE DEF CancelLoops
<1>1. CASE DeviceRuns \/ Unplug
  <2>1. UNCHANGED <<loop, user, timer>>
    BY <1>0, <1>1, KernelSteps DEF threads
  <2>2. line = "gone" => line' = "gone"
    BY <1>0, <1>1, KernelSteps DEF Unplugs, Runs
  <2> QED  BY <1>0, <1>01, <2>1, <2>2 DEF CancelLoop
<1>2. CASE Discard
  <2>1. /\ UNCHANGED <<user, timer, line>> /\ loop'.first = loop.first /\ loop'.last = loop.last
        /\ loop'.at = loop.at - 1 /\ loop'.ret \in {loop.ret, "not_found", "no_device"}
        /\ loop'.ret = "no_device" => loop.ret = "no_device" \/ line = "gone"
    BY <1>0, <1>2, DiscardSteps DEF kernel, Discarded1
  <2> QED  BY <1>0, <1>01, <2>1 DEF CancelLoop, Loops
<1>3. CASE SubmitAdd
  BY <1>0, <1>3 DEF SubmitAdd, CancelLoop, Locks
<1>4. CASE SubmitUrb
  BY <1>0, <1>01, <1>4, SubmitSteps DEF CancelLoop
<1>5. CASE FirstRefused
  BY <1>0, <1>01, <1>5 DEF FirstRefused, Refused, CancelLoop, kernel
<1>6. CASE BulkRefused \/ IsoRefused
  BY <1>0, <1>6, RefusedSteps DEF CancelLoop, Locks
<1>7. CASE Reap
  BY <1>0, <1>01, <1>7, ReapSteps DEF CancelLoop
<1>8. CASE HandleReaped
  BY <1>8, HandledSteps
<1>9. CASE Quiet
  <2>1. CASE Frame
    BY <1>0, <1>01, <2>1 DEF Frame
  <2>2. CASE CancelStarts
    BY <1>0, <1>01, <2>2 DEF CancelStarts, Discards
  <2>3. CASE CancelStops
    BY <2>3 DEF CancelStops
  <2> QED  BY <1>9, <2>1, <2>2, <2>3, QuietSteps
<1> QED  BY <1>1, <1>2, <1>3, <1>4, <1>5, <1>6, <1>7, <1>8, <1>9
         DEF Next, User, Reaper, Quiet

(* While reap_action is NORMAL the URBs are back in order, but for a       *)
(* cancellation under way. Here Survivable is needed: a device that is     *)
(* gone returns URBs in any order, and a stall on a split transfer lets    *)
(* later ones go on.                                                       *)
LEMMA NextInOrder == ASSUME Survivable, IInv, [Next]_vars, ~fd_removed' PROVE InOrder'
<1>0. /\ Typed /\ Queues /\ Counted /\ InOrder /\ Phases /\ Locks /\ CancelLoops /\ Downwards
      /\ Possible /\ StallEnds /\ loop \in Loops /\ mode \in Modes
      /\ NumUrbs \in Nat \ {0} /\ Urbs = 1..NumUrbs
  BY SomeUrbs, StillReaped DEF IInv, Kernel, Urbs, Results, Typed
<1>01. Urbs' = Urbs
  BY SameTransfer
<1>02. NumUrbs = 1 \/ mode \in {"continuation", "split", "iso"}
  BY <1>0, FaultsAssumption DEF NumUrbs, BulkUrbs
<1>03. mode \in {"continuation", "split", "iso"} => line # "gone" /\ "unplug" \notin Faults[mode]
  BY <1>0 DEF Possible, Survivable
<1>04. ASSUME UNCHANGED <<urb, completed>> PROVE (Ascending' <=> Ascending) /\ Queued' = Queued
  BY <1>01, <1>04 DEF Ascending, Queued
<1> SUFFICES ASSUME tp'.urbs, tp'.reap_action = "NORMAL"
             PROVE  /\ Ascending'
                         \/ (CancelLoop' /\ loop'.ret = "success" /\ loop'.at < loop'.last)
                    /\ CancelLoop' /\ loop'.ret = "not_found" => Queued' = {}
                    /\ reaper'.pc = "discard" => Queued' = {}
  BY DEF InOrder
<1>1. CASE DeviceRuns \/ Unplug
  <2>1. UNCHANGED <<tp, user, timer, loop, reaper>>
    BY <1>0, <1>1, KernelSteps DEF threads, IInv
  <2>2. CASE Unplugs
    BY <1>0, <1>04, <2>1, <2>2 DEF Unplugs, InOrder, CancelLoop
  <2>3. ASSUME NEW i \in Queued, NEW c \in Nat, NEW status \in UrbResults, Runs(i, c, status)
        PROVE  (Ascending => Ascending') /\ Queued' \subseteq Queued
    <3>1. Leaves(i, c, status) /\ (Active(i) \/ "unplug" \in Faults[mode])
      BY <2>3 DEF Runs
    <3>2. \A j \in Queued : i <= j
      <4>1. CASE Active(i)
        BY <4>1 DEF Active
      <4>2. CASE NumUrbs = 1
        BY <1>0, <4>2 DEF Queued
      <4> QED  BY <1>02, <1>03, <3>1, <4>1, <4>2
    <3> QED  BY <1>0, <1>01, <3>1, <3>2, LeavesAscending, LeavesUrbs
  <2>4. (Ascending => Ascending') /\ (Queued = {} => Queued' = {})
    <3>1. CASE Unplugs
      BY <1>04, <3>1 DEF Unplugs
    <3> QED  BY <1>0, <1>1, <2>3, <3>1, KernelSteps DEF IInv
  <2> QED  BY <1>0, <2>1, <2>4 DEF InOrder, CancelLoop
<1>2. CASE Discard
  <2>1. /\ UNCHANGED <<lock, user, timer, reaper, tp>> /\ lock # "free" /\ loop.at >= loop.first
        /\ loop'.last = loop.last /\ loop'.at = loop.at - 1
        /\ \/ line = "gone" /\ UNCHANGED <<urb, completed>> /\ loop'.ret = "no_device"
           \/ line # "gone" /\ Discarded1(loop.at) /\ loop'.ret = loop.ret
           \/ /\ line # "gone" /\ loop.at \notin Queued /\ UNCHANGED <<urb, completed>>
              /\ loop'.ret = IF loop.at = loop.last THEN "not_found" ELSE loop.ret
    BY <1>0, <1>2, DiscardSteps DEF kernel
  <2>2. loop.at \in Int /\ loop.first \in Int /\ loop.last \in Int /\ loop.first <= loop.at
    BY <1>0, <2>1 DEF Loops
  <2>3. user \notin {"submit", "submitted"}
    BY <1>0, <2>1, <2>2 DEF Downwards
  <2>4. CASE ~CancelLoop
    <3>1. lock \in {"user", "timer", "reaper"}
      BY <1>0, <2>1 DEF Typed
    <3>2. reaper.pc = "discard"
      BY <1>0, <2>3, <2>4, <3>1 DEF Locks, CancelLoop
    <3>3. Queued = {} /\ Ascending
      BY <1>0, <2>1, <2>4, <3>2 DEF InOrder
    <3>4. UNCHANGED <<urb, completed>>
      BY <2>1, <3>3 DEF Discarded1
    <3> QED  BY <1>04, <2>1, <2>4, <3>3, <3>4 DEF CancelLoop
  <2>5. CASE CancelLoop
    <3>1. /\ CancelLoop' /\ reaper'.pc # "discard" /\ loop.last = NumUrbs /\ loop.first = 1
          /\ loop.at <= loop.last /\ (loop.at = loop.last => loop.ret = "success")
          /\ loop.ret = "no_device" => line = "gone"
      BY <1>0, <2>1, <2>5 DEF CancelLoops, CancelLoop, Locks
    <3>2. loop'.at < loop'.last
      BY <2>1, <2>2, <3>1
    <3>3. CASE line = "gone" /\ UNCHANGED <<urb, completed>> /\ loop'.ret = "no_device"
      <4>1. loop.at = loop.last
        BY <1>02, <1>03, <2>2, <3>1, <3>3
      <4>2. Ascending
        BY <1>0, <2>1, <2>2, <4>1 DEF InOrder
      <4> QED  BY <1>04, <3>1, <3>3, <4>2
    <3>4. CASE line # "gone" /\ Discarded1(loop.at) /\ loop'.ret = loop.ret
      <4>1. loop.ret # "not_found"
        BY <1>0, <2>1, <2>5, <3>4 DEF InOrder, Discarded1
      <4>2. loop.ret = "success"
        BY <1>0, <3>1, <3>4, <4>1 DEF Loops
      <4> QED  BY <3>1, <3>2, <3>4, <4>2
    <3>5. CASE loop.at \notin Queued /\ UNCHANGED <<urb, completed>> /\ loop.at = loop.last
               /\ loop'.ret = "not_found"
      <4>1. Ascending
        BY <1>0, <2>1, <2>2, <3>5 DEF InOrder
      <4>2. Unsubmitted = {} /\ NumUrbs \in Urbs
        BY <1>0, <2>1, <2>3 DEF Counted
      <4>3. urb[NumUrbs].at \in UrbPlaces \ {"queued", "idle"}
        BY <3>1, <3>5, <4>2 DEF Typed, UrbRecords, Queued, Unsubmitted, IInv
      <4>4. \A i \in Urbs : i < NumUrbs => urb[i].at # "queued"
        BY <4>1, <4>2, <4>3 DEF Ascending, UrbPlaces
      <4>5. Queued = {}
        BY <1>0, <4>3, <4>4 DEF Queued
      <4> QED  BY <1>04, <3>1, <3>5, <4>1, <4>5
    <3>6. CASE UNCHANGED <<urb, completed>> /\ loop.at # loop.last /\ loop'.ret = loop.ret
      <4>1. /\ Ascending \/ loop.ret = "success"
            /\ loop.ret = "not_found" => Queued = {}
        BY <1>0, <2>1, <2>5 DEF InOrder
      <4> QED  BY <1>04, <3>1, <3>2, <3>6, <4>1
    <3> QED  BY <2>1, <3>3, <3>4, <3>5, <3>6
  <2> QED  BY <2>4, <2>5
<1>3. CASE SubmitAdd
  <2>1. ~tp.urbs
    BY <1>0, <1>3 DEF SubmitAdd, Phases, Typed
  <2>2. completed' = <<>> /\ \A i \in Urbs : urb'[i].at = "idle"
    BY <1>0, <1>3, <2>1 DEF SubmitAdd, Queues
  <2>3. Ascending'
    BY <1>01, <2>2 DEF Ascending
  <2>4. ~CancelLoop' /\ reaper'.pc # "discard"
    BY <1>0, <1>3 DEF SubmitAdd, CancelLoop, Locks
  <2> QED  BY <2>3, <2>4
<1>4. CASE SubmitUrb
  <2>1. PICK i \in Urbs : /\ Submitted = 1..(i - 1) /\ urb'[i].at = "queued"
                          /\ \A j \in Urbs \ {i} : urb'[j] = urb[j]
                          /\ user' = IF i = NumUrbs THEN "submitted" ELSE "submit"
    BY <1>0, <1>4, SubmitSteps
  <2>2. user = "submit" /\ UNCHANGED <<tp, completed, timer, reaper, loop>>
    BY <1>0, <1>4, SubmitSteps
  <2>3. ~CancelLoop /\ ~CancelLoop' /\ reaper'.pc # "discard"
    BY <1>0, <2>1, <2>2 DEF CancelLoop, Locks
  <2>4. Ascending
    BY <1>0, <2>2, <2>3 DEF InOrder
  <2>5. \A j \in Urbs : i <= j => urb[j].at = "idle"
    BY <1>0, <2>1 DEF Submitted
  <2>6. ASSUME NEW a \in Urbs, NEW b \in Urbs, a < b
        PROVE  /\ urb'[b].at = "done" => urb'[a].at \in {"done", "back"}
               /\ urb'[b].at = "back" => urb'[a].at = "back"
    <3>1. CASE b < i
      <4>1. urb'[a] = urb[a] /\ urb'[b] = urb[b]
        BY <1>0, <2>1, <2>6, <3>1
      <4> QED  BY <2>4, <2>6, <4>1 DEF Ascending
    <3>2. CASE i <= b
      <4>1. urb'[b].at \in {"queued", "idle"}
        BY <2>1, <2>5, <3>2
      <4> QED  BY <4>1
    <3> QED  BY <1>0, <3>1, <3>2
  <2>7. Ascending'
    BY <1>01, <2>2, <2>4, <2>6 DEF Ascending
  <2> QED  BY <2>3, <2>7
<1>5. CASE FirstRefused
  BY <1>0, <1>5 DEF FirstRefused, Typed, Privates
<1>6. CASE BulkRefused \/ IsoRefused
  BY <1>0, <1>6, RefusedSteps
<1>7. CASE Reap
  <2>1. UNCHANGED <<user, timer, tp, loop>> /\ hand' \in Urbs /\ urb'[hand'].at = "back"
        /\ \A j \in Urbs \ {hand'} : urb'[j] = urb[j]
    BY <1>0, <1>7, ReapSteps
  <2>2. Queued' \subseteq Queued
    BY <1>01, <2>1 DEF Queued
  <2>3. Ascending => Ascending'
    BY <1>0, <1>01, <1>7, ReapAscending
  <2>4. reaper'.pc = "reaped"
    BY <1>0, <1>7, ReapSteps DEF At
  <2> QED  BY <1>0, <2>1, <2>2, <2>3, <2>4 DEF InOrder, CancelLoop
<1>8. CASE HandleReaped
  <2>1. /\ UNCHANGED <<urb, completed>> /\ tp.urbs /\ tp.reap_action = "NORMAL" /\ ~CancelLoop
        /\ ~CancelLoop' /\ hand \in Urbs /\ urb[hand].at = "back"
        /\ reaper'.pc # "discard" \/ DiscardsRest
    BY <1>8, HandledSteps DEF Counts
  <2>2. Ascending
    BY <1>0, <2>1 DEF InOrder
  <2>3. CASE DiscardsRest
    <3>1. urb[hand].status \in {"gone", "stall"} /\ mode \notin {"iso", "control"}
      BY <2>3 DEF DiscardsRest
    <3>2. CASE NumUrbs = 1
      BY <1>0, <1>04, <2>1, <2>2, <3>2 DEF Queued
    <3>3. CASE mode = "continuation"
      <4>1. Queued = {}
        BY <1>0, <2>1, <3>1, <3>3 DEF Possible, StallEnds
      <4> QED  BY <1>04, <2>1, <2>2, <4>1
    <3>4. CASE mode = "split"
      BY <1>0, <2>1, <3>1, <3>4 DEF Possible
    <3> QED  BY <1>02, <3>1, <3>2, <3>3, <3>4
  <2> QED  BY <1>04, <2>1, <2>2, <2>3
<1>9. CASE Quiet
  <2>1. CASE Frame
    BY <1>0, <1>04, <2>1 DEF Frame, InOrder
  <2>2. CASE CancelStarts
    BY <1>0, <1>04, <2>2 DEF CancelStarts, Discards, InOrder
  <2>3. CASE CancelStops
    BY <1>0, <1>04, <2>3 DEF CancelStops, CancelActions, InOrder
  <2> QED  BY <1>9, <2>1, <2>2, <2>3, QuietSteps
<1> QED  BY <1>1, <1>2, <1>3, <1>4, <1>5, <1>6, <1>7, <1>8, <1>9
         DEF Next, User, Reaper, Quiet

-----------------------------------------------------------------------------
(* The invariant holds initially.                                          *)
LEMMA InitIInv == ASSUME Init PROVE IInv
<1> USE DEF Init
<1>1. Typed
  <2>1. urb \in [Urbs -> UrbRecords]
    BY DEF UrbRecords, UrbPlaces, UrbResults
  <2>2. tp \in Privates
    BY DEF Privates, Actions, UrbStatuses, Statuses
  <2>3. loop \in Loops /\ user \in UserPcs /\ timer \in TimerPcs
        /\ reaper \in [pc : ReaperPcs, status : Statuses]
        /\ result \in [status : Statuses, actual : Int]
    BY DEF Loops, Discards, UserPcs, TimerPcs, ReaperPcs, At, Statuses
  <2>4. completed \in Seq(Urbs)
    OBVIOUS
  <2> QED  BY <2>1, <2>2, <2>3, <2>4 DEF Typed
<1>2. Locks /\ CancelLoops
  BY DEF Locks, CancelLoops, CancelLoop, At
<1>3. Phases /\ Causes
  BY DEF Phases, Causes, CauseReported, CancelLoop, At
<1>4. 1 \in Urbs
  BY <1>1, SomeUrbs DEF Urbs
<1>5. \A i \in Urbs : urb[i].at = "idle" /\ urb[i].status = "ok"
  OBVIOUS
<1>6. Queued = {} /\ Reaped = {}
  BY <1>5 DEF Queued, Reaped
<1>7. Downwards /\ Results
  BY <1>5, <1>6 DEF Downwards, Results, Possible, StallEnds, ControlCancelled, Contiguous, At
<1>8. Kernel
  <2>1. completed = <<>> /\ Len(completed) = 0
    OBVIOUS
  <2>2. Queues
    BY <1>5, <1>6, <2>1 DEF Queues
  <2> QED  BY <2>2 DEF Kernel, Counted, InOrder
<1> QED  BY <1>1, <1>2, <1>3, <1>7, <1>8 DEF IInv

(* IInv is inductive.                                                      *)
LEMMA InductiveInvariant == ASSUME Survivable PROVE Spec => []IInv
<1>1. ASSUME IInv, [Next]_vars PROVE IInv'
  <2>1. Typed' /\ Locks' /\ Phases' /\ Causes' /\ CancelLoops' /\ Downwards' /\ Results'
    BY <1>1, NextTyped, NextLocks, NextPhases, NextCauses, NextCancelLoops, NextDownwards,
       NextPossible, NextStallEnds, NextControlCancelled, NextContiguous DEF Results
  <2>2. ASSUME ~fd_removed' PROVE Kernel'
    BY <1>1, <2>2, NextQueues, NextCounted, NextInOrder DEF Kernel
  <2> QED  BY <2>1, <2>2 DEF IInv
<1> QED  BY <1>1, InitIInv, PTL DEF Spec

(* The URBs of a transfer are freed, and it goes back to its user, when    *)
(* the kernel holds none of them, and it goes back once.                   *)
THEOREM UrbsFreedLast == ASSUME Survivable PROVE Spec => []FreedLast
<1>1. ASSUME IInv PROVE FreedLast
  <2>1. called <= 1 /\ (called = 1 => owner = "user")
    BY <1>1 DEF IInv, Phases, Typed
  <2>2. owner = "user" => ~tp.urbs
    BY <1>1 DEF IInv, Phases
  <2>3. ~tp.urbs /\ ~fd_removed => hand = 0 /\ completed = <<>> /\ Queued = {}
    BY <1>1 DEF IInv, Kernel, Queues
  <2> QED  BY <2>1, <2>2, <2>3 DEF FreedLast
<1> QED  BY <1>1, InductiveInvariant, PTL

(* A callback says TIMED_OUT or CANCELLED only if the cancellation of the  *)
(* timeout, or of the user, is the one that succeeded.                     *)
THEOREM CauseIsReported == ASSUME Survivable PROVE Spec => []CauseReported
<1>1. IInv => CauseReported
  BY DEF IInv, Causes
<1> QED  BY <1>1, InductiveInvariant, PTL

-----------------------------------------------------------------------------
(***************************************************************************)
(* What the device sent, from the wire to the buffer.  No sum over the     *)
(* URBs is needed: each one says from which unit on it was filled, and the *)
(* URBs that are done follow each other without a gap.                     *)
(***************************************************************************)
Upto(i) == urb[i].from + urb[i].actual

(* The first unit that no reaped URB has.                                  *)
Waiting == IF completed = <<>> THEN sent ELSE urb[completed[1]].from

(* Nothing is received beyond the end of a URB, or of those before it.     *)
Bounded ==
    /\ sent \in 0..length
    /\ \A i \in Urbs :
          /\ urb[i].actual \in 0..Len1(i) /\ urb[i].from >= 0 /\ Upto(i) <= sent
          /\ urb[i].actual > 0 => urb[i].from <= Start(i)

(* The device fills URBs in order.                                         *)
NotYet(i) == urb[i].at \in {"idle", "queued"}
Ahead ==
    \A i \in Urbs : NotYet(i) =>
        /\ sent <= Start(i)
        /\ \A j \in Urbs : i <= j => urb[j].actual = 0

(* While all URBs are filled to the end, no data is out of place.          *)
FullUpTo(j) == \A i \in Urbs : i < j => urb[i].actual = Len1(i)
Gapless ==
    \A j \in Urbs : FullUpTo(j) =>
        /\ NotYet(j) => sent = Start(j)
        /\ urb[j].actual > 0 => urb[j].from = Start(j)

(* No data comes behind a URB that failed for good.                        *)
FaultLast ==
    \A i, j \in Urbs : i < j /\ urb[i].status \in {"stall", "gone"} => urb[j].actual = 0

Filled == Bounded /\ Ahead /\ Gapless /\ FaultLast

(* The URBs that are done are in the order of their data.                  *)
Chain ==
    /\ \A k \in 1..Len(completed) :
          Upto(completed[k]) = IF k = Len(completed) THEN sent ELSE urb[completed[k + 1]].from
    /\ hand # 0 => Upto(hand) = Waiting

-----------------------------------------------------------------------------
(* No step changes where the parts of the buffer are.                      *)
LEMMA SameLayout ==
  ASSUME Typed, [Next]_vars
  PROVE  /\ length' = length /\ mode' = mode /\ NumUrbs' = NumUrbs /\ Urbs' = Urbs
         /\ \A i : Start(i)' = Start(i)
         /\ \A i : Len1(i)' = Len1(i)
<1>1. length' = length /\ mode' = mode /\ NumUrbs' = NumUrbs /\ Urbs' = Urbs
  BY SameTransfer
<1>2. \A i : Start(i)' = Start(i)
  BY DEF Start
<1> QED  BY <1>1, <1>2 DEF Len1

(* Units are numbers.                                                      *)
LEMMA Units ==
  ASSUME Typed
  PROVE  \A i \in Urbs : urb[i].actual \in Int /\ urb[i].from \in Int
BY DEF Typed, UrbRecords

(* A step that changes no results of URBs, and gives none to the endpoint. *)
LEMMA SameResults ==
  ASSUME Typed, [Next]_vars, Filled, sent' = sent,
         \A i \in Urbs : /\ urb'[i].actual = urb[i].actual /\ urb'[i].from = urb[i].from
                         /\ urb'[i].status = urb[i].status
                         /\ urb'[i].at \in {"idle", "queued"} => urb[i].at \in {"idle", "queued"}
  PROVE  Filled'
<1>1. /\ length' = length /\ Urbs' = Urbs /\ \A i : Start(i)' = Start(i)
      /\ \A i : Len1(i)' = Len1(i)
  BY SameLayout
<1>2. Bounded'
  BY <1>1 DEF Filled, Bounded, Upto
<1>3. Ahead'
  BY <1>1 DEF Filled, Ahead, NotYet
<1>4. Gapless'
  <2> SUFFICES ASSUME NEW j \in Urbs, FullUpTo(j)'
               PROVE  /\ NotYet(j)' => sent' = Start(j)
                      /\ urb'[j].actual > 0 => urb'[j].from = Start(j)
    BY <1>1 DEF Gapless
  <2>1. FullUpTo(j)
    BY <1>1 DEF FullUpTo
  <2> QED  BY <2>1 DEF Filled, Gapless, NotYet
<1>5. FaultLast'
  BY <1>1 DEF Filled, FaultLast
<1> QED  BY <1>2, <1>3, <1>4, <1>5 DEF Filled

(* A URB that leaves the endpoint with n units, which it has if it was at  *)
(* the head of the queue.                                                  *)
LEMMA LeavesFilled ==
  ASSUME Typed, Queues, Results, [Next]_vars, Filled,
         NEW i, NEW c, NEW status, NEW n,
         Leaves(i, c, status), Carries(i, c, n), n \in 0..Len1(i), n > 0 => Active(i)
  PROVE  Filled'
<1>1. /\ length' = length /\ Urbs' = Urbs /\ \A j : Start(j)' = Start(j)
      /\ \A j : Len1(j)' = Len1(j)
  BY SameLayout
<1>2. /\ i \in Urbs /\ i \in Queued /\ c \in Nat /\ i \in Int
      /\ NumUrbs \in Nat \ {0} /\ Urbs = 1..NumUrbs /\ urb[i].at = "queued"
  BY SomeUrbs DEF Leaves, Queued, Urbs
<1>3. \A j \in Urbs : urb[j].actual \in Int /\ urb[j].from \in Int
  BY Units
<1>4. /\ \A j \in Urbs : Start(j) \in Nat /\ Len1(j) \in Nat /\ Start(j) + Len1(j) <= length
      /\ \A j, k \in Urbs : j < k => /\ Start(j) + Len1(j) <= Start(k)
                                     /\ Len1(j) > 0 /\ Len1(k) > 0
      /\ \A j \in Urbs : j < NumUrbs => Start(j + 1) = Start(j) + Len1(j)
  BY Layout
<1>5. n \in Nat /\ n <= Len1(i) /\ sent \in Nat /\ sent <= length /\ length \in Nat
  BY <1>2, <1>4, SizesAssumption DEF Filled, Bounded, Typed
<1>6. \A j \in Urbs :
        \/ urb'[j] = urb[j] /\ j # i /\ (j < i \/ i + c < j)
        \/ /\ j = i /\ urb'[j].at = "done" /\ urb'[j].status = status
           /\ urb'[j].actual = n /\ urb'[j].from = sent
        \/ /\ i < j /\ j <= i + c /\ urb'[j].at = "done" /\ urb'[j].status = "cancelled"
           /\ urb'[j].actual = 0 /\ urb'[j].from = sent + n /\ urb[j].at = "queued"
  <2>1. ASSUME NEW j \in Urbs PROVE j < i \/ i + c < j \/ j = i \/ (i < j /\ j <= i + c)
    BY <1>2
  <2>2. \A j \in Urbs : i < j /\ j <= i + c => urb[j].at = "queued"
    BY SameTransfer, LeavesUrbs, <1>2 DEF Queued
  <2> QED  BY <1>2, <2>1, <2>2 DEF Leaves, Carries
<1>7. sent <= Start(i) /\ \A j \in Urbs : i <= j => urb[j].actual = 0
  BY <1>2 DEF Filled, Ahead, NotYet
<1>8. sent' = sent + n
  BY DEF Carries
<1>9. ASSUME NEW j \in Urbs, NotYet(j)', n > 0
      PROVE  i < j
  <2>1. urb'[j] = urb[j] /\ j # i /\ j \in Int /\ urb[j].at \in {"idle", "queued"}
    BY <1>2, <1>6, <1>9 DEF NotYet
  <2>2. CASE urb[j].at = "queued"
    BY <1>2, <1>9, <2>1, <2>2 DEF Active, Queued
  <2>3. CASE urb[j].at = "idle"
    <3>1. ~ (j < i)
      BY <1>2, <2>3 DEF Queues
    <3> QED  BY <1>2, <2>1, <3>1
  <2> QED  BY <2>1, <2>2, <2>3
<1>10. ASSUME NEW j \in Urbs, NotYet(j)' PROVE NotYet(j) /\ urb'[j] = urb[j] /\ j # i
  BY <1>6, <1>10 DEF NotYet
<1>11. Bounded'
  <2>1. sent' \in 0..length'
    <3>1. Start(i) \in Nat /\ Len1(i) \in Nat /\ Start(i) + Len1(i) <= length
      BY Zenon, <1>2, <1>4
    <3>2. sent <= Start(i) /\ length' = length
      BY Zenon, <1>1, <1>7
    <3> QED  BY <1>5, <1>8, <3>1, <3>2
  <2>2. ASSUME NEW j \in Urbs
        PROVE  /\ urb'[j].actual \in 0..Len1(j) /\ urb'[j].from >= 0
               /\ urb'[j].from + urb'[j].actual <= sent'
               /\ urb'[j].actual > 0 => urb'[j].from <= Start(j)
    <3>1. CASE urb'[j] = urb[j]
      BY <1>3, <1>5, <1>8, <3>1 DEF Filled, Bounded, Upto
    <3>2. CASE j = i /\ urb'[j].actual = n /\ urb'[j].from = sent
      BY <1>4, <1>5, <1>7, <1>8, <3>2
    <3>3. CASE urb'[j].actual = 0 /\ urb'[j].from = sent + n
      BY <1>4, <1>5, <1>8, <3>3
    <3> QED  BY <1>6, <3>1, <3>2, <3>3
  <2> QED  BY <1>1, <2>1, <2>2 DEF Bounded, Upto
<1>12. Ahead'
  <2>1. ASSUME NEW j \in Urbs, NotYet(j)'
        PROVE  sent' <= Start(j) /\ \A k \in Urbs : j <= k => urb'[k].actual = 0
    <3>1. NotYet(j) /\ j # i /\ j \in Int
      BY <1>2, <1>10, <2>1
    <3>2. sent <= Start(j) /\ \A k \in Urbs : j <= k => urb[k].actual = 0
      BY <3>1 DEF Filled, Ahead
    <3>3. CASE n = 0
      <4>1. sent' = sent
        BY <1>5, <1>8, <3>3
      <4>2. \A k \in Urbs : j <= k => urb'[k].actual = 0
        BY <1>6, <3>2, <3>3
      <4> QED  BY <3>2, <4>1, <4>2
    <3>4. CASE n > 0
      <4>1. i < j
        BY <1>9, <2>1, <3>4
      <4>2. sent' <= Start(j)
        <5>1. Start(i) + Len1(i) <= Start(j) /\ Start(i) \in Nat /\ Start(j) \in Nat
              /\ Len1(i) \in Nat
          BY <1>2, <1>4, <4>1
        <5> QED  BY <1>5, <1>7, <1>8, <5>1
      <4>3. \A k \in Urbs : j <= k => k # i
        BY <1>2, <3>1, <4>1
      <4>4. \A k \in Urbs : j <= k => urb'[k].actual = 0
        BY <1>6, <3>2, <4>3
      <4> QED  BY <4>2, <4>4
    <3> QED  BY <1>5, <3>3, <3>4
  <2> QED  BY <1>1, <2>1 DEF Ahead
<1>13. Gapless'
  <2> SUFFICES ASSUME NEW j \in Urbs, FullUpTo(j)'
               PROVE  /\ NotYet(j)' => sent' = Start(j)
                      /\ urb'[j].actual > 0 => urb'[j].from = Start(j)
    BY <1>1 DEF Gapless
  <2>0. /\ \A k \in Urbs : k < j => urb'[k].actual = Len1(k)
        /\ j \in Int
    BY <1>1, <1>2 DEF FullUpTo
  <2>1. ASSUME j <= i PROVE FullUpTo(j)
    <3>1. \A k \in Urbs : k < j => urb'[k] = urb[k]
      BY <1>2, <1>6, <2>0, <2>1
    <3> QED  BY <2>0, <3>1 DEF FullUpTo
  <2>2. ASSUME NotYet(j)' PROVE sent' = Start(j)
    <3>1. NotYet(j) /\ j # i
      BY <1>10, <2>2
    <3>2. CASE j < i
      <4>1. n = 0
        BY <1>2, <1>5, <1>9, <2>0, <2>2, <3>2
      <4>2. sent = Start(j)
        BY <1>2, <2>0, <2>1, <3>1, <3>2 DEF Filled, Gapless
      <4> QED  BY <1>5, <1>8, <4>1, <4>2
    <3>3. CASE i < j
      <4>1. n = Len1(i) /\ i < NumUrbs
        <5>1. urb'[i].actual = Len1(i)
          BY <1>2, <2>0, <3>3
        <5> QED  BY <1>2, <1>6, <3>3, <5>1
      <4>2. FullUpTo(i)
        <5>1. \A k \in Urbs : k < i => urb'[k] = urb[k] /\ k < j
          BY <1>2, <1>6, <2>0, <3>3
        <5> QED  BY <2>0, <5>1 DEF FullUpTo
      <4>3. sent = Start(i)
        BY <1>2, <4>2 DEF Filled, Gapless, NotYet
      <4>4. sent' = Start(i + 1)
        BY <1>2, <1>4, <1>8, <4>1, <4>3
      <4>5. j = i + 1
        <5>1. SUFFICES ASSUME i + 1 < j PROVE FALSE
          BY <1>2, <2>0, <3>3
        <5>2. i + 1 \in Urbs /\ i < i + 1
          BY <1>2, <2>0, <5>1
        <5>3. urb'[i + 1].actual = Len1(i + 1) /\ Len1(i + 1) > 0
          BY <1>2, <1>4, <2>0, <5>1, <5>2
        <5>4. urb[i + 1].actual = 0 /\ i + 1 # i
          BY <1>2, <1>7, <5>2
        <5>5. urb'[i + 1].actual = 0
          BY <1>6, <5>2, <5>4
        <5> QED  BY <5>3, <5>5
      <4> QED  BY <4>4, <4>5
    <3> QED  BY <1>2, <2>0, <3>1, <3>2, <3>3
  <2>3. ASSUME urb'[j].actual > 0 PROVE urb'[j].from = Start(j)
    <3>1. CASE j = i
      <4>1. sent = Start(i)
        BY <1>2, <2>1, <2>0, <3>1 DEF Filled, Gapless, NotYet
      <4>2. urb'[i].from = sent
        BY DEF Carries
      <4> QED  BY <3>1, <4>1, <4>2
    <3>2. CASE j # i
      <4>1. urb'[j] = urb[j]
        BY <1>6, <2>3, <3>2
      <4>2. j < i
        BY <1>2, <1>7, <2>0, <2>3, <3>2, <4>1
      <4>3. FullUpTo(j)
        BY <1>2, <2>0, <2>1, <4>2
      <4> QED  BY <2>3, <4>1, <4>3 DEF Filled, Gapless
    <3> QED  BY <3>1, <3>2
  <2> QED  BY <2>2, <2>3
<1>14. FaultLast'
  <2> SUFFICES ASSUME NEW j \in Urbs, NEW k \in Urbs, j < k,
                      urb'[j].status \in {"stall", "gone"}
               PROVE  urb'[k].actual = 0
    BY <1>1 DEF FaultLast
  <2>1. CASE j = i
    <3>1. urb[k].actual = 0 /\ k # i
      BY <1>2, <1>7, <2>1
    <3> QED  BY <1>6, <3>1
  <2>2. CASE j # i
    <3>1. urb'[j] = urb[j]
      BY <1>6, <2>2
    <3>2. urb[k].actual = 0
      BY <3>1 DEF Filled, FaultLast
    <3>3. k # i
      <4>1. SUFFICES ASSUME k = i PROVE FALSE
        OBVIOUS
      <4>2. NumUrbs # 1
        BY <1>2
      <4>3. mode \in {"continuation", "split", "iso"}
        BY <4>2, FaultsAssumption DEF Typed, NumUrbs, BulkUrbs, Modes
      <4>4. urb[j].status = "stall" /\ mode = "continuation"
        BY <3>1, <4>3 DEF Results, Possible
      <4>5. Queued = {}
        BY <4>4 DEF Results, StallEnds
      <4> QED  BY <1>2, <4>5
    <3> QED  BY <1>6, <3>2, <3>3
  <2> QED  BY <2>1, <2>2
<1> QED  BY <1>11, <1>12, <1>13, <1>14 DEF Filled

-----------------------------------------------------------------------------
(* The order of the URBs that are done, when another one joins them ...    *)
LEMMA LeavesChain ==
  ASSUME Typed, Queues, [Next]_vars, Chain, hand' = hand,
         NEW i, NEW c, NEW status, NEW n \in Int, Leaves(i, c, status), Carries(i, c, n)
  PROVE  Chain' /\ Waiting' = Waiting /\ (hand # 0 => urb'[hand] = urb[hand])
<1>1. /\ i \in Urbs /\ c \in Nat /\ i \in Int /\ urb[i].at = "queued" /\ Urbs' = Urbs
      /\ \A j \in Urbs : urb[j].at # "queued" => urb'[j] = urb[j]
      /\ completed \in Seq(Urbs) /\ Len(completed) \in Nat /\ i + c <= NumUrbs
      /\ Urbs = 1..NumUrbs /\ NumUrbs \in Nat \ {0} /\ sent \in Int
  <2>1. Urbs' = Urbs /\ Urbs = 1..NumUrbs /\ NumUrbs \in Nat \ {0}
    BY SameTransfer, SomeUrbs DEF Urbs
  <2>2. \A j \in Urbs : urb[j].at # "queued" => urb'[j] = urb[j]
    BY <2>1, LeavesUrbs DEF Queued
  <2> QED  BY <2>1, <2>2 DEF Leaves, Queued, Typed
<1>2. /\ Len(completed') = Len(completed) + 1 + c
      /\ \A k \in 1..Len(completed) : completed'[k] = completed[k]
      /\ completed'[Len(completed) + 1] = i
      /\ \A k \in 1..c : completed'[Len(completed) + 1 + k] = i + k
  BY DEF Leaves
<1>3. /\ sent' = sent + n /\ urb'[i].actual = n /\ urb'[i].from = sent
      /\ \A j \in Urbs : i < j /\ j <= i + c => urb'[j].actual = 0 /\ urb'[j].from = sent + n
  BY DEF Carries
<1>4. \A k \in 1..Len(completed) : completed[k] \in Urbs /\ urb'[completed[k]] = urb[completed[k]]
  <2>1. \A k \in 1..Len(completed) : completed[k] \in Urbs /\ urb[completed[k]].at = "done"
    BY <1>1 DEF Queues
  <2> QED  BY <1>1, <2>1
<1>5. hand # 0 => urb'[hand] = urb[hand]
  BY <1>1 DEF Queues, Typed
<1>6. Waiting' = Waiting
  <2>1. CASE completed = <<>>
    <3>1. Len(completed) = 0 /\ completed' # <<>> /\ completed'[1] = i
      BY <1>1, <1>2, <2>1
    <3> QED  BY <1>3, <2>1, <3>1 DEF Waiting
  <2>2. CASE completed # <<>>
    <3>1. 1 \in 1..Len(completed) /\ completed' # <<>>
      BY <1>1, <1>2, <2>2
    <3> QED  BY <1>2, <1>4, <2>2, <3>1 DEF Waiting
  <2> QED  BY <2>1, <2>2
<1>7. ASSUME NEW k \in 1..Len(completed')
      PROVE  urb'[completed'[k]].from + urb'[completed'[k]].actual
              = IF k = Len(completed') THEN sent' ELSE urb'[completed'[k + 1]].from
  <2>0. k \in Nat /\ 1 <= k /\ k <= Len(completed) + 1 + c /\ Len(completed') \in Nat
    BY <1>1, <1>2, <1>7
  <2>1. CASE k < Len(completed)
    <3>1. k \in 1..Len(completed) /\ k + 1 \in 1..Len(completed) /\ k # Len(completed)
          /\ k # Len(completed')
      BY <1>1, <1>2, <2>0, <2>1
    <3>2. urb[completed[k]].from + urb[completed[k]].actual = urb[completed[k + 1]].from
      BY <3>1 DEF Chain, Upto
    <3> QED  BY <1>2, <1>4, <3>1, <3>2
  <2>2. CASE k = Len(completed)
    <3>1. k \in 1..Len(completed) /\ k # Len(completed') /\ completed'[k + 1] = i
      BY <1>1, <1>2, <2>0, <2>2
    <3>2. urb[completed[k]].from + urb[completed[k]].actual = sent
      BY <2>2, <3>1 DEF Chain, Upto
    <3> QED  BY <1>2, <1>3, <1>4, <3>1, <3>2
  <2>3. CASE k = Len(completed) + 1
    <3>1. completed'[k] = i /\ urb'[i].from + urb'[i].actual = sent + n
      BY <1>1, <1>2, <1>3, <2>3
    <3>2. CASE c = 0
      <4>1. k = Len(completed')
        BY <1>1, <1>2, <2>3, <3>2
      <4> QED  BY <1>3, <3>1, <4>1
    <3>3. CASE c # 0
      <4>1. 1 \in 1..c /\ k # Len(completed') /\ i + 1 \in Urbs /\ i < i + 1 /\ i + 1 <= i + c
        BY <1>1, <1>2, <2>3, <3>3
      <4>2. completed'[k + 1] = i + 1 /\ urb'[i + 1].from = sent + n
        BY <1>2, <1>3, <2>3, <4>1
      <4> QED  BY <3>1, <4>1, <4>2
    <3> QED  BY <3>2, <3>3
  <2>4. CASE k > Len(completed) + 1
    <3> DEFINE m == k - (Len(completed) + 1)
    <3>1. m \in 1..c /\ k = Len(completed) + 1 + m /\ i + m \in Urbs /\ i < i + m
          /\ i + m <= i + c
      BY <1>1, <2>0, <2>4
    <3> HIDE DEF m
    <3>2. completed'[k] = i + m /\ urb'[i + m].actual = 0 /\ urb'[i + m].from = sent + n
      BY <1>2, <1>3, <3>1
    <3>3. CASE m = c
      <4>1. k = Len(completed')
        BY <1>1, <1>2, <3>1, <3>3
      <4> QED  BY <1>1, <1>3, <3>2, <4>1
    <3>4. CASE m # c
      <4>1. m + 1 \in 1..c /\ k + 1 = Len(completed) + 1 + (m + 1) /\ i + (m + 1) \in Urbs
            /\ i < i + (m + 1) /\ i + (m + 1) <= i + c /\ k # Len(completed')
        BY <1>1, <1>2, <3>1, <3>4
      <4>2. completed'[k + 1] = i + (m + 1) /\ urb'[i + (m + 1)].from = sent + n
        BY <1>2, <1>3, <4>1
      <4> QED  BY <1>1, <3>2, <4>1, <4>2
    <3> QED  BY <3>3, <3>4
  <2> QED  BY <1>1, <2>0, <2>1, <2>2, <2>3, <2>4
<1>8. hand # 0 => Upto(hand)' = Waiting'
  BY <1>5, <1>6 DEF Chain, Upto
<1> QED  BY <1>5, <1>6, <1>7, <1>8 DEF Chain, Upto

(* ... and when the first of them is reaped.                               *)
LEMMA ReapChain ==
  ASSUME Typed, Reap, Chain
  PROVE  /\ Chain' /\ urb'[hand'].from = Waiting
         /\ \A i \in Urbs : /\ urb'[i].actual = urb[i].actual /\ urb'[i].from = urb[i].from
                            /\ urb'[i].status = urb[i].status
                            /\ urb'[i].at = IF i = hand' THEN "back" ELSE urb[i].at
<1>1. /\ completed # <<>> /\ completed \in Seq(Urbs) /\ Len(completed) \in Nat \ {0}
      /\ hand' = completed[1] /\ hand' \in Urbs /\ sent' = sent
      /\ Len(completed') = Len(completed) - 1
      /\ \A k \in 1..Len(completed') : completed'[k] = completed[k + 1]
      /\ completed' \in Seq(Urbs)
  BY ReapSteps DEF Reap
<1>2. urb' = [urb EXCEPT ![hand'].at = "back"] /\ urb \in [Urbs -> UrbRecords]
  BY DEF Reap, Typed
<1>3. \A i \in Urbs : /\ urb'[i].actual = urb[i].actual /\ urb'[i].from = urb[i].from
                     /\ urb'[i].status = urb[i].status
                     /\ urb'[i].at = IF i = hand' THEN "back" ELSE urb[i].at
  BY <1>1, <1>2 DEF UrbRecords
<1>4. \A k \in 1..Len(completed') :
        urb'[completed'[k]].from + urb'[completed'[k]].actual
          = IF k = Len(completed') THEN sent' ELSE urb'[completed'[k + 1]].from
  <2>1. TAKE k \in 1..Len(completed')
  <2>2. k + 1 \in 1..Len(completed) /\ completed'[k] = completed[k + 1] /\ completed[k + 1] \in Urbs
        /\ k \in Nat
    BY <1>1
  <2>3. urb[completed[k + 1]].from + urb[completed[k + 1]].actual
          = IF k + 1 = Len(completed) THEN sent ELSE urb[completed[(k + 1) + 1]].from
    BY <2>2 DEF Chain, Upto
  <2>4. CASE k = Len(completed')
    BY <1>1, <1>3, <2>2, <2>3, <2>4
  <2>5. CASE k # Len(completed')
    <3>1. k + 1 \in 1..Len(completed') /\ k + 1 # Len(completed)
      BY <1>1, <2>2, <2>5
    <3>2. completed'[k + 1] = completed[(k + 1) + 1] /\ completed'[k + 1] \in Urbs
      BY <1>1, <3>1
    <3> QED  BY <1>3, <2>2, <2>3, <2>5, <3>1, <3>2
  <2> QED  BY <2>4, <2>5
<1>5. urb'[hand'].from = Waiting
  BY <1>1, <1>3 DEF Waiting
<1>6. urb'[hand'].from + urb'[hand'].actual = Waiting'
  <2>1. 1 \in 1..Len(completed)
    BY <1>1
  <2>2. urb[hand'].from + urb[hand'].actual
          = IF 1 = Len(completed) THEN sent ELSE urb[completed[1 + 1]].from
    BY <1>1, <2>1 DEF Chain, Upto
  <2>3. CASE Len(completed) = 1
    <3>1. completed' = <<>>
      BY <1>1, <2>3
    <3> QED  BY <1>1, <1>3, <2>2, <2>3, <3>1 DEF Waiting
  <2>4. CASE Len(completed) # 1
    <3>1. 1 \in 1..Len(completed') /\ completed' # <<>>
      BY <1>1, <2>4
    <3>2. completed'[1] = completed[1 + 1] /\ completed'[1] \in Urbs
      BY <1>1, <3>1
    <3> QED  BY <1>1, <1>3, <2>2, <2>4, <3>1, <3>2 DEF Waiting
  <2> QED  BY <2>3, <2>4
<1> QED  BY <1>3, <1>4, <1>5, <1>6 DEF Chain, Upto

-----------------------------------------------------------------------------
(* transferred is what the URBs reaped have brought; for an isochronous    *)
(* transfer it counts the descriptors filled in.                           *)
Accounted == mode # "iso" => tp.transferred = IF hand # 0 THEN urb[hand].from ELSE Waiting

IsoAccounted ==
    mode = "iso" /\ tp.urbs =>
        tp.transferred = IF NumUrbs \in Reaped
                         THEN (Cardinality(Reaped) - 1) * UrbLen + Len1(NumUrbs)
                         ELSE Cardinality(Reaped) * UrbLen

(* While reap_action is NORMAL, a URB that is not full has failed.         *)
NoGap ==
    mode # "iso" /\ tp.urbs /\ tp.reap_action = "NORMAL" =>
        \A i \in Reaped : urb[i].actual = Len1(i) \/ urb[i].status \in {"stall", "gone"}

(* The data of the URB in hand is where the kernel put it, ...             *)
InHand ==
    mode # "iso" /\ hand # 0 =>
        \A k \in 1..urb[hand].actual : buffer[Start(hand) + k] = urb[hand].from + k

(* ... and what has been counted is at the start of the buffer.            *)
Prefix ==
    mode # "iso" \/ (tp.urbs /\ tp.reap_action = "NORMAL") =>
        \A k \in 1..tp.transferred : buffer[k] = k

(* The URB in hand is the last of those that are back.                     *)
HandLast ==
    mode = "iso" /\ tp.urbs /\ tp.reap_action = "NORMAL" /\ hand # 0 =>
        \/ \A j \in Reaped : j < hand
        \/ CancelLoop /\ loop.ret = "success" /\ loop.at < loop.last

(* What the callback has been told.                                        *)
Settled ==
    called = 1 =>
        /\ result.actual = tp.transferred
        /\ mode # "iso" /\ result.status # "NO_DEVICE" => tp.transferred = sent

IsoKept ==
    mode = "iso" /\ (\/ reaper.pc \in {"remove", "callback"} /\ reaper.status = "COMPLETED"
                     \/ called = 1 /\ result.status = "COMPLETED") =>
        \A k \in 1..length : buffer[k] = k

Ranges ==
    /\ tp.transferred \in 0..length /\ tp.num_retired \in 0..NumUrbs
    /\ buffer \in [1..length -> Int]
    /\ user = "submit" => tp.num_retired = 0
    /\ fd_removed /\ reaper.pc \in {"remove", "callback"} => reaper.status = "NO_DEVICE"

Flow == Filled /\ Chain /\ Accounted /\ IsoAccounted /\ NoGap /\ InHand /\ HandLast

DInv == IInv /\ Ranges /\ Prefix /\ Settled /\ IsoKept /\ (~fd_removed => Flow)

(* What handle_*_completion does with the data of the URB in hand.         *)
LEMMA HandledData ==
  ASSUME Typed, HandleReaped, hand \in Urbs
  PROVE  /\ UNCHANGED <<sent, called, result>>
         /\ tp'.transferred = tp.transferred + (IF mode = "iso" THEN Len1(hand)
                                                              ELSE urb[hand].actual)
         /\ tp'.num_retired \in {tp.num_retired, Retired}
         /\ mode = "iso" =>
                buffer' = [k \in 1..length |->
                    IF k \in (tp.transferred + 1)..(tp.transferred + Len1(hand))
                    THEN Start(hand) + k - tp.transferred ELSE buffer[k]]
         /\ mode = "iso" /\ reaper'.pc = "remove" /\ reaper'.status = "COMPLETED" =>
              tp.reap_action = "NORMAL" /\ hand = NumUrbs
         /\ mode # "iso" =>
              \/ (mode = "control" \/ tp.reap_action = "NORMAL") /\ buffer' = buffer
              \/ tp.reap_action # "NORMAL" /\ buffer' = Moved(hand)
         /\ mode # "iso" /\ tp'.urbs /\ tp'.reap_action = "NORMAL" =>
              urb[hand].actual >= Len1(hand) \/ urb[hand].status \in {"stall", "gone"}
<1>1. /\ tp \in Privates /\ urb[hand] \in UrbRecords /\ Len1(hand) \in Int
      /\ UNCHANGED <<sent, called, result>>
  BY LengthsOfUrbs DEF Typed, HandleReaped, kernel
<1>0. /\ Retired \in Int /\ tp.transferred \in Int /\ urb[hand].actual \in Int
  BY <1>1 DEF Privates, UrbRecords, Retired
<1> HIDE DEF Typed
<1>2. CASE mode = "iso"
  <2>1. IsoReaped(hand)
    BY <1>2 DEF HandleReaped
  <2>2. tp'.transferred = tp.transferred + Len1(hand) /\ tp'.num_retired = Retired
    BY <1>0, <1>1, <2>1 DEF IsoReaped, Privates
  <2>3. reaper'.pc = "remove" /\ reaper'.status = "COMPLETED" =>
            tp.reap_action = "NORMAL" /\ hand = NumUrbs
    BY <1>0, <1>1, <2>1 DEF IsoReaped, At, Report
  <2> QED  BY <1>1, <1>2, <2>1, <2>2, <2>3 DEF IsoReaped
<1>3. CASE mode = "control"
  <2>1. ControlReaped(hand)
    BY <1>3 DEF HandleReaped
  <2>2. /\ tp'.transferred = tp.transferred + urb[hand].actual
        /\ tp'.num_retired = tp.num_retired /\ ~tp'.urbs
    BY <1>0, <1>1, <2>1 DEF ControlReaped, Privates
  <2> QED  BY <1>1, <1>3, <2>1, <2>2 DEF ControlReaped
<1>4. CASE mode \notin {"iso", "control"} /\ Surplus(hand)
  <2>1. /\ tp'.transferred = tp.transferred + urb[hand].actual /\ tp'.num_retired = Retired
        /\ tp.reap_action # "NORMAL" /\ tp'.reap_action # "NORMAL"
    BY <1>0, <1>1, <1>4 DEF Surplus, Privates
  <2> QED  BY <1>1, <1>4, <2>1 DEF Surplus
<1>5. CASE mode \notin {"iso", "control"} /\ Regular(hand)
  <2>1. /\ tp'.transferred = tp.transferred + urb[hand].actual /\ tp'.num_retired = Retired
        /\ tp.reap_action = "NORMAL" /\ buffer' = buffer
    BY <1>0, <1>1, <1>5 DEF Regular, Privates
  <2>2. ASSUME tp'.urbs, tp'.reap_action = "NORMAL", urb[hand].status \notin {"stall", "gone"}
        PROVE  urb[hand].actual >= Len1(hand)
    <3>1. urb[hand].status # "error"
      BY <1>0, <1>1, <1>5, <2>2 DEF Regular, Privates
    <3>2. ~(urb[hand].status = "overflow" \/ hand = NumUrbs)
      BY <1>0, <1>1, <1>5, <2>2, <3>1 DEF Regular, Privates
    <3> QED  BY <1>0, <1>1, <1>5, <2>2, <3>1, <3>2 DEF Regular, Privates
  <2> QED  BY <1>1, <1>5, <2>1, <2>2
<1> QED  BY <1>2, <1>3, <1>4, <1>5 DEF HandleReaped

(* Steps that do not move data.                                            *)
LEMMA SameData ==
  ASSUME IInv, [Next]_vars, ~SubmitAdd, ~HandleReaped
  PROVE  tp'.transferred = tp.transferred /\ (~Reap => buffer' = buffer)
<1>1. tp \in Privates
  BY DEF IInv, Typed
<1> USE DEF kernel, Privates
<1>2. CASE DeviceRuns \/ Unplug \/ Discard \/ SubmitLock \/ SubmitUrb \/ Reap
  BY <1>2 DEF DeviceRuns, Unplug, Discard, SubmitLock, SubmitUrb, Reap
<1>3. CASE FirstRefused \/ BulkRefused \/ IsoRefused \/ SubmitReturns \/ SubmitUndo
  BY <1>1, <1>3 DEF FirstRefused, BulkRefused, IsoRefused, Refused, SubmitReturns, SubmitUndo
<1>4. CASE Cancel
  BY <1>1, <1>4 DEF Cancel, CancelBegin, CancelEnd
<1>5. CASE Timer
  BY <1>1, <1>5 DEF Timer, Expire, TimerCancel, TimerLeave, CancelBegin, CancelEnd
<1>6. CASE RemainingDiscarded \/ HandleCancellation \/ RemoveFromList \/ Callback
  BY <1>1, <1>6 DEF RemainingDiscarded, HandleCancellation, RemoveFromList, Callback
<1>7. CASE Disconnect \/ FindLock \/ FindCheck \/ ClearPriv
  BY <1>1, <1>7 DEF Disconnect, FindLock, FindCheck, ClearPriv
<1>8. CASE UNCHANGED vars
  BY <1>8 DEF vars
<1> QED  BY <1>2, <1>3, <1>4, <1>5, <1>6, <1>7, <1>8 DEF Next, User, Reaper

(* Steps that the device has no part in, and those that are no callback.   *)
LEMMA SameSent ==
  ASSUME IInv, [Next]_vars, ~SubmitAdd
  PROVE  /\ sent' = sent \/ DeviceRuns \/ Unplug \/ Discard
         /\ Callback \/ UNCHANGED <<called, result>>
<1> USE DEF kernel
<1>2. CASE DeviceRuns \/ Unplug \/ Discard \/ SubmitLock \/ SubmitUrb \/ Reap \/ HandleReaped
  BY <1>2 DEF DeviceRuns, Unplug, Discard, SubmitLock, SubmitUrb, Reap, HandleReaped
<1>3. CASE FirstRefused \/ BulkRefused \/ IsoRefused \/ SubmitReturns \/ SubmitUndo
  BY <1>3 DEF FirstRefused, BulkRefused, IsoRefused, Refused, SubmitReturns, SubmitUndo
<1>4. CASE Cancel \/ Timer
  BY <1>4 DEF Cancel, Timer, Expire, TimerCancel, TimerLeave
<1>6. CASE RemainingDiscarded \/ HandleCancellation \/ RemoveFromList \/ Callback
  BY <1>6 DEF RemainingDiscarded, HandleCancellation, RemoveFromList, Callback
<1>7. CASE Disconnect \/ FindLock \/ FindCheck \/ ClearPriv
  BY <1>7 DEF Disconnect, FindLock, FindCheck, ClearPriv
<1>8. CASE UNCHANGED vars
  BY <1>8 DEF vars
<1> QED  BY <1>2, <1>3, <1>4, <1>6, <1>7, <1>8 DEF Next, User, Reaper

(* The number of URBs retired, with the one in hand.                       *)
LEMMA RetiredBound ==
  ASSUME IInv, hand \in Urbs, ~fd_removed, tp.urbs, user # "submit"
  PROVE  Retired \in 1..NumUrbs
<1> DEFINE S == Reaped \union Unsubmitted
<1>1. /\ Typed /\ Queues /\ Counted /\ NumUrbs \in Nat \ {0} /\ Urbs = 1..NumUrbs
  BY SomeUrbs DEF IInv, Kernel, Urbs
<1>2. hand # 0 /\ urb[hand].at = "back"
  BY <1>1 DEF Queues
<1>3. S \subseteq Urbs /\ hand \notin S
  BY <1>2 DEF Reaped, Unsubmitted
<1>4. IsFiniteSet(Urbs) /\ Cardinality(Urbs) = NumUrbs
  BY <1>1, FS_Interval
<1>5. tp.num_retired = Cardinality(S)
  BY <1>1 DEF Counted
<1> HIDE DEF S
<1>6. IsFiniteSet(S) /\ Cardinality(S) \in Nat
  BY <1>3, <1>4, FS_Subset, FS_CardinalityType
<1>7. Cardinality(S \union {hand}) = Cardinality(S) + 1
  BY <1>3, <1>6, FS_AddElement
<1>8. Cardinality(S \union {hand}) <= NumUrbs
  <2>1. S \union {hand} \subseteq Urbs
    BY <1>3
  <2> QED  BY <1>4, <2>1, FS_Subset
<1> QED  BY <1>1, <1>5, <1>6, <1>7, <1>8 DEF Retired

(* ... and the share of the transfer that the URBs reaped have.            *)
LEMMA IsoSizes ==
  ASSUME Typed, mode = "iso"
  PROVE  /\ \A i \in Urbs : i # NumUrbs => Len1(i) = UrbLen
         /\ Start(NumUrbs) + Len1(NumUrbs) = length
         /\ Start(NumUrbs) = (NumUrbs - 1) * UrbLen
<1>1. /\ NumUrbs \in Nat \ {0} /\ Urbs = 1..NumUrbs /\ UrbLen \in Nat \ {0}
  BY SomeUrbs, SizesAssumption DEF Urbs
<1>2. /\ \A i \in Urbs : i < NumUrbs => Start(i + 1) = Start(i) + Len1(i)
      /\ \A i \in Urbs : Len1(i) \in Nat
      /\ Start(NumUrbs) + Len1(NumUrbs) = length
  BY Layout
<1>3. ASSUME NEW i \in Urbs, i # NumUrbs PROVE Len1(i) = UrbLen
  <2>1. i < NumUrbs /\ i \in Int
    BY <1>1, <1>3
  <2>2. Start(i) \in Int /\ Start(i + 1) = Start(i) + UrbLen
    BY <1>1, <2>1 DEF Start
  <2>3. Start(i + 1) = Start(i) + Len1(i) /\ Len1(i) \in Nat
    BY Zenon, <1>2, <2>1
  <2> QED  BY <1>1, <2>2, <2>3
<1> QED  BY <1>2, <1>3 DEF Start

(* What one more URB h adds to the share of the URBs in R.                 *)
LEMMA IsoShare ==
  ASSUME Typed, mode = "iso", NEW R \in SUBSET Urbs, NEW h \in Urbs \ R,
         NEW t \in Int,
         t = IF NumUrbs \in R THEN (Cardinality(R) - 1) * UrbLen + Len1(NumUrbs)
                              ELSE Cardinality(R) * UrbLen
  PROVE  /\ t + Len1(h) = IF NumUrbs \in R \union {h}
                          THEN (Cardinality(R \union {h}) - 1) * UrbLen + Len1(NumUrbs)
                          ELSE Cardinality(R \union {h}) * UrbLen
         /\ t >= 0 /\ t + Len1(h) <= length
<1>1. /\ NumUrbs \in Nat \ {0} /\ Urbs = 1..NumUrbs /\ UrbLen \in Nat \ {0} /\ NumUrbs \in Urbs
      /\ length \in Nat
  BY SomeUrbs, SizesAssumption DEF Urbs, Typed
<1>2. IsFiniteSet(Urbs) /\ Cardinality(Urbs) = NumUrbs
  BY <1>1, FS_Interval
<1>3. IsFiniteSet(R) /\ Cardinality(R) \in Nat
  BY <1>2, FS_Subset, FS_CardinalityType
<1>4. Cardinality(R \union {h}) = Cardinality(R) + 1
  BY <1>3, FS_AddElement
<1>5. Cardinality(R) + 1 <= NumUrbs
  <2>1. R \union {h} \subseteq Urbs
    OBVIOUS
  <2> QED  BY <1>2, <1>4, <2>1, FS_Subset
<1>6. /\ \A i \in Urbs : i # NumUrbs => Len1(i) = UrbLen
      /\ Start(NumUrbs) + Len1(NumUrbs) = length
      /\ Start(NumUrbs) = (NumUrbs - 1) * UrbLen
      /\ Len1(NumUrbs) \in Nat
  BY <1>1, IsoSizes, LengthsOfUrbs
<1> DEFINE c == Cardinality(R)
<1>7. c \in Nat /\ c + 1 <= NumUrbs
  BY <1>3, <1>5
<1> HIDE DEF c
<1>8. /\ (c - 1) * UrbLen + UrbLen = c * UrbLen
      /\ c * UrbLen + UrbLen = ((c + 1) - 1 + 1) * UrbLen /\ (c + 1) - 1 = c
      /\ c * UrbLen \in Int /\ (c - 1) * UrbLen \in Int
  BY <1>1, <1>7
<1>9. c * UrbLen <= (NumUrbs - 1) * UrbLen /\ (NumUrbs - 1) * UrbLen \in Int
  <2>1. c \in Int /\ NumUrbs - 1 \in Int /\ c <= NumUrbs - 1
    BY <1>1, <1>7
  <2> QED  BY <1>1, <2>1, Multiples
<1>10. NumUrbs \in R => c >= 1
  BY <1>1, <1>3, FS_EmptySet DEF c
<1>11. c >= 1 => (c - 1) * UrbLen >= 0
  <2>1. ASSUME c >= 1 PROVE (c - 1) * UrbLen >= 0
    <3>1. 0 \in Int /\ c - 1 \in Int /\ 0 <= c - 1 /\ 0 * UrbLen = 0
      BY <1>1, <1>7, <2>1
    <3> QED  BY <1>1, <3>1, Multiples
  <2> QED  BY <2>1
<1>12. c * UrbLen >= 0
  <2>1. 0 \in Int /\ c \in Int /\ 0 <= c /\ 0 * UrbLen = 0
    BY <1>1, <1>7
  <2> QED  BY <1>1, <2>1, Multiples
<1>13. CASE NumUrbs \in R
  <2>1. t = (c - 1) * UrbLen + Len1(NumUrbs) /\ h # NumUrbs /\ Len1(h) = UrbLen
    BY <1>6, <1>13 DEF c
  <2>2. t + Len1(h) = c * UrbLen + Len1(NumUrbs)
    <3> DEFINE p == (c - 1) * UrbLen
               q == c * UrbLen
    <3>1. p \in Int /\ q \in Int /\ p + UrbLen = q /\ UrbLen \in Int /\ Len1(NumUrbs) \in Int
      BY <1>1, <1>6, <1>8
    <3>2. t = p + Len1(NumUrbs) /\ Len1(h) = UrbLen
      BY <2>1
    <3> HIDE DEF p, q
    <3>3. t + Len1(h) = q + Len1(NumUrbs)
      BY <3>1, <3>2
    <3> QED  BY <3>3 DEF q
  <2>3. t >= 0
    <3>1. (c - 1) * UrbLen >= 0
      BY <1>10, <1>11, <1>13
    <3> QED  BY <1>6, <1>8, <2>1, <3>1
  <2>4. t + Len1(h) <= length
    BY <1>6, <1>8, <1>9, <2>2
  <2> QED  BY <1>4, <1>8, <1>13, <2>2, <2>3, <2>4 DEF c
<1>14. CASE NumUrbs \notin R /\ h = NumUrbs
  <2>1. t = c * UrbLen /\ t + Len1(h) = c * UrbLen + Len1(NumUrbs)
    BY <1>14 DEF c
  <2>2. t >= 0 /\ t + Len1(h) <= length
    BY <1>1, <1>6, <1>8, <1>9, <1>12, <2>1
  <2> QED  BY <1>4, <1>8, <1>14, <2>1, <2>2 DEF c
<1>15. CASE NumUrbs \notin R /\ h # NumUrbs
  <2>1. t = c * UrbLen /\ Len1(h) = UrbLen
    BY <1>6, <1>15 DEF c
  <2>2. c + 1 <= NumUrbs - 1
    <3>1. R \union {h} \subseteq Urbs \ {NumUrbs}
      BY <1>15
    <3>2. Cardinality(Urbs \ {NumUrbs}) = NumUrbs - 1 /\ IsFiniteSet(Urbs \ {NumUrbs})
      <4>1. Urbs \ {NumUrbs} = 1..(NumUrbs - 1)
        BY <1>1
      <4>2. 1 \in Int /\ NumUrbs - 1 \in Int
        BY <1>1
      <4>3. IsFiniteSet(1..(NumUrbs - 1)) /\ Cardinality(1..(NumUrbs - 1)) =
              IF 1 > NumUrbs - 1 THEN 0 ELSE (NumUrbs - 1) - 1 + 1
        BY Zenon, <4>2, FS_Interval
      <4>4. (IF 1 > NumUrbs - 1 THEN 0 ELSE (NumUrbs - 1) - 1 + 1) = NumUrbs - 1
        BY <1>1
      <4> QED  BY Zenon, <4>1, <4>3, <4>4
    <3>3. Cardinality(R \union {h}) <= NumUrbs - 1
      BY <3>1, <3>2, FS_Subset
    <3> QED  BY <1>4, <3>3 DEF c
  <2>3. (c + 1) * UrbLen <= (NumUrbs - 1) * UrbLen /\ (c + 1) * UrbLen = c * UrbLen + UrbLen
    <3>1. c + 1 \in Int /\ NumUrbs - 1 \in Int
      BY <1>1, <1>7
    <3>2. (c + 1) * UrbLen <= (NumUrbs - 1) * UrbLen
      BY <1>1, <2>2, <3>1, Multiples
    <3> QED  BY <1>1, <1>7, <3>2
  <2>4. t + Len1(h) = (c + 1) * UrbLen /\ t >= 0 /\ t + Len1(h) <= length
    BY <1>1, <1>6, <1>8, <1>9, <1>12, <2>1, <2>3
  <2> QED  BY <1>4, <1>15, <2>4 DEF c
<1> QED  BY <1>13, <1>14, <1>15

(* The data of the URB in hand is in its place: if it has any, all URBs    *)
(* before it were filled.                                                  *)
LEMMA InPlace ==
  ASSUME DInv, HandleReaped, mode # "iso", mode = "control" \/ tp.reap_action = "NORMAL",
         urb[hand].actual > 0
  PROVE  urb[hand].from = Start(hand)
<1>1. /\ hand \in Urbs /\ ~fd_removed /\ tp.urbs /\ urb[hand].at = "back" /\ ~CancelLoop
  BY HandledSteps DEF DInv
<1>2. /\ Typed /\ InOrder /\ Filled /\ NoGap /\ NumUrbs \in Nat \ {0} /\ Urbs = 1..NumUrbs
  BY <1>1, SomeUrbs DEF DInv, IInv, Kernel, Flow, Urbs
<1>3. FullUpTo(hand)
  <2>1. CASE mode = "control"
    <3>1. \A i \in Urbs : ~(i < hand)
      BY <1>1, <1>2, <2>1 DEF NumUrbs
    <3> QED  BY <3>1 DEF FullUpTo
  <2>2. CASE tp.reap_action = "NORMAL"
    <3>1. Ascending
      BY <1>1, <1>2, <2>2 DEF InOrder
    <3>2. ASSUME NEW i \in Urbs, i < hand PROVE urb[i].actual = Len1(i)
      <4>1. i \in Reaped
        <5>1. i # hand
          BY <1>1, <1>2, <3>2
        <5>2. urb[i].at = "back"
          BY <1>1, <3>1, <3>2 DEF Ascending
        <5> QED  BY <5>1, <5>2 DEF Reaped
      <4>2. urb[i].actual = Len1(i) \/ urb[i].status \in {"stall", "gone"}
        BY <1>1, <1>2, <2>2, <4>1 DEF NoGap
      <4>3. urb[hand].actual \in Int
        BY <1>1, <1>2, Units
      <4>4. urb[i].status \in {"stall", "gone"} => urb[hand].actual = 0
        BY <1>1, <1>2, <3>2 DEF Filled, FaultLast
      <4> QED  BY <4>2, <4>3, <4>4
    <3> QED  BY <3>2 DEF FullUpTo
  <2> QED  BY <2>1, <2>2
<1> QED  BY <1>1, <1>2, <1>3 DEF Filled, Gapless

(* Isochronous URBs are back in order while reap_action is NORMAL.         *)
LEMMA IsoInPlace ==
  ASSUME DInv, HandleReaped, mode = "iso", tp.reap_action = "NORMAL"
  PROVE  tp.transferred = Start(hand)
<1>1. /\ hand \in Urbs /\ ~fd_removed /\ tp.urbs /\ urb[hand].at = "back" /\ ~CancelLoop
  BY HandledSteps DEF DInv
<1>2. /\ Typed /\ InOrder /\ HandLast /\ IsoAccounted
      /\ NumUrbs \in Nat \ {0} /\ Urbs = 1..NumUrbs
  BY <1>1, SomeUrbs DEF DInv, IInv, Kernel, Flow, Urbs
<1>3. hand \in Int /\ 1 <= hand /\ hand <= NumUrbs
  BY <1>1, <1>2
<1>4. Reaped = 1..(hand - 1)
  <2>1. Ascending
    BY <1>1, <1>2 DEF InOrder
  <2>2. hand # 0
    BY <1>3
  <2>3. \A j \in Reaped : j < hand
    BY <1>1, <1>2, <2>2 DEF HandLast
  <2>4. ASSUME NEW i \in 1..(hand - 1) PROVE i \in Reaped
    <3>1. i \in Urbs /\ i < hand /\ i # hand
      BY <1>2, <1>3
    <3> QED  BY <1>1, <2>1, <3>1 DEF Ascending, Reaped
  <2>5. ASSUME NEW i \in Reaped PROVE i \in 1..(hand - 1)
    <3>1. i \in Urbs /\ i < hand
      BY <2>3 DEF Reaped
    <3> QED  BY <1>2, <1>3, <3>1
  <2> QED  BY <2>4, <2>5
<1>5. Cardinality(Reaped) = hand - 1
  <2>1. 1 \in Int /\ hand - 1 \in Int
    BY <1>3
  <2>2. Cardinality(1..(hand - 1)) = IF 1 > hand - 1 THEN 0 ELSE (hand - 1) - 1 + 1
    BY Zenon, <2>1, FS_Interval
  <2>3. (IF 1 > hand - 1 THEN 0 ELSE (hand - 1) - 1 + 1) = hand - 1
    BY <1>3
  <2> QED  BY Zenon, <1>4, <2>2, <2>3
<1>6. NumUrbs \notin Reaped
  BY <1>2, <1>3, <1>4
<1> QED  BY <1>1, <1>2, <1>5, <1>6 DEF IsoAccounted, Start

(* What handling the URB in hand does to the data.                         *)
LEMMA HandledFlow ==
  ASSUME DInv, HandleReaped, [Next]_vars
  PROVE  Ranges' /\ Prefix' /\ Settled' /\ IsoKept' /\ Flow'
<1>1. /\ hand \in Urbs /\ hand' = 0 /\ urb[hand].at = "back"
      /\ UNCHANGED <<urb, completed, user, fd_removed, sent, called, result>>
      /\ ~fd_removed /\ tp.urbs /\ tp.in_flight /\ user # "submit" /\ Counts
  <2>1. UNCHANGED <<sent, called, result>>
    BY DEF HandleReaped, kernel
  <2> QED  BY <2>1, HandledSteps DEF DInv
<1>2. /\ Typed /\ Queues /\ Filled /\ Chain /\ Accounted /\ IsoAccounted /\ NoGap /\ InHand
      /\ Phases /\ Ranges /\ Prefix
      /\ NumUrbs \in Nat \ {0} /\ Urbs = 1..NumUrbs /\ IInv
  BY <1>1, SomeUrbs DEF DInv, IInv, Kernel, Flow, Urbs
<1>3. /\ hand # 0 /\ hand \in Int /\ tp.transferred \in Nat /\ length \in Nat
      /\ urb[hand].actual \in Nat /\ urb[hand].from \in Nat /\ Len1(hand) \in Nat
      /\ Start(hand) \in Nat /\ urb[hand].actual <= Len1(hand) /\ Start(hand) + Len1(hand) <= length
  <2>1. /\ length \in Nat /\ Start(hand) \in Nat /\ Len1(hand) \in Nat
        /\ Start(hand) + Len1(hand) <= length
    BY <1>1, <1>2, Layout, SizesAssumption DEF Typed
  <2>2. urb[hand].actual \in 0..Len1(hand) /\ urb[hand].from >= 0 /\ urb[hand].from \in Int
    BY <1>1, <1>2, Units DEF Filled, Bounded
  <2>3. tp.transferred \in 0..length /\ hand \in 1..NumUrbs /\ NumUrbs \in Nat
    BY <1>1, <1>2 DEF Ranges
  <2> QED  BY <2>1, <2>2, <2>3
<1>4. /\ length' = length /\ mode' = mode /\ NumUrbs' = NumUrbs /\ Urbs' = Urbs
      /\ \A i : Start(i)' = Start(i)
      /\ \A i : Len1(i)' = Len1(i)
  BY <1>2, SameLayout
<1> DEFINE n == IF mode = "iso" THEN Len1(hand) ELSE urb[hand].actual
<1>5. /\ tp'.transferred = tp.transferred + n
      /\ tp'.num_retired \in {tp.num_retired, Retired}
      /\ mode = "iso" =>
            buffer' = [k \in 1..length |->
                IF k \in (tp.transferred + 1)..(tp.transferred + n)
                THEN Start(hand) + k - tp.transferred ELSE buffer[k]]
      /\ mode = "iso" /\ reaper'.pc = "remove" /\ reaper'.status = "COMPLETED" =>
            tp.reap_action = "NORMAL" /\ hand = NumUrbs
      /\ mode # "iso" =>
            \/ (mode = "control" \/ tp.reap_action = "NORMAL") /\ buffer' = buffer
            \/ tp.reap_action # "NORMAL" /\ buffer' = Moved(hand)
      /\ mode # "iso" /\ tp'.urbs /\ tp'.reap_action = "NORMAL" =>
            urb[hand].actual >= Len1(hand) \/ urb[hand].status \in {"stall", "gone"}
  BY <1>1, <1>2, HandledData
<1>6. n \in Nat
  BY <1>3
<1>61. mode # "iso" => n = urb[hand].actual
  OBVIOUS
<1>62. mode = "iso" => n = Len1(hand)
  OBVIOUS
<1> HIDE DEF n
<1>7. Reaped' = Reaped \union {hand} /\ hand \notin Reaped /\ Reaped \subseteq Urbs
  BY <1>1, <1>2, <1>3, <1>4 DEF Reaped
<1>8. Filled'
  BY <1>1, <1>2, SameResults
<1>9. Chain' /\ Waiting' = Waiting
  BY <1>1, <1>2 DEF Chain, Upto, Waiting
<1>10. mode # "iso" => tp.transferred = urb[hand].from /\ tp'.transferred = Waiting
  BY <1>2, <1>3, <1>5, <1>61 DEF Accounted, Chain, Upto
<1>11. Accounted'
  BY <1>1, <1>4, <1>9, <1>10 DEF Accounted
<1>12. mode = "iso" =>
        /\ tp'.transferred = IF NumUrbs \in Reaped'
                             THEN (Cardinality(Reaped') - 1) * UrbLen + Len1(NumUrbs)
                             ELSE Cardinality(Reaped') * UrbLen
        /\ tp'.transferred <= length
  <2>1. SUFFICES ASSUME mode = "iso"
                 PROVE  /\ tp'.transferred = IF NumUrbs \in Reaped'
                             THEN (Cardinality(Reaped') - 1) * UrbLen + Len1(NumUrbs)
                             ELSE Cardinality(Reaped') * UrbLen
                        /\ tp'.transferred <= length
    OBVIOUS
  <2>2. tp.transferred = IF NumUrbs \in Reaped
                         THEN (Cardinality(Reaped) - 1) * UrbLen + Len1(NumUrbs)
                         ELSE Cardinality(Reaped) * UrbLen
    BY <1>1, <1>2, <2>1 DEF IsoAccounted
  <2>3. hand \in Urbs \ Reaped /\ Reaped \in SUBSET Urbs /\ tp.transferred \in Int
    BY <1>1, <1>3, <1>7
  <2>4. tp'.transferred = tp.transferred + Len1(hand)
    BY <1>5, <1>62, <2>1
  <2>5. /\ tp.transferred + Len1(hand) =
             IF NumUrbs \in Reaped \union {hand}
             THEN (Cardinality(Reaped \union {hand}) - 1) * UrbLen + Len1(NumUrbs)
             ELSE Cardinality(Reaped \union {hand}) * UrbLen
        /\ tp.transferred + Len1(hand) <= length
    BY <1>2, <2>1, <2>2, <2>3, IsoShare
  <2> QED  BY Zenon, <1>7, <2>4, <2>5
<1>13. IsoAccounted'
  BY <1>4, <1>12 DEF IsoAccounted
<1>14. NoGap'
  <2>1. SUFFICES ASSUME mode # "iso", tp'.urbs, tp'.reap_action = "NORMAL", NEW i \in Reaped'
                 PROVE  urb[i].actual = Len1(i) \/ urb[i].status \in {"stall", "gone"}
    BY <1>1, <1>4 DEF NoGap
  <2>2. tp.reap_action = "NORMAL"
    BY <1>1, <2>1 DEF Counts
  <2>3. CASE i = hand
    BY <1>3, <1>5, <2>1, <2>3
  <2>4. CASE i # hand
    BY <1>1, <1>2, <1>7, <2>1, <2>2, <2>4 DEF NoGap
  <2> QED  BY <2>3, <2>4
<1>15. InHand' /\ HandLast'
  BY <1>1 DEF InHand, HandLast
<1>16. tp'.transferred \in 0..length
  <2>1. CASE mode = "iso"
    BY <1>3, <1>5, <1>6, <1>12, <2>1
  <2>2. CASE mode # "iso"
    <3>1. Upto(hand) <= sent /\ sent \in 0..length /\ tp'.transferred = Upto(hand)
      BY <1>1, <1>2, <1>3, <1>10, <2>2 DEF Filled, Bounded, Chain
    <3> QED  BY <1>3, <1>5, <1>6, <3>1
  <2> QED  BY <2>1, <2>2
<1>17. buffer' \in [1..length -> Int]
  <2>1. CASE mode = "iso"
    <3>1. \A k \in 1..length : Start(hand) + k - tp.transferred \in Int /\ buffer[k] \in Int
      BY <1>2, <1>3 DEF Ranges
    <3> QED  BY <1>5, <2>1, <3>1
  <2>2. CASE buffer' = buffer
    BY <1>2, <2>2 DEF Ranges
  <2>3. CASE mode # "iso" /\ buffer' = Moved(hand)
    <3>1. ASSUME NEW k \in 1..length,
                 k \in (tp.transferred + 1)..(tp.transferred + urb[hand].actual)
          PROVE  buffer[Start(hand) + k - tp.transferred] \in Int
      <4>1. Start(hand) + k - tp.transferred \in 1..length
        BY <1>3, <3>1
      <4> QED  BY <1>2, <4>1 DEF Ranges
    <3>2. \A k \in 1..length : buffer[k] \in Int
      BY <1>2 DEF Ranges
    <3> QED  BY <2>3, <3>1, <3>2 DEF Moved
  <2> QED  BY <1>5, <2>1, <2>2, <2>3
<1>18. Ranges'
  <2>1. Retired \in 1..NumUrbs
    BY <1>1, <1>2, RetiredBound
  <2>2. tp'.num_retired \in 0..NumUrbs
    BY <1>2, <1>5, <2>1 DEF Ranges
  <2> QED  BY <1>1, <1>4, <1>16, <1>17, <2>2 DEF Ranges
<1>19. ASSUME mode # "iso", NEW k \in 1..tp'.transferred PROVE buffer'[k] = k
  <2>1. k \in 1..length /\ k \in Int /\ k <= tp.transferred + urb[hand].actual
    BY <1>3, <1>5, <1>16, <1>19, <1>61
  <2>2. CASE k <= tp.transferred
    <3>1. k \in 1..tp.transferred
      BY <1>3, <2>1, <2>2
    <3>2. buffer[k] = k
      BY <1>2, <1>19, <3>1 DEF Prefix
    <3>3. k \notin (tp.transferred + 1)..(tp.transferred + urb[hand].actual)
      BY <1>3, <2>1, <2>2
    <3> QED  BY <1>5, <1>19, <2>1, <3>2, <3>3 DEF Moved
  <2>3. CASE k > tp.transferred
    <3> DEFINE m == k - tp.transferred
    <3>1. /\ m \in 1..urb[hand].actual /\ m \in Int /\ urb[hand].from + m = k
          /\ Start(hand) + k - tp.transferred = Start(hand) + m
          /\ k \in (tp.transferred + 1)..(tp.transferred + urb[hand].actual)
      BY <1>3, <1>10, <1>19, <2>1, <2>3
    <3> HIDE DEF m
    <3>2. buffer[Start(hand) + m] = k
      BY <1>2, <1>3, <1>19, <3>1 DEF InHand
    <3>3. CASE buffer' = Moved(hand)
      BY <2>1, <3>1, <3>2, <3>3 DEF Moved
    <3>4. CASE (mode = "control" \/ tp.reap_action = "NORMAL") /\ buffer' = buffer
      <4>1. urb[hand].actual > 0
        BY <1>3, <3>1
      <4>2. urb[hand].from = Start(hand)
        BY <1>19, <3>4, <4>1, InPlace
      <4> QED  BY <3>1, <3>2, <3>4, <4>2
    <3> QED  BY <1>5, <1>19, <3>3, <3>4
  <2> QED  BY <1>3, <2>1, <2>2, <2>3
<1>20. ASSUME mode = "iso", tp.reap_action = "NORMAL", NEW k \in 1..tp'.transferred
       PROVE  buffer'[k] = k
  <2>1. k \in 1..length /\ k \in Int /\ k <= tp.transferred + n
    BY <1>3, <1>5, <1>6, <1>16
  <2>2. tp.transferred = Start(hand)
    BY <1>20, IsoInPlace
  <2>3. CASE k <= tp.transferred
    <3>1. k \in 1..tp.transferred
      BY <1>3, <2>1, <2>3
    <3>2. buffer[k] = k
      BY <1>1, <1>2, <1>20, <3>1 DEF Prefix
    <3>3. k \notin (tp.transferred + 1)..(tp.transferred + n)
      BY <1>3, <1>6, <2>1, <2>3
    <3> QED  BY <1>5, <1>20, <2>1, <3>2, <3>3
  <2>4. CASE k > tp.transferred
    <3>1. k \in (tp.transferred + 1)..(tp.transferred + n)
          /\ Start(hand) + k - tp.transferred = k
      BY <1>3, <1>6, <2>1, <2>2, <2>4
    <3> QED  BY <1>5, <1>20, <2>1, <3>1
  <2> QED  BY <1>3, <2>1, <2>3, <2>4
<1>21. Prefix'
  <2>1. tp'.reap_action = "NORMAL" => tp.reap_action = "NORMAL"
    BY <1>1 DEF Counts
  <2> QED  BY <1>4, <1>19, <1>20, <2>1 DEF Prefix
<1>22. called = 0
  BY <1>1, <1>2 DEF Phases
<1>23. IsoKept'
  <2>1. SUFFICES ASSUME mode = "iso", reaper'.pc \in {"remove", "callback"},
                        reaper'.status = "COMPLETED", NEW k \in 1..length
                 PROVE  buffer'[k] = k
    BY <1>1, <1>4, <1>22 DEF IsoKept
  <2>2. reaper'.pc = "remove"
    <3>1. GoesOn \/ DiscardsRest \/ EndsCancelled \/ EndsReported
      BY <1>1, <1>2, UrbReaped
    <3> QED  BY <2>1, <3>1 DEF GoesOn, DiscardsRest, EndsCancelled, EndsReported, At
  <2>3. tp.reap_action = "NORMAL" /\ hand = NumUrbs
    BY <1>5, <2>1, <2>2
  <2>4. tp.transferred = Start(NumUrbs)
    BY <2>1, <2>3, IsoInPlace
  <2>5. Start(NumUrbs) + Len1(NumUrbs) = length
    BY <1>2, Layout
  <2>6. tp'.transferred = length
    BY <1>5, <1>62, <2>1, <2>3, <2>4, <2>5
  <2> QED  BY <1>20, <2>1, <2>3, <2>6
<1>24. Settled'
  BY <1>1, <1>22 DEF Settled
<1> QED  BY <1>8, <1>9, <1>11, <1>13, <1>14, <1>15, <1>18, <1>21, <1>23, <1>24 DEF Flow

(* Steps that leave the URBs that are back, and the buffer, alone.         *)
LEMMA SameReaped ==
  ASSUME DInv, [Next]_vars, ~fd_removed, Flow, hand' = hand, buffer' = buffer,
         tp'.transferred = tp.transferred, tp'.urbs => tp.urbs,
         tp'.reap_action = "NORMAL" => tp.reap_action = "NORMAL",
         Waiting' = Waiting,
         \A i \in Urbs : IF urb[i].at = "back"
                         THEN /\ urb'[i].at = "back" /\ urb'[i].actual = urb[i].actual
                              /\ urb'[i].from = urb[i].from /\ urb'[i].status = urb[i].status
                         ELSE urb'[i].at # "back"
  PROVE  Accounted' /\ IsoAccounted' /\ NoGap' /\ InHand' /\ Reaped' = Reaped
<1>1. /\ length' = length /\ mode' = mode /\ NumUrbs' = NumUrbs /\ Urbs' = Urbs
      /\ \A i : Start(i)' = Start(i)
      /\ \A i : Len1(i)' = Len1(i)
  BY SameLayout DEF DInv, IInv
<1>2. hand # 0 => hand \in Urbs /\ urb[hand].at = "back"
  BY DEF DInv, IInv, Kernel, Queues, Typed
<1>3. Reaped' = Reaped
  BY <1>1 DEF Reaped
<1>4. hand # 0 => urb'[hand].actual = urb[hand].actual /\ urb'[hand].from = urb[hand].from
  BY <1>2
<1>5. Accounted'
  BY <1>1, <1>4 DEF Flow, Accounted
<1>6. IsoAccounted'
  BY <1>1, <1>3 DEF Flow, IsoAccounted
<1>7. NoGap'
  BY <1>1, <1>3 DEF Flow, NoGap, Reaped
<1>8. InHand'
  BY <1>1, <1>4 DEF Flow, InHand
<1> QED  BY <1>3, <1>5, <1>6, <1>7, <1>8

(* URBs that leave the endpoint ...                                        *)
LEMMA LeavesFlow ==
  ASSUME DInv, [Next]_vars, ~fd_removed, Flow, hand' = hand, buffer' = buffer, tp' = tp,
         NEW i, NEW c, NEW status, NEW n,
         Leaves(i, c, status), Carries(i, c, n), n \in 0..Len1(i), n > 0 => Active(i)
  PROVE  /\ Filled' /\ Chain' /\ Accounted' /\ IsoAccounted' /\ NoGap' /\ InHand'
         /\ Reaped' = Reaped
<1>1. /\ Typed /\ Queues /\ Results /\ Filled /\ Chain /\ Urbs' = Urbs /\ i \in Urbs
  BY SameTransfer DEF DInv, IInv, Kernel, Flow, Leaves, Queued
<1>2. Filled'
  BY <1>1, LeavesFilled
<1>3. n \in Int
  BY <1>1, LengthsOfUrbs
<1>4. Chain' /\ Waiting' = Waiting
  BY <1>1, <1>3, LeavesChain
<1>5. \A j \in Urbs : \/ urb'[j] = urb[j]
                      \/ urb[j].at = "queued" /\ urb'[j].at = "done"
  BY <1>1, LeavesUrbs DEF Queued
<1>6. Accounted' /\ IsoAccounted' /\ NoGap' /\ InHand' /\ Reaped' = Reaped
  BY <1>4, <1>5, SameReaped
<1> QED  BY <1>2, <1>4, <1>6

(* ... and steps in which none does.                                       *)
LEMMA SameFlow ==
  ASSUME DInv, [Next]_vars, ~fd_removed, Flow, hand' = hand, buffer' = buffer,
         tp'.transferred = tp.transferred, tp'.urbs => tp.urbs,
         tp'.reap_action = "NORMAL" => tp.reap_action = "NORMAL",
         completed' = completed, sent' = sent,
         \A i \in Urbs : /\ urb'[i].actual = urb[i].actual /\ urb'[i].from = urb[i].from
                         /\ urb'[i].status = urb[i].status
                         /\ \/ urb'[i].at = urb[i].at
                            \/ {urb[i].at, urb'[i].at} \subseteq {"idle", "queued"}
  PROVE  /\ Filled' /\ Chain' /\ Accounted' /\ IsoAccounted' /\ NoGap' /\ InHand'
         /\ Reaped' = Reaped
<1>1. /\ Typed /\ Queues /\ Filled /\ Chain /\ completed \in Seq(Urbs)
  BY DEF DInv, IInv, Kernel, Flow, Typed
<1>2. Filled'
  BY <1>1, SameResults
<1>3. completed # <<>> => completed[1] \in Urbs
  <2>1. ASSUME completed # <<>> PROVE completed[1] \in Urbs
    <3>1. 1 \in 1..Len(completed)
      BY <1>1, <2>1
    <3> QED  BY <1>1, <3>1
  <2> QED  BY <2>1
<1>4. Waiting' = Waiting
  BY <1>3 DEF Waiting
<1>5. \A k \in 1..Len(completed) : completed[k] \in Urbs
  BY <1>1
<1>6. \A k \in 1..Len(completed) :
        k # Len(completed) => k + 1 \in 1..Len(completed)
  BY <1>1
<1>7. hand # 0 => hand \in Urbs
  BY <1>1 DEF Typed
<1>8. Chain'
  <2>1. hand # 0 => Upto(hand)' = Waiting'
    BY <1>1, <1>4, <1>7 DEF Chain, Upto
  <2>2. ASSUME NEW k \in 1..Len(completed)
        PROVE  urb'[completed[k]].from + urb'[completed[k]].actual
                 = IF k = Len(completed) THEN sent ELSE urb'[completed[k + 1]].from
    <3>1. completed[k] \in Urbs /\ (k # Len(completed) => completed[k + 1] \in Urbs)
      BY <1>5, <1>6
    <3>2. urb[completed[k]].from + urb[completed[k]].actual
            = IF k = Len(completed) THEN sent ELSE urb[completed[k + 1]].from
      BY <1>1 DEF Chain, Upto
    <3> QED  BY <3>1, <3>2
  <2> QED  BY <2>1, <2>2 DEF Chain, Upto
<1>9. Accounted' /\ IsoAccounted' /\ NoGap' /\ InHand' /\ Reaped' = Reaped
  <2>1. ASSUME NEW i \in Urbs
        PROVE  IF urb[i].at = "back"
               THEN /\ urb'[i].at = "back" /\ urb'[i].actual = urb[i].actual
                    /\ urb'[i].from = urb[i].from /\ urb'[i].status = urb[i].status
               ELSE urb'[i].at # "back"
    OBVIOUS
  <2> QED  BY <1>4, <2>1, SameReaped
<1> QED  BY <1>2, <1>8, <1>9

(* A transfer of which nothing has been sent.                              *)
Blank ==
    /\ Typed /\ completed = <<>> /\ hand = 0 /\ sent = 0 /\ tp.transferred = 0
    /\ \A i \in Urbs : urb[i] = [at |-> "idle", actual |-> 0, from |-> 0, status |-> "ok"]

(* Nothing is out of place in a blank transfer.                            *)
LEMMA BlankFlow == Blank => Flow
<1> SUFFICES ASSUME Blank PROVE Flow
  OBVIOUS
<1>1. /\ NumUrbs \in Nat \ {0} /\ Urbs = 1..NumUrbs /\ Typed /\ length \in Nat
      /\ UrbLen \in Nat \ {0}
  BY SomeUrbs, SizesAssumption DEF Blank, Urbs, Typed
<1>2. /\ \A i \in Urbs : Start(i) \in Nat /\ Len1(i) \in Nat
      /\ \A i, j \in Urbs : i < j => Len1(i) > 0
      /\ Start(1) = 0
  BY <1>1, Layout
<1>3. \A i \in Urbs : /\ urb[i].at = "idle" /\ urb[i].actual = 0 /\ urb[i].from = 0
                      /\ urb[i].status = "ok"
  BY DEF Blank
<1>4. sent = 0 /\ completed = <<>> /\ hand = 0 /\ tp.transferred = 0 /\ Len(completed) = 0
  BY DEF Blank
<1>5. Bounded
  BY <1>1, <1>2, <1>3, <1>4 DEF Bounded, Upto
<1>6. Ahead
  BY <1>2, <1>3, <1>4 DEF Ahead
<1>7. Gapless
  <2>1. ASSUME NEW j \in Urbs, FullUpTo(j) PROVE sent = Start(j)
    <3>1. j = 1
      <4>1. SUFFICES ASSUME j # 1 PROVE FALSE
        OBVIOUS
      <4>2. 1 \in Urbs /\ 1 < j
        BY <1>1, <4>1
      <4>3. urb[1].actual = Len1(1)
        BY <2>1, <4>2 DEF FullUpTo
      <4>4. urb[1].actual = 0 /\ Len1(1) > 0 /\ Len1(1) \in Nat
        BY <1>2, <1>3, <4>2
      <4> QED  BY <4>3, <4>4
    <3> QED  BY <1>2, <1>4, <3>1
  <2> QED  BY <1>3, <2>1 DEF Gapless
<1>8. FaultLast
  BY <1>3 DEF FaultLast
<1>9. Chain
  BY <1>4 DEF Chain
<1>10. Reaped = {}
  BY <1>3 DEF Reaped
<1>11. IsoAccounted
  <2>1. Cardinality(Reaped) = 0
    BY <1>10, FS_EmptySet
  <2> QED  BY <1>1, <1>4, <1>10, <2>1 DEF IsoAccounted
<1>12. Accounted /\ NoGap /\ InHand /\ HandLast
  BY <1>4, <1>10 DEF Accounted, NoGap, InHand, HandLast, Waiting
<1> QED  BY <1>5, <1>6, <1>7, <1>8, <1>9, <1>11, <1>12 DEF Flow, Filled

(* The URB that is reaped is where the counter is.                         *)
LEMMA ReapFlow ==
  ASSUME DInv, Reap, [Next]_vars, ~fd_removed, Flow
  PROVE  /\ Filled' /\ Chain' /\ Accounted' /\ IsoAccounted' /\ NoGap' /\ InHand'
         /\ Reaped' = Reaped /\ Prefix' /\ buffer' \in [1..length -> Int]
<1>1. /\ Typed /\ Queues /\ Filled /\ Chain /\ Accounted /\ IsoAccounted /\ NoGap /\ Prefix
      /\ Phases /\ NumUrbs \in Nat \ {0} /\ Urbs = 1..NumUrbs /\ Ranges
  BY SomeUrbs DEF DInv, IInv, Kernel, Flow, Urbs
<1>2. /\ length' = length /\ mode' = mode /\ NumUrbs' = NumUrbs /\ Urbs' = Urbs
      /\ \A i : Start(i)' = Start(i)
      /\ \A i : Len1(i)' = Len1(i)
  BY <1>1, SameLayout
<1>3. /\ sent' = sent /\ tp' = tp /\ hand' \in Urbs /\ hand' # 0 /\ hand = 0
      /\ hand' = Head(completed) /\ urb[hand'].at = "done"
  <2>1. sent' = sent /\ tp' = tp /\ hand' \in Urbs /\ reaper.pc = "idle"
    BY <1>1, ReapSteps
  <2>2. hand' # 0 /\ hand = 0
    BY <1>1, <2>1 DEF Phases
  <2>3. urb[hand'].at = "done"
    BY <1>1, <1>2, ReapQueues
  <2> QED  BY <2>1, <2>2, <2>3 DEF Reap
<1>4. /\ Chain' /\ urb'[hand'].from = Waiting
      /\ \A i \in Urbs : /\ urb'[i].actual = urb[i].actual /\ urb'[i].from = urb[i].from
                         /\ urb'[i].status = urb[i].status
                         /\ urb'[i].at = IF i = hand' THEN "back" ELSE urb[i].at
  BY <1>1, ReapChain
<1>5. Filled'
  BY <1>1, <1>3, <1>4, SameResults
<1>6. Reaped' = Reaped
  <2>1. ASSUME NEW i \in Urbs
        PROVE  (urb'[i].at = "back" /\ i # hand') <=> (urb[i].at = "back" /\ i # hand)
    <3>1. i # hand
      BY <1>1, <1>3
    <3> QED  BY <1>3, <1>4, <3>1
  <2> QED  BY <1>2, <2>1 DEF Reaped
<1>7. Accounted'
  BY <1>1, <1>2, <1>3, <1>4 DEF Accounted
<1>8. IsoAccounted' /\ NoGap'
  <2>1. NoGap'
    BY <1>1, <1>2, <1>3, <1>4, <1>6 DEF NoGap, Reaped
  <2> QED  BY <1>1, <1>2, <1>3, <1>6, <2>1 DEF IsoAccounted
<1>9. /\ urb[hand'].actual \in Nat /\ urb[hand'].from \in Nat /\ Start(hand') \in Nat
      /\ urb[hand'].actual <= Len1(hand') /\ Start(hand') + Len1(hand') <= length
      /\ Len1(hand') \in Nat /\ length \in Nat /\ tp.transferred \in Nat
      /\ urb[hand'].actual > 0 => urb[hand'].from <= Start(hand')
  <2>1. /\ length \in Nat /\ Start(hand') \in Nat /\ Len1(hand') \in Nat
        /\ Start(hand') + Len1(hand') <= length
    BY <1>1, <1>3, Layout, SizesAssumption DEF Typed
  <2>2. /\ urb[hand'].actual \in 0..Len1(hand') /\ urb[hand'].from >= 0
        /\ urb[hand'].from \in Int
        /\ urb[hand'].actual > 0 => urb[hand'].from <= Start(hand')
    BY <1>1, <1>3, Units DEF Filled, Bounded
  <2> QED  BY <1>1, <2>1, <2>2 DEF Ranges
<1>10. buffer' = IF mode = "iso" THEN buffer
                 ELSE [k \in 1..length |->
                        IF k \in (Start(hand') + 1)..(Start(hand') + urb[hand'].actual)
                        THEN urb[hand'].from + k - Start(hand') ELSE buffer[k]]
  BY <1>3 DEF Reap
<1>11. InHand'
  <2>1. SUFFICES ASSUME mode # "iso", NEW k \in 1..urb[hand'].actual
                 PROVE  buffer'[Start(hand') + k] = urb[hand'].from + k
    BY <1>2, <1>3, <1>4 DEF InHand
  <2>2. /\ Start(hand') + k \in 1..length /\ k \in Int
        /\ Start(hand') + k \in (Start(hand') + 1)..(Start(hand') + urb[hand'].actual)
        /\ urb[hand'].from + (Start(hand') + k) - Start(hand') = urb[hand'].from + k
    BY <1>9
  <2> QED  BY <1>10, <2>1, <2>2
<1>12. Prefix'
  <2>1. SUFFICES ASSUME mode # "iso", NEW k \in 1..tp.transferred PROVE buffer'[k] = k
    BY <1>1, <1>2, <1>3, <1>10 DEF Prefix
  <2>2. buffer[k] = k /\ k \in 1..length
    <3>1. buffer[k] = k
      BY <1>1, <2>1 DEF Prefix
    <3>2. tp.transferred <= length
      BY <1>1, <1>9 DEF Ranges
    <3> QED  BY <1>9, <3>1, <3>2
  <2>3. tp.transferred = urb[hand'].from
    BY <1>1, <1>3, <1>4, <2>1 DEF Accounted
  <2>4. k \notin (Start(hand') + 1)..(Start(hand') + urb[hand'].actual)
    BY <1>9, <2>3
  <2> QED  BY <1>10, <2>1, <2>2, <2>4
<1>13. buffer' \in [1..length -> Int]
  <2>1. \A k \in 1..length : urb[hand'].from + k - Start(hand') \in Int /\ buffer[k] \in Int
    BY <1>1, <1>9 DEF Ranges
  <2> QED  BY <1>1, <1>10, <2>1 DEF Ranges
<1> QED  BY <1>4, <1>5, <1>6, <1>7, <1>8, <1>11, <1>12, <1>13

(* Nothing is lost on the way from the device to the buffer.               *)
LEMMA NextFlow ==
  ASSUME DInv, [Next]_vars, ~fd_removed'
  PROVE  /\ Filled' /\ Chain' /\ Accounted' /\ IsoAccounted' /\ NoGap' /\ InHand'
         /\ SubmitAdd \/ HandleReaped \/ Reaped' = Reaped
<1>0. /\ IInv /\ Typed /\ Results /\ Queues /\ Locks /\ Phases /\ ~fd_removed /\ Flow
      /\ tp \in Privates
  BY StillReaped DEF DInv, IInv, Kernel, Typed
<1>1. CASE DeviceRuns \/ Unplug
  <2>1. UNCHANGED <<hand, tp, buffer>>
    BY <1>0, <1>1, KernelSteps DEF threads
  <2>2. CASE Unplugs
    <3>1. UNCHANGED <<urb, completed, sent>>
      BY <2>2 DEF Unplugs
    <3> QED  BY <1>0, <2>1, <3>1, SameFlow
  <2>3. ASSUME NEW i \in Queued, NEW c \in Nat, NEW status \in UrbResults, Runs(i, c, status)
        PROVE  /\ Filled' /\ Chain' /\ Accounted' /\ IsoAccounted' /\ NoGap' /\ InHand'
               /\ Reaped' = Reaped
    <3>1. PICK n \in 0..Len1(i) : Carries(i, c, n) /\ (status = "gone" => n = 0)
      BY <2>3 DEF Runs, Fills
    <3>2. Leaves(i, c, status) /\ (n > 0 => Active(i))
      <4>1. Len1(i) \in Nat
        BY <1>0, LengthsOfUrbs DEF Queued
      <4> QED  BY <2>3, <3>1, <4>1 DEF Runs
    <3> QED  BY <1>0, <2>1, <3>1, <3>2, LeavesFlow
  <2> QED  BY <1>0, <1>1, <2>2, <2>3, KernelSteps
<1>2. CASE Discard
  <2>1. /\ UNCHANGED <<hand, tp>> /\ loop.at \in Int
        /\ UNCHANGED <<urb, completed, sent>> \/ Discarded1(loop.at)
    BY <1>0, <1>2, DiscardSteps DEF kernel, Typed, Loops
  <2>2. buffer' = buffer
    BY <1>2 DEF Discard
  <2>3. CASE UNCHANGED <<urb, completed, sent>>
    BY <1>0, <2>1, <2>2, <2>3, SameFlow
  <2>4. CASE Discarded1(loop.at)
    <3>1. Leaves(loop.at, 0, "cancelled")
      BY <1>0, <2>1, <2>4, DiscardedLeaves
    <3>2. PICK n \in 0..Len1(loop.at) : Carries(loop.at, 0, n) /\ (~Active(loop.at) => n = 0)
      BY <2>4 DEF Discarded1
    <3>3. n > 0 => Active(loop.at)
      <4>1. loop.at \in Urbs
        BY <2>4 DEF Discarded1, Queued
      <4> QED  BY <1>0, <3>2, <4>1, LengthsOfUrbs
    <3> QED  BY <1>0, <2>1, <2>2, <3>1, <3>2, <3>3, LeavesFlow
  <2> QED  BY <2>1, <2>3, <2>4
<1>3. CASE SubmitAdd
  <2>1. ~tp.urbs
    BY <1>0, <1>3 DEF SubmitAdd, Phases, Typed
  <2>2. completed = <<>> /\ hand = 0
    BY <1>0, <2>1 DEF Queues
  <2>3. Typed'
    BY <1>0, NextTyped
  <2>4. Urbs' = Urbs
    BY SameTransfer
  <2>5. Blank'
    BY <1>3, <2>2, <2>3, <2>4 DEF Blank, SubmitAdd
  <2>6. Blank' => Flow'
    BY BlankFlow, PTL
  <2> QED  BY <1>3, <2>5, <2>6 DEF Flow
<1>4. CASE SubmitUrb
  <2>1. PICK i \in Urbs : Submitted = 1..(i - 1) /\ urb' = [urb EXCEPT ![i].at = "queued"]
    BY <1>4 DEF SubmitUrb
  <2>2. UNCHANGED <<hand, tp, buffer, completed, sent>>
    BY <1>4 DEF SubmitUrb
  <2>3. urb[i].at = "idle"
    BY <1>0, <2>1, SomeUrbs DEF Submitted, Urbs
  <2>4. ASSUME NEW j \in Urbs
        PROVE  /\ urb'[j].actual = urb[j].actual /\ urb'[j].from = urb[j].from
               /\ urb'[j].status = urb[j].status
               /\ \/ urb'[j].at = urb[j].at
                  \/ {urb[j].at, urb'[j].at} \subseteq {"idle", "queued"}
    BY <1>0, <2>1, <2>3 DEF Typed, UrbRecords
  <2> QED  BY <1>0, <2>2, <2>4, SameFlow
<1>5. CASE FirstRefused \/ BulkRefused \/ IsoRefused
  <2>1. UNCHANGED <<hand, urb, completed, buffer>> /\ sent' = sent
    BY <1>5 DEF FirstRefused, BulkRefused, IsoRefused, Refused, kernel
  <2>2. /\ tp'.transferred = tp.transferred /\ (tp'.urbs => tp.urbs)
        /\ tp'.reap_action = "NORMAL" => tp.reap_action = "NORMAL"
    BY <1>0, <1>5 DEF FirstRefused, BulkRefused, IsoRefused, Privates
  <2> QED  BY <1>0, <2>1, <2>2, SameFlow
<1>7. CASE Reap
  BY <1>0, <1>7, ReapFlow
<1>8. CASE HandleReaped
  BY <1>8, HandledFlow DEF Flow
<1>9. CASE Quiet
  <2>2. SUFFICES ASSUME ~SubmitAdd, ~HandleReaped, ~Reap, ~DeviceRuns, ~Unplug, ~Discard
                 PROVE  /\ Filled' /\ Chain' /\ Accounted' /\ IsoAccounted' /\ NoGap' /\ InHand'
                        /\ Reaped' = Reaped
    BY <1>1, <1>2, <1>3, <1>7, <1>8
  <2>3. tp'.transferred = tp.transferred /\ buffer' = buffer /\ sent' = sent
    BY <1>0, <2>2, SameData, SameSent
  <2>4. /\ UNCHANGED <<urb, completed, hand>> /\ (tp'.urbs => tp.urbs)
        /\ tp'.reap_action = "NORMAL" => tp.reap_action = "NORMAL"
    BY <1>0, <1>9, QuietSteps DEF Frame, CancelStarts, CancelStops, CancelActions
  <2> QED  BY <1>0, <2>3, <2>4, SameFlow
<1> QED  BY <1>1, <1>2, <1>3, <1>4, <1>5, <1>7, <1>8, <1>9 DEF Next, User, Reaper, Quiet

(* The order in which isochronous URBs come back.                          *)
LEMMA NextHandLast == ASSUME DInv, [Next]_vars, ~fd_removed' PROVE HandLast'
<1>0. /\ IInv /\ Typed /\ Results /\ Queues /\ InOrder /\ Locks /\ Phases /\ ~fd_removed /\ Flow
      /\ tp \in Privates /\ loop \in Loops /\ mode' = mode /\ Urbs = 1..NumUrbs
      /\ NumUrbs \in Nat \ {0}
  BY StillReaped, SameTransfer, SomeUrbs DEF DInv, IInv, Kernel, Typed, Urbs
<1> SUFFICES ASSUME mode = "iso", tp'.urbs, tp'.reap_action = "NORMAL", hand' # 0
             PROVE  \/ \A j \in Reaped' : j < hand'
                    \/ CancelLoop' /\ loop'.ret = "success" /\ loop'.at < loop'.last
  BY <1>0 DEF HandLast
<1>01. line # "gone"
  BY <1>0 DEF Results, Possible
<1>02. ASSUME hand' = hand, Reaped' = Reaped, tp.urbs, tp.reap_action = "NORMAL",
              CancelLoop /\ loop.ret = "success" /\ loop.at < loop.last =>
                CancelLoop' /\ loop'.ret = "success" /\ loop'.at < loop'.last
       PROVE  \/ \A j \in Reaped' : j < hand'
              \/ CancelLoop' /\ loop'.ret = "success" /\ loop'.at < loop'.last
  BY <1>0, <1>02 DEF Flow, HandLast
<1>03. SubmitAdd \/ HandleReaped \/ Reaped' = Reaped
  BY NextFlow
<1>3. CASE SubmitAdd
  <2>1. ~tp.urbs
    BY <1>0, <1>3 DEF SubmitAdd, Phases, Typed
  <2> QED  BY <1>0, <1>3, <2>1 DEF Queues, SubmitAdd
<1>8. CASE HandleReaped
  BY <1>8, HandledSteps, <1>0
<1> SUFFICES ASSUME ~SubmitAdd, ~HandleReaped
             PROVE  \/ \A j \in Reaped' : j < hand'
                    \/ CancelLoop' /\ loop'.ret = "success" /\ loop'.at < loop'.last
  BY <1>3, <1>8
<1>1. CASE DeviceRuns \/ Unplug
  <2>1. UNCHANGED <<hand, tp, user, timer, loop>>
    BY <1>0, <1>1, KernelSteps DEF threads
  <2> QED  BY <1>02, <1>03, <2>1 DEF CancelLoop
<1>2. CASE Discard
  <2>1. /\ UNCHANGED <<hand, tp, user, timer>> /\ loop'.last = loop.last
        /\ loop'.at = loop.at - 1
        /\ loop'.ret = loop.ret \/ loop.at = loop.last
    BY <1>0, <1>01, <1>2, DiscardSteps
  <2>2. loop.at \in Int /\ loop.last \in Int
    BY <1>0 DEF Loops
  <2> QED  BY <1>02, <1>03, <2>1, <2>2 DEF CancelLoop
<1>4. CASE user = "submit" /\ hand' = hand /\ tp'.urbs = tp.urbs
           /\ (tp'.reap_action = "NORMAL" => tp.reap_action = "NORMAL")
  <2>1. ~CancelLoop
    BY <1>0, <1>4 DEF CancelLoop, Locks
  <2> QED  BY <1>02, <1>03, <1>4, <2>1
<1>41. CASE SubmitUrb
  BY <1>0, <1>4, <1>41, SubmitSteps
<1>42. CASE FirstRefused
  BY <1>0, <1>42 DEF FirstRefused, Privates
<1>43. CASE BulkRefused \/ IsoRefused
  BY <1>0, <1>4, <1>43, RefusedSteps
<1>7. CASE Reap
  <2>1. /\ UNCHANGED <<user, timer, tp, loop>> /\ hand' \in Urbs
    BY <1>0, <1>7, ReapSteps
  <2>2. urb[hand'].at = "done"
    BY <1>0, <1>7, SameTransfer, ReapQueues
  <2>3. CASE Ascending
    <3>1. ASSUME NEW j \in Reaped PROVE j < hand'
      <4>1. j \in Urbs /\ urb[j].at = "back"
        BY DEF Reaped
      <4>2. j # hand' /\ ~(hand' < j)
        BY <2>1, <2>2, <2>3, <4>1 DEF Ascending
      <4> QED  BY <1>0, <2>1, <4>1, <4>2
    <3> QED  BY <1>03, <3>1
  <2>4. CASE CancelLoop /\ loop.ret = "success" /\ loop.at < loop.last
    BY <2>1, <2>4 DEF CancelLoop
  <2> QED  BY <1>0, <2>1, <2>3, <2>4 DEF InOrder
<1>9. CASE Quiet
  <2>1. CASE Frame
    BY <1>02, <1>03, <2>1 DEF Frame
  <2>2. CASE CancelStarts
    BY <1>02, <1>03, <2>2 DEF CancelStarts
  <2>3. CASE CancelStops
    BY <1>02, <1>03, <2>3 DEF CancelStops, CancelActions
  <2> QED  BY <1>0, <1>9, <2>1, <2>2, <2>3, QuietSteps
<1> QED  BY <1>1, <1>2, <1>41, <1>42, <1>43, <1>7, <1>9 DEF Next, User, Reaper, Quiet

(* The state of a transfer that is neither submitted nor handled.          *)
LEMMA SamePrivates ==
  ASSUME IInv, [Next]_vars, ~SubmitAdd, ~HandleReaped
  PROVE  /\ tp'.urbs => tp.urbs
         /\ tp'.reap_action = "NORMAL" => tp.reap_action = "NORMAL"
         /\ user' = "submit" => user = "submit" /\ tp'.num_retired = tp.num_retired
         /\ \/ tp'.num_retired = tp.num_retired
            \/ user = "submit" /\ (tp.num_retired = 0 => tp'.num_retired \in 0..NumUrbs)
<1>0. /\ Typed /\ Results /\ tp \in Privates /\ NumUrbs \in Nat \ {0} /\ Urbs = 1..NumUrbs
  BY SomeUrbs DEF IInv, Typed, Urbs
<1>1. CASE DeviceRuns \/ Unplug
  BY <1>0, <1>1, KernelSteps DEF threads
<1>2. CASE Discard
  BY <1>0, <1>2, DiscardSteps
<1>3. CASE SubmitUrb
  BY <1>0, <1>3, SubmitSteps
<1>4. CASE FirstRefused
  BY <1>0, <1>4 DEF FirstRefused, Privates
<1>5. CASE BulkRefused \/ IsoRefused
  <2>1. /\ user = "submit" /\ user' = "submitted" /\ tp'.urbs = tp.urbs
        /\ tp'.reap_action # "NORMAL"
    BY <1>0, <1>5, RefusedSteps
  <2>2. PICK i \in Urbs \ {1} : tp.num_retired = 0 => tp'.num_retired = NumUrbs - i + 1
    BY <1>0, <1>5, RefusedSteps
  <2>3. NumUrbs - i + 1 \in 0..NumUrbs
    BY <1>0
  <2> QED  BY <2>1, <2>2, <2>3
<1>6. CASE Reap
  BY <1>0, <1>6, ReapSteps
<1>7. CASE Quiet
  BY <1>7, QuietSteps DEF Frame, CancelStarts, CancelStops, CancelActions
<1> QED  BY <1>1, <1>2, <1>3, <1>4, <1>5, <1>6, <1>7 DEF Next, User, Reaper, Quiet

(* ... and what the event thread is about to report of it.                 *)
LEMMA SameReport ==
  ASSUME IInv, [Next]_vars, ~HandleReaped
  PROVE  /\ reaper'.pc \in {"remove", "callback"} =>
              \/ /\ reaper.pc \in {"remove", "callback"} /\ reaper'.status = reaper.status
                 /\ fd_removed' = fd_removed
              \/ /\ reaper.pc = "cancelled" /\ reaper'.status \in {"TIMED_OUT", "CANCELLED"}
                 /\ fd_removed' = fd_removed
              \/ reaper'.status = "NO_DEVICE"
         /\ reaper'.pc = "remove" \/ reaper'.pc = "callback" => ~SubmitAdd /\ ~Reap
<1>0. reaper \in [pc : ReaperPcs, status : Statuses] /\ Phases
  BY DEF IInv, Typed
<1> USE DEF kernel
<1>1. CASE DeviceRuns \/ Unplug \/ Discard \/ SubmitLock \/ SubmitUrb \/ FirstRefused
           \/ BulkRefused \/ IsoRefused \/ SubmitReturns \/ SubmitUndo \/ Cancel \/ Timer
  <2>1. UNCHANGED <<reaper, fd_removed>>
    BY <1>1 DEF DeviceRuns, Unplug, Discard, SubmitLock, SubmitUrb, FirstRefused, BulkRefused,
       IsoRefused, Refused, SubmitReturns, SubmitUndo, Cancel, Timer, Expire, TimerCancel,
       TimerLeave
  <2>2. reaper.pc \in {"remove", "callback"} => ~SubmitAdd
    BY <1>0 DEF Phases, SubmitAdd
  <2>3. reaper.pc \in {"remove", "callback"} => ~Reap
    BY DEF Reap
  <2> QED  BY <2>1, <2>2, <2>3
<1>2. CASE SubmitAdd
  BY <1>0, <1>2 DEF SubmitAdd, Phases
<1>3. CASE Reap \/ RemainingDiscarded \/ Callback \/ Disconnect \/ FindLock \/ FindCheck
  <2>1. reaper'.pc \notin {"remove", "callback"}
    BY <1>3 DEF Reap, RemainingDiscarded, Callback, Disconnect, FindLock, FindCheck, At
  <2> QED  BY <2>1
<1>4. CASE HandleCancellation \/ RemoveFromList \/ ClearPriv
  <2>1. \/ /\ reaper.pc \in {"remove", "callback"} /\ reaper'.status = reaper.status
           /\ fd_removed' = fd_removed
        \/ /\ reaper.pc = "cancelled" /\ reaper'.status \in {"TIMED_OUT", "CANCELLED"}
           /\ fd_removed' = fd_removed
        \/ reaper'.status = "NO_DEVICE"
    BY <1>0, <1>4 DEF HandleCancellation, RemoveFromList, ClearPriv, Report
  <2>2. ~SubmitAdd /\ ~Reap
    BY <1>0, <1>4 DEF HandleCancellation, RemoveFromList, ClearPriv, Phases, SubmitAdd, Reap
  <2> QED  BY <2>1, <2>2
<1>5. CASE UNCHANGED vars
  <2>1. UNCHANGED <<reaper, fd_removed>>
    BY <1>5 DEF vars
  <2> QED  BY <1>0, <2>1 DEF Phases, SubmitAdd, Reap
<1> QED  BY <1>1, <1>2, <1>3, <1>4, <1>5 DEF Next, User, Reaper

(* The counters stay within the transfer.                                  *)
LEMMA NextRanges == ASSUME DInv, [Next]_vars PROVE Ranges'
<1>0. /\ IInv /\ Typed /\ Phases /\ Ranges /\ length' = length /\ NumUrbs' = NumUrbs
      /\ NumUrbs \in Nat \ {0} /\ length \in Nat
  BY SomeUrbs, SameTransfer, SizesAssumption DEF DInv, IInv, Typed
<1>1. CASE HandleReaped
  BY <1>1, HandledFlow
<1>2. CASE ~HandleReaped
  <2>1. fd_removed' /\ reaper'.pc \in {"remove", "callback"} => reaper'.status = "NO_DEVICE"
    <3>1. SUFFICES ASSUME fd_removed', reaper'.pc \in {"remove", "callback"}
                   PROVE  reaper'.status = "NO_DEVICE"
      OBVIOUS
    <3>2. reaper.pc = "cancelled" => ~fd_removed
      BY <1>0 DEF Phases
    <3> QED  BY <1>0, <1>2, <3>1, <3>2, SameReport DEF Ranges
  <2>2. CASE SubmitAdd
    <3>1. /\ tp'.transferred = 0 /\ tp'.num_retired = 0 /\ buffer' = [k \in 1..length |-> 0]
      BY <2>2 DEF SubmitAdd
    <3> QED  BY <1>0, <2>1, <3>1 DEF Ranges
  <2>3. CASE ~SubmitAdd
    <3>1. tp'.transferred = tp.transferred /\ (~Reap => buffer' = buffer)
      BY <1>0, <1>2, <2>3, SameData
    <3>2. /\ user' = "submit" => user = "submit" /\ tp'.num_retired = tp.num_retired
          /\ \/ tp'.num_retired = tp.num_retired
             \/ user = "submit" /\ (tp.num_retired = 0 => tp'.num_retired \in 0..NumUrbs)
      BY <1>0, <1>2, <2>3, SamePrivates
    <3>3. buffer' \in [1..length -> Int]
      <4>1. CASE Reap
        <5>1. ~fd_removed /\ Flow
          BY <4>1 DEF Reap, DInv
        <5> QED  BY <4>1, <5>1, ReapFlow
      <4>2. CASE ~Reap
        BY <1>0, <3>1, <4>2 DEF Ranges
      <4> QED  BY <4>1, <4>2
    <3> QED  BY <1>0, <2>1, <3>1, <3>2, <3>3 DEF Ranges
  <2> QED  BY <2>2, <2>3
<1> QED  BY <1>1, <1>2

(* What has been counted stays where it is.                                *)
LEMMA NextPrefix == ASSUME DInv, [Next]_vars PROVE Prefix'
<1>0. IInv /\ Prefix /\ mode' = mode
  BY SameTransfer DEF DInv
<1>1. CASE HandleReaped
  BY <1>1, HandledFlow
<1>2. CASE SubmitAdd
  <2>1. tp'.transferred = 0
    BY <1>2 DEF SubmitAdd
  <2> QED  BY <2>1 DEF Prefix
<1>3. CASE Reap
  <2>1. ~fd_removed /\ Flow
    BY <1>3 DEF Reap, DInv
  <2> QED  BY <1>3, <2>1, ReapFlow
<1>4. CASE ~HandleReaped /\ ~SubmitAdd /\ ~Reap
  BY <1>0, <1>4, SameData, SamePrivates DEF Prefix
<1> QED  BY <1>1, <1>2, <1>3, <1>4

(* The callback has been told all that the device sent, ...                *)
LEMMA NextSettled == ASSUME DInv, [Next]_vars PROVE Settled'
<1>0. /\ IInv /\ Typed /\ Phases /\ Results /\ Ranges /\ Settled /\ mode' = mode /\ called \in Nat
  BY SameTransfer DEF DInv, IInv, Typed
<1>1. CASE HandleReaped
  BY <1>1, HandledFlow
<1>2. CASE SubmitAdd
  BY <1>2 DEF SubmitAdd, Settled
<1>3. CASE Callback /\ ~HandleReaped /\ ~SubmitAdd
  <2>1. /\ reaper.pc = "callback" /\ result' = [status |-> reaper.status, actual |-> tp.transferred]
        /\ sent' = sent
    BY <1>3 DEF Callback, kernel
  <2>2. tp'.transferred = tp.transferred
    BY <1>0, <1>3, SameData
  <2>3. ASSUME mode # "iso", reaper.status # "NO_DEVICE" PROVE tp.transferred = sent
    <3>1. ~fd_removed /\ ~tp.urbs
      BY <1>0, <2>1, <2>3 DEF Ranges, Phases
    <3>2. hand = 0 /\ completed = <<>>
      BY <3>1 DEF DInv, IInv, Kernel, Queues
    <3> QED  BY <2>3, <3>1, <3>2 DEF DInv, Flow, Accounted, Waiting
  <2> QED  BY <1>0, <2>1, <2>2, <2>3 DEF Settled
<1>4. CASE ~Callback /\ ~HandleReaped /\ ~SubmitAdd
  <2>1. UNCHANGED <<called, result>> /\ tp'.transferred = tp.transferred
    BY <1>0, <1>4, SameData, SameSent
  <2>2. SUFFICES ASSUME called = 1 PROVE sent' = sent
    BY <1>0, <2>1 DEF Settled
  <2>3. IF fd_removed THEN line = "gone" ELSE Queued = {}
    <3>1. ~tp.urbs
      BY <1>0, <2>2 DEF Phases, Typed
    <3> QED  BY <1>0, <3>1 DEF IInv, Kernel, Queues, Results, Possible
  <2>4. CASE DeviceRuns \/ Unplug
    <3>1. ASSUME NEW i \in Queued, NEW c \in Nat, NEW status \in UrbResults, Runs(i, c, status)
          PROVE  sent' = sent
      <4>1. line = "gone"
        BY <2>3, <3>1
      <4>2. status = "gone"
        BY <3>1, <4>1 DEF Runs
      <4>3. PICK n \in 0..Len1(i) : Carries(i, c, n) /\ n = 0
        BY <3>1, <4>2 DEF Runs, Fills
      <4>4. sent' = sent + 0 /\ sent \in Int
        BY <1>0, <4>3 DEF Carries, Typed
      <4> QED  BY <4>4
    <3> QED  BY <1>0, <2>4, <3>1, KernelSteps DEF Unplugs
  <2>5. CASE Discard
    BY <1>0, <2>3, <2>5, DiscardSteps DEF kernel, Discarded1
  <2>6. CASE ~DeviceRuns /\ ~Unplug /\ ~Discard
    BY <1>0, <1>4, <2>6, SameSent
  <2> QED  BY <2>4, <2>5, <2>6
<1> QED  BY <1>1, <1>2, <1>3, <1>4

(* ... and, of an isochronous transfer, has all packets in their places.   *)
LEMMA NextIsoKept == ASSUME DInv, [Next]_vars PROVE IsoKept'
<1>0. /\ IInv /\ Phases /\ IsoKept /\ mode' = mode /\ length' = length
  BY SameTransfer DEF DInv, IInv
<1>1. CASE HandleReaped
  BY <1>1, HandledFlow
<1>2. CASE SubmitAdd
  BY <1>0, <1>2, SameReport DEF SubmitAdd, IsoKept, HandleReaped, Phases
<1>3. CASE ~HandleReaped /\ ~SubmitAdd
  <2>1. mode = "iso" => buffer' = buffer
    <3>1. Reap /\ mode = "iso" => buffer' = buffer
      BY DEF Reap
    <3> QED  BY <1>0, <1>3, <3>1, SameData
  <2>2. reaper'.pc \in {"remove", "callback"} /\ reaper'.status = "COMPLETED" =>
          reaper.pc \in {"remove", "callback"} /\ reaper.status = "COMPLETED"
    BY <1>0, <1>3, SameReport
  <2>3. CASE Callback
    <3>1. reaper.pc = "callback" /\ result'.status = reaper.status
      BY <2>3 DEF Callback
    <3> QED  BY <1>0, <2>1, <2>2, <3>1 DEF IsoKept
  <2>4. CASE ~Callback
    <3>1. UNCHANGED <<called, result>>
      BY <1>0, <1>3, <2>4, SameSent
    <3> QED  BY <1>0, <2>1, <2>2, <3>1 DEF IsoKept
  <2> QED  BY <2>3, <2>4
<1> QED  BY <1>1, <1>2, <1>3

(* The invariant holds initially, ...                                      *)
LEMMA InitDInv == Init => DInv
<1> SUFFICES ASSUME Init PROVE DInv
  OBVIOUS
<1>1. IInv
  BY InitIInv
<1>2. /\ Typed /\ length \in Nat /\ NumUrbs \in Nat \ {0}
  BY <1>1, SomeUrbs, SizesAssumption DEF IInv, Typed
<1>3. Flow
  <2>1. Blank
    BY <1>2 DEF Init, Blank
  <2> QED  BY <2>1, BlankFlow
<1>4. Ranges
  BY <1>2 DEF Init, Ranges, At
<1>5. Prefix /\ Settled /\ IsoKept
  BY DEF Init, Prefix, Settled, IsoKept, At
<1> QED  BY <1>1, <1>3, <1>4, <1>5 DEF DInv

(* ... and is inductive where IInv is.                                     *)
LEMMA DataInvariant == ASSUME Survivable PROVE Spec => []DInv
<1>1. DInv /\ IInv' /\ [Next]_vars => DInv'
  <2>1. SUFFICES ASSUME DInv, IInv', [Next]_vars PROVE DInv'
    OBVIOUS
  <2>2. Ranges' /\ Prefix' /\ Settled' /\ IsoKept'
    BY <2>1, NextRanges, NextPrefix, NextSettled, NextIsoKept
  <2>3. ~fd_removed' => Flow'
    BY <2>1, NextFlow, NextHandLast DEF Flow
  <2> QED  BY <2>1, <2>2, <2>3 DEF DInv
<1> QED  BY <1>1, InitDInv, InductiveInvariant, PTL DEF Spec

(* Every variable has its type: no more URBs are retired than there are    *)
(* (linux_usbfs.c counts them up to num_urbs to end the transfer), and no  *)
(* more is counted than fits the buffer.                                   *)
THEOREM TransferTyped == ASSUME Survivable PROVE Spec => []TypeOK
<1>1. DInv => TypeOK
  BY DEF DInv, IInv, Typed, Ranges, TypeOK, UrbRecords, UrbPlaces, Privates
<1> QED  BY <1>1, DataInvariant, PTL

(* What the device sent is at the start of the buffer, without holes, and  *)
(* counted, however the URBs are cancelled, refused or end short; the      *)
(* packets of an isochronous transfer are in their own descriptors.        *)
THEOREM DataIsKept == ASSUME Survivable PROVE Spec => []DataKept
<1>1. DInv => DataKept
  <2>1. SUFFICES ASSUME DInv PROVE DataKept
    OBVIOUS
  <2>2. Prefix /\ Settled /\ IsoKept
    BY <2>1 DEF DInv
  <2> QED  BY <2>2 DEF DataKept, Prefix, Settled, IsoKept
<1> QED  BY <1>1, DataInvariant, PTL

=============================================================================
