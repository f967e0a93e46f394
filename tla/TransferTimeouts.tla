------------------------- MODULE TransferTimeouts -------------------------
(***************************************************************************)
(* The timeouts of a libusb context: ctx->flying_transfers (list), kept in *)
(* the order of the deadlines, the timerfd that is armed for one of them   *)
(* and the event thread that cancels what has expired.  Without a timerfd  *)
(* (using is FALSE) the event thread bounds its poll instead.              *)
(*                                                                         *)
(* Time is relative: a deadline, the timer and the poll's limit are the    *)
(* ticks that are left, and stay at 0 once they have passed.  Everything   *)
(* done under flying_transfers_lock is one step, but for the loop of        *)
(* handle_timeouts_locked: it holds that lock (pc = "handle") and waits,   *)
(* transfer after transfer, for the lock of the transfer, which            *)
(* libusb_submit_transfer holds while the backend is at work               *)
(* ("submitting").                                                         *)
(***************************************************************************)
EXTENDS Integers, Sequences, SequencesExt, FiniteSetsExt

CONSTANTS
    Transfers,
    Delays,     \* transfer->timeout, in ticks; a transfer may also have none
    MaxWait,    \* the time the caller of libusb_handle_events_timeout gives
    Timerfd     \* values of usbi_using_timerfd

ASSUME DelaysAssumption == Delays \subseteq Nat \ {0} /\ MaxWait \in Nat
ASSUME TimerfdAssumption == Timerfd \subseteq BOOLEAN

Never == -1     \* a cleared timeval: no deadline, or a disarmed timer

VARIABLES
    using, list, left, handled, state, timer,
    completed,  \* transfers the kernel has ready to be reaped
    pc, wait, revents,
    expired     \* what the loop of handle_timeouts_locked still has to cancel

thread == <<pc, wait, revents, expired>>
vars == <<using, list, left, handled, state, timer, completed, thread>>

Init ==
    /\ using \in Timerfd
    /\ list = <<>> /\ handled = {}
    /\ left = [t \in Transfers |-> Never]
    /\ state = [t \in Transfers |-> "free"]
    /\ timer = Never
    /\ completed = <<>>
    /\ pc = "idle" /\ wait = 0 /\ revents = {} /\ expired = <<>>

(* flying_transfers_lock is free. *)
Unlocked == pc # "handle"

(* The first deadline nobody has acted on yet, Never when there is none    *)
(* before the transfers that have no deadline.                             *)
NextTimeout(l, h) ==
    LET open == {i \in DOMAIN l : l[i] \notin h /\ \A j \in 1..i : left[l[j]] # Never}
    IN  IF open = {} THEN Never ELSE left[l[Min(open)]]

(***************************************************************************)
(* Submission, by any thread.                                              *)
(***************************************************************************)

(* Where a transfer with d ticks left goes: before the first one that ends *)
(* later, after the ones that end with it.                                 *)
Place(d) ==
    LET later == {i \in DOMAIN list : left[list[i]] = Never \/ left[list[i]] > d}
    IN  IF d = Never \/ later = {} THEN Len(list) + 1 ELSE Min(later)

(* Mutant: only a transfer that is alone on the list arms the timer.       *)
Arms_Empty(d) == using /\ d # Never /\ list = <<>>

(* Only the first of the list arms the timer.                              *)
Arms(d) == using /\ d # Never /\ Place(d) = 1

(* libusb_submit_transfer up to the backend, with add_to_flying_list.      *)
Submit(t) ==
    /\ Unlocked /\ state[t] = "free"
    /\ \E d \in Delays \union {Never} :
        /\ list' = InsertAt(list, Place(d), t)
        /\ left' = [left EXCEPT ![t] = d]
        /\ timer' = IF Arms(d) THEN d ELSE timer
    /\ handled' = handled \ {t}
    /\ state' = [state EXCEPT ![t] = "submitting"]
    /\ UNCHANGED <<using, completed, thread>>

(* The backend's submit_transfer returns.                                  *)
SubmitReturns(t) ==
    /\ state[t] = "submitting"
    /\ \E s \in {"in_flight", "refused"} : state' = [state EXCEPT ![t] = s]
    /\ UNCHANGED <<using, list, left, handled, timer, completed, thread>>

(* Mutant: the timer is left as it is when the list changes.               *)
Remove_NoRearm(t) ==
    /\ list' = RemoveFirst(list, t)
    /\ left' = [left EXCEPT ![t] = Never]
    /\ UNCHANGED timer

(* remove_from_flying_list: the timer is set anew if t was first.          *)
RemoveFromList(t) ==
    /\ list' = RemoveFirst(list, t)
    /\ left' = [left EXCEPT ![t] = Never]
    /\ timer' = IF using /\ left[t] # Never /\ Head(list) = t
                THEN NextTimeout(list', handled) ELSE timer

SubmitUndo(t) ==
    /\ Unlocked /\ state[t] = "refused"
    /\ RemoveFromList(t)
    /\ state' = [state EXCEPT ![t] = "free"]
    /\ UNCHANGED <<using, handled, completed, thread>>

(* libusb_cancel_transfer by the user.                                     *)
Cancel(t) ==
    /\ state[t] = "in_flight"
    /\ state' = [state EXCEPT ![t] = "cancelling"]
    /\ UNCHANGED <<using, list, left, handled, timer, completed, thread>>

(* The kernel has the transfer ready to be reaped (external).              *)
Ends(t) ==
    /\ state[t] \in {"in_flight", "cancelling"}
    /\ state' = [state EXCEPT ![t] = "done"]
    /\ completed' = Append(completed, t)
    /\ UNCHANGED <<using, list, left, handled, timer, thread>>

(***************************************************************************)
(* The event thread.                                                       *)
(***************************************************************************)

(* What handle_timeouts_locked finds: it walks the list up to the first    *)
(* deadline that is neither handled nor passed.                            *)
Expired ==
    LET over(t) == left[t] # Never /\ (t \in handled \/ left[t] = 0)
        walked == {i \in DOMAIN list : \A j \in 1..i : over(list[j])}
    IN  SelectSeq(SubSeq(list, 1, Cardinality(walked)), LAMBDA t : t \notin handled)

(* How long handle_events may poll: get_next_timeout takes the smaller of  *)
(* the next deadline and the caller's limit.  With a timerfd there is no   *)
(* next deadline to heed, and the caller may give any limit, even none.    *)
PollLimits ==
    LET next == NextTimeout(list, handled)
    IN  CASE using -> {MaxWait, Never}
          [] next = Never -> {MaxWait}
          [] OTHER -> {Min({next, MaxWait})}

BeginHandling == pc' = "handle" /\ expired' = Expired

(* libusb_handle_events_timeout_completed: an expired timeout is handled   *)
(* at once, otherwise handle_events polls.                                 *)
Enter ==
    /\ pc = "idle"
    /\ IF ~using /\ NextTimeout(list, handled) = 0
       THEN BeginHandling /\ UNCHANGED wait
       ELSE pc' = "poll" /\ wait' \in PollLimits /\ UNCHANGED expired
    /\ UNCHANGED <<using, list, left, handled, state, timer, completed, revents>>

Ready == {f \in {"timerfd", "usbfs"} :
            \/ f = "timerfd" /\ using /\ timer = 0
            \/ f = "usbfs" /\ completed # <<>>}

PollReturns ==
    /\ pc = "poll" /\ Ready # {}
    /\ revents' = Ready /\ wait' = 0
    /\ IF "timerfd" \in Ready THEN BeginHandling ELSE pc' = "usbfs" /\ UNCHANGED expired
    /\ UNCHANGED <<using, list, left, handled, state, timer, completed>>

PollTimesOut ==
    /\ pc = "poll" /\ Ready = {} /\ wait = 0
    /\ BeginHandling
    /\ UNCHANGED <<using, list, left, handled, state, timer, completed, wait, revents>>

(* handle_timeout, once the transfer's lock is free.                       *)
HandleTimeout ==
    /\ pc = "handle" /\ expired # <<>>
    /\ LET t == Head(expired)
       IN  /\ state[t] # "submitting"
           /\ handled' = handled \union {t}
           /\ state' = IF state[t] = "in_flight"
                       THEN [state EXCEPT ![t] = "cancelling"] ELSE state
    /\ expired' = Tail(expired)
    /\ UNCHANGED <<using, list, left, timer, completed, pc, wait, revents>>

(* arm_timerfd_for_next_timeout.                                           *)
Rearm == NextTimeout(list, handled)

(* The end of handle_timeouts, or of handle_timerfd_trigger, which arms    *)
(* the timer for the next timeout.                                         *)
Handled ==
    /\ pc = "handle" /\ expired = <<>>
    /\ timer' = IF "timerfd" \in revents THEN Rearm ELSE timer
    /\ revents' = revents \ {"timerfd"}
    /\ pc' = IF "usbfs" \in revents THEN "usbfs" ELSE "idle"
    /\ UNCHANGED <<using, list, left, handled, state, completed, wait, expired>>

(* op_handle_events reaps until the kernel has nothing more.               *)
Reap ==
    /\ pc = "usbfs" /\ completed # <<>>
    /\ RemoveFromList(Head(completed))
    /\ state' = [state EXCEPT ![Head(completed)] = "free"]
    /\ completed' = Tail(completed)
    /\ UNCHANGED <<using, handled, thread>>

ReapNothing ==
    /\ pc = "usbfs" /\ completed = <<>>
    /\ pc' = "idle" /\ revents' = {}
    /\ UNCHANGED <<using, list, left, handled, state, timer, completed, wait, expired>>

Events == Enter \/ PollReturns \/ PollTimesOut \/ HandleTimeout \/ Handled
          \/ Reap \/ ReapNothing

(* Time passes.                                                            *)
Less(n) == IF n > 0 THEN n - 1 ELSE n
Tick ==
    /\ left' = [t \in Transfers |-> Less(left[t])]
    /\ timer' = Less(timer) /\ wait' = Less(wait)
    /\ UNCHANGED <<using, list, handled, state, completed, pc, revents, expired>>

Next ==
    \/ \E t \in Transfers :
        Submit(t) \/ SubmitReturns(t) \/ SubmitUndo(t) \/ Cancel(t) \/ Ends(t)
    \/ Events
    \/ Tick

(* Time goes on, both threads run, the kernel gives a cancelled transfer   *)
(* back, and the device does not complete transfers so fast that the loop  *)
(* of op_handle_events always finds another one to reap.                   *)
Fairness ==
    /\ WF_vars(Tick) /\ WF_vars(Events) /\ SF_vars(ReapNothing)
    /\ []<>(pc = "usbfs" => completed = <<>>)
    /\ \A t \in Transfers :
        /\ WF_vars(SubmitReturns(t)) /\ WF_vars(SubmitUndo(t))
        /\ WF_vars(state[t] = "cancelling" /\ Ends(t))

Spec == Init /\ [][Next]_vars
FairSpec == Spec /\ Fairness
-----------------------------------------------------------------------------
TypeOK ==
    /\ using \in BOOLEAN
    /\ list \in Seq(Transfers) /\ IsInjective(list)
    /\ \A t \in Transfers : t \in Range(list) <=> state[t] # "free"
    /\ left \in [Transfers -> {Never, 0} \union (1..Max(Delays))]
    /\ handled \subseteq Transfers
    /\ state \in [Transfers -> {"free", "submitting", "refused", "in_flight", "cancelling", "done"}]
    /\ timer \in {Never, 0} \union (1..Max(Delays))
    /\ \A t \in Transfers : t \in Range(completed) <=> state[t] = "done"
    /\ pc \in {"idle", "poll", "handle", "usbfs"} /\ wait \in {Never} \union (0..MaxWait)
    /\ revents \subseteq {"timerfd", "usbfs"} /\ Range(expired) \subseteq Range(list)

(* Whenever the first transfer of the list has a deadline nobody has acted *)
(* on, the timerfd fires no later than at that deadline and no deadline of *)
(* the list is earlier: poll sleeps through none (arming in                *)
(* add_to_flying_list, remove_from_flying_list and handle_timerfd_trigger).*)
TimerArmed ==
    using /\ list # <<>> /\ Head(list) \notin handled /\ left[Head(list)] # Never =>
        /\ timer # Never /\ timer <= left[Head(list)]
        /\ \A t \in Range(list) : left[t] # Never => left[Head(list)] <= left[t]

(* The same for every transfer, as the manual has it for platforms with a  *)
(* timerfd (the main loop may poll with any timeout it likes).  It is      *)
(* false: a transfer submitted while the first of the list has timed out   *)
(* and is not yet reaped is not first, so its deadline arms nothing.       *)
TimerCoversAll ==
    using => \A t \in Range(list) :
        left[t] # Never /\ t \notin handled => timer # Never /\ timer <= left[t]

(* A transfer that has passed its deadline is cancelled, or is over, in    *)
(* the end, whoever else is submitted, cancelled or reaped meanwhile.      *)
TimeoutsFire ==
    \A t \in Transfers :
        state[t] # "free" /\ left[t] = 0 ~> state[t] = "free" \/ t \in handled
=============================================================================
