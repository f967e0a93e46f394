------------------------ MODULE HotplugContextProof ------------------------
(***************************************************************************)
(* The byte in the event pipe, and the devices of the context: for any     *)
(* number of devices, descriptors and callbacks, and whatever the three    *)
(* threads do.                                                             *)
(*                                                                         *)
(* The byte is there exactly when an event is pending.  Only a device that *)
(* arrives while usbi_io_init makes the pipe is left out ("pipe", with     *)
(* which the claim is false).  PipeSignalled is not inductive:             *)
(* usbi_clear_event reads a byte, so what it is called for must have been  *)
(* pending; and libusb_exit clears the event flags and closes the pipe     *)
(* without a look at the messages, so none may be left by then.  That      *)
(* takes the order in which libusb_exit stops the sources of events: no    *)
(* open handle, no context to receive hotplug events, no callback, and one *)
(* last round of handle_events.                                            *)
(*                                                                         *)
(* A device's count is the number of its holders.  The messages about      *)
(* devices are holders too, so the invariant tells their story: after the  *)
(* one that a device has left there is none that it arrived, and a device  *)
(* that has left while its arrival is still to be told has the other one   *)
(* behind it.  Who takes a device off the list names it by an address or   *)
(* by a descriptor, and both are used again: hence at which address what   *)
(* is plugged in, which node a descriptor has open, and which descriptors  *)
(* the poll set still watches.  A device that leaves during libusb_init    *)
(* ("init") is left out: its message is lost, and the reference with it.   *)
(***************************************************************************)
EXTENDS HotplugContext, FiniteSetTheorems, SequenceTheorems, TLAPS

UserPcs == {"none", "started", "scanned", "pipe", "idle", "list", "open", "call", "free",
            "closing", "exiting", "drain", "drained", "done"}
EventPcs == {"idle", "poll", "pipe", "hotplug", "usbfs"}
Kinds == {"arrived", "left"}
Messages == [event : Kinds, dev : Devices]
HotEvents == [by : {"monitor", "user", "events"}, event : Kinds, dev : Devices]
UdevEvents == [act : {"add", "remove"}, dev : Devices]
OpenDevices == [dev : Devices \union {None}, node : Devices \union {None}, removed : BOOLEAN]

Typed ==
    /\ present \subseteq Devices /\ list \subseteq Devices
    /\ udev \in Seq(UdevEvents)
    /\ hot \in Seq(HotEvents)
    /\ msgs \in Seq(Messages)
    /\ handles \in [Fds -> OpenDevices]
    /\ fds \subseteq Fds
    /\ user \in [at : UserPcs, arg : Nat, todo : SUBSET Devices]
    /\ ev \in [at : EventPcs, errs : SUBSET Fds, batch : Seq(Messages),
               msg : Seq(Messages), todo : SUBSET Callbacks, dereg : BOOLEAN]

(* One byte if something is pending; libusb_close counts once.             *)
Signalled ==
    /\ pipe = IF Pending THEN 1 ELSE 0
    /\ closing = IF user.at = "closing" THEN 1 ELSE 0

(* The event thread has no business outside of libusb_init and libusb_exit *)
(* and forgets everything when it is done.  When it is about to read the   *)
(* byte, the byte is there.                                                *)
Handling ==
    /\ ev.at = "idle" => ev = Waiting
    /\ user.at \in {"none", "started", "scanned", "pipe", "exiting", "drained", "done"} =>
        ev.at = "idle"
    /\ user.at \in {"none", "started", "scanned", "pipe"} => ~Pending
    /\ ev.at = "pipe" => Pending

(* The poll set holds no descriptor that is closed, unless it is about to  *)
(* be made anew.                                                           *)
PollSet == "pollfds" \notin flags => fds \subseteq Polled

(* libusb_exit: nothing is left that could cause an event, and what was    *)
(* pending is taken by the last round of the event thread.                 *)
Leaving ==
    /\ user.at \in {"exiting", "drain", "drained", "done"} =>
        hot = <<>> /\ ev.errs = {} /\ ev.todo = {} /\ \A f \in Fds : handles[f] = Closed
    /\ user.at \in {"drain", "drained", "done"} =>
        \A c \in Callbacks : cbs[c] \notin {"listed", "marked"}
    /\ user.at = "drain" /\ ev.at # "idle" => fds = {}
    /\ user.at = "drain" /\ ev.at \in {"hotplug", "usbfs"} => msgs = <<>>
    /\ user.at \in {"drained", "done"} => msgs = <<>> /\ fds = {}

IInv == Typed /\ Signalled /\ Handling /\ PollSet /\ Leaving

-----------------------------------------------------------------------------
LEMMA InitIInv == Init => IInv
<1> SUFFICES ASSUME Init PROVE IInv
  OBVIOUS
<1>1. Typed
  <2>1. /\ present = {} /\ list = {} /\ fds = {} /\ udev = <<>> /\ hot = <<>> /\ msgs = <<>>
        /\ handles = [f \in Fds |-> Closed] /\ user = [Idle EXCEPT !.at = "none"]
        /\ ev = Waiting
    BY DEF Init
  <2> QED  BY <2>1 DEF Typed, Closed, Idle, Waiting, None, UserPcs, EventPcs, OpenDevices
<1>2. user.at = "none" /\ ev = Waiting /\ ev.at = "idle"
  BY DEF Init, Idle, Waiting
<1>3. ~Pending /\ pipe = 0 /\ closing = 0 /\ fds = {}
  BY DEF Init, Pending
<1> QED
  BY <1>1, <1>2, <1>3 DEF IInv, Signalled, Handling, PollSet, Leaving

Early == {"none", "started", "scanned", "pipe"}
AtWork == {"idle", "list", "open", "call", "free"}

(* A step that leaves the pending events and the poll set alone, and the   *)
(* application's thread in the same part of its life.                      *)
LEMMA Quiet ==
  ASSUME IInv, Typed', UNCHANGED <<flags, closing, msgs, pipe, fds>>,
         UNCHANGED <<handles, ev>>
           \/ (/\ Polled' = Polled /\ user.at \in AtWork \cup {"closing"}
               /\ ev.at # "idle" /\ ev'.at = ev.at),
         user'.at = user.at \/ {user.at, user'.at} \subseteq Early
           \/ {user.at, user'.at} \subseteq AtWork,
         user.at \in Early \cup AtWork \cup {"closing"} \/ UNCHANGED <<hot, cbs>>
  PROVE  IInv'
<1>1. Pending' = Pending /\ Polled' = Polled
  BY DEF Pending, Polled
<1>2. Signalled'
  BY <1>1 DEF IInv, Signalled, Early, AtWork
<1>3. Handling'
  BY <1>1 DEF IInv, Handling, Early, AtWork, Waiting
<1>4. PollSet'
  BY <1>1 DEF IInv, PollSet
<1>5. Leaving'
  BY DEF IInv, Leaving, Early, AtWork
<1> QED  BY <1>2, <1>3, <1>4, <1>5 DEF IInv

(* A step of a thread at work after which something is pending.            *)
LEMMA Raised ==
  ASSUME IInv, Typed', Signal, Pending', UNCHANGED fds,
         closing' = IF user'.at = "closing" THEN 1 ELSE 0,
         flags \subseteq flags', handles' = handles \/ "pollfds" \in flags',
         user.at \in AtWork \cup {"closing"}, user'.at \in AtWork \cup {"closing"},
         ev' = ev \/ (ev.at # "idle" /\ ev'.at = ev.at)
  PROVE  IInv'
<1>1. Signalled'
  BY DEF IInv, Signalled, Signal
<1>2. Handling'
  BY DEF IInv, Handling, AtWork, Waiting
<1>3. PollSet'
  BY DEF IInv, PollSet, Polled
<1>4. Leaving'
  BY DEF Leaving, AtWork
<1> QED  BY <1>1, <1>2, <1>3, <1>4 DEF IInv

(* What is put in the pollset by libusb_open, and taken out by do_close.   *)
LEMMA OpenFacts ==
  ASSUME IInv, NEW by \in {"monitor", "user", "events"}, NEW d \in Devices, Open(by, d)
  PROVE  /\ handles' \in [Fds -> OpenDevices]
         /\ hot' \in Seq(HotEvents)
         /\ \/ UNCHANGED <<handles, flags, pipe>>
            \/ Signal /\ flags' = flags \cup {"pollfds"}
<1>1. CASE Nodes(d) # {}
  <2>1. /\ handles' = [handles EXCEPT ![Lowest] =
              [dev |-> d, node |-> CHOOSE n \in Nodes(d) : TRUE, removed |-> FALSE]]
        /\ flags' = flags \cup {"pollfds"} /\ Signal /\ hot' = hot
    BY <1>1 DEF Open, SetFlag
  <2>2. (CHOOSE n \in Nodes(d) : TRUE) \in Devices
    BY <1>1 DEF IInv, Typed, Nodes
  <2> QED  BY <2>1, <2>2 DEF IInv, Typed, OpenDevices
<1>2. CASE Nodes(d) = {}
  <2>1. UNCHANGED <<handles, flags, pipe>> /\ Disconnect(by, Plugs[d])
    BY <1>2 DEF Open
  <2>2. PICK e \in At(Plugs[d]) : hot' = <<[by |-> by, event |-> "left", dev |-> e]>>
    BY <2>1 DEF Disconnect
  <2>3. e \in Devices
    BY DEF At
  <2> QED  BY <2>1, <2>2, <2>3 DEF IInv, Typed, Kinds, HotEvents
<1> QED  BY <1>1, <1>2

LEMMA CloseFacts ==
  ASSUME IInv, NEW f \in Fds, DoClose(f)
  PROVE  /\ handles' \in [Fds -> OpenDevices]
         /\ IF handles[f].removed THEN flags' = flags /\ Polled' = Polled
            ELSE flags' = flags \cup {"pollfds"}
<1>1. handles' = [handles EXCEPT ![f] = Closed]
  BY DEF DoClose
<1>2. handles' \in [Fds -> OpenDevices]
  BY <1>1 DEF IInv, Typed, Closed, OpenDevices
<1>3. handles[f].removed => Polled' = Polled
  BY <1>1 DEF IInv, Typed, Polled
<1> QED  BY <1>2, <1>3 DEF DoClose

-----------------------------------------------------------------------------
(* The devices, the monitor and libusb_init.                               *)
LEMMA PlugSteps ==
  ASSUME IInv, Plug \/ Unplug PROVE IInv'
<1>1. UNCHANGED <<devices, pending, cbs, polling, user, list, ev>>
  BY DEF Plug, Unplug
<1>2. Typed'
  <2>1. CASE Plug
    <3> DEFINE d == plugged + 1
    <3>1. /\ d \in Devices /\ present' = present \cup {d}
          /\ udev' = IF Monitored THEN Append(udev, [act |-> "add", dev |-> d]) ELSE udev
      BY <2>1 DEF Plug
    <3> HIDE DEF d
    <3>2. [act |-> "add", dev |-> d] \in UdevEvents
      BY <3>1 DEF UdevEvents
    <3>3. present' \subseteq Devices /\ udev' \in Seq(UdevEvents)
      BY <3>1, <3>2 DEF IInv, Typed
    <3> QED  BY <1>1, <3>3 DEF IInv, Typed, devices, pending, polling
  <2>2. CASE Unplug
    <3>1. PICK d \in present :
            /\ present' = present \ {d}
            /\ udev' = IF Monitored THEN Append(udev, [act |-> "remove", dev |-> d]) ELSE udev
      BY <2>2 DEF Unplug
    <3>2. [act |-> "remove", dev |-> d] \in UdevEvents
      BY DEF IInv, Typed, UdevEvents
    <3>3. present' \subseteq Devices /\ udev' \in Seq(UdevEvents)
      BY <3>1, <3>2 DEF IInv, Typed
    <3> QED  BY <1>1, <3>3 DEF IInv, Typed, devices, pending, polling
  <2> QED  BY <2>1, <2>2
<1> QED  BY <1>1, <1>2, Quiet DEF devices, pending, polling

LEMMA HotplugEventFacts ==
  ASSUME IInv, NEW by \in {"monitor", "user"}, HotplugEvent(by)
  PROVE  /\ udev' \in Seq(UdevEvents)
         /\ hot' \in Seq(HotEvents)
         /\ Active \/ UNCHANGED hot
         /\ UNCHANGED <<present, pending, cbs, polling, user, list, ev>>
<1> DEFINE m == Head(udev)
           known == At(Plugs[m.dev])
<1>1. /\ udev # <<>> /\ udev' = Tail(udev)
      /\ UNCHANGED <<present, pending, cbs, polling, user, list, ev>>
      /\ CASE Active /\ m.act = "add" /\ known = {} /\ m.dev \in present -> Connect(by, m.dev)
           [] Active /\ m.act = "remove" /\ known # {} -> Disconnect(by, Plugs[m.dev])
           [] OTHER -> UNCHANGED devices
  BY DEF HotplugEvent
<1>2. m.dev \in Devices /\ udev' \in Seq(UdevEvents)
  <2>1. m \in UdevEvents /\ udev' \in Seq(UdevEvents)
    BY <1>1 DEF IInv, Typed
  <2> QED  BY <2>1 DEF UdevEvents
<1> HIDE DEF m
<1>3. CASE Active /\ m.act = "add" /\ known = {} /\ m.dev \in present
  <2>1. hot' = <<[by |-> by, event |-> "arrived", dev |-> m.dev]>>
    BY <1>1, <1>3 DEF Connect
  <2> QED  BY <1>1, <1>2, <1>3, <2>1 DEF Kinds, HotEvents
<1>4. CASE Active /\ m.act = "remove" /\ known # {}
  <2>1. Disconnect(by, Plugs[m.dev])
    BY <1>1, <1>4
  <2>2. PICK d \in Devices : hot' = <<[by |-> by, event |-> "left", dev |-> d]>>
    BY <2>1 DEF Disconnect, At
  <2> QED  BY <1>1, <1>2, <1>4, <2>2 DEF Kinds, HotEvents
<1>5. CASE ~(Active /\ m.act = "add" /\ known = {} /\ m.dev \in present)
           /\ ~(Active /\ m.act = "remove" /\ known # {})
  <2>1. hot' = hot
    BY <1>1, <1>5 DEF devices
  <2> QED  BY <1>1, <1>2, <2>1 DEF IInv, Typed
<1> QED  BY <1>3, <1>4, <1>5

LEMMA HotplugEventStep ==
  ASSUME IInv, Monitor \/ HotplugPoll PROVE IInv'
<1>1. PICK by \in {"monitor", "user"} : HotplugEvent(by)
  BY DEF Monitor, HotplugPoll
<1>2. Typed'
  BY <1>1, HotplugEventFacts DEF IInv, Typed, pending, polling
<1>3. user.at \in Early \cup AtWork \cup {"closing"} \/ UNCHANGED <<hot, cbs>>
  BY <1>1, HotplugEventFacts DEF Active, IInv, Typed, UserPcs, Early, AtWork
<1> QED  BY <1>1, <1>2, <1>3, HotplugEventFacts, Quiet DEF pending, polling

LEMMA InitSteps ==
  ASSUME IInv, StartInit \/ Scan \/ IoInitLists PROVE IInv'
<1>1. UNCHANGED <<present, udev, hot, pending, polling, list, cbs, ev>>
  BY DEF StartInit, Scan, IoInitLists, kernel, devices
<1>2. PICK pc \in Early : user' = [user EXCEPT !.at = pc]
  BY DEF StartInit, Scan, IoInitLists, Goto, Early
<1>3. user' \in [at : UserPcs, arg : Nat, todo : SUBSET Devices] /\ user'.at = pc
  BY <1>2 DEF IInv, Typed, UserPcs, Early
<1>4. user.at \in Early
  BY DEF StartInit, Scan, IoInitLists, At_, Early
<1>5. Typed'
  BY <1>1, <1>3 DEF IInv, Typed, pending, polling
<1> QED  BY <1>1, <1>2, <1>3, <1>4, <1>5, Quiet DEF pending, polling

LEMMA IoInitStep ==
  ASSUME IInv, IoInit PROVE IInv'
<1>1. /\ user.at = "pipe" /\ user' = [user EXCEPT !.at = "idle"]
      /\ flags' = flags \cup {"pollfds"} /\ Signal
      /\ UNCHANGED <<present, udev, hot, closing, msgs, polling, list, cbs, ev>>
  BY DEF IoInit, At_, Goto, SetFlag, kernel, devices
<1>2. user' \in [at : UserPcs, arg : Nat, todo : SUBSET Devices] /\ user'.at = "idle"
  BY <1>1 DEF IInv, Typed, UserPcs
<1>3. Typed'
  BY <1>1, <1>2 DEF IInv, Typed, polling
<1>4. ~Pending /\ Pending' /\ ev.at = "idle" /\ ev = Waiting
  BY <1>1 DEF IInv, Handling, Pending
<1>5. Signalled'
  BY <1>1, <1>2, <1>4 DEF IInv, Signalled, Signal
<1>6. Handling' /\ PollSet' /\ Leaving'
  BY <1>1, <1>2, <1>4 DEF Handling, PollSet, Leaving
<1> QED  BY <1>3, <1>5, <1>6 DEF IInv

(* The steps of a thread at work that raise no event.                      *)
LEMMA CallSteps ==
  ASSUME IInv, Find \/ TakeList \/ FreeList \/ Register \/ EnumerateCall PROVE IInv'
<1>1. UNCHANGED <<present, udev, hot, pending, polling, ev>>
  BY DEF Find, TakeList, FreeList, Register, EnumerateCall, kernel, devices
<1>2. user.at \in AtWork
  BY DEF Find, TakeList, FreeList, Register, EnumerateCall, At_, AtWork
<1>3. /\ list' \subseteq Devices
      /\ user' \in [at : UserPcs, arg : Nat, todo : SUBSET Devices]
      /\ user'.at \in AtWork
  <2>1. CASE Find
    BY <2>1 DEF Find, IInv, Typed, UserPcs, AtWork
  <2>2. CASE TakeList
    BY <2>2 DEF TakeList, IInv, Typed, UserPcs, AtWork
  <2>3. CASE FreeList
    BY <2>3 DEF FreeList, IInv, Typed, UserPcs, AtWork, Idle, None
  <2>4. CASE Register
    <3> DEFINE c == Min({k \in Callbacks : cbs[k] = "none"})
    <3>1. list' = list
      BY <2>4 DEF Register
    <3>2. CASE c \in Enumerating
      <4>1. user' = [user EXCEPT !.at = "list", !.arg = c]
        BY <2>4, <3>2 DEF Register
      <4>2. c \in Nat
        BY <3>2, SetsAssumption
      <4> HIDE DEF c
      <4> QED  BY <3>1, <4>1, <4>2 DEF IInv, Typed, UserPcs, AtWork
    <3>3. CASE c \notin Enumerating
      BY <1>2, <2>4, <3>1, <3>3 DEF Register, IInv, Typed
    <3> QED  BY <3>2, <3>3
  <2>5. CASE EnumerateCall
    <3>1. PICK d \in user.todo : user' = [user EXCEPT !.todo = @ \ {d}]
      BY <2>5 DEF EnumerateCall
    <3> QED  BY <1>2, <2>5, <3>1 DEF EnumerateCall, IInv, Typed
  <2> QED  BY <2>1, <2>2, <2>3, <2>4, <2>5
<1>4. Typed'
  BY <1>1, <1>3 DEF IInv, Typed, pending, polling
<1> QED  BY <1>1, <1>2, <1>3, <1>4, Quiet DEF pending, polling

LEMMA OpenFoundStep ==
  ASSUME IInv, OpenFound PROVE IInv'
<1>1. /\ user.at = "open" /\ user' = [user EXCEPT !.at = "free"]
      /\ UNCHANGED <<present, udev, closing, msgs, cbs, fds, list, ev>>
  BY DEF OpenFound, At_, Goto, kernel
<1>2. user' \in [at : UserPcs, arg : Nat, todo : SUBSET Devices] /\ user'.at = "free"
  BY <1>1 DEF IInv, Typed, UserPcs
<1>3. /\ handles' \in [Fds -> OpenDevices] /\ hot' \in Seq(HotEvents)
      /\ \/ UNCHANGED <<handles, flags, pipe>>
         \/ Signal /\ flags' = flags \cup {"pollfds"}
  <2>1. CASE \E d \in list : Open("user", d)
    BY <2>1, OpenFacts DEF IInv, Typed
  <2>2. CASE UNCHANGED <<devices, handles, flags, pipe>>
    BY <2>2 DEF IInv, Typed, devices
  <2> QED  BY <2>1, <2>2 DEF OpenFound
<1>4. Typed'
  BY <1>1, <1>2, <1>3 DEF IInv, Typed
<1>5. CASE UNCHANGED <<handles, flags, pipe>>
  BY <1>1, <1>2, <1>4, <1>5, Quiet DEF AtWork
<1>6. CASE Signal /\ flags' = flags \cup {"pollfds"}
  <2>1. Pending'
    BY <1>6 DEF Pending
  <2>2. closing' = IF user'.at = "closing" THEN 1 ELSE 0
    BY <1>1, <1>2 DEF IInv, Signalled
  <2> QED  BY <1>1, <1>2, <1>4, <1>6, <2>1, <2>2, Raised DEF AtWork
<1> QED  BY <1>3, <1>5, <1>6

LEMMA FlagSteps ==
  ASSUME IInv, Deregister \/ Interrupt PROVE IInv'
<1>1. /\ user.at = "idle" /\ UNCHANGED <<present, udev, hot, closing, msgs, polling, user, list, ev>>
      /\ Signal /\ flags \subseteq flags' /\ flags' # {}
  BY DEF Deregister, Interrupt, At_, SetFlag, kernel, devices
<1>2. Typed'
  BY <1>1 DEF IInv, Typed, polling
<1>3. Pending'
  BY <1>1 DEF Pending
<1>4. closing' = IF user'.at = "closing" THEN 1 ELSE 0
  BY <1>1 DEF IInv, Signalled
<1> QED  BY <1>1, <1>2, <1>3, <1>4, Raised DEF AtWork, polling

(* libusb_close: the count of closes is the event that interrupts.         *)
LEMMA CloseStep ==
  ASSUME IInv, Close PROVE IInv'
<1>1. PICK f \in Fds : user' = [user EXCEPT !.at = "closing", !.arg = f]
  BY DEF Close
<1>2. /\ user.at = "idle" /\ UNCHANGED <<present, udev, hot, flags, msgs, polling, list, ev>>
      /\ Signal /\ closing' = closing + 1
  BY DEF Close, At_, kernel, devices
<1>3. user' \in [at : UserPcs, arg : Nat, todo : SUBSET Devices] /\ user'.at = "closing"
  BY <1>1, SetsAssumption DEF IInv, Typed, UserPcs
<1>4. Typed'
  BY <1>2, <1>3 DEF IInv, Typed, polling
<1>5. closing' = 1
  BY <1>2 DEF IInv, Signalled
<1>6. Pending'
  BY <1>5 DEF Pending
<1> QED  BY <1>2, <1>3, <1>4, <1>5, <1>6, Raised DEF AtWork, polling

LEMMA CloseLockedStep ==
  ASSUME IInv, CloseLocked PROVE IInv'
<1>1. /\ user.at = "closing" /\ ev.at = "idle" /\ DoClose(user.arg) /\ user' = Idle
      /\ closing' = closing - 1 /\ ClearPipe(flags', closing', msgs)
      /\ UNCHANGED <<present, udev, hot, msgs, cbs, fds, list, ev>>
  BY DEF CloseLocked, At_, kernel
<1>2. handles' \in [Fds -> OpenDevices]
  <2>1. handles' = [handles EXCEPT ![user.arg] = Closed]
    BY <1>1 DEF DoClose
  <2> QED  BY <2>1 DEF IInv, Typed, Closed, OpenDevices
<1>3. user' \in [at : UserPcs, arg : Nat, todo : SUBSET Devices] /\ user'.at = "idle"
  BY <1>1 DEF Idle, None, UserPcs
<1>4. Typed'
  BY <1>1, <1>2, <1>3 DEF IInv, Typed
<1>5. closing = 1 /\ closing' = 0 /\ Pending /\ pipe = 1
  BY <1>1 DEF IInv, Signalled, Pending
<1>6. Signalled'
  BY <1>1, <1>3, <1>5 DEF Signalled, ClearPipe, Pending
<1>7. Handling'
  BY <1>1, <1>3 DEF IInv, Handling
<1>8. PollSet'
  <2>1. CASE handles[user.arg].removed
    <3>1. flags' = flags
      BY <1>1, <2>1 DEF DoClose
    <3>2. Polled \subseteq Polled'
      BY <1>1, <2>1 DEF DoClose, Polled, IInv, Typed
    <3> QED  BY <1>1, <3>1, <3>2 DEF IInv, PollSet
  <2>2. CASE ~handles[user.arg].removed
    BY <1>1, <2>2 DEF DoClose, PollSet
  <2> QED  BY <2>1, <2>2
<1>9. Leaving'
  BY <1>3 DEF Leaving
<1> QED  BY <1>4, <1>6, <1>7, <1>8, <1>9 DEF IInv

(* libusb_exit: only once everything is closed and the event thread idle.  *)
LEMMA ExitSteps ==
  ASSUME IInv, Exit \/ ExitDeregister \/ ExitFree PROVE IInv'
<1>1. UNCHANGED <<present, udev, hot, closing, msgs, polling, list, ev>>
  BY DEF Exit, ExitDeregister, ExitFree, kernel, devices, pending
<1>2. PICK pc \in {"exiting", "drain", "done"} : user' = [user EXCEPT !.at = pc]
  BY DEF Exit, ExitDeregister, ExitFree, Goto
<1>3. user' \in [at : UserPcs, arg : Nat, todo : SUBSET Devices] /\ user'.at = pc
  BY <1>2 DEF IInv, Typed, UserPcs
<1>4. Typed'
  BY <1>1, <1>3 DEF IInv, Typed, polling
<1>5. closing = 0
  BY DEF Exit, ExitDeregister, ExitFree, At_, IInv, Signalled
<1>6. CASE Exit
  <2>1. /\ hot = <<>> /\ ev.at = "idle" /\ \A f \in Fds : handles[f] = Closed
        /\ user'.at = "exiting" /\ UNCHANGED <<flags, pipe, cbs>>
    BY <1>3, <1>6 DEF Exit, Goto, pending, IInv, Typed
  <2>2. ev = Waiting
    BY <2>1 DEF IInv, Handling
  <2>3. Signalled' /\ Handling' /\ PollSet'
    BY <1>1, <1>5, <2>1, <2>2 DEF IInv, Signalled, Handling, PollSet, Polled, Pending, polling
  <2>4. Leaving'
    BY <1>1, <2>1, <2>2 DEF Leaving, Waiting, polling
  <2> QED  BY <1>4, <2>3, <2>4 DEF IInv
<1>7. CASE ExitDeregister
  <2>1. /\ user.at = "exiting" /\ user'.at = "drain" /\ UNCHANGED <<flags, pipe>>
        /\ cbs' = Gone({c \in Callbacks : cbs[c] # "none"})
    BY <1>3, <1>7 DEF ExitDeregister, At_, Goto, pending, IInv, Typed
  <2>2. \A c \in Callbacks : cbs'[c] \notin {"listed", "marked"}
    BY <2>1 DEF Gone
  <2>3. ev.at = "idle" /\ ev = Waiting
    BY <2>1 DEF IInv, Handling
  <2>4. Signalled' /\ Handling' /\ PollSet'
    BY <1>1, <1>5, <2>1, <2>3 DEF IInv, Signalled, Handling, PollSet, Polled, Pending, polling
  <2>5. Leaving'
    BY <1>1, <2>1, <2>2, <2>3 DEF IInv, Leaving, polling
  <2> QED  BY <1>4, <2>4, <2>5 DEF IInv
<1>8. CASE ExitFree
  <2>1. /\ user.at = "drained" /\ user'.at = "done" /\ flags' = {} /\ pipe' = 0 /\ cbs' = cbs
    BY <1>3, <1>8 DEF ExitFree, At_, Goto, IInv, Typed
  <2>2. ev.at = "idle" /\ ev = Waiting /\ msgs = <<>>
    BY <2>1 DEF IInv, Handling, Leaving
  <2>3. ~Pending'
    BY <1>1, <1>5, <2>1, <2>2 DEF Pending
  <2>4. Signalled' /\ Handling'
    BY <1>1, <1>5, <2>1, <2>2, <2>3 DEF Signalled, Handling
  <2>5. Leaving'
    BY <1>1, <2>1, <2>2 DEF IInv, Leaving, polling
  <2>6. PollSet'
    BY <1>1, <2>1 DEF IInv, Leaving, PollSet, polling
  <2> QED  BY <1>4, <2>4, <2>5, <2>6 DEF IInv
<1> QED  BY <1>6, <1>7, <1>8

-----------------------------------------------------------------------------
(* The event thread.                                                       *)
EventTypes == [at : EventPcs, errs : SUBSET Fds, batch : Seq(Messages),
               msg : Seq(Messages), todo : SUBSET Callbacks, dereg : BOOLEAN]

LEMMA NotifyStep ==
  ASSUME IInv, Notify, "pipe" \notin Races PROVE IInv'
<1>1. /\ hot # <<>> /\ user.at # "pipe" /\ hot' = <<>>
      /\ UNCHANGED <<present, udev, flags, closing, cbs, handles, fds, user, list, ev>>
  BY DEF Notify, kernel, polling
<1>2. user.at \in Early \cup AtWork \cup {"closing"}
  BY <1>1 DEF IInv, Leaving, Typed, UserPcs, Early, AtWork
<1>3. CASE ListsReady
  <2>1. msgs' = Append(msgs, [event |-> hot[1].event, dev |-> hot[1].dev]) /\ Signal
    BY <1>1, <1>3 DEF Notify, Queued
  <2>2. [event |-> hot[1].event, dev |-> hot[1].dev] \in Messages
    <3>1. hot[1] \in HotEvents
      BY <1>1 DEF IInv, Typed
    <3> QED  BY <3>1 DEF HotEvents, Messages
  <2>3. msgs' \in Seq(Messages) /\ msgs' # <<>>
    <3> DEFINE m == [event |-> hot[1].event, dev |-> hot[1].dev]
    <3> HIDE DEF m
    <3>1. m \in Messages /\ msgs \in Seq(Messages) /\ msgs' = Append(msgs, m)
      BY <2>1, <2>2 DEF IInv, Typed, m
    <3> QED  BY <3>1
  <2>4. Typed'
    BY <1>1, <2>3 DEF IInv, Typed
  <2>5. Pending' /\ closing' = IF user'.at = "closing" THEN 1 ELSE 0
    BY <1>1, <2>3 DEF IInv, Signalled, Pending
  <2>6. user.at \in AtWork \cup {"closing"}
    BY <1>1, <1>2, <1>3 DEF ListsReady, Early
  <2> QED  BY <1>1, <2>1, <2>4, <2>5, <2>6, Raised
<1>4. CASE ~ListsReady
  <2>1. UNCHANGED <<msgs, pipe>>
    BY <1>4 DEF Notify
  <2>2. Typed'
    BY <1>1, <2>1 DEF IInv, Typed
  <2> QED  BY <1>1, <1>2, <2>1, <2>2, Quiet
<1> QED  BY <1>3, <1>4

LEMMA EventBeginStep ==
  ASSUME IInv, EventBegin PROVE IInv'
<1>1. /\ ev.at = "idle" /\ closing = 0 /\ ev' = [ev EXCEPT !.at = "poll"]
      /\ user.at \in AtWork \cup {"drain"}
      /\ flags' = flags \ {"pollfds"}
      /\ IF "pollfds" \in flags THEN fds' = Polled /\ ClearPipe(flags', closing, msgs)
         ELSE UNCHANGED <<fds, pipe>>
      /\ UNCHANGED <<present, udev, hot, closing, msgs, cbs, handles, user, list>>
  BY DEF EventBegin, MayHandle, AtWork, kernel, devices
<1>2. ev = Waiting /\ ev' \in EventTypes /\ ev'.at = "poll" /\ ev'.errs = {} /\ ev'.todo = {}
  BY <1>1 DEF IInv, Handling, Typed, EventTypes, EventPcs, Waiting
<1>3. fds' \subseteq Polled /\ Polled' = Polled /\ Polled \subseteq Fds
  BY <1>1 DEF IInv, PollSet, Polled
<1>4. Typed'
  BY <1>1, <1>2, <1>3 DEF IInv, Typed, EventTypes
<1>5. Signalled'
  <2>1. CASE "pollfds" \in flags
    <3>1. Pending /\ ClearPipe(flags', closing', msgs')
      BY <1>1, <2>1 DEF Pending
    <3> QED  BY <1>1, <3>1 DEF IInv, Signalled, ClearPipe, Pending
  <2>2. CASE "pollfds" \notin flags
    BY <1>1, <2>2 DEF IInv, Signalled, Pending
  <2> QED  BY <2>1, <2>2
<1>6. Handling' /\ PollSet'
  BY <1>1, <1>2, <1>3 DEF Handling, PollSet, AtWork
<1>7. Leaving'
  <2>1. user.at = "drain" => Polled = {}
    BY DEF IInv, Leaving, Polled
  <2> QED  BY <1>1, <1>2, <1>3, <2>1 DEF IInv, Leaving, AtWork
<1> QED  BY <1>4, <1>5, <1>6, <1>7 DEF IInv

LEMMA EventPipeStep ==
  ASSUME IInv, EventPipe PROVE IInv'
<1>1. /\ ev.at = "pipe"
      /\ ev' = [ev EXCEPT !.at = "hotplug", !.batch = msgs, !.dereg = "dereg" \in flags]
      /\ msgs' = <<>> /\ flags' = flags \ {"interrupt", "dereg"}
      /\ ClearPipe(flags', closing, <<>>)
      /\ UNCHANGED <<present, udev, hot, closing, cbs, polling, user, list>>
  BY DEF EventPipe, kernel, devices
<1>2. /\ ev' \in EventTypes /\ ev'.at = "hotplug" /\ ev'.errs = ev.errs /\ ev'.todo = ev.todo
  <2> DEFINE dereg == "dereg" \in flags
  <2>1. dereg \in BOOLEAN /\ ev' = [ev EXCEPT !.at = "hotplug", !.batch = msgs, !.dereg = dereg]
    BY <1>1
  <2> HIDE DEF dereg
  <2>2. ev \in EventTypes /\ msgs \in Seq(Messages)
    BY DEF IInv, Typed, EventTypes
  <2> QED  BY <2>1, <2>2 DEF EventTypes, EventPcs
<1>3. Typed'
  <2>1. msgs' \in Seq(Messages)
    BY <1>1
  <2> QED  BY <1>1, <1>2, <2>1 DEF IInv, Typed, EventTypes, polling
<1>4. Pending /\ closing \in {0, 1}
  BY <1>1 DEF IInv, Handling, Signalled
<1>5. Signalled'
  BY <1>1, <1>4 DEF IInv, Signalled, ClearPipe, Pending
<1>6. Handling' /\ PollSet'
  BY <1>1, <1>2 DEF IInv, Handling, PollSet, Polled, polling
<1>7. Leaving'
  BY <1>1, <1>2 DEF IInv, Leaving, Handling, polling
<1> QED  BY <1>3, <1>5, <1>6, <1>7 DEF IInv

(* The steps of the event thread that change no pending event.             *)
LEMMA EventMoves ==
  ASSUME IInv, EventPoll \/ EventDeregister \/ TakeMessage \/ EndMessage \/ EndMessages
  PROVE  IInv'
<1>1. UNCHANGED <<present, udev, pending, handles, fds, user, list>>
      /\ UNCHANGED hot /\ ev.at \notin {"idle", "pipe"}
  BY DEF EventPoll, EventDeregister, TakeMessage, EndMessage, EndMessages, kernel, devices, polling
<1>2. /\ ev' \in EventTypes /\ ev'.at # "idle"
      /\ ev'.at = "pipe" => pipe > 0
      /\ ev'.errs \subseteq ev.errs \/ (ev.at = "poll" /\ ev'.errs \subseteq fds)
      /\ ev'.todo \subseteq ev.todo \cup {c \in Callbacks : cbs[c] \in {"listed", "marked"}}
      /\ ev'.at = "usbfs" => ev.at = "hotplug" \/ (pipe = 0 /\ \E f \in fds : TRUE)
      /\ ev'.at = "hotplug" => ev.at = "hotplug"
  <2>1. CASE EventPoll
    <3>1. /\ ev.at = "poll" /\ (pipe > 0 \/ Errors # {})
          /\ ev' = [ev EXCEPT !.at = IF pipe > 0 THEN "pipe" ELSE "usbfs", !.errs = Errors]
      BY <2>1 DEF EventPoll
    <3>2. Errors \subseteq fds /\ fds \subseteq Fds
      BY DEF Errors, IInv, Typed
    <3>3. pipe \in {0, 1}
      BY DEF IInv, Signalled
    <3> DEFINE pc == IF pipe > 0 THEN "pipe" ELSE "usbfs"
    <3>4. pc \in EventPcs /\ ev' = [ev EXCEPT !.at = pc, !.errs = Errors]
      BY <3>1 DEF EventPcs
    <3> HIDE DEF pc
    <3>5. ev' \in EventTypes /\ ev'.at = pc /\ ev'.errs = Errors /\ ev'.todo = ev.todo
      BY <3>2, <3>4 DEF IInv, Typed, EventTypes
    <3> QED  BY <3>1, <3>2, <3>3, <3>5 DEF pc
  <2>2. CASE EventDeregister
    BY <2>2 DEF EventDeregister, IInv, Typed, EventTypes, EventPcs
  <2>3. CASE TakeMessage
    <3> DEFINE first == <<Head(ev.batch)>>
               rest == Tail(ev.batch)
               todo == {c \in Callbacks : cbs[c] \in {"listed", "marked"}}
    <3>1. ev.at = "hotplug" /\ ev.batch # <<>>
          /\ ev' = [ev EXCEPT !.msg = first, !.batch = rest, !.todo = todo]
      BY <2>3 DEF TakeMessage
    <3>2. ev \in EventTypes /\ ev.batch \in Seq(Messages)
      BY DEF IInv, Typed, EventTypes
    <3>3. first \in Seq(Messages) /\ rest \in Seq(Messages) /\ todo \subseteq Callbacks
      BY <3>1, <3>2
    <3> HIDE DEF first, rest
    <3>4. /\ ev' \in EventTypes /\ ev'.at = "hotplug" /\ ev'.errs = ev.errs
          /\ ev'.todo = todo
      BY <3>1, <3>2, <3>3 DEF EventTypes
    <3> QED  BY <3>1, <3>4
  <2>4. CASE EndMessage
    <3>1. ev.at = "hotplug" /\ ev' = [ev EXCEPT !.msg = <<>>]
      BY <2>4 DEF EndMessage
    <3>2. ev \in EventTypes /\ <<>> \in Seq(Messages)
      BY DEF IInv, Typed, EventTypes
    <3>3. ev' \in EventTypes /\ ev'.at = "hotplug" /\ ev'.errs = ev.errs /\ ev'.todo = ev.todo
      BY <3>1, <3>2 DEF EventTypes
    <3> QED  BY <3>1, <3>3
  <2>5. CASE EndMessages
    BY <2>5 DEF EndMessages, IInv, Typed, EventTypes, EventPcs
  <2> QED  BY <2>1, <2>2, <2>3, <2>4, <2>5
<1>3. cbs' = cbs \/ \A c \in Callbacks : cbs'[c] = cbs[c] \/ cbs'[c] = "freed"
  BY DEF EventPoll, EventDeregister, TakeMessage, EndMessage, EndMessages, Gone
<1>4. Typed'
  BY <1>1, <1>2 DEF IInv, Typed, EventTypes, pending
<1>5. Signalled'
  BY <1>1 DEF IInv, Signalled, Pending, pending
<1>6. Handling' /\ PollSet'
  BY <1>1, <1>2 DEF IInv, Handling, Signalled, PollSet, Polled, Pending, pending
<1>7. Leaving'
  <2>1. user.at \notin {"exiting", "drained", "done"}
    BY <1>1 DEF IInv, Handling
  <2>2. CASE user.at = "drain"
    <3>1. /\ fds = {} /\ ev.errs = {} /\ ev.todo = {} /\ hot = <<>>
          /\ \A c \in Callbacks : cbs[c] \notin {"listed", "marked"}
          /\ \A f \in Fds : handles[f] = Closed
          /\ ev.at = "hotplug" => msgs = <<>>
      BY <1>1, <2>2 DEF IInv, Leaving
    <3>2. ev'.errs = {} /\ ev'.todo = {}
      BY <1>2, <3>1
    <3>3. ev'.at \in {"hotplug", "usbfs"} => msgs' = <<>>
      BY <1>1, <1>2, <3>1 DEF pending
    <3>4. \A c \in Callbacks : cbs'[c] \notin {"listed", "marked"}
      BY <1>3, <3>1
    <3> QED  BY <1>1, <2>2, <3>1, <3>2, <3>3, <3>4 DEF Leaving
  <2>3. CASE user.at # "drain"
    BY <1>1, <2>1, <2>3 DEF Leaving
  <2> QED  BY <2>2, <2>3
<1> QED  BY <1>4, <1>5, <1>6, <1>7 DEF IInv

(* A hotplug callback, which may open or close a device.                   *)
LEMMA CallBackStep ==
  ASSUME IInv, CallBack PROVE IInv'
<1> DEFINE m == ev.msg[1]
           rest == ev.todo \ {Max(ev.todo)}
<1>1. /\ ev.at = "hotplug" /\ ev.msg # <<>> /\ ev.todo # {}
      /\ ev' = [ev EXCEPT !.todo = rest]
      /\ UNCHANGED <<present, udev, closing, msgs, fds, user, list>>
      /\ UNCHANGED <<hot, handles, flags, pipe>> \/ InCallback(m)
  BY DEF CallBack, kernel, devices
<1>2. user.at \in AtWork \cup {"closing"}
  <2>1. user.at \notin {"none", "started", "scanned", "pipe", "exiting", "drained", "done", "drain"}
    BY <1>1 DEF IInv, Handling, Leaving
  <2> QED  BY <2>1 DEF IInv, Typed, UserPcs, AtWork
<1>3. m \in Messages
  BY <1>1 DEF IInv, Typed
<1>4. ev' \in EventTypes /\ ev'.at = "hotplug"
  <2>1. rest \subseteq Callbacks /\ ev \in EventTypes
    BY DEF IInv, Typed, EventTypes
  <2> HIDE DEF rest
  <2> QED  BY <1>1, <2>1 DEF EventTypes
<1> HIDE DEF m, rest
<1>5. /\ handles' \in [Fds -> OpenDevices] /\ hot' \in Seq(HotEvents)
      /\ \/ UNCHANGED <<flags, pipe>> /\ Polled' = Polled
         \/ Signal /\ flags' = flags \cup {"pollfds"}
  <2>1. CASE UNCHANGED <<hot, handles, flags, pipe>>
    BY <2>1 DEF IInv, Typed, Polled
  <2>2. CASE Open("events", m.dev)
    <3>1. m.dev \in Devices
      BY <1>3 DEF Messages
    <3> QED  BY <2>2, <3>1, OpenFacts DEF Polled
  <2>3. ASSUME NEW f \in Fds, DoClose(f), UNCHANGED hot,
               IF handles[f].removed THEN UNCHANGED pipe ELSE Signal
        PROVE  /\ handles' \in [Fds -> OpenDevices] /\ hot' \in Seq(HotEvents)
               /\ \/ UNCHANGED <<flags, pipe>> /\ Polled' = Polled
                  \/ Signal /\ flags' = flags \cup {"pollfds"}
    BY <2>3, CloseFacts DEF IInv, Typed
  <2> QED  BY <1>1, <2>1, <2>2, <2>3 DEF InCallback, devices
<1>6. Typed'
  BY <1>1, <1>4, <1>5 DEF IInv, Typed, EventTypes
<1>7. CASE UNCHANGED <<flags, pipe>> /\ Polled' = Polled
  BY <1>1, <1>2, <1>4, <1>6, <1>7, Quiet
<1>8. CASE Signal /\ flags' = flags \cup {"pollfds"}
  <2>1. Pending' /\ closing' = IF user'.at = "closing" THEN 1 ELSE 0
    BY <1>1, <1>8 DEF IInv, Signalled, Pending
  <2> QED  BY <1>1, <1>2, <1>4, <1>6, <1>8, <2>1, Raised
<1> QED  BY <1>5, <1>7, <1>8

LEMMA UsbfsErrorStep ==
  ASSUME IInv, UsbfsError PROVE IInv'
<1>1. PICK f \in ev.errs :
        /\ ev' = [ev EXCEPT !.errs = @ \ {f}]
        /\ IF Stale(f) \/ handles[f] = Closed
           THEN UNCHANGED <<devices, handles, removed, flags, pipe>>
           ELSE /\ handles' = [handles EXCEPT ![f].removed = TRUE]
                /\ SetFlag("pollfds")
                /\ IF Attached(handles[f].dev)
                   THEN Disconnect("events", Plugs[handles[f].dev])
                   ELSE UNCHANGED devices
  BY DEF UsbfsError
<1>2. ev.at = "usbfs" /\ UNCHANGED <<present, udev, closing, msgs, cbs, fds, user, list>>
  BY DEF UsbfsError, kernel
<1>3. user.at \in AtWork \cup {"closing"}
  <2>1. user.at \notin {"none", "started", "scanned", "pipe", "exiting", "drained", "done", "drain"}
    BY <1>1, <1>2 DEF IInv, Handling, Leaving
  <2> QED  BY <2>1 DEF IInv, Typed, UserPcs, AtWork
<1>4. ev' \in EventTypes /\ ev'.at = "usbfs"
  BY <1>1, <1>2 DEF IInv, Typed, EventTypes
<1>5. CASE Stale(f) \/ handles[f] = Closed
  <2>1. UNCHANGED <<devices, handles, removed, flags, pipe>>
    BY <1>1, <1>5
  <2>2. Typed'
    BY <1>2, <1>4, <2>1 DEF IInv, Typed, EventTypes, devices
  <2>3. Polled' = Polled
    BY <2>1 DEF Polled
  <2> QED  BY <1>2, <1>3, <1>4, <2>1, <2>2, <2>3, Quiet
<1>6. CASE ~(Stale(f) \/ handles[f] = Closed)
  <2>1. /\ handles' = [handles EXCEPT ![f].removed = TRUE]
        /\ flags' = flags \cup {"pollfds"} /\ Signal
        /\ IF Attached(handles[f].dev) THEN Disconnect("events", Plugs[handles[f].dev])
           ELSE UNCHANGED devices
    BY <1>1, <1>6 DEF SetFlag
  <2>2. handles' \in [Fds -> OpenDevices]
    <3>1. handles[f] \in OpenDevices /\ handles \in [Fds -> OpenDevices]
      BY DEF IInv, Typed
    <3>2. [handles[f] EXCEPT !.removed = TRUE] \in OpenDevices
      BY <3>1 DEF OpenDevices
    <3> QED  BY <2>1, <3>1, <3>2
  <2>3. hot' \in Seq(HotEvents)
    <3>1. CASE Attached(handles[f].dev)
      <4>1. PICK d \in Devices : hot' = <<[by |-> "events", event |-> "left", dev |-> d]>>
        BY <2>1, <3>1 DEF Disconnect, At
      <4>2. [by |-> "events", event |-> "left", dev |-> d] \in HotEvents
        BY DEF HotEvents, Kinds
      <4> QED  BY <4>1, <4>2
    <3>2. CASE ~Attached(handles[f].dev)
      BY <2>1, <3>2 DEF IInv, Typed, devices
    <3> QED  BY <3>1, <3>2
  <2>4. Typed'
    BY <1>2, <1>4, <2>2, <2>3 DEF IInv, Typed, EventTypes
  <2>5. Pending' /\ closing' = IF user'.at = "closing" THEN 1 ELSE 0
    BY <1>2, <2>1 DEF IInv, Signalled, Pending
  <2> QED  BY <1>2, <1>3, <1>4, <2>1, <2>4, <2>5, Raised
<1> QED  BY <1>5, <1>6

LEMMA EventEndStep ==
  ASSUME IInv, EventEnd PROVE IInv'
<1>1. /\ ev.at = "usbfs" \/ (ev.at = "poll" /\ user.at = "drain" /\ pipe = 0)
      /\ ev' = Waiting /\ UNCHANGED <<present, udev, hot, pending, cbs, polling, list>>
      /\ user' = IF user.at = "drain" THEN [user EXCEPT !.at = "drained"] ELSE user
  BY DEF EventEnd, Goto, kernel, devices
<1>2. ev'.at = "idle" /\ ev'.errs = {} /\ ev'.todo = {} /\ ev' \in EventTypes
  BY <1>1 DEF Waiting, EventTypes, EventPcs
<1>3. /\ user' \in [at : UserPcs, arg : Nat, todo : SUBSET Devices]
      /\ user'.at = IF user.at = "drain" THEN "drained" ELSE user.at
  BY <1>1 DEF IInv, Typed, UserPcs
<1>4. Typed'
  BY <1>1, <1>2, <1>3 DEF IInv, Typed, EventTypes, pending, polling
<1>5. Signalled'
  BY <1>1, <1>3 DEF IInv, Signalled, Pending, pending
<1>6. Handling' /\ PollSet'
  BY <1>1, <1>2, <1>3 DEF IInv, Handling, PollSet, Polled, Pending, pending, polling
<1>7. Leaving'
  <2>1. user.at = "drain" => msgs = <<>> /\ fds = {}
    BY <1>1 DEF IInv, Leaving, Signalled, Pending
  <2> QED  BY <1>1, <1>2, <1>3, <2>1 DEF IInv, Leaving, pending, polling
<1> QED  BY <1>4, <1>5, <1>6, <1>7 DEF IInv

-----------------------------------------------------------------------------
LEMMA NextIInv ==
  ASSUME "pipe" \notin Races, IInv, [Next]_vars PROVE IInv'
<1>1. CASE UNCHANGED vars
  BY <1>1 DEF vars, kernel, devices, pending, polling, IInv, Typed, Signalled, Handling,
     PollSet, Leaving, Polled, Pending
<1>2. CASE Plug \/ Unplug \/ Monitor \/ Notify
  BY <1>2, PlugSteps, HotplugEventStep, NotifyStep
<1>3. CASE Events
  BY <1>3, EventBeginStep, EventMoves, EventPipeStep, CallBackStep, UsbfsErrorStep, EventEndStep
     DEF Events
<1>4. CASE User
  BY <1>4, InitSteps, IoInitStep, ExitSteps, CallSteps, HotplugEventStep, OpenFoundStep,
     CloseStep, CloseLockedStep, FlagSteps DEF User
<1> QED  BY <1>1, <1>2, <1>3, <1>4 DEF Next, Done

LEMMA InductiveInvariant ==
  ASSUME "pipe" \notin Races PROVE Spec => []IInv
BY InitIInv, NextIInv, PTL DEF Spec

(* The event pipe holds one byte when an event is pending and none when    *)
(* none is, from libusb_init to libusb_exit.                               *)
THEOREM OneByteIfPending ==
  ASSUME "pipe" \notin Races PROVE Spec => []PipeSignalled
<1>1. IInv => PipeSignalled
  BY DEF IInv, Signalled, PipeSignalled
<1> QED  BY <1>1, InductiveInvariant, PTL

(* libusb_exit waits for everything under way: when it has returned, no    *)
(* hotplug message is left that nobody handles, no hotplug event and no    *)
(* libusb_close is under way, and no descriptor is in the poll set.        *)
THEOREM ExitLeavesNothing ==
  ASSUME "pipe" \notin Races
  PROVE  Spec => [](user.at = "done" =>
                       msgs = <<>> /\ hot = <<>> /\ closing = 0 /\ fds = {} /\ ev = Waiting)
<1>1. IInv => (user.at = "done" =>
                  msgs = <<>> /\ hot = <<>> /\ closing = 0 /\ fds = {} /\ ev = Waiting)
  BY DEF IInv, Signalled, Handling, Leaving
<1> QED  BY <1>1, InductiveInvariant, PTL

-----------------------------------------------------------------------------
(* How often x is in a sequence.                                           *)
Count(s, x) == Cardinality({i \in DOMAIN s : s[i] = x})

LEMMA CountFacts ==
  ASSUME NEW S, NEW s \in Seq(S), NEW x
  PROVE  /\ Count(s, x) \in Nat
         /\ Count(s, x) = 0 <=> \A i \in DOMAIN s : s[i] # x
         /\ IsFiniteSet({i \in DOMAIN s : s[i] = x})
<1> DEFINE I == {i \in DOMAIN s : s[i] = x}
<1>1. Len(s) \in Nat /\ DOMAIN s = 1 .. Len(s) /\ I \in SUBSET (1 .. Len(s))
  BY LenProperties
<1>2. IsFiniteSet(1 .. Len(s))
  BY <1>1, FS_Interval
<1>3. IsFiniteSet(I)
  BY <1>1, <1>2, FS_Subset
<1>4. Cardinality(I) \in Nat /\ (Cardinality(I) = 0 <=> I = {})
  BY <1>3, FS_CardinalityType, FS_EmptySet
<1> QED  BY <1>3, <1>4 DEF Count

LEMMA CountConcat ==
  ASSUME NEW S, NEW s \in Seq(S), NEW t \in Seq(S), NEW x
  PROVE  Count(s \o t, x) = Count(s, x) + Count(t, x)
<1> DEFINE n == Len(s)
           A == {i \in DOMAIN s : s[i] = x}
           B == {i \in DOMAIN t : t[i] = x}
           C == {i \in DOMAIN (s \o t) : (s \o t)[i] = x}
           B1 == {i \in C : i > n}
           f == [i \in B |-> i + n]
<1>1. /\ n \in Nat /\ Len(t) \in Nat /\ DOMAIN s = 1 .. n /\ DOMAIN t = 1 .. Len(t)
  BY LenProperties
<1>2. /\ DOMAIN (s \o t) = 1 .. n + Len(t)
      /\ \A i \in 1 .. n : (s \o t)[i] = s[i]
      /\ \A i \in 1 .. Len(t) : (s \o t)[i + n] = t[i]
  <2>1. /\ s \o t \in Seq(S) /\ Len(s \o t) = n + Len(t)
        /\ \A i \in 1 .. n + Len(t) : (s \o t)[i] = IF i <= n THEN s[i] ELSE t[i - n]
    BY ConcatProperties
  <2>2. DOMAIN (s \o t) = 1 .. n + Len(t)
    BY <2>1, LenProperties
  <2> QED  BY <1>1, <2>1, <2>2
<1> HIDE DEF n
<1>3. C = A \cup B1 /\ A \cap B1 = {}
  BY <1>1, <1>2
<1>4. f \in Bijection(B, B1)
  <2>1. f \in [B -> B1] /\ \A i, j \in B : f[i] = f[j] => i = j
    BY <1>1, <1>2
  <2>2. ASSUME NEW k \in B1 PROVE \E i \in B : f[i] = k
    <3>1. k - n \in B /\ (k - n) + n = k
      BY <1>1, <1>2
    <3> QED  BY <3>1
  <2> QED  BY <2>1, <2>2 DEF Bijection, Injection, Surjection, IsInjective
<1> HIDE DEF A, B, C, B1, f
<1>5. IsFiniteSet(A) /\ IsFiniteSet(B)
  BY CountFacts DEF A, B
<1>6. IsFiniteSet(B1) /\ Cardinality(B1) = Cardinality(B)
  BY <1>4, <1>5, FS_Bijection DEF ExistsBijection
<1>7. Cardinality(A \cup B1) = Cardinality(A) + Cardinality(B1)
  <2>1. Cardinality(A \cup B1) = Cardinality(A) + Cardinality(B1) - Cardinality(A \cap B1)
    BY <1>5, <1>6, FS_Union
  <2>2. Cardinality(A) \in Nat /\ Cardinality(B1) \in Nat /\ Cardinality(A \cap B1) = 0
    BY <1>3, <1>5, <1>6, FS_CardinalityType, FS_EmptySet
  <2> QED  BY <2>1, <2>2
<1> QED  BY <1>3, <1>6, <1>7 DEF Count, A, B, C

LEMMA CountOne ==
  ASSUME NEW x, NEW y
  PROVE  Count(<<y>>, x) = (IF y = x THEN 1 ELSE 0) /\ Count(<<>>, x) = 0
<1>1. {i \in DOMAIN <<y>> : <<y>>[i] = x} = IF y = x THEN {1} ELSE {}
  OBVIOUS
<1>2. {i \in DOMAIN <<>> : <<>>[i] = x} = {}
  OBVIOUS
<1> QED  BY <1>1, <1>2, FS_EmptySet, FS_Singleton DEF Count

LEMMA LowestIsClosed ==
  ASSUME \E f \in Fds : handles[f] = Closed
  PROVE  Lowest \in Fds /\ handles[Lowest] = Closed
<1> DEFINE T == {f \in Fds : handles[f] = Closed}
           R == {p \in Nat \X Nat : p[1] < p[2]}
<1>1. T \subseteq Nat /\ T # {}
  BY SetsAssumption
<1>2. IsWellFoundedOn(R, Nat)
  BY NatLessThanWellFounded DEF OpToRel
<1> HIDE DEF T, R
<1>3. PICK f \in T : \A g \in T : ~(<<g, f>> \in R)
  BY <1>1, <1>2, WFMin
<1>4. \A g \in T : f <= g
  <2>1. ASSUME NEW g \in T, g < f PROVE FALSE
    <3>1. <<g, f>> \in R
      BY <1>1, <2>1 DEF R
    <3> QED  BY <1>3, <3>1
  <2> QED  BY <1>1, <2>1
<1>5. Min(T) \in T
  BY <1>4 DEF Min
<1> QED  BY <1>5 DEF Lowest, T
-----------------------------------------------------------------------------
Arrived(d) == [event |-> "arrived", dev |-> d]
Left(d) == [event |-> "left", dev |-> d]
States == {"none", "attached", "left", "freed"}
(* The descriptors that are open on d, and the references that devices ds, *)
(* messages C, a message under way (G), a list L and handles H make up.    *)
OpenOf(H, d) == {f \in Fds : H[f].dev = d}

Held(d, ds, C, G, L, H) ==
    (IF ds[d] = "attached" THEN 1 ELSE 0) + Count(C, Left(d)) + (IF d \in G THEN 1 ELSE 0) + (IF d \in L THEN 1 ELSE 0)
    + Cardinality(OpenOf(H, d))

(* Nobody knows a device that has not been found.                          *)
Fresh(ds, C, L, H) ==
    \A d \in Devices : ds[d] = "none" =>
        d \notin L /\ OpenOf(H, d) = {} /\ \A i \in DOMAIN C : C[i].dev # d

(* No arrival is told after the departure, and an arrival of one that has  *)
(* left is followed by its departure.                                      *)
Story(ds, C) ==
    \A i \in DOMAIN C :
        /\ C[i].event = "left" =>
              /\ ds[C[i].dev] = "left"
              /\ \A j \in DOMAIN C : i < j => C[j] # Arrived(C[i].dev)
        /\ C[i].event = "arrived" =>
              /\ ds[C[i].dev] \in {"attached", "left"}
              /\ ds[C[i].dev] = "left" => \E j \in DOMAIN C : i < j /\ C[j] = Left(C[i].dev)

(* The counts rs are the references; what is told is what happened.        *)
Sound(ds, rs, C, G, L, H) ==
    /\ ds \in [Devices -> States] /\ rs \in [Devices -> Nat] /\ C \in Seq(Messages)
    /\ \A d \in Devices : IsFiniteSet(OpenOf(H, d)) /\ rs[d] = Held(d, ds, C, G, L, H)
    /\ Fresh(ds, C, L, H)
    /\ Story(ds, C)

LEMMA MessageFacts ==
  ASSUME NEW C \in Seq(Messages), NEW i \in DOMAIN C
  PROVE  /\ C[i].dev \in Devices /\ C[i].event \in Kinds
         /\ C[i].event = "arrived" => C[i] = Arrived(C[i].dev)
         /\ C[i].event = "left" => C[i] = Left(C[i].dev)
<1>1. C[i] \in Messages
  BY LenProperties
<1>2. ASSUME NEW m \in Messages
      PROVE  m.dev \in Devices /\ m.event \in Kinds /\ m = [event |-> m.event, dev |-> m.dev]
  BY DEF Messages
<1> QED  BY <1>1, <1>2 DEF Arrived, Left

LEMMA SoundFreed ==
  ASSUME NEW ds, NEW rs, NEW C, NEW G, NEW L, NEW H, Sound(ds, rs, C, G, L, H)
  PROVE  Sound(Freed(rs, ds), rs, C, G, L, H)
<1> DEFINE es == Freed(rs, ds)
<1>1. /\ ds \in [Devices -> States] /\ rs \in [Devices -> Nat] /\ C \in Seq(Messages)
      /\ \A d \in Devices : IsFiniteSet(OpenOf(H, d)) /\ rs[d] = Held(d, ds, C, G, L, H)
      /\ Fresh(ds, C, L, H) /\ Story(ds, C)
  BY DEF Sound
<1>2. /\ es \in [Devices -> States]
      /\ \A d \in Devices : es[d] = IF rs[d] = 0 /\ ds[d] = "left" THEN "freed" ELSE ds[d]
  BY <1>1 DEF Freed, States
<1> HIDE DEF es
<1>3. \A d \in Devices : Held(d, es, C, G, L, H) = Held(d, ds, C, G, L, H)
  BY <1>2 DEF Held
<1>4. \A d \in Devices, i \in DOMAIN C : C[i] = Left(d) => rs[d] # 0
  <2>1. TAKE d \in Devices, i \in DOMAIN C
  <2>2. HAVE C[i] = Left(d)
  <2>3. Count(C, Left(d)) \in Nat /\ Count(C, Left(d)) # 0
    BY <1>1, <2>2, CountFacts
  <2>4. Cardinality(OpenOf(H, d)) \in Nat
    BY <1>1, FS_CardinalityType
  <2>5. rs[d] = (IF ds[d] = "attached" THEN 1 ELSE 0) + Count(C, Left(d)) + (IF d \in G THEN 1 ELSE 0) + (IF d \in L THEN 1 ELSE 0)
               + Cardinality(OpenOf(H, d))
    BY <1>1 DEF Held
  <2>6. (IF ds[d] = "attached" THEN 1 ELSE 0) \in {0, 1} /\ (IF d \in G THEN 1 ELSE 0) \in {0, 1} /\ (IF d \in L THEN 1 ELSE 0) \in {0, 1}
    OBVIOUS
  <2> QED  BY <2>3, <2>4, <2>5, <2>6
<1>5. \A i \in DOMAIN C : C[i].dev \in Devices /\ (C[i].event = "left" => C[i] = Left(C[i].dev))
  BY <1>1, MessageFacts
<1>6. Fresh(es, C, L, H)
  BY <1>1, <1>2 DEF Fresh
<1>7. Story(es, C)
  <2>1. SUFFICES ASSUME NEW i \in DOMAIN C
        PROVE  /\ C[i].event = "left" =>
                     /\ es[C[i].dev] = "left"
                     /\ \A j \in DOMAIN C : i < j => C[j] # Arrived(C[i].dev)
               /\ C[i].event = "arrived" =>
                     /\ es[C[i].dev] \in {"attached", "left"}
                     /\ es[C[i].dev] = "left" => \E j \in DOMAIN C : i < j /\ C[j] = Left(C[i].dev)
    BY DEF Story
  <2>2. CASE C[i].event = "left"
    <3>1. C[i] = Left(C[i].dev)
      BY <1>5, <2>2
    <3>2. rs[C[i].dev] # 0
      BY <1>4, <1>5, <3>1
    <3> QED  BY <1>1, <1>2, <1>5, <2>2, <3>2 DEF Story
  <2>3. CASE C[i].event = "arrived"
    <3>1. ds[C[i].dev] = "left" => \E j \in DOMAIN C : i < j /\ C[j] = Left(C[i].dev)
      BY <1>1, <2>3 DEF Story
    <3>2. ds[C[i].dev] = "left" => rs[C[i].dev] # 0
      BY <1>4, <1>5, <3>1
    <3> QED  BY <1>1, <1>2, <1>5, <2>3, <3>1, <3>2 DEF Story
  <2> QED  BY <2>2, <2>3
<1> QED  BY <1>1, <1>2, <1>3, <1>6, <1>7 DEF Sound, es

LEMMA HeldNat ==
  ASSUME NEW d \in Devices, NEW ds, NEW C \in Seq(Messages), NEW G, NEW L, NEW H,
         IsFiniteSet(OpenOf(H, d))
  PROVE  Held(d, ds, C, G, L, H) \in Nat
<1>1. Count(C, Left(d)) \in Nat /\ Cardinality(OpenOf(H, d)) \in Nat
  BY CountFacts, FS_CardinalityType
<1>2. (IF ds[d] = "attached" THEN 1 ELSE 0) \in {0, 1} /\ (IF d \in G THEN 1 ELSE 0) \in {0, 1} /\ (IF d \in L THEN 1 ELSE 0) \in {0, 1}
  OBVIOUS
<1> QED  BY <1>1, <1>2 DEF Held

LEMMA AppendFacts ==
  ASSUME NEW C \in Seq(Messages), NEW m \in Messages
  PROVE  /\ Append(C, m) \in Seq(Messages) /\ Len(C) \in Nat
         /\ DOMAIN C = 1 .. Len(C) /\ DOMAIN Append(C, m) = 1 .. Len(C) + 1
         /\ \A i \in 1 .. Len(C) : Append(C, m)[i] = C[i]
         /\ Append(C, m)[Len(C) + 1] = m
         /\ \A x : Count(Append(C, m), x) = Count(C, x) + (IF m = x THEN 1 ELSE 0) /\ Count(C, x) \in Nat
<1>1. Append(C, m) = C \o <<m>> /\ <<m>> \in Seq(Messages)
  BY AppendIsConcat
<1>2. \A x : Count(Append(C, m), x) = Count(C, x) + (IF m = x THEN 1 ELSE 0) /\ Count(C, x) \in Nat
  <2>1. TAKE x
  <2>2. Count(C \o <<m>>, x) = Count(C, x) + Count(<<m>>, x)
    BY <1>1, CountConcat
  <2> QED  BY <1>1, <2>2, CountOne, CountFacts
<1> QED  BY <1>2, AppendProperties, LenProperties

(* usbi_connect_device: the list's reference, and the message.             *)
LEMMA SoundArrival ==
  ASSUME NEW ds, NEW rs, NEW C, NEW L, NEW H, Sound(ds, rs, C, {}, L, H),
         NEW d \in Devices, ds[d] = "none"
  PROVE  Sound([ds EXCEPT ![d] = "attached"], [rs EXCEPT ![d] = 1], Append(C, Arrived(d)), {}, L, H)
<1> DEFINE es == [ds EXCEPT ![d] = "attached"]
           qs == [rs EXCEPT ![d] = 1]
           D == Append(C, Arrived(d))
<1>1. /\ ds \in [Devices -> States] /\ rs \in [Devices -> Nat] /\ C \in Seq(Messages)
      /\ \A e \in Devices : IsFiniteSet(OpenOf(H, e)) /\ rs[e] = Held(e, ds, C, {}, L, H)
      /\ Fresh(ds, C, L, H) /\ Story(ds, C)
  BY DEF Sound
<1>2. Arrived(d) \in Messages /\ Arrived(d).dev = d /\ Arrived(d).event = "arrived"
  BY DEF Arrived, Messages, Kinds
<1>3. /\ es \in [Devices -> States] /\ qs \in [Devices -> Nat]
      /\ \A e \in Devices : es[e] = IF e = d THEN "attached" ELSE ds[e]
      /\ \A e \in Devices : qs[e] = IF e = d THEN 1 ELSE rs[e]
  BY <1>1 DEF States
<1>4. /\ D \in Seq(Messages) /\ DOMAIN C = 1 .. Len(C) /\ DOMAIN D = 1 .. Len(C) + 1
      /\ Len(C) \in Nat /\ \A i \in 1 .. Len(C) : D[i] = C[i]
      /\ D[Len(C) + 1] = Arrived(d)
  BY <1>1, <1>2, AppendFacts
<1>5. \A e \in Devices : Count(D, Left(e)) = Count(C, Left(e))
  <2>1. TAKE e \in Devices
  <2>2. Arrived(d) # Left(e)
    BY DEF Arrived, Left
  <2>3. Count(D, Left(e)) = Count(C, Left(e)) + (IF Arrived(d) = Left(e) THEN 1 ELSE 0) /\ Count(C, Left(e)) \in Nat
    BY <1>1, <1>2, AppendFacts
  <2> QED  BY <2>2, <2>3
<1> HIDE DEF es, qs, D
<1>6. \A e \in Devices : qs[e] = Held(e, es, D, {}, L, H)
  <2>1. TAKE e \in Devices
  <2>2. CASE e # d
    BY <1>1, <1>3, <1>5, <2>2 DEF Held
  <2>3. CASE e = d
    <3>1. d \notin L /\ OpenOf(H, d) = {} /\ \A i \in DOMAIN C : C[i].dev # d
      BY <1>1 DEF Fresh
    <3>2. Count(C, Left(d)) = 0
      <4>1. \A i \in DOMAIN C : C[i] # Left(d)
        BY <3>1 DEF Left
      <4> QED  BY <1>1, <4>1, CountFacts
    <3>3. Cardinality(OpenOf(H, d)) = 0
      BY <3>1, FS_EmptySet
    <3> QED  BY <1>3, <1>5, <2>3, <3>1, <3>2, <3>3 DEF Held
  <2> QED  BY <2>2, <2>3
<1>7. Fresh(es, D, L, H)
  <2>1. SUFFICES ASSUME NEW e \in Devices, es[e] = "none"
        PROVE  e \notin L /\ OpenOf(H, e) = {} /\ \A i \in DOMAIN D : D[i].dev # e
    BY DEF Fresh
  <2>2. e # d /\ ds[e] = "none"
    BY <1>3, <2>1
  <2>3. \A i \in DOMAIN D : i \in DOMAIN C \/ i = Len(C) + 1
    BY <1>4
  <2> QED  BY <1>1, <1>2, <1>4, <2>2, <2>3 DEF Fresh
<1>8. Story(es, D)
  <2>1. \A i \in DOMAIN C : C[i].dev # d /\ C[i].dev \in Devices
    BY <1>1, MessageFacts DEF Fresh
  <2>2. SUFFICES ASSUME NEW i \in DOMAIN D
        PROVE  /\ D[i].event = "left" =>
                     /\ es[D[i].dev] = "left"
                     /\ \A j \in DOMAIN D : i < j => D[j] # Arrived(D[i].dev)
               /\ D[i].event = "arrived" =>
                     /\ es[D[i].dev] \in {"attached", "left"}
                     /\ es[D[i].dev] = "left" => \E j \in DOMAIN D : i < j /\ D[j] = Left(D[i].dev)
    BY DEF Story
  <2>3. CASE i = Len(C) + 1
    BY <1>2, <1>3, <1>4, <2>3
  <2>4. CASE i \in DOMAIN C
    <3>1. D[i] = C[i] /\ es[C[i].dev] = ds[C[i].dev] /\ Arrived(d) # Arrived(C[i].dev)
      BY <1>2, <1>3, <1>4, <2>1, <2>4 DEF Arrived
    <3>2. \A j \in DOMAIN D : (j \in DOMAIN C /\ D[j] = C[j]) \/ D[j] = Arrived(d)
      BY <1>4
    <3>3. \A j \in DOMAIN C : j \in DOMAIN D /\ D[j] = C[j]
      BY <1>4
    <3> QED  BY <1>1, <2>4, <3>1, <3>2, <3>3 DEF Story
  <2> QED  BY <1>4, <2>3, <2>4
<1> QED  BY <1>1, <1>3, <1>4, <1>6, <1>7, <1>8 DEF Sound, es, qs, D

(* usbi_disconnect_device: the list's reference goes with the message, the *)
(* one who brings the message holds another.                               *)
LEMMA SoundLeave ==
  ASSUME NEW ds, NEW rs, NEW C, NEW L, NEW H, Sound(ds, rs, C, {}, L, H),
         NEW d \in Devices, ds[d] = "attached"
  PROVE  Sound([ds EXCEPT ![d] = "left"], [rs EXCEPT ![d] = @ + 1], Append(C, Left(d)), {d}, L, H)
<1> DEFINE es == [ds EXCEPT ![d] = "left"]
           qs == [rs EXCEPT ![d] = @ + 1]
           D == Append(C, Left(d))
<1>1. /\ ds \in [Devices -> States] /\ rs \in [Devices -> Nat] /\ C \in Seq(Messages)
      /\ \A e \in Devices : IsFiniteSet(OpenOf(H, e)) /\ rs[e] = Held(e, ds, C, {}, L, H)
      /\ Fresh(ds, C, L, H) /\ Story(ds, C)
  BY DEF Sound
<1>2. Left(d) \in Messages /\ Left(d).dev = d /\ Left(d).event = "left"
  BY DEF Left, Messages, Kinds
<1>3. /\ es \in [Devices -> States] /\ qs \in [Devices -> Nat]
      /\ \A e \in Devices : es[e] = IF e = d THEN "left" ELSE ds[e]
      /\ \A e \in Devices : qs[e] = IF e = d THEN rs[e] + 1 ELSE rs[e]
  BY <1>1 DEF States
<1>4. /\ D \in Seq(Messages) /\ DOMAIN C = 1 .. Len(C) /\ DOMAIN D = 1 .. Len(C) + 1
      /\ Len(C) \in Nat /\ \A i \in 1 .. Len(C) : D[i] = C[i]
      /\ D[Len(C) + 1] = Left(d)
  BY <1>1, <1>2, AppendFacts
<1>5. \A e \in Devices : Count(D, Left(e)) = Count(C, Left(e)) + (IF e = d THEN 1 ELSE 0) /\ Count(C, Left(e)) \in Nat
  <2>1. TAKE e \in Devices
  <2>2. Left(d) = Left(e) <=> e = d
    BY DEF Left
  <2>3. Count(D, Left(e)) = Count(C, Left(e)) + (IF Left(d) = Left(e) THEN 1 ELSE 0) /\ Count(C, Left(e)) \in Nat
    BY <1>1, <1>2, AppendFacts
  <2> QED  BY <2>2, <2>3
<1> HIDE DEF es, qs, D
<1>6. \A e \in Devices : qs[e] = Held(e, es, D, {d}, L, H)
  <2>1. TAKE e \in Devices
  <2>2. Cardinality(OpenOf(H, e)) \in Nat
    BY <1>1, FS_CardinalityType
  <2>3. qs[e] = Held(e, ds, C, {}, L, H) + (IF e = d THEN 1 ELSE 0)
    BY <1>1, <1>3 DEF Held
  <2>4. e = d => ds[e] = "attached" /\ es[e] = "left"
    BY <1>3
  <2>5. e # d => es[e] = ds[e]
    BY <1>3
  <2>6. CASE e = d
    BY <1>5, <2>2, <2>3, <2>4, <2>6 DEF Held
  <2>7. CASE e # d
    BY <1>5, <2>2, <2>3, <2>5, <2>7 DEF Held
  <2> QED  BY <2>6, <2>7
<1>7. Fresh(es, D, L, H)
  <2>1. SUFFICES ASSUME NEW e \in Devices, es[e] = "none"
        PROVE  e \notin L /\ OpenOf(H, e) = {} /\ \A i \in DOMAIN D : D[i].dev # e
    BY DEF Fresh
  <2>2. e # d /\ ds[e] = "none"
    BY <1>3, <2>1
  <2>3. \A i \in DOMAIN D : i \in DOMAIN C \/ i = Len(C) + 1
    BY <1>4
  <2> QED  BY <1>1, <1>2, <1>4, <2>2, <2>3 DEF Fresh
<1>8. Story(es, D)
  <2>1. \A i \in DOMAIN C : (C[i].event = "left" => C[i].dev # d) /\ C[i].dev \in Devices
    BY <1>1, MessageFacts DEF Story
  <2>2. SUFFICES ASSUME NEW i \in DOMAIN D
        PROVE  /\ D[i].event = "left" =>
                     /\ es[D[i].dev] = "left"
                     /\ \A j \in DOMAIN D : i < j => D[j] # Arrived(D[i].dev)
               /\ D[i].event = "arrived" =>
                     /\ es[D[i].dev] \in {"attached", "left"}
                     /\ es[D[i].dev] = "left" => \E j \in DOMAIN D : i < j /\ D[j] = Left(D[i].dev)
    BY DEF Story
  <2>3. CASE i = Len(C) + 1
    BY <1>2, <1>3, <1>4, <2>3
  <2>4. CASE i \in DOMAIN C
    <3>1. D[i] = C[i] /\ Left(d) # Arrived(C[i].dev) /\ i < Len(C) + 1 /\ Len(C) + 1 \in DOMAIN D
      BY <1>4, <2>4 DEF Arrived, Left
    <3>2. \A j \in DOMAIN D : (j \in DOMAIN C /\ D[j] = C[j]) \/ D[j] = Left(d)
      BY <1>4
    <3>3. \A j \in DOMAIN C : j \in DOMAIN D /\ D[j] = C[j]
      BY <1>4
    <3>4. CASE C[i].dev = d
      BY <1>3, <1>4, <2>1, <2>4, <3>1, <3>4
    <3>5. CASE C[i].dev # d
      <4>1. es[C[i].dev] = ds[C[i].dev]
        BY <1>3, <2>1, <2>4, <3>5
      <4> QED  BY <1>1, <2>4, <3>1, <3>2, <3>3, <4>1 DEF Story
    <3> QED  BY <3>4, <3>5
  <2> QED  BY <1>4, <2>3, <2>4
<1> QED  BY <1>1, <1>3, <1>4, <1>6, <1>7, <1>8 DEF Sound, es, qs, D

(* The counts rs when each device of S has lost a reference.               *)
Less(rs, S) == [d \in Devices |-> IF d \in S THEN rs[d] - 1 ELSE rs[d]]

(* K are the handles H but that f is of device n.                          *)
Redirected(H, K, f, n) == \A g \in Fds : K[g].dev = IF g = f THEN n ELSE H[g].dev

LEMMA OpenOfMore ==
  ASSUME NEW H, NEW f \in Fds, NEW d, IsFiniteSet(OpenOf(H, d)), H[f].dev # d,
         NEW K, Redirected(H, K, f, d)
  PROVE  /\ IsFiniteSet(OpenOf(K, d))
         /\ Cardinality(OpenOf(H, d)) \in Nat
         /\ Cardinality(OpenOf(K, d)) = Cardinality(OpenOf(H, d)) + 1
<1> DEFINE O == OpenOf(H, d)
<1>1. OpenOf(K, d) = O \cup {f} /\ f \notin O
  BY DEF OpenOf, Redirected
<1> HIDE DEF O
<1>2. IsFiniteSet(O) /\ Cardinality(O) \in Nat
  BY FS_CardinalityType DEF O
<1>3. IsFiniteSet(O \cup {f}) /\ Cardinality(O \cup {f}) = IF f \in O THEN Cardinality(O) ELSE Cardinality(O) + 1
  BY <1>2, FS_AddElement
<1> QED  BY <1>1, <1>2, <1>3 DEF O

LEMMA OpenOfLess ==
  ASSUME NEW H, NEW f \in Fds, NEW n, NEW d, IsFiniteSet(OpenOf(H, d)), n # d,
         NEW K, Redirected(H, K, f, n)
  PROVE  /\ IsFiniteSet(OpenOf(K, d)) /\ OpenOf(K, d) \subseteq OpenOf(H, d)
         /\ Cardinality(OpenOf(H, d)) \in Nat /\ Cardinality(OpenOf(K, d)) \in Nat
         /\ Cardinality(OpenOf(H, d)) = Cardinality(OpenOf(K, d)) + (IF H[f].dev = d THEN 1 ELSE 0)
<1> DEFINE O == OpenOf(H, d)
<1>1. OpenOf(K, d) = O \ {f} /\ (f \in O <=> H[f].dev = d)
  BY DEF OpenOf, Redirected
<1> HIDE DEF O
<1>2. IsFiniteSet(O) /\ Cardinality(O) \in Nat
  BY FS_CardinalityType DEF O
<1>3. IsFiniteSet(O \ {f}) /\ Cardinality(O \ {f}) = IF f \in O THEN Cardinality(O) - 1 ELSE Cardinality(O)
  BY <1>2, FS_RemoveElement
<1>4. Cardinality(O) = Cardinality(O \ {f}) + (IF f \in O THEN 1 ELSE 0)
  BY <1>2, <1>3
<1>7. Cardinality(O \ {f}) \in Nat
  BY <1>3, FS_CardinalityType
<1>5. CASE H[f].dev = d
  BY <1>1, <1>2, <1>3, <1>4, <1>5, <1>7 DEF O
<1>6. CASE H[f].dev # d
  BY <1>1, <1>2, <1>3, <1>4, <1>6, <1>7 DEF O
<1> QED  BY <1>5, <1>6

(* A handle for a device of the list.                                      *)
LEMMA SoundOpened ==
  ASSUME NEW ds, NEW rs, NEW C, NEW G, NEW L, NEW H,
         Sound(ds, rs, C, G, L, H), NEW f \in Fds, NEW d \in Devices,
         H[f].dev \notin Devices, ds[d] = "attached",
         NEW K, Redirected(H, K, f, d)
  PROVE  Sound(ds, [rs EXCEPT ![d] = @ + 1], C, G, L, K)
<1> DEFINE qs == [rs EXCEPT ![d] = @ + 1]
<1>1. /\ ds \in [Devices -> States] /\ rs \in [Devices -> Nat] /\ C \in Seq(Messages)
      /\ \A e \in Devices : IsFiniteSet(OpenOf(H, e)) /\ rs[e] = Held(e, ds, C, G, L, H)
      /\ Fresh(ds, C, L, H) /\ Story(ds, C)
  BY DEF Sound
<1>2. ASSUME NEW e \in Devices
      PROVE  /\ IsFiniteSet(OpenOf(K, e))
             /\ d # e => OpenOf(K, e) \subseteq OpenOf(H, e)
             /\ Cardinality(OpenOf(H, e)) \in Nat
             /\ Cardinality(OpenOf(K, e)) = Cardinality(OpenOf(H, e)) + (IF d = e THEN 1 ELSE 0)
  <2>1. IsFiniteSet(OpenOf(H, e)) /\ H[f].dev # e
    BY <1>1
  <2>2. CASE d = e
    BY <2>1, <2>2, OpenOfMore
  <2>3. CASE d # e
    <3>1. /\ IsFiniteSet(OpenOf(K, e)) /\ OpenOf(K, e) \subseteq OpenOf(H, e)
          /\ Cardinality(OpenOf(H, e)) \in Nat /\ Cardinality(OpenOf(K, e)) \in Nat
          /\ Cardinality(OpenOf(H, e)) = Cardinality(OpenOf(K, e)) + (IF H[f].dev = e THEN 1 ELSE 0)
      BY <2>1, <2>3, OpenOfLess
    <3>2. Cardinality(OpenOf(H, e)) = Cardinality(OpenOf(K, e))
      BY <2>1, <3>1
    <3> QED  BY <2>3, <3>1, <3>2
  <2> QED  BY <2>2, <2>3
<1>3. qs \in [Devices -> Nat] /\ \A e \in Devices : qs[e] = rs[e] + (IF d = e THEN 1 ELSE 0)
  BY <1>1
<1> HIDE DEF qs
<1>4. \A e \in Devices : qs[e] = Held(e, ds, C, G, L, K)
  <2>1. TAKE e \in Devices
  <2>2. Count(C, Left(e)) \in Nat
    BY <1>1, CountFacts
  <2>3. Held(e, ds, C, G, L, K) = Held(e, ds, C, G, L, H) + (IF d = e THEN 1 ELSE 0)
    BY <1>2, <2>2 DEF Held
  <2> QED  BY <1>1, <1>3, <2>3
<1>5. Fresh(ds, C, L, K)
  BY <1>1, <1>2 DEF Fresh
<1> QED  BY <1>1, <1>2, <1>3, <1>4, <1>5 DEF Sound, qs

(* What do_close takes away.                                               *)
LEMMA SoundClosed ==
  ASSUME NEW ds, NEW rs, NEW C, NEW G, NEW L, NEW H,
         Sound(ds, rs, C, G, L, H), NEW f \in Fds, NEW n,
         n \notin Devices, NEW K, Redirected(H, K, f, n),
         NEW qs, qs = Less(rs, {H[f].dev})
  PROVE  Sound(Freed(qs, ds), qs, C, G, L, K)
<1>1. /\ ds \in [Devices -> States] /\ rs \in [Devices -> Nat] /\ C \in Seq(Messages)
      /\ \A e \in Devices : IsFiniteSet(OpenOf(H, e)) /\ rs[e] = Held(e, ds, C, G, L, H)
      /\ Fresh(ds, C, L, H) /\ Story(ds, C)
  BY DEF Sound
<1>2. ASSUME NEW e \in Devices
      PROVE  /\ IsFiniteSet(OpenOf(K, e)) /\ OpenOf(K, e) \subseteq OpenOf(H, e)
             /\ Cardinality(OpenOf(K, e)) \in Nat
             /\ Cardinality(OpenOf(H, e)) = Cardinality(OpenOf(K, e)) + (IF H[f].dev = e THEN 1 ELSE 0)
  <2>1. IsFiniteSet(OpenOf(H, e)) /\ n # e
    BY <1>1
  <2> QED  BY <2>1, OpenOfLess
<1>3. \A e \in Devices : qs[e] = Held(e, ds, C, G, L, K) /\ qs[e] \in Nat
  <2>1. TAKE e \in Devices
  <2>2. Count(C, Left(e)) \in Nat
    BY <1>1, CountFacts
  <2>3. qs[e] = IF e = H[f].dev THEN rs[e] - 1 ELSE rs[e]
    BY DEF Less
  <2>4. Held(e, ds, C, G, L, H) = Held(e, ds, C, G, L, K) + (IF H[f].dev = e THEN 1 ELSE 0)
    BY <1>2, <2>2 DEF Held
  <2>5. Held(e, ds, C, G, L, K) \in Nat
    BY <1>1, <1>2, HeldNat
  <2> QED  BY <1>1, <2>3, <2>4, <2>5
<1>4. qs \in [Devices -> Nat]
  BY <1>3 DEF Less
<1>5. Fresh(ds, C, L, K)
  BY <1>1, <1>2 DEF Fresh
<1>6. Sound(ds, qs, C, G, L, K)
  BY <1>1, <1>2, <1>3, <1>4, <1>5 DEF Sound
<1> QED  BY <1>6, SoundFreed

(* A handle keeps its device, whatever else is noted in it.                *)
LEMMA SoundMarked ==
  ASSUME NEW ds, NEW rs, NEW C, NEW G, NEW L, NEW H, NEW K, Sound(ds, rs, C, G, L, H),
         \A f \in Fds : K[f].dev = H[f].dev
  PROVE  Sound(ds, rs, C, G, L, K)
<1>1. \A d : OpenOf(K, d) = OpenOf(H, d)
  BY DEF OpenOf
<1> QED  BY <1>1 DEF Sound, Held, Fresh

(* The first message has been handled.                                     *)
LEMMA SoundDropped ==
  ASSUME NEW ds, NEW rs, NEW C \in Seq(Messages), NEW G, NEW L, NEW H, NEW m \in Messages,
         Sound(ds, rs, <<m>> \o C, G, L, H)
  PROVE  /\ m.event = "arrived" => Sound(ds, rs, C, G, L, H)
         /\ m.event = "left" =>
              \A qs : qs = Less(rs, {m.dev}) =>
                 Sound(Freed(qs, ds), qs, C, G, L, H)
<1> DEFINE B == <<m>> \o C
<1>1. /\ ds \in [Devices -> States] /\ rs \in [Devices -> Nat]
      /\ \A e \in Devices : IsFiniteSet(OpenOf(H, e)) /\ rs[e] = Held(e, ds, B, G, L, H)
      /\ Fresh(ds, B, L, H) /\ Story(ds, B)
  BY DEF Sound
<1>2. /\ Len(C) \in Nat /\ DOMAIN C = 1 .. Len(C) /\ DOMAIN B = 1 .. Len(C) + 1
      /\ B[1] = m /\ \A i \in 1 .. Len(C) : B[i + 1] = C[i]
  <2>1. <<m>> \in Seq(Messages) /\ Len(<<m>>) = 1 /\ <<m>>[1] = m
    OBVIOUS
  <2>2. /\ B \in Seq(Messages) /\ Len(B) = 1 + Len(C)
        /\ \A i \in 1 .. 1 + Len(C) : B[i] = IF i <= 1 THEN <<m>>[i] ELSE C[i - 1]
    BY <2>1, ConcatProperties
  <2>3. Len(C) \in Nat /\ DOMAIN C = 1 .. Len(C) /\ DOMAIN B = 1 .. Len(B)
    BY <2>2, LenProperties
  <2> QED  BY <2>1, <2>2, <2>3
<1>3. \A e : Count(B, Left(e)) = (IF m = Left(e) THEN 1 ELSE 0) + Count(C, Left(e)) /\ Count(C, Left(e)) \in Nat
  <2>1. TAKE e
  <2>2. <<m>> \in Seq(Messages)
    OBVIOUS
  <2>3. Count(B, Left(e)) = Count(<<m>>, Left(e)) + Count(C, Left(e))
    BY <2>2, CountConcat
  <2> QED  BY <2>3, CountOne, CountFacts
<1> HIDE DEF B
<1>4. Fresh(ds, C, L, H)
  <2>1. \A i \in DOMAIN C : i + 1 \in DOMAIN B /\ B[i + 1] = C[i]
    BY <1>2
  <2> QED  BY <1>1, <2>1 DEF Fresh
<1>5. Story(ds, C)
  <2>1. SUFFICES ASSUME NEW i \in DOMAIN C
        PROVE  /\ C[i].event = "left" =>
                     /\ ds[C[i].dev] = "left"
                     /\ \A j \in DOMAIN C : i < j => C[j] # Arrived(C[i].dev)
               /\ C[i].event = "arrived" =>
                     /\ ds[C[i].dev] \in {"attached", "left"}
                     /\ ds[C[i].dev] = "left" => \E j \in DOMAIN C : i < j /\ C[j] = Left(C[i].dev)
    BY DEF Story
  <2>2. i + 1 \in DOMAIN B /\ B[i + 1] = C[i]
    BY <1>2
  <2>3. \A j \in DOMAIN C : j + 1 \in DOMAIN B /\ B[j + 1] = C[j] /\ (i < j => i + 1 < j + 1)
    BY <1>2
  <2>4. \A j \in DOMAIN B : i + 1 < j => j - 1 \in DOMAIN C /\ B[j] = C[j - 1] /\ i < j - 1
    BY <1>2
  <2> QED  BY <1>1, <2>2, <2>3, <2>4 DEF Story
<1>6. CASE m.event = "arrived"
  <2>1. \A e : m # Left(e)
    BY <1>6 DEF Left
  <2>2. \A e \in Devices : Held(e, ds, C, G, L, H) = Held(e, ds, B, G, L, H)
    BY <1>3, <2>1 DEF Held
  <2> QED  BY <1>1, <1>4, <1>5, <1>6, <2>2 DEF Sound
<1>7. ASSUME m.event = "left",
             NEW qs, qs = Less(rs, {m.dev})
      PROVE  Sound(Freed(qs, ds), qs, C, G, L, H)
  <2>1. \A e : m = Left(e) <=> e = m.dev
    BY <1>7 DEF Left, Messages
  <2>2. \A e \in Devices : qs[e] = Held(e, ds, C, G, L, H) /\ qs[e] \in Nat
    <3>1. TAKE e \in Devices
    <3>2. Cardinality(OpenOf(H, e)) \in Nat
      BY <1>1, FS_CardinalityType
    <3>3. qs[e] = IF e = m.dev THEN rs[e] - 1 ELSE rs[e]
      BY <1>7 DEF Less
    <3>4. Count(B, Left(e)) = (IF e = m.dev THEN 1 ELSE 0) + Count(C, Left(e)) /\ Count(C, Left(e)) \in Nat
      BY <1>3, <2>1
    <3>5. qs[e] = Held(e, ds, C, G, L, H)
      BY <1>1, <3>2, <3>3, <3>4 DEF Held
    <3>6. Held(e, ds, C, G, L, H) \in Nat
      BY <1>1, HeldNat
    <3> QED  BY <3>5, <3>6
  <2>3. qs \in [Devices -> Nat]
    BY <1>7, <2>2 DEF Less
  <2>4. Sound(ds, qs, C, G, L, H)
    BY <1>1, <1>4, <1>5, <2>2, <2>3 DEF Sound
  <2> QED  BY <2>4, SoundFreed
<1> QED  BY <1>6, <1>7

(* Who brought the message that d has left is done with d.                 *)
LEMMA SoundNotified ==
  ASSUME NEW ds, NEW rs, NEW C, NEW L, NEW H, NEW d, Sound(ds, rs, C, {d}, L, H),
         NEW qs, qs = Less(rs, {d})
  PROVE  Sound(Freed(qs, ds), qs, C, {}, L, H)
<1>1. /\ ds \in [Devices -> States] /\ rs \in [Devices -> Nat] /\ C \in Seq(Messages)
      /\ \A e \in Devices : IsFiniteSet(OpenOf(H, e)) /\ rs[e] = Held(e, ds, C, {d}, L, H)
      /\ Fresh(ds, C, L, H) /\ Story(ds, C)
  BY DEF Sound
<1>2. \A e \in Devices : qs[e] = Held(e, ds, C, {}, L, H) /\ qs[e] \in Nat
  <2>1. TAKE e \in Devices
  <2>2. Count(C, Left(e)) \in Nat /\ Cardinality(OpenOf(H, e)) \in Nat
    BY <1>1, CountFacts, FS_CardinalityType
  <2>3. qs[e] = IF e = d THEN rs[e] - 1 ELSE rs[e]
    BY DEF Less
  <2>4. Held(e, ds, C, {d}, L, H) = Held(e, ds, C, {}, L, H) + (IF e = d THEN 1 ELSE 0)
    BY <2>2 DEF Held
  <2>5. Held(e, ds, C, {}, L, H) \in Nat
    BY <1>1, HeldNat
  <2>6. rs[e] = Held(e, ds, C, {d}, L, H)
    BY <1>1
  <2> QED  BY <2>3, <2>4, <2>5, <2>6
<1>3. qs \in [Devices -> Nat]
  BY <1>2 DEF Less
<1>4. Sound(ds, qs, C, {}, L, H)
  BY <1>1, <1>2, <1>3 DEF Sound
<1> QED  BY <1>4, SoundFreed

(* libusb_get_device_list and libusb_free_device_list.                     *)
LEMMA SoundListed ==
  ASSUME NEW ds, NEW rs, NEW C, NEW G, NEW H, Sound(ds, rs, C, G, {}, H),
         NEW L, L = {d \in Devices : ds[d] = "attached"}
  PROVE  Sound(ds, [d \in Devices |-> IF d \in L THEN rs[d] + 1 ELSE rs[d]], C, G, L, H)
<1> DEFINE qs == [d \in Devices |-> IF d \in L THEN rs[d] + 1 ELSE rs[d]]
<1>1. /\ ds \in [Devices -> States] /\ rs \in [Devices -> Nat] /\ C \in Seq(Messages)
      /\ \A e \in Devices : IsFiniteSet(OpenOf(H, e)) /\ rs[e] = Held(e, ds, C, G, {}, H)
      /\ Fresh(ds, C, {}, H) /\ Story(ds, C)
  BY DEF Sound
<1>2. qs \in [Devices -> Nat] /\ \A e \in Devices : qs[e] = rs[e] + (IF e \in L THEN 1 ELSE 0)
  BY <1>1
<1>3. Fresh(ds, C, L, H)
  BY <1>1 DEF Fresh
<1> HIDE DEF qs
<1>4. \A e \in Devices : qs[e] = Held(e, ds, C, G, L, H)
  <2>1. TAKE e \in Devices
  <2>2. Count(C, Left(e)) \in Nat /\ Cardinality(OpenOf(H, e)) \in Nat
    BY <1>1, CountFacts, FS_CardinalityType
  <2>3. Held(e, ds, C, G, L, H) = Held(e, ds, C, G, {}, H) + (IF e \in L THEN 1 ELSE 0)
    BY <2>2 DEF Held
  <2> QED  BY <1>1, <1>2, <2>3
<1> QED  BY <1>1, <1>2, <1>3, <1>4 DEF Sound, qs

LEMMA SoundUnlisted ==
  ASSUME NEW ds, NEW rs, NEW C, NEW G, NEW L, NEW H, Sound(ds, rs, C, G, L, H),
         NEW qs, qs = Less(rs, L)
  PROVE  Sound(Freed(qs, ds), qs, C, G, {}, H)
<1>1. /\ ds \in [Devices -> States] /\ rs \in [Devices -> Nat] /\ C \in Seq(Messages)
      /\ \A e \in Devices : IsFiniteSet(OpenOf(H, e)) /\ rs[e] = Held(e, ds, C, G, L, H)
      /\ Fresh(ds, C, L, H) /\ Story(ds, C)
  BY DEF Sound
<1>2. \A e \in Devices : qs[e] = Held(e, ds, C, G, {}, H) /\ qs[e] \in Nat
  <2>1. TAKE e \in Devices
  <2>2. Count(C, Left(e)) \in Nat /\ Cardinality(OpenOf(H, e)) \in Nat
    BY <1>1, CountFacts, FS_CardinalityType
  <2>3. qs[e] = IF e \in L THEN rs[e] - 1 ELSE rs[e]
    BY DEF Less
  <2>4. Held(e, ds, C, G, L, H) = Held(e, ds, C, G, {}, H) + (IF e \in L THEN 1 ELSE 0)
    BY <2>2 DEF Held
  <2>5. Held(e, ds, C, G, {}, H) \in Nat
    BY <1>1, HeldNat
  <2> QED  BY <1>1, <2>3, <2>4, <2>5
<1>3. qs \in [Devices -> Nat]
  BY <1>2 DEF Less
<1>4. Fresh(ds, C, {}, H)
  BY <1>1 DEF Fresh
<1>5. Sound(ds, qs, C, G, {}, H)
  BY <1>1, <1>2, <1>3, <1>4 DEF Sound
<1> QED  BY <1>5, SoundFreed

(* linux_scan_devices takes devices into the list before the first message. *)
LEMMA SoundScanned ==
  ASSUME NEW ds, NEW rs, NEW L, NEW H, Sound(ds, rs, <<>>, {}, L, H),
         NEW new \in SUBSET Devices, \A d \in new : ds[d] = "none"
  PROVE  Sound([d \in Devices |-> IF d \in new THEN "attached" ELSE ds[d]],
               [d \in Devices |-> IF d \in new THEN 1 ELSE rs[d]], <<>>, {}, L, H)
<1> DEFINE es == [d \in Devices |-> IF d \in new THEN "attached" ELSE ds[d]]
           qs == [d \in Devices |-> IF d \in new THEN 1 ELSE rs[d]]
<1>1. /\ ds \in [Devices -> States] /\ rs \in [Devices -> Nat] /\ <<>> \in Seq(Messages)
      /\ \A e \in Devices : IsFiniteSet(OpenOf(H, e)) /\ rs[e] = Held(e, ds, <<>>, {}, L, H)
      /\ Fresh(ds, <<>>, L, H)
  BY DEF Sound
<1>2. /\ es \in [Devices -> States] /\ qs \in [Devices -> Nat]
      /\ \A e \in Devices : es[e] = IF e \in new THEN "attached" ELSE ds[e]
      /\ \A e \in Devices : qs[e] = IF e \in new THEN 1 ELSE rs[e]
  BY <1>1 DEF States
<1> HIDE DEF es, qs
<1>3. \A e \in Devices : qs[e] = Held(e, es, <<>>, {}, L, H)
  <2>1. TAKE e \in Devices
  <2>2. CASE e \in new
    <3>1. e \notin L /\ OpenOf(H, e) = {}
      BY <1>1, <2>2 DEF Fresh
    <3>2. Count(<<>>, Left(e)) = 0 /\ Cardinality(OpenOf(H, e)) = 0
      BY <3>1, CountOne, FS_EmptySet
    <3> QED  BY <1>2, <2>2, <3>1, <3>2 DEF Held
  <2>3. CASE e \notin new
    BY <1>1, <1>2, <2>3 DEF Held
  <2> QED  BY <2>2, <2>3
<1>4. Fresh(es, <<>>, L, H)
  BY <1>1, <1>2 DEF Fresh
<1>5. Story(es, <<>>)
  BY DEF Story
<1> QED  BY <1>1, <1>2, <1>3, <1>4, <1>5 DEF Sound, es, qs

(* libusb_exit: nobody but the list holds a device.                        *)
LEMMA SoundEnded ==
  ASSUME NEW ds, NEW rs, NEW H, Sound(ds, rs, <<>>, {}, {}, H), \A d \in Devices : OpenOf(H, d) = {},
         NEW listed, listed = {d \in Devices : ds[d] = "attached"},
         NEW off, off = [d \in Devices |-> IF d \in listed THEN "left" ELSE ds[d]],
         NEW qs, qs = Less(rs, listed)
  PROVE  /\ Sound(Freed(qs, off), qs, <<>>, {}, {}, H)
         /\ \A d \in Devices : Freed(qs, off)[d] \in {"none", "freed"}
<1>1. /\ ds \in [Devices -> States] /\ rs \in [Devices -> Nat] /\ <<>> \in Seq(Messages)
      /\ \A e \in Devices : IsFiniteSet(OpenOf(H, e)) /\ rs[e] = Held(e, ds, <<>>, {}, {}, H)
      /\ Fresh(ds, <<>>, {}, H)
  BY DEF Sound
<1>2. \A e \in Devices : off[e] \in {"none", "left", "freed"} /\ (off[e] = "none" <=> ds[e] = "none")
  BY <1>1 DEF States
<1>3. off \in [Devices -> States]
  BY <1>1 DEF States
<1>4. \A e \in Devices : Count(<<>>, Left(e)) = 0 /\ Cardinality(OpenOf(H, e)) = 0
  BY CountOne, FS_EmptySet
<1>5. \A e \in Devices : qs[e] = 0
  <2>1. TAKE e \in Devices
  <2>2. qs[e] = IF ds[e] = "attached" THEN rs[e] - 1 ELSE rs[e]
    BY DEF Less
  <2>3. rs[e] = IF ds[e] = "attached" THEN 1 ELSE 0
    BY <1>1, <1>4 DEF Held
  <2> QED  BY <2>2, <2>3
<1>6. \A e \in Devices : Held(e, off, <<>>, {}, {}, H) = 0
  BY <1>2, <1>4 DEF Held
<1>7. Fresh(off, <<>>, {}, H) /\ Story(off, <<>>)
  BY <1>1, <1>2 DEF Fresh, Story
<1>8. qs \in [Devices -> Nat]
  BY <1>5 DEF Less
<1>9. Sound(off, qs, <<>>, {}, {}, H)
  BY <1>1, <1>3, <1>5, <1>6, <1>7, <1>8 DEF Sound
<1> QED  BY <1>2, <1>5, <1>9, SoundFreed DEF Freed

-----------------------------------------------------------------------------
(* The messages about devices in the order of what they tell: the one that *)
(* is being handled, those to come, and the one not yet queued.            *)
Telling(h) == IF h = <<>> THEN <<>> ELSE <<[event |-> h[1].event, dev |-> h[1].dev]>>
Chrono == ev.msg \o ev.batch \o msgs \o Telling(hot)
Going(h) == {d \in Devices : h # <<>> /\ h[1].event = "left" /\ h[1].dev = d}

(* The context's own counts.                                               *)
Refs == Sound(devs, refs, Chrono, Going(hot), list, handles)

(* What is at an address: at most one device that is plugged in and one of *)
(* the list, and none of the first where the monitor is to take one away.  *)
Places ==
    /\ plugged \in Nat /\ present \subseteq 1 .. plugged
    /\ \A d \in Devices : devs[d] # "none" => d <= plugged
    /\ \A d, e \in present : Plugs[d] = Plugs[e] => d = e
    /\ \A d, e \in Devices : Attached(d) /\ Attached(e) /\ Plugs[d] = Plugs[e] => d = e
    /\ \A i \in DOMAIN udev :
          udev[i].act = "remove" => \A d \in present : Plugs[d] # Plugs[udev[i].dev]
    /\ LeftIsGone

(* A descriptor open for a device that is still there has its own node.    *)
Opened ==
    \A f \in Fds : handles[f] # Closed =>
        /\ handles[f].dev \in Devices /\ devs[handles[f].dev] # "none"
        /\ handles[f].node <= plugged
        /\ handles[f].dev \in present => handles[f].node = handles[f].dev

(* The poll set watches live descriptors; an error stands for a node that  *)
(* is gone, unless the descriptor was taken out since.                     *)
Watched ==
    /\ ev.at # "idle" => \A f \in fds \cup ev.errs :
          f \in removed \/ (handles[f] # Closed /\ ~handles[f].removed)
    /\ \A f \in ev.errs : f \in removed \/ handles[f].node \notin present

(* One holder of linux_hotplug_lock, one message at a time, and no         *)
(* departure before there is a list of messages.                           *)
Shapes ==
    /\ Len(hot) <= 1 /\ Len(ev.msg) <= 1
    /\ ev.at # "hotplug" => ev.msg = <<>> /\ ev.batch = <<>>
    /\ ~ListsReady => \A i \in DOMAIN hot : hot[i].event = "arrived"
    /\ list # {} => user.at \in {"open", "call", "free"}

(* libusb_exit has given up every device.                                  *)
Released ==
    /\ cbs \in [Callbacks -> {"none", "listed", "marked", "freed"}]
    /\ user.at = "done" => \A d \in Devices : devs[d] \in {"none", "freed"}

(* The inductive invariant of the devices.                                 *)
HInv == IInv /\ Refs /\ Places /\ Opened /\ Watched /\ Shapes /\ Released

LEMMA DevicesAreNumbers == Devices \subseteq Nat \ {0} /\ 0 \notin Devices
BY PlugsAssumption, LenProperties DEF Devices

LEMMA TellingFacts ==
  ASSUME NEW by, NEW d \in Devices
  PROVE  /\ Telling(<<>>) = <<>> /\ Going(<<>>) = {}
         /\ Telling(<<[by |-> by, event |-> "arrived", dev |-> d]>>) = <<Arrived(d)>>
         /\ Going(<<[by |-> by, event |-> "arrived", dev |-> d]>>) = {}
         /\ Telling(<<[by |-> by, event |-> "left", dev |-> d]>>) = <<Left(d)>>
         /\ Going(<<[by |-> by, event |-> "left", dev |-> d]>>) = {d}
BY DEF Telling, Going, Arrived, Left

Queue == ev.msg \o ev.batch \o msgs

LEMMA QueueTyped ==
  ASSUME IInv PROVE Queue \in Seq(Messages) /\ Telling(hot) \in Seq(Messages)
<1>1. ev.msg \in Seq(Messages) /\ ev.batch \in Seq(Messages) /\ msgs \in Seq(Messages)
  BY DEF IInv, Typed
<1>2. ev.msg \o ev.batch \in Seq(Messages)
  BY <1>1, ConcatProperties
<1>3. Queue \in Seq(Messages)
  BY <1>1, <1>2, ConcatProperties DEF Queue
<1>4. CASE hot # <<>>
  <2>1. hot[1] \in HotEvents
    BY <1>4 DEF IInv, Typed
  <2>2. [event |-> hot[1].event, dev |-> hot[1].dev] \in Messages
    BY <2>1 DEF HotEvents, Messages
  <2> QED  BY <1>3, <1>4, <2>2 DEF Telling
<1> QED  BY <1>3, <1>4 DEF Telling

(* Nobody holds linux_hotplug_lock between list and message.               *)
LEMMA QuietChrono ==
  ASSUME IInv, hot = <<>> PROVE Chrono = Queue /\ Going(hot) = {}
<1>1. Telling(hot) = <<>> /\ Going(hot) = {}
  BY DEF Telling, Going
<1> QED  BY <1>1, QueueTyped, ConcatEmptySeq DEF Chrono, Queue

LEMMA RefsSame ==
  ASSUME Refs, UNCHANGED <<devs, refs, hot, msgs, handles, list>>, UNCHANGED <<ev.msg, ev.batch>>
  PROVE  Refs'
<1>1. Chrono' = Chrono /\ Going(hot)' = Going(hot)
  BY DEF Chrono
<1> QED  BY <1>1 DEF Refs

LEMMA RefsConnect ==
  ASSUME IInv, Refs, NEW by, NEW d \in Devices, hot = <<>>, devs[d] = "none", Connect(by, d),
         UNCHANGED <<msgs, handles, list>>, UNCHANGED <<ev.msg, ev.batch>>
  PROVE  Refs'
<1>1. Sound(devs, refs, Queue, {}, list, handles)
  BY QuietChrono DEF Refs
<1>2. Chrono' = Append(Queue, Arrived(d)) /\ Going(hot)' = {}
  <2>1. hot' = <<[by |-> by, event |-> "arrived", dev |-> d]>>
    BY DEF Connect
  <2>2. Telling(hot') = <<Arrived(d)>> /\ Going(hot') = {}
    BY <2>1, TellingFacts
  <2>3. Chrono' = Queue \o Telling(hot')
    BY DEF Chrono, Queue
  <2>4. Arrived(d) \in Messages
    BY DEF Arrived, Messages, Kinds
  <2> QED  BY <2>2, <2>3, <2>4, QueueTyped, AppendIsConcat
<1>3. Sound([devs EXCEPT ![d] = "attached"], [refs EXCEPT ![d] = 1], Append(Queue, Arrived(d)), {}, list, handles)
  BY <1>1, SoundArrival
<1> QED  BY <1>2, <1>3 DEF Refs, Connect

LEMMA RefsDisconnect ==
  ASSUME IInv, Refs, NEW by, NEW d \in Devices, hot = <<>>, Attached(d),
         devs' = [devs EXCEPT ![d] = "left"], refs' = [refs EXCEPT ![d] = @ + 1],
         hot' = <<[by |-> by, event |-> "left", dev |-> d]>>,
         UNCHANGED <<msgs, list>>, UNCHANGED <<ev.msg, ev.batch>>,
         \A f \in Fds : handles'[f].dev = handles[f].dev
  PROVE  Refs'
<1>1. Sound(devs, refs, Queue, {}, list, handles)
  BY QuietChrono DEF Refs
<1>2. Chrono' = Append(Queue, Left(d)) /\ Going(hot)' = {d}
  <2>2. Telling(hot') = <<Left(d)>> /\ Going(hot') = {d}
    BY TellingFacts
  <2>3. Chrono' = Queue \o Telling(hot')
    BY DEF Chrono, Queue
  <2>4. Left(d) \in Messages
    BY DEF Left, Messages, Kinds
  <2> QED  BY <2>2, <2>3, <2>4, QueueTyped, AppendIsConcat
<1>3. Sound([devs EXCEPT ![d] = "left"], [refs EXCEPT ![d] = @ + 1], Append(Queue, Left(d)), {d}, list, handles)
  BY <1>1, SoundLeave DEF Attached
<1>4. Sound([devs EXCEPT ![d] = "left"], [refs EXCEPT ![d] = @ + 1], Append(Queue, Left(d)), {d}, list, handles')
  BY <1>3, SoundMarked
<1> QED  BY <1>2, <1>4 DEF Refs

LEMMA HoldersAreHeld ==
  ASSUME IInv, NEW d \in Devices
  PROVE  Holders(d) = Held(d, devs, Chrono, Going(hot), list, handles)
<1> DEFINE x == [event |-> "left", dev |-> d]
           told == hot # <<>> /\ hot[1].event = "left" /\ hot[1].dev = d
<1>1. x = Left(d)
  BY DEF Left
<1>2. ev.msg \in Seq(Messages) /\ ev.batch \in Seq(Messages) /\ msgs \in Seq(Messages)
  BY DEF IInv, Typed
<1>3. Queue \in Seq(Messages) /\ Telling(hot) \in Seq(Messages) /\ ev.msg \o ev.batch \in Seq(Messages)
  BY <1>2, QueueTyped, ConcatProperties
<1>4. Count(Chrono, x) = Count(Queue, x) + Count(Telling(hot), x)
  BY <1>3, CountConcat DEF Chrono, Queue
<1>5. Count(Queue, x) = Count(ev.msg, x) + Count(ev.batch, x) + Count(msgs, x)
  <2>1. Count(Queue, x) = Count(ev.msg \o ev.batch, x) + Count(msgs, x)
    BY <1>2, <1>3, CountConcat DEF Queue
  <2>2. Count(ev.msg \o ev.batch, x) = Count(ev.msg, x) + Count(ev.batch, x)
    BY <1>2, CountConcat
  <2> QED  BY <2>1, <2>2
<1>6. Count(LeftMessages, x) = Count(msgs, x) + Count(ev.batch, x) + Count(ev.msg, x)
  <2>1. msgs \o ev.batch \in Seq(Messages)
    BY <1>2, ConcatProperties
  <2>2. Count(LeftMessages, x) = Count(msgs \o ev.batch, x) + Count(ev.msg, x)
    BY <1>2, <2>1, CountConcat DEF LeftMessages
  <2>3. Count(msgs \o ev.batch, x) = Count(msgs, x) + Count(ev.batch, x)
    BY <1>2, CountConcat
  <2> QED  BY <2>2, <2>3
<1>7. Count(Telling(hot), x) = (IF told THEN 1 ELSE 0)
  <2>1. CASE hot = <<>>
    BY <2>1, CountOne DEF Telling
  <2>2. CASE hot # <<>>
    <3>1. Count(Telling(hot), x) = IF [event |-> hot[1].event, dev |-> hot[1].dev] = x THEN 1 ELSE 0
      BY <2>2, CountOne DEF Telling
    <3> QED  BY <2>2, <3>1
  <2> QED  BY <2>1, <2>2
<1>8. d \in Going(hot) <=> told
  BY DEF Going
<1>9. /\ Count(ev.msg, x) \in Nat /\ Count(ev.batch, x) \in Nat /\ Count(msgs, x) \in Nat
  BY <1>2, CountFacts
<1>10. Count(LeftMessages, x) = Cardinality({i \in DOMAIN LeftMessages : LeftMessages[i] = x})
  BY DEF Count
<1> HIDE DEF x, told
<1>11. Count(Chrono, x) = Count(LeftMessages, x) + (IF told THEN 1 ELSE 0)
  BY <1>4, <1>5, <1>6, <1>7, <1>9
<1>12. Holders(d) = (IF devs[d] = "attached" THEN 1 ELSE 0) + Count(LeftMessages, x)
          + (IF told THEN 2 ELSE 0) + (IF d \in list THEN 1 ELSE 0) + Cardinality(OpenOf(handles, d))
  BY <1>10 DEF Holders, Attached, OpenOf, x, told
<1>13. Held(d, devs, Chrono, Going(hot), list, handles) =
          (IF devs[d] = "attached" THEN 1 ELSE 0) + Count(Chrono, x)
          + (IF told THEN 1 ELSE 0) + (IF d \in list THEN 1 ELSE 0) + Cardinality(OpenOf(handles, d))
  BY <1>1, <1>8 DEF Held
<1>14. Count(LeftMessages, x) \in Nat
  BY <1>6, <1>9
<1>15. CASE told
  <2> DEFINE a == IF devs[d] = "attached" THEN 1 ELSE 0
             l == IF d \in list THEN 1 ELSE 0
             o == Cardinality(OpenOf(handles, d))
  <2> QED  BY <1>11, <1>12, <1>13, <1>14, <1>15
<1>16. CASE ~told
  BY <1>11, <1>12, <1>13, <1>14, <1>16
<1> QED  BY <1>15, <1>16

LEMMA Associate ==
  \A q, r, t \in Seq(Messages) : (q \o r) \o t = q \o (r \o t)
BY ConcatAssociative

(* usbi_hotplug_notification.                                              *)
LEMMA RefsNotify ==
  ASSUME IInv, Refs, Shapes, Notify, "pipe" \notin Races PROVE Refs'
<1> DEFINE m == [event |-> hot[1].event, dev |-> hot[1].dev]
<1>1. /\ hot # <<>> /\ hot' = <<>> /\ user.at # "pipe" /\ UNCHANGED <<handles, list, ev>>
      /\ IF hot[1].event = "left" THEN Unref({hot[1].dev}) ELSE UNCHANGED <<devs, refs>>
  BY DEF Notify, polling
<1>2. Telling(hot) = <<m>> /\ m \in Messages /\ Telling(hot') = <<>> /\ Going(hot') = {}
  <2>1. hot[1] \in HotEvents
    BY <1>1 DEF IInv, Typed
  <2> QED  BY <1>1, <2>1 DEF Telling, Going, HotEvents, Messages
<1>3. /\ ev.msg \o ev.batch \in Seq(Messages) /\ msgs \in Seq(Messages) /\ Queue \in Seq(Messages)
  <2>1. ev.msg \in Seq(Messages) /\ ev.batch \in Seq(Messages) /\ msgs \in Seq(Messages)
    BY DEF IInv, Typed
  <2> QED  BY <2>1, QueueTyped, ConcatProperties
<1>4. CASE ListsReady
  <2>1. msgs' = Append(msgs, m)
    BY <1>4 DEF Notify, Queued
  <2>2. Chrono' = Chrono
    <3> DEFINE Q == ev.msg \o ev.batch
    <3>1. <<m>> \in Seq(Messages) /\ msgs' = msgs \o <<m>> /\ msgs' \in Seq(Messages)
      BY <1>2, <1>3, <2>1, AppendIsConcat, AppendProperties
    <3>2. Chrono' = (Q \o msgs') \o <<>>
      BY <1>1, <1>2 DEF Chrono
    <3>3. Chrono = (Q \o msgs) \o <<m>>
      BY <1>2 DEF Chrono
    <3> HIDE DEF Q, m
    <3>4. Q \in Seq(Messages)
      BY <1>3 DEF Q
    <3>5. Q \o msgs' \in Seq(Messages) /\ (Q \o msgs') \o <<>> = Q \o msgs'
      BY <3>1, <3>4, ConcatProperties, ConcatEmptySeq
    <3>6. (Q \o msgs) \o <<m>> = Q \o (msgs \o <<m>>)
      <4>1. Q \in Seq(Messages) /\ msgs \in Seq(Messages) /\ <<m>> \in Seq(Messages)
        BY <1>3, <3>1, <3>4
      <4> QED  BY <4>1, Associate, Zenon
    <3> QED  BY <3>1, <3>2, <3>3, <3>5, <3>6
  <2>3. CASE hot[1].event = "left"
    <3>1. Going(hot) = {hot[1].dev}
      <4>1. hot[1] \in HotEvents
        BY <1>1 DEF IInv, Typed
      <4> QED  BY <1>1, <2>3, <4>1 DEF Going, HotEvents
    <3>2. refs' = Less(refs, {hot[1].dev}) /\ devs' = Freed(refs', devs)
      BY <1>1, <2>3 DEF Unref, Less
    <3>3. Sound(devs, refs, Chrono, {hot[1].dev}, list, handles)
      BY <3>1 DEF Refs
    <3>4. Sound(devs', refs', Chrono, {}, list, handles)
      BY <3>2, <3>3, SoundNotified
    <3> QED  BY <1>1, <1>2, <2>2, <3>4 DEF Refs
  <2>4. CASE hot[1].event # "left"
    <3>1. Going(hot) = {}
      BY <1>1, <2>4 DEF Going
    <3> QED  BY <1>1, <1>2, <2>2, <2>4, <3>1 DEF Refs
  <2> QED  BY <2>3, <2>4
<1>5. CASE ~ListsReady
  <2>1. hot[1].event = "arrived"
    <3>1. 1 \in DOMAIN hot
      BY <1>1 DEF IInv, Typed
    <3> QED  BY <1>5, <3>1 DEF Shapes
  <2>2. Going(hot) = {} /\ UNCHANGED <<devs, refs, msgs>>
    BY <1>1, <1>5, <2>1 DEF Going, Notify
  <2>3. ev.msg = <<>> /\ ev.batch = <<>> /\ msgs = <<>>
    BY <1>5 DEF ListsReady, IInv, Handling, Pending, Waiting
  <2>4. Queue = <<>> /\ Chrono = Queue \o <<m>>
    BY <1>2, <2>3 DEF Queue, Chrono
  <2>5. Chrono = <<m>> /\ Chrono' = <<>> /\ <<m>> \o <<>> = <<m>>
    <3>1. <<m>> \in Seq(Messages)
      BY <1>2
    <3>2. Chrono' = Queue \o <<>>
      BY <1>1, <1>2, <2>2 DEF Chrono, Queue
    <3> QED  BY <2>4, <3>1, <3>2, ConcatEmptySeq
  <2>6. Sound(devs, refs, <<m>> \o <<>>, {}, list, handles) /\ m.event = "arrived" /\ <<>> \in Seq(Messages)
    BY <2>1, <2>2, <2>5 DEF Refs
  <2> HIDE DEF m
  <2>7. Sound(devs, refs, <<>>, {}, list, handles)
    BY <1>2, <2>6, SoundDropped
  <2> QED  BY <1>1, <1>2, <2>2, <2>5, <2>7 DEF Refs
<1> QED  BY <1>4, <1>5

(* The event thread takes the messages: first all of them, then one.       *)
LEMMA RefsTaken ==
  ASSUME IInv, Refs, Shapes, EventPipe \/ TakeMessage PROVE Refs'
<1>1. UNCHANGED <<devs, refs, hot, handles, list>>
  BY DEF EventPipe, TakeMessage, devices, polling
<1>2. ev.msg \in Seq(Messages) /\ ev.batch \in Seq(Messages) /\ msgs \in Seq(Messages)
  BY DEF IInv, Typed
<1>3. Chrono = Queue \o Telling(hot) /\ Chrono' = Queue' \o Telling(hot)
  BY <1>1 DEF Chrono, Queue
<1>4. CASE EventPipe
  <2>1. ev.msg = <<>> /\ ev.batch = <<>>
    BY <1>4 DEF EventPipe, Shapes
  <2>2. ev'.msg = <<>> /\ ev'.batch = msgs /\ msgs' = <<>>
    BY <1>4, <2>1 DEF EventPipe, IInv, Typed
  <2>3. Queue = msgs /\ Queue' = msgs
    BY <1>2, <2>1, <2>2, ConcatEmptySeq DEF Queue
  <2> QED  BY <1>1, <1>3, <2>3 DEF Refs
<1>5. CASE TakeMessage
  <2>1. ev.msg = <<>> /\ ev.batch # <<>> /\ msgs' = msgs
    BY <1>5 DEF TakeMessage, pending
  <2>2. ev'.msg = <<Head(ev.batch)>> /\ ev'.batch = Tail(ev.batch)
    BY <1>5 DEF TakeMessage, IInv, Typed
  <2>3. <<Head(ev.batch)>> \o Tail(ev.batch) = ev.batch
    <3> DEFINE b == ev.batch
               s == <<Head(b)>> \o Tail(b)
    <3>1. /\ Head(b) \in Messages /\ Tail(b) \in Seq(Messages) /\ Len(Tail(b)) = Len(b) - 1
          /\ \A i \in 1 .. Len(Tail(b)) : Tail(b)[i] = b[i + 1]
      BY <1>2, <2>1, HeadTailProperties
    <3>2. <<Head(b)>> \in Seq(Messages) /\ Len(<<Head(b)>>) = 1 /\ <<Head(b)>>[1] = b[1]
      BY <1>2, <2>1, <3>1
    <3>3. s \in Seq(Messages) /\ Len(s) = 1 + Len(Tail(b))
          /\ \A i \in 1 .. 1 + Len(Tail(b)) : s[i] = IF i <= 1 THEN <<Head(b)>>[i] ELSE Tail(b)[i - 1]
      BY <3>1, <3>2, ConcatProperties
    <3>4. Len(b) \in Nat /\ b \in Seq(Messages)
      BY <1>2, LenProperties
    <3> HIDE DEF b, s
    <3>5. \A i \in 1 .. Len(s) : s[i] = b[i]
      BY <3>1, <3>2, <3>3, <3>4
    <3>6. s = b
      BY <3>1, <3>3, <3>4, <3>5, SeqEqual
    <3> QED  BY <3>6 DEF s, b
  <2>4. Queue' = Queue
    BY <1>2, <2>1, <2>2, <2>3, ConcatEmptySeq DEF Queue
  <2> QED  BY <1>1, <1>3, <2>4 DEF Refs
<1> QED  BY <1>4, <1>5

LEMMA RefsEndMessage ==
  ASSUME IInv, Refs, Shapes, EndMessage PROVE Refs'
<1> DEFINE m == ev.msg[1]
           rest == ev.batch \o msgs \o Telling(hot)
<1>1. /\ ev.msg # <<>> /\ UNCHANGED <<hot, msgs, handles, list>>
      /\ IF m.event = "left" THEN Unref({m.dev}) ELSE UNCHANGED <<devs, refs>>
      /\ ev' = [ev EXCEPT !.msg = <<>>]
  BY DEF EndMessage, pending, polling
<1>2. ev.msg \in Seq(Messages) /\ ev.batch \in Seq(Messages) /\ msgs \in Seq(Messages)
  BY DEF IInv, Typed
<1>3. Telling(hot) \in Seq(Messages)
  BY QueueTyped
<1>4. m \in Messages /\ ev.msg = <<m>>
  <2>1. Len(ev.msg) \in Nat /\ Len(ev.msg) <= 1 /\ Len(ev.msg) # 0
    BY <1>1, <1>2, LenProperties, EmptySeq DEF Shapes
  <2>2. Len(ev.msg) = 1
    <3> DEFINE n == Len(ev.msg)
    <3> HIDE DEF n
    <3>1. n \in Nat /\ n <= 1 /\ n # 0
      BY <2>1 DEF n
    <3>2. n = 1
      BY <3>1
    <3> QED  BY <3>2 DEF n
  <2>3. m \in Messages
    BY <1>2, <2>2, ElementOfSeq
  <2>4. <<m>> \in Seq(Messages) /\ Len(<<m>>) = 1 /\ <<m>>[1] = m
    BY <2>3
  <2>5. \A i \in 1 .. Len(ev.msg) : ev.msg[i] = <<m>>[i]
    BY <2>2, <2>4
  <2>6. ev.msg = <<m>>
    BY <1>2, <2>2, <2>4, <2>5, SeqEqual
  <2> QED  BY <2>3, <2>6
<1> HIDE DEF m
<1>5. rest \in Seq(Messages) /\ ev.batch \o msgs \in Seq(Messages)
  BY <1>2, <1>3, ConcatProperties
<1>6. ev'.msg = <<>> /\ ev'.batch = ev.batch
  BY <1>1 DEF IInv, Typed
<1>7. Chrono' = rest
  <2>1. Chrono' = <<>> \o ev.batch \o msgs \o Telling(hot)
    BY <1>1, <1>6 DEF Chrono
  <2> QED  BY <1>2, <2>1, ConcatEmptySeq
<1>8. Chrono = <<m>> \o rest
  <2> DEFINE h == <<m>>
             b == ev.batch
             t == Telling(hot)
  <2>1. h \in Seq(Messages) /\ Chrono = ((h \o b) \o msgs) \o t
    BY <1>4 DEF Chrono
  <2>2. h \o b \in Seq(Messages) /\ b \o msgs \in Seq(Messages) /\ b \in Seq(Messages) /\ t \in Seq(Messages)
    BY <1>2, <1>3, <1>5, <2>1, ConcatProperties
  <2>5. h \in Seq(Messages) /\ msgs \in Seq(Messages)
    BY <1>2, <2>1
  <2> HIDE DEF h, b, t
  <2>3. (h \o b) \o msgs = h \o (b \o msgs)
    BY <2>1, <2>2, <2>5, Associate, Zenon
  <2>4. (h \o (b \o msgs)) \o t = h \o ((b \o msgs) \o t)
    <3> DEFINE r == b \o msgs
    <3>1. r \in Seq(Messages) /\ t \in Seq(Messages)
      BY <2>2
    <3> HIDE DEF r
    <3>2. (h \o r) \o t = h \o (r \o t)
      BY <2>5, <3>1, Associate, Zenon
    <3> QED  BY <3>2 DEF r
  <2> QED  BY <2>1, <2>3, <2>4 DEF h, b, t
<1>9. Sound(devs, refs, <<m>> \o rest, Going(hot), list, handles)
  BY <1>8 DEF Refs
<1> HIDE DEF rest
<1>10. CASE m.event = "left"
  <2>1. refs' = Less(refs, {m.dev}) /\ devs' = Freed(refs', devs)
    BY <1>1, <1>10 DEF Unref, Less
  <2>2. Sound(devs', refs', rest, Going(hot), list, handles)
    BY <1>4, <1>5, <1>9, <1>10, <2>1, SoundDropped
  <2> QED  BY <1>1, <1>7, <2>2 DEF Refs
<1>11. CASE m.event # "left"
  <2>1. m.event = "arrived"
    BY <1>4, <1>11 DEF Messages, Kinds
  <2>2. Sound(devs, refs, rest, Going(hot), list, handles)
    BY <1>4, <1>5, <1>9, <2>1, SoundDropped
  <2> QED  BY <1>1, <1>7, <1>11, <2>2 DEF Refs
<1> QED  BY <1>10, <1>11

(* Before the first message and after the last.                            *)
LEMMA NothingToTell ==
  ASSUME IInv, hot = <<>>, msgs = <<>>, ev = Waiting
  PROVE  Chrono = <<>> /\ Going(hot) = {}
<1>1. ev.msg = <<>> /\ ev.batch = <<>>
  BY DEF Waiting
<1>2. Chrono = ((<<>> \o <<>>) \o <<>>) \o <<>>
  BY <1>1 DEF Chrono, Telling
<1>3. <<>> \o <<>> = <<>>
  BY ConcatEmptySeq, EmptySeq
<1> QED  BY <1>2, <1>3 DEF Going

LEMMA RefsScan ==
  ASSUME IInv, Refs, Places, Scan PROVE Refs'
<1> DEFINE new == {d \in present : At(Plugs[d]) = {}}
<1>1. /\ user.at = "started" /\ hot = <<>> /\ UNCHANGED <<hot, msgs, handles, list, ev>>
      /\ devs' = [d \in Devices |-> IF d \in new THEN "attached" ELSE devs[d]]
      /\ refs' = [d \in Devices |-> IF d \in new THEN 1 ELSE refs[d]]
  BY DEF Scan, At_, pending, polling
<1>2. msgs = <<>> /\ ev = Waiting
  BY <1>1 DEF IInv, Handling, Pending
<1>3. Chrono = <<>> /\ Going(hot) = {} /\ Chrono' = Chrono
  BY <1>1, <1>2, NothingToTell DEF Chrono
<1>4. new \in SUBSET Devices /\ \A d \in new : devs[d] = "none"
  <2>1. new \in SUBSET Devices
    BY DEF IInv, Typed
  <2>2. \A d \in new : devs[d] = "none" \/ devs[d] = "attached"
    BY <1>1 DEF Places, LeftIsGone
  <2>3. \A d \in new : devs[d] # "attached"
    BY <2>1 DEF At, Attached
  <2> QED  BY <2>1, <2>2, <2>3
<1> HIDE DEF new
<1>5. Sound(devs, refs, <<>>, {}, list, handles)
  BY <1>3 DEF Refs
<1>6. Sound(devs', refs', <<>>, {}, list, handles)
  BY <1>1, <1>4, <1>5, SoundScanned
<1> QED  BY <1>1, <1>3, <1>6 DEF Refs

(* libusb_exit gives up the list: every device that is left is freed.      *)
LEMMA RefsExitFree ==
  ASSUME IInv, Refs, Shapes, ExitFree
  PROVE  Refs' /\ \A d \in Devices : devs'[d] \in {"none", "freed"}
<1> DEFINE listed == {d \in Devices : Attached(d)}
           off == [d \in Devices |-> IF d \in listed THEN "left" ELSE devs[d]]
<1>1. /\ user.at = "drained" /\ UNCHANGED <<hot, msgs, handles, list, ev>>
      /\ refs' = Less(refs, listed) /\ devs' = Freed(refs', off)
  BY DEF ExitFree, At_, polling, Less
<1>2. hot = <<>> /\ msgs = <<>> /\ ev = Waiting /\ list = {}
  BY <1>1 DEF IInv, Handling, Leaving, Shapes
<1>3. Chrono = <<>> /\ Going(hot) = {} /\ Chrono' = Chrono
  BY <1>1, <1>2, NothingToTell DEF Chrono
<1>4. \A d \in Devices : OpenOf(handles, d) = {}
  <2>1. \A f \in Fds : handles[f].dev = 0
    BY <1>1 DEF IInv, Leaving, Closed, None
  <2> QED  BY <2>1, DevicesAreNumbers DEF OpenOf
<1>5. listed = {d \in Devices : devs[d] = "attached"}
  BY DEF Attached
<1>6. Sound(devs, refs, <<>>, {}, {}, handles)
  BY <1>2, <1>3 DEF Refs
<1> HIDE DEF listed
<1>7. /\ Sound(Freed(refs', off), refs', <<>>, {}, {}, handles)
      /\ \A d \in Devices : Freed(refs', off)[d] \in {"none", "freed"}
  BY <1>1, <1>4, <1>5, <1>6, SoundEnded
<1> QED  BY <1>1, <1>2, <1>3, <1>7 DEF Refs

LEMMA RefsList ==
  ASSUME IInv, Refs, Shapes, TakeList \/ FreeList PROVE Refs'
<1>1. UNCHANGED <<hot, msgs, handles, ev>>
  BY DEF TakeList, FreeList, pending, polling
<1>2. Chrono' = Chrono /\ Going(hot)' = Going(hot)
  BY <1>1 DEF Chrono
<1>3. CASE TakeList
  <2>1. /\ list' = {d \in Devices : devs[d] = "attached"} /\ devs' = devs
        /\ refs' = [d \in Devices |-> IF d \in list' THEN refs[d] + 1 ELSE refs[d]]
    BY <1>3 DEF TakeList, Attached
  <2>2. list = {}
    BY <1>3 DEF TakeList, At_, Shapes
  <2>3. Sound(devs, refs, Chrono, Going(hot), {}, handles)
    BY <2>2 DEF Refs
  <2>4. Sound(devs, refs', Chrono, Going(hot), list', handles)
    BY <2>1, <2>3, SoundListed
  <2> QED  BY <1>1, <1>2, <2>1, <2>4 DEF Refs
<1>4. CASE FreeList
  <2>1. list' = {} /\ refs' = Less(refs, list) /\ devs' = Freed(refs', devs)
    BY <1>4 DEF FreeList, Unref, Less
  <2>2. Sound(devs', refs', Chrono, Going(hot), {}, handles)
    BY <2>1, SoundUnlisted DEF Refs
  <2> QED  BY <1>1, <1>2, <2>1, <2>2 DEF Refs
<1> QED  BY <1>3, <1>4

LEMMA RefsClose ==
  ASSUME IInv, Refs, NEW f \in Fds, DoClose(f), UNCHANGED <<hot, msgs, list>>,
         UNCHANGED <<ev.msg, ev.batch>>
  PROVE  Refs'
<1>1. Chrono' = Chrono /\ Going(hot)' = Going(hot)
  BY DEF Chrono
<1>2. /\ refs' = Less(refs, {handles[f].dev}) /\ devs' = Freed(refs', devs)
      /\ handles' = [handles EXCEPT ![f] = Closed]
  BY DEF DoClose, Unref, Less
<1>3. Redirected(handles, handles', f, 0)
  <2>1. \A g \in Fds : handles'[g] = IF g = f THEN Closed ELSE handles[g]
    BY <1>2 DEF IInv, Typed
  <2> QED  BY <2>1 DEF Redirected, Closed, None
<1>4. Sound(devs', refs', Chrono, Going(hot), list, handles')
  BY <1>2, <1>3, SoundClosed, DevicesAreNumbers DEF Refs
<1> QED  BY <1>1, <1>4 DEF Refs

(* A descriptor for a device of the list.                                  *)
LEMMA RefsOpen ==
  ASSUME IInv, Refs, NEW by, NEW d \in Devices, Open(by, d), UNCHANGED <<msgs, list>>,
         UNCHANGED <<ev.msg, ev.batch>>
  PROVE  Refs'
<1>1. CASE Nodes(d) # {}
  <2> DEFINE n == CHOOSE n \in Nodes(d) : TRUE
             r == [dev |-> d, node |-> n, removed |-> FALSE]
  <2>1. /\ Attached(d) /\ \E f \in Fds : handles[f] = Closed
        /\ handles' = [handles EXCEPT ![Lowest] = r]
        /\ refs' = [refs EXCEPT ![d] = @ + 1] /\ UNCHANGED <<devs, hot>>
    BY <1>1 DEF Open
  <2>2. Lowest \in Fds /\ handles[Lowest] = Closed
    BY <2>1, LowestIsClosed
  <2> HIDE DEF r
  <2>3. Redirected(handles, handles', Lowest, d)
    <3>1. \A g \in Fds : handles'[g] = IF g = Lowest THEN r ELSE handles[g]
      BY <2>1, <2>2 DEF IInv, Typed
    <3>2. r.dev = d
      BY DEF r
    <3>3. \A g \in Fds : handles'[g].dev = IF g = Lowest THEN d ELSE handles[g].dev
      BY <3>1, <3>2
    <3> QED  BY <3>3 DEF Redirected
  <2>4. handles[Lowest].dev \notin Devices
    BY <2>2, DevicesAreNumbers DEF Closed, None
  <2>5. Sound(devs, refs', Chrono, Going(hot), list, handles')
    BY <2>1, <2>2, <2>3, <2>4, SoundOpened DEF Refs, Attached
  <2>6. Chrono' = Chrono /\ Going(hot)' = Going(hot)
    BY <2>1 DEF Chrono
  <2> QED  BY <2>1, <2>5, <2>6 DEF Refs
<1>2. CASE Nodes(d) = {}
  <2>1. hot = <<>> /\ Disconnect(by, Plugs[d]) /\ handles' = handles
    BY <1>2 DEF Open
  <2>2. PICK e \in At(Plugs[d]) :
          /\ devs' = [devs EXCEPT ![e] = "left"] /\ refs' = [refs EXCEPT ![e] = @ + 1]
          /\ hot' = <<[by |-> by, event |-> "left", dev |-> e]>>
    BY <2>1 DEF Disconnect
  <2>3. e \in Devices /\ Attached(e)
    BY DEF At
  <2> QED  BY <2>1, <2>2, <2>3, RefsDisconnect
<1> QED  BY <1>1, <1>2

-----------------------------------------------------------------------------
(* A step that frees devices at most.                                      *)
Wears == \A d \in Devices : devs'[d] = devs[d] \/ (devs[d] = "left" /\ devs'[d] = "freed")
UserMoves ==
    /\ user.at = "done" <=> user'.at = "done"
    /\ ListsReady => ListsReady'
    /\ list' # {} => user'.at \in {"open", "call", "free"}

LEMMA WearsFreed ==
  ASSUME devs' = Freed(refs', devs) \/ UNCHANGED devs PROVE Wears
BY DEF Wears, Freed

LEMMA PlacesSame ==
  ASSUME Places, present \subseteq Devices, UNCHANGED <<plugged, present, udev>>, Wears, user.at = "done" => user'.at = "done"
  PROVE  Places'
<1>1. \A d \in Devices : devs'[d] = "attached" <=> devs[d] = "attached"
  BY DEF Wears
<1>2. \A d \in Devices : devs'[d] # "none" <=> devs[d] # "none"
  BY DEF Wears
<1>3. \A d \in Devices : devs[d] \in {"none", "attached"} => devs'[d] = devs[d]
  BY DEF Wears
<1>4. LeftIsGone'
  BY <1>3 DEF Places, LeftIsGone
<1> QED  BY <1>1, <1>2, <1>4 DEF Places, Attached

LEMMA OpenedSame ==
  ASSUME Opened, UNCHANGED <<plugged, present>>,
         \A d \in Devices : devs[d] # "none" => devs'[d] # "none",
         \A f \in Fds : \/ handles'[f] \in {handles[f], Closed}
                        \/ /\ handles[f] # Closed /\ handles'[f].dev = handles[f].dev
                           /\ handles'[f].node = handles[f].node
  PROVE  Opened'
BY DEF Opened

LEMMA ReleasedSame ==
  ASSUME Released, Wears, user.at = "done" <=> user'.at = "done",
         \/ UNCHANGED cbs
         \/ \E S : cbs' = Gone(S)
         \/ \E c \in Callbacks, s \in {"listed", "marked"} : cbs' = [cbs EXCEPT ![c] = s]
  PROVE  Released'
<1>1. cbs' \in [Callbacks -> {"none", "listed", "marked", "freed"}]
  BY DEF Released, Gone
<1> QED  BY <1>1 DEF Released, Wears

LEMMA InitHInv == Init => HInv
<1> SUFFICES ASSUME Init PROVE HInv
  OBVIOUS
<1>1. IInv
  BY InitIInv
<1>2. /\ plugged = 0 /\ present = {} /\ udev = <<>> /\ hot = <<>> /\ msgs = <<>> /\ list = {} /\ fds = {}
      /\ devs = [d \in Devices |-> "none"] /\ refs = [d \in Devices |-> 0]
      /\ handles = [f \in Fds |-> Closed] /\ cbs = [c \in Callbacks |-> "none"]
      /\ ev = Waiting /\ user.at = "none"
  BY DEF Init, Idle
<1>3. Refs
  <2>1. Chrono = <<>> /\ Going(hot) = {}
    BY <1>1, <1>2, NothingToTell
  <2>2. \A d \in Devices : OpenOf(handles, d) = {}
    <3>1. \A f \in Fds : handles[f].dev = 0
      BY <1>2 DEF Closed, None
    <3> QED  BY <3>1, DevicesAreNumbers DEF OpenOf
  <2>3. \A d \in Devices : IsFiniteSet(OpenOf(handles, d)) /\ Cardinality(OpenOf(handles, d)) = 0
    BY <2>2, FS_EmptySet
  <2>4. \A d \in Devices : Held(d, devs, <<>>, {}, {}, handles) = 0
    <3>1. TAKE d \in Devices
    <3>2. Count(<<>>, Left(d)) = 0 /\ devs[d] = "none"
      BY <1>2, CountOne
    <3> QED  BY <2>3, <3>2 DEF Held
  <2>5. Fresh(devs, <<>>, {}, handles) /\ Story(devs, <<>>)
    BY <2>2 DEF Fresh, Story
  <2>6. devs \in [Devices -> States] /\ refs \in [Devices -> Nat] /\ <<>> \in Seq(Messages)
    BY <1>2 DEF States
  <2> QED  BY <1>2, <2>1, <2>3, <2>4, <2>5, <2>6 DEF Refs, Sound
<1>4. Places
  BY <1>2 DEF Places, LeftIsGone, Attached
<1>5. Opened /\ Watched
  BY <1>2 DEF Opened, Watched, Waiting
<1>6. Shapes
  BY <1>2 DEF Shapes, Waiting, ListsReady
<1>7. Released
  BY <1>2 DEF Released
<1> QED  BY <1>1, <1>3, <1>4, <1>5, <1>6, <1>7 DEF HInv

-----------------------------------------------------------------------------
(* Steps that leave the devices and the event thread alone.                *)
LEMMA CalmSteps ==
  ASSUME HInv, IInv', UNCHANGED <<plugged, present, udev, devs, refs, hot, msgs, handles, fds,
                                 removed, list, ev>>, UserMoves, Released'
  PROVE  HInv'
<1>1. Refs'
  BY RefsSame DEF HInv
<1>2. Places' /\ Opened'
  BY DEF HInv, Places, LeftIsGone, Attached, Opened, UserMoves
<1>3. Watched' /\ Shapes'
  BY DEF HInv, Watched, Shapes, UserMoves
<1> QED  BY <1>1, <1>2, <1>3 DEF HInv

LEMMA UserSteps ==
  ASSUME HInv, IInv',
         \/ StartInit \/ IoInitLists \/ IoInit \/ Exit \/ ExitDeregister \/ Find \/ Close
         \/ Register \/ EnumerateCall \/ Deregister \/ Interrupt
  PROVE  HInv'
<1>1. UNCHANGED <<plugged, present, udev, devs, refs, hot, msgs, handles, fds, removed, list, ev>>
  BY DEF StartInit, IoInitLists, IoInit, Exit, ExitDeregister, Find, Close, Register, EnumerateCall,
     Deregister, Interrupt, kernel, devices, pending, polling
<1>2. UserMoves /\ user'.at # "done"
  <2>1. /\ user.at # "done" /\ user'.at # "done"
        /\ user.at \notin {"none", "started", "scanned"} => user'.at \notin {"none", "started", "scanned"}
        /\ user.at \in {"open", "call", "free"} => user'.at \in {"open", "call", "free"}
    BY DEF StartInit, IoInitLists, IoInit, Exit, ExitDeregister, Find, Close, Register, EnumerateCall,
       Deregister, Interrupt, At_, Goto, HInv, IInv, Typed
  <2> QED  BY <1>1, <2>1 DEF HInv, Shapes, UserMoves, ListsReady
<1>3. Released'
  <2>1. \/ UNCHANGED cbs
        \/ \E S : cbs' = Gone(S)
        \/ \E c \in Callbacks, s \in {"listed", "marked"} : cbs' = [cbs EXCEPT ![c] = s]
    <3>1. CASE Register
      <4> DEFINE K == {k \in Callbacks : cbs[k] = "none"}
      <4>1. cbs' = [cbs EXCEPT ![Min(K)] = "listed"]
        BY <3>1 DEF Register
      <4>2. cbs \in [Callbacks -> {"none", "listed", "marked", "freed"}]
        BY DEF HInv, Released
      <4>3. CASE Min(K) \in Callbacks
        BY <4>1, <4>3
      <4>4. CASE Min(K) \notin Callbacks
        <5>1. cbs' = cbs
          BY <4>1, <4>2, <4>4
        <5> QED  BY <5>1
      <4> QED  BY <4>3, <4>4
    <3>2. CASE Deregister
      BY <3>2 DEF Deregister
    <3>3. CASE ExitDeregister
      BY <3>3 DEF ExitDeregister
    <3>4. CASE StartInit \/ IoInitLists \/ IoInit \/ Exit \/ Find \/ Close \/ EnumerateCall \/ Interrupt
      BY <3>4 DEF StartInit, IoInitLists, IoInit, Exit, Find, Close, EnumerateCall, Interrupt
    <3> QED  BY <3>1, <3>2, <3>3, <3>4
  <2>2. Wears
    BY <1>1 DEF Wears
  <2> QED  BY <1>2, <2>1, <2>2, ReleasedSame DEF HInv, UserMoves
<1> QED  BY <1>1, <1>2, <1>3, CalmSteps

(* The event thread between two messages, with nothing done to a device.   *)
EventStill == EventBegin \/ EventPoll \/ EventPipe \/ EventDeregister \/ TakeMessage \/ EndMessages \/ EventEnd

LEMMA WatchedStill ==
  ASSUME HInv, EventStill PROVE Watched'
<1>1. UNCHANGED <<present, handles>>
  BY DEF EventStill, EventBegin, EventPoll, EventPipe, EventDeregister, TakeMessage, EndMessages, EventEnd,
     kernel, polling
<1>2. ev \in EventTypes
  BY DEF HInv, IInv, Typed, EventTypes
<1>3. CASE EventBegin
  <2>1. /\ ev.at = "idle" /\ ev' = [ev EXCEPT !.at = "poll"] /\ flags' = flags \ {"pollfds"}
        /\ "pollfds" \in flags => fds' = Polled
        /\ "pollfds" \notin flags => fds' = fds
    BY <1>3 DEF EventBegin
  <2>2. ev'.errs = {}
    BY <1>2, <2>1 DEF HInv, IInv, Handling, Waiting, EventTypes
  <2>3. fds' \subseteq Polled
    BY <2>1 DEF HInv, IInv, PollSet
  <2> QED  BY <1>1, <2>2, <2>3 DEF Watched, Polled
<1>4. CASE EventPoll
  <2>1. ev.at = "poll" /\ UNCHANGED <<fds, removed>>
    BY <1>4 DEF EventPoll, polling
  <2>2. ev'.errs = Errors
    BY <1>2, <1>4 DEF EventPoll, EventTypes
  <2>3. Errors \subseteq fds /\ \A f \in Errors : handles[f].node \notin present
    BY DEF Errors
  <2> QED  BY <1>1, <2>1, <2>2, <2>3 DEF HInv, Watched
<1>5. CASE EventPipe \/ EventDeregister \/ TakeMessage \/ EndMessages
  <2>1. ev.at # "idle" /\ UNCHANGED <<fds, removed>>
    BY <1>5 DEF EventPipe, EventDeregister, TakeMessage, EndMessages, polling
  <2>2. ev'.errs = ev.errs
    BY <1>2, <1>5 DEF EventPipe, EventDeregister, TakeMessage, EndMessages, EventTypes
  <2> QED  BY <1>1, <2>1, <2>2 DEF HInv, Watched
<1>6. CASE EventEnd
  <2>1. ev'.at = "idle" /\ ev'.errs = {}
    BY <1>6 DEF EventEnd, Waiting
  <2> QED  BY <2>1 DEF Watched
<1> QED  BY <1>3, <1>4, <1>5, <1>6 DEF EventStill

LEMMA ShapesStill ==
  ASSUME HInv, EventStill PROVE Shapes'
<1>1. UNCHANGED <<hot, list>>
  BY DEF EventStill, EventBegin, EventPoll, EventPipe, EventDeregister, TakeMessage, EndMessages, EventEnd,
     devices
<1>2. ev \in EventTypes /\ user \in [at : UserPcs, arg : Nat, todo : SUBSET Devices]
  BY DEF HInv, IInv, Typed, EventTypes
<1>3. CASE EventBegin \/ EventPoll \/ EventPipe \/ EventDeregister \/ EndMessages
  <2>1. user' = user /\ ev'.msg = ev.msg /\ (ev'.at # "hotplug" => ev.at # "hotplug" \/ EndMessages)
    BY <1>2, <1>3 DEF EventBegin, EventPoll, EventPipe, EventDeregister, EndMessages, EventTypes
  <2>2. ev'.at # "hotplug" => ev'.msg = <<>> /\ ev'.batch = <<>>
    <3>1. CASE EndMessages
      BY <1>2, <3>1 DEF EndMessages, EventTypes
    <3>2. CASE EventPipe
      BY <1>2, <3>2 DEF EventPipe, EventTypes
    <3>3. CASE EventBegin \/ EventPoll \/ EventDeregister
      <4>1. ev'.batch = ev.batch
        BY <1>2, <3>3 DEF EventBegin, EventPoll, EventDeregister, EventTypes
      <4>2. ev'.at # "hotplug" => ev.at # "hotplug"
        BY <1>2, <3>3 DEF EventBegin, EventPoll, EventDeregister, EventTypes
      <4> QED  BY <2>1, <4>1, <4>2 DEF HInv, Shapes
    <3> QED  BY <1>3, <3>1, <3>2, <3>3
  <2> QED  BY <1>1, <2>1, <2>2 DEF HInv, Shapes, ListsReady
<1>4. CASE TakeMessage
  <2>1. user' = user /\ ev'.msg = <<Head(ev.batch)>> /\ ev'.at = "hotplug"
    BY <1>2, <1>4 DEF TakeMessage, EventTypes
  <2>2. Len(ev'.msg) <= 1
    BY <2>1
  <2> QED  BY <1>1, <2>1, <2>2 DEF HInv, Shapes, ListsReady
<1>5. CASE EventEnd
  <2>1. ev'.msg = <<>> /\ ev'.batch = <<>> /\ Len(<<>>) = 0
    BY <1>5 DEF EventEnd, Waiting
  <2>2. /\ ListsReady' = ListsReady
        /\ user.at \in {"open", "call", "free"} => user'.at \in {"open", "call", "free"}
    BY <1>2, <1>5 DEF EventEnd, Goto, ListsReady, UserPcs
  <2> QED  BY <1>1, <2>1, <2>2 DEF HInv, Shapes
<1> QED  BY <1>3, <1>4, <1>5 DEF EventStill

LEMMA EventStillStep ==
  ASSUME HInv, IInv', EventStill PROVE HInv'
<1>1. UNCHANGED <<plugged, present, udev, devs, refs, hot, handles, list>>
  BY DEF EventStill, EventBegin, EventPoll, EventPipe, EventDeregister, TakeMessage, EndMessages, EventEnd,
     kernel, devices, polling
<1>2. ev \in EventTypes /\ user \in [at : UserPcs, arg : Nat, todo : SUBSET Devices]
  BY DEF HInv, IInv, Typed, EventTypes
<1>3. user.at = "done" <=> user'.at = "done"
  BY <1>2 DEF EventStill, EventBegin, EventPoll, EventPipe, EventDeregister, TakeMessage, EndMessages, EventEnd,
     Goto
<1>4. Refs'
  <2>1. CASE EventPipe \/ TakeMessage
    BY <2>1, RefsTaken DEF HInv
  <2>2. CASE EventBegin \/ EventPoll \/ EventDeregister \/ EndMessages
    <3>1. ev'.msg = ev.msg /\ ev'.batch = ev.batch /\ msgs' = msgs
      BY <1>2, <2>2 DEF EventBegin, EventPoll, EventDeregister, EndMessages, EventTypes, pending
    <3> QED  BY <1>1, <3>1, RefsSame DEF HInv
  <2>3. CASE EventEnd
    <3>1. ev.msg = <<>> /\ ev.batch = <<>>
      BY <2>3 DEF EventEnd, HInv, Shapes
    <3>2. ev'.msg = <<>> /\ ev'.batch = <<>> /\ msgs' = msgs
      BY <2>3 DEF EventEnd, Waiting, pending
    <3> QED  BY <1>1, <3>1, <3>2, RefsSame DEF HInv
  <2> QED  BY <2>1, <2>2, <2>3 DEF EventStill
<1>5. Wears
  BY <1>1 DEF Wears
<1>6. Places' /\ Opened'
  BY <1>1, <1>3, <1>5, PlacesSame, OpenedSame DEF HInv, IInv, Typed
<1>7. Released'
  <2>1. UNCHANGED cbs \/ \E S : cbs' = Gone(S)
    BY DEF EventStill, EventBegin, EventPoll, EventPipe, EventDeregister, TakeMessage, EndMessages, EventEnd
  <2> QED  BY <1>3, <1>5, <2>1, ReleasedSame DEF HInv
<1> QED  BY <1>4, <1>6, <1>7, WatchedStill, ShapesStill DEF HInv

-----------------------------------------------------------------------------
(* Devices come and go, and the monitor's socket.                          *)
LEMMA PlugStep ==
  ASSUME HInv, IInv', Plug PROVE HInv'
<1> DEFINE d == plugged + 1
<1>1. /\ d \in Devices /\ plugged' = d /\ present' = present \union {d}
      /\ \A e \in present \union {m.dev : m \in Range(udev)} : Plugs[e] # Plugs[d]
      /\ udev' = IF Monitored THEN Append(udev, [act |-> "add", dev |-> d]) ELSE udev
      /\ UNCHANGED <<devs, refs, hot, msgs, cbs, handles, fds, removed, user, list, ev>>
  BY DEF Plug, devices, pending, polling
<1>2. plugged \in Nat /\ present \subseteq 1 .. plugged /\ present \subseteq Devices
  BY DEF HInv, Places, IInv, Typed
<1>3. d \notin present /\ devs[d] = "none"
  <2>1. ~(d <= plugged)
    BY <1>2
  <2> QED  BY <1>1, <1>2, <2>1 DEF HInv, Places
<1>4. udev \in Seq(UdevEvents)
  BY DEF HInv, IInv, Typed
<1>5. \A i \in DOMAIN udev : udev[i].act = "remove" => \A e \in present' : Plugs[e] # Plugs[udev[i].dev]
  <2>1. TAKE i \in DOMAIN udev
  <2>2. udev[i].dev \in {m.dev : m \in Range(udev)}
    BY DEF Range
  <2>3. Plugs[udev[i].dev] # Plugs[d]
    BY <1>1, <2>2
  <2> QED  BY <1>1, <2>3 DEF HInv, Places
<1>6. \A i \in DOMAIN udev' : udev'[i].act = "remove" => i \in DOMAIN udev /\ udev'[i] = udev[i]
  <2>1. CASE Monitored
    <3> DEFINE m == [act |-> "add", dev |-> d]
    <3>1. m \in UdevEvents /\ m.act = "add" /\ udev' = Append(udev, m)
      BY <1>1, <2>1 DEF UdevEvents
    <3> HIDE DEF m, d
    <3>2. /\ Append(udev, m) \in Seq(UdevEvents) /\ Len(Append(udev, m)) = Len(udev) + 1
          /\ \A i \in 1 .. Len(udev) : Append(udev, m)[i] = udev[i]
          /\ Append(udev, m)[Len(udev) + 1] = m
      BY <1>4, <3>1, AppendProperties
    <3>3. Len(udev) \in Nat /\ DOMAIN udev = 1 .. Len(udev) /\ DOMAIN Append(udev, m) = 1 .. Len(udev) + 1
      BY <1>4, <3>2, LenProperties
    <3> QED  BY <3>1, <3>2, <3>3
  <2>2. CASE ~Monitored
    BY <1>1, <2>2
  <2> QED  BY <2>1, <2>2
<1>7. \A e, g \in present' : Plugs[e] = Plugs[g] => e = g
  BY <1>1 DEF HInv, Places
<1>8. plugged' \in Nat /\ present' \subseteq 1 .. plugged' /\ \A e \in Devices : e <= plugged => e <= plugged'
  <2>1. plugged' = plugged + 1 /\ present' = present \cup {plugged + 1}
    BY <1>1
  <2>2. \A e \in Devices : e \in Nat
    BY DevicesAreNumbers
  <2>3. present' \subseteq 1 .. plugged'
    BY <1>2, <2>1
  <2>4. \A e \in Devices : e <= plugged => e <= plugged'
    BY <1>2, <2>1, <2>2
  <2> QED  BY <1>2, <2>1, <2>3, <2>4
<1> HIDE DEF d
<1>9. LeftIsGone'
  BY <1>1, <1>3 DEF HInv, Places, LeftIsGone
<1>10. Places'
  <2>1. \A i \in DOMAIN udev' : udev'[i].act = "remove" => \A e \in present' : Plugs[e] # Plugs[udev'[i].dev]
    BY <1>5, <1>6
  <2> QED  BY <1>1, <1>7, <1>8, <1>9, <2>1 DEF HInv, Places, Attached
<1>11. ASSUME NEW f \in Fds, handles[f] # Closed PROVE handles[f].node # d /\ handles[f].dev # d
  BY <1>3, <1>11, <1>1, <1>2 DEF HInv, Opened, d
<1>12. Opened'
  <2>1. \A f \in Fds : handles[f] # Closed => handles[f].node <= plugged'
    <3>1. TAKE f \in Fds
    <3>2. HAVE handles[f] # Closed
    <3>3. handles[f].node <= plugged /\ handles[f].node \in Nat
      <4>1. handles[f] \in OpenDevices /\ handles[f].node <= plugged
        BY <3>2 DEF HInv, Opened, IInv, Typed
      <4>2. handles[f].node \in Devices \cup {0}
        BY <4>1 DEF OpenDevices, None
      <4>3. \A e \in Devices : e \in Nat
        BY DevicesAreNumbers
      <4>4. handles[f].node \in Nat
        BY <4>2, <4>3
      <4> QED  BY <4>1, <4>4
    <3> QED  BY <1>1, <1>2, <3>3 DEF d
  <2> QED  BY <1>1, <1>11, <2>1 DEF HInv, Opened
<1>13. Watched'
  <2>1. \A f \in ev.errs : f \in removed \/ handles[f].node \notin present'
    <3>1. TAKE f \in ev.errs
    <3>2. CASE handles[f] # Closed
      BY <1>1, <1>11, <3>2 DEF HInv, Watched, IInv, Typed
    <3>3. CASE handles[f] = Closed
      <4>1. handles[f].node = 0
        BY <3>3 DEF Closed, None
      <4> QED  BY <1>1, <1>2, <4>1, DevicesAreNumbers
    <3> QED  BY <3>2, <3>3
  <2> QED  BY <1>1, <2>1 DEF HInv, Watched
<1>14. Refs' /\ Shapes' /\ Released'
  BY <1>1, RefsSame DEF HInv, Shapes, ListsReady, Released
<1> QED  BY <1>10, <1>12, <1>13, <1>14 DEF HInv

LEMMA UnplugStep ==
  ASSUME HInv, IInv', Unplug PROVE HInv'
<1>1. PICK d \in present :
        /\ present' = present \ {d}
        /\ udev' = IF Monitored THEN Append(udev, [act |-> "remove", dev |-> d]) ELSE udev
  BY DEF Unplug
<1>2. UNCHANGED <<plugged, devs, refs, hot, msgs, cbs, handles, fds, removed, user, list, ev>>
  BY DEF Unplug, devices, pending, polling
<1>3. udev \in Seq(UdevEvents) /\ d \in Devices
  BY DEF HInv, IInv, Typed
<1>4. \A i \in DOMAIN udev' : udev'[i].dev = d \/ (i \in DOMAIN udev /\ udev'[i] = udev[i])
  <2>1. CASE Monitored
    <3> DEFINE m == [act |-> "remove", dev |-> d]
    <3>1. m \in UdevEvents /\ m.dev = d /\ udev' = Append(udev, m)
      BY <1>1, <1>3, <2>1 DEF UdevEvents
    <3> HIDE DEF m
    <3>2. /\ Append(udev, m) \in Seq(UdevEvents) /\ Len(Append(udev, m)) = Len(udev) + 1
          /\ \A i \in 1 .. Len(udev) : Append(udev, m)[i] = udev[i]
          /\ Append(udev, m)[Len(udev) + 1] = m
      BY <1>3, <3>1, AppendProperties
    <3>3. Len(udev) \in Nat /\ DOMAIN udev = 1 .. Len(udev) /\ DOMAIN Append(udev, m) = 1 .. Len(udev) + 1
      BY <1>3, <3>2, LenProperties
    <3> QED  BY <3>1, <3>2, <3>3
  <2>2. CASE ~Monitored
    BY <1>1, <2>2
  <2> QED  BY <2>1, <2>2
<1>5. \A i \in DOMAIN udev' : udev'[i].act = "remove" => \A e \in present' : Plugs[e] # Plugs[udev'[i].dev]
  <2>1. TAKE i \in DOMAIN udev'
  <2>2. CASE udev'[i].dev = d
    BY <1>1, <2>2 DEF HInv, Places
  <2>3. CASE i \in DOMAIN udev /\ udev'[i] = udev[i]
    BY <1>1, <2>3 DEF HInv, Places
  <2> QED  BY <1>4, <2>2, <2>3
<1>6. Places'
  <2>1. LeftIsGone'
    BY <1>1, <1>2 DEF HInv, Places, LeftIsGone
  <2> QED  BY <1>1, <1>2, <1>5, <2>1 DEF HInv, Places, Attached
<1>7. Opened' /\ Watched'
  BY <1>1, <1>2 DEF HInv, Opened, Watched
<1>8. Refs' /\ Shapes' /\ Released'
  BY <1>2, RefsSame DEF HInv, Shapes, ListsReady, Released
<1> QED  BY <1>6, <1>7, <1>8 DEF HInv

-----------------------------------------------------------------------------
(* A device of the list, no longer plugged in, is taken off it.            *)
LEMMA PlacesLeft ==
  ASSUME Places, devs \in [Devices -> States], NEW e \in Devices, Attached(e), e \notin present,
         devs' = [devs EXCEPT ![e] = "left"], UNCHANGED <<plugged, present>>,
         \A i \in DOMAIN udev' : \E j \in DOMAIN udev : udev'[i] = udev[j],
         user.at = "done" => user'.at = "done"
  PROVE  Places'
<1>1. \A d \in Devices : devs'[d] = IF d = e THEN "left" ELSE devs[d]
  OBVIOUS
<1>2. \A d \in Devices : devs'[d] = "attached" => devs[d] = "attached"
  BY <1>1
<1>3. LeftIsGone'
  BY <1>1 DEF Places, LeftIsGone
<1>4. \A d \in Devices : devs'[d] # "none" => devs[d] # "none"
  BY <1>1 DEF Attached
<1>5. \A i \in DOMAIN udev' :
        udev'[i].act = "remove" => \A d \in present : Plugs[d] # Plugs[udev'[i].dev]
  BY DEF Places
<1> QED  BY <1>2, <1>3, <1>4, <1>5 DEF Places, Attached

LEMMA TailOfUdev ==
  ASSUME udev \in Seq(UdevEvents), udev # <<>>
  PROVE  /\ Head(udev) \in UdevEvents /\ Head(udev) = udev[1] /\ 1 \in DOMAIN udev
         /\ \A i \in DOMAIN Tail(udev) : \E j \in DOMAIN udev : Tail(udev)[i] = udev[j]
<1>1. /\ Head(udev) \in UdevEvents /\ Head(udev) = udev[1] /\ Tail(udev) \in Seq(UdevEvents)
      /\ Len(Tail(udev)) = Len(udev) - 1
      /\ \A i \in 1 .. Len(Tail(udev)) : Tail(udev)[i] = udev[i + 1]
  BY HeadTailProperties
<1>2. Len(udev) \in Nat /\ Len(udev) # 0 /\ DOMAIN udev = 1 .. Len(udev) /\ DOMAIN Tail(udev) = 1 .. Len(Tail(udev))
  BY <1>1, LenProperties, EmptySeq
<1>3. 1 \in DOMAIN udev
  BY <1>2
<1>4. ASSUME NEW i \in DOMAIN Tail(udev) PROVE i + 1 \in DOMAIN udev /\ Tail(udev)[i] = udev[i + 1]
  BY <1>1, <1>2
<1> QED  BY <1>1, <1>3, <1>4

(* A device found by the monitor or by hotplug_poll.                       *)
LEMMA ConnectPlaces ==
  ASSUME Places, devs \in [Devices -> States], NEW d \in present, d \in Devices,
         At(Plugs[d]) = {}, devs' = [devs EXCEPT ![d] = "attached"], UNCHANGED <<plugged, present, user>>,
         \A i \in DOMAIN udev' : \E j \in DOMAIN udev : udev'[i] = udev[j]
  PROVE  Places'
<1>1. \A e \in Devices : devs'[e] = IF e = d THEN "attached" ELSE devs[e]
  OBVIOUS
<1>2. \A e \in Devices : Attached(e) => Plugs[e] # Plugs[d]
  BY DEF At
<1>3. LeftIsGone'
  BY <1>1 DEF Places, LeftIsGone
<1>4. d <= plugged
  BY DEF Places
<1>5. \A e \in Devices : devs'[e] # "none" => e <= plugged
  BY <1>1, <1>4 DEF Places
<1>6. \A e, g \in Devices : Attached(e)' /\ Attached(g)' /\ Plugs[e] = Plugs[g] => e = g
  BY <1>1, <1>2 DEF Places, Attached
<1>7. \A i \in DOMAIN udev' :
        udev'[i].act = "remove" => \A e \in present : Plugs[e] # Plugs[udev'[i].dev]
  <2>1. TAKE i \in DOMAIN udev'
  <2>2. PICK j \in DOMAIN udev : udev'[i] = udev[j]
    OBVIOUS
  <2> QED  BY <2>2 DEF Places
<1> QED  BY <1>3, <1>5, <1>6, <1>7 DEF Places, Attached

LEMMA HotplugEventHInv ==
  ASSUME HInv, IInv', NEW by, HotplugEvent(by), Head(udev).act = "remove" => ListsReady
  PROVE  HInv'
<1> DEFINE m == Head(udev)
<1>1. /\ udev # <<>> /\ hot = <<>> /\ udev' = Tail(udev)
      /\ \/ Active /\ m.act = "add" /\ At(Plugs[m.dev]) = {} /\ m.dev \in present /\ Connect(by, m.dev)
         \/ Active /\ m.act = "remove" /\ Disconnect(by, Plugs[m.dev])
         \/ UNCHANGED <<devs, refs, hot>>
      /\ UNCHANGED <<plugged, present, msgs, cbs, handles, fds, removed, user, list, ev>>
  BY DEF HotplugEvent, devices, pending, polling
<1>2. /\ m \in UdevEvents /\ m = udev[1] /\ 1 \in DOMAIN udev
      /\ \A i \in DOMAIN udev' : \E j \in DOMAIN udev : udev'[i] = udev[j]
  BY <1>1, TailOfUdev DEF HInv, IInv, Typed
<1>3. m.dev \in Devices /\ devs \in [Devices -> States]
  BY <1>2 DEF UdevEvents, HInv, Refs, Sound
<1>4. Active => user.at # "done"
  BY DEF Active
<1> HIDE DEF m
<1>5. CASE Active /\ m.act = "add" /\ At(Plugs[m.dev]) = {} /\ m.dev \in present /\ Connect(by, m.dev)
  <2> DEFINE d == m.dev
  <2>1. d \in present /\ d \in Devices /\ user.at # "done" /\ At(Plugs[d]) = {}
    BY <1>3, <1>4, <1>5
  <2>2. /\ devs' = [devs EXCEPT ![d] = "attached"]
        /\ hot' = <<[by |-> by, event |-> "arrived", dev |-> d]>> /\ Connect(by, d)
    BY <1>5 DEF Connect
  <2> HIDE DEF d
  <2>3. devs[d] = "none"
    <3>1. ~Attached(d)
      BY <2>1 DEF At
    <3> QED  BY <2>1, <3>1 DEF HInv, Places, LeftIsGone, Attached
  <2>4. Refs'
    BY <1>1, <2>1, <2>2, <2>3, RefsConnect DEF HInv
  <2>5. Places'
    BY <1>1, <1>2, <1>3, <2>1, <2>2, ConnectPlaces DEF HInv
  <2>6. Opened'
    <3>1. \A e \in Devices : devs'[e] = IF e = d THEN "attached" ELSE devs[e]
      BY <1>3, <2>2
    <3> QED  BY <1>1, <3>1 DEF HInv, Opened
  <2>7. Watched' /\ Released'
    BY <1>1, <2>1 DEF HInv, Watched, Released
  <2>8. Shapes'
    <3>1. Len(hot') = 1 /\ \A i \in DOMAIN hot' : hot'[i].event = "arrived"
      BY <2>2
    <3> QED  BY <1>1, <3>1 DEF HInv, Shapes, ListsReady
  <2> QED  BY <2>4, <2>5, <2>6, <2>7, <2>8 DEF HInv
<1>6. CASE Active /\ m.act = "remove" /\ Disconnect(by, Plugs[m.dev])
  <2>1. PICK e \in At(Plugs[m.dev]) :
          /\ devs' = [devs EXCEPT ![e] = "left"]
          /\ refs' = [refs EXCEPT ![e] = @ + 1]
          /\ hot' = <<[by |-> by, event |-> "left", dev |-> e]>>
    BY <1>6 DEF Disconnect
  <2>2. e \in Devices /\ Attached(e) /\ Plugs[e] = Plugs[m.dev] /\ user.at # "done"
    BY <1>4, <1>6 DEF At
  <2>3. e \notin present
    BY <1>2, <1>6, <2>2 DEF HInv, Places
  <2>4. Refs'
    BY <1>1, <2>1, <2>2, RefsDisconnect DEF HInv
  <2>5. Places'
    BY <1>1, <1>2, <1>3, <2>1, <2>2, <2>3, PlacesLeft DEF HInv
  <2>6. Opened'
    <3>1. \A g \in Devices : devs'[g] # "none" <=> devs[g] # "none"
      BY <1>3, <2>1, <2>2 DEF Attached
    <3> QED  BY <1>1, <3>1 DEF HInv, Opened
  <2>7. Watched' /\ Released'
    BY <1>1, <2>2 DEF HInv, Watched, Released
  <2>8. Shapes'
    <3>1. Len(hot') = 1 /\ ListsReady /\ ListsReady'
      BY <1>1, <1>6, <2>1 DEF ListsReady, m
    <3> QED  BY <1>1, <3>1 DEF HInv, Shapes
  <2> QED  BY <2>4, <2>5, <2>6, <2>7, <2>8 DEF HInv
<1>7. CASE UNCHANGED <<devs, refs, hot>>
  <2>1. Refs'
    BY <1>1, <1>7, RefsSame DEF HInv
  <2>2. Places'
    <3>1. \A i \in DOMAIN udev' :
            udev'[i].act = "remove" => \A d \in present : Plugs[d] # Plugs[udev'[i].dev]
      BY <1>2 DEF HInv, Places
    <3> QED  BY <1>1, <1>7, <3>1 DEF HInv, Places, LeftIsGone, Attached
  <2>3. Opened' /\ Watched' /\ Shapes' /\ Released'
    BY <1>1, <1>7 DEF HInv, Opened, Watched, Shapes, ListsReady, Released
  <2> QED  BY <2>1, <2>2, <2>3 DEF HInv
<1> QED  BY <1>1, <1>5, <1>6, <1>7 DEF m

LEMMA HotplugSteps ==
  ASSUME HInv, IInv', "init" \notin Races, Monitor \/ HotplugPoll PROVE HInv'
<1>1. CASE Monitor
  <2>1. HotplugEvent("monitor") /\ udev # <<>>
    BY <1>1 DEF Monitor, HotplugEvent
  <2>2. Head(udev).act = "remove" => ListsReady
    BY <1>1, <2>1 DEF Monitor
  <2> QED  BY <2>1, <2>2, HotplugEventHInv
<1>2. CASE HotplugPoll
  <2>1. HotplugEvent("user") /\ ListsReady
    BY <1>2 DEF HotplugPoll, At_, ListsReady
  <2> QED  BY <2>1, HotplugEventHInv
<1> QED  BY <1>1, <1>2

-----------------------------------------------------------------------------
(* Steps that give references back or take them, and free devices at most. *)
LEMMA CountingSteps ==
  ASSUME HInv, IInv', Refs', Wears, UNCHANGED <<plugged, present, udev, handles, fds, removed>>,
         UNCHANGED cbs, user'.at # "done" /\ user.at # "done",
         ev' = ev \/ (ev.at # "idle" /\ ev'.errs = ev.errs),
         Shapes'
  PROVE  HInv'
<1>1. Places'
  BY PlacesSame DEF HInv, IInv, Typed
<1>2. Opened'
  BY OpenedSame DEF HInv, Wears
<1>3. Watched'
  BY DEF HInv, Watched
<1>4. Released'
  BY DEF HInv, Released
<1> QED  BY <1>1, <1>2, <1>3, <1>4 DEF HInv

LEMMA NotifyHInv ==
  ASSUME HInv, IInv', "pipe" \notin Races, Notify PROVE HInv'
<1>1. /\ hot # <<>> /\ hot' = <<>>
      /\ UNCHANGED <<plugged, present, udev, cbs, handles, fds, removed, user, list, ev>>
      /\ devs' = Freed(refs', devs) \/ UNCHANGED devs
  BY DEF Notify, Unref, kernel, polling
<1>2. user.at # "done"
  BY <1>1 DEF HInv, IInv, Leaving
<1>3. Refs'
  BY RefsNotify DEF HInv
<1>4. Shapes'
  <2>1. Len(hot') = 0 /\ DOMAIN hot' = {}
    BY <1>1
  <2> QED  BY <1>1, <2>1 DEF HInv, Shapes, ListsReady
<1> QED  BY <1>1, <1>2, <1>3, <1>4, WearsFreed, CountingSteps

LEMMA EndMessageHInv ==
  ASSUME HInv, IInv', EndMessage PROVE HInv'
<1>1. /\ ev.at = "hotplug" /\ ev' = [ev EXCEPT !.msg = <<>>]
      /\ UNCHANGED <<plugged, present, udev, hot, cbs, handles, fds, removed, user, list>>
      /\ devs' = Freed(refs', devs) \/ UNCHANGED devs
  BY DEF EndMessage, Unref, kernel, polling
<1>2. user.at # "done"
  BY <1>1 DEF HInv, IInv, Handling
<1>3. ev'.at = "hotplug" /\ ev'.errs = ev.errs /\ ev'.msg = <<>>
  BY <1>1 DEF HInv, IInv, Typed
<1>4. Refs'
  BY RefsEndMessage DEF HInv
<1>5. Shapes'
  <2>1. Len(ev'.msg) = 0
    BY <1>3
  <2> QED  BY <1>1, <1>3, <2>1 DEF HInv, Shapes, ListsReady
<1> QED  BY <1>1, <1>2, <1>3, <1>4, <1>5, WearsFreed, CountingSteps

LEMMA ListSteps ==
  ASSUME HInv, IInv', TakeList \/ FreeList PROVE HInv'
<1>1. /\ UNCHANGED <<plugged, present, udev, hot, cbs, handles, fds, removed, ev>>
      /\ devs' = Freed(refs', devs) \/ UNCHANGED devs
  BY DEF TakeList, FreeList, Unref, kernel, polling
<1>2. /\ user.at \in {"list", "open", "call", "free"} /\ user'.at \in {"open", "call", "idle"}
      /\ list' # {} => user'.at \in {"open", "call"}
  <2>1. user \in [at : UserPcs, arg : Nat, todo : SUBSET Devices]
    BY DEF HInv, IInv, Typed
  <2>2. CASE TakeList
    <3>1. user.at = "list" /\ user' = [user EXCEPT !.at = IF user.arg = None THEN "open" ELSE "call",
                            !.todo = IF user.arg = None THEN {} ELSE list']
      BY <2>2 DEF TakeList, At_
    <3>2. user'.at = IF user.arg = None THEN "open" ELSE "call"
      BY <2>1, <3>1
    <3> QED  BY <3>1, <3>2
  <2>3. CASE FreeList
    BY <2>3 DEF FreeList, At_, Idle
  <2> QED  BY <2>2, <2>3
<1>3. Refs'
  BY RefsList DEF HInv
<1>4. Shapes'
  BY <1>1, <1>2 DEF HInv, Shapes, ListsReady
<1> QED  BY <1>1, <1>2, <1>3, <1>4, WearsFreed, CountingSteps

LEMMA ScanHInv ==
  ASSUME HInv, IInv', Scan PROVE HInv'
<1> DEFINE new == {d \in present : At(Plugs[d]) = {}}
<1>1. /\ user.at = "started" /\ user' = [user EXCEPT !.at = "scanned"]
      /\ devs' = [d \in Devices |-> IF d \in new THEN "attached" ELSE devs[d]]
      /\ UNCHANGED <<plugged, present, udev, hot, cbs, handles, fds, removed, list, ev>>
  BY DEF Scan, At_, Goto, kernel, polling
<1>2. user'.at = "scanned"
  BY <1>1 DEF HInv, IInv, Typed
<1>3. /\ present \subseteq Devices /\ new \subseteq present
      /\ \A d \in Devices : devs'[d] = IF d \in new THEN "attached" ELSE devs[d]
      /\ \A d \in new, e \in Devices : Attached(e) => Plugs[e] # Plugs[d]
  BY <1>1 DEF HInv, IInv, Typed, At
<1> HIDE DEF new
<1>4. Refs'
  BY RefsScan DEF HInv
<1>5. Places'
  <2>1. LeftIsGone'
    BY <1>1, <1>3 DEF HInv, Places, LeftIsGone
  <2>2. \A d \in Devices : devs'[d] # "none" => d <= plugged
    <3>1. present \subseteq 1 .. plugged /\ \A d \in Devices : devs[d] # "none" => d <= plugged
      BY DEF HInv, Places
    <3>2. \A d \in present : d <= plugged
      BY <3>1
    <3> QED  BY <1>3, <3>1, <3>2
  <2>3. \A d, e \in Devices : Attached(d)' /\ Attached(e)' /\ Plugs[d] = Plugs[e] => d = e
    BY <1>3 DEF HInv, Places, Attached
  <2> QED  BY <1>1, <2>1, <2>2, <2>3 DEF HInv, Places
<1>6. Opened'
  BY <1>1, <1>3 DEF HInv, Opened
<1>7. Watched' /\ Shapes' /\ Released'
  BY <1>1, <1>2 DEF HInv, Watched, Shapes, ListsReady, Released
<1> QED  BY <1>4, <1>5, <1>6, <1>7 DEF HInv

LEMMA ExitFreeHInv ==
  ASSUME HInv, IInv', ExitFree PROVE HInv'
<1>1. /\ user.at = "drained" /\ user' = [user EXCEPT !.at = "done"]
      /\ UNCHANGED <<plugged, present, udev, hot, cbs, handles, fds, removed, list, ev>>
  BY DEF ExitFree, At_, Goto, kernel, polling
<1>2. user'.at = "done"
  BY <1>1 DEF HInv, IInv, Typed
<1>3. Refs' /\ \A d \in Devices : devs'[d] \in {"none", "freed"}
  BY RefsExitFree DEF HInv
<1>4. \A d \in Devices : devs'[d] # "none" <=> devs[d] # "none"
  <2> DEFINE off == [d \in Devices |-> IF Attached(d) THEN "left" ELSE devs[d]]
  <2>1. devs' = Freed(refs', off)
    BY DEF ExitFree
  <2>2. \A d \in Devices : off[d] = IF devs[d] = "attached" THEN "left" ELSE devs[d]
    BY DEF Attached
  <2> HIDE DEF off
  <2> QED  BY <2>1, <2>2 DEF Freed
<1>5. Places'
  <2>1. LeftIsGone'
    BY <1>2 DEF LeftIsGone
  <2> QED  BY <1>1, <1>3, <1>4, <2>1 DEF HInv, Places, Attached
<1>6. Opened'
  BY <1>1, <1>4 DEF HInv, Opened
<1>7. Watched' /\ Released'
  BY <1>1, <1>3 DEF HInv, Watched, Released
<1>8. Shapes'
  BY <1>1, <1>2 DEF HInv, Shapes, ListsReady
<1> QED  BY <1>3, <1>5, <1>6, <1>7, <1>8 DEF HInv

-----------------------------------------------------------------------------
CallbackStates == {"none", "listed", "marked", "freed"}

(* What the application's thread has as an argument.                       *)
Args ==
    /\ user.at \in {"none", "started", "scanned", "pipe", "idle"} => user.arg = None
    /\ user.at = "closing" => user.arg \in Fds
    /\ user.at = "call" => user.arg # None

LEMMA NextArgs == IInv /\ Args /\ [Next]_vars => Args'
<1> SUFFICES ASSUME IInv, Args, [Next]_vars PROVE Args'
  OBVIOUS
<1>1. user \in [at : UserPcs, arg : Nat, todo : SUBSET Devices]
  BY DEF IInv, Typed
<1>2. CASE UNCHANGED user
  BY <1>2 DEF Args
<1>3. CASE StartInit \/ Scan \/ IoInitLists \/ IoInit \/ Exit \/ ExitDeregister \/ ExitFree
           \/ Find \/ OpenFound \/ EventEnd
  <2>1. CASE StartInit \/ Scan \/ IoInitLists \/ IoInit \/ Find
    <3>1. /\ user.arg = None
          /\ \E pc \in {"started", "scanned", "pipe", "idle", "list"} : user' = [user EXCEPT !.at = pc]
      BY <2>1 DEF StartInit, Scan, IoInitLists, IoInit, Find, Goto, At_, Args
    <3> QED  BY <1>1, <3>1 DEF Args
  <2>2. CASE Exit \/ ExitDeregister \/ ExitFree \/ OpenFound \/ EventEnd
    <3>1. \/ user' = user
          \/ \E pc \in {"exiting", "drain", "drained", "done", "free"} : user' = [user EXCEPT !.at = pc]
      BY <2>2 DEF Exit, ExitDeregister, ExitFree, OpenFound, EventEnd, Goto
    <3> QED  BY <1>1, <3>1 DEF Args
  <2> QED  BY <1>3, <2>1, <2>2
<1>4. CASE FreeList \/ CloseLocked
  BY <1>4 DEF FreeList, CloseLocked, Idle, Args
<1>5. CASE TakeList
  <2>1. user' = [user EXCEPT !.at = IF user.arg = None THEN "open" ELSE "call",
                            !.todo = IF user.arg = None THEN {} ELSE list']
    BY <1>5 DEF TakeList
  <2>2. user'.at = (IF user.arg = None THEN "open" ELSE "call") /\ user'.arg = user.arg
    BY <1>1, <2>1
  <2> QED  BY <2>2 DEF Args
<1>6. CASE Close
  <2>1. PICK f \in Fds : user' = [user EXCEPT !.at = "closing", !.arg = f]
    BY <1>6 DEF Close
  <2>2. user'.at = "closing" /\ user'.arg = f
    BY <1>1, <2>1
  <2> QED  BY <2>2 DEF Args
<1>7. CASE Register
  <2>1. user' = user \/ \E c : user' = [user EXCEPT !.at = "list", !.arg = c]
    BY <1>7 DEF Register
  <2> QED  BY <1>1, <2>1 DEF Args
<1>8. CASE EnumerateCall
  <2>1. \E d : user' = [user EXCEPT !.todo = @ \ {d}]
    BY <1>8 DEF EnumerateCall
  <2> QED  BY <1>1, <2>1 DEF Args
<1>9. CASE Plug \/ Unplug \/ Monitor \/ Notify \/ HotplugPoll \/ Deregister \/ Interrupt
  BY <1>2, <1>9 DEF Plug, Unplug, Monitor, Notify, HotplugPoll, HotplugEvent, Deregister, Interrupt
<1>10. CASE EventBegin \/ EventPoll \/ EventPipe \/ EventDeregister \/ TakeMessage
            \/ CallBack \/ EndMessage \/ EndMessages \/ UsbfsError
  BY <1>2, <1>10 DEF EventBegin, EventPoll, EventPipe, EventDeregister, TakeMessage, CallBack,
     EndMessage, EndMessages, UsbfsError
<1>11. CASE Done \/ UNCHANGED vars
  BY <1>2, <1>11 DEF Done, vars
<1> QED
  BY <1>3, <1>4, <1>5, <1>6, <1>7, <1>8, <1>9, <1>10, <1>11 DEF Next, User, Events

-----------------------------------------------------------------------------
(* libusb_open, from the application's thread or from a callback.          *)
LEMMA OpenKeeps ==
  ASSUME HInv, NEW by, NEW d \in Devices, Open(by, d),
         UNCHANGED <<plugged, present, udev, msgs, list, fds, removed>>,
         UNCHANGED <<ev.at, ev.errs, ev.msg, ev.batch>>,
         cbs' \in [Callbacks -> CallbackStates],
         ListsReady, ListsReady', user.at # "done", user'.at # "done",
         list # {} => user'.at \in {"open", "call", "free"}
  PROVE  Refs' /\ Places' /\ Opened' /\ Watched' /\ Shapes' /\ Released'
<1>1. Refs'
  BY RefsOpen DEF HInv
<1>2. Released'
  BY DEF Released, CallbackStates
<1>3. devs \in [Devices -> States] /\ handles \in [Fds -> OpenDevices]
  BY DEF HInv, Refs, Sound, IInv, Typed
<1>4. CASE Nodes(d) # {}
  <2> DEFINE n == CHOOSE n \in Nodes(d) : TRUE
             r == [dev |-> d, node |-> n, removed |-> FALSE]
  <2>1. /\ Attached(d) /\ \E f \in Fds : handles[f] = Closed
        /\ handles' = [handles EXCEPT ![Lowest] = r] /\ UNCHANGED <<devs, hot>>
    BY <1>4 DEF Open
  <2>2. Lowest \in Fds /\ handles[Lowest] = Closed
    BY <2>1, LowestIsClosed
  <2>3. n \in present /\ Plugs[n] = Plugs[d]
    BY <1>4 DEF Nodes
  <2>4. r.dev = d /\ r.node = n
    OBVIOUS
  <2> HIDE DEF n, r
  <2>5. \A g \in Fds : handles'[g] = IF g = Lowest THEN r ELSE handles[g]
    BY <1>3, <2>1, <2>2
  <2>6. Places'
    BY <2>1, PlacesSame, WearsFreed DEF HInv, IInv, Typed
  <2>7. Opened'
    <3>1. n <= plugged
      <4>1. present \subseteq 1 .. plugged
        BY DEF HInv, Places
      <4> QED  BY <2>3, <4>1
    <3>2. d \in present => n = d
      BY <2>3 DEF HInv, Places
    <3>3. d \in Devices /\ devs[d] # "none"
      BY <2>1 DEF Attached
    <3> QED  BY <2>1, <2>4, <2>5, <3>1, <3>2, <3>3 DEF HInv, Opened
  <2>8. Watched'
    <3>1. ev.at # "idle" => (Lowest \in fds \cup ev.errs => Lowest \in removed)
      BY <2>2 DEF HInv, Watched
    <3>2. Lowest \in ev.errs => Lowest \in removed
      BY <3>1 DEF HInv, IInv, Handling, Waiting
    <3>3. fds \subseteq Fds /\ ev.errs \subseteq Fds
      BY DEF HInv, IInv, Typed
    <3> QED  BY <2>5, <3>1, <3>2, <3>3 DEF HInv, Watched
  <2>9. Shapes'
    BY <2>1 DEF HInv, Shapes
  <2> QED  BY <1>1, <1>2, <2>6, <2>7, <2>8, <2>9
<1>5. CASE Nodes(d) = {}
  <2>1. handles' = handles /\ Disconnect(by, Plugs[d])
    BY <1>5 DEF Open
  <2>2. PICK e \in At(Plugs[d]) :
          /\ devs' = [devs EXCEPT ![e] = "left"]
          /\ hot' = <<[by |-> by, event |-> "left", dev |-> e]>>
    BY <2>1 DEF Disconnect
  <2>3. e \in Devices /\ Attached(e) /\ e \notin present
    BY <1>5 DEF At, Nodes
  <2>4. \A g \in Devices : devs'[g] # "none" <=> devs[g] # "none"
    BY <1>3, <2>2, <2>3 DEF Attached
  <2>5. Places'
    BY <1>3, <2>2, <2>3, PlacesLeft DEF HInv
  <2>6. Opened' /\ Watched'
    BY <2>1, <2>4 DEF HInv, Opened, Watched
  <2>7. Shapes'
    <3>1. Len(hot') = 1
      BY <2>2
    <3> QED  BY <3>1 DEF HInv, Shapes
  <2> QED  BY <1>1, <1>2, <2>5, <2>6, <2>7
<1> QED  BY <1>4, <1>5

(* do_close, in libusb_close or from a callback.                           *)
LEMMA CloseKeeps ==
  ASSUME HInv, NEW f \in Fds, DoClose(f),
         UNCHANGED <<plugged, present, udev, hot, msgs, list, fds>>,
         UNCHANGED <<ev.at, ev.errs, ev.msg, ev.batch>>,
         cbs' \in [Callbacks -> CallbackStates],
         ListsReady, ListsReady', user.at # "done", user'.at # "done",
         list # {} => user'.at \in {"open", "call", "free"}
  PROVE  Refs' /\ Places' /\ Opened' /\ Watched' /\ Shapes' /\ Released'
<1>1. Refs'
  BY RefsClose DEF HInv
<1>2. Released' /\ Shapes'
  BY DEF HInv, Released, CallbackStates, Shapes
<1>3. /\ devs' = Freed(refs', devs) /\ handles' = [handles EXCEPT ![f] = Closed]
      /\ removed' = IF handles[f].removed THEN removed ELSE removed \cup {f}
  BY DEF DoClose, Unref
<1>4. \A g \in Fds : handles'[g] = IF g = f THEN Closed ELSE handles[g]
  BY <1>3 DEF HInv, IInv, Typed
<1>5. Wears
  BY <1>3, WearsFreed
<1>6. Places'
  BY <1>5, PlacesSame DEF HInv, IInv, Typed
<1>7. Opened'
  BY <1>4, <1>5, OpenedSame DEF HInv, Wears
<1>8. Watched'
  <2>1. ev.at # "idle" => (f \in fds \cup ev.errs => f \in removed')
    BY <1>3 DEF HInv, Watched
  <2>2. ev.at = "idle" => ev.errs = {}
    BY DEF HInv, IInv, Handling, Waiting
  <2>3. removed \subseteq removed'
    BY <1>3
  <2>4. fds \subseteq Fds /\ ev.errs \subseteq Fds
    BY DEF HInv, IInv, Typed
  <2> QED  BY <1>4, <2>1, <2>2, <2>3, <2>4 DEF HInv, Watched
<1> QED  BY <1>1, <1>2, <1>6, <1>7, <1>8

LEMMA CloseLockedHInv ==
  ASSUME HInv, Args, IInv', CloseLocked PROVE HInv'
<1>1. /\ user.at = "closing" /\ ev.at = "idle" /\ user' = Idle /\ DoClose(user.arg)
      /\ UNCHANGED <<plugged, present, udev, hot, msgs, cbs, fds, list, ev>>
  BY DEF CloseLocked, At_, kernel
<1>2. user.arg \in Fds
  BY <1>1 DEF Args
<1>3. ListsReady /\ ListsReady' /\ user'.at = "idle" /\ list = {}
  BY <1>1 DEF HInv, Shapes, ListsReady, Idle
<1>4. cbs' \in [Callbacks -> CallbackStates]
  BY <1>1 DEF HInv, Released, CallbackStates
<1>5. Refs' /\ Places' /\ Opened' /\ Watched' /\ Shapes' /\ Released'
  BY <1>1, <1>2, <1>3, <1>4, CloseKeeps
<1> QED  BY <1>5 DEF HInv

LEMMA OpenFoundHInv ==
  ASSUME HInv, IInv', OpenFound PROVE HInv'
<1>1. /\ user.at = "open" /\ user' = [user EXCEPT !.at = "free"]
      /\ UNCHANGED <<plugged, present, udev, msgs, cbs, fds, removed, list, ev>>
      /\ \/ \E d \in list : Open("user", d)
         \/ UNCHANGED <<devs, refs, hot, handles>>
  BY DEF OpenFound, At_, Goto, kernel, devices
<1>2. ListsReady /\ ListsReady' /\ user'.at = "free"
  BY <1>1 DEF HInv, IInv, Typed, ListsReady
<1>3. cbs' \in [Callbacks -> CallbackStates]
  BY <1>1 DEF HInv, Released, CallbackStates
<1>4. CASE \E d \in list : Open("user", d)
  <2>1. PICK d \in list : Open("user", d)
    BY <1>4
  <2>2. d \in Devices
    BY DEF HInv, IInv, Typed
  <2>3. Refs' /\ Places' /\ Opened' /\ Watched' /\ Shapes' /\ Released'
    BY <1>1, <1>2, <1>3, <2>1, <2>2, OpenKeeps
  <2> QED  BY <2>3 DEF HInv
<1>5. CASE UNCHANGED <<devs, refs, hot, handles>>
  <2>1. UserMoves /\ Released'
    BY <1>1, <1>2, <1>3, <1>5 DEF HInv, Shapes, UserMoves, Released, CallbackStates
  <2> QED  BY <1>1, <1>5, <2>1, CalmSteps
<1> QED  BY <1>1, <1>4, <1>5

LEMMA CallBackHInv ==
  ASSUME HInv, IInv', CallBack PROVE HInv'
<1> DEFINE c == Max(ev.todo)
           m == ev.msg[1]
<1>1. /\ ev.at = "hotplug" /\ ev.msg # <<>> /\ ev' = [ev EXCEPT !.todo = @ \ {c}]
      /\ UNCHANGED <<plugged, present, udev, msgs, fds, user, list>>
      /\ \/ UNCHANGED <<devs, refs, hot, handles, removed, cbs>>
         \/ InCallback(m) /\ cbs' \in {cbs, Gone({c})}
  BY DEF CallBack, kernel, devices
<1>2. UNCHANGED <<ev.at, ev.errs, ev.msg, ev.batch>>
  BY <1>1 DEF HInv, IInv, Typed
<1>3. m \in Messages
  <2>1. Len(ev.msg) \in Nat /\ Len(ev.msg) # 0 /\ ev.msg \in Seq(Messages)
    BY <1>1, LenProperties, EmptySeq DEF HInv, IInv, Typed
  <2>2. 1 \in 1 .. Len(ev.msg)
    BY <2>1
  <2> QED  BY <2>1, <2>2, ElementOfSeq
<1> HIDE DEF c, m
<1>4. cbs' \in [Callbacks -> CallbackStates]
  BY <1>1 DEF HInv, Released, CallbackStates, Gone
<1>5. ListsReady /\ ListsReady' /\ user.at # "done" /\ user'.at # "done"
      /\ (list # {} => user'.at \in {"open", "call", "free"})
  BY <1>1 DEF HInv, IInv, Handling, ListsReady, Shapes
<1>6. CASE UNCHANGED <<devs, refs, hot, handles, removed>>
  <2>1. Refs'
    BY <1>1, <1>2, <1>6, RefsSame DEF HInv
  <2>2. Places' /\ Opened' /\ Watched' /\ Shapes'
    BY <1>1, <1>2, <1>6 DEF HInv, Places, LeftIsGone, Attached, Opened, Watched, Shapes, ListsReady
  <2>3. Released'
    BY <1>4, <1>5 DEF Released, CallbackStates
  <2> QED  BY <2>1, <2>2, <2>3 DEF HInv
<1>7. CASE Open("events", m.dev) /\ UNCHANGED removed
  <2>1. m.dev \in Devices
    BY <1>3 DEF Messages
  <2>2. Refs' /\ Places' /\ Opened' /\ Watched' /\ Shapes' /\ Released'
    BY <1>1, <1>2, <1>4, <1>5, <1>7, <2>1, OpenKeeps
  <2> QED  BY <2>2 DEF HInv
<1>8. CASE (\E f \in Fds : DoClose(f)) /\ UNCHANGED hot
  <2>1. Refs' /\ Places' /\ Opened' /\ Watched' /\ Shapes' /\ Released'
    BY <1>1, <1>2, <1>4, <1>5, <1>8, CloseKeeps
  <2> QED  BY <2>1 DEF HInv
<1> QED  BY <1>1, <1>6, <1>7, <1>8 DEF InCallback, devices

(* The device behind a descriptor of the poll set is gone.                 *)
LEMMA UsbfsErrorHInv ==
  ASSUME HInv, IInv', UsbfsError PROVE HInv'
<1>1. /\ ev.at = "usbfs" /\ hot = <<>>
      /\ UNCHANGED <<plugged, present, udev, msgs, cbs, fds, user, list>>
  BY DEF UsbfsError, kernel
<1>2. PICK f \in ev.errs :
        /\ ev' = [ev EXCEPT !.errs = @ \ {f}]
        /\ IF Stale(f) \/ handles[f] = Closed
           THEN UNCHANGED <<devs, refs, hot, handles, removed>>
           ELSE /\ handles' = [handles EXCEPT ![f].removed = TRUE]
                /\ removed' = removed \union {f}
                /\ IF Attached(handles[f].dev)
                   THEN Disconnect("events", Plugs[handles[f].dev])
                   ELSE UNCHANGED <<devs, refs, hot>>
  BY DEF UsbfsError, devices
<1>3. /\ UNCHANGED <<ev.at, ev.msg, ev.batch>> /\ ev'.errs = ev.errs \ {f}
      /\ fds \subseteq Fds /\ ev.errs \subseteq Fds /\ f \in Fds
  BY <1>2 DEF HInv, IInv, Typed
<1>4. ListsReady /\ ListsReady' /\ user.at # "done"
  BY <1>1 DEF HInv, IInv, Handling, ListsReady
<1>5. Released'
  BY <1>1, <1>4 DEF HInv, Released
<1>6. CASE Stale(f) \/ handles[f] = Closed
  <2>1. UNCHANGED <<devs, refs, hot, handles, removed>>
    BY <1>2, <1>6
  <2>2. Refs'
    BY <1>1, <1>3, <2>1, RefsSame DEF HInv
  <2>3. Places' /\ Opened' /\ Watched' /\ Shapes'
    BY <1>1, <1>3, <2>1 DEF HInv, Places, LeftIsGone, Attached, Opened, Watched, Shapes, ListsReady
  <2> QED  BY <1>5, <2>2, <2>3 DEF HInv
<1>7. CASE ~(Stale(f) \/ handles[f] = Closed)
  <2> DEFINE d == handles[f].dev
  <2>1. /\ f \notin removed /\ handles[f] # Closed /\ removed' = removed \cup {f}
        /\ handles' = [handles EXCEPT ![f].removed = TRUE]
        /\ IF Attached(d) THEN Disconnect("events", Plugs[d]) ELSE UNCHANGED <<devs, refs, hot>>
    BY <1>2, <1>7 DEF Stale
  <2>2. \A g \in Fds : /\ handles'[g].dev = handles[g].dev /\ handles'[g].node = handles[g].node
                       /\ g # f => handles'[g] = handles[g]
    <3>1. handles \in [Fds -> OpenDevices] /\ handles[f] \in OpenDevices
      BY <1>3 DEF HInv, IInv, Typed
    <3>2. handles' = [handles EXCEPT ![f] = [handles[f] EXCEPT !.removed = TRUE]]
      BY <2>1
    <3>3. handles'[f] = [handles[f] EXCEPT !.removed = TRUE]
      BY <1>3, <3>1, <3>2
    <3>4. handles'[f].dev = handles[f].dev /\ handles'[f].node = handles[f].node
      BY <3>1, <3>3 DEF OpenDevices
    <3> QED  BY <3>1, <3>2, <3>4
  <2>3. /\ d \in Devices /\ devs[d] # "none" /\ handles[f].node \notin present
        /\ d \in present => handles[f].node = d
    BY <1>3, <2>1 DEF HInv, Opened, Watched
  <2> HIDE DEF d
  <2>4. Watched'
    <3>1. ASSUME NEW g \in fds \cup ev'.errs PROVE g \in removed' \/ (handles'[g] # Closed /\ ~handles'[g].removed)
      <4>1. g = f \/ handles'[g] = handles[g]
        BY <1>3, <2>2
      <4>2. g \in removed \/ (handles[g] # Closed /\ ~handles[g].removed)
        BY <1>1, <1>3 DEF HInv, Watched
      <4> QED  BY <2>1, <4>1, <4>2
    <3>2. ASSUME NEW g \in ev'.errs PROVE g \in removed' \/ handles'[g].node \notin present
      <4>1. g \in removed \/ handles[g].node \notin present
        BY <1>3 DEF HInv, Watched
      <4> QED  BY <1>3, <2>1, <2>2, <4>1
    <3> QED  BY <1>1, <3>1, <3>2 DEF Watched
  <2>5. CASE Attached(d)
    <3>1. d \notin present
      BY <2>3
    <3>2. PICK e \in At(Plugs[d]) :
            /\ devs' = [devs EXCEPT ![e] = "left"]
            /\ refs' = [refs EXCEPT ![e] = @ + 1]
            /\ hot' = <<[by |-> "events", event |-> "left", dev |-> e]>>
      BY <2>1, <2>5 DEF Disconnect
    <3>3. e = d
      BY <2>3, <2>5 DEF At, HInv, Places
    <3>4. Refs'
      BY <1>1, <1>3, <2>2, <2>3, <2>5, <3>2, <3>3, RefsDisconnect DEF HInv
    <3>5. devs \in [Devices -> States]
      BY DEF HInv, Refs, Sound
    <3>6. Places'
      BY <1>1, <2>3, <2>5, <3>1, <3>2, <3>3, <3>5, PlacesLeft DEF HInv
    <3>7. \A g \in Devices : devs[g] # "none" => devs'[g] # "none"
      BY <3>2, <3>5
    <3>8. Opened'
      <4>1. \A g \in Fds : handles'[g] # Closed => handles[g] # Closed
        BY <2>1, <2>2
      <4> QED  BY <1>1, <2>2, <3>7, <4>1 DEF HInv, Opened
    <3>9. Shapes'
      <4>1. Len(hot') = 1
        BY <3>2
      <4> QED  BY <1>1, <1>3, <1>4, <4>1 DEF HInv, Shapes, ListsReady
    <3> QED  BY <1>5, <2>4, <3>4, <3>6, <3>8, <3>9 DEF HInv
  <2>6. CASE ~Attached(d)
    <3>1. UNCHANGED <<devs, refs, hot>>
      BY <2>1, <2>6
    <3>2. Refs'
      <4>1. Chrono' = Chrono /\ Going(hot)' = Going(hot)
        BY <1>1, <1>3, <3>1 DEF Chrono
      <4>2. Sound(devs, refs, Chrono, Going(hot), list, handles')
        BY <2>2, SoundMarked DEF HInv, Refs
      <4> QED  BY <1>1, <3>1, <4>1, <4>2 DEF Refs
    <3>3. Places' /\ Shapes'
      BY <1>1, <1>3, <3>1 DEF HInv, Places, LeftIsGone, Attached, Shapes, ListsReady
    <3>4. Opened'
      <4>1. \A g \in Fds : handles'[g] # Closed => handles[g] # Closed
        BY <2>1, <2>2
      <4> QED  BY <1>1, <2>2, <3>1, <4>1 DEF HInv, Opened
    <3> QED  BY <1>5, <2>4, <3>2, <3>3, <3>4 DEF HInv
  <2> QED  BY <2>5, <2>6
<1> QED  BY <1>6, <1>7

-----------------------------------------------------------------------------
(* All steps together, and what follows.                                   *)
LEMMA NextHInv ==
  ASSUME Races \cap {"init", "pipe"} = {}, HInv, Args, [Next]_vars PROVE HInv' /\ Args'
<1>1. "pipe" \notin Races /\ "init" \notin Races
  OBVIOUS
<1>2. IInv' /\ Args'
  BY <1>1, NextIInv, NextArgs DEF HInv
<1>3. CASE UNCHANGED vars
  <2>1. UNCHANGED <<plugged, present, udev, devs, refs, hot, msgs, cbs, handles, fds, removed, user, list, ev>>
    BY <1>3 DEF vars, kernel, devices, pending, polling
  <2>2. UserMoves /\ Released'
    BY <2>1 DEF UserMoves, HInv, Shapes, ListsReady, Released
  <2> QED  BY <1>2, <2>1, <2>2, CalmSteps
<1>4. CASE Plug \/ Unplug
  BY <1>2, <1>4, PlugStep, UnplugStep
<1>5. CASE Monitor \/ HotplugPoll
  BY <1>1, <1>2, <1>5, HotplugSteps
<1>6. CASE Notify
  BY <1>1, <1>2, <1>6, NotifyHInv
<1>7. CASE EventStill
  BY <1>2, <1>7, EventStillStep
<1>8. CASE CallBack \/ EndMessage \/ UsbfsError
  BY <1>2, <1>8, CallBackHInv, EndMessageHInv, UsbfsErrorHInv
<1>9. CASE StartInit \/ IoInitLists \/ IoInit \/ Exit \/ ExitDeregister \/ Find \/ Close
           \/ Register \/ EnumerateCall \/ Deregister \/ Interrupt
  BY <1>2, <1>9, UserSteps
<1>10. CASE Scan \/ ExitFree \/ TakeList \/ FreeList
  BY <1>2, <1>10, ScanHInv, ExitFreeHInv, ListSteps
<1>11. CASE OpenFound \/ CloseLocked
  BY <1>2, <1>11, OpenFoundHInv, CloseLockedHInv
<1> QED
  BY <1>2, <1>3, <1>4, <1>5, <1>6, <1>7, <1>8, <1>9, <1>10, <1>11 DEF Next, User, Events, Done, EventStill

LEMMA HInvHolds ==
  ASSUME Races \cap {"init", "pipe"} = {} PROVE Spec => [](HInv /\ Args)
<1>1. Init => HInv /\ Args
  <2>1. Init => Args
    BY DEF Init, Args, Idle
  <2> QED  BY <2>1, InitHInv
<1>2. HInv /\ Args /\ [Next]_vars => HInv' /\ Args'
  BY NextHInv
<1> QED  BY <1>1, <1>2, PTL DEF Spec

-----------------------------------------------------------------------------
LEMMA RangeFacts ==
  /\ Range(<<>>) = {}
  /\ \A x : Range(<<x>>) = {x}
  /\ \A S : \A s, t \in Seq(S) : Range(s \o t) = Range(s) \cup Range(t)
  /\ \A S : \A s \in Seq(S), x \in S : Range(Append(s, x)) = Range(s) \cup {x}
  /\ \A S : \A s \in Seq(S) : s # <<>> => Head(s) \in Range(s) /\ Range(Tail(s)) \subseteq Range(s)
<1>1. Range(<<>>) = {} /\ \A x : Range(<<x>>) = {x}
  BY DEF Range
<1>2. ASSUME NEW S, NEW s \in Seq(S), NEW t \in Seq(S) PROVE Range(s \o t) = Range(s) \cup Range(t)
  <2>1. /\ Len(s) \in Nat /\ Len(t) \in Nat /\ DOMAIN s = 1 .. Len(s) /\ DOMAIN t = 1 .. Len(t)
    BY <1>2, LenProperties
  <2>2. /\ s \o t \in Seq(S) /\ Len(s \o t) = Len(s) + Len(t)
        /\ \A i \in 1 .. Len(s) + Len(t) : (s \o t)[i] = IF i <= Len(s) THEN s[i] ELSE t[i - Len(s)]
    BY <1>2, ConcatProperties
  <2>3. DOMAIN (s \o t) = 1 .. Len(s) + Len(t)
    BY <2>2, LenProperties
  <2>4. ASSUME NEW i \in DOMAIN (s \o t) PROVE (s \o t)[i] \in Range(s) \cup Range(t)
    <3>1. CASE i <= Len(s)
      BY <2>1, <2>2, <2>3, <3>1 DEF Range
    <3>2. CASE ~(i <= Len(s))
      <4>1. i - Len(s) \in DOMAIN t /\ (s \o t)[i] = t[i - Len(s)]
        BY <2>1, <2>2, <2>3, <3>2
      <4> QED  BY <4>1 DEF Range
    <3> QED  BY <3>1, <3>2
  <2>5. ASSUME NEW i \in DOMAIN s PROVE s[i] \in Range(s \o t)
    <3>1. i \in DOMAIN (s \o t) /\ (s \o t)[i] = s[i]
      BY <2>1, <2>2, <2>3
    <3> QED  BY <3>1 DEF Range
  <2>6. ASSUME NEW i \in DOMAIN t PROVE t[i] \in Range(s \o t)
    <3>1. i + Len(s) \in DOMAIN (s \o t) /\ (s \o t)[i + Len(s)] = t[i]
      BY <2>1, <2>2, <2>3
    <3> QED  BY <3>1 DEF Range
  <2> QED  BY <2>4, <2>5, <2>6 DEF Range
<1>3. ASSUME NEW S, NEW s \in Seq(S), NEW x \in S PROVE Range(Append(s, x)) = Range(s) \cup {x}
  <2>1. <<x>> \in Seq(S) /\ Append(s, x) = s \o <<x>>
    BY <1>3, AppendIsConcat
  <2>2. Range(s \o <<x>>) = Range(s) \cup Range(<<x>>)
    <3> DEFINE t == <<x>>
    <3>1. t \in Seq(S)
      BY <2>1
    <3> HIDE DEF t
    <3>2. Range(s \o t) = Range(s) \cup Range(t)
      BY <1>2, <1>3, <3>1
    <3> QED  BY <3>2 DEF t
  <2> QED  BY <1>1, <2>1, <2>2
<1>4. ASSUME NEW S, NEW s \in Seq(S), s # <<>>
      PROVE  Head(s) \in Range(s) /\ Range(Tail(s)) \subseteq Range(s)
  <2>1. /\ Head(s) = s[1] /\ Tail(s) \in Seq(S) /\ Len(Tail(s)) = Len(s) - 1
        /\ \A i \in 1 .. Len(Tail(s)) : Tail(s)[i] = s[i + 1]
    BY <1>4, HeadTailProperties
  <2>2. Len(s) \in Nat /\ Len(s) # 0 /\ DOMAIN s = 1 .. Len(s) /\ DOMAIN Tail(s) = 1 .. Len(Tail(s))
    BY <1>4, <2>1, LenProperties, EmptySeq
  <2>3. \A i \in DOMAIN Tail(s) : i + 1 \in DOMAIN s /\ Tail(s)[i] = s[i + 1]
    BY <2>1, <2>2
  <2>4. 1 \in DOMAIN s
    BY <2>2
  <2> QED  BY <2>1, <2>3, <2>4 DEF Range
<1> QED  BY <1>1, <1>2, <1>3, <1>4

(* What is still to be told, in whatever order.                            *)
Words == Range(ev.msg) \cup Range(ev.batch) \cup Range(msgs) \cup Range(Telling(hot))

LEMMA WordsOfChrono ==
  ASSUME IInv
  PROVE  Range(Chrono) = Words /\ Range(LeftMessages) \subseteq Words
<1>1. ev.msg \in Seq(Messages) /\ ev.batch \in Seq(Messages) /\ msgs \in Seq(Messages)
  BY DEF IInv, Typed
<1>2. Telling(hot) \in Seq(Messages) /\ Queue \in Seq(Messages)
  BY QueueTyped
<1>3. \A a, b, c \in Seq(Messages) : Range((a \o b) \o c) = Range(a) \cup Range(b) \cup Range(c)
  <2>1. TAKE a, b, c \in Seq(Messages)
  <2>2. a \o b \in Seq(Messages) /\ Range(a \o b) = Range(a) \cup Range(b)
    BY <2>1, ConcatProperties, RangeFacts
  <2>3. \A s, t \in Seq(Messages) : Range(s \o t) = Range(s) \cup Range(t)
    BY RangeFacts
  <2>4. ASSUME NEW s \in Seq(Messages) PROVE Range(s \o c) = Range(s) \cup Range(c)
    BY <2>1, <2>3
  <2> QED  BY <2>2, <2>4
<1>4. Range(Queue) = Range(ev.msg) \cup Range(ev.batch) \cup Range(msgs)
  BY <1>1, <1>3 DEF Queue
<1>5. Range(Chrono) = Range(Queue) \cup Range(Telling(hot))
  <2>1. Chrono = Queue \o Telling(hot)
    BY DEF Chrono, Queue
  <2> QED  BY <1>2, <2>1, RangeFacts
<1>6. Range(LeftMessages) = Range(msgs) \cup Range(ev.batch) \cup Range(ev.msg)
  BY <1>1, <1>3 DEF LeftMessages
<1> QED  BY <1>4, <1>5, <1>6 DEF Words

(* The count of a device is the number of those who hold it, so that it is *)
(* freed when, and only when, the last of them lets go; and no message     *)
(* names a device that has been freed.                                     *)
THEOREM RefsMatch ==
  ASSUME Races \cap {"init", "pipe"} = {} PROVE Spec => []RefsMatchHolders
<1>1. HInv => RefsMatchHolders
  <2> SUFFICES ASSUME HInv, NEW d \in Devices
               PROVE  /\ refs[d] = Holders(d)
                      /\ devs[d] = "freed" => \A m \in Range(LeftMessages) : m.dev # d
    BY DEF RefsMatchHolders
  <2>1. refs[d] = Holders(d)
    BY HoldersAreHeld DEF HInv, Refs, Sound
  <2>2. ASSUME NEW m \in Range(LeftMessages), m.dev = d PROVE devs[d] # "freed"
    <3>1. PICK i \in DOMAIN Chrono : Chrono[i] = m
      <4>1. m \in Range(Chrono)
        BY WordsOfChrono DEF HInv
      <4> QED  BY <4>1 DEF Range
    <3>2. Chrono[i].event \in Kinds
      BY MessageFacts DEF HInv, Refs, Sound
    <3> QED  BY <2>2, <3>1, <3>2 DEF HInv, Refs, Sound, Story, Kinds
  <2> QED  BY <2>1, <2>2
<1> QED  BY <1>1, HInvHolds, PTL

(* A device is taken off the list only when it has left, by whomever and   *)
(* from whatever stale error or late event.                                *)
THEOREM NeverLeftWhilePlugged ==
  ASSUME Races \cap {"init", "pipe"} = {} PROVE Spec => []LeftIsGone
<1>1. HInv => LeftIsGone
  BY DEF HInv, Places
<1> QED  BY <1>1, HInvHolds, PTL

(* libusb_exit frees every device and every callback.                      *)
THEOREM ExitReleases ==
  ASSUME Races \cap {"init", "pipe"} = {} PROVE Spec => []ExitReleasesAll
<1>1. HInv => ExitReleasesAll
  <2> SUFFICES ASSUME HInv, user.at = "done"
               PROVE  /\ \A d \in Devices : devs[d] \in {"none", "freed"}
                      /\ \A c \in Callbacks : cbs[c] \in {"none", "freed"}
    BY DEF ExitReleasesAll
  <2>1. \A c \in Callbacks : cbs[c] \notin {"listed", "marked"}
    BY DEF HInv, IInv, Leaving
  <2> QED  BY <2>1 DEF HInv, Released
<1> QED  BY <1>1, HInvHolds, PTL

-----------------------------------------------------------------------------
(* What a callback has been told of a device, against what it will be.     *)
Away == {"left", "freed"}
Heard ==
    /\ heard \in [Callbacks -> [Devices -> {"nothing", "arrived", "left"}]]
    /\ \A c \in Callbacks, d \in Devices : heard[c][d] = "left" =>
          devs[d] \in Away /\ Arrived(d) \notin Words
Enumerates ==
    /\ user.at \in {"list", "call"} /\ user.arg # None => ev.at = "idle"
    /\ user.at = "call" => \A d \in user.todo :
          user.arg \in Callbacks => heard[user.arg][d] # "left"
Told == Heard /\ Enumerates

(* Who has left does not come back, and what is announced is new.          *)
Onward ==
    /\ \A d \in Devices : devs[d] \in Away => devs'[d] \in Away
    /\ \A d \in Devices : Arrived(d) \in Words' => Arrived(d) \in Words \/ devs[d] = "none"

LEMMA TellingOnward ==
  ASSUME HInv, NEW by, NEW d \in Devices,
         \/ devs[d] = "none" /\ Connect(by, d)
         \/ /\ Attached(d) /\ devs' = [devs EXCEPT ![d] = "left"]
            /\ hot' = <<[by |-> by, event |-> "left", dev |-> d]>>,
         UNCHANGED <<msgs, ev.msg, ev.batch>>
  PROVE  Onward
<1>1. devs \in [Devices -> States]
  BY DEF HInv, Refs, Sound
<1>2. \A e \in Devices : devs[e] \in Away => devs'[e] \in Away
  BY <1>1 DEF Connect, Away, Attached
<1>3. Words' \subseteq Words \cup Range(Telling(hot'))
  BY DEF Words
<1>4. CASE devs[d] = "none" /\ Connect(by, d)
  <2>1. hot' = <<[by |-> by, event |-> "arrived", dev |-> d]>>
    BY <1>4 DEF Connect
  <2>2. Telling(hot') = <<Arrived(d)>>
    BY <2>1, TellingFacts
  <2>3. Range(Telling(hot')) = {Arrived(d)}
    BY <2>2, RangeFacts
  <2>4. \A e \in Devices : Arrived(e) = Arrived(d) => e = d
    BY DEF Arrived
  <2> QED  BY <1>2, <1>3, <1>4, <2>3, <2>4 DEF Onward
<1>5. CASE hot' = <<[by |-> by, event |-> "left", dev |-> d]>>
  <2>2. Telling(hot') = <<Left(d)>>
    BY <1>5, TellingFacts
  <2>3. Range(Telling(hot')) = {Left(d)}
    BY <2>2, RangeFacts
  <2>4. \A e \in Devices : Arrived(e) # Left(d)
    BY DEF Arrived, Left
  <2> QED  BY <1>2, <1>3, <2>3, <2>4 DEF Onward
<1> QED  BY <1>4, <1>5

LEMMA QuietOnward ==
  ASSUME Wears, Words' \subseteq Words PROVE Onward
BY DEF Wears, Onward, Away

LEMMA OpenOnward ==
  ASSUME HInv, NEW by, NEW d \in Devices, Open(by, d), UNCHANGED <<msgs, ev.msg, ev.batch>>
  PROVE  Onward
<1>1. CASE Nodes(d) # {}
  <2>1. devs' = devs /\ hot' = hot
    BY <1>1 DEF Open
  <2> QED  BY <2>1, WearsFreed, QuietOnward DEF Words
<1>2. CASE Nodes(d) = {}
  <2>1. PICK e \in At(Plugs[d]) :
          /\ devs' = [devs EXCEPT ![e] = "left"]
          /\ hot' = <<[by |-> by, event |-> "left", dev |-> e]>>
    BY <1>2 DEF Open, Disconnect
  <2>2. e \in Devices /\ Attached(e)
    BY DEF At
  <2> QED  BY <2>1, <2>2, TellingOnward
<1> QED  BY <1>1, <1>2

LEMMA HotplugOnward ==
  ASSUME HInv, NEW by, HotplugEvent(by) PROVE Onward
<1> DEFINE m == Head(udev)
<1>1. /\ \/ Active /\ At(Plugs[m.dev]) = {} /\ m.dev \in present /\ Connect(by, m.dev)
         \/ Disconnect(by, Plugs[m.dev])
         \/ UNCHANGED <<devs, refs, hot>>
      /\ UNCHANGED <<msgs, ev>>
  BY DEF HotplugEvent, devices, pending
<1> HIDE DEF m
<1>2. CASE Active /\ At(Plugs[m.dev]) = {} /\ m.dev \in present /\ Connect(by, m.dev)
  <2>1. m.dev \in Devices
    BY <1>2 DEF HInv, IInv, Typed
  <2>2. ~Attached(m.dev)
    BY <1>2, <2>1 DEF At
  <2>3. devs[m.dev] = "none"
    BY <1>2, <2>2 DEF HInv, Places, LeftIsGone, Attached, Active
  <2> QED  BY <1>1, <1>2, <2>1, <2>3, TellingOnward
<1>3. CASE Disconnect(by, Plugs[m.dev])
  <2>1. PICK e \in At(Plugs[m.dev]) :
          /\ devs' = [devs EXCEPT ![e] = "left"]
          /\ hot' = <<[by |-> by, event |-> "left", dev |-> e]>>
    BY <1>3 DEF Disconnect
  <2>2. e \in Devices /\ Attached(e)
    BY DEF At
  <2> QED  BY <1>1, <2>1, <2>2, TellingOnward
<1>4. CASE UNCHANGED <<devs, refs, hot>>
  BY <1>1, <1>4, WearsFreed, QuietOnward DEF Words
<1> QED  BY <1>1, <1>2, <1>3, <1>4

LEMMA CallBackOnward ==
  ASSUME HInv, CallBack PROVE Onward
<1> DEFINE m == ev.msg[1]
<1>1. /\ ev.msg # <<>> /\ UNCHANGED <<msgs, ev.msg, ev.batch>>
      /\ \/ UNCHANGED <<devs, refs, hot>>
         \/ Open("events", m.dev)
         \/ \E f \in Fds : DoClose(f) /\ UNCHANGED hot
  BY DEF CallBack, InCallback, devices, HInv, IInv, Typed
<1>2. m.dev \in Devices
  <2>1. Len(ev.msg) \in Nat /\ Len(ev.msg) # 0 /\ ev.msg \in Seq(Messages)
    BY <1>1, LenProperties, EmptySeq DEF HInv, IInv, Typed
  <2>2. 1 \in 1 .. Len(ev.msg)
    BY <2>1
  <2>3. m \in Messages
    BY <2>1, <2>2, ElementOfSeq
  <2> QED  BY <2>3 DEF Messages
<1> HIDE DEF m
<1>3. CASE UNCHANGED <<devs, refs, hot>>
  BY <1>1, <1>3, WearsFreed, QuietOnward DEF Words
<1>4. CASE Open("events", m.dev)
  BY <1>1, <1>2, <1>4, OpenOnward
<1>5. CASE \E f \in Fds : DoClose(f) /\ UNCHANGED hot
  <2>1. devs' = Freed(refs', devs)
    BY <1>5 DEF DoClose, Unref
  <2>2. Wears
    BY <2>1, WearsFreed
  <2> QED  BY <1>1, <1>5, <2>2, QuietOnward DEF Words
<1> QED  BY <1>1, <1>3, <1>4, <1>5

LEMMA UsbfsErrorOnward ==
  ASSUME HInv, UsbfsError PROVE Onward
<1>1. /\ UNCHANGED <<msgs, ev.msg, ev.batch>>
      /\ \/ UNCHANGED <<devs, refs, hot>>
         \/ \E a : Disconnect("events", a)
  BY DEF UsbfsError, devices, HInv, IInv, Typed
<1>2. CASE UNCHANGED <<devs, refs, hot>>
  BY <1>1, <1>2, WearsFreed, QuietOnward DEF Words
<1>3. CASE \E a : Disconnect("events", a)
  <2>1. PICK a : \E e \in At(a) : /\ devs' = [devs EXCEPT ![e] = "left"]
                                  /\ hot' = <<[by |-> "events", event |-> "left", dev |-> e]>>
    BY <1>3 DEF Disconnect
  <2>2. PICK e \in At(a) : /\ devs' = [devs EXCEPT ![e] = "left"]
                           /\ hot' = <<[by |-> "events", event |-> "left", dev |-> e]>>
    BY <2>1
  <2>3. e \in Devices /\ Attached(e)
    BY DEF At
  <2> QED  BY <1>1, <2>2, <2>3, TellingOnward
<1> QED  BY <1>1, <1>2, <1>3

(* The messages on their way to the callbacks.                             *)
LEMMA MessagesOnward ==
  ASSUME HInv, Notify \/ EventPipe \/ TakeMessage \/ EndMessage \/ EventEnd PROVE Onward
<1>1. ev.msg \in Seq(Messages) /\ ev.batch \in Seq(Messages) /\ msgs \in Seq(Messages) /\ ev \in EventTypes
  BY DEF HInv, IInv, Typed, EventTypes
<1>2. CASE Notify
  <2> DEFINE m == [event |-> hot[1].event, dev |-> hot[1].dev]
  <2>1. /\ hot # <<>> /\ hot' = <<>> /\ ev' = ev
        /\ msgs' = Append(msgs, m) \/ msgs' = msgs
        /\ devs' = Freed(refs', devs) \/ UNCHANGED devs
    BY <1>2 DEF Notify, Unref, Queued
  <2>2. Telling(hot) = <<m>> /\ Telling(hot') = <<>> /\ m \in Messages
    <3>1. hot[1] \in HotEvents
      BY <2>1 DEF HInv, IInv, Typed
    <3> QED  BY <2>1, <3>1 DEF Telling, HotEvents, Messages
  <2> HIDE DEF m
  <2>3. Range(Telling(hot)) = {m} /\ Range(Telling(hot')) = {} /\ Range(msgs') \subseteq Range(msgs) \cup {m}
    <3>1. Range(Telling(hot)) = {m} /\ Range(Telling(hot')) = {}
      BY <2>2, RangeFacts
    <3>2. Range(Append(msgs, m)) = Range(msgs) \cup {m}
      BY <1>1, <2>2, RangeFacts
    <3> QED  BY <2>1, <3>1, <3>2
  <2>4. Words' \subseteq Words
    BY <2>1, <2>3 DEF Words
  <2> QED  BY <2>1, <2>4, WearsFreed, QuietOnward
<1>3. CASE EventPipe
  <2>1. /\ ev'.msg = ev.msg /\ ev'.batch = msgs /\ msgs' = <<>> /\ UNCHANGED <<devs, hot>>
    BY <1>1, <1>3 DEF EventPipe, EventTypes, devices
  <2>2. Range(msgs') = {}
    BY <2>1, RangeFacts
  <2>3. Words' \subseteq Words
    BY <2>1, <2>2 DEF Words
  <2> QED  BY <2>1, <2>3, WearsFreed, QuietOnward
<1>4. CASE TakeMessage
  <2>1. /\ ev.batch # <<>> /\ ev'.msg = <<Head(ev.batch)>> /\ ev'.batch = Tail(ev.batch)
        /\ msgs' = msgs /\ UNCHANGED <<devs, hot>>
    BY <1>1, <1>4 DEF TakeMessage, EventTypes, devices, pending
  <2>2. Range(ev'.msg) \subseteq Range(ev.batch) /\ Range(ev'.batch) \subseteq Range(ev.batch)
    <3>1. Head(ev.batch) \in Range(ev.batch) /\ Range(Tail(ev.batch)) \subseteq Range(ev.batch)
      BY <1>1, <2>1, RangeFacts
    <3>2. Range(ev'.msg) = {Head(ev.batch)}
      BY <2>1, RangeFacts
    <3> QED  BY <2>1, <3>1, <3>2
  <2>3. Words' \subseteq Words
    BY <2>1, <2>2 DEF Words
  <2> QED  BY <2>1, <2>3, WearsFreed, QuietOnward
<1>5. CASE EndMessage \/ EventEnd
  <2>1. /\ ev'.msg = <<>> /\ ev'.batch \in {ev.batch, <<>>} /\ UNCHANGED <<msgs, hot>>
        /\ devs' = Freed(refs', devs) \/ UNCHANGED devs
    BY <1>1, <1>5 DEF EndMessage, EventEnd, EventTypes, Unref, Waiting, devices, pending
  <2>2. Range(ev'.msg) = {} /\ Range(ev'.batch) \subseteq Range(ev.batch)
    BY <2>1, RangeFacts
  <2>3. Words' \subseteq Words
    BY <2>1, <2>2 DEF Words
  <2> QED  BY <2>1, <2>3, WearsFreed, QuietOnward
<1> QED  BY <1>2, <1>3, <1>4, <1>5

LEMMA ScanOnward ==
  ASSUME HInv, Scan \/ ExitFree PROVE Onward
<1>1. Words' = Words /\ devs \in [Devices -> States]
  BY DEF Scan, ExitFree, Words, HInv, Refs, Sound, pending
<1>2. CASE Scan
  <2>1. \A d \in Devices : devs'[d] = devs[d] \/ d \in present
    BY <1>2 DEF Scan
  <2>2. \A d \in present : devs[d] \in {"none", "attached"}
    BY <1>2 DEF Scan, At_, HInv, Places, LeftIsGone
  <2> QED  BY <1>1, <2>1, <2>2 DEF Onward, Away
<1>3. CASE ExitFree
  <2> DEFINE off == [d \in Devices |-> IF Attached(d) THEN "left" ELSE devs[d]]
  <2>1. devs' = Freed(refs', off)
    BY <1>3 DEF ExitFree
  <2>2. \A d \in Devices : off[d] = IF devs[d] = "attached" THEN "left" ELSE devs[d]
    BY DEF Attached
  <2> HIDE DEF off
  <2> QED  BY <1>1, <2>1, <2>2 DEF Onward, Freed, Away
<1> QED  BY <1>2, <1>3

LEMMA EveryStepOnward ==
  ASSUME HInv, Args, [Next]_vars PROVE Onward
<1>1. CASE Plug \/ Unplug \/ StartInit \/ IoInitLists \/ IoInit \/ Exit \/ ExitDeregister \/ Find \/ Close
           \/ Register \/ EnumerateCall \/ Deregister \/ Interrupt
           \/ EventBegin \/ EventPoll \/ EventDeregister \/ EndMessages \/ UNCHANGED vars
  <2>1. UNCHANGED <<devs, msgs, hot>>
    BY <1>1 DEF Plug, Unplug, StartInit, IoInitLists, IoInit, Exit, ExitDeregister, Find, Close,
       Register, EnumerateCall, Deregister, Interrupt, EventBegin, EventPoll, EventDeregister, EndMessages,
       vars, devices, pending
  <2>2. ev'.msg = ev.msg /\ ev'.batch = ev.batch
    <3>1. CASE UNCHANGED ev
      BY <3>1
    <3>2. CASE EventBegin \/ EventPoll \/ EventDeregister \/ EndMessages
      BY <3>2 DEF EventBegin, EventPoll, EventDeregister, EndMessages, HInv, IInv, Typed
    <3> QED  BY <1>1, <3>1, <3>2 DEF Plug, Unplug, StartInit, IoInitLists, IoInit, Exit, ExitDeregister, Find, Close,
       Register, EnumerateCall, Deregister, Interrupt, vars
  <2> QED  BY <2>1, <2>2, WearsFreed, QuietOnward DEF Words
<1>2. CASE Monitor \/ HotplugPoll
  BY <1>2, HotplugOnward DEF Monitor, HotplugPoll
<1>3. CASE Notify \/ EventPipe \/ TakeMessage \/ EndMessage \/ EventEnd
  BY <1>3, MessagesOnward
<1>4. CASE CallBack \/ UsbfsError \/ Scan \/ ExitFree
  BY <1>4, CallBackOnward, UsbfsErrorOnward, ScanOnward
<1>5. CASE TakeList \/ FreeList
  <2>1. UNCHANGED <<msgs, hot, ev>> /\ (devs' = Freed(refs', devs) \/ UNCHANGED devs)
    BY <1>5 DEF TakeList, FreeList, Unref, pending
  <2> QED  BY <2>1, WearsFreed, QuietOnward DEF Words
<1>6. CASE CloseLocked
  <2>1. UNCHANGED <<msgs, hot, ev>> /\ devs' = Freed(refs', devs)
    BY <1>6 DEF CloseLocked, DoClose, Unref
  <2> QED  BY <2>1, WearsFreed, QuietOnward DEF Words
<1>7. CASE OpenFound
  <2>1. /\ UNCHANGED <<msgs, ev>>
        /\ (\E d \in list : Open("user", d)) \/ UNCHANGED <<devs, hot>>
    BY <1>7 DEF OpenFound, devices
  <2>2. list \subseteq Devices
    BY DEF HInv, IInv, Typed
  <2>3. CASE \E d \in list : Open("user", d)
    BY <2>1, <2>2, <2>3, OpenOnward
  <2>4. CASE UNCHANGED <<devs, hot>>
    BY <2>1, <2>4, WearsFreed, QuietOnward DEF Words
  <2> QED  BY <2>1, <2>3, <2>4
<1> QED
  BY <1>1, <1>2, <1>3, <1>4, <1>5, <1>6, <1>7 DEF Next, User, Events, Done

-----------------------------------------------------------------------------
(* The message that is being handled comes before all others.              *)
LEMMA FirstMessage ==
  ASSUME HInv, ev.msg # <<>>
  PROVE  /\ ev.msg[1] \in Messages /\ ev.msg[1] \in Words
         /\ ev.msg[1].event = "left" =>
               devs[ev.msg[1].dev] = "left" /\ Arrived(ev.msg[1].dev) \notin Words
<1> DEFINE m == ev.msg[1]
<1>1. ev.msg \in Seq(Messages) /\ ev.batch \in Seq(Messages) /\ msgs \in Seq(Messages) /\ Telling(hot) \in Seq(Messages)
  BY QueueTyped DEF HInv, IInv, Typed
<1>2. m \in Messages /\ 1 \in 1 .. Len(ev.msg) /\ Len(ev.msg) \in Nat
  <2>1. Len(ev.msg) \in Nat /\ Len(ev.msg) # 0
    BY <1>1, LenProperties, EmptySeq
  <2>2. 1 \in 1 .. Len(ev.msg)
    BY <2>1
  <2> QED  BY <1>1, <2>1, <2>2, ElementOfSeq
<1>3. 1 \in DOMAIN Chrono /\ Chrono[1] = m
  <2>1. \A s, t \in Seq(Messages) : 1 \in 1 .. Len(s) =>
          s \o t \in Seq(Messages) /\ 1 \in 1 .. Len(s \o t) /\ (s \o t)[1] = s[1]
    <3>1. TAKE s, t \in Seq(Messages)
    <3>2. /\ s \o t \in Seq(Messages) /\ Len(s \o t) = Len(s) + Len(t)
          /\ \A i \in 1 .. Len(s) + Len(t) : (s \o t)[i] = IF i <= Len(s) THEN s[i] ELSE t[i - Len(s)]
      BY ConcatProperties
    <3>3. Len(s) \in Nat /\ Len(t) \in Nat
      BY LenProperties
    <3> QED  BY <3>2, <3>3
  <2>2. /\ ev.msg \o ev.batch \in Seq(Messages) /\ 1 \in 1 .. Len(ev.msg \o ev.batch)
        /\ (ev.msg \o ev.batch)[1] = m
    BY <1>1, <1>2, <2>1
  <2>3. Queue \in Seq(Messages) /\ 1 \in 1 .. Len(Queue) /\ Queue[1] = m
    BY <1>1, <2>1, <2>2 DEF Queue
  <2>4. Chrono \in Seq(Messages) /\ 1 \in 1 .. Len(Chrono) /\ Chrono[1] = m
    <3>1. Chrono = Queue \o Telling(hot)
      BY DEF Chrono, Queue
    <3> QED  BY <1>1, <2>1, <2>3, <3>1
  <2> QED  BY <2>4, LenProperties
<1>4. Range(Chrono) = Words
  BY WordsOfChrono DEF HInv
<1>5. m \in Words
  BY <1>3, <1>4 DEF Range
<1>6. ASSUME m.event = "left" PROVE devs[m.dev] = "left" /\ Arrived(m.dev) \notin Words
  <2>1. /\ devs[m.dev] = "left" /\ \A j \in DOMAIN Chrono : 1 < j => Chrono[j] # Arrived(m.dev)
    BY <1>3, <1>6 DEF HInv, Refs, Sound, Story
  <2>2. m # Arrived(m.dev)
    BY <1>6 DEF Arrived
  <2>3. ASSUME NEW j \in DOMAIN Chrono, Chrono[j] = Arrived(m.dev) PROVE FALSE
    <3>1. DOMAIN Chrono = 1 .. Len(Chrono)
      BY LenProperties DEF HInv, Refs, Sound
    <3>2. j = 1 \/ 1 < j
      BY <2>3, <3>1
    <3> QED  BY <1>3, <2>1, <2>2, <2>3, <3>2
  <2> QED  BY <1>4, <2>1, <2>3 DEF Range
<1> QED  BY <1>2, <1>5, <1>6

(* No step tells a callback of an arrival after the departure.             *)
NotLate == \A c \in Callbacks, d \in Devices : heard[c][d] = "left" => heard'[c][d] = "left"

LEMMA HeardSame ==
  ASSUME Heard, Onward, UNCHANGED heard, devs \in [Devices -> States] PROVE Heard' /\ NotLate
BY DEF Heard, Onward, NotLate, Away

LEMMA CallBackHeard ==
  ASSUME HInv, Heard, Onward, CallBack PROVE Heard' /\ NotLate
<1> DEFINE k == Max(ev.todo)
           m == ev.msg[1]
<1>1. ev.msg # <<>> /\ (UNCHANGED heard \/ heard' = [heard EXCEPT ![k][m.dev] = m.event])
  BY DEF CallBack, Hear
<1>2. /\ m \in Messages /\ m \in Words
      /\ m.event = "left" => devs[m.dev] = "left" /\ Arrived(m.dev) \notin Words
  BY <1>1, FirstMessage
<1> HIDE DEF k, m
<1>3. CASE UNCHANGED heard
  BY <1>3, HeardSame DEF HInv, Refs, Sound
<1>4. CASE heard' = [heard EXCEPT ![k][m.dev] = m.event]
  <2>1. /\ heard \in [Callbacks -> [Devices -> {"nothing", "arrived", "left"}]]
        /\ m.dev \in Devices /\ m.event \in Kinds /\ m = [event |-> m.event, dev |-> m.dev]
    BY <1>2 DEF Heard, Messages
  <2>2. \A c \in Callbacks, d \in Devices :
          heard'[c][d] = IF c = k /\ d = m.dev THEN m.event ELSE heard[c][d]
    BY <1>4, <2>1
  <2>3. heard' \in [Callbacks -> [Devices -> {"nothing", "arrived", "left"}]]
    BY <1>4, <2>1 DEF Kinds
  <2>4. m.event = "arrived" => \A c \in Callbacks : heard[c][m.dev] # "left"
    <3>1. m.event = "arrived" => m = Arrived(m.dev)
      BY <2>1 DEF Arrived
    <3> QED  BY <1>2, <2>1, <3>1 DEF Heard
  <2>5. NotLate
    BY <2>1, <2>2, <2>4 DEF NotLate, Kinds
  <2>6. \A c \in Callbacks, d \in Devices : heard'[c][d] = "left" =>
          devs[d] \in Away /\ Arrived(d) \notin Words
    BY <1>2, <2>2 DEF Heard, Away
  <2>7. \A c \in Callbacks, d \in Devices : heard'[c][d] = "left" =>
          devs'[d] \in Away /\ Arrived(d) \notin Words'
    BY <2>6 DEF Onward, Away
  <2> QED  BY <2>3, <2>5, <2>7 DEF Heard
<1> QED  BY <1>1, <1>3, <1>4

LEMMA EnumerateHeard ==
  ASSUME HInv, Heard, Enumerates, Onward, EnumerateCall PROVE Heard' /\ NotLate
<1>1. /\ user.at = "call"
      /\ \E d \in user.todo : heard' = [heard EXCEPT ![user.arg][d] = "arrived"]
  BY DEF EnumerateCall, Hear, At_
<1>2. PICK e \in user.todo : heard' = [heard EXCEPT ![user.arg][e] = "arrived"]
  BY <1>1
<1>3. /\ heard \in [Callbacks -> [Devices -> {"nothing", "arrived", "left"}]]
      /\ e \in Devices /\ (user.arg \in Callbacks => heard[user.arg][e] # "left")
  BY <1>1, <1>2 DEF Heard, Enumerates, HInv, IInv, Typed
<1>4. \A c \in Callbacks, d \in Devices :
        heard'[c][d] = IF c = user.arg /\ d = e THEN "arrived" ELSE heard[c][d]
  BY <1>2, <1>3
<1>5. heard' \in [Callbacks -> [Devices -> {"nothing", "arrived", "left"}]]
  BY <1>2, <1>3
<1>6. \A c \in Callbacks, d \in Devices : heard'[c][d] = "left" => heard[c][d] = "left"
  BY <1>4
<1>7. NotLate
  BY <1>3, <1>4 DEF NotLate
<1>8. \A c \in Callbacks, d \in Devices : heard'[c][d] = "left" =>
        devs'[d] \in Away /\ Arrived(d) \notin Words'
  BY <1>6 DEF Heard, Onward, Away
<1> QED  BY <1>5, <1>7, <1>8 DEF Heard

LEMMA NextHeard ==
  ASSUME HInv, Args, Told, [Next]_vars PROVE Heard' /\ NotLate
<1>1. Onward
  BY EveryStepOnward
<1>2. CASE CallBack \/ EnumerateCall
  BY <1>1, <1>2, CallBackHeard, EnumerateHeard DEF Told
<1>3. CASE UNCHANGED heard
  BY <1>1, <1>3, HeardSame DEF Told, HInv, Refs, Sound
<1>4. CallBack \/ EnumerateCall \/ UNCHANGED heard
  BY DEF Next, User, Events, Done, vars, Plug, Unplug, StartInit, IoInitLists, IoInit, Exit, ExitDeregister, Find, Close,
     Register, Deregister, Interrupt, EventBegin, EventPoll, EventDeregister, EndMessages,
     Monitor, HotplugPoll, HotplugEvent, Notify, EventPipe, TakeMessage, EndMessage, EventEnd,
     UsbfsError, Scan, ExitFree, TakeList, FreeList, CloseLocked, OpenFound
<1> QED  BY <1>2, <1>3, <1>4

(* A registration with LIBUSB_HOTPLUG_ENUMERATE has the events to itself.  *)
LEMMA NextEnumerates ==
  ASSUME Races = {}, HInv, Args, Told, [Next]_vars PROVE Enumerates'
<1>1. user \in [at : UserPcs, arg : Nat, todo : SUBSET Devices] /\ ev \in EventTypes
  BY DEF HInv, IInv, Typed, EventTypes
<1> DEFINE On == user.at \in {"list", "call"} /\ user.arg # None
<1>2. On => ev.at = "idle"
  BY DEF Told, Enumerates
<1>3. user.at = "call" => On /\ ev.at = "idle"
  BY DEF Args, Told, Enumerates
<1>4. CASE UNCHANGED user
  <2>1. On => ev'.at = "idle"
    <3>1. ~EventBegin \/ ~On
      BY DEF EventBegin, MayHandle
    <3>2. ASSUME On, ev.at = "idle", ~EventBegin PROVE ev'.at = "idle"
      <4>1. UNCHANGED ev \/ ev' = Waiting
        BY <3>2 DEF Next, User, Events, Done, vars, Plug, Unplug, StartInit, IoInitLists, IoInit, Exit, ExitDeregister, Find, Close,
           Register, EnumerateCall, Deregister, Interrupt, EventPoll, EventDeregister, EndMessages,
           Monitor, HotplugPoll, HotplugEvent, Notify, EventPipe, TakeMessage, EndMessage, EventEnd, CallBack,
           UsbfsError, Scan, ExitFree, TakeList, FreeList, CloseLocked, OpenFound
      <4> QED  BY <3>2, <4>1 DEF Waiting
    <3> QED  BY <1>2, <3>1, <3>2
  <2>2. user.at = "call" => UNCHANGED heard
    <3>1. ASSUME user.at = "call", ~(UNCHANGED heard) PROVE FALSE
      <4>1. CallBack \/ EnumerateCall
        BY <3>1 DEF Next, User, Events, Done, vars, Plug, Unplug, StartInit, IoInitLists, IoInit, Exit, ExitDeregister, Find, Close,
           Register, Deregister, Interrupt, EventBegin, EventPoll, EventDeregister, EndMessages,
           Monitor, HotplugPoll, HotplugEvent, Notify, EventPipe, TakeMessage, EndMessage, EventEnd,
           UsbfsError, Scan, ExitFree, TakeList, FreeList, CloseLocked, OpenFound
      <4>2. ~CallBack
        BY <1>3, <3>1 DEF CallBack
      <4>3. ~EnumerateCall
        <5>1. ASSUME NEW d \in user.todo, user' = [user EXCEPT !.todo = @ \ {d}] PROVE FALSE
          <6>1. user'.todo = user.todo \ {d}
            BY <1>1, <5>1
          <6> QED  BY <1>4, <6>1
        <5> QED  BY <5>1 DEF EnumerateCall
      <4> QED  BY <4>1, <4>2, <4>3
    <3> QED  BY <3>1
  <2> QED  BY <1>4, <2>1, <2>2 DEF Told, Enumerates
<1>5. CASE StartInit \/ Scan \/ IoInitLists \/ IoInit \/ Exit \/ ExitDeregister \/ ExitFree
           \/ Find \/ OpenFound \/ Close \/ EventEnd
  <2>1. \/ user' = user
        \/ \E pc \in UserPcs \ {"call"} : \E a \in Fds \cup {user.arg} :
              user' = [user EXCEPT !.at = pc, !.arg = a] /\ (pc = "list" => a = None)
    <3>1. CASE Close
      <4>1. PICK f \in Fds : user' = [user EXCEPT !.at = "closing", !.arg = f]
        BY <3>1 DEF Close
      <4>2. "closing" \in UserPcs \ {"call"} /\ f \in Fds \cup {user.arg} /\ "closing" # "list"
        BY DEF UserPcs
      <4> QED  BY <4>1, <4>2
    <3>2. CASE StartInit \/ Scan \/ IoInitLists \/ IoInit \/ Exit \/ ExitDeregister \/ ExitFree
           \/ Find \/ OpenFound \/ EventEnd
      <4>1. \/ user' = user
            \/ \E pc \in UserPcs \ {"call"} : user' = [user EXCEPT !.at = pc] /\ (pc = "list" => user.arg = None)
        BY <3>2 DEF StartInit, Scan, IoInitLists, IoInit, Exit, ExitDeregister, ExitFree, Find, OpenFound,
           EventEnd, Goto, At_, UserPcs, Args
      <4>2. \A pc : [user EXCEPT !.at = pc] = [user EXCEPT !.at = pc, !.arg = user.arg]
        BY <1>1
      <4> QED  BY <4>1, <4>2
    <3> QED  BY <1>5, <3>1, <3>2
  <2>2. CASE user' = user
    BY <1>4, <2>2
  <2>3. CASE \E pc \in UserPcs \ {"call"} : \E a \in Fds \cup {user.arg} :
              user' = [user EXCEPT !.at = pc, !.arg = a] /\ (pc = "list" => a = None)
    <3>1. user'.at # "call" /\ (user'.at = "list" => user'.arg = None)
      BY <1>1, <2>3
    <3> QED  BY <3>1 DEF Enumerates
  <2> QED  BY <2>1, <2>2, <2>3
<1>6. CASE FreeList \/ CloseLocked
  BY <1>6 DEF FreeList, CloseLocked, Idle, Enumerates
<1>7. CASE Register
  <2>1. user' = user \/ (ev.at = "idle" /\ ev' = ev /\ \E c : user' = [user EXCEPT !.at = "list", !.arg = c])
    BY <1>7 DEF Register
  <2>2. CASE user' = user
    BY <1>4, <2>2
  <2>3. CASE ev.at = "idle" /\ ev' = ev /\ \E c : user' = [user EXCEPT !.at = "list", !.arg = c]
    BY <1>1, <2>3 DEF Enumerates
  <2> QED  BY <2>1, <2>2, <2>3
<1>8. CASE TakeList
  <2>1. /\ user.at = "list" /\ UNCHANGED <<heard, ev, devs>> /\ list' = {d \in Devices : Attached(d)}
        /\ user' = [user EXCEPT !.at = IF user.arg = None THEN "open" ELSE "call",
                            !.todo = IF user.arg = None THEN {} ELSE list']
    BY <1>8 DEF TakeList, At_, pending
  <2>2. /\ user'.at = IF user.arg = None THEN "open" ELSE "call"
        /\ user'.arg = user.arg
        /\ user'.todo = IF user.arg = None THEN {} ELSE list'
    BY <1>1, <2>1
  <2>3. user'.at = "call" => ev'.at = "idle"
    BY <1>2, <2>1, <2>2
  <2>4. \A d \in list', c \in Callbacks : heard[c][d] # "left"
    BY <2>1 DEF Told, Heard, Away, Attached
  <2> QED  BY <2>1, <2>2, <2>3, <2>4 DEF Enumerates
<1>9. CASE EnumerateCall
  <2>1. /\ user.at = "call" /\ ev' = ev
        /\ \E d \in user.todo : user' = [user EXCEPT !.todo = @ \ {d}] /\ Hear(user.arg, d, "arrived")
    BY <1>9 DEF EnumerateCall, At_
  <2>2. PICK e \in user.todo : user' = [user EXCEPT !.todo = @ \ {e}] /\ heard' = [heard EXCEPT ![user.arg][e] = "arrived"]
    BY <2>1 DEF Hear
  <2>3. user'.at = user.at /\ user'.arg = user.arg /\ user'.todo = user.todo \ {e} /\ e \in Devices
        /\ user.todo \subseteq Devices
    BY <1>1, <2>2
  <2>4. heard \in [Callbacks -> [Devices -> {"nothing", "arrived", "left"}]]
    BY DEF Told, Heard
  <2>5. ASSUME user.arg \in Callbacks, NEW d \in user.todo PROVE heard'[user.arg][d] # "left"
    BY <2>1, <2>2, <2>3, <2>4, <2>5 DEF Told, Enumerates
  <2> QED  BY <1>3, <2>1, <2>3, <2>5 DEF Enumerates
<1>10. UNCHANGED user \/ StartInit \/ Scan \/ IoInitLists \/ IoInit \/ Exit \/ ExitDeregister \/ ExitFree
           \/ Find \/ OpenFound \/ Close \/ EventEnd \/ FreeList \/ CloseLocked \/ Register \/ TakeList \/ EnumerateCall
  BY DEF Next, User, Events, Done, vars, Plug, Unplug, Deregister, Interrupt, EventBegin, EventPoll,
     EventDeregister, EndMessages, Monitor, HotplugPoll, HotplugEvent, Notify, EventPipe, TakeMessage,
     EndMessage, CallBack, UsbfsError
<1> QED  BY <1>4, <1>5, <1>6, <1>7, <1>8, <1>9, <1>10

(* Without a registration that enumerates while events are handled, nobody *)
(* is told of an arrival after the departure.                              *)
THEOREM ArrivalsNotLate ==
  ASSUME Races = {} PROVE Spec => NoLateArrival
<1>1. Init => HInv /\ Args /\ Told
  <2>1. Init => Args
    BY DEF Init, Args, Idle
  <2>2. Init => Told
    BY DEF Init, Told, Heard, Enumerates, Idle
  <2> QED  BY <2>1, <2>2, InitHInv
<1>2. HInv /\ Args /\ Told /\ [Next]_vars => HInv' /\ Args' /\ Told' /\ NotLate
  <2> SUFFICES ASSUME HInv, Args, Told, [Next]_vars PROVE HInv' /\ Args' /\ Told' /\ NotLate
    OBVIOUS
  <2>1. HInv' /\ Args'
    BY NextHInv
  <2> QED  BY <2>1, NextHeard, NextEnumerates DEF Told
<1>3. HInv /\ Args /\ Told /\ [Next]_vars =>
        [\A c \in Callbacks, d \in Devices : heard[c][d] = "left" => heard'[c][d] = "left"]_vars
  BY <1>2 DEF NotLate
<1> QED  BY <1>1, <1>2, <1>3, PTL DEF Spec, NoLateArrival
-----------------------------------------------------------------------------
(* The callbacks of a message being handled are not freed while it is: the *)
(* marked ones are freed before the next message is taken.                 *)
Alive ==
    /\ \A c \in ev.todo : cbs[c] \in {"listed", "marked"}
    /\ ev.todo # {} => ev.at = "hotplug" /\ ev.msg # <<>> /\ ~ev.dereg
    /\ user.at \in {"list", "call"} /\ user.arg \in Callbacks => cbs[user.arg] # "freed"

LEMMA SameCallbacks ==
  ASSUME Alive, UNCHANGED <<cbs, ev>>,
         user'.at \in {"list", "call"} /\ user'.arg \in Callbacks =>
            user.at \in {"list", "call"} /\ user'.arg = user.arg
  PROVE  Alive'
BY DEF Alive

LEMMA UserAlive ==
  ASSUME HInv, Args, Alive, User PROVE Alive'
<1>1. /\ user \in [at : UserPcs, arg : Nat, todo : SUBSET Devices]
      /\ cbs \in [Callbacks -> CallbackStates] /\ ev.todo \subseteq Callbacks
  BY DEF HInv, IInv, Typed, Released, CallbackStates
<1>2. None \notin Callbacks
  BY SetsAssumption DEF None
<1>3. CASE StartInit \/ Scan \/ IoInitLists \/ IoInit \/ Exit \/ ExitFree \/ OpenFound
  <2>1. /\ \E pc \in UserPcs \ {"list", "call"} : user' = [user EXCEPT !.at = pc]
        /\ UNCHANGED <<cbs, ev>>
    BY <1>3 DEF StartInit, Scan, IoInitLists, IoInit, Exit, ExitFree, OpenFound, Goto, UserPcs
  <2>2. user'.at \notin {"list", "call"}
    BY <1>1, <2>1
  <2> QED  BY <2>1, <2>2, SameCallbacks
<1>4. CASE Find
  <2>1. user' = [user EXCEPT !.at = "list"] /\ user.at = "idle" /\ UNCHANGED <<cbs, ev>>
    BY <1>4 DEF Find, Goto, At_
  <2>2. user'.arg = None
    BY <1>1, <2>1 DEF Args
  <2> QED  BY <1>2, <2>1, <2>2, SameCallbacks
<1>5. CASE TakeList \/ EnumerateCall
  <2>1. user'.arg = user.arg /\ user.at \in {"list", "call"} /\ UNCHANGED <<cbs, ev>>
    BY <1>1, <1>5 DEF TakeList, EnumerateCall, At_
  <2> QED  BY <2>1, SameCallbacks
<1>6. CASE FreeList \/ CloseLocked
  <2>1. user' = Idle /\ UNCHANGED <<cbs, ev>>
    BY <1>6 DEF FreeList, CloseLocked
  <2> QED  BY <2>1, SameCallbacks DEF Idle
<1>7. CASE Close
  <2>1. PICK f \in Fds : user' = [user EXCEPT !.at = "closing", !.arg = f]
    BY <1>7 DEF Close
  <2>2. user'.at = "closing" /\ UNCHANGED <<cbs, ev>>
    BY <1>1, <1>7, <2>1 DEF Close
  <2> QED  BY <2>2, SameCallbacks
<1>8. CASE HotplugPoll \/ Interrupt
  BY <1>8, SameCallbacks DEF HotplugPoll, HotplugEvent, Interrupt
<1>9. CASE Register
  <2> DEFINE k == Min({c \in Callbacks : cbs[c] = "none"})
  <2>1. /\ cbs' = [cbs EXCEPT ![k] = "listed"] /\ UNCHANGED ev /\ user.at = "idle"
        /\ user' = user \/ user' = [user EXCEPT !.at = "list", !.arg = k]
    BY <1>9 DEF Register, At_
  <2> HIDE DEF k
  <2>2. \A c \in Callbacks : cbs'[c] = IF c = k THEN "listed" ELSE cbs[c]
    BY <1>1, <2>1
  <2>3. user'.at \in {"list", "call"} => user'.arg = k
    BY <1>1, <2>1
  <2> QED  BY <1>1, <2>1, <2>2, <2>3 DEF Alive
<1>10. CASE Deregister
  <2>1. PICK k \in Callbacks : cbs' = [cbs EXCEPT ![k] = "marked"]
    BY <1>10 DEF Deregister
  <2>2. \A c \in Callbacks : cbs'[c] = IF c = k THEN "marked" ELSE cbs[c]
    BY <1>1, <2>1
  <2>3. UNCHANGED <<user, ev>>
    BY <1>10 DEF Deregister
  <2> QED  BY <1>1, <2>2, <2>3 DEF Alive
<1>11. CASE ExitDeregister
  <2>1. user.at = "exiting" /\ user' = [user EXCEPT !.at = "drain"] /\ UNCHANGED ev
    BY <1>11 DEF ExitDeregister, At_, Goto
  <2>2. ev.todo = {} /\ user'.at = "drain"
    BY <1>1, <2>1 DEF HInv, IInv, Leaving
  <2> QED  BY <2>1, <2>2 DEF Alive
<1> QED
  BY <1>3, <1>4, <1>5, <1>6, <1>7, <1>8, <1>9, <1>10, <1>11 DEF User

LEMMA EventsAlive ==
  ASSUME Races = {}, HInv, Args, Told, Alive, Events PROVE Alive'
<1>1. /\ user \in [at : UserPcs, arg : Nat, todo : SUBSET Devices] /\ ev \in EventTypes
      /\ cbs \in [Callbacks -> CallbackStates]
  BY DEF HInv, IInv, Typed, EventTypes, Released, CallbackStates
<1>2. ev.at # "idle" => ~(user.at \in {"list", "call"} /\ user.arg \in Callbacks)
  BY SetsAssumption DEF Told, Enumerates, None
<1>3. CASE EventBegin \/ EventPoll \/ EventPipe \/ EndMessages \/ UsbfsError
  <2>1. UNCHANGED <<cbs, user>> /\ ev.at \in {"idle", "poll", "pipe", "hotplug", "usbfs"}
        /\ (ev.at = "hotplug" => ev.msg = <<>>)
    BY <1>1, <1>3 DEF EventBegin, EventPoll, EventPipe, EndMessages, UsbfsError
  <2>2. ev.todo = {}
    BY <1>3, <2>1 DEF Alive, EventBegin, EventPoll, EventPipe, EndMessages, UsbfsError
  <2>3. ev'.todo = ev.todo
    BY <1>1, <1>3 DEF EventBegin, EventPoll, EventPipe, EndMessages, UsbfsError, EventTypes
  <2> QED  BY <2>1, <2>2, <2>3 DEF Alive
<1>4. CASE EventEnd
  <2>1. ev' = Waiting /\ UNCHANGED cbs
        /\ (user' = user \/ user' = [user EXCEPT !.at = "drained"])
    BY <1>4 DEF EventEnd, Goto
  <2>2. ev'.todo = {} /\ (user' = user \/ user'.at = "drained")
    BY <1>1, <2>1 DEF Waiting
  <2> QED  BY <2>1, <2>2 DEF Alive
<1>5. CASE EndMessage
  <2>1. ev.todo = {} /\ ev' = [ev EXCEPT !.msg = <<>>] /\ UNCHANGED <<cbs, user>>
    BY <1>5 DEF EndMessage
  <2>2. ev'.todo = {}
    BY <1>1, <2>1 DEF EventTypes
  <2> QED  BY <2>1, <2>2 DEF Alive
<1>6. CASE EventDeregister
  <2>1. ev.at = "hotplug" /\ ev.dereg /\ ev' = [ev EXCEPT !.dereg = FALSE] /\ UNCHANGED user
    BY <1>6 DEF EventDeregister
  <2>2. ev'.todo = {}
    BY <1>1, <2>1 DEF Alive, EventTypes
  <2> QED  BY <1>2, <2>1, <2>2 DEF Alive
<1>7. CASE TakeMessage
  <2>1. /\ ev.at = "hotplug" /\ ~ev.dereg /\ UNCHANGED <<cbs, user>>
        /\ ev' = [ev EXCEPT !.msg = <<Head(ev.batch)>>, !.batch = Tail(ev.batch),
                            !.todo = {c \in Callbacks : cbs[c] \in {"listed", "marked"}}]
    BY <1>7 DEF TakeMessage
  <2>2. /\ ev'.at = "hotplug" /\ ~ev'.dereg /\ ev'.msg # <<>>
        /\ ev'.todo = {c \in Callbacks : cbs[c] \in {"listed", "marked"}}
    BY <1>1, <2>1 DEF EventTypes
  <2> QED  BY <2>1, <2>2 DEF Alive
<1>8. CASE CallBack
  <2> DEFINE k == Max(ev.todo)
  <2>1. /\ ev.at = "hotplug" /\ ev.todo # {} /\ ev' = [ev EXCEPT !.todo = @ \ {k}] /\ UNCHANGED user
        /\ cbs' = cbs \/ cbs' = Gone({k})
    BY <1>8 DEF CallBack
  <2> HIDE DEF k
  <2>2. /\ ev'.todo = ev.todo \ {k} /\ ev'.at = ev.at /\ ev'.msg = ev.msg /\ ev'.dereg = ev.dereg
        /\ ev.todo \subseteq Callbacks
    BY <1>1, <2>1 DEF EventTypes
  <2>3. \A c \in Callbacks : c # k => cbs'[c] = cbs[c]
    BY <2>1 DEF Gone
  <2>4. ~(user'.at \in {"list", "call"} /\ user'.arg \in Callbacks)
    BY <1>2, <2>1
  <2> QED  BY <2>1, <2>2, <2>3, <2>4 DEF Alive
<1> QED
  BY <1>3, <1>4, <1>5, <1>6, <1>7, <1>8 DEF Events

(* No callback is called, or told what is plugged in, after it was freed:  *)
(* deregistration only marks it, and the event thread frees it between two *)
(* messages.                                                               *)
THEOREM FreedNotCalled ==
  ASSUME Races = {} PROVE Spec => []CallbacksAlive
<1>1. Init => HInv /\ Args /\ Told /\ Alive
  <2>1. Init => Args
    BY DEF Init, Args, Idle
  <2>2. Init => Told
    BY DEF Init, Told, Heard, Enumerates, Idle
  <2>3. Init => Alive
    BY DEF Init, Alive, Waiting, Idle
  <2> QED  BY <2>1, <2>2, <2>3, InitHInv
<1>2. HInv /\ Args /\ Told /\ Alive /\ [Next]_vars => HInv' /\ Args' /\ Told' /\ Alive'
  <2> SUFFICES ASSUME HInv, Args, Told, Alive, [Next]_vars
               PROVE  HInv' /\ Args' /\ Told' /\ Alive'
    OBVIOUS
  <2>1. HInv' /\ Args'
    BY NextHInv
  <2>2. Told'
    BY NextHeard, NextEnumerates DEF Told
  <2>3. Alive'
    <3>1. CASE Plug \/ Unplug \/ Monitor \/ Notify \/ Done \/ UNCHANGED vars
      <4>1. UNCHANGED <<cbs, ev, user>>
        BY <3>1 DEF Plug, Unplug, Monitor, HotplugEvent, Notify, Done, vars
      <4> QED  BY <4>1, SameCallbacks
    <3> QED  BY <3>1, UserAlive, EventsAlive DEF Next
  <2> QED  BY <2>1, <2>2, <2>3
<1>3. Alive => CallbacksAlive
  BY DEF Alive, CallbacksAlive
<1> QED  BY <1>1, <1>2, <1>3, PTL DEF Spec
=============================================================================
