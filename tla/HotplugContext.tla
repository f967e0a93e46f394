--------------------------- MODULE HotplugContext ---------------------------
(***************************************************************************)
(* A libusb context on Linux with three threads at work: the hotplug       *)
(* monitor (udev), the event thread of the application (handle_events in a *)
(* loop) and a thread that opens, closes, registers callbacks and ends     *)
(* with libusb_exit.  They share the context's devices with their          *)
(* reference counts, its hotplug callbacks, and the pending events with    *)
(* the pipe that wakes the event thread.                                   *)
(*                                                                         *)
(* A device is named by the plugging in it stands for; Plugs gives the     *)
(* addresses in the order of the pluggings.  A handle is named by its file *)
(* descriptor; POSIX hands out the lowest that is free.                    *)
(***************************************************************************)
EXTENDS Integers, Sequences, SequencesExt, FiniteSetsExt

CONSTANTS
    Plugs,      \* the address of each device that is plugged in, in order
    Fds,        \* file descriptors of open devices
    Callbacks,  \* hotplug callbacks, in the order they are registered
    Enumerating,\* those registered with LIBUSB_HOTPLUG_ENUMERATE
    Races       \* what may overlap: "init" (a device leaves while libusb_init runs),
                \* "pipe" (a device arrives in usbi_io_init), "enumerate" (events
                \* are handled during a registration with LIBUSB_HOTPLUG_ENUMERATE)

ASSUME PlugsAssumption == Plugs \in Seq(Nat)
ASSUME SetsAssumption ==
    Fds \subseteq Nat /\ Callbacks \subseteq Nat \ {0} /\ Enumerating \subseteq Callbacks
ASSUME RacesAssumption == Races \subseteq {"init", "pipe", "enumerate"}

Devices == DOMAIN Plugs
None == 0
Closed == [dev |-> None, node |-> None, removed |-> FALSE]
Idle == [at |-> "idle", arg |-> None, todo |-> {}]

VARIABLES
    plugged, present,   \* how many have been plugged in; those still there
    udev,               \* events of the monitor's socket
    devs, refs,         \* state of each libusb_device, refcnt
    hot,                \* the holder of linux_hotplug_lock between list and message
    flags, closing, msgs, pipe, \* event_flags, device_close, hotplug_msgs, bytes in the pipe
    cbs,                \* state of each hotplug callback
    heard,              \* what each callback has last been told of each device
    handles,            \* open_devs: for each descriptor the device and the node it has open
    fds, removed,       \* ctx->pollfds, ctx->removed_ipollfds
    user, list,         \* the application's thread, and the device list it holds
    ev                  \* the thread that handles events, with its locals

kernel == <<plugged, present, udev>>
devices == <<devs, refs, hot>>
pending == <<flags, closing, msgs, pipe>>
polling == <<handles, fds, removed>>
vars == <<kernel, devices, pending, cbs, heard, polling, user, list, ev>>

Waiting == [at |-> "idle", errs |-> {}, batch |-> <<>>, msg |-> <<>>, todo |-> {}, dereg |-> FALSE]

Init ==
    /\ plugged = 0 /\ present = {} /\ udev = <<>>
    /\ devs = [d \in Devices |-> "none"] /\ refs = [d \in Devices |-> 0]
    /\ hot = <<>>
    /\ flags = {} /\ closing = 0 /\ msgs = <<>> /\ pipe = 0
    /\ cbs = [c \in Callbacks |-> "none"]
    /\ heard = [c \in Callbacks |-> [d \in Devices |-> "nothing"]]
    /\ handles = [f \in Fds |-> Closed] /\ fds = {} /\ removed = {}
    /\ user = [Idle EXCEPT !.at = "none"] /\ list = {}
    /\ ev = Waiting

Attached(d) == devs[d] = "attached"
ListsReady == user.at \notin {"none", "started", "scanned"}
Active == user.at \notin {"none", "exiting", "drain", "drained", "done"}
Monitored == user.at \notin {"none", "done"}

(***************************************************************************)
(* Devices come and go (external).  The kernel counts addresses up and     *)
(* gives one again only when the monitor has long seen the device leave.   *)
(***************************************************************************)

Plug ==
    LET d == plugged + 1
    IN  /\ d \in Devices
        /\ \A e \in present \union {m.dev : m \in Range(udev)} : Plugs[e] # Plugs[d]
        /\ plugged' = d /\ present' = present \union {d}
        /\ udev' = IF Monitored THEN Append(udev, [act |-> "add", dev |-> d]) ELSE udev
        /\ UNCHANGED <<devices, pending, cbs, heard, polling, user, list, ev>>

Unplug ==
    /\ \E d \in present :
        /\ present' = present \ {d}
        /\ udev' = IF Monitored THEN Append(udev, [act |-> "remove", dev |-> d]) ELSE udev
    /\ UNCHANGED <<plugged, devices, pending, cbs, heard, polling, user, list, ev>>

(***************************************************************************)
(* Pending events: a byte is in the pipe when, and only when, something is *)
(* pending.                                                                *)
(***************************************************************************)

Pending == flags # {} \/ closing > 0 \/ msgs # <<>>

(* usbi_signal_event, only if nothing was pending before.                  *)
Signal == pipe' = IF Pending THEN pipe ELSE pipe + 1

(* Mutant: the byte is read although another event is pending.             *)
ClearPipe_Always(f, n, m) == pipe' = pipe - 1

(* usbi_clear_event, only if flags f, n closes and messages m leave nothing *)
(* pending.                                                                *)
ClearPipe(f, n, m) == pipe' = IF f = {} /\ n = 0 /\ m = <<>> THEN pipe - 1 ELSE pipe

SetFlag(f) == flags' = flags \union {f} /\ Signal

(***************************************************************************)
(* The device list and the messages about it.  Whoever changes it holds    *)
(* linux_hotplug_lock and active_contexts_lock: the monitor, or a thread   *)
(* that finds a device gone.                                               *)
(***************************************************************************)

At(address) == {d \in Devices : Attached(d) /\ Plugs[d] = address}

(* linux_enumerate_device, up to the list (usbi_connect_device).           *)
Connect(by, d) ==
    /\ devs' = [devs EXCEPT ![d] = "attached"]
    /\ refs' = [refs EXCEPT ![d] = 1]
    /\ hot' = <<[by |-> by, event |-> "arrived", dev |-> d]>>

(* Mutant: the lookup by session takes no reference.                       *)
Disconnect_NoRef(by, address) ==
    \E d \in At(address) :
        /\ devs' = [devs EXCEPT ![d] = "left"]
        /\ hot' = <<[by |-> by, event |-> "left", dev |-> d]>>
        /\ UNCHANGED refs

(* linux_device_disconnected, up to the list (usbi_disconnect_device); the *)
(* lookup by session holds a reference of its own.                         *)
Disconnect(by, address) ==
    \E d \in At(address) :
        /\ devs' = [devs EXCEPT ![d] = "left"]
        /\ refs' = [refs EXCEPT ![d] = @ + 1]
        /\ hot' = <<[by |-> by, event |-> "left", dev |-> d]>>

Freed(r, ds) == [d \in Devices |-> IF r[d] = 0 /\ ds[d] = "left" THEN "freed" ELSE ds[d]]

(* libusb_unref_device for every device of a set.                          *)
Unref(S) ==
    /\ refs' = [d \in Devices |-> IF d \in S THEN refs[d] - 1 ELSE refs[d]]
    /\ devs' = Freed(refs', devs)

(* Mutant: list_add instead of list_add_tail.                              *)
Queued_First(event, d) == <<[event |-> event, dev |-> d]>> \o msgs

Queued(event, d) == Append(msgs, [event |-> event, dev |-> d])

(* usbi_hotplug_notification; no message before the list of messages is    *)
(* there.                                                                  *)
Notify ==
    /\ hot # <<>> /\ (user.at = "pipe" => "pipe" \in Races)
    /\ IF ListsReady
       THEN /\ msgs' = Queued(hot[1].event, hot[1].dev)
            /\ IF user.at = "pipe" THEN UNCHANGED pipe ELSE Signal
       ELSE UNCHANGED <<msgs, pipe>>
    /\ IF hot[1].event = "left" THEN Unref({hot[1].dev}) ELSE UNCHANGED <<devs, refs>>
    /\ hot' = <<>>
    /\ UNCHANGED <<kernel, flags, closing, cbs, heard, polling, user, list, ev>>

(* udev_hotplug_event, by the monitor or from linux_udev_hotplug_poll.  A  *)
(* device that has gone by now cannot be initialised.                      *)
HotplugEvent(by) ==
    LET m == Head(udev)
        known == At(Plugs[m.dev])
    IN  /\ udev # <<>> /\ hot = <<>>
        /\ udev' = Tail(udev)
        /\ CASE Active /\ m.act = "add" /\ known = {} /\ m.dev \in present -> Connect(by, m.dev)
             [] Active /\ m.act = "remove" /\ known # {} -> Disconnect(by, Plugs[m.dev])
             [] OTHER -> UNCHANGED devices
        /\ UNCHANGED <<plugged, present, pending, cbs, heard, polling, user, list, ev>>

Monitor ==
    /\ Monitored
    /\ udev # <<>> /\ Head(udev).act = "remove" /\ ~ListsReady => "init" \in Races
    /\ HotplugEvent("monitor")

(***************************************************************************)
(* libusb_init and libusb_exit.                                            *)
(***************************************************************************)

Goto(pc) == user' = [user EXCEPT !.at = pc]
Free(by) == by \notin {h.by : h \in Range(hot)}    \* by is not in the middle of a hotplug event
At_(pc) == user.at = pc /\ Free("user")

(* The context joins active_contexts_list and the monitor starts.          *)
StartInit ==
    /\ At_("none") /\ Goto("started")
    /\ UNCHANGED <<kernel, devices, pending, cbs, heard, polling, list, ev>>

(* linux_scan_devices, under linux_hotplug_lock.                           *)
Scan ==
    /\ At_("started") /\ hot = <<>> /\ Goto("scanned")
    /\ LET new == {d \in present : At(Plugs[d]) = {}}
       IN  /\ devs' = [d \in Devices |-> IF d \in new THEN "attached" ELSE devs[d]]
           /\ refs' = [d \in Devices |-> IF d \in new THEN 1 ELSE refs[d]]
    /\ UNCHANGED <<kernel, hot, pending, cbs, heard, polling, list, ev>>

(* usbi_io_init: the lists, then the pipe and its entry in the poll set.   *)
IoInitLists ==
    /\ At_("scanned") /\ Goto("pipe")
    /\ UNCHANGED <<kernel, devices, pending, cbs, heard, polling, list, ev>>

IoInit ==
    /\ At_("pipe") /\ Goto("idle") /\ SetFlag("pollfds")
    /\ UNCHANGED <<kernel, devices, closing, msgs, cbs, heard, polling, list, ev>>

(* libusb_exit, once the application has closed its devices and stopped    *)
(* its event thread: off active_contexts_list, which a hotplug event locks.*)
Exit ==
    /\ At_("idle") /\ hot = <<>>
    /\ \A f \in Fds : handles[f] = Closed
    /\ ev.at = "idle"
    /\ Goto("exiting")
    /\ UNCHANGED <<kernel, devices, pending, cbs, heard, polling, list, ev>>

Gone(S) == [c \in Callbacks |-> IF c \in S THEN "freed" ELSE cbs[c]]

(* Mutant: without libusb_handle_events_timeout.                           *)
ExitDeregister_NoDrain ==
    /\ At_("exiting") /\ Goto("drained")
    /\ cbs' = Gone({c \in Callbacks : cbs[c] # "none"})
    /\ UNCHANGED <<kernel, devices, pending, heard, polling, list, ev>>

(* usbi_hotplug_deregister, forced; then libusb_handle_events_timeout.     *)
ExitDeregister ==
    /\ At_("exiting") /\ Goto("drain")
    /\ cbs' = Gone({c \in Callbacks : cbs[c] # "none"})
    /\ UNCHANGED <<kernel, devices, pending, heard, polling, list, ev>>

(* The devices still listed are released, the pipe is closed.              *)
ExitFree ==
    /\ At_("drained") /\ Goto("done")
    /\ LET listed == {d \in Devices : Attached(d)}
           off == [d \in Devices |-> IF d \in listed THEN "left" ELSE devs[d]]
       IN  /\ refs' = [d \in Devices |-> IF d \in listed THEN refs[d] - 1 ELSE refs[d]]
           /\ devs' = Freed(refs', off)
    /\ flags' = {} /\ pipe' = 0
    /\ UNCHANGED <<kernel, hot, closing, msgs, cbs, heard, polling, list, ev>>

(***************************************************************************)
(* libusb_open and libusb_close.                                           *)
(***************************************************************************)

Lowest == Min({f \in Fds : handles[f] = Closed})
Nodes(d) == {n \in present : Plugs[n] = Plugs[d]}

(* libusb_open of d.  The node may be of another device by now, or gone;   *)
(* then the device is taken off the list if the monitor has not done so.   *)
Open(by, d) ==
    /\ Attached(d)
    /\ IF Nodes(d) # {}
       THEN /\ \E f \in Fds : handles[f] = Closed
            /\ handles' = [handles EXCEPT ![Lowest] =
                   [dev |-> d, node |-> CHOOSE n \in Nodes(d) : TRUE, removed |-> FALSE]]
            /\ refs' = [refs EXCEPT ![d] = @ + 1]
            /\ SetFlag("pollfds")
            /\ UNCHANGED <<devs, hot>>
       ELSE /\ hot = <<>> /\ Disconnect(by, Plugs[d])
            /\ UNCHANGED <<handles, flags, pipe>>

(* do_close.                                                               *)
DoClose(f) ==
    /\ handles' = [handles EXCEPT ![f] = Closed]
    /\ Unref({handles[f].dev})
    /\ IF handles[f].removed
       THEN UNCHANGED <<removed, flags>>
       ELSE removed' = removed \union {f} /\ flags' = flags \union {"pollfds"}

(* libusb_open_device_with_vid_pid: the list, one device of it, no list.   *)
Find ==
    /\ At_("idle") /\ user' = [user EXCEPT !.at = "list"]
    /\ UNCHANGED <<kernel, devices, pending, cbs, heard, polling, list, ev>>

(* libusb_get_device_list: hotplug_poll, then a reference to every device. *)
HotplugPoll == At_("list") /\ HotplugEvent("user")

TakeList ==
    /\ At_("list") /\ udev = <<>> /\ hot = <<>>
    /\ list' = {d \in Devices : Attached(d)}
    /\ refs' = [d \in Devices |-> IF d \in list' THEN refs[d] + 1 ELSE refs[d]]
    /\ user' = [user EXCEPT !.at = IF user.arg = None THEN "open" ELSE "call",
                            !.todo = IF user.arg = None THEN {} ELSE list']
    /\ UNCHANGED <<kernel, devs, hot, pending, cbs, heard, polling, ev>>

OpenFound ==
    /\ At_("open") /\ Goto("free")
    /\ \/ \E d \in list : Open("user", d)
       \/ (\E d \in list : ~Attached(d)) /\ UNCHANGED <<devices, handles, flags, pipe>>
    /\ UNCHANGED <<kernel, closing, msgs, cbs, heard, fds, removed, list, ev>>

(* libusb_free_device_list.                                                *)
FreeList ==
    /\ \/ At_("free")
       \/ At_("open") /\ list = {}
       \/ At_("call") /\ user.todo = {}
    /\ Unref(list) /\ list' = {} /\ user' = Idle
    /\ UNCHANGED <<kernel, hot, pending, cbs, heard, polling, ev>>

(* libusb_close interrupts the event thread and waits for the events lock. *)
Close ==
    /\ At_("idle")
    /\ \E f \in Fds :
        /\ handles[f] # Closed
        /\ user' = [user EXCEPT !.at = "closing", !.arg = f]
    /\ closing' = closing + 1 /\ Signal
    /\ UNCHANGED <<kernel, devices, flags, msgs, cbs, heard, polling, list, ev>>

CloseLocked ==
    /\ At_("closing") /\ ev.at = "idle"
    /\ DoClose(user.arg)
    /\ closing' = closing - 1 /\ ClearPipe(flags', closing', msgs)
    /\ user' = Idle
    /\ UNCHANGED <<kernel, hot, msgs, cbs, heard, fds, list, ev>>

(***************************************************************************)
(* Registration and interruption.                                          *)
(***************************************************************************)

Hear(c, d, event) == heard' = [heard EXCEPT ![c][d] = event]

(* With LIBUSB_HOTPLUG_ENUMERATE the registration goes on with the list.   *)
Register ==
    LET c == Min({k \in Callbacks : cbs[k] = "none"})
    IN  /\ At_("idle") /\ \E k \in Callbacks : cbs[k] = "none"
        /\ cbs' = [cbs EXCEPT ![c] = "listed"]
        /\ IF c \in Enumerating
           THEN /\ "enumerate" \in Races \/ ev.at = "idle"
                /\ user' = [user EXCEPT !.at = "list", !.arg = c]
           ELSE UNCHANGED user
        /\ UNCHANGED <<kernel, devices, pending, heard, polling, list, ev>>

EnumerateCall ==
    /\ At_("call")
    /\ \E d \in user.todo :
        /\ Hear(user.arg, d, "arrived")
        /\ user' = [user EXCEPT !.todo = @ \ {d}]
    /\ UNCHANGED <<kernel, devices, pending, cbs, polling, list, ev>>

(* libusb_hotplug_deregister_callback marks; the event thread frees.       *)
Deregister ==
    /\ At_("idle")
    /\ \E c \in Callbacks : cbs[c] = "listed" /\ cbs' = [cbs EXCEPT ![c] = "marked"]
    /\ SetFlag("dereg")
    /\ UNCHANGED <<kernel, devices, closing, msgs, heard, polling, user, list, ev>>

(* libusb_interrupt_event_handler.                                         *)
Interrupt ==
    /\ At_("idle") /\ "interrupt" \notin flags
    /\ SetFlag("interrupt")
    /\ UNCHANGED <<kernel, devices, closing, msgs, cbs, heard, polling, user, list, ev>>

(***************************************************************************)
(* handle_events, under the events lock.                                   *)
(***************************************************************************)

Polled == {f \in Fds : handles[f] # Closed /\ ~handles[f].removed}

(* The application does not run the event thread before libusb_init has    *)
(* returned or during libusb_exit, which handles events once itself.       *)
MayHandle ==
    /\ user.at \in {"idle", "list", "open", "call", "free", "drain"}
    /\ user.at \in {"list", "call"} /\ user.arg # None => "enumerate" \in Races

EventBegin ==
    /\ ev.at = "idle" /\ closing = 0 /\ MayHandle
    /\ ev' = [ev EXCEPT !.at = "poll"]
    /\ removed' = {}
    /\ flags' = flags \ {"pollfds"}
    /\ IF "pollfds" \in flags THEN fds' = Polled /\ ClearPipe(flags', closing, msgs) ELSE UNCHANGED <<fds, pipe>>
    /\ UNCHANGED <<kernel, devices, closing, msgs, cbs, heard, handles, user, list>>

Errors == {f \in fds : handles[f].node \notin present}

EventPoll ==
    /\ ev.at = "poll" /\ (pipe > 0 \/ Errors # {})
    /\ ev' = [ev EXCEPT !.at = IF pipe > 0 THEN "pipe" ELSE "usbfs", !.errs = Errors]
    /\ UNCHANGED <<kernel, devices, pending, cbs, heard, polling, user, list>>

(* The event pipe: all messages are taken at once.                         *)
EventPipe ==
    /\ ev.at = "pipe"
    /\ ev' = [ev EXCEPT !.at = "hotplug", !.batch = msgs, !.dereg = "dereg" \in flags]
    /\ msgs' = <<>> /\ flags' = flags \ {"interrupt", "dereg"}
    /\ ClearPipe(flags', closing, <<>>)
    /\ UNCHANGED <<kernel, devices, closing, cbs, heard, polling, user, list>>

EventDeregister ==
    /\ ev.at = "hotplug" /\ ev.dereg
    /\ cbs' = Gone({c \in Callbacks : cbs[c] = "marked"})
    /\ ev' = [ev EXCEPT !.dereg = FALSE]
    /\ UNCHANGED <<kernel, devices, pending, heard, polling, user, list>>

(* usbi_hotplug_match, begun and, for each callback, with hotplug_cbs_lock *)
(* dropped for the call.                                                   *)
TakeMessage ==
    /\ ev.at = "hotplug" /\ ~ev.dereg /\ ev.msg = <<>> /\ ev.batch # <<>>
    /\ ev' = [ev EXCEPT !.msg = <<Head(ev.batch)>>, !.batch = Tail(ev.batch),
                        !.todo = {c \in Callbacks : cbs[c] \in {"listed", "marked"}}]
    /\ UNCHANGED <<kernel, devices, pending, cbs, heard, polling, user, list>>

(* What the application does when it is called: open a device that has     *)
(* arrived, close a handle of one that has left, or nothing.               *)
InCallback(m) ==
    \/ UNCHANGED <<devices, handles, removed, flags, pipe>>
    \/ m.event = "arrived" /\ Open("events", m.dev) /\ UNCHANGED removed
    \/ /\ m.event = "left"
       /\ \E f \in Fds :
            /\ handles[f].dev = m.dev /\ ~(user.at = "closing" /\ user.arg = f)
            /\ DoClose(f)
            /\ IF handles[f].removed THEN UNCHANGED pipe ELSE Signal
       /\ UNCHANGED hot

(* The newest callback is first in the list; one that is marked is passed  *)
(* over, one that returns 1 is freed.                                      *)
CallBack ==
    LET c == Max(ev.todo)
        m == ev.msg[1]
    IN  /\ ev.at = "hotplug" /\ ev.msg # <<>> /\ ev.todo # {} /\ Free("events")
        /\ ev' = [ev EXCEPT !.todo = @ \ {c}]
        /\ IF cbs[c] = "marked"
           THEN UNCHANGED <<devices, handles, removed, flags, pipe, cbs, heard>>
           ELSE /\ InCallback(m)
                /\ Hear(c, m.dev, m.event)
                /\ cbs' \in {cbs, Gone({c})}
        /\ UNCHANGED <<kernel, closing, msgs, fds, user, list>>

(* A device that has left loses the reference of the device list.          *)
EndMessage ==
    /\ ev.at = "hotplug" /\ ev.msg # <<>> /\ ev.todo = {} /\ Free("events")
    /\ IF ev.msg[1].event = "left" THEN Unref({ev.msg[1].dev}) ELSE UNCHANGED <<devs, refs>>
    /\ ev' = [ev EXCEPT !.msg = <<>>]
    /\ UNCHANGED <<kernel, hot, pending, cbs, heard, polling, user, list>>

EndMessages ==
    /\ ev.at = "hotplug" /\ ~ev.dereg /\ ev.msg = <<>> /\ ev.batch = <<>>
    /\ ev' = [ev EXCEPT !.at = "usbfs"]
    /\ UNCHANGED <<kernel, devices, pending, cbs, heard, polling, user, list>>

(* Mutant: revents is not cleared for a descriptor that was removed.       *)
Stale_Never(f) == FALSE

(* An error on f that was raised before f was taken out of the poll set    *)
(* says nothing of what f stands for now.                                  *)
Stale(f) == f \in removed

(* op_handle_events: the device behind f is gone.                          *)
UsbfsError ==
    /\ ev.at = "usbfs" /\ hot = <<>>
    /\ \E f \in ev.errs :
        /\ ev' = [ev EXCEPT !.errs = @ \ {f}]
        /\ IF Stale(f) \/ handles[f] = Closed
           THEN UNCHANGED <<devices, handles, removed, flags, pipe>>
           ELSE /\ handles' = [handles EXCEPT ![f].removed = TRUE]
                /\ removed' = removed \union {f}
                /\ SetFlag("pollfds")
                /\ IF Attached(handles[f].dev)
                   THEN Disconnect("events", Plugs[handles[f].dev])
                   ELSE UNCHANGED devices
    /\ UNCHANGED <<kernel, closing, msgs, cbs, heard, fds, user, list>>

(* libusb_unlock_events; in libusb_exit this was the one time.             *)
EventEnd ==
    /\ \/ ev.at = "usbfs" /\ ev.errs = {} /\ Free("events")
       \/ ev.at = "poll" /\ user.at = "drain" /\ pipe = 0 /\ Errors = {}
    /\ ev' = Waiting
    /\ IF user.at = "drain" THEN Goto("drained") ELSE UNCHANGED user
    /\ UNCHANGED <<kernel, devices, pending, cbs, heard, polling, list>>

Events == EventBegin \/ EventPoll \/ EventPipe \/ EventDeregister \/ TakeMessage
          \/ CallBack \/ EndMessage \/ EndMessages \/ UsbfsError \/ EventEnd
User == StartInit \/ Scan \/ IoInitLists \/ IoInit \/ Exit \/ ExitDeregister \/ ExitFree
        \/ Find \/ HotplugPoll \/ TakeList \/ OpenFound \/ FreeList \/ Close \/ CloseLocked
        \/ Register \/ EnumerateCall \/ Deregister \/ Interrupt
Done == user.at = "done" /\ UNCHANGED vars

Next == Plug \/ Unplug \/ Monitor \/ Notify \/ Events \/ User \/ Done

Spec == Init /\ [][Next]_vars
-----------------------------------------------------------------------------
TypeOK ==
    /\ plugged \in 0..Len(Plugs) /\ present \subseteq 1..plugged
    /\ devs \in [Devices -> {"none", "attached", "left", "freed"}]
    /\ refs \in [Devices -> Nat]
    /\ flags \subseteq {"pollfds", "interrupt", "dereg"} /\ closing \in 0..1 /\ pipe \in Nat
    /\ cbs \in [Callbacks -> {"none", "listed", "marked", "freed"}]
    /\ heard \in [Callbacks -> [Devices -> {"nothing", "arrived", "left"}]]
    /\ handles \in [Fds -> [dev : Devices \union {None}, node : Devices \union {None}, removed : BOOLEAN]]
    /\ fds \subseteq Fds /\ removed \subseteq Fds /\ list \subseteq Devices

(* A byte is in the event pipe exactly when something is pending, so that  *)
(* the event thread neither sleeps through an event (libusb_close would    *)
(* wait for the events lock until poll times out) nor spins on none        *)
(* (usbi_signal_event, usbi_clear_event and their eight callers).          *)
PipeSignalled ==
    ListsReady /\ user.at # "pipe" => pipe = IF Pending THEN 1 ELSE 0

(* Who holds a reference to d: the device list, until the message that d   *)
(* has left is handled, a hotplug event under way, the list of the         *)
(* application and each open handle.                                       *)
LeftMessages == msgs \o ev.batch \o ev.msg
Holders(d) ==
    (IF Attached(d) THEN 1 ELSE 0)
    + Cardinality({i \in DOMAIN LeftMessages : LeftMessages[i] = [event |-> "left", dev |-> d]})
    + (IF hot # <<>> /\ hot[1].event = "left" /\ hot[1].dev = d THEN 2 ELSE 0)
    + (IF d \in list THEN 1 ELSE 0)
    + Cardinality({f \in Fds : handles[f].dev = d})

(* A device's count is the number of its holders: nobody uses a device     *)
(* that has been freed, and none is forgotten (libusb_ref_device and       *)
(* libusb_unref_device in the list, the messages, libusb_open and          *)
(* libusb_close).  A message that d has arrived holds no reference: it is  *)
(* handled before the one that d has left.                                 *)
RefsMatchHolders ==
    \A d \in Devices :
        /\ refs[d] = Holders(d)
        /\ devs[d] = "freed" =>
            \A m \in Range(LeftMessages) : m.dev # d

(* No device is taken off the list while it is plugged in, whatever error  *)
(* on a descriptor or late event is handled (op_handle_events and the      *)
(* monitor name it by address, the poll set by descriptor; both are used   *)
(* again).                                                                 *)
LeftIsGone == \A d \in present : devs[d] \in {"none", "attached"} \/ user.at = "done"

(* Whatever was plugged, opened and registered, libusb_exit leaves no      *)
(* device and no callback allocated.                                       *)
ExitReleasesAll ==
    user.at = "done" =>
        /\ \A d \in Devices : devs[d] \in {"none", "freed"}
        /\ \A c \in Callbacks : cbs[c] \in {"none", "freed"}

(* A callback that is about to be called, or is being registered, has not  *)
(* been freed (deregistration only marks it, the event thread frees it).   *)
CallbacksAlive ==
    /\ \A c \in ev.todo : cbs[c] # "freed"
    /\ user.arg \in Callbacks /\ user.at = "call" => cbs[user.arg] # "freed"

(* No callback is told that a device has arrived after it was told that    *)
(* the device has left.                                                    *)
NoLateArrival ==
    [][\A c \in Callbacks, d \in Devices : heard[c][d] = "left" => heard'[c][d] = "left"]_vars
=============================================================================
