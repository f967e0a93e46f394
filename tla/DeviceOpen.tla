----------------------------- MODULE DeviceOpen -----------------------------
(***************************************************************************)
(* upv_s::open: upv_usb_open_serial looks for the analyser with the serial *)
(* number wanted, then open resets it, loads it (init_data), waits until   *)
(* it is ready, starts it and writes its registers, each of which is read  *)
(* back.  Any call to libusb may fail.  When open has failed,              *)
(* upv_open_device deletes the object, which closes the device.            *)
(***************************************************************************)
EXTENDS Integers, Sequences

CONSTANTS
    Devices,    \* the devices that may be on the bus
    MaxDevices, \* bound: devices on the bus
    MaxLeftover,\* bound: full reads of data that an earlier capture left
    Serials,    \* the serial numbers; "" asks for any
    Regs        \* registers that open writes, from 1 on (10)

\* A device tells: is it ours by vendor and product, and by manufacturer; its
\* serial number; and the first call of upv_usb_open_serial that fails on it.
Faulty == {"none", "descriptor", "open", "man", "serial", "config",
           "getconfig", "setconfig", "claim", "reset"}

ASSUME DeviceAssumption ==
    /\ \A d \in Devices : /\ d.usb \in BOOLEAN /\ d.man \in BOOLEAN
                          /\ d.fails \in Faulty
    /\ MaxDevices \in Nat /\ MaxLeftover \in Nat /\ Regs \in Nat \ {0}

VARIABLES
    pc,
    bus, want,     \* the list of devices, and the serial number asked for
    i,             \* index of the device looked at
    usb_dev,       \* index of the device that usb_dev is a handle of, or 0
    opened,        \* the devices that libusb has open
    touched,       \* the devices that were sent a RESET
    retry,
    fpga,          \* of the analyser: "busy", "idle", "loading", "ready", "running"
    leftover,      \* full reads of old data in the pipe
    regs,          \* how many registers have been written and read back
    result

scanVars == <<bus, want, i, usb_dev, opened, touched>>
loadVars == <<retry, fpga, leftover, regs>>
vars == <<pc, scanVars, loadVars, result>>

Init ==
    /\ pc = "init"
    /\ bus \in UNION {[1 .. n -> Devices] : n \in 0 .. MaxDevices}
    /\ want \in Serials \cup {""}
    /\ i = 1 /\ usb_dev = 0 /\ opened = {} /\ touched = {}
    /\ retry = 3 /\ regs = 0 /\ leftover \in 0 .. MaxLeftover
    /\ fpga \in {"busy", "idle", "loading", "ready", "running"}
    /\ result = "none"

Fails(call) == bus[i].fails = call

Return(r) == result' = r /\ pc' = IF r = "Success" THEN "done" ELSE "delete"
Continue == pc' = "scan" /\ i' = i + 1 /\ UNCHANGED result

-----------------------------------------------------------------------------
(* upv_usb_open_serial.                                                    *)

KeepHandle == UNCHANGED <<usb_dev, opened>>
CloseHandle == usb_dev' = 0 /\ opened' = opened \ {usb_dev}
scanFrame == <<bus, want, touched, loadVars>>

\* libusb_init and libusb_get_device_list.
Begin ==
    /\ pc = "init"
    /\ \/ Return("EEInit") \/ Return("DeviceNotOpen")
       \/ pc' = "scan" /\ UNCHANGED result
    /\ UNCHANGED <<scanVars, loadVars>>

NotFound ==
    /\ pc = "scan" /\ i > Len(bus)
    /\ Return("DeviceNotFound")
    /\ UNCHANGED <<scanVars, loadVars>>

\* A device of ours that does not open is passed over: there may be others.
Examine ==
    /\ pc = "scan" /\ i <= Len(bus)
    /\ \/ /\ Fails("descriptor")
          /\ Return("DeviceNotOpen") /\ KeepHandle /\ UNCHANGED i
       \/ /\ ~Fails("descriptor")
          /\ ~bus[i].usb \/ Fails("open")
          /\ Continue /\ KeepHandle
       \/ /\ bus[i].usb /\ ~Fails("descriptor") /\ ~Fails("open")
          /\ usb_dev' = i /\ opened' = opened \cup {i}
          /\ pc' = "man" /\ UNCHANGED <<i, result>>
    /\ UNCHANGED scanFrame

\* Mutant: a device of another manufacturer is not closed.
CheckManufacturer_Leak ==
    /\ pc = "man"
    /\ \/ Fails("man") /\ CloseHandle /\ Return("DeviceNotOpen") /\ UNCHANGED i
       \/ ~Fails("man") /\ ~bus[i].man /\ KeepHandle /\ Continue
       \/ ~Fails("man") /\ bus[i].man /\ KeepHandle /\ pc' = "serial"
          /\ UNCHANGED <<i, result>>
    /\ UNCHANGED scanFrame

CheckManufacturer ==
    /\ pc = "man"
    /\ \/ Fails("man") /\ CloseHandle /\ Return("DeviceNotOpen") /\ UNCHANGED i
       \/ ~Fails("man") /\ ~bus[i].man /\ CloseHandle /\ Continue
       \/ ~Fails("man") /\ bus[i].man /\ KeepHandle /\ pc' = "serial"
          /\ UNCHANGED <<i, result>>
    /\ UNCHANGED scanFrame

\* Mutant: the comparison is the wrong way round.
SerialMatches_Any == want = "" \/ bus[i].sn # ""

SerialMatches == want = "" \/ bus[i].sn = want

CheckSerial ==
    /\ pc = "serial"
    /\ \/ /\ want # "" /\ Fails("serial")
          /\ CloseHandle /\ Return("DeviceNotOpen") /\ UNCHANGED i
       \/ /\ want = "" \/ ~Fails("serial")
          /\ \/ ~SerialMatches /\ CloseHandle /\ Continue
             \/ SerialMatches /\ KeepHandle /\ pc' = "claim"
                /\ UNCHANGED <<i, result>>
    /\ UNCHANGED scanFrame

\* The configuration, the interface and the RESET request.  The first two
\* failures leave the device open.
Claim ==
    /\ pc = "claim"
    /\ UNCHANGED <<i, bus, want, retry, leftover, regs>>
    /\ \/ /\ Fails("config") \/ Fails("getconfig")
          /\ KeepHandle /\ Return("DeviceNotOpen")
          /\ UNCHANGED <<touched, fpga>>
       \/ /\ Fails("setconfig")     \* -8 without permission, else -3
          /\ CloseHandle
          /\ Return("DeviceNotOpen") \/ Return("DeviceNotFound")
          /\ UNCHANGED <<touched, fpga>>
       \/ /\ Fails("claim")
          /\ CloseHandle /\ Return("DeviceNotOpen")
          /\ UNCHANGED <<touched, fpga>>
       \/ /\ Fails("reset")
          /\ CloseHandle /\ Return("DeviceNotOpen")
          /\ touched' = touched \cup {i} /\ UNCHANGED fpga
       \/ /\ Fails("none") \/ (Fails("serial") /\ want = "")
          /\ KeepHandle
          /\ touched' = touched \cup {i} /\ fpga' \in {"busy", "idle"}
          /\ pc' = "reset" /\ UNCHANGED result

-----------------------------------------------------------------------------
(* upv_s::open, the rest.                                                  *)

Goto(next) == pc' = next /\ UNCHANGED result
deviceFrame == <<bus, want, i, usb_dev, opened>>
openFrame == <<deviceFrame, leftover>>

\* Mutant: the retries are not counted.
AwaitReset_Forever ==
    /\ pc = "reset"
    /\ \/ Return("DeviceStatus") /\ UNCHANGED retry
       \/ fpga # "busy" /\ Goto("load") /\ UNCHANGED retry
       \/ fpga = "busy" /\ Goto("again") /\ UNCHANGED retry
    /\ UNCHANGED <<openFrame, touched, fpga, regs>>

\* The high nibble of the status is 0 when the analyser has been reset.
AwaitReset ==
    /\ pc = "reset"
    /\ \/ Return("DeviceStatus") /\ UNCHANGED retry
       \/ fpga # "busy" /\ Goto("load") /\ UNCHANGED retry
       \/ /\ fpga = "busy" /\ retry' = retry - 1
          /\ IF retry' = 0 THEN Return("Load") ELSE Goto("again")
    /\ UNCHANGED <<openFrame, touched, fpga, regs>>

ResetAgain ==
    /\ pc = "again"
    /\ \/ Return("Load") /\ UNCHANGED fpga
       \/ Goto("reset") /\ fpga' \in {"busy", "idle"}
    /\ touched' = touched \cup {usb_dev}
    /\ UNCHANGED <<openFrame, retry, regs>>

\* upv_write_data(init_data)
Load ==
    /\ pc = "load"
    /\ \/ Return("Load") /\ UNCHANGED <<fpga, retry>>
       \/ Goto("status") /\ fpga' = "loading" /\ retry' = 3
    /\ UNCHANGED <<openFrame, touched, regs>>

\* Mutant: when the tries are up the analyser is taken to be ready.
AwaitReady_Assume ==
    /\ pc = "status"
    /\ \/ Return("DeviceStatus") /\ UNCHANGED retry
       \/ fpga = "ready" /\ Goto("drain") /\ UNCHANGED retry
       \/ /\ fpga # "ready" /\ retry' = retry - 1
          /\ IF retry' = 0 THEN Goto("drain") ELSE Goto("status")
    /\ UNCHANGED <<openFrame, touched, fpga, regs>>

\* The low nibble is 3 when init_data has been taken in.
AwaitReady ==
    /\ pc = "status"
    /\ \/ Return("DeviceStatus") /\ UNCHANGED retry
       \/ fpga = "ready" /\ Goto("drain") /\ UNCHANGED retry
       \/ /\ fpga # "ready" /\ retry' = retry - 1
          /\ IF retry' = 0 THEN Return("Load") ELSE Goto("status")
    /\ UNCHANGED <<openFrame, touched, fpga, regs>>

\* upv_dummy_read_data: until a read fails or is not a full one.
Drain ==
    /\ pc = "drain"
    /\ \/ leftover > 0 /\ leftover' = leftover - 1 /\ Goto("drain")
       \/ leftover' = leftover /\ Goto("start")
    /\ UNCHANGED <<deviceFrame, touched, retry, fpga, regs>>

\* The rest of upv_start_device.
Start ==
    /\ pc = "start"
    /\ \/ Return("Load") /\ UNCHANGED fpga
       \/ Goto("config") /\ fpga' = IF fpga = "ready" THEN "running" ELSE fpga
    /\ UNCHANGED <<openFrame, touched, retry, regs>>

\* upv_write_config_data: a write, a read, and a comparison.
WriteConfig ==
    /\ pc = "config"
    /\ \/ Return("WriteConfig") /\ UNCHANGED regs
       \/ /\ regs' = regs + 1
          /\ IF regs' = Regs THEN Return("Success") ELSE Goto("config")
    /\ UNCHANGED <<openFrame, touched, retry, fpga>>

\* upv_open_device deletes the object; the destructor closes it.
Delete ==
    /\ pc = "delete"
    /\ CloseHandle
    /\ pc' = "done"
    /\ UNCHANGED <<bus, want, i, touched, loadVars, result>>

\* The analyser takes in what it was sent.
Analyser ==
    /\ fpga' = CASE fpga = "busy" -> "idle"
                 [] fpga = "loading" -> "ready"
                 [] OTHER -> fpga
    /\ fpga' # fpga /\ pc # "done"
    /\ UNCHANGED <<pc, scanVars, retry, leftover, regs, result>>

Host == \/ Begin \/ NotFound \/ Examine \/ CheckManufacturer \/ CheckSerial \/ Claim
        \/ AwaitReset \/ ResetAgain \/ Load \/ AwaitReady \/ Drain \/ Start
        \/ WriteConfig \/ Delete

Next == Host \/ Analyser

Spec == Init /\ [][Next]_vars

\* open is a sequence of calls that return; the analyser may never get ready,
\* but before it is started it sends no more than what is in the pipe.
FairSpec == Spec /\ WF_vars(Host)

-----------------------------------------------------------------------------
TypeOK ==
    /\ i \in 1 .. Len(bus) + 1 /\ usb_dev \in 0 .. Len(bus)
    /\ opened \subseteq 1 .. Len(bus) /\ touched \subseteq 1 .. Len(bus)
    /\ retry \in 0 .. 3 /\ regs \in 0 .. Regs /\ leftover \in 0 .. MaxLeftover
    /\ fpga \in {"busy", "idle", "loading", "ready", "running"}
    /\ result \in {"none", "Success", "EEInit", "DeviceNotFound", "DeviceNotOpen",
                   "DeviceStatus", "Load", "WriteConfig"}

(* No device stays open but the one that usb_dev is a handle of, on any    *)
(* path through the search; after a failure none does.                     *)
HandlesClosed ==
    /\ opened = IF usb_dev = 0 THEN {} ELSE {usb_dev}
    /\ pc = "done" /\ result # "Success" => opened = {}

IsWanted(k) == bus[k].usb /\ bus[k].man /\ (want = "" \/ bus[k].sn = want)

(* No device but the one asked for is ever reset: another program may be   *)
(* capturing with it.                                                      *)
OnlyWantedTouched == \A k \in touched : IsWanted(k)

(* When open succeeds the analyser was reset, loaded, ready and started,   *)
(* and all its registers were read back.                                   *)
ReadyOnSuccess ==
    result = "Success" => usb_dev # 0 /\ fpga = "running" /\ regs = Regs

(* open returns, even when the analyser never gets ready.                  *)
OpenReturns == <>(pc = "done")
=============================================================================
