--------------------------- MODULE DeviceOpenProof ---------------------------
(***************************************************************************)
(* What upv_s::open promises holds for every list of devices on the bus,   *)
(* whatever call fails on which of them, every serial number asked for and *)
(* every number of registers; and so does what it writes for the option,   *)
(* for every set of bytes and every number of items of the filter.         *)
(*                                                                         *)
(* None of the search's three invariants is inductive: they follow from    *)
(* what the place in open says of the device whose handle is held, of the  *)
(* checks it has passed and of the analyser.                               *)
(***************************************************************************)
EXTENDS DeviceOpen, OptionFilter, SequenceTheorems, TLAPS

\* The places of the search, and those once a device has been chosen and reset.
Searching == {"init", "scan", "man", "serial", "claim"}
Chosen == {"reset", "again", "load", "status", "drain", "start", "config"}

\* Before a device is opened there is no handle; then it is the one looked at,
\* which has passed the checks made so far.
SearchPlace ==
    /\ pc \in {"init", "scan"} => usb_dev = 0
    /\ pc \in {"man", "serial", "claim"} => usb_dev = i /\ i <= Len(bus) /\ bus[i].usb
    /\ pc \in {"serial", "claim"} => bus[i].man
    /\ pc = "claim" => SerialMatches
    /\ pc \in Chosen => usb_dev # 0 /\ IsWanted(usb_dev)

\* How far the analyser is.
AnalyserPlace ==
    /\ pc \in {"drain", "start"} => fpga = "ready"
    /\ pc = "config" => fpga = "running" /\ regs < Regs
    /\ pc \in (Searching \cup Chosen) \ {"config"} => regs = 0
    /\ pc \in Searching \cup {"reset", "again", "load", "status"} => retry > 0
    /\ pc \in Searching \cup Chosen => result = "none"
    /\ result = "Success" => pc = "done"

IInv ==
    /\ TypeOK
    /\ Len(bus) \in Nat
    /\ pc \in Searching \cup Chosen \cup {"delete", "done"}
    /\ SearchPlace
    /\ AnalyserPlace
    /\ HandlesClosed
    /\ OnlyWantedTouched
    /\ ReadyOnSuccess

-----------------------------------------------------------------------------
LEMMA InitIInv == Init => IInv
<1> SUFFICES ASSUME Init PROVE IInv
  OBVIOUS
<1>1. Len(bus) \in Nat
  <2>1. PICK n \in 0 .. MaxDevices : bus \in [1 .. n -> Devices]
    BY DEF Init
  <2> QED  BY <2>1, DeviceAssumption
<1>0. /\ i = 1 /\ usb_dev = 0 /\ opened = {} /\ touched = {} /\ retry = 3 /\ regs = 0
      /\ leftover \in 0 .. MaxLeftover /\ pc = "init" /\ result = "none"
      /\ fpga \in {"busy", "idle", "loading", "ready", "running"}
  BY DEF Init
<1>2. TypeOK
  BY <1>0, <1>1, DeviceAssumption DEF TypeOK
<1>3. SearchPlace /\ AnalyserPlace
  BY <1>0 DEF SearchPlace, AnalyserPlace, Searching, Chosen
<1>4. HandlesClosed /\ OnlyWantedTouched /\ ReadyOnSuccess
  BY <1>0 DEF HandlesClosed, OnlyWantedTouched, ReadyOnSuccess
<1> QED  BY <1>0, <1>1, <1>2, <1>3, <1>4 DEF IInv, Searching

(* Every call of upv_usb_open_serial, whether it fails or not, keeps IInv. *)
LEMMA SearchIInv ==
  ASSUME IInv, Begin \/ NotFound \/ Examine \/ CheckManufacturer \/ CheckSerial \/ Claim
  PROVE  IInv'
<1> USE DEF IInv, Searching, Chosen
<1>0. bus' = bus /\ want' = want /\ regs' = regs
  BY DEF Begin, NotFound, Examine, CheckManufacturer, CheckSerial, Claim,
         scanVars, loadVars, scanFrame
<1>1. ASSUME Begin \/ NotFound PROVE IInv'
  <2>1. /\ pc \in {"init", "scan"} /\ pc' \in {"scan", "delete"}
        /\ pc' = "scan" => result' = result
        /\ result' # "Success"
        /\ result' \in {"none", "EEInit", "DeviceNotFound", "DeviceNotOpen"}
        /\ UNCHANGED <<scanVars, loadVars>>
    BY <1>1 DEF Begin, NotFound, Return, AnalyserPlace
  <2> QED
    BY <2>1 DEF scanVars, loadVars, TypeOK, SearchPlace, AnalyserPlace,
       HandlesClosed, OnlyWantedTouched, ReadyOnSuccess, IsWanted, SerialMatches
<1>2. ASSUME Examine PROVE IInv'
  <2>1. TypeOK' /\ pc' \in {"scan", "man", "delete"}
    <3>1. /\ i \in 1 .. Len(bus) /\ i' \in {i, i + 1}
          /\ usb_dev' \in {usb_dev, i} /\ opened' \subseteq opened \cup {i}
      BY <1>2 DEF Examine, Continue, KeepHandle, TypeOK
    <3>2. /\ result' \in {result, "DeviceNotOpen"}
          /\ pc' \in {"scan", "man", "delete"} /\ UNCHANGED scanFrame
      BY <1>2 DEF Examine, Return, Continue
    <3> QED  BY <3>1, <3>2 DEF scanFrame, loadVars, TypeOK
  <2>2. SearchPlace' /\ AnalyserPlace'
    BY <1>2 DEF Examine, Return, Continue, KeepHandle, scanFrame, loadVars,
       SearchPlace, AnalyserPlace
  <2>3. HandlesClosed'
    BY <1>2, <2>1 DEF Examine, KeepHandle, SearchPlace, TypeOK, HandlesClosed
  <2>4. OnlyWantedTouched' /\ ReadyOnSuccess'
    BY <1>2, <2>2 DEF Examine, scanFrame, OnlyWantedTouched, IsWanted, ReadyOnSuccess,
       AnalyserPlace, Return, Continue
  <2> QED  BY <1>0, <2>1, <2>2, <2>3, <2>4
<1>3. ASSUME CheckManufacturer PROVE IInv'
  <2>1. TypeOK' /\ pc' \in {"scan", "serial", "delete"}
    <3>1. /\ i \in 1 .. Len(bus) /\ i' \in {i, i + 1}
          /\ usb_dev' \in {usb_dev, 0} /\ opened' \subseteq opened
      BY <1>3 DEF CheckManufacturer, Continue, KeepHandle, CloseHandle, TypeOK, SearchPlace
    <3>2. /\ result' \in {result, "DeviceNotOpen"}
          /\ pc' \in {"scan", "serial", "delete"} /\ UNCHANGED scanFrame
      BY <1>3 DEF CheckManufacturer, Return, Continue
    <3> QED  BY <3>1, <3>2 DEF scanFrame, loadVars, TypeOK
  <2>2. SearchPlace' /\ AnalyserPlace'
    BY <1>3 DEF CheckManufacturer, Return, Continue, KeepHandle, CloseHandle,
       scanFrame, loadVars, SearchPlace, AnalyserPlace
  <2>3. HandlesClosed' /\ OnlyWantedTouched' /\ ReadyOnSuccess'
    BY <1>3 DEF CheckManufacturer, Return, Continue, KeepHandle, CloseHandle,
       scanFrame, loadVars, TypeOK, SearchPlace, AnalyserPlace,
       HandlesClosed, OnlyWantedTouched, ReadyOnSuccess, IsWanted
  <2> QED  BY <1>0, <2>1, <2>2, <2>3
<1>4. ASSUME CheckSerial PROVE IInv'
  <2>1. TypeOK' /\ pc' \in {"scan", "claim", "delete"}
    <3>1. /\ i \in 1 .. Len(bus) /\ i' \in {i, i + 1}
          /\ usb_dev' \in {usb_dev, 0} /\ opened' \subseteq opened
      <4>1. i \in 1 .. Len(bus)
        <5>1. pc = "serial"
          BY <1>4 DEF CheckSerial
        <5> QED  BY <5>1 DEF TypeOK, SearchPlace
      <4>2. i' \in {i, i + 1} /\ usb_dev' \in {usb_dev, 0} /\ opened' \subseteq opened
        BY <1>4 DEF CheckSerial, Continue, KeepHandle, CloseHandle
      <4> QED  BY <4>1, <4>2
    <3>2. /\ result' \in {result, "DeviceNotOpen"}
          /\ pc' \in {"scan", "claim", "delete"} /\ UNCHANGED scanFrame
      BY <1>4 DEF CheckSerial, Return, Continue
    <3> QED  BY <3>1, <3>2 DEF scanFrame, loadVars, TypeOK
  <2>2. SearchPlace' /\ AnalyserPlace'
    BY <1>4 DEF CheckSerial, Return, Continue, KeepHandle, CloseHandle,
       scanFrame, loadVars, SearchPlace, AnalyserPlace, SerialMatches
  <2>3. HandlesClosed' /\ OnlyWantedTouched' /\ ReadyOnSuccess'
    BY <1>4 DEF CheckSerial, Return, Continue, KeepHandle, CloseHandle,
       scanFrame, loadVars, TypeOK, SearchPlace, AnalyserPlace,
       HandlesClosed, OnlyWantedTouched, ReadyOnSuccess, IsWanted
  <2> QED  BY <1>0, <2>1, <2>2, <2>3
<1>5. ASSUME Claim PROVE IInv'
  <2>1. /\ pc = "claim" /\ usb_dev = i /\ i \in 1 .. Len(bus) /\ IsWanted(i)
        /\ opened = {i} /\ UNCHANGED <<i, bus, want, retry, leftover, regs>>
    <3>1. pc = "claim" /\ UNCHANGED <<i, bus, want, retry, leftover, regs>>
      BY <1>5 DEF Claim
    <3>2. usb_dev = i /\ i \in 1 .. Len(bus)
      BY <3>1 DEF SearchPlace, TypeOK
    <3>3. IsWanted(i)
      BY <3>1 DEF SearchPlace, IsWanted, SerialMatches
    <3> QED  BY <3>1, <3>2, <3>3 DEF HandlesClosed
  <2>2. \/ KeepHandle /\ pc' \in {"reset", "delete"}
        \/ CloseHandle /\ pc' = "delete"
    BY <1>5 DEF Claim, Return
  <2>3. /\ touched' \subseteq touched \cup {i}
        /\ result' \in {"none", "DeviceNotFound", "DeviceNotOpen"}
        /\ pc' = "reset" => result' = "none"
        /\ fpga' \in {"busy", "idle", fpga}
    BY <1>5 DEF Claim, Return, AnalyserPlace
  <2>4. TypeOK'
    BY <2>1, <2>2, <2>3 DEF TypeOK, KeepHandle, CloseHandle
  <2>5. SearchPlace' /\ AnalyserPlace'
    <3>0. i # 0
      BY <2>1
    <3>1. IsWanted(i)'
      BY <2>1 DEF IsWanted
    <3>2. SearchPlace'
      BY <2>1, <2>2, <3>0, <3>1 DEF SearchPlace, KeepHandle
    <3> QED  BY <2>1, <2>2, <2>3, <3>2 DEF AnalyserPlace
  <2>6. HandlesClosed' /\ OnlyWantedTouched' /\ ReadyOnSuccess'
    BY <2>1, <2>2, <2>3 DEF KeepHandle, CloseHandle, TypeOK,
       HandlesClosed, OnlyWantedTouched, ReadyOnSuccess, IsWanted
  <2> QED  BY <1>0, <2>2, <2>4, <2>5, <2>6
<1> QED  BY <1>1, <1>2, <1>3, <1>4, <1>5

(* So does every step of the rest of open, of the destructor and of the    *)
(* analyser.                                                               *)
LEMMA StartIInv ==
  ASSUME IInv, \/ AwaitReset \/ ResetAgain \/ Load \/ AwaitReady \/ Drain \/ Start
               \/ WriteConfig \/ Delete \/ Analyser
  PROVE  IInv'
<1> USE DEF IInv, Searching, Chosen
<1>0. /\ bus' = bus /\ want' = want /\ i' = i
      /\ UNCHANGED touched \/ (pc = "again" /\ touched' = touched \cup {usb_dev})
  BY DEF AwaitReset, ResetAgain, Load, AwaitReady, Drain, Start, WriteConfig, Delete,
         Analyser, openFrame, deviceFrame, scanVars
<1>1. OnlyWantedTouched' /\ touched' \subseteq 1 .. Len(bus)
  <2>1. pc = "again" => IsWanted(usb_dev) /\ usb_dev \in 1 .. Len(bus)
    BY DEF SearchPlace, TypeOK
  <2>2. \A k \in touched' : k \in touched \/ (pc = "again" /\ k = usb_dev)
    BY <1>0
  <2> QED  BY <1>0, <2>1, <2>2 DEF TypeOK, OnlyWantedTouched, IsWanted
<1>2. ASSUME AwaitReset PROVE IInv'
  <2>1. /\ UNCHANGED <<openFrame, touched, fpga, regs>>
        /\ pc = "reset" /\ pc' \in {"load", "again", "delete"}
        /\ result' \in {"none", "DeviceStatus", "Load"}
        /\ (pc' # "delete" => result' = "none")
        /\ retry' \in 0 .. 3 /\ (pc' # "delete" => retry' > 0)
    BY <1>2 DEF AwaitReset, Return, Goto, AnalyserPlace, TypeOK
  <2>2. UNCHANGED <<i, bus, want, usb_dev, opened>>
    BY <2>1 DEF openFrame, deviceFrame
  <2>3. TypeOK'
    BY <1>1, <2>1, <2>2 DEF openFrame, TypeOK
  <2>4. SearchPlace' /\ AnalyserPlace'
    BY <2>1, <2>2 DEF SearchPlace, AnalyserPlace, IsWanted
  <2>5. HandlesClosed' /\ ReadyOnSuccess'
    BY <2>1, <2>2 DEF HandlesClosed, ReadyOnSuccess, SearchPlace, AnalyserPlace, TypeOK
  <2> QED  BY <1>0, <1>1, <2>1, <2>2, <2>3, <2>4, <2>5
<1>3. ASSUME ResetAgain PROVE IInv'
  <2>1. /\ UNCHANGED <<openFrame, retry, regs>>
        /\ pc = "again" /\ pc' \in {"reset", "delete"}
        /\ result' \in {"none", "Load"} /\ (pc' # "delete" => result' = "none")
        /\ fpga' \in {fpga, "busy", "idle"}
    BY <1>3 DEF ResetAgain, Return, Goto, AnalyserPlace
  <2>2. UNCHANGED <<i, bus, want, usb_dev, opened>>
    BY <2>1 DEF openFrame, deviceFrame
  <2>3. TypeOK'
    BY <1>1, <2>1, <2>2 DEF openFrame, TypeOK
  <2>4. SearchPlace' /\ AnalyserPlace'
    BY <2>1, <2>2 DEF SearchPlace, AnalyserPlace, IsWanted
  <2>5. HandlesClosed' /\ ReadyOnSuccess'
    BY <2>1, <2>2 DEF HandlesClosed, ReadyOnSuccess, SearchPlace, AnalyserPlace, TypeOK
  <2> QED  BY <1>0, <1>1, <2>1, <2>2, <2>3, <2>4, <2>5
<1>4. ASSUME Load PROVE IInv'
  <2>1. /\ UNCHANGED <<openFrame, touched, regs>>
        /\ pc = "load" /\ pc' \in {"status", "delete"}
        /\ result' \in {"none", "Load"} /\ (pc' # "delete" => result' = "none")
        /\ fpga' \in {fpga, "loading"} /\ retry' \in {retry, 3} /\ retry' > 0
    BY <1>4 DEF Load, Return, Goto, AnalyserPlace
  <2>2. UNCHANGED <<i, bus, want, usb_dev, opened>>
    BY <2>1 DEF openFrame, deviceFrame
  <2>3. TypeOK'
    BY <1>1, <2>1, <2>2 DEF openFrame, TypeOK
  <2>4. SearchPlace' /\ AnalyserPlace'
    BY <2>1, <2>2 DEF SearchPlace, AnalyserPlace, IsWanted
  <2>5. HandlesClosed' /\ ReadyOnSuccess'
    BY <2>1, <2>2 DEF HandlesClosed, ReadyOnSuccess, SearchPlace, AnalyserPlace, TypeOK
  <2> QED  BY <1>0, <1>1, <2>1, <2>2, <2>3, <2>4, <2>5
<1>5. ASSUME AwaitReady PROVE IInv'
  <2>1. /\ UNCHANGED <<openFrame, touched, fpga, regs>>
        /\ pc = "status" /\ pc' \in {"status", "drain", "delete"}
        /\ pc' = "drain" => fpga = "ready"
        /\ result' \in {"none", "DeviceStatus", "Load"}
        /\ (pc' # "delete" => result' = "none")
        /\ retry' \in 0 .. 3 /\ (pc' = "status" => retry' > 0)
    BY <1>5 DEF AwaitReady, Return, Goto, AnalyserPlace, TypeOK
  <2>2. UNCHANGED <<i, bus, want, usb_dev, opened>>
    BY <2>1 DEF openFrame, deviceFrame
  <2>3. TypeOK'
    BY <1>1, <2>1, <2>2 DEF openFrame, TypeOK
  <2>4. SearchPlace' /\ AnalyserPlace'
    BY <2>1, <2>2 DEF SearchPlace, AnalyserPlace, IsWanted
  <2>5. HandlesClosed' /\ ReadyOnSuccess'
    BY <2>1, <2>2 DEF HandlesClosed, ReadyOnSuccess, SearchPlace, AnalyserPlace, TypeOK
  <2> QED  BY <1>0, <1>1, <2>1, <2>2, <2>3, <2>4, <2>5
<1>6. ASSUME Drain PROVE IInv'
  <2>1. /\ UNCHANGED <<deviceFrame, touched, retry, fpga, regs, result>>
        /\ pc = "drain" /\ pc' \in {"drain", "start"}
        /\ leftover' \in 0 .. MaxLeftover
    BY <1>6, DeviceAssumption DEF Drain, Goto, TypeOK
  <2>2. UNCHANGED <<i, bus, want, usb_dev, opened>>
    BY <2>1 DEF openFrame, deviceFrame
  <2>3. TypeOK'
    BY <1>1, <2>1, <2>2 DEF openFrame, TypeOK
  <2>4. SearchPlace' /\ AnalyserPlace'
    BY <2>1, <2>2 DEF SearchPlace, AnalyserPlace, IsWanted
  <2>5. HandlesClosed' /\ ReadyOnSuccess'
    BY <2>1, <2>2 DEF HandlesClosed, ReadyOnSuccess, SearchPlace, AnalyserPlace, TypeOK
  <2> QED  BY <1>0, <1>1, <2>1, <2>2, <2>3, <2>4, <2>5
<1>7. ASSUME Start PROVE IInv'
  <2>1. /\ UNCHANGED <<openFrame, touched, retry, regs>>
        /\ pc = "start" /\ pc' \in {"config", "delete"}
        /\ result' \in {"none", "Load"} /\ (pc' # "delete" => result' = "none")
        /\ pc' = "config" => fpga' = "running"
        /\ fpga' \in {fpga, "running"} /\ regs < Regs
    BY <1>7, DeviceAssumption DEF Start, Return, Goto, AnalyserPlace
  <2>2. UNCHANGED <<i, bus, want, usb_dev, opened>>
    BY <2>1 DEF openFrame, deviceFrame
  <2>3. TypeOK'
    BY <1>1, <2>1, <2>2 DEF openFrame, TypeOK
  <2>4. SearchPlace' /\ AnalyserPlace'
    BY <2>1, <2>2 DEF SearchPlace, AnalyserPlace, IsWanted
  <2>5. HandlesClosed' /\ ReadyOnSuccess'
    BY <2>1, <2>2 DEF HandlesClosed, ReadyOnSuccess, SearchPlace, AnalyserPlace, TypeOK
  <2> QED  BY <1>0, <1>1, <2>1, <2>2, <2>3, <2>4, <2>5
<1>8. ASSUME WriteConfig PROVE IInv'
  <2>1. /\ UNCHANGED <<openFrame, touched, retry, fpga>>
        /\ pc = "config" /\ fpga = "running" /\ result = "none"
        /\ \/ pc' = "delete" /\ result' = "WriteConfig" /\ regs' = regs
           \/ pc' = "config" /\ result' = "none" /\ regs' = regs + 1 /\ regs' # Regs
           \/ pc' = "done" /\ result' = "Success" /\ regs' = Regs
    BY <1>8 DEF WriteConfig, Return, Goto, AnalyserPlace
  <2>2. regs' \in 0 .. Regs /\ (pc' = "config" => regs' < Regs)
    BY <2>1, DeviceAssumption DEF TypeOK, AnalyserPlace
  <2>3. UNCHANGED <<i, bus, want, usb_dev, opened>>
    BY <2>1 DEF openFrame, deviceFrame
  <2>4. TypeOK'
    BY <1>1, <2>1, <2>2, <2>3 DEF openFrame, TypeOK
  <2>5. SearchPlace' /\ AnalyserPlace'
    BY <2>1, <2>2, <2>3 DEF SearchPlace, AnalyserPlace, IsWanted
  <2>6. HandlesClosed' /\ ReadyOnSuccess'
    BY <2>1, <2>2, <2>3 DEF HandlesClosed, ReadyOnSuccess, SearchPlace, AnalyserPlace, TypeOK
  <2> QED  BY <1>0, <1>1, <2>1, <2>3, <2>4, <2>5, <2>6
<1>9. ASSUME Delete PROVE IInv'
  BY <1>9, <1>0, <1>1 DEF Delete, CloseHandle, loadVars, TypeOK, SearchPlace,
     AnalyserPlace, HandlesClosed, ReadyOnSuccess
<1>10. ASSUME Analyser PROVE IInv'
  <2>1. /\ UNCHANGED <<pc, scanVars, retry, leftover, regs, result>>
        /\ fpga \in {"busy", "loading"} /\ fpga' \in {"idle", "ready"} /\ pc # "done"
    BY <1>10 DEF Analyser, TypeOK
  <2> QED
    BY <1>0, <1>1, <2>1 DEF scanVars, TypeOK, SearchPlace, AnalyserPlace, HandlesClosed,
       ReadyOnSuccess, IsWanted, SerialMatches
<1> QED  BY <1>2, <1>3, <1>4, <1>5, <1>6, <1>7, <1>8, <1>9, <1>10

LEMMA InductiveInvariant == Spec => []IInv
<1>1. IInv /\ UNCHANGED vars => IInv'
  <2> SUFFICES ASSUME IInv, UNCHANGED vars PROVE IInv'
    OBVIOUS
  <2> USE DEF IInv, vars, scanVars, loadVars
  <2>1. TypeOK' /\ Len(bus)' \in Nat
    BY DEF TypeOK
  <2>2. SearchPlace' /\ AnalyserPlace'
    BY DEF SearchPlace, AnalyserPlace, IsWanted, SerialMatches
  <2>3. HandlesClosed' /\ OnlyWantedTouched' /\ ReadyOnSuccess'
    BY DEF HandlesClosed, OnlyWantedTouched, ReadyOnSuccess, IsWanted
  <2> QED  BY <2>1, <2>2, <2>3
<1>2. IInv /\ [Next]_vars => IInv'
  BY <1>1, SearchIInv, StartIInv DEF Next, Host
<1> QED  BY InitIInv, <1>2, PTL DEF Spec

-----------------------------------------------------------------------------
(* Every variable keeps to its type, with any number of devices.           *)
THEOREM TypeCorrect == Spec => []TypeOK
BY InductiveInvariant, PTL DEF IInv

(* upv_usb_open_serial closes every device that it opens and does not      *)
(* choose, and a failed open leaves none open, whatever call failed.       *)
THEOREM NoHandleLeaks == Spec => []HandlesClosed
BY InductiveInvariant, PTL DEF IInv

(* Only a device that is ours, and has the serial number asked for, is     *)
(* sent a RESET request.                                                   *)
THEOREM OthersUntouched == Spec => []OnlyWantedTouched
BY InductiveInvariant, PTL DEF IInv

(* When open returns success, the analyser has been loaded and started and *)
(* every register has been read back.                                      *)
THEOREM SuccessIsReady == Spec => []ReadyOnSuccess
BY InductiveInvariant, PTL DEF IInv
-----------------------------------------------------------------------------
(* The option string, of any bytes and any length, and any number of items *)
(* of the filter.                                                          *)
OptionType == option \in Seq(Int)

LEMMA OptionTyped == Options => []OptionType
<1>1. NoOption => OptionType
  BY EmptySeq DEF NoOption, OptionType
<1>2. OptionType /\ [AppendByte]_option => OptionType'
  <2>1. Bytes \subseteq Int
    BY OptionAssumption
  <2> QED  BY <2>1, AppendProperties DEF AppendByte, OptionType
<1> QED  BY <1>1, <1>2, PTL DEF Options

\* A byte that is written out as its default is read as if it were not there.
LEMMA DefaultRead ==
  ASSUME NEW opt \in Seq(Int), NEW k \in Nat \ {0}
  PROVE  Param(Append(opt, Default(Len(opt) + 1)), k, Default(k)) = Param(opt, k, Default(k))
<1> DEFINE n == Len(opt)
           full == Append(opt, Default(n + 1))
<1>1. n \in Nat /\ n + 1 \in Nat
  BY LenProperties
<1>2. Default(n + 1) \in Int
  BY DEF Default, AutoSpeed, FlagAll
<1>3. Len(full) = n + 1 /\ (\A j \in 1 .. n : full[j] = opt[j]) /\ full[n + 1] = Default(n + 1)
  BY <1>2, AppendProperties
<1> HIDE DEF n, full
<1>4. CASE k <= n
  <2>1. full[k] = opt[k] /\ Len(full) >= k
    BY <1>1, <1>3, <1>4
  <2> QED  BY <1>4, <1>1, <2>1 DEF Param, n, full
<1>5. CASE k = n + 1
  BY <1>1, <1>3, <1>5 DEF Param, n, full
<1>6. CASE k > n + 1
  BY <1>1, <1>3, <1>6 DEF Param, n, full
<1> QED  BY <1>1, <1>4, <1>5, <1>6

(* However many bytes of the option are left out, the registers are those  *)
(* of the option that writes them all out (upv_s::open, usbpv_lib.h).      *)
THEOREM ShortForms == Options => []ShortFormsAgree
<1>1. OptionType => ShortFormsAgree
  <2> SUFFICES ASSUME option \in Seq(Int)
               PROVE  Registers(option) = Registers(Append(option, Default(Len(option) + 1)))
    BY DEF ShortFormsAgree, OptionType
  <2> DEFINE full == Append(option, Default(Len(option) + 1))
  <2>1. \A k \in Nat \ {0} : Param(full, k, Default(k)) = Param(option, k, Default(k))
    BY DefaultRead
  <2>2. /\ Default(1) = AutoSpeed /\ Default(2) = FlagAll /\ Default(3) = 1
        /\ \A k \in Nat : k > 3 => Default(k) = -1
    BY DEF Default
  <2> HIDE DEF full
  <2>3. /\ Param(full, 1, AutoSpeed) = Param(option, 1, AutoSpeed)
        /\ Param(full, 2, FlagAll) = Param(option, 2, FlagAll)
        /\ Param(full, 3, 1) = Param(option, 3, 1)
        /\ \A k \in Nat : k > 3 => Param(full, k, -1) = Param(option, k, -1)
    <3>1. Param(full, 1, AutoSpeed) = Param(option, 1, AutoSpeed)
      BY <2>1, <2>2
    <3>2. Param(full, 2, FlagAll) = Param(option, 2, FlagAll)
      BY <2>1, <2>2
    <3>3. Param(full, 3, 1) = Param(option, 3, 1)
      BY <2>1, <2>2
    <3>4. ASSUME NEW k \in Nat, k > 3 PROVE Param(full, k, -1) = Param(option, k, -1)
      <4>1. k \in Nat \ {0} /\ Default(k) = -1
        BY <2>2, <3>4
      <4> QED  BY <2>1, <4>1
    <3> QED  BY <3>1, <3>2, <3>3, <3>4
  <2>4. \A j \in Items : Addr(full, j) = Addr(option, j) /\ Ep(full, j) = Ep(option, j)
    <3>1. TAKE j \in Items
    <3>2. j \in Nat /\ 4 + 2 * j \in Nat /\ 5 + 2 * j \in Nat /\ 4 + 2 * j > 3 /\ 5 + 2 * j > 3
      BY OptionAssumption DEF Items
    <3>3. /\ Param(full, 4 + 2 * j, -1) = Param(option, 4 + 2 * j, -1)
          /\ Param(full, 5 + 2 * j, -1) = Param(option, 5 + 2 * j, -1)
      BY <2>3, <3>2
    <3> QED  BY <3>3 DEF Addr, Ep
  <2>5. AccFilter(full) = AccFilter(option)
    BY <2>3 DEF AccFilter
  <2>6. Filter(full) = Filter(option)
    BY <2>4, <2>5 DEF Filter
  <2> QED  BY <2>3, <2>6 DEF Registers, full
<1> QED  BY <1>1, OptionTyped, PTL

(* The filter lets through, or drops, the packets of the items that are    *)
(* given, and without items all packets or none (upv_s::open).             *)
THEOREM FilterAsAsked == Options => []FilterSelects
<1>1. OptionType => FilterSelects
  <2> SUFFICES ASSUME option \in Seq(Int), NEW addr \in {b \in Bytes : b >= 0},
                      NEW ep \in {b \in Bytes : b \in 0 .. 15}
               PROVE  LET Item(j) == <<Param(option, 4 + 2 * j, -1), Param(option, 5 + 2 * j, -1)>>
                          Given(j) == Item(j)[1] >= 0 \/ Item(j)[2] \in 0 .. 15
                          Named == \E j \in Items :
                                     /\ Given(j)
                                     /\ Item(j)[1] < 0 \/ Item(j)[1] = addr
                                     /\ Item(j)[2] \notin 0 .. 15 \/ Item(j)[2] = ep
                          accept == Param(option, 3, 1) # 0
                      IN  Passes(Filter(option), addr, ep)
                          = IF \E j \in Items : Given(j) THEN Named = accept ELSE accept
    BY DEF FilterSelects, OptionType
  <2> DEFINE a(j) == Param(option, 4 + 2 * j, -1)
             e(j) == Param(option, 5 + 2 * j, -1)
             Given(j) == a(j) >= 0 \/ e(j) \in 0 .. 15
             Fits(j) == (a(j) < 0 \/ a(j) = addr) /\ (e(j) \notin 0 .. 15 \/ e(j) = ep)
             Some == \E j \in Items : Given(j)
             Named == \E j \in Items : Given(j) /\ Fits(j)
             accept == Param(option, 3, 1) # 0
             F == Filter(option)
  <2>1. \A j \in Items : a(j) \in Int /\ e(j) \in Int
    <3>1. TAKE j \in Items
    <3>2. j \in Nat
      BY OptionAssumption DEF Items
    <3>3. \A k \in Nat \ {0} : Param(option, k, -1) \in Int
      <4>1. TAKE k \in Nat \ {0}
      <4>2. Len(option) \in Nat /\ \A n \in 1 .. Len(option) : option[n] \in Int
        BY LenProperties, ElementOfSeq
      <4> QED  BY <4>2 DEF Param
    <3>4. 4 + 2 * j \in Nat \ {0} /\ 5 + 2 * j \in Nat \ {0}
      BY <3>2
    <3> QED  BY <3>3, <3>4
  <2>2. \A j \in Items :
          /\ Addr(option, j) = IF a(j) >= 0 THEN {a(j)} ELSE {}
          /\ Ep(option, j) = IF e(j) \in 0 .. 15 THEN {e(j)} ELSE {}
    <3>1. TAKE j \in Items
    <3>2. Addr(option, j) = IF a(j) >= 0 THEN {a(j)} ELSE {}
      BY DEF Addr
    <3>3. (e(j) \in 0 .. 15) <=> (e(j) >= 0 /\ e(j) <= 15)
      <4>1. \A x \in Int : (x \in 0 .. 15) <=> (x >= 0 /\ x <= 15)
        OBVIOUS
      <4>2. e(j) \in Int
        BY <2>1
      <4> HIDE DEF e
      <4> QED  BY <4>1, <4>2, Zenon
    <3>4. Ep(option, j) = IF e(j) \in 0 .. 15 THEN {e(j)} ELSE {}
      BY <3>3 DEF Ep
    <3> QED  BY <3>2, <3>4
  <2> HIDE DEF a, e
  <2>3. \A j \in Items : Addr(option, j) # {} \/ Ep(option, j) # {} <=> Given(j)
    BY <2>2
  <2>4. \A j \in Items :
          /\ F[j].addr = Addr(option, j) /\ F[j].ep = Ep(option, j)
          /\ F[j].valid = (Addr(option, j) # {} \/ Ep(option, j) # {})
    BY DEF Filter
  <2>5. \A j \in Items : Addr(option, j) \subseteq {addr} /\ Ep(option, j) \subseteq {ep} <=> Fits(j)
    <3>1. TAKE j \in Items
    <3>2. Addr(option, j) \subseteq {addr} <=> a(j) < 0 \/ a(j) = addr
      <4>1. addr \in Int /\ addr >= 0 /\ a(j) \in Int
        BY <2>1, OptionAssumption
      <4>2. CASE a(j) >= 0
        <5>1. Addr(option, j) = {a(j)} /\ ~(a(j) < 0)
          BY <2>2, <4>1, <4>2
        <5> QED  BY <5>1
      <4>3. CASE a(j) < 0
        <5>1. Addr(option, j) = {}
          BY <2>2, <4>1, <4>3
        <5> QED  BY <4>3, <5>1
      <4> QED  BY <4>1, <4>2, <4>3
    <3>3. Ep(option, j) \subseteq {ep} <=> e(j) \notin 0 .. 15 \/ e(j) = ep
      BY <2>2
    <3> QED  BY <3>2, <3>3
  <2>6. 0 \in Items
    BY OptionAssumption DEF Items
  <2>7. F[0].accept = IF Some THEN accept ELSE ~accept
    <3>1. Some <=> \E j \in Items : Addr(option, j) # {} \/ Ep(option, j) # {}
      BY <2>3
    <3>2. F[0].accept = IF \E j \in Items : Addr(option, j) # {} \/ Ep(option, j) # {}
                        THEN AccFilter(option) # 0 ELSE AccFilter(option) = 0
      BY <2>6 DEF Filter
    <3> QED  BY <3>1, <3>2 DEF AccFilter
  <2> HIDE DEF F, accept
  <2>8. (\E j \in Items : F[j].valid /\ F[j].addr \subseteq {addr} /\ F[j].ep \subseteq {ep}) <=> Named
    BY <2>3, <2>4, <2>5
  <2>9. Passes(F, addr, ep) = (Named = F[0].accept)
    BY <2>8 DEF Passes
  <2>10. Named => Some
    OBVIOUS
  <2>11. accept \in BOOLEAN /\ Named \in BOOLEAN /\ Some \in BOOLEAN
    BY DEF accept
  <2> HIDE DEF Named, Some
  <2>12. Passes(F, addr, ep) = IF Some THEN Named = accept ELSE accept
    BY <2>7, <2>9, <2>10, <2>11
  <2> QED  BY <2>12 DEF F, Some, Named, Given, Fits, accept, a, e
<1> QED  BY <1>1, OptionTyped, PTL
=============================================================================
