---------------------------- MODULE OptionFilter ----------------------------
(***************************************************************************)
(* The option string of upv_open_device: what upv_s::open writes into the  *)
(* registers of the analyser for the bytes that follow the serial number   *)
(* and its NUL: speed, flag, filter_type, addr1, ep1, ... addr4, ep4.      *)
(* Bytes are signed, as char is on x86: 0xff is -1.                        *)
(***************************************************************************)
EXTENDS Integers, Sequences

CONSTANTS Bytes,    \* the bytes an option may have
          Slots     \* items of a filter (4)

ASSUME OptionAssumption == Bytes \subseteq -128 .. 127 /\ Slots \in Nat \ {0}

VARIABLE option     \* the bytes after the serial number and its NUL

Items == 0 .. Slots - 1
MaxLen == 3 + 2 * Slots

\* The k-th byte of the option, when opt_len reaches it.
Param(opt, k, default) == IF Len(opt) >= k THEN opt[k] ELSE default

AutoSpeed == 3
FlagAll == -1       \* 0xff

\* Mutant: without a filter_type nothing is accepted.
AccFilter_Drop(opt) == Param(opt, 3, 0)

AccFilter(opt) == Param(opt, 3, 1)

\* The addr and the ep of item i: a set of one, or empty if there is none.
Addr(opt, i) ==
    LET addr == Param(opt, 4 + 2 * i, -1) IN IF addr >= 0 THEN {addr} ELSE {}

\* Mutant: an endpoint is given where an address is.
Ep_SameByte(opt, i) ==
    LET ep == Param(opt, 4 + 2 * i, -1)
    IN  IF ep >= 0 /\ ep <= 15 THEN {ep} ELSE {}

Ep(opt, i) ==
    LET ep == Param(opt, 5 + 2 * i, -1)
    IN  IF ep >= 0 /\ ep <= 15 THEN {ep} ELSE {}

\* AddrEpFilter_t of item i, as it is written to the registers from 32 on.
Filter(opt) ==
    LET Valid(i) == Addr(opt, i) # {} \/ Ep(opt, i) # {}
        hasValidItem == \E i \in Items : Valid(i)
    IN  [i \in Items |->
           [addr   |-> Addr(opt, i),
            ep     |-> Ep(opt, i),
            valid  |-> Valid(i),
            accept |-> IF hasValidItem THEN AccFilter(opt) # 0
                       ELSE i = 0 /\ AccFilter(opt) = 0]]

Registers(opt) ==
    [speed  |-> Param(opt, 1, AutoSpeed) % 4,             \* register 8
     drops  |-> -1 - Param(opt, 2, FlagAll),              \* register 31, flag^0xff
     filter |-> Filter(opt)]

-----------------------------------------------------------------------------
\* The options are enumerated a byte at a time.
NoOption == option = <<>>
AppendByte == /\ Len(option) < MaxLen
              /\ \E b \in Bytes : option' = Append(option, b)
Options == NoOption /\ [][AppendByte]_option

-----------------------------------------------------------------------------
\* The bytes that usbpv_lib.h writes out for an option that is left out.
Default(k) == CASE k = 1 -> AutoSpeed
                [] k = 2 -> FlagAll
                [] k = 3 -> 1
                [] OTHER -> -1

(* Bytes left out of an option stand for the defaults: usbpv_lib.h gives   *)
(* five ways to write one option, each a byte or more shorter.             *)
ShortFormsAgree ==
    Len(option) < MaxLen =>
        Registers(option) = Registers(Append(option, Default(Len(option) + 1)))

\* The analyser, as open uses it: a packet that matches a valid item of the
\* filter is accepted if accept is set, and any other if it is not.
Passes(filter, addr, ep) ==
    LET matches == \E i \in Items :
                     /\ filter[i].valid
                     /\ filter[i].addr \subseteq {addr}
                     /\ filter[i].ep \subseteq {ep}
    IN  matches = filter[0].accept

(* The filter selects what the option says: with items, filter_type 1      *)
(* accepts their packets only and 0 drops them only; without items, 1      *)
(* accepts everything and 0 drops everything.                              *)
FilterSelects ==
    \A addr \in {b \in Bytes : b >= 0}, ep \in {b \in Bytes : b \in 0 .. 15} :
        LET Item(i) == <<Param(option, 4 + 2 * i, -1), Param(option, 5 + 2 * i, -1)>>
            Given(i) == Item(i)[1] >= 0 \/ Item(i)[2] \in 0 .. 15
            Named == \E i \in Items :
                       /\ Given(i)
                       /\ Item(i)[1] < 0 \/ Item(i)[1] = addr
                       /\ Item(i)[2] \notin 0 .. 15 \/ Item(i)[2] = ep
            accept == Param(option, 3, 1) # 0
        IN  Passes(Filter(option), addr, ep)
            = IF \E i \in Items : Given(i) THEN Named = accept ELSE accept
=============================================================================
