------------------------------ MODULE MCInputs ------------------------------
(***************************************************************************)
(* The two parsers of input, checked over all short inputs: the option     *)
(* string of upv_open_device, with bytes on both sides of every comparison *)
(* of the code (absent 0xff, 0, a small one, one that is an address but no *)
(* endpoint), and the descriptors of a configuration, with every kind      *)
(* whole, cut and with an invalid length.                                  *)
(***************************************************************************)
EXTENDS OptionFilter, Descriptors

MCBytes == {-1, 0, 1, 16}

Desc(type, len, has, num, eps) == [type |-> type, len |-> len, has |-> has, num |-> num, eps |-> eps]
MCDescs ==
    {Desc("interface", 9, 9, i[1], i[2]) : i \in {<<0, 0>>, <<0, 1>>, <<0, 2>>, <<1, 1>>}}
    \union {Desc("interface", 9, 9, 0, 4), Desc("interface", 8, 8, 0, 0), Desc("interface", 10, 9, 0, 1)}
    \union {Desc("endpoint", 7, h, 0, 0) : h \in {1, 6, 7}} \union {Desc("endpoint", 5, 5, 0, 0)}
    \union {Desc("other", l[1], l[2], 0, 0) : l \in {<<3, 3>>, <<3, 2>>, <<1, 3>>}}
    \union {Desc("proper", 9, 9, 0, 0)}

InitInputs == NoOption /\ InitBuffer
AddByte == buffer = <<>> /\ AppendByte /\ UNCHANGED buffer
AddDesc == option = <<>> /\ AppendDesc /\ UNCHANGED option
Inputs == InitInputs /\ [][AddByte \/ AddDesc]_<<option, buffer>>
=============================================================================
