-------------------------- MODULE MCHotplugContext --------------------------
(***************************************************************************)
(* Instances of HotplugContext: a second device takes over the address of  *)
(* the first.                                                              *)
(***************************************************************************)
EXTENDS HotplugContext

SameAddress == <<1, 1>>
TwoAddresses == <<1, 2>>
=============================================================================
