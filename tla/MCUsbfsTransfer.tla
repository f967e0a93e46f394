-------------------------- MODULE MCUsbfsTransfer --------------------------
(* UsbfsTransfer with what each mode is checked against.                   *)
EXTENDS UsbfsTransfer, TLC

AllFaults == [m \in {"single", "control"} |-> Kinds]
    @@ [m \in {"continuation"} |-> Kinds \ {"unplug"}]
    @@ [m \in {"split", "iso"} |-> {"error", "overflow", "refuse"}]

SplitStall == [m \in {"split"} |-> {"stall"}]

=============================================================================
