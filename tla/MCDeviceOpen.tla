---------------------------- MODULE MCDeviceOpen ----------------------------
(* DeviceOpen with devices of ours that fail at every call, of another     *)
(* serial number, of another manufacturer, and of another kind.            *)
EXTENDS DeviceOpen

D(usb, man, sn, fails) == [usb |-> usb, man |-> man, sn |-> sn, fails |-> fails]

MCDevices ==
    {D(TRUE, TRUE, "A", f) : f \in Faulty} \cup
    {D(TRUE, TRUE, "B", "none"), D(TRUE, FALSE, "A", "none"),
     D(FALSE, FALSE, "A", "none")}
=============================================================================
