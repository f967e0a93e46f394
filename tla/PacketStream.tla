---------------------------- MODULE PacketStream ----------------------------
(***************************************************************************)
(* The parser fed by an analyser that keeps to its format: after START it  *)
(* sends frames, and after it is told to stop it sends STOP between two    *)
(* frames.  A frame is one event word, or a data header, a length word and *)
(* the payload.  This is the contract process_data is written for:         *)
(*                                                                         *)
(*   every frame that ends while the capture runs goes to packet_handler   *)
(*   as it was sent, nothing else ever does, and STOP ends the parser      *)
(*                                                                         *)
(* although stop_capture writes data_state while the parser works on it.   *)
(* One session of a new upv_s object, as usbpv_lib.cpp makes them.         *)
(*                                                                         *)
(* An analyser that keeps to no format at all (stage "wild") sends any     *)
(* word, and the object may be used for several sessions.                  *)
(***************************************************************************)
EXTENDS PacketParser

VARIABLES
    stage,   \* "off" before the session, "junk" what is left in the pipe
             \* before START, "frames" after it, "done" after STOP; or "wild"
    frame    \* the words of the frame being sent, <<>> before the first

streamVars == <<stage, frame>>
svars == <<vars, streamVars>>

SInit == Init /\ stage \in {"off", "wild"} /\ frame = <<>>

IsData(f) == f # <<>> /\ f[1].data

\* The last word of the frame has been sent.
Complete(f) ==
    /\ f # <<>>
    /\ IsData(f) => Len(f) >= 2 /\ 4 * (Len(f) - 1) >= f[2].len + 2

Boundary == frame = <<>> \/ Complete(frame)

\* What packet_handler has to be called with for a complete frame.
PacketOf(f) ==
    [hdr   |-> f[1],
     len   |-> IF IsData(f) THEN f[2].len ELSE 0,
     words |-> Tail(f)]

\* The words the format allows next.
MayFollow(w) ==
    /\ Boundary => w.cmd = "none"
    /\ ~Boundary /\ Len(frame) = 1 => w.len <= MaxLen

SendFrameWord(w) ==
    /\ stage = "frames"
    /\ MayFollow(w)
    /\ Fetch(w)
    /\ frame' = IF Boundary THEN <<w>> ELSE Append(frame, w)
    /\ UNCHANGED stage

\* start_capture writes the START command after data_state, and the analyser
\* answers with START.
SendStart(w) ==
    /\ stage = "junk" /\ phase = "running"
    /\ w.cmd = "start"
    /\ Fetch(w)
    /\ stage' = "frames"
    /\ UNCHANGED frame

SendJunk(w) ==
    /\ stage = "junk"
    /\ w.cmd = "none"
    /\ Fetch(w)
    /\ UNCHANGED streamVars

\* The STOP command is written after data_state = 4.
SendStop(w) ==
    /\ stage = "frames" /\ phase = "stopping"
    /\ Boundary
    /\ w.cmd = "stop"
    /\ Fetch(w)
    /\ stage' = "done"
    /\ UNCHANGED frame

SendAny(w) == stage = "wild" /\ Fetch(w) /\ UNCHANGED streamVars

Send == \E w \in Words :
          SendFrameWord(w) \/ SendStart(w) \/ SendJunk(w) \/ SendStop(w) \/ SendAny(w)

Session ==
    \/ CreateThread /\ stage = "off" /\ stage' = "junk" /\ UNCHANGED frame
    \/ CreateThread /\ stage = "wild" /\ UNCHANGED streamVars
    \/ (ResetState \/ RequestStop \/ Finished) /\ UNCHANGED streamVars

SNext ==
    \/ Send
    \/ (HandleWord \/ EndMarker) /\ UNCHANGED streamVars
    \/ Session

SSpec == SInit /\ [][SNext]_svars

-----------------------------------------------------------------------------
\* The parser finishes with the last word of a frame, or with STOP.
EndsFrame == word # NoWord /\ word' = NoWord /\ stage = "frames" /\ Complete(frame)
TakesStop == word # NoWord /\ word' = NoWord /\ stage = "done"

(* While the capture runs, the parser gives packet_handler every frame, at *)
(* its last word, with the header, length and words that were sent.        *)
FrameDelivered ==
    [][EndsFrame /\ phase = "running" => call' = PacketOf(frame)]_svars

(* Whatever the parser gives to packet_handler is a frame the analyser     *)
(* sent, complete, even when stop_capture has written data_state while the *)
(* parser was at it; nothing goes to packet_handler until START has come.  *)
OnlyFrames ==
    [][stage # "wild" /\ call' # call /\ call' # NoCall => EndsFrame /\ call' = PacketOf(frame)]_svars

(* The STOP word ends the parser thread, even when the write of            *)
(* data_state = 4 in stop_capture was lost.                                *)
StopEndsParser == [][TakesStop => ~parsing']_svars
=============================================================================
