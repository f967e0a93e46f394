---------------------------- MODULE ChunkStream ----------------------------
(* What the capture promises of the data between the analyser and the      *)
(* parser: chunks reach the parser in the order they came in, each once    *)
(* and none left out, and at most Window of them are on the way.           *)
EXTENDS Naturals

CONSTANT Window

VARIABLES sent,    \* the number of the last chunk received
          seen     \* the number of the last chunk parsed

Init == sent = 0 /\ seen = 0

Send == sent - seen < Window /\ sent' = sent + 1 /\ UNCHANGED seen
Parse == seen < sent /\ seen' = seen + 1 /\ UNCHANGED sent

Next == Send \/ Parse
Spec == Init /\ [][Next]_<<sent, seen>>
=============================================================================
