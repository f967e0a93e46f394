---------------------------- MODULE PacketParser ----------------------------
(***************************************************************************)
(* upv_s::process_data: the parser thread splits the 32-bit words that     *)
(* come from the analyser into packets, and calls packet_handler for each. *)
(*                                                                         *)
(* data_state is a plain int that two threads write: the parser thread on  *)
(* its transitions, and the API thread in start_capture (0) and in         *)
(* stop_capture (4).  The parser reads it once for a word (Fetch) and      *)
(* may write it back later (the other parser actions), so that a write of  *)
(* the API thread in between can be lost.  It need not even read it: the   *)
(* compiled loop may use the value it has in a register, unless it has     *)
(* called packet_handler since.                                            *)
(*                                                                         *)
(* A word is a record of what the code can tell of it:                     *)
(*   cmd   which of the two command words it equals, or "none"             *)
(*   data  (word & 0xf0) == 0x60, the mark of a header with a payload      *)
(*   len   word & 0xffff, what it means where a length is expected         *)
(***************************************************************************)
EXTENDS Naturals, Sequences

CONSTANTS
    Words,      \* the words that may come from the device
    MaxLen,     \* the longest packet accepted (1024+3)
    BufWords    \* words in data_buf (1024+16)

ASSUME WordsAssumption ==
    \A w \in Words : /\ w.cmd \in {"start", "stop", "none"}
                     /\ w.data \in BOOLEAN
                     /\ w.len \in Nat

\* The buffer holds the longest packet, its 16-bit length and a last word.
ASSUME SizeAssumption ==
    /\ MaxLen \in Nat /\ BufWords \in Nat
    /\ MaxLen + 5 <= 4 * BufWords

VARIABLES
    data_state,   \* 0 wait for START, 1 header, 2 length, 3 payload,
                  \* 4 drain until STOP, 10 recover
    last_header,  \* the word before this one
    data_buf,     \* the words stored since data_buf_idx was reset
    pkt_len,
    pkt_hdr,      \* the word pkt_tick and pkt_status were taken from
    word,         \* the word the loop is at, or NoWord between two words
    loaded,       \* the value of data_state the switch on this word uses
    kept,         \* {s} if the loop may still have the value s in a register
    call,         \* what the last step gave to packet_handler, or NoCall
    parsing,      \* the parser thread is running
    phase         \* what the API thread is doing with this session

apiVars == <<parsing, phase>>
vars == <<data_state, last_header, data_buf, pkt_len, pkt_hdr, word, loaded,
          kept, call, apiVars>>

NoWord == [cmd |-> "no word", data |-> FALSE, len |-> 0]
NoCall == [hdr |-> NoWord, len |-> 0, words |-> <<NoWord>>]
States == {0, 1, 2, 3, 4, 10}

Init ==
    /\ data_state = 0
    /\ last_header \in Words      \* never initialised by the constructor
    /\ data_buf = <<>>
    /\ pkt_len = 0
    /\ pkt_hdr = last_header
    /\ word = NoWord
    /\ loaded = 0 /\ kept = {}
    /\ call = NoCall
    /\ parsing = FALSE
    /\ phase = "closed"

-----------------------------------------------------------------------------
(* The parser thread: one iteration of the loop is a Fetch and one of the  *)
(* actions after it, each a branch of the switch.                          *)

Fetch(w) ==
    /\ parsing /\ word = NoWord
    /\ word' = w
    /\ loaded' \in {data_state} \cup kept
    /\ call' = NoCall
    /\ UNCHANGED <<data_state, last_header, data_buf, pkt_len, pkt_hdr, kept, apiVars>>

\* The end of an iteration: last_header = header.
Advance ==
    /\ last_header' = word
    /\ word' = NoWord
    /\ UNCHANGED <<loaded, phase>>

Handling(s) == word # NoWord /\ loaded = s /\ Advance

\* The branch writes data_state, or leaves it as it is.
Goto(s) == data_state' = s /\ kept' = {s}
Stay == data_state' = data_state /\ kept' = {loaded}

\* Mutant: the state is incremented, and the API thread may have changed it.
AwaitStart_Increment ==
    /\ Handling(0)
    /\ IF word.cmd = "start" THEN Goto(data_state + 1) ELSE Stay
    /\ UNCHANGED <<data_buf, pkt_len, pkt_hdr, call, parsing>>

AwaitStart ==
    /\ Handling(0)
    /\ IF word.cmd = "start" THEN Goto(1) ELSE Stay
    /\ UNCHANGED <<data_buf, pkt_len, pkt_hdr, call, parsing>>

\* Mutant: STOP is only looked for while draining.
AtStop_DrainOnly == loaded = 4 /\ word.cmd = "stop"

AtStop == word.cmd = "stop"

\* Mutant: STOP is looked for in the payload too.
StopWord_Anywhere ==
    /\ Handling(1) \/ Handling(3) \/ Handling(4)
    /\ AtStop
    /\ parsing' = FALSE
    /\ Stay
    /\ UNCHANGED <<data_buf, pkt_len, pkt_hdr, call>>

\* STOP between two packets, or while draining: ret = -1 ends the thread.
StopWord ==
    /\ Handling(1) \/ Handling(4)
    /\ AtStop
    /\ parsing' = FALSE
    /\ Stay
    /\ UNCHANGED <<data_buf, pkt_len, pkt_hdr, call>>

\* Reset, connect, speed change...: a packet of length 0.
EventHeader ==
    /\ Handling(1)
    /\ ~AtStop /\ ~word.data
    /\ pkt_hdr' = word
    /\ data_buf' = <<>>
    /\ call' = [hdr |-> word, len |-> 0, words |-> <<>>]
    /\ kept' = {}
    /\ UNCHANGED <<data_state, pkt_len, parsing>>

\* Mutant: data_buf_idx is not reset.
DataHeader_NoReset ==
    /\ Handling(1)
    /\ ~AtStop /\ word.data
    /\ pkt_hdr' = word
    /\ Goto(2)
    /\ UNCHANGED <<data_buf, pkt_len, call, parsing>>

\* Mutant: packet_handler is told of the packet before its payload is there.
DataHeader_Early ==
    /\ Handling(1)
    /\ ~AtStop /\ word.data
    /\ pkt_hdr' = word
    /\ data_buf' = <<>>
    /\ Goto(2)
    /\ call' = [hdr |-> word, len |-> 0, words |-> <<>>]
    /\ UNCHANGED <<pkt_len, parsing>>

DataHeader ==
    /\ Handling(1)
    /\ ~AtStop /\ word.data
    /\ pkt_hdr' = word
    /\ data_buf' = <<>>
    /\ Goto(2)
    /\ UNCHANGED <<pkt_len, call, parsing>>

\* Mutant: > for >=.
Store_Late(len) ==
    /\ data_buf' = Append(data_buf, word)
    /\ IF 4 * Len(data_buf') > len + 2
         THEN /\ call' = [hdr |-> pkt_hdr, len |-> len, words |-> data_buf']
              /\ Goto(1)
         ELSE /\ IF loaded = 3 THEN Stay ELSE Goto(3)
              /\ UNCHANGED call

\* The word is stored.  The packet is complete, and goes to packet_handler,
\* once the stored words hold the two bytes of the length and len of payload.
Store(len) ==
    /\ data_buf' = Append(data_buf, word)
    /\ IF 4 * Len(data_buf') >= len + 2
         THEN /\ call' = [hdr |-> pkt_hdr, len |-> len, words |-> data_buf']
              /\ Goto(1)
         ELSE /\ IF loaded = 3 THEN Stay ELSE Goto(3)
              /\ UNCHANGED call

BadLength ==
    /\ Handling(2)
    /\ word.len > MaxLen
    /\ pkt_len' = word.len
    /\ Goto(10)
    /\ UNCHANGED <<data_buf, pkt_hdr, call, parsing>>

Length ==
    /\ Handling(2)
    /\ word.len <= MaxLen
    /\ pkt_len' = word.len
    /\ Store(word.len)
    /\ UNCHANGED <<pkt_hdr, parsing>>

Payload ==
    /\ Handling(3)
    /\ Store(pkt_len)
    /\ UNCHANGED <<pkt_len, pkt_hdr, parsing>>

Drain ==
    /\ Handling(4)
    /\ ~AtStop
    /\ Stay
    /\ UNCHANGED <<data_buf, pkt_len, pkt_hdr, call, parsing>>

\* Recover mode takes any word that looks like a header with a payload,
\* followed by a word that can be its length, for the start of a packet;
\* pkt_tick and pkt_status stay those of the header that was abandoned.
Plausible == last_header.data /\ word.len <= MaxLen

Resync ==
    /\ Handling(10)
    /\ Plausible
    /\ pkt_len' = word.len
    /\ Store(word.len)
    /\ UNCHANGED <<pkt_hdr, parsing>>

StayLost ==
    /\ Handling(10)
    /\ ~Plausible
    /\ pkt_len' = word.len
    /\ Stay
    /\ UNCHANGED <<data_buf, pkt_hdr, call, parsing>>

\* The reader's {0,0}, which it sends when it leaves its loop.
EndMarker ==
    /\ parsing /\ word = NoWord
    /\ parsing' = FALSE
    /\ UNCHANGED <<data_state, last_header, data_buf, pkt_len, pkt_hdr, word,
                   loaded, kept, call, phase>>

HandleWord ==
    \/ AwaitStart \/ StopWord \/ EventHeader \/ DataHeader \/ BadLength
    \/ Length \/ Payload \/ Drain \/ Resync \/ StayLost

-----------------------------------------------------------------------------
(* The API thread.                                                         *)

bufferVars == <<last_header, data_buf, pkt_len, pkt_hdr, word, loaded, call>>
parserVars == <<bufferVars, kept>>

\* start_capture creates the threads before it sets data_state.
CreateThread ==
    /\ phase = "closed"
    /\ phase' = "starting" /\ parsing' = TRUE
    /\ kept' = {}
    /\ UNCHANGED <<data_state, bufferVars>>

ResetState ==
    /\ phase = "starting"
    /\ phase' = "running" /\ data_state' = 0
    /\ UNCHANGED <<parsing, parserVars>>

\* stop_capture, when the capture has not finished by itself.
RequestStop ==
    /\ phase = "running"
    /\ phase' = "stopping" /\ data_state' = 4
    /\ UNCHANGED <<parsing, parserVars>>

\* The thread has ended and was joined; stop_capture skips RequestStop when
\* the capture has already finished.
Finished ==
    /\ phase \in {"running", "stopping"} /\ ~parsing
    /\ phase' = "closed"
    /\ UNCHANGED <<data_state, parsing, parserVars>>

Api == CreateThread \/ ResetState \/ RequestStop \/ Finished

Next == (\E w \in Words : Fetch(w)) \/ HandleWord \/ EndMarker \/ Api

Spec == Init /\ [][Next]_vars

-----------------------------------------------------------------------------
TypeOK ==
    /\ data_state \in States /\ loaded \in States /\ kept \subseteq States
    /\ last_header \in Words /\ pkt_hdr \in Words
    /\ word \in Words \cup {NoWord}
    /\ data_buf \in Seq(Words)
    /\ pkt_len \in Nat
    /\ parsing \in BOOLEAN
    /\ phase \in {"closed", "starting", "running", "stopping"}

(* The words of one packet never run past the end of data_buf, whatever    *)
(* the device sends and whenever the API thread writes data_state: in      *)
(* process_data nothing compares data_buf_idx with the size of the array.  *)
BufferBound == Len(data_buf) <= BufWords

(* What packet_handler gets is one packet: the bytes it may read, and the  *)
(* byte after them that feeds dbg_last_remain when the length is odd, were *)
(* all received for this packet, and no word beyond its last was taken     *)
(* with it, for that one is the header of the next packet.                 *)
ExactWords ==
    (call # NoCall /\ call.words # <<>>) =>
        /\ call.len <= MaxLen
        /\ call.len + 2 <= 4 * Len(call.words)
        /\ call.len + 2 > 4 * (Len(call.words) - 1) \/ Len(call.words) = 1
        /\ call.words[1].len = call.len
=============================================================================
