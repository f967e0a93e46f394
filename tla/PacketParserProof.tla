-------------------------- MODULE PacketParserProof --------------------------
(***************************************************************************)
(* process_data stays inside data_buf and gives packet_handler whole       *)
(* packets only, for every set of words, every packet limit that the       *)
(* buffer can hold and every interleaving with the API thread.             *)
(*                                                                         *)
(* BufferBound is not inductive: that the array is not overrun follows     *)
(* from what data_state says of data_buf_idx and pkt_len, and this must    *)
(* hold of the value the switch has loaded and of the one in the register  *)
(* as well as of the variable, which the API thread may have changed.      *)
(*                                                                         *)
(* The second part is about PacketStream: fed by an analyser that keeps to *)
(* its format, the parser delivers every frame, and nothing else.          *)
(***************************************************************************)
EXTENDS PacketStream, SequenceTheorems, TLAPS

\* What a value s of data_state says of the words stored.
Agrees(s) ==
    /\ s \in {2, 10} => data_buf = <<>>
    /\ s = 3 => /\ data_buf # <<>>
                /\ data_buf[1].len = pkt_len
                /\ 4 * Len(data_buf) < pkt_len + 2
                /\ pkt_len <= MaxLen

IInv ==
    /\ TypeOK
    /\ Agrees(data_state)
    /\ word # NoWord => /\ Agrees(loaded)
                        /\ data_state \in {loaded, 0, 4}
    /\ word = NoWord => \A s \in kept : Agrees(s) /\ data_state \in {s, 0, 4}
    /\ BufferBound
    /\ ExactWords

-----------------------------------------------------------------------------
LEMMA InitIInv == Init => IInv
<1> SUFFICES ASSUME Init PROVE IInv
  OBVIOUS
<1>1. TypeOK
  <2>1. data_buf \in Seq(Words)
    BY DEF Init
  <2>2. parsing \in BOOLEAN
    BY Zenon DEF Init
  <2> QED  BY <2>1, <2>2 DEF Init, TypeOK, States
<1>2. Agrees(data_state) /\ word = NoWord /\ kept = {}
  BY DEF Init, Agrees
<1>3. BufferBound
  BY SizeAssumption DEF Init, BufferBound
<1>4. ExactWords
  BY DEF Init, ExactWords
<1> QED  BY <1>1, <1>2, <1>3, <1>4 DEF IInv

(* Appending a word to the words of a packet that is not complete leaves   *)
(* the buffer within its bound, and the packet is then either complete     *)
(* with its exact words or still short of its length.                      *)
LEMMA StoreFits ==
  ASSUME TypeOK, word \in Words, NEW len \in Nat, len <= MaxLen,
         \/ data_buf = <<>> /\ word.len = len
         \/ data_buf # <<>> /\ data_buf[1].len = len /\ 4 * Len(data_buf) < len + 2,
         loaded \in {2, 3, 10}, data_state \in {loaded, 0, 4},
         loaded = 3 => data_buf # <<>>,
         ExactWords,
         Store(len), pkt_len' = len
  PROVE  /\ data_buf' \in Seq(Words)
         /\ BufferBound' /\ ExactWords'
         /\ data_state' \in States /\ kept' \subseteq States
         /\ Agrees(data_state)'
         /\ \A s \in kept' : Agrees(s)' /\ data_state' \in {s, 0, 4}
<1>1. /\ data_buf' = Append(data_buf, word)
      /\ data_buf' \in Seq(Words) /\ data_buf' # <<>>
      /\ Len(data_buf') = Len(data_buf) + 1
      /\ Len(data_buf) \in Nat
  BY DEF Store, TypeOK
<1>2. data_buf'[1].len = len
  BY <1>1 DEF TypeOK
<1>3. 4 * Len(data_buf) < len + 2 \/ Len(data_buf) = 0
  OBVIOUS
<1>4. 4 * Len(data_buf') <= MaxLen + 5
  BY <1>1, <1>3, SizeAssumption
<1>5. BufferBound'
  BY <1>1, <1>4, SizeAssumption DEF BufferBound
<1>6. CASE 4 * Len(data_buf') >= len + 2
  <2>1. /\ call' = [hdr |-> pkt_hdr, len |-> len, words |-> data_buf']
        /\ data_state' = 1 /\ kept' = {1}
    BY <1>6 DEF Store, Goto
  <2>2. ExactWords'
    BY <1>1, <1>2, <1>3, <1>6, <2>1 DEF ExactWords
  <2> QED  BY <1>1, <1>5, <2>1, <2>2 DEF States, Agrees
<1>7. CASE ~(4 * Len(data_buf') >= len + 2)
  <2>1. /\ data_state' = IF loaded = 3 THEN data_state ELSE 3
        /\ kept' = {3}
        /\ call' = call
    BY <1>7 DEF Store, Goto, Stay
  <2>2. ExactWords'
    BY <2>1 DEF ExactWords
  <2>3. data_state' \in {0, 3, 4}
    BY <2>1
  <2>4. 4 * Len(data_buf') < len + 2
    BY <1>1, <1>7
  <2>5. Agrees(data_state)' /\ Agrees(3)'
    BY <1>1, <1>2, <2>3, <2>4 DEF Agrees
  <2> QED  BY <1>1, <1>5, <2>1, <2>2, <2>3, <2>5 DEF States
<1> QED  BY <1>6, <1>7

-----------------------------------------------------------------------------
(* Every step of the parser thread and of the API thread keeps IInv.       *)
LEMMA NextIInv == IInv /\ [Next]_vars => IInv'
<1> SUFFICES ASSUME IInv, [Next]_vars PROVE IInv'
  OBVIOUS
<1> USE DEF IInv
<1>1. ASSUME NEW w \in Words, Fetch(w) PROVE IInv'
  <2>1. /\ data_state' = data_state /\ data_buf' = data_buf /\ pkt_len' = pkt_len
        /\ word = NoWord /\ loaded' \in {data_state} \cup kept /\ call' = NoCall
        /\ word' = w /\ kept' = kept
        /\ UNCHANGED <<last_header, pkt_hdr, apiVars>>
    BY <1>1 DEF Fetch
  <2>2. Agrees(loaded)' /\ data_state' \in {loaded', 0, 4}
    BY <2>1 DEF Agrees
  <2>3. word' # NoWord
    <3>1. w.cmd \in {"start", "stop", "none"}
      BY WordsAssumption
    <3>2. NoWord.cmd = "no word"
      BY DEF NoWord
    <3> QED  BY <2>1, <3>1, <3>2
  <2>4. TypeOK'
    <3>1. loaded' \in States
      BY <2>1 DEF TypeOK
    <3>2. parsing' \in BOOLEAN
      BY <2>1, Zenon DEF TypeOK, apiVars
    <3> QED  BY <2>1, <3>1, <3>2 DEF TypeOK, apiVars
  <2> QED
    BY <2>1, <2>2, <2>3, <2>4 DEF Agrees, BufferBound, ExactWords
<1>2. ASSUME HandleWord PROVE IInv'
  <2> DEFINE Rest == /\ last_header' = word /\ word' = NoWord
                     /\ UNCHANGED <<loaded, phase>>
  <2>1. word # NoWord /\ word \in Words /\ word.len \in Nat /\ Rest
    BY <1>2, WordsAssumption
    DEF HandleWord, AwaitStart, StopWord, EventHeader, DataHeader, BadLength,
        Length, Payload, Drain, Resync, StayLost, Handling, Advance, TypeOK
  <2>2. Agrees(loaded) /\ data_state \in {loaded, 0, 4}
    BY <2>1
  <2>3. CASE AwaitStart
    BY <2>1, <2>2, <2>3
    DEF AwaitStart, Handling, TypeOK, States, Goto, Stay, Agrees, BufferBound, ExactWords
  <2>4. CASE StopWord \/ Drain
    <3>1. /\ UNCHANGED <<data_state, data_buf, pkt_len, pkt_hdr, call>>
          /\ kept' = {loaded}
      BY <2>4 DEF StopWord, Drain, Stay
    <3>2. parsing' \in BOOLEAN
      BY <2>4 DEF StopWord, Drain, TypeOK
    <3>3. BufferBound' /\ ExactWords'
      BY <3>1 DEF BufferBound, ExactWords
    <3>4. Agrees(loaded)' /\ Agrees(data_state)'
      BY <2>1, <2>2, <3>1 DEF Agrees
    <3>5. TypeOK'
      BY <2>1, <3>1, <3>2 DEF TypeOK
    <3> QED
      BY <2>1, <2>2, <3>1, <3>3, <3>4, <3>5
  <2>5. CASE EventHeader
    BY <2>1, <2>2, <2>5, SizeAssumption
    DEF EventHeader, Handling, TypeOK, States, Agrees, BufferBound, ExactWords
  <2>6. CASE DataHeader
    BY <2>1, <2>2, <2>6, SizeAssumption
    DEF DataHeader, Handling, TypeOK, States, Goto, Agrees, BufferBound, ExactWords
  <2>7. CASE BadLength \/ StayLost
    BY <2>1, <2>2, <2>7
    DEF BadLength, StayLost, Handling, TypeOK, States, Goto, Stay, Agrees, BufferBound, ExactWords
  <2>8. CASE Length \/ Resync
    <3>1. /\ loaded \in {2, 10} /\ data_buf = <<>> /\ word.len <= MaxLen
          /\ pkt_len' = word.len /\ Store(word.len)
          /\ UNCHANGED <<pkt_hdr, parsing>>
      BY <2>2, <2>8 DEF Length, Resync, Handling, Plausible, Agrees
    <3>2. /\ data_buf' \in Seq(Words) /\ BufferBound' /\ ExactWords'
          /\ data_state' \in States /\ kept' \subseteq States /\ Agrees(data_state)'
          /\ \A s \in kept' : Agrees(s)' /\ data_state' \in {s, 0, 4}
      BY <2>1, <2>2, <3>1, StoreFits
    <3> QED  BY <2>1, <3>1, <3>2 DEF TypeOK
  <2>9. CASE Payload
    <3>1. /\ loaded = 3 /\ pkt_len' = pkt_len /\ Store(pkt_len)
          /\ UNCHANGED <<pkt_hdr, parsing>>
      BY <2>9 DEF Payload, Handling
    <3>2. /\ data_buf # <<>> /\ data_buf[1].len = pkt_len
          /\ 4 * Len(data_buf) < pkt_len + 2 /\ pkt_len <= MaxLen /\ pkt_len \in Nat
      BY <2>2, <3>1 DEF Agrees, TypeOK
    <3>3. /\ data_buf' \in Seq(Words) /\ BufferBound' /\ ExactWords'
          /\ data_state' \in States /\ kept' \subseteq States /\ Agrees(data_state)'
          /\ \A s \in kept' : Agrees(s)' /\ data_state' \in {s, 0, 4}
      BY <2>1, <2>2, <3>1, <3>2, StoreFits
    <3> QED  BY <2>1, <3>1, <3>2, <3>3 DEF TypeOK
  <2> QED
    BY <1>2, <2>3, <2>4, <2>5, <2>6, <2>7, <2>8, <2>9 DEF HandleWord
<1>3. CASE EndMarker
  BY <1>3 DEF EndMarker, TypeOK, Agrees, BufferBound, ExactWords
<1>4. CASE Api
  <2>1. /\ data_state' \in {data_state, 0, 4}
        /\ data_buf' = data_buf /\ pkt_len' = pkt_len /\ loaded' = loaded
        /\ last_header' = last_header /\ pkt_hdr' = pkt_hdr
        /\ kept' = kept \/ kept' = {}
        /\ word' = word /\ call' = call
        /\ phase' \in {"closed", "starting", "running", "stopping"}
    BY <1>4
    DEF Api, CreateThread, ResetState, RequestStop, Finished, parserVars,
        bufferVars
  <2>2. parsing' \in {parsing, TRUE}
    BY <1>4 DEF Api, CreateThread, ResetState, RequestStop, Finished, parserVars,
        bufferVars
  <2>3. TypeOK'
    BY <2>1, <2>2 DEF TypeOK, States
  <2>4. /\ \A s \in States : Agrees(s)' = Agrees(s)
        /\ Agrees(0) /\ Agrees(4) /\ {0, 4} \subseteq States
    BY <2>1 DEF States, Agrees
  <2>5. kept \subseteq States /\ data_state \in States /\ loaded \in States
    BY DEF TypeOK
  <2>6. BufferBound' /\ ExactWords'
    BY <2>1 DEF BufferBound, ExactWords
  <2> QED
    BY <2>1, <2>3, <2>4, <2>5, <2>6
<1>5. CASE UNCHANGED vars
  BY <1>5 DEF vars, apiVars, TypeOK, Agrees, BufferBound, ExactWords
<1> QED
  BY <1>1, <1>2, <1>3, <1>4, <1>5 DEF Next

(* The variables keep their types: data_state in particular never has a    *)
(* value that would take the default branch of the switch.                 *)
THEOREM TypeCorrect == Spec => []TypeOK
<1>1. IInv => TypeOK
  BY DEF IInv
<1> QED
  BY InitIInv, NextIInv, <1>1, PTL DEF Spec

(* process_data never writes beyond the end of data_buf.                   *)
THEOREM NoOverrun == Spec => []BufferBound
<1>1. IInv => BufferBound
  BY DEF IInv
<1> QED
  BY InitIInv, NextIInv, <1>1, PTL DEF Spec

(* packet_handler is given exactly the words of one packet.                *)
THEOREM WholePackets == Spec => []ExactWords
<1>1. IInv => ExactWords
  BY DEF IInv
<1> QED
  BY InitIInv, NextIInv, <1>1, PTL DEF Spec

-----------------------------------------------------------------------------
(* The stream.  What data_state says of data_buf is not enough here: while *)
(* a frame is sent it must also be the right state for the next word of    *)
(* this frame, and the words stored must be those the frame has so far, or *)
(* the parser drains.                                                      *)

\* Before START, s is a value the parser may wait or drain with.
Waits(s) ==
    \/ s = 0
    \/ s = 4 /\ phase \in {"stopping", "closed"}

\* Between two words, s is the state for the next word of the frame.
Follows(s) ==
    \/ s = 4
    \/ Boundary /\ s = 1
    \/ ~Boundary /\ Len(frame) = 1 /\ s = 2 /\ pkt_hdr = frame[1]
    \/ ~Boundary /\ Len(frame) > 1 /\ s = 3 /\ pkt_hdr = frame[1] /\ data_buf = Tail(frame)

\* At a word, s is the state for the last word of the frame.
AtLast(s) ==
    \/ s = 4
    \/ Len(frame) = 1 /\ s = 1
    \/ Len(frame) = 2 /\ s = 2 /\ pkt_hdr = frame[1]
    \/ Len(frame) > 2 /\ s = 3 /\ pkt_hdr = frame[1] /\ Tail(frame) = Append(data_buf, word)

\* The frame is one of the format's, or the beginning of one.
WellFormed ==
    /\ frame \in Seq(Words)
    /\ frame # <<>> => frame[1].cmd = "none"
    /\ Len(frame) > 1 => frame[1].data /\ frame[2].len <= MaxLen
    /\ Len(frame) > 2 => 4 * (Len(frame) - 2) < frame[2].len + 2

BeforeFrames ==
    /\ frame = <<>>
    /\ \A s \in {data_state} \cup kept : Waits(s)
    /\ stage = "off" => ~parsing /\ phase = "closed" /\ data_state = 0
    /\ word # NoWord => word.cmd = "none" /\ Waits(loaded)

InFrames ==
    /\ phase # "starting"
    /\ phase = "running" => data_state # 4 /\ 4 \notin kept
    /\ word = NoWord => \A s \in {data_state} \cup kept : Follows(s)
    /\ word # NoWord =>
        \/ frame = <<>> /\ word.cmd = "start" /\ loaded = 0
        \/ /\ frame # <<>> /\ word = frame[Len(frame)]
           /\ AtLast(loaded) /\ data_state \in {loaded, 4}
           /\ phase = "running" => loaded # 4

AfterFrames ==
    /\ phase # "starting"
    /\ word # NoWord => word.cmd = "stop" /\ loaded \in {1, 4}
    /\ word = NoWord => ~parsing

Formatted ==
    /\ stage \in {"off", "junk", "frames", "done"}
    /\ phase = "closed" => ~parsing
    /\ ~parsing => word = NoWord
    /\ WellFormed
    /\ stage \in {"off", "junk"} => BeforeFrames
    /\ stage = "frames" => InFrames
    /\ stage = "done" => AfterFrames

StreamInv == stage # "wild" => Formatted

SInv == IInv /\ StreamInv

LEMMA StreamSteps == [SNext]_svars => [Next]_vars
  BY DEF SNext, svars, Send, SendFrameWord, SendStart, SendJunk, SendStop, SendAny,
         Session, Next, Api

LEMMA RealWord == \A w \in Words : w # NoWord
<1> SUFFICES ASSUME NEW w \in Words PROVE w # NoWord
  OBVIOUS
<1>1. w.cmd \in {"start", "stop", "none"}
  BY WordsAssumption
<1>2. NoWord.cmd = "no word"
  BY DEF NoWord
<1> QED  BY <1>1, <1>2

LEMMA InitSInv == SInit => SInv
<1> SUFFICES ASSUME SInit PROVE SInv
  OBVIOUS
<1>1. IInv
  BY InitIInv DEF SInit
<1>2. ~parsing
  BY DEF SInit, Init
<1>3. StreamInv
  BY <1>2 DEF SInit, Init, StreamInv, Formatted, WellFormed, BeforeFrames, Waits
<1> QED  BY <1>1, <1>3 DEF SInv

(* The next word of a frame, as the format has it, keeps the frame well    *)
(* formed and finds the parser in the state for it.                        *)
LEMMA FrameWordSent ==
  ASSUME SInv, stage = "frames", NEW w \in Words, SendFrameWord(w)
  PROVE  StreamInv'
<1>1. /\ MayFollow(w) /\ Formatted /\ InFrames /\ WellFormed
      /\ parsing /\ word = NoWord /\ word' = w /\ stage' = stage
      /\ frame' = IF Boundary THEN <<w>> ELSE Append(frame, w)
      /\ loaded' \in {data_state} \cup kept
      /\ UNCHANGED <<data_state, data_buf, pkt_hdr, kept, parsing, phase>>
  BY DEF SInv, StreamInv, Formatted, SendFrameWord, Fetch, apiVars
<1>2. w # NoWord /\ frame \in Seq(Words)
  BY <1>1, RealWord DEF WellFormed
<1>3. Follows(loaded') /\ data_state \in {loaded', 0, 4}
  BY <1>1 DEF InFrames, SInv, IInv
<1>4. data_state # 0
  <2>1. Follows(data_state)
    BY <1>1 DEF InFrames
  <2> QED  BY <2>1 DEF Follows
<1>5. WellFormed' /\ frame' # <<>> /\ w = frame'[Len(frame')] /\ AtLast(loaded)'
  <2>1. CASE Boundary
    <3>1. frame' = <<w>> /\ w.cmd = "none"
      BY <1>1, <2>1 DEF MayFollow
    <3>2. frame' \in Seq(Words) /\ Len(frame') = 1 /\ frame'[1] = w
      BY <3>1
    <3>3. loaded' \in {1, 4}
      BY <1>3, <2>1 DEF Follows
    <3> QED  BY <3>1, <3>2, <3>3 DEF WellFormed, AtLast
  <2>2. CASE ~Boundary
    <3>1. /\ frame # <<>> /\ frame[1].data /\ Len(frame) \in Nat \ {0}
          /\ Len(frame) > 1 => 4 * (Len(frame) - 1) < frame[2].len + 2
      <4>1. frame # <<>> /\ ~Complete(frame)
        BY <2>2 DEF Boundary
      <4>2. frame[1].data /\ ~(Len(frame) >= 2 /\ 4 * (Len(frame) - 1) >= frame[2].len + 2)
        BY <4>1 DEF Complete, IsData
      <4>3. Len(frame) > 1 => frame[2].len \in Nat
        BY <1>2, WordsAssumption
      <4> QED  BY <1>2, <4>1, <4>2, <4>3
    <3>2. /\ frame' = Append(frame, w) /\ Len(frame') = Len(frame) + 1
          /\ frame' \in Seq(Words) /\ frame'[1] = frame[1] /\ frame'[Len(frame')] = w
          /\ Len(frame) > 1 => frame'[2] = frame[2]
          /\ Tail(frame') = Append(Tail(frame), w)
      BY <1>1, <1>2, <2>2, <3>1
    <3>3. WellFormed'
      <4>1. Len(frame) = 1 => w.len <= MaxLen /\ frame'[2] = w
        BY <1>1, <2>2, <3>2 DEF MayFollow
      <4> QED  BY <1>1, <3>1, <3>2, <4>1 DEF WellFormed
    <3>4. AtLast(loaded)'
      BY <1>1, <1>3, <2>2, <3>1, <3>2 DEF Follows, AtLast
    <3> QED  BY <3>2, <3>3, <3>4
  <2> QED  BY <2>1, <2>2
<1>6. phase = "running" => loaded' # 4
  BY <1>1 DEF InFrames
<1>7. InFrames'
  BY <1>1, <1>2, <1>3, <1>4, <1>5, <1>6 DEF InFrames
<1> QED  BY <1>1, <1>5, <1>7 DEF StreamInv, Formatted

(* The other words an analyser may send: what is left in the pipe before   *)
(* START, START itself, and STOP between two frames.                       *)
LEMMA OtherWordSent ==
  ASSUME SInv, stage # "wild", NEW w \in Words,
         SendStart(w) \/ SendJunk(w) \/ SendStop(w) \/ SendAny(w)
  PROVE  StreamInv'
<1>1. /\ Formatted /\ WellFormed
      /\ parsing /\ word = NoWord /\ word' = w /\ w # NoWord
      /\ loaded' \in {data_state} \cup kept
      /\ UNCHANGED <<data_state, data_buf, pkt_hdr, kept, parsing, phase, frame>>
  BY RealWord DEF SInv, StreamInv, Formatted, SendStart, SendJunk, SendStop, SendAny, Fetch,
                  apiVars, streamVars
<1>2. WellFormed'
  BY <1>1 DEF WellFormed
<1>3. CASE SendStart(w)
  <2>1. BeforeFrames /\ stage' = "frames" /\ phase = "running" /\ w.cmd = "start"
    BY <1>1, <1>3 DEF SendStart, Formatted
  <2>2. data_state = 0 /\ kept \subseteq {0} /\ loaded' = 0 /\ frame = <<>>
    BY <1>1, <2>1 DEF BeforeFrames, Waits
  <2>3. InFrames'
    BY <1>1, <2>1, <2>2 DEF InFrames
  <2> QED  BY <1>1, <1>2, <2>1, <2>3 DEF StreamInv, Formatted
<1>4. CASE SendJunk(w)
  <2>1. BeforeFrames /\ stage = "junk" /\ stage' = "junk" /\ w.cmd = "none"
    BY <1>1, <1>4 DEF SendJunk, streamVars, Formatted
  <2>2. BeforeFrames'
    BY <1>1, <2>1 DEF BeforeFrames, Waits
  <2> QED  BY <1>1, <1>2, <2>1, <2>2 DEF StreamInv, Formatted
<1>5. CASE SendStop(w)
  <2>1. InFrames /\ stage' = "done" /\ phase = "stopping" /\ Boundary /\ w.cmd = "stop"
    BY <1>1, <1>5 DEF SendStop, Formatted
  <2>2. Follows(loaded')
    BY <1>1, <2>1 DEF InFrames
  <2>3. loaded' \in {1, 4}
    BY <2>1, <2>2 DEF Follows
  <2>4. AfterFrames'
    BY <1>1, <2>1, <2>3 DEF AfterFrames
  <2> QED  BY <1>1, <1>2, <2>1, <2>4 DEF StreamInv, Formatted
<1> QED  BY <1>3, <1>4, <1>5 DEF SendAny

(* The API thread and the end marker, at any moment of the stream.         *)
LEMMA StreamSession ==
  ASSUME SInv, stage # "wild",
         Session \/ (EndMarker /\ UNCHANGED streamVars) \/ UNCHANGED svars
  PROVE  StreamInv'
<1>1. Formatted /\ WellFormed
  BY DEF SInv, StreamInv, Formatted
<1>2. CASE CreateThread /\ stage = "off" /\ stage' = "junk" /\ UNCHANGED frame
  <2>1. /\ BeforeFrames /\ word = NoWord
        /\ phase' = "starting" /\ kept' = {} /\ data_state = 0
        /\ UNCHANGED <<data_state, word, loaded, frame>>
    BY <1>1, <1>2 DEF CreateThread, bufferVars, Formatted, BeforeFrames
  <2>2. parsing' = TRUE
    BY <1>2 DEF CreateThread
  <2>3. BeforeFrames' /\ WellFormed'
    BY <1>1, <1>2, <2>1 DEF BeforeFrames, Waits, WellFormed
  <2> QED  BY <1>2, <2>1, <2>2, <2>3 DEF StreamInv, Formatted
<1>3. CASE (ResetState \/ RequestStop \/ Finished) /\ UNCHANGED streamVars
  <2>1. UNCHANGED <<parsing, parserVars, stage, frame>>
    BY <1>3 DEF ResetState, RequestStop, Finished, streamVars
  <2>2. UNCHANGED <<parsing, data_buf, pkt_hdr, word, loaded, kept, stage, frame>>
    BY <2>1 DEF parserVars, bufferVars
  <2>3. \/ phase = "starting" /\ phase' = "running" /\ data_state' = 0
        \/ phase = "running" /\ phase' = "stopping" /\ data_state' = 4
        \/ /\ phase \in {"running", "stopping"} /\ phase' = "closed"
           /\ ~parsing /\ data_state' = data_state
    BY <1>3 DEF ResetState, RequestStop, Finished
  <2>4. WellFormed'
    BY <1>1, <2>2 DEF WellFormed
  <2>5. BeforeFrames => BeforeFrames'
    BY <2>2, <2>3 DEF BeforeFrames, Waits
  <2>6. InFrames => InFrames'
    BY <2>2, <2>3 DEF InFrames, Follows, AtLast, Boundary
  <2>7. AfterFrames => AfterFrames'
    BY <2>2, <2>3 DEF AfterFrames
  <2>8. (phase = "closed" => ~parsing)' /\ (~parsing => word = NoWord)'
    BY <1>1, <2>2, <2>3 DEF Formatted
  <2> QED  BY <1>1, <2>2, <2>4, <2>5, <2>6, <2>7, <2>8 DEF StreamInv, Formatted
<1>4. CASE EndMarker /\ UNCHANGED streamVars
  <2>1. /\ word = NoWord /\ parsing' = FALSE
        /\ UNCHANGED <<data_state, data_buf, pkt_hdr, word, loaded, kept, phase, stage, frame>>
    BY <1>4 DEF EndMarker, streamVars
  <2>2. WellFormed' /\ (InFrames => InFrames') /\ (AfterFrames => AfterFrames')
    BY <1>1, <2>1 DEF WellFormed, InFrames, AfterFrames, Follows, Boundary
  <2>3. BeforeFrames => BeforeFrames'
    BY <2>1 DEF BeforeFrames, Waits
  <2> QED  BY <1>1, <2>1, <2>2, <2>3 DEF StreamInv, Formatted
<1>5. CASE UNCHANGED svars
  <2>1. UNCHANGED <<data_state, data_buf, pkt_hdr, word, loaded, kept, parsing, phase,
                    stage, frame>>
    BY <1>5 DEF svars, vars, apiVars, streamVars
  <2> QED
    BY <1>1, <2>1
    DEF StreamInv, Formatted, WellFormed, BeforeFrames, InFrames, AfterFrames, Waits, Follows,
        AtLast, Boundary
<1> QED  BY <1>2, <1>3, <1>4, <1>5 DEF Session

LEMMA TailOfPair ==
  ASSUME NEW S, NEW s \in Seq(S), Len(s) = 2
  PROVE  Tail(s) = <<s[2]>>
<1>1. Len(<<>>) = 0
  OBVIOUS
<1>2. s # <<>>
  BY <1>1
<1>3. Tail(s) \in Seq(S) /\ Len(Tail(s)) = 1 /\ Tail(s)[1] = s[2]
  <2>1. Len(Tail(s)) = 1 /\ \A i \in 1 .. Len(Tail(s)) : Tail(s)[i] = s[i + 1]
    BY <1>2, HeadTailProperties
  <2> QED  BY <1>2, <2>1, HeadTailProperties
<1>4. <<s[2]>> \in Seq(S) /\ Len(<<s[2]>>) = 1 /\ <<s[2]>>[1] = s[2]
  OBVIOUS
<1>5. \A i \in 1 .. Len(Tail(s)) : i = 1
  <2>1. \A i \in 1 .. 1 : i = 1
    OBVIOUS
  <2> QED  BY <1>3, <2>1, Zenon
<1> QED  BY <1>3, <1>4, <1>5, SeqEqual

(* Storing the last word of a frame leaves the frame's payload in data_buf,*)
(* and gives it to packet_handler exactly when the frame is complete.      *)
LEMMA FrameStored ==
  ASSUME frame \in Seq(Words), Len(frame) >= 2, frame[1].data, frame[2].len \in Nat,
         data_buf \in Seq(Words), Tail(frame) = Append(data_buf, word),
         pkt_hdr = frame[1], Store(frame[2].len),
         loaded \in {2, 3}, data_state \in {loaded, 4}
  PROVE  /\ data_buf' = Tail(frame)
         /\ Complete(frame) =>
              call' = PacketOf(frame) /\ data_state' = 1 /\ kept' = {1}
         /\ ~Complete(frame) =>
              call' = call /\ data_state' \in {3, data_state} \cap {3, 4} /\ kept' = {3}
<1>1. data_buf' = Tail(frame) /\ Len(data_buf') = Len(frame) - 1 /\ frame # <<>>
  <2>1. data_buf' = Tail(frame)
    BY Zenon DEF Store
  <2>2. frame # <<>>
    OBVIOUS
  <2>3. Len(Tail(frame)) = Len(frame) - 1
    BY <2>2, HeadTailProperties
  <2> QED  BY <2>1, <2>2, <2>3
<1>2. Complete(frame) <=> 4 * Len(data_buf') >= frame[2].len + 2
  <2>1. Complete(frame) <=> Len(frame) >= 2 /\ 4 * (Len(frame) - 1) >= frame[2].len + 2
    BY <1>1, Zenon DEF Complete, IsData
  <2> QED  BY <1>1, <2>1, Zenon
<1>3. PacketOf(frame) = [hdr |-> pkt_hdr, len |-> frame[2].len, words |-> data_buf']
  BY <1>1 DEF PacketOf, IsData
<1>4. CASE Complete(frame)
  BY <1>1, <1>2, <1>3, <1>4 DEF Store, Goto
<1>5. CASE ~Complete(frame)
  BY <1>1, <1>2, <1>5 DEF Store, Goto, Stay
<1> QED  BY <1>1, <1>4, <1>5

(* At the last word of a frame the parser either drains, or goes on to the *)
(* next word, or gives packet_handler the frame that is complete.          *)
LEMMA FrameWordHandled ==
  ASSUME SInv, stage = "frames", frame # <<>>, HandleWord, UNCHANGED streamVars
  PROVE  /\ InFrames'
         /\ phase = "running" /\ Complete(frame) => call' = PacketOf(frame)
         /\ call' # call /\ call' # NoCall => Complete(frame) /\ call' = PacketOf(frame)
<1>1. /\ word # NoWord /\ word \in Words /\ word' = NoWord /\ phase' = phase
      /\ UNCHANGED <<stage, frame>>
  BY DEF HandleWord, AwaitStart, StopWord, EventHeader, DataHeader, BadLength, Length, Payload,
         Drain, Resync, StayLost, Handling, Advance, SInv, IInv, TypeOK, streamVars
<1>2. /\ InFrames /\ WellFormed /\ word = frame[Len(frame)]
      /\ AtLast(loaded) /\ data_state \in {loaded, 4}
      /\ phase = "running" => loaded # 4
      /\ phase # "starting"
  BY <1>1 DEF SInv, StreamInv, Formatted, InFrames
<1>3. Agrees(loaded)
  BY <1>1 DEF SInv, IInv
<1>4. /\ frame \in Seq(Words) /\ Len(frame) \in Nat \ {0}
      /\ \A i \in 1 .. Len(frame) : frame[i] \in Words /\ frame[i].len \in Nat
      /\ data_buf \in Seq(Words)
  BY <1>2, WordsAssumption DEF WellFormed, SInv, IInv, TypeOK
<1> DEFINE Told == /\ phase = "running" /\ Complete(frame) => call' = PacketOf(frame)
                   /\ call' # call /\ call' # NoCall => Complete(frame) /\ call' = PacketOf(frame)
<1>5. CASE loaded = 4
  <2>1. call' = call /\ data_state' = 4 /\ kept' = {4}
    BY <1>1, <1>2, <1>5
    DEF HandleWord, AwaitStart, StopWord, EventHeader, DataHeader, BadLength, Length, Payload,
        Drain, Resync, StayLost, Handling, Stay
  <2>2. \A s \in {data_state'} \cup kept' : s = 4
    BY <2>1
  <2>3. InFrames'
    BY <1>1, <1>2, <1>5, <2>2 DEF InFrames, Follows
  <2> QED  BY <1>2, <1>5, <2>1, <2>3
<1>6. CASE Len(frame) = 1 /\ loaded = 1
  <2>1. word = frame[1] /\ (EventHeader \/ DataHeader)
    BY <1>1, <1>2, <1>6
    DEF HandleWord, AwaitStart, StopWord, BadLength, Length, Payload, Drain, Resync, StayLost,
        Handling, AtStop, WellFormed
  <2>2. CASE EventHeader
    <3>1. /\ ~frame[1].data /\ data_state' = data_state /\ kept' = {}
          /\ call' = [hdr |-> frame[1], len |-> 0, words |-> <<>>]
      BY <2>1, <2>2 DEF EventHeader
    <3>2. Complete(frame) /\ PacketOf(frame) = call'
      BY <1>4, <1>6, <3>1 DEF Complete, IsData, PacketOf
    <3>3. Boundary'
      BY <1>1, <3>2 DEF Boundary
    <3>4. InFrames'
      BY <1>1, <1>2, <1>6, <3>1, <3>3 DEF InFrames, Follows
    <3> QED  BY <3>2, <3>4
  <2>3. CASE DataHeader
    <3>1. /\ frame[1].data /\ pkt_hdr' = frame[1] /\ data_state' = 2 /\ kept' = {2}
          /\ call' = call
      BY <2>1, <2>3 DEF DataHeader, Goto
    <3>2. ~Complete(frame)
      BY <1>4, <1>6, <3>1 DEF Complete, IsData
    <3>3. ~Boundary'
      BY <1>1, <1>6, <3>2 DEF Boundary
    <3>4. InFrames'
      BY <1>1, <1>2, <1>6, <3>1, <3>3 DEF InFrames, Follows
    <3> QED  BY <3>1, <3>2, <3>4
  <2> QED  BY <2>1, <2>2, <2>3
<1>7. CASE \/ Len(frame) = 2 /\ loaded = 2 /\ pkt_hdr = frame[1]
           \/ /\ Len(frame) > 2 /\ loaded = 3 /\ pkt_hdr = frame[1]
              /\ Tail(frame) = Append(data_buf, word)
  <2>1. /\ Len(frame) >= 2 /\ frame[1].data /\ frame[2].len \in Nat /\ frame[2].len <= MaxLen
        /\ Tail(frame) = Append(data_buf, word) /\ Store(frame[2].len) /\ pkt_hdr' = pkt_hdr
    <3>1. CASE Len(frame) = 2 /\ loaded = 2
      <4>1. word = frame[2] /\ word.len <= MaxLen /\ frame[1].data /\ data_buf = <<>>
        BY <1>2, <1>3, <3>1 DEF WellFormed, Agrees
      <4>2. Length
        BY <1>4, <3>1, <4>1, SizeAssumption
        DEF HandleWord, AwaitStart, StopWord, EventHeader, DataHeader, BadLength, Payload, Drain,
            Resync, StayLost, Handling
      <4>3. Tail(frame) = <<word>>
        BY <1>4, <3>1, <4>1, TailOfPair
      <4> QED  BY <1>4, <3>1, <4>1, <4>2, <4>3 DEF Length
    <3>2. CASE Len(frame) > 2 /\ loaded = 3 /\ Tail(frame) = Append(data_buf, word)
      <4>1. Payload
        BY <3>2
        DEF HandleWord, AwaitStart, StopWord, EventHeader, DataHeader, BadLength, Length, Drain,
            Resync, StayLost, Handling
      <4>2. data_buf # <<>> /\ data_buf[1].len = pkt_len
        BY <1>3, <3>2 DEF Agrees
      <4>3. frame[2] = data_buf[1]
        <5>1. frame[2] = Tail(frame)[1]
          BY <1>4, <3>2
        <5>2. Append(data_buf, word)[1] = data_buf[1]
          BY <1>4, <4>2
        <5> QED  BY <3>2, <5>1, <5>2
      <4>4. frame[1].data /\ frame[2].len <= MaxLen
        BY <1>2, <3>2 DEF WellFormed
      <4> QED  BY <1>4, <3>2, <4>1, <4>2, <4>3, <4>4 DEF Payload
    <3> QED  BY <1>7, <3>1, <3>2
  <2>2. pkt_hdr = frame[1] /\ loaded \in {2, 3}
    BY <1>7
  <2>3. /\ data_buf' = Tail(frame)
        /\ Complete(frame) => call' = PacketOf(frame) /\ data_state' = 1 /\ kept' = {1}
        /\ ~Complete(frame) =>
             call' = call /\ data_state' \in {3, data_state} \cap {3, 4} /\ kept' = {3}
    BY <1>2, <1>4, <2>1, <2>2, FrameStored
  <2>4. Boundary' <=> Complete(frame)
    BY <1>1 DEF Boundary
  <2>5. \A s \in {data_state'} \cup kept' : Follows(s)'
    BY <1>1, <2>1, <2>2, <2>3, <2>4 DEF Follows
  <2>6. phase = "running" => data_state' # 4 /\ 4 \notin kept'
    BY <1>2, <2>3 DEF InFrames
  <2>7. InFrames'
    BY <1>1, <1>2, <2>5, <2>6 DEF InFrames
  <2> QED  BY <2>3, <2>7
<1> QED  BY <1>2, <1>5, <1>6, <1>7 DEF AtLast

LEMMA WordHandled ==
  ASSUME SInv, stage # "wild", HandleWord, UNCHANGED streamVars
  PROVE  /\ StreamInv'
         /\ EndsFrame /\ phase = "running" => call' = PacketOf(frame)
         /\ call' # call /\ call' # NoCall => EndsFrame /\ call' = PacketOf(frame)
         /\ TakesStop => ~parsing'
<1>1. /\ word # NoWord /\ word \in Words /\ word' = NoWord /\ phase' = phase
      /\ UNCHANGED <<stage, frame>>
  BY DEF HandleWord, AwaitStart, StopWord, EventHeader, DataHeader, BadLength, Length, Payload,
         Drain, Resync, StayLost, Handling, Advance, SInv, IInv, TypeOK, streamVars
<1>2. Formatted /\ WellFormed' /\ data_state \in {loaded, 0, 4}
  BY <1>1 DEF SInv, IInv, StreamInv, Formatted, WellFormed
<1>3. CASE stage \in {"off", "junk"}
  <2>1. /\ BeforeFrames /\ word.cmd = "none" /\ Waits(loaded) /\ stage # "off"
    BY <1>1, <1>2, <1>3 DEF Formatted, BeforeFrames
  <2>2. AwaitStart \/ Drain
    BY <2>1
    DEF HandleWord, StopWord, EventHeader, DataHeader, BadLength, Length, Payload, Resync,
        StayLost, Handling, AtStop, Waits
  <2>3. /\ data_state' = data_state /\ kept' = {loaded} /\ call' = call
        /\ UNCHANGED parsing
    BY <2>1, <2>2 DEF AwaitStart, Drain, Stay
  <2>4. BeforeFrames'
    BY <1>1, <2>1, <2>3 DEF BeforeFrames, Waits
  <2> QED  BY <1>1, <1>2, <1>3, <2>1, <2>3, <2>4 DEF StreamInv, Formatted, EndsFrame, TakesStop
<1>4. CASE stage = "frames" /\ frame = <<>>
  <2>1. InFrames /\ word.cmd = "start" /\ loaded = 0 /\ ~Complete(frame)
    BY <1>1, <1>2, <1>4 DEF Formatted, InFrames, Complete
  <2>2. AwaitStart
    BY <2>1
    DEF HandleWord, StopWord, EventHeader, DataHeader, BadLength, Length, Payload, Drain, Resync,
        StayLost, Handling
  <2>3. data_state' = 1 /\ kept' = {1} /\ call' = call /\ UNCHANGED parsing
    BY <2>1, <2>2 DEF AwaitStart, Goto
  <2>4. InFrames'
    BY <1>1, <1>4, <2>1, <2>3 DEF InFrames, Follows, Boundary
  <2> QED  BY <1>1, <1>2, <1>4, <2>1, <2>3, <2>4 DEF StreamInv, Formatted, EndsFrame, TakesStop
<1>5. CASE stage = "frames" /\ frame # <<>>
  <2>1. /\ InFrames'
        /\ phase = "running" /\ Complete(frame) => call' = PacketOf(frame)
        /\ call' # call /\ call' # NoCall => Complete(frame) /\ call' = PacketOf(frame)
    BY <1>5, FrameWordHandled
  <2>2. parsing /\ (~parsing' => word' = NoWord)
    BY <1>1, <1>2 DEF Formatted
  <2>3. phase' # "closed"
    BY <1>1, <1>2, <2>2 DEF Formatted
  <2> QED  BY <1>1, <1>2, <1>5, <2>1, <2>2, <2>3 DEF StreamInv, Formatted, EndsFrame, TakesStop
<1>6. CASE stage = "done"
  <2>1. AfterFrames /\ word.cmd = "stop" /\ loaded \in {1, 4}
    BY <1>1, <1>2, <1>6 DEF Formatted, AfterFrames
  <2>2. StopWord
    BY <2>1
    DEF HandleWord, AwaitStart, EventHeader, DataHeader, BadLength, Length, Payload, Drain, Resync,
        StayLost, Handling, AtStop
  <2>3. ~parsing' /\ call' = call
    BY <2>2 DEF StopWord
  <2>4. AfterFrames'
    BY <1>1, <2>1, <2>3 DEF AfterFrames
  <2> QED  BY <1>1, <1>2, <1>6, <2>3, <2>4 DEF StreamInv, Formatted, EndsFrame
<1> QED  BY <1>2, <1>3, <1>4, <1>5, <1>6 DEF Formatted

(* Only an iteration of the parser's loop ends with a word, or calls       *)
(* packet_handler.                                                         *)
LEMMA OnlyHandled ==
  SNext /\ word # NoWord /\ word' = NoWord => HandleWord /\ UNCHANGED streamVars
  BY DEF SNext, Send, SendFrameWord, SendStart, SendJunk, SendStop, SendAny, Session, Fetch,
         EndMarker, CreateThread, ResetState, RequestStop, Finished, parserVars, bufferVars

LEMMA OnlyCaller ==
  SNext /\ call' # call /\ call' # NoCall => HandleWord /\ UNCHANGED streamVars
  BY DEF SNext, Send, SendFrameWord, SendStart, SendJunk, SendStop, SendAny, Session, Fetch,
         EndMarker, CreateThread, ResetState, RequestStop, Finished, parserVars, bufferVars

LEMMA NextSInv == SInv /\ [SNext]_svars => SInv'
<1> SUFFICES ASSUME SInv, [SNext]_svars PROVE SInv'
  OBVIOUS
<1>1. IInv'
  BY StreamSteps, NextIInv DEF SInv
<1>2. CASE stage = "wild"
  <2>1. stage' = "wild"
    BY <1>2
    DEF SNext, Send, SendFrameWord, SendStart, SendJunk, SendStop, SendAny, Session, svars,
        streamVars
  <2> QED  BY <1>1, <2>1 DEF SInv, StreamInv
<1>3. CASE stage # "wild"
  <2>1. CASE Send
    <3>1. PICK w \in Words : \/ SendFrameWord(w)
                             \/ SendStart(w) \/ SendJunk(w) \/ SendStop(w) \/ SendAny(w)
      BY <2>1 DEF Send
    <3>2. SendFrameWord(w) => stage = "frames"
      BY DEF SendFrameWord
    <3> QED  BY <1>1, <1>3, <3>1, <3>2, FrameWordSent, OtherWordSent DEF SInv
  <2>2. CASE HandleWord /\ UNCHANGED streamVars
    BY <1>1, <1>3, <2>2, WordHandled DEF SInv
  <2>3. CASE Session \/ (EndMarker /\ UNCHANGED streamVars) \/ UNCHANGED svars
    BY <1>1, <1>3, <2>3, StreamSession DEF SInv
  <2> QED  BY <2>1, <2>2, <2>3 DEF SNext
<1> QED  BY <1>2, <1>3

(* While the capture runs, packet_handler is called at the last word of    *)
(* every frame, with the header, the length and the words that were sent.  *)
THEOREM FramesDelivered == SSpec => FrameDelivered
<1>1. SInv /\ [SNext]_svars => [EndsFrame /\ phase = "running" => call' = PacketOf(frame)]_svars
  <2> SUFFICES ASSUME SInv, SNext, EndsFrame, phase = "running"
               PROVE  call' = PacketOf(frame)
    OBVIOUS
  <2>1. HandleWord /\ UNCHANGED streamVars
    BY OnlyHandled DEF EndsFrame
  <2> QED  BY <2>1, WordHandled DEF EndsFrame
<1> QED  BY InitSInv, NextSInv, <1>1, PTL DEF SSpec, FrameDelivered

(* Nothing is given to packet_handler but the frames the analyser sent,    *)
(* each complete, whenever stop_capture writes data_state.                 *)
THEOREM FramesOnly == SSpec => OnlyFrames
<1>1. SInv /\ [SNext]_svars =>
        [stage # "wild" /\ call' # call /\ call' # NoCall =>
           EndsFrame /\ call' = PacketOf(frame)]_svars
  <2> SUFFICES ASSUME SInv, SNext, stage # "wild", call' # call, call' # NoCall
               PROVE  EndsFrame /\ call' = PacketOf(frame)
    OBVIOUS
  <2>1. HandleWord /\ UNCHANGED streamVars
    BY OnlyCaller
  <2> QED  BY <2>1, WordHandled
<1> QED  BY InitSInv, NextSInv, <1>1, PTL DEF SSpec, OnlyFrames

(* STOP between two frames ends the parser thread, even when the state 4   *)
(* that stop_capture wrote was lost.                                       *)
THEOREM StopEnds == SSpec => StopEndsParser
<1>1. SInv /\ [SNext]_svars => [TakesStop => ~parsing']_svars
  <2> SUFFICES ASSUME SInv, SNext, TakesStop PROVE ~parsing'
    OBVIOUS
  <2>1. HandleWord /\ UNCHANGED streamVars
    BY OnlyHandled DEF TakesStop
  <2> QED  BY <2>1, WordHandled DEF TakesStop
<1> QED  BY InitSInv, NextSInv, <1>1, PTL DEF SSpec, StopEndsParser
=============================================================================
