------------------------- MODULE BufferPipelineProof -------------------------
(***************************************************************************)
(* The pipeline for every number of buffers: nothing is overwritten,       *)
(* buffers come back in order, no empty list is popped, and every step is  *)
(* a step of the chunk stream or a stutter.                                *)
(*                                                                         *)
(* The buffers that are out form an arc of the ring from wr_idx to rd_idx. *)
(* In the order of the arc: the parser's, those in the list, the           *)
(* transfer's.  IInv says so, and says which chunk each of them holds.     *)
(***************************************************************************)
EXTENDS BufferPipeline, TLAPS

One(b) == IF b THEN 1 ELSE 0

Pb == One(parser \in {"parse", "put"})      \* buffers the parser has out
Xb == One(filler \in {"flight", "push"})    \* buffers the transfer has out
New == One(parser = "parse")                \* popped, but not parsed yet
Full == One(filler = "push")                \* filled, but not in the list yet

\* Between a semaphore and the locked section that goes with it.
Taking == One(filler = "take")
Putting == One(parser = "post")
Pushed == One(filler = "post")
Popping == One(parser = "pop")

\* How many buffers are out, and the k-th of the arc, from 0.
Out == Pb + Len(data) + Xb
Arc(k) == IF wr_idx + k < COUNT THEN wr_idx + k ELSE wr_idx + k - COUNT

Ring ==
    /\ Out <= COUNT
    /\ rd_idx = Arc(Out)
    /\ remain + Out = COUNT
    /\ sem + Out + Taking + Putting = COUNT
    /\ data_sem + Pushed + Popping = Len(data)

Places ==
    /\ Pb = 1 => pbuf = Arc(0)
    /\ \A i \in 1 .. Len(data) : data[i] = Arc(Pb + i - 1)
    /\ Xb = 1 => xbuf = Arc(Pb + Len(data))

Chunks ==
    /\ sent = seen + New + Len(data) + Full
    /\ New = 1 => content[pbuf] = seen + 1
    /\ \A i \in 1 .. Len(data) : content[data[i]] = seen + New + i
    /\ Full = 1 => content[xbuf] = sent

IInv == TypeOK /\ Ring /\ Places /\ Chunks

-----------------------------------------------------------------------------
LEMMA InitIInv == Init => IInv
<1> SUFFICES ASSUME Init PROVE IInv
  OBVIOUS
<1> USE CountAssumption DEF Init
<1>1. data = <<>> /\ data \in Seq(Buffers) /\ Len(data) = 0
  OBVIOUS
<1>2. content \in [Buffers -> Nat]
  BY DEF Buffers
<1>3. TypeOK
  BY <1>1, <1>2 DEF TypeOK, Buffers
<1>4. Out = 0 /\ Pb = 0 /\ Xb = 0 /\ New = 0 /\ Full = 0
  BY <1>1 DEF Out, One, Pb, Xb, New, Full
<1>5. Ring
  BY <1>1, <1>4 DEF Ring, Arc, One, Taking, Putting, Pushed, Popping
<1>6. Places /\ Chunks
  BY <1>1, <1>4 DEF Places, Chunks
<1> QED  BY <1>3, <1>5, <1>6 DEF IInv

(* The arc is made of distinct buffers, and moves on with wr_idx.          *)
LEMMA ArcFacts ==
  ASSUME wr_idx \in Buffers
  PROVE  /\ \A k \in 0 .. COUNT : Arc(k) \in Buffers
         /\ \A j, k \in 0 .. COUNT - 1 : j # k => Arc(j) # Arc(k)
         /\ Arc(0) = wr_idx
         /\ \A k \in 0 .. COUNT - 1 : Succ(Arc(k)) = Arc(k + 1)
         /\ wr_idx' = wr_idx => \A k \in 0 .. COUNT : Arc(k)' = Arc(k)
         /\ wr_idx' = Succ(wr_idx) => \A k \in 0 .. COUNT - 1 : Arc(k)' = Arc(k + 1)
  BY CountAssumption DEF Buffers, Arc, Succ

LEMMA Counts ==
  ASSUME TypeOK
  PROVE  /\ Pb \in 0 .. 1 /\ Xb \in 0 .. 1 /\ New \in 0 .. 1 /\ Full \in 0 .. 1
         /\ New <= Pb /\ Full <= Xb
         /\ Len(data) \in Nat /\ Out \in Nat /\ Out = Pb + Len(data) + Xb
         /\ \A i \in 1 .. Len(data) : data[i] \in Buffers
<1>1. Len(data) \in Nat /\ \A i \in 1 .. Len(data) : data[i] \in Buffers
  BY DEF TypeOK
<1>2. /\ Pb \in 0 .. 1 /\ Xb \in 0 .. 1 /\ New \in 0 .. 1 /\ Full \in 0 .. 1
      /\ New <= Pb /\ Full <= Xb
  BY DEF Pb, Xb, New, Full, One
<1> QED  BY <1>1, <1>2 DEF Out

(* The steps that only take or post a semaphore.                           *)
LEMMA SemaphoreStep ==
  ASSUME IInv, GetWait \/ PushPost \/ PopWait \/ PutPost
  PROVE  IInv'
<1> USE DEF GetWait, PushPost, PopWait, PutPost, poolVars, queueVars, fillerVars,
            parserVars, chunkVars
<1>1. /\ UNCHANGED <<remain, rd_idx, wr_idx, data, xbuf, pbuf, content, sent, seen>>
      /\ Pb' = Pb /\ Xb' = Xb /\ New' = New /\ Full' = Full /\ Out' = Out
  BY DEF Pb, Xb, New, Full, One, Out
<1>2. TypeOK /\ Ring /\ Out \in Nat /\ Len(data) \in Nat
  BY Counts DEF IInv
<1>3. TypeOK'
  <2>1. /\ Taking \in Nat /\ Pushed \in Nat /\ Popping \in Nat
        /\ PutPost => Putting = 1
    BY DEF One, Taking, Pushed, Popping, Putting
  <2>2. PutPost => sem + 1 <= COUNT
    BY <1>2, <2>1, CountAssumption DEF TypeOK, Ring
  <2>3. sem' \in 0 .. COUNT /\ data_sem' \in Nat
    <3> USE DEF TypeOK
    <3>1. CASE GetWait
      BY <1>2, <3>1, CountAssumption
    <3>2. CASE PushPost
      BY <1>2, <3>2
    <3>3. CASE PopWait
      BY <1>2, <3>3
    <3>4. CASE PutPost
      BY <1>2, <2>2, <3>4, CountAssumption
    <3> QED  BY <3>1, <3>2, <3>3, <3>4
  <2>4. filler' \in {"get", "take", "flight", "push", "post"}
        /\ parser' \in {"wait", "pop", "parse", "put", "post"}
    BY <1>2 DEF TypeOK
  <2> QED  BY <1>1, <1>2, <2>3, <2>4 DEF TypeOK
<1>4. Arc(Out)' = Arc(Out)
  BY <1>1 DEF Arc
<1>5. Ring'
  <2> USE DEF TypeOK, Ring, One, Taking, Putting, Pushed, Popping
  <2>1. CASE GetWait
    BY <1>1, <1>2, <1>4, <2>1, CountAssumption
  <2>2. CASE PushPost
    BY <1>1, <1>2, <1>4, <2>2, CountAssumption
  <2>3. CASE PopWait
    BY <1>1, <1>2, <1>4, <2>3, CountAssumption
  <2>4. CASE PutPost
    BY <1>1, <1>2, <1>4, <2>4, CountAssumption
  <2> QED  BY <2>1, <2>2, <2>3, <2>4
<1>6. Places'
  BY <1>1 DEF IInv, Places, Arc
<1>7. Chunks'
  BY <1>1 DEF IInv, Chunks
<1> QED  BY <1>3, <1>5, <1>6, <1>7 DEF IInv

(* The transfer's buffer is not in the list and not the parser's.          *)
LEMMA Apart ==
  ASSUME IInv, Xb = 1
  PROVE  /\ \A i \in 1 .. Len(data) : data[i] # xbuf
         /\ Pb = 1 => pbuf # xbuf
<1>1. /\ wr_idx \in Buffers /\ Pb \in 0 .. 1 /\ Len(data) \in Nat
      /\ Pb + Len(data) + 1 <= COUNT /\ COUNT \in Nat
  BY Counts, CountAssumption DEF IInv, TypeOK, Ring
<1>2. xbuf = Arc(Pb + Len(data)) /\ Pb + Len(data) \in 0 .. COUNT - 1
  BY <1>1 DEF IInv, Places
<1>3. ASSUME NEW i \in 1 .. Len(data) PROVE data[i] # xbuf
  <2>1. data[i] = Arc(Pb + i - 1)
    BY DEF IInv, Places
  <2>2. Pb + i - 1 \in 0 .. COUNT - 1 /\ Pb + i - 1 # Pb + Len(data)
    BY <1>1
  <2> QED  BY <1>1, <1>2, <2>1, <2>2, ArcFacts
<1>4. ASSUME Pb = 1 PROVE pbuf # xbuf
  <2>1. pbuf = Arc(0)
    BY <1>4 DEF IInv, Places
  <2>2. 0 \in 0 .. COUNT - 1 /\ 0 # Pb + Len(data)
    BY <1>1, <1>4
  <2> QED  BY <1>1, <1>2, <2>1, <2>2, ArcFacts
<1> QED  BY <1>3, <1>4

-----------------------------------------------------------------------------
LEMMA NextIInv == IInv /\ [Next]_vars => IInv'
<1> SUFFICES ASSUME IInv, [Next]_vars PROVE IInv'
  OBVIOUS
<1> USE DEF poolVars, queueVars, fillerVars, parserVars, chunkVars
<1> DEFINE n == Len(data)
<1>a. /\ TypeOK /\ Ring /\ Places /\ Chunks
      /\ COUNT \in Nat \ {0} /\ wr_idx \in Buffers
  BY CountAssumption DEF IInv, TypeOK
<1>b. /\ Pb \in 0 .. 1 /\ Xb \in 0 .. 1 /\ New \in 0 .. 1 /\ Full \in 0 .. 1
      /\ n \in Nat /\ Out \in Nat /\ Out = Pb + n + Xb
      /\ \A i \in 1 .. n : data[i] \in Buffers
  BY <1>a, Counts
<1>1. CASE GetTake
  <2>1. /\ UNCHANGED <<sem, wr_idx, data, data_sem, parser, pbuf, content, sent, seen>>
        /\ xbuf' = rd_idx /\ rd_idx' = Succ(rd_idx) /\ remain' = remain - 1
        /\ filler = "take" /\ filler' = "flight"
    BY <1>1 DEF GetTake
  <2>2. /\ Xb = 0 /\ Xb' = 1 /\ Full = 0 /\ Full' = 0 /\ Pb' = Pb /\ New' = New
        /\ Out' = Out + 1
    BY <1>b, <2>1 DEF Xb, Full, Pb, New, One, Out
  <2>3. sem \in Nat /\ Out \in 0 .. COUNT - 1
    BY <1>a, <1>b, <2>1 DEF TypeOK, Ring, One, Taking, Putting, Pushed, Popping
  <2>4. rd_idx = Arc(Out) /\ Succ(Arc(Out)) = Arc(Out + 1) /\ Arc(Out)' = Arc(Out + 1)
    <3>1. Out + 1 \in 0 .. COUNT /\ rd_idx = Arc(Out)
      BY <1>a, <2>3 DEF Ring
    <3>2. Succ(Arc(Out)) = Arc(Out + 1)
      BY <1>a, <2>3, ArcFacts
    <3>3. Arc(Out)' = Arc(Out + 1)
      BY <2>1, <2>2 DEF Arc
    <3> QED  BY <3>1, <3>2, <3>3
  <2>5. rd_idx' \in Buffers
    BY <1>a, <2>1, <2>3, <2>4, ArcFacts
  <2>6. TypeOK'
    BY <1>a, <1>b, <2>1, <2>3, <2>5 DEF TypeOK, Ring
  <2>7. Ring'
    <3>1. Out' <= COUNT /\ rd_idx' = Arc(Out)'
      BY <1>a, <2>1, <2>2, <2>3, <2>4
    <3>2. /\ remain' + Out' = COUNT
          /\ sem' + Out' + Taking' + Putting' = COUNT
          /\ data_sem' + Pushed' + Popping' = Len(data')
      BY <1>a, <1>b, <2>1, <2>2 DEF TypeOK, Ring, One, Taking, Putting, Pushed, Popping
    <3> QED  BY <3>1, <3>2 DEF Ring
  <2>8. Places'
    BY <1>a, <1>b, <2>1, <2>2, <2>4 DEF Places, Arc
  <2>9. Chunks'
    BY <1>a, <2>1, <2>2 DEF Chunks
  <2> QED  BY <2>6, <2>7, <2>8, <2>9 DEF IInv
<1>2. CASE Fill
  <2>1. /\ UNCHANGED <<poolVars, data, data_sem, xbuf, parser, pbuf, seen>>
        /\ content' = [content EXCEPT ![xbuf] = sent + 1] /\ sent' = sent + 1
        /\ filler = "flight" /\ filler' = "push"
    BY <1>2 DEF Fill
  <2>2. /\ Xb = 1 /\ Xb' = 1 /\ Full = 0 /\ Full' = 1 /\ Pb' = Pb /\ New' = New
        /\ Out' = Out
    BY <1>b, <2>1 DEF Xb, Full, Pb, New, One, Out
  <2>3. content'[xbuf] = sent + 1 /\ \A b \in Buffers : b # xbuf => content'[b] = content[b]
    BY <1>a, <2>1 DEF TypeOK
  <2>4. TypeOK'
    BY <1>a, <2>1 DEF TypeOK
  <2>5. Ring' /\ Places'
    BY <1>a, <2>1, <2>2 DEF Ring, Places, Arc, One, Taking, Putting, Pushed, Popping
  <2>6. (\A i \in 1 .. n : data[i] # xbuf) /\ (Pb = 1 => pbuf # xbuf)
    BY <2>2, Apart
  <2>7. New = 1 => Pb = 1
    BY DEF New, Pb, One
  <2>8. Chunks'
    <3>1. sent' = seen' + New' + Len(data') + Full'
      BY <1>a, <1>b, <2>1, <2>2 DEF Chunks, TypeOK
    <3>2. New' = 1 => content'[pbuf'] = seen' + 1
      BY <1>a, <2>1, <2>2, <2>3, <2>6, <2>7 DEF Chunks, TypeOK
    <3>3. \A i \in 1 .. Len(data') : content'[data'[i]] = seen' + New' + i
      BY <1>a, <1>b, <2>1, <2>2, <2>3, <2>6 DEF Chunks
    <3>4. content'[xbuf'] = sent'
      BY <2>1, <2>3
    <3> QED  BY <3>1, <3>2, <3>3, <3>4 DEF Chunks
  <2> QED  BY <2>4, <2>5, <2>8 DEF IInv
<1>3. CASE Push
  <2>1. /\ UNCHANGED <<poolVars, data_sem, xbuf, parser, pbuf, content, sent, seen>>
        /\ data' = Append(data, xbuf)
        /\ filler = "push" /\ filler' = "post"
    BY <1>3 DEF Push
  <2>2. /\ data' \in Seq(Buffers) /\ Len(data') = n + 1
        /\ data'[n + 1] = xbuf /\ \A i \in 1 .. n : data'[i] = data[i]
    BY <1>a, <2>1 DEF TypeOK
  <2>3. /\ Xb = 1 /\ Xb' = 0 /\ Full = 1 /\ Full' = 0 /\ Pb' = Pb /\ New' = New
        /\ Out' = Out
    BY <1>b, <2>1, <2>2 DEF Xb, Full, Pb, New, One, Out
  <2>4. TypeOK'
    BY <1>a, <2>1, <2>2 DEF TypeOK
  <2>5. Ring'
    <3>1. Out' <= COUNT /\ rd_idx' = Arc(Out)'
      BY <1>a, <2>1, <2>3 DEF Ring, Arc
    <3>2. /\ Taking' = Taking /\ Putting' = Putting /\ Popping' = Popping
          /\ Pushed = 0 /\ Pushed' = 1
      BY <2>1 DEF One, Taking, Putting, Pushed, Popping
    <3>3. Popping \in Nat
      BY DEF One, Popping
    <3> QED
      BY <1>a, <1>b, <2>1, <2>2, <2>3, <3>1, <3>2, <3>3 DEF TypeOK, Ring
  <2>6. Places'
    <3>1. xbuf = Arc(Pb + n) /\ \A i \in 1 .. n : data[i] = Arc(Pb + i - 1)
      BY <1>a, <2>3 DEF Places
    <3>2. ASSUME NEW i \in 1 .. n + 1 PROVE data'[i] = Arc(Pb + i - 1)
      <4>1. CASE i = n + 1
        BY <1>b, <2>2, <3>1, <4>1
      <4>2. CASE i \in 1 .. n
        BY <2>2, <3>1, <4>2
      <4> QED  BY <1>b, <4>1, <4>2
    <3> QED  BY <1>a, <2>1, <2>2, <2>3, <3>2 DEF Places, Arc
  <2>7. Chunks'
    <3>1. sent = seen + New + n + 1 /\ content[xbuf] = sent
      BY <1>a, <2>3 DEF Chunks
    <3>2. ASSUME NEW i \in 1 .. n + 1 PROVE content[data'[i]] = seen + New + i
      <4>1. CASE i = n + 1
        BY <1>a, <1>b, <2>2, <3>1, <4>1 DEF TypeOK
      <4>2. CASE i \in 1 .. n
        BY <1>a, <2>2, <4>2 DEF Chunks
      <4> QED  BY <1>b, <4>1, <4>2
    <3> QED  BY <1>a, <1>b, <2>1, <2>2, <2>3, <3>1, <3>2 DEF Chunks, TypeOK
  <2> QED  BY <2>4, <2>5, <2>6, <2>7 DEF IInv
<1>4. CASE Pop
  <2>1. /\ UNCHANGED <<poolVars, data_sem, filler, xbuf, content, sent, seen>>
        /\ data # <<>> /\ pbuf' = Head(data) /\ data' = Tail(data)
        /\ parser = "pop" /\ parser' = "parse"
    BY <1>4 DEF Pop
  <2>2. /\ n > 0 /\ pbuf' = data[1] /\ data' \in Seq(Buffers) /\ Len(data') = n - 1
        /\ \A i \in 1 .. n - 1 : data'[i] = data[i + 1]
    BY <1>a, <1>b, <2>1 DEF TypeOK
  <2>3. /\ Pb = 0 /\ Pb' = 1 /\ New = 0 /\ New' = 1 /\ Xb' = Xb /\ Full' = Full
        /\ Out' = Out
    BY <1>b, <2>1, <2>2 DEF Xb, Full, Pb, New, One, Out
  <2>4. TypeOK'
    BY <1>a, <1>b, <2>1, <2>2 DEF TypeOK
  <2>5. Ring'
    <3>1. Out' <= COUNT /\ rd_idx' = Arc(Out)'
      BY <1>a, <2>1, <2>3 DEF Ring, Arc
    <3>2. /\ remain' + Out' = COUNT
          /\ sem' + Out' + Taking' + Putting' = COUNT
          /\ data_sem' + Pushed' + Popping' = Len(data')
      <4>1. /\ Taking' = Taking /\ Pushed' = Pushed
            /\ Putting = 0 /\ Putting' = 0 /\ Popping = 1 /\ Popping' = 0
        BY <2>1 DEF One, Taking, Putting, Pushed, Popping
      <4>2. Taking \in Nat /\ Pushed \in Nat
        BY DEF One, Taking, Pushed
      <4> QED  BY <1>a, <1>b, <2>1, <2>2, <2>3, <4>1, <4>2 DEF TypeOK, Ring
    <3> QED  BY <3>1, <3>2 DEF Ring
  <2>6. Places'
    <3>1. data[1] = Arc(0) /\ \A i \in 1 .. n - 1 : data[i + 1] = Arc(i)
      BY <1>a, <1>b, <2>2, <2>3 DEF Places
    <3> QED  BY <1>a, <1>b, <2>1, <2>2, <2>3, <3>1 DEF Places, Arc
  <2>7. Chunks'
    <3>1. seen \in Nat /\ \A i \in 1 .. n : content[data[i]] = seen + i
      BY <1>a, <2>3 DEF Chunks, TypeOK
    <3>2. content[data[1]] = seen + 1
      BY <1>b, <2>2, <3>1
    <3>3. ASSUME NEW i \in 1 .. n - 1 PROVE content[data'[i]] = seen + 1 + i
      <4>1. i + 1 \in 1 .. n /\ data'[i] = data[i + 1]
        BY <1>b, <2>2
      <4>2. content[data[i + 1]] = seen + (i + 1)
        BY <3>1, <4>1
      <4> QED  BY <3>1, <4>1, <4>2
    <3> QED  BY <1>a, <1>b, <2>1, <2>2, <2>3, <3>1, <3>2, <3>3 DEF Chunks, TypeOK
  <2> QED  BY <2>4, <2>5, <2>6, <2>7 DEF IInv
<1>5. CASE Parse
  <2>1. /\ UNCHANGED <<poolVars, data, data_sem, filler, xbuf, pbuf, content, sent>>
        /\ seen' = content[pbuf]
        /\ parser = "parse" /\ parser' = "put"
    BY <1>5 DEF Parse
  <2>2. /\ Pb' = Pb /\ New = 1 /\ New' = 0 /\ Xb' = Xb /\ Full' = Full
        /\ Out' = Out
    BY <2>1 DEF Xb, Full, Pb, New, One, Out
  <2>3. seen' = seen + 1
    BY <1>a, <2>1, <2>2 DEF Chunks
  <2>4. TypeOK'
    BY <1>a, <2>1, <2>3 DEF TypeOK
  <2>5. Ring' /\ Places'
    BY <1>a, <2>1, <2>2 DEF Ring, Places, Arc, One, Taking, Putting, Pushed, Popping
  <2>6. Chunks'
    BY <1>a, <1>b, <2>1, <2>2, <2>3 DEF Chunks, TypeOK
  <2> QED  BY <2>4, <2>5, <2>6 DEF IInv
<1>6. CASE Put
  <2>1. /\ UNCHANGED <<sem, rd_idx, data, data_sem, filler, xbuf, pbuf, content, sent, seen>>
        /\ wr_idx' = Succ(wr_idx) /\ remain' = remain + 1
        /\ parser = "put" /\ parser' = "post"
    BY <1>6 DEF Put
  <2>2. /\ Pb = 1 /\ Pb' = 0 /\ New' = New /\ Xb' = Xb /\ Full' = Full
        /\ Out' = Out - 1
    BY <1>b, <2>1 DEF Xb, Full, Pb, New, One, Out
  <2>3. Out <= COUNT /\ \A k \in 0 .. COUNT - 1 : Arc(k)' = Arc(k + 1)
    BY <1>a, <2>1, ArcFacts DEF Ring
  <2>4. TypeOK'
    <3>1. wr_idx' \in Buffers
      BY <1>a, <2>1 DEF Succ, Buffers
    <3>2. remain' \in 0 .. COUNT
      BY <1>a, <1>b, <2>1, <2>2 DEF TypeOK, Ring
    <3> QED  BY <1>a, <2>1, <3>1, <3>2 DEF TypeOK
  <2>5. Ring'
    <3>1. Out \in 1 .. COUNT /\ Out - 1 \in 0 .. COUNT - 1
      BY <1>a, <1>b, <2>2, <2>3
    <3>2. rd_idx = Arc(Out) /\ Arc(Out)' = Arc(Out)
      <4>1. Arc(Out)' = IF wr_idx' + (Out - 1) < COUNT THEN wr_idx' + (Out - 1)
                        ELSE wr_idx' + (Out - 1) - COUNT
        BY <2>2 DEF Arc
      <4> QED
        BY <1>a, <2>1, <3>1, <4>1 DEF Ring, Arc, Succ, Buffers
    <3>3. /\ remain' + Out' = COUNT
          /\ sem' + Out' + Taking' + Putting' = COUNT
          /\ data_sem' + Pushed' + Popping' = Len(data')
      <4>1. /\ Taking' = Taking /\ Pushed' = Pushed
            /\ Putting = 0 /\ Putting' = 1 /\ Popping = 0 /\ Popping' = 0
        BY <2>1 DEF One, Taking, Putting, Pushed, Popping
      <4>2. Taking \in Nat /\ Pushed \in Nat /\ sem \in Nat /\ remain \in Nat
        BY <1>a, CountAssumption DEF One, Taking, Pushed, TypeOK
      <4>3. /\ remain + Out = COUNT
            /\ sem + Out + Taking + Putting = COUNT
            /\ data_sem + Pushed + Popping = n
        BY <1>a DEF Ring
      <4>4. remain' + Out' = COUNT
        BY <1>a, <1>b, <2>1, <2>2, <4>2, <4>3
      <4>5. sem' + Out' + Taking' + Putting' = COUNT
        BY <1>a, <1>b, <2>1, <2>2, <4>1, <4>2, <4>3
      <4>6. data_sem' + Pushed' + Popping' = Len(data')
        BY <2>1, <4>1, <4>3
      <4> QED  BY <4>4, <4>5, <4>6
    <3> QED  BY <1>a, <2>1, <2>2, <2>3, <3>1, <3>2, <3>3 DEF Ring
  <2>6. Places'
    <3>1. ASSUME NEW k \in 0 .. n
          PROVE  Arc(Pb + k) = IF wr_idx' + k < COUNT THEN wr_idx' + k
                               ELSE wr_idx' + k - COUNT
      BY <1>a, <1>b, <2>1, <2>2, <2>3 DEF Arc, Succ, Buffers
    <3>2. ASSUME NEW i \in 1 .. n
          PROVE  data[i] = IF wr_idx' + (i - 1) < COUNT THEN wr_idx' + (i - 1)
                           ELSE wr_idx' + (i - 1) - COUNT
      <4>1. data[i] = Arc(Pb + (i - 1)) /\ i - 1 \in 0 .. n
        BY <1>a, <1>b, <2>2 DEF Places
      <4> QED  BY <3>1, <4>1
    <3>3. Xb = 1 => xbuf = IF wr_idx' + n < COUNT THEN wr_idx' + n
                           ELSE wr_idx' + n - COUNT
      BY <1>a, <1>b, <3>1 DEF Places
    <3> QED  BY <1>b, <2>1, <2>2, <3>2, <3>3 DEF Places, Arc
  <2>7. Chunks'
    BY <1>a, <2>1, <2>2 DEF Chunks
  <2> QED  BY <2>4, <2>5, <2>6, <2>7 DEF IInv
<1>7. CASE UNCHANGED vars
  <2>1. /\ UNCHANGED <<sem, remain, rd_idx, wr_idx, data, data_sem, filler, xbuf>>
        /\ UNCHANGED <<parser, pbuf, content, sent, seen>>
    BY <1>7 DEF vars
  <2>2. /\ Pb' = Pb /\ Xb' = Xb /\ New' = New /\ Full' = Full /\ Out' = Out
        /\ Taking' = Taking /\ Putting' = Putting /\ Pushed' = Pushed
        /\ Popping' = Popping
    BY <2>1 DEF Pb, Xb, New, Full, One, Out, Taking, Putting, Pushed, Popping
  <2>3. TypeOK'
    BY <1>a, <2>1 DEF TypeOK
  <2>4. Ring' /\ Places'
    BY <1>a, <2>1, <2>2 DEF Ring, Places, Arc
  <2>5. Chunks'
    BY <1>a, <2>1, <2>2 DEF Chunks
  <2> QED  BY <2>3, <2>4, <2>5 DEF IInv
<1> QED
  BY <1>1, <1>2, <1>3, <1>4, <1>5, <1>6, <1>7, SemaphoreStep DEF Next

(* The arc of buffers that are out is always as IInv describes it.         *)
THEOREM Invariance == Spec => []IInv
  BY InitIInv, NextIInv, PTL DEF Spec

-----------------------------------------------------------------------------
(* The variables keep their types; in particular the two semaphores of the *)
(* pool and its counter stay between 0 and COUNT.                          *)
THEOREM TypeCorrect == Spec => []TypeOK
<1>1. IInv => TypeOK
  BY DEF IInv
<1> QED  BY Invariance, <1>1, PTL

(* No transfer is ever given a buffer whose data has not been parsed.      *)
THEOREM NeverOverwritten == Spec => []NoOverwrite
<1>1. IInv => NoOverwrite
  <2> SUFFICES ASSUME IInv, filler \in {"flight", "push"}
               PROVE  /\ \A i \in 1 .. Len(data) : data[i] # xbuf
                      /\ parser \in {"parse", "put"} => pbuf # xbuf
    BY DEF NoOverwrite
  <2>1. Xb = 1 /\ (parser \in {"parse", "put"} => Pb = 1)
    BY DEF Xb, Pb, One
  <2> QED  BY <2>1, Apart
<1> QED  BY Invariance, <1>1, PTL

(* put() is called with the buffer at wr_idx.                              *)
THEOREM ReturnedInOrder == Spec => []PutInOrder
<1>1. IInv => PutInOrder
  BY CountAssumption DEF IInv, TypeOK, Buffers, Places, Pb, One, Arc, PutInOrder
<1> QED  BY Invariance, <1>1, PTL

(* de_q() finds an element whenever its semaphore lets it through.         *)
THEOREM NeverPopsEmpty == Spec => []PopNonEmpty
<1>1. IInv => PopNonEmpty
  BY DEF IInv, TypeOK, Ring, One, Pushed, Popping, PopNonEmpty
<1> QED  BY Invariance, <1>1, PTL

(* Every behaviour of the pipeline is one of the chunk stream.             *)
THEOREM Refinement == Spec => ImplementsStream
<1>1. Init => Stream!Init
  BY DEF Init, Stream!Init
<1>2. IInv /\ [Next]_vars => [Stream!Next]_<<sent, seen>>
  <2> SUFFICES ASSUME IInv, [Next]_vars
               PROVE  Stream!Next \/ UNCHANGED <<sent, seen>>
    OBVIOUS
  <2> USE DEF poolVars, queueVars, fillerVars, parserVars, chunkVars
  <2>1. TypeOK /\ Ring /\ Chunks /\ COUNT \in Nat
    BY CountAssumption DEF IInv
  <2>2. CASE Fill
    <3>1. Xb = 1 /\ Full = 0 /\ New <= Pb
      BY <2>2 DEF Fill, Xb, Full, New, Pb, One
    <3>2. sent - seen < COUNT
      <4>1. /\ sent = seen + New + Len(data) + 0 /\ Pb + Len(data) + 1 <= COUNT
            /\ New \in 0 .. 1 /\ Pb \in 0 .. 1 /\ Len(data) \in Nat /\ seen \in Nat
        BY <2>1, <3>1, Counts DEF Ring, Chunks, TypeOK
      <4> QED  BY <2>1, <3>1, <4>1
    <3> QED  BY <2>2, <3>2 DEF Fill, Stream!Next, Stream!Send
  <2>3. CASE Parse
    <3>1. New = 1
      BY <2>3 DEF Parse, New, One
    <3>2. content[pbuf] = seen + 1 /\ seen < sent
      BY <2>1, <3>1, Counts DEF Chunks, TypeOK
    <3> QED  BY <2>3, <3>2 DEF Parse, Stream!Next, Stream!Parse
  <2>4. CASE GetWait \/ GetTake \/ Push \/ PushPost \/ PopWait \/ Pop \/ Put \/ PutPost
    BY <2>4 DEF GetWait, GetTake, Push, PushPost, PopWait, Pop, Put, PutPost
  <2> QED  BY <2>2, <2>3, <2>4 DEF Next, vars
<1> QED
  BY Invariance, <1>1, <1>2, PTL DEF Spec, Stream!Spec, ImplementsStream
=============================================================================
