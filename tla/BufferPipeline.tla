--------------------------- MODULE BufferPipeline ---------------------------
(***************************************************************************)
(* How the received data travels: mem_pool_t hands out its buffers in a    *)
(* ring, usb_data_callback puts the filled one in buf_data_q and gets the  *)
(* next, the parser thread reads it and puts it back in the pool.          *)
(*                                                                         *)
(* A chunk is what one transfer leaves in one buffer; chunks are numbered  *)
(* as they arrive.  A buffer is its index in mem, which never changes:     *)
(* put() does not store the pointer, it only moves wr_idx, so the pool     *)
(* gives the right buffer out again only if they come back in the order    *)
(* in which they were handed out.  The semaphores are taken before and     *)
(* posted after the sections the mutexes protect, as in the code.          *)
(***************************************************************************)
EXTENDS Naturals, Sequences

CONSTANTS COUNT,       \* buffers in mem_pool (32)
          MaxChunks    \* bound on the chunks of a run

ASSUME CountAssumption == COUNT \in Nat \ {0} /\ MaxChunks \in Nat

VARIABLES
    sem, remain, rd_idx, wr_idx,   \* mem_pool
    data, data_sem,                \* buf_data_q: the list and its semaphore
    filler, xbuf,                  \* the callback, and transfer->buffer
    parser, pbuf,                  \* the parser thread, and its data pointer
    content,                       \* the chunk in each buffer
    sent, seen                     \* the last chunk received, and parsed

poolVars == <<sem, remain, rd_idx, wr_idx>>
queueVars == <<data, data_sem>>
fillerVars == <<filler, xbuf>>
parserVars == <<parser, pbuf>>
chunkVars == <<content, sent, seen>>
vars == <<poolVars, queueVars, fillerVars, parserVars, chunkVars>>

Buffers == 0 .. COUNT - 1
Succ(i) == IF i + 1 = COUNT THEN 0 ELSE i + 1      \* (i + 1) % COUNT

Init ==
    /\ sem = COUNT /\ remain = COUNT /\ rd_idx = 0 /\ wr_idx = 0
    /\ data = <<>> /\ data_sem = 0
    /\ filler = "get" /\ xbuf = 0
    /\ parser = "wait" /\ pbuf = 0
    /\ content = [b \in Buffers |-> 0]
    /\ sent = 0 /\ seen = 0

-----------------------------------------------------------------------------
(* usb_data_callback, and before it the reader's first get().              *)

\* Mutant: the callback does not wait for the semaphore.
GetWait_NoWait ==
    /\ filler = "get"
    /\ filler' = "take"
    /\ UNCHANGED <<poolVars, queueVars, xbuf, parserVars, chunkVars>>

GetWait ==      \* sem_wait in get()
    /\ filler = "get" /\ sem > 0
    /\ sem' = sem - 1
    /\ filler' = "take"
    /\ UNCHANGED <<remain, rd_idx, wr_idx, queueVars, xbuf, parserVars, chunkVars>>

\* Mutant: get() does not count.
GetTake_NoCount ==
    /\ filler = "take"
    /\ xbuf' = rd_idx
    /\ rd_idx' = Succ(rd_idx)
    /\ filler' = "flight"
    /\ UNCHANGED <<sem, remain, wr_idx, queueVars, parserVars, chunkVars>>

GetTake ==      \* the locked part of get()
    /\ filler = "take"
    /\ xbuf' = rd_idx
    /\ rd_idx' = Succ(rd_idx)
    /\ remain' = remain - 1
    /\ filler' = "flight"
    /\ UNCHANGED <<sem, wr_idx, queueVars, parserVars, chunkVars>>

Fill ==         \* the transfer completes, with data
    /\ filler = "flight" /\ sent < MaxChunks
    /\ content' = [content EXCEPT ![xbuf] = sent + 1]
    /\ sent' = sent + 1
    /\ filler' = "push"
    /\ UNCHANGED <<poolVars, queueVars, xbuf, parserVars, seen>>

Push ==         \* the locked part of en_q()
    /\ filler = "push"
    /\ data' = Append(data, xbuf)
    /\ filler' = "post"
    /\ UNCHANGED <<poolVars, data_sem, xbuf, parserVars, chunkVars>>

\* Mutant: en_q() does not post.
PushPost_Silent ==
    /\ filler = "post"
    /\ filler' = "get"
    /\ UNCHANGED <<poolVars, queueVars, xbuf, parserVars, chunkVars>>

PushPost ==     \* sem_post in en_q()
    /\ filler = "post"
    /\ data_sem' = data_sem + 1
    /\ filler' = "get"
    /\ UNCHANGED <<poolVars, data, xbuf, parserVars, chunkVars>>

-----------------------------------------------------------------------------
(* parser_thread_func.                                                     *)

\* Mutant: de_q() does not wait.
PopWait_NoWait ==
    /\ parser = "wait"
    /\ parser' = "pop"
    /\ UNCHANGED <<poolVars, queueVars, fillerVars, pbuf, chunkVars>>

PopWait ==      \* sem_wait in de_q()
    /\ parser = "wait" /\ data_sem > 0
    /\ data_sem' = data_sem - 1
    /\ parser' = "pop"
    /\ UNCHANGED <<poolVars, data, fillerVars, pbuf, chunkVars>>

\* Mutant: the newest element is taken.
Pop_Back ==
    /\ parser = "pop" /\ data # <<>>
    /\ pbuf' = data[Len(data)]
    /\ data' = SubSeq(data, 1, Len(data) - 1)
    /\ parser' = "parse"
    /\ UNCHANGED <<poolVars, data_sem, fillerVars, chunkVars>>

Pop ==          \* the locked part of de_q()
    /\ parser = "pop" /\ data # <<>>
    /\ pbuf' = Head(data)
    /\ data' = Tail(data)
    /\ parser' = "parse"
    /\ UNCHANGED <<poolVars, data_sem, fillerVars, chunkVars>>

Parse ==        \* process_data
    /\ parser = "parse"
    /\ seen' = content[pbuf]
    /\ parser' = "put"
    /\ UNCHANGED <<poolVars, queueVars, fillerVars, pbuf, content, sent>>

\* Mutant: wr_idx stays.
Put_NoAdvance ==
    /\ parser = "put"
    /\ remain' = remain + 1
    /\ parser' = "post"
    /\ UNCHANGED <<sem, rd_idx, wr_idx, queueVars, fillerVars, pbuf, chunkVars>>

Put ==          \* the locked part of put()
    /\ parser = "put"
    /\ wr_idx' = Succ(wr_idx)
    /\ remain' = remain + 1
    /\ parser' = "post"
    /\ UNCHANGED <<sem, rd_idx, queueVars, fillerVars, pbuf, chunkVars>>

PutPost ==      \* sem_post in put()
    /\ parser = "post"
    /\ sem' = sem + 1
    /\ parser' = "wait"
    /\ UNCHANGED <<remain, rd_idx, wr_idx, queueVars, fillerVars, pbuf, chunkVars>>

Next == \/ GetWait \/ GetTake \/ Fill \/ Push \/ PushPost
        \/ PopWait \/ Pop \/ Parse \/ Put \/ PutPost

Spec == Init /\ [][Next]_vars

\* The two threads are scheduled; the analyser need not send.
Fairness == /\ WF_vars(GetWait \/ GetTake \/ Push \/ PushPost)
            /\ WF_vars(PopWait \/ Pop \/ Parse \/ Put \/ PutPost)

FairSpec == Spec /\ Fairness

-----------------------------------------------------------------------------
TypeOK ==
    /\ sem \in 0 .. COUNT /\ remain \in 0 .. COUNT
    /\ rd_idx \in Buffers /\ wr_idx \in Buffers
    /\ data \in Seq(Buffers) /\ data_sem \in Nat
    /\ filler \in {"get", "take", "flight", "push", "post"}
    /\ parser \in {"wait", "pop", "parse", "put", "post"}
    /\ xbuf \in Buffers /\ pbuf \in Buffers
    /\ content \in [Buffers -> Nat]
    /\ sent \in Nat /\ seen \in Nat

(* The kernel never writes into a buffer that waits for the parser or that *)
(* the parser is reading, however far the parser falls behind.             *)
NoOverwrite ==
    filler \in {"flight", "push"} =>
        /\ \A i \in 1 .. Len(data) : data[i] # xbuf
        /\ parser \in {"parse", "put"} => pbuf # xbuf

(* Buffers come back in the order they were handed out: put() never has    *)
(* cause to print "wrong pointer position".                                *)
PutInOrder == parser = "put" => pbuf = wr_idx

(* de_q() never takes the front of an empty list.                          *)
PopNonEmpty == parser = "pop" => data # <<>>

Stream == INSTANCE ChunkStream WITH Window <- COUNT

(* The pool, the queue and the two threads implement the chunk stream.     *)
ImplementsStream == Stream!Spec

(* Every chunk is parsed in the end.                                       *)
AllParsed == \A n \in 1 .. MaxChunks : sent = n ~> seen >= n
=============================================================================
