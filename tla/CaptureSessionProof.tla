------------------------- MODULE CaptureSessionProof -------------------------
(***************************************************************************)
(* One capture, for every number of buffers and every timeout.             *)
(*                                                                         *)
(* With any of the ten faults: the types, the accounting of the buffers,   *)
(* and that capture_finish is not cleared once the stop has set it (IInv). *)
(*                                                                         *)
(* Unless a transfer that timed out holds data: everything sent before     *)
(* STOP has been parsed when the parser comes to it (LInv); and with two   *)
(* faults fewer, when the parser ends in any other way that stop_capture   *)
(* has not forced (EndedInTime).                                           *)
(*                                                                         *)
(* With the faults of Survivable, however late the analyser stops sending: *)
(* close leaves no thread behind, and no queue is deleted under one        *)
(* (CInv).  With each of the other faults one of the two is false.  Where  *)
(* a thread could not be created the process may crash in close; this is   *)
(* about the runs in which it does not.                                    *)
(***************************************************************************)
EXTENDS CaptureSession, FiniteSetTheorems, TLAPS

\* The places of the API thread: before the reader and the parser exist, before
\* the stop of the capture, and then.
Starting == {"idle", "create_reader", "create_parser", "create_dbg", "write_start"}
Capturing == Starting \cup {"run", "close"}

\* Until the reader has submitted the transfer there is nothing to reap or parse;
\* the callback runs in the thread that has the events lock, and while it does
\* the transfer is not with the kernel.
Submitted ==
    /\ reader \in {"none", "enter", "submit"} =>
         cb = "none" /\ transfer = "none" /\ buf_data_q = <<>> /\ parser \in {"none", "wait"}
    /\ ev["R"] # "out" => reader = "handle"
    /\ cb # "none" => ~LockFree /\ transfer = "idle"
    /\ Holds("R") => ~Holds("M")
    /\ main \notin Writing => write = "idle"

\* A thread is created once and sends its token last.
Threads ==
    /\ main \in {"idle", "create_reader"} => reader = "none"
    /\ main \in {"idle", "create_reader", "create_parser"} => parser = "none"
    /\ data_reader_q = 0 \/ reader = "ended"
    /\ data_parser_q = 0 \/ parser = "ended"

\* stop_capture's loop ends; by the time its first wait is over the reader has
\* cleared capture_finish.
Stopping ==
    /\ main \in Capturing \cup {"write_stop"} => tries = 0
    /\ main = "wait_reader" => tries < Retries
    /\ main = "wait_reader" /\ wait_left < StopTimeout => reader \notin {"enter", "submit"}
    /\ draining => main \notin Capturing
    /\ draining /\ capture_finish => reader # "enter"

InTransfer(kinds) == IF transfer \in kinds THEN 1 ELSE 0
InParser(kinds) == IF parser \in kinds THEN 1 ELSE 0

\* The data that is on its way to the parser or has been through it.
Delivered == parsed + Count(buf_data_q, {"data"}) + InParser({"data"})

IInv ==
    /\ TypeOK
    /\ Submitted
    /\ Threads
    /\ Stopping
    /\ BufferAccounting
    /\ Delivered + InTransfer({"data", "timeout_data"}) <= sent

-----------------------------------------------------------------------------
(* Count is a number, and counts elements as they come and go.             *)
Buffers == {"data", "stop", "end"}

Places(q, kinds) == {k \in 1 .. Len(q) : q[k] \in kinds}

LEMMA CountEmpty ==
  ASSUME NEW kinds PROVE Count(<<>>, kinds) = 0
<1>1. {k \in 1 .. Len(<<>>) : <<>>[k] \in kinds} = {}
  OBVIOUS
<1> QED  BY <1>1, FS_EmptySet DEF Count

LEMMA PlacesFinite ==
  ASSUME NEW q \in Seq(Buffers), NEW kinds
  PROVE  IsFiniteSet(Places(q, kinds)) /\ Count(q, kinds) \in Nat
<1>1. Len(q) \in Nat /\ IsFiniteSet(1 .. Len(q))
  BY FS_Interval
<1>2. Places(q, kinds) \in SUBSET (1 .. Len(q))
  BY DEF Places
<1>3. IsFiniteSet(Places(q, kinds))
  BY <1>1, <1>2, FS_Subset
<1> QED  BY <1>3, FS_CardinalityType DEF Count, Places

LEMMA CountAppend ==
  ASSUME NEW q \in Seq(Buffers), NEW b \in Buffers, NEW kinds
  PROVE  Count(Append(q, b), kinds) = Count(q, kinds) + (IF b \in kinds THEN 1 ELSE 0)
<1> DEFINE p == Append(q, b)
           n == Len(q) + 1
<1>1. /\ Len(q) \in Nat /\ Len(p) = n
      /\ \A k \in 1 .. Len(q) : p[k] = q[k]
      /\ p[n] = b
  OBVIOUS
<1>2. Places(p, kinds) = IF b \in kinds THEN Places(q, kinds) \cup {n} ELSE Places(q, kinds)
  BY <1>1 DEF Places
<1>3. n \notin Places(q, kinds)
  BY <1>1 DEF Places
<1>4. Cardinality(Places(q, kinds) \cup {n}) = Cardinality(Places(q, kinds)) + 1
  BY <1>3, PlacesFinite, FS_AddElement
<1>5. Count(q, kinds) \in Nat
  BY PlacesFinite
<1>6. /\ Count(q, kinds) = Cardinality(Places(q, kinds))
      /\ Count(p, kinds) = Cardinality(Places(p, kinds))
  BY DEF Count, Places
<1>7. Count(p, kinds) = Count(q, kinds) + IF b \in kinds THEN 1 ELSE 0
  <2> HIDE DEF p
  <2> QED  BY <1>2, <1>4, <1>5, <1>6
<1> QED  BY <1>7

LEMMA CountTail ==
  ASSUME NEW q \in Seq(Buffers), q # <<>>, NEW kinds
  PROVE  Count(q, kinds) = Count(Tail(q), kinds) + (IF Head(q) \in kinds THEN 1 ELSE 0)
<1> DEFINE p == Tail(q)
           T == Places(p, kinds)
           S == Places(q, kinds) \ {1}
           f == [k \in T |-> k + 1]
<1>1. /\ p \in Seq(Buffers) /\ Len(q) \in Nat \ {0} /\ Len(p) = Len(q) - 1
      /\ \A k \in 1 .. Len(p) : p[k] = q[k + 1]
      /\ Head(q) = q[1]
  OBVIOUS
<1>2. f \in Bijection(T, S)
  <2>1. \A k \in T : k \in 1 .. Len(p) /\ k + 1 \in S
    BY <1>1 DEF Places
  <2>2. \A j \in S : j - 1 \in T /\ j = (j - 1) + 1
    BY <1>1 DEF Places
  <2>3. \A j, k \in T : f[j] = f[k] => j = k
    BY <1>1, <2>1
  <2> QED  BY <2>1, <2>2, <2>3 DEF Bijection, Injection, Surjection, IsInjective
<1>3. Cardinality(S) = Cardinality(T)
  <2>1. IsFiniteSet(T)
    BY <1>1, PlacesFinite
  <2>2. ExistsBijection(T, S)
    BY <1>2 DEF ExistsBijection
  <2> HIDE DEF T, S
  <2> QED  BY <2>1, <2>2, FS_Bijection
<1>4. IsFiniteSet(Places(q, kinds)) /\ Cardinality(S) \in Nat
  BY <1>1, PlacesFinite, FS_RemoveElement, FS_CardinalityType
<1>5. 1 \in Places(q, kinds) <=> Head(q) \in kinds
  BY <1>1 DEF Places
<1>6. Cardinality(Places(q, kinds)) = Cardinality(S) + IF Head(q) \in kinds THEN 1 ELSE 0
  <2>1. CASE Head(q) \in kinds
    <3>1. Cardinality(S) = Cardinality(Places(q, kinds)) - 1
      BY <1>4, <1>5, <2>1, FS_RemoveElement
    <3>2. Cardinality(Places(q, kinds)) \in Nat
      BY <1>4, FS_CardinalityType
    <3> QED  BY <3>1, <3>2, <2>1
  <2>2. CASE Head(q) \notin kinds
    <3>1. S = Places(q, kinds)
      BY <1>5, <2>2
    <3> HIDE DEF S
    <3> QED  BY <1>4, <2>2, <3>1
  <2> QED  BY <2>1, <2>2
<1> QED  BY <1>3, <1>6 DEF Count, Places
-----------------------------------------------------------------------------
LEMMA InitIInv == Init => IInv
<1> SUFFICES ASSUME Init PROVE IInv
  OBVIOUS
<1> USE SessionAssumption DEF Init, Events
<1>1. TypeOK
  <2>1. /\ buf_data_q \in Seq({"data", "stop", "end"})
        /\ ev \in [Events -> {"out", "poll", "served", "wait", "woken"}]
    OBVIOUS
  <2>2. /\ queues \subseteq Queues /\ pool \in 0 .. PoolCount /\ tries \in 0 .. Retries
        /\ sent \in 0 .. MaxData /\ parsed \in 0 .. MaxData
        /\ xfer_left \in 0 .. TransferTimeout /\ wait_left \in 0 .. StopTimeout
    BY DEF Retries
  <2>3. capture_finish \in BOOLEAN /\ draining \in BOOLEAN
    OBVIOUS
  <2> HIDE SessionAssumption DEF Init, Events
  <2>4. /\ main = "idle" /\ result = "Success" /\ reader = "none" /\ parser = "none"
        /\ dbg = "none" /\ data_reader_q = 0 /\ data_parser_q = 0 /\ cb = "none"
        /\ transfer = "none" /\ write = "idle" /\ device = "idle"
    BY DEF Init
  <2> QED  BY <2>1, <2>2, <2>3, <2>4 DEF TypeOK
<1>2. Submitted /\ Threads /\ Stopping
  BY DEF Submitted, Threads, Stopping, Holds
<1>3. Count(buf_data_q, {"data", "stop"}) = 0 /\ Count(buf_data_q, {"data"}) = 0
  BY CountEmpty
<1>4. BufferAccounting /\ Delivered + InTransfer({"data", "timeout_data"}) <= sent
  BY <1>3 DEF BufferAccounting, WithTransfer, Delivered, InTransfer, InParser
<1> QED  BY <1>1, <1>2, <1>4 DEF IInv

(* The steps of libusb, in whichever thread, with the callback.            *)
LEMMA LibusbIInv ==
  ASSUME IInv, NEW t \in Events,
         EnterEvents(t) \/ LeaveEvents(t) \/ ReapWrite(t) \/
         ReapData(t) \/ ReapTimeout(t) \/ ReapEmpty(t) \/ ReapEnd(t)
         \/ CallbackGet \/ CallbackSubmit
  PROVE  IInv'
<1> USE SessionAssumption DEF IInv, apiVars, queueVars, devVars
<1>0. /\ \A kinds : Count(buf_data_q, kinds) \in Nat
      /\ pool \in Nat /\ parsed \in Nat /\ sent \in Nat
  BY PlacesFinite DEF TypeOK, Buffers
<1>1. ASSUME EnterEvents(t) PROVE IInv'
  <2>1. TypeOK'
    BY <1>1 DEF EnterEvents, TypeOK
  <2>2. Submitted' /\ Threads' /\ Stopping'
    <3>1. Submitted'
      BY <1>1 DEF EnterEvents, Submitted, Events, Holds, LockFree, Writing, Capturing,
         Starting, Calls
    <3> QED
      BY <1>1, <3>1 DEF EnterEvents, Threads, Stopping
  <2>3. BufferAccounting' /\ Delivered' + InTransfer({"data", "timeout_data"})' <= sent'
    BY <1>1, <1>0 DEF EnterEvents, BufferAccounting, Delivered, InTransfer, InParser,
       WithTransfer
  <2> QED  BY <2>1, <2>2, <2>3
<1>2. ASSUME LeaveEvents(t) PROVE IInv'
  <2>1. TypeOK'
    <3>1. ev' \in [Events -> {"out", "poll", "served", "wait", "woken"}]
      BY <1>2, <1>0 DEF LeaveEvents, TypeOK
    <3>2. reader' \in {"none", "enter", "submit", "handle", "check", "mark", "mark_failed",
                       "cancel", "token", "ended"}
      BY <1>2, <1>0 DEF LeaveEvents, TypeOK
    <3>3. capture_finish' \in BOOLEAN
      BY <1>2, <1>0 DEF LeaveEvents, TypeOK
    <3>4. UNCHANGED <<main, tries, result, parser, dbg, draining, queues,
                     buf_data_q, data_reader_q, data_parser_q, pool, cb, transfer,
                     write, device, sent, parsed, xfer_left, wait_left>>
      BY <1>2 DEF LeaveEvents
    <3> QED
      BY <3>1, <3>2, <3>3, <3>4 DEF TypeOK
  <2>2. Submitted' /\ Threads' /\ Stopping'
    BY <1>2 DEF LeaveEvents, TypeOK, Submitted, Threads, Stopping, Events, Holds,
       LockFree, Writing, Capturing, Starting
  <2>3. BufferAccounting' /\ Delivered' + InTransfer({"data", "timeout_data"})' <= sent'
    BY <1>2, <1>0 DEF LeaveEvents, Submitted, BufferAccounting, Delivered, InTransfer,
       InParser, WithTransfer
  <2> QED  BY <2>1, <2>2, <2>3
<1>3. ASSUME ReapWrite(t) PROVE IInv'
  <2>1. TypeOK'
    BY <1>3 DEF ReapWrite, TypeOK
  <2>2. Submitted' /\ Threads' /\ Stopping'
    BY <1>3 DEF ReapWrite, Submitted, Threads, Stopping, Holds, LockFree, Writing,
       Capturing, Starting
  <2>3. BufferAccounting' /\ Delivered' + InTransfer({"data", "timeout_data"})' <= sent'
    BY <1>3, <1>0 DEF ReapWrite, BufferAccounting, Delivered, InTransfer, InParser,
       WithTransfer
  <2> QED  BY <2>1, <2>2, <2>3
<1>4. ASSUME ReapData(t) PROVE IInv'
  <2>1. TypeOK'
    BY <1>4 DEF ReapData, TypeOK
  <2>2. Submitted' /\ Threads' /\ Stopping'
    BY <1>4 DEF ReapData, Submitted, Threads, Stopping, Holds, LockFree, Writing,
       Capturing, Starting
  <2>3. BufferAccounting' /\ Delivered' + InTransfer({"data", "timeout_data"})' <= sent'
    <3>1. \A kinds : Count(buf_data_q', kinds) =
                       Count(buf_data_q, kinds) + (IF transfer \in kinds THEN 1 ELSE 0)
      BY <1>4, CountAppend DEF ReapData, TypeOK, Buffers
    <3>2. BufferAccounting'
      BY <1>4, <1>0, <3>1 DEF ReapData, TypeOK, Submitted, Threads, BufferAccounting, InParser,
         WithTransfer
    <3>3. Delivered' + InTransfer({"data", "timeout_data"})' <= sent'
      BY <1>4, <1>0, <3>1 DEF ReapData, TypeOK, Submitted, Threads, Delivered, InTransfer,
         InParser
    <3> QED
      BY <3>2, <3>3
  <2> QED  BY <2>1, <2>2, <2>3
<1>5. ASSUME ReapTimeout(t) PROVE IInv'
  <2>1. TypeOK'
    BY <1>5 DEF ReapTimeout, TypeOK
  <2>2. Submitted' /\ Threads' /\ Stopping'
    BY <1>5 DEF ReapTimeout, Submitted, Threads, Stopping, Holds, LockFree, Writing,
       Capturing, Starting
  <2>3. BufferAccounting' /\ Delivered' + InTransfer({"data", "timeout_data"})' <= sent'
    BY <1>5, <1>0 DEF ReapTimeout, BufferAccounting, Delivered, InTransfer, InParser,
       WithTransfer
  <2> QED  BY <2>1, <2>2, <2>3
<1>6. ASSUME ReapEmpty(t) PROVE IInv'
  <2>1. TypeOK'
    BY <1>6 DEF ReapEmpty, TypeOK
  <2>2. Submitted' /\ Threads' /\ Stopping'
    BY <1>6 DEF ReapEmpty, Submitted, Threads, Stopping, Holds, LockFree, Writing,
       Capturing, Starting
  <2>3. BufferAccounting' /\ Delivered' + InTransfer({"data", "timeout_data"})' <= sent'
    BY <1>6, <1>0 DEF ReapEmpty, BufferAccounting, Delivered, InTransfer, InParser,
       WithTransfer
  <2> QED  BY <2>1, <2>2, <2>3
<1>7. ASSUME ReapEnd(t) PROVE IInv'
  <2>1. TypeOK'
    BY <1>7 DEF ReapEnd, TypeOK
  <2>2. Submitted' /\ Threads' /\ Stopping'
    BY <1>7 DEF ReapEnd, Submitted, Threads, Stopping, Holds, LockFree, Writing,
       Capturing, Starting
  <2>3. BufferAccounting' /\ Delivered' + InTransfer({"data", "timeout_data"})' <= sent'
    BY <1>7, <1>0 DEF ReapEnd, BufferAccounting, Delivered, InTransfer, InParser,
       WithTransfer
  <2> QED  BY <2>1, <2>2, <2>3
<1>8. ASSUME CallbackGet PROVE IInv'
  <2>1. TypeOK'
    BY <1>8 DEF CallbackGet, TypeOK
  <2>2. Submitted' /\ Threads' /\ Stopping'
    BY <1>8 DEF CallbackGet, Submitted, Threads, Stopping, Holds, LockFree, Writing,
       Capturing, Starting
  <2>3. BufferAccounting' /\ Delivered' + InTransfer({"data", "timeout_data"})' <= sent'
    BY <1>8, <1>0 DEF CallbackGet, Submitted, BufferAccounting, Delivered, InTransfer,
       InParser, WithTransfer
  <2> QED  BY <2>1, <2>2, <2>3
<1>9. ASSUME CallbackSubmit PROVE IInv'
  <2>1. TypeOK'
    <3>1. cb' \in {"none", "get", "submit"}
      BY <1>9, <1>0 DEF CallbackSubmit
    <3>2. transfer' \in {"none", "idle", "flight", "data", "stop", "timeout", "timeout_data",
                         "empty", "cancelled", "error"}
      BY <1>9, <1>0 DEF CallbackSubmit, TypeOK
    <3>3. xfer_left' \in 0 .. TransferTimeout
      BY <1>9, <1>0 DEF CallbackSubmit, TypeOK
    <3>4. capture_finish' \in BOOLEAN
      BY <1>9, <1>0 DEF CallbackSubmit, TypeOK
    <3>5. UNCHANGED <<main, tries, result, reader, parser, dbg, draining, queues,
                     buf_data_q, data_reader_q, data_parser_q, pool, ev, write,
                     device, sent, parsed, wait_left>>
      BY <1>9 DEF CallbackSubmit
    <3> QED
      BY <3>1, <3>2, <3>3, <3>4, <3>5 DEF TypeOK
  <2>2. Submitted' /\ Threads' /\ Stopping'
    BY <1>9 DEF CallbackSubmit, Submitted, Threads, Stopping, Holds, LockFree, Writing,
       Capturing, Starting
  <2>3. BufferAccounting' /\ Delivered' + InTransfer({"data", "timeout_data"})' <= sent'
    BY <1>9, <1>0 DEF CallbackSubmit, BufferAccounting, Delivered, InTransfer, InParser,
       WithTransfer
  <2> QED  BY <2>1, <2>2, <2>3
<1> QED
  BY <1>1, <1>2, <1>3, <1>4, <1>5, <1>6, <1>7, <1>8, <1>9

(* The steps of the reader.                                                *)
LEMMA ReaderIInv ==
  ASSUME IInv,
         ReaderInit \/ ReaderSubmit \/ ReaderCheck \/ ReaderMark \/
         ReaderCancel \/ ReaderToken
  PROVE  IInv'
<1> USE SessionAssumption DEF IInv, readerFrame, apiVars, queueVars, devVars
<1>0. /\ \A kinds : Count(buf_data_q, kinds) \in Nat
      /\ pool \in Nat /\ parsed \in Nat /\ sent \in Nat
  BY PlacesFinite DEF TypeOK, Buffers
<1>1. ASSUME ReaderInit PROVE IInv'
  <2>1. TypeOK'
    <3>1. pool' \in 0 .. PoolCount
      BY <1>1, <1>0 DEF ReaderInit, TypeOK
    <3>2. capture_finish' \in BOOLEAN
      BY <1>1, <1>0 DEF ReaderInit
    <3>3. reader' \in {"none", "enter", "submit", "handle", "check", "mark", "mark_failed",
                       "cancel", "token", "ended"}
      BY <1>1, <1>0 DEF ReaderInit
    <3>4. UNCHANGED <<main, tries, result, parser, dbg, draining, queues,
                     buf_data_q, data_reader_q, data_parser_q, ev, cb, transfer,
                     write, device, sent, parsed, xfer_left, wait_left>>
      BY <1>1 DEF ReaderInit
    <3> QED
      BY <3>1, <3>2, <3>3, <3>4 DEF TypeOK
  <2>2. Submitted' /\ Threads' /\ Stopping'
    BY <1>1 DEF ReaderInit, Submitted, Threads, Stopping, Holds, LockFree, Writing,
       Capturing, Starting
  <2>3. BufferAccounting' /\ Delivered' + InTransfer({"data", "timeout_data"})' <= sent'
    BY <1>1, <1>0 DEF ReaderInit, Submitted, BufferAccounting, Delivered, InTransfer,
       InParser, WithTransfer
  <2> QED  BY <2>1, <2>2, <2>3
<1>2. ASSUME ReaderSubmit PROVE IInv'
  <2>1. TypeOK'
    <3>1. transfer' \in {"none", "idle", "flight", "data", "stop", "timeout", "timeout_data",
                         "empty", "cancelled", "error"}
      BY <1>2, <1>0 DEF ReaderSubmit, TypeOK, Events
    <3>2. xfer_left' \in 0 .. TransferTimeout
      BY <1>2, <1>0 DEF ReaderSubmit, TypeOK
    <3>3. reader' \in {"none", "enter", "submit", "handle", "check", "mark", "mark_failed",
                       "cancel", "token", "ended"}
      BY <1>2, <1>0 DEF ReaderSubmit
    <3>4. capture_finish' \in BOOLEAN
      BY <1>2, <1>0 DEF ReaderSubmit, TypeOK
    <3>5. UNCHANGED <<main, tries, result, parser, dbg, draining, queues,
                     buf_data_q, data_reader_q, data_parser_q, pool, ev, cb, write,
                     device, sent, parsed, wait_left>>
      BY <1>2 DEF ReaderSubmit
    <3> QED
      BY <3>1, <3>2, <3>3, <3>4, <3>5 DEF TypeOK
  <2>2. Submitted' /\ Threads' /\ Stopping'
    BY <1>2 DEF ReaderSubmit, Submitted, Threads, Stopping, Holds, LockFree, Writing,
       Capturing, Starting
  <2>3. BufferAccounting' /\ Delivered' + InTransfer({"data", "timeout_data"})' <= sent'
    BY <1>2, <1>0 DEF ReaderSubmit, BufferAccounting, Delivered, InTransfer, InParser,
       WithTransfer
  <2> QED  BY <2>1, <2>2, <2>3
<1>3. ASSUME ReaderCheck PROVE IInv'
  <2>1. TypeOK'
    BY <1>3 DEF ReaderCheck, TypeOK
  <2>2. Submitted' /\ Threads' /\ Stopping'
    BY <1>3 DEF ReaderCheck, Submitted, Threads, Stopping, Holds, LockFree, Writing,
       Capturing, Starting
  <2>3. BufferAccounting' /\ Delivered' + InTransfer({"data", "timeout_data"})' <= sent'
    BY <1>3, <1>0 DEF ReaderCheck, BufferAccounting, Delivered, InTransfer, InParser,
       WithTransfer
  <2> QED  BY <2>1, <2>2, <2>3
<1>4. ASSUME ReaderMark PROVE IInv'
  <2>1. TypeOK'
    BY <1>4 DEF ReaderMark, TypeOK
  <2>2. Submitted' /\ Threads' /\ Stopping'
    BY <1>4 DEF ReaderMark, Submitted, Threads, Stopping, Holds, LockFree, Writing,
       Capturing, Starting
  <2>3. BufferAccounting' /\ Delivered' + InTransfer({"data", "timeout_data"})' <= sent'
    <3>1. \A kinds : Count(buf_data_q', kinds) =
                       Count(buf_data_q, kinds) + (IF "end" \in kinds THEN 1 ELSE 0)
      BY <1>4, CountAppend DEF ReaderMark, TypeOK, Buffers
    <3>2. \A kinds : "end" \notin kinds => Count(buf_data_q', kinds) = Count(buf_data_q, kinds)
      BY <1>0, <3>1
    <3>3. /\ Count(buf_data_q', {"data", "stop"}) = Count(buf_data_q, {"data", "stop"})
          /\ Count(buf_data_q', {"data"}) = Count(buf_data_q, {"data"})
      BY <3>2
    <3> QED
      BY <1>4, <1>0, <3>3 DEF ReaderMark, BufferAccounting, Delivered, InTransfer,
         InParser, WithTransfer
  <2> QED  BY <2>1, <2>2, <2>3
<1>5. ASSUME ReaderCancel PROVE IInv'
  <2>1. TypeOK'
    BY <1>5 DEF ReaderCancel, TypeOK
  <2>2. Submitted' /\ Threads' /\ Stopping'
    BY <1>5 DEF ReaderCancel, Submitted, Threads, Stopping, Holds, LockFree, Writing,
       Capturing, Starting
  <2>3. BufferAccounting' /\ Delivered' + InTransfer({"data", "timeout_data"})' <= sent'
    BY <1>5, <1>0 DEF ReaderCancel, BufferAccounting, Delivered, InTransfer, InParser,
       WithTransfer
  <2> QED  BY <2>1, <2>2, <2>3
<1>6. ASSUME ReaderToken PROVE IInv'
  <2>1. TypeOK'
    <3>1. data_reader_q' \in 0 .. 1
      BY <1>6, <1>0 DEF ReaderToken, Threads
    <3>2. reader' \in {"none", "enter", "submit", "handle", "check", "mark", "mark_failed",
                       "cancel", "token", "ended"}
      BY <1>6, <1>0 DEF ReaderToken
    <3>3. UNCHANGED <<main, tries, result, parser, dbg, capture_finish, draining,
                     queues, buf_data_q, data_parser_q, pool, ev, cb, transfer,
                     write, device, sent, parsed, xfer_left, wait_left>>
      BY <1>6 DEF ReaderToken
    <3> QED
      BY <3>1, <3>2, <3>3 DEF TypeOK
  <2>2. Submitted' /\ Threads' /\ Stopping'
    BY <1>6 DEF ReaderToken, Submitted, Threads, Stopping, Holds, LockFree, Writing,
       Capturing, Starting
  <2>3. BufferAccounting' /\ Delivered' + InTransfer({"data", "timeout_data"})' <= sent'
    BY <1>6, <1>0 DEF ReaderToken, BufferAccounting, Delivered, InTransfer, InParser,
       WithTransfer
  <2> QED  BY <2>1, <2>2, <2>3
<1> QED
  BY <1>1, <1>2, <1>3, <1>4, <1>5, <1>6

(* The steps of the parser.                                                *)
LEMMA ParserIInv ==
  ASSUME IInv,
         ParserTake \/ ParserProcess \/ ParserFinish \/ ParserToken
  PROVE  IInv'
<1> USE SessionAssumption DEF IInv, parserFrame, apiVars, queueVars, usbVars, devVars
<1>0. /\ \A kinds : Count(buf_data_q, kinds) \in Nat
      /\ pool \in Nat /\ parsed \in Nat /\ sent \in Nat
  BY PlacesFinite DEF TypeOK, Buffers
<1>1. ASSUME ParserTake PROVE IInv'
  <2>1. TypeOK'
    BY <1>1 DEF ParserTake, TypeOK
  <2>2. Submitted' /\ Threads' /\ Stopping'
    BY <1>1 DEF ParserTake, Submitted, Threads, Stopping, Holds, LockFree, Writing,
       Capturing, Starting
  <2>3. BufferAccounting' /\ Delivered' + InTransfer({"data", "timeout_data"})' <= sent'
    <3>1. \A kinds : Count(buf_data_q, kinds) =
                       Count(buf_data_q', kinds) + (IF parser' \in kinds THEN 1 ELSE 0)
      BY <1>1, CountTail DEF ParserTake, TypeOK, Buffers
    <3>2. \A kinds : Count(buf_data_q', kinds) \in Nat
      BY <2>1, PlacesFinite DEF TypeOK, Buffers
    <3>3. /\ Count(buf_data_q, {"data", "stop"}) =
               Count(buf_data_q', {"data", "stop"}) + InParser({"data", "stop"})'
          /\ Count(buf_data_q, {"data"}) = Count(buf_data_q', {"data"}) + InParser({"data"})'
      BY <3>1 DEF InParser
    <3>4. /\ UNCHANGED <<pool, reader, cb, parsed, sent, transfer>>
          /\ parser = "wait" /\ InParser({"data", "stop"}) = 0 /\ InParser({"data"}) = 0
      BY <1>1 DEF ParserTake, InParser
    <3>5. BufferAccounting'
      BY <1>0, <3>2, <3>3, <3>4 DEF BufferAccounting, WithTransfer, InParser
    <3>6. Delivered' + InTransfer({"data", "timeout_data"})' <= sent'
      BY <1>0, <3>2, <3>3, <3>4 DEF Delivered, InTransfer, InParser
    <3> QED  BY <3>5, <3>6
  <2> QED  BY <2>1, <2>2, <2>3
<1>2. ASSUME ParserProcess PROVE IInv'
  <2>1. TypeOK'
    <3>1. parser' \in {"none", "wait", "data", "stop", "end", "finish", "token", "ended"}
      BY <1>2, <1>0 DEF ParserProcess
    <3>2. parsed' \in 0 .. MaxData
      BY <1>2, <1>0 DEF ParserProcess, TypeOK, Delivered, InParser, InTransfer,
         WithTransfer
    <3>3. pool' \in 0 .. PoolCount
      BY <1>2, <1>0 DEF ParserProcess, BufferAccounting
    <3>4. UNCHANGED <<main, tries, result, reader, dbg, capture_finish, draining,
                     queues, buf_data_q, data_reader_q, data_parser_q, ev, cb,
                     transfer, write, device, sent, xfer_left, wait_left>>
      BY <1>2 DEF ParserProcess
    <3> QED
      BY <3>1, <3>2, <3>3, <3>4 DEF TypeOK
  <2>2. Submitted' /\ Threads' /\ Stopping'
    BY <1>2 DEF ParserProcess, Submitted, Threads, Stopping, Holds, LockFree, Writing,
       Capturing, Starting
  <2>3. BufferAccounting' /\ Delivered' + InTransfer({"data", "timeout_data"})' <= sent'
    BY <1>2, <1>0 DEF ParserProcess, BufferAccounting, Delivered, InTransfer, InParser,
       WithTransfer
  <2> QED  BY <2>1, <2>2, <2>3
<1>3. ASSUME ParserFinish PROVE IInv'
  <2>1. TypeOK'
    BY <1>3 DEF ParserFinish, TypeOK
  <2>2. Submitted' /\ Threads' /\ Stopping'
    BY <1>3 DEF ParserFinish, Submitted, Threads, Stopping, Holds, LockFree, Writing,
       Capturing, Starting
  <2>3. BufferAccounting' /\ Delivered' + InTransfer({"data", "timeout_data"})' <= sent'
    BY <1>3, <1>0 DEF ParserFinish, BufferAccounting, Delivered, InTransfer, InParser,
       WithTransfer
  <2> QED  BY <2>1, <2>2, <2>3
<1>4. ASSUME ParserToken PROVE IInv'
  <2>1. TypeOK'
    <3>1. data_parser_q' \in 0 .. 1
      BY <1>4, <1>0 DEF ParserToken, Threads
    <3>2. parser' \in {"none", "wait", "data", "stop", "end", "finish", "token", "ended"}
      BY <1>4, <1>0 DEF ParserToken
    <3>3. UNCHANGED <<main, tries, result, reader, dbg, capture_finish, draining,
                     queues, buf_data_q, data_reader_q, pool, ev, cb, transfer,
                     write, device, sent, parsed, xfer_left, wait_left>>
      BY <1>4 DEF ParserToken
    <3> QED
      BY <3>1, <3>2, <3>3 DEF TypeOK
  <2>2. Submitted' /\ Threads' /\ Stopping'
    BY <1>4 DEF ParserToken, Submitted, Threads, Stopping, Holds, LockFree, Writing,
       Capturing, Starting
  <2>3. BufferAccounting' /\ Delivered' + InTransfer({"data", "timeout_data"})' <= sent'
    BY <1>4, <1>0 DEF ParserToken, BufferAccounting, Delivered, InTransfer, InParser,
       WithTransfer
  <2> QED  BY <2>1, <2>2, <2>3
<1> QED
  BY <1>1, <1>2, <1>3, <1>4

(* The steps of the API thread and of the debug thread.                    *)
LEMMA ApiIInv ==
  ASSUME IInv,
         StartCapture \/ CreateThread \/ CreateDbg \/ WriteSubmit \/
         WriteReturn \/ Close \/ StopCapture \/ AwaitReader \/
         LeaveReader \/ AwaitParser \/ LeaveParser \/ DbgEnds \/
         JoinDbg \/ DeleteQueue \/ Interrupt \/ CloseUsb
  PROVE  IInv'
<1> USE SessionAssumption DEF IInv, mainFrame, apiVars, queueVars, usbVars, devVars
<1>0. /\ \A kinds : Count(buf_data_q, kinds) \in Nat
      /\ pool \in Nat /\ parsed \in Nat /\ sent \in Nat
  BY PlacesFinite DEF TypeOK, Buffers
<1>1. ASSUME StartCapture PROVE IInv'
  <2>1. TypeOK'
    <3>1. queues' \subseteq Queues
      BY <1>1, <1>0 DEF StartCapture
    <3>2. capture_finish' \in BOOLEAN
      BY <1>1, <1>0 DEF StartCapture
    <3>3. main' \in Writing \cup {"idle", "create_reader", "create_parser", "create_dbg",
                                  "run", "close", "wait_reader", "join_reader", "leave_reader",
                                  "wait_parser", "join_parser", "leave_parser", "join_dbg",
                                  "delete", "close_usb", "closed", "crashed"}
      BY <1>1, <1>0 DEF StartCapture
    <3>4. UNCHANGED <<tries, result, reader, parser, dbg, draining, buf_data_q,
                     data_reader_q, data_parser_q, pool, ev, cb, transfer, write,
                     device, sent, parsed, xfer_left, wait_left>>
      BY <1>1 DEF StartCapture
    <3> QED
      BY <3>1, <3>2, <3>3, <3>4 DEF TypeOK
  <2>2. Submitted' /\ Threads' /\ Stopping'
    BY <1>1 DEF StartCapture, Submitted, Threads, Stopping, Holds, LockFree, Writing,
       Capturing, Starting
  <2>3. BufferAccounting' /\ Delivered' + InTransfer({"data", "timeout_data"})' <= sent'
    BY <1>1, <1>0 DEF StartCapture, BufferAccounting, Delivered, InTransfer, InParser,
       WithTransfer
  <2> QED  BY <2>1, <2>2, <2>3
<1>2. ASSUME CreateThread PROVE IInv'
  <2>1. TypeOK'
    BY <1>2 DEF CreateThread, TypeOK
  <2>2. Submitted' /\ Threads' /\ Stopping'
    BY <1>2 DEF CreateThread, Submitted, Threads, Stopping, Holds, LockFree, Writing,
       Capturing, Starting
  <2>3. BufferAccounting' /\ Delivered' + InTransfer({"data", "timeout_data"})' <= sent'
    BY <1>2, <1>0 DEF CreateThread, Threads, BufferAccounting, Delivered, InTransfer,
       InParser, WithTransfer
  <2> QED  BY <2>1, <2>2, <2>3
<1>3. ASSUME CreateDbg PROVE IInv'
  <2>1. TypeOK'
    <3>1. dbg' \in {"none", "run", "finish", "ended"}
      BY <1>3, <1>0 DEF CreateDbg, TypeOK
    <3>2. draining' \in BOOLEAN
      BY <1>3, <1>0 DEF CreateDbg
    <3>3. main' \in Writing \cup {"idle", "create_reader", "create_parser", "create_dbg",
                                  "run", "close", "wait_reader", "join_reader", "leave_reader",
                                  "wait_parser", "join_parser", "leave_parser", "join_dbg",
                                  "delete", "close_usb", "closed", "crashed"}
      BY <1>3, <1>0 DEF CreateDbg, Writing
    <3>4. UNCHANGED <<tries, result, reader, parser, capture_finish, queues,
                     buf_data_q, data_reader_q, data_parser_q, pool, ev, cb,
                     transfer, write, device, sent, parsed, xfer_left, wait_left>>
      BY <1>3 DEF CreateDbg
    <3> QED
      BY <3>1, <3>2, <3>3, <3>4 DEF TypeOK
  <2>2. Submitted' /\ Threads' /\ Stopping'
    BY <1>3 DEF CreateDbg, Submitted, Threads, Stopping, Holds, LockFree, Writing,
       Capturing, Starting
  <2>3. BufferAccounting' /\ Delivered' + InTransfer({"data", "timeout_data"})' <= sent'
    BY <1>3, <1>0 DEF CreateDbg, BufferAccounting, Delivered, InTransfer, InParser,
       WithTransfer
  <2> QED  BY <2>1, <2>2, <2>3
<1>4. ASSUME WriteSubmit PROVE IInv'
  <2>1. TypeOK'
    BY <1>4 DEF WriteSubmit, TypeOK
  <2>2. Submitted' /\ Threads' /\ Stopping'
    BY <1>4 DEF WriteSubmit, Submitted, Threads, Stopping, Holds, LockFree, Writing,
       Capturing, Starting
  <2>3. BufferAccounting' /\ Delivered' + InTransfer({"data", "timeout_data"})' <= sent'
    BY <1>4, <1>0 DEF WriteSubmit, BufferAccounting, Delivered, InTransfer, InParser,
       WithTransfer
  <2> QED  BY <2>1, <2>2, <2>3
<1>5. ASSUME WriteReturn PROVE IInv'
  <2>1. TypeOK'
    <3>1. write' \in {"idle", "sent", "done", "failed", "ok", "bad"}
      BY <1>5, <1>0 DEF WriteReturn
    <3>2. main' \in Writing \cup {"idle", "create_reader", "create_parser", "create_dbg",
                                  "run", "close", "wait_reader", "join_reader", "leave_reader",
                                  "wait_parser", "join_parser", "leave_parser", "join_dbg",
                                  "delete", "close_usb", "closed", "crashed"}
      BY <1>5, <1>0 DEF WriteReturn, AfterWrite
    <3>3. wait_left' \in 0 .. StopTimeout
      BY <1>5, <1>0 DEF WriteReturn, TypeOK
    <3>4. result' \in {"Success", "WriteConfig", "Thread"}
      BY <1>5, <1>0 DEF WriteReturn, TypeOK
    <3>5. UNCHANGED <<tries, reader, parser, dbg, capture_finish, draining, queues,
                     buf_data_q, data_reader_q, data_parser_q, pool, ev, cb,
                     transfer, device, sent, parsed, xfer_left>>
      BY <1>5 DEF WriteReturn
    <3> QED
      BY <3>1, <3>2, <3>3, <3>4, <3>5 DEF TypeOK
  <2>2. Submitted' /\ Threads' /\ Stopping'
    BY <1>5 DEF WriteReturn, TypeOK, Submitted, Threads, Stopping, Events, Holds,
       LockFree, Writing, Capturing, Starting, AfterWrite, Retries
  <2>3. BufferAccounting' /\ Delivered' + InTransfer({"data", "timeout_data"})' <= sent'
    BY <1>5, <1>0 DEF WriteReturn, BufferAccounting, Delivered, InTransfer, InParser,
       WithTransfer
  <2> QED  BY <2>1, <2>2, <2>3
<1>6. ASSUME Close PROVE IInv'
  <2>1. TypeOK'
    BY <1>6 DEF Close, TypeOK
  <2>2. Submitted' /\ Threads' /\ Stopping'
    BY <1>6 DEF Close, Submitted, Threads, Stopping, Holds, LockFree, Writing,
       Capturing, Starting
  <2>3. BufferAccounting' /\ Delivered' + InTransfer({"data", "timeout_data"})' <= sent'
    BY <1>6, <1>0 DEF Close, BufferAccounting, Delivered, InTransfer, InParser,
       WithTransfer
  <2> QED  BY <2>1, <2>2, <2>3
<1>7. ASSUME StopCapture PROVE IInv'
  <2>1. TypeOK'
    <3>1. main' \in Writing \cup {"idle", "create_reader", "create_parser", "create_dbg",
                                  "run", "close", "wait_reader", "join_reader", "leave_reader",
                                  "wait_parser", "join_parser", "leave_parser", "join_dbg",
                                  "delete", "close_usb", "closed", "crashed"}
      BY <1>7, <1>0 DEF StopCapture, Writing
    <3>2. result' \in {"Success", "WriteConfig", "Thread"}
      BY <1>7, <1>0 DEF StopCapture, TypeOK
    <3>3. draining' \in BOOLEAN
      BY <1>7, <1>0 DEF StopCapture, TypeOK
    <3>4. UNCHANGED <<tries, reader, parser, dbg, capture_finish, queues,
                     buf_data_q, data_reader_q, data_parser_q, pool, ev, cb,
                     transfer, write, device, sent, parsed, xfer_left, wait_left>>
      BY <1>7 DEF StopCapture
    <3> QED
      BY <3>1, <3>2, <3>3, <3>4 DEF TypeOK
  <2>2. Submitted' /\ Threads' /\ Stopping'
    BY <1>7 DEF StopCapture, Submitted, Threads, Stopping, Holds, LockFree, Writing,
       Capturing, Starting
  <2>3. BufferAccounting' /\ Delivered' + InTransfer({"data", "timeout_data"})' <= sent'
    BY <1>7, <1>0 DEF StopCapture, BufferAccounting, Delivered, InTransfer, InParser,
       WithTransfer
  <2> QED  BY <2>1, <2>2, <2>3
<1>8. ASSUME AwaitReader PROVE IInv'
  <2>1. TypeOK'
    <3>1. data_reader_q' \in 0 .. 1
      BY <1>8, <1>0 DEF AwaitReader, TypeOK
    <3>2. capture_finish' \in BOOLEAN
      BY <1>8, <1>0 DEF AwaitReader, TypeOK
    <3>3. tries' \in 0 .. Retries
      BY <1>8, <1>0 DEF AwaitReader, TypeOK, Stopping, Retries
    <3>4. main' \in Writing \cup {"idle", "create_reader", "create_parser", "create_dbg",
                                  "run", "close", "wait_reader", "join_reader", "leave_reader",
                                  "wait_parser", "join_parser", "leave_parser", "join_dbg",
                                  "delete", "close_usb", "closed", "crashed"}
      BY <1>8, <1>0 DEF AwaitReader, Writing
    <3>5. UNCHANGED <<result, reader, parser, dbg, draining, queues, buf_data_q,
                     data_parser_q, pool, ev, cb, transfer, write, device, sent,
                     parsed, xfer_left, wait_left>>
      BY <1>8 DEF AwaitReader
    <3> QED
      BY <3>1, <3>2, <3>3, <3>4, <3>5 DEF TypeOK
  <2>2. Submitted' /\ Threads' /\ Stopping'
    BY <1>8 DEF AwaitReader, Submitted, Threads, Stopping, Holds, LockFree, Writing,
       Capturing, Starting, Retries
  <2>3. BufferAccounting' /\ Delivered' + InTransfer({"data", "timeout_data"})' <= sent'
    BY <1>8, <1>0 DEF AwaitReader, BufferAccounting, Delivered, InTransfer, InParser,
       WithTransfer
  <2> QED  BY <2>1, <2>2, <2>3
<1>9. ASSUME LeaveReader PROVE IInv'
  <2>1. TypeOK'
    BY <1>9 DEF LeaveReader, TypeOK
  <2>2. Submitted' /\ Threads' /\ Stopping'
    BY <1>9 DEF LeaveReader, Submitted, Threads, Stopping, Holds, LockFree, Writing,
       Capturing, Starting
  <2>3. BufferAccounting' /\ Delivered' + InTransfer({"data", "timeout_data"})' <= sent'
    BY <1>9, <1>0 DEF LeaveReader, BufferAccounting, Delivered, InTransfer, InParser,
       WithTransfer
  <2> QED  BY <2>1, <2>2, <2>3
<1>10. ASSUME AwaitParser PROVE IInv'
  <2>1. TypeOK'
    BY <1>10 DEF AwaitParser, TypeOK
  <2>2. Submitted' /\ Threads' /\ Stopping'
    BY <1>10 DEF AwaitParser, Submitted, Threads, Stopping, Holds, LockFree, Writing,
       Capturing, Starting
  <2>3. BufferAccounting' /\ Delivered' + InTransfer({"data", "timeout_data"})' <= sent'
    BY <1>10, <1>0 DEF AwaitParser, BufferAccounting, Delivered, InTransfer, InParser,
       WithTransfer
  <2> QED  BY <2>1, <2>2, <2>3
<1>11. ASSUME LeaveParser PROVE IInv'
  <2>1. TypeOK'
    BY <1>11 DEF LeaveParser, TypeOK
  <2>2. Submitted' /\ Threads' /\ Stopping'
    BY <1>11 DEF LeaveParser, Submitted, Threads, Stopping, Holds, LockFree, Writing,
       Capturing, Starting
  <2>3. BufferAccounting' /\ Delivered' + InTransfer({"data", "timeout_data"})' <= sent'
    BY <1>11, <1>0 DEF LeaveParser, BufferAccounting, Delivered, InTransfer, InParser,
       WithTransfer
  <2> QED  BY <2>1, <2>2, <2>3
<1>12. ASSUME DbgEnds PROVE IInv'
  <2>1. TypeOK'
    BY <1>12 DEF DbgEnds, TypeOK
  <2>2. Submitted' /\ Threads' /\ Stopping'
    BY <1>12 DEF DbgEnds, Submitted, Threads, Stopping, Holds, LockFree, Writing,
       Capturing, Starting
  <2>3. BufferAccounting' /\ Delivered' + InTransfer({"data", "timeout_data"})' <= sent'
    BY <1>12, <1>0 DEF DbgEnds, BufferAccounting, Delivered, InTransfer, InParser,
       WithTransfer
  <2> QED  BY <2>1, <2>2, <2>3
<1>13. ASSUME JoinDbg PROVE IInv'
  <2>1. TypeOK'
    BY <1>13 DEF JoinDbg, TypeOK
  <2>2. Submitted' /\ Threads' /\ Stopping'
    BY <1>13 DEF JoinDbg, Submitted, Threads, Stopping, Holds, LockFree, Writing,
       Capturing, Starting
  <2>3. BufferAccounting' /\ Delivered' + InTransfer({"data", "timeout_data"})' <= sent'
    BY <1>13, <1>0 DEF JoinDbg, BufferAccounting, Delivered, InTransfer, InParser,
       WithTransfer
  <2> QED  BY <2>1, <2>2, <2>3
<1>14. ASSUME DeleteQueue PROVE IInv'
  <2>1. TypeOK'
    BY <1>14 DEF DeleteQueue, TypeOK
  <2>2. Submitted' /\ Threads' /\ Stopping'
    BY <1>14 DEF DeleteQueue, Submitted, Threads, Stopping, Holds, LockFree, Writing,
       Capturing, Starting
  <2>3. BufferAccounting' /\ Delivered' + InTransfer({"data", "timeout_data"})' <= sent'
    BY <1>14, <1>0 DEF DeleteQueue, BufferAccounting, Delivered, InTransfer, InParser,
       WithTransfer
  <2> QED  BY <2>1, <2>2, <2>3
<1>15. ASSUME Interrupt PROVE IInv'
  <2>1. TypeOK'
    BY <1>15 DEF Interrupt, TypeOK, Events
  <2>2. Submitted' /\ Threads' /\ Stopping'
    BY <1>15 DEF Interrupt, Submitted, Threads, Stopping, Holds, LockFree, Writing,
       Capturing, Starting
  <2>3. BufferAccounting' /\ Delivered' + InTransfer({"data", "timeout_data"})' <= sent'
    BY <1>15, <1>0 DEF Interrupt, BufferAccounting, Delivered, InTransfer, InParser,
       WithTransfer
  <2> QED  BY <2>1, <2>2, <2>3
<1>16. ASSUME CloseUsb PROVE IInv'
  <2>1. TypeOK'
    BY <1>16 DEF CloseUsb, TypeOK
  <2>2. Submitted' /\ Threads' /\ Stopping'
    BY <1>16 DEF CloseUsb, Submitted, Threads, Stopping, Events, Holds, LockFree,
       Writing, Capturing, Starting
  <2>3. BufferAccounting' /\ Delivered' + InTransfer({"data", "timeout_data"})' <= sent'
    BY <1>16, <1>0 DEF CloseUsb, BufferAccounting, Delivered, InTransfer, InParser,
       WithTransfer
  <2> QED  BY <2>1, <2>2, <2>3
<1> QED
  BY <1>1, <1>2, <1>3, <1>4, <1>5, <1>6, <1>7, <1>8, <1>9, <1>10, <1>11, <1>12, <1>13,
     <1>14, <1>15, <1>16

(* The steps of the analyser and of the kernel, and time.                  *)
LEMMA DeviceIInv ==
  ASSUME IInv,
         DeviceCommand \/ DeviceData \/ DeviceEmpty \/ DeviceStop \/
         DeviceGone \/ TransferTimesOut \/ Tick
  PROVE  IInv'
<1> USE SessionAssumption DEF IInv, usbFrame, apiVars, queueVars, devVars
<1>0. /\ \A kinds : Count(buf_data_q, kinds) \in Nat
      /\ pool \in Nat /\ parsed \in Nat /\ sent \in Nat
  BY PlacesFinite DEF TypeOK, Buffers
<1>1. ASSUME DeviceCommand PROVE IInv'
  <2>1. TypeOK'
    BY <1>1 DEF DeviceCommand, TypeOK
  <2>2. Submitted' /\ Threads' /\ Stopping'
    BY <1>1 DEF DeviceCommand, Submitted, Threads, Stopping, Holds, LockFree, Writing,
       Capturing, Starting
  <2>3. BufferAccounting' /\ Delivered' + InTransfer({"data", "timeout_data"})' <= sent'
    BY <1>1, <1>0 DEF DeviceCommand, BufferAccounting, Delivered, InTransfer, InParser,
       WithTransfer
  <2> QED  BY <2>1, <2>2, <2>3
<1>2. ASSUME DeviceData PROVE IInv'
  <2>1. TypeOK'
    <3>1. transfer' \in {"none", "idle", "flight", "data", "stop", "timeout", "timeout_data",
                         "empty", "cancelled", "error"}
      BY <1>2, <1>0 DEF DeviceData
    <3>2. sent' \in 0 .. MaxData
      BY <1>2, <1>0 DEF DeviceData, Sends
    <3>3. UNCHANGED <<main, tries, result, reader, parser, dbg, capture_finish,
                     draining, queues, buf_data_q, data_reader_q, data_parser_q,
                     pool, ev, cb, write, device, parsed, xfer_left, wait_left>>
      BY <1>2 DEF DeviceData
    <3> QED
      BY <3>1, <3>2, <3>3 DEF TypeOK
  <2>2. Submitted' /\ Threads' /\ Stopping'
    BY <1>2 DEF DeviceData, Submitted, Threads, Stopping, Holds, LockFree, Writing,
       Capturing, Starting
  <2>3. BufferAccounting' /\ Delivered' + InTransfer({"data", "timeout_data"})' <= sent'
    BY <1>2, <1>0 DEF DeviceData, BufferAccounting, Delivered, InTransfer, InParser,
       WithTransfer
  <2> QED  BY <2>1, <2>2, <2>3
<1>3. ASSUME DeviceEmpty PROVE IInv'
  <2>1. TypeOK'
    BY <1>3 DEF DeviceEmpty, TypeOK
  <2>2. Submitted' /\ Threads' /\ Stopping'
    BY <1>3 DEF DeviceEmpty, Submitted, Threads, Stopping, Holds, LockFree, Writing,
       Capturing, Starting
  <2>3. BufferAccounting' /\ Delivered' + InTransfer({"data", "timeout_data"})' <= sent'
    BY <1>3, <1>0 DEF DeviceEmpty, BufferAccounting, Delivered, InTransfer, InParser,
       WithTransfer
  <2> QED  BY <2>1, <2>2, <2>3
<1>4. ASSUME DeviceStop PROVE IInv'
  <2>1. TypeOK'
    BY <1>4 DEF DeviceStop, TypeOK
  <2>2. Submitted' /\ Threads' /\ Stopping'
    BY <1>4 DEF DeviceStop, Submitted, Threads, Stopping, Holds, LockFree, Writing,
       Capturing, Starting
  <2>3. BufferAccounting' /\ Delivered' + InTransfer({"data", "timeout_data"})' <= sent'
    BY <1>4, <1>0 DEF DeviceStop, BufferAccounting, Delivered, InTransfer, InParser,
       WithTransfer
  <2> QED  BY <2>1, <2>2, <2>3
<1>5. ASSUME DeviceGone PROVE IInv'
  <2>1. TypeOK'
    BY <1>5 DEF DeviceGone, TypeOK
  <2>2. Submitted' /\ Threads' /\ Stopping'
    BY <1>5 DEF DeviceGone, Submitted, Threads, Stopping, Holds, LockFree, Writing,
       Capturing, Starting
  <2>3. BufferAccounting' /\ Delivered' + InTransfer({"data", "timeout_data"})' <= sent'
    BY <1>5, <1>0 DEF DeviceGone, BufferAccounting, Delivered, InTransfer, InParser,
       WithTransfer
  <2> QED  BY <2>1, <2>2, <2>3
<1>6. ASSUME TransferTimesOut PROVE IInv'
  <2>1. TypeOK'
    <3>1. transfer' \in {"none", "idle", "flight", "data", "stop", "timeout", "timeout_data",
                         "empty", "cancelled", "error"}
      BY <1>6, <1>0 DEF TransferTimesOut
    <3>2. sent' \in 0 .. MaxData
      BY <1>6, <1>0 DEF TransferTimesOut, TypeOK, Sends
    <3>3. UNCHANGED <<main, tries, result, reader, parser, dbg, capture_finish,
                     draining, queues, buf_data_q, data_reader_q, data_parser_q,
                     pool, ev, cb, write, device, parsed, xfer_left, wait_left>>
      BY <1>6 DEF TransferTimesOut
    <3> QED
      BY <3>1, <3>2, <3>3 DEF TypeOK
  <2>2. Submitted' /\ Threads' /\ Stopping'
    BY <1>6 DEF TransferTimesOut, Submitted, Threads, Stopping, Holds, LockFree,
       Writing, Capturing, Starting
  <2>3. BufferAccounting' /\ Delivered' + InTransfer({"data", "timeout_data"})' <= sent'
    BY <1>6, <1>0 DEF TransferTimesOut, BufferAccounting, Delivered, InTransfer,
       InParser, WithTransfer
  <2> QED  BY <2>1, <2>2, <2>3
<1>7. ASSUME Tick PROVE IInv'
  <2>1. TypeOK'
    BY <1>7 DEF Tick, TypeOK
  <2>2. Submitted' /\ Threads' /\ Stopping'
    BY <1>7 DEF Tick, Submitted, Threads, Stopping, Holds, LockFree, Writing, Capturing,
       Starting, Quiescent
  <2>3. BufferAccounting' /\ Delivered' + InTransfer({"data", "timeout_data"})' <= sent'
    BY <1>7, <1>0 DEF Tick, BufferAccounting, Delivered, InTransfer, InParser,
       WithTransfer
  <2> QED  BY <2>1, <2>2, <2>3
<1> QED
  BY <1>1, <1>2, <1>3, <1>4, <1>5, <1>6, <1>7

LEMMA NextIInv == IInv /\ [Next]_vars => IInv'
<1> SUFFICES ASSUME IInv, [Next]_vars PROVE IInv'
  OBVIOUS
<1>1. CASE UNCHANGED vars
  <2> USE <1>1 DEF IInv, vars, apiVars, queueVars, usbVars, devVars, readerFrame, parserFrame,
                   mainFrame, usbFrame
  <2>1. TypeOK'
    BY DEF TypeOK
  <2>2. Submitted' /\ Threads' /\ Stopping'
    BY DEF Submitted, Threads, Stopping, Holds, LockFree
  <2>3. BufferAccounting' /\ Delivered' + InTransfer({"data", "timeout_data"})' <= sent'
    BY DEF BufferAccounting, WithTransfer, Delivered, InTransfer, InParser
  <2> QED  BY <2>1, <2>2, <2>3
<1>2. CASE Next
  <2>1. CASE Libusb
    <3>1. "R" \in Events
      BY DEF Events
    <3>2. PICK t \in Events :
            \/ EnterEvents(t) \/ LeaveEvents(t) \/ ReapWrite(t) \/ ReapData(t)
            \/ ReapTimeout(t) \/ ReapEmpty(t) \/ ReapEnd(t) \/ CallbackGet
            \/ CallbackSubmit
      BY <2>1, <3>1 DEF Libusb
    <3> QED  BY <3>2, LibusbIInv
  <2>2. CASE Reader
    BY <2>2, ReaderIInv DEF Reader
  <2>3. CASE Parser
    BY <2>3, ParserIInv DEF Parser
  <2>4. CASE Api \/ Close \/ DbgEnds
    BY <2>4, ApiIInv DEF Api
  <2>5. CASE \/ DeviceCommand \/ DeviceData \/ DeviceEmpty \/ DeviceStop \/ DeviceGone
             \/ TransferTimesOut \/ Tick
    BY <2>5, DeviceIInv
  <2> QED  BY <1>2, <2>1, <2>2, <2>3, <2>4, <2>5 DEF Next
<1> QED  BY <1>1, <1>2

LEMMA InductiveInvariant == Spec => []IInv
BY InitIInv, NextIInv, PTL DEF Spec

(* Every variable of the session keeps to its type, with every fault: the  *)
(* token queues hold one token at most, and the pool never more than it    *)
(* has.                                                                    *)
THEOREM TypeCorrect == Spec => []TypeOK
BY InductiveInvariant, PTL DEF IInv

(* No buffer is lost and none is given back twice, with every fault.       *)
THEOREM NoBufferLost == Spec => []BufferAccounting
BY InductiveInvariant, PTL DEF IInv

(* No step clears capture_finish once the stop of the capture has seen it  *)
(* set, with every fault: by then the reader is past its own               *)
(* capture_finish = 0.                                                     *)
THEOREM FinishStays == Spec => FinishSticks
<1>1. IInv /\ [Next]_vars => [draining /\ capture_finish => capture_finish']_vars
  <2> SUFFICES ASSUME IInv, Next, draining, capture_finish PROVE capture_finish'
    BY DEF vars
  <2> USE DEF IInv, TypeOK, apiVars, queueVars, usbVars, devVars, readerFrame, parserFrame,
              mainFrame, usbFrame
  <2>1. ~StartCapture /\ ~ReaderInit
    BY DEF StartCapture, ReaderInit, Stopping, Capturing, Starting
  <2>2. CASE Libusb
    BY <2>2 DEF Libusb, EnterEvents, LeaveEvents, ReapWrite, ReapData, ReapTimeout,
       ReapEmpty, ReapEnd, CallbackGet, CallbackSubmit
  <2>3. CASE Reader
    BY <2>1, <2>3 DEF Reader, ReaderSubmit, ReaderCheck, ReaderMark, ReaderCancel,
       ReaderToken
  <2>4. CASE Parser
    BY <2>4 DEF Parser, ParserTake, ParserProcess, ParserFinish, ParserToken
  <2>5. CASE Api
    BY <2>1, <2>5 DEF Api, CreateThread, CreateDbg, WriteSubmit, WriteReturn,
       StopCapture, AwaitReader, LeaveReader, AwaitParser, LeaveParser, JoinDbg,
       DeleteQueue, Interrupt, CloseUsb
  <2>6. CASE Close \/ DbgEnds \/ DeviceCommand \/ DeviceData \/ DeviceEmpty \/ DeviceStop
             \/ DeviceGone \/ TransferTimesOut \/ Tick
    BY <2>6 DEF Close, DbgEnds, DeviceCommand, DeviceData, DeviceEmpty, DeviceStop,
       DeviceGone, TransferTimesOut, Tick
  <2> QED  BY <2>2, <2>3, <2>4, <2>5, <2>6 DEF Next
<1> QED  BY <1>1, InductiveInvariant, PTL DEF FinishSticks, Spec

-----------------------------------------------------------------------------
\* The STOP word has been sent, and is not parsed yet.
StopOnItsWay ==
    \/ transfer = "stop" \/ parser = "stop"
    \/ \E k \in 1 .. Len(buf_data_q) : buf_data_q[k] = "stop"

OnlyEnds == \A k \in 1 .. Len(buf_data_q) : buf_data_q[k] = "end"

\* STOP is sent once, and is the last of the data.
StopIsLast ==
    /\ \A k, l \in 1 .. Len(buf_data_q) :
         buf_data_q[k] = "stop" /\ k < l => buf_data_q[l] = "end"
    /\ parser = "stop" => OnlyEnds
    /\ transfer = "stop" =>
         parser # "stop" /\ \A k \in 1 .. Len(buf_data_q) : buf_data_q[k] # "stop"
    /\ StopOnItsWay => device \in {"idle", "gone"} /\ transfer # "data"
    /\ StopOnItsWay \/ device = "stopping" => main \notin Capturing

\* What the analyser sent has been parsed, or is on its way to the parser.
Kept == Delivered + InTransfer({"data"}) = sent

\* libusb_close may forget data that no one has reaped; then there is no STOP.
Forgotten ==
    /\ main = "closed" /\ transfer = "none" /\ cb = "none" /\ ~StopOnItsWay
    /\ reader \notin {"none", "enter", "submit"}

LInv == StopIsLast /\ transfer # "timeout_data" /\ (Kept \/ Forgotten)

\* What a step of the queue does to its elements.
LEMMA QueueSteps ==
  ASSUME TypeOK
  PROVE  /\ Len(buf_data_q) \in Nat /\ (buf_data_q # <<>> => Len(buf_data_q) > 0)
         /\ \A b \in Buffers : buf_data_q' = Append(buf_data_q, b) =>
              /\ Len(buf_data_q') = Len(buf_data_q) + 1 /\ buf_data_q' # <<>>
              /\ \A k \in 1 .. Len(buf_data_q) : buf_data_q'[k] = buf_data_q[k]
              /\ buf_data_q'[Len(buf_data_q) + 1] = b
         /\ buf_data_q # <<>> /\ buf_data_q' = Tail(buf_data_q) =>
              /\ Len(buf_data_q') = Len(buf_data_q) - 1
              /\ \A k \in 1 .. Len(buf_data_q') : buf_data_q'[k] = buf_data_q[k + 1]
              /\ Head(buf_data_q) = buf_data_q[1]
<1>1. buf_data_q \in Seq(Buffers)
  BY DEF TypeOK, Buffers
<1>2. Len(buf_data_q) \in Nat /\ (buf_data_q # <<>> => Len(buf_data_q) > 0)
  BY <1>1
<1>3. ASSUME NEW b \in Buffers, buf_data_q' = Append(buf_data_q, b)
      PROVE  /\ Len(buf_data_q') = Len(buf_data_q) + 1 /\ buf_data_q' # <<>>
             /\ \A k \in 1 .. Len(buf_data_q) : buf_data_q'[k] = buf_data_q[k]
             /\ buf_data_q'[Len(buf_data_q) + 1] = b
  BY <1>1, <1>3
<1>4. ASSUME buf_data_q # <<>>, buf_data_q' = Tail(buf_data_q)
      PROVE  /\ Len(buf_data_q') = Len(buf_data_q) - 1
             /\ \A k \in 1 .. Len(buf_data_q') : buf_data_q'[k] = buf_data_q[k + 1]
             /\ Head(buf_data_q) = buf_data_q[1]
  BY <1>1, <1>4
<1> QED  BY <1>2, <1>3, <1>4

(* Every step keeps STOP the last of the data, with every fault.           *)
LEMMA NextStopIsLast ==
  ASSUME IInv, StopIsLast, [Next]_vars
  PROVE  StopIsLast'
<1> USE SessionAssumption DEF IInv, StopIsLast, StopOnItsWay, OnlyEnds, apiVars,
    queueVars, usbVars, devVars, readerFrame, parserFrame, mainFrame, usbFrame
<1>1. CASE UNCHANGED <<buf_data_q, parser, transfer, device, main>>
  BY <1>1 DEF Capturing, Starting
<1>2. ASSUME NEW t \in Events, ReapData(t) PROVE StopIsLast'
  <2>1. /\ Len(buf_data_q') = Len(buf_data_q) + 1 /\ Len(buf_data_q) \in Nat
        /\ \A k \in 1 .. Len(buf_data_q) : buf_data_q'[k] = buf_data_q[k]
        /\ buf_data_q'[Len(buf_data_q) + 1] = transfer
    BY <1>2 DEF ReapData, TypeOK
  <2> QED
    BY <1>2, <2>1 DEF ReapData
<1>3. ASSUME NEW t \in Events, ReapTimeout(t) PROVE StopIsLast'
  BY <1>3 DEF ReapTimeout
<1>4. ASSUME NEW t \in Events, ReapEmpty(t) PROVE StopIsLast'
  BY <1>4 DEF ReapEmpty
<1>5. ASSUME NEW t \in Events, ReapEnd(t) PROVE StopIsLast'
  BY <1>5 DEF ReapEnd
<1>6. ASSUME CallbackSubmit PROVE StopIsLast'
  BY <1>6 DEF CallbackSubmit
<1>7. ASSUME ReaderSubmit PROVE StopIsLast'
  BY <1>7 DEF ReaderSubmit
<1>8. ASSUME ReaderMark PROVE StopIsLast'
  <2>1. /\ Len(buf_data_q') = Len(buf_data_q) + 1 /\ Len(buf_data_q) \in Nat
        /\ \A k \in 1 .. Len(buf_data_q) : buf_data_q'[k] = buf_data_q[k]
        /\ buf_data_q'[Len(buf_data_q) + 1] = "end"
    BY <1>8 DEF ReaderMark, TypeOK
  <2> QED
    BY <1>8, <2>1 DEF ReaderMark
<1>9. ASSUME ReaderCancel PROVE StopIsLast'
  BY <1>9 DEF ReaderCancel
<1>10. ASSUME ParserTake PROVE StopIsLast'
  <2>1. /\ Len(buf_data_q') = Len(buf_data_q) - 1 /\ Len(buf_data_q) \in Nat \ {0}
        /\ \A k \in 1 .. Len(buf_data_q') : buf_data_q'[k] = buf_data_q[k + 1]
        /\ parser' = buf_data_q[1]
    BY <1>10 DEF ParserTake, TypeOK
  <2> QED
    BY <1>10, <2>1 DEF ParserTake
<1>11. ASSUME ParserProcess PROVE StopIsLast'
  BY <1>11 DEF ParserProcess
<1>12. ASSUME ParserFinish PROVE StopIsLast'
  BY <1>12 DEF ParserFinish
<1>13. ASSUME ParserToken PROVE StopIsLast'
  BY <1>13 DEF ParserToken
<1>14. ASSUME StartCapture PROVE StopIsLast'
  BY <1>14 DEF StartCapture, Capturing, Starting
<1>15. ASSUME CreateThread PROVE StopIsLast'
  BY <1>15 DEF CreateThread, Capturing, Starting
<1>16. ASSUME CreateDbg PROVE StopIsLast'
  BY <1>16 DEF CreateDbg, Capturing, Starting
<1>17. ASSUME WriteReturn PROVE StopIsLast'
  BY <1>17 DEF WriteReturn, Capturing, Starting, AfterWrite, Sends
<1>18. ASSUME Close PROVE StopIsLast'
  BY <1>18 DEF Close, Capturing
<1>19. ASSUME StopCapture PROVE StopIsLast'
  BY <1>19 DEF StopCapture, Capturing
<1>20. ASSUME AwaitReader PROVE StopIsLast'
  BY <1>20 DEF AwaitReader, Capturing, Starting
<1>21. ASSUME LeaveReader PROVE StopIsLast'
  BY <1>21 DEF LeaveReader, Capturing, Starting
<1>22. ASSUME AwaitParser PROVE StopIsLast'
  BY <1>22 DEF AwaitParser, Capturing, Starting
<1>23. ASSUME LeaveParser PROVE StopIsLast'
  BY <1>23 DEF LeaveParser, Capturing, Starting
<1>24. ASSUME JoinDbg PROVE StopIsLast'
  BY <1>24 DEF JoinDbg, Capturing, Starting
<1>25. ASSUME DeleteQueue PROVE StopIsLast'
  BY <1>25 DEF DeleteQueue, Capturing, Starting
<1>26. ASSUME CloseUsb PROVE StopIsLast'
  BY <1>26 DEF CloseUsb, Capturing, Starting
<1>27. ASSUME DeviceCommand PROVE StopIsLast'
  <2>1. main \in Writing /\ UNCHANGED <<buf_data_q, parser, transfer, main>>
    BY <1>27 DEF DeviceCommand, Submitted
  <2>2. CASE main = "write_start"
    <3>1. main \in Capturing
      BY <2>2 DEF Capturing, Starting
    <3>2. device' \in {device, "streaming"}
      BY <1>27, <2>2 DEF DeviceCommand
    <3> QED  BY <2>1, <3>1, <3>2
  <2>3. CASE main # "write_start"
    <3>1. device' \in {device, "stopping"} /\ (device' # device => device = "streaming")
      BY <1>27, <2>3 DEF DeviceCommand
    <3>2. main \notin Capturing
      BY <2>1, <2>3 DEF Writing, Capturing, Starting
    <3> QED  BY <2>1, <3>1, <3>2
  <2> QED  BY <2>2, <2>3
<1>28. ASSUME DeviceData PROVE StopIsLast'
  BY <1>28 DEF DeviceData, Sends
<1>29. ASSUME DeviceEmpty PROVE StopIsLast'
  BY <1>29 DEF DeviceEmpty
<1>30. ASSUME DeviceStop PROVE StopIsLast'
  BY <1>30 DEF DeviceStop
<1>31. ASSUME DeviceGone PROVE StopIsLast'
  BY <1>31 DEF DeviceGone
<1>32. ASSUME TransferTimesOut PROVE StopIsLast'
  BY <1>32 DEF TransferTimesOut
<1> QED
  BY <1>1, <1>2, <1>3, <1>4, <1>5, <1>6, <1>7, <1>8, <1>9, <1>10, <1>11, <1>12, <1>13,
     <1>14, <1>15, <1>16, <1>17, <1>18, <1>19, <1>20, <1>21, <1>22, <1>23, <1>24, <1>25,
     <1>26, <1>27, <1>28, <1>29, <1>30, <1>31, <1>32 DEF Next, Libusb, Reader, Parser,
     Api, vars, EnterEvents, LeaveEvents, ReapWrite, CallbackGet, ReaderInit,
     ReaderCheck, ReaderToken, WriteSubmit, DbgEnds, Interrupt, Tick

(* No data is lost on the way to the parser unless a transfer that timed   *)
(* out held some, or libusb_close forgets it.                              *)
LEMMA NextKept ==
  ASSUME "partial" \notin Faults, IInv, LInv, Kept, [Next]_vars,
         ~(CloseUsb /\ transfer = "data")
  PROVE  (transfer # "timeout_data" /\ Kept)'
<1> USE SessionAssumption DEF IInv, LInv, Kept, apiVars, queueVars, usbVars,
    devVars, readerFrame, parserFrame, mainFrame, usbFrame
<1>0. /\ \A kinds : Count(buf_data_q, kinds) \in Nat
      /\ parsed \in Nat /\ sent \in Nat
  BY PlacesFinite DEF TypeOK, Buffers
<1>1. CASE UNCHANGED <<parsed, buf_data_q, parser, transfer, sent, main, cb, reader>>
  BY <1>1 DEF Delivered, InTransfer, InParser, StopOnItsWay
<1>2. ASSUME NEW t \in Events, LeaveEvents(t) 
       PROVE  (transfer # "timeout_data" /\ Kept)'
  BY <1>2, <1>0 DEF LeaveEvents, Delivered, InTransfer, InParser, LockFree, Holds,
     Events, Sends, Writing, StopOnItsWay, StopIsLast, AfterWrite
<1>3. ASSUME NEW t \in Events, ReapData(t) 
       PROVE  (transfer # "timeout_data" /\ Kept)'
  <2>1. Count(buf_data_q', {"data"}) = Count(buf_data_q, {"data"}) + InTransfer({"data"})
    BY <1>3, CountAppend DEF ReapData, TypeOK, Buffers, InTransfer
  <2> QED
    BY <1>3, <1>0, <2>1 DEF ReapData, Delivered, InTransfer, InParser, LockFree, Holds,
       Events, Sends, Writing, StopOnItsWay, StopIsLast, AfterWrite
<1>4. ASSUME NEW t \in Events, ReapTimeout(t) 
       PROVE  (transfer # "timeout_data" /\ Kept)'
  BY <1>4, <1>0 DEF ReapTimeout, Delivered, InTransfer, InParser, LockFree, Holds,
     Events, Sends, Writing, StopOnItsWay, StopIsLast, AfterWrite
<1>5. ASSUME NEW t \in Events, ReapEmpty(t) 
       PROVE  (transfer # "timeout_data" /\ Kept)'
  BY <1>5, <1>0 DEF ReapEmpty, Delivered, InTransfer, InParser, LockFree, Holds, Events,
     Sends, Writing, StopOnItsWay, StopIsLast, AfterWrite
<1>6. ASSUME NEW t \in Events, ReapEnd(t) 
       PROVE  (transfer # "timeout_data" /\ Kept)'
  BY <1>6, <1>0 DEF ReapEnd, Delivered, InTransfer, InParser, LockFree, Holds, Events,
     Sends, Writing, StopOnItsWay, StopIsLast, AfterWrite
<1>7. ASSUME CallbackGet 
       PROVE  (transfer # "timeout_data" /\ Kept)'
  BY <1>7, <1>0 DEF CallbackGet, Delivered, InTransfer, InParser, LockFree, Holds,
     Events, Sends, Writing, StopOnItsWay, StopIsLast, AfterWrite
<1>8. ASSUME CallbackSubmit 
       PROVE  (transfer # "timeout_data" /\ Kept)'
  BY <1>8, <1>0 DEF CallbackSubmit, Submitted, Delivered, InTransfer, InParser,
     LockFree, Holds, Events, Sends, Writing, StopOnItsWay, StopIsLast, AfterWrite
<1>9. ASSUME ReaderInit 
       PROVE  (transfer # "timeout_data" /\ Kept)'
  BY <1>9, <1>0 DEF ReaderInit, Delivered, InTransfer, InParser, LockFree, Holds,
     Events, Sends, Writing, StopOnItsWay, StopIsLast, AfterWrite
<1>10. ASSUME ReaderSubmit 
       PROVE  (transfer # "timeout_data" /\ Kept)'
  BY <1>10, <1>0 DEF ReaderSubmit, Submitted, Delivered, InTransfer, InParser, LockFree,
     Holds, Events, Sends, Writing, StopOnItsWay, StopIsLast, AfterWrite
<1>11. ASSUME ReaderCheck 
       PROVE  (transfer # "timeout_data" /\ Kept)'
  BY <1>11, <1>0 DEF ReaderCheck, Delivered, InTransfer, InParser, LockFree, Holds,
     Events, Sends, Writing, StopOnItsWay, StopIsLast, AfterWrite
<1>12. ASSUME ReaderMark 
       PROVE  (transfer # "timeout_data" /\ Kept)'
  <2>1. Count(buf_data_q', {"data"}) = Count(buf_data_q, {"data"})
    <3>1. "end" \in Buffers /\ "end" \notin {"data"}
      BY DEF Buffers
    <3>2. buf_data_q' = Append(buf_data_q, "end") /\ buf_data_q \in Seq(Buffers)
      BY <1>12 DEF ReaderMark, TypeOK, Buffers
    <3>3. Count(buf_data_q', {"data"}) = Count(buf_data_q, {"data"}) + 0
      BY <3>1, <3>2, CountAppend
    <3> QED  BY <1>0, <3>3
  <2>2. /\ Len(buf_data_q') = Len(buf_data_q) + 1 /\ Len(buf_data_q) \in Nat
        /\ \A k \in 1 .. Len(buf_data_q) : buf_data_q'[k] = buf_data_q[k]
        /\ buf_data_q'[Len(buf_data_q) + 1] = "end"
    BY <1>12 DEF ReaderMark, TypeOK
  <2> QED
    BY <1>12, <1>0, <2>1, <2>2 DEF ReaderMark, Delivered, InTransfer, InParser,
       LockFree, Holds, Events, Sends, Writing, StopOnItsWay, StopIsLast, AfterWrite
<1>13. ASSUME ReaderCancel 
       PROVE  (transfer # "timeout_data" /\ Kept)'
  BY <1>13, <1>0 DEF ReaderCancel, Delivered, InTransfer, InParser, LockFree, Holds,
     Events, Sends, Writing, StopOnItsWay, StopIsLast, AfterWrite
<1>14. ASSUME ReaderToken 
       PROVE  (transfer # "timeout_data" /\ Kept)'
  BY <1>14, <1>0 DEF ReaderToken, Delivered, InTransfer, InParser, LockFree, Holds,
     Events, Sends, Writing, StopOnItsWay, StopIsLast, AfterWrite
<1>15. ASSUME ParserTake 
       PROVE  (transfer # "timeout_data" /\ Kept)'
  <2>1. Count(buf_data_q, {"data"}) = Count(buf_data_q', {"data"}) + InParser({"data"})'
    BY <1>15, CountTail DEF ParserTake, TypeOK, Buffers, InParser
  <2>2. Count(buf_data_q', {"data"}) \in Nat
    <3>1. buf_data_q' \in Seq(Buffers)
      BY <1>15 DEF ParserTake, TypeOK, Buffers
    <3> QED  BY <3>1, PlacesFinite
  <2>3. /\ Len(buf_data_q') = Len(buf_data_q) - 1 /\ Len(buf_data_q) \in Nat \ {0}
        /\ \A k \in 1 .. Len(buf_data_q') : buf_data_q'[k] = buf_data_q[k + 1]
        /\ parser' = buf_data_q[1]
    BY <1>15 DEF ParserTake, TypeOK
  <2> QED
    BY <1>15, <2>1, <2>2, <2>3 DEF ParserTake, TypeOK, Delivered, InTransfer, InParser,
       LockFree, Holds, Events, Sends, Writing, StopOnItsWay, StopIsLast, AfterWrite
<1>16. ASSUME ParserProcess 
       PROVE  (transfer # "timeout_data" /\ Kept)'
  BY <1>16, <1>0 DEF ParserProcess, Delivered, InTransfer, InParser, LockFree, Holds,
     Events, Sends, Writing, StopOnItsWay, StopIsLast, AfterWrite
<1>17. ASSUME ParserFinish 
       PROVE  (transfer # "timeout_data" /\ Kept)'
  BY <1>17, <1>0 DEF ParserFinish, Delivered, InTransfer, InParser, LockFree, Holds,
     Events, Sends, Writing, StopOnItsWay, StopIsLast, AfterWrite
<1>18. ASSUME ParserToken 
       PROVE  (transfer # "timeout_data" /\ Kept)'
  BY <1>18, <1>0 DEF ParserToken, Delivered, InTransfer, InParser, LockFree, Holds,
     Events, Sends, Writing, StopOnItsWay, StopIsLast, AfterWrite
<1>19. ASSUME StartCapture 
       PROVE  (transfer # "timeout_data" /\ Kept)'
  BY <1>19, <1>0 DEF StartCapture, Delivered, InTransfer, InParser, LockFree, Holds,
     Events, Sends, Writing, StopOnItsWay, StopIsLast, AfterWrite
<1>20. ASSUME CreateThread 
       PROVE  (transfer # "timeout_data" /\ Kept)'
  BY <1>20, <1>0 DEF CreateThread, Threads, Delivered, InTransfer, InParser, LockFree,
     Holds, Events, Sends, Writing, StopOnItsWay, StopIsLast, AfterWrite
<1>21. ASSUME CreateDbg 
       PROVE  (transfer # "timeout_data" /\ Kept)'
  BY <1>21, <1>0 DEF CreateDbg, Delivered, InTransfer, InParser, LockFree, Holds,
     Events, Sends, Writing, StopOnItsWay, StopIsLast, AfterWrite
<1>22. ASSUME WriteReturn 
       PROVE  (transfer # "timeout_data" /\ Kept)'
  BY <1>22, <1>0 DEF WriteReturn, Delivered, InTransfer, InParser, LockFree, Holds,
     Events, Sends, Writing, StopOnItsWay, StopIsLast, AfterWrite
<1>23. ASSUME Close 
       PROVE  (transfer # "timeout_data" /\ Kept)'
  BY <1>23, <1>0 DEF Close, Delivered, InTransfer, InParser, LockFree, Holds, Events,
     Sends, Writing, StopOnItsWay, StopIsLast, AfterWrite
<1>24. ASSUME StopCapture 
       PROVE  (transfer # "timeout_data" /\ Kept)'
  BY <1>24, <1>0 DEF StopCapture, Delivered, InTransfer, InParser, LockFree, Holds,
     Events, Sends, Writing, StopOnItsWay, StopIsLast, AfterWrite
<1>25. ASSUME AwaitReader 
       PROVE  (transfer # "timeout_data" /\ Kept)'
  BY <1>25, <1>0 DEF AwaitReader, Delivered, InTransfer, InParser, LockFree, Holds,
     Events, Sends, Writing, StopOnItsWay, StopIsLast, AfterWrite
<1>26. ASSUME LeaveReader 
       PROVE  (transfer # "timeout_data" /\ Kept)'
  BY <1>26, <1>0 DEF LeaveReader, Delivered, InTransfer, InParser, LockFree, Holds,
     Events, Sends, Writing, StopOnItsWay, StopIsLast, AfterWrite
<1>27. ASSUME AwaitParser 
       PROVE  (transfer # "timeout_data" /\ Kept)'
  BY <1>27, <1>0 DEF AwaitParser, Delivered, InTransfer, InParser, LockFree, Holds,
     Events, Sends, Writing, StopOnItsWay, StopIsLast, AfterWrite
<1>28. ASSUME LeaveParser 
       PROVE  (transfer # "timeout_data" /\ Kept)'
  BY <1>28, <1>0 DEF LeaveParser, Delivered, InTransfer, InParser, LockFree, Holds,
     Events, Sends, Writing, StopOnItsWay, StopIsLast, AfterWrite
<1>29. ASSUME JoinDbg 
       PROVE  (transfer # "timeout_data" /\ Kept)'
  BY <1>29, <1>0 DEF JoinDbg, Delivered, InTransfer, InParser, LockFree, Holds, Events,
     Sends, Writing, StopOnItsWay, StopIsLast, AfterWrite
<1>30. ASSUME DeleteQueue 
       PROVE  (transfer # "timeout_data" /\ Kept)'
  BY <1>30, <1>0 DEF DeleteQueue, Delivered, InTransfer, InParser, LockFree, Holds,
     Events, Sends, Writing, StopOnItsWay, StopIsLast, AfterWrite
<1>31. ASSUME CloseUsb 
       PROVE  (transfer # "timeout_data" /\ Kept)'
  BY <1>31, <1>0 DEF CloseUsb, Submitted, Delivered, InTransfer, InParser, LockFree,
     Holds, Events, Sends, Writing, StopOnItsWay, StopIsLast, AfterWrite
<1>32. ASSUME DeviceData 
       PROVE  (transfer # "timeout_data" /\ Kept)'
  BY <1>32, <1>0 DEF DeviceData, Delivered, InTransfer, InParser, LockFree, Holds,
     Events, Sends, Writing, StopOnItsWay, StopIsLast, AfterWrite
<1>33. ASSUME DeviceEmpty 
       PROVE  (transfer # "timeout_data" /\ Kept)'
  BY <1>33, <1>0 DEF DeviceEmpty, Delivered, InTransfer, InParser, LockFree, Holds,
     Events, Sends, Writing, StopOnItsWay, StopIsLast, AfterWrite
<1>34. ASSUME DeviceStop 
       PROVE  (transfer # "timeout_data" /\ Kept)'
  BY <1>34, <1>0 DEF DeviceStop, Delivered, InTransfer, InParser, LockFree, Holds,
     Events, Sends, Writing, StopOnItsWay, StopIsLast, AfterWrite
<1>35. ASSUME DeviceGone 
       PROVE  (transfer # "timeout_data" /\ Kept)'
  BY <1>35, <1>0 DEF DeviceGone, Delivered, InTransfer, InParser, LockFree, Holds,
     Events, Sends, Writing, StopOnItsWay, StopIsLast, AfterWrite
<1>36. ASSUME TransferTimesOut 
       PROVE  (transfer # "timeout_data" /\ Kept)'
  BY <1>36, <1>0 DEF TransferTimesOut, Delivered, InTransfer, InParser, LockFree, Holds,
     Events, Sends, Writing, StopOnItsWay, StopIsLast, AfterWrite
<1> QED
  BY <1>1, <1>2, <1>3, <1>4, <1>5, <1>6, <1>7, <1>8, <1>9, <1>10, <1>11, <1>12, <1>13,
     <1>14, <1>15, <1>16, <1>17, <1>18, <1>19, <1>20, <1>21, <1>22, <1>23, <1>24, <1>25,
     <1>26, <1>27, <1>28, <1>29, <1>30, <1>31, <1>32, <1>33, <1>34, <1>35, <1>36 DEF
     Next, Libusb, Reader, Parser, Api, vars, EnterEvents, ReapWrite, WriteSubmit,
     DbgEnds, Interrupt, DeviceCommand, Tick

(* What libusb_close has forgotten stays so, with no STOP after it.         *)
LEMMA NextForgotten ==
  ASSUME IInv, Forgotten, [Next]_vars
  PROVE  (transfer # "timeout_data" /\ Forgotten)'
<1> USE DEF Forgotten, StopOnItsWay, apiVars, queueVars, usbVars, devVars, readerFrame,
    parserFrame, mainFrame, usbFrame
<1>1. CASE Libusb
  BY <1>1 DEF Libusb, EnterEvents, LeaveEvents, ReapWrite, ReapData, ReapTimeout,
     ReapEmpty, ReapEnd, CallbackGet, CallbackSubmit
<1>2. ASSUME ReaderMark PROVE (transfer # "timeout_data" /\ Forgotten)'
  BY <1>2, QueueSteps DEF ReaderMark, IInv, Buffers
<1>3. CASE ReaderInit \/ ReaderSubmit \/ ReaderCheck \/ ReaderCancel \/ ReaderToken
  BY <1>3 DEF ReaderInit, ReaderSubmit, ReaderCheck, ReaderCancel, ReaderToken
<1>4. ASSUME ParserTake PROVE (transfer # "timeout_data" /\ Forgotten)'
  <2>1. /\ Len(buf_data_q') = Len(buf_data_q) - 1 /\ Len(buf_data_q) \in Nat \ {0}
        /\ \A k \in 1 .. Len(buf_data_q') : buf_data_q'[k] = buf_data_q[k + 1]
        /\ parser' = buf_data_q[1]
    BY <1>4 DEF ParserTake, IInv, TypeOK
  <2> QED  BY <1>4, <2>1 DEF ParserTake
<1>5. CASE ParserProcess \/ ParserFinish \/ ParserToken
  BY <1>5 DEF ParserProcess, ParserFinish, ParserToken
<1>6. ~Api /\ ~Close
  BY DEF Api, StartCapture, CreateThread, CreateDbg, WriteSubmit, WriteReturn, StopCapture,
     AwaitReader, LeaveReader, AwaitParser, LeaveParser, JoinDbg, DeleteQueue, Interrupt,
     CloseUsb, Close, Writing
<1>7. CASE \/ DbgEnds \/ DeviceCommand \/ DeviceData \/ DeviceEmpty \/ DeviceStop
           \/ DeviceGone \/ TransferTimesOut \/ Tick
  BY <1>7 DEF DbgEnds, DeviceCommand, DeviceData, DeviceEmpty, DeviceStop, DeviceGone,
     TransferTimesOut, Tick
<1>8. CASE UNCHANGED vars
  BY <1>8 DEF vars
<1> QED  BY <1>1, <1>2, <1>3, <1>4, <1>5, <1>6, <1>7, <1>8 DEF Next, Reader, Parser

LEMMA NextLInv ==
  ASSUME "partial" \notin Faults, IInv, LInv, [Next]_vars
  PROVE  LInv'
<1>1. StopIsLast'
  BY NextStopIsLast DEF LInv
<1>2. CASE Kept /\ ~(CloseUsb /\ transfer = "data")
  BY <1>1, <1>2, NextKept DEF LInv
<1>3. CASE CloseUsb /\ transfer = "data"
  <2>1. transfer' = "none" /\ Forgotten'
    BY <1>3 DEF CloseUsb, queueVars, LInv, IInv, Submitted, LockFree, StopIsLast,
       StopOnItsWay, Forgotten
  <2> QED  BY <1>1, <2>1 DEF LInv
<1>4. CASE Forgotten
  BY <1>1, <1>4, NextForgotten DEF LInv
<1> QED  BY <1>2, <1>3, <1>4 DEF LInv

LEMMA StopIsLastInvariant == Spec => []StopIsLast
<1>1. Init => StopIsLast
  BY DEF Init, StopIsLast, StopOnItsWay, OnlyEnds
<1> QED  BY <1>1, InductiveInvariant, NextStopIsLast, PTL DEF Spec

(* With every fault but a timeout of a transfer that has received data.    *)
LEMMA NothingForgotten ==
  ASSUME "partial" \notin Faults
  PROVE  Spec => []LInv
<1>1. Init => LInv
  <2> SUFFICES ASSUME Init PROVE LInv
    OBVIOUS
  <2>1. StopIsLast /\ transfer # "timeout_data"
    BY DEF Init, StopIsLast, StopOnItsWay, OnlyEnds
  <2>2. Delivered = 0
    BY CountEmpty DEF Init, Delivered, InParser
  <2> QED  BY <2>1, <2>2 DEF Init, LInv, Kept, InTransfer
<1> QED  BY <1>1, NextLInv, InductiveInvariant, PTL DEF Spec

(* The parser comes to STOP only when it has been through all that the     *)
(* analyser sent, with every fault but a timeout of a transfer that has    *)
(* received data, which the callback throws away.  Nothing is said of a    *)
(* parser that ends in another way.                                        *)
THEOREM StopComesLast ==
  ASSUME "partial" \notin Faults
  PROVE  Spec => [](parser = "stop" => parsed = sent)
<1>1. IInv /\ LInv => (parser = "stop" => parsed = sent)
  <2> SUFFICES ASSUME IInv, LInv, parser = "stop" PROVE parsed = sent
    OBVIOUS
  <2>1. Kept /\ transfer # "data"
    BY DEF LInv, Forgotten, StopIsLast, StopOnItsWay
  <2>2. {k \in 1 .. Len(buf_data_q) : buf_data_q[k] \in {"data"}} = {}
    BY DEF LInv, StopIsLast, OnlyEnds
  <2>3. Count(buf_data_q, {"data"}) = 0
    BY <2>2, FS_EmptySet DEF Count
  <2> QED  BY <2>1, <2>3 DEF Kept, Delivered, InTransfer, InParser, IInv, TypeOK
<1> QED  BY <1>1, InductiveInvariant, NothingForgotten, PTL

-----------------------------------------------------------------------------
\* The faults that end a capture before it is stopped with the analyser still
\* sending, or that lose data.
Complete == Faults \cap {"events", "echo", "partial"} = {}

\* The parser has ended, or is on its way to the end.
Ending ==
    \/ main # "idle" /\ capture_finish
    \/ reader \in {"mark", "mark_failed", "cancel", "token", "ended"}
    \/ parser \in {"end", "finish", "token", "ended"}
    \/ transfer = "cancelled"
    \/ \E k \in 1 .. Len(buf_data_q) : buf_data_q[k] = "end"

\* Nothing more comes: the analyser has stopped or is gone, or it has no
\* transfer to send in and will get none.
Quiet ==
    /\ transfer \notin {"data", "stop"}
    /\ \/ device = "gone"
       \/ device = "idle" /\ main \notin Capturing
       \/ transfer \in {"none", "idle"} /\ cb = "none" /\ reader \notin {"none", "enter", "submit"}

\* No data is behind the end mark, nor left when the parser has come to an end.
EndIsLast ==
    /\ \A k, l \in 1 .. Len(buf_data_q) :
         buf_data_q[k] = "end" /\ k < l => buf_data_q[l] # "data"
    /\ parser \in {"end", "finish", "token", "ended"} =>
         \A k \in 1 .. Len(buf_data_q) : buf_data_q[k] # "data"

\* A capture that stop_capture has not given up ends when nothing more comes.
EndedInTime ==
    /\ transfer = "error" => device = "gone"
    /\ Ending /\ tries = 0 => Kept /\ Quiet /\ EndIsLast

(* A capture begins to end, before stop_capture gives it up, when the       *)
(* parser comes to STOP, or when the transfer fails for good.              *)
LEMMA EndBegins ==
  ASSUME Complete, IInv, LInv, EndedInTime, [Next]_vars, ~Ending, Ending', tries' = 0
  PROVE  Kept /\ ~CloseUsb /\ Quiet' /\ EndIsLast'
<1> DEFINE Begins == Kept /\ ~CloseUsb /\ Quiet' /\ EndIsLast'
<1> USE DEF Ending, apiVars, queueVars, usbVars, devVars, readerFrame, parserFrame,
    mainFrame, usbFrame
<1>1. CASE UNCHANGED <<main, capture_finish, reader, parser, transfer, buf_data_q>>
  BY <1>1
<1>2. ASSUME NEW t \in Events, LeaveEvents(t) PROVE FALSE
  BY <1>2 DEF LeaveEvents, Complete
<1>3. ASSUME NEW t \in Events, ReapData(t) PROVE FALSE
  <2>1. /\ Len(buf_data_q') = Len(buf_data_q) + 1 /\ Len(buf_data_q) \in Nat
        /\ \A k \in 1 .. Len(buf_data_q) : buf_data_q'[k] = buf_data_q[k]
        /\ buf_data_q'[Len(buf_data_q) + 1] = transfer
    BY <1>3 DEF ReapData, IInv, TypeOK
  <2> QED  BY <1>3, <2>1 DEF ReapData
<1>4. ASSUME NEW t \in Events, ReapTimeout(t) \/ ReapEmpty(t) PROVE FALSE
  BY <1>4 DEF ReapTimeout, ReapEmpty
<1>5. ASSUME NEW t \in Events, ReapEnd(t) PROVE Begins
  <2>1. transfer = "error" /\ device' = "gone" /\ transfer' = "idle"
    BY <1>5 DEF ReapEnd, EndedInTime
  <2>2. Kept
    BY <2>1 DEF LInv, Forgotten
  <2> QED  BY <1>5, <2>1, <2>2 DEF ReapEnd, CloseUsb, Quiet, EndIsLast
<1>6. ASSUME CallbackSubmit PROVE Begins
  <2>1. transfer = "idle" /\ reader \notin {"none", "enter", "submit"}
    BY <1>6 DEF CallbackSubmit, IInv, Submitted
  <2>2. Kept
    BY <1>6 DEF CallbackSubmit, LInv, Forgotten
  <2> QED  BY <1>6, <2>1, <2>2 DEF CallbackSubmit, CloseUsb, Quiet, EndIsLast
<1>7. ASSUME ReaderInit \/ ReaderCheck \/ ReaderMark \/ ReaderCancel \/ ReaderToken PROVE FALSE
  BY <1>7 DEF ReaderInit, ReaderCheck, ReaderMark, ReaderCancel, ReaderToken, IInv, Threads
<1>8. ASSUME ReaderSubmit PROVE Begins
  <2>1. transfer = "none" /\ cb = "none"
    BY <1>8 DEF ReaderSubmit, IInv, Submitted
  <2>2. Kept
    BY <1>8 DEF ReaderSubmit, LInv, Forgotten
  <2> QED  BY <1>8, <2>1, <2>2 DEF ReaderSubmit, CloseUsb, Quiet, EndIsLast
<1>9. ASSUME ParserTake PROVE FALSE
  <2>1. /\ Len(buf_data_q') = Len(buf_data_q) - 1 /\ Len(buf_data_q) \in Nat \ {0}
        /\ \A k \in 1 .. Len(buf_data_q') : buf_data_q'[k] = buf_data_q[k + 1]
        /\ parser' = buf_data_q[1]
    BY <1>9 DEF ParserTake, IInv, TypeOK
  <2>2. parser' \in {"data", "stop"}
    BY <2>1 DEF IInv, TypeOK
  <2>3. \A k \in 1 .. Len(buf_data_q') : buf_data_q'[k] # "end"
    BY <2>1
  <2> QED  BY <1>9, <2>2, <2>3 DEF ParserTake
<1>10. ASSUME ParserProcess PROVE Begins
  <2>1. parser = "stop"
    BY <1>10 DEF ParserProcess, Complete
  <2>2. /\ device \in {"idle", "gone"} /\ main \notin Capturing /\ OnlyEnds
        /\ transfer \notin {"data", "stop"} /\ Kept
    BY <2>1 DEF LInv, StopIsLast, StopOnItsWay, Forgotten
  <2> QED  BY <1>10, <2>2 DEF ParserProcess, OnlyEnds, CloseUsb, Quiet, EndIsLast
<1>11. ASSUME ParserFinish \/ ParserToken PROVE FALSE
  BY <1>11 DEF ParserFinish, ParserToken
<1>12. ASSUME StartCapture \/ CreateThread \/ CreateDbg \/ WriteReturn \/ Close \/ StopCapture
       PROVE  FALSE
  BY <1>12 DEF StartCapture, CreateThread, CreateDbg, WriteReturn, Close, StopCapture, Writing
<1>13. ASSUME AwaitReader PROVE FALSE
  BY <1>13 DEF AwaitReader, IInv, TypeOK
<1>14. ASSUME \/ LeaveReader \/ AwaitParser \/ LeaveParser \/ JoinDbg \/ DeleteQueue
              \/ CloseUsb
       PROVE  FALSE
  BY <1>14 DEF LeaveReader, AwaitParser, LeaveParser, JoinDbg, DeleteQueue, CloseUsb
<1>15. ASSUME DeviceData \/ DeviceEmpty \/ DeviceStop \/ DeviceGone \/ TransferTimesOut
       PROVE  FALSE
  BY <1>15 DEF DeviceData, DeviceEmpty, DeviceStop, DeviceGone, TransferTimesOut
<1> QED
  BY <1>1, <1>2, <1>3, <1>4, <1>5, <1>6, <1>7, <1>8, <1>9, <1>10, <1>11, <1>12, <1>13,
     <1>14, <1>15 DEF Next, Libusb, Reader, Parser, Api, vars, EnterEvents, ReapWrite,
     CallbackGet, WriteSubmit, DbgEnds, Interrupt, DeviceCommand, Tick

(* From then on nothing more comes.                                        *)
LEMMA EndGoesOn ==
  ASSUME Complete, IInv, LInv, [Next]_vars, Ending, Quiet, EndIsLast
  PROVE  Quiet' /\ EndIsLast'
<1> USE DEF Quiet, EndIsLast, apiVars, queueVars, usbVars, devVars, readerFrame, parserFrame,
    mainFrame, usbFrame
<1>1. CASE UNCHANGED <<main, cb, device, reader, parser, transfer, buf_data_q>>
  BY <1>1 DEF Capturing, Starting
<1>2. ASSUME NEW t \in Events, LeaveEvents(t) PROVE Quiet' /\ EndIsLast'
  BY <1>2 DEF LeaveEvents, IInv, Submitted
<1>3. ASSUME NEW t \in Events, ReapData(t) PROVE FALSE
  BY <1>3 DEF ReapData
<1>4. ASSUME NEW t \in Events, ReapTimeout(t) \/ ReapEmpty(t) \/ ReapEnd(t)
      PROVE  Quiet' /\ EndIsLast'
  BY <1>4 DEF ReapTimeout, ReapEmpty, ReapEnd
<1>5. ASSUME CallbackGet \/ CallbackSubmit PROVE Quiet' /\ EndIsLast'
  BY <1>5 DEF CallbackGet, CallbackSubmit
<1>6. ASSUME ReaderMark PROVE Quiet' /\ EndIsLast'
  <2>1. /\ Len(buf_data_q') = Len(buf_data_q) + 1 /\ Len(buf_data_q) \in Nat
        /\ \A k \in 1 .. Len(buf_data_q) : buf_data_q'[k] = buf_data_q[k]
        /\ buf_data_q'[Len(buf_data_q) + 1] = "end"
    BY <1>6 DEF ReaderMark, IInv, TypeOK
  <2> QED  BY <1>6, <2>1 DEF ReaderMark
<1>7. ASSUME ReaderInit \/ ReaderSubmit \/ ReaderCheck \/ ReaderCancel \/ ReaderToken
      PROVE  Quiet' /\ EndIsLast'
  BY <1>7 DEF ReaderInit, ReaderSubmit, ReaderCheck, ReaderCancel, ReaderToken
<1>8. ASSUME ParserTake PROVE Quiet' /\ EndIsLast'
  <2>1. /\ Len(buf_data_q') = Len(buf_data_q) - 1 /\ Len(buf_data_q) \in Nat \ {0}
        /\ \A k \in 1 .. Len(buf_data_q') : buf_data_q'[k] = buf_data_q[k + 1]
        /\ parser' = buf_data_q[1]
    BY <1>8 DEF ParserTake, IInv, TypeOK
  <2>2. ASSUME parser' = "end", NEW k \in 1 .. Len(buf_data_q')
        PROVE  buf_data_q'[k] # "data"
    <3>1. /\ 1 \in 1 .. Len(buf_data_q) /\ buf_data_q[1] = "end"
          /\ k + 1 \in 1 .. Len(buf_data_q) /\ 1 < k + 1 /\ buf_data_q'[k] = buf_data_q[k + 1]
      BY <2>1, <2>2
    <3> QED  BY <3>1
  <2>3. parser' \in {"data", "stop", "end"}
    BY <2>1 DEF IInv, TypeOK
  <2> QED  BY <1>8, <2>1, <2>2, <2>3 DEF ParserTake
<1>9. ASSUME ParserProcess PROVE Quiet' /\ EndIsLast'
  <2>1. parser = "data" => parser' = "wait"
    BY <1>9 DEF ParserProcess, Complete
  <2>2. parser = "stop" => OnlyEnds
    BY DEF LInv, StopIsLast
  <2> QED  BY <1>9, <2>1, <2>2 DEF ParserProcess, OnlyEnds
<1>10. ASSUME ParserFinish \/ ParserToken PROVE Quiet' /\ EndIsLast'
  BY <1>10 DEF ParserFinish, ParserToken
<1>11. ASSUME StartCapture \/ CreateThread \/ CreateDbg \/ WriteReturn \/ Close \/ StopCapture
       PROVE  Quiet' /\ EndIsLast'
  BY <1>11 DEF StartCapture, CreateThread, CreateDbg, WriteReturn, Close, StopCapture,
     AfterWrite, Writing, Capturing, Starting, IInv, Threads
<1>12. ASSUME \/ AwaitReader \/ LeaveReader \/ AwaitParser \/ LeaveParser \/ JoinDbg
              \/ DeleteQueue \/ CloseUsb
       PROVE  Quiet' /\ EndIsLast'
  BY <1>12 DEF AwaitReader, LeaveReader, AwaitParser, LeaveParser, JoinDbg, DeleteQueue,
     CloseUsb, Capturing, Starting
<1>13. ASSUME DeviceCommand PROVE Quiet' /\ EndIsLast'
  BY <1>13 DEF DeviceCommand, Capturing, Starting
<1>14. ASSUME DeviceData \/ DeviceEmpty \/ DeviceStop \/ DeviceGone \/ TransferTimesOut
       PROVE  Quiet' /\ EndIsLast'
  BY <1>14 DEF DeviceData, DeviceEmpty, DeviceStop, DeviceGone, TransferTimesOut, Sends,
     Complete
<1> QED
  BY <1>1, <1>2, <1>3, <1>4, <1>5, <1>6, <1>7, <1>8, <1>9, <1>10, <1>11, <1>12, <1>13,
     <1>14 DEF Next, Libusb, Reader, Parser, Api, vars, EnterEvents, ReapWrite,
     WriteSubmit, DbgEnds, Interrupt, Tick

LEMMA NextEndedInTime ==
  ASSUME Complete, IInv, LInv, EndedInTime, [Next]_vars
  PROVE  EndedInTime'
<1>1. transfer' = "error" => device' = "gone"
  BY DEF EndedInTime, Next, Libusb, Reader, Parser, Api, vars, apiVars, queueVars, usbVars,
     devVars, readerFrame, parserFrame, mainFrame, usbFrame, EnterEvents, LeaveEvents,
     ReapWrite, ReapData, ReapTimeout, ReapEmpty, ReapEnd, CallbackGet, CallbackSubmit,
     ReaderInit, ReaderSubmit, ReaderCheck, ReaderMark, ReaderCancel, ReaderToken, ParserTake,
     ParserProcess, ParserFinish, ParserToken, StartCapture, CreateThread, CreateDbg,
     WriteSubmit, WriteReturn, Close, StopCapture, AwaitReader, LeaveReader, AwaitParser,
     LeaveParser, DbgEnds, JoinDbg, DeleteQueue, Interrupt, CloseUsb, DeviceCommand,
     DeviceData, DeviceEmpty, DeviceStop, DeviceGone, TransferTimesOut, Tick
<1>2. ASSUME Ending', tries' = 0 PROVE (Kept /\ Quiet /\ EndIsLast)'
  <2>1. tries = 0
    <3>1. tries \in Nat /\ (tries' = tries \/ tries' = tries + 1)
      BY DEF IInv, TypeOK, Next, Libusb, Reader, Parser, Api, vars, apiVars, queueVars,
         usbVars, devVars, readerFrame, parserFrame, mainFrame, usbFrame, EnterEvents,
         LeaveEvents, ReapWrite, ReapData, ReapTimeout, ReapEmpty, ReapEnd, CallbackGet,
         CallbackSubmit, ReaderInit, ReaderSubmit, ReaderCheck, ReaderMark, ReaderCancel,
         ReaderToken, ParserTake, ParserProcess, ParserFinish, ParserToken, StartCapture,
         CreateThread, CreateDbg, WriteSubmit, WriteReturn, Close, StopCapture, AwaitReader,
         LeaveReader, AwaitParser, LeaveParser, DbgEnds, JoinDbg, DeleteQueue, Interrupt,
         CloseUsb, DeviceCommand, DeviceData, DeviceEmpty, DeviceStop, DeviceGone,
         TransferTimesOut, Tick
    <3> QED  BY <1>2, <3>1
  <2>2. CASE Ending
    <3>1. Kept /\ Quiet /\ EndIsLast /\ transfer # "data"
      BY <2>1, <2>2 DEF EndedInTime, Quiet
    <3> QED  BY <2>2, <3>1, EndGoesOn, NextKept DEF Complete
  <2>3. CASE ~Ending
    <3>1. Kept /\ ~CloseUsb /\ Quiet' /\ EndIsLast'
      BY <1>2, <2>3, EndBegins
    <3> QED  BY <3>1, NextKept DEF Complete
  <2> QED  BY <2>2, <2>3
<1> QED  BY <1>1, <1>2 DEF EndedInTime

(* All that the analyser sent has been parsed when the parser ends, unless *)
(* stop_capture has waited for the reader in vain: with every fault but an *)
(* error of the event loop, the STOP word in a packet and a timeout of a   *)
(* transfer that has received data.  Each of these three loses data of a   *)
(* capture that goes on.                                                   *)
THEOREM AllParsed ==
  ASSUME Complete
  PROVE  Spec => []NothingLost
<1>1. Init => EndedInTime
  BY DEF Init, EndedInTime, Ending
<1>2. IInv /\ LInv /\ EndedInTime /\ [Next]_vars => EndedInTime'
  BY NextEndedInTime
<1>3. IInv /\ EndedInTime /\ (parser = "stop" => parsed = sent) => NothingLost
  <2> SUFFICES ASSUME IInv, EndedInTime, tries = 0,
                      parser \in {"end", "finish", "token", "ended"}
               PROVE  parsed = sent
    BY DEF NothingLost, IInv, TypeOK
  <2>1. Kept /\ transfer # "data" /\ \A k \in 1 .. Len(buf_data_q) : buf_data_q[k] # "data"
    BY DEF EndedInTime, Ending, Quiet, EndIsLast
  <2>2. {k \in 1 .. Len(buf_data_q) : buf_data_q[k] \in {"data"}} = {}
    BY <2>1
  <2>3. Count(buf_data_q, {"data"}) = 0
    BY <2>2, FS_EmptySet DEF Count
  <2> QED  BY <2>1, <2>3 DEF Kept, Delivered, InTransfer, InParser, IInv, TypeOK
<1>4. "partial" \notin Faults
  BY DEF Complete
<1> QED
  BY <1>1, <1>2, <1>3, <1>4, InductiveInvariant, NothingForgotten, StopComesLast, PTL DEF Spec

-----------------------------------------------------------------------------
\* What may go wrong without a thread left behind: not the loss of the device, a
\* failed write or submit, an error of the event loop or a slow packet_handler,
\* with each of which a thread outlives close.
Survivable == Faults \subseteq {"create", "late", "empty", "partial", "echo"}

\* No call but the creation of a thread fails, no thread that is needed to go on
\* is missing, and none finishes a capture before it is stopped.
Healthy ==
    /\ device # "gone" /\ transfer # "error" /\ write \notin {"failed", "bad"}
    /\ reader # "mark_failed"
    /\ main \in {"create_parser", "create_dbg", "write_start", "run"} => reader # "none"
    /\ main \in {"create_dbg", "write_start", "run"} => parser # "none"
    /\ reader = "none" => parser = "none"
    /\ ev["M"] # "out" => main \in Writing
    /\ main \in Capturing =>
         /\ capture_finish => main = "idle"
         /\ reader \in {"none", "enter", "submit", "handle", "check"}
         /\ parser \in {"none", "wait", "data"}
         /\ transfer # "cancelled"

\* The reader finishes the capture with an end mark in the queue, and only after
\* capture_finish.
EndMark ==
    /\ reader \in {"none", "enter", "submit", "handle", "check", "mark"} =>
         parser # "end" /\ \A k \in 1 .. Len(buf_data_q) : buf_data_q[k] # "end"
    /\ reader \in {"cancel", "token", "ended"} =>
         \/ parser \in {"end", "finish", "token", "ended"}
         \/ \E k \in 1 .. Len(buf_data_q) : buf_data_q[k] = "end"
    /\ reader \in {"mark", "cancel", "token", "ended"} => capture_finish

\* The reader, if there is one, will look at capture_finish when it next leaves
\* libusb.
Returning ==
    /\ reader \notin {"enter", "submit"}
    /\ reader = "handle" => ev["R"] # "out"

\* It is leaving, ...
Leaving ==
    reader = "handle" => \/ ev["R"] \in {"served", "woken"}
                         \/ ev["R"] = "wait" /\ ev["M"] = "served"

\* ... unless it waits for a buffer that no one gives back.
Stuck ==
    /\ reader = "handle" /\ Holds("R") /\ cb = "get" /\ pool = 0
    /\ parser \in {"none", "ended"} /\ draining

\* The first wait gives the reader time to get into libusb with capture_finish
\* set; writing STOP again brings it out.  A reader that is stuck keeps STOP from
\* being written a third time.
ThirdTime ==
    /\ main \in {"write_stop", "write_again", "wait_reader"} => draining
    /\ tries >= 1 => capture_finish /\ draining
    /\ main = "write_again" => tries >= 1
    /\ main = "wait_reader" /\ tries = 1 /\ wait_left < StopTimeout => Returning
    /\ tries = 2 => Returning
    /\ tries = 2 /\ main = "write_again" /\ write = "ok" => Leaving
    /\ tries = 2 /\ main = "wait_reader" =>
         Leaving /\ (Ended(reader) \/ wait_left = StopTimeout \/ Stuck)
    /\ tries > 2 => reader = "none" \/ (Stuck /\ main = "write_again" /\ write # "ok")

\* A token is there until it is taken, and the thread that sent it is joined;
\* only a thread that does not exist is left alone.
Joined ==
    /\ main \in Capturing \cup {"write_stop", "write_again", "wait_reader"} =>
         (reader = "ended" => data_reader_q = 1)
    /\ main \in Capturing \cup {"write_stop", "write_again", "wait_reader",
                                "join_reader", "leave_reader", "wait_parser"} =>
         (parser = "ended" => data_parser_q = 1)
    /\ main = "leave_reader" => reader = "none"
    /\ main = "leave_parser" => parser = "none"
    /\ main = "wait_parser" => Ended(parser) \/ wait_left = StopTimeout
    /\ main \in {"wait_parser", "join_parser", "leave_parser", "join_dbg", "delete",
                 "close_usb", "closed"} => Ended(reader)
    /\ main \in {"join_dbg", "delete", "close_usb", "closed"} =>
         Ended(parser) /\ dbg # "run"
    /\ main \in {"delete", "close_usb", "closed"} => dbg # "finish"
    /\ main \notin {"idle", "delete", "close_usb", "closed"} => queues = Queues

CInv == StopIsLast /\ Healthy /\ EndMark /\ ThirdTime /\ Joined

(* Every step keeps the threads going until the capture is stopped.        *)
LEMMA NextHealthy ==
  ASSUME Survivable, IInv, CInv, [Next]_vars
  PROVE  Healthy'
<1> USE SessionAssumption DEF Survivable, IInv, CInv, apiVars, queueVars, usbVars, devVars,
    readerFrame, parserFrame, mainFrame, usbFrame
<1>1. CASE UNCHANGED <<device, transfer, write, reader, result, main, parser, ev, capture_finish>>
  BY <1>1 DEF Healthy
<1>2. ASSUME NEW t \in Events, EnterEvents(t) PROVE Healthy'
  BY <1>2 DEF EnterEvents, Healthy, EndMark, Calls
<1>3. ASSUME NEW t \in Events, LeaveEvents(t) PROVE Healthy'
  BY <1>3 DEF LeaveEvents, Healthy, TypeOK, Sends, Events, Holds, LockFree, StopIsLast,
     StopOnItsWay, EndMark
<1>4. ASSUME NEW t \in Events, ReapWrite(t) PROVE Healthy'
  BY <1>4 DEF ReapWrite, Healthy, Events, Holds, LockFree, StopIsLast, StopOnItsWay,
     EndMark
<1>5. ASSUME NEW t \in Events, ReapData(t) PROVE Healthy'
  BY <1>5 DEF ReapData, Healthy, Events, Holds, LockFree, StopIsLast, StopOnItsWay,
     EndMark
<1>6. ASSUME NEW t \in Events, ReapTimeout(t) PROVE Healthy'
  BY <1>6 DEF ReapTimeout, Healthy, Events, Holds, LockFree, StopIsLast, StopOnItsWay,
     EndMark
<1>7. ASSUME NEW t \in Events, ReapEmpty(t) PROVE Healthy'
  BY <1>7 DEF ReapEmpty, Healthy, Events, Holds, LockFree, StopIsLast, StopOnItsWay,
     EndMark
<1>8. ASSUME NEW t \in Events, ReapEnd(t) PROVE Healthy'
  BY <1>8 DEF ReapEnd, Healthy, Events, Holds, LockFree, StopIsLast, StopOnItsWay,
     EndMark
<1>9. ASSUME CallbackSubmit PROVE Healthy'
  BY <1>9 DEF CallbackSubmit, Healthy
<1>10. ASSUME ReaderInit PROVE Healthy'
  BY <1>10 DEF ReaderInit, Healthy
<1>11. ASSUME ReaderSubmit PROVE Healthy'
  BY <1>11 DEF ReaderSubmit, Healthy
<1>12. ASSUME ReaderCheck PROVE Healthy'
  BY <1>12 DEF ReaderCheck, Healthy, Threads
<1>13. ASSUME ReaderMark PROVE Healthy'
  BY <1>13 DEF ReaderMark, Healthy
<1>14. ASSUME ReaderCancel PROVE Healthy'
  BY <1>14 DEF ReaderCancel, Healthy
<1>15. ASSUME ReaderToken PROVE Healthy'
  BY <1>15 DEF ReaderToken, Healthy
<1>16. ASSUME ParserTake PROVE Healthy'
  BY <1>16 DEF ParserTake, Healthy, TypeOK, LockFree, StopIsLast, StopOnItsWay, EndMark
<1>17. ASSUME ParserProcess PROVE Healthy'
  BY <1>17 DEF ParserProcess, Healthy, Stopping
<1>18. ASSUME ParserFinish PROVE Healthy'
  BY <1>18 DEF ParserFinish, Healthy
<1>19. ASSUME ParserToken PROVE Healthy'
  BY <1>19 DEF ParserToken, Healthy
<1>20. ASSUME StartCapture PROVE Healthy'
  BY <1>20 DEF StartCapture, Healthy, Capturing, Starting, Writing, AfterWrite, Sends,
     Events, Holds, LockFree, StopIsLast, StopOnItsWay, EndMark
<1>21. ASSUME CreateThread PROVE Healthy'
  BY <1>21 DEF CreateThread, Healthy, Capturing, Starting, Writing, AfterWrite, Sends,
     Events, Holds, LockFree, StopIsLast, StopOnItsWay, EndMark
<1>22. ASSUME CreateDbg PROVE Healthy'
  BY <1>22 DEF CreateDbg, Healthy, Capturing, Starting, Writing, AfterWrite, Sends,
     Events, Holds, LockFree, StopIsLast, StopOnItsWay, EndMark
<1>23. ASSUME WriteSubmit PROVE Healthy'
  BY <1>23 DEF WriteSubmit, Healthy
<1>24. ASSUME WriteReturn PROVE Healthy'
  BY <1>24 DEF WriteReturn, Healthy, Capturing, Starting, Writing, AfterWrite, Sends,
     Events, Holds, LockFree, StopIsLast, StopOnItsWay, EndMark
<1>25. ASSUME Close PROVE Healthy'
  BY <1>25 DEF Close, Healthy, Capturing, Starting, Writing, AfterWrite, Sends, Events,
     Holds, LockFree, StopIsLast, StopOnItsWay, EndMark
<1>26. ASSUME StopCapture PROVE Healthy'
  BY <1>26 DEF StopCapture, Healthy, Capturing, Starting, Writing, AfterWrite, Sends,
     Events, Holds, LockFree, StopIsLast, StopOnItsWay, EndMark
<1>27. ASSUME AwaitReader PROVE Healthy'
  BY <1>27 DEF AwaitReader, Healthy, Capturing, Starting, Writing, AfterWrite, Sends,
     Events, Holds, LockFree, StopIsLast, StopOnItsWay, EndMark
<1>28. ASSUME LeaveReader PROVE Healthy'
  BY <1>28 DEF LeaveReader, Healthy, Capturing, Starting, Writing, AfterWrite, Sends,
     Events, Holds, LockFree, StopIsLast, StopOnItsWay, EndMark
<1>29. ASSUME AwaitParser PROVE Healthy'
  BY <1>29 DEF AwaitParser, Healthy, Capturing, Starting, Writing, AfterWrite, Sends,
     Events, Holds, LockFree, StopIsLast, StopOnItsWay, EndMark
<1>30. ASSUME LeaveParser PROVE Healthy'
  BY <1>30 DEF LeaveParser, Healthy, Capturing, Starting, Writing, AfterWrite, Sends,
     Events, Holds, LockFree, StopIsLast, StopOnItsWay, EndMark
<1>31. ASSUME JoinDbg PROVE Healthy'
  BY <1>31 DEF JoinDbg, Healthy, Capturing, Starting, Writing, AfterWrite, Sends,
     Events, Holds, LockFree, StopIsLast, StopOnItsWay, EndMark
<1>32. ASSUME DeleteQueue PROVE Healthy'
  BY <1>32 DEF DeleteQueue, Healthy, Capturing, Starting, Writing, AfterWrite, Sends,
     Events, Holds, LockFree, StopIsLast, StopOnItsWay, EndMark
<1>33. ASSUME Interrupt PROVE Healthy'
  BY <1>33 DEF Interrupt, Healthy
<1>34. ASSUME CloseUsb PROVE Healthy'
  BY <1>34 DEF CloseUsb, Healthy, Capturing, Starting, Writing, AfterWrite, Sends,
     Events, Holds, LockFree, StopIsLast, StopOnItsWay, EndMark
<1>35. ASSUME DeviceCommand PROVE Healthy'
  BY <1>35 DEF DeviceCommand, Healthy
<1>36. ASSUME DeviceData PROVE Healthy'
  BY <1>36 DEF DeviceData, Healthy
<1>37. ASSUME DeviceEmpty PROVE Healthy'
  BY <1>37 DEF DeviceEmpty, Healthy
<1>38. ASSUME DeviceStop PROVE Healthy'
  BY <1>38 DEF DeviceStop, Healthy
<1>39. ASSUME DeviceGone PROVE Healthy'
  BY <1>39 DEF DeviceGone
<1>40. ASSUME TransferTimesOut PROVE Healthy'
  BY <1>40 DEF TransferTimesOut, Healthy
<1> QED
  BY <1>1, <1>2, <1>3, <1>4, <1>5, <1>6, <1>7, <1>8, <1>9, <1>10, <1>11, <1>12, <1>13,
     <1>14, <1>15, <1>16, <1>17, <1>18, <1>19, <1>20, <1>21, <1>22, <1>23, <1>24, <1>25,
     <1>26, <1>27, <1>28, <1>29, <1>30, <1>31, <1>32, <1>33, <1>34, <1>35, <1>36, <1>37,
     <1>38, <1>39, <1>40 DEF Next, Libusb, Reader, Parser, Api, vars, CallbackGet,
     DbgEnds, Tick

(* Every step keeps what the end mark says.                                *)
LEMMA NextEndMark ==
  ASSUME Survivable, IInv, CInv, [Next]_vars
  PROVE  EndMark'
<1> USE SessionAssumption DEF Survivable, IInv, CInv, apiVars, queueVars, usbVars, devVars,
    readerFrame, parserFrame, mainFrame, usbFrame
<1>1. CASE UNCHANGED <<reader, parser, buf_data_q, transfer, device, capture_finish>>
  BY <1>1 DEF EndMark
<1>2. ASSUME NEW t \in Events, LeaveEvents(t) PROVE EndMark'
  BY <1>2 DEF LeaveEvents, EndMark, Submitted
<1>3. ASSUME NEW t \in Events, ReapData(t) PROVE EndMark'
  BY <1>3, QueueSteps DEF ReapData, EndMark
<1>4. ASSUME NEW t \in Events, ReapTimeout(t) PROVE EndMark'
  BY <1>4 DEF ReapTimeout, EndMark
<1>5. ASSUME NEW t \in Events, ReapEmpty(t) PROVE EndMark'
  BY <1>5 DEF ReapEmpty, EndMark
<1>6. ASSUME NEW t \in Events, ReapEnd(t) PROVE EndMark'
  BY <1>6 DEF ReapEnd, EndMark
<1>7. ASSUME CallbackSubmit PROVE EndMark'
  BY <1>7 DEF CallbackSubmit, EndMark
<1>8. ASSUME ReaderInit PROVE EndMark'
  BY <1>8 DEF ReaderInit, EndMark
<1>9. ASSUME ReaderSubmit PROVE EndMark'
  BY <1>9 DEF ReaderSubmit, EndMark
<1>10. ASSUME ReaderCheck PROVE EndMark'
  BY <1>10 DEF ReaderCheck, EndMark
<1>11. ASSUME ReaderMark PROVE EndMark'
  BY <1>11, QueueSteps DEF ReaderMark, EndMark, Healthy, Joined, Buffers
<1>12. ASSUME ReaderCancel PROVE EndMark'
  BY <1>12 DEF ReaderCancel, EndMark
<1>13. ASSUME ReaderToken PROVE EndMark'
  BY <1>13 DEF ReaderToken, EndMark
<1>14. ASSUME ParserTake PROVE EndMark'
  <2>1. /\ Len(buf_data_q') = Len(buf_data_q) - 1 /\ Len(buf_data_q) \in Nat \ {0}
        /\ \A k \in 1 .. Len(buf_data_q') : buf_data_q'[k] = buf_data_q[k + 1]
        /\ parser' = buf_data_q[1]
    BY <1>14 DEF ParserTake, TypeOK
  <2>2. UNCHANGED <<reader, transfer, device, capture_finish>> /\ parser = "wait"
    BY <1>14 DEF ParserTake
  <2>3. ASSUME reader \in {"none", "enter", "submit", "handle", "check", "mark"}
        PROVE  /\ parser' \in {"data", "stop"}
               /\ \A k \in 1 .. Len(buf_data_q') : buf_data_q'[k] # "end"
    BY <1>14, <2>1, <2>3 DEF EndMark, TypeOK
  <2>4. ASSUME reader \in {"cancel", "token", "ended"}
        PROVE  \/ parser' = "end"
               \/ \E k \in 1 .. Len(buf_data_q') : buf_data_q'[k] = "end"
    <3>1. PICK k \in 1 .. Len(buf_data_q) : buf_data_q[k] = "end"
      BY <2>2, <2>4 DEF EndMark
    <3>2. CASE k = 1
      BY <2>1, <3>1, <3>2
    <3>3. CASE k # 1
      <4>1. k - 1 \in 1 .. Len(buf_data_q') /\ buf_data_q'[k - 1] = "end"
        BY <2>1, <3>1, <3>3
      <4> QED  BY <4>1
    <3> QED  BY <3>2, <3>3
  <2> QED  BY <2>2, <2>3, <2>4 DEF EndMark
<1>15. ASSUME ParserProcess PROVE EndMark'
  BY <1>15 DEF ParserProcess, EndMark, StopIsLast, StopOnItsWay, OnlyEnds, Healthy,
     Joined
<1>16. ASSUME ParserFinish PROVE EndMark'
  BY <1>16 DEF ParserFinish, EndMark
<1>17. ASSUME ParserToken PROVE EndMark'
  BY <1>17 DEF ParserToken, EndMark
<1>18. ASSUME StartCapture PROVE EndMark'
  BY <1>18 DEF StartCapture, EndMark, Capturing, Starting, Writing, AfterWrite, Sends,
     Events, Holds, LockFree, StopIsLast, StopOnItsWay, OnlyEnds, Healthy, Joined
<1>19. ASSUME CreateThread PROVE EndMark'
  BY <1>19 DEF CreateThread, EndMark, Capturing, Starting, Writing, AfterWrite, Sends,
     Events, Holds, LockFree, StopIsLast, StopOnItsWay, OnlyEnds, Healthy, Joined
<1>20. ASSUME AwaitReader PROVE EndMark'
  BY <1>20 DEF AwaitReader, EndMark
<1>21. ASSUME CloseUsb PROVE EndMark'
  BY <1>21 DEF CloseUsb, EndMark
<1>22. ASSUME DeviceCommand PROVE EndMark'
  BY <1>22 DEF DeviceCommand, EndMark, Capturing, Starting, Writing, AfterWrite, Sends,
     Events, Holds, LockFree, StopIsLast, StopOnItsWay, OnlyEnds, Healthy, Joined
<1>23. ASSUME DeviceData PROVE EndMark'
  BY <1>23 DEF DeviceData, EndMark, Sends, LockFree, StopIsLast, StopOnItsWay, OnlyEnds,
     Healthy, Joined
<1>24. ASSUME DeviceEmpty PROVE EndMark'
  BY <1>24 DEF DeviceEmpty, EndMark
<1>25. ASSUME DeviceStop PROVE EndMark'
  BY <1>25 DEF DeviceStop, EndMark
<1>26. ASSUME DeviceGone PROVE EndMark'
  BY <1>26 DEF DeviceGone
<1>27. ASSUME TransferTimesOut PROVE EndMark'
  BY <1>27 DEF TransferTimesOut, EndMark
<1> QED
  BY <1>1, <1>2, <1>3, <1>4, <1>5, <1>6, <1>7, <1>8, <1>9, <1>10, <1>11, <1>12, <1>13,
     <1>14, <1>15, <1>16, <1>17, <1>18, <1>19, <1>20, <1>21, <1>22, <1>23, <1>24, <1>25,
     <1>26, <1>27 DEF Next, Libusb, Reader, Parser, Api, vars, EnterEvents, ReapWrite,
     CallbackGet, CreateDbg, WriteSubmit, WriteReturn, Close, StopCapture, LeaveReader,
     AwaitParser, LeaveParser, DbgEnds, JoinDbg, DeleteQueue, Interrupt, Tick

(* A reader that waits for a buffer goes on waiting, and so does a write.    *)
LEMMA StaysStuck ==
  ASSUME Survivable, IInv, CInv, [Next]_vars, Stuck
  PROVE  /\ Stuck'
         /\ main = "write_again" /\ write # "ok" => main' = "write_again" /\ write' # "ok"
<1> DEFINE Goal == /\ Stuck'
                   /\ main = "write_again" /\ write # "ok" =>
                        main' = "write_again" /\ write' # "ok"
<1> USE DEF apiVars, queueVars, usbVars, devVars, readerFrame, parserFrame, mainFrame, usbFrame
<1>1. /\ reader = "handle" /\ Holds("R") /\ ~Holds("M") /\ cb = "get" /\ pool = 0
      /\ parser \in {"none", "ended"} /\ draining /\ main \notin Capturing
      /\ Events = {"R", "M"} /\ ev \in [Events -> {"out", "poll", "served", "wait", "woken"}]
      /\ ~LockFree
  BY DEF Stuck, IInv, TypeOK, Submitted, Stopping, Events, LockFree
<1>2. ASSUME NEW t \in Events, EnterEvents(t) PROVE Goal
  BY <1>1, <1>2 DEF EnterEvents, Stuck, Holds
<1>3. ASSUME NEW t \in Events, LeaveEvents(t) PROVE Goal
  BY <1>1, <1>3 DEF LeaveEvents, Stuck, Holds
<1>4. ~CallbackGet /\ ~CallbackSubmit
  BY <1>1 DEF CallbackGet, CallbackSubmit
<1>11. ~Reader
  BY <1>1 DEF Reader, ReaderInit, ReaderSubmit, ReaderCheck, ReaderMark, ReaderCancel, ReaderToken
<1>12. ~Parser
  BY <1>1 DEF Parser, ParserTake, ParserProcess, ParserFinish, ParserToken
<1>5. ASSUME NEW t \in Events,
             ReapWrite(t) \/ ReapData(t) \/ ReapTimeout(t) \/ ReapEmpty(t) \/ ReapEnd(t)
      PROVE FALSE
  BY <1>1, <1>5 DEF ReapWrite, ReapData, ReapTimeout, ReapEmpty, ReapEnd
<1>6. ASSUME StartCapture \/ CreateThread \/ CreateDbg \/ WriteSubmit \/ Close PROVE Goal
  BY <1>1, <1>6 DEF StartCapture, CreateThread, CreateDbg, WriteSubmit, Close, Stuck, Holds,
     Capturing, Starting, CInv, Healthy, Survivable
<1>7. ASSUME WriteReturn PROVE Goal
  BY <1>1, <1>7 DEF WriteReturn, Stuck, Holds, CInv, Healthy
<1>8. ASSUME \/ StopCapture \/ AwaitReader \/ LeaveReader \/ AwaitParser \/ LeaveParser
             \/ JoinDbg \/ DeleteQueue \/ DbgEnds
      PROVE Goal
  BY <1>1, <1>8 DEF StopCapture, AwaitReader, LeaveReader, AwaitParser, LeaveParser, JoinDbg,
     DeleteQueue, DbgEnds, Stuck, Holds
<1>9. ASSUME Interrupt \/ CloseUsb PROVE Goal
  BY <1>1, <1>9 DEF Interrupt, CloseUsb, Stuck, Holds
<1>10. ASSUME \/ DeviceCommand \/ DeviceData \/ DeviceEmpty \/ DeviceStop \/ DeviceGone
              \/ TransferTimesOut \/ Tick \/ UNCHANGED vars
       PROVE Goal
  BY <1>1, <1>10 DEF DeviceCommand, DeviceData, DeviceEmpty, DeviceStop, DeviceGone,
     TransferTimesOut, Tick, vars, Stuck, Holds
<1> QED  BY <1>2, <1>3, <1>4, <1>5, <1>6, <1>7, <1>8, <1>9, <1>10, <1>11,
              <1>12 DEF Next, Libusb, Api

(* Every step keeps the third try from failing.                            *)
LEMMA NextThirdTime ==
  ASSUME Survivable, IInv, CInv, [Next]_vars
  PROVE  ThirdTime'
<1>0. Stuck => /\ Stuck'
               /\ main = "write_again" /\ write # "ok" => main' = "write_again" /\ write' # "ok"
  BY StaysStuck
<1> USE SessionAssumption, <1>0 DEF Ended, IInv, CInv, apiVars, queueVars, usbVars, devVars,
    readerFrame, parserFrame, mainFrame, usbFrame
<1>1. CASE UNCHANGED <<tries, capture_finish, draining, main, wait_left, reader, ev, write>>
  BY <1>1 DEF ThirdTime, Returning, Leaving
<1>2. ASSUME NEW t \in Events, EnterEvents(t) PROVE ThirdTime'
  BY <1>2 DEF EnterEvents, ThirdTime, Returning, Leaving, Retries, StopIsLast,
     StopOnItsWay, OnlyEnds, Calls
<1>3. ASSUME NEW t \in Events, LeaveEvents(t) PROVE ThirdTime'
  BY <1>3 DEF LeaveEvents, ThirdTime, TypeOK, Submitted, AfterWrite, Sends, Events,
     Holds, LockFree, Healthy, EndMark, Joined, Returning, Leaving, Retries, StopIsLast,
     StopOnItsWay, OnlyEnds
<1>4. ASSUME NEW t \in Events, ReapWrite(t) PROVE ThirdTime'
  BY <1>4 DEF ReapWrite, ThirdTime, TypeOK, Submitted, AfterWrite, Sends, Events, Holds,
     LockFree, Healthy, EndMark, Joined, Returning, Leaving, Retries, StopIsLast,
     StopOnItsWay, OnlyEnds
<1>5. ASSUME NEW t \in Events, ReapData(t) PROVE ThirdTime'
  BY <1>5 DEF ReapData, ThirdTime, Returning, Leaving, Retries, StopIsLast,
     StopOnItsWay, OnlyEnds
<1>6. ASSUME NEW t \in Events, ReapTimeout(t) PROVE ThirdTime'
  BY <1>6 DEF ReapTimeout, ThirdTime, Returning, Leaving, Retries, StopIsLast,
     StopOnItsWay, OnlyEnds
<1>7. ASSUME NEW t \in Events, ReapEmpty(t) PROVE ThirdTime'
  BY <1>7 DEF ReapEmpty, ThirdTime, Returning, Leaving, Retries, StopIsLast,
     StopOnItsWay, OnlyEnds
<1>8. ASSUME NEW t \in Events, ReapEnd(t) PROVE ThirdTime'
  BY <1>8 DEF ReapEnd, ThirdTime, Returning, Leaving, Retries, StopIsLast, StopOnItsWay,
     OnlyEnds
<1>9. ASSUME CallbackSubmit PROVE ThirdTime'
  BY <1>9 DEF CallbackSubmit, ThirdTime, Returning, Leaving, Retries, StopIsLast,
     StopOnItsWay, OnlyEnds
<1>10. ASSUME ReaderInit PROVE ThirdTime'
  BY <1>10 DEF ReaderInit, ThirdTime, Stopping, Starting, Writing, AfterWrite, Sends,
     Events, Holds, LockFree, Healthy, EndMark, Joined, Returning, Leaving, Retries,
     StopIsLast, StopOnItsWay, OnlyEnds
<1>11. ASSUME ReaderSubmit PROVE ThirdTime'
  BY <1>11 DEF ReaderSubmit, ThirdTime, Returning, Leaving, Retries, StopIsLast,
     StopOnItsWay, OnlyEnds
<1>12. ASSUME ReaderCheck PROVE ThirdTime'
  BY <1>12 DEF ReaderCheck, ThirdTime, Returning, Leaving, Retries, StopIsLast,
     StopOnItsWay, OnlyEnds
<1>13. ASSUME ReaderMark PROVE ThirdTime'
  BY <1>13 DEF ReaderMark, ThirdTime, Returning, Leaving, Retries, StopIsLast,
     StopOnItsWay, OnlyEnds
<1>14. ASSUME ReaderCancel PROVE ThirdTime'
  BY <1>14 DEF ReaderCancel, ThirdTime, Returning, Leaving, Retries, StopIsLast,
     StopOnItsWay, OnlyEnds
<1>15. ASSUME ReaderToken PROVE ThirdTime'
  BY <1>15 DEF ReaderToken, ThirdTime, Returning, Leaving, Retries, StopIsLast,
     StopOnItsWay, OnlyEnds
<1>16. ASSUME ParserFinish PROVE ThirdTime'
  BY <1>16 DEF ParserFinish, ThirdTime, Returning, Leaving, Retries, StopIsLast,
     StopOnItsWay, OnlyEnds
<1>17. ASSUME StartCapture PROVE ThirdTime'
  BY <1>17 DEF StartCapture, ThirdTime, Stopping, Capturing, Starting, Writing,
     AfterWrite, Sends, Events, Holds, LockFree, Healthy, EndMark, Joined, Returning,
     Leaving, Retries, StopIsLast, StopOnItsWay, OnlyEnds
<1>18. ASSUME CreateThread PROVE ThirdTime'
  BY <1>18 DEF CreateThread, ThirdTime, Stopping, Capturing, Starting, Writing, AfterWrite, Sends,
     Events, Holds, LockFree, Healthy, EndMark, Joined, Returning, Leaving, Retries,
     StopIsLast, StopOnItsWay, OnlyEnds
<1>19. ASSUME CreateDbg PROVE ThirdTime'
  BY <1>19 DEF CreateDbg, ThirdTime, Capturing, Starting, Writing, AfterWrite, Sends,
     Events, Holds, LockFree, Healthy, EndMark, Joined, Returning, Leaving, Retries,
     StopIsLast, StopOnItsWay, OnlyEnds
<1>20. ASSUME WriteSubmit PROVE ThirdTime'
  BY <1>20 DEF WriteSubmit, ThirdTime, Returning, Leaving, Retries, StopIsLast,
     StopOnItsWay, OnlyEnds
<1>21. ASSUME WriteReturn PROVE ThirdTime'
  BY <1>21 DEF WriteReturn, ThirdTime, Stopping, Starting, Writing, AfterWrite, Sends,
     Events, Holds, LockFree, Healthy, EndMark, Joined, Returning, Leaving, Retries,
     StopIsLast, StopOnItsWay, OnlyEnds
<1>22. ASSUME Close PROVE ThirdTime'
  BY <1>22 DEF Close, ThirdTime, Returning, Leaving, Retries, StopIsLast, StopOnItsWay,
     OnlyEnds
<1>23. ASSUME StopCapture PROVE ThirdTime'
  BY <1>23 DEF StopCapture, ThirdTime, Returning, Leaving, Retries, StopIsLast,
     StopOnItsWay, OnlyEnds
<1>24. ASSUME AwaitReader PROVE ThirdTime'
  <2>1. tries \in {0, 1, 2} /\ draining
    BY <1>24 DEF AwaitReader, ThirdTime, TypeOK, Stopping, Retries
  <2>2. CASE data_reader_q > 0
    BY <1>24, <2>1, <2>2 DEF AwaitReader, ThirdTime, Returning
  <2>3. CASE data_reader_q = 0
    <3>1. wait_left = 0 /\ capture_finish' = TRUE /\ tries' = tries + 1 /\ main' = "write_again"
      BY <1>24, <2>3 DEF AwaitReader
    <3>2. UNCHANGED <<write, reader, ev, draining>>
      BY <1>24 DEF AwaitReader
    <3>3. tries = 2 => reader = "none" \/ Stuck
      BY <1>24, <2>3, <3>1 DEF AwaitReader, ThirdTime, Joined
    <3>4. tries = 1 => Returning'
      BY <1>24, <3>1, <3>2 DEF AwaitReader, ThirdTime, Returning
    <3>5. write = "idle"
      BY <1>24 DEF AwaitReader, Submitted, Writing
    <3> QED
      BY <2>1, <3>1, <3>2, <3>3, <3>4, <3>5 DEF ThirdTime, Leaving
  <2> QED
    BY <1>24, <2>2, <2>3 DEF AwaitReader
<1>25. ASSUME LeaveReader PROVE ThirdTime'
  BY <1>25 DEF LeaveReader, ThirdTime, Returning, Leaving, Retries, StopIsLast,
     StopOnItsWay, OnlyEnds
<1>26. ASSUME AwaitParser PROVE ThirdTime'
  BY <1>26 DEF AwaitParser, ThirdTime, Returning, Leaving, Retries, StopIsLast,
     StopOnItsWay, OnlyEnds
<1>27. ASSUME LeaveParser PROVE ThirdTime'
  BY <1>27 DEF LeaveParser, ThirdTime, Returning, Leaving, Retries, StopIsLast,
     StopOnItsWay, OnlyEnds
<1>28. ASSUME JoinDbg PROVE ThirdTime'
  BY <1>28 DEF JoinDbg, ThirdTime, Returning, Leaving, Retries, StopIsLast,
     StopOnItsWay, OnlyEnds
<1>29. ASSUME DeleteQueue PROVE ThirdTime'
  BY <1>29 DEF DeleteQueue, ThirdTime, Returning, Leaving, Retries, StopIsLast,
     StopOnItsWay, OnlyEnds
<1>30. ASSUME Interrupt PROVE ThirdTime'
  BY <1>30 DEF Interrupt, Submitted, LockFree, Healthy, EndMark, Joined, Returning,
     Leaving, Retries, StopIsLast, StopOnItsWay, OnlyEnds
<1>31. ASSUME CloseUsb PROVE ThirdTime'
  BY <1>31 DEF CloseUsb, ThirdTime, LockFree, Healthy, EndMark, Joined, Returning,
     Leaving, Retries, StopIsLast, StopOnItsWay, OnlyEnds
<1>32. ASSUME DeviceCommand PROVE ThirdTime'
  BY <1>32 DEF DeviceCommand, ThirdTime, Returning, Leaving, Retries, StopIsLast,
     StopOnItsWay, OnlyEnds
<1>33. ASSUME Tick PROVE ThirdTime'
  <2>1. /\ UNCHANGED <<main, tries, draining, capture_finish, reader, ev, write>>
        /\ Quiescent
    BY <1>33 DEF Tick
  <2>2. CASE main # "wait_reader"
    BY <2>1, <2>2 DEF ThirdTime, Returning, Leaving
  <2>3. CASE main = "wait_reader"
    <3>1. Returning'
      BY <2>1, <2>3 DEF Quiescent, Blocked, Returning, Healthy, Holds
    <3>2. ev["M"] = "out"
      BY <2>3 DEF Healthy, Writing
    <3>3. ASSUME tries = 2, ~Ended(reader) PROVE Stuck
      <4>1. ev["R"] \in {"served", "woken"} /\ reader = "handle" /\ draining
        BY <2>1, <2>3, <3>2, <3>3 DEF ThirdTime, Leaving, Quiescent, Returning
      <4>2. Holds("R") /\ cb = "get" /\ pool = 0
        BY <2>1, <4>1 DEF Quiescent, Blocked
      <4>3. parser \in {"none", "ended"} \/ (buf_data_q = <<>> /\ parser = "wait")
        BY <2>1 DEF Quiescent, Survivable
      <4>4. ASSUME buf_data_q = <<>>, parser = "wait" PROVE FALSE
        <5>1. Count(buf_data_q, {"data", "stop"}) = 0
          BY <4>4, CountEmpty
        <5> QED  BY <4>2, <4>4, <5>1 DEF BufferAccounting, WithTransfer
      <4> QED  BY <4>1, <4>2, <4>3, <4>4 DEF Stuck
    <3> QED  BY <2>1, <2>3, <3>1, <3>3 DEF ThirdTime, Leaving
  <2> QED  BY <2>2, <2>3
<1> QED
  BY <1>1, <1>2, <1>3, <1>4, <1>5, <1>6, <1>7, <1>8, <1>9, <1>10, <1>11, <1>12, <1>13,
     <1>14, <1>15, <1>16, <1>17, <1>18, <1>19, <1>20, <1>21, <1>22, <1>23, <1>24, <1>25,
     <1>26, <1>27, <1>28, <1>29, <1>30, <1>31, <1>32, <1>33 DEF Next, Libusb, Reader,
     Parser, Api, vars, CallbackGet, ParserTake, ParserProcess, ParserToken, DbgEnds,
     DeviceData, DeviceEmpty, DeviceStop, DeviceGone, TransferTimesOut

(* Every step keeps the tokens, the joins and the queues in order.         *)
LEMMA NextJoined ==
  ASSUME Survivable, IInv, CInv, [Next]_vars
  PROVE  Joined'
<1> USE SessionAssumption DEF Ended, IInv, CInv, apiVars, queueVars, usbVars, devVars,
    readerFrame, parserFrame, mainFrame, usbFrame
<1>1. CASE UNCHANGED <<reader, parser, data_reader_q, data_parser_q, main, wait_left, dbg,
    queues>>
  BY <1>1 DEF Joined
<1>2. ASSUME NEW t \in Events, LeaveEvents(t) PROVE Joined'
  BY <1>2 DEF LeaveEvents, Joined, Submitted
<1>3. ASSUME ReaderInit PROVE Joined'
  BY <1>3 DEF ReaderInit, Joined
<1>4. ASSUME ReaderSubmit PROVE Joined'
  BY <1>4 DEF ReaderSubmit, Joined
<1>5. ASSUME ReaderCheck PROVE Joined'
  BY <1>5 DEF ReaderCheck, Joined
<1>6. ASSUME ReaderMark PROVE Joined'
  BY <1>6 DEF ReaderMark, Joined
<1>7. ASSUME ReaderCancel PROVE Joined'
  BY <1>7 DEF ReaderCancel, Joined
<1>8. ASSUME ReaderToken PROVE Joined'
  BY <1>8 DEF ReaderToken, Joined, Threads
<1>9. ASSUME ParserTake PROVE Joined'
  BY <1>9 DEF ParserTake, Joined, TypeOK
<1>10. ASSUME ParserProcess PROVE Joined'
  BY <1>10 DEF ParserProcess, Joined
<1>11. ASSUME ParserFinish PROVE Joined'
  BY <1>11 DEF ParserFinish, Joined
<1>12. ASSUME ParserToken PROVE Joined'
  BY <1>12 DEF ParserToken, Joined, Threads
<1>13. ASSUME StartCapture PROVE Joined'
  BY <1>13 DEF StartCapture, Joined, Capturing, Starting, Writing, AfterWrite, Sends,
     Events, Holds, LockFree, Healthy, EndMark, ThirdTime, Retries, Queues
<1>14. ASSUME CreateThread PROVE Joined'
  BY <1>14 DEF CreateThread, Joined, Capturing, Starting, Writing, AfterWrite, Sends,
     Events, Holds, LockFree, Healthy, EndMark, ThirdTime, Retries, Queues
<1>15. ASSUME CreateDbg PROVE Joined'
  BY <1>15 DEF CreateDbg, Joined, Capturing, Starting, Writing, AfterWrite, Sends,
     Events, Holds, LockFree, Healthy, EndMark, ThirdTime, Retries, Queues
<1>16. ASSUME WriteReturn PROVE Joined'
  BY <1>16 DEF WriteReturn, Joined, Capturing, Starting, Writing, AfterWrite, Sends,
     Events, Holds, LockFree, Healthy, EndMark, ThirdTime, Retries, Queues
<1>17. ASSUME Close PROVE Joined'
  BY <1>17 DEF Close, Joined, Capturing, LockFree, Healthy, EndMark, ThirdTime, Retries,
     Queues
<1>18. ASSUME StopCapture PROVE Joined'
  BY <1>18 DEF StopCapture, Joined, Capturing, LockFree, Healthy, EndMark, ThirdTime,
     Retries, Queues
<1>19. ASSUME AwaitReader PROVE Joined'
  BY <1>19 DEF AwaitReader, Joined, Capturing, Starting, Writing, AfterWrite, Sends,
     Events, Holds, LockFree, Healthy, EndMark, ThirdTime, Retries, Queues
<1>20. ASSUME LeaveReader PROVE Joined'
  BY <1>20 DEF LeaveReader, Joined, Capturing, Starting, Writing, AfterWrite, Sends,
     Events, Holds, LockFree, Healthy, EndMark, ThirdTime, Retries, Queues
<1>21. ASSUME AwaitParser PROVE Joined'
  BY <1>21 DEF AwaitParser, Joined, Capturing, Starting, Writing, AfterWrite, Sends,
     Events, Holds, LockFree, Healthy, EndMark, ThirdTime, Retries, Queues
<1>22. ASSUME LeaveParser PROVE Joined'
  BY <1>22 DEF LeaveParser, Joined, Capturing, Starting, Writing, AfterWrite, Sends,
     Events, Holds, LockFree, Healthy, EndMark, ThirdTime, Retries, Queues
<1>23. ASSUME DbgEnds PROVE Joined'
  BY <1>23 DEF DbgEnds, Joined
<1>24. ASSUME JoinDbg PROVE Joined'
  BY <1>24 DEF JoinDbg, Joined, Capturing, Starting, Writing, AfterWrite, Sends, Events,
     Holds, LockFree, Healthy, EndMark, ThirdTime, Retries, Queues
<1>25. ASSUME DeleteQueue PROVE Joined'
  BY <1>25 DEF DeleteQueue, Joined, Capturing, Starting, Writing, AfterWrite, Sends,
     Events, Holds, LockFree, Healthy, EndMark, ThirdTime, Retries, Queues
<1>26. ASSUME CloseUsb PROVE Joined'
  BY <1>26 DEF CloseUsb, Joined, Capturing, Starting, Writing, AfterWrite, Sends,
     Events, Holds, LockFree, Healthy, EndMark, ThirdTime, Retries, Queues
<1>27. ASSUME Tick PROVE Joined'
  BY <1>27 DEF Tick, Joined, LockFree, Healthy, EndMark, ThirdTime, Retries, Queues,
     Quiescent, Blocked, ToReap, Survivable
<1> QED
  BY <1>1, <1>2, <1>3, <1>4, <1>5, <1>6, <1>7, <1>8, <1>9, <1>10, <1>11, <1>12, <1>13,
     <1>14, <1>15, <1>16, <1>17, <1>18, <1>19, <1>20, <1>21, <1>22, <1>23, <1>24, <1>25,
     <1>26, <1>27 DEF Next, Libusb, Reader, Parser, Api, vars, EnterEvents, ReapWrite,
     ReapData, ReapTimeout, ReapEmpty, ReapEnd, CallbackGet, CallbackSubmit,
     WriteSubmit, Interrupt, DeviceCommand, DeviceData, DeviceEmpty, DeviceStop,
     DeviceGone, TransferTimesOut

LEMMA CloseInvariant ==
  ASSUME Survivable
  PROVE  Spec => []CInv
<1>1. Init => CInv
  <2> SUFFICES ASSUME Init PROVE CInv
    OBVIOUS
  <2> USE DEF Init, Events
  <2>1. StopIsLast /\ Healthy
    BY DEF StopIsLast, StopOnItsWay, OnlyEnds, Healthy
  <2>2. EndMark /\ ThirdTime
    BY DEF EndMark, ThirdTime
  <2>3. Joined
    BY DEF Joined
  <2> QED  BY <2>1, <2>2, <2>3 DEF CInv
<1>2. IInv /\ CInv /\ [Next]_vars => CInv'
  BY NextStopIsLast, NextHealthy, NextEndMark, NextThirdTime, NextJoined DEF CInv
<1> QED  BY <1>1, <1>2, InductiveInvariant, PTL DEF Spec

(* A close that returns success leaves no thread running, however late the *)
(* analyser stops and whatever the timeouts are.  Where a thread could not *)
(* be created close may crash instead of returning; if it returns, this    *)
(* holds of the threads there are.                                         *)
THEOREM CloseJoinsThreads ==
  ASSUME Survivable
  PROVE  Spec => []CloseMeansStopped
<1>1. IInv /\ CInv => CloseMeansStopped
  <2> SUFFICES ASSUME IInv, CInv, main = "closed"
               PROVE  Ended(reader) /\ Ended(parser) /\ Ended(dbg)
    BY DEF CloseMeansStopped
  <2>1. Ended(reader) /\ Ended(parser) /\ dbg \notin {"run", "finish"}
    BY DEF CInv, Joined
  <2> QED  BY <2>1 DEF Ended, IInv, TypeOK
<1> QED  BY <1>1, CloseInvariant, InductiveInvariant, PTL

(* Then no queue is deleted before the threads that use it have ended.     *)
THEOREM QueuesKept ==
  ASSUME Survivable
  PROVE  Spec => []QueuesOutliveThreads
<1>1. IInv /\ CInv => QueuesOutliveThreads
  BY DEF IInv, Threads, CInv, Joined, QueuesOutliveThreads, Ended, Queues
<1> QED  BY <1>1, CloseInvariant, InductiveInvariant, PTL

-----------------------------------------------------------------------------
(* A deadline is what sem_timedwait takes, and ms milliseconds from now.   *)
Nanoseconds == {n \in Nat : n < 1000000000}
Timespecs == [tv_sec : Nat, tv_nsec : Nanoseconds]
Exact(now, ms) ==
    LET d == Deadline(now, ms)
    IN  /\ d.tv_nsec \in Nanoseconds
        /\ d.tv_sec * 1000000000 + d.tv_nsec
              = now.tv_sec * 1000000000 + now.tv_nsec + ms * 1000000

(* The timeouts de_q_timeout can wait for whatever the time is: those up   *)
(* to 1147 ms, stop_capture's 1000 among them.  From 1148 ms on the sum is *)
(* too large for an int at the end of a second, and the deadline is wrong. *)
(* (From 2148 ms on the product itself overflows.)                         *)
THEOREM DeadlineExact ==
  ASSUME NEW ms \in Nat, ms < 2148
  PROVE  (\A now \in Timespecs : Exact(now, ms)) <=> ms <= 1147
<1>1. ASSUME ms <= 1147, NEW now \in Timespecs PROVE Exact(now, ms)
  <2> DEFINE s == now.tv_sec
             m == now.tv_nsec
             n == m + ms * 1000000
  <2>1. s \in Nat /\ m \in Nat /\ m < 1000000000
    BY DEF Timespecs, Nanoseconds
  <2>2. n \in Nat /\ n < 2147483648
    BY <1>1, <2>1
  <2>3. Stored(n) = n
    <3> HIDE DEF n
    <3>1. (n + 2147483648) % 4294967296 = n + 2147483648
      BY <2>2
    <3> QED  BY <2>2, <3>1 DEF Stored
  <2> DEFINE q == n \div 1000000000
  <2>4. Deadline(now, ms) = [tv_sec |-> s + q, tv_nsec |-> n - q * 1000000000]
    BY <2>2, <2>3 DEF Deadline
  <2>5. q \in Nat /\ n - q * 1000000000 >= 0 /\ n - q * 1000000000 < 1000000000
    <3> HIDE DEF n
    <3> QED  BY <2>2
  <2>6. (s + q) * 1000000000 + (n - q * 1000000000) = s * 1000000000 + m + ms * 1000000
    <3> HIDE DEF q
    <3> QED  BY <2>1, <2>2, <2>5
  <2> HIDE DEF n, q, s
  <2>7. n - q * 1000000000 \in Nanoseconds
    BY <2>2, <2>5 DEF Nanoseconds
  <2> QED  BY <2>4, <2>6, <2>7 DEF Exact, s
<1>2. ASSUME ms > 1147 PROVE ~Exact([tv_sec |-> 0, tv_nsec |-> 999999999], ms)
  <2> DEFINE n == 999999999 + ms * 1000000
             r == n - 4294967296
             carry == IF r >= 0 THEN r \div 1000000000 ELSE -((-r) \div 1000000000)
  <2>1. n \in Nat /\ n >= 2147483648 /\ n < 4294967296 /\ r \in Int /\ r < 0 /\ r # n
    BY <1>2
  <2>2. Stored(n) = r
    <3> HIDE DEF n
    <3>1. (n + 2147483648) % 4294967296 = n - 2147483648
      BY <2>1
    <3> QED  BY <2>1, <3>1 DEF Stored
  <2>3. Deadline([tv_sec |-> 0, tv_nsec |-> 999999999], ms)
          = [tv_sec |-> 0 + carry, tv_nsec |-> r - carry * 1000000000]
    BY <2>2 DEF Deadline
  <2>4. carry \in Int
    <3> HIDE DEF r
    <3> QED  BY <2>1
  <2>5. (0 + carry) * 1000000000 + (r - carry * 1000000000) = r
    <3> HIDE DEF carry, r
    <3> QED  BY <2>1, <2>4
  <2>6. 0 * 1000000000 + 999999999 + ms * 1000000 = n
    OBVIOUS
  <2> HIDE DEF n, r, carry
  <2> QED  BY <2>1, <2>3, <2>5, <2>6 DEF Exact
<1>3. [tv_sec |-> 0, tv_nsec |-> 999999999] \in Timespecs
  BY DEF Timespecs, Nanoseconds
<1>4. ms > 1147 \/ ms <= 1147
  OBVIOUS
<1> QED
  BY <1>1, <1>2, <1>3, <1>4
=============================================================================
