--------------------------- MODULE CaptureSession ---------------------------
(***************************************************************************)
(* One capture of an upv_s object, from start_capture to close: the API    *)
(* thread, the reader, parser and debug threads, the transfer that carries *)
(* the data and the libusb events that complete it, the three queues, the  *)
(* buffer pool and the flag capture_finish that all of them read or write. *)
(*                                                                         *)
(* What the words of the data mean is PacketParser's: here a filled buffer *)
(* holds "data" or, when it ends with the STOP word, "stop".               *)
(*                                                                         *)
(* Time passes in ticks of the transfer's timeout (1000 ms), and only when *)
(* no thread has anything to do (Quiescent): threads are prompt, except    *)
(* the parser when the user's packet_handler is slow.                      *)
(***************************************************************************)
EXTENDS Integers, Sequences, FiniteSets

CONSTANTS
    PoolCount,        \* buffers of mem_pool (32)
    MaxData,          \* bound: filled buffers the analyser sends before STOP
    TransferTimeout,  \* of the data transfer, in ticks (1000 ms)
    StopTimeout,      \* the argument of stop_capture, in ticks (1000 ms)
    Faults            \* what may go wrong, see below

\* Mutant: stop_capture tries once.
Retries_Once == 1

Retries == 3

(* "create"   pthread_create fails, and the process may crash later on     *)
(* "write"    a bulk write of START or STOP fails                          *)
(* "submit"   libusb_submit_transfer fails                                 *)
(* "device"   the data transfer fails: the device is gone                  *)
(* "partial"  the transfer times out with data already received            *)
(* "empty"    the analyser ends a transfer with no data                    *)
(* "events"   libusb_handle_events_completed returns an error, or returns   *)
(*            with nothing done when its 60 s are up                       *)
(* "late"     the analyser answers STOP after a while, or goes on sending  *)
(* "slow"     packet_handler takes its time                                *)
(* "echo"     the payload of a packet holds the STOP word                  *)
ASSUME SessionAssumption ==
    /\ PoolCount \in Nat \ {0} /\ MaxData \in Nat
    /\ TransferTimeout \in Nat \ {0} /\ StopTimeout \in Nat \ {0}
    /\ Faults \subseteq {"create", "write", "submit", "device", "partial",
                         "empty", "events", "late", "slow", "echo"}

VARIABLES
    main,      \* where the API thread is
    tries,     \* the loop variable of stop_capture
    result,    \* the upv_result start_capture or stop_capture returns
    reader, parser, dbg,    \* where the other threads are
    capture_finish,         \* BOOLEAN
    draining,               \* stop_capture has set data_state = 4
    queues,    \* the queues that exist
    buf_data_q, data_reader_q, data_parser_q,
    pool,      \* the semaphore of mem_pool
    ev,        \* [t] where thread t is in libusb_handle_events_completed
    cb,        \* where usb_data_callback is; the thread with the events lock runs it
    transfer,  \* the data transfer
    write,     \* the API thread's synchronous write
    device,    \* what the analyser is doing
    sent,      \* filled buffers the analyser has sent
    parsed,    \* those of them the parser has been through
    xfer_left, \* ticks before the transfer times out
    wait_left  \* ticks before sem_timedwait gives up

apiVars   == <<main, tries, result, draining, queues, wait_left>>
queueVars == <<buf_data_q, data_reader_q, data_parser_q>>
usbVars   == <<ev, cb, transfer, write, xfer_left>>
devVars   == <<device, sent>>
vars == <<apiVars, queueVars, usbVars, devVars, reader, parser, dbg,
          capture_finish, pool, parsed>>

Events == {"R", "M"}      \* the threads that handle events: reader and API
Queues == {"buf", "reader", "parser"}
Writing == {"write_start", "write_stop", "write_again"}

Init ==
    /\ main = "idle" /\ tries = 0 /\ result = "Success"
    /\ reader = "none" /\ parser = "none" /\ dbg = "none"
    /\ capture_finish = TRUE /\ draining = FALSE
    /\ queues = {}
    /\ buf_data_q = <<>> /\ data_reader_q = 0 /\ data_parser_q = 0
    /\ pool = PoolCount
    /\ ev = [t \in Events |-> "out"] /\ cb = "none"
    /\ transfer = "none" /\ write = "idle"
    /\ device = "idle" /\ sent = 0 /\ parsed = 0
    /\ xfer_left = 0 /\ wait_left = 0

-----------------------------------------------------------------------------
(* libusb: one thread at a time has the events lock, reaps what the kernel *)
(* has completed and runs the callbacks; the others wait until it has let  *)
(* go of the lock, and then return as well.  While a device is closed no   *)
(* thread gets the lock.                                                   *)

Holds(t) == ev[t] \in {"poll", "served"}
LockFree == \A t \in Events : ~Holds(t)

\* Thread t calls libusb_handle_events_completed.  The API thread does so for
\* a synchronous write, until the write has been reaped.
Calls(t) == IF t = "R" THEN reader = "handle"
                       ELSE main \in Writing /\ write \in {"sent", "done", "failed"}

EnterEvents(t) ==
    /\ Calls(t) /\ ev[t] = "out"
    /\ ev' = [ev EXCEPT ![t] = IF LockFree /\ main # "close_usb" THEN "poll" ELSE "wait"]
    /\ UNCHANGED <<apiVars, queueVars, cb, transfer, write, xfer_left, devVars,
                   reader, parser, dbg, capture_finish, pool, parsed>>

\* Mutant: the waiting threads are not woken.
LeaveEvents_NoBroadcast(t) ==
    /\ ev[t] = "served" /\ cb = "none"
    /\ ev' = [ev EXCEPT ![t] = "out"]
    /\ reader' = IF t = "R" THEN "check" ELSE reader
    /\ \/ UNCHANGED capture_finish
       \/ t = "R" /\ "events" \in Faults /\ capture_finish' = TRUE
    /\ UNCHANGED <<apiVars, queueVars, cb, transfer, write, xfer_left, devVars,
                   parser, dbg, pool, parsed>>

\* The reader goes on to its loop condition; the API thread looks at its write.
LeaveEvents(t) ==
    /\ \/ /\ ev[t] = "served" \/ (ev[t] = "poll" /\ "events" \in Faults)
          /\ cb = "none"
          /\ ev' = [u \in Events |-> IF u = t THEN "out"
                                     ELSE IF ev[u] = "wait" THEN "woken"
                                     ELSE ev[u]]
       \/ /\ ev[t] = "woken"
          /\ ev' = [ev EXCEPT ![t] = "out"]
    /\ reader' = IF t = "R" THEN "check" ELSE reader
    /\ \/ UNCHANGED capture_finish
       \/ t = "R" /\ "events" \in Faults /\ capture_finish' = TRUE
    /\ UNCHANGED <<apiVars, queueVars, cb, transfer, write, xfer_left, devVars,
                   parser, dbg, pool, parsed>>

ReapWrite(t) ==
    /\ Holds(t) /\ cb = "none"
    /\ write \in {"done", "failed"}
    /\ write' = IF write = "done" THEN "ok" ELSE "bad"
    /\ ev' = [ev EXCEPT ![t] = "served"]
    /\ UNCHANGED <<apiVars, queueVars, cb, transfer, xfer_left, devVars, reader,
                   parser, dbg, capture_finish, pool, parsed>>

\* Mutant: what comes after the stop request is not queued, except STOP.
ReapData_Drop(t) ==
    /\ Holds(t) /\ cb = "none"
    /\ transfer \in {"data", "stop"}
    /\ "buf" \in queues
    /\ buf_data_q' = IF draining /\ transfer = "data" THEN buf_data_q
                     ELSE Append(buf_data_q, transfer)
    /\ transfer' = "idle"
    /\ cb' = "get"
    /\ ev' = [ev EXCEPT ![t] = "served"]
    /\ UNCHANGED <<apiVars, data_reader_q, data_parser_q, write, xfer_left,
                   devVars, reader, parser, dbg, capture_finish, pool, parsed>>

\* usb_data_callback, LIBUSB_TRANSFER_COMPLETED: the buffer goes to the parser.
ReapData(t) ==
    /\ Holds(t) /\ cb = "none"
    /\ transfer \in {"data", "stop"}
    /\ "buf" \in queues
    /\ buf_data_q' = Append(buf_data_q, transfer)
    /\ transfer' = "idle"
    /\ cb' = "get"
    /\ ev' = [ev EXCEPT ![t] = "served"]
    /\ UNCHANGED <<apiVars, data_reader_q, data_parser_q, write, xfer_left,
                   devVars, reader, parser, dbg, capture_finish, pool, parsed>>

\* mem_pool.get() in the callback waits for a buffer, with the events lock held.
CallbackGet ==
    /\ cb = "get"
    /\ pool > 0
    /\ pool' = pool - 1
    /\ cb' = "submit"
    /\ UNCHANGED <<apiVars, queueVars, ev, transfer, write, xfer_left, devVars,
                   reader, parser, dbg, capture_finish, parsed>>

\* Mutant: capture_finish = ret < 0.
CallbackSubmit_Assign ==
    /\ cb = "submit"
    /\ cb' = "none"
    /\ \/ /\ transfer' = "flight" /\ xfer_left' = TransferTimeout
          /\ capture_finish' = FALSE
       \/ /\ "submit" \in Faults
          /\ capture_finish' = TRUE
          /\ UNCHANGED <<transfer, xfer_left>>
    /\ UNCHANGED <<apiVars, queueVars, ev, write, devVars, reader, parser, dbg,
                   pool, parsed>>

CallbackSubmit ==
    /\ cb = "submit"
    /\ cb' = "none"
    /\ \/ /\ transfer' = "flight" /\ xfer_left' = TransferTimeout
          /\ UNCHANGED capture_finish
       \/ /\ "submit" \in Faults
          /\ capture_finish' = TRUE
          /\ UNCHANGED <<transfer, xfer_left>>
    /\ UNCHANGED <<apiVars, queueVars, ev, write, devVars, reader, parser, dbg,
                   pool, parsed>>

\* LIBUSB_TRANSFER_TIMED_OUT: submitted again unless the capture finishes;
\* what the transfer has received is not looked at.
ReapTimeout(t) ==
    /\ Holds(t) /\ cb = "none"
    /\ transfer \in {"timeout", "timeout_data"}
    /\ transfer' = "idle"
    /\ cb' = IF capture_finish THEN "none" ELSE "submit"
    /\ ev' = [ev EXCEPT ![t] = "served"]
    /\ UNCHANGED <<apiVars, queueVars, write, xfer_left, devVars, reader, parser,
                   dbg, capture_finish, pool, parsed>>

\* LIBUSB_TRANSFER_COMPLETED with an actual_length of 0: submitted again, with
\* the same buffer.
ReapEmpty(t) ==
    /\ Holds(t) /\ cb = "none"
    /\ transfer = "empty"
    /\ transfer' = "idle"
    /\ cb' = "submit"
    /\ ev' = [ev EXCEPT ![t] = "served"]
    /\ UNCHANGED <<apiVars, queueVars, write, xfer_left, devVars, reader, parser,
                   dbg, capture_finish, pool, parsed>>

\* LIBUSB_TRANSFER_CANCELLED, and all the errors.
ReapEnd(t) ==
    /\ Holds(t) /\ cb = "none"
    /\ transfer \in {"cancelled", "error"}
    /\ transfer' = "idle"
    /\ capture_finish' = TRUE
    /\ ev' = [ev EXCEPT ![t] = "served"]
    /\ UNCHANGED <<apiVars, queueVars, cb, write, xfer_left, devVars, reader,
                   parser, dbg, pool, parsed>>

Libusb == \/ \E t \in Events : \/ EnterEvents(t) \/ LeaveEvents(t) \/ ReapWrite(t)
                               \/ ReapData(t) \/ ReapTimeout(t) \/ ReapEmpty(t)
                               \/ ReapEnd(t)
          \/ CallbackGet \/ CallbackSubmit

-----------------------------------------------------------------------------
(* The reader thread.                                                      *)

readerFrame == <<apiVars, ev, cb, write, devVars, parser, dbg, parsed>>

ReaderInit ==
    /\ reader = "enter"
    /\ pool > 0 /\ pool' = pool - 1
    /\ capture_finish' = FALSE
    /\ reader' = "submit"
    /\ UNCHANGED <<readerFrame, queueVars, transfer, xfer_left>>

ReaderSubmit ==
    /\ reader = "submit"
    /\ \/ /\ transfer' = "flight" /\ xfer_left' = TransferTimeout
          /\ reader' = "handle"
          /\ UNCHANGED capture_finish
       \/ /\ "submit" \in Faults
          /\ capture_finish' = TRUE
          /\ reader' = "mark_failed"
          /\ UNCHANGED <<transfer, xfer_left>>
    /\ UNCHANGED <<readerFrame, queueVars, pool>>

\* } while (!capture_finish)
ReaderCheck ==
    /\ reader = "check"
    /\ reader' = IF capture_finish THEN "mark" ELSE "handle"
    /\ UNCHANGED <<readerFrame, queueVars, transfer, xfer_left, capture_finish, pool>>

\* Mutant: the failure path sends the reader's token as well.
ReaderMark_TokenTwice ==
    /\ reader \in {"mark", "mark_failed"}
    /\ "buf" \in queues
    /\ buf_data_q' = Append(buf_data_q, "end")
    /\ data_reader_q' = IF reader = "mark" THEN data_reader_q ELSE data_reader_q + 1
    /\ reader' = IF reader = "mark" THEN "cancel" ELSE "token"
    /\ UNCHANGED <<readerFrame, data_parser_q, transfer, xfer_left,
                   capture_finish, pool>>

\* buf_data_q->en_q({0,0})
ReaderMark ==
    /\ reader \in {"mark", "mark_failed"}
    /\ "buf" \in queues
    /\ buf_data_q' = Append(buf_data_q, "end")
    /\ reader' = IF reader = "mark" THEN "cancel" ELSE "token"
    /\ UNCHANGED <<readerFrame, data_reader_q, data_parser_q, transfer, xfer_left,
                   capture_finish, pool>>

ReaderCancel ==
    /\ reader = "cancel"
    /\ transfer' = IF transfer = "flight" THEN "cancelled" ELSE transfer
    /\ reader' = "token"
    /\ UNCHANGED <<readerFrame, queueVars, xfer_left, capture_finish, pool>>

\* data_reader_q->en_q(0)
ReaderToken ==
    /\ reader = "token"
    /\ "reader" \in queues
    /\ data_reader_q' = data_reader_q + 1
    /\ reader' = "ended"
    /\ UNCHANGED <<readerFrame, buf_data_q, data_parser_q, transfer, xfer_left,
                   capture_finish, pool>>

Reader == \/ ReaderInit \/ ReaderSubmit \/ ReaderCheck \/ ReaderMark
          \/ ReaderCancel \/ ReaderToken

-----------------------------------------------------------------------------
(* The parser thread.                                                      *)

parserFrame == <<apiVars, usbVars, devVars, reader, dbg>>

ParserTake ==
    /\ parser = "wait"
    /\ "buf" \in queues /\ buf_data_q # <<>>
    /\ parser' = Head(buf_data_q)
    /\ buf_data_q' = Tail(buf_data_q)
    /\ UNCHANGED <<parserFrame, data_reader_q, data_parser_q, capture_finish,
                   pool, parsed>>

\* Mutant: the last buffer is not put back.
ParserProcess_KeepLast ==
    /\ \/ parser = "data" /\ parser' = "wait"
       \/ parser = "stop" /\ parser' = "finish"
       \/ /\ "echo" \in Faults /\ draining
          /\ parser = "data" /\ parser' = "finish"
    /\ parsed' = IF parser = "data" THEN parsed + 1 ELSE parsed
    /\ pool' = IF parser' = "finish" THEN pool ELSE pool + 1
    /\ UNCHANGED <<parserFrame, queueVars, capture_finish>>

\* process_data, and mem_pool.put() before its result is looked at.
ParserProcess ==
    /\ \/ parser = "data" /\ parser' = "wait"
       \/ parser = "stop" /\ parser' = "finish"
       \/ /\ "echo" \in Faults /\ draining
          /\ parser = "data" /\ parser' = "finish"
    /\ parsed' = IF parser = "data" THEN parsed + 1 ELSE parsed
    /\ pool' = pool + 1
    /\ UNCHANGED <<parserFrame, queueVars, capture_finish>>

\* process_data has returned -1, or the buffer was {0,0}.
ParserFinish ==
    /\ parser \in {"finish", "end"}
    /\ capture_finish' = TRUE
    /\ parser' = "token"
    /\ UNCHANGED <<parserFrame, queueVars, pool, parsed>>

ParserToken ==
    /\ parser = "token"
    /\ "parser" \in queues
    /\ data_parser_q' = data_parser_q + 1
    /\ parser' = "ended"
    /\ UNCHANGED <<parserFrame, buf_data_q, data_reader_q, capture_finish, pool,
                   parsed>>

Parser == ParserTake \/ ParserProcess \/ ParserFinish \/ ParserToken

-----------------------------------------------------------------------------
(* The API thread: start_capture, stop_capture, close, and the debug       *)
(* thread it starts and stops.                                             *)

mainFrame == <<usbVars, devVars, parsed, pool>>

StartCapture ==
    /\ main = "idle"
    /\ queues' = Queues
    /\ capture_finish' = FALSE
    /\ main' = "create_reader"
    /\ UNCHANGED <<mainFrame, queueVars, tries, result, draining, wait_left,
                   reader, parser, dbg>>

\* A failure leaves start_capture with R_Thread, and upv_open_device then
\* deletes the object, which closes it.
CreateThread ==
    /\ \/ main = "create_reader" /\ reader' = "enter" /\ UNCHANGED parser
          /\ main' = "create_parser" /\ UNCHANGED result
       \/ main = "create_parser" /\ parser' = "wait" /\ UNCHANGED reader
          /\ main' = "create_dbg" /\ UNCHANGED result
       \/ /\ main \in {"create_reader", "create_parser"} /\ "create" \in Faults
          /\ main' = "close" /\ result' = "Thread"
          /\ UNCHANGED <<reader, parser>>
    /\ UNCHANGED <<mainFrame, queueVars, tries, draining, queues, wait_left, dbg,
                   capture_finish>>

\* The capture goes on without the debug thread; then data_state = 0.
CreateDbg ==
    /\ main = "create_dbg"
    /\ \/ dbg' = "run"
       \/ "create" \in Faults /\ dbg' = dbg
    /\ draining' = FALSE
    /\ main' = "write_start"
    /\ UNCHANGED <<mainFrame, queueVars, tries, result, queues, wait_left, reader,
                   parser, capture_finish>>

\* upv_write_data submits the transfer and handles events until it is done.
WriteSubmit ==
    /\ main \in Writing /\ write = "idle"
    /\ \/ write' = "sent"
       \/ "write" \in Faults /\ write' = "bad"
    /\ UNCHANGED <<apiVars, queueVars, ev, cb, transfer, xfer_left, devVars,
                   reader, parser, dbg, capture_finish, pool, parsed>>

AfterWrite ==
    CASE main = "write_start" -> "run"
      [] main = "write_again" /\ tries = Retries -> "leave_reader"
      [] OTHER -> "wait_reader"

WriteReturn ==
    /\ main \in Writing /\ write \in {"ok", "bad"} /\ ev["M"] = "out"
    /\ write' = "idle"
    /\ IF write = "ok"
         THEN /\ main' = AfterWrite
              /\ wait_left' = StopTimeout
              /\ UNCHANGED result
         ELSE /\ result' = "WriteConfig"
              /\ main' = IF main = "write_start" THEN "close" ELSE "delete"
              /\ UNCHANGED wait_left
    /\ UNCHANGED <<queueVars, ev, cb, transfer, xfer_left, devVars, tries,
                   draining, queues, reader, parser, dbg, capture_finish, pool,
                   parsed>>

\* The user closes the device.
Close ==
    /\ main = "run"
    /\ main' = "close"
    /\ UNCHANGED <<mainFrame, queueVars, tries, result, draining, queues,
                   wait_left, reader, parser, dbg, capture_finish>>

\* stop_capture does nothing for a capture that has finished by itself.
StopCapture ==
    /\ main = "close"
    /\ IF capture_finish
         THEN main' = "delete" /\ result' = "Success" /\ UNCHANGED draining
         ELSE main' = "write_stop" /\ draining' = TRUE /\ UNCHANGED result
    /\ UNCHANGED <<mainFrame, queueVars, tries, queues, wait_left, reader, parser,
                   dbg, capture_finish>>

(* When de_q_timeout, which stop_capture waits in, gives up: the sum of     *)
(* nanoseconds is stored in an int, and C divides towards zero.            *)
Stored(n) == ((n + 32768 * 65536) % (65536 * 65536)) - (32768 * 65536)
Deadline(now, ms) ==
    LET ns == Stored(now.tv_nsec + ms * 1000000)
        carry == IF ns >= 0 THEN ns \div 1000000000 ELSE -((-ns) \div 1000000000)
    IN  [tv_sec |-> now.tv_sec + carry, tv_nsec |-> ns - carry * 1000000000]

AwaitReader ==
    /\ main = "wait_reader"
    /\ \/ /\ data_reader_q > 0
          /\ data_reader_q' = data_reader_q - 1
          /\ main' = "join_reader"
          /\ UNCHANGED <<capture_finish, tries>>
       \/ /\ data_reader_q = 0 /\ wait_left = 0
          /\ capture_finish' = TRUE
          /\ tries' = tries + 1
          /\ main' = "write_again"
          /\ UNCHANGED data_reader_q
    /\ UNCHANGED <<mainFrame, buf_data_q, data_parser_q, result, draining, queues,
                   wait_left, reader, parser, dbg>>

(* pthread_kill and pthread_join are called for threads that were never    *)
(* created, whose pthread_t holds whatever the memory did: the call        *)
(* returns with an error, or the process crashes.                          *)

\* The reader is joined, or left alone: pthread_kill(reader_thread, 0) sends
\* it no signal.
LeaveReader ==
    /\ main = "leave_reader" \/ (main = "join_reader" /\ reader = "ended")
    /\ main' = "wait_parser" \/ (reader = "none" /\ main' = "crashed")
    /\ wait_left' = StopTimeout
    /\ UNCHANGED <<mainFrame, queueVars, tries, result, draining, queues, reader,
                   parser, dbg, capture_finish>>

\* Mutant: the parser is not waited for.
AwaitParser_NoWait ==
    /\ main = "wait_parser"
    /\ main' = "leave_parser"
    /\ UNCHANGED <<mainFrame, queueVars, tries, result, draining, queues,
                   wait_left, reader, parser, dbg, capture_finish>>

AwaitParser ==
    /\ main = "wait_parser"
    /\ \/ /\ data_parser_q > 0
          /\ data_parser_q' = data_parser_q - 1
          /\ main' = "join_parser"
       \/ /\ data_parser_q = 0 /\ wait_left = 0
          /\ main' = "leave_parser"
          /\ UNCHANGED data_parser_q
    /\ UNCHANGED <<mainFrame, buf_data_q, data_reader_q, tries, result, draining,
                   queues, wait_left, reader, parser, dbg, capture_finish>>

\* The same for the parser, and dbg_finish = 1.
LeaveParser ==
    /\ main = "leave_parser" \/ (main = "join_parser" /\ parser = "ended")
    /\ main' = "join_dbg" \/ (parser = "none" /\ main' = "crashed")
    /\ dbg' = IF dbg = "run" THEN "finish" ELSE dbg
    /\ UNCHANGED <<mainFrame, queueVars, tries, result, draining, queues,
                   wait_left, reader, parser, capture_finish>>

DbgEnds ==
    /\ dbg = "finish"
    /\ dbg' = "ended"
    /\ UNCHANGED <<apiVars, queueVars, mainFrame, reader, parser, capture_finish>>

JoinDbg ==
    /\ main = "join_dbg" /\ dbg # "finish"
    /\ main' = "delete" \/ (dbg = "none" /\ main' = "crashed")
    /\ result' = "Success"
    /\ UNCHANGED <<mainFrame, queueVars, tries, draining, queues, wait_left,
                   reader, parser, dbg, capture_finish>>

\* close deletes the queues in this order, whatever stop_capture has returned.
DeleteQueue ==
    /\ main = "delete"
    /\ queues' = IF "parser" \in queues THEN queues \ {"parser"}
                 ELSE IF "reader" \in queues THEN queues \ {"reader"}
                 ELSE {}
    /\ main' = IF queues' = {} THEN "close_usb" ELSE main
    /\ UNCHANGED <<mainFrame, queueVars, tries, result, draining, wait_left,
                   reader, parser, dbg, capture_finish>>

\* libusb_close interrupts the thread that polls, takes the events lock and
\* forgets the transfers in flight without a callback.
Interrupt ==
    /\ main = "close_usb"
    /\ ev["R"] = "poll" /\ ev' = [ev EXCEPT !["R"] = "served"]
    /\ UNCHANGED <<apiVars, queueVars, cb, transfer, write, xfer_left, devVars,
                   reader, parser, dbg, capture_finish, pool, parsed>>

CloseUsb ==
    /\ main = "close_usb" /\ LockFree
    /\ transfer' = "none"
    /\ ev' = [t \in Events |-> IF ev[t] = "wait" THEN "woken" ELSE ev[t]]
    /\ main' = "closed"
    /\ UNCHANGED <<tries, result, draining, queues, wait_left, queueVars, cb,
                   write, xfer_left, devVars, reader, parser, dbg,
                   capture_finish, pool, parsed>>

Api == \/ StartCapture \/ CreateThread \/ CreateDbg \/ WriteSubmit \/ WriteReturn
       \/ StopCapture \/ AwaitReader \/ LeaveReader \/ AwaitParser \/ LeaveParser
       \/ JoinDbg \/ DeleteQueue \/ Interrupt \/ CloseUsb

-----------------------------------------------------------------------------
(* The analyser, and the kernel that completes the transfers.              *)

usbFrame == <<apiVars, queueVars, ev, cb, reader, parser, dbg, capture_finish,
              pool, parsed>>

\* The analyser takes the command.
DeviceCommand ==
    /\ write = "sent"
    /\ \/ /\ device # "gone"
          /\ write' = "done"
          /\ device' = CASE main = "write_start" -> "streaming"
                         [] main # "write_start" /\ device = "streaming" -> "stopping"
                         [] OTHER -> device
       \/ /\ device = "gone" \/ "write" \in Faults
          /\ write' = "failed" /\ UNCHANGED device
    /\ UNCHANGED <<usbFrame, transfer, xfer_left, sent>>

Sends == device \in {"streaming", "stopping"} /\ sent < MaxData

DeviceData ==
    /\ transfer = "flight" /\ Sends
    /\ transfer' = "data" /\ sent' = sent + 1
    /\ UNCHANGED <<usbFrame, write, xfer_left, device>>

DeviceEmpty ==
    /\ "empty" \in Faults
    /\ transfer = "flight" /\ device \in {"streaming", "stopping"}
    /\ transfer' = "empty"
    /\ UNCHANGED <<usbFrame, write, xfer_left, devVars>>

\* The STOP word, with the last of the data before it.
DeviceStop ==
    /\ transfer = "flight" /\ device = "stopping"
    /\ transfer' = "stop" /\ device' = "idle"
    /\ UNCHANGED <<usbFrame, write, xfer_left, sent>>

DeviceGone ==
    /\ "device" \in Faults
    /\ transfer = "flight"
    /\ transfer' = "error" /\ device' = "gone"
    /\ UNCHANGED <<usbFrame, write, xfer_left, sent>>

\* The thread that polls sees the timer and cancels the transfer.
TransferTimesOut ==
    /\ transfer = "flight" /\ xfer_left = 0
    /\ \E t \in Events : ev[t] = "poll"
    /\ \/ transfer' = "timeout" /\ UNCHANGED sent
       \/ /\ "partial" \in Faults /\ Sends
          /\ transfer' = "timeout_data" /\ sent' = sent + 1
    /\ UNCHANGED <<usbFrame, write, xfer_left, device>>

-----------------------------------------------------------------------------
(* Time.                                                                   *)

ToReap == \/ transfer \in {"data", "stop", "timeout", "timeout_data", "empty",
                         "cancelled", "error"}
          \/ write \in {"done", "failed"}
          \/ transfer = "flight" /\ xfer_left = 0

\* Thread t is in libusb_handle_events_completed, with nothing to do there.
Blocked(t) == \/ ev[t] = "wait"
              \/ ev[t] = "poll" /\ ~ToReap
              \/ Holds(t) /\ cb = "get" /\ pool = 0

Quiescent ==
    /\ reader \in {"none", "ended"} \/ (reader = "handle" /\ Blocked("R"))
    /\ \/ main \in {"run", "closed"}
       \/ main \in Writing /\ Blocked("M")
       \/ main = "wait_reader" /\ data_reader_q = 0 /\ wait_left > 0
       \/ main = "wait_parser" /\ data_parser_q = 0 /\ wait_left > 0
    /\ \/ parser \in {"none", "ended"}
       \/ parser = "wait" /\ buf_data_q = <<>>
       \/ parser \in {"data", "stop"} /\ "slow" \in Faults
    /\ device = "stopping" /\ transfer = "flight" => "late" \in Faults

Tick ==
    /\ Quiescent
    /\ transfer = "flight" \/ wait_left > 0
    /\ xfer_left' = IF xfer_left > 0 THEN xfer_left - 1 ELSE 0
    /\ wait_left' = IF wait_left > 0 THEN wait_left - 1 ELSE 0
    /\ UNCHANGED <<main, tries, result, draining, queues, queueVars, ev, cb,
                   transfer, write, devVars, reader, parser, dbg,
                   capture_finish, pool, parsed>>

-----------------------------------------------------------------------------
\* A process that has crashed does nothing more.
Next == /\ main # "crashed"
        /\ \/ Libusb \/ Reader \/ Parser \/ Api \/ Close \/ DbgEnds
           \/ DeviceCommand \/ DeviceData \/ DeviceEmpty \/ DeviceStop \/ DeviceGone
           \/ TransferTimesOut \/ Tick

Spec == Init /\ [][Next]_vars

\* The threads are scheduled, the kernel ends every write, timers expire, and
\* the analyser answers STOP unless it may be late; it need not send any data,
\* and the user need not close.  Nothing is owed after a crash.
Fairness ==
    /\ \A t \in Events :
         /\ WF_vars(EnterEvents(t)) /\ WF_vars(LeaveEvents(t))
         /\ WF_vars(\/ ReapWrite(t) \/ ReapData(t) \/ ReapTimeout(t)
                    \/ ReapEmpty(t) \/ ReapEnd(t))
    /\ WF_vars(CallbackGet) /\ WF_vars(CallbackSubmit)
    /\ WF_vars(Reader) /\ WF_vars(Parser) /\ WF_vars(Api) /\ WF_vars(DbgEnds)
    /\ WF_vars(DeviceCommand) /\ WF_vars(TransferTimesOut) /\ WF_vars(Tick)
    /\ ("late" \in Faults \/ WF_vars(DeviceStop))

FairSpec == Spec /\ (<>(main = "crashed") \/ Fairness)

-----------------------------------------------------------------------------
TypeOK ==
    /\ main \in Writing \cup
         {"idle", "create_reader", "create_parser", "create_dbg", "run", "close",
          "wait_reader", "join_reader", "leave_reader", "wait_parser",
          "join_parser", "leave_parser", "join_dbg", "delete", "close_usb", "closed",
          "crashed"}
    /\ tries \in 0 .. Retries
    /\ result \in {"Success", "WriteConfig", "Thread"}
    /\ reader \in {"none", "enter", "submit", "handle", "check", "mark",
                   "mark_failed", "cancel", "token", "ended"}
    /\ parser \in {"none", "wait", "data", "stop", "end", "finish", "token", "ended"}
    /\ dbg \in {"none", "run", "finish", "ended"}
    /\ capture_finish \in BOOLEAN /\ draining \in BOOLEAN
    /\ queues \subseteq Queues
    /\ buf_data_q \in Seq({"data", "stop", "end"})
    /\ data_reader_q \in 0 .. 1 /\ data_parser_q \in 0 .. 1
    /\ pool \in 0 .. PoolCount
    /\ ev \in [Events -> {"out", "poll", "served", "wait", "woken"}]
    /\ cb \in {"none", "get", "submit"}
    /\ transfer \in {"none", "idle", "flight", "data", "stop", "timeout",
                     "timeout_data", "empty", "cancelled", "error"}
    /\ write \in {"idle", "sent", "done", "failed", "ok", "bad"}
    /\ device \in {"idle", "streaming", "stopping", "gone"}
    /\ sent \in 0 .. MaxData /\ parsed \in 0 .. MaxData
    /\ xfer_left \in 0 .. TransferTimeout /\ wait_left \in 0 .. StopTimeout

Ended(t) == t \in {"none", "ended"}

(* When close has returned success, no thread of the session is left: the  *)
(* caller deletes the object next.                                         *)
CloseMeansStopped ==
    main = "closed" /\ result = "Success" =>
        Ended(reader) /\ Ended(parser) /\ Ended(dbg)

(* A queue is there as long as the threads that use it are.                *)
QueuesOutliveThreads ==
    /\ ~Ended(reader) => {"buf", "reader"} \subseteq queues
    /\ ~Ended(parser) => {"buf", "parser"} \subseteq queues

(* Every buffer is in the pool, with the transfer, in the queue or with    *)
(* the parser: none is lost and none is given back twice, on any path      *)
(* through the callback, the parser and the end of a session.              *)
WithTransfer == reader \notin {"none", "enter"} /\ cb # "get"

\* How many of the elements of queue q are of these kinds.
Count(q, kinds) == Cardinality({k \in 1 .. Len(q) : q[k] \in kinds})

BufferAccounting ==
    pool + Count(buf_data_q, {"data", "stop"})
         + (IF WithTransfer THEN 1 ELSE 0)
         + (IF parser \in {"data", "stop"} THEN 1 ELSE 0) = PoolCount

(* The parser comes to STOP only when it has been through everything the   *)
(* analyser sent before.  It ends with data not parsed only after          *)
(* stop_capture has waited for the reader in vain: the end mark then cuts  *)
(* off what is still coming.                                               *)
NothingLost ==
    /\ parser = "stop" => parsed = sent
    /\ parser \in {"end", "finish", "token", "ended"} /\ parsed # sent => tries > 0

(* Once the stop of a capture has set capture_finish, it stays set: the    *)
(* reader's own capture_finish = 0 does not come after it.                 *)
FinishSticks == [][draining /\ capture_finish => capture_finish']_vars

(* The callback, which has the events lock, waits for a buffer that no     *)
(* thread will give back: the parser has ended, and not at STOP.           *)
Overrun == cb = "get" /\ pool = 0 /\ Ended(parser) /\ tries > 0

(* close returns, with the pool running empty on the way, unless the       *)
(* analyser fills it after the parser has ended.                           *)
CloseReturns == main = "close" ~> (main = "closed" \/ Overrun)
=============================================================================
