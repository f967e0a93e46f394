# A TLA+ development of usbpv_api

usbpv_api is the host library of a USB analyser. It opens the analyser over
libusb, loads and configures it, receives a stream of 32-bit words on one bulk
pipe, cuts the stream into packets and gives each packet, with a time, to a
callback of the user. This directory models the library's own code
(`usbpv_s.*`, `usbpv_lib.*`, `usbpv_util.cpp`, about 1600 lines) and, from the
libusb 1.0.23 it is built with, what the Linux build runs under it: events,
transfers, timeouts, hotplug and descriptors. Paths below are relative to
`src/`; `io.c`, `core.c`, `hotplug.c`, `descriptor.c` and `sync.c` are in
`libusb-1.0.23/libusb/`, `linux_usbfs.c` and `linux_udev.c` in its `os/`.

- [Inventory](#inventory): the system's parts, and what makes each correct
- [Modules](#modules): which module stands for which code
- [Runs](#runs): what is model-checked, with which bounds
- [Fairness and time](#fairness-and-time)
- [Proofs](#proofs): what holds for every value of the constants, and why
- [Disagreements](#disagreements): where the code does not do what it says
- [Limits](#limits): what is only model-checked, and what is not modelled
- [Plan](#plan)

## Inventory

| component | code | state | operations |
|---|---|---|---|
| Packet parser | `usbpv_s.cpp:428-546` | `data_state`, `last_header`, `data_buf`, `data_buf_idx`, `pkt_len`, `pkt_tick`, `pkt_status` | `process_data`, one switch per word; `start_capture` and `stop_capture` write `data_state` from another thread |
| Buffer pool and queues | `usbpv_s.h:60-200` | `mem_pool_t`: a ring of 32 buffers, a semaphore, `remain`, `rd_idx`, `wr_idx`; `upv_queue`: a list, a mutex, a semaphore | `get`, `put`, `en_q`, `de_q`, `de_q_timeout` |
| Capture session | `usbpv_s.cpp:228-426,548-621` | three threads, `capture_finish`, `dbg_finish`, three queues, the transfer | `start_capture`, `reader_thread_func`, `usb_data_callback`, `parser_thread_func`, `dbg_thread_func`, `stop_capture`, `close` |
| libusb: events lock | `io.c:1737-1990,2353-2550`, `sync.c` | the events lock, its waiters | `libusb_handle_events_completed`, `libusb_bulk_transfer` |
| libusb: one transfer | `linux_usbfs.c:1905-2755`, `io.c:1487-1721` | the URBs, `num_retired`, `reap_action`, `reap_status`, `transferred`, `state_flags`, `timeout_flags`; `itransfer->lock` and `flying_transfers_lock` | submit, cancel, `discard_urbs`, reap, the three `handle_*_completion`, `usbi_handle_disconnect` |
| libusb: timeouts | `io.c:1346-1471,2006-2091,2329-2431` | `flying_transfers` in the order of the deadlines, the timerfd | `add_to_flying_list`, `remove_from_flying_list`, `handle_timeouts_locked`, `handle_timerfd_trigger` |
| libusb: context | `core.c`, `hotplug.c`, `linux_udev.c`, `linux_usbfs.c`, `io.c:2096-2325` | `usb_devs` and reference counts, `open_devs`, `hotplug_cbs`, `hotplug_msgs`, `event_flags`, `device_close`, the event pipe, the poll set | init, exit, the monitor, device lists, open, close, register and deregister callbacks, `handle_events` |
| libusb: descriptors | `descriptor.c` | none | `parse_configuration`, `parse_interface`, `parse_endpoint` |
| libusb: other systems | `os/windows_*`, `os/darwin_usb.c`, `os/sunos_usb.c`, ... | | not part of the Linux build |
| Timestamps | `usbpv_lib.cpp:33-103` | `utc_ts`, `last_ov_ts`, `ts_offset`, `last_ts` | `upv_wrap::on_packet` |
| Device search and start-up | `usbpv_s.cpp:60-225`, `usbpv_util.cpp` | the handle, the analyser's status and registers | `upv_s::open`, `upv_usb_open_serial`, `upv_start_device`, `upv_write_config_data` |
| Option string | `usbpv_s.cpp:131-222`, `usbpv_lib.h` | registers 8, 31, 32 to 39 | the part of `open` that reads the bytes after the serial number |
| C interface | `usbpv_lib.cpp:105-183` | the last error | `upv_open_device`, `upv_close_device`, error texts |
| Device list | `usbpv_s.cpp`, `usbpv_lib.cpp` | one static string | `list_devices` |
| Test program, build files | `test_usbpv_s.cpp`, `Makefile`, `*.pro` | none | |

How they interact:

    user's thread                     reader thread                parser thread
    upv_open_device                   submit one transfer          de_q (buf_data_q)
      open, start_capture  --create-> handle events                process_data
      ...                               usb_data_callback            packet_handler
    upv_close_device                      en_q (buf_data_q) ----->   (user's code)
      stop_capture                        mem_pool.get  <----------  mem_pool.put
        data_state = 4 ------------------------------------------> read, written back
        write STOP (handles events too, may run the callback)
        de_q_timeout (reader_q)  <--- token
        de_q_timeout (parser_q)  <------------------------------   token
      close: delete queues, libusb_close

Under both threads lies libusb:

    any thread                    event thread                   hotplug monitor
    libusb_submit_transfer        handle_events                  udev_hotplug_event
      flying_transfers, timerfd     poll: pipe, timerfd, fds       usb_devs, refcnt
      URBs -> kernel                handle_timerfd_trigger         hotplug_msgs, pipe
    libusb_cancel_transfer            cancel what has expired
      discard URBs                  reap URBs -> callback
    libusb_open, libusb_close       messages -> hotplug callbacks
      pipe, waits for events lock

**What is hard here.** `data_state` and `capture_finish` are plain variables
that two or three threads write. The transfer's callback runs on whichever
thread holds libusb's events lock, which may be the user's thread inside its
own synchronous write. The callback waits for a free buffer while that lock is
held. A thread that does not report in time is given up, and its queues are
deleted. A reader that waits for events is only woken by an event. The pool
does not store the pointers it is given back. The parser never compares the
index into its buffer with the buffer's size. The time arithmetic relies on
unsigned wrap-around and on the width of `unsigned long`.
In libusb a transfer is many URBs, which the kernel completes while the user, a
timeout and the event thread cancel them; one timer stands for the timeouts of
all transfers; one byte in a pipe stands for everything that is pending; a
device is named by an address and a handle by a descriptor, and both are used
again.

**What makes each part correct.**

- *Parser*: it stays inside `data_buf` whatever comes; `packet_handler` gets
  the words of one packet and no others; every well-formed packet of a capture
  is delivered as it was sent; STOP ends the thread although the write of
  `data_state` by `stop_capture` may be lost.
- *Pool and queue*: no buffer is filled while it waits or is read; buffers come
  back in the order they went out; `de_q` never takes the front of an empty
  list; data arrives in order, once, and completely.
- *Session*: `close` returns; when it has returned success no thread runs; a
  queue outlives the threads that use it; no buffer is lost or put back twice;
  nothing received is dropped; once stopped the capture stays stopped.
- *Timestamps*: the time moves on by exactly the ticks between packets, across
  every wrap; nanoseconds stay below a second.
- *Open*: no handle leaks; no other device is reset; success means an analyser
  that runs, with all its registers verified; it returns.
- *Transfer*: it is given back once, when the kernel has none of its URBs, with
  all data the device sent and no hole, and the status that names the cause; a
  cancelled transfer ends.
- *Timeouts*: none is slept through.
- *Context*: the byte is in the pipe exactly when something is pending; a
  device's count is the number of its holders; no device is taken for another;
  no callback hears of an arrival after the departure; exit leaves nothing.
- *Descriptors*: what is parsed is what is in the buffer, whatever the lengths.
- *Option*: short forms mean what the header says; the filter selects what was
  asked for.

`PROJECT.json` lists the hazards one by one, with their lines and the
properties that cover them.

## Modules

| module | models | how |
|---|---|---|
| `PacketParser` | `process_data`, `data_state` written by the API thread | one `Fetch` and one branch action per word |
| `PacketStream` | the parser fed by an analyser that keeps to its format | extends `PacketParser` with the sender |
| `PacketParserProof` | | theorems about `PacketParser` and `PacketStream` |
| `BufferPipeline` | `mem_pool_t`, `upv_queue`, the callback and the parser loop, with each buffer's identity | semaphores and locked sections are separate steps |
| `ChunkStream` | what the pipeline promises: an ordered stream with a window | abstract specification |
| `BufferPipelineProof` | | theorems about `BufferPipeline`, refinement of `ChunkStream` |
| `CaptureSession` | threads, events lock, transfer, stop and close | one action per step between two synchronisation points |
| `CaptureSessionProof` | | theorems about `CaptureSession` |
| `Timestamp` | `upv_wrap::on_packet` | exact integer arithmetic, width as constants |
| `TimestampProof` | | theorems about `Timestamp` |
| `DeviceOpen` | `upv_s::open` and what it calls in `usbpv_util.cpp` | a program counter; every call may fail |
| `DeviceOpenProof` | | theorems about `DeviceOpen` and `OptionFilter` |
| `OptionFilter` | the option bytes and the registers they become | pure operators; the state enumerates options |
| `UsbfsTransfer` | one transfer and its URBs: user, timer, event thread, kernel | a step between two locks; one ioctl per step |
| `UsbfsTransferProof` | | theorems about `UsbfsTransfer` |
| `TransferTimeouts` | `flying_transfers`, the timerfd, the event thread's poll | time relative to now |
| `TransferTimeoutsProof` | | theorems about `TransferTimeouts` |
| `HotplugContext` | a context on Linux: monitor, event thread, application | one action per locked section |
| `HotplugContextProof` | | theorems about `HotplugContext` |
| `Descriptors` | the three parsing functions | pure operators; the state enumerates buffers |
| `MC*` | | the small sets the configurations use |

Definitions keep the names of the code (`data_state`, `rd_idx`,
`capture_finish`, ...); where a name is a mutant of a definition (a plausible
bug, used to test that the properties notice it) its comment says `Mutant:`.
`PROJECT.json` maps every definition to its lines.

### PacketParser

A word is reduced to what the code can tell of it: whether it is the START or
STOP command, whether it has the mark of a data header (`& 0xf0 == 0x60`), and
its low 16 bits, which are a length where one is expected. These are
independent, so a word may be several things at once, as on the wire.

One loop iteration is two steps. `Fetch` takes the word and the value of
`data_state` that the switch uses (`loaded`); a branch action then updates the
state. Between the two the API thread may write `data_state`. Where the branch
assigns `data_state`, that write is lost; where it does not, it stays. Since
`data_state` is neither atomic nor volatile, the compiled loop may also go on
with the value it has in a register as long as it has called nothing:
`kept` holds that value, and `Fetch` chooses between it and the variable. A
call of `packet_handler` empties `kept`.

`last_header` starts as any word: `upv_s::upv_s` does not initialise it. (The
library's `new upv_wrap()` zeroes it; the test program's `upv_s` on the stack
does not.)

`PacketStream` adds the sender: junk left in the pipe before START, frames
(an event word, or header, length and payload), STOP between two frames once
the API thread has asked for it. The format is the analyser's and not in this
repository; it is taken from what `process_data` expects and marked external.

### BufferPipeline and ChunkStream

A buffer is its index in `mem`. `get()` and `put()` are three steps each as in
the code (semaphore, locked section, semaphore), likewise `en_q` and `de_q`.
`content` says which chunk a buffer holds, so that an overwritten or misordered
buffer shows as a chunk missing from the stream. `ChunkStream` is the promise:
send the next number if fewer than `Window` are on the way, parse the next
number. The refinement maps `Window` to `COUNT` and `sent` and `seen` to
themselves; that `Parse` finds chunk `seen + 1` in its buffer is what has to be
shown.

### CaptureSession

The variables follow the threads: `main`, `reader`, `parser` and `dbg` say
where each is, `ev` where the reader and the API thread are in
`libusb_handle_events_completed`, `cb` where the callback is. The callback has
no thread of its own: it runs on the thread `t` with `Holds(t)`.

- `EnterEvents`, `LeaveEvents`, `Reap*`: the events lock; one thread polls, the
  others wait on it and return when it lets go.
- `ReapData`, `CallbackGet`, `CallbackSubmit`: the completed branch of
  `usb_data_callback`; `ReapTimeout` its time-out branch, which submits the
  same buffer; `ReapEnd` the branches that set `capture_finish`.
- `Reader*`, `Parser*`: the loops and how they end: the reader's end marker, the
  tokens in `data_reader_q` and `data_parser_q`.
- `StartCapture` to `CreateDbg`, `WriteSubmit` to `JoinDbg`, `DeleteQueue`,
  `CloseUsb`: the API thread. `stop_capture` writes STOP up to three times
  and waits `StopTimeout` for the reader after each; then once for the parser.
- `Device*`, `TransferTimesOut`: the analyser and the timer.

The data is `PacketParser`'s business: a buffer holds "data", or "stop" if it
ends with the STOP word. `PacketStream`'s `StopEndsParser` is what entitles this
module to end the parser at STOP.

The set `Faults` chooses what may go wrong: a thread that cannot be created
(`stop_capture` then names a `pthread_t` that nothing has initialised, and the
call returns or the process crashes: `main = "crashed"`, after which nothing
happens), a failed write or submit, an unplugged analyser, a transfer that times out with
or ends without data, an error of the event loop, an analyser that answers STOP
late or never, a slow `packet_handler`, a STOP word in the payload. After a
thread has touched a deleted queue nothing is promised; in the model it stops
there, which `QueuesOutliveThreads` reports.

### Timestamp

`ts_offset` is a `uint32_t`, `tick_60MHz` an `unsigned long`; their widths are
the constants `Word` and `Long`. The scaled clock keeps what matters: a counter
period below a second, not dividing it; a second that is 50/3 of the frequency,
as 10^9 is of 60000000; an idle threshold just above the period.

### DeviceOpen

The bus is a sequence of devices, each with the first call that fails on it.
The search goes on after a device that does not open or is another one's, and
ends at an error of one of ours. Then the two loops with `retry`, the drain of
what an earlier capture left, start, and the registers, each written and
read back. `upv_open_device` deletes the object after a failure; its destructor
closes the handle.

### OptionFilter

`Registers(opt)` is what `open` writes for the bytes after the serial number.
`Passes` is the analyser's use of the filter, external. The form of the option
is the comment of `upv_open_device` in `usbpv_lib.h`.

### UsbfsTransfer

`mode` is the type of the transfer and, for bulk, which of the three ways of
cutting it up the kernel's capabilities select. `urb`, `completed` and `line`
are the kernel's side (external): the URBs of an endpoint are worked on in
order, a discarded one comes back at the end of the queue of completed ones with
what it had received, a kernel that knows the continuation flag ends the rest
of a transfer that falls short. `user`, `timer` and `reaper` are the three
threads; `lock` and `flying` are the two mutexes, with their holder. Data is
counted in units that carry the order in which the device sent them, so that a
hole, a loss or a wrong order shows in `buffer`. `cause` remembers whose
cancellation succeeded.

`discard_urbs` is one ioctl per step, run by whichever thread holds the lock:
completions fall between its steps. A file descriptor that was given up
(`fd_removed`) returns no URBs.

### TransferTimeouts

A deadline is the ticks left until it. Whatever runs under
`flying_transfers_lock` is one step, but for the loop of
`handle_timeouts_locked`, which waits for each transfer's own lock with the list
locked (`pc = "handle"`, `expired`). `PollLimits` is how long the event thread
may sleep: without a timerfd until the next deadline, with one as long as the
caller wishes.

### HotplugContext

A device is the plugging in it stands for; `Plugs` gives addresses, and here two
pluggings share one. `hot` is the holder of `linux_hotplug_lock` between the
device list and the message. `handles` says for each descriptor which
`libusb_device` it belongs to and which plugged-in device it has open: they
differ when the address was given again. `ev` is the event thread with the
messages it has taken and the callbacks it still has to call; a hotplug callback
may open and close devices. `libusb_init`, `libusb_exit`, `libusb_open`,
`libusb_close`, device lists, registration (with or without
`LIBUSB_HOTPLUG_ENUMERATE`), deregistration and interruption are the
application's.

`Races` admits overlaps for which the code has no protection; the run is
without them, and [Disagreements](#disagreements) says what each breaks.

### Descriptors

The parser looks at nothing but `bLength`, `bDescriptorType`, the interface
number and the number of endpoints, so a buffer is a sequence of descriptors,
whose last one may be cut. `ParsesBack` compares the tree with what one reads
off the sequence directly.

## Runs

| run | asks | bounds |
|---|---|---|
| `stream` | memory safety and whole packets, whatever comes (`stage = "wild"`); delivery, no invention, STOP, with a conforming sender | limit 7 bytes in a buffer of 3 words: the longest packet fills the buffer to the last word, as `1024+3` bytes plus length nearly do 1040 bytes; words on both sides of each comparison; payload odd and even, START, STOP and headers may be payload |
| `pipeline` | order, no overwriting, refinement, everything parsed | 3 buffers and 8 chunks: the ring goes round twice and runs empty and full; the proofs cover every `COUNT` |
| `session_late` | with an analyser that answers STOP at once, late or never: is anything lost, does `close` return, do threads end and queues outlive them | 4 filled buffers, and STOP, for a pool of 3: it runs empty while the parser works, and for good after its end (`Overrun`, disagreement 4) |
| `session_faulty` | the accounting that must survive every fault | all ten faults in any combination, a crash on a thread never created included; 1.2 million states |
| `session_unplugged` | violated: does a successful `close` mean stopped threads | one fault |
| `timestamp_32` | does the time count the ticks | counter of 8, second of 27 ticks: several wraps and carries per run, `ts_offset` wraps below 0 |
| `timestamp_64` | violated: the same with a 64-bit `unsigned long` | |
| `open` | handles, other devices, readiness, termination | two devices out of thirteen kinds, three registers, every failure |
| `transfers` | URBs, data, status and cancellation of one transfer | lengths 0, 2 and 5 with URBs of 2: none, one and three URBs, the last one short; each mode with the faults it is promised to survive |
| `timeouts` | is any timeout slept through | two transfers, deadlines 1 to 3, with and without timerfd; by hand also three transfers with deadlines 1 and 2 (424,000 states) |
| `context` | pending events, references, identities, exit; deadlock | two devices in turn at one address, two descriptors, one callback with `LIBUSB_HOTPLUG_ENUMERATE`; by hand also two callbacks and one descriptor (2.6 million states) |
| `inputs` | options: short forms and meaning of the filter; buffers: parsed as what they hold | every option of up to 7 bytes over 4 values, two filter items: item 0 is special in the code, item 1 stands for the rest; every buffer of up to five descriptors, whole or cut |

A module's `TypeOK` that no run lists (`Timestamp`, `DeviceOpen`,
`TransferTimeouts`, `HotplugContext`) holds in the same configuration, as does
`CallbacksAlive`. The properties of `session_late` also hold with
`PoolCount = 2`, `MaxData = 3`, and with `Faults = {}`, where `Overrun` is not
reached; with `Faults = {"late", "create"}` the invariants hold, and `close`
returns unless the process crashes (disagreement 16).

Ticks of one second are enough for the session because every timeout in it
(transfer, `stop_capture`) is 1000 ms; `TransferTimeout = 1`, `StopTimeout = 1`
make them race, which is the interesting case. Deadlock is not checked where
the system stops on purpose (a closed session, an opened device) or where a run
ends at its bound.

## Fairness and time

`CloseReturns`, `AllParsed` and `OpenReturns` assume weak fairness of: each
thread that can take a step (the scheduler), the kernel that completes a
submitted write, timers that expire, and `packet_handler` that returns. The
analyser need not send data, and the user need not close. It must answer STOP
only where `"late"` is not among the faults. Nothing is owed to a process that
has crashed: `FairSpec` is `Spec` with `<>(main = "crashed") \/ Fairness`.
`DeviceOpen` needs nothing of the analyser's readiness: an analyser that never
gets ready ends the loops. That the drain ends is a bound of the model
(`MaxLeftover`), not a result: `usbpv_util.cpp:229-233` reads on as long as the
reads come back full.

`CloseReturns` names one exception, `Overrun`: the callback waits for a buffer,
with the events lock, after the parser has ended without STOP. That is
disagreement 4, and the run reaches it. Any other way for `close` to hang
would violate the property; so would the same wait while the parser is alive.

In `CaptureSession` time passes (`Tick`) only when every thread waits for
something, so threads are prompt compared with a second: a timeout never
expires because a runnable thread was not scheduled. The exceptions are faults:
`"slow"` lets time pass while the parser is in `packet_handler`, `"late"` while
the analyser owes an answer. libusb's own 60 s limit on waiting for events
appears only as part of the fault `"events"`.

`CancelEnds` needs the three threads of a transfer to run and nothing of the
device: that a discarded URB comes back is the ioctl's doing. `TimeoutsFire`
needs time to pass, the event thread to run, the kernel to give a cancelled
transfer back and `libusb_submit_transfer` to return. It also needs the loop of
`op_handle_events` to end (`[]<>(pc = "usbfs" => completed = <<>>)`): nothing in
the code bounds it, and a device that completes transfers faster than they are
reaped would keep every timeout waiting (and, with `"empty"`, the
reader from leaving libusb: `CloseReturns` then fails for a device that goes on
for ever). `HotplugContext` states no liveness; its
run checks for deadlock, and `PipeSignalled` is what keeps the event thread from
sleeping through an event.

## Proofs

`PacketParserProof` (for every set `Words`, every `MaxLen` and `BufWords` with
`MaxLen + 5 <= 4 * BufWords`; the code has 1027 and 1040):

- `TypeCorrect`, `NoOverrun` (`BufferBound`), `WholePackets` (`ExactWords`).
- The bound is not inductive, for nothing in the code compares
  `data_buf_idx` with the size of `data_buf`. What keeps it is a relation: in
  state 3 the buffer holds the length word, fewer words than the packet needs,
  and `pkt_len` is within the limit; in states 2 and 10 it is empty. `IInv` says
  so of `data_state`, and, because the API thread may write `data_state` at any
  time, also of the value the switch has loaded and of any value in the
  register; and it says that the variable can differ from those only by being 0
  or 4. The lemma `StoreFits` is the one place where a word is stored.
- `FramesDelivered` (`FrameDelivered`), `FramesOnly` (`OnlyFrames`) and
  `StopEnds` (`StopEndsParser`), of `PacketStream`: for every analyser that keeps
  to the format, every frame that ends while the capture runs is delivered as it
  was sent, nothing else is delivered, and STOP ends the parser. `SInv` adds to
  `IInv` where in the frame the parser is. Between two words every
  value of `data_state` the parser may use is the state for the frame's next
  word, or 4 (`Follows`); at a word it is the state for that word (`AtLast`); and
  in state 3 the words stored are the frame so far, less its header. Before START
  only 0 and, once the capture is being stopped, 4 occur (`Waits`); after STOP has
  been sent the parser has ended or is at that word. A payload word
  that equals STOP may end a parser that drains: no frame is cut by that, since
  a parser that drains delivers nothing.

`BufferPipelineProof` (for every `COUNT > 0`):

- `TypeCorrect`, `NeverOverwritten`, `ReturnedInOrder`, `NeverPopsEmpty`, and
  `Refinement`: the pipeline implements `ChunkStream` with window `COUNT`.
- `put()` ignores which buffer it is given, so that nothing overwrites anything
  is a global fact. `IInv` says that the buffers out of the pool form an arc of
  the ring from `wr_idx` to `rd_idx`: the parser's, then those in the list, then
  the transfer's (`Places`); that the semaphores and counters agree with the
  length of the arc, up to the steps between a semaphore and its locked section
  (`Ring`); and which chunk each buffer holds (`Chunks`). `ArcFacts` proves that
  positions of an arc no longer than the ring are distinct buffers.

`CaptureSessionProof` (for any number of buffers and of transfers' worth of
data, any timeouts):

- With every fault: `TypeCorrect`, `NoBufferLost` (`BufferAccounting`) and
  `FinishStays` (`FinishSticks`). `IInv` adds to the accounting who can be
  holding what: nothing is reaped or parsed before the reader has submitted the
  transfer, a callback runs in the thread with the events lock and has the
  buffer (`Submitted`), a thread is created once and sends its token last
  (`Threads`). That `capture_finish` stays rests on `Stopping`: the reader clears
  it once, before its first `submit`, and the stop sets it later than that.
- `StopComesLast`, with every fault but `"partial"`: when the parser comes to STOP
  it has parsed all that was sent. `LInv` says that the data parsed, queued, in
  the parser's hands and in the transfer is all that was sent (`Kept`, or less
  with `"partial"`: `Forgotten`), and that STOP is behind it (`StopIsLast`).
- `AllParsed` (`NothingLost`), with every fault but three: the same, and that a
  parser which ends in whatever way has parsed everything, or `stop_capture` has
  waited for the reader in vain (`tries > 0`). `EndedInTime` is the argument: the
  end mark is queued by a reader that has left its loop, which takes
  `capture_finish` (`Ending`), and that is set by the parser at STOP, by an error
  of the transfer, after which nothing is sent, or by the second STOP of
  `stop_capture`; while there is nothing on the way (`Quiet`) behind the mark or
  in the parser's hands (`EndIsLast`) it stays so. Each of the three faults refutes
  the property: `"partial"` (disagreement 2), `"events"` (the reader leaves, with
  data in the transfer) and `"echo"` (a STOP word in the payload ends the parser).
- With the faults of `Survivable` (a thread that cannot be created, STOP late or
  never, a STOP word in the payload, transfers that are empty or time out with
  data): `CloseJoinsThreads` (`CloseMeansStopped`) and `QueuesKept`
  (`QueuesOutliveThreads`). Of a thread that could not be created they say only
  that, if the calls that name it return, `close` has joined the others
  (disagreement 16). With each of the other faults alone TLC finds one of
  the two violated (disagreement 1 and its like). `stop_capture` waits for
  a reader that may be asleep in libusb, and only another thread's event wakes
  it: `CInv` says at which of the three attempts the reader must be on its way out
  (`ThirdTime`), that it then leaves an end mark for the parser (`EndMark`), that
  what has sent its token has been joined, and that only a thread that was never
  created is left alone (`Joined`). A reader that waits for ever for a buffer
  (`Stuck`, disagreement 4) is no exception: it holds the events lock, so the
  third STOP is never written and `close` does not return.
- `DeadlineExact`, about `Deadline`, the time `de_q_timeout` waits until: it is the
  time meant, whatever the clock says, exactly if the timeout is at most 1147 ms
  (`stop_capture` passes 1000). Above, the sum of nanoseconds does not fit the `int`
  it is stored in.

`TimestampProof` (for every frequency, period, width and set of ticks in
`ClockAssumption`'s proportions; `Long = Word`, that is, an `unsigned long` of 32
bits):

- `NanosFit` (`NanosBelowSecond`) and `TicksCounted` (`CountsTicks`), by an `IInv`
  which says that `ts_offset + last_ov_ts` is the number of ticks since `utc_ts`
  or that number plus `Word`, and below a second. The lemmas are about division and
  remainder near the ends of their range. With a wider `long` both fail
  (`timestamp_64`).

`DeviceOpenProof` (for every sequence of devices and every call that may fail on
each):

- `TypeCorrect`, `NoHandleLeaks` (`HandlesClosed`), `OthersUntouched`
  (`OnlyWantedTouched`), `SuccessIsReady` (`ReadyOnSuccess`). `IInv` says what
  the place in `open` implies: which device the handle is of and which checks it
  has passed (`SearchPlace`), and how far the analyser is (`AnalyserPlace`).
- `ShortForms` (`ShortFormsAgree`) and `FilterAsAsked` (`FilterSelects`), of
  `OptionFilter`, for every set of bytes, every length of the option and every
  number of filter items: bytes left out and bytes that write out the default give the
  same registers, and the filter passes what its items name. The proof of the
  second turns each item's register into the two sets of addresses and endpoints
  it stands for; the flag that decides between keeping and dropping stands in item
  0 and is turned over when no item names anything.

`UsbfsTransferProof` (for every length, every length of a URB and number of
submissions; `Survivable`: no loss of the device for isochronous transfers and
for bulk transfers that may be cut into several URBs, and no stall for those cut
without continuation):

- `UrbsFreedLast` (`FreedLast`) and `CauseIsReported` (`CauseReported`). The run
  checks all four invariants with the same faults; without `Survivable` the first is false
  (disagreement 7).
- A bulk transfer ends when `num_retired` reaches `num_urbs`, or, as long as
  `reap_action` is `NORMAL`, when its last URB is back. `IInv` says what these stand
  for: `num_retired` counts the URBs that are back or were never submitted
  (`Counted`), and with `NORMAL` URBs are done in order (`InOrder`), except while
  a cancellation runs through its loop of discards, from last to first, with
  the lock held: it sets `reap_action` before it lets go. What makes that true
  is that a loop of discards starts where nothing is queued behind it
  (`Downwards`), and that of a continuation the kernel ends the rest at once
  (`Contiguous`, `StallEnds`). For a control transfer, whose only URB
  decides, it says who discarded it (`ControlCancelled`).
- `Locks`, `Phases` and `Causes` follow the three threads: who holds which mutex,
  where a transfer is between submission and callback, and that the status of a
  callback can only be that of the one cancellation that found `cancelling` unset.
  The timeout holds `flying_transfers_lock` until it has set `TIMED_OUT`, and
  `HandleCancellation` needs that lock first, which is why the flag is never late.
- `TransferTyped` (`TypeOK`) and `DataIsKept` (`DataKept`): `transferred` never
  passes the length, and what the device sent is at the start of the buffer,
  whole and counted. Both speak of the sum of what the URBs received, but no sum
  over the URBs is in the proof: each URB says at which unit of the device's it was
  filled from (`from`). The device fills URBs in order, each no further than its
  length, and none behind one that failed for good (`Filled`: `Bounded`, `Ahead`,
  `Gapless`, `FaultLast`). Those that are done and not yet reaped follow each other
  without a gap, up to what has been sent (`Chain`). Hence `transferred` is where the
  next URB begins (`Accounted`), and what is counted is at the start of the buffer
  (`Prefix`): with `NORMAL` because every URB so far was full or failed for good
  (`NoGap`), so that the data of the one in hand, which is where the kernel put it
  (`InHand`), goes on from there; later because the code copies a surplus to the end
  of what is counted. For an isochronous transfer `transferred` is the space of the
  URBs back (`IsoAccounted`), and they are back in order as long as it can still be
  reported complete (`HandLast`, `IsoKept`). `Settled` takes this to the callback.
  Once a descriptor has been given up only what is already in the buffer is promised.

`TransferTimeoutsProof` (for any number of transfers, any timeouts, any number
of ticks between two steps):

- `ListInOrder` and `TimerInTime` (`TimerArmed`). What the timer must be after
  the first transfer has left depends on the second: `IInv` says that
  `flying_transfers` is sorted by deadline (`Sorted`), that it holds every
  transfer that is not free, and each once (`Listed`); `Armed` is then kept by
  insertion and removal at either end.

`HotplugContextProof` (for any sequence of devices and addresses, any
descriptors and callbacks; what may overlap, `Races`, is a hypothesis of each theorem,
and disagreements 11 and 12 say what happens without it):

- `OneByteIfPending` (`PipeSignalled`) and `ExitLeavesNothing`, without `"pipe"`: after
  `libusb_exit` there are no messages, hotplug events, closings or polled
  descriptors. Each writer of the byte looks at `Pending` before and after, but
  `libusb_exit` drops events unseen: `Leaving` says that by then nothing is left
  that could cause one, by the order in which it stops the monitor, the
  callbacks and, with one last round, the event thread; `Handling` and `PollSet`
  say what the event thread can still have in hand.
- `RefsMatch` (`RefsMatchHolders`), `NeverLeftWhilePlugged` (`LeftIsGone`) and
  `ExitReleases` (`ExitReleasesAll`), without `"init"` and `"pipe"`. A message that a
  device has left is a holder of the device, so the count follows the messages:
  `Chrono` lists them in the order of what they tell, from the one being handled
  to the one whose sender still holds `linux_hotplug_lock`. `Sound` says of any
  such list that the counts are the numbers of holders and that a device not yet
  seen has none (`Fresh`), and `Story` that no arrival is told after the departure
  and that an arrival of a device already gone is followed by its departure. Each
  step then changes one or two of the arguments of `Sound`, and a lemma per kind of
  step says how. Who takes a device off the list names it by an address or by a
  descriptor, and both are given again: `Places` says what is plugged in at an
  address, `Opened` which node a descriptor has open, `Watched` that the poll set has
  no descriptor left over, `Shapes` that one hotplug event is under way at a time.
  `Released` is what `libusb_exit` leaves.
- `ArrivalsNotLate` (`NoLateArrival`) and `FreedNotCalled` (`CallbacksAlive`), without
  any of `Races`. `Heard` relates what a callback was told last to what is still to be
  told, `Enumerates` says that a registration that enumerates has the events to itself,
  and `Onward` that a device that has left does not come back and that only a new
  device's arrival is new. `Alive`: callbacks marked for removal are freed before the
  next message is taken, so those a message is for stay while it is handled.

All modules prove `Init => IInv` and `IInv /\ [Next]_vars => IInv'`, one step
per action, and derive the rest; the invariants were model-checked in the
configurations of the runs before they were proved. The assumptions on constants
are evaluated by TLC in the runs; other hypotheses, on faults and overlaps,
stand in the theorems and hold in the run that checks the property.

## Disagreements

1 and 3 have a run that is expected to fail. The others show when constants of a
run are changed as stated, or can be read off the definitions named.

1. **A close that returns success with threads running** (`usbpv_s.cpp:551`,
   run `session_unplugged`). `stop_capture` takes `capture_finish` for "all
   threads have ended". An error of the transfer sets it while the parser, the
   debug thread (whose `dbg_finish` nobody sets) and perhaps the reader run;
   `close` deletes the queues they use and the caller deletes the object.
   The same end is reached, with an error for a result, when the write of STOP
   fails (`usbpv_s.cpp:556`; `QueuesOutliveThreads` with `Faults = {"write"}`), and
   when `packet_handler` outlasts the timeout (`Faults = {"slow"}`): `usbpv_s.cpp:582` prints "parser thread will
   terminate", but `pthread_kill(parser_thread, 0)` sends no signal.
2. **Lost data** (`usbpv_s.cpp:307`; `NothingLost` with
   `Faults = {"partial"}`). The time-out branch
   of `usb_data_callback` submits the same buffer again and does not look at
   `actual_length`. libusb's documentation says that a transfer that timed out
   may have received data.
3. **A second per packet** (`usbpv_lib.cpp:67`, run `timestamp_64`). `ts_offset`
   wraps below zero by design; added to a 64-bit `unsigned long` the sum is near
   2^32, is carried into another second, and so on with every packet. With 32
   bits (Windows) the sum wraps back.
4. **A close that never returns** (`usbpv_s.cpp:297`; the run `session_late`
   reaches it, and with `main = "closed"` alone in place of
   `main = "closed" \/ Overrun` its `CloseReturns` fails; with
   `Faults = {"slow", "echo"}` `CloseReturns` fails as it stands, since a STOP word
   in the payload ends the parser before `stop_capture` has waited in vain). If the
   parser has ended
   and the analyser goes on, the pool runs empty, and the callback waits in
   `mem_pool.get()` with the events lock held. `close` needs that lock. With the
   32 buffers of the code it takes 32 more transfers after the parser's end.
5. **A jump after a pause** (`usbpv_lib.cpp:92`). The offset set from the clock
   does not take the current tick off and `last_ov_ts` becomes 0 (`FromClock`), so the next
   packet is dated late by the counter's whole value, up to 280 ms.
   `CountsTicks` starts again after each pause for that reason. The threshold,
   280179507 ns, also lies above the counter's period of 279620266 ns; a pause
   between the two loses a period.
6. **A wrong error** (`usbpv_util.cpp:112`). -3 means "device not found" and
   also "unable to set usb configuration"; `open` reports both as
   `R_DeviceNotFound` (the two results of `Claim` for `"setconfig"`).

In libusb:

7. **URBs freed before they are reaped** (`linux_usbfs.c:2508-2517`; `FreedLast`
   with `Faults <- SplitStall`). After a stall, or the loss of the device, the
   remaining URBs are discarded from last to first, and so reaped in that order,
   but `reap_action` stays `NORMAL`: the first one reaped is the last of the
   transfer, which "ends" it. The comment says "cancel remaining urbs and wait
   for their completion before reporting results". On kernels with bulk
   continuation the rest ends in order and the case does not arise.
8. **A stall reported as success** (`linux_usbfs.c:2109`). A continuation ended
   by a stall refuses the next URB with EREMOTEIO; the code takes that for a
   short transfer (`COMPLETED_EARLY`, see `BulkRefused`) and reports what the
   surplus branch has: COMPLETED.
9. **Isochronous packets under the wrong descriptors** (`IsoReaped`). URBs that
   were discarded are reaped last to first, and their packets go to the next free
   descriptors. `DataKept` asks it of completed transfers only.
10. **A deadline no timer covers** (`io.c:1429`, `TimerCoversAll`, which fails in
    the run `timeouts`). `io.c:723-732` says that with a timerfd a main loop need
    not heed timeouts. A transfer submitted while the first of the list has
    expired and is not yet reaped is not first, so nothing is armed for it until
    the first is reaped. It is late, not forgotten (`TimeoutsFire`).
11. **Events during `libusb_init`** (`core.c:714-718`, `Races`). The context is
    known to the monitor before the scan. A device that leaves before the lists
    are made keeps its reference for ever (`"init"`: `RefsMatchHolders`); one
    that arrives between the lists and the pipe is signalled to no pipe, and
    the byte is missing from then on (`"pipe"`: `PipeSignalled`, and a deadlock
    in which `libusb_close` waits for an event thread that sleeps).
12. **Enumeration races** (`hotplug.c:295`, `Races = {"enumerate"}`). While a
    registration enumerates, the event thread may tell the callback that a device
    has left, and the enumeration then that it has arrived (`NoLateArrival`); the
    callback may return 1 to the event thread, which frees it under the
    enumeration (`CallbacksAlive`).
13. **Open or close in a transfer's callback** (`linux_usbfs.c:2763`).
    `op_handle_events` holds `open_devs_lock` while it calls back;
    `libusb_open` and `libusb_close` take it. Not modelled: usbpv's callback does
    neither.
14. **Session numbers** (`linux_usbfs.c:1159`, a FIXME there). A device is known
    by bus and address. `Plug` says what `LeftIsGone` depends on: an address is
    not given again while the departure of its last owner waits in the socket.
15. **A cut descriptor** (`descriptor.c:285`). When the buffer ends inside an
    interface descriptor `parse_interface` leaves the alternate setting with
    `bNumEndpoints` set and no `endpoint` array, which `libusb.h` says has that
    many entries; and class descriptors already passed over whole are dropped
    (`Extra`). `ParsesBack` leaves such ends out (`EndsWhole`).

In usbpv_api again:

16. **Threads that were never created** (`usbpv_s.cpp:575,583,587`). When
    `pthread_create` fails, `start_capture` returns `R_Thread` with `capture_finish`
    at 0, and for the debug thread only prints (`usbpv_s.cpp:273-276`).
    `stop_capture` then waits for all three: it gives the reader and the parser up
    with `pthread_kill`, and joins the debug thread, through a `pthread_t` that was
    never written. That is undefined; `LeaveReader`, `LeaveParser` and `JoinDbg`
    let the call return or the process crash. `session_faulty` has both, and no
    property promises anything after the crash. `session_late` is without
    `"create"`; with it `CloseReturns` fails by the crash alone.

## Limits

*Only model-checked*:

- every liveness property (`CloseReturns`, `OpenReturns`, `CancelEnds`,
  `TimeoutsFire`, `AllParsed` of the pipeline): liveness under fairness is
  outside the proof system's reach;
- that the event thread, the application and the monitor never wait for each other
  (the deadlock check of `context`): a statement about `ENABLED`;
- `Descriptors` (`ParsesBack`): the parser is recursive over the buffer, and so is
  the reading it is compared with.

*Left out of an action or bounded*, in code that is modelled otherwise:

- `sem_wait` may fail with EINTR: `de_q` would then return false and the parser end
  without setting `capture_finish` (`usbpv_s.h:161,169`), and `mem_pool.get()` return
  NULL (`usbpv_s.h:98,107`). `GetWait`, `PopWait`, `CallbackGet` and `ParserTake` have
  no such branch: it takes a signal handler that runs on one of these threads, and
  neither the library nor `pthread_kill(..., 0)` sends a signal.
- `Drain` of `DeviceOpen` leaves at most `MaxLeftover` full reads in the pipe; the loop
  of `usbpv_util.cpp:229-233` has no bound.
- `BufferAccounting` counts the buffer of a transfer that `libusb_close` has forgotten,
  and those in a deleted queue, as held: it says that no buffer is lost or doubled by
  the counters, not that all are free at the end.
- The model of a session starts with `data_state = 0`: the reset in `start_capture`
  after the parser thread has been started (`usbpv_s.cpp:279`) matters only for a second
  capture of one object.
- A choice in `CancelActions` stands for the type of the transfer (a bulk transfer
  keeps `ERROR` when it is cancelled, an interrupt transfer does not); the two are
  otherwise the same code.

*Abstracted*: payload and tick values (a header stands for its tick and
status); misaligned transfers (`count = len/4` drops bytes at the end; the
analyser sends whole words); the debug thread's output; how the serial number
is copied out of the option; the clock of a session, which counts ticks of 1000 ms
(`Deadline`, the arithmetic of `de_q_timeout`, has a theorem but no part in an
action).

In libusb, locks that are only ever held within one step (`usb_devs_lock`,
`event_data_lock`, `hotplug_cbs_lock`) have no variable; failures of `malloc` and
of the pipe are left out; one context and one transfer, or one list of
transfers, are looked at each by itself, so that a callback that submits
transfers or closes devices meets them only in `CaptureSession` and (for hotplug
callbacks) in `HotplugContext`.

*Not modelled*: `list_devices` (a loop of calls that concatenates strings); the
test program; the Windows build's pthread library. Of
libusb: the backends of other systems (Windows, Darwin, SunOS, Haiku, the BSDs),
more than half of its code, which the Linux build does not compile and whose behaviour
rests on driver interfaces outside the repository; the netlink monitor, an
alternative to udev; external event loops; interfaces, kernel drivers and
configurations (each a single ioctl); bulk streams; BOS and string
descriptors; several contexts; the headers and manual pages in comments, which
make up most of `core.c`, `io.c` and `libusb.h`.

## Plan

The order follows importance: what corrupts memory or loses data first.

1. `PacketParser` and `PacketStream`, with their proofs. *Done.*
2. `BufferPipeline` against `ChunkStream`, with its proof. *Done.*
3. `CaptureSession` with the faults and violations above. *Done*, with proofs
   of its safety properties.
4. `Timestamp`, `DeviceOpen`, `OptionFilter`. *Done*, with their proofs.
5. libusb: `UsbfsTransfer`, `TransferTimeouts`, `HotplugContext`,
   `Descriptors`. *Done*, all but the last with proofs of their safety properties.
6. The timeouts for which `de_q_timeout` computes a valid `timespec`. *Done*
   (`DeadlineExact`).
7. Left: two sessions of one object in a row, which no caller of the C interface can
   make, would need `CaptureSession` to keep `data_parser_q` and `dbg_finish` over a
   stop; a proof that `parse_configuration` reads back what a well-formed buffer
   holds would need an induction over the buffer.
