------------------------------ MODULE Timestamp ------------------------------
(***************************************************************************)
(* upv_wrap::on_packet: the 24-bit counter that the analyser puts on each  *)
(* packet becomes the time of day given to the user's callback.  Between   *)
(* packets that come close together the counter alone moves the time on;   *)
(* after a pause longer than the counter's period the time is taken from   *)
(* the clock of the host.                                                  *)
(*                                                                         *)
(* ts_offset is a uint32_t that is allowed to wrap below zero.  The sum    *)
(* ts_offset + tick_60MHz is as wide as unsigned long, which is the type   *)
(* of tick_60MHz: 32 bits on Windows, 64 on Linux.                         *)
(***************************************************************************)
EXTENDS Integers

CONSTANTS
    Wrap,     \* the period of the counter (2^24 ticks)
    Freq,     \* UPV_FREQ_HZ (60000000)
    Second,   \* nanoseconds in a second, 50/3 of Freq
    Idle,     \* the pause that is too long, in nanoseconds (280179507)
    Word,     \* 2^32, for uint32_t
    Long,     \* 2^32 or 2^64, for unsigned long
    Clock,    \* the times the clock of the host may show
    MaxTime   \* bound on utc_ts

ASSUME ClockAssumption ==
    /\ Wrap \in Nat \ {0} /\ Freq \in Nat /\ Idle \in Nat
    /\ Wrap < Freq /\ 2 * Second <= Word /\ Word <= Long
    /\ 3 * Second = 50 * Freq
    /\ Second \in Nat /\ Word \in Nat /\ Long \in Nat /\ MaxTime \in Nat
    /\ \A t \in Clock : t.sec \in 1 .. MaxTime /\ t.nsec \in 0 .. Second - 1

VARIABLES
    utc_ts, last_ov_ts, ts_offset, last_ts,   \* as in upv_wrap
    tick,     \* of the last packet
    clks,     \* of the last packet: ticks since utc_ts
    nsec,     \* of the last packet, as given to the callback
    synced    \* the time of the last packet was taken from the clock

vars == <<utc_ts, last_ov_ts, ts_offset, last_ts, tick, clks, nsec, synced>>

Init ==
    /\ utc_ts = 0 /\ last_ov_ts = 0 /\ ts_offset = 0
    /\ last_ts = [sec |-> 0, nsec |-> 0]
    /\ tick = 0 /\ clks = 0 /\ nsec = 0 /\ synced = FALSE

Nanos(c) == c * 17 - c \div 3
Ticks(n) == n \div 17 + n \div 850

\* The pause before a packet that comes at time ts, as the code computes it.
TooLong(ts) ==
    LET borrow == ts.nsec < last_ts.nsec
        dnano == ts.nsec - last_ts.nsec + (IF borrow THEN Second ELSE 0)
        dts == ts.sec - last_ts.sec - (IF borrow THEN 1 ELSE 0)
    IN  dnano > Idle \/ dts > 0

\* Mutant: a counter that has not moved counts as one that has wrapped.
Unwrapped_Equal(t) ==
    IF t <= last_ov_ts THEN (ts_offset + Wrap) % Word ELSE ts_offset

Unwrapped(t) ==
    IF t < last_ov_ts THEN (ts_offset + Wrap) % Word ELSE ts_offset

\* Mutant: > for >=.
Carry_Late(c) == c > Freq

Carry(c) == c >= Freq

FromClock(t, ts) ==
    /\ TooLong(ts)
    /\ utc_ts' = ts.sec /\ nsec' = ts.nsec
    /\ last_ov_ts' = 0
    /\ ts_offset' = Ticks(ts.nsec)
    /\ clks' = ts_offset'
    /\ synced' = TRUE

FromCounter(t, ts) ==
    /\ ~TooLong(ts)
    /\ LET sum == (Unwrapped(t) + t) % Long
           carry == Carry(sum)
       IN  /\ utc_ts' = IF carry THEN utc_ts + 1 ELSE utc_ts
           /\ ts_offset' = IF carry THEN (Unwrapped(t) - Freq) % Word ELSE Unwrapped(t)
           /\ clks' = IF carry THEN sum - Freq ELSE sum
    /\ nsec' = Nanos(clks') % Word
    /\ last_ov_ts' = t
    /\ synced' = FALSE

Packet(t, ts) ==
    /\ utc_ts < MaxTime
    /\ FromClock(t, ts) \/ FromCounter(t, ts)
    /\ tick' = t
    /\ last_ts' = ts

Next == \E t \in 0 .. Wrap - 1, ts \in Clock : Packet(t, ts)

Spec == Init /\ [][Next]_vars

-----------------------------------------------------------------------------
TypeOK ==
    /\ utc_ts \in 0 .. MaxTime
    /\ last_ov_ts \in 0 .. Wrap - 1 /\ tick \in 0 .. Wrap - 1
    /\ ts_offset \in 0 .. Word - 1
    /\ last_ts \in Clock \cup {[sec |-> 0, nsec |-> 0]}
    /\ clks \in Nat /\ nsec \in Nat
    /\ synced \in BOOLEAN

(* The nanoseconds given to the callback are less than a second: one       *)
(* subtraction of UPV_FREQ_HZ is always enough.                            *)
NanosBelowSecond == nsec < Second

Time == utc_ts * Freq + clks
Elapsed == (tick' - tick) % Wrap

(* While the time comes from the counter it moves on by exactly the ticks  *)
(* between two packets, over every wrap of the counter and every second.   *)
CountsTicks == [][~synced /\ ~synced' => Time' = Time + Elapsed]_vars
=============================================================================
