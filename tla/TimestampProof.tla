--------------------------- MODULE TimestampProof ---------------------------
(***************************************************************************)
(* on_packet with an unsigned long of 32 bits: the nanoseconds stay below  *)
(* a second and the time moves on by exactly the ticks of the counter, for *)
(* every frequency, period and width that keep the proportions of the      *)
(* code's, and every sequence of packets.                                  *)
(*                                                                         *)
(* Neither is inductive.  What holds at every packet is that ts_offset,    *)
(* which may have wrapped below zero, and the counter add up to the ticks  *)
(* since utc_ts modulo 2^32, and that these are less than a second.        *)
(***************************************************************************)
EXTENDS Timestamp, TLAPS

IInv ==
    /\ TypeOK
    /\ clks < Freq
    /\ ts_offset + last_ov_ts \in {clks, clks + Word}
    /\ ~synced => tick = last_ov_ts
    /\ NanosBelowSecond

-----------------------------------------------------------------------------
(* Remainders of numbers no further from the range than its width.         *)
LEMMA Remainder ==
  \A m \in Nat \ {0}, x \in Int :
    -m <= x /\ x < 2 * m =>
      x % m = IF x < 0 THEN x + m ELSE IF x < m THEN x ELSE x - m
<1> SUFFICES ASSUME NEW m \in Nat \ {0}, NEW x \in Int, -m <= x, x < 2 * m
             PROVE  x % m = IF x < 0 THEN x + m ELSE IF x < m THEN x ELSE x - m
  OBVIOUS
<1>1. CASE x \in 0 .. m - 1
  BY <1>1
<1>2. CASE x \in -m .. -1
  BY <1>2
<1>3. CASE x \in m .. 2 * m - 1
  BY <1>3
<1> QED  BY <1>1, <1>2, <1>3

(* The conversions: a time of the clock that is less than a second is less *)
(* than UPV_FREQ_HZ ticks, and so many ticks are less than a second.       *)
LEMMA Conversions ==
  /\ \A n \in 0 .. Second - 1 : Ticks(n) \in 0 .. Freq - 1
  /\ \A c \in 0 .. Freq - 1 : Nanos(c) \in 0 .. Second - 1
<1>1. Freq \in Nat /\ Second \in Nat /\ 3 * Second = 50 * Freq
  BY ClockAssumption
<1> DEFINE third == Freq \div 3
<1>2. third \in Nat /\ Freq = 3 * third /\ Second = 50 * third
  BY <1>1
<1> HIDE DEF third
<1>3. ASSUME NEW n \in 0 .. Second - 1 PROVE Ticks(n) \in 0 .. Freq - 1
  BY <1>2 DEF Ticks
<1>4. ASSUME NEW c \in 0 .. Freq - 1 PROVE Nanos(c) \in 0 .. Second - 1
  BY <1>2 DEF Nanos
<1> QED  BY <1>3, <1>4

LEMMA InitIInv == Init => IInv
<1> SUFFICES ASSUME Init PROVE IInv
  OBVIOUS
<1>1. /\ utc_ts = 0 /\ last_ov_ts = 0 /\ ts_offset = 0 /\ tick = 0
      /\ clks = 0 /\ nsec = 0 /\ synced = FALSE
      /\ last_ts = [sec |-> 0, nsec |-> 0]
  BY DEF Init
<1>2. /\ Wrap \in Nat \ {0} /\ Freq > 0 /\ Second > 0
      /\ Word \in Nat \ {0} /\ MaxTime \in Nat
  BY ClockAssumption
<1>3. TypeOK
  <2>1. /\ utc_ts \in 0 .. MaxTime /\ last_ov_ts \in 0 .. Wrap - 1
        /\ tick \in 0 .. Wrap - 1 /\ ts_offset \in 0 .. Word - 1
        /\ clks \in Nat /\ nsec \in Nat
    BY <1>1, <1>2
  <2>2. last_ts \in Clock \cup {[sec |-> 0, nsec |-> 0]}
    BY <1>1
  <2> QED  BY <1>1, <2>1, <2>2 DEF TypeOK
<1> QED
  BY <1>1, <1>2, <1>3, ClockAssumption DEF IInv, NanosBelowSecond

(* A packet whose time comes from the counter: the sum is the ticks since  *)
(* utc_ts, and one second at most is carried.                              *)
LEMMA CounterStep ==
  ASSUME Long = Word, IInv, NEW t \in 0 .. Wrap - 1, NEW ts \in Clock,
         FromCounter(t, ts), tick' = t, last_ts' = ts, utc_ts < MaxTime
  PROVE  /\ IInv'
         /\ LET moved == t - last_ov_ts + (IF t < last_ov_ts THEN Wrap ELSE 0)
            IN  \/ utc_ts' = utc_ts /\ clks' = clks + moved
                \/ utc_ts' = utc_ts + 1 /\ clks' = clks + moved - Freq
<1> DEFINE moved == t - last_ov_ts + (IF t < last_ov_ts THEN Wrap ELSE 0)
           base == Unwrapped(t)
           sum == (base + t) % Word
<1>1. /\ Wrap \in Nat /\ Freq \in Nat /\ Word \in Nat \ {0} /\ Second \in Nat
      /\ Wrap < Freq /\ 3 * Freq < Word /\ Second <= Word /\ MaxTime \in Nat
  BY ClockAssumption
<1>2. /\ utc_ts \in 0 .. MaxTime /\ clks \in 0 .. Freq - 1
      /\ last_ov_ts \in 0 .. Wrap - 1 /\ ts_offset \in 0 .. Word - 1
      /\ ts_offset + last_ov_ts \in {clks, clks + Word}
  BY <1>1 DEF IInv, TypeOK
<1>3. moved \in 0 .. Wrap - 1
  BY <1>1, <1>2
<1>4. base \in 0 .. Word - 1 /\ base + t \in {clks + moved, clks + moved + Word}
  <2>1. CASE t < last_ov_ts
    <3>1. base = (ts_offset + Wrap) % Word
      BY <2>1 DEF Unwrapped
    <3>2. ts_offset + Wrap \in Int /\ 0 <= ts_offset + Wrap /\ ts_offset + Wrap < 2 * Word
      BY <1>1, <1>2
    <3> DEFINE x == ts_offset + Wrap
    <3> HIDE DEF x
    <3>3. x % Word = IF x < Word THEN x ELSE x - Word
      BY <1>1, <3>2, Remainder DEF x
    <3> QED  BY <1>1, <1>2, <2>1, <3>1, <3>3 DEF x
  <2>2. CASE ~(t < last_ov_ts)
    BY <1>1, <1>2, <2>2 DEF Unwrapped
  <2> QED  BY <2>1, <2>2
<1>5. /\ utc_ts' = IF Carry(sum) THEN utc_ts + 1 ELSE utc_ts
      /\ ts_offset' = IF Carry(sum) THEN (base - Freq) % Word ELSE base
      /\ clks' = IF Carry(sum) THEN sum - Freq ELSE sum
      /\ nsec' = Nanos(clks') % Word /\ last_ov_ts' = t /\ synced' = FALSE
  BY DEF FromCounter
<1> HIDE DEF moved, base
<1>6. sum = clks + moved
  <2> DEFINE x == base + t
  <2>1. x \in Int /\ 0 <= x /\ -Word <= x /\ x < 2 * Word
    BY <1>1, <1>4
  <2> HIDE DEF x
  <2>2. x % Word = IF x < 0 THEN x + Word ELSE IF x < Word THEN x ELSE x - Word
    BY <1>1, <2>1, Remainder
  <2> QED  BY <1>1, <1>2, <1>3, <1>4, <2>1, <2>2 DEF x
<1> HIDE DEF sum
<1>7. /\ clks' \in 0 .. Freq - 1
      /\ ts_offset' \in 0 .. Word - 1
      /\ ts_offset' + t \in {clks', clks' + Word}
      /\ utc_ts' \in 0 .. MaxTime
      /\ \/ utc_ts' = utc_ts /\ clks' = clks + moved
         \/ utc_ts' = utc_ts + 1 /\ clks' = clks + moved - Freq
  <2>1. CASE Carry(sum)
    <3>1. ts_offset' = (base - Freq) % Word /\ clks' = sum - Freq /\ utc_ts' = utc_ts + 1
      BY <1>5, <2>1
    <3>2. sum >= Freq
      BY <2>1 DEF Carry
    <3> DEFINE x == base - Freq
    <3>3. x \in Int /\ -Word <= x /\ x < Word /\ x < 2 * Word
      BY <1>1, <1>4
    <3> HIDE DEF x
    <3>4. x % Word = IF x < 0 THEN x + Word ELSE IF x < Word THEN x ELSE x - Word
      BY <1>1, <3>3, Remainder
    <3> QED  BY <1>1, <1>2, <1>3, <1>4, <1>6, <3>1, <3>2, <3>3, <3>4 DEF x
  <2>2. CASE ~Carry(sum)
    <3>1. ts_offset' = base /\ clks' = sum /\ utc_ts' = utc_ts
      BY <1>5, <2>2
    <3>2. ~(sum >= Freq)
      BY <2>2 DEF Carry
    <3> QED  BY <1>1, <1>2, <1>3, <1>4, <1>6, <3>1, <3>2
  <2> QED  BY <2>1, <2>2
<1>8. nsec' \in 0 .. Second - 1
  <2>1. Nanos(clks') \in 0 .. Second - 1
    BY <1>7, Conversions
  <2> DEFINE x == Nanos(clks')
  <2> HIDE DEF x
  <2>2. x \in 0 .. Second - 1
    BY <2>1 DEF x
  <2>3. x % Word = x
    BY <1>1, <2>2
  <2> QED  BY <1>5, <2>2, <2>3 DEF x
<1>9. TypeOK'
  <2>1. last_ts' \in Clock \cup {[sec |-> 0, nsec |-> 0]} /\ tick' = t
    OBVIOUS
  <2>2. clks' \in Nat /\ nsec' \in Nat
    BY <1>1, <1>7, <1>8
  <2> QED  BY <1>5, <1>7, <2>1, <2>2 DEF TypeOK
<1>10. IInv'
  <2>1. clks' < Freq /\ nsec' < Second
    BY <1>1, <1>7, <1>8
  <2> QED  BY <1>5, <1>7, <1>9, <2>1 DEF IInv, NanosBelowSecond
<1> QED  BY <1>7, <1>10 DEF moved

LEMMA NextIInv ==
  ASSUME Long = Word, IInv, [Next]_vars PROVE IInv'
<1>1. CASE UNCHANGED vars
  BY <1>1 DEF vars, IInv, TypeOK, NanosBelowSecond
<1>2. CASE Next
  <2>1. PICK t \in 0 .. Wrap - 1, ts \in Clock : Packet(t, ts)
    BY <1>2 DEF Next
  <2>2. CASE FromClock(t, ts)
    <3>1. ts.sec \in 1 .. MaxTime /\ ts.nsec \in 0 .. Second - 1
      BY ClockAssumption
    <3>2. Ticks(ts.nsec) \in 0 .. Freq - 1
      BY <3>1, Conversions
    <3>3. /\ utc_ts' = ts.sec /\ nsec' = ts.nsec /\ last_ov_ts' = 0 /\ synced' = TRUE
          /\ ts_offset' = Ticks(ts.nsec) /\ clks' = ts_offset' /\ tick' = t /\ last_ts' = ts
      BY <2>1, <2>2 DEF FromClock, Packet
    <3> QED
      BY <3>1, <3>2, <3>3, ClockAssumption DEF IInv, TypeOK, NanosBelowSecond
  <2>3. CASE FromCounter(t, ts)
    BY <2>1, <2>3, CounterStep DEF Packet
  <2> QED  BY <2>1, <2>2, <2>3 DEF Packet
<1> QED  BY <1>1, <1>2

LEMMA InductiveInvariant ==
  ASSUME Long = Word PROVE Spec => []IInv
BY InitIInv, NextIInv, PTL DEF Spec

-----------------------------------------------------------------------------
(* The nanoseconds given to the callback are less than a second, where     *)
(* unsigned long has 32 bits.                                              *)
THEOREM NanosFit ==
  ASSUME Long = Word PROVE Spec => []NanosBelowSecond
BY InductiveInvariant, PTL DEF IInv

(* Between two packets whose times come from the counter the time moves on *)
(* by exactly the ticks between them, over every wrap of the counter, of   *)
(* ts_offset and of the second.                                            *)
THEOREM TicksCounted ==
  ASSUME Long = Word PROVE Spec => CountsTicks
<1>1. IInv /\ [Next]_vars => [~synced /\ ~synced' => Time' = Time + Elapsed]_vars
  <2> SUFFICES ASSUME IInv, Next, ~synced, ~synced' PROVE Time' = Time + Elapsed
    OBVIOUS
  <2>1. PICK t \in 0 .. Wrap - 1, ts \in Clock : Packet(t, ts)
    BY DEF Next
  <2>2. FromCounter(t, ts) /\ tick' = t /\ last_ts' = ts /\ utc_ts < MaxTime
    BY <2>1 DEF Packet, FromClock
  <2> DEFINE moved == t - last_ov_ts + (IF t < last_ov_ts THEN Wrap ELSE 0)
  <2>3. \/ utc_ts' = utc_ts /\ clks' = clks + moved
        \/ utc_ts' = utc_ts + 1 /\ clks' = clks + moved - Freq
    BY <2>2, CounterStep
  <2>4. Elapsed = moved
    <3>1. tick = last_ov_ts /\ tick \in 0 .. Wrap - 1 /\ Wrap \in Nat \ {0}
      BY ClockAssumption DEF IInv, TypeOK
    <3>2. Elapsed = (t - tick) % Wrap
      BY <2>2 DEF Elapsed
    <3> DEFINE x == t - tick
    <3>3. x \in Int /\ -Wrap <= x /\ x < Wrap
      BY <3>1
    <3> HIDE DEF x
    <3>4. x < 2 * Wrap
      BY <3>1, <3>3
    <3>5. x % Wrap = IF x < 0 THEN x + Wrap ELSE IF x < Wrap THEN x ELSE x - Wrap
      BY <3>1, <3>3, <3>4, Remainder
    <3> QED  BY <3>1, <3>2, <3>3, <3>5 DEF x
  <2>5. utc_ts \in Nat /\ clks \in Nat /\ moved \in Int /\ Freq \in Nat
    BY ClockAssumption DEF IInv, TypeOK
  <2>6. (utc_ts + 1) * Freq = utc_ts * Freq + Freq
    BY <2>5
  <2> HIDE DEF moved
  <2> QED  BY <2>3, <2>4, <2>5, <2>6 DEF Time
<1> QED  BY <1>1, InductiveInvariant, PTL DEF Spec, CountsTicks
=============================================================================
