----------------------- MODULE TransferTimeoutsProof -----------------------
(***************************************************************************)
(* The timerfd never fires late for the first transfer of the list, for    *)
(* any number of transfers, any timeouts and with any number of ticks      *)
(* between two steps.                                                      *)
(*                                                                         *)
(* TimerArmed is not inductive: what becomes of the timer when the first   *)
(* transfer is taken off the list depends on the deadline of the second.   *)
(* The invariant adds that the list is in the order of the deadlines, and  *)
(* that it holds each transfer that is not free once: a transfer that is   *)
(* reaped or refused leaves no second entry behind.                        *)
(***************************************************************************)
EXTENDS TransferTimeouts, SequenceTheorems, WellFoundedInduction, TLAPS

States == {"free", "submitting", "refused", "in_flight", "cancelling", "done"}
Ticks == Nat \union {Never}

Typed ==
    /\ list \in Seq(Transfers) /\ completed \in Seq(Transfers)
    /\ left \in [Transfers -> Ticks] /\ timer \in Ticks
    /\ state \in [Transfers -> States]

Once(s) == \A i, j \in 1 .. Len(s) : s[i] = s[j] => i = j

(* The list holds what is not free, the kernel has what is done.           *)
Listed ==
    /\ Once(list) /\ Once(completed)
    /\ \A t \in Transfers : state[t] # "free" => \E i \in 1 .. Len(list) : list[i] = t
    /\ \A i \in 1 .. Len(list) : state[list[i]] # "free"
    /\ \A i \in 1 .. Len(completed) : state[completed[i]] = "done"

NoLater(s, t) == left[t] # Never => left[s] # Never /\ left[s] <= left[t]
Sorted == \A i, j \in 1 .. Len(list) : i < j => NoLater(list[i], list[j])

Armed ==
    using /\ list # <<>> /\ list[1] \notin handled /\ left[list[1]] # Never =>
        timer # Never /\ timer <= left[list[1]]

IInv == Typed /\ Listed /\ Sorted /\ Armed

-----------------------------------------------------------------------------
(* The operators on lists.                                                 *)
LEMMA MinOfNats ==
  ASSUME NEW S, S \subseteq Nat, S # {}
  PROVE  Min(S) \in S /\ \A y \in S : Min(S) <= y
<1> DEFINE R == OpToRel(<, Nat)
<1>1. \A x, y \in Nat : <<y, x>> \in R <=> y < x
  BY DEF OpToRel
<1>2. IsWellFoundedOn(R, Nat)
  BY NatLessThanWellFounded
<1> HIDE DEF R
<1>3. PICK x \in S : \A y \in S : ~ (<<y, x>> \in R)
  BY <1>2, WFMin
<1>4. \A y \in S : x <= y
  <2> SUFFICES ASSUME NEW y \in S PROVE x <= y
    OBVIOUS
  <2>1. x \in Nat /\ y \in Nat /\ ~ (y < x)
    BY <1>1, <1>3
  <2> QED  BY <2>1
<1> QED  BY <1>4 DEF Min

LEMMA Inserted ==
  ASSUME NEW S, NEW s \in Seq(S), NEW e \in S, NEW k \in 1 .. Len(s) + 1
  PROVE  /\ InsertAt(s, k, e) \in Seq(S) /\ Len(InsertAt(s, k, e)) = Len(s) + 1
         /\ \A i \in 1 .. Len(s) + 1 :
              InsertAt(s, k, e)[i] = IF i < k THEN s[i] ELSE IF i = k THEN e ELSE s[i - 1]
<1> DEFINE front == SubSeq(s, 1, k - 1)
           back == SubSeq(s, k, Len(s))
<1>1. /\ front \in Seq(S) /\ Len(front) = k - 1
      /\ \A i \in 1 .. k - 1 : front[i] = s[i]
  BY SubSeqProperties
<1>2. /\ back \in Seq(S) /\ Len(back) = Len(s) - k + 1
      /\ \A i \in 1 .. Len(s) - k + 1 : back[i] = s[k + i - 1]
  BY SubSeqProperties
<1>3. InsertAt(s, k, e) = front \o <<e>> \o back
  BY DEF InsertAt
<1> HIDE DEF front, back
<1>4. /\ front \o <<e>> \in Seq(S) /\ Len(front \o <<e>>) = k
      /\ \A i \in 1 .. k : (front \o <<e>>)[i] = IF i < k THEN s[i] ELSE e
  BY <1>1
<1> DEFINE ahead == front \o <<e>>
<1> HIDE DEF ahead
<1>5. ahead \in Seq(S) /\ Len(ahead) = k
  BY <1>4 DEF ahead
<1>6. /\ ahead \o back \in Seq(S) /\ Len(ahead \o back) = Len(s) + 1
      /\ \A i \in 1 .. Len(s) + 1 :
           (ahead \o back)[i] = IF i <= k THEN ahead[i] ELSE back[i - k]
  BY <1>2, <1>5, ConcatProperties
<1> QED  BY <1>2, <1>3, <1>4, <1>6 DEF ahead

LEMMA RemovedAt ==
  ASSUME NEW S, NEW s \in Seq(S), NEW k \in 1 .. Len(s)
  PROVE  /\ RemoveAt(s, k) \in Seq(S) /\ Len(RemoveAt(s, k)) = Len(s) - 1
         /\ \A i \in 1 .. Len(s) - 1 : RemoveAt(s, k)[i] = IF i < k THEN s[i] ELSE s[i + 1]
<1> DEFINE front == SubSeq(s, 1, k - 1)
           back == SubSeq(s, k + 1, Len(s))
<1>1. /\ front \in Seq(S) /\ Len(front) = k - 1
      /\ \A i \in 1 .. k - 1 : front[i] = s[i]
  BY SubSeqProperties
<1>2. /\ back \in Seq(S) /\ Len(back) = Len(s) - k
      /\ \A i \in 1 .. Len(s) - k : back[i] = s[k + i]
  BY SubSeqProperties
<1>3. RemoveAt(s, k) = front \o back
  BY DEF RemoveAt
<1> HIDE DEF front, back
<1>4. /\ front \o back \in Seq(S) /\ Len(front \o back) = Len(s) - 1
      /\ \A i \in 1 .. Len(s) - 1 :
           (front \o back)[i] = IF i <= k - 1 THEN front[i] ELSE back[i - (k - 1)]
  <2>1. /\ front \o back \in Seq(S) /\ Len(front \o back) = Len(front) + Len(back)
        /\ \A i \in 1 .. Len(front) + Len(back) : (front \o back)[i] =
             IF i <= Len(front) THEN front[i] ELSE back[i - Len(front)]
    BY <1>1, <1>2, ConcatProperties
  <2>2. Len(front) = k - 1 /\ Len(front) + Len(back) = Len(s) - 1
    BY <1>1, <1>2
  <2> QED  BY <2>1, <2>2
<1>5. ASSUME NEW i \in 1 .. Len(s) - 1
      PROVE  (front \o back)[i] = IF i < k THEN s[i] ELSE s[i + 1]
  <2>1. CASE i < k
    BY <1>1, <1>4, <2>1
  <2>2. CASE ~(i < k)
    <3>1. i - (k - 1) \in 1 .. Len(s) - k /\ k + (i - (k - 1)) = i + 1
      BY <2>2
    <3>2. back[i - (k - 1)] = s[i + 1]
      BY <1>2, <3>1
    <3>3. (front \o back)[i] = back[i - (k - 1)]
      BY <1>4, <2>2
    <3> QED  BY <2>2, <3>2, <3>3
  <2> QED  BY <2>1, <2>2
<1> QED  BY <1>3, <1>4, <1>5

LEMMA Removed ==
  ASSUME NEW S, NEW s \in Seq(S), NEW e, \E i \in 1 .. Len(s) : s[i] = e
  PROVE  \E k \in 1 .. Len(s) : s[k] = e /\ RemoveFirst(s, e) = RemoveAt(s, k)
<1> DEFINE I == {i \in 1 .. Len(s) : s[i] = e}
<1>1. I \subseteq Nat /\ I # {}
  OBVIOUS
<1>2. Min(I) \in I
  BY <1>1, MinOfNats
<1>3. RemoveFirst(s, e) = RemoveAt(s, Min(I))
  BY <1>1 DEF RemoveFirst, SelectInSeq
<1> QED  BY <1>2, <1>3

(* The first of a list, if its deadline is open, is the next timeout.      *)
LEMMA NextIsFirst ==
  ASSUME NEW l \in Seq(Transfers), NEW h, l # <<>>, l[1] \notin h, left[l[1]] # Never
  PROVE  NextTimeout(l, h) = left[l[1]]
<1> DEFINE open == {i \in DOMAIN l : l[i] \notin h /\ \A j \in 1..i : left[l[j]] # Never}
<1>1. 1 \in open /\ open \subseteq Nat \ {0}
  OBVIOUS
<1>2. Min(open) = 1
  <2>1. open \subseteq Nat /\ open # {}
    BY <1>1
  <2> HIDE DEF open
  <2>2. Min(open) \in open /\ Min(open) <= 1
    BY <1>1, <2>1, MinOfNats
  <2>3. Min(open) \in Nat \ {0}
    BY <1>1, <2>2
  <2> QED  BY <2>2, <2>3
<1> QED  BY <1>1, <1>2 DEF NextTimeout

LEMMA NextTimeoutType ==
  ASSUME Typed, NEW l \in Seq(Transfers), NEW h PROVE NextTimeout(l, h) \in Ticks
<1> DEFINE open == {i \in DOMAIN l : l[i] \notin h /\ \A j \in 1..i : left[l[j]] # Never}
<1>1. open \subseteq Nat /\ \A i \in open : l[i] \in Transfers
  OBVIOUS
<1>2. NextTimeout(l, h) = IF open = {} THEN Never ELSE left[l[Min(open)]]
  BY DEF NextTimeout
<1> HIDE DEF open
<1>3. open # {} => Min(open) \in open
  BY <1>1, MinOfNats
<1> QED  BY <1>1, <1>2, <1>3 DEF Typed, Ticks

-----------------------------------------------------------------------------
LEMMA InitIInv == Init => IInv
<1> SUFFICES ASSUME Init PROVE IInv
  OBVIOUS
<1>1. /\ list = <<>> /\ completed = <<>> /\ timer = Never
      /\ left = [t \in Transfers |-> Never] /\ state = [t \in Transfers |-> "free"]
  BY DEF Init
<1>2. Typed
  BY <1>1 DEF Typed, Ticks, States
<1> QED  BY <1>1, <1>2 DEF IInv, Listed, Once, Sorted, Armed

(* A step of one transfer that keeps the list and the deadlines.           *)
LEMMA SameList ==
  ASSUME IInv, NEW t \in Transfers, NEW s \in States,
         state[t] \notin {"free", "done"}, s \notin {"free", "done"},
         state' = [state EXCEPT ![t] = s],
         UNCHANGED <<using, list, left, timer, completed>>, handled \subseteq handled'
  PROVE  IInv'
<1>1. Typed'
  BY DEF IInv, Typed
<1>2. Listed'
  BY DEF IInv, Typed, Listed, Once
<1>3. Sorted' /\ Armed'
  BY DEF IInv, Sorted, NoLater, Armed
<1> QED  BY <1>1, <1>2, <1>3 DEF IInv

LEMMA SubmitIInv ==
  ASSUME IInv, NEW t \in Transfers, Submit(t) PROVE IInv'
<1>1. PICK d \in Delays \union {Never} :
        /\ list' = InsertAt(list, Place(d), t)
        /\ left' = [left EXCEPT ![t] = d]
        /\ timer' = IF Arms(d) THEN d ELSE timer
  BY DEF Submit
<1>2. /\ state[t] = "free" /\ state' = [state EXCEPT ![t] = "submitting"]
      /\ handled' = handled \ {t} /\ UNCHANGED <<using, completed>>
  BY DEF Submit
<1>3. d \in Ticks
  BY DelaysAssumption DEF Ticks
<1>4. Typed
  BY DEF IInv
<1> DEFINE n == Len(list)
           k == Place(d)
           later == {i \in DOMAIN list : left[list[i]] = Never \/ left[list[i]] > d}
<1>5. /\ k \in 1 .. n + 1
      /\ d = Never => k = n + 1
      /\ d # Never => \A i \in 1 .. n :
            i < k => left[list[i]] # Never /\ left[list[i]] <= d
      /\ k <= n => left[list[k]] = Never \/ left[list[k]] > d
  <2>1. n \in Nat /\ DOMAIN list = 1 .. n /\ \A i \in 1 .. n : left[list[i]] \in Ticks
    BY <1>4 DEF Typed
  <2>2. CASE d = Never \/ later = {}
    <3>1. k = n + 1
      BY <2>2 DEF Place
    <3>2. d # Never => \A i \in 1 .. n : left[list[i]] # Never /\ ~(left[list[i]] > d)
      BY <2>1, <2>2
    <3> QED  BY <1>3, <2>1, <3>1, <3>2 DEF Ticks, Never
  <2>3. CASE d # Never /\ later # {}
    <3>1. k = Min(later) /\ later \subseteq Nat /\ later # {}
      BY <2>1, <2>3 DEF Place
    <3> HIDE DEF k, later
    <3>2. k \in later /\ \A i \in later : k <= i
      BY <3>1, MinOfNats
    <3>3. \A i \in 1 .. n : i < k => i \notin later
      BY <2>1, <3>1, <3>2
    <3>4. \A i \in 1 .. n : i < k => left[list[i]] # Never /\ ~(left[list[i]] > d)
      BY <2>1, <3>3 DEF later
    <3>5. k \in 1 .. n /\ (left[list[k]] = Never \/ left[list[k]] > d)
      BY <2>1, <3>2 DEF later
    <3> QED  BY <1>3, <2>1, <2>3, <3>4, <3>5 DEF Ticks, Never
  <2> QED  BY <2>2, <2>3
<1> HIDE DEF k, later
<1>6. /\ list' \in Seq(Transfers) /\ Len(list') = n + 1
      /\ \A i \in 1 .. n + 1 :
           list'[i] = IF i < k THEN list[i] ELSE IF i = k THEN t ELSE list[i - 1]
  <2>1. list' = InsertAt(list, k, t)
    BY <1>1 DEF k
  <2>2. list \in Seq(Transfers) /\ k \in 1 .. Len(list) + 1
    BY <1>4, <1>5 DEF Typed
  <2>3. /\ InsertAt(list, k, t) \in Seq(Transfers)
        /\ Len(InsertAt(list, k, t)) = Len(list) + 1
        /\ \A i \in 1 .. Len(list) + 1 : InsertAt(list, k, t)[i] =
             IF i < k THEN list[i] ELSE IF i = k THEN t ELSE list[i - 1]
    BY <2>2, Inserted
  <2> QED  BY <2>1, <2>3
<1>7. \A i \in 1 .. n : list[i] \in Transfers /\ list[i] # t
  BY <1>2, <1>4 DEF IInv, Listed, Typed
<1>8. Typed'
  BY <1>1, <1>2, <1>3, <1>4, <1>6 DEF Typed, States
<1>9. Listed'
  <2>1. Once(list')
    <3> SUFFICES ASSUME NEW i \in 1 .. n + 1, NEW j \in 1 .. n + 1, list'[i] = list'[j]
                 PROVE  i = j
      BY <1>6 DEF Once
    <3>1. n \in Nat /\ \A a, b \in 1 .. n : list[a] = list[b] => a = b
      BY <1>4 DEF IInv, Listed, Once, Typed
    <3>2. \A a \in 1 .. n + 1 : a # k =>
            (IF a < k THEN a ELSE a - 1) \in 1 .. n
            /\ list'[a] = list[IF a < k THEN a ELSE a - 1]
      BY <1>5, <1>6, <3>1
    <3>3. list'[k] = t
      BY <1>5, <1>6
    <3>4. CASE i = k \/ j = k
      BY <1>7, <3>2, <3>3, <3>4
    <3>5. CASE i # k /\ j # k
      <4>1. (IF i < k THEN i ELSE i - 1) = (IF j < k THEN j ELSE j - 1)
        BY <3>1, <3>2, <3>5
      <4> QED  BY <1>5, <3>1, <3>5, <4>1
    <3> QED  BY <3>4, <3>5
  <2>2. \A u \in Transfers : state'[u] # "free" => \E i \in 1 .. n + 1 : list'[i] = u
    <3> SUFFICES ASSUME NEW u \in Transfers, state'[u] # "free"
                 PROVE  \E i \in 1 .. n + 1 : list'[i] = u
      OBVIOUS
    <3>1. CASE u = t
      BY <1>5, <1>6, <3>1
    <3>2. CASE u # t
      <4>1. PICK i \in 1 .. n : list[i] = u
        BY <1>2, <1>4, <3>2 DEF IInv, Listed, Typed
      <4>2. CASE i < k
        BY <1>6, <4>1, <4>2
      <4>3. CASE ~(i < k)
        <5>1. i + 1 \in 1 .. n + 1 /\ ~(i + 1 < k) /\ i + 1 # k /\ (i + 1) - 1 = i
          BY <1>5, <4>3
        <5>2. list'[i + 1] = list[(i + 1) - 1]
          BY <1>6, <5>1
        <5> QED  BY <4>1, <5>1, <5>2
      <4> QED  BY <4>2, <4>3
    <3> QED  BY <3>1, <3>2
  <2>3. \A i \in 1 .. n + 1 : state'[list'[i]] # "free"
    <3> SUFFICES ASSUME NEW i \in 1 .. n + 1 PROVE state'[list'[i]] # "free"
      OBVIOUS
    <3>1. CASE i = k
      BY <1>2, <1>4, <1>6, <3>1 DEF Typed
    <3>2. CASE i # k
      <4>1. PICK j \in 1 .. n : list'[i] = list[j]
        <5>1. (IF i < k THEN i ELSE i - 1) \in 1 .. n
          BY <1>4, <1>5, <3>2 DEF Typed
        <5> QED  BY <1>6, <3>2, <5>1
      <4>2. state[list[j]] # "free"
        BY DEF IInv, Listed
      <4> QED  BY <1>2, <1>4, <1>7, <4>1, <4>2 DEF Typed
    <3> QED  BY <3>1, <3>2
  <2>4. Once(completed') /\ \A i \in 1 .. Len(completed') : state'[completed'[i]] = "done"
    BY <1>2, <1>4 DEF IInv, Listed, Typed
  <2> QED  BY <1>6, <2>1, <2>2, <2>3, <2>4 DEF Listed
<1>10. \A i \in 1 .. n : left'[list[i]] = left[list[i]]
  BY <1>1, <1>4, <1>7 DEF Typed
<1>11. left'[t] = d
  BY <1>1, <1>4 DEF Typed
<1>12. Sorted'
  <2> SUFFICES ASSUME NEW i \in 1 .. n + 1, NEW j \in 1 .. n + 1, i < j
               PROVE  NoLater(list[i], list[j])'
    BY <1>6 DEF Sorted
  <2>1. n \in Nat /\ \A a \in 1 .. n : left[list[a]] \in Ticks
    BY <1>4 DEF Typed
  <2>2. \A a, b \in 1 .. n : a < b => NoLater(list[a], list[b])
    BY DEF IInv, Sorted
  <2>3. CASE i # k /\ j # k
    <3> DEFINE a == IF i < k THEN i ELSE i - 1
               b == IF j < k THEN j ELSE j - 1
    <3>1. a \in 1 .. n /\ b \in 1 .. n /\ a < b
      BY <1>5, <2>1, <2>3
    <3>2. list'[i] = list[a] /\ list'[j] = list[b]
      BY <1>6, <2>3
    <3> HIDE DEF a, b
    <3> QED  BY <1>10, <2>2, <3>1, <3>2 DEF NoLater
  <2>4. CASE i = k
    <3>1. /\ j - 1 \in 1 .. n /\ k \in 1 .. n /\ k <= j - 1
          /\ list'[i] = t /\ list'[j] = list[j - 1]
      <4>1. j - 1 \in 1 .. n /\ k \in 1 .. n /\ k <= j - 1 /\ ~(j < k) /\ j # k /\ ~(i < k)
        BY <1>5, <2>1, <2>4
      <4> QED  BY <1>6, <2>4, <4>1
    <3>2. left[list[j - 1]] # Never => left[list[k]] # Never /\ left[list[k]] <= left[list[j - 1]]
      BY <2>1, <2>2, <3>1 DEF NoLater, Ticks, Never
    <3>3. left'[list[j - 1]] = left[list[j - 1]]
      BY <1>10, <3>1
    <3>4. left[list[j - 1]] # Never => d # Never /\ d <= left[list[j - 1]]
      BY <1>3, <1>5, <2>1, <3>1, <3>2 DEF Ticks, Never
    <3> QED  BY <1>11, <3>1, <3>3, <3>4 DEF NoLater
  <2>5. CASE j = k
    <3>1. i \in 1 .. n /\ i < k /\ list'[i] = list[i] /\ list'[j] = t
      BY <1>5, <1>6, <2>1, <2>5
    <3> QED  BY <1>5, <1>10, <1>11, <3>1 DEF NoLater
  <2> QED  BY <2>3, <2>4, <2>5
<1>13. Armed'
  <2> SUFFICES ASSUME using', list'[1] \notin handled', left'[list'[1]] # Never
               PROVE  timer' # Never /\ timer' <= left'[list'[1]]
    BY DEF Armed
  <2>1. CASE k = 1
    <3>1. list'[1] = t
      BY <1>4, <1>6, <2>1 DEF Typed
    <3>2. timer' = d
      BY <1>1, <1>2, <1>11, <2>1, <3>1 DEF Arms, k
    <3> QED  BY <1>3, <1>11, <3>1, <3>2 DEF Ticks, Never
  <2>2. CASE k # 1
    <3>1. list # <<>> /\ 1 \in 1 .. n /\ list'[1] = list[1]
      BY <1>4, <1>5, <1>6, <2>2 DEF Typed
    <3>2. timer' = timer /\ list[1] \notin handled
      BY <1>1, <1>2, <1>7, <2>2, <3>1 DEF Arms, k
    <3> QED  BY <1>2, <1>10, <3>1, <3>2 DEF IInv, Armed
  <2> QED  BY <2>1, <2>2
<1> QED  BY <1>8, <1>9, <1>12, <1>13 DEF IInv

(* A transfer is taken off the list and becomes free.                      *)
LEMMA RemoveIInv ==
  ASSUME IInv, NEW t \in Transfers, state[t] # "free", RemoveFromList(t),
         state' = [state EXCEPT ![t] = "free"], UNCHANGED <<using, handled>>,
         completed' \in Seq(Transfers), Once(completed'),
         \A i \in 1 .. Len(completed') :
            completed'[i] # t /\ state[completed'[i]] = "done"
  PROVE  IInv'
<1> DEFINE n == Len(list)
<1>1. Typed /\ n \in Nat
  BY DEF IInv, Typed
<1>2. PICK k \in 1 .. n : list[k] = t /\ list' = RemoveAt(list, k)
  <2>1. list \in Seq(Transfers) /\ \E i \in 1 .. n : list[i] = t
    BY <1>1 DEF IInv, Listed, Typed
  <2>2. \E k \in 1 .. n : list[k] = t /\ RemoveFirst(list, t) = RemoveAt(list, k)
    BY <2>1, Removed
  <2> QED  BY <2>2 DEF RemoveFromList
<1>3. /\ left' = [left EXCEPT ![t] = Never]
      /\ timer' = IF using /\ left[t] # Never /\ Head(list) = t
                  THEN NextTimeout(list', handled) ELSE timer
  BY DEF RemoveFromList
<1> DEFINE from(i) == IF i < k THEN i ELSE i + 1
<1>4. /\ list' \in Seq(Transfers) /\ Len(list') = n - 1
      /\ \A i \in 1 .. n - 1 : list'[i] = list[from(i)]
  <2>1. /\ RemoveAt(list, k) \in Seq(Transfers) /\ Len(RemoveAt(list, k)) = Len(list) - 1
        /\ \A i \in 1 .. Len(list) - 1 :
             RemoveAt(list, k)[i] = IF i < k THEN list[i] ELSE list[i + 1]
    BY <1>1, RemovedAt DEF Typed
  <2> QED  BY <1>2, <2>1
<1>5. /\ \A i \in 1 .. n - 1 : from(i) \in 1 .. n /\ from(i) # k
      /\ \A i, j \in 1 .. n - 1 : i < j => from(i) < from(j)
      /\ \A i, j \in 1 .. n - 1 : from(i) = from(j) => i = j
  BY <1>1
<1> HIDE DEF from
<1>6. \A i, j \in 1 .. n : list[i] = list[j] => i = j
  BY DEF IInv, Listed, Once
<1>7. \A i \in 1 .. n - 1 : list'[i] \in Transfers /\ list'[i] # t
  <2> SUFFICES ASSUME NEW i \in 1 .. n - 1 PROVE list'[i] \in Transfers /\ list'[i] # t
    OBVIOUS
  <2>1. from(i) \in 1 .. n /\ from(i) # k /\ list'[i] = list[from(i)]
    BY <1>4, <1>5
  <2>2. list[from(i)] # list[k]
    BY <1>6, <2>1
  <2>3. list[from(i)] \in Transfers
    BY <1>1, <2>1 DEF Typed
  <2> QED  BY <1>2, <2>1, <2>2, <2>3
<1>8. \A i \in 1 .. n - 1 : left'[list'[i]] = left[list'[i]]
  BY <1>1, <1>3, <1>7 DEF Typed
<1>9. Listed'
  <2>1. Once(list')
    BY <1>4, <1>5, <1>6 DEF Once
  <2>2. \A u \in Transfers : state'[u] # "free" => \E i \in 1 .. n - 1 : list'[i] = u
    <3> SUFFICES ASSUME NEW u \in Transfers, state'[u] # "free"
                 PROVE  \E i \in 1 .. n - 1 : list'[i] = u
      OBVIOUS
    <3>1. u # t /\ state[u] # "free"
      BY <1>1 DEF Typed
    <3>2. PICK i \in 1 .. n : list[i] = u
      BY <3>1 DEF IInv, Listed
    <3>3. PICK j \in 1 .. n - 1 : from(j) = i
      <4>1. i # k
        BY <1>2, <3>1, <3>2
      <4>2. CASE i < k
        BY <1>1, <4>2 DEF from
      <4>3. CASE i > k
        <5>1. i - 1 \in 1 .. n - 1 /\ from(i - 1) = i
          BY <1>1, <4>3 DEF from
        <5> QED  BY <5>1
      <4> QED  BY <4>1, <4>2, <4>3
    <3> QED  BY <1>4, <3>2, <3>3
  <2>3. \A i \in 1 .. n - 1 : state'[list'[i]] # "free"
    <3> SUFFICES ASSUME NEW i \in 1 .. n - 1 PROVE state'[list'[i]] # "free"
      OBVIOUS
    <3>1. state[list'[i]] # "free"
      BY <1>4, <1>5 DEF IInv, Listed
    <3> QED  BY <1>1, <1>7, <3>1 DEF Typed
  <2>4. \A i \in 1 .. Len(completed') : state'[completed'[i]] = "done"
    <3> SUFFICES ASSUME NEW i \in 1 .. Len(completed') PROVE state'[completed'[i]] = "done"
      OBVIOUS
    <3>1. completed'[i] \in Transfers
      OBVIOUS
    <3> QED  BY <1>1, <3>1 DEF Typed
  <2> QED  BY <1>4, <2>1, <2>2, <2>3, <2>4 DEF Listed
<1>10. Sorted'
  <2> SUFFICES ASSUME NEW i \in 1 .. n - 1, NEW j \in 1 .. n - 1, i < j
               PROVE  NoLater(list[i], list[j])'
    BY <1>4 DEF Sorted
  <2>1. NoLater(list[from(i)], list[from(j)])
    BY <1>5 DEF IInv, Sorted
  <2> QED  BY <1>4, <1>8, <2>1 DEF NoLater
<1>11. timer' \in Ticks /\ Armed'
  <2>1. CASE using /\ left[t] # Never /\ Head(list) = t
    <3>1. timer' = NextTimeout(list', handled)
      BY <1>3, <2>1
    <3> DEFINE l == list'
    <3>2. l \in Seq(Transfers)
      BY <1>4
    <3> HIDE DEF l
    <3>3. NextTimeout(l, handled) \in Ticks
      BY <1>1, <3>2, NextTimeoutType
    <3>4. l # <<>> /\ l[1] \notin handled /\ left[l[1]] # Never =>
            NextTimeout(l, handled) = left[l[1]]
      BY <3>2, NextIsFirst
    <3>5. l # <<>> => left'[l[1]] = left[l[1]] /\ left[l[1]] \in Ticks
      BY <1>1, <1>4, <1>7, <1>8, <3>2 DEF l, Typed
    <3>6. timer' = NextTimeout(l, handled) /\ list' = l
      BY <3>1 DEF l
    <3> QED  BY <3>3, <3>4, <3>5, <3>6 DEF Armed, Ticks, Never
  <2>2. CASE ~(using /\ left[t] # Never /\ Head(list) = t)
    <3>1. timer' = timer
      BY <1>3, <2>2
    <3>2. CASE k # 1
      <4>1. list' # <<>> => 1 \in 1 .. n - 1 /\ list'[1] = list[1] /\ list # <<>>
        BY <1>1, <1>4, <3>2 DEF from
      <4> QED  BY <1>1, <1>8, <3>1, <4>1 DEF IInv, Armed, Typed
    <3>3. CASE k = 1
      <4>1. Head(list) = t /\ (~using \/ left[t] = Never)
        BY <1>1, <1>2, <2>2, <3>3
      <4>2. list' # <<>> => 1 \in 1 .. n - 1 /\ 2 \in 1 .. n /\ list'[1] = list[2]
        BY <1>1, <1>4, <3>3 DEF from
      <4>3. list' # <<>> => NoLater(t, list[2])
        BY <1>1, <1>2, <3>3, <4>2 DEF IInv, Sorted
      <4> QED  BY <1>1, <1>8, <3>1, <4>1, <4>2, <4>3 DEF Armed, NoLater, Typed
    <3> QED  BY <3>2, <3>3
  <2> QED  BY <2>1, <2>2
<1>12. Typed'
  BY <1>1, <1>3, <1>4, <1>11 DEF Typed, Ticks, States
<1> QED  BY <1>9, <1>10, <1>11, <1>12 DEF IInv

LEMMA ReapIInv ==
  ASSUME IInv, Reap PROVE IInv'
<1> DEFINE t == Head(completed)
<1>1. Typed /\ completed # <<>> /\ Listed
  BY DEF Reap, IInv
<1>2. t = completed[1] /\ t \in Transfers /\ state[t] = "done"
  BY <1>1 DEF Typed, Listed
<1>3. RemoveFromList(t) /\ state' = [state EXCEPT ![t] = "free"]
      /\ UNCHANGED <<using, handled>> /\ completed' = Tail(completed)
  BY DEF Reap
<1>4. /\ completed' \in Seq(Transfers) /\ Len(completed') = Len(completed) - 1
      /\ \A i \in 1 .. Len(completed') : completed'[i] = completed[i + 1]
  BY <1>1, <1>3 DEF Typed
<1>5. \A i, j \in 1 .. Len(completed) : completed[i] = completed[j] => i = j
  BY <1>1 DEF Listed, Once
<1>6. Len(completed) \in Nat
  BY <1>1 DEF Typed
<1>7. Once(completed')
  BY <1>4, <1>5, <1>6 DEF Once
<1>8. \A i \in 1 .. Len(completed') : completed'[i] # t /\ state[completed'[i]] = "done"
  <2> SUFFICES ASSUME NEW i \in 1 .. Len(completed')
               PROVE  completed'[i] # t /\ state[completed'[i]] = "done"
    OBVIOUS
  <2>1. i + 1 \in 1 .. Len(completed) /\ 1 \in 1 .. Len(completed) /\ i + 1 # 1
    BY <1>4, <1>6
  <2>2. completed'[i] = completed[i + 1] /\ completed[i + 1] # completed[1]
    BY <1>4, <1>5, <2>1
  <2>3. state[completed[i + 1]] = "done"
    BY <1>1, <2>1 DEF Listed
  <2> QED  BY <1>2, <2>2, <2>3
<1> HIDE DEF t
<1> QED  BY <1>2, <1>3, <1>4, <1>7, <1>8, RemoveIInv

LEMMA EndsIInv ==
  ASSUME IInv, NEW t \in Transfers, Ends(t) PROVE IInv'
<1>1. Typed /\ Listed /\ state[t] \in {"in_flight", "cancelling"}
  BY DEF Ends, IInv
<1>2. /\ state' = [state EXCEPT ![t] = "done"] /\ completed' = Append(completed, t)
      /\ UNCHANGED <<using, list, left, handled, timer>>
  BY DEF Ends
<1>3. /\ completed' \in Seq(Transfers) /\ Len(completed') = Len(completed) + 1
      /\ \A i \in 1 .. Len(completed) : completed'[i] = completed[i]
      /\ completed'[Len(completed) + 1] = t /\ Len(completed) \in Nat
  BY <1>1, <1>2 DEF Typed
<1>4. \A i \in 1 .. Len(completed) :
        completed[i] \in Transfers /\ state[completed[i]] = "done" /\ completed[i] # t
  BY <1>1 DEF Listed, Typed
<1>5. Once(completed')
  BY <1>1, <1>3, <1>4 DEF Listed, Once
<1>6. \A i \in 1 .. Len(completed') : state'[completed'[i]] = "done"
  BY <1>1, <1>2, <1>3, <1>4 DEF Typed
<1>7. Listed'
  BY <1>1, <1>2, <1>5, <1>6 DEF Listed, Typed
<1>8. Typed' /\ Sorted' /\ Armed'
  BY <1>1, <1>2, <1>3 DEF Typed, States, IInv, Sorted, NoLater, Armed
<1> QED  BY <1>7, <1>8 DEF IInv

(* Everybody's deadline comes a tick closer, and so does the timer.        *)
LEMMA TickIInv ==
  ASSUME IInv, Tick PROVE IInv'
<1>1. /\ left' = [t \in Transfers |-> Less(left[t])] /\ timer' = Less(timer)
      /\ UNCHANGED <<using, list, handled, state, completed>>
  BY DEF Tick
<1>2. /\ \A a \in Ticks : Less(a) \in Ticks /\ (Less(a) = Never <=> a = Never)
      /\ \A a, b \in Ticks : a <= b => Less(a) <= Less(b)
  BY DEF Ticks, Never, Less
<1>3. Typed /\ \A i \in 1 .. Len(list) : list[i] \in Transfers /\ left[list[i]] \in Ticks
  BY DEF IInv, Typed
<1>4. \A i \in 1 .. Len(list) : left'[list[i]] = Less(left[list[i]])
  BY <1>1, <1>3
<1>5. Typed' /\ Listed'
  BY <1>1, <1>2, <1>3 DEF IInv, Typed, Listed
<1>6. Sorted'
  BY <1>1, <1>2, <1>3, <1>4 DEF IInv, Sorted, NoLater
<1>7. Armed'
  <2>1. list # <<>> => 1 \in 1 .. Len(list)
    BY <1>3 DEF Typed
  <2>2. timer \in Ticks
    BY <1>3 DEF Typed
  <2> QED  BY <1>1, <1>2, <1>3, <1>4, <2>1, <2>2 DEF IInv, Armed
<1> QED  BY <1>5, <1>6, <1>7 DEF IInv

LEMMA EventsIInv ==
  ASSUME IInv, Events PROVE IInv'
<1>1. CASE Enter \/ PollReturns \/ PollTimesOut \/ ReapNothing
  <2>1. UNCHANGED <<using, list, left, handled, state, timer, completed>>
    BY <1>1 DEF Enter, PollReturns, PollTimesOut, ReapNothing
  <2> QED  BY <2>1 DEF IInv, Typed, Listed, Once, Sorted, NoLater, Armed
<1>2. CASE HandleTimeout
  <2> DEFINE t == Head(expired)
  <2>1. /\ handled' = handled \union {t}
        /\ state' = IF state[t] = "in_flight" THEN [state EXCEPT ![t] = "cancelling"] ELSE state
        /\ UNCHANGED <<using, list, left, timer, completed>>
    BY <1>2 DEF HandleTimeout
  <2> HIDE DEF t
  <2>2. CASE t \in Transfers /\ state[t] = "in_flight"
    BY <2>1, <2>2, SameList DEF States
  <2>3. CASE state' = state
    BY <2>1, <2>3 DEF IInv, Typed, Listed, Once, Sorted, NoLater, Armed
  <2>4. t \notin Transfers => [state EXCEPT ![t] = "cancelling"] = state
    BY DEF IInv, Typed
  <2> QED  BY <2>1, <2>2, <2>3, <2>4
<1>3. CASE Handled
  <2>1. /\ timer' = IF "timerfd" \in revents THEN NextTimeout(list, handled) ELSE timer
        /\ UNCHANGED <<using, list, left, handled, state, completed>>
    BY <1>3 DEF Handled, Rearm
  <2>2. Typed /\ list \in Seq(Transfers)
    BY DEF IInv, Typed
  <2>3. NextTimeout(list, handled) \in Ticks
    BY <2>2, NextTimeoutType
  <2>4. list # <<>> /\ list[1] \notin handled /\ left[list[1]] # Never =>
          NextTimeout(list, handled) = left[list[1]]
    BY <2>2, NextIsFirst
  <2>5. list # <<>> => left[list[1]] \in Ticks
    BY <2>2 DEF Typed
  <2>6. Typed'
    BY <2>1, <2>2, <2>3 DEF Typed
  <2>7. Listed' /\ Sorted'
    BY <2>1 DEF IInv, Listed, Once, Sorted, NoLater
  <2>8. Armed'
    BY <2>1, <2>4, <2>5 DEF IInv, Armed, Ticks, Never
  <2> QED  BY <2>6, <2>7, <2>8 DEF IInv
<1>4. CASE Reap
  BY <1>4, ReapIInv
<1> QED  BY <1>1, <1>2, <1>3, <1>4 DEF Events

LEMMA NextIInv == IInv /\ [Next]_vars => IInv'
<1> SUFFICES ASSUME IInv, [Next]_vars PROVE IInv'
  OBVIOUS
<1>1. CASE UNCHANGED vars
  BY <1>1 DEF vars, IInv, Typed, Listed, Once, Sorted, NoLater, Armed
<1>2. ASSUME NEW t \in Transfers, Submit(t) PROVE IInv'
  BY <1>2, SubmitIInv
<1>3. ASSUME NEW t \in Transfers, SubmitReturns(t) PROVE IInv'
  <2>1. PICK s \in {"in_flight", "refused"} : state' = [state EXCEPT ![t] = s]
    BY <1>3 DEF SubmitReturns
  <2> QED  BY <1>3, <2>1, SameList DEF SubmitReturns, States
<1>4. ASSUME NEW t \in Transfers, SubmitUndo(t) PROVE IInv'
  <2>1. /\ state[t] = "refused" /\ RemoveFromList(t)
        /\ state' = [state EXCEPT ![t] = "free"] /\ UNCHANGED <<using, handled, completed>>
    BY <1>4 DEF SubmitUndo
  <2>2. /\ completed' \in Seq(Transfers) /\ Once(completed')
        /\ \A i \in 1 .. Len(completed') :
             completed'[i] # t /\ state[completed'[i]] = "done"
    BY <2>1 DEF IInv, Typed, Listed
  <2> QED  BY <2>1, <2>2, RemoveIInv
<1>5. ASSUME NEW t \in Transfers, Cancel(t) PROVE IInv'
  BY <1>5, SameList DEF Cancel, States
<1>6. ASSUME NEW t \in Transfers, Ends(t) PROVE IInv'
  BY <1>6, EndsIInv
<1>7. CASE Events
  BY <1>7, EventsIInv
<1>8. CASE Tick
  BY <1>8, TickIInv
<1> QED  BY <1>1, <1>2, <1>3, <1>4, <1>5, <1>6, <1>7, <1>8 DEF Next

LEMMA InductiveInvariant == Spec => []IInv
BY InitIInv, NextIInv, PTL DEF Spec

-----------------------------------------------------------------------------
(* flying_transfers is in the order of the deadlines, those without one    *)
(* last, and holds each submitted transfer once (add_to_flying_list,       *)
(* remove_from_flying_list).                                               *)
THEOREM ListInOrder == Spec => [](Listed /\ Sorted)
BY InductiveInvariant, PTL DEF IInv

(* The timerfd is armed for the first transfer of the list, and no         *)
(* deadline of the list is earlier.                                        *)
THEOREM TimerInTime == Spec => []TimerArmed
<1>1. IInv => TimerArmed
  <2> SUFFICES ASSUME IInv, using, list # <<>>, Head(list) \notin handled,
                      left[Head(list)] # Never
               PROVE  /\ timer # Never /\ timer <= left[Head(list)]
                      /\ \A t \in Range(list) :
                           left[t] # Never => left[Head(list)] <= left[t]
    BY DEF TimerArmed
  <2>1. Typed /\ Head(list) = list[1] /\ Len(list) \in Nat /\ 1 \in 1 .. Len(list)
    BY DEF IInv, Typed
  <2>2. ASSUME NEW t \in Range(list), left[t] # Never PROVE left[list[1]] <= left[t]
    <3>1. PICK i \in 1 .. Len(list) : list[i] = t
      BY <2>1 DEF Range, Typed
    <3>2. CASE i = 1
      BY <2>1, <2>2, <3>1, <3>2 DEF Typed, Ticks, Never
    <3>3. CASE i # 1
      BY <2>1, <2>2, <3>1, <3>3 DEF IInv, Sorted, NoLater
    <3> QED  BY <3>2, <3>3
  <2> QED  BY <2>1, <2>2 DEF IInv, Armed
<1> QED  BY <1>1, InductiveInvariant, PTL
=============================================================================
