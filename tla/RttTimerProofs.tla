--------------------------- MODULE RttTimerProofs ---------------------------
(***************************************************************************)
(* Proofs about the retransmission timeout, for every window, file, delay  *)
(* and bound on time.                                                      *)
(***************************************************************************)
EXTENDS RttTimer, ModArith, SequenceTheorems

Node == [seq_num: 0..N, start: 0..MaxTime]

\* The times that are kept are past.
TimesArePast ==
  /\ \A j \in DOMAIN phead : phead[j].start <= now
  /\ \A s \in Slots : sentAt[s] <= now
  /\ t2 <= now

\* The estimates, from which TIMEOUT is made, are no greater than the transfer's age.
EstimatesInAge == "negative" \notin odd => EstimatedRTT <= now /\ DevRTT <= now

\* Places in the file stand for the slots, which are places modulo N: the window
\* goes from place b to before place e, and what is acknowledged, and each node
\* but that of the final packet, belongs to a packet of the window.
WindowAt(b, e) ==
  /\ send_base = b % N /\ next_tosend = e % N
  /\ \A j \in DOMAIN phead : phead[j].seq_num # Final =>
        \E i \in b..e-1 : phead[j].seq_num = i % N
  /\ \A s \in acked : \E i \in b..e-1 : s = i % N

Window == \E b \in Nat : \E e \in b..b+WS : WindowAt(b, e)

\* No packet of the window has two nodes.
Distinct(list) ==
  \A j, k \in DOMAIN list :
     list[j].seq_num # Final /\ list[j].seq_num = list[k].seq_num => j = k

\* The start of a node is when its packet was first sent, unless it was sent again.
FirstStart ==
  \A j \in DOMAIN phead :
     LET s == phead[j].seq_num
     IN  s # Final => s \notin acked /\ (s \in retransmitted \/ phead[j].start = sentAt[s])

\* The strengthening from which SampleIsRoundTrip follows.
TripInv == Window /\ Distinct(phead) /\ FirstStart /\ SampleIsRoundTrip

IInv ==
  /\ TypeOK /\ TimesArePast /\ HeadIsOldest /\ T2IsSet
  /\ EstimatesInAge /\ TimeoutIsBounded /\ TimeoutIsPositive

-----------------------------------------------------------------------------
\* C's remainder, for the values that occur here.
LEMMA ModOfInt ==
  ASSUME NEW n \in Nat \ {0}, NEW x \in Int
  PROVE  x % n \in 0..n-1
OBVIOUS

LEMMA ModOfSmall ==
  ASSUME NEW n \in Nat \ {0}, NEW x \in 0..n-1
  PROVE  x % n = x
OBVIOUS

LEMMA ModOfNegative ==
  ASSUME NEW n \in Nat \ {0}, NEW x \in Int, -n <= x, x < 0
  PROVE  x % n = x + n
<1>1. x = n * (-1) + (x + n) /\ x + n \in 0..n-1
  OBVIOUS
<1> QED
  BY <1>1

\* abs is the absolute value of the difference of two times.
LEMMA AbsOfTimes ==
  ASSUME NEW x \in Int, -MaxTime <= x, x <= MaxTime
  PROVE  abs(x) = IF x < 0 THEN -x ELSE x
<1>1. Int32 \in Nat \ {0} /\ MaxTime \in Nat /\ 2 * MaxTime < Int32
  BY RttAssumption
<1>2. CASE x < 0
  <2>1. x % Int32 = x + Int32
    BY <1>1, <1>2, ModOfNegative
  <2> QED
    BY <1>1, <1>2, <2>1 DEF abs
<1>3. CASE x >= 0
  <2>1. x % Int32 = x
    BY <1>1, <1>3, ModOfSmall
  <2> QED
    BY <1>1, <1>3, <2>1 DEF abs
<1> QED
  BY <1>2, <1>3

\* abs is a natural number, whatever it is given.
LEMMA AbsType ==
  ASSUME NEW x \in Int
  PROVE  abs(x) \in Nat
<1>1. Int32 \in Nat \ {0}
  BY RttAssumption
<1>2. x % Int32 \in 0..Int32-1
  BY <1>1, ModOfInt
<1> QED
  BY <1>1, <1>2 DEF abs

\* estimateTimeout keeps the estimate and the deviation below a bound on the
\* sample and on their old values, and its result is not 0 for a real sample.
LEMMA EstimateBounds ==
  ASSUME NEW M \in 0..MaxTime, NEW E \in 0..M, NEW D \in 0..M, NEW S \in 0..M
  PROVE  LET e == NewEstimate(E, S)
             d == NewDev(D, e, S)
         IN  /\ e \in 0..M /\ d \in 0..M
             /\ S >= 4 => e + 4 * d > 0
<1> DEFINE e == NewEstimate(E, S)
           d == NewDev(D, e, S)
<1>1. MaxTime \in Nat
  BY RttAssumption
<1>2. e \in 0..M /\ (e = 0 => 7 * E + S < 8)
  BY <1>1 DEF NewEstimate
<1>3. S - e \in Int /\ -MaxTime <= S - e /\ S - e <= MaxTime /\ S - e <= M /\ e - S <= M
  BY <1>1, <1>2
<1> HIDE DEF e
<1>4. abs(S - e) \in 0..M /\ (e = 0 => abs(S - e) = S)
  BY <1>1, <1>2, <1>3, AbsOfTimes
<1>5. d = (3 * D + abs(S - e)) \div 4
  BY DEF NewDev
<1>6. d \in 0..M /\ (3 * D + abs(S - e) >= 4 => d > 0)
  BY <1>1, <1>4, <1>5
<1> HIDE DEF d
<1>7. S >= 4 => e + 4 * d > 0
  <2>1. CASE e = 0
    <3>1. S >= 4 => 3 * D + abs(S - e) >= 4
      BY <1>4, <2>1
    <3> QED
      BY <1>1, <1>6, <2>1, <3>1
  <2>2. CASE e > 0
    BY <1>1, <1>2, <1>6, <2>2
  <2> QED
    BY <1>1, <1>2, <2>1, <2>2
<1> QED
  BY <1>2, <1>6, <1>7 DEF d, e

-----------------------------------------------------------------------------
\* The list stays sorted when a node is added at its end, now.
LEMMA Insert ==
  ASSUME NEW list \in Seq(Node), NEW s \in 0..N, now \in 0..MaxTime,
         \A j \in DOMAIN list : list[j].start <= now,
         \A j, k \in DOMAIN list : j < k => list[j].start <= list[k].start
  PROVE  LET new == insert_in_queue(list, s)
         IN  /\ new \in Seq(Node)
             /\ \A j \in DOMAIN new : new[j].start <= now
             /\ \A j, k \in DOMAIN new : j < k => new[j].start <= new[k].start
<1> DEFINE node == [seq_num |-> s, start |-> now]
           new == Append(list, node)
<1>1. MaxTime \in Nat /\ node \in Node /\ node.start = now
  BY RttAssumption DEF Node
<1> HIDE DEF node
<1>2. /\ new \in Seq(Node) /\ DOMAIN new = 1..Len(list)+1 /\ DOMAIN list = 1..Len(list)
      /\ Len(list) \in Nat /\ new[Len(list)+1] = node
      /\ \A j \in 1..Len(list) : new[j] = list[j]
  BY <1>1
<1> HIDE DEF new
<1>3. ASSUME NEW j \in DOMAIN new
      PROVE  new[j].start <= now
  BY <1>1, <1>2, <1>3
<1>4. ASSUME NEW j \in DOMAIN new, NEW k \in DOMAIN new, j < k
      PROVE  new[j].start <= new[k].start
  <2>1. j \in 1..Len(list)
    BY <1>2, <1>4
  <2> QED
    BY <1>1, <1>2, <1>4, <2>1
<1> QED
  BY <1>2, <1>3, <1>4 DEF new, node, insert_in_queue

\* It stays sorted when its head is removed.
LEMMA RemoveHead ==
  ASSUME NEW list \in Seq(Node), list # <<>>,
         \A j \in DOMAIN list : list[j].start <= now,
         \A j, k \in DOMAIN list : j < k => list[j].start <= list[k].start
  PROVE  LET new == Tail(list)
         IN  /\ new \in Seq(Node)
             /\ \A j \in DOMAIN new : new[j].start <= now
             /\ \A j, k \in DOMAIN new : j < k => new[j].start <= new[k].start
<1> DEFINE new == Tail(list)
<1>1. /\ new \in Seq(Node) /\ DOMAIN new = 1..Len(list)-1 /\ DOMAIN list = 1..Len(list)
      /\ Len(list) \in Nat /\ \A j \in 1..Len(list)-1 : new[j] = list[j+1]
  OBVIOUS
<1> HIDE DEF new
<1>2. ASSUME NEW j \in DOMAIN new
      PROVE  new[j].start <= now /\ j + 1 \in DOMAIN list
  BY <1>1, <1>2
<1>3. ASSUME NEW j \in DOMAIN new, NEW k \in DOMAIN new, j < k
      PROVE  new[j].start <= new[k].start
  BY <1>1, <1>2, <1>3
<1> QED
  BY <1>1, <1>2, <1>3 DEF new

\* Where the node at place j of the list without node i was in the list.
Skip(i, j) == IF j < i THEN j ELSE j + 1

LEMMA RestNodes ==
  ASSUME NEW list \in Seq(Node), NEW i \in DOMAIN list
  PROVE  LET new == Rest(list, i)
         IN  /\ new \in Seq(Node)
             /\ \A j \in DOMAIN new : Skip(i, j) \in DOMAIN list \ {i} /\ new[j] = list[Skip(i, j)]
             /\ \A j, k \in DOMAIN new : j < k => Skip(i, j) < Skip(i, k)
<1> DEFINE a == SubSeq(list, 1, i - 1)
           b == SubSeq(list, i + 1, Len(list))
           new == a \o b
<1>1. Len(list) \in Nat /\ DOMAIN list = 1..Len(list) /\ i \in 1..Len(list)
      /\ \A j \in 1..Len(list) : list[j] \in Node
  OBVIOUS
<1>2. a \in Seq(Node) /\ Len(a) = i - 1 /\ \A j \in 1..i-1 : a[j] = list[j]
  BY <1>1
<1>3. b \in Seq(Node) /\ Len(b) = Len(list) - i /\ \A j \in 1..Len(list)-i : b[j] = list[i + j]
  <2>1. CASE i = Len(list)
    BY <1>1, <2>1
  <2>2. CASE i < Len(list)
    BY <1>1, <2>2
  <2> QED
    BY <1>1, <2>1, <2>2
<1> HIDE DEF a, b
<1>4. /\ new \in Seq(Node) /\ Len(new) = Len(list) - 1 /\ DOMAIN new = 1..Len(list)-1
      /\ \A j \in 1..Len(list)-1 : new[j] = IF j <= i - 1 THEN a[j] ELSE b[j - (i - 1)]
  <2>1. /\ new \in Seq(Node) /\ Len(new) = Len(a) + Len(b)
        /\ \A j \in 1..Len(a)+Len(b) : new[j] = IF j <= Len(a) THEN a[j] ELSE b[j - Len(a)]
    BY <1>2, <1>3, ConcatProperties, Zenon
  <2>2. DOMAIN new = 1..Len(new)
    BY <2>1
  <2>3. Len(a) + Len(b) = Len(list) - 1
    BY <1>1, <1>2, <1>3
  <2> QED
    BY <1>2, <2>1, <2>2, <2>3, Zenon
<1> HIDE DEF new
<1>5. ASSUME NEW j \in DOMAIN new
      PROVE  Skip(i, j) \in DOMAIN list \ {i} /\ new[j] = list[Skip(i, j)]
  <2>1. CASE j < i
    <3>1. new[j] = a[j] /\ j \in 1..i-1
      BY <1>1, <1>4, <1>5, <2>1
    <3> QED
      BY <1>1, <1>2, <2>1, <3>1 DEF Skip
  <2>2. CASE j >= i
    <3>1. new[j] = b[j - (i - 1)] /\ j - (i - 1) \in 1..Len(list)-i
      BY <1>1, <1>4, <1>5, <2>2
    <3>2. i + (j - (i - 1)) = j + 1 /\ j + 1 \in 1..Len(list)
      BY <1>1, <1>4, <1>5
    <3>3. new[j] = list[j + 1]
      BY <1>3, <3>1, <3>2
    <3> QED
      BY <1>1, <1>4, <1>5, <2>2, <3>2, <3>3 DEF Skip
  <2> QED
    BY <1>1, <1>4, <1>5, <2>1, <2>2
<1>6. ASSUME NEW j \in DOMAIN new, NEW k \in DOMAIN new, j < k
      PROVE  Skip(i, j) < Skip(i, k)
  BY <1>1, <1>4, <1>6 DEF Skip
<1> QED
  BY <1>4, <1>5, <1>6 DEF new, a, b, Rest

\* It stays sorted when any node is removed.
LEMMA RemoveNode ==
  ASSUME NEW list \in Seq(Node), NEW i \in DOMAIN list,
         \A j \in DOMAIN list : list[j].start <= now,
         \A j, k \in DOMAIN list : j < k => list[j].start <= list[k].start
  PROVE  LET new == Rest(list, i)
         IN  /\ new \in Seq(Node)
             /\ \A j \in DOMAIN new : new[j].start <= now
             /\ \A j, k \in DOMAIN new : j < k => new[j].start <= new[k].start
<1> DEFINE new == Rest(list, i)
<1>1. /\ new \in Seq(Node)
      /\ \A j \in DOMAIN new : Skip(i, j) \in DOMAIN list /\ new[j] = list[Skip(i, j)]
      /\ \A j, k \in DOMAIN new : j < k => Skip(i, j) < Skip(i, k)
  BY RestNodes
<1> HIDE DEF new
<1>2. \A j \in DOMAIN new : new[j].start <= now
  BY <1>1
<1>3. \A j, k \in DOMAIN new : j < k => new[j].start <= new[k].start
  BY <1>1
<1> QED
  BY <1>1, <1>2, <1>3 DEF new

-----------------------------------------------------------------------------
LEMMA InitIInv == Init => IInv
<1> SUFFICES ASSUME Init PROVE IInv
  OBVIOUS
<1> USE RttAssumption DEF Init
<1>1. TypeOK
  BY DEF TypeOK, Slots, NotSet
<1>2. TimesArePast /\ HeadIsOldest
  BY DEF TimesArePast, HeadIsOldest, Slots, NotSet
<1>3. T2IsSet
  <2>1. (0 + WS) % N = WS
    BY ModOfSmall
  <2> QED
    BY <2>1 DEF T2IsSet
<1>4. EstimatesInAge /\ TimeoutIsBounded /\ TimeoutIsPositive
  BY DEF EstimatesInAge, TimeoutIsBounded, TimeoutIsPositive
<1> QED
  BY <1>1, <1>2, <1>3, <1>4 DEF IInv

LEMMA TickKeeps ==
  ASSUME IInv, Tick
  PROVE  IInv'
<1> USE RttAssumption DEF IInv, Tick, ring, estimate
<1>1. now \in Nat /\ now' \in 0..MaxTime /\ now <= now'
  BY DEF TypeOK
<1>2. TypeOK'
  BY <1>1 DEF TypeOK
<1>3. TimesArePast'
  <2>1. /\ \A j \in DOMAIN phead : phead[j].start \in 0..MaxTime
        /\ \A s \in Slots : sentAt[s] \in 0..MaxTime
    <3>1. phead \in Seq(Node) /\ sentAt \in [Slots -> 0..MaxTime]
      BY DEF TypeOK, Node
    <3>2. \A j \in DOMAIN phead : phead[j] \in Node
      BY <3>1
    <3> QED
      BY <3>1, <3>2 DEF Node
  <2>2. t2 <= now'
    BY <1>1 DEF TimesArePast, TypeOK, NotSet
  <2>3. /\ \A j \in DOMAIN phead : phead[j].start <= now
        /\ \A s \in Slots : sentAt[s] <= now
    BY DEF TimesArePast
  <2>4. ASSUME NEW j \in DOMAIN phead PROVE phead[j].start <= now'
    BY <1>1, <2>1, <2>3
  <2>5. ASSUME NEW s \in Slots PROVE sentAt[s] <= now'
    BY <1>1, <2>1, <2>3
  <2> QED
    BY <2>2, <2>4, <2>5 DEF TimesArePast
<1>4. HeadIsOldest' /\ T2IsSet' /\ TimeoutIsPositive'
  BY DEF HeadIsOldest, T2IsSet, TimeoutIsPositive
<1>5. EstimatesInAge' /\ TimeoutIsBounded'
  BY <1>1 DEF EstimatesInAge, TimeoutIsBounded, TypeOK
<1> QED
  BY <1>2, <1>3, <1>4, <1>5

\* What the steps that leave the clock and the estimates alone have to show.
LEMMA ListSteps ==
  ASSUME IInv, TypeOK', TimesArePast', HeadIsOldest', T2IsSet',
         UNCHANGED <<now, estimate>>
  PROVE  IInv'
BY DEF IInv, estimate, EstimatesInAge, TimeoutIsBounded, TimeoutIsPositive

LEMMA SendKeeps ==
  ASSUME IInv, Send
  PROVE  IInv'
<1> USE RttAssumption DEF IInv, Send
<1>1. next_tosend \in 0..N /\ next_tosend' \in Slots /\ now \in 0..MaxTime
  BY ModOfInt DEF TypeOK, Slots
<1>2. /\ phead' \in Seq(Node) /\ \A j \in DOMAIN phead' : phead'[j].start <= now
      /\ HeadIsOldest'
  <2>1. phead \in Seq(Node)
    BY DEF TypeOK, Node
  <2> QED
    BY <1>1, <2>1, Insert DEF TimesArePast, HeadIsOldest
<1>3. TypeOK'
  BY <1>1, <1>2 DEF TypeOK, Node, estimate, Slots
<1>4. TimesArePast'
  BY <1>1, <1>2 DEF TimesArePast, TypeOK
<1>5. T2IsSet'
  BY DEF T2IsSet
<1> QED
  BY <1>2, <1>3, <1>4, <1>5, ListSteps

LEMMA ExpireKeeps ==
  ASSUME IInv, Expire
  PROVE  IInv'
<1> USE RttAssumption DEF IInv, Expire
<1> DEFINE h == Head(phead)
<1>1. phead \in Seq(Node) /\ now \in 0..MaxTime /\ h \in Node /\ h.start <= now
  <2>1. phead \in Seq(Node) /\ now \in 0..MaxTime
    BY DEF TypeOK, Node
  <2>2. h = phead[1] /\ 1 \in DOMAIN phead
    BY <2>1
  <2> QED
    BY <2>1, <2>2 DEF TimesArePast
<1>2. h.seq_num \in 0..N /\ h.start \in 0..MaxTime
  BY <1>1 DEF Node
<1>3. TIMEOUT \in Nat /\ TIMEOUT <= now
  BY <1>1, <1>2 DEF TypeOK
<1>4. TIMEOUT' = 2 * TIMEOUT
  <2>1. Long \in Nat \ {0} /\ 2 * TIMEOUT \in 0..Long-1
    BY <1>1, <1>3
  <2> QED
    BY <2>1, ModOfSmall
<1>5. /\ phead' \in Seq(Node) /\ \A j \in DOMAIN phead' : phead'[j].start <= now
      /\ HeadIsOldest'
  <2>1. /\ Tail(phead) \in Seq(Node)
        /\ \A j \in DOMAIN Tail(phead) : Tail(phead)[j].start <= now
        /\ \A j, k \in DOMAIN Tail(phead) :
              j < k => Tail(phead)[j].start <= Tail(phead)[k].start
    BY <1>1, RemoveHead DEF TimesArePast, HeadIsOldest
  <2> QED
    BY <1>1, <1>2, <2>1, Insert DEF HeadIsOldest
<1>6. TypeOK'
  BY <1>3, <1>4, <1>5 DEF TypeOK, Node
<1>7. TimesArePast' /\ T2IsSet' /\ EstimatesInAge'
  BY <1>5 DEF TimesArePast, T2IsSet, EstimatesInAge
<1>8. TimeoutIsBounded' /\ TimeoutIsPositive'
  BY <1>1, <1>3, <1>4 DEF TimeoutIsBounded, TimeoutIsPositive
<1> QED
  BY <1>5, <1>6, <1>7, <1>8

-----------------------------------------------------------------------------
\* What a sample does to the estimates.
LEMMA Sampled ==
  ASSUME TypeOK, EstimatesInAge, NEW t1 \in 0..now, NEW t \in 0..now,
         estimateTimeout((t1 - t) % Long)
  PROVE  /\ EstimatedRTT' \in Nat /\ DevRTT' \in Nat /\ TIMEOUT' \in Nat
         /\ (t1 - t) % Long \in Nat
         /\ "negative" \notin odd /\ t1 - t >= 0 =>
               /\ EstimatedRTT' <= now /\ DevRTT' <= now /\ TIMEOUT' <= 5 * now
               /\ t1 - t >= MinRtt => TIMEOUT' > 0
<1> DEFINE S == (t1 - t) % Long
           e == NewEstimate(EstimatedRTT, S)
           d == NewDev(DevRTT, e, S)
<1>1. /\ now \in 0..MaxTime /\ MaxTime \in Nat /\ Long \in Nat \ {0} /\ 5 * MaxTime < Long
      /\ MinRtt >= 4 /\ MinRtt \in Nat /\ EstimatedRTT \in Nat /\ DevRTT \in Nat
  BY RttAssumption DEF TypeOK
<1>2. S \in Nat
  BY <1>1, ModOfInt
<1>3. EstimatedRTT' = e /\ DevRTT' = d /\ TIMEOUT' = (e + 4 * d) % Long
  BY DEF estimateTimeout
<1>4. ASSUME "negative" \notin odd, t1 - t >= 0
      PROVE  /\ e \in 0..now /\ d \in 0..now /\ S = t1 - t
             /\ S >= 4 => e + 4 * d > 0
  <2>1. t1 - t \in 0..Long-1 /\ t1 - t \in 0..now
    BY <1>1, <1>4
  <2>2. S = t1 - t
    BY <1>1, <2>1, ModOfSmall
  <2>3. EstimatedRTT \in 0..now /\ DevRTT \in 0..now
    BY <1>1, <1>4 DEF EstimatesInAge
  <2> HIDE DEF S
  <2> QED
    BY <1>1, <2>1, <2>2, <2>3, EstimateBounds
<1>5. e \in Nat
  BY <1>1, <1>2 DEF NewEstimate
<1> HIDE DEF S, e
<1>6. d \in Nat
  <2>1. abs(S - e) \in Nat
    BY <1>2, <1>5, AbsType
  <2> QED
    BY <1>1, <2>1 DEF NewDev
<1> HIDE DEF d
<1>7. (e + 4 * d) % Long \in Nat
  BY <1>1, <1>5, <1>6, ModOfInt
<1>8. ASSUME "negative" \notin odd, t1 - t >= 0
      PROVE  TIMEOUT' <= 5 * now /\ (t1 - t >= MinRtt => TIMEOUT' > 0)
  <2>1. e + 4 * d \in 0..5*now
    BY <1>1, <1>4, <1>8
  <2>2. (e + 4 * d) % Long = e + 4 * d
    BY <1>1, <2>1, ModOfSmall
  <2> QED
    BY <1>1, <1>3, <1>4, <1>8, <2>1, <2>2
<1> QED
  BY <1>1, <1>2, <1>3, <1>4, <1>5, <1>6, <1>7, <1>8 DEF S

LEMMA AckKeeps ==
  ASSUME IInv, NEW j \in DOMAIN phead, Ack(j)
  PROVE  IInv'
<1> DEFINE s == phead[j].seq_num
           start == phead[j].start
           t1 == IF Split(s) THEN start ELSE now
<1>1. /\ phead \in Seq(Node) /\ phead[j] \in Node /\ now \in 0..MaxTime
      /\ MaxTime \in Nat /\ N \in Nat \ {0}
  <2>1. phead \in Seq(Node) /\ now \in 0..MaxTime
    BY DEF IInv, TypeOK, Node
  <2>2. phead[j] \in Node
    BY <2>1
  <2> QED
    BY <2>1, <2>2, RttAssumption
<1>2. s \in Slots /\ start \in 0..now
  BY <1>1 DEF Node, Ack, Final, Slots, IInv, TimesArePast
<1>3. t2' \in 0..now /\ t1 \in 0..now
  <2>1. CASE Split(s)
    <3>1. t2' = t2 /\ t2 # NotSet /\ t2 \in {NotSet} \cup 0..MaxTime /\ t2 <= now
      BY <2>1 DEF Ack, Split, IInv, T2IsSet, TypeOK, TimesArePast
    <3> QED
      BY <1>1, <1>2, <2>1, <3>1
  <2>2. CASE ~Split(s)
    BY <1>1, <1>2, <2>2 DEF Ack
  <2> QED
    BY <2>1, <2>2
<1>4. /\ phead' \in Seq(Node) /\ \A k \in DOMAIN phead' : phead'[k].start <= now
      /\ HeadIsOldest'
  BY <1>1, RemoveNode DEF Ack, IInv, TimesArePast, HeadIsOldest
<1>5. send_base' \in Slots /\ acked' \subseteq Slots
  <2>1. Slide(acked \cup {s})
    BY DEF Ack
  <2>2. PICK k \in 0..N-1 :
          /\ send_base' = (send_base + k) % N
          /\ acked' \subseteq acked \cup {s}
    BY <2>1 DEF Slide
  <2>3. send_base \in Slots /\ acked \subseteq Slots
    BY DEF IInv, TypeOK
  <2>4. (send_base + k) % N \in Slots
    <3>1. send_base + k \in Int
      BY <1>1, <2>3 DEF Slots
    <3> QED
      BY <1>1, <3>1, ModOfInt DEF Slots
  <2> QED
    BY <1>2, <2>2, <2>3, <2>4
<1>6. UNCHANGED <<now, sent, next_tosend, retransmitted, sentAt>>
  BY DEF Ack
<1>7. TimesArePast' /\ T2IsSet'
  BY <1>1, <1>3, <1>4, <1>6 DEF IInv, TimesArePast, T2IsSet, NotSet
<1>8. CASE s \in retransmitted
  <2>1. UNCHANGED estimate
    BY <1>8 DEF Ack, TakeSample
  <2>2. TypeOK'
    <3>1. t2' \in {NotSet} \cup 0..MaxTime
      BY <1>1, <1>3
    <3> QED
      BY <1>4, <1>5, <1>6, <2>1, <3>1 DEF IInv, TypeOK, Node, estimate
  <2> QED
    BY <1>4, <1>6, <1>7, <2>1, <2>2, ListSteps
<1>9. CASE s \notin retransmitted
  <2>1. /\ estimateTimeout((t1 - t2') % Long)
        /\ trip' = [sample |-> (t1 - t2') % Long, real |-> now - sentAt[s], split |-> Split(s)]
        /\ odd' = odd \cup Oddity(t1 - t2')
    BY <1>9 DEF Ack, TakeSample
  <2>2. TypeOK /\ EstimatesInAge
    BY DEF IInv
  <2> HIDE DEF t1
  <2>3. /\ EstimatedRTT' \in Nat /\ DevRTT' \in Nat /\ TIMEOUT' \in Nat
        /\ (t1 - t2') % Long \in Nat
        /\ "negative" \notin odd /\ t1 - t2' >= 0 =>
              /\ EstimatedRTT' <= now /\ DevRTT' <= now /\ TIMEOUT' <= 5 * now
              /\ t1 - t2' >= MinRtt => TIMEOUT' > 0
    BY <1>3, <2>1, <2>2, Sampled
  <2>4. /\ "negative" \notin odd' => "negative" \notin odd /\ t1 - t2' >= 0
        /\ odd' = {} => "negative" \notin odd' /\ t1 - t2' >= MinRtt
        /\ odd' \subseteq {"negative", "short"}
    <3>1. t1 - t2' \in Int /\ MinRtt \in Nat /\ odd \subseteq {"negative", "short"}
      BY <1>1, <1>3, <2>2, RttAssumption DEF TypeOK
    <3> QED
      BY <2>1, <3>1 DEF Oddity
  <2>5. now - sentAt[s] \in 0..MaxTime
    <3>1. sentAt[s] \in 0..MaxTime /\ sentAt[s] <= now
      BY <1>2 DEF IInv, TypeOK, TimesArePast
    <3> QED
      BY <1>1, <3>1
  <2>6. trip' \in [sample: Nat, real: 0..MaxTime, split: BOOLEAN]
    <3>1. Split(s) \in BOOLEAN
      BY DEF Split
    <3> QED
      BY <2>1, <2>3, <2>5, <3>1
  <2>7. TypeOK'
    <3>1. t2' \in {NotSet} \cup 0..MaxTime
      BY <1>1, <1>3
    <3> QED
      BY <1>4, <1>5, <1>6, <2>2, <2>3, <2>4, <2>6, <3>1 DEF TypeOK, Node
  <2>8. EstimatesInAge' /\ TimeoutIsBounded' /\ TimeoutIsPositive'
    BY <1>6, <2>3, <2>4 DEF EstimatesInAge, TimeoutIsBounded, TimeoutIsPositive
  <2> QED
    BY <1>4, <1>7, <2>7, <2>8 DEF IInv
<1> QED
  BY <1>8, <1>9

LEMMA SendFinalKeeps ==
  ASSUME IInv, SendFinal
  PROVE  IInv'
<1> USE RttAssumption DEF IInv, SendFinal, ring
<1>1. /\ phead' \in Seq(Node) /\ \A j \in DOMAIN phead' : phead'[j].start <= now
      /\ HeadIsOldest'
  <2>1. phead \in Seq(Node) /\ Final \in 0..N /\ now \in 0..MaxTime
    BY DEF TypeOK, Node, Final
  <2> QED
    BY <2>1, Insert DEF TimesArePast, HeadIsOldest
<1>2. TypeOK'
  BY <1>1 DEF TypeOK, Node, estimate
<1>3. TimesArePast' /\ T2IsSet'
  BY <1>1 DEF TimesArePast, T2IsSet
<1> QED
  BY <1>1, <1>2, <1>3, ListSteps

LEMMA ReadFinalAckKeeps ==
  ASSUME IInv, ReadFinalAck
  PROVE  IInv'
<1> USE DEF IInv, ReadFinalAck, ring
<1>1. /\ phead' \in Seq(Node) /\ \A j \in DOMAIN phead' : phead'[j].start <= now
      /\ HeadIsOldest'
  <2>1. phead \in Seq(Node)
    BY DEF TypeOK, Node
  <2> QED
    BY <2>1, RemoveHead DEF TimesArePast, HeadIsOldest
<1>2. TypeOK'
  BY <1>1 DEF TypeOK, Node, estimate
<1>3. TimesArePast' /\ T2IsSet'
  BY <1>1 DEF TimesArePast, T2IsSet
<1> QED
  BY <1>1, <1>2, <1>3, ListSteps

LEMMA StutterKeeps ==
  ASSUME IInv, UNCHANGED vars
  PROVE  IInv'
BY DEF vars, ring, estimate, IInv, TypeOK, TimesArePast, HeadIsOldest, T2IsSet,
       EstimatesInAge, TimeoutIsBounded, TimeoutIsPositive

\* The invariant from which the theorems follow.
LEMMA IInvCorrect == Spec => []IInv
<1>1. IInv /\ [Next]_vars => IInv'
  BY TickKeeps, SendKeeps, ExpireKeeps, AckKeeps, SendFinalKeeps, ReadFinalAckKeeps,
     StutterKeeps DEF Next
<1> QED
  BY InitIInv, <1>1, PTL DEF Spec

-----------------------------------------------------------------------------
\* Two places of a window and its end have different slots.
LEMMA PlacesDiffer ==
  ASSUME NEW b \in Nat, NEW e \in b..b+WS, NEW i \in b..e, NEW k \in b..e,
         i % N = k % N
  PROVE  i = k
<1>1. N \in Nat \ {0} /\ WS \in Nat /\ WS < N
  BY RttAssumption
<1>2. i \in Nat /\ k \in Nat /\ i < k + N /\ k < i + N
  BY <1>1
<1> QED
  BY <1>1, <1>2, ModInjective

LEMMA InitTrip == Init => TripInv
<1> SUFFICES ASSUME Init PROVE TripInv
  OBVIOUS
<1>1. N \in Nat \ {0} /\ WS \in Nat
  BY RttAssumption
<1>2. 0 % N = 0
  BY <1>1, ModOfSmall
<1>3. 0 \in 0..0+WS /\ WindowAt(0, 0)
  BY <1>1, <1>2 DEF Init, WindowAt
<1>4. Window
  BY <1>3 DEF Window
<1> QED
  BY <1>4 DEF Init, TripInv, Distinct, FirstStart, SampleIsRoundTrip

LEMMA SendTrip ==
  ASSUME TypeOK, TripInv, Send
  PROVE  TripInv'
<1> DEFINE s == next_tosend
           node == [seq_num |-> s, start |-> now]
<1>1. /\ N \in Nat \ {0} /\ WS \in Nat /\ phead \in Seq(Node) /\ s \in Slots
      /\ sentAt \in [Slots -> 0..MaxTime]
  BY RttAssumption DEF TypeOK, Node
<1>2. PICK b \in Nat : \E e \in b..b+WS : WindowAt(b, e)
  BY DEF TripInv, Window
<1>3. PICK e \in b..b+WS : WindowAt(b, e)
  BY <1>2
<1>4. e < b + WS
  <2>1. (send_base + WS) % N = (b + WS) % N
    <3>1. WS \in 0..N
      BY RttAssumption
    <3> QED
      BY <1>1, <1>3, <3>1, ModAdd DEF WindowAt
  <2>2. next_tosend = e % N
    BY <1>3 DEF WindowAt
  <2>3. e # b + WS
    BY <2>1, <2>2 DEF Send
  <2> QED
    BY <1>1, <1>3, <2>3
<1>5. next_tosend' = (e + 1) % N
  <2>1. 1 \in 0..N /\ e \in Nat
    BY <1>1, <1>3
  <2> QED
    BY <1>1, <1>3, <2>1, ModAdd DEF WindowAt, Send
<1>6. \A i \in b..e-1 : i % N # s
  <2> SUFFICES ASSUME NEW i \in b..e-1, i % N = e % N
               PROVE  FALSE
    BY <1>3 DEF WindowAt
  <2>1. i \in b..e /\ e \in b..e /\ i # e
    BY <1>1, <1>3
  <2> QED
    BY <1>3, <2>1, PlacesDiffer
<1>7. /\ DOMAIN phead' = 1..Len(phead)+1 /\ DOMAIN phead = 1..Len(phead) /\ Len(phead) \in Nat
      /\ \A j \in DOMAIN phead : phead'[j] = phead[j]
      /\ phead'[Len(phead)+1] = node
  <2>1. phead' = Append(phead, node)
    BY DEF Send, insert_in_queue
  <2> HIDE DEF node
  <2> QED
    BY <1>1, <2>1
<1>8. \A j \in DOMAIN phead : phead[j].seq_num # s
  <2>1. s # Final
    BY <1>1 DEF Slots, Final
  <2> QED
    BY <1>3, <1>6, <2>1 DEF WindowAt
<1>9. WindowAt(b, e + 1)'
  <2>1. send_base' = b % N
    BY <1>3 DEF Send, WindowAt
  <2>2. e \in b..e /\ s = e % N
    BY <1>1, <1>3 DEF WindowAt
  <2>3. ASSUME NEW j \in DOMAIN phead', phead'[j].seq_num # Final
        PROVE  \E i \in b..e : phead'[j].seq_num = i % N
    <3>1. CASE j \in DOMAIN phead
      <4>1. PICK i \in b..e-1 : phead[j].seq_num = i % N
        BY <1>3, <1>7, <2>3, <3>1 DEF WindowAt
      <4> QED
        BY <1>7, <3>1, <4>1
    <3>2. CASE j = Len(phead) + 1
      BY <1>7, <2>2, <3>2
    <3> QED
      BY <1>7, <3>1, <3>2
  <2>4. ASSUME NEW a \in acked'
        PROVE  \E i \in b..e : a = i % N
    <3>1. a \in acked
      BY DEF Send
    <3>2. PICK i \in b..e-1 : a = i % N
      BY <1>3, <3>1 DEF WindowAt
    <3> QED
      BY <3>2
  <2>5. b..(e+1)-1 = b..e
    BY <1>3
  <2> QED
    BY <1>5, <2>1, <2>3, <2>4, <2>5 DEF WindowAt
<1>10. Window'
  <2>1. e + 1 \in b..b+WS
    BY <1>1, <1>3, <1>4
  <2> QED
    BY <1>9, <2>1 DEF Window
<1>11. Distinct(phead)'
  <2> SUFFICES ASSUME NEW j \in DOMAIN phead', NEW k \in DOMAIN phead',
                      phead'[j].seq_num # Final, phead'[j].seq_num = phead'[k].seq_num
               PROVE  j = k
    BY DEF Distinct, Final
  <2>1. CASE j \in DOMAIN phead /\ k \in DOMAIN phead
    BY <1>7, <2>1 DEF TripInv, Distinct
  <2>2. CASE j \in DOMAIN phead /\ k = Len(phead) + 1
    BY <1>7, <1>8, <2>2
  <2>3. CASE j = Len(phead) + 1 /\ k \in DOMAIN phead
    BY <1>7, <1>8, <2>3
  <2> QED
    BY <1>7, <2>1, <2>2, <2>3
<1>12. FirstStart'
  <2> SUFFICES ASSUME NEW j \in DOMAIN phead', phead'[j].seq_num # Final
               PROVE  /\ phead'[j].seq_num \notin acked'
                      /\ \/ phead'[j].seq_num \in retransmitted'
                         \/ phead'[j].start = sentAt'[phead'[j].seq_num]
    BY DEF FirstStart, Final
  <2>1. CASE j \in DOMAIN phead
    <3>1. /\ phead[j].seq_num \notin acked
          /\ phead[j].seq_num \in retransmitted \/ phead[j].start = sentAt[phead[j].seq_num]
      BY <1>7, <2>1 DEF TripInv, FirstStart
    <3>2. phead[j].seq_num # s
      BY <1>8, <2>1
    <3> QED
      BY <1>1, <1>7, <2>1, <3>1, <3>2 DEF Send
  <2>2. CASE j = Len(phead) + 1
    BY <1>1, <1>7, <2>2 DEF Send
  <2> QED
    BY <1>7, <2>1, <2>2
<1> QED
  BY <1>10, <1>11, <1>12 DEF TripInv, SampleIsRoundTrip, Send, estimate

\* A step that only takes nodes from the list, or moves them.
LEMMA ExpireTrip ==
  ASSUME TypeOK, TripInv, Expire
  PROVE  TripInv'
<1> DEFINE h == Head(phead)
           n == Len(phead)
           node == [seq_num |-> h.seq_num, start |-> now]
           at(j) == IF j = n THEN 1 ELSE j + 1
<1>1. /\ phead \in Seq(Node) /\ phead # <<>> /\ n \in Nat \ {0} /\ DOMAIN phead = 1..n
      /\ h = phead[1]
  BY DEF TypeOK, Node, Expire
<1>2. phead' = Append(Tail(phead), node)
  BY DEF Expire, insert_in_queue
<1> HIDE DEF node
<1>3. /\ DOMAIN phead' = 1..n
      /\ phead'[n] = node
      /\ \A j \in 1..n-1 : phead'[j] = phead[j + 1]
  BY <1>1, <1>2
<1>4. ASSUME NEW j \in DOMAIN phead'
      PROVE  at(j) \in DOMAIN phead /\ phead'[j].seq_num = phead[at(j)].seq_num
  BY <1>1, <1>3 DEF node
<1>5. Window'
  <2>1. PICK b \in Nat : \E e \in b..b+WS : WindowAt(b, e)
    BY DEF TripInv, Window
  <2>2. PICK e \in b..b+WS : WindowAt(b, e)
    BY <2>1
  <2>3. WindowAt(b, e)'
    BY <1>4, <2>2 DEF WindowAt, Expire, Final
  <2> QED
    BY <2>2, <2>3 DEF Window
<1>6. Distinct(phead)'
  <2> SUFFICES ASSUME NEW j \in DOMAIN phead', NEW k \in DOMAIN phead',
                      phead'[j].seq_num # Final, phead'[j].seq_num = phead'[k].seq_num
               PROVE  j = k
    BY DEF Distinct, Final
  <2>1. at(j) = at(k)
    BY <1>4 DEF TripInv, Distinct
  <2> QED
    BY <1>3, <2>1
<1>7. FirstStart'
  <2> SUFFICES ASSUME NEW j \in DOMAIN phead', phead'[j].seq_num # Final
               PROVE  /\ phead'[j].seq_num \notin acked'
                      /\ \/ phead'[j].seq_num \in retransmitted'
                         \/ phead'[j].start = sentAt'[phead'[j].seq_num]
    BY DEF FirstStart, Final
  <2>1. phead'[j].seq_num \notin acked'
    BY <1>4 DEF TripInv, FirstStart, Expire
  <2>2. CASE j = n
    <3>1. phead'[j].seq_num = h.seq_num
      BY <1>3, <2>2 DEF node
    <3>2. h \in Node
      BY <1>1
    <3>3. h.seq_num \in Slots
      BY <3>1, <3>2, RttAssumption DEF Node, Slots, Final
    <3> QED
      BY <2>1, <3>1, <3>3 DEF Expire
  <2>3. CASE j # n
    <3>1. phead'[j] = phead[j + 1] /\ j + 1 \in DOMAIN phead
      BY <1>1, <1>3, <2>3
    <3> QED
      BY <2>1, <3>1 DEF TripInv, FirstStart, Expire
  <2> QED
    BY <2>2, <2>3
<1> QED
  BY <1>5, <1>6, <1>7 DEF TripInv, SampleIsRoundTrip, Expire

\* The window after an ACK: send_base does not move past next_tosend, and what
\* is left of the list and of the flags is ahead of it.
LEMMA SlideKeeps ==
  ASSUME TypeOK, NEW b \in Nat, NEW e \in b..b+WS, NEW got,
         send_base = b % N, next_tosend = e % N,
         \A s \in got : \E i \in b..e-1 : s = i % N,
         Slide(got)
  PROVE  \E c \in b..e :
           /\ send_base' = c % N
           /\ acked' \subseteq got
           /\ \A i \in b..c-1 : i % N \in got
           /\ \A s \in acked' : \E i \in c..e-1 : s = i % N
<1>1. N \in Nat \ {0} /\ WS \in Nat
  BY RttAssumption
<1> DEFINE Freed(k) == {(send_base + j) % N : j \in 0..k-1}
<1>2. PICK k \in 0..N-1 :
        /\ Freed(k) \subseteq got
        /\ send_base' = (send_base + k) % N
        /\ acked' = got \ Freed(k)
  BY DEF Slide
<1>3. \A j \in 0..N : (send_base + j) % N = (b + j) % N
  BY <1>1, ModAdd
<1>4. \A j \in 0..k-1 : (b + j) % N \in Freed(k)
  <2>1. \A j \in 0..k-1 : j \in 0..N
    BY <1>1, <1>2
  <2> QED
    BY <1>3, <2>1
<1> HIDE DEF Freed
<1>5. b + k <= e
  <2> SUFFICES ASSUME e < b + k
               PROVE  FALSE
    BY <1>1, <1>2
  <2>1. e - b \in 0..k-1 /\ b + (e - b) = e
    BY <1>1, <1>2
  <2>2. e % N \in got
    BY <1>2, <1>4, <2>1
  <2>3. PICK i \in b..e-1 : e % N = i % N
    BY <2>2
  <2>4. i \in b..e /\ e \in b..e /\ i # e
    BY <1>1, <2>3
  <2> QED
    BY <2>3, <2>4, PlacesDiffer
<1>6. b + k \in b..e /\ send_base' = (b + k) % N /\ acked' \subseteq got
  <2>1. k \in 0..N /\ b + k \in b..e
    BY <1>1, <1>2, <1>5
  <2>2. (send_base + k) % N = (b + k) % N
    BY <1>3, <2>1
  <2> QED
    BY <1>2, <2>1, <2>2
<1>7. ASSUME NEW i \in b..(b+k)-1
      PROVE  i % N \in Freed(k)
  <2>1. i - b \in 0..k-1 /\ b + (i - b) = i
    BY <1>1, <1>2
  <2> QED
    BY <1>4, <2>1
<1>8. ASSUME NEW s \in acked'
      PROVE  \E i \in b+k..e-1 : s = i % N
  <2>1. PICK i \in b..e-1 : s = i % N
    BY <1>2
  <2>2. i \notin b..(b+k)-1
    BY <1>2, <1>7, <2>1
  <2>3. i \in b+k..e-1
    BY <1>1, <1>2, <2>2
  <2> QED
    BY <2>1, <2>3
<1> QED
  BY <1>2, <1>6, <1>7, <1>8

LEMMA AckTrip ==
  ASSUME IInv, TripInv, NEW j \in DOMAIN phead, Ack(j)
  PROVE  TripInv'
<1> DEFINE s == phead[j].seq_num
           start == phead[j].start
<1>1. /\ N \in Nat \ {0} /\ WS \in Nat /\ TypeOK /\ phead \in Seq(Node)
      /\ phead[j] \in Node /\ s # Final
  <2>1. phead \in Seq(Node)
    BY DEF IInv, TypeOK, Node
  <2>2. phead[j] \in Node
    BY <2>1
  <2> QED
    BY <2>1, <2>2, RttAssumption DEF IInv, Ack
<1>2. PICK b \in Nat : \E e \in b..b+WS : WindowAt(b, e)
  BY DEF TripInv, Window
<1>3. PICK e \in b..b+WS : WindowAt(b, e)
  BY <1>2
<1>4. PICK c \in b..e :
        /\ send_base' = c % N
        /\ acked' \subseteq acked \cup {s}
        /\ \A i \in b..c-1 : i % N \in acked \cup {s}
        /\ \A a \in acked' : \E i \in c..e-1 : a = i % N
  <2> DEFINE got == acked \cup {s}
  <2>1. Slide(got)
    BY DEF Ack
  <2>2. \A a \in got : \E i \in b..e-1 : a = i % N
    BY <1>1, <1>3 DEF WindowAt
  <2>3. send_base = b % N /\ next_tosend = e % N
    BY <1>3 DEF WindowAt
  <2> HIDE DEF got
  <2>4. \E c \in b..e :
          /\ send_base' = c % N
          /\ acked' \subseteq got
          /\ \A i \in b..c-1 : i % N \in got
          /\ \A a \in acked' : \E i \in c..e-1 : a = i % N
    BY <1>1, <2>1, <2>2, <2>3, SlideKeeps
  <2> QED
    BY <2>4 DEF got
<1>5. \A m \in DOMAIN phead' :
        /\ Skip(j, m) \in DOMAIN phead \ {j} /\ phead'[m] = phead[Skip(j, m)]
        /\ \A k \in DOMAIN phead' : m < k => Skip(j, m) < Skip(j, k)
  BY <1>1, RestNodes DEF Ack
<1>6. ASSUME NEW m \in DOMAIN phead', phead'[m].seq_num # Final
      PROVE  phead'[m].seq_num \notin acked \cup {s}
  <2>1. phead[Skip(j, m)].seq_num # s
    BY <1>1, <1>5 DEF TripInv, Distinct
  <2> QED
    BY <1>5, <1>6, <2>1 DEF TripInv, FirstStart
<1>7. WindowAt(c, e)'
  <2>1. ASSUME NEW m \in DOMAIN phead', phead'[m].seq_num # Final
        PROVE  \E i \in c..e-1 : phead'[m].seq_num = i % N
    <3>1. PICK i \in b..e-1 : phead'[m].seq_num = i % N
      BY <1>3, <1>5, <2>1 DEF WindowAt
    <3>2. i \notin b..c-1
      BY <1>4, <1>6, <2>1, <3>1
    <3>3. i \in c..e-1
      BY <1>2, <1>3, <1>4, <3>1, <3>2
    <3> QED
      BY <3>1, <3>3
  <2> QED
    BY <1>3, <1>4, <2>1 DEF WindowAt, Ack, Final
<1>8. Window'
  <2>1. c \in Nat /\ e \in c..c+WS
    BY <1>1, <1>2, <1>3, <1>4
  <2> QED
    BY <1>7, <2>1 DEF Window
<1>9. Distinct(phead)'
  <2> SUFFICES ASSUME NEW m \in DOMAIN phead', NEW k \in DOMAIN phead',
                      phead'[m].seq_num # Final, phead'[m].seq_num = phead'[k].seq_num
               PROVE  m = k
    BY DEF Distinct, Final
  <2>1. Skip(j, m) = Skip(j, k)
    BY <1>5 DEF TripInv, Distinct
  <2>2. DOMAIN phead' \subseteq Int
    <3>1. phead' \in Seq(Node)
      BY <1>1, RestNodes DEF Ack
    <3> QED
      BY <3>1
  <2>3. Skip(j, m) \in Int
    BY <1>1, <1>5
  <2> QED
    BY <1>5, <2>1, <2>2, <2>3
<1>10. FirstStart'
  <2> SUFFICES ASSUME NEW m \in DOMAIN phead', phead'[m].seq_num # Final
               PROVE  /\ phead'[m].seq_num \notin acked'
                      /\ \/ phead'[m].seq_num \in retransmitted'
                         \/ phead'[m].start = sentAt'[phead'[m].seq_num]
    BY DEF FirstStart, Final
  <2>1. phead'[m].seq_num \notin acked'
    BY <1>4, <1>6
  <2>2. UNCHANGED <<retransmitted, sentAt>>
    BY DEF Ack
  <2> QED
    BY <1>5, <2>1, <2>2 DEF TripInv, FirstStart
<1>11. SampleIsRoundTrip'
  <2>1. CASE s \in retransmitted
    BY <2>1 DEF Ack, TakeSample, estimate, TripInv, SampleIsRoundTrip
  <2>2. CASE s \notin retransmitted /\ Split(s)
    BY <2>2 DEF Ack, TakeSample, SampleIsRoundTrip
  <2>3. CASE s \notin retransmitted /\ ~Split(s)
    <3>1. trip' = [sample |-> (now - start) % Long, real |-> now - sentAt[s], split |-> Split(s)]
      BY <2>3 DEF Ack, TakeSample
    <3>2. start = sentAt[s]
      BY <1>1, <2>3 DEF TripInv, FirstStart
    <3>3. now - start \in 0..Long-1 /\ Long \in Nat \ {0}
      <4>1. start <= now /\ now \in 0..MaxTime /\ start \in 0..MaxTime
        BY <1>1 DEF IInv, TimesArePast, TypeOK, Node
      <4> QED
        BY <4>1, RttAssumption
    <3>4. (now - start) % Long = now - start
      BY <3>3, ModOfSmall
    <3> QED
      BY <3>1, <3>2, <3>4 DEF SampleIsRoundTrip
  <2> QED
    BY <2>1, <2>2, <2>3
<1> QED
  BY <1>8, <1>9, <1>10, <1>11 DEF TripInv

\* The final packet is in no slot.
LEMMA SendFinalTrip ==
  ASSUME TypeOK, TripInv, SendFinal
  PROVE  TripInv'
<1> DEFINE node == [seq_num |-> Final, start |-> now]
<1>1. phead \in Seq(Node) /\ phead' = Append(phead, node) /\ node.seq_num = Final
  BY DEF TypeOK, Node, SendFinal, insert_in_queue
<1> HIDE DEF node
<1>2. \A j \in DOMAIN phead' : phead'[j].seq_num # Final =>
        j \in DOMAIN phead /\ phead'[j] = phead[j]
  BY <1>1
<1>3. UNCHANGED <<send_base, next_tosend, acked, retransmitted, sentAt, trip>>
  BY DEF SendFinal, ring, estimate
<1>4. Window'
  <2>1. PICK b \in Nat : \E e \in b..b+WS : WindowAt(b, e)
    BY DEF TripInv, Window
  <2>2. PICK e \in b..b+WS : WindowAt(b, e)
    BY <2>1
  <2>3. WindowAt(b, e)'
    BY <1>2, <1>3, <2>2 DEF WindowAt, Final
  <2> QED
    BY <2>2, <2>3 DEF Window
<1>5. Distinct(phead)'
  BY <1>2 DEF TripInv, Distinct, Final
<1>6. FirstStart'
  BY <1>2, <1>3 DEF TripInv, FirstStart, Final
<1> QED
  BY <1>3, <1>4, <1>5, <1>6 DEF TripInv, SampleIsRoundTrip

LEMMA ReadFinalAckTrip ==
  ASSUME TypeOK, TripInv, ReadFinalAck
  PROVE  TripInv'
<1>1. phead \in Seq(Node) /\ phead # <<>> /\ phead' = Tail(phead)
  BY DEF TypeOK, Node, ReadFinalAck
<1>2. /\ DOMAIN phead' \subseteq Int
      /\ \A j \in DOMAIN phead' : j + 1 \in DOMAIN phead /\ phead'[j] = phead[j + 1]
  BY <1>1
<1>3. UNCHANGED <<send_base, next_tosend, acked, retransmitted, sentAt, trip>>
  BY DEF ReadFinalAck, ring, estimate
<1>4. Window'
  <2>1. PICK b \in Nat : \E e \in b..b+WS : WindowAt(b, e)
    BY DEF TripInv, Window
  <2>2. PICK e \in b..b+WS : WindowAt(b, e)
    BY <2>1
  <2>3. WindowAt(b, e)'
    BY <1>2, <1>3, <2>2 DEF WindowAt, Final
  <2> QED
    BY <2>2, <2>3 DEF Window
<1>5. Distinct(phead)'
  <2> SUFFICES ASSUME NEW j \in DOMAIN phead', NEW k \in DOMAIN phead',
                      phead'[j].seq_num # Final, phead'[j].seq_num = phead'[k].seq_num
               PROVE  j = k
    BY DEF Distinct, Final
  <2>1. j + 1 = k + 1
    BY <1>2 DEF TripInv, Distinct
  <2> QED
    BY <1>2, <2>1
<1>6. FirstStart'
  BY <1>2, <1>3 DEF TripInv, FirstStart, Final
<1> QED
  BY <1>3, <1>4, <1>5, <1>6 DEF TripInv, SampleIsRoundTrip

\* The steps that only pass time.
LEMMA OtherTrip ==
  ASSUME TripInv, Tick \/ UNCHANGED vars
  PROVE  TripInv'
<1>1. UNCHANGED <<send_base, next_tosend, acked, retransmitted, phead, sentAt, trip>>
  BY DEF Tick, vars, ring, estimate
<1> QED
  BY <1>1 DEF TripInv, Window, WindowAt, Distinct, FirstStart, SampleIsRoundTrip, Final

\* The strengthening of SampleIsRoundTrip rests on the invariant above.
LEMMA TripInvCorrect == Spec => []TripInv
<1>1. IInv /\ TripInv /\ [Next]_vars => TripInv'
  <2> SUFFICES ASSUME IInv, TripInv, [Next]_vars
               PROVE  TripInv'
    OBVIOUS
  <2>1. TypeOK
    BY DEF IInv
  <2> QED
    BY <2>1, SendTrip, ExpireTrip, AckTrip, SendFinalTrip, ReadFinalAckTrip, OtherTrip DEF Next
<1> QED
  BY InitTrip, IInvCorrect, <1>1, PTL DEF Spec

-----------------------------------------------------------------------------
\* Every variable keeps its type: no start, deviation or estimate is negative.
THEOREM TypeCorrect == Spec => []TypeOK
BY IInvCorrect, PTL DEF IInv

\* thread_timeout_job may look at the head only: it is the oldest node.
THEOREM HeadIsOldestCorrect == Spec => []HeadIsOldest
BY IInvCorrect, PTL DEF IInv

\* thread_ack_job takes no sample from a *t2 that was never written.
THEOREM T2IsSetCorrect == Spec => []T2IsSet
BY IInvCorrect, PTL DEF IInv

\* TIMEOUT is bounded by the age of the transfer as long as no sample is negative.
THEOREM TimeoutBounded == Spec => []TimeoutIsBounded
BY IInvCorrect, PTL DEF IInv

\* TIMEOUT is never 0 as long as no sample is shorter than a round trip.
THEOREM TimeoutPositive == Spec => []TimeoutIsPositive
BY IInvCorrect, PTL DEF IInv

\* Outside case (2), thread_ack_job's sample is the time since the packet was sent,
\* and no sample is that of a retransmission.
THEOREM SampleCorrect == Spec => []SampleIsRoundTrip
BY TripInvCorrect, PTL DEF TripInv
=============================================================================
