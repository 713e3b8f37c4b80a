---------------------------- MODULE SenderProofs ----------------------------
(***************************************************************************)
(* What each action of the sender does to its window and to its timers,    *)
(* for every window, file and channel size and whatever the receiver does. *)
(* The slot of a block is opaque but for the facts just below.             *)
(***************************************************************************)
EXTENDS SenderInv, ModArith, WellFoundedInduction

-----------------------------------------------------------------------------
\* What the operations of the timer list do to a list that names each packet at
\* most once.
NoDuplicate(s) == \A i, j \in DOMAIN s : s[i] = s[j] => i = j

\* Min of a set of natural numbers is its least element.
LEMMA LeastExists ==
  ASSUME NEW I \in SUBSET Nat, I # {}
  PROVE  Min(I) \in I /\ \A x \in I : Min(I) <= x
<1> DEFINE R == OpToRel(<, Nat)
<1>1. R = {ss \in Nat \X Nat : ss[1] < ss[2]}
  BY DEF OpToRel
<1>2. IsWellFoundedOn(R, Nat)
  BY NatLessThanWellFounded
<1> HIDE DEF R
<1>3. PICK x \in I : \A y \in I : ~ (<<y, x>> \in R)
  BY <1>2, WFMin
<1>4. ASSUME NEW y \in I
      PROVE  x <= y
  <2>1. x \in Nat /\ y \in Nat /\ <<y, x>> \in Nat \X Nat
        /\ <<y, x>>[1] = y /\ <<y, x>>[2] = x
    OBVIOUS
  <2>2. ~ (y < x)
    BY <1>1, <1>3, <2>1, Zenon
  <2> QED
    BY <2>1, <2>2
<1> QED
  BY <1>4 DEF Min

\* Adding a packet that has no timer yet.
LEMMA InsertNew ==
  ASSUME NEW S, NEW s \in Seq(S), NEW e \in S, NoDuplicate(s),
         e \notin ToSet(s)
  PROVE  LET t == insert_in_queue(s, e)
         IN  /\ t \in Seq(S)
             /\ NoDuplicate(t)
             /\ ToSet(t) = ToSet(s) \cup {e}
<1> DEFINE t == insert_in_queue(s, e)
<1>1. /\ t \in Seq(S) /\ Len(t) = Len(s) + 1 /\ t[Len(s) + 1] = e
      /\ \A i \in 1..Len(s) : t[i] = s[i]
  BY DEF insert_in_queue
<1>2. DOMAIN t = 1..Len(s)+1 /\ DOMAIN s = 1..Len(s) /\ Len(s) \in Nat
  BY <1>1
<1> HIDE DEF t
<1>3. NoDuplicate(t)
  BY <1>1, <1>2 DEF NoDuplicate, ToSet
<1>4. ASSUME NEW x
      PROVE  (\E i \in DOMAIN t : t[i] = x) <=> x = e \/ \E i \in DOMAIN s : s[i] = x
  BY <1>1, <1>2
<1>5. ToSet(t) = ToSet(s) \cup {e}
  BY <1>4 DEF ToSet
<1> QED
  BY <1>1, <1>3, <1>5 DEF t

\* Sending the head to the back, as thread_timeout_job does.
LEMMA Requeue ==
  ASSUME NEW S, NEW s \in Seq(S), NoDuplicate(s), s # <<>>
  PROVE  LET t == insert_in_queue(delete_node_in_head(s), Head(s))
         IN  /\ t \in Seq(S)
             /\ NoDuplicate(t)
             /\ Len(t) = Len(s)
             /\ ToSet(t) = ToSet(s)
<1> DEFINE u == Tail(s)
           t == Append(u, Head(s))
<1>1. /\ Len(s) \in Nat /\ Len(s) > 0 /\ Head(s) = s[1] /\ Head(s) \in S
      /\ u \in Seq(S) /\ Len(u) = Len(s) - 1
      /\ \A i \in 1..Len(u) : u[i] = s[i + 1]
  OBVIOUS
<1>2. /\ t \in Seq(S) /\ Len(t) = Len(s) /\ t[Len(s)] = s[1]
      /\ \A i \in 1..Len(s)-1 : t[i] = s[i + 1]
  BY <1>1
<1>3. DOMAIN t = 1..Len(s) /\ DOMAIN s = 1..Len(s)
  BY <1>2
<1>4. insert_in_queue(delete_node_in_head(s), Head(s)) = t
  BY DEF insert_in_queue, delete_node_in_head
<1> HIDE DEF t, u
<1>5. NoDuplicate(t)
  <2>1. ASSUME NEW i \in 1..Len(s), NEW j \in 1..Len(s), t[i] = t[j], i < Len(s), j < Len(s)
        PROVE  i = j
    <3>1. s[i + 1] = s[j + 1] /\ i + 1 \in 1..Len(s) /\ j + 1 \in 1..Len(s)
      BY <1>1, <1>2, <2>1
    <3>2. i + 1 = j + 1
      BY <1>3, <3>1 DEF NoDuplicate
    <3> QED
      BY <3>2
  <2>2. ASSUME NEW i \in 1..Len(s), i < Len(s)
        PROVE  t[i] # t[Len(s)]
    <3>1. t[i] = s[i + 1] /\ t[Len(s)] = s[1] /\ i + 1 \in 1..Len(s) /\ 1 \in 1..Len(s)
      BY <1>1, <1>2, <2>2
    <3>2. i + 1 # 1
      OBVIOUS
    <3> QED
      BY <1>3, <3>1, <3>2 DEF NoDuplicate
  <2> QED
    BY <1>1, <1>3, <2>1, <2>2 DEF NoDuplicate
<1>6. ASSUME NEW x
      PROVE  (\E i \in DOMAIN t : t[i] = x) <=> \E i \in DOMAIN s : s[i] = x
  <2>1. ASSUME NEW i \in DOMAIN t, t[i] = x PROVE \E k \in DOMAIN s : s[k] = x
    <3>1. CASE i = Len(s)
      BY <1>1, <1>2, <1>3, <2>1, <3>1
    <3>2. CASE i # Len(s)
      <4>1. i + 1 \in DOMAIN s /\ s[i + 1] = x
        BY <1>1, <1>2, <1>3, <2>1, <3>2
      <4> QED
        BY <4>1
    <3> QED
      BY <3>1, <3>2
  <2>2. ASSUME NEW i \in DOMAIN s, s[i] = x PROVE \E k \in DOMAIN t : t[k] = x
    <3>1. CASE i = 1
      <4>1. Len(s) \in DOMAIN t /\ t[Len(s)] = x
        BY <1>1, <1>2, <1>3, <2>2, <3>1
      <4> QED
        BY <4>1
    <3>2. CASE i # 1
      <4>1. i - 1 \in DOMAIN t /\ t[i - 1] = x
        BY <1>1, <1>2, <1>3, <2>2, <3>2
      <4> QED
        BY <4>1
    <3> QED
      BY <3>1, <3>2
  <2> QED
    BY <2>1, <2>2
<1>7. ToSet(t) = ToSet(s)
  BY <1>6 DEF ToSet
<1> QED
  BY <1>2, <1>4, <1>5, <1>7

\* A list stays a list of packets.
LEMMA RemoveType ==
  ASSUME NEW S, NEW s \in Seq(S), NEW e
  PROVE  remove_nodo(s, e) \in Seq(S)
<1>1. CASE ~ \E i \in 1..Len(s) : s[i] = e
  BY <1>1 DEF remove_nodo, RemoveFirst
<1>2. CASE \E i \in 1..Len(s) : s[i] = e
  <2> DEFINE I == {i \in 1..Len(s) : s[i] = e}
  <2>1. I \in SUBSET Nat /\ I # {} /\ I \subseteq 1..Len(s)
    BY <1>2
  <2>2. SelectInSeq(s, LAMBDA v : v = e) = Min(I)
    BY <2>1 DEF SelectInSeq
  <2> HIDE DEF I
  <2>3. Min(I) \in 1..Len(s)
    BY <2>1, LeastExists
  <2>4. remove_nodo(s, e) = RemoveAt(s, Min(I))
    BY <1>2, <2>2 DEF remove_nodo, RemoveFirst
  <2> QED
    BY <2>3, <2>4 DEF RemoveAt
<1> QED
  BY <1>1, <1>2

\* Stopping the timer of packet e.
LEMMA RemoveOne ==
  ASSUME NEW S, NEW s \in Seq(S), NoDuplicate(s), NEW e
  PROVE  LET t == remove_nodo(s, e)
         IN  /\ t \in Seq(S)
             /\ NoDuplicate(t)
             /\ ToSet(t) = ToSet(s) \ {e}
<1>1. CASE ~ \E i \in 1..Len(s) : s[i] = e
  <2>1. remove_nodo(s, e) = s
    BY <1>1 DEF remove_nodo, RemoveFirst
  <2>2. DOMAIN s = 1..Len(s)
    OBVIOUS
  <2> QED
    BY <1>1, <2>1, <2>2 DEF ToSet
<1>2. CASE \E i \in 1..Len(s) : s[i] = e
  <2>1. PICK p \in 1..Len(s) : s[p] = e
    BY <1>2
  <2>2. {i \in 1..Len(s) : s[i] = e} = {p}
    BY <2>1 DEF NoDuplicate
  <2>3. SelectInSeq(s, LAMBDA v : v = e) = p
    <3>1. SelectInSeq(s, LAMBDA v : v = e) = Min({p})
      BY <2>2 DEF SelectInSeq
    <3>2. Min({p}) = p
      BY <2>1 DEF Min
    <3> QED
      BY <3>1, <3>2
  <2> DEFINE t == RemoveAt(s, p)
  <2>4. remove_nodo(s, e) = t
    BY <1>2, <2>3 DEF remove_nodo, RemoveFirst
  <2>5. /\ t \in Seq(S) /\ Len(t) = Len(s) - 1 /\ Len(s) \in Nat
        /\ \A i \in 1..Len(s)-1 : t[i] = IF i < p THEN s[i] ELSE s[i + 1]
    <3> DEFINE u == SubSeq(s, 1, p - 1)
               v == SubSeq(s, p + 1, Len(s))
    <3>1. u \in Seq(S) /\ Len(u) = p - 1 /\ \A i \in 1..p-1 : u[i] = s[i]
      BY <2>1
    <3>2. v \in Seq(S) /\ Len(v) = Len(s) - p /\ \A i \in 1..Len(s)-p : v[i] = s[p + i]
      BY <2>1
    <3>3. t = u \o v
      BY DEF RemoveAt
    <3> HIDE DEF u, v, t
    <3>4. t \in Seq(S) /\ Len(t) = Len(s) - 1 /\ Len(s) \in Nat
      BY <2>1, <3>1, <3>2, <3>3
    <3>5. /\ \A i \in 1..Len(u) : t[i] = u[i]
          /\ \A i \in 1..Len(v) : t[Len(u) + i] = v[i]
      BY <3>1, <3>2, <3>3
    <3>6. ASSUME NEW i \in 1..Len(s)-1, i < p
          PROVE  t[i] = s[i]
      BY <2>1, <3>1, <3>4, <3>5, <3>6
    <3>7. ASSUME NEW i \in 1..Len(s)-1, i >= p
          PROVE  t[i] = s[i + 1]
      <4>1. /\ i - (p - 1) \in 1..Len(v) /\ i - (p - 1) \in 1..Len(s)-p
            /\ Len(u) + (i - (p - 1)) = i /\ p + (i - (p - 1)) = i + 1
        BY <2>1, <3>1, <3>2, <3>4, <3>7
      <4>2. t[i] = v[i - (p - 1)]
        BY <3>5, <4>1
      <4>3. v[i - (p - 1)] = s[i + 1]
        BY <3>2, <4>1
      <4> QED
        BY <4>2, <4>3
    <3> QED
      BY <2>1, <3>4, <3>6, <3>7
  <2> HIDE DEF t
  <2>7. DOMAIN t = 1..Len(s)-1 /\ DOMAIN s = 1..Len(s)
    BY <2>5
  <2>8. NoDuplicate(t)
    BY <2>1, <2>5, <2>7 DEF NoDuplicate
  <2>9. ASSUME NEW x
        PROVE  (\E i \in DOMAIN t : t[i] = x) <=> x # e /\ \E i \in DOMAIN s : s[i] = x
    <3>1. ASSUME NEW i \in DOMAIN t, t[i] = x
          PROVE  x # e /\ \E k \in DOMAIN s : s[k] = x
      <4>1. PICK k \in DOMAIN s : k # p /\ s[k] = x
        BY <2>1, <2>5, <2>7, <3>1
      <4> QED
        BY <2>1, <2>7, <4>1 DEF NoDuplicate
    <3>2. ASSUME NEW i \in DOMAIN s, s[i] = x, x # e
          PROVE  \E k \in DOMAIN t : t[k] = x
      <4>1. CASE i < p
        BY <2>1, <2>5, <2>7, <3>2, <4>1
      <4>2. CASE i > p
        <5>1. i - 1 \in DOMAIN t /\ t[i - 1] = x
          BY <2>1, <2>5, <2>7, <3>2, <4>2
        <5> QED
          BY <5>1
      <4> QED
        BY <2>1, <2>7, <3>2, <4>1, <4>2
    <3> QED
      BY <3>1, <3>2
  <2>10. ToSet(t) = ToSet(s) \ {e}
    BY <2>9 DEF ToSet
  <2> QED
    BY <2>4, <2>5, <2>8, <2>10
<1> QED
  BY <1>1, <1>2

-----------------------------------------------------------------------------
\* The sizes, in the form the proofs use.
LEMMA Sizes ==
  /\ N \in Nat \ {0}
  /\ WS \in Nat /\ WS \in 1..N-1 /\ WS + WS <= N
  /\ WR \in Nat /\ WR \in 1..N-1 /\ WS <= WR /\ WS + WR <= N
  /\ FileLen \in Nat
  /\ NULL \notin Blocks /\ NULL \notin Packet
BY SenderAssumption, ReceiverAssumption

\* A sum modulo N is a slot.
LEMMA Position ==
  ASSUME NEW i \in Nat
  PROVE  i % N \in Slots
BY Sizes, ModType DEF Slots

\* The slot after a slot is a slot.
LEMMA NextPosition ==
  ASSUME NEW b \in Slots, NEW k \in Nat
  PROVE  (b + k) % N \in Slots
<1>1. b + k \in Nat
  BY Sizes DEF Slots
<1> QED
  BY <1>1, Position

\* A send leaves the channel as it was, or adds the datagram at its end.
LEMMA TransmitResult ==
  ASSUME NEW S, NEW ch \in Seq(S), NEW m \in S, NEW ch2 \in Transmit(ch, m)
  PROVE  /\ ch2 \in Seq(S)
         /\ ch2 = ch \/ ch2 = Append(ch, m)
BY DEF Transmit

\* What is sent is a datagram.
LEMMA AddSeqNumType ==
  ASSUME NEW pkt \in Packet
  PROVE  addSeqNum(pkt) \in DataMsg
BY Sizes DEF addSeqNum, Packet, DataMsg, Blocks

\* An ACK is a datagram of its kind.
LEMMA AckType ==
  ASSUME NEW m \in DataMsg
  PROVE  Ack(m) \in AckMsg
BY Sizes DEF Ack, DataMsg, AckMsg, Blocks

\* A slot is a position of the buffer.
LEMMA SlotType == ASSUME NEW i \in Nat PROVE Slot(i) \in Slots
BY Position DEF Slot

\* Blocks less than a turn of the buffer apart have slots of their own.
LEMMA SlotInjective ==
  ASSUME NEW i \in Nat, NEW j \in Nat, i < j + N, j < i + N, Slot(i) = Slot(j)
  PROVE  i = j
BY Sizes, ModInjective DEF Slot

\* The code's steps from a slot to a later one.
LEMMA SlotMove ==
  ASSUME NEW i \in Nat, NEW k \in 0..N
  PROVE  (Slot(i) + k) % N = Slot(i + k)
BY Sizes, ModAdd DEF Slot

\* Block 0 goes to the first slot.
LEMMA SlotZero == Slot(0) = 0
BY Sizes, ModShift, ModUnique DEF Slot

\* The slot of a slot, and of the number of a final packet, is that slot.
LEMMA SlotOfSlot ==
  ASSUME NEW i \in Nat
  PROVE  Slot(i) % N = Slot(i) /\ (Slot(i) + N) % N = Slot(i)
<1>1. Slot(i) % N = Slot(i)
  <2>1. (Slot(i) + 0) % N = Slot(i + 0)
    BY Sizes, SlotMove
  <2>2. Slot(i) + 0 = Slot(i) /\ i + 0 = i
    BY SlotType DEF Slots
  <2> QED
    BY <2>1, <2>2
<1>2. (Slot(i) + N) % N = Slot(i)
  <2>1. Slot(i) \in Nat /\ Slot(i) < N /\ N \in Nat \ {0}
    BY SlotType, Sizes DEF Slots
  <2> DEFINE r == Slot(i)
  <2> HIDE DEF r
  <2>2. r \in Nat /\ r < N /\ r % N = r
    BY <2>1, <1>1 DEF r
  <2>3. (r + N) % N = IF (r % N) + N < 0 THEN (r % N) + N + N
                      ELSE IF (r % N) + N < N THEN (r % N) + N
                      ELSE (r % N) + N - N
    <3>1. N \in Int /\ -N <= N /\ N <= N /\ r + N >= 0
      BY <2>1, <2>2
    <3>2. N \in Nat \ {0} /\ r \in Nat
      BY <2>1, <2>2
    <3> QED
      BY <3>1, <3>2, ModShift
  <2>4. (r + N) % N = r
    BY <2>1, <2>2, <2>3
  <2> QED
    BY <2>4 DEF r
<1> QED
  BY <1>1, <1>2

\* The sender's window test is right for blocks at most N - WS behind.
LEMMA SndWindowTest ==
  ASSUME NEW b \in Nat, NEW i \in Nat, b <= i + (N - WS), i < b + WS
  PROVE  InSendWindow(Slot(i), Slot(b)) <=> i >= b
<1> DEFINE base == b % N
           top  == (base + WS) % N
           s    == i % N
<1>1. /\ base < top => top = base + WS
      /\ i >= b <=> \/ base < top /\ s >= base /\ s < top
                    \/ base >= top /\ (s >= base \/ s < top)
  BY Sizes, WindowTest
<1>2. base \in Int /\ top \in Int /\ s \in Int
  BY Sizes, ModType
<1>3. InSendWindow(s, base) <=> \/ base < top /\ s >= base /\ s < base + WS
                                \/ base >= top /\ (s >= base \/ s < top)
  BY DEF InSendWindow
<1> HIDE DEF base, top, s
<1>4. InSendWindow(s, base) <=> i >= b
  BY <1>1, <1>2, <1>3
<1> QED
  BY <1>4 DEF base, s, Slot

\* The receiver's test, of a block not too far behind: it is inside exactly when
\* it is not written yet.
LEMMA RcvWindowTest ==
  ASSUME NEW b \in Nat, NEW i \in Nat, b <= i + (N - WR), i < b + WR
  PROVE  InRcvWindow(Slot(i), Slot(b)) <=> i >= b
<1> DEFINE base == b % N
           top  == (base + WR) % N
           s    == i % N
<1>1. /\ i >= b <=> \/ base < top /\ s >= base /\ s < top
                    \/ base >= top /\ (s >= base \/ s < top)
  BY Sizes, WindowTest
<1>2. InRcvWindow(s, base) <=> \/ base < top /\ s >= base /\ s < top
                               \/ base >= top /\ (s >= base \/ s < top)
  BY DEF InRcvWindow
<1> HIDE DEF base, top, s
<1>4. InRcvWindow(s, base) <=> i >= b
  BY <1>1, <1>2
<1> QED
  BY <1>4 DEF base, s, Slot

\* What a channel holds after a send, and after its head was taken.
LEMMA AfterSend ==
  ASSUME NEW S, NEW ch \in Seq(S), NEW m \in S, NEW ch2 \in Transmit(ch, m)
  PROVE  /\ \A q \in DOMAIN ch2 : (q \in DOMAIN ch /\ ch2[q] = ch[q]) \/ ch2[q] = m
         /\ \A q, r \in DOMAIN ch2 : q < r =>
              /\ q \in DOMAIN ch /\ ch2[q] = ch[q]
              /\ (r \in DOMAIN ch /\ ch2[r] = ch[r]) \/ ch2[r] = m
<1>1. CASE ch2 = ch
  BY <1>1
<1>2. CASE ch2 = Append(ch, m)
  <2>1. /\ Len(ch) \in Nat /\ DOMAIN ch = 1..Len(ch)
        /\ DOMAIN ch2 = 1..Len(ch)+1
        /\ \A q \in 1..Len(ch) : ch2[q] = ch[q]
        /\ ch2[Len(ch)+1] = m
    BY <1>2
  <2>2. \A q \in DOMAIN ch2 : q \in 1..Len(ch) \/ q = Len(ch) + 1
    BY <2>1
  <2>3. \A q, r \in DOMAIN ch2 : q < r => q \in 1..Len(ch)
    BY <2>1
  <2> QED
    BY <2>1, <2>2, <2>3
<1> QED
  BY <1>1, <1>2, TransmitResult

\* A channel after its head was read.
LEMMA AfterRead ==
  ASSUME NEW S, NEW ch \in Seq(S), ch # <<>>
  PROVE  /\ 1 \in DOMAIN ch /\ Head(ch) = ch[1] /\ Head(ch) \in S
         /\ \A q \in DOMAIN Tail(ch) : q \in Int /\ 1 < q + 1 /\ q + 1 \in DOMAIN ch /\ Tail(ch)[q] = ch[q + 1]
OBVIOUS

-----------------------------------------------------------------------------
\* The sender's actions.
SenderNext ==
  \/ SendPacket \/ SendEof \/ TimeoutExpired \/ IgnoreAck \/ AcceptAck
  \/ StartFinal \/ ReadFinalAck

\* Nothing is sent yet.
LEMMA SenderTypeInit == SenderInit => SenderTypeOK
BY Sizes DEF SenderInit, SenderTypeOK, Slots, Blocks

\* Nothing is received yet.
LEMMA ReceiverTypeInit == ReceiverInit => ReceiverTypeOK
BY Sizes, ReceiverAssumption DEF ReceiverInit, ReceiverTypeOK, Slots, Blocks, AckMsg

\* The sender keeps its types.
LEMMA SenderTypeStep ==
  ASSUME SenderTypeOK, SenderNext
  PROVE  SenderTypeOK'
<1> USE Sizes DEF SenderTypeOK
<1>1. CASE SendPacket
  <2> DEFINE pkt == [data |-> fileOff, seqnum |-> next_tosend,
                     acked |-> FALSE, finished |-> FALSE]
  <2>1. pkt \in Packet
    BY DEF Packet, Slots, Blocks
  <2>2. fileOff + 1 \in Blocks
    BY <1>1 DEF SendPacket, Blocks
  <2>3. dataCh' \in Seq(DataMsg)
    BY <1>1, <2>1, AddSeqNumType, TransmitResult DEF SendPacket
  <2>4. phead' \in Seq(0..2*N-1)
    <3>1. pkt.seqnum \in 0..2*N-1
      BY DEF Slots
    <3> QED
      BY <1>1, <3>1 DEF SendPacket, insert_in_queue
  <2>5. (next_tosend + 1) % N \in Slots
    BY NextPosition
  <2>6. snd_buf' \in [Slots -> Packet \cup {NULL}]
    BY <1>1, <2>1 DEF SendPacket
  <2> QED
    BY <1>1, <2>2, <2>3, <2>4, <2>5, <2>6 DEF SendPacket
<1>2. CASE SendEof
  <2>1. [data |-> FileLen, seqnum |-> next_tosend + N,
         acked |-> FALSE, finished |-> TRUE] \in Packet
    BY DEF Packet, Slots, Blocks
  <2> QED
    BY <1>2, <2>1 DEF SendEof
<1>3. CASE TimeoutExpired
  <2> DEFINE pkt == snd_buf[Head(phead) % N]
  <2>1. pkt \in Packet
    <3>1. Head(phead) \in Nat
      BY <1>3 DEF TimeoutExpired
    <3> QED
      BY <1>3, <3>1, Position DEF TimeoutExpired
  <2>2. dataCh' \in Seq(DataMsg)
    BY <1>3, <2>1, AddSeqNumType, TransmitResult DEF TimeoutExpired
  <2>3. phead' \in Seq(0..2*N-1)
    <3>1. pkt.seqnum \in 0..2*N-1
      BY <2>1 DEF Packet
    <3>2. Tail(phead) \in Seq(0..2*N-1)
      BY <1>3 DEF TimeoutExpired
    <3> QED
      BY <1>3, <3>1, <3>2 DEF TimeoutExpired, insert_in_queue, delete_node_in_head
  <2> QED
    BY <1>3, <2>2, <2>3 DEF TimeoutExpired
<1>4. CASE IgnoreAck
  BY <1>4 DEF IgnoreAck, sndVars
<1>5. CASE AcceptAck
  <2> DEFINE s == Head(ackCh).seq
             buf == MarkAcked(s)
  <2>1. MarkAcked(s) \in [Slots -> Packet \cup {NULL}]
    BY <1>5 DEF AcceptAck, Packet, MarkAcked
  <2>2. phead' \in Seq(0..2*N-1)
    BY <1>5, RemoveType DEF AcceptAck
  <2>3. \A k \in 1..N : (send_base + k) % N \in Slots
    BY NextPosition
  <2>4. \A k \in 1..N : FreeRun(buf, send_base, k) \in [Slots -> Packet \cup {NULL}]
    BY <2>1 DEF FreeRun
  <2>5. ackCh' \in Seq(AckMsg)
    BY <1>5 DEF AcceptAck
  <2> HIDE DEF buf
  <2>6. /\ snd_buf' \in [Slots -> Packet \cup {NULL}]
        /\ send_base' \in Slots
    <3>1. CASE s # send_base
      BY <1>5, <2>1, <3>1 DEF AcceptAck, buf
    <3>2. CASE s = send_base
      <4>1. PICK k \in 1..N : /\ snd_buf' = FreeRun(buf, send_base, k)
                              /\ send_base' = (send_base + k) % N
        BY <1>5, <3>2 DEF AcceptAck, FreeAcked, buf
      <4> QED
        BY <2>3, <2>4, <4>1
    <3> QED
      BY <3>1, <3>2
  <2> QED
    BY <1>5, <2>2, <2>5, <2>6 DEF AcceptAck
<1>6. CASE StartFinal
  <2>1. snd_buf[send_base] \in Packet
    BY <1>6 DEF StartFinal
  <2>2. dataCh' \in Seq(DataMsg)
    BY <1>6, <2>1, AddSeqNumType, TransmitResult DEF StartFinal
  <2>3. phead' \in Seq(0..2*N-1)
    BY <1>6, <2>1 DEF StartFinal, insert_in_queue, Packet
  <2> QED
    BY <1>6, <2>2, <2>3 DEF StartFinal
<1>7. CASE ReadFinalAck
  <2>1. ackCh' \in Seq(AckMsg)
    BY <1>7 DEF ReadFinalAck
  <2>2. phead' \in Seq(0..2*N-1)
    <3>1. phead # <<>> => Tail(phead) \in Seq(0..2*N-1)
      OBVIOUS
    <3>2. delete_node_in_head(phead) \in Seq(0..2*N-1)
      BY <3>1 DEF delete_node_in_head
    <3> QED
      BY <1>7, <3>2 DEF ReadFinalAck
  <2>3. snd_buf' \in [Slots -> Packet \cup {NULL}]
    BY <1>7 DEF ReadFinalAck
  <2> QED
    BY <1>7, <2>1, <2>2, <2>3 DEF ReadFinalAck
<1> QED
  BY <1>1, <1>2, <1>3, <1>4, <1>5, <1>6, <1>7 DEF SenderNext
-----------------------------------------------------------------------------
\* The numbers of the window are natural numbers.
LEMMA SenderNumbers ==
  ASSUME SenderTypeOK, NEW sb \in 0..FileLen, SendWindow(sb)
  PROVE  /\ sb \in Nat /\ fileOff \in Nat
         /\ sb <= fileOff /\ fileOff <= sb + WS /\ fileOff <= FileLen
         /\ fileOff < sb + N
BY Sizes DEF SenderTypeOK, Blocks, SendWindow

\* The blocks of the window, and the next one, have slots of their own.
LEMMA SlotsApart ==
  ASSUME SenderTypeOK, NEW sb \in 0..FileLen, SendWindow(sb), NEW i \in sb..fileOff-1
  PROVE  /\ i \in Nat /\ Slot(i) \in Slots
         /\ Slot(i) # Slot(fileOff)
         /\ \A j \in sb..fileOff-1 : Slot(i) = Slot(j) => i = j
<1>1. /\ i \in Nat /\ i < fileOff + N /\ fileOff < i + N /\ i # fileOff /\ fileOff \in Nat
      /\ \A j \in sb..fileOff-1 : j \in Nat /\ i < j + N /\ j < i + N
  BY SenderNumbers, Sizes
<1> QED
  BY <1>1, SlotInjective, SlotType

\* A window that is not full has room for one more block.
LEMMA NotFull ==
  ASSUME SenderTypeOK, NEW sb \in 0..FileLen, SendWindow(sb), ~WindowFull
  PROVE  fileOff < sb + WS
<1>1. /\ sb \in Nat /\ fileOff \in Nat /\ fileOff <= sb + WS
      /\ WS \in Nat /\ WS \in 0..N
  BY SenderNumbers, Sizes
<1>2. (send_base + WS) % N # Slot(fileOff) /\ send_base = Slot(sb)
  BY DEF WindowFull, SendWindow
<1>3. (Slot(sb) + WS) % N = Slot(sb + WS)
  BY <1>1, SlotMove
<1> QED
  BY <1>1, <1>2, <1>3

\* The head of the timer list names the packet that is sent again.
LEMMA HeadPacket ==
  ASSUME SenderTypeOK, NEW sb \in 0..FileLen, SendWindow(sb), Timers(sb), phead # <<>>,
         NEW pkt, pkt = snd_buf[Head(phead) % N]
  PROVE  /\ pkt \in Packet /\ pkt.seqnum = Head(phead)
         /\ \/ ackJob = "acks" /\ \E i \in sb..fileOff-1 : IsPacketOf(pkt, i)
            \/ ackJob = "final" /\ pkt = FinalPacket
<1>1. Head(phead) \in ToSet(phead) /\ phead \in Seq(0..2*N-1)
  BY DEF ToSet, SenderTypeOK
<1>2. CASE ackJob = "acks"
  <2>1. PICK i \in sb..fileOff-1 : Head(phead) = Slot(i)
    BY <1>1, <1>2 DEF Timers
  <2>2. i \in Nat /\ Slot(i) \in Slots
    BY SlotsApart
  <2>3. Slot(i) % N = Slot(i)
    BY <2>2, SlotOfSlot
  <2>4. IsPacketOf(pkt, i)
    BY <2>1, <2>3 DEF SendWindow
  <2>5. pkt \in Packet
    BY <2>1, <2>2, <2>3, <2>4 DEF IsPacketOf, SenderTypeOK
  <2> QED
    BY <1>2, <2>1, <2>4, <2>5 DEF IsPacketOf
<1>3. CASE ackJob = "final"
  <2>1. Head(phead) = Slot(FileLen) + N
    BY <1>3 DEF Timers
  <2>2. Slot(FileLen) \in Slots /\ Head(phead) % N = Slot(FileLen)
    BY <2>1, SlotType, SlotOfSlot, Sizes
  <2>3. pkt = FinalPacket
    BY <1>3, <2>2 DEF SendWindow
  <2>4. pkt \in Packet
    BY <2>2, <2>3, Sizes DEF FinalPacket, Packet, Blocks, Slots
  <2> QED
    BY <1>3, <2>1, <2>3, <2>4 DEF FinalPacket
<1> QED
  BY <1>2, <1>3 DEF SendWindow, Timers, SenderTypeOK

\* The sender's buffer once block d is marked acknowledged.
LEMMA Marked ==
  ASSUME SenderTypeOK, NEW sb \in 0..FileLen, SendWindow(sb), NEW d \in sb..fileOff-1,
         NEW buf, buf = MarkAcked(Slot(d))
  PROVE  /\ Slot(d) \in Slots /\ Slot(fileOff) \in Slots
         /\ buf[Slot(d)] # NULL /\ buf[Slot(d)].acked /\ IsPacketOf(buf[Slot(d)], d)
         /\ snd_buf[Slot(d)] # NULL
         /\ \A p \in Slots : p # Slot(d) => buf[p] = snd_buf[p]
         /\ \A i \in sb..fileOff-1 : i # d =>
              /\ Slot(i) # Slot(d) /\ Slot(i) \in Slots /\ buf[Slot(i)] = snd_buf[Slot(i)]
         /\ buf[Slot(fileOff)] = snd_buf[Slot(fileOff)]
<1>1. sb \in Nat /\ fileOff \in Nat /\ d \in Nat /\ Slot(d) \in Slots /\ Slot(fileOff) \in Slots
  BY SenderNumbers, SlotType
<1>2. /\ buf[Slot(d)] = [snd_buf[Slot(d)] EXCEPT !.acked = TRUE]
      /\ \A p \in Slots : p # Slot(d) => buf[p] = snd_buf[p]
  BY <1>1 DEF MarkAcked, SenderTypeOK
<1>3. snd_buf[Slot(d)] \in Packet /\ IsPacketOf(snd_buf[Slot(d)], d)
  BY <1>1 DEF SendWindow, IsPacketOf, SenderTypeOK
<1>4. buf[Slot(d)] # NULL /\ buf[Slot(d)].acked /\ IsPacketOf(buf[Slot(d)], d)
  <2>1. PICK old \in Packet : old = snd_buf[Slot(d)]
    BY <1>3
  <2>2. PICK new : new = [old EXCEPT !.acked = TRUE]
    OBVIOUS
  <2>3. /\ new \in Packet /\ new.acked /\ new.data = old.data
        /\ new.seqnum = old.seqnum /\ new.finished = old.finished
    BY <2>2 DEF Packet
  <2> QED
    BY <2>1, <2>2, <2>3, <1>2, <1>3, Sizes DEF IsPacketOf
<1>5. \A i \in sb..fileOff-1 : i # d =>
        /\ Slot(i) # Slot(d) /\ Slot(i) \in Slots /\ buf[Slot(i)] = snd_buf[Slot(i)]
  BY <1>2, SlotsApart
<1>6. buf[Slot(fileOff)] = snd_buf[Slot(fileOff)]
  BY <1>1, <1>2, SlotsApart
<1> QED
  BY <1>1, <1>2, <1>3, <1>4, <1>5, <1>6 DEF IsPacketOf

\* Stopping its timer takes its slot off the list.
LEMMA TimerStopped ==
  ASSUME SenderTypeOK, NEW sb, Timers(sb), NEW e, phead' = remove_nodo(phead, e)
  PROVE  /\ \A j, k \in DOMAIN phead' : phead'[j] = phead'[k] => j = k
         /\ ToSet(phead') = ToSet(phead) \ {e}
<1>1. PICK S : S = 0..2*N-1
  OBVIOUS
<1>2. phead \in Seq(S) /\ NoDuplicate(phead)
  BY <1>1 DEF SenderTypeOK, Timers, NoDuplicate
<1>3. NoDuplicate(phead') /\ ToSet(phead') = ToSet(phead) \ {e}
  BY <1>2, RemoveOne
<1> QED
  BY <1>3 DEF NoDuplicate

-----------------------------------------------------------------------------
\* The receiver's steps leave the sender's variables alone.
LEMMA SenderUnchanged ==
  ASSUME NEW sb, SendWindow(sb), Timers(sb), UNCHANGED sndVars
  PROVE  /\ SendWindow(sb)' /\ Timers(sb)'
         /\ fileOff' = fileOff /\ ackJob' = ackJob
         /\ \A i : Acked(sb, i)' <=> Acked(sb, i)
<1>1. /\ send_base' = send_base /\ next_tosend' = next_tosend /\ snd_buf' = snd_buf
      /\ phead' = phead /\ fileOff' = fileOff /\ sendJob' = sendJob /\ ackJob' = ackJob
  BY DEF sndVars
<1>2. SendWindow(sb)'
  BY <1>1 DEF SendWindow
<1>3. Timers(sb)'
  BY <1>1 DEF Timers
<1> QED
  BY <1>1, <1>2, <1>3 DEF Acked

\* A new packet fills the next slot, starts a timer and may enter the channel.
LEMMA SendPacketKeeps ==
  ASSUME SenderTypeOK, NEW sb \in 0..FileLen, SendWindow(sb), Timers(sb), SendPacket
  PROVE  /\ SendWindow(sb)' /\ Timers(sb)'
         /\ fileOff' = fileOff + 1 /\ ackJob = "acks" /\ ackJob' = "acks" /\ ackCh' = ackCh
         /\ \A i \in 0..fileOff'-1 : Acked(sb, i)' => i \in 0..fileOff-1 /\ Acked(sb, i)
         /\ \E m \in DataMsg : /\ m.seq = Slot(fileOff) /\ m.seq < N /\ m.data = fileOff
                              /\ dataCh' \in Transmit(dataCh, m)
<1> DEFINE pkt == [data |-> fileOff, seqnum |-> next_tosend,
                   acked |-> FALSE, finished |-> FALSE]
<1>1. /\ sendJob = "run" /\ ackJob = "acks"
      /\ sendJob' = "run" /\ ackJob' = "acks"
      /\ fileOff' = fileOff + 1 /\ send_base' = send_base
      /\ next_tosend = Slot(fileOff) /\ next_tosend' = (next_tosend + 1) % N
      /\ dataCh' \in Transmit(dataCh, addSeqNum(pkt)) /\ ackCh' = ackCh
      /\ snd_buf' = [snd_buf EXCEPT ![next_tosend] = pkt]
      /\ phead' = insert_in_queue(phead, Slot(fileOff))
  BY DEF SendPacket, SendWindow
<1>3. /\ sb \in Nat /\ fileOff \in Nat
      /\ sb <= fileOff /\ fileOff <= sb + WS /\ fileOff < sb + N
      /\ WS \in Nat /\ N \in Nat /\ WS < N
  BY SenderNumbers, Sizes
<1>4. fileOff < sb + WS
  BY NotFull DEF SendPacket
<1>5. \A i \in sb..fileOff-1 : Slot(i) \in Slots /\ Slot(i) # Slot(fileOff)
  BY SlotsApart
<1>6. /\ Slot(fileOff) \in Slots
      /\ snd_buf'[Slot(fileOff)] = pkt
      /\ \A p \in Slots : p # Slot(fileOff) => snd_buf'[p] = snd_buf[p]
  BY <1>1, <1>3, SlotType DEF SenderTypeOK
<1>7. \A i \in sb..fileOff-1 : snd_buf'[Slot(i)] = snd_buf[Slot(i)]
  BY <1>5, <1>6
<1>8. pkt.data = fileOff /\ pkt.seqnum = Slot(fileOff) /\ ~pkt.finished /\ ~pkt.acked
      /\ pkt \in Packet /\ pkt # NULL
  <2>1. pkt \in Packet
    BY Sizes DEF SenderTypeOK, Packet, Slots, Blocks
  <2> QED
    BY <1>1, <2>1, Sizes
<1> HIDE DEF pkt
<1>9. SendWindow(sb)'
  <2>1. (Slot(fileOff) + 1) % N = Slot(fileOff + 1)
    BY <1>3, SlotMove, Sizes
  <2>2. next_tosend' = Slot(fileOff')
    BY <1>1, <2>1
  <2>3. send_base' = Slot(sb)
    BY <1>1 DEF SendWindow
  <2>4. \A i \in sb..fileOff'-1 : IsPacketOf(snd_buf'[Slot(i)], i)
    <3> TAKE i \in sb..fileOff'-1
    <3>1. CASE i = fileOff
      BY <3>1, <1>6, <1>8 DEF IsPacketOf
    <3>2. CASE i # fileOff
      <4>1. i \in sb..fileOff-1
        BY <3>2, <1>1, <1>3
      <4> QED
        BY <4>1, <1>7 DEF SendWindow
    <3> QED
      BY <3>1, <3>2
  <2>5. \A p \in Slots : snd_buf'[p] # NULL => \E i \in sb..fileOff'-1 : p = Slot(i)
    <3> SUFFICES ASSUME NEW p \in Slots, snd_buf'[p] # NULL
                 PROVE  \E i \in sb..fileOff'-1 : p = Slot(i)
      OBVIOUS
    <3>1. CASE p = Slot(fileOff)
      BY <3>1, <1>1, <1>3
    <3>2. CASE p # Slot(fileOff)
      <4>1. PICK i \in sb..fileOff-1 : p = Slot(i)
        BY <3>2, <1>1, <1>6 DEF SendWindow
      <4> QED
        BY <4>1, <1>1, <1>3
    <3> QED
      BY <3>1, <3>2
  <2> QED
    BY <1>1, <1>3, <1>4, <2>2, <2>3, <2>4, <2>5 DEF SendWindow
<1>10. Timers(sb)'
  <2>1. /\ phead \in Seq(0..2*N-1) /\ NoDuplicate(phead) /\ Slot(fileOff) \in 0..2*N-1
        /\ \A x \in ToSet(phead) : \E i \in sb..fileOff-1 :
             x = Slot(i) /\ ~snd_buf[Slot(i)].acked
        /\ \A i \in sb..fileOff-1 : ~snd_buf[Slot(i)].acked => Slot(i) \in ToSet(phead)
    BY <1>1, <1>3, <1>6 DEF SenderTypeOK, Timers, NoDuplicate, Slots
  <2>2. Slot(fileOff) \notin ToSet(phead)
    BY <2>1, <1>5
  <2>3. NoDuplicate(phead') /\ ToSet(phead') = ToSet(phead) \cup {Slot(fileOff)}
    <3> DEFINE S == 0..2*N-1
               e == Slot(fileOff)
    <3>1. phead \in Seq(S) /\ NoDuplicate(phead) /\ e \in S /\ e \notin ToSet(phead)
          /\ phead' = insert_in_queue(phead, e)
      BY <1>1, <2>1, <2>2
    <3> HIDE DEF S, e
    <3>2. NoDuplicate(phead') /\ ToSet(phead') = ToSet(phead) \cup {e}
      BY <3>1, InsertNew
    <3> QED
      BY <3>2 DEF e
  <2>4. ASSUME NEW x \in ToSet(phead')
        PROVE  \E i \in sb..fileOff'-1 : x = Slot(i) /\ ~snd_buf'[Slot(i)].acked
    <3>1. CASE x = Slot(fileOff)
      BY <3>1, <1>1, <1>3, <1>6, <1>8
    <3>2. CASE x # Slot(fileOff)
      <4>1. PICK i \in sb..fileOff-1 : x = Slot(i) /\ ~snd_buf[Slot(i)].acked
        BY <2>1, <2>3, <3>2
      <4>2. i \in sb..fileOff'-1 /\ x = Slot(i) /\ ~snd_buf'[Slot(i)].acked
        BY <1>1, <1>3, <1>7, <4>1
      <4> QED
        BY <4>2
    <3> QED
      BY <3>1, <3>2
  <2>5. ASSUME NEW i \in sb..fileOff'-1, ~snd_buf'[Slot(i)].acked
        PROVE  Slot(i) \in ToSet(phead')
    <3>1. CASE i = fileOff
      BY <3>1, <2>3
    <3>2. CASE i # fileOff
      <4>1. i \in sb..fileOff-1 /\ ~snd_buf[Slot(i)].acked
        BY <3>2, <2>5, <1>1, <1>3, <1>7
      <4> QED
        BY <4>1, <2>1, <2>3
    <3> QED
      BY <3>1, <3>2
  <2> QED
    BY <1>1, <2>3, <2>4, <2>5 DEF Timers, NoDuplicate
<1>11. ASSUME NEW i \in 0..fileOff'-1, i < sb \/ snd_buf'[Slot(i)].acked
       PROVE  i \in 0..fileOff-1 /\ Acked(sb, i)
  <2>1. CASE i < sb
    BY <2>1, <1>3 DEF Acked
  <2>2. CASE i >= sb
    <3>1. i # fileOff
      BY <2>2, <1>3, <1>6, <1>8, <1>11
    <3>2. i \in sb..fileOff-1
      BY <2>2, <3>1, <1>1, <1>3
    <3> QED
      BY <2>2, <3>2, <1>3, <1>7, <1>11 DEF Acked
  <2> QED
    BY <2>1, <2>2, <1>3
<1>12. \A i \in 0..fileOff'-1 : Acked(sb, i)' => i \in 0..fileOff-1 /\ Acked(sb, i)
  BY <1>11 DEF Acked
<1>13. addSeqNum(pkt) \in DataMsg /\ addSeqNum(pkt).seq = Slot(fileOff)
       /\ Slot(fileOff) < N /\ addSeqNum(pkt).data = fileOff
  <2>1. addSeqNum(pkt) \in DataMsg
    BY <1>8, AddSeqNumType
  <2> QED
    BY <2>1, <1>3, <1>6, <1>8 DEF addSeqNum, Slots
<1> QED
  BY <1>1, <1>9, <1>10, <1>12, <1>13

\* The final packet enters the buffer after the last block.
LEMMA SendEofKeeps ==
  ASSUME SenderTypeOK, NEW sb \in 0..FileLen, SendWindow(sb), Timers(sb), SendEof
  PROVE  /\ SendWindow(sb)' /\ Timers(sb)'
         /\ fileOff' = fileOff /\ ackJob' = ackJob /\ dataCh' = dataCh /\ ackCh' = ackCh
         /\ \A i \in 0..fileOff-1 : Acked(sb, i)' <=> Acked(sb, i)
<1>1. /\ sendJob = "run" /\ ackJob = "acks" /\ sendJob' = "done" /\ ackJob' = "acks"
      /\ fileOff = FileLen /\ fileOff' = fileOff /\ send_base' = send_base
      /\ next_tosend = Slot(fileOff) /\ next_tosend' = next_tosend
      /\ dataCh' = dataCh /\ ackCh' = ackCh /\ phead' = phead
      /\ snd_buf' = [snd_buf EXCEPT ![Slot(fileOff)] = FinalPacket]
      /\ ~WindowFull
  BY DEF SendEof, SendWindow, FinalPacket
<1>3. sb \in Nat /\ fileOff \in Nat /\ fileOff < sb + WS
  BY <1>1, SenderNumbers, NotFull
<1>4. /\ Slot(fileOff) \in Slots
      /\ snd_buf'[Slot(fileOff)] = FinalPacket
      /\ \A p \in Slots : p # Slot(fileOff) => snd_buf'[p] = snd_buf[p]
  BY <1>1, <1>3, SlotType DEF SenderTypeOK
<1>5. \A i \in sb..fileOff-1 : snd_buf'[Slot(i)] = snd_buf[Slot(i)]
  BY <1>4, SlotsApart
<1>6. SendWindow(sb)'
  <2>1. \A i \in sb..fileOff-1 : IsPacketOf(snd_buf'[Slot(i)], i)
    BY <1>5 DEF SendWindow
  <2>2. \A p \in Slots : snd_buf'[p] # NULL =>
           (\E i \in sb..fileOff-1 : p = Slot(i)) \/ p = Slot(fileOff)
    BY <1>1, <1>4 DEF SendWindow
  <2> QED
    BY <2>1, <2>2, <1>1, <1>3, <1>4 DEF SendWindow, FinalPacket
<1>7. Timers(sb)'
  BY <1>1, <1>5 DEF Timers
<1>8. \A i \in 0..fileOff-1 : Acked(sb, i)' <=> Acked(sb, i)
  BY <1>1, <1>3, <1>5 DEF Acked
<1> QED
  BY <1>1, <1>6, <1>7, <1>8

\* What is sent again: a block of the window, or the final packet at the end.
SentAgain(sb, m) ==
  \/ \E i \in sb..fileOff-1 : m.seq = Slot(i) /\ m.seq < N /\ m.data = i
  \/ ackJob = "final" /\ m = addSeqNum(FinalPacket) /\ m.seq >= N

\* The final packet travels under a number of its own.
LEMMA FinalMsg ==
  /\ FinalPacket \in Packet
  /\ addSeqNum(FinalPacket) \in DataMsg /\ addSeqNum(FinalPacket).seq >= N
<1>1. Slot(FileLen) \in Slots
  BY SlotType, Sizes
<1>2. FinalPacket \in Packet
  BY <1>1, Sizes DEF FinalPacket, Packet, Blocks, Slots
<1>3. addSeqNum(FinalPacket).seq >= N
  BY <1>1, Sizes DEF addSeqNum, FinalPacket, Slots
<1> QED
  BY <1>2, <1>3, AddSeqNumType

\* The packet of the oldest timer may enter the channel again.
LEMMA TimeoutExpiredKeeps ==
  ASSUME SenderTypeOK, NEW sb \in 0..FileLen, SendWindow(sb), Timers(sb), TimeoutExpired
  PROVE  /\ SendWindow(sb)' /\ Timers(sb)'
         /\ fileOff' = fileOff /\ ackJob' = ackJob /\ ackCh' = ackCh
         /\ \A i : Acked(sb, i)' <=> Acked(sb, i)
         /\ \E m \in DataMsg : SentAgain(sb, m) /\ dataCh' \in Transmit(dataCh, m)
<1>1. PICK pkt : pkt = snd_buf[Head(phead) % N]
  OBVIOUS
<1>2. /\ phead # <<>> /\ dataCh' \in Transmit(dataCh, addSeqNum(pkt))
      /\ phead' = insert_in_queue(delete_node_in_head(phead), pkt.seqnum)
      /\ send_base' = send_base /\ next_tosend' = next_tosend /\ snd_buf' = snd_buf
      /\ fileOff' = fileOff /\ sendJob' = sendJob /\ ackJob' = ackJob /\ ackCh' = ackCh
  BY <1>1 DEF TimeoutExpired
<1>3. /\ pkt \in Packet /\ pkt.seqnum = Head(phead)
      /\ \/ ackJob = "acks" /\ \E i \in sb..fileOff-1 : IsPacketOf(pkt, i)
         \/ ackJob = "final" /\ pkt = FinalPacket
  BY <1>1, <1>2, HeadPacket
<1>5. SendWindow(sb)'
  BY <1>2 DEF SendWindow
<1>6. Timers(sb)'
  <2>1. phead \in Seq(0..2*N-1) /\ NoDuplicate(phead)
    BY DEF SenderTypeOK, Timers, NoDuplicate
  <2>2. phead' = insert_in_queue(delete_node_in_head(phead), Head(phead))
    BY <1>2, <1>3
  <2>3. NoDuplicate(phead') /\ ToSet(phead') = ToSet(phead)
    <3> DEFINE S == 0..2*N-1
    <3>1. phead \in Seq(S)
      BY <2>1
    <3> HIDE DEF S
    <3> QED
      BY <3>1, <2>1, <2>2, <1>2, Requeue
  <2>4. ackJob = "final" => phead' = phead
    <3>1. PICK x : x = Slot(FileLen) + N
      OBVIOUS
    <3>2. ackJob = "final" => phead = <<x>>
      BY <3>1 DEF Timers
    <3>3. <<x>> # <<>> /\ Tail(<<x>>) = <<>> /\ Head(<<x>>) = x /\ Append(<<>>, x) = <<x>>
      OBVIOUS
    <3>4. ackJob = "final" => phead' = Append(Tail(<<x>>), Head(<<x>>))
      BY <2>2, <3>2, <3>3 DEF insert_in_queue, delete_node_in_head
    <3> QED
      BY <3>2, <3>3, <3>4
  <2>5. ackJob # "done"
    BY <1>3
  <2> QED
    BY <2>3, <2>4, <2>5, <1>2 DEF Timers, NoDuplicate
<1>7. \A i : Acked(sb, i)' <=> Acked(sb, i)
  BY <1>2 DEF Acked
<1>8. addSeqNum(pkt) \in DataMsg /\ SentAgain(sb, addSeqNum(pkt))
  <2>1. addSeqNum(pkt) \in DataMsg
    BY <1>3, AddSeqNumType
  <2>2. CASE ackJob = "final" /\ pkt = FinalPacket
    BY <2>1, <2>2, FinalMsg DEF SentAgain
  <2>3. CASE \E i \in sb..fileOff-1 : IsPacketOf(pkt, i)
    <3>1. PICK i \in sb..fileOff-1 : IsPacketOf(pkt, i)
      BY <2>3
    <3>2. Slot(i) \in Slots
      BY SlotsApart
    <3>3. addSeqNum(pkt).seq = Slot(i) /\ addSeqNum(pkt).data = i /\ Slot(i) < N
      BY <3>1, <3>2, Sizes DEF addSeqNum, IsPacketOf, Slots
    <3> QED
      BY <2>1, <3>3 DEF SentAgain
  <2> QED
    BY <2>2, <2>3, <1>3
<1> QED
  BY <1>2, <1>5, <1>6, <1>7, <1>8

\* The window is empty, and the final packet goes out.
LEMMA StartFinalKeeps ==
  ASSUME SenderTypeOK, NEW sb \in 0..FileLen, SendWindow(sb), Timers(sb), StartFinal
  PROVE  /\ SendWindow(sb)' /\ Timers(sb)'
         /\ fileOff' = fileOff /\ ackJob = "acks" /\ ackJob' = "final" /\ ackCh' = ackCh
         /\ \A i : Acked(sb, i)' <=> Acked(sb, i)
         /\ dataCh' \in Transmit(dataCh, addSeqNum(FinalPacket))
<1>1. PICK pkt : pkt = snd_buf[send_base]
  OBVIOUS
<1>2. /\ ackJob = "acks" /\ ackJob' = "final" /\ pkt # NULL /\ pkt.finished
      /\ dataCh' \in Transmit(dataCh, addSeqNum(pkt))
      /\ phead' = insert_in_queue(phead, pkt.seqnum)
      /\ send_base' = send_base /\ next_tosend' = next_tosend /\ snd_buf' = snd_buf
      /\ fileOff' = fileOff /\ sendJob' = sendJob /\ ackCh' = ackCh
  BY <1>1 DEF StartFinal
<1>4. /\ sb \in Nat /\ fileOff \in Nat /\ sb <= fileOff /\ fileOff < sb + N
      /\ Slot(sb) \in Slots /\ send_base = Slot(sb)
  BY SenderNumbers, SlotType DEF SendWindow
<1>5. sendJob = "done" /\ sb = fileOff /\ fileOff = FileLen /\ pkt = FinalPacket
  <2>1. \A i \in sb..fileOff-1 : Slot(sb) # Slot(i)
    BY <1>1, <1>2, <1>4 DEF SendWindow, IsPacketOf
  <2>2. sendJob = "done" /\ Slot(sb) = Slot(fileOff)
    BY <2>1, <1>1, <1>2, <1>4 DEF SendWindow
  <2>3. sb = fileOff
    BY <2>2, <1>4, SlotInjective, Sizes
  <2> QED
    BY <2>2, <2>3, <1>1, <1>2, <1>4 DEF SendWindow
<1>6. SendWindow(sb)'
  BY <1>2, <1>5 DEF SendWindow
<1>7. Timers(sb)'
  <2>1. phead = <<>>
    <3>1. ToSet(phead) = {}
      <4>1. sb..fileOff-1 = {}
        BY <1>4, <1>5
      <4> QED
        BY <4>1, <1>2 DEF Timers
    <3>2. phead \in Seq(0..2*N-1)
      BY DEF SenderTypeOK
    <3>3. phead # <<>> => phead[1] \in ToSet(phead)
      BY <3>2 DEF ToSet
    <3> QED
      BY <3>1, <3>3
  <2>2. phead' = <<Slot(FileLen) + N>>
    BY <2>1, <1>2, <1>5 DEF insert_in_queue, FinalPacket
  <2>3. \A j, k \in DOMAIN phead' : phead'[j] = phead'[k] => j = k
    BY <2>2
  <2> QED
    BY <2>2, <2>3, <1>2 DEF Timers
<1>8. \A i : Acked(sb, i)' <=> Acked(sb, i)
  BY <1>2 DEF Acked
<1> QED
  BY <1>2, <1>5, <1>6, <1>7, <1>8

\* A final ACK empties the buffer and the list of timers.
LEMMA ReadFinalAckKeeps ==
  ASSUME SenderTypeOK, NEW sb \in 0..FileLen, SendWindow(sb), Timers(sb), ReadFinalAck
  PROVE  /\ SendWindow(sb)' /\ Timers(sb)'
         /\ fileOff' = fileOff /\ ackJob' # "acks"
         /\ ackCh # <<>> /\ ackCh' = Tail(ackCh) /\ dataCh' = dataCh
         /\ \A i \in 0..fileOff-1 : Acked(sb, i)' => Acked(sb, i)
<1>1. PICK a : a = Head(ackCh)
  OBVIOUS
<1>2. /\ ackJob = "final" /\ ackCh # <<>> /\ ackCh' = Tail(ackCh) /\ dataCh' = dataCh
      /\ send_base' = send_base /\ next_tosend' = next_tosend
      /\ fileOff' = fileOff /\ sendJob' = sendJob
  BY DEF ReadFinalAck
<1>3. CASE UNCHANGED <<phead, snd_buf, ackJob>>
  <2>1. UNCHANGED sndVars
    BY <1>2, <1>3 DEF sndVars
  <2> QED
    BY <2>1, <1>2, <1>3, SenderUnchanged
<1>4. CASE /\ phead' = delete_node_in_head(phead)
           /\ snd_buf' = [snd_buf EXCEPT ![send_base] = NULL]
           /\ ackJob' = "done"
  <2>2. /\ sendJob = "done" /\ fileOff = FileLen /\ sb = FileLen /\ sb \in Nat
        /\ send_base = Slot(sb) /\ Slot(sb) \in Slots
    BY <1>2, SenderNumbers, SlotType DEF SendWindow
  <2>4. \A p \in Slots : snd_buf'[p] = NULL
    <3>1. \A p \in Slots : p # Slot(sb) => snd_buf[p] = NULL
      BY <2>2 DEF SendWindow
    <3> QED
      BY <3>1, <2>2, <1>4 DEF SenderTypeOK
  <2>5. SendWindow(sb)'
    BY <2>2, <2>4, <1>2, <1>4 DEF SendWindow
  <2>6. Timers(sb)'
    <3>1. PICK x : x = Slot(FileLen) + N
      OBVIOUS
    <3>2. phead = <<x>>
      BY <3>1, <1>2 DEF Timers
    <3>3. phead' = <<>>
      BY <3>2, <1>4 DEF delete_node_in_head
    <3>4. \A j, k \in DOMAIN phead' : phead'[j] = phead'[k] => j = k
      BY <3>3
    <3> QED
      BY <3>3, <3>4, <1>4 DEF Timers
  <2>8. \A i \in 0..fileOff-1 : Acked(sb, i)' => Acked(sb, i)
    BY <2>2 DEF Acked
  <2> QED
    BY <2>5, <2>6, <2>8, <1>2, <1>4
<1> QED
  BY <1>1, <1>3, <1>4 DEF ReadFinalAck

-----------------------------------------------------------------------------
\* An ACK that lags less than a window behind what was acknowledged: the window
\* test tells whether its block is freed, and finds that block if it is not.
LEMMA AckInWindow ==
  ASSUME SenderTypeOK, NEW sb \in 0..FileLen, SendWindow(sb),
         NEW a, a.seq \in Slots, a.blk \in 0..fileOff-1, a.seq = Slot(a.blk),
         \A i \in 0..fileOff-1 : Acked(sb, i) => i < a.blk + WS
  PROVE  /\ InSendWindow(a.seq, send_base) <=> a.blk >= sb
         /\ InSendWindow(a.seq, send_base) =>
              a.seq < N /\ snd_buf[a.seq] # NULL /\ snd_buf[a.seq].data = a.blk
<1>2. /\ sb \in Nat /\ fileOff \in Nat /\ a.blk \in Nat /\ sb <= fileOff /\ fileOff <= sb + WS
      /\ WS \in Nat /\ N \in Nat /\ WS + WS <= N
  BY SenderNumbers, Sizes
<1>3. a.blk < sb + WS
  BY <1>2
<1>4. sb <= a.blk + (N - WS)
  <2>1. CASE sb = 0
    BY <2>1, <1>2
  <2>2. CASE sb > 0
    <3>1. sb - 1 \in 0..fileOff-1 /\ Acked(sb, sb - 1)
      BY <2>2, <1>2 DEF Acked
    <3>2. sb - 1 < a.blk + WS
      BY <3>1
    <3> QED
      BY <3>2, <1>2
  <2> QED
    BY <2>1, <2>2, <1>2
<1>5. InSendWindow(Slot(a.blk), Slot(sb)) <=> a.blk >= sb
  BY <1>2, <1>3, <1>4, SndWindowTest
<1>6. InSendWindow(a.seq, send_base) <=> a.blk >= sb
  BY <1>5 DEF SendWindow
<1>7. ASSUME a.blk >= sb
      PROVE  snd_buf[a.seq] # NULL /\ snd_buf[a.seq].data = a.blk
  <2>1. a.blk \in sb..fileOff-1
    BY <1>2, <1>7
  <2> QED
    BY <2>1 DEF SendWindow, IsPacketOf
<1> QED
  BY <1>6, <1>7, Sizes DEF Slots

\* Acknowledging a block that is not the oldest: the window stays.
LEMMA AckAhead ==
  ASSUME SenderTypeOK, NEW sb \in 0..FileLen, SendWindow(sb), Timers(sb), ackJob = "acks",
         NEW d \in sb..fileOff-1,
         NEW buf, buf = MarkAcked(Slot(d)), snd_buf' = buf,
         phead' = remove_nodo(phead, Slot(d)),
         UNCHANGED <<send_base, next_tosend, fileOff, sendJob, ackJob>>
  PROVE  /\ SendWindow(sb)' /\ Timers(sb)'
         /\ \A i \in 0..fileOff-1 : Acked(sb, i)' => Acked(sb, i) \/ i = d
<1>1. sb \in Nat /\ fileOff \in Nat
  BY SenderNumbers
<1>2. /\ buf[Slot(d)].acked /\ IsPacketOf(buf[Slot(d)], d) /\ snd_buf[Slot(d)] # NULL
      /\ \A p \in Slots : p # Slot(d) => buf[p] = snd_buf[p]
      /\ \A i \in sb..fileOff-1 : i # d => Slot(i) # Slot(d) /\ buf[Slot(i)] = snd_buf[Slot(i)]
      /\ buf[Slot(fileOff)] = snd_buf[Slot(fileOff)]
  BY Marked
<1>3. SendWindow(sb)'
  <2>1. \A i \in sb..fileOff-1 : IsPacketOf(buf[Slot(i)], i)
    BY <1>2 DEF SendWindow
  <2>2. ASSUME NEW p \in Slots, buf[p] # NULL
        PROVE  \/ \E i \in sb..fileOff-1 : p = Slot(i)
               \/ sendJob = "done" /\ ackJob # "done" /\ p = Slot(fileOff)
    BY <2>2, <1>2 DEF SendWindow
  <2> QED
    BY <2>1, <2>2, <1>2 DEF SendWindow
<1>4. Timers(sb)'
  <2>1. /\ \A j, k \in DOMAIN phead' : phead'[j] = phead'[k] => j = k
        /\ ToSet(phead') = ToSet(phead) \ {Slot(d)}
    BY TimerStopped
  <2>2. ASSUME NEW x \in ToSet(phead')
        PROVE  \E i \in sb..fileOff-1 : x = Slot(i) /\ ~buf[Slot(i)].acked
    <3>1. x \in ToSet(phead) /\ x # Slot(d)
      BY <2>1, <2>2
    <3>2. PICK i \in sb..fileOff-1 : x = Slot(i) /\ ~snd_buf[Slot(i)].acked
      BY <3>1 DEF Timers
    <3> QED
      BY <3>1, <3>2, <1>2
  <2>3. ASSUME NEW i \in sb..fileOff-1, ~buf[Slot(i)].acked
        PROVE  Slot(i) \in ToSet(phead')
    <3>1. i # d
      BY <2>3, <1>2
    <3>2. Slot(i) \in ToSet(phead)
      BY <2>3, <3>1, <1>2 DEF Timers
    <3> QED
      BY <3>1, <3>2, <2>1, <1>2
  <2> QED
    BY <2>1, <2>2, <2>3 DEF Timers
<1>6. \A i \in 0..fileOff-1 : Acked(sb, i)' => Acked(sb, i) \/ i = d
  BY <1>1, <1>2 DEF Acked
<1> QED
  BY <1>3, <1>4, <1>6

\* Acknowledging the oldest block frees the run of acknowledged blocks it
\* heads, and no place of any other.
LEMMA AckOldest ==
  ASSUME SenderTypeOK, NEW sb \in 0..FileLen, SendWindow(sb), Timers(sb), ackJob = "acks",
         sb < fileOff,
         NEW buf, buf = MarkAcked(Slot(sb)), FreeAcked(buf),
         phead' = remove_nodo(phead, Slot(sb)),
         UNCHANGED <<next_tosend, fileOff, sendJob, ackJob>>
  PROVE  \E sb2 \in 0..FileLen :
           /\ SendWindow(sb2)' /\ Timers(sb2)'
           /\ \A i \in 0..fileOff-1 : Acked(sb2, i)' => Acked(sb, i) \/ i = sb
<1>1. PICK k \in 1..N :
        /\ AckedRun(buf, send_base, k)
        /\ snd_buf' = FreeRun(buf, send_base, k)
        /\ send_base' = (send_base + k) % N
  BY DEF FreeAcked
<1>2. /\ sb \in Nat /\ fileOff \in Nat /\ fileOff <= sb + WS
      /\ fileOff <= FileLen /\ FileLen \in Nat
      /\ k \in Nat /\ k >= 1 /\ k <= N /\ N \in Nat /\ WS \in Nat /\ WS < N
      /\ sb \in sb..fileOff-1
  BY SenderNumbers, Sizes
<1>3. /\ buf[Slot(sb)].acked /\ snd_buf[Slot(sb)] # NULL /\ buf[Slot(sb)] # NULL
      /\ \A p \in Slots : p # Slot(sb) => buf[p] = snd_buf[p]
      /\ \A i \in sb..fileOff-1 : i # sb => Slot(i) # Slot(sb) /\ buf[Slot(i)] = snd_buf[Slot(i)]
      /\ buf[Slot(fileOff)] = snd_buf[Slot(fileOff)]
  BY <1>2, Marked
<1>4. send_base = Slot(sb) /\ \A j \in 0..N : (send_base + j) % N = Slot(sb + j)
  BY <1>2, SlotMove DEF SendWindow
<1>5. \A j \in 0..k-1 : buf[Slot(sb + j)] # NULL /\ buf[Slot(sb + j)].acked
  <2>1. \A j \in 0..k-1 : buf[(send_base + j) % N] # NULL /\ buf[(send_base + j) % N].acked
    BY <1>1 DEF AckedRun
  <2>2. \A j \in 0..k-1 : (send_base + j) % N = Slot(sb + j)
    BY <1>2, <1>4
  <2> QED
    BY <2>1, <2>2
<1>6. ASSUME NEW j \in 0..k-1
      PROVE  sb + j < fileOff /\ Slot(sb + j) \in Slots
  <2>1. sb + j \in Nat /\ Slot(sb + j) \in Slots /\ sb <= sb + j /\ sb + j < sb + N
    BY <1>2, SlotType
  <2>2. snd_buf[Slot(sb + j)] # NULL
    BY <1>3, <1>5, <2>1
  <2>3. CASE \E i \in sb..fileOff-1 : Slot(sb + j) = Slot(i)
    <3>1. PICK i \in sb..fileOff-1 : Slot(sb + j) = Slot(i)
      BY <2>3
    <3>2. i \in Nat /\ i < (sb + j) + N /\ sb + j < i + N
      BY <2>1, <1>2
    <3>3. sb + j = i
      BY <3>1, <3>2, <2>1, SlotInjective
    <3> QED
      BY <3>3, <2>1, <1>2
  <2>4. CASE sendJob = "done" /\ ackJob # "done" /\ Slot(sb + j) = Slot(fileOff)
    <3>1. buf[Slot(fileOff)] = FinalPacket
      BY <2>4, <1>3 DEF SendWindow
    <3>2. ~ FinalPacket.acked
      BY DEF FinalPacket
    <3> QED
      BY <3>1, <3>2, <2>4, <1>5
  <2> QED
    BY <2>1, <2>2, <2>3, <2>4 DEF SendWindow
<1>7. sb + k <= fileOff
  <2>1. k - 1 \in 0..k-1
    BY <1>2
  <2>2. sb + (k - 1) < fileOff
    BY <2>1, <1>6
  <2> QED
    BY <2>2, <1>2
<1>8. ASSUME NEW i \in sb..sb+k-1
      PROVE  /\ i \in sb..fileOff-1 /\ buf[Slot(i)].acked
             /\ snd_buf'[Slot(i)] = NULL
  <2>1. i - sb \in 0..k-1 /\ sb + (i - sb) = i /\ i \in sb..fileOff-1
    BY <1>2, <1>7
  <2>2. buf[Slot(i)].acked /\ Slot(i) \in Slots
    BY <2>1, <1>5, <1>6
  <2>4. Slot(i) = (send_base + (i - sb)) % N
    BY <2>1, <1>2, <1>4
  <2>5. snd_buf'[Slot(i)] = NULL
    BY <2>1, <2>2, <2>4, <1>1 DEF FreeRun
  <2> QED
    BY <2>1, <2>2, <2>5
<1>9. ASSUME NEW p \in Slots, \A i \in sb..sb+k-1 : p # Slot(i)
      PROVE  snd_buf'[p] = buf[p]
  <2>1. ASSUME NEW j \in 0..k-1 PROVE p # (send_base + j) % N
    <3>1. sb + j \in sb..sb+k-1 /\ (send_base + j) % N = Slot(sb + j)
      BY <1>2, <1>4
    <3> QED
      BY <3>1, <1>9
  <2> QED
    BY <2>1, <1>1 DEF FreeRun
<1>10. \A i \in sb+k..fileOff-1 :
         i \in sb..fileOff-1 /\ i # sb /\ snd_buf'[Slot(i)] = snd_buf[Slot(i)]
  <2> SUFFICES ASSUME NEW i \in sb+k..fileOff-1
               PROVE  i \in sb..fileOff-1 /\ i # sb /\ snd_buf'[Slot(i)] = snd_buf[Slot(i)]
    OBVIOUS
  <2>1. i \in sb..fileOff-1 /\ i # sb /\ \A j \in sb..sb+k-1 : i # j /\ j \in sb..fileOff-1
    BY <1>2, <1>7
  <2>2. Slot(i) \in Slots /\ \A j \in sb..sb+k-1 : Slot(i) # Slot(j)
    BY <2>1, SlotsApart
  <2> QED
    BY <2>1, <2>2, <1>3, <1>9
<1>11. snd_buf'[Slot(fileOff)] = snd_buf[Slot(fileOff)]
  <2>1. Slot(fileOff) \in Slots /\ \A j \in sb..sb+k-1 : Slot(fileOff) # Slot(j)
    BY <1>2, <1>8, SlotsApart, SlotType
  <2> QED
    BY <2>1, <1>3, <1>9
<1>12. SendWindow(sb + k)'
  <2>1. send_base' = Slot(sb + k)
    BY <1>1, <1>2, <1>4
  <2>2. \A i \in sb+k..fileOff-1 : IsPacketOf(snd_buf'[Slot(i)], i)
    BY <1>10 DEF SendWindow
  <2>3. ASSUME NEW p \in Slots, snd_buf'[p] # NULL
        PROVE  \/ \E i \in sb+k..fileOff-1 : p = Slot(i)
               \/ sendJob = "done" /\ ackJob # "done" /\ p = Slot(fileOff)
    <3>1. \A i \in sb..sb+k-1 : p # Slot(i)
      BY <2>3, <1>8
    <3>2. buf[p] # NULL
      BY <2>3, <3>1, <1>9
    <3>3. snd_buf[p] # NULL
      BY <3>2, <1>3
    <3>4. CASE \E i \in sb..fileOff-1 : p = Slot(i)
      <4>1. PICK i \in sb..fileOff-1 : p = Slot(i)
        BY <3>4
      <4>2. i \in sb+k..fileOff-1
        BY <3>1, <4>1, <1>2
      <4> QED
        BY <4>1, <4>2
    <3> QED
      BY <3>3, <3>4 DEF SendWindow
  <2>4. sb + k <= fileOff /\ fileOff <= (sb + k) + WS
        /\ (fileOff < sb + WS => fileOff < (sb + k) + WS)
    BY <1>2, <1>7
  <2> QED
    BY <2>1, <2>2, <2>3, <2>4, <1>11 DEF SendWindow
<1>13. Timers(sb + k)'
  <2>1. /\ \A j, l \in DOMAIN phead' : phead'[j] = phead'[l] => j = l
        /\ ToSet(phead') = ToSet(phead) \ {Slot(sb)}
    BY TimerStopped
  <2>2. ASSUME NEW x \in ToSet(phead')
        PROVE  \E i \in sb+k..fileOff-1 : x = Slot(i) /\ ~snd_buf'[Slot(i)].acked
    <3>1. x \in ToSet(phead) /\ x # Slot(sb)
      BY <2>1, <2>2
    <3>2. PICK i \in sb..fileOff-1 : x = Slot(i) /\ ~snd_buf[Slot(i)].acked
      BY <3>1 DEF Timers
    <3>3. i # sb /\ ~buf[Slot(i)].acked
      BY <3>1, <3>2, <1>3
    <3>4. i \in sb+k..fileOff-1
      BY <3>2, <3>3, <1>2, <1>8
    <3> QED
      BY <3>2, <3>4, <1>10
  <2>3. ASSUME NEW i \in sb+k..fileOff-1, ~snd_buf'[Slot(i)].acked
        PROVE  Slot(i) \in ToSet(phead')
    <3>1. i \in sb..fileOff-1 /\ i # sb /\ ~snd_buf[Slot(i)].acked
      BY <2>3, <1>10
    <3>2. Slot(i) \in ToSet(phead) /\ Slot(i) # Slot(sb)
      BY <3>1, <1>3 DEF Timers
    <3> QED
      BY <3>2, <2>1
  <2> QED
    BY <2>1, <2>2, <2>3 DEF Timers
<1>15. ASSUME NEW i \in 0..fileOff-1, i < sb + k \/ snd_buf'[Slot(i)].acked
       PROVE  Acked(sb, i) \/ i = sb
  <2>1. CASE i < sb
    BY <2>1 DEF Acked
  <2>2. CASE i >= sb /\ i < sb + k
    <3>1. i \in sb..sb+k-1
      BY <2>2, <1>2
    <3>2. i \in sb..fileOff-1 /\ buf[Slot(i)].acked
      BY <3>1, <1>8
    <3> QED
      BY <3>2, <1>2, <1>3 DEF Acked
  <2>3. CASE i >= sb + k
    <3>1. i \in sb+k..fileOff-1
      BY <2>3, <1>2
    <3> QED
      BY <3>1, <2>3, <1>2, <1>10, <1>15 DEF Acked
  <2> QED
    BY <2>1, <2>2, <2>3, <1>2
<1>16. \A i \in 0..fileOff-1 : Acked(sb + k, i)' => Acked(sb, i) \/ i = sb
  BY <1>15 DEF Acked
<1>17. sb + k \in 0..FileLen
  BY <1>2, <1>7
<1> QED
  BY <1>12, <1>13, <1>16, <1>17

\* The one action that moves the sender's window: to sb2, for some sb2.
LEMMA AcceptAckKeeps ==
  ASSUME SenderTypeOK, NEW sb \in 0..FileLen, SendWindow(sb), Timers(sb), AcceptAck,
         NEW d \in sb..fileOff-1, Head(ackCh).seq = Slot(d)
  PROVE  \E sb2 \in 0..FileLen :
           /\ SendWindow(sb2)' /\ Timers(sb2)'
           /\ \A i \in 0..fileOff-1 : Acked(sb2, i)' => Acked(sb, i) \/ i = d
<1>1. PICK buf : buf = MarkAcked(Slot(d))
  OBVIOUS
<1>2. /\ ackJob = "acks" /\ phead' = remove_nodo(phead, Slot(d))
      /\ UNCHANGED <<next_tosend, fileOff, sendJob, ackJob>>
      /\ \/ Slot(d) # send_base /\ snd_buf' = buf /\ send_base' = send_base
         \/ Slot(d) = send_base /\ FreeAcked(buf)
  BY <1>1 DEF AcceptAck, AwaitsAcks
<1>3. CASE snd_buf' = buf /\ send_base' = send_base
  <2>1. /\ SendWindow(sb)' /\ Timers(sb)'
        /\ \A i \in 0..fileOff-1 : Acked(sb, i)' => Acked(sb, i) \/ i = d
    BY <1>1, <1>2, <1>3, AckAhead
  <2> QED
    BY <2>1
<1>4. CASE Slot(d) = send_base /\ FreeAcked(buf)
  <2>1. /\ d \in Nat /\ sb \in Nat /\ d < sb + N /\ sb < d + N /\ sb <= d /\ d < fileOff
        /\ send_base = Slot(sb)
    <3>1. sb \in Nat /\ fileOff \in Nat /\ fileOff < sb + N /\ N \in Nat /\ N > 0
      BY SenderNumbers, Sizes
    <3> QED
      BY <3>1 DEF SendWindow
  <2>2. d = sb
    BY <2>1, <1>4, SlotInjective
  <2>3. sb < fileOff /\ buf = MarkAcked(Slot(sb)) /\ phead' = remove_nodo(phead, Slot(sb))
    BY <2>1, <2>2, <1>1, <1>2
  <2> QED
    BY <2>2, <2>3, <1>2, <1>4, AckOldest
<1> QED
  BY <1>2, <1>3, <1>4

-----------------------------------------------------------------------------
\* Timers, said of the list as a set.
LEMMA TimersMatch ==
  ASSUME SenderTypeOK, NEW sb \in 0..FileLen, SendWindow(sb), Timers(sb)
  PROVE  TimersMatchWindow
<1>2. \A j, k \in DOMAIN phead : phead[j] = phead[k] => j = k
  BY DEF Timers
<1>3. CASE ackJob = "acks"
  <2> DEFINE W == {p \in Slots : snd_buf[p] # NULL /\ ~snd_buf[p].acked /\ ~snd_buf[p].finished}
  <2>1. ASSUME NEW x \in ToSet(phead) PROVE \E p \in W : x = snd_buf[p].seqnum
    <3>1. PICK i \in sb..fileOff-1 : x = Slot(i) /\ ~snd_buf[Slot(i)].acked
      BY <1>3 DEF Timers
    <3>2. Slot(i) \in Slots
      BY SlotsApart
    <3> QED
      BY <3>1, <3>2 DEF SendWindow, IsPacketOf
  <2>2. ASSUME NEW p \in W PROVE snd_buf[p].seqnum \in ToSet(phead)
    <3>1. FinalPacket.finished
      BY DEF FinalPacket
    <3>2. PICK i \in sb..fileOff-1 : p = Slot(i)
      BY <2>2, <3>1 DEF SendWindow
    <3> QED
      BY <1>3, <2>2, <3>2 DEF SendWindow, IsPacketOf, Timers
  <2>3. ToSet(phead) = {snd_buf[p].seqnum : p \in W}
    BY <2>1, <2>2
  <2> QED
    BY <1>2, <1>3, <2>3 DEF TimersMatchWindow
<1>4. CASE ackJob = "final"
  <2>1. snd_buf[send_base].seqnum = Slot(FileLen) + N
    <3>1. FinalPacket.seqnum = Slot(FileLen) + N
      BY DEF FinalPacket
    <3> QED
      BY <1>4, <3>1 DEF SendWindow
  <2>2. PICK x : x = Slot(FileLen) + N
    OBVIOUS
  <2>3. phead = <<x>>
    BY <1>4, <2>2 DEF Timers
  <2>4. ToSet(phead) = {x}
    BY <2>3 DEF ToSet
  <2> QED
    BY <1>2, <1>4, <2>1, <2>2, <2>4 DEF TimersMatchWindow
<1>5. CASE ackJob = "done"
  <2>1. ToSet(phead) = {}
    BY <1>5 DEF Timers, ToSet
  <2> QED
    BY <1>2, <1>5, <2>1 DEF TimersMatchWindow
<1> QED
  BY <1>3, <1>4, <1>5 DEF SenderTypeOK, SendWindow

\* Nothing is sent yet: the window starts and ends at block 0.
LEMMA SenderInitWindow ==
  ASSUME SenderInit
  PROVE  SendWindow(0) /\ Timers(0)
<1>1. /\ send_base = 0 /\ next_tosend = 0 /\ snd_buf = [p \in Slots |-> NULL]
      /\ phead = <<>> /\ fileOff = 0 /\ sendJob = "run" /\ ackJob = "acks"
  BY DEF SenderInit
<1>2. SendWindow(0)
  BY <1>1, SlotZero, Sizes DEF SendWindow
<1>3. ToSet(phead) = {} /\ \A j, k \in DOMAIN phead : phead[j] = phead[k] => j = k
  BY <1>1 DEF ToSet
<1> QED
  BY <1>1, <1>2, <1>3 DEF Timers
=============================================================================
