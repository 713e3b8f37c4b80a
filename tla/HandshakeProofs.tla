-------------------------- MODULE HandshakeProofs --------------------------
(***************************************************************************)
(* Proofs about the handshake, for any number of clients and any timeouts. *)
(* The argument is that of a token: each client has at most one datagram   *)
(* on its way, in one direction, and which one it is tells how far the     *)
(* exchange has come.                                                      *)
(***************************************************************************)
EXTENDS Handshake, SequenceTheorems, TLAPS

\* The server is in the exchange with c, or ended in it.
Exchange(c) == srv \in {"snd", "down"} /\ peer = c /\ port[c] # NoPort

\* What a datagram to the server says about its sender.
Arriving(d) ==
  /\ inbox[d.from] = <<>>
  /\ d.kind = "hello" => cl[d.from] # "new" /\ port[d.from] = NoPort
  /\ d.kind = "ACK" => Exchange(d.from) /\ got[d.from] = port[d.from] /\ ~fin[d.from]
  /\ d.kind = "FINACK" => Exchange(d.from) /\ fin[d.from]

OneEach == \A j, k \in DOMAIN srvIn : srvIn[j].from = srvIn[k].from => j = k
Arrivals == \A j \in DOMAIN srvIn : Arriving(srvIn[j])

\* What a datagram to client c says about it.
Delivery(c) ==
  inbox[c] # <<>> =>
    /\ Len(inbox[c]) = 1 /\ Exchange(c) /\ ~fin[c]
    /\ IF Head(inbox[c]).kind = "FIN" THEN got[c] = port[c] ELSE Head(inbox[c]).port = port[c]

\* How far client c has come.
Progress(c) ==
  /\ port[c] = NoPort => got[c] = NoPort
  /\ fin[c] => port[c] # NoPort /\ got[c] = port[c]
  /\ cl[c] = "new" => port[c] = NoPort
  /\ cl[c] = "crashed" => ~fin[c]
  /\ cl[c] \in {"linked", "ready"} => fin[c]
  /\ c \in served => cl[c] # "left"
  /\ c \in served \/ cl[c] = "left" => fin[c] /\ (srv \in {"snd", "linger"} => peer # c)

\* The ports given so far are below the next one.
Bounded(c) ==
  port[c] # NoPort =>
    \/ port[c] < PORT + numero_client_for_port
    \/ srv # "hello" /\ peer = c /\ port[c] = PORT + numero_client_for_port

Serving ==
  /\ srv = "snd" => port[peer] # NoPort
  /\ srv = "linger" => fin[peer]

HInv ==
  /\ TypeOK /\ OneEach /\ Arrivals /\ Serving
  /\ \A c \in Clients : Delivery(c) /\ Progress(c) /\ Bounded(c)

Datagram == [from: Clients, kind: Kinds]
Message == [kind: {"port", "FIN"}, port: Nat \cup {NoPort}]

-----------------------------------------------------------------------------
\* The queue of the server after a datagram was sent to it.
LEMMA AfterSend ==
  ASSUME srvIn \in Seq(Datagram), NEW c \in Clients, NEW k \in Kinds, NEW ok \in BOOLEAN,
         ToServer(c, k, ok)
  PROVE  /\ srvIn' \in Seq(Datagram)
         /\ \/ srvIn' = srvIn
            \/ /\ srv # "down"
               /\ DOMAIN srvIn' = DOMAIN srvIn \cup {Len(srvIn) + 1}
               /\ Len(srvIn) + 1 \notin DOMAIN srvIn
               /\ srvIn'[Len(srvIn) + 1] = [from |-> c, kind |-> k]
               /\ \A j \in DOMAIN srvIn : srvIn'[j] = srvIn[j]
<1> DEFINE d == [from |-> c, kind |-> k]
<1>1. d \in Datagram
  BY DEF Datagram
<1>2. CASE ok /\ srv # "down"
  <2>1. srvIn' = Append(srvIn, d)
    BY <1>2 DEF ToServer
  <2> HIDE DEF d
  <2>2. /\ Append(srvIn, d) \in Seq(Datagram) /\ DOMAIN srvIn = 1..Len(srvIn)
        /\ DOMAIN Append(srvIn, d) = 1..Len(srvIn)+1 /\ Len(srvIn) \in Nat
        /\ Append(srvIn, d)[Len(srvIn)+1] = d
        /\ \A j \in 1..Len(srvIn) : Append(srvIn, d)[j] = srvIn[j]
    BY <1>1
  <2>3. 1..Len(srvIn)+1 = 1..Len(srvIn) \cup {Len(srvIn) + 1} /\ Len(srvIn) + 1 \notin 1..Len(srvIn)
    BY <2>2
  <2> QED
    BY <1>2, <2>1, <2>2, <2>3 DEF d
<1>3. CASE ~(ok /\ srv # "down")
  BY <1>3 DEF ToServer
<1> QED
  BY <1>2, <1>3

\* The queue of the server after its first datagram was read.
LEMMA AfterRead ==
  ASSUME srvIn \in Seq(Datagram), srvIn # <<>>, srvIn' = Tail(srvIn)
  PROVE  /\ Head(srvIn) \in Datagram /\ Head(srvIn) = srvIn[1] /\ 1 \in DOMAIN srvIn
         /\ srvIn' \in Seq(Datagram)
         /\ \A j \in DOMAIN srvIn' :
              j + 1 \in DOMAIN srvIn /\ srvIn'[j] = srvIn[j+1] /\ j \in Nat \ {0}
<1>1. DOMAIN srvIn = 1..Len(srvIn) /\ Len(srvIn) \in Nat /\ Len(srvIn) > 0
  OBVIOUS
<1>2. Tail(srvIn) \in Seq(Datagram) /\ DOMAIN Tail(srvIn) = 1..Len(srvIn)-1
      /\ \A j \in 1..Len(srvIn)-1 : Tail(srvIn)[j] = srvIn[j+1]
  OBVIOUS
<1>3. Head(srvIn) = srvIn[1] /\ srvIn[1] \in Datagram
  BY <1>1
<1> QED
  BY <1>1, <1>2, <1>3

\* The queue of a client after a message was sent to it.
LEMMA AfterReply ==
  ASSUME inbox \in [Clients -> Seq(Message)], NEW c \in Clients, inbox[c] = <<>>,
         NEW m \in Message, NEW ok \in BOOLEAN, ToClient(c, m, ok)
  PROVE  /\ inbox' \in [Clients -> Seq(Message)]
         /\ \A e \in Clients : e # c => inbox'[e] = inbox[e]
         /\ inbox'[c] = <<>> \/ (Len(inbox'[c]) = 1 /\ Head(inbox'[c]) = m)
<1>1. CASE ok
  <2>1. inbox' = [inbox EXCEPT ![c] = Append(<<>>, m)]
    BY <1>1 DEF ToClient
  <2>2. Append(<<>>, m) \in Seq(Message) /\ Len(Append(<<>>, m)) = 1 /\ Head(Append(<<>>, m)) = m
    OBVIOUS
  <2> QED
    BY <2>1, <2>2
<1>2. CASE ~ok
  BY <1>2 DEF ToClient
<1> QED
  BY <1>1, <1>2

\* The queue of a client after it read its only message.
LEMMA AfterReceive ==
  ASSUME inbox \in [Clients -> Seq(Message)], NEW c \in Clients, Len(inbox[c]) = 1,
         inbox' = [inbox EXCEPT ![c] = Tail(@)]
  PROVE  /\ Head(inbox[c]) \in Message
         /\ inbox' \in [Clients -> Seq(Message)] /\ inbox'[c] = <<>>
         /\ \A e \in Clients : e # c => inbox'[e] = inbox[e]
<1> DEFINE q == inbox[c]
<1>1. q \in Seq(Message) /\ Len(q) = 1
  OBVIOUS
<1> HIDE DEF q
<1>2. Tail(q) \in Seq(Message) /\ Len(Tail(q)) = 0 /\ Head(q) \in Message
  <2>1. Len(<<>>) = 0 /\ 0 # 1
    BY EmptySeq
  <2>2. q # <<>>
    BY <1>1, <2>1, Zenon
  <2> QED
    BY <1>1, <2>2, HeadTailProperties
<1>3. Tail(q) = <<>>
  BY <1>2, EmptySeq
<1> QED
  BY <1>2, <1>3 DEF q

\* The losses are counted.
LEMMA LossType ==
  ASSUME lost \in [Clients -> Nat], NEW c \in Clients, NEW ok \in BOOLEAN, CountLoss(c, ok)
  PROVE  lost' \in [Clients -> Nat]
BY DEF CountLoss

\* What the invariant says of each datagram to the server.
LEMMA Arrived ==
  ASSUME HInv
  PROVE  /\ srvIn \in Seq(Datagram) /\ inbox \in [Clients -> Seq(Message)]
         /\ lost \in [Clients -> Nat]
         /\ \A j \in DOMAIN srvIn : srvIn[j] \in Datagram /\ Arriving(srvIn[j])
<1>1. srvIn \in Seq(Datagram)
  BY DEF HInv, TypeOK, Datagram
<1>2. \A j \in DOMAIN srvIn : srvIn[j] \in Datagram
  BY <1>1
<1>3. inbox \in [Clients -> Seq(Message)] /\ lost \in [Clients -> Nat]
  BY DEF HInv, TypeOK, Message
<1> QED
  BY <1>1, <1>2, <1>3 DEF HInv, Arrivals

-----------------------------------------------------------------------------
LEMMA InitHInv == Init => HInv
<1> SUFFICES ASSUME Init PROVE HInv
  OBVIOUS
<1>1. TypeOK
  BY DEF Init, TypeOK
<1>2. OneEach /\ Arrivals
  BY DEF Init, OneEach, Arrivals
<1>3. Serving /\ \A c \in Clients : Delivery(c) /\ Progress(c) /\ Bounded(c)
  BY DEF Init, Serving, Delivery, Progress, Bounded
<1> QED
  BY <1>1, <1>2, <1>3 DEF HInv

-----------------------------------------------------------------------------
\* Steps of one client c that leave its port and the server's state alone.
LEMMA HelloKeeps ==
  ASSUME HInv, NEW c \in Clients, Hello(c)
  PROVE  HInv'
<1>1. PICK ok \in BOOLEAN : ToServer(c, "hello", ok) /\ CountLoss(c, ok)
  BY DEF Hello
<1>2. /\ srvIn \in Seq(Datagram) /\ inbox \in [Clients -> Seq(Message)]
      /\ lost \in [Clients -> Nat]
      /\ \A j \in DOMAIN srvIn : srvIn[j] \in Datagram /\ Arriving(srvIn[j])
  BY Arrived
<1>3. /\ cl[c] = "new" /\ cl' = [cl EXCEPT ![c] = "rcv"]
      /\ UNCHANGED <<srv, peer, cont, srvLeft, numero_client, numero_client_for_port,
                     port, served, got, fin, inbox>>
  BY DEF Hello
<1>4. /\ port[c] = NoPort /\ ~fin[c] /\ inbox[c] = <<>> /\ c \notin served
      /\ \A j \in DOMAIN srvIn : srvIn[j].from # c
  <2>1. port[c] = NoPort /\ ~fin[c] /\ c \notin served
    BY <1>3 DEF HInv, Progress
  <2>2. inbox[c] = <<>>
    BY <2>1 DEF HInv, Delivery, Exchange
  <2>3. ASSUME NEW j \in DOMAIN srvIn PROVE srvIn[j].from # c
    <3>1. Arriving(srvIn[j]) /\ srvIn[j].kind \in Kinds
      BY <1>2 DEF Datagram
    <3> QED
      BY <1>3, <2>1, <3>1 DEF Arriving, Exchange, Kinds
  <2> QED
    BY <2>1, <2>2, <2>3
<1>5. /\ srvIn' \in Seq(Datagram)
      /\ \/ srvIn' = srvIn
         \/ /\ srv # "down"
            /\ DOMAIN srvIn' = DOMAIN srvIn \cup {Len(srvIn) + 1}
            /\ Len(srvIn) + 1 \notin DOMAIN srvIn
            /\ srvIn'[Len(srvIn) + 1] = [from |-> c, kind |-> "hello"]
            /\ \A j \in DOMAIN srvIn : srvIn'[j] = srvIn[j]
  BY <1>1, <1>2, AfterSend DEF Kinds
<1>6. TypeOK'
  <2>1. lost' \in [Clients -> Nat]
    BY <1>1, <1>2, LossType
  <2>2. busy' \in SUBSET Clients /\ left' \in [Clients -> Nat]
    BY HandshakeAssumption DEF Hello, HInv, TypeOK
  <2> QED
    BY <1>3, <1>5, <2>1, <2>2 DEF HInv, TypeOK, Datagram
<1>7. OneEach'
  BY <1>4, <1>5 DEF HInv, OneEach
<1>8. Arrivals'
  <2>1. ASSUME NEW d, Arriving(d), d.from # c PROVE Arriving(d)'
    BY <1>3, <2>1 DEF Arriving, Exchange, HInv, TypeOK
  <2>2. Arriving([from |-> c, kind |-> "hello"])'
    BY <1>3, <1>4 DEF Arriving, HInv, TypeOK
  <2> QED
    BY <1>4, <1>5, <2>1, <2>2 DEF HInv, Arrivals
<1>9. Serving' /\ \A e \in Clients : (Delivery(e) /\ Progress(e) /\ Bounded(e))'
  <2>1. \A e \in Clients : cl'[e] # cl[e] => e = c /\ cl'[e] = "rcv"
    BY <1>3 DEF HInv, TypeOK
  <2> QED
    BY <1>3, <2>1 DEF HInv, Serving, Delivery, Progress, Bounded, Exchange
<1> QED
  BY <1>6, <1>7, <1>8, <1>9 DEF HInv

LEMMA ReceiveMsgKeeps ==
  ASSUME HInv, NEW c \in Clients, ReceiveMsg(c)
  PROVE  HInv'
<1>1. PICK ok \in BOOLEAN : ToServer(c, "ACK", ok) /\ CountLoss(c, ok)
  BY DEF ReceiveMsg
<1>2. /\ srvIn \in Seq(Datagram) /\ inbox \in [Clients -> Seq(Message)]
      /\ lost \in [Clients -> Nat]
      /\ \A j \in DOMAIN srvIn : srvIn[j] \in Datagram /\ Arriving(srvIn[j])
  BY Arrived
<1>3. /\ cl[c] = "rcv" /\ inbox[c] # <<>> /\ Head(inbox[c]).kind # "FIN"
      /\ got' = [got EXCEPT ![c] = Head(inbox[c]).port]
      /\ inbox' = [inbox EXCEPT ![c] = Tail(@)]
      /\ UNCHANGED <<srv, peer, cont, srvLeft, numero_client, numero_client_for_port,
                     port, served, cl, fin>>
  BY DEF ReceiveMsg
<1>4. /\ Len(inbox[c]) = 1 /\ Exchange(c) /\ ~fin[c] /\ Head(inbox[c]).port = port[c]
      /\ \A j \in DOMAIN srvIn : srvIn[j].from # c
  BY <1>3 DEF HInv, Delivery, Arrivals, Arriving
<1>5. /\ srvIn' \in Seq(Datagram)
      /\ \/ srvIn' = srvIn
         \/ /\ srv # "down"
            /\ DOMAIN srvIn' = DOMAIN srvIn \cup {Len(srvIn) + 1}
            /\ Len(srvIn) + 1 \notin DOMAIN srvIn
            /\ srvIn'[Len(srvIn) + 1] = [from |-> c, kind |-> "ACK"]
            /\ \A j \in DOMAIN srvIn : srvIn'[j] = srvIn[j]
  BY <1>1, <1>2, AfterSend DEF Kinds
<1>6. /\ Head(inbox[c]) \in Message /\ inbox' \in [Clients -> Seq(Message)] /\ inbox'[c] = <<>>
      /\ \A e \in Clients : e # c => inbox'[e] = inbox[e]
  BY <1>2, <1>3, <1>4, AfterReceive
<1>7. got'[c] = port[c] /\ \A e \in Clients : e # c => got'[e] = got[e]
  BY <1>3, <1>4 DEF HInv, TypeOK
<1>8. TypeOK'
  <2>1. lost' \in [Clients -> Nat]
    BY <1>1, <1>2, LossType
  <2>2. left' \in [Clients -> Nat] /\ busy' = busy
    BY HandshakeAssumption DEF ReceiveMsg, HInv, TypeOK
  <2>3. got' \in [Clients -> Nat \cup {NoPort}]
    BY <1>3, <1>4 DEF HInv, TypeOK
  <2> QED
    BY <1>3, <1>5, <1>6, <2>1, <2>2, <2>3 DEF HInv, TypeOK, Datagram, Message
<1>9. OneEach'
  BY <1>4, <1>5 DEF HInv, OneEach
<1>10. Arrivals'
  <2>1. Arriving([from |-> c, kind |-> "ACK"])'
    BY <1>3, <1>4, <1>6, <1>7 DEF Arriving, Exchange
  <2>2. ASSUME NEW d \in Datagram, Arriving(d), d.from # c PROVE Arriving(d)'
    <3>1. d.from \in Clients
      BY DEF Datagram
    <3> QED
      BY <1>3, <1>6, <1>7, <2>2, <3>1 DEF Arriving, Exchange
  <2>3. \A j \in DOMAIN srvIn : srvIn[j] \in Datagram /\ Arriving(srvIn[j]) /\ srvIn[j].from # c
    BY <1>2, <1>4
  <2>4. \A j \in DOMAIN srvIn' :
          srvIn'[j] = [from |-> c, kind |-> "ACK"] \/ \E i \in DOMAIN srvIn : srvIn'[j] = srvIn[i]
    BY <1>5
  <2> QED
    BY <2>1, <2>2, <2>3, <2>4 DEF Arrivals
<1>11. Serving' /\ \A e \in Clients : (Delivery(e) /\ Progress(e) /\ Bounded(e))'
  <2>1. ASSUME NEW e \in Clients PROVE Delivery(e)'
    BY <1>3, <1>6, <1>7 DEF HInv, Delivery, Exchange
  <2>2. ASSUME NEW e \in Clients PROVE Progress(e)' /\ Bounded(e)'
    BY <1>3, <1>4, <1>7 DEF HInv, Progress, Bounded, Exchange
  <2> QED
    BY <1>3, <2>1, <2>2 DEF HInv, Serving
<1> QED
  BY <1>8, <1>9, <1>10, <1>11 DEF HInv

LEMMA ReceiveFinKeeps ==
  ASSUME HInv, NEW c \in Clients, ReceiveFin(c)
  PROVE  HInv'
<1>1. PICK ok \in BOOLEAN : ToServer(c, "FINACK", ok) /\ CountLoss(c, ok)
  BY DEF ReceiveFin
<1>2. /\ srvIn \in Seq(Datagram) /\ inbox \in [Clients -> Seq(Message)]
      /\ lost \in [Clients -> Nat]
      /\ \A j \in DOMAIN srvIn : srvIn[j] \in Datagram /\ Arriving(srvIn[j])
  BY Arrived
<1>3. /\ cl[c] = "rcv" /\ inbox[c] # <<>> /\ Head(inbox[c]).kind = "FIN"
      /\ fin' = [fin EXCEPT ![c] = TRUE]
      /\ inbox' = [inbox EXCEPT ![c] = Tail(@)]
      /\ UNCHANGED <<srv, peer, cont, srvLeft, numero_client, numero_client_for_port,
                     port, served, cl, got>>
  BY DEF ReceiveFin
<1>4. /\ Len(inbox[c]) = 1 /\ Exchange(c) /\ ~fin[c] /\ got[c] = port[c]
      /\ \A j \in DOMAIN srvIn : srvIn[j].from # c
  BY <1>3 DEF HInv, Delivery, Arrivals, Arriving
<1>5. /\ srvIn' \in Seq(Datagram)
      /\ \/ srvIn' = srvIn
         \/ /\ srv # "down"
            /\ DOMAIN srvIn' = DOMAIN srvIn \cup {Len(srvIn) + 1}
            /\ Len(srvIn) + 1 \notin DOMAIN srvIn
            /\ srvIn'[Len(srvIn) + 1] = [from |-> c, kind |-> "FINACK"]
            /\ \A j \in DOMAIN srvIn : srvIn'[j] = srvIn[j]
  BY <1>1, <1>2, AfterSend DEF Kinds
<1>6. /\ Head(inbox[c]) \in Message /\ inbox' \in [Clients -> Seq(Message)] /\ inbox'[c] = <<>>
      /\ \A e \in Clients : e # c => inbox'[e] = inbox[e]
  BY <1>2, <1>3, <1>4, AfterReceive
<1>7. fin'[c] = TRUE /\ \A e \in Clients : e # c => fin'[e] = fin[e]
  BY <1>3, <1>4 DEF HInv, TypeOK
<1>8. TypeOK'
  <2>1. lost' \in [Clients -> Nat]
    BY <1>1, <1>2, LossType
  <2>2. left' \in [Clients -> Nat] /\ busy' = busy
    BY HandshakeAssumption DEF ReceiveFin, HInv, TypeOK
  <2>3. fin' \in [Clients -> BOOLEAN]
    BY <1>3 DEF HInv, TypeOK
  <2> QED
    BY <1>3, <1>5, <1>6, <2>1, <2>2, <2>3 DEF HInv, TypeOK, Datagram, Message
<1>9. OneEach'
  BY <1>4, <1>5 DEF HInv, OneEach
<1>10. Arrivals'
  <2>1. Arriving([from |-> c, kind |-> "FINACK"])'
    BY <1>3, <1>4, <1>6, <1>7 DEF Arriving, Exchange
  <2>2. ASSUME NEW d \in Datagram, Arriving(d), d.from # c PROVE Arriving(d)'
    <3>1. d.from \in Clients
      BY DEF Datagram
    <3> QED
      BY <1>3, <1>6, <1>7, <2>2, <3>1 DEF Arriving, Exchange
  <2>3. \A j \in DOMAIN srvIn : srvIn[j] \in Datagram /\ Arriving(srvIn[j]) /\ srvIn[j].from # c
    BY <1>2, <1>4
  <2>4. \A j \in DOMAIN srvIn' :
          srvIn'[j] = [from |-> c, kind |-> "FINACK"] \/ \E i \in DOMAIN srvIn : srvIn'[j] = srvIn[i]
    BY <1>5
  <2> QED
    BY <2>1, <2>2, <2>3, <2>4 DEF Arrivals
<1>11. Serving' /\ \A e \in Clients : (Delivery(e) /\ Progress(e) /\ Bounded(e))'
  <2>1. ASSUME NEW e \in Clients PROVE Delivery(e)'
    BY <1>3, <1>6, <1>7 DEF HInv, Delivery, Exchange
  <2>2. ASSUME NEW e \in Clients PROVE Progress(e)' /\ Bounded(e)'
    BY <1>3, <1>4, <1>7 DEF HInv, Progress, Bounded, Exchange
  <2>3. Serving'
    <3>1. \A e \in Clients : fin[e] => fin'[e]
      BY <1>7
    <3> QED
      BY <1>3, <3>1 DEF HInv, Serving, TypeOK
  <2> QED
    BY <2>1, <2>2, <2>3
<1> QED
  BY <1>8, <1>9, <1>10, <1>11 DEF HInv

\* Steps that send nothing, read nothing and change the state of one client only.
LEMMA RcvExpiresKeeps ==
  ASSUME HInv, NEW c \in Clients, RcvExpires(c)
  PROVE  HInv'
<1>1. /\ cl[c] = "rcv" /\ cl' = [cl EXCEPT ![c] = IF fin[c] THEN "linked" ELSE "crashed"]
      /\ UNCHANGED <<srvVars, got, fin, left, inbox>>
  BY DEF RcvExpires
<1>2. \A e \in Clients : cl'[e] = IF e = c THEN IF fin[c] THEN "linked" ELSE "crashed" ELSE cl[e]
  BY <1>1 DEF HInv, TypeOK
<1>3. TypeOK'
  BY <1>1 DEF HInv, TypeOK, srvVars
<1>4. OneEach' /\ Serving'
  BY <1>1 DEF HInv, OneEach, Serving, srvVars
<1>5. Arrivals'
  <2>1. ASSUME NEW d \in Datagram, Arriving(d) PROVE Arriving(d)'
    <3>1. d.from \in Clients
      BY DEF Datagram
    <3> QED
      BY <1>1, <1>2, <2>1, <3>1 DEF Arriving, Exchange, srvVars
  <2>2. \A j \in DOMAIN srvIn : srvIn[j] \in Datagram /\ Arriving(srvIn[j])
    BY Arrived
  <2> QED
    BY <1>1, <2>1, <2>2 DEF Arrivals, srvVars
<1>6. \A e \in Clients : (Delivery(e) /\ Progress(e) /\ Bounded(e))'
  BY <1>1, <1>2 DEF HInv, Delivery, Progress, Bounded, Exchange, srvVars
<1> QED
  BY <1>3, <1>4, <1>5, <1>6 DEF HInv

LEMMA ExitKeeps ==
  ASSUME HInv, NEW c \in Clients, Exit(c)
  PROVE  HInv'
<1>0. numero_client - 1 \in Int
  BY DEF HInv, TypeOK
<1>1. /\ cl[c] = "ready" /\ c \in served /\ cl' = [cl EXCEPT ![c] = "left"]
      /\ served' = served \ {c} /\ numero_client' = numero_client - 1
      /\ UNCHANGED <<busy, srv, peer, cont, srvLeft, srvIn, numero_client_for_port, port, lost,
                     got, fin, left, inbox>>
  BY DEF Exit
<1>2. \A e \in Clients : cl'[e] = IF e = c THEN "left" ELSE cl[e]
  BY <1>1 DEF HInv, TypeOK
<1>3. TypeOK'
  BY <1>0, <1>1 DEF HInv, TypeOK
<1>4. OneEach' /\ Serving'
  BY <1>1 DEF HInv, OneEach, Serving
<1>5. Arrivals'
  <2>1. ASSUME NEW d \in Datagram, Arriving(d) PROVE Arriving(d)'
    <3>1. d.from \in Clients
      BY DEF Datagram
    <3> QED
      BY <1>1, <1>2, <2>1, <3>1 DEF Arriving, Exchange
  <2>2. \A j \in DOMAIN srvIn : srvIn[j] \in Datagram /\ Arriving(srvIn[j])
    BY Arrived
  <2> QED
    BY <1>1, <2>1, <2>2 DEF Arrivals
<1>6. \A e \in Clients : (Delivery(e) /\ Progress(e) /\ Bounded(e))'
  BY <1>1, <1>2 DEF HInv, Delivery, Progress, Bounded, Exchange
<1> QED
  BY <1>3, <1>4, <1>5, <1>6 DEF HInv

LEMMA TickKeeps ==
  ASSUME HInv, Tick
  PROVE  HInv'
<1>1. /\ cl' = [c \in Clients |-> IF cl[c] = "linked" THEN "ready" ELSE cl[c]]
      /\ UNCHANGED <<busy, srv, peer, cont, srvIn, numero_client, numero_client_for_port, port,
                     served, lost, got, fin, inbox>>
  BY DEF Tick
<1>2. \A e \in Clients : cl'[e] # cl[e] => cl[e] = "linked" /\ cl'[e] = "ready"
  BY <1>1
<1>3. TypeOK'
  <2>1. srvLeft' \in Nat
    BY DEF Tick, HInv, TypeOK
  <2>2. left' \in [Clients -> Nat]
    <3>1. ASSUME NEW c \in Clients
          PROVE  (IF Waiting(c) THEN left[c] - 1 ELSE left[c]) \in Nat
      <4>1. left[c] \in Nat /\ (Waiting(c) => left[c] > 0)
        BY DEF Tick, HInv, TypeOK
      <4> QED
        BY <4>1
    <3> QED
      BY <3>1 DEF Tick
  <2>3. cl' \in [Clients -> {"new", "rcv", "linked", "ready", "crashed", "left"}]
    BY <1>1 DEF HInv, TypeOK
  <2> QED
    BY <1>1, <2>1, <2>2, <2>3 DEF HInv, TypeOK
<1>4. OneEach' /\ Serving'
  BY <1>1 DEF HInv, OneEach, Serving
<1>5. Arrivals'
  <2>1. ASSUME NEW d \in Datagram, Arriving(d) PROVE Arriving(d)'
    <3>1. d.from \in Clients
      BY DEF Datagram
    <3> QED
      BY <1>1, <1>2, <2>1, <3>1 DEF Arriving, Exchange
  <2>2. \A j \in DOMAIN srvIn : srvIn[j] \in Datagram /\ Arriving(srvIn[j])
    BY Arrived
  <2> QED
    BY <1>1, <2>1, <2>2 DEF Arrivals
<1>6. \A e \in Clients : (Delivery(e) /\ Progress(e) /\ Bounded(e))'
  BY <1>1, <1>2 DEF HInv, Delivery, Progress, Bounded, Exchange
<1> QED
  BY <1>3, <1>4, <1>5, <1>6 DEF HInv

-----------------------------------------------------------------------------
\* Steps of the server that read a datagram.  What is left in its queue is of
\* other clients than the one that was read.
LEMMA RestOfQueue ==
  ASSUME HInv, srvIn # <<>>, srvIn' = Tail(srvIn)
  PROVE  /\ Head(srvIn) \in Datagram /\ Arriving(Head(srvIn))
         /\ srvIn' \in Seq(Datagram) /\ OneEach'
         /\ \A j \in DOMAIN srvIn' : \E d \in Datagram :
              srvIn'[j] = d /\ Arriving(d) /\ d.from # Head(srvIn).from
<1>1. /\ srvIn \in Seq(Datagram)
      /\ \A j \in DOMAIN srvIn : srvIn[j] \in Datagram /\ Arriving(srvIn[j])
  BY Arrived
<1>2. /\ Head(srvIn) \in Datagram /\ Head(srvIn) = srvIn[1] /\ 1 \in DOMAIN srvIn
      /\ srvIn' \in Seq(Datagram)
      /\ \A j \in DOMAIN srvIn' :
           j + 1 \in DOMAIN srvIn /\ srvIn'[j] = srvIn[j+1] /\ j \in Nat \ {0}
  BY <1>1, AfterRead
<1>3. \A j, k \in DOMAIN srvIn : srvIn[j].from = srvIn[k].from => j = k
  BY DEF HInv, OneEach
<1>4. OneEach'
  <2>1. ASSUME NEW j \in DOMAIN srvIn', NEW k \in DOMAIN srvIn', srvIn'[j].from = srvIn'[k].from
        PROVE  j = k
    <3>1. j + 1 = k + 1
      BY <1>2, <1>3, <2>1
    <3> QED
      BY <1>2, <3>1
  <2> QED
    BY <2>1 DEF OneEach
<1>5. ASSUME NEW j \in DOMAIN srvIn'
      PROVE  \E d \in Datagram : srvIn'[j] = d /\ Arriving(d) /\ d.from # Head(srvIn).from
  <2>1. j + 1 # 1
    BY <1>2
  <2> QED
    BY <1>1, <1>2, <1>3, <2>1
<1> QED
  BY <1>1, <1>2, <1>4, <1>5

LEMMA ReadHelloKeeps ==
  ASSUME HInv, ReadHello
  PROVE  HInv'
<1> DEFINE h == Head(srvIn)
           c == h.from
           p == NewPort(h.kind)
<1>1. PICK ok \in BOOLEAN : ToClient(c, Msg("port", p), ok) /\ CountLoss(c, ok)
  BY DEF ReadHello
<1>2. /\ srv = "hello" /\ srvIn # <<>> /\ srvIn' = Tail(srvIn)
      /\ peer' = c /\ port' = [port EXCEPT ![c] = p] /\ srv' = "snd" /\ cont' = 0
      /\ srvLeft' = SndTimeout
      /\ UNCHANGED <<busy, numero_client, numero_client_for_port, served, cl, got, fin, left>>
  BY DEF ReadHello
<1>3. /\ h \in Datagram /\ Arriving(h) /\ srvIn' \in Seq(Datagram) /\ OneEach'
      /\ \A j \in DOMAIN srvIn' : \E d \in Datagram :
           srvIn'[j] = d /\ Arriving(d) /\ d.from # c
  BY <1>2, RestOfQueue
<1>4. /\ c \in Clients /\ h.kind = "hello" /\ port[c] = NoPort /\ inbox[c] = <<>>
      /\ cl[c] # "new" /\ ~fin[c] /\ c \notin served /\ cl[c] # "left" /\ got[c] = NoPort
  <2>1. c \in Clients /\ h.kind = "hello"
    BY <1>2, <1>3 DEF Datagram, Arriving, Exchange, Kinds
  <2>2. port[c] = NoPort /\ inbox[c] = <<>> /\ cl[c] # "new"
    BY <1>3, <2>1 DEF Arriving
  <2> QED
    BY <2>1, <2>2 DEF HInv, Progress
<1>5. p = PORT + numero_client_for_port /\ p \in Nat /\ p # NoPort
  BY <1>4, HandshakeAssumption DEF NewPort, HInv, TypeOK
<1> HIDE DEF p
<1>6. /\ port' \in [Clients -> Nat \cup {NoPort}] /\ port'[c] = p
      /\ \A e \in Clients : e # c => port'[e] = port[e]
  BY <1>2, <1>4, <1>5 DEF HInv, TypeOK
<1>7. /\ inbox' \in [Clients -> Seq(Message)]
      /\ \A e \in Clients : e # c => inbox'[e] = inbox[e]
      /\ inbox'[c] = <<>> \/ (Len(inbox'[c]) = 1 /\ Head(inbox'[c]) = Msg("port", p))
  <2>1. Msg("port", p) \in Message
    BY <1>5 DEF Msg, Message
  <2>2. inbox \in [Clients -> Seq(Message)]
    BY Arrived
  <2> QED
    BY <1>1, <1>4, <2>1, <2>2, AfterReply
<1> HIDE DEF c
<1>8. TypeOK'
  <2>1. lost' \in [Clients -> Nat]
    BY <1>1, <1>4, Arrived, LossType
  <2>2. srvLeft' \in Nat /\ cont' \in 0..2
    BY <1>2, HandshakeAssumption
  <2>3. srv' \in {"hello", "snd", "linger", "down"}
    BY <1>2 DEF HInv, TypeOK
  <2> QED
    BY <1>2, <1>3, <1>4, <1>6, <1>7, <2>1, <2>2, <2>3 DEF HInv, TypeOK, Datagram, Message
<1>9. Arrivals'
  <2>1. ASSUME NEW d \in Datagram, Arriving(d), d.from # c PROVE Arriving(d)'
    <3>1. d.from \in Clients /\ d.kind \in Kinds
      BY DEF Datagram
    <3> QED
      BY <1>2, <1>6, <1>7, <2>1, <3>1 DEF Arriving, Exchange
  <2> QED
    BY <1>3, <2>1 DEF Arrivals
<1>10. ASSUME NEW e \in Clients PROVE Delivery(e)'
  <2>1. CASE e = c
    <3>1. Msg("port", p).kind # "FIN" /\ Msg("port", p).port = p
      BY DEF Msg
    <3> QED
      BY <1>2, <1>4, <1>5, <1>6, <1>7, <2>1, <3>1 DEF Delivery, Exchange
  <2>2. CASE e # c
    BY <1>2, <1>7, <2>2 DEF HInv, Delivery, Exchange
  <2> QED
    BY <2>1, <2>2
<1>11. ASSUME NEW e \in Clients PROVE Progress(e)' /\ Bounded(e)'
  <2>1. CASE e = c
    <3>1. Progress(e)'
      <4>1. cl[c] \notin {"linked", "ready"}
        BY <1>4 DEF HInv, Progress
      <4> QED
        BY <1>2, <1>4, <1>5, <1>6, <2>1, <4>1 DEF Progress
    <3>2. Bounded(e)'
      BY <1>2, <1>4, <1>5, <1>6, <2>1 DEF Bounded
    <3> QED
      BY <3>1, <3>2
  <2>2. CASE e # c
    BY <1>2, <1>6, <2>2 DEF HInv, Progress, Bounded
  <2> QED
    BY <2>1, <2>2
<1>12. Serving'
  BY <1>2, <1>5, <1>6 DEF Serving
<1> QED
  BY <1>3, <1>8, <1>9, <1>10, <1>11, <1>12 DEF HInv

LEMMA DropForeignKeeps ==
  ASSUME HInv, DropForeign
  PROVE  HInv'
<1>1. /\ srv = "snd" /\ srvIn # <<>> /\ srvIn' = Tail(srvIn) /\ srvLeft' = SndTimeout
      /\ UNCHANGED <<busy, srv, peer, cont, numero_client, numero_client_for_port, port, served,
                     lost, clVars>>
  BY DEF DropForeign
<1>2. /\ srvIn' \in Seq(Datagram) /\ OneEach'
      /\ \A j \in DOMAIN srvIn' : \E d \in Datagram : srvIn'[j] = d /\ Arriving(d)
  BY <1>1, RestOfQueue
<1>3. TypeOK'
  <2>1. srvLeft' \in Nat
    BY <1>1, HandshakeAssumption
  <2> QED
    BY <1>1, <1>2, <2>1 DEF HInv, TypeOK, Datagram, clVars
<1>4. Arrivals'
  <2>1. ASSUME NEW d \in Datagram, Arriving(d) PROVE Arriving(d)'
    BY <1>1, <2>1 DEF Arriving, Exchange, clVars
  <2> QED
    BY <1>2, <2>1 DEF Arrivals
<1>5. Serving' /\ \A e \in Clients : (Delivery(e) /\ Progress(e) /\ Bounded(e))'
  BY <1>1 DEF HInv, Serving, Delivery, Progress, Bounded, Exchange, clVars
<1> QED
  BY <1>2, <1>3, <1>4, <1>5 DEF HInv

LEMMA ReadAckKeeps ==
  ASSUME HInv, ReadAck
  PROVE  HInv'
<1> DEFINE h == Head(srvIn)
<1>1. PICK ok \in BOOLEAN : ToClient(peer, Msg("FIN", NoPort), ok) /\ CountLoss(peer, ok)
  BY DEF ReadAck
<1>2. /\ srv = "snd" /\ srvIn # <<>> /\ h.from = peer /\ h.kind = "ACK"
      /\ srvIn' = Tail(srvIn) /\ cont' = 0 /\ srvLeft' = SndTimeout
      /\ UNCHANGED <<busy, srv, peer, numero_client, numero_client_for_port, port, served,
                     cl, got, fin, left>>
  BY DEF ReadAck
<1>3. /\ Arriving(h) /\ srvIn' \in Seq(Datagram) /\ OneEach'
      /\ \A j \in DOMAIN srvIn' : \E d \in Datagram :
           srvIn'[j] = d /\ Arriving(d) /\ d.from # peer
  BY <1>2, RestOfQueue
<1>4. /\ peer \in Clients /\ inbox[peer] = <<>> /\ Exchange(peer)
      /\ got[peer] = port[peer] /\ ~fin[peer]
  BY <1>2, <1>3 DEF Arriving, HInv, TypeOK
<1>5. /\ inbox' \in [Clients -> Seq(Message)]
      /\ \A e \in Clients : e # peer => inbox'[e] = inbox[e]
      /\ inbox'[peer] = <<>> \/ (Len(inbox'[peer]) = 1 /\ Head(inbox'[peer]) = Msg("FIN", NoPort))
  <2>1. Msg("FIN", NoPort) \in Message
    BY DEF Msg, Message
  <2>2. inbox \in [Clients -> Seq(Message)]
    BY Arrived
  <2> QED
    BY <1>1, <1>4, <2>1, <2>2, AfterReply
<1>6. TypeOK'
  <2>1. lost' \in [Clients -> Nat]
    BY <1>1, <1>4, Arrived, LossType
  <2>2. srvLeft' \in Nat /\ cont' \in 0..2
    BY <1>2, HandshakeAssumption
  <2>3. srv' \in {"hello", "snd", "linger", "down"}
    BY <1>2 DEF HInv, TypeOK
  <2> QED
    BY <1>2, <1>3, <1>5, <2>1, <2>2, <2>3 DEF HInv, TypeOK, Datagram, Message
<1>7. Arrivals'
  <2>1. ASSUME NEW d \in Datagram, Arriving(d), d.from # peer PROVE Arriving(d)'
    <3>1. d.from \in Clients
      BY DEF Datagram
    <3> QED
      BY <1>2, <1>5, <2>1, <3>1 DEF Arriving, Exchange
  <2> QED
    BY <1>3, <2>1 DEF Arrivals
<1>8. ASSUME NEW e \in Clients PROVE Delivery(e)'
  <2>1. CASE e = peer
    <3>1. Msg("FIN", NoPort).kind = "FIN"
      BY DEF Msg
    <3> QED
      BY <1>2, <1>4, <1>5, <2>1, <3>1 DEF Delivery, Exchange
  <2>2. CASE e # peer
    BY <1>2, <1>5, <2>2 DEF HInv, Delivery, Exchange
  <2> QED
    BY <2>1, <2>2
<1>9. Serving' /\ \A e \in Clients : Progress(e)' /\ Bounded(e)'
  BY <1>2 DEF HInv, Serving, Progress, Bounded
<1> QED
  BY <1>3, <1>6, <1>7, <1>8, <1>9 DEF HInv

LEMMA ReadFinackKeeps ==
  ASSUME HInv, ReadFinack
  PROVE  HInv'
<1> DEFINE h == Head(srvIn)
<1>1. /\ srv = "snd" /\ srvIn # <<>> /\ h.from = peer /\ h.kind = "FINACK"
      /\ srvIn' = Tail(srvIn) /\ srv' = "linger" /\ cont' = 0 /\ srvLeft' = Linger
      /\ UNCHANGED <<busy, peer, numero_client, numero_client_for_port, port, served, lost, clVars>>
  BY DEF ReadFinack
<1>2. /\ Arriving(h) /\ srvIn' \in Seq(Datagram) /\ OneEach'
      /\ \A j \in DOMAIN srvIn' : \E d \in Datagram :
           srvIn'[j] = d /\ Arriving(d) /\ d.from # peer
  BY <1>1, RestOfQueue
<1>3. peer \in Clients /\ inbox[peer] = <<>> /\ fin[peer]
  BY <1>1, <1>2 DEF Arriving, HInv, TypeOK
<1>4. \A e \in Clients : inbox[e] = <<>>
  BY <1>3 DEF HInv, Delivery, Exchange
<1>5. TypeOK'
  <2>1. srvLeft' \in Nat /\ cont' \in 0..2
    BY <1>1, HandshakeAssumption
  <2>2. UNCHANGED <<busy, peer, numero_client, numero_client_for_port, port, served, lost, clVars>>
    BY <1>1
  <2>3. srv' \in {"hello", "snd", "linger", "down"} /\ srvIn' \in Seq(Datagram)
    BY <1>1, <1>2
  <2> QED
    BY <2>1, <2>2, <2>3 DEF HInv, TypeOK, Datagram, clVars
<1>6. Arrivals'
  <2>1. ASSUME NEW d \in Datagram, Arriving(d), d.from # peer PROVE Arriving(d)'
    BY <1>1, <2>1 DEF Arriving, Exchange, clVars
  <2> QED
    BY <1>2, <2>1 DEF Arrivals
<1>7. Serving' /\ \A e \in Clients : (Delivery(e) /\ Progress(e) /\ Bounded(e))'
  BY <1>1, <1>3, <1>4 DEF HInv, Serving, Delivery, Progress, Bounded, clVars
<1> QED
  BY <1>2, <1>5, <1>6, <1>7 DEF HInv

-----------------------------------------------------------------------------
LEMMA SndExpiresKeeps ==
  ASSUME HInv, SndExpires
  PROVE  HInv'
<1>1. /\ srv = "snd" /\ srv' \in {"snd", "down"} /\ cont' \in 0..2 /\ srvLeft' \in Nat
      /\ UNCHANGED <<busy, peer, srvIn, numero_client, numero_client_for_port, port, served,
                     lost, clVars>>
  BY HandshakeAssumption DEF SndExpires, HInv, TypeOK
<1>2. TypeOK'
  BY <1>1 DEF HInv, TypeOK, clVars
<1>3. Arrivals'
  <2>1. ASSUME NEW d \in Datagram, Arriving(d) PROVE Arriving(d)'
    BY <1>1, <2>1 DEF Arriving, Exchange, clVars
  <2>2. \A j \in DOMAIN srvIn : srvIn[j] \in Datagram /\ Arriving(srvIn[j])
    BY Arrived
  <2> QED
    BY <1>1, <2>1, <2>2 DEF Arrivals
<1>4. OneEach' /\ Serving' /\ \A e \in Clients : (Delivery(e) /\ Progress(e) /\ Bounded(e))'
  BY <1>1 DEF HInv, OneEach, Serving, Delivery, Progress, Bounded, Exchange, clVars
<1> QED
  BY <1>2, <1>3, <1>4 DEF HInv

LEMMA StartThreadKeeps ==
  ASSUME HInv, StartThread
  PROVE  HInv'
<1>1. /\ srv = "linger" /\ served' = served \cup {peer} /\ srv' = "hello" /\ srvIn' = <<>>
      /\ numero_client' = numero_client + 1
      /\ numero_client_for_port' = numero_client_for_port + 1
      /\ UNCHANGED <<busy, peer, cont, srvLeft, port, lost, clVars>>
  BY DEF StartThread
<1>2. peer \in Clients /\ fin[peer] /\ cl[peer] # "left"
  BY <1>1 DEF HInv, Serving, Progress, TypeOK
<1>3. TypeOK'
  <2>1. numero_client' \in Int /\ numero_client_for_port' \in Nat /\ srvIn' \in Seq(Datagram)
    BY <1>1 DEF HInv, TypeOK
  <2> QED
    BY <1>1, <1>2, <2>1 DEF HInv, TypeOK, Datagram, clVars
<1>4. OneEach' /\ Arrivals' /\ Serving'
  BY <1>1 DEF OneEach, Arrivals, Serving
<1>5. ASSUME NEW e \in Clients PROVE Delivery(e)' /\ Progress(e)'
  BY <1>1, <1>2 DEF HInv, Delivery, Progress, Exchange, clVars
<1>6. ASSUME NEW e \in Clients PROVE Bounded(e)'
  <2>1. /\ port[e] \in Nat \cup {NoPort} /\ PORT \in Nat /\ numero_client_for_port \in Nat
        /\ Bounded(e)
    BY HandshakeAssumption DEF HInv, TypeOK
  <2> QED
    BY <1>1, <2>1 DEF Bounded, clVars
<1> QED
  BY <1>3, <1>4, <1>5, <1>6 DEF HInv

LEMMA StutterKeeps ==
  ASSUME HInv, UNCHANGED vars
  PROVE  HInv'
<1>1. UNCHANGED <<srvVars, clVars>>
  BY DEF vars
<1> QED
  BY <1>1 DEF srvVars, clVars, HInv, TypeOK, OneEach, Arrivals, Arriving, Serving, Delivery,
              Progress, Bounded, Exchange

\* The invariant from which the theorems follow.
LEMMA HInvCorrect == Spec => []HInv
<1>1. HInv /\ [Next]_vars => HInv'
  BY HelloKeeps, ReceiveMsgKeeps, ReceiveFinKeeps, RcvExpiresKeeps, ExitKeeps, TickKeeps,
     ReadHelloKeeps, DropForeignKeeps, ReadAckKeeps, ReadFinackKeeps, SndExpiresKeeps,
     StartThreadKeeps, StutterKeeps DEF Next, ClientNext, ServerNext
<1> QED
  BY InitHInv, <1>1, PTL DEF Spec

-----------------------------------------------------------------------------
\* Every variable of the handshake keeps its type.
THEOREM TypeCorrect == Spec => []TypeOK
BY HInvCorrect, PTL DEF HInv

-----------------------------------------------------------------------------
(***************************************************************************)
(* The client of an exchange that nothing disturbs is never kept waiting:  *)
(* its one datagram is always on its way, so that no time passes.          *)
(***************************************************************************)
InFlight(c) == inbox[c] # <<>> \/ \E j \in DOMAIN srvIn : srvIn[j].from = c

\* Client c waits in an exchange that nothing has disturbed.
Undisturbed(c) == cl[c] = "rcv" /\ ~fin[c] /\ lost[c] = 0 /\ c \notin busy

Underway(c) ==
  /\ left[c] = RcvTimeout
  /\ \/ srv = "hello" /\ srvIn # <<>> /\ Head(srvIn).from = c
     \/ srv = "snd" /\ peer = c /\ srvLeft > 0 /\ InFlight(c)

\* The strengthening from which CrashHasCause follows.
CauseInv == CrashHasCause /\ \A c \in Clients : Undisturbed(c) => Underway(c)

LEMMA NoLoss ==
  ASSUME HInv, NEW e \in Clients, NEW c \in Clients, NEW ok \in BOOLEAN, CountLoss(e, ok),
         lost'[c] = 0
  PROVE  lost[c] = 0 /\ (c = e => ok = TRUE)
<1>1. lost \in [Clients -> Nat]
  BY Arrived
<1>2. CASE ok = TRUE
  BY <1>2 DEF CountLoss
<1>3. CASE ok = FALSE
  <2>1. lost' = [lost EXCEPT ![e] = @ + 1]
    BY <1>3 DEF CountLoss
  <2>2. lost[e] \in Nat /\ lost[e] + 1 # 0
    BY <1>1
  <2> QED
    BY <1>1, <2>1, <2>2
<1> QED
  BY <1>2, <1>3

\* A datagram to the server goes behind those that are there.
LEMMA QueueGrows ==
  ASSUME HInv, NEW e \in Clients, NEW k \in Kinds, NEW ok \in BOOLEAN, ToServer(e, k, ok)
  PROVE  /\ srvIn # <<>> => srvIn' # <<>> /\ Head(srvIn') = Head(srvIn)
         /\ \A j \in DOMAIN srvIn : j \in DOMAIN srvIn' /\ srvIn'[j] = srvIn[j]
         /\ ok = TRUE /\ srv # "down" =>
              /\ \E j \in DOMAIN srvIn' : srvIn'[j] = [from |-> e, kind |-> k]
              /\ srvIn' = Append(srvIn, [from |-> e, kind |-> k])
<1> DEFINE d == [from |-> e, kind |-> k]
<1>1. srvIn \in Seq(Datagram) /\ d \in Datagram
  BY Arrived DEF Datagram
<1>2. CASE ok = TRUE /\ srv # "down"
  <2>1. srvIn' = Append(srvIn, d)
    BY <1>2 DEF ToServer
  <2> HIDE DEF d
  <2>2. /\ DOMAIN srvIn = 1..Len(srvIn) /\ Len(srvIn) \in Nat
        /\ DOMAIN srvIn' = 1..Len(srvIn)+1
        /\ srvIn'[Len(srvIn)+1] = d
        /\ \A j \in 1..Len(srvIn) : srvIn'[j] = srvIn[j]
    BY <1>1, <2>1
  <2>3. srvIn # <<>> => srvIn' # <<>> /\ Head(srvIn') = Head(srvIn)
    BY <1>1, <2>1
  <2>4. Len(srvIn) + 1 \in DOMAIN srvIn' /\ \A j \in DOMAIN srvIn : j \in DOMAIN srvIn'
    BY <2>2
  <2> QED
    BY <2>1, <2>2, <2>3, <2>4 DEF d
<1>3. CASE ~(ok = TRUE /\ srv # "down")
  <2>1. srvIn' = srvIn
    BY <1>3 DEF ToServer
  <2> QED
    BY <1>3, <2>1
<1> QED
  BY <1>2, <1>3

\* What a client's step does not do to another client c.
LEMMA OtherClientSends ==
  ASSUME HInv, NEW c \in Clients, NEW e \in Clients \ {c}, NEW k \in Kinds, NEW ok \in BOOLEAN,
         ToServer(e, k, ok), UNCHANGED <<srv, peer, srvLeft>>,
         left'[c] = left[c], inbox'[c] = inbox[c],
         Underway(c)
  PROVE  Underway(c)'
<1>1. /\ srvIn # <<>> => srvIn' # <<>> /\ Head(srvIn') = Head(srvIn)
      /\ \A j \in DOMAIN srvIn : j \in DOMAIN srvIn' /\ srvIn'[j] = srvIn[j]
  BY QueueGrows
<1>2. InFlight(c) => InFlight(c)'
  BY <1>1 DEF InFlight
<1> QED
  BY <1>1, <1>2 DEF Underway

LEMMA HelloCause ==
  ASSUME HInv, CauseInv, NEW e \in Clients, Hello(e), NEW c \in Clients, Undisturbed(c)'
  PROVE  Underway(c)'
<1>1. PICK ok \in BOOLEAN : ToServer(e, "hello", ok) /\ CountLoss(e, ok)
  BY DEF Hello
<1>2. /\ cl' = [cl EXCEPT ![e] = "rcv"] /\ left' = [left EXCEPT ![e] = RcvTimeout]
      /\ busy' = (IF srv = "hello" /\ srvIn = <<>> THEN busy ELSE busy \cup {e})
      /\ UNCHANGED <<srv, peer, srvLeft, fin, inbox>>
  BY DEF Hello
<1>3. lost[c] = 0 /\ (c = e => ok = TRUE)
  BY <1>1, NoLoss DEF Undisturbed
<1>4. CASE c = e
  <2>1. srv = "hello" /\ srvIn = <<>> /\ ok = TRUE
    BY <1>2, <1>3, <1>4 DEF Undisturbed
  <2>2. srvIn' = Append(<<>>, [from |-> c, kind |-> "hello"])
    BY <1>1, <1>4, <2>1 DEF ToServer
  <2>3. srvIn' # <<>> /\ Head(srvIn').from = c
    <3> DEFINE d == [from |-> c, kind |-> "hello"]
    <3>1. d.from = c
      OBVIOUS
    <3> HIDE DEF d
    <3>2. Append(<<>>, d) # <<>> /\ Head(Append(<<>>, d)) = d
      OBVIOUS
    <3> QED
      BY <2>2, <3>1, <3>2 DEF d
  <2>4. left'[c] = RcvTimeout /\ srv' = "hello"
    BY <1>2, <1>4, <2>1 DEF HInv, TypeOK
  <2> QED
    BY <2>3, <2>4 DEF Underway
<1>5. CASE c # e
  <2>1. Undisturbed(c) /\ left'[c] = left[c] /\ inbox'[c] = inbox[c]
    BY <1>2, <1>3, <1>5 DEF Undisturbed, HInv, TypeOK
  <2> QED
    BY <1>1, <1>2, <1>5, <2>1, OtherClientSends DEF CauseInv, Kinds
<1> QED
  BY <1>4, <1>5

LEMMA ReceiveMsgCause ==
  ASSUME HInv, CauseInv, NEW e \in Clients, ReceiveMsg(e), NEW c \in Clients, Undisturbed(c)'
  PROVE  Underway(c)'
<1>1. PICK ok \in BOOLEAN : ToServer(e, "ACK", ok) /\ CountLoss(e, ok)
  BY DEF ReceiveMsg
<1>2. /\ cl[e] = "rcv" /\ inbox[e] # <<>>
      /\ inbox' = [inbox EXCEPT ![e] = Tail(@)] /\ left' = [left EXCEPT ![e] = RcvTimeout]
      /\ UNCHANGED <<busy, srv, peer, srvLeft, cl, fin>>
  BY DEF ReceiveMsg
<1>3. lost[c] = 0 /\ (c = e => ok = TRUE)
  BY <1>1, NoLoss DEF Undisturbed
<1>4. Undisturbed(c) /\ Underway(c)
  BY <1>2, <1>3 DEF Undisturbed, CauseInv
<1>5. CASE c = e
  <2>1. srv = "snd" /\ peer = c /\ srvLeft > 0
    BY <1>2, <1>4, <1>5 DEF Underway, HInv, Delivery, Exchange
  <2>2. \E j \in DOMAIN srvIn' : srvIn'[j] = [from |-> c, kind |-> "ACK"]
    BY <1>1, <1>3, <1>5, <2>1, QueueGrows DEF Kinds
  <2>3. left'[c] = RcvTimeout
    BY <1>2, <1>5 DEF HInv, TypeOK
  <2> QED
    BY <1>2, <2>1, <2>2, <2>3 DEF Underway, InFlight
<1>6. CASE c # e
  <2>1. left'[c] = left[c] /\ inbox'[c] = inbox[c]
    BY <1>2, <1>6 DEF HInv, TypeOK
  <2> QED
    BY <1>1, <1>2, <1>4, <1>6, <2>1, OtherClientSends DEF Kinds
<1> QED
  BY <1>5, <1>6

LEMMA ReceiveFinCause ==
  ASSUME HInv, CauseInv, NEW e \in Clients, ReceiveFin(e), NEW c \in Clients, Undisturbed(c)'
  PROVE  Underway(c)'
<1>1. PICK ok \in BOOLEAN : ToServer(e, "FINACK", ok) /\ CountLoss(e, ok)
  BY DEF ReceiveFin
<1>2. /\ fin' = [fin EXCEPT ![e] = TRUE]
      /\ inbox' = [inbox EXCEPT ![e] = Tail(@)] /\ left' = [left EXCEPT ![e] = RcvTimeout]
      /\ UNCHANGED <<busy, srv, peer, srvLeft, cl>>
  BY DEF ReceiveFin
<1>3. c # e /\ ~fin[c]
  BY <1>2 DEF Undisturbed, HInv, TypeOK
<1>4. lost[c] = 0
  BY <1>1, NoLoss DEF Undisturbed
<1>5. Underway(c) /\ left'[c] = left[c] /\ inbox'[c] = inbox[c]
  BY <1>2, <1>3, <1>4 DEF Undisturbed, CauseInv, HInv, TypeOK
<1> QED
  BY <1>1, <1>2, <1>3, <1>5, OtherClientSends DEF Kinds

LEMMA ReadHelloCause ==
  ASSUME HInv, CauseInv, ReadHello, NEW c \in Clients, Undisturbed(c)'
  PROVE  Underway(c)'
<1> DEFINE h == Head(srvIn)
           m == Msg("port", NewPort(h.kind))
<1>1. PICK ok \in BOOLEAN : ToClient(h.from, m, ok) /\ CountLoss(h.from, ok)
  BY DEF ReadHello
<1>2. /\ srv = "hello" /\ srvIn # <<>> /\ srvIn' = Tail(srvIn)
      /\ peer' = h.from /\ srv' = "snd" /\ srvLeft' = SndTimeout
      /\ UNCHANGED <<busy, cl, fin, left>>
  BY DEF ReadHello
<1>3. h.from \in Clients
  BY <1>2, RestOfQueue DEF Datagram
<1>4. lost[c] = 0 /\ (c = h.from => ok = TRUE)
  BY <1>1, <1>3, NoLoss DEF Undisturbed
<1>5. Underway(c)
  BY <1>2, <1>4 DEF Undisturbed, CauseInv
<1>6. h.from = c
  BY <1>2, <1>5 DEF Underway
<1>7. inbox'[c] # <<>>
  <2> HIDE DEF m
  <2>1. inbox' = [inbox EXCEPT ![c] = Append(@, m)]
    BY <1>1, <1>4, <1>6 DEF ToClient
  <2>2. inbox'[c] = Append(inbox[c], m)
    BY <2>1 DEF HInv, TypeOK
  <2>3. inbox[c] \in Seq(Message)
    BY Arrived
  <2> QED
    BY <2>2, <2>3
<1> QED
  BY <1>2, <1>5, <1>6, <1>7, HandshakeAssumption DEF Underway, InFlight

\* A step of the server that reads another client's datagram.
LEMMA OtherRead ==
  ASSUME HInv, srvIn # <<>>, srvIn' = Tail(srvIn), UNCHANGED inbox,
         NEW c \in Clients, Head(srvIn).from # c, InFlight(c)
  PROVE  InFlight(c)'
<1>1. CASE inbox[c] # <<>>
  BY <1>1 DEF InFlight
<1>2. CASE inbox[c] = <<>>
  <2>1. PICK j \in DOMAIN srvIn : srvIn[j].from = c
    BY <1>2 DEF InFlight
  <2>2. srvIn \in Seq(Datagram)
    BY Arrived
  <2>3. j \in 1..Len(srvIn) /\ Len(srvIn) \in Nat /\ Head(srvIn) = srvIn[1]
    BY <2>2
  <2>4. j - 1 \in DOMAIN srvIn' /\ srvIn'[j - 1] = srvIn[j]
    <3>1. j # 1
      BY <2>1, <2>3
    <3> QED
      BY <2>2, <2>3, <3>1
  <2> QED
    BY <2>1, <2>4 DEF InFlight
<1> QED
  BY <1>1, <1>2

LEMMA DropForeignCause ==
  ASSUME HInv, CauseInv, DropForeign, NEW c \in Clients, Undisturbed(c)'
  PROVE  Underway(c)'
<1>1. /\ srv = "snd" /\ srvIn # <<>> /\ Head(srvIn).from # peer /\ srvIn' = Tail(srvIn)
      /\ srvLeft' = SndTimeout /\ UNCHANGED <<busy, srv, peer, lost, cl, fin, left, inbox>>
  BY DEF DropForeign, clVars
<1>2. Underway(c)
  BY <1>1 DEF Undisturbed, CauseInv
<1>3. InFlight(c)'
  BY <1>1, <1>2, OtherRead DEF Underway
<1> QED
  BY <1>1, <1>2, <1>3, HandshakeAssumption DEF Underway

LEMMA ReadAckCause ==
  ASSUME HInv, CauseInv, ReadAck, NEW c \in Clients, Undisturbed(c)'
  PROVE  Underway(c)'
<1> DEFINE m == Msg("FIN", NoPort)
<1>1. PICK ok \in BOOLEAN : ToClient(peer, m, ok) /\ CountLoss(peer, ok)
  BY DEF ReadAck
<1>2. /\ srv = "snd" /\ srvLeft' = SndTimeout /\ UNCHANGED <<busy, srv, peer, cl, fin, left>>
      /\ peer \in Clients
  BY DEF ReadAck, HInv, TypeOK
<1>3. lost[c] = 0 /\ (c = peer => ok = TRUE)
  BY <1>1, <1>2, NoLoss DEF Undisturbed
<1>4. Underway(c) /\ peer = c
  <2>1. Underway(c)
    BY <1>2, <1>3 DEF Undisturbed, CauseInv
  <2> QED
    BY <1>2, <2>1 DEF Underway
<1>5. inbox'[c] # <<>>
  <2> HIDE DEF m
  <2>1. inbox' = [inbox EXCEPT ![c] = Append(@, m)]
    BY <1>1, <1>3, <1>4 DEF ToClient
  <2>2. inbox'[c] = Append(inbox[c], m)
    BY <2>1 DEF HInv, TypeOK
  <2>3. inbox[c] \in Seq(Message)
    BY Arrived
  <2> QED
    BY <2>2, <2>3
<1> QED
  BY <1>2, <1>4, <1>5, HandshakeAssumption DEF Underway, InFlight

\* The steps that cannot happen, or do not matter, while c's exchange is undisturbed.
LEMMA NoOtherStep ==
  ASSUME HInv, NEW c \in Clients, Underway(c), Undisturbed(c),
         RcvExpires(c) \/ ReadFinack \/ SndExpires \/ StartThread \/ Tick
  PROVE  FALSE
<1>1. ~ RcvExpires(c)
  BY HandshakeAssumption DEF RcvExpires, Underway
<1>2. ~ (SndExpires \/ StartThread)
  BY DEF SndExpires, StartThread, Underway
<1>3. ~ ReadFinack
  <2> SUFFICES ASSUME ReadFinack PROVE FALSE
    OBVIOUS
  <2>1. Arriving(Head(srvIn)) /\ Head(srvIn).kind = "FINACK" /\ Head(srvIn).from = c
    BY RestOfQueue DEF ReadFinack, Underway
  <2> QED
    BY <2>1 DEF Arriving, Undisturbed
<1>4. ~ Tick
  <2> SUFFICES ASSUME Tick PROVE FALSE
    OBVIOUS
  <2>1. srvIn = <<>> /\ inbox[c] = <<>>
    BY DEF Tick, Underway, Undisturbed, Waiting
  <2>2. DOMAIN srvIn = {}
    BY <2>1
  <2> QED
    BY <2>1, <2>2 DEF Underway, InFlight
<1> QED
  BY <1>1, <1>2, <1>3, <1>4

LEMMA OtherCause ==
  ASSUME HInv, CauseInv, NEW c \in Clients, Undisturbed(c)',
         \/ \E e \in Clients : RcvExpires(e) \/ Exit(e)
         \/ ReadFinack \/ SndExpires \/ StartThread \/ Tick \/ UNCHANGED vars
  PROVE  Underway(c)'
<1>1. Undisturbed(c)
  <2>1. UNCHANGED <<lost, busy, fin>>
    BY DEF RcvExpires, Exit, ReadFinack, SndExpires, StartThread, Tick, vars, srvVars, clVars
  <2>2. cl[c] = "rcv"
    BY DEF RcvExpires, Exit, ReadFinack, SndExpires, StartThread, Tick, vars, srvVars, clVars,
           HInv, TypeOK, Undisturbed
  <2> QED
    BY <2>1, <2>2 DEF Undisturbed
<1>2. Underway(c)
  BY <1>1 DEF CauseInv
<1>3. CASE \E e \in Clients : RcvExpires(e) \/ Exit(e)
  <2>1. UNCHANGED <<srv, peer, srvLeft, srvIn, left, inbox>>
    BY <1>3 DEF RcvExpires, Exit, srvVars
  <2> QED
    BY <1>2, <2>1 DEF Underway, InFlight
<1>4. CASE UNCHANGED vars
  BY <1>2, <1>4 DEF Underway, InFlight, vars, srvVars, clVars
<1> QED
  BY <1>1, <1>2, <1>3, <1>4, NoOtherStep

\* Losses are counted, and nothing is forgotten.
LEMMA HistoryGrows ==
  ASSUME HInv, [Next]_vars
  PROVE  (\A c \in Clients : lost[c] > 0 => lost'[c] > 0) /\ busy \subseteq busy'
<1>1. lost' = lost \/ \E e \in Clients : \E ok \in BOOLEAN : CountLoss(e, ok)
  <2>1. peer \in Clients /\ (srv = "hello" /\ srvIn # <<>> /\ srvIn' = Tail(srvIn) =>
           Head(srvIn).from \in Clients)
    BY RestOfQueue DEF HInv, TypeOK, Datagram
  <2>2. CASE \E e \in Clients : Hello(e) \/ ReceiveMsg(e) \/ ReceiveFin(e)
    BY <2>2 DEF Hello, ReceiveMsg, ReceiveFin
  <2>3. CASE ReadHello \/ ReadAck
    BY <2>1, <2>3 DEF ReadHello, ReadAck
  <2>4. CASE \E e \in Clients : RcvExpires(e) \/ Exit(e)
    BY <2>4 DEF RcvExpires, Exit, srvVars
  <2>5. CASE DropForeign \/ ReadFinack \/ SndExpires \/ StartThread \/ Tick \/ UNCHANGED vars
    BY <2>5 DEF DropForeign, ReadFinack, SndExpires, StartThread, Tick, vars, srvVars
  <2> QED
    BY <2>2, <2>3, <2>4, <2>5 DEF Next, ClientNext, ServerNext
<1>2. \A c \in Clients : lost[c] > 0 => lost'[c] > 0
  <2> SUFFICES ASSUME NEW e \in Clients, NEW ok \in BOOLEAN, CountLoss(e, ok)
               PROVE  \A c \in Clients : lost[c] > 0 => lost'[c] > 0
    BY <1>1
  <2>1. lost \in [Clients -> Nat]
    BY Arrived
  <2>2. \A c \in Clients : lost'[c] = lost[c] \/ lost'[c] = lost[c] + 1
    BY <2>1 DEF CountLoss
  <2> QED
    BY <2>1, <2>2
<1>3. busy \subseteq busy'
  BY DEF Next, ClientNext, ServerNext, Hello, ReceiveMsg, ReceiveFin, RcvExpires, Exit, ReadHello,
         DropForeign, ReadAck, ReadFinack, SndExpires, StartThread, Tick, vars, srvVars
<1> QED
  BY <1>2, <1>3

\* Only rcvMsg's timeout ends a client.
LEMMA CrashKeeps ==
  ASSUME HInv, CauseInv, [Next]_vars
  PROVE  CrashHasCause'
<1> SUFFICES ASSUME NEW c \in Clients, cl'[c] = "crashed"
             PROVE  lost'[c] > 0 \/ c \in busy'
  BY DEF CrashHasCause
<1>1. CASE cl[c] = "crashed"
  BY <1>1, HistoryGrows DEF CauseInv, CrashHasCause
<1>2. CASE cl[c] # "crashed"
  <2>1. RcvExpires(c)
    BY <1>2 DEF Next, ClientNext, ServerNext, Hello, ReceiveMsg, ReceiveFin, RcvExpires, Exit,
         ReadHello, DropForeign, ReadAck, ReadFinack, SndExpires, StartThread, Tick, vars, clVars,
         HInv, TypeOK
  <2>2. cl[c] = "rcv" /\ ~fin[c] /\ UNCHANGED <<lost, busy>> /\ lost[c] \in Nat
    BY <1>2, <2>1 DEF RcvExpires, srvVars, HInv, TypeOK
  <2>3. ~ Undisturbed(c)
    BY <2>1, NoOtherStep DEF CauseInv
  <2> QED
    BY <2>2, <2>3 DEF Undisturbed
<1> QED
  BY <1>1, <1>2

LEMMA CauseInvCorrect == Spec => []CauseInv
<1>1. Init => CauseInv
  BY DEF Init, CauseInv, CrashHasCause, Undisturbed
<1>2. HInv /\ CauseInv /\ [Next]_vars => CauseInv'
  <2> SUFFICES ASSUME HInv, CauseInv, [Next]_vars
               PROVE  CauseInv'
    OBVIOUS
  <2>1. CrashHasCause'
    BY CrashKeeps
  <2>2. ASSUME NEW c \in Clients, Undisturbed(c)'
        PROVE  Underway(c)'
    <3>1. CASE \E e \in Clients : Hello(e) \/ ReceiveMsg(e) \/ ReceiveFin(e)
      BY <2>2, <3>1, HelloCause, ReceiveMsgCause, ReceiveFinCause
    <3>2. CASE ReadHello \/ DropForeign \/ ReadAck
      BY <2>2, <3>2, ReadHelloCause, DropForeignCause, ReadAckCause
    <3>3. CASE \/ \E e \in Clients : RcvExpires(e) \/ Exit(e)
               \/ ReadFinack \/ SndExpires \/ StartThread \/ Tick \/ UNCHANGED vars
      BY <2>2, <3>3, OtherCause
    <3> QED
      BY <3>1, <3>2, <3>3 DEF Next, ClientNext, ServerNext
  <2> QED
    BY <2>1, <2>2 DEF CauseInv
<1> QED
  BY <1>1, <1>2, HInvCorrect, PTL DEF Spec

\* A client that said hello to a listening server fails only if a datagram of its
\* own exchange was lost: the other clients' hellos and messages cannot harm it.
THEOREM CrashHasCauseCorrect == Spec => []CrashHasCause
BY CauseInvCorrect, PTL DEF CauseInv

-----------------------------------------------------------------------------
(***************************************************************************)
(* The server binds the port before the client uses it, although it tells  *)
(* nobody: its sleep begins no later than the client's last wait, and is   *)
(* no longer.                                                              *)
(***************************************************************************)
\* Client c has its port, but no thread yet.
Unserved(c) == fin[c] /\ c \notin served /\ cl[c] # "left"

Attended(c) ==
  \/ srv = "down"
  \/ srv = "snd" /\ peer = c
  \/ /\ srv = "linger" /\ peer = c
     /\ \/ cl[c] = "rcv" /\ srvLeft <= left[c]
        \/ cl[c] = "linked" /\ srvLeft = 0

\* The FINACK is read within the tick in which it was sent.
FinackIsFresh ==
  srv = "snd" => \A j \in DOMAIN srvIn :
     LET c == srvIn[j].from
     IN  srvIn[j].kind = "FINACK" => cl[c] = "rcv" /\ left[c] = RcvTimeout

\* The strengthening from which BoundInTime follows.
BoundInv == FinackIsFresh /\ \A c \in Clients : Unserved(c) => Attended(c)

\* A client's step that puts no FINACK in the server's queue, or a fresh one.
LEMMA SendIsFresh ==
  ASSUME HInv, FinackIsFresh, NEW e \in Clients, NEW k \in Kinds, NEW ok \in BOOLEAN,
         ToServer(e, k, ok), UNCHANGED srv,
         cl'[e] = "rcv", left'[e] = RcvTimeout,
         \A c \in Clients \ {e} : cl'[c] = cl[c] /\ left'[c] = left[c]
  PROVE  FinackIsFresh'
<1>1. /\ srvIn \in Seq(Datagram) /\ \A j \in DOMAIN srvIn : srvIn[j] \in Datagram
      /\ \A j \in DOMAIN srvIn' : srvIn'[j].from = e \/ (j \in DOMAIN srvIn /\ srvIn'[j] = srvIn[j])
  <2>1. srvIn \in Seq(Datagram) /\ \A j \in DOMAIN srvIn : srvIn[j] \in Datagram
    BY Arrived
  <2>2. \/ srvIn' = srvIn
        \/ /\ DOMAIN srvIn' = DOMAIN srvIn \cup {Len(srvIn) + 1}
           /\ srvIn'[Len(srvIn) + 1] = [from |-> e, kind |-> k]
           /\ \A j \in DOMAIN srvIn : srvIn'[j] = srvIn[j]
    BY <2>1, AfterSend
  <2> QED
    BY <2>1, <2>2
<1> SUFFICES ASSUME srv = "snd", NEW j \in DOMAIN srvIn', srvIn'[j].kind = "FINACK"
             PROVE  cl'[srvIn'[j].from] = "rcv" /\ left'[srvIn'[j].from] = RcvTimeout
  BY DEF FinackIsFresh
<1>2. CASE srvIn'[j].from = e
  BY <1>2
<1>3. CASE srvIn'[j].from # e
  BY <1>1, <1>3 DEF FinackIsFresh, Datagram
<1> QED
  BY <1>2, <1>3

LEMMA HelloBound ==
  ASSUME HInv, BoundInv, NEW e \in Clients, Hello(e)
  PROVE  BoundInv'
<1>1. PICK ok \in BOOLEAN : ToServer(e, "hello", ok)
  BY DEF Hello
<1>2. /\ cl[e] = "new" /\ cl' = [cl EXCEPT ![e] = "rcv"]
      /\ left' = [left EXCEPT ![e] = RcvTimeout]
      /\ UNCHANGED <<srv, peer, srvLeft, served, fin>>
  BY DEF Hello
<1>3. /\ cl'[e] = "rcv" /\ left'[e] = RcvTimeout
      /\ \A c \in Clients \ {e} : cl'[c] = cl[c] /\ left'[c] = left[c]
  BY <1>2 DEF HInv, TypeOK
<1>4. FinackIsFresh'
  BY <1>1, <1>2, <1>3, SendIsFresh DEF BoundInv, Kinds
<1>5. ~ fin[e]
  BY <1>2 DEF HInv, Progress
<1>6. ASSUME NEW c \in Clients, Unserved(c)' PROVE Attended(c)'
  <2>1. c # e
    BY <1>2, <1>5, <1>6 DEF Unserved
  <2> QED
    BY <1>2, <1>3, <1>6, <2>1 DEF BoundInv, Unserved, Attended
<1> QED
  BY <1>4, <1>6 DEF BoundInv

LEMMA ReceiveMsgBound ==
  ASSUME HInv, BoundInv, NEW e \in Clients, ReceiveMsg(e)
  PROVE  BoundInv'
<1>1. PICK ok \in BOOLEAN : ToServer(e, "ACK", ok)
  BY DEF ReceiveMsg
<1>2. /\ cl[e] = "rcv" /\ inbox[e] # <<>>
      /\ left' = [left EXCEPT ![e] = RcvTimeout]
      /\ UNCHANGED <<srv, peer, srvLeft, served, cl, fin>>
  BY DEF ReceiveMsg
<1>3. /\ cl'[e] = "rcv" /\ left'[e] = RcvTimeout
      /\ \A c \in Clients \ {e} : cl'[c] = cl[c] /\ left'[c] = left[c]
  BY <1>2 DEF HInv, TypeOK
<1>4. FinackIsFresh'
  BY <1>1, <1>2, <1>3, SendIsFresh DEF BoundInv, Kinds
<1>5. ~ fin[e]
  BY <1>2 DEF HInv, Delivery
<1>6. ASSUME NEW c \in Clients, Unserved(c)' PROVE Attended(c)'
  <2>1. c # e
    BY <1>2, <1>5, <1>6 DEF Unserved
  <2> QED
    BY <1>2, <1>3, <1>6, <2>1 DEF BoundInv, Unserved, Attended
<1> QED
  BY <1>4, <1>6 DEF BoundInv

LEMMA ReceiveFinBound ==
  ASSUME HInv, BoundInv, NEW e \in Clients, ReceiveFin(e)
  PROVE  BoundInv'
<1>1. PICK ok \in BOOLEAN : ToServer(e, "FINACK", ok)
  BY DEF ReceiveFin
<1>2. /\ cl[e] = "rcv" /\ inbox[e] # <<>>
      /\ left' = [left EXCEPT ![e] = RcvTimeout] /\ fin' = [fin EXCEPT ![e] = TRUE]
      /\ UNCHANGED <<srv, peer, srvLeft, served, cl>>
  BY DEF ReceiveFin
<1>3. /\ cl'[e] = "rcv" /\ left'[e] = RcvTimeout
      /\ \A c \in Clients \ {e} : cl'[c] = cl[c] /\ left'[c] = left[c] /\ fin'[c] = fin[c]
  BY <1>2 DEF HInv, TypeOK
<1>4. FinackIsFresh'
  BY <1>1, <1>2, <1>3, SendIsFresh DEF BoundInv, Kinds
<1>5. srv \in {"snd", "down"} /\ peer = e
  BY <1>2 DEF HInv, Delivery, Exchange
<1>6. ASSUME NEW c \in Clients, Unserved(c)' PROVE Attended(c)'
  <2>1. CASE c = e
    BY <1>2, <1>5, <2>1 DEF Attended
  <2>2. CASE c # e
    BY <1>2, <1>3, <1>6, <2>2 DEF BoundInv, Unserved, Attended
  <2> QED
    BY <2>1, <2>2
<1> QED
  BY <1>4, <1>6 DEF BoundInv

LEMMA RcvExpiresBound ==
  ASSUME HInv, BoundInv, NEW e \in Clients, RcvExpires(e)
  PROVE  BoundInv'
<1>1. /\ cl[e] = "rcv" /\ left[e] = 0
      /\ cl' = [cl EXCEPT ![e] = IF fin[e] THEN "linked" ELSE "crashed"]
      /\ UNCHANGED <<srv, peer, srvLeft, srvIn, served, fin, left>>
  BY DEF RcvExpires, srvVars
<1>2. \A c \in Clients : cl'[c] = IF c = e THEN IF fin[e] THEN "linked" ELSE "crashed" ELSE cl[c]
  BY <1>1 DEF HInv, TypeOK
<1>3. srvLeft \in Nat /\ RcvTimeout # 0 /\ \A j \in DOMAIN srvIn : srvIn[j].from \in Clients
  BY Arrived, HandshakeAssumption DEF HInv, TypeOK, Datagram
<1>4. FinackIsFresh'
  BY <1>1, <1>2, <1>3 DEF BoundInv, FinackIsFresh
<1>5. ASSUME NEW c \in Clients, Unserved(c)' PROVE Attended(c)'
  <2>1. CASE c = e
    BY <1>1, <1>2, <1>3, <1>5, <2>1 DEF BoundInv, Unserved, Attended
  <2>2. CASE c # e
    BY <1>1, <1>2, <1>5, <2>2 DEF BoundInv, Unserved, Attended
  <2> QED
    BY <2>1, <2>2
<1> QED
  BY <1>4, <1>5 DEF BoundInv

LEMMA ExitBound ==
  ASSUME HInv, BoundInv, NEW e \in Clients, Exit(e)
  PROVE  BoundInv'
<1>1. /\ cl[e] = "ready" /\ cl' = [cl EXCEPT ![e] = "left"] /\ served' = served \ {e}
      /\ UNCHANGED <<srv, peer, srvLeft, srvIn, fin, left>>
  BY DEF Exit
<1>2. \A c \in Clients : cl'[c] = IF c = e THEN "left" ELSE cl[c]
  BY <1>1 DEF HInv, TypeOK
<1>3. \A j \in DOMAIN srvIn : srvIn[j].from \in Clients
  BY Arrived DEF Datagram
<1>4. FinackIsFresh'
  BY <1>1, <1>2, <1>3 DEF BoundInv, FinackIsFresh
<1>5. \A c \in Clients : Unserved(c)' => Attended(c)'
  BY <1>1, <1>2 DEF BoundInv, Unserved, Attended
<1> QED
  BY <1>4, <1>5 DEF BoundInv

LEMMA TickBound ==
  ASSUME HInv, BoundInv, Tick
  PROVE  BoundInv'
<1>1. /\ srv \in {"hello", "snd"} => srvIn = <<>>
      /\ Timed => srvLeft > 0
      /\ srvLeft' = (IF Timed THEN srvLeft - 1 ELSE srvLeft)
      /\ left' = [c \in Clients |-> IF Waiting(c) THEN left[c] - 1 ELSE left[c]]
      /\ cl' = [c \in Clients |-> IF cl[c] = "linked" THEN "ready" ELSE cl[c]]
      /\ UNCHANGED <<srv, peer, srvIn, served, fin>>
  BY DEF Tick
<1>2. FinackIsFresh'
  <2>1. srv = "snd" => DOMAIN srvIn = {}
    BY <1>1
  <2> QED
    BY <1>1, <2>1 DEF FinackIsFresh
<1>3. ASSUME NEW c \in Clients, Unserved(c)' PROVE Attended(c)'
  <2>1. Attended(c)
    BY <1>1, <1>3 DEF BoundInv, Unserved
  <2>2. CASE srv = "linger" /\ cl[c] = "rcv" /\ srvLeft <= left[c] /\ peer = c
    <3>1. srvLeft \in Nat /\ left[c] \in Nat
      BY DEF HInv, TypeOK
    <3>2. srvLeft' = srvLeft - 1 /\ left'[c] = left[c] - 1 /\ cl'[c] = "rcv"
      BY <1>1, <2>2 DEF Timed, Waiting
    <3> QED
      BY <1>1, <2>2, <3>1, <3>2 DEF Attended
  <2>3. ~(srv = "linger" /\ srvLeft = 0)
    BY <1>1 DEF Timed
  <2> QED
    BY <1>1, <2>1, <2>2, <2>3 DEF Attended
<1> QED
  BY <1>2, <1>3 DEF BoundInv

\* What is left in the queue after the first datagram is as fresh as it was.
LEMMA RestIsFresh ==
  ASSUME HInv, FinackIsFresh, srv = "snd", srvIn # <<>>, srvIn' = Tail(srvIn),
         UNCHANGED <<cl, left>>
  PROVE  FinackIsFresh'
<1>1. \A j \in DOMAIN srvIn' : j + 1 \in DOMAIN srvIn /\ srvIn'[j] = srvIn[j+1]
  BY Arrived, AfterRead
<1> QED
  BY <1>1 DEF FinackIsFresh

LEMMA ServerReadsBound ==
  ASSUME HInv, BoundInv, ReadHello \/ DropForeign \/ ReadAck
  PROVE  BoundInv'
<1>1. /\ srv \in {"hello", "snd"} /\ srvIn # <<>> /\ srvIn' = Tail(srvIn) /\ srv' = "snd"
      /\ srv = "snd" => peer' = peer
      /\ UNCHANGED <<served, cl, fin, left>>
  BY DEF ReadHello, DropForeign, ReadAck, clVars
<1>2. FinackIsFresh'
  <2>1. CASE srv = "snd"
    BY <1>1, <2>1, RestIsFresh DEF BoundInv
  <2>2. CASE srv = "hello"
    <3>1. \A j \in DOMAIN srvIn' : \E d \in Datagram : srvIn'[j] = d /\ Arriving(d)
      BY <1>1, RestOfQueue
    <3>2. \A d \in Datagram : Arriving(d) => d.kind # "FINACK"
      BY <2>2 DEF Arriving, Exchange
    <3> QED
      BY <3>1, <3>2 DEF FinackIsFresh
  <2> QED
    BY <1>1, <2>1, <2>2
<1>3. \A c \in Clients : Unserved(c)' => Attended(c)'
  BY <1>1 DEF BoundInv, Unserved, Attended
<1> QED
  BY <1>2, <1>3 DEF BoundInv

LEMMA ReadFinackBound ==
  ASSUME HInv, BoundInv, ReadFinack
  PROVE  BoundInv'
<1>1. /\ srv = "snd" /\ srvIn # <<>> /\ Head(srvIn).from = peer /\ Head(srvIn).kind = "FINACK"
      /\ srv' = "linger" /\ srvLeft' = Linger
      /\ UNCHANGED <<peer, served, cl, fin, left>>
  BY DEF ReadFinack, clVars
<1>2. Head(srvIn) = srvIn[1] /\ 1 \in DOMAIN srvIn
  BY <1>1, Arrived
<1>3. cl[peer] = "rcv" /\ left[peer] = RcvTimeout
  BY <1>1, <1>2 DEF BoundInv, FinackIsFresh
<1>4. Linger <= RcvTimeout
  BY TimingAssumption
<1>5. \A c \in Clients : Unserved(c)' => Attended(c)'
  BY <1>1, <1>3, <1>4 DEF BoundInv, Unserved, Attended
<1>6. FinackIsFresh'
  BY <1>1 DEF FinackIsFresh
<1> QED
  BY <1>5, <1>6 DEF BoundInv

LEMMA ServerStepsBound ==
  ASSUME HInv, BoundInv, SndExpires \/ StartThread \/ UNCHANGED vars
  PROVE  BoundInv'
<1>1. CASE SndExpires
  <2>1. srv = "snd" /\ srv' \in {"snd", "down"} /\ UNCHANGED <<peer, srvIn, served, cl, fin, left>>
    BY <1>1 DEF SndExpires, clVars
  <2> QED
    BY <2>1 DEF BoundInv, FinackIsFresh, Unserved, Attended
<1>2. CASE StartThread
  <2>1. /\ srv = "linger" /\ srv' = "hello" /\ served' = served \cup {peer}
        /\ UNCHANGED <<peer, cl, fin, left>>
    BY <1>2 DEF StartThread, clVars
  <2> QED
    BY <2>1 DEF BoundInv, FinackIsFresh, Unserved, Attended
<1>3. CASE UNCHANGED vars
  BY <1>3 DEF vars, srvVars, clVars, BoundInv, FinackIsFresh, Unserved, Attended
<1> QED
  BY <1>1, <1>2, <1>3

LEMMA BoundInvCorrect == Spec => []BoundInv
<1>1. Init => BoundInv
  BY DEF Init, BoundInv, FinackIsFresh, Unserved
<1>2. HInv /\ BoundInv /\ [Next]_vars => BoundInv'
  BY HelloBound, ReceiveMsgBound, ReceiveFinBound, RcvExpiresBound, ExitBound, TickBound,
     ServerReadsBound, ReadFinackBound, ServerStepsBound DEF Next, ClientNext, ServerNext
<1> QED
  BY <1>1, <1>2, HInvCorrect, PTL DEF Spec

\* A client finds its port bound when rcvMsg has returned it, although the server
\* binds it only after its sleep, unless the server still waits for the client's
\* FINACK or has ended.
THEOREM BoundInTimeCorrect == Spec => []BoundInTime
<1>1. HInv /\ BoundInv => BoundInTime
  <2> SUFFICES ASSUME HInv, BoundInv, NEW c \in Clients, cl[c] = "ready"
               PROVE  c \in served \/ srv = "down" \/ (srv = "snd" /\ peer = c)
    BY DEF BoundInTime
  <2>1. fin[c]
    BY DEF HInv, Progress
  <2> QED
    BY <2>1 DEF BoundInv, Unserved, Attended
<1> QED
  BY <1>1, HInvCorrect, BoundInvCorrect, PTL

-----------------------------------------------------------------------------
\* The connection that PortAllocation sees.
HeldBy(c) == IF fin[c] THEN got[c] ELSE NoPort

\* A step that PortAllocation does not see.
LEMMA Unseen ==
  ASSUME UNCHANGED <<port, served>>,
         \A c \in Clients : HeldBy(c)' = HeldBy(c) /\ Status(c)' = Status(c)
  PROVE  UNCHANGED Connection!paVars
BY DEF Connection!paVars, HeldBy

LEMMA ConnectionInit == Init => Connection!PAInit
BY DEF Init, Connection!PAInit, Status

\* rcvMsg's FIN connects the client.
LEMMA FinConnects ==
  ASSUME HInv, NEW c \in Clients, ReceiveFin(c)
  PROVE  Connection!Connect(c)
<1>1. /\ cl[c] = "rcv" /\ fin' = [fin EXCEPT ![c] = TRUE] /\ UNCHANGED <<port, served, cl, got>>
      /\ fin \in [Clients -> BOOLEAN]
  BY DEF ReceiveFin, HInv, TypeOK
<1>2. port[c] # NoPort /\ ~fin[c] /\ got[c] = port[c]
  BY DEF ReceiveFin, HInv, Delivery, Exchange
<1>3. \A e \in Clients : fin'[e] = IF e = c THEN TRUE ELSE fin[e]
  BY <1>1
<1>4. [e \in Clients |-> Status(e)][c] = "out"
  BY <1>1, <1>2 DEF Status
<1>5. [e \in Clients |-> Status(e)]' = [[e \in Clients |-> Status(e)] EXCEPT ![c] = "in"]
  BY <1>1, <1>3 DEF Status
<1>6. [e \in Clients |-> IF fin[e] THEN got[e] ELSE NoPort]'
      = [[e \in Clients |-> IF fin[e] THEN got[e] ELSE NoPort] EXCEPT ![c] = port[c]]
  BY <1>1, <1>2, <1>3
<1> QED
  BY <1>1, <1>2, <1>4, <1>5, <1>6 DEF Connection!Connect

\* rcvMsg that returns NULL fails the client.
LEMMA NullFails ==
  ASSUME HInv, NEW c \in Clients, RcvExpires(c)
  PROVE  Connection!Fail(c) \/ UNCHANGED Connection!paVars
<1>1. /\ cl[c] = "rcv" /\ cl' = [cl EXCEPT ![c] = IF fin[c] THEN "linked" ELSE "crashed"]
      /\ UNCHANGED <<port, served, got, fin>>
  BY DEF RcvExpires, srvVars
<1>2. \A e \in Clients : cl'[e] = IF e = c THEN IF fin[c] THEN "linked" ELSE "crashed" ELSE cl[e]
  BY <1>1 DEF HInv, TypeOK
<1>3. CASE fin[c]
  <2>1. \A e \in Clients : HeldBy(e)' = HeldBy(e) /\ Status(e)' = Status(e)
    BY <1>1, <1>2, <1>3 DEF HeldBy, Status
  <2> QED
    BY <1>1, <2>1, Unseen
<1>4. CASE ~fin[c]
  <2>1. [e \in Clients |-> Status(e)][c] = "out"
    BY <1>1, <1>4 DEF Status
  <2>2. [e \in Clients |-> Status(e)]' = [[e \in Clients |-> Status(e)] EXCEPT ![c] = "failed"]
    <3>1. ASSUME NEW e \in Clients
          PROVE  Status(e)' = IF e = c THEN "failed" ELSE Status(e)
      BY <1>1, <1>2, <1>4 DEF Status
    <3> QED
      BY <3>1
  <2>3. [e \in Clients |-> IF fin[e] THEN got[e] ELSE NoPort]'
        = [e \in Clients |-> IF fin[e] THEN got[e] ELSE NoPort]
    BY <1>1
  <2> QED
    BY <1>1, <2>1, <2>2, <2>3 DEF Connection!Fail
<1> QED
  BY <1>3, <1>4

\* scrivi_su_file reserves a port that no client has.
LEMMA HelloReserves ==
  ASSUME HInv, ReadHello
  PROVE  \E c \in Clients : Connection!Reserve(c)
<1> DEFINE h == Head(srvIn)
           c == h.from
           p == NewPort(h.kind)
<1>1. /\ srv = "hello" /\ srvIn # <<>> /\ srvIn' = Tail(srvIn)
      /\ port' = [port EXCEPT ![c] = p] /\ UNCHANGED <<served, cl, got, fin>>
  BY DEF ReadHello
<1>2. h \in Datagram /\ Arriving(h)
  BY <1>1, RestOfQueue
<1>3. c \in Clients /\ h.kind = "hello" /\ port[c] = NoPort
  <2>1. c \in Clients /\ h.kind = "hello"
    BY <1>1, <1>2 DEF Datagram, Arriving, Exchange, Kinds
  <2> QED
    BY <1>2, <2>1 DEF Arriving
<1>4. p = PORT + numero_client_for_port /\ p \in Nat
  BY <1>3, HandshakeAssumption DEF NewPort, HInv, TypeOK
<1> HIDE DEF p, c
<1>5. port'[c] = p /\ port' = [port EXCEPT ![c] = port'[c]]
  BY <1>1, <1>3 DEF HInv, TypeOK
<1>6. ASSUME NEW d \in Clients PROVE port[d] # p
  <2>1. port[d] \in Nat \cup {NoPort} /\ Bounded(d)
    BY DEF HInv, TypeOK
  <2> QED
    BY <1>1, <1>4, <2>1, HandshakeAssumption DEF Bounded, HInv, TypeOK
<1>7. /\ [e \in Clients |-> Status(e)]' = [e \in Clients |-> Status(e)]
      /\ [e \in Clients |-> IF fin[e] THEN got[e] ELSE NoPort]'
         = [e \in Clients |-> IF fin[e] THEN got[e] ELSE NoPort]
  BY <1>1 DEF Status
<1>8. Connection!Reserve(c)
  BY <1>1, <1>3, <1>4, <1>5, <1>6, <1>7 DEF Connection!Reserve
<1> QED
  BY <1>3, <1>8

\* The thread that main starts serves a client that is sure to connect.
LEMMA ThreadServes ==
  ASSUME HInv, StartThread
  PROVE  \E c \in Clients : Connection!Serve(c)
<1>1. /\ srv = "linger" /\ served' = served \cup {peer} /\ UNCHANGED <<port, cl, got, fin>>
  BY DEF StartThread, clVars
<1>2. /\ peer \in Clients /\ fin[peer] /\ peer \notin served
      /\ cl[peer] # "left" /\ cl[peer] # "crashed"
  BY <1>1 DEF HInv, Serving, Progress, TypeOK
<1>3. [e \in Clients |-> Status(e)][peer] = "in"
  BY <1>2 DEF Status
<1>4. /\ [e \in Clients |-> Status(e)]' = [e \in Clients |-> Status(e)]
      /\ [e \in Clients |-> IF fin[e] THEN got[e] ELSE NoPort]'
         = [e \in Clients |-> IF fin[e] THEN got[e] ELSE NoPort]
  BY <1>1 DEF Status
<1> QED
  BY <1>1, <1>2, <1>3, <1>4 DEF Connection!Serve

\* exit ends the service of a connected client.
LEMMA ExitLeaves ==
  ASSUME HInv, NEW c \in Clients, Exit(c)
  PROVE  Connection!Leave(c)
<1>1. /\ cl[c] = "ready" /\ c \in served /\ cl' = [cl EXCEPT ![c] = "left"]
      /\ served' = served \ {c} /\ UNCHANGED <<port, got, fin>>
  BY DEF Exit
<1>2. fin[c] /\ \A e \in Clients : cl'[e] = IF e = c THEN "left" ELSE cl[e]
  BY <1>1 DEF HInv, Progress, TypeOK
<1>3. [e \in Clients |-> Status(e)][c] = "in"
  BY <1>1, <1>2 DEF Status
<1>4. [e \in Clients |-> Status(e)]' = [[e \in Clients |-> Status(e)] EXCEPT ![c] = "left"]
  <2>1. ASSUME NEW e \in Clients
        PROVE  Status(e)' = IF e = c THEN "left" ELSE Status(e)
    BY <1>1, <1>2 DEF Status
  <2> QED
    BY <2>1
<1>5. [e \in Clients |-> IF fin[e] THEN got[e] ELSE NoPort]'
      = [e \in Clients |-> IF fin[e] THEN got[e] ELSE NoPort]
  BY <1>1
<1> QED
  BY <1>1, <1>3, <1>4, <1>5 DEF Connection!Leave

\* The other steps are not seen.
LEMMA OtherSteps ==
  ASSUME HInv,
         \/ \E c \in Clients : Hello(c) \/ ReceiveMsg(c)
         \/ DropForeign \/ ReadAck \/ ReadFinack \/ SndExpires \/ Tick \/ UNCHANGED vars
  PROVE  UNCHANGED Connection!paVars
<1>1. CASE \E c \in Clients : Hello(c)
  <2>1. PICK c \in Clients : Hello(c)
    BY <1>1
  <2>2. /\ cl[c] = "new" /\ cl' = [cl EXCEPT ![c] = "rcv"] /\ UNCHANGED <<port, served, got, fin>>
    BY <2>1 DEF Hello
  <2>3. \A e \in Clients : cl'[e] = IF e = c THEN "rcv" ELSE cl[e]
    BY <2>2 DEF HInv, TypeOK
  <2>4. \A e \in Clients : HeldBy(e)' = HeldBy(e) /\ Status(e)' = Status(e)
    BY <2>2, <2>3 DEF HeldBy, Status
  <2> QED
    BY <2>2, <2>4, Unseen
<1>2. CASE \E c \in Clients : ReceiveMsg(c)
  <2>1. PICK c \in Clients : ReceiveMsg(c)
    BY <1>2
  <2>2. /\ got' = [got EXCEPT ![c] = Head(inbox[c]).port] /\ UNCHANGED <<port, served, cl, fin>>
    BY <2>1 DEF ReceiveMsg
  <2>3. ~fin[c] /\ \A e \in Clients : e # c => got'[e] = got[e]
    BY <2>1, <2>2 DEF ReceiveMsg, HInv, Delivery, TypeOK
  <2>4. \A e \in Clients : HeldBy(e)' = HeldBy(e) /\ Status(e)' = Status(e)
    BY <2>2, <2>3 DEF HeldBy, Status
  <2> QED
    BY <2>2, <2>4, Unseen
<1>3. CASE Tick
  <2>1. /\ cl' = [c \in Clients |-> IF cl[c] = "linked" THEN "ready" ELSE cl[c]]
        /\ UNCHANGED <<port, served, got, fin>>
    BY <1>3 DEF Tick
  <2>2. \A e \in Clients : HeldBy(e)' = HeldBy(e) /\ Status(e)' = Status(e)
    BY <2>1 DEF HeldBy, Status
  <2> QED
    BY <2>1, <2>2, Unseen
<1>4. CASE DropForeign \/ ReadAck \/ ReadFinack \/ SndExpires \/ UNCHANGED vars
  <2>1. UNCHANGED <<port, served, cl, got, fin>>
    BY <1>4 DEF DropForeign, ReadAck, ReadFinack, SndExpires, clVars, vars, srvVars
  <2>2. \A e \in Clients : HeldBy(e)' = HeldBy(e) /\ Status(e)' = Status(e)
    BY <2>1 DEF HeldBy, Status
  <2> QED
    BY <2>1, <2>2, Unseen
<1> QED
  BY <1>1, <1>2, <1>3, <1>4

LEMMA ConnectionStep ==
  HInv /\ [Next]_vars => [Connection!PANext]_(Connection!paVars)
<1> SUFFICES ASSUME HInv, [Next]_vars
             PROVE  [Connection!PANext]_(Connection!paVars)
  OBVIOUS
<1>1. CASE \E c \in Clients : ReceiveFin(c) \/ RcvExpires(c) \/ Exit(c)
  BY <1>1, FinConnects, NullFails, ExitLeaves DEF Connection!PANext
<1>2. CASE ReadHello \/ StartThread
  BY <1>2, HelloReserves, ThreadServes DEF Connection!PANext
<1> QED
  BY <1>1, <1>2, OtherSteps DEF Next, ClientNext, ServerNext

\* The handshake implements the abstract connection: every client has a port of
\* its own, a client that connects holds the port reserved for it, and the server
\* starts threads only for clients that connect.
THEOREM HandshakeImplementsConnection == Spec => ImplementsConnection
<1>1. Init => Connection!PAInit
  BY ConnectionInit
<1>2. HInv /\ [Next]_vars => [Connection!PANext]_(Connection!paVars)
  BY ConnectionStep
<1> QED
  BY <1>1, <1>2, HInvCorrect, PTL DEF Spec, ImplementsConnection, Connection!PASpec
=============================================================================
