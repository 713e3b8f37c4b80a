----------------------------- MODULE Handshake -----------------------------
(***************************************************************************)
(* How a client gets a port of its own.  It says hello on port 7777; the   *)
(* server's main thread answers with sndMsg, four datagrams long (port,    *)
(* ACK, FIN, FINACK), then binds that port, starts a thread for it, closes *)
(* its main socket and opens it again.  The client's side is rcvMsg.       *)
(*                                                                         *)
(* Time passes in ticks of 0.1 s.  Both ends read a datagram within the    *)
(* tick it arrives in, so Tick waits for what can be read.  Each datagram  *)
(* may be lost; on one host the others arrive in order.                    *)
(***************************************************************************)
EXTENDS Integers, Sequences

CONSTANTS
  Clients,
  PORT,        \* the port of the hello
  NoPort,      \* no port yet: client_info not allocated, message not stored
  SndTimeout,  \* SND_MSG_TIMEOUT, in ticks
  RcvTimeout,  \* RCV_MSG_TIMEOUT
  Linger       \* the usleep of sndMsg after the FINACK

ASSUME HandshakeAssumption ==
  /\ PORT \in Nat /\ NoPort \notin Nat
  /\ SndTimeout \in Nat \ {0} /\ RcvTimeout \in Nat \ {0} /\ Linger \in Nat \ {0}

\* The usleep of sndMsg and RCV_MSG_TIMEOUT are both 1000000 microseconds.
ASSUME TimingAssumption == Linger <= RcvTimeout

VARIABLES
  srv,       \* main: "hello", "snd" in sndMsg's loop, "linger", or "down"
  peer,      \* the client it answers (meaningless in "hello")
  cont,      \* receive timeouts of sndMsg in a row
  srvLeft,   \* ticks until its timeout, or until usleep returns
  srvIn,     \* datagrams queued at port 7777
  numero_client, numero_client_for_port,
  port,      \* client_info->port of each client
  served,    \* clients with a bound port and a thread
  lost,      \* history: datagrams to and from each client lost so far
  busy,      \* history: clients that said hello before the server listened
  cl,        \* client: "new", "rcv" in rcvMsg, "linked" when it returned,
             \* "ready" a tick later, "crashed" or "left"
  got,       \* the port rcvMsg has stored in message
  fin,       \* rcvMsg's FIN
  left,      \* ticks until the client's timeout
  inbox      \* datagrams queued at the client's socket

srvVars == <<srv, peer, cont, srvLeft, srvIn, numero_client, numero_client_for_port,
             port, served, lost, busy>>
clVars == <<cl, got, fin, left, inbox>>
vars == <<srvVars, clVars>>

Kinds == {"hello", "ACK", "FINACK"}
Msg(k, p) == [kind |-> k, port |-> p]  \* to a client: "port" or "FIN"

TypeOK ==
  /\ srv \in {"hello", "snd", "linger", "down"}
  /\ peer \in Clients
  /\ cont \in 0..2
  /\ srvLeft \in Nat
  /\ srvIn \in Seq([from: Clients, kind: Kinds])
  /\ numero_client \in Int /\ numero_client_for_port \in Nat
  /\ port \in [Clients -> Nat \cup {NoPort}]
  /\ served \in SUBSET Clients
  /\ lost \in [Clients -> Nat]
  /\ busy \in SUBSET Clients
  /\ cl \in [Clients -> {"new", "rcv", "linked", "ready", "crashed", "left"}]
  /\ got \in [Clients -> Nat \cup {NoPort}]
  /\ fin \in [Clients -> BOOLEAN]
  /\ left \in [Clients -> Nat]
  /\ inbox \in [Clients -> Seq([kind: {"port", "FIN"}, port: Nat \cup {NoPort}])]

Init ==
  /\ srv = "hello" /\ peer \in Clients
  /\ cont = 0 /\ srvLeft = 0 /\ srvIn = <<>>
  /\ lost = [c \in Clients |-> 0] /\ busy = {}
  /\ numero_client = 1 /\ numero_client_for_port = 1
  /\ port = [c \in Clients |-> NoPort] /\ served = {}
  /\ cl = [c \in Clients |-> "new"]
  /\ got = [c \in Clients |-> NoPort]
  /\ fin = [c \in Clients |-> FALSE]
  /\ left = [c \in Clients |-> 0]
  /\ inbox = [c \in Clients |-> <<>>]

-----------------------------------------------------------------------------
\* A datagram to the server, lost if ok is false or if nobody holds the port.
ToServer(c, k, ok) ==
  srvIn' = IF ok /\ srv # "down" THEN Append(srvIn, [from |-> c, kind |-> k]) ELSE srvIn

\* A datagram to client c, lost if ok is false.
ToClient(c, m, ok) ==
  inbox' = IF ok THEN [inbox EXCEPT ![c] = Append(@, m)] ELSE inbox

CountLoss(c, ok) == lost' = IF ok THEN lost ELSE [lost EXCEPT ![c] = @ + 1]

\* Client main: the hello is sent once; rcvMsg starts to wait.
Hello(c) ==
  /\ cl[c] = "new"
  /\ \E ok \in BOOLEAN : ToServer(c, "hello", ok) /\ CountLoss(c, ok)
  /\ busy' = IF srv = "hello" /\ srvIn = <<>> THEN busy ELSE busy \cup {c}
  /\ cl' = [cl EXCEPT ![c] = "rcv"]
  /\ left' = [left EXCEPT ![c] = RcvTimeout]
  /\ UNCHANGED <<srv, peer, cont, srvLeft, numero_client, numero_client_for_port,
                 port, served, got, fin, inbox>>

\* rcvMsg, a message that is not FIN: store it and send ACK.
ReceiveMsg(c) ==
  /\ cl[c] = "rcv" /\ inbox[c] # <<>> /\ Head(inbox[c]).kind # "FIN"
  /\ got' = [got EXCEPT ![c] = Head(inbox[c]).port]
  /\ inbox' = [inbox EXCEPT ![c] = Tail(@)]
  /\ left' = [left EXCEPT ![c] = RcvTimeout]
  /\ \E ok \in BOOLEAN : ToServer(c, "ACK", ok) /\ CountLoss(c, ok)
  /\ UNCHANGED <<busy, srv, peer, cont, srvLeft, numero_client, numero_client_for_port,
                 port, served, cl, fin>>

\* A slip of ReceiveFin: rcvMsg returns at the FIN, without waiting another second.
ReceiveFinSlip(c) ==
  /\ cl[c] = "rcv" /\ inbox[c] # <<>> /\ Head(inbox[c]).kind = "FIN"
  /\ fin' = [fin EXCEPT ![c] = TRUE]
  /\ cl' = [cl EXCEPT ![c] = "linked"]
  /\ inbox' = [inbox EXCEPT ![c] = Tail(@)]
  /\ \E ok \in BOOLEAN : ToServer(c, "FINACK", ok) /\ CountLoss(c, ok)
  /\ UNCHANGED <<busy, srv, peer, cont, srvLeft, numero_client, numero_client_for_port,
                 port, served, got, left>>

\* rcvMsg, FIN: send FINACK.
ReceiveFin(c) ==
  /\ cl[c] = "rcv" /\ inbox[c] # <<>> /\ Head(inbox[c]).kind = "FIN"
  /\ fin' = [fin EXCEPT ![c] = TRUE]
  /\ inbox' = [inbox EXCEPT ![c] = Tail(@)]
  /\ left' = [left EXCEPT ![c] = RcvTimeout]
  /\ \E ok \in BOOLEAN : ToServer(c, "FINACK", ok) /\ CountLoss(c, ok)
  /\ UNCHANGED <<busy, srv, peer, cont, srvLeft, numero_client, numero_client_for_port,
                 port, served, cl, got>>

\* A slip of RcvExpires: without a FIN it waits again.
RcvExpiresSlip(c) ==
  /\ cl[c] = "rcv" /\ left[c] = 0
  /\ cl' = [cl EXCEPT ![c] = IF fin[c] THEN "linked" ELSE "rcv"]
  /\ left' = [left EXCEPT ![c] = RcvTimeout]
  /\ UNCHANGED <<srvVars, got, fin, inbox>>

\* rcvMsg times out: after a FIN it returns the message, else NULL, and
\* atoi(NULL) ends the client.
RcvExpires(c) ==
  /\ cl[c] = "rcv" /\ left[c] = 0
  /\ cl' = [cl EXCEPT ![c] = IF fin[c] THEN "linked" ELSE "crashed"]
  /\ UNCHANGED <<srvVars, got, fin, left, inbox>>

-----------------------------------------------------------------------------
\* A slip of NewPort: the number of connected clients is added to 7777.
NewPortSlip(text) == (IF text = "hello" THEN PORT ELSE 0) + numero_client

\* scrivi_su_file: the number in the text plus numero_client_for_port.  Both
\* fopen("w+") leave porte_attive.txt empty, so its retry never runs.
NewPort(text) == (IF text = "hello" THEN PORT ELSE 0) + numero_client_for_port

\* main takes the first datagram for a hello; sndMsg sends the port.
ReadHello ==
  /\ srv = "hello" /\ srvIn # <<>>
  /\ LET h == Head(srvIn)
         p == NewPort(h.kind)
     IN  /\ peer' = h.from
         /\ port' = [port EXCEPT ![h.from] = p]
         /\ \E ok \in BOOLEAN :
              ToClient(h.from, Msg("port", p), ok) /\ CountLoss(h.from, ok)
  /\ srvIn' = Tail(srvIn)
  /\ srv' = "snd" /\ cont' = 0 /\ srvLeft' = SndTimeout
  /\ UNCHANGED <<busy, numero_client, numero_client_for_port, served, cl, got, fin, left>>

\* A slip of DropForeign: the sender is not compared, and a hello is unexpected.
DropForeignSlip ==
  /\ srv = "snd" /\ srvIn # <<>> /\ Head(srvIn).from # peer
  /\ srvIn' = Tail(srvIn)
  /\ srv' = "down"
  /\ UNCHANGED <<busy, peer, cont, srvLeft, numero_client, numero_client_for_port, port, served,
                 lost, clVars>>

\* sndMsg drops a datagram of another client; its recvfrom starts anew.
DropForeign ==
  /\ srv = "snd" /\ srvIn # <<>> /\ Head(srvIn).from # peer
  /\ srvIn' = Tail(srvIn)
  /\ srvLeft' = SndTimeout
  /\ UNCHANGED <<busy, srv, peer, cont, numero_client, numero_client_for_port, port, served,
                 lost, clVars>>

\* sndMsg, ACK: send FIN.
ReadAck ==
  /\ srv = "snd" /\ srvIn # <<>> /\ Head(srvIn).from = peer /\ Head(srvIn).kind = "ACK"
  /\ \E ok \in BOOLEAN : ToClient(peer, Msg("FIN", NoPort), ok) /\ CountLoss(peer, ok)
  /\ srvIn' = Tail(srvIn)
  /\ cont' = 0 /\ srvLeft' = SndTimeout
  /\ UNCHANGED <<busy, srv, peer, numero_client, numero_client_for_port, port, served,
                 cl, got, fin, left>>

\* sndMsg, FINACK: sleep, then return true.
ReadFinack ==
  /\ srv = "snd" /\ srvIn # <<>> /\ Head(srvIn).from = peer /\ Head(srvIn).kind = "FINACK"
  /\ srvIn' = Tail(srvIn)
  /\ srv' = "linger" /\ cont' = 0 /\ srvLeft' = Linger
  /\ UNCHANGED <<busy, peer, numero_client, numero_client_for_port, port, served, lost, clVars>>

\* A slip of SndExpires: it gives up at the fourth timeout.
SndExpiresLateSlip ==
  /\ srv = "snd" /\ srvLeft = 0
  /\ \/ cont < 3 /\ cont' = cont + 1 /\ srvLeft' = SndTimeout /\ UNCHANGED srv
     \/ cont = 3 /\ srv' = "down" /\ UNCHANGED <<cont, srvLeft>>
  /\ UNCHANGED <<busy, peer, srvIn, numero_client, numero_client_for_port, port, served,
                 lost, clVars>>

\* A slip of SndExpires: a timeout is not counted.
SndExpiresSlip ==
  /\ srv = "snd" /\ srvLeft = 0
  /\ srvLeft' = SndTimeout
  /\ UNCHANGED <<busy, srv, cont, peer, srvIn, numero_client, numero_client_for_port, port, served,
                 lost, clVars>>

\* sndMsg times out.  The continue repeats the recvfrom, not the sendto; at the
\* third timeout in a row sndMsg returns false and main, the whole server, ends.
SndExpires ==
  /\ srv = "snd" /\ srvLeft = 0
  /\ \/ cont < 2 /\ cont' = cont + 1 /\ srvLeft' = SndTimeout /\ UNCHANGED srv
     \/ cont = 2 /\ srv' = "down" /\ UNCHANGED <<cont, srvLeft>>
  /\ UNCHANGED <<busy, peer, srvIn, numero_client, numero_client_for_port, port, served,
                 lost, clVars>>

\* main binds the client's port, starts its thread and opens port 7777 anew:
\* what was queued there is discarded.
StartThread ==
  /\ srv = "linger" /\ srvLeft = 0
  /\ served' = served \cup {peer}
  /\ srv' = "hello" /\ srvIn' = <<>>
  /\ numero_client' = numero_client + 1
  /\ numero_client_for_port' = numero_client_for_port + 1
  /\ UNCHANGED <<busy, peer, cont, srvLeft, port, lost, clVars>>

\* The client's command exit, read by its thread.
Exit(c) ==
  /\ cl[c] = "ready" /\ c \in served /\ srv # "down"
  /\ cl' = [cl EXCEPT ![c] = "left"]
  /\ served' = served \ {c}
  /\ numero_client' = numero_client - 1
  /\ UNCHANGED <<busy, srv, peer, cont, srvLeft, srvIn, numero_client_for_port, port, lost,
                 got, fin, left, inbox>>

-----------------------------------------------------------------------------
Waiting(c) == cl[c] = "rcv"
Timed == srv \in {"snd", "linger"}

\* A tenth of a second in which nothing can be read and no timeout expires.
Tick ==
  /\ srv \in {"hello", "snd"} => srvIn = <<>>
  /\ \A c \in Clients : Waiting(c) => inbox[c] = <<>> /\ left[c] > 0
  /\ Timed => srvLeft > 0
  /\ srvLeft' = IF Timed THEN srvLeft - 1 ELSE srvLeft
  /\ left' = [c \in Clients |-> IF Waiting(c) THEN left[c] - 1 ELSE left[c]]
  /\ cl' = [c \in Clients |-> IF cl[c] = "linked" THEN "ready" ELSE cl[c]]
  /\ UNCHANGED <<busy, srv, peer, cont, srvIn, numero_client, numero_client_for_port, port,
                 served, lost, got, fin, inbox>>

ServerNext ==
  ReadHello \/ DropForeign \/ ReadAck \/ ReadFinack \/ SndExpires \/ StartThread

ClientNext(c) == ReceiveMsg(c) \/ ReceiveFin(c) \/ RcvExpires(c)

Next ==
  \/ \E c \in Clients : Hello(c) \/ ClientNext(c) \/ Exit(c)
  \/ ServerNext
  \/ Tick

Spec == Init /\ [][Next]_vars

\* The system calls return when they can, and time passes.
FairSpec ==
  /\ Spec
  /\ WF_vars(ServerNext) /\ WF_vars(Tick)
  /\ \A c \in Clients : WF_vars(ClientNext(c))

-----------------------------------------------------------------------------
\* The connection as PortAllocation sees it: a client is in as soon as it has
\* the FIN, for then rcvMsg can only return its port.
Status(c) ==
  CASE cl[c] = "crashed" -> "failed"
    [] cl[c] = "left"    -> "left"
    [] OTHER             -> IF fin[c] THEN "in" ELSE "out"

Connection ==
  INSTANCE PortAllocation WITH
    reserved <- port,
    held <- [c \in Clients |-> IF fin[c] THEN got[c] ELSE NoPort],
    status <- [c \in Clients |-> Status(c)],
    serving <- served

\* Each client that connects holds the port reserved for it and for no other,
\* and the server starts a thread only for a client that connects.
ImplementsConnection == Connection!PASpec

\* A client that rcvMsg gave a port finds it bound a tick later, although the
\* server binds it only after the exchange, unless its FINACK was lost: then
\* the server still waits for it, or has ended.
BoundInTime ==
  \A c \in Clients :
    cl[c] = "ready" => c \in served \/ srv = "down" \/ (srv = "snd" /\ peer = c)

\* sndMsg comes to an end, however many other clients say hello.
SndMsgReturns == srv = "snd" ~> srv # "snd"

\* rcvMsg comes to an end.
RcvMsgReturns == \A c \in Clients : Waiting(c) ~> ~Waiting(c)

\* sndMsg's comment: a packet is sent up to three times before it gives up.
GivesUpAfterThreeLosses == srv = "down" => lost[peer] >= 3

\* A client that says hello while the server listens is given its port unless a
\* datagram of its own exchange is lost, whatever other clients do meanwhile.
CrashHasCause ==
  \A c \in Clients : cl[c] = "crashed" => lost[c] > 0 \/ c \in busy
=============================================================================
