--------------------------- MODULE SessionProofs ---------------------------
(***************************************************************************)
(* The properties of Session that TLC checks for three commands, for every *)
(* number of commands and every size of the socket buffers.  The first     *)
(* half needs nothing: with datagrams lost, with a user who does not wait, *)
(* what is queued at either socket is in the order of the commands, and a  *)
(* command is taken before anything else of its socket.  The second half   *)
(* is the calm session.                                                    *)
(***************************************************************************)
EXTENDS Session, SequenceTheorems, TLAPS

CmdOps == {"get", "put", "list", "exit", "other"}

\* What is queued at the client's port of the server, told by what it can be.
Datagrams == [from: Sockets,
              op: CmdOps \cup {"size", "Error_path", "data", "final", "ack", "finack", "probe"},
              arg: {"file", "void", "missing", "noname", "name", "small", "large", "empty", "none"}]

\* The last command of which the server has read a datagram, as far as it knows.
Seen == IF spc \in {"snd", "fin", "rcv"} THEN si_other ELSE job

TypeInv ==
  /\ TypeOK
  /\ inbox \in Seq(ToCl) /\ srvIn \in Seq(Datagrams)
  /\ from = job
  /\ spc # "cmd" => job # 0
  /\ cpc # "prompt" => sock # 0

\* The datagrams to the server are in the order of their sockets, none of them
\* from before the last one read.
OrderInv ==
  /\ \A i, j \in DOMAIN srvIn : i <= j => srvIn[i].from <= srvIn[j].from
  /\ \A i \in DOMAIN srvIn : Seen <= srvIn[i].from

\* A command that is queued is the first datagram of its socket.  Its client is
\* waiting for the answer, unless the command is a put without a file, after
\* which it prompts at once.
CommandsWait == \A i \in DOMAIN srvIn : srvIn[i].op \in CmdOps =>
  /\ Seen < srvIn[i].from
  /\ \A j \in 1..i-1 : srvIn[j].from < srvIn[i].from
  /\ srvIn[i].from # sock => srvIn[i].op = "put"
  /\ srvIn[i].from = sock =>
       srvIn[i].op = cmd.op /\ srvIn[i].arg = Name(cmd) /\ inbox = <<>> /\ cpc = FirstWait(cmd)

\* Only an upload is at sendFile, and it is nowhere else.
Uploading == cmd.op = "put" /\ cmd.arg \in {"small", "large"}
ClientInv ==
  /\ cpc = "snd" => Uploading
  /\ cpc = "fin" => HasFile(cmd)
  /\ HasFile(cmd) => cpc \in {"snd", "fin", "prompt"}

\* What the server does for the command the client is at.  It sends blocks to the
\* client that asked for them, and to nobody else: the client cannot be at its
\* next command before the final packet.
StageInv ==
  /\ spc = "snd" => /\ job = sock /\ si_other = sock /\ cpc \in {"first", "recv"}
                    /\ \A i \in DOMAIN inbox : inbox[i].op = "data"
  /\ job = sock /\ spc \in {"snd", "fin"} => cmd.op = "get" /\ cmd.arg = "file"
  /\ job = sock /\ spc \in {"size", "rcv"} => cmd.op = "put" /\ cmd.arg # "noname"

\* A client that got an answer, of whatever, has nothing of an earlier command left
\* in the queue of the server; before it, rcvFile does not know the client.
Untouched == inbox = <<>> /\ cpc = FirstWait(cmd)
StartInv ==
  /\ ~ Untouched => \A i \in DOMAIN srvIn : srvIn[i].from = sock
  /\ spc = "size" => Untouched
  /\ spc = "rcv" /\ si_other # sock => Untouched

StrayInv ==
  /\ OnlyTransferStrays
  /\ \A i \in DOMAIN inbox : inbox[i].of = sock /\ inbox[i].op = "final" => cmd.op = "get"

\* Blocks come from uploads.  A rcvFile, now or after a put that is queued, reads
\* those of the last command alone.
DataInv ==
  /\ \A i \in DOMAIN srvIn : srvIn[i].from = sock =>
       (srvIn[i].op = "data" => Uploading) /\ (srvIn[i].op = "final" => HasFile(cmd))
  /\ \A j \in DOMAIN srvIn : srvIn[j].op = "data" =>
       /\ spc \in {"size", "rcv"} => srvIn[j].from = sock
       /\ \A i \in 1..j-1 : srvIn[i].op = "put" => srvIn[j].from = sock

\* So a rcvFile has the block of the last command or none, be it for an earlier put;
\* and while it runs the client of an upload has not ended.
RcvInv == spc \in {"size", "rcv"} =>
  /\ sfile = 0 \/ (sfile = sock /\ Uploading)
  /\ sfile = 0 => sack = "probe"
  /\ spc = "size" => sfile = 0
  /\ HasFile(cmd) => cpc \in {"snd", "fin"}
  /\ spc = "rcv" => \A i \in DOMAIN inbox : inbox[i].op \in {"ack", "probe"}
  /\ spc = "rcv" /\ si_other # job => si_other = sock /\ HasFile(cmd)

\* An upload of a file that is not empty: while the server has not its block, the
\* client has no answer that reads as an ACK of it, so it has sent no final packet.
\* The final packet of an earlier get reaches it at its start or never.
Stored == \E r \in received : r.block = sock
PutInv == Uploading =>
  /\ cpc = "prompt" => Stored
  /\ \A i \in DOMAIN inbox : inbox[i].op = "finack" => Stored
  /\ \A i \in DOMAIN srvIn : srvIn[i].op = "final" /\ srvIn[i].from = sock => cpc # "snd"
  /\ spc \in {"size", "rcv"} /\ sfile # sock =>
       cpc = "snd" /\ sack = "probe" /\ \A i \in DOMAIN inbox : inbox[i].op = "probe"
  /\ \A j \in DOMAIN inbox : inbox[j].op = "final" => \A i \in 1..j : inbox[i].op = "final"
  /\ cpc = "fin" => \A i \in DOMAIN inbox : inbox[i].op # "final"
  /\ spc \in {"snd", "fin"} => cpc = "snd" /\ \A i \in DOMAIN inbox : inbox[i].op = "final"

\* What both sides know of each other.
PartsInv == ClientInv /\ StageInv /\ StartInv /\ StrayInv /\ DataInv /\ RcvInv /\ PutInv

IInv == TypeInv /\ OrderInv /\ CommandsWait /\ PartsInv

-----------------------------------------------------------------------------
\* Queues.
LEMMA TailIs ==
  ASSUME NEW S, NEW q \in Seq(S), q # <<>>
  PROVE  /\ Tail(q) \in Seq(S) /\ Len(q) >= 1 /\ Head(q) = q[1] /\ q[1] \in S
         /\ Len(Tail(q)) = Len(q) - 1
         /\ \A i \in 1..Len(q)-1 : Tail(q)[i] = q[i+1]
<1>1. Len(q) >= 1 /\ Len(q) \in Nat
  BY EmptySeq, LenProperties
<1>2. Tail(q) \in Seq(S) /\ Head(q) = q[1] /\ Len(Tail(q)) = Len(q) - 1
      /\ \A i \in 1..Len(q)-1 : Tail(q)[i] = q[i+1]
  BY <1>1, HeadTailProperties
<1> QED
  BY <1>1, <1>2, ElementOfSeq

LEMMA AppendIs ==
  ASSUME NEW S, NEW q \in Seq(S), NEW m \in S
  PROVE  /\ Append(q, m) \in Seq(S) /\ Len(Append(q, m)) = Len(q) + 1 /\ Append(q, m) # <<>>
         /\ \A i \in 1..Len(q) : Append(q, m)[i] = q[i]
         /\ Append(q, m)[Len(q)+1] = m
BY AppendProperties, LenProperties

LEMMA PairIs == ASSUME NEW S, NEW a \in S, NEW b \in S PROVE <<a>> \o <<b>> = <<a, b>>
<1>1. <<a>> \in Seq(S) /\ <<b>> \in Seq(S)
  OBVIOUS
<1> DEFINE p == <<a>> \o <<b>>
           t == <<a, b>>
<1>2. p \in Seq(S) /\ Len(p) = 2 /\ p[1] = a /\ p[2] = b
  BY <1>1, ConcatProperties
<1>3. t \in Seq(S) /\ Len(t) = 2 /\ t[1] = a /\ t[2] = b
  OBVIOUS
<1> HIDE DEF p, t
<1>4. \A i \in 1..Len(p) : p[i] = t[i]
  BY <1>2, <1>3
<1>5. p = t
  BY <1>2, <1>3, <1>4, SeqEqual
<1> QED
  BY <1>5 DEF p, t

\* What a queue q is after datagrams were sent to it: after m, and after a and b.
QueuedOne(q, m, r) ==
  /\ r = q \/ r = Append(q, m)
  /\ Len(q) <= ChanCap => Len(r) <= ChanCap
  /\ Fault(r, q, <<m>>) = {} => r = Append(q, m)
  /\ Fault(r, q, <<m>>) \in {{}, {"loss"}}

QueuedTwo(q, a, b, r) ==
  /\ r \in {q, Append(q, a), Append(q, b), Append(Append(q, a), b)}
  /\ Len(q) <= ChanCap => Len(r) <= ChanCap
  /\ Fault(r, q, <<a, b>>) = {} => r = Append(Append(q, a), b)
  /\ Fault(r, q, <<a, b>>) \in {{}, {"loss"}}

LEMMA SentOne ==
  ASSUME NEW S, NEW q \in Seq(S), NEW m \in S, NEW r \in Sent(q, <<m>>), ChanCap \in Nat
  PROVE  QueuedOne(q, m, r)
<1> DEFINE ms == <<m>>
<1>1. PICK u \in {ms, <<>>} \cup {<<ms[i]>> : i \in DOMAIN ms} : r = q \o u /\ Len(q) + Len(u) <= ChanCap
  BY DEF Sent
<1>2. u = <<m>> \/ u = <<>>
  BY <1>1
<1>3. q \o <<m>> = Append(q, m) /\ q \o <<>> = q
  BY ConcatEmptySeq, AppendIsConcat
<1>4. Len(Append(q, m)) = Len(q) + 1 /\ Len(q) \in Nat
  BY AppendIs, LenProperties
<1> QED
  BY <1>1, <1>2, <1>3, <1>4 DEF Fault, QueuedOne

LEMMA SentNone ==
  ASSUME NEW S, NEW q \in Seq(S), NEW r \in Sent(q, <<>>)
  PROVE  r = q /\ Fault(r, q, <<>>) = {}
<1>1. PICK u \in {<<>>} : r = q \o u
  BY DEF Sent
<1> QED
  BY <1>1, ConcatEmptySeq DEF Fault

LEMMA SentTwo ==
  ASSUME NEW S, NEW q \in Seq(S), NEW a \in S, NEW b \in S, NEW r \in Sent(q, <<a, b>>), ChanCap \in Nat
  PROVE  QueuedTwo(q, a, b, r)
<1> DEFINE ms == <<a, b>>
<1>1. PICK u \in {ms, <<>>} \cup {<<ms[i]>> : i \in DOMAIN ms} : r = q \o u /\ Len(q) + Len(u) <= ChanCap
  BY DEF Sent
<1>2. u = <<a, b>> \/ u = <<>> \/ u = <<a>> \/ u = <<b>>
  BY <1>1
<1>3. q \o <<a>> = Append(q, a) /\ q \o <<b>> = Append(q, b) /\ q \o <<>> = q
  BY ConcatEmptySeq, AppendIsConcat
<1>4. Append(q, a) \in Seq(S) /\ Len(Append(q, a)) = Len(q) + 1 /\ Len(Append(q, b)) = Len(q) + 1
  BY AppendIs
<1>5. Append(Append(q, a), b) = Append(q, a) \o <<b>>
  BY <1>4, AppendIsConcat
<1>6. Append(q, a) \o <<b>> = q \o <<a, b>>
  <2>1. <<a>> \in Seq(S) /\ <<b>> \in Seq(S)
    OBVIOUS
  <2>2. <<a>> \o <<b>> = <<a, b>>
    BY PairIs
  <2>3. (q \o <<a>>) \o <<b>> = q \o (<<a>> \o <<b>>)
    BY <2>1, ConcatAssociative
  <2> QED
    BY <1>3, <2>2, <2>3
<1>7. q \o <<a, b>> = Append(Append(q, a), b)
  BY <1>5, <1>6
<1>8. Len(Append(Append(q, a), b)) = Len(q) + 2 /\ Len(q) \in Nat
  BY <1>4, AppendIs, LenProperties
<1>9. Len(<<a, b>>) = 2 /\ Len(<<a>>) = 1 /\ Len(<<b>>) = 1 /\ Len(<<>>) = 0
  OBVIOUS
<1> QED
  BY <1>1, <1>2, <1>3, <1>4, <1>7, <1>8, <1>9 DEF Fault, QueuedTwo

-----------------------------------------------------------------------------
\* What the steps do to the queues.
ClOps == {"count", "name", "warn", "FAIL", "invalid", "bye", "data", "final", "ack", "finack", "probe"}
Faults == {"loss", "haste", "early"}

\* A datagram to the server is queued or lost; in a calm session it is queued.
LEMMA ServerHears ==
  ASSUME TypeInv, NEW m \in Datagrams, NEW f \in SUBSET Faults, ToServer(<<m>>, f)
  PROVE  /\ srvIn' = srvIn \/ srvIn' = Append(srvIn, m)
         /\ srvIn' \in Seq(Datagrams) /\ Len(srvIn') <= ChanCap
         /\ faults' \subseteq Faults /\ faults \subseteq faults'
         /\ Calm' => srvIn' = Append(srvIn, m) /\ f \subseteq {"early"} /\ Calm
<1>0. ChanCap \in Nat
  BY SessionAssumption
<1> USE <1>0
<1>1. srvIn \in Seq(Datagrams) /\ Len(srvIn) <= ChanCap /\ faults \subseteq Faults
  BY DEF TypeInv, TypeOK, Faults
<1>2. srvIn' \in Sent(srvIn, <<m>>) /\ faults' = faults \cup f \cup Fault(srvIn', srvIn, <<m>>)
  BY DEF ToServer
<1>3. QueuedOne(srvIn, m, srvIn')
  BY <1>1, <1>2, SentOne
<1>4. srvIn' \in Seq(Datagrams)
  BY <1>1, <1>3, AppendIs DEF QueuedOne
<1> QED
  BY <1>1, <1>2, <1>3, <1>4, Zenon DEF Faults, Calm, QueuedOne

\* So with a command and the size of its file.
LEMMA ServerHearsTwo ==
  ASSUME TypeInv, NEW a \in Datagrams, NEW b \in Datagrams,
         NEW f \in SUBSET Faults, ToServer(<<a, b>>, f)
  PROVE  /\ srvIn' \in {srvIn, Append(srvIn, a), Append(srvIn, b), Append(Append(srvIn, a), b)}
         /\ srvIn' \in Seq(Datagrams) /\ Len(srvIn') <= ChanCap
         /\ faults' \subseteq Faults /\ faults \subseteq faults'
         /\ Calm' => srvIn' = Append(Append(srvIn, a), b) /\ f \subseteq {"early"} /\ Calm
<1>0. ChanCap \in Nat
  BY SessionAssumption
<1> USE <1>0
<1>1. srvIn \in Seq(Datagrams) /\ Len(srvIn) <= ChanCap /\ faults \subseteq Faults
  BY DEF TypeInv, TypeOK, Faults
<1>2. srvIn' \in Sent(srvIn, <<a, b>>) /\ faults' = faults \cup f \cup Fault(srvIn', srvIn, <<a, b>>)
  BY DEF ToServer
<1>3. QueuedTwo(srvIn, a, b, srvIn')
  BY <1>1, <1>2, SentTwo
<1>4. srvIn' \in Seq(Datagrams)
  <2>1. Append(srvIn, a) \in Seq(Datagrams) /\ Append(srvIn, b) \in Seq(Datagrams)
    BY <1>1, AppendIs
  <2>2. Append(Append(srvIn, a), b) \in Seq(Datagrams)
    BY <2>1, AppendIs
  <2> QED
    BY <1>1, <1>3, <2>1, <2>2 DEF QueuedTwo
<1> QED
  BY <1>1, <1>2, <1>3, <1>4, Zenon DEF Faults, Calm, QueuedTwo

\* A datagram to a socket is queued if it is the one of the last command.
LEMMA ClientHears ==
  ASSUME TypeInv, NEW k, NEW of \in Sockets, NEW op \in ClOps, NEW f \in SUBSET Faults,
         ToClient(k, of, <<op>>, f)
  PROVE  /\ inbox' = inbox \/ (k = sock /\ inbox' = Append(inbox, [of |-> of, op |-> op]))
         /\ inbox' \in Seq(ToCl) /\ Len(inbox') <= ChanCap
         /\ faults' \subseteq Faults /\ faults \subseteq faults'
         /\ Calm' => /\ k = sock => inbox' = Append(inbox, [of |-> of, op |-> op])
                     /\ Calm
<1>0. ChanCap \in Nat
  BY SessionAssumption
<1> USE <1>0
<1> DEFINE m == [of |-> of, op |-> op]
           ops == <<op>>
           ms == IF k = sock THEN [i \in DOMAIN ops |-> [of |-> of, op |-> ops[i]]] ELSE <<>>
<1>1. inbox \in Seq(ToCl) /\ Len(inbox) <= ChanCap /\ faults \subseteq Faults
  BY DEF TypeInv, TypeOK, Faults
<1>2. inbox' \in Sent(inbox, ms) /\ faults' = faults \cup f \cup Fault(inbox', inbox, ms)
  BY DEF ToClient
<1>3. m \in ToCl
  BY DEF ToCl, ClOps
<1> HIDE DEF m
<1>4. CASE k # sock
  <2>1. inbox' \in Sent(inbox, <<>>) /\ faults' = faults \cup f \cup Fault(inbox', inbox, <<>>)
    BY <1>2, <1>4
  <2>2. inbox' = inbox /\ Fault(inbox', inbox, <<>>) = {}
    BY <1>1, <2>1, SentNone
  <2> QED
    BY <1>1, <1>4, <2>1, <2>2, Zenon DEF Faults, Calm
<1>5. CASE k = sock
  <2>1. [i \in DOMAIN ops |-> [of |-> of, op |-> ops[i]]] = <<m>>
    BY DEF m
  <2>2. inbox' \in Sent(inbox, <<m>>) /\ faults' = faults \cup f \cup Fault(inbox', inbox, <<m>>)
    BY <1>2, <1>5, <2>1
  <2>3. QueuedOne(inbox, m, inbox')
    BY <1>1, <1>3, <2>2, SentOne
  <2>4. inbox' \in Seq(ToCl)
    <3>1. Append(inbox, m) \in Seq(ToCl)
      BY <1>1, <1>3, AppendIs
    <3> QED
      BY <1>1, <2>3, <3>1 DEF QueuedOne
  <2>5. /\ faults' \subseteq Faults /\ faults \subseteq faults'
        /\ Calm' => inbox' = Append(inbox, m) /\ Calm
    BY <1>1, <2>2, <2>3, Zenon DEF Faults, Calm, QueuedOne
  <2> QED
    BY <1>1, <1>5, <2>3, <2>4, <2>5 DEF m, QueuedOne
<1> QED
  BY <1>4, <1>5

\* So with the two datagrams of a list.
LEMMA ClientHearsTwo ==
  ASSUME TypeInv, NEW k, NEW of \in Sockets, NEW f \in SUBSET Faults,
         ToClient(k, of, <<"count", "name">>, f)
  PROVE  LET a == [of |-> of, op |-> "count"]  b == [of |-> of, op |-> "name"] IN
         /\ \/ inbox' = inbox
            \/ k = sock /\ inbox' \in {Append(inbox, a), Append(inbox, b), Append(Append(inbox, a), b)}
         /\ inbox' \in Seq(ToCl) /\ Len(inbox') <= ChanCap
         /\ faults' \subseteq Faults /\ faults \subseteq faults'
         /\ Calm' => /\ k = sock => inbox' = Append(Append(inbox, a), b)
                     /\ Calm
<1>0. ChanCap \in Nat
  BY SessionAssumption
<1> USE <1>0
<1> DEFINE a == [of |-> of, op |-> "count"]
           b == [of |-> of, op |-> "name"]
           ops == <<"count", "name">>
           ms == IF k = sock THEN [i \in DOMAIN ops |-> [of |-> of, op |-> ops[i]]] ELSE <<>>
<1>1. inbox \in Seq(ToCl) /\ Len(inbox) <= ChanCap /\ faults \subseteq Faults
  BY DEF TypeInv, TypeOK, Faults
<1>2. inbox' \in Sent(inbox, ms) /\ faults' = faults \cup f \cup Fault(inbox', inbox, ms)
  BY DEF ToClient
<1>3. a \in ToCl /\ b \in ToCl
  BY DEF ToCl
<1> HIDE DEF a, b
<1>4. CASE k # sock
  <2>1. inbox' \in Sent(inbox, <<>>) /\ faults' = faults \cup f \cup Fault(inbox', inbox, <<>>)
    BY <1>2, <1>4
  <2>2. inbox' = inbox /\ Fault(inbox', inbox, <<>>) = {}
    BY <1>1, <2>1, SentNone
  <2>3. /\ faults' \subseteq Faults /\ faults \subseteq faults'
        /\ Calm' => Calm
    BY <1>1, <2>1, <2>2, Zenon DEF Faults, Calm
  <2> QED
    BY <1>1, <1>4, <2>2, <2>3 DEF a, b
<1>5. CASE k = sock
  <2>1. [i \in DOMAIN ops |-> [of |-> of, op |-> ops[i]]] = <<a, b>>
    BY DEF a, b
  <2>2. inbox' \in Sent(inbox, <<a, b>>) /\ faults' = faults \cup f \cup Fault(inbox', inbox, <<a, b>>)
    BY <1>2, <1>5, <2>1
  <2>3. QueuedTwo(inbox, a, b, inbox')
    BY <1>1, <1>3, <2>2, SentTwo
  <2>4. inbox' \in Seq(ToCl)
    <3>1. Append(inbox, a) \in Seq(ToCl) /\ Append(inbox, b) \in Seq(ToCl)
      BY <1>1, <1>3, AppendIs
    <3>2. Append(Append(inbox, a), b) \in Seq(ToCl)
      BY <1>3, <3>1, AppendIs
    <3> QED
      BY <1>1, <2>3, <3>1, <3>2 DEF QueuedTwo
  <2>5. /\ faults' \subseteq Faults /\ faults \subseteq faults'
        /\ Calm' => inbox' = Append(Append(inbox, a), b) /\ Calm
    BY <1>1, <2>2, <2>3, Zenon DEF Faults, Calm, QueuedTwo
  <2> QED
    BY <1>1, <1>5, <2>3, <2>4, <2>5 DEF a, b, QueuedTwo
<1> QED
  BY <1>4, <1>5

-----------------------------------------------------------------------------
\* What the client reads next, and what is left.
LEMMA ReadIs ==
  ASSUME TypeInv, Read
  PROVE  /\ inbox' \in Seq(ToCl) /\ Len(inbox) >= 1 /\ Len(inbox') = Len(inbox) - 1
         /\ Head(inbox) = inbox[1] /\ inbox[1] \in ToCl /\ In = inbox[1].op
         /\ \A i \in 1..Len(inbox') : inbox'[i] = inbox[i+1]
         /\ DOMAIN inbox = 1..Len(inbox) /\ DOMAIN inbox' = 1..Len(inbox')
         /\ Len(inbox) \in Nat
<1>1. inbox \in Seq(ToCl) /\ inbox # <<>> /\ inbox' = Tail(inbox)
  BY DEF TypeInv, Read
<1>2. /\ Tail(inbox) \in Seq(ToCl) /\ Len(inbox) >= 1 /\ Head(inbox) = inbox[1] /\ inbox[1] \in ToCl
      /\ Len(Tail(inbox)) = Len(inbox) - 1
      /\ \A i \in 1..Len(inbox)-1 : Tail(inbox)[i] = inbox[i+1]
  BY <1>1, TailIs
<1>3. DOMAIN inbox = 1..Len(inbox) /\ DOMAIN inbox' = 1..Len(inbox') /\ Len(inbox) \in Nat
  BY <1>1, <1>2, LenProperties
<1> QED
  BY <1>1, <1>2, <1>3 DEF In

\* What the server reads next, and what is left.
LEMMA TakenIs ==
  ASSUME TypeInv, Taken
  PROVE  /\ srvIn' \in Seq(Datagrams) /\ Len(srvIn) >= 1 /\ Len(srvIn') = Len(srvIn) - 1
         /\ Head(srvIn) = srvIn[1] /\ srvIn[1] \in Datagrams
         /\ Src = srvIn[1].from /\ Op = srvIn[1].op /\ Arg = srvIn[1].arg
         /\ \A i \in 1..Len(srvIn') : srvIn'[i] = srvIn[i+1]
         /\ DOMAIN srvIn = 1..Len(srvIn) /\ DOMAIN srvIn' = 1..Len(srvIn')
         /\ Len(srvIn) \in Nat /\ Src \in 1..sock
<1>1. srvIn \in Seq(Datagrams) /\ srvIn # <<>> /\ srvIn' = Tail(srvIn)
  BY DEF TypeInv, Taken
<1>2. /\ Tail(srvIn) \in Seq(Datagrams) /\ Len(srvIn) >= 1 /\ Head(srvIn) = srvIn[1] /\ srvIn[1] \in Datagrams
      /\ Len(Tail(srvIn)) = Len(srvIn) - 1
      /\ \A i \in 1..Len(srvIn)-1 : Tail(srvIn)[i] = srvIn[i+1]
  BY <1>1, TailIs
<1>3. DOMAIN srvIn = 1..Len(srvIn) /\ DOMAIN srvIn' = 1..Len(srvIn') /\ Len(srvIn) \in Nat
  BY <1>1, <1>2, LenProperties
<1>4. Src \in 1..sock
  BY <1>1, <1>2, <1>3 DEF TypeInv, TypeOK, Src
<1> QED
  BY <1>1, <1>2, <1>3, <1>4 DEF Src, Op, Arg

\* A queue of q with m behind it.
LEMMA LongerIs ==
  ASSUME NEW S, NEW q \in Seq(S), NEW m \in S, NEW r, r = Append(q, m)
  PROVE  /\ r \in Seq(S) /\ Len(r) = Len(q) + 1 /\ r # <<>> /\ Len(q) \in Nat
         /\ DOMAIN q = 1..Len(q) /\ DOMAIN r = 1..Len(q)+1
         /\ \A i \in 1..Len(q) : r[i] = q[i]
         /\ r[Len(q)+1] = m
<1>1. /\ Append(q, m) \in Seq(S) /\ Len(Append(q, m)) = Len(q) + 1 /\ Append(q, m) # <<>>
      /\ \A i \in 1..Len(q) : Append(q, m)[i] = q[i]
      /\ Append(q, m)[Len(q)+1] = m
  BY AppendIs
<1>2. DOMAIN Append(q, m) = 1..Len(Append(q, m)) /\ DOMAIN q = 1..Len(q) /\ Len(q) \in Nat
  BY <1>1, LenProperties
<1> QED
  BY <1>1, <1>2

\* What is left of a queue whose first k - 1 datagrams were discarded.
LEMMA SuffixIs ==
  ASSUME NEW S, NEW q \in Seq(S), NEW k \in 1..Len(q)+1, NEW r, r = SubSeq(q, k, Len(q))
  PROVE  /\ r \in Seq(S) /\ Len(r) = Len(q) - k + 1 /\ Len(q) \in Nat
         /\ DOMAIN q = 1..Len(q) /\ DOMAIN r = 1..Len(r)
         /\ \A i \in 1..Len(r) : r[i] = q[i+k-1]
<1>1. Len(q) \in Nat /\ DOMAIN q = 1..Len(q) /\ \A i \in 1..Len(q) : q[i] \in S
  BY LenProperties, ElementOfSeq
<1>2. \A i \in k..Len(q) : q[i] \in S
  BY <1>1
<1>3. /\ r \in Seq(S) /\ Len(r) = IF k <= Len(q) THEN Len(q)-k+1 ELSE 0
      /\ \A i \in 1..Len(q)-k+1 : r[i] = q[k+i-1]
  BY <1>1, <1>2, SubSeqProperties
<1> QED
  BY <1>1, <1>3, LenProperties

\* The datagrams a client sends on its own are what the server can find queued.
LEMMA ClientSays ==
  ASSUME TypeInv, sock # 0, NEW op \in {"size", "Error_path", "data", "final", "ack", "finack", "probe"}
  PROVE  Dgram(sock, op, "none") \in Datagrams
BY SessionAssumption DEF TypeInv, TypeOK, Datagrams, Dgram, Sockets

\* What a step may do to the queue of the server that keeps the types.
SrvTypes == /\ srvIn' \in Seq(Datagrams) /\ Len(srvIn') <= ChanCap
            /\ \A i \in DOMAIN srvIn' : srvIn'[i].from \in 1..sock'

LEMMA SrvTypesTaken == ASSUME TypeInv, Taken, sock' = sock PROVE SrvTypes
<1>1. /\ srvIn' \in Seq(Datagrams) /\ Len(srvIn') = Len(srvIn) - 1
      /\ \A i \in 1..Len(srvIn') : srvIn'[i] = srvIn[i+1]
      /\ DOMAIN srvIn = 1..Len(srvIn) /\ DOMAIN srvIn' = 1..Len(srvIn')
      /\ Len(srvIn) \in Nat
  BY TakenIs
<1>2. Len(srvIn) <= ChanCap /\ ChanCap \in Nat /\ \A i \in DOMAIN srvIn : srvIn[i].from \in 1..sock
  BY SessionAssumption DEF TypeInv, TypeOK
<1> QED
  BY <1>1, <1>2 DEF SrvTypes

LEMMA SrvTypesSent ==
  ASSUME TypeInv, NEW m \in Datagrams, NEW f \in SUBSET Faults, ToServer(<<m>>, f),
         m.from \in 1..sock, sock' = sock
  PROVE  SrvTypes
<1>1. (srvIn' = srvIn \/ srvIn' = Append(srvIn, m)) /\ srvIn' \in Seq(Datagrams) /\ Len(srvIn') <= ChanCap
  BY ServerHears
<1>2. srvIn \in Seq(Datagrams) /\ \A i \in DOMAIN srvIn : srvIn[i].from \in 1..sock
  BY DEF TypeInv, TypeOK
<1>3. CASE srvIn' = Append(srvIn, m)
  <2>1. /\ Len(srvIn) \in Nat
        /\ DOMAIN srvIn = 1..Len(srvIn) /\ DOMAIN srvIn' = 1..Len(srvIn)+1
        /\ \A i \in 1..Len(srvIn) : srvIn'[i] = srvIn[i]
        /\ srvIn'[Len(srvIn)+1] = m
    BY <1>2, <1>3, LongerIs
  <2> QED
    BY <1>1, <1>2, <2>1 DEF SrvTypes
<1> QED
  BY <1>1, <1>2, <1>3 DEF SrvTypes

-----------------------------------------------------------------------------
\* A command is queued, or lost, with the size of its file behind it, or without.
\* In a calm session the server was waiting for it.
LEMMA CommandSends ==
  ASSUME TypeInv, NEW c \in Commands, Command(c)
  PROVE  LET a == Dgram(sock + 1, c.op, Name(c))
             b == IF HasFile(c) THEN Dgram(sock + 1, "size", c.arg) ELSE Dgram(sock + 1, "Error_path", "none")
             two == c.op = "put" /\ c.arg # "noname"
         IN  /\ a \in Datagrams /\ b \in Datagrams
             /\ \/ srvIn' = srvIn \/ srvIn' = Append(srvIn, a)
                \/ two /\ (srvIn' = Append(srvIn, b) \/ srvIn' = Append(Append(srvIn, a), b))
             /\ srvIn' \in Seq(Datagrams) /\ Len(srvIn') <= ChanCap
             /\ faults' \subseteq Faults /\ faults \subseteq faults'
             /\ Calm' => /\ spc = "cmd" /\ srvIn = <<>> /\ Calm
                         /\ srvIn' = IF two THEN Append(Append(srvIn, a), b) ELSE Append(srvIn, a)
<1> DEFINE a == Dgram(sock + 1, c.op, Name(c))
           b == IF HasFile(c) THEN Dgram(sock + 1, "size", c.arg) ELSE Dgram(sock + 1, "Error_path", "none")
           two == c.op = "put" /\ c.arg # "noname"
           f == IF spc = "cmd" /\ srvIn = <<>> THEN {} ELSE {"haste"}
<1>1. sock \in 0..MaxCmds /\ sock < MaxCmds /\ sock' = sock + 1 /\ MaxCmds \in Nat
  BY SessionAssumption DEF TypeInv, TypeOK, Command
<1>2. c.op \in CmdOps /\ c.arg \in {"file", "void", "missing", "noname", "small", "large", "empty", "absent", "none"}
      /\ (c.arg = "absent" => c.op = "put" /\ two /\ ~ HasFile(c))
      /\ (HasFile(c) => two) /\ (~ HasFile(c) /\ c.arg # "absent" => ~ two)
  BY DEF Commands, CmdOps, HasFile
<1>3. a \in Datagrams
  <2>1. Name(c) \in {"file", "void", "missing", "noname", "name", "small", "large", "empty", "none"}
    BY <1>2 DEF Name, Commands
  <2> QED
    BY <1>1, <1>2, <2>1 DEF Dgram, Datagrams, Sockets
<1>4. b \in Datagrams
  <2>1. HasFile(c) => c.arg \in {"small", "large", "empty"}
    BY DEF HasFile
  <2> QED
    BY <1>1, <2>1 DEF Dgram, Datagrams, Sockets
<1>5. f \in SUBSET Faults /\ (f \subseteq {"early"} => spc = "cmd" /\ srvIn = <<>>)
  BY DEF Faults
<1>6. ToServer(<<a>> \o CASE HasFile(c) -> <<Dgram(sock', "size", c.arg)>>
                        [] c.arg = "absent" -> <<Dgram(sock', "Error_path", "none")>>
                        [] OTHER -> <<>>, f)
  BY <1>1 DEF Command
<1> HIDE DEF a, b, f
<1>7. CASE two
  <2>1. (CASE HasFile(c) -> <<Dgram(sock', "size", c.arg)>>
          [] c.arg = "absent" -> <<Dgram(sock', "Error_path", "none")>>
          [] OTHER -> <<>>) = <<b>>
    BY <1>1, <1>2, <1>7 DEF b
  <2>2. <<a>> \o <<b>> = <<a, b>>
    BY <1>3, <1>4, PairIs
  <2>3. ToServer(<<a, b>>, f)
    BY <1>6, <2>1, <2>2
  <2>4. /\ srvIn' \in {srvIn, Append(srvIn, a), Append(srvIn, b), Append(Append(srvIn, a), b)}
        /\ srvIn' \in Seq(Datagrams) /\ Len(srvIn') <= ChanCap
        /\ faults' \subseteq Faults /\ faults \subseteq faults'
        /\ Calm' => srvIn' = Append(Append(srvIn, a), b) /\ f \subseteq {"early"} /\ Calm
    BY <1>3, <1>4, <1>5, <2>3, ServerHearsTwo
  <2> QED
    BY <1>3, <1>4, <1>5, <1>7, <2>4 DEF a, b
<1>8. CASE ~ two
  <2>1. (CASE HasFile(c) -> <<Dgram(sock', "size", c.arg)>>
          [] c.arg = "absent" -> <<Dgram(sock', "Error_path", "none")>>
          [] OTHER -> <<>>) = <<>>
    BY <1>2, <1>8
  <2>2. <<a>> \o <<>> = <<a>>
    BY <1>3, ConcatEmptySeq
  <2>3. ToServer(<<a>>, f)
    BY <1>6, <2>1, <2>2
  <2>4. /\ srvIn' = srvIn \/ srvIn' = Append(srvIn, a)
        /\ srvIn' \in Seq(Datagrams) /\ Len(srvIn') <= ChanCap
        /\ faults' \subseteq Faults /\ faults \subseteq faults'
        /\ Calm' => srvIn' = Append(srvIn, a) /\ f \subseteq {"early"} /\ Calm
    BY <1>3, <1>5, <2>3, ServerHears
  <2> QED
    BY <1>3, <1>4, <1>5, <1>8, <2>4 DEF a, b
<1> QED
  BY <1>7, <1>8

-----------------------------------------------------------------------------
\* What a step may do to the inbox that keeps the types.
ClTypes == inbox' \in Seq(ToCl) /\ Len(inbox') <= ChanCap

\* Everything but the queues.
ScalarTypes ==
  /\ cpc \in {"prompt", "count", "name", "drain", "first", "reply", "bye", "recv",
              "snd", "fin", "exited", "dead"}
  /\ cmd \in Commands /\ sock \in 0..MaxCmds
  /\ cack \in {"probe", "ack"} /\ sack \in {"probe", "ack"}
  /\ cfile \in 0..MaxCmds /\ sfile \in 0..MaxCmds
  /\ spc \in {"cmd", "size", "rcv", "snd", "fin", "tail", "close", "gone", "dead"}
  /\ from \in 0..sock /\ job \in 0..sock
  /\ si_other \in IF spc \in {"snd", "fin", "rcv"} THEN job..sock ELSE 0..sock
  /\ received \subseteq [put: Sockets, block: 0..MaxCmds]
  /\ faults \subseteq Faults
  /\ from = job
  /\ spc # "cmd" => job # 0
  /\ cpc # "prompt" => sock # 0

LEMMA TypeParts == ASSUME SrvTypes, ClTypes, ScalarTypes' PROVE TypeInv'
<1>1. \A i \in DOMAIN inbox' : inbox'[i] \in ToCl
  BY LenProperties, ElementOfSeq DEF ClTypes
<1>2. \A i \in DOMAIN srvIn' : srvIn'[i].op # "none"
  <2>1. \A i \in DOMAIN srvIn' : srvIn'[i] \in Datagrams
    BY LenProperties, ElementOfSeq DEF SrvTypes
  <2> QED
    BY <2>1 DEF Datagrams, CmdOps
<1> QED
  BY <1>1, <1>2 DEF SrvTypes, ClTypes, ScalarTypes, TypeInv, TypeOK, Faults

LEMMA ClTypesRead == ASSUME TypeInv, Read PROVE ClTypes
<1>1. inbox' \in Seq(ToCl) /\ Len(inbox') = Len(inbox) - 1 /\ Len(inbox) \in Nat
  BY ReadIs
<1>2. Len(inbox) <= ChanCap /\ ChanCap \in Nat
  BY SessionAssumption DEF TypeInv, TypeOK
<1> QED
  BY <1>1, <1>2 DEF ClTypes

LEMMA SameTypes ==
  ASSUME TypeInv
  PROVE  /\ ScalarTypes
         /\ srvIn' = srvIn /\ sock' = sock => SrvTypes
         /\ inbox' = inbox => ClTypes
BY DEF TypeInv, TypeOK, ScalarTypes, SrvTypes, ClTypes, Faults

\* The first state is well typed.
LEMMA TypeInit == Init => TypeInv
<1> SUFFICES ASSUME Init PROVE TypeInv
  OBVIOUS
<1>1. cmd \in Commands
  BY DEF Init, Commands
<1> QED
  BY <1>1, SessionAssumption, EmptySeq DEF Init, TypeInv, TypeOK

\* A command keeps the types.
LEMMA TypeCommand == ASSUME TypeInv, NEW c \in Commands, Command(c) PROVE TypeInv'
<1> DEFINE a == Dgram(sock + 1, c.op, Name(c))
           b == IF HasFile(c) THEN Dgram(sock + 1, "size", c.arg) ELSE Dgram(sock + 1, "Error_path", "none")
<1>1. sock \in 0..MaxCmds /\ sock < MaxCmds /\ sock' = sock + 1 /\ MaxCmds \in Nat
  BY SessionAssumption DEF TypeInv, TypeOK, Command
<1>2. /\ a \in Datagrams /\ b \in Datagrams
      /\ srvIn' \in {srvIn, Append(srvIn, a), Append(srvIn, b), Append(Append(srvIn, a), b)}
      /\ srvIn' \in Seq(Datagrams) /\ Len(srvIn') <= ChanCap
      /\ faults' \subseteq Faults
  BY CommandSends
<1>3. srvIn \in Seq(Datagrams) /\ \A i \in DOMAIN srvIn : srvIn[i].from \in 1..sock
  BY DEF TypeInv, TypeOK
<1>4. a.from = sock + 1 /\ b.from = sock + 1
  BY DEF Dgram
<1> HIDE DEF a, b
<1>5. ASSUME NEW m \in {a, b}
      PROVE  /\ Append(srvIn, m) \in Seq(Datagrams)
             /\ \A i \in DOMAIN Append(srvIn, m) : Append(srvIn, m)[i].from \in 1..sock+1
  <2> DEFINE r == Append(srvIn, m)
  <2>1. /\ r \in Seq(Datagrams) /\ Len(srvIn) \in Nat
        /\ DOMAIN srvIn = 1..Len(srvIn) /\ DOMAIN r = 1..Len(srvIn)+1
        /\ \A i \in 1..Len(srvIn) : r[i] = srvIn[i]
        /\ r[Len(srvIn)+1] = m
    BY <1>2, <1>3, LongerIs
  <2> QED
    BY <1>1, <1>3, <1>4, <2>1
<1>6. \A i \in DOMAIN Append(Append(srvIn, a), b) : Append(Append(srvIn, a), b)[i].from \in 1..sock+1
  <2> DEFINE q == Append(srvIn, a)
             r == Append(q, b)
  <2>1. q \in Seq(Datagrams) /\ \A i \in DOMAIN q : q[i].from \in 1..sock+1
    BY <1>5
  <2> HIDE DEF q
  <2>2. /\ Len(q) \in Nat
        /\ DOMAIN q = 1..Len(q) /\ DOMAIN r = 1..Len(q)+1
        /\ \A i \in 1..Len(q) : r[i] = q[i]
        /\ r[Len(q)+1] = b
    BY <1>2, <2>1, LongerIs
  <2>3. \A i \in DOMAIN r : r[i].from \in 1..sock+1
    BY <1>1, <1>4, <2>1, <2>2
  <2> QED
    BY <2>3 DEF q
<1>7. SrvTypes
  <2> DEFINE Good(q) == \A i \in DOMAIN q : q[i].from \in 1..sock+1
  <2>1. Good(srvIn)
    BY <1>1, <1>3
  <2>2. Good(Append(srvIn, a)) /\ Good(Append(srvIn, b)) /\ Good(Append(Append(srvIn, a), b))
    BY <1>5, <1>6
  <2> HIDE DEF Good
  <2>3. Good(srvIn')
    BY <1>2, <2>1, <2>2
  <2> QED
    BY <1>1, <1>2, <2>3 DEF SrvTypes, Good
<1>8. ClTypes
  BY SessionAssumption, EmptySeq DEF Command, ClTypes
<1>9. ScalarTypes'
  <2>1. FirstWait(c) \in {"first", "count", "bye", "reply", "fin", "snd", "prompt"}
    BY DEF FirstWait, Commands
  <2>2. /\ cmd' = c /\ cack' = "probe" /\ cfile' = 0 /\ cpc' = FirstWait(c)
        /\ UNCHANGED <<spc, from, si_other, job, sack, sfile, received>>
    BY DEF Command
  <2> QED
    BY <1>1, <1>2, <2>1, <2>2 DEF ScalarTypes, TypeInv, TypeOK
<1> QED
  BY <1>7, <1>8, <1>9, TypeParts

\* So does the client.
LEMMA TypeClient == ASSUME TypeInv, ClientNext PROVE TypeInv'
<1> USE SameTypes
<1>1. CASE ReadList
  <2>1. SrvTypes /\ ClTypes
    BY <1>1, ClTypesRead DEF ReadList, srvVars
  <2>2. ScalarTypes'
    BY <1>1 DEF ReadList, srvVars, ScalarTypes
  <2> QED
    BY <2>1, <2>2, TypeParts
<1>2. CASE ReadFirst
  <2>1. SrvTypes /\ ClTypes
    BY <1>2, ClTypesRead DEF ReadFirst, srvVars
  <2>2. ScalarTypes'
    BY <1>2 DEF ReadFirst, srvVars, ScalarTypes
  <2> QED
    BY <2>1, <2>2, TypeParts
<1>3. CASE ReadReply
  <2>1. SrvTypes /\ ClTypes
    BY <1>3, ClTypesRead DEF ReadReply, srvVars
  <2>2. ScalarTypes'
    BY <1>3 DEF ReadReply, srvVars, ScalarTypes
  <2> QED
    BY <2>1, <2>2, TypeParts
<1>4. CASE RecvData
  <2>1. sock # 0 /\ sock \in Nat
    BY <1>4 DEF RecvData, ScalarTypes
  <2>2. Dgram(sock, "ack", "none") \in Datagrams /\ Dgram(sock, "ack", "none").from \in 1..sock
    BY <2>1, ClientSays DEF Dgram
  <2>3. ToServer(<<Dgram(sock, "ack", "none")>>, {}) /\ {} \in SUBSET Faults /\ sock' = sock /\ Read
    BY <1>4 DEF RecvData
  <2>4. SrvTypes /\ ClTypes
    BY <2>2, <2>3, SrvTypesSent, ClTypesRead
  <2>5. faults' \subseteq Faults
    BY <2>2, <2>3, ServerHears
  <2>6. Head(inbox).of \in Sockets
    BY <2>3, ReadIs DEF ToCl
  <2>7. ScalarTypes'
    BY <1>4, <2>5, <2>6 DEF RecvData, ScalarTypes, Sockets
  <2> QED
    BY <2>4, <2>7, TypeParts
<1>5. CASE RecvFinal
  <2>1. sock # 0 /\ sock \in Nat
    BY <1>5 DEF RecvFinal, ScalarTypes
  <2>2. Dgram(sock, "finack", "none") \in Datagrams /\ Dgram(sock, "finack", "none").from \in 1..sock
    BY <2>1, ClientSays DEF Dgram
  <2>3. ToServer(<<Dgram(sock, "finack", "none")>>, {}) /\ {} \in SUBSET Faults /\ sock' = sock /\ Read
    BY <1>5 DEF RecvFinal
  <2>4. SrvTypes /\ ClTypes
    BY <2>2, <2>3, SrvTypesSent, ClTypesRead
  <2>5. faults' \subseteq Faults
    BY <2>2, <2>3, ServerHears
  <2>6. ScalarTypes'
    BY <1>5, <2>5 DEF RecvFinal, ScalarTypes
  <2> QED
    BY <2>4, <2>6, TypeParts
<1>6. CASE RecvText
  <2>1. SrvTypes /\ ClTypes
    BY <1>6, ClTypesRead DEF RecvText, srvVars
  <2>2. ScalarTypes'
    BY <1>6 DEF RecvText, srvVars, ScalarTypes
  <2> QED
    BY <2>1, <2>2, TypeParts
<1>7. CASE ProbeServer
  <2>1. sock # 0 /\ sock \in Nat /\ cack \in {"probe", "ack"}
    BY <1>7 DEF ProbeServer, ScalarTypes
  <2>2. Dgram(sock, cack, "none") \in Datagrams /\ Dgram(sock, cack, "none").from \in 1..sock
    BY <2>1, ClientSays DEF Dgram
  <2>3. ToServer(<<Dgram(sock, cack, "none")>>, {}) /\ {} \in SUBSET Faults /\ sock' = sock /\ inbox' = inbox
    BY <1>7 DEF ProbeServer, clVars
  <2>4. SrvTypes /\ ClTypes
    BY <2>2, <2>3, SrvTypesSent
  <2>5. faults' \subseteq Faults
    BY <2>2, <2>3, ServerHears
  <2>6. ScalarTypes'
    BY <1>7, <2>5 DEF ProbeServer, clVars, ScalarTypes
  <2> QED
    BY <2>4, <2>6, TypeParts
<1>8. CASE SendToServer
  <2> DEFINE op == IF cpc = "snd" THEN "data" ELSE "final"
  <2>1. sock # 0 /\ sock \in Nat
    BY <1>8 DEF SendToServer, ScalarTypes
  <2>2. Dgram(sock, op, "none") \in Datagrams /\ Dgram(sock, op, "none").from \in 1..sock
    BY <2>1, ClientSays DEF Dgram
  <2>3. ToServer(<<Dgram(sock, op, "none")>>, Early) /\ Early \in SUBSET Faults /\ sock' = sock /\ inbox' = inbox
    BY <1>8 DEF SendToServer, clVars, Early, Faults
  <2> HIDE DEF op
  <2>4. SrvTypes /\ ClTypes
    BY <2>2, <2>3, SrvTypesSent
  <2>5. faults' \subseteq Faults
    BY <2>2, <2>3, ServerHears
  <2>6. ScalarTypes'
    BY <1>8, <2>5 DEF SendToServer, clVars, ScalarTypes
  <2> QED
    BY <2>4, <2>6, TypeParts
<1>9. CASE ReadAck
  <2>1. SrvTypes /\ ClTypes
    BY <1>9, ClTypesRead DEF ReadAck, srvVars
  <2>2. ScalarTypes'
    BY <1>9 DEF ReadAck, srvVars, ScalarTypes
  <2> QED
    BY <2>1, <2>2, TypeParts
<1>10. CASE ReadFinalAck
  <2>1. SrvTypes /\ ClTypes
    BY <1>10, ClTypesRead DEF ReadFinalAck, srvVars
  <2>2. ScalarTypes'
    BY <1>10 DEF ReadFinalAck, srvVars, ScalarTypes
  <2> QED
    BY <2>1, <2>2, TypeParts
<1> QED
  BY <1>1, <1>2, <1>3, <1>4, <1>5, <1>6, <1>7, <1>8, <1>9, <1>10 DEF ClientNext

\* What the server answers a command with one datagram.
LEMMA AnswerSends ==
  ASSUME TypeInv, Answer
  PROVE  \E op \in {"FAIL", "warn", "bye"} :
           /\ ToClient(Src, Src, <<op>>, {})
           /\ op \in {"FAIL", "warn"} => Op \in {"get", "put"}
           /\ Op = "get" => op \in {"FAIL", "warn"} /\ Arg # "file"
           /\ Op = "put" => Arg = "noname"
           /\ Op = "exit" => op = "bye"
           /\ Op \in {"get", "put", "exit"}
           /\ spc' \in {"tail", "close", "cmd", "gone"}
           /\ op = "bye" => spc' = "gone"
<1>1. PICK answer \in {<<"get", "missing", "FAIL", "tail">>, <<"get", "void", "warn", "close">>,
                       <<"get", "noname", "warn", "cmd">>, <<"put", "noname", "warn", "cmd">>,
                       <<"exit", "none", "bye", "gone">>} :
        /\ answer[1] = Op /\ answer[2] = Arg
        /\ ToClient(Src, Src, <<answer[3]>>, {})
        /\ spc' = answer[4]
  BY DEF Answer
<1>2. ToClient(Src, Src, <<answer[3]>>, {})
  BY <1>1
<1>3. answer[3] \in {"FAIL", "warn", "bye"}
  BY <1>1
<1>4. /\ answer[3] \in {"FAIL", "warn"} => Op \in {"get", "put"}
      /\ Op = "get" => answer[3] \in {"FAIL", "warn"} /\ Arg # "file"
      /\ Op = "put" => Arg = "noname"
      /\ Op = "exit" => answer[3] = "bye"
      /\ Op \in {"get", "put", "exit"}
      /\ spc' \in {"tail", "close", "cmd", "gone"}
      /\ answer[3] = "bye" => spc' = "gone"
  BY <1>1
<1> QED
  BY <1>2, <1>3, <1>4, Zenon

\* The server keeps the types.
LEMMA TypeServer == ASSUME TypeInv, OrderInv, ServerNext PROVE TypeInv'
<1> USE SameTypes
<1>0. ASSUME Taken
      PROVE  Src \in 1..sock /\ Seen <= Src /\ Src \in Sockets
  BY <1>0, TakenIs DEF OrderInv, Datagrams
<1>1. CASE Answer
  <2>1. PICK op \in {"FAIL", "warn", "bye"} : ToClient(Src, Src, <<op>>, {})
                                              /\ spc' \in {"tail", "close", "cmd", "gone"}
    BY <1>1, AnswerSends
  <2>2. Taken /\ sock' = sock
    BY <1>1 DEF Answer, TakeCommand
  <2>3. ClTypes /\ faults' \subseteq Faults
    <3>1. op \in ClOps /\ {} \in SUBSET Faults
      BY DEF ClOps
    <3> QED
      BY <1>0, <2>1, <2>2, <3>1, ClientHears DEF ClTypes
  <2>4. SrvTypes
    BY <2>2, SrvTypesTaken
  <2>5. ScalarTypes'
    BY <1>0, <1>1, <2>1, <2>2, <2>3 DEF Answer, TakeCommand, ScalarTypes
  <2> QED
    BY <2>3, <2>4, <2>5, TypeParts
<1>2. CASE AnswerList
  <2>1. Taken /\ sock' = sock /\ ToClient(Src, Src, <<"count", "name">>, {}) /\ {} \in SUBSET Faults
    BY <1>2 DEF AnswerList, TakeCommand
  <2>2. ClTypes /\ faults' \subseteq Faults
    BY <1>0, <2>1, ClientHearsTwo DEF ClTypes
  <2>3. SrvTypes
    BY <2>1, SrvTypesTaken
  <2>4. ScalarTypes'
    BY <1>0, <1>2, <2>1, <2>2 DEF AnswerList, TakeCommand, ScalarTypes
  <2> QED
    BY <2>2, <2>3, <2>4, TypeParts
<1>3. CASE StartGet
  <2>1. Taken /\ sock' = sock /\ inbox' = inbox
    BY <1>3 DEF StartGet, TakeCommand, clVars
  <2>2. SrvTypes /\ ClTypes
    BY <2>1, SrvTypesTaken
  <2>3. ScalarTypes'
    BY <1>0, <1>3, <2>1 DEF StartGet, TakeCommand, clVars, ScalarTypes
  <2> QED
    BY <2>2, <2>3, TypeParts
<1>4. CASE StartPut
  <2>1. Taken /\ sock' = sock /\ inbox' = inbox
    BY <1>4 DEF StartPut, TakeCommand, clVars
  <2>2. SrvTypes /\ ClTypes
    BY <2>1, SrvTypesTaken
  <2>3. ScalarTypes'
    BY <1>0, <1>4, <2>1, SessionAssumption DEF StartPut, TakeCommand, clVars, ScalarTypes
  <2> QED
    BY <2>2, <2>3, TypeParts
<1>5. CASE AnswerInvalid
  <2>1. Taken /\ sock' = sock /\ ToClient(Src, Src, <<"invalid">>, {}) /\ {} \in SUBSET Faults
    BY <1>5 DEF AnswerInvalid, TakeCommand
  <2>2. ClTypes /\ faults' \subseteq Faults
    BY <1>0, <2>1, ClientHears DEF ClTypes, ClOps
  <2>3. SrvTypes
    BY <2>1, SrvTypesTaken
  <2>4. ScalarTypes'
    BY <1>0, <1>5, <2>1, <2>2 DEF AnswerInvalid, TakeCommand, ScalarTypes
  <2> QED
    BY <2>2, <2>3, <2>4, TypeParts
<1>6. CASE ReadSize
  <2>1. Taken /\ sock' = sock /\ inbox' = inbox
    BY <1>6 DEF ReadSize, clVars
  <2>2. SrvTypes /\ ClTypes
    BY <2>1, SrvTypesTaken
  <2>3. ScalarTypes'
    BY <1>6 DEF ReadSize, clVars, ScalarTypes
  <2> QED
    BY <2>2, <2>3, TypeParts
<1>7. CASE StoreData
  <2>1. Taken /\ sock' = sock /\ ToClient(Src, job, <<"ack">>, {}) /\ {} \in SUBSET Faults
    BY <1>7 DEF StoreData
  <2>2. job \in Sockets
    BY <1>7, SessionAssumption DEF StoreData, ScalarTypes, Sockets
  <2>3. ClTypes /\ faults' \subseteq Faults
    BY <2>1, <2>2, ClientHears DEF ClTypes, ClOps
  <2>4. SrvTypes
    BY <2>1, SrvTypesTaken
  <2>5. ScalarTypes'
    BY <1>0, <1>7, <2>1, <2>3 DEF StoreData, ScalarTypes, Sockets, Seen
  <2> QED
    BY <2>3, <2>4, <2>5, TypeParts
<1>8. CASE StoreFinal
  <2>1. Taken /\ sock' = sock /\ ToClient(Src, job, <<"finack">>, {}) /\ {} \in SUBSET Faults
    BY <1>8 DEF StoreFinal
  <2>2. job \in Sockets
    BY <1>8, SessionAssumption DEF StoreFinal, ScalarTypes, Sockets
  <2>3. ClTypes /\ faults' \subseteq Faults
    BY <2>1, <2>2, ClientHears DEF ClTypes, ClOps
  <2>4. SrvTypes
    BY <2>1, SrvTypesTaken
  <2>5. received' \subseteq [put: Sockets, block: 0..MaxCmds]
    <3>1. [put |-> job, block |-> sfile] \in [put: Sockets, block: 0..MaxCmds]
      BY <2>2 DEF ScalarTypes
    <3>2. received' = received \cup {[put |-> job, block |-> sfile]}
      BY <1>8 DEF StoreFinal
    <3>3. received \subseteq [put: Sockets, block: 0..MaxCmds]
      BY DEF ScalarTypes
    <3> QED
      BY <3>1, <3>2, <3>3, Zenon
  <2>6. ScalarTypes'
    BY <1>0, <1>8, <2>1, <2>3, <2>5 DEF StoreFinal, ScalarTypes
  <2> QED
    BY <2>3, <2>4, <2>6, TypeParts
<1>9. CASE StoreText
  <2>1. Taken /\ sock' = sock /\ inbox' = inbox
    BY <1>9 DEF StoreText, clVars
  <2>2. SrvTypes /\ ClTypes
    BY <2>1, SrvTypesTaken
  <2>3. ScalarTypes'
    BY <1>0, <1>9, <2>1 DEF StoreText, clVars, ScalarTypes
  <2> QED
    BY <2>2, <2>3, TypeParts
<1>10. CASE ProbeClient
  <2>1. ToClient(si_other, job, <<sack>>, {}) /\ {} \in SUBSET Faults /\ sack \in {"probe", "ack"}
        /\ sock' = sock /\ srvIn' = srvIn
    BY <1>10 DEF ProbeClient, srvVars, ScalarTypes
  <2>2. job \in Sockets
    BY <1>10, SessionAssumption DEF ProbeClient, ScalarTypes, Sockets
  <2>3. ClTypes /\ faults' \subseteq Faults
    BY <2>1, <2>2, ClientHears DEF ClTypes, ClOps
  <2>4. ScalarTypes'
    BY <1>10, <2>3 DEF ProbeClient, srvVars, ScalarTypes
  <2> QED
    BY <2>1, <2>3, <2>4, TypeParts
<1>11. CASE SendToClient
  <2> DEFINE op == IF spc = "snd" THEN "data" ELSE "final"
  <2>1. ToClient(si_other, job, <<op>>, Early) /\ Early \in SUBSET Faults
        /\ sock' = sock /\ srvIn' = srvIn
    BY <1>11 DEF SendToClient, srvVars, Early, Faults
  <2>2. job \in Sockets
    BY <1>11, SessionAssumption DEF SendToClient, ScalarTypes, Sockets
  <2>3. op \in ClOps
    BY DEF ClOps
  <2> HIDE DEF op
  <2>4. ClTypes /\ faults' \subseteq Faults
    BY <2>1, <2>2, <2>3, ClientHears DEF ClTypes
  <2>5. ScalarTypes'
    BY <1>11, <2>4 DEF SendToClient, srvVars, ScalarTypes
  <2> QED
    BY <2>1, <2>4, <2>5, TypeParts
<1>12. CASE TakeAck
  <2>1. Taken /\ sock' = sock /\ inbox' = inbox
    BY <1>12 DEF TakeAck, clVars
  <2>2. SrvTypes /\ ClTypes
    BY <2>1, SrvTypesTaken
  <2>3. ScalarTypes'
    BY <1>0, <1>12, <2>1 DEF TakeAck, clVars, ScalarTypes, Seen
  <2> QED
    BY <2>2, <2>3, TypeParts
<1>13. CASE TakeFinalAck
  <2>1. Taken /\ sock' = sock /\ inbox' = inbox
    BY <1>13 DEF TakeFinalAck, clVars
  <2>2. SrvTypes /\ ClTypes
    BY <2>1, SrvTypesTaken
  <2>3. ScalarTypes'
    BY <1>0, <1>13, <2>1 DEF TakeFinalAck, clVars, ScalarTypes, Seen
  <2> QED
    BY <2>2, <2>3, TypeParts
<1>14. CASE AnswerTail
  <2>1. ToClient(from, job, <<"invalid">>, {}) /\ {} \in SUBSET Faults
        /\ sock' = sock /\ srvIn' = srvIn
    BY <1>14 DEF AnswerTail
  <2>2. job \in Sockets
    BY <1>14, SessionAssumption DEF AnswerTail, ScalarTypes, Sockets
  <2>3. ClTypes /\ faults' \subseteq Faults
    BY <2>1, <2>2, ClientHears DEF ClTypes, ClOps
  <2>4. ScalarTypes'
    BY <1>14, <2>3 DEF AnswerTail, ScalarTypes
  <2> QED
    BY <2>1, <2>3, <2>4, TypeParts
<1>15. CASE Rebind
  <2>1. PICK k \in 1..Len(srvIn)+1 : srvIn' = SubSeq(srvIn, k, Len(srvIn))
    BY <1>15 DEF Rebind
  <2>2. /\ srvIn' \in Seq(Datagrams) /\ Len(srvIn') = Len(srvIn) - k + 1 /\ Len(srvIn) \in Nat
        /\ DOMAIN srvIn = 1..Len(srvIn) /\ DOMAIN srvIn' = 1..Len(srvIn')
        /\ \A i \in 1..Len(srvIn') : srvIn'[i] = srvIn[i+k-1]
    BY <2>1, SuffixIs DEF TypeInv
  <2>3. Len(srvIn) <= ChanCap /\ ChanCap \in Nat /\ \A i \in DOMAIN srvIn : srvIn[i].from \in 1..sock
    BY SessionAssumption DEF TypeInv, TypeOK
  <2>4. inbox' = inbox /\ sock' = sock
    BY <1>15 DEF Rebind, clVars
  <2>5. SrvTypes /\ ClTypes
    BY <2>1, <2>2, <2>3, <2>4 DEF SrvTypes
  <2>6. ScalarTypes'
    BY <1>15 DEF Rebind, clVars, ScalarTypes
  <2> QED
    BY <2>5, <2>6, TypeParts
<1> QED
  BY <1>1, <1>2, <1>3, <1>4, <1>5, <1>6, <1>7, <1>8, <1>9, <1>10, <1>11, <1>12, <1>13, <1>14, <1>15
  DEF ServerNext

-----------------------------------------------------------------------------
\* The order of the datagrams to the server, and the commands among them.
QueueInv == OrderInv /\ CommandsWait

\* The types that are needed, for a state and the next.
LEMMA SeenType == TypeInv => Seen \in Nat /\ sock \in Nat /\ Seen <= sock /\ job <= Seen /\ job \in Nat
BY SessionAssumption DEF TypeInv, TypeOK, Seen

LEMMA SeenTypeNext == TypeInv' => Seen' \in Nat /\ DOMAIN srvIn' = 1..Len(srvIn') /\ Len(srvIn') \in Nat
BY SessionAssumption, LenProperties DEF TypeInv, TypeOK, Seen

LEMMA QueueTypes ==
  ASSUME TypeInv
  PROVE  /\ srvIn \in Seq(Datagrams) /\ Len(srvIn) \in Nat /\ DOMAIN srvIn = 1..Len(srvIn)
         /\ \A i \in 1..Len(srvIn) : srvIn[i].from \in Nat /\ srvIn[i].from <= sock
BY LenProperties, SeenType DEF TypeInv, TypeOK

\* What the server reads comes before what it leaves, and before a command by an
\* earlier socket.
LEMMA QueueRead ==
  ASSUME TypeInv, TypeInv', QueueInv, Taken, sock' = sock, cmd' = cmd, cpc' = cpc,
         Seen' <= Src, inbox' = inbox \/ Src = sock
  PROVE  QueueInv'
<1>1. /\ Len(srvIn) >= 1 /\ Len(srvIn') = Len(srvIn) - 1
      /\ Src = srvIn[1].from
      /\ \A i \in 1..Len(srvIn') : srvIn'[i] = srvIn[i+1]
      /\ DOMAIN srvIn' = 1..Len(srvIn')
      /\ Src \in 1..sock
  BY TakenIs
<1>2. Seen' \in Nat /\ sock \in Nat /\ Len(srvIn') \in Nat
  BY SeenType, SeenTypeNext
<1>3. OrderInv'
  <2>1. \A i \in DOMAIN srvIn' : i+1 \in DOMAIN srvIn /\ srvIn'[i] = srvIn[i+1] /\ 1 \in DOMAIN srvIn /\ i \in Nat
    BY <1>1, <1>2, QueueTypes
  <2>2. \A i \in DOMAIN srvIn' : Src <= srvIn'[i].from /\ srvIn'[i].from \in Nat
    BY <1>1, <2>1, QueueTypes DEF QueueInv, OrderInv
  <2>3. \A i \in DOMAIN srvIn' : Seen' <= srvIn'[i].from
    BY <1>1, <1>2, <2>2
  <2>4. \A i, j \in DOMAIN srvIn' : i <= j => srvIn'[i].from <= srvIn'[j].from
    BY <2>1 DEF QueueInv, OrderInv
  <2> QED
    BY <2>3, <2>4 DEF OrderInv
<1>4. ASSUME NEW i \in DOMAIN srvIn', srvIn'[i].op \in CmdOps
      PROVE  /\ Seen' < srvIn'[i].from
             /\ \A j \in 1..i-1 : srvIn'[j].from < srvIn'[i].from
             /\ srvIn'[i].from # sock' => srvIn'[i].op = "put"
             /\ srvIn'[i].from = sock' =>
                  srvIn'[i].op = cmd'.op /\ srvIn'[i].arg = Name(cmd') /\ inbox' = <<>> /\ cpc' = FirstWait(cmd')
  <2>1. i+1 \in DOMAIN srvIn /\ i \in Nat /\ i >= 1 /\ srvIn'[i] = srvIn[i+1] /\ 1 \in 1..(i+1)-1
    BY <1>1, <1>4, QueueTypes
  <2>2. /\ \A j \in 1..(i+1)-1 : srvIn[j].from < srvIn[i+1].from
        /\ srvIn[i+1].from # sock => srvIn[i+1].op = "put"
        /\ srvIn[i+1].from = sock =>
             srvIn[i+1].op = cmd.op /\ srvIn[i+1].arg = Name(cmd) /\ inbox = <<>> /\ cpc = FirstWait(cmd)
    BY <1>4, <2>1 DEF QueueInv, CommandsWait
  <2>3. Src < srvIn[i+1].from
    BY <1>1, <2>1, <2>2
  <2>4. Seen' < srvIn'[i].from
    BY <1>1, <1>2, <2>1, <2>3, QueueTypes
  <2>5. \A j \in 1..i-1 : srvIn'[j].from < srvIn'[i].from
    BY <1>1, <1>4, <2>1, <2>2
  <2>6. srvIn'[i].from = sock => inbox' = inbox
    BY <1>1, <1>2, <2>1, <2>3
  <2> QED
    BY <2>1, <2>2, <2>4, <2>5, <2>6
<1>5. CommandsWait'
  BY <1>4, Zenon DEF CommandsWait
<1> QED
  BY <1>3, <1>5 DEF QueueInv

\* Nothing goes to a client whose command is still queued.
LEMMA QueueAnswer ==
  ASSUME TypeInv, QueueInv, srvIn' = srvIn, Seen' = Seen, sock' = sock, cmd' = cmd, cpc' = cpc,
         inbox' = inbox \/ Seen = sock
  PROVE  QueueInv'
<1>1. OrderInv'
  BY DEF QueueInv, OrderInv
<1>2. ASSUME NEW i \in DOMAIN srvIn, srvIn[i].op \in CmdOps
      PROVE  srvIn[i].from = sock => inbox' = inbox
  BY <1>2, SeenType DEF QueueInv, CommandsWait
<1>3. CommandsWait'
  BY <1>2, Zenon DEF QueueInv, CommandsWait
<1> QED
  BY <1>1, <1>3 DEF QueueInv

\* What the new socket finds is in the same order.
LEMMA QueueRebind == ASSUME TypeInv, TypeInv', QueueInv, Rebind PROVE QueueInv'
<1>1. PICK k \in 1..Len(srvIn)+1 : srvIn' = SubSeq(srvIn, k, Len(srvIn))
  BY DEF Rebind
<1>2. /\ Len(srvIn') = Len(srvIn) - k + 1 /\ Len(srvIn) \in Nat
      /\ DOMAIN srvIn = 1..Len(srvIn) /\ DOMAIN srvIn' = 1..Len(srvIn')
      /\ \A i \in 1..Len(srvIn') : srvIn'[i] = srvIn[i+k-1]
  BY <1>1, SuffixIs DEF TypeInv
<1>3. Seen' = Seen /\ sock' = sock /\ cmd' = cmd /\ cpc' = cpc /\ inbox' = inbox
  BY DEF Rebind, clVars, Seen
<1>4. OrderInv'
  <2>1. \A i \in DOMAIN srvIn' : i+k-1 \in DOMAIN srvIn /\ srvIn'[i] = srvIn[i+k-1] /\ i \in Nat
    BY <1>1, <1>2
  <2>2. \A i \in DOMAIN srvIn' : Seen' <= srvIn'[i].from
    BY <1>3, <2>1 DEF QueueInv, OrderInv
  <2>3. ASSUME NEW i \in DOMAIN srvIn', NEW j \in DOMAIN srvIn', i <= j
        PROVE  srvIn'[i].from <= srvIn'[j].from
    <3>1. i+k-1 <= j+k-1 /\ i+k-1 \in DOMAIN srvIn /\ j+k-1 \in DOMAIN srvIn
      BY <1>1, <1>2, <2>1, <2>3
    <3>2. srvIn[i+k-1].from <= srvIn[j+k-1].from
      BY <3>1 DEF QueueInv, OrderInv
    <3> QED
      BY <2>1, <3>2
  <2> QED
    BY <2>2, <2>3 DEF OrderInv
<1>5. ASSUME NEW i \in DOMAIN srvIn', srvIn'[i].op \in CmdOps
      PROVE  /\ Seen' < srvIn'[i].from
             /\ \A j \in 1..i-1 : srvIn'[j].from < srvIn'[i].from
             /\ srvIn'[i].from # sock' => srvIn'[i].op = "put"
             /\ srvIn'[i].from = sock' =>
                  srvIn'[i].op = cmd'.op /\ srvIn'[i].arg = Name(cmd') /\ inbox' = <<>> /\ cpc' = FirstWait(cmd')
  <2>1. i+k-1 \in DOMAIN srvIn /\ i \in 1..Len(srvIn') /\ srvIn'[i] = srvIn[i+k-1]
    BY <1>1, <1>2, <1>5
  <2>2. /\ Seen < srvIn[i+k-1].from
        /\ \A j \in 1..(i+k-1)-1 : srvIn[j].from < srvIn[i+k-1].from
        /\ srvIn[i+k-1].from # sock => srvIn[i+k-1].op = "put"
        /\ srvIn[i+k-1].from = sock =>
             srvIn[i+k-1].op = cmd.op /\ srvIn[i+k-1].arg = Name(cmd) /\ inbox = <<>> /\ cpc = FirstWait(cmd)
    BY <1>5, <2>1 DEF QueueInv, CommandsWait
  <2>3. \A j \in 1..i-1 : j \in 1..Len(srvIn') /\ j+k-1 \in 1..(i+k-1)-1 /\ srvIn'[j] = srvIn[j+k-1]
    BY <1>1, <1>2, <2>1
  <2>4. \A j \in 1..i-1 : srvIn'[j].from < srvIn'[i].from
    BY <2>1, <2>2, <2>3
  <2> QED
    BY <1>3, <2>1, <2>2, <2>4
<1>6. CommandsWait'
  BY <1>5, Zenon DEF CommandsWait
<1> QED
  BY <1>4, <1>6 DEF QueueInv

\* The queue is as it was, or with a datagram of the client behind it that is no
\* command.
Grown ==
  /\ DOMAIN srvIn' = 1..Len(srvIn') /\ Len(srvIn') \in Nat /\ Len(srvIn) <= Len(srvIn')
  /\ \A i \in 1..Len(srvIn) : srvIn'[i] = srvIn[i]
  /\ \A i \in 1..Len(srvIn') :
       i > Len(srvIn) => i = Len(srvIn) + 1 /\ srvIn'[i].from = sock /\ srvIn'[i].op \notin CmdOps

LEMMA GrownSame == ASSUME TypeInv, srvIn' = srvIn PROVE Grown
<1>1. Len(srvIn) \in Nat /\ DOMAIN srvIn = 1..Len(srvIn)
  BY QueueTypes
<1> QED
  BY <1>1 DEF Grown

LEMMA GrownSent ==
  ASSUME TypeInv, NEW m \in Datagrams, srvIn' = srvIn \/ srvIn' = Append(srvIn, m),
         m.from = sock, m.op \notin CmdOps
  PROVE  Grown
<1>1. CASE srvIn' = srvIn
  BY <1>1, GrownSame
<1>2. CASE srvIn' = Append(srvIn, m)
  <2>1. /\ Len(srvIn') = Len(srvIn) + 1 /\ Len(srvIn) \in Nat
        /\ DOMAIN srvIn = 1..Len(srvIn) /\ DOMAIN srvIn' = 1..Len(srvIn)+1
        /\ \A i \in 1..Len(srvIn) : srvIn'[i] = srvIn[i]
        /\ srvIn'[Len(srvIn)+1] = m
    BY <1>2, LongerIs DEF TypeInv
  <2> QED
    BY <2>1 DEF Grown
<1> QED
  BY <1>1, <1>2

\* A client that has read something, or stays where it is, and what it sends then.
LEMMA QueueClient ==
  ASSUME TypeInv, QueueInv, Grown, Seen' = Seen, sock' = sock, cmd' = cmd,
         (cpc' = cpc /\ inbox' = inbox) \/ inbox # <<>>
  PROVE  QueueInv'
<1>1. DOMAIN srvIn = 1..Len(srvIn) /\ Len(srvIn) \in Nat
  BY QueueTypes
<1>2. \A i \in DOMAIN srvIn' :
         \/ i \in DOMAIN srvIn /\ srvIn'[i] = srvIn[i]
         \/ i = Len(srvIn) + 1 /\ srvIn'[i].from = sock /\ srvIn'[i].op \notin CmdOps
  BY <1>1 DEF Grown
<1>3. OrderInv'
  <2>1. Seen \in Nat /\ sock \in Nat /\ Seen <= sock
    BY SeenType
  <2>2. \A i \in DOMAIN srvIn : srvIn[i].from \in Nat /\ srvIn[i].from <= sock /\ i <= Len(srvIn)
    BY <1>1, QueueTypes
  <2>3. \A i \in DOMAIN srvIn' : Seen <= srvIn'[i].from /\ i \in Nat
    BY <1>1, <1>2, <2>1 DEF QueueInv, OrderInv
  <2>4. \A i, j \in DOMAIN srvIn' : i <= j => srvIn'[i].from <= srvIn'[j].from
    BY <1>1, <1>2, <2>1, <2>2 DEF QueueInv, OrderInv
  <2> QED
    BY <2>3, <2>4 DEF OrderInv
<1>4. ASSUME NEW i \in DOMAIN srvIn', srvIn'[i].op \in CmdOps
      PROVE  /\ Seen' < srvIn'[i].from
             /\ \A j \in 1..i-1 : srvIn'[j].from < srvIn'[i].from
             /\ srvIn'[i].from # sock' => srvIn'[i].op = "put"
             /\ srvIn'[i].from = sock' =>
                  srvIn'[i].op = cmd'.op /\ srvIn'[i].arg = Name(cmd') /\ inbox' = <<>> /\ cpc' = FirstWait(cmd')
  <2>1. i \in DOMAIN srvIn /\ i \in 1..Len(srvIn) /\ srvIn'[i] = srvIn[i]
    BY <1>1, <1>2, <1>4
  <2>2. /\ Seen < srvIn[i].from
        /\ \A j \in 1..i-1 : srvIn[j].from < srvIn[i].from
        /\ srvIn[i].from # sock => srvIn[i].op = "put"
        /\ srvIn[i].from = sock =>
             srvIn[i].op = cmd.op /\ srvIn[i].arg = Name(cmd) /\ inbox = <<>> /\ cpc = FirstWait(cmd)
    BY <1>4, <2>1 DEF QueueInv, CommandsWait
  <2>3. \A j \in 1..i-1 : j \in 1..Len(srvIn) /\ srvIn'[j] = srvIn[j]
    BY <1>1, <2>1 DEF Grown
  <2> QED
    BY <2>1, <2>2, <2>3
<1>5. CommandsWait'
  BY <1>4, Zenon DEF CommandsWait
<1> QED
  BY <1>3, <1>5 DEF QueueInv

\* A new command goes behind what is queued.
LEMMA CommandQueued ==
  ASSUME TypeInv, NEW c \in Commands, Command(c)
  PROVE  LET a == Dgram(sock + 1, c.op, Name(c))
             b == IF HasFile(c) THEN Dgram(sock + 1, "size", c.arg) ELSE Dgram(sock + 1, "Error_path", "none")
         IN  /\ \A i \in DOMAIN srvIn : i \in DOMAIN srvIn' /\ srvIn'[i] = srvIn[i]
             /\ \A i \in DOMAIN srvIn' : \/ i \in DOMAIN srvIn
                                         \/ i > Len(srvIn) /\ i \in Nat /\ srvIn'[i].from = sock + 1
             /\ \A i \in DOMAIN srvIn' : \/ i \in DOMAIN srvIn
                                         \/ srvIn'[i] = b
                                         \/ i = Len(srvIn) + 1 /\ srvIn'[i] = a
<1> DEFINE a == Dgram(sock + 1, c.op, Name(c))
           b == IF HasFile(c) THEN Dgram(sock + 1, "size", c.arg) ELSE Dgram(sock + 1, "Error_path", "none")
<1>1. /\ a \in Datagrams /\ b \in Datagrams
      /\ srvIn' \in {srvIn, Append(srvIn, a), Append(srvIn, b), Append(Append(srvIn, a), b)}
  BY CommandSends
<1>2. a.from = sock + 1 /\ a.op = c.op /\ a.arg = Name(c) /\ b.from = sock + 1 /\ b.op \notin CmdOps
  BY DEF Dgram, CmdOps
<1>4. srvIn \in Seq(Datagrams)
  BY QueueTypes
<1>5. /\ Len(srvIn) \in Nat /\ DOMAIN srvIn = 1..Len(srvIn) /\ Seen \in Nat /\ sock \in Nat /\ Seen <= sock
      /\ \A i \in 1..Len(srvIn) : srvIn[i].from \in Nat /\ srvIn[i].from <= sock
  BY QueueTypes, SeenType
<1> HIDE DEF a, b
<1> DEFINE Behind(q) ==
      /\ \A i \in DOMAIN srvIn : i \in DOMAIN q /\ q[i] = srvIn[i]
      /\ \A i \in DOMAIN q : i \in DOMAIN srvIn \/ (i > Len(srvIn) /\ i \in Nat /\ q[i].from = sock + 1)
      /\ \A i \in DOMAIN q : i \in DOMAIN srvIn \/ q[i] = b \/ (i = Len(srvIn) + 1 /\ q[i] = a)
<1>6. Behind(srvIn)
  OBVIOUS
<1>7. ASSUME NEW m \in {a, b} PROVE Behind(Append(srvIn, m))
  <2> DEFINE r == Append(srvIn, m)
  <2>1. /\ DOMAIN r = 1..Len(srvIn)+1
        /\ \A i \in 1..Len(srvIn) : r[i] = srvIn[i]
        /\ r[Len(srvIn)+1] = m
    BY <1>1, <1>4, LongerIs
  <2> QED
    BY <1>2, <1>5, <2>1
<1>8. Behind(Append(Append(srvIn, a), b))
  <2> DEFINE q == Append(srvIn, a)
             r == Append(q, b)
  <2>1. /\ DOMAIN q = 1..Len(srvIn)+1 /\ Len(q) = Len(srvIn)+1 /\ q \in Seq(Datagrams)
        /\ \A i \in 1..Len(srvIn) : q[i] = srvIn[i]
        /\ q[Len(srvIn)+1] = a
    BY <1>1, <1>4, LongerIs
  <2> HIDE DEF q
  <2>2. /\ DOMAIN r = 1..Len(q)+1
        /\ \A i \in 1..Len(q) : r[i] = q[i]
        /\ r[Len(q)+1] = b
    BY <1>1, <2>1, LongerIs
  <2>3. /\ DOMAIN r = 1..Len(srvIn)+2
        /\ \A i \in 1..Len(srvIn) : r[i] = srvIn[i]
        /\ r[Len(srvIn)+1] = a /\ r[Len(srvIn)+2] = b
    BY <1>5, <2>1, <2>2
  <2> HIDE DEF r
  <2>4. Behind(r)
    BY <1>2, <1>5, <2>3
  <2> QED
    BY <2>4 DEF q, r
<1> HIDE DEF Behind
<1>9. Behind(srvIn')
  BY <1>1, <1>6, <1>7, <1>8
<1> QED
  BY <1>9 DEF Behind, a, b

LEMMA QueueCommand ==
  ASSUME TypeInv, QueueInv, NEW c \in Commands, Command(c)
  PROVE  QueueInv'
<1> DEFINE a == Dgram(sock + 1, c.op, Name(c))
           b == IF HasFile(c) THEN Dgram(sock + 1, "size", c.arg) ELSE Dgram(sock + 1, "Error_path", "none")
<1>2. a.from = sock + 1 /\ a.op = c.op /\ a.arg = Name(c) /\ b.from = sock + 1 /\ b.op \notin CmdOps
  BY DEF Dgram, CmdOps
<1>3. /\ cpc = "prompt" /\ sock' = sock + 1 /\ cmd' = c /\ inbox' = <<>> /\ cpc' = FirstWait(c)
      /\ Seen' = Seen
  BY DEF Command, Seen
<1>5. /\ Len(srvIn) \in Nat /\ DOMAIN srvIn = 1..Len(srvIn) /\ Seen \in Nat /\ sock \in Nat /\ Seen <= sock
      /\ \A i \in 1..Len(srvIn) : srvIn[i].from \in Nat /\ srvIn[i].from <= sock
  BY QueueTypes, SeenType
<1>9. /\ \A i \in DOMAIN srvIn : i \in DOMAIN srvIn' /\ srvIn'[i] = srvIn[i]
      /\ \A i \in DOMAIN srvIn' : \/ i \in DOMAIN srvIn
                                  \/ i > Len(srvIn) /\ i \in Nat /\ srvIn'[i].from = sock + 1
      /\ \A i \in DOMAIN srvIn' : \/ i \in DOMAIN srvIn
                                  \/ srvIn'[i] = b
                                  \/ i = Len(srvIn) + 1 /\ srvIn'[i] = a
  BY CommandQueued
<1> HIDE DEF a, b
<1>10. /\ \A i \in DOMAIN srvIn : i \in DOMAIN srvIn' /\ srvIn'[i] = srvIn[i]
       /\ \A i \in DOMAIN srvIn' : i \in DOMAIN srvIn \/ (i > Len(srvIn) /\ i \in Nat /\ srvIn'[i].from = sock + 1)
       /\ \A i \in DOMAIN srvIn' : i \in DOMAIN srvIn \/ srvIn'[i].op \notin CmdOps
                                   \/ (i = Len(srvIn) + 1 /\ srvIn'[i] = a)
  BY <1>2, <1>9
<1>11. OrderInv'
  <2>1. \A i \in DOMAIN srvIn' : Seen' <= srvIn'[i].from
    BY <1>3, <1>5, <1>10 DEF QueueInv, OrderInv
  <2>2. ASSUME NEW i \in DOMAIN srvIn', NEW j \in DOMAIN srvIn', i <= j
        PROVE  srvIn'[i].from <= srvIn'[j].from
    <3>1. CASE j \in DOMAIN srvIn
      <4>1. i \in DOMAIN srvIn
        BY <1>5, <1>10, <2>2, <3>1
      <4> QED
        BY <1>10, <2>2, <3>1, <4>1 DEF QueueInv, OrderInv
    <3>2. CASE j \notin DOMAIN srvIn
      BY <1>5, <1>10, <3>2
    <3> QED
      BY <3>1, <3>2
  <2> QED
    BY <2>1, <2>2 DEF OrderInv
<1>12. ASSUME NEW i \in DOMAIN srvIn', srvIn'[i].op \in CmdOps
       PROVE  /\ Seen' < srvIn'[i].from
              /\ \A j \in 1..i-1 : srvIn'[j].from < srvIn'[i].from
              /\ srvIn'[i].from # sock' => srvIn'[i].op = "put"
              /\ srvIn'[i].from = sock' =>
                   srvIn'[i].op = cmd'.op /\ srvIn'[i].arg = Name(cmd') /\ inbox' = <<>> /\ cpc' = FirstWait(cmd')
  <2>1. CASE i \in DOMAIN srvIn
    <3>1. srvIn'[i] = srvIn[i] /\ srvIn[i].from \in Nat /\ srvIn[i].from <= sock
      BY <1>5, <1>10, <2>1
    <3>2. /\ Seen < srvIn[i].from
          /\ \A j \in 1..i-1 : srvIn[j].from < srvIn[i].from
          /\ srvIn[i].from # sock => srvIn[i].op = "put"
          /\ srvIn[i].from = sock => srvIn[i].op = cmd.op /\ cpc = FirstWait(cmd)
      BY <1>12, <2>1, <3>1 DEF QueueInv, CommandsWait
    <3>3. cpc = FirstWait(cmd) => cmd.op = "put"
      <4>1. cmd \in Commands
        BY DEF TypeInv, TypeOK
      <4> QED
        BY <1>3, <4>1 DEF Commands, FirstWait
    <3>4. \A j \in 1..i-1 : j \in DOMAIN srvIn /\ srvIn'[j] = srvIn[j]
      BY <1>5, <1>10, <2>1
    <3> QED
      BY <1>3, <1>5, <3>1, <3>2, <3>3, <3>4
  <2>2. CASE i \notin DOMAIN srvIn
    <3>1. i = Len(srvIn) + 1 /\ srvIn'[i] = a
      BY <1>10, <1>12, <2>2
    <3>2. \A j \in 1..i-1 : j \in DOMAIN srvIn /\ srvIn'[j] = srvIn[j] /\ srvIn[j].from \in Nat
                            /\ srvIn[j].from <= sock
      BY <1>5, <1>10, <3>1
    <3> QED
      BY <1>2, <1>3, <1>5, <3>1, <3>2
  <2> QED
    BY <2>1, <2>2
<1>13. CommandsWait'
  BY <1>12, Zenon DEF CommandsWait
<1> QED
  BY <1>11, <1>13 DEF QueueInv

-----------------------------------------------------------------------------
\* What the server sends: datagrams of ops for command of, behind what is in the
\* inbox, or nothing, if k is not the socket of the last command.
Told(k, of, ops) ==
  /\ k # sock => inbox' = inbox
  /\ DOMAIN inbox = 1..Len(inbox) /\ DOMAIN inbox' = 1..Len(inbox')
  /\ Len(inbox) \in Nat /\ Len(inbox') \in Nat /\ Len(inbox) <= Len(inbox')
  /\ \A i \in 1..Len(inbox) : inbox'[i] = inbox[i]
  /\ \A i \in 1..Len(inbox') : i > Len(inbox) => inbox'[i].of = of /\ inbox'[i].op \in ops

LEMMA ToldNothing == ASSUME TypeInv, inbox' = inbox, NEW k, NEW of, NEW ops PROVE Told(k, of, ops)
<1>1. Len(inbox) \in Nat /\ DOMAIN inbox = 1..Len(inbox)
  BY LenProperties DEF TypeInv
<1> QED
  BY <1>1 DEF Told

LEMMA ToldOne ==
  ASSUME TypeInv, NEW k, NEW of \in Sockets, NEW op \in ClOps, NEW f \in SUBSET Faults,
         ToClient(k, of, <<op>>, f)
  PROVE  Told(k, of, {op})
<1> DEFINE m == [of |-> of, op |-> op]
<1>1. inbox' = inbox \/ (k = sock /\ inbox' = Append(inbox, m))
  BY ClientHears
<1>2. m \in ToCl /\ m.of = of /\ m.op = op
  BY DEF ToCl, ClOps
<1> HIDE DEF m
<1>3. CASE inbox' = inbox
  BY <1>3, ToldNothing
<1>4. CASE k = sock /\ inbox' = Append(inbox, m)
  <2>1. inbox \in Seq(ToCl)
    BY DEF TypeInv
  <2>2. /\ Len(inbox') = Len(inbox) + 1 /\ Len(inbox) \in Nat
        /\ DOMAIN inbox = 1..Len(inbox) /\ DOMAIN inbox' = 1..Len(inbox)+1
        /\ \A i \in 1..Len(inbox) : inbox'[i] = inbox[i]
        /\ inbox'[Len(inbox)+1] = m
    BY <1>2, <1>4, <2>1, LongerIs
  <2> QED
    BY <1>2, <1>4, <2>2 DEF Told
<1> QED
  BY <1>1, <1>3, <1>4

LEMMA ToldTwo ==
  ASSUME TypeInv, NEW k, NEW of \in Sockets, NEW f \in SUBSET Faults,
         ToClient(k, of, <<"count", "name">>, f)
  PROVE  Told(k, of, {"count", "name"})
<1> DEFINE a == [of |-> of, op |-> "count"]
           b == [of |-> of, op |-> "name"]
           q == Append(inbox, a)
           r == Append(q, b)
<1>1. inbox' = inbox \/ (k = sock /\ inbox' \in {Append(inbox, a), Append(inbox, b), r})
  BY ClientHearsTwo
<1>2. a \in ToCl /\ a.of = of /\ a.op = "count" /\ b \in ToCl /\ b.of = of /\ b.op = "name"
  BY DEF ToCl
<1>3. inbox \in Seq(ToCl)
  BY DEF TypeInv
<1> HIDE DEF a, b
<1>4. CASE inbox' = inbox
  BY <1>4, ToldNothing
<1>5. ASSUME NEW m \in {a, b}, k = sock, inbox' = Append(inbox, m)
      PROVE  Told(k, of, {"count", "name"})
  <2>1. /\ Len(inbox') = Len(inbox) + 1 /\ Len(inbox) \in Nat
        /\ DOMAIN inbox = 1..Len(inbox) /\ DOMAIN inbox' = 1..Len(inbox)+1
        /\ \A i \in 1..Len(inbox) : inbox'[i] = inbox[i]
        /\ inbox'[Len(inbox)+1] = m
    BY <1>2, <1>3, <1>5, LongerIs
  <2> QED
    BY <1>2, <1>5, <2>1 DEF Told
<1>6. CASE k = sock /\ inbox' = r
  <2>1. /\ q \in Seq(ToCl) /\ Len(q) = Len(inbox) + 1 /\ Len(inbox) \in Nat
        /\ DOMAIN inbox = 1..Len(inbox)
        /\ \A i \in 1..Len(inbox) : q[i] = inbox[i]
        /\ q[Len(inbox)+1] = a
    BY <1>2, <1>3, LongerIs
  <2> HIDE DEF q
  <2>2. /\ Len(inbox') = Len(q) + 1
        /\ DOMAIN inbox' = 1..Len(q)+1
        /\ \A i \in 1..Len(q) : inbox'[i] = q[i]
        /\ inbox'[Len(q)+1] = b
    BY <1>2, <1>6, <2>1, LongerIs
  <2>3. /\ Len(inbox') = Len(inbox) + 2 /\ DOMAIN inbox' = 1..Len(inbox)+2
        /\ \A i \in 1..Len(inbox) : inbox'[i] = inbox[i]
        /\ inbox'[Len(inbox)+1] = a /\ inbox'[Len(inbox)+2] = b
    BY <2>1, <2>2
  <2> QED
    BY <1>2, <1>6, <2>1, <2>3 DEF Told
<1> QED
  BY <1>1, <1>4, <1>5, <1>6

-----------------------------------------------------------------------------
\* The queue of the server, without its first d datagrams.
Left(d) ==
  /\ DOMAIN srvIn' = 1..Len(srvIn') /\ Len(srvIn') \in Nat
  /\ \A i \in DOMAIN srvIn' : i+d \in DOMAIN srvIn /\ srvIn'[i] = srvIn[i+d]

LEMMA LeftTaken == ASSUME TypeInv, Taken PROVE Left(1)
<1>1. /\ Len(srvIn') = Len(srvIn) - 1 /\ Len(srvIn) \in Nat
      /\ \A i \in 1..Len(srvIn') : srvIn'[i] = srvIn[i+1]
      /\ DOMAIN srvIn = 1..Len(srvIn) /\ DOMAIN srvIn' = 1..Len(srvIn')
  BY TakenIs
<1> QED
  BY <1>1 DEF Left

LEMMA LeftSame == ASSUME TypeInv, srvIn' = srvIn PROVE Left(0)
<1>1. DOMAIN srvIn = 1..Len(srvIn) /\ Len(srvIn) \in Nat
  BY QueueTypes
<1> QED
  BY <1>1 DEF Left

LEMMA LeftRebind == ASSUME TypeInv, Rebind PROVE \E d \in Nat : Left(d)
<1>1. PICK k \in 1..Len(srvIn)+1 : srvIn' = SubSeq(srvIn, k, Len(srvIn))
  BY DEF Rebind
<1>2. /\ Len(srvIn') = Len(srvIn) - k + 1 /\ Len(srvIn) \in Nat
      /\ DOMAIN srvIn = 1..Len(srvIn) /\ DOMAIN srvIn' = 1..Len(srvIn')
      /\ \A i \in 1..Len(srvIn') : srvIn'[i] = srvIn[i+k-1]
  BY <1>1, SuffixIs DEF TypeInv
<1> DEFINE d == k-1
<1>3. d \in Nat /\ d+1 = k /\ DOMAIN srvIn' = 1..Len(srvIn') /\ Len(srvIn') \in Nat
  BY <1>1, <1>2
<1>4. \A i \in 1..Len(srvIn') : i+k-1 = i+d /\ i+d \in DOMAIN srvIn
  BY <1>1, <1>2
<1>5. Left(d)
  BY <1>2, <1>3, <1>4 DEF Left
<1> QED
  BY <1>3, <1>5

\* Where the last datagram read was of the client's socket, so is what is queued.
LEMMA LastOnly ==
  ASSUME TypeInv, QueueInv, Seen = sock \/ (Taken /\ Src = sock)
  PROVE  \A i \in DOMAIN srvIn : srvIn[i].from = sock
<1>1. /\ DOMAIN srvIn = 1..Len(srvIn) /\ Len(srvIn) \in Nat /\ sock \in Nat
      /\ \A i \in 1..Len(srvIn) : srvIn[i].from \in Nat /\ srvIn[i].from <= sock
  BY QueueTypes, SeenType
<1>2. CASE Seen = sock
  BY <1>1, <1>2 DEF QueueInv, OrderInv
<1>3. CASE Taken /\ Src = sock
  <2>1. 1 \in DOMAIN srvIn /\ srvIn[1].from = sock
    BY <1>3, TakenIs
  <2>2. \A i \in DOMAIN srvIn : 1 <= i
    BY <1>1
  <2>3. \A i \in DOMAIN srvIn : sock <= srvIn[i].from
    BY <2>1, <2>2 DEF QueueInv, OrderInv
  <2> QED
    BY <1>1, <2>3
<1> QED
  BY <1>2, <1>3

\* The datagram the server reads is in the order of the sockets; if it is a
\* command, of the last socket, then nothing was told to that socket yet.
LEMMA TakenFirst ==
  ASSUME TypeInv, QueueInv, Taken
  PROVE  /\ Src \in 1..sock /\ Seen <= Src /\ job <= Src /\ sock \in Nat /\ job \in Nat /\ Seen \in Nat
         /\ 1 \in DOMAIN srvIn /\ Src = srvIn[1].from /\ Op = srvIn[1].op /\ Arg = srvIn[1].arg
         /\ job = sock => Src = sock
         /\ Op \in CmdOps =>
              /\ Src # sock => Op = "put"
              /\ Src = sock => Op = cmd.op /\ Arg = Name(cmd) /\ inbox = <<>> /\ cpc = FirstWait(cmd)
              /\ Seen < Src
<1>1. /\ 1 \in DOMAIN srvIn /\ Src = srvIn[1].from /\ Op = srvIn[1].op /\ Arg = srvIn[1].arg /\ Src \in 1..sock
  BY TakenIs
<1>2. Seen \in Nat /\ sock \in Nat /\ Seen <= sock /\ job <= Seen /\ job \in Nat
  BY SeenType
<1>3. Seen <= Src
  BY <1>1 DEF QueueInv, OrderInv
<1> QED
  BY <1>1, <1>2, <1>3 DEF QueueInv, CommandsWait

-----------------------------------------------------------------------------
\* What the parts of the invariant need of a step of the server.
LEMMA StartServer ==
  ASSUME TypeInv, QueueInv, StartInv, UNCHANGED <<cpc, cmd, sock>>, NEW d \in Nat, Left(d),
         inbox' = inbox \/ Seen = sock \/ (Taken /\ Src = sock),
         spc' = "size" => Untouched /\ inbox' = inbox,
         spc' = "rcv" /\ si_other' # sock => Untouched /\ inbox' = inbox
  PROVE  StartInv'
<1>1. Untouched /\ inbox' = inbox => Untouched'
  BY DEF Untouched
<1>2. ~ Untouched' => \A i \in DOMAIN srvIn : srvIn[i].from = sock
  BY <1>1, LastOnly DEF StartInv
<1>3. ~ Untouched' => \A i \in DOMAIN srvIn' : srvIn'[i].from = sock
  BY <1>2 DEF Left
<1> QED
  BY <1>1, <1>3 DEF StartInv

LEMMA StrayServer ==
  ASSUME StrayInv, UNCHANGED <<cmd, sock>>, NEW k, NEW of, NEW ops, Told(k, of, ops),
         inbox' = inbox \/ of = sock \/ ops = {"final"} \/ (HasFile(cmd) /\ ops \subseteq {"ack", "probe", "finack"}),
         of = sock /\ "final" \in ops => cmd.op = "get"
  PROVE  StrayInv'
<1>1. \A i \in DOMAIN inbox' : \/ i \in DOMAIN inbox /\ inbox'[i] = inbox[i]
                               \/ inbox' # inbox /\ inbox'[i].of = of /\ inbox'[i].op \in ops
  BY DEF Told
<1>2. OnlyTransferStrays'
  BY <1>1 DEF StrayInv, OnlyTransferStrays
<1> QED
  BY <1>1, <1>2 DEF StrayInv

LEMMA DataServer ==
  ASSUME TypeInv, DataInv, UNCHANGED <<cmd, sock>>, NEW d \in Nat, Left(d),
         spc' \in {"size", "rcv"} =>
           spc \in {"size", "rcv"} \/ (d = 1 /\ 1 \in DOMAIN srvIn /\ srvIn[1].op = "put")
  PROVE  DataInv'
<1>1. /\ \A i \in DOMAIN srvIn' : i \in Nat /\ i >= 1 /\ i+d \in DOMAIN srvIn /\ srvIn'[i] = srvIn[i+d]
      /\ DOMAIN srvIn' = 1..Len(srvIn') /\ Len(srvIn') \in Nat
  BY DEF Left
<1>2. \A i \in DOMAIN srvIn' : srvIn'[i].from = sock' =>
        (srvIn'[i].op = "data" => Uploading') /\ (srvIn'[i].op = "final" => HasFile(cmd'))
  BY <1>1 DEF DataInv, Uploading
<1>3. ASSUME NEW j \in DOMAIN srvIn', srvIn'[j].op = "data", spc' \in {"size", "rcv"}
      PROVE  srvIn'[j].from = sock'
  <2>1. j+d \in DOMAIN srvIn /\ srvIn'[j] = srvIn[j+d] /\ j \in Nat /\ j >= 1
    BY <1>1
  <2>2. CASE spc \in {"size", "rcv"}
    BY <1>3, <2>1, <2>2 DEF DataInv
  <2>3. CASE d = 1 /\ srvIn[1].op = "put"
    <3>1. 1 \in 1..(j+d)-1
      BY <2>1, <2>3
    <3> QED
      BY <1>3, <2>1, <2>3, <3>1 DEF DataInv
  <2> QED
    BY <1>3, <2>2, <2>3
<1>4. ASSUME NEW j \in DOMAIN srvIn', srvIn'[j].op = "data", NEW i \in 1..j-1, srvIn'[i].op = "put"
      PROVE  srvIn'[j].from = sock'
  <2>1. j+d \in DOMAIN srvIn /\ srvIn'[j] = srvIn[j+d] /\ j \in Nat /\ j >= 1
    BY <1>1
  <2>2. i \in DOMAIN srvIn' /\ i+d \in 1..(j+d)-1
    <3>1. j \in 1..Len(srvIn') /\ i \in Int /\ 1 <= i /\ i <= j-1 /\ d >= 0
      BY <1>1, <1>4
    <3> QED
      BY <1>1, <3>1
  <2> QED
    BY <1>1, <1>4, <2>1, <2>2 DEF DataInv
<1> QED
  BY <1>2, <1>3, <1>4 DEF DataInv

\* What the server sends an upload, and what it records of it.
LEMMA PutServer ==
  ASSUME TypeInv, PutInv, UNCHANGED <<cpc, cmd, sock>>, received \subseteq received',
         NEW d \in Nat, Left(d), NEW k, NEW of, NEW ops, Told(k, of, ops),
         Uploading /\ inbox' # inbox /\ "finack" \in ops => Stored',
         Uploading /\ inbox' # inbox /\ "final" \in ops => ops = {"final"} /\ spc \in {"snd", "fin"},
         Uploading /\ spc' \in {"size", "rcv"} /\ sfile' # sock =>
           cpc = "snd" /\ sack' = "probe" /\ \A i \in DOMAIN inbox' : inbox'[i].op = "probe",
         Uploading /\ spc' \in {"snd", "fin"} => spc \in {"snd", "fin"} /\ (inbox' = inbox \/ ops = {"final"})
  PROVE  PutInv'
<1>1. \A i \in DOMAIN inbox' : \/ i \in DOMAIN inbox /\ inbox'[i] = inbox[i]
                               \/ i \notin DOMAIN inbox /\ inbox' # inbox /\ inbox'[i].op \in ops
  BY DEF Told
<1>2. Stored => Stored'
  BY DEF Stored
<1>3. Uploading' = Uploading
  BY DEF Uploading
<1>4. Uploading => \A i \in DOMAIN inbox' : inbox'[i].op = "finack" => Stored'
  BY <1>1, <1>2 DEF PutInv
<1>5. Uploading => \A i \in DOMAIN srvIn' : srvIn'[i].op = "final" /\ srvIn'[i].from = sock => cpc # "snd"
  BY DEF PutInv, Left
<1>6. ASSUME Uploading, NEW j \in DOMAIN inbox', inbox'[j].op = "final", NEW i \in 1..j
      PROVE  inbox'[i].op = "final"
  <2>1. i \in DOMAIN inbox' /\ (j \in DOMAIN inbox => i \in DOMAIN inbox)
        /\ (i \in DOMAIN inbox => inbox'[i] = inbox[i])
    BY <1>6 DEF Told
  <2>2. CASE j \in DOMAIN inbox
    BY <1>1, <1>6, <2>1, <2>2 DEF PutInv
  <2>3. CASE j \notin DOMAIN inbox
    <3>1. inbox' # inbox /\ "final" \in ops
      BY <1>1, <1>6, <2>3, Zenon
    <3>2. spc \in {"snd", "fin"} /\ ops = {"final"}
      BY <1>6, <3>1
    <3>3. \A n \in DOMAIN inbox : inbox[n].op = "final"
      BY <1>6, <3>2 DEF PutInv
    <3>4. CASE i \in DOMAIN inbox
      BY <2>1, <3>3, <3>4
    <3>5. CASE i \notin DOMAIN inbox
      BY <1>1, <2>1, <3>2, <3>5
    <3> QED
      BY <3>4, <3>5
  <2> QED
    BY <2>2, <2>3
<1>7. Uploading /\ cpc = "fin" => \A i \in DOMAIN inbox' : inbox'[i].op # "final"
  BY <1>1 DEF PutInv
<1>8. Uploading /\ spc' \in {"snd", "fin"} => cpc = "snd" /\ \A i \in DOMAIN inbox' : inbox'[i].op = "final"
  BY <1>1 DEF PutInv
<1> QED
  BY <1>2, <1>3, <1>4, <1>5, <1>6, <1>7, <1>8 DEF PutInv

-----------------------------------------------------------------------------
\* The steps of the client.
ServerIdle == UNCHANGED <<cmd, sock, spc, from, si_other, job, sack, sfile, received>>

\* What the client reads, and what is left.
LEMMA ReadNext ==
  ASSUME TypeInv, Read
  PROVE  /\ 1 \in DOMAIN inbox /\ In = inbox[1].op /\ Head(inbox) = inbox[1] /\ inbox # <<>>
         /\ \A i \in DOMAIN inbox' : i \in Nat /\ i+1 \in DOMAIN inbox /\ inbox'[i] = inbox[i+1]
<1>1. /\ Len(inbox') = Len(inbox) - 1 /\ Len(inbox) \in Nat /\ Len(inbox) >= 1
      /\ DOMAIN inbox = 1..Len(inbox) /\ DOMAIN inbox' = 1..Len(inbox')
      /\ \A i \in 1..Len(inbox') : inbox'[i] = inbox[i+1]
      /\ In = inbox[1].op /\ Head(inbox) = inbox[1]
  BY ReadIs
<1> QED
  BY <1>1 DEF Read

\* What all of them keep, whatever the client reads, if it sends blocks and final
\* packets for its uploads alone.
LEMMA ClientKeeps ==
  ASSUME IInv, Grown, ServerIdle, Read \/ (inbox' = inbox /\ cpc' = cpc),
         \A i \in DOMAIN srvIn' : i > Len(srvIn) =>
           (srvIn'[i].op = "data" => Uploading) /\ (srvIn'[i].op = "final" => HasFile(cmd)),
         spc = "snd" => cpc' \in {"first", "recv"},
         HasFile(cmd) /\ spc = "rcv" => cpc' \in {"snd", "fin"}
  PROVE  QueueInv' /\ StageInv' /\ StartInv' /\ StrayInv' /\ DataInv' /\ RcvInv'
<1>1. /\ TypeInv /\ QueueInv /\ ClientInv /\ StageInv /\ StartInv /\ StrayInv /\ DataInv /\ RcvInv
      /\ UNCHANGED <<cmd, sock, spc, from, si_other, job, sack, sfile, received>>
  BY DEF IInv, PartsInv, QueueInv, ServerIdle
<1>2. Read => ~ Untouched
  BY DEF Read, Untouched
<1>3. \A i \in DOMAIN inbox' : \E j \in DOMAIN inbox : inbox'[i] = inbox[j]
  BY <1>1, ReadNext
<1>4. /\ DOMAIN srvIn = 1..Len(srvIn) /\ Len(srvIn) \in Nat
      /\ \A i \in DOMAIN srvIn' : \/ i \in DOMAIN srvIn /\ srvIn'[i] = srvIn[i] /\ i <= Len(srvIn)
                                  \/ i = Len(srvIn) + 1 /\ srvIn'[i].from = sock /\ srvIn'[i].op \notin CmdOps
      /\ \A i \in DOMAIN srvIn : srvIn'[i] = srvIn[i]
  BY <1>1, QueueTypes DEF Grown
<1>5. QueueInv'
  BY <1>1, QueueClient DEF Read, Seen
<1>6. StageInv'
  BY <1>1, <1>3 DEF StageInv
<1>7. StartInv'
  <2>1. Untouched /\ ~ Read => Untouched'
    BY <1>1 DEF Untouched
  <2>2. ~ Untouched => \A i \in DOMAIN srvIn' : srvIn'[i].from = sock
    BY <1>1, <1>4 DEF StartInv
  <2> QED
    BY <1>1, <1>2, <2>1, <2>2 DEF StartInv
<1>8. StrayInv'
  BY <1>1, <1>3 DEF StrayInv, OnlyTransferStrays
<1>9. DataInv'
  <2>1. ASSUME NEW j \in DOMAIN srvIn', srvIn'[j].op = "data"
        PROVE  /\ spc' \in {"size", "rcv"} => srvIn'[j].from = sock'
               /\ \A i \in 1..j-1 : srvIn'[i].op = "put" => srvIn'[j].from = sock'
    <3>1. CASE j \in DOMAIN srvIn
      <4>1. srvIn'[j] = srvIn[j] /\ \A i \in 1..j-1 : i \in DOMAIN srvIn /\ srvIn'[i] = srvIn[i]
        BY <1>4, <3>1
      <4> QED
        BY <1>1, <2>1, <3>1, <4>1 DEF DataInv
    <3>2. CASE j \notin DOMAIN srvIn
      BY <1>1, <1>4, <2>1, <3>2
    <3> QED
      BY <3>1, <3>2
  <2>2. \A i \in DOMAIN srvIn' : srvIn'[i].from = sock' =>
          (srvIn'[i].op = "data" => Uploading') /\ (srvIn'[i].op = "final" => HasFile(cmd'))
    <3>1. Uploading' = Uploading /\ HasFile(cmd') = HasFile(cmd)
      BY <1>1 DEF Uploading
    <3>2. \A i \in DOMAIN srvIn' : i \in DOMAIN srvIn \/ i > Len(srvIn)
      BY <1>4
    <3>3. \A i \in DOMAIN srvIn : srvIn'[i].from = sock' =>
            (srvIn'[i].op = "data" => Uploading) /\ (srvIn'[i].op = "final" => HasFile(cmd))
      BY <1>1, <1>4 DEF DataInv
    <3> QED
      BY <3>1, <3>2, <3>3
  <2> QED
    BY <2>1, <2>2 DEF DataInv
<1>10. RcvInv'
  <2>1. spc = "size" => cpc' = cpc
    BY <1>1, <1>2 DEF StartInv
  <2>2. spc \in {"size", "rcv"} /\ HasFile(cmd) => cpc' \in {"snd", "fin"}
    BY <1>1, <2>1 DEF RcvInv
  <2>3. Uploading' = Uploading
    BY <1>1 DEF Uploading
  <2> QED
    BY <1>1, <1>3, <2>2, <2>3 DEF RcvInv
<1> QED
  BY <1>5, <1>6, <1>7, <1>8, <1>9, <1>10

\* What the client sends is no command.
LEMMA GrownToServer ==
  ASSUME TypeInv, sock # 0, NEW op \in {"data", "final", "ack", "finack", "probe"}, NEW f \in SUBSET Faults,
         ToServer(<<Dgram(sock, op, "none")>>, f)
  PROVE  Grown /\ \A i \in DOMAIN srvIn' : i > Len(srvIn) => srvIn'[i].op = op
<1> DEFINE m == Dgram(sock, op, "none")
<1>1. m \in Datagrams /\ m.from = sock /\ m.op = op /\ m.op \notin CmdOps
  BY ClientSays DEF Dgram, CmdOps
<1> HIDE DEF m
<1>2. srvIn' = srvIn \/ srvIn' = Append(srvIn, m)
  BY <1>1, ServerHears DEF m
<1>3. Grown
  BY <1>1, <1>2, GrownSent
<1>4. CASE srvIn' = srvIn
  BY <1>3, <1>4, QueueTypes
<1>5. CASE srvIn' = Append(srvIn, m)
  <2>1. DOMAIN srvIn' = 1..Len(srvIn)+1 /\ srvIn'[Len(srvIn)+1] = m /\ Len(srvIn) \in Nat
    BY <1>1, <1>5, LongerIs DEF TypeInv
  <2> QED
    BY <1>1, <1>3, <2>1
<1> QED
  BY <1>2, <1>4, <1>5

\* A client that is not at an upload.
LEMMA ElsewhereStep ==
  ASSUME IInv, ReadList \/ ReadFirst \/ ReadReply \/ RecvData \/ RecvFinal \/ RecvText \/ ProbeServer
  PROVE  QueueInv' /\ PartsInv'
<1>1. /\ TypeInv /\ ServerIdle /\ cpc \in {"count", "name", "drain", "first", "reply", "bye", "recv"}
      /\ Read \/ (inbox' = inbox /\ cpc' = cpc)
      /\ cpc' \notin {"snd", "fin"}
  BY DEF IInv, ServerIdle, ReadList, ReadFirst, ReadReply, RecvData, RecvFinal, RecvText, ProbeServer,
         clVars, srvVars
<1>2. ~ HasFile(cmd) /\ ~ Uploading /\ sock # 0
  BY <1>1 DEF IInv, PartsInv, ClientInv, TypeInv, Uploading, HasFile
<1>3. Grown /\ \A i \in DOMAIN srvIn' : i > Len(srvIn) => srvIn'[i].op \in {"ack", "finack", "probe"}
  <2>1. CASE ReadList \/ ReadFirst \/ ReadReply \/ RecvText
    <3>1. srvIn' = srvIn
      BY <2>1 DEF ReadList, ReadFirst, ReadReply, RecvText, srvVars
    <3> QED
      BY <1>1, <3>1, GrownSame, QueueTypes
  <2>2. CASE RecvData \/ RecvFinal \/ ProbeServer
    <3>1. PICK op \in {"ack", "finack", "probe"} : ToServer(<<Dgram(sock, op, "none")>>, {})
      BY <1>1, <2>2 DEF RecvData, RecvFinal, ProbeServer, TypeInv, TypeOK
    <3>2. {} \in SUBSET Faults
      OBVIOUS
    <3> QED
      BY <1>1, <1>2, <3>1, <3>2, GrownToServer
  <2> QED
    BY <2>1, <2>2
<1>4. spc = "snd" => cpc' \in {"first", "recv"}
  <2>1. SUFFICES ASSUME spc = "snd" PROVE cpc' \in {"first", "recv"}
    OBVIOUS
  <2>2. job = sock /\ cmd.arg = "file" /\ cpc \in {"first", "recv"} /\ (Read => In = "data")
    BY <1>1, <2>1, ReadNext DEF IInv, PartsInv, StageInv
  <2> QED
    BY <2>2 DEF ReadList, ReadFirst, ReadReply, RecvData, RecvFinal, RecvText, ProbeServer, clVars
<1>5. QueueInv' /\ StageInv' /\ StartInv' /\ StrayInv' /\ DataInv' /\ RcvInv'
  BY <1>1, <1>2, <1>3, <1>4, ClientKeeps
<1>6. ClientInv' /\ PutInv'
  BY <1>1, <1>2 DEF ServerIdle, ClientInv, PutInv, Uploading
<1> QED
  BY <1>5, <1>6 DEF PartsInv

\* An upload sends its block, or its final packet when that is acknowledged.
LEMMA SendToServerStep == ASSUME IInv, SendToServer PROVE QueueInv' /\ PartsInv'
<1> DEFINE op == IF cpc = "snd" THEN "data" ELSE "final"
<1>1. /\ TypeInv /\ ServerIdle /\ inbox' = inbox /\ cpc' = cpc /\ cpc \in {"snd", "fin"}
      /\ ToServer(<<Dgram(sock, op, "none")>>, Early)
  BY DEF IInv, ServerIdle, SendToServer, clVars
<1>2. /\ Early \in SUBSET Faults /\ sock # 0 /\ op \in {"data", "final", "ack", "finack", "probe"}
      /\ (op = "data" => Uploading) /\ (op = "final" => cpc = "fin" /\ HasFile(cmd)) /\ op \in {"data", "final"}
  BY <1>1 DEF IInv, PartsInv, ClientInv, TypeInv, Early, Faults
<1> HIDE DEF op
<1>3. Grown /\ \A i \in DOMAIN srvIn' : i > Len(srvIn) => srvIn'[i].op = op
  BY <1>1, <1>2, GrownToServer
<1>4. spc # "snd"
  BY <1>1 DEF IInv, PartsInv, StageInv
<1>5. QueueInv' /\ StageInv' /\ StartInv' /\ StrayInv' /\ DataInv' /\ RcvInv'
  BY <1>1, <1>2, <1>3, <1>4, ClientKeeps
<1>6. ClientInv'
  BY <1>1 DEF ServerIdle, IInv, PartsInv, ClientInv, Uploading
<1>7. PutInv'
  <2>1. \A i \in DOMAIN srvIn' : \/ i \in DOMAIN srvIn /\ srvIn'[i] = srvIn[i]
                                 \/ i > Len(srvIn) /\ srvIn'[i].op = op
    BY <1>1, <1>3, QueueTypes DEF Grown
  <2>2. Uploading => \A i \in DOMAIN srvIn' : srvIn'[i].op = "final" /\ srvIn'[i].from = sock => cpc # "snd"
    BY <1>2, <2>1 DEF IInv, PartsInv, PutInv
  <2>3. UNCHANGED <<Uploading, Stored>>
    BY <1>1 DEF ServerIdle, Uploading, Stored
  <2> QED
    BY <1>1, <2>2, <2>3 DEF ServerIdle, IInv, PartsInv, PutInv
<1> QED
  BY <1>5, <1>6, <1>7 DEF PartsInv

\* An upload reads an ACK of its block: the server has it, and no final packet of an
\* earlier get is to come.
LEMMA ReadAckStep == ASSUME IInv, ReadAck PROVE QueueInv' /\ PartsInv'
<1>1. /\ TypeInv /\ ServerIdle /\ Read /\ cpc = "snd" /\ srvIn' = srvIn
      /\ cpc' = IF In \in {"probe", "final", "finack"} THEN "snd" ELSE "fin"
  BY DEF IInv, ServerIdle, ReadAck, srvVars
<1>2. /\ 1 \in DOMAIN inbox /\ In = inbox[1].op
      /\ \A i \in DOMAIN inbox' : i \in Nat /\ i+1 \in DOMAIN inbox /\ inbox'[i] = inbox[i+1]
      /\ DOMAIN inbox = 1..Len(inbox) /\ Len(inbox) \in Nat
  BY <1>1, ReadNext, LenProperties DEF TypeInv
<1>3. Uploading /\ HasFile(cmd) /\ spc # "snd" /\ PutInv
  BY <1>1 DEF IInv, PartsInv, ClientInv, StageInv, Uploading, HasFile
<1>4. Grown /\ \A i \in DOMAIN srvIn' : ~ i > Len(srvIn)
  BY <1>1, GrownSame, QueueTypes
<1>5. QueueInv' /\ StageInv' /\ StartInv' /\ StrayInv' /\ DataInv' /\ RcvInv'
  BY <1>1, <1>3, <1>4, ClientKeeps
<1>6. ClientInv'
  BY <1>1, <1>3 DEF ServerIdle, ClientInv, Uploading
<1>7. PutInv'
  <2>1. UNCHANGED <<Uploading, Stored>>
    BY <1>1 DEF ServerIdle, Uploading, Stored
  <2>2. cpc' = "fin" => \A i \in DOMAIN inbox : inbox[i].op # "final"
    BY <1>1, <1>2, <1>3 DEF PutInv
  <2>3. spc \in {"size", "rcv"} /\ sfile # sock => In = "probe"
    BY <1>2, <1>3 DEF PutInv
  <2>4. spc \in {"snd", "fin"} => In = "final"
    BY <1>2, <1>3 DEF PutInv
  <2>5. ASSUME NEW j \in DOMAIN inbox', inbox'[j].op = "final", NEW i \in 1..j
        PROVE  inbox'[i].op = "final"
    <3>1. j+1 \in DOMAIN inbox /\ inbox[j+1].op = "final" /\ i+1 \in 1..(j+1) /\ i \in DOMAIN inbox'
      BY <1>1, <1>2, <2>5, ReadIs
    <3> QED
      BY <1>2, <1>3, <3>1 DEF PutInv
  <2> QED
    BY <1>1, <1>2, <1>3, <2>1, <2>2, <2>3, <2>4, <2>5 DEF ServerIdle, PutInv
<1> QED
  BY <1>5, <1>6, <1>7 DEF PartsInv

\* An upload ends on the ACK of its final packet.
LEMMA ReadFinalAckStep == ASSUME IInv, ReadFinalAck PROVE QueueInv' /\ PartsInv'
<1>1. /\ TypeInv /\ ServerIdle /\ Read /\ cpc = "fin" /\ srvIn' = srvIn
      /\ cpc' = IF In \in {"final", "finack"} THEN "prompt" ELSE "fin"
  BY DEF IInv, ServerIdle, ReadFinalAck, srvVars
<1>2. /\ 1 \in DOMAIN inbox /\ In = inbox[1].op
      /\ \A i \in DOMAIN inbox' : i \in Nat /\ i+1 \in DOMAIN inbox /\ inbox'[i] = inbox[i+1]
  BY <1>1, ReadNext
<1>3. HasFile(cmd) /\ spc # "snd" /\ PutInv
  BY <1>1 DEF IInv, PartsInv, ClientInv, StageInv
<1>4. spc = "rcv" => cpc' = "fin"
  BY <1>1, <1>2 DEF IInv, PartsInv, RcvInv
<1>5. Grown /\ \A i \in DOMAIN srvIn' : ~ i > Len(srvIn)
  BY <1>1, GrownSame, QueueTypes
<1>6. QueueInv' /\ StageInv' /\ StartInv' /\ StrayInv' /\ DataInv' /\ RcvInv'
  BY <1>1, <1>3, <1>4, <1>5, ClientKeeps
<1>7. ClientInv'
  BY <1>1, <1>3 DEF ServerIdle, ClientInv, Uploading
<1>8. PutInv'
  <2>1. UNCHANGED <<Uploading, Stored>>
    BY <1>1 DEF ServerIdle, Uploading, Stored
  <2>2. Uploading => \A i \in DOMAIN inbox : inbox[i].op # "final"
    BY <1>1, <1>3 DEF PutInv
  <2>3. Uploading /\ cpc' = "prompt" => Stored
    BY <1>1, <1>2, <1>3, <2>2 DEF PutInv
  <2>4. Uploading => ~ (spc \in {"size", "rcv"} /\ sfile # sock) /\ spc \notin {"snd", "fin"}
    BY <1>1, <1>3 DEF PutInv
  <2> QED
    BY <1>1, <1>2, <1>3, <2>1, <2>2, <2>3, <2>4 DEF ServerIdle, PutInv
<1> QED
  BY <1>6, <1>7, <1>8 DEF PartsInv

LEMMA ClientStep == ASSUME IInv, ClientNext PROVE QueueInv' /\ PartsInv'
BY ElsewhereStep, SendToServerStep, ReadAckStep, ReadFinalAckStep DEF ClientNext

\* The client types a command: the server is not sending blocks to anybody, and no
\* rcvFile has, or will get, a block of the last one.
LEMMA CommandStep ==
  ASSUME IInv, NEW c \in Commands, Command(c)
  PROVE  QueueInv' /\ PartsInv'
<1> DEFINE a == Dgram(sock + 1, c.op, Name(c))
           b == IF HasFile(c) THEN Dgram(sock + 1, "size", c.arg) ELSE Dgram(sock + 1, "Error_path", "none")
<1>1. /\ cpc = "prompt" /\ sock' = sock + 1 /\ cmd' = c /\ inbox' = <<>> /\ cpc' = FirstWait(c)
      /\ UNCHANGED <<spc, from, si_other, job, sack, sfile, received>>
  BY DEF Command
<1>2. TypeInv /\ QueueInv /\ ClientInv /\ StageInv /\ StartInv /\ DataInv /\ RcvInv
  BY DEF IInv, PartsInv, QueueInv
<1>3. QueueInv'
  BY <1>2, QueueCommand
<1>4. job < sock' /\ job # sock' /\ spc # "snd" /\ sock \in Nat
  <2>1. spc # "snd"
    BY <1>1, <1>2 DEF StageInv
  <2> QED
    BY <1>1, <1>2, <2>1, SeenType
<1>5. /\ a.op \notin {"data", "final"} /\ b.op \notin {"data", "final"}
      /\ \A i \in DOMAIN srvIn' : i \in DOMAIN srvIn \/ srvIn'[i] = b \/ srvIn'[i] = a
      /\ \A i \in DOMAIN srvIn : srvIn'[i] = srvIn[i] /\ srvIn[i].from # sock'
  <2>1. a.op \notin {"data", "final"} /\ b.op \notin {"data", "final"}
    BY DEF Dgram, Commands
  <2>2. \A i \in DOMAIN srvIn' : i \in DOMAIN srvIn \/ srvIn'[i] = b \/ srvIn'[i] = a
    BY <1>2, CommandQueued
  <2>3. \A i \in DOMAIN srvIn : srvIn'[i] = srvIn[i]
    BY <1>2, CommandQueued
  <2>4. \A i \in DOMAIN srvIn : srvIn[i].from # sock'
    BY <1>1, <1>2, <1>4, QueueTypes
  <2> QED
    BY <2>1, <2>2, <2>3, <2>4
<1> HIDE DEF a, b
<1>6. HasFile(cmd) => ~ Untouched
  BY <1>1 DEF Untouched, FirstWait, HasFile
<1>7. /\ FirstWait(c) = "snd" => Uploading'
      /\ FirstWait(c) = "fin" => HasFile(c)
      /\ HasFile(c) => FirstWait(c) \in {"snd", "fin"}
      /\ Uploading' => FirstWait(c) = "snd"
  BY <1>1 DEF Uploading, FirstWait, HasFile, Commands
<1>8. spc \in {"size", "rcv"} => ~ HasFile(cmd) /\ sfile = 0 /\ sack = "probe"
  BY <1>1, <1>2 DEF RcvInv, Uploading, HasFile
<1>9. ClientInv' /\ StartInv' /\ StrayInv' /\ StageInv'
  BY <1>1, <1>4, <1>7 DEF ClientInv, StartInv, Untouched, StrayInv, OnlyTransferStrays, StageInv
<1>10. DataInv'
  <2>1. \A i \in DOMAIN srvIn' : srvIn'[i].from = sock' => srvIn'[i].op \notin {"data", "final"}
    BY <1>5
  <2>2. ASSUME NEW j \in DOMAIN srvIn', srvIn'[j].op = "data"
        PROVE  spc' \notin {"size", "rcv"} /\ \A i \in 1..j-1 : srvIn'[i].op # "put"
    <3>1. j \in DOMAIN srvIn /\ srvIn'[j] = srvIn[j]
      BY <1>5, <2>2
    <3>2. \A i \in 1..j-1 : i \in DOMAIN srvIn /\ srvIn'[i] = srvIn[i]
      BY <1>2, <1>5, <3>1, QueueTypes
    <3>3. spc \notin {"size", "rcv"}
      BY <1>2, <1>8, <2>2, <3>1 DEF DataInv, Uploading, HasFile
    <3>4. ASSUME NEW i \in 1..j-1, srvIn[i].op = "put" PROVE FALSE
      <4>1. srvIn[j].from = sock /\ HasFile(cmd)
        BY <1>2, <2>2, <3>1, <3>4 DEF DataInv, Uploading, HasFile
      <4>2. srvIn[i].from = sock
        BY <1>2, <1>6, <3>2, <4>1 DEF StartInv
      <4>3. Untouched
        BY <1>2, <3>2, <3>4, <4>2 DEF QueueInv, CommandsWait, CmdOps, Untouched
      <4> QED
        BY <1>6, <4>1, <4>3
    <3> QED
      BY <1>1, <3>2, <3>3, <3>4
  <2> QED
    BY <2>1, <2>2 DEF DataInv
<1>11. RcvInv'
  BY <1>1, <1>2, <1>7, <1>8 DEF RcvInv
<1>12. PutInv'
  BY <1>1, <1>5, <1>7, <1>8, <1>4 DEF PutInv
<1> QED
  BY <1>3, <1>9, <1>10, <1>11, <1>12 DEF PartsInv

-----------------------------------------------------------------------------
\* The steps of the server.
ClientIdle == UNCHANGED <<cpc, cmd, sock>>

LEMMA ClientInvSame == ASSUME ClientInv, ClientIdle PROVE ClientInv'
BY DEF ClientInv, ClientIdle, Uploading

\* A command, or anything else at START, that is answered at once.
LEMMA AnsweredStep ==
  ASSUME IInv, TypeInv', TakeCommand, NEW ops, Told(Src, Src, ops), "final" \notin ops, "finack" \notin ops,
         ClientIdle, received' = received, spc' \in {"tail", "close", "cmd", "gone"}
  PROVE  QueueInv' /\ PartsInv'
<1>1. /\ TypeInv /\ QueueInv /\ ClientInv /\ StageInv /\ StartInv /\ StrayInv /\ DataInv /\ PutInv
      /\ Taken /\ job' = Src /\ UNCHANGED <<cpc, cmd, sock>>
  BY DEF IInv, PartsInv, QueueInv, TakeCommand, ClientIdle
<1>2. inbox' = inbox \/ Src = sock
  BY DEF Told
<1>3. Left(1) /\ 1 \in Nat
  BY <1>1, LeftTaken
<1>4. QueueInv'
  <2>1. Seen' = Src /\ Src \in Nat
    BY <1>1, TakenFirst DEF Seen
  <2> QED
    BY <1>1, <1>2, <2>1, QueueRead
<1>5. ClientInv' /\ StageInv'
  BY <1>1, ClientInvSame DEF StageInv, ClientIdle
<1>6. StartInv'
  BY <1>1, <1>2, <1>3, StartServer
<1>7. StrayInv'
  BY <1>1, <1>2, StrayServer
<1>8. DataInv'
  BY <1>1, <1>3, DataServer
<1>9. RcvInv'
  BY DEF RcvInv
<1>10. PutInv'
  BY <1>1, <1>3, PutServer
<1> QED
  BY <1>4, <1>5, <1>6, <1>7, <1>8, <1>9, <1>10 DEF PartsInv

\* The commands that are answered at once.
LEMMA AnswerStep ==
  ASSUME IInv, TypeInv', Answer \/ AnswerList \/ AnswerInvalid
  PROVE  QueueInv' /\ PartsInv'
<1>1. /\ TypeInv /\ TakeCommand /\ Taken /\ ClientIdle /\ received' = received
  BY DEF IInv, Answer, AnswerList, AnswerInvalid, TakeCommand, ClientIdle
<1>2. Src \in Sockets /\ {} \in SUBSET Faults
  BY <1>1, TakenIs DEF Datagrams
<1>3. CASE Answer
  <2>1. PICK op \in {"FAIL", "warn", "bye"} :
          ToClient(Src, Src, <<op>>, {}) /\ spc' \in {"tail", "close", "cmd", "gone"}
    BY <1>1, <1>3, AnswerSends
  <2>2. op \in ClOps /\ "final" \notin {op} /\ "finack" \notin {op}
    BY <2>1 DEF ClOps
  <2>3. Told(Src, Src, {op})
    BY <1>1, <1>2, <2>1, <2>2, ToldOne
  <2> QED
    BY <1>1, <2>1, <2>2, <2>3, AnsweredStep
<1>4. CASE AnswerList
  <2>1. ToClient(Src, Src, <<"count", "name">>, {}) /\ spc' = "tail"
    BY <1>4 DEF AnswerList
  <2>2. Told(Src, Src, {"count", "name"}) /\ "final" \notin {"count", "name"} /\ "finack" \notin {"count", "name"}
    BY <1>1, <1>2, <2>1, ToldTwo
  <2> QED
    BY <1>1, <2>1, <2>2, AnsweredStep
<1>5. CASE AnswerInvalid
  <2>1. ToClient(Src, Src, <<"invalid">>, {}) /\ spc' = "close" /\ "invalid" \in ClOps
    BY <1>5 DEF AnswerInvalid, ClOps
  <2>2. Told(Src, Src, {"invalid"}) /\ "final" \notin {"invalid"} /\ "finack" \notin {"invalid"}
    BY <1>1, <1>2, <2>1, ToldOne
  <2> QED
    BY <1>1, <2>1, <2>2, AnsweredStep
<1> QED
  BY <1>3, <1>4, <1>5

\* Only the client of the last command waits for a file.
LEMMA StartGetStep == ASSUME IInv, TypeInv', StartGet PROVE QueueInv' /\ PartsInv'
<1>1. /\ TypeInv /\ QueueInv /\ ClientInv /\ StageInv /\ StartInv /\ StrayInv /\ DataInv /\ PutInv
      /\ Taken /\ job' = Src /\ si_other' = Src /\ spc' = "snd" /\ Op = "get" /\ Arg = "file"
      /\ UNCHANGED <<cpc, cmd, sock, inbox, received>>
  BY DEF IInv, PartsInv, QueueInv, StartGet, TakeCommand, clVars
<1>2. Src = sock /\ cmd.op = "get" /\ cmd.arg = "file" /\ inbox = <<>> /\ cpc = "first"
  <2>1. Src = sock /\ cmd.op = "get" /\ Name(cmd) = "file" /\ inbox = <<>> /\ cpc = FirstWait(cmd)
    BY <1>1, TakenFirst DEF CmdOps
  <2> QED
    BY <2>1 DEF Name, FirstWait
<1>3. Left(1) /\ 1 \in Nat /\ Told(sock, sock, {})
  BY <1>1, LeftTaken, ToldNothing
<1>4. QueueInv'
  <2>1. Seen' <= Src
    BY <1>1, TakenFirst DEF Seen
  <2> QED
    BY <1>1, <2>1, QueueRead
<1>5. ClientInv' /\ StageInv'
  BY <1>1, <1>2, ClientInvSame DEF StageInv, ClientIdle
<1>6. StartInv'
  BY <1>1, <1>3, StartServer
<1>7. StrayInv'
  BY <1>1, <1>3, StrayServer
<1>8. DataInv'
  BY <1>1, <1>3, DataServer
<1>9. RcvInv'
  BY <1>1 DEF RcvInv
<1>10. PutInv'
  BY <1>1, <1>2 DEF PutInv, Uploading
<1> QED
  BY <1>4, <1>5, <1>6, <1>7, <1>8, <1>9, <1>10 DEF PartsInv

\* A put that the server starts, the client's or an earlier one, finds the client
\* at the start of its command.
LEMMA StartPutStep == ASSUME IInv, TypeInv', StartPut PROVE QueueInv' /\ PartsInv'
<1>1. /\ TypeInv /\ QueueInv /\ ClientInv /\ StageInv /\ StartInv /\ StrayInv /\ DataInv /\ PutInv
      /\ Taken /\ job' = Src /\ spc' = "size" /\ sfile' = 0 /\ sack' = "probe" /\ Op = "put" /\ Arg # "noname"
      /\ UNCHANGED <<cpc, cmd, sock, inbox, received>>
  BY DEF IInv, PartsInv, QueueInv, StartPut, TakeCommand, clVars
<1>2. /\ Src = sock => cmd.op = "put" /\ cmd.arg # "noname"
      /\ 1 \in DOMAIN srvIn /\ srvIn[1].op = "put" /\ Src = srvIn[1].from
  <2>1. Src = sock => cmd.op = "put" /\ Name(cmd) # "noname"
    BY <1>1, TakenFirst DEF CmdOps
  <2> QED
    BY <1>1, <2>1, TakenFirst DEF Name
<1>3. Untouched
  <2>1. CASE Src = sock
    BY <1>1, <2>1, TakenFirst DEF CmdOps, Untouched
  <2>2. CASE Src # sock
    BY <1>1, <1>2, <2>2 DEF StartInv
  <2> QED
    BY <2>1, <2>2
<1>4. HasFile(cmd) => cpc \in {"snd", "fin"}
  BY <1>3 DEF Untouched, FirstWait, HasFile
<1>5. Uploading => cpc = "snd" /\ inbox = <<>>
  BY <1>3 DEF Untouched, FirstWait, HasFile, Uploading
<1>6. Left(1) /\ 1 \in Nat /\ Told(sock, sock, {})
  BY <1>1, LeftTaken, ToldNothing
<1>7. QueueInv'
  <2>1. Seen' <= Src
    BY <1>1, TakenFirst DEF Seen
  <2> QED
    BY <1>1, <2>1, QueueRead
<1>8. ClientInv' /\ StageInv'
  BY <1>1, <1>2, ClientInvSame DEF StageInv, ClientIdle
<1>9. StartInv'
  BY <1>1, <1>3, <1>6, StartServer
<1>10. StrayInv'
  BY <1>1, <1>6, StrayServer
<1>11. DataInv'
  BY <1>1, <1>2, <1>6, DataServer
<1>12. RcvInv'
  BY <1>1, <1>4 DEF RcvInv
<1>13. PutInv'
  BY <1>1, <1>5, <1>6, PutServer
<1> QED
  BY <1>7, <1>8, <1>9, <1>10, <1>11, <1>12, <1>13 DEF PartsInv

\* The size, or what is taken for it; and the text that ends the server.
LEMMA ReadSizeStep == ASSUME IInv, TypeInv', ReadSize \/ StoreText PROVE QueueInv' /\ PartsInv'
<1>1. /\ TypeInv /\ QueueInv /\ ClientInv /\ StageInv /\ StartInv /\ StrayInv /\ DataInv /\ RcvInv /\ PutInv
      /\ Taken /\ job' = job /\ from = job /\ spc \in {"size", "rcv"}
      /\ spc' \in {"close", "dead"} \/ (spc = "size" /\ spc' = "rcv" /\ si_other' = job)
      /\ UNCHANGED <<cpc, cmd, sock, inbox, sack, sfile, received>>
  BY DEF IInv, PartsInv, QueueInv, TypeInv, ReadSize, StoreText, clVars
<1>2. Left(1) /\ 1 \in Nat /\ Told(sock, sock, {})
  BY <1>1, LeftTaken, ToldNothing
<1>3. QueueInv'
  <2>1. Seen' <= Src
    BY <1>1, TakenFirst DEF Seen
  <2> QED
    BY <1>1, <2>1, QueueRead
<1>4. ClientInv' /\ StageInv'
  BY <1>1, ClientInvSame DEF StageInv, ClientIdle
<1>5. StartInv'
  <2>1. spc' = "rcv" => Untouched
    BY <1>1 DEF StartInv
  <2> QED
    BY <1>1, <1>2, <2>1, StartServer
<1>6. StrayInv'
  BY <1>1, <1>2, StrayServer
<1>7. DataInv'
  BY <1>1, <1>2, DataServer
<1>8. RcvInv'
  <2>1. spc' = "rcv" => inbox = <<>>
    BY <1>1 DEF StartInv, Untouched
  <2>2. Uploading' = Uploading
    BY <1>1 DEF Uploading
  <2> QED
    BY <1>1, <2>1, <2>2 DEF RcvInv
<1>9. PutInv'
  <2>1. Uploading /\ spc' \in {"size", "rcv"} /\ sfile' # sock =>
          cpc = "snd" /\ sack' = "probe" /\ \A i \in DOMAIN inbox' : inbox'[i].op = "probe"
    BY <1>1 DEF PutInv
  <2> QED
    BY <1>1, <1>2, <2>1, PutServer
<1> QED
  BY <1>3, <1>4, <1>5, <1>6, <1>7, <1>8, <1>9 DEF PartsInv

\* A block that rcvFile reads is of the client, whosever put started it.
LEMMA StoreDataStep == ASSUME IInv, TypeInv', StoreData PROVE QueueInv' /\ PartsInv'
<1>1. /\ TypeInv /\ QueueInv /\ ClientInv /\ StageInv /\ StartInv /\ StrayInv /\ DataInv /\ RcvInv /\ PutInv
      /\ Taken /\ Op = "data" /\ spc = "rcv" /\ spc' = "rcv" /\ job' = job /\ si_other' = Src
      /\ sfile' = (IF sfile = 0 THEN Src ELSE sfile)
      /\ UNCHANGED <<cpc, cmd, sock, received>>
  BY DEF IInv, PartsInv, QueueInv, StoreData
<1>2. Src = sock /\ Uploading /\ HasFile(cmd) /\ sfile' = sock /\ sock # 0
  <2>1. 1 \in DOMAIN srvIn /\ srvIn[1].op = "data" /\ Src = srvIn[1].from /\ Src \in 1..sock
    BY <1>1, TakenFirst
  <2>2. Src = sock /\ Uploading
    BY <1>1, <2>1 DEF DataInv
  <2>3. sock # 0
    BY <2>1, <2>2
  <2> QED
    BY <1>1, <2>2, <2>3 DEF RcvInv, Uploading, HasFile
<1>3. Told(sock, job, {"ack"})
  <2>1. ToClient(sock, job, <<"ack">>, {}) /\ job \in Sockets /\ "ack" \in ClOps /\ {} \in SUBSET Faults
    BY <1>1, <1>2, SessionAssumption DEF StoreData, TypeInv, TypeOK, Sockets, ClOps
  <2> QED
    BY <1>1, <2>1, ToldOne
<1>4. Left(1) /\ 1 \in Nat
  BY <1>1, LeftTaken
<1>5. QueueInv'
  <2>1. Seen' <= Src
    BY <1>1, TakenFirst DEF Seen
  <2> QED
    BY <1>1, <1>2, <2>1, QueueRead
<1>6. ClientInv' /\ StageInv'
  BY <1>1, ClientInvSame DEF StageInv, ClientIdle
<1>7. StartInv'
  BY <1>1, <1>2, <1>4, StartServer
<1>8. StrayInv'
  BY <1>1, <1>2, <1>3, StrayServer
<1>9. DataInv'
  BY <1>1, <1>4, DataServer
<1>10. RcvInv'
  <2>1. \A i \in DOMAIN inbox' : inbox'[i].op \in {"ack", "probe"}
    BY <1>1, <1>3 DEF RcvInv, Told
  <2>2. Uploading'
    BY <1>1, <1>2 DEF Uploading
  <2> QED
    BY <1>1, <1>2, <2>1, <2>2 DEF RcvInv
<1>11. PutInv'
  BY <1>1, <1>2, <1>3, <1>4, PutServer
<1> QED
  BY <1>5, <1>6, <1>7, <1>8, <1>9, <1>10, <1>11 DEF PartsInv

\* When the final packet of an upload is read, its block has been.
LEMMA StoreFinalStep == ASSUME IInv, TypeInv', StoreFinal PROVE QueueInv' /\ PartsInv'
<1>1. /\ TypeInv /\ QueueInv /\ ClientInv /\ StageInv /\ StartInv /\ StrayInv /\ DataInv /\ RcvInv /\ PutInv
      /\ Taken /\ Op = "final" /\ spc = "rcv" /\ spc' = "tail" /\ job' = job
      /\ received' = received \cup {[put |-> job, block |-> sfile]}
      /\ UNCHANGED <<cpc, cmd, sock>>
  BY DEF IInv, PartsInv, QueueInv, StoreFinal
<1>2. Told(Src, job, {"finack"})
  <2>1. ToClient(Src, job, <<"finack">>, {}) /\ job \in Sockets /\ "finack" \in ClOps /\ {} \in SUBSET Faults
    BY <1>1, SessionAssumption DEF StoreFinal, TypeInv, TypeOK, Sockets, ClOps
  <2> QED
    BY <1>1, <2>1, ToldOne
<1>3. inbox' = inbox \/ (Src = sock /\ HasFile(cmd))
  <2>1. 1 \in DOMAIN srvIn /\ srvIn[1].op = "final" /\ Src = srvIn[1].from
    BY <1>1, TakenFirst
  <2>2. Src = sock => HasFile(cmd)
    BY <1>1, <2>1 DEF DataInv
  <2> QED
    BY <1>2, <2>2 DEF Told
<1>4. Left(1) /\ 1 \in Nat
  BY <1>1, LeftTaken
<1>5. QueueInv'
  <2>1. Seen' <= Src
    BY <1>1, TakenFirst DEF Seen
  <2> QED
    BY <1>1, <1>3, <2>1, QueueRead
<1>6. ClientInv' /\ StageInv'
  BY <1>1, ClientInvSame DEF StageInv, ClientIdle
<1>7. StartInv'
  BY <1>1, <1>3, <1>4, StartServer
<1>8. StrayInv'
  BY <1>1, <1>2, <1>3, StrayServer
<1>9. DataInv'
  BY <1>1, <1>4, DataServer
<1>10. RcvInv'
  BY <1>1 DEF RcvInv
<1>11. PutInv'
  <2>1. Uploading /\ inbox' # inbox => Stored'
    <3>1. SUFFICES ASSUME Uploading, Src = sock PROVE Stored'
      BY <1>3
    <3>2. 1 \in DOMAIN srvIn /\ srvIn[1].op = "final" /\ srvIn[1].from = sock
      BY <1>1, <3>1, TakenFirst
    <3>3. sfile = sock
      BY <1>1, <3>1, <3>2 DEF PutInv
    <3> DEFINE r == [put |-> job, block |-> sfile]
    <3>4. r \in received' /\ r.block = sock'
      BY <1>1, <3>3
    <3> QED
      BY <3>4 DEF Stored
  <2> QED
    BY <1>1, <1>2, <1>4, <2>1, PutServer
<1> QED
  BY <1>5, <1>6, <1>7, <1>8, <1>9, <1>10, <1>11 DEF PartsInv

\* rcvFile probes the client it heard last: that of its put, or an upload.
LEMMA ProbeClientStep == ASSUME IInv, TypeInv', ProbeClient PROVE QueueInv' /\ PartsInv'
<1>1. /\ TypeInv /\ QueueInv /\ ClientInv /\ StageInv /\ StartInv /\ StrayInv /\ DataInv /\ RcvInv /\ PutInv
      /\ spc = "rcv" /\ sack \in {"ack", "probe"}
      /\ UNCHANGED <<cpc, cmd, sock, spc, srvIn, from, si_other, job, sack, sfile, received>>
  BY DEF IInv, PartsInv, QueueInv, TypeInv, TypeOK, ProbeClient, srvVars
<1>2. Told(si_other, job, {sack})
  <2>1. ToClient(si_other, job, <<sack>>, {}) /\ job \in Sockets /\ sack \in ClOps /\ {} \in SUBSET Faults
    BY <1>1, SessionAssumption DEF ProbeClient, TypeInv, TypeOK, Sockets, ClOps
  <2> QED
    BY <1>1, <2>1, ToldOne
<1>3. Seen = si_other /\ Seen' = Seen /\ (inbox' = inbox \/ si_other = sock)
  BY <1>1, <1>2 DEF Seen, Told
<1>4. Left(0) /\ 0 \in Nat
  BY <1>1, LeftSame
<1>5. QueueInv'
  BY <1>1, <1>3, QueueAnswer
<1>6. ClientInv' /\ StageInv'
  BY <1>1, ClientInvSame DEF StageInv, ClientIdle
<1>7. StartInv'
  <2>1. si_other # sock => Untouched /\ inbox' = inbox
    BY <1>1, <1>3 DEF StartInv
  <2> QED
    BY <1>1, <1>3, <1>4, <2>1, StartServer
<1>8. StrayInv'
  <2>1. inbox' = inbox \/ job = sock \/ HasFile(cmd)
    BY <1>1, <1>3 DEF RcvInv
  <2>2. {sack} \subseteq {"ack", "probe", "finack"} /\ "final" \notin {sack}
    BY <1>1
  <2> QED
    BY <1>1, <1>2, <2>1, <2>2, StrayServer
<1>9. DataInv'
  BY <1>1, <1>4, DataServer
<1>10. RcvInv'
  <2>1. \A i \in DOMAIN inbox' : inbox'[i].op \in {"ack", "probe"}
    BY <1>1, <1>2 DEF RcvInv, Told
  <2>2. Uploading' = Uploading
    BY <1>1 DEF Uploading
  <2> QED
    BY <1>1, <2>1, <2>2 DEF RcvInv
<1>11. PutInv'
  <2>1. Uploading /\ sfile # sock =>
          cpc = "snd" /\ sack = "probe" /\ \A i \in DOMAIN inbox' : inbox'[i].op = "probe"
    BY <1>1, <1>2 DEF PutInv, Told
  <2>2. "finack" \notin {sack} /\ "final" \notin {sack}
    BY <1>1
  <2> QED
    BY <1>1, <1>2, <1>4, <2>1, <2>2, PutServer
<1> QED
  BY <1>5, <1>6, <1>7, <1>8, <1>9, <1>10, <1>11 DEF PartsInv

\* The loop says to the sender of its last command that it did not know it.
LEMMA AnswerTailStep == ASSUME IInv, TypeInv', AnswerTail PROVE QueueInv' /\ PartsInv'
<1>1. /\ TypeInv /\ QueueInv /\ ClientInv /\ StageInv /\ StartInv /\ StrayInv /\ DataInv /\ PutInv
      /\ spc = "tail" /\ spc' = "close" /\ from = job
      /\ UNCHANGED <<cpc, cmd, sock, srvIn, job, received>>
  BY DEF IInv, PartsInv, QueueInv, TypeInv, AnswerTail
<1>2. Told(job, job, {"invalid"})
  <2>1. ToClient(job, job, <<"invalid">>, {}) /\ job \in Sockets /\ "invalid" \in ClOps /\ {} \in SUBSET Faults
    BY <1>1, SessionAssumption DEF AnswerTail, TypeInv, TypeOK, Sockets, ClOps
  <2> QED
    BY <1>1, <2>1, ToldOne
<1>3. Seen = job /\ Seen' = Seen /\ (inbox' = inbox \/ job = sock)
  BY <1>1, <1>2 DEF Seen, Told
<1>4. Left(0) /\ 0 \in Nat
  BY <1>1, LeftSame
<1>5. QueueInv'
  BY <1>1, <1>3, QueueAnswer
<1>6. ClientInv' /\ StageInv'
  BY <1>1, ClientInvSame DEF StageInv, ClientIdle
<1>7. StartInv'
  BY <1>1, <1>3, <1>4, StartServer
<1>8. StrayInv'
  BY <1>1, <1>2, <1>3, StrayServer
<1>9. DataInv'
  BY <1>1, <1>4, DataServer
<1>10. RcvInv'
  BY <1>1 DEF RcvInv
<1>11. PutInv'
  BY <1>1, <1>2, <1>4, PutServer
<1> QED
  BY <1>5, <1>6, <1>7, <1>8, <1>9, <1>10, <1>11 DEF PartsInv

\* Blocks go to the client that asked for them; a final packet may go astray.
LEMMA SendToClientStep == ASSUME IInv, TypeInv', SendToClient PROVE QueueInv' /\ PartsInv'
<1> DEFINE op == IF spc = "snd" THEN "data" ELSE "final"
<1>1. /\ TypeInv /\ QueueInv /\ ClientInv /\ StageInv /\ StartInv /\ StrayInv /\ DataInv /\ PutInv
      /\ spc \in {"snd", "fin"}
      /\ UNCHANGED <<cpc, cmd, sock, spc, srvIn, si_other, job, received>>
      /\ ToClient(si_other, job, <<op>>, Early)
  BY DEF IInv, PartsInv, QueueInv, SendToClient, srvVars
<1>2. op \in ClOps /\ Early \in SUBSET Faults /\ job \in Sockets /\ "finack" \notin {op}
      /\ (spc = "fin" => {op} = {"final"}) /\ (spc = "snd" => {op} = {"data"} /\ "final" \notin {op})
  BY <1>1, SessionAssumption DEF ClOps, Early, Faults, TypeInv, TypeOK, Sockets
<1> HIDE DEF op
<1>3. Told(si_other, job, {op})
  BY <1>1, <1>2, ToldOne
<1>4. Seen = si_other /\ Seen' = Seen /\ (inbox' = inbox \/ si_other = sock)
  BY <1>1, <1>3 DEF Seen, Told
<1>5. Left(0) /\ 0 \in Nat
  BY <1>1, LeftSame
<1>6. QueueInv'
  BY <1>1, <1>4, QueueAnswer
<1>7. StageInv'
  <2>1. spc = "snd" => \A i \in DOMAIN inbox' : inbox'[i].op = "data"
    BY <1>1, <1>2, <1>3 DEF Told, StageInv
  <2> QED
    BY <1>1, <2>1 DEF StageInv
<1>8. StartInv'
  BY <1>1, <1>4, <1>5, StartServer
<1>9. StrayInv'
  <2>1. (job = sock => cmd.op = "get") /\ (spc = "snd" => job = sock)
    BY <1>1 DEF StageInv
  <2> QED
    BY <1>1, <1>2, <1>3, <2>1, StrayServer
<1>10. DataInv'
  BY <1>1, <1>5, DataServer
<1>11. RcvInv' /\ ClientInv'
  BY <1>1, ClientInvSame DEF RcvInv, ClientIdle
<1>12. PutInv'
  <2>1. Uploading => spc = "fin"
    BY <1>1 DEF StageInv, PutInv
  <2> QED
    BY <1>1, <1>2, <1>3, <1>5, <2>1, PutServer
<1> QED
  BY <1>6, <1>7, <1>8, <1>9, <1>10, <1>11, <1>12 DEF PartsInv

\* An ACK, of the last socket or not, read by sendFile.
LEMMA TakingStep == ASSUME IInv, TypeInv', TakeAck \/ TakeFinalAck PROVE QueueInv' /\ PartsInv'
<1>1. /\ TypeInv /\ QueueInv /\ ClientInv /\ StageInv /\ StartInv /\ StrayInv /\ DataInv /\ PutInv
      /\ Taken /\ job' = job /\ si_other' = Src
      /\ \/ spc = "snd" /\ spc' \in {"snd", "fin"}
         \/ spc = "fin" /\ spc' \in {"fin", "close"}
      /\ UNCHANGED <<cpc, cmd, sock, inbox, received>>
  BY DEF IInv, PartsInv, QueueInv, TakeAck, TakeFinalAck, clVars
<1>2. Src \in 1..sock /\ (job = sock => Src = sock) /\ job <= Src
  BY <1>1, TakenFirst
<1>3. Left(1) /\ 1 \in Nat /\ Told(sock, sock, {})
  BY <1>1, LeftTaken, ToldNothing
<1>4. QueueInv'
  <2>1. Seen' <= Src
    BY <1>1, <1>2 DEF Seen
  <2> QED
    BY <1>1, <2>1, QueueRead
<1>5. ClientInv' /\ StageInv'
  BY <1>1, <1>2, ClientInvSame DEF StageInv, ClientIdle
<1>6. StartInv'
  BY <1>1, <1>3, StartServer
<1>7. StrayInv'
  BY <1>1, <1>3, StrayServer
<1>8. DataInv'
  BY <1>1, <1>3, DataServer
<1>9. RcvInv'
  BY <1>1 DEF RcvInv
<1>10. PutInv'
  BY <1>1, <1>3, PutServer
<1> QED
  BY <1>4, <1>5, <1>6, <1>7, <1>8, <1>9, <1>10 DEF PartsInv

LEMMA RebindStep == ASSUME IInv, TypeInv', Rebind PROVE QueueInv' /\ PartsInv'
<1>1. /\ TypeInv /\ QueueInv /\ ClientInv /\ StageInv /\ StartInv /\ StrayInv /\ DataInv /\ PutInv
      /\ spc' = "cmd" /\ UNCHANGED <<cpc, cmd, sock, inbox, job, received>>
  BY DEF IInv, PartsInv, QueueInv, Rebind, clVars
<1>2. PICK d \in Nat : Left(d)
  BY <1>1, LeftRebind
<1>3. Told(sock, sock, {})
  BY <1>1, ToldNothing
<1>4. QueueInv'
  BY <1>1, QueueRebind
<1>5. ClientInv' /\ StageInv'
  BY <1>1, ClientInvSame DEF StageInv, ClientIdle
<1>6. StartInv'
  BY <1>1, <1>2, StartServer
<1>7. StrayInv'
  BY <1>1, <1>3, StrayServer
<1>8. DataInv'
  BY <1>1, <1>2, DataServer
<1>9. RcvInv'
  BY <1>1 DEF RcvInv
<1>10. PutInv'
  BY <1>1, <1>2, <1>3, PutServer
<1> QED
  BY <1>4, <1>5, <1>6, <1>7, <1>8, <1>9, <1>10 DEF PartsInv

LEMMA ServerStep == ASSUME IInv, TypeInv', ServerNext PROVE QueueInv' /\ PartsInv'
BY AnswerStep, StartGetStep, StartPutStep, ReadSizeStep, StoreDataStep, StoreFinalStep, ProbeClientStep,
   AnswerTailStep, SendToClientStep, TakingStep, RebindStep
DEF ServerNext

-----------------------------------------------------------------------------
\* IInv holds at first, and each step keeps it.
LEMMA InvInit == Init => IInv
<1> SUFFICES ASSUME Init PROVE IInv
  OBVIOUS
<1>1. TypeInv
  BY TypeInit
<1>2. OrderInv /\ CommandsWait
  BY DEF Init, OrderInv, CommandsWait
<1>3. cpc = "prompt" /\ spc = "cmd" /\ ~ HasFile(cmd) /\ ~ Uploading /\ DOMAIN srvIn = {} /\ DOMAIN inbox = {}
  BY DEF Init, HasFile, Uploading
<1>4. PartsInv
  BY <1>3 DEF PartsInv, ClientInv, StageInv, StartInv, StrayInv, OnlyTransferStrays, DataInv, RcvInv, PutInv
<1> QED
  BY <1>1, <1>2, <1>4 DEF IInv

LEMMA InvStep == IInv /\ [Next]_vars => IInv'
<1> SUFFICES ASSUME IInv, [Next]_vars PROVE IInv'
  OBVIOUS
<1>1. ASSUME NEW c \in Commands, Command(c) PROVE IInv'
  <2>1. TypeInv'
    BY <1>1, TypeCommand DEF IInv
  <2> QED
    BY <1>1, <2>1, CommandStep DEF IInv, QueueInv
<1>2. CASE ClientNext
  <2>1. TypeInv'
    BY <1>2, TypeClient DEF IInv
  <2> QED
    BY <1>2, <2>1, ClientStep DEF IInv, QueueInv
<1>3. CASE ServerNext
  <2>1. TypeInv'
    BY <1>3, TypeServer DEF IInv
  <2> QED
    BY <1>3, <2>1, ServerStep DEF IInv, QueueInv
<1>4. CASE UNCHANGED vars
  <2>1. UNCHANGED <<cpc, cmd, sock, inbox, cack, cfile, spc, srvIn, from, si_other, job, sack, sfile,
                    received, faults>>
    BY <1>4 DEF vars, clVars, srvVars
  <2>2. TypeInv' /\ OrderInv'
    BY <2>1 DEF IInv, TypeInv, TypeOK, OrderInv, Seen
  <2>3. CommandsWait'
    BY <2>1 DEF IInv, CommandsWait, Seen
  <2>4. UNCHANGED <<Uploading, Stored, Untouched>>
    BY <2>1 DEF Uploading, Stored, Untouched
  <2>5. ClientInv' /\ StageInv' /\ StartInv' /\ StrayInv' /\ DataInv'
    BY <2>1, <2>4 DEF IInv, PartsInv, ClientInv, StageInv, StartInv, StrayInv, OnlyTransferStrays, DataInv
  <2>6. RcvInv' /\ PutInv'
    BY <2>1, <2>4 DEF IInv, PartsInv, RcvInv, PutInv
  <2> QED
    BY <2>2, <2>3, <2>5, <2>6 DEF IInv, PartsInv
<1> QED
  BY <1>1, <1>2, <1>3, <1>4 DEF Next

\* The invariant of every session, calm or not.
THEOREM InvariantCorrect == Spec => []IInv
<1>1. Init => IInv
  BY InvInit
<1>2. IInv /\ [Next]_vars => IInv'
  BY InvStep
<1> QED
  BY <1>1, <1>2, PTL DEF Spec

\* Every variable keeps its type; neither transfer replies to a socket from before
\* its job, and no datagram comes from a socket that the client has not opened.
THEOREM TypeCorrect == Spec => []TypeOK
<1>1. IInv => TypeOK
  BY DEF IInv, TypeInv
<1> QED
  BY <1>1, InvariantCorrect, PTL

\* At a command, what is found in the client's socket and was not sent for this
\* command is a final packet, or, at an upload, an ACK of a rcvFile: never a block,
\* nor a text; whatever was lost and whoever did not wait.
THEOREM OnlyTransferStraysCorrect == Spec => []OnlyTransferStrays
<1>1. IInv => OnlyTransferStrays
  BY DEF IInv, PartsInv, StrayInv
<1> QED
  BY <1>1, InvariantCorrect, PTL

\* A client that reports a file that is not empty as sent has had its block stored
\* by a rcvFile that then took a final packet, in whatever file.
THEOREM SentIsReceivedCorrect == Spec => []SentIsReceived
<1>1. IInv => SentIsReceived
  BY DEF IInv, PartsInv, PutInv, SentIsReceived, Uploading, Stored
<1> QED
  BY <1>1, InvariantCorrect, PTL

-----------------------------------------------------------------------------
\* The calm session: nothing is lost, and the server waits for a command when it
\* is typed, so everything that is queued belongs to the command the client is at.

\* A put with a name is followed by the size of the file, or by "Error_path".
Sized == cmd.op = "put" /\ cmd.arg # "noname"

\* What a transfer of the client's command has the client send.
Transfer == CASE cmd.op = "put" -> {"data", "final"}
              [] cmd.op = "get" /\ cmd.arg = "file" -> {"ack", "probe", "finack"}
              [] OTHER -> {}

\* How many datagrams of the command itself the server has not read.
Ahead == IF job # sock THEN IF Sized THEN 2 ELSE 1
         ELSE IF spc = "size" THEN 1 ELSE 0

CalmSrv ==
  /\ Len(srvIn) >= Ahead
  /\ \A i \in DOMAIN srvIn : srvIn[i].from = sock /\ (i > Ahead => srvIn[i].op \in Transfer)
  /\ Ahead > 0 => srvIn[Ahead].op \in IF Sized THEN {"size", "Error_path"} ELSE {cmd.op}
  /\ job # sock => spc = "cmd" /\ srvIn[1].op = cmd.op

CalmCl ==
  /\ \A i \in DOMAIN inbox : inbox[i].of = sock
  /\ cpc \in {"first", "recv"} => cmd.op = "get"
  /\ cpc \in {"snd", "fin"} => cmd.op = "put"
  /\ cmd.op = "get" => cpc \in {"first", "recv", "prompt"}
  /\ HasFile(cmd) => cpc \in {"snd", "fin", "prompt"}
  /\ cpc # "dead" /\ spc # "dead"

\* A get.  The first answer to one that cannot be served is a refusal; a download
\* goes on until the final packet, which is sent only when the block was written.
CalmGet ==
  /\ cpc = "recv" => cmd.arg = "file"
  /\ cmd.arg # "file" /\ cpc = "first" /\ job = sock => inbox # <<>> /\ inbox[1].op \in {"warn", "FAIL"}
  /\ cmd.arg = "file" =>
     /\ job = sock /\ cpc # "prompt" =>
          spc \in {"snd", "fin"} /\ \A i \in DOMAIN inbox : inbox[i].op \in {"data", "final"}
     /\ job = sock /\ spc # "snd" => cfile = sock
     /\ cack = "ack" \/ cpc = "prompt" => cfile = sock
     /\ \A i \in DOMAIN inbox : inbox[i].op = "final" => cfile = sock
     /\ \A i \in DOMAIN srvIn : srvIn[i].op = "ack" => cfile = sock
     /\ \A i \in DOMAIN srvIn : srvIn[i].op = "finack" => cpc = "prompt"

\* A put of a file, an empty one too: its final ACK says that it was received, as
\* this put and with its block, if it has one.
Recorded == \E r \in received : r.put = sock /\ (cmd.arg = "empty" \/ r.block = sock)
CalmPut ==
  /\ cpc = "prompt" => Recorded
  /\ \A i \in DOMAIN inbox : inbox[i].op = "finack" => Recorded

CalmInv ==
  /\ CalmSrv
  /\ CalmCl
  /\ cmd.op = "get" => CalmGet
  /\ HasFile(cmd) => CalmPut

\* The queue of the server, when the client sends, or not.
LEMMA CalmGrown ==
  ASSUME TypeInv, CalmSrv, Grown, \A i \in DOMAIN srvIn' : i > Len(srvIn) => srvIn'[i].op \in Transfer,
         UNCHANGED <<cmd, sock, spc, job>>
  PROVE  CalmSrv'
<1>1. Len(srvIn) \in Nat /\ DOMAIN srvIn = 1..Len(srvIn) /\ Ahead \in {0, 1, 2}
  BY QueueTypes DEF Ahead
<1>2. Ahead' = Ahead /\ Transfer' = Transfer /\ Sized' = Sized
  BY DEF Ahead, Transfer, Sized
<1>3. \A i \in DOMAIN srvIn' : \/ i \in DOMAIN srvIn /\ srvIn'[i] = srvIn[i]
                               \/ i > Len(srvIn) /\ srvIn'[i].from = sock /\ srvIn'[i].op \in Transfer
  BY <1>1 DEF Grown
<1>4. \A i \in DOMAIN srvIn' : srvIn'[i].from = sock /\ (i > Ahead => srvIn'[i].op \in Transfer)
  BY <1>3 DEF CalmSrv
<1>5. Len(srvIn') >= Ahead
  BY <1>1 DEF CalmSrv, Grown
<1>6. Ahead > 0 => srvIn'[Ahead] = srvIn[Ahead]
  BY <1>1 DEF CalmSrv, Grown
<1>7. job # sock => srvIn'[1] = srvIn[1]
  <2>1. job # sock => Ahead >= 1
    BY DEF Ahead
  <2> QED
    BY <1>1, <2>1 DEF CalmSrv, Grown
<1> QED
  BY <1>2, <1>4, <1>5, <1>6, <1>7 DEF CalmSrv

\* When the server reads.
LEMMA TakenFrom == ASSUME TypeInv, Taken PROVE \A i \in DOMAIN srvIn' : \E j \in DOMAIN srvIn : srvIn'[i] = srvIn[j]
BY LeftTaken DEF Left

LEMMA CalmTaken ==
  ASSUME TypeInv, CalmSrv, Taken, sock' = sock, cmd' = cmd, job' = sock,
         Ahead' = IF Ahead = 0 THEN 0 ELSE Ahead - 1
  PROVE  CalmSrv'
<1>1. /\ Len(srvIn') = Len(srvIn) - 1 /\ Len(srvIn) \in Nat /\ Len(srvIn) >= 1
      /\ \A i \in 1..Len(srvIn') : srvIn'[i] = srvIn[i+1]
      /\ DOMAIN srvIn = 1..Len(srvIn) /\ DOMAIN srvIn' = 1..Len(srvIn')
  BY TakenIs
<1>2. Ahead \in {0, 1, 2} /\ Transfer' = Transfer /\ Sized' = Sized
  BY DEF Ahead, Transfer, Sized
<1>3. \A i \in DOMAIN srvIn' : i+1 \in DOMAIN srvIn /\ srvIn'[i] = srvIn[i+1] /\ (i > Ahead' => i+1 > Ahead)
  BY <1>1, <1>2
<1>4. \A i \in DOMAIN srvIn' : srvIn'[i].from = sock /\ (i > Ahead' => srvIn'[i].op \in Transfer)
  BY <1>3 DEF CalmSrv
<1>5. Len(srvIn') >= Ahead'
  BY <1>1, <1>2 DEF CalmSrv
<1>6. Ahead' > 0 => srvIn'[Ahead'] = srvIn[Ahead] /\ Ahead > 0
  BY <1>1, <1>2, <1>5
<1> QED
  BY <1>2, <1>4, <1>5, <1>6 DEF CalmSrv

\* When it does not.
LEMMA CalmSame ==
  ASSUME CalmSrv, UNCHANGED <<srvIn, cmd, sock, job>>, Ahead' = Ahead, job # sock => spc' = "cmd"
  PROVE  CalmSrv'
<1>1. Transfer' = Transfer /\ Sized' = Sized
  BY DEF Transfer, Sized
<1> QED
  BY <1>1 DEF CalmSrv

\* What the server reads, and when.
LEMMA CalmReads ==
  ASSUME IInv, CalmInv, Taken
  PROVE  /\ Src = sock /\ srvIn[1].from = sock /\ 1 \in DOMAIN srvIn /\ Op = srvIn[1].op /\ Arg = srvIn[1].arg
         /\ Ahead = 0 => Op \in Transfer /\ job = sock /\ spc # "size"
         /\ job # sock => /\ spc = "cmd" /\ Op = cmd.op /\ Arg = Name(cmd) /\ inbox = <<>> /\ cpc = FirstWait(cmd)
                          /\ Ahead = IF Sized THEN 2 ELSE 1
         /\ spc = "size" => job = sock /\ Ahead = 1 /\ Op \in {"size", "Error_path"}
<1>1. /\ 1 \in DOMAIN srvIn /\ Src = srvIn[1].from /\ Op = srvIn[1].op /\ Arg = srvIn[1].arg
      /\ Len(srvIn) >= 1
  BY TakenIs DEF IInv
<1>2. Src = sock /\ (Ahead = 0 => Op \in Transfer)
  BY <1>1 DEF CalmInv, CalmSrv
<1>3. job # sock => Op = cmd.op /\ cmd.op \in CmdOps /\ spc = "cmd"
  <2>1. cmd.op \in CmdOps
    BY DEF IInv, TypeInv, TypeOK, Commands, CmdOps
  <2> QED
    BY <1>1, <2>1 DEF CalmInv, CalmSrv
<1>4. job # sock => Arg = Name(cmd) /\ inbox = <<>> /\ cpc = FirstWait(cmd)
  BY <1>1, <1>2, <1>3 DEF IInv, CommandsWait
<1>5. spc = "size" => job = sock /\ Ahead = 1 /\ Sized
  BY <1>3 DEF Ahead, Sized, IInv, PartsInv, StageInv
<1>6. spc = "size" => Op \in {"size", "Error_path"}
  BY <1>1, <1>5 DEF CalmInv, CalmSrv
<1> QED
  BY <1>1, <1>2, <1>3, <1>4, <1>5, <1>6 DEF Ahead

\* While a command is queued the inbox is empty.
LEMMA CalmHeard == ASSUME IInv, CalmInv, inbox # <<>> PROVE job = sock
<1> SUFFICES ASSUME job # sock PROVE FALSE
  OBVIOUS
<1>1. Ahead >= 1 /\ Len(srvIn) >= Ahead /\ srvIn[1].op = cmd.op
  BY DEF CalmInv, CalmSrv, Ahead
<1>2. 1 \in DOMAIN srvIn
  BY <1>1, QueueTypes DEF IInv, Ahead
<1>3. cmd.op \in CmdOps
  BY DEF IInv, TypeInv, TypeOK, Commands, CmdOps
<1> QED
  BY <1>1, <1>2, <1>3 DEF IInv, CommandsWait, CalmInv, CalmSrv

-----------------------------------------------------------------------------
\* The calm steps of the client.

\* A client that reads and sends nothing.
LEMMA CalmReading ==
  ASSUME IInv, CalmInv, ReadList \/ ReadFirst \/ ReadReply \/ RecvText \/ ReadAck \/ ReadFinalAck
  PROVE  CalmInv'
<1>1. /\ Read /\ inbox # <<>> /\ srvIn' = srvIn
      /\ UNCHANGED <<cmd, sock, cack, cfile, spc, job, received>>
  BY DEF ReadList, ReadFirst, ReadReply, RecvText, ReadAck, ReadFinalAck, Read, srvVars
<1>2. /\ 1 \in DOMAIN inbox /\ In = inbox[1].op
      /\ \A i \in DOMAIN inbox' : i+1 \in DOMAIN inbox /\ inbox'[i] = inbox[i+1]
      /\ job = sock
  BY <1>1, ReadNext, CalmHeard DEF IInv
<1>3. CalmSrv'
  <2>1. Ahead' = Ahead
    BY <1>1 DEF Ahead, Sized
  <2> QED
    BY <1>1, <1>2, <2>1, CalmSame DEF CalmInv
<1>4. ~ RecvText
  <2>1. SUFFICES ASSUME RecvText PROVE FALSE
    OBVIOUS
  <2>2. cpc = "recv" /\ In \notin {"data", "final"}
    BY <2>1 DEF RecvText
  <2> QED
    BY <1>2, <2>2 DEF CalmInv, CalmCl, CalmGet
<1>5. ReadFirst => cpc' = IF cmd.arg = "file" THEN "recv" ELSE "prompt"
  <2>1. SUFFICES ASSUME ReadFirst PROVE cpc' = IF cmd.arg = "file" THEN "recv" ELSE "prompt"
    OBVIOUS
  <2>2. cpc = "first" /\ cpc' = IF In \in {"warn", "FAIL"} \/ cmd.arg = "noname" THEN "prompt" ELSE "recv"
    BY <2>1 DEF ReadFirst
  <2>3. cmd.arg # "file" => In \in {"warn", "FAIL"}
    BY <1>2, <2>2 DEF CalmInv, CalmCl, CalmGet
  <2>4. cmd.arg = "file" => In \in {"data", "final"}
    BY <1>2, <2>2 DEF CalmInv, CalmCl, CalmGet
  <2> QED
    BY <2>2, <2>3, <2>4
<1>6. CalmCl'
  BY <1>1, <1>2, <1>4, <1>5 DEF CalmInv, CalmCl, ReadList, ReadFirst, ReadReply, ReadAck, ReadFinalAck, HasFile
<1>7. cmd.op = "get" => CalmGet'
  <2>1. SUFFICES ASSUME cmd.op = "get" PROVE CalmGet'
    OBVIOUS
  <2>2. ReadFirst
    BY <1>4, <2>1 DEF CalmInv, CalmCl, ReadList, ReadReply, ReadAck, ReadFinalAck
  <2> QED
    BY <1>1, <1>2, <1>5, <2>1, <2>2 DEF CalmInv, CalmGet, CalmCl, ReadFirst
<1>8. HasFile(cmd) => CalmPut'
  <2>1. SUFFICES ASSUME HasFile(cmd) PROVE CalmPut'
    OBVIOUS
  <2>2. ReadAck \/ ReadFinalAck
    BY <1>4, <2>1 DEF CalmInv, CalmCl, ReadList, ReadFirst, ReadReply
  <2>3. cpc' = "prompt" => Recorded
    <3>1. SUFFICES ASSUME cpc' = "prompt" PROVE Recorded
      OBVIOUS
    <3>2. In \in {"final", "finack"}
      BY <2>2, <3>1 DEF ReadAck, ReadFinalAck
    <3>3. In # "final"
      BY <1>2, <2>1 DEF CalmInv, CalmCl, IInv, PartsInv, StrayInv, HasFile
    <3> QED
      BY <1>2, <2>1, <3>2, <3>3 DEF CalmInv, CalmPut
  <2>4. Recorded' = Recorded
    BY <1>1 DEF Recorded
  <2> QED
    BY <1>2, <2>1, <2>3, <2>4 DEF CalmInv, CalmPut
<1> QED
  BY <1>1, <1>3, <1>6, <1>7, <1>8 DEF CalmInv

\* What the client sends belongs to its transfer.
LEMMA CalmSaid ==
  ASSUME IInv, CalmInv, NEW op \in {"data", "final", "ack", "finack", "probe"}, op \in Transfer,
         NEW f \in SUBSET Faults, ToServer(<<Dgram(sock, op, "none")>>, f), cpc # "prompt",
         UNCHANGED <<cmd, sock, spc, job>>
  PROVE  /\ CalmSrv'
         /\ \A i \in DOMAIN srvIn' : srvIn'[i].op = op \/ (i \in DOMAIN srvIn /\ srvIn'[i] = srvIn[i])
<1>1. TypeInv /\ sock # 0
  BY DEF IInv, TypeInv
<1>2. Grown /\ \A i \in DOMAIN srvIn' : i > Len(srvIn) => srvIn'[i].op = op
  BY <1>1, GrownToServer
<1>3. CalmSrv'
  BY <1>1, <1>2, CalmGrown DEF CalmInv
<1> QED
  BY <1>1, <1>2, <1>3, QueueTypes DEF Grown

\* A client that sends.
LEMMA CalmRecvData == ASSUME IInv, CalmInv, RecvData PROVE CalmInv'
<1>1. /\ UNCHANGED <<cmd, sock, spc, job, received, cpc>> /\ cpc = "recv" /\ Read
      /\ cfile' = Head(inbox).of /\ cack' = "ack"
      /\ ToServer(<<Dgram(sock, "ack", "none")>>, {}) /\ {} \in SUBSET Faults
  BY DEF RecvData
<1>2. cmd.op = "get" /\ cmd.arg = "file" /\ "ack" \in Transfer /\ ~ HasFile(cmd)
  BY <1>1 DEF CalmInv, CalmCl, CalmGet, Transfer, HasFile
<1>3. /\ CalmSrv'
      /\ \A i \in DOMAIN srvIn' : srvIn'[i].op = "ack" \/ (i \in DOMAIN srvIn /\ srvIn'[i] = srvIn[i])
  BY <1>1, <1>2, CalmSaid
<1>4. /\ 1 \in DOMAIN inbox /\ Head(inbox) = inbox[1]
      /\ \A i \in DOMAIN inbox' : i+1 \in DOMAIN inbox /\ inbox'[i] = inbox[i+1]
  BY <1>1, ReadNext DEF IInv
<1>5. cfile' = sock
  BY <1>1, <1>4 DEF CalmInv, CalmCl
<1>6. CalmCl'
  BY <1>1, <1>2, <1>4 DEF CalmInv, CalmCl
<1>7. CalmGet'
  BY <1>1, <1>2, <1>3, <1>4, <1>5 DEF CalmInv, CalmGet
<1> QED
  BY <1>1, <1>2, <1>3, <1>6, <1>7 DEF CalmInv

LEMMA CalmRecvFinal == ASSUME IInv, CalmInv, RecvFinal PROVE CalmInv'
<1>1. /\ UNCHANGED <<cmd, sock, spc, job, received, cack, cfile>> /\ cpc = "recv" /\ Read
      /\ cpc' = "prompt" /\ In = "final"
      /\ ToServer(<<Dgram(sock, "finack", "none")>>, {}) /\ {} \in SUBSET Faults
  BY DEF RecvFinal
<1>2. cmd.op = "get" /\ cmd.arg = "file" /\ "finack" \in Transfer /\ ~ HasFile(cmd)
  BY <1>1 DEF CalmInv, CalmCl, CalmGet, Transfer, HasFile
<1>3. /\ CalmSrv'
      /\ \A i \in DOMAIN srvIn' : srvIn'[i].op = "finack" \/ (i \in DOMAIN srvIn /\ srvIn'[i] = srvIn[i])
  BY <1>1, <1>2, CalmSaid
<1>4. /\ 1 \in DOMAIN inbox /\ In = inbox[1].op
      /\ \A i \in DOMAIN inbox' : i+1 \in DOMAIN inbox /\ inbox'[i] = inbox[i+1]
  BY <1>1, ReadNext DEF IInv
<1>5. cfile = sock
  BY <1>1, <1>2, <1>4 DEF CalmInv, CalmGet
<1>6. CalmCl'
  BY <1>1, <1>2, <1>4 DEF CalmInv, CalmCl
<1>7. CalmGet'
  BY <1>1, <1>2, <1>3, <1>4, <1>5 DEF CalmInv, CalmGet
<1> QED
  BY <1>1, <1>2, <1>3, <1>6, <1>7 DEF CalmInv

LEMMA CalmProbeServer == ASSUME IInv, CalmInv, ProbeServer PROVE CalmInv'
<1>1. /\ UNCHANGED <<cmd, sock, spc, job, received, cack, cfile, cpc, inbox>> /\ cpc = "recv"
      /\ ToServer(<<Dgram(sock, cack, "none")>>, {}) /\ {} \in SUBSET Faults
  BY DEF ProbeServer, clVars
<1>2. cmd.op = "get" /\ cmd.arg = "file" /\ cack \in {"ack", "probe"} /\ cack \in Transfer /\ ~ HasFile(cmd)
  BY <1>1 DEF CalmInv, CalmCl, CalmGet, Transfer, HasFile, IInv, TypeInv, TypeOK
<1>3. /\ CalmSrv'
      /\ \A i \in DOMAIN srvIn' : srvIn'[i].op = cack \/ (i \in DOMAIN srvIn /\ srvIn'[i] = srvIn[i])
  BY <1>1, <1>2, CalmSaid
<1>4. CalmCl'
  BY <1>1, <1>2 DEF CalmInv, CalmCl
<1>5. CalmGet'
  BY <1>1, <1>2, <1>3 DEF CalmInv, CalmGet
<1> QED
  BY <1>1, <1>2, <1>3, <1>4, <1>5 DEF CalmInv

LEMMA CalmSendToServer == ASSUME IInv, CalmInv, SendToServer PROVE CalmInv'
<1> DEFINE op == IF cpc = "snd" THEN "data" ELSE "final"
<1>1. /\ UNCHANGED <<cmd, sock, spc, job, received, cack, cfile, cpc, inbox>> /\ cpc \in {"snd", "fin"}
      /\ ToServer(<<Dgram(sock, op, "none")>>, Early) /\ Early \in SUBSET Faults
  BY DEF SendToServer, clVars, Early, Faults
<1>2. cmd.op = "put" /\ op \in {"data", "final"} /\ op \in Transfer
  BY <1>1 DEF CalmInv, CalmCl, Transfer
<1> HIDE DEF op
<1>3. CalmSrv'
  BY <1>1, <1>2, CalmSaid
<1>4. CalmCl'
  BY <1>1, <1>2 DEF CalmInv, CalmCl
<1>5. HasFile(cmd) => CalmPut'
  BY <1>1, <1>2 DEF CalmInv, CalmPut, Recorded
<1> QED
  BY <1>1, <1>2, <1>3, <1>4, <1>5 DEF CalmInv

\* The user types a command: the server has nothing left of the last one.
LEMMA CalmCommand ==
  ASSUME IInv, CalmInv, NEW c \in Commands, Command(c), Calm'
  PROVE  CalmInv'
<1> DEFINE a == Dgram(sock + 1, c.op, Name(c))
           b == IF HasFile(c) THEN Dgram(sock + 1, "size", c.arg) ELSE Dgram(sock + 1, "Error_path", "none")
           two == c.op = "put" /\ c.arg # "noname"
<1>1. /\ cpc = "prompt" /\ sock' = sock + 1 /\ cmd' = c /\ inbox' = <<>> /\ cpc' = FirstWait(c)
      /\ cack' = "probe" /\ UNCHANGED <<spc, job>>
  BY DEF Command
<1>2. /\ a \in Datagrams /\ b \in Datagrams /\ spc = "cmd" /\ srvIn = <<>>
      /\ srvIn' = IF two THEN Append(Append(srvIn, a), b) ELSE Append(srvIn, a)
  BY CommandSends DEF IInv
<1>3. /\ a.from = sock + 1 /\ a.op = c.op /\ b.from = sock + 1 /\ b.op \in {"size", "Error_path"}
  BY DEF Dgram
<1>4. c.op \in CmdOps
  BY DEF Commands, CmdOps
<1>5. job # sock' /\ sock \in Nat
  BY <1>1, SeenType DEF IInv
<1> HIDE DEF a, b
<1>6. srvIn \in Seq(Datagrams) /\ Len(srvIn) = 0
  BY <1>2, EmptySeq DEF IInv, TypeInv
<1>7. /\ Append(srvIn, a) \in Seq(Datagrams) /\ Len(Append(srvIn, a)) = 1
      /\ DOMAIN Append(srvIn, a) = 1..1 /\ Append(srvIn, a)[1] = a
  <2> DEFINE q == Append(srvIn, a)
  <2>1. q \in Seq(Datagrams) /\ Len(q) = Len(srvIn) + 1 /\ DOMAIN q = 1..Len(srvIn)+1 /\ q[Len(srvIn)+1] = a
    BY <1>2, <1>6, LongerIs
  <2> HIDE DEF q
  <2>2. q \in Seq(Datagrams) /\ Len(q) = 1 /\ DOMAIN q = 1..1 /\ q[1] = a
    BY <1>6, <2>1
  <2> QED
    BY <2>2 DEF q
<1>8. two => /\ Len(srvIn') = 2 /\ DOMAIN srvIn' = 1..2 /\ srvIn'[1] = a /\ srvIn'[2] = b
  <2> DEFINE q == Append(srvIn, a)
             r == Append(q, b)
  <2>1. q \in Seq(Datagrams) /\ Len(q) = 1 /\ q[1] = a /\ b \in Datagrams /\ r = Append(q, b)
        /\ (two => srvIn' = r)
    BY <1>2, <1>7
  <2> HIDE DEF q, r
  <2>2. /\ Len(r) = Len(q) + 1 /\ DOMAIN r = 1..Len(q)+1 /\ r[Len(q)+1] = b
        /\ \A i \in 1..Len(q) : r[i] = q[i]
    BY <2>1, LongerIs
  <2>3. Len(r) = 2 /\ DOMAIN r = 1..2 /\ r[1] = a /\ r[2] = b
    BY <2>1, <2>2
  <2> QED
    BY <2>1, <2>3
<1>9. ~ two => Len(srvIn') = 1 /\ DOMAIN srvIn' = 1..1 /\ srvIn'[1] = a
  BY <1>2, <1>7
<1>10. /\ Sized' = two /\ Ahead' = IF two THEN 2 ELSE 1
  BY <1>1, <1>5 DEF Sized, Ahead
<1> HIDE DEF two
<1>11. CalmSrv'
  <2>1. srvIn'[1].op = c.op /\ Len(srvIn') = Ahead' /\ DOMAIN srvIn' = 1..Ahead'
    BY <1>3, <1>8, <1>9, <1>10
  <2>2. Ahead' \in {1, 2}
    BY <1>10
  <2>3. \A i \in DOMAIN srvIn' : srvIn'[i].from = sock' /\ ~ i > Ahead'
    <3>1. CASE two
      BY <1>1, <1>3, <1>8, <1>10, <3>1
    <3>2. CASE ~ two
      BY <1>1, <1>3, <1>9, <1>10, <3>2
    <3> QED
      BY <3>1, <3>2
  <2>4. srvIn'[Ahead'].op \in IF Sized' THEN {"size", "Error_path"} ELSE {cmd'.op}
    <3>1. CASE two
      BY <1>3, <1>8, <1>10, <3>1
    <3>2. CASE ~ two
      BY <1>1, <1>3, <1>9, <1>10, <3>2
    <3> QED
      BY <3>1, <3>2
  <2>5. Len(srvIn') >= Ahead'
    BY <2>1, <2>2
  <2> QED
    BY <1>1, <1>2, <2>1, <2>3, <2>4, <2>5 DEF CalmSrv
<1>12. CalmCl'
  <2>1. /\ FirstWait(c) \in {"first", "recv"} => c.op = "get"
        /\ FirstWait(c) \in {"snd", "fin"} => c.op = "put"
        /\ c.op = "get" => FirstWait(c) = "first"
        /\ HasFile(c) => FirstWait(c) \in {"snd", "fin"}
        /\ FirstWait(c) # "dead"
    BY DEF FirstWait, HasFile, Commands
  <2> QED
    BY <1>1, <1>2, <2>1 DEF CalmCl
<1>13. c.op = "get" => CalmGet'
  <2>1. SUFFICES ASSUME c.op = "get" PROVE CalmGet'
    OBVIOUS
  <2>2. FirstWait(c) = "first" /\ ~ two
    BY <2>1 DEF FirstWait, two
  <2>3. \A i \in DOMAIN srvIn' : srvIn'[i].op = "get"
    BY <1>3, <1>9, <2>1, <2>2
  <2> QED
    BY <1>1, <1>5, <2>2, <2>3 DEF CalmGet
<1>14. HasFile(c) => CalmPut'
  BY <1>1 DEF HasFile, CalmPut, FirstWait
<1> QED
  BY <1>1, <1>11, <1>12, <1>13, <1>14 DEF CalmInv

-----------------------------------------------------------------------------
\* The calm steps of the server.

\* What is left to show of one, when the client does nothing: which answers the
\* command may get, and when.
AsksFile == cmd.op = "get" /\ cmd.arg = "file"

LEMMA CalmServes ==
  ASSUME IInv, CalmInv, UNCHANGED <<cpc, cmd, sock, cack, cfile>>, CalmSrv', spc' # "dead", job' = sock,
         received \subseteq received', \A i \in DOMAIN srvIn' : \E j \in DOMAIN srvIn : srvIn'[i] = srvIn[j],
         NEW k, NEW ops, Told(k, sock, ops),
         cmd.op = "get" /\ ~ AsksFile /\ job # sock => inbox' # <<>> /\ inbox'[1].op \in {"warn", "FAIL"},
         AsksFile /\ cpc # "prompt" => spc' \in {"snd", "fin"} /\ ops \subseteq {"data", "final"},
         AsksFile /\ (spc' # "snd" \/ "final" \in ops) => cfile = sock,
         HasFile(cmd) /\ "finack" \in ops => Recorded'
  PROVE  CalmInv'
<1>1. \A i \in DOMAIN inbox' : \/ i \in DOMAIN inbox /\ inbox'[i] = inbox[i]
                               \/ inbox'[i].of = sock /\ inbox'[i].op \in ops
  BY DEF Told
<1>2. CalmCl'
  BY <1>1 DEF CalmInv, CalmCl
<1>3. job # sock => inbox = <<>>
  BY CalmHeard
<1>4. cmd.op = "get" => CalmGet'
  <2>1. SUFFICES ASSUME cmd.op = "get" PROVE CalmGet'
    OBVIOUS
  <2>2. CalmGet /\ (AsksFile <=> cmd.arg = "file")
    BY <2>1 DEF CalmInv, AsksFile
  <2>3. ~ AsksFile /\ cpc = "first" => inbox' # <<>> /\ inbox'[1].op \in {"warn", "FAIL"}
    <3>1. CASE job # sock
      BY <2>1, <3>1
    <3>2. CASE job = sock
      <4>1. SUFFICES ASSUME ~ AsksFile, cpc = "first" PROVE inbox' # <<>> /\ inbox'[1].op \in {"warn", "FAIL"}
        OBVIOUS
      <4>2. inbox # <<>> /\ inbox[1].op \in {"warn", "FAIL"} /\ inbox \in Seq(ToCl)
        BY <2>2, <3>2, <4>1 DEF CalmGet, IInv, TypeInv
      <4>3. Len(inbox) >= 1 /\ Len(inbox) \in Nat
        BY <4>2, TailIs, LenProperties
      <4>4. 1 \in 1..Len(inbox) /\ Len(inbox') # 0
        BY <4>3 DEF Told
      <4>5. inbox'[1] = inbox[1]
        BY <4>4 DEF Told
      <4> QED
        BY <4>2, <4>4, <4>5
    <3> QED
      BY <3>1, <3>2
  <2>4. AsksFile => /\ cpc # "prompt" => /\ spc' \in {"snd", "fin"}
                                         /\ \A i \in DOMAIN inbox' : inbox'[i].op \in {"data", "final"}
                    /\ \A i \in DOMAIN inbox' : inbox'[i].op = "final" => cfile = sock
    <3>1. AsksFile /\ cpc # "prompt" => \A i \in DOMAIN inbox : inbox[i].op \in {"data", "final"}
      BY <1>3, <2>2 DEF CalmGet
    <3>2. AsksFile => \A i \in DOMAIN inbox : inbox[i].op = "final" => cfile = sock
      BY <2>2 DEF CalmGet
    <3> QED
      BY <1>1, <3>1, <3>2
  <2>5. AsksFile => /\ \A i \in DOMAIN srvIn' : srvIn'[i].op = "ack" => cfile = sock
                    /\ \A i \in DOMAIN srvIn' : srvIn'[i].op = "finack" => cpc = "prompt"
    BY <2>2 DEF CalmGet
  <2> QED
    BY <2>1, <2>2, <2>3, <2>4, <2>5 DEF CalmGet
<1>5. HasFile(cmd) => CalmPut'
  <2>1. Recorded => Recorded'
    BY DEF Recorded
  <2>2. \A i \in DOMAIN inbox' : HasFile(cmd) /\ inbox'[i].op = "finack" => Recorded'
    BY <1>1, <2>1 DEF CalmInv, CalmPut
  <2> QED
    BY <2>1, <2>2 DEF CalmInv, CalmPut
<1> QED
  BY <1>2, <1>4, <1>5 DEF CalmInv

\* Whom the server works for, and whom it answers.
LEMMA CalmJob ==
  ASSUME IInv, CalmInv, spc # "cmd"
  PROVE  /\ job = sock /\ from = sock /\ sock \in Sockets /\ Ahead = IF spc = "size" THEN 1 ELSE 0
         /\ spc \in {"snd", "fin", "rcv"} => si_other = sock
         /\ spc \in {"snd", "fin"} => AsksFile /\ Transfer = {"ack", "probe", "finack"}
         /\ spc \in {"size", "rcv"} => cmd.op = "put" /\ Transfer = {"data", "final"}
<1>1. job = sock /\ from = sock /\ sock \in Nat
  BY SeenType DEF CalmInv, CalmSrv, IInv, TypeInv
<1>2. sock \in Sockets
  BY <1>1, SessionAssumption DEF Sockets, IInv, TypeInv, TypeOK
<1>3. Ahead = IF spc = "size" THEN 1 ELSE 0
  BY <1>1 DEF Ahead
<1>4. spc \in {"snd", "fin", "rcv"} => si_other = sock
  BY <1>1 DEF IInv, TypeInv, TypeOK
<1>5. spc \in {"snd", "fin"} => AsksFile /\ Transfer = {"ack", "probe", "finack"}
  BY <1>1 DEF IInv, PartsInv, StageInv, AsksFile, Transfer
<1>6. spc \in {"size", "rcv"} => cmd.op = "put" /\ Transfer = {"data", "final"}
  BY <1>1 DEF IInv, PartsInv, StageInv, Transfer
<1> QED
  BY <1>1, <1>2, <1>3, <1>4, <1>5, <1>6

\* sendFile sends.
LEMMA CalmSendToClient == ASSUME IInv, CalmInv, SendToClient PROVE CalmInv'
<1> DEFINE op == IF spc = "snd" THEN "data" ELSE "final"
<1>1. /\ UNCHANGED <<cpc, cmd, sock, cack, cfile, received, srvIn, spc, job>> /\ spc \in {"snd", "fin"}
      /\ ToClient(si_other, job, <<op>>, Early)
  BY DEF SendToClient, srvVars
<1>2. /\ op \in ClOps /\ op \in {"data", "final"} /\ (op = "final" <=> spc # "snd") /\ Early \in SUBSET Faults
  BY <1>1 DEF ClOps, Early, Faults
<1>3. job = sock /\ sock \in Sockets /\ AsksFile
  BY <1>1, CalmJob
<1> HIDE DEF op
<1>4. Told(si_other, sock, {op})
  BY <1>1, <1>2, <1>3, ToldOne DEF IInv
<1>5. CalmSrv'
  BY <1>1, <1>3, CalmSame DEF CalmInv, Ahead, Sized
<1>6. spc # "snd" => cfile = sock
  BY <1>3 DEF CalmInv, CalmGet, AsksFile
<1>7. cmd.op = "get"
  BY <1>3 DEF AsksFile
<1> QED
  BY <1>1, <1>2, <1>3, <1>4, <1>5, <1>6, <1>7, CalmServes DEF HasFile

\* sendFile reads.
LEMMA CalmTaking == ASSUME IInv, CalmInv, TakeAck \/ TakeFinalAck PROVE CalmInv'
<1>1. /\ UNCHANGED <<cpc, cmd, sock, cack, cfile, received, inbox, job>> /\ spc \in {"snd", "fin"}
      /\ Taken
  BY DEF TakeAck, TakeFinalAck, clVars
<1>2. /\ job = sock /\ AsksFile /\ cmd.op = "get" /\ Ahead = 0 /\ Transfer = {"ack", "probe", "finack"}
  BY <1>1, CalmJob DEF AsksFile
<1>3. Op = srvIn[1].op /\ 1 \in DOMAIN srvIn /\ Op \in {"ack", "probe", "finack"}
  BY <1>1, <1>2, CalmReads
<1>4. CalmGet
  BY <1>2 DEF CalmInv
<1>5. spc' \in {"snd", "fin", "close"} /\ (spc' # "snd" => cfile = sock) /\ (spc' = "close" => cpc = "prompt")
  <2>1. CASE TakeAck
    <3>1. spc = "snd" /\ spc' = IF Op \in {"probe", "final", "finack"} THEN "snd" ELSE "fin"
      BY <2>1 DEF TakeAck
    <3>2. Op = "ack" => cfile = sock
      BY <1>2, <1>3, <1>4 DEF CalmGet, AsksFile
    <3> QED
      BY <1>3, <3>1, <3>2
  <2>2. CASE TakeFinalAck
    <3>1. spc = "fin" /\ spc' \in {"close", "fin"} /\ (spc' = "close" => Op \in {"final", "finack", "size"})
      BY <2>2 DEF TakeFinalAck
    <3>2. cfile = sock /\ (Op = "finack" => cpc = "prompt")
      BY <1>2, <1>3, <1>4, <3>1 DEF CalmGet, AsksFile
    <3> QED
      BY <1>3, <3>1, <3>2
  <2> QED
    BY <2>1, <2>2
<1>6. CalmSrv'
  <2>1. Ahead' = 0
    BY <1>1, <1>2, <1>5 DEF Ahead
  <2> QED
    BY <1>1, <1>2, <2>1, CalmTaken DEF CalmInv, IInv
<1>7. Told(sock, sock, {})
  BY <1>1, ToldNothing DEF IInv
<1>8. \A i \in DOMAIN srvIn' : \E j \in DOMAIN srvIn : srvIn'[i] = srvIn[j]
  BY <1>1, TakenFrom DEF IInv
<1> QED
  BY <1>1, <1>2, <1>5, <1>6, <1>7, <1>8, CalmServes DEF HasFile

\* rcvFile and the size: everything queued is of the upload.
LEMMA CalmReceiving == ASSUME IInv, CalmInv, ReadSize \/ StoreData \/ StoreFinal \/ StoreText PROVE CalmInv'
<1>1. /\ UNCHANGED <<cpc, cmd, sock, cack, cfile, job>> /\ spc \in {"size", "rcv"}
      /\ Taken /\ received \subseteq received'
  BY DEF ReadSize, StoreData, StoreFinal, StoreText, clVars
<1>2. /\ job = sock /\ from = sock /\ cmd.op = "put" /\ sock \in Sockets /\ Transfer = {"data", "final"}
      /\ Ahead = IF spc = "size" THEN 1 ELSE 0
  BY <1>1, CalmJob
<1>3. Src = sock /\ (spc = "rcv" => Op \in {"data", "final"} /\ Op = srvIn[1].op /\ 1 \in DOMAIN srvIn /\ srvIn[1].from = sock)
  BY <1>1, <1>2, CalmReads
<1>4. ~ StoreText
  BY <1>3 DEF StoreText
<1>5. spc' \in {"close", "rcv", "tail"}
  BY <1>4 DEF ReadSize, StoreData, StoreFinal
<1>6. CalmSrv'
  <2>1. Ahead' = 0
    BY <1>1, <1>2, <1>5 DEF Ahead
  <2> QED
    BY <1>1, <1>2, <2>1, CalmTaken DEF CalmInv, IInv
<1>7. \A i \in DOMAIN srvIn' : \E j \in DOMAIN srvIn : srvIn'[i] = srvIn[j]
  BY <1>1, TakenFrom DEF IInv
<1>8. ~ AsksFile /\ cmd.op # "get"
  BY <1>2 DEF AsksFile
<1>9. CASE ReadSize
  <2>1. Told(sock, sock, {})
    BY <1>9, ToldNothing DEF IInv, ReadSize, clVars
  <2> QED
    BY <1>1, <1>2, <1>5, <1>6, <1>7, <1>8, <2>1, CalmServes
<1>10. CASE StoreData
  <2>1. ToClient(sock, sock, <<"ack">>, {}) /\ "ack" \in ClOps /\ {} \in SUBSET Faults
    BY <1>2, <1>3, <1>10 DEF StoreData, ClOps
  <2>2. Told(sock, sock, {"ack"})
    BY <1>2, <2>1, ToldOne DEF IInv
  <2> QED
    BY <1>1, <1>2, <1>5, <1>6, <1>7, <1>8, <2>2, CalmServes
<1>11. CASE StoreFinal
  <2>1. ToClient(sock, sock, <<"finack">>, {}) /\ "finack" \in ClOps /\ {} \in SUBSET Faults
    BY <1>2, <1>3, <1>11 DEF StoreFinal, ClOps
  <2>2. Told(sock, sock, {"finack"})
    BY <1>2, <2>1, ToldOne DEF IInv
  <2>3. HasFile(cmd) => Recorded'
    <3> DEFINE r == [put |-> job, block |-> sfile]
    <3>1. r \in received' /\ r.put = sock' /\ r.block = sfile
      BY <1>1, <1>2, <1>11 DEF StoreFinal
    <3>2. spc = "rcv" /\ Op = "final"
      BY <1>11 DEF StoreFinal
    <3>3. Uploading => sfile = sock
      BY <1>3, <3>2 DEF IInv, PartsInv, PutInv
    <3>4. HasFile(cmd) => Uploading \/ cmd.arg = "empty"
      BY DEF HasFile, Uploading
    <3> QED
      BY <1>1, <3>1, <3>3, <3>4 DEF Recorded
  <2> QED
    BY <1>1, <1>2, <1>5, <1>6, <1>7, <1>8, <2>2, <2>3, CalmServes
<1> QED
  BY <1>4, <1>9, <1>10, <1>11

\* rcvFile probes, or the loop says that it did not know the command.
LEMMA CalmTelling == ASSUME IInv, CalmInv, ProbeClient \/ AnswerTail PROVE CalmInv'
<1> DEFINE op == IF spc = "rcv" THEN sack ELSE "invalid"
<1>1. /\ UNCHANGED <<cpc, cmd, sock, cack, cfile, job, srvIn, received>>
      /\ \/ spc = "rcv" /\ spc' = "rcv"
         \/ spc = "tail" /\ spc' = "close"
      /\ ToClient(IF spc = "rcv" THEN si_other ELSE from, job, <<op>>, {})
  BY DEF ProbeClient, AnswerTail, srvVars
<1>2. /\ job = sock /\ from = sock /\ sock \in Sockets /\ Ahead = 0 /\ (spc = "rcv" => cmd.op = "put")
  BY <1>1, CalmJob
<1>3. op \in {"probe", "ack", "invalid"} /\ op \in ClOps /\ {} \in SUBSET Faults
  BY DEF ClOps, IInv, TypeInv, TypeOK
<1> HIDE DEF op
<1>4. Told(sock, sock, {op})
  BY <1>1, <1>2, <1>3, ToldOne, CalmJob DEF IInv
<1>5. CalmSrv'
  BY <1>1, <1>2, CalmSame DEF CalmInv, Ahead
<1>6. AsksFile => cpc = "prompt" /\ cfile = sock
  BY <1>1, <1>2 DEF AsksFile, CalmInv, CalmGet
<1> QED
  BY <1>1, <1>2, <1>3, <1>4, <1>5, <1>6, CalmServes

\* A new socket at the port: what was queued of the transfer is dropped.
LEMMA CalmRebind == ASSUME IInv, CalmInv, Rebind PROVE CalmInv'
<1>1. /\ UNCHANGED <<cpc, cmd, sock, cack, cfile, job, inbox, received>> /\ spc = "close" /\ spc' = "cmd"
  BY DEF Rebind, clVars
<1>2. job = sock /\ Ahead = 0 /\ Ahead' = 0
  BY <1>1, CalmJob DEF Ahead
<1>3. \A i \in DOMAIN srvIn' : \E j \in DOMAIN srvIn : srvIn'[i] = srvIn[j]
  <2>1. PICK k \in 1..Len(srvIn)+1 : srvIn' = SubSeq(srvIn, k, Len(srvIn))
    BY DEF Rebind
  <2>2. /\ Len(srvIn') = Len(srvIn) - k + 1 /\ Len(srvIn) \in Nat
        /\ DOMAIN srvIn = 1..Len(srvIn) /\ DOMAIN srvIn' = 1..Len(srvIn')
        /\ \A i \in 1..Len(srvIn') : srvIn'[i] = srvIn[i+k-1]
    BY <2>1, SuffixIs DEF IInv, TypeInv
  <2>3. \A i \in DOMAIN srvIn' : i+k-1 \in DOMAIN srvIn /\ srvIn'[i] = srvIn[i+k-1]
    BY <2>1, <2>2
  <2> QED
    BY <2>3
<1>4. Len(srvIn') \in Nat /\ \A i \in DOMAIN srvIn' : i > 0
  <2>1. srvIn' \in Seq(Datagrams)
    BY <1>1, SuffixIs DEF IInv, TypeInv, Rebind
  <2> QED
    BY <2>1, LenProperties
<1>5. CalmSrv'
  <2>1. \A i \in DOMAIN srvIn : i > 0
    BY QueueTypes DEF IInv
  <2>2. \A i \in DOMAIN srvIn' : srvIn'[i].from = sock /\ srvIn'[i].op \in Transfer
    BY <1>2, <1>3, <2>1 DEF CalmInv, CalmSrv
  <2>3. Transfer' = Transfer
    BY <1>1 DEF Transfer
  <2> QED
    BY <1>1, <1>2, <1>4, <2>2, <2>3 DEF CalmSrv
<1>6. AsksFile => cpc = "prompt" /\ cfile = sock
  BY <1>1, <1>2 DEF AsksFile, CalmInv, CalmGet
<1>7. Told(sock, sock, {})
  BY <1>1, ToldNothing DEF IInv
<1> QED
  BY <1>1, <1>2, <1>3, <1>5, <1>6, <1>7, CalmServes

-----------------------------------------------------------------------------
\* The calm commands: what is taken at START is the client's command, or a
\* datagram of the transfer before it.
LEMMA CalmTakes ==
  ASSUME IInv, CalmInv, TakeCommand, UNCHANGED <<cmd, sock, cpc, cack, cfile, received>>
  PROVE  /\ Taken /\ Src = sock /\ job' = sock /\ sock \in Sockets
         /\ job = sock => Ahead = 0 /\ Op \notin {"get", "put", "list", "exit"} /\ (AsksFile => cpc = "prompt" /\ cfile = sock)
         /\ job # sock => /\ Op = cmd.op /\ Arg = Name(cmd) /\ inbox = <<>> /\ cpc = FirstWait(cmd)
                          /\ Ahead = IF Sized THEN 2 ELSE 1
         /\ \A i \in DOMAIN srvIn' : \E j \in DOMAIN srvIn : srvIn'[i] = srvIn[j]
         /\ Ahead' = (IF Ahead = 0 THEN 0 ELSE Ahead - 1) => CalmSrv'
<1>1. Taken /\ job' = Src /\ spc = "cmd"
  BY DEF TakeCommand
<1>2. Src = sock /\ Src \in Sockets
  BY <1>1, CalmReads, TakenIs DEF IInv, Datagrams
<1>3. job = sock => Ahead = 0 /\ Op \in Transfer
  BY <1>1, CalmReads DEF Ahead
<1>4. job = sock => Op \notin {"get", "put", "list", "exit"}
  BY <1>3 DEF Transfer
<1>5. job = sock /\ AsksFile => cpc = "prompt" /\ cfile = sock
  BY <1>1 DEF AsksFile, CalmInv, CalmGet
<1>6. job # sock => /\ Op = cmd.op /\ Arg = Name(cmd) /\ inbox = <<>> /\ cpc = FirstWait(cmd)
                    /\ Ahead = IF Sized THEN 2 ELSE 1
  BY <1>1, CalmReads
<1>7. Ahead' = (IF Ahead = 0 THEN 0 ELSE Ahead - 1) => CalmSrv'
  BY <1>1, <1>2, CalmTaken DEF IInv, CalmInv
<1>8. \A i \in DOMAIN srvIn' : \E j \in DOMAIN srvIn : srvIn'[i] = srvIn[j]
  BY <1>1, TakenFrom DEF IInv
<1> QED
  BY <1>1, <1>2, <1>3, <1>4, <1>5, <1>6, <1>7, <1>8

\* The answers.
LEMMA CalmAnswer == ASSUME IInv, CalmInv, Answer, Calm' PROVE CalmInv'
<1>1. TakeCommand /\ UNCHANGED <<cmd, sock, cpc, cack, cfile, received>>
  BY DEF Answer
<1>2. PICK answer \in {<<"get", "missing", "FAIL", "tail">>, <<"get", "void", "warn", "close">>,
                       <<"get", "noname", "warn", "cmd">>, <<"put", "noname", "warn", "cmd">>,
                       <<"exit", "none", "bye", "gone">>} :
        /\ answer[1] = Op /\ answer[2] = Arg
        /\ ToClient(Src, Src, <<answer[3]>>, {})
        /\ spc' = answer[4]
  BY DEF Answer
<1> DEFINE op == answer[3]
<1>3. /\ op \in {"FAIL", "warn", "bye"} /\ op \in ClOps /\ ToClient(Src, Src, <<op>>, {}) /\ {} \in SUBSET Faults
      /\ Op \in {"get", "put", "exit"} /\ (Op = "get" => Arg # "file" /\ op \in {"FAIL", "warn"})
      /\ (Op = "put" => Arg = "noname") /\ spc' \in {"tail", "close", "cmd", "gone"}
  BY <1>2 DEF ClOps
<1> HIDE DEF op
<1>4. job # sock /\ Src = sock /\ Op = cmd.op /\ Arg = Name(cmd) /\ inbox = <<>> /\ job' = sock /\ sock \in Sockets
  BY <1>1, <1>3, CalmTakes
<1>5. ~ Sized /\ ~ AsksFile
  BY <1>3, <1>4 DEF Name, Sized, AsksFile
<1>6. CalmSrv'
  <2>1. Ahead = 1 /\ Ahead' = 0
    BY <1>1, <1>3, <1>4, <1>5 DEF Ahead
  <2> QED
    BY <1>1, <2>1, CalmTakes
<1>7. Told(sock, sock, {op})
  BY <1>3, <1>4, ToldOne DEF IInv
<1>8. cmd.op = "get" => inbox' # <<>> /\ inbox'[1].op \in {"warn", "FAIL"}
  <2> DEFINE m == [of |-> sock, op |-> op]
  <2>1. inbox' = Append(inbox, m) /\ inbox \in Seq(ToCl)
    BY <1>3, <1>4, ClientHears DEF IInv, TypeInv
  <2>2. m \in ToCl /\ m.op = op
    BY <1>3, <1>4 DEF ToCl, ClOps
  <2> HIDE DEF m
  <2>3. Len(inbox') = Len(inbox) + 1 /\ inbox' # <<>> /\ inbox'[Len(inbox)+1] = m
    BY <2>1, <2>2, LongerIs
  <2>4. inbox'[1] = m /\ inbox' # <<>>
    BY <1>4, <2>3
  <2> QED
    BY <1>3, <1>4, <2>2, <2>4
<1>9. "finack" \notin {op} /\ spc' # "dead" /\ received \subseteq received'
  BY <1>1, <1>3
<1>10. \A i \in DOMAIN srvIn' : \E j \in DOMAIN srvIn : srvIn'[i] = srvIn[j]
  BY <1>1, CalmTakes
<1> QED
  BY <1>1, <1>4, <1>5, <1>6, <1>7, <1>8, <1>9, <1>10, CalmServes

LEMMA CalmOther == ASSUME IInv, CalmInv, AnswerList \/ AnswerInvalid PROVE CalmInv'
<1>1. TakeCommand /\ UNCHANGED <<cmd, sock, cpc, cack, cfile, received>> /\ spc' \in {"tail", "close"}
  BY DEF AnswerList, AnswerInvalid
<1>2. Op \notin {"get", "put"} /\ Src = sock /\ job' = sock /\ sock \in Sockets
  BY <1>1, CalmTakes DEF AnswerList, AnswerInvalid
<1>3. CalmSrv'
  <2>1. job # sock => ~ Sized /\ Ahead = 1
    BY <1>1, <1>2, CalmTakes DEF Sized
  <2>2. Ahead' = IF Ahead = 0 THEN 0 ELSE Ahead - 1
    <3>1. job = sock => Ahead = 0
      BY <1>1, CalmTakes
    <3>2. Ahead' = 0
      BY <1>1, <1>2 DEF Ahead
    <3> QED
      BY <2>1, <3>1, <3>2
  <2> QED
    BY <1>1, <2>2, CalmTakes
<1>4. PICK ops \in {{"count", "name"}, {"invalid"}} : Told(sock, sock, ops)
  <2>1. "invalid" \in ClOps /\ {} \in SUBSET Faults
    BY DEF ClOps
  <2>2. CASE AnswerList
    BY <1>2, <2>1, <2>2, ToldTwo DEF AnswerList, IInv
  <2>3. CASE AnswerInvalid
    BY <1>2, <2>1, <2>3, ToldOne DEF AnswerInvalid, IInv
  <2> QED
    BY <2>2, <2>3
<1>5. (cmd.op = "get" => job = sock) /\ (AsksFile => cpc = "prompt" /\ cfile = sock)
  BY <1>1, <1>2, CalmTakes DEF AsksFile
<1>6. "finack" \notin ops /\ spc' # "dead" /\ received \subseteq received'
  BY <1>1, <1>4
<1>7. \A i \in DOMAIN srvIn' : \E j \in DOMAIN srvIn : srvIn'[i] = srvIn[j]
  BY <1>1, CalmTakes
<1> QED
  BY <1>1, <1>2, <1>3, <1>4, <1>5, <1>6, <1>7, CalmServes

\* A transfer starts.
LEMMA CalmStart == ASSUME IInv, CalmInv, StartGet \/ StartPut PROVE CalmInv'
<1>1. /\ TakeCommand /\ UNCHANGED <<cmd, sock, cpc, cack, cfile, inbox, received>>
      /\ \/ Op = "get" /\ Arg = "file" /\ spc' = "snd"
         \/ Op = "put" /\ Arg # "noname" /\ spc' = "size"
  BY DEF StartGet, StartPut, clVars
<1>2. job # sock /\ Op = cmd.op /\ Arg = Name(cmd) /\ job' = sock /\ Ahead = IF Sized THEN 2 ELSE 1
  BY <1>1, CalmTakes
<1>3. /\ cmd.op = "get" => AsksFile /\ ~ Sized /\ spc' = "snd"
      /\ cmd.op # "get" => cmd.op = "put" /\ Sized /\ spc' = "size"
  BY <1>1, <1>2 DEF Name, Sized, AsksFile
<1>4. CalmSrv'
  <2>1. Ahead' = IF Ahead = 0 THEN 0 ELSE Ahead - 1
    BY <1>1, <1>2, <1>3 DEF Ahead
  <2> QED
    BY <1>1, <2>1, CalmTakes
<1>5. Told(sock, sock, {})
  BY <1>1, ToldNothing DEF IInv
<1>6. AsksFile => spc' = "snd"
  BY <1>3 DEF AsksFile
<1>7. \A i \in DOMAIN srvIn' : \E j \in DOMAIN srvIn : srvIn'[i] = srvIn[j]
  BY <1>1, CalmTakes
<1>8. cmd.op = "get" => AsksFile
  BY <1>3
<1> QED
  BY <1>1, <1>2, <1>3, <1>4, <1>5, <1>6, <1>7, <1>8, CalmServes

-----------------------------------------------------------------------------
LEMMA CalmServer == ASSUME IInv, CalmInv, ServerNext, Calm' PROVE CalmInv'
BY CalmAnswer, CalmOther, CalmStart, CalmReceiving, CalmTelling, CalmSendToClient, CalmTaking, CalmRebind
DEF ServerNext

LEMMA CalmClient == ASSUME IInv, CalmInv, ClientNext PROVE CalmInv'
BY CalmReading, CalmRecvData, CalmRecvFinal, CalmProbeServer, CalmSendToServer DEF ClientNext

\* A session that is calm after a step was so before it.
LEMMA CalmOnlyEnds == ASSUME [Next]_vars, Calm' PROVE Calm
<1>1. faults \subseteq faults'
  <2>1. CASE \E c \in Commands : Command(c)
    BY <2>1 DEF Command, ToServer
  <2>2. CASE ClientNext
    BY <2>2 DEF ClientNext, ReadList, ReadFirst, ReadReply, RecvData, RecvFinal, RecvText, ProbeServer,
                SendToServer, ReadAck, ReadFinalAck, ToServer
  <2>3. CASE ServerNext
    BY <2>3 DEF ServerNext, Answer, AnswerList, StartGet, StartPut, AnswerInvalid, ReadSize, StoreData,
                StoreFinal, StoreText, ProbeClient, SendToClient, TakeAck, TakeFinalAck, AnswerTail, Rebind,
                ToClient
  <2>4. CASE UNCHANGED vars
    BY <2>4 DEF vars
  <2> QED
    BY <2>1, <2>2, <2>3, <2>4 DEF Next
<1> QED
  BY <1>1 DEF Calm

LEMMA CalmInit == Init => CalmInv
<1> SUFFICES ASSUME Init PROVE CalmInv
  OBVIOUS
<1>1. Ahead = 0 /\ Len(srvIn) = 0 /\ DOMAIN srvIn = {} /\ DOMAIN inbox = {} /\ job = sock
  BY DEF Init, Ahead, Sized
<1>2. cpc = "prompt" /\ spc = "cmd" /\ cmd.op = "list" /\ ~ HasFile(cmd)
  BY DEF Init, HasFile
<1>3. CalmSrv
  BY <1>1, <1>2 DEF CalmSrv
<1>4. CalmCl
  BY <1>1, <1>2 DEF CalmCl
<1> QED
  BY <1>2, <1>3, <1>4 DEF CalmInv

LEMMA CalmStep == IInv /\ (Calm => CalmInv) /\ [Next]_vars => (Calm => CalmInv)'
<1> SUFFICES ASSUME IInv, Calm => CalmInv, [Next]_vars, Calm' PROVE CalmInv'
  BY DEF Calm
<1>1. CalmInv
  BY CalmOnlyEnds
<1>2. CASE \E c \in Commands : Command(c)
  BY <1>1, <1>2, CalmCommand
<1>3. CASE ClientNext
  BY <1>1, <1>3, CalmClient
<1>4. CASE ServerNext
  BY <1>1, <1>4, CalmServer
<1>5. CASE UNCHANGED vars
  <2>1. UNCHANGED <<cpc, cmd, sock, inbox, cack, cfile, spc, srvIn, job, received>>
    BY <1>5 DEF vars, clVars, srvVars
  <2>2. CalmSrv'
    BY <1>1, <2>1, CalmSame DEF CalmInv, CalmSrv, Ahead, Sized
  <2>3. CalmCl' /\ (cmd.op = "get" => CalmGet') /\ (HasFile(cmd) => CalmPut')
    BY <1>1, <2>1 DEF CalmInv, CalmCl, CalmGet, CalmPut, Recorded
  <2> QED
    BY <2>1, <2>2, <2>3 DEF CalmInv
<1> QED
  BY <1>2, <1>3, <1>4, <1>5 DEF Next

\* While nothing is lost and the user waits for the server, what is queued on
\* either side belongs to the command the client is at.
THEOREM CalmCorrect == Spec => [](Calm => CalmInv)
<1>1. Init => IInv /\ (Calm => CalmInv)
  BY InvInit, CalmInit
<1>2. IInv /\ (Calm => CalmInv) /\ [Next]_vars => IInv' /\ (Calm => CalmInv)'
  BY InvStep, CalmStep
<1> QED
  BY <1>1, <1>2, PTL DEF Spec

\* In a calm session a get that is reported done left the whole file of this get,
\* and a put that is reported sent was received as this put and with its block, if
\* its file is not empty.
THEOREM ReportsAreTrueCorrect == Spec => []ReportsAreTrue
<1>1. IInv /\ (Calm => CalmInv) => ReportsAreTrue
  <2>1. SUFFICES ASSUME IInv, CalmInv, Calm, cpc = "prompt"
        PROVE  /\ cmd.op = "get" /\ cmd.arg = "file" => cfile = sock
               /\ HasFile(cmd) => Recorded
    BY DEF ReportsAreTrue, Recorded
  <2>2. HasFile(cmd) => Recorded
    BY <2>1 DEF CalmInv, CalmPut
  <2>3. cmd.op = "get" /\ cmd.arg = "file" => cfile = sock
    BY <2>1 DEF CalmInv, CalmGet
  <2> QED
    BY <2>2, <2>3
<1> QED
  BY <1>1, InvariantCorrect, CalmCorrect, PTL

\* In a calm session parseLine never meets a text that ends the process.
THEOREM NoParseExitCorrect == Spec => []NoParseExit
<1>1. (Calm => CalmInv) => NoParseExit
  BY DEF CalmInv, CalmCl, NoParseExit
<1> QED
  BY <1>1, CalmCorrect, PTL
=============================================================================
