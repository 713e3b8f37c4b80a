---------------------------- MODULE FileCatalog ----------------------------
(***************************************************************************)
(* The files of the server and their list, as the threads of its clients   *)
(* use them.  list and get read Lista.txt into an array of their own, but  *)
(* its length is the global Number_file, and the loop of get counts with   *)
(* one static i.  put empties the file of that name, writes its blocks,    *)
(* and appends the name to Lista.txt unless strstr finds it in the listed  *)
(* names, written one behind the other.  Nothing of this is locked.        *)
(*                                                                         *)
(* One step is one access to shared memory or to a file.  A thread's       *)
(* requests come from its client; how they travel is in Session, and what  *)
(* sendFile and rcvFile do with the blocks in Download and Upload.         *)
(***************************************************************************)
EXTENDS Integers, SequencesExt

CONSTANTS
  Threads,
  Spell,       \* the letters of each file name
  FileLen,     \* blocks of an uploaded file
  MaxRequests, \* requests of all clients
  MaxStale     \* old pointers behind the names that a list may follow; the array
               \* has BUFLEN

ASSUME CatalogAssumption == FileLen \in Nat \ {0} /\ MaxRequests \in Nat /\ MaxStale \in Nat

\* There is a name to ask for, and a name is a string.
ASSUME SpellAssumption ==
  DOMAIN Spell # {} /\ \A n \in DOMAIN Spell : Spell[n] \in Seq(Nat)

VARIABLES
  Lista,        \* the names in Lista.txt
  Number_file,
  i,            \* the static i of get
  disk,         \* the blocks of each file
  files,        \* the names of the files there are
  th,           \* each thread: the local variables of its handle_request
  requests,     \* requests so far; the number of an upload is that of its request
  clash         \* history: files uploaded while another thread used them

vars == <<Lista, Number_file, i, disk, files, th, requests, clash>>

Names == DOMAIN Spell

\* A block is the number of the upload that wrote it.
Original == 0  \* a block that was there when the server started
Hole == -1     \* a block nobody wrote: zeros
Block == Int

Thread ==
  [pc: {"start", "read", "number", "names", "reset", "test", "compare", "last", "load",
        "store", "open", "send", "print", "size", "write", "check", "append", "crashed"},
   op: {"none", "list", "get", "put"}, name: Names,
   filelist: Seq(Names),  \* the names read so far
   number: Nat,           \* list: the Number_file that was sent
   h: Nat,                \* list: strings sent; get and put: blocks moved
   tmp: Nat,              \* i, loaded to be incremented
   got: Seq(Block),       \* get: the blocks sent
   id: Nat,               \* put: its number
   replies: SUBSET {"FAIL", "warn", "file", "invalid"},  \* get: the answers
   before: Nat,           \* history: the length of Lista when the request came
   alone: BOOLEAN]        \* history: no other lookup at the same time

TypeOK ==
  /\ Lista \in Seq(Names) /\ Number_file \in 0..Len(Lista) /\ i \in Nat
  /\ disk \in [Names -> Seq(Block)] /\ \A n \in Names : Len(disk[n]) <= FileLen
  /\ files \subseteq Names /\ \A n \in Names \ files : disk[n] = <<>>
  /\ th \in [Threads -> Thread]
  /\ \A t \in Threads : Len(th[t].filelist) <= Len(Lista)
  /\ requests \in 0..MaxRequests /\ clash \subseteq Names

Idle ==
  [pc |-> "start", op |-> "none", name |-> CHOOSE n \in Names : TRUE, filelist |-> <<>>,
   number |-> 0, h |-> 0, tmp |-> 0, got |-> <<>>, id |-> 0, replies |-> {}, before |-> 0,
   alone |-> TRUE]

\* The server starts with some names listed; not all of them have a file.
Init ==
  /\ Lista \in {<<>>} \cup {<<n>> : n \in Names} /\ files \in SUBSET ToSet(Lista)
  /\ Number_file = 0 /\ i = 0
  /\ disk = [n \in Names |-> IF n \in files THEN [k \in 1..FileLen |-> Original] ELSE <<>>]
  /\ th = [t \in Threads |-> Idle]
  /\ requests = 0 /\ clash = {}

-----------------------------------------------------------------------------
At(t, pc) == th[t].pc = pc
InLookup(t) == th[t].pc \in {"read", "number", "names", "reset", "test", "compare", "last",
                             "load", "store", "open", "send", "print"}
Uploading(t, n) == th[t].name = n /\ th[t].pc \in {"size", "write", "check", "append"}
Sending(t, n) == th[t].name = n /\ th[t].op = "get" /\ InLookup(t)

Up == \A t \in Threads : ~At(t, "crashed")
Others(t) == Threads \ {t}

\* handle_request, list or get with a name: read_file_list opens Lista.txt.
StartLookup(t, op, n) ==
  /\ At(t, "start") /\ Up /\ requests < MaxRequests /\ requests' = requests + 1
  /\ LET Met == {u \in Others(t) : InLookup(u)}
     IN  th' = [u \in Threads |->
           IF u = t
           THEN [Idle EXCEPT !.pc = "read", !.op = op, !.name = n,
                                              !.before = Len(Lista), !.alone = Met = {}]
           ELSE [th[u] EXCEPT !.alone = @ /\ u \notin Met]]
  /\ clash' = clash \cup {m \in {n} : op = "get" /\ \E u \in Others(t) : Uploading(u, m)}
  /\ UNCHANGED <<Lista, Number_file, i, disk, files>>

\* read_file_list, one fscanf: the next name, and Number_file with it.
ReadName(t) ==
  /\ At(t, "read") /\ Up
  /\ LET k == Len(th[t].filelist) + 1
     IN  /\ k <= Len(Lista)
         /\ th' = [th EXCEPT ![t].filelist = Append(@, Lista[k])]
         /\ Number_file' = k
  /\ UNCHANGED <<Lista, i, disk, files, requests, clash>>

\* read_file_list, EOF: Number_file keeps its value if there was no name.
EndOfList(t) ==
  /\ At(t, "read") /\ Up /\ Len(th[t].filelist) = Len(Lista)
  /\ th' = [th EXCEPT ![t].pc = IF th[t].op = "list" THEN "number" ELSE "reset"]
  /\ UNCHANGED <<Lista, Number_file, i, disk, files, requests, clash>>

\* What the array holds behind the names read: NULL, which ends a list and a
\* strcmp crashes on; some bytes, on which sendto and strcmp fail; or an old
\* pointer, to a string that is not the name.
Garbage == {"null", "bytes", "old"}

\* list: send Number_file.
SendNumber(t) ==
  /\ At(t, "number") /\ Up
  /\ th' = [th EXCEPT ![t].pc = "names", ![t].number = Number_file]
  /\ UNCHANGED <<Lista, Number_file, i, disk, files, requests, clash>>

\* list: send the names, and behind them the strings at old pointers, until a
\* NULL or the current Number_file; then the answer to an unknown command.
SendName(t) ==
  /\ At(t, "names") /\ Up
  /\ \/ th[t].h = Number_file /\ th' = [th EXCEPT ![t].pc = "start"]
     \/ th[t].h # Number_file /\ th[t].h < Len(th[t].filelist) /\ th' = [th EXCEPT ![t].h = @ + 1]
     \/ /\ th[t].h >= Len(th[t].filelist) /\ th[t].h # Number_file
        /\ \/ \E g \in Garbage \ {"old"} :
                th' = [th EXCEPT ![t].pc = IF g = "null" THEN "start" ELSE "crashed"]
           \/ th[t].h < Len(th[t].filelist) + MaxStale /\ th' = [th EXCEPT ![t].h = @ + 1]
  /\ UNCHANGED <<Lista, Number_file, i, disk, files, requests, clash>>

\* A slip of ResetIndex: the loop starts behind the first name.
ResetIndexSlip(t) ==
  /\ At(t, "reset") /\ Up
  /\ i' = IF Number_file > 0 THEN 1 ELSE 0
  /\ th' = [th EXCEPT ![t].pc = "test"]
  /\ UNCHANGED <<Lista, Number_file, disk, files, requests, clash>>

\* get: for (i = 0;
ResetIndex(t) ==
  /\ At(t, "reset") /\ Up
  /\ i' = 0
  /\ th' = [th EXCEPT ![t].pc = "test"]
  /\ UNCHANGED <<Lista, Number_file, disk, files, requests, clash>>

\* A slip of TestIndex: i <= Number_file.
TestIndexSlip(t) ==
  /\ At(t, "test") /\ Up
  /\ th' = IF i <= Number_file THEN [th EXCEPT ![t].pc = "compare"]
           ELSE [th EXCEPT ![t].pc = "start", ![t].replies = @ \cup {"invalid"}]
  /\ UNCHANGED <<Lista, Number_file, i, disk, files, requests, clash>>

\* get: i < Number_file; behind the loop is the answer to an unknown command.
TestIndex(t) ==
  /\ At(t, "test") /\ Up
  /\ th' = IF i < Number_file THEN [th EXCEPT ![t].pc = "compare"]
           ELSE [th EXCEPT ![t].pc = "start", ![t].replies = @ \cup {"invalid"}]
  /\ UNCHANGED <<Lista, Number_file, i, disk, files, requests, clash>>

\* get: strcmp(filelist[i], string).
Compare(t) ==
  /\ At(t, "compare") /\ Up
  /\ \/ /\ i < Len(th[t].filelist)
        /\ th' = [th EXCEPT ![t].pc = IF th[t].filelist[i + 1] = th[t].name THEN "open" ELSE "last"]
     \/ /\ i >= Len(th[t].filelist)
        /\ \E g \in Garbage : th' = [th EXCEPT ![t].pc = IF g = "old" THEN "last" ELSE "crashed"]
  /\ UNCHANGED <<Lista, Number_file, i, disk, files, requests, clash>>

\* get: i + 1 == Number_file: send FAIL, and go on.
TestLast(t) ==
  /\ At(t, "last") /\ Up
  /\ th' = [th EXCEPT ![t].pc = "load",
                      ![t].replies = @ \cup {r \in {"FAIL"} : i + 1 = Number_file}]
  /\ UNCHANGED <<Lista, Number_file, i, disk, files, requests, clash>>

\* get: i++, a load and a store.
LoadIndex(t) ==
  /\ At(t, "load") /\ Up
  /\ th' = [th EXCEPT ![t].pc = "store", ![t].tmp = i]
  /\ UNCHANGED <<Lista, Number_file, i, disk, files, requests, clash>>

\* A slip of StoreIndex: i stays as it is.
StoreIndexSlip(t) ==
  /\ At(t, "store") /\ Up
  /\ i' = th[t].tmp
  /\ th' = [th EXCEPT ![t].pc = "test"]
  /\ UNCHANGED <<Lista, Number_file, disk, files, requests, clash>>

StoreIndex(t) ==
  /\ At(t, "store") /\ Up
  /\ i' = th[t].tmp + 1
  /\ th' = [th EXCEPT ![t].pc = "test"]
  /\ UNCHANGED <<Lista, Number_file, disk, files, requests, clash>>

\* get: openFile ends the server if there is no such file; an empty one is
\* refused; otherwise sendFile starts.
OpenFile(t) ==
  /\ At(t, "open") /\ Up
  /\ LET n == th[t].name
     IN  th' = IF n \notin files THEN [th EXCEPT ![t].pc = "crashed"]
               ELSE IF disk[n] = <<>>
                    THEN [th EXCEPT ![t].pc = "start", ![t].replies = @ \cup {"warn"}]
                    ELSE [th EXCEPT ![t].pc = "send"]
  /\ UNCHANGED <<Lista, Number_file, i, disk, files, requests, clash>>

\* sendFile reads the file block by block until it reads nothing.
SendBlock(t) ==
  /\ At(t, "send") /\ Up
  /\ LET b == disk[th[t].name]  k == Len(th[t].got) + 1
     IN  th' = IF k <= Len(b) THEN [th EXCEPT ![t].got = Append(@, b[k])]
               ELSE [th EXCEPT ![t].pc = "print", ![t].replies = @ \cup {"file"}]
  /\ UNCHANGED <<Lista, Number_file, i, disk, files, requests, clash>>

\* get prints filelist[i]; printf writes "(null)" for a NULL.
PrintName(t) ==
  /\ At(t, "print") /\ Up
  /\ \E g \in IF i < Len(th[t].filelist) THEN {"old"} ELSE Garbage :
       th' = [th EXCEPT ![t].pc = IF g = "bytes" THEN "crashed" ELSE "start"]
  /\ UNCHANGED <<Lista, Number_file, i, disk, files, requests, clash>>

\* A slip of StartPut: the file keeps its old blocks.
StartPutSlip(t, n) ==
  /\ At(t, "start") /\ Up /\ requests < MaxRequests /\ requests' = requests + 1
  /\ th' = [th EXCEPT ![t] = [Idle EXCEPT !.pc = "size", !.op = "put", !.name = n,
                                                       !.id = requests']]
  /\ files' = files \cup {n}
  /\ clash' = clash \cup {m \in {n} : \E u \in Others(t) : Uploading(u, m) \/ Sending(u, m)}
  /\ UNCHANGED <<Lista, Number_file, i, disk>>

\* handle_request, put with a name: creat empties the file.
StartPut(t, n) ==
  /\ At(t, "start") /\ Up /\ requests < MaxRequests /\ requests' = requests + 1
  /\ th' = [th EXCEPT ![t] = [Idle EXCEPT !.pc = "size", !.op = "put", !.name = n,
                                                       !.id = requests']]
  /\ files' = files \cup {n}
  /\ disk' = [disk EXCEPT ![n] = <<>>]
  /\ clash' = clash \cup {m \in {n} : \E u \in Others(t) : Uploading(u, m) \/ Sending(u, m)}
  /\ UNCHANGED <<Lista, Number_file, i>>

\* put: "Error_path" ends it, and leaves the file empty; else rcvFile starts.
ReadSize(t) ==
  /\ At(t, "size") /\ Up
  /\ \E error \in BOOLEAN : th' = [th EXCEPT ![t].pc = IF error THEN "start" ELSE "write"]
  /\ UNCHANGED <<Lista, Number_file, i, disk, files, requests, clash>>

\* A slip of WriteBlock: it appends to the file.
WriteBlockSlip(t) ==
  /\ At(t, "write") /\ Up /\ th[t].h < FileLen
  /\ disk' = [disk EXCEPT ![th[t].name] = Append(@, th[t].id)]
  /\ th' = [th EXCEPT ![t].h = @ + 1]
  /\ UNCHANGED <<Lista, Number_file, i, files, requests, clash>>

\* rcvFile writes the next block at its own offset.
WriteBlock(t) ==
  /\ At(t, "write") /\ Up /\ th[t].h < FileLen
  /\ LET n == th[t].name  k == th[t].h + 1
     IN  disk' = [disk EXCEPT ![n] = [j \in 1..(IF Len(@) < k THEN k ELSE Len(@)) |->
                    IF j = k THEN th[t].id ELSE IF j <= Len(@) THEN @[j] ELSE Hole]]
  /\ th' = [th EXCEPT ![t].h = @ + 1]
  /\ UNCHANGED <<Lista, Number_file, i, files, requests, clash>>

\* rcvFile returns: the file is complete, or the server has given up.
EndOfUpload(t) ==
  /\ At(t, "write") /\ Up
  /\ th' = [th EXCEPT ![t].pc = "check"]
  /\ UNCHANGED <<Lista, Number_file, i, disk, files, requests, clash>>

\* lettura_elementi_lista writes the names one behind the other.  What its buffer
\* held before ends at the first zero byte and is no part of a name.
elementi_lista == FlattenSeq([k \in DOMAIN Lista |-> Spell[Lista[k]]])
strstr(s, w) == \E k \in 0..Len(s) - Len(w) : SubSeq(s, k + 1, k + Len(w)) = w

\* A slip of controllo_se_esiste_in_lista: the arguments of strstr are swapped.
ControlloSlip(n) == Lista # <<>> /\ strstr(Spell[n], elementi_lista)

controllo_se_esiste_in_lista(n) == strstr(elementi_lista, Spell[n])

\* A slip of CheckList: the name is always appended.
CheckListSlip(t) ==
  /\ At(t, "check") /\ Up
  /\ th' = [th EXCEPT ![t].pc = "append"]
  /\ UNCHANGED <<Lista, Number_file, i, disk, files, requests, clash>>

\* put: is the name in the list?  Then comes the answer to an unknown command.
CheckList(t) ==
  /\ At(t, "check") /\ Up
  /\ th' = [th EXCEPT ![t].pc = IF controllo_se_esiste_in_lista(th[t].name) THEN "start" ELSE "append"]
  /\ UNCHANGED <<Lista, Number_file, i, disk, files, requests, clash>>

\* aggiorna_lista: one write at the end of the file.
AppendToList(t) ==
  /\ At(t, "append") /\ Up
  /\ Lista' = Append(Lista, th[t].name)
  /\ th' = [th EXCEPT ![t].pc = "start"]
  /\ UNCHANGED <<Number_file, i, disk, files, requests, clash>>

Lookup(t) ==
  \/ ReadName(t) \/ EndOfList(t) \/ SendNumber(t) \/ SendName(t)
  \/ ResetIndex(t) \/ TestIndex(t) \/ Compare(t) \/ TestLast(t) \/ LoadIndex(t) \/ StoreIndex(t)
  \/ OpenFile(t)

Next ==
  \E t \in Threads :
    \/ Lookup(t) \/ SendBlock(t) \/ PrintName(t)
    \/ ReadSize(t) \/ WriteBlock(t) \/ EndOfUpload(t) \/ CheckList(t) \/ AppendToList(t)
    \/ \E n \in Names : StartPut(t, n) \/ \E op \in {"list", "get"} : StartLookup(t, op, n)

Spec == Init /\ [][Next]_vars

\* A thread that looks something up only computes and reads local files.
FairSpec == Spec /\ \A t \in Threads : WF_vars(Lookup(t))

-----------------------------------------------------------------------------
\* Two puts of one name that do not overlap never list it twice, although the
\* check and the append are two steps, and other names come in between.
ListedOnce ==
  \A j, k \in DOMAIN Lista : Lista[j] = Lista[k] /\ Lista[j] \notin clash => j = k

\* A file with contents that nobody is uploading is in the list, or no list and
\* no get finds it because its name is hidden in the names of others.
FileIsListed ==
  \A n \in Names : disk[n] # <<>> /\ (\A t \in Threads : ~Uploading(t, n)) =>
    n \in ToSet(Lista) \/ strstr(elementi_lista, Spell[n])

\* A get of a listed name is answered with the file, or with the warning that it
\* is empty, and a get of another name with neither; list announces as many names
\* as it sends, and sends all.  Both only as long as no other thread reads the
\* list at the same time.
AnswerIsRight ==
  \A t \in Threads : At(t, "start") /\ th[t].alone =>
    /\ th[t].op = "get" =>
         /\ (\E k \in 1..th[t].before : Lista[k] = th[t].name) => th[t].replies \subseteq {"file", "warn"}
         /\ th[t].replies \cap {"file", "warn"} # {} => th[t].name \in ToSet(Lista)
    /\ th[t].op = "list" => th[t].number = th[t].h /\ th[t].h >= th[t].before

\* The server only crashes on a listed name without a file, or when two threads
\* have read the list at the same time.
CrashIsExplained ==
  \A t \in Threads : At(t, "crashed") => ~th[t].alone \/ th[t].name \notin files

\* A file is the blocks of one upload, without a hole, and a get sends it as it
\* is, unless an upload of it met another upload or a get of it.
FilesNotMixed ==
  \A n \in Names \ clash :
    /\ \A j, k \in DOMAIN disk[n] : disk[n][j] = disk[n][k] /\ disk[n][j] # Hole
    /\ \A t \in Threads : At(t, "print") /\ th[t].name = n => th[t].got = disk[n]

\* The lookup of list and get comes to an end, unless another thread resets i
\* and Number_file meanwhile.
LookupEnds ==
  \A t \in Threads :
    InLookup(t) ~> ~InLookup(t) \/ th[t].pc \in {"send", "print"} \/ ~th[t].alone \/ ~Up
=============================================================================
