------------------------- MODULE FileCatalogProofs -------------------------
(***************************************************************************)
(* Proofs about the file catalogue, for any number of threads, files,      *)
(* blocks and requests, and any names.                                     *)
(***************************************************************************)
EXTENDS FileCatalog, SequenceTheorems, WellFoundedInduction, TLAPS

-----------------------------------------------------------------------------
(***************************************************************************)
(* The names written one behind the other.  FlattenSeq is a recursive      *)
(* function; what it does to a longer sequence is shown with the least     *)
(* place at which it could go wrong.                                       *)
(***************************************************************************)
LEMMA LeastOfSet ==
  ASSUME NEW I \in SUBSET Nat, I # {}
  PROVE  \E x \in I : \A y \in I : x <= y
<1> DEFINE R == OpToRel(<, Nat)
<1>1. R = {ss \in Nat \X Nat : ss[1] < ss[2]}
  BY DEF OpToRel
<1>2. IsWellFoundedOn(R, Nat)
  BY NatLessThanWellFounded
<1> HIDE DEF R
<1>3. PICK x \in I : \A y \in I : ~ (<<y, x>> \in R)
  BY <1>2, WFMin
<1>4. ASSUME NEW y \in I
      PROVE  x <= y
  <2>1. x \in Nat /\ y \in Nat /\ <<y, x>> \in Nat \X Nat
        /\ <<y, x>>[1] = y /\ <<y, x>>[2] = x
    OBVIOUS
  <2>2. ~ (y < x)
    BY <1>1, <1>3, <2>1, Zenon
  <2> QED
    BY <2>1, <2>2
<1> QED
  BY <1>4

\* f holds the first 1, 2, ..., n sequences of s, each time put together.
Flat(s, n, f) ==
  f = [k \in 1..n |-> IF k = 1 THEN s[k] ELSE f[k-1] \o s[k]]

LEMMA FlatExists ==
  ASSUME NEW S, NEW s \in Seq(Seq(S)), NEW n \in 0..Len(s)
  PROVE  \E f : Flat(s, n, f) /\ \A k \in 1..n : f[k] \in Seq(S)
<1> DEFINE Good(m, f) == Flat(s, m, f) /\ \A k \in 1..m : f[k] \in Seq(S)
           I == {m \in 0..Len(s) : ~ \E f : Good(m, f)}
<1> SUFFICES ASSUME I # {} PROVE FALSE
  OBVIOUS
<1>1. PICK m \in I : \A y \in I : m <= y
  <2>1. I \in SUBSET Nat
    OBVIOUS
  <2> HIDE DEF I
  <2> QED
    BY <2>1, LeastOfSet
<1>2. m # 0
  <2>1. Flat(s, 0, [k \in 1..0 |-> s])
    BY DEF Flat
  <2>2. Good(0, [k \in 1..0 |-> s])
    BY <2>1
  <2> QED
    BY <2>2
<1>3. m - 1 \in 0..Len(s) /\ m - 1 \notin I /\ m \in Nat /\ m \in 1..Len(s)
  <2>1. m \in 0..Len(s) /\ Len(s) \in Nat
    OBVIOUS
  <2>2. m - 1 \in 0..Len(s) /\ m \in Nat /\ m \in 1..Len(s) /\ ~ (m <= m - 1)
    BY <1>2, <2>1
  <2> HIDE DEF I
  <2> QED
    BY <1>1, <2>2
<1>4. PICK f : Good(m - 1, f)
  BY <1>3
<1> DEFINE last == IF m = 1 THEN s[m] ELSE f[m-1] \o s[m]
           g == [k \in 1..m |-> IF k < m THEN f[k] ELSE last]
<1>5. last \in Seq(S)
  <2>1. s[m] \in Seq(S)
    BY <1>3
  <2>2. m # 1 => f[m-1] \in Seq(S)
    BY <1>3, <1>4
  <2> QED
    BY <2>1, <2>2
<1>6. ASSUME NEW k \in 1..m
      PROVE  g[k] = IF k = 1 THEN s[k] ELSE g[k-1] \o s[k]
  <2>1. CASE k < m
    <3>1. k \in 1..m-1 /\ (k # 1 => k - 1 \in 1..m-1)
      BY <1>3, <2>1
    <3>2. f[k] = IF k = 1 THEN s[k] ELSE f[k-1] \o s[k]
      BY <1>4, <3>1 DEF Flat
    <3>3. g[k] = f[k] /\ (k # 1 => g[k-1] = f[k-1])
      BY <1>3, <2>1, <3>1
    <3> QED
      BY <3>2, <3>3
  <2>2. CASE k = m
    <3>1. g[k] = last /\ (k # 1 => g[k-1] = f[m-1])
      BY <1>3, <2>2
    <3> QED
      BY <2>2, <3>1
  <2> QED
    BY <1>3, <2>1, <2>2
<1>7. \A k \in 1..m : g[k] \in Seq(S)
  BY <1>3, <1>4, <1>5
<1>8. Flat(s, m, g)
  <2>1. g = [k \in 1..m |-> g[k]]
    OBVIOUS
  <2> HIDE DEF g
  <2> QED
    BY <1>6, <2>1 DEF Flat
<1>9. Good(m, g)
  BY <1>7, <1>8
<1> QED
  BY <1>9

Agree(s, t, n) == \A k \in 1..n : s[k] = t[k]

\* There is only one, and a longer sequence begins with that of a shorter one.
LEMMA FlatUnique ==
  ASSUME NEW s, NEW t, NEW n \in Nat, NEW m \in Nat, n <= m, NEW f, NEW g,
         Flat(s, n, f), Flat(t, m, g), Agree(s, t, n)
  PROVE  Agree(f, g, n)
<1> DEFINE I == {k \in 1..n : f[k] # g[k]}
<1> SUFFICES ASSUME I # {} PROVE FALSE
  BY DEF Agree
<1>1. PICK k \in I : \A y \in I : k <= y
  <2>1. I \in SUBSET Nat
    OBVIOUS
  <2> HIDE DEF I
  <2> QED
    BY <2>1, LeastOfSet
<1>2. k \in 1..n /\ k \in 1..m
  OBVIOUS
<1>3. f[k] = (IF k = 1 THEN s[k] ELSE f[k-1] \o s[k])
  BY <1>2 DEF Flat
<1>4. g[k] = (IF k = 1 THEN t[k] ELSE g[k-1] \o t[k])
  BY <1>2 DEF Flat
<1>5. k # 1 => f[k-1] = g[k-1]
  <2>1. k # 1 => k - 1 \in 1..n /\ k - 1 \notin I
    BY <1>1, <1>2
  <2> QED
    BY <2>1
<1> QED
  BY <1>2, <1>3, <1>4, <1>5 DEF Agree

LEMMA FlattenIsFlat ==
  ASSUME NEW S, NEW s \in Seq(Seq(S)), Len(s) # 0
  PROVE  \E f : Flat(s, Len(s), f) /\ FlattenSeq(s) = f[Len(s)] /\ f[Len(s)] \in Seq(S)
<1>1. PICK g : Flat(s, Len(s), g) /\ \A k \in 1..Len(s) : g[k] \in Seq(S)
  BY FlatExists
<1> DEFINE f == CHOOSE h : h = [k \in 1..Len(s) |-> IF k = 1 THEN s[k] ELSE h[k-1] \o s[k]]
<1>2. f = [k \in 1..Len(s) |-> IF k = 1 THEN s[k] ELSE f[k-1] \o s[k]]
  BY <1>1, Zenon DEF Flat
<1>3. FlattenSeq(s) = f[Len(s)]
  BY Zenon DEF FlattenSeq
<1> HIDE DEF f
<1>4. Flat(s, Len(s), f)
  BY <1>2 DEF Flat
<1>5. f[Len(s)] = g[Len(s)]
  <2>1. ASSUME NEW n, n = Len(s)
        PROVE  Agree(f, g, n)
    <3>1. Agree(s, s, n) /\ n \in Nat /\ n <= n /\ Flat(s, n, f) /\ Flat(s, n, g)
      BY <1>1, <1>4, <2>1 DEF Agree
    <3> QED
      BY <3>1, FlatUnique, Zenon
  <2> QED
    BY <2>1 DEF Agree
<1> QED
  BY <1>1, <1>3, <1>4, <1>5

\* A sequence more is put behind the others.
LEMMA FlattenLonger ==
  ASSUME NEW S, NEW s \in Seq(Seq(S)), NEW t \in Seq(Seq(S)), NEW n \in Nat, NEW m \in Nat,
         m = n + 1, Len(s) = n, Len(t) = m, Agree(s, t, n)
  PROVE  FlattenSeq(t) = FlattenSeq(s) \o t[m]
<1>1. m # 0 /\ m \in 1..m /\ n <= m
  OBVIOUS
<1>2. PICK g : Flat(t, m, g) /\ FlattenSeq(t) = g[m]
  BY <1>1, FlattenIsFlat
<1>3. g[m] = IF m = 1 THEN t[m] ELSE g[m-1] \o t[m]
  BY <1>1, <1>2 DEF Flat
<1>4. CASE n = 0
  <2>1. s = <<>> /\ FlattenSeq(s) = s
    BY <1>4 DEF FlattenSeq
  <2>2. t[m] \in Seq(S) /\ FlattenSeq(t) = t[m]
    BY <1>1, <1>2, <1>3, <1>4
  <2> QED
    BY <2>1, <2>2
<1>5. CASE n # 0
  <2>1. PICK f : Flat(s, n, f) /\ FlattenSeq(s) = f[n]
    BY <1>5, FlattenIsFlat
  <2>2. n \in 1..n /\ m - 1 = n /\ m # 1
    BY <1>5
  <2>3. Agree(f, g, n)
    BY <1>1, <1>2, <2>1, FlatUnique, Zenon
  <2>4. f[n] = g[n]
    BY <2>2, <2>3 DEF Agree
  <2> QED
    BY <1>2, <1>3, <2>1, <2>2, <2>4
<1> QED
  BY <1>4, <1>5

LEMMA FlattenAppend ==
  ASSUME NEW S, NEW s \in Seq(Seq(S)), NEW x \in Seq(S)
  PROVE  /\ FlattenSeq(s) \in Seq(S)
         /\ FlattenSeq(Append(s, x)) = FlattenSeq(s) \o x
<1>1. Len(s) = 0 => FlattenSeq(s) = <<>>
  BY DEF FlattenSeq
<1>2. Len(s) # 0 => FlattenSeq(s) \in Seq(S)
  BY FlattenIsFlat
<1>3. /\ Append(s, x) \in Seq(Seq(S)) /\ Len(s) \in Nat
      /\ Len(Append(s, x)) = Len(s) + 1 /\ Append(s, x)[Len(s) + 1] = x
      /\ Agree(s, Append(s, x), Len(s))
  BY DEF Agree
<1>4. FlattenSeq(Append(s, x)) = FlattenSeq(s) \o x
  <2>1. ASSUME NEW t, t = Append(s, x), NEW n, n = Len(s), NEW m, m = n + 1
        PROVE  FlattenSeq(t) = FlattenSeq(s) \o t[m] /\ t[m] = x
    <3>1. t \in Seq(Seq(S)) /\ n \in Nat /\ m \in Nat /\ Len(t) = m /\ t[m] = x /\ Agree(s, t, n)
      BY <1>3, <2>1
    <3> QED
      BY <2>1, <3>1, FlattenLonger
  <2> QED
    BY <2>1
<1>5. <<>> \in Seq(S)
  OBVIOUS
<1> QED
  BY <1>1, <1>2, <1>4, <1>5

-----------------------------------------------------------------------------
(***************************************************************************)
(* Type correctness.  A place belongs to one kind of request, a file that  *)
(* is written is there, and what a thread has read of the list is the      *)
(* beginning of the list, which only grows.                                *)
(***************************************************************************)
Reading == {"read", "number", "names", "reset", "test", "compare", "last", "load", "store",
            "open", "send", "print"}
Writing == {"size", "write", "check", "append"}

RequestFits(r) ==
  /\ r.pc = "read" => r.op \in {"list", "get"}
  /\ r.pc \in {"number", "names"} => r.op = "list"
  /\ r.pc \in Reading \ {"read", "number", "names"} => r.op = "get"
  /\ r.pc \in Writing => r.op = "put" /\ r.name \in files

ListFits(r) ==
  /\ r.before <= Len(Lista)
  /\ Len(r.filelist) <= Len(Lista)
  /\ \A k \in 1..Len(r.filelist) : r.filelist[k] = Lista[k]

Shared ==
  /\ Lista \in Seq(Names) /\ Number_file \in 0..Len(Lista) /\ i \in Nat
  /\ disk \in [Names -> Seq(Block)] /\ \A n \in Names : Len(disk[n]) <= FileLen
  /\ files \subseteq Names /\ \A n \in Names \ files : disk[n] = <<>>
  /\ requests \in 0..MaxRequests /\ clash \subseteq Names

TypeInv ==
  /\ Shared
  /\ th \in [Threads -> Thread]
  /\ \A t \in Threads : RequestFits(th[t]) /\ ListFits(th[t])

LEMMA TypeInvTypes == TypeInv => TypeOK
BY DEF TypeInv, TypeOK, Shared, ListFits

(***************************************************************************)
(* A lookup that no other meets has Number_file and i for itself: it finds *)
(* in them what it left there.                                             *)
(***************************************************************************)
Alone(t) == th[t].alone => \A u \in Others(t) : ~InLookup(u)

\* The name is not among the first n that were read.
NotAmong(t, n) == \A k \in 1..n : th[t].filelist[k] # th[t].name

\* The whole list was read, as it was when the request came or later.
ReadWhole(t) == Number_file = Len(th[t].filelist) /\ th[t].before <= Number_file

\* The loop has not found the name yet; FAIL is sent behind the last name only.
Searched(t, n) ==
  /\ ReadWhole(t) /\ n <= Number_file /\ NotAmong(t, n)
  /\ th[t].replies \subseteq {"FAIL"}
  /\ th[t].replies # {} => NotAmong(t, Number_file)

\* The loop has stopped at the name.
Found(t) == ReadWhole(t) /\ i < Number_file /\ th[t].filelist[i + 1] = th[t].name

Undisturbed(t) ==
  /\ At(t, "read") => /\ th[t].h = 0 /\ th[t].replies = {}
                      /\ th[t].filelist # <<>> => Number_file = Len(th[t].filelist)
  /\ At(t, "number") => ReadWhole(t) /\ th[t].h = 0
  /\ At(t, "names") => ReadWhole(t) /\ th[t].number = Number_file /\ th[t].h <= Number_file
  /\ At(t, "reset") => ReadWhole(t) /\ th[t].replies = {}
  /\ At(t, "test") => Searched(t, i)
  /\ At(t, "compare") => Searched(t, i) /\ i < Number_file
  /\ th[t].pc \in {"last", "load", "store"} => Searched(t, i + 1)
  /\ At(t, "store") => th[t].tmp = i
  /\ th[t].pc \in {"open", "send"} => Found(t) /\ th[t].replies = {}
  /\ At(t, "print") => Found(t) /\ th[t].replies = {"file"}

Answered(t) ==
  /\ th[t].op = "get" =>
       /\ (\E k \in 1..th[t].before : Lista[k] = th[t].name) => th[t].replies \subseteq {"file", "warn"}
       /\ th[t].replies \cap {"file", "warn"} # {} => th[t].name \in ToSet(Lista)
  /\ th[t].op = "list" => th[t].number = th[t].h /\ th[t].h >= th[t].before

LookupGood(t) ==
  /\ InLookup(t) => Alone(t)
  /\ InLookup(t) /\ th[t].alone => Undisturbed(t)
  /\ At(t, "start") /\ th[t].alone => Answered(t)
  /\ At(t, "crashed") => ~th[t].alone \/ th[t].name \notin files

LookupInv == \A t \in Threads : LookupGood(t)

(***************************************************************************)
(* The uploads and the list.                                               *)
(***************************************************************************)
\* A file that is not in clash has one upload at a time and no get beside it.
OneUpload ==
  \A n \in Names \ clash : \A t \in Threads : Uploading(t, n) =>
    \A u \in Threads : (Uploading(u, n) => u = t) /\ ~Sending(u, n)

\* A listed name is found.
ListHolds == \A k \in DOMAIN Lista : strstr(elementi_lista, Spell[Lista[k]])

\* A file with contents is found, or its upload has still to look.
FileHolds ==
  \A n \in Names :
    \/ disk[n] = <<>> \/ strstr(elementi_lista, Spell[n])
    \/ \E t \in Threads : th[t].name = n /\ th[t].pc \in {"write", "check", "append"}

\* A name about to be appended is not listed yet.
AppendIsNew ==
  \A t \in Threads : At(t, "append") /\ th[t].name \notin clash => th[t].name \notin ToSet(Lista)

ListInv == OneUpload /\ ListHolds /\ FileHolds /\ AppendIsNew /\ ListedOnce

(***************************************************************************)
(* The blocks of a file.                                                   *)
(***************************************************************************)
\* An upload has emptied the file and written the blocks up to h.
UploadGood(t) ==
  th[t].name \notin clash =>
    /\ At(t, "size") => disk[th[t].name] = <<>> /\ th[t].h = 0
    /\ At(t, "write") => /\ Len(disk[th[t].name]) = th[t].h
                         /\ \A k \in 1..th[t].h : disk[th[t].name][k] = th[t].id

\* A get has sent the beginning of the file, and in the end all of it.
SentGood(t) ==
  th[t].name \notin clash /\ th[t].op = "get" =>
    /\ th[t].pc \in Reading \ {"send", "print"} => th[t].got = <<>>
    /\ At(t, "send") => /\ Len(th[t].got) <= Len(disk[th[t].name])
                        /\ \A k \in 1..Len(th[t].got) : th[t].got[k] = disk[th[t].name][k]
    /\ At(t, "print") => th[t].got = disk[th[t].name]

\* A file is of one upload.
Uniform(b) == \A j, k \in DOMAIN b : b[j] = b[k] /\ b[j] # Hole

BlockInv ==
  /\ OneUpload
  /\ \A t \in Threads : UploadGood(t) /\ SentGood(t)
  /\ \A n \in Names \ clash : Uniform(disk[n])

-----------------------------------------------------------------------------
(***************************************************************************)
(* What each step does to the thread that takes it.                        *)
(***************************************************************************)
Quiet == UNCHANGED <<Lista, disk, files, requests, clash>>

\* The step of a request under way.
Local(t) ==
  /\ th' \in [Threads -> Thread] /\ th'[t] \in Thread
  /\ \A u \in Others(t) : th'[u] = th[u]
  /\ th'[t].op = th[t].op /\ th'[t].name = th[t].name /\ th'[t].before = th[t].before
  /\ th'[t].alone = th[t].alone /\ th'[t].id = th[t].id

\* A file of which the k-th block is written.
Written(b, k, x) ==
  [j \in 1..(IF Len(b) < k THEN k ELSE Len(b)) |-> IF j = k THEN x ELSE IF j <= Len(b) THEN b[j] ELSE Hole]

LEMMA Record ==
  ASSUME TypeInv, NEW t \in Threads, NEW r \in Thread, th' = [th EXCEPT ![t] = r]
  PROVE  th' \in [Threads -> Thread] /\ th'[t] = r /\ \A u \in Others(t) : th'[u] = th[u]
BY DEF TypeInv, Others

LEMMA ReadNameEffect ==
  ASSUME TypeInv, NEW t \in Threads, ReadName(t)
  PROVE  /\ Local(t) /\ Up /\ th[t].pc = "read" /\ Quiet /\ i' = i
         /\ Number_file' = Len(th[t].filelist) + 1 /\ Number_file' \in 1..Len(Lista)
         /\ th'[t].pc = th[t].pc /\ th'[t].number = th[t].number /\ th'[t].h = th[t].h
         /\ th'[t].tmp = th[t].tmp /\ th'[t].got = th[t].got /\ th'[t].replies = th[t].replies
         /\ th'[t].filelist = Append(th[t].filelist, Lista[Len(th[t].filelist) + 1])
<1>1. th[t] \in Thread /\ Shared
  BY DEF TypeInv
<1>2. /\ Up /\ th[t].pc = "read" /\ Quiet /\ i' = i /\ Number_file' = Len(th[t].filelist) + 1
      /\ Number_file' \in 1..Len(Lista)
  <2>1. /\ Up /\ th[t].pc = "read" /\ Quiet /\ i' = i
        /\ Number_file' = Len(th[t].filelist) + 1 /\ Len(th[t].filelist) + 1 <= Len(Lista)
    BY DEF At, Quiet, ReadName
  <2>2. th[t].filelist \in Seq(Names) /\ Lista \in Seq(Names)
    BY <1>1 DEF Thread, Shared
  <2> QED
    BY <2>1, <2>2
<1>3. Append(th[t].filelist, Lista[Len(th[t].filelist) + 1]) \in Seq(Names)
  <2>1. th[t].filelist \in Seq(Names) /\ Lista \in Seq(Names)
    BY <1>1 DEF Thread, Shared
  <2> QED
    BY <1>2, <2>1
<1> DEFINE r == [th[t] EXCEPT !.filelist = Append(@, Lista[Len(@) + 1])]
<1>4. r \in Thread
  BY <1>1, <1>3 DEF Thread
<1>5. th' = [th EXCEPT ![t] = r]
  BY DEF TypeInv, ReadName
<1>6. /\ r.pc = th[t].pc /\ r.filelist = Append(th[t].filelist, Lista[Len(th[t].filelist) + 1])
      /\ r.number = th[t].number /\ r.h = th[t].h /\ r.tmp = th[t].tmp /\ r.got = th[t].got
      /\ r.replies = th[t].replies /\ r.op = th[t].op /\ r.name = th[t].name
      /\ r.before = th[t].before /\ r.alone = th[t].alone /\ r.id = th[t].id
  BY <1>1 DEF Thread
<1> HIDE DEF r
<1> QED
  BY <1>1, <1>2, <1>4, <1>5, <1>6, Record DEF Local

LEMMA EndOfListEffect ==
  ASSUME TypeInv, NEW t \in Threads, EndOfList(t)
  PROVE  /\ Local(t) /\ Up /\ th[t].pc = "read" /\ Quiet /\ Number_file' = Number_file
         /\ i' = i /\ Len(th[t].filelist) = Len(Lista) /\ th'[t].filelist = th[t].filelist
         /\ th'[t].number = th[t].number /\ th'[t].h = th[t].h /\ th'[t].tmp = th[t].tmp
         /\ th'[t].got = th[t].got /\ th'[t].replies = th[t].replies
         /\ th'[t].pc = (IF th[t].op = "list" THEN "number" ELSE "reset")
<1>1. th[t] \in Thread /\ Shared
  BY DEF TypeInv
<1>2. /\ Up /\ th[t].pc = "read" /\ Quiet /\ Number_file' = Number_file /\ i' = i
      /\ Len(th[t].filelist) = Len(Lista)
  BY <1>1 DEF At, Quiet, Shared, EndOfList
<1> DEFINE r == [th[t] EXCEPT !.pc = (IF th[t].op = "list" THEN "number" ELSE "reset")]
<1>4. r \in Thread
  BY <1>1 DEF Thread
<1>5. th' = [th EXCEPT ![t] = r]
  BY DEF TypeInv, EndOfList
<1>6. /\ r.pc = (IF th[t].op = "list" THEN "number" ELSE "reset")
      /\ r.filelist = th[t].filelist /\ r.number = th[t].number /\ r.h = th[t].h
      /\ r.tmp = th[t].tmp /\ r.got = th[t].got /\ r.replies = th[t].replies /\ r.op = th[t].op
      /\ r.name = th[t].name /\ r.before = th[t].before /\ r.alone = th[t].alone
      /\ r.id = th[t].id
  BY <1>1 DEF Thread
<1> HIDE DEF r
<1> QED
  BY <1>1, <1>2, <1>4, <1>5, <1>6, Record DEF Local

LEMMA SendNumberEffect ==
  ASSUME TypeInv, NEW t \in Threads, SendNumber(t)
  PROVE  /\ Local(t) /\ Up /\ th[t].pc = "number" /\ Quiet /\ Number_file' = Number_file
         /\ i' = i /\ th'[t].filelist = th[t].filelist /\ th'[t].h = th[t].h
         /\ th'[t].tmp = th[t].tmp /\ th'[t].got = th[t].got /\ th'[t].replies = th[t].replies
         /\ th'[t].pc = "names" /\ th'[t].number = Number_file
<1>1. th[t] \in Thread /\ Shared
  BY DEF TypeInv
<1>2. /\ Up /\ th[t].pc = "number" /\ Quiet /\ Number_file' = Number_file /\ i' = i
  BY <1>1 DEF At, Quiet, Shared, SendNumber
<1>3. Number_file \in Nat
  BY <1>1 DEF Shared
<1> DEFINE r == [th[t] EXCEPT !.pc = "names", !.number = Number_file]
<1>4. r \in Thread
  BY <1>1, <1>3 DEF Thread
<1>5. th' = [th EXCEPT ![t] = r]
  BY DEF TypeInv, SendNumber
<1>6. /\ r.pc = "names" /\ r.filelist = th[t].filelist /\ r.number = Number_file
      /\ r.h = th[t].h /\ r.tmp = th[t].tmp /\ r.got = th[t].got /\ r.replies = th[t].replies
      /\ r.op = th[t].op /\ r.name = th[t].name /\ r.before = th[t].before
      /\ r.alone = th[t].alone /\ r.id = th[t].id
  BY <1>1 DEF Thread
<1> HIDE DEF r
<1> QED
  BY <1>1, <1>2, <1>4, <1>5, <1>6, Record DEF Local

LEMMA SendNameEffect ==
  ASSUME TypeInv, NEW t \in Threads, SendName(t)
  PROVE  /\ Local(t) /\ Up /\ th[t].pc = "names" /\ Quiet /\ Number_file' = Number_file
         /\ i' = i /\ th'[t].filelist = th[t].filelist /\ th'[t].number = th[t].number
         /\ th'[t].tmp = th[t].tmp /\ th'[t].got = th[t].got /\ th'[t].replies = th[t].replies
         /\ \/ /\ th[t].h = Number_file /\ th'[t].pc = "start" /\ th'[t].h = th[t].h
            \/ /\ th[t].h # Number_file /\ th[t].h < Len(th[t].filelist)
               /\ th'[t].pc = th[t].pc /\ th'[t].h = th[t].h + 1
            \/ /\ th[t].h # Number_file /\ th[t].h >= Len(th[t].filelist)
               /\ th'[t].pc \in {"start", "crashed", "names"}
<1>1. th[t] \in Thread /\ Shared
  BY DEF TypeInv
<1>2. /\ Up /\ th[t].pc = "names" /\ Quiet /\ Number_file' = Number_file /\ i' = i
  BY <1>1 DEF At, Quiet, Shared, SendName
<1>3. th[t].h + 1 \in Nat
  BY <1>1 DEF Thread
<1>4. CASE th[t].h = Number_file /\ th' = [th EXCEPT ![t].pc = "start"]
  <2> DEFINE r == [th[t] EXCEPT !.pc = "start"]
  <2>1. r \in Thread
    BY <1>1, <1>3, <1>4 DEF Thread
  <2>2. th' = [th EXCEPT ![t] = r]
    BY <1>4 DEF TypeInv, SendName
  <2>3. /\ r.pc = "start" /\ r.filelist = th[t].filelist /\ r.number = th[t].number
        /\ r.h = th[t].h /\ r.tmp = th[t].tmp /\ r.got = th[t].got /\ r.replies = th[t].replies
        /\ r.op = th[t].op /\ r.name = th[t].name /\ r.before = th[t].before
        /\ r.alone = th[t].alone /\ r.id = th[t].id
    BY <1>1 DEF Thread
  <2> HIDE DEF r
  <2> QED
    BY <1>1, <1>2, <2>1, <2>2, <2>3, <1>4, Record DEF Local
<1>5. CASE th[t].h # Number_file /\ th' = [th EXCEPT ![t].h = @ + 1]
  <2> DEFINE r == [th[t] EXCEPT !.h = @ + 1]
  <2>1. r \in Thread
    BY <1>1, <1>3, <1>5 DEF Thread
  <2>2. th' = [th EXCEPT ![t] = r]
    BY <1>5 DEF TypeInv
  <2>3. /\ r.pc = th[t].pc /\ r.filelist = th[t].filelist /\ r.number = th[t].number
        /\ r.h = th[t].h + 1 /\ r.tmp = th[t].tmp /\ r.got = th[t].got
        /\ r.replies = th[t].replies /\ r.op = th[t].op /\ r.name = th[t].name
        /\ r.before = th[t].before /\ r.alone = th[t].alone /\ r.id = th[t].id
    BY <1>1 DEF Thread
  <2>4. Len(th[t].filelist) \in Nat /\ th[t].h \in Nat
    BY <1>1, LenProperties DEF Thread
  <2> HIDE DEF r
  <2>5. th'[t] = r /\ Local(t)
    BY <1>1, <1>2, <2>1, <2>2, <2>3, Record DEF Local
  <2>6. th[t].h < Len(th[t].filelist) \/ th[t].h >= Len(th[t].filelist)
    BY <2>4
  <2> QED
    BY <1>2, <1>5, <2>3, <2>5, <2>6
<1>6. CASE /\ th[t].h # Number_file /\ th[t].h >= Len(th[t].filelist)
           /\ \E x \in {"start", "crashed"} : th' = [th EXCEPT ![t].pc = x]
  <2>1. PICK x \in {"start", "crashed"} : th' = [th EXCEPT ![t].pc = x]
    BY <1>6
  <2> DEFINE r == [th[t] EXCEPT !.pc = x]
  <2>2. r \in Thread
    BY <1>1, <1>3, <1>6, <2>1 DEF Thread
  <2>3. th' = [th EXCEPT ![t] = r]
    BY <2>1 DEF TypeInv
  <2>4. /\ r.pc = x /\ r.filelist = th[t].filelist /\ r.number = th[t].number /\ r.h = th[t].h
        /\ r.tmp = th[t].tmp /\ r.got = th[t].got /\ r.replies = th[t].replies
        /\ r.op = th[t].op /\ r.name = th[t].name /\ r.before = th[t].before
        /\ r.alone = th[t].alone /\ r.id = th[t].id
    BY <1>1 DEF Thread
  <2> HIDE DEF r
  <2> QED
    BY <1>1, <1>2, <2>2, <2>3, <2>4, <1>6, <2>1, Record DEF Local
<1> QED
  BY <1>4, <1>5, <1>6 DEF SendName

LEMMA ResetIndexEffect ==
  ASSUME TypeInv, NEW t \in Threads, ResetIndex(t)
  PROVE  /\ Local(t) /\ Up /\ th[t].pc = "reset" /\ Quiet /\ Number_file' = Number_file
         /\ i' = 0 /\ th'[t].filelist = th[t].filelist /\ th'[t].number = th[t].number
         /\ th'[t].h = th[t].h /\ th'[t].tmp = th[t].tmp /\ th'[t].got = th[t].got
         /\ th'[t].replies = th[t].replies /\ th'[t].pc = "test"
<1>1. th[t] \in Thread /\ Shared
  BY DEF TypeInv
<1>2. /\ Up /\ th[t].pc = "reset" /\ Quiet /\ Number_file' = Number_file /\ i' = 0
  BY <1>1 DEF At, Quiet, Shared, ResetIndex
<1> DEFINE r == [th[t] EXCEPT !.pc = "test"]
<1>4. r \in Thread
  BY <1>1 DEF Thread
<1>5. th' = [th EXCEPT ![t] = r]
  BY DEF TypeInv, ResetIndex
<1>6. /\ r.pc = "test" /\ r.filelist = th[t].filelist /\ r.number = th[t].number
      /\ r.h = th[t].h /\ r.tmp = th[t].tmp /\ r.got = th[t].got /\ r.replies = th[t].replies
      /\ r.op = th[t].op /\ r.name = th[t].name /\ r.before = th[t].before
      /\ r.alone = th[t].alone /\ r.id = th[t].id
  BY <1>1 DEF Thread
<1> HIDE DEF r
<1> QED
  BY <1>1, <1>2, <1>4, <1>5, <1>6, Record DEF Local

LEMMA TestIndexEffect ==
  ASSUME TypeInv, NEW t \in Threads, TestIndex(t)
  PROVE  /\ Local(t) /\ Up /\ th[t].pc = "test" /\ Quiet /\ Number_file' = Number_file
         /\ i' = i /\ th'[t].filelist = th[t].filelist /\ th'[t].number = th[t].number
         /\ th'[t].h = th[t].h /\ th'[t].tmp = th[t].tmp /\ th'[t].got = th[t].got
         /\ \/ /\ i < Number_file /\ th'[t].pc = "compare" /\ th'[t].replies = th[t].replies
            \/ /\ ~(i < Number_file) /\ th'[t].pc = "start"
               /\ th'[t].replies = th[t].replies \cup {"invalid"}
<1>1. th[t] \in Thread /\ Shared
  BY DEF TypeInv
<1>2. /\ Up /\ th[t].pc = "test" /\ Quiet /\ Number_file' = Number_file /\ i' = i
  BY <1>1 DEF At, Quiet, Shared, TestIndex
<1>4. CASE i < Number_file
  <2> DEFINE r == [th[t] EXCEPT !.pc = "compare"]
  <2>1. r \in Thread
    BY <1>1, <1>4 DEF Thread
  <2>2. th' = [th EXCEPT ![t] = r]
    BY <1>4 DEF TypeInv, TestIndex
  <2>3. /\ r.pc = "compare" /\ r.filelist = th[t].filelist /\ r.number = th[t].number
        /\ r.h = th[t].h /\ r.tmp = th[t].tmp /\ r.got = th[t].got /\ r.replies = th[t].replies
        /\ r.op = th[t].op /\ r.name = th[t].name /\ r.before = th[t].before
        /\ r.alone = th[t].alone /\ r.id = th[t].id
    BY <1>1 DEF Thread
  <2> HIDE DEF r
  <2> QED
    BY <1>1, <1>2, <2>1, <2>2, <2>3, <1>4, Record DEF Local
<1>5. CASE ~(i < Number_file)
  <2> DEFINE r == [th[t] EXCEPT !.pc = "start", !.replies = @ \cup {"invalid"}]
  <2>1. r \in Thread
    BY <1>1, <1>5 DEF Thread
  <2>2. th' = [th EXCEPT ![t] = r]
    BY <1>5 DEF TypeInv, TestIndex
  <2>3. /\ r.pc = "start" /\ r.filelist = th[t].filelist /\ r.number = th[t].number
        /\ r.h = th[t].h /\ r.tmp = th[t].tmp /\ r.got = th[t].got
        /\ r.replies = th[t].replies \cup {"invalid"} /\ r.op = th[t].op /\ r.name = th[t].name
        /\ r.before = th[t].before /\ r.alone = th[t].alone /\ r.id = th[t].id
    BY <1>1 DEF Thread
  <2> HIDE DEF r
  <2> QED
    BY <1>1, <1>2, <2>1, <2>2, <2>3, <1>5, Record DEF Local
<1> QED
  BY <1>4, <1>5 DEF TestIndex

LEMMA CompareEffect ==
  ASSUME TypeInv, NEW t \in Threads, Compare(t)
  PROVE  /\ Local(t) /\ Up /\ th[t].pc = "compare" /\ Quiet /\ Number_file' = Number_file
         /\ i' = i /\ th'[t].filelist = th[t].filelist /\ th'[t].number = th[t].number
         /\ th'[t].h = th[t].h /\ th'[t].tmp = th[t].tmp /\ th'[t].got = th[t].got
         /\ th'[t].replies = th[t].replies
         /\ \/ /\ i < Len(th[t].filelist) /\ th[t].filelist[i + 1] = th[t].name
               /\ th'[t].pc = "open"
            \/ /\ i < Len(th[t].filelist) /\ th[t].filelist[i + 1] # th[t].name
               /\ th'[t].pc = "last"
            \/ /\ i >= Len(th[t].filelist) /\ th'[t].pc \in {"last", "crashed"}
<1>1. th[t] \in Thread /\ Shared
  BY DEF TypeInv
<1>2. /\ Up /\ th[t].pc = "compare" /\ Quiet /\ Number_file' = Number_file /\ i' = i
  BY <1>1 DEF At, Quiet, Shared, Compare
<1>4. CASE /\ i < Len(th[t].filelist) /\ th[t].filelist[i + 1] = th[t].name
           /\ th' = [th EXCEPT ![t].pc = "open"]
  <2> DEFINE r == [th[t] EXCEPT !.pc = "open"]
  <2>1. r \in Thread
    BY <1>1, <1>4 DEF Thread
  <2>2. th' = [th EXCEPT ![t] = r]
    BY <1>4 DEF TypeInv, Compare
  <2>3. /\ r.pc = "open" /\ r.filelist = th[t].filelist /\ r.number = th[t].number
        /\ r.h = th[t].h /\ r.tmp = th[t].tmp /\ r.got = th[t].got /\ r.replies = th[t].replies
        /\ r.op = th[t].op /\ r.name = th[t].name /\ r.before = th[t].before
        /\ r.alone = th[t].alone /\ r.id = th[t].id
    BY <1>1 DEF Thread
  <2> HIDE DEF r
  <2> QED
    BY <1>1, <1>2, <2>1, <2>2, <2>3, <1>4, Record DEF Local
<1>5. CASE /\ i < Len(th[t].filelist) /\ th[t].filelist[i + 1] # th[t].name
           /\ th' = [th EXCEPT ![t].pc = "last"]
  <2> DEFINE r == [th[t] EXCEPT !.pc = "last"]
  <2>1. r \in Thread
    BY <1>1, <1>5 DEF Thread
  <2>2. th' = [th EXCEPT ![t] = r]
    BY <1>5 DEF TypeInv, Compare
  <2>3. /\ r.pc = "last" /\ r.filelist = th[t].filelist /\ r.number = th[t].number
        /\ r.h = th[t].h /\ r.tmp = th[t].tmp /\ r.got = th[t].got /\ r.replies = th[t].replies
        /\ r.op = th[t].op /\ r.name = th[t].name /\ r.before = th[t].before
        /\ r.alone = th[t].alone /\ r.id = th[t].id
    BY <1>1 DEF Thread
  <2> HIDE DEF r
  <2> QED
    BY <1>1, <1>2, <2>1, <2>2, <2>3, <1>5, Record DEF Local
<1>6. CASE /\ i >= Len(th[t].filelist)
           /\ \E x \in {"last", "crashed"} : th' = [th EXCEPT ![t].pc = x]
  <2>1. PICK x \in {"last", "crashed"} : th' = [th EXCEPT ![t].pc = x]
    BY <1>6
  <2> DEFINE r == [th[t] EXCEPT !.pc = x]
  <2>2. r \in Thread
    BY <1>1, <1>6, <2>1 DEF Thread
  <2>3. th' = [th EXCEPT ![t] = r]
    BY <2>1 DEF TypeInv
  <2>4. /\ r.pc = x /\ r.filelist = th[t].filelist /\ r.number = th[t].number /\ r.h = th[t].h
        /\ r.tmp = th[t].tmp /\ r.got = th[t].got /\ r.replies = th[t].replies
        /\ r.op = th[t].op /\ r.name = th[t].name /\ r.before = th[t].before
        /\ r.alone = th[t].alone /\ r.id = th[t].id
    BY <1>1 DEF Thread
  <2> HIDE DEF r
  <2> QED
    BY <1>1, <1>2, <2>2, <2>3, <2>4, <1>6, <2>1, Record DEF Local
<1> QED
  BY <1>4, <1>5, <1>6 DEF Compare

LEMMA TestLastEffect ==
  ASSUME TypeInv, NEW t \in Threads, TestLast(t)
  PROVE  /\ Local(t) /\ Up /\ th[t].pc = "last" /\ Quiet /\ Number_file' = Number_file
         /\ i' = i /\ th'[t].filelist = th[t].filelist /\ th'[t].number = th[t].number
         /\ th'[t].h = th[t].h /\ th'[t].tmp = th[t].tmp /\ th'[t].got = th[t].got
         /\ th'[t].pc = "load"
         /\ th'[t].replies = th[t].replies \cup {y \in {"FAIL"} : i + 1 = Number_file}
<1>1. th[t] \in Thread /\ Shared
  BY DEF TypeInv
<1>2. /\ Up /\ th[t].pc = "last" /\ Quiet /\ Number_file' = Number_file /\ i' = i
  BY <1>1 DEF At, Quiet, Shared, TestLast
<1> DEFINE r == [th[t] EXCEPT !.pc = "load", !.replies = @ \cup {y \in {"FAIL"} : i + 1 = Number_file}]
<1>4. r \in Thread
  BY <1>1 DEF Thread
<1>5. th' = [th EXCEPT ![t] = r]
  BY DEF TypeInv, TestLast
<1>6. /\ r.pc = "load" /\ r.filelist = th[t].filelist /\ r.number = th[t].number
      /\ r.h = th[t].h /\ r.tmp = th[t].tmp /\ r.got = th[t].got
      /\ r.replies = th[t].replies \cup {y \in {"FAIL"} : i + 1 = Number_file}
      /\ r.op = th[t].op /\ r.name = th[t].name /\ r.before = th[t].before
      /\ r.alone = th[t].alone /\ r.id = th[t].id
  BY <1>1 DEF Thread
<1> HIDE DEF r
<1> QED
  BY <1>1, <1>2, <1>4, <1>5, <1>6, Record DEF Local

LEMMA LoadIndexEffect ==
  ASSUME TypeInv, NEW t \in Threads, LoadIndex(t)
  PROVE  /\ Local(t) /\ Up /\ th[t].pc = "load" /\ Quiet /\ Number_file' = Number_file
         /\ i' = i /\ th'[t].filelist = th[t].filelist /\ th'[t].number = th[t].number
         /\ th'[t].h = th[t].h /\ th'[t].got = th[t].got /\ th'[t].replies = th[t].replies
         /\ th'[t].pc = "store" /\ th'[t].tmp = i
<1>1. th[t] \in Thread /\ Shared
  BY DEF TypeInv
<1>2. /\ Up /\ th[t].pc = "load" /\ Quiet /\ Number_file' = Number_file /\ i' = i
  BY <1>1 DEF At, Quiet, Shared, LoadIndex
<1>3. i \in Nat
  BY <1>1 DEF Shared
<1> DEFINE r == [th[t] EXCEPT !.pc = "store", !.tmp = i]
<1>4. r \in Thread
  BY <1>1, <1>3 DEF Thread
<1>5. th' = [th EXCEPT ![t] = r]
  BY DEF TypeInv, LoadIndex
<1>6. /\ r.pc = "store" /\ r.filelist = th[t].filelist /\ r.number = th[t].number
      /\ r.h = th[t].h /\ r.tmp = i /\ r.got = th[t].got /\ r.replies = th[t].replies
      /\ r.op = th[t].op /\ r.name = th[t].name /\ r.before = th[t].before
      /\ r.alone = th[t].alone /\ r.id = th[t].id
  BY <1>1 DEF Thread
<1> HIDE DEF r
<1> QED
  BY <1>1, <1>2, <1>4, <1>5, <1>6, Record DEF Local

LEMMA StoreIndexEffect ==
  ASSUME TypeInv, NEW t \in Threads, StoreIndex(t)
  PROVE  /\ Local(t) /\ Up /\ th[t].pc = "store" /\ Quiet /\ Number_file' = Number_file
         /\ i' = th[t].tmp + 1 /\ th'[t].filelist = th[t].filelist
         /\ th'[t].number = th[t].number /\ th'[t].h = th[t].h /\ th'[t].tmp = th[t].tmp
         /\ th'[t].got = th[t].got /\ th'[t].replies = th[t].replies /\ th'[t].pc = "test"
<1>1. th[t] \in Thread /\ Shared
  BY DEF TypeInv
<1>2. /\ Up /\ th[t].pc = "store" /\ Quiet /\ Number_file' = Number_file /\ i' = th[t].tmp + 1
  BY <1>1 DEF At, Quiet, Shared, StoreIndex
<1> DEFINE r == [th[t] EXCEPT !.pc = "test"]
<1>4. r \in Thread
  BY <1>1 DEF Thread
<1>5. th' = [th EXCEPT ![t] = r]
  BY DEF TypeInv, StoreIndex
<1>6. /\ r.pc = "test" /\ r.filelist = th[t].filelist /\ r.number = th[t].number
      /\ r.h = th[t].h /\ r.tmp = th[t].tmp /\ r.got = th[t].got /\ r.replies = th[t].replies
      /\ r.op = th[t].op /\ r.name = th[t].name /\ r.before = th[t].before
      /\ r.alone = th[t].alone /\ r.id = th[t].id
  BY <1>1 DEF Thread
<1> HIDE DEF r
<1> QED
  BY <1>1, <1>2, <1>4, <1>5, <1>6, Record DEF Local

LEMMA OpenFileEffect ==
  ASSUME TypeInv, NEW t \in Threads, OpenFile(t)
  PROVE  /\ Local(t) /\ Up /\ th[t].pc = "open" /\ Quiet /\ Number_file' = Number_file
         /\ i' = i /\ th'[t].filelist = th[t].filelist /\ th'[t].number = th[t].number
         /\ th'[t].h = th[t].h /\ th'[t].tmp = th[t].tmp /\ th'[t].got = th[t].got
         /\ \/ /\ th[t].name \notin files /\ th'[t].pc = "crashed"
               /\ th'[t].replies = th[t].replies
            \/ /\ th[t].name \in files /\ disk[th[t].name] = <<>> /\ th'[t].pc = "start"
               /\ th'[t].replies = th[t].replies \cup {"warn"}
            \/ /\ th[t].name \in files /\ disk[th[t].name] # <<>> /\ th'[t].pc = "send"
               /\ th'[t].replies = th[t].replies
<1>1. th[t] \in Thread /\ Shared
  BY DEF TypeInv
<1>2. /\ Up /\ th[t].pc = "open" /\ Quiet /\ Number_file' = Number_file /\ i' = i
  BY <1>1 DEF At, Quiet, Shared, OpenFile
<1>4. CASE th[t].name \notin files
  <2> DEFINE r == [th[t] EXCEPT !.pc = "crashed"]
  <2>1. r \in Thread
    BY <1>1, <1>4 DEF Thread
  <2>2. th' = [th EXCEPT ![t] = r]
    BY <1>4 DEF TypeInv, OpenFile
  <2>3. /\ r.pc = "crashed" /\ r.filelist = th[t].filelist /\ r.number = th[t].number
        /\ r.h = th[t].h /\ r.tmp = th[t].tmp /\ r.got = th[t].got /\ r.replies = th[t].replies
        /\ r.op = th[t].op /\ r.name = th[t].name /\ r.before = th[t].before
        /\ r.alone = th[t].alone /\ r.id = th[t].id
    BY <1>1 DEF Thread
  <2> HIDE DEF r
  <2> QED
    BY <1>1, <1>2, <2>1, <2>2, <2>3, <1>4, Record DEF Local
<1>5. CASE th[t].name \in files /\ disk[th[t].name] = <<>>
  <2> DEFINE r == [th[t] EXCEPT !.pc = "start", !.replies = @ \cup {"warn"}]
  <2>1. r \in Thread
    BY <1>1, <1>5 DEF Thread
  <2>2. th' = [th EXCEPT ![t] = r]
    BY <1>5 DEF TypeInv, OpenFile
  <2>3. /\ r.pc = "start" /\ r.filelist = th[t].filelist /\ r.number = th[t].number
        /\ r.h = th[t].h /\ r.tmp = th[t].tmp /\ r.got = th[t].got
        /\ r.replies = th[t].replies \cup {"warn"} /\ r.op = th[t].op /\ r.name = th[t].name
        /\ r.before = th[t].before /\ r.alone = th[t].alone /\ r.id = th[t].id
    BY <1>1 DEF Thread
  <2> HIDE DEF r
  <2> QED
    BY <1>1, <1>2, <2>1, <2>2, <2>3, <1>5, Record DEF Local
<1>6. CASE th[t].name \in files /\ disk[th[t].name] # <<>>
  <2> DEFINE r == [th[t] EXCEPT !.pc = "send"]
  <2>1. r \in Thread
    BY <1>1, <1>6 DEF Thread
  <2>2. th' = [th EXCEPT ![t] = r]
    BY <1>6 DEF TypeInv, OpenFile
  <2>3. /\ r.pc = "send" /\ r.filelist = th[t].filelist /\ r.number = th[t].number
        /\ r.h = th[t].h /\ r.tmp = th[t].tmp /\ r.got = th[t].got /\ r.replies = th[t].replies
        /\ r.op = th[t].op /\ r.name = th[t].name /\ r.before = th[t].before
        /\ r.alone = th[t].alone /\ r.id = th[t].id
    BY <1>1 DEF Thread
  <2> HIDE DEF r
  <2> QED
    BY <1>1, <1>2, <2>1, <2>2, <2>3, <1>6, Record DEF Local
<1> QED
  BY <1>4, <1>5, <1>6 DEF OpenFile

LEMMA SendBlockEffect ==
  ASSUME TypeInv, NEW t \in Threads, SendBlock(t)
  PROVE  /\ Local(t) /\ Up /\ th[t].pc = "send" /\ Quiet /\ Number_file' = Number_file
         /\ i' = i /\ th'[t].filelist = th[t].filelist /\ th'[t].number = th[t].number
         /\ th'[t].h = th[t].h /\ th'[t].tmp = th[t].tmp
         /\ \/ /\ Len(th[t].got) + 1 <= Len(disk[th[t].name]) /\ th'[t].pc = th[t].pc
               /\ th'[t].got = Append(th[t].got, disk[th[t].name][Len(th[t].got) + 1])
               /\ th'[t].replies = th[t].replies
            \/ /\ ~(Len(th[t].got) + 1 <= Len(disk[th[t].name])) /\ th'[t].pc = "print"
               /\ th'[t].got = th[t].got /\ th'[t].replies = th[t].replies \cup {"file"}
<1>1. th[t] \in Thread /\ Shared
  BY DEF TypeInv
<1>2. /\ Up /\ th[t].pc = "send" /\ Quiet /\ Number_file' = Number_file /\ i' = i
  BY <1>1 DEF At, Quiet, Shared, SendBlock
<1>3. Len(th[t].got) + 1 <= Len(disk[th[t].name]) =>
        Append(th[t].got, disk[th[t].name][Len(th[t].got) + 1]) \in Seq(Block)
  <2>1. th[t].got \in Seq(Block) /\ th[t].name \in Names
    BY <1>1 DEF Thread
  <2>2. disk[th[t].name] \in Seq(Block)
    BY <1>1, <2>1 DEF Shared
  <2> QED
    BY <2>1, <2>2
<1>4. CASE Len(th[t].got) + 1 <= Len(disk[th[t].name])
  <2> DEFINE r == [th[t] EXCEPT !.got = Append(@, disk[th[t].name][Len(@) + 1])]
  <2>1. r \in Thread
    BY <1>1, <1>3, <1>4 DEF Thread
  <2>2. th' = [th EXCEPT ![t] = r]
    BY <1>4 DEF TypeInv, SendBlock
  <2>3. /\ r.pc = th[t].pc /\ r.filelist = th[t].filelist /\ r.number = th[t].number
        /\ r.h = th[t].h /\ r.tmp = th[t].tmp
        /\ r.got = Append(th[t].got, disk[th[t].name][Len(th[t].got) + 1])
        /\ r.replies = th[t].replies /\ r.op = th[t].op /\ r.name = th[t].name
        /\ r.before = th[t].before /\ r.alone = th[t].alone /\ r.id = th[t].id
    BY <1>1 DEF Thread
  <2> HIDE DEF r
  <2> QED
    BY <1>1, <1>2, <2>1, <2>2, <2>3, <1>4, Record DEF Local
<1>5. CASE ~(Len(th[t].got) + 1 <= Len(disk[th[t].name]))
  <2> DEFINE r == [th[t] EXCEPT !.pc = "print", !.replies = @ \cup {"file"}]
  <2>1. r \in Thread
    BY <1>1, <1>3, <1>5 DEF Thread
  <2>2. th' = [th EXCEPT ![t] = r]
    BY <1>5 DEF TypeInv, SendBlock
  <2>3. /\ r.pc = "print" /\ r.filelist = th[t].filelist /\ r.number = th[t].number
        /\ r.h = th[t].h /\ r.tmp = th[t].tmp /\ r.got = th[t].got
        /\ r.replies = th[t].replies \cup {"file"} /\ r.op = th[t].op /\ r.name = th[t].name
        /\ r.before = th[t].before /\ r.alone = th[t].alone /\ r.id = th[t].id
    BY <1>1 DEF Thread
  <2> HIDE DEF r
  <2> QED
    BY <1>1, <1>2, <2>1, <2>2, <2>3, <1>5, Record DEF Local
<1> QED
  BY <1>4, <1>5 DEF SendBlock

LEMMA PrintNameEffect ==
  ASSUME TypeInv, NEW t \in Threads, PrintName(t)
  PROVE  /\ Local(t) /\ Up /\ th[t].pc = "print" /\ Quiet /\ Number_file' = Number_file
         /\ i' = i /\ th'[t].filelist = th[t].filelist /\ th'[t].number = th[t].number
         /\ th'[t].h = th[t].h /\ th'[t].tmp = th[t].tmp /\ th'[t].got = th[t].got
         /\ th'[t].replies = th[t].replies
         /\ \/ /\ i < Len(th[t].filelist) /\ th'[t].pc = "start"
            \/ /\ i >= Len(th[t].filelist) /\ th'[t].pc \in {"start", "crashed"}
<1>1. th[t] \in Thread /\ Shared
  BY DEF TypeInv
<1>2. /\ Up /\ th[t].pc = "print" /\ Quiet /\ Number_file' = Number_file /\ i' = i
  BY <1>1 DEF At, Quiet, Shared, PrintName
<1>4. CASE i < Len(th[t].filelist) /\ th' = [th EXCEPT ![t].pc = "start"]
  <2> DEFINE r == [th[t] EXCEPT !.pc = "start"]
  <2>1. r \in Thread
    BY <1>1, <1>4 DEF Thread
  <2>2. th' = [th EXCEPT ![t] = r]
    BY <1>4 DEF TypeInv, PrintName
  <2>3. /\ r.pc = "start" /\ r.filelist = th[t].filelist /\ r.number = th[t].number
        /\ r.h = th[t].h /\ r.tmp = th[t].tmp /\ r.got = th[t].got /\ r.replies = th[t].replies
        /\ r.op = th[t].op /\ r.name = th[t].name /\ r.before = th[t].before
        /\ r.alone = th[t].alone /\ r.id = th[t].id
    BY <1>1 DEF Thread
  <2> HIDE DEF r
  <2> QED
    BY <1>1, <1>2, <2>1, <2>2, <2>3, <1>4, Record DEF Local
<1>5. CASE /\ i >= Len(th[t].filelist)
           /\ \E x \in {"start", "crashed"} : th' = [th EXCEPT ![t].pc = x]
  <2>1. PICK x \in {"start", "crashed"} : th' = [th EXCEPT ![t].pc = x]
    BY <1>5
  <2> DEFINE r == [th[t] EXCEPT !.pc = x]
  <2>2. r \in Thread
    BY <1>1, <1>5, <2>1 DEF Thread
  <2>3. th' = [th EXCEPT ![t] = r]
    BY <2>1 DEF TypeInv
  <2>4. /\ r.pc = x /\ r.filelist = th[t].filelist /\ r.number = th[t].number /\ r.h = th[t].h
        /\ r.tmp = th[t].tmp /\ r.got = th[t].got /\ r.replies = th[t].replies
        /\ r.op = th[t].op /\ r.name = th[t].name /\ r.before = th[t].before
        /\ r.alone = th[t].alone /\ r.id = th[t].id
    BY <1>1 DEF Thread
  <2> HIDE DEF r
  <2> QED
    BY <1>1, <1>2, <2>2, <2>3, <2>4, <1>5, <2>1, Record DEF Local
<1> QED
  <2>1. CASE i < Len(th[t].filelist)
    BY <1>4, <2>1 DEF PrintName
  <2>2. CASE ~(i < Len(th[t].filelist))
    <3>1. i >= Len(th[t].filelist)
      BY <1>1, <2>2 DEF Shared, Thread
    <3>2. PICK g \in Garbage : th' = [th EXCEPT ![t].pc = IF g = "bytes" THEN "crashed" ELSE "start"]
      BY <2>2 DEF PrintName
    <3> QED
      BY <1>5, <3>1, <3>2
  <2> QED
    BY <2>1, <2>2

LEMMA ReadSizeEffect ==
  ASSUME TypeInv, NEW t \in Threads, ReadSize(t)
  PROVE  /\ Local(t) /\ Up /\ th[t].pc = "size" /\ Quiet /\ Number_file' = Number_file
         /\ i' = i /\ th'[t].filelist = th[t].filelist /\ th'[t].number = th[t].number
         /\ th'[t].h = th[t].h /\ th'[t].tmp = th[t].tmp /\ th'[t].got = th[t].got
         /\ th'[t].replies = th[t].replies
         /\ th'[t].pc \in {"write", "start"}
<1>1. th[t] \in Thread /\ Shared
  BY DEF TypeInv
<1>2. /\ Up /\ th[t].pc = "size" /\ Quiet /\ Number_file' = Number_file /\ i' = i
  BY <1>1 DEF At, Quiet, Shared, ReadSize
<1>4. CASE \E x \in {"write", "start"} : th' = [th EXCEPT ![t].pc = x]
  <2>1. PICK x \in {"write", "start"} : th' = [th EXCEPT ![t].pc = x]
    BY <1>4
  <2> DEFINE r == [th[t] EXCEPT !.pc = x]
  <2>2. r \in Thread
    BY <1>1, <1>4, <2>1 DEF Thread
  <2>3. th' = [th EXCEPT ![t] = r]
    BY <2>1 DEF TypeInv
  <2>4. /\ r.pc = x /\ r.filelist = th[t].filelist /\ r.number = th[t].number /\ r.h = th[t].h
        /\ r.tmp = th[t].tmp /\ r.got = th[t].got /\ r.replies = th[t].replies
        /\ r.op = th[t].op /\ r.name = th[t].name /\ r.before = th[t].before
        /\ r.alone = th[t].alone /\ r.id = th[t].id
    BY <1>1 DEF Thread
  <2> HIDE DEF r
  <2> QED
    BY <1>1, <1>2, <2>2, <2>3, <2>4, <1>4, <2>1, Record DEF Local
<1> QED
  BY <1>4 DEF ReadSize

LEMMA WriteBlockEffect ==
  ASSUME TypeInv, NEW t \in Threads, WriteBlock(t)
  PROVE  /\ Local(t) /\ Up /\ th[t].pc = "write" /\ UNCHANGED <<Lista, files, requests, clash>>
         /\ Number_file' = Number_file /\ i' = i /\ th[t].h < FileLen
         /\ disk' = [disk EXCEPT ![th[t].name] = Written(@, th[t].h + 1, th[t].id)]
         /\ th'[t].pc = th[t].pc /\ th'[t].filelist = th[t].filelist
         /\ th'[t].number = th[t].number /\ th'[t].tmp = th[t].tmp /\ th'[t].got = th[t].got
         /\ th'[t].replies = th[t].replies /\ th'[t].h = th[t].h + 1
<1>1. th[t] \in Thread /\ Shared
  BY DEF TypeInv
<1>2. /\ Up /\ th[t].pc = "write" /\ UNCHANGED <<Lista, files, requests, clash>>
      /\ Number_file' = Number_file /\ i' = i /\ th[t].h < FileLen
      /\ disk' = [disk EXCEPT ![th[t].name] = Written(@, th[t].h + 1, th[t].id)]
  BY <1>1, Zenon DEF At, Written, WriteBlock
<1>3. th[t].h + 1 \in Nat
  BY <1>1 DEF Thread
<1> DEFINE r == [th[t] EXCEPT !.h = @ + 1]
<1>4. r \in Thread
  BY <1>1, <1>3 DEF Thread
<1>5. th' = [th EXCEPT ![t] = r]
  BY DEF TypeInv, WriteBlock
<1>6. /\ r.pc = th[t].pc /\ r.filelist = th[t].filelist /\ r.number = th[t].number
      /\ r.h = th[t].h + 1 /\ r.tmp = th[t].tmp /\ r.got = th[t].got
      /\ r.replies = th[t].replies /\ r.op = th[t].op /\ r.name = th[t].name
      /\ r.before = th[t].before /\ r.alone = th[t].alone /\ r.id = th[t].id
  BY <1>1 DEF Thread
<1> HIDE DEF r
<1> QED
  BY <1>1, <1>2, <1>4, <1>5, <1>6, Record DEF Local

LEMMA EndOfUploadEffect ==
  ASSUME TypeInv, NEW t \in Threads, EndOfUpload(t)
  PROVE  /\ Local(t) /\ Up /\ th[t].pc = "write" /\ Quiet /\ Number_file' = Number_file
         /\ i' = i /\ th'[t].filelist = th[t].filelist /\ th'[t].number = th[t].number
         /\ th'[t].h = th[t].h /\ th'[t].tmp = th[t].tmp /\ th'[t].got = th[t].got
         /\ th'[t].replies = th[t].replies /\ th'[t].pc = "check"
<1>1. th[t] \in Thread /\ Shared
  BY DEF TypeInv
<1>2. /\ Up /\ th[t].pc = "write" /\ Quiet /\ Number_file' = Number_file /\ i' = i
  BY <1>1 DEF At, Quiet, Shared, EndOfUpload
<1> DEFINE r == [th[t] EXCEPT !.pc = "check"]
<1>4. r \in Thread
  BY <1>1 DEF Thread
<1>5. th' = [th EXCEPT ![t] = r]
  BY DEF TypeInv, EndOfUpload
<1>6. /\ r.pc = "check" /\ r.filelist = th[t].filelist /\ r.number = th[t].number
      /\ r.h = th[t].h /\ r.tmp = th[t].tmp /\ r.got = th[t].got /\ r.replies = th[t].replies
      /\ r.op = th[t].op /\ r.name = th[t].name /\ r.before = th[t].before
      /\ r.alone = th[t].alone /\ r.id = th[t].id
  BY <1>1 DEF Thread
<1> HIDE DEF r
<1> QED
  BY <1>1, <1>2, <1>4, <1>5, <1>6, Record DEF Local

LEMMA CheckListEffect ==
  ASSUME TypeInv, NEW t \in Threads, CheckList(t)
  PROVE  /\ Local(t) /\ Up /\ th[t].pc = "check" /\ Quiet /\ Number_file' = Number_file
         /\ i' = i /\ th'[t].filelist = th[t].filelist /\ th'[t].number = th[t].number
         /\ th'[t].h = th[t].h /\ th'[t].tmp = th[t].tmp /\ th'[t].got = th[t].got
         /\ th'[t].replies = th[t].replies
         /\ \/ /\ strstr(elementi_lista, Spell[th[t].name]) /\ th'[t].pc = "start"
            \/ /\ ~strstr(elementi_lista, Spell[th[t].name]) /\ th'[t].pc = "append"
<1>1. th[t] \in Thread /\ Shared
  BY DEF TypeInv
<1>2. /\ Up /\ th[t].pc = "check" /\ Quiet /\ Number_file' = Number_file /\ i' = i
  BY <1>1 DEF At, Quiet, Shared, CheckList
<1>4. CASE controllo_se_esiste_in_lista(th[t].name)
  <2> DEFINE r == [th[t] EXCEPT !.pc = "start"]
  <2>1. r \in Thread
    BY <1>1, <1>4 DEF Thread
  <2>2. th' = [th EXCEPT ![t] = r]
    BY <1>4 DEF TypeInv, CheckList, controllo_se_esiste_in_lista
  <2>3. /\ r.pc = "start" /\ r.filelist = th[t].filelist /\ r.number = th[t].number
        /\ r.h = th[t].h /\ r.tmp = th[t].tmp /\ r.got = th[t].got /\ r.replies = th[t].replies
        /\ r.op = th[t].op /\ r.name = th[t].name /\ r.before = th[t].before
        /\ r.alone = th[t].alone /\ r.id = th[t].id
    BY <1>1 DEF Thread
  <2> HIDE DEF r
  <2> QED
    BY <1>1, <1>2, <2>1, <2>2, <2>3, <1>4, Record DEF Local, controllo_se_esiste_in_lista
<1>5. CASE ~controllo_se_esiste_in_lista(th[t].name)
  <2> DEFINE r == [th[t] EXCEPT !.pc = "append"]
  <2>1. r \in Thread
    BY <1>1, <1>5 DEF Thread
  <2>2. th' = [th EXCEPT ![t] = r]
    BY <1>5 DEF TypeInv, CheckList, controllo_se_esiste_in_lista
  <2>3. /\ r.pc = "append" /\ r.filelist = th[t].filelist /\ r.number = th[t].number
        /\ r.h = th[t].h /\ r.tmp = th[t].tmp /\ r.got = th[t].got /\ r.replies = th[t].replies
        /\ r.op = th[t].op /\ r.name = th[t].name /\ r.before = th[t].before
        /\ r.alone = th[t].alone /\ r.id = th[t].id
    BY <1>1 DEF Thread
  <2> HIDE DEF r
  <2> QED
    BY <1>1, <1>2, <2>1, <2>2, <2>3, <1>5, Record DEF Local, controllo_se_esiste_in_lista
<1> QED
  BY <1>4, <1>5 DEF CheckList, controllo_se_esiste_in_lista

LEMMA AppendToListEffect ==
  ASSUME TypeInv, NEW t \in Threads, AppendToList(t)
  PROVE  /\ Local(t) /\ Up /\ th[t].pc = "append" /\ UNCHANGED <<disk, files, requests, clash>>
         /\ Number_file' = Number_file /\ i' = i /\ Lista' = Append(Lista, th[t].name)
         /\ th'[t].filelist = th[t].filelist /\ th'[t].number = th[t].number
         /\ th'[t].h = th[t].h /\ th'[t].tmp = th[t].tmp /\ th'[t].got = th[t].got
         /\ th'[t].replies = th[t].replies /\ th'[t].pc = "start"
<1>1. th[t] \in Thread /\ Shared
  BY DEF TypeInv
<1>2. /\ Up /\ th[t].pc = "append" /\ UNCHANGED <<disk, files, requests, clash>>
      /\ Number_file' = Number_file /\ i' = i /\ Lista' = Append(Lista, th[t].name)
  BY <1>1 DEF At, Quiet, Shared, AppendToList
<1> DEFINE r == [th[t] EXCEPT !.pc = "start"]
<1>4. r \in Thread
  BY <1>1 DEF Thread
<1>5. th' = [th EXCEPT ![t] = r]
  BY DEF TypeInv, AppendToList
<1>6. /\ r.pc = "start" /\ r.filelist = th[t].filelist /\ r.number = th[t].number
      /\ r.h = th[t].h /\ r.tmp = th[t].tmp /\ r.got = th[t].got /\ r.replies = th[t].replies
      /\ r.op = th[t].op /\ r.name = th[t].name /\ r.before = th[t].before
      /\ r.alone = th[t].alone /\ r.id = th[t].id
  BY <1>1 DEF Thread
<1> HIDE DEF r
<1> QED
  BY <1>1, <1>2, <1>4, <1>5, <1>6, Record DEF Local

\* A new upload.
LEMMA IdleTypes == Idle \in Thread
<1>1. (CHOOSE n \in Names : TRUE) \in Names
  BY SpellAssumption DEF Names
<1>2. <<>> \in Seq(Names) /\ <<>> \in Seq(Block)
  OBVIOUS
<1> QED
  BY <1>1, <1>2 DEF Idle, Thread

LEMMA StartPutEffect ==
  ASSUME TypeInv, NEW t \in Threads, NEW n \in Names, StartPut(t, n)
  PROVE  /\ requests' = requests + 1 /\ requests < MaxRequests
         /\ Lista' = Lista /\ Number_file' = Number_file /\ i' = i /\ files' = files \cup {n}
         /\ disk' = [disk EXCEPT ![n] = <<>>]
         /\ clash' = clash \cup {m \in {n} : \E u \in Others(t) : Uploading(u, m) \/ Sending(u, m)}
         /\ th[t].pc = "start" /\ Up /\ th' \in [Threads -> Thread]
         /\ \A u \in Others(t) : th'[u] = th[u]
         /\ th'[t].pc = "size" /\ th'[t].op = "put" /\ th'[t].name = n /\ th'[t].before = 0
         /\ th'[t].filelist = <<>> /\ th'[t].h = 0 /\ th'[t].id = requests'
<1>1. /\ requests' = requests + 1 /\ requests < MaxRequests
      /\ Lista' = Lista /\ Number_file' = Number_file /\ i' = i /\ files' = files \cup {n}
      /\ disk' = [disk EXCEPT ![n] = <<>>]
      /\ clash' = clash \cup {m \in {n} : \E u \in Others(t) : Uploading(u, m) \/ Sending(u, m)}
      /\ th[t].pc = "start" /\ Up
  BY Zenon DEF StartPut, At
<1> DEFINE r == [Idle EXCEPT !.pc = "size", !.op = "put", !.name = n, !.id = requests']
<1>2. requests' \in Nat
  BY <1>1 DEF TypeInv, Shared
<1>3. r \in Thread
  BY <1>2, IdleTypes DEF Thread
<1>4. th' = [th EXCEPT ![t] = r]
  BY DEF TypeInv, StartPut
<1>5. /\ r.pc = "size" /\ r.op = "put" /\ r.name = n /\ r.before = 0
      /\ r.filelist = <<>> /\ r.h = 0 /\ r.id = requests'
  BY DEF Idle
<1> HIDE DEF r
<1>6. th' \in [Threads -> Thread] /\ th'[t] = r /\ \A u \in Others(t) : th'[u] = th[u]
  BY <1>3, <1>4 DEF TypeInv, Others
<1> QED
  BY <1>1, <1>5, <1>6

\* What a new lookup does to the others: those it meets are no longer alone.
Meets(u) == \E x \in BOOLEAN :
  th'[u] = [th[u] EXCEPT !.alone = x] /\ (x => th[u].alone /\ ~InLookup(u))

\* The new lookup, and what it does to those it meets.
LEMMA StartLookupEffect ==
  ASSUME TypeInv, NEW t \in Threads, NEW n \in Names, NEW op \in {"list", "get"},
         StartLookup(t, op, n)
  PROVE  /\ requests' = requests + 1 /\ requests < MaxRequests
         /\ Lista' = Lista /\ Number_file' = Number_file /\ i' = i /\ disk' = disk /\ files' = files
         /\ clash' = clash \cup {m \in {n} : op = "get" /\ \E u \in Others(t) : Uploading(u, m)}
         /\ th[t].pc = "start" /\ Up /\ th' \in [Threads -> Thread]
         /\ th'[t].pc = "read" /\ th'[t].op = op /\ th'[t].name = n /\ th'[t].before = Len(Lista)
         /\ th'[t].filelist = <<>> /\ th'[t].h = 0 /\ th'[t].got = <<>> /\ th'[t].replies = {}
         /\ th'[t].alone => \A u \in Others(t) : ~InLookup(u)
         /\ \A u \in Others(t) : Meets(u)
<1> DEFINE Met == {u \in Others(t) : InLookup(u)}
           q(u) == [th[u] EXCEPT !.alone = @ /\ u \notin Met]
<1>1. /\ requests' = requests + 1 /\ requests < MaxRequests
      /\ Lista' = Lista /\ Number_file' = Number_file /\ i' = i /\ disk' = disk /\ files' = files
      /\ clash' = clash \cup {m \in {n} : op = "get" /\ \E u \in Others(t) : Uploading(u, m)}
      /\ th[t].pc = "start" /\ Up
  BY Zenon DEF StartLookup, At
<1> SUFFICES ASSUME NEW r, r = [Idle EXCEPT !.pc = "read", !.op = op, !.name = n,
                                            !.before = Len(Lista), !.alone = Met = {}]
             PROVE  /\ th' \in [Threads -> Thread]
                    /\ th'[t].pc = "read" /\ th'[t].op = op /\ th'[t].name = n /\ th'[t].before = Len(Lista)
                    /\ th'[t].filelist = <<>> /\ th'[t].h = 0 /\ th'[t].got = <<>> /\ th'[t].replies = {}
                    /\ th'[t].alone => \A u \in Others(t) : ~InLookup(u)
                    /\ \A u \in Others(t) : Meets(u)
  BY <1>1
<1>2. th' = [u \in Threads |-> IF u = t THEN r ELSE q(u)]
  BY DEF StartLookup
<1>3. r \in Thread
  <2>1. Len(Lista) \in Nat /\ (Met = {}) \in BOOLEAN
    BY DEF TypeInv, Shared
  <2> HIDE DEF Met
  <2> QED
    BY <2>1, IdleTypes DEF Thread
<1>4. ASSUME NEW u \in Threads
      PROVE  q(u) \in Thread
  <2>1. th[u] \in Thread
    BY DEF TypeInv
  <2>2. (th[u].alone /\ u \notin Met) \in BOOLEAN
    OBVIOUS
  <2> HIDE DEF Met
  <2> QED
    BY <2>1, <2>2 DEF Thread
<1>5. /\ r.pc = "read" /\ r.op = op /\ r.name = n /\ r.before = Len(Lista)
      /\ r.filelist = <<>> /\ r.h = 0 /\ r.got = <<>> /\ r.replies = {}
      /\ r.alone = (Met = {})
  <2> HIDE DEF Met
  <2> QED
    BY DEF Idle
<1> HIDE DEF q
<1>6. th' \in [Threads -> Thread] /\ th'[t] = r /\ \A u \in Others(t) : th'[u] = q(u)
  BY <1>2, <1>3, <1>4 DEF Others
<1>7. th'[t].alone => \A u \in Others(t) : ~InLookup(u)
  <2>1. Met = {} => \A u \in Others(t) : ~InLookup(u)
    BY Zenon
  <2> HIDE DEF Met
  <2> QED
    BY <1>5, <1>6, <2>1
<1>8. ASSUME NEW u \in Others(t)
      PROVE  Meets(u)
  <2>1. (th[u].alone /\ u \notin Met) \in BOOLEAN
    OBVIOUS
  <2>2. (th[u].alone /\ u \notin Met) => th[u].alone /\ ~InLookup(u)
    BY Zenon
  <2>3. th'[u] = [th[u] EXCEPT !.alone = th[u].alone /\ u \notin Met]
    BY <1>6, Zenon DEF q
  <2> HIDE DEF Met
  <2> QED
    BY <2>1, <2>2, <2>3, Zenon DEF Meets
<1> QED
  BY <1>5, <1>6, <1>7, <1>8

-----------------------------------------------------------------------------
(***************************************************************************)
(* Type correctness, step by step.                                         *)
(***************************************************************************)
\* What no step takes back.
Grows ==
  /\ files \subseteq files' /\ Len(Lista) <= Len(Lista')
  /\ \A k \in 1..Len(Lista) : Lista'[k] = Lista[k]

\* A step of one thread leaves the local variables of the others alone.
LEMMA TypeStep ==
  ASSUME TypeInv, NEW t \in Threads, th' \in [Threads -> Thread],
         \A u \in Others(t) : th'[u] = th[u],
         RequestFits(th[t])', ListFits(th[t])', Grows, Shared'
  PROVE  TypeInv'
<1>1. ASSUME NEW u \in Others(t)
      PROVE  RequestFits(th[u])' /\ ListFits(th[u])'
  <2>1. u \in Threads /\ th[u] \in Thread /\ th'[u] = th[u] /\ RequestFits(th[u]) /\ ListFits(th[u])
    BY DEF TypeInv, Others
  <2>2. RequestFits(th[u])'
    BY <2>1 DEF RequestFits, Grows
  <2>3. th[u].before \in Nat /\ th[u].filelist \in Seq(Names) /\ Lista \in Seq(Names) /\ Lista' \in Seq(Names)
    BY <2>1 DEF Thread, TypeInv, Shared
  <2>4. ListFits(th[u])'
    BY <2>1, <2>3 DEF ListFits, Grows
  <2> QED
    BY <2>2, <2>4
<1>2. \A u \in Threads : RequestFits(th[u])' /\ ListFits(th[u])'
  BY <1>1 DEF Others
<1> QED
  BY <1>2 DEF TypeInv

\* Most steps only go from one place to the next.
LEMMA TypeQuiet ==
  ASSUME TypeInv, NEW t \in Threads, Local(t), Quiet, Number_file' = Number_file, i' \in Nat,
         th'[t].filelist = th[t].filelist, RequestFits(th[t])'
  PROVE  TypeInv'
<1>1. th[t] \in Thread /\ ListFits(th[t]) /\ Shared
  BY DEF TypeInv
<1>2. ListFits(th[t])'
  BY <1>1 DEF ListFits, Local, Quiet
<1>3. Shared' /\ Grows
  BY <1>1 DEF Shared, Grows, Quiet
<1> QED
  BY <1>2, <1>3, TypeStep DEF Local

LEMMA TypeReadName ==
  ASSUME TypeInv, NEW t \in Threads, ReadName(t)
  PROVE  TypeInv'
<1>1. th[t] \in Thread /\ RequestFits(th[t]) /\ ListFits(th[t]) /\ Shared
  BY DEF TypeInv
<1>2. /\ Local(t) /\ Quiet /\ i' = i /\ th[t].pc = "read" /\ th'[t].pc = "read"
      /\ Number_file' = Len(th[t].filelist) + 1 /\ Number_file' \in 1..Len(Lista)
      /\ th'[t].filelist = Append(th[t].filelist, Lista[Len(th[t].filelist) + 1])
  BY ReadNameEffect
<1>3. th[t].filelist \in Seq(Names) /\ Lista \in Seq(Names)
  BY <1>1 DEF Thread, Shared
<1>4. RequestFits(th[t])'
  BY <1>1, <1>2 DEF RequestFits, Local, Writing
<1>5. /\ Len(th'[t].filelist) = Len(th[t].filelist) + 1
      /\ \A k \in 1..Len(th[t].filelist) : th'[t].filelist[k] = th[t].filelist[k]
      /\ th'[t].filelist[Len(th[t].filelist) + 1] = Lista[Len(th[t].filelist) + 1]
  BY <1>2, <1>3
<1>6. ASSUME NEW k \in 1..Len(th'[t].filelist)
      PROVE  th'[t].filelist[k] = Lista[k]
  <2>1. k \in 1..Len(th[t].filelist) \/ k = Len(th[t].filelist) + 1
    BY <1>3, <1>5
  <2> QED
    BY <1>1, <1>5, <2>1 DEF ListFits
<1>7. Lista' = Lista /\ th'[t].before <= Len(Lista) /\ Len(th'[t].filelist) <= Len(Lista)
  BY <1>1, <1>2, <1>3, <1>5 DEF ListFits, Local, Quiet
<1>8. ListFits(th[t])'
  BY <1>6, <1>7 DEF ListFits
<1>9. Shared' /\ Grows
  BY <1>1, <1>2, <1>3 DEF Shared, Grows, Quiet
<1> QED
  BY <1>2, <1>4, <1>8, <1>9, TypeStep DEF Local

LEMMA WrittenTypes ==
  ASSUME NEW b \in Seq(Block), NEW k \in Nat \ {0}, NEW x \in Block
  PROVE  /\ Written(b, k, x) \in Seq(Block)
         /\ Len(Written(b, k, x)) = IF Len(b) < k THEN k ELSE Len(b)
         /\ \A j \in 1..Len(Written(b, k, x)) :
              Written(b, k, x)[j] = IF j = k THEN x ELSE IF j <= Len(b) THEN b[j] ELSE Hole
<1> DEFINE c == Written(b, k, x)
<1>1. \A j \in 1..Len(b) : b[j] \in Block
  OBVIOUS
<1>2. ASSUME NEW m \in Nat, m = IF Len(b) < k THEN k ELSE Len(b)
      PROVE  /\ c \in Seq(Block) /\ Len(c) = m
             /\ \A j \in 1..Len(c) : c[j] = IF j = k THEN x ELSE IF j <= Len(b) THEN b[j] ELSE Hole
  <2>1. c = [j \in 1..m |-> IF j = k THEN x ELSE IF j <= Len(b) THEN b[j] ELSE Hole]
    BY <1>2 DEF Written
  <2>2. /\ c = [j \in 1..m |-> c[j]]
        /\ \A j \in 1..m : c[j] = IF j = k THEN x ELSE IF j <= Len(b) THEN b[j] ELSE Hole
    BY <2>1
  <2> HIDE DEF c
  <2>3. \A j \in 1..m : c[j] \in Block
    BY <1>1, <2>2 DEF Block, Hole
  <2>4. c \in [1..m -> Block]
    BY <2>2, <2>3
  <2>5. c \in Seq(Block) /\ Len(c) = m
    BY <2>4
  <2> QED
    BY <2>2, <2>5
<1>3. (IF Len(b) < k THEN k ELSE Len(b)) \in Nat
  OBVIOUS
<1> HIDE DEF c
<1>4. /\ c \in Seq(Block) /\ Len(c) = IF Len(b) < k THEN k ELSE Len(b)
      /\ \A j \in 1..Len(c) : c[j] = IF j = k THEN x ELSE IF j <= Len(b) THEN b[j] ELSE Hole
  BY <1>2, <1>3
<1> QED
  BY <1>4 DEF c

\* The file of an upload, and what it is when a block is written.
LEMMA WriteBlockFile ==
  ASSUME TypeInv, NEW t \in Threads, WriteBlock(t)
  PROVE  /\ th[t].name \in files /\ th[t].name \in Names
         /\ disk[th[t].name] \in Seq(Block) /\ Len(disk[th[t].name]) <= FileLen
         /\ th[t].h + 1 \in Nat \ {0} /\ th[t].h + 1 <= FileLen /\ th[t].id \in Nat
         /\ disk'[th[t].name] = Written(disk[th[t].name], th[t].h + 1, th[t].id)
         /\ \A m \in Names \ {th[t].name} : disk'[m] = disk[m]
<1>1. th[t] \in Thread /\ RequestFits(th[t]) /\ Shared
  BY DEF TypeInv
<1>2. /\ th[t].pc = "write" /\ th[t].h < FileLen
      /\ disk' = [disk EXCEPT ![th[t].name] = Written(@, th[t].h + 1, th[t].id)]
  BY WriteBlockEffect
<1>3. th[t].name \in files /\ th[t].name \in Names
  BY <1>1, <1>2 DEF RequestFits, Shared, Writing
<1>4. disk \in [Names -> Seq(Block)] /\ \A m \in Names : Len(disk[m]) <= FileLen
  BY <1>1 DEF Shared
<1>5. th[t].h \in Nat /\ th[t].id \in Nat /\ FileLen \in Nat
  BY <1>1, CatalogAssumption DEF Thread
<1> QED
  BY <1>2, <1>3, <1>4, <1>5

LEMMA TypeWriteBlock ==
  ASSUME TypeInv, NEW t \in Threads, WriteBlock(t)
  PROVE  TypeInv'
<1>1. th[t] \in Thread /\ RequestFits(th[t]) /\ ListFits(th[t]) /\ Shared
  BY DEF TypeInv
<1>2. /\ Local(t) /\ i' = i /\ th[t].pc = "write" /\ th'[t].pc = "write" /\ Number_file' = Number_file
      /\ th'[t].filelist = th[t].filelist /\ UNCHANGED <<Lista, files, requests, clash>>
      /\ disk' = [disk EXCEPT ![th[t].name] = Written(@, th[t].h + 1, th[t].id)]
  BY WriteBlockEffect
<1>3. RequestFits(th[t])' /\ ListFits(th[t])' /\ Grows
  BY <1>1, <1>2 DEF RequestFits, ListFits, Grows, Shared, Local, Writing
<1>4. disk'[th[t].name] \in Seq(Block) /\ Len(disk'[th[t].name]) <= FileLen
  <2>1. th[t].id \in Block /\ Len(disk[th[t].name]) \in Nat
    BY WriteBlockFile DEF Block
  <2>2. ASSUME NEW b, b = disk[th[t].name], NEW k, k = th[t].h + 1, NEW x, x = th[t].id
        PROVE  Written(b, k, x) \in Seq(Block) /\ Len(Written(b, k, x)) <= FileLen
    <3>1. /\ b \in Seq(Block) /\ k \in Nat \ {0} /\ x \in Block
          /\ Len(b) <= FileLen /\ k <= FileLen
      BY <2>1, <2>2, WriteBlockFile
    <3> QED
      BY <3>1, WrittenTypes
  <2> QED
    BY <2>2, WriteBlockFile
<1>5. disk' \in [Names -> Seq(Block)]
  BY <1>1, <1>2, <1>4, WriteBlockFile DEF Shared
<1>6. ASSUME NEW m \in Names
      PROVE  Len(disk'[m]) <= FileLen /\ (m \notin files => disk'[m] = <<>>)
  BY <1>1, <1>4, WriteBlockFile DEF Shared
<1>7. Shared'
  BY <1>1, <1>2, <1>5, <1>6 DEF Shared
<1> QED
  BY <1>2, <1>3, <1>7, TypeStep DEF Local

LEMMA TypeAppendToList ==
  ASSUME TypeInv, NEW t \in Threads, AppendToList(t)
  PROVE  TypeInv' /\ Grows
<1>1. th[t] \in Thread /\ RequestFits(th[t]) /\ ListFits(th[t]) /\ Shared
  BY DEF TypeInv
<1>2. /\ Local(t) /\ i' = i /\ th'[t].pc = "start" /\ Number_file' = Number_file
      /\ th'[t].filelist = th[t].filelist /\ UNCHANGED <<disk, files, requests, clash>>
      /\ Lista' = Append(Lista, th[t].name)
  BY AppendToListEffect
<1>3. Lista \in Seq(Names) /\ th[t].name \in Names /\ th[t].filelist \in Seq(Names) /\ th[t].before \in Nat
  BY <1>1 DEF Thread, Shared
<1>4. /\ Lista' \in Seq(Names) /\ Len(Lista') = Len(Lista) + 1 /\ Len(Lista) \in Nat
      /\ \A k \in 1..Len(Lista) : Lista'[k] = Lista[k]
  BY <1>2, <1>3
<1>5. Grows
  BY <1>2, <1>4 DEF Grows
<1>6. RequestFits(th[t])'
  BY <1>2 DEF RequestFits, Reading, Writing
<1>7. ListFits(th[t])'
  BY <1>1, <1>2, <1>3, <1>4 DEF ListFits, Local
<1>8. Shared'
  BY <1>1, <1>2, <1>4 DEF Shared
<1> QED
  BY <1>2, <1>5, <1>6, <1>7, <1>8, TypeStep DEF Local

LEMMA TypeStartPut ==
  ASSUME TypeInv, NEW t \in Threads, NEW n \in Names, StartPut(t, n)
  PROVE  TypeInv'
<1>1. Shared
  BY DEF TypeInv
<1>2. /\ requests' = requests + 1 /\ requests < MaxRequests
      /\ Lista' = Lista /\ Number_file' = Number_file /\ i' = i /\ files' = files \cup {n}
      /\ disk' = [disk EXCEPT ![n] = <<>>] /\ clash' \subseteq clash \cup {n}
  BY StartPutEffect
<1>3. RequestFits(th[t])'
  BY StartPutEffect DEF RequestFits, Reading
<1>4. ListFits(th[t])'
  BY <1>1, StartPutEffect DEF ListFits, Shared
<1>5. Grows
  BY <1>1, <1>2 DEF Grows, Shared
<1>6. Shared'
  <2>1. <<>> \in Seq(Block) /\ Len(<<>>) <= FileLen
    BY CatalogAssumption
  <2>2. disk' \in [Names -> Seq(Block)] /\ \A m \in Names : Len(disk'[m]) <= FileLen
    BY <1>1, <1>2, <2>1 DEF Shared
  <2>3. \A m \in Names \ files' : disk'[m] = <<>>
    BY <1>1, <1>2 DEF Shared
  <2>4. requests' \in 0..MaxRequests
    BY <1>1, <1>2, CatalogAssumption DEF Shared
  <2> QED
    BY <1>1, <1>2, <2>2, <2>3, <2>4 DEF Shared
<1> QED
  BY <1>3, <1>4, <1>5, <1>6, StartPutEffect, TypeStep

LEMMA TypeStartLookup ==
  ASSUME TypeInv, NEW t \in Threads, NEW n \in Names, NEW op \in {"list", "get"},
         StartLookup(t, op, n)
  PROVE  TypeInv'
<1>1. Shared /\ th' \in [Threads -> Thread]
  BY StartLookupEffect DEF TypeInv
<1>2. Grows /\ Shared'
  BY <1>1, StartLookupEffect, CatalogAssumption DEF Grows, Shared
<1>3. RequestFits(th[t])' /\ ListFits(th[t])'
  <2>1. /\ th'[t].pc = "read" /\ th'[t].op \in {"list", "get"} /\ th'[t].before = Len(Lista)
        /\ th'[t].filelist = <<>> /\ Len(Lista) \in Nat /\ Lista' = Lista
    BY <1>1, StartLookupEffect DEF Shared
  <2>2. RequestFits(th[t])'
    BY <2>1 DEF RequestFits, Writing
  <2>3. ListFits(th[t])'
    BY <2>1 DEF ListFits
  <2> QED
    BY <2>2, <2>3
<1>4. ASSUME NEW u \in Others(t)
      PROVE  RequestFits(th[u])' /\ ListFits(th[u])'
  <2>1. /\ u \in Threads /\ th[u] \in Thread /\ RequestFits(th[u]) /\ ListFits(th[u])
        /\ files' = files /\ Lista' = Lista
    BY StartLookupEffect DEF TypeInv, Others
  <2>2. PICK x \in BOOLEAN : th'[u] = [th[u] EXCEPT !.alone = x]
    <3>1. Meets(u)
      BY StartLookupEffect
    <3> QED
      BY <3>1 DEF Meets
  <2>3. /\ th'[u].pc = th[u].pc /\ th'[u].op = th[u].op /\ th'[u].name = th[u].name
        /\ th'[u].before = th[u].before /\ th'[u].filelist = th[u].filelist
    BY <2>1, <2>2 DEF Thread
  <2> QED
    BY <2>1, <2>3 DEF RequestFits, ListFits
<1> QED
  BY <1>1, <1>2, <1>3, <1>4 DEF TypeInv, Others

LEMMA TypeInit == Init => TypeInv
<1> SUFFICES ASSUME Init PROVE TypeInv
  OBVIOUS
<1>1. Lista \in Seq(Names) /\ files \subseteq Names
  <2>1. CASE Lista = <<>>
    BY <2>1 DEF Init, ToSet
  <2>2. ASSUME NEW n \in Names, Lista = <<n>>
        PROVE  Lista \in Seq(Names) /\ files \subseteq Names
    BY <2>2 DEF Init, ToSet
  <2> QED
    BY <2>1, <2>2 DEF Init
<1>2. [k \in 1..FileLen |-> Original] \in Seq(Block) /\ Len([k \in 1..FileLen |-> Original]) = FileLen
  <2>1. FileLen \in Nat
    BY CatalogAssumption
  <2>2. [k \in 1..FileLen |-> Original] \in [1..FileLen -> Block]
    BY DEF Block, Original
  <2> QED
    BY <2>1, <2>2
<1>3. <<>> \in Seq(Block) /\ Len(<<>>) <= FileLen
  BY CatalogAssumption
<1>4. disk \in [Names -> Seq(Block)] /\ \A n \in Names : Len(disk[n]) <= FileLen
  <2> SUFFICES ASSUME NEW b, b = [k \in 1..FileLen |-> Original]
               PROVE  disk \in [Names -> Seq(Block)] /\ \A n \in Names : Len(disk[n]) <= FileLen
    OBVIOUS
  <2>1. disk = [n \in Names |-> IF n \in files THEN b ELSE <<>>]
    BY DEF Init
  <2>2. b \in Seq(Block) /\ Len(b) = FileLen /\ FileLen \in Nat
    BY <1>2, CatalogAssumption
  <2>3. ASSUME NEW n \in Names
        PROVE  disk[n] \in Seq(Block) /\ Len(disk[n]) <= FileLen
    <3>1. disk[n] = b \/ disk[n] = <<>>
      BY <2>1
    <3>2. Len(b) <= FileLen
      BY <2>2
    <3> QED
      BY <1>3, <2>2, <3>1, <3>2, Zenon
  <2>4. disk = [n \in Names |-> disk[n]]
    BY <2>1
  <2> QED
    BY <2>3, <2>4
<1>5. Shared
  <2>1. \A n \in Names \ files : disk[n] = <<>>
    BY DEF Init
  <2>2. Number_file = 0 /\ i = 0 /\ requests = 0 /\ clash = {} /\ Len(Lista) \in Nat
    BY <1>1 DEF Init
  <2> QED
    BY <1>1, <1>4, <2>1, <2>2, CatalogAssumption DEF Shared
<1>6. \A t \in Threads : RequestFits(Idle) /\ ListFits(Idle)
  <2>1. Idle.pc = "start" /\ Idle.before = 0 /\ Idle.filelist = <<>>
    BY DEF Idle
  <2> QED
    BY <1>1, <2>1 DEF RequestFits, ListFits, Reading, Writing
<1>7. th \in [Threads -> Thread] /\ \A t \in Threads : th[t] = Idle
  BY IdleTypes DEF Init
<1> QED
  BY <1>5, <1>6, <1>7 DEF TypeInv

LEMMA TypeNext ==
  ASSUME TypeInv, [Next]_vars
  PROVE  TypeInv' /\ Grows
<1>0. Shared
  BY DEF TypeInv
<1>1. CASE UNCHANGED vars
  BY <1>0, <1>1 DEF TypeInv, Shared, Grows, RequestFits, ListFits, vars
<1>2. ASSUME NEW t \in Threads,
             \/ EndOfList(t) \/ SendNumber(t) \/ SendName(t) \/ ResetIndex(t) \/ TestIndex(t)
             \/ Compare(t) \/ TestLast(t) \/ LoadIndex(t) \/ StoreIndex(t) \/ OpenFile(t)
             \/ SendBlock(t) \/ PrintName(t) \/ ReadSize(t) \/ EndOfUpload(t) \/ CheckList(t)
      PROVE  /\ Local(t) /\ Quiet /\ Number_file' = Number_file /\ i' \in Nat
             /\ th'[t].filelist = th[t].filelist /\ RequestFits(th[t])'
  <2>1. th[t] \in Thread /\ RequestFits(th[t])
    BY DEF TypeInv
  <2>2. i \in Nat /\ th[t].tmp + 1 \in Nat
    BY <1>0, <2>1 DEF Shared, Thread
  <2>3. CASE EndOfList(t)
    BY <2>1, <2>2, <2>3, EndOfListEffect DEF RequestFits, Reading, Writing, Local, Quiet
  <2>4. CASE SendNumber(t)
    BY <2>1, <2>2, <2>4, SendNumberEffect DEF RequestFits, Reading, Writing, Local, Quiet
  <2>5. CASE SendName(t)
    BY <2>1, <2>2, <2>5, SendNameEffect DEF RequestFits, Reading, Writing, Local, Quiet
  <2>6. CASE ResetIndex(t)
    BY <2>1, <2>2, <2>6, ResetIndexEffect DEF RequestFits, Reading, Writing, Local, Quiet
  <2>7. CASE TestIndex(t)
    BY <2>1, <2>2, <2>7, TestIndexEffect DEF RequestFits, Reading, Writing, Local, Quiet
  <2>8. CASE Compare(t)
    BY <2>1, <2>2, <2>8, CompareEffect DEF RequestFits, Reading, Writing, Local, Quiet
  <2>9. CASE TestLast(t)
    BY <2>1, <2>2, <2>9, TestLastEffect DEF RequestFits, Reading, Writing, Local, Quiet
  <2>10. CASE LoadIndex(t)
    BY <2>1, <2>2, <2>10, LoadIndexEffect DEF RequestFits, Reading, Writing, Local, Quiet
  <2>11. CASE StoreIndex(t)
    BY <2>1, <2>2, <2>11, StoreIndexEffect DEF RequestFits, Reading, Writing, Local, Quiet
  <2>12. CASE OpenFile(t)
    BY <2>1, <2>2, <2>12, OpenFileEffect DEF RequestFits, Reading, Writing, Local, Quiet
  <2>13. CASE SendBlock(t)
    BY <2>1, <2>2, <2>13, SendBlockEffect DEF RequestFits, Reading, Writing, Local, Quiet
  <2>14. CASE PrintName(t)
    BY <2>1, <2>2, <2>14, PrintNameEffect DEF RequestFits, Reading, Writing, Local, Quiet
  <2>15. CASE ReadSize(t)
    BY <2>1, <2>2, <2>15, ReadSizeEffect DEF RequestFits, Reading, Writing, Local, Quiet
  <2>16. CASE EndOfUpload(t)
    BY <2>1, <2>2, <2>16, EndOfUploadEffect DEF RequestFits, Reading, Writing, Local, Quiet
  <2>17. CASE CheckList(t)
    BY <2>1, <2>2, <2>17, CheckListEffect DEF RequestFits, Reading, Writing, Local, Quiet
  <2> QED
    BY <1>2, <2>3, <2>4, <2>5, <2>6, <2>7, <2>8, <2>9, <2>10, <2>11, <2>12, <2>13, <2>14, <2>15, <2>16, <2>17
<1>3. ASSUME NEW t \in Threads,
             \/ EndOfList(t) \/ SendNumber(t) \/ SendName(t) \/ ResetIndex(t) \/ TestIndex(t)
             \/ Compare(t) \/ TestLast(t) \/ LoadIndex(t) \/ StoreIndex(t) \/ OpenFile(t)
             \/ SendBlock(t) \/ PrintName(t) \/ ReadSize(t) \/ EndOfUpload(t) \/ CheckList(t)
      PROVE  TypeInv' /\ Grows
  <2>1. Grows
    BY <1>0, <1>2, <1>3 DEF Grows, Quiet, Shared
  <2> QED
    BY <1>2, <1>3, <2>1, TypeQuiet
<1>4. ASSUME NEW t \in Threads, ReadName(t) \/ WriteBlock(t)
      PROVE  TypeInv' /\ Grows
  <2>1. Grows
    BY <1>0, <1>4, ReadNameEffect, WriteBlockEffect DEF Grows, Quiet, Shared
  <2> QED
    BY <1>4, <2>1, TypeReadName, TypeWriteBlock
<1>5. ASSUME NEW t \in Threads, NEW n \in Names,
             StartPut(t, n) \/ \E op \in {"list", "get"} : StartLookup(t, op, n)
      PROVE  TypeInv' /\ Grows
  <2>1. Grows
    BY <1>0, <1>5, StartPutEffect, StartLookupEffect DEF Grows, Shared
  <2> QED
    BY <1>5, <2>1, TypeStartPut, TypeStartLookup
<1> QED
  BY <1>1, <1>3, <1>4, <1>5, TypeAppendToList DEF Next, Lookup

\* In every reachable state each variable holds a value of its type: no thread has
\* read more names than Lista.txt has, no file is longer than the upload of it, and
\* a file that is not there has no contents.
THEOREM TypeCorrect == Spec => []TypeOK
<1>1. Spec => []TypeInv
  <2>1. TypeInv /\ [Next]_vars => TypeInv'
    BY TypeNext
  <2> QED
    BY <2>1, TypeInit, PTL DEF Spec
<1> QED
  BY <1>1, TypeInvTypes, PTL

-----------------------------------------------------------------------------
(***************************************************************************)
(* The answers.                                                            *)
(***************************************************************************)
\* What a step of a thread leaves to another: its own lookup is not met by a
\* lookup that was there already.
LEMMA LookupOthers ==
  ASSUME TypeInv, TypeInv', LookupInv, Up, NEW t \in Threads, Grows, NEW u \in Others(t),
         \A v \in Others(t) : th'[v] = th[v],
         th'[t].pc \in Reading => InLookup(t),
         InLookup(t) \/ (Number_file' = Number_file /\ i' = i)
  PROVE  LookupGood(u)'
<1>1. u \in Threads /\ th'[u] = th[u] /\ LookupGood(u) /\ th[u] \in Thread /\ t \in Others(u) /\ ListFits(th[u])
  BY DEF LookupInv, TypeInv, Others
<1>2. InLookup(u)' => Alone(u)'
  <2> SUFFICES ASSUME InLookup(u), th[u].alone, NEW v \in Others(u)
               PROVE  ~InLookup(v)'
    BY <1>1 DEF InLookup, Alone, Others
  <2>1. ~InLookup(v) /\ ~InLookup(t)
    BY <1>1 DEF LookupGood, Alone
  <2>2. CASE v = t
    BY <2>1, <2>2 DEF Reading, InLookup
  <2>3. CASE v # t
    BY <2>1, <2>3 DEF InLookup, Others
  <2> QED
    BY <2>2, <2>3
<1>3. InLookup(u)' /\ th'[u].alone => Undisturbed(u)'
  <2> SUFFICES ASSUME InLookup(u), th[u].alone
               PROVE  Undisturbed(u)'
    BY <1>1 DEF InLookup
  <2>1. ~InLookup(t) /\ Undisturbed(u)
    BY <1>1 DEF LookupGood, Alone
  <2>2. Number_file' = Number_file /\ i' = i
    BY <2>1
  <2> QED
    BY <1>1, <2>1, <2>2 DEF Undisturbed, At, ReadWhole, Searched, NotAmong, Found
<1>4. At(u, "start")' /\ th'[u].alone => Answered(u)'
  <2> SUFFICES ASSUME Answered(u)
               PROVE  Answered(u)'
    BY <1>1 DEF LookupGood, At
  <2>1. \A k \in 1..th[u].before : k \in 1..Len(Lista) /\ Lista'[k] = Lista[k]
    <3>1. th[u].before \in Nat /\ th[u].before <= Len(Lista) /\ Len(Lista) \in Nat
      BY <1>1 DEF ListFits, TypeInv, Shared, Thread
    <3> QED
      BY <3>1 DEF Grows
  <2>2. \A n : n \in ToSet(Lista) => n \in ToSet(Lista')
    <3>1. Lista \in Seq(Names) /\ Len(Lista) \in Nat /\ Lista' \in Seq(Names) /\ Len(Lista') \in Nat
      BY DEF TypeInv, Shared
    <3> QED
      BY <3>1 DEF Grows, ToSet
  <2> QED
    BY <1>1, <2>1, <2>2 DEF Answered
<1>5. ~At(u, "crashed")'
  BY <1>1 DEF At, Up
<1> QED
  BY <1>2, <1>3, <1>4, <1>5 DEF LookupGood

\* What is left to show of a step of a request under way.
LEMMA LookupStep ==
  ASSUME TypeInv, TypeInv', LookupInv, Up, NEW t \in Threads, Grows,
         \A v \in Others(t) : th'[v] = th[v],
         th'[t].pc \in Reading => InLookup(t) /\ th'[t].alone = th[t].alone,
         InLookup(t) \/ (Number_file' = Number_file /\ i' = i),
         th'[t].pc \in Reading /\ th'[t].alone => Undisturbed(t)',
         th'[t].pc = "start" /\ th'[t].alone => Answered(t)',
         th'[t].pc = "crashed" => ~th'[t].alone \/ th'[t].name \notin files'
  PROVE  LookupInv'
<1>1. InLookup(t)' <=> th'[t].pc \in Reading
  BY DEF InLookup, Reading
<1>2. InLookup(t)' => Alone(t)'
  BY <1>1 DEF LookupInv, LookupGood, Alone, InLookup, Others
<1>3. LookupGood(t)'
  BY <1>1, <1>2 DEF LookupGood, At
<1>4. \A u \in Others(t) : LookupGood(u)'
  BY LookupOthers
<1> QED
  BY <1>3, <1>4 DEF LookupInv, Others

\* A name behind the place i of a list read as a whole.
LEMMA Places ==
  ASSUME TypeInv, NEW t \in Threads
  PROVE  /\ th[t] \in Thread /\ RequestFits(th[t]) /\ i \in Nat /\ Number_file \in Nat
         /\ Len(th[t].filelist) \in Nat /\ th[t].before \in Nat /\ th[t].h \in Nat
         /\ Len(Lista) \in Nat /\ Number_file <= Len(Lista) /\ Len(th[t].filelist) <= Len(Lista)
         /\ th[t].before <= Len(Lista) /\ th[t].filelist \in Seq(Names)
         /\ \A k \in 1..Len(th[t].filelist) : th[t].filelist[k] = Lista[k]
<1>1. th[t] \in Thread /\ RequestFits(th[t]) /\ ListFits(th[t]) /\ Shared
  BY DEF TypeInv
<1> QED
  BY <1>1 DEF Thread, Shared, ListFits

LEMMA LookupReadName ==
  ASSUME TypeInv, TypeInv', LookupInv, NEW t \in Threads, ReadName(t), Grows
  PROVE  LookupInv'
<1>1. /\ Local(t) /\ Up /\ th[t].pc = "read" /\ th'[t].pc = "read"
      /\ Number_file' = Len(th[t].filelist) + 1 /\ th'[t].h = th[t].h /\ th'[t].replies = th[t].replies
      /\ th'[t].filelist = Append(th[t].filelist, Lista[Len(th[t].filelist) + 1])
  BY ReadNameEffect
<1>2. InLookup(t) /\ (th[t].alone => Undisturbed(t))
  BY <1>1 DEF InLookup, LookupInv, LookupGood
<1>3. th[t].alone => th[t].h = 0 /\ th[t].replies = {}
  BY <1>1, <1>2 DEF Undisturbed, At
<1>4. Len(th'[t].filelist) = Len(th[t].filelist) + 1
  BY <1>1, Places
<1>5. th'[t].alone => Undisturbed(t)'
  BY <1>1, <1>3, <1>4 DEF Undisturbed, At, Local
<1> QED
  BY <1>1, <1>2, <1>5, LookupStep DEF Local

LEMMA LookupEndOfList ==
  ASSUME TypeInv, TypeInv', LookupInv, NEW t \in Threads, EndOfList(t), Grows
  PROVE  LookupInv'
<1>1. /\ Local(t) /\ Up /\ th[t].pc = "read" /\ th'[t].pc \in {"number", "reset"}
      /\ Number_file' = Number_file /\ i' = i /\ th'[t].h = th[t].h /\ th'[t].replies = th[t].replies
      /\ th'[t].filelist = th[t].filelist /\ Len(th[t].filelist) = Len(Lista)
  BY EndOfListEffect
<1>2. InLookup(t) /\ (th[t].alone => Undisturbed(t))
  BY <1>1 DEF InLookup, LookupInv, LookupGood
<1>3. th[t].alone => ReadWhole(t) /\ th[t].h = 0 /\ th[t].replies = {}
  <2>1. th[t].filelist = <<>> => Number_file = Len(th[t].filelist)
    BY <1>1, Places
  <2>2. th[t].before <= Len(th[t].filelist)
    BY <1>1, Places
  <2> QED
    BY <1>1, <1>2, <2>1, <2>2 DEF Undisturbed, ReadWhole, At
<1>4. th'[t].alone => Undisturbed(t)'
  BY <1>1, <1>3 DEF Undisturbed, At, ReadWhole, Local
<1> QED
  BY <1>1, <1>2, <1>4, LookupStep DEF Local

LEMMA LookupSendNumber ==
  ASSUME TypeInv, TypeInv', LookupInv, NEW t \in Threads, SendNumber(t), Grows
  PROVE  LookupInv'
<1>1. /\ Local(t) /\ Up /\ th[t].pc = "number" /\ th'[t].pc = "names" /\ th'[t].number = Number_file
      /\ Number_file' = Number_file /\ i' = i /\ th'[t].h = th[t].h /\ th'[t].filelist = th[t].filelist
  BY SendNumberEffect
<1>2. InLookup(t) /\ (th[t].alone => Undisturbed(t))
  BY <1>1 DEF InLookup, LookupInv, LookupGood
<1>3. th[t].alone => ReadWhole(t) /\ th[t].h = 0
  BY <1>1, <1>2 DEF Undisturbed, At
<1>4. th'[t].alone => Undisturbed(t)'
  BY <1>1, <1>3, Places DEF Undisturbed, At, ReadWhole, Local
<1> QED
  BY <1>1, <1>2, <1>4, LookupStep DEF Local

LEMMA LookupSendName ==
  ASSUME TypeInv, TypeInv', LookupInv, NEW t \in Threads, SendName(t), Grows
  PROVE  LookupInv'
<1>1. /\ Local(t) /\ Up /\ th[t].pc = "names" /\ th'[t].pc \in {"names", "start", "crashed"}
      /\ Number_file' = Number_file /\ i' = i /\ th'[t].number = th[t].number /\ th'[t].filelist = th[t].filelist
      /\ \/ th[t].h = Number_file /\ th'[t].pc = "start" /\ th'[t].h = th[t].h
         \/ /\ th[t].h # Number_file /\ th[t].h < Len(th[t].filelist)
            /\ th'[t].pc = "names" /\ th'[t].h = th[t].h + 1
         \/ th[t].h # Number_file /\ th[t].h >= Len(th[t].filelist)
  BY SendNameEffect
<1>2. InLookup(t) /\ (th[t].alone => Undisturbed(t))
  BY <1>1 DEF InLookup, LookupInv, LookupGood
<1>3. th[t].alone => ReadWhole(t) /\ th[t].number = Number_file /\ th[t].h <= Number_file
  BY <1>1, <1>2 DEF Undisturbed, At
<1>4. th'[t].pc = "names" /\ th'[t].alone => Undisturbed(t)'
  BY <1>1, <1>3, Places DEF Undisturbed, At, ReadWhole, Local
<1>5. th'[t].op = "list"
  BY <1>1, Places DEF RequestFits, Local
<1>6. th'[t].pc = "start" /\ th'[t].alone => Answered(t)'
  BY <1>1, <1>3, <1>5, Places DEF Answered, ReadWhole, Local
<1>7. th'[t].pc = "crashed" => ~th'[t].alone
  BY <1>1, <1>3, Places DEF ReadWhole, Local
<1> QED
  BY <1>1, <1>2, <1>4, <1>6, <1>7, LookupStep DEF Local, Reading

LEMMA LookupResetIndex ==
  ASSUME TypeInv, TypeInv', LookupInv, NEW t \in Threads, ResetIndex(t), Grows
  PROVE  LookupInv'
<1>1. /\ Local(t) /\ Up /\ th[t].pc = "reset" /\ th'[t].pc = "test" /\ Number_file' = Number_file /\ i' = 0
      /\ th'[t].filelist = th[t].filelist /\ th'[t].replies = th[t].replies
  BY ResetIndexEffect
<1>2. InLookup(t) /\ (th[t].alone => Undisturbed(t))
  BY <1>1 DEF InLookup, LookupInv, LookupGood
<1>3. th[t].alone => ReadWhole(t) /\ th[t].replies = {}
  BY <1>1, <1>2 DEF Undisturbed, At
<1>4. th[t].alone => Searched(t, i)'
  BY <1>1, <1>3, Places DEF Searched, NotAmong, ReadWhole, Local
<1>5. th'[t].alone => Undisturbed(t)'
  BY <1>1, <1>4 DEF Undisturbed, At, Local
<1> QED
  BY <1>1, <1>2, <1>5, LookupStep DEF Local

LEMMA LookupTestIndex ==
  ASSUME TypeInv, TypeInv', LookupInv, NEW t \in Threads, TestIndex(t), Grows
  PROVE  LookupInv'
<1>1. /\ Local(t) /\ Up /\ th[t].pc = "test" /\ Quiet /\ Number_file' = Number_file /\ i' = i
      /\ th'[t].filelist = th[t].filelist
      /\ \/ i < Number_file /\ th'[t].pc = "compare" /\ th'[t].replies = th[t].replies
         \/ /\ ~(i < Number_file) /\ th'[t].pc = "start"
            /\ th'[t].replies = th[t].replies \cup {"invalid"}
  BY TestIndexEffect
<1>2. InLookup(t) /\ (th[t].alone => Undisturbed(t))
  BY <1>1 DEF InLookup, LookupInv, LookupGood
<1>3. th[t].alone => Searched(t, i)
  BY <1>1, <1>2 DEF Undisturbed, At
<1>4. th'[t].pc = "compare" /\ th'[t].alone => Undisturbed(t)'
  BY <1>1, <1>3 DEF Undisturbed, At, Searched, ReadWhole, NotAmong, Local
<1>5. th'[t].op = "get"
  BY <1>1, Places DEF RequestFits, Local, Reading
<1>6. th'[t].pc = "start" /\ th'[t].alone => Answered(t)'
  <2> SUFFICES ASSUME th'[t].pc = "start", th[t].alone
               PROVE  Answered(t)'
    BY <1>1 DEF Local
  <2>1. i = Number_file /\ NotAmong(t, Number_file) /\ ReadWhole(t) /\ th[t].replies \subseteq {"FAIL"}
    BY <1>1, <1>3, Places DEF Searched
  <2>2. ASSUME NEW k \in 1..th[t].before
        PROVE  Lista[k] # th[t].name
    <3>1. k \in 1..Number_file /\ k \in 1..Len(th[t].filelist)
      BY <2>1, Places DEF ReadWhole
    <3>2. th[t].filelist[k] # th[t].name
      BY <2>1, <3>1 DEF NotAmong
    <3> QED
      BY <3>1, <3>2, Places
  <2>3. th'[t].replies \cap {"file", "warn"} = {}
    BY <1>1, <2>1
  <2>4. th'[t].name = th[t].name /\ th'[t].before = th[t].before /\ Lista' = Lista
    BY <1>1 DEF Local, Quiet
  <2> QED
    BY <1>5, <2>2, <2>3, <2>4 DEF Answered
<1> QED
  BY <1>1, <1>2, <1>4, <1>6, LookupStep DEF Local, Reading

LEMMA LookupCompare ==
  ASSUME TypeInv, TypeInv', LookupInv, NEW t \in Threads, Compare(t), Grows
  PROVE  LookupInv'
<1>1. /\ Local(t) /\ Up /\ th[t].pc = "compare" /\ Number_file' = Number_file /\ i' = i
      /\ th'[t].filelist = th[t].filelist /\ th'[t].replies = th[t].replies
      /\ \/ /\ i < Len(th[t].filelist) /\ th[t].filelist[i + 1] = th[t].name
            /\ th'[t].pc = "open"
         \/ /\ i < Len(th[t].filelist) /\ th[t].filelist[i + 1] # th[t].name
            /\ th'[t].pc = "last"
         \/ i >= Len(th[t].filelist) /\ th'[t].pc \in {"last", "crashed"}
  BY CompareEffect
<1>2. InLookup(t) /\ (th[t].alone => Undisturbed(t))
  BY <1>1 DEF InLookup, LookupInv, LookupGood
<1>3. th[t].alone => Searched(t, i) /\ i < Number_file /\ i < Len(th[t].filelist)
  BY <1>1, <1>2 DEF Undisturbed, At, Searched, ReadWhole
<1>4. th'[t].pc = "open" /\ th'[t].alone => Undisturbed(t)'
  <2> SUFFICES ASSUME th'[t].pc = "open", th[t].alone
               PROVE  Undisturbed(t)'
    BY <1>1 DEF Local
  <2>1. Found(t)
    BY <1>1, <1>3 DEF Found, Searched
  <2>2. th[t].replies = {}
    <3>1. i + 1 \in 1..Number_file
      BY <1>3, Places
    <3> QED
      BY <1>3, <2>1, <3>1 DEF Searched, NotAmong, Found
  <2>3. Found(t)' /\ th'[t].replies = {}
    BY <1>1, <2>1, <2>2 DEF Found, ReadWhole, Local
  <2> QED
    BY <1>1, <2>3 DEF Undisturbed, At
<1>5. th'[t].pc = "last" /\ th'[t].alone => Undisturbed(t)'
  <2> SUFFICES ASSUME th'[t].pc = "last", th[t].alone
               PROVE  Undisturbed(t)'
    BY <1>1 DEF Local
  <2>1. NotAmong(t, i + 1)
    <3>1. \A k \in 1..i + 1 : k \in 1..i \/ k = i + 1
      BY Places
    <3>2. th[t].filelist[i + 1] # th[t].name
      BY <1>1, <1>3, Places
    <3>3. NotAmong(t, i)
      BY <1>3 DEF Searched
    <3> QED
      BY <3>1, <3>2, <3>3 DEF NotAmong
  <2>2. Searched(t, i + 1) /\ i + 1 <= Number_file
    BY <1>3, <2>1, Places DEF Searched
  <2>3. Searched(t, i + 1)'
    BY <1>1, <2>2 DEF Searched, NotAmong, ReadWhole, Local
  <2> QED
    BY <1>1, <2>3 DEF Undisturbed, At
<1>6. th'[t].pc = "crashed" => ~th'[t].alone
  BY <1>1, <1>3, Places DEF Local
<1> QED
  BY <1>1, <1>2, <1>4, <1>5, <1>6, LookupStep DEF Local, Reading

LEMMA LookupTestLast ==
  ASSUME TypeInv, TypeInv', LookupInv, NEW t \in Threads, TestLast(t), Grows
  PROVE  LookupInv'
<1>1. /\ Local(t) /\ Up /\ th[t].pc = "last" /\ th'[t].pc = "load" /\ Number_file' = Number_file /\ i' = i
      /\ th'[t].filelist = th[t].filelist
      /\ th'[t].replies = th[t].replies \cup {y \in {"FAIL"} : i + 1 = Number_file}
  BY TestLastEffect
<1>2. InLookup(t) /\ (th[t].alone => Undisturbed(t))
  BY <1>1 DEF InLookup, LookupInv, LookupGood
<1>3. th[t].alone => Searched(t, i + 1)
  BY <1>1, <1>2 DEF Undisturbed, At
<1>4. th[t].alone => Searched(t, i + 1)'
  <2> SUFFICES ASSUME th[t].alone
               PROVE  Searched(t, i + 1)'
    OBVIOUS
  <2>1. th'[t].replies \subseteq {"FAIL"}
    BY <1>1, <1>3 DEF Searched
  <2>2. th'[t].replies # {} => NotAmong(t, Number_file)
    BY <1>1, <1>3 DEF Searched
  <2> QED
    BY <1>1, <1>3, <2>1, <2>2 DEF Searched, NotAmong, ReadWhole, Local
<1>5. th'[t].alone => Undisturbed(t)'
  BY <1>1, <1>4 DEF Undisturbed, At, Local
<1> QED
  BY <1>1, <1>2, <1>5, LookupStep DEF Local

LEMMA LookupLoadIndex ==
  ASSUME TypeInv, TypeInv', LookupInv, NEW t \in Threads, LoadIndex(t), Grows
  PROVE  LookupInv'
<1>1. /\ Local(t) /\ Up /\ th[t].pc = "load" /\ th'[t].pc = "store" /\ Number_file' = Number_file /\ i' = i
      /\ th'[t].filelist = th[t].filelist /\ th'[t].replies = th[t].replies /\ th'[t].tmp = i
  BY LoadIndexEffect
<1>2. InLookup(t) /\ (th[t].alone => Undisturbed(t))
  BY <1>1 DEF InLookup, LookupInv, LookupGood
<1>3. th[t].alone => Searched(t, i + 1)'
  BY <1>1, <1>2 DEF Undisturbed, At, Searched, NotAmong, ReadWhole, Local
<1>4. th'[t].alone => Undisturbed(t)'
  BY <1>1, <1>3 DEF Undisturbed, At, Local
<1> QED
  BY <1>1, <1>2, <1>4, LookupStep DEF Local

LEMMA LookupStoreIndex ==
  ASSUME TypeInv, TypeInv', LookupInv, NEW t \in Threads, StoreIndex(t), Grows
  PROVE  LookupInv'
<1>1. /\ Local(t) /\ Up /\ th[t].pc = "store" /\ th'[t].pc = "test" /\ Number_file' = Number_file
      /\ i' = th[t].tmp + 1 /\ th'[t].filelist = th[t].filelist /\ th'[t].replies = th[t].replies
  BY StoreIndexEffect
<1>2. InLookup(t) /\ (th[t].alone => Undisturbed(t))
  BY <1>1 DEF InLookup, LookupInv, LookupGood
<1>3. th[t].alone => Searched(t, i + 1) /\ th[t].tmp = i
  BY <1>1, <1>2 DEF Undisturbed, At
<1>4. th[t].alone => Searched(t, i)'
  BY <1>1, <1>3 DEF Searched, NotAmong, ReadWhole, Local
<1>5. th'[t].alone => Undisturbed(t)'
  BY <1>1, <1>4 DEF Undisturbed, At, Local
<1> QED
  BY <1>1, <1>2, <1>5, LookupStep DEF Local

\* The name where the loop stopped is in the list.
LEMMA FoundIsListed ==
  ASSUME TypeInv, NEW t \in Threads, Found(t)
  PROVE  th[t].name \in ToSet(Lista) /\ i < Len(th[t].filelist)
<1>1. i + 1 \in 1..Len(th[t].filelist) /\ i + 1 \in 1..Len(Lista)
  BY Places DEF Found, ReadWhole
<1>2. Lista[i + 1] = th[t].name /\ Lista \in Seq(Names)
  BY <1>1, Places DEF Found, TypeInv, Shared
<1> QED
  BY <1>1, <1>2, Places DEF ToSet

LEMMA LookupOpenFile ==
  ASSUME TypeInv, TypeInv', LookupInv, NEW t \in Threads, OpenFile(t), Grows
  PROVE  LookupInv'
<1>1. /\ Local(t) /\ Up /\ th[t].pc = "open" /\ Quiet /\ Number_file' = Number_file /\ i' = i
      /\ th'[t].filelist = th[t].filelist
      /\ \/ th[t].name \notin files /\ th'[t].pc = "crashed"
         \/ th'[t].pc = "start" /\ th'[t].replies = th[t].replies \cup {"warn"}
         \/ th'[t].pc = "send" /\ th'[t].replies = th[t].replies
  BY OpenFileEffect
<1>2. InLookup(t) /\ (th[t].alone => Undisturbed(t))
  BY <1>1 DEF InLookup, LookupInv, LookupGood
<1>3. th[t].alone => Found(t) /\ th[t].replies = {}
  BY <1>1, <1>2 DEF Undisturbed, At
<1>4. th'[t].pc = "send" /\ th'[t].alone => Undisturbed(t)'
  BY <1>1, <1>3 DEF Undisturbed, At, Found, ReadWhole, Local
<1>5. th'[t].op = "get"
  BY <1>1, Places DEF RequestFits, Local, Reading
<1>6. th'[t].pc = "start" /\ th'[t].alone => Answered(t)'
  BY <1>1, <1>3, <1>5, FoundIsListed DEF Answered, Local, Quiet
<1>7. th'[t].pc = "crashed" => th'[t].name \notin files'
  BY <1>1 DEF Local, Quiet
<1> QED
  BY <1>1, <1>2, <1>4, <1>6, <1>7, LookupStep DEF Local, Reading

LEMMA LookupSendBlock ==
  ASSUME TypeInv, TypeInv', LookupInv, NEW t \in Threads, SendBlock(t), Grows
  PROVE  LookupInv'
<1>1. /\ Local(t) /\ Up /\ th[t].pc = "send" /\ Number_file' = Number_file /\ i' = i
      /\ th'[t].filelist = th[t].filelist
      /\ \/ th'[t].pc = "send" /\ th'[t].replies = th[t].replies
         \/ th'[t].pc = "print" /\ th'[t].replies = th[t].replies \cup {"file"}
  BY SendBlockEffect
<1>2. InLookup(t) /\ (th[t].alone => Undisturbed(t))
  BY <1>1 DEF InLookup, LookupInv, LookupGood
<1>3. th[t].alone => Found(t) /\ th[t].replies = {}
  BY <1>1, <1>2 DEF Undisturbed, At
<1>4. th[t].alone => Found(t)'
  BY <1>1, <1>3 DEF Found, ReadWhole, Local
<1>5. th'[t].alone => Undisturbed(t)'
  BY <1>1, <1>3, <1>4 DEF Undisturbed, At, Local
<1> QED
  BY <1>1, <1>2, <1>5, LookupStep DEF Local

LEMMA LookupPrintName ==
  ASSUME TypeInv, TypeInv', LookupInv, NEW t \in Threads, PrintName(t), Grows
  PROVE  LookupInv'
<1>1. /\ Local(t) /\ Up /\ th[t].pc = "print" /\ Quiet /\ Number_file' = Number_file /\ i' = i
      /\ th'[t].replies = th[t].replies
      /\ \/ i < Len(th[t].filelist) /\ th'[t].pc = "start"
         \/ i >= Len(th[t].filelist) /\ th'[t].pc \in {"start", "crashed"}
  BY PrintNameEffect
<1>2. InLookup(t) /\ (th[t].alone => Undisturbed(t))
  BY <1>1 DEF InLookup, LookupInv, LookupGood
<1>3. th[t].alone => /\ th[t].replies = {"file"} /\ th[t].name \in ToSet(Lista)
                     /\ i < Len(th[t].filelist)
  BY <1>1, <1>2, FoundIsListed DEF Undisturbed, At
<1>4. th'[t].op = "get"
  BY <1>1, Places DEF RequestFits, Local, Reading
<1>5. th'[t].pc = "start" /\ th'[t].alone => Answered(t)'
  BY <1>1, <1>3, <1>4 DEF Answered, Local, Quiet
<1>6. th'[t].pc = "crashed" => ~th'[t].alone
  BY <1>1, <1>3, Places DEF Local
<1> QED
  BY <1>1, <1>2, <1>5, <1>6, LookupStep DEF Local, Reading

LEMMA LookupUpload ==
  ASSUME TypeInv, TypeInv', LookupInv, NEW t \in Threads, Grows,
         ReadSize(t) \/ WriteBlock(t) \/ EndOfUpload(t) \/ CheckList(t) \/ AppendToList(t)
  PROVE  LookupInv'
<1>1. /\ Local(t) /\ Up /\ th[t].pc \in Writing /\ Number_file' = Number_file /\ i' = i
      /\ th'[t].pc \in {"start", "write", "check", "append"}
  BY ReadSizeEffect, WriteBlockEffect, EndOfUploadEffect, CheckListEffect, AppendToListEffect DEF Writing
<1>2. th'[t].op = "put"
  BY <1>1, Places DEF RequestFits, Local
<1>3. Answered(t)'
  BY <1>2 DEF Answered
<1> QED
  BY <1>1, <1>3, LookupStep DEF Local, Reading

LEMMA LookupStartPut ==
  ASSUME TypeInv, TypeInv', LookupInv, NEW t \in Threads, NEW n \in Names, StartPut(t, n), Grows
  PROVE  LookupInv'
<1>1. /\ Up /\ th'[t].pc = "size" /\ Number_file' = Number_file /\ i' = i
      /\ \A u \in Others(t) : th'[u] = th[u]
  BY StartPutEffect
<1> QED
  BY <1>1, LookupStep DEF Reading

LEMMA LookupStartLookup ==
  ASSUME TypeInv, TypeInv', LookupInv, NEW t \in Threads, NEW n \in Names, NEW op \in {"list", "get"},
         StartLookup(t, op, n)
  PROVE  LookupInv'
<1>1. /\ Lista' = Lista /\ Number_file' = Number_file /\ i' = i /\ files' = files /\ Up
      /\ th'[t].pc = "read" /\ th'[t].h = 0 /\ th'[t].replies = {} /\ th'[t].filelist = <<>>
      /\ th'[t].alone => \A u \in Others(t) : ~InLookup(u)
  BY StartLookupEffect
<1>2. ASSUME NEW u \in Others(t)
      PROVE  /\ u \in Threads /\ th[u] \in Thread /\ LookupGood(u)
             /\ th'[u].pc = th[u].pc /\ th'[u].op = th[u].op /\ th'[u].name = th[u].name
             /\ th'[u].before = th[u].before /\ th'[u].filelist = th[u].filelist
             /\ th'[u].number = th[u].number /\ th'[u].h = th[u].h /\ th'[u].tmp = th[u].tmp
             /\ th'[u].replies = th[u].replies
             /\ (th'[u].alone => th[u].alone /\ ~InLookup(u))
  <2>1. u \in Threads /\ th[u] \in Thread /\ LookupGood(u)
    BY DEF LookupInv, TypeInv, Others
  <2>2. Meets(u)
    BY StartLookupEffect
  <2>3. PICK x \in BOOLEAN : th'[u] = [th[u] EXCEPT !.alone = x] /\ (x => th[u].alone /\ ~InLookup(u))
    BY <2>2 DEF Meets
  <2> QED
    BY <2>1, <2>3 DEF Thread
<1>3. LookupGood(t)'
  <2>1. Alone(t)'
    BY <1>1, <1>2 DEF Alone, InLookup, Others
  <2>2. Undisturbed(t)'
    BY <1>1 DEF Undisturbed, At
  <2> QED
    BY <1>1, <2>1, <2>2 DEF LookupGood, At
<1>4. ASSUME NEW u \in Others(t)
      PROVE  LookupGood(u)'
  <2>1. InLookup(u)' => ~th'[u].alone
    BY <1>2 DEF InLookup
  <2>2. At(u, "start")' /\ th'[u].alone => Answered(u)'
    BY <1>1, <1>2 DEF LookupGood, Answered, At
  <2>3. ~At(u, "crashed")'
    BY <1>1, <1>2 DEF At, Up
  <2> QED
    BY <2>1, <2>2, <2>3 DEF LookupGood, Alone
<1> QED
  BY <1>3, <1>4 DEF LookupInv, Others

LEMMA LookupNext ==
  ASSUME TypeInv, TypeInv', LookupInv, [Next]_vars, Grows
  PROVE  LookupInv'
<1>1. CASE UNCHANGED vars
  BY <1>1 DEF LookupInv, LookupGood, InLookup, Alone, Others, Undisturbed, Answered, Searched, Found,
              ReadWhole, NotAmong, At, vars
<1>2. ASSUME NEW t \in Threads, Lookup(t)
      PROVE  LookupInv'
  BY <1>2, LookupReadName, LookupEndOfList, LookupSendNumber, LookupSendName, LookupResetIndex,
     LookupTestIndex, LookupCompare, LookupTestLast, LookupLoadIndex, LookupStoreIndex, LookupOpenFile
     DEF Lookup
<1> QED
  BY <1>1, <1>2, LookupSendBlock, LookupPrintName, LookupUpload, LookupStartPut, LookupStartLookup
     DEF Next

LEMMA LookupInit == Init => LookupInv
<1>1. Idle.pc = "start" /\ Idle.op = "none"
  BY DEF Idle
<1>2. Init => \A t \in Threads : th[t] = Idle
  BY DEF Init
<1> QED
  BY <1>1, <1>2 DEF LookupInv, LookupGood, InLookup, Answered, At

LEMMA LookupInvCorrect == Spec => [](TypeInv /\ LookupInv)
<1>1. Init => TypeInv /\ LookupInv
  BY TypeInit, LookupInit
<1>2. TypeInv /\ LookupInv /\ [Next]_vars => (TypeInv /\ LookupInv)'
  BY TypeNext, LookupNext
<1> QED
  BY <1>1, <1>2, PTL DEF Spec

\* Every get and every list that no other lookup meets is answered as it should be:
\* a listed name with its file or the warning that it is empty, another one with
\* neither, and a list with as many names as it announces.
THEOREM AnswerIsRightCorrect == Spec => []AnswerIsRight
<1>1. LookupInv => AnswerIsRight
  BY DEF LookupInv, LookupGood, Answered, AnswerIsRight
<1> QED
  BY <1>1, LookupInvCorrect, PTL

\* A lookup that no other meets ends the server only on a listed name without a file.
THEOREM CrashIsExplainedCorrect == Spec => []CrashIsExplained
<1>1. LookupInv => CrashIsExplained
  BY DEF LookupInv, LookupGood, CrashIsExplained
<1> QED
  BY <1>1, LookupInvCorrect, PTL

-----------------------------------------------------------------------------
(***************************************************************************)
(* The uploads.                                                            *)
(***************************************************************************)
\* A step of a request under way.
Working(t) ==
  \/ Lookup(t) \/ SendBlock(t) \/ PrintName(t)
  \/ ReadSize(t) \/ WriteBlock(t) \/ EndOfUpload(t) \/ CheckList(t) \/ AppendToList(t)

LEMMA WorkingEffect ==
  ASSUME TypeInv, NEW t \in Threads, Working(t)
  PROVE  /\ Local(t) /\ clash' = clash
         /\ th'[t].pc \in Writing => th[t].pc \in Writing
         /\ th'[t].pc \in Reading => th[t].pc \in Reading
         /\ th'[t].pc \in Reading \ {"send", "print"} => th[t].pc \in Reading \ {"send", "print"}
         /\ ~WriteBlock(t) => disk' = disk
         /\ ~AppendToList(t) => Lista' = Lista
         /\ th'[t].pc = "append" => CheckList(t)
         /\ th[t].pc \in {"write", "check", "append"} =>
              \/ th'[t].pc \in {"write", "check", "append"} \/ AppendToList(t)
              \/ strstr(elementi_lista, Spell[th[t].name])
<1>1. CASE ReadName(t)
  BY <1>1, ReadNameEffect DEF Reading, Writing, Quiet
<1>2. CASE EndOfList(t)
  BY <1>2, EndOfListEffect DEF Reading, Writing, Quiet
<1>3. CASE SendNumber(t)
  BY <1>3, SendNumberEffect DEF Reading, Writing, Quiet
<1>4. CASE SendName(t)
  BY <1>4, SendNameEffect DEF Reading, Writing, Quiet
<1>5. CASE ResetIndex(t)
  BY <1>5, ResetIndexEffect DEF Reading, Writing, Quiet
<1>6. CASE TestIndex(t)
  BY <1>6, TestIndexEffect DEF Reading, Writing, Quiet
<1>7. CASE Compare(t)
  BY <1>7, CompareEffect DEF Reading, Writing, Quiet
<1>8. CASE TestLast(t)
  BY <1>8, TestLastEffect DEF Reading, Writing, Quiet
<1>9. CASE LoadIndex(t)
  BY <1>9, LoadIndexEffect DEF Reading, Writing, Quiet
<1>10. CASE StoreIndex(t)
  BY <1>10, StoreIndexEffect DEF Reading, Writing, Quiet
<1>11. CASE OpenFile(t)
  BY <1>11, OpenFileEffect DEF Reading, Writing, Quiet
<1>12. CASE SendBlock(t)
  BY <1>12, SendBlockEffect DEF Reading, Writing, Quiet
<1>13. CASE PrintName(t)
  BY <1>13, PrintNameEffect DEF Reading, Writing, Quiet
<1>14. CASE ReadSize(t)
  BY <1>14, ReadSizeEffect DEF Reading, Writing, Quiet
<1>15. CASE WriteBlock(t)
  BY <1>15, WriteBlockEffect DEF Reading, Writing, Quiet
<1>16. CASE EndOfUpload(t)
  BY <1>16, EndOfUploadEffect DEF Reading, Writing, Quiet
<1>17. CASE CheckList(t)
  BY <1>17, CheckListEffect DEF Reading, Writing, Quiet
<1>18. CASE AppendToList(t)
  BY <1>18, AppendToListEffect DEF Reading, Writing, Quiet
<1> QED
  BY <1>1, <1>2, <1>3, <1>4, <1>5, <1>6, <1>7, <1>8, <1>9,
     <1>10, <1>11, <1>12, <1>13, <1>14, <1>15, <1>16, <1>17, <1>18 DEF Working, Lookup

\* Whose file it is.
LEMMA PutOrGet ==
  ASSUME TypeInv, NEW t \in Threads
  PROVE  /\ th[t].pc \in Writing <=> Uploading(t, th[t].name)
         /\ th[t].pc \in Reading /\ th[t].op = "get" <=> Sending(t, th[t].name)
         /\ th[t].name \in Names
         /\ th[t].pc \in Writing => th[t].op = "put"
         /\ th[t].pc \in {"send", "print"} => Sending(t, th[t].name)
<1>1. th[t] \in Thread /\ RequestFits(th[t])
  BY DEF TypeInv
<1>2. th[t].name \in Names
  BY <1>1 DEF Thread
<1> QED
  BY <1>1, <1>2 DEF RequestFits, Uploading, Sending, InLookup, Reading, Writing

LEMMA OneUploadNext ==
  ASSUME TypeInv, OneUpload, [Next]_vars
  PROVE  OneUpload'
<1> SUFFICES ASSUME NEW n \in Names \ clash', NEW t \in Threads, Uploading(t, n)', NEW u \in Threads
             PROVE  (Uploading(u, n)' => u = t) /\ ~Sending(u, n)'
  BY DEF OneUpload
<1>1. CASE UNCHANGED vars
  BY <1>1 DEF OneUpload, Uploading, Sending, InLookup, vars
<1>2. ASSUME NEW v \in Threads, Working(v)
      PROVE  (Uploading(u, n)' => u = t) /\ ~Sending(u, n)'
  <2>1. /\ Local(v) /\ clash' = clash
        /\ th'[v].pc \in Writing => th[v].pc \in Writing
        /\ th'[v].pc \in Reading => th[v].pc \in Reading
    BY <1>2, WorkingEffect
  <2>2. ASSUME NEW w \in Threads
        PROVE  (Uploading(w, n)' => Uploading(w, n)) /\ (Sending(w, n)' => Sending(w, n))
    <3>1. CASE w = v
      BY <2>1, <3>1 DEF Local, Uploading, Sending, InLookup, Reading, Writing
    <3>2. CASE w # v
      BY <2>1, <3>2 DEF Local, Uploading, Sending, InLookup, Others
    <3> QED
      BY <3>1, <3>2
  <2> QED
    BY <2>1, <2>2 DEF OneUpload
<1>3. ASSUME NEW v \in Threads, NEW m \in Names, StartPut(v, m)
      PROVE  (Uploading(u, n)' => u = t) /\ ~Sending(u, n)'
  <2>1. /\ clash' = clash \cup {k \in {m} : \E w \in Others(v) : Uploading(w, k) \/ Sending(w, k)}
        /\ th'[v].pc = "size" /\ th'[v].name = m /\ \A w \in Others(v) : th'[w] = th[w]
    BY <1>3, StartPutEffect
  <2>2. \A w \in Others(v) : /\ Uploading(w, n)' <=> Uploading(w, n)
                             /\ Sending(w, n)' <=> Sending(w, n)
    BY <2>1 DEF Uploading, Sending, InLookup
  <2>3. n \notin clash /\ (n = m => \A w \in Others(v) : ~Uploading(w, n) /\ ~Sending(w, n))
    BY <2>1
  <2>4. ~Sending(v, n)' /\ (Uploading(v, n)' => n = m)
    BY <2>1 DEF Uploading, Sending, InLookup
  <2> QED
    BY <2>2, <2>3, <2>4 DEF OneUpload, Others
<1>4. ASSUME NEW v \in Threads, NEW m \in Names, NEW op \in {"list", "get"}, StartLookup(v, op, m)
      PROVE  (Uploading(u, n)' => u = t) /\ ~Sending(u, n)'
  <2>1. /\ clash' = clash \cup {k \in {m} : op = "get" /\ \E w \in Others(v) : Uploading(w, k)}
        /\ th'[v].pc = "read" /\ th'[v].name = m /\ th'[v].op = op
        /\ \A w \in Others(v) : Meets(w)
    BY <1>4, StartLookupEffect
  <2>2. ASSUME NEW w \in Others(v)
        PROVE  /\ Uploading(w, n)' <=> Uploading(w, n)
               /\ Sending(w, n)' <=> Sending(w, n)
    <3>1. PICK x \in BOOLEAN : th'[w] = [th[w] EXCEPT !.alone = x]
      BY <2>1 DEF Meets
    <3>2. th[w] \in Thread
      BY DEF TypeInv, Others
    <3>3. th'[w].pc = th[w].pc /\ th'[w].name = th[w].name /\ th'[w].op = th[w].op
      BY <3>1, <3>2 DEF Thread
    <3> QED
      BY <3>3 DEF Uploading, Sending, InLookup
  <2>3. n \notin clash /\ (n = m /\ op = "get" => \A w \in Others(v) : ~Uploading(w, n))
    BY <2>1
  <2>4. ~Uploading(v, n)' /\ (Sending(v, n)' => n = m /\ op = "get")
    BY <2>1 DEF Uploading, Sending
  <2> QED
    BY <2>2, <2>3, <2>4 DEF OneUpload, Others
<1> QED
  BY <1>1, <1>2, <1>3, <1>4 DEF Next, Working

-----------------------------------------------------------------------------
(***************************************************************************)
(* The list.  A name in a string is in every longer one, and the string of *)
(* the names grows with the list.                                          *)
(***************************************************************************)
LEMMA StrstrLonger ==
  ASSUME NEW s \in Seq(Nat), NEW x \in Seq(Nat), NEW w \in Seq(Nat), strstr(s, w)
  PROVE  strstr(s \o x, w)
<1>1. PICK k \in 0..Len(s) - Len(w) : SubSeq(s, k + 1, k + Len(w)) = w
  BY DEF strstr
<1>2. /\ Len(s) \in Nat /\ Len(w) \in Nat /\ Len(x) \in Nat /\ k \in Nat /\ k + Len(w) <= Len(s)
      /\ Len(s \o x) = Len(s) + Len(x) /\ k \in 0..Len(s \o x) - Len(w)
  OBVIOUS
<1>3. \A j \in 1..Len(s) : (s \o x)[j] = s[j]
  BY <1>2
<1>4. SubSeq(s \o x, k + 1, k + Len(w)) = SubSeq(s, k + 1, k + Len(w))
  BY <1>2, <1>3
<1> QED
  BY <1>1, <1>2, <1>4 DEF strstr

LEMMA StrstrLast ==
  ASSUME NEW s \in Seq(Nat), NEW w \in Seq(Nat)
  PROVE  strstr(s \o w, w)
<1>1. /\ Len(s) \in Nat /\ Len(w) \in Nat /\ Len(s \o w) = Len(s) + Len(w)
      /\ Len(s) \in 0..Len(s \o w) - Len(w) /\ s \o w \in Seq(Nat)
  OBVIOUS
<1>2. \A j \in 1..Len(w) : (s \o w)[Len(s) + j] = w[j]
  BY <1>1
<1>3. SubSeq(s \o w, Len(s) + 1, Len(s) + Len(w)) = w
  BY <1>1, <1>2
<1> QED
  BY <1>1, <1>3 DEF strstr

LEMMA NamesGrow ==
  ASSUME NEW L \in Seq(Names), NEW n \in Names
  PROVE  LET str(M) == FlattenSeq([k \in DOMAIN M |-> Spell[M[k]]])
         IN  str(L) \in Seq(Nat) /\ str(Append(L, n)) = str(L) \o Spell[n]
<1> DEFINE s == [k \in DOMAIN L |-> Spell[L[k]]]
           t == [k \in DOMAIN Append(L, n) |-> Spell[Append(L, n)[k]]]
<1>1. \A m \in Names : Spell[m] \in Seq(Nat)
  BY SpellAssumption DEF Names
<1>2. /\ DOMAIN L = 1..Len(L) /\ Len(L) \in Nat /\ \A k \in 1..Len(L) : L[k] \in Names
      /\ Append(L, n) \in Seq(Names) /\ Len(Append(L, n)) = Len(L) + 1
      /\ DOMAIN Append(L, n) = 1..Len(L) + 1
      /\ \A k \in 1..Len(L) : Append(L, n)[k] = L[k]
      /\ Append(L, n)[Len(L) + 1] = n
  OBVIOUS
<1>3. s \in Seq(Seq(Nat)) /\ Len(s) = Len(L)
  <2>1. s \in [1..Len(L) -> Seq(Nat)]
    BY <1>1, <1>2
  <2> QED
    BY <1>2, <2>1
<1>4. t = Append(s, Spell[n])
  <2>1. t = [k \in 1..Len(L) + 1 |-> t[k]]
    BY <1>2
  <2>2. \A k \in 1..Len(L) : t[k] = s[k]
    BY <1>2
  <2>3. t[Len(L) + 1] = Spell[n]
    BY <1>2
  <2>4. /\ Append(s, Spell[n]) = [k \in 1..Len(L) + 1 |-> Append(s, Spell[n])[k]]
        /\ \A k \in 1..Len(L) : Append(s, Spell[n])[k] = s[k]
        /\ Append(s, Spell[n])[Len(L) + 1] = Spell[n]
    BY <1>1, <1>2, <1>3
  <2> HIDE DEF s, t
  <2>5. \A k \in 1..Len(L) + 1 : t[k] = Append(s, Spell[n])[k]
    BY <1>2, <2>2, <2>3, <2>4
  <2> QED
    BY <2>1, <2>4, <2>5
<1>5. FlattenSeq(s) \in Seq(Nat) /\ FlattenSeq(Append(s, Spell[n])) = FlattenSeq(s) \o Spell[n]
  <2> HIDE DEF s
  <2> QED
    BY <1>1, <1>3, FlattenAppend
<1> QED
  BY <1>4, <1>5

LEMMA ElementiGrow ==
  ASSUME TypeInv, NEW n \in Names
  PROVE  /\ elementi_lista \in Seq(Nat) /\ Spell[n] \in Seq(Nat)
         /\ Lista' = Append(Lista, n) => elementi_lista' = elementi_lista \o Spell[n]
<1>1. Lista \in Seq(Names)
  BY DEF TypeInv, Shared
<1>2. Spell[n] \in Seq(Nat)
  BY SpellAssumption DEF Names
<1> QED
  BY <1>1, <1>2, NamesGrow DEF elementi_lista

LEMMA ListChanges ==
  ASSUME TypeInv, [Next]_vars
  PROVE  Lista' = Lista \/ \E t \in Threads : AppendToList(t)
<1>1. CASE UNCHANGED vars
  BY <1>1 DEF vars
<1>2. ASSUME NEW t \in Threads, Working(t), ~AppendToList(t)
      PROVE  Lista' = Lista
  BY <1>2, WorkingEffect
<1> QED
  BY <1>1, <1>2, StartPutEffect, StartLookupEffect DEF Next, Working

\* A name that is found stays found.
LEMMA FoundStays ==
  ASSUME TypeInv, [Next]_vars, NEW n \in Names, strstr(elementi_lista, Spell[n])
  PROVE  strstr(elementi_lista, Spell[n])'
<1>1. CASE Lista' = Lista
  BY <1>1 DEF elementi_lista, strstr
<1>2. ASSUME NEW t \in Threads, AppendToList(t)
      PROVE  strstr(elementi_lista, Spell[n])'
  <2>1. Lista' = Append(Lista, th[t].name) /\ th[t].name \in Names
    BY <1>2, AppendToListEffect, PutOrGet
  <2>2. elementi_lista' = elementi_lista \o Spell[th[t].name]
    BY <2>1, ElementiGrow
  <2>3. elementi_lista \in Seq(Nat) /\ Spell[th[t].name] \in Seq(Nat) /\ Spell[n] \in Seq(Nat)
    BY <2>1, ElementiGrow
  <2>4. strstr(elementi_lista \o Spell[th[t].name], Spell[n])
    <3> HIDE DEF elementi_lista
    <3> QED
      BY <2>3, StrstrLonger
  <2> QED
    BY <2>2, <2>4 DEF strstr
<1> QED
  BY <1>1, <1>2, ListChanges

LEMMA ListHoldsNext ==
  ASSUME TypeInv, ListHolds, [Next]_vars
  PROVE  ListHolds'
<1>1. Lista \in Seq(Names) /\ DOMAIN Lista = 1..Len(Lista) /\ Len(Lista) \in Nat
  BY DEF TypeInv, Shared
<1>2. CASE Lista' = Lista
  <2>1. \A k \in DOMAIN Lista : Lista[k] \in Names
    BY <1>1
  <2> QED
    BY <1>2, <2>1, FoundStays DEF ListHolds
<1>3. ASSUME NEW t \in Threads, AppendToList(t)
      PROVE  ListHolds'
  <2>1. Lista' = Append(Lista, th[t].name) /\ th[t].name \in Names
    BY <1>3, AppendToListEffect, PutOrGet
  <2>2. /\ DOMAIN Lista' = 1..Len(Lista) + 1 /\ Lista'[Len(Lista) + 1] = th[t].name
        /\ \A k \in 1..Len(Lista) : Lista'[k] = Lista[k] /\ Lista[k] \in Names
    BY <1>1, <2>1
  <2>3. \A k \in 1..Len(Lista) : strstr(elementi_lista', Spell[Lista'[k]])
    <3> SUFFICES ASSUME NEW k \in 1..Len(Lista)
                 PROVE  strstr(elementi_lista', Spell[Lista'[k]])
      OBVIOUS
    <3>1. strstr(elementi_lista, Spell[Lista[k]]) /\ Lista[k] \in Names /\ Lista'[k] = Lista[k]
      BY <1>1, <2>2 DEF ListHolds
    <3>2. ASSUME NEW n \in Names, n = Lista[k]
          PROVE  strstr(elementi_lista', Spell[n])
      BY <3>1, <3>2, FoundStays DEF strstr
    <3> QED
      BY <3>1, <3>2
  <2>4. strstr(elementi_lista', Spell[th[t].name])
    <3>1. elementi_lista' = elementi_lista \o Spell[th[t].name]
      BY <2>1, ElementiGrow
    <3>2. elementi_lista \in Seq(Nat) /\ Spell[th[t].name] \in Seq(Nat)
      BY <2>1, ElementiGrow
    <3> HIDE DEF elementi_lista
    <3>3. strstr(elementi_lista \o Spell[th[t].name], Spell[th[t].name])
      BY <3>2, StrstrLast
    <3> QED
      BY <3>1, <3>3
  <2> QED
    <3>1. ASSUME NEW k \in 1..Len(Lista) + 1
          PROVE  strstr(elementi_lista', Spell[Lista'[k]])
      <4>1. k \in 1..Len(Lista) \/ k = Len(Lista) + 1
        BY <1>1
      <4> QED
        BY <2>2, <2>3, <2>4, <4>1
    <3>2. \A k \in DOMAIN Lista' : strstr(elementi_lista', Spell[Lista'[k]])
      BY <2>2, <3>1
    <3> QED
      BY <3>2 DEF ListHolds, strstr
<1> QED
  BY <1>2, <1>3, ListChanges

LEMMA FileHoldsNext ==
  ASSUME TypeInv, FileHolds, [Next]_vars
  PROVE  FileHolds'
<1> DEFINE Storing(t, n) == th[t].name = n /\ th[t].pc \in {"write", "check", "append"}
<1> SUFFICES ASSUME NEW n \in Names, disk'[n] # <<>>, ~strstr(elementi_lista, Spell[n])'
             PROVE  \E t \in Threads : Storing(t, n)'
  BY DEF FileHolds
<1>1. ~strstr(elementi_lista, Spell[n])
  BY FoundStays
<1>2. disk[n] = <<>> \/ \E t \in Threads : Storing(t, n)
  BY <1>1 DEF FileHolds
<1>3. CASE UNCHANGED vars
  BY <1>2, <1>3 DEF vars
<1>4. ASSUME NEW v \in Threads, Working(v)
      PROVE  \E t \in Threads : Storing(t, n)'
  <2>1. /\ th'[v].name = th[v].name /\ \A u \in Others(v) : th'[u] = th[u]
        /\ ~WriteBlock(v) => disk' = disk
        /\ th[v].pc \in {"write", "check", "append"} =>
             \/ th'[v].pc \in {"write", "check", "append"} \/ AppendToList(v)
             \/ strstr(elementi_lista, Spell[th[v].name])
    BY <1>4, WorkingEffect DEF Local
  <2>2. ASSUME NEW t \in Threads, Storing(t, n), t # v
        PROVE  Storing(t, n)'
    BY <2>1, <2>2 DEF Others
  <2>3. CASE Storing(v, n)
    <3>1. AppendToList(v) => FALSE
      <4> SUFFICES ASSUME AppendToList(v) PROVE FALSE
        OBVIOUS
      <4>1. elementi_lista' = elementi_lista \o Spell[n]
        BY <2>3, AppendToListEffect, ElementiGrow
      <4>2. elementi_lista \in Seq(Nat) /\ Spell[n] \in Seq(Nat)
        BY ElementiGrow
      <4> HIDE DEF elementi_lista
      <4>3. strstr(elementi_lista \o Spell[n], Spell[n])
        BY <4>2, StrstrLast
      <4> QED
        BY <4>1, <4>3 DEF strstr
    <3> QED
      BY <1>1, <2>1, <2>3, <3>1
  <2>4. CASE WriteBlock(v) /\ ~Storing(v, n)
    <3>1. th[v].pc = "write" /\ th[v].name # n
      BY <2>4, WriteBlockEffect
    <3>2. disk'[n] = disk[n]
      BY <2>4, <3>1, WriteBlockFile
    <3> QED
      BY <1>2, <2>2, <2>4, <3>2
  <2>5. CASE ~WriteBlock(v) /\ ~Storing(v, n)
    BY <1>2, <2>1, <2>2, <2>5
  <2> QED
    BY <2>3, <2>4, <2>5
<1>5. ASSUME NEW v \in Threads, NEW m \in Names, StartPut(v, m)
      PROVE  \E t \in Threads : Storing(t, n)'
  <2>1. /\ th[v].pc = "start" /\ disk' = [disk EXCEPT ![m] = <<>>]
        /\ \A u \in Others(v) : th'[u] = th[u]
    BY <1>5, StartPutEffect
  <2>2. disk'[n] = disk[n]
    BY <2>1 DEF TypeInv, Shared
  <2> QED
    BY <1>2, <2>1, <2>2 DEF Others
<1>6. ASSUME NEW v \in Threads, NEW m \in Names, NEW op \in {"list", "get"}, StartLookup(v, op, m)
      PROVE  \E t \in Threads : Storing(t, n)'
  <2>1. disk' = disk /\ th[v].pc = "start" /\ \A w \in Others(v) : Meets(w)
    BY <1>6, StartLookupEffect
  <2>2. ASSUME NEW w \in Others(v), Storing(w, n)
        PROVE  Storing(w, n)'
    <3>1. PICK x \in BOOLEAN : th'[w] = [th[w] EXCEPT !.alone = x]
      BY <2>1 DEF Meets
    <3>2. th[w] \in Thread
      BY DEF TypeInv, Others
    <3>3. th'[w].pc = th[w].pc /\ th'[w].name = th[w].name
      BY <3>1, <3>2 DEF Thread
    <3> QED
      BY <2>2, <3>3
  <2> QED
    BY <1>2, <2>1, <2>2 DEF Others
<1> QED
  BY <1>3, <1>4, <1>5, <1>6 DEF Next, Working

\* Another thread is not about to append the same name.
LEMMA AppendNext ==
  ASSUME TypeInv, OneUpload, ListHolds, AppendIsNew, ListedOnce, [Next]_vars
  PROVE  AppendIsNew' /\ ListedOnce'
<1>1. Lista \in Seq(Names) /\ DOMAIN Lista = 1..Len(Lista) /\ Len(Lista) \in Nat
  BY DEF TypeInv, Shared
<1>2. clash \subseteq clash'
  <2>1. CASE UNCHANGED vars
    BY <2>1 DEF vars
  <2> QED
    BY <2>1, WorkingEffect, StartPutEffect, StartLookupEffect DEF Next, Working
<1>3. ASSUME NEW t \in Threads, AppendToList(t)
      PROVE  AppendIsNew' /\ ListedOnce'
  <2>1. /\ Lista' = Append(Lista, th[t].name) /\ th[t].name \in Names /\ th[t].pc = "append"
        /\ th'[t].pc = "start" /\ clash' = clash /\ \A u \in Others(t) : th'[u] = th[u]
    BY <1>3, AppendToListEffect, PutOrGet DEF Local
  <2>2. /\ DOMAIN Lista' = 1..Len(Lista) + 1 /\ Lista'[Len(Lista) + 1] = th[t].name
        /\ \A k \in 1..Len(Lista) : Lista'[k] = Lista[k]
    BY <1>1, <2>1
  <2>3. ToSet(Lista') = ToSet(Lista) \cup {th[t].name}
    BY <1>1, <2>2 DEF ToSet
  <2>4. ASSUME NEW u \in Threads, At(u, "append")', th'[u].name \notin clash'
        PROVE  th'[u].name \notin ToSet(Lista')
    <3>1. u # t /\ th'[u] = th[u] /\ At(u, "append") /\ th[u].name \notin clash
      BY <2>1, <2>4 DEF At, Others
    <3>2. th[u].name # th[t].name
      BY <2>1, <3>1, PutOrGet DEF OneUpload, Uploading, At
    <3> QED
      BY <2>3, <3>1, <3>2 DEF AppendIsNew
  <2>5. ASSUME NEW j \in DOMAIN Lista', NEW k \in DOMAIN Lista', Lista'[j] = Lista'[k], Lista'[j] \notin clash'
        PROVE  j = k
    <3>1. (j \in 1..Len(Lista) \/ j = Len(Lista) + 1) /\ (k \in 1..Len(Lista) \/ k = Len(Lista) + 1)
      BY <1>1, <2>2
    <3>2. th[t].name \notin clash => \A l \in 1..Len(Lista) : Lista[l] # th[t].name
      BY <1>1, <2>1 DEF AppendIsNew, At, ToSet
    <3> QED
      BY <1>1, <2>1, <2>2, <2>5, <3>1, <3>2 DEF ListedOnce
  <2> QED
    BY <2>4, <2>5 DEF AppendIsNew, ListedOnce
<1>4. CASE Lista' = Lista
  <2>1. ListedOnce'
    BY <1>2, <1>4 DEF ListedOnce
  <2>2. ASSUME NEW u \in Threads, At(u, "append")', th'[u].name \notin clash'
        PROVE  (At(u, "append") /\ th'[u].name = th[u].name) \/ CheckList(u)
    <3>1. CASE UNCHANGED vars
      BY <2>2, <3>1 DEF At, vars
    <3>2. ASSUME NEW v \in Threads, Working(v)
          PROVE  (At(u, "append") /\ th'[u].name = th[u].name) \/ CheckList(u)
      <4>1. CASE u = v
        BY <2>2, <3>2, <4>1, WorkingEffect DEF At
      <4>2. CASE u # v
        BY <2>2, <3>2, <4>2, WorkingEffect DEF At, Local, Others
      <4> QED
        BY <4>1, <4>2
    <3>3. ASSUME NEW v \in Threads, NEW m \in Names, StartPut(v, m)
          PROVE  (At(u, "append") /\ th'[u].name = th[u].name) \/ CheckList(u)
      BY <2>2, <3>3, StartPutEffect DEF At, Others
    <3>4. ASSUME NEW v \in Threads, NEW m \in Names, NEW op \in {"list", "get"}, StartLookup(v, op, m)
          PROVE  (At(u, "append") /\ th'[u].name = th[u].name) \/ CheckList(u)
      <4>1. th'[v].pc = "read" /\ \A w \in Others(v) : Meets(w)
        BY <3>4, StartLookupEffect
      <4>2. u \in Others(v) /\ th[u] \in Thread
        BY <2>2, <4>1 DEF At, Others, TypeInv
      <4>3. PICK x \in BOOLEAN : th'[u] = [th[u] EXCEPT !.alone = x]
        BY <4>1, <4>2 DEF Meets
      <4>4. th'[u].pc = th[u].pc /\ th'[u].name = th[u].name
        BY <4>2, <4>3 DEF Thread
      <4> QED
        BY <2>2, <4>4 DEF At
    <3> QED
      BY <3>1, <3>2, <3>3, <3>4 DEF Next, Working
  <2>3. ASSUME NEW u \in Threads, CheckList(u), At(u, "append")'
        PROVE  th'[u].name = th[u].name /\ th[u].name \notin ToSet(Lista)
    <3>1. th'[u].name = th[u].name /\ ~strstr(elementi_lista, Spell[th[u].name])
      BY <2>3, CheckListEffect DEF Local, At
    <3> HIDE DEF elementi_lista
    <3> QED
      BY <1>1, <3>1 DEF ListHolds, ToSet
  <2> QED
    BY <1>2, <1>4, <2>1, <2>2, <2>3 DEF AppendIsNew
<1> QED
  BY <1>3, <1>4, ListChanges

LEMMA ListInit == Init => ListInv
<1> SUFFICES ASSUME Init PROVE ListInv
  OBVIOUS
<1>1. TypeInv
  BY TypeInit
<1>2. \A t \in Threads : th[t].pc = "start"
  BY DEF Init, Idle
<1>3. Lista = <<>> \/ \E n \in Names : Lista = <<n>>
  BY DEF Init
<1>4. ListHolds
  <2>1. CASE Lista = <<>>
    BY <2>1 DEF ListHolds
  <2>2. ASSUME NEW n \in Names, Lista = <<n>>
        PROVE  ListHolds
    <3> DEFINE str(M) == FlattenSeq([k \in DOMAIN M |-> Spell[M[k]]])
    <3>1. <<>> \in Seq(Names) /\ Append(<<>>, n) = <<n>>
      OBVIOUS
    <3>2. str(<<>>) \in Seq(Nat) /\ str(Append(<<>>, n)) = str(<<>>) \o Spell[n]
      BY <3>1, NamesGrow
    <3>3. Spell[n] \in Seq(Nat)
      BY SpellAssumption DEF Names
    <3>4. elementi_lista = str(Append(<<>>, n))
      BY <2>2, <3>1 DEF elementi_lista
    <3> HIDE DEF str
    <3>5. strstr(elementi_lista, Spell[n])
      BY <3>2, <3>3, <3>4, StrstrLast
    <3> HIDE DEF elementi_lista
    <3> QED
      BY <2>2, <3>5 DEF ListHolds
  <2> QED
    BY <1>3, <2>1, <2>2
<1>5. FileHolds
  <2>1. ASSUME NEW n \in Names, disk[n] # <<>>
        PROVE  strstr(elementi_lista, Spell[n])
    <3>1. n \in ToSet(Lista)
      BY <2>1 DEF Init
    <3> HIDE DEF elementi_lista
    <3> QED
      BY <1>4, <3>1 DEF ListHolds, ToSet
  <2> QED
    BY <2>1 DEF FileHolds
<1>6. OneUpload /\ AppendIsNew
  BY <1>2 DEF OneUpload, AppendIsNew, Uploading, At
<1>7. ListedOnce
  BY <1>3 DEF ListedOnce
<1> QED
  BY <1>4, <1>5, <1>6, <1>7 DEF ListInv

LEMMA ListInvCorrect == Spec => [](TypeInv /\ ListInv)
<1>1. Init => TypeInv /\ ListInv
  BY TypeInit, ListInit
<1>2. TypeInv /\ ListInv /\ [Next]_vars => (TypeInv /\ ListInv)'
  BY TypeNext, OneUploadNext, ListHoldsNext, FileHoldsNext, AppendNext DEF ListInv
<1> QED
  BY <1>1, <1>2, PTL DEF Spec

\* Uploads of one name that no other use of it meets list it once, although the
\* check of the list and the append to it are two steps.
THEOREM ListedOnceCorrect == Spec => []ListedOnce
<1>1. ListInv => ListedOnce
  BY DEF ListInv
<1> QED
  BY <1>1, ListInvCorrect, PTL

\* No file with contents is lost to the list: once its upload is over its name is
\* there, or strstr finds it hidden in the names that are.
THEOREM FileIsListedCorrect == Spec => []FileIsListed
<1>1. ListInv => FileIsListed
  BY DEF ListInv, FileHolds, FileIsListed, Uploading
<1> QED
  BY <1>1, ListInvCorrect, PTL

-----------------------------------------------------------------------------
(***************************************************************************)
(* The blocks.                                                             *)
(***************************************************************************)
\* What one thread's step does to the file of another that no one else uses.
LEMMA FileStays ==
  ASSUME TypeInv, OneUpload, NEW u \in Threads, th[u].name \notin clash',
         Uploading(u, th[u].name) \/ Sending(u, th[u].name),
         NEW v \in Others(u),
         Working(v) \/ (\E m \in Names : StartPut(v, m))
           \/ \E m \in Names, op \in {"list", "get"} : StartLookup(v, op, m)
  PROVE  disk'[th[u].name] = disk[th[u].name]
<1>1. v \in Threads /\ u \in Others(v) /\ th[u].name \in Names
  BY PutOrGet DEF Others
<1>2. CASE WriteBlock(v)
  <2>1. th[v].pc \in Writing /\ clash' = clash
    BY <1>1, <1>2, WriteBlockEffect DEF Writing
  <2>2. Uploading(v, th[v].name)
    BY <1>1, <2>1, PutOrGet
  <2>3. th[v].name # th[u].name
    BY <1>1, <2>1, <2>2 DEF OneUpload, Others
  <2> QED
    BY <1>1, <1>2, <2>3, WriteBlockFile
<1>3. ASSUME NEW m \in Names, StartPut(v, m)
      PROVE  disk'[th[u].name] = disk[th[u].name]
  <2>1. /\ disk' = [disk EXCEPT ![m] = <<>>]
        /\ clash' = clash \cup {k \in {m} : \E w \in Others(v) : Uploading(w, k) \/ Sending(w, k)}
    BY <1>1, <1>3, StartPutEffect
  <2>2. m # th[u].name
    BY <1>1, <2>1
  <2> QED
    BY <1>1, <2>1, <2>2 DEF TypeInv, Shared
<1> QED
  BY <1>1, <1>2, <1>3, WorkingEffect, StartLookupEffect

\* In a step each thread either takes it, or keeps all but alone.
LEMMA OthersKeep ==
  ASSUME TypeInv, NEW v \in Threads, NEW u \in Others(v),
         Working(v) \/ (\E m \in Names : StartPut(v, m))
           \/ \E m \in Names, op \in {"list", "get"} : StartLookup(v, op, m)
  PROVE  /\ u \in Threads /\ v \in Others(u) /\ clash \subseteq clash'
         /\ th'[u].pc = th[u].pc /\ th'[u].op = th[u].op /\ th'[u].name = th[u].name
         /\ th'[u].h = th[u].h /\ th'[u].id = th[u].id /\ th'[u].got = th[u].got
<1>1. u \in Threads /\ v \in Others(u) /\ th[u] \in Thread
  BY DEF Others, TypeInv
<1>2. CASE Working(v)
  BY <1>1, <1>2, WorkingEffect DEF Local
<1>3. CASE \E m \in Names : StartPut(v, m)
  BY <1>1, <1>3, StartPutEffect
<1>4. ASSUME NEW m \in Names, NEW op \in {"list", "get"}, StartLookup(v, op, m)
      PROVE  /\ clash \subseteq clash'
             /\ th'[u].pc = th[u].pc /\ th'[u].op = th[u].op /\ th'[u].name = th[u].name
             /\ th'[u].h = th[u].h /\ th'[u].id = th[u].id /\ th'[u].got = th[u].got
  <2>1. Meets(u) /\ clash \subseteq clash'
    BY <1>4, StartLookupEffect
  <2>2. PICK x \in BOOLEAN : th'[u] = [th[u] EXCEPT !.alone = x]
    BY <2>1 DEF Meets
  <2> QED
    BY <1>1, <2>1, <2>2 DEF Thread
<1> QED
  BY <1>1, <1>2, <1>3, <1>4

\* A written block goes behind the others.
LEMMA WriteGoesOn ==
  ASSUME TypeInv, NEW t \in Threads, WriteBlock(t), UploadGood(t), th[t].name \notin clash
  PROVE  LET b == disk'[th[t].name]
         IN  Len(b) = th[t].h + 1 /\ \A k \in 1..th[t].h + 1 : b[k] = th[t].id
<1>1. /\ At(t, "write") /\ th[t].h \in Nat
      /\ Len(disk[th[t].name]) = th[t].h
      /\ \A k \in 1..th[t].h : disk[th[t].name][k] = th[t].id
  BY WriteBlockEffect, Places DEF At, UploadGood
<1>2. ASSUME NEW b, b = disk[th[t].name], NEW k, k = th[t].h + 1, NEW x, x = th[t].id
      PROVE  Len(Written(b, k, x)) = k /\ \A j \in 1..k : Written(b, k, x)[j] = x
  <2>1. b \in Seq(Block) /\ k \in Nat \ {0} /\ x \in Block
    BY <1>2, WriteBlockFile DEF Block
  <2>2. Len(b) = k - 1 /\ \A j \in 1..k - 1 : b[j] = x
    BY <1>1, <1>2
  <2>3. /\ Len(Written(b, k, x)) = k
        /\ \A j \in 1..k : Written(b, k, x)[j] = IF j = k THEN x ELSE IF j <= Len(b) THEN b[j] ELSE Hole
    <3> DEFINE c == Written(b, k, x)
    <3>1. /\ Len(c) = IF Len(b) < k THEN k ELSE Len(b)
          /\ \A j \in 1..Len(c) : c[j] = IF j = k THEN x ELSE IF j <= Len(b) THEN b[j] ELSE Hole
      BY <2>1, WrittenTypes
    <3>2. Len(b) < k
      BY <2>1, <2>2
    <3> HIDE DEF c
    <3>3. Len(c) = k
      BY <3>1, <3>2
    <3>4. \A j \in 1..k : c[j] = IF j = k THEN x ELSE IF j <= Len(b) THEN b[j] ELSE Hole
      BY <3>1, <3>3
    <3> QED
      BY <3>3, <3>4 DEF c
  <2> QED
    BY <2>1, <2>2, <2>3
<1>3. disk'[th[t].name] = Written(disk[th[t].name], th[t].h + 1, th[t].id)
  BY WriteBlockFile
<1> QED
  BY <1>2, <1>3

LEMMA UploadWorking ==
  ASSUME TypeInv, NEW t \in Threads, Working(t), UploadGood(t)
  PROVE  UploadGood(t)'
<1> SUFFICES ASSUME th'[t].name \notin clash', th'[t].pc \in {"size", "write"}
             PROVE  UploadGood(t)'
  BY DEF UploadGood, At
<1>1. th'[t].name = th[t].name /\ clash' = clash /\ th'[t].id = th[t].id /\ th'[t].pc \in Writing
  BY WorkingEffect DEF Local, Writing
<1>2. th[t] \in Thread /\ RequestFits(th[t]) /\ th[t].pc \in Writing
  BY <1>1, WorkingEffect DEF TypeInv
<1>3. CASE ReadSize(t)
  <2>1. /\ At(t, "size") /\ th'[t].pc \in {"write", "start"} /\ th'[t].h = th[t].h /\ disk' = disk
    BY <1>3, ReadSizeEffect DEF At, Quiet
  <2>2. disk[th[t].name] = <<>> /\ th[t].h = 0
    BY <1>1, <2>1 DEF UploadGood
  <2> QED
    BY <1>1, <2>1, <2>2 DEF UploadGood, At
<1>4. CASE WriteBlock(t)
  <2>1. th'[t].h = th[t].h + 1 /\ th'[t].pc = "write"
    BY <1>4, WriteBlockEffect
  <2> QED
    BY <1>1, <1>4, <2>1, WriteGoesOn DEF UploadGood, At
<1>5. CASE EndOfUpload(t)
  BY <1>5, EndOfUploadEffect
<1>6. CASE CheckList(t)
  BY <1>6, CheckListEffect
<1>7. CASE AppendToList(t)
  BY <1>7, AppendToListEffect
<1>8. ReadSize(t) \/ WriteBlock(t) \/ EndOfUpload(t) \/ CheckList(t) \/ AppendToList(t)
  BY <1>2 DEF Working, Lookup, ReadName, EndOfList, SendNumber, SendName, ResetIndex, TestIndex, Compare,
     TestLast, LoadIndex, StoreIndex, OpenFile, SendBlock, PrintName, At, Writing
<1> QED
  BY <1>3, <1>4, <1>5, <1>6, <1>7, <1>8

LEMMA SentWorking ==
  ASSUME TypeInv, NEW t \in Threads, Working(t), SentGood(t)
  PROVE  SentGood(t)'
<1> SUFFICES ASSUME th'[t].name \notin clash', th'[t].op = "get", th'[t].pc \in Reading
             PROVE  SentGood(t)'
  BY DEF SentGood, At, Reading
<1>1. /\ th'[t].name = th[t].name /\ th[t].op = "get" /\ clash' = clash /\ th[t].pc \in Reading
      /\ th'[t].pc \in Reading \ {"send", "print"} => th[t].pc \in Reading \ {"send", "print"}
  BY WorkingEffect DEF Local
<1>2. disk' = disk
  BY <1>1, WorkingEffect, WriteBlockEffect DEF Reading
<1>3. th[t] \in Thread /\ disk[th[t].name] \in Seq(Block) /\ th[t].got \in Seq(Block)
  BY DEF TypeInv, Shared, Thread
<1>4. CASE SendBlock(t)
  <2>1. /\ th[t].pc = "send"
        /\ Len(th[t].got) <= Len(disk[th[t].name])
        /\ \A k \in 1..Len(th[t].got) : th[t].got[k] = disk[th[t].name][k]
    BY <1>1, <1>4, SendBlockEffect DEF SentGood, At
  <2>2. CASE Len(th[t].got) + 1 <= Len(disk[th[t].name])
    <3> DEFINE n == Len(th[t].got)
               b == disk[th[t].name]
    <3>1. th'[t].pc = "send" /\ th'[t].got = Append(th[t].got, b[n + 1])
      BY <1>4, <2>2, SendBlockEffect
    <3>2. /\ Len(th'[t].got) = n + 1 /\ n \in Nat /\ th'[t].got[n + 1] = b[n + 1]
          /\ \A k \in 1..n : th'[t].got[k] = th[t].got[k]
      BY <1>3, <3>1
    <3>3. \A k \in 1..n + 1 : k \in 1..n \/ k = n + 1
      BY <3>2
    <3>4. \A k \in 1..n + 1 : th'[t].got[k] = b[k]
      BY <2>1, <3>2, <3>3
    <3> QED
      BY <1>1, <1>2, <2>2, <3>1, <3>2, <3>4 DEF SentGood, At
  <2>3. CASE ~(Len(th[t].got) + 1 <= Len(disk[th[t].name]))
    <3>1. th'[t].pc = "print" /\ th'[t].got = th[t].got
      BY <1>4, <2>3, SendBlockEffect
    <3>2. Len(th[t].got) = Len(disk[th[t].name])
      BY <1>3, <2>1, <2>3
    <3>3. th[t].got = disk[th[t].name]
      BY <1>3, <2>1, <3>2
    <3> QED
      BY <1>1, <1>2, <3>1, <3>3 DEF SentGood, At
  <2> QED
    BY <2>2, <2>3
<1>5. CASE OpenFile(t)
  <2>1. th[t].pc = "open" /\ th'[t].got = th[t].got
    BY <1>5, OpenFileEffect
  <2>2. th[t].got = <<>>
    BY <1>1, <2>1 DEF SentGood, Reading
  <2>3. Len(th'[t].got) = 0 /\ th'[t].got = <<>> /\ Len(disk[th[t].name]) \in Nat
    BY <1>3, <2>1, <2>2
  <2>4. th'[t].pc # "print"
    BY <1>5, OpenFileEffect
  <2> QED
    BY <1>1, <1>2, <2>3, <2>4 DEF SentGood, At
<1>6. CASE ~SendBlock(t) /\ ~OpenFile(t)
  <2>1. th'[t].pc \in Reading \ {"send", "print"} /\ th'[t].got = th[t].got
    BY <1>1, <1>6, ReadNameEffect, EndOfListEffect, SendNumberEffect, SendNameEffect, ResetIndexEffect,
       TestIndexEffect, CompareEffect, TestLastEffect, LoadIndexEffect, StoreIndexEffect, PrintNameEffect,
       ReadSizeEffect, WriteBlockEffect, EndOfUploadEffect, CheckListEffect, AppendToListEffect
       DEF Working, Lookup, Reading
  <2> QED
    BY <1>1, <2>1 DEF SentGood, At
<1> QED
  BY <1>4, <1>5, <1>6

\* A thread that does not take the step keeps what holds of its file.
LEMMA BlockOthers ==
  ASSUME TypeInv, OneUpload, NEW v \in Threads, NEW u \in Others(v), UploadGood(u), SentGood(u),
         Working(v) \/ (\E m \in Names : StartPut(v, m))
           \/ \E m \in Names, op \in {"list", "get"} : StartLookup(v, op, m)
  PROVE  UploadGood(u)' /\ SentGood(u)'
<1>1. /\ u \in Threads /\ v \in Others(u) /\ clash \subseteq clash'
      /\ th'[u].pc = th[u].pc /\ th'[u].op = th[u].op /\ th'[u].name = th[u].name
      /\ th'[u].h = th[u].h /\ th'[u].id = th[u].id /\ th'[u].got = th[u].got
  BY OthersKeep
<1>2. CASE th[u].name \in clash'
  BY <1>1, <1>2 DEF UploadGood, SentGood
<1>3. CASE th[u].name \notin clash' /\ th[u].pc \in {"size", "write", "send", "print"}
  <2>1. Uploading(u, th[u].name) \/ Sending(u, th[u].name)
    BY <1>1, <1>3, PutOrGet DEF Writing
  <2>2. disk'[th[u].name] = disk[th[u].name]
    BY <1>1, <1>3, <2>1, FileStays
  <2> QED
    BY <1>1, <2>2 DEF UploadGood, SentGood, At
<1>4. CASE th[u].name \notin clash' /\ th[u].pc \notin {"size", "write", "send", "print"}
  BY <1>1, <1>4 DEF UploadGood, SentGood, At
<1> QED
  BY <1>2, <1>3, <1>4

LEMMA UniformNext ==
  ASSUME TypeInv, BlockInv, [Next]_vars, NEW n \in Names \ clash'
  PROVE  Uniform(disk'[n])
<1>1. CASE disk' = disk /\ clash \subseteq clash'
  BY <1>1 DEF BlockInv
<1>2. ASSUME NEW t \in Threads, WriteBlock(t)
      PROVE  Uniform(disk'[n])
  <2>1. clash' = clash /\ th[t].pc = "write"
    BY <1>2, WriteBlockEffect
  <2>2. CASE n = th[t].name
    <3>1. Len(disk'[n]) = th[t].h + 1 /\ \A k \in 1..th[t].h + 1 : disk'[n][k] = th[t].id
      BY <1>2, <2>1, <2>2, WriteGoesOn DEF BlockInv
    <3>2. th[t].id # Hole
      BY <1>2, WriteBlockFile DEF Hole
    <3>3. disk'[n] \in Seq(Block)
      BY TypeNext DEF TypeInv, Shared
    <3>4. DOMAIN disk'[n] = 1..th[t].h + 1
      BY <3>1, <3>3
    <3> QED
      BY <3>1, <3>2, <3>4 DEF Uniform
  <2>3. CASE n # th[t].name
    BY <1>2, <2>1, <2>3, WriteBlockFile DEF BlockInv
  <2> QED
    BY <2>2, <2>3
<1>3. ASSUME NEW t \in Threads, NEW m \in Names, StartPut(t, m)
      PROVE  Uniform(disk'[n])
  <2>1. disk' = [disk EXCEPT ![m] = <<>>] /\ clash \subseteq clash' /\ disk \in [Names -> Seq(Block)]
    BY <1>3, StartPutEffect DEF TypeInv, Shared
  <2>2. CASE n = m
    BY <2>1, <2>2 DEF Uniform
  <2>3. CASE n # m
    BY <2>1, <2>3 DEF BlockInv
  <2> QED
    BY <2>2, <2>3
<1>4. CASE UNCHANGED vars
  BY <1>1, <1>4 DEF vars
<1>5. ASSUME NEW t \in Threads, Working(t), ~WriteBlock(t)
      PROVE  disk' = disk /\ clash \subseteq clash'
  BY <1>5, WorkingEffect
<1>6. ASSUME NEW t \in Threads, NEW m \in Names, NEW op \in {"list", "get"}, StartLookup(t, op, m)
      PROVE  disk' = disk /\ clash \subseteq clash'
  BY <1>6, StartLookupEffect
<1> QED
  BY <1>1, <1>2, <1>3, <1>4, <1>5, <1>6 DEF Next, Working

LEMMA BlockNext ==
  ASSUME TypeInv, BlockInv, [Next]_vars
  PROVE  BlockInv'
<1>1. OneUpload' /\ \A n \in Names \ clash' : Uniform(disk'[n])
  BY OneUploadNext, UniformNext DEF BlockInv
<1>2. ASSUME NEW u \in Threads
      PROVE  UploadGood(u)' /\ SentGood(u)'
  <2>1. CASE UNCHANGED vars
    BY <2>1 DEF BlockInv, UploadGood, SentGood, At, vars
  <2>2. ASSUME NEW v \in Threads,
               Working(v) \/ (\E m \in Names : StartPut(v, m))
                 \/ \E m \in Names, op \in {"list", "get"} : StartLookup(v, op, m)
        PROVE  UploadGood(u)' /\ SentGood(u)'
    <3>1. CASE u # v
      BY <2>2, <3>1, BlockOthers DEF BlockInv, Others
    <3>2. CASE u = v /\ Working(v)
      BY <3>2, UploadWorking, SentWorking DEF BlockInv
    <3>3. ASSUME NEW m \in Names, StartPut(v, m), u = v
          PROVE  UploadGood(u)' /\ SentGood(u)'
      <4>1. /\ th'[u].pc = "size" /\ th'[u].op = "put" /\ th'[u].name = m /\ th'[u].h = 0
            /\ disk' = [disk EXCEPT ![m] = <<>>] /\ disk \in [Names -> Seq(Block)]
        BY <3>3, StartPutEffect DEF TypeInv, Shared
      <4> QED
        BY <4>1 DEF UploadGood, SentGood, At
    <3>4. ASSUME NEW m \in Names, NEW op \in {"list", "get"}, StartLookup(v, op, m), u = v
          PROVE  UploadGood(u)' /\ SentGood(u)'
      <4>1. th'[u].pc = "read" /\ th'[u].got = <<>>
        BY <3>4, StartLookupEffect
      <4> QED
        BY <4>1 DEF UploadGood, SentGood, At
    <3> QED
      BY <2>2, <3>1, <3>2, <3>3, <3>4
  <2> QED
    BY <2>1, <2>2 DEF Next, Working
<1> QED
  BY <1>1, <1>2 DEF BlockInv

LEMMA BlockInit == Init => BlockInv
<1> SUFFICES ASSUME Init PROVE BlockInv
  OBVIOUS
<1>1. \A t \in Threads : th[t].pc = "start"
  BY DEF Init, Idle
<1>2. ASSUME NEW n \in Names
      PROVE  Uniform(disk[n])
  <2>1. disk[n] = [k \in 1..FileLen |-> Original] \/ disk[n] = <<>>
    BY DEF Init
  <2>2. Uniform([k \in 1..FileLen |-> Original])
    BY DEF Uniform, Original, Hole
  <2>3. Uniform(<<>>)
    BY DEF Uniform
  <2> QED
    BY <2>1, <2>2, <2>3, Zenon
<1> QED
  BY <1>1, <1>2 DEF BlockInv, OneUpload, Uploading, UploadGood, SentGood, At, Reading

LEMMA BlockInvCorrect == Spec => [](TypeInv /\ BlockInv)
<1>1. Init => TypeInv /\ BlockInv
  BY TypeInit, BlockInit
<1>2. TypeInv /\ BlockInv /\ [Next]_vars => (TypeInv /\ BlockInv)'
  BY TypeNext, BlockNext
<1> QED
  BY <1>1, <1>2, PTL DEF Spec

\* A file that no other upload or get met while it was uploaded is the blocks of
\* one upload without a hole, and a get has sent all of it and nothing else.
THEOREM FilesNotMixedCorrect == Spec => []FilesNotMixed
<1>1. TypeInv /\ BlockInv => FilesNotMixed
  BY DEF BlockInv, Uniform, SentGood, FilesNotMixed, TypeInv, RequestFits, At, Reading
<1> QED
  BY <1>1, BlockInvCorrect, PTL
=============================================================================
