-------------------------- MODULE ApiClientsProofs --------------------------
(***************************************************************************)
(* Theorems about ApiClients for every set of resources and processes,     *)
(* every manifest and every size of the channels and of a page.  Names may *)
(* hold colons anywhere, so that two resources may share a key.            *)
(***************************************************************************)
EXTENDS ApiClients, FiniteSetTheorems, SequenceTheorems, WellFoundedInduction, TLAPS

-----------------------------------------------------------------------------
(* Keys.                                                                   *)

\* A key and an index member are joined in the same way.
LEMMA KeyIsMember == \A x : Key(x) = Member(x)
BY DEF Key, Member

\* A set of positions has a first one.
LEMMA FirstOf == ASSUME NEW P, P \subseteq Nat, P # {} PROVE \E i \in P : \A j \in P : ~(j < i)
<1> DEFINE R == OpToRel(<, Nat)
<1>1. PICK i \in P : \A j \in P : ~(<<j, i>> \in R)
  <2> HIDE DEF R
  <2>1. IsWellFoundedOn(R, Nat)
    BY NatLessThanWellFounded DEF R
  <2> QED BY <2>1, WFMin
<1>2. \A j \in P : j < i => <<j, i>> \in R
  BY DEF OpToRel
<1> QED BY <1>1, <1>2

\* A key is a sequence with a colon in it.
LEMMA KeyHasColon ==
    ASSUME NEW id \in Ids
    PROVE  /\ Key(id) \in Seq(STRING \cup {":"})
           /\ \E i \in DOMAIN Key(id) : Key(id)[i] = ":"
<1> DEFINE a == id[1]
           n == id[2]
           m == Key(id)
           sep == <<":">>
           Char == STRING \cup {":"}
<1>1. a \in Seq(Char) /\ n \in Seq(Char)
  <2>1. id[1] \in Seq(STRING) /\ id[2] \in Seq(STRING)
    BY ResourceAssumption
  <2> QED BY <2>1, SeqMonotonic
<1>2. sep \in Seq(Char) /\ Len(sep) = 1 /\ sep[1] = ":"
  <2>1. ASSUME NEW S, NEW x \in S PROVE <<x>> \in Seq(S) /\ Len(<<x>>) = 1 /\ <<x>>[1] = x
    OBVIOUS
  <2>2. ":" \in Char
    OBVIOUS
  <2> QED BY <2>1, <2>2
<1>3. m = (a \o sep) \o n
  BY DEF Key
<1> HIDE DEF a, n, m, sep, Char
<1>4. /\ a \o sep \in Seq(Char) /\ Len(a \o sep) = Len(a) + 1
      /\ (a \o sep)[Len(a) + 1] = ":" /\ Len(a) \in Nat /\ Len(n) \in Nat
  <2>1. /\ a \o sep \in Seq(Char) /\ Len(a \o sep) = Len(a) + Len(sep)
        /\ \A i \in 1..(Len(a) + Len(sep)) :
              (a \o sep)[i] = IF i <= Len(a) THEN a[i] ELSE sep[i - Len(a)]
    BY <1>1, <1>2, ConcatProperties
  <2>2. Len(a) \in Nat /\ Len(n) \in Nat
    BY <1>1
  <2>3. /\ Len(a) + 1 \in 1..(Len(a) + Len(sep)) /\ ~(Len(a) + 1 <= Len(a))
        /\ (Len(a) + 1) - Len(a) = 1
    BY <1>2, <2>2
  <2> QED BY <1>2, <2>1, <2>2, <2>3
<1>5. m \in Seq(Char) /\ Len(a) + 1 \in DOMAIN m /\ m[Len(a) + 1] = ":"
  <2> DEFINE b == a \o sep
  <2> HIDE DEF b
  <2>1. b \in Seq(Char) /\ Len(b) = Len(a) + 1 /\ b[Len(a) + 1] = ":" /\ m = b \o n
    BY <1>3, <1>4 DEF b
  <2>2. /\ m \in Seq(Char) /\ Len(m) = Len(b) + Len(n)
        /\ \A i \in 1..(Len(b) + Len(n)) : m[i] = IF i <= Len(b) THEN b[i] ELSE n[i - Len(b)]
    BY <1>1, <2>1, ConcatProperties
  <2>3. Len(a) + 1 \in 1..(Len(b) + Len(n)) /\ Len(a) + 1 <= Len(b) /\ DOMAIN m = 1..Len(m)
    BY <1>4, <2>1, <2>2
  <2> QED BY <2>1, <2>2, <2>3
<1> QED BY <1>5 DEF m, Char

\* The two parts SplitN makes of a key join to that key again, wherever its
\* colons are.
LEMMA SplitKey == ASSUME NEW m \in Keys PROVE Key(SplitN(m)) = m
<1> DEFINE Char == STRING \cup {":"}
           sep == <<":">>
           First(i) == m[i] = ":" /\ \A j \in 1..(i - 1) : m[j] # ":"
           at == CHOOSE i \in DOMAIN m : First(i)
           a == SubSeq(m, 1, at - 1)
           n == SubSeq(m, at + 1, Len(m))
<1>1. m \in Seq(Char) /\ \E i \in DOMAIN m : m[i] = ":"
  BY KeyHasColon DEF Keys
<1>2. \E i \in DOMAIN m : First(i)
  <2> DEFINE P == {i \in DOMAIN m : m[i] = ":"}
  <2>1. DOMAIN m = 1..Len(m) /\ Len(m) \in Nat
    BY <1>1
  <2>2. P \subseteq Nat /\ P # {}
    BY <1>1, <2>1
  <2>3. PICK i \in P : \A j \in P : ~(j < i)
    <3> HIDE DEF P
    <3> QED BY <2>2, FirstOf
  <2>4. ASSUME NEW j \in 1..(i - 1) PROVE m[j] # ":"
    <3>1. j \in DOMAIN m /\ j < i
      BY <2>1, <2>3
    <3> QED BY <2>3, <3>1
  <2> QED BY <2>3, <2>4
<1>3. at \in DOMAIN m /\ m[at] = ":"
  BY <1>2
<1>4. SplitN(m) = <<a, n>>
  BY DEF SplitN
<1> HIDE DEF at
<1>5. at \in Nat /\ 1 <= at /\ at <= Len(m) /\ Len(m) \in Nat /\ DOMAIN m = 1..Len(m)
  BY <1>1, <1>3
<1>6. a \in Seq(Char) /\ Len(a) = at - 1 /\ \A i \in 1..(at - 1) : a[i] = m[i]
  <2>1. \A i \in 1..(at - 1) : m[i] \in Char
    BY <1>1, <1>5
  <2> QED BY <1>1, <1>5, <2>1
<1>7. n \in Seq(Char) /\ Len(n) = Len(m) - at /\ \A i \in 1..(Len(m) - at) : n[i] = m[at + i]
  <2> DEFINE p == at + 1
             q == Len(m)
  <2>1. p \in Int /\ q \in Int /\ \A i \in p..q : m[i] \in Char
    BY <1>1, <1>5
  <2>2. n = SubSeq(m, p, q)
    OBVIOUS
  <2> HIDE DEF n, Char, p, q
  <2>3. /\ n \in Seq(Char) /\ Len(n) = (IF p <= q THEN q - p + 1 ELSE 0)
        /\ \A i \in 1..(q - p + 1) : n[i] = m[p + i - 1]
    BY <2>1, <2>2, SubSeqProperties
  <2>4. (IF p <= q THEN q - p + 1 ELSE 0) = Len(m) - at /\ q - p + 1 = Len(m) - at
    <3> HIDE DEF at
    <3>1. ASSUME NEW l \in Nat, NEW t \in Nat, 1 <= t, t <= l
          PROVE  (IF t + 1 <= l THEN l - (t + 1) + 1 ELSE 0) = l - t /\ l - (t + 1) + 1 = l - t
      BY <3>1
    <3> QED BY <1>5, <3>1 DEF p, q
  <2>5. \A i \in 1..(Len(m) - at) : p + i - 1 = at + i
    BY <1>5 DEF p
  <2> QED BY <2>3, <2>4, <2>5
<1>8. sep \in Seq(Char) /\ Len(sep) = 1 /\ sep[1] = ":"
  <2>1. ASSUME NEW S, NEW x \in S PROVE <<x>> \in Seq(S) /\ Len(<<x>>) = 1 /\ <<x>>[1] = x
    OBVIOUS
  <2>2. ":" \in Char
    OBVIOUS
  <2> QED BY <2>1, <2>2
<1> DEFINE b == a \o sep
           k == b \o n
<1>9. Key(SplitN(m)) = k
  <2> HIDE DEF a, n
  <2>1. <<a, n>>[1] = a /\ <<a, n>>[2] = n
    OBVIOUS
  <2> QED BY <1>4, <2>1 DEF Key
<1> HIDE DEF a, n, sep, Char
<1>10. b \in Seq(Char) /\ Len(b) = at /\ \A i \in 1..at : b[i] = m[i]
  <2>1. /\ b \in Seq(Char) /\ Len(b) = Len(a) + Len(sep)
        /\ \A i \in 1..(Len(a) + Len(sep)) : b[i] = IF i <= Len(a) THEN a[i] ELSE sep[i - Len(a)]
    BY <1>6, <1>8, ConcatProperties
  <2> HIDE DEF b
  <2>2. Len(a) + Len(sep) = at /\ Len(b) = at
    BY <1>5, <1>6, <1>8, <2>1
  <2>3. ASSUME NEW i \in 1..at PROVE b[i] = m[i]
    <3>1. CASE i <= Len(a)
      BY <1>5, <1>6, <2>1, <2>2, <3>1
    <3>2. CASE ~(i <= Len(a))
      <4>1. i = at /\ i - Len(a) = 1
        BY <1>5, <1>6, <3>2
      <4> QED BY <1>3, <1>8, <2>1, <2>2, <3>2, <4>1
    <3> QED BY <3>1, <3>2
  <2> QED BY <2>1, <2>2, <2>3
<1> HIDE DEF b
<1>11. k \in Seq(Char) /\ Len(k) = Len(m) /\ \A i \in 1..Len(m) : k[i] = m[i]
  <2>1. /\ k \in Seq(Char) /\ Len(k) = Len(b) + Len(n)
        /\ \A i \in 1..(Len(b) + Len(n)) : k[i] = IF i <= Len(b) THEN b[i] ELSE n[i - Len(b)]
    BY <1>7, <1>10, ConcatProperties
  <2> HIDE DEF k
  <2>2. Len(b) + Len(n) = Len(m) /\ Len(k) = Len(m)
    BY <1>5, <1>7, <1>10, <2>1
  <2>3. ASSUME NEW i \in 1..Len(m) PROVE k[i] = m[i]
    <3>1. CASE i <= Len(b)
      BY <1>5, <1>10, <2>1, <2>2, <3>1
    <3>2. CASE ~(i <= Len(b))
      <4>1. i - at \in 1..(Len(m) - at) /\ at + (i - at) = i /\ k[i] = n[i - at]
        BY <1>5, <1>10, <2>1, <2>2, <3>2
      <4> QED BY <1>7, <4>1
    <3> QED BY <3>1, <3>2
  <2> QED BY <2>1, <2>2, <2>3
<1> HIDE DEF k
<1>12. k = m
  BY <1>1, <1>11, SeqEqual
<1> QED BY <1>9, <1>12

\* A resource that stands apart shares its key with no other.
LEMMA KeysDiffer == ASSUME NEW x \in Apart, NEW y \in Ids, Key(x) = Key(y) PROVE x = y
BY KeyIsMember DEF Apart

-----------------------------------------------------------------------------
(* The inductive invariant.  Its parts are operators of the values they    *)
(* speak of, so that a lemma can be applied to the state before a step and *)
(* to the state after it.                                                  *)

PhasesOf(k) == IF k = "task" THEN Phases ELSE {""}

\* A complete record of kind k, and one as a save may be given it.
Rec(k) == [id : Ids, spec : Specs, phase : PhasesOf(k)]
Draft(k) == [id : Ids, spec : Specs, phase : PhasesOf(k) \cup {""}]

DBs(k) ==
    [objects : [Keys -> {None} \cup Rec(k)], index : SUBSET {Member(id) : id \in Ids},
     byAtespace : [Atespaces -> SUBSET Names]]

\* A database of store b and kind k, when T are the resources that exist.
\* Every record is under the key of its own id; whatever exists and stands
\* apart has one; the memory store has no others; the indexes of Redis hold
\* what exists, but for members that were deleted under another's name.  A
\* record of Redis outside T is one a late MarkTaskDeleting wrote back.
StoreOK(b, k, d, T) ==
    /\ d \in DBs(k)
    /\ T \subseteq Ids /\ IsFiniteSet(T)
    /\ \A m \in Keys : d.objects[m] # None => Key(d.objects[m].id) = m
    /\ \A id \in T \cap Apart : d.objects[Key(id)] # None
    /\ b = "memory" => \A m \in Keys : d.objects[m] # None => d.objects[m].id \in T
    /\ b = "redis" =>
          /\ \A m \in d.index : \E id \in T : m = Member(id)
          /\ \A id \in T \cap Apart : Member(id) \in d.index
          /\ \A a \in Atespaces : \A n \in d.byAtespace[a] : <<a, n>> \in T
          /\ \A id \in T : id[2] \in d.byAtespace[id[1]]

CommandNames == {"none", "apply", "list", "delete", "watch", "suspend", "resume"}
OfOneId == {"delete", "poll", "read", "save", "mark", "emit", "subscribe", "initial", "stream"}
OfTasks == {"read", "save", "mark", "emit", "subscribe", "initial", "stream"}
OfLists == {"range", "fetch", "shown"}
Labels == {"idle", "update"} \cup OfOneId \cup OfLists

\* What the first round trip of a list may find.
Found == {SplitN(m) : m \in Keys}

ClientRec(k) ==
    [cmd : CommandNames, pc : Labels, id : Ids \cup {NoId}, docs : Seq(Documents),
     held : {None} \cup Rec(k), scope : Atespaces \cup {All}, members : SUBSET Found,
     result : SUBSET ({None} \cup Rec(k)), event : {"", "reconcile", "delete"}]

\* A command: what each of its steps may count on.
ClientOK(b, k, r) ==
    /\ r \in ClientRec(k)
    /\ r.pc = "update" => r.docs # <<>>
    /\ r.pc \in OfOneId \/ r.cmd = "delete" => r.id \in Ids
    /\ r.pc \in OfTasks => k = "task"
    /\ r.pc \in {"save", "mark"} => r.held # None
    /\ r.pc \in {"mark", "fetch"} => b = "redis"
    /\ r.pc = "emit" => r.event # ""
    /\ r.cmd = "list" <=> r.pc \in OfLists

SubOK(b, s) ==
    /\ s \in [id : Ids \cup {NoId}, ch : Seq(Phases), lost : BOOLEAN]
    /\ b = "memory" => Len(s.ch) <= ChanCap

TaskEvents == [id : Ids, action : {"reconcile", "delete"}]
Work == [id : Ids, action : {"reconcile", "delete"}, phases : SUBSET Phases]

\* A page of a list: what it shows was there, and what was there all the
\* time is shown unless there was too much.
Complete(k, h, scope, ids) ==
    /\ ids \cap Apart \subseteq InScope(h.seen, scope)
    /\ \/ InScope(h.stable, scope) \cap Apart \subseteq ids
       \/ k = "task" /\ Cardinality(InScope(h.seen, scope)) > Limit

\* The resources whose records a second round trip will read.
IdsOf(members) == {id \in Ids : \E p \in members : Key(p) = Key(id)}

\* Each of the members is the key of a resource that was there.
Backed(h, scope, members) ==
    \A p \in members : \E id \in InScope(h.seen, scope) : Key(p) = Key(id)

\* A list under way, its history and the resources that exist.
ListOK(k, r, h, T) ==
    r.cmd = "list" =>
        /\ h.seen \subseteq Ids /\ IsFiniteSet(h.seen)
        /\ r.pc # "shown" => h.stable \subseteq T /\ T \subseteq h.seen
        /\ r.pc = "fetch" => /\ Complete(k, h, r.scope, IdsOf(r.members))
                             /\ Backed(h, r.scope, r.members)
        /\ r.pc = "shown" => Complete(k, h, r.scope, {x.id : x \in r.result})

\* The parts of the state that no list depends on.
Flow(b, k, ev, w, n, u) ==
    /\ b \in Stores /\ k \in Kinds
    /\ ev \in Seq(TaskEvents) /\ (ev # <<>> => k = "task")
    /\ w \in Work \cup {NoWork} /\ (w # NoWork => k = "task")
    /\ n \in 0..MaxCommands /\ u \subseteq Keys

Inv ==
    /\ Flow(backend, kind, events, work, issued, unserved)
    /\ StoreOK(backend, kind, db, truth)
    /\ clients = [c \in Clients |-> clients[c]]
    /\ \A c \in Clients : ClientOK(backend, kind, clients[c])
    /\ subs = [c \in Clients |-> subs[c]]
    /\ \A c \in Clients : SubOK(backend, subs[c])
    /\ \A c \in Clients : ListOK(kind, clients[c], hist[c], truth)

-----------------------------------------------------------------------------
(* The stores.                                                             *)

\* The record that says nothing is there is not a record of a resource.
LEMMA NoneIsNoRecord == \A k : None \notin Rec(k)
<1>1. ASSUME NEW id \in Ids PROVE id # <<>>
  <2>1. id \in Seq(STRING) \X Seq(STRING)
    BY ResourceAssumption
  <2>2. DOMAIN id = 1..2 /\ 1 \in 1..2
    BY <2>1
  <2>3. DOMAIN <<>> = {}
    OBVIOUS
  <2> QED BY <2>2, <2>3
<1>2. None.id = <<>>
  BY DEF None
<1>3. ASSUME NEW k, None \in Rec(k) PROVE FALSE
  <2>1. None.id \in Ids
    BY <1>3 DEF Rec
  <2> QED BY <1>1, <1>2, <2>1
<1> QED BY <1>3

\* An id is the pair of its atespace and its name.
LEMMA IdParts ==
    ASSUME NEW id \in Ids
    PROVE  /\ id = <<id[1], id[2]>> /\ id[1] \in Atespaces /\ id[2] \in Names
           /\ Key(id) \in Keys /\ Member(id) \in {Member(x) : x \in Ids}
<1>1. id \in Seq(STRING) \X Seq(STRING)
  BY ResourceAssumption
<1> QED BY <1>1 DEF Atespaces, Names, Keys

\* The parts of a database.
LEMMA Parts ==
    ASSUME NEW k, NEW d
    PROVE  d \in DBs(k) <=>
              /\ d = [objects |-> d.objects, index |-> d.index, byAtespace |-> d.byAtespace]
              /\ d.objects \in [Keys -> {None} \cup Rec(k)]
              /\ d.index \in SUBSET {Member(id) : id \in Ids}
              /\ d.byAtespace \in [Atespaces -> SUBSET Names]
BY DEF DBs

\* One record is written or removed: the others stay as they are.
LEMMA ObjectWritten ==
    ASSUME NEW k, NEW o \in [Keys -> {None} \cup Rec(k)], NEW x \in Ids, NEW v \in {None} \cup Rec(k)
    PROVE  /\ [o EXCEPT ![Key(x)] = v] \in [Keys -> {None} \cup Rec(k)]
           /\ [o EXCEPT ![Key(x)] = v][Key(x)] = v
           /\ \A m \in Keys : m # Key(x) => [o EXCEPT ![Key(x)] = v][m] = o[m]
<1>1. Key(x) \in Keys
  BY IdParts
<1> QED BY <1>1

\* The records of d with v under the key of x.
WithRecord(d, x, v) == [d.objects EXCEPT ![Key(x)] = v]

\* The records of a store after r is written among them.
LEMMA WrittenOK ==
    ASSUME NEW b, NEW k, NEW d, NEW T, StoreOK(b, k, d, T), NEW r \in Rec(k),
           NEW o, o = WithRecord(d, r.id, r)
    PROVE  /\ o \in [Keys -> {None} \cup Rec(k)] /\ o[Key(r.id)] = r
           /\ \A m \in Keys : o[m] # None => Key(o[m].id) = m
           /\ \A id \in (T \cup {r.id}) \cap Apart : o[Key(id)] # None
           /\ b = "memory" => \A m \in Keys : o[m] # None => o[m].id \in T \cup {r.id}
<1>0. r.id \in Ids /\ r # None /\ r \in {None} \cup Rec(k)
  BY NoneIsNoRecord DEF Rec
<1>1. /\ d.objects \in [Keys -> {None} \cup Rec(k)]
      /\ \A m \in Keys : d.objects[m] # None => Key(d.objects[m].id) = m
      /\ \A id \in T \cap Apart : d.objects[Key(id)] # None
      /\ b = "memory" => \A m \in Keys : d.objects[m] # None => d.objects[m].id \in T
  BY Parts DEF StoreOK
<1>2. /\ o \in [Keys -> {None} \cup Rec(k)] /\ o[Key(r.id)] = r
      /\ \A m \in Keys : m # Key(r.id) => o[m] = d.objects[m]
  BY <1>0, <1>1, ObjectWritten DEF WithRecord
<1>3. \A m \in Keys : o[m] # None => Key(o[m].id) = m
  BY <1>1, <1>2
<1>4. ASSUME NEW id \in (T \cup {r.id}) \cap Apart PROVE o[Key(id)] # None
  <2>1. id \in Ids /\ Key(id) \in Keys
    BY IdParts DEF Apart
  <2>2. CASE Key(id) = Key(r.id)
    BY <1>0, <1>2, <2>2
  <2>3. CASE Key(id) # Key(r.id)
    <3>1. id \in T \cap Apart
      BY <1>4, <2>3
    <3> QED BY <1>1, <1>2, <2>1, <2>3, <3>1
  <2> QED BY <2>2, <2>3
<1>5. ASSUME b = "memory", NEW m \in Keys, o[m] # None PROVE o[m].id \in T \cup {r.id}
  BY <1>1, <1>2, <1>5
<1> QED BY <1>2, <1>3, <1>4, <1>5

\* The records of a store after the one of x is removed.
LEMMA RemovedOK ==
    ASSUME NEW b, NEW k, NEW d, NEW T, StoreOK(b, k, d, T), NEW x \in Ids,
           NEW o, o = WithRecord(d, x, None)
    PROVE  /\ o \in [Keys -> {None} \cup Rec(k)]
           /\ \A m \in Keys : o[m] # None => Key(o[m].id) = m
           /\ \A id \in (T \ {x}) \cap Apart : o[Key(id)] # None
           /\ b = "memory" => \A m \in Keys : o[m] # None => o[m].id \in T \ {x}
<1>0. None \in {None} \cup Rec(k)
  OBVIOUS
<1>1. /\ d.objects \in [Keys -> {None} \cup Rec(k)]
      /\ \A m \in Keys : d.objects[m] # None => Key(d.objects[m].id) = m
      /\ \A id \in T \cap Apart : d.objects[Key(id)] # None
      /\ b = "memory" => \A m \in Keys : d.objects[m] # None => d.objects[m].id \in T
  BY Parts DEF StoreOK
<1>2. /\ o \in [Keys -> {None} \cup Rec(k)] /\ o[Key(x)] = None
      /\ \A m \in Keys : m # Key(x) => o[m] = d.objects[m]
  BY <1>0, <1>1, ObjectWritten DEF WithRecord
<1>3. \A m \in Keys : o[m] # None => Key(o[m].id) = m
  BY <1>1, <1>2
<1>4. ASSUME NEW id \in (T \ {x}) \cap Apart PROVE o[Key(id)] # None
  <2>1. id \in Ids /\ Key(id) \in Keys /\ id \in T \cap Apart
    BY IdParts DEF Apart
  <2>2. Key(id) # Key(x)
    BY <1>4, <2>1, KeysDiffer
  <2> QED BY <1>1, <1>2, <2>1, <2>2
<1>5. ASSUME b = "memory", NEW m \in Keys, o[m] # None PROVE o[m].id \in T \ {x}
  <2>1. m # Key(x)
    BY <1>2, <1>5
  <2>2. o[m] = d.objects[m] /\ o[m].id \in T /\ Key(o[m].id) = m
    BY <1>1, <1>2, <1>5, <2>1
  <2>3. o[m].id # x
    BY <2>1, <2>2
  <2> QED BY <2>2, <2>3
<1> QED BY <1>2, <1>3, <1>4, <1>5

\* SET and ZADD.
LEMMA PutOK ==
    ASSUME NEW k, NEW d, NEW T, StoreOK("redis", k, d, T), NEW r \in Rec(k)
    PROVE  StoreOK("redis", k, Put(d, r), T \cup {r.id}) /\ Fetch(Put(d, r), r.id) = r
<1> DEFINE e == Put(d, r)
           U == T \cup {r.id}
<1>1. r.id \in Ids /\ r # None
  BY NoneIsNoRecord DEF Rec
<1>2. /\ d.objects \in [Keys -> {None} \cup Rec(k)]
      /\ d.index \in SUBSET {Member(id) : id \in Ids}
      /\ d.byAtespace \in [Atespaces -> SUBSET Names]
      /\ T \subseteq Ids /\ IsFiniteSet(T)
      /\ \A m \in d.index : \E id \in T : m = Member(id)
      /\ \A id \in T \cap Apart : Member(id) \in d.index
      /\ \A a \in Atespaces : \A n \in d.byAtespace[a] : <<a, n>> \in T
      /\ \A id \in T : id[2] \in d.byAtespace[id[1]]
  BY Parts DEF StoreOK
<1>3. /\ e = [objects |-> e.objects, index |-> e.index, byAtespace |-> e.byAtespace]
      /\ e.objects = WithRecord(d, r.id, r)
      /\ e.index = d.index \cup {Member(r.id)}
      /\ e.byAtespace = [d.byAtespace EXCEPT ![r.id[1]] = d.byAtespace[r.id[1]] \cup {r.id[2]}]
  BY DEF Put, WithRecord
<1> HIDE DEF e
<1>4. /\ e.objects \in [Keys -> {None} \cup Rec(k)]
      /\ \A m \in Keys : e.objects[m] # None => Key(e.objects[m].id) = m
      /\ \A id \in U \cap Apart : e.objects[Key(id)] # None
      /\ e.objects[Key(r.id)] = r
  BY <1>3, WrittenOK
<1>5. /\ r.id = <<r.id[1], r.id[2]>> /\ r.id[1] \in Atespaces /\ r.id[2] \in Names
      /\ Member(r.id) \in {Member(x) : x \in Ids}
  BY <1>1, IdParts
<1>6. e.index \in SUBSET {Member(id) : id \in Ids}
  BY <1>2, <1>3, <1>5
<1>7. e.byAtespace \in [Atespaces -> SUBSET Names]
  BY <1>2, <1>3, <1>5
<1>8. e \in DBs(k)
  BY <1>3, <1>4, <1>6, <1>7, Parts
<1>9. U \subseteq Ids /\ IsFiniteSet(U)
  BY <1>1, <1>2, FS_AddElement
<1>10. \A m \in e.index : \E id \in U : m = Member(id)
  BY <1>2, <1>3
<1>11. \A id \in U \cap Apart : Member(id) \in e.index
  BY <1>2, <1>3
<1>12. ASSUME NEW a \in Atespaces, NEW n \in e.byAtespace[a] PROVE <<a, n>> \in U
  <2>1. CASE a = r.id[1] /\ n = r.id[2]
    BY <1>5, <2>1
  <2>2. CASE ~(a = r.id[1] /\ n = r.id[2])
    <3>1. n \in d.byAtespace[a]
      BY <1>2, <1>3, <1>5, <1>12, <2>2
    <3> QED BY <1>2, <3>1
  <2> QED BY <2>1, <2>2
<1>13. ASSUME NEW id \in U PROVE id[2] \in e.byAtespace[id[1]]
  <2>0. id[1] \in Atespaces
    BY <1>9, IdParts
  <2>1. CASE id = r.id
    BY <1>2, <1>3, <1>5, <2>1
  <2>2. CASE id \in T
    <3>1. id[2] \in d.byAtespace[id[1]]
      BY <1>2, <2>2
    <3> QED BY <1>2, <1>3, <1>5, <2>0, <3>1
  <2> QED BY <2>1, <2>2
<1>14. StoreOK("redis", k, e, U)
  BY <1>4, <1>8, <1>9, <1>10, <1>11, <1>12, <1>13 DEF StoreOK
<1> QED BY <1>4, <1>14 DEF e, Fetch

\* DEL and ZREM.
LEMMA RemoveOK ==
    ASSUME NEW k, NEW d, NEW T, StoreOK("redis", k, d, T), NEW x \in Ids
    PROVE  StoreOK("redis", k, Remove(d, x), T \ {x})
<1> DEFINE e == Remove(d, x)
           U == T \ {x}
<1>2. /\ d.objects \in [Keys -> {None} \cup Rec(k)]
      /\ d.index \in SUBSET {Member(id) : id \in Ids}
      /\ d.byAtespace \in [Atespaces -> SUBSET Names]
      /\ T \subseteq Ids /\ IsFiniteSet(T)
      /\ \A m \in d.index : \E id \in T : m = Member(id)
      /\ \A id \in T \cap Apart : Member(id) \in d.index
      /\ \A a \in Atespaces : \A n \in d.byAtespace[a] : <<a, n>> \in T
      /\ \A id \in T : id[2] \in d.byAtespace[id[1]]
  BY Parts DEF StoreOK
<1>3. /\ e = [objects |-> e.objects, index |-> e.index, byAtespace |-> e.byAtespace]
      /\ e.objects = WithRecord(d, x, None)
      /\ e.index = d.index \ {Member(x)}
      /\ e.byAtespace = [d.byAtespace EXCEPT ![x[1]] = d.byAtespace[x[1]] \ {x[2]}]
  BY DEF Remove, WithRecord
<1> HIDE DEF e
<1>4. /\ e.objects \in [Keys -> {None} \cup Rec(k)]
      /\ \A m \in Keys : e.objects[m] # None => Key(e.objects[m].id) = m
      /\ \A id \in U \cap Apart : e.objects[Key(id)] # None
  BY <1>3, RemovedOK
<1>5. /\ x = <<x[1], x[2]>> /\ x[1] \in Atespaces /\ x[2] \in Names
  BY IdParts
<1>6. e.index \in SUBSET {Member(id) : id \in Ids}
  BY <1>2, <1>3
<1>7. e.byAtespace \in [Atespaces -> SUBSET Names]
  BY <1>2, <1>3, <1>5
<1>8. e \in DBs(k)
  BY <1>3, <1>4, <1>6, <1>7, Parts
<1>9. U \subseteq Ids /\ IsFiniteSet(U)
  BY <1>2, FS_RemoveElement
<1>10. ASSUME NEW m \in e.index PROVE \E id \in U : m = Member(id)
  <2>1. m \in d.index /\ m # Member(x)
    BY <1>3, <1>10
  <2>2. PICK id \in T : m = Member(id)
    BY <1>2, <2>1
  <2> QED BY <2>1, <2>2
<1>11. ASSUME NEW id \in U \cap Apart PROVE Member(id) \in e.index
  <2>1. Member(id) \in d.index /\ id # x
    BY <1>2
  <2>2. Member(id) # Member(x)
    BY <2>1 DEF Apart
  <2> QED BY <1>3, <2>1, <2>2
<1>12. ASSUME NEW a \in Atespaces, NEW n \in e.byAtespace[a] PROVE <<a, n>> \in U
  <2>1. n \in d.byAtespace[a] /\ ~(a = x[1] /\ n = x[2])
    BY <1>2, <1>3, <1>5, <1>12
  <2>2. <<a, n>> # x
    BY <1>5, <2>1
  <2> QED BY <1>2, <2>1, <2>2
<1>13. ASSUME NEW id \in U PROVE id[2] \in e.byAtespace[id[1]]
  <2>1. id[1] \in Atespaces /\ id = <<id[1], id[2]>> /\ id[2] \in d.byAtespace[id[1]]
    BY <1>2, <1>9, IdParts
  <2>2. ~(id[1] = x[1] /\ id[2] = x[2])
    BY <1>5, <2>1
  <2> QED BY <1>2, <1>3, <1>5, <2>1, <2>2
<1>14. StoreOK("redis", k, e, U)
  BY <1>4, <1>8, <1>9, <1>10, <1>11, <1>12, <1>13 DEF StoreOK
<1> QED BY <1>14 DEF e

\* A record is written without the indexes.  In the memory store that is a
\* save when the id is new.
LEMMA SetRecordOK ==
    ASSUME NEW b, NEW k, NEW d, NEW T, StoreOK(b, k, d, T), NEW r \in Rec(k),
           b = "memory" => r.id \in T
    PROVE  StoreOK(b, k, SetRecord(d, r), T)
<1> DEFINE e == SetRecord(d, r)
<1>1. r.id \in Ids /\ r # None
  BY NoneIsNoRecord DEF Rec
<1>2. d \in DBs(k)
  BY DEF StoreOK
<1>3. /\ e.objects = WithRecord(d, r.id, r)
      /\ e.index = d.index
      /\ e.byAtespace = d.byAtespace
      /\ e = [objects |-> e.objects, index |-> e.index, byAtespace |-> e.byAtespace]
  BY <1>2 DEF SetRecord, DBs, WithRecord
<1> HIDE DEF e
<1>4. /\ e.objects \in [Keys -> {None} \cup Rec(k)]
      /\ \A m \in Keys : e.objects[m] # None => Key(e.objects[m].id) = m
      /\ \A id \in T \cap Apart : e.objects[Key(id)] # None
      /\ b = "memory" => \A m \in Keys : e.objects[m] # None => e.objects[m].id \in T
  <2>1. /\ e.objects \in [Keys -> {None} \cup Rec(k)]
        /\ \A m \in Keys : e.objects[m] # None => Key(e.objects[m].id) = m
        /\ \A id \in (T \cup {r.id}) \cap Apart : e.objects[Key(id)] # None
        /\ b = "memory" => \A m \in Keys : e.objects[m] # None => e.objects[m].id \in T \cup {r.id}
    BY <1>3, WrittenOK
  <2>2. b = "memory" => T \cup {r.id} = T
    OBVIOUS
  <2> QED BY <2>1, <2>2
<1>5. e \in DBs(k)
  <2>1. d.index \in SUBSET {Member(id) : id \in Ids} /\ d.byAtespace \in [Atespaces -> SUBSET Names]
    BY <1>2, Parts
  <2> QED BY <1>3, <1>4, <2>1, Parts
<1>6. StoreOK(b, k, e, T)
  BY <1>3, <1>4, <1>5 DEF StoreOK
<1> QED BY <1>6 DEF e

\* The memory store's map.
LEMMA MemoryOK ==
    ASSUME NEW k, NEW d, NEW T, StoreOK("memory", k, d, T)
    PROVE  /\ \A r \in Rec(k) : /\ StoreOK("memory", k, MemoryPut(d, r), T \cup {r.id})
                                /\ Fetch(MemoryPut(d, r), r.id) = r
           /\ \A x \in Ids : StoreOK("memory", k, MemoryRemove(d, x), T \ {x})
<1>1. d \in DBs(k) /\ T \subseteq Ids /\ IsFiniteSet(T) /\ "memory" # "redis"
  BY DEF StoreOK
<1>2. ASSUME NEW U, NEW e, NEW o \in [Keys -> {None} \cup Rec(k)],
             e = [objects |-> o, index |-> d.index, byAtespace |-> d.byAtespace],
             U \subseteq Ids, IsFiniteSet(U),
             \A m \in Keys : o[m] # None => Key(o[m].id) = m,
             \A id \in U \cap Apart : o[Key(id)] # None,
             \A m \in Keys : o[m] # None => o[m].id \in U
      PROVE  StoreOK("memory", k, e, U)
  <2>1. e.objects = o /\ e.index = d.index /\ e.byAtespace = d.byAtespace
    BY <1>2
  <2>2. d.index \in SUBSET {Member(id) : id \in Ids} /\ d.byAtespace \in [Atespaces -> SUBSET Names]
    BY <1>1, Parts
  <2>3. e \in DBs(k)
    BY <1>2, <2>1, <2>2, Parts
  <2> QED BY <1>1, <1>2, <2>1, <2>3 DEF StoreOK
<1>3. ASSUME NEW r \in Rec(k)
      PROVE  /\ StoreOK("memory", k, MemoryPut(d, r), T \cup {r.id})
             /\ Fetch(MemoryPut(d, r), r.id) = r
  <2> DEFINE o == WithRecord(d, r.id, r)
             U == T \cup {r.id}
  <2>1. r.id \in Ids /\ U \subseteq Ids /\ IsFiniteSet(U)
    BY <1>1, FS_AddElement DEF Rec
  <2>2. MemoryPut(d, r) = [objects |-> o, index |-> d.index, byAtespace |-> d.byAtespace]
    BY <1>1 DEF MemoryPut, DBs, WithRecord
  <2> HIDE DEF o
  <2>3. /\ o \in [Keys -> {None} \cup Rec(k)] /\ o[Key(r.id)] = r
        /\ \A m \in Keys : o[m] # None => Key(o[m].id) = m
        /\ \A id \in U \cap Apart : o[Key(id)] # None
        /\ \A m \in Keys : o[m] # None => o[m].id \in U
    BY WrittenOK DEF o
  <2> HIDE DEF U
  <2>4. StoreOK("memory", k, MemoryPut(d, r), U)
    BY <1>2, <2>1, <2>2, <2>3
  <2>5. Fetch(MemoryPut(d, r), r.id) = r
    BY <2>2, <2>3 DEF Fetch
  <2> QED BY <2>4, <2>5 DEF U
<1>4. ASSUME NEW x \in Ids PROVE StoreOK("memory", k, MemoryRemove(d, x), T \ {x})
  <2> DEFINE o == WithRecord(d, x, None)
             U == T \ {x}
  <2>1. U \subseteq Ids /\ IsFiniteSet(U)
    BY <1>1, FS_RemoveElement
  <2>2. MemoryRemove(d, x) = [objects |-> o, index |-> d.index, byAtespace |-> d.byAtespace]
    BY <1>1 DEF MemoryRemove, DBs, WithRecord
  <2> HIDE DEF o
  <2>3. /\ o \in [Keys -> {None} \cup Rec(k)]
        /\ \A m \in Keys : o[m] # None => Key(o[m].id) = m
        /\ \A id \in U \cap Apart : o[Key(id)] # None
        /\ \A m \in Keys : o[m] # None => o[m].id \in U
    BY RemovedOK DEF o
  <2> HIDE DEF U
  <2>4. StoreOK("memory", k, MemoryRemove(d, x), U)
    BY <1>2, <2>1, <2>2, <2>3
  <2> QED BY <2>4 DEF U
<1> QED BY <1>3, <1>4

\* The kinds of resource and the stores there are.
LEMMA KindsAndStores ==
    /\ \A k \in Kinds : k \in {"task", "gateway", "model", "workspace"}
    /\ \A b \in Stores : b \in {"redis", "memory"}
BY ClientsAssumption

\* A save makes the resource exist, whatever the store and the kind; a task
\* is saved with a phase.
LEMMA SaveOK ==
    ASSUME NEW b \in Stores, NEW k \in Kinds, NEW d, NEW T, StoreOK(b, k, d, T), NEW r \in Draft(k)
    PROVE  /\ StoreOK(b, k, Save(b, k, d, r), T \cup {r.id})
           /\ k = "task" => Get(b, k, Save(b, k, d, r), r.id).phase \in Phases
<1> DEFINE q == [r EXCEPT !.phase = IF @ = "" THEN "Pending" ELSE @]
<1>1. r.id \in Ids /\ q.id = r.id
  BY DEF Draft
<1>2. k = "task" => q \in Rec(k) /\ q.phase \in Phases
  BY DEF Draft, Rec, PhasesOf, Phases
<1>3. k # "task" => r \in Rec(k)
  BY DEF Draft, Rec, PhasesOf
<1> HIDE DEF q
<1>4. CASE b = "redis"
  <2>1. CASE k = "task"
    <3>1. Save(b, k, d, r) = Put(d, q)
      BY <1>4, <2>1 DEF Save, SaveTask, q
    <3>2. StoreOK(b, k, Put(d, q), T \cup {q.id}) /\ Fetch(Put(d, q), q.id) = q
      BY <1>2, <1>4, <2>1, PutOK
    <3>3. Get(b, k, Put(d, q), r.id) = Fetch(Put(d, q), r.id)
      BY <1>4, <2>1 DEF Get, GetTask
    <3> QED BY <1>1, <1>2, <2>1, <3>1, <3>2, <3>3
  <2>2. CASE k # "task"
    <3>1. Save(b, k, d, r) = Put(d, r)
      BY <1>4, <2>2, KindsAndStores DEF Save, SaveGateway, SaveModel, SaveWorkspace
    <3> QED BY <1>3, <1>4, <2>2, <3>1, PutOK
  <2> QED BY <2>1, <2>2
<1>5. CASE b = "memory"
  <2>1. CASE k = "task"
    <3>1. Save(b, k, d, r) = MemoryPut(d, q)
      BY <1>5, <2>1 DEF Save, MemorySaveTask, q
    <3>2. StoreOK(b, k, MemoryPut(d, q), T \cup {q.id}) /\ Fetch(MemoryPut(d, q), q.id) = q
      BY <1>2, <1>5, <2>1, MemoryOK
    <3>3. Get(b, k, MemoryPut(d, q), r.id) = Fetch(MemoryPut(d, q), r.id)
      BY <1>5, <2>1 DEF Get, MemoryGetTask
    <3> QED BY <1>1, <1>2, <2>1, <3>1, <3>2, <3>3
  <2>2. CASE k # "task"
    <3>1. Save(b, k, d, r) = MemoryPut(d, r)
      BY <1>5, <2>2, KindsAndStores DEF Save, MemorySaveGateway, MemorySaveModel, MemorySaveWorkspace
    <3> QED BY <1>3, <1>5, <2>2, <3>1, MemoryOK
  <2> QED BY <2>1, <2>2
<1> QED BY <1>4, <1>5, KindsAndStores

\* A delete makes it not exist.
LEMMA DeleteOK ==
    ASSUME NEW b \in Stores, NEW k \in Kinds, NEW d, NEW T, StoreOK(b, k, d, T), NEW x \in Ids
    PROVE  StoreOK(b, k, Delete(b, k, d, x), T \ {x})
<1>1. CASE b = "redis"
  <2>1. Delete(b, k, d, x) = Remove(d, x)
    BY <1>1, KindsAndStores DEF Delete, DeleteTask, DeleteGateway, DeleteModel, DeleteWorkspace
  <2> QED BY <1>1, <2>1, RemoveOK
<1>2. CASE b = "memory"
  <2>1. Delete(b, k, d, x) = MemoryRemove(d, x)
    BY <1>2, KindsAndStores DEF Delete, MemoryDeleteTask, MemoryDeleteGateway, MemoryDeleteModel,
       MemoryDeleteWorkspace
  <2> QED BY <1>2, <2>1, MemoryOK
<1> QED BY <1>1, <1>2, KindsAndStores

\* A read finds nothing or a complete record with that key.
LEMMA GetOK ==
    ASSUME NEW b \in Stores, NEW k \in Kinds, NEW d, NEW T, StoreOK(b, k, d, T), NEW x \in Ids,
           NEW r, r = Get(b, k, d, x)
    PROVE  /\ r = d.objects[Key(x)]
           /\ r # None => r \in Rec(k) /\ Key(r.id) = Key(x)
           /\ r # None /\ b = "memory" => r.id \in T
<1>1. r = d.objects[Key(x)]
  BY KindsAndStores DEF Get, GetTask, GetGateway, GetModel, GetWorkspace, MemoryGetTask,
     MemoryGetGateway, MemoryGetModel, MemoryGetWorkspace, Fetch
<1>2. d.objects \in [Keys -> {None} \cup Rec(k)] /\ Key(x) \in Keys
  BY IdParts, Parts DEF StoreOK
<1> QED BY <1>1, <1>2 DEF StoreOK

-----------------------------------------------------------------------------
(* Lists.                                                                  *)

\* A set whose elements are all values of a function is no larger than its
\* domain.
LEMMA ImageSmall ==
    ASSUME NEW S, IsFiniteSet(S), NEW f, NEW I, \A y \in I : \E s \in S : f[s] = y
    PROVE  IsFiniteSet(I) /\ Cardinality(I) <= Cardinality(S)
<1> DEFINE A == {s \in S : f[s] \in I}
           g == [s \in A |-> f[s]]
<1>1. A \in SUBSET S
  OBVIOUS
<1>2. IsFiniteSet(A) /\ Cardinality(A) <= Cardinality(S)
  BY <1>1, FS_Subset
<1>3. g \in Surjection(A, I)
  <2>1. g \in [A -> I]
    OBVIOUS
  <2>2. \A y \in I : \E s \in A : g[s] = y
    OBVIOUS
  <2> HIDE DEF A, g
  <2> QED BY <2>1, <2>2 DEF Surjection
<1>4. IsFiniteSet(I) /\ Cardinality(I) <= Cardinality(A)
  <2> HIDE DEF A, g
  <2> QED BY <1>2, <1>3, FS_Surjection
<1>5. Cardinality(I) \in Nat /\ Cardinality(A) \in Nat /\ Cardinality(S) \in Nat
  BY <1>2, <1>4, FS_CardinalityType
<1> HIDE DEF A
<1> QED BY <1>2, <1>4, <1>5

\* What has been shown stays right as the history grows.
LEMMA CompleteGrows ==
    ASSUME NEW k, NEW g, NEW h, NEW scope,
           g.seen \subseteq h.seen, h.stable \subseteq g.stable, IsFiniteSet(h.seen)
    PROVE  /\ \A ids : Complete(k, g, scope, ids) => Complete(k, h, scope, ids)
           /\ \A members : Backed(g, scope, members) => Backed(h, scope, members)
<1>1. /\ InScope(g.seen, scope) \in SUBSET InScope(h.seen, scope)
      /\ InScope(h.stable, scope) \subseteq InScope(g.stable, scope)
      /\ InScope(h.seen, scope) \in SUBSET h.seen
  BY DEF InScope
<1>2. IsFiniteSet(InScope(h.seen, scope)) /\ IsFiniteSet(InScope(g.seen, scope))
  BY <1>1, FS_Subset
<1>3. Cardinality(InScope(g.seen, scope)) <= Cardinality(InScope(h.seen, scope))
  BY <1>1, <1>2, FS_Subset
<1>4. Cardinality(InScope(g.seen, scope)) \in Nat /\ Cardinality(InScope(h.seen, scope)) \in Nat
  BY <1>2, FS_CardinalityType
<1>5. Cardinality(InScope(g.seen, scope)) > Limit => Cardinality(InScope(h.seen, scope)) > Limit
  BY <1>3, <1>4, ResourceAssumption
<1>6. ASSUME NEW ids, Complete(k, g, scope, ids) PROVE Complete(k, h, scope, ids)
  BY <1>1, <1>5, <1>6 DEF Complete
<1>7. ASSUME NEW members, Backed(g, scope, members) PROVE Backed(h, scope, members)
  BY <1>1, <1>7 DEF Backed
<1> QED BY <1>6, <1>7

\* A page is all there is, or there is more than fits.
LEMMA PageOf ==
    ASSUME NEW s, NEW p \in Pages(s)
    PROVE  p \subseteq s /\ (p = s \/ (kind = "task" /\ Cardinality(s) > Limit))
BY DEF Pages

\* The first round trip finds in the indexes what exists: everything it finds
\* is the key of something, and nothing that stands apart is missed.
LEMMA MembersAre ==
    ASSUME NEW k, NEW d, NEW T, StoreOK("redis", k, d, T), NEW scope \in Atespaces \cup {All}
    PROVE  /\ \A p \in Members(d, scope) :
                 p \in Found /\ \E id \in InScope(T, scope) : p = SplitN(Member(id))
           /\ \A id \in InScope(T, scope) \cap Apart : SplitN(Member(id)) \in Members(d, scope)
<1> DEFINE M == IF scope = All THEN d.index ELSE {Member(<<scope, n>>) : n \in d.byAtespace[scope]}
<1>1. /\ T \subseteq Ids
      /\ \A m \in d.index : \E id \in T : m = Member(id)
      /\ \A id \in T \cap Apart : Member(id) \in d.index
      /\ \A a \in Atespaces : \A n \in d.byAtespace[a] : <<a, n>> \in T
      /\ \A id \in T : id[2] \in d.byAtespace[id[1]]
  BY DEF StoreOK
<1>2. Members(d, scope) = {SplitN(m) : m \in M}
  BY DEF Members
<1>3. ASSUME NEW m \in M PROVE \E id \in InScope(T, scope) : m = Member(id)
  <2>1. CASE scope = All
    <3>1. PICK id \in T : m = Member(id)
      BY <1>1, <1>3, <2>1
    <3> QED BY <2>1, <3>1 DEF InScope
  <2>2. CASE scope # All
    <3>1. PICK n \in d.byAtespace[scope] : m = Member(<<scope, n>>)
      BY <1>3, <2>2
    <3>2. <<scope, n>> \in T /\ <<scope, n>>[1] = scope
      BY <1>1, <2>2
    <3> QED BY <3>1, <3>2 DEF InScope
  <2> QED BY <2>1, <2>2
<1>4. ASSUME NEW id \in InScope(T, scope) \cap Apart PROVE Member(id) \in M
  <2>1. CASE scope = All
    BY <1>1, <2>1 DEF InScope
  <2>2. CASE scope # All
    <3>1. id \in T /\ id[1] = scope
      BY <2>2 DEF InScope
    <3>2. id = <<scope, id[2]>> /\ id[2] \in d.byAtespace[scope]
      BY <1>1, <3>1, IdParts
    <3> QED BY <2>2, <3>2
  <2> QED BY <2>1, <2>2
<1> HIDE DEF M
<1>5. ASSUME NEW p \in Members(d, scope)
      PROVE  p \in Found /\ \E id \in InScope(T, scope) : p = SplitN(Member(id))
  <2>1. PICK m \in M : p = SplitN(m)
    BY <1>2
  <2>2. PICK id \in InScope(T, scope) : m = Member(id)
    BY <1>3
  <2>3. id \in Ids
    BY <1>1 DEF InScope
  <2>4. m \in Keys
    BY <2>2, <2>3, KeyIsMember DEF Keys
  <2> QED BY <2>1, <2>2, <2>4 DEF Found
<1> QED BY <1>2, <1>4, <1>5

\* The key of what SplitN makes of a member is that of the resource.
LEMMA SplitMember == ASSUME NEW id \in Ids PROVE Key(SplitN(Member(id))) = Key(id)
BY SplitKey, KeyIsMember DEF Keys

\* So a page of it is complete at that moment.
LEMMA RangeComplete ==
    ASSUME NEW k, NEW d, NEW T, StoreOK("redis", k, d, T), NEW scope \in Atespaces \cup {All},
           NEW h, T \subseteq h.seen, h.stable \subseteq T, IsFiniteSet(h.seen),
           NEW p, p \subseteq Members(d, scope),
           p = Members(d, scope) \/ (k = "task" /\ Cardinality(Members(d, scope)) > Limit)
    PROVE  Complete(k, h, scope, IdsOf(p)) /\ Backed(h, scope, p)
<1> DEFINE g == [stable |-> h.stable, seen |-> T]
           S == InScope(T, scope)
           f == [id \in S |-> SplitN(Member(id))]
<1>1. /\ \A q \in Members(d, scope) : \E id \in S : q = SplitN(Member(id))
      /\ \A id \in S \cap Apart : SplitN(Member(id)) \in Members(d, scope)
  BY MembersAre
<1>2. S \subseteq Ids /\ IsFiniteSet(S)
  <2>1. S \subseteq T /\ T \subseteq Ids /\ IsFiniteSet(T)
    BY DEF InScope, StoreOK
  <2> QED BY <2>1, FS_Subset
<1>3. InScope(h.stable, scope) \subseteq S
  BY DEF InScope
<1>4. \A id \in S : Key(SplitN(Member(id))) = Key(id)
  BY <1>2, SplitMember
<1>5. Backed(g, scope, p)
  <2>1. g.seen = T
    OBVIOUS
  <2>2. ASSUME NEW q \in p PROVE \E id \in S : Key(q) = Key(id)
    BY <1>1, <1>4
  <2> QED BY <2>1, <2>2 DEF Backed
<1>6. ASSUME NEW id \in IdsOf(p) \cap Apart PROVE id \in S
  <2>1. PICK q \in p : Key(q) = Key(id)
    BY DEF IdsOf
  <2>2. PICK y \in S : q = SplitN(Member(y))
    BY <1>1
  <2>3. Key(y) = Key(id) /\ y \in Ids
    BY <1>2, <1>4, <2>1, <2>2
  <2>4. id = y
    BY <2>3, KeysDiffer
  <2> QED BY <2>2, <2>4
<1>7. CASE p = Members(d, scope)
  <2>1. ASSUME NEW id \in InScope(h.stable, scope) \cap Apart PROVE id \in IdsOf(p)
    <3>1. id \in S /\ SplitN(Member(id)) \in p /\ Key(SplitN(Member(id))) = Key(id)
      BY <1>1, <1>3, <1>4, <1>7
    <3> QED BY <1>2, <3>1 DEF IdsOf
  <2>2. g.seen = T /\ g.stable = h.stable
    OBVIOUS
  <2>3. Complete(k, g, scope, IdsOf(p))
    BY <1>6, <2>1, <2>2 DEF Complete
  <2> QED BY <1>5, <2>2, <2>3, CompleteGrows
<1>8. CASE k = "task" /\ Cardinality(Members(d, scope)) > Limit
  <2>1. Cardinality(Members(d, scope)) <= Cardinality(S) /\ IsFiniteSet(Members(d, scope))
    <3>1. \A q \in Members(d, scope) : \E id \in S : f[id] = q
      BY <1>1
    <3> HIDE DEF f, S
    <3> QED BY <1>2, <3>1, ImageSmall
  <2>2. Cardinality(Members(d, scope)) \in Nat /\ Cardinality(S) \in Nat
    BY <1>2, <2>1, FS_CardinalityType
  <2>3. Cardinality(S) > Limit
    <3> HIDE DEF S
    <3> QED BY <1>8, <2>1, <2>2, ResourceAssumption
  <2>4. g.seen = T /\ g.stable = h.stable
    OBVIOUS
  <2>5. Complete(k, g, scope, IdsOf(p))
    BY <1>6, <1>8, <2>3, <2>4 DEF Complete
  <2> QED BY <1>5, <2>4, <2>5, CompleteGrows
<1> QED BY <1>7, <1>8

\* The second round trip: of the members found, the records that are there.
\* A resource that exists is not missed, and there are as many as records.
LEMMA FetchComplete ==
    ASSUME NEW b, NEW k, NEW d, NEW T, StoreOK(b, k, d, T),
           NEW scope, NEW h, IsFiniteSet(h.seen), NEW s,
           \A r \in s : \E id \in InScope(h.seen, scope) : r = d.objects[Key(id)],
           \A r \in s : r.id \in Apart => r.id \in InScope(h.seen, scope),
           \/ InScope(h.stable, scope) \cap Apart \subseteq {r.id : r \in s}
           \/ k = "task" /\ Cardinality(InScope(h.seen, scope)) > Limit,
           NEW p, p \subseteq s, p = s \/ (k = "task" /\ Cardinality(s) > Limit)
    PROVE  Complete(k, h, scope, {x.id : x \in p})
<1> DEFINE S == InScope(h.seen, scope)
           f == [i \in S |-> d.objects[Key(i)]]
<1>1. S \in SUBSET h.seen
  BY DEF InScope
<1>2. IsFiniteSet(S)
  BY <1>1, FS_Subset
<1>3. Cardinality(s) <= Cardinality(S) /\ IsFiniteSet(s)
  <2>1. \A r \in s : \E i \in S : f[i] = r
    OBVIOUS
  <2> HIDE DEF f, S
  <2> QED BY <1>2, <2>1, ImageSmall
<1>4. Cardinality(s) \in Nat /\ Cardinality(S) \in Nat
  BY <1>2, <1>3, FS_CardinalityType
<1>5. Cardinality(s) > Limit => Cardinality(S) > Limit
  <2> HIDE DEF S
  <2> QED BY <1>3, <1>4, ResourceAssumption
<1>6. {x.id : x \in p} \cap Apart \subseteq S
  OBVIOUS
<1> QED BY <1>5, <1>6 DEF Complete

\* The history of one list in a step that changes what exists.
LEMMA TrackFacts ==
    ASSUME Track, NEW c \in Clients, clients[c].pc = "shown" => clients[c].cmd = "list"
    PROVE  /\ clients[c].cmd # "list" /\ clients'[c].cmd = "list" =>
                hist'[c] = [stable |-> truth', seen |-> truth']
           /\ clients[c].cmd = "list" /\ clients'[c].cmd = "list" /\ clients[c].pc = "shown" =>
                hist'[c] = hist[c]
           /\ clients[c].cmd = "list" /\ clients'[c].cmd = "list" /\ clients[c].pc # "shown" =>
                hist'[c] = [stable |-> hist[c].stable \cap truth', seen |-> hist[c].seen \cup truth']
<1> DEFINE none == clients'[c].cmd # "list"
           new == clients[c].cmd # "list" /\ clients'[c].cmd = "list"
           done == clients[c].pc = "shown"
           h0 == [stable |-> {}, seen |-> {}]
           h1 == [stable |-> truth', seen |-> truth']
           h2 == hist[c]
           h3 == [stable |-> hist[c].stable \cap truth', seen |-> hist[c].seen \cup truth']
<1>1. hist'[c] = CASE none -> h0 [] new -> h1 [] done -> h2 [] OTHER -> h3
  BY DEF Track
<1>2. none \in BOOLEAN /\ new \in BOOLEAN /\ done \in BOOLEAN
  OBVIOUS
<1> HIDE DEF h0, h1, h2, h3
<1>3. /\ ~none /\ new /\ ~done => hist'[c] = h1
      /\ ~none /\ ~new /\ done => hist'[c] = h2
      /\ ~none /\ ~new /\ ~done => hist'[c] = h3
  BY <1>1, <1>2
<1> QED BY <1>3 DEF h1, h2, h3

\* A list that takes no part in the step.
LEMMA ListKept ==
    ASSUME Track, NEW c \in Clients, clients[c].pc = "shown" => clients[c].cmd = "list",
           ListOK(kind, clients[c], hist[c], truth),
           clients'[c] = clients[c], truth' \subseteq Ids, IsFiniteSet(truth')
    PROVE  ListOK(kind, clients'[c], hist'[c], truth')
<1> DEFINE r == clients[c]
           g == hist[c]
           h == hist'[c]
<1>1. CASE r.cmd # "list"
  BY <1>1 DEF ListOK
<1>2. CASE r.cmd = "list" /\ r.pc = "shown"
  <2>1. h = g
    BY <1>2, TrackFacts
  <2> QED BY <1>2, <2>1 DEF ListOK
<1>3. CASE r.cmd = "list" /\ r.pc # "shown"
  <2>1. h = [stable |-> g.stable \cap truth', seen |-> g.seen \cup truth']
    BY <1>3, TrackFacts
  <2>2. /\ h.stable = g.stable \cap truth' /\ h.seen = g.seen \cup truth'
        /\ g.seen \subseteq Ids /\ IsFiniteSet(g.seen)
    BY <1>3, <2>1 DEF ListOK
  <2>3. h.seen \subseteq Ids /\ IsFiniteSet(h.seen)
    BY <2>2, FS_Union
  <2>4. h.stable \subseteq truth' /\ truth' \subseteq h.seen
    BY <2>2
  <2>5. r.pc = "fetch" =>
          Complete(kind, h, r.scope, IdsOf(r.members)) /\ Backed(h, r.scope, r.members)
    <3>1. SUFFICES ASSUME r.pc = "fetch"
                   PROVE  Complete(kind, h, r.scope, IdsOf(r.members)) /\ Backed(h, r.scope, r.members)
      OBVIOUS
    <3>2. Complete(kind, g, r.scope, IdsOf(r.members)) /\ Backed(g, r.scope, r.members)
      BY <1>3, <3>1 DEF ListOK
    <3>3. g.seen \subseteq h.seen /\ h.stable \subseteq g.stable
      BY <2>2
    <3> HIDE DEF h, g, r
    <3> QED BY <2>3, <3>2, <3>3, CompleteGrows
  <2> QED BY <1>3, <2>3, <2>4, <2>5 DEF ListOK
<1> QED BY <1>1, <1>2, <1>3

-----------------------------------------------------------------------------
(* Steps.                                                                  *)

\* A process without a command, and without a subscription.
LEMMA IdleOK ==
    /\ \A b, k : ClientOK(b, k, Idle)
    /\ \A b : SubOK(b, NoSub)
    /\ Idle.cmd # "list" /\ Idle.pc = "idle"
<1>1. Idle.cmd = "none" /\ Idle.pc = "idle"
  BY DEF Idle
<1>2. ASSUME NEW k PROVE Idle \in ClientRec(k)
  BY DEF Idle, ClientRec, CommandNames, Labels, All, NoId
<1>3. \A b, k : ClientOK(b, k, Idle)
  BY <1>1, <1>2 DEF ClientOK, OfOneId, OfTasks, OfLists
<1>4. NoSub \in [id : Ids \cup {NoId}, ch : Seq(Phases), lost : BOOLEAN]
  BY DEF NoSub
<1>5. Len(NoSub.ch) = 0 /\ 0 <= ChanCap
  BY ClientsAssumption DEF NoSub
<1> QED BY <1>1, <1>3, <1>4, <1>5 DEF SubOK

\* Everything holds when nothing has happened.
LEMMA InvInit == Init => Inv
<1> SUFFICES ASSUME Init PROVE Inv
  OBVIOUS
<1>1. Flow(backend, kind, events, work, issued, unserved)
  <2>1. /\ backend \in Stores /\ kind \in Kinds
        /\ events = <<>> /\ work = NoWork /\ issued = 0 /\ unserved = {}
    BY DEF Init
  <2>2. 0 \in 0..MaxCommands
    BY ClientsAssumption
  <2>3. events \in Seq(TaskEvents)
    BY <2>1
  <2> QED BY <2>1, <2>2, <2>3 DEF Flow
<1>2. StoreOK(backend, kind, db, truth)
  <2>1. /\ db.objects = [key \in Keys |-> None] /\ db.index = {}
        /\ db.byAtespace = [a \in Atespaces |-> {}] /\ truth = {}
        /\ db = [objects |-> db.objects, index |-> db.index, byAtespace |-> db.byAtespace]
    BY DEF Init, EmptyDB
  <2>2. /\ db.objects \in [Keys -> {None} \cup Rec(kind)]
        /\ db.index \in SUBSET {Member(id) : id \in Ids}
        /\ db.byAtespace \in [Atespaces -> SUBSET Names]
    BY <2>1
  <2>3. db \in [objects : [Keys -> {None} \cup Rec(kind)],
                index : SUBSET {Member(id) : id \in Ids},
                byAtespace : [Atespaces -> SUBSET Names]]
    BY <2>1, <2>2
  <2>4. \A m \in Keys : db.objects[m] = None
    BY <2>1
  <2>5. \A a \in Atespaces : db.byAtespace[a] = {}
    BY <2>1
  <2>6. \A m : m \notin db.index
    BY <2>1
  <2>7. truth \subseteq Ids /\ IsFiniteSet(truth) /\ \A id : id \notin truth
    BY <2>1, FS_EmptySet
  <2>8. db \in DBs(kind)
    BY <2>3 DEF DBs
  <2> QED BY <2>4, <2>5, <2>6, <2>7, <2>8 DEF StoreOK
<1>3. /\ clients = [c \in Clients |-> Idle] /\ subs = [c \in Clients |-> NoSub]
  BY DEF Init
<1>4. \A c \in Clients : clients[c] = Idle /\ subs[c] = NoSub
  BY <1>3
<1>5. \A c \in Clients : ListOK(kind, clients[c], hist[c], truth)
  BY <1>4, IdleOK DEF ListOK
<1>6. clients = [c \in Clients |-> clients[c]] /\ subs = [c \in Clients |-> subs[c]]
  BY <1>3
<1> QED BY <1>1, <1>2, <1>4, <1>5, <1>6, IdleOK DEF Inv

\* A step of process c keeps the invariant if what it changes is right.
LEMMA StepOK ==
    ASSUME Inv, NEW c \in Clients, NEW r, clients' = [clients EXCEPT ![c] = r],
           UNCHANGED <<backend, kind>>, Track,
           Flow(backend, kind, events', work', issued', unserved'),
           StoreOK(backend, kind, db', truth'), ClientOK(backend, kind, r),
           subs' = [x \in Clients |-> subs'[x]], \A x \in Clients : SubOK(backend, subs'[x]),
           ListOK(kind, r, hist'[c], truth')
    PROVE  Inv'
<1>1. /\ clients' = [x \in Clients |-> clients'[x]] /\ clients'[c] = r
      /\ \A x \in Clients : x # c => clients'[x] = clients[x]
  BY DEF Inv
<1>2. truth' \subseteq Ids /\ IsFiniteSet(truth')
  BY DEF StoreOK
<1>3. \A x \in Clients : ClientOK(backend, kind, clients'[x])
  BY <1>1 DEF Inv
<1>4. ASSUME NEW x \in Clients PROVE ListOK(kind, clients'[x], hist'[x], truth')
  <2>1. CASE x = c
    BY <1>1, <2>1
  <2>2. CASE x # c
    <3>1. clients[x].pc = "shown" => clients[x].cmd = "list"
      BY DEF Inv, ClientOK, OfLists
    <3>2. clients'[x] = clients[x] /\ ListOK(kind, clients[x], hist[x], truth)
      BY <1>1, <2>2 DEF Inv
    <3> QED BY <1>2, <3>1, <3>2, ListKept
  <2> QED BY <2>1, <2>2
<1> QED BY <1>1, <1>3, <1>4 DEF Inv

\* A step that touches nothing but the command of c and its subscription.
LEMMA BecomeOK ==
    ASSUME Inv, NEW c \in Clients, NEW r, Become(c, r), ClientOK(backend, kind, r),
           \/ UNCHANGED subs
           \/ \E s : SubOK(backend, s) /\ subs' = [subs EXCEPT ![c] = s],
           ListOK(kind, r, hist'[c], truth)
    PROVE  Inv'
<1>1. /\ clients' = [clients EXCEPT ![c] = r] /\ Track
      /\ UNCHANGED <<backend, kind, db, events, unserved, work, truth, issued>>
  BY DEF Become
<1>2. subs' = [x \in Clients |-> subs'[x]] /\ \A x \in Clients : SubOK(backend, subs'[x])
  BY DEF Inv
<1>3. Flow(backend, kind, events', work', issued', unserved') /\ StoreOK(backend, kind, db', truth')
  BY <1>1 DEF Inv
<1> QED BY <1>1, <1>2, <1>3, StepOK

\* What a process is while it runs its command.
LEMMA ClientFacts ==
    ASSUME Inv, NEW c \in Clients
    PROVE  /\ ClientOK(backend, kind, clients[c]) /\ clients[c] \in ClientRec(kind)
           /\ backend \in Stores /\ kind \in Kinds /\ StoreOK(backend, kind, db, truth)
           /\ Flow(backend, kind, events, work, issued, unserved)
           /\ SubOK(backend, subs[c])
           /\ clients[c].pc \notin OfLists => clients[c].cmd # "list"
BY DEF Inv, ClientOK, Flow

\* What becomes of a command after a finished update.
LEMMA ContinueOK ==
    ASSUME NEW b, NEW k, NEW r \in ClientRec(k), r.cmd # "list", r.cmd = "delete" => r.id \in Ids
    PROVE  ClientOK(b, k, Continue(r)) /\ Continue(r).cmd # "list"
<1>1. CASE r.docs # <<>>
  <2> DEFINE q == [r EXCEPT !.pc = "update", !.held = None, !.event = ""]
  <2>1. \/ Continue(r) = q
        \/ r.cmd = "delete" /\ Continue(r) = [r EXCEPT !.pc = "poll", !.held = None, !.event = ""]
    BY <1>1 DEF Continue
  <2>2. /\ q \in ClientRec(k) /\ q.pc = "update" /\ q.docs = r.docs /\ q.cmd = r.cmd /\ q.id = r.id
    BY DEF ClientRec, Labels
  <2>3. ClientOK(b, k, q) /\ q.cmd # "list"
    BY <1>1, <2>2 DEF ClientOK, OfOneId, OfTasks, OfLists
  <2> DEFINE p == [r EXCEPT !.pc = "poll", !.held = None, !.event = ""]
  <2>4. /\ p \in ClientRec(k) /\ p.pc = "poll" /\ p.cmd = r.cmd /\ p.id = r.id
    BY DEF ClientRec, Labels, OfOneId
  <2>5. r.cmd = "delete" => ClientOK(b, k, p) /\ p.cmd # "list"
    BY <2>4 DEF ClientOK, OfOneId, OfTasks, OfLists
  <2> QED BY <2>1, <2>3, <2>5
<1>2. CASE r.docs = <<>> /\ r.cmd = "delete"
  <2> DEFINE p == [r EXCEPT !.pc = "poll", !.held = None, !.event = ""]
  <2>1. Continue(r) = p
    BY <1>2 DEF Continue
  <2>2. /\ p \in ClientRec(k) /\ p.pc = "poll" /\ p.cmd = r.cmd /\ p.id = r.id
    BY DEF ClientRec, Labels, OfOneId
  <2>3. ClientOK(b, k, p) /\ p.cmd # "list"
    BY <1>2, <2>2 DEF ClientOK, OfOneId, OfTasks, OfLists
  <2> QED BY <2>1, <2>3
<1>3. CASE r.docs = <<>> /\ r.cmd # "delete"
  <2>1. Continue(r) = Idle
    BY <1>3 DEF Continue
  <2> QED BY <2>1, IdleOK
<1> QED BY <1>1, <1>2, <1>3

\* A publication is appended to a queue, one of the memory store if it has
\* room.
LEMMA PublishOK ==
    ASSUME Inv, NEW id, NEW phase \in Phases, Publish(id, phase)
    PROVE  subs' = [x \in Clients |-> subs'[x]] /\ \A x \in Clients : SubOK(backend, subs'[x])
<1>0. PICK reached \in SUBSET Subscribers(id) :
        /\ backend = "memory" => reached = {c \in Subscribers(id) : Len(subs[c].ch) < ChanCap}
        /\ subs' = [c \in Clients |->
              CASE c \in reached -> [subs[c] EXCEPT !.ch = Append(@, phase), !.lost = FALSE]
                [] c \in Subscribers(id) \ reached -> [subs[c] EXCEPT !.lost = TRUE]
                [] OTHER -> subs[c]]
  BY DEF Publish
<1>1. subs' = [x \in Clients |-> subs'[x]]
  BY <1>0
<1>2. ASSUME NEW x \in Clients PROVE SubOK(backend, subs'[x])
  <2> DEFINE s == subs[x]
  <2>1. /\ s \in [id : Ids \cup {NoId}, ch : Seq(Phases), lost : BOOLEAN]
        /\ backend = "memory" => Len(s.ch) <= ChanCap
    BY DEF Inv, SubOK
  <2>2. \/ subs'[x] = s
        \/ x \in reached /\ subs'[x] = [s EXCEPT !.ch = Append(s.ch, phase), !.lost = FALSE]
        \/ subs'[x] = [s EXCEPT !.lost = TRUE]
    BY <1>0
  <2>3. Append(s.ch, phase) \in Seq(Phases)
    BY <2>1
  <2>4. Len(s.ch) < ChanCap => Len(Append(s.ch, phase)) <= ChanCap
    BY <2>1, ClientsAssumption
  <2>5. backend = "memory" /\ x \in reached => Len(s.ch) < ChanCap
    BY <1>0
  <2> HIDE DEF s
  <2>6. CASE subs'[x] = s
    BY <2>1, <2>6 DEF SubOK
  <2>7. CASE x \in reached /\ subs'[x] = [s EXCEPT !.ch = Append(s.ch, phase), !.lost = FALSE]
    BY <2>1, <2>3, <2>4, <2>5, <2>7 DEF SubOK
  <2>8. CASE subs'[x] = [s EXCEPT !.lost = TRUE]
    BY <2>1, <2>8 DEF SubOK
  <2> QED BY <2>2, <2>6, <2>7, <2>8
<1> QED BY <1>1, <1>2

\* One more event, or one that nobody handles.
LEMMA EventOK ==
    ASSUME Inv, NEW id \in Ids, NEW action \in {"reconcile", "delete"}
    PROVE  /\ Queue(id, action) => events' \in Seq(TaskEvents) /\ unserved' \subseteq Keys
           /\ \A evs : Unserved(id, evs) => unserved' \subseteq Keys
<1>1. [id |-> id, action |-> action] \in TaskEvents
  BY DEF TaskEvents
<1>2. events \in Seq(TaskEvents) /\ unserved \subseteq Keys /\ Key(id) \in Keys
  BY IdParts DEF Inv, Flow
<1>3. Queue(id, action) => events' \in Seq(TaskEvents) /\ unserved' \subseteq Keys
  BY <1>1, <1>2 DEF Queue
<1>4. \A evs : Unserved(id, evs) => unserved' \subseteq Keys
  BY <1>2 DEF Unserved
<1> QED BY <1>3, <1>4

\* A write of a task, published and followed by its event.
LEMMA WriteTaskOK ==
    ASSUME Inv, NEW c \in Clients, kind = "task", NEW newDB, NEW r \in ClientRec(kind),
           r.cmd # "list", r.cmd = "delete" => r.id \in Ids,
           NEW id \in Ids, NEW phase \in Phases, NEW action \in {"reconcile", "delete"},
           WriteTask(c, newDB, r, id, phase, action), Track,
           StoreOK(backend, kind, newDB, truth'),
           UNCHANGED <<backend, kind, work, issued>>
    PROVE  Inv'
<1>1. subs' = [x \in Clients |-> subs'[x]] /\ \A x \in Clients : SubOK(backend, subs'[x])
  BY PublishOK DEF WriteTask
<1>2. db' = newDB
  BY DEF WriteTask
<1>3. CASE backend = "redis"
  <2>1. Queue(id, action) /\ clients' = [clients EXCEPT ![c] = Continue(r)]
    BY <1>3 DEF WriteTask
  <2>2. Flow(backend, kind, events', work', issued', unserved')
    BY <2>1, EventOK DEF Inv, Flow
  <2>3. ClientOK(backend, kind, Continue(r)) /\ Continue(r).cmd # "list"
    BY ContinueOK
  <2>4. ListOK(kind, Continue(r), hist'[c], truth')
    BY <2>3 DEF ListOK
  <2> QED BY <1>1, <1>2, <2>1, <2>2, <2>3, <2>4, StepOK
<1>4. CASE backend # "redis"
  <2> DEFINE q == [r EXCEPT !.pc = "emit", !.id = id, !.event = action]
  <2>1. UNCHANGED <<events, unserved>> /\ clients' = [clients EXCEPT ![c] = q]
    BY <1>4 DEF WriteTask
  <2>2. Flow(backend, kind, events', work', issued', unserved')
    BY <2>1 DEF Inv, Flow
  <2>3. q \in ClientRec(kind) /\ q.pc = "emit" /\ q.id = id /\ q.event = action /\ q.cmd = r.cmd
    BY DEF ClientRec, Labels, OfOneId
  <2> HIDE DEF q
  <2>4. ClientOK(backend, kind, q) /\ q.cmd # "list"
    BY <2>3 DEF ClientOK, OfOneId, OfTasks, OfLists
  <2>5. ListOK(kind, q, hist'[c], truth')
    BY <2>4 DEF ListOK
  <2> QED BY <1>1, <1>2, <2>1, <2>2, <2>4, <2>5, StepOK
<1> QED BY <1>3, <1>4

-----------------------------------------------------------------------------
(* The steps of commands.                                                  *)

\* A command is issued.  A list begins with the history of this moment.
LEMMA StartOK ==
    ASSUME Inv, NEW c \in Clients, NEW r, Start(c, r), ClientOK(backend, kind, r),
           r.pc \notin {"fetch", "shown"}
    PROVE  Inv'
<1>1. /\ clients[c] = Idle /\ clients' = [clients EXCEPT ![c] = r] /\ Track
      /\ issued < MaxCommands /\ issued' = issued + 1
      /\ UNCHANGED <<backend, kind, db, events, unserved, subs, work, truth>>
  BY DEF Start
<1>2. issued' \in 0..MaxCommands
  BY <1>1, ClientsAssumption DEF Inv, Flow
<1>3. Flow(backend, kind, events', work', issued', unserved') /\ StoreOK(backend, kind, db', truth')
  BY <1>1, <1>2 DEF Inv, Flow
<1>4. subs' = [x \in Clients |-> subs'[x]] /\ \A x \in Clients : SubOK(backend, subs'[x])
  BY <1>1 DEF Inv
<1>5. clients'[c] = r
  BY <1>1 DEF Inv
<1>6. ListOK(kind, r, hist'[c], truth')
  <2>1. SUFFICES ASSUME r.cmd = "list" PROVE ListOK(kind, r, hist'[c], truth')
    BY DEF ListOK
  <2>2. hist'[c] = [stable |-> truth', seen |-> truth']
    BY <1>1, <1>5, <2>1, IdleOK, TrackFacts
  <2>3. hist'[c].stable = truth' /\ hist'[c].seen = truth'
    BY <2>2
  <2>4. truth' \subseteq Ids /\ IsFiniteSet(truth')
    BY <1>3 DEF StoreOK
  <2> QED BY <2>3, <2>4 DEF ListOK
<1> QED BY <1>1, <1>3, <1>4, <1>6, StepOK

\* The commands of the CLI.
LEMMA CommandsOK == ASSUME Inv, NEW c \in Clients, Commands(c) PROVE Inv'
<1>i. Idle \in ClientRec(kind)
  BY IdleOK DEF ClientOK
<1>0. ASSUME NEW cmd \in CommandNames \ {"list"}, NEW pc \in {"delete", "subscribe", "read"},
             NEW id \in Ids, pc \in {"subscribe", "read"} => kind = "task",
             NEW r, r = [Idle EXCEPT !.cmd = cmd, !.pc = pc, !.id = id],
             Start(c, r)
      PROVE  Inv'
  <2>1. /\ r \in ClientRec(kind) /\ r.cmd = cmd /\ r.pc = pc /\ r.id = id
    BY <1>0, <1>i DEF ClientRec, Labels, OfOneId
  <2>2. ClientOK(backend, kind, r)
    BY <1>0, <2>1 DEF ClientOK, OfOneId, OfTasks, OfLists
  <2> QED BY <1>0, <2>1, <2>2, StartOK
<1>1. ASSUME NEW m \in Manifests, Start(c, [Idle EXCEPT !.cmd = "apply", !.pc = "update", !.docs = m])
      PROVE  Inv'
  <2> DEFINE r == [Idle EXCEPT !.cmd = "apply", !.pc = "update", !.docs = m]
  <2>1. m \in Seq(Documents) /\ m # <<>>
    BY ClientsAssumption
  <2>2. r \in ClientRec(kind) /\ r.cmd = "apply" /\ r.pc = "update" /\ r.docs = m
    BY <2>1 DEF Idle, ClientRec, Labels, CommandNames, All, NoId
  <2> HIDE DEF r
  <2>3. ClientOK(backend, kind, r)
    BY <2>1, <2>2 DEF ClientOK, OfOneId, OfTasks, OfLists
  <2>4. Start(c, r)
    BY <1>1 DEF r
  <2> QED BY <2>2, <2>3, <2>4, StartOK
<1>2. ASSUME NEW s \in Atespaces \cup {All},
             Start(c, [Idle EXCEPT !.cmd = "list", !.pc = "range", !.scope = s])
      PROVE  Inv'
  <2> DEFINE r == [Idle EXCEPT !.cmd = "list", !.pc = "range", !.scope = s]
  <2>1. r \in ClientRec(kind) /\ r.cmd = "list" /\ r.pc = "range"
    BY <1>i DEF ClientRec, Labels, OfLists, CommandNames
  <2> HIDE DEF r
  <2>2. ClientOK(backend, kind, r)
    BY <2>1 DEF ClientOK, OfOneId, OfTasks, OfLists
  <2>3. Start(c, r)
    BY <1>2 DEF r
  <2> QED BY <2>1, <2>2, <2>3, StartOK
<1>3. {"delete", "watch", "suspend", "resume"} \subseteq CommandNames \ {"list"}
  BY DEF CommandNames
<1>4. CASE runApply(c)
  BY <1>1, <1>4 DEF runApply
<1>5. CASE runList(c)
  BY <1>2, <1>5 DEF runList
<1>6. CASE runGet(c) \/ runDescribe(c)
  BY <1>6, IdleOK, StartOK DEF runGet, runDescribe
<1>8. CASE runDelete(c)
  <2>1. PICK id \in Ids : Start(c, [Idle EXCEPT !.cmd = "delete", !.pc = "delete", !.id = id])
    BY <1>8 DEF runDelete
  <2> QED BY <1>0, <1>3, <2>1
<1>9. CASE runWatch(c)
  <2>1. PICK id \in Ids : Start(c, [Idle EXCEPT !.cmd = "watch", !.pc = "subscribe", !.id = id])
    BY <1>9 DEF runWatch
  <2>2. kind = "task"
    BY <1>9 DEF runWatch
  <2> QED BY <1>0, <1>3, <2>1, <2>2
<1>10. CASE runSuspend(c)
  <2>1. PICK id \in Ids : Start(c, [Idle EXCEPT !.cmd = "suspend", !.pc = "read", !.id = id])
    BY <1>10 DEF runSuspend
  <2>2. kind = "task"
    BY <1>10 DEF runSuspend
  <2> QED BY <1>0, <1>3, <2>1, <2>2
<1>11. CASE runResume(c)
  <2>1. PICK id \in Ids : Start(c, [Idle EXCEPT !.cmd = "resume", !.pc = "read", !.id = id])
    BY <1>11 DEF runResume
  <2>2. kind = "task"
    BY <1>11 DEF runResume
  <2> QED BY <1>0, <1>3, <2>1, <2>2
<1> QED BY <1>4, <1>5, <1>6, <1>8, <1>9, <1>10, <1>11 DEF Commands

\* The command ends.
LEMMA EndOK ==
    ASSUME Inv, NEW c \in Clients, Become(c, Idle),
           UNCHANGED subs \/ subs' = [subs EXCEPT ![c] = NoSub]
    PROVE  Inv'
<1>1. ListOK(kind, Idle, hist'[c], truth)
  BY IdleOK DEF ListOK
<1>2. \/ UNCHANGED subs
      \/ \E s : SubOK(backend, s) /\ subs' = [subs EXCEPT ![c] = s]
  BY IdleOK
<1> QED BY <1>1, <1>2, IdleOK, BecomeOK

\* The command moves on, without a list.
LEMMA MovesOn ==
    ASSUME Inv, NEW c \in Clients, NEW pc \in Labels \ {"fetch", "mark", "save", "emit"},
           clients[c].pc \notin OfLists, pc \notin OfLists,
           pc = "update" => clients[c].docs # <<>>,
           pc \in OfOneId => clients[c].id \in Ids,
           pc \in OfTasks => kind = "task",
           Become(c, [clients[c] EXCEPT !.pc = pc]),
           \/ UNCHANGED subs
           \/ \E s : SubOK(backend, s) /\ subs' = [subs EXCEPT ![c] = s]
    PROVE  Inv'
<1> DEFINE q == [clients[c] EXCEPT !.pc = pc]
<1>1. clients[c] \in ClientRec(kind) /\ ClientOK(backend, kind, clients[c]) /\ clients[c].cmd # "list"
  BY ClientFacts
<1>2. /\ q \in ClientRec(kind) /\ q.pc = pc /\ q.docs = clients[c].docs /\ q.id = clients[c].id
      /\ q.cmd = clients[c].cmd
  BY <1>1 DEF ClientRec
<1>3. Become(c, q)
  OBVIOUS
<1> HIDE DEF q
<1>4. ClientOK(backend, kind, q)
  BY <1>1, <1>2 DEF ClientOK
<1>5. ListOK(kind, q, hist'[c], truth)
  BY <1>1, <1>2 DEF ListOK
<1> QED BY <1>3, <1>4, <1>5, BecomeOK

\* A record is saved by a command.
LEMMA SaveRecordOK ==
    ASSUME Inv, NEW c \in Clients, NEW record \in Draft(kind), NEW r \in ClientRec(kind),
           r.cmd # "list", r.cmd = "delete" => r.id \in Ids, SaveRecord(c, record, r)
    PROVE  Inv'
<1> DEFINE newDB == Save(backend, kind, db, record)
<1>1. /\ truth' = truth \cup {record.id} /\ Track
      /\ UNCHANGED <<backend, kind, work, issued>>
  BY DEF SaveRecord
<1>2. /\ StoreOK(backend, kind, newDB, truth')
      /\ kind = "task" => Get(backend, kind, newDB, record.id).phase \in Phases
  BY <1>1, ClientFacts, SaveOK
<1>3. record.id \in Ids
  BY DEF Draft
<1>4. CASE kind = "task"
  <2>1. WriteTask(c, newDB, r, record.id, Get(backend, kind, newDB, record.id).phase, "reconcile")
    BY <1>4 DEF SaveRecord
  <2> HIDE DEF newDB
  <2> QED BY <1>1, <1>2, <1>3, <1>4, <2>1, WriteTaskOK
<1>5. CASE kind # "task"
  <2>1. /\ db' = newDB /\ clients' = [clients EXCEPT ![c] = Continue(r)]
        /\ UNCHANGED <<events, unserved, subs>>
    BY <1>5 DEF SaveRecord
  <2>2. Flow(backend, kind, events', work', issued', unserved')
    BY <1>1, <2>1 DEF Inv
  <2>3. ClientOK(backend, kind, Continue(r)) /\ Continue(r).cmd # "list"
    BY ContinueOK
  <2>4. ListOK(kind, Continue(r), hist'[c], truth')
    BY <2>3 DEF ListOK
  <2>5. subs' = [x \in Clients |-> subs'[x]] /\ \A x \in Clients : SubOK(backend, subs'[x])
    BY <2>1 DEF Inv
  <2> HIDE DEF newDB
  <2> QED BY <1>1, <1>2, <2>1, <2>2, <2>3, <2>4, <2>5, StepOK
<1> QED BY <1>4, <1>5

\* An apply saves its next document.
LEMMA UpdateOK == ASSUME Inv, NEW c \in Clients, Update(c) PROVE Inv'
<1> DEFINE doc == Head(clients[c].docs)
           record == [doc EXCEPT !.phase = IF kind = "task" THEN doc.phase ELSE ""]
           r == [clients[c] EXCEPT !.docs = Tail(clients[c].docs)]
<1>1. /\ clients[c].pc = "update" /\ clients[c] \in ClientRec(kind) /\ clients[c].docs # <<>>
      /\ clients[c].cmd # "list" /\ (clients[c].cmd = "delete" => clients[c].id \in Ids)
  BY ClientFacts DEF Update, ClientOK, OfLists
<1>2. clients[c].docs \in Seq(Documents)
  BY <1>1 DEF ClientRec
<1>3. doc \in Documents /\ Tail(clients[c].docs) \in Seq(Documents)
  BY <1>1, <1>2
<1>4. record \in Draft(kind)
  BY <1>3 DEF Documents, Draft, PhasesOf
<1>5. r \in ClientRec(kind) /\ r.cmd = clients[c].cmd /\ r.id = clients[c].id
  BY <1>1, <1>3 DEF ClientRec
<1>6. SaveRecord(c, record, r)
  BY DEF Update
<1> HIDE DEF record, r
<1> QED BY <1>1, <1>4, <1>5, <1>6, SaveRecordOK

\* Suspend and resume: a read,
LEMMA SuspendReadOK == ASSUME Inv, NEW c \in Clients, SuspendRead(c) PROVE Inv'
<1> DEFINE task == Stored(clients[c].id)
           q == [clients[c] EXCEPT !.pc = "save", !.held = task]
<1>1. /\ clients[c].pc = "read" /\ clients[c] \in ClientRec(kind) /\ clients[c].id \in Ids
      /\ kind = "task" /\ clients[c].cmd # "list" /\ UNCHANGED subs
  BY ClientFacts DEF SuspendRead, ClientOK, OfLists, OfOneId, OfTasks
<1>2. CASE task = None
  BY <1>1, <1>2, EndOK DEF SuspendRead
<1>3. CASE task # None
  <2>1. task \in Rec(kind)
    BY <1>1, <1>3, ClientFacts, GetOK DEF Stored
  <2>2. Become(c, q)
    BY <1>3 DEF SuspendRead
  <2> HIDE DEF task
  <2>3. /\ q \in ClientRec(kind) /\ q.pc = "save" /\ q.held = task /\ q.id = clients[c].id
        /\ q.cmd = clients[c].cmd
    BY <1>1, <2>1 DEF ClientRec, Labels, OfOneId
  <2> HIDE DEF q
  <2>4. ClientOK(backend, kind, q)
    BY <1>1, <1>3, <2>3 DEF ClientOK, OfOneId, OfTasks, OfLists
  <2>5. ListOK(kind, q, hist'[c], truth)
    BY <1>1, <2>3 DEF ListOK
  <2> QED BY <1>1, <2>2, <2>4, <2>5, BecomeOK
<1> QED BY <1>2, <1>3

\* and a save of what was read.
LEMMA SuspendSaveOK == ASSUME Inv, NEW c \in Clients, SuspendSave(c) PROVE Inv'
<1> DEFINE spec == IF clients[c].cmd = "suspend" THEN "suspend" ELSE "plain"
           record == [clients[c].held EXCEPT !.spec = spec]
<1>1. /\ clients[c].pc = "save" /\ clients[c] \in ClientRec(kind) /\ clients[c].id \in Ids
      /\ clients[c].held # None /\ clients[c].cmd # "list"
  BY ClientFacts DEF SuspendSave, ClientOK, OfLists, OfOneId
<1>2. clients[c].held \in Rec(kind)
  BY <1>1 DEF ClientRec
<1>3. spec \in Specs
  BY DEF Specs
<1>4. record \in Draft(kind)
  BY <1>2, <1>3 DEF Rec, Draft
<1>5. SaveRecord(c, record, clients[c])
  BY DEF SuspendSave
<1> HIDE DEF record
<1> QED BY <1>1, <1>4, <1>5, SaveRecordOK

\* A deletion that is one step.
LEMMA DeleteNowOK == ASSUME Inv, NEW c \in Clients, DeleteNow(c) PROVE Inv'
<1> DEFINE r == clients[c]
<1>1. /\ r.pc = "delete" /\ r \in ClientRec(kind) /\ r.id \in Ids /\ r.cmd # "list"
  BY ClientFacts DEF DeleteNow, ClientOK, OfLists, OfOneId
<1>2. /\ db' = Delete(backend, kind, db, r.id) /\ truth' = truth \ {r.id}
      /\ clients' = [clients EXCEPT ![c] = Continue(r)] /\ Track
      /\ UNCHANGED <<backend, kind, events, unserved, subs, work, issued>>
  BY DEF DeleteNow, Inv
<1>3. StoreOK(backend, kind, db', truth')
  BY <1>1, <1>2, ClientFacts, DeleteOK
<1>4. Flow(backend, kind, events', work', issued', unserved')
  BY <1>2 DEF Inv
<1>5. ClientOK(backend, kind, Continue(r)) /\ Continue(r).cmd # "list"
  BY <1>1, ContinueOK
<1>6. ListOK(kind, Continue(r), hist'[c], truth')
  BY <1>5 DEF ListOK
<1>7. subs' = [x \in Clients |-> subs'[x]] /\ \A x \in Clients : SubOK(backend, subs'[x])
  BY <1>2 DEF Inv
<1> HIDE DEF r
<1> QED BY <1>2, <1>3, <1>4, <1>5, <1>6, <1>7, StepOK

\* A record marked Terminating.
LEMMA TerminatingOK ==
    ASSUME NEW r \in Rec("task")
    PROVE  Terminating(r) \in Rec("task") /\ Terminating(r).id = r.id /\ "Terminating" \in Phases
BY DEF Terminating, Rec, PhasesOf, Phases

\* The deletion of a task is marked: in Redis a read,
LEMMA MarkReadOK == ASSUME Inv, NEW c \in Clients, MarkRead(c) PROVE Inv'
<1> DEFINE task == Stored(clients[c].id)
           q == [clients[c] EXCEPT !.pc = "mark", !.held = task]
<1>1. /\ clients[c].pc = "delete" /\ clients[c] \in ClientRec(kind) /\ clients[c].id \in Ids
      /\ kind = "task" /\ clients[c].cmd # "list"
  BY ClientFacts DEF MarkRead, ClientOK, OfLists, OfOneId
<1>2. CASE task = None /\ Become(c, Idle) /\ UNCHANGED subs
  BY <1>2, EndOK
<1>3. CASE task # None /\ backend = "redis" /\ Become(c, q) /\ UNCHANGED subs
  <2>1. task \in Rec(kind)
    BY <1>1, <1>3, ClientFacts, GetOK DEF Stored
  <2>2. Become(c, q) /\ task # None /\ backend = "redis" /\ UNCHANGED subs
    BY <1>3
  <2> HIDE DEF task
  <2>3. /\ q \in ClientRec(kind) /\ q.pc = "mark" /\ q.held = task /\ q.id = clients[c].id
        /\ q.cmd = clients[c].cmd
    BY <1>1, <2>1 DEF ClientRec, Labels, OfOneId
  <2> HIDE DEF q
  <2>4. ClientOK(backend, kind, q)
    BY <1>1, <2>2, <2>3 DEF ClientOK, OfOneId, OfTasks, OfLists
  <2>5. ListOK(kind, q, hist'[c], truth)
    BY <1>1, <2>3 DEF ListOK
  <2> QED BY <2>2, <2>4, <2>5, BecomeOK
<1>4. CASE /\ task # None /\ backend = "memory"
           /\ WriteTask(c, SetRecord(db, Terminating(task)), clients[c], clients[c].id, "Terminating", "delete")
           /\ truth' = truth /\ Track
           /\ UNCHANGED <<backend, kind, work, issued>>
  <2>1. task \in Rec(kind) /\ task.id \in truth
    BY <1>1, <1>4, ClientFacts, GetOK DEF Stored
  <2>2. WriteTask(c, SetRecord(db, Terminating(task)), clients[c], clients[c].id, "Terminating", "delete")
    BY <1>4
  <2> HIDE DEF task
  <2>3. Terminating(task) \in Rec(kind) /\ Terminating(task).id = task.id /\ "Terminating" \in Phases
    BY <1>1, <2>1, TerminatingOK
  <2>4. StoreOK(backend, kind, SetRecord(db, Terminating(task)), truth)
    BY <2>1, <2>3, ClientFacts, SetRecordOK
  <2> QED BY <1>1, <1>4, <2>1, <2>2, <2>3, <2>4, WriteTaskOK
<1> QED BY <1>2, <1>3, <1>4 DEF MarkRead

\* and a write, which may bring back the record of a task that is gone.
LEMMA MarkWriteOK == ASSUME Inv, NEW c \in Clients, MarkWrite(c) PROVE Inv'
<1> DEFINE r == clients[c]
<1>1. /\ r.pc = "mark" /\ r \in ClientRec(kind) /\ r.id \in Ids /\ backend = "redis"
      /\ kind = "task" /\ r.cmd # "list" /\ r.held # None
  BY ClientFacts DEF MarkWrite, ClientOK, OfLists, OfOneId, OfTasks
<1>2. r.held \in Rec(kind)
  BY <1>1 DEF ClientRec
<1>3. Terminating(r.held) \in Rec(kind) /\ "Terminating" \in Phases
  BY <1>1, <1>2, TerminatingOK
<1>4. StoreOK(backend, kind, SetRecord(db, Terminating(r.held)), truth)
  BY <1>1, <1>3, ClientFacts, SetRecordOK
<1>5. /\ WriteTask(c, SetRecord(db, Terminating(r.held)), r, r.id, "Terminating", "delete")
      /\ truth' = truth /\ Track /\ UNCHANGED <<backend, kind, work, issued>>
  BY DEF MarkWrite
<1> HIDE DEF r
<1> QED BY <1>1, <1>3, <1>4, <1>5, WriteTaskOK

\* The event of a task write of the memory store is sent, or dropped.
LEMMA EmitOK == ASSUME Inv, NEW c \in Clients, Emit(c) PROVE Inv'
<1> DEFINE r == clients[c]
<1>1. /\ r.pc = "emit" /\ r \in ClientRec(kind) /\ r.id \in Ids /\ kind = "task"
      /\ r.event # "" /\ r.cmd # "list"
  BY ClientFacts DEF Emit, ClientOK, OfLists, OfOneId, OfTasks
<1>2. r.event \in {"reconcile", "delete"}
  BY <1>1 DEF ClientRec
<1>3. /\ clients' = [clients EXCEPT ![c] = Continue(r)] /\ Track
      /\ UNCHANGED <<backend, kind, db, subs, work, issued, truth>>
  BY DEF Emit, Inv
<1>4. Queue(r.id, r.event) \/ (Unserved(r.id, events) /\ UNCHANGED events)
  BY DEF Emit
<1>5. events \in Seq(TaskEvents) /\ Flow(backend, kind, events, work, issued, unserved)
  BY DEF Inv, Flow
<1> HIDE DEF r
<1>6. events' \in Seq(TaskEvents) /\ unserved' \subseteq Keys
  BY <1>1, <1>2, <1>4, <1>5, EventOK
<1>7. Flow(backend, kind, events', work', issued', unserved')
  BY <1>1, <1>3, <1>4, <1>5, <1>6 DEF Flow
<1>8. ClientOK(backend, kind, Continue(r)) /\ Continue(r).cmd # "list"
  BY <1>1, ContinueOK
<1>9. ListOK(kind, Continue(r), hist'[c], truth')
  BY <1>8 DEF ListOK
<1>10. /\ subs' = [x \in Clients |-> subs'[x]] /\ \A x \in Clients : SubOK(backend, subs'[x])
       /\ StoreOK(backend, kind, db', truth')
  BY <1>3 DEF Inv
<1> QED BY <1>3, <1>7, <1>8, <1>9, <1>10, StepOK

\* What a step of a list knows of its history.
LEMMA HistoryGrows ==
    ASSUME Inv, NEW c \in Clients, NEW q, Become(c, q), q.cmd = "list",
           clients[c].pc \in {"range", "fetch"}
    PROVE  /\ hist'[c].seen \subseteq Ids /\ IsFiniteSet(hist'[c].seen)
           /\ hist'[c].stable \subseteq truth /\ truth \subseteq hist'[c].seen
           /\ clients[c].pc = "fetch" =>
                /\ Complete(kind, hist'[c], clients[c].scope, IdsOf(clients[c].members))
                /\ Backed(hist'[c], clients[c].scope, clients[c].members)
<1> DEFINE g == hist[c]
           h == hist'[c]
<1>1. /\ clients'[c] = q /\ truth' = truth /\ Track
      /\ ClientOK(backend, kind, clients[c]) /\ ListOK(kind, clients[c], g, truth)
      /\ truth \subseteq Ids /\ IsFiniteSet(truth)
  BY DEF Become, Inv, StoreOK
<1>2. clients[c].cmd = "list" /\ clients[c].pc # "shown"
  BY <1>1 DEF ClientOK, OfLists
<1>3. h = [stable |-> g.stable \cap truth, seen |-> g.seen \cup truth]
  BY <1>1, <1>2, TrackFacts
<1>4. /\ h.stable = g.stable \cap truth /\ h.seen = g.seen \cup truth
      /\ g.seen \subseteq Ids /\ IsFiniteSet(g.seen)
      /\ clients[c].pc = "fetch" => /\ Complete(kind, g, clients[c].scope, IdsOf(clients[c].members))
                                    /\ Backed(g, clients[c].scope, clients[c].members)
  BY <1>1, <1>2, <1>3 DEF ListOK
<1> HIDE DEF g, h
<1>5. IsFiniteSet(h.seen)
  <2>1. IsFiniteSet(g.seen) /\ IsFiniteSet(truth)
    BY <1>1, <1>4
  <2>2. IsFiniteSet(g.seen \cup truth)
    BY <2>1, FS_Union
  <2> QED BY <1>4, <2>2
<1>6. clients[c].pc = "fetch" => /\ Complete(kind, h, clients[c].scope, IdsOf(clients[c].members))
                                /\ Backed(h, clients[c].scope, clients[c].members)
  <2>1. g.seen \subseteq h.seen /\ h.stable \subseteq g.stable
    BY <1>4
  <2> QED BY <1>4, <1>5, <2>1, CompleteGrows
<1> QED BY <1>1, <1>4, <1>5, <1>6 DEF h

\* The first round trip of a list.
LEMMA ListRangeOK == ASSUME Inv, NEW c \in Clients, ListRange(c) PROVE Inv'
<1> DEFINE r == clients[c]
           h == hist'[c]
<1>1. PICK page \in Pages(Members(db, r.scope)) :
        Become(c, [r EXCEPT !.pc = "fetch", !.members = page])
  BY DEF ListRange
<1> DEFINE q == [r EXCEPT !.pc = "fetch", !.members = page]
<1>2. /\ r.pc = "range" /\ backend = "redis" /\ UNCHANGED subs
      /\ r \in ClientRec(kind) /\ r.cmd = "list" /\ StoreOK(backend, kind, db, truth)
  BY ClientFacts DEF ListRange, ClientOK, OfLists
<1>3. r.scope \in Atespaces \cup {All}
  BY <1>2 DEF ClientRec
<1>4. /\ page \subseteq Members(db, r.scope)
      /\ \/ page = Members(db, r.scope)
         \/ kind = "task" /\ Cardinality(Members(db, r.scope)) > Limit
  BY <1>1, PageOf
<1>5. page \subseteq Found
  BY <1>2, <1>3, <1>4, MembersAre
<1>6. /\ q \in ClientRec(kind) /\ q.pc = "fetch" /\ q.members = page /\ q.scope = r.scope
      /\ q.cmd = "list" /\ q.id = r.id
  BY <1>2, <1>5 DEF ClientRec, Labels, OfLists
<1>7. Become(c, q)
  BY <1>1
<1> HIDE DEF q
<1>8. ClientOK(backend, kind, q)
  BY <1>2, <1>6 DEF ClientOK, OfOneId, OfTasks, OfLists
<1>9. /\ h.seen \subseteq Ids /\ IsFiniteSet(h.seen)
      /\ h.stable \subseteq truth /\ truth \subseteq h.seen
  BY <1>2, <1>6, <1>7, HistoryGrows
<1> HIDE DEF h
<1>10. Complete(kind, h, r.scope, IdsOf(page)) /\ Backed(h, r.scope, page)
  BY <1>2, <1>3, <1>4, <1>9, RangeComplete
<1>11. ListOK(kind, q, h, truth)
  BY <1>6, <1>9, <1>10 DEF ListOK
<1> QED BY <1>2, <1>7, <1>8, <1>11, BecomeOK DEF h

\* The records a list reads, of either store.
LEMMA ListIs ==
    ASSUME NEW b \in Stores, NEW k \in Kinds, NEW d, NEW ids, NEW scope
    PROVE  /\ b = "redis" => List(b, k, d, ids, scope) = MGet(d, ids)
           /\ b = "memory" => List(b, k, d, ids, scope) = MemoryList(d, scope)
BY KindsAndStores DEF List, ListTasks, ListGateways, ListModels, ListWorkspaces,
   MemoryListTasks, MemoryListGateways, MemoryListModels, MemoryListWorkspaces

\* The second round trip, or the memory store's list: what is read is the
\* records of resources seen during the command, and misses none that was
\* there all the time, unless the first round trip did.
LEMMA ListedRecords ==
    ASSUME Inv, NEW c \in Clients, NEW h, NEW s,
           s = List(backend, kind, db, clients[c].members, clients[c].scope),
           \/ clients[c].pc = "fetch"
           \/ clients[c].pc = "range" /\ backend = "memory",
           h.seen \subseteq Ids, h.stable \subseteq truth, truth \subseteq h.seen,
           clients[c].pc = "fetch" => /\ Complete(kind, h, clients[c].scope, IdsOf(clients[c].members))
                                      /\ Backed(h, clients[c].scope, clients[c].members)
    PROVE  /\ s \subseteq Rec(kind)
           /\ \A r \in s : \E id \in InScope(h.seen, clients[c].scope) : r = db.objects[Key(id)]
           /\ \A r \in s : r.id \in Apart => r.id \in InScope(h.seen, clients[c].scope)
           /\ \/ InScope(h.stable, clients[c].scope) \cap Apart \subseteq {r.id : r \in s}
              \/ kind = "task" /\ Cardinality(InScope(h.seen, clients[c].scope)) > Limit
<1> DEFINE scope == clients[c].scope
           members == clients[c].members
<1>1. /\ clients[c] \in ClientRec(kind) /\ StoreOK(backend, kind, db, truth)
      /\ backend \in Stores /\ kind \in Kinds
      /\ clients[c].pc = "fetch" => backend = "redis"
  BY ClientFacts DEF ClientOK
<1>2. /\ db.objects \in [Keys -> {None} \cup Rec(kind)] /\ truth \subseteq Ids
      /\ \A id \in Ids : Key(id) \in Keys
      /\ \A m \in Keys : db.objects[m] # None => Key(db.objects[m].id) = m
      /\ \A id \in truth \cap Apart : db.objects[Key(id)] # None
      /\ backend = "memory" => \A m \in Keys : db.objects[m] # None => db.objects[m].id \in truth
  BY <1>1, IdParts, Parts DEF StoreOK
<1>3. \A p \in members : Key(p) \in Keys
  <2>1. members \subseteq Found
    BY <1>1 DEF ClientRec
  <2> QED BY <2>1, SplitKey DEF Found
<1>4. ASSUME NEW id \in truth \cap Apart
      PROVE  db.objects[Key(id)] # None /\ db.objects[Key(id)].id = id /\ Key(id) \in Keys
  <2>1. id \in Ids /\ Key(id) \in Keys /\ db.objects[Key(id)] # None
    BY <1>2
  <2>2. db.objects[Key(id)] \in Rec(kind) /\ Key(db.objects[Key(id)].id) = Key(id)
    BY <1>2, <2>1
  <2>3. db.objects[Key(id)].id \in Ids
    BY <2>2 DEF Rec
  <2> QED BY <2>1, <2>2, <2>3, KeysDiffer
<1> HIDE DEF scope, members
<1>5. CASE clients[c].pc = "fetch"
  <2>1. s = {db.objects[Key(p)] : p \in members} \ {None}
    BY <1>1, <1>5, ListIs DEF MGet, Fetch, scope, members
  <2>2. Complete(kind, h, scope, IdsOf(members)) /\ Backed(h, scope, members)
    BY <1>5 DEF scope, members
  <2>3. ASSUME NEW r \in s
        PROVE  /\ r \in Rec(kind) /\ \E id \in InScope(h.seen, scope) : r = db.objects[Key(id)]
               /\ r.id \in Apart => r.id \in InScope(h.seen, scope)
    <3>1. PICK p \in members : r = db.objects[Key(p)] /\ r # None
      BY <2>1
    <3>2. r \in Rec(kind) /\ Key(r.id) = Key(p)
      BY <1>2, <1>3, <3>1
    <3>3. PICK id \in InScope(h.seen, scope) : Key(p) = Key(id)
      BY <2>2 DEF Backed
    <3>4. r.id \in Ids
      BY <3>2 DEF Rec
    <3>5. r.id \in IdsOf(members)
      BY <3>2, <3>4 DEF IdsOf
    <3> QED BY <2>2, <3>1, <3>2, <3>3, <3>5 DEF Complete
  <2>4. ASSUME NEW id \in InScope(h.stable, scope) \cap Apart, id \in IdsOf(members)
        PROVE  \E r \in s : id = r.id
    <3>1. id \in truth
      BY <2>4 DEF InScope
    <3>2. PICK p \in members : Key(p) = Key(id)
      BY <2>4 DEF IdsOf
    <3>3. db.objects[Key(p)] \in s /\ db.objects[Key(p)].id = id
      BY <1>4, <2>1, <2>4, <3>1, <3>2
    <3> QED BY <3>3
  <2>5. InScope(h.stable, scope) \cap Apart \subseteq IdsOf(members) =>
          InScope(h.stable, scope) \cap Apart \subseteq {r.id : r \in s}
    BY <2>4
  <2> QED BY <2>2, <2>3, <2>5 DEF Complete, scope
<1>6. CASE clients[c].pc = "range" /\ backend = "memory"
  <2>1. s = {r \in {db.objects[key] : key \in Keys} \ {None} : scope \in {All, r.id[1]}}
    BY <1>1, <1>6, ListIs DEF MemoryList, scope, members
  <2>2. ASSUME NEW r \in s
        PROVE  r.id \in InScope(h.seen, scope) /\ r = db.objects[Key(r.id)] /\ r \in Rec(kind)
    <3>1. PICK key \in Keys : r = db.objects[key] /\ r # None /\ scope \in {All, r.id[1]}
      BY <2>1
    <3>2. Key(r.id) = key /\ r.id \in truth /\ r \in Rec(kind)
      BY <1>2, <1>6, <3>1
    <3> QED BY <3>1, <3>2 DEF InScope
  <2>3. ASSUME NEW id \in InScope(h.stable, scope) \cap Apart PROVE \E r \in s : id = r.id
    <3>1. id \in truth /\ scope \in {All, id[1]}
      BY <2>3 DEF InScope
    <3>2. /\ db.objects[Key(id)] # None /\ db.objects[Key(id)].id = id /\ Key(id) \in Keys
      BY <1>4, <2>3, <3>1
    <3>3. db.objects[Key(id)] \in s
      BY <2>1, <3>1, <3>2
    <3> QED BY <3>2, <3>3
  <2> QED BY <2>2, <2>3 DEF scope
<1> QED BY <1>5, <1>6

\* The list is shown.
LEMMA ListFetchOK == ASSUME Inv, NEW c \in Clients, ListFetch(c) PROVE Inv'
<1> DEFINE r == clients[c]
           h == hist'[c]
           s == List(backend, kind, db, r.members, r.scope)
<1>1. PICK page \in Pages(s) :
        Become(c, [r EXCEPT !.pc = "shown", !.members = {}, !.result = page])
  BY DEF ListFetch
<1> DEFINE q == [r EXCEPT !.pc = "shown", !.members = {}, !.result = page]
<1>2. /\ r.pc = "fetch" \/ (r.pc = "range" /\ backend = "memory")
      /\ r.pc \in {"range", "fetch"} /\ UNCHANGED subs
      /\ r \in ClientRec(kind) /\ r.cmd = "list" /\ StoreOK(backend, kind, db, truth)
  BY ClientFacts DEF ListFetch, ClientOK, OfLists
<1>3. q.cmd = "list" /\ Become(c, q)
  BY <1>1, <1>2 DEF ClientRec
<1>4. /\ h.seen \subseteq Ids /\ IsFiniteSet(h.seen)
      /\ h.stable \subseteq truth /\ truth \subseteq h.seen
      /\ r.pc = "fetch" => Complete(kind, h, r.scope, IdsOf(r.members)) /\ Backed(h, r.scope, r.members)
  BY <1>2, <1>3, HistoryGrows
<1> HIDE DEF h
<1>5. /\ s \subseteq Rec(kind)
      /\ \A x \in s : \E id \in InScope(h.seen, r.scope) : x = db.objects[Key(id)]
      /\ \A x \in s : x.id \in Apart => x.id \in InScope(h.seen, r.scope)
      /\ \/ InScope(h.stable, r.scope) \cap Apart \subseteq {x.id : x \in s}
         \/ kind = "task" /\ Cardinality(InScope(h.seen, r.scope)) > Limit
  BY <1>2, <1>4, ListedRecords
<1>6. page \subseteq s /\ (page = s \/ (kind = "task" /\ Cardinality(s) > Limit))
  BY <1>1, PageOf
<1> HIDE DEF s
<1>7. Complete(kind, h, r.scope, {x.id : x \in page})
  <2>1. StoreOK(backend, kind, db, truth) /\ IsFiniteSet(h.seen)
    BY <1>2, <1>4
  <2>2. /\ \A x \in s : \E id \in InScope(h.seen, r.scope) : x = db.objects[Key(id)]
        /\ \A x \in s : x.id \in Apart => x.id \in InScope(h.seen, r.scope)
    BY <1>5
  <2>3. \/ InScope(h.stable, r.scope) \cap Apart \subseteq {x.id : x \in s}
        \/ kind = "task" /\ Cardinality(InScope(h.seen, r.scope)) > Limit
    BY <1>5
  <2> HIDE DEF r
  <2> QED BY <2>1, <2>2, <2>3, <1>6, FetchComplete
<1>8. page \subseteq {None} \cup Rec(kind)
  BY <1>5, <1>6
<1>9. /\ q \in ClientRec(kind) /\ q.pc = "shown" /\ q.result = page /\ q.scope = r.scope
      /\ q.id = r.id
  BY <1>2, <1>8 DEF ClientRec, Labels, OfLists
<1> HIDE DEF q
<1>10. ClientOK(backend, kind, q)
  BY <1>3, <1>9 DEF ClientOK, OfOneId, OfTasks, OfLists
<1>11. ListOK(kind, q, h, truth)
  BY <1>4, <1>7, <1>9 DEF ListOK
<1> QED BY <1>2, <1>3, <1>10, <1>11, BecomeOK DEF h

\* The other steps of a command change its label or end it.
LEMMA WatchOK ==
    ASSUME Inv, NEW c \in Clients,
           \/ WaitForDeletion(c) \/ Done(c)
           \/ Subscribe(c) \/ SendInitial(c) \/ SendModified(c) \/ Abort(c)
    PROVE  Inv'
<1>1. /\ ClientOK(backend, kind, clients[c]) /\ clients[c] \in ClientRec(kind)
      /\ SubOK(backend, subs[c]) /\ Labels # {}
  BY ClientFacts DEF Labels
<1>3. CASE WaitForDeletion(c) \/ Done(c)
  BY <1>3, EndOK DEF WaitForDeletion, Done
<1>4. CASE Abort(c)
  BY <1>4, EndOK DEF Abort
<1>5. ASSUME NEW pc \in {"initial", "stream"}, clients[c].pc \in {"subscribe", "initial", "stream"},
             Become(c, [clients[c] EXCEPT !.pc = pc]),
             UNCHANGED subs \/ \E s : SubOK(backend, s) /\ subs' = [subs EXCEPT ![c] = s]
      PROVE  Inv'
  <2>1. clients[c].id \in Ids /\ kind = "task"
    BY <1>1, <1>5 DEF ClientOK, OfOneId, OfTasks
  <2>2. /\ pc \in Labels \ {"fetch", "mark", "save", "emit"} /\ pc \notin OfLists
        /\ clients[c].pc \notin OfLists /\ pc # "update"
    BY <1>5 DEF Labels, OfLists, OfOneId
  <2> QED BY <1>5, <2>1, <2>2, MovesOn
<1>6. CASE Subscribe(c)
  <2> DEFINE s == [NoSub EXCEPT !.id = clients[c].id]
  <2>1. clients[c].pc = "subscribe" /\ clients[c].id \in Ids
    BY <1>1, <1>6 DEF Subscribe, ClientOK, OfOneId
  <2>2. SubOK(backend, s)
    <3>1. s.ch = NoSub.ch
      BY DEF NoSub
    <3>2. s \in [id : Ids \cup {NoId}, ch : Seq(Phases), lost : BOOLEAN]
      BY <2>1, IdleOK DEF SubOK
    <3> QED BY <3>1, <3>2, IdleOK DEF SubOK
  <2> HIDE DEF s
  <2>3. subs' = [subs EXCEPT ![c] = s] /\ Become(c, [clients[c] EXCEPT !.pc = "initial"])
    BY <1>6 DEF Subscribe, s
  <2> QED BY <1>5, <2>1, <2>2, <2>3
<1>7. CASE SendInitial(c)
  <2>1. CASE Become(c, Idle) /\ subs' = [subs EXCEPT ![c] = NoSub]
    BY <2>1, EndOK
  <2>2. ASSUME NEW lost \in BOOLEAN, Become(c, [clients[c] EXCEPT !.pc = "stream"]),
               subs' = [subs EXCEPT ![c].lost = lost]
        PROVE  Inv'
    <3> DEFINE s == [subs[c] EXCEPT !.lost = lost]
    <3>1. SubOK(backend, s)
      BY <1>1 DEF SubOK
    <3>2. subs' = [subs EXCEPT ![c] = s]
      BY <2>2 DEF Inv
    <3> HIDE DEF s
    <3> QED BY <1>5, <1>7, <2>2, <3>1, <3>2 DEF SendInitial
  <2>3. CASE /\ Become(c, [clients[c] EXCEPT !.pc = "stream"])
             /\ subs' = [subs EXCEPT ![c].lost = FALSE]
    BY <2>2, <2>3
  <2>4. CASE SkipInitial(c)
    BY <2>2, <2>4 DEF SkipInitial
  <2> QED BY <1>7, <2>1, <2>3, <2>4 DEF SendInitial
<1>8. CASE SendModified(c)
  <2>1. CASE Become(c, Idle) /\ subs' = [subs EXCEPT ![c] = NoSub]
    BY <2>1, EndOK
  <2>2. CASE Become(c, clients[c]) /\ subs' = [subs EXCEPT ![c].ch = Tail(@)]
    <3> DEFINE s == [subs[c] EXCEPT !.ch = Tail(subs[c].ch)]
    <3>1. clients[c].pc = "stream" /\ subs[c].ch # <<>>
      BY <1>8 DEF SendModified
    <3>2. /\ subs[c] \in [id : Ids \cup {NoId}, ch : Seq(Phases), lost : BOOLEAN]
          /\ backend = "memory" => Len(subs[c].ch) <= ChanCap
      BY <1>1 DEF SubOK
    <3>3. /\ Tail(subs[c].ch) \in Seq(Phases)
          /\ backend = "memory" => Len(Tail(subs[c].ch)) <= ChanCap
      BY <3>1, <3>2, ClientsAssumption
    <3>4. SubOK(backend, s)
      BY <3>2, <3>3 DEF SubOK
    <3>5. subs' = [subs EXCEPT ![c] = s]
      BY <2>2 DEF Inv
    <3>6. ListOK(kind, clients[c], hist'[c], truth)
      BY <1>1, <3>1 DEF ListOK, ClientOK, OfLists
    <3> HIDE DEF s
    <3> QED BY <1>1, <2>2, <3>4, <3>5, <3>6, BecomeOK
  <2> QED BY <1>8, <2>1, <2>2 DEF SendModified
<1> QED BY <1>3, <1>4, <1>6, <1>7, <1>8

-----------------------------------------------------------------------------
(* Steps of no command.                                                    *)

\* The controller takes an event, writes a status, finishes a deletion, or does
\* nothing more.
LEMMA ControllerOK == ASSUME Inv, Controller \/ GiveUp PROVE Inv'
<1>0. /\ backend \in Stores /\ kind \in Kinds /\ StoreOK(backend, kind, db, truth)
      /\ events \in Seq(TaskEvents) /\ (events # <<>> => kind = "task")
      /\ work \in Work \cup {NoWork} /\ (work # NoWork => kind = "task")
      /\ issued \in 0..MaxCommands /\ unserved \subseteq Keys
  BY DEF Inv, Flow
<1>1. CASE Take
  <2> DEFINE ev == Head(events)
             task == Get(backend, kind, db, ev.id)
             w == [id |-> ev.id, action |-> ev.action,
                   phases |-> IF ev.action = "delete" THEN {} ELSE Outcomes(task)]
  <2>1. /\ events # <<>> /\ events' = Tail(events)
        /\ UNCHANGED <<backend, kind, db, unserved, clients, subs, truth, hist, issued>>
        /\ work' = NoWork \/ work' = w
    BY <1>1 DEF Take
  <2>2. ev \in TaskEvents /\ Tail(events) \in Seq(TaskEvents) /\ kind = "task"
    BY <1>0, <2>1
  <2>3. Outcomes(task) \subseteq Phases
    BY DEF Outcomes, Phases
  <2>4. w \in Work
    <3> HIDE DEF task
    <3>1. (IF ev.action = "delete" THEN {} ELSE Outcomes(task)) \in SUBSET Phases
      BY <2>3
    <3> QED BY <2>2, <3>1 DEF Work, TaskEvents
  <2>5. Flow(backend, kind, events', work', issued', unserved')
    <3> HIDE DEF w
    <3> QED BY <1>0, <2>1, <2>2, <2>4 DEF Flow
  <2> QED BY <2>1, <2>5 DEF Inv
<1>2. CASE WriteStatus
  <2> DEFINE task == Get(backend, kind, db, work.id)
  <2>1. /\ work # NoWork /\ work' = NoWork /\ work \in Work /\ kind = "task"
        /\ UNCHANGED <<backend, kind, events, unserved, clients, truth, hist, issued>>
    BY <1>0, <1>2 DEF WriteStatus
  <2>2. Flow(backend, kind, events', work', issued', unserved')
    BY <1>0, <2>1 DEF Flow
  <2>3. CASE task = None
    <3>1. UNCHANGED <<db, subs>>
      BY <1>2, <2>3 DEF WriteStatus
    <3> QED BY <2>1, <2>2, <3>1 DEF Inv
  <2>4. CASE task # None
    <3>1. PICK phase \in work.phases :
            /\ db' = SetRecord(db, [task EXCEPT !.phase = phase])
            /\ Publish(work.id, phase)
      BY <1>2, <2>4 DEF WriteStatus
    <3>2. work.id \in Ids /\ phase \in Phases
      BY <2>1, <3>1 DEF Work
    <3>3. task \in Rec(kind) /\ (backend = "memory" => task.id \in truth)
      BY <1>0, <2>4, <3>2, GetOK
    <3> HIDE DEF task
    <3> DEFINE record == [task EXCEPT !.phase = phase]
    <3>4. record \in Rec(kind) /\ record.id = task.id
      BY <2>1, <3>2, <3>3 DEF Rec, PhasesOf
    <3>5. db' = SetRecord(db, record)
      BY <3>1
    <3> HIDE DEF record
    <3>6. StoreOK(backend, kind, db', truth)
      BY <1>0, <3>3, <3>4, <3>5, SetRecordOK
    <3>7. subs' = [x \in Clients |-> subs'[x]] /\ \A x \in Clients : SubOK(backend, subs'[x])
      BY <3>1, <3>2, PublishOK
    <3> QED BY <2>1, <2>2, <3>6, <3>7 DEF Inv
  <2> QED BY <2>3, <2>4
<1>3. CASE FinishDelete
  <2>1. /\ work # NoWork /\ work' = NoWork /\ work \in Work /\ clients' = clients /\ Track
        /\ UNCHANGED <<backend, kind, events, unserved, subs, issued>>
        /\ db' = Delete(backend, kind, db, work.id) /\ truth' = truth \ {work.id}
    BY <1>0, <1>3 DEF FinishDelete
  <2>2. Flow(backend, kind, events', work', issued', unserved')
    BY <1>0, <2>1 DEF Flow
  <2>3. work.id \in Ids
    BY <2>1 DEF Work
  <2>4. StoreOK(backend, kind, db', truth')
    BY <1>0, <2>1, <2>3, DeleteOK
  <2>5. ASSUME NEW x \in Clients PROVE ListOK(kind, clients'[x], hist'[x], truth')
    <3>1. clients[x].pc = "shown" => clients[x].cmd = "list"
      BY DEF Inv, ClientOK, OfLists
    <3>2. clients'[x] = clients[x] /\ ListOK(kind, clients[x], hist[x], truth)
      BY <2>1 DEF Inv
    <3>3. truth' \subseteq Ids /\ IsFiniteSet(truth')
      BY <2>4 DEF StoreOK
    <3> QED BY <2>1, <3>1, <3>2, <3>3, ListKept
  <2> QED BY <2>1, <2>2, <2>4, <2>5 DEF Inv
<1>4. CASE GiveUp
  <2>1. /\ work # NoWork /\ work' = NoWork /\ work \in Work /\ Unserved(work.id, events)
        /\ UNCHANGED <<backend, kind, db, events, clients, subs, truth, hist, issued>>
    BY <1>0, <1>4 DEF GiveUp
  <2>2. unserved' \subseteq Keys
    <3>1. work.id \in Ids /\ work.action \in {"reconcile", "delete"}
      BY <2>1 DEF Work
    <3> QED BY <2>1, <3>1, EventOK
  <2>3. Flow(backend, kind, events', work', issued', unserved')
    BY <1>0, <2>1, <2>2 DEF Flow
  <2> QED BY <2>1, <2>3 DEF Inv
<1> QED BY <1>1, <1>2, <1>3, <1>4 DEF Controller

\* The invariant is inductive.
LEMMA InvNext == Inv /\ [Next]_vars => Inv'
<1> SUFFICES ASSUME Inv, [Next]_vars PROVE Inv'
  OBVIOUS
<1>1. ASSUME NEW c \in Clients, Step(c) PROVE Inv'
  BY <1>1, UpdateOK, EmitOK, SuspendReadOK, SuspendSaveOK, DeleteNowOK, MarkReadOK, MarkWriteOK,
     ListRangeOK, ListFetchOK, WatchOK DEF Step
<1>2. ASSUME NEW c \in Clients, Commands(c) \/ Abort(c) PROVE Inv'
  BY <1>2, CommandsOK, WatchOK
<1>3. CASE UNCHANGED vars
  BY <1>3 DEF Inv, vars
<1> QED BY <1>1, <1>2, <1>3, ControllerOK DEF Next

-----------------------------------------------------------------------------
\* Type correctness of both stores under concurrent commands, whatever the
\* resources are called: every record that is stored, held, listed or
\* published is complete, whatever a list fetches is the key of a resource,
\* and no channel of the memory store exceeds its capacity.
THEOREM TypeCorrect == Spec => []TypeOK
<1>1. Inv => TypeOK
  <2> SUFFICES ASSUME Inv PROVE TypeOK
    OBVIOUS
  <2>1. Records = {None} \cup Rec(kind)
    BY DEF Records, RecordPhases, Rec, PhasesOf
  <2>2. /\ backend \in Stores /\ kind \in Kinds /\ events \in Seq([id : Ids, action : {"reconcile", "delete"}])
        /\ unserved \subseteq Keys /\ issued \in 0..MaxCommands
    BY DEF Inv, Flow, TaskEvents
  <2>3. /\ db.objects \in [Keys -> Records] /\ db.index \subseteq {Member(id) : id \in Ids}
        /\ db.byAtespace \in [Atespaces -> SUBSET Names] /\ truth \subseteq Ids
    BY <2>1, Parts DEF Inv, StoreOK
  <2>4. ASSUME NEW c \in Clients
        PROVE  /\ clients[c].held \in Records /\ clients[c].result \subseteq Records
               /\ \A p \in clients[c].members : Key(p) \in Keys
               /\ clients[c].id \in Ids \cup {NoId}
               /\ subs[c].id \in Ids \cup {NoId} /\ subs[c].lost \in BOOLEAN
               /\ subs[c].ch \in Seq(Phases)
               /\ backend = "memory" => Len(subs[c].ch) <= ChanCap
    <3>1. clients[c] \in ClientRec(kind) /\ SubOK(backend, subs[c])
      BY ClientFacts
    <3>2. /\ clients[c].held \in Records /\ clients[c].result \subseteq Records
          /\ clients[c].members \subseteq Found /\ clients[c].id \in Ids \cup {NoId}
      BY <2>1, <3>1 DEF ClientRec
    <3>3. \A p \in clients[c].members : Key(p) \in Keys
      BY <3>2, SplitKey DEF Found
    <3> QED BY <3>1, <3>2, <3>3 DEF SubOK
  <2> QED BY <2>2, <2>3, <2>4 DEF TypeOK
<1> QED BY InvInit, InvNext, <1>1, PTL DEF Spec

\* `ax get` over either store, in two round trips over Redis and whatever
\* other commands and the controller do in between: what it shows existed in
\* the atespace asked for during the command, and what existed all the time
\* is shown, unless there were more tasks than fit a page (redis/store.go and
\* memory/store.go, the List methods).  Of resources that share their key
\* with another one it says nothing; those do not disturb the others.
THEOREM ListsAreFaithful == Spec => []ListFaithful
<1>1. Inv => ListFaithful
  BY DEF Inv, ListOK, Complete, ListFaithful
<1> QED BY InvInit, InvNext, <1>1, PTL DEF Spec
=============================================================================
