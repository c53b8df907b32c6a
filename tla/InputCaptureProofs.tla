-------------------------- MODULE InputCaptureProofs --------------------------
(***************************************************************************)
(* Proofs about InputCapture for any numbers of objects, of changes and of *)
(* refreshes: the catalogue follows the registry, the stream is that of    *)
(* the node it was made for, and the status says what it is connected to.  *)
(***************************************************************************)
EXTENDS InputCapture, FiniteSetTheorems, WellFoundedInduction, TLAPS

Events == [type : {"add", "remove"}, id : Ids, kind : Kinds]

\* The types, in parts.
WorldTyped ==
  /\ present \in [Ids -> Kinds \cup {None}] /\ changes \in 0 .. MaxChanges
  /\ events \in Seq(Events)

CaptureTyped ==
  /\ handle \in BOOLEAN /\ detected \in BOOLEAN /\ hasSamples \in BOOLEAN
  /\ stream \in [id : Ids, kind : Kinds] \cup {None}
  /\ catalog \in [Ids -> Kinds \cup {None}]

StatusTyped ==
  /\ state \in BOOLEAN /\ bound \in Kinds \cup {None} /\ listed \subseteq Kinds
  /\ error \in BOOLEAN
  /\ mpc \in {"start", "list", "show", "loop", "done"} /\ hpc \in {"idle", "show"}
  /\ mlist \subseteq Kinds /\ hlist \subseteq Kinds /\ refreshes \in 0 .. MaxRefreshes
  /\ lost \in BOOLEAN /\ overlapped \in BOOLEAN /\ reported \subseteq Ids

\* What the announcements q tell of an object beyond the catalogue c, when there is p:
\* with none of it the catalogue has it; the last says what there is; the first adds it
\* only if the catalogue does not have it, and after that they take turns.
Entry(kind) == IF Catalogued(kind) THEN kind ELSE None

After(e) == IF e.type = "add" THEN e.kind ELSE None

Tells(q, c, p, id) ==
  /\ (\A i \in 1 .. Len(q) : q[i].id # id) => c[id] = Entry(p[id])
  /\ \A i \in 1 .. Len(q) :
       q[i].id = id /\ (\A j \in 1 .. Len(q) : j > i => q[j].id # id) => p[id] = After(q[i])
  /\ \A i \in 1 .. Len(q) :
       q[i].id = id /\ q[i].type = "add" /\ (\A j \in 1 .. Len(q) : j < i => q[j].id # id) =>
         c[id] = None
  /\ \A i, j \in 1 .. Len(q) :
       /\ i < j /\ q[i].id = id /\ q[j].id = id
       /\ \A k \in 1 .. Len(q) : i < k /\ k < j => q[k].id # id
       => q[i].type # q[j].type

Told == handle => \A id \in Ids : Tells(events, catalog, present, id)

\* Where a capture and its stream can be.
Placed ==
  /\ ~handle => events = << >> /\ stream = None
  /\ stream # None => detected
  /\ mpc \in {"start", "done"} => ~handle
  /\ mpc = "start" => catalog = NoObjects /\ ~state

\* What the status shows of a stream, and what the two threads are about to show.
Listening ==
  /\ state /\ ~lost => stream # None /\ bound = stream.kind
  /\ ~state => bound = None
  /\ mpc = "done" => ~state
  /\ stream # None /\ Catalogued(stream.kind) => catalog[stream.id] = stream.kind
  /\ state /\ ~lost /\ Catalogued(bound) =>
       /\ mpc = "show" => bound \in mlist
       /\ mpc = "loop" /\ hpc = "idle" /\ ~overlapped => bound \in listed
       /\ hpc = "show" /\ ~overlapped => bound \in hlist

IInv == /\ WorldTyped /\ CaptureTyped /\ StatusTyped
        /\ Told /\ Placed /\ StreamIsItsNode /\ Listening

-----------------------------------------------------------------------------
(* What the constants are, and what happens to the announcements. *)

LEMMA NoneIs ==
  /\ None \notin Ids /\ None \notin Kinds /\ IsFiniteSet(Ids)
  /\ MaxChanges \in Nat /\ MaxRefreshes \in Nat
  BY CaptureAssumption

LEMMA EntryIs ==
  /\ Entry(None) = None
  /\ \A kind \in Kinds : Entry(kind) # None => Catalogued(kind) /\ Entry(kind) = kind
  /\ \A kind \in Kinds : Catalogued(kind) /\ Matches(kind) => kind = "input"
  BY NoneIs DEF Entry, Catalogued, Matches, Kinds

\* One is added at the end.
LEMMA Appended ==
  ASSUME NEW q \in Seq(Events), NEW e \in Events
  PROVE  /\ Append(q, e) \in Seq(Events)
         /\ Len(q) \in Nat /\ Len(Append(q, e)) = Len(q) + 1
         /\ Append(q, e)[Len(q) + 1] = e
         /\ \A i \in 1 .. Len(q) : Append(q, e)[i] = q[i]
  OBVIOUS

\* The first is taken away.
LEMMA Taken ==
  ASSUME NEW q \in Seq(Events), q # << >>
  PROVE  /\ Tail(q) \in Seq(Events)
         /\ Head(q) = q[1] /\ Head(q) \in Events
         /\ Len(q) \in Nat /\ Len(q) >= 1
         /\ Len(Tail(q)) = Len(q) - 1
         /\ \A i \in 1 .. Len(q) - 1 : Tail(q)[i] = q[i + 1]
  OBVIOUS

\* A change of one object tells nothing of the others.
LEMMA OthersTold ==
  ASSUME NEW q \in Seq(Events), NEW e \in Events, NEW c, NEW p, NEW r, NEW id \in Ids,
         id # e.id, r[id] = p[id], Tells(q, c, p, id)
  PROVE  Tells(Append(q, e), c, r, id)
<1> DEFINE s == Append(q, e)
<1>1. /\ Len(q) \in Nat /\ Len(s) = Len(q) + 1 /\ s[Len(q) + 1] = e
      /\ \A i \in 1 .. Len(q) : s[i] = q[i]
  BY Appended
<1> HIDE DEF s
<1>2. \A i \in 1 .. Len(q) : i \in 1 .. Len(s) /\ s[i] = q[i]
  BY <1>1
<1>3. \A i \in 1 .. Len(s) : i \in 1 .. Len(q) \/ i = Len(q) + 1
  BY <1>1
<1>4. \A i \in 1 .. Len(s) : s[i].id = id => i \in 1 .. Len(q) /\ s[i] = q[i]
  BY <1>1, <1>2, <1>3
<1>5. (\A i \in 1 .. Len(s) : s[i].id # id) => c[id] = Entry(r[id])
  BY <1>2 DEF Tells
<1>6. ASSUME NEW i \in 1 .. Len(s), s[i].id = id,
             \A j \in 1 .. Len(s) : j > i => s[j].id # id
      PROVE  r[id] = After(s[i])
  BY <1>2, <1>4, <1>6 DEF Tells
<1>7. ASSUME NEW i \in 1 .. Len(s), s[i].id = id, s[i].type = "add",
             \A j \in 1 .. Len(s) : j < i => s[j].id # id
      PROVE  c[id] = None
  BY <1>2, <1>4, <1>7 DEF Tells
<1>8. ASSUME NEW i \in 1 .. Len(s), NEW j \in 1 .. Len(s), i < j, s[i].id = id, s[j].id = id,
             \A k \in 1 .. Len(s) : i < k /\ k < j => s[k].id # id
      PROVE  s[i].type # s[j].type
  BY <1>2, <1>4, <1>8 DEF Tells
<1>9. Tells(s, c, r, id)
  BY <1>5, <1>6, <1>7, <1>8 DEF Tells
<1> QED BY <1>9 DEF s

\* A change of the object is told last.
LEMMA ChangeTold ==
  ASSUME NEW q \in Seq(Events), NEW e \in Events, NEW c, NEW p, NEW r,
         Tells(q, c, p, e.id), p[e.id] \in Kinds \cup {None}, r[e.id] = After(e),
         e.type = "add" <=> p[e.id] = None
  PROVE  Tells(Append(q, e), c, r, e.id)
<1> DEFINE s == Append(q, e)  id == e.id  n == Len(q) + 1
<1>1. /\ Len(q) \in Nat /\ Len(s) = n /\ s[n] = e
      /\ \A i \in 1 .. Len(q) : s[i] = q[i]
  BY Appended
<1>2. \A i \in 1 .. Len(q) : q[i] \in Events
  OBVIOUS
<1>3. e.type \in {"add", "remove"} /\ e.kind \in Kinds
  BY DEF Events
<1> HIDE DEF s, id
<1>4. n \in 1 .. Len(s) /\ s[n].id = id
  BY <1>1 DEF id
<1>5. \A i \in 1 .. Len(s) : i = n \/ (i \in 1 .. Len(q) /\ i < n /\ s[i] = q[i])
  BY <1>1
<1>6. \A i \in 1 .. Len(q) : i \in 1 .. Len(s) /\ i < n /\ s[i] = q[i]
  BY <1>1
<1>7. ASSUME NEW i \in 1 .. Len(s), s[i].id = id,
             \A j \in 1 .. Len(s) : j > i => s[j].id # id
      PROVE  r[id] = After(s[i])
  <2>1. i = n
    BY <1>4, <1>5, <1>7
  <2> QED BY <1>1, <2>1 DEF id
<1>8. ASSUME NEW i \in 1 .. Len(s), s[i].id = id, s[i].type = "add",
             \A j \in 1 .. Len(s) : j < i => s[j].id # id
      PROVE  c[id] = None
  <2>1. CASE i = n
    <3>1. \A j \in 1 .. Len(q) : q[j].id # id
      BY <1>6, <1>8, <2>1
    <3>2. p[id] = None
      BY <1>1, <1>8, <2>1 DEF id
    <3> QED BY <3>1, <3>2, EntryIs DEF Tells, id
  <2>2. CASE i # n
    <3>1. i \in 1 .. Len(q) /\ s[i] = q[i]
      BY <1>5, <2>2
    <3>2. \A j \in 1 .. Len(q) : j < i => q[j].id # id
      BY <1>6, <1>8
    <3> QED BY <1>8, <3>1, <3>2 DEF Tells, id
  <2> QED BY <2>1, <2>2
<1>9. ASSUME NEW i \in 1 .. Len(s), NEW j \in 1 .. Len(s), i < j, s[i].id = id, s[j].id = id,
             \A k \in 1 .. Len(s) : i < k /\ k < j => s[k].id # id
      PROVE  s[i].type # s[j].type
  <2>1. i \in 1 .. Len(q) /\ s[i] = q[i]
    BY <1>1, <1>5, <1>9
  <2>2. CASE j = n
    <3>1. \A k \in 1 .. Len(q) : k > i => q[k].id # id
      BY <1>6, <1>9, <2>2
    <3>2. p[id] = After(q[i])
      BY <1>9, <2>1, <3>1 DEF Tells, id
    <3> QED BY <1>1, <1>2, <1>3, <2>1, <2>2, <3>2, NoneIs DEF After, Events, id
  <2>3. CASE j # n
    <3>1. j \in 1 .. Len(q) /\ s[j] = q[j]
      BY <1>5, <2>3
    <3>2. \A k \in 1 .. Len(q) : i < k /\ k < j => q[k].id # id
      BY <1>6, <1>9
    <3> QED BY <1>9, <2>1, <3>1, <3>2 DEF Tells, id
  <2> QED BY <2>2, <2>3
<1>10. ~(\A i \in 1 .. Len(s) : s[i].id # id)
  BY <1>4
<1>11. Tells(s, c, r, id)
  BY <1>7, <1>8, <1>9, <1>10 DEF Tells
<1> QED BY <1>11 DEF s, id

\* The first announcement is handled: the catalogue has what it says, if that belongs
\* there.
LEMMA HandledTold ==
  ASSUME NEW q \in Seq(Events), q # << >>, NEW c, NEW d, NEW p, NEW id \in Ids,
         Tells(q, c, p, id), id # Head(q).id => d[id] = c[id],
         id = Head(q).id =>
           d[id] = IF Head(q).type = "add" /\ ~Catalogued(Head(q).kind) THEN c[id]
                   ELSE After(Head(q))
  PROVE  Tells(Tail(q), d, p, id)
<1> DEFINE s == Tail(q)
<1>1. /\ Len(q) \in Nat /\ Len(q) >= 1 /\ Len(s) = Len(q) - 1 /\ Head(q) = q[1]
      /\ \A i \in 1 .. Len(q) - 1 : s[i] = q[i + 1]
      /\ Head(q) \in Events
  BY Taken
<1>2. Head(q).type \in {"add", "remove"} /\ Head(q).kind \in Kinds
  BY <1>1 DEF Events
<1> HIDE DEF s
<1>3. \A i \in 1 .. Len(s) : i + 1 \in 1 .. Len(q) /\ s[i] = q[i + 1] /\ 1 < i + 1
  BY <1>1
<1>4. \A i \in 1 .. Len(q) : i = 1 \/ (i - 1 \in 1 .. Len(s) /\ s[i - 1] = q[i])
  BY <1>1
<1>5. 1 \in 1 .. Len(q)
  BY <1>1
\* With nothing more of it, the catalogue has the object as it is.
<1>6. ASSUME \A i \in 1 .. Len(s) : s[i].id # id
      PROVE  d[id] = Entry(p[id])
  <2>1. \A i \in 1 .. Len(q) : i # 1 => q[i].id # id
    BY <1>4, <1>6
  <2>2. CASE Head(q).id # id
    BY <1>1, <2>1, <2>2 DEF Tells
  <2>3. CASE Head(q).id = id
    <3>1. p[id] = After(Head(q))
      BY <1>1, <1>5, <2>1, <2>3 DEF Tells
    <3>2. Head(q).type = "add" => c[id] = None
      BY <1>1, <1>5, <2>3 DEF Tells
    <3>3. CASE Head(q).type = "add"
      BY <2>3, <3>1, <3>2, <3>3 DEF After, Entry
    <3>4. CASE Head(q).type = "remove"
      BY <2>3, <3>1, <3>4, EntryIs DEF After
    <3> QED BY <1>2, <3>3, <3>4
  <2> QED BY <2>2, <2>3
\* The last of it stays the last.
<1>7. ASSUME NEW i \in 1 .. Len(s), s[i].id = id,
             \A j \in 1 .. Len(s) : j > i => s[j].id # id
      PROVE  p[id] = After(s[i])
  <2>1. i + 1 \in 1 .. Len(q) /\ s[i] = q[i + 1]
    BY <1>3
  <2>2. ASSUME NEW j \in 1 .. Len(q), j > i + 1 PROVE q[j].id # id
    <3>1. j - 1 \in 1 .. Len(s) /\ s[j - 1] = q[j] /\ j - 1 > i
      BY <1>3, <1>4, <2>2
    <3> QED BY <1>7, <3>1
  <2> QED BY <1>7, <2>1, <2>2 DEF Tells
\* The first that is left adds the object only after a removal, or to a catalogue
\* without it.
<1>8. ASSUME NEW i \in 1 .. Len(s), s[i].id = id, s[i].type = "add",
             \A j \in 1 .. Len(s) : j < i => s[j].id # id
      PROVE  d[id] = None
  <2>1. i + 1 \in 1 .. Len(q) /\ s[i] = q[i + 1] /\ 1 < i + 1
    BY <1>3
  <2>2. ASSUME NEW j \in 1 .. Len(q), 1 < j, j < i + 1 PROVE q[j].id # id
    <3>1. j - 1 \in 1 .. Len(s) /\ s[j - 1] = q[j] /\ j - 1 < i
      BY <1>4, <2>2
    <3> QED BY <1>8, <3>1
  <2>3. CASE Head(q).id # id
    <3>1. \A j \in 1 .. Len(q) : j < i + 1 => q[j].id # id
      BY <1>1, <2>2, <2>3
    <3> QED BY <1>8, <2>1, <2>3, <3>1 DEF Tells
  <2>4. CASE Head(q).id = id
    <3>1. q[1].type # q[i + 1].type
      BY <1>1, <1>5, <1>8, <2>1, <2>2, <2>4 DEF Tells
    <3>2. Head(q).type = "remove"
      BY <1>1, <1>2, <1>8, <2>1, <3>1
    <3> QED BY <2>4, <3>2 DEF After
  <2> QED BY <2>3, <2>4
<1>9. ASSUME NEW i \in 1 .. Len(s), NEW j \in 1 .. Len(s), i < j, s[i].id = id, s[j].id = id,
             \A k \in 1 .. Len(s) : i < k /\ k < j => s[k].id # id
      PROVE  s[i].type # s[j].type
  <2>1. i + 1 \in 1 .. Len(q) /\ s[i] = q[i + 1] /\ j + 1 \in 1 .. Len(q) /\ s[j] = q[j + 1]
    BY <1>3
  <2>2. ASSUME NEW k \in 1 .. Len(q), i + 1 < k, k < j + 1 PROVE q[k].id # id
    <3>1. k - 1 \in 1 .. Len(s) /\ s[k - 1] = q[k] /\ i < k - 1 /\ k - 1 < j
      BY <1>4, <2>2
    <3> QED BY <1>9, <3>1
  <2>3. i + 1 < j + 1
    BY <1>9
  <2> QED BY <1>9, <2>1, <2>2, <2>3 DEF Tells
<1>10. Tells(s, d, p, id)
  BY <1>6, <1>7, <1>8, <1>9 DEF Tells
<1> QED BY <1>10 DEF s

-----------------------------------------------------------------------------
(* What the registry announces first. *)

\* Each object there is, once.
LEMMA AnnouncementsAre ==
  ASSUME WorldTyped, NEW q \in Announcements
  PROVE  /\ q \in Seq(Events)
         /\ \A i \in 1 .. Len(q) : q[i].type = "add" /\ present[q[i].id] = q[i].kind
         /\ \A i, j \in 1 .. Len(q) : q[i].id = q[j].id => i = j
         /\ \A id \in Ids : present[id] # None => \E i \in 1 .. Len(q) : q[i].id = id
<1> DEFINE S == {id \in Ids : present[id] # None}  n == Cardinality(S)
<1>1. IsFiniteSet(S) /\ n \in Nat
  BY NoneIs, FS_Subset, FS_CardinalityType
<1>2. PICK o \in [1 .. n -> S] :
        /\ \A i, j \in 1 .. n : i # j => o[i] # o[j]
        /\ q = [i \in DOMAIN o |-> Event("add", o[i], present[o[i]])]
  BY DEF Announcements, SetToSeqs
<1> HIDE DEF n
<1>3. \A i \in 1 .. n : /\ o[i] \in Ids /\ present[o[i]] \in Kinds
                        /\ q[i] = Event("add", o[i], present[o[i]])
  BY <1>2 DEF WorldTyped
<1>4. q \in [1 .. n -> Events]
  BY <1>2, <1>3 DEF Event, Events
<1>5. q \in Seq(Events) /\ Len(q) = n
  <2>1. q \in Seq(Events)
    BY <1>1, <1>4
  <2>2. DOMAIN q = 1 .. n /\ DOMAIN q = 1 .. Len(q) /\ Len(q) \in Nat
    BY <1>4, <2>1
  <2> QED BY <1>1, <2>1, <2>2
<1>6. ASSUME NEW id \in Ids, present[id] # None
      PROVE  \E i \in 1 .. n : o[i] = id
  <2>1. o \in Injection(1 .. n, S)
    BY <1>2 DEF Injection, IsInjective
  <2>2. IsFiniteSet(1 .. n) /\ Cardinality(1 .. n) = n
    BY <1>1, FS_Interval
  <2>3. o \in Surjection(1 .. n, S)
    BY <1>1, <2>1, <2>2, FS_Injection DEF n
  <2> QED BY <1>6, <2>3 DEF Surjection
<1>7. \A i \in 1 .. n : q[i].type = "add" /\ q[i].id = o[i] /\ q[i].kind = present[o[i]]
  <2> TAKE i \in 1 .. n
  <2>1. q[i] = [type |-> "add", id |-> o[i], kind |-> present[o[i]]]
    BY <1>3 DEF Event
  <2> QED BY <2>1
<1> QED BY <1>2, <1>5, <1>6, <1>7

\* An empty catalogue and the first announcements tell of all there is.
LEMMA StartTold ==
  ASSUME WorldTyped, NEW q \in Announcements, NEW id \in Ids
  PROVE  Tells(q, NoObjects, present, id)
<1>1. /\ q \in Seq(Events)
      /\ \A i \in 1 .. Len(q) : q[i].type = "add" /\ present[q[i].id] = q[i].kind
      /\ \A i, j \in 1 .. Len(q) : q[i].id = q[j].id => i = j
      /\ present[id] # None => \E i \in 1 .. Len(q) : q[i].id = id
  BY AnnouncementsAre
<1>2. NoObjects[id] = None /\ Len(q) \in Nat
  BY <1>1 DEF NoObjects
<1>3. (\A i \in 1 .. Len(q) : q[i].id # id) => NoObjects[id] = Entry(present[id])
  BY <1>1, <1>2, EntryIs
<1>4. \A i \in 1 .. Len(q) : q[i].id = id => present[id] = After(q[i])
  BY <1>1 DEF After
<1>5. \A i, j \in 1 .. Len(q) : ~(i < j /\ q[i].id = id /\ q[j].id = id)
  BY <1>1
<1> HIDE DEF NoObjects
<1> QED BY <1>2, <1>3, <1>4, <1>5 DEF Tells

-----------------------------------------------------------------------------
(* Each step keeps the invariant. *)

\* A change of PipeWire, as it is announced.
LEMMA ChangeIs ==
  ASSUME IInv, NEW id \in Ids, NEW kind \in Kinds \cup {None}, Change(id, kind),
         present[id] = None <=> kind # None
  PROVE  /\ present' \in [Ids -> Kinds \cup {None}] /\ present'[id] = kind
         /\ \A other \in Ids : other # id => present'[other] = present[other]
         /\ changes' \in 0 .. MaxChanges
         /\ ~handle => events' = events
         /\ handle => \E e \in Events :
              /\ events' = Append(events, e)
              /\ e.id = id /\ After(e) = kind /\ (e.type = "add" <=> present[id] = None)
<1>1. present \in [Ids -> Kinds \cup {None}] /\ present' = [present EXCEPT ![id] = kind]
  BY DEF Change, IInv, WorldTyped
<1>2. changes' \in 0 .. MaxChanges
  BY NoneIs DEF Change, IInv, WorldTyped
<1>3. ~handle => events' = events
  BY DEF Change
<1>4. ASSUME handle
      PROVE  \E e \in Events :
               /\ events' = Append(events, e)
               /\ e.id = id /\ After(e) = kind /\ (e.type = "add" <=> present[id] = None)
  <2>1. CASE kind = None
    <3> DEFINE e == Event("remove", id, present[id])
    <3>1. e \in Events /\ e.id = id /\ After(e) = kind /\ e.type = "remove"
      BY <1>1, <2>1 DEF Event, Events, After
    <3>2. events' = Append(events, e)
      BY <1>4, <2>1 DEF Change
    <3> QED BY <2>1, <3>1, <3>2
  <2>2. CASE kind # None
    <3> DEFINE e == Event("add", id, kind)
    <3>1. e \in Events /\ e.id = id /\ After(e) = kind /\ e.type = "add"
      BY <2>2 DEF Event, Events, After
    <3>2. events' = Append(events, e)
      BY <1>4, <2>2 DEF Change
    <3> QED BY <2>2, <3>1, <3>2
  <2> QED BY <2>1, <2>2
<1> QED BY <1>1, <1>2, <1>3, <1>4

\* What the next-state relation is made of.
LEMMA NextIs ==
  ASSUME Next
  PROVE  \/ StartCapture \/ ListNodes \/ ShowNodes \/ HandleAdd \/ HandleRemove
         \/ FirstSamples \/ StreamError \/ LoopError \/ StopCapture \/ HttpList \/ HttpShow
         \/ \E id \in Ids, kind \in Kinds \cup {None} :
              Change(id, kind) /\ (present[id] = None <=> kind # None)
<1>1. ASSUME NEW id \in Ids, Vanish(id)
      PROVE  Change(id, None) /\ (present[id] = None <=> None # None)
  BY <1>1 DEF Vanish
<1>2. ASSUME NEW id \in Ids, NEW kind \in Kinds, Appear(id, kind)
      PROVE  Change(id, kind) /\ (present[id] = None <=> kind # None)
  BY <1>2, NoneIs DEF Appear
<1> QED BY <1>1, <1>2 DEF Next, MainStep

\* An announcement to be handled.
LEMMA HeadIs ==
  ASSUME IInv, NEW type, Announced(type)
  PROVE  /\ mpc = "loop" /\ handle /\ events # << >>
         /\ Head(events) \in Events /\ Head(events) = events[1] /\ Head(events).type = type
         /\ Head(events).id \in Ids /\ Head(events).kind \in Kinds
         /\ Tail(events) \in Seq(Events)
<1>1. events \in Seq(Events) /\ events # << >> /\ Head(events).type = type
  BY DEF Announced, IInv, WorldTyped
<1>2. Head(events) \in Events /\ Head(events) = events[1] /\ Tail(events) \in Seq(Events)
  BY <1>1, Taken
<1> QED BY <1>1, <1>2 DEF Announced, Events

LEMMA StepWorld ==
  ASSUME IInv, [Next]_vars
  PROVE  WorldTyped'
<1> USE DEF world, capture, status, http, history
<1>1. CASE StartCapture
  BY <1>1, AnnouncementsAre DEF StartCapture, OpenStream, IInv, WorldTyped
<1>2. CASE HandleAdd \/ HandleRemove
  BY <1>2, HeadIs DEF HandleAdd, HandleRemove, IInv, WorldTyped
<1>3. CASE StopCapture
  <2>1. events' = << >> /\ << >> \in Seq(Events)
    BY <1>3 DEF StopCapture
  <2> QED BY <1>3, <2>1 DEF StopCapture, IInv, WorldTyped
<1>4. ASSUME NEW id \in Ids, NEW kind \in Kinds \cup {None}, Change(id, kind),
             present[id] = None <=> kind # None
      PROVE  WorldTyped'
  <2>1. present' \in [Ids -> Kinds \cup {None}] /\ changes' \in 0 .. MaxChanges
    BY <1>4, ChangeIs
  <2>2. events' \in Seq(Events)
    <3>1. events \in Seq(Events)
      BY DEF IInv, WorldTyped
    <3>2. CASE ~handle
      BY <1>4, <3>1, <3>2, ChangeIs
    <3>3. CASE handle
      <4>1. PICK e \in Events : events' = Append(events, e)
        BY <1>4, <3>3, ChangeIs
      <4> QED BY <3>1, <4>1, Appended
    <3> QED BY <3>2, <3>3
  <2> QED BY <2>1, <2>2 DEF WorldTyped
<1>5. CASE UNCHANGED vars
  BY <1>5 DEF vars, IInv, WorldTyped
<1>6. CASE ListNodes \/ ShowNodes \/ FirstSamples \/ StreamError \/ LoopError \/ HttpList
           \/ HttpShow
  BY <1>6 DEF ListNodes, ShowNodes, FirstSamples, StreamError, LoopError, HttpList, HttpShow,
       IInv, WorldTyped
<1> QED BY <1>1, <1>2, <1>3, <1>4, <1>5, <1>6, NextIs

LEMMA StepCapture ==
  ASSUME IInv, [Next]_vars
  PROVE  CaptureTyped'
<1> USE DEF world, capture, status, http, history
<1>1. CASE StartCapture
  BY <1>1 DEF StartCapture, OpenStream, IInv, CaptureTyped
<1>2. CASE HandleAdd
  <2> DEFINE e == Head(events)
  <2>1. e.id \in Ids /\ e.kind \in Kinds
    BY <1>2, HeadIs DEF HandleAdd
  <2> HIDE DEF e
  <2>2. catalog' \in {catalog, [catalog EXCEPT ![e.id] = e.kind]}
    BY <1>2 DEF HandleAdd, Upsert, e
  <2>3. /\ detected' \in {detected, TRUE} /\ stream' \in {stream, [id |-> e.id, kind |-> e.kind]}
        /\ UNCHANGED <<handle, hasSamples>>
    BY <1>2 DEF HandleAdd, Connect, ConnectFails, e
  <2>4. catalog' \in [Ids -> Kinds \cup {None}]
    BY <2>1, <2>2 DEF IInv, CaptureTyped
  <2>5. stream' \in [id : Ids, kind : Kinds] \cup {None}
    BY <2>1, <2>3 DEF IInv, CaptureTyped
  <2> QED BY <2>3, <2>4, <2>5 DEF IInv, CaptureTyped
<1>3. CASE HandleRemove
  <2> DEFINE id == Head(events).id
  <2>1. id \in Ids
    BY <1>3, HeadIs DEF HandleRemove
  <2>2. catalog' = [catalog EXCEPT ![id] = None] /\ stream' \in {stream, None}
        /\ UNCHANGED <<handle, detected, hasSamples>>
    BY <1>3 DEF HandleRemove, Removed, StreamWithout
  <2> QED BY <2>1, <2>2 DEF IInv, CaptureTyped
<1>4. CASE FirstSamples \/ StopCapture
  BY <1>4 DEF FirstSamples, StopCapture, StopStatus, IInv, CaptureTyped
<1>5. ASSUME NEW id \in Ids, NEW kind \in Kinds \cup {None}, Change(id, kind)
      PROVE  CaptureTyped'
  BY <1>5 DEF Change, IInv, CaptureTyped
<1>6. CASE ListNodes \/ ShowNodes \/ StreamError \/ LoopError \/ HttpList \/ HttpShow
  BY <1>6 DEF ListNodes, ShowNodes, StreamError, LoopError, HttpList, HttpShow, IInv,
       CaptureTyped
<1>7. CASE UNCHANGED vars
  BY <1>7 DEF vars, IInv, CaptureTyped
<1> QED BY <1>1, <1>2, <1>3, <1>4, <1>5, <1>6, <1>7, NextIs

LEMMA StepStatus ==
  ASSUME IInv, [Next]_vars
  PROVE  StatusTyped'
<1> USE DEF world, capture, status, http, history
<1>1. CASE StartCapture
  BY <1>1 DEF StartCapture, IInv, StatusTyped
<1>2. CASE ListNodes
  BY <1>2 DEF ListNodes, InputNodes, Kinds, IInv, StatusTyped
<1>3. CASE ShowNodes
  BY <1>3 DEF ShowNodes, IInv, StatusTyped
<1>4. CASE HandleAdd
  <2>1. error' \in {error, TRUE}
    BY <1>4 DEF HandleAdd, ConnectFails
  <2>2. reported' \subseteq Ids
    BY <1>4, HeadIs DEF HandleAdd, ConnectFails, IInv, StatusTyped
  <2>3. UNCHANGED <<state, bound, listed, mpc, hpc, mlist, hlist, refreshes, lost, overlapped>>
    BY <1>4 DEF HandleAdd
  <2> QED BY <2>1, <2>2, <2>3 DEF IInv, StatusTyped
<1>5. CASE HandleRemove
  <2>1. lost' \in BOOLEAN
    BY <1>5 DEF HandleRemove, IInv, StatusTyped
  <2> QED BY <1>5, <2>1 DEF HandleRemove, IInv, StatusTyped
<1>6. CASE FirstSamples
  <2>1. stream.kind \in Kinds
    BY <1>6 DEF FirstSamples, Buffer, IInv, CaptureTyped
  <2> QED BY <1>6, <2>1 DEF FirstSamples, IInv, StatusTyped
<1>7. CASE StreamError \/ LoopError
  BY <1>7 DEF StreamError, LoopError, IInv, StatusTyped
<1>8. CASE StopCapture
  BY <1>8 DEF StopCapture, StopStatus, IInv, StatusTyped
<1>9. CASE HttpList
  <2>1. refreshes' \in 0 .. MaxRefreshes
    BY <1>9, NoneIs DEF HttpList, IInv, StatusTyped
  <2>2. hlist' \subseteq Kinds
    BY <1>9 DEF HttpList, InputNodes, Kinds
  <2> QED BY <1>9, <2>1, <2>2 DEF HttpList, IInv, StatusTyped
<1>10. CASE HttpShow
  BY <1>10 DEF HttpShow, IInv, StatusTyped
<1>11. ASSUME NEW id \in Ids, NEW kind \in Kinds \cup {None}, Change(id, kind)
       PROVE  StatusTyped'
  BY <1>11 DEF Change, IInv, StatusTyped
<1>12. CASE UNCHANGED vars
  BY <1>12 DEF vars, IInv, StatusTyped
<1> QED BY <1>1, <1>2, <1>3, <1>4, <1>5, <1>6, <1>7, <1>8, <1>9, <1>10, <1>11, <1>12, NextIs

\* Handling an announcement keeps what the rest of them tell.
LEMMA HandleTold ==
  ASSUME IInv, HandleAdd \/ HandleRemove
  PROVE  \A id \in Ids : Tells(Tail(events), catalog', present, id)
<1> DEFINE e == Head(events)
<1>1. events \in Seq(Events) /\ events # << >> /\ handle /\ e.id \in Ids /\ e.kind \in Kinds
  BY HeadIs DEF HandleAdd, HandleRemove, IInv, WorldTyped
<1>2. catalog \in [Ids -> Kinds \cup {None}]
  BY DEF IInv, CaptureTyped
<1>3. CASE HandleAdd
  <2>1. e.type = "add" /\ catalog' = IF Catalogued(e.kind) THEN Upsert(e) ELSE catalog
    BY <1>3 DEF HandleAdd, Announced
  <2>2. \A id \in Ids : catalog'[id] = IF id = e.id /\ Catalogued(e.kind) THEN e.kind ELSE catalog[id]
    BY <1>1, <1>2, <2>1 DEF Upsert
  <2> QED BY <1>1, <2>1, <2>2, HandledTold DEF After, IInv, Told
<1>4. CASE HandleRemove
  <2>1. e.type = "remove" /\ catalog' = Removed(catalog, e.id)
    BY <1>4 DEF HandleRemove, Announced
  <2>2. \A id \in Ids : catalog'[id] = IF id = e.id THEN None ELSE catalog[id]
    BY <1>1, <1>2, <2>1 DEF Removed
  <2> QED BY <1>1, <2>1, <2>2, HandledTold DEF After, IInv, Told
<1> QED BY <1>3, <1>4

LEMMA StepTold ==
  ASSUME IInv, [Next]_vars
  PROVE  Told'
<1> USE DEF world, capture, status, http, history
<1>1. CASE StartCapture
  <2> SUFFICES ASSUME handle' PROVE \A id \in Ids : Tells(events', catalog', present', id)
    BY DEF Told
  <2>1. events' \in Announcements /\ catalog' = NoObjects /\ present' = present
    BY <1>1 DEF StartCapture, OpenStream, IInv, Placed
  <2> QED BY <2>1, StartTold DEF IInv
<1>2. CASE HandleAdd \/ HandleRemove
  BY <1>2, HandleTold DEF HandleAdd, HandleRemove, Told
<1>3. CASE StopCapture
  BY <1>3 DEF StopCapture, Told
<1>4. ASSUME NEW id \in Ids, NEW kind \in Kinds \cup {None}, Change(id, kind),
             present[id] = None <=> kind # None
      PROVE  Told'
  <2> SUFFICES ASSUME handle PROVE \A other \in Ids : Tells(events', catalog, present', other)
    BY <1>4 DEF Change, Told
  <2>1. PICK e \in Events :
          /\ events' = Append(events, e)
          /\ e.id = id /\ After(e) = kind /\ (e.type = "add" <=> present[id] = None)
    BY <1>4, ChangeIs
  <2>2. events \in Seq(Events) /\ present[id] \in Kinds \cup {None} /\ present'[id] = kind
        /\ \A other \in Ids : other # id => present'[other] = present[other]
    BY <1>4, ChangeIs DEF IInv, WorldTyped
  <2>3. \A other \in Ids : Tells(events, catalog, present, other)
    BY DEF IInv, Told
  <2>4. Tells(events', catalog, present', id)
    BY <2>1, <2>2, <2>3, ChangeTold
  <2>5. ASSUME NEW other \in Ids, other # id PROVE Tells(events', catalog, present', other)
    BY <2>1, <2>2, <2>3, <2>5, OthersTold
  <2> QED BY <2>4, <2>5
<1>5. CASE ListNodes \/ ShowNodes \/ FirstSamples \/ StreamError \/ LoopError \/ HttpList
           \/ HttpShow
  BY <1>5 DEF ListNodes, ShowNodes, FirstSamples, StreamError, LoopError, HttpList, HttpShow,
       IInv, Told
<1>6. CASE UNCHANGED vars
  BY <1>6 DEF vars, IInv, Told
<1> QED BY <1>1, <1>2, <1>3, <1>4, <1>5, <1>6, NextIs

LEMMA StepPlaced ==
  ASSUME IInv, [Next]_vars
  PROVE  Placed'
<1> USE DEF world, capture, status, http, history
<1>1. CASE StartCapture
  BY <1>1 DEF StartCapture, OpenStream, IInv, Placed
<1>2. CASE HandleAdd
  <2>1. mpc' = "loop" /\ handle' /\ (stream' # None => detected')
    BY <1>2 DEF HandleAdd, Announced, Connect, ConnectFails, IInv, Placed
  <2> QED BY <2>1 DEF Placed
<1>3. CASE HandleRemove
  <2>1. mpc' = "loop" /\ handle' /\ (stream' # None => detected')
    BY <1>3 DEF HandleRemove, Announced, StreamWithout, IInv, Placed
  <2> QED BY <2>1 DEF Placed
<1>4. CASE StopCapture
  BY <1>4 DEF StopCapture, StopStatus, IInv, Placed
<1>5. ASSUME NEW id \in Ids, NEW kind \in Kinds \cup {None}, Change(id, kind)
      PROVE  Placed'
  BY <1>5 DEF Change, IInv, Placed
<1>6. CASE ListNodes \/ ShowNodes \/ FirstSamples \/ StreamError \/ LoopError \/ HttpList
           \/ HttpShow
  BY <1>6 DEF ListNodes, ShowNodes, FirstSamples, StreamError, LoopError, HttpList, HttpShow,
       Buffer, IInv, Placed
<1>7. CASE UNCHANGED vars
  BY <1>7 DEF vars, IInv, Placed
<1> QED BY <1>1, <1>2, <1>3, <1>4, <1>5, <1>6, <1>7, NextIs

-----------------------------------------------------------------------------
(* The stream. *)

\* A set of numbers has a least one.
LEMMA Least ==
  ASSUME NEW S \in SUBSET Nat, S # {}
  PROVE  \E m \in S : \A k \in S : m <= k
<1> DEFINE R == OpToRel(<, Nat)
<1>1. IsWellFoundedOn(R, Nat)
  BY NatLessThanWellFounded
<1>2. \A x, y \in Nat : <<y, x>> \in R <=> y < x
  BY DEF OpToRel
<1> HIDE DEF R
<1>3. PICK m \in S : \A k \in S : ~(<<k, m>> \in R)
  BY <1>1, WFMin
<1>4. m \in Nat /\ \A k \in S : k \in Nat
  OBVIOUS
<1>5. \A k \in S : ~(k < m)
  BY <1>2, <1>3, <1>4, Zenon
<1> QED BY <1>4, <1>5

\* An object that is announced is there, unless its removal is announced as well.
LEMMA AddedIsThere ==
  ASSUME NEW q \in Seq(Events), q # << >>, NEW c, NEW p, Head(q).type = "add",
         Tells(q, c, p, Head(q).id)
  PROVE  \/ p[Head(q).id] = Head(q).kind
         \/ \E i \in 1 .. Len(Tail(q)) : Tail(q)[i].type = "remove" /\ Tail(q)[i].id = Head(q).id
<1> DEFINE id == Head(q).id  later == {i \in 2 .. Len(q) : q[i].id = id}
<1>1. /\ Len(q) \in Nat /\ Len(q) >= 1 /\ Len(Tail(q)) = Len(q) - 1 /\ Head(q) = q[1]
      /\ \A i \in 1 .. Len(q) - 1 : Tail(q)[i] = q[i + 1]
  BY Taken
<1>2. \A i \in 1 .. Len(q) : q[i] \in Events
  OBVIOUS
<1> HIDE DEF id
<1>3. 1 \in 1 .. Len(q) /\ q[1].id = id /\ q[1].type = "add"
  BY <1>1 DEF id
<1>4. CASE later = {}
  <2>1. \A j \in 1 .. Len(q) : j > 1 => q[j].id # id
    BY <1>1, <1>4
  <2> QED BY <1>1, <1>3, <2>1 DEF Tells, After, id
<1>5. CASE later # {}
  <2>0. later \in SUBSET Nat
    BY <1>1
  <2>1. PICK m \in later : \A k \in later : m <= k
    <3> HIDE DEF later
    <3> QED BY <1>5, <2>0, Least
  <2>2. m \in 1 .. Len(q) /\ 1 < m /\ q[m].id = id
    BY <1>1, <2>1
  <2>3. \A k \in 1 .. Len(q) : 1 < k /\ k < m => q[k].id # id
    BY <1>1, <2>1
  <2>4. q[1].type # q[m].type
    BY <1>3, <2>2, <2>3 DEF Tells, id
  <2>5. q[m].type = "remove"
    BY <1>2, <1>3, <2>2, <2>4 DEF Events
  <2>6. m - 1 \in 1 .. Len(Tail(q)) /\ Tail(q)[m - 1] = q[m]
    BY <1>1, <2>2
  <2> QED BY <2>2, <2>5, <2>6 DEF id
<1> QED BY <1>4, <1>5

\* Whose stream it is, of any queue.
Whose(q, st, p) ==
  /\ Matches(st.kind)
  /\ \/ p[st.id] = st.kind
     \/ \E i \in 1 .. Len(q) : q[i].type = "remove" /\ q[i].id = st.id

LEMMA StreamIs ==
  ASSUME WorldTyped
  PROVE  StreamIsItsNode <=> (stream # None => Whose(events, stream, present))
  BY DEF WorldTyped, StreamIsItsNode, Whose

LEMMA StepStream ==
  ASSUME IInv, [Next]_vars
  PROVE  StreamIsItsNode'
<1> USE DEF world, capture, status, http, history
<1>1. events \in Seq(Events) /\ present \in [Ids -> Kinds \cup {None}]
      /\ stream \in [id : Ids, kind : Kinds] \cup {None}
  BY DEF IInv, WorldTyped, CaptureTyped
<1>2. stream # None => Whose(events, stream, present)
  BY StreamIs DEF IInv
<1>3. WorldTyped'
  BY StepWorld
<1> SUFFICES ASSUME stream' # None PROVE Whose(events', stream', present')
  BY <1>3 DEF WorldTyped, StreamIsItsNode, Whose
<1>4. CASE StartCapture \/ StopCapture
  BY <1>4 DEF StartCapture, OpenStream, StopCapture
<1>5. CASE HandleAdd
  <2> DEFINE e == Head(events)
  <2>1. /\ events # << >> /\ events' = Tail(events) /\ e.type = "add" /\ e.id \in Ids /\ handle
        /\ present' = present /\ e = events[1]
    BY <1>5, HeadIs DEF HandleAdd
  <2>2. CASE stream' = stream
    <3>1. CASE present[stream.id] = stream.kind
      BY <1>2, <2>1, <2>2, <3>1 DEF Whose
    <3>2. CASE \E i \in 1 .. Len(events) : events[i].type = "remove" /\ events[i].id = stream.id
      <4>1. PICK i \in 1 .. Len(events) : events[i].type = "remove" /\ events[i].id = stream.id
        BY <3>2
      <4>2. i # 1
        BY <2>1, <4>1
      <4>3. i - 1 \in 1 .. Len(events') /\ events'[i - 1] = events[i]
        BY <1>1, <2>1, <4>1, <4>2, Taken
      <4> QED BY <1>2, <2>2, <4>1, <4>3 DEF Whose
    <3> QED BY <1>2, <2>2, <3>1, <3>2 DEF Whose
  <2>3. CASE stream' # stream
    <3>1. Matches(e.kind) /\ stream' = [id |-> e.id, kind |-> e.kind]
      BY <1>5, <2>3 DEF HandleAdd, Connect, ConnectFails
    <3>2. Tells(events, catalog, present, e.id)
      BY <2>1 DEF IInv, Told
    <3>3. \/ present[e.id] = e.kind
          \/ \E i \in 1 .. Len(events') : events'[i].type = "remove" /\ events'[i].id = e.id
      BY <1>1, <2>1, <3>2, AddedIsThere
    <3> QED BY <2>1, <3>1, <3>3 DEF Whose
  <2> QED BY <2>2, <2>3
<1>6. CASE HandleRemove
  <2> DEFINE e == Head(events)
  <2>1. /\ events # << >> /\ events' = Tail(events) /\ present' = present /\ e = events[1]
    BY <1>6, HeadIs DEF HandleRemove
  <2>2. stream' = stream /\ stream # None /\ stream.id # e.id
    BY <1>6 DEF HandleRemove, StreamWithout
  <2>3. CASE present[stream.id] = stream.kind
    BY <1>2, <2>1, <2>2, <2>3 DEF Whose
  <2>4. CASE \E i \in 1 .. Len(events) : events[i].type = "remove" /\ events[i].id = stream.id
    <3>1. PICK i \in 1 .. Len(events) : events[i].type = "remove" /\ events[i].id = stream.id
      BY <2>4
    <3>2. i # 1
      BY <2>1, <2>2, <3>1
    <3>3. i - 1 \in 1 .. Len(events') /\ events'[i - 1] = events[i]
      BY <1>1, <2>1, <3>1, <3>2, Taken
    <3> QED BY <1>2, <2>2, <3>1, <3>3 DEF Whose
  <2> QED BY <1>2, <2>2, <2>3, <2>4 DEF Whose
<1>7. ASSUME NEW id \in Ids, NEW kind \in Kinds \cup {None}, Change(id, kind),
             present[id] = None <=> kind # None
      PROVE  Whose(events', stream', present')
  <2>1. stream' = stream /\ stream # None /\ handle /\ stream.id \in Ids /\ stream.kind \in Kinds
    BY <1>1, <1>7 DEF Change, IInv, Placed
  <2>2. PICK e \in Events :
          /\ events' = Append(events, e)
          /\ e.id = id /\ After(e) = kind /\ (e.type = "add" <=> present[id] = None)
    BY <1>7, <2>1, ChangeIs
  <2>3. /\ Len(events) \in Nat /\ Len(events') = Len(events) + 1 /\ events'[Len(events) + 1] = e
        /\ \A i \in 1 .. Len(events) : events'[i] = events[i]
    BY <1>1, <2>2, Appended
  <2>4. CASE \E i \in 1 .. Len(events) : events[i].type = "remove" /\ events[i].id = stream.id
    <3>1. PICK i \in 1 .. Len(events) : events[i].type = "remove" /\ events[i].id = stream.id
      BY <2>4
    <3>2. i \in 1 .. Len(events') /\ events'[i] = events[i]
      BY <2>3, <3>1
    <3> QED BY <1>2, <2>1, <3>1, <3>2 DEF Whose
  <2>5. CASE present[stream.id] = stream.kind /\ id # stream.id
    <3>1. present'[stream.id] = present[stream.id]
      BY <1>7, <2>1, <2>5, ChangeIs
    <3> QED BY <1>2, <2>1, <2>5, <3>1 DEF Whose
  <2>6. CASE present[stream.id] = stream.kind /\ id = stream.id
    <3>1. e.type = "remove"
      BY <2>1, <2>2, <2>6, NoneIs DEF Events
    <3>2. Len(events) + 1 \in 1 .. Len(events')
      BY <2>3
    <3> QED BY <1>2, <2>1, <2>2, <2>3, <2>6, <3>1, <3>2 DEF Whose
  <2> QED BY <1>2, <2>1, <2>4, <2>5, <2>6 DEF Whose
<1>8. CASE ListNodes \/ ShowNodes \/ FirstSamples \/ StreamError \/ LoopError \/ HttpList
           \/ HttpShow \/ UNCHANGED vars
  <2>1. UNCHANGED <<events, present, stream>>
    BY <1>8 DEF ListNodes, ShowNodes, FirstSamples, StreamError, LoopError, HttpList, HttpShow,
         vars
  <2> QED BY <1>2, <2>1
<1> QED BY <1>4, <1>5, <1>6, <1>7, <1>8, NextIs

-----------------------------------------------------------------------------
(* The status. *)

\* A stream whose node is catalogued is in the catalogue, and what is listed of it.
LEMMA StreamIsListed ==
  ASSUME IInv, stream # None, Catalogued(stream.kind)
  PROVE  stream.kind \in InputNodes(catalog)
<1>1. stream.id \in Ids /\ stream.kind \in Kinds /\ Matches(stream.kind)
  BY DEF IInv, CaptureTyped, StreamIsItsNode
<1>2. catalog[stream.id] = stream.kind
  BY DEF IInv, Listening
<1>3. stream.kind = "input"
  BY <1>1, EntryIs
<1> QED BY <1>1, <1>2, <1>3 DEF InputNodes

\* The catalogue keeps the node of the stream, whatever is announced, until its removal.
LEMMA StreamStaysListed ==
  ASSUME IInv, HandleAdd, stream # None, Catalogued(stream.kind)
  PROVE  catalog'[stream.id] = stream.kind
<1> DEFINE e == Head(events)
<1>1. /\ e.id \in Ids /\ handle /\ events # << >> /\ e = events[1] /\ e.type = "add"
      /\ events \in Seq(Events) /\ catalog \in [Ids -> Kinds \cup {None}]
      /\ stream.id \in Ids /\ stream.kind \in Kinds
  BY HeadIs DEF HandleAdd, IInv, WorldTyped, CaptureTyped
<1>2. catalog[stream.id] = stream.kind /\ Tells(events, catalog, present, e.id)
  BY <1>1 DEF IInv, Listening, Told
<1>3. 1 \in 1 .. Len(events)
  BY <1>1, Taken
<1>4. catalog[e.id] = None
  BY <1>1, <1>2, <1>3 DEF Tells
<1>5. stream.id # e.id
  BY <1>1, <1>2, <1>4, NoneIs
<1> QED BY <1>1, <1>2, <1>5 DEF HandleAdd, Upsert

LEMMA StepListening ==
  ASSUME IInv, [Next]_vars
  PROVE  Listening'
<1> USE DEF world, capture, status, http, history
<1>0. stream # None => stream.kind \in Kinds
  BY DEF IInv, CaptureTyped
<1>1. CASE StartCapture
  BY <1>1 DEF StartCapture, OpenStream, IInv, Placed, Listening
<1>2. CASE ListNodes
  <2>1. state /\ ~lost /\ Catalogued(bound) => bound \in mlist'
    BY <1>2, StreamIsListed DEF ListNodes, IInv, Listening
  <2> QED BY <1>2, <2>1 DEF ListNodes, IInv, Listening
<1>3. CASE ShowNodes
  BY <1>3 DEF ShowNodes, IInv, StatusTyped, Listening
<1>4. CASE HandleAdd
  <2>1. /\ UNCHANGED <<state, bound, lost, mpc, hpc, mlist, hlist, listed, overlapped>>
        /\ mpc = "loop"
    BY <1>4 DEF HandleAdd, Announced
  <2>2. CASE stream # None
    <3>1. stream' = stream
      BY <1>4, <2>2 DEF HandleAdd, IInv, Placed
    <3>2. Catalogued(stream.kind) => catalog'[stream.id] = stream.kind
      BY <1>4, <2>2, StreamStaysListed
    <3> QED BY <2>1, <3>1, <3>2 DEF IInv, Listening
  <2>3. CASE stream = None
    <3>1. ~(state /\ ~lost)
      BY <2>3 DEF IInv, Listening
    <3>2. stream' # None /\ Catalogued(stream'.kind) => catalog'[stream'.id] = stream'.kind
      <4> DEFINE e == Head(events)
      <4>1. e.id \in Ids /\ catalog \in [Ids -> Kinds \cup {None}]
        BY <1>4, HeadIs DEF HandleAdd, IInv, CaptureTyped
      <4>2. stream' # None => stream' = [id |-> e.id, kind |-> e.kind]
        BY <1>4, <2>3 DEF HandleAdd, Connect, ConnectFails
      <4>3. Catalogued(e.kind) => catalog'[e.id] = e.kind
        BY <1>4, <4>1 DEF HandleAdd, Upsert
      <4> QED BY <4>2, <4>3
    <3> QED BY <2>1, <3>1, <3>2 DEF IInv, Listening
  <2> QED BY <2>2, <2>3
<1>5. CASE HandleRemove
  <2> DEFINE id == Head(events).id
  <2>1. /\ UNCHANGED <<state, bound, mpc, hpc, mlist, hlist, listed, overlapped>>
        /\ catalog' = [catalog EXCEPT ![id] = None] /\ id \in Ids
        /\ lost' = (lost \/ (stream # None /\ stream.id = id))
        /\ stream' = IF stream # None /\ stream.id = id THEN None ELSE stream
    BY <1>5, HeadIs DEF HandleRemove, Removed, StreamWithout
  <2>2. CASE stream # None /\ stream.id = id
    BY <2>1, <2>2 DEF IInv, Listening
  <2>3. CASE ~(stream # None /\ stream.id = id)
    <3>1. stream' = stream /\ lost' = lost
      BY <2>1, <2>3 DEF IInv, StatusTyped
    <3>2. stream # None => catalog'[stream.id] = catalog[stream.id]
      BY <2>1, <2>3 DEF IInv, CaptureTyped
    <3> QED BY <2>1, <3>1, <3>2 DEF IInv, Listening
  <2> QED BY <2>2, <2>3
<1>6. CASE FirstSamples
  <2>1. /\ stream # None /\ bound' = stream.kind /\ state' /\ mpc' = "list"
        /\ UNCHANGED <<stream, catalog, hpc>> /\ (hpc = "show" => overlapped')
    BY <1>6 DEF FirstSamples, Buffer
  <2> QED BY <2>1 DEF IInv, Listening
<1>7. CASE StopCapture
  BY <1>7 DEF StopCapture, StopStatus, Listening
<1>8. CASE HttpList
  <2>1. /\ state /\ ~lost /\ Catalogued(bound) => bound \in hlist'
        /\ UNCHANGED <<stream, catalog, state, bound, lost, mpc, mlist, listed>>
        /\ hpc' = "show"
    BY <1>8, StreamIsListed DEF HttpList, IInv, StatusTyped, Listening
  <2> QED BY <2>1 DEF IInv, Listening
<1>9. CASE HttpShow
  BY <1>9 DEF HttpShow, IInv, Listening
<1>10. ASSUME NEW id \in Ids, NEW kind \in Kinds \cup {None}, Change(id, kind)
       PROVE  Listening'
  BY <1>10 DEF Change, IInv, Listening
<1>11. CASE StreamError \/ LoopError \/ UNCHANGED vars
  BY <1>11 DEF StreamError, LoopError, vars, IInv, Listening
<1> QED BY <1>1, <1>2, <1>3, <1>4, <1>5, <1>6, <1>7, <1>8, <1>9, <1>10, <1>11, NextIs

-----------------------------------------------------------------------------
(* The theorems. *)

LEMMA InitIInv == Init => IInv
<1> SUFFICES ASSUME Init PROVE IInv
  OBVIOUS
<1>1. WorldTyped
  <2>1. present \in [Ids -> Kinds \cup {None}]
    BY DEF Init, Kinds
  <2> QED BY <2>1, NoneIs DEF Init, WorldTyped
<1>2. CaptureTyped
  BY DEF Init, CaptureTyped, NoObjects
<1>3. StatusTyped
  <2>1. 0 \in 0 .. MaxRefreshes
    BY NoneIs
  <2>2. {} \subseteq Kinds
    OBVIOUS
  <2> QED BY <2>1, <2>2 DEF Init, StatusTyped
<1>4. Told /\ Placed /\ StreamIsItsNode /\ Listening
  BY DEF Init, Told, Placed, StreamIsItsNode, Listening
<1> QED BY <1>1, <1>2, <1>3, <1>4 DEF IInv

LEMMA IInvHolds == Spec => []IInv
<1>1. IInv /\ [Next]_vars => IInv'
  BY StepWorld, StepCapture, StepStatus, StepTold, StepPlaced, StepStream, StepListening
     DEF IInv
<1> QED BY InitIInv, <1>1, PTL DEF Spec

\* Every variable keeps its type, for any objects and any number of changes.
THEOREM TypeCorrect == Spec => []TypeOK
<1>1. IInv => TypeOK
  BY DEF IInv, WorldTyped, CaptureTyped, StatusTyped, Events, TypeOK
<1> QED BY IInvHolds, <1>1, PTL

\* The catalogue that the registry's callbacks keep by number follows PipeWire: nothing
\* that is there is missing and nothing that is gone stays, however numbers are used again.
THEOREM CatalogFollowsRegistry == Spec => []CatalogIsRegistry
<1>1. ASSUME IInv PROVE CatalogIsRegistry
  <2> SUFFICES ASSUME handle, NEW id \in Ids
               PROVE  IF Pending(id) = {}
                      THEN catalog[id] = IF Catalogued(present[id]) THEN present[id] ELSE None
                      ELSE \A last \in Pending(id) : (\A i \in Pending(id) : i <= last) =>
                             present[id] = IF events[last].type = "add" THEN events[last].kind
                                                                        ELSE None
    BY DEF CatalogIsRegistry
  <2>1. events \in Seq(Events) /\ Tells(events, catalog, present, id)
    BY <1>1 DEF IInv, WorldTyped, Told
  <2>2. Pending(id) = {i \in 1 .. Len(events) : events[i].id = id} /\ Len(events) \in Nat
    BY <2>1 DEF Pending
  <2>3. CASE Pending(id) = {}
    <3>1. \A i \in 1 .. Len(events) : events[i].id # id
      BY <2>2, <2>3
    <3> QED BY <2>1, <2>3, <3>1 DEF Tells, Entry
  <2>4. ASSUME NEW last \in Pending(id), \A i \in Pending(id) : i <= last
        PROVE  present[id] = After(events[last])
    <3>1. last \in 1 .. Len(events) /\ events[last].id = id
      BY <2>2
    <3>2. \A j \in 1 .. Len(events) : j > last => events[j].id # id
      BY <2>2, <2>4, <3>1
    <3> QED BY <2>1, <3>1, <3>2 DEF Tells
  <2> QED BY <2>3, <2>4 DEF After
<1> QED BY IInvHolds, <1>1, PTL

\* Samples come from a node that the capture was looking for, and that is still there
\* unless its removal waits to be handled.
THEOREM StreamKeepsItsNode == Spec => []StreamIsItsNode
<1>1. IInv => StreamIsItsNode
  BY DEF IInv
<1> QED BY IInvHolds, <1>1, PTL

\* The status says "listening" only of a connected stream, with the name of its node, and
\* lists that node, whatever the registry announces and the HTTP thread refreshes between.
THEOREM ListeningIsTrue == Spec => []ListeningIsConnected
<1>1. IInv => ListeningIsConnected
  BY DEF IInv, Listening, ListeningIsConnected
<1> QED BY IInvHolds, <1>1, PTL

=============================================================================
