------------------------------ MODULE JsonHeap ------------------------------
(***************************************************************************)
(* The items cJSON makes its objects of, as a heap: an object points to    *)
(* its first child, the children are linked by next and prev, and the prev *)
(* of the first child points to the last, so that appending is quick.      *)
(* Each operator is a function of cJSON.c as the application calls it, and *)
(* gives the heap afterwards.  Item 0 is NULL; allocation succeeds.        *)
(***************************************************************************)
EXTENDS Naturals, FiniteSets, Sequences, SequencesExt, FiniteSetsExt

CONSTANT MaxItems   \* the memory

ASSUME HeapAssumption == MaxItems \in Nat \ {0}

Items == 1 .. MaxItems

Empty == [i \in Items |-> 0]

NoHeap(noName) ==
  [next |-> Empty, prev |-> Empty, child |-> Empty, value |-> Empty,
   name |-> [i \in Items |-> noName], live |-> {}]

\* Allocation succeeds: bounds the items.
Room(h, n) == n <= Cardinality(Items \ h.live)

\* The item an allocation returns.
Fresh(h) == Min(Items \ h.live)

New(h, name, value) ==
  LET i == Fresh(h)
  IN  [next |-> [h.next EXCEPT ![i] = 0], prev |-> [h.prev EXCEPT ![i] = 0],
       child |-> [h.child EXCEPT ![i] = 0], value |-> [h.value EXCEPT ![i] = value],
       name |-> [h.name EXCEPT ![i] = name], live |-> h.live \cup {i}]

-----------------------------------------------------------------------------
(* Walks. *)

\* The items from i on along next.
Chain(h, i) ==
  LET walk[n \in 0 .. MaxItems] ==
        IF n = 0 THEN << >>
        ELSE LET s == walk[n - 1]
                 j == IF s = << >> THEN i ELSE h.next[Last(s)]
             IN  IF j = 0 \/ Len(s) < n - 1 THEN s ELSE Append(s, j)
  IN  walk[MaxItems]

Children(h, p) == Chain(h, h.child[p])

Find(h, p, name) ==
  LET c == Children(h, p)
      hits == {k \in DOMAIN c : h.name[c[k]] = name}
  IN  IF hits = {} THEN 0 ELSE c[Min(hits)]

\* What cJSON_Delete frees: the item, what hangs below it, and its successors.
Reach(h, i) ==
  LET reach[n \in 0 .. MaxItems] ==
        IF n = 0 THEN {i} \ {0}
        ELSE UNION {{j, h.next[j], h.child[j]} \ {0} : j \in reach[n - 1]}
  IN  reach[MaxItems]

Delete(h, i) == [h EXCEPT !.live = @ \ Reach(h, i)]

-----------------------------------------------------------------------------
(* Changes of the list of an object. *)

AddItem(h, p, i) ==
  LET first == h.child[p]
      tail  == h.prev[first]
  IN  CASE first = 0 -> [h EXCEPT !.child[p] = i, !.prev[i] = i, !.next[i] = 0]
        [] first # 0 /\ tail # 0 -> [h EXCEPT !.next[tail] = i, !.prev = [@ EXCEPT ![i] = tail, ![first] = i]]
        [] OTHER -> h

\* The heap h with other links.
Relinked(h, next, prev, child) ==
  [next |-> next, prev |-> prev, child |-> child, value |-> h.value, name |-> h.name, live |-> h.live]

Put(f, i, j) == IF i = 0 THEN f ELSE [f EXCEPT ![i] = j]

\* Bug: a replacement of the last item is not made the last.
ReplaceItemShort(h, p, i, r) ==
  IF h.child[p] = 0 \/ i = 0 THEN h
  ELSE LET first == h.child[p] = i
           only  == first /\ h.prev[i] = i
           next  == Put([h.next EXCEPT ![r] = h.next[i]], IF first THEN 0 ELSE h.prev[i], r)
           prev  == Put([h.prev EXCEPT ![r] = IF only THEN r ELSE h.prev[i]], h.next[i], r)
       IN  Delete(Relinked(h, [next EXCEPT ![i] = 0], [prev EXCEPT ![i] = 0],
                           IF first THEN [h.child EXCEPT ![p] = r] ELSE h.child), i)

\* cJSON_ReplaceItemViaPointer: r takes the place of i, which is deleted.
ReplaceItem(h, p, i, r) ==
  IF h.child[p] = 0 \/ i = 0 THEN h
  ELSE LET first == h.child[p] = i
           only  == first /\ h.prev[i] = i
           last  == ~first /\ h.next[i] = 0
           next  == Put([h.next EXCEPT ![r] = h.next[i]], IF first THEN 0 ELSE h.prev[i], r)
           prev  == Put([h.prev EXCEPT ![r] = IF only THEN r ELSE h.prev[i]], h.next[i], r)
       IN  Delete(Relinked(h, [next EXCEPT ![i] = 0],
                           [Put(prev, IF last THEN h.child[p] ELSE 0, r) EXCEPT ![i] = 0],
                           IF first THEN [h.child EXCEPT ![p] = r] ELSE h.child), i)

\* cJSON_DetachItemViaPointer
Detach(h, p, i) ==
  LET first == h.child[p] = i
      next  == Put(h.next, IF first THEN 0 ELSE h.prev[i], h.next[i])
      prev  == Put(h.prev, IF h.next[i] # 0 THEN h.next[i] ELSE IF first THEN 0 ELSE h.child[p],
                   h.prev[i])
  IN  Relinked(h, [next EXCEPT ![i] = 0], [prev EXCEPT ![i] = 0],
               IF first THEN [h.child EXCEPT ![p] = h.next[i]] ELSE h.child)

\* cJSON_DeleteItemFromObject
DeleteItem(h, p, name) ==
  LET i == Find(h, p, name) IN IF i = 0 THEN h ELSE Delete(Detach(h, p, i), i)

\* cJSON_AddStringToObject and its kin: append without a look at the names.
AddNew(h, p, name, value) == AddItem(New(h, name, value), p, Fresh(h))

\* cJSON_ReplaceItemInObject with a new item.
ReplaceNew(h, p, name, value) == ReplaceItem(New(h, name, value), p, Find(h, p, name), Fresh(h))

\* The list parse_object and cJSON_Duplicate build: the items in turn, and the last
\* one noted in the first.
Build(h, p, names, value) ==
  LET built[n \in 0 .. Len(names)] == IF n = 0 THEN h ELSE AddNew(built[n - 1], p, names[n], value)
  IN  built[Len(names)]
=============================================================================
