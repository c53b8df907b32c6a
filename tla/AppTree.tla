------------------------------ MODULE AppTree -------------------------------
(***************************************************************************)
(* The tree of ACAP.c: the object app with the settings and the status,    *)
(* and the settings of the certificates, in the memory of JsonHeap.  Any   *)
(* thread sets a field of the status: the field under status_mutex, its    *)
(* group without.  The HTTP thread prints the status, item by item, for    *)
(* GET /status under the mutex and for GET /app without; it replaces       *)
(* settings, and adds and removes the settings of certificates.  Names     *)
(* that differ in case only are the same name to cJSON, and here.          *)
(***************************************************************************)
EXTENDS JsonHeap

CONSTANTS
  Threads, Http,       \* those that set a status, and the one of them for HTTP
  Groups, Names,       \* of the status
  Settings,            \* the names in the settings
  Certs,               \* the names in the settings of certificates
  Posts,               \* what a request to change settings holds: sequences of names
  NoName,
  MaxWork              \* bounds the fields set and the requests together

ASSUME TreeAssumption ==
  /\ Http \in Threads /\ NoName \notin Groups \cup Names \cup Settings \cup Certs
  /\ Posts \subseteq Seq(Settings \cup {NoName}) /\ MaxWork \in Nat
  /\ IsFiniteSet(Settings) /\ IsFiniteSet(Certs)
  /\ MaxItems >= 4 + Cardinality(Settings) + Cardinality(Certs)

VARIABLES
  heap,
  app, settings, status, certs,   \* the items of the objects
  locked,     \* status_mutex is held to print the status
  pc,         \* where each thread is
  arg,        \* the group, name and value it sets
  group,      \* the item of the group it has looked up or made
  tail,       \* the last group it saw before it appends one
  params,     \* the parsed request, 0 for none
  grp, cur,   \* where it is in the list it prints, or in the params
  sets, requests,   \* how many there were
  shown,      \* history variable: the value set last for each field
  wanted,     \* history variable: the value posted last for each setting
  kept,       \* history variable: the certificate settings, by name
  raced,      \* history variable: two threads have appended groups at once
  printed,    \* history variable: what the answer says of each field
  stale       \* history variable: what the HTTP thread was printing when it met a freed item

roots    == <<app, settings, status, certs>>
setVars  == <<arg, group, tail, sets, raced>>
httpVars == <<params, grp, cur, requests, wanted, kept, printed, stale>>
vars     == <<heap, roots, locked, pc, setVars, httpVars, shown>>

NoValues == [f \in Groups \X Names |-> 0]

NoArg == [group |-> NoName, name |-> NoName, value |-> 0]

\* ACAP() before any other thread can change the tree: app, the settings with their
\* defaults, the status without a group, and the certificates found.
Init ==
  /\ app = 1 /\ settings = 2 /\ status = 3 /\ certs = 4
  /\ LET Object(h) == New(h, NoName, 0)
         objects   == Object(Object(Object(Object(NoHeap(NoName)))))
         filled    == Build(objects, settings, SetToSeq(Settings), 1)
     IN  heap = Build(AddItem(AddItem(filled, app, settings), app, status), certs, SetToSeq(Certs), 1)
  /\ locked = FALSE
  /\ pc = [t \in Threads |-> "idle"]
  /\ arg = [t \in Threads |-> NoArg] /\ group = [t \in Threads |-> 0] /\ tail = [t \in Threads |-> 0]
  /\ params = 0 /\ grp = 0 /\ cur = 0 /\ sets = 0 /\ requests = 0
  /\ shown = NoValues /\ printed = NoValues
  /\ wanted = [n \in Settings |-> 1]
  /\ kept = [n \in Certs |-> 1]
  /\ raced = FALSE /\ stale = "nothing"

Budget == sets + requests < MaxWork

Goes(t, from, to) == pc[t] = from /\ pc' = [pc EXCEPT ![t] = to]

-----------------------------------------------------------------------------
(* ACAP_STATUS_SetString and its kin. *)

\* Where a thread is from the look in vain to the end of the append.
Appending == {"create", "link", "close"}

\* ACAP_STATUS_Group looks the group up without the mutex.
SetBegin(t, g, n) ==
  /\ Budget
  /\ LET i == Find(heap, status, g)
     IN  /\ Goes(t, "idle", IF i = 0 THEN "create" ELSE "write")
         /\ group' = [group EXCEPT ![t] = i]
         /\ raced' = (raced \/ (i = 0 /\ \E u \in Threads \ {t} : pc[u] \in Appending))
  /\ arg' = [arg EXCEPT ![t] = [group |-> g, name |-> n, value |-> sets + 1]]
  /\ sets' = sets + 1
  /\ UNCHANGED <<heap, roots, locked, tail, httpVars, shown>>

\* cJSON_AddItemToObject reads the end of the list and links the group to it in two
\* steps.
CreateRead(t) ==
  /\ Goes(t, "create", "link")
  /\ Room(heap, 1)
  /\ heap' = New(heap, arg[t].group, 0)
  /\ group' = [group EXCEPT ![t] = Fresh(heap)]
  /\ tail' = [tail EXCEPT ![t] = IF heap.child[status] = 0 THEN 0 ELSE heap.prev[heap.child[status]]]
  /\ UNCHANGED <<roots, locked, arg, sets, raced, httpVars, shown>>

CreateLink(t) ==
  /\ Goes(t, "link", IF tail[t] = 0 THEN "write" ELSE "close")
  /\ heap' = IF tail[t] = 0
             THEN [heap EXCEPT !.child[status] = group[t], !.prev[group[t]] = group[t]]
             ELSE [heap EXCEPT !.next[tail[t]] = group[t], !.prev[group[t]] = tail[t]]
  /\ UNCHANGED <<roots, locked, setVars, httpVars, shown>>

CreateClose(t) ==
  /\ Goes(t, "close", "write")
  /\ heap' = [heap EXCEPT !.prev[heap.child[status]] = group[t]]
  /\ UNCHANGED <<roots, locked, setVars, httpVars, shown>>

\* Bug: a field is added whether or not it is there.
WriteNew(h, p, n, v) == AddNew(h, p, n, v)

WriteField(h, p, n, v) == IF Find(h, p, n) # 0 THEN ReplaceNew(h, p, n, v) ELSE AddNew(h, p, n, v)

\* Bug: the mutex is not waited for.
Barge == TRUE

\* The mutex can be had.  It is held by GET /status from its first item to its last;
\* who holds it to set a field disturbs nobody meanwhile and is a step of its own.
Free == ~locked

Write(t) ==
  /\ Goes(t, "write", "idle")
  /\ Free
  /\ Room(heap, 1)
  /\ heap' = WriteField(heap, group[t], arg[t].name, arg[t].value)
  /\ shown' = [shown EXCEPT ![<<arg[t].group, arg[t].name>>] = arg[t].value]
  /\ arg' = [arg EXCEPT ![t] = NoArg] /\ group' = [group EXCEPT ![t] = 0] /\ tail' = [tail EXCEPT ![t] = 0]
  /\ UNCHANGED <<roots, locked, sets, raced, httpVars>>

-----------------------------------------------------------------------------
(* Requests. *)

Request(to) ==
  /\ Budget /\ requests' = requests + 1
  /\ Goes(Http, "idle", to)

\* ACAP_ENDPOINT_status waits for the mutex.
GetStatus ==
  /\ Request("wait")
  /\ UNCHANGED <<heap, roots, locked, setVars, params, grp, cur, wanted, kept, printed, stale, shown>>

StartPrint ==
  /\ grp' = heap.child[status] /\ cur' = IF grp' = 0 THEN 0 ELSE heap.child[grp']
  /\ printed' = NoValues
  /\ UNCHANGED <<heap, roots, setVars, params, wanted, kept, stale, shown>>

AnswerStatus ==
  /\ Goes(Http, "wait", "status")
  /\ Free /\ locked' = TRUE
  /\ StartPrint /\ UNCHANGED requests

\* ACAP_ENDPOINT_app does not.
GetApp == Request("app") /\ StartPrint /\ UNCHANGED locked

\* print_object: the next field of the group, or the next group.  From a freed item
\* it may go anywhere: here the answer ends.
WalkItem ==
  /\ grp # 0 /\ pc[Http] \in {"status", "app"}
  /\ IF {grp, cur} \ {0} \subseteq heap.live
     THEN /\ grp' = IF cur = 0 THEN heap.next[grp] ELSE grp
          /\ cur' = IF cur # 0 THEN heap.next[cur] ELSE IF grp' = 0 THEN 0 ELSE heap.child[grp']
          /\ printed' = IF cur = 0 \/ pc[Http] = "app" THEN printed
                        ELSE [printed EXCEPT ![<<heap.name[grp], heap.name[cur]>>] = heap.value[cur]]
          /\ UNCHANGED stale
     ELSE grp' = 0 /\ cur' = 0 /\ stale' = pc[Http] /\ UNCHANGED printed
  /\ UNCHANGED <<heap, roots, locked, pc, setVars, params, requests, wanted, kept, shown>>

WalkEnd ==
  /\ grp = 0 /\ pc[Http] \in {"status", "app"}
  /\ pc' = [pc EXCEPT ![Http] = "idle"]
  /\ locked' = (locked /\ pc[Http] # "status")
  /\ printed' = NoValues
  /\ UNCHANGED <<heap, roots, setVars, params, grp, cur, requests, wanted, kept, stale, shown>>

\* ACAP_ENDPOINT_settings: the request is parsed; a param that is a setting
\* replaces it, by a duplicate; the parsed request is deleted.
Post(names) ==
  /\ Request("post")
  /\ Room(heap, Len(names) + 1)
  /\ params' = Fresh(heap)
  /\ heap' = Build(New(heap, NoName, 0), params', names, requests + 2)
  /\ cur' = heap'.child[params']
  /\ UNCHANGED <<roots, locked, setVars, grp, wanted, kept, printed, stale, shown>>

PostItem ==
  /\ cur # 0 /\ Goes(Http, "post", "post")
  /\ Room(heap, 1)
  /\ LET n == heap.name[cur]
         v == heap.value[cur]
     IN  IF Find(heap, settings, n) # 0
         THEN heap' = ReplaceNew(heap, settings, n, v) /\ wanted' = [wanted EXCEPT ![n] = v]
         ELSE UNCHANGED <<heap, wanted>>
  /\ cur' = heap.next[cur]
  /\ UNCHANGED <<roots, locked, setVars, params, grp, requests, kept, printed, stale, shown>>

PostEnd ==
  /\ cur = 0 /\ Goes(Http, "post", "idle")
  /\ heap' = Delete(heap, params)
  /\ params' = 0
  /\ UNCHANGED <<roots, locked, setVars, grp, cur, requests, wanted, kept, printed, stale, shown>>

\* The certificates: a setting is replaced or added, or deleted.
CertPut(n) ==
  /\ Request("idle")
  /\ Room(heap, 1)
  /\ heap' = WriteField(heap, certs, n, requests + 2)
  /\ kept' = [kept EXCEPT ![n] = requests + 2]
  /\ UNCHANGED <<roots, locked, setVars, params, grp, cur, wanted, printed, stale, shown>>

CertRemove(n) ==
  /\ Request("idle")
  /\ Find(heap, certs, n) # 0
  /\ heap' = DeleteItem(heap, certs, n)
  /\ kept' = [kept EXCEPT ![n] = 0]
  /\ UNCHANGED <<roots, locked, setVars, params, grp, cur, wanted, printed, stale, shown>>

SetStep(t) ==
  CreateRead(t) \/ CreateLink(t) \/ CreateClose(t) \/ Write(t)

HttpStep == AnswerStatus \/ WalkItem \/ WalkEnd \/ PostItem \/ PostEnd

Next ==
  \/ \E t \in Threads : SetStep(t) \/ \E g \in Groups, n \in Names : SetBegin(t, g, n)
  \/ HttpStep
  \/ GetStatus \/ GetApp \/ (\E names \in Posts : Post(names))
  \/ (\E n \in Certs : CertPut(n) \/ CertRemove(n))

Spec == Init /\ [][Next]_vars

-----------------------------------------------------------------------------
TypeOK ==
  /\ heap.live \subseteq Items
  /\ \A f \in {heap.next, heap.prev, heap.child} : f \in [Items -> 0 .. MaxItems]
  /\ heap.name \in [Items -> Groups \cup Names \cup Settings \cup Certs \cup {NoName}]
  /\ heap.value \in [Items -> Nat]
  /\ <<app, settings, status, certs>> = <<1, 2, 3, 4>>
  /\ locked \in BOOLEAN
  /\ pc \in [Threads -> {"idle", "create", "link", "close", "write",
                         "wait", "status", "app", "post"}]
  /\ group \in [Threads -> 0 .. MaxItems] /\ tail \in [Threads -> 0 .. MaxItems]
  /\ {params, grp, cur} \subseteq 0 .. MaxItems
  /\ sets \in 0 .. MaxWork /\ requests \in 0 .. MaxWork
  /\ raced \in BOOLEAN /\ stale \in {"nothing", "app", "status"}
  /\ {shown, printed} \subseteq [Groups \X Names -> 0 .. MaxWork]

\* The list of an object is sound: live items with names of their own, linked both
\* ways, the last one noted in the first.
Sound(h, p) ==
  LET c == Children(h, p)
  IN  /\ \A k \in DOMAIN c : c[k] \in h.live
      /\ \A k, l \in DOMAIN c : k # l => h.name[c[k]] # h.name[c[l]]
      /\ c # << >> => h.prev[c[1]] = Last(c)
      /\ \A k \in 2 .. Len(c) : h.prev[c[k]] = c[k - 1]

Between == \E t \in Threads : pc[t] \in Appending

\* Whatever is replaced, added and deleted by whom, the lists of the tree stay sound, and
\* what is replaced or deleted is freed: whenever nothing is under way the memory in use
\* is what hangs on the objects.  That is unless two threads append a group at once.
ListsAreSound ==
  /\ Sound(heap, settings) /\ Sound(heap, certs)
  /\ \A g \in ToSet(Children(heap, status)) : Sound(heap, g)
  /\ ~raced /\ ~Between =>
       /\ Sound(heap, status)
       /\ heap.live = Reach(heap, app) \cup Reach(heap, certs) \cup Reach(heap, params)

\* The value of a field, 0 if it is not there.
ValueOf(p, n) ==
  LET i == IF p = 0 THEN 0 ELSE Find(heap, p, n) IN IF i = 0 THEN 0 ELSE heap.value[i]

\* The tree says what was set last, and holds no other field or setting.
TreeIsCurrent ==
  /\ \A n \in Settings : ValueOf(settings, n) = wanted[n]
  /\ \A n \in Certs : ValueOf(certs, n) = kept[n]
  /\ ~raced => \A g \in Groups, n \in Names : ValueOf(Find(heap, status, g), n) = shown[<<g, n>>]

\* GET /status prints no freed item, and a snapshot: every field as it was set last,
\* whoever sets one meanwhile.
StatusIsASnapshot ==
  /\ stale # "status"
  /\ pc[Http] = "status" /\ grp = 0 /\ ~raced => printed = shown

\* GET /app "Returns app metadata, runtime status snapshot, and settings" (README.md):
\* it prints no freed item.
AppIsASnapshot == stale # "app"
=============================================================================
