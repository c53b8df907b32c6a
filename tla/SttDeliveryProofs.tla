-------------------------- MODULE SttDeliveryProofs --------------------------
(***************************************************************************)
(* Proofs about SttDelivery for any number of utterances and switches of   *)
(* the backend: each utterance is in one place, and is handed on at most   *)
(* once; in the order of speech as long as the backend stays the same.     *)
(***************************************************************************)
EXTENDS SttDelivery, TLAPS

Items   == [type : {"state"}, of : States] \cup [type : {"text", "request"}, of : Utterances]
Waiting == {"posted", "decoded"}

-----------------------------------------------------------------------------
(* The queue and the utterances in it. *)

\* The utterances that wait are those in the queue, and each is there once.
Queued(q, f) ==
  /\ \A i \in 1 .. Len(q) : q[i].type # "state" => f[q[i].of] \in Waiting
  /\ \A i, j \in 1 .. Len(q) :
       q[i].type # "state" /\ q[j].type # "state" /\ q[i].of = q[j].of => i = j
  /\ \A u \in Utterances :
       f[u] \in Waiting => \E i \in 1 .. Len(q) : q[i].type # "state" /\ q[i].of = u

\* An item is added at the end.
LEMMA Appended ==
  ASSUME NEW q \in Seq(Items), NEW e \in Items
  PROVE  /\ Append(q, e) \in Seq(Items)
         /\ Len(Append(q, e)) = Len(q) + 1
         /\ Append(q, e)[Len(q) + 1] = e
         /\ \A i \in 1 .. Len(q) : Append(q, e)[i] = q[i]
  OBVIOUS

\* The first item is taken away.
LEMMA Removed ==
  ASSUME NEW q \in Seq(Items), q # << >>
  PROVE  /\ Tail(q) \in Seq(Items)
         /\ Head(q) = q[1] /\ Head(q) \in Items
         /\ Len(q) \in Nat /\ Len(q) >= 1
         /\ Len(Tail(q)) = Len(q) - 1
         /\ \A i \in 1 .. Len(q) - 1 : Tail(q)[i] = q[i + 1]
  OBVIOUS

\* What an item is.
LEMMA ItemIs ==
  ASSUME NEW e \in Items
  PROVE  /\ e.type \in {"state", "text", "request"}
         /\ e.type = "state" => e.of \in States
         /\ e.type # "state" => e.of \in Utterances
         /\ \A u : e.type # "state" /\ e.of = u <=> e \in {Text(u), Request(u)}
  BY DEF Items, Text, Request

\* A fate changes between two that do not wait.
LEMMA QueuedStays ==
  ASSUME NEW q \in Seq(Items), NEW f, NEW g, Queued(q, f),
         \A u \in Utterances : f[u] \in Waiting <=> g[u] \in Waiting
  PROVE  Queued(q, g)
<1>1. \A i \in 1 .. Len(q) : q[i] \in Items
  OBVIOUS
<1>2. \A i \in 1 .. Len(q) : q[i].type # "state" => q[i].of \in Utterances
  BY <1>1, ItemIs
<1> QED BY <1>2 DEF Queued

\* A state is posted.
LEMMA StateQueued ==
  ASSUME NEW q \in Seq(Items), NEW f, NEW s \in States, Queued(q, f)
  PROVE  Append(q, State(s)) \in Seq(Items) /\ Queued(Append(q, State(s)), f)
<1> DEFINE e == State(s)  r == Append(q, e)
<1>1. e \in Items /\ e.type = "state"
  BY DEF Items, State
<1>2. /\ r \in Seq(Items) /\ Len(r) = Len(q) + 1 /\ r[Len(q) + 1] = e
      /\ \A i \in 1 .. Len(q) : r[i] = q[i]
  BY <1>1, Appended
<1>3. Len(q) \in Nat
  OBVIOUS
<1> HIDE DEF e, r
<1>4. \A i \in 1 .. Len(r) : r[i].type # "state" => i \in 1 .. Len(q) /\ r[i] = q[i]
  BY <1>1, <1>2, <1>3
<1>5. \A i \in 1 .. Len(q) : i \in 1 .. Len(r) /\ r[i] = q[i]
  BY <1>2, <1>3
<1>6. Queued(r, f)
  BY <1>4, <1>5 DEF Queued
<1> QED BY <1>2, <1>6 DEF r, e

\* An utterance that did not wait is posted.
LEMMA UtteranceQueued ==
  ASSUME NEW q \in Seq(Items), NEW f, NEW g, NEW u \in Utterances, NEW e \in Items,
         Queued(q, f), f[u] \notin Waiting, g[u] \in Waiting,
         \A v \in Utterances \ {u} : g[v] = f[v],
         e.type # "state", e.of = u
  PROVE  Append(q, e) \in Seq(Items) /\ Queued(Append(q, e), g)
<1> DEFINE r == Append(q, e)
<1>1. /\ r \in Seq(Items) /\ Len(r) = Len(q) + 1 /\ r[Len(q) + 1] = e
      /\ \A i \in 1 .. Len(q) : r[i] = q[i]
  BY Appended
<1>2. Len(q) \in Nat
  OBVIOUS
<1>3. \A i \in 1 .. Len(q) : q[i] \in Items
  OBVIOUS
<1>4. \A i \in 1 .. Len(q) : q[i].type # "state" => q[i].of \in Utterances \ {u}
  BY <1>3, ItemIs DEF Queued
<1> HIDE DEF r
<1>5. \A i \in 1 .. Len(r) : (i \in 1 .. Len(q) /\ r[i] = q[i]) \/ (i = Len(q) + 1 /\ r[i] = e)
  BY <1>1, <1>2
<1>6. \A i \in 1 .. Len(q) : i \in 1 .. Len(r) /\ r[i] = q[i]
  BY <1>1, <1>2
<1>7. Len(q) + 1 \in 1 .. Len(r)
  BY <1>1, <1>2
<1>8. \A i \in 1 .. Len(r) : r[i].type # "state" => g[r[i].of] \in Waiting
  BY <1>4, <1>5 DEF Queued
<1>9. \A i, j \in 1 .. Len(r) :
        r[i].type # "state" /\ r[j].type # "state" /\ r[i].of = r[j].of => i = j
  BY <1>4, <1>5 DEF Queued
<1>10. \A v \in Utterances :
         g[v] \in Waiting => \E i \in 1 .. Len(r) : r[i].type # "state" /\ r[i].of = v
  BY <1>1, <1>6, <1>7 DEF Queued
<1>11. Queued(r, g)
  BY <1>8, <1>9, <1>10 DEF Queued
<1> QED BY <1>1, <1>11 DEF r

\* The first item is handed over: a state, or an utterance that waits no longer.
LEMMA ItemTaken ==
  ASSUME NEW q \in Seq(Items), q # << >>, NEW f, NEW g, Queued(q, f),
         \A v \in Utterances : (Head(q).type = "state" \/ v # Head(q).of) =>
                                 (g[v] \in Waiting <=> f[v] \in Waiting),
         Head(q).type # "state" => g[Head(q).of] \notin Waiting
  PROVE  Tail(q) \in Seq(Items) /\ Queued(Tail(q), g)
<1> DEFINE r == Tail(q)
<1>1. /\ r \in Seq(Items) /\ Head(q) = q[1] /\ Len(q) \in Nat /\ Len(q) >= 1
      /\ Len(r) = Len(q) - 1 /\ \A i \in 1 .. Len(q) - 1 : r[i] = q[i + 1]
  BY Removed
<1>2. \A i \in 1 .. Len(q) : q[i] \in Items
  OBVIOUS
<1>3. \A i \in 1 .. Len(q) : q[i].type # "state" => q[i].of \in Utterances
  BY <1>2, ItemIs
<1> HIDE DEF r
<1>4. \A i \in 1 .. Len(r) : i + 1 \in 1 .. Len(q) /\ i + 1 # 1 /\ r[i] = q[i + 1]
  BY <1>1
<1>5. \A i \in 1 .. Len(q) : i # 1 => i - 1 \in 1 .. Len(r) /\ r[i - 1] = q[i]
  BY <1>1
<1>6. 1 \in 1 .. Len(q)
  BY <1>1
<1>7. \A i \in 1 .. Len(r) : r[i].type # "state" => g[r[i].of] \in Waiting
  <2> SUFFICES ASSUME NEW i \in 1 .. Len(r), r[i].type # "state"
               PROVE  g[r[i].of] \in Waiting
    OBVIOUS
  <2>1. r[i].of \in Utterances /\ f[r[i].of] \in Waiting
    BY <1>3, <1>4 DEF Queued
  <2>2. Head(q).type = "state" \/ r[i].of # Head(q).of
    BY <1>1, <1>4, <1>6 DEF Queued
  <2> QED BY <2>1, <2>2
<1>8. \A i, j \in 1 .. Len(r) :
        r[i].type # "state" /\ r[j].type # "state" /\ r[i].of = r[j].of => i = j
  <2> SUFFICES ASSUME NEW i \in 1 .. Len(r), NEW j \in 1 .. Len(r),
                      r[i].type # "state", r[j].type # "state", r[i].of = r[j].of
               PROVE  i = j
    OBVIOUS
  <2>1. i + 1 = j + 1
    BY <1>4 DEF Queued
  <2> QED BY <2>1
<1>9. ASSUME NEW v \in Utterances, g[v] \in Waiting
      PROVE  \E i \in 1 .. Len(r) : r[i].type # "state" /\ r[i].of = v
  <2>1. Head(q).type = "state" \/ v # Head(q).of
    BY <1>9
  <2>2. f[v] \in Waiting
    BY <1>9, <2>1
  <2>3. PICK i \in 1 .. Len(q) : q[i].type # "state" /\ q[i].of = v
    BY <2>2 DEF Queued
  <2>4. i # 1
    BY <1>1, <2>1, <2>3
  <2> QED BY <1>5, <2>3, <2>4
<1>10. Queued(r, g)
  BY <1>7, <1>8, <1>9 DEF Queued
<1> QED BY <1>1, <1>10 DEF r

-----------------------------------------------------------------------------
(* The invariant. *)

\* What the worker has: an utterance it hears, or one it has to deal with.
WorkerHas ==
  /\ wpc # "quiet" => heard # 0
  /\ wpc = "speech" => fate[heard] = "heard"
  /\ wpc \in {"choose", "decode"} => fate[heard] = "finished"
  /\ \A u \in Utterances :
       fate[u] \in {"heard", "finished"} => u = heard /\ wpc \in {"speech", "choose", "decode"}

Born     == \A u \in Utterances : fate[u] = "unborn" <=> u > heard
AtServer == \A u \in Utterances : fate[u] = "submitted" <=> awaited = u

Delivered ==
  /\ \A i, j \in 1 .. Len(published) : published[i] = published[j] => i = j
  /\ \A i \in 1 .. Len(published) : fate[published[i]] = "published"

\* As long as the backend is left alone there are only texts or only requests, and
\* what was published is older than what is at the server, that than what waits.
NoText(q) == \A i \in 1 .. Len(q) : q[i].type # "text"

Ascending(q, a, p) ==
  /\ \A i, j \in 1 .. Len(q) :
       q[i].type # "state" /\ q[j].type # "state" /\ i < j => q[i].of < q[j].of
  /\ \A i \in 1 .. Len(q) : q[i].type # "state" =>
       a < q[i].of /\ \A k \in 1 .. Len(p) : p[k] < q[i].of
  /\ a # 0 => \A k \in 1 .. Len(p) : p[k] < a
  /\ \A k, l \in 1 .. Len(p) : k < l => p[k] < p[l]

Ordered ==
  switches = 0 =>
    /\ hpc = "idle"
    /\ callback => wpc # "decode" /\ NoText(queue)
    /\ ~callback => awaited = 0
    /\ Ascending(queue, awaited, published)

Sound == TypeOK /\ WorkerHas /\ Born /\ AtServer /\ Queued(queue, fate) /\ Delivered

\* The types that matter below.
LEMMA Types ==
  ASSUME Sound
  PROVE  /\ fate \in [Utterances -> Fates]
         /\ heard \in 0 .. MaxUtterances /\ awaited \in 0 .. MaxUtterances
         /\ inflight \in 0 .. MaxUtterances /\ MaxUtterances \in Nat
         /\ heard # 0 => heard \in Utterances
         /\ queue \in Seq(Items) /\ published \in Seq(Utterances)
  BY DeliveryAssumption DEF Sound, TypeOK, Utterances, Items

\* The item handed over, if it is an utterance, is one that waits.
LEMMA HeadWaits ==
  ASSUME Sound, queue # << >>
  PROVE  /\ Head(queue) \in Items /\ Head(queue) = queue[1]
         /\ 1 \in 1 .. Len(queue)
         /\ Head(queue).type = "state" => Head(queue).of \in States
         /\ Head(queue).type # "state" =>
              Head(queue).of \in Utterances /\ fate[Head(queue).of] \in Waiting
<1>1. queue \in Seq(Items)
  BY Types
<1>2. Head(queue) \in Items /\ Head(queue) = queue[1] /\ 1 \in 1 .. Len(queue)
  BY <1>1, Removed
<1> QED BY <1>2, ItemIs DEF Sound, Queued

\* The utterance at the server, if there is one.
LEMMA AwaitedIs ==
  ASSUME Sound, awaited # 0
  PROVE  awaited \in Utterances /\ fate[awaited] = "submitted"
  BY Types DEF Sound, AtServer, Utterances

\* One utterance gets another fate.
LEMMA FateChanges ==
  ASSUME Sound, NEW u \in Utterances, NEW w \in Fates, Becomes(u, w)
  PROVE  /\ fate' \in [Utterances -> Fates] /\ fate'[u] = w
         /\ \A v \in Utterances : v # u => fate'[v] = fate[v]
  BY Types DEF Becomes

\* An utterance is published, or filtered away.
LEMMA Passed ==
  ASSUME Sound, NEW u \in Utterances, Pass(u)
  PROVE  /\ fate' \in [Utterances -> Fates] /\ fate'[u] \in {"published", "filtered"}
         /\ \A v \in Utterances : v # u => fate'[v] = fate[v]
         /\ \/ published' = Append(published, u) /\ fate'[u] = "published"
            \/ published' = published
<1>1. "published" \in Fates /\ "filtered" \in Fates
  BY DEF Fates
<1>2. CASE Becomes(u, "published") /\ published' = Append(published, u)
  BY <1>1, <1>2, FateChanges
<1>3. CASE Becomes(u, "filtered") /\ UNCHANGED published
  BY <1>1, <1>3, FateChanges
<1> QED BY <1>2, <1>3 DEF Pass

\* What a request that is given up leaves.
LEMMA GivenUpIs ==
  ASSUME Sound
  PROVE  LET f == GivenUp(awaited)
         IN  /\ f \in [Utterances -> Fates]
             /\ \A v \in Utterances : v # awaited => f[v] = fate[v]
             /\ awaited # 0 => f[awaited] = "stale"
  BY Types, AwaitedIs DEF GivenUp, Fates

\* A request is submitted, and the one it replaces given up.
LEMMA Submitted ==
  ASSUME Sound, NEW ok \in BOOLEAN, Submit(ok)
  PROVE  LET u == Head(queue).of
         IN  /\ u \in Utterances /\ fate[u] \in Waiting /\ u # awaited
             /\ fate' \in [Utterances -> Fates]
             /\ fate'[u] = IF ok THEN "submitted" ELSE "failed"
             /\ \A v \in Utterances : v # u /\ v # awaited => fate'[v] = fate[v]
             /\ awaited # 0 => fate'[awaited] = "stale"
             /\ awaited' = IF ok THEN u ELSE 0
             /\ inflight' = awaited'
<1> DEFINE u == Head(queue).of
<1>1. u \in Utterances /\ fate[u] \in Waiting
  BY HeadWaits DEF Submit, Item
<1>2. u # awaited
  BY <1>1, AwaitedIs, Types DEF Waiting, Utterances
<1>3. GivenUp(awaited) \in [Utterances -> Fates]
  BY GivenUpIs
<1>4. fate' = [GivenUp(awaited) EXCEPT ![u] = IF ok THEN "submitted" ELSE "failed"]
  BY DEF Submit
<1>5. /\ fate' \in [Utterances -> Fates]
      /\ fate'[u] = IF ok THEN "submitted" ELSE "failed"
      /\ \A v \in Utterances : v # u => fate'[v] = GivenUp(awaited)[v]
  BY <1>1, <1>3, <1>4 DEF Fates
<1>6. \A v \in Utterances : v # u /\ v # awaited => fate'[v] = fate[v]
  BY <1>5, GivenUpIs
<1>7. awaited # 0 => fate'[awaited] = "stale"
  BY <1>2, <1>5, AwaitedIs, GivenUpIs
<1>8. awaited' = (IF ok THEN u ELSE 0) /\ inflight' = awaited'
  BY DEF Submit
<1> QED BY <1>1, <1>2, <1>5, <1>6, <1>7, <1>8

\* The backend is switched, and the request given up with the connection, or left.
LEMMA Switched ==
  ASSUME Sound, HttpSwitch
  PROVE  /\ fate' \in [Utterances -> Fates]
         /\ \A v \in Utterances : v # awaited => fate'[v] = fate[v]
         /\ \/ awaited' = awaited /\ fate' = fate
            \/ awaited' = 0 /\ (awaited # 0 => fate'[awaited] = "stale")
<1>1. CASE goal.external
  BY <1>1, Types DEF HttpSwitch
<1>2. CASE ~goal.external
  BY <1>2, GivenUpIs DEF HttpSwitch
<1> QED BY <1>1, <1>2

\* What was published stays so, and nothing is published.
LEMMA DeliveredStays ==
  ASSUME Sound, UNCHANGED published,
         \A v \in Utterances : fate[v] = "published" => fate'[v] = "published"
  PROVE  Delivered'
<1>1. \A k \in 1 .. Len(published) : published[k] \in Utterances
  BY Types
<1> QED BY <1>1 DEF Sound, Delivered

\* An utterance is published that was not.
LEMMA DeliveredMore ==
  ASSUME Sound, NEW u \in Utterances, Pass(u), fate[u] # "published"
  PROVE  Delivered'
<1>1. \A k \in 1 .. Len(published) : published[k] \in Utterances
  BY Types
<1>2. CASE published' = published
  BY <1>2, Passed, DeliveredStays
<1>3. CASE published' = Append(published, u) /\ fate'[u] = "published"
  <2>1. Len(published) \in Nat /\ Len(published') = Len(published) + 1
    BY <1>3, Types
  <2>2. \A k \in 1 .. Len(published') :
          \/ k \in 1 .. Len(published) /\ published'[k] = published[k]
          \/ k = Len(published) + 1 /\ published'[k] = u
    BY <1>3, <2>1, Types
  <2>3. \A k \in 1 .. Len(published) :
          published[k] # u /\ fate'[published[k]] = "published"
    BY <1>1, Passed DEF Sound, Delivered
  <2> QED BY <1>3, <2>2, <2>3 DEF Sound, Delivered
<1> QED BY <1>2, <1>3, Passed

-----------------------------------------------------------------------------
(* The order in the queue, at the server, and of what was published. *)

\* An item is posted: a state, or an utterance younger than all others.
LEMMA OrderPosted ==
  ASSUME NEW q \in Seq(Items), NEW a, NEW p, NEW e \in Items, Ascending(q, a, p),
         e.type = "state" \/
           (/\ a < e.of /\ \A k \in 1 .. Len(p) : p[k] < e.of
            /\ \A i \in 1 .. Len(q) : q[i].type # "state" => q[i].of < e.of)
  PROVE  Ascending(Append(q, e), a, p)
<1> DEFINE r == Append(q, e)
<1>1. Len(q) \in Nat
  OBVIOUS
<1>2. \A i \in 1 .. Len(r) :
        (i \in 1 .. Len(q) /\ r[i] = q[i]) \/ (i = Len(q) + 1 /\ r[i] = e)
  BY <1>1, Appended
<1> HIDE DEF r
<1>3. ASSUME NEW i \in 1 .. Len(r), NEW j \in 1 .. Len(r),
             r[i].type # "state", r[j].type # "state", i < j
      PROVE  r[i].of < r[j].of
  BY <1>1, <1>2, <1>3 DEF Ascending
<1>4. ASSUME NEW i \in 1 .. Len(r), r[i].type # "state"
      PROVE  a < r[i].of /\ \A k \in 1 .. Len(p) : p[k] < r[i].of
  BY <1>2, <1>4 DEF Ascending
<1>5. Ascending(r, a, p)
  BY <1>3, <1>4 DEF Ascending
<1> QED BY <1>5 DEF r

\* Anything but a text is posted.
LEMMA NoTextPosted ==
  ASSUME NEW q \in Seq(Items), NEW e \in Items, e.type # "text", NoText(q)
  PROVE  NoText(Append(q, e))
  BY Appended DEF NoText

\* The first item is taken away.
LEMMA NoTextTaken ==
  ASSUME NEW q \in Seq(Items), q # << >>, NoText(q)
  PROVE  NoText(Tail(q))
  BY Removed DEF NoText

\* An utterance that was just finished is younger than all others.
LEMMA YoungestIs ==
  ASSUME Sound, heard \in Utterances, fate[heard] = "finished"
  PROVE  /\ awaited < heard
         /\ \A k \in 1 .. Len(published) : published[k] < heard
         /\ \A i \in 1 .. Len(queue) : queue[i].type # "state" => queue[i].of < heard
<1>1. \A u \in Utterances : fate[u] \notin {"unborn", "finished"} => u < heard
  <2> SUFFICES ASSUME NEW u \in Utterances, fate[u] \notin {"unborn", "finished"}
               PROVE  u < heard
    OBVIOUS
  <2>1. ~(u > heard) /\ u # heard
    BY DEF Sound, Born
  <2> QED BY <2>1 DEF Utterances
<1>2. awaited < heard
  BY <1>1, AwaitedIs, Types DEF Utterances
<1>3. \A k \in 1 .. Len(published) : published[k] \in Utterances
  BY Types
<1>4. \A k \in 1 .. Len(published) : published[k] < heard
  BY <1>1, <1>3 DEF Sound, Delivered
<1>5. \A i \in 1 .. Len(queue) : queue[i] \in Items
  BY Types
<1>6. \A i \in 1 .. Len(queue) : queue[i].type # "state" => queue[i].of \in Utterances
  BY <1>5, ItemIs
<1>7. \A i \in 1 .. Len(queue) : queue[i].type # "state" => queue[i].of < heard
  BY <1>1, <1>6 DEF Sound, Queued, Waiting
<1> QED BY <1>2, <1>4, <1>7

\* The first item is taken away, or goes to the server.
LEMMA OrderTaken ==
  ASSUME NEW q \in Seq(Items), q # << >>, NEW a, NEW p, Ascending(q, a, p)
  PROVE  /\ Ascending(Tail(q), a, p)
         /\ Head(q).type # "state" =>
              /\ Ascending(Tail(q), Head(q).of, p)
              /\ \A i \in 1 .. Len(Tail(q)) :
                   Tail(q)[i].type # "state" => Head(q).of < Tail(q)[i].of
              /\ \A k \in 1 .. Len(p) : p[k] < Head(q).of
<1> DEFINE r == Tail(q)
<1>1. /\ Head(q) = q[1] /\ 1 \in 1 .. Len(q)
      /\ \A i \in 1 .. Len(r) : i + 1 \in 1 .. Len(q) /\ 1 < i + 1 /\ r[i] = q[i + 1]
  BY Removed
<1> HIDE DEF r
<1>2. ASSUME NEW i \in 1 .. Len(r), NEW j \in 1 .. Len(r),
             r[i].type # "state", r[j].type # "state", i < j
      PROVE  r[i].of < r[j].of
  <2>1. i + 1 < j + 1
    BY <1>2
  <2> QED BY <1>1, <1>2, <2>1 DEF Ascending
<1>3. Ascending(r, a, p)
  BY <1>1, <1>2 DEF Ascending
<1>4. ASSUME Head(q).type # "state"
      PROVE  /\ \A i \in 1 .. Len(r) : r[i].type # "state" => Head(q).of < r[i].of
             /\ \A k \in 1 .. Len(p) : p[k] < Head(q).of
  BY <1>1, <1>4 DEF Ascending
<1>5. ASSUME Head(q).type # "state"
      PROVE  Ascending(r, Head(q).of, p)
  BY <1>2, <1>3, <1>4, <1>5 DEF Ascending
<1> QED BY <1>3, <1>4, <1>5 DEF r

\* The answer of the server, or its absence, takes the utterance away from there.
LEMMA OrderAnswered ==
  ASSUME NEW q \in Seq(Items), NEW a \in Nat, NEW p, Ascending(q, a, p)
  PROVE  Ascending(q, 0, p)
<1>1. \A i \in 1 .. Len(q) : q[i].type # "state" => 0 < q[i].of
  <2> SUFFICES ASSUME NEW i \in 1 .. Len(q), q[i].type # "state" PROVE 0 < q[i].of
    OBVIOUS
  <2>1. q[i].of \in Nat /\ a < q[i].of
    BY ItemIs DEF Ascending, Utterances
  <2> QED BY <2>1
<1> QED BY <1>1 DEF Ascending

\* The oldest utterance is published.
LEMMA OrderPublished ==
  ASSUME NEW q \in Seq(Items), NEW p \in Seq(Utterances), NEW u \in Utterances,
         Ascending(q, 0, p), \A k \in 1 .. Len(p) : p[k] < u,
         \A i \in 1 .. Len(q) : q[i].type # "state" => u < q[i].of
  PROVE  Ascending(q, 0, Append(p, u))
<1> DEFINE r == Append(p, u)
<1>1. /\ Len(p) \in Nat
      /\ \A k \in 1 .. Len(r) :
           (k \in 1 .. Len(p) /\ r[k] = p[k]) \/ (k = Len(p) + 1 /\ r[k] = u)
  OBVIOUS
<1> HIDE DEF r
<1>2. \A k, l \in 1 .. Len(r) : k < l => r[k] < r[l]
  BY <1>1 DEF Ascending
<1>3. \A k \in 1 .. Len(r), i \in 1 .. Len(q) : q[i].type # "state" => r[k] < q[i].of
  BY <1>1 DEF Ascending
<1>4. Ascending(q, 0, r)
  BY <1>2, <1>3 DEF Ascending
<1> QED BY <1>4 DEF r

-----------------------------------------------------------------------------
(* Each step keeps it. *)

\* Every step keeps the types.
LEMMA StepType ==
  ASSUME Sound, [Next]_vars
  PROVE  TypeOK'
<1> USE DEF vars, workerVars, settingVars, requestVars, historyVars
<1>1. CASE Begin
    BY <1>1, DeliveryAssumption DEF Begin, Worker, Becomes, Post, rest, Sound, TypeOK,
       Utterances, Backends, States, Fates, Items, Text, Request, State, WorkerHas
<1>2. CASE Disabled
    BY <1>2 DEF Disabled, Worker, Becomes, rest, Sound, TypeOK, Utterances, Backends, States,
       Fates, Items, Text, Request, State, WorkerHas
<1>3. CASE Discard
    BY <1>3 DEF Discard, Worker, Becomes, rest, Sound, TypeOK, Utterances, Backends, States,
       Fates, Items, Text, Request, State, WorkerHas
<1>4. CASE Finish
    BY <1>4 DEF Finish, Worker, Becomes, Post, rest, Sound, TypeOK, Utterances, Backends,
       States, Fates, Items, Text, Request, State, WorkerHas
<1>5. CASE Choose
  <2>1. heard \in Utterances
    BY <1>5, Types DEF Choose, Sound, WorkerHas
  <2>2. fate' \in [Utterances -> Fates]
    BY <1>5, <2>1, Types DEF Choose, Becomes, Fates
  <2>3. Request(heard) \in Items
    BY <2>1 DEF Request, Items
  <2>4. queue' \in Seq(Items)
    BY <1>5, <2>3, Types, Appended DEF Choose, Post
  <2> QED BY <1>5, <2>2, <2>4 DEF Choose, rest, Sound, TypeOK, Items
<1>6. CASE DecodeNothing
    BY <1>6 DEF DecodeNothing, Worker, Becomes, rest, Sound, TypeOK, Utterances, Backends,
       States, Fates, Items, Text, Request, State, WorkerHas
<1>7. CASE Decode
    BY <1>7 DEF Decode, Worker, Becomes, Post, rest, Sound, TypeOK, Utterances, Backends,
       States, Fates, Items, Text, Request, State, WorkerHas
<1>8. CASE PostIdle
    BY <1>8 DEF PostIdle, Worker, Post, rest, Sound, TypeOK, Utterances, Backends, States,
       Fates, Items, Text, Request, State, WorkerHas
<1>9. CASE DeliverState
  <2>1. queue # << >> /\ queue' = Tail(queue) /\ Head(queue).type = "state" /\ state' = Head(queue).of
    BY <1>9 DEF DeliverState, Item, Taken
  <2>2. state' \in States
    BY <2>1, HeadWaits
  <2>3. queue' \in Seq(Items)
    BY <2>1, Types, Removed
  <2> QED BY <1>9, <2>2, <2>3 DEF DeliverState, Sound, TypeOK, Items
<1>10. CASE DeliverText
  <2> DEFINE u == Head(queue).of
  <2>1. u \in Utterances /\ Pass(u)
    BY <1>10, HeadWaits DEF DeliverText, Item
  <2>2. fate' \in [Utterances -> Fates]
    BY <2>1, Passed
  <2>3. published' \in Seq(Utterances)
    <3>1. Append(published, u) \in Seq(Utterances)
      BY <2>1, Types
    <3> QED BY <2>1, <3>1, Types, Passed
  <2>4. queue' \in Seq(Items)
    BY <1>10, Types, Removed DEF DeliverText, Item, Taken
  <2> QED BY <1>10, <2>2, <2>3, <2>4, Types DEF DeliverText, Answered, Sound, TypeOK, Items,
               States
<1>11. CASE Refuse
    BY <1>11, Types, HeadWaits, FateChanges DEF Refuse, Item, Taken, Sound, TypeOK, Utterances,
       Backends, States, Fates, Items, Text, Request, State
<1>12. ASSUME NEW ok \in BOOLEAN, Submit(ok) PROVE TypeOK'
  <2>1. fate' \in [Utterances -> Fates]
    BY <1>12, Submitted
  <2>2. awaited' \in 0 .. MaxUtterances /\ inflight' \in 0 .. MaxUtterances
    BY <1>12, Submitted, Types DEF Utterances
  <2>3. queue' \in Seq(Items)
    BY <1>12, Types, Removed DEF Submit, Item, Taken
  <2> QED BY <1>12, <2>1, <2>2, <2>3 DEF Submit, Sound, TypeOK, Items, States
<1>13. CASE Transcript
  <2> DEFINE u == awaited
  <2>1. u \in Utterances /\ Pass(u)
    BY <1>13, AwaitedIs DEF Transcript, Item
  <2>2. fate' \in [Utterances -> Fates]
    BY <2>1, Passed
  <2>3. published' \in Seq(Utterances)
    <3>1. Append(published, u) \in Seq(Utterances)
      BY <2>1, Types
    <3> QED BY <2>1, <3>1, Types, Passed
  <2>4. queue' \in Seq(Items)
    BY <1>13, Types DEF Transcript
  <2> QED BY <1>13, <2>2, <2>3, <2>4, Types DEF Transcript, Answered, Sound, TypeOK, Items,
               States
<1>14. CASE NoAnswer
    BY <1>14, Types, AwaitedIs, FateChanges DEF NoAnswer, Sound, TypeOK, Utterances, Backends,
       States, Fates, Items, Text, Request, State
<1>15. CASE ServerError
    BY <1>15, Types, AwaitedIs, FateChanges DEF ServerError, Answered, Sound, TypeOK,
       Utterances, Backends, States, Fates, Items, Text, Request, State
<1>16. ASSUME NEW b \in Backends, HttpBegin(b) PROVE TypeOK'
  <2>1. switches' \in 0 .. MaxSwitches
    BY <1>16, DeliveryAssumption DEF HttpBegin, Sound, TypeOK
  <2> QED BY <1>16, <2>1 DEF HttpBegin, Sound, TypeOK
<1>17. CASE HttpAssign
    BY <1>17 DEF HttpAssign, Sound, TypeOK, Utterances, Backends, States, Fates, Items, Text,
       Request, State, WorkerHas
<1>18. CASE HttpSwitch
    BY <1>18, Types, AwaitedIs, Switched DEF HttpSwitch, Sound, TypeOK, Utterances, Backends,
       States, Fates, Items, Text, Request, State
<1>19. CASE Quit
    BY <1>19 DEF Quit, Sound, TypeOK, Utterances, Backends, States, Fates, Items, Text,
       Request, State, WorkerHas
<1>20. CASE UNCHANGED vars
  BY <1>20 DEF Sound, TypeOK, Utterances, Backends, States, Fates, Items, Text, Request, State,
       WorkerHas
<1> QED BY <1>1, <1>2, <1>3, <1>4, <1>5, <1>6, <1>7, <1>8, <1>9, <1>10, <1>11, <1>12, <1>13,
          <1>14, <1>15, <1>16, <1>17, <1>18, <1>19, <1>20 DEF Next, SpeechEnds, WorkerStep,
          MainStep, ServerStep, HttpStep

\* Every step keeps what the worker has.
LEMMA StepWorker ==
  ASSUME Sound, [Next]_vars
  PROVE  WorkerHas'
<1> USE DEF vars, workerVars, settingVars, requestVars, historyVars
<1>1. CASE Begin
    BY <1>1, DeliveryAssumption DEF Begin, Worker, Becomes, Post, rest, Sound, WorkerHas,
       TypeOK, Utterances
<1>2. CASE Disabled
    BY <1>2 DEF Disabled, Worker, Becomes, rest, Sound, WorkerHas, TypeOK, Utterances
<1>3. CASE Discard
    BY <1>3 DEF Discard, Worker, Becomes, rest, Sound, WorkerHas, TypeOK, Utterances
<1>4. CASE Finish
    BY <1>4 DEF Finish, Worker, Becomes, Post, rest, Sound, WorkerHas, TypeOK, Utterances
<1>5. CASE Choose
    BY <1>5 DEF Choose, Becomes, Post, rest, Sound, WorkerHas, TypeOK, Utterances
<1>6. CASE DecodeNothing
    BY <1>6 DEF DecodeNothing, Worker, Becomes, rest, Sound, WorkerHas, TypeOK, Utterances
<1>7. CASE Decode
    BY <1>7 DEF Decode, Worker, Becomes, Post, rest, Sound, WorkerHas, TypeOK, Utterances
<1>8. CASE PostIdle
    BY <1>8 DEF PostIdle, Worker, Post, rest, Sound, WorkerHas, TypeOK, Utterances
<1>9. CASE DeliverState
    BY <1>9 DEF DeliverState, Item, Taken, Sound, WorkerHas, TypeOK, Utterances
<1>10. CASE DeliverText
    BY <1>10, Types, HeadWaits, Passed DEF DeliverText, Item, Taken, Sound, WorkerHas, Waiting,
       Fates
<1>11. CASE Refuse
    BY <1>11, Types, HeadWaits, FateChanges DEF Refuse, Item, Taken, Sound, WorkerHas, Waiting,
       Fates
<1>12. ASSUME NEW ok \in BOOLEAN, Submit(ok) PROVE WorkerHas'
  <2>1. UNCHANGED workerVars
    BY <1>12 DEF Submit
  <2>2. ASSUME NEW v \in Utterances
        PROVE  \/ fate'[v] = fate[v]
               \/ fate[v] \notin {"heard", "finished"} /\ fate'[v] \notin {"heard", "finished"}
    <3>1. CASE v = awaited
      BY <1>12, <3>1, Types, AwaitedIs, Submitted DEF Utterances
    <3>2. CASE v = Head(queue).of
      BY <1>12, <3>2, Submitted DEF Waiting
    <3>3. CASE v # awaited /\ v # Head(queue).of
      BY <1>12, <3>3, Submitted
    <3> QED BY <3>1, <3>2, <3>3
  <2> QED BY <2>1, <2>2, Types DEF Sound, WorkerHas
<1>13. CASE Transcript
    BY <1>13, Types, AwaitedIs, Passed DEF Transcript, Answered, Sound, WorkerHas, Waiting,
       Fates
<1>14. CASE NoAnswer
    BY <1>14, Types, AwaitedIs, FateChanges DEF NoAnswer, Sound, WorkerHas, Waiting, Fates
<1>15. CASE ServerError
    BY <1>15, Types, AwaitedIs, FateChanges DEF ServerError, Answered, Sound, WorkerHas,
       Waiting, Fates
<1>16. ASSUME NEW b \in Backends, HttpBegin(b) PROVE WorkerHas'
    BY <1>16, DeliveryAssumption DEF HttpBegin, Sound, WorkerHas, TypeOK, Utterances
<1>17. CASE HttpAssign
    BY <1>17 DEF HttpAssign, Sound, WorkerHas, TypeOK, Utterances
<1>18. CASE HttpSwitch
    BY <1>18, Types, AwaitedIs, Switched DEF HttpSwitch, Sound, WorkerHas, Waiting, Fates
<1>19. CASE Quit
    BY <1>19 DEF Quit, Sound, WorkerHas, TypeOK, Utterances
<1>20. CASE UNCHANGED vars
  BY <1>20 DEF Sound, WorkerHas, TypeOK, Utterances
<1> QED BY <1>1, <1>2, <1>3, <1>4, <1>5, <1>6, <1>7, <1>8, <1>9, <1>10, <1>11, <1>12, <1>13,
          <1>14, <1>15, <1>16, <1>17, <1>18, <1>19, <1>20 DEF Next, SpeechEnds, WorkerStep,
          MainStep, ServerStep, HttpStep

\* Exactly the utterances begun so far were born.
LEMMA StepBorn ==
  ASSUME Sound, [Next]_vars
  PROVE  Born'
<1> USE DEF vars, workerVars, settingVars, requestVars, historyVars
<1>1. CASE Begin
    BY <1>1, DeliveryAssumption DEF Begin, Worker, Becomes, Post, rest, Sound, Born, TypeOK,
       WorkerHas, Utterances
<1>2. CASE Disabled
    BY <1>2 DEF Disabled, Worker, Becomes, rest, Sound, Born, TypeOK, WorkerHas, Utterances
<1>3. CASE Discard
    BY <1>3 DEF Discard, Worker, Becomes, rest, Sound, Born, TypeOK, WorkerHas, Utterances
<1>4. CASE Finish
    BY <1>4 DEF Finish, Worker, Becomes, Post, rest, Sound, Born, TypeOK, WorkerHas, Utterances
<1>5. CASE Choose
    BY <1>5 DEF Choose, Becomes, Post, rest, Sound, Born, TypeOK, WorkerHas, Utterances
<1>6. CASE DecodeNothing
    BY <1>6 DEF DecodeNothing, Worker, Becomes, rest, Sound, Born, TypeOK, WorkerHas,
       Utterances
<1>7. CASE Decode
    BY <1>7 DEF Decode, Worker, Becomes, Post, rest, Sound, Born, TypeOK, WorkerHas, Utterances
<1>8. CASE PostIdle
    BY <1>8 DEF PostIdle, Worker, Post, rest, Sound, Born, TypeOK, WorkerHas, Utterances
<1>9. CASE DeliverState
    BY <1>9 DEF DeliverState, Item, Taken, Sound, Born, TypeOK, WorkerHas, Utterances
<1>10. CASE DeliverText
  <2> DEFINE u == Head(queue).of
  <2>1. /\ u \in Utterances /\ fate[u] \in Waiting /\ Pass(u) /\ UNCHANGED heard
    BY <1>10, HeadWaits DEF DeliverText, Item
  <2>2. /\ fate'[u] # "unborn" /\ fate[u] # "unborn"
        /\ \A v \in Utterances : v # u => fate'[v] = fate[v]
    BY <2>1, Passed DEF Waiting
  <2> QED BY <2>1, <2>2 DEF Sound, Born
<1>11. CASE Refuse
  <2> DEFINE u == Head(queue).of
  <2>1. /\ u \in Utterances /\ fate[u] \in Waiting /\ Becomes(u, "skipped") /\ UNCHANGED heard
    BY <1>11, HeadWaits DEF Refuse, Item
  <2>2. /\ fate'[u] # "unborn" /\ fate[u] # "unborn"
        /\ \A v \in Utterances : v # u => fate'[v] = fate[v]
    BY <2>1, FateChanges DEF Waiting, Fates
  <2> QED BY <2>1, <2>2 DEF Sound, Born
<1>12. ASSUME NEW ok \in BOOLEAN, Submit(ok) PROVE Born'
  <2> DEFINE u == Head(queue).of
  <2>1. UNCHANGED workerVars
    BY <1>12 DEF Submit
  <2> SUFFICES ASSUME NEW v \in Utterances
               PROVE  (fate[v] = "unborn" <=> v > heard)'
    BY <2>1 DEF Born
  <2>2. CASE v = awaited
    BY <1>12, <2>1, <2>2, Types, AwaitedIs, Submitted DEF Sound, Utterances, Born
  <2>3. CASE v = u /\ v # awaited
    BY <1>12, <2>1, <2>3, Types, Submitted DEF Sound, Utterances, Waiting, Born
  <2>4. CASE v # u /\ v # awaited
    BY <1>12, <2>1, <2>4, Types, Submitted DEF Sound, Utterances, Born
  <2> QED BY <2>2, <2>3, <2>4
<1>13. CASE Transcript
    BY <1>13, Types, AwaitedIs, Passed DEF Transcript, Answered, Sound, Born, Waiting, Fates
<1>14. CASE NoAnswer
    BY <1>14, Types, AwaitedIs, FateChanges DEF NoAnswer, Sound, Born, Waiting, Fates
<1>15. CASE ServerError
    BY <1>15, Types, AwaitedIs, FateChanges DEF ServerError, Answered, Sound, Born, Waiting,
       Fates
<1>16. ASSUME NEW b \in Backends, HttpBegin(b) PROVE Born'
    BY <1>16, DeliveryAssumption DEF HttpBegin, Sound, Born, TypeOK, WorkerHas, Utterances
<1>17. CASE HttpAssign
    BY <1>17 DEF HttpAssign, Sound, Born, TypeOK, WorkerHas, Utterances
<1>18. CASE HttpSwitch
  <2>1. UNCHANGED workerVars
    BY <1>18 DEF HttpSwitch
  <2> SUFFICES ASSUME NEW v \in Utterances
               PROVE  (fate[v] = "unborn" <=> v > heard)'
    BY <2>1 DEF Born
  <2>2. CASE v = awaited
    BY <1>18, <2>1, <2>2, Types, AwaitedIs, Switched DEF Sound, Utterances, Born
  <2>3. CASE v # awaited
    BY <1>18, <2>1, <2>3, Types, Switched DEF Sound, Utterances, Born
  <2> QED BY <2>2, <2>3
<1>19. CASE Quit
    BY <1>19 DEF Quit, Sound, Born, TypeOK, WorkerHas, Utterances
<1>20. CASE UNCHANGED vars
  BY <1>20 DEF Sound, Born, TypeOK, WorkerHas, Utterances
<1> QED BY <1>1, <1>2, <1>3, <1>4, <1>5, <1>6, <1>7, <1>8, <1>9, <1>10, <1>11, <1>12, <1>13,
          <1>14, <1>15, <1>16, <1>17, <1>18, <1>19, <1>20 DEF Next, SpeechEnds, WorkerStep,
          MainStep, ServerStep, HttpStep

\* Exactly the utterance whose answer can come is at the server.
LEMMA StepServer ==
  ASSUME Sound, [Next]_vars
  PROVE  AtServer'
<1> USE DEF vars, workerVars, settingVars, requestVars, historyVars
<1>1. CASE Begin
    BY <1>1, DeliveryAssumption DEF Begin, Worker, Becomes, Post, rest, Sound, AtServer,
       WorkerHas, Born, TypeOK, Utterances
<1>2. CASE Disabled
    BY <1>2 DEF Disabled, Worker, Becomes, rest, Sound, AtServer, WorkerHas, Born, TypeOK,
       Utterances
<1>3. CASE Discard
    BY <1>3 DEF Discard, Worker, Becomes, rest, Sound, AtServer, WorkerHas, Born, TypeOK,
       Utterances
<1>4. CASE Finish
    BY <1>4 DEF Finish, Worker, Becomes, Post, rest, Sound, AtServer, WorkerHas, Born, TypeOK,
       Utterances
<1>5. CASE Choose
    BY <1>5 DEF Choose, Becomes, Post, rest, Sound, AtServer, WorkerHas, Born, TypeOK,
       Utterances
<1>6. CASE DecodeNothing
    BY <1>6 DEF DecodeNothing, Worker, Becomes, rest, Sound, AtServer, WorkerHas, Born, TypeOK,
       Utterances
<1>7. CASE Decode
    BY <1>7 DEF Decode, Worker, Becomes, Post, rest, Sound, AtServer, WorkerHas, Born, TypeOK,
       Utterances
<1>8. CASE PostIdle
    BY <1>8 DEF PostIdle, Worker, Post, rest, Sound, AtServer, WorkerHas, Born, TypeOK,
       Utterances
<1>9. CASE DeliverState
    BY <1>9 DEF DeliverState, Item, Taken, Sound, AtServer, WorkerHas, Born, TypeOK, Utterances
<1>10. CASE DeliverText
    BY <1>10, Types, HeadWaits, Passed DEF DeliverText, Item, Taken, Sound, AtServer, Waiting,
       Fates, Utterances
<1>11. CASE Refuse
  <2>1. Head(queue).of \in Utterances /\ fate[Head(queue).of] \in Waiting
    BY <1>11, HeadWaits DEF Refuse, Item
  <2>2. /\ fate'[Head(queue).of] = "skipped"
        /\ \A v \in Utterances : v # Head(queue).of => fate'[v] = fate[v]
    BY <1>11, <2>1, FateChanges DEF Refuse, Fates
  <2> QED BY <1>11, <2>1, <2>2 DEF Refuse, Sound, AtServer, Waiting
<1>12. ASSUME NEW ok \in BOOLEAN, Submit(ok) PROVE AtServer'
  <2> DEFINE u == Head(queue).of
  <2>1. UNCHANGED workerVars
    BY <1>12 DEF Submit
  <2> SUFFICES ASSUME NEW v \in Utterances
               PROVE  (fate[v] = "submitted" <=> awaited = v)'
    BY <2>1 DEF AtServer
  <2>2. CASE v = awaited
    BY <1>12, <2>1, <2>2, Types, AwaitedIs, Submitted DEF Sound, Utterances, AtServer
  <2>3. CASE v = u /\ v # awaited
    BY <1>12, <2>1, <2>3, Types, Submitted DEF Sound, Utterances, Waiting, AtServer
  <2>4. CASE v # u /\ v # awaited
    BY <1>12, <2>1, <2>4, Types, Submitted DEF Sound, Utterances, AtServer
  <2> QED BY <2>2, <2>3, <2>4
<1>13. CASE Transcript
    BY <1>13, Types, AwaitedIs, Passed DEF Transcript, Answered, Sound, AtServer, Waiting,
       Fates, Utterances
<1>14. CASE NoAnswer
    BY <1>14, Types, AwaitedIs, FateChanges DEF NoAnswer, Sound, AtServer, Waiting, Fates,
       Utterances
<1>15. CASE ServerError
    BY <1>15, Types, AwaitedIs, FateChanges DEF ServerError, Answered, Sound, AtServer,
       Waiting, Fates, Utterances
<1>16. ASSUME NEW b \in Backends, HttpBegin(b) PROVE AtServer'
    BY <1>16, DeliveryAssumption DEF HttpBegin, Sound, AtServer, WorkerHas, Born, TypeOK,
       Utterances
<1>17. CASE HttpAssign
    BY <1>17 DEF HttpAssign, Sound, AtServer, WorkerHas, Born, TypeOK, Utterances
<1>18. CASE HttpSwitch
    BY <1>18, Types, AwaitedIs, Switched DEF HttpSwitch, Sound, AtServer, Waiting, Fates,
       Utterances
<1>19. CASE Quit
    BY <1>19 DEF Quit, Sound, AtServer, WorkerHas, Born, TypeOK, Utterances
<1>20. CASE UNCHANGED vars
  BY <1>20 DEF Sound, AtServer, WorkerHas, Born, TypeOK, Utterances
<1> QED BY <1>1, <1>2, <1>3, <1>4, <1>5, <1>6, <1>7, <1>8, <1>9, <1>10, <1>11, <1>12, <1>13,
          <1>14, <1>15, <1>16, <1>17, <1>18, <1>19, <1>20 DEF Next, SpeechEnds, WorkerStep,
          MainStep, ServerStep, HttpStep

\* What waits is in the queue, once.
LEMMA StepQueued ==
  ASSUME Sound, [Next]_vars
  PROVE  Queued(queue, fate)'
<1> USE DEF vars, workerVars, settingVars, requestVars, historyVars
<1>1. CASE Begin
  <2>1. \A v \in Utterances : fate[v] \in Waiting <=> fate'[v] \in Waiting
    BY <1>1, Types DEF Begin, Worker, Becomes, Sound, WorkerHas, Born, Waiting, Utterances
  <2>2. Queued(queue, fate')
    BY <2>1, Types, QueuedStays DEF Sound
  <2> QED BY <1>1, <2>2, Types, StateQueued DEF Begin, Post, States
<1>2. CASE Disabled
  <2>1. \A v \in Utterances : fate[v] \in Waiting <=> fate'[v] \in Waiting
    BY <1>2, Types DEF Disabled, Worker, Becomes, Sound, WorkerHas, Waiting
  <2> QED BY <1>2, <2>1, Types, QueuedStays DEF Disabled, rest, Sound
<1>3. CASE Discard
  <2>1. \A v \in Utterances : fate[v] \in Waiting <=> fate'[v] \in Waiting
    BY <1>3, Types DEF Discard, Worker, Becomes, Sound, WorkerHas, Waiting
  <2> QED BY <1>3, <2>1, Types, QueuedStays DEF Discard, rest, Sound
<1>4. CASE Finish
  <2>1. \A v \in Utterances : fate[v] \in Waiting <=> fate'[v] \in Waiting
    BY <1>4, Types DEF Finish, Worker, Becomes, Sound, WorkerHas, Born, Waiting, Utterances
  <2>2. Queued(queue, fate')
    BY <2>1, Types, QueuedStays DEF Sound
  <2> QED BY <1>4, <2>2, Types, StateQueued DEF Finish, Post, States
<1>5. CASE Choose
  <2>1. heard \in Utterances /\ fate[heard] = "finished"
    BY <1>5, Types DEF Choose, Sound, WorkerHas
  <2>2. CASE ~callback
    BY <1>5, <2>2 DEF Choose, Sound
  <2>3. CASE callback
    <3>1. Becomes(heard, "posted") /\ "posted" \in Fates
      BY <1>5, <2>3 DEF Choose, Fates
    <3>2. fate'[heard] = "posted" /\ \A v \in Utterances \ {heard} : fate'[v] = fate[v]
      BY <2>1, <3>1, FateChanges
    <3>3. Request(heard) \in Items /\ Request(heard).type # "state" /\ Request(heard).of = heard
      BY <2>1 DEF Request, Items
    <3>4. Queued(Append(queue, Request(heard)), fate')
      BY <2>1, <3>2, <3>3, Types, UtteranceQueued DEF Waiting, Sound
    <3> QED BY <1>5, <2>3, <3>4 DEF Choose, Post
  <2> QED BY <2>2, <2>3
<1>6. CASE DecodeNothing
  <2>1. \A v \in Utterances : fate[v] \in Waiting <=> fate'[v] \in Waiting
    BY <1>6, Types DEF DecodeNothing, Worker, Becomes, Sound, WorkerHas, Waiting
  <2> QED BY <1>6, <2>1, Types, QueuedStays DEF DecodeNothing, rest, Sound
<1>7. CASE Decode
  <2>1. heard \in Utterances /\ fate[heard] = "finished"
    BY <1>7, Types DEF Decode, Worker, Sound, WorkerHas
  <2>2. Becomes(heard, "decoded") /\ "decoded" \in Fates
    BY <1>7 DEF Decode, Fates
  <2>3. fate'[heard] = "decoded" /\ \A v \in Utterances \ {heard} : fate'[v] = fate[v]
    BY <2>1, <2>2, FateChanges
  <2>4. Text(heard) \in Items /\ Text(heard).type # "state" /\ Text(heard).of = heard
    BY <2>1 DEF Text, Items
  <2>5. Queued(Append(queue, Text(heard)), fate')
    BY <2>1, <2>3, <2>4, Types, UtteranceQueued DEF Waiting, Sound
  <2> QED BY <1>7, <2>5 DEF Decode, Post
<1>8. CASE PostIdle
  BY <1>8, Types, StateQueued DEF PostIdle, Post, States, Sound
<1>9. CASE DeliverState
  BY <1>9, Types, ItemTaken DEF DeliverState, Item, Taken, Sound
<1>10. CASE DeliverText
  <2> DEFINE u == Head(queue).of
  <2>1. /\ queue # << >> /\ queue' = Tail(queue) /\ Head(queue).type # "state"
        /\ u \in Utterances /\ fate[u] \in Waiting
    BY <1>10, HeadWaits DEF DeliverText, Item, Taken
  <2>2. fate'[u] \notin Waiting /\ \A v \in Utterances : v # u => fate'[v] = fate[v]
    BY <1>10, <2>1, Passed DEF DeliverText, Waiting
  <2> QED BY <2>1, <2>2, Types, ItemTaken DEF Sound
<1>11. CASE Refuse
  <2> DEFINE u == Head(queue).of
  <2>1. /\ queue # << >> /\ queue' = Tail(queue) /\ Head(queue).type # "state"
        /\ u \in Utterances /\ fate[u] \in Waiting
    BY <1>11, HeadWaits DEF Refuse, Item, Taken
  <2>2. fate'[u] \notin Waiting /\ \A v \in Utterances : v # u => fate'[v] = fate[v]
    BY <1>11, <2>1, FateChanges DEF Refuse, Waiting, Fates
  <2> QED BY <2>1, <2>2, Types, ItemTaken DEF Sound
<1>12. ASSUME NEW ok \in BOOLEAN, Submit(ok) PROVE Queued(queue, fate)'
  <2> DEFINE u == Head(queue).of
  <2>1. /\ queue # << >> /\ queue' = Tail(queue) /\ Head(queue).type # "state"
        /\ u \in Utterances /\ fate[u] \in Waiting
    BY <1>12, HeadWaits DEF Submit, Item, Taken
  <2>2. /\ fate'[u] \notin Waiting
        /\ \A v \in Utterances : v # u => (fate'[v] \in Waiting <=> fate[v] \in Waiting)
    <3>1. fate'[u] \notin Waiting
      BY <1>12, Submitted DEF Waiting
    <3>2. ASSUME NEW v \in Utterances, v # u
          PROVE  fate'[v] \in Waiting <=> fate[v] \in Waiting
      <4>1. CASE v = awaited
        BY <1>12, <4>1, AwaitedIs, Types, Submitted DEF Waiting, Utterances
      <4>2. CASE v # awaited
        BY <1>12, <3>2, <4>2, Submitted
      <4> QED BY <4>1, <4>2
    <3> QED BY <3>1, <3>2
  <2> QED BY <2>1, <2>2, Types, ItemTaken DEF Sound
<1>13. CASE Transcript
  <2>1. Pass(awaited) /\ awaited # 0
    BY <1>13 DEF Transcript
  <2>2. \A v \in Utterances : fate[v] \in Waiting <=> fate'[v] \in Waiting
    BY <2>1, AwaitedIs, Passed DEF Waiting
  <2> QED BY <1>13, <2>2, Types, QueuedStays DEF Transcript, Sound
<1>14. CASE NoAnswer
  <2>1. Becomes(awaited, "failed") /\ awaited # 0
    BY <1>14 DEF NoAnswer
  <2>2. \A v \in Utterances : fate[v] \in Waiting <=> fate'[v] \in Waiting
    BY <2>1, AwaitedIs, FateChanges DEF Waiting, Fates
  <2> QED BY <1>14, <2>2, Types, QueuedStays DEF NoAnswer, Sound
<1>15. CASE ServerError
  <2>1. Becomes(awaited, "failed") /\ awaited # 0
    BY <1>15 DEF ServerError
  <2>2. \A v \in Utterances : fate[v] \in Waiting <=> fate'[v] \in Waiting
    BY <2>1, AwaitedIs, FateChanges DEF Waiting, Fates
  <2> QED BY <1>15, <2>2, Types, QueuedStays DEF ServerError, Sound
<1>16. ASSUME NEW b \in Backends, HttpBegin(b) PROVE Queued(queue, fate)'
    BY <1>16, DeliveryAssumption DEF HttpBegin, Sound, Queued
<1>17. CASE HttpAssign
    BY <1>17 DEF HttpAssign, Sound, Queued
<1>18. CASE HttpSwitch
  <2>1. ASSUME NEW v \in Utterances
        PROVE  fate[v] \in Waiting <=> fate'[v] \in Waiting
    <3>1. CASE v = awaited
      BY <1>18, <3>1, AwaitedIs, Types, Switched DEF Waiting, Utterances
    <3>2. CASE v # awaited
      BY <1>18, <3>2, Switched
    <3> QED BY <3>1, <3>2
  <2> QED BY <1>18, <2>1, Types, QueuedStays DEF HttpSwitch, Sound
<1>19. CASE Quit
    BY <1>19 DEF Quit, Sound, Queued
<1>20. CASE UNCHANGED vars
  BY <1>20 DEF Sound, Queued
<1> QED BY <1>1, <1>2, <1>3, <1>4, <1>5, <1>6, <1>7, <1>8, <1>9, <1>10, <1>11, <1>12, <1>13,
          <1>14, <1>15, <1>16, <1>17, <1>18, <1>19, <1>20 DEF Next, SpeechEnds, WorkerStep,
          MainStep, ServerStep, HttpStep

\* Nothing is published twice.
LEMMA StepDelivered ==
  ASSUME Sound, [Next]_vars
  PROVE  Delivered'
<1> USE DEF vars, workerVars, settingVars, requestVars, historyVars
<1>1. CASE Begin
  <2>1. \A v \in Utterances : fate[v] = "published" => fate'[v] = "published"
    BY <1>1, Types DEF Begin, Worker, Becomes, rest, Sound, WorkerHas, Born, Utterances
  <2> QED BY <1>1, <2>1, DeliveredStays DEF Begin, rest
<1>2. CASE Disabled
  <2>1. \A v \in Utterances : fate[v] = "published" => fate'[v] = "published"
    BY <1>2, Types DEF Disabled, Worker, Becomes, rest, Sound, WorkerHas, Born, Utterances
  <2> QED BY <1>2, <2>1, DeliveredStays DEF Disabled, rest
<1>3. CASE Discard
  <2>1. \A v \in Utterances : fate[v] = "published" => fate'[v] = "published"
    BY <1>3, Types DEF Discard, Worker, Becomes, rest, Sound, WorkerHas, Born, Utterances
  <2> QED BY <1>3, <2>1, DeliveredStays DEF Discard, rest
<1>4. CASE Finish
  <2>1. \A v \in Utterances : fate[v] = "published" => fate'[v] = "published"
    BY <1>4, Types DEF Finish, Worker, Becomes, rest, Sound, WorkerHas, Born, Utterances
  <2> QED BY <1>4, <2>1, DeliveredStays DEF Finish, rest
<1>5. CASE Choose
  <2>1. \A v \in Utterances : fate[v] = "published" => fate'[v] = "published"
    BY <1>5, Types DEF Choose, Worker, Becomes, rest, Sound, WorkerHas, Born, Utterances
  <2> QED BY <1>5, <2>1, DeliveredStays DEF Choose, rest
<1>6. CASE DecodeNothing
  <2>1. \A v \in Utterances : fate[v] = "published" => fate'[v] = "published"
    BY <1>6, Types DEF DecodeNothing, Worker, Becomes, rest, Sound, WorkerHas, Born, Utterances
  <2> QED BY <1>6, <2>1, DeliveredStays DEF DecodeNothing, rest
<1>7. CASE Decode
  <2>1. \A v \in Utterances : fate[v] = "published" => fate'[v] = "published"
    BY <1>7, Types DEF Decode, Worker, Becomes, rest, Sound, WorkerHas, Born, Utterances
  <2> QED BY <1>7, <2>1, DeliveredStays DEF Decode, rest
<1>8. CASE PostIdle
  BY <1>8, DeliveredStays DEF PostIdle, rest
<1>9. CASE DeliverState
  BY <1>9, DeliveredStays DEF DeliverState, rest
<1>10. CASE DeliverText
  BY <1>10, HeadWaits, DeliveredMore DEF DeliverText, Item, Waiting
<1>11. CASE Refuse
  <2>1. \A v \in Utterances : fate[v] = "published" => fate'[v] = "published"
    BY <1>11, HeadWaits, FateChanges DEF Refuse, Item, Waiting, Fates
  <2> QED BY <1>11, <2>1, DeliveredStays DEF Refuse
<1>12. ASSUME NEW ok \in BOOLEAN, Submit(ok) PROVE Delivered'
  <2>1. ASSUME NEW v \in Utterances, fate[v] = "published"
        PROVE  fate'[v] = "published"
    <3>1. v # awaited
      BY <2>1, AwaitedIs, Types DEF Utterances
    <3> QED BY <1>12, <2>1, <3>1, Submitted DEF Waiting
  <2> QED BY <1>12, <2>1, DeliveredStays DEF Submit
<1>13. CASE Transcript
  BY <1>13, AwaitedIs, DeliveredMore DEF Transcript
<1>14. CASE NoAnswer
  <2>1. \A v \in Utterances : fate[v] = "published" => fate'[v] = "published"
    BY <1>14, AwaitedIs, FateChanges DEF NoAnswer, Item, Waiting, Fates
  <2> QED BY <1>14, <2>1, DeliveredStays DEF NoAnswer
<1>15. CASE ServerError
  <2>1. \A v \in Utterances : fate[v] = "published" => fate'[v] = "published"
    BY <1>15, AwaitedIs, FateChanges DEF ServerError, Item, Waiting, Fates
  <2> QED BY <1>15, <2>1, DeliveredStays DEF ServerError
<1>16. ASSUME NEW b \in Backends, HttpBegin(b) PROVE Delivered'
  BY <1>16, DeliveredStays DEF HttpBegin, rest
<1>17. CASE HttpAssign
  BY <1>17, DeliveredStays DEF HttpAssign, rest
<1>18. CASE HttpSwitch
  <2>1. ASSUME NEW v \in Utterances, fate[v] = "published"
        PROVE  fate'[v] = "published"
    <3>1. v # awaited
      BY <2>1, AwaitedIs, Types DEF Utterances
    <3> QED BY <1>18, <2>1, <3>1, Switched DEF Waiting
  <2> QED BY <1>18, <2>1, DeliveredStays DEF HttpSwitch
<1>19. CASE Quit
  BY <1>19, DeliveredStays DEF Quit, rest
<1>20. CASE UNCHANGED vars
  BY <1>20 DEF Sound, Delivered
<1> QED BY <1>1, <1>2, <1>3, <1>4, <1>5, <1>6, <1>7, <1>8, <1>9, <1>10, <1>11, <1>12, <1>13,
          <1>14, <1>15, <1>16, <1>17, <1>18, <1>19, <1>20 DEF Next, SpeechEnds, WorkerStep,
          MainStep, ServerStep, HttpStep

\* As long as the backend is left alone the order is kept.
LEMMA StepOrdered ==
  ASSUME Sound, Ordered, [Next]_vars
  PROVE  Ordered'
<1> USE DEF vars, workerVars, settingVars, requestVars, historyVars
<1>1. CASE Begin
  <2>1. \E st \in States : queue' = Append(queue, State(st))
    BY <1>1 DEF Begin, Post, States
  <2>2. PICK st \in States : queue' = Append(queue, State(st))
    BY <2>1
  <2>3. State(st) \in Items /\ State(st).type = "state"
    BY DEF State, Items
  <2>4. switches = 0 => Ascending(queue', awaited, published)
    BY <2>2, <2>3, Types, OrderPosted DEF Ordered
  <2>5. NoText(queue) => NoText(queue')
    BY <2>2, <2>3, Types, Appended, NoTextPosted
  <2> QED BY <1>1, <2>4, <2>5 DEF Begin, Worker, rest, Ordered
<1>2. CASE Disabled
  BY <1>2 DEF Disabled, Worker, rest, Ordered
<1>3. CASE Discard
  BY <1>3 DEF Discard, Worker, rest, Ordered
<1>4. CASE Finish
  <2>1. \E st \in States : queue' = Append(queue, State(st))
    BY <1>4 DEF Finish, Post, States
  <2>2. PICK st \in States : queue' = Append(queue, State(st))
    BY <2>1
  <2>3. State(st) \in Items /\ State(st).type = "state"
    BY DEF State, Items
  <2>4. switches = 0 => Ascending(queue', awaited, published)
    BY <2>2, <2>3, Types, OrderPosted DEF Ordered
  <2>5. NoText(queue) => NoText(queue')
    BY <2>2, <2>3, Types, Appended, NoTextPosted
  <2> QED BY <1>4, <2>4, <2>5 DEF Finish, Worker, rest, Ordered
<1>5. CASE Choose
  <2>1. heard \in Utterances /\ fate[heard] = "finished"
    BY <1>5, Types DEF Choose, Worker, Sound, WorkerHas
  <2>2. /\ awaited < heard
        /\ \A k \in 1 .. Len(published) : published[k] < heard
        /\ \A i \in 1 .. Len(queue) : queue[i].type # "state" => queue[i].of < heard
    BY <2>1, YoungestIs
  <2>3. CASE ~callback
    BY <1>5, <2>3 DEF Choose, rest, Ordered
  <2>4. CASE callback
    <3>1. queue' = Append(queue, Request(heard))
      BY <1>5, <2>4 DEF Choose, Post
    <3>2. Request(heard) \in Items /\ Request(heard).type = "request" /\ Request(heard).of = heard
      BY <2>1 DEF Request, Items
    <3>3. switches = 0 => Ascending(queue', awaited, published)
      BY <2>2, <3>1, <3>2, Types, OrderPosted DEF Ordered
    <3>4. NoText(queue) => NoText(queue')
      BY <3>1, <3>2, Types, NoTextPosted
    <3> QED BY <1>5, <2>4, <3>3, <3>4 DEF Choose, rest, Ordered
  <2> QED BY <2>3, <2>4
<1>6. CASE DecodeNothing
  BY <1>6 DEF DecodeNothing, Worker, rest, Ordered
<1>7. CASE Decode
  <2>1. heard \in Utterances /\ fate[heard] = "finished"
    BY <1>7, Types DEF Decode, Worker, Sound, WorkerHas
  <2>2. /\ awaited < heard
        /\ \A k \in 1 .. Len(published) : published[k] < heard
        /\ \A i \in 1 .. Len(queue) : queue[i].type # "state" => queue[i].of < heard
    BY <2>1, YoungestIs
  <2>3. queue' = Append(queue, Text(heard))
    BY <1>7 DEF Decode, Post
  <2>4. Text(heard) \in Items /\ Text(heard).type = "text" /\ Text(heard).of = heard
    BY <2>1 DEF Text, Items
  <2>5. switches = 0 => Ascending(queue', awaited, published)
    BY <2>2, <2>3, <2>4, Types, OrderPosted DEF Ordered
  <2> QED BY <1>7, <2>5 DEF Decode, Worker, rest, Ordered
<1>8. CASE PostIdle
  <2>1. \E st \in States : queue' = Append(queue, State(st))
    BY <1>8 DEF PostIdle, Post, States
  <2>2. PICK st \in States : queue' = Append(queue, State(st))
    BY <2>1
  <2>3. State(st) \in Items /\ State(st).type = "state"
    BY DEF State, Items
  <2>4. switches = 0 => Ascending(queue', awaited, published)
    BY <2>2, <2>3, Types, OrderPosted DEF Ordered
  <2>5. NoText(queue) => NoText(queue')
    BY <2>2, <2>3, Types, Appended, NoTextPosted
  <2> QED BY <1>8, <2>4, <2>5 DEF PostIdle, Worker, rest, Ordered
<1>9. CASE DeliverState
  <2>1. switches = 0 => Ascending(queue', awaited, published)
    BY <1>9, Types, OrderTaken DEF DeliverState, Item, Taken, Ordered
  <2>2. NoText(queue) => NoText(queue')
    BY <1>9, Types, NoTextTaken DEF DeliverState, Item, Taken
  <2> QED BY <1>9, <2>1, <2>2 DEF DeliverState, Ordered
<1>10. CASE DeliverText
  <2> DEFINE u == Head(queue).of
  <2>1. /\ queue # << >> /\ queue' = Tail(queue) /\ Head(queue).type = "text"
        /\ u \in Utterances /\ Pass(u)
    BY <1>10, HeadWaits DEF DeliverText, Item, Taken
  <2> SUFFICES ASSUME switches = 0
               PROVE  Ordered'
    BY <1>10 DEF DeliverText, Ordered
  <2>2. ~callback /\ awaited = 0
    BY <2>1, HeadWaits DEF Ordered, NoText
  <2>3. /\ Ascending(queue', 0, published)
        /\ \A i \in 1 .. Len(queue') : queue'[i].type # "state" => u < queue'[i].of
        /\ \A k \in 1 .. Len(published) : published[k] < u
    BY <2>1, <2>2, Types, OrderTaken DEF Ordered
  <2>4. queue' \in Seq(Items)
    BY <2>1, Types, Removed
  <2>5. Ascending(queue', 0, published')
    BY <2>1, <2>3, <2>4, Types, Passed, OrderPublished
  <2> QED BY <1>10, <2>2, <2>5 DEF DeliverText, Ordered
<1>11. CASE Refuse
  <2>1. switches = 0 => Ascending(queue', awaited, published)
    BY <1>11, Types, OrderTaken DEF Refuse, Item, Taken, Ordered
  <2>2. NoText(queue) => NoText(queue')
    BY <1>11, Types, NoTextTaken DEF Refuse, Item, Taken
  <2> QED BY <1>11, <2>1, <2>2 DEF Refuse, Ordered
<1>12. ASSUME NEW ok \in BOOLEAN, Submit(ok) PROVE Ordered'
  <2> DEFINE u == Head(queue).of
  <2>1. queue # << >> /\ queue' = Tail(queue) /\ Head(queue).type = "request"
    BY <1>12 DEF Submit, Item, Taken
  <2>2. u \in Nat
    BY <2>1, HeadWaits DEF Utterances
  <2> SUFFICES ASSUME switches = 0
               PROVE  Ordered'
    BY <1>12 DEF Submit, Ordered
  <2>3. Ascending(queue', u, published)
    BY <2>1, Types, OrderTaken DEF Ordered
  <2>4. Tail(queue) \in Seq(Items)
    BY <2>1, Types, Removed
  <2>5. Ascending(queue', 0, published)
    BY <2>1, <2>2, <2>3, <2>4, OrderAnswered
  <2>6. Ascending(queue', awaited', published')
    BY <1>12, <2>3, <2>5, Submitted DEF Submit
  <2>7. callback /\ NoText(queue')
    BY <1>12, <2>1, Types, NoTextTaken DEF Submit, Accepts, Ordered
  <2> QED BY <1>12, <2>6, <2>7 DEF Submit, Ordered
<1>13. CASE Transcript
  <2>1. awaited # 0 /\ Pass(awaited) /\ awaited \in Utterances
    BY <1>13, AwaitedIs DEF Transcript
  <2> SUFFICES ASSUME switches = 0
               PROVE  Ordered'
    BY <1>13 DEF Transcript, Ordered
  <2>2. Ascending(queue, awaited, published) /\ awaited \in Nat
    BY Types DEF Ordered
  <2>3. Ascending(queue, 0, published)
    BY <2>2, Types, OrderAnswered
  <2>4. /\ \A i \in 1 .. Len(queue) : queue[i].type # "state" => awaited < queue[i].of
        /\ \A k \in 1 .. Len(published) : published[k] < awaited
    BY <2>1, <2>2 DEF Ascending
  <2>5. Ascending(queue, 0, published')
    BY <2>1, <2>3, <2>4, Types, Passed, OrderPublished
  <2> QED BY <1>13, <2>5 DEF Transcript, Answered, Ordered
<1>14. CASE NoAnswer
  <2>1. switches = 0 => Ascending(queue, 0, published)
    BY Types, OrderAnswered DEF Ordered
  <2> QED BY <1>14, <2>1 DEF NoAnswer, Answered, Ordered
<1>15. CASE ServerError
  <2>1. switches = 0 => Ascending(queue, 0, published)
    BY Types, OrderAnswered DEF Ordered
  <2> QED BY <1>15, <2>1 DEF ServerError, Answered, Ordered
<1>16. ASSUME NEW b \in Backends, HttpBegin(b) PROVE Ordered'
  <2>1. switches' # 0
    BY <1>16 DEF HttpBegin, Sound, TypeOK
  <2> QED BY <2>1 DEF Ordered
<1>17. CASE HttpAssign
  BY <1>17 DEF HttpAssign, Ordered
<1>18. CASE HttpSwitch
  BY <1>18 DEF HttpSwitch, Ordered
<1>19. CASE Quit
  BY <1>19 DEF Quit, Ordered
<1>20. CASE UNCHANGED vars
  BY <1>20 DEF Ordered
<1> QED BY <1>1, <1>2, <1>3, <1>4, <1>5, <1>6, <1>7, <1>8, <1>9, <1>10, <1>11, <1>12, <1>13,
          <1>14, <1>15, <1>16, <1>17, <1>18, <1>19, <1>20 DEF Next, SpeechEnds, WorkerStep,
          MainStep, ServerStep, HttpStep

-----------------------------------------------------------------------------
(* The state that is left when everything has been handed over. *)

\* What follows the last utterance: the worker's "idle" is behind everything it posted,
\* or has come, and then nothing but the settings or an answer has set the state since.
Followed ==
  wpc = "quiet" /\ heard # 0 /\ fate[heard] # "dropped" =>
    IF queue = << >> THEN state \in {"idle", "error"} ELSE queue[Len(queue)] = State("idle")

\* The last item stays the last until it is the first.
LEMMA LastStays ==
  ASSUME NEW q \in Seq(Items), q # << >>
  PROVE  IF Tail(q) = << >> THEN Head(q) = q[Len(q)] ELSE Tail(q)[Len(Tail(q))] = q[Len(q)]
<1> DEFINE r == Tail(q)
<1>1. /\ Len(q) \in Nat /\ Len(q) >= 1 /\ Head(q) = q[1]
      /\ Len(r) = Len(q) - 1 /\ r \in Seq(Items)
      /\ \A i \in 1 .. Len(q) - 1 : r[i] = q[i + 1]
  BY Removed
<1> HIDE DEF r
<1>2. r = << >> <=> Len(r) = 0
  BY <1>1
<1>3. CASE Len(r) = 0
  <2>1. Len(q) = 1
    BY <1>1, <1>3
  <2> QED BY <1>1, <1>2, <1>3, <2>1 DEF r
<1>4. CASE Len(r) # 0
  <2>1. Len(r) \in 1 .. Len(q) - 1 /\ Len(r) + 1 = Len(q)
    BY <1>1, <1>4
  <2>2. r[Len(r)] = q[Len(q)]
    BY <1>1, <2>1
  <2> QED BY <1>2, <1>4, <2>2 DEF r
<1> QED BY <1>3, <1>4

\* An utterance that was dropped stays so: only those that wait or are at the server get
\* another fate from another thread.
LEMMA DroppedStays ==
  ASSUME Sound, wpc = "quiet", MainStep \/ ServerStep \/ HttpStep
  PROVE  \A v \in Utterances : fate[v] = "dropped" => fate'[v] = "dropped"
<1> SUFFICES ASSUME NEW v \in Utterances, fate[v] = "dropped" PROVE fate'[v] = "dropped"
  OBVIOUS
<1>1. v # awaited /\ fate[v] \notin Waiting
  BY AwaitedIs, Types DEF Waiting, Utterances
<1>2. CASE DeliverState \/ HttpAssign
  BY <1>2 DEF DeliverState, HttpAssign, historyVars
<1>3. CASE DeliverText
  BY <1>1, <1>3, HeadWaits, Passed DEF DeliverText, Item
<1>4. CASE Refuse
  BY <1>1, <1>4, HeadWaits, FateChanges DEF Refuse, Item, Fates
<1>5. ASSUME NEW ok \in BOOLEAN, Submit(ok) PROVE fate'[v] = "dropped"
  BY <1>1, <1>5, Submitted
<1>6. CASE Transcript
  BY <1>1, <1>6, AwaitedIs, Passed DEF Transcript
<1>7. CASE NoAnswer
  BY <1>1, <1>7, AwaitedIs, FateChanges DEF NoAnswer, Fates
<1>8. CASE ServerError
  BY <1>1, <1>8, AwaitedIs, FateChanges DEF ServerError, Fates
<1>9. CASE HttpSwitch
  BY <1>1, <1>9, Switched
<1> QED BY <1>2, <1>3, <1>4, <1>5, <1>6, <1>7, <1>8, <1>9 DEF MainStep, ServerStep, HttpStep

\* Every step keeps it.
LEMMA StepFollowed ==
  ASSUME Sound, Followed, [Next]_vars
  PROVE  Followed'
<1> USE DEF vars, workerVars, settingVars, requestVars, historyVars
<1>1. CASE Begin \/ Discard \/ Finish \/ Choose \/ DecodeNothing \/ Decode
  BY <1>1 DEF Begin, Discard, Finish, Choose, DecodeNothing, Decode, Worker, Followed
<1>2. CASE Disabled
  <2>1. heard \in Utterances /\ heard' = heard
    BY <1>2, Types DEF Disabled, Worker, Sound, WorkerHas
  <2>2. fate'[heard] = "dropped"
    BY <1>2, <2>1, FateChanges DEF Disabled, Fates
  <2> QED BY <2>1, <2>2 DEF Followed
<1>3. CASE PostIdle
  <2>1. State("idle") \in Items
    BY DEF State, Items, States
  <2>2. queue' = Append(queue, State("idle"))
    BY <1>3 DEF PostIdle, Post
  <2>3. queue' # << >> /\ queue'[Len(queue')] = State("idle")
    BY <2>1, <2>2, Types, Appended
  <2> QED BY <2>3 DEF Followed
<1>4. CASE MainStep \/ ServerStep \/ HttpStep
  <2> SUFFICES ASSUME wpc' = "quiet", heard' # 0, fate'[heard'] # "dropped"
               PROVE  IF queue' = << >> THEN state' \in {"idle", "error"}
                                        ELSE queue'[Len(queue')] = State("idle")
    BY DEF Followed, State
  <2>1. wpc = "quiet" /\ heard' = heard
    BY <1>4 DEF MainStep, ServerStep, HttpStep, DeliverState, DeliverText, Refuse, Submit,
             Transcript, NoAnswer, ServerError, HttpAssign, HttpSwitch
  <2>2. heard # 0 /\ fate[heard] # "dropped"
    BY <1>4, <2>1, DroppedStays, Types
  <2>3. IF queue = << >> THEN state \in {"idle", "error"} ELSE queue[Len(queue)] = State("idle")
    BY <2>1, <2>2 DEF Followed
  <2>4. CASE MainStep
    <3>1. queue # << >> /\ queue' = Tail(queue)
      BY <2>4 DEF MainStep, DeliverState, DeliverText, Refuse, Submit, Item, Taken
    <3>2. CASE Tail(queue) # << >>
      BY <2>3, <3>1, <3>2, Types, LastStays
    <3>3. CASE Tail(queue) = << >>
      <4>1. Head(queue) = State("idle")
        BY <2>3, <3>1, <3>3, Types, LastStays
      <4>2. state' = "idle"
        BY <2>4, <4>1
           DEF MainStep, DeliverState, DeliverText, Refuse, Submit, Item, State
      <4> QED BY <3>1, <3>3, <4>2
    <3> QED BY <3>2, <3>3
  <2>5. CASE ServerStep \/ HttpStep
    <3>1. queue' = queue /\ state' \in {state, "idle", "error"}
      BY <2>5 DEF ServerStep, HttpStep, Transcript, NoAnswer, ServerError, HttpAssign,
               HttpSwitch
    <3> QED BY <2>3, <3>1
  <2> QED BY <1>4, <2>4, <2>5
<1>5. CASE Quit
  BY <1>5 DEF Quit, Followed, State
<1>6. ASSUME NEW b \in Backends, HttpBegin(b) PROVE Followed'
  BY <1>6 DEF HttpBegin, Followed, State
<1>7. CASE UNCHANGED vars
  BY <1>7 DEF Followed, State
<1> QED BY <1>1, <1>2, <1>3, <1>4, <1>5, <1>6, <1>7 DEF Next, SpeechEnds, WorkerStep

-----------------------------------------------------------------------------
(* The refinement: a step settles, speaks, switches, or does not show. *)

Kept == {"heard", "finished", "posted", "decoded", "submitted"}

\* Nothing that the abstract store tells apart.
LEMMA NothingShows ==
  ASSUME UNCHANGED <<heard, published, switches>>,
         \A u \in Utterances : fate[u] \in Kept <=> fate'[u] \in Kept
  PROVE  UNCHANGED Hand!vars
<1>1. Unsettled' = Unsettled
  BY DEF Unsettled, Kept
<1> QED BY <1>1 DEF Hand!vars

\* One is given up, or two are.
LEMMA IsGivenUp ==
  ASSUME UNCHANGED <<heard, published, switches>>, NEW lost \in SUBSET Utterances, lost # {},
         \A u \in lost : fate[u] \in Kept /\ fate'[u] \notin Kept,
         \A u \in Utterances \ lost : fate[u] \in Kept <=> fate'[u] \in Kept
  PROVE  Hand!Next
<1>1. Unsettled' = Unsettled \ lost /\ lost \subseteq Unsettled
  BY DEF Unsettled, Kept
<1>2. Hand!GiveUp(lost)
  BY <1>1 DEF Hand!GiveUp
<1> QED BY <1>1, <1>2 DEF Hand!Next

\* One is given up.
LEMMA OneGivenUp ==
  ASSUME UNCHANGED <<heard, published, switches>>, NEW u \in Utterances,
         fate[u] \in Kept, fate'[u] \notin Kept,
         \A v \in Utterances : v # u => fate'[v] = fate[v]
  PROVE  Hand!Next
<1> DEFINE lost == {u}
<1>1. /\ lost \in SUBSET Utterances /\ lost # {}
      /\ \A v \in lost : fate[v] \in Kept /\ fate'[v] \notin Kept
      /\ \A v \in Utterances \ lost : fate[v] \in Kept <=> fate'[v] \in Kept
  OBVIOUS
<1> HIDE DEF lost
<1> QED BY <1>1, IsGivenUp

\* A transcript is handed on or filtered away.
LEMMA IsPassed ==
  ASSUME Sound, NEW u \in Utterances, fate[u] \in Kept, Pass(u), UNCHANGED <<heard, switches>>,
         switches = 0 => \A i \in 1 .. Len(published) : published[i] < u
  PROVE  Hand!Next
<1>1. /\ fate'[u] \in {"published", "filtered"}
      /\ \A v \in Utterances : v # u => fate'[v] = fate[v]
      /\ published' = Append(published, u) \/ published' = published
  BY Passed
<1>2. CASE published' = published
  <2>1. fate'[u] \notin Kept
    BY <1>1 DEF Kept
  <2> QED BY <1>1, <1>2, <2>1, OneGivenUp
<1>3. CASE published' = Append(published, u)
  <2>1. Unsettled' = Unsettled \ {u} /\ u \in Unsettled
    BY <1>1 DEF Unsettled, Kept
  <2>2. ~(switches > 0) => switches = 0
    BY DEF Sound, TypeOK
  <2>3. Hand!HandOn(u)
    BY <1>3, <2>1, <2>2 DEF Hand!HandOn
  <2> QED BY <2>1, <2>3 DEF Hand!Next
<1> QED BY <1>1, <1>2, <1>3

\* Every step of the program.
LEMMA StepHanded ==
  ASSUME Sound, Ordered, [Next]_vars
  PROVE  [Hand!Next]_(Hand!vars)
<1> USE DEF vars, workerVars, settingVars, requestVars, historyVars
<1>1. CASE Begin
  <2>1. heard + 1 \in Utterances /\ heard \in Nat /\ heard' = heard + 1
    BY <1>1, Types DEF Begin, Utterances
  <2>2. fate'[heard + 1] = "heard" /\ \A v \in Utterances : v # heard + 1 => fate'[v] = fate[v]
    BY <1>1, <2>1, FateChanges DEF Begin, Fates
  <2>3. Unsettled' = Unsettled \cup {heard + 1}
    BY <2>1, <2>2 DEF Unsettled
  <2>4. Hand!Speak
    BY <1>1, <2>1, <2>3 DEF Begin, rest, Hand!Speak
  <2> QED BY <2>4 DEF Hand!Next
<1>2. CASE Disabled \/ Discard \/ Finish
  <2>1. heard \in Utterances /\ fate[heard] = "heard" /\ UNCHANGED <<heard, published, switches>>
    BY <1>2, Types DEF Disabled, Discard, Finish, Worker, rest, Sound, WorkerHas
  <2>2. /\ fate'[heard] \in {"dropped", "discarded", "finished"}
        /\ \A v \in Utterances : v # heard => fate'[v] = fate[v]
    BY <1>2, <2>1, FateChanges DEF Disabled, Discard, Finish, Fates
  <2>3. CASE fate'[heard] = "finished"
    BY <2>1, <2>2, <2>3, NothingShows DEF Kept
  <2>4. CASE fate'[heard] # "finished"
    <3>1. fate'[heard] \notin Kept /\ fate[heard] \in Kept
      BY <2>1, <2>2, <2>4 DEF Kept
    <3> QED BY <2>1, <2>2, <3>1, OneGivenUp
  <2> QED BY <2>3, <2>4
<1>3. CASE Choose \/ Decode \/ DecodeNothing
  <2>1. heard \in Utterances /\ fate[heard] = "finished" /\ UNCHANGED <<heard, published, switches>>
    BY <1>3, Types DEF Choose, Decode, DecodeNothing, Worker, rest, Sound, WorkerHas
  <2>2. CASE fate' = fate
    BY <2>1, <2>2, NothingShows
  <2>3. CASE Becomes(heard, "posted") \/ Becomes(heard, "decoded")
    <3>1. /\ fate'[heard] \in {"posted", "decoded"}
          /\ \A v \in Utterances : v # heard => fate'[v] = fate[v]
      BY <2>1, <2>3, FateChanges DEF Fates
    <3> QED BY <2>1, <3>1, NothingShows DEF Kept
  <2>4. CASE Becomes(heard, "undecoded")
    <3>1. /\ fate'[heard] = "undecoded" /\ \A v \in Utterances : v # heard => fate'[v] = fate[v]
      BY <2>1, <2>4, FateChanges DEF Fates
    <3>2. fate'[heard] \notin Kept /\ fate[heard] \in Kept
      BY <2>1, <3>1 DEF Kept
    <3> QED BY <2>1, <3>1, <3>2, OneGivenUp
  <2> QED BY <1>3, <2>2, <2>3, <2>4 DEF Choose, Decode, DecodeNothing
<1>4. CASE PostIdle \/ DeliverState \/ HttpAssign \/ Quit
  BY <1>4, NothingShows DEF PostIdle, rest, DeliverState, HttpAssign, Quit
<1>5. CASE DeliverText
  <2> DEFINE u == Head(queue).of
  <2>1. /\ queue # << >> /\ Head(queue).type = "text" /\ Pass(u) /\ UNCHANGED <<heard, switches>>
    BY <1>5 DEF DeliverText, Item
  <2>2. /\ u \in Utterances /\ fate[u] \in Waiting /\ Head(queue) = queue[1]
        /\ 1 \in 1 .. Len(queue)
    BY <2>1, HeadWaits
  <2>3. switches = 0 => \A i \in 1 .. Len(published) : published[i] < u
    BY <2>1, <2>2 DEF Ordered, Ascending
  <2>4. fate[u] \in Kept
    BY <2>2 DEF Waiting, Kept
  <2> QED BY <2>1, <2>2, <2>3, <2>4, IsPassed
<1>6. CASE Refuse
  <2> DEFINE u == Head(queue).of
  <2>1. u \in Utterances /\ fate[u] \in Waiting /\ UNCHANGED <<heard, published, switches>>
    BY <1>6, HeadWaits DEF Refuse, Item
  <2>2. fate'[u] = "skipped" /\ \A v \in Utterances : v # u => fate'[v] = fate[v]
    BY <1>6, <2>1, FateChanges DEF Refuse, Fates
  <2>3. fate'[u] \notin Kept /\ fate[u] \in Kept
    BY <2>1, <2>2 DEF Kept, Waiting
  <2> QED BY <2>1, <2>2, <2>3, OneGivenUp
<1>7. ASSUME NEW ok \in BOOLEAN, Submit(ok) PROVE [Hand!Next]_(Hand!vars)
  <2> DEFINE u == Head(queue).of
             lost == (IF awaited = 0 THEN {} ELSE {awaited}) \cup (IF ok THEN {} ELSE {u})
  <2>1. /\ u \in Utterances /\ fate[u] \in Waiting /\ u # awaited
        /\ fate'[u] = IF ok THEN "submitted" ELSE "failed"
        /\ \A v \in Utterances : v # u /\ v # awaited => fate'[v] = fate[v]
        /\ awaited # 0 => fate'[awaited] = "stale"
    BY <1>7, Submitted
  <2>2. awaited # 0 => awaited \in Utterances /\ fate[awaited] = "submitted"
    BY AwaitedIs
  <2>3. 0 \notin Utterances
    BY DEF Utterances
  <2>4. UNCHANGED <<heard, published, switches>>
    BY <1>7 DEF Submit
  <2> HIDE DEF u
  <2>5. /\ lost \in SUBSET Utterances
        /\ \A v \in lost : fate[v] \in Kept /\ fate'[v] \notin Kept
    BY <2>1, <2>2 DEF Kept, Waiting
  <2>6. \A v \in Utterances \ lost : fate[v] \in Kept <=> fate'[v] \in Kept
    <3> SUFFICES ASSUME NEW v \in Utterances, v \notin lost
                 PROVE  fate[v] \in Kept <=> fate'[v] \in Kept
      OBVIOUS
    <3>1. CASE v = u
      BY <2>1, <3>1 DEF Kept, Waiting
    <3>2. CASE v # u
      BY <2>1, <2>3, <3>2
    <3> QED BY <3>1, <3>2
  <2> HIDE DEF lost
  <2>7. CASE lost = {}
    BY <2>4, <2>6, <2>7, NothingShows
  <2>8. CASE lost # {}
    BY <2>4, <2>5, <2>6, <2>8, IsGivenUp
  <2> QED BY <2>7, <2>8
<1>8. CASE Transcript
  <2>1. awaited \in Utterances /\ fate[awaited] = "submitted" /\ awaited # 0
    BY <1>8, AwaitedIs DEF Transcript
  <2>2. switches = 0 => \A i \in 1 .. Len(published) : published[i] < awaited
    BY <2>1 DEF Ordered, Ascending
  <2> QED BY <1>8, <2>1, <2>2, IsPassed DEF Transcript, Kept
<1>9. CASE NoAnswer \/ ServerError
  <2>1. awaited \in Utterances /\ fate[awaited] = "submitted"
        /\ UNCHANGED <<heard, published, switches>>
    BY <1>9, AwaitedIs DEF NoAnswer, ServerError
  <2>2. fate'[awaited] = "failed" /\ \A v \in Utterances : v # awaited => fate'[v] = fate[v]
    BY <1>9, <2>1, FateChanges DEF NoAnswer, ServerError, Fates
  <2>3. fate'[awaited] \notin Kept /\ fate[awaited] \in Kept
    BY <2>1, <2>2 DEF Kept
  <2> QED BY <2>1, <2>2, <2>3, OneGivenUp
<1>10. ASSUME NEW b \in Backends, HttpBegin(b) PROVE [Hand!Next]_(Hand!vars)
  <2>1. switches' = switches + 1 /\ switches \in Nat /\ UNCHANGED <<heard, published, fate>>
    BY <1>10 DEF HttpBegin, Sound, TypeOK
  <2>2. (switches' > 0) = TRUE
    BY <2>1
  <2>3. Unsettled' = Unsettled
    BY <2>1 DEF Unsettled
  <2>4. Hand!Switch
    BY <2>1, <2>2, <2>3 DEF Hand!Switch
  <2> QED BY <2>4 DEF Hand!Next
<1>11. CASE HttpSwitch
  <2>1. /\ \A v \in Utterances : v # awaited => fate'[v] = fate[v]
        /\ fate' = fate \/ (awaited # 0 => fate'[awaited] = "stale")
        /\ UNCHANGED <<heard, published, switches>>
    BY <1>11, Switched DEF HttpSwitch
  <2>2. CASE fate' = fate \/ awaited = 0
    BY <2>1, <2>2, NothingShows DEF Utterances
  <2>3. CASE awaited # 0 /\ fate'[awaited] = "stale"
    <3>1. awaited \in Utterances /\ fate[awaited] = "submitted"
      BY <2>3, AwaitedIs
    <3>2. fate'[awaited] \notin Kept /\ fate[awaited] \in Kept
      BY <2>3, <3>1 DEF Kept
    <3> QED BY <2>1, <3>1, <3>2, OneGivenUp
  <2> QED BY <2>1, <2>2, <2>3
<1>12. CASE UNCHANGED vars
  BY <1>12, NothingShows
<1> QED BY <1>1, <1>2, <1>3, <1>4, <1>5, <1>6, <1>7, <1>8, <1>9, <1>10, <1>11, <1>12
        DEF Next, SpeechEnds, WorkerStep, MainStep, ServerStep, HttpStep

-----------------------------------------------------------------------------
(* The theorems. *)

\* The program starts so.
LEMMA InitSound == Init => Sound /\ Ordered /\ Followed
<1> SUFFICES ASSUME Init PROVE Sound /\ Ordered /\ Followed
  OBVIOUS
<1>1. TypeOK
  BY DeliveryAssumption DEF Init, TypeOK, States, Fates, Backends
<1>2. WorkerHas /\ Born /\ AtServer
  BY DEF Init, WorkerHas, Born, AtServer, Utterances
<1>3. Queued(queue, fate) /\ Delivered /\ NoText(queue) /\ Ascending(queue, awaited, published)
  BY DEF Init, Queued, Delivered, NoText, Ascending, Waiting
<1> QED BY <1>1, <1>2, <1>3 DEF Init, Sound, Ordered, Followed

\* And it stays so.
LEMMA SoundHolds == Spec => [](Sound /\ Ordered /\ Followed)
<1>1. Sound /\ Ordered /\ Followed /\ [Next]_vars => (Sound /\ Ordered /\ Followed)'
  BY StepType, StepWorker, StepBorn, StepServer, StepQueued, StepDelivered, StepOrdered,
     StepFollowed DEF Sound
<1> QED BY InitSound, <1>1, PTL DEF Spec

\* Every variable keeps its type.
THEOREM TypeCorrect == Spec => []TypeOK
<1>1. Sound => TypeOK
  BY DEF Sound
<1> QED BY <1>1, SoundHolds, PTL

\* Each utterance that was begun is with the worker, in the queue of the main loop, at
\* the server, or settled, and in one of these places only, however often the HTTP
\* thread switches the backend between whisper_stt.c's hand-over and main.c's callbacks.
THEOREM UtterancesAreInOnePlace == Spec => []OnePlace
<1>1. ASSUME Sound PROVE OnePlace
  <2>1. DOMAIN queue = 1 .. Len(queue) /\ \A i \in 1 .. Len(queue) : queue[i] \in Items
    BY <1>1, Types
  <2>2. ASSUME NEW u \in Utterances, NEW places,
               places = {i \in DOMAIN queue : queue[i] \in {Text(u), Request(u)}}
        PROVE  /\ fate[u] \notin Waiting => places = {}
               /\ fate[u] \in Waiting => \E i \in DOMAIN queue : places = {i}
    <3>1. \A i \in 1 .. Len(queue) : i \in places <=> queue[i].type # "state" /\ queue[i].of = u
      BY <2>1, <2>2, ItemIs
    <3>2. places \subseteq 1 .. Len(queue)
      BY <2>1, <2>2
    <3>3. CASE fate[u] \notin Waiting
      BY <1>1, <3>1, <3>2, <3>3 DEF Sound, Queued
    <3>4. CASE fate[u] \in Waiting
      <4>1. PICK i \in 1 .. Len(queue) : queue[i].type # "state" /\ queue[i].of = u
        BY <1>1, <3>4 DEF Sound, Queued
      <4>2. \A j \in places : j = i
        BY <1>1, <3>1, <3>2, <4>1 DEF Sound, Queued
      <4> QED BY <2>1, <3>1, <3>4, <4>1, <4>2
    <3> QED BY <3>3, <3>4
  <2>3. ASSUME NEW u \in Utterances
        PROVE  /\ fate[u] = "unborn" => u > heard
               /\ fate[u] # "unborn" => u <= heard
               /\ fate[u] \in {"heard", "finished"} =>
                    u = heard /\ wpc \in {"speech", "choose", "decode"}
               /\ fate[u] = "submitted" <=> awaited = u
    BY <1>1, Types DEF Sound, WorkerHas, Born, AtServer, Utterances
  <2> QED BY <2>2, <2>3 DEF OnePlace, Waiting
<1> QED BY <1>1, SoundHolds, PTL

\* whisper_stt.h promises the callback once per finished utterance: no transcript is
\* handed on twice, and those of an unchanged backend come in the order of speech.
THEOREM UtterancesAreHandedOnOnce == Spec => []OncePerUtterance
<1>1. ASSUME Sound, Ordered PROVE OncePerUtterance
  <2>1. DOMAIN published = 1 .. Len(published)
    BY <1>1, Types
  <2> QED BY <1>1, <2>1 DEF Sound, Delivered, Ordered, Ascending, OncePerUtterance
<1> QED BY <1>1, SoundHolds, PTL

\* However the worker's states, the main loop's and the HTTP thread's come between one
\* another in stt.state, what is left when all is handed over is not that the engine is
\* at work.
THEOREM StateIsLeftSettled == Spec => []StateSettles
<1>1. ASSUME Sound, Followed PROVE StateSettles
  BY <1>1, Types DEF Followed, StateSettles
<1> QED BY <1>1, SoundHolds, PTL
\* The engine's callbacks promise once per utterance, and what became of one is final: the
\* worker, the main loop, the server and the switches of the backend implement a hand-over
\* in which each utterance that was spoken is handed on or given up, and then is settled.
THEOREM DeliveryImplementsHandover == Spec => ImplementsHandover
<1>1. Init => Hand!Init
  <2> SUFFICES ASSUME Init PROVE Hand!Init
    OBVIOUS
  <2>1. Unsettled = {}
    BY DEF Init, Unsettled
  <2>2. heard = 0 /\ published = << >> /\ (switches > 0) = FALSE
    BY DEF Init
  <2> QED BY <2>1, <2>2 DEF Hand!Init
<1>2. Sound /\ Ordered /\ [Next]_vars => [Hand!Next]_(Hand!vars)
  BY StepHanded
<1> QED BY <1>1, <1>2, SoundHolds, PTL DEF Spec, ImplementsHandover, Hand!Spec
=============================================================================
