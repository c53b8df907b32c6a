----------------------- MODULE TranscriptHistoryProofs -----------------------
(***************************************************************************)
(* Proofs about TranscriptHistory for every array size: the circular array *)
(* implements the log of BoundedLog, and what is published was recorded.   *)
(***************************************************************************)
EXTENDS TranscriptHistory, SequenceTheorems, TLAPS

\* Until the array is full it fills from the first slot on.
CursorInv == count < Size => next = count

\* While the main thread publishes an entry, that entry is the newest one in
\* the array (unless it was cleared), and the last one handed to MQTT is older.
PublishInv ==
  /\ mpc = "down" => count = 0
  /\ mpc \notin {"idle", "down"} =>
       /\ mqtt.id < entry.id
       /\ count # 0 => slots[SlotBehind(1)] = entry
  /\ mqtt.id <= entry.id

IInv == CursorInv /\ PublishInv

-----------------------------------------------------------------------------
(* Positions in the circular array. *)

\* One round is taken off, when there is one.
LEMMA WrapOnce ==
  ASSUME NEW x \in 0 .. 2 * Size - 1
  PROVE  x % Size = IF x < Size THEN x ELSE x - Size
<1>1. Size \in Nat /\ Size > 0
  BY HistoryAssumption
<1>2. CASE x < Size
  BY <1>1, <1>2
<1>3. CASE ~(x < Size)
  <2>1. PICK y \in 0 .. Size - 1 : x = Size + y
    <3>1. x - Size \in 0 .. Size - 1 /\ x = Size + (x - Size)
      BY <1>1, <1>3
    <3> QED BY <3>1
  <2>2. (Size + y) % Size = y
    BY <1>1
  <2> QED BY <1>1, <1>3, <2>1, <2>2
<1> QED BY <1>2, <1>3

\* A remainder is a slot of the array.
LEMMA WrapIsSlot == \A x \in Int : x % Size \in Slots
  BY HistoryAssumption DEF Slots

-----------------------------------------------------------------------------
(* Type correctness. *)

\* No step of either thread breaks the types.
LEMMA NextTypeOK ==
  ASSUME TypeOK, [Next]_vars
  PROVE  TypeOK'
<1> USE HistoryAssumption
<1>1. ASSUME NEW ignored \in BOOLEAN, HistoryAppend(ignored) PROVE TypeOK'
  <2> DEFINE e == [id |-> entry.id + 1, ignored |-> ignored]
  <2>1. entry.id \in Nat
    BY DEF TypeOK, Entries, Blank
  <2>2. e \in Entries
    BY <1>1, <2>1 DEF HistoryAppend, Entries
  <2>3. slots' \in [Slots -> Entries \cup {Blank}]
    BY <1>1, <2>2 DEF HistoryAppend, TypeOK
  <2>4. count' \in 0 .. Size
    BY <1>1 DEF HistoryAppend, CountAfterAppend, TypeOK
  <2>5. next' \in Slots
    <3>1. next + 1 \in Int
      BY DEF TypeOK, Slots
    <3>2. (next + 1) % Size \in Slots
      BY <3>1, WrapIsSlot
    <3> QED BY <1>1, <3>2 DEF HistoryAppend
  <2>6. raced' \in BOOLEAN
    BY <1>1 DEF HistoryAppend, TypeOK
  <2>7. entry' \in Entries \cup {Blank}
    BY <1>1, <2>2 DEF HistoryAppend
  <2> HIDE DEF e
  <2> QED BY <1>1, <2>3, <2>4, <2>5, <2>6, <2>7 DEF HistoryAppend, TypeOK, httpVars
<1>2. CASE SetLastTranscript
  <2>1. entry.id \in Nat
    BY DEF TypeOK, Entries, Blank
  <2> QED BY <1>2, <2>1 DEF SetLastTranscript, TypeOK, historyVars, httpVars
<1>3. CASE SetLastLanguage
  <2>1. entry.id \in Nat
    BY DEF TypeOK, Entries, Blank
  <2> QED BY <1>3, <2>1 DEF SetLastLanguage, TypeOK, historyVars, httpVars
<1>4. CASE LoadCount
  BY <1>4 DEF LoadCount, TypeOK, historyVars, httpVars
<1>5. CASE StoreCount
  BY <1>5 DEF StoreCount, TypeOK, historyVars, httpVars
<1>6. CASE ShowCount
  BY <1>6 DEF ShowCount, TypeOK, historyVars, httpVars
<1>7. CASE Publish
  BY <1>7 DEF Publish, TypeOK, historyVars, httpVars
<1>8. CASE Shutdown
  BY <1>8 DEF Shutdown, ClearArray, Slots, TypeOK, httpVars
<1>9. CASE Get
  <2>1. \A i \in 1 .. count : SlotBehind(i) \in Slots
    <3>1. \A i \in 1 .. count : next + Size - i \in Int
      BY DEF TypeOK, Slots
    <3> QED BY <3>1, WrapIsSlot DEF SlotBehind
  <2>2. response' \in Seq(Entries \cup {Blank})
    <3>1. \A i \in 1 .. count : slots[SlotBehind(i)] \in Entries \cup {Blank}
      BY <2>1 DEF TypeOK
    <3>2. count \in Nat
      BY DEF TypeOK
    <3> DEFINE r == [i \in 1 .. count |-> slots[SlotBehind(i)]]
    <3>3. r \in [1 .. count -> Entries \cup {Blank}]
      BY <3>1
    <3> HIDE DEF r
    <3>4. r \in Seq(Entries \cup {Blank})
      BY <3>2, <3>3
    <3> QED BY <1>9, <3>4 DEF Get, r
  <2> QED BY <1>9, <2>2 DEF Get, TypeOK, historyVars, mainVars
<1>10. CASE HistoryClear
  BY <1>10 DEF HistoryClear, ClearArray, Slots, TypeOK, mainVars
<1>11. CASE ResetCount
  BY <1>11 DEF ResetCount, TypeOK, historyVars, mainVars
<1>12. CASE ResetLastTranscript \/ ResetLastLanguage \/ ResetShownCount
  <2>1. /\ status' \in [last_transcript : Nat, last_language : Nat, count : Nat]
        /\ hpc' \in {"idle", "reset_language", "reset_shown"}
    BY <1>12 DEF ResetLastTranscript, ResetLastLanguage, ResetShownCount,
       ResetStatus, TypeOK, NoText
  <2> QED BY <1>12, <2>1 DEF ResetLastTranscript, ResetLastLanguage,
       ResetShownCount, ResetStatus, TypeOK, historyVars, mainVars
<1>13. CASE UNCHANGED vars
  BY <1>13 DEF vars, TypeOK, historyVars, mainVars, httpVars
<1> QED BY <1>1, <1>2, <1>3, <1>4, <1>5, <1>6, <1>7, <1>8, <1>9, <1>10, <1>11,
  <1>12, <1>13 DEF Next

\* Every variable keeps its type: the cursor and the count of valid entries
\* stay inside the array.
THEOREM TypeCorrect == Spec => []TypeOK
<1>1. ASSUME Init PROVE TypeOK
  <2>1. slots \in [Slots -> Entries \cup {Blank}]
    BY <1>1 DEF Init
  <2>2. count \in 0 .. Size /\ next \in Slots
    BY <1>1, HistoryAssumption DEF Init, Slots
  <2>3. status \in [last_transcript : Nat, last_language : Nat, count : Nat]
    BY <1>1 DEF Init, NoText
  <2>4. response \in Seq(Entries \cup {Blank})
    BY <1>1, EmptySeq DEF Init
  <2> QED BY <1>1, <2>1, <2>2, <2>3, <2>4 DEF Init, TypeOK
<1> QED BY <1>1, NextTypeOK, PTL DEF Spec

-----------------------------------------------------------------------------
(* The inductive invariant. *)

\* The slot just below the cursor after an append is the one written.
LEMMA NewestIsAppended ==
  ASSUME NEW n \in Slots
  PROVE  (((n + 1) % Size) + Size - 1) % Size = n
<1>1. Size \in Nat /\ Size > 0 /\ n \in 0 .. Size - 1
  BY HistoryAssumption DEF Slots
<1>2. (n + 1) % Size = IF n + 1 < Size THEN n + 1 ELSE n + 1 - Size
  BY <1>1, WrapOnce
<1>3. CASE n + 1 < Size
  <2>1. ((n + 1) % Size) + Size - 1 = n + Size /\ n + Size \in 0 .. 2 * Size - 1
    BY <1>1, <1>2, <1>3
  <2>2. (n + Size) % Size = n
    BY <1>1, <2>1, WrapOnce
  <2> QED BY <2>1, <2>2
<1>4. CASE ~(n + 1 < Size)
  <2>1. ((n + 1) % Size) + Size - 1 = n /\ n \in 0 .. 2 * Size - 1 /\ n < Size
    BY <1>1, <1>2, <1>4
  <2>2. n % Size = n
    BY <2>1, WrapOnce
  <2> QED BY <2>1, <2>2
<1> QED BY <1>3, <1>4

\* No step lets the cursor and the count of a partly filled array part.
LEMMA NextCursorInv ==
  ASSUME TypeOK, CursorInv, [Next]_vars
  PROVE  CursorInv'
<1> USE HistoryAssumption
<1>1. ASSUME NEW ignored \in BOOLEAN, HistoryAppend(ignored) PROVE CursorInv'
  <2>1. next' = (next + 1) % Size /\ count' = CountAfterAppend
    BY <1>1 DEF HistoryAppend
  <2>2. (next + 1) % Size = IF next + 1 < Size THEN next + 1 ELSE next + 1 - Size
    <3>1. next \in Nat /\ Size \in Nat /\ next + 1 \in 0 .. 2 * Size - 1
      BY DEF TypeOK, Slots
    <3> QED BY <3>1, WrapOnce
  <2>3. next' = IF next + 1 < Size THEN next + 1 ELSE next + 1 - Size
    BY <2>1, <2>2
  <2> QED BY <2>1, <2>3 DEF CursorInv, CountAfterAppend, TypeOK, Slots
<1>2. CASE HistoryClear \/ Shutdown
  BY <1>2 DEF HistoryClear, Shutdown, ClearArray, CursorInv
<1>3. CASE UNCHANGED historyVars
  BY <1>3 DEF historyVars, CursorInv
<1>4. CASE \/ SetLastTranscript \/ SetLastLanguage \/ LoadCount \/ StoreCount
           \/ ShowCount \/ Publish \/ Get \/ ResetCount \/ ResetLastTranscript
           \/ ResetLastLanguage \/ ResetShownCount \/ UNCHANGED vars
  BY <1>3, <1>4 DEF SetLastTranscript, SetLastLanguage, LoadCount, StoreCount,
     ShowCount, Publish, Get, ResetCount, ResetLastTranscript, ResetLastLanguage,
     ResetShownCount, ResetStatus, vars
<1> QED BY <1>1, <1>2, <1>4 DEF Next

\* No step of either thread puts another entry in front of the one that is
\* being published.
LEMMA NextPublishInv ==
  ASSUME TypeOK, IInv, [Next]_vars
  PROVE  PublishInv'
<1> USE HistoryAssumption DEF IInv
<1>0. entry.id \in Nat /\ mqtt.id \in Nat
  BY DEF TypeOK, Entries, Blank
<1>1. ASSUME NEW ignored \in BOOLEAN, HistoryAppend(ignored) PROVE PublishInv'
  <2>1. mqtt' = mqtt /\ mpc' = "last_transcript" /\ entry'.id = entry.id + 1
    BY <1>1 DEF HistoryAppend
  <2>2. next' = (next + 1) % Size /\ slots' = [slots EXCEPT ![next] = entry']
    BY <1>1 DEF HistoryAppend
  <2>3. SlotBehind(1)' = next
    BY <2>2, NewestIsAppended DEF SlotBehind, TypeOK
  <2>4. slots'[next] = entry'
    BY <2>2 DEF TypeOK
  <2>5. mqtt.id < entry.id + 1
    BY <1>0 DEF PublishInv
  <2> QED BY <1>0, <2>1, <2>3, <2>4, <2>5 DEF PublishInv
<1>2. CASE Shutdown
  BY <1>2 DEF Shutdown, ClearArray, PublishInv
<1>3. CASE HistoryClear
  BY <1>3 DEF HistoryClear, ClearArray, PublishInv, mainVars
<1>4. CASE Publish
  <2>1. mqtt' \in {mqtt, entry} /\ mpc' = "idle" /\ entry' = entry
    BY <1>4 DEF Publish
  <2> QED BY <1>0, <2>1 DEF PublishInv
<1>5. CASE SetLastTranscript \/ SetLastLanguage \/ LoadCount \/ StoreCount \/ ShowCount
  <2>1. /\ mpc \notin {"idle", "down"} /\ mpc' \notin {"idle", "down"}
        /\ UNCHANGED <<mqtt, entry, slots, count, next>>
    BY <1>5 DEF SetLastTranscript, SetLastLanguage, LoadCount, StoreCount,
       ShowCount, historyVars
  <2> QED BY <2>1 DEF PublishInv, SlotBehind
<1>6. CASE \/ Get \/ ResetCount \/ ResetLastTranscript \/ ResetLastLanguage
           \/ ResetShownCount \/ UNCHANGED vars
  <2>1. UNCHANGED <<mpc, mqtt, entry, slots, count, next>>
    BY <1>6 DEF Get, ResetCount, ResetLastTranscript, ResetLastLanguage,
       ResetShownCount, ResetStatus, vars, historyVars, mainVars
  <2> QED BY <2>1 DEF PublishInv, SlotBehind
<1> QED BY <1>1, <1>2, <1>3, <1>4, <1>5, <1>6 DEF Next

\* Both hold in every reachable state.
LEMMA IInvHolds == Spec => []IInv
<1>1. Init => IInv
  BY HistoryAssumption DEF Init, IInv, CursorInv, PublishInv, Blank
<1>2. TypeOK /\ IInv /\ [Next]_vars => IInv'
  BY NextCursorInv, NextPublishInv DEF IInv
<1> QED BY <1>1, <1>2, TypeCorrect, PTL DEF Spec

-----------------------------------------------------------------------------
(* The counters. *)

AtMostSize(n) == IF n < Size THEN n ELSE Size

Publishing == mpc \notin {"idle", "down"}

NewestShown ==
  /\ status.last_transcript = (IF count = 0 THEN NoText ELSE slots[SlotBehind(1)].id)
  /\ status.last_language = status.last_transcript

\* What is there already at each place of a publication, and of a DELETE.
PublicationCounted ==
  /\ count = AtMostSize(IF mpc \in {"show_count", "publish"} THEN transcript_count
                                                           ELSE transcript_count + 1)
  /\ count # 0
  /\ status.count = transcript_count \/ mpc = "show_count"
  /\ mpc # "last_transcript" => status.last_transcript = entry.id
  /\ mpc \notin {"last_transcript", "last_language"} => status.last_language = entry.id
  /\ mpc = "store" => incremented = transcript_count + 1
  /\ mpc = "show_count" => incremented = transcript_count

DeleteCounted ==
  /\ count = 0
  /\ hpc # "reset_count" => transcript_count = 0
  /\ hpc \in {"reset_language", "reset_shown"} => status.last_transcript = NoText
  /\ hpc = "reset_shown" => status.last_language = NoText

CountInv ==
  ~raced /\ mpc # "down" =>
    /\ Publishing => hpc = "idle" /\ PublicationCounted
    /\ hpc # "idle" => DeleteCounted
    /\ Quiet => /\ status.count = transcript_count
                /\ count = AtMostSize(transcript_count)
                /\ NewestShown

\* Each step of a publication or a DELETE keeps the counters in step, as long as the
\* two do not overlap.
LEMMA NextCountInv ==
  ASSUME TypeOK, IInv, CountInv, [Next]_vars
  PROVE  CountInv'
<1> USE HistoryAssumption
<1>0. /\ transcript_count \in Nat /\ count \in 0 .. Size
      /\ status \in [last_transcript : Nat, last_language : Nat, count : Nat]
  BY DEF TypeOK
<1> SUFFICES ASSUME ~raced', mpc' # "down" PROVE CountInv'
  BY DEF CountInv
<1>1. ASSUME NEW ignored \in BOOLEAN, HistoryAppend(ignored) PROVE CountInv'
  <2>1. /\ mpc = "idle" /\ hpc = "idle" /\ ~raced /\ mpc' = "last_transcript" /\ hpc' = "idle"
        /\ count' = CountAfterAppend /\ UNCHANGED <<transcript_count, status>>
    BY <1>1 DEF HistoryAppend, httpVars
  <2>2. status.count = transcript_count /\ count = AtMostSize(transcript_count)
    BY <2>1 DEF CountInv, Quiet
  <2>3. count' = AtMostSize(transcript_count + 1) /\ count' # 0
    BY <1>0, <2>1, <2>2 DEF CountAfterAppend, AtMostSize
  <2> QED BY <2>1, <2>2, <2>3 DEF CountInv, Publishing, PublicationCounted, AtMostSize, Quiet
<1>2. CASE SetLastTranscript \/ SetLastLanguage
  <2>1. /\ mpc \in {"last_transcript", "last_language"} /\ hpc' = hpc /\ count' = count
        /\ mpc' = (IF mpc = "last_transcript" THEN "last_language" ELSE "load")
        /\ UNCHANGED <<transcript_count, raced, entry>>
    BY <1>2 DEF SetLastTranscript, SetLastLanguage, historyVars, httpVars
  <2>2. /\ status'.count = status.count
        /\ mpc = "last_transcript" => status'.last_transcript = entry.id
        /\ mpc = "last_language" => status'.last_transcript = status.last_transcript
                                    /\ status'.last_language = entry.id
    BY <1>0, <1>2 DEF SetLastTranscript, SetLastLanguage
  <2>3. hpc = "idle" /\ PublicationCounted
    BY <2>1 DEF CountInv, Publishing
  <2>4. PublicationCounted'
    BY <2>1, <2>2, <2>3 DEF PublicationCounted, AtMostSize
  <2> QED BY <2>1, <2>3, <2>4 DEF CountInv, Quiet
<1>3. CASE LoadCount
  <2>1. /\ mpc = "load" /\ mpc' = "store" /\ incremented' = transcript_count + 1
        /\ UNCHANGED <<transcript_count, raced, entry, status, count, hpc>>
    BY <1>3 DEF LoadCount, historyVars, httpVars
  <2>2. hpc = "idle" /\ PublicationCounted
    BY <2>1 DEF CountInv, Publishing
  <2>3. PublicationCounted'
    BY <2>1, <2>2 DEF PublicationCounted, AtMostSize
  <2> QED BY <2>1, <2>2, <2>3 DEF CountInv, Quiet
<1>4. CASE StoreCount
  <2>1. /\ mpc = "store" /\ mpc' = "show_count" /\ transcript_count' = incremented
        /\ UNCHANGED <<incremented, raced, entry, status, count, hpc>>
    BY <1>4 DEF StoreCount, historyVars, httpVars
  <2>2. hpc = "idle" /\ PublicationCounted
    BY <2>1 DEF CountInv, Publishing
  <2>3. PublicationCounted'
    BY <2>1, <2>2 DEF PublicationCounted, AtMostSize
  <2> QED BY <2>1, <2>2, <2>3 DEF CountInv, Quiet
<1>5. CASE ShowCount
  <2>1. /\ mpc = "show_count" /\ mpc' = "publish"
        /\ status' = [status EXCEPT !.count = incremented]
        /\ UNCHANGED <<transcript_count, incremented, raced, entry, count, hpc>>
    BY <1>5 DEF ShowCount, historyVars, httpVars
  <2>2. hpc = "idle" /\ PublicationCounted
    BY <2>1 DEF CountInv, Publishing
  <2>3. /\ status'.count = incremented /\ status'.last_transcript = status.last_transcript
        /\ status'.last_language = status.last_language
    BY <1>0, <2>1
  <2>4. PublicationCounted'
    BY <2>1, <2>2, <2>3 DEF PublicationCounted, AtMostSize
  <2> QED BY <2>1, <2>2, <2>4 DEF CountInv, Quiet
<1>6. CASE Publish
  <2>1. /\ mpc = "publish" /\ mpc' = "idle"
        /\ UNCHANGED <<transcript_count, raced, entry, status, slots, count, next, hpc>>
    BY <1>6 DEF Publish, historyVars, httpVars
  <2>2. hpc = "idle" /\ PublicationCounted
    BY <2>1 DEF CountInv, Publishing
  <2>3. slots[SlotBehind(1)] = entry
    BY <2>1, <2>2 DEF IInv, PublishInv, PublicationCounted
  <2>4. NewestShown
    BY <2>1, <2>2, <2>3 DEF PublicationCounted, NewestShown
  <2>5. NewestShown'
    BY <2>1, <2>4 DEF NewestShown, SlotBehind
  <2> QED BY <2>1, <2>2, <2>5 DEF CountInv, Publishing, PublicationCounted, AtMostSize, Quiet
<1>7. CASE HistoryClear
  <2>1. /\ hpc' = "reset_count" /\ mpc = "idle" /\ mpc' = "idle" /\ count' = 0
    BY <1>7 DEF HistoryClear, ClearArray, mainVars
  <2> QED BY <2>1 DEF CountInv, Publishing, DeleteCounted, Quiet
<1>8. CASE ResetCount \/ ResetLastTranscript \/ ResetLastLanguage \/ ResetShownCount
  <2>1. hpc # "idle" /\ UNCHANGED <<mpc, raced, slots, count, next>>
    BY <1>8 DEF ResetCount, ResetLastTranscript, ResetLastLanguage, ResetShownCount,
                ResetStatus, historyVars, mainVars
  <2>2. DeleteCounted /\ ~Publishing /\ mpc = "idle"
    BY <2>1 DEF CountInv, Publishing
  <2>3. CASE ResetCount
    BY <2>1, <2>2, <2>3 DEF ResetCount, CountInv, Publishing, DeleteCounted, Quiet
  <2>4. CASE ResetLastTranscript
    BY <1>0, <2>1, <2>2, <2>4
       DEF ResetLastTranscript, ResetStatus, CountInv, Publishing, DeleteCounted, Quiet
  <2>5. CASE ResetLastLanguage
    BY <1>0, <2>1, <2>2, <2>5
       DEF ResetLastLanguage, ResetStatus, CountInv, Publishing, DeleteCounted, Quiet
  <2>6. CASE ResetShownCount
    <3>1. /\ hpc = "reset_shown" /\ transcript_count' = 0 /\ count' = 0
          /\ status'.count = 0 /\ status'.last_transcript = NoText
          /\ status'.last_language = NoText
      BY <1>0, <2>1, <2>2, <2>6 DEF ResetShownCount, ResetStatus, DeleteCounted
    <3> QED BY <2>1, <2>2, <3>1, <2>6
        DEF ResetShownCount, ResetStatus, CountInv, Publishing, NewestShown, AtMostSize
  <2> QED BY <1>8, <2>3, <2>4, <2>5, <2>6
<1>9. CASE Get \/ UNCHANGED vars
  <2>1. UNCHANGED <<mpc, hpc, raced, slots, count, next, transcript_count, status, entry,
                    incremented>>
    BY <1>9 DEF Get, vars, historyVars, mainVars, httpVars
  <2> QED BY <2>1 DEF CountInv, Publishing, PublicationCounted, DeleteCounted, Quiet,
                      NewestShown, AtMostSize, SlotBehind
<1>10. CASE Shutdown
  BY <1>10 DEF Shutdown
<1> QED BY <1>1, <1>2, <1>3, <1>4, <1>5, <1>6, <1>7, <1>8, <1>9, <1>10 DEF Next

\* Until a DELETE meets a publication, and after the next that meets none, the counter, the
\* count in the status and the history agree between calls, and the status shows the newest
\* entry.
THEOREM CountersAgree == Spec => []CountsAgree
<1>1. Init => CountInv
  BY HistoryAssumption DEF Init, CountInv, Publishing, Quiet, NewestShown, AtMostSize
<1>2. CountInv => CountsAgree
  BY DEF CountInv, CountsAgree, Quiet, NewestShown, AtMostSize
<1> QED BY <1>1, <1>2, NextCountInv, IInvHolds, TypeCorrect, PTL DEF Spec

-----------------------------------------------------------------------------
\* A subscriber that looks for a transcript in the history finds it there; no
\* transcript goes out twice, late, or although it is ignored.
THEOREM PublishedWasRecorded == Spec => PublishedIsRecorded
<1> DEFINE P == mqtt' # mqtt => /\ ~mqtt'.ignored
                                /\ mqtt'.id > mqtt.id
                                /\ count # 0 => slots[SlotBehind(1)] = mqtt'
<1>1. TypeOK /\ IInv /\ [Next]_vars => [P]_vars
  <2> SUFFICES ASSUME TypeOK, IInv, Next, mqtt' # mqtt PROVE P
    BY DEF vars
  <2>1. Publish
    BY DEF Next, HistoryAppend, SetLastTranscript, SetLastLanguage, LoadCount,
       StoreCount, ShowCount, Shutdown, Get, HistoryClear, ResetCount,
       ResetLastTranscript, ResetLastLanguage, ResetShownCount, ResetStatus
  <2>2. mpc = "publish" /\ ~entry.ignored /\ mqtt' = entry
    BY <2>1 DEF Publish
  <2>3. mqtt.id < entry.id /\ (count # 0 => slots[SlotBehind(1)] = entry)
    BY <2>2 DEF IInv, PublishInv
  <2>4. entry.id \in Nat /\ mqtt.id \in Nat
    BY DEF TypeOK, Entries, Blank
  <2> QED BY <2>2, <2>3, <2>4
<1> QED BY <1>1, TypeCorrect, IInvHolds, PTL DEF Spec, PublishedIsRecorded

-----------------------------------------------------------------------------
(* The array implements the log. *)

\* Where the i-th oldest entry is: from the first slot on until the array is
\* full, from the cursor on after that.
LEMMA OldestSlot ==
  ASSUME NEW n \in Slots, NEW c \in 0 .. Size, c < Size => n = c,
         NEW i \in 1 .. c
  PROVE  (n + Size - c + i - 1) % Size =
           IF c < Size THEN i - 1
           ELSE IF n + i - 1 < Size THEN n + i - 1
           ELSE n + i - 1 - Size
<1>1. Size \in Nat /\ Size > 0 /\ i \in Int /\ n \in 0 .. Size - 1
  BY HistoryAssumption DEF Slots
<1>2. CASE c < Size
  <2>1. /\ n + Size - c + i - 1 = Size + i - 1
        /\ Size + i - 1 \in 0 .. 2 * Size - 1 /\ ~(Size + i - 1 < Size)
    BY <1>1, <1>2
  <2>2. (Size + i - 1) % Size = i - 1
    BY <1>1, <2>1, WrapOnce
  <2> QED BY <1>2, <2>1, <2>2
<1>3. CASE ~(c < Size)
  <2>1. n + Size - c + i - 1 = n + i - 1 /\ n + i - 1 \in 0 .. 2 * Size - 1
    BY <1>1, <1>3
  <2>2. (n + i - 1) % Size = IF n + i - 1 < Size THEN n + i - 1
                             ELSE n + i - 1 - Size
    BY <1>1, <2>1, WrapOnce
  <2>3. (n + Size - c + i - 1) % Size = (n + i - 1) % Size
    BY <2>1
  <2> QED BY <1>3, <2>2, <2>3
<1> QED BY <1>2, <1>3

\* The log as a sequence of entries.
LEMMA LogLength ==
  ASSUME TypeOK
  PROVE  OldestFirst \in Seq(Entries \cup {Blank}) /\ Len(OldestFirst) = count
<1>1. \A i \in 1 .. count : slots[(next + Size - count + i - 1) % Size]
                              \in Entries \cup {Blank}
  <2> TAKE i \in 1 .. count
  <2>1. next + Size - count + i - 1 \in Int
    BY HistoryAssumption DEF TypeOK, Slots
  <2>2. (next + Size - count + i - 1) % Size \in Slots
    BY <2>1, WrapIsSlot
  <2> QED BY <2>2 DEF TypeOK
<1>2. count \in Nat
  BY DEF TypeOK
<1>3. OldestFirst \in [1 .. count -> Entries \cup {Blank}]
  BY <1>1 DEF OldestFirst
<1>4. DOMAIN OldestFirst = 1 .. count
  BY DEF OldestFirst
<1> HIDE DEF OldestFirst
<1>5. OldestFirst \in Seq(Entries \cup {Blank})
  BY <1>2, <1>3
<1> QED BY <1>2, <1>4, <1>5

\* What the log reads at a position, before and after a step.
LEMMA LogElement ==
  ASSUME TypeOK, NEW i \in 1 .. count
  PROVE  OldestFirst[i] = slots[(next + Size - count + i - 1) % Size]
  BY DEF OldestFirst

\* A request sees the log from its newest entry on.
LEMMA GetReads ==
  ASSUME TypeOK, CursorInv, Get
  PROVE  Log!Read
<1>1. Len(OldestFirst) = count /\ count \in Nat
  BY LogLength DEF TypeOK
<1>2. \A i \in 1 .. count : slots[SlotBehind(i)] = OldestFirst[count + 1 - i]
  <2> TAKE i \in 1 .. count
  <2>1. count + 1 - i \in 1 .. count
    BY <1>1
  <2>2. next + Size - count + (count + 1 - i) - 1 = next + Size - i
    BY <1>1, HistoryAssumption DEF TypeOK, Slots
  <2>3. OldestFirst[count + 1 - i] =
          slots[(next + Size - count + (count + 1 - i) - 1) % Size]
    BY <2>1, LogElement
  <2> QED BY <2>2, <2>3 DEF SlotBehind
<1>3. response' = Log!NewestFirst(OldestFirst)
  <2>1. response' = [i \in 1 .. count |-> slots[SlotBehind(i)]]
    BY DEF Get
  <2> QED BY <1>1, <1>2, <2>1 DEF Log!NewestFirst
<1>4. UNCHANGED OldestFirst
  BY DEF Get, historyVars, OldestFirst
<1> QED BY <1>3, <1>4 DEF Log!Read

\* Clearing the array empties the log.
LEMMA ClearClears ==
  ASSUME ClearArray
  PROVE  OldestFirst' = << >>
<1>1. count' = 0
  BY DEF ClearArray
<1> QED BY <1>1 DEF OldestFirst

\* Sequences as functions.
LEMMA AppendIsFunction ==
  ASSUME NEW S, NEW s \in Seq(S), NEW e \in S
  PROVE  Append(s, e) =
           [i \in 1 .. Len(s) + 1 |-> IF i = Len(s) + 1 THEN e ELSE s[i]]
<1> DEFINE n == Len(s) + 1
           a == Append(s, e)
           f == [i \in 1 .. n |-> IF i = n THEN e ELSE s[i]]
<1>1. n \in Nat /\ Len(s) \in Nat /\ \A i \in 1 .. Len(s) : s[i] \in S
  BY LenProperties
<1>2. a \in Seq(S) /\ Len(a) = n /\ a[n] = e
      /\ \A i \in 1 .. Len(s) : a[i] = s[i]
  BY AppendProperties
<1>3. f \in [1 .. n -> S] /\ \A i \in 1 .. n : f[i] = IF i = n THEN e ELSE s[i]
  <2>1. \A i \in 1 .. n : i # n => i \in 1 .. Len(s)
    BY <1>1
  <2> QED BY <1>1, <2>1
<1>4. \A i \in 1 .. n : a[i] = f[i]
  BY <1>1, <1>2, <1>3
<1> HIDE DEF a, f
<1>5. f \in Seq(S) /\ Len(f) = n
  <2> HIDE DEF n
  <2> QED BY <1>1, <1>3
<1>6. a = f
  BY <1>2, <1>4, <1>5, SeqEqual
<1> QED BY <1>6 DEF a, f

\* What a full log is after an append, element by element.
LEMMA TailAppendIsFunction ==
  ASSUME NEW S, NEW s \in Seq(S), s # << >>, NEW e \in S
  PROVE  Append(Tail(s), e) =
           [i \in 1 .. Len(s) |-> IF i = Len(s) THEN e ELSE s[i + 1]]
<1> DEFINE n == Len(s)
           t == Tail(s)
           a == Append(t, e)
           f == [i \in 1 .. n |-> IF i = n THEN e ELSE s[i + 1]]
<1>1. n \in Nat /\ n > 0 /\ \A i \in 1 .. n : s[i] \in S
  BY LenProperties, EmptySeq
<1>2. t \in Seq(S) /\ Len(t) = n - 1 /\ \A i \in 1 .. n - 1 : t[i] = s[i + 1]
  BY <1>1, HeadTailProperties
<1> HIDE DEF t, n
<1>3. a \in Seq(S) /\ Len(a) = n /\ a[n] = e /\ \A i \in 1 .. n - 1 : a[i] = t[i]
  BY <1>1, <1>2, AppendProperties
<1>4. f \in [1 .. n -> S] /\ \A i \in 1 .. n : f[i] = IF i = n THEN e ELSE s[i + 1]
  <2>1. \A i \in 1 .. n : i # n => i + 1 \in 1 .. n
    BY <1>1
  <2> QED BY <1>1, <2>1
<1>5. \A i \in 1 .. n : a[i] = f[i]
  <2>1. \A i \in 1 .. n : i # n => i \in 1 .. n - 1
    BY <1>1
  <2> QED BY <1>2, <1>3, <1>4, <2>1
<1> HIDE DEF a, f
<1>6. f \in Seq(S) /\ Len(f) = n
  BY <1>1, <1>4
<1>7. a = f
  BY <1>3, <1>5, <1>6, SeqEqual
<1> QED BY <1>7 DEF a, f, t, n

\* An append records the entry, and forgets the oldest one if the array is
\* full.
LEMMA AppendRecords ==
  ASSUME TypeOK, TypeOK', CursorInv, CursorInv',
         NEW ignored \in BOOLEAN, HistoryAppend(ignored)
  PROVE  Log!Record(entry')
<1>1. /\ Size \in Nat /\ Size > 0
      /\ count \in 0 .. Size /\ next \in 0 .. Size - 1
      /\ count' \in 0 .. Size /\ next' \in 0 .. Size - 1
  BY HistoryAssumption DEF TypeOK, Slots
<1>2. /\ slots' = [slots EXCEPT ![next] = entry']
      /\ next' = (next + 1) % Size
      /\ count' = IF count < Size THEN count + 1 ELSE count
      /\ response' = response
  BY DEF HistoryAppend, CountAfterAppend, httpVars
<1>3. next' = IF next + 1 < Size THEN next + 1 ELSE next + 1 - Size
  <2>1. next + 1 \in 0 .. 2 * Size - 1
    BY <1>1
  <2>2. (next + 1) % Size = IF next + 1 < Size THEN next + 1 ELSE next + 1 - Size
    BY <1>1, <2>1, WrapOnce
  <2> QED BY <1>2, <2>2
<1>4. \A k \in Slots : slots'[k] = IF k = next THEN entry' ELSE slots[k]
  BY <1>2 DEF TypeOK
<1>5. \A i \in 1 .. count' :
        OldestFirst'[i] = slots'[(next' + Size - count' + i - 1) % Size]
  BY DEF OldestFirst
<1>6. OldestFirst \in Seq(Entries \cup {Blank}) /\ Len(OldestFirst) = count
  BY LogLength
<1>7. DOMAIN OldestFirst' = 1 .. count' /\ OldestFirst' = [i \in 1 .. count' |-> OldestFirst'[i]]
  BY DEF OldestFirst
<1>0. entry' \in Entries \cup {Blank}
  BY DEF TypeOK
<1>8. CASE count < Size
  <2>1. next = count /\ count' = count + 1
    BY <1>1, <1>2, <1>8 DEF CursorInv
  <2>2. ASSUME NEW i \in 1 .. count PROVE OldestFirst[i] = slots[i - 1]
    <3>1. (next + Size - count + i - 1) % Size = i - 1
      BY <1>1, <1>8, <2>1, OldestSlot DEF Slots
    <3> QED BY <3>1, LogElement
  <2>3. ASSUME NEW i \in 1 .. count' PROVE OldestFirst'[i] = slots'[i - 1]
    <3>1. (next' + Size - count' + i - 1) % Size =
            IF count' < Size THEN i - 1
            ELSE IF next' + i - 1 < Size THEN next' + i - 1
            ELSE next' + i - 1 - Size
      BY <1>1, OldestSlot DEF Slots, CursorInv
    <3>2. ~(count' < Size) => next' = 0
      BY <1>1, <1>3, <2>1
    <3> DEFINE k == (next' + Size - count' + i - 1) % Size
    <3>3. k = i - 1
      <4>1. i \in Int /\ i - 1 < Size /\ 0 + i - 1 = i - 1
        BY <1>1
      <4> HIDE DEF k
      <4>2. CASE count' < Size
        BY <3>1, <4>2 DEF k
      <4>3. CASE ~(count' < Size)
        BY <3>1, <3>2, <4>1, <4>3 DEF k
      <4> QED BY <4>2, <4>3
    <3> QED BY <1>5, <3>3
  <2>4. ASSUME NEW i \in 1 .. count'
        PROVE OldestFirst'[i] = IF i = count + 1 THEN entry' ELSE OldestFirst[i]
    <3>1. i - 1 \in Slots /\ (i - 1 = next <=> i = count + 1)
      BY <1>1, <1>8, <2>1 DEF Slots
    <3>2. OldestFirst'[i] = IF i = count + 1 THEN entry' ELSE slots[i - 1]
      BY <1>4, <2>3, <3>1
    <3>3. i # count + 1 => i \in 1 .. count
      BY <1>1, <2>1
    <3> QED BY <2>2, <3>2, <3>3
  <2>5. Append(OldestFirst, entry') =
          [i \in 1 .. count + 1 |-> IF i = count + 1 THEN entry' ELSE OldestFirst[i]]
    <3> HIDE DEF OldestFirst
    <3> QED BY <1>0, <1>6, AppendIsFunction
  <2>6. OldestFirst' = Append(OldestFirst, entry')
    <3> HIDE DEF OldestFirst
    <3> QED BY <1>7, <2>1, <2>4, <2>5
  <2> QED BY <1>2, <1>6, <1>8, <2>6 DEF Log!Record
<1>9. CASE ~(count < Size)
  <2>1. count = Size /\ count' = Size
    BY <1>1, <1>2, <1>9
  <2> DEFINE pos(i) == IF next + i < Size THEN next + i ELSE next + i - Size
  <2>2. ASSUME NEW i \in 1 .. Size - 1 PROVE OldestFirst[i + 1] = slots[pos(i)]
    <3>1. i + 1 \in 1 .. count /\ next + (i + 1) - 1 = next + i
      BY <1>1, <2>1
    <3>2. (next + Size - count + (i + 1) - 1) % Size = pos(i)
      BY <1>1, <1>9, <3>1, OldestSlot DEF Slots
    <3>3. OldestFirst[i + 1] = slots[(next + Size - count + (i + 1) - 1) % Size]
      BY <3>1, LogElement
    <3> QED BY <3>2, <3>3
  <2>3. ASSUME NEW i \in 1 .. Size PROVE OldestFirst'[i] = slots'[pos(i)]
    <3>1. (next' + Size - count' + i - 1) % Size =
            IF next' + i - 1 < Size THEN next' + i - 1 ELSE next' + i - 1 - Size
      <4>1. (next' + Size - count' + i - 1) % Size =
              IF count' < Size THEN i - 1
              ELSE IF next' + i - 1 < Size THEN next' + i - 1
              ELSE next' + i - 1 - Size
        BY <1>1, <2>1, OldestSlot DEF Slots, CursorInv
      <4>2. ~(count' < Size)
        BY <1>1, <2>1
      <4> QED BY <4>1, <4>2
    <3>2. (next' + Size - count' + i - 1) % Size = pos(i)
      BY <1>1, <1>3, <3>1
    <3> QED BY <1>5, <2>1, <3>2
  <2>4. ASSUME NEW i \in 1 .. Size
        PROVE OldestFirst'[i] = IF i = Size THEN entry' ELSE OldestFirst[i + 1]
    <3>1. pos(i) \in Slots /\ (pos(i) = next <=> i = Size)
      BY <1>1 DEF Slots
    <3>2. OldestFirst'[i] = IF i = Size THEN entry' ELSE slots[pos(i)]
      BY <1>4, <2>3, <3>1
    <3>3. i # Size => i \in 1 .. Size - 1
      BY <1>1
    <3> HIDE DEF pos
    <3> QED BY <2>2, <3>2, <3>3
  <2>5. Append(Tail(OldestFirst), entry') =
          [i \in 1 .. Size |-> IF i = Size THEN entry' ELSE OldestFirst[i + 1]]
    <3> HIDE DEF OldestFirst
    <3>1. OldestFirst # << >>
      BY <1>1, <1>6, <2>1
    <3> QED BY <1>0, <1>1, <1>6, <2>1, <3>1, TailAppendIsFunction
  <2>6. OldestFirst' = Append(Tail(OldestFirst), entry')
    <3> HIDE DEF OldestFirst
    <3> QED BY <1>7, <2>1, <2>4, <2>5
  <2> QED BY <1>2, <1>6, <1>9, <2>6 DEF Log!Record
<1> QED BY <1>8, <1>9

\* Every step of the two threads records, reads or clears the log, or
\* leaves it alone.
LEMMA LogNext ==
  ASSUME TypeOK, TypeOK', CursorInv, CursorInv', [Next]_vars
  PROVE  [Log!Next]_(Log!vars)
<1>1. ASSUME NEW ignored \in BOOLEAN, HistoryAppend(ignored)
      PROVE  \E e \in Entries : Log!Record(e)
  <2>1. entry' \in Entries
    <3>1. entry.id \in Nat
      BY DEF TypeOK, Entries, Blank
    <3> QED BY <1>1, <3>1, HistoryAssumption DEF HistoryAppend, Entries
  <2> QED BY <1>1, <2>1, AppendRecords
<1>2. CASE Get
  BY <1>2, GetReads DEF Log!Next
<1>3. CASE HistoryClear \/ Shutdown
  <2>1. ClearArray /\ response' = response
    BY <1>3 DEF HistoryClear, Shutdown, httpVars
  <2> QED BY <2>1, ClearClears DEF Log!Next, Log!Clear
<1>4. CASE \/ SetLastTranscript \/ SetLastLanguage \/ LoadCount \/ StoreCount
           \/ ShowCount \/ Publish \/ ResetCount \/ ResetLastTranscript
           \/ ResetLastLanguage \/ ResetShownCount \/ UNCHANGED vars
  <2>1. UNCHANGED <<historyVars, response>>
    BY <1>4 DEF SetLastTranscript, SetLastLanguage, LoadCount, StoreCount,
       ShowCount, Publish, ResetCount, ResetLastTranscript, ResetLastLanguage,
       ResetShownCount, ResetStatus, vars, httpVars
  <2> QED BY <2>1 DEF historyVars, OldestFirst, Log!vars
<1> QED BY <1>1, <1>2, <1>3, <1>4 DEF Next, Log!Next

\* The circular array is the bounded log: newest entries kept, served newest
\* first, cleared for good.
THEOREM HistoryImplementsLog == Spec => ImplementsLog
<1>1. Init => Log!Init
  BY DEF Init, Log!Init, OldestFirst
<1>2. TypeOK /\ TypeOK' /\ IInv /\ IInv' /\ [Next]_vars => [Log!Next]_(Log!vars)
  BY LogNext DEF IInv
<1> QED BY <1>1, <1>2, TypeCorrect, IInvHolds, PTL DEF Spec, ImplementsLog, Log!Spec
=============================================================================
