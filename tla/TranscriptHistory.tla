------------------------- MODULE TranscriptHistory -------------------------
(***************************************************************************)
(* The transcript history of main.c and the counters and status fields     *)
(* kept with it.  The main thread records and publishes transcripts        *)
(* (publish_transcript_entry); the HTTP thread serves and clears them      *)
(* (HTTP_Endpoint_transcripts).  The array has a mutex, the status tree    *)
(* has another, and g_transcript_count has none: a step of the model is a  *)
(* critical section, or one access to the counter.                         *)
(***************************************************************************)
EXTENDS Integers, Sequences

CONSTANTS
  Size,         \* TRANSCRIPT_HISTORY_SIZE
  MaxEntries,   \* bound: transcripts recorded in one behaviour
  MaxDeletes    \* bound: DELETE requests in one behaviour

ASSUME HistoryAssumption ==
  Size \in Nat \ {0} /\ MaxEntries \in Nat /\ MaxDeletes \in Nat

\* An entry is the how-manieth transcript it is, and whether it was only
\* recorded, not published ("ignored").
Entries == [id : 1 .. MaxEntries, ignored : BOOLEAN]

Blank == [id |-> 0, ignored |-> FALSE]   \* a slot without text
NoText == 0                              \* the empty string in the status

VARIABLES
  slots,             \* g_history
  count,             \* g_history_count
  next,              \* g_history_next
  transcript_count,  \* g_transcript_count
  status,            \* stt.last_transcript, stt.last_language, stt.count
  mqtt,              \* the last entry handed to MQTT_Publish_JSON
  mpc, entry, incremented,   \* main: position, current entry, ++ register
  hpc,               \* HTTP thread: position in DELETE
  response,          \* what the last GET returned
  deletes,           \* DELETE requests so far
  raced              \* history variable: a DELETE overlapped a publication, and none has
                     \* followed that did not

historyVars == <<slots, count, next>>
mainVars == <<mpc, entry, incremented>>
httpVars == <<hpc, response, deletes>>
vars == <<historyVars, transcript_count, status, mqtt, mainVars, httpVars, raced>>

Slots == 0 .. Size - 1

Init ==
  /\ slots = [s \in Slots |-> Blank] /\ count = 0 /\ next = 0
  /\ transcript_count = 0
  /\ status = [last_transcript |-> NoText, last_language |-> NoText, count |-> 0]
  /\ mqtt = Blank
  /\ mpc = "idle" /\ entry = Blank /\ incremented = 0
  /\ hpc = "idle" /\ response = << >> /\ deletes = 0
  /\ raced = FALSE

-----------------------------------------------------------------------------
\* history_clear, under g_history_mutex.
ClearArray ==
  /\ slots' = [s \in Slots |-> Blank]
  /\ count' = 0
  /\ next' = 0

-----------------------------------------------------------------------------
(* publish_transcript_entry, on the main thread. *)

CountAfterAppend == IF count < Size THEN count + 1 ELSE count

\* history_append, under g_history_mutex.
HistoryAppend(ignored) ==
  LET e == [id |-> entry.id + 1, ignored |-> ignored]
  IN  /\ mpc = "idle"
      /\ entry.id < MaxEntries
      /\ slots' = [slots EXCEPT ![next] = e]
      /\ next' = (next + 1) % Size
      /\ count' = CountAfterAppend
      /\ entry' = e
      /\ mpc' = "last_transcript"
      /\ raced' = (raced \/ hpc # "idle")
      /\ UNCHANGED <<transcript_count, status, mqtt, incremented, httpVars>>

SetLastTranscript ==
  /\ mpc = "last_transcript"
  /\ status' = [status EXCEPT !.last_transcript = entry.id]
  /\ mpc' = "last_language"
  /\ UNCHANGED <<historyVars, transcript_count, mqtt, entry, incremented,
                 httpVars, raced>>

SetLastLanguage ==
  /\ mpc = "last_language"
  /\ status' = [status EXCEPT !.last_language = entry.id]
  /\ mpc' = "load"
  /\ UNCHANGED <<historyVars, transcript_count, mqtt, entry, incremented,
                 httpVars, raced>>

\* ++g_transcript_count, a load and a store; the result is shown.
LoadCount ==
  /\ mpc = "load"
  /\ incremented' = transcript_count + 1
  /\ mpc' = "store"
  /\ UNCHANGED <<historyVars, transcript_count, status, mqtt, entry, httpVars,
                 raced>>

StoreCount ==
  /\ mpc = "store"
  /\ transcript_count' = incremented
  /\ mpc' = "show_count"
  /\ UNCHANGED <<historyVars, status, mqtt, entry, incremented, httpVars, raced>>

\* Bug: the count shown is the number of entries kept.
ShowKept ==
  /\ mpc = "show_count"
  /\ status' = [status EXCEPT !.count = count]
  /\ mpc' = "publish"
  /\ UNCHANGED <<historyVars, transcript_count, mqtt, entry, incremented,
                 httpVars, raced>>

ShowCount ==
  /\ mpc = "show_count"
  /\ status' = [status EXCEPT !.count = incremented]
  /\ mpc' = "publish"
  /\ UNCHANGED <<historyVars, transcript_count, mqtt, entry, incremented,
                 httpVars, raced>>

\* Bug: an ignored entry is published as well.
PublishAll ==
  /\ mpc = "publish"
  /\ mqtt' = entry
  /\ mpc' = "idle"
  /\ UNCHANGED <<historyVars, transcript_count, status, entry, incremented,
                 httpVars, raced>>

\* An ignored entry is not published; MQTT_Publish_JSON may fail, which is
\* only logged.
Publish ==
  /\ mpc = "publish"
  /\ \/ ~entry.ignored /\ mqtt' = entry
     \/ UNCHANGED mqtt
  /\ mpc' = "idle"
  /\ UNCHANGED <<historyVars, transcript_count, status, entry, incremented,
                 httpVars, raced>>

\* main, after the main loop has ended: history_clear once more. The HTTP
\* thread serves requests until later.
Shutdown ==
  /\ mpc = "idle"
  /\ ClearArray
  /\ mpc' = "down"
  /\ UNCHANGED <<transcript_count, status, mqtt, entry, incremented, httpVars,
                 raced>>

-----------------------------------------------------------------------------
(* HTTP_Endpoint_transcripts, on the HTTP thread. *)

\* Bug: the walk starts at the next free slot instead of below it.
SlotBehindFromNext(i) == (next + Size - i + 1) % Size

\* The slot of the i-th newest entry.
SlotBehind(i) == (next + Size - i) % Size

\* GET, under g_history_mutex.
Get ==
  /\ hpc = "idle"
  /\ response' = [i \in 1 .. count |-> slots[SlotBehind(i)]]
  /\ UNCHANGED <<historyVars, transcript_count, status, mqtt, mainVars, hpc,
                 deletes, raced>>

\* DELETE: history_clear, under g_history_mutex, then the counter and the
\* status fields one by one.
HistoryClear ==
  /\ hpc = "idle"
  /\ deletes < MaxDeletes
  /\ ClearArray
  /\ deletes' = deletes + 1
  /\ hpc' = "reset_count"
  /\ raced' = (mpc # "idle")
  /\ UNCHANGED <<transcript_count, status, mqtt, mainVars, response>>

ResetCount ==
  /\ hpc = "reset_count"
  /\ transcript_count' = 0
  /\ hpc' = "reset_transcript"
  /\ UNCHANGED <<historyVars, status, mqtt, mainVars, response, deletes, raced>>

ResetStatus(from, to, field, value) ==
  /\ hpc = from
  /\ status' = [status EXCEPT ![field] = value]
  /\ hpc' = to
  /\ UNCHANGED <<historyVars, transcript_count, mqtt, mainVars, response,
                 deletes, raced>>

ResetLastTranscript ==
  ResetStatus("reset_transcript", "reset_language", "last_transcript", NoText)
ResetLastLanguage ==
  ResetStatus("reset_language", "reset_shown", "last_language", NoText)
ResetShownCount ==
  ResetStatus("reset_shown", "idle", "count", 0)

Next ==
  \/ \E ignored \in BOOLEAN : HistoryAppend(ignored)
  \/ SetLastTranscript
  \/ SetLastLanguage
  \/ LoadCount
  \/ StoreCount
  \/ ShowCount
  \/ Publish
  \/ Shutdown
  \/ Get
  \/ HistoryClear
  \/ ResetCount
  \/ ResetLastTranscript
  \/ ResetLastLanguage
  \/ ResetShownCount

Spec == Init /\ [][Next]_vars

-----------------------------------------------------------------------------
TypeOK ==
  /\ slots \in [Slots -> Entries \cup {Blank}]
  /\ count \in 0 .. Size /\ next \in Slots
  /\ transcript_count \in Nat
  /\ status \in [last_transcript : Nat, last_language : Nat, count : Nat]
  /\ mqtt \in Entries \cup {Blank}
  /\ mpc \in {"idle", "last_transcript", "last_language", "load", "store",
              "show_count", "publish", "down"}
  /\ entry \in Entries \cup {Blank} /\ incremented \in Nat
  /\ hpc \in {"idle", "reset_count", "reset_transcript", "reset_language",
              "reset_shown"}
  /\ response \in Seq(Entries \cup {Blank}) /\ deletes \in Nat
  /\ raced \in BOOLEAN

\* Between two calls the threads are both outside of their functions.
Quiet == mpc = "idle" /\ hpc = "idle"

\* The circular array is a log of the newest Size entries: GET returns them
\* newest first, an append forgets the oldest entry only when the array is
\* full, and a cleared entry never comes back, whatever the order of appends,
\* requests and wrap-arounds.
OldestFirst ==
  [i \in 1 .. count |-> slots[(next + Size - count + i - 1) % Size]]

Log == INSTANCE BoundedLog WITH log <- OldestFirst, answer <- response

ImplementsLog == Log!Spec

\* What goes out over MQTT was recorded first: a subscriber that asks for the
\* history on receipt of a transcript finds it there as the newest entry,
\* unless the history was cleared meanwhile. No transcript goes out twice or
\* after a younger one, and an ignored one never does.
PublishedIsRecorded ==
  [][mqtt' # mqtt => /\ ~mqtt'.ignored
                     /\ mqtt'.id > mqtt.id
                     /\ count # 0 => slots[SlotBehind(1)] = mqtt']_vars

\* Until a DELETE overlaps a publication, the counter, the count in the status and
\* the history agree between calls, and the status shows the newest entry that was
\* not cleared; where one did, the next that does not makes them agree again.
CountsAgree ==
  Quiet /\ ~raced =>
    /\ status.count = transcript_count
    /\ count = (IF transcript_count < Size THEN transcript_count ELSE Size)
    /\ status.last_transcript =
         (IF count = 0 THEN NoText ELSE slots[SlotBehind(1)].id)
    /\ status.last_language = status.last_transcript
=============================================================================
