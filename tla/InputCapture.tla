---------------------------- MODULE InputCapture ----------------------------
(***************************************************************************)
(* The microphone: pipewire_audio.c and its use in main.c.  The main       *)
(* thread starts one capture, handles what the PipeWire registry announces *)
(* in its main loop, and stops the capture at the end.  The HTTP thread    *)
(* refreshes the list of nodes in the status whenever settings are applied.*)
(*                                                                         *)
(* PipeWire is external: objects appear and vanish, their numbers are used *)
(* again, and each change is announced in order once the registry listens. *)
(* Only one input node is allowed by the settings, so the code that        *)
(* restarts the capture on another one cannot run and is left out.         *)
(***************************************************************************)
EXTENDS Naturals, Sequences, SequencesExt

CONSTANTS
  Ids,        \* numbers of PipeWire objects
  None,       \* no object, no stream
  MaxChanges, MaxRefreshes   \* bounds on PipeWire's changes and on requests

\* What can appear.  "input" is a node the capture is looking for; "bare" is one
\* without a media class; "raw" is the unprocessed input; "output" is a sink;
\* "other" is anything else.
Kinds == {"input", "bare", "raw", "output", "other"}

ASSUME CaptureAssumption ==
  /\ Ids # {} /\ IsFiniteSet(Ids) /\ None \notin Ids \cup Kinds \cup {"add", "remove"}
  /\ MaxChanges \in Nat /\ MaxRefreshes \in Nat

VARIABLES
  present,     \* the objects there are
  changes,     \* how many changes so far
  events,      \* what the registry has announced and is not handled yet
  handle,      \* va_state.input.stream: a capture was started
  detected,    \* node_detected
  stream,      \* the node the one stream in streams is connected to
  catalog,     \* g_node_catalog
  hasSamples,  \* g_input_has_samples
  state, bound, listed, error,   \* status input.state, .bound_node, .available_nodes,
               \* and whether there is an .error
  mpc, hpc,    \* where the two threads are
  mlist, hlist,  \* the list each thread is about to show
  refreshes,   \* refreshes of the HTTP thread so far
  lost,        \* history variable: the node of a stream went away
  reported,    \* history variable: the objects that could not be connected, and this was shown
  overlapped   \* history variable: two refreshes overlapped, and none has followed

world   == <<present, changes>>
capture == <<handle, detected, stream, catalog, hasSamples>>
status  == <<state, bound, listed, error>>
http    == <<hpc, hlist, refreshes, overlapped>>
history == <<lost, reported>>
vars == <<world, events, capture, status, mpc, mlist, http, history>>

\* node_matches_stream for the node that is wanted.
Matches(kind) == kind \in {"input", "bare"}

\* pw_registry_event_global's node types and catalog_upsert_node's check.
Catalogued(kind) == kind \in {"input", "raw", "output"}

\* pw_audio_list_input_nodes.
InputNodes(c) == {c[id] : id \in Ids} \cap {"input", "raw"}

NoObjects == [id \in Ids |-> None]

Init ==
  /\ present \in [Ids -> {None, "input", "raw"}] /\ changes = 0
  /\ events = << >>
  /\ handle = FALSE /\ detected = FALSE /\ stream = None
  /\ catalog = NoObjects
  /\ hasSamples = FALSE
  /\ state = FALSE /\ bound = None /\ listed = {} /\ error = FALSE
  /\ mpc = "start" /\ mlist = {}
  /\ hpc = "idle" /\ hlist = {} /\ refreshes = 0 /\ overlapped = FALSE
  /\ lost = FALSE /\ reported = {}

-----------------------------------------------------------------------------
(* PipeWire. *)

Event(type, id, kind) == [type |-> type, id |-> id, kind |-> kind]

Change(id, kind) ==
  /\ changes < MaxChanges
  /\ changes' = changes + 1
  /\ present' = [present EXCEPT ![id] = kind]
  /\ events' = IF handle
               THEN Append(events, IF kind = None THEN Event("remove", id, present[id])
                                                  ELSE Event("add", id, kind))
               ELSE events
  /\ UNCHANGED <<capture, status, mpc, mlist, http, history>>

Appear(id, kind) == present[id] = None /\ Change(id, kind)
Vanish(id)       == present[id] # None /\ Change(id, None)

\* The announcements of what is there when the registry begins to listen.
Announcements ==
  {[i \in DOMAIN q |-> Event("add", q[i], present[q[i]])] :
     q \in SetToSeqs({id \in Ids : present[id] # None})}

-----------------------------------------------------------------------------
(* start_input_capture and refresh_available_input_nodes_status, on the     *)
(* main thread.  The list of the nodes is made, then shown.                 *)

\* audio_stream_start, which fails at any of PipeWire's objects.  The registry's
\* announcements come later, in the main loop.
OpenStream ==
  /\ \/ handle' = TRUE /\ events' \in Announcements
     \/ handle' = FALSE /\ UNCHANGED events
  /\ detected' = FALSE /\ stream' = None

\* The list of the nodes is refreshed before anything was announced.
StartCapture ==
  /\ mpc = "start"
  /\ OpenStream
  /\ mpc' = "list"
  /\ UNCHANGED <<world, catalog, hasSamples, status, mlist, http, history>>

ListNodes ==
  /\ mpc = "list"
  /\ mlist' = InputNodes(catalog)
  /\ mpc' = "show"
  /\ UNCHANGED <<world, events, capture, status, hpc, hlist, refreshes, overlapped, history>>

ShowNodes ==
  /\ mpc = "show"
  /\ listed' = mlist
  /\ overlapped' = (overlapped \/ hpc # "idle")
  /\ mpc' = "loop"
  /\ UNCHANGED <<world, events, capture, state, bound, error, mlist, hpc, hlist, refreshes, history>>

-----------------------------------------------------------------------------
(* The registry's announcements, one per turn of the main loop. *)

Announced(type) == mpc = "loop" /\ handle /\ events # << >> /\ Head(events).type = type

\* catalog_upsert_node.
Upsert(e) == [catalog EXCEPT ![e.id] = e.kind]

\* Bug: the failure is not reported.
ConnectFailsQuietly(e) == UNCHANGED <<detected, stream, error, reported>>

ConnectFails(e) ==
  /\ error' = TRUE /\ reported' = reported \cup {e.id}
  /\ UNCHANGED <<detected, stream>>

Connect(e) == detected' = TRUE /\ stream' = [id |-> e.id, kind |-> e.kind]

\* pw_registry_event_global: the first node that matches gets the stream; one that
\* cannot be connected is reported and not tried again.
HandleAdd ==
  /\ Announced("add")
  /\ LET e == Head(events)
     IN  /\ catalog' = IF Catalogued(e.kind) THEN Upsert(e) ELSE catalog
         /\ IF detected \/ ~Matches(e.kind)
            THEN UNCHANGED <<detected, stream, error, reported>>
            ELSE \/ Connect(e) /\ UNCHANGED <<error, reported>>
                 \/ ConnectFails(e)
  /\ events' = Tail(events)
  /\ UNCHANGED <<world, handle, hasSamples, state, bound, listed, mpc, mlist, http, lost>>

\* Bug: a node is removed by its name.
RemovedByName(c, id) == [other \in Ids |-> IF c[other] = c[id] THEN None ELSE c[other]]

\* catalog_remove_node.
Removed(c, id) == [c EXCEPT ![id] = None]

\* Bug: the stream is left to a node that is gone.
StreamStays(id) == stream' = stream

\* The stream of the node that went away is destroyed; node_detected stays.
StreamWithout(id) ==
  stream' = IF stream # None /\ stream.id = id THEN None ELSE stream

HandleRemove ==
  /\ Announced("remove")
  /\ catalog' = Removed(catalog, Head(events).id)
  /\ StreamWithout(Head(events).id)
  /\ lost' = (lost \/ (stream # None /\ stream.id = Head(events).id))
  /\ reported' = reported \ {Head(events).id}
  /\ events' = Tail(events)
  /\ UNCHANGED <<world, handle, detected, hasSamples, status, mpc, mlist, http>>

\* on_process: a buffer of the stream, handed on.
Buffer == mpc = "loop" /\ handle /\ stream # None

\* audio_input_callback for the first buffer of a stream.  (Later ones change
\* levels and counts only; the sample ring takes what they hold.)
FirstSamples ==
  /\ Buffer /\ ~hasSamples
  /\ hasSamples' = TRUE
  /\ state' = TRUE
  /\ bound' = stream.kind
  /\ mpc' = "list"
  /\ overlapped' = (hpc # "idle")
  /\ UNCHANGED <<world, events, handle, detected, stream, catalog, listed, error, mlist,
                 hpc, hlist, refreshes, history>>

\* A stream reports an error, or has no buffers.
StreamError ==
  /\ mpc = "loop" /\ stream # None
  /\ error' = TRUE
  /\ UNCHANGED <<world, events, capture, state, bound, listed, mpc, mlist, http, history>>

\* The PipeWire loop itself reports one, with a stream or without.
LoopError ==
  /\ mpc = "loop" /\ handle
  /\ error' = TRUE
  /\ UNCHANGED <<world, events, capture, state, bound, listed, mpc, mlist, http, history>>

\* Bug: the status is left as it was.
StopQuietly == UNCHANGED <<hasSamples, state, bound>>

\* What stop_input_capture resets.
StopStatus == hasSamples' = FALSE /\ state' = FALSE /\ bound' = None

\* The main loop has ended: pw_audio_stop and stop_input_capture.
StopCapture ==
  /\ mpc = "loop"
  /\ mpc' = "done"
  /\ handle' = FALSE /\ stream' = None
  /\ events' = << >>
  /\ StopStatus
  /\ UNCHANGED <<world, detected, catalog, listed, error, mlist, http, history>>

-----------------------------------------------------------------------------
(* apply_settings on the HTTP thread refreshes the list. *)

HttpList ==
  /\ hpc = "idle" /\ refreshes < MaxRefreshes
  /\ refreshes' = refreshes + 1
  /\ hlist' = InputNodes(catalog)
  /\ hpc' = "show"
  /\ overlapped' = (mpc \in {"list", "show"})
  /\ UNCHANGED <<world, events, capture, status, mpc, mlist, history>>

HttpShow ==
  /\ hpc = "show"
  /\ listed' = hlist
  /\ hpc' = "idle"
  /\ UNCHANGED <<world, events, capture, state, bound, error, mpc, mlist, hlist, refreshes,
                 overlapped, history>>

MainStep == StartCapture \/ ListNodes \/ ShowNodes \/ HandleAdd \/ HandleRemove

Next ==
  \/ MainStep \/ FirstSamples \/ StreamError \/ LoopError \/ StopCapture
  \/ HttpList \/ HttpShow
  \/ \E id \in Ids : Vanish(id) \/ \E kind \in Kinds : Appear(id, kind)

\* The main loop handles what the registry announced.
Spec == Init /\ [][Next]_vars /\ WF_vars(MainStep)

-----------------------------------------------------------------------------
TypeOK ==
  /\ present \in [Ids -> Kinds \cup {None}] /\ changes \in 0 .. MaxChanges
  /\ events \in Seq([type : {"add", "remove"}, id : Ids, kind : Kinds])
  /\ handle \in BOOLEAN /\ detected \in BOOLEAN /\ hasSamples \in BOOLEAN
  /\ stream \in [id : Ids, kind : Kinds] \cup {None}
  /\ catalog \in [Ids -> Kinds \cup {None}]
  /\ state \in BOOLEAN /\ bound \in Kinds \cup {None} /\ listed \subseteq Kinds
  /\ error \in BOOLEAN
  /\ mpc \in {"start", "list", "show", "loop", "done"} /\ hpc \in {"idle", "show"}
  /\ mlist \subseteq Kinds /\ hlist \subseteq Kinds /\ refreshes \in 0 .. MaxRefreshes
  /\ lost \in BOOLEAN /\ overlapped \in BOOLEAN /\ reported \subseteq Ids

\* The announcements of an object that are still to be handled.
Pending(id) == {i \in DOMAIN events : events[i].id = id}

\* The catalogue is behind PipeWire by exactly what is still to be handled, also
\* when numbers are used again: where nothing is, it has the nodes there are; else the
\* last of it says what there is.
CatalogIsRegistry ==
  handle =>
    \A id \in Ids :
      IF Pending(id) = {}
      THEN catalog[id] = IF Catalogued(present[id]) THEN present[id] ELSE None
      ELSE \A last \in Pending(id) : (\A i \in Pending(id) : i <= last) =>
             present[id] = IF events[last].type = "add" THEN events[last].kind ELSE None

\* The stream is that of a node the capture was looking for, and that node is
\* still there unless its removal is still to be handled: samples never come
\* from an object that took the number of one that is gone.
StreamIsItsNode ==
  stream # None =>
    /\ Matches(stream.kind)
    /\ \/ present[stream.id] = stream.kind
       \/ \E i \in DOMAIN events : events[i].type = "remove" /\ events[i].id = stream.id

\* "Listening" with a node's name is shown only when its stream was connected, and
\* nothing of it once the capture has stopped.  (After the node went away it is still
\* shown: nothing takes it back, and detected stays set, so no other node is connected to
\* either.)  Once samples come, the node they come from is among those that are listed,
\* unless it has no media class or went away; where two refreshes have overlapped, and the
\* older list may be shown, the next one puts it right.
ListeningIsConnected ==
  /\ state /\ ~lost => stream # None /\ bound = stream.kind
  /\ ~state => bound = None
  /\ mpc = "done" => ~state
  /\ state /\ mpc = "loop" /\ hpc = "idle" /\ ~lost /\ ~overlapped =>
       bound \in listed \/ ~Catalogued(bound)

\* As long as no stream was ever made, every node there is that the capture can use, from
\* the start or since, gets a stream, or another one does, or it is shown that this very
\* node could not be connected; unless it goes or the program ends.  (Once there was a
\* stream nothing of the kind holds: see ListeningIsConnected.)
NodeIsFound ==
  \A id \in Ids :
    handle /\ ~detected /\ Matches(present[id])
      ~> stream # None \/ id \in reported \/ ~Matches(present[id]) \/ mpc = "done"
=============================================================================
