------------------------------- MODULE Server -------------------------------
(***************************************************************************)
(* The program from its start to its end, and to the next start: the main  *)
(* thread goes through ACAP() and main(), runs its loop and cleans up; the *)
(* HTTP thread serves from early in the start to late in the end.  The     *)
(* settings are a tree in memory, a file and what apply_settings has made  *)
(* of them; the certificates are those of CertStore.  The program may be   *)
(* killed any time.  The status tree is AppTree's; here only its mutex     *)
(* counts, which both threads take.                                        *)
(***************************************************************************)
EXTENDS CertStore, Sequences, FiniteSets

CONSTANTS
  Names,                \* the settings
  AtStart,              \* those that main() reads once, before the engine starts
  Changes,              \* what a request may change: sets of names
  NoSettings, Torn,     \* no file, a file cut short
  MaxRequests, MaxStarts   \* bounds

ASSUME ServerAssumption ==
  /\ AtStart \subseteq Names /\ Changes \subseteq SUBSET Names
  /\ MaxRequests \in Nat /\ MaxStarts \in Nat \ {0}
  /\ {NoSettings, Torn} \cap [Names -> 0 .. MaxRequests] = {}

\* The values of settings/settings.json, each counting as 0; a request brings new ones.
Values == 0 .. MaxRequests

Defaults == [n \in Names |-> 0]

\* The main thread, step by step, in ACAP() and then in main(); a name of an endpoint is
\* its registration.
BootAcap == <<"load", "status", "app", "settings">>

Boot == BootAcap \o <<"transcripts", "mqtt", "certs", "statuses", "read", "configure", "run">>

\* Bug: the HTTP thread is ended first.
HttpFirst == <<"http", "disconnect", "stop", "tree", "exit">>

\* Bug: the tree is freed before the HTTP thread has ended.
TreeFirst == <<"disconnect", "stop", "tree", "http", "exit">>

Shutdown == <<"disconnect", "stop", "http", "tree", "exit">>

Endpoints == {"status", "app", "settings", "transcripts", "mqtt", "certs"}

VARIABLES
  mpc,        \* the next step of the main thread
  hpc,        \* where the HTTP thread is
  nodes,      \* the endpoints registered
  cancelled,  \* the HTTP thread is to end
  owner,      \* who holds status_mutex
  tree,       \* the settings in memory
  file,       \* localdata/settings.json
  cfg,        \* what either thread has read of the settings to apply them
  effect,     \* the settings in effect
  engine,     \* whisper_stt_init has succeeded
  change,     \* what a request still has to change
  requests, starts,   \* how many there were, of requests as the bound counts them
  posted,     \* history variable: what the settings were when a request was last answered
  freed,      \* history variable: the tree is freed
  failed,     \* history variable: a save has failed or was cut short
  overlapped  \* history variable: settings were posted while main applied them, and none since

mainVars == <<mpc, nodes, starts>>
httpVars == <<hpc, change, requests, posted>>
treeVars == <<tree, file, failed>>
useVars  == <<cfg, effect, engine, overlapped>>
endVars  == <<cancelled, owner, freed>>
vars     == <<mainVars, httpVars, treeVars, useVars, endVars, certVars>>

Init ==
  /\ mpc = "load" /\ nodes = {} /\ starts = 0
  /\ hpc = "none" /\ change = {} /\ requests = 0 /\ posted = Defaults
  /\ tree = Defaults /\ file = NoSettings /\ failed = FALSE
  /\ cfg = [t \in {"main", "http"} |-> Defaults] /\ effect = Defaults /\ engine = FALSE /\ overlapped = FALSE
  /\ cancelled = FALSE /\ owner = "nobody" /\ freed = FALSE
  /\ CertInit

-----------------------------------------------------------------------------
(* The main thread. *)

IndexOf(s, x) == CHOOSE i \in DOMAIN s : s[i] = x

\* The step after x.
After(s, x) == s[IndexOf(s, x) + 1]

\* A step that takes the mutex, to set a status, waits until it is free.
MutexIsFree == owner = "nobody"

MainGoes(s, x) == mpc = x /\ mpc' = After(s, x)

Restored(f) == IF f \in {NoSettings, Torn} THEN Defaults ELSE [n \in Names |-> f[n]]

\* Bug: the loop ends with the first setting.
MergedFirst == LET m == CHOOSE n \in Names : TRUE IN [Defaults EXCEPT ![m] = Restored(file)[m]]

Merged == Restored(file)

\* ACAP_HTTP: without FastCGI or without a thread the program goes on, and serves nothing.
HttpStarts == hpc' \in {"accept", "none"}

\* ACAP: the saved settings replace the defaults; the HTTP thread starts.
Load ==
  /\ MainGoes(Boot, "load")
  /\ tree' = Merged
  /\ HttpStarts
  /\ starts' = starts + 1
  /\ posted' = IF failed THEN Restored(file) ELSE posted
  /\ failed' = FALSE
  /\ UNCHANGED <<nodes, change, requests, file, useVars, endVars, certVars>>

\* ACAP_HTTP_Node, for one endpoint after the other.  The certificates are loaded just
\* before theirs, unless MQTT_Init has failed before.
Register(e) ==
  /\ MainGoes(Boot, e)
  /\ IF e = "certs"
     THEN \/ CertsInit /\ nodes' = nodes \cup {e} /\ MutexIsFree
          \/ UNCHANGED <<nodes, certVars>>
     ELSE nodes' = nodes \cup {e} /\ UNCHANGED certVars
  /\ UNCHANGED <<starts, httpVars, treeVars, useVars, endVars>>

\* What one application of the settings puts into effect of those it is responsible for.
Only(own, values) == [n \in Names |-> IF n \in own THEN values[n] ELSE effect[n]]

\* resolve_model_from_settings: the engine is made for the settings of this moment.
ResolveModel == effect' = Only(AtStart, tree)

\* The first statuses; then either the engine, and apply_settings, or neither.
Statuses ==
  /\ mpc = "statuses" /\ MutexIsFree
  /\ ResolveModel
  /\ mpc' \in {"read", "run"} /\ engine' = (mpc' = "read")
  /\ UNCHANGED <<nodes, starts, httpVars, treeVars, cfg, overlapped, endVars, certVars>>

\* Bug: what was saved is applied.
AppliedStored == Restored(file)

\* What apply_settings reads.
Applied == tree

ReadSettings ==
  /\ MainGoes(Boot, "read")
  /\ cfg' = [cfg EXCEPT !["main"] = Applied]
  /\ overlapped' = (overlapped \/ hpc \in {"change", "save", "read", "configure"})
  /\ UNCHANGED <<nodes, starts, effect, engine, httpVars, treeVars, endVars, certVars>>

Configure ==
  /\ MainGoes(Boot, "configure") /\ MutexIsFree
  /\ effect' = Only(Names \ AtStart, cfg["main"])
  /\ UNCHANGED <<nodes, starts, cfg, engine, overlapped, httpVars, treeVars, endVars, certVars>>

\* SIGTERM ends the main loop.
Terminate ==
  /\ mpc = "run" /\ mpc' = Shutdown[1]
  /\ UNCHANGED <<nodes, starts, httpVars, treeVars, useVars, endVars, certVars>>

\* MQTT_Cleanup and wyoming_cleanup set the statuses of their connections.
Disconnect ==
  /\ MainGoes(Shutdown, "disconnect") /\ MutexIsFree
  /\ UNCHANGED <<nodes, starts, httpVars, treeVars, useVars, endVars, certVars>>

\* whisper_stt_cleanup and stop_input_capture set theirs.
StopInput ==
  /\ MainGoes(Shutdown, "stop") /\ MutexIsFree
  /\ UNCHANGED <<nodes, starts, httpVars, treeVars, useVars, endVars, certVars>>

\* ACAP_HTTP_Cleanup cancels the thread, and waits for its end.
CancelHttp ==
  /\ mpc = "http" /\ ~cancelled /\ cancelled' = TRUE
  /\ UNCHANGED <<mpc, nodes, starts, httpVars, treeVars, useVars, owner, freed, certVars>>

JoinHttp ==
  /\ cancelled /\ hpc = "none" /\ MainGoes(Shutdown, "http")
  /\ UNCHANGED <<nodes, starts, httpVars, treeVars, useVars, endVars, certVars>>

FreeTree ==
  /\ MainGoes(Shutdown, "tree")
  /\ freed' = TRUE /\ nodes' = {}
  /\ UNCHANGED <<starts, httpVars, treeVars, useVars, cancelled, owner, certVars>>

\* The next start, after the end or after the program was killed.
Restart ==
  /\ starts < MaxStarts
  /\ mpc' = "load" /\ hpc' = "none" /\ nodes' = {} /\ change' = {}
  /\ failed' = (failed \/ hpc = "save")
  /\ effect' = Defaults /\ engine' = FALSE /\ overlapped' = FALSE
  /\ cfg' = [t \in DOMAIN cfg |-> Defaults]
  /\ cancelled' = FALSE /\ owner' = "nobody" /\ freed' = FALSE
  /\ CertsEnd
  /\ UNCHANGED <<starts, requests, posted, tree, file>>

-----------------------------------------------------------------------------
(* The HTTP thread. *)

HttpGoes(from, to) == hpc = from /\ hpc' = to

\* Bound: a request for certificates counts 2, any other 3.
Accept(e, to) ==
  /\ requests' = requests + (IF to = "certs" THEN 2 ELSE 3)
  /\ requests' <= MaxRequests
  /\ HttpGoes("accept", IF e \in nodes THEN to ELSE "accept")

\* GET /status holds the mutex while it answers.
GetStatus ==
  /\ Accept("status", "wait")
  /\ UNCHANGED <<change, posted, mainVars, treeVars, useVars, endVars, certVars>>

LockStatus ==
  /\ HttpGoes("wait", "answer")
  /\ MutexIsFree /\ owner' = "http"
  /\ UNCHANGED <<change, requests, posted, mainVars, treeVars, useVars, cancelled, freed, certVars>>

AnswerStatus ==
  /\ HttpGoes("answer", "accept")
  /\ owner' = "nobody"
  /\ UNCHANGED <<change, requests, posted, mainVars, treeVars, useVars, cancelled, freed, certVars>>

\* POST /settings: one setting after the other, the file, then apply_settings.
PostSettings(c) ==
  /\ Accept("settings", "change")
  /\ change' = IF hpc' = "change" THEN c ELSE {}
  /\ overlapped' = IF hpc' = "change" /\ mpc = "run" THEN FALSE
                   ELSE overlapped \/ (hpc' = "change" /\ mpc = "configure")
  /\ UNCHANGED <<posted, cfg, effect, engine, mainVars, treeVars, endVars, certVars>>

\* Its value is one that no setting had before.
ChangeSetting(n) ==
  /\ hpc = "change" /\ n \in change
  /\ change' = change \ {n}
  /\ tree' = [tree EXCEPT ![n] = requests]
  /\ UNCHANGED <<hpc, requests, posted, file, failed, mainVars, useVars, endVars, certVars>>

\* ACAP_FILE_Write empties the file before it writes it.
OpenFile ==
  /\ change = {} /\ HttpGoes("change", "save")
  /\ file' = Torn
  /\ UNCHANGED <<change, requests, posted, tree, failed, mainVars, useVars, endVars, certVars>>

OpenFileFails ==
  /\ change = {} /\ HttpGoes("change", "read")
  /\ failed' = TRUE
  /\ UNCHANGED <<change, requests, posted, tree, file, mainVars, useVars, endVars, certVars>>

\* Bug: the settings are written as they were read at the start.
SavedDefaults == Defaults

Saved == tree

SaveFile ==
  /\ HttpGoes("save", "read")
  /\ file' = Saved /\ failed' = FALSE
  /\ UNCHANGED <<change, requests, posted, tree, mainVars, useVars, endVars, certVars>>

SaveFileFails ==
  /\ HttpGoes("save", "read")
  /\ failed' = TRUE
  /\ UNCHANGED <<change, requests, posted, tree, file, mainVars, useVars, endVars, certVars>>

\* Nobody looks whether the file was written; the settings take effect, and the answer
\* is that they were updated.
HttpRead ==
  /\ HttpGoes("read", "configure")
  /\ cfg' = [cfg EXCEPT !["http"] = Applied]
  /\ UNCHANGED <<change, requests, posted, effect, engine, overlapped, mainVars, treeVars, endVars, certVars>>

HttpConfigure ==
  /\ HttpGoes("configure", "accept") /\ MutexIsFree
  /\ effect' = Only(Names \ AtStart, cfg["http"])
  /\ posted' = tree
  /\ UNCHANGED <<change, requests, cfg, engine, overlapped, mainVars, treeVars, endVars, certVars>>

\* POST /certs, step by step as in CertStore.
PostCerts(r) ==
  /\ Accept("certs", "certs")
  /\ IF hpc' = "certs" THEN CertsReceive(r) ELSE UNCHANGED certVars
  /\ UNCHANGED <<change, posted, mainVars, treeVars, useVars, endVars>>

StepCerts ==
  /\ hpc = "certs" /\ cpc # "idle"
  /\ CertStep
  /\ UNCHANGED <<httpVars, mainVars, treeVars, useVars, endVars>>

AnswerCerts ==
  /\ cpc = "idle" /\ HttpGoes("certs", "accept") /\ MutexIsFree
  /\ UNCHANGED <<change, requests, posted, mainVars, treeVars, useVars, endVars, certVars>>

\* A thread that is cancelled ends where it waits for a request, writes an answer or a line
\* of the log, uses a file or connects, also half way through the settings of a request;
\* what it holds it does not give back.
CancelPoints == {"accept", "answer", "change", "save", "read", "configure", "certs"}

EndHttp ==
  /\ cancelled /\ hpc \in CancelPoints
  /\ hpc' = "none" /\ change' = {}
  /\ failed' = (failed \/ hpc = "save")
  /\ IF hpc = "certs" THEN CertsCut ELSE UNCHANGED certVars
  /\ UNCHANGED <<requests, posted, tree, file, mainVars, useVars, endVars>>

MainStep ==
  \/ Load \/ (\E e \in Endpoints : Register(e)) \/ Statuses \/ ReadSettings \/ Configure
  \/ Disconnect \/ StopInput \/ CancelHttp \/ JoinHttp \/ FreeTree

HttpStep ==
  \/ LockStatus \/ AnswerStatus
  \/ (\E n \in Names : ChangeSetting(n))
  \/ OpenFile \/ OpenFileFails \/ SaveFile \/ SaveFileFails \/ HttpRead \/ HttpConfigure
  \/ StepCerts \/ AnswerCerts \/ EndHttp

Next ==
  \/ MainStep \/ HttpStep \/ Terminate \/ Restart
  \/ GetStatus \/ (\E c \in Changes : PostSettings(c)) \/ (\E r \in Requests : PostCerts(r))

Spec == Init /\ [][Next]_vars /\ WF_vars(MainStep) /\ WF_vars(HttpStep)

-----------------------------------------------------------------------------
TypeOK ==
  /\ mpc \in {Boot[i] : i \in DOMAIN Boot} \cup {Shutdown[i] : i \in DOMAIN Shutdown}
  /\ hpc \in {"none", "accept", "wait", "answer", "change", "save", "read", "configure", "certs"}
  /\ nodes \subseteq Endpoints /\ change \subseteq Names
  /\ {tree, effect, posted} \cup {cfg[t] : t \in DOMAIN cfg} \subseteq [Names -> Values]
  /\ file \in [Names -> Values] \cup {NoSettings, Torn}
  /\ owner \in {"nobody", "http"} /\ {cancelled, freed, failed, engine, overlapped} \subseteq BOOLEAN
  /\ requests \in 0 .. MaxRequests /\ starts \in 0 .. MaxStarts
  /\ CertTypeOK

Durable == INSTANCE DurableSettings
  WITH visible <- tree, stored <- Restored(file), saving <- (hpc = "save")

\* The store of the settings keeps what DurableSettings promises.
ImplementsDurable == Durable!Spec

\* What a request was answered for with "Settings updated successfully" is in the file, or
\* what a later one put there, unless a save failed or was cut short since.
AnsweredIsStored ==
  ~failed /\ hpc # "save" => \A n \in Names : Restored(file)[n] >= posted[n]

\* While the program runs, and the engine does, the settings shown are those in effect.  Where
\* some were posted while main() applied them, those that main() had read may be in effect
\* instead, all of them, until the next are posted.  (Those of AtStart wait for the next
\* start.)
ShownIsInEffect ==
  mpc = "run" /\ hpc = "accept" /\ engine =>
    \/ \A n \in Names \ AtStart : effect[n] = tree[n]
    \/ overlapped /\ \A n \in Names \ AtStart : effect[n] = cfg["main"][n]

\* No request is under way when the tree it uses is freed.
NoRequestOnFreedTree == freed => hpc = "none"

\* Whatever the HTTP thread is at, and may hold, when the program is to end: it ends, or
\* is killed.
ShutdownEnds == mpc = Shutdown[1] ~> mpc \in {"exit", "load"}
=============================================================================
