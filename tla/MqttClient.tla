----------------------------- MODULE MqttClient -----------------------------
(***************************************************************************)
(* The MQTT client of MQTT.c on its three threads: the main thread starts  *)
(* it, publishes transcripts and cleans up; the HTTP thread changes the    *)
(* settings under config_mutex and may replace the client; the library's   *)
(* thread calls back when a connection comes or goes.  Publications do not *)
(* take the mutex.  The process may be killed at any time.                 *)
(*                                                                         *)
(* The library and the broker are external.  A client is a place in       *)
(* the library's memory, free again once it was destroyed; the library     *)
(* refuses the handle of a free place.                                     *)
(***************************************************************************)
EXTENDS Naturals

CONSTANTS
  Servers,       \* what address, port, user and password may say together
  Factory,       \* the server of settings/mqtt.json
  None,          \* nothing: no settings, no file, nobody
  Torn,          \* a file that was truncated and not written
  MaxClients, MaxRequests, MaxCrashes   \* bounds

\* "connect", which every connection notes and no start reads, is left out.
Settings == [server : Servers, tls : BOOLEAN]

Nets == {"idle", "connecting", "connected", "lost", "closing"}

\* What is in a place.
Clients == [server : Servers, tls : BOOLEAN, net : Nets]

Defaults == [server |-> Factory, tls |-> FALSE]

\* Requests of MQTT_HTTP_callback: action=disconnect, a payload, or settings
\* with a new server, a new tls, or both.
Requests ==
  [kind : {"disconnect", "payload"}]
    \cup [kind : {"set"}, server : Servers \cup {None}, tls : BOOLEAN]

Callbacks == {"onConnect", "onConnectFailure", "connectionLost", "onReconnect",
              "onDisconnect"}

ASSUME MqttAssumption ==
  /\ Factory \in Servers /\ None \notin Servers /\ None # Torn
  /\ {None, Torn} \cap Settings = {}
  /\ None \notin Clients \cup Requests \cup Callbacks \cup {"main", "http"}
  /\ MaxClients \in Nat \ {0} /\ MaxRequests \in Nat /\ MaxCrashes \in Nat

VARIABLES
  settings,    \* MQTTSettings
  file,        \* localdata/mqtt.json
  client,      \* mqtt_client: the number of a client, 0 for NULL
  clients,     \* what is in each place
  connected,   \* status mqtt.connected
  mutex,       \* config_mutex: who holds it
  mpc,         \* where the main thread is in MQTT_Init, _Publish, _Cleanup
  hpc, request,   \* where the HTTP thread is, and with what
  callback,    \* the callback the library's thread is in
  requests, crashes,      \* how many so far
  settled,     \* history variable: the settings that MQTT_Init or a request last put
               \* into effect; None once an error or a crash came in between
  raced        \* history variable: a request met MQTT_Init, or a client was
               \* given up while a callback was running

vars == <<settings, file, client, clients, connected, mutex, mpc, hpc, request,
          callback, requests, crashes, settled, raced>>

httpVars == <<hpc, request, requests>>
ghosts   == <<crashes, settled, raced>>

Client(c) == clients[c]

Places == 1 .. MaxClients
Live   == {c \in Places : clients[c] # None}

\* MQTTAsync_isConnected, FALSE for NULL.
IsConnected == client \in Live /\ Client(client).net = "connected"

\* A client's connection changes.
Moved(c, net) == [clients EXCEPT ![c].net = net]

Init ==
  /\ settings = None /\ file = None
  /\ client = 0 /\ clients = [c \in Places |-> None]
  /\ connected = FALSE
  /\ mutex = None
  /\ mpc = "load"
  /\ hpc = "idle" /\ request = None
  /\ callback = None
  /\ requests = 0 /\ crashes = 0
  /\ settled = None /\ raced = FALSE

-----------------------------------------------------------------------------
(* Pieces that both threads use. *)

\* ACAP_FILE_Write: not opened, opened (and so truncated) but not written, or
\* written.  ok is what it returns.
Write(new, ok) ==
  \/ ~ok /\ file' \in {file, Torn}
  \/ ok /\ file' = new

\* MQTT_SetupClient: a new client, or none.
CreateClient(ok) ==
  \E c \in Places \ Live :
    /\ \A d \in Places \ Live : c <= d
    /\ IF ok
       THEN /\ client' = c
            /\ clients' = [clients EXCEPT ![c] = [server |-> settings.server,
                                                 tls |-> settings.tls, net |-> "idle"]]
       ELSE client' = 0 /\ UNCHANGED clients

\* MQTTAsync_connect is accepted, or not; on a connection that is there it
\* changes nothing or starts again.
ConnectResult(accepted) ==
  IF accepted
  THEN clients' \in {Moved(client, "connecting")}
         \cup (IF IsConnected THEN {clients} ELSE {})
  ELSE UNCHANGED clients

\* MQTTAsync_connect in MQTT_Connect and, once it is accepted, the settings
\* written, with a note of it.
Connect(accepted, ok) ==
  /\ accepted => client \in Live
  /\ ok => accepted
  /\ ConnectResult(accepted)
  /\ IF accepted
     THEN Write(settings, ok)
     ELSE UNCHANGED file

\* MQTTAsync_disconnect: a connection is closed in the background; one in the
\* making may be.
DisconnectResult(accepted) ==
  /\ IsConnected => accepted
  /\ accepted => client \in Live /\ Client(client).net \in {"connected", "connecting"}
  /\ clients' = IF accepted THEN Moved(client, "closing") ELSE clients

-----------------------------------------------------------------------------
(* MQTT_Init, on the main thread, without the mutex. *)

InitLoad ==
  /\ mpc = "load"
  /\ settings' = IF file \in {None, Torn} THEN Defaults ELSE file
  /\ mpc' = "setup"
  /\ UNCHANGED <<file, client, clients, connected, mutex, httpVars, callback,
                 ghosts>>

InitSetup ==
  /\ mpc = "setup"
  /\ \E ok \in BOOLEAN : CreateClient(ok) /\ mpc' = IF ok THEN "connect" ELSE "run"
  /\ UNCHANGED <<settings, file, connected, mutex, httpVars, callback,
                 ghosts>>

\* MQTT_Connect shows that it begins, and needs a client.
InitConnect ==
  /\ mpc = "connect"
  /\ connected' = FALSE
  /\ \E accepted, ok \in BOOLEAN :
       Connect(accepted, ok) /\ settled' = IF ok THEN settings ELSE None
  /\ mpc' = "run"
  /\ UNCHANGED <<settings, client, mutex, httpVars, callback, crashes, raced>>

(* MQTT_Publish_JSON of a transcript: the client is looked at, and once more in   *)
(* MQTT_Publish, then used.                                                       *)

PublishJson ==
  /\ mpc = "run"
  /\ IsConnected
  /\ mpc' = "publish"
  /\ UNCHANGED <<settings, file, client, clients, connected, mutex, httpVars,
                 callback, ghosts>>

PublishCheck ==
  /\ mpc = "publish"
  /\ mpc' = IF IsConnected THEN "send" ELSE "run"
  /\ UNCHANGED <<settings, file, client, clients, connected, mutex, httpVars,
                 callback, ghosts>>

PublishSend ==
  /\ mpc = "send"
  /\ mpc' = "run"
  /\ UNCHANGED <<settings, file, client, clients, connected, mutex, httpVars,
                 callback, ghosts>>

-----------------------------------------------------------------------------
(* MQTT_Cleanup, on the main thread, when the program ends. *)

Quit ==
  /\ mpc = "run"
  /\ mpc' = "lock"
  /\ UNCHANGED <<settings, file, client, clients, connected, mutex, httpVars,
                 callback, ghosts>>

\* A connection is closed without the mutex; without one the client goes at once.
CleanupLock ==
  /\ mpc = "lock"
  /\ mutex = None
  /\ IF IsConnected
     THEN mpc' = "disconnect" /\ UNCHANGED mutex
     ELSE mpc' = "destroy" /\ mutex' = "main"
  /\ UNCHANGED <<settings, file, client, clients, connected, httpVars, callback,
                 ghosts>>

\* The HTTP thread may have replaced the client meanwhile.
CleanupDisconnect ==
  /\ mpc = "disconnect"
  /\ \E accepted \in BOOLEAN :
       IF client = 0 THEN UNCHANGED clients ELSE DisconnectResult(accepted)
  /\ raced' = (raced \/ callback # None)
  /\ mpc' = "wait"
  /\ UNCHANGED <<settings, file, client, connected, mutex, httpVars, callback,
                 crashes, settled>>

\* Waits for the end of the connection, but no longer than 5 s.
CleanupWait ==
  /\ mpc = "wait"
  /\ mutex = None
  /\ mutex' = "main"
  /\ mpc' = "destroy"
  /\ UNCHANGED <<settings, file, client, clients, connected, httpVars, callback,
                 ghosts>>

Destroyed(c) == [clients EXCEPT ![c] = None]

CleanupDestroy ==
  /\ mpc = "destroy"
  /\ IF client = 0
     THEN UNCHANGED <<clients, raced>>
     ELSE /\ clients' = Destroyed(client)
          /\ raced' = (raced \/ callback # None)
  /\ mpc' = "clear"
  /\ UNCHANGED <<settings, file, client, connected, mutex, httpVars, callback,
                 crashes, settled>>

CleanupClear ==
  /\ mpc = "clear"
  /\ client' = 0
  /\ settings' = None
  /\ mutex' = None
  /\ mpc' = "done"
  /\ UNCHANGED <<file, clients, connected, httpVars, callback, ghosts>>

-----------------------------------------------------------------------------
(* MQTT_HTTP_callback.  One request at a time. *)

\* A request arrives; the endpoint is registered before MQTT_Init goes on.
Arrive(r) ==
  /\ hpc = "idle" /\ requests < MaxRequests
  /\ hpc' = "lock" /\ request' = r /\ requests' = requests + 1
  /\ raced' = (raced \/ mpc \in {"load", "setup", "connect"})
  /\ UNCHANGED <<settings, file, client, clients, connected, mutex, mpc, callback,
                 crashes, settled>>

\* Bug: an early return that forgets the mutex.
AnswerLocked ==
  /\ hpc' = "idle" /\ request' = None
  /\ UNCHANGED <<mutex, requests>>

\* The callback returns with an answer and without the mutex.
Answer ==
  /\ hpc' = "idle" /\ request' = None
  /\ mutex' = None
  /\ UNCHANGED requests

Go(pc) == hpc' = pc /\ UNCHANGED <<request, requests>>

HttpLock ==
  /\ hpc = "lock"
  /\ mutex = None
  /\ IF settings = None
     THEN Answer /\ UNCHANGED settings
     ELSE /\ mutex' = "http"
          /\ CASE request.kind = "disconnect" -> Go("disconnect") /\ UNCHANGED settings
               [] request.kind = "payload" -> Go("payload") /\ UNCHANGED settings
               [] request.kind = "set" ->
                    /\ Go("save")
                    /\ settings' = [settings EXCEPT
                         !.server = IF request.server = None THEN @ ELSE request.server,
                         !.tls = request.tls]
  /\ UNCHANGED <<file, client, clients, connected, mpc, callback, ghosts>>

\* action=disconnect: the outcome of the write is not looked at.
HttpDisconnect ==
  /\ hpc = "disconnect"
  /\ connected' = IF client = 0 THEN connected ELSE FALSE
  /\ \E accepted, ok \in BOOLEAN :
       IF client # 0 /\ accepted
       THEN /\ DisconnectResult(TRUE)
            /\ Write(settings, ok)
            /\ settled' = IF ok THEN settled ELSE None
       ELSE /\ client # 0 => DisconnectResult(FALSE)
            /\ UNCHANGED <<clients, file, settled>>
  /\ Answer
  /\ raced' = (raced \/ callback # None)
  /\ UNCHANGED <<settings, client, mpc, callback, crashes>>

HttpPayload ==
  /\ hpc = "payload"
  /\ \E ok \in BOOLEAN : Write(settings, ok) /\ settled' = IF ok THEN settled ELSE None
  /\ Answer
  /\ UNCHANGED <<settings, client, clients, connected, mpc, callback, crashes, raced>>

\* Bug: a new server is noted but the client kept.
NeedsNothing(r) == FALSE

\* full_reinit_required: tls is not looked at.
NeedsClient(r) == r.server # None

HttpSave ==
  /\ hpc = "save"
  /\ \E ok \in BOOLEAN :
       /\ Write(settings, ok)
       /\ IF ok
          THEN /\ Go(IF NeedsClient(request) THEN "retire" ELSE "connect")
               /\ UNCHANGED <<mutex, settled>>
          ELSE Answer /\ settled' = None
  /\ UNCHANGED <<settings, client, clients, connected, mpc, callback, crashes, raced>>

\* Bug: the client is given up without being destroyed.
HttpForget ==
  /\ hpc = "destroy"
  /\ UNCHANGED clients
  /\ raced' = (raced \/ callback # None)
  /\ Go("clear")
  /\ UNCHANGED <<settings, file, client, connected, mutex, mpc, callback, crashes,
                 settled>>

\* The old client is disconnected, then destroyed.
HttpRetire ==
  /\ hpc = "retire"
  /\ IF client = 0
     THEN Go("setup") /\ UNCHANGED <<clients, connected>>
     ELSE /\ connected' = FALSE
          /\ \E accepted \in BOOLEAN : DisconnectResult(accepted)
          /\ Go("destroy")
  /\ raced' = (raced \/ callback # None)
  /\ UNCHANGED <<settings, file, client, mutex, mpc, callback, crashes, settled>>

HttpDestroy ==
  /\ hpc = "destroy"
  /\ clients' = IF client = 0 THEN clients ELSE Destroyed(client)
  /\ raced' = (raced \/ callback # None)
  /\ Go("clear")
  /\ UNCHANGED <<settings, file, client, connected, mutex, mpc, callback, crashes,
                 settled>>

HttpClear ==
  /\ hpc = "clear"
  /\ client' = 0
  /\ Go("setup")
  /\ UNCHANGED <<settings, file, clients, connected, mutex, mpc, callback, ghosts>>

HttpSetup ==
  /\ hpc = "setup"
  /\ \E ok \in BOOLEAN :
       /\ CreateClient(ok)
       /\ IF ok
          THEN Go("connect") /\ UNCHANGED <<mutex, settled>>
          ELSE Answer /\ settled' = None
  /\ UNCHANGED <<settings, file, connected, mpc, callback, crashes, raced>>

HttpConnect ==
  /\ hpc = "connect"
  /\ connected' = FALSE
  /\ \E accepted, ok \in BOOLEAN :
       /\ Connect(accepted, ok)
       /\ settled' = IF ok /\ (settled # None \/ NeedsClient(request))
                     THEN settings ELSE None
  /\ Answer
  /\ UNCHANGED <<settings, client, mpc, callback, crashes, raced>>

Http == \/ HttpLock \/ HttpDisconnect \/ HttpPayload \/ HttpSave \/ HttpRetire
        \/ HttpDestroy \/ HttpClear \/ HttpSetup \/ HttpConnect

-----------------------------------------------------------------------------
(* The library: a connection changes, and the callback for it begins. *)

Event(c, from, to, cb) ==
  /\ callback = None
  /\ c \in Live /\ Client(c).net = from
  /\ clients' = Moved(c, to)
  /\ callback' = cb
  /\ UNCHANGED <<settings, file, client, connected, mutex, mpc, httpVars, ghosts>>

Connected(c)    == Event(c, "connecting", "connected", "onConnect")
Refused(c)      == Event(c, "connecting", "idle", "onConnectFailure")
Lost(c)         == Event(c, "connected", "lost", "connectionLost")
Reconnected(c)  == Event(c, "lost", "connected", "onReconnect")
Disconnected(c) == Event(c, "closing", "idle", "onDisconnect")

\* Bug: the loss of a connection is not shown.
OnlineUnlessClosed == callback \notin {"onConnectFailure", "onDisconnect"}

\* What the callbacks set mqtt.connected to.
Online == callback \in {"onConnect", "onReconnect"}

\* The callback sets the status and returns.  (What onConnect publishes has no
\* effect on this state.)
Callback ==
  /\ callback # None
  /\ connected' = Online
  /\ callback' = None
  /\ UNCHANGED <<settings, file, client, clients, mutex, mpc, httpVars, ghosts>>

\* The process is killed, perhaps while it writes, and started again.
Crash ==
  /\ crashes < MaxCrashes
  /\ crashes' = crashes + 1
  /\ \/ UNCHANGED file
     \/ /\ mpc = "connect" \/ hpc \in {"disconnect", "payload", "save", "connect"}
        /\ file' = Torn
  /\ LET saved == {"retire", "destroy", "clear", "setup", "connect"}
     IN  settled' = IF file' = Torn \/ hpc \in saved THEN None ELSE settled
  /\ settings' = None /\ client' = 0
  /\ clients' = [c \in Places |-> None]
  /\ connected' = FALSE /\ mutex' = None /\ mpc' = "load"
  /\ hpc' = "idle" /\ request' = None
  /\ callback' = None
  /\ UNCHANGED <<requests, raced>>

Main == \/ InitLoad \/ InitSetup \/ InitConnect
        \/ CleanupLock \/ CleanupDisconnect \/ CleanupWait \/ CleanupDestroy
        \/ CleanupClear

Publish == PublishJson \/ PublishCheck \/ PublishSend

Library == \E c \in Places :
             \/ Connected(c) \/ Refused(c) \/ Lost(c) \/ Reconnected(c)
             \/ Disconnected(c)

Next ==
  \/ Main \/ Publish \/ Quit
  \/ \E r \in Requests : Arrive(r)
  \/ Http
  \/ Library \/ Callback
  \/ Crash

\* A thread goes on once it has begun, a callback returns; nobody need send a
\* request or end the program, and no connection need be made or lost.
Spec == Init /\ [][Next]_vars
          /\ WF_vars(Main) /\ WF_vars(PublishCheck \/ PublishSend) /\ WF_vars(Http) /\ WF_vars(Callback)

-----------------------------------------------------------------------------
TypeOK ==
  /\ settings \in Settings \cup {None}
  /\ file \in Settings \cup {None, Torn}
  /\ client \in Places \cup {0}
  /\ clients \in [Places -> Clients \cup {None}]
  /\ connected \in BOOLEAN
  /\ mutex \in {None, "main", "http"}
  /\ mpc \in {"load", "setup", "connect", "run", "publish", "send", "lock", "disconnect",
              "wait", "destroy", "clear", "done"}
  /\ hpc \in {"idle", "lock", "disconnect", "payload", "save", "retire", "destroy",
              "clear", "setup", "connect"}
  /\ request \in Requests \cup {None}
  /\ hpc = "idle" <=> request = None
  /\ callback \in Callbacks \cup {None}
  /\ requests \in 0 .. MaxRequests /\ crashes \in 0 .. MaxCrashes
  /\ settled \in Settings \cup {None}
  /\ raced \in BOOLEAN

\* A client that nobody has a handle of is destroyed: changing the settings
\* again and again, or cleaning up in the middle of it, leaves none behind.
NoClientLeaks == ~raced => Live \subseteq {client}

\* The settings that were put into effect, at the start or with the answer
\* "Connecting", are those a restart finds, and the client was made for their
\* server.
SettledIsKept ==
  settled # None /\ ~raced /\ hpc = "idle" =>
    /\ file \in Settings /\ file.server = settled.server /\ file.tls = settled.tls
    /\ client \in Live => Client(client).server = settled.server

\* When no thread is in the middle of something, the status does not show a
\* connection that was lost or never made.  (Without a client it may: a late
\* onConnect between MQTT_Disconnect and the destruction, and then no new client.)
StatusIsTrue ==
  connected /\ ~raced /\ callback = None /\ hpc = "idle" /\ mpc = "run" /\ client \in Live =>
    Client(client).net \in {"connected", "connecting", "closing"}

\* The mutex is given back on every path: requests are answered, and the end of the
\* program does not hang on it, or on a connection that does not close.
MutexIsGivenBack ==
  /\ hpc # "idle" ~> hpc = "idle"
  /\ mpc = "lock" ~> mpc \in {"done", "load"}
=============================================================================
