--------------------------- MODULE MqttClientProofs ---------------------------
(***************************************************************************)
(* Proofs about MqttClient for all servers and any number of places,       *)
(* requests and crashes: no client is left behind, and the settings that   *)
(* were put into effect are those of the file and of the client, whatever  *)
(* a request, the end of the program, a callback and a kill do in between. *)
(***************************************************************************)
EXTENDS MqttClient, TLAPS

Starting == {"load", "setup", "connect"}
Replacing == {"retire", "destroy", "clear", "setup", "connect"}
Changes == [kind : {"set"}, server : Servers \cup {None}, tls : BOOLEAN]

\* The types, in parts.
Placed == client \in Places \cup {0} /\ clients \in [Places -> Clients \cup {None}]

SettingsTyped ==
  /\ settings \in Settings \cup {None} /\ file \in Settings \cup {None, Torn}
  /\ settled \in Settings \cup {None}

PlacesTyped ==
  /\ mutex \in {None, "main", "http"}
  /\ mpc \in {"load", "setup", "connect", "run", "publish", "send", "lock", "disconnect",
              "wait", "destroy", "clear", "done"}
  /\ hpc \in {"idle", "lock", "disconnect", "payload", "save", "retire", "destroy",
              "clear", "setup", "connect"}
  /\ request \in Requests \cup {None}
  /\ hpc = "idle" <=> request = None
  /\ callback \in Callbacks \cup {None} /\ connected \in BOOLEAN /\ raced \in BOOLEAN

CountsTyped == requests \in 0 .. MaxRequests /\ crashes \in 0 .. MaxCrashes

Typed == Placed /\ SettingsTyped /\ PlacesTyped /\ CountsTyped

\* Who holds the mutex, and what else a thread relies on where it is.
Locks ==
  /\ mutex = "http" <=> hpc \notin {"idle", "lock"}
  /\ mutex = "main" <=> mpc \in {"destroy", "clear"}
  /\ settings = None <=> mpc \in {"load", "done"}
  /\ mutex = "http" => settings # None
  /\ hpc \in Replacing \cup {"save"} => request \in Changes

\* The one client there is, where a thread is about to give it up or to make it.
Owned ==
  ~raced =>
    /\ mpc \in Starting => hpc = "idle"
    /\ mpc \in {"load", "setup"} \/ hpc = "setup" => client = 0
    /\ Live \subseteq {client}
    /\ mpc = "clear" \/ hpc = "clear" => client \notin Live

\* The settings in effect are in the file until the next ones are written, and the
\* client has their server until it is replaced.
Settled ==
  ~raced /\ settled # None /\ hpc \notin Replacing =>
    /\ file = settled
    /\ hpc # "save" => settings \in {settled, None}
    /\ hpc = "save" /\ ~NeedsClient(request) => settings.server = settled.server
    /\ client \in Live => clients[client].server = settled.server

\* A client that was just made has the server of the settings, and so has one that is
\* kept.
Fits ==
  ~raced /\ client \in Live =>
    /\ mpc = "connect" => clients[client].server = settings.server
    /\ hpc = "connect" /\ (settled # None \/ NeedsClient(request)) =>
         clients[client].server = settings.server

\* What the status shows of the client.  A callback that runs has a client, whose
\* connection is at worst being made anew or closed since the callback began; and the
\* status that the last one left is right until a thread is about to connect, which
\* takes the status back.
Up == {"connected", "connecting", "closing"}

Shown ==
  ~raced =>
    /\ callback # None => client \in Live
    /\ client \in Live /\ Online => clients[client].net \in Up
    /\ client \in Live /\ callback = None /\ connected /\ "connect" \notin {mpc, hpc} =>
         clients[client].net \in Up

IInv == Typed /\ Locks /\ Owned /\ Settled /\ Fits /\ Shown

-----------------------------------------------------------------------------
(* What the constants are, and what happens to the clients. *)

LEMMA NoneIs ==
  /\ None \notin Servers /\ None # Torn /\ None \notin Settings /\ Torn \notin Settings
  /\ None \notin Clients /\ None \notin Requests /\ None \notin Callbacks
  /\ None # "main" /\ None # "http"
  BY MqttAssumption, Zenon

LEMMA FactoryIs == Defaults \in Settings
<1>1. Factory \in Servers
  BY MqttAssumption, Zenon
<1> QED BY <1>1 DEF Defaults, Settings

LEMMA BoundsAre == MaxClients \in Nat /\ MaxRequests \in Nat /\ MaxCrashes \in Nat
<1>1. MaxClients \in Nat \ {0} /\ MaxRequests \in Nat /\ MaxCrashes \in Nat
  BY MqttAssumption, Zenon
<1> QED BY <1>1

\* The clients are those they were, of the same servers.
SameClients ==
  /\ clients' \in [Places -> Clients \cup {None}]
  /\ Live' = Live
  /\ \A c \in Live : clients'[c].server = clients[c].server

LEMMA LiveIs ==
  ASSUME clients \in [Places -> Clients \cup {None}], NEW c \in Live
  PROVE  c \in Places /\ c # 0 /\ clients[c] \in Clients
  BY DEF Live, Places

LEMMA Unchanged ==
  ASSUME Placed, clients' = clients
  PROVE  SameClients
  BY DEF Placed, SameClients, Live

LEMMA MovedIs ==
  ASSUME Placed, NEW c \in Live, NEW net \in Nets, clients' = Moved(c, net)
  PROVE  SameClients
<1>1. c \in Places /\ clients[c] \in Clients
  BY LiveIs DEF Placed
<1>2. [clients[c] EXCEPT !.net = net] \in Clients
      /\ [clients[c] EXCEPT !.net = net].server = clients[c].server
  BY <1>1 DEF Clients
<1>3. clients' = [clients EXCEPT ![c] = [clients[c] EXCEPT !.net = net]]
  BY DEF Moved
<1>4. clients' \in [Places -> Clients \cup {None}]
  BY <1>1, <1>2, <1>3 DEF Placed
<1>5. Live' = Live
  BY <1>1, <1>2, <1>3, NoneIs DEF Placed, Live
<1>6. \A d \in Live : clients'[d].server = clients[d].server
  BY <1>1, <1>2, <1>3 DEF Placed, Live
<1> QED BY <1>4, <1>5, <1>6 DEF SameClients

LEMMA ConnectIs ==
  ASSUME Placed, NEW accepted \in BOOLEAN, NEW ok \in BOOLEAN, Connect(accepted, ok)
  PROVE  SameClients
<1>1. CASE accepted
  <2>1. client \in Live /\ (clients' = Moved(client, "connecting") \/ clients' = clients)
    BY <1>1 DEF Connect, ConnectResult
  <2>2. "connecting" \in Nets
    BY DEF Nets
  <2> QED BY <2>1, <2>2, MovedIs, Unchanged
<1>2. CASE ~accepted
  BY <1>2, Unchanged DEF Connect, ConnectResult
<1> QED BY <1>1, <1>2

LEMMA DisconnectIs ==
  ASSUME Placed, NEW accepted \in BOOLEAN, DisconnectResult(accepted)
  PROVE  SameClients
<1>1. CASE accepted
  <2>1. client \in Live /\ clients' = Moved(client, "closing")
    BY <1>1 DEF DisconnectResult
  <2>2. "closing" \in Nets
    BY DEF Nets
  <2> QED BY <2>1, <2>2, MovedIs
<1>2. CASE ~accepted
  BY <1>2, Unchanged DEF DisconnectResult
<1> QED BY <1>1, <1>2

LEMMA DestroyedIs ==
  ASSUME Placed, client # 0, clients' = Destroyed(client)
  PROVE  /\ clients' \in [Places -> Clients \cup {None}]
         /\ Live' = Live \ {client}
         /\ \A c \in Live \ {client} : clients'[c] = clients[c]
  BY DEF Placed, Destroyed, Live

LEMMA CreatedIs ==
  ASSUME Placed, settings \in Settings, NEW ok \in BOOLEAN, CreateClient(ok)
  PROVE  /\ client' \in Places \cup {0} /\ clients' \in [Places -> Clients \cup {None}]
         /\ \A c \in Live : clients'[c] = clients[c]
         /\ ok => client' \in Places \ Live /\ Live' = Live \cup {client'}
                  /\ clients'[client'].server = settings.server
         /\ ~ok => client' = 0 /\ clients' = clients /\ Live' = Live
<1>1. CASE ~ok
  BY <1>1 DEF CreateClient, Placed, Live
<1>2. CASE ok
  <2> DEFINE new == [server |-> settings.server, tls |-> settings.tls, net |-> "idle"]
  <2>1. new \in Clients /\ new.server = settings.server
    BY DEF Settings, Clients, Nets
  <2>2. PICK c \in Places \ Live : client' = c /\ clients' = [clients EXCEPT ![c] = new]
    BY <1>2 DEF CreateClient
  <2> HIDE DEF new
  <2>3. clients' \in [Places -> Clients \cup {None}] /\ clients'[c] = new
    BY <2>1, <2>2 DEF Placed
  <2>4. Live' = Live \cup {c}
    BY <2>1, <2>2, <2>3, NoneIs DEF Placed, Live
  <2>5. \A d \in Live : clients'[d] = clients[d]
    BY <2>2 DEF Placed, Live
  <2> QED BY <1>2, <2>1, <2>2, <2>3, <2>4, <2>5
<1> QED BY <1>1, <1>2

LEMMA WrittenIs ==
  ASSUME NEW new \in Settings, NEW ok \in BOOLEAN, Write(new, ok),
         file \in Settings \cup {None, Torn}
  PROVE  file' \in Settings \cup {None, Torn} /\ (ok => file' = new)
  BY DEF Write

-----------------------------------------------------------------------------
(* Each step keeps it. *)

\* Steps that neither make nor destroy a client.
LEMMA KeepsClients ==
  ASSUME Typed,
         InitLoad \/ InitConnect \/ PublishJson \/ PublishCheck \/ PublishSend \/ Quit \/
         CleanupLock \/ CleanupDisconnect \/ CleanupWait \/ CleanupClear \/ HttpLock \/
         HttpDisconnect \/ HttpPayload \/ HttpSave \/ HttpRetire \/ HttpClear \/
         HttpConnect \/ Callback \/ (\E r \in Requests : Arrive(r))
  PROVE  SameClients
<1>1. CASE InitLoad
  BY <1>1, Unchanged DEF Typed, InitLoad
<1>2. CASE InitConnect
  <2>1. PICK accepted, ok \in BOOLEAN : Connect(accepted, ok)
    BY <1>2 DEF InitConnect
  <2> QED BY <2>1, ConnectIs DEF Typed
<1>3. CASE PublishJson
  BY <1>3, Unchanged DEF Typed, PublishJson
<1>4. CASE PublishCheck
  BY <1>4, Unchanged DEF Typed, PublishCheck
<1>5. CASE PublishSend
  BY <1>5, Unchanged DEF Typed, PublishSend
<1>6. CASE Quit
  BY <1>6, Unchanged DEF Typed, Quit
<1>7. CASE CleanupLock
  BY <1>7, Unchanged DEF Typed, CleanupLock
<1>8. CASE CleanupDisconnect
  <2>1. clients' = clients \/ \E accepted \in BOOLEAN : DisconnectResult(accepted)
    BY <1>8 DEF CleanupDisconnect
  <2> QED BY <2>1, DisconnectIs, Unchanged DEF Typed
<1>9. CASE CleanupWait
  BY <1>9, Unchanged DEF Typed, CleanupWait
<1>10. CASE CleanupClear
  BY <1>10, Unchanged DEF Typed, CleanupClear
<1>11. CASE HttpLock
  BY <1>11, Unchanged DEF Typed, HttpLock
<1>12. CASE HttpDisconnect
  <2>1. clients' = clients \/ \E accepted \in BOOLEAN : DisconnectResult(accepted)
    BY <1>12 DEF HttpDisconnect
  <2> QED BY <2>1, DisconnectIs, Unchanged DEF Typed
<1>13. CASE HttpPayload
  BY <1>13, Unchanged DEF Typed, HttpPayload
<1>14. CASE HttpSave
  BY <1>14, Unchanged DEF Typed, HttpSave
<1>15. CASE HttpRetire
  <2>1. clients' = clients \/ \E accepted \in BOOLEAN : DisconnectResult(accepted)
    BY <1>15 DEF HttpRetire
  <2> QED BY <2>1, DisconnectIs, Unchanged DEF Typed
<1>16. CASE HttpClear
  BY <1>16, Unchanged DEF Typed, HttpClear
<1>17. CASE HttpConnect
  <2>1. PICK accepted, ok \in BOOLEAN : Connect(accepted, ok)
    BY <1>17 DEF HttpConnect
  <2> QED BY <2>1, ConnectIs DEF Typed
<1>18. CASE Callback
  BY <1>18, Unchanged DEF Typed, Callback
<1>19. ASSUME NEW r \in Requests, Arrive(r) PROVE SameClients
  BY <1>19, Unchanged DEF Typed, Arrive
<1> QED BY <1>1, <1>2, <1>3, <1>4, <1>5, <1>6, <1>7, <1>8, <1>9, <1>10, <1>11, <1>12, <1>13,
          <1>14, <1>15, <1>16, <1>17, <1>18, <1>19

LEMMA EventKeepsClients ==
  ASSUME Typed, NEW c \in Places, NEW from \in Nets, NEW to \in Nets, NEW cb \in Callbacks,
         Event(c, from, to, cb)
  PROVE  SameClients
<1>1. c \in Live /\ clients' = Moved(c, to)
  BY DEF Event
<1> QED BY <1>1, MovedIs DEF Typed

LEMMA TypesAre == TypeOK <=> Typed
  BY DEF TypeOK, Typed, Placed, SettingsTyped, PlacesTyped, CountsTyped

\* A thread that has loaded the settings, or holds the mutex, finds them there.
LEMMA SettingsAreThere ==
  ASSUME Typed, Locks, mpc \in {"setup", "connect"} \/ hpc \notin {"idle", "lock"}
  PROVE  settings \in Settings
  BY DEF Typed, SettingsTyped, Locks

LEMMA KindIs ==
  ASSUME NEW r \in Requests
  PROVE  r.kind \in {"disconnect", "payload", "set"} /\ (r.kind = "set" => r \in Changes)
  BY DEF Requests, Changes

\* The beginning of a request, with the mutex.
LEMMA LockIs ==
  ASSUME Typed, HttpLock
  PROVE  /\ hpc = "lock" /\ mutex = None /\ request \in Requests
         /\ UNCHANGED <<requests, file, client, clients, connected, mpc, callback, ghosts>>
         /\ \/ /\ settings = None /\ UNCHANGED settings
               /\ hpc' = "idle" /\ request' = None /\ mutex' = None
            \/ /\ settings # None /\ UNCHANGED settings
               /\ hpc' \in {"disconnect", "payload"} /\ request' = request /\ mutex' = "http"
            \/ /\ settings # None /\ settings' \in Settings
               /\ request.server = None => settings'.server = settings.server
               /\ request \in Changes
               /\ hpc' = "save" /\ request' = request /\ mutex' = "http"
<1>1. hpc = "lock" /\ mutex = None /\ request \in Requests
  BY DEF HttpLock, Typed, PlacesTyped
<1>2. UNCHANGED <<file, client, clients, connected, mpc, callback, ghosts>>
  BY DEF HttpLock
<1>3. CASE settings = None
  BY <1>1, <1>2, <1>3 DEF HttpLock, Answer
<1>4. CASE settings # None /\ request.kind \in {"disconnect", "payload"}
  BY <1>1, <1>2, <1>4 DEF HttpLock, Go
<1>5. CASE settings # None /\ request.kind = "set"
  <2>1. settings \in Settings /\ request \in Changes
    BY <1>1, <1>5, KindIs DEF Typed, SettingsTyped
  <2>2. request.server \in Servers \cup {None} /\ request.tls \in BOOLEAN
    BY <2>1 DEF Changes
  <2>3. settings' = [server |-> IF request.server = None THEN settings.server ELSE request.server,
                     tls |-> request.tls]
    BY <1>5, <2>1 DEF HttpLock, Settings
  <2>4. settings' \in Settings /\ (request.server = None => settings'.server = settings.server)
    BY <2>1, <2>2, <2>3 DEF Settings
  <2>5. hpc' = "save" /\ request' = request /\ mutex' = "http" /\ UNCHANGED requests
    BY <1>5 DEF HttpLock, Go
  <2> QED BY <1>1, <1>2, <1>5, <2>1, <2>4, <2>5
<1> QED BY <1>1, <1>3, <1>4, <1>5, KindIs

\* Every step keeps the types of the settings.
LEMMA StepSettings ==
  ASSUME IInv, [Next]_vars
  PROVE  SettingsTyped'
<1>1. CASE InitLoad
  BY <1>1, FactoryIs DEF InitLoad, IInv, Typed, SettingsTyped, httpVars, ghosts
<1>2. CASE InitSetup
  BY <1>2 DEF InitSetup, CreateClient, IInv, Typed, SettingsTyped, httpVars, ghosts
<1>3. CASE InitConnect
  <2>1. settings \in Settings
    BY <1>3, SettingsAreThere DEF IInv, InitConnect
  <2>2. PICK accepted, ok \in BOOLEAN :
          /\ (accepted /\ ok) \/ ~ok
          /\ Write(settings, ok) \/ UNCHANGED file
          /\ settled' \in {settings, settled, None}
    BY <1>3 DEF InitConnect, Connect
  <2>3. file' \in Settings \cup {None, Torn}
    BY <2>1, <2>2, WrittenIs DEF IInv, Typed, SettingsTyped
  <2> QED BY <1>3, <2>1, <2>2, <2>3 DEF InitConnect, IInv, Typed, SettingsTyped
<1>4. CASE PublishJson
  BY <1>4 DEF PublishJson, IInv, Typed, SettingsTyped, httpVars, ghosts
<1>5. CASE PublishCheck
  BY <1>5 DEF PublishCheck, IInv, Typed, SettingsTyped, httpVars, ghosts
<1>6. CASE PublishSend
  BY <1>6 DEF PublishSend, IInv, Typed, SettingsTyped, httpVars, ghosts
<1>7. CASE Quit
  BY <1>7 DEF Quit, IInv, Typed, SettingsTyped, httpVars, ghosts
<1>8. CASE CleanupLock
  BY <1>8 DEF CleanupLock, IInv, Typed, SettingsTyped, httpVars, ghosts
<1>9. CASE CleanupDisconnect
  BY <1>9 DEF CleanupDisconnect, IInv, Typed, SettingsTyped, httpVars, ghosts
<1>10. CASE CleanupWait
  BY <1>10 DEF CleanupWait, IInv, Typed, SettingsTyped, httpVars, ghosts
<1>11. CASE CleanupDestroy
  BY <1>11 DEF CleanupDestroy, IInv, Typed, SettingsTyped, httpVars, ghosts
<1>12. CASE CleanupClear
  BY <1>12 DEF CleanupClear, IInv, Typed, SettingsTyped, httpVars, ghosts
<1>13. ASSUME NEW r \in Requests, Arrive(r) PROVE SettingsTyped'
  BY <1>13 DEF Arrive, IInv, Typed, SettingsTyped, httpVars, ghosts
<1>14. CASE HttpLock
  BY <1>14, LockIs DEF ghosts, IInv, Typed, SettingsTyped
<1>15. CASE HttpDisconnect
  <2>1. settings \in Settings
    BY <1>15, SettingsAreThere DEF IInv, HttpDisconnect
  <2>2. PICK accepted, ok \in BOOLEAN :
          /\ (accepted /\ ok) \/ ~ok
          /\ Write(settings, ok) \/ UNCHANGED file
          /\ settled' \in {settings, settled, None}
    BY <1>15 DEF HttpDisconnect, Connect
  <2>3. file' \in Settings \cup {None, Torn}
    BY <2>1, <2>2, WrittenIs DEF IInv, Typed, SettingsTyped
  <2> QED BY <1>15, <2>1, <2>2, <2>3 DEF HttpDisconnect, IInv, Typed, SettingsTyped
<1>16. CASE HttpPayload
  <2>1. settings \in Settings
    BY <1>16, SettingsAreThere DEF IInv, HttpPayload
  <2>2. PICK accepted, ok \in BOOLEAN :
          /\ (accepted /\ ok) \/ ~ok
          /\ Write(settings, ok) \/ UNCHANGED file
          /\ settled' \in {settings, settled, None}
    BY <1>16 DEF HttpPayload, Connect
  <2>3. file' \in Settings \cup {None, Torn}
    BY <2>1, <2>2, WrittenIs DEF IInv, Typed, SettingsTyped
  <2> QED BY <1>16, <2>1, <2>2, <2>3 DEF HttpPayload, IInv, Typed, SettingsTyped
<1>17. CASE HttpSave
  <2>1. settings \in Settings
    BY <1>17, SettingsAreThere DEF IInv, HttpSave
  <2>2. PICK accepted, ok \in BOOLEAN :
          /\ (accepted /\ ok) \/ ~ok
          /\ Write(settings, ok) \/ UNCHANGED file
          /\ settled' \in {settings, settled, None}
    BY <1>17 DEF HttpSave, Connect
  <2>3. file' \in Settings \cup {None, Torn}
    BY <2>1, <2>2, WrittenIs DEF IInv, Typed, SettingsTyped
  <2> QED BY <1>17, <2>1, <2>2, <2>3 DEF HttpSave, IInv, Typed, SettingsTyped
<1>18. CASE HttpRetire
  BY <1>18 DEF HttpRetire, Go, IInv, Typed, SettingsTyped, httpVars, ghosts
<1>19. CASE HttpDestroy
  BY <1>19 DEF HttpDestroy, Go, IInv, Typed, SettingsTyped, httpVars, ghosts
<1>20. CASE HttpClear
  BY <1>20 DEF HttpClear, Go, IInv, Typed, SettingsTyped, httpVars, ghosts
<1>21. CASE HttpSetup
  BY <1>21 DEF HttpSetup, Answer, Go, IInv, Typed, SettingsTyped, httpVars, ghosts
<1>22. CASE HttpConnect
  <2>1. settings \in Settings
    BY <1>22, SettingsAreThere DEF IInv, HttpConnect
  <2>2. PICK accepted, ok \in BOOLEAN :
          /\ (accepted /\ ok) \/ ~ok
          /\ Write(settings, ok) \/ UNCHANGED file
          /\ settled' \in {settings, settled, None}
    BY <1>22 DEF HttpConnect, Connect
  <2>3. file' \in Settings \cup {None, Torn}
    BY <2>1, <2>2, WrittenIs DEF IInv, Typed, SettingsTyped
  <2> QED BY <1>22, <2>1, <2>2, <2>3 DEF HttpConnect, IInv, Typed, SettingsTyped
<1>23. ASSUME NEW c \in Places, NEW from \in Nets, NEW to \in Nets, NEW cb \in Callbacks,
             Event(c, from, to, cb)
      PROVE  SettingsTyped'
  BY <1>23 DEF Event, IInv, Typed, SettingsTyped, httpVars, ghosts
<1>24. CASE Callback
  BY <1>24 DEF Callback, Online, IInv, Typed, SettingsTyped, httpVars, ghosts
<1>25. CASE Crash
  <2>1. /\ settings' = None /\ (file' = file \/ file' = Torn)
        /\ settled' = None \/ settled' = settled
    BY <1>25 DEF Crash
  <2> QED BY <2>1 DEF IInv, Typed, SettingsTyped
<1>26. CASE UNCHANGED vars
  BY <1>26 DEF vars, IInv, Typed, SettingsTyped
<1>27. CASE Library
  BY <1>23, <1>27
     DEF Library, Connected, Refused, Lost, Reconnected, Disconnected, Nets, Callbacks
<1> QED BY <1>1, <1>2, <1>3, <1>4, <1>5, <1>6, <1>7, <1>8, <1>9, <1>10, <1>11, <1>12, <1>13,
          <1>14, <1>15, <1>16, <1>17, <1>18, <1>19, <1>20, <1>21, <1>22, <1>24, <1>25, <1>26,
          <1>27 DEF Next, Main, Publish, Http

\* Every step keeps the places of the threads.
LEMMA StepPlaces ==
  ASSUME IInv, [Next]_vars
  PROVE  PlacesTyped'
<1>1. CASE InitLoad
  BY <1>1, NoneIs DEF InitLoad, IInv, Typed, PlacesTyped, httpVars, ghosts
<1>2. CASE InitSetup
  BY <1>2, NoneIs DEF InitSetup, CreateClient, IInv, Typed, PlacesTyped, httpVars, ghosts
<1>3. CASE InitConnect
  BY <1>3, NoneIs DEF InitConnect, Connect, IInv, Typed, PlacesTyped, httpVars, ghosts
<1>4. CASE PublishJson
  BY <1>4, NoneIs DEF PublishJson, IInv, Typed, PlacesTyped, httpVars, ghosts
<1>5. CASE PublishCheck
  BY <1>5, NoneIs DEF PublishCheck, IInv, Typed, PlacesTyped, httpVars, ghosts
<1>6. CASE PublishSend
  BY <1>6, NoneIs DEF PublishSend, IInv, Typed, PlacesTyped, httpVars, ghosts
<1>7. CASE Quit
  BY <1>7, NoneIs DEF Quit, IInv, Typed, PlacesTyped, httpVars, ghosts
<1>8. CASE CleanupLock
  BY <1>8, NoneIs DEF CleanupLock, IInv, Typed, PlacesTyped, httpVars, ghosts
<1>9. CASE CleanupDisconnect
  BY <1>9, NoneIs DEF CleanupDisconnect, IInv, Typed, PlacesTyped, httpVars, ghosts
<1>10. CASE CleanupWait
  BY <1>10, NoneIs DEF CleanupWait, IInv, Typed, PlacesTyped, httpVars, ghosts
<1>11. CASE CleanupDestroy
  BY <1>11, NoneIs DEF CleanupDestroy, IInv, Typed, PlacesTyped, httpVars, ghosts
<1>12. CASE CleanupClear
  BY <1>12, NoneIs DEF CleanupClear, IInv, Typed, PlacesTyped, httpVars, ghosts
<1>13. ASSUME NEW r \in Requests, Arrive(r) PROVE PlacesTyped'
  BY <1>13, NoneIs DEF Arrive, IInv, Typed, PlacesTyped, httpVars, ghosts
<1>14. CASE HttpLock
  BY <1>14, LockIs, NoneIs DEF ghosts, IInv, Typed, PlacesTyped
<1>15. CASE HttpDisconnect
  BY <1>15, NoneIs DEF HttpDisconnect, Answer, IInv, Typed, PlacesTyped, httpVars, ghosts
<1>16. CASE HttpPayload
  BY <1>16, NoneIs DEF HttpPayload, Answer, IInv, Typed, PlacesTyped, httpVars, ghosts
<1>17. CASE HttpSave
  BY <1>17, NoneIs DEF HttpSave, Answer, Go, IInv, Typed, PlacesTyped, httpVars, ghosts
<1>18. CASE HttpRetire
  BY <1>18, NoneIs DEF HttpRetire, Go, IInv, Typed, PlacesTyped, httpVars, ghosts
<1>19. CASE HttpDestroy
  BY <1>19, NoneIs DEF HttpDestroy, Go, IInv, Typed, PlacesTyped, httpVars, ghosts
<1>20. CASE HttpClear
  BY <1>20, NoneIs DEF HttpClear, Go, IInv, Typed, PlacesTyped, httpVars, ghosts
<1>21. CASE HttpSetup
  BY <1>21, NoneIs DEF HttpSetup, Answer, Go, IInv, Typed, PlacesTyped, httpVars, ghosts
<1>22. CASE HttpConnect
  BY <1>22, NoneIs DEF HttpConnect, Answer, IInv, Typed, PlacesTyped, httpVars, ghosts
<1>23. ASSUME NEW c \in Places, NEW from \in Nets, NEW to \in Nets, NEW cb \in Callbacks,
             Event(c, from, to, cb)
      PROVE  PlacesTyped'
  BY <1>23, NoneIs DEF Event, IInv, Typed, PlacesTyped, httpVars, ghosts
<1>24. CASE Callback
  BY <1>24, NoneIs DEF Callback, Online, IInv, Typed, PlacesTyped, httpVars, ghosts
<1>25. CASE Crash
  BY <1>25, NoneIs DEF Crash, IInv, Typed, PlacesTyped, httpVars, ghosts
<1>26. CASE UNCHANGED vars
  BY <1>26 DEF vars, IInv, Typed, PlacesTyped
<1>27. CASE Library
  BY <1>23, <1>27
     DEF Library, Connected, Refused, Lost, Reconnected, Disconnected, Nets, Callbacks
<1> QED BY <1>1, <1>2, <1>3, <1>4, <1>5, <1>6, <1>7, <1>8, <1>9, <1>10, <1>11, <1>12, <1>13,
          <1>14, <1>15, <1>16, <1>17, <1>18, <1>19, <1>20, <1>21, <1>22, <1>24, <1>25, <1>26,
          <1>27 DEF Next, Main, Publish, Http

\* Every step keeps the counters in their bounds.
LEMMA StepCounts ==
  ASSUME IInv, [Next]_vars
  PROVE  CountsTyped'
<1>1. CASE InitLoad
  BY <1>1 DEF InitLoad, IInv, Typed, CountsTyped, httpVars, ghosts
<1>2. CASE InitSetup
  BY <1>2 DEF InitSetup, CreateClient, IInv, Typed, CountsTyped, httpVars, ghosts
<1>3. CASE InitConnect
  BY <1>3 DEF InitConnect, Connect, IInv, Typed, CountsTyped, httpVars, ghosts
<1>4. CASE PublishJson
  BY <1>4 DEF PublishJson, IInv, Typed, CountsTyped, httpVars, ghosts
<1>5. CASE PublishCheck
  BY <1>5 DEF PublishCheck, IInv, Typed, CountsTyped, httpVars, ghosts
<1>6. CASE PublishSend
  BY <1>6 DEF PublishSend, IInv, Typed, CountsTyped, httpVars, ghosts
<1>7. CASE Quit
  BY <1>7 DEF Quit, IInv, Typed, CountsTyped, httpVars, ghosts
<1>8. CASE CleanupLock
  BY <1>8 DEF CleanupLock, IInv, Typed, CountsTyped, httpVars, ghosts
<1>9. CASE CleanupDisconnect
  BY <1>9 DEF CleanupDisconnect, IInv, Typed, CountsTyped, httpVars, ghosts
<1>10. CASE CleanupWait
  BY <1>10 DEF CleanupWait, IInv, Typed, CountsTyped, httpVars, ghosts
<1>11. CASE CleanupDestroy
  BY <1>11 DEF CleanupDestroy, IInv, Typed, CountsTyped, httpVars, ghosts
<1>12. CASE CleanupClear
  BY <1>12 DEF CleanupClear, IInv, Typed, CountsTyped, httpVars, ghosts
<1>13. ASSUME NEW r \in Requests, Arrive(r) PROVE CountsTyped'
  BY <1>13, BoundsAre DEF Arrive, IInv, Typed, CountsTyped, httpVars, ghosts
<1>14. CASE HttpLock
  BY <1>14, LockIs DEF ghosts, IInv, Typed, CountsTyped
<1>15. CASE HttpDisconnect
  BY <1>15 DEF HttpDisconnect, Answer, IInv, Typed, CountsTyped, httpVars, ghosts
<1>16. CASE HttpPayload
  BY <1>16 DEF HttpPayload, Answer, IInv, Typed, CountsTyped, httpVars, ghosts
<1>17. CASE HttpSave
  BY <1>17 DEF HttpSave, Answer, Go, IInv, Typed, CountsTyped, httpVars, ghosts
<1>18. CASE HttpRetire
  BY <1>18 DEF HttpRetire, Go, IInv, Typed, CountsTyped, httpVars, ghosts
<1>19. CASE HttpDestroy
  BY <1>19 DEF HttpDestroy, Go, IInv, Typed, CountsTyped, httpVars, ghosts
<1>20. CASE HttpClear
  BY <1>20 DEF HttpClear, Go, IInv, Typed, CountsTyped, httpVars, ghosts
<1>21. CASE HttpSetup
  BY <1>21 DEF HttpSetup, Answer, Go, IInv, Typed, CountsTyped, httpVars, ghosts
<1>22. CASE HttpConnect
  BY <1>22 DEF HttpConnect, Answer, IInv, Typed, CountsTyped, httpVars, ghosts
<1>23. ASSUME NEW c \in Places, NEW from \in Nets, NEW to \in Nets, NEW cb \in Callbacks,
             Event(c, from, to, cb)
      PROVE  CountsTyped'
  BY <1>23 DEF Event, IInv, Typed, CountsTyped, httpVars, ghosts
<1>24. CASE Callback
  BY <1>24 DEF Callback, Online, IInv, Typed, CountsTyped, httpVars, ghosts
<1>25. CASE Crash
  BY <1>25, BoundsAre DEF Crash, IInv, Typed, CountsTyped, httpVars, ghosts
<1>26. CASE UNCHANGED vars
  BY <1>26 DEF vars, IInv, Typed, CountsTyped
<1>27. CASE Library
  BY <1>23, <1>27
     DEF Library, Connected, Refused, Lost, Reconnected, Disconnected, Nets, Callbacks
<1> QED BY <1>1, <1>2, <1>3, <1>4, <1>5, <1>6, <1>7, <1>8, <1>9, <1>10, <1>11, <1>12, <1>13,
          <1>14, <1>15, <1>16, <1>17, <1>18, <1>19, <1>20, <1>21, <1>22, <1>24, <1>25, <1>26,
          <1>27 DEF Next, Main, Publish, Http

\* Every step keeps the client and the places typed.
LEMMA StepPlaced ==
  ASSUME IInv, [Next]_vars
  PROVE  Placed'
<1>1. CASE InitLoad
  <2>1. SameClients
    BY <1>1, KeepsClients DEF IInv
  <2> QED BY <1>1, <2>1 DEF SameClients, InitLoad, httpVars, ghosts, IInv, Typed, Placed
<1>2. CASE InitSetup
  <2>1. settings \in Settings
    BY <1>2, SettingsAreThere DEF IInv, InitSetup
  <2>2. \E ok \in BOOLEAN : CreateClient(ok)
    BY <1>2 DEF InitSetup
  <2> QED BY <2>1, <2>2, CreatedIs DEF IInv, Typed, Placed
<1>3. CASE InitConnect
  <2>1. SameClients
    BY <1>3, KeepsClients DEF IInv
  <2> QED BY <1>3, <2>1 DEF SameClients, InitConnect, Connect, httpVars, ghosts, IInv, Typed,
         Placed
<1>4. CASE PublishJson
  <2>1. SameClients
    BY <1>4, KeepsClients DEF IInv
  <2> QED BY <1>4, <2>1 DEF SameClients, PublishJson, httpVars, ghosts, IInv, Typed, Placed
<1>5. CASE PublishCheck
  <2>1. SameClients
    BY <1>5, KeepsClients DEF IInv
  <2> QED BY <1>5, <2>1 DEF SameClients, PublishCheck, httpVars, ghosts, IInv, Typed, Placed
<1>6. CASE PublishSend
  <2>1. SameClients
    BY <1>6, KeepsClients DEF IInv
  <2> QED BY <1>6, <2>1 DEF SameClients, PublishSend, httpVars, ghosts, IInv, Typed, Placed
<1>7. CASE Quit
  <2>1. SameClients
    BY <1>7, KeepsClients DEF IInv
  <2> QED BY <1>7, <2>1 DEF SameClients, Quit, httpVars, ghosts, IInv, Typed, Placed
<1>8. CASE CleanupLock
  <2>1. SameClients
    BY <1>8, KeepsClients DEF IInv
  <2> QED BY <1>8, <2>1 DEF SameClients, CleanupLock, httpVars, ghosts, IInv, Typed, Placed
<1>9. CASE CleanupDisconnect
  <2>1. SameClients
    BY <1>9, KeepsClients DEF IInv
  <2> QED BY <1>9, <2>1 DEF SameClients, CleanupDisconnect, httpVars, ghosts, IInv, Typed,
         Placed
<1>10. CASE CleanupWait
  <2>1. SameClients
    BY <1>10, KeepsClients DEF IInv
  <2> QED BY <1>10, <2>1 DEF SameClients, CleanupWait, httpVars, ghosts, IInv, Typed, Placed
<1>11. CASE CleanupDestroy
  <2>1. /\ client' = client
        /\ clients' = clients \/ (client # 0 /\ clients' = Destroyed(client))
    BY <1>11 DEF CleanupDestroy
  <2> QED BY <2>1, DestroyedIs DEF IInv, Typed, Placed
<1>12. CASE CleanupClear
  <2>1. SameClients
    BY <1>12, KeepsClients DEF IInv
  <2> QED BY <1>12, <2>1 DEF SameClients, CleanupClear, httpVars, ghosts, IInv, Typed, Placed
<1>13. ASSUME NEW r \in Requests, Arrive(r) PROVE Placed'
  <2>1. SameClients
    BY <1>13, KeepsClients DEF IInv
  <2> QED BY <1>13, <2>1 DEF SameClients, Arrive, httpVars, ghosts, IInv, Typed, Placed
<1>14. CASE HttpLock
  <2>1. SameClients
    BY <1>14, KeepsClients DEF IInv
  <2> QED BY <1>14, <2>1 DEF SameClients, HttpLock, Answer, Go, httpVars, ghosts, IInv, Typed,
         Placed
<1>15. CASE HttpDisconnect
  <2>1. SameClients
    BY <1>15, KeepsClients DEF IInv
  <2> QED BY <1>15, <2>1 DEF SameClients, HttpDisconnect, Answer, httpVars, ghosts, IInv, Typed,
         Placed
<1>16. CASE HttpPayload
  <2>1. SameClients
    BY <1>16, KeepsClients DEF IInv
  <2> QED BY <1>16, <2>1 DEF SameClients, HttpPayload, Answer, httpVars, ghosts, IInv, Typed,
         Placed
<1>17. CASE HttpSave
  <2>1. SameClients
    BY <1>17, KeepsClients DEF IInv
  <2> QED BY <1>17, <2>1 DEF SameClients, HttpSave, Answer, Go, httpVars, ghosts, IInv, Typed,
         Placed
<1>18. CASE HttpRetire
  <2>1. SameClients
    BY <1>18, KeepsClients DEF IInv
  <2> QED BY <1>18, <2>1 DEF SameClients, HttpRetire, Go, httpVars, ghosts, IInv, Typed, Placed
<1>19. CASE HttpDestroy
  <2>1. /\ client' = client
        /\ clients' = clients \/ (client # 0 /\ clients' = Destroyed(client))
    BY <1>19 DEF HttpDestroy
  <2> QED BY <2>1, DestroyedIs DEF IInv, Typed, Placed
<1>20. CASE HttpClear
  <2>1. SameClients
    BY <1>20, KeepsClients DEF IInv
  <2> QED BY <1>20, <2>1 DEF SameClients, HttpClear, Go, httpVars, ghosts, IInv, Typed, Placed
<1>21. CASE HttpSetup
  <2>1. settings \in Settings
    BY <1>21, SettingsAreThere DEF IInv, HttpSetup
  <2>2. \E ok \in BOOLEAN : CreateClient(ok)
    BY <1>21 DEF HttpSetup
  <2> QED BY <2>1, <2>2, CreatedIs DEF IInv, Typed, Placed
<1>22. CASE HttpConnect
  <2>1. SameClients
    BY <1>22, KeepsClients DEF IInv
  <2> QED BY <1>22, <2>1 DEF SameClients, HttpConnect, Answer, httpVars, ghosts, IInv, Typed,
         Placed
<1>23. ASSUME NEW c \in Places, NEW from \in Nets, NEW to \in Nets, NEW cb \in Callbacks,
             Event(c, from, to, cb)
      PROVE  Placed'
  <2>1. SameClients
    BY <1>23, EventKeepsClients DEF IInv
  <2> QED BY <1>23, <2>1 DEF SameClients, Event, httpVars, ghosts, IInv, Typed, Placed
<1>24. CASE Callback
  <2>1. SameClients
    BY <1>24, KeepsClients DEF IInv
  <2> QED BY <1>24, <2>1 DEF SameClients, Callback, Online, httpVars, ghosts, IInv, Typed,
         Placed
<1>25. CASE Crash
  BY <1>25 DEF Crash, IInv, Typed, Placed, httpVars, ghosts
<1>26. CASE UNCHANGED vars
  BY <1>26 DEF vars, IInv, Typed, Placed
<1>27. CASE Library
  BY <1>23, <1>27
     DEF Library, Connected, Refused, Lost, Reconnected, Disconnected, Nets, Callbacks
<1> QED BY <1>1, <1>2, <1>3, <1>4, <1>5, <1>6, <1>7, <1>8, <1>9, <1>10, <1>11, <1>12, <1>13,
          <1>14, <1>15, <1>16, <1>17, <1>18, <1>19, <1>20, <1>21, <1>22, <1>24, <1>25, <1>26,
          <1>27 DEF Next, Main, Publish, Http

\* Every step keeps what holds of the mutex.
LEMMA StepLocks ==
  ASSUME IInv, [Next]_vars
  PROVE  Locks'
<1>1. CASE InitLoad
  BY <1>1, NoneIs, FactoryIs DEF InitLoad, IInv, Typed, SettingsTyped, PlacesTyped, Locks,
       Replacing, httpVars, ghosts
<1>2. CASE InitSetup
  BY <1>2, NoneIs DEF InitSetup, CreateClient, IInv, Typed, SettingsTyped, PlacesTyped, Locks,
       Replacing, httpVars, ghosts
<1>3. CASE InitConnect
  BY <1>3, NoneIs DEF InitConnect, Connect, IInv, Typed, SettingsTyped, PlacesTyped, Locks,
       Replacing, httpVars, ghosts
<1>4. CASE PublishJson
  BY <1>4, NoneIs DEF PublishJson, IInv, Typed, SettingsTyped, PlacesTyped, Locks, Replacing,
       httpVars, ghosts
<1>5. CASE PublishCheck
  BY <1>5, NoneIs DEF PublishCheck, IInv, Typed, SettingsTyped, PlacesTyped, Locks, Replacing,
       httpVars, ghosts
<1>6. CASE PublishSend
  BY <1>6, NoneIs DEF PublishSend, IInv, Typed, SettingsTyped, PlacesTyped, Locks, Replacing,
       httpVars, ghosts
<1>7. CASE Quit
  BY <1>7, NoneIs DEF Quit, IInv, Typed, SettingsTyped, PlacesTyped, Locks, Replacing,
       httpVars, ghosts
<1>8. CASE CleanupLock
  BY <1>8, NoneIs DEF CleanupLock, IInv, Typed, SettingsTyped, PlacesTyped, Locks, Replacing,
       httpVars, ghosts
<1>9. CASE CleanupDisconnect
  BY <1>9, NoneIs DEF CleanupDisconnect, IInv, Typed, SettingsTyped, PlacesTyped, Locks,
       Replacing, httpVars, ghosts
<1>10. CASE CleanupWait
  BY <1>10, NoneIs DEF CleanupWait, IInv, Typed, SettingsTyped, PlacesTyped, Locks, Replacing,
       httpVars, ghosts
<1>11. CASE CleanupDestroy
  BY <1>11, NoneIs DEF CleanupDestroy, IInv, Typed, SettingsTyped, PlacesTyped, Locks,
       Replacing, httpVars, ghosts
<1>12. CASE CleanupClear
  BY <1>12, NoneIs DEF CleanupClear, IInv, Typed, SettingsTyped, PlacesTyped, Locks, Replacing,
       httpVars, ghosts
<1>13. ASSUME NEW r \in Requests, Arrive(r) PROVE Locks'
  BY <1>13, NoneIs DEF Arrive, IInv, Typed, SettingsTyped, PlacesTyped, Locks, Replacing,
       httpVars, ghosts
<1>14. CASE HttpLock
  BY <1>14, LockIs, NoneIs DEF ghosts, IInv, Typed, PlacesTyped, Locks, Replacing
<1>15. CASE HttpDisconnect
  BY <1>15, NoneIs DEF HttpDisconnect, Answer, IInv, Typed, SettingsTyped, PlacesTyped, Locks,
       Replacing, httpVars, ghosts
<1>16. CASE HttpPayload
  BY <1>16, NoneIs DEF HttpPayload, Answer, IInv, Typed, SettingsTyped, PlacesTyped, Locks,
       Replacing, httpVars, ghosts
<1>17. CASE HttpSave
  BY <1>17, NoneIs DEF HttpSave, Answer, Go, IInv, Typed, SettingsTyped, PlacesTyped, Locks,
       Replacing, httpVars, ghosts
<1>18. CASE HttpRetire
  BY <1>18, NoneIs DEF HttpRetire, Go, IInv, Typed, SettingsTyped, PlacesTyped, Locks,
       Replacing, httpVars, ghosts
<1>19. CASE HttpDestroy
  BY <1>19, NoneIs DEF HttpDestroy, Go, IInv, Typed, SettingsTyped, PlacesTyped, Locks,
       Replacing, httpVars, ghosts
<1>20. CASE HttpClear
  BY <1>20, NoneIs DEF HttpClear, Go, IInv, Typed, SettingsTyped, PlacesTyped, Locks,
       Replacing, httpVars, ghosts
<1>21. CASE HttpSetup
  BY <1>21, NoneIs DEF HttpSetup, Answer, Go, IInv, Typed, SettingsTyped, PlacesTyped, Locks,
       Replacing, httpVars, ghosts
<1>22. CASE HttpConnect
  BY <1>22, NoneIs DEF HttpConnect, Answer, IInv, Typed, SettingsTyped, PlacesTyped, Locks,
       Replacing, httpVars, ghosts
<1>23. ASSUME NEW c \in Places, NEW from \in Nets, NEW to \in Nets, NEW cb \in Callbacks,
             Event(c, from, to, cb)
      PROVE  Locks'
  BY <1>23, NoneIs DEF Event, IInv, Typed, SettingsTyped, PlacesTyped, Locks, Replacing,
       httpVars, ghosts
<1>24. CASE Callback
  BY <1>24, NoneIs DEF Callback, Online, IInv, Typed, SettingsTyped, PlacesTyped, Locks,
       Replacing, httpVars, ghosts
<1>25. CASE Crash
  BY <1>25, NoneIs DEF Crash, IInv, Typed, SettingsTyped, PlacesTyped, Locks, Replacing,
       httpVars, ghosts
<1>26. CASE UNCHANGED vars
  BY <1>26 DEF vars, IInv, Typed, SettingsTyped, PlacesTyped, Locks, Replacing
<1>27. CASE Library
  BY <1>23, <1>27
     DEF Library, Connected, Refused, Lost, Reconnected, Disconnected, Nets, Callbacks
<1> QED BY <1>1, <1>2, <1>3, <1>4, <1>5, <1>6, <1>7, <1>8, <1>9, <1>10, <1>11, <1>12, <1>13,
          <1>14, <1>15, <1>16, <1>17, <1>18, <1>19, <1>20, <1>21, <1>22, <1>24, <1>25, <1>26,
          <1>27 DEF Next, Main, Publish, Http

\* Every step leaves no client without a handle.
LEMMA StepOwned ==
  ASSUME IInv, [Next]_vars
  PROVE  Owned'
<1>1. CASE InitLoad
  <2>1. SameClients
    BY <1>1, KeepsClients DEF IInv
  <2> QED BY <1>1, <2>1 DEF SameClients, InitLoad, httpVars, ghosts, IInv, Typed, PlacesTyped,
         Locks, Owned, Starting
<1>2. CASE InitSetup
  <2>1. settings \in Settings
    BY <1>2, SettingsAreThere DEF IInv, InitSetup
  <2>2. PICK ok \in BOOLEAN : CreateClient(ok)
    BY <1>2 DEF InitSetup
  <2>3. ~raced => client = 0 /\ Live = {}
    BY <1>2 DEF InitSetup, IInv, Owned, Live, Places
  <2>4. ~raced => Live' \subseteq {client'}
    BY <2>1, <2>2, <2>3, CreatedIs DEF IInv, Typed
  <2> QED BY <1>2, <2>4 DEF InitSetup, Answer, Go, ghosts, httpVars, IInv, Typed, PlacesTyped,
               Locks, Owned, Starting
<1>3. CASE InitConnect
  <2>1. SameClients
    BY <1>3, KeepsClients DEF IInv
  <2> QED BY <1>3, <2>1 DEF SameClients, InitConnect, Connect, httpVars, ghosts, IInv, Typed,
         PlacesTyped, Locks, Owned, Starting
<1>4. CASE PublishJson
  <2>1. SameClients
    BY <1>4, KeepsClients DEF IInv
  <2> QED BY <1>4, <2>1 DEF SameClients, PublishJson, httpVars, ghosts, IInv, Typed,
         PlacesTyped, Locks, Owned, Starting
<1>5. CASE PublishCheck
  <2>1. SameClients
    BY <1>5, KeepsClients DEF IInv
  <2> QED BY <1>5, <2>1 DEF SameClients, PublishCheck, httpVars, ghosts, IInv, Typed,
         PlacesTyped, Locks, Owned, Starting
<1>6. CASE PublishSend
  <2>1. SameClients
    BY <1>6, KeepsClients DEF IInv
  <2> QED BY <1>6, <2>1 DEF SameClients, PublishSend, httpVars, ghosts, IInv, Typed,
         PlacesTyped, Locks, Owned, Starting
<1>7. CASE Quit
  <2>1. SameClients
    BY <1>7, KeepsClients DEF IInv
  <2> QED BY <1>7, <2>1 DEF SameClients, Quit, httpVars, ghosts, IInv, Typed, PlacesTyped,
         Locks, Owned, Starting
<1>8. CASE CleanupLock
  <2>1. SameClients
    BY <1>8, KeepsClients DEF IInv
  <2> QED BY <1>8, <2>1 DEF SameClients, CleanupLock, httpVars, ghosts, IInv, Typed,
         PlacesTyped, Locks, Owned, Starting
<1>9. CASE CleanupDisconnect
  <2>1. SameClients
    BY <1>9, KeepsClients DEF IInv
  <2> QED BY <1>9, <2>1 DEF SameClients, CleanupDisconnect, httpVars, ghosts, IInv, Typed,
         PlacesTyped, Locks, Owned, Starting
<1>10. CASE CleanupWait
  <2>1. SameClients
    BY <1>10, KeepsClients DEF IInv
  <2> QED BY <1>10, <2>1 DEF SameClients, CleanupWait, httpVars, ghosts, IInv, Typed,
         PlacesTyped, Locks, Owned, Starting
<1>11. CASE CleanupDestroy
  <2>1. /\ client' = client
        /\ (clients' = clients /\ client = 0) \/ (client # 0 /\ clients' = Destroyed(client))
    BY <1>11 DEF CleanupDestroy
  <2>2. Live' = Live \ {client}
    BY <2>1, DestroyedIs DEF IInv, Typed, Live, Places
  <2> QED BY <1>11, <2>1, <2>2 DEF CleanupDestroy, Go, httpVars, IInv, Typed, PlacesTyped, Locks,
               Owned, Starting
<1>12. CASE CleanupClear
  <2>1. SameClients
    BY <1>12, KeepsClients DEF IInv
  <2> QED BY <1>12, <2>1 DEF SameClients, CleanupClear, httpVars, ghosts, IInv, Typed,
         PlacesTyped, Locks, Owned, Starting
<1>13. ASSUME NEW r \in Requests, Arrive(r) PROVE Owned'
  <2>1. SameClients
    BY <1>13, KeepsClients DEF IInv
  <2> QED BY <1>13, <2>1 DEF SameClients, Arrive, httpVars, ghosts, IInv, Typed, PlacesTyped,
         Locks, Owned, Starting
<1>14. CASE HttpLock
  <2>1. SameClients
    BY <1>14, KeepsClients DEF IInv
  <2> QED BY <1>14, <2>1, LockIs DEF SameClients, ghosts, IInv, Typed, PlacesTyped, Locks, Owned,
               Starting
<1>15. CASE HttpDisconnect
  <2>1. SameClients
    BY <1>15, KeepsClients DEF IInv
  <2> QED BY <1>15, <2>1 DEF SameClients, HttpDisconnect, Answer, httpVars, ghosts, IInv, Typed,
         PlacesTyped, Locks, Owned, Starting
<1>16. CASE HttpPayload
  <2>1. SameClients
    BY <1>16, KeepsClients DEF IInv
  <2> QED BY <1>16, <2>1 DEF SameClients, HttpPayload, Answer, httpVars, ghosts, IInv, Typed,
         PlacesTyped, Locks, Owned, Starting
<1>17. CASE HttpSave
  <2>1. SameClients
    BY <1>17, KeepsClients DEF IInv
  <2> QED BY <1>17, <2>1 DEF SameClients, HttpSave, Answer, Go, httpVars, ghosts, IInv, Typed,
         PlacesTyped, Locks, Owned, Starting
<1>18. CASE HttpRetire
  <2>1. SameClients
    BY <1>18, KeepsClients DEF IInv
  <2> QED BY <1>18, <2>1 DEF SameClients, HttpRetire, Go, httpVars, ghosts, IInv, Typed,
         PlacesTyped, Locks, Owned, Starting
<1>19. CASE HttpDestroy
  <2>1. /\ client' = client
        /\ (clients' = clients /\ client = 0) \/ (client # 0 /\ clients' = Destroyed(client))
    BY <1>19 DEF HttpDestroy
  <2>2. Live' = Live \ {client}
    BY <2>1, DestroyedIs DEF IInv, Typed, Live, Places
  <2> QED BY <1>19, <2>1, <2>2 DEF HttpDestroy, Go, httpVars, IInv, Typed, PlacesTyped, Locks,
               Owned, Starting
<1>20. CASE HttpClear
  <2>1. SameClients
    BY <1>20, KeepsClients DEF IInv
  <2> QED BY <1>20, <2>1 DEF SameClients, HttpClear, Go, httpVars, ghosts, IInv, Typed,
         PlacesTyped, Locks, Owned, Starting
<1>21. CASE HttpSetup
  <2>1. settings \in Settings
    BY <1>21, SettingsAreThere DEF IInv, HttpSetup
  <2>2. PICK ok \in BOOLEAN : CreateClient(ok)
    BY <1>21 DEF HttpSetup
  <2>3. ~raced => client = 0 /\ Live = {}
    BY <1>21 DEF HttpSetup, IInv, Owned, Live, Places
  <2>4. ~raced => Live' \subseteq {client'}
    BY <2>1, <2>2, <2>3, CreatedIs DEF IInv, Typed
  <2> QED BY <1>21, <2>4 DEF HttpSetup, Answer, Go, ghosts, httpVars, IInv, Typed, PlacesTyped,
               Locks, Owned, Starting
<1>22. CASE HttpConnect
  <2>1. SameClients
    BY <1>22, KeepsClients DEF IInv
  <2> QED BY <1>22, <2>1 DEF SameClients, HttpConnect, Answer, httpVars, ghosts, IInv, Typed,
         PlacesTyped, Locks, Owned, Starting
<1>23. ASSUME NEW c \in Places, NEW from \in Nets, NEW to \in Nets, NEW cb \in Callbacks,
             Event(c, from, to, cb)
      PROVE  Owned'
  <2>1. SameClients
    BY <1>23, EventKeepsClients DEF IInv
  <2> QED BY <1>23, <2>1 DEF SameClients, Event, httpVars, ghosts, IInv, Typed, PlacesTyped,
         Locks, Owned, Starting
<1>24. CASE Callback
  <2>1. SameClients
    BY <1>24, KeepsClients DEF IInv
  <2> QED BY <1>24, <2>1 DEF SameClients, Callback, Online, httpVars, ghosts, IInv, Typed,
         PlacesTyped, Locks, Owned, Starting
<1>25. CASE Crash
  <2>1. Live' = {} /\ client' = 0 /\ mpc' = "load" /\ hpc' = "idle"
    BY <1>25 DEF Crash, Live
  <2> QED BY <2>1 DEF Owned
<1>26. CASE UNCHANGED vars
  BY <1>26 DEF vars, IInv, Typed, PlacesTyped, Locks, Owned, Starting, Live
<1>27. CASE Library
  BY <1>23, <1>27
     DEF Library, Connected, Refused, Lost, Reconnected, Disconnected, Nets, Callbacks
<1> QED BY <1>1, <1>2, <1>3, <1>4, <1>5, <1>6, <1>7, <1>8, <1>9, <1>10, <1>11, <1>12, <1>13,
          <1>14, <1>15, <1>16, <1>17, <1>18, <1>19, <1>20, <1>21, <1>22, <1>24, <1>25, <1>26,
          <1>27 DEF Next, Main, Publish, Http

\* A handle of no client is not one of a client.
LEMMA NoHandle == 0 \notin Live
  BY DEF Live, Places

\* Every step keeps what holds of the settings in effect.
LEMMA StepSettled ==
  ASSUME IInv, [Next]_vars
  PROVE  Settled'
<1>1. CASE InitLoad
  <2>1. SameClients
    BY <1>1, KeepsClients DEF IInv
  <2> QED BY <1>1, <2>1, NoneIs, NoHandle DEF SameClients, InitLoad, httpVars, ghosts, IInv,
         Typed, SettingsTyped, PlacesTyped, Locks, Owned, Settled, Replacing, Starting
<1>2. CASE InitSetup
  <2>1. settings \in Settings
    BY <1>2, SettingsAreThere DEF IInv, InitSetup
  <2>2. PICK ok \in BOOLEAN : CreateClient(ok)
    BY <1>2 DEF InitSetup
  <2>3. ~raced /\ settled # None => /\ hpc = "idle" /\ Live = {}
                                     /\ file = settled /\ settings = settled
    BY <1>2, <2>1, NoneIs DEF InitSetup, IInv, Owned, Settled, Starting, Replacing, Live, Places
  <2>4. client' \in Live' => clients'[client'].server = settings.server
    BY <2>1, <2>2, NoHandle, CreatedIs DEF IInv, Typed, Live, Places
  <2> QED BY <1>2, <2>3, <2>4 DEF InitSetup, httpVars, ghosts, Settled
<1>3. CASE InitConnect
  <2>1. settings \in Settings /\ SameClients
    BY <1>3, SettingsAreThere, KeepsClients DEF IInv, InitConnect
  <2>2. PICK ok \in BOOLEAN :
          /\ Write(settings, ok) \/ (~ok /\ UNCHANGED file)
          /\ settled' # None => ok /\ settled' = settings
    BY <1>3 DEF InitConnect, Connect
  <2>3. settled' # None => file' = settings /\ settled' = settings
    BY <2>2 DEF Write
  <2> QED BY <1>3, <2>1, <2>3, NoneIs
       DEF InitConnect, Answer, SameClients, httpVars, ghosts, Fits, IInv, Typed, SettingsTyped,
           PlacesTyped, Locks, Owned, Settled, Replacing, Starting
<1>4. CASE PublishJson
  <2>1. SameClients
    BY <1>4, KeepsClients DEF IInv
  <2> QED BY <1>4, <2>1, NoneIs, NoHandle DEF SameClients, PublishJson, httpVars, ghosts, IInv,
         Typed, SettingsTyped, PlacesTyped, Locks, Owned, Settled, Replacing, Starting
<1>5. CASE PublishCheck
  <2>1. SameClients
    BY <1>5, KeepsClients DEF IInv
  <2> QED BY <1>5, <2>1, NoneIs, NoHandle DEF SameClients, PublishCheck, httpVars, ghosts,
         IInv, Typed, SettingsTyped, PlacesTyped, Locks, Owned, Settled, Replacing, Starting
<1>6. CASE PublishSend
  <2>1. SameClients
    BY <1>6, KeepsClients DEF IInv
  <2> QED BY <1>6, <2>1, NoneIs, NoHandle DEF SameClients, PublishSend, httpVars, ghosts, IInv,
         Typed, SettingsTyped, PlacesTyped, Locks, Owned, Settled, Replacing, Starting
<1>7. CASE Quit
  <2>1. SameClients
    BY <1>7, KeepsClients DEF IInv
  <2> QED BY <1>7, <2>1, NoneIs, NoHandle DEF SameClients, Quit, httpVars, ghosts, IInv, Typed,
         SettingsTyped, PlacesTyped, Locks, Owned, Settled, Replacing, Starting
<1>8. CASE CleanupLock
  <2>1. SameClients
    BY <1>8, KeepsClients DEF IInv
  <2> QED BY <1>8, <2>1, NoneIs, NoHandle DEF SameClients, CleanupLock, httpVars, ghosts, IInv,
         Typed, SettingsTyped, PlacesTyped, Locks, Owned, Settled, Replacing, Starting
<1>9. CASE CleanupDisconnect
  <2>1. SameClients
    BY <1>9, KeepsClients DEF IInv
  <2> QED BY <1>9, <2>1, NoneIs, NoHandle DEF SameClients, CleanupDisconnect, httpVars, ghosts,
         IInv, Typed, SettingsTyped, PlacesTyped, Locks, Owned, Settled, Replacing, Starting
<1>10. CASE CleanupWait
  <2>1. SameClients
    BY <1>10, KeepsClients DEF IInv
  <2> QED BY <1>10, <2>1, NoneIs, NoHandle DEF SameClients, CleanupWait, httpVars, ghosts, IInv,
         Typed, SettingsTyped, PlacesTyped, Locks, Owned, Settled, Replacing, Starting
<1>11. CASE CleanupDestroy
  <2>1. /\ client' = client
        /\ (clients' = clients /\ client = 0) \/ (client # 0 /\ clients' = Destroyed(client))
    BY <1>11 DEF CleanupDestroy
  <2>2. client' \notin Live'
    BY <2>1, NoHandle, DestroyedIs DEF IInv, Typed, Live, Places
  <2> QED BY <1>11, <2>1, <2>2 DEF CleanupDestroy, httpVars, IInv, Settled
<1>12. CASE CleanupClear
  <2>1. SameClients
    BY <1>12, KeepsClients DEF IInv
  <2> QED BY <1>12, <2>1, NoneIs, NoHandle DEF SameClients, CleanupClear, httpVars, ghosts,
         IInv, Typed, SettingsTyped, PlacesTyped, Locks, Owned, Settled, Replacing, Starting
<1>13. ASSUME NEW r \in Requests, Arrive(r) PROVE Settled'
  <2>1. SameClients
    BY <1>13, KeepsClients DEF IInv
  <2> QED BY <1>13, <2>1, NoneIs, NoHandle DEF SameClients, Arrive, httpVars, ghosts, IInv,
         Typed, SettingsTyped, PlacesTyped, Locks, Owned, Settled, Replacing, Starting
<1>14. CASE HttpLock
  <2>1. SameClients
    BY <1>14, KeepsClients DEF IInv
  <2> QED BY <1>14, <2>1, LockIs DEF SameClients, ghosts, NeedsClient, IInv, Typed,
               SettingsTyped, PlacesTyped, Locks, Owned, Settled, Replacing, Starting
<1>15. CASE HttpDisconnect
  <2>1. settings \in Settings /\ SameClients
    BY <1>15, SettingsAreThere, KeepsClients DEF IInv, HttpDisconnect
  <2>2. PICK ok \in BOOLEAN :
          /\ Write(settings, ok) \/ (~ok /\ UNCHANGED file)
          /\ settled' # None => (ok \/ UNCHANGED file) /\ settled' = settled
    BY <1>15 DEF HttpDisconnect, Connect
  <2>3. settled' # None => (file' = settings \/ file' = file) /\ settled' = settled
    BY <2>2 DEF Write
  <2> QED BY <1>15, <2>1, <2>3, NoneIs
       DEF HttpDisconnect, Answer, SameClients, httpVars, ghosts, Fits, IInv, Typed,
            SettingsTyped,
           PlacesTyped, Locks, Owned, Settled, Replacing, Starting
<1>16. CASE HttpPayload
  <2>1. settings \in Settings /\ SameClients
    BY <1>16, SettingsAreThere, KeepsClients DEF IInv, HttpPayload
  <2>2. PICK ok \in BOOLEAN :
          /\ Write(settings, ok) \/ (~ok /\ UNCHANGED file)
          /\ settled' # None => (ok \/ UNCHANGED file) /\ settled' = settled
    BY <1>16 DEF HttpPayload, Connect
  <2>3. settled' # None => (file' = settings \/ file' = file) /\ settled' = settled
    BY <2>2 DEF Write
  <2> QED BY <1>16, <2>1, <2>3, NoneIs
       DEF HttpPayload, Answer, SameClients, httpVars, ghosts, Fits, IInv, Typed, SettingsTyped,
           PlacesTyped, Locks, Owned, Settled, Replacing, Starting
<1>17. CASE HttpSave
  <2>1. hpc' \in Replacing \/ settled' = None
    BY <1>17 DEF HttpSave, Answer, Go, Replacing
  <2> QED BY <2>1 DEF Settled
<1>18. CASE HttpRetire
  <2>1. SameClients
    BY <1>18, KeepsClients DEF IInv
  <2> QED BY <1>18, <2>1, NoneIs, NoHandle DEF SameClients, HttpRetire, Go, httpVars, ghosts,
         IInv, Typed, SettingsTyped, PlacesTyped, Locks, Owned, Settled, Replacing, Starting
<1>19. CASE HttpDestroy
  <2>1. hpc' \in Replacing
    BY <1>19 DEF HttpDestroy, Go, Replacing
  <2> QED BY <2>1 DEF Settled
<1>20. CASE HttpClear
  <2>1. SameClients
    BY <1>20, KeepsClients DEF IInv
  <2> QED BY <1>20, <2>1, NoneIs, NoHandle DEF SameClients, HttpClear, Go, httpVars, ghosts,
         IInv, Typed, SettingsTyped, PlacesTyped, Locks, Owned, Settled, Replacing, Starting
<1>21. CASE HttpSetup
  <2>1. hpc' \in Replacing \/ settled' = None
    BY <1>21 DEF HttpSetup, Answer, Go, Replacing
  <2> QED BY <2>1 DEF Settled
<1>22. CASE HttpConnect
  <2>1. SameClients
    BY <1>22, KeepsClients DEF IInv
  <2>2. PICK accepted, ok \in BOOLEAN :
          /\ Connect(accepted, ok)
          /\ settled' = IF ok /\ (settled # None \/ NeedsClient(request)) THEN settings ELSE None
    BY <1>22 DEF HttpConnect
  <2>3. settled' # None => (settled # None \/ NeedsClient(request))
                          /\ file' = settings /\ settled' = settings
    BY <2>2 DEF Connect, Write
  <2>4. hpc = "connect" /\ hpc' = "idle" /\ UNCHANGED <<client, settings, raced>>
    BY <1>22 DEF HttpConnect, Answer
  <2> QED BY <2>1, <2>3, <2>4 DEF SameClients, IInv, Fits, Settled
<1>23. ASSUME NEW c \in Places, NEW from \in Nets, NEW to \in Nets, NEW cb \in Callbacks,
             Event(c, from, to, cb)
      PROVE  Settled'
  <2>1. SameClients
    BY <1>23, EventKeepsClients DEF IInv
  <2> QED BY <1>23, <2>1, NoneIs, NoHandle DEF SameClients, Event, httpVars, ghosts, IInv,
         Typed, SettingsTyped, PlacesTyped, Locks, Owned, Settled, Replacing, Starting
<1>24. CASE Callback
  <2>1. SameClients
    BY <1>24, KeepsClients DEF IInv
  <2> QED BY <1>24, <2>1, NoneIs, NoHandle DEF SameClients, Callback, Online, httpVars, ghosts,
         IInv, Typed, SettingsTyped, PlacesTyped, Locks, Owned, Settled, Replacing, Starting
<1>25. CASE Crash
  <2>1. /\ settings' = None /\ Live' = {} /\ hpc' = "idle"
        /\ settled' # None => /\ settled' = settled /\ file' = file /\ raced' = raced
                             /\ hpc \notin Replacing
    BY <1>25 DEF Crash, Live, Replacing
  <2> QED BY <2>1 DEF IInv, Settled
<1>26. CASE UNCHANGED vars
  BY <1>26 DEF vars, IInv, Typed, SettingsTyped, PlacesTyped, Locks, Owned, Settled, Replacing,
       Starting, Live
<1>27. CASE Library
  BY <1>23, <1>27
     DEF Library, Connected, Refused, Lost, Reconnected, Disconnected, Nets, Callbacks
<1> QED BY <1>1, <1>2, <1>3, <1>4, <1>5, <1>6, <1>7, <1>8, <1>9, <1>10, <1>11, <1>12, <1>13,
          <1>14, <1>15, <1>16, <1>17, <1>18, <1>19, <1>20, <1>21, <1>22, <1>24, <1>25, <1>26,
          <1>27 DEF Next, Main, Publish, Http

LEMMA NoHandleThen == 0 \notin Live'
  BY DEF Live, Places

\* Every step keeps the client fitting the settings.
LEMMA StepFits ==
  ASSUME IInv, [Next]_vars
  PROVE  Fits'
<1>1. CASE InitLoad
  <2>1. SameClients
    BY <1>1, KeepsClients DEF IInv
  <2> QED BY <1>1, <2>1, NoneIs DEF SameClients, InitLoad, httpVars, ghosts, IInv, Typed,
         SettingsTyped, PlacesTyped, Locks, Owned, Fits, Starting
<1>2. CASE InitSetup
  <2>1. settings \in Settings
    BY <1>2, SettingsAreThere DEF IInv, InitSetup
  <2>2. PICK ok \in BOOLEAN : CreateClient(ok)
    BY <1>2 DEF InitSetup
  <2>3. client' \in Live' => clients'[client'].server = settings.server
    BY <2>1, <2>2, CreatedIs, NoHandleThen DEF IInv, Typed
  <2>4. ~raced => hpc' = "idle"
    BY <1>2 DEF InitSetup, httpVars, IInv, Owned, Starting
  <2> QED BY <1>2, <2>3, <2>4 DEF InitSetup, ghosts, Fits
<1>3. CASE InitConnect
  <2>1. SameClients
    BY <1>3, KeepsClients DEF IInv
  <2>2. mpc' = "run" /\ raced' = raced /\ (~raced => hpc' = "idle")
    BY <1>3 DEF InitConnect, httpVars, IInv, Owned, Starting
  <2> QED BY <2>2 DEF Fits
<1>4. CASE PublishJson
  <2>1. SameClients
    BY <1>4, KeepsClients DEF IInv
  <2> QED BY <1>4, <2>1, NoneIs DEF SameClients, PublishJson, httpVars, ghosts, IInv, Typed,
         SettingsTyped, PlacesTyped, Locks, Owned, Fits, Starting
<1>5. CASE PublishCheck
  <2>1. SameClients
    BY <1>5, KeepsClients DEF IInv
  <2> QED BY <1>5, <2>1, NoneIs DEF SameClients, PublishCheck, httpVars, ghosts, IInv, Typed,
         SettingsTyped, PlacesTyped, Locks, Owned, Fits, Starting
<1>6. CASE PublishSend
  <2>1. SameClients
    BY <1>6, KeepsClients DEF IInv
  <2> QED BY <1>6, <2>1, NoneIs DEF SameClients, PublishSend, httpVars, ghosts, IInv, Typed,
         SettingsTyped, PlacesTyped, Locks, Owned, Fits, Starting
<1>7. CASE Quit
  <2>1. SameClients
    BY <1>7, KeepsClients DEF IInv
  <2> QED BY <1>7, <2>1, NoneIs DEF SameClients, Quit, httpVars, ghosts, IInv, Typed,
         SettingsTyped, PlacesTyped, Locks, Owned, Fits, Starting
<1>8. CASE CleanupLock
  <2>1. SameClients
    BY <1>8, KeepsClients DEF IInv
  <2> QED BY <1>8, <2>1, NoneIs DEF SameClients, CleanupLock, httpVars, ghosts, IInv, Typed,
         SettingsTyped, PlacesTyped, Locks, Owned, Fits, Starting
<1>9. CASE CleanupDisconnect
  <2>1. SameClients
    BY <1>9, KeepsClients DEF IInv
  <2> QED BY <1>9, <2>1, NoneIs DEF SameClients, CleanupDisconnect, httpVars, ghosts, IInv,
         Typed, SettingsTyped, PlacesTyped, Locks, Owned, Fits, Starting
<1>10. CASE CleanupWait
  <2>1. SameClients
    BY <1>10, KeepsClients DEF IInv
  <2> QED BY <1>10, <2>1, NoneIs DEF SameClients, CleanupWait, httpVars, ghosts, IInv, Typed,
         SettingsTyped, PlacesTyped, Locks, Owned, Fits, Starting
<1>11. CASE CleanupDestroy
  <2>1. mpc' = "clear" /\ hpc' # "connect"
    BY <1>11 DEF CleanupDestroy, httpVars, IInv, Locks
  <2> QED BY <2>1 DEF Fits
<1>12. CASE CleanupClear
  <2>1. SameClients
    BY <1>12, KeepsClients DEF IInv
  <2> QED BY <1>12, <2>1, NoneIs DEF SameClients, CleanupClear, httpVars, ghosts, IInv, Typed,
         SettingsTyped, PlacesTyped, Locks, Owned, Fits, Starting
<1>13. ASSUME NEW r \in Requests, Arrive(r) PROVE Fits'
  <2>1. SameClients
    BY <1>13, KeepsClients DEF IInv
  <2> QED BY <1>13, <2>1, NoneIs DEF SameClients, Arrive, httpVars, ghosts, IInv, Typed,
         SettingsTyped, PlacesTyped, Locks, Owned, Fits, Starting
<1>14. CASE HttpLock
  <2>1. SameClients
    BY <1>14, KeepsClients DEF IInv
  <2> QED BY <1>14, <2>1, LockIs DEF SameClients, ghosts, IInv, Typed, SettingsTyped,
               PlacesTyped, Locks, Owned, Fits, Starting
<1>15. CASE HttpDisconnect
  <2>1. SameClients
    BY <1>15, KeepsClients DEF IInv
  <2> QED BY <1>15, <2>1, NoneIs DEF SameClients, HttpDisconnect, Answer, httpVars, ghosts,
         IInv, Typed, SettingsTyped, PlacesTyped, Locks, Owned, Fits, Starting
<1>16. CASE HttpPayload
  <2>1. SameClients
    BY <1>16, KeepsClients DEF IInv
  <2> QED BY <1>16, <2>1, NoneIs DEF SameClients, HttpPayload, Answer, httpVars, ghosts, IInv,
         Typed, SettingsTyped, PlacesTyped, Locks, Owned, Fits, Starting
<1>17. CASE HttpSave
  <2>1. SameClients
    BY <1>17, KeepsClients DEF IInv
  <2>2. ~raced => mpc' # "connect"
    BY <1>17 DEF HttpSave, IInv, Owned, Starting
  <2>3. /\ hpc = "save" /\ UNCHANGED <<settings, client, raced>>
        /\ hpc' = "connect" => settled' = settled /\ ~NeedsClient(request) /\ request' = request
    BY <1>17 DEF HttpSave, Answer, Go
  <2> QED BY <2>1, <2>2, <2>3 DEF SameClients, IInv, Settled, Fits, Replacing
<1>18. CASE HttpRetire
  <2>1. SameClients
    BY <1>18, KeepsClients DEF IInv
  <2> QED BY <1>18, <2>1, NoneIs DEF SameClients, HttpRetire, Go, httpVars, ghosts, IInv, Typed,
         SettingsTyped, PlacesTyped, Locks, Owned, Fits, Starting
<1>19. CASE HttpDestroy
  <2>1. hpc' = "clear" /\ (~raced => mpc' # "connect")
    BY <1>19 DEF HttpDestroy, Go, IInv, Owned, Starting
  <2> QED BY <1>19, <2>1 DEF HttpDestroy, Fits
<1>20. CASE HttpClear
  <2>1. SameClients
    BY <1>20, KeepsClients DEF IInv
  <2> QED BY <1>20, <2>1, NoneIs DEF SameClients, HttpClear, Go, httpVars, ghosts, IInv, Typed,
         SettingsTyped, PlacesTyped, Locks, Owned, Fits, Starting
<1>21. CASE HttpSetup
  <2>1. settings \in Settings
    BY <1>21, SettingsAreThere DEF IInv, HttpSetup
  <2>2. PICK ok \in BOOLEAN : CreateClient(ok)
    BY <1>21 DEF HttpSetup
  <2>3. client' \in Live' => clients'[client'].server = settings.server
    BY <2>1, <2>2, CreatedIs, NoHandleThen DEF IInv, Typed
  <2>4. ~raced => mpc' # "connect"
    BY <1>21 DEF HttpSetup, IInv, Owned, Starting
  <2> QED BY <1>21, <2>3, <2>4 DEF HttpSetup, Fits
<1>22. CASE HttpConnect
  <2>1. SameClients
    BY <1>22, KeepsClients DEF IInv
  <2> QED BY <1>22, <2>1, NoneIs DEF SameClients, HttpConnect, Answer, httpVars, ghosts, IInv,
         Typed, SettingsTyped, PlacesTyped, Locks, Owned, Fits, Starting
<1>23. ASSUME NEW c \in Places, NEW from \in Nets, NEW to \in Nets, NEW cb \in Callbacks,
             Event(c, from, to, cb)
      PROVE  Fits'
  <2>1. SameClients
    BY <1>23, EventKeepsClients DEF IInv
  <2> QED BY <1>23, <2>1, NoneIs DEF SameClients, Event, httpVars, ghosts, IInv, Typed,
         SettingsTyped, PlacesTyped, Locks, Owned, Fits, Starting
<1>24. CASE Callback
  <2>1. SameClients
    BY <1>24, KeepsClients DEF IInv
  <2> QED BY <1>24, <2>1, NoneIs DEF SameClients, Callback, Online, httpVars, ghosts, IInv,
         Typed, SettingsTyped, PlacesTyped, Locks, Owned, Fits, Starting
<1>25. CASE Crash
  <2>1. Live' = {}
    BY <1>25 DEF Crash, Live
  <2> QED BY <2>1 DEF Fits
<1>26. CASE UNCHANGED vars
  BY <1>26 DEF vars, IInv, Typed, SettingsTyped, PlacesTyped, Locks, Owned, Fits, Starting, Live
<1>27. CASE Library
  BY <1>23, <1>27
     DEF Library, Connected, Refused, Lost, Reconnected, Disconnected, Nets, Callbacks
<1> QED BY <1>1, <1>2, <1>3, <1>4, <1>5, <1>6, <1>7, <1>8, <1>9, <1>10, <1>11, <1>12, <1>13,
          <1>14, <1>15, <1>16, <1>17, <1>18, <1>19, <1>20, <1>21, <1>22, <1>24, <1>25, <1>26,
          <1>27 DEF Next, Main, Publish, Http

\* Steps that leave the client and what is shown of it as they are.
LEMMA ShownStays ==
  ASSUME IInv, UNCHANGED <<clients, client, connected, callback>>, ~raced' => ~raced,
         "connect" \notin {mpc', hpc'} => "connect" \notin {mpc, hpc}
  PROVE  Shown'
  BY DEF IInv, Shown, Live, Online

\* The connection of the client after a step that connects or disconnects it.
LEMMA ConnectNet ==
  ASSUME Placed, NEW accepted \in BOOLEAN, NEW ok \in BOOLEAN, Connect(accepted, ok),
         client \in Live
  PROVE  clients'[client].net \in Up \/ clients' = clients
<1>1. clients[client] \in Clients /\ client \in Places
  BY LiveIs DEF Placed
<1> QED BY <1>1 DEF Connect, ConnectResult, Moved, Up, Placed, Clients

LEMMA DisconnectNet ==
  ASSUME Placed, NEW accepted \in BOOLEAN, DisconnectResult(accepted), client \in Live
  PROVE  clients'[client].net \in Up \/ clients' = clients
<1>1. clients[client] \in Clients /\ client \in Places
  BY LiveIs DEF Placed
<1> QED BY <1>1 DEF DisconnectResult, Moved, Up, Placed, Clients

\* An event is one of the client, and moves its connection.
LEMMA EventNet ==
  ASSUME IInv, ~raced, NEW c \in Places, NEW from \in Nets, NEW to \in Nets,
         NEW cb \in Callbacks, Event(c, from, to, cb)
  PROVE  client \in Live /\ client' = client /\ Live' = Live /\ clients'[client].net = to
<1>1. c \in Live /\ c = client /\ clients' = Moved(c, to) /\ client' = client
  BY DEF Event, IInv, Owned
<1>2. clients[client] \in Clients /\ client \in Places /\ Placed
  BY <1>1, LiveIs DEF IInv, Typed, Placed
<1>3. Live' = Live
  BY EventKeepsClients DEF IInv, SameClients
<1> QED BY <1>1, <1>2, <1>3 DEF Moved, Placed, Clients

\* Every step keeps the status right.
LEMMA StepShown ==
  ASSUME IInv, [Next]_vars
  PROVE  Shown'
<1> USE DEF httpVars, ghosts
<1>1. CASE InitLoad
  BY <1>1, ShownStays DEF InitLoad
<1>2. CASE InitSetup
  <2>1. settings \in Settings
    BY <1>2, SettingsAreThere DEF IInv, InitSetup
  <2>2. PICK ok \in BOOLEAN : CreateClient(ok) /\ mpc' = IF ok THEN "connect" ELSE "run"
    BY <1>2 DEF InitSetup
  <2>3. ~raced => callback = None
    BY <1>2, NoHandle DEF InitSetup, IInv, Owned, Shown
  <2>4. ~ok => client' \notin Live'
    BY <2>1, <2>2, CreatedIs, NoHandleThen DEF IInv, Typed
  <2> QED BY <1>2, <2>2, <2>3, <2>4, NoneIs DEF InitSetup, Shown, Online, Callbacks
<1>3. CASE InitConnect
  <2>1. SameClients /\ Placed
    BY <1>3, KeepsClients DEF IInv, Typed
  <2>2. PICK accepted, ok \in BOOLEAN : Connect(accepted, ok)
    BY <1>3 DEF InitConnect
  <2>3. client \in Live => clients'[client].net \in Up \/ clients' = clients
    BY <2>1, <2>2, ConnectNet
  <2> QED BY <1>3, <2>1, <2>3 DEF InitConnect, SameClients, IInv, Shown, Online
<1>4. CASE PublishJson
  BY <1>4, ShownStays DEF PublishJson
<1>5. CASE PublishCheck
  BY <1>5, ShownStays DEF PublishCheck
<1>6. CASE PublishSend
  BY <1>6, ShownStays DEF PublishSend
<1>7. CASE Quit
  BY <1>7, ShownStays DEF Quit
<1>8. CASE CleanupLock
  BY <1>8, ShownStays DEF CleanupLock
<1>9. CASE CleanupDisconnect
  <2>1. SameClients /\ Placed
    BY <1>9, KeepsClients DEF IInv, Typed
  <2>2. clients' = clients \/ \E accepted \in BOOLEAN : DisconnectResult(accepted)
    BY <1>9 DEF CleanupDisconnect
  <2>3. client \in Live => clients'[client].net \in Up \/ clients' = clients
    BY <2>1, <2>2, DisconnectNet
  <2> QED BY <1>9, <2>1, <2>3 DEF CleanupDisconnect, SameClients, IInv, Shown, Online
<1>10. CASE CleanupWait
  BY <1>10, ShownStays DEF CleanupWait
<1>11. CASE CleanupDestroy
  <2>1. CASE client = 0
    BY <1>11, <2>1, ShownStays DEF CleanupDestroy
  <2>2. CASE client # 0
    <3>1. client' \notin Live'
      BY <1>11, <2>2, DestroyedIs DEF CleanupDestroy, IInv, Typed
    <3> QED BY <1>11, <2>2, <3>1 DEF CleanupDestroy, Shown
  <2> QED BY <2>1, <2>2
<1>12. CASE CleanupClear
  <2>1. client' = 0 /\ (~raced => callback = None)
    BY <1>12 DEF CleanupClear, IInv, Owned, Shown
  <2> QED BY <1>12, <2>1, NoHandleThen DEF CleanupClear, Shown
<1>13. ASSUME NEW r \in Requests, Arrive(r) PROVE Shown'
  BY <1>13, ShownStays DEF Arrive, IInv, Typed, PlacesTyped
<1>14. CASE HttpLock
  BY <1>14, LockIs, ShownStays DEF IInv
<1>15. CASE HttpDisconnect
  <2>1. SameClients /\ Placed
    BY <1>15, KeepsClients DEF IInv, Typed
  <2>2. clients' = clients \/ \E accepted \in BOOLEAN : DisconnectResult(accepted)
    BY <1>15 DEF HttpDisconnect
  <2>3. client \in Live => clients'[client].net \in Up \/ clients' = clients
    BY <2>1, <2>2, DisconnectNet
  <2> QED BY <1>15, <2>1, <2>3, NoHandle
       DEF HttpDisconnect, SameClients, IInv, Shown, Online
<1>16. CASE HttpPayload
  BY <1>16, ShownStays DEF HttpPayload, Answer
<1>17. CASE HttpSave
  BY <1>17, ShownStays DEF HttpSave, Answer, Go
<1>18. CASE HttpRetire
  <2>1. SameClients /\ Placed
    BY <1>18, KeepsClients DEF IInv, Typed
  <2>2. clients' = clients \/ \E accepted \in BOOLEAN : DisconnectResult(accepted)
    BY <1>18 DEF HttpRetire
  <2>3. client \in Live => clients'[client].net \in Up \/ clients' = clients
    BY <2>1, <2>2, DisconnectNet
  <2> QED BY <1>18, <2>1, <2>3, NoHandle
       DEF HttpRetire, Go, SameClients, IInv, Shown, Online
<1>19. CASE HttpDestroy
  <2>1. CASE client = 0
    BY <1>19, <2>1, ShownStays DEF HttpDestroy, Go
  <2>2. CASE client # 0
    <3>1. client' \notin Live'
      BY <1>19, <2>2, DestroyedIs DEF HttpDestroy, IInv, Typed
    <3> QED BY <1>19, <2>2, <3>1, ShownStays DEF HttpDestroy, IInv, Shown
  <2> QED BY <2>1, <2>2
<1>20. CASE HttpClear
  <2>1. client' = 0 /\ (~raced => callback = None)
    BY <1>20 DEF HttpClear, IInv, Owned, Shown
  <2> QED BY <1>20, <2>1, NoHandleThen DEF HttpClear, Shown
<1>21. CASE HttpSetup
  <2>1. settings \in Settings
    BY <1>21, SettingsAreThere DEF IInv, HttpSetup
  <2>2. PICK ok \in BOOLEAN : CreateClient(ok) /\ (ok => hpc' = "connect")
    BY <1>21 DEF HttpSetup, Go
  <2>3. ~raced => callback = None
    BY <1>21, NoHandle DEF HttpSetup, IInv, Owned, Shown
  <2>4. ~ok => client' \notin Live'
    BY <2>1, <2>2, CreatedIs, NoHandleThen DEF IInv, Typed
  <2> QED BY <1>21, <2>2, <2>3, <2>4, NoneIs DEF HttpSetup, Shown, Online, Callbacks
<1>22. CASE HttpConnect
  <2>1. SameClients /\ Placed
    BY <1>22, KeepsClients DEF IInv, Typed
  <2>2. PICK accepted, ok \in BOOLEAN : Connect(accepted, ok)
    BY <1>22 DEF HttpConnect
  <2>3. client \in Live => clients'[client].net \in Up \/ clients' = clients
    BY <2>1, <2>2, ConnectNet
  <2> QED BY <1>22, <2>1, <2>3 DEF HttpConnect, SameClients, IInv, Shown, Online
<1>23. ASSUME NEW c \in Places, NEW from \in Nets, NEW to \in Nets, NEW cb \in Callbacks,
             Event(c, from, to, cb), cb \in {"onConnect", "onReconnect"} => to \in Up
      PROVE  Shown'
  <2>1. ~raced => client \in Live /\ clients'[client'].net = to /\ client' \in Live'
    BY <1>23, EventNet
  <2> QED BY <1>23, <2>1, NoneIs DEF Event, Shown, Online
<1>24. CASE Callback
  <2>1. connected' => Online
    BY <1>24 DEF Callback
  <2>2. callback # None /\ callback' = None /\ UNCHANGED <<client, clients, raced>> /\ Live' = Live
    BY <1>24 DEF Callback, Live
  <2>3. ~Online'
    BY <2>2, NoneIs DEF Online, Callbacks
  <2> QED BY <2>1, <2>2, <2>3 DEF IInv, Shown
<1>25. CASE Crash
  <2>1. client' = 0 /\ callback' = None
    BY <1>25 DEF Crash
  <2> QED BY <2>1, NoHandleThen, NoneIs DEF Shown
<1>26. CASE UNCHANGED vars
  BY <1>26, ShownStays DEF vars
<1>27. CASE Library
  BY <1>23, <1>27
     DEF Library, Connected, Refused, Lost, Reconnected, Disconnected, Nets, Callbacks, Up
<1> QED BY <1>1, <1>2, <1>3, <1>4, <1>5, <1>6, <1>7, <1>8, <1>9, <1>10, <1>11, <1>12, <1>13,
          <1>14, <1>15, <1>16, <1>17, <1>18, <1>19, <1>20, <1>21, <1>22, <1>24, <1>25, <1>26,
          <1>27 DEF Next, Main, Publish, Http

LEMMA InitIInv == Init => IInv
<1> SUFFICES ASSUME Init PROVE IInv
  OBVIOUS
<1>1. Live = {}
  BY DEF Init, Live
<1>2. Placed
  BY DEF Init, Placed
<1>3. SettingsTyped /\ PlacesTyped
  BY DEF Init, SettingsTyped, PlacesTyped
<1>4. CountsTyped
  <2>1. 0 \in 0 .. MaxRequests /\ 0 \in 0 .. MaxCrashes
    BY BoundsAre
  <2> QED BY <2>1 DEF Init, CountsTyped
<1>5. Locks
  BY NoneIs DEF Init, Locks, Replacing
<1>6. Owned /\ Settled /\ Fits /\ Shown
  BY <1>1 DEF Init, Owned, Settled, Fits, Shown
<1> QED BY <1>2, <1>3, <1>4, <1>5, <1>6 DEF IInv, Typed

LEMMA IInvHolds == Spec => []IInv
<1>1. IInv /\ [Next]_vars => IInv'
  BY StepSettings, StepPlaces, StepCounts, StepPlaced, StepLocks, StepOwned, StepSettled,
     StepFits, StepShown DEF IInv, Typed
<1> QED BY InitIInv, <1>1, PTL DEF Spec

\* The type invariant, for all servers and any number of places, requests and crashes.
THEOREM TypeCorrect == Spec => []TypeOK
<1>1. IInv => TypeOK
  BY TypesAre DEF IInv
<1> QED BY IInvHolds, <1>1, PTL

\* However often the settings are changed and however the program ends, a client is
\* destroyed before its handle is given up.
THEOREM ClientsAreDestroyed == Spec => []NoClientLeaks
<1>1. IInv => NoClientLeaks
  BY DEF IInv, Owned, NoClientLeaks
<1> QED BY IInvHolds, <1>1, PTL

\* Settings that were put into effect are in the file, and the client has their server,
\* until others are put into effect, a write or a connection fails, or a kill cuts a
\* write short.
THEOREM SettingsAreKept == Spec => []SettledIsKept
<1>1. IInv => SettledIsKept
  BY NoneIs DEF IInv, Typed, SettingsTyped, Settled, SettledIsKept, Replacing, Client
<1> QED BY IInvHolds, <1>1, PTL

\* The status mqtt.connected, which the callbacks of the library's thread and the requests
\* of the HTTP thread both set, never shows a connection that was lost or never made once
\* both are through, unless a client was given up while a callback was running.
THEOREM ConnectedIsTrue == Spec => []StatusIsTrue
<1>1. IInv => StatusIsTrue
  BY DEF IInv, Shown, StatusIsTrue, Up, Client
<1> QED BY IInvHolds, <1>1, PTL

=============================================================================
