-------------------------- MODULE ExternalAsrProofs --------------------------
(***************************************************************************)
(* Proofs about the connection to an external recogniser.                  *)
(*                                                                         *)
(* Of ExternalAsr, for any number of utterances, sockets, ticks and        *)
(* changes of settings: a transcript is taken for the utterance it is of,  *)
(* whatever the two threads do; and as long as one thread works on it the  *)
(* connection, its state and the request in flight agree.                  *)
(*                                                                         *)
(* Of WyomingParser, for any messages, sizes and cuts of the stream:       *)
(* messages are handled in their order and at most once, and as long as no *)
(* byte is thrown away those that have arrived completely are handled, and *)
(* their payload is in the audio buffer.                                   *)
(***************************************************************************)
EXTENDS ExternalAsr, WyomingParser, FiniteSetTheorems, SequenceTheorems,
        WellFoundedInduction, TLAPS

Calls == {"assign", "switch", "configure", "ensure", "connect", "socket",
          "opening", "close", "closed", "rest"}
Submission == {"gate", "submit", "record_start", "record_flag", "transcribe", "send", "failed"}
MainPlaces == Calls \cup Submission \cup {"boot", "polled", "drop"}

\* The types, with those of what the threads hold.
PlacesTyped ==
  pc \in [Threads -> MainPlaces] /\ pc["main"] \in MainPlaces /\ pc["http"] \in Calls

SettingsTyped ==
  /\ mode \in {"internal", "external"} /\ callback \in BOOLEAN
  /\ host \in {"", "name", "address"} /\ server_ip \in {"", "name", "address"}
  /\ applied \in [Threads -> [mode : {"internal", "external"}, host : {"", "name", "address"}]]
  /\ changes \in 0 .. MaxChanges

ConnTyped ==
  /\ state \in {"disconnected", "connecting", "connected", "error"}
  /\ shown \in {"disconnected", "connecting", "connected", "error",
                "not_configured", "invalid_address"}
  /\ awaiting \in BOOLEAN /\ sockets \in 0 .. MaxSockets
  /\ fd \in 0 .. sockets /\ open \subseteq 1 .. sockets

RequestTyped ==
  /\ inflight \in BOOLEAN /\ age \in 0 .. Stale /\ start \in Utterances \cup {NoUtt}
  /\ utt \in Utterances \cup {NoUtt} /\ fresh \in BOOLEAN

QueuesTyped ==
  /\ queue \in Seq(Utterances) /\ posted \in 0 .. MaxUtterances
  /\ requests \in [SocketIds -> Seq(Utterances)]
  /\ answer \in [words : Utterances \cup {NoUtt}, start : Utterances \cup {NoUtt}]

Typed == PlacesTyped /\ SettingsTyped /\ ConnTyped /\ RequestTyped /\ QueuesTyped

\* The main thread has an utterance from Take on until it rests again; fresh says that
\* it is in wyoming_asr_transcribe.
MainHas ==
  /\ utt = NoUtt => ~fresh /\ pc["main"] \notin Submission
  /\ utt # NoUtt =>
       pc["main"] \notin {"boot", "assign", "switch", "configure", "rest",
                          "polled", "drop"}
  /\ utt # NoUtt /\ pc["main"] \in {"close", "closed", "send"} => fresh
  /\ fresh => pc["main"] \in {"close", "closed", "connect", "socket", "opening", "send", "failed"}

\* Nothing was asked on a socket that is not open yet; what was asked on the current
\* one is the request in flight, while the start time of the next is not recorded; and
\* the next is asked on a socket of its own.
Asked ==
  /\ \A s \in SocketIds : s > sockets => requests[s] = << >>
  /\ pc["main"] \notin {"record_flag", "transcribe", "failed"} /\ ~fresh /\ fd # NoSocket =>
       \A i \in 1 .. Len(requests[fd]) : start \in {NoUtt, requests[fd][i]}
  /\ pc["main"] \in {"record_flag", "transcribe"} \/ fresh => start \in {NoUtt, utt}
  /\ fresh /\ pc["main"] \notin {"close", "failed"} /\ fd # NoSocket => requests[fd] = << >>

\* What the server may still answer is later than what was passed on, and what is to be
\* submitted is later than that; there is one request on a connection at most.
InOrder ==
  /\ answer.words <= posted /\ utt <= posted
  /\ utt # NoUtt => answer.words < utt
  /\ \A i \in 1 .. Len(queue) :
       /\ answer.words < queue[i] /\ utt < queue[i] /\ queue[i] <= posted
       /\ \A j \in 1 .. Len(queue) : i < j => queue[i] < queue[j]
  /\ fd # NoSocket /\ requests[fd] # << >> =>
       /\ Len(requests[fd]) = 1
       /\ answer.words < requests[fd][1] /\ requests[fd][1] <= posted
       /\ utt # NoUtt => requests[fd][1] < utt
       /\ \A i \in 1 .. Len(queue) : requests[fd][1] < queue[i]

Opening == state = "connecting" => \E t \in Threads : pc[t] = "opening"

IInv == Typed /\ MainHas /\ Asked /\ AnswerMatchesRequest /\ Opening

\* As long as no settings are applied, only the main thread works on it.
Alone ==
  changes = 0 =>
    /\ pc["http"] = "rest"
    /\ pc["main"] \in {"boot", "assign"} => mode = "internal"
    /\ fd # NoSocket => fd \in open
    /\ state = "connected" => fd # NoSocket \/ pc["main"] = "closed"
    /\ state = "disconnected" => fd = NoSocket \/ pc["main"] = "drop"
    /\ pc["main"] = "closed" => fd = NoSocket
    /\ pc["main"] = "drop" => state \in {"disconnected", "error"}
    /\ state # "error" => shown = state \/ (mode = "external" /\ host = "")
    /\ pc["main"] \in {"connect", "socket"} => state \in {"disconnected", "error"}
    /\ pc["main"] = "opening" => state = "connecting"

\* And then what is awaited is the request in flight.
Awaited ==
  changes = 0 =>
    /\ utt = NoUtt /\ pc["main"] \notin {"rest", "polled", "drop"} => ~awaiting
    /\ awaiting /\ fd # NoSocket => state = "connected" \/ pc["main"] = "drop"
    /\ awaiting /\ fd # NoSocket /\ pc["main"] \in {"rest", "polled", "gate"} =>
         inflight /\ requests[fd] = <<start>>
    /\ pc["main"] = "record_flag" => start = utt
    /\ pc["main"] = "transcribe" \/ (fresh /\ pc["main"] # "failed") => inflight /\ start = utt
    /\ pc["main"] = "send" => state = "connected" /\ ~awaiting
    /\ pc["main"] = "failed" => ~awaiting \/ fd = NoSocket

-----------------------------------------------------------------------------
(* Each step keeps it. *)

LEMMA NumbersAre ==
  Stale \in Nat /\ MaxUtterances \in Nat /\ MaxChanges \in Nat /\ MaxSockets \in Nat
  BY AsrAssumption, Zenon

LEMMA StaleIsAge == Stale \in 0 .. Stale /\ 0 \in 0 .. Stale
  BY NumbersAre

LEMMA SettingIs ==
  ASSUME NEW s \in Settings
  PROVE  s \in [mode : {"internal", "external"}, host : {"", "name", "address"}]
  BY AsrAssumption, Zenon

\* A thread goes to one of its places.
LEMMA GoesTo ==
  ASSUME PlacesTyped, NEW t \in Threads, NEW to \in MainPlaces, t = "http" => to \in Calls,
         pc' = [pc EXCEPT ![t] = to]
  PROVE  PlacesTyped'
  BY DEF PlacesTyped, Threads

\* Every step keeps the places of the threads.
LEMMA StepPlaces ==
  ASSUME IInv, [Next]_vars
  PROVE  PlacesTyped'
<1> USE DEF vars, settingVars, connVars, requestVars, queueVars, netVars, mainVars, Threads, Go
<1>1. ASSUME NEW t \in Threads, ConnectCheck(t) PROVE PlacesTyped'
  <2>1. PICK to : /\ pc' = [pc EXCEPT ![t] = to]
                  /\ to \in {"socket", Resume(t, TRUE), Resume(t, FALSE)}
    BY <1>1 DEF ConnectCheck
  <2>2. to \in MainPlaces /\ (t = "http" => to \in Calls)
    BY <2>1 DEF Resume, Submitting, Calls, Submission, MainPlaces
  <2> QED BY <2>1, <2>2, GoesTo DEF IInv, Typed
<1>2. ASSUME NEW t \in Threads, ConnectSocket(t) PROVE PlacesTyped'
  <2>1. PICK to : /\ pc' = [pc EXCEPT ![t] = to]
                  /\ to \in {"opening", Resume(t, TRUE), Resume(t, FALSE)}
    BY <1>2 DEF ConnectSocket
  <2>2. to \in MainPlaces /\ (t = "http" => to \in Calls)
    BY <2>1 DEF Resume, Submitting, Calls, Submission, MainPlaces
  <2> QED BY <2>1, <2>2, GoesTo DEF IInv, Typed
<1>3. ASSUME NEW t \in Threads, ConnectOpen(t) PROVE PlacesTyped'
  <2>1. PICK to : pc' = [pc EXCEPT ![t] = to] /\ to \in {Resume(t, TRUE), Resume(t, FALSE)}
    BY <1>3 DEF ConnectOpen
  <2>2. to \in MainPlaces /\ (t = "http" => to \in Calls)
    BY <2>1 DEF Resume, Submitting, Calls, Submission, MainPlaces
  <2> QED BY <2>1, <2>2, GoesTo DEF IInv, Typed
<1>4. ASSUME NEW t \in Threads, Ensure(t) PROVE PlacesTyped'
  BY <1>4 DEF Ensure, Resume, Submitting, IInv, Typed, PlacesTyped, SettingsTyped, Calls,
       Submission, MainPlaces, MainHas, NoUtt
<1>5. ASSUME NEW t \in Threads, DisconnectSocket(t) PROVE PlacesTyped'
  BY <1>5 DEF DisconnectSocket, IInv, Typed, PlacesTyped, SettingsTyped, Calls, Submission,
       MainPlaces, MainHas, NoUtt
<1>6. ASSUME NEW t \in Threads, DisconnectState(t) PROVE PlacesTyped'
  BY <1>6 DEF DisconnectState, SetState, Submitting, IInv, Typed, PlacesTyped, SettingsTyped,
       Calls, Submission, MainPlaces, MainHas, NoUtt
<1>7. ASSUME NEW t \in Threads, NEW s \in Settings, Apply(t, s) PROVE PlacesTyped'
  <2>1. PICK to : pc' = [pc EXCEPT ![t] = to] /\ to \in {"assign"}
    BY <1>7 DEF Apply
  <2>2. to \in MainPlaces /\ (t = "http" => to \in Calls)
    BY <2>1 DEF Resume, Submitting, Calls, Submission, MainPlaces
  <2> QED BY <2>1, <2>2, GoesTo DEF IInv, Typed
<1>8. ASSUME NEW t \in Threads, Assign(t) PROVE PlacesTyped'
  BY <1>8 DEF Assign, IInv, Typed, PlacesTyped, SettingsTyped, Calls, Submission, MainPlaces,
       MainHas, NoUtt
<1>9. ASSUME NEW t \in Threads, UseInternal(t) PROVE PlacesTyped'
  BY <1>9 DEF UseInternal, ClearRequest, IInv, Typed, PlacesTyped, SettingsTyped, Calls,
       Submission, MainPlaces, MainHas, NoUtt
<1>10. ASSUME NEW t \in Threads, UseExternal(t) PROVE PlacesTyped'
  <2>1. PICK to : pc' = [pc EXCEPT ![t] = to] /\ to \in {"rest", "configure"}
    BY <1>10 DEF UseExternal
  <2>2. to \in MainPlaces /\ (t = "http" => to \in Calls)
    BY <2>1 DEF Resume, Submitting, Calls, Submission, MainPlaces
  <2> QED BY <2>1, <2>2, GoesTo DEF IInv, Typed
<1>11. ASSUME NEW t \in Threads, Configure(t) PROVE PlacesTyped'
  BY <1>11 DEF Configure, IInv, Typed, PlacesTyped, SettingsTyped, Calls, Submission,
       MainPlaces, MainHas, NoUtt
<1>12. CASE Post
  BY <1>12 DEF Post, IInv, Typed, PlacesTyped, SettingsTyped, Calls, Submission, MainPlaces,
       MainHas, NoUtt
<1>13. CASE Take
  BY <1>13 DEF Take, IInv, Typed, PlacesTyped, SettingsTyped, Calls, Submission, MainPlaces,
       MainHas, NoUtt
<1>14. CASE Skip
  BY <1>14 DEF Skip, IInv, Typed, PlacesTyped, SettingsTyped, Calls, Submission, MainPlaces,
       MainHas, NoUtt
<1>15. CASE Proceed
  BY <1>15 DEF Proceed, ClearRequest, IInv, Typed, PlacesTyped, SettingsTyped, Calls,
       Submission, MainPlaces, MainHas, NoUtt
<1>16. CASE RecordAge
  BY <1>16 DEF RecordAge, IInv, Typed, PlacesTyped, SettingsTyped, Calls, Submission,
       MainPlaces, MainHas, NoUtt
<1>17. CASE RecordStart
  BY <1>17 DEF RecordStart, IInv, Typed, PlacesTyped, SettingsTyped, Calls, Submission,
       MainPlaces, MainHas, NoUtt
<1>18. CASE RecordFlag
  BY <1>18 DEF RecordFlag, IInv, Typed, PlacesTyped, SettingsTyped, Calls, Submission,
       MainPlaces, MainHas, NoUtt
<1>19. CASE Transcribe
  BY <1>19 DEF Transcribe, IInv, Typed, PlacesTyped, SettingsTyped, Calls, Submission,
       MainPlaces, MainHas, NoUtt
<1>20. CASE Send
  BY <1>20 DEF Send, EventsSent, IInv, Typed, PlacesTyped, SettingsTyped, Calls, Submission,
       MainPlaces, MainHas, NoUtt
<1>21. CASE Failed
  BY <1>21 DEF Failed, ClearRequest, IInv, Typed, PlacesTyped, SettingsTyped, Calls,
       Submission, MainPlaces, MainHas, NoUtt
<1>22. CASE PollReady
  BY <1>22 DEF PollReady, IInv, Typed, PlacesTyped, SettingsTyped, Calls, Submission,
       MainPlaces, MainHas, NoUtt
<1>23. CASE PollNothing
  BY <1>23 DEF PollNothing, IInv, Typed, PlacesTyped, SettingsTyped, Calls, Submission,
       MainPlaces, MainHas, NoUtt
<1>24. CASE PollTranscript
  BY <1>24 DEF PollTranscript, Answered, ClearRequest, IInv, Typed, PlacesTyped, SettingsTyped,
       Calls, Submission, MainPlaces, MainHas, NoUtt
<1>25. CASE PollNoText
  BY <1>25 DEF PollNoText, Answered, IInv, Typed, PlacesTyped, SettingsTyped, Calls,
       Submission, MainPlaces, MainHas, NoUtt
<1>26. CASE PollAudioStop
  BY <1>26 DEF PollAudioStop, IInv, Typed, PlacesTyped, SettingsTyped, Calls, Submission,
       MainPlaces, MainHas, NoUtt
<1>27. CASE PollError
  BY <1>27 DEF PollError, Answered, SetError, ClearRequest, IInv, Typed, PlacesTyped,
       SettingsTyped, Calls, Submission, MainPlaces, MainHas, NoUtt
<1>28. CASE PollInfo
  BY <1>28 DEF PollInfo, SetState, IInv, Typed, PlacesTyped, SettingsTyped, Calls, Submission,
       MainPlaces, MainHas, NoUtt
<1>29. CASE PollLost
  BY <1>29 DEF PollLost, SetState, SetError, ClearRequest, IInv, Typed, PlacesTyped,
       SettingsTyped, Calls, Submission, MainPlaces, MainHas, NoUtt
<1>30. CASE PollDrop
  BY <1>30 DEF PollDrop, IInv, Typed, PlacesTyped, SettingsTyped, Calls, Submission,
       MainPlaces, MainHas, NoUtt
<1>31. CASE Tick
  BY <1>31 DEF Tick, IInv, Typed, PlacesTyped, SettingsTyped, Calls, Submission, MainPlaces,
       MainHas, NoUtt
<1>32. CASE UNCHANGED vars
  BY <1>32 DEF IInv, Typed, PlacesTyped, SettingsTyped, Calls, Submission, MainPlaces, MainHas,
       NoUtt
<1> QED BY <1>1, <1>2, <1>3, <1>4, <1>5, <1>6, <1>7, <1>8, <1>9, <1>10, <1>11, <1>12, <1>13,
          <1>14, <1>15, <1>16, <1>17, <1>18, <1>19, <1>20, <1>21, <1>22, <1>23, <1>24, <1>25,
          <1>26, <1>27, <1>28, <1>29, <1>30, <1>31, <1>32 DEF Next, Connect, Disconnect,
          Resolve, Submit, Poll

\* Every step keeps the types of the settings.
LEMMA StepSettings ==
  ASSUME IInv, [Next]_vars
  PROVE  SettingsTyped'
<1> USE DEF vars, settingVars, connVars, requestVars, queueVars, netVars, mainVars, Threads, Go
<1>1. ASSUME NEW t \in Threads, ConnectCheck(t) PROVE SettingsTyped'
  BY <1>1 DEF ConnectCheck, SetError, ClearRequest, Resume, Submitting, IInv, Typed,
       PlacesTyped, SettingsTyped
<1>2. ASSUME NEW t \in Threads, ConnectSocket(t) PROVE SettingsTyped'
  BY <1>2 DEF ConnectSocket, SetError, SetState, ClearRequest, Resume, Submitting, IInv, Typed,
       PlacesTyped, SettingsTyped
<1>3. ASSUME NEW t \in Threads, ConnectOpen(t) PROVE SettingsTyped'
  BY <1>3 DEF ConnectOpen, SetError, SetState, ClearRequest, Resume, Submitting, IInv, Typed,
       PlacesTyped, SettingsTyped
<1>4. ASSUME NEW t \in Threads, Ensure(t) PROVE SettingsTyped'
  BY <1>4 DEF Ensure, Resume, Submitting, IInv, Typed, PlacesTyped, SettingsTyped
<1>5. ASSUME NEW t \in Threads, DisconnectSocket(t) PROVE SettingsTyped'
  BY <1>5 DEF DisconnectSocket, IInv, Typed, PlacesTyped, SettingsTyped
<1>6. ASSUME NEW t \in Threads, DisconnectState(t) PROVE SettingsTyped'
  BY <1>6 DEF DisconnectState, SetState, Submitting, IInv, Typed, PlacesTyped, SettingsTyped
<1>7. ASSUME NEW t \in Threads, NEW s \in Settings, Apply(t, s) PROVE SettingsTyped'
  <2>1. s \in [mode : {"internal", "external"}, host : {"", "name", "address"}]
    BY SettingIs
  <2>2. /\ applied' = [applied EXCEPT ![t] = s]
        /\ changes' = changes \/ (changes < MaxChanges /\ changes' = changes + 1)
    BY <1>7, Zenon DEF Apply
  <2>3. changes \in 0 .. MaxChanges
    BY DEF IInv, Typed, SettingsTyped
  <2>4. changes' \in 0 .. MaxChanges
    BY <2>2, <2>3, NumbersAre
  <2>5. applied' \in [Threads ->
          [mode : {"internal", "external"}, host : {"", "name", "address"}]]
    BY <2>1, <2>2 DEF IInv, Typed, SettingsTyped
  <2> QED BY <1>7, <2>4, <2>5 DEF Apply, IInv, Typed, SettingsTyped
<1>8. ASSUME NEW t \in Threads, Assign(t) PROVE SettingsTyped'
  BY <1>8 DEF Assign, IInv, Typed, PlacesTyped, SettingsTyped
<1>9. ASSUME NEW t \in Threads, UseInternal(t) PROVE SettingsTyped'
  BY <1>9 DEF UseInternal, ClearRequest, IInv, Typed, PlacesTyped, SettingsTyped
<1>10. ASSUME NEW t \in Threads, UseExternal(t) PROVE SettingsTyped'
  BY <1>10 DEF UseExternal, ClearRequest, IInv, Typed, PlacesTyped, SettingsTyped
<1>11. ASSUME NEW t \in Threads, Configure(t) PROVE SettingsTyped'
  BY <1>11 DEF Configure, IInv, Typed, PlacesTyped, SettingsTyped
<1>12. CASE Post
  BY <1>12 DEF Post, IInv, Typed, PlacesTyped, SettingsTyped
<1>13. CASE Take
  BY <1>13 DEF Take, IInv, Typed, PlacesTyped, SettingsTyped
<1>14. CASE Skip
  BY <1>14 DEF Skip, IInv, Typed, PlacesTyped, SettingsTyped
<1>15. CASE Proceed
  BY <1>15 DEF Proceed, ClearRequest, IInv, Typed, PlacesTyped, SettingsTyped
<1>16. CASE RecordAge
  BY <1>16 DEF RecordAge, IInv, Typed, PlacesTyped, SettingsTyped
<1>17. CASE RecordStart
  BY <1>17 DEF RecordStart, IInv, Typed, PlacesTyped, SettingsTyped
<1>18. CASE RecordFlag
  BY <1>18 DEF RecordFlag, IInv, Typed, PlacesTyped, SettingsTyped
<1>19. CASE Transcribe
  BY <1>19 DEF Transcribe, IInv, Typed, PlacesTyped, SettingsTyped
<1>20. CASE Send
  BY <1>20 DEF Send, EventsSent, IInv, Typed, PlacesTyped, SettingsTyped
<1>21. CASE Failed
  BY <1>21 DEF Failed, ClearRequest, IInv, Typed, PlacesTyped, SettingsTyped
<1>22. CASE PollReady
  BY <1>22 DEF PollReady, IInv, Typed, PlacesTyped, SettingsTyped
<1>23. CASE PollNothing
  BY <1>23 DEF PollNothing, IInv, Typed, PlacesTyped, SettingsTyped
<1>24. CASE PollTranscript
  BY <1>24 DEF PollTranscript, Answered, ClearRequest, IInv, Typed, PlacesTyped, SettingsTyped
<1>25. CASE PollNoText
  BY <1>25 DEF PollNoText, Answered, IInv, Typed, PlacesTyped, SettingsTyped
<1>26. CASE PollAudioStop
  BY <1>26 DEF PollAudioStop, IInv, Typed, PlacesTyped, SettingsTyped
<1>27. CASE PollError
  BY <1>27 DEF PollError, Answered, SetError, ClearRequest, IInv, Typed, PlacesTyped,
       SettingsTyped
<1>28. CASE PollInfo
  BY <1>28 DEF PollInfo, SetState, IInv, Typed, PlacesTyped, SettingsTyped
<1>29. CASE PollLost
  BY <1>29 DEF PollLost, SetState, SetError, ClearRequest, IInv, Typed, PlacesTyped,
       SettingsTyped
<1>30. CASE PollDrop
  BY <1>30 DEF PollDrop, IInv, Typed, PlacesTyped, SettingsTyped
<1>31. CASE Tick
  BY <1>31 DEF Tick, IInv, Typed, PlacesTyped, SettingsTyped
<1>32. CASE UNCHANGED vars
  BY <1>32 DEF IInv, Typed, PlacesTyped, SettingsTyped
<1> QED BY <1>1, <1>2, <1>3, <1>4, <1>5, <1>6, <1>7, <1>8, <1>9, <1>10, <1>11, <1>12, <1>13,
          <1>14, <1>15, <1>16, <1>17, <1>18, <1>19, <1>20, <1>21, <1>22, <1>23, <1>24, <1>25,
          <1>26, <1>27, <1>28, <1>29, <1>30, <1>31, <1>32 DEF Next, Connect, Disconnect,
          Resolve, Submit, Poll

\* Every step keeps the types of the connection.
LEMMA StepConn ==
  ASSUME IInv, [Next]_vars
  PROVE  ConnTyped'
<1> USE DEF vars, settingVars, connVars, requestVars, queueVars, netVars, mainVars, Threads, Go
<1>1. ASSUME NEW t \in Threads, ConnectCheck(t) PROVE ConnTyped'
  BY <1>1, NumbersAre DEF ConnectCheck, SetError, ClearRequest, Resume, Submitting, IInv,
       Typed, ConnTyped, NoSocket
<1>2. ASSUME NEW t \in Threads, ConnectSocket(t) PROVE ConnTyped'
  BY <1>2, NumbersAre DEF ConnectSocket, SetError, SetState, ClearRequest, Resume, Submitting,
       IInv, Typed, ConnTyped, NoSocket
<1>3. ASSUME NEW t \in Threads, ConnectOpen(t) PROVE ConnTyped'
  <2>1. CASE /\ sockets < MaxSockets
             /\ sockets' = sockets + 1 /\ fd' = sockets + 1 /\ open' = open \cup {sockets + 1}
    <3>1. sockets' \in 0 .. MaxSockets /\ fd' \in 0 .. sockets' /\ open' \subseteq 1 .. sockets'
      BY <2>1, NumbersAre DEF IInv, Typed, ConnTyped
    <3> QED BY <1>3, <3>1 DEF ConnectOpen, SetError, SetState, IInv, Typed, ConnTyped
  <2>2. CASE UNCHANGED <<fd, awaiting, netVars>>
    BY <1>3, <2>2 DEF ConnectOpen, SetError, SetState, IInv, Typed, ConnTyped
  <2> QED BY <1>3, <2>1, <2>2 DEF ConnectOpen
<1>4. ASSUME NEW t \in Threads, Ensure(t) PROVE ConnTyped'
  BY <1>4, NumbersAre DEF Ensure, Resume, Submitting, IInv, Typed, ConnTyped, NoSocket
<1>5. ASSUME NEW t \in Threads, DisconnectSocket(t) PROVE ConnTyped'
  <2>1. fd' \in 0 .. sockets /\ open' \subseteq 1 .. sockets /\ sockets' = sockets
    BY <1>5, NumbersAre DEF DisconnectSocket, IInv, Typed, ConnTyped, NoSocket
  <2> QED BY <1>5, <2>1 DEF DisconnectSocket, IInv, Typed, ConnTyped
<1>6. ASSUME NEW t \in Threads, DisconnectState(t) PROVE ConnTyped'
  BY <1>6, NumbersAre DEF DisconnectState, SetState, Submitting, IInv, Typed, ConnTyped,
       NoSocket
<1>7. ASSUME NEW t \in Threads, NEW s \in Settings, Apply(t, s) PROVE ConnTyped'
  BY <1>7, NumbersAre DEF Apply, IInv, Typed, ConnTyped, NoSocket
<1>8. ASSUME NEW t \in Threads, Assign(t) PROVE ConnTyped'
  BY <1>8, NumbersAre DEF Assign, IInv, Typed, ConnTyped, NoSocket
<1>9. ASSUME NEW t \in Threads, UseInternal(t) PROVE ConnTyped'
  BY <1>9, NumbersAre DEF UseInternal, ClearRequest, IInv, Typed, ConnTyped, NoSocket
<1>10. ASSUME NEW t \in Threads, UseExternal(t) PROVE ConnTyped'
  BY <1>10, NumbersAre DEF UseExternal, ClearRequest, IInv, Typed, ConnTyped, NoSocket
<1>11. ASSUME NEW t \in Threads, Configure(t) PROVE ConnTyped'
  BY <1>11, NumbersAre DEF Configure, IInv, Typed, ConnTyped, NoSocket
<1>12. CASE Post
  BY <1>12, NumbersAre DEF Post, IInv, Typed, ConnTyped, NoSocket
<1>13. CASE Take
  BY <1>13, NumbersAre DEF Take, IInv, Typed, ConnTyped, NoSocket
<1>14. CASE Skip
  BY <1>14, NumbersAre DEF Skip, IInv, Typed, ConnTyped, NoSocket
<1>15. CASE Proceed
  BY <1>15, NumbersAre DEF Proceed, ClearRequest, IInv, Typed, ConnTyped, NoSocket
<1>16. CASE RecordAge
  BY <1>16, NumbersAre DEF RecordAge, IInv, Typed, ConnTyped, NoSocket
<1>17. CASE RecordStart
  BY <1>17, NumbersAre DEF RecordStart, IInv, Typed, ConnTyped, NoSocket
<1>18. CASE RecordFlag
  BY <1>18, NumbersAre DEF RecordFlag, IInv, Typed, ConnTyped, NoSocket
<1>19. CASE Transcribe
  BY <1>19, NumbersAre DEF Transcribe, IInv, Typed, ConnTyped, NoSocket
<1>20. CASE Send
  BY <1>20, NumbersAre DEF Send, EventsSent, IInv, Typed, ConnTyped, NoSocket
<1>21. CASE Failed
  BY <1>21, NumbersAre DEF Failed, ClearRequest, IInv, Typed, ConnTyped, NoSocket
<1>22. CASE PollReady
  BY <1>22, NumbersAre DEF PollReady, IInv, Typed, ConnTyped, NoSocket
<1>23. CASE PollNothing
  BY <1>23, NumbersAre DEF PollNothing, IInv, Typed, ConnTyped, NoSocket
<1>24. CASE PollTranscript
  BY <1>24, NumbersAre DEF PollTranscript, Answered, ClearRequest, IInv, Typed, ConnTyped,
       NoSocket
<1>25. CASE PollNoText
  BY <1>25, NumbersAre DEF PollNoText, Answered, IInv, Typed, ConnTyped, NoSocket
<1>26. CASE PollAudioStop
  BY <1>26, NumbersAre DEF PollAudioStop, IInv, Typed, ConnTyped, NoSocket
<1>27. CASE PollError
  BY <1>27, NumbersAre DEF PollError, Answered, SetError, ClearRequest, IInv, Typed, ConnTyped,
       NoSocket
<1>28. CASE PollInfo
  BY <1>28, NumbersAre DEF PollInfo, SetState, IInv, Typed, ConnTyped, NoSocket
<1>29. CASE PollLost
  BY <1>29, NumbersAre DEF PollLost, SetState, SetError, ClearRequest, IInv, Typed, ConnTyped,
       NoSocket
<1>30. CASE PollDrop
  <2>1. fd' \in 0 .. sockets /\ open' \subseteq 1 .. sockets /\ sockets' = sockets
    BY <1>30, NumbersAre DEF PollDrop, IInv, Typed, ConnTyped, NoSocket
  <2> QED BY <1>30, <2>1 DEF PollDrop, IInv, Typed, ConnTyped
<1>31. CASE Tick
  BY <1>31, NumbersAre DEF Tick, IInv, Typed, ConnTyped, NoSocket
<1>32. CASE UNCHANGED vars
  BY <1>32 DEF IInv, Typed, ConnTyped, NoSocket
<1> QED BY <1>1, <1>2, <1>3, <1>4, <1>5, <1>6, <1>7, <1>8, <1>9, <1>10, <1>11, <1>12, <1>13,
          <1>14, <1>15, <1>16, <1>17, <1>18, <1>19, <1>20, <1>21, <1>22, <1>23, <1>24, <1>25,
          <1>26, <1>27, <1>28, <1>29, <1>30, <1>31, <1>32 DEF Next, Connect, Disconnect,
          Resolve, Submit, Poll

\* Every step keeps the types of the request.
LEMMA StepRequest ==
  ASSUME IInv, [Next]_vars
  PROVE  RequestTyped'
<1> USE DEF vars, settingVars, connVars, requestVars, queueVars, netVars, mainVars, Threads, Go
<1>1. ASSUME NEW t \in Threads, ConnectCheck(t) PROVE RequestTyped'
  BY <1>1, StaleIsAge DEF ConnectCheck, SetError, ClearRequest, Resume, Submitting, IInv,
       Typed, RequestTyped, NoUtt
<1>2. ASSUME NEW t \in Threads, ConnectSocket(t) PROVE RequestTyped'
  BY <1>2, StaleIsAge DEF ConnectSocket, SetError, SetState, ClearRequest, Resume, Submitting,
       IInv, Typed, RequestTyped, NoUtt
<1>3. ASSUME NEW t \in Threads, ConnectOpen(t) PROVE RequestTyped'
  BY <1>3, StaleIsAge DEF ConnectOpen, SetError, SetState, ClearRequest, Resume, Submitting,
       IInv, Typed, RequestTyped, NoUtt
<1>4. ASSUME NEW t \in Threads, Ensure(t) PROVE RequestTyped'
  BY <1>4, StaleIsAge DEF Ensure, Resume, Submitting, IInv, Typed, RequestTyped, NoUtt
<1>5. ASSUME NEW t \in Threads, DisconnectSocket(t) PROVE RequestTyped'
  BY <1>5, StaleIsAge DEF DisconnectSocket, IInv, Typed, RequestTyped, NoUtt
<1>6. ASSUME NEW t \in Threads, DisconnectState(t) PROVE RequestTyped'
  BY <1>6, StaleIsAge DEF DisconnectState, SetState, Submitting, IInv, Typed, RequestTyped,
       NoUtt
<1>7. ASSUME NEW t \in Threads, NEW s \in Settings, Apply(t, s) PROVE RequestTyped'
  BY <1>7, StaleIsAge DEF Apply, IInv, Typed, RequestTyped, NoUtt
<1>8. ASSUME NEW t \in Threads, Assign(t) PROVE RequestTyped'
  BY <1>8, StaleIsAge DEF Assign, IInv, Typed, RequestTyped, NoUtt
<1>9. ASSUME NEW t \in Threads, UseInternal(t) PROVE RequestTyped'
  BY <1>9, StaleIsAge DEF UseInternal, ClearRequest, IInv, Typed, RequestTyped, NoUtt
<1>10. ASSUME NEW t \in Threads, UseExternal(t) PROVE RequestTyped'
  BY <1>10, StaleIsAge DEF UseExternal, ClearRequest, IInv, Typed, RequestTyped, NoUtt
<1>11. ASSUME NEW t \in Threads, Configure(t) PROVE RequestTyped'
  BY <1>11, StaleIsAge DEF Configure, IInv, Typed, RequestTyped, NoUtt
<1>12. CASE Post
  BY <1>12, StaleIsAge DEF Post, IInv, Typed, RequestTyped, NoUtt
<1>13. CASE Take
  <2>1. utt' = utt \/ (queue # << >> /\ utt' = Head(queue))
    BY <1>13, Zenon DEF Take
  <2>2. queue \in Seq(Utterances)
    BY DEF IInv, Typed, QueuesTyped
  <2>3. utt' \in Utterances \cup {NoUtt}
    BY <2>1, <2>2 DEF IInv, Typed, RequestTyped
  <2> QED BY <1>13, <2>3 DEF Take, IInv, Typed, RequestTyped
<1>14. CASE Skip
  BY <1>14, StaleIsAge DEF Skip, IInv, Typed, RequestTyped, NoUtt
<1>15. CASE Proceed
  BY <1>15, StaleIsAge DEF Proceed, ClearRequest, IInv, Typed, RequestTyped, NoUtt
<1>16. CASE RecordAge
  BY <1>16, StaleIsAge DEF RecordAge, IInv, Typed, RequestTyped, NoUtt
<1>17. CASE RecordStart
  BY <1>17, StaleIsAge DEF RecordStart, IInv, Typed, RequestTyped, NoUtt
<1>18. CASE RecordFlag
  BY <1>18, StaleIsAge DEF RecordFlag, IInv, Typed, RequestTyped, NoUtt
<1>19. CASE Transcribe
  BY <1>19, StaleIsAge DEF Transcribe, IInv, Typed, RequestTyped, NoUtt
<1>20. CASE Send
  BY <1>20, StaleIsAge DEF Send, EventsSent, IInv, Typed, RequestTyped, NoUtt
<1>21. CASE Failed
  BY <1>21, StaleIsAge DEF Failed, ClearRequest, IInv, Typed, RequestTyped, NoUtt
<1>22. CASE PollReady
  BY <1>22, StaleIsAge DEF PollReady, IInv, Typed, RequestTyped, NoUtt
<1>23. CASE PollNothing
  BY <1>23, StaleIsAge DEF PollNothing, IInv, Typed, RequestTyped, NoUtt
<1>24. CASE PollTranscript
  BY <1>24, StaleIsAge DEF PollTranscript, Answered, ClearRequest, IInv, Typed, RequestTyped,
       NoUtt
<1>25. CASE PollNoText
  BY <1>25, StaleIsAge DEF PollNoText, Answered, IInv, Typed, RequestTyped, NoUtt
<1>26. CASE PollAudioStop
  BY <1>26, StaleIsAge DEF PollAudioStop, IInv, Typed, RequestTyped, NoUtt
<1>27. CASE PollError
  BY <1>27, StaleIsAge DEF PollError, Answered, SetError, ClearRequest, IInv, Typed,
       RequestTyped, NoUtt
<1>28. CASE PollInfo
  BY <1>28, StaleIsAge DEF PollInfo, SetState, IInv, Typed, RequestTyped, NoUtt
<1>29. CASE PollLost
  BY <1>29, StaleIsAge DEF PollLost, SetState, SetError, ClearRequest, IInv, Typed,
       RequestTyped, NoUtt
<1>30. CASE PollDrop
  BY <1>30, StaleIsAge DEF PollDrop, IInv, Typed, RequestTyped, NoUtt
<1>31. CASE Tick
  BY <1>31, NumbersAre DEF Tick, IInv, Typed, RequestTyped, NoUtt
<1>32. CASE UNCHANGED vars
  BY <1>32 DEF IInv, Typed, RequestTyped, NoUtt
<1> QED BY <1>1, <1>2, <1>3, <1>4, <1>5, <1>6, <1>7, <1>8, <1>9, <1>10, <1>11, <1>12, <1>13,
          <1>14, <1>15, <1>16, <1>17, <1>18, <1>19, <1>20, <1>21, <1>22, <1>23, <1>24, <1>25,
          <1>26, <1>27, <1>28, <1>29, <1>30, <1>31, <1>32 DEF Next, Connect, Disconnect,
          Resolve, Submit, Poll

\* The oldest request on the socket is taken away.
LEMMA AnsweredTypes ==
  ASSUME IInv, Answered
  PROVE  /\ fd \in SocketIds /\ Len(requests[fd]) \in Nat /\ Len(requests[fd]) > 0
         /\ Head(requests[fd]) \in Utterances /\ Head(requests[fd]) = requests[fd][1]
         /\ Len(requests'[fd]) = Len(requests[fd]) - 1
         /\ \A i \in 1 .. Len(requests[fd]) - 1 : requests'[fd][i] = requests[fd][i + 1]
         /\ \A s \in SocketIds : s # fd => requests'[s] = requests[s]
         /\ requests' \in [SocketIds -> Seq(Utterances)]
<1>1. fd \in SocketIds /\ requests[fd] # << >>
  BY NumbersAre DEF Answered, IInv, Typed, ConnTyped, SocketIds, NoSocket
<1>2. requests \in [SocketIds -> Seq(Utterances)] /\ requests[fd] \in Seq(Utterances)
  BY <1>1 DEF IInv, Typed, QueuesTyped
<1>3. requests' = [requests EXCEPT ![fd] = Tail(requests[fd])]
  BY DEF Answered
<1>4. Tail(requests[fd]) \in Seq(Utterances) /\ Head(requests[fd]) \in Utterances
      /\ Len(Tail(requests[fd])) = Len(requests[fd]) - 1 /\ Head(requests[fd]) = requests[fd][1]
      /\ Len(requests[fd]) \in Nat /\ Len(requests[fd]) > 0
      /\ \A i \in 1 .. Len(requests[fd]) - 1 : Tail(requests[fd])[i] = requests[fd][i + 1]
  BY <1>1, <1>2
<1>5. requests'[fd] = Tail(requests[fd])
  BY <1>1, <1>2, <1>3
<1> QED BY <1>1, <1>2, <1>3, <1>4, <1>5

\* Every step keeps the types of the queues.
LEMMA StepQueues ==
  ASSUME IInv, [Next]_vars
  PROVE  QueuesTyped'
<1> USE DEF vars, settingVars, connVars, requestVars, queueVars, netVars, mainVars, Threads, Go
<1>1. ASSUME NEW t \in Threads, ConnectCheck(t) PROVE QueuesTyped'
  BY <1>1 DEF ConnectCheck, SetError, ClearRequest, Resume, Submitting, IInv, Typed,
       QueuesTyped
<1>2. ASSUME NEW t \in Threads, ConnectSocket(t) PROVE QueuesTyped'
  BY <1>2 DEF ConnectSocket, SetError, SetState, ClearRequest, Resume, Submitting, IInv, Typed,
       QueuesTyped
<1>3. ASSUME NEW t \in Threads, ConnectOpen(t) PROVE QueuesTyped'
  BY <1>3 DEF ConnectOpen, SetError, SetState, ClearRequest, Resume, Submitting, IInv, Typed,
       QueuesTyped
<1>4. ASSUME NEW t \in Threads, Ensure(t) PROVE QueuesTyped'
  BY <1>4 DEF Ensure, Resume, Submitting, IInv, Typed, QueuesTyped
<1>5. ASSUME NEW t \in Threads, DisconnectSocket(t) PROVE QueuesTyped'
  BY <1>5 DEF DisconnectSocket, IInv, Typed, QueuesTyped
<1>6. ASSUME NEW t \in Threads, DisconnectState(t) PROVE QueuesTyped'
  BY <1>6 DEF DisconnectState, SetState, Submitting, IInv, Typed, QueuesTyped
<1>7. ASSUME NEW t \in Threads, NEW s \in Settings, Apply(t, s) PROVE QueuesTyped'
  BY <1>7 DEF Apply, IInv, Typed, QueuesTyped
<1>8. ASSUME NEW t \in Threads, Assign(t) PROVE QueuesTyped'
  BY <1>8 DEF Assign, IInv, Typed, QueuesTyped
<1>9. ASSUME NEW t \in Threads, UseInternal(t) PROVE QueuesTyped'
  BY <1>9 DEF UseInternal, ClearRequest, IInv, Typed, QueuesTyped
<1>10. ASSUME NEW t \in Threads, UseExternal(t) PROVE QueuesTyped'
  BY <1>10 DEF UseExternal, ClearRequest, IInv, Typed, QueuesTyped
<1>11. ASSUME NEW t \in Threads, Configure(t) PROVE QueuesTyped'
  BY <1>11 DEF Configure, IInv, Typed, QueuesTyped
<1>12. CASE Post
  <2>1. posted + 1 \in Utterances
    BY <1>12, NumbersAre DEF Post, IInv, Typed, QueuesTyped, Utterances
  <2>2. Append(queue, posted + 1) \in Seq(Utterances)
    BY <2>1 DEF IInv, Typed, QueuesTyped
  <2>3. posted' \in 0 .. MaxUtterances
    BY <1>12, NumbersAre DEF Post, IInv, Typed, QueuesTyped
  <2> QED BY <1>12, <2>2, <2>3 DEF Post, IInv, Typed, QueuesTyped
<1>13. CASE Take
  <2>1. queue \in Seq(Utterances) /\ queue # << >> /\ queue' = Tail(queue)
    BY <1>13, Zenon DEF Take, IInv, Typed, QueuesTyped
  <2>2. queue' \in Seq(Utterances)
    BY <2>1
  <2> QED BY <1>13, <2>2 DEF Take, IInv, Typed, QueuesTyped
<1>14. CASE Skip
  BY <1>14 DEF Skip, IInv, Typed, QueuesTyped
<1>15. CASE Proceed
  BY <1>15 DEF Proceed, ClearRequest, IInv, Typed, QueuesTyped
<1>16. CASE RecordAge
  BY <1>16 DEF RecordAge, IInv, Typed, QueuesTyped
<1>17. CASE RecordStart
  BY <1>17 DEF RecordStart, IInv, Typed, QueuesTyped
<1>18. CASE RecordFlag
  BY <1>18 DEF RecordFlag, IInv, Typed, QueuesTyped
<1>19. CASE Transcribe
  BY <1>19 DEF Transcribe, IInv, Typed, QueuesTyped
<1>20. CASE Send
  <2>1. /\ UNCHANGED <<queue, posted, answer>>
        /\ \/ requests' = requests
           \/ fd # NoSocket /\ requests' = [requests EXCEPT ![fd] = Append(requests[fd], utt)]
    BY <1>20 DEF Send, EventsSent
  <2>2. fd # NoSocket => fd \in SocketIds
    BY NumbersAre DEF IInv, Typed, ConnTyped, SocketIds, NoSocket
  <2>3. utt \in Utterances
    BY <1>20 DEF Send, IInv, Typed, RequestTyped, MainHas, Submission
  <2>4. requests \in [SocketIds -> Seq(Utterances)]
    BY DEF IInv, Typed, QueuesTyped
  <2>5. requests' \in [SocketIds -> Seq(Utterances)]
    BY <2>1, <2>2, <2>3, <2>4
  <2> QED BY <2>1, <2>5 DEF IInv, Typed, QueuesTyped
<1>21. CASE Failed
  BY <1>21 DEF Failed, ClearRequest, IInv, Typed, QueuesTyped
<1>22. CASE PollReady
  BY <1>22 DEF PollReady, IInv, Typed, QueuesTyped
<1>23. CASE PollNothing
  BY <1>23 DEF PollNothing, IInv, Typed, QueuesTyped
<1>24. CASE PollTranscript
  <2>1. requests' \in [SocketIds -> Seq(Utterances)] /\ Head(requests[fd]) \in Utterances
    BY <1>24, AnsweredTypes DEF PollTranscript
  <2> QED BY <1>24, <2>1 DEF PollTranscript, Answered, IInv, Typed, QueuesTyped, RequestTyped
<1>25. CASE PollNoText
  <2>1. requests' \in [SocketIds -> Seq(Utterances)] /\ Head(requests[fd]) \in Utterances
    BY <1>25, AnsweredTypes DEF PollNoText
  <2> QED BY <1>25, <2>1 DEF PollNoText, Answered, IInv, Typed, QueuesTyped, RequestTyped
<1>26. CASE PollAudioStop
  BY <1>26 DEF PollAudioStop, IInv, Typed, QueuesTyped
<1>27. CASE PollError
  <2>1. requests' \in [SocketIds -> Seq(Utterances)] /\ Head(requests[fd]) \in Utterances
    BY <1>27, AnsweredTypes DEF PollError
  <2> QED BY <1>27, <2>1 DEF PollError, Answered, IInv, Typed, QueuesTyped, RequestTyped
<1>28. CASE PollInfo
  BY <1>28 DEF PollInfo, SetState, IInv, Typed, QueuesTyped
<1>29. CASE PollLost
  BY <1>29 DEF PollLost, SetState, SetError, ClearRequest, IInv, Typed, QueuesTyped
<1>30. CASE PollDrop
  BY <1>30 DEF PollDrop, IInv, Typed, QueuesTyped
<1>31. CASE Tick
  BY <1>31 DEF Tick, IInv, Typed, QueuesTyped
<1>32. CASE UNCHANGED vars
  BY <1>32 DEF IInv, Typed, QueuesTyped
<1> QED BY <1>1, <1>2, <1>3, <1>4, <1>5, <1>6, <1>7, <1>8, <1>9, <1>10, <1>11, <1>12, <1>13,
          <1>14, <1>15, <1>16, <1>17, <1>18, <1>19, <1>20, <1>21, <1>22, <1>23, <1>24, <1>25,
          <1>26, <1>27, <1>28, <1>29, <1>30, <1>31, <1>32 DEF Next, Connect, Disconnect,
          Resolve, Submit, Poll

\* Every step keeps what the main thread has.
LEMMA StepMainHas ==
  ASSUME IInv, [Next]_vars
  PROVE  MainHas'
<1> USE DEF vars, settingVars, connVars, requestVars, queueVars, netVars, mainVars, Threads, Go
<1>1. ASSUME NEW t \in Threads, ConnectCheck(t) PROVE MainHas'
  BY <1>1 DEF ConnectCheck, SetError, ClearRequest, Resume, Submitting, IInv, Typed,
       PlacesTyped, MainHas, Calls, Submission, MainPlaces, NoUtt
<1>2. ASSUME NEW t \in Threads, ConnectSocket(t) PROVE MainHas'
  BY <1>2 DEF ConnectSocket, SetError, SetState, ClearRequest, Resume, Submitting, IInv, Typed,
       PlacesTyped, MainHas, Calls, Submission, MainPlaces, NoUtt
<1>3. ASSUME NEW t \in Threads, ConnectOpen(t) PROVE MainHas'
  BY <1>3 DEF ConnectOpen, SetError, SetState, ClearRequest, Resume, Submitting, IInv, Typed,
       PlacesTyped, MainHas, Calls, Submission, MainPlaces, NoUtt
<1>4. ASSUME NEW t \in Threads, Ensure(t) PROVE MainHas'
  BY <1>4 DEF Ensure, Resume, Submitting, IInv, Typed, PlacesTyped, MainHas, Calls, Submission,
       MainPlaces, NoUtt
<1>5. ASSUME NEW t \in Threads, DisconnectSocket(t) PROVE MainHas'
  BY <1>5 DEF DisconnectSocket, IInv, Typed, PlacesTyped, MainHas, Calls, Submission,
       MainPlaces, NoUtt
<1>6. ASSUME NEW t \in Threads, DisconnectState(t) PROVE MainHas'
  BY <1>6 DEF DisconnectState, SetState, Submitting, IInv, Typed, PlacesTyped, MainHas, Calls,
       Submission, MainPlaces, NoUtt
<1>7. ASSUME NEW t \in Threads, NEW s \in Settings, Apply(t, s) PROVE MainHas'
  BY <1>7 DEF Apply, IInv, Typed, PlacesTyped, MainHas, Calls, Submission, MainPlaces, NoUtt
<1>8. ASSUME NEW t \in Threads, Assign(t) PROVE MainHas'
  BY <1>8 DEF Assign, IInv, Typed, PlacesTyped, MainHas, Submission, NoUtt
<1>9. ASSUME NEW t \in Threads, UseInternal(t) PROVE MainHas'
  BY <1>9 DEF UseInternal, ClearRequest, IInv, Typed, PlacesTyped, MainHas, Calls, Submission,
       MainPlaces, NoUtt
<1>10. ASSUME NEW t \in Threads, UseExternal(t) PROVE MainHas'
  BY <1>10 DEF UseExternal, ClearRequest, IInv, Typed, PlacesTyped, MainHas, Calls, Submission,
       MainPlaces, NoUtt
<1>11. ASSUME NEW t \in Threads, Configure(t) PROVE MainHas'
  BY <1>11 DEF Configure, IInv, Typed, PlacesTyped, MainHas, Calls, Submission, MainPlaces,
       NoUtt
<1>12. CASE Post
  BY <1>12 DEF Post, IInv, Typed, PlacesTyped, MainHas, Calls, Submission, MainPlaces, NoUtt
<1>13. CASE Take
  <2>1. queue \in Seq(Utterances) /\ queue # << >>
    BY <1>13, Zenon DEF Take, IInv, Typed, QueuesTyped
  <2>2. Head(queue) \in Utterances
    BY <2>1
  <2>3. Head(queue) # NoUtt
    BY <2>2, NumbersAre DEF Utterances, NoUtt
  <2>4. /\ pc["main"] = "rest" /\ UNCHANGED fresh
        /\ \/ pc' = [pc EXCEPT !["main"] = "gate"] /\ utt' = Head(queue)
           \/ pc' = [pc EXCEPT !["main"] = "rest"] /\ UNCHANGED utt
    BY <1>13, Zenon DEF Take
  <2> QED BY <2>3, <2>4 DEF IInv, Typed, PlacesTyped, MainHas, Submission, NoUtt
<1>14. CASE Skip
  BY <1>14 DEF Skip, IInv, Typed, PlacesTyped, MainHas, Calls, Submission, MainPlaces, NoUtt
<1>15. CASE Proceed
  BY <1>15 DEF Proceed, ClearRequest, IInv, Typed, PlacesTyped, MainHas, Calls, Submission,
       MainPlaces, NoUtt
<1>16. CASE RecordAge
  BY <1>16 DEF RecordAge, IInv, Typed, PlacesTyped, MainHas, Calls, Submission, MainPlaces,
       NoUtt
<1>17. CASE RecordStart
  BY <1>17 DEF RecordStart, IInv, Typed, PlacesTyped, MainHas, Calls, Submission, MainPlaces,
       NoUtt
<1>18. CASE RecordFlag
  BY <1>18 DEF RecordFlag, IInv, Typed, PlacesTyped, MainHas, Calls, Submission, MainPlaces,
       NoUtt
<1>19. CASE Transcribe
  BY <1>19 DEF Transcribe, IInv, Typed, PlacesTyped, MainHas, Calls, Submission, MainPlaces,
       NoUtt
<1>20. CASE Send
  BY <1>20 DEF Send, EventsSent, IInv, Typed, PlacesTyped, MainHas, Calls, Submission,
       MainPlaces, NoUtt
<1>21. CASE Failed
  BY <1>21 DEF Failed, ClearRequest, IInv, Typed, PlacesTyped, MainHas, Calls, Submission,
       MainPlaces, NoUtt
<1>22. CASE PollReady
  BY <1>22 DEF PollReady, IInv, Typed, PlacesTyped, MainHas, Calls, Submission, MainPlaces,
       NoUtt
<1>23. CASE PollNothing
  BY <1>23 DEF PollNothing, IInv, Typed, PlacesTyped, MainHas, Calls, Submission, MainPlaces,
       NoUtt
<1>24. CASE PollTranscript
  BY <1>24 DEF PollTranscript, Answered, ClearRequest, IInv, Typed, PlacesTyped, MainHas,
       Calls, Submission, MainPlaces, NoUtt
<1>25. CASE PollNoText
  BY <1>25 DEF PollNoText, Answered, IInv, Typed, PlacesTyped, MainHas, Calls, Submission,
       MainPlaces, NoUtt
<1>26. CASE PollAudioStop
  BY <1>26 DEF PollAudioStop, IInv, Typed, PlacesTyped, MainHas, Calls, Submission, MainPlaces,
       NoUtt
<1>27. CASE PollError
  BY <1>27 DEF PollError, Answered, SetError, ClearRequest, IInv, Typed, PlacesTyped, MainHas,
       Calls, Submission, MainPlaces, NoUtt
<1>28. CASE PollInfo
  BY <1>28 DEF PollInfo, SetState, IInv, Typed, PlacesTyped, MainHas, Calls, Submission,
       MainPlaces, NoUtt
<1>29. CASE PollLost
  BY <1>29 DEF PollLost, SetState, SetError, ClearRequest, IInv, Typed, PlacesTyped, MainHas,
       Calls, Submission, MainPlaces, NoUtt
<1>30. CASE PollDrop
  BY <1>30 DEF PollDrop, IInv, Typed, PlacesTyped, MainHas, Calls, Submission, MainPlaces,
       NoUtt
<1>31. CASE Tick
  BY <1>31 DEF Tick, IInv, Typed, PlacesTyped, MainHas, Calls, Submission, MainPlaces, NoUtt
<1>32. CASE UNCHANGED vars
  BY <1>32 DEF IInv, Typed, PlacesTyped, MainHas, Calls, Submission, MainPlaces, NoUtt
<1> QED BY <1>1, <1>2, <1>3, <1>4, <1>5, <1>6, <1>7, <1>8, <1>9, <1>10, <1>11, <1>12, <1>13,
          <1>14, <1>15, <1>16, <1>17, <1>18, <1>19, <1>20, <1>21, <1>22, <1>23, <1>24, <1>25,
          <1>26, <1>27, <1>28, <1>29, <1>30, <1>31, <1>32 DEF Next, Connect, Disconnect,
          Resolve, Submit, Poll

\* In CONNECTING a thread is connecting.
LEMMA StepOpening ==
  ASSUME IInv, [Next]_vars
  PROVE  Opening'
<1> USE DEF vars, settingVars, connVars, requestVars, queueVars, netVars, mainVars, Threads, Go
<1>1. ASSUME NEW t \in Threads, ConnectCheck(t) PROVE Opening'
  BY <1>1 DEF ConnectCheck, SetError, ClearRequest, Resume, Submitting, IInv, Typed,
       PlacesTyped, ConnTyped, Opening, Calls, Submission, MainPlaces
<1>2. ASSUME NEW t \in Threads, ConnectSocket(t) PROVE Opening'
  BY <1>2 DEF ConnectSocket, SetError, SetState, ClearRequest, Resume, Submitting, IInv, Typed,
       PlacesTyped, ConnTyped, Opening, Calls, Submission, MainPlaces
<1>3. ASSUME NEW t \in Threads, ConnectOpen(t) PROVE Opening'
  BY <1>3 DEF ConnectOpen, SetError, SetState, ClearRequest, Resume, Submitting, IInv, Typed,
       PlacesTyped, ConnTyped, Opening, Calls, Submission, MainPlaces
<1>4. ASSUME NEW t \in Threads, Ensure(t) PROVE Opening'
  BY <1>4 DEF Ensure, Resume, Submitting, IInv, Typed, PlacesTyped, ConnTyped, Opening, Calls,
       Submission, MainPlaces
<1>5. ASSUME NEW t \in Threads, DisconnectSocket(t) PROVE Opening'
  BY <1>5 DEF DisconnectSocket, IInv, Typed, PlacesTyped, ConnTyped, Opening, Calls,
       Submission, MainPlaces
<1>6. ASSUME NEW t \in Threads, DisconnectState(t) PROVE Opening'
  BY <1>6 DEF DisconnectState, SetState, Submitting, IInv, Typed, PlacesTyped, ConnTyped,
       Opening, Calls, Submission, MainPlaces
<1>7. ASSUME NEW t \in Threads, NEW s \in Settings, Apply(t, s) PROVE Opening'
  BY <1>7 DEF Apply, IInv, Typed, PlacesTyped, ConnTyped, Opening, Calls, Submission,
       MainPlaces
<1>8. ASSUME NEW t \in Threads, Assign(t) PROVE Opening'
  BY <1>8 DEF Assign, IInv, Typed, PlacesTyped, ConnTyped, Opening, Calls, Submission,
       MainPlaces
<1>9. ASSUME NEW t \in Threads, UseInternal(t) PROVE Opening'
  BY <1>9 DEF UseInternal, ClearRequest, IInv, Typed, PlacesTyped, ConnTyped, Opening, Calls,
       Submission, MainPlaces
<1>10. ASSUME NEW t \in Threads, UseExternal(t) PROVE Opening'
  BY <1>10 DEF UseExternal, ClearRequest, IInv, Typed, PlacesTyped, ConnTyped, Opening, Calls,
       Submission, MainPlaces
<1>11. ASSUME NEW t \in Threads, Configure(t) PROVE Opening'
  BY <1>11 DEF Configure, IInv, Typed, PlacesTyped, ConnTyped, Opening, Calls, Submission,
       MainPlaces
<1>12. CASE Post
  BY <1>12 DEF Post, IInv, Typed, PlacesTyped, ConnTyped, Opening, Calls, Submission,
       MainPlaces
<1>13. CASE Take
  BY <1>13 DEF Take, IInv, Typed, PlacesTyped, ConnTyped, Opening, Calls, Submission,
       MainPlaces
<1>14. CASE Skip
  BY <1>14 DEF Skip, IInv, Typed, PlacesTyped, ConnTyped, Opening, Calls, Submission,
       MainPlaces
<1>15. CASE Proceed
  BY <1>15 DEF Proceed, ClearRequest, IInv, Typed, PlacesTyped, ConnTyped, Opening, Calls,
       Submission, MainPlaces
<1>16. CASE RecordAge
  BY <1>16 DEF RecordAge, IInv, Typed, PlacesTyped, ConnTyped, Opening, Calls, Submission,
       MainPlaces
<1>17. CASE RecordStart
  BY <1>17 DEF RecordStart, IInv, Typed, PlacesTyped, ConnTyped, Opening, Calls, Submission,
       MainPlaces
<1>18. CASE RecordFlag
  BY <1>18 DEF RecordFlag, IInv, Typed, PlacesTyped, ConnTyped, Opening, Calls, Submission,
       MainPlaces
<1>19. CASE Transcribe
  BY <1>19 DEF Transcribe, IInv, Typed, PlacesTyped, ConnTyped, Opening, Calls, Submission,
       MainPlaces
<1>20. CASE Send
  BY <1>20 DEF Send, EventsSent, IInv, Typed, PlacesTyped, ConnTyped, Opening, Calls,
       Submission, MainPlaces
<1>21. CASE Failed
  BY <1>21 DEF Failed, ClearRequest, IInv, Typed, PlacesTyped, ConnTyped, Opening, Calls,
       Submission, MainPlaces
<1>22. CASE PollReady
  BY <1>22 DEF PollReady, IInv, Typed, PlacesTyped, ConnTyped, Opening, Calls, Submission,
       MainPlaces
<1>23. CASE PollNothing
  BY <1>23 DEF PollNothing, IInv, Typed, PlacesTyped, ConnTyped, Opening, Calls, Submission,
       MainPlaces
<1>24. CASE PollTranscript
  BY <1>24 DEF PollTranscript, Answered, ClearRequest, IInv, Typed, PlacesTyped, ConnTyped,
       Opening, Calls, Submission, MainPlaces
<1>25. CASE PollNoText
  BY <1>25 DEF PollNoText, Answered, IInv, Typed, PlacesTyped, ConnTyped, Opening, Calls,
       Submission, MainPlaces
<1>26. CASE PollAudioStop
  BY <1>26 DEF PollAudioStop, IInv, Typed, PlacesTyped, ConnTyped, Opening, Calls, Submission,
       MainPlaces
<1>27. CASE PollError
  BY <1>27 DEF PollError, Answered, SetError, ClearRequest, IInv, Typed, PlacesTyped,
       ConnTyped, Opening, Calls, Submission, MainPlaces
<1>28. CASE PollInfo
  BY <1>28 DEF PollInfo, SetState, IInv, Typed, PlacesTyped, ConnTyped, Opening, Calls,
       Submission, MainPlaces
<1>29. CASE PollLost
  BY <1>29 DEF PollLost, SetState, SetError, ClearRequest, IInv, Typed, PlacesTyped, ConnTyped,
       Opening, Calls, Submission, MainPlaces
<1>30. CASE PollDrop
  BY <1>30 DEF PollDrop, IInv, Typed, PlacesTyped, ConnTyped, Opening, Calls, Submission,
       MainPlaces
<1>31. CASE Tick
  BY <1>31 DEF Tick, IInv, Typed, PlacesTyped, ConnTyped, Opening, Calls, Submission,
       MainPlaces
<1>32. CASE UNCHANGED vars
  BY <1>32 DEF IInv, Typed, PlacesTyped, ConnTyped, Opening, Calls, Submission, MainPlaces
<1> QED BY <1>1, <1>2, <1>3, <1>4, <1>5, <1>6, <1>7, <1>8, <1>9, <1>10, <1>11, <1>12, <1>13,
          <1>14, <1>15, <1>16, <1>17, <1>18, <1>19, <1>20, <1>21, <1>22, <1>23, <1>24, <1>25,
          <1>26, <1>27, <1>28, <1>29, <1>30, <1>31, <1>32 DEF Next, Connect, Disconnect,
          Resolve, Submit, Poll

\* Every step keeps what was asked on the sockets.
LEMMA StepAsked ==
  ASSUME IInv, [Next]_vars
  PROVE  Asked'
<1> USE DEF vars, settingVars, connVars, requestVars, queueVars, netVars, mainVars, Threads, Go
<1>1. ASSUME NEW t \in Threads, ConnectCheck(t) PROVE Asked'
  BY <1>1 DEF ConnectCheck, SetError, ClearRequest, Resume, Submitting, IInv, Typed,
       PlacesTyped, ConnTyped, MainHas, Asked, Calls, Submission, NoUtt, NoSocket, SocketIds
<1>2. ASSUME NEW t \in Threads, ConnectSocket(t) PROVE Asked'
  BY <1>2 DEF ConnectSocket, SetError, SetState, ClearRequest, Resume, Submitting, IInv, Typed,
       PlacesTyped, ConnTyped, MainHas, Asked, Calls, Submission, NoUtt, NoSocket, SocketIds
<1>3. ASSUME NEW t \in Threads, ConnectOpen(t) PROVE Asked'
  <2>1. CASE UNCHANGED <<fd, awaiting, netVars>>
    BY <1>3, <2>1 DEF ConnectOpen, SetError, SetState, ClearRequest, Resume, Submitting,
         IInv, Typed, PlacesTyped, ConnTyped, MainHas, Asked, Calls, Submission, 
         NoUtt, NoSocket, SocketIds
  <2>2. CASE /\ sockets < MaxSockets /\ UNCHANGED <<requests, requestVars, utt, fresh>>
             /\ sockets' = sockets + 1 /\ fd' = sockets + 1
             /\ pc' = [pc EXCEPT ![t] = Resume(t, TRUE)] /\ pc[t] = "opening"
    <3>1. /\ fd' \in SocketIds /\ requests'[fd'] = << >>
          /\ \A s \in SocketIds : s > sockets' => requests'[s] = << >>
      BY <2>2, NumbersAre DEF IInv, Typed, ConnTyped, Asked, SocketIds
    <3>2. pc'["main"] \in {"record_flag", "transcribe"} =>
          pc["main"] \in {"record_flag", "transcribe"}
      BY <2>2 DEF Resume, Submitting, IInv, Typed, PlacesTyped
    <3>3. \A i \in 1 .. Len(requests'[fd']) : FALSE
      BY <3>1
    <3> QED BY <2>2, <3>1, <3>2, <3>3 DEF IInv, Asked
  <2> QED BY <1>3, <2>1, <2>2 DEF ConnectOpen, SetState
<1>4. ASSUME NEW t \in Threads, Ensure(t) PROVE Asked'
  BY <1>4 DEF Ensure, Resume, Submitting, IInv, Typed, PlacesTyped, ConnTyped, MainHas, Asked,
       Calls, Submission, NoUtt, NoSocket, SocketIds
<1>5. ASSUME NEW t \in Threads, DisconnectSocket(t) PROVE Asked'
  BY <1>5 DEF DisconnectSocket, IInv, Typed, PlacesTyped, ConnTyped, MainHas, Asked, Calls,
       Submission, NoUtt, NoSocket, SocketIds
<1>6. ASSUME NEW t \in Threads, DisconnectState(t) PROVE Asked'
  BY <1>6 DEF DisconnectState, SetState, Submitting, IInv, Typed, PlacesTyped, ConnTyped,
       MainHas, Asked, Calls, Submission, NoUtt, NoSocket, SocketIds
<1>7. ASSUME NEW t \in Threads, NEW s \in Settings, Apply(t, s) PROVE Asked'
  BY <1>7 DEF Apply, IInv, Typed, PlacesTyped, ConnTyped, MainHas, Asked, Calls, Submission,
       NoUtt, NoSocket, SocketIds
<1>8. ASSUME NEW t \in Threads, Assign(t) PROVE Asked'
  <2>1. pc'["main"] \in {"record_flag", "transcribe", "failed"} <=>
        pc["main"] \in {"record_flag", "transcribe", "failed"}
    BY <1>8 DEF Assign, IInv, Typed, PlacesTyped
  <2>2. pc["main"] \in {"close", "failed"} <=> pc'["main"] \in {"close", "failed"}
    BY <1>8 DEF Assign, IInv, Typed, PlacesTyped
  <2>3. UNCHANGED <<fd, sockets, requests, start, utt, fresh>>
    BY <1>8 DEF Assign
  <2> QED BY <2>1, <2>2, <2>3 DEF IInv, Asked
<1>9. ASSUME NEW t \in Threads, UseInternal(t) PROVE Asked'
  BY <1>9 DEF UseInternal, ClearRequest, IInv, Typed, PlacesTyped, ConnTyped, MainHas, Asked,
       Calls, Submission, NoUtt, NoSocket, SocketIds
<1>10. ASSUME NEW t \in Threads, UseExternal(t) PROVE Asked'
  BY <1>10 DEF UseExternal, ClearRequest, IInv, Typed, PlacesTyped, ConnTyped, MainHas, Asked,
       Calls, Submission, NoUtt, NoSocket, SocketIds
<1>11. ASSUME NEW t \in Threads, Configure(t) PROVE Asked'
  BY <1>11 DEF Configure, IInv, Typed, PlacesTyped, ConnTyped, MainHas, Asked, Calls,
       Submission, NoUtt, NoSocket, SocketIds
<1>12. CASE Post
  BY <1>12 DEF Post, IInv, Typed, PlacesTyped, ConnTyped, MainHas, Asked, Calls, Submission,
       NoUtt, NoSocket, SocketIds
<1>13. CASE Take
  BY <1>13 DEF Take, IInv, Typed, PlacesTyped, ConnTyped, MainHas, Asked, Calls, Submission,
       NoUtt, NoSocket, SocketIds
<1>14. CASE Skip
  BY <1>14 DEF Skip, IInv, Typed, PlacesTyped, ConnTyped, MainHas, Asked, Calls, Submission,
       NoUtt, NoSocket, SocketIds
<1>15. CASE Proceed
  BY <1>15 DEF Proceed, ClearRequest, IInv, Typed, PlacesTyped, ConnTyped, MainHas, Asked,
       Calls, Submission, NoUtt, NoSocket, SocketIds
<1>16. CASE RecordAge
  BY <1>16 DEF RecordAge, IInv, Typed, PlacesTyped, ConnTyped, MainHas, Asked, Calls,
       Submission, NoUtt, NoSocket, SocketIds
<1>17. CASE RecordStart
  BY <1>17 DEF RecordStart, IInv, Typed, PlacesTyped, ConnTyped, MainHas, Asked, Calls,
       Submission, NoUtt, NoSocket, SocketIds
<1>18. CASE RecordFlag
  BY <1>18 DEF RecordFlag, IInv, Typed, PlacesTyped, ConnTyped, MainHas, Asked, Calls,
       Submission, NoUtt, NoSocket, SocketIds
<1>19. CASE Transcribe
  BY <1>19 DEF Transcribe, IInv, Typed, PlacesTyped, ConnTyped, MainHas, Asked, Calls,
       Submission, NoUtt, NoSocket, SocketIds
<1>20. CASE Send
  <2>1. CASE UNCHANGED <<requests, utt, fresh>> /\ pc' = [pc EXCEPT !["main"] = "failed"]
    BY <1>20, <2>1 DEF Send,
         IInv, Typed, PlacesTyped, ConnTyped, MainHas, Asked, Calls, Submission, 
         NoUtt, NoSocket, SocketIds
  <2>2. CASE /\ fd # NoSocket /\ requests' = [requests EXCEPT ![fd] = Append(requests[fd], utt)]
             /\ pc' = [pc EXCEPT !["main"] = "rest"] /\ utt' = NoUtt /\ ~fresh'
    <3>1. fresh /\ pc["main"] = "send" /\ UNCHANGED <<fd, start, sockets>>
      BY <1>20 DEF Send, IInv, MainHas, Typed, PlacesTyped, Submission
    <3>2. fd \in SocketIds /\ ~(fd > sockets)
      BY <2>2, NumbersAre DEF IInv, Typed, ConnTyped, SocketIds, NoSocket
    <3>3. requests[fd] = << >> /\ start \in {NoUtt, utt}
      BY <2>2, <3>1 DEF IInv, Asked
    <3>4. requests \in [SocketIds -> Seq(Utterances)]
      BY DEF IInv, Typed, QueuesTyped
    <3>5. /\ requests'[fd] = <<utt>>
          /\ \A s \in SocketIds : s > sockets => requests'[s] = << >>
      BY <2>2, <3>2, <3>3, <3>4 DEF IInv, Asked
    <3>6. \A i \in 1 .. Len(requests'[fd]) : start \in {NoUtt, requests'[fd][i]}
      BY <3>3, <3>5
    <3>7. pc'["main"] = "rest"
      BY <2>2 DEF IInv, Typed, PlacesTyped
    <3> QED BY <2>2, <3>1, <3>5, <3>6, <3>7 DEF Asked
  <2> QED BY <1>20, <2>1, <2>2 DEF Send, EventsSent
<1>21. CASE Failed
  BY <1>21 DEF Failed, ClearRequest, IInv, Typed, PlacesTyped, ConnTyped, MainHas, Asked,
       Calls, Submission, NoUtt, NoSocket, SocketIds
<1>22. CASE PollReady
  BY <1>22 DEF PollReady, IInv, Typed, PlacesTyped, ConnTyped, MainHas, Asked, Calls,
       Submission, NoUtt, NoSocket, SocketIds
<1>23. CASE PollNothing
  BY <1>23 DEF PollNothing, IInv, Typed, PlacesTyped, ConnTyped, MainHas, Asked, Calls,
       Submission, NoUtt, NoSocket, SocketIds
<1>24. CASE PollTranscript
  BY <1>24 DEF PollTranscript, Answered, ClearRequest, IInv, Typed, PlacesTyped, ConnTyped,
       MainHas, Asked, Calls, Submission, NoUtt, NoSocket, SocketIds
<1>25. CASE PollNoText
  BY <1>25 DEF PollNoText, Answered, IInv, Typed, PlacesTyped, ConnTyped, MainHas, Asked,
       Calls, Submission, NoUtt, NoSocket, SocketIds
<1>26. CASE PollAudioStop
  BY <1>26 DEF PollAudioStop, IInv, Typed, PlacesTyped, ConnTyped, MainHas, Asked, Calls,
       Submission, NoUtt, NoSocket, SocketIds
<1>27. CASE PollError
  BY <1>27 DEF PollError, Answered, SetError, ClearRequest, IInv, Typed, PlacesTyped,
       ConnTyped, MainHas, Asked, Calls, Submission, NoUtt, NoSocket, SocketIds
<1>28. CASE PollInfo
  BY <1>28 DEF PollInfo, SetState, IInv, Typed, PlacesTyped, ConnTyped, MainHas, Asked, Calls,
       Submission, NoUtt, NoSocket, SocketIds
<1>29. CASE PollLost
  BY <1>29 DEF PollLost, SetState, SetError, ClearRequest, IInv, Typed, PlacesTyped, ConnTyped,
       MainHas, Asked, Calls, Submission, NoUtt, NoSocket, SocketIds
<1>30. CASE PollDrop
  BY <1>30 DEF PollDrop, IInv, Typed, PlacesTyped, ConnTyped, MainHas, Asked, Calls,
       Submission, NoUtt, NoSocket, SocketIds
<1>31. CASE Tick
  BY <1>31 DEF Tick, IInv, Typed, PlacesTyped, ConnTyped, MainHas, Asked, Calls, Submission,
       NoUtt, NoSocket, SocketIds
<1>32. CASE UNCHANGED vars
  BY <1>32 DEF IInv, Typed, PlacesTyped, ConnTyped, MainHas, Asked, Calls, Submission, NoUtt,
       NoSocket, SocketIds
<1> QED BY <1>1, <1>2, <1>3, <1>4, <1>5, <1>6, <1>7, <1>8, <1>9, <1>10, <1>11, <1>12, <1>13,
          <1>14, <1>15, <1>16, <1>17, <1>18, <1>19, <1>20, <1>21, <1>22, <1>23, <1>24, <1>25,
          <1>26, <1>27, <1>28, <1>29, <1>30, <1>31, <1>32 DEF Next, Connect, Disconnect,
          Resolve, Submit, Poll

\* A transcript is passed on with the start time of what it is of, or with none.
LEMMA StepAnswer ==
  ASSUME IInv, [Next]_vars
  PROVE  AnswerMatchesRequest'
<1> USE DEF vars, settingVars, connVars, requestVars, queueVars, netVars, mainVars, Threads, Go
<1>1. ASSUME NEW t \in Threads, ConnectCheck(t) PROVE AnswerMatchesRequest'
  BY <1>1 DEF ConnectCheck, SetError, ClearRequest, Resume, Submitting, IInv,
       AnswerMatchesRequest
<1>2. ASSUME NEW t \in Threads, ConnectSocket(t) PROVE AnswerMatchesRequest'
  BY <1>2 DEF ConnectSocket, SetError, SetState, ClearRequest, Resume, Submitting, IInv,
       AnswerMatchesRequest
<1>3. ASSUME NEW t \in Threads, ConnectOpen(t) PROVE AnswerMatchesRequest'
  BY <1>3 DEF ConnectOpen, SetError, SetState, ClearRequest, Resume, Submitting, IInv,
       AnswerMatchesRequest
<1>4. ASSUME NEW t \in Threads, Ensure(t) PROVE AnswerMatchesRequest'
  BY <1>4 DEF Ensure, Resume, Submitting, IInv, AnswerMatchesRequest
<1>5. ASSUME NEW t \in Threads, DisconnectSocket(t) PROVE AnswerMatchesRequest'
  BY <1>5 DEF DisconnectSocket, IInv, AnswerMatchesRequest
<1>6. ASSUME NEW t \in Threads, DisconnectState(t) PROVE AnswerMatchesRequest'
  BY <1>6 DEF DisconnectState, SetState, Submitting, IInv, AnswerMatchesRequest
<1>7. ASSUME NEW t \in Threads, NEW s \in Settings, Apply(t, s) PROVE AnswerMatchesRequest'
  BY <1>7 DEF Apply, IInv, AnswerMatchesRequest
<1>8. ASSUME NEW t \in Threads, Assign(t) PROVE AnswerMatchesRequest'
  BY <1>8 DEF Assign, IInv, AnswerMatchesRequest
<1>9. ASSUME NEW t \in Threads, UseInternal(t) PROVE AnswerMatchesRequest'
  BY <1>9 DEF UseInternal, ClearRequest, IInv, AnswerMatchesRequest
<1>10. ASSUME NEW t \in Threads, UseExternal(t) PROVE AnswerMatchesRequest'
  BY <1>10 DEF UseExternal, ClearRequest, IInv, AnswerMatchesRequest
<1>11. ASSUME NEW t \in Threads, Configure(t) PROVE AnswerMatchesRequest'
  BY <1>11 DEF Configure, IInv, AnswerMatchesRequest
<1>12. CASE Post
  BY <1>12 DEF Post, IInv, AnswerMatchesRequest
<1>13. CASE Take
  BY <1>13 DEF Take, IInv, AnswerMatchesRequest
<1>14. CASE Skip
  BY <1>14 DEF Skip, IInv, AnswerMatchesRequest
<1>15. CASE Proceed
  BY <1>15 DEF Proceed, ClearRequest, IInv, AnswerMatchesRequest
<1>16. CASE RecordAge
  BY <1>16 DEF RecordAge, IInv, AnswerMatchesRequest
<1>17. CASE RecordStart
  BY <1>17 DEF RecordStart, IInv, AnswerMatchesRequest
<1>18. CASE RecordFlag
  BY <1>18 DEF RecordFlag, IInv, AnswerMatchesRequest
<1>19. CASE Transcribe
  BY <1>19 DEF Transcribe, IInv, AnswerMatchesRequest
<1>20. CASE Send
  BY <1>20 DEF Send, EventsSent, IInv, AnswerMatchesRequest
<1>21. CASE Failed
  BY <1>21 DEF Failed, ClearRequest, IInv, AnswerMatchesRequest
<1>22. CASE PollReady
  BY <1>22 DEF PollReady, IInv, AnswerMatchesRequest
<1>23. CASE PollNothing
  BY <1>23 DEF PollNothing, IInv, AnswerMatchesRequest
<1>24. CASE PollTranscript
  <2>1. answer' = [words |-> Head(requests[fd]), start |-> start] /\ fd # NoSocket
    BY <1>24 DEF PollTranscript, Answered
  <2>2. Len(requests[fd]) \in Nat /\ Len(requests[fd]) > 0 /\ Head(requests[fd]) = requests[fd][1]
    BY <1>24, AnsweredTypes DEF PollTranscript
  <2>3. pc["main"] = "polled" /\ ~fresh
    BY <1>24 DEF PollTranscript, Answered, IInv, MainHas
  <2>4. start \in {NoUtt, requests[fd][1]}
    BY <2>1, <2>2, <2>3 DEF IInv, Asked
  <2> QED BY <2>1, <2>2, <2>4 DEF AnswerMatchesRequest
<1>25. CASE PollNoText
  BY <1>25 DEF PollNoText, Answered, IInv, AnswerMatchesRequest
<1>26. CASE PollAudioStop
  BY <1>26 DEF PollAudioStop, IInv, AnswerMatchesRequest
<1>27. CASE PollError
  BY <1>27 DEF PollError, Answered, SetError, ClearRequest, IInv, AnswerMatchesRequest
<1>28. CASE PollInfo
  BY <1>28 DEF PollInfo, SetState, IInv, AnswerMatchesRequest
<1>29. CASE PollLost
  BY <1>29 DEF PollLost, SetState, SetError, ClearRequest, IInv, AnswerMatchesRequest
<1>30. CASE PollDrop
  BY <1>30 DEF PollDrop, IInv, AnswerMatchesRequest
<1>31. CASE Tick
  BY <1>31 DEF Tick, IInv, AnswerMatchesRequest
<1>32. CASE UNCHANGED vars
  BY <1>32 DEF IInv, AnswerMatchesRequest
<1> QED BY <1>1, <1>2, <1>3, <1>4, <1>5, <1>6, <1>7, <1>8, <1>9, <1>10, <1>11, <1>12, <1>13,
          <1>14, <1>15, <1>16, <1>17, <1>18, <1>19, <1>20, <1>21, <1>22, <1>23, <1>24, <1>25,
          <1>26, <1>27, <1>28, <1>29, <1>30, <1>31, <1>32 DEF Next, Connect, Disconnect,
          Resolve, Submit, Poll

LEMMA InitIInv == Init => IInv
<1> SUFFICES ASSUME Init PROVE IInv
  OBVIOUS
<1>1. PlacesTyped
  <2> DEFINE boot == [main |-> "boot", http |-> "rest"]
  <2>1. boot \in [Threads -> {"boot", "rest"}] /\ boot["main"] = "boot" /\ boot["http"] = "rest"
    BY DEF Threads
  <2>2. {"boot", "rest"} \subseteq MainPlaces /\ "rest" \in Calls
    BY DEF MainPlaces, Calls
  <2>3. pc = boot
    BY DEF Init
  <2> HIDE DEF boot
  <2> QED BY <2>1, <2>2, <2>3 DEF PlacesTyped
<1>2. SettingsTyped
  <2>1. NoSettings \in [mode : {"internal", "external"}, host : {"", "name", "address"}]
    BY DEF NoSettings
  <2>2. 0 \in 0 .. MaxChanges
    BY NumbersAre
  <2> QED BY <2>1, <2>2 DEF Init, SettingsTyped
<1>3. ConnTyped /\ RequestTyped
  <2>1. 0 \in 0 .. MaxSockets /\ 0 \in 0 .. 0 /\ {} \subseteq 1 .. 0
    BY NumbersAre
  <2>2. ConnTyped
    BY <2>1 DEF Init, ConnTyped, NoSocket
  <2> QED BY <2>2, StaleIsAge DEF Init, RequestTyped
<1>4. QueuesTyped
  <2>1. 0 \in 0 .. MaxUtterances
    BY NumbersAre
  <2>2. << >> \in Seq(Utterances)
    OBVIOUS
  <2>3. [s \in SocketIds |-> << >>] \in [SocketIds -> Seq(Utterances)]
    BY <2>2
  <2> QED BY <2>1, <2>2, <2>3 DEF Init, QueuesTyped, SocketIds
<1>5. MainHas /\ AnswerMatchesRequest /\ Opening
  BY DEF Init, MainHas, Submission, AnswerMatchesRequest, Opening
<1>6. Asked
  BY DEF Init, Asked, SocketIds
<1> QED BY <1>1, <1>2, <1>3, <1>4, <1>5, <1>6 DEF IInv, Typed

LEMMA IInvHolds == Spec => []IInv
<1>1. IInv /\ [Next]_vars => IInv'
  BY StepPlaces, StepSettings, StepConn, StepRequest, StepQueues, StepMainHas, StepAsked,
     StepAnswer, StepOpening DEF IInv, Typed
<1> QED BY InitIInv, <1>1, PTL DEF Spec

LEMMA TypedIsTypeOK == IInv => TypeOK
<1> SUFFICES ASSUME IInv PROVE TypeOK
  OBVIOUS
<1>1. fd \in SocketIds \cup {NoSocket}
  BY NumbersAre DEF IInv, Typed, ConnTyped, SocketIds, NoSocket
<1> QED BY <1>1 DEF IInv, Typed, PlacesTyped, SettingsTyped, ConnTyped, RequestTyped,
             QueuesTyped,
                    MainPlaces, Calls, Submission, TypeOK

\* The type invariant, for any number of utterances, sockets, ticks and changes.
THEOREM TypeCorrect == Spec => []TypeOK
BY IInvHolds, TypedIsTypeOK, PTL

\* A late answer, to a request that was given up as stale or withdrawn by a change of
\* settings, is never passed on as the answer to a younger one, whatever the two threads
\* do: every request has a connection of its own, and what is recorded is withdrawn
\* before the next request goes out.
THEOREM AnswersMatchRequests == Spec => []AnswerMatchesRequest
<1>1. IInv => AnswerMatchesRequest
  BY DEF IInv
<1> QED BY IInvHolds, <1>1, PTL

\* Every step keeps the order of what was passed on, is asked, and waits.
LEMMA StepInOrder ==
  ASSUME IInv, InOrder, [Next]_vars
  PROVE  InOrder'
<1> USE DEF vars, settingVars, connVars, requestVars, queueVars, netVars, mainVars, Threads, Go
<1>1. /\ queue \in Seq(Utterances) /\ posted \in 0 .. MaxUtterances /\ MaxUtterances \in Nat
      /\ answer.words \in Nat /\ utt \in Nat /\ Len(queue) \in Nat
      /\ \A i \in 1 .. Len(queue) : queue[i] \in Nat
  BY NumbersAre DEF IInv, Typed, QueuesTyped, RequestTyped, Utterances, NoUtt
<1>2. ASSUME queue' = queue, posted' = posted, requests' = requests, answer' = answer,
             fd' \in {fd, NoSocket}, utt' \in {utt, NoUtt}
      PROVE  InOrder'
  <2>1. /\ utt' <= posted /\ \A i \in 1 .. Len(queue) : utt' < queue[i]
        /\ utt' # NoUtt => utt' = utt
    BY <1>1, <1>2 DEF InOrder, NoUtt
  <2>2. fd' # NoSocket => fd' = fd
    BY <1>2
  <2> QED BY <1>2, <2>1, <2>2 DEF InOrder
<1>3. CASE \E t \in Threads : \/ ConnectCheck(t) \/ ConnectSocket(t) \/ Ensure(t)
                              \/ Disconnect(t) \/ Resolve(t)
  BY <1>2, <1>3 DEF ConnectCheck, ConnectSocket, Ensure, Disconnect, DisconnectSocket,
     DisconnectState, Resolve, Apply, Assign, UseInternal, UseExternal, Configure, SetError,
     SetState
<1>4. ASSUME NEW t \in Threads, ConnectOpen(t) PROVE InOrder'
  <2>1. CASE UNCHANGED <<fd, awaiting, netVars>>
    BY <1>2, <1>4, <2>1 DEF ConnectOpen
  <2>2. CASE sockets < MaxSockets /\ fd' = sockets + 1 /\ UNCHANGED requests
    <3>1. fd' \in SocketIds /\ fd' > sockets
      BY <2>2, NumbersAre DEF IInv, Typed, ConnTyped, SocketIds
    <3>2. requests'[fd'] = << >>
      BY <2>2, <3>1 DEF IInv, Asked
    <3> QED BY <1>4, <3>2 DEF ConnectOpen, InOrder
  <2> QED BY <1>4, <2>1, <2>2 DEF ConnectOpen
<1>5. CASE Post
  <2>1. /\ queue' = Append(queue, posted + 1) /\ posted' = posted + 1
        /\ UNCHANGED <<requests, answer, fd, utt>>
    BY <1>5 DEF Post
  <2>2. /\ Len(queue') = Len(queue) + 1 /\ queue'[Len(queue) + 1] = posted + 1
        /\ \A i \in 1 .. Len(queue) : queue'[i] = queue[i]
    BY <1>1, <2>1
  <2>3. \A i \in 1 .. Len(queue') :
          \/ i \in 1 .. Len(queue) /\ queue'[i] = queue[i]
          \/ i = Len(queue) + 1 /\ queue'[i] = posted + 1
    BY <1>1, <2>2
  <2>4. /\ answer'.words <= posted' /\ utt' <= posted'
        /\ utt' # NoUtt => answer'.words < utt'
    BY <1>1, <2>1 DEF InOrder
  <2>5. ASSUME NEW i \in 1 .. Len(queue')
        PROVE  /\ answer'.words < queue'[i] /\ utt' < queue'[i] /\ queue'[i] <= posted'
               /\ \A j \in 1 .. Len(queue') : i < j => queue'[i] < queue'[j]
    <3>1. \A k \in 1 .. Len(queue) : queue[k] <= posted
      BY DEF InOrder
    <3>2. answer'.words < queue'[i] /\ utt' < queue'[i] /\ queue'[i] <= posted'
      BY <1>1, <2>1, <2>3, <3>1 DEF InOrder
    <3>3. ASSUME NEW j \in 1 .. Len(queue'), i < j PROVE queue'[i] < queue'[j]
      <4>1. i \in 1 .. Len(queue) /\ queue'[i] = queue[i]
        BY <1>1, <2>2, <2>3, <3>3
      <4> QED BY <1>1, <2>3, <3>1, <3>3, <4>1 DEF InOrder
    <3> QED BY <3>2, <3>3
  <2>6. fd # NoSocket /\ requests[fd] # << >> =>
          \A i \in 1 .. Len(queue') : requests[fd][1] < queue'[i]
    <3> SUFFICES ASSUME fd # NoSocket, requests[fd] # << >>, NEW i \in 1 .. Len(queue')
                 PROVE  requests[fd][1] < queue'[i]
      OBVIOUS
    <3>1. requests[fd][1] \in Nat
      BY NumbersAre DEF IInv, Typed, ConnTyped, QueuesTyped, SocketIds, NoSocket, Utterances
    <3> QED BY <1>1, <2>3, <3>1 DEF InOrder
  <2>7. fd # NoSocket /\ requests[fd] # << >> => requests[fd][1] <= posted + 1
    <3> SUFFICES ASSUME fd # NoSocket, requests[fd] # << >> PROVE requests[fd][1] <= posted + 1
      OBVIOUS
    <3>1. requests[fd][1] \in Nat
      BY NumbersAre DEF IInv, Typed, ConnTyped, QueuesTyped, SocketIds, NoSocket, Utterances
    <3> QED BY <1>1, <3>1 DEF InOrder
  <2>8. fd' # NoSocket /\ requests'[fd'] # << >> =>
          /\ Len(requests'[fd']) = 1
          /\ answer'.words < requests'[fd'][1] /\ requests'[fd'][1] <= posted'
          /\ utt' # NoUtt => requests'[fd'][1] < utt'
          /\ \A i \in 1 .. Len(queue') : requests'[fd'][1] < queue'[i]
    <3>1. fd # NoSocket /\ requests[fd] # << >> =>
            /\ Len(requests[fd]) = 1 /\ answer.words < requests[fd][1]
            /\ utt # NoUtt => requests[fd][1] < utt
      BY DEF InOrder
    <3> QED BY <2>1, <2>6, <2>7, <3>1
  <2> QED BY <2>4, <2>5, <2>8 DEF InOrder
<1>6. CASE Take
  <2>1. /\ queue # << >> /\ queue' = Tail(queue) /\ pc["main"] = "rest"
        /\ UNCHANGED <<requests, answer, fd, posted>>
    BY <1>6 DEF Take
  <2>2. /\ Len(queue') = Len(queue) - 1 /\ Len(queue) >= 1 /\ Head(queue) = queue[1]
        /\ \A i \in 1 .. Len(queue) - 1 : queue'[i] = queue[i + 1]
    BY <1>1, <2>1
  <2>3. utt = NoUtt /\ utt' \in {NoUtt, queue[1]}
    BY <1>6, <2>1, <2>2 DEF Take, IInv, MainHas
  <2>4. \A i \in 1 .. Len(queue') :
          /\ i + 1 \in 1 .. Len(queue) /\ 1 < i + 1 /\ queue'[i] = queue[i + 1]
    BY <1>1, <2>2
  <2>5. 1 \in 1 .. Len(queue)
    BY <1>1, <2>2
  <2>6. /\ answer'.words <= posted' /\ utt' <= posted'
        /\ utt' # NoUtt => answer'.words < utt'
    BY <1>1, <2>1, <2>3, <2>5 DEF InOrder, NoUtt
  <2>7. ASSUME NEW i \in 1 .. Len(queue')
        PROVE  /\ answer'.words < queue'[i] /\ utt' < queue'[i] /\ queue'[i] <= posted'
               /\ \A j \in 1 .. Len(queue') : i < j => queue'[i] < queue'[j]
    <3>1. answer'.words < queue'[i] /\ utt' < queue'[i] /\ queue'[i] <= posted'
      BY <1>1, <2>1, <2>3, <2>4, <2>5 DEF InOrder, NoUtt
    <3>2. ASSUME NEW j \in 1 .. Len(queue'), i < j PROVE queue'[i] < queue'[j]
      <4>1. i + 1 < j + 1
        BY <1>1, <2>2, <3>2
      <4> QED BY <2>4, <4>1 DEF InOrder
    <3> QED BY <3>1, <3>2
  <2>8. fd # NoSocket /\ requests[fd] # << >> =>
          /\ \A i \in 1 .. Len(queue') : requests[fd][1] < queue'[i]
          /\ utt' # NoUtt => requests[fd][1] < utt'
    BY <2>3, <2>4, <2>5 DEF InOrder
  <2>9. fd' # NoSocket /\ requests'[fd'] # << >> =>
          /\ Len(requests'[fd']) = 1
          /\ answer'.words < requests'[fd'][1] /\ requests'[fd'][1] <= posted'
          /\ utt' # NoUtt => requests'[fd'][1] < utt'
          /\ \A i \in 1 .. Len(queue') : requests'[fd'][1] < queue'[i]
    <3>1. fd # NoSocket /\ requests[fd] # << >> =>
            /\ Len(requests[fd]) = 1 /\ answer.words < requests[fd][1]
            /\ requests[fd][1] <= posted
      BY DEF InOrder
    <3> QED BY <2>1, <2>8, <3>1
  <2> QED BY <2>6, <2>7, <2>9 DEF InOrder
<1>7. CASE Skip \/ Proceed \/ RecordAge \/ RecordStart \/ RecordFlag \/ Transcribe \/ Failed
  BY <1>2, <1>7 DEF Skip, Proceed, RecordAge, RecordStart, RecordFlag, Transcribe, Failed
<1>8. CASE Send
  <2>1. CASE UNCHANGED <<requests, awaiting, mainVars>>
    BY <1>2, <1>8, <2>1 DEF Send
  <2>2. CASE /\ requests' = [requests EXCEPT ![fd] = Append(@, utt)] /\ utt' = NoUtt
             /\ fd # NoSocket
    <3>1. utt # NoUtt /\ fresh /\ fd \in SocketIds
      BY <1>8, <2>2, NumbersAre DEF Send, IInv, MainHas, Submission, Typed, ConnTyped, SocketIds,
         NoSocket
    <3>2. requests[fd] = << >>
      BY <1>8, <2>2, <3>1 DEF Send, IInv, Asked
    <3>3. requests'[fd] = <<utt>>
      BY <2>2, <3>1, <3>2 DEF IInv, Typed, QueuesTyped
    <3>4. UNCHANGED <<queue, posted, answer, fd>>
      BY <1>8 DEF Send
    <3> QED BY <1>1, <2>2, <3>1, <3>3, <3>4 DEF InOrder, NoUtt
  <2> QED BY <1>8, <2>1, <2>2 DEF Send, EventsSent
<1>9. CASE PollTranscript \/ PollNoText \/ PollError
  <2>1. Answered /\ pc["main"] = "polled" /\ fd # NoSocket /\ requests[fd] # << >>
        /\ UNCHANGED <<queue, posted, fd, utt>>
    BY <1>9 DEF PollTranscript, PollNoText, PollError, Answered
  <2>2. utt = NoUtt
    BY <2>1 DEF IInv, MainHas
  <2>3. /\ Len(requests[fd]) = 1 /\ Head(requests[fd]) = requests[fd][1]
        /\ requests[fd][1] \in Nat /\ requests'[fd] = << >>
    BY <2>1, AnsweredTypes DEF InOrder, Utterances
  <2>4. answer'.words \in {answer.words, requests[fd][1]}
    BY <1>9, <2>3 DEF PollTranscript, PollNoText, PollError
  <2> QED BY <1>1, <2>1, <2>2, <2>3, <2>4 DEF InOrder, NoUtt
<1>10. CASE PollReady \/ PollNothing \/ PollAudioStop \/ PollInfo \/ PollLost \/ PollDrop \/ Tick
  BY <1>2, <1>10 DEF PollReady, PollNothing, PollAudioStop, PollInfo, PollLost, PollDrop, Tick,
     SetState, SetError
<1>11. CASE UNCHANGED vars
  BY <1>2, <1>11
<1> QED BY <1>3, <1>4, <1>5, <1>6, <1>7, <1>8, <1>9, <1>10, <1>11 DEF Next, Connect, Submit, Poll

\* No transcript of the server's is passed on twice or after that to a later utterance,
\* and each with its own start time or none, whatever the two threads do: the next
\* request is later than those that wait for an answer, and goes out on a socket on which
\* nothing was asked.
THEOREM AnswersComeInTurn == Spec => AnswersInTurn
<1>1. Init => InOrder
  <2> SUFFICES ASSUME Init PROVE InOrder
    OBVIOUS
  <2>1. /\ answer.words = 0 /\ posted = 0 /\ utt = 0 /\ fd = 0 /\ queue = << >>
    BY DEF Init, NoUtt, NoSocket
  <2> QED BY <2>1 DEF InOrder, NoUtt, NoSocket
<1>2. IInv /\ InOrder /\ [Next]_vars => InOrder'
  BY StepInOrder
<1>3. ASSUME IInv, InOrder, [Next]_vars
      PROVE  [PollTranscript => AnswerMatchesRequest' /\ answer'.words > answer.words]_vars
  <2> SUFFICES ASSUME PollTranscript
               PROVE  AnswerMatchesRequest' /\ answer'.words > answer.words
    OBVIOUS
  <2>1. AnswerMatchesRequest'
    BY <1>3, StepAnswer
  <2>2. Answered /\ fd # NoSocket /\ requests[fd] # << >>
        /\ answer' = [words |-> Head(requests[fd]), start |-> start]
    BY DEF PollTranscript, Answered
  <2>3. Head(requests[fd]) = requests[fd][1] /\ requests[fd][1] \in Nat
    BY <1>3, <2>2, AnsweredTypes DEF Utterances
  <2>4. answer.words \in Nat
    BY <1>3 DEF IInv, Typed, QueuesTyped, Utterances, NoUtt
  <2> QED BY <1>3, <2>1, <2>2, <2>3, <2>4 DEF InOrder
<1> QED BY <1>1, <1>2, <1>3, IInvHolds, PTL DEF Spec, AnswersInTurn

\* Every step keeps what holds of the connection of one thread.
LEMMA StepAlone ==
  ASSUME IInv, Alone, [Next]_vars
  PROVE  Alone'
<1> USE DEF vars, settingVars, connVars, requestVars, queueVars, netVars, mainVars, Threads, Go
<1>1. ASSUME NEW t \in Threads, ConnectCheck(t) PROVE Alone'
  <2>1. /\ \/ pc' = [pc EXCEPT ![t] = Resume(t, FALSE)] /\ UNCHANGED <<state, shown, requestVars>>
           \/ /\ pc' = [pc EXCEPT ![t] = Resume(t, FALSE)] /\ state' = "error"
              /\ state \notin {"connected", "connecting"}
           \/ /\ pc' = [pc EXCEPT ![t] = "socket"] /\ UNCHANGED <<state, shown, requestVars>>
              /\ state \notin {"connected", "connecting"}
        /\ pc[t] = "connect"
        /\ UNCHANGED <<fd, awaiting, open, requests, mode, host, changes, utt, fresh>>
    BY <1>1, Zenon DEF ConnectCheck, SetError
  <2>2. /\ Resume(t, FALSE) \in {"rest", "submit", "failed"}
        /\ t = "main" => (Resume(t, FALSE) = "rest" => utt = NoUtt)
                         /\ (Resume(t, FALSE) # "failed" => utt = NoUtt \/ ~fresh)
    BY DEF Resume, Submitting
  <2>3. changes = 0 => t = "main"
    BY <2>1 DEF Alone
  <2>4. CASE changes # 0
    BY <2>1, <2>4 DEF Alone
  <2>5. CASE t = "main" /\ state' = "error"
    BY <2>1, <2>2, <2>5 DEF IInv, Typed, PlacesTyped, MainHas, Alone
  <2>6. CASE t = "main" /\ UNCHANGED <<state, shown, requestVars>>
    BY <2>1, <2>2, <2>6 DEF IInv, Typed, PlacesTyped, MainHas, Alone, Alone
  <2> QED BY <2>1, <2>3, <2>4, <2>5, <2>6
<1>2. ASSUME NEW t \in Threads, ConnectSocket(t) PROVE Alone'
  BY <1>2 DEF ConnectSocket, SetError, SetState, ClearRequest, Resume, Submitting, IInv, Typed,
       PlacesTyped, ConnTyped, MainHas, Opening, Alone, Submission, NoUtt, NoSocket
<1>3. ASSUME NEW t \in Threads, ConnectOpen(t) PROVE Alone'
  <2>1. /\ \/ /\ pc' = [pc EXCEPT ![t] = Resume(t, FALSE)] /\ state' = "error"
              /\ UNCHANGED <<fd, open>>
           \/ /\ pc' = [pc EXCEPT ![t] = Resume(t, TRUE)]
              /\ fd' = sockets + 1 /\ open' = open \cup {sockets + 1}
              /\ state' = "connected" /\ shown' = "connected"
        /\ pc[t] = "opening"
        /\ UNCHANGED <<mode, host, changes, utt, fresh>>
    BY <1>3, Zenon DEF ConnectOpen, SetState, SetError
  <2>2. /\ Resume(t, FALSE) \in {"rest", "submit", "failed"}
        /\ Resume(t, TRUE) \in {"rest", "submit", "send"}
    BY DEF Resume
  <2>3. sockets + 1 # NoSocket
    BY NumbersAre DEF IInv, Typed, ConnTyped, NoSocket
  <2>4. changes = 0 => t = "main"
    BY <2>1 DEF Alone
  <2>5. CASE changes # 0
    BY <2>1, <2>5 DEF Alone
  <2>6. CASE /\ t = "main" /\ state' = "error" /\ UNCHANGED <<fd, open>>
             /\ pc' = [pc EXCEPT ![t] = Resume(t, FALSE)]
    BY <2>1, <2>2, <2>6 DEF IInv, Typed, PlacesTyped, Alone
  <2>7. CASE /\ t = "main" /\ state' = "connected" /\ shown' = "connected"
             /\ pc' = [pc EXCEPT ![t] = Resume(t, TRUE)]
             /\ fd' = sockets + 1 /\ open' = open \cup {sockets + 1}
    BY <2>1, <2>2, <2>3, <2>7 DEF IInv, Typed, PlacesTyped, Alone
  <2> QED BY <2>1, <2>4, <2>5, <2>6, <2>7
<1>4. ASSUME NEW t \in Threads, Ensure(t) PROVE Alone'
  BY <1>4 DEF Ensure, Resume, Submitting, IInv, Typed, PlacesTyped, ConnTyped, MainHas,
       Opening, Alone, Submission, NoUtt, NoSocket
<1>5. ASSUME NEW t \in Threads, DisconnectSocket(t) PROVE Alone'
  BY <1>5 DEF DisconnectSocket, IInv, Typed, PlacesTyped, ConnTyped, MainHas, Opening, Alone,
       Submission, NoUtt, NoSocket
<1>6. ASSUME NEW t \in Threads, DisconnectState(t) PROVE Alone'
  BY <1>6 DEF DisconnectState, SetState, Submitting, IInv, Typed, PlacesTyped, ConnTyped,
       MainHas, Opening, Alone, Submission, NoUtt, NoSocket
<1>7. ASSUME NEW t \in Threads, NEW s \in Settings, Apply(t, s) PROVE Alone'
  <2>1. \/ /\ t = "main" /\ pc["main"] = "boot" /\ UNCHANGED changes
           /\ pc' = [pc EXCEPT ![t] = "assign"]
        \/ changes' = changes + 1
    BY <1>7, Zenon DEF Apply
  <2>2. changes \in 0 .. MaxChanges
    BY DEF IInv, Typed, SettingsTyped
  <2>3. changes + 1 # 0
    BY <2>2, NumbersAre
  <2>4. changes' = 0 => t = "main" /\ pc["main"] = "boot" /\ changes = 0
                        /\ pc' = [pc EXCEPT ![t] = "assign"]
    BY <2>1, <2>3
  <2>5. /\ UNCHANGED <<connVars, requestVars, open, requests, utt, fresh>>
        /\ mode' = "internal" /\ host' = ""
    BY <1>7, Zenon DEF Apply
  <2> QED BY <2>4, <2>5 DEF IInv, Typed, PlacesTyped, ConnTyped, Alone
<1>8. ASSUME NEW t \in Threads, Assign(t) PROVE Alone'
  <2>1. applied[t].mode \in {"internal", "external"}
    BY DEF IInv, Typed, SettingsTyped
  <2>2. /\ pc[t] = "assign" /\ pc' = [pc EXCEPT ![t] = "switch"]
        /\ mode' = applied[t].mode
        /\ UNCHANGED <<changes, connVars, requestVars, open, requests, utt, fresh>>
    BY <1>8, Zenon DEF Assign
  <2> QED BY <2>1, <2>2 DEF IInv, Typed, PlacesTyped, ConnTyped, Alone
<1>9. ASSUME NEW t \in Threads, UseInternal(t) PROVE Alone'
  BY <1>9 DEF UseInternal, ClearRequest, IInv, Typed, PlacesTyped, ConnTyped, MainHas, Opening,
       Alone, Submission, NoUtt, NoSocket
<1>10. ASSUME NEW t \in Threads, UseExternal(t) PROVE Alone'
  BY <1>10 DEF UseExternal, ClearRequest, IInv, Typed, PlacesTyped, ConnTyped, MainHas,
       Opening, Alone, Submission, NoUtt, NoSocket
<1>11. ASSUME NEW t \in Threads, Configure(t) PROVE Alone'
  BY <1>11 DEF Configure, IInv, Typed, PlacesTyped, ConnTyped, MainHas, Opening, Alone,
       Submission, NoUtt, NoSocket
<1>12. CASE Post
  BY <1>12 DEF Post, IInv, Typed, PlacesTyped, ConnTyped, MainHas, Opening, Alone, Submission,
       NoUtt, NoSocket
<1>13. CASE Take
  BY <1>13 DEF Take, IInv, Typed, PlacesTyped, ConnTyped, MainHas, Opening, Alone, Submission,
       NoUtt, NoSocket
<1>14. CASE Skip
  BY <1>14 DEF Skip, IInv, Typed, PlacesTyped, ConnTyped, MainHas, Opening, Alone, Submission,
       NoUtt, NoSocket
<1>15. CASE Proceed
  BY <1>15 DEF Proceed, ClearRequest, IInv, Typed, PlacesTyped, ConnTyped, MainHas, Opening,
       Alone, Submission, NoUtt, NoSocket
<1>16. CASE RecordAge
  BY <1>16 DEF RecordAge, IInv, Typed, PlacesTyped, ConnTyped, MainHas, Opening, Alone,
       Submission, NoUtt, NoSocket
<1>17. CASE RecordStart
  BY <1>17 DEF RecordStart, IInv, Typed, PlacesTyped, ConnTyped, MainHas, Opening, Alone,
       Submission, NoUtt, NoSocket
<1>18. CASE RecordFlag
  BY <1>18 DEF RecordFlag, IInv, Typed, PlacesTyped, ConnTyped, MainHas, Opening, Alone,
       Submission, NoUtt, NoSocket
<1>19. CASE Transcribe
  BY <1>19 DEF Transcribe, IInv, Typed, PlacesTyped, ConnTyped, MainHas, Opening, Alone,
       Submission, NoUtt, NoSocket
<1>20. CASE Send
  BY <1>20 DEF Send, EventsSent, IInv, Typed, PlacesTyped, ConnTyped, MainHas, Opening, Alone,
       Submission, NoUtt, NoSocket
<1>21. CASE Failed
  BY <1>21 DEF Failed, ClearRequest, IInv, Typed, PlacesTyped, ConnTyped, MainHas, Opening,
       Alone, Submission, NoUtt, NoSocket
<1>22. CASE PollReady
  BY <1>22 DEF PollReady, IInv, Typed, PlacesTyped, ConnTyped, MainHas, Opening, Alone,
       Submission, NoUtt, NoSocket
<1>23. CASE PollNothing
  BY <1>23 DEF PollNothing, IInv, Typed, PlacesTyped, ConnTyped, MainHas, Opening, Alone,
       Submission, NoUtt, NoSocket
<1>24. CASE PollTranscript
  BY <1>24 DEF PollTranscript, Answered, ClearRequest, IInv, Typed, PlacesTyped, ConnTyped,
       MainHas, Opening, Alone, Submission, NoUtt, NoSocket
<1>25. CASE PollNoText
  BY <1>25 DEF PollNoText, Answered, IInv, Typed, PlacesTyped, ConnTyped, MainHas, Opening,
       Alone, Submission, NoUtt, NoSocket
<1>26. CASE PollAudioStop
  BY <1>26 DEF PollAudioStop, IInv, Typed, PlacesTyped, ConnTyped, MainHas, Opening, Alone,
       Submission, NoUtt, NoSocket
<1>27. CASE PollError
  BY <1>27 DEF PollError, Answered, SetError, ClearRequest, IInv, Typed, PlacesTyped,
       ConnTyped, MainHas, Opening, Alone, Submission, NoUtt, NoSocket
<1>28. CASE PollInfo
  BY <1>28 DEF PollInfo, SetState, IInv, Typed, PlacesTyped, ConnTyped, MainHas, Opening,
       Alone, Submission, NoUtt, NoSocket
<1>29. CASE PollLost
  BY <1>29 DEF PollLost, SetState, SetError, ClearRequest, IInv, Typed, PlacesTyped, ConnTyped,
       MainHas, Opening, Alone, Submission, NoUtt, NoSocket
<1>30. CASE PollDrop
  BY <1>30 DEF PollDrop, IInv, Typed, PlacesTyped, ConnTyped, MainHas, Opening, Alone,
       Submission, NoUtt, NoSocket
<1>31. CASE Tick
  BY <1>31 DEF Tick, IInv, Typed, PlacesTyped, ConnTyped, MainHas, Opening, Alone, Submission,
       NoUtt, NoSocket
<1>32. CASE UNCHANGED vars
  BY <1>32 DEF IInv, Typed, PlacesTyped, ConnTyped, MainHas, Opening, Alone, Submission, NoUtt,
       NoSocket
<1> QED BY <1>1, <1>2, <1>3, <1>4, <1>5, <1>6, <1>7, <1>8, <1>9, <1>10, <1>11, <1>12, <1>13,
          <1>14, <1>15, <1>16, <1>17, <1>18, <1>19, <1>20, <1>21, <1>22, <1>23, <1>24, <1>25,
          <1>26, <1>27, <1>28, <1>29, <1>30, <1>31, <1>32 DEF Next, Connect, Disconnect,
          Resolve, Submit, Poll

\* Every step keeps what is awaited.
LEMMA StepAwaited ==
  ASSUME IInv, Alone, Awaited, [Next]_vars
  PROVE  Awaited'
<1> USE DEF vars, settingVars, connVars, requestVars, queueVars, netVars, mainVars, Threads, Go
<1>1. ASSUME NEW t \in Threads, ConnectCheck(t) PROVE Awaited'
  <2>1. /\ \/ pc' = [pc EXCEPT ![t] = Resume(t, FALSE)] /\ UNCHANGED <<state, shown, requestVars>>
           \/ /\ pc' = [pc EXCEPT ![t] = Resume(t, FALSE)] /\ state' = "error"
              /\ state \notin {"connected", "connecting"}
           \/ /\ pc' = [pc EXCEPT ![t] = "socket"] /\ UNCHANGED <<state, shown, requestVars>>
              /\ state \notin {"connected", "connecting"}
        /\ pc[t] = "connect"
        /\ UNCHANGED <<fd, awaiting, open, requests, mode, host, changes, utt, fresh>>
    BY <1>1, Zenon DEF ConnectCheck, SetError
  <2>2. /\ Resume(t, FALSE) \in {"rest", "submit", "failed"}
        /\ t = "main" => (Resume(t, FALSE) = "rest" => utt = NoUtt)
                         /\ (Resume(t, FALSE) # "failed" => utt = NoUtt \/ ~fresh)
    BY DEF Resume, Submitting
  <2>3. changes = 0 => t = "main"
    BY <2>1 DEF Alone
  <2>4. CASE changes # 0
    BY <2>1, <2>4 DEF Awaited
  <2>5. CASE t = "main" /\ state' = "error"
    BY <2>1, <2>2, <2>5 DEF IInv, Typed, PlacesTyped, MainHas, Awaited
  <2>6. CASE t = "main" /\ UNCHANGED <<state, shown, requestVars>>
    BY <2>1, <2>2, <2>6 DEF IInv, Typed, PlacesTyped, MainHas, Alone, Awaited
  <2> QED BY <2>1, <2>3, <2>4, <2>5, <2>6
<1>2. ASSUME NEW t \in Threads, ConnectSocket(t) PROVE Awaited'
  BY <1>2 DEF ConnectSocket, SetError, SetState, ClearRequest, Resume, Submitting, IInv, Typed,
       PlacesTyped, MainHas, Alone, Awaited, Submission, NoUtt, NoSocket
<1>3. ASSUME NEW t \in Threads, ConnectOpen(t) PROVE Awaited'
  BY <1>3 DEF ConnectOpen, SetError, SetState, ClearRequest, Resume, Submitting, IInv, Typed,
       PlacesTyped, MainHas, Alone, Awaited, Submission, NoUtt, NoSocket
<1>4. ASSUME NEW t \in Threads, Ensure(t) PROVE Awaited'
  BY <1>4 DEF Ensure, Resume, Submitting, IInv, Typed, PlacesTyped, MainHas, Alone, Awaited,
       Submission, NoUtt, NoSocket
<1>5. ASSUME NEW t \in Threads, DisconnectSocket(t) PROVE Awaited'
  BY <1>5 DEF DisconnectSocket, IInv, Typed, PlacesTyped, MainHas, Alone, Awaited, Submission,
       NoUtt, NoSocket
<1>6. ASSUME NEW t \in Threads, DisconnectState(t) PROVE Awaited'
  BY <1>6 DEF DisconnectState, SetState, Submitting, IInv, Typed, PlacesTyped, MainHas, Alone,
       Awaited, Submission, NoUtt, NoSocket
<1>7. ASSUME NEW t \in Threads, NEW s \in Settings, Apply(t, s) PROVE Awaited'
  <2>1. \/ /\ t = "main" /\ pc["main"] = "boot" /\ UNCHANGED changes
           /\ pc' = [pc EXCEPT ![t] = "assign"]
        \/ changes' = changes + 1
    BY <1>7, Zenon DEF Apply
  <2>2. changes \in 0 .. MaxChanges
    BY DEF IInv, Typed, SettingsTyped
  <2>3. changes + 1 # 0
    BY <2>2, NumbersAre
  <2>4. changes' = 0 => t = "main" /\ pc["main"] = "boot" /\ changes = 0
                        /\ pc' = [pc EXCEPT ![t] = "assign"]
    BY <2>1, <2>3
  <2>5. /\ UNCHANGED <<connVars, requestVars, open, requests, utt, fresh>>
        /\ mode' = "internal" /\ host' = ""
    BY <1>7, Zenon DEF Apply
  <2> QED BY <2>4, <2>5 DEF IInv, Typed, PlacesTyped, MainHas, Alone, Awaited
<1>8. ASSUME NEW t \in Threads, Assign(t) PROVE Awaited'
  <2>1. applied[t].mode \in {"internal", "external"}
    BY DEF IInv, Typed, SettingsTyped
  <2>2. /\ pc[t] = "assign" /\ pc' = [pc EXCEPT ![t] = "switch"]
        /\ mode' = applied[t].mode
        /\ UNCHANGED <<changes, connVars, requestVars, open, requests, utt, fresh>>
    BY <1>8, Zenon DEF Assign
  <2> QED BY <2>1, <2>2 DEF IInv, Typed, PlacesTyped, MainHas, Alone, Awaited
<1>9. ASSUME NEW t \in Threads, UseInternal(t) PROVE Awaited'
  BY <1>9 DEF UseInternal, ClearRequest, IInv, Typed, PlacesTyped, MainHas, Alone, Awaited,
       Submission, NoUtt, NoSocket
<1>10. ASSUME NEW t \in Threads, UseExternal(t) PROVE Awaited'
  BY <1>10 DEF UseExternal, ClearRequest, IInv, Typed, PlacesTyped, MainHas, Alone, Awaited,
       Submission, NoUtt, NoSocket
<1>11. ASSUME NEW t \in Threads, Configure(t) PROVE Awaited'
  BY <1>11 DEF Configure, IInv, Typed, PlacesTyped, MainHas, Alone, Awaited, Submission, NoUtt,
       NoSocket
<1>12. CASE Post
  BY <1>12 DEF Post, IInv, Typed, PlacesTyped, MainHas, Alone, Awaited, Submission, NoUtt,
       NoSocket
<1>13. CASE Take
  <2>1. queue \in Seq(Utterances) /\ queue # << >>
    BY <1>13, Zenon DEF Take, IInv, Typed, QueuesTyped
  <2>2. Head(queue) \in Utterances
    BY <2>1
  <2>3. Head(queue) # NoUtt
    BY <2>2, NumbersAre DEF Utterances, NoUtt
  <2>4. /\ pc["main"] = "rest"
        /\ UNCHANGED <<fresh, connVars, requestVars, requests, changes>>
        /\ \/ pc' = [pc EXCEPT !["main"] = "gate"] /\ utt' = Head(queue)
           \/ pc' = [pc EXCEPT !["main"] = "rest"] /\ UNCHANGED utt
    BY <1>13, Zenon DEF Take
  <2> QED BY <2>3, <2>4 DEF IInv, Typed, PlacesTyped, MainHas, Awaited
<1>14. CASE Skip
  BY <1>14 DEF Skip, IInv, Typed, PlacesTyped, MainHas, Alone, Awaited, Submission, NoUtt,
       NoSocket
<1>15. CASE Proceed
  BY <1>15 DEF Proceed, ClearRequest, IInv, Typed, PlacesTyped, MainHas, Alone, Awaited,
       Submission, NoUtt, NoSocket
<1>16. CASE RecordAge
  BY <1>16 DEF RecordAge, IInv, Typed, PlacesTyped, MainHas, Alone, Awaited, Submission, NoUtt,
       NoSocket
<1>17. CASE RecordStart
  BY <1>17 DEF RecordStart, IInv, Typed, PlacesTyped, MainHas, Alone, Awaited, Submission,
       NoUtt, NoSocket
<1>18. CASE RecordFlag
  BY <1>18 DEF RecordFlag, IInv, Typed, PlacesTyped, MainHas, Alone, Awaited, Submission,
       NoUtt, NoSocket
<1>19. CASE Transcribe
  BY <1>19 DEF Transcribe, IInv, Typed, PlacesTyped, MainHas, Alone, Awaited, Submission,
       NoUtt, NoSocket
<1>20. CASE Send
  <2>1. /\ pc["main"] = "send" /\ UNCHANGED <<state, fd, requestVars, changes>>
        /\ \/ /\ pc' = [pc EXCEPT !["main"] = "rest"] /\ utt' = NoUtt /\ ~fresh'
              /\ fd # NoSocket /\ requests' = [requests EXCEPT ![fd] = Append(requests[fd], utt)]
           \/ /\ pc' = [pc EXCEPT !["main"] = "failed"]
              /\ UNCHANGED <<awaiting, utt, fresh>>
    BY <1>20 DEF Send, EventsSent
  <2>2. fresh
    BY <2>1 DEF IInv, MainHas, Typed, PlacesTyped, Submission
  <2>3. CASE fd # NoSocket /\ requests' = [requests EXCEPT ![fd] = Append(requests[fd], utt)]
    <3>1. fd \in SocketIds
      BY <2>3, NumbersAre DEF IInv, Typed, ConnTyped, SocketIds, NoSocket
    <3>2. requests[fd] = << >>
      BY <2>1, <2>2, <2>3 DEF IInv, Asked
    <3>3. requests \in [SocketIds -> Seq(Utterances)]
      BY DEF IInv, Typed, QueuesTyped
    <3>4. requests'[fd] = <<utt>>
      BY <2>3, <3>1, <3>2, <3>3
    <3> QED BY <2>1, <2>2, <3>4 DEF IInv, Typed, PlacesTyped, Awaited
  <2>4. CASE pc' = [pc EXCEPT !["main"] = "failed"] /\ UNCHANGED <<awaiting, utt, fresh>>
    BY <2>1, <2>2, <2>4 DEF IInv, Typed, PlacesTyped, Awaited
  <2> QED BY <2>1, <2>3, <2>4
<1>21. CASE Failed
  BY <1>21 DEF Failed, ClearRequest, IInv, Typed, PlacesTyped, MainHas, Alone, Awaited,
       Submission, NoUtt, NoSocket
<1>22. CASE PollReady
  BY <1>22 DEF PollReady, IInv, Typed, PlacesTyped, MainHas, Alone, Awaited, Submission, NoUtt,
       NoSocket
<1>23. CASE PollNothing
  BY <1>23 DEF PollNothing, IInv, Typed, PlacesTyped, MainHas, Alone, Awaited, Submission,
       NoUtt, NoSocket
<1>24. CASE PollTranscript
  BY <1>24 DEF PollTranscript, Answered, ClearRequest, IInv, Typed, PlacesTyped, MainHas,
       Alone, Awaited, Submission, NoUtt, NoSocket
<1>25. CASE PollNoText
  BY <1>25 DEF PollNoText, Answered, IInv, Typed, PlacesTyped, MainHas, Alone, Awaited,
       Submission, NoUtt, NoSocket
<1>26. CASE PollAudioStop
  BY <1>26 DEF PollAudioStop, IInv, Typed, PlacesTyped, MainHas, Alone, Awaited, Submission,
       NoUtt, NoSocket
<1>27. CASE PollError
  BY <1>27 DEF PollError, Answered, SetError, ClearRequest, IInv, Typed, PlacesTyped, MainHas,
       Alone, Awaited, Submission, NoUtt, NoSocket
<1>28. CASE PollInfo
  BY <1>28 DEF PollInfo, SetState, IInv, Typed, PlacesTyped, MainHas, Alone, Awaited,
       Submission, NoUtt, NoSocket
<1>29. CASE PollLost
  BY <1>29 DEF PollLost, SetState, SetError, ClearRequest, IInv, Typed, PlacesTyped, MainHas,
       Alone, Awaited, Submission, NoUtt, NoSocket
<1>30. CASE PollDrop
  BY <1>30 DEF PollDrop, IInv, Typed, PlacesTyped, MainHas, Alone, Awaited, Submission, NoUtt,
       NoSocket
<1>31. CASE Tick
  BY <1>31 DEF Tick, IInv, Typed, PlacesTyped, MainHas, Alone, Awaited, Submission, NoUtt,
       NoSocket
<1>32. CASE UNCHANGED vars
  BY <1>32 DEF IInv, Typed, PlacesTyped, MainHas, Alone, Awaited, Submission, NoUtt, NoSocket
<1> QED BY <1>1, <1>2, <1>3, <1>4, <1>5, <1>6, <1>7, <1>8, <1>9, <1>10, <1>11, <1>12, <1>13,
          <1>14, <1>15, <1>16, <1>17, <1>18, <1>19, <1>20, <1>21, <1>22, <1>23, <1>24, <1>25,
          <1>26, <1>27, <1>28, <1>29, <1>30, <1>31, <1>32 DEF Next, Connect, Disconnect,
          Resolve, Submit, Poll

LEMMA OneThreadHolds == Spec => [](IInv /\ Alone /\ Awaited)
<1>1. Init => Alone /\ Awaited
  <2> SUFFICES ASSUME Init PROVE Alone /\ Awaited
    OBVIOUS
  <2>1. /\ pc["main"] = "boot" /\ pc["http"] = "rest" /\ mode = "internal"
        /\ state = "disconnected" /\ shown = state /\ fd = NoSocket /\ ~awaiting /\ ~fresh
    BY DEF Init
  <2> QED BY <2>1 DEF Alone, Awaited
<1>2. IInv /\ Alone /\ Awaited /\ [Next]_vars => Alone' /\ Awaited'
  BY StepAlone, StepAwaited
<1> QED BY IInvHolds, <1>1, <1>2, PTL DEF Spec

\* The connection is not left in CONNECTING, and as long as no settings are applied its
\* state, its socket and the status agree whenever both threads are at rest, and what it
\* awaits is the answer to the request main.c has in flight.
THEOREM StatesMatchSockets == Spec => []StateMatchesSocket
<1>1. IInv /\ Alone /\ Awaited => StateMatchesSocket
  <2> SUFFICES ASSUME IInv, Alone, Awaited, AtRest PROVE StateMatchesSocket
    BY DEF StateMatchesSocket
  <2>1. pc["main"] = "rest" /\ pc["http"] = "rest"
    BY DEF AtRest, Threads
  <2>2. state # "connecting"
    BY <2>1 DEF IInv, Opening, Threads
  <2>3. OneThread /\ awaiting /\ fd # NoSocket => inflight /\ requests[fd] = <<start>>
    BY <2>1 DEF Awaited, OneThread
  <2> QED BY <2>1, <2>2, <2>3 DEF Alone, StateMatchesSocket, OneThread
<1> QED BY OneThreadHolds, <1>1, PTL
-----------------------------------------------------------------------------
(* Joining sequences. *)

\* Of numbers there is a least: induction over numbers that a set is closed under.
LEMMA Least ==
  ASSUME NEW S \in SUBSET Nat, S # {}
  PROVE  \E m \in S : \A k \in S : m <= k
<1> DEFINE R == OpToRel(<, Nat)
<1>1. IsWellFoundedOn(R, Nat)
  BY NatLessThanWellFounded, Zenon
<1>2. \A x, y \in Nat : <<y, x>> \in R <=> y < x
  BY Zenon DEF OpToRel
<1> HIDE DEF R
<1>3. PICK m \in S : \A k \in S : ~(<<k, m>> \in R)
  BY <1>1, WFMin
<1>4. m \in Nat /\ \A k \in S : k \in Nat
  OBVIOUS
<1>5. \A k \in S : ~(k < m)
  BY <1>2, <1>3, <1>4, Zenon
<1> QED BY <1>4, <1>5

LEMMA Induction ==
  ASSUME NEW n \in Nat, NEW Z, 1 \in Z, \A m \in 1 .. n - 1 : m \in Z => m + 1 \in Z
  PROVE  1 .. n \subseteq Z
<1> DEFINE U == {m \in 1 .. n : m \notin Z}
<1> SUFFICES ASSUME U # {} PROVE FALSE
  OBVIOUS
<1>0. U \in SUBSET Nat
  OBVIOUS
<1>1. PICK u \in U : \A v \in U : u <= v
  <2> HIDE DEF U
  <2> QED BY <1>0, Least
<1>2. u # 1 /\ u \in 1 .. n /\ u \notin Z
  OBVIOUS
<1>3. u - 1 \in 1 .. n - 1 /\ u - 1 \notin U
  BY <1>1, <1>2
<1>4. u - 1 \in Z
  BY <1>3
<1> QED BY <1>2, <1>3, <1>4

\* The first m of seqs joined, for each m.
Joins(g, seqs, m) ==
  g = [i \in 1 .. m |-> IF i = 1 THEN seqs[i] ELSE g[i-1] \o seqs[i]]

\* There is such a function: FlattenSeq is its last value.
LEMMA FlattenIs ==
  ASSUME NEW seqs, NEW n \in Nat, Len(seqs) = n, n > 0
  PROVE  \E g : Joins(g, seqs, n) /\ FlattenSeq(seqs) = g[n]
<1> DEFINE Z == {m \in 1 .. n : \E g : Joins(g, seqs, m)}
<1>1. 1 \in Z
  <2> DEFINE g == [i \in 1 .. 1 |-> seqs[i]]
  <2>1. g = [i \in 1 .. 1 |-> IF i = 1 THEN seqs[i] ELSE g[i-1] \o seqs[i]]
    OBVIOUS
  <2> HIDE DEF g
  <2>2. Joins(g, seqs, 1)
    BY <2>1 DEF Joins
  <2> QED BY <2>2
<1>2. ASSUME NEW m \in 1 .. n - 1, m \in Z PROVE m + 1 \in Z
  <2>1. PICK h : Joins(h, seqs, m)
    BY <1>2
  <2> DEFINE g == [i \in 1 .. m + 1 |-> IF i = m + 1 THEN h[m] \o seqs[m + 1] ELSE h[i]]
             f == [i \in 1 .. m + 1 |-> IF i = 1 THEN seqs[i] ELSE g[i-1] \o seqs[i]]
  <2>2. ASSUME NEW i \in 1 .. m + 1 PROVE g[i] = f[i]
    <3>1. CASE i = m + 1
      <4>1. i # 1 /\ m \in 1 .. m + 1 /\ m # m + 1 /\ i - 1 = m
        BY <3>1
      <4> QED BY <3>1, <4>1
    <3>2. CASE i # m + 1
      <4>1. i \in 1 .. m /\ (i # 1 => i - 1 \in 1 .. m + 1 /\ i - 1 # m + 1)
        BY <3>2
      <4>2. h[i] = IF i = 1 THEN seqs[i] ELSE h[i-1] \o seqs[i]
        BY <2>1, <4>1 DEF Joins
      <4> QED BY <3>2, <4>1, <4>2
    <3> QED BY <3>1, <3>2
  <2>3. g = f
    BY <2>2
  <2>4. g = [i \in 1 .. m + 1 |-> IF i = 1 THEN seqs[i] ELSE g[i-1] \o seqs[i]]
    BY <2>3
  <2> HIDE DEF g
  <2>5. Joins(g, seqs, m + 1)
    BY <2>4 DEF Joins
  <2> QED BY <2>5
<1>3. n \in Z
  <2> HIDE DEF Z
  <2>1. \A m \in 1 .. n - 1 : m \in Z => m + 1 \in Z
    BY <1>2
  <2>2. 1 .. n \subseteq Z
    BY <1>1, <2>1, Induction
  <2> QED BY <2>2
<1> DEFINE flatten == CHOOSE g : g = [i \in 1 .. Len(seqs) |-> IF i = 1 THEN seqs[i] ELSE g[i-1] \o seqs[i]]
<1>4. \E g : g = [i \in 1 .. Len(seqs) |-> IF i = 1 THEN seqs[i] ELSE g[i-1] \o seqs[i]]
  BY <1>3 DEF Joins
<1>5. flatten = [i \in 1 .. Len(seqs) |-> IF i = 1 THEN seqs[i] ELSE flatten[i-1] \o seqs[i]]
  BY <1>4
<1>6. FlattenSeq(seqs) = flatten[Len(seqs)]
  BY DEF FlattenSeq
<1> HIDE DEF flatten
<1>7. Joins(flatten, seqs, n)
  BY <1>5 DEF Joins
<1> QED BY <1>6, <1>7

\* Where each of n parts of an input ends.
Ends(ends, n) ==
  ends \in [0 .. n -> Nat] /\ ends[0] = 0 /\ \A i \in 1 .. n : ends[i-1] <= ends[i]

LEMMA EndsGrow ==
  ASSUME NEW n \in Nat, NEW ends, Ends(ends, n),
         NEW i \in 0 .. n, NEW j \in 0 .. n, i <= j
  PROVE  ends[i] <= ends[j]
<1> DEFINE U == {x \in i .. n : ends[x] < ends[i]}
<1> SUFFICES ASSUME U # {} PROVE FALSE
  <2> ends[i] \in Nat /\ ends[j] \in Nat /\ j \in i .. n
    BY DEF Ends
  <2> QED OBVIOUS
<1>1. U \in SUBSET Nat
  OBVIOUS
<1>2. PICK u \in U : \A v \in U : u <= v
  <2> HIDE DEF U
  <2> QED BY <1>1, Least
<1>3. u \in i .. n /\ ends[u] < ends[i] /\ u # i /\ ends[i] \in Nat
  BY DEF Ends
<1>4. u - 1 \in i .. n /\ u - 1 \notin U /\ u \in 1 .. n
  BY <1>2, <1>3
<1>5. ends[u-1] <= ends[u] /\ ends[u-1] \in Nat /\ ends[u] \in Nat
  BY <1>4 DEF Ends
<1> QED BY <1>3, <1>4, <1>5

\* Every position is in one of the parts.
LEMMA InSomePart ==
  ASSUME NEW n \in Nat, NEW ends, Ends(ends, n), NEW p \in 1 .. ends[n]
  PROVE  \E i \in 1 .. n : ends[i-1] < p /\ p <= ends[i]
<1> DEFINE U == {x \in 0 .. n : p <= ends[x]}
<1>0. U \in SUBSET Nat /\ n \in U
  <2> ends[n] \in Nat
    BY DEF Ends
  <2> QED OBVIOUS
<1>1. PICK u \in U : \A v \in U : u <= v
  <2> HIDE DEF U
  <2> QED BY <1>0, Least
<1>2. u \in 1 .. n
  BY DEF Ends
<1>3. u - 1 \in 0 .. n /\ u - 1 \notin U
  BY <1>1, <1>2
<1>4. ends[u-1] \in Nat /\ p \in Nat
  BY <1>3 DEF Ends
<1> QED BY <1>2, <1>3, <1>4

\* ... and in no more than one.
LEMMA InOnePart ==
  ASSUME NEW n \in Nat, NEW ends, Ends(ends, n), NEW p \in Nat,
         NEW i \in 1 .. n, ends[i-1] < p, p <= ends[i],
         NEW j \in 1 .. n, ends[j-1] < p, p <= ends[j]
  PROVE  i = j
<1>1. ASSUME NEW x \in 1 .. n, NEW y \in 1 .. n, ends[y-1] < p, p <= ends[x] PROVE ~ (x < y)
  <2> SUFFICES ASSUME x < y PROVE FALSE
    OBVIOUS
  <2>1. x \in 0 .. n /\ y - 1 \in 0 .. n /\ x <= y - 1
    OBVIOUS
  <2>2. ends[x] <= ends[y-1]
    BY <2>1, EndsGrow
  <2>3. ends[x] \in Nat /\ ends[y-1] \in Nat
    BY <2>1 DEF Ends
  <2> QED BY <1>1, <2>2, <2>3
<1>2. ~ (i < j) /\ ~ (j < i)
  BY <1>1
<1> QED BY <1>2

\* A joined sequence f: the i-th of seqs lies behind ends[i-1].
Joined(f, ends, seqs, n) ==
  /\ Ends(ends, n)
  /\ \A i \in 1 .. n : ends[i] = ends[i-1] + Len(seqs[i])
  /\ Len(f) = ends[n]
  /\ \A i \in 1 .. n : \A k \in 1 .. Len(seqs[i]) : f[ends[i-1] + k] = seqs[i][k]

LEMMA JoinedByFlatten ==
  ASSUME NEW S, NEW n \in Nat, NEW seqs \in Seq(Seq(S)), Len(seqs) = n
  PROVE  /\ FlattenSeq(seqs) \in Seq(S)
         /\ \E ends : Joined(FlattenSeq(seqs), ends, seqs, n)
<1>0. \A i \in 1 .. n : seqs[i] \in Seq(S) /\ Len(seqs[i]) \in Nat
  OBVIOUS
<1>1. CASE n = 0
  <2>1. seqs = << >> /\ FlattenSeq(seqs) = seqs
    BY <1>1 DEF FlattenSeq
  <2> DEFINE ends == [i \in 0 .. n |-> 0]
  <2>2. Joined(<< >>, ends, seqs, n)
    BY <1>1 DEF Joined, Ends
  <2> QED BY <2>1, <2>2
<1>2. CASE n > 0
  <2>1. PICK g : Joins(g, seqs, n) /\ FlattenSeq(seqs) = g[n]
    BY <1>2, FlattenIs
  <2>2. g[1] = seqs[1]
    BY <1>2, <2>1 DEF Joins
  <2>3. ASSUME NEW m \in 1 .. n - 1 PROVE g[m+1] = g[m] \o seqs[m+1]
    <3>1. m + 1 \in 1 .. n /\ m + 1 # 1 /\ (m + 1) - 1 = m
      OBVIOUS
    <3> QED BY <2>1, <3>1 DEF Joins
  <2> DEFINE Y == {m \in 1 .. n : g[m] \in Seq(S)}
  <2>4. \A m \in 1 .. n : g[m] \in Seq(S)
    <3>1. 1 \in Y
      BY <1>0, <1>2, <2>2
    <3>2. \A m \in 1 .. n - 1 : m \in Y => m + 1 \in Y
      <4> SUFFICES ASSUME NEW m \in 1 .. n - 1, m \in Y PROVE m + 1 \in Y
        OBVIOUS
      <4>1. m + 1 \in 1 .. n /\ seqs[m+1] \in Seq(S)
        BY <1>0
      <4>2. g[m] \in Seq(S)
        OBVIOUS
      <4>3. g[m] \o seqs[m+1] \in Seq(S)
        BY <4>1, <4>2, ConcatProperties
      <4> QED BY <2>3, <4>1, <4>3
    <3>3. 1 .. n \subseteq Y
      <4> HIDE DEF Y
      <4> QED BY <3>1, <3>2, Induction
    <3> QED BY <3>3
  <2> DEFINE ends == [i \in 0 .. n |-> IF i = 0 THEN 0 ELSE Len(g[i])]
  <2>5. ends \in [0 .. n -> Nat] /\ ends[0] = 0 /\ \A i \in 1 .. n : ends[i] = Len(g[i])
    BY <2>4
  <2> HIDE DEF ends
  <2>6. ASSUME NEW i \in 1 .. n PROVE ends[i] = ends[i-1] + Len(seqs[i])
    <3>1. CASE i = 1
      BY <1>0, <2>2, <2>5, <3>1
    <3>2. CASE i # 1
      <4>1. i - 1 \in 1 .. n - 1 /\ i - 1 \in 1 .. n /\ (i - 1) + 1 = i
        BY <3>2
      <4>2. g[i] = g[i-1] \o seqs[i]
        BY <2>3, <4>1
      <4>3. Len(g[i]) = Len(g[i-1]) + Len(seqs[i])
        BY <1>0, <2>4, <4>1, <4>2, ConcatProperties
      <4> QED BY <2>5, <4>1, <4>3
    <3> QED BY <3>1, <3>2
  <2>7. Ends(ends, n)
    <3>1. \A i \in 1 .. n : i - 1 \in 0 .. n
      OBVIOUS
    <3> QED BY <1>0, <2>5, <2>6, <3>1 DEF Ends
  <2> DEFINE Z == {m \in 1 .. n : \A i \in 1 .. m : \A k \in 1 .. Len(seqs[i]) :
                                    g[m][ends[i-1] + k] = seqs[i][k]}
  <2>8. 1 \in Z
    BY <1>0, <1>2, <2>2, <2>5
  <2>9. ASSUME NEW m \in 1 .. n - 1, m \in Z PROVE m + 1 \in Z
    <3> SUFFICES ASSUME NEW i \in 1 .. m + 1, NEW k \in 1 .. Len(seqs[i])
                 PROVE  g[m+1][ends[i-1] + k] = seqs[i][k]
      OBVIOUS
    <3>1. i \in 1 .. n /\ i - 1 \in 0 .. n /\ m \in 0 .. n /\ m \in 1 .. n /\ m + 1 \in 1 .. n
      OBVIOUS
    <3>2. ends[i-1] \in Nat /\ k \in Nat /\ k >= 1 /\ k <= Len(seqs[i]) /\ Len(seqs[i]) \in Nat
      BY <1>0, <2>5, <3>1
    <3>3. \A x \in 1 .. Len(g[m]) + Len(seqs[m+1]) :
            g[m+1][x] = IF x <= Len(g[m]) THEN g[m][x] ELSE seqs[m+1][x - Len(g[m])]
      <4>1. g[m] \in Seq(S) /\ seqs[m+1] \in Seq(S)
        BY <1>0, <2>4, <3>1
      <4>2. \A x \in 1 .. Len(g[m]) + Len(seqs[m+1]) :
              (g[m] \o seqs[m+1])[x] = IF x <= Len(g[m]) THEN g[m][x] ELSE seqs[m+1][x - Len(g[m])]
        BY <4>1, ConcatProperties
      <4> QED BY <2>3, <4>2
    <3>4. Len(g[m]) = ends[m] /\ Len(seqs[m+1]) \in Nat /\ ends[m] \in Nat
      BY <1>0, <2>5, <3>1
    <3>5. CASE i = m + 1
      <4>1. i - 1 = m
        BY <3>5
      <4>2. ends[m] + k \in 1 .. Len(g[m]) + Len(seqs[m+1]) /\ ~ (ends[m] + k <= Len(g[m]))
        BY <3>2, <3>4, <3>5
      <4>3. g[m+1][ends[m] + k] = seqs[m+1][(ends[m] + k) - Len(g[m])]
        BY <3>3, <4>2
      <4>4. (ends[m] + k) - Len(g[m]) = k
        BY <3>2, <3>4
      <4> QED BY <3>5, <4>1, <4>3, <4>4
    <3>6. CASE i # m + 1
      <4>1. i \in 1 .. m /\ i \in 0 .. n /\ i <= m
        BY <3>6
      <4>2. ends[i] <= ends[m] /\ ends[i] \in Nat
        BY <2>5, <2>7, <3>1, <4>1, EndsGrow
      <4>3. ends[i-1] + k <= ends[i]
        BY <2>6, <3>1, <3>2
      <4>4. ends[i-1] + k \in 1 .. Len(g[m]) + Len(seqs[m+1]) /\ ends[i-1] + k <= Len(g[m])
        <5>1. ends[i-1] + k >= 1 /\ ends[i-1] + k \in Nat
          BY <3>2
        <5>2. ends[i-1] + k <= ends[m]
          BY <3>4, <4>2, <4>3, <5>1
        <5> QED BY <3>4, <5>1, <5>2
      <4>5. g[m+1][ends[i-1] + k] = g[m][ends[i-1] + k]
        BY <3>3, <4>4
      <4>6. g[m][ends[i-1] + k] = seqs[i][k]
        BY <2>9, <4>1
      <4> QED BY <4>5, <4>6
    <3> QED BY <3>5, <3>6
  <2>10. 1 .. n \subseteq Z
    <3> HIDE DEF Z
    <3>1. \A m \in 1 .. n - 1 : m \in Z => m + 1 \in Z
      BY <2>9
    <3> QED BY <2>8, <3>1, Induction
  <2>11. n \in Z
    BY <1>2, <2>10
  <2>12. Len(g[n]) = ends[n] /\ g[n] \in Seq(S)
    BY <1>2, <2>4, <2>5
  <2>13. Joined(g[n], ends, seqs, n)
    BY <2>6, <2>7, <2>11, <2>12 DEF Joined
  <2> QED BY <2>1, <2>12, <2>13
<1> QED BY <1>1, <1>2

-----------------------------------------------------------------------------
(* What the input is like. *)

Bytes == [msg : Nat, part : {"header", "newline", "data", "payload"}, k : Nat]

DataOf(i) == IF sent[i].data THEN DataSize ELSE 0

\* The bytes of a message ahead of its payload, and all of them.
Ahead(i) == HeaderSize + 1 + DataOf(i)

Size(i) == Ahead(i) + sent[i].payload

LEMMA SizesAre ==
  ASSUME sent \in Streams
  PROVE  /\ Len(sent) \in Nat
         /\ HeaderSize \in Nat /\ HeaderSize > 1 /\ DataSize \in Nat /\ DataSize > 1
         /\ \A i \in 1 .. Len(sent) :
              /\ sent[i] \in Messages /\ sent[i].data \in BOOLEAN
              /\ sent[i].payload \in Nat /\ DataOf(i) \in Nat
              /\ Ahead(i) \in Nat /\ Size(i) \in Nat /\ Ahead(i) = HeaderSize + 1 + DataOf(i)
              /\ Size(i) = Ahead(i) + sent[i].payload
              /\ sent[i].data => DataOf(i) = DataSize
              /\ ~sent[i].data => DataOf(i) = 0
<1>1. sent \in Seq(Messages) /\ HeaderSize \in Nat /\ HeaderSize > 1 /\ DataSize \in Nat /\ DataSize > 1
  BY ParserAssumption
<1>2. ASSUME NEW i \in 1 .. Len(sent)
      PROVE  sent[i] \in Messages /\ sent[i].data \in BOOLEAN /\ sent[i].payload \in Nat
  <2>1. sent[i] \in Messages
    BY <1>1, ElementOfSeq
  <2> QED BY <2>1 DEF Messages
<1> QED BY <1>1, <1>2 DEF DataOf, Ahead, Size

LEMMA PartIs ==
  ASSUME NEW i \in Nat, NEW part \in {"header", "newline", "data", "payload"}, NEW size \in Nat
  PROVE  /\ Part(i, part, size) \in Seq(Bytes) /\ Len(Part(i, part, size)) = size
         /\ \A k \in 1 .. size : Part(i, part, size)[k] = [msg |-> i, part |-> part, k |-> k]
<1>1. \A k \in 1 .. size : [msg |-> i, part |-> part, k |-> k] \in Bytes
  BY DEF Bytes
<1> QED BY <1>1 DEF Part

\* Four sequences joined, and the x-th element of that.
FourJoined(h, n, d, p) == ((h \o n) \o d) \o p

ElementOf(h, n, d, p, x) ==
  IF x <= Len(h) THEN h[x]
  ELSE IF x <= Len(h) + Len(n) THEN n[x - Len(h)]
  ELSE IF x <= Len(h) + Len(n) + Len(d) THEN d[x - (Len(h) + Len(n))]
  ELSE p[x - (Len(h) + Len(n) + Len(d))]

LEMMA FourJoinedIs ==
  ASSUME NEW S, NEW h \in Seq(S), NEW n \in Seq(S), NEW d \in Seq(S), NEW p \in Seq(S)
  PROVE  /\ FourJoined(h, n, d, p) \in Seq(S)
         /\ Len(FourJoined(h, n, d, p)) = Len(h) + Len(n) + Len(d) + Len(p)
         /\ \A x \in 1 .. Len(FourJoined(h, n, d, p)) :
              FourJoined(h, n, d, p)[x] = ElementOf(h, n, d, p, x)
<1>1. /\ h \o n \in Seq(S) /\ Len(h \o n) = Len(h) + Len(n)
      /\ \A x \in 1 .. Len(h \o n) : (h \o n)[x] = IF x <= Len(h) THEN h[x] ELSE n[x - Len(h)]
  OBVIOUS
<1>2. /\ (h \o n) \o d \in Seq(S) /\ Len((h \o n) \o d) = Len(h) + Len(n) + Len(d)
      /\ \A x \in 1 .. Len((h \o n) \o d) :
           ((h \o n) \o d)[x] =
             IF x <= Len(h) + Len(n) THEN (h \o n)[x] ELSE d[x - (Len(h) + Len(n))]
  BY <1>1
<1>3. /\ ((h \o n) \o d) \o p \in Seq(S)
      /\ Len(((h \o n) \o d) \o p) = Len(h) + Len(n) + Len(d) + Len(p)
      /\ \A x \in 1 .. Len(((h \o n) \o d) \o p) :
           (((h \o n) \o d) \o p)[x] =
             IF x <= Len(h) + Len(n) + Len(d) THEN ((h \o n) \o d)[x]
             ELSE p[x - (Len(h) + Len(n) + Len(d))]
  BY <1>2
<1> QED BY <1>1, <1>2, <1>3 DEF FourJoined, ElementOf

\* The x-th byte of message i.
ByteOf(i, x) ==
  IF x <= HeaderSize THEN [msg |-> i, part |-> "header", k |-> x]
  ELSE IF x <= HeaderSize + 1 THEN [msg |-> i, part |-> "newline", k |-> x - HeaderSize]
  ELSE IF x <= Ahead(i) THEN [msg |-> i, part |-> "data", k |-> x - (HeaderSize + 1)]
  ELSE [msg |-> i, part |-> "payload", k |-> x - Ahead(i)]

LEMMA BytesOfIs ==
  ASSUME sent \in Streams, NEW i \in 1 .. Len(sent)
  PROVE  /\ BytesOf(i) \in Seq(Bytes) /\ Len(BytesOf(i)) = Size(i)
         /\ \A x \in 1 .. Size(i) : BytesOf(i)[x] = ByteOf(i, x)
<1> DEFINE h == Part(i, "header", HeaderSize)
           n == Part(i, "newline", 1)
           d == Part(i, "data", DataOf(i))
           p == Part(i, "payload", sent[i].payload)
<1>1. /\ i \in Nat /\ HeaderSize \in Nat /\ DataOf(i) \in Nat /\ sent[i].payload \in Nat
      /\ Ahead(i) = HeaderSize + 1 + DataOf(i) /\ Size(i) = Ahead(i) + sent[i].payload
  BY SizesAre
<1>2. BytesOf(i) = FourJoined(h, n, d, p)
  BY DEF BytesOf, DataOf, FourJoined
<1>3. /\ h \in Seq(Bytes) /\ Len(h) = HeaderSize
      /\ \A k \in 1 .. HeaderSize : h[k] = [msg |-> i, part |-> "header", k |-> k]
  BY <1>1, PartIs
<1>4. n \in Seq(Bytes) /\ Len(n) = 1 /\ n[1] = [msg |-> i, part |-> "newline", k |-> 1]
  BY <1>1 DEF Part, Bytes
<1>5. /\ d \in Seq(Bytes) /\ Len(d) = DataOf(i)
      /\ \A k \in 1 .. DataOf(i) : d[k] = [msg |-> i, part |-> "data", k |-> k]
  BY <1>1, PartIs
<1>6. /\ p \in Seq(Bytes) /\ Len(p) = sent[i].payload
      /\ \A k \in 1 .. sent[i].payload : p[k] = [msg |-> i, part |-> "payload", k |-> k]
  BY <1>1, PartIs
<1> HIDE DEF h, n, d, p
<1>7. /\ FourJoined(h, n, d, p) \in Seq(Bytes) /\ Len(FourJoined(h, n, d, p)) = Size(i)
      /\ \A x \in 1 .. Size(i) : FourJoined(h, n, d, p)[x] = ElementOf(h, n, d, p, x)
  <2>1. /\ FourJoined(h, n, d, p) \in Seq(Bytes)
        /\ Len(FourJoined(h, n, d, p)) = Len(h) + Len(n) + Len(d) + Len(p)
        /\ \A x \in 1 .. Len(FourJoined(h, n, d, p)) :
             FourJoined(h, n, d, p)[x] = ElementOf(h, n, d, p, x)
    <3>1. h \in Seq(Bytes) /\ n \in Seq(Bytes) /\ d \in Seq(Bytes) /\ p \in Seq(Bytes)
      BY <1>3, <1>4, <1>5, <1>6
    <3> QED BY <3>1, FourJoinedIs
  <2>2. Len(h) + Len(n) + Len(d) + Len(p) = Size(i)
    BY <1>1, <1>3, <1>4, <1>5, <1>6
  <2> QED BY <2>1, <2>2
<1>8. ASSUME NEW x \in 1 .. Size(i) PROVE ElementOf(h, n, d, p, x) = ByteOf(i, x)
  <2>1. ElementOf(h, n, d, p, x) =
          IF x <= HeaderSize THEN h[x]
          ELSE IF x <= HeaderSize + 1 THEN n[x - HeaderSize]
          ELSE IF x <= Ahead(i) THEN d[x - (HeaderSize + 1)]
          ELSE p[x - Ahead(i)]
    BY <1>1, <1>3, <1>4, <1>5, <1>6 DEF ElementOf
  <2>2. CASE x <= HeaderSize
    <3>1. x \in 1 .. HeaderSize
      BY <1>1, <2>2
    <3> QED BY <1>3, <2>1, <2>2, <3>1 DEF ByteOf
  <2>3. CASE x = HeaderSize + 1
    <3>1. ~ (x <= HeaderSize) /\ x - HeaderSize = 1 /\ x <= HeaderSize + 1
      BY <1>1, <2>3
    <3> QED BY <1>4, <2>1, <3>1 DEF ByteOf
  <2>4. CASE HeaderSize + 1 < x /\ x <= Ahead(i)
    <3>1. ~ (x <= HeaderSize) /\ ~ (x <= HeaderSize + 1) /\ x - (HeaderSize + 1) \in 1 .. DataOf(i)
      BY <1>1, <2>4
    <3> QED BY <1>5, <2>1, <2>4, <3>1 DEF ByteOf
  <2>5. CASE Ahead(i) < x
    <3>1. ~ (x <= HeaderSize) /\ ~ (x <= HeaderSize + 1) /\ ~ (x <= Ahead(i))
          /\ x - Ahead(i) \in 1 .. sent[i].payload
      BY <1>1, <2>5
    <3> QED BY <1>6, <2>1, <3>1 DEF ByteOf
  <2>6. x <= HeaderSize \/ x = HeaderSize + 1 \/ (HeaderSize + 1 < x /\ x <= Ahead(i)) \/ Ahead(i) < x
    BY <1>1
  <2> QED BY <2>2, <2>3, <2>4, <2>5, <2>6
<1> QED BY <1>2, <1>7, <1>8

\* Where each message ends, its payload counted.
Offsets == CHOOSE ends : Joined(Input, ends, [i \in 1 .. Len(sent) |-> BytesOf(i)], Len(sent))

LEMMA InputIs ==
  ASSUME sent \in Streams
  PROVE  /\ Ends(Offsets, Len(sent)) /\ Input \in Seq(Bytes) /\ Len(Input) = Offsets[Len(sent)]
         /\ \A i \in 1 .. Len(sent) :
              /\ Offsets[i] = Offsets[i-1] + Size(i)
              /\ \A x \in 1 .. Size(i) : Input[Offsets[i-1] + x] = ByteOf(i, x)
<1> DEFINE seqs == [i \in 1 .. Len(sent) |-> BytesOf(i)]
<1>1. Len(sent) \in Nat /\ \A i \in 1 .. Len(sent) : seqs[i] = BytesOf(i)
  BY SizesAre
<1>2. seqs \in Seq(Seq(Bytes)) /\ Len(seqs) = Len(sent)
  <2>1. \A i \in 1 .. Len(sent) : BytesOf(i) \in Seq(Bytes)
    BY BytesOfIs
  <2> QED BY <1>1, <2>1
<1>3. Input = FlattenSeq(seqs)
  BY DEF Input
<1>4. Offsets = CHOOSE ends : Joined(Input, ends, seqs, Len(sent))
  BY DEF Offsets
<1> HIDE DEF seqs
<1>5. Input \in Seq(Bytes) /\ \E ends : Joined(Input, ends, seqs, Len(sent))
  BY <1>1, <1>2, <1>3, JoinedByFlatten
<1>6. Joined(Input, Offsets, seqs, Len(sent))
  BY <1>4, <1>5
<1>7. \A i \in 1 .. Len(sent) :
        Len(BytesOf(i)) = Size(i) /\ \A x \in 1 .. Size(i) : BytesOf(i)[x] = ByteOf(i, x)
  BY BytesOfIs
<1>8. Ends(Offsets, Len(sent)) /\ Len(Input) = Offsets[Len(sent)]
  BY <1>6 DEF Joined
<1>9. ASSUME NEW i \in 1 .. Len(sent)
      PROVE  /\ Offsets[i] = Offsets[i-1] + Size(i)
             /\ \A x \in 1 .. Size(i) : Input[Offsets[i-1] + x] = ByteOf(i, x)
  <2>1. seqs[i] = BytesOf(i) /\ Len(seqs[i]) = Size(i)
    BY <1>1, <1>7
  <2>2. Offsets[i] = Offsets[i-1] + Len(seqs[i])
    BY <1>6 DEF Joined
  <2>3. \A x \in 1 .. Len(seqs[i]) : Input[Offsets[i-1] + x] = seqs[i][x]
    BY <1>6 DEF Joined
  <2> QED BY <1>7, <2>1, <2>2, <2>3
<1> QED BY <1>5, <1>8, <1>9

\* What a byte b at p is, of a message i with o bytes before and h ahead of its payload.
Fitting(b, p, i, o, h) ==
  /\ b.msg = i
  /\ b.part = "header" <=> p <= o + HeaderSize
  /\ b.part = "newline" <=> p = o + HeaderSize + 1
  /\ b.part = "data" <=> o + HeaderSize + 1 < p /\ p <= o + h
  /\ b.part = "payload" <=> o + h < p
  /\ b.part = "header" => b.k = p - o
  /\ b.part = "data" => b.k = p - o - (HeaderSize + 1)

LEMMA ByteIs ==
  ASSUME sent \in Streams, NEW p \in 1 .. Len(Input), NEW i \in 1 .. Len(sent),
         Offsets[i-1] < p, p <= Offsets[i]
  PROVE  /\ Offsets[i-1] \in Nat /\ Offsets[i] \in Nat
         /\ Fitting(Input[p], p, i, Offsets[i-1], Ahead(i))
<1>1. Offsets[i-1] \in Nat /\ Offsets[i] \in Nat
  <2>1. i - 1 \in 0 .. Len(sent) /\ i \in 0 .. Len(sent)
    OBVIOUS
  <2> QED BY <2>1, InputIs DEF Ends
<1> DEFINE o == Offsets[i-1]
           a == Ahead(i)
           x == p - o
<1>2. /\ HeaderSize \in Nat /\ a \in Nat /\ Size(i) \in Nat
      /\ a = HeaderSize + 1 + DataOf(i) /\ DataOf(i) \in Nat
  BY SizesAre
<1>3. Offsets[i] = o + Size(i)
  BY InputIs
<1>4. x \in 1 .. Size(i) /\ p = o + x
  BY <1>1, <1>2, <1>3
<1> o \in Nat /\ a \in Nat
  BY <1>1, <1>2
<1> HIDE DEF o, a, x
<1>5. Input[p] = ByteOf(i, x)
  BY <1>4, InputIs DEF o
<1>6. Fitting(Input[p], p, i, o, a)
  <2>1. CASE x <= HeaderSize
    <3>1. Input[p] = [msg |-> i, part |-> "header", k |-> x]
      BY <1>5, <2>1 DEF ByteOf
    <3>2. Input[p].msg = i /\ Input[p].part = "header" /\ Input[p].k = x
      BY <3>1
    <3>3. /\ p <= o + HeaderSize /\ x = p - o /\ p # o + HeaderSize + 1
          /\ ~ (o + HeaderSize + 1 < p) /\ ~ (o + a < p)
      BY <1>2, <1>4, <2>1
    <3> QED BY <3>2, <3>3 DEF Fitting
  <2>2. CASE x = HeaderSize + 1
    <3>1. ~ (x <= HeaderSize) /\ x <= HeaderSize + 1
      BY <1>2, <2>2
    <3>2. Input[p] = [msg |-> i, part |-> "newline", k |-> x - HeaderSize]
      BY <1>5, <3>1 DEF ByteOf
    <3>3. Input[p].msg = i /\ Input[p].part = "newline"
      BY <3>2
    <3>4. /\ ~ (p <= o + HeaderSize) /\ p = o + HeaderSize + 1
          /\ ~ (o + HeaderSize + 1 < p) /\ ~ (o + a < p)
      BY <1>2, <1>4, <2>2
    <3> QED BY <3>3, <3>4 DEF Fitting
  <2>3. CASE HeaderSize + 1 < x /\ x <= a
    <3>1. ~ (x <= HeaderSize) /\ ~ (x <= HeaderSize + 1)
      BY <1>2, <1>4, <2>3
    <3>2. Input[p] = [msg |-> i, part |-> "data", k |-> x - (HeaderSize + 1)]
      BY <1>5, <2>3, <3>1 DEF ByteOf, a
    <3>3. Input[p].msg = i /\ Input[p].part = "data" /\ Input[p].k = x - (HeaderSize + 1)
      BY <3>2
    <3>4. /\ ~ (p <= o + HeaderSize) /\ x = p - o /\ p # o + HeaderSize + 1
          /\ o + HeaderSize + 1 < p /\ p <= o + a /\ ~ (o + a < p)
      BY <1>2, <1>4, <2>3
    <3> QED BY <3>3, <3>4 DEF Fitting
  <2>4. CASE a < x
    <3>1. ~ (x <= HeaderSize) /\ ~ (x <= HeaderSize + 1) /\ ~ (x <= a)
      BY <1>2, <1>4, <2>4
    <3>2. Input[p] = [msg |-> i, part |-> "payload", k |-> x - a]
      BY <1>5, <3>1 DEF ByteOf, a
    <3>3. Input[p].msg = i /\ Input[p].part = "payload"
      BY <3>2
    <3>4. ~ (p <= o + HeaderSize) /\ p # o + HeaderSize + 1 /\ ~ (p <= o + a) /\ o + a < p
      BY <1>2, <1>4, <2>4
    <3> QED BY <3>3, <3>4 DEF Fitting
  <2>5. x <= HeaderSize \/ x = HeaderSize + 1 \/ (HeaderSize + 1 < x /\ x <= a) \/ a < x
    BY <1>2, <1>4
  <2> QED BY <2>1, <2>2, <2>3, <2>4, <2>5
<1> QED BY <1>1, <1>6 DEF o, a

\* Every byte is one of a message.
LEMMA ByteOfMessage ==
  ASSUME sent \in Streams, NEW p \in 1 .. Len(Input)
  PROVE  /\ Input[p].msg \in 1 .. Len(sent)
         /\ Offsets[Input[p].msg - 1] < p /\ p <= Offsets[Input[p].msg]
<1>1. PICK i \in 1 .. Len(sent) : Offsets[i-1] < p /\ p <= Offsets[i]
  BY SizesAre, InputIs, InSomePart
<1>2. Input[p].msg = i
  BY <1>1, ByteIs DEF Fitting
<1> QED BY <1>1, <1>2

\* Where a message begins, and the byte behind its header and data.
LEMMA HeaderIs ==
  ASSUME sent \in Streams, NEW p \in 1 .. Len(Input), Input[p].part = "header", Input[p].k = 1
  PROVE  /\ Input[p].msg \in 1 .. Len(sent) /\ Offsets[Input[p].msg - 1] \in Nat
         /\ p = Offsets[Input[p].msg - 1] + 1
         /\ MessageEnd(p) \in Nat /\ p < MessageEnd(p)
         /\ MessageEnd(p) = Offsets[Input[p].msg - 1] + HeaderSize
              + (IF sent[Input[p].msg].data THEN 1 + DataSize ELSE 0)
<1>1. /\ Input[p].msg \in 1 .. Len(sent)
      /\ Offsets[Input[p].msg - 1] < p /\ p <= Offsets[Input[p].msg]
  BY ByteOfMessage
<1>2. Offsets[Input[p].msg - 1] \in Nat /\ Input[p].k = p - Offsets[Input[p].msg - 1]
  BY <1>1, ByteIs DEF Fitting
<1>3. p = Offsets[Input[p].msg - 1] + 1
  BY <1>2
<1>4. HeaderSize \in Nat /\ HeaderSize > 1 /\ DataSize \in Nat /\ sent[Input[p].msg].data \in BOOLEAN
  BY <1>1, SizesAre
<1>5. MessageEnd(p) = p + HeaderSize - 1 + (IF sent[Input[p].msg].data THEN 1 + DataSize ELSE 0)
  BY DEF MessageEnd
<1> DEFINE o == Offsets[Input[p].msg - 1]
           e == MessageEnd(p)
           d == sent[Input[p].msg].data
<1> SUFFICES o \in Nat /\ p = o + 1 /\ e \in Nat /\ p < e
             /\ e = o + HeaderSize + (IF d THEN 1 + DataSize ELSE 0)
  BY <1>1, Zenon
<1>6. o \in Nat /\ p = o + 1 /\ d \in BOOLEAN /\ e = p + HeaderSize - 1 + (IF d THEN 1 + DataSize ELSE 0)
  BY <1>1, <1>2, <1>3, <1>4, <1>5
<1> HIDE DEF o, e, d
<1> QED BY <1>4, <1>6

\* Messages that begin further on are later ones.
LEMMA LaterBegins ==
  ASSUME sent \in Streams, NEW i \in 1 .. Len(sent), NEW j \in 1 .. Len(sent),
         Offsets[i-1] < Offsets[j-1]
  PROVE  i < j
<1> SUFFICES ASSUME j <= i PROVE FALSE
  OBVIOUS
<1>1. i - 1 \in 0 .. Len(sent) /\ j - 1 \in 0 .. Len(sent) /\ j - 1 <= i - 1 /\ Len(sent) \in Nat
  BY SizesAre
<1>2. Ends(Offsets, Len(sent))
  BY InputIs
<1>3. Offsets[j-1] <= Offsets[i-1]
  BY <1>1, <1>2, EndsGrow
<1>4. Offsets[j-1] \in Nat /\ Offsets[i-1] \in Nat
  BY <1>1, <1>2 DEF Ends
<1> QED BY <1>3, <1>4

-----------------------------------------------------------------------------
(* Types of the parser. *)

\* In a pass the parser looks at at, which is not before what is buffered.
ParserTyped == ParserTypeOK /\ (stage = "json" => first <= at)

LEMMA MinIs ==
  ASSUME NEW S \in SUBSET Nat, S # {}
  PROVE  Min(S) \in S /\ \A k \in S : Min(S) <= k
BY Least DEF Min

LEMMA PayloadHereIs ==
  ASSUME ParserTypeOK
  PROVE  /\ expected - received \in Nat /\ Buffered \in Nat
         /\ PayloadHere \in Nat /\ PayloadHere <= expected - received /\ PayloadHere <= Buffered
         /\ PayloadHere = expected - received \/ PayloadHere = Buffered
<1>1. expected - received \in Nat /\ Buffered \in Nat
  BY DEF ParserTypeOK, Buffered
<1>2. PayloadHere = Min({expected - received, Buffered})
  BY DEF PayloadHere
<1>3. {expected - received, Buffered} \in SUBSET Nat /\ {expected - received, Buffered} # {}
  BY <1>1
<1>4. PayloadHere \in {expected - received, Buffered}
      /\ \A k \in {expected - received, Buffered} : PayloadHere <= k
  BY <1>2, <1>3, MinIs
<1> QED BY <1>1, <1>4

\* The input is what it was from the beginning.
LEMMA InputStays ==
  ASSUME [ParserNext]_parserVars
  PROVE  sent' = sent /\ Input' = Input /\ Offsets' = Offsets
<1>1. sent' = sent
  <2>1. ASSUME NEW n \in 1 .. MaxChunk, Receive(n) \/ ReceiveTooMuch(n) PROVE sent' = sent
    BY <2>1 DEF Receive, ReceiveTooMuch
  <2>2. CASE Parse
    BY <2>2 DEF Parse, NothingLeft, CopyPayload, CopyFails, BeginPass, SkipNewline, SkipUnknown,
      TakeMessage, TakeLastMessage, TakeBareData, EndPass
  <2>3. CASE UNCHANGED parserVars
    BY <2>3 DEF parserVars
  <2> QED BY <2>1, <2>2, <2>3 DEF ParserNext, Quiet
<1>2. Input' = Input
  BY <1>1 DEF Input, BytesOf
<1>3. Offsets' = Offsets
  BY <1>1, <1>2 DEF Offsets, BytesOf
<1> QED BY <1>1, <1>2, <1>3

\* What a pass looks at.
LEMMA AtIs ==
  ASSUME ParserTyped, InPass
  PROVE  /\ at \in 1 .. Len(Input) /\ at \in Nat /\ arrived \in Nat /\ at <= arrived
         /\ Input[at].msg \in 1 .. Len(sent) /\ sent[Input[at].msg].payload \in Nat
<1>1. Len(Input) \in Nat /\ at \in 1 .. Len(Input)
  <2>1. Len(Input) \in Nat
    BY InputIs DEF ParserTyped, ParserTypeOK
  <2> QED BY <2>1 DEF ParserTyped, ParserTypeOK, InPass
<1>2. Input[at].msg \in 1 .. Len(sent)
  BY <1>1, ByteOfMessage DEF ParserTyped, ParserTypeOK
<1>3. sent[Input[at].msg].payload \in Nat
  <2>1. sent \in Streams
    BY DEF ParserTyped, ParserTypeOK
  <2> QED BY <1>2, <2>1, SizesAre
<1>4. arrived \in Nat /\ at <= arrived
  BY DEF ParserTyped, ParserTypeOK, InPass
<1> QED BY <1>1, <1>2, <1>3, <1>4

\* The header and the data that begin at at, when they are all there.
LEMMA TakenIs ==
  ASSUME ParserTyped, AtHeader, MessageIsHere(at)
  PROVE  /\ MessageEnd(at) \in Nat /\ at < MessageEnd(at) /\ MessageEnd(at) <= arrived
         /\ at = Offsets[Input[at].msg - 1] + 1
<1>1. InPass /\ Input[at].part = "header" /\ Input[at].k = 1
  BY DEF AtHeader
<1>2. at \in 1 .. Len(Input)
  BY <1>1, AtIs
<1> QED BY <1>1, <1>2, HeaderIs DEF MessageIsHere, ParserTyped, ParserTypeOK

LEMMA SkipIs ==
  ASSUME ParserTyped, SkipUnknown
  PROVE  at' \in Nat /\ at <= at' /\ at' <= arrived + 1
<1> DEFINE S == {p \in at .. arrived : Input[p].part = "newline"} \cup {arrived + 1}
<1>1. at \in Nat /\ arrived \in Nat /\ at <= arrived
  BY AtIs DEF SkipUnknown
<1>2. S \in SUBSET Nat /\ S # {} /\ \A k \in S : at <= k /\ k <= arrived + 1
  BY <1>1
<1>3. at' = Min(S)
  BY DEF SkipUnknown
<1> HIDE DEF S
<1>4. at' \in S
  BY <1>2, <1>3, MinIs
<1> QED BY <1>2, <1>4

LEMMA StepParserTyped == ParserTyped /\ [ParserNext]_parserVars => ParserTyped'
<1> SUFFICES ASSUME ParserTyped, [ParserNext]_parserVars PROVE ParserTyped'
  OBVIOUS
<1>1. sent' = sent /\ Input' = Input
  BY InputStays
<1>2. Len(Input) \in Nat
  BY InputIs DEF ParserTyped, ParserTypeOK
<1> USE <1>1, <1>2 DEF ParserTyped, ParserTypeOK
<1>3. ASSUME NEW n \in 1 .. MaxChunk, Receive(n) PROVE ParserTyped'
  <2>1. n \in Nat /\ n >= 1
    BY ParserAssumption
  <2>2. arrived' \in 0 .. Len(Input) /\ arrived <= arrived' /\ 1 .. arrived \subseteq 1 .. arrived'
    BY <1>3, <2>1 DEF Receive
  <2>3. audio' \in Seq(1 .. arrived')
    BY <1>3, <2>2 DEF Receive
  <2> QED BY <1>3, <2>2, <2>3 DEF Receive
<1>4. ASSUME NEW n \in 1 .. MaxChunk, ReceiveTooMuch(n) PROVE ParserTyped'
  <2>1. n \in Nat /\ n >= 1
    BY ParserAssumption
  <2>2. arrived' \in 0 .. Len(Input) /\ arrived <= arrived' /\ 1 .. arrived \subseteq 1 .. arrived'
    BY <1>4, <2>1 DEF ReceiveTooMuch
  <2>3. audio' \in Seq(1 .. arrived')
    BY <1>4, <2>2 DEF ReceiveTooMuch
  <2> QED BY <1>4, <2>1, <2>2, <2>3 DEF ReceiveTooMuch
<1>5. CASE NothingLeft
  BY <1>5 DEF NothingLeft
<1>6. CASE CopyPayload
  <2> DEFINE n == PayloadHere
             more == [i \in 1 .. n |-> first + i - 1]
  <2>1. n \in Nat /\ n <= expected - received /\ n <= arrived - first + 1
    BY PayloadHereIs DEF Buffered
  <2>2. /\ audio' = audio \o more /\ first' = first + n /\ stage' = stage /\ stage = "outer"
        /\ UNCHANGED <<sent, arrived, at, parsed, handled, dropped>>
        /\ \/ parse_state' = "json" /\ expected' = 0 /\ received' = 0
           \/ received + n < expected /\ received' = received + n /\ UNCHANGED <<parse_state, expected>>
    BY <1>6, <2>1 DEF CopyPayload
  <2>3. more \in Seq(1 .. arrived)
    BY <2>1
  <2> HIDE DEF n, more
  <2>4. audio' \in Seq(1 .. arrived')
    <3>1. audio \in Seq(1 .. arrived)
      OBVIOUS
    <3>2. audio \o more \in Seq(1 .. arrived)
      BY <2>3, <3>1, ConcatProperties
    <3> QED BY <2>2, <3>2
  <2>5. expected' \in Nat /\ received' \in 0 .. expected' /\ parse_state' \in {"json", "binary"}
    BY <2>1, <2>2
  <2>6. first' \in 1 .. arrived' + 1
    BY <2>1, <2>2
  <2> QED BY <2>2, <2>4, <2>5, <2>6
<1>7. CASE CopyFails
  BY <1>7 DEF CopyFails
<1>8. CASE BeginPass
  <2>1. at' = first /\ first' = first /\ at' \in 1 .. arrived' + 1
    BY <1>8 DEF BeginPass
  <2>2. /\ parsed' = FALSE /\ stage' = "json"
        /\ UNCHANGED <<sent, arrived, first, parse_state, expected, received, audio, handled, dropped>>
    BY <1>8 DEF BeginPass
  <2>3. ParserTypeOK'
    BY <2>1, <2>2
  <2>4. first' <= at'
    BY <2>1
  <2> QED BY <2>3, <2>4
<1>9. CASE SkipNewline
  BY <1>9 DEF SkipNewline, InPass
<1>10. CASE SkipUnknown
  <2>1. at' \in Nat /\ at <= at' /\ at' <= arrived + 1
    BY <1>10, SkipIs
  <2> QED BY <1>10, <2>1 DEF SkipUnknown, InPass
<1>11. CASE TakeMessage
  <2>1. MessageEnd(at) \in Nat /\ at < MessageEnd(at) /\ MessageEnd(at) <= arrived
    BY <1>11, TakenIs DEF TakeMessage
  <2>2. Input[at].msg \in 1 .. Len(sent) /\ sent[Input[at].msg].payload \in Nat
    BY <1>11, AtIs DEF TakeMessage, AtHeader
  <2>3. handled' \in Seq(1 .. Len(sent))
    BY <1>11, <2>2 DEF TakeMessage
  <2>4. audio' \in Seq(1 .. arrived')
    <3>1. (audio' = << >> \/ audio' = audio) /\ arrived' = arrived /\ audio \in Seq(1 .. arrived)
      BY <1>11 DEF TakeMessage
    <3>2. << >> \in Seq(1 .. arrived)
      OBVIOUS
    <3> QED BY <3>1, <3>2
  <2>5. expected' \in Nat /\ received' \in 0 .. expected' /\ parse_state' \in {"json", "binary"}
    <3>1. \/ parse_state' = "binary" /\ expected' = sent[Input[at].msg].payload /\ received' = 0
          \/ UNCHANGED <<parse_state, expected, received>>
      BY <1>11, Zenon DEF TakeMessage
    <3>2. CASE UNCHANGED <<parse_state, expected, received>>
      BY <3>2
    <3>3. CASE parse_state' = "binary" /\ expected' = sent[Input[at].msg].payload /\ received' = 0
      BY <2>2, <3>3
    <3> QED BY <3>1, <3>2, <3>3
  <2>6. /\ at' = MessageEnd(at) + 1 /\ stage' = stage /\ parsed' = TRUE
        /\ UNCHANGED <<arrived, first, dropped>>
    BY <1>11 DEF TakeMessage
  <2>7. stage = "json"
    BY <1>11 DEF TakeMessage, AtHeader, InPass
  <2> QED BY <2>1, <2>3, <2>4, <2>5, <2>6, <2>7
<1>12. CASE TakeLastMessage
  <2>1. Input[at].msg \in 1 .. Len(sent)
    BY <1>12, AtIs DEF TakeLastMessage, AtHeader
  <2>2. handled' \in Seq(1 .. Len(sent))
    BY <1>12, <2>1 DEF TakeLastMessage
  <2>3. dropped' \in BOOLEAN
    BY <1>12 DEF TakeLastMessage
  <2> QED BY <1>12, <2>2, <2>3 DEF TakeLastMessage
<1>13. CASE TakeBareData
  <2>1. DataSize \in Nat
    BY ParserAssumption
  <2> QED BY <1>13, <2>1 DEF TakeBareData, InPass
<1>14. CASE EndPass
  BY <1>14 DEF EndPass
<1>15. CASE UNCHANGED parserVars
  BY <1>15 DEF parserVars
<1> QED BY <1>3, <1>4, <1>5, <1>6, <1>7, <1>8, <1>9, <1>10, <1>11, <1>12, <1>13, <1>14, <1>15
    DEF ParserNext, Parse, Quiet

-----------------------------------------------------------------------------
(* The order of what is handled. *)

\* The next byte to be looked at.
Here == IF stage = "json" THEN at ELSE first

\* What was handled begins before that.
Behind == \A j \in DOMAIN handled : Offsets[handled[j] - 1] + 1 < Here

OrderInv == ParserTyped /\ Behind /\ HandledInOrder

\* The parser never goes back, and what it hands on begins where it is and lies
\* behind it afterwards.
LEMMA HereGrows ==
  ASSUME ParserTyped, [ParserNext]_parserVars
  PROVE  /\ Here \in Nat /\ Here' \in Nat /\ Here <= Here'
         /\ \/ handled' = handled
            \/ /\ AtHeader /\ MessageIsHere(at) /\ Here = at /\ at < Here'
               /\ handled' = Append(handled, Input[at].msg)
<1>1. first \in Nat /\ at \in Nat /\ arrived \in Nat /\ first <= arrived + 1 /\ at <= arrived + 1
      /\ (stage = "json" => first <= at)
  BY DEF ParserTyped, ParserTypeOK
<1>2. ASSUME NEW n \in 1 .. MaxChunk, Receive(n) PROVE Here' = Here /\ handled' = handled
  BY <1>2 DEF Receive, Here
<1>3. ASSUME NEW n \in 1 .. MaxChunk, ReceiveTooMuch(n)
      PROVE  Here' \in Nat /\ Here <= Here' /\ handled' = handled
  <2>1. n \in Nat
    BY ParserAssumption
  <2> QED BY <1>1, <1>3, <2>1 DEF ReceiveTooMuch, Here
<1>4. CASE NothingLeft
  BY <1>1, <1>4 DEF NothingLeft, Here
<1>5. CASE CopyPayload
  <2>1. PayloadHere \in Nat
    BY PayloadHereIs DEF ParserTyped
  <2> QED BY <1>1, <1>5, <2>1 DEF CopyPayload, Here
<1>6. CASE CopyFails
  BY <1>1, <1>6 DEF CopyFails, Here
<1>7. CASE BeginPass
  BY <1>1, <1>7 DEF BeginPass, Here
<1>8. CASE SkipNewline
  BY <1>1, <1>8 DEF SkipNewline, InPass, Here
<1>9. CASE SkipUnknown
  <2>1. at' \in Nat /\ at <= at'
    BY <1>9, SkipIs
  <2> QED BY <1>1, <1>9, <2>1 DEF SkipUnknown, InPass, Here
<1>10. CASE TakeMessage
  <2>1. AtHeader /\ MessageIsHere(at) /\ stage = "json" /\ at' = MessageEnd(at) + 1
        /\ stage' = stage /\ handled' = Append(handled, Input[at].msg)
    BY <1>10 DEF TakeMessage, AtHeader, InPass
  <2>2. MessageEnd(at) \in Nat /\ at < MessageEnd(at)
    BY <2>1, TakenIs
  <2> QED BY <1>1, <2>1, <2>2 DEF Here
<1>11. CASE TakeLastMessage
  <2>1. AtHeader /\ MessageIsHere(at) /\ stage = "json" /\ first' = arrived + 1
        /\ stage' = "poll" /\ handled' = Append(handled, Input[at].msg)
    BY <1>11 DEF TakeLastMessage, AtHeader, InPass
  <2>2. MessageEnd(at) \in Nat /\ at < MessageEnd(at) /\ MessageEnd(at) <= arrived
    BY <2>1, TakenIs
  <2> QED BY <1>1, <2>1, <2>2 DEF Here
<1>12. CASE TakeBareData
  <2>1. DataSize \in Nat
    BY ParserAssumption
  <2> QED BY <1>1, <1>12, <2>1 DEF TakeBareData, InPass, Here
<1>13. CASE EndPass
  BY <1>1, <1>13 DEF EndPass, Here
<1>14. CASE UNCHANGED parserVars
  BY <1>1, <1>14 DEF parserVars, Here
<1>15. Here \in Nat
  BY <1>1 DEF Here
<1> QED BY <1>2, <1>3, <1>4, <1>5, <1>6, <1>7, <1>8, <1>9, <1>10, <1>11, <1>12, <1>13, <1>14, <1>15
    DEF ParserNext, Parse, Quiet

LEMMA StepOrderInv == OrderInv /\ [ParserNext]_parserVars => OrderInv'
<1> SUFFICES ASSUME OrderInv, [ParserNext]_parserVars PROVE OrderInv'
  OBVIOUS
<1>1. ParserTyped /\ ParserTyped' /\ Behind /\ HandledInOrder
  BY StepParserTyped DEF OrderInv
<1>2. sent' = sent /\ Input' = Input /\ Offsets' = Offsets
  BY InputStays
<1>3. sent \in Streams /\ handled \in Seq(1 .. Len(sent)) /\ Len(sent) \in Nat
  BY <1>1, SizesAre DEF ParserTyped, ParserTypeOK
<1>4. \A i \in 1 .. Len(sent) : Offsets[i-1] \in Nat
  <2>1. Ends(Offsets, Len(sent))
    BY <1>3, InputIs
  <2>2. \A i \in 1 .. Len(sent) : i - 1 \in 0 .. Len(sent)
    BY <1>3
  <2> QED BY <2>1, <2>2 DEF Ends
<1>5. \A j \in DOMAIN handled : handled[j] \in 1 .. Len(sent)
  BY <1>3
<1>6. Here \in Nat /\ Here' \in Nat /\ Here <= Here'
  BY <1>1, HereGrows
<1>7. Buffered' < BufferSize
  <2>0. /\ arrived \in Nat /\ first \in Nat /\ at \in Nat /\ first <= arrived + 1
        /\ stage = "json" => first <= at
    BY <1>1 DEF ParserTyped, ParserTypeOK
  <2>1. /\ BufferSize \in Nat /\ arrived \in Nat /\ first \in Nat
        /\ first <= arrived + 1 /\ arrived - first + 1 < BufferSize
    BY <1>1, <2>0, ParserAssumption DEF HandledInOrder, Buffered
  <2>2. ASSUME NEW n \in 1 .. MaxChunk, Receive(n) \/ ReceiveTooMuch(n) PROVE Buffered' < BufferSize
    <3>1. n \in Nat /\ BufferSize > 0
      BY ParserAssumption
    <3> QED BY <2>1, <2>2, <3>1 DEF Receive, ReceiveTooMuch, Fits, Buffered
  <2>3. CASE Parse
    <3>1. arrived' = arrived /\ first' \in Nat /\ first <= first'
      <4>1. CASE CopyPayload
        <5>1. PayloadHere \in Nat
          BY <1>1, PayloadHereIs DEF ParserTyped
        <5> QED BY <2>1, <4>1, <5>1 DEF CopyPayload
      <4>2. CASE EndPass
        BY <2>0, <4>2 DEF EndPass
      <4>3. CASE CopyFails \/ TakeLastMessage
        BY <2>1, <4>3 DEF CopyFails, TakeLastMessage
      <4>4. CASE NothingLeft \/ BeginPass \/ SkipNewline \/ SkipUnknown \/ TakeMessage \/ TakeBareData
        BY <2>1, <4>4 DEF NothingLeft, BeginPass, SkipNewline, SkipUnknown, TakeMessage, TakeBareData
      <4> QED BY <2>3, <4>1, <4>2, <4>3, <4>4 DEF Parse
    <3>2. ASSUME NEW f \in Nat, first <= f PROVE arrived - f + 1 < BufferSize
      BY <2>1, <3>2
    <3>3. arrived - first' + 1 < BufferSize
      BY <3>1, <3>2
    <3> QED BY <3>1, <3>3 DEF Buffered
  <2>4. CASE UNCHANGED parserVars
    BY <2>1, <2>4 DEF parserVars, Buffered
  <2> QED BY <2>2, <2>3, <2>4 DEF ParserNext, Quiet
<1>8. Behind' /\ \A i, j \in DOMAIN handled' : i < j => handled'[i] < handled'[j]
  <2>1. CASE handled' = handled
    <3>1. \A j \in DOMAIN handled : Offsets[handled[j] - 1] + 1 < Here'
      BY <1>1, <1>4, <1>5, <1>6 DEF Behind
    <3> QED BY <1>1, <1>2, <2>1, <3>1 DEF Behind, HandledInOrder
  <2>2. CASE /\ AtHeader /\ MessageIsHere(at) /\ Here = at /\ at < Here'
             /\ handled' = Append(handled, Input[at].msg)
    <3> DEFINE m == Input[at].msg
    <3>1. at = Offsets[m - 1] + 1 /\ m \in 1 .. Len(sent)
      BY <1>1, <2>2, TakenIs, AtIs DEF AtHeader
    <3> HIDE DEF m
    <3>2. Offsets[m - 1] \in Nat
      BY <1>4, <3>1
    <3>3. ASSUME NEW j \in DOMAIN handled
          PROVE  handled[j] < m /\ Offsets[handled[j] - 1] + 1 < Here'
      <4>1. Offsets[handled[j] - 1] + 1 < at /\ Offsets[handled[j] - 1] \in Nat /\ handled[j] \in 1 .. Len(sent)
        BY <1>1, <1>4, <1>5, <2>2 DEF Behind
      <4>2. Offsets[handled[j] - 1] < Offsets[m - 1]
        BY <3>1, <3>2, <4>1
      <4>3. handled[j] < m
        BY <1>3, <3>1, <4>1, <4>2, LaterBegins
      <4>4. at \in Nat
        BY <3>1, <3>2
      <4> QED BY <1>6, <2>2, <4>1, <4>3, <4>4
    <3>4. Offsets[m - 1] + 1 < Here'
      BY <2>2, <3>1
    <3>5. /\ DOMAIN handled' = 1 .. Len(handled) + 1 /\ handled'[Len(handled) + 1] = m
          /\ \A j \in 1 .. Len(handled) : handled'[j] = handled[j]
          /\ Len(handled) \in Nat /\ DOMAIN handled = 1 .. Len(handled)
      <4>1. handled' = Append(handled, m)
        BY <2>2 DEF m
      <4> QED BY <1>3, <3>1, <4>1
    <3>6. ASSUME NEW j \in DOMAIN handled' PROVE Offsets[handled'[j] - 1] + 1 < Here'
      <4>1. CASE j = Len(handled) + 1
        BY <3>4, <3>5, <4>1
      <4>2. CASE j # Len(handled) + 1
        <5>1. j \in DOMAIN handled /\ handled'[j] = handled[j]
          BY <3>5, <4>2
        <5> QED BY <3>3, <5>1
      <4> QED BY <4>1, <4>2
    <3>7. ASSUME NEW i \in DOMAIN handled', NEW j \in DOMAIN handled', i < j PROVE handled'[i] < handled'[j]
      <4>1. i \in DOMAIN handled /\ handled'[i] = handled[i]
        BY <3>5, <3>7
      <4>2. CASE j = Len(handled) + 1
        BY <3>3, <3>5, <4>1, <4>2
      <4>3. CASE j # Len(handled) + 1
        <5>1. j \in DOMAIN handled /\ handled'[j] = handled[j]
          BY <3>5, <4>3
        <5> QED BY <1>1, <3>7, <4>1, <5>1 DEF HandledInOrder
      <4> QED BY <4>2, <4>3
    <3> QED BY <1>2, <3>6, <3>7 DEF Behind
  <2> QED BY <1>1, <2>1, <2>2, HereGrows
<1>9. HandledInOrder'
  BY <1>7, <1>8 DEF HandledInOrder
<1> QED BY <1>1, <1>8, <1>9 DEF OrderInv

LEMMA InitOrderInv == ParserInit => OrderInv
<1> SUFFICES ASSUME ParserInit PROVE OrderInv
  OBVIOUS
<1>1. Len(Input) \in Nat /\ BufferSize \in Nat \ {0}
  BY InputIs, ParserAssumption DEF ParserInit
<1>2. handled = << >> /\ audio = << >> /\ handled \in Seq(1 .. Len(sent)) /\ audio \in Seq(1 .. arrived)
  BY DEF ParserInit
<1>3. ParserTyped
  <2>1. arrived \in 0 .. Len(Input) /\ first \in 1 .. arrived + 1 /\ at \in 1 .. arrived + 1
    BY <1>1 DEF ParserInit
  <2>2. parse_state = "json" /\ expected = 0 /\ received = 0 /\ parsed = FALSE /\ stage = "poll"
        /\ dropped = FALSE /\ sent \in Streams
    BY DEF ParserInit
  <2>3. expected \in Nat /\ received \in 0 .. expected
    BY <2>2
  <2>4. parsed \in BOOLEAN /\ dropped \in BOOLEAN
    BY <2>2, Zenon
  <2>5. parse_state \in {"json", "binary"} /\ stage \in {"poll", "outer", "json"}
    BY <2>2
  <2>6. ParserTypeOK
    BY <1>2, <2>1, <2>2, <2>3, <2>4, <2>5, Zenon DEF ParserTypeOK
  <2> QED BY <2>2, <2>6 DEF ParserTyped
<1>4. Behind /\ HandledInOrder
  BY <1>1, <1>2 DEF ParserInit, Behind, HandledInOrder, Buffered
<1> QED BY <1>3, <1>4 DEF OrderInv

LEMMA OrderInvHolds == ParserSpec => []OrderInv
<1>1. OrderInv /\ [ParserNext]_parserVars => OrderInv'
  BY StepOrderInv
<1>2. ParserInit => OrderInv
  BY InitOrderInv
<1> QED BY <1>1, <1>2, PTL DEF ParserSpec

\* The types of the parser's state are those declared, for any messages and sizes.
THEOREM ParserTypeCorrect == ParserSpec => []ParserTypeOK
<1>1. OrderInv => ParserTypeOK
  BY DEF OrderInv, ParserTyped
<1> QED BY <1>1, OrderInvHolds, PTL

\* Whatever the server sends, however it is cut and whatever is dropped, messages are
\* handled in their order and at most once, and the buffer has room for its final zero.
THEOREM MessagesInOrder == ParserSpec => []HandledInOrder
<1>1. OrderInv => HandledInOrder
  BY DEF OrderInv
<1> QED BY <1>1, OrderInvHolds, PTL

\* The parser never goes back to a byte it has passed.
THEOREM NothingIsParsedTwice == ParserSpec => [][Here <= Here']_parserVars
<1>1. OrderInv /\ [ParserNext]_parserVars => Here <= Here'
  BY HereGrows DEF OrderInv
<1> QED BY <1>1, OrderInvHolds, PTL DEF ParserSpec

-----------------------------------------------------------------------------
(* What was handled and heard while nothing is dropped. *)

\* The last byte of the header and the data of a message.
EndOf(i) == Offsets[i-1] + HeaderSize + (IF sent[i].data THEN 1 + DataSize ELSE 0)

\* The first Len(handled) messages were handled, and the parser is between the last of
\* them and the next, or in the payload of the last.
Reached ==
  LET c == Len(handled)
  IN  /\ c <= Len(sent)
      /\ \A i \in 1 .. c : handled[i] = i
      /\ parse_state = "json" =>
           Here = Offsets[c] + 1 \/ (c > 0 /\ ~sent[c].data /\ Here = Offsets[c])
      /\ parse_state = "binary" =>
           /\ c > 0 /\ received < expected /\ expected = sent[c].payload
           /\ Here + (expected - received) = Offsets[c] + 1
      /\ stage = "json" /\ parse_state = "binary" => parsed

\* The payload passed since the last audio-start.
IsHeard(p) ==
  /\ p < Here /\ Input[p].part = "payload"
  /\ \A i \in 1 .. Len(handled) : sent[i].type = "audio-start" => i < Input[p].msg

\* It is what the audio buffer holds, once.
Heard ==
  /\ \A i, j \in DOMAIN audio : audio[i] = audio[j] => i = j
  /\ \A p \in 1 .. Len(Input) : (\E k \in DOMAIN audio : audio[k] = p) <=> IsHeard(p)

\* The next message begins what is buffered, but its header and data are not all here.
NextNotHere ==
  /\ parse_state = "json" /\ Len(handled) < Len(sent)
  /\ first = Offsets[Len(handled)] + 1 /\ arrived < EndOf(Len(handled) + 1)

\* Between two polls all was used, or the next message is not here.
Settled == stage = "poll" => first = arrived + 1 \/ NextNotHere

CutInv == OrderInv /\ (~dropped => Reached /\ Heard /\ Settled)

LEMMA OffsetsAre ==
  ASSUME sent \in Streams
  PROVE  /\ Len(sent) \in Nat /\ Len(Input) \in Nat /\ Len(Input) = Offsets[Len(sent)] /\ Offsets[0] = 0
         /\ \A i \in 0 .. Len(sent) : Offsets[i] \in Nat
         /\ \A i \in 1 .. Len(sent) : Offsets[i-1] \in Nat /\ Offsets[i] = Offsets[i-1] + Size(i)
<1>1. Len(sent) \in Nat /\ Ends(Offsets, Len(sent)) /\ Len(Input) = Offsets[Len(sent)]
  BY SizesAre, InputIs
<1>2. \A i \in 0 .. Len(sent) : Offsets[i] \in Nat
  BY <1>1 DEF Ends
<1>3. \A i \in 1 .. Len(sent) : i - 1 \in 0 .. Len(sent)
  BY <1>1
<1>4. Len(sent) \in 0 .. Len(sent) /\ Offsets[0] = 0
  BY <1>1 DEF Ends
<1>5. \A i \in 1 .. Len(sent) : Offsets[i] = Offsets[i-1] + Size(i)
  BY InputIs
<1> QED BY <1>1, <1>2, <1>3, <1>4, <1>5

LEMMA EndOfIs ==
  ASSUME sent \in Streams, NEW i \in 1 .. Len(sent)
  PROVE  /\ EndOf(i) \in Nat /\ Offsets[i-1] + 1 < EndOf(i) /\ sent[i].payload \in Nat
         /\ EndOf(i) <= Offsets[i-1] + Ahead(i) /\ EndOf(i) <= Offsets[i]
         /\ sent[i].payload > 0 => sent[i].data /\ sent[i].type = "audio-chunk"
         /\ sent[i].data => EndOf(i) = Offsets[i-1] + Ahead(i) /\ Offsets[i] = EndOf(i) + sent[i].payload
         /\ ~sent[i].data => Offsets[i] = EndOf(i) + 1
<1>1. Offsets[i-1] \in Nat /\ Offsets[i] = Offsets[i-1] + Size(i)
  BY OffsetsAre
<1>2. /\ HeaderSize \in Nat /\ HeaderSize > 1 /\ DataSize \in Nat /\ DataSize > 1
      /\ sent[i].data \in BOOLEAN /\ sent[i].payload \in Nat
      /\ Ahead(i) = HeaderSize + 1 + DataOf(i) /\ Size(i) = Ahead(i) + sent[i].payload
      /\ sent[i].data => DataOf(i) = DataSize
      /\ ~sent[i].data => DataOf(i) = 0
  BY SizesAre
<1>3. sent[i].payload > 0 => sent[i].data /\ sent[i].type = "audio-chunk"
  <2>1. i \in DOMAIN sent
    BY ParserAssumption
  <2> QED BY <2>1, ProtocolAssumption
<1>4. sent[i].data => EndOf(i) = Offsets[i-1] + HeaderSize + (1 + DataSize)
  BY DEF EndOf
<1>5. ~sent[i].data => EndOf(i) = Offsets[i-1] + HeaderSize
  BY <1>1, <1>2 DEF EndOf
<1> DEFINE o == Offsets[i-1]
           f == Offsets[i]
           e == EndOf(i)
           a == Ahead(i)
           p == sent[i].payload
<1>6. o \in Nat /\ p \in Nat /\ f = o + (a + p)
  BY <1>1, <1>2
<1>7. sent[i].data => e = o + HeaderSize + (1 + DataSize) /\ a = HeaderSize + 1 + DataSize
  BY <1>2, <1>4
<1>8. ~sent[i].data => e = o + HeaderSize /\ a = HeaderSize + 1 /\ p = 0
  <2>1. ~sent[i].data => ~(p > 0)
    BY <1>3
  <2>2. ~sent[i].data => p = 0
    BY <1>6, <2>1
  <2>3. ~sent[i].data => a = HeaderSize + 1
    BY <1>2
  <2> QED BY <1>5, <2>2, <2>3
<1> SUFFICES /\ e \in Nat /\ o + 1 < e /\ p \in Nat
             /\ e <= o + a /\ e <= f
             /\ sent[i].data => e = o + a /\ f = e + p
             /\ ~sent[i].data => f = e + 1
  BY <1>3, Zenon
<1> HIDE DEF o, f, e, a, p
<1>9. CASE sent[i].data
  BY <1>2, <1>6, <1>7, <1>9
<1>10. CASE ~sent[i].data
  BY <1>2, <1>6, <1>8, <1>10
<1> QED BY <1>9, <1>10

\* What the parser looks at in a pass: the newline behind the last message, or the header
\* of the next.
LEMMA NextIs ==
  ASSUME ParserTyped, Reached, InPass
  PROVE  /\ Here = at
         /\ \/ Input[at].part = "newline" /\ at = Offsets[Len(handled)] /\ Len(handled) > 0
            \/ /\ Input[at].part = "header" /\ Input[at].k = 1 /\ at = Offsets[Len(handled)] + 1
               /\ Len(handled) + 1 \in 1 .. Len(sent) /\ Input[at].msg = Len(handled) + 1
               /\ MessageEnd(at) = EndOf(Len(handled) + 1)
<1> DEFINE c == Len(handled)
<1>1. sent \in Streams /\ c \in Nat /\ c <= Len(sent) /\ Len(sent) \in Nat
  BY SizesAre DEF ParserTyped, ParserTypeOK, Reached
<1>2. /\ stage = "json" /\ parse_state = "json" /\ Here = at /\ at \in Nat /\ at <= arrived
      /\ arrived \in Nat /\ arrived <= Len(Input) /\ at \in 1 .. Len(Input)
  BY AtIs, OffsetsAre, <1>1 DEF InPass, Here, ParserTyped, ParserTypeOK
<1>3. at = Offsets[c] + 1 \/ (c > 0 /\ ~sent[c].data /\ at = Offsets[c])
  BY <1>2 DEF Reached
<1>4. CASE c > 0 /\ ~sent[c].data /\ at = Offsets[c]
  <2>1. c \in 1 .. Len(sent) /\ Offsets[c] = EndOf(c) + 1 /\ EndOf(c) <= Offsets[c-1] + Ahead(c)
        /\ EndOf(c) \in Nat /\ Offsets[c-1] + 1 < EndOf(c)
    BY <1>1, <1>4, EndOfIs
  <2>2. Offsets[c-1] \in Nat /\ EndOf(c) = Offsets[c-1] + HeaderSize /\ HeaderSize \in Nat
    BY <1>1, <1>4, <2>1, OffsetsAre, SizesAre DEF EndOf
  <2>3. Offsets[c-1] < at /\ at <= Offsets[c] /\ at = Offsets[c-1] + HeaderSize + 1
    BY <1>4, <2>1, <2>2
  <2>4. Fitting(Input[at], at, c, Offsets[c-1], Ahead(c))
    BY <1>1, <1>2, <2>1, <2>3, ByteIs
  <2> QED BY <1>2, <1>4, <2>3, <2>4 DEF Fitting
<1>5. CASE at = Offsets[c] + 1
  <2>1. c # Len(sent) /\ Offsets[c] \in Nat
    BY <1>1, <1>2, <1>5, OffsetsAre
  <2>2. c + 1 \in 1 .. Len(sent) /\ (c + 1) - 1 = c
    BY <1>1, <2>1
  <2> DEFINE i == c + 1
  <2> HIDE DEF c
  <2>3. Offsets[i-1] = Offsets[c] /\ i \in 1 .. Len(sent)
    BY <2>2
  <2> HIDE DEF i
  <2>4. EndOf(i) \in Nat /\ Offsets[i-1] + 1 < EndOf(i) /\ EndOf(i) <= Offsets[i]
    BY <1>1, <2>3, EndOfIs
  <2>5. Offsets[i] \in Nat
    BY <1>1, <2>3, OffsetsAre
  <2>6. Offsets[i-1] < at /\ at <= Offsets[i]
    BY <1>5, <2>1, <2>3, <2>4, <2>5
  <2>7. Fitting(Input[at], at, i, Offsets[i-1], Ahead(i))
    BY <1>1, <1>2, <2>3, <2>6, ByteIs
  <2>8. HeaderSize \in Nat /\ HeaderSize > 1
    BY <1>1, SizesAre
  <2>9. at <= Offsets[i-1] + HeaderSize /\ at - Offsets[i-1] = 1
    BY <1>5, <2>1, <2>3, <2>8
  <2>10. Input[at].part = "header" /\ Input[at].k = 1 /\ Input[at].msg = i
    BY <2>7, <2>9 DEF Fitting
  <2>11. MessageEnd(at) = EndOf(i)
    BY <1>1, <1>2, <2>10, HeaderIs DEF EndOf
  <2>12. /\ Here = at /\ Input[at].part = "header" /\ Input[at].k = 1 /\ at = Offsets[c] + 1
         /\ i \in 1 .. Len(sent) /\ Input[at].msg = i /\ MessageEnd(at) = EndOf(i)
    BY <1>2, <1>5, <2>3, <2>10, <2>11
  <2> QED BY <2>12 DEF i, c
<1> QED BY <1>3, <1>4, <1>5

\* The kinds of steps: none that matters here, over a newline, over the header and data of
\* the next message, over some of a payload.
StaysHere ==
  /\ handled' = handled /\ audio' = audio /\ Here' = Here
  /\ parse_state' = parse_state /\ expected' = expected /\ received' = received
  /\ stage' = "json" /\ parse_state' = "binary" => parsed'

OverNewline ==
  /\ handled' = handled /\ audio' = audio
  /\ parse_state = "json" /\ parse_state' = "json"
  /\ Here = Offsets[Len(handled)] /\ Len(handled) > 0 /\ Here' = Here + 1
  /\ Input[Here].part = "newline" /\ Here \in 1 .. Len(Input)

OverMessage ==
  LET i == Len(handled) + 1
  IN  /\ i \in 1 .. Len(sent) /\ handled' = Append(handled, i)
      /\ audio' = IF sent[i].type = "audio-start" THEN << >> ELSE audio
      /\ Here = Offsets[Len(handled)] + 1 /\ Here' = EndOf(i) + 1
      /\ parse_state = "json"
      /\ \/ /\ sent[i].payload > 0 /\ parse_state' = "binary" /\ expected' = sent[i].payload
            /\ received' = 0 /\ parsed'
         \/ sent[i].payload = 0 /\ parse_state' = "json"

OverPayload ==
  LET n == PayloadHere
  IN  /\ handled' = handled /\ audio' = audio \o [i \in 1 .. n |-> Here + i - 1]
      /\ parse_state = "binary" /\ stage' = "outer" /\ Here' = Here + n
      /\ \/ parse_state' = "json" /\ n = expected - received
         \/ /\ parse_state' = "binary" /\ expected' = expected /\ received' = received + n
            /\ received' < expected

LEMMA ParserFacts ==
  ASSUME ParserTyped
  PROVE  /\ sent \in Streams /\ Len(sent) \in Nat /\ Len(Input) \in Nat
         /\ handled \in Seq(1 .. Len(sent)) /\ Len(handled) \in Nat
         /\ audio \in Seq(1 .. arrived) /\ Len(audio) \in Nat
         /\ arrived \in Nat /\ arrived <= Len(Input) /\ first \in Nat /\ first >= 1 /\ first <= arrived + 1
         /\ at \in Nat /\ at >= 1 /\ at <= arrived + 1 /\ (stage = "json" => first <= at)
         /\ Here \in Nat /\ Here >= 1 /\ Here <= arrived + 1
         /\ expected \in Nat /\ received \in Nat /\ received <= expected
         /\ parse_state \in {"json", "binary"}
<1>1. sent \in Streams
  BY DEF ParserTyped, ParserTypeOK
<1>2. Len(sent) \in Nat /\ Len(Input) \in Nat
  BY <1>1, OffsetsAre
<1>3. handled \in Seq(1 .. Len(sent)) /\ audio \in Seq(1 .. arrived)
  BY DEF ParserTyped, ParserTypeOK
<1>4. /\ arrived \in Nat /\ arrived <= Len(Input) /\ first \in Nat /\ first >= 1 /\ first <= arrived + 1
      /\ at \in Nat /\ at >= 1 /\ at <= arrived + 1 /\ (stage = "json" => first <= at)
      /\ expected \in Nat /\ received \in Nat /\ received <= expected
      /\ parse_state \in {"json", "binary"}
  BY <1>2 DEF ParserTyped, ParserTypeOK
<1>5. Here \in Nat /\ Here >= 1 /\ Here <= arrived + 1
  BY <1>4 DEF Here
<1> QED BY <1>1, <1>2, <1>3, <1>4, <1>5

\* Nothing dropped, a step is of one of these kinds.
LEMMA StepsAre ==
  ASSUME ParserTyped, Reached, [ParserNext]_parserVars, ~dropped'
  PROVE  StaysHere \/ OverNewline \/ OverMessage \/ OverPayload
<1>1. /\ first \in Nat /\ at \in Nat /\ arrived \in Nat /\ parse_state \in {"json", "binary"}
      /\ Len(handled) \in Nat
  BY ParserFacts
<1>2. ASSUME NEW n \in 1 .. MaxChunk, Receive(n) PROVE StaysHere
  BY <1>2 DEF Receive, StaysHere, Here
<1>3. ASSUME NEW n \in 1 .. MaxChunk, ReceiveTooMuch(n) PROVE FALSE
  BY <1>3 DEF ReceiveTooMuch
<1>4. CASE NothingLeft
  BY <1>4 DEF NothingLeft, StaysHere, Here
<1>5. CASE CopyPayload
  <2>1. PayloadHere \in Nat /\ PayloadHere <= expected - received
        /\ expected \in Nat /\ received \in Nat
    BY PayloadHereIs, ParserFacts DEF ParserTyped
  <2>2. Here = first /\ Here' = first + PayloadHere
    BY <1>5 DEF CopyPayload, Here
  <2>3. /\ handled' = handled /\ audio' = audio \o [i \in 1 .. PayloadHere |-> Here + i - 1]
        /\ parse_state = "binary" /\ stage' = "outer"
    BY <1>5, <2>2 DEF CopyPayload
  <2>4. \/ parse_state' = "json" /\ PayloadHere = expected - received
        \/ /\ parse_state' = "binary" /\ expected' = expected /\ received' = received + PayloadHere
           /\ received' < expected
    BY <1>5, <2>1 DEF CopyPayload
  <2> QED BY <2>2, <2>3, <2>4 DEF OverPayload
<1>6. CASE CopyFails
  BY <1>6 DEF CopyFails
<1>7. CASE BeginPass
  BY <1>7 DEF BeginPass, StaysHere, Here
<1>8. CASE SkipNewline
  <2>1. InPass /\ Input[at].part = "newline" /\ stage = "json" /\ parse_state = "json"
    BY <1>8 DEF SkipNewline, InPass
  <2>2. Here = at /\ at = Offsets[Len(handled)] /\ Len(handled) > 0
    BY <2>1, NextIs
  <2>3. at \in 1 .. Len(Input)
    BY <2>1, AtIs
  <2>4. Here' = at + 1 /\ handled' = handled /\ audio' = audio /\ parse_state' = parse_state
    BY <1>8, <2>1 DEF SkipNewline, Here
  <2> QED BY <2>1, <2>2, <2>3, <2>4 DEF OverNewline
<1>9. CASE SkipUnknown
  <2>1. InPass /\ ~OpensObject(Input[at]) /\ Input[at].part # "newline"
    BY <1>9 DEF SkipUnknown
  <2> QED BY <2>1, NextIs DEF OpensObject
<1>10. CASE TakeMessage
  <2>1. AtHeader /\ InPass /\ Input[at].part = "header" /\ stage = "json" /\ parse_state = "json"
    BY <1>10 DEF TakeMessage, AtHeader, InPass
  <2> DEFINE i == Len(handled) + 1
  <2>2. /\ Here = at /\ at = Offsets[Len(handled)] + 1 /\ i \in 1 .. Len(sent)
        /\ Input[at].msg = i /\ MessageEnd(at) = EndOf(i)
    BY <2>1, NextIs
  <2>3. /\ handled' = Append(handled, Input[at].msg)
        /\ audio' = IF sent[Input[at].msg].type = "audio-start" THEN << >> ELSE audio
        /\ at' = MessageEnd(at) + 1 /\ parsed' = TRUE /\ stage' = stage
    BY <1>10 DEF TakeMessage
  <2>4. \/ /\ sent[Input[at].msg].payload > 0 /\ parse_state' = "binary"
           /\ expected' = sent[Input[at].msg].payload /\ received' = 0
        \/ ~(sent[Input[at].msg].payload > 0) /\ parse_state' = parse_state
    BY <1>10, Zenon DEF TakeMessage
  <2>5. sent[i].payload \in Nat
    BY <2>2, EndOfIs, ParserFacts
  <2>6. Here' = EndOf(i) + 1
    BY <2>1, <2>2, <2>3 DEF Here
  <2>7. \/ /\ sent[i].payload > 0 /\ parse_state' = "binary"
           /\ expected' = sent[i].payload /\ received' = 0 /\ parsed'
        \/ sent[i].payload = 0 /\ parse_state' = "json"
    BY <2>1, <2>2, <2>3, <2>4, <2>5
  <2>8. handled' = Append(handled, i) /\ audio' = IF sent[i].type = "audio-start" THEN << >> ELSE audio
    BY <2>2, <2>3
  <2> QED BY <2>1, <2>2, <2>6, <2>7, <2>8, Zenon DEF OverMessage
<1>11. CASE TakeLastMessage
  <2>1. AtHeader /\ InPass /\ Input[at].part = "header" /\ stage = "json" /\ parse_state = "json"
        /\ MessageIsHere(at)
    BY <1>11 DEF TakeLastMessage, AtHeader, InPass
  <2> DEFINE i == Len(handled) + 1
  <2>2. /\ Here = at /\ at = Offsets[Len(handled)] + 1 /\ i \in 1 .. Len(sent)
        /\ Input[at].msg = i /\ MessageEnd(at) = EndOf(i)
    BY <2>1, NextIs
  <2>3. /\ handled' = Append(handled, Input[at].msg) /\ audio' = audio
        /\ sent[Input[at].msg].type \in {"transcript", "audio-stop"}
        /\ first' = arrived + 1 /\ stage' = "poll" /\ parse_state' = "json"
        /\ dropped' = (dropped \/ MessageEnd(at) < arrived)
    BY <1>11 DEF TakeLastMessage
  <2>4. MessageEnd(at) \in Nat /\ MessageEnd(at) <= arrived
    BY <2>1, TakenIs
  <2>5. MessageEnd(at) = arrived
    <3>1. ~(MessageEnd(at) < arrived)
      BY <2>3, Zenon
    <3> QED BY <1>1, <2>4, <3>1
  <2>6. sent[i].payload \in Nat /\ (sent[i].payload > 0 => sent[i].type = "audio-chunk")
    BY <2>2, EndOfIs, ParserFacts
  <2>7. sent[i].payload = 0 /\ sent[i].type # "audio-start"
    BY <2>2, <2>3, <2>6
  <2>8. Here' = EndOf(i) + 1
    BY <2>2, <2>3, <2>5 DEF Here
  <2>9. handled' = Append(handled, i) /\ audio' = IF sent[i].type = "audio-start" THEN << >> ELSE audio
    BY <2>2, <2>3, <2>7
  <2> QED BY <2>1, <2>2, <2>3, <2>7, <2>8, <2>9, Zenon DEF OverMessage
<1>12. CASE TakeBareData
  <2>1. InPass /\ Input[at].part = "data"
    BY <1>12 DEF TakeBareData
  <2> QED BY <2>1, NextIs
<1>13. CASE EndPass
  BY <1>13 DEF EndPass, StaysHere, Here
<1>14. CASE UNCHANGED parserVars
  BY <1>14 DEF parserVars, StaysHere, Here, Reached
<1> QED BY <1>2, <1>3, <1>4, <1>5, <1>6, <1>7, <1>8, <1>9, <1>10, <1>11, <1>12, <1>13, <1>14
    DEF ParserNext, Parse, Quiet

LEMMA StepReached ==
  ASSUME ParserTyped, Reached, [ParserNext]_parserVars, ~dropped'
  PROVE  Reached'
<1>1. sent' = sent /\ Input' = Input /\ Offsets' = Offsets
  BY InputStays
<1>2. /\ sent \in Streams /\ Len(sent) \in Nat /\ handled \in Seq(1 .. Len(sent))
      /\ Len(handled) \in Nat /\ Here \in Nat /\ expected \in Nat /\ received \in Nat
      /\ received <= expected
  BY ParserFacts
<1>3. \A i \in 0 .. Len(sent) : Offsets[i] \in Nat
  BY <1>2, OffsetsAre
<1> DEFINE c == Len(handled)
<1>4. /\ c <= Len(sent) /\ \A i \in 1 .. c : handled[i] = i
      /\ parse_state = "json" => Here = Offsets[c] + 1 \/ (c > 0 /\ ~sent[c].data /\ Here = Offsets[c])
      /\ parse_state = "binary" =>
           /\ c > 0 /\ received < expected /\ expected = sent[c].payload
           /\ Here + (expected - received) = Offsets[c] + 1
      /\ stage = "json" /\ parse_state = "binary" => parsed
  BY DEF Reached
<1>5. CASE StaysHere
  BY <1>1, <1>4, <1>5 DEF StaysHere, Reached
<1>6. CASE OverNewline
  BY <1>1, <1>4, <1>6 DEF OverNewline, Reached
<1>7. CASE OverMessage
  <2> DEFINE i == c + 1
  <2>1. /\ i \in 1 .. Len(sent) /\ handled' = Append(handled, i)
        /\ Here' = EndOf(i) + 1
        /\ \/ /\ sent[i].payload > 0 /\ parse_state' = "binary" /\ expected' = sent[i].payload
              /\ received' = 0 /\ parsed'
           \/ sent[i].payload = 0 /\ parse_state' = "json"
    BY <1>7 DEF OverMessage
  <2>2. Len(handled') = i /\ \A x \in 1 .. i : handled'[x] = x
    BY <1>2, <1>4, <2>1
  <2>3. i \in Nat /\ i > 0 /\ i <= Len(sent) /\ i \in 1 .. Len(sent)
    BY <1>2, <2>1
  <2> HIDE DEF i, c
  <2>4. /\ EndOf(i) \in Nat /\ sent[i].payload \in Nat
        /\ sent[i].payload > 0 => sent[i].data
        /\ sent[i].data => Offsets[i] = EndOf(i) + sent[i].payload
        /\ ~sent[i].data => Offsets[i] = EndOf(i) + 1
    BY <1>2, <2>3, EndOfIs
  <2>5. CASE /\ sent[i].payload > 0 /\ parse_state' = "binary" /\ expected' = sent[i].payload
             /\ received' = 0 /\ parsed'
    <3>1. received' < expected' /\ Here' + (expected' - received') = Offsets[i] + 1
      <4>1. sent[i].data
        BY <2>4, <2>5
      <4>2. Offsets[i] = EndOf(i) + sent[i].payload
        BY <2>4, <4>1
      <4>3. Here' = EndOf(i) + 1 /\ expected' = sent[i].payload /\ received' = 0 /\ sent[i].payload > 0
        BY <2>1, <2>5
      <4> QED BY <2>4, <4>2, <4>3
    <3>2. parse_state' # "json"
      BY <2>5
    <3> QED BY <1>1, <2>2, <2>3, <2>5, <3>1, <3>2 DEF Reached
  <2>6. CASE sent[i].payload = 0 /\ parse_state' = "json"
    <3>1. Here' = Offsets[i] + 1 \/ (~sent[i].data /\ Here' = Offsets[i])
      BY <2>1, <2>4, <2>6
    <3>2. parse_state' # "binary"
      BY <2>6
    <3> QED BY <1>1, <2>2, <2>3, <3>1, <3>2 DEF Reached
  <2> QED BY <2>1, <2>5, <2>6
<1>8. CASE OverPayload
  <2> DEFINE n == PayloadHere
  <2>1. n \in Nat
    BY PayloadHereIs DEF ParserTyped
  <2>2. /\ handled' = handled /\ parse_state = "binary" /\ stage' = "outer" /\ Here' = Here + n
        /\ \/ parse_state' = "json" /\ n = expected - received
           \/ /\ parse_state' = "binary" /\ expected' = expected /\ received' = received + n
              /\ received' < expected
    BY <1>8 DEF OverPayload
  <2>3. /\ c > 0 /\ expected = sent[c].payload /\ Here + (expected - received) = Offsets[c] + 1
        /\ Offsets[c] \in Nat
    BY <1>2, <1>3, <1>4, <2>2
  <2> HIDE DEF n, c
  <2>4. CASE parse_state' = "json" /\ n = expected - received
    <3>1. Here' = Offsets[c] + 1
      BY <1>2, <2>1, <2>2, <2>3, <2>4
    <3> QED BY <1>1, <1>4, <2>2, <2>4, <3>1 DEF Reached, c
  <2>5. CASE /\ parse_state' = "binary" /\ expected' = expected /\ received' = received + n
             /\ received' < expected
    <3>1. Here' + (expected' - received') = Offsets[c] + 1
      BY <1>2, <2>1, <2>2, <2>3, <2>5
    <3> QED BY <1>1, <1>4, <2>2, <2>3, <2>5, <3>1 DEF Reached, c
  <2> QED BY <2>2, <2>4, <2>5
<1> QED BY <1>5, <1>6, <1>7, <1>8, StepsAre

\* Which message a byte is of, by where it lies; and which bytes are payload.
LEMMA BytesUpTo ==
  ASSUME sent \in Streams, NEW p \in 1 .. Len(Input), NEW i \in 0 .. Len(sent)
  PROVE  Input[p].msg \in Nat /\ (Input[p].msg <= i <=> p <= Offsets[i])
<1> DEFINE m == Input[p].msg
<1>1. m \in 1 .. Len(sent) /\ Offsets[m-1] < p /\ p <= Offsets[m]
  BY ByteOfMessage
<1>2. Ends(Offsets, Len(sent)) /\ Len(sent) \in Nat /\ Len(Input) \in Nat
  BY InputIs, OffsetsAre
<1> HIDE DEF m
<1>3. m \in 0 .. Len(sent) /\ m - 1 \in 0 .. Len(sent) /\ m \in Nat /\ p \in Nat /\ i \in Nat
  BY <1>1, <1>2
<1>4. Offsets[m-1] \in Nat /\ Offsets[m] \in Nat /\ Offsets[i] \in Nat
  BY <1>2, <1>3 DEF Ends
<1>5. CASE m <= i
  <2>1. Offsets[m] <= Offsets[i]
    BY <1>2, <1>3, <1>5, EndsGrow
  <2> QED BY <1>1, <1>3, <1>4, <1>5, <2>1 DEF m
<1>6. CASE i < m
  <2>1. i <= m - 1
    BY <1>3, <1>6
  <2>2. Offsets[i] <= Offsets[m-1]
    BY <1>2, <1>3, <2>1, EndsGrow
  <2>3. ~(p <= Offsets[i]) /\ ~(m <= i)
    BY <1>1, <1>3, <1>4, <1>6, <2>2
  <2> QED BY <1>3, <2>3 DEF m
<1> QED BY <1>3, <1>5, <1>6

LEMMA PayloadLies ==
  ASSUME sent \in Streams, NEW p \in 1 .. Len(Input), NEW i \in 1 .. Len(sent),
         Offsets[i-1] < p, p <= Offsets[i]
  PROVE  /\ Input[p].msg = i
         /\ Input[p].part = "payload" => EndOf(i) < p
         /\ EndOf(i) < p /\ sent[i].data => Input[p].part = "payload"
<1> DEFINE o == Offsets[i-1]
           a == Ahead(i)
           e == EndOf(i)
<1>1. o \in Nat /\ Fitting(Input[p], p, i, o, a)
  BY ByteIs
<1>2. e \in Nat /\ e <= o + a /\ (sent[i].data => e = o + a)
  BY EndOfIs
<1>3. a \in Nat /\ p \in Nat
  BY SizesAre, OffsetsAre
<1>4. Input[p].msg = i /\ (Input[p].part = "payload" <=> o + a < p)
  BY <1>1 DEF Fitting
<1> HIDE DEF o, a, e
<1>5. Input[p].part = "payload" => e < p
  BY <1>1, <1>2, <1>3, <1>4
<1>6. e < p /\ sent[i].data => Input[p].part = "payload"
  BY <1>2, <1>4
<1> QED BY <1>4, <1>5, <1>6 DEF e

LEMMA StepHeard ==
  ASSUME ParserTyped, Reached, Heard, [ParserNext]_parserVars, ~dropped'
  PROVE  Heard'
<1>1. sent' = sent /\ Input' = Input /\ Offsets' = Offsets
  BY InputStays
<1>2. /\ sent \in Streams /\ Len(sent) \in Nat /\ handled \in Seq(1 .. Len(sent))
      /\ Len(handled) \in Nat /\ Here \in Nat /\ Here >= 1 /\ Len(Input) \in Nat
      /\ audio \in Seq(Nat) /\ Len(audio) \in Nat /\ DOMAIN audio = 1 .. Len(audio)
      /\ \A k \in 1 .. Len(audio) : audio[k] \in 1 .. Len(Input)
  <2>1. audio \in Seq(1 .. arrived) /\ arrived \in Nat /\ arrived <= Len(Input) /\ Len(Input) \in Nat
    BY ParserFacts
  <2>2. audio \in Seq(Nat) /\ \A k \in 1 .. Len(audio) : audio[k] \in 1 .. Len(Input)
    BY <2>1
  <2> QED BY <2>1, <2>2, ParserFacts
<1> DEFINE c == Len(handled)
<1>3. c <= Len(sent) /\ \A i \in 1 .. c : handled[i] = i
  BY DEF Reached
<1>4. /\ \A i, j \in DOMAIN audio : audio[i] = audio[j] => i = j
      /\ \A p \in 1 .. Len(Input) : (\E k \in DOMAIN audio : audio[k] = p) <=> IsHeard(p)
  BY DEF Heard
<1>5. ASSUME audio' = audio, \A p \in 1 .. Len(Input) : IsHeard(p)' <=> IsHeard(p)
      PROVE  Heard'
  BY <1>1, <1>4, <1>5 DEF Heard
<1>6. CASE StaysHere
  <2>1. \A p : IsHeard(p)' <=> IsHeard(p)
    BY <1>1, <1>6 DEF StaysHere, IsHeard
  <2> QED BY <1>5, <1>6, <2>1 DEF StaysHere
<1>7. CASE OverNewline
  <2>1. /\ handled' = handled /\ audio' = audio /\ Here' = Here + 1
        /\ Input[Here].part = "newline"
    BY <1>7 DEF OverNewline
  <2>2. ASSUME NEW p \in 1 .. Len(Input) PROVE p < Here' /\ Input[p].part = "payload" <=> p < Here /\ Input[p].part = "payload"
    BY <1>2, <2>1
  <2>3. \A p \in 1 .. Len(Input) : IsHeard(p)' <=> IsHeard(p)
    BY <1>1, <2>1, <2>2 DEF IsHeard
  <2> QED BY <1>5, <2>1, <2>3
<1>8. CASE OverMessage
  <2> DEFINE i == c + 1
  <2>1. /\ i \in 1 .. Len(sent) /\ handled' = Append(handled, i)
        /\ audio' = IF sent[i].type = "audio-start" THEN << >> ELSE audio
        /\ Here = Offsets[c] + 1 /\ Here' = EndOf(i) + 1
    BY <1>8 DEF OverMessage
  <2>2. Len(handled') = i /\ i \in Nat /\ i - 1 = c /\ c \in 0 .. Len(sent) /\ i \in 0 .. Len(sent)
    BY <1>2, <1>3, <2>1
  <2>3. i \in 1 .. Len(sent) /\ \A x \in 1 .. i : x # i => x \in 1 .. c
    BY <1>2, <2>1
  <2> HIDE DEF i, c
  <2>4. /\ Offsets[c] \in Nat /\ EndOf(i) \in Nat /\ Offsets[c] + 1 < EndOf(i) /\ EndOf(i) <= Offsets[i]
        /\ Offsets[i] \in Nat
    <3>1. Offsets[c] \in Nat /\ Offsets[i] \in Nat
      BY <1>2, <2>2, OffsetsAre
    <3>2. EndOf(i) \in Nat /\ Offsets[i-1] + 1 < EndOf(i) /\ EndOf(i) <= Offsets[i]
      BY <1>2, <2>3, EndOfIs
    <3> QED BY <2>2, <3>1, <3>2
  <2>5. ASSUME NEW p \in 1 .. Len(Input)
        PROVE  p < Here' /\ Input[p].part = "payload" <=> p < Here /\ Input[p].part = "payload"
    <3>1. CASE p <= Offsets[c]
      <4>1. p \in Nat
        BY <1>2
      <4>2. p < Here /\ p < Here'
        BY <2>1, <2>4, <3>1, <4>1
      <4> QED BY <4>2
    <3>2. CASE Offsets[c] < p /\ p <= Offsets[i]
      <4>1. Offsets[i-1] < p
        BY <2>2, <3>2
      <4>2. Input[p].part = "payload" => EndOf(i) < p
        BY <1>2, <2>3, <3>2, <4>1, PayloadLies
      <4> QED BY <1>2, <2>1, <2>4, <3>2, <4>2
    <3>3. CASE Offsets[i] < p
      <4>1. p \in Nat /\ EndOf(i) < p /\ Offsets[c] < p
        BY <1>2, <2>4, <3>3
      <4>2. ~(p < Here) /\ ~(p < Here')
        BY <2>1, <2>4, <4>1
      <4> QED BY <4>2
    <3> QED BY <1>2, <2>4, <3>1, <3>2, <3>3
  <2>6. CASE sent[i].type = "audio-start"
    <3>1. ASSUME NEW p \in 1 .. Len(Input) PROVE ~ IsHeard(p)'
      <4> SUFFICES ASSUME IsHeard(p)' PROVE FALSE
        OBVIOUS
      <4>1. p < Here' /\ i < Input[p].msg
        BY <1>1, <2>2, <2>3, <2>6 DEF IsHeard
      <4>2. p <= Offsets[i]
        BY <1>2, <2>1, <2>4, <4>1
      <4>3. Input[p].msg \in Nat /\ (Input[p].msg <= i <=> p <= Offsets[i])
        BY <1>2, <2>2, BytesUpTo
      <4> QED BY <2>2, <4>1, <4>2, <4>3
    <3>2. audio' = << >>
      BY <2>1, <2>6
    <3> QED BY <1>1, <3>1, <3>2 DEF Heard
  <2>7. CASE sent[i].type # "audio-start"
    <3>1. audio' = audio
      BY <2>1, <2>7
    <3>2. (\A x \in 1 .. i : x = i \/ x \in 1 .. c) /\ \A x \in 1 .. c : x \in 1 .. i
      BY <1>2, <2>2 DEF c
    <3>3. ASSUME NEW p \in 1 .. Len(Input)
          PROVE  (\A x \in 1 .. Len(handled') : sent[x].type = "audio-start" => x < Input[p].msg)
                   <=> (\A x \in 1 .. Len(handled) : sent[x].type = "audio-start" => x < Input[p].msg)
      BY <2>2, <2>7, <3>2 DEF c
    <3>4. \A p \in 1 .. Len(Input) : IsHeard(p)' <=> IsHeard(p)
      BY <1>1, <2>5, <3>3 DEF IsHeard
    <3> QED BY <1>5, <3>1, <3>4
  <2> QED BY <2>6, <2>7
<1>9. CASE OverPayload
  <2> DEFINE n == PayloadHere
             more == [k \in 1 .. n |-> Here + k - 1]
  <2>1. n \in Nat /\ n <= expected - received /\ expected \in Nat /\ received \in Nat
    BY PayloadHereIs, ParserFacts DEF ParserTyped
  <2>2. handled' = handled /\ audio' = audio \o more /\ parse_state = "binary" /\ Here' = Here + n
    BY <1>9 DEF OverPayload
  <2>3. /\ c > 0 /\ received < expected /\ expected = sent[c].payload
        /\ Here + (expected - received) = Offsets[c] + 1
    BY <2>2 DEF Reached
  <2>4. more \in Seq(Nat) /\ Len(more) = n /\ \A k \in 1 .. n : more[k] = Here + k - 1
    BY <1>2, <2>1
  <2>5. c \in 1 .. Len(sent)
    BY <1>2, <1>3, <2>3
  <2> HIDE DEF n, more, c
  <2>6. /\ EndOf(c) \in Nat /\ sent[c].data /\ sent[c].type = "audio-chunk" /\ Offsets[c] = EndOf(c) + expected
        /\ Offsets[c-1] \in Nat /\ Offsets[c-1] < EndOf(c) /\ Offsets[c] \in Nat /\ Offsets[c] <= Len(Input)
    <3>1. sent[c].payload > 0
      BY <2>1, <2>3
    <3>2. /\ EndOf(c) \in Nat /\ sent[c].data /\ sent[c].type = "audio-chunk" /\ Offsets[c-1] + 1 < EndOf(c)
          /\ Offsets[c] = EndOf(c) + expected
      BY <1>2, <2>3, <2>5, <3>1, EndOfIs
    <3>3. Offsets[c-1] \in Nat
      BY <1>2, <2>5, OffsetsAre
    <3>4. Offsets[c] <= Len(Input) /\ Offsets[c] \in Nat
      <4>1. Ends(Offsets, Len(sent)) /\ Len(Input) = Offsets[Len(sent)]
        BY <1>2, InputIs
      <4>2. c \in 0 .. Len(sent) /\ Len(sent) \in 0 .. Len(sent) /\ c <= Len(sent)
        BY <1>2, <2>5
      <4>3. Offsets[c] <= Offsets[Len(sent)]
        BY <1>2, <4>1, <4>2, EndsGrow
      <4> QED BY <4>1, <4>2, <4>3 DEF Ends
    <3> QED BY <3>2, <3>3, <3>4
  <2>7. Here = EndOf(c) + 1 + received /\ Here + n <= Offsets[c] + 1
    <3> DEFINE f == Offsets[c]
               e == EndOf(c)
    <3>1. /\ Here \in Nat /\ n \in Nat /\ expected \in Nat /\ received \in Nat /\ e \in Nat /\ f \in Nat
          /\ n <= expected - received
      BY <1>2, <2>1, <2>6
    <3>2. Here + (expected - received) = f + 1 /\ f = e + expected
      BY <2>3, <2>6
    <3> HIDE DEF e, f
    <3>3. Here = e + 1 + received /\ Here + n <= f + 1
      BY <3>1, <3>2
    <3> QED BY <3>3 DEF e, f
  <2>8. ASSUME NEW p \in Nat, Here <= p, p < Here + n
        PROVE  p \in 1 .. Len(Input) /\ Input[p].part = "payload" /\ Input[p].msg = c
    <3>1. EndOf(c) < p /\ Offsets[c-1] < p /\ p <= Offsets[c] /\ p \in 1 .. Len(Input)
      <4> DEFINE f == Offsets[c]
                 e == EndOf(c)
                 o == Offsets[c-1]
      <4>1. /\ Here \in Nat /\ n \in Nat /\ received \in Nat /\ e \in Nat /\ f \in Nat /\ o \in Nat
            /\ o < e /\ f <= Len(Input) /\ Len(Input) \in Nat
        BY <1>2, <2>1, <2>6
      <4>2. Here = e + 1 + received /\ Here + n <= f + 1
        BY <2>7
      <4> HIDE DEF e, f, o
      <4>3. e < p /\ o < p /\ p <= f /\ p \in 1 .. Len(Input)
        BY <2>8, <4>1, <4>2
      <4> QED BY <4>3 DEF e, f, o
    <3> QED BY <1>2, <2>5, <2>6, <3>1, PayloadLies
  <2>9. ASSUME NEW p \in 1 .. Len(Input)
        PROVE  IsHeard(p)' <=> IsHeard(p) \/ (Here <= p /\ p < Here + n)
    <3>1. CASE p < Here
      <4>1. p < Here' /\ ~(Here <= p)
        BY <1>2, <2>1, <2>2, <3>1
      <4> QED BY <1>1, <2>2, <3>1, <4>1 DEF IsHeard
    <3>2. CASE Here <= p /\ p < Here + n
      <4>1. Input[p].part = "payload" /\ Input[p].msg = c
        BY <1>2, <2>8, <3>2
      <4>2. \A i \in 1 .. Len(handled) : sent[i].type = "audio-start" => i < Input[p].msg
        BY <1>2, <2>5, <2>6, <4>1 DEF c
      <4> QED BY <1>1, <2>2, <3>2, <4>1, <4>2 DEF IsHeard
    <3>3. CASE Here + n <= p
      <4>1. ~(p < Here') /\ ~(p < Here) /\ ~(p < Here + n)
        BY <1>2, <2>1, <2>2, <3>3
      <4> QED BY <4>1 DEF IsHeard
    <3> QED BY <1>2, <2>1, <3>1, <3>2, <3>3
  <2>10. /\ audio' \in Seq(Nat) /\ Len(audio') = Len(audio) + n /\ DOMAIN audio' = 1 .. Len(audio) + n
         /\ \A k \in 1 .. Len(audio) : audio'[k] = audio[k]
         /\ \A k \in 1 .. n : audio'[Len(audio) + k] = Here + k - 1
    BY <1>2, <2>1, <2>2, <2>4
  <2>11. ASSUME NEW k \in 1 .. Len(audio) PROVE audio[k] \in Nat /\ audio[k] < Here
    <3>1. audio[k] \in 1 .. Len(Input) /\ k \in DOMAIN audio
      BY <1>2
    <3>2. IsHeard(audio[k])
      BY <1>4, <3>1
    <3> QED BY <3>1, <3>2 DEF IsHeard
  <2>12. ASSUME NEW k \in DOMAIN audio'
         PROVE  \/ k \in 1 .. Len(audio) /\ audio'[k] = audio[k]
                \/ \E l \in 1 .. n : k = Len(audio) + l /\ audio'[k] = Here + l - 1
    <3>1. CASE k <= Len(audio)
      BY <1>2, <2>10, <3>1
    <3>2. CASE k > Len(audio)
      <4>1. k - Len(audio) \in 1 .. n /\ k = Len(audio) + (k - Len(audio))
        BY <1>2, <2>1, <2>10, <3>2
      <4> QED BY <2>10, <4>1
    <3> QED BY <1>2, <2>10, <3>1, <3>2
  <2>13. ASSUME NEW k \in DOMAIN audio', NEW l \in DOMAIN audio', audio'[k] = audio'[l]
         PROVE  k = l
    <3>1. CASE k \in 1 .. Len(audio) /\ audio'[k] = audio[k] /\ l \in 1 .. Len(audio) /\ audio'[l] = audio[l]
      BY <1>2, <1>4, <2>13, <3>1
    <3>2. ASSUME NEW x \in 1 .. Len(audio), NEW y \in 1 .. n PROVE audio[x] # Here + y - 1
      BY <1>2, <2>1, <2>11
    <3>3. CASE k \in 1 .. Len(audio) /\ audio'[k] = audio[k]
      <4>1. CASE \E y \in 1 .. n : l = Len(audio) + y /\ audio'[l] = Here + y - 1
        BY <2>13, <3>2, <3>3, <4>1
      <4> QED BY <2>12, <3>1, <3>3, <4>1
    <3>4. CASE \E x \in 1 .. n : k = Len(audio) + x /\ audio'[k] = Here + x - 1
      <4>1. PICK x \in 1 .. n : k = Len(audio) + x /\ audio'[k] = Here + x - 1
        BY <3>4
      <4>2. CASE l \in 1 .. Len(audio) /\ audio'[l] = audio[l]
        BY <2>13, <3>2, <4>1, <4>2
      <4>3. CASE \E y \in 1 .. n : l = Len(audio) + y /\ audio'[l] = Here + y - 1
        BY <1>2, <2>1, <2>13, <4>1, <4>3
      <4> QED BY <2>12, <4>2, <4>3
    <3> QED BY <2>12, <3>3, <3>4
  <2>14. ASSUME NEW p \in 1 .. Len(Input)
         PROVE  (\E k \in DOMAIN audio' : audio'[k] = p)
                  <=> (\E k \in DOMAIN audio : audio[k] = p) \/ (Here <= p /\ p < Here + n)
    <3>1. ASSUME NEW k \in DOMAIN audio', audio'[k] = p
          PROVE  (\E l \in DOMAIN audio : audio[l] = p) \/ (Here <= p /\ p < Here + n)
      BY <1>2, <2>1, <2>12, <3>1
    <3>2. ASSUME NEW k \in DOMAIN audio, audio[k] = p PROVE \E l \in DOMAIN audio' : audio'[l] = p
      <4>1. k \in DOMAIN audio' /\ audio'[k] = audio[k]
        BY <1>2, <2>1, <2>10
      <4> QED BY <3>2, <4>1
    <3>3. ASSUME Here <= p, p < Here + n PROVE \E l \in DOMAIN audio' : audio'[l] = p
      <4> DEFINE k == p - Here + 1
      <4>1. k \in 1 .. n /\ Here + k - 1 = p /\ Len(audio) + k \in DOMAIN audio'
        BY <1>2, <2>1, <2>10, <3>3
      <4> HIDE DEF k
      <4>2. audio'[Len(audio) + k] = p
        BY <2>10, <4>1
      <4> QED BY <4>1, <4>2
    <3> QED BY <3>1, <3>2, <3>3
  <2>15. \A p \in 1 .. Len(Input) : (\E k \in DOMAIN audio' : audio'[k] = p) <=> IsHeard(p)'
    BY <1>4, <2>9, <2>14
  <2> QED BY <1>1, <2>13, <2>15 DEF Heard
<1> QED BY <1>6, <1>7, <1>8, <1>9, StepsAre

LEMMA StepSettled ==
  ASSUME ParserTyped, Reached, Settled, [ParserNext]_parserVars, ~dropped'
  PROVE  Settled'
<1> SUFFICES ASSUME stage' = "poll"
             PROVE  first' = arrived' + 1 \/ NextNotHere'
  BY DEF Settled
<1>1. sent' = sent /\ Input' = Input /\ Offsets' = Offsets
  BY InputStays
<1>2. /\ first \in Nat /\ at \in Nat /\ arrived \in Nat /\ parse_state \in {"json", "binary"}
      /\ Len(handled) \in Nat
  BY ParserFacts
<1>3. ASSUME NEW n \in 1 .. MaxChunk, Receive(n) \/ ReceiveTooMuch(n) PROVE FALSE
  BY <1>3 DEF Receive, ReceiveTooMuch
<1>4. CASE NothingLeft
  BY <1>2, <1>4 DEF NothingLeft, Buffered
<1>5. CASE CopyPayload \/ CopyFails \/ BeginPass \/ SkipNewline \/ SkipUnknown \/ TakeMessage \/ TakeBareData
  BY <1>5 DEF CopyPayload, CopyFails, BeginPass, SkipNewline, SkipUnknown, TakeMessage, TakeBareData,
    AtHeader, InPass
<1>6. CASE TakeLastMessage
  BY <1>6 DEF TakeLastMessage
<1>7. CASE EndPass
  <2>1. /\ stage = "json" /\ PassIsOver /\ first' = at /\ ~parsed /\ at <= arrived
        /\ UNCHANGED <<sent, arrived, parse_state, handled>>
    BY <1>7 DEF EndPass
  <2>2. parse_state = "json"
    BY <1>2, <2>1 DEF Reached
  <2>3. InPass
    BY <2>1, <2>2 DEF InPass
  <2>4. AtHeader /\ ~MessageIsHere(at)
    BY <1>2, <2>1, <2>2, <2>3, NextIs DEF PassIsOver
  <2>5. /\ at = Offsets[Len(handled)] + 1 /\ Len(handled) + 1 \in 1 .. Len(sent)
        /\ MessageEnd(at) = EndOf(Len(handled) + 1)
    BY <2>3, <2>4, NextIs DEF AtHeader
  <2>6. EndOf(Len(handled) + 1) \in Nat /\ ~(EndOf(Len(handled) + 1) <= arrived)
    BY <2>4, <2>5, EndOfIs, ParserFacts DEF MessageIsHere
  <2>7. Len(handled) < Len(sent)
    <3>1. Len(sent) \in Nat
      BY ParserFacts
    <3> QED BY <1>2, <2>5, <3>1
  <2>8. arrived < EndOf(Len(handled) + 1)
    BY <1>2, <2>6
  <2> QED BY <1>1, <2>1, <2>2, <2>5, <2>7, <2>8 DEF NextNotHere, EndOf
<1>8. CASE UNCHANGED parserVars
  BY <1>1, <1>8 DEF parserVars, Settled, NextNotHere, EndOf
<1> QED BY <1>3, <1>4, <1>5, <1>6, <1>7, <1>8 DEF ParserNext, Parse, Quiet

LEMMA StepCutInv == CutInv /\ [ParserNext]_parserVars => CutInv'
<1> SUFFICES ASSUME CutInv, [ParserNext]_parserVars PROVE CutInv'
  OBVIOUS
<1>1. OrderInv'
  BY StepOrderInv DEF CutInv
<1>2. ~dropped' => ~dropped
  <2>1. ASSUME NEW n \in 1 .. MaxChunk, Receive(n) \/ ReceiveTooMuch(n), ~dropped' PROVE ~dropped
    BY <2>1 DEF Receive, ReceiveTooMuch
  <2>2. CASE TakeLastMessage
    <3>1. dropped' = (dropped \/ MessageEnd(at) < arrived)
      BY <2>2 DEF TakeLastMessage
    <3> QED BY <3>1, Zenon
  <2>3. CASE NothingLeft \/ CopyPayload \/ CopyFails \/ BeginPass \/ SkipNewline \/ SkipUnknown
             \/ TakeMessage \/ TakeBareData \/ EndPass
    BY <2>3 DEF NothingLeft, CopyPayload, CopyFails, BeginPass, SkipNewline, SkipUnknown, TakeMessage,
      TakeBareData, EndPass
  <2>4. CASE UNCHANGED parserVars
    BY <2>4 DEF parserVars
  <2> QED BY <2>1, <2>2, <2>3, <2>4 DEF ParserNext, Parse, Quiet
<1>3. ASSUME ~dropped' PROVE Reached' /\ Heard' /\ Settled'
  <2>1. ParserTyped /\ Reached /\ Heard /\ Settled
    BY <1>2, <1>3 DEF CutInv, OrderInv
  <2> QED BY <1>3, <2>1, StepReached, StepHeard, StepSettled
<1> QED BY <1>1, <1>3 DEF CutInv

LEMMA InitCutInv == ParserInit => CutInv
<1> SUFFICES ASSUME ParserInit PROVE CutInv
  OBVIOUS
<1>1. OrderInv
  BY InitOrderInv
<1>2. sent \in Streams /\ Len(sent) \in Nat /\ Offsets[0] = 0
  BY OffsetsAre DEF ParserInit
<1>3. Len(handled) = 0 /\ Here = 1 /\ DOMAIN audio = {}
  BY DEF ParserInit, Here
<1>4. Reached
  BY <1>2, <1>3 DEF ParserInit, Reached
<1>5. Settled
  BY DEF ParserInit, Settled
<1>6. Heard
  <2>1. \A p \in 1 .. Len(Input) : ~(p < Here)
    BY <1>2, <1>3, OffsetsAre
  <2> QED BY <1>3, <2>1 DEF Heard, IsHeard
<1> QED BY <1>1, <1>4, <1>5, <1>6 DEF CutInv

\* The messages whose header and data lie in the first n bytes are those that end there.
LEMMA CompleteIs ==
  ASSUME sent \in Streams, NEW n \in Nat
  PROVE  Complete(n) = {i \in 1 .. Len(sent) : EndOf(i) <= n}
<1> SUFFICES ASSUME NEW i \in 1 .. Len(sent)
             PROVE  EndOf(i) <= n <=>
                      \A p \in 1 .. Len(Input) :
                        Input[p].msg = i /\ Input[p].part \in {"header", "data"} => p <= n
  BY DEF Complete
<1> DEFINE o == Offsets[i-1]
           a == Ahead(i)
           e == EndOf(i)
<1>1. /\ HeaderSize \in Nat /\ HeaderSize > 1 /\ DataSize \in Nat /\ DataSize > 1
      /\ sent[i].data \in BOOLEAN /\ a = HeaderSize + 1 + DataOf(i)
      /\ sent[i].data => DataOf(i) = DataSize
      /\ ~sent[i].data => DataOf(i) = 0
  BY SizesAre
<1>2. o \in Nat /\ Offsets[i] \in Nat /\ Len(Input) \in Nat /\ i - 1 \in 0 .. Len(sent) /\ i \in 0 .. Len(sent)
      /\ Len(sent) \in Nat
  BY OffsetsAre
<1>3. e \in Nat /\ o + 1 < e /\ e <= Offsets[i] /\ (sent[i].data => e = o + a)
  BY EndOfIs
<1>4. ~sent[i].data => e = o + HeaderSize
  BY <1>1, <1>2 DEF EndOf
<1>5. Offsets[i] <= Len(Input)
  <2>1. Ends(Offsets, Len(sent)) /\ Len(Input) = Offsets[Len(sent)]
    BY InputIs
  <2>2. Len(sent) \in 0 .. Len(sent) /\ i <= Len(sent)
    BY <1>2
  <2> QED BY <1>2, <2>1, <2>2, EndsGrow
<1>6. ASSUME NEW p \in 1 .. Len(Input), Input[p].msg = i PROVE Fitting(Input[p], p, i, o, a)
  <2>1. Offsets[i-1] < p /\ p <= Offsets[i]
    BY <1>6, ByteOfMessage
  <2> QED BY <2>1, ByteIs
<1>7. e \in 1 .. Len(Input) /\ Fitting(Input[e], e, i, o, a)
  <2>1. e \in 1 .. Len(Input) /\ Offsets[i-1] < e /\ e <= Offsets[i]
    BY <1>2, <1>3, <1>5
  <2> QED BY <2>1, ByteIs
<1> HIDE DEF o, a, e
<1>8. Input[e].msg = i /\ Input[e].part \in {"header", "data"}
  <2>1. CASE sent[i].data
    <3>1. o + HeaderSize + 1 < e /\ e <= o + a
      BY <1>1, <1>2, <1>3, <2>1
    <3> QED BY <1>7, <3>1 DEF Fitting
  <2>2. CASE ~sent[i].data
    <3>1. e <= o + HeaderSize
      BY <1>1, <1>2, <1>4, <2>2
    <3> QED BY <1>7, <3>1 DEF Fitting
  <2> QED BY <1>1, <2>1, <2>2
<1>9. ASSUME NEW p \in 1 .. Len(Input), Input[p].msg = i, Input[p].part \in {"header", "data"}
      PROVE  p <= e
  <2>1. p \in Nat /\ (p <= o + HeaderSize \/ (o + HeaderSize + 1 < p /\ p <= o + a))
    BY <1>2, <1>6, <1>9 DEF Fitting
  <2>2. CASE sent[i].data
    BY <1>1, <1>2, <1>3, <2>1, <2>2
  <2>3. CASE ~sent[i].data
    BY <1>1, <1>2, <1>4, <2>1, <2>3
  <2> QED BY <1>1, <2>2, <2>3
<1>10. ASSUME e <= n, NEW p \in 1 .. Len(Input), Input[p].msg = i, Input[p].part \in {"header", "data"}
       PROVE  p <= n
  BY <1>2, <1>3, <1>9, <1>10
<1> QED BY <1>7, <1>8, <1>10 DEF e

\* Where the parser is: behind the header and data of the last message handled, and not
\* behind its end.
LEMMA HereIs ==
  ASSUME ParserTyped, Reached
  PROVE  /\ Len(handled) \in 0 .. Len(sent) /\ Here <= Offsets[Len(handled)] + 1
         /\ Len(handled) > 0 => EndOf(Len(handled)) < Here
<1> DEFINE c == Len(handled)
<1>1. /\ sent \in Streams /\ Len(sent) \in Nat /\ c \in Nat /\ Here \in Nat
      /\ expected \in Nat /\ received \in Nat /\ parse_state \in {"json", "binary"}
  BY ParserFacts
<1>2. c <= Len(sent) /\ c \in 0 .. Len(sent)
  BY <1>1 DEF Reached
<1>3. Offsets[c] \in Nat
  BY <1>1, <1>2, OffsetsAre
<1>4. CASE c > 0
  <2>1. c \in 1 .. Len(sent)
    BY <1>1, <1>2, <1>4
  <2>2. /\ parse_state = "json" => Here = Offsets[c] + 1 \/ (~sent[c].data /\ Here = Offsets[c])
        /\ parse_state = "binary" =>
             received < expected /\ expected = sent[c].payload /\ Here + (expected - received) = Offsets[c] + 1
    BY DEF Reached
  <2> HIDE DEF c
  <2> DEFINE e == EndOf(c)
             f == Offsets[c]
  <2>3. e \in Nat /\ e <= f /\ (~sent[c].data => f = e + 1)
    BY <1>1, <2>1, EndOfIs
  <2>4. sent[c].payload > 0 => f = e + sent[c].payload
    BY <1>1, <2>1, EndOfIs
  <2> HIDE DEF e, f
  <2>5. CASE parse_state = "json"
    <3>1. e < Here /\ Here <= f + 1
      <4>1. f \in Nat /\ (Here = f + 1 \/ (~sent[c].data /\ Here = f))
        BY <1>3, <2>2, <2>5 DEF f
      <4> QED BY <1>1, <2>3, <4>1
    <3> QED BY <1>2, <3>1 DEF e, f, c
  <2>6. CASE parse_state = "binary"
    <3>1. expected > 0 /\ expected = sent[c].payload /\ Here + (expected - received) = f + 1
          /\ received < expected /\ f \in Nat
      BY <1>1, <1>3, <2>2, <2>6 DEF f
    <3>2. f = e + expected
      BY <2>4, <3>1
    <3>3. e < Here /\ Here <= f + 1
      <4>1. e \in Nat /\ f \in Nat /\ Here \in Nat /\ expected \in Nat /\ received \in Nat
        BY <1>1, <2>3, <3>1
      <4>2. received < expected /\ Here + (expected - received) = f + 1
        BY <3>1
      <4> QED BY <3>2, <4>1, <4>2
    <3> QED BY <1>2, <3>3 DEF e, f, c
  <2> QED BY <1>1, <2>5, <2>6
<1>5. CASE c = 0
  <2>1. parse_state = "json" => Here = Offsets[c] + 1
    BY <1>5 DEF Reached
  <2>2. parse_state = "json"
    BY <1>1, <1>5 DEF Reached
  <2> QED BY <1>1, <1>2, <1>3, <1>5, <2>1, <2>2
<1> QED BY <1>1, <1>4, <1>5

\* Between two polls, what was handled ends in what has arrived, and nothing else does.
LEMMA HandledIsComplete ==
  ASSUME ParserTyped, Reached, Settled, stage = "poll"
  PROVE  Complete(arrived) = 1 .. Len(handled)
<1> DEFINE c == Len(handled)
<1>1. /\ sent \in Streams /\ Len(sent) \in Nat /\ c \in Nat /\ arrived \in Nat /\ Here \in Nat
      /\ Here <= arrived + 1 /\ Here = first
  BY ParserFacts DEF Here
<1>2. c \in 0 .. Len(sent) /\ Here <= Offsets[c] + 1 /\ (c > 0 => EndOf(c) < Here)
  BY HereIs
<1>3. Ends(Offsets, Len(sent))
  BY <1>1, InputIs
<1>4. \A i \in 0 .. Len(sent) : Offsets[i] \in Nat
  BY <1>1, OffsetsAre
<1>5. \A i \in 1 .. Len(sent) :
        EndOf(i) \in Nat /\ Offsets[i-1] + 1 < EndOf(i) /\ EndOf(i) <= Offsets[i]
  BY <1>1, EndOfIs
<1>6. first = arrived + 1 \/ (c < Len(sent) /\ arrived < EndOf(c + 1))
  BY DEF Settled, NextNotHere
<1> HIDE DEF c
<1>7. ASSUME NEW i \in 1 .. Len(sent), i <= c PROVE EndOf(i) <= arrived
  <2>1. c \in 1 .. Len(sent) /\ c > 0 /\ i \in 0 .. Len(sent)
    BY <1>1, <1>2, <1>7
  <2>2. EndOf(c) <= arrived /\ EndOf(c) \in Nat
    BY <1>1, <1>2, <1>5, <2>1
  <2>3. CASE i = c
    BY <2>2, <2>3
  <2>4. CASE i < c
    <3>1. i <= c - 1 /\ c - 1 \in 0 .. Len(sent)
      BY <1>1, <2>1, <2>4
    <3>2. Offsets[i] <= Offsets[c-1]
      BY <1>1, <1>3, <2>1, <3>1, EndsGrow
    <3>3. EndOf(i) \in Nat /\ EndOf(i) <= Offsets[i] /\ Offsets[c-1] + 1 < EndOf(c)
      BY <1>5, <2>1
    <3>4. Offsets[i] \in Nat /\ Offsets[c-1] \in Nat
      BY <1>4, <2>1, <3>1
    <3> QED BY <1>1, <2>2, <3>2, <3>3, <3>4
  <2> QED BY <1>1, <1>7, <2>3, <2>4
<1>8. ASSUME NEW i \in 1 .. Len(sent), c < i PROVE arrived < EndOf(i)
  <2>1. c <= i - 1 /\ i - 1 \in 0 .. Len(sent)
    BY <1>1, <1>8
  <2>2. Offsets[c] <= Offsets[i-1]
    BY <1>1, <1>2, <1>3, <2>1, EndsGrow
  <2>3. EndOf(i) \in Nat /\ Offsets[i-1] + 1 < EndOf(i)
    BY <1>5
  <2>4. Offsets[c] \in Nat /\ Offsets[i-1] \in Nat
    BY <1>2, <1>4, <2>1
  <2>5. CASE first = arrived + 1
    BY <1>1, <1>2, <2>2, <2>3, <2>4, <2>5
  <2>6. CASE c < Len(sent) /\ arrived < EndOf(c + 1)
    <3>1. CASE i = c + 1
      BY <2>6, <3>1
    <3>2. CASE c + 1 < i
      <4> DEFINE d == c + 1
      <4>1. d <= i - 1 /\ d \in 0 .. Len(sent) /\ d \in 1 .. Len(sent) /\ arrived < EndOf(d)
        BY <1>1, <2>6, <3>2
      <4> HIDE DEF d
      <4>2. Offsets[d] <= Offsets[i-1]
        BY <1>1, <1>3, <2>1, <4>1, EndsGrow
      <4>3. EndOf(d) \in Nat /\ EndOf(d) <= Offsets[d] /\ Offsets[d] \in Nat
        BY <1>4, <1>5, <4>1
      <4> QED BY <1>1, <2>3, <2>4, <4>1, <4>2, <4>3
    <3> QED BY <1>1, <1>8, <3>1, <3>2
  <2> QED BY <1>6, <2>5, <2>6
<1>9. Complete(arrived) = {i \in 1 .. Len(sent) : EndOf(i) <= arrived}
  BY <1>1, CompleteIs
<1>10. ASSUME NEW i \in 1 .. Len(sent) PROVE EndOf(i) <= arrived <=> i <= c
  <2>1. EndOf(i) \in Nat
    BY <1>5
  <2> QED BY <1>1, <1>7, <1>8, <2>1
<1>11. Complete(arrived) = 1 .. c
  BY <1>1, <1>2, <1>9, <1>10
<1> QED BY <1>11 DEF c

LEMMA MaxIs ==
  ASSUME NEW n \in Nat, NEW S \in SUBSET (1 .. n), S # {}
  PROVE  Max(S) \in S /\ \A k \in S : k <= Max(S)
<1> DEFINE U == {m \in Nat : \A k \in S : k <= m}
<1>1. U \in SUBSET Nat /\ n \in U
  OBVIOUS
<1>2. PICK u \in U : \A v \in U : u <= v
  <2> HIDE DEF U
  <2> QED BY <1>1, Least
<1>3. u \in S
  <2> SUFFICES ASSUME u \notin S PROVE FALSE
    OBVIOUS
  <2>1. u \in Nat /\ \A k \in S : k <= u /\ k # u /\ k \in Nat /\ k >= 1
    BY <1>2
  <2>2. u - 1 \in Nat /\ \A k \in S : k <= u - 1
    <3>1. ASSUME NEW k \in S PROVE k <= u - 1 /\ u - 1 \in Nat
      BY <2>1
    <3> QED BY <3>1
  <2>3. u - 1 \in U
    BY <2>2
  <2> QED BY <1>2, <2>1, <2>3
<1>4. \E x \in S : \A y \in S : x >= y
  BY <1>2, <1>3
<1>5. Max(S) \in S /\ \A y \in S : Max(S) >= y
  BY <1>4 DEF Max
<1> QED BY <1>5

\* Between two polls, the payload that has arrived is what was heard.
LEMMA PayloadIsHeard ==
  ASSUME ParserTyped, Reached, Settled, stage = "poll"
  PROVE  Payload(arrived) = {p \in 1 .. Len(Input) : IsHeard(p)}
<1> DEFINE c == Len(handled)
           starts == {i \in Complete(arrived) : sent[i].type = "audio-start"}
           from == IF starts = {} THEN 0 ELSE Max(starts)
<1>1. /\ sent \in Streams /\ Len(sent) \in Nat /\ c \in Nat /\ arrived \in Nat /\ Here \in Nat
      /\ Here <= arrived + 1 /\ Here = first /\ Len(Input) \in Nat /\ arrived <= Len(Input)
  BY ParserFacts DEF Here
<1>2. starts = {i \in 1 .. c : sent[i].type = "audio-start"}
  BY HandledIsComplete
<1>3. Payload(arrived) = {p \in 1 .. arrived : Input[p].part = "payload" /\ Input[p].msg > from}
  BY DEF Payload
<1>4. ASSUME NEW p \in 1 .. Len(Input)
      PROVE  Input[p].msg > from <=> \A i \in 1 .. c : sent[i].type = "audio-start" => i < Input[p].msg
  <2>1. Input[p].msg \in 1 .. Len(sent)
    BY <1>1, ByteOfMessage
  <2>2. CASE starts = {}
    BY <1>1, <1>2, <2>1, <2>2
  <2>3. CASE starts # {}
    <3>1. starts \in SUBSET (1 .. c)
      BY <1>2
    <3>2. from = Max(starts)
      BY <2>3
    <3>3. \A i \in 1 .. c : i \in starts <=> sent[i].type = "audio-start"
      BY <1>2
    <3> HIDE DEF starts, from, c
    <3>4. from \in starts /\ \A k \in starts : k <= from
      BY <1>1, <2>3, <3>1, <3>2, MaxIs
    <3>5. from \in 1 .. c /\ sent[from].type = "audio-start"
      BY <3>1, <3>3, <3>4
    <3> QED BY <1>1, <2>1, <3>1, <3>3, <3>4, <3>5
  <2> QED BY <2>2, <2>3
<1> HIDE DEF from, starts
<1>5. ASSUME NEW p \in 1 .. Len(Input), Input[p].part = "payload" PROVE p <= arrived <=> p < Here
  <2>1. CASE first = arrived + 1
    BY <1>1, <2>1
  <2>2. CASE NextNotHere
    <3> DEFINE i == c + 1
    <3>1. first = Offsets[c] + 1 /\ arrived < EndOf(i) /\ i \in 1 .. Len(sent) /\ i - 1 = c
          /\ c \in 0 .. Len(sent) /\ i \in 0 .. Len(sent)
      BY <1>1, <2>2 DEF NextNotHere
    <3> HIDE DEF i, c
    <3>2. Offsets[c] \in Nat /\ EndOf(i) \in Nat /\ EndOf(i) <= Offsets[i] /\ Offsets[i] \in Nat
      BY <1>1, <3>1, OffsetsAre, EndOfIs
    <3>3. ASSUME Here <= p, p <= arrived PROVE FALSE
      <4>1. Offsets[i-1] < p /\ p <= Offsets[i]
        BY <1>1, <3>1, <3>2, <3>3
      <4>2. EndOf(i) < p
        BY <1>1, <1>5, <3>1, <4>1, PayloadLies
      <4> QED BY <1>1, <3>1, <3>2, <3>3, <4>2
    <3> QED BY <1>1, <3>3
  <2> QED BY <2>1, <2>2 DEF Settled
<1>6. ASSUME NEW p PROVE p \in Payload(arrived) <=> p \in 1 .. Len(Input) /\ IsHeard(p)
  <2>1. p \in 1 .. arrived <=> p \in 1 .. Len(Input) /\ p <= arrived
    BY <1>1
  <2> QED BY <1>3, <1>4, <1>5, <2>1 DEF IsHeard
<1> QED BY <1>6

LEMMA CountedFromOne ==
  ASSUME NEW n \in Nat
  PROVE  IsFiniteSet(1 .. n) /\ Cardinality(1 .. n) = n
<1>1. 1 \in Int /\ n \in Int
  OBVIOUS
<1>2. IsFiniteSet(1 .. n) /\ Cardinality(1 .. n) = IF 1 > n THEN 0 ELSE n - 1 + 1
  BY <1>1, FS_Interval
<1> QED BY <1>2

LEMMA CutInvIsEnough == CutInv => CutsDoNotMatter
<1> SUFFICES ASSUME CutInv, stage = "poll", ~dropped
             PROVE  /\ handled = [i \in 1 .. Cardinality(Complete(arrived)) |-> i]
                    /\ ToSet(audio) = Payload(arrived) /\ Len(audio) = Cardinality(Payload(arrived))
  BY DEF CutsDoNotMatter
<1>1. ParserTyped /\ Reached /\ Heard /\ Settled
  BY DEF CutInv, OrderInv
<1>2. /\ handled \in Seq(1 .. Len(sent)) /\ Len(handled) \in Nat /\ audio \in Seq(1 .. arrived)
      /\ Len(audio) \in Nat /\ arrived \in Nat /\ arrived <= Len(Input) /\ Len(Input) \in Nat
  BY <1>1, ParserFacts
<1>3. handled = [i \in 1 .. Cardinality(Complete(arrived)) |-> i]
  <2>1. Complete(arrived) = 1 .. Len(handled)
    BY <1>1, HandledIsComplete
  <2>2. Cardinality(1 .. Len(handled)) = Len(handled)
    BY <1>2, CountedFromOne
  <2>3. \A i \in 1 .. Len(handled) : handled[i] = i
    BY <1>1 DEF Reached
  <2>4. handled = [i \in 1 .. Len(handled) |-> handled[i]]
    BY <1>2
  <2> QED BY <2>1, <2>2, <2>3, <2>4
<1>4. ToSet(audio) = Payload(arrived)
  <2>1. Payload(arrived) = {p \in 1 .. Len(Input) : IsHeard(p)}
    BY <1>1, PayloadIsHeard
  <2>2. \A p \in 1 .. Len(Input) : (\E k \in DOMAIN audio : audio[k] = p) <=> IsHeard(p)
    BY <1>1 DEF Heard
  <2>3. \A k \in DOMAIN audio : audio[k] \in 1 .. Len(Input)
    BY <1>2
  <2>4. ToSet(audio) = {audio[k] : k \in DOMAIN audio}
    BY DEF ToSet
  <2> QED BY <2>1, <2>2, <2>3, <2>4
<1>5. Len(audio) = Cardinality(ToSet(audio))
  <2> DEFINE n == Len(audio)
             T == ToSet(audio)
  <2>1. DOMAIN audio = 1 .. n /\ T = {audio[k] : k \in DOMAIN audio}
    BY <1>2 DEF ToSet
  <2>2. \A i, j \in DOMAIN audio : audio[i] = audio[j] => i = j
    BY <1>1 DEF Heard
  <2>3. audio \in [1 .. n -> T]
    BY <1>2, <2>1
  <2> HIDE DEF T, n
  <2>4. audio \in Bijection(1 .. n, T)
    BY <2>1, <2>2, <2>3 DEF Bijection, Injection, Surjection, IsInjective
  <2>5. n \in Nat /\ IsFiniteSet(1 .. n) /\ Cardinality(1 .. n) = n
    BY <1>2, CountedFromOne DEF n
  <2>6. ExistsBijection(1 .. n, T)
    BY <2>4 DEF ExistsBijection
  <2>7. Cardinality(T) = Cardinality(1 .. n)
    BY <2>5, <2>6, FS_Bijection
  <2> QED BY <2>5, <2>7 DEF n, T
<1> QED BY <1>3, <1>4, <1>5

LEMMA CutInvHolds == ParserSpec => []CutInv
<1>1. CutInv /\ [ParserNext]_parserVars => CutInv'
  BY StepCutInv
<1>2. ParserInit => CutInv
  BY InitCutInv
<1> QED BY <1>1, <1>2, PTL DEF ParserSpec

\* Wherever the stream is cut, whatever the messages, their sizes and that of the buffer:
\* as long as no byte was thrown away, the callback leaves exactly the messages that have
\* arrived completely handled, in order, and the payload that has arrived since the newest
\* audio-start in the audio buffer, each byte once.
THEOREM CutsNeverMatter == ParserSpec => []CutsDoNotMatter
<1>1. CutInv => CutsDoNotMatter
  BY CutInvIsEnough
<1> QED BY <1>1, CutInvHolds, PTL
=============================================================================
