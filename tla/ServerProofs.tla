---------------------------- MODULE ServerProofs ----------------------------
(***************************************************************************)
(* Proofs about Server and CertStore for every set of settings, texts and  *)
(* passwords.  First the certificates by themselves: a file that the       *)
(* settings name is there, and its status shows it, at whatever step a     *)
(* request fails, is cut short, or the program ends.  Then the server: the *)
(* certificates behave as CertStore says; the settings' store implements   *)
(* DurableSettings and keeps what was answered for; and no request is      *)
(* under way when the tree is freed.                                       *)
(***************************************************************************)
EXTENDS Server, TLAPS

-----------------------------------------------------------------------------
(* The certificates by themselves, whoever runs them. *)

\* Requests are made of types, texts and passwords; so is none.
LEMMA RequestType ==
  ASSUME NEW r \in Requests \cup {NoRequest}
  PROVE  r.type \in Types /\ r.pem \in Texts /\ r.password \in Passwords \cup {NoPassword}
<1>1. CASE r \in Requests
  BY <1>1, CertAssumption DEF Requests, Texts
<1>2. CASE r = NoRequest
  BY <1>2 DEF NoRequest, NoText, Types, Texts
<1> QED BY <1>1, <1>2

\* An empty file is a file.
LEMMA NoTextIsText == NoText \in Texts /\ NoFile \notin Texts
<1>1. NoText \in Texts
  BY DEF NoText, Texts
<1>2. NoFile \notin Texts
  BY CertAssumption, Zenon DEF Texts
<1> QED BY <1>1, <1>2

\* An empty password is a password.
LEMMA EmptyIsPassword == Empty \in Passwords
BY CertAssumption, Zenon DEF Empty

\* What is read back of a file is its password or none, and of what was garbled nothing more.
LEMMA ReadBackType ==
  ASSUME NEW f \in Passwords \cup {NoPassword, Garbled}, NEW p \in ReadBack(f)
  PROVE  p \in Passwords \cup {NoPassword, Garbled} /\ p \in {f, NoPassword, Garbled}
BY DEF ReadBack

\* A flag of a function of flags may be set.
LEMMA FlagSet ==
  ASSUME NEW D, NEW f \in [D -> BOOLEAN], NEW x \in D, NEW b \in BOOLEAN
  PROVE  [f EXCEPT ![x] = b] \in [D -> BOOLEAN]
OBVIOUS

-----------------------------------------------------------------------------
(* Types. *)

LEMMA InitType == CertInit => CertTypeOK
BY DEF CertInit, CertTypeOK, Types

\* Every step keeps the types.
LEMMA StepType == CertTypeOK /\ [CertNext]_certVars => CertTypeOK'
<1> SUFFICES ASSUME CertTypeOK, [CertNext]_certVars PROVE CertTypeOK'
  OBVIOUS
<1> USE NoTextIsText
<1>0. creq.type \in Types /\ creq.pem \in Texts /\ creq.password \in Passwords \cup {NoPassword}
  BY RequestType DEF CertTypeOK
<1>1. CASE CertsInit
  <2> DEFINE D == Types \cup {"CA", "password"}
  <2>1. /\ shown \in [D -> BOOLEAN]
       /\ "ca" \in D /\ "cert" \in D /\ "key" \in D /\ "password" \in D
    BY DEF CertTypeOK, Types
  <2>2. shown' \in [D -> BOOLEAN]
    <3>1. ASSUME NEW a \in BOOLEAN, NEW b \in BOOLEAN
          PROVE  [shown EXCEPT !["ca"] = a, !["cert"] = FALSE, !["key"] = b,
                               !["password"] = FALSE] \in [D -> BOOLEAN]
      <4> HIDE DEF D
      <4> DEFINE f1 == [shown EXCEPT !["ca"] = a]
                 f2 == [f1 EXCEPT !["cert"] = FALSE]
                 f3 == [f2 EXCEPT !["key"] = b]
      <4>1. f1 \in [D -> BOOLEAN]
        BY <2>1, FlagSet
      <4> HIDE DEF f1
      <4>2. f2 \in [D -> BOOLEAN]
        BY <2>1, <4>1, FlagSet
      <4> HIDE DEF f2
      <4>3. f3 \in [D -> BOOLEAN]
        BY <2>1, <4>2, FlagSet
      <4> HIDE DEF f3
      <4>4. [f3 EXCEPT !["password"] = FALSE] \in [D -> BOOLEAN]
        BY <2>1, <4>3, FlagSet
      <4> QED BY <4>4 DEF f1, f2, f3
    <3>2. ("ca" \in named') \in BOOLEAN /\ ("key" \in named') \in BOOLEAN
      OBVIOUS
    <3>3. shown' = [shown EXCEPT !["ca"] = "ca" \in named', !["cert"] = FALSE,
                                 !["key"] = "key" \in named', !["password"] = FALSE]
      BY <1>1, Zenon DEF CertsInit
    <3> HIDE DEF D
    <3> QED BY <3>1, <3>2, <3>3, Zenon
  <2>3. named' \in SUBSET Types /\ pass' \in Passwords \cup {NoPassword, Garbled}
    BY <1>1, ReadBackType DEF CertsInit, CertTypeOK
  <2> QED BY <1>1, <2>2, <2>3 DEF CertsInit, CertTypeOK
<1>2. CASE CertsCut
  BY <1>2 DEF CertsCut, Cut, CertTypeOK
<1>3. CASE CertsEnd
  BY <1>3 DEF CertsEnd, Cut, CertTypeOK, Types
<1>4. ASSUME NEW r \in Requests, CertsReceive(r) PROVE CertTypeOK'
  BY <1>4 DEF CertsReceive, At, CertTypeOK
<1>5. CASE Remove
  BY <1>0, <1>5 DEF Remove, At, Drop, CertTypeOK, Types
<1>6. CASE RemoveFails
  BY <1>6 DEF RemoveFails, Answer, CertTypeOK
<1>7. CASE RemoveKeyToo
  BY <1>7 DEF RemoveKeyToo, KeyFileGone, At, Drop, CertTypeOK, Types
<1>8. CASE KeyStays
  BY <1>8 DEF KeyStays, At, CertTypeOK, Types
<1>9. CASE RemovePassword
  BY <1>9 DEF RemovePassword, At, CertTypeOK, Types
<1>10. CASE Open
  BY <1>0, <1>10 DEF Open, At, CertTypeOK
<1>11. CASE OpenFails
  BY <1>11 DEF OpenFails, Answer, CertTypeOK
<1>12. CASE Fill
  BY <1>0, <1>12 DEF Fill, NewPassword, ShownNow, At, CertTypeOK
<1>13. CASE FillFails
  BY <1>0, <1>13 DEF FillFails, Prefixes, Answer, CertTypeOK
<1>14. CASE OpenPassword
  BY <1>14, EmptyIsPassword DEF OpenPassword, At, CertTypeOK
<1>15. CASE FillPassword
  BY <1>0, <1>15 DEF FillPassword, Answer, CertTypeOK
<1>16. CASE PasswordFails
  BY <1>16, EmptyIsPassword DEF PasswordFails, Answer, CertTypeOK
<1>17. CASE UNCHANGED certVars
  BY <1>17 DEF certVars, CertTypeOK
<1> QED
  BY <1>1, <1>2, <1>3, <1>4, <1>5, <1>6, <1>7, <1>8, <1>9, <1>10, <1>11, <1>12, <1>13, <1>14,
     <1>15, <1>16, <1>17 DEF CertNext, CertStep

\* The files, the settings, the status and the request keep their types.
THEOREM CertTypeCorrect == CertSpec => []CertTypeOK
BY InitType, StepType, PTL DEF CertSpec

-----------------------------------------------------------------------------
(* What the settings name. *)

\* A key whose password is being removed is itself removed already; and what is served
\* is shown, also in the middle of a request.
Settled ==
  /\ ~served => cpc = "idle"
  /\ cpc = "password" => "key" \notin named /\ pem["key"] = NoFile
  /\ served => \A t \in {"ca", "key"} \cap named : shown[t]

\* Unless something was cut short: what would be loaded is named, the password is that of
\* the key that is named, and the file of the password that of the key in its file, but for
\* a password that outlived its key.
Remembered ==
  /\ ~cut /\ served => \A t \in Types : Loads(t, pem[t]) => t \in named
  /\ ~cut /\ served /\ "key" \in named =>
       IF aged THEN pass \in ReadBack(IF fits = NoPassword THEN ph ELSE fits) ELSE pass = fits
  /\ ~cut /\ cpc \notin {"openPh", "fillPh"} /\ Loads("key", pem["key"]) =>
       fits \in {ph, NoPassword}
  /\ cpc \in {"openPh", "fillPh"} => creq.password = fits /\ ~aged

CertInv == CertTypeOK /\ NamedIsThere /\ Settled /\ Remembered

LEMMA InitInv == CertInit => CertInv
<1>1. CertInit => Settled /\ NamedIsThere
  BY DEF CertInit, NamedIsThere, Settled
<1>2. CertInit => Remembered
  BY DEF CertInit, Remembered, Loads, Types
<1> QED BY <1>1, <1>2, InitType DEF CertInv

\* A file goes only where its setting goes with it.
LEMMA StepNamed == CertInv /\ [CertNext]_certVars => NamedIsThere'
<1> SUFFICES ASSUME CertInv, [CertNext]_certVars PROVE NamedIsThere'
  OBVIOUS
<1> USE NoTextIsText DEF NamedIsThere
<1>0. /\ creq.type \in Types /\ creq.pem \in Texts
      /\ pem \in [Types -> Texts \cup {NoFile}] /\ named \in SUBSET Types
      /\ NamedIsThere
  BY RequestType DEF CertInv, CertTypeOK
<1>1. CASE CertsInit
  BY <1>0, <1>1 DEF CertsInit, Loads
<1>2. CASE CertsCut \/ CertsEnd \/ UNCHANGED certVars
  BY <1>0, <1>2 DEF CertsCut, CertsEnd, Cut, certVars
<1>3. ASSUME NEW r \in Requests, CertsReceive(r) PROVE NamedIsThere'
  BY <1>0, <1>3 DEF CertsReceive
<1>4. CASE Remove
  BY <1>0, <1>4 DEF Remove, Drop
<1>5. CASE RemoveKeyToo
  BY <1>0, <1>5 DEF RemoveKeyToo, KeyFileGone, Drop, Types
<1>6. CASE RemoveFails \/ KeyStays \/ RemovePassword \/ OpenFails
  BY <1>0, <1>6 DEF RemoveFails, KeyStays, RemovePassword, OpenFails
<1>7. CASE Open
  BY <1>0, <1>7 DEF Open
<1>8. CASE Fill
  BY <1>0, <1>8 DEF Fill
<1>9. CASE FillFails
  BY <1>0, <1>9 DEF FillFails, Prefixes
<1>10. CASE OpenPassword \/ FillPassword \/ PasswordFails
  BY <1>0, <1>10 DEF OpenPassword, FillPassword, PasswordFails
<1> QED
  BY <1>1, <1>2, <1>3, <1>4, <1>5, <1>6, <1>7, <1>8, <1>9, <1>10 DEF CertNext, CertStep

\* What is shown of a CA or a key goes only when its setting is gone.
LEMMA StepSettled == CertInv /\ [CertNext]_certVars => Settled'
<1> SUFFICES ASSUME CertInv, [CertNext]_certVars PROVE Settled'
  OBVIOUS
<1> USE DEF Settled
<1>0. /\ creq.type \in Types /\ named \in SUBSET Types /\ served \in BOOLEAN
      /\ pem \in [Types -> Texts \cup {NoFile}]
      /\ shown \in [Types \cup {"CA", "password"} -> BOOLEAN]
      /\ Settled
  BY RequestType DEF CertInv, CertTypeOK
<1>1. CASE CertsInit
  <2>1. cpc' = "idle" /\ served'
    BY <1>0, <1>1 DEF CertsInit
  <2>2. shown'["ca"] = ("ca" \in named') /\ shown'["key"] = ("key" \in named')
    BY <1>0, <1>1, Zenon DEF CertsInit, Types
  <2> QED BY <2>1, <2>2
<1>2. CASE CertsCut \/ CertsEnd \/ UNCHANGED certVars
  BY <1>0, <1>2 DEF CertsCut, CertsEnd, Cut, certVars
<1>3. ASSUME NEW r \in Requests, CertsReceive(r) PROVE Settled'
  BY <1>0, <1>3 DEF CertsReceive, At
<1>4. CASE Remove
  BY <1>0, <1>4 DEF Remove, At, Drop, Types
<1>5. CASE RemoveKeyToo
  BY <1>0, <1>5 DEF RemoveKeyToo, KeyFileGone, At, Drop, Types
<1>6. CASE KeyStays
  BY <1>0, <1>6 DEF KeyStays, At, Types
<1>7. CASE RemovePassword
  BY <1>0, <1>7 DEF RemovePassword, At, Types
<1>8. CASE Fill
  BY <1>0, <1>8 DEF Fill, ShownNow, At, Types
<1>9. CASE Open \/ OpenPassword
  BY <1>0, <1>9 DEF Open, OpenPassword, At
<1>10. CASE RemoveFails \/ OpenFails \/ FillFails \/ FillPassword \/ PasswordFails
  BY <1>0, <1>10 DEF RemoveFails, OpenFails, FillFails, FillPassword, PasswordFails, Answer
<1> QED
  BY <1>1, <1>2, <1>3, <1>4, <1>5, <1>6, <1>7, <1>8, <1>9, <1>10 DEF CertNext, CertStep

\* The key's file and the password's, and what is named and remembered, change together.
LEMMA StepRemembered == CertInv /\ [CertNext]_certVars => Remembered'
<1> SUFFICES ASSUME CertInv, [CertNext]_certVars PROVE Remembered'
  OBVIOUS
<1> USE DEF Remembered
<1>0. /\ creq.type \in Types /\ creq.pem \in Texts
      /\ named \in SUBSET Types /\ served \in BOOLEAN /\ cut \in BOOLEAN /\ aged \in BOOLEAN
      /\ pem \in [Types -> Texts \cup {NoFile}]
      /\ "key" \in Types /\ Remembered /\ Settled
  BY RequestType DEF CertInv, CertTypeOK, Types
<1>1. CASE CertsInit
  BY <1>0, <1>1 DEF CertsInit, Settled
<1>2. CASE CertsCut \/ CertsEnd \/ UNCHANGED certVars
  <2>1. CASE CertsCut
    BY <1>0, <2>1 DEF CertsCut, Cut
  <2>2. CASE CertsEnd
    BY <1>0, <2>2 DEF CertsEnd, Cut
  <2>3. CASE UNCHANGED certVars
    BY <1>0, <2>3 DEF certVars
  <2> QED BY <1>2, <2>1, <2>2, <2>3
<1>3. ASSUME NEW r \in Requests, CertsReceive(r) PROVE Remembered'
  BY <1>0, <1>3 DEF CertsReceive, At
<1>4. CASE Remove
  BY <1>0, <1>4 DEF Remove, At, Drop, Loads, Types
<1>5. CASE RemoveKeyToo
  BY <1>0, <1>5 DEF RemoveKeyToo, KeyFileGone, At, Drop, Loads
<1>6. CASE KeyStays \/ RemoveFails \/ OpenFails
  BY <1>0, <1>6 DEF KeyStays, RemoveFails, OpenFails, At, Answer
<1>7. CASE RemovePassword
  BY <1>0, <1>7 DEF RemovePassword, At, Loads, Settled
<1>8. CASE Open
  BY <1>0, <1>8 DEF Open, At, Loads, NoText
<1>9. CASE Fill
  <2>1. CASE creq.type = "key"
    BY <1>0, <1>9, <2>1 DEF Fill, NewPassword, At, NoRequest
  <2>2. CASE creq.type # "key"
    BY <1>0, <1>9, <2>2 DEF Fill, At
  <2> QED BY <2>1, <2>2
<1>10. CASE FillFails \/ PasswordFails
  <2>1. CASE FillFails /\ creq.pem.size = 0
    <3>1. PICK p \in Prefixes(creq.pem) : pem' = [pem EXCEPT ![creq.type] = p]
      BY <2>1 DEF FillFails
    <3>2. p.size = 0
      BY <2>1, <3>1 DEF Prefixes, Texts
    <3> QED BY <1>0, <2>1, <3>1, <3>2 DEF FillFails, Answer, Loads
  <2>2. CASE FillFails /\ creq.pem.size # 0
    <3>1. creq.pem.size > 0
      BY <1>0, <2>2 DEF Texts
    <3>2. cut'
      BY <2>2, <3>1 DEF FillFails
    <3> QED BY <2>2, <3>2 DEF FillFails, Answer
  <2>3. CASE PasswordFails
    BY <1>0, <2>3 DEF PasswordFails, Answer
  <2> QED BY <1>10, <2>1, <2>2, <2>3
<1>11. CASE OpenPassword \/ FillPassword
  BY <1>0, <1>11 DEF OpenPassword, FillPassword, At, Answer
<1> QED
  BY <1>1, <1>2, <1>3, <1>4, <1>5, <1>6, <1>7, <1>8, <1>9, <1>10, <1>11 DEF CertNext, CertStep

LEMMA InvHolds == CertSpec => []CertInv
<1>1. CertInv /\ [CertNext]_certVars => CertInv'
  BY StepType, StepNamed, StepSettled, StepRemembered DEF CertInv
<1> QED BY InitInv, <1>1, PTL DEF CertSpec

\* Every file that the settings name, and the broker's client is told to use, is there,
\* at whatever step a request has failed or was cut short.
THEOREM NamedFilesExist == CertSpec => []NamedIsThere
<1>1. CertInv => NamedIsThere
  BY DEF CertInv
<1> QED BY InvHolds, <1>1, PTL

\* The status shows every CA and every key that is named, between requests.
THEOREM NamedFilesAreShown == CertSpec => []NamedIsShown
<1>1. CertInv => NamedIsShown
  BY DEF CertInv, Settled, NamedIsShown
<1> QED BY InvHolds, <1>1, PTL

\* What was removed does not come back at the next start, unless a write was cut short.
THEOREM RemovedStaysRemoved == CertSpec => []NothingComesBack
<1>1. CertInv => NothingComesBack
  BY DEF CertInv, Remembered, NothingComesBack
<1> QED BY InvHolds, <1>1, PTL

\* The broker's client is given the password of its key, of whatever length, and after a
\* start what that has kept of it: all, something garbled, or nothing of one that is shorter
\* than 4 bytes or longer than 99.
THEOREM PasswordIsOfTheKey == CertSpec => []PasswordFits
<1>1. CertInv => PasswordFits
  <2> SUFFICES ASSUME CertInv, served, cpc = "idle", ~cut, Given.pair PROVE PasswordFits
    BY DEF PasswordFits
  <2>1. /\ "key" \in named /\ aged \in BOOLEAN
        /\ fits \in Passwords \cup {NoPassword}
        /\ ph \in Passwords \cup {NoPassword, Garbled}
        /\ Given.password = IF pass = Empty THEN NoPassword ELSE pass
    BY DEF CertInv, CertTypeOK, Given
  <2>2. IF aged THEN pass \in ReadBack(IF fits = NoPassword THEN ph ELSE fits) ELSE pass = fits
    BY <2>1 DEF CertInv, Remembered
  <2>3. Empty.length = 0 /\ Garbled # Empty
    BY EmptyIsPassword, CertAssumption DEF Empty
  <2>4. CASE ~aged
    BY <2>1, <2>2, <2>4 DEF PasswordFits
  <2>5. CASE aged /\ fits = NoPassword
    <3>1. pass \in {ph, NoPassword, Garbled}
      BY <2>1, <2>2, <2>5, ReadBackType
    <3> QED BY <2>1, <2>3, <2>5, <3>1 DEF PasswordFits
  <2>6. CASE aged /\ fits \in Passwords
    <3>1. fits.length \in Nat /\ fits # Garbled /\ fits # NoPassword
      BY <2>6, CertAssumption, Zenon
    <3>2. pass \in ReadBack(fits)
      BY <2>2, <2>6, <3>1
    <3>3. CASE LoadsPassword(fits)
      BY <2>1, <2>3, <2>6, <3>1, <3>2, <3>3 DEF PasswordFits, ReadBack, LoadsPassword
    <3>4. CASE ~LoadsPassword(fits)
      BY <2>1, <2>3, <2>6, <3>1, <3>2, <3>4 DEF PasswordFits, ReadBack, LoadsPassword
    <3> QED BY <3>3, <3>4
  <2> QED BY <2>1, <2>4, <2>5, <2>6
<1> QED BY InvHolds, <1>1, PTL

-----------------------------------------------------------------------------
(* The order of the main thread's steps. *)

\* Where a step of a list without repetition is.
LEMMA AfterIndex ==
  ASSUME NEW s, NEW i \in DOMAIN s, \A j \in DOMAIN s : s[j] = s[i] => j = i
  PROVE  After(s, s[i]) = s[i + 1]
<1>1. IndexOf(s, s[i]) = i
  BY DEF IndexOf
<1> QED BY <1>1 DEF After

LEMMA ShutdownOrder ==
  /\ After(Shutdown, "disconnect") = "stop" /\ After(Shutdown, "stop") = "http"
  /\ After(Shutdown, "http") = "tree" /\ After(Shutdown, "tree") = "exit"
  /\ Shutdown[1] = "disconnect"
<1>1. DOMAIN Shutdown = 1 .. 5 /\ Shutdown[1] = "disconnect" /\ Shutdown[2] = "stop"
      /\ Shutdown[3] = "http" /\ Shutdown[4] = "tree" /\ Shutdown[5] = "exit"
  BY DEF Shutdown
<1>2. \A i, j \in 1 .. 5 : Shutdown[i] = Shutdown[j] => i = j
  BY <1>1
<1>3. \A i \in 1 .. 5 : After(Shutdown, Shutdown[i]) = Shutdown[i + 1]
  BY <1>1, <1>2, AfterIndex
<1> QED BY <1>1, <1>3

\* The steps of the start, and the last of them.
Starting == {"load", "status", "app", "settings", "transcripts", "mqtt", "certs", "statuses",
             "read", "configure"}

LEMMA BootSteps ==
  /\ DOMAIN Boot = 1 .. 11 /\ Boot[1] = "load" /\ Boot[2] = "status" /\ Boot[3] = "app"
  /\ Boot[4] = "settings" /\ Boot[5] = "transcripts" /\ Boot[6] = "mqtt" /\ Boot[7] = "certs"
  /\ Boot[8] = "statuses" /\ Boot[9] = "read" /\ Boot[10] = "configure" /\ Boot[11] = "run"
BY DEF Boot, BootAcap

LEMMA BootOrder ==
  ASSUME NEW x \in Starting
  PROVE  After(Boot, x) \in (Starting \ {"load"}) \cup {"run"}
<1>1. \A i, j \in 1 .. 11 : Boot[i] = Boot[j] => i = j
  BY BootSteps
<1>2. \A i \in 1 .. 11 : After(Boot, Boot[i]) = Boot[i + 1]
  BY BootSteps, <1>1, AfterIndex
<1>3. \E i \in 1 .. 10 : x = Boot[i]
  BY BootSteps DEF Starting
<1>4. \A i \in 1 .. 10 : Boot[i + 1] \in (Starting \ {"load"}) \cup {"run"}
  BY BootSteps DEF Starting
<1> QED BY <1>2, <1>3, <1>4

-----------------------------------------------------------------------------
(* The certificates. *)

\* Whatever the two threads do, the certificates do what CertStore says, or nothing.
LEMMA StepCertStore == [Next]_vars => [CertNext]_certVars
<1> SUFFICES ASSUME [Next]_vars PROVE CertNext \/ UNCHANGED certVars
  OBVIOUS
<1>1. CASE Load \/ Statuses \/ ReadSettings \/ Configure \/ Terminate \/ Disconnect \/ StopInput
           \/ CancelHttp \/ JoinHttp \/ FreeTree
  BY <1>1 DEF Load, Statuses, ReadSettings, Configure, Terminate, Disconnect, StopInput,
              CancelHttp, JoinHttp, FreeTree
<1>2. ASSUME NEW e \in Endpoints, Register(e) PROVE CertNext \/ UNCHANGED certVars
  BY <1>2 DEF Register, CertNext
<1>3. CASE Restart
  BY <1>3 DEF Restart, CertNext
<1>4. CASE GetStatus \/ LockStatus \/ AnswerStatus \/ OpenFile \/ OpenFileFails \/ SaveFile
           \/ SaveFileFails \/ HttpRead \/ HttpConfigure \/ AnswerCerts
  BY <1>4 DEF GetStatus, LockStatus, AnswerStatus, OpenFile, OpenFileFails, SaveFile,
              SaveFileFails, HttpRead, HttpConfigure, AnswerCerts
<1>5. ASSUME NEW c \in Changes, PostSettings(c) PROVE UNCHANGED certVars
  BY <1>5 DEF PostSettings
<1>6. ASSUME NEW n \in Names, ChangeSetting(n) PROVE UNCHANGED certVars
  BY <1>6 DEF ChangeSetting
<1>7. ASSUME NEW r \in Requests, PostCerts(r) PROVE CertNext \/ UNCHANGED certVars
  BY <1>7 DEF PostCerts, CertNext
<1>8. CASE StepCerts
  BY <1>8 DEF StepCerts, CertNext
<1>9. CASE EndHttp
  BY <1>9 DEF EndHttp, CertNext
<1>10. CASE UNCHANGED vars
  BY <1>10 DEF vars
<1> QED
  BY <1>1, <1>2, <1>3, <1>4, <1>5, <1>6, <1>7, <1>8, <1>9, <1>10 DEF Next, MainStep, HttpStep

\* Whatever the two threads of the program do, and whenever it is killed, the certificates
\* behave as CertStore says.
THEOREM RunsCertStore == Spec => CertSpec
<1>1. Init => CertInit
  BY DEF Init
<1> QED BY <1>1, StepCertStore, PTL DEF Spec, CertSpec

\* In the running program the files that the certificate settings name are there, at
\* whatever step a request fails, is cancelled or is killed.
THEOREM ServedFilesExist == Spec => []NamedIsThere
BY RunsCertStore, NamedFilesExist, PTL

\* Between requests the running program shows every CA and every key that it uses.
THEOREM ServedFilesAreShown == Spec => []NamedIsShown
BY RunsCertStore, NamedFilesAreShown, PTL

\* A certificate that was removed does not come back at a later start of the program,
\* unless a write was cut short.
THEOREM NothingReturns == Spec => []NothingComesBack
BY RunsCertStore, RemovedStaysRemoved, PTL

\* The running program gives the broker's client the password of the key it gives it, or
\* what a start made of it.
THEOREM ClientGetsItsPassword == Spec => []PasswordFits
BY RunsCertStore, PasswordIsOfTheKey, PTL

-----------------------------------------------------------------------------
(* The end. *)

\* The HTTP thread is not there before the start and after it was joined; the tree is
\* freed last.
Ordered ==
  /\ mpc \in {"load", "tree", "exit"} => hpc = "none"
  /\ freed => mpc = "exit"

\* Where the main thread is after one of its steps.
LEMMA MainSteps ==
  /\ \A x \in Starting : MainGoes(Boot, x) =>
       mpc \notin {"tree", "exit"} /\ mpc' \in (Starting \ {"load"}) \cup {"run"}
  /\ \A x \in {"disconnect", "stop"} : MainGoes(Shutdown, x) => mpc = x /\ mpc' \in {"stop", "http"}
  /\ MainGoes(Shutdown, "http") => mpc = "http" /\ mpc' = "tree"
  /\ MainGoes(Shutdown, "tree") => mpc = "tree" /\ mpc' = "exit"
BY BootOrder, ShutdownOrder DEF MainGoes, Starting

\* Each step keeps the order: a step of the HTTP thread is none of a thread that is not
\* there, and only JoinHttp comes to the tree.
LEMMA StepOrdered == Ordered /\ [Next]_vars => Ordered'
<1> SUFFICES ASSUME Ordered, [Next]_vars PROVE Ordered'
  OBVIOUS
<1> USE DEF Ordered
<1>1. CASE Load
  BY <1>1, MainSteps DEF Load, Starting, endVars
<1>2. ASSUME NEW e \in Endpoints, Register(e) PROVE Ordered'
  BY <1>2, MainSteps DEF Register, Endpoints, Starting, endVars, httpVars
<1>3. CASE Statuses
  BY <1>3 DEF Statuses, endVars, httpVars
<1>4. CASE ReadSettings \/ Configure
  BY <1>4, MainSteps DEF ReadSettings, Configure, Starting, endVars, httpVars
<1>5. CASE Terminate
  BY <1>5, ShutdownOrder DEF Terminate, endVars, httpVars
<1>6. CASE Disconnect \/ StopInput
  BY <1>6, MainSteps DEF Disconnect, StopInput, endVars, httpVars
<1>7. CASE CancelHttp
  BY <1>7 DEF CancelHttp, httpVars
<1>8. CASE JoinHttp
  BY <1>8, MainSteps DEF JoinHttp, endVars, httpVars
<1>9. CASE FreeTree
  BY <1>9, MainSteps DEF FreeTree, httpVars
<1>10. CASE Restart
  BY <1>10 DEF Restart
<1>11. CASE hpc # "none" /\ UNCHANGED <<mpc, freed>>
  BY <1>11
<1>12. CASE UNCHANGED <<mpc, hpc, freed>>
  BY <1>12
<1>13. CASE GetStatus \/ (\E c \in Changes : PostSettings(c)) \/ (\E r \in Requests : PostCerts(r))
  <2>1. hpc = "accept" /\ UNCHANGED <<mpc, freed>>
    BY <1>13 DEF GetStatus, PostSettings, PostCerts, Accept, HttpGoes, mainVars, endVars
  <2> QED BY <1>11, <2>1
<1>14. CASE HttpStep
  <2>1. hpc # "none" /\ UNCHANGED <<mpc, freed>>
    BY <1>14 DEF HttpStep, LockStatus, AnswerStatus, ChangeSetting, OpenFile, OpenFileFails,
      SaveFile, SaveFileFails, HttpRead, HttpConfigure, StepCerts, AnswerCerts, EndHttp,
      CancelPoints, HttpGoes, mainVars, endVars
  <2> QED BY <1>11, <2>1
<1>15. CASE UNCHANGED vars
  BY <1>12, <1>15 DEF vars, mainVars, httpVars, endVars
<1> QED
  BY <1>1, <1>2, <1>3, <1>4, <1>5, <1>6, <1>7, <1>8, <1>9, <1>10, <1>13, <1>14, <1>15
     DEF Next, MainStep

LEMMA OrderHolds == Spec => []Ordered
<1>1. Init => Ordered
  BY DEF Init, Ordered
<1> QED BY <1>1, StepOrdered, PTL DEF Spec

\* No request is under way when the tree it uses is freed.
THEOREM RequestsEndBeforeTheTree == Spec => []NoRequestOnFreedTree
<1>1. Ordered => NoRequestOnFreedTree
  BY DEF Ordered, NoRequestOnFreedTree
<1> QED BY OrderHolds, <1>1, PTL

-----------------------------------------------------------------------------
(* The settings. *)

\* Settings that the requests so far may have made.
Made(k) == [Names -> 0 .. k]

\* The file is torn while it is written; afterwards it holds the settings; and neither it
\* nor the settings are older than what was answered for, unless a save has failed.
Stored ==
  /\ requests \in 0 .. MaxRequests /\ change \subseteq Names /\ failed \in BOOLEAN
  /\ tree \in Made(requests) /\ posted \in Made(requests)
  /\ file \in Made(requests) \cup {NoSettings, Torn}
  /\ hpc = "save" => file = Torn
  /\ ~failed /\ hpc \in {"read", "configure"} => Restored(file) = tree
  /\ \A n \in Names : tree[n] >= posted[n]
  /\ ~failed /\ hpc # "save" => \A n \in Names : Restored(file)[n] >= posted[n]

LEMMA MadeGrows ==
  ASSUME NEW k \in Nat, NEW l \in Nat, k <= l
  PROVE  Made(k) \subseteq Made(l)
BY DEF Made

LEMMA DefaultsAreMade == \A k \in Nat : Defaults \in Made(k)
BY DEF Defaults, Made

\* A file that is whole is restored as it is, any other as the defaults.
LEMMA RestoredFile ==
  ASSUME NEW k \in 0 .. MaxRequests
  PROVE  /\ \A f \in Made(k) : Restored(f) = f
         /\ Restored(Torn) = Defaults /\ Restored(NoSettings) = Defaults
         /\ \A f \in Made(k) \cup {NoSettings, Torn} : Restored(f) \in Made(k)
<1>0. MaxRequests \in Nat /\ k \in Nat /\ k <= MaxRequests
  BY ServerAssumption
<1>1. \A f \in Made(k) : f \notin {NoSettings, Torn}
  BY <1>0, ServerAssumption, MadeGrows DEF Made
<1>2. ASSUME NEW f \in Made(k) PROVE Restored(f) = f
  <2>1. Restored(f) = [n \in Names |-> f[n]]
    BY <1>1 DEF Restored
  <2> QED BY <2>1 DEF Made
<1>3. Restored(Torn) = Defaults /\ Restored(NoSettings) = Defaults
  BY DEF Restored
<1> QED BY <1>0, <1>2, <1>3, DefaultsAreMade

LEMMA InitStored == Init => Stored
<1> SUFFICES ASSUME Init PROVE Stored
  OBVIOUS
<1>1. Defaults \in Made(0) /\ 0 \in 0 .. MaxRequests /\ Restored(NoSettings) = Defaults
  BY ServerAssumption, DefaultsAreMade, RestoredFile
<1>2. \A n \in Names : Defaults[n] >= Defaults[n]
  BY DEF Defaults
<1> QED BY <1>1, <1>2 DEF Init, Stored

\* A step that leaves the settings, the file, and what was answered for alone.
LEMMA StoredStays ==
  ASSUME Stored, UNCHANGED <<tree, posted, file, failed>>, change' \subseteq Names,
         requests' \in requests .. MaxRequests, hpc # "save" \/ hpc' = hpc,
         hpc' \in {"read", "configure"} => hpc \in {"read", "configure"}, hpc' = "save" => hpc = "save"
  PROVE  Stored'
<1>0. requests \in Nat /\ requests' \in Nat /\ requests <= requests' /\ requests' \in 0 .. MaxRequests
  BY ServerAssumption DEF Stored
<1>1. Made(requests) \subseteq Made(requests')
  BY <1>0, MadeGrows
<1>2. /\ tree' \in Made(requests') /\ posted' \in Made(requests')
      /\ file' \in Made(requests') \cup {NoSettings, Torn}
  BY <1>1 DEF Stored
<1>3. Made(requests)' = Made(requests') /\ Restored(file)' = Restored(file)
  BY DEF Made, Restored, Defaults
<1> QED BY <1>0, <1>2, <1>3 DEF Stored

\* Steps of the main thread but for the start, and those of the HTTP thread but for those
\* that change or save settings, leave them alone.
LEMMA ElsewhereStored ==
  ASSUME Stored, MainStep \/ Terminate \/ GetStatus \/ LockStatus \/ AnswerStatus \/ StepCerts
                 \/ AnswerCerts \/ (\E c \in Changes : PostSettings(c)) \/ (\E r \in Requests : PostCerts(r))
                 \/ UNCHANGED vars,
         ~Load
  PROVE  Stored'
<1>0. requests \in Nat /\ requests <= MaxRequests /\ change \subseteq Names
  BY ServerAssumption DEF Stored
<1>1. CASE MainStep \/ Terminate \/ UNCHANGED vars
  <2>1. UNCHANGED <<tree, posted, file, failed, change, requests, hpc>>
    BY <1>1 DEF MainStep, Terminate, Register, Statuses, ReadSettings, Configure, Disconnect,
      StopInput, CancelHttp, JoinHttp, FreeTree, vars, httpVars, treeVars
  <2> QED BY <1>0, <2>1, StoredStays
<1>2. CASE LockStatus \/ AnswerStatus \/ StepCerts \/ AnswerCerts
  <2>1. UNCHANGED <<tree, posted, file, failed, change, requests>>
    BY <1>2 DEF LockStatus, AnswerStatus, StepCerts, AnswerCerts, httpVars, treeVars
  <2>2. hpc \in {"wait", "answer", "certs"} /\ hpc' \in {"answer", "accept", "certs"}
    BY <1>2 DEF LockStatus, AnswerStatus, StepCerts, AnswerCerts, HttpGoes, httpVars
  <2> QED BY <1>0, <2>1, <2>2, StoredStays
<1>3. CASE GetStatus \/ (\E c \in Changes : PostSettings(c)) \/ (\E r \in Requests : PostCerts(r))
  <2>1. UNCHANGED <<tree, posted, file, failed>>
    BY <1>3 DEF GetStatus, PostSettings, PostCerts, treeVars
  <2>2. hpc = "accept" /\ hpc' \in {"wait", "change", "certs", "accept"}
    BY <1>3 DEF GetStatus, PostSettings, PostCerts, Accept, HttpGoes
  <2>3. requests' \in {requests + 2, requests + 3} /\ requests' <= MaxRequests
    BY <1>3 DEF GetStatus, PostSettings, PostCerts, Accept
  <2>4. change' \subseteq Names
    BY <1>0, <1>3, ServerAssumption DEF GetStatus, PostSettings, PostCerts
  <2>5. requests' \in requests .. MaxRequests
    BY <1>0, <2>3, ServerAssumption
  <2> QED BY <2>1, <2>2, <2>4, <2>5, StoredStays
<1> QED BY <1>1, <1>2, <1>3

\* A start takes the settings from the file, when the HTTP thread is not there.
LEMMA LoadStored == Stored /\ Ordered /\ Load => Stored'
<1> SUFFICES ASSUME Stored, Ordered, Load PROVE Stored'
  OBVIOUS
<1>0. /\ hpc = "none" /\ hpc' \in {"accept", "none"} /\ UNCHANGED <<file, change, requests>>
      /\ tree' = Restored(file) /\ failed' = FALSE
      /\ posted' = (IF failed THEN Restored(file) ELSE posted)
  BY DEF Load, HttpStarts, Merged, Ordered, MainGoes
<1>1. Restored(file) \in Made(requests)
  BY RestoredFile DEF Stored
<1>2. \A n \in Names : Restored(file)[n] \in Nat /\ Restored(file)[n] >= Restored(file)[n]
  BY <1>1 DEF Made
<1>3. \A n \in Names : Restored(file)[n] >= posted'[n]
  BY <1>0, <1>2 DEF Stored
<1>4. Restored(file)' = Restored(file) /\ Made(requests)' = Made(requests)
  BY <1>0 DEF Restored, Defaults, Made
<1> QED BY <1>0, <1>1, <1>3, <1>4 DEF Stored

\* A setting is changed to a value of its own request.
LEMMA ChangeStored ==
  ASSUME Stored, NEW n \in Names, ChangeSetting(n)
  PROVE  Stored'
<1>0. /\ hpc = "change" /\ hpc' = hpc /\ UNCHANGED <<file, failed, posted, requests>>
      /\ tree' = [tree EXCEPT ![n] = requests] /\ change' \subseteq Names
  BY DEF ChangeSetting, Stored
<1>1. requests \in Nat /\ tree \in Made(requests) /\ posted \in Made(requests)
  BY ServerAssumption DEF Stored
<1>2. tree' \in Made(requests)
  BY <1>0, <1>1 DEF Made
<1>3. \A m \in Names : tree'[m] >= posted[m]
  BY <1>0, <1>1 DEF Made, Stored
<1>4. Restored(file)' = Restored(file) /\ Made(requests)' = Made(requests)
  BY <1>0 DEF Restored, Defaults, Made
<1> QED BY <1>0, <1>2, <1>3, <1>4 DEF Stored

\* The file is emptied and written, or that fails.
LEMMA SaveStored ==
  ASSUME Stored, OpenFile \/ OpenFileFails \/ SaveFile \/ SaveFileFails
  PROVE  Stored'
<1>0. UNCHANGED <<tree, posted, requests, change>> /\ Made(requests)' = Made(requests)
  BY DEF OpenFile, OpenFileFails, SaveFile, SaveFileFails, Made
<1>1. CASE OpenFile
  BY <1>0, <1>1 DEF OpenFile, HttpGoes, Stored
<1>2. CASE OpenFileFails
  BY <1>0, <1>2 DEF OpenFileFails, HttpGoes, Stored
<1>3. CASE SaveFile
  <2>1. hpc' = "read" /\ file' = tree /\ failed' = FALSE
    BY <1>3 DEF SaveFile, Saved, HttpGoes
  <2>2. Restored(tree) = tree
    BY RestoredFile DEF Stored
  <2>3. Restored(file)' = tree
    BY <2>1, <2>2 DEF Restored, Defaults
  <2> QED BY <1>0, <2>1, <2>3 DEF Stored
<1>4. CASE SaveFileFails
  BY <1>0, <1>4 DEF SaveFileFails, HttpGoes, Stored
<1> QED BY <1>1, <1>2, <1>3, <1>4

\* The settings take effect and the request is answered for.
LEMMA AnswerStored ==
  ASSUME Stored, HttpRead \/ HttpConfigure
  PROVE  Stored'
<1>1. CASE HttpRead
  <2>1. UNCHANGED <<tree, posted, file, failed, change, requests>> /\ hpc = "read"
        /\ hpc' = "configure"
    BY <1>1 DEF HttpRead, HttpGoes, treeVars
  <2>2. requests' \in requests .. MaxRequests
    BY <2>1, ServerAssumption DEF Stored
  <2> QED BY <2>1, <2>2, StoredStays DEF Stored
<1>2. CASE HttpConfigure
  <2>1. /\ UNCHANGED <<tree, file, failed, change, requests>> /\ posted' = tree
        /\ hpc = "configure" /\ hpc' = "accept"
    BY <1>2 DEF HttpConfigure, HttpGoes, treeVars
  <2>2. \A n \in Names : tree[n] >= tree[n]
    BY DEF Stored, Made
  <2>3. Restored(file)' = Restored(file) /\ Made(requests)' = Made(requests)
    BY <2>1 DEF Restored, Defaults, Made
  <2> QED BY <2>1, <2>2, <2>3 DEF Stored
<1> QED BY <1>1, <1>2

\* The HTTP thread ends, or the program; a save that is cut short counts as failed.
LEMMA EndStored ==
  ASSUME Stored, EndHttp \/ Restart
  PROVE  Stored'
<1>1. UNCHANGED <<tree, posted, file, requests>> /\ failed' = (failed \/ hpc = "save") /\ hpc' = "none"
      /\ change' \subseteq Names
  BY DEF EndHttp, Restart, Stored
<1>2. Restored(file)' = Restored(file) /\ Made(requests)' = Made(requests)
  BY <1>1 DEF Restored, Defaults, Made
<1>3. failed' \in BOOLEAN
  BY <1>1 DEF Stored
<1> QED BY <1>1, <1>2, <1>3 DEF Stored

LEMMA StoredHolds == Spec => []Stored
<1>1. Stored /\ Ordered /\ [Next]_vars => Stored'
  BY ElsewhereStored, LoadStored, ChangeStored, SaveStored, AnswerStored, EndStored
     DEF Next, HttpStep
<1> QED BY InitStored, OrderHolds, <1>1, PTL DEF Spec

\* What a request was answered for is in the file, or what came later.
THEOREM AnsweredIsKept == Spec => []AnsweredIsStored
<1>1. Stored => AnsweredIsStored
  BY DEF Stored, AnsweredIsStored
<1> QED BY StoredHolds, <1>1, PTL

-----------------------------------------------------------------------------
(* The store of the settings implements DurableSettings. *)

\* A step that changes neither the settings, nor the file, nor whether it is written.
LEMMA StoreStutters ==
  ASSUME UNCHANGED <<tree, file>>, (hpc' = "save") <=> (hpc = "save")
  PROVE  UNCHANGED Durable!vars
BY Zenon DEF Durable!vars, Restored, Defaults

\* Each step of the program is one of the store, or none.
LEMMA StepDurable ==
  ASSUME Stored, Ordered, [Next]_vars
  PROVE  [Durable!Next]_(Durable!vars)
<1> SUFFICES Durable!Next \/ UNCHANGED Durable!vars
  OBVIOUS
<1>1. CASE Load
  <2>1. tree' = Restored(file) /\ Restored(file)' = Restored(file) /\ hpc' \in {"accept", "none"}
    BY <1>1 DEF Load, Merged, HttpStarts, Restored, Defaults
  <2>2. Durable!Start
    BY <2>1 DEF Durable!Start
  <2> QED BY <2>2 DEF Durable!Next
<1>2. ASSUME NEW n \in Names, ChangeSetting(n) PROVE Durable!Next
  <2>1. /\ tree' = [tree EXCEPT ![n] = requests] /\ Restored(file)' = Restored(file)
        /\ hpc = "change" /\ hpc' = "change"
    BY <1>2 DEF ChangeSetting, Restored, Defaults
  <2>2. requests \in Values
    BY DEF Stored, Values
  <2>3. Durable!Change(n, requests)
    BY <2>1 DEF Durable!Change
  <2> QED BY <2>2, <2>3 DEF Durable!Next
<1>3. CASE OpenFile
  <2>1. hpc = "change" /\ hpc' = "save" /\ tree' = tree /\ Restored(file)' = Defaults
    BY <1>3 DEF OpenFile, HttpGoes, Restored, Defaults
  <2>2. Durable!BeginSave
    BY <2>1 DEF Durable!BeginSave, Defaults
  <2> QED BY <2>2 DEF Durable!Next
<1>4. ASSUME hpc = "save", hpc' # "save", tree' = tree, file' \in {tree, Torn}
      PROVE  Durable!Next
  <2>1. Restored(tree) = tree /\ Restored(Torn) = Defaults
    BY RestoredFile DEF Stored
  <2>2. Restored(file)' \in {tree, Defaults}
    BY <1>4, <2>1 DEF Restored, Defaults
  <2>3. Durable!EndSave
    BY <1>4, <2>2 DEF Durable!EndSave, Defaults
  <2> QED BY <2>3 DEF Durable!Next
<1>5. CASE SaveFile \/ SaveFileFails
  BY <1>4, <1>5 DEF SaveFile, SaveFileFails, Saved, HttpGoes, Stored
<1>6. CASE EndHttp \/ Restart
  <2>1. UNCHANGED <<tree, file>> /\ hpc' = "none"
    BY <1>6 DEF EndHttp, Restart
  <2>2. CASE hpc = "save"
    BY <1>4, <2>1, <2>2 DEF Stored
  <2>3. CASE hpc # "save"
    BY <2>1, <2>3, StoreStutters
  <2> QED BY <2>2, <2>3
<1>7. CASE OpenFileFails \/ HttpRead \/ HttpConfigure \/ LockStatus \/ AnswerStatus \/ AnswerCerts
  <2>1. UNCHANGED <<tree, file>> /\ hpc # "save" /\ hpc' # "save"
    BY <1>7 DEF OpenFileFails, HttpRead, HttpConfigure, LockStatus, AnswerStatus, AnswerCerts,
      HttpGoes, treeVars
  <2> QED BY <2>1, StoreStutters
<1>8. CASE GetStatus \/ (\E c \in Changes : PostSettings(c)) \/ (\E r \in Requests : PostCerts(r))
  <2>1. UNCHANGED <<tree, file>> /\ hpc # "save" /\ hpc' # "save"
    BY <1>8 DEF GetStatus, PostSettings, PostCerts, Accept, HttpGoes, treeVars
  <2> QED BY <2>1, StoreStutters
<1>9. CASE StepCerts \/ Terminate \/ UNCHANGED vars \/ (MainStep /\ ~Load)
  <2>1. UNCHANGED <<tree, file, hpc>>
    BY <1>9 DEF StepCerts, Terminate, vars, MainStep, Register, Statuses, ReadSettings, Configure,
      Disconnect, StopInput, CancelHttp, JoinHttp, FreeTree, httpVars, treeVars
  <2> QED BY <2>1, StoreStutters
<1> QED
  BY <1>1, <1>2, <1>3, <1>5, <1>6, <1>7, <1>8, <1>9 DEF Next, HttpStep

\* Changes are shown at once; a save replaces what is stored, or loses it; a start shows
\* what is stored and never a part of it: whatever fails, is cancelled or is killed.
THEOREM SettingsAreDurable == Spec => ImplementsDurable
<1>1. Init => Durable!Init
  <2> SUFFICES ASSUME Init PROVE Durable!Init
    OBVIOUS
  <2>1. Restored(file) = Defaults /\ tree = Defaults /\ hpc = "none"
    BY DEF Init, Restored
  <2> QED BY <2>1 DEF Durable!Init, Defaults
<1>2. Stored /\ Ordered /\ [Next]_vars => [Durable!Next]_(Durable!vars)
  BY StepDurable
<1> QED BY <1>1, <1>2, StoredHolds, OrderHolds, PTL DEF Spec, ImplementsDurable, Durable!Spec

-----------------------------------------------------------------------------
(* Types. *)

Paces == {Boot[i] : i \in DOMAIN Boot} \cup {Shutdown[i] : i \in DOMAIN Shutdown}

\* The types that Stored and CertStore do not speak of; a start is counted as it begins.
Typed ==
  /\ mpc \in Paces /\ starts \in 0 .. MaxStarts /\ (mpc = "load" => starts < MaxStarts)
  /\ hpc \in {"none", "accept", "wait", "answer", "change", "save", "read", "configure", "certs"}
  /\ nodes \subseteq Endpoints
  /\ effect \in [Names -> Values]
  /\ DOMAIN cfg = {"main", "http"} /\ cfg["main"] \in [Names -> Values] /\ cfg["http"] \in [Names -> Values]
  /\ owner \in {"nobody", "http"} /\ cancelled \in BOOLEAN /\ freed \in BOOLEAN
  /\ engine \in BOOLEAN /\ overlapped \in BOOLEAN

LEMMA PacesAre ==
  /\ Starting \cup {"run"} \cup {"disconnect", "stop", "http", "tree", "exit"} \subseteq Paces
<1>1. Starting \cup {"run"} \subseteq {Boot[i] : i \in DOMAIN Boot}
  BY BootSteps DEF Starting
<1>2. DOMAIN Shutdown = 1 .. 5 /\ Shutdown[1] = "disconnect" /\ Shutdown[2] = "stop"
      /\ Shutdown[3] = "http" /\ Shutdown[4] = "tree" /\ Shutdown[5] = "exit"
  BY DEF Shutdown
<1> QED BY <1>1, <1>2 DEF Paces

LEMMA InitTyped == Init => Typed
<1> SUFFICES ASSUME Init PROVE Typed
  OBVIOUS
<1>1. 0 \in Values
  BY ServerAssumption DEF Values
<1>2. Defaults \in [Names -> Values]
  BY <1>1 DEF Defaults
<1>3. mpc \in Paces
  BY PacesAre DEF Init, Starting
<1>4. starts \in 0 .. MaxStarts /\ starts < MaxStarts
  BY ServerAssumption DEF Init
<1> QED BY <1>2, <1>3, <1>4 DEF Init, Typed

\* What is applied of settings is made of settings.
LEMMA OnlyType ==
  ASSUME NEW own, NEW v \in [Names -> Values], effect \in [Names -> Values]
  PROVE  Only(own, v) \in [Names -> Values]
BY DEF Only

\* Each step keeps them.
LEMMA StepTyped == Typed /\ Stored /\ [Next]_vars => Typed'
<1> SUFFICES ASSUME Typed, Stored, [Next]_vars PROVE Typed'
  OBVIOUS
<1> USE DEF Typed
<1>0. tree \in [Names -> Values]
  <2>1. requests \in 0 .. MaxRequests /\ tree \in Made(requests)
    BY DEF Stored
  <2> QED BY <2>1, ServerAssumption DEF Made, Values
<1>1. CASE Load
  <2>1. mpc' \in Paces /\ mpc' # "load" /\ mpc = "load"
    BY <1>1, MainSteps, PacesAre DEF Load, Starting, MainGoes
  <2>2. starts' \in 0 .. MaxStarts
    BY <1>1, <2>1, ServerAssumption DEF Load
  <2> QED BY <1>1, <2>1, <2>2 DEF Load, HttpStarts, useVars, endVars
<1>2. ASSUME NEW e \in Endpoints, Register(e) PROVE Typed'
  <2>1. mpc' \in Paces /\ mpc' # "load"
    BY <1>2, MainSteps, PacesAre DEF Register, Endpoints, Starting
  <2> QED BY <1>2, <2>1 DEF Register, httpVars, useVars, endVars
<1>3. CASE Statuses
  <2>1. effect' \in [Names -> Values]
    BY <1>0, <1>3, OnlyType DEF Statuses, ResolveModel
  <2>2. mpc' \in {"read", "run"} /\ mpc' \in Paces
    BY <1>3, PacesAre DEF Statuses, Starting
  <2>3. engine' \in BOOLEAN
    BY <1>3, <2>2 DEF Statuses
  <2> QED BY <1>3, <2>1, <2>2, <2>3 DEF Statuses, httpVars, endVars
<1>4. CASE ReadSettings
  <2>1. mpc' \in Paces /\ mpc' # "load"
    BY <1>4, MainSteps, PacesAre DEF ReadSettings, Starting
  <2>2. overlapped' \in BOOLEAN
    BY <1>4 DEF ReadSettings
  <2>3. /\ DOMAIN cfg' = {"main", "http"}
        /\ cfg'["main"] \in [Names -> Values] /\ cfg'["http"] \in [Names -> Values]
    BY <1>0, <1>4 DEF ReadSettings, Applied
  <2> QED BY <1>4, <2>1, <2>2, <2>3 DEF ReadSettings, httpVars, endVars
<1>5. CASE Configure
  <2>1. mpc' \in Paces /\ mpc' # "load"
    BY <1>5, MainSteps, PacesAre DEF Configure, Starting
  <2>2. effect' \in [Names -> Values]
    BY <1>5, OnlyType DEF Configure
  <2> QED BY <1>5, <2>1, <2>2 DEF Configure, httpVars, endVars
<1>6. CASE Terminate \/ Disconnect \/ StopInput \/ JoinHttp
  <2>1. mpc' \in Paces /\ mpc' # "load"
    BY <1>6, MainSteps, PacesAre, ShutdownOrder DEF Terminate, Disconnect, StopInput, JoinHttp
  <2> QED BY <1>6, <2>1 DEF Terminate, Disconnect, StopInput, JoinHttp, httpVars, useVars, endVars
<1>7. CASE CancelHttp
  BY <1>7 DEF CancelHttp, httpVars, useVars
<1>8. CASE FreeTree
  <2>1. mpc' \in Paces /\ mpc' # "load"
    BY <1>8, MainSteps, PacesAre DEF FreeTree
  <2> QED BY <1>8, <2>1 DEF FreeTree, httpVars, useVars
<1>9. CASE Restart
  <2>1. 0 \in Values
    BY ServerAssumption DEF Values
  <2>2. Defaults \in [Names -> Values]
    BY <2>1 DEF Defaults
  <2>3. mpc' \in Paces
    BY <1>9, PacesAre DEF Restart, Starting
  <2> QED BY <1>9, <2>2, <2>3 DEF Restart
<1>10. CASE GetStatus \/ (\E c \in Changes : PostSettings(c)) \/ (\E r \in Requests : PostCerts(r))
  <2>1. UNCHANGED <<mpc, nodes, starts, cfg, effect, engine, cancelled, owner, freed>>
    BY <1>10 DEF GetStatus, PostSettings, PostCerts, mainVars, useVars, endVars
  <2>2. hpc' \in {"wait", "change", "certs", "accept"}
    BY <1>10 DEF GetStatus, PostSettings, PostCerts, Accept, HttpGoes
  <2>3. overlapped' \in BOOLEAN
    BY <1>10 DEF GetStatus, PostSettings, PostCerts, useVars
  <2> QED BY <2>1, <2>2, <2>3
<1>11. CASE LockStatus \/ AnswerStatus
  BY <1>11 DEF LockStatus, AnswerStatus, HttpGoes, mainVars, useVars
<1>12. CASE OpenFile \/ OpenFileFails \/ SaveFile \/ SaveFileFails \/ AnswerCerts \/ StepCerts \/ EndHttp
            \/ \E n \in Names : ChangeSetting(n)
  <2>1. UNCHANGED <<mpc, nodes, starts, cfg, effect, engine, overlapped, cancelled, owner, freed>>
    BY <1>12 DEF OpenFile, OpenFileFails, SaveFile, SaveFileFails, AnswerCerts, StepCerts, EndHttp,
      ChangeSetting, mainVars, useVars, endVars
  <2>2. hpc' \in {hpc, "save", "read", "accept", "none"}
    BY <1>12 DEF OpenFile, OpenFileFails, SaveFile, SaveFileFails, AnswerCerts, StepCerts, EndHttp,
      ChangeSetting, HttpGoes, httpVars
  <2> QED BY <2>1, <2>2
<1>13. CASE HttpRead
  <2>1. /\ DOMAIN cfg' = {"main", "http"}
        /\ cfg'["main"] \in [Names -> Values] /\ cfg'["http"] \in [Names -> Values]
    BY <1>0, <1>13 DEF HttpRead, Applied
  <2> QED BY <1>13, <2>1 DEF HttpRead, HttpGoes, mainVars, endVars
<1>14. CASE HttpConfigure
  <2>1. effect' \in [Names -> Values]
    BY <1>14, OnlyType DEF HttpConfigure
  <2> QED BY <1>14, <2>1 DEF HttpConfigure, HttpGoes, mainVars, endVars
<1>15. CASE UNCHANGED vars
  BY <1>15 DEF vars, mainVars, httpVars, useVars, endVars
<1> QED
  BY <1>1, <1>2, <1>3, <1>4, <1>5, <1>6, <1>7, <1>8, <1>9, <1>10, <1>11, <1>12, <1>13, <1>14, <1>15
     DEF Next, MainStep, HttpStep

\* Every variable keeps its type.
THEOREM ServerTypeCorrect == Spec => []TypeOK
<1>1. Typed /\ Stored /\ CertTypeOK => TypeOK
  <2> SUFFICES ASSUME Typed, Stored, CertTypeOK PROVE TypeOK
    OBVIOUS
  <2>1. requests \in 0 .. MaxRequests /\ Made(requests) \subseteq [Names -> Values]
    BY ServerAssumption DEF Stored, Made, Values
  <2>2. {cfg[t] : t \in DOMAIN cfg} \subseteq [Names -> Values]
    BY DEF Typed
  <2>3. {tree, effect, posted} \subseteq [Names -> Values] /\ file \in [Names -> Values] \cup {NoSettings, Torn}
    BY <2>1 DEF Typed, Stored
  <2>4. {cancelled, freed, failed, engine, overlapped} \subseteq BOOLEAN
    BY Zenon DEF Typed, Stored
  <2> QED BY <2>1, <2>2, <2>3, <2>4 DEF TypeOK, Typed, Stored, Paces
<1>2. Spec => []CertTypeOK
  BY RunsCertStore, CertTypeCorrect, PTL
<1>3. Spec => []Typed
  BY InitTyped, StepTyped, StoredHolds, PTL DEF Spec
<1> QED BY <1>1, <1>2, <1>3, StoredHolds, PTL

-----------------------------------------------------------------------------
(* What is in effect. *)

\* A request for settings is under way.
Busy == {"change", "save", "read", "configure"}

\* What either thread has read of the settings to apply it is what they are, and what was
\* applied is in effect, unless a request is under way, or one has met main()'s own
\* application and what that read is in effect.
Effective ==
  /\ cancelled => mpc \in {"http", "tree", "exit"}
  /\ hpc = "configure" => cfg["http"] = tree
  /\ mpc = "configure" /\ ~overlapped => cfg["main"] = tree /\ hpc \notin Busy
  /\ mpc = "run" /\ engine =>
       \/ hpc \in Busy
       \/ \A n \in Names \ AtStart : effect[n] = tree[n]
       \/ overlapped /\ \A n \in Names \ AtStart : effect[n] = cfg["main"][n]

LEMMA BootEnds ==
  /\ After(Boot, "read") = "configure" /\ After(Boot, "configure") = "run"
  /\ \A x \in Endpoints \cup {"load"} : After(Boot, x) \in Starting \ {"load", "read", "configure"}
<1>1. \A i, j \in 1 .. 11 : Boot[i] = Boot[j] => i = j
  BY BootSteps
<1>2. \A i \in 1 .. 11 : After(Boot, Boot[i]) = Boot[i + 1]
  BY BootSteps, <1>1, AfterIndex
<1>3. After(Boot, "read") = "configure" /\ After(Boot, "configure") = "run"
  BY BootSteps, <1>2
<1>4. \A x \in Endpoints \cup {"load"} : \E i \in 1 .. 7 : x = Boot[i]
  BY BootSteps DEF Endpoints
<1>5. \A i \in 1 .. 7 : Boot[i + 1] \in Starting \ {"load", "read", "configure"}
  BY BootSteps DEF Starting
<1> QED BY <1>2, <1>3, <1>4, <1>5

\* Application puts settings into effect but for those that wait for the next start.
LEMMA OnlyApplies ==
  ASSUME NEW v
  PROVE  \A n \in Names \ AtStart : Only(Names \ AtStart, v)[n] = v[n]
BY DEF Only

\* Each step keeps this.
LEMMA StepEffective == Effective /\ Ordered /\ Typed /\ [Next]_vars => Effective'
<1> SUFFICES ASSUME Effective, Ordered, Typed, [Next]_vars PROVE Effective'
  OBVIOUS
<1> USE DEF Effective, Busy
<1>1. CASE Load
  BY <1>1, BootEnds DEF Load, MainGoes, HttpStarts, Starting, useVars, endVars
<1>2. ASSUME NEW e \in Endpoints, Register(e) PROVE Effective'
  <2>1. mpc = e /\ mpc' \in Starting \ {"load", "read", "configure"}
    BY <1>2, BootEnds DEF Register, MainGoes
  <2> QED BY <1>2, <2>1 DEF Register, Endpoints, Starting, httpVars, treeVars, useVars, endVars
<1>3. CASE Statuses
  BY <1>3 DEF Statuses, httpVars, treeVars, endVars
<1>4. CASE ReadSettings
  <2>1. mpc = "read" /\ mpc' = "configure"
    BY <1>4, BootEnds DEF ReadSettings, MainGoes
  <2>2. cfg'["main"] = tree /\ cfg'["http"] = cfg["http"]
    BY <1>4 DEF ReadSettings, Applied, Typed
  <2> QED BY <1>4, <2>1, <2>2 DEF ReadSettings, httpVars, treeVars, endVars
<1>5. CASE Configure
  <2>1. mpc = "configure" /\ mpc' = "run"
    BY <1>5, BootEnds DEF Configure, MainGoes
  <2>2. \A n \in Names \ AtStart : effect'[n] = cfg["main"][n]
    BY <1>5, OnlyApplies DEF Configure
  <2> QED BY <1>5, <2>1, <2>2 DEF Configure, httpVars, treeVars, endVars
<1>6. CASE Terminate \/ Disconnect \/ StopInput
  <2>1. mpc' \in {"disconnect", "stop", "http"} /\ mpc \in {"run", "disconnect", "stop"}
    BY <1>6, MainSteps, ShutdownOrder DEF Terminate, Disconnect, StopInput
  <2> QED
    BY <1>6, <2>1 DEF Terminate, Disconnect, StopInput, httpVars, treeVars, useVars, endVars
<1>7. CASE CancelHttp
  BY <1>7 DEF CancelHttp, httpVars, treeVars, useVars
<1>8. CASE JoinHttp \/ FreeTree
  <2>1. mpc' \in {"tree", "exit"}
    BY <1>8, MainSteps DEF JoinHttp, FreeTree
  <2> QED BY <1>8, <2>1 DEF JoinHttp, FreeTree, httpVars, treeVars, useVars, endVars
<1>9. CASE Restart
  BY <1>9 DEF Restart
<1>10. CASE GetStatus \/ \E r \in Requests : PostCerts(r)
  <2>1. /\ hpc = "accept" /\ hpc' \in {"wait", "certs", "accept"}
        /\ UNCHANGED <<mpc, tree, cfg, effect, engine, overlapped, cancelled>>
    BY <1>10 DEF GetStatus, PostCerts, Accept, HttpGoes, mainVars, treeVars, useVars, endVars
  <2> QED BY <2>1
<1>11. ASSUME NEW c \in Changes, PostSettings(c) PROVE Effective'
  <2>1. /\ hpc = "accept" /\ hpc' \in {"change", "accept"}
        /\ UNCHANGED <<mpc, tree, cfg, effect, engine, cancelled>>
        /\ overlapped' = IF hpc' = "change" /\ mpc = "run" THEN FALSE
                         ELSE overlapped \/ (hpc' = "change" /\ mpc = "configure")
    BY <1>11 DEF PostSettings, Accept, HttpGoes, mainVars, treeVars, useVars, endVars
  <2> QED BY <2>1
<1>12. CASE LockStatus \/ AnswerStatus \/ AnswerCerts \/ StepCerts
  <2>1. /\ hpc \notin Busy /\ hpc' \notin Busy
        /\ UNCHANGED <<mpc, tree, cfg, effect, engine, overlapped, cancelled>>
    BY <1>12 DEF LockStatus, AnswerStatus, AnswerCerts, StepCerts, HttpGoes, mainVars, treeVars,
      useVars, endVars, httpVars
  <2> QED BY <2>1
<1>13. CASE OpenFile \/ OpenFileFails \/ SaveFile \/ SaveFileFails \/ \E n \in Names : ChangeSetting(n)
  <2>1. /\ hpc \in Busy /\ hpc' \in Busy \ {"configure"}
        /\ UNCHANGED <<mpc, cfg, effect, engine, overlapped, cancelled>>
    BY <1>13 DEF OpenFile, OpenFileFails, SaveFile, SaveFileFails, ChangeSetting, HttpGoes, mainVars,
      useVars, endVars
  <2> QED BY <2>1
<1>14. CASE HttpRead
  <2>1. cfg'["http"] = tree /\ cfg'["main"] = cfg["main"]
    BY <1>14 DEF HttpRead, Applied, Typed
  <2> QED BY <1>14, <2>1 DEF HttpRead, HttpGoes, mainVars, treeVars, endVars
<1>15. CASE HttpConfigure
  <2>1. \A n \in Names \ AtStart : effect'[n] = cfg["http"][n]
    BY <1>15, OnlyApplies DEF HttpConfigure
  <2> QED BY <1>15, <2>1 DEF HttpConfigure, HttpGoes, mainVars, treeVars, endVars
<1>16. CASE EndHttp
  <2>1. mpc \in {"http", "tree", "exit"} /\ hpc' = "none"
    BY <1>16 DEF EndHttp
  <2> QED BY <1>16, <2>1 DEF EndHttp, mainVars, useVars
<1>17. CASE UNCHANGED vars
  BY <1>17 DEF vars, mainVars, httpVars, treeVars, useVars, endVars
<1> QED
  BY <1>1, <1>2, <1>3, <1>4, <1>5, <1>6, <1>7, <1>8, <1>9, <1>10, <1>11, <1>12, <1>13, <1>14, <1>15,
     <1>16, <1>17 DEF Next, MainStep, HttpStep

\* Between requests the settings that are shown are those in effect, or, from a request that
\* met main()'s own application on to the next one, those that main() had read.
THEOREM ShownTakesEffect == Spec => []ShownIsInEffect
<1>1. Init => Effective
  BY DEF Init, Effective
<1>2. Effective => ShownIsInEffect
  BY DEF Effective, Busy, ShownIsInEffect
<1>3. Spec => []Typed
  BY InitTyped, StepTyped, StoredHolds, PTL DEF Spec
<1> QED BY <1>1, <1>2, <1>3, StepEffective, OrderHolds, PTL DEF Spec
=============================================================================
