----------------------------- MODULE CertStore -----------------------------
(***************************************************************************)
(* CERTS.c: the CA, the certificate and the key for the broker, each in a  *)
(* file of its own, the password of the key in one more, and the settings  *)
(* that name the files there are.  A request of the HTTP thread writes or  *)
(* removes files step by step; each step may fail, and the program may end *)
(* between two; the next start loads what it finds.                        *)
(***************************************************************************)
EXTENDS Naturals

CONSTANTS
  Posted,        \* the texts that requests hold
  Passwords,     \* the passwords that requests hold, of any length
  NoFile, NoPassword, Garbled

ASSUME CertAssumption ==
  /\ Posted \subseteq [size : 0 .. 4, begins : BOOLEAN]
  /\ \A p \in Passwords : p.length \in Nat
  /\ NoPassword \notin Passwords /\ Garbled \notin Passwords /\ NoPassword # Garbled
  /\ [text |-> "", length |-> 0] \in Passwords
  /\ NoFile \notin [size : 0 .. 4, begins : BOOLEAN]

Types == {"ca", "cert", "key"}

\* A text: its size, 0 for none, 1 for 50 bytes and less, 2 for less than 500, 3 for less
\* than 9000, 4 for more; and whether it says BEGIN CERTIFICATE.
Texts == [size : 0 .. 4, begins : BOOLEAN]

NoText == [size |-> 0, begins |-> FALSE]

\* A password may be empty; a request without one is another thing.
Empty == [text |-> "", length |-> 0]

\* What a write that fails may leave of a text; BEGIN CERTIFICATE is its first line.
Prefixes(p) == {q \in Texts : q.size <= p.size /\ (q.begins <=> p.begins /\ q.size > 0)}

VARIABLES
  pem,      \* the files ca.pem, cert.pem and key.pem
  ph,       \* the file ph.txt; NoPassword if there is none
  served,   \* CERTS_Init is done and the endpoint is registered
  named,    \* CERTS_SETTINGS: the types whose file it names
  pass,     \* CERTS_SETTINGS: the password
  shown,    \* the status of the certificates
  cpc,      \* where the request is
  creq,     \* what it asks for
  fits,     \* history variable: the password posted with the text in key.pem
  aged,     \* history variable: there was a start since
  cut       \* history variable: a write has failed, or a request was cut short

certVars == <<pem, ph, served, named, pass, shown, cpc, creq, fits, aged, cut>>

NoRequest == [type |-> "ca", pem |-> NoText, password |-> NoPassword]

CertInit ==
  /\ pem = [t \in Types |-> NoFile] /\ ph = NoPassword
  /\ served = FALSE /\ named = {} /\ pass = NoPassword
  /\ shown = [f \in Types \cup {"CA", "password"} |-> FALSE]
  /\ cpc = "idle" /\ creq = NoRequest
  /\ fits = NoPassword /\ aged = FALSE /\ cut = FALSE

-----------------------------------------------------------------------------
(* CERTS_Init *)

Loads(t, p) == p # NoFile /\ p.size \in 2 .. 3 /\ (t # "key" => p.begins)

\* A file of 100 bytes is too long, one of 3 invalid.
LoadsPassword(p) == p.length < 100 /\ p.length > 3

\* What may be read back of the file of the password.  It is read into a buffer without
\* an end: what is found in memory after it may be taken for a part of it.
ReadBack(f) ==
  CASE f = Garbled -> {NoPassword, Garbled}
    [] f \in Passwords /\ LoadsPassword(f) -> {f, Garbled}
    [] OTHER -> {NoPassword}

\* The status of a certificate that was loaded is off nevertheless, and so is that of
\* the password.
CertsInit ==
  /\ ~served /\ served' = TRUE
  /\ named' = {t \in Types : Loads(t, pem[t])}
  /\ pass' \in ReadBack(ph)
  /\ shown' = [shown EXCEPT !["ca"] = "ca" \in named', !["cert"] = FALSE,
                            !["key"] = "key" \in named', !["password"] = FALSE]
  /\ aged' = TRUE
  /\ UNCHANGED <<pem, ph, cpc, creq, fits, cut>>

\* A request that is under way is cut short.
Cut ==
  /\ cut' = (cut \/ cpc # "idle")
  /\ cpc' = "idle" /\ creq' = NoRequest
  /\ UNCHANGED <<pem, ph, fits, aged>>

CertsCut == Cut /\ UNCHANGED <<served, named, pass, shown>>

\* What CERTS_Get_CA, _Cert, _Key and _Password give to the broker's client: the CAs of
\* the device unless there is one of its own, a certificate and its key or neither.  An
\* empty password is none to the client.
Given ==
  [ca       |-> IF "ca" \in named THEN "file" ELSE "device",
   pair     |-> {"cert", "key"} \subseteq named,
   password |-> IF pass = Empty THEN NoPassword ELSE pass]

\* The program ends.
CertsEnd ==
  /\ served' = FALSE /\ named' = {} /\ pass' = NoPassword
  /\ shown' = [f \in DOMAIN shown |-> FALSE]
  /\ Cut

-----------------------------------------------------------------------------
(* CERTS_HTTP, POST *)

At(from, to) == cpc = from /\ cpc' = to

\* Bug: the setting stays.
DropNothing(f, v) == f

Drop(f, v) == f \ {v}

\* A text of less than 500 bytes asks for the removal of what there is.
CertsReceive(r) ==
  /\ served
  /\ At("idle", IF r.pem.size > 2 THEN "open" ELSE IF r.type \in named THEN "remove" ELSE "idle")
  /\ creq' = IF cpc' = "idle" THEN NoRequest ELSE r
  /\ UNCHANGED <<pem, ph, served, named, pass, shown, fits, aged, cut>>

Answer == cpc' = "idle" /\ creq' = NoRequest

\* The file is deleted, and the setting with it.  The key goes with its certificate,
\* the password with its key.
Remove ==
  /\ At("remove", CASE creq.type = "ca" -> "open" [] creq.type = "cert" -> "key" [] OTHER -> "password")
  /\ pem[creq.type] # NoFile
  /\ pem' = [pem EXCEPT ![creq.type] = NoFile]
  /\ named' = Drop(named, creq.type)
  /\ shown' = IF creq.type = "ca" THEN [shown EXCEPT !["CA"] = FALSE] ELSE shown
  /\ UNCHANGED <<ph, served, pass, creq, fits, aged, cut>>

RemoveFails ==
  /\ cpc = "remove" /\ Answer
  /\ UNCHANGED <<pem, ph, served, named, pass, shown, fits, aged, cut>>

\* Bug: the file of the key stays.
KeyFileStays == pem

KeyFileGone == [pem EXCEPT !["key"] = NoFile]

RemoveKeyToo ==
  /\ At("key", IF pass # NoPassword THEN "password" ELSE "open")
  /\ pem["key"] # NoFile
  /\ pem' = KeyFileGone
  /\ named' = Drop(named, "key")
  /\ shown' = IF cpc' = "open" THEN [shown EXCEPT !["cert"] = FALSE] ELSE shown
  /\ UNCHANGED <<ph, served, pass, creq, fits, aged, cut>>

KeyStays ==
  /\ At("key", "open")
  /\ shown' = [shown EXCEPT !["cert"] = FALSE]
  /\ UNCHANGED <<pem, ph, served, named, pass, creq, fits, aged, cut>>

\* Nobody looks whether the password could be deleted.
RemovePassword ==
  /\ At("password", "open")
  /\ ph' \in {ph, NoPassword}
  /\ pass' = NoPassword
  /\ shown' = IF creq.type = "cert" THEN [shown EXCEPT !["cert"] = FALSE]
              ELSE [shown EXCEPT !["key"] = FALSE, !["password"] = @ /\ pass = NoPassword]
  /\ UNCHANGED <<pem, served, named, creq, fits, aged, cut>>

\* A removal ends here too: the short text becomes the file.
Open ==
  /\ At("open", "fill")
  /\ pem' = [pem EXCEPT ![creq.type] = NoText]
  /\ UNCHANGED <<ph, served, named, pass, shown, creq, fits, aged, cut>>

OpenFails ==
  /\ cpc = "open" /\ Answer
  /\ UNCHANGED <<pem, ph, served, named, pass, shown, fits, aged, cut>>

\* Bug: the password of the last key is kept for one without.
KeepPassword == IF creq.password = NoPassword THEN pass ELSE creq.password

NewPassword == creq.password

ShownNow == [shown EXCEPT ![creq.type] = TRUE]

\* The text is written, then the setting is put, and the password of a key.
Fill ==
  /\ creq.pem.size > 0
  /\ At("fill", IF creq.type = "key" /\ creq.password # NoPassword THEN "openPh" ELSE "idle")
  /\ creq' = IF cpc' = "idle" THEN NoRequest ELSE creq
  /\ pem' = [pem EXCEPT ![creq.type] = creq.pem]
  /\ named' = named \cup {creq.type}
  /\ shown' = IF creq.type # "key" THEN ShownNow
              ELSE [ShownNow EXCEPT !["password"] = creq.password # NoPassword]
  /\ IF creq.type = "key" THEN pass' = NewPassword /\ fits' = creq.password /\ aged' = FALSE
     ELSE UNCHANGED <<pass, fits, aged>>
  /\ UNCHANGED <<ph, served, cut>>

\* So does the write of no text, which leaves nothing half written.
FillFails ==
  /\ cpc = "fill" /\ Answer
  /\ \E p \in Prefixes(creq.pem) : pem' = [pem EXCEPT ![creq.type] = p]
  /\ cut' = (cut \/ creq.pem.size > 0)
  /\ UNCHANGED <<ph, served, named, pass, shown, fits, aged>>

OpenPassword ==
  /\ At("openPh", "fillPh")
  /\ ph' = Empty
  /\ UNCHANGED <<pem, served, named, pass, shown, creq, fits, aged, cut>>

FillPassword ==
  /\ cpc = "fillPh" /\ Answer
  /\ ph' = creq.password
  /\ UNCHANGED <<pem, served, named, pass, shown, fits, aged, cut>>

\* A failure is logged, or not even that, and the answer is OK.
PasswordFails ==
  /\ cpc \in {"openPh", "fillPh"} /\ Answer
  /\ ph' \in IF cpc = "openPh" THEN {ph} ELSE {Empty, Garbled}
  /\ cut' = TRUE
  /\ UNCHANGED <<pem, served, named, pass, shown, fits, aged>>

CertStep ==
  \/ Remove \/ RemoveFails \/ RemoveKeyToo \/ KeyStays \/ RemovePassword
  \/ Open \/ OpenFails \/ Fill \/ FillFails
  \/ OpenPassword \/ FillPassword \/ PasswordFails

\* The password of a request counts for a key only.
Requests ==
  {r \in [type : Types, pem : Posted, password : Passwords \cup {NoPassword}] :
     r.type # "key" => r.password = NoPassword}

CertNext == CertsInit \/ CertsCut \/ CertsEnd \/ CertStep \/ \E r \in Requests : CertsReceive(r)

CertSpec == CertInit /\ [][CertNext]_certVars

-----------------------------------------------------------------------------
CertTypeOK ==
  /\ pem \in [Types -> Texts \cup {NoFile}]
  /\ ph \in Passwords \cup {NoPassword, Garbled} /\ pass \in Passwords \cup {NoPassword, Garbled}
  /\ served \in BOOLEAN /\ aged \in BOOLEAN /\ cut \in BOOLEAN
  /\ named \in SUBSET Types
  /\ shown \in [Types \cup {"CA", "password"} -> BOOLEAN]
  /\ cpc \in {"idle", "remove", "key", "password", "open", "fill", "openPh", "fillPh"}
  /\ creq \in Requests \cup {NoRequest}
  /\ fits \in Passwords \cup {NoPassword}

\* A file that the settings name, and the broker's client is told to use, exists, empty or
\* torn though it may be after a write that failed: whatever was removed, could not be
\* written, or was cut short before the last start.
NamedIsThere == \A t \in named : pem[t] # NoFile

\* What was removed does not come back: the next start would name no file that the
\* settings do not name, unless a write was cut short.
NothingComesBack ==
  served /\ cpc = "idle" /\ ~cut => \A t \in Types : Loads(t, pem[t]) => t \in named

\* Until the next start the client is given the password that came with the key it is
\* given.  A start keeps a password of 4 to 99 bytes, or garbles it, and forgets any other;
\* for a key without one it may bring back what an older key has left in the file.
PasswordFits ==
  served /\ cpc = "idle" /\ ~cut /\ Given.pair =>
    \/ ~aged /\ Given.password = (IF fits = Empty THEN NoPassword ELSE fits)
    \/ aged /\ fits \in Passwords /\ fits.length \in 4 .. 99 /\ Given.password \in {fits, Garbled}
    \/ aged /\ fits \in Passwords /\ fits.length \notin 4 .. 99 /\ Given.password = NoPassword
    \/ aged /\ fits = NoPassword /\ Given.password \in {NoPassword, ph, Garbled}

\* The status shows every CA and every key that the settings name, also after a start.
NamedIsShown == served /\ cpc = "idle" => \A t \in {"ca", "key"} \cap named : shown[t]
=============================================================================
