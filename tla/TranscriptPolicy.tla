-------------------------- MODULE TranscriptPolicy --------------------------
(***************************************************************************)
(* What main.c does with a recognised text: it is split into sentences,    *)
(* cleaned of annotations, dropped when it is too short, held against the  *)
(* command keywords, recorded, and published.  That happens on the main    *)
(* thread; the HTTP thread applies new settings meanwhile, field by field  *)
(* and keyword by keyword, without a lock.                                 *)
(*                                                                         *)
(* A text is a sequence of characters, because the properties are about    *)
(* what is done to them: a few letters, the space, a sentence end, a dash, *)
(* brackets and parentheses stand for their kinds, and so do a quote, a    *)
(* backslash, a control character and two characters outside of ASCII for  *)
(* what JSON has to escape.  The text of an external server comes as JSON  *)
(* and every text leaves as JSON, in the bytes of JsonText.                *)
(***************************************************************************)
EXTENDS JsonText

CONSTANTS
  Texts,          \* what the recogniser may answer
  Settings,       \* what may be set: use case, raw keywords, minimum of words
  Noises,         \* lower-case words for sounds, not published
  Answers,        \* what a server may send: header, data, and the text meant
  Language, Stamp,          \* of a transcript, in bytes
  Name, Location, Serial,   \* of the device, in bytes
  MaxTexts, MaxChanges   \* bounds

Letters == {"a", "b", "e", "s", "A"}
Chars   == Letters \cup {" ", ".", "-", "[", "]", "(", ")", "\"", "\\", "control", "note", "smile"}

ASSUME PolicyAssumption ==
  /\ Texts \subseteq Seq(Chars) /\ \A a \in Answers : a.said \in Seq(Chars)
  /\ {Language, Stamp, Name, Location, Serial} \subseteq Seq(1 .. 255)
  /\ Noises \subseteq Seq(Letters)
  /\ \A s \in Settings : /\ s.useCase \in {"continuous", "voice_commands"}
                         /\ s.keywords \in Seq(Seq(Chars)) /\ s.minWords \in Nat

-----------------------------------------------------------------------------
(* normalize_token, count_words *)

Fold(c) == IF c = "A" THEN "a" ELSE c

Alnum(c) == c \in Letters

NormalizeToken(t) == SelectSeq([i \in DOMAIN t |-> Fold(t[i])], Alnum)

CountWords(t) ==
  FoldLeft(LAMBDA w, c : [words |-> IF Alnum(c) /\ ~w.inWord THEN w.words + 1 ELSE w.words,
                          inWord |-> Alnum(c)],
           [words |-> 0, inWord |-> FALSE], t).words

\* g_strsplit by a separator: the pieces between, empty ones included.
Pieces(t, c) ==
  FoldLeft(LAMBDA ps, x : IF x = c THEN Append(ps, << >>)
                          ELSE [ps EXCEPT ![Len(ps)] = Append(@, x)],
           << << >> >>, t)

-----------------------------------------------------------------------------
(* levenshtein_distance and tokens_fuzzy_match *)

Smallest(x, y) == IF x < y THEN x ELSE y

\* Bug: a letter may be substituted for nothing.
Free(a, b, i, j) == 0

Cost(a, b, i, j) == IF a[i] = b[j] THEN 0 ELSE 1

\* A row of the table from the one before: after the letters of b in turn.
Row(a, b, i, prev) ==
  FoldLeftDomain(LAMBDA curr, j :
                   Append(curr, Smallest(Smallest(prev[j + 1] + 1, curr[j] + 1),
                                         prev[j] + Cost(a, b, i, j))),
                 <<i>>, b)

Levenshtein(a, b) ==
  Last(FoldLeftDomain(LAMBDA prev, i : Row(a, b, i, prev), [j \in 1 .. Len(b) + 1 |-> j - 1], a))

PluralOf(a, b) == a = b \o <<"e", "s">> \/ a = b \o <<"s">>

Threshold(a, b) == IF Len(a) <= 5 /\ Len(b) <= 5 THEN 1 ELSE 2

FuzzyMatch(a, b) ==
  /\ a # << >> /\ b # << >>
  /\ \/ PluralOf(a, b) \/ PluralOf(b, a)
     \/ Levenshtein(a, b) <= Threshold(a, b)

\* The keyword found by the first token that matches one, <<>> if none does.
FirstMatch(clean, kws) ==
  LET tokens == [i \in DOMAIN Pieces(clean, " ") |-> NormalizeToken(Pieces(clean, " ")[i])]
      hits   == {h \in (DOMAIN tokens) \X (DOMAIN kws) : FuzzyMatch(tokens[h[1]], kws[h[2]])}
      first  == CHOOSE h \in hits : \A g \in hits : h[1] < g[1] \/ (h[1] = g[1] /\ h[2] <= g[2])
  IN  IF hits = {} THEN << >> ELSE kws[first[2]]

-----------------------------------------------------------------------------
(* split_transcript_candidates and sanitize_transcript_text *)

SplitSentences(t) ==
  LET pieces == SelectSeq(Pieces(t, "."), LAMBDA p : p # << >>)
  IN  IF pieces = << >> THEN <<t>> ELSE pieces

Split(t, useCase) ==
  CASE t = << >> -> << >>
    [] t # << >> /\ useCase = "continuous" -> SplitSentences(t)
    [] OTHER -> <<t>>

Strip(t) ==
  LET solid == {i \in DOMAIN t : t[i] # " "}
  IN  IF solid = {} THEN << >> ELSE SubSeq(t, Min(solid), Max(solid))

\* Bug: a closing bracket is kept when none is open.
KeepClosing(d, c) ==
  CASE c = "[" -> [d EXCEPT !.bracket = @ + 1]
    [] c = "]" /\ d.bracket > 0 -> [d EXCEPT !.bracket = @ - 1]
    [] c = "(" -> [d EXCEPT !.paren = @ + 1]
    [] c = ")" /\ d.paren > 0 -> [d EXCEPT !.paren = @ - 1]
    [] OTHER -> [d EXCEPT !.out = IF d.bracket = 0 /\ d.paren = 0 THEN Append(@, c) ELSE @]

Down(n) == IF n > 0 THEN n - 1 ELSE 0

Unbracket(d, c) ==
  CASE c = "[" -> [d EXCEPT !.bracket = @ + 1]
    [] c = "]" -> [d EXCEPT !.bracket = Down(@)]
    [] c = "(" -> [d EXCEPT !.paren = @ + 1]
    [] c = ")" -> [d EXCEPT !.paren = Down(@)]
    [] OTHER -> [d EXCEPT !.out = IF d.bracket = 0 /\ d.paren = 0 THEN Append(@, c) ELSE @]

Collapse(t) ==
  FoldLeft(LAMBDA out, c : IF c = " " /\ out # << >> /\ Last(out) = " " THEN out ELSE Append(out, c),
           << >>, t)

Plain(t) == Strip([i \in DOMAIN t |-> IF Alnum(t[i]) THEN Fold(t[i]) ELSE " "])

Sanitize(t) ==
  LET outside == FoldLeft(Unbracket, [bracket |-> 0, paren |-> 0, out |-> << >>], t).out
      clean   == Strip(Collapse(Strip(outside)))
  IN  IF Plain(clean) \in Noises THEN << >> ELSE clean

-----------------------------------------------------------------------------
(* The texts as they come and go. *)

\* U+266A, which stands for music, and U+1F600 in UTF-8.
CharBytes(c) ==
  CASE c = "control" -> <<1>>
    [] c = "note"    -> <<226, 153, 170>>
    [] c = "smile"   -> <<240, 159, 152, 128>>
    [] OTHER         -> Ascii(c)

Encoded(t) == FlattenSeq([i \in DOMAIN t |-> CharBytes(t[i])])

\* The characters some bytes are; bytes that are none are lost.
Decoded(b) ==
  LET leads == SelectSeq([i \in DOMAIN b |-> i], LAMBDA i : b[i] \notin 128 .. 191)
      piece(k) == SubSeq(b, leads[k], IF k = Len(leads) THEN Len(b) ELSE leads[k + 1] - 1)
      known == SelectSeq([k \in DOMAIN leads |-> piece(k)],
                         LAMBDA p : \E c \in Chars : CharBytes(c) = p)
  IN  [k \in DOMAIN known |-> CHOOSE c \in Chars : CharBytes(c) = known[k]]

Members(v) == IF v.kind = "object" THEN v.items ELSE << >>

\* wyoming_poll_callback puts the members of the data behind those of the header, and
\* prints that to be parsed again.
Merged(header, h, d) ==
  IF h.ok /\ d.ok /\ Get(h.value, Ascii("data_length")).kind = "number"
  THEN PrintUnformatted(Obj(Members(h.value) \o Members(d.value))).out
  ELSE header

MergedMessage(header, data) == Merged(header, Parse(header), Parse(data))

\* What is handed to the callback of a message: nothing, if it has no text.
TranscriptOf(m) ==
  LET t == Get(m.value, Ascii("text"))
  IN  IF m.ok /\ Get(m.value, Ascii("type")) = Str(Ascii("transcript")) /\ t.kind = "string"
      THEN Decoded(t.text) ELSE << >>

Named(name, s) == IF s = << >> THEN << >> ELSE <<Member(Ascii(name), Str(s))>>

\* publish_transcript_entry, and what MQTT_Publish_JSON adds.
Message(t, k) ==
  Obj(<<Member(Ascii("language"), Str(Language)), Member(Ascii("text"), Str(Encoded(t))),
        Member(Ascii("timestamp"), Num(Stamp)),
        Member(Ascii("keywords"), Arr(IF k = << >> THEN << >> ELSE <<Str(Encoded(k))>>))>>
      \o Named("name", Name) \o Named("location", Location)
      \o <<Member(Ascii("serial"), Str(Serial))>>)

Unpublished == [out |-> << >>, length |-> 0, over |-> FALSE]

-----------------------------------------------------------------------------
VARIABLES
  mpc,         \* the main thread in Whisper_Transcript_Callback
  text,        \* the text it was called with, <<>> if a message had none
  said,        \* history variable: the text that was meant
  parts,       \* the candidates still to come
  clean,       \* the cleaned candidate
  keyword,     \* the keyword detected in it, <<>> for none
  outcome,     \* history variable: what became of the candidates of this text
  steady,      \* history variable: no settings were applied since the call
  torn,        \* the keyword array is changed while it is read
  heard,       \* texts so far
  useCase, keywordSetting, minWords,   \* g_transcription_use_case, ...
  keywords,    \* g_command_keywords_normalized
  hpc, goal,   \* the HTTP thread in apply_settings, and what it applies
  left,        \* the raw keywords still to be added to the array
  changes      \* how often settings were applied

mainVars    == <<mpc, text, said, parts, clean, keyword, outcome, heard>>
raceVars    == <<steady, torn>>
settingVars == <<useCase, keywordSetting, minWords, keywords>>
httpVars    == <<hpc, goal, left, changes>>
vars        == <<mainVars, raceVars, settingVars, httpVars>>

Clamp(n) == IF n < 1 THEN 1 ELSE IF n > 5 THEN 5 ELSE n

Normalized(raw) == SelectSeq([i \in DOMAIN raw |-> NormalizeToken(raw[i])], LAMBDA k : k # << >>)

Init ==
  /\ mpc = "idle" /\ text = << >> /\ said = << >> /\ parts = << >> /\ clean = << >> /\ keyword = << >>
  /\ outcome = << >> /\ steady = TRUE /\ torn = FALSE /\ heard = 0
  /\ \E s \in Settings : /\ useCase = s.useCase /\ keywordSetting = s.keywords
                         /\ minWords = Clamp(s.minWords) /\ keywords = Normalized(s.keywords)
                         /\ goal = s
  /\ hpc = "idle" /\ left = << >> /\ changes = 0

-----------------------------------------------------------------------------
(* The main thread. *)

Main(from, to) == mpc = from /\ mpc' = to

Begin(t) ==
  /\ Main("idle", "part")
  /\ heard < MaxTexts
  /\ heard' = heard + 1 /\ text' = t
  /\ parts' = Split(t, useCase)
  /\ outcome' = << >> /\ steady' = (hpc = "idle")
  /\ UNCHANGED <<clean, keyword, torn, settingVars, httpVars>>

\* From whisper.cpp.
Hear(t) == Begin(t) /\ said' = t

\* From an external server; nothing is called for a message without a text.
HearServer(a) ==
  /\ Begin(TranscriptOf(Parse(MergedMessage(a.header, a.data))))
  /\ said' = a.said

EndOfText ==
  /\ Main("part", "idle")
  /\ parts = << >>
  /\ UNCHANGED <<text, said, parts, clean, keyword, outcome, heard, raceVars, settingVars, httpVars>>

MinWordsRequired == IF useCase = "voice_commands" THEN minWords ELSE 3

LongEnough(t) == t # << >> /\ CountWords(t) >= MinWordsRequired

\* Blank and short candidates are dropped.
TakePart ==
  /\ mpc = "part" /\ parts # << >>
  /\ LET c == Sanitize(Head(parts))
     IN  IF LongEnough(c) THEN mpc' = "gate" /\ clean' = c
                          ELSE UNCHANGED <<mpc, clean>>
  /\ keyword' = << >>
  /\ parts' = Tail(parts)
  /\ UNCHANGED <<text, said, outcome, heard, raceVars, settingVars, httpVars>>

Gate ==
  /\ mpc = "gate"
  /\ IF useCase = "voice_commands"
     THEN mpc' = "match" /\ torn' = (hpc = "rebuild")
     ELSE mpc' = "topic" /\ UNCHANGED torn
  /\ UNCHANGED <<text, said, parts, clean, keyword, outcome, heard, steady, settingVars, httpVars>>

Verdict(k) ==
  /\ keyword' = k
  /\ IF k = << >>
     THEN /\ mpc' = "part"
          /\ outcome' = Append(outcome, [text |-> clean, keyword |-> k, topic |-> "ignored",
                                        payload |-> Unpublished])
     ELSE mpc' = "topic" /\ UNCHANGED outcome

\* A keyword array that is emptied or filled while it is walked: a freed keyword or
\* a moved array is read, which finds anything or ends the program.
Match ==
  /\ mpc = "match"
  /\ \/ ~torn /\ Verdict(FirstMatch(clean, keywords))
     \/ torn /\ \E k \in ToSet(Normalized(keywordSetting)) \cup ToSet(keywords) \cup {<< >>} : Verdict(k)
     \/ torn /\ mpc' = "crashed" /\ UNCHANGED <<keyword, outcome>>
  /\ UNCHANGED <<text, said, parts, clean, heard, raceVars, settingVars, httpVars>>

\* publish_transcript_entry chooses the topic by the use case as it is by then.  The
\* client is taken to be connected: MqttClient says when it is.
Publish ==
  /\ Main("topic", "part")
  /\ outcome' = Append(outcome,
       [text |-> clean, keyword |-> keyword,
        topic |-> IF useCase = "voice_commands" THEN "command" ELSE "transcription",
        payload |-> PrintUnformatted(Message(clean, keyword))])
  /\ UNCHANGED <<text, said, parts, clean, keyword, heard, raceVars, settingVars, httpVars>>

-----------------------------------------------------------------------------
(* The HTTP thread in apply_settings. *)

Http(from, to) == mpc # "crashed" /\ hpc = from /\ hpc' = to

Apply(s) ==
  /\ Http("idle", "keywords")
  /\ changes < MaxChanges
  /\ changes' = changes + 1 /\ goal' = s
  /\ useCase' = s.useCase
  /\ steady' = FALSE
  /\ UNCHANGED <<mainVars, torn, keywordSetting, minWords, keywords, left>>

ApplyKeywords ==
  /\ Http("keywords", "words")
  /\ keywordSetting' = goal.keywords
  /\ UNCHANGED <<mainVars, raceVars, useCase, minWords, keywords, goal, left, changes>>

ApplyMinWords ==
  /\ Http("words", "clamp")
  /\ minWords' = goal.minWords
  /\ UNCHANGED <<mainVars, raceVars, useCase, keywordSetting, keywords, goal, left, changes>>

ApplyClamp ==
  /\ Http("clamp", "clear")
  /\ minWords' = Clamp(minWords)
  /\ UNCHANGED <<mainVars, raceVars, useCase, keywordSetting, keywords, goal, left, changes>>

Cleared(array) == << >>

RebuildBegin ==
  /\ Http("clear", "rebuild")
  /\ keywords' = Cleared(keywords)
  /\ left' = Normalized(keywordSetting)
  /\ torn' = (mpc = "match" \/ torn)
  /\ UNCHANGED <<mainVars, steady, useCase, keywordSetting, minWords, goal, changes>>

RebuildAdd ==
  /\ Http("rebuild", "rebuild") /\ left # << >>
  /\ keywords' = Append(keywords, Head(left))
  /\ left' = Tail(left)
  /\ torn' = (mpc = "match" \/ torn)
  /\ UNCHANGED <<mainVars, steady, useCase, keywordSetting, minWords, goal, changes>>

RebuildEnd ==
  /\ Http("rebuild", "idle") /\ left = << >>
  /\ UNCHANGED <<mainVars, raceVars, settingVars, goal, left, changes>>

MainStep == EndOfText \/ TakePart \/ Gate \/ Match \/ Publish
HttpStep == ApplyKeywords \/ ApplyMinWords \/ ApplyClamp \/ RebuildBegin \/ RebuildAdd \/ RebuildEnd

Next == \/ MainStep \/ (\E t \in Texts : Hear(t)) \/ (\E a \in Answers : HearServer(a))
        \/ HttpStep \/ \E s \in Settings : Apply(s)

\* No liveness is asked for: each thread only counts down through what it was given.
Spec == Init /\ [][Next]_vars

-----------------------------------------------------------------------------
Topics == {"ignored", "transcription", "command"}

TypeOK ==
  /\ mpc \in {"idle", "part", "gate", "match", "topic", "crashed"}
  /\ {text, said} \subseteq Seq(Chars) /\ parts \in Seq(Seq(Chars)) /\ clean \in Seq(Chars)
  /\ keyword \in Seq(Letters)
  /\ outcome \in Seq([text : Seq(Chars), keyword : Seq(Letters), topic : Topics,
                      payload : [out : Seq(1 .. 255), length : Nat, over : BOOLEAN]])
  /\ steady \in BOOLEAN /\ torn \in BOOLEAN /\ heard \in 0 .. MaxTexts
  /\ useCase \in {"continuous", "voice_commands"}
  /\ keywordSetting \in Seq(Seq(Chars)) /\ minWords \in Nat
  /\ keywords \in Seq(Seq(Letters) \ {<< >>})
  /\ hpc \in {"idle", "keywords", "words", "clamp", "clear", "rebuild"}
  /\ goal \in Settings /\ left \in Seq(Seq(Letters)) /\ changes \in 0 .. MaxChanges

\* What one edit makes of a token; two tokens are within two edits if they meet.
Edited(t) ==
  {t} \cup {SubSeq(t, 1, i - 1) \o SubSeq(t, i + 1, Len(t)) : i \in DOMAIN t}
      \cup {[t EXCEPT ![i] = c] : i \in DOMAIN t, c \in Letters}
      \cup {SubSeq(t, 1, i) \o <<c>> \o SubSeq(t, i + 1, Len(t)) : i \in 0 .. Len(t), c \in Letters}

Alike(a, b) ==
  \/ PluralOf(a, b) \/ PluralOf(b, a)
  \/ IF Threshold(a, b) = 1 THEN b \in Edited(a) ELSE Edited(a) \cap Edited(b) # {}

Words(t) == Cardinality({i \in DOMAIN t : Alnum(t[i]) /\ (i = 1 \/ ~Alnum(t[i - 1]))})

Tokens(t) == {NormalizeToken(p) : p \in ToSet(Pieces(t, " "))} \ {<< >>}

Matches(t) == \E a \in Tokens(t) : \E b \in ToSet(Normalized(keywordSetting)) : Alike(a, b)

\* "Requires at least one keyword fuzzy match": as long as the settings are left
\* alone a candidate is published as the use case says, with enough words, and as a
\* command exactly if one of its words is a keyword that is set, up to plural or a few
\* edits, however often settings were applied before.
VerdictIsRight ==
  steady => minWords \in 1 .. 5 /\ \A i \in DOMAIN outcome :
    LET o == outcome[i]
    IN  /\ Words(o.text) >= (IF useCase = "voice_commands" THEN minWords ELSE 3)
        /\ o.topic = (CASE useCase = "continuous" -> "transcription"
                        [] useCase = "voice_commands" /\ Matches(o.text) -> "command"
                        [] OTHER -> "ignored")
        /\ o.topic = "command" => o.keyword \in ToSet(keywords)

\* A sentence: a piece of the text between two sentence ends.
Sentences(t) ==
  {SubSeq(t, i, j) : <<i, j>> \in
     {ij \in (1 .. Len(t)) \X (1 .. Len(t)) :
        /\ ij[1] <= ij[2] /\ \A k \in ij[1] .. ij[2] : t[k] # "."
        /\ ij[1] = 1 \/ t[ij[1] - 1] = "."
        /\ ij[2] = Len(t) \/ t[ij[2] + 1] = "."}}

Spoken(t) == \A i \in DOMAIN t : t[i] \notin {"[", "]", "(", ")"}

\* No bracket and no needless space.
Tidy(t) ==
  /\ t # << >> /\ t[1] # " " /\ Last(t) # " "
  /\ Spoken(t)
  /\ \A j \in 2 .. Len(t) : t[j - 1] # " " \/ t[j] # " "

\* Whatever settings are applied meanwhile, what is recorded or published is tidy; and in
\* continuous mode no sentence of three words or more without an annotation is lost.
SentencesAreKept ==
  /\ \A i \in DOMAIN outcome : Tidy(outcome[i].text)
  /\ mpc = "idle" /\ steady /\ useCase = "continuous" =>
       \A s \in Sentences(text) :
         Spoken(s) /\ Words(s) >= 3 =>
           \E i \in DOMAIN outcome : Strip(Collapse(s)) = outcome[i].text

\* The bytes of a string in a parsed text.
TextIn(v, name) == Get(v, Ascii(name)).text

\* The parsed payload of an outcome says the text, the keyword and the device.
Says(r, o) ==
  /\ r.ok /\ r.at = Len(o.payload.out) + 1
  /\ TextIn(r.value, "text") = Encoded(o.text)
  /\ <<TextIn(r.value, "language"), TextIn(r.value, "timestamp")>> = <<Language, Stamp>>
  /\ Get(r.value, Ascii("keywords")).items =
       (IF o.keyword = << >> THEN << >> ELSE <<Str(Encoded(o.keyword))>>)
  /\ Name # << >> => TextIn(r.value, "name") = Name
  /\ Location # << >> => TextIn(r.value, "location") = Location

\* A text survives the ways it is written in.  What is heard from a server is what it
\* meant, whatever it escapes and puts around it; and a payload is one JSON text, without
\* a bare control character, that says the text, the keyword and the device, printed
\* without overrunning the buffer.
TextSurvives ==
  /\ text = said
  /\ \A i \in DOMAIN outcome :
       LET o == outcome[i]
       IN  o.topic # "ignored" =>
             /\ ~o.payload.over /\ \A k \in DOMAIN o.payload.out : o.payload.out[k] > 31
             /\ Says(Parse(o.payload.out), o)
=============================================================================
