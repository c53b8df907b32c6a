------------------------- MODULE MCTranscriptPolicy -------------------------
EXTENDS TranscriptPolicy

\* Sentences of three words, with and without an end, noises, annotations that
\* are closed, open, nested, and cut in two by a sentence end; and all short words.
MCTexts ==
  {<<"a", " ", "b", " ", "A", "s", ".", " ", "b", " ", "e", ".">>,
   <<"a", "b", " ", "e", "-", "s", " ", " ", "b", "e", "e", "s", ".", "s", " ", "s", " ", "b">>,
   <<"[", "a", "]", " ", "b", " ", "(", "a", ")", " ", "e", " ", "s">>,
   <<"(", "[", "a", ".", "b", " ", "s", " ", "a", "]", " ", "e", ")", " ", "b">>,
   <<"]", "b", " ", "a", " ", "s", " ", "[", "e">>,
   <<"\"", "a", " ", "\\", "b", " ", "e", "note", "control", "\"", " ", "smile", "s">>,
   <<"-", ".", ".">>, <<"A", "b", ".">>, <<".">>, << >>,
   <<"b", "a", "b", "a", "b", "e">>, <<"b", "e", "b", "a", " ", "e", "e", "-", "b", "b", "b">>}
   \cup BoundedSeq({"a", "b", "e", "s"}, 3)

MCSettings ==
  {[useCase |-> "continuous", keywords |-> << >>, minWords |-> 3],
   [useCase |-> "voice_commands", keywords |-> <<<<"-">>, <<" ", "A">>>>, minWords |-> 0],
   [useCase |-> "voice_commands",
    keywords |-> <<<<" ", "b", "e">>, <<" ">>, <<"b", "a", "b", "b", "A", "s">>>>, minWords |-> 2]}

MCNoises == {<<"a", "b">>}

\* How a server writes a character, with or without bytes outside of ASCII.
Dumped(c, ascii) ==
  CASE c = "\"" -> Ascii("\\\"")
    [] c = "\\" -> Ascii("\\\\")
    [] c = "control" -> Ascii("\\u0001")
    [] c = "note" /\ ascii -> Ascii("\\u266A")
    [] c = "smile" /\ ascii -> Ascii("\\ud83d\\ude00")
    [] OTHER -> CharBytes(c)

Dump(t, ascii) == <<Quote>> \o FlattenSeq([i \in DOMAIN t |-> Dumped(t[i], ascii)]) \o <<Quote>>

Answer(meant, header, data) == [said |-> meant, header |-> header, data |-> data]

Header == Ascii("{\"type\": \"transcript\", \"version\": \"1.5.4\", \"data_length\": 57}")

Sung == <<"\"", "note", " ", "a", "control", "b", " ", "\\", "e", " ", "s", "smile", "\"", " ", "A">>

Plainly == <<"a", "b", " ", "e", ".", " ", "b", "e", " ", "s", " ", "a", "b">>

\* In the data, in plain bytes and in ASCII; in the header; among other members; as the
\* first of two; and not at all: nested too deeply, cut short, half a pair, another type.
MCAnswers ==
  {Answer(t, Header, Ascii("{\"text\":") \o Dump(t, ascii) \o Ascii("}")) :
     t \in {Sung, Plainly}, ascii \in BOOLEAN}
  \cup {Answer(Sung, Ascii("{\"type\":\"transcript\",\"text\":") \o Dump(Sung, TRUE) \o Ascii("}"), << >>),
        Answer(Sung, Header, Ascii("{ \"language\" : null, \"probability\": -25 , \"words\": [ 1,[], {\"a\":true}],")
                               \o Ascii("\"Text\" :") \o Dump(Sung, FALSE) \o Ascii(", \"text\": \"\"} ")),
        Answer(<< >>, Header, Ascii("{\"text\":\"a b e\",\"words\":[[[1]]]}")),
        Answer(<< >>, Header, Ascii("{\"text\":\"a b e\",")),
        Answer(<< >>, Header, Ascii("{\"text\":\"a \\ud83d b e\"}")),
        Answer(<< >>, Ascii("{\"type\":\"info\",\"data_length\":16}"), Ascii("{\"text\":\"a b e\"}"))}

MCLanguage == Ascii("de")
MCStamp    == Ascii("1733000000000")
MCName     == Ascii("Door \"A\"\\1")
MCLocation == << >>
MCSerial   == Ascii("B8A44F000000")
=============================================================================
