------------------------------ MODULE JsonText ------------------------------
(***************************************************************************)
(* The texts of cJSON: what cJSON_Parse makes of a text and                *)
(* cJSON_PrintUnformatted of a value.  A text is a sequence of bytes, a    *)
(* value a record: a string holds the bytes up to the first zero, a number *)
(* its digits (numbers are integers of up to 15 digits without a leading   *)
(* zero, which "%d" and "%1.15g" both write in full), an array its         *)
(* elements and an object its members, each a name and a value.            *)
(* Allocation succeeds, and texts stay below INT_MAX / 2.                  *)
(***************************************************************************)
EXTENDS Integers, Sequences, FiniteSets, SequencesExt, FiniteSetsExt, TLC

CONSTANTS
  NestingLimit,   \* CJSON_NESTING_LIMIT
  BufferSize      \* what print() allocates first

ASSUME TextAssumption == NestingLimit \in Nat /\ BufferSize \in Nat \ {0}

\* The characters from space to underscore and from a on, in the order of ASCII.
Characters ==
  [above |-> " !\"#$%&'()*+,-./0123456789:;<=>?@ABCDEFGHIJKLMNOPQRSTUVWXYZ[\\]^_",
   below |-> "abcdefghijklmnopqrstuvwxyz{|}~"]

Ordinals(s, start) == [c \in {SubSeq(s, k, k) : k \in 1 .. Len(s)} |->
                         start + CHOOSE k \in 1 .. Len(s) : SubSeq(s, k, k) = c]

Ordinal == Ordinals(Characters.above, 31) @@ Ordinals(Characters.below, 96)

Ascii(s) == [k \in 1 .. Len(s) |-> Ordinal[SubSeq(s, k, k)]]

Quote     == 34
Backslash == 92
LetterU   == 117

Digits == 48 .. 57

Failed == [ok |-> FALSE]

\* Text has been taken up to at, for value.
Parsed(value, at) == [ok |-> TRUE, value |-> value, at |-> at]

Literal(s) == [kind |-> "literal", text |-> s]
Str(s)     == [kind |-> "string", text |-> s]
Num(s)     == [kind |-> "number", text |-> s]
Arr(items) == [kind |-> "array", items |-> items]
Obj(items) == [kind |-> "object", items |-> items]

Member(name, value) == [name |-> name, value |-> value]

\* The string C sees in some bytes.
CString(s) ==
  LET zeros == {i \in DOMAIN s : s[i] = 0}
  IN  IF zeros = {} THEN s ELSE SubSeq(s, 1, Min(zeros) - 1)

-----------------------------------------------------------------------------
(* parse_hex4 and utf16_literal_to_utf8 *)

HexValue(c) ==
  CASE c \in Digits -> c - 48
    [] c \in 65 .. 70 -> c - 55
    [] c \in 97 .. 102 -> c - 87
    [] OTHER -> -1

\* Anything but four hexadecimal digits counts as zero.
Hex4(b, i) ==
  LET v == [k \in 0 .. 3 |-> HexValue(b[i + k])]
  IN  IF \E k \in 0 .. 3 : v[k] = -1 THEN 0 ELSE v[0] * 4096 + v[1] * 256 + v[2] * 16 + v[3]

HighSurrogates == 55296 .. 56319   \* D800 to DBFF
LowSurrogates  == 56320 .. 57343   \* DC00 to DFFF

\* The literal of one or two sequences at i, in a string that ends at e: how many bytes
\* it takes, 0 if it is none.
LiteralLength(b, i, e) ==
  LET code == Hex4(b, i + 2)
  IN  CASE e - i < 6 -> 0
        [] e - i >= 6 /\ code \in LowSurrogates -> 0
        [] e - i >= 6 /\ code \in HighSurrogates ->
             IF /\ e - i >= 12 /\ b[i + 6] = Backslash /\ b[i + 7] = LetterU
                /\ Hex4(b, i + 8) \in LowSurrogates
             THEN 12 ELSE 0
        [] OTHER -> 6

CodePoint(b, i) ==
  LET code == Hex4(b, i + 2)
  IN  IF code \in HighSurrogates
      THEN 65536 + (code % 1024) * 1024 + (Hex4(b, i + 8) % 1024)
      ELSE code

\* A byte that continues a character, with the k-th group of six bits from the end.
Continues(c, k) == 128 + ((c \div (64 ^ k)) % 64)

Utf8(c) ==
  CASE c < 128 -> <<c>>
    [] c \in 128 .. 2047 -> <<192 + (c \div 64), Continues(c, 0)>>
    [] c \in 2048 .. 65535 -> <<224 + (c \div 4096), Continues(c, 1), Continues(c, 0)>>
    [] OTHER -> <<240 + (c \div 262144), Continues(c, 2), Continues(c, 1), Continues(c, 0)>>

-----------------------------------------------------------------------------
(* parse_string *)

\* What a backslash and a letter stand for.
Unescaped == Ordinal["b"] :> 8 @@ Ordinal["f"] :> 12 @@ Ordinal["n"] :> 10 @@ Ordinal["r"] :> 13
             @@ Ordinal["t"] :> 9 @@ Quote :> Quote @@ Backslash :> Backslash @@ Ordinal["/"] :> 47

\* Where the string ends that goes on at j, 0 if it does not.
RECURSIVE Closing(_, _)
Closing(b, j) ==
  CASE j > Len(b) -> 0
    [] j <= Len(b) /\ b[j] = Quote -> j
    [] j <= Len(b) /\ b[j] = Backslash -> Closing(b, j + 2)
    [] OTHER -> Closing(b, j + 1)

RECURSIVE Unescape(_, _, _, _)
Unescape(b, i, e, out) ==
  LET c == b[i + 1]
      n == LiteralLength(b, i, e)
  IN  CASE i >= e -> Parsed(Str(CString(out)), e + 1)
        [] i < e /\ b[i] # Backslash -> Unescape(b, i + 1, e, Append(out, b[i]))
        [] i < e /\ b[i] = Backslash /\ c \in DOMAIN Unescaped ->
             Unescape(b, i + 2, e, Append(out, Unescaped[c]))
        [] i < e /\ b[i] = Backslash /\ c = LetterU ->
             IF n = 0 THEN Failed ELSE Unescape(b, i + n, e, out \o Utf8(CodePoint(b, i)))
        [] OTHER -> Failed

ParseString(b, i) ==
  LET e == Closing(b, i + 1)
  IN  IF b[i] # Quote \/ e = 0 THEN Failed ELSE Unescape(b, i + 1, e, << >>)

-----------------------------------------------------------------------------
(* parse_number, parse_value, parse_array and parse_object.  A text to parse *)
(* ends with its zero byte, which counts as white space.                     *)

\* buffer_skip_whitespace stops at the last byte at the latest.
Skip(b, i) ==
  LET solid == {j \in i .. Len(b) : b[j] > 32}
  IN  IF i > Len(b) THEN i ELSE IF solid = {} THEN Len(b) ELSE Min(solid)

Begins(b, i, s) == i + Len(s) - 1 <= Len(b) /\ SubSeq(b, i, i + Len(s) - 1) = s

\* At most 63 bytes are looked at.
ParseNumber(b, i) ==
  LET first == IF b[i] = Ordinal["-"] THEN i + 1 ELSE i
      last  == Max({first - 1} \cup {j \in first .. Min({i + 62, Len(b)}) :
                                       \A k \in first .. j : b[k] \in Digits})
  IN  IF last < first THEN Failed ELSE Parsed(Num(SubSeq(b, i, last)), last + 1)

RECURSIVE ParseValue(_, _, _), ParseItems(_, _, _, _, _)

\* What follows a name and a colon.
ParseNamed(b, name, d) ==
  LET colon == Skip(b, name.at)
  IN  IF ~name.ok THEN Failed
      ELSE IF b[colon] # Ordinal[":"] THEN Failed
      ELSE ParseValue(b, Skip(b, colon + 1), d)

Joined(name, value) ==
  IF value.ok THEN Parsed(Member(name.value.text, value.value), value.at) ELSE Failed

ParseMember(b, i, d) ==
  LET name == ParseString(b, i)
  IN  Joined(name, ParseNamed(b, name, d))

\* The rest, with item behind those already taken, and the bracket that closes them.
ParseRest(b, item, d, close, items) ==
  LET next == Skip(b, item.at)
      all  == Append(items, item.value)
  IN  IF ~item.ok THEN Failed
      ELSE IF b[next] = Ordinal[","] THEN ParseItems(b, Skip(b, next + 1), d, close, all)
      ELSE IF b[next] = Ordinal[close] THEN Parsed(all, next + 1)
      ELSE Failed

ParseItems(b, i, d, close, items) ==
  ParseRest(b, IF close = "]" THEN ParseValue(b, i, d) ELSE ParseMember(b, i, d), d, close, items)

\* What the bracket at i encloses, d brackets deep.
ParseEnclosed(b, i, d, close) ==
  LET inside == Skip(b, i + 1)
  IN  CASE d >= NestingLimit -> Failed
        [] d < NestingLimit /\ b[inside] = Ordinal[close] -> Parsed(<< >>, inside + 1)
        [] OTHER -> ParseItems(b, inside, d + 1, close, << >>)

Wrapped(r, kind) == IF r.ok THEN Parsed([kind |-> kind, items |-> r.value], r.at) ELSE Failed

Literals == {Ascii("null"), Ascii("false"), Ascii("true")}

ParseValue(b, i, d) ==
  LET words == {w \in Literals : Begins(b, i, w)}
      word  == CHOOSE w \in words : TRUE
  IN  CASE i > Len(b) -> Failed
        [] words # {} -> Parsed(Literal(word), i + Len(word))
        [] Begins(b, i, <<Quote>>) -> ParseString(b, i)
        [] i <= Len(b) /\ b[i] \in Digits \cup {Ordinal["-"]} -> ParseNumber(b, i)
        [] Begins(b, i, Ascii("[")) -> Wrapped(ParseEnclosed(b, i, d, "]"), "array")
        [] Begins(b, i, Ascii("{")) -> Wrapped(ParseEnclosed(b, i, d, "}"), "object")
        [] OTHER -> Failed

\* cJSON_Parse, of a text without its zero byte.  What follows the value does not matter.
Parse(text) ==
  LET b == Append(text, 0)
      i == IF Len(b) > 4 /\ Begins(b, 1, <<239, 187, 191>>) THEN 4 ELSE 1
  IN  ParseValue(b, Skip(b, i), 0)

LowerCase(s) == [i \in DOMAIN s |-> IF s[i] \in 65 .. 90 THEN s[i] + 32 ELSE s[i]]

Missing == [kind |-> "missing"]

\* cJSON_GetObjectItem: the first member of that name.
Get(v, name) ==
  LET hits == IF v.kind # "object" THEN {}
              ELSE {i \in DOMAIN v.items : LowerCase(v.items[i].name) = LowerCase(name)}
  IN  IF hits = {} THEN Missing ELSE v.items[Min(hits)].value

-----------------------------------------------------------------------------
(* ensure.  The buffer has room for length bytes; over says that more were *)
(* written.  What was written stays short of length, as ensure asks.       *)

Ensure(p, needed) ==
  LET all == needed + Len(p.out) + 1
  IN  IF all <= p.length THEN p ELSE [p EXCEPT !.length = all * 2]

\* s is written, and a zero behind it if zero is 1, after room was ensured.
Put(p, needed, s, zero) ==
  LET q == Ensure(p, needed)
  IN  [q EXCEPT !.out = @ \o s, !.over = @ \/ Len(p.out) + Len(s) + zero > q.length]

-----------------------------------------------------------------------------
(* print_string_ptr: a first pass counts, a second writes. *)

Short == {Quote, Backslash, 8, 12, 10, 13, 9}

\* Bug: control characters count as one character, too.
EscapesOne(c) == IF c \in Short \cup 0 .. 31 THEN 1 ELSE 0

\* What a character needs beyond itself.
Escapes(c) == CASE c \in Short -> 1 [] c \notin Short /\ c < 32 -> 5 [] OTHER -> 0

OutputLength(s) == Cardinality({ik \in (DOMAIN s) \X (0 .. 5) : ik[2] <= Escapes(s[ik[1]])})

\* Behind the backslash.
ShortEscape == [c \in Short |-> CHOOSE x \in DOMAIN Unescaped : Unescaped[x] = c]

HexDigit(n) == IF n < 10 THEN 48 + n ELSE 87 + n

Escaped(c) ==
  CASE c > 31 /\ c \notin Short -> <<c>>
    [] c \in Short -> <<Backslash, ShortEscape[c]>>
    [] OTHER -> <<Backslash, LetterU, 48, 48, HexDigit(c \div 16), HexDigit(c % 16)>>

\* A byte nobody wrote.
Unwritten == 255

\* The closing quote is put where the first pass said.
PrintString(p, s) ==
  LET n    == OutputLength(s)
      body == <<Quote>> \o FlattenSeq([i \in DOMAIN s |-> Escaped(s[i])])
      text == [k \in 1 .. n + 2 |->
                 IF k = n + 2 THEN Quote ELSE IF k <= Len(body) THEN body[k] ELSE Unwritten]
      q    == Put(p, n + 3, text, 1)
  IN  [q EXCEPT !.over = @ \/ Len(p.out) + Len(body) > q.length]

-----------------------------------------------------------------------------
(* print_value, print_array and print_object, unformatted.  What follows an *)
(* overrun is undefined: printing ends there.                               *)

RECURSIVE PrintValue(_, _), PrintElements(_, _), PrintMembers(_, _)

PrintElements(p, items) ==
  IF p.over \/ items = << >> THEN p
  ELSE LET q == PrintValue(p, Head(items))
       IN  PrintElements(IF Len(items) > 1 THEN Put(q, 2, Ascii(","), 1) ELSE q, Tail(items))

PrintMembers(p, items) ==
  IF p.over \/ items = << >> THEN p
  ELSE LET m == Head(items)
           q == PrintValue(Put(PrintString(p, m.name), 1, Ascii(":"), 0), m.value)
       IN  PrintMembers(IF Len(items) > 1 THEN Put(q, 2, Ascii(","), 1) ELSE Put(q, 1, << >>, 1),
                        Tail(items))

PrintValue(p, v) ==
  CASE v.kind \in {"literal", "number"} -> Put(p, Len(v.text) + 1, v.text, 1)
    [] v.kind = "string" -> PrintString(p, v.text)
    [] v.kind = "array"  -> Put(PrintElements(Put(p, 1, Ascii("["), 0), v.items), 2, Ascii("]"), 1)
    [] v.kind = "object" -> Put(PrintMembers(Put(p, 2, Ascii("{"), 0), v.items), 2, Ascii("}"), 1)

\* The text, and whether the buffer was overrun.
PrintUnformatted(v) == PrintValue([out |-> << >>, length |-> BufferSize, over |-> FALSE], v)
=============================================================================
