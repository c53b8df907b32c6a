----------------------------- MODULE BoundedLog -----------------------------
(***************************************************************************)
(* What the transcript history promises: a log of the newest Size entries  *)
(* that can be recorded to, read newest first, and cleared.                *)
(***************************************************************************)
EXTENDS Integers, Sequences

CONSTANTS Size, Entries

VARIABLES
  log,      \* oldest entry first
  answer    \* what the last reader was shown

vars == <<log, answer>>

NewestFirst(s) == [i \in 1 .. Len(s) |-> s[Len(s) + 1 - i]]

Init == log = << >> /\ answer = << >>

Record(e) ==
  /\ log' = IF Len(log) < Size THEN Append(log, e) ELSE Append(Tail(log), e)
  /\ UNCHANGED answer

Read ==
  /\ answer' = NewestFirst(log)
  /\ UNCHANGED log

Clear ==
  /\ log' = << >>
  /\ UNCHANGED answer

Next == (\E e \in Entries : Record(e)) \/ Read \/ Clear

Spec == Init /\ [][Next]_vars
=============================================================================
