------------------------------ MODULE Handover ------------------------------
(***************************************************************************)
(* What whisper_stt.c and main.c promise of utterances together: each that *)
(* is spoken is handed on once or given up, and what was settled stays so; *)
(* as long as the backend is left alone they are handed on in order.       *)
(***************************************************************************)
EXTENDS Naturals, Sequences

CONSTANT MaxUtterances   \* bound

VARIABLES
  spoken,     \* utterances begun so far, 1 .. spoken
  unsettled,  \* those that are neither handed on nor given up
  handed,     \* those handed on, in order
  switched    \* the backend was switched

vars == <<spoken, unsettled, handed, switched>>

Init == spoken = 0 /\ unsettled = {} /\ handed = << >> /\ switched = FALSE

Speak ==
  /\ spoken < MaxUtterances
  /\ spoken' = spoken + 1
  /\ unsettled' = unsettled \cup {spoken + 1}
  /\ UNCHANGED <<handed, switched>>

HandOn(u) ==
  /\ u \in unsettled
  /\ ~switched => \A i \in 1 .. Len(handed) : handed[i] < u
  /\ handed' = Append(handed, u)
  /\ unsettled' = unsettled \ {u}
  /\ UNCHANGED <<spoken, switched>>

GiveUp(lost) ==
  /\ lost # {}
  /\ unsettled' = unsettled \ lost
  /\ UNCHANGED <<spoken, handed, switched>>

Switch == switched' = TRUE /\ UNCHANGED <<spoken, unsettled, handed>>

Next ==
  \/ Speak
  \/ \E u \in unsettled : HandOn(u)
  \/ \E lost \in SUBSET unsettled : GiveUp(lost)
  \/ Switch

Spec == Init /\ [][Next]_vars
=============================================================================
