--------------------------- MODULE DurableSettings --------------------------
(***************************************************************************)
(* What the store of the settings promises: changes are shown at once; a   *)
(* save replaces what is stored by what is shown, but while it is under    *)
(* way, and if it fails, nothing is stored and the next start shows the    *)
(* defaults; a start shows what is stored, never a part of it.             *)
(***************************************************************************)
CONSTANTS Names, Values, Defaults

VARIABLES visible, stored, saving

vars == <<visible, stored, saving>>

Init == visible = Defaults /\ stored = Defaults /\ saving = FALSE

Change(n, v) == ~saving /\ visible' = [visible EXCEPT ![n] = v] /\ UNCHANGED <<stored, saving>>

BeginSave == ~saving /\ saving' = TRUE /\ stored' = Defaults /\ UNCHANGED visible

EndSave == saving /\ saving' = FALSE /\ stored' \in {visible, Defaults} /\ UNCHANGED visible

Start == visible' = stored /\ saving' = FALSE /\ UNCHANGED stored

Next == (\E n \in Names, v \in Values : Change(n, v)) \/ BeginSave \/ EndSave \/ Start

Spec == Init /\ [][Next]_vars
=============================================================================
