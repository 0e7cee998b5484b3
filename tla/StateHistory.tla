---------------------------- MODULE StateHistory ----------------------------
(***************************************************************************)
(* What the deploy protocol promises about the stored state: it is a       *)
(* linear history.  A run plans from the version in place, and commits a   *)
(* version of its own only on top of the one it planned from.              *)
(***************************************************************************)
CONSTANTS Runs, NoRun

VARIABLES
  stored,  \* the version in place: the run that wrote it, or NoRun
  base     \* the version each run planned from

Plan(r) ==
  /\ base' = [base EXCEPT ![r] = stored]
  /\ UNCHANGED stored

Commit(r) ==
  /\ stored = base[r]
  /\ stored' = r
  /\ UNCHANGED base

Init ==
  /\ stored = NoRun
  /\ base = [r \in Runs |-> NoRun]

Next == \E r \in Runs : Plan(r) \/ Commit(r)

Spec == Init /\ [][Next]_<<stored, base>>
=============================================================================
