---------------------------- MODULE MCEscalation ----------------------------
(***************************************************************************)
(* Finite instances of Escalation.                                         *)
(***************************************************************************)
EXTENDS EscalationRefinement

\* Two consecutive tiers, with numbers CreatePolicy does not refuse.
ContiguousTiers == [p \in Policies |-> {-1, 0}]

\* CreatePolicy accepts any numbers: here tier 3 is missing.
TiersWithGap == [p \in Policies |-> {1, 2, 4}]
=============================================================================
