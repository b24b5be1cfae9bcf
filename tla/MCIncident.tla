----------------------------- MODULE MCIncident -----------------------------
(***************************************************************************)
(* Finite instances of Incident.                                           *)
(***************************************************************************)
EXTENDS Incident, TLC

CONSTANTS wide, narrow, all

\* Under the wide rule all alerts form one group, under the narrow one each alert
\* is a group of its own.
Keyed == [r \in Rules |-> [f \in Fingerprints |-> IF r = wide THEN all ELSE f]]

Symmetry == Permutations(Incidents) \cup Permutations(Fingerprints) \cup Permutations(Handlers)
=============================================================================
