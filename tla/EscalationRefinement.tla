------------------------ MODULE EscalationRefinement ------------------------
(***************************************************************************)
(* Escalation implements EscalationContract: the row says which phase an   *)
(* incident is in, the jobs in the middle of triggerTier what is owed, the *)
(* published events what was told.                                         *)
(***************************************************************************)
EXTENDS Escalation

PhaseOf(i) == CASE status[i] = "none" -> "none"
                [] status[i] = "active" -> "active"
                [] OTHER -> "ended"

OwedTo(i) == {tier[w] : w \in {v \in Workers : inc[v] = i /\ pc[v] \in TriggerPCs}}

ToldTo(i) == {published[k][3] :
                k \in {j \in DOMAIN published : /\ published[j][1] = i
                                                /\ published[j][2] = "triggered"}}

AnnouncedFor(i) ==
    CASE \E k \in DOMAIN published : published[k] = <<i, "exhausted", 0>> -> "yes"
      [] \E w \in Workers : inc[w] = i /\ pc[w] = "publishExhausted" -> "owed"
      [] OTHER -> "no"

Contract == INSTANCE EscalationContract WITH
    Levels <- UNION {Tiers[p] : p \in Policies},
    phase <- [i \in Incidents |-> PhaseOf(i)],
    owed <- [i \in Incidents |-> OwedTo(i)],
    told <- [i \in Incidents |-> ToldTo(i)],
    announced <- [i \in Incidents |-> AnnouncedFor(i)]

\* The escalator, the monitors and the consumer together keep the contract: whatever
\* rows they read before others changed them, no tier is claimed after a stop, none
\* twice or out of order, none told twice, and the end is announced once at most.
KeepsContract == Contract!Spec
=============================================================================
