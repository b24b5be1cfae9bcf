------------------------- MODULE EscalationContract -------------------------
(***************************************************************************)
(* What the escalation service promises its users about one incident,      *)
(* without workers, rows, queues or retries: an escalation is claimed tier *)
(* by tier, each tier is told to its on-call user at most once, and when   *)
(* the escalation has ended, stopped or exhausted, no further tier is      *)
(* claimed.  The promise to tell is lost when a process dies on it or the  *)
(* publish fails.                                                          *)
(***************************************************************************)
EXTENDS Integers

CONSTANTS
    Incidents,  \* incident ids
    Levels      \* tier numbers

VARIABLES
    phase,     \* "none" before the first tier, then "active", then "ended"
    owed,      \* tiers claimed whose user is about to be told
    told,      \* tiers whose user was told
    announced  \* escalation.exhausted: "no", "owed" or "yes"

vars == <<phase, owed, told, announced>>

Init ==
    /\ phase = [i \in Incidents |-> "none"]
    /\ owed = [i \in Incidents |-> {}]
    /\ told = [i \in Incidents |-> {}]
    /\ announced = [i \in Incidents |-> "no"]

\* Tiers are claimed upwards.
Claim(i, t) ==
    /\ phase[i] # "ended"
    /\ \A u \in owed[i] \cup told[i] : u < t
    /\ phase' = [phase EXCEPT ![i] = "active"]
    /\ owed' = [owed EXCEPT ![i] = @ \cup {t}]
    /\ UNCHANGED <<told, announced>>

Tell(i, t) ==
    /\ t \in owed[i] \ told[i]
    /\ owed' = [owed EXCEPT ![i] = @ \ {t}]
    /\ told' = [told EXCEPT ![i] = @ \cup {t}]
    /\ UNCHANGED <<phase, announced>>

Forget(i, t) ==
    /\ t \in owed[i]
    /\ owed' = [owed EXCEPT ![i] = @ \ {t}]
    /\ UNCHANGED <<phase, told, announced>>

Stop(i) ==
    /\ phase[i] = "active"
    /\ phase' = [phase EXCEPT ![i] = "ended"]
    /\ UNCHANGED <<owed, told, announced>>

\* No tier is left: the team is told, once.
Exhaust(i) ==
    /\ phase[i] = "active" /\ announced[i] = "no"
    /\ phase' = [phase EXCEPT ![i] = "ended"]
    /\ announced' = [announced EXCEPT ![i] = "owed"]
    /\ UNCHANGED <<owed, told>>

Announce(i) ==
    /\ announced[i] = "owed"
    /\ announced' = [announced EXCEPT ![i] = "yes"]
    /\ UNCHANGED <<phase, owed, told>>

NotAnnounced(i) ==
    /\ announced[i] = "owed"
    /\ announced' = [announced EXCEPT ![i] = "no"]
    /\ UNCHANGED <<phase, owed, told>>

Next ==
    \E i \in Incidents :
        \/ \E t \in Levels : Claim(i, t)
        \/ \E t \in owed[i] : Tell(i, t) \/ Forget(i, t)
        \/ Stop(i) \/ Exhaust(i) \/ Announce(i) \/ NotAnnounced(i)

Spec == Init /\ [][Next]_vars
=============================================================================
