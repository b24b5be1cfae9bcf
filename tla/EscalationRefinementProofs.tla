---------------------- MODULE EscalationRefinementProofs ----------------------
(***************************************************************************)
(* Escalation implements EscalationContract, for every value of the        *)
(* constants.  What a step may claim, tell and announce follows from the   *)
(* inductive invariant of EscalationProofs; here each step is mapped to    *)
(* the step of the contract it implements, or to a stutter.                *)
(***************************************************************************)
EXTENDS EscalationRefinement, EscalationProofs

(***************************************************************************)
(* The refinement mapping, incident by incident.                           *)
(***************************************************************************)

\* The step changes nothing of what the contract says of incident i.
Same(i) ==
    /\ PhaseOf(i)' = PhaseOf(i) /\ OwedTo(i)' = OwedTo(i)
    /\ ToldTo(i)' = ToldTo(i) /\ AnnouncedFor(i)' = AnnouncedFor(i)

\* A step that changes nothing for any incident is a stutter of the contract.
LEMMA StutterStep ==
    ASSUME \A i \in Incidents : Same(i)
    PROVE  UNCHANGED Contract!vars
PROOF
  BY DEF Same, Contract!vars

\* The worker holds the same promises on incident i after the step as before.
SamePromises(v, i) ==
    /\ (inc'[v] = i /\ pc'[v] \in TriggerPCs) <=> (inc[v] = i /\ pc[v] \in TriggerPCs)
    /\ inc[v] = i /\ pc[v] \in TriggerPCs => tier'[v] = tier[v]
    /\ (inc'[v] = i /\ pc'[v] = "publishExhausted") <=> (inc[v] = i /\ pc[v] = "publishExhausted")

Ended == StopReasons \cup {"exhausted"}

\* The rows of stopped and exhausted escalations look the same from outside.
SamePhase(i) == status'[i] = status[i] \/ (status[i] \in Ended /\ status'[i] \in Ended)

\* Without a new promise, a new event or a new phase the contract sees nothing.
LEMMA QuietFor ==
    ASSUME NEW i \in Incidents, \A v \in Workers : SamePromises(v, i), SamePhase(i),
           UNCHANGED published
    PROVE  Same(i)
PROOF
  <1>1. PhaseOf(i)' = PhaseOf(i)
    BY DEF PhaseOf, SamePhase, Ended, StopReasons
  <1>2. OwedTo(i)' = OwedTo(i)
    BY DEF OwedTo, SamePromises
  <1>3. ToldTo(i)' = ToldTo(i)
    BY DEF ToldTo
  <1>4. AnnouncedFor(i)' = AnnouncedFor(i)
    BY DEF AnnouncedFor, SamePromises
  <1> QED
    BY <1>1, <1>2, <1>3, <1>4 DEF Same

\* The events after a publish: the old ones and the new one.
LEMMA PublishedAfter ==
    ASSUME Typing, NEW e \in Event, published' = Append(published, e)
    PROVE  /\ DOMAIN published' = DOMAIN published \cup {Len(published) + 1}
           /\ published'[Len(published) + 1] = e
           /\ \A k \in DOMAIN published : published'[k] = published[k]
PROOF
  <1>1. published \in Seq(Event)
    BY DEF Typing, TypeOK
  <1> QED
    BY <1>1

\* An event adds to what was told only if it is a triggered event of the incident.
LEMMA ToldAfter ==
    ASSUME Typing, NEW i \in Incidents, NEW e \in Event, published' = Append(published, e)
    PROVE  /\ e[1] = i /\ e[2] = "triggered" => ToldTo(i)' = ToldTo(i) \cup {e[3]}
           /\ ~(e[1] = i /\ e[2] = "triggered") => ToldTo(i)' = ToldTo(i)
PROOF
  <1>1. \A k \in DOMAIN published' : k \in DOMAIN published \/ k = Len(published) + 1
    BY PublishedAfter
  <1> QED
    BY <1>1, PublishedAfter DEF ToldTo

\* An event announces the end of the incident only if it is its exhausted event.
LEMMA AnnouncedAfter ==
    ASSUME Typing, NEW i \in Incidents, NEW e \in Event, published' = Append(published, e),
           e # <<i, "exhausted", 0>>, \A v \in Workers : SamePromises(v, i)
    PROVE  AnnouncedFor(i)' = AnnouncedFor(i)
PROOF
  <1>1. \A k \in DOMAIN published' : k \in DOMAIN published \/ k = Len(published) + 1
    BY PublishedAfter
  <1>2. (\E k \in DOMAIN published' : published'[k] = <<i, "exhausted", 0>>) <=>
        (\E k \in DOMAIN published : published[k] = <<i, "exhausted", 0>>)
    BY <1>1, PublishedAfter
  <1> QED
    BY <1>2 DEF AnnouncedFor, SamePromises
-----------------------------------------------------------------------------
(***************************************************************************)
(* What a step must do to incident i, and to no other incident, to be each *)
(* of the contract's steps.                                                *)
(***************************************************************************)

OnlyFor(i) == \A j \in Incidents \ {i} : Same(j)

Levels == UNION {Tiers[p] : p \in Policies}

\* A tier above all the claimed ones becomes owed.
LEMMA IsClaim ==
    ASSUME NEW i \in Incidents, OnlyFor(i), NEW t \in Levels,
           PhaseOf(i) # "ended", \A u \in OwedTo(i) \cup ToldTo(i) : u < t,
           PhaseOf(i)' = "active", OwedTo(i)' = OwedTo(i) \cup {t},
           ToldTo(i)' = ToldTo(i), AnnouncedFor(i)' = AnnouncedFor(i)
    PROVE  Contract!Next
PROOF
  <1>1. Contract!Claim(i, t)
    BY DEF OnlyFor, Same, Contract!Claim
  <1> QED
    BY <1>1 DEF Contract!Next, Levels

\* An owed tier becomes told.
LEMMA IsTell ==
    ASSUME NEW i \in Incidents, OnlyFor(i), NEW t \in OwedTo(i), t \notin ToldTo(i),
           OwedTo(i)' = OwedTo(i) \ {t}, ToldTo(i)' = ToldTo(i) \cup {t},
           PhaseOf(i)' = PhaseOf(i), AnnouncedFor(i)' = AnnouncedFor(i)
    PROVE  Contract!Next
PROOF
  <1>1. Contract!Tell(i, t)
    BY DEF OnlyFor, Same, Contract!Tell
  <1> QED
    BY <1>1 DEF Contract!Next

\* An owed tier is forgotten.
LEMMA IsForget ==
    ASSUME NEW i \in Incidents, OnlyFor(i), NEW t \in OwedTo(i),
           OwedTo(i)' = OwedTo(i) \ {t}, ToldTo(i)' = ToldTo(i),
           PhaseOf(i)' = PhaseOf(i), AnnouncedFor(i)' = AnnouncedFor(i)
    PROVE  Contract!Next
PROOF
  <1>1. Contract!Forget(i, t)
    BY DEF OnlyFor, Same, Contract!Forget
  <1> QED
    BY <1>1 DEF Contract!Next

\* An active escalation ends.
LEMMA IsStop ==
    ASSUME NEW i \in Incidents, OnlyFor(i), PhaseOf(i) = "active", PhaseOf(i)' = "ended",
           OwedTo(i)' = OwedTo(i), ToldTo(i)' = ToldTo(i), AnnouncedFor(i)' = AnnouncedFor(i)
    PROVE  Contract!Next
PROOF
  <1>1. Contract!Stop(i)
    BY DEF OnlyFor, Same, Contract!Stop
  <1> QED
    BY <1>1 DEF Contract!Next

\* An active escalation ends with an announcement to make.
LEMMA IsExhaust ==
    ASSUME NEW i \in Incidents, OnlyFor(i), PhaseOf(i) = "active", PhaseOf(i)' = "ended",
           OwedTo(i)' = OwedTo(i), ToldTo(i)' = ToldTo(i),
           AnnouncedFor(i) = "no", AnnouncedFor(i)' = "owed"
    PROVE  Contract!Next
PROOF
  <1>1. Contract!Exhaust(i)
    BY DEF OnlyFor, Same, Contract!Exhaust
  <1> QED
    BY <1>1 DEF Contract!Next

\* The announcement is made, or lost.
LEMMA IsAnnounce ==
    ASSUME NEW i \in Incidents, OnlyFor(i), PhaseOf(i)' = PhaseOf(i),
           OwedTo(i)' = OwedTo(i), ToldTo(i)' = ToldTo(i),
           AnnouncedFor(i) = "owed", AnnouncedFor(i)' \in {"yes", "no"}
    PROVE  Contract!Next
PROOF
  <1>1. Contract!Announce(i) \/ Contract!NotAnnounced(i)
    BY DEF OnlyFor, Same, Contract!Announce, Contract!NotAnnounced
  <1> QED
    BY <1>1 DEF Contract!Next
-----------------------------------------------------------------------------
(***************************************************************************)
(* The steps of Escalation, one by one.                                    *)
(***************************************************************************)

PromisePCs == TriggerPCs \cup {"publishExhausted"}

\* Worker w moves, all others stay where they are.
OnlyMoves(w) ==
    \A v \in Workers \ {w} : pc'[v] = pc[v] /\ inc'[v] = inc[v] /\ tier'[v] = tier[v]

\* Goto, Leave and what begins a call move one worker.
LEMMA MovesOne ==
    ASSUME Typing, NEW w \in Workers
    PROVE  /\ \A l, t : Goto(w, l, t) =>
                 /\ OnlyMoves(w) /\ pc'[w] = l /\ inc'[w] = inc[w] /\ tier'[w] = t
           /\ \A l : Leave(w, l) => OnlyMoves(w) /\ pc'[w] = l
           /\ \A i, p : StartAssign(w, i, p) => OnlyMoves(w) /\ pc'[w] = "policy"
           /\ \A i, t : StartAdvance(w, i, t) => OnlyMoves(w) /\ pc'[w] = "advance"
PROOF
  BY DEF Typing, TypeOK, Goto, Leave, StartAssign, StartAdvance, OnlyMoves

\* A worker without a promise that gets none is not seen by the contract.
LEMMA QuietMove ==
    ASSUME NEW w \in Workers, OnlyMoves(w), pc[w] \notin PromisePCs, pc'[w] \notin PromisePCs,
           UNCHANGED published, \A i \in Incidents : SamePhase(i)
    PROVE  UNCHANGED Contract!vars
PROOF
  <1>1. ASSUME NEW i \in Incidents
        PROVE  Same(i)
    <2>1. \A v \in Workers : SamePromises(v, i)
      BY DEF SamePromises, OnlyMoves, PromisePCs
    <2> QED
      BY <2>1, QuietFor
  <1> QED
    BY <1>1, StutterStep

\* The same when nothing that the contract looks at moves.
LEMMA QuietState ==
    ASSUME UNCHANGED <<pc, inc, tier, status, published>>
    PROVE  UNCHANGED Contract!vars
PROOF
  <1>1. ASSUME NEW i \in Incidents
        PROVE  Same(i)
    BY QuietFor DEF SamePromises, SamePhase
  <1> QED
    BY <1>1, StutterStep

\* Inserting the row claims the first tier of the policy.
LEMMA CreateRefines ==
    ASSUME Typing, Claims, NEW w \in Workers, CreateEscalationState(w)
    PROVE  Contract!Next \/ UNCHANGED Contract!vars
PROOF
  <1>1. /\ pc[w] = "create" /\ inc[w] \in Incidents /\ policy[w] \in Policies
        /\ UNCHANGED published
    BY DEF CreateEscalationState, Typing, JobsOK
  <1>2. CASE ReturnError(w) /\ UNCHANGED rows
    <2>1. OnlyMoves(w) /\ pc'[w] = "idle"
      BY <1>2, MovesOne DEF ReturnError
    <2> QED
      BY <1>1, <1>2, <2>1, QuietMove DEF PromisePCs, TriggerPCs, SamePhase, rows
  <1>3. ASSUME NEW i \in Incidents, i = inc[w], NEW t, t = FirstTier(policy[w]),
               status[i] = "none", WriteRow(i, t, "active", FALSE), Goto(w, "triggerHistory", t)
        PROVE  Contract!Next
    <2>1. t \in Levels
      <3>1. \E u \in Tiers[policy[w]] : \A v \in Tiers[policy[w]] : u <= v
        BY <1>1, TiersAssumption
      <3> QED
        BY <1>1, <1>3, <3>1 DEF FirstTier, Levels
    <2>2. OnlyMoves(w) /\ pc'[w] = "triggerHistory" /\ inc'[w] = i /\ tier'[w] = t
      BY <1>3, MovesOne
    <2>3. status'[i] = "active" /\ \A j \in Incidents \ {i} : status'[j] = status[j]
      BY <1>1, <1>3 DEF WriteRow, Typing, TypeOK
    <2>4. OnlyFor(i)
      <3>1. ASSUME NEW j \in Incidents \ {i}
            PROVE  Same(j)
        BY <1>1, <1>3, <2>2, <2>3, QuietFor DEF OnlyMoves, SamePromises, SamePhase, TriggerPCs
      <3> QED
        BY <3>1 DEF OnlyFor
    <2>5. OwedTo(i) = {} /\ ToldTo(i) = {} /\ AnnouncedFor(i) = "no"
      BY <1>1, <1>3 DEF Claims, NothingBeforeRow, OwedTo, ToldTo, AnnouncedFor, TriggerPCs
    <2>6. OwedTo(i)' = {t}
      BY <1>1, <1>3, <2>2 DEF Claims, NothingBeforeRow, OwedTo, OnlyMoves, TriggerPCs
    <2>7. ToldTo(i)' = ToldTo(i)
      BY <1>1 DEF ToldTo
    <2>8. AnnouncedFor(i)' = "no"
      BY <1>1, <1>3, <2>2 DEF Claims, NothingBeforeRow, AnnouncedFor, OnlyMoves, TriggerPCs
    <2>9. PhaseOf(i) = "none" /\ PhaseOf(i)' = "active"
      BY <1>3, <2>3 DEF PhaseOf
    <2>10. OwedTo(i)' = OwedTo(i) \cup {t}
      BY <2>5, <2>6
    <2>11. PhaseOf(i) # "ended" /\ AnnouncedFor(i)' = AnnouncedFor(i)
      BY <2>5, <2>8, <2>9
    <2>12. \A u \in OwedTo(i) \cup ToldTo(i) : u < t
      BY <2>5
    <2> QED
      BY <2>1, <2>4, <2>7, <2>9, <2>10, <2>11, <2>12, IsClaim
  <1> QED
    BY <1>1, <1>2, <1>3 DEF CreateEscalationState

\* Taking the row to the next tier claims it, above all tiers claimed before; without a
\* next tier the escalation is exhausted, which was not announced yet.
LEMMA AdvanceRefines ==
    ASSUME Typing, Claims, RowsHavePolicy, NEW w \in Workers, AdvanceOrExhaust(w)
    PROVE  Contract!Next \/ UNCHANGED Contract!vars
PROOF
  <1>1. pc[w] = "advance" /\ inc[w] \in Incidents /\ tier[w] \in Int /\ UNCHANGED published
    BY DEF AdvanceOrExhaust, Typing, TypeOK, JobsOK
  <1>2. CASE Return(w) /\ UNCHANGED status
    <2>1. OnlyMoves(w) /\ pc'[w] \in {"ack", "idle"}
      BY <1>2, MovesOne DEF Return
    <2> QED
      BY <1>1, <1>2, <2>1, QuietMove DEF PromisePCs, TriggerPCs, SamePhase
  <1>3. ASSUME NEW i \in Incidents, i = inc[w], NEW t \in Int, t = tier[w], Claimable(i, t)
        PROVE  /\ \A u \in OwedTo(i) \cup ToldTo(i) : u <= t
               /\ AnnouncedFor(i) = "no" /\ PhaseOf(i) = "active"
    <2>1. \A u \in OwedTo(i) : u <= t
      BY <1>3 DEF Claims, ClaimsUpToTier, Claimable, OwedTo
    <2>2. \A u \in ToldTo(i) : u <= t
      BY <1>3 DEF Claims, ClaimsUpToTier, Claimable, ToldTo
    <2>3. AnnouncedFor(i) = "no"
      BY <1>3 DEF Claims, ClaimsUpToTier, Claimable, AnnouncedFor
    <2> QED
      BY <1>3, <2>1, <2>2, <2>3 DEF Claimable, Active, PhaseOf
  <1>4. ASSUME NEW i \in Incidents, i = inc[w], NEW t \in Int, t = tier[w], Claimable(i, t),
               t + 1 \in Tiers[policyOf[i]], WriteRow(i, t + 1, "active", FALSE),
               Goto(w, "triggerHistory", t + 1)
        PROVE  Contract!Next
    <2>1. t + 1 \in Levels
      BY <1>4 DEF Levels, RowsHavePolicy, Claimable, Active
    <2>2. OnlyMoves(w) /\ pc'[w] = "triggerHistory" /\ inc'[w] = i /\ tier'[w] = t + 1
      BY <1>4, MovesOne
    <2>3. status'[i] = "active" /\ \A j \in Incidents \ {i} : status'[j] = status[j]
      BY <1>4 DEF WriteRow, Typing, TypeOK
    <2>4. OnlyFor(i)
      <3>1. ASSUME NEW j \in Incidents \ {i}
            PROVE  Same(j)
        BY <1>1, <1>4, <2>2, <2>3, QuietFor DEF OnlyMoves, SamePromises, SamePhase, TriggerPCs
      <3> QED
        BY <3>1 DEF OnlyFor
    <2>5. OwedTo(i)' = OwedTo(i) \cup {t + 1}
      BY <1>1, <2>2 DEF OwedTo, OnlyMoves, TriggerPCs
    <2>6. ToldTo(i)' = ToldTo(i)
      BY <1>1 DEF ToldTo
    <2>7. AnnouncedFor(i)' = AnnouncedFor(i)
      BY <1>1, <2>2 DEF AnnouncedFor, OnlyMoves
    <2>8. PhaseOf(i) # "ended" /\ PhaseOf(i)' = "active"
      BY <1>3, <1>4, <2>3 DEF PhaseOf
    <2>9. \A u \in OwedTo(i) \cup ToldTo(i) : u < t + 1
      <3>1. OwedTo(i) \cup ToldTo(i) \subseteq Int
        BY DEF OwedTo, ToldTo, Typing, TypeOK, Event
      <3> QED
        BY <1>3, <1>4, <3>1
    <2> QED
      BY <2>1, <2>4, <2>5, <2>6, <2>7, <2>8, <2>9, IsClaim
  <1>5. ASSUME NEW i \in Incidents, i = inc[w], NEW t \in Int, t = tier[w], Claimable(i, t),
               WriteRow(i, t, "exhausted", TRUE), Goto(w, "publishExhausted", t)
        PROVE  Contract!Next
    <2>1. OnlyMoves(w) /\ pc'[w] = "publishExhausted" /\ inc'[w] = i
      BY <1>5, MovesOne
    <2>2. status'[i] = "exhausted" /\ \A j \in Incidents \ {i} : status'[j] = status[j]
      BY <1>5 DEF WriteRow, Typing, TypeOK
    <2>3. OnlyFor(i)
      <3>1. ASSUME NEW j \in Incidents \ {i}
            PROVE  Same(j)
        BY <1>1, <1>5, <2>1, <2>2, QuietFor DEF OnlyMoves, SamePromises, SamePhase, TriggerPCs
      <3> QED
        BY <3>1 DEF OnlyFor
    <2>4. OwedTo(i)' = OwedTo(i)
      BY <1>1, <2>1 DEF OwedTo, OnlyMoves, TriggerPCs
    <2>5. ToldTo(i)' = ToldTo(i)
      BY <1>1 DEF ToldTo
    <2>6. AnnouncedFor(i)' = "owed"
      <3>1. \A k \in DOMAIN published : published[k] # <<i, "exhausted", 0>>
        BY <1>5 DEF Claims, ClaimsUpToTier, Claimable
      <3> QED
        BY <1>1, <2>1, <3>1 DEF AnnouncedFor
    <2>7. PhaseOf(i)' = "ended"
      BY <2>2 DEF PhaseOf
    <2> QED
      BY <1>3, <1>5, <2>3, <2>4, <2>5, <2>6, <2>7, IsExhaust
  <1> QED
    BY <1>1, <1>2, <1>4, <1>5 DEF AdvanceOrExhaust

\* Recording the trigger keeps the promise to publish it.
LEMMA TriggerHistoryRefines ==
    ASSUME Typing, NEW w \in Workers, TriggerHistory(w)
    PROVE  UNCHANGED Contract!vars
PROOF
  <1>1. pc[w] = "triggerHistory" /\ UNCHANGED <<status, published>>
    BY DEF TriggerHistory, rows
  <1>2. OnlyMoves(w) /\ pc'[w] = "publishTriggered" /\ inc'[w] = inc[w] /\ tier'[w] = tier[w]
    BY MovesOne DEF TriggerHistory
  <1>3. ASSUME NEW i \in Incidents
        PROVE  Same(i)
    BY <1>1, <1>2, QuietFor DEF SamePromises, SamePhase, OnlyMoves, TriggerPCs
  <1> QED
    BY <1>3, StutterStep

\* A worker that gives up its promise to tell a tier takes that tier, and no other,
\* from what is owed: nobody else has promised it.
LEMMA PromiseEnds ==
    ASSUME Typing, Claims, NEW w \in Workers, NEW i \in Incidents, NEW t, i = inc[w], t = tier[w],
           pc[w] \in TriggerPCs, OnlyMoves(w), pc'[w] \notin PromisePCs
    PROVE  /\ t \in OwedTo(i) /\ OwedTo(i)' = OwedTo(i) \ {t}
           /\ \A j \in Incidents \ {i} : \A v \in Workers : SamePromises(v, j)
           /\ \A v \in Workers :
                 (inc'[v] = i /\ pc'[v] = "publishExhausted") <=>
                 (inc[v] = i /\ pc[v] = "publishExhausted")
PROOF
  <1>1. t \in OwedTo(i)
    BY DEF OwedTo
  <1>2. \A v \in Workers \ {w} : inc[v] = i /\ pc[v] \in TriggerPCs => tier[v] # t
    BY DEF Claims, ClaimsExclusive
  <1>3. OwedTo(i)' = OwedTo(i) \ {t}
    BY <1>2 DEF OwedTo, OnlyMoves, PromisePCs
  <1> QED
    BY <1>1, <1>3 DEF SamePromises, OnlyMoves, PromisePCs, TriggerPCs

\* Publishing a trigger tells the tier, a failed publish forgets it.
LEMMA PublishTriggeredRefines ==
    ASSUME Typing, Claims, NEW w \in Workers, PublishTriggered(w)
    PROVE  Contract!Next
PROOF
  <1>1. /\ pc[w] = "publishTriggered" /\ inc[w] \in Incidents /\ tier[w] \in Int
        /\ UNCHANGED status
    BY DEF PublishTriggered, Typing, TypeOK, JobsOK, rows
  <1>2. OnlyMoves(w) /\ pc'[w] \in {"ack", "idle"}
    BY MovesOne DEF PublishTriggered, Return
  <1>3. ASSUME NEW i \in Incidents, i = inc[w], NEW t \in Int, t = tier[w]
        PROVE  Contract!Next
    <2>1. /\ t \in OwedTo(i) /\ OwedTo(i)' = OwedTo(i) \ {t}
          /\ \A j \in Incidents \ {i} : \A v \in Workers : SamePromises(v, j)
          /\ \A v \in Workers : (inc'[v] = i /\ pc'[v] = "publishExhausted") <=>
                                (inc[v] = i /\ pc[v] = "publishExhausted")
      BY <1>1, <1>2, <1>3, PromiseEnds DEF TriggerPCs, PromisePCs
    <2>2. \A j \in Incidents : PhaseOf(j)' = PhaseOf(j)
      BY <1>1 DEF PhaseOf
    <2>3. CASE UNCHANGED published
      <3>1. OnlyFor(i)
        BY <1>1, <2>1, <2>3, QuietFor DEF OnlyFor, SamePhase
      <3>2. ToldTo(i)' = ToldTo(i)
        BY <2>3 DEF ToldTo
      <3>3. AnnouncedFor(i)' = AnnouncedFor(i)
        BY <2>1, <2>3 DEF AnnouncedFor
      <3> QED
        BY <2>1, <2>2, <3>1, <3>2, <3>3, IsForget
    <2>4. CASE published' = Append(published, <<i, "triggered", t>>)
      <3> DEFINE e == <<i, "triggered", t>>
      <3>1. e \in Event /\ e[1] = i /\ e[2] = "triggered" /\ e[3] = t
        BY DEF Event
      <3>2. published' = Append(published, e)
        BY <2>4
      <3>3. \A j \in Incidents : e # <<j, "exhausted", 0>>
        OBVIOUS
      <3> HIDE DEF e
      <3>4. ToldTo(i)' = ToldTo(i) \cup {t}
        BY <3>1, <3>2, ToldAfter
      <3>5. t \notin ToldTo(i)
        <4>1. \A k \in DOMAIN published : published[k] # <<i, "triggered", t>>
          BY <1>1, <1>3 DEF Claims, ClaimsUnrecorded, TriggerPCs
        <4>2. \A k \in DOMAIN published : published[k] \in Event
          BY DEF Typing, TypeOK
        <4> QED
          BY <4>1, <4>2 DEF ToldTo, Event
      <3>6. AnnouncedFor(i)' = AnnouncedFor(i)
        <4>1. \A k \in DOMAIN published' : k \in DOMAIN published \/ k = Len(published) + 1
          BY <3>1, <3>2, PublishedAfter
        <4>2. (\E k \in DOMAIN published' : published'[k] = <<i, "exhausted", 0>>) <=>
              (\E k \in DOMAIN published : published[k] = <<i, "exhausted", 0>>)
          BY <3>1, <3>2, <3>3, <4>1, PublishedAfter
        <4> QED
          BY <2>1, <4>2 DEF AnnouncedFor
      <3>7. OnlyFor(i)
        <4>1. ASSUME NEW j \in Incidents \ {i}
              PROVE  Same(j)
          <5>1. ToldTo(j)' = ToldTo(j)
            BY <3>1, <3>2, ToldAfter
          <5>2. AnnouncedFor(j)' = AnnouncedFor(j)
            BY <2>1, <3>1, <3>2, <3>3, AnnouncedAfter
          <5>3. OwedTo(j)' = OwedTo(j)
            BY <2>1 DEF OwedTo, SamePromises
          <5> QED
            BY <2>2, <5>1, <5>2, <5>3 DEF Same
        <4> QED
          BY <4>1 DEF OnlyFor
      <3> QED
        BY <2>1, <2>2, <3>4, <3>5, <3>6, <3>7, IsTell
    <2> QED
      BY <1>3, <2>3, <2>4 DEF PublishTriggered, Publish
  <1> QED
    BY <1>1, <1>3

\* A worker that gives up the announcement was the only one to owe it.
LEMMA AnnouncementEnds ==
    ASSUME Typing, Claims, NEW w \in Workers, NEW i \in Incidents, i = inc[w],
           pc[w] = "publishExhausted", OnlyMoves(w), pc'[w] \notin PromisePCs
    PROVE  /\ AnnouncedFor(i) = "owed"
           /\ OwedTo(i)' = OwedTo(i)
           /\ \A j \in Incidents \ {i} : \A v \in Workers : SamePromises(v, j)
           /\ \A v \in Workers : ~(inc'[v] = i /\ pc'[v] = "publishExhausted")
PROOF
  <1>1. AnnouncedFor(i) = "owed"
    <2>1. \A k \in DOMAIN published : published[k] # <<i, "exhausted", 0>>
      BY DEF Claims, ClaimsUnrecorded
    <2> QED
      BY <2>1 DEF AnnouncedFor
  <1>2. OwedTo(i)' = OwedTo(i)
    BY DEF OwedTo, OnlyMoves, PromisePCs, TriggerPCs
  <1>3. \A v \in Workers : ~(inc'[v] = i /\ pc'[v] = "publishExhausted")
    BY DEF Claims, ClaimsExclusive, OnlyMoves, PromisePCs
  <1>4. \A j \in Incidents \ {i} : \A v \in Workers : SamePromises(v, j)
    BY DEF SamePromises, OnlyMoves, PromisePCs, TriggerPCs
  <1> QED
    BY <1>1, <1>2, <1>3, <1>4

\* The announcement given up without an event is lost.
LEMMA AnnouncementLost ==
    ASSUME Typing, Claims, NEW w \in Workers, NEW i \in Incidents, i = inc[w],
           pc[w] = "publishExhausted", OnlyMoves(w), pc'[w] \notin PromisePCs,
           UNCHANGED <<status, published>>
    PROVE  Contract!Next
PROOF
  <1>1. /\ AnnouncedFor(i) = "owed"
        /\ OwedTo(i)' = OwedTo(i)
        /\ \A j \in Incidents \ {i} : \A v \in Workers : SamePromises(v, j)
        /\ \A v \in Workers : ~(inc'[v] = i /\ pc'[v] = "publishExhausted")
    BY AnnouncementEnds
  <1>2. OnlyFor(i)
    BY <1>1, QuietFor DEF OnlyFor, SamePhase
  <1>3. ToldTo(i)' = ToldTo(i) /\ PhaseOf(i)' = PhaseOf(i)
    BY DEF ToldTo, PhaseOf
  <1>4. AnnouncedFor(i)' = "no"
    <2>1. \A k \in DOMAIN published' : published'[k] # <<i, "exhausted", 0>>
      BY DEF Claims, ClaimsUnrecorded
    <2> QED
      BY <1>1, <2>1 DEF AnnouncedFor
  <1> QED
    BY <1>1, <1>2, <1>3, <1>4, IsAnnounce

\* Publishing escalation.exhausted announces the end, a failed publish does not.
LEMMA PublishExhaustedRefines ==
    ASSUME Typing, Claims, NEW w \in Workers, PublishExhausted(w)
    PROVE  Contract!Next
PROOF
  <1>1. pc[w] = "publishExhausted" /\ inc[w] \in Incidents /\ UNCHANGED status
    BY DEF PublishExhausted, Typing, JobsOK, rows
  <1>2. OnlyMoves(w) /\ pc'[w] \notin PromisePCs
    BY MovesOne DEF PublishExhausted, Return, PromisePCs, TriggerPCs
  <1>3. CASE UNCHANGED published
    BY <1>1, <1>2, <1>3, AnnouncementLost
  <1>4. ASSUME NEW i \in Incidents, i = inc[w],
               published' = Append(published, <<i, "exhausted", 0>>)
        PROVE  Contract!Next
    <2> DEFINE e == <<i, "exhausted", 0>>
    <2>1. /\ AnnouncedFor(i) = "owed"
          /\ OwedTo(i)' = OwedTo(i)
          /\ \A j \in Incidents \ {i} : \A v \in Workers : SamePromises(v, j)
          /\ \A v \in Workers : ~(inc'[v] = i /\ pc'[v] = "publishExhausted")
      BY <1>1, <1>2, <1>4, AnnouncementEnds
    <2>2. e \in Event /\ e[1] = i /\ e[2] = "exhausted"
      BY DEF Event
    <2>3. published' = Append(published, e)
      BY <1>4
    <2>4. \A j \in Incidents \ {i} : e # <<j, "exhausted", 0>>
      OBVIOUS
    <2>5. AnnouncedFor(i)' = "yes"
      <3> HIDE DEF e
      <3>1. \E k \in DOMAIN published' : published'[k] = e
        BY <2>2, <2>3, PublishedAfter
      <3> USE DEF e
      <3>2. \E k \in DOMAIN published' : published'[k] = <<i, "exhausted", 0>>
        BY <3>1
      <3> QED
        BY <2>1, <3>2 DEF AnnouncedFor
    <2> HIDE DEF e
    <2>6. \A j \in Incidents : ToldTo(j)' = ToldTo(j) /\ PhaseOf(j)' = PhaseOf(j)
      BY <1>1, <2>2, <2>3, ToldAfter DEF PhaseOf
    <2>7. OnlyFor(i)
      <3>1. ASSUME NEW j \in Incidents \ {i}
            PROVE  Same(j)
        <4>1. AnnouncedFor(j)' = AnnouncedFor(j)
          BY <2>1, <2>2, <2>3, <2>4, AnnouncedAfter
        <4>2. OwedTo(j)' = OwedTo(j)
          BY <2>1 DEF OwedTo, SamePromises
        <4> QED
          BY <2>6, <4>1, <4>2 DEF Same
      <3> QED
        BY <3>1 DEF OnlyFor
    <2> QED
      BY <2>1, <2>5, <2>6, <2>7, IsAnnounce
  <1> QED
    BY <1>1, <1>3, <1>4 DEF PublishExhausted, Publish

\* The stop of an active row ends it; that of a row exhausted since it was read is
\* not seen: the escalation had ended.
LEMMA StopWriteRefines ==
    ASSUME Typing, Claims, StopWrite
    PROVE  Contract!Next \/ UNCHANGED Contract!vars
PROOF
  <1>0. Consumer \in Workers
    BY DEF Workers
  <1>1. /\ pc[Consumer] = "stop" /\ inc[Consumer] \in Incidents
        /\ reason[Consumer] \in StopReasons /\ UNCHANGED published
        /\ status[inc[Consumer]] \in {"active", "exhausted"}
    BY <1>0 DEF StopWrite, Typing, JobsOK, Claims, ClaimsUnrecorded
  <1>2. OnlyMoves(Consumer) /\ pc'[Consumer] = "stopHistory"
    BY <1>0, MovesOne DEF StopWrite
  <1>3. ASSUME NEW i \in Incidents, i = inc[Consumer]
        PROVE  Contract!Next \/ UNCHANGED Contract!vars
    <2>1. status'[i] \in StopReasons /\ \A j \in Incidents \ {i} : status'[j] = status[j]
      BY <1>1, <1>3 DEF StopWrite, WriteRow, Typing, TypeOK
    <2>2. CASE status[i] = "exhausted"
      <3>1. \A j \in Incidents : SamePhase(j)
        BY <2>1, <2>2 DEF SamePhase, Ended
      <3> QED
        BY <1>0, <1>1, <1>2, <3>1, QuietMove DEF PromisePCs, TriggerPCs
    <2>3. CASE status[i] = "active"
      <3>1. \A j \in Incidents : \A v \in Workers : SamePromises(v, j)
        BY <1>1, <1>2 DEF SamePromises, OnlyMoves, TriggerPCs
      <3>2. OnlyFor(i)
        BY <1>1, <2>1, <3>1, QuietFor DEF OnlyFor, SamePhase
      <3>3. PhaseOf(i) = "active" /\ PhaseOf(i)' = "ended"
        BY <2>1, <2>3 DEF PhaseOf, StopReasons
      <3>4. OwedTo(i)' = OwedTo(i) /\ ToldTo(i)' = ToldTo(i)
        BY <1>1, <3>1 DEF OwedTo, ToldTo, SamePromises
      <3>5. AnnouncedFor(i)' = AnnouncedFor(i)
        BY <1>1, <3>1 DEF AnnouncedFor, SamePromises
      <3> QED
        BY <3>2, <3>3, <3>4, <3>5, IsStop
    <2> QED
      BY <1>1, <1>3, <2>2, <2>3
  <1> QED
    BY <1>1, <1>3

\* A worker that dies forgets the tier it was about to tell, or the announcement.
LEMMA CrashRefines ==
    ASSUME Typing, Claims, NEW w \in Workers, Crash(w)
    PROVE  Contract!Next \/ UNCHANGED Contract!vars
PROOF
  <1>1. UNCHANGED <<status, published>>
    BY DEF Crash, rows
  <1>2. OnlyMoves(w) /\ pc'[w] \notin PromisePCs
    BY MovesOne DEF Crash, PromisePCs, TriggerPCs
  <1>3. CASE pc[w] \notin PromisePCs
    BY <1>1, <1>2, <1>3, QuietMove DEF SamePhase
  <1>4. CASE pc[w] = "publishExhausted"
    BY <1>1, <1>2, <1>4, AnnouncementLost DEF Typing, JobsOK
  <1>5. CASE pc[w] \in TriggerPCs
    <2>1. inc[w] \in Incidents
      BY <1>5 DEF Typing, JobsOK, TriggerPCs
    <2>2. ASSUME NEW i \in Incidents, i = inc[w], NEW t, t = tier[w]
          PROVE  Contract!Next
      <3>1. /\ t \in OwedTo(i) /\ OwedTo(i)' = OwedTo(i) \ {t}
            /\ \A j \in Incidents \ {i} : \A v \in Workers : SamePromises(v, j)
            /\ \A v \in Workers : (inc'[v] = i /\ pc'[v] = "publishExhausted") <=>
                                  (inc[v] = i /\ pc[v] = "publishExhausted")
        BY <1>2, <1>5, <2>2, PromiseEnds
      <3>2. OnlyFor(i)
        BY <1>1, <3>1, QuietFor DEF OnlyFor, SamePhase
      <3>3. ToldTo(i)' = ToldTo(i) /\ PhaseOf(i)' = PhaseOf(i)
        BY <1>1 DEF ToldTo, PhaseOf
      <3>4. AnnouncedFor(i)' = AnnouncedFor(i)
        BY <1>1, <3>1 DEF AnnouncedFor
      <3> QED
        BY <3>1, <3>2, <3>3, <3>4, IsForget
    <2> QED
      BY <2>1, <2>2
  <1> QED
    BY <1>3, <1>4, <1>5 DEF PromisePCs

\* Every step is a step of the contract or is not seen by it.
LEMMA StepRefines ==
    ASSUME Typing, Claims, RowsHavePolicy, [Next]_vars
    PROVE  [Contract!Next]_(Contract!vars)
PROOF
  <1>0. /\ Consumer \in Workers /\ \A h \in Handlers : h \in Workers
        /\ \A m \in Monitors : m \in Workers
    BY DEF Workers
  <1>1. ASSUME NEW w \in Workers, OnlyMoves(w), pc[w] \notin PromisePCs,
               pc'[w] \notin PromisePCs, UNCHANGED <<status, published>>
        PROVE  UNCHANGED Contract!vars
    BY <1>1, QuietMove DEF SamePhase
  <1>2. ASSUME NEW w \in Workers, GetPolicy(w) \/ HandlerError(w)
        PROVE  UNCHANGED Contract!vars
    <2>1. /\ pc[w] \in {"policy", "create", "advance", "stop"} /\ OnlyMoves(w)
          /\ pc'[w] \in {"create", "idle"} /\ UNCHANGED <<status, published>>
      BY <1>2, MovesOne DEF GetPolicy, HandlerError, ReturnError, rows
    <2> QED
      BY <1>1, <2>1 DEF PromisePCs, TriggerPCs
  <1>3. CASE ReceiveCreated \/ Ack \/ StopHistory
    <2>1. /\ pc[Consumer] \in {"idle", "ack", "stopHistory"} /\ OnlyMoves(Consumer)
          /\ pc'[Consumer] \in {"ack", "idle", "policy"} /\ UNCHANGED <<status, published>>
      BY <1>0, <1>3, MovesOne DEF ReceiveCreated, StopHistory, Ack, Return, Idle, rows
    <2> QED
      BY <1>0, <1>1, <2>1 DEF PromisePCs, TriggerPCs
  <1>4. CASE ReceiveUpdated
    <2>1. pc[Consumer] = "idle" /\ UNCHANGED <<status, published>>
      BY <1>4 DEF ReceiveUpdated, Idle, rows
    <2>2. CASE Return(Consumer)
      <3>1. OnlyMoves(Consumer) /\ pc'[Consumer] = "ack"
        BY <1>0, <2>2, MovesOne DEF Return
      <3> QED
        BY <1>0, <1>1, <2>1, <3>1 DEF PromisePCs, TriggerPCs
    <2>3. CASE ~Return(Consumer)
      <3>1. OnlyMoves(Consumer) /\ pc'[Consumer] = "stop"
        BY <1>0, <1>4, <2>3 DEF ReceiveUpdated, OnlyMoves, Typing, TypeOK
      <3> QED
        BY <1>0, <1>1, <2>1, <3>1 DEF PromisePCs, TriggerPCs
    <2> QED
      BY <2>2, <2>3
  <1>5. ASSUME NEW h \in Handlers, NEW i \in Incidents,
               (\E p \in Policies : AttachPolicy(h, i, p)) \/ ManualEscalate(h, i)
        PROVE  UNCHANGED Contract!vars
    <2>1. /\ h \in Workers /\ pc[h] = "idle" /\ OnlyMoves(h)
          /\ pc'[h] \in {"policy", "advance"} /\ UNCHANGED <<status, published>>
      BY <1>0, <1>5, MovesOne DEF AttachPolicy, ManualEscalate, Idle, rows
    <2> QED
      BY <1>1, <2>1 DEF PromisePCs, TriggerPCs
  <1>6. ASSUME NEW m \in Monitors, MonitorNext(m)
        PROVE  UNCHANGED Contract!vars
    <2>1. /\ m \in Workers /\ pc[m] = "idle" /\ OnlyMoves(m)
          /\ pc'[m] = "advance" /\ UNCHANGED <<status, published>>
      BY <1>0, <1>6, MovesOne DEF MonitorNext, Idle, rows
    <2> QED
      BY <1>1, <2>1 DEF PromisePCs, TriggerPCs
  <1>7. CASE \/ \E p \in Policies : CreatePolicy(p) \/ DeletePolicy(p) \/ PutDefaultPolicy(p)
             \/ DeleteDefaultPolicy
             \/ \E m \in Monitors : ListExpiredStates(m)
             \/ \E i \in Incidents : Timeout(i)
             \/ \E m \in Message : IncidentEvent(m)
             \/ UNCHANGED vars
    <2>1. UNCHANGED <<pc, inc, tier, status, published>>
      BY <1>7 DEF CreatePolicy, DeletePolicy, PutDefaultPolicy, DeleteDefaultPolicy,
         ListExpiredStates, Timeout, IncidentEvent, vars, rows, jobs
    <2> QED
      BY <2>1, QuietState
  <1>8. ASSUME NEW w \in Workers, Escalator(w) \/ Crash(w)
        PROVE  Contract!Next \/ UNCHANGED Contract!vars
    BY <1>2, <1>8, CreateRefines, AdvanceRefines, TriggerHistoryRefines,
       PublishTriggeredRefines, PublishExhaustedRefines, CrashRefines DEF Escalator
  <1> QED
    BY <1>2, <1>3, <1>4, <1>5, <1>6, <1>7, <1>8, StopWriteRefines DEF Next, Consume

\* The escalator, the monitors, the handlers and the consumer together implement the
\* contract, however many they are and whatever they read before others changed it: no
\* tier is claimed after the end, none twice or out of order, none told twice, and the
\* end is announced once at most.
THEOREM ContractKept == Spec => KeepsContract
PROOF
  <1>1. Init => Contract!Init
    BY DEF Init, Contract!Init, PhaseOf, OwedTo, ToldTo, AnnouncedFor, TriggerPCs
  <1>2. Typing /\ Claims /\ RowsHavePolicy /\ [Next]_vars => [Contract!Next]_(Contract!vars)
    BY StepRefines
  <1> QED
    BY <1>1, <1>2, RowsInvariant, PTL DEF Spec, KeepsContract, Contract!Spec
===============================================================================
