--------------------------- MODULE EscalationProofs ---------------------------
(***************************************************************************)
(* Proofs about Escalation, for any number of incidents, policies, tiers,  *)
(* monitors and handlers and without the bounds of the TLC runs.           *)
(***************************************************************************)
EXTENDS Escalation, FiniteSetTheorems, TLAPS

\* The first tier of a policy is one of its tiers.
LEMMA FirstTierInt ==
    ASSUME NEW p \in Policies
    PROVE  FirstTier(p) \in Int
PROOF
  <1>1. Tiers[p] \in SUBSET Int /\ \E t \in Tiers[p] : \A u \in Tiers[p] : t <= u
    BY TiersAssumption
  <1> QED
    BY <1>1 DEF FirstTier
-----------------------------------------------------------------------------
(***************************************************************************)
(* Type correctness.  Typing adds to TypeOK what the steps rely on: the    *)
(* fields of a job in the middle of a call.                                *)
(***************************************************************************)

Typing == TypeOK /\ JobsOK

\* Appending a well-formed entry keeps the history a table of entries.
LEMMA AppendHistoryType ==
    ASSUME history \in [Incidents -> Seq(Entry)], NEW i \in Incidents,
           NEW e \in {"triggered", "exhausted"} \cup StopReasons, NEW t \in Int,
           AppendHistory(i, e, t)
    PROVE  history' \in [Incidents -> Seq(Entry)]
PROOF
  <1>1. <<e, t>> \in Entry
    BY DEF Entry
  <1> QED
    BY <1>1 DEF AppendHistory

\* Publishing an event keeps the log of published events well-formed.
LEMMA PublishType ==
    ASSUME published \in Seq(Event), NEW i \in Incidents,
           NEW e \in {"triggered", "exhausted"}, NEW t \in Int, Publish(i, e, t)
    PROVE  published' \in Seq(Event)
PROOF
  <1>1. <<i, e, t>> \in Event
    BY DEF Event
  <1> QED
    BY <1>1 DEF Publish

\* A worker that drops its job or goes on with it keeps the jobs well-typed.
LEMMA LeaveType ==
    ASSUME Typing, NEW w \in Workers, NEW l \in {"idle", "ack"}, Leave(w, l),
           UNCHANGED <<config, rows>>, queue' \in Seq(Message),
           history' \in [Incidents -> Seq(Entry)], published' \in Seq(Event),
           batch' \in [Workers -> SUBSET (Incidents \X Int)],
           sent' \in Nat, faults' \in Nat,
           pc'[Consumer] # "idle" => queue' # <<>>
    PROVE  Typing'
PROOF
  <1>1. UNCHANGED <<policies, defaultPolicy, policyOf, currentTier, status, due>>
    BY DEF config, rows
  <1>2. /\ pc' \in [Workers -> PCs] /\ inc' \in [Workers -> Incidents \cup {None}]
        /\ policy' \in [Workers -> Policies \cup {None}] /\ tier' \in [Workers -> Int]
        /\ reason' \in [Workers -> StopReasons \cup {None}]
    BY DEF Leave, Typing, TypeOK, PCs
  <1>3. TypeOK'
    BY <1>1, <1>2 DEF Typing, TypeOK
  <1>4. JobsOK'
    BY DEF Leave, Typing, TypeOK, JobsOK
  <1> QED
    BY <1>3, <1>4 DEF Typing

\* A handler that returns without an error, the rest of the state well-typed.
LEMMA ReturnType ==
    ASSUME Typing, NEW w \in Workers, pc[w] # "idle" \/ queue # <<>>, Return(w),
           UNCHANGED <<config, rows, queue, batch, sent>>,
           history' \in [Incidents -> Seq(Entry)], published' \in Seq(Event),
           faults' \in Nat
    PROVE  Typing'
PROOF
  <1> DEFINE l == IF w = Consumer THEN "ack" ELSE "idle"
  <1>1. l \in {"idle", "ack"} /\ Leave(w, l)
    BY DEF Return
  <1>2. /\ queue' \in Seq(Message) /\ batch' \in [Workers -> SUBSET (Incidents \X Int)]
        /\ sent' \in Nat
    BY DEF Typing, TypeOK
  <1>3. Consumer \in Workers
    BY DEF Workers
  <1>4. pc'[Consumer] # "idle" => queue' # <<>>
    BY <1>1, <1>3 DEF Leave, Typing, TypeOK, JobsOK
  <1> HIDE DEF l
  <1> QED
    BY <1>1, <1>2, <1>4, LeaveType

\* Every step leaves the tables, the queues and the jobs well-typed.
LEMMA TypingStep == Typing /\ [Next]_vars => Typing'
PROOF
  <1> SUFFICES ASSUME Typing, [Next]_vars
               PROVE  Typing'
    OBVIOUS
  <1> USE DEF Typing, TypeOK, JobsOK, PCs, StopReasons, config, rows, jobs
  <1>0. Consumer \in Workers /\ Handlers \subseteq Workers /\ Monitors \subseteq Workers
    BY DEF Workers
  <1>1. ASSUME NEW p \in Policies, CreatePolicy(p)
        PROVE  Typing'
    BY <1>1 DEF CreatePolicy
  <1>2. ASSUME NEW p \in Policies, DeletePolicy(p)
        PROVE  Typing'
    BY <1>2 DEF DeletePolicy
  <1>3. ASSUME NEW p \in Policies, PutDefaultPolicy(p)
        PROVE  Typing'
    BY <1>3 DEF PutDefaultPolicy
  <1>4. CASE DeleteDefaultPolicy
    BY <1>4 DEF DeleteDefaultPolicy
  <1>5. ASSUME NEW h \in Handlers, NEW i \in Incidents, NEW p \in Policies,
               AttachPolicy(h, i, p)
        PROVE  Typing'
    BY <1>0, <1>5, WorkersAssumption DEF AttachPolicy, StartAssign
  <1>6. ASSUME NEW h \in Handlers, NEW i \in Incidents, ManualEscalate(h, i)
        PROVE  Typing'
    BY <1>0, <1>6, WorkersAssumption DEF ManualEscalate, StartAdvance, Active
  <1>7. ASSUME NEW w \in Workers, GetPolicy(w)
        PROVE  Typing'
    <2>1. /\ pc[w] = "policy"
          /\ UNCHANGED <<config, rows, history, queue, published, batch, sent, faults>>
      BY <1>7 DEF GetPolicy
    <2>2. CASE Goto(w, "create", 0)
      BY <2>1, <2>2 DEF Goto
    <2>3. CASE ReturnError(w)
      BY <2>1, <2>3 DEF ReturnError, Leave
    <2> QED
      BY <1>7, <2>2, <2>3 DEF GetPolicy
  <1>8. ASSUME NEW w \in Workers, CreateEscalationState(w)
        PROVE  Typing'
    <2> DEFINE i == inc[w]
               p == policy[w]
    <2>1. /\ pc[w] = "create"
          /\ UNCHANGED <<config, history, queue, published, batch, sent, faults>>
      BY <1>8 DEF CreateEscalationState
    <2>2. i \in Incidents /\ p \in Policies
      BY <2>1
    <2>3. CASE /\ policyOf' = [policyOf EXCEPT ![i] = p]
               /\ WriteRow(i, FirstTier(p), "active", FALSE)
               /\ Goto(w, "triggerHistory", FirstTier(p))
      <3>1. FirstTier(p) \in Int
        BY <2>2, FirstTierInt
      <3> QED
        BY <2>1, <2>2, <2>3, <3>1 DEF WriteRow, Goto
    <2>4. CASE ReturnError(w) /\ UNCHANGED rows
      BY <2>1, <2>4 DEF ReturnError, Leave
    <2> QED
      BY <1>8, <2>3, <2>4 DEF CreateEscalationState
  <1>9. ASSUME NEW w \in Workers, TriggerHistory(w)
        PROVE  Typing'
    <2>1. /\ pc[w] = "triggerHistory" /\ Goto(w, "publishTriggered", tier[w])
          /\ UNCHANGED <<config, rows, queue, published, batch, sent>>
      BY <1>9 DEF TriggerHistory
    <2>2. inc[w] \in Incidents /\ tier[w] \in Int
      BY <2>1
    <2>3. history' \in [Incidents -> Seq(Entry)] /\ faults' \in Nat
      BY <1>9, <2>2, AppendHistoryType DEF TriggerHistory, Fault
    <2> QED
      BY <2>1, <2>3 DEF Goto
  <1>10. ASSUME NEW w \in Workers, PublishTriggered(w)
        PROVE  Typing'
    <2>1. /\ pc[w] = "publishTriggered" /\ Return(w)
          /\ UNCHANGED <<config, rows, history, queue, batch, sent>>
      BY <1>10 DEF PublishTriggered
    <2>2. inc[w] \in Incidents /\ tier[w] \in Int
      BY <2>1
    <2>3. published' \in Seq(Event) /\ faults' \in Nat
      BY <1>10, <2>2, PublishType DEF PublishTriggered, Fault
    <2> QED
      BY <2>1, <2>3, ReturnType
  <1>11. ASSUME NEW w \in Workers, AdvanceOrExhaust(w)
        PROVE  Typing'
    <2> DEFINE i == inc[w]
               t == tier[w]
    <2>1. /\ pc[w] = "advance"
          /\ UNCHANGED <<config, policyOf, queue, published, batch, sent, faults>>
      BY <1>11 DEF AdvanceOrExhaust
    <2>2. i \in Incidents /\ t \in Int
      BY <2>1
    <2>3. CASE Return(w) /\ UNCHANGED <<currentTier, status, due, history>>
      BY <2>1, <2>3, ReturnType
    <2>4. CASE /\ Claimable(i, t)
               /\ WriteRow(i, t + 1, "active", FALSE)
               /\ Goto(w, "triggerHistory", t + 1)
               /\ UNCHANGED history
      BY <2>1, <2>2, <2>4 DEF Claimable, Active, WriteRow, Goto
    <2>5. CASE /\ Claimable(i, t)
               /\ WriteRow(i, t, "exhausted", TRUE)
               /\ AppendHistory(i, "exhausted", t)
               /\ Goto(w, "publishExhausted", t)
      <3>1. history' \in [Incidents -> Seq(Entry)]
        BY <2>2, <2>5, AppendHistoryType
      <3>2. JobsOK'
        BY <2>1, <2>2, <2>5 DEF Goto
      <3> QED
        BY <2>1, <2>2, <2>5, <3>1, <3>2 DEF WriteRow, Goto
    <2> QED
      BY <1>11, <2>3, <2>4, <2>5 DEF AdvanceOrExhaust
  <1>12. ASSUME NEW w \in Workers, PublishExhausted(w)
        PROVE  Typing'
    <2>1. /\ pc[w] = "publishExhausted" /\ Return(w)
          /\ UNCHANGED <<config, rows, history, queue, batch, sent>>
      BY <1>12 DEF PublishExhausted
    <2>2. inc[w] \in Incidents
      BY <2>1
    <2>3. published' \in Seq(Event) /\ faults' \in Nat
      BY <1>12, <2>2, PublishType DEF PublishExhausted, Fault
    <2> QED
      BY <2>1, <2>3, ReturnType
  <1>13. CASE StopWrite
    BY <1>0, <1>13 DEF StopWrite, WriteRow, Goto
  <1>14. CASE StopHistory
    <2>1. /\ pc[Consumer] = "stopHistory" /\ Return(Consumer)
          /\ UNCHANGED <<config, rows, queue, published, batch, sent>>
      BY <1>14 DEF StopHistory
    <2>2. inc[Consumer] \in Incidents /\ tier[Consumer] \in Int /\ reason[Consumer] \in StopReasons
      BY <1>0, <2>1
    <2>3. history' \in [Incidents -> Seq(Entry)] /\ faults' \in Nat
      BY <1>14, <2>2, AppendHistoryType DEF StopHistory, Fault
    <2> QED
      BY <1>0, <2>1, <2>3, ReturnType
  <1>15. ASSUME NEW m \in Monitors, ListExpiredStates(m)
        PROVE  Typing'
    <2>1. PICK found \in kSubset(Min({ListLimit, Cardinality(Expired)}), Expired) :
             batch' = [batch EXCEPT ![m] = {<<i, currentTier[i]>> : i \in found}]
      BY <1>15 DEF ListExpiredStates
    <2>2. found \subseteq Incidents
      BY DEF kSubset, Expired
    <2>3. {<<i, currentTier[i]>> : i \in found} \subseteq Incidents \X Int
      BY <2>2
    <2>4. batch' \in [Workers -> SUBSET (Incidents \X Int)]
      BY <1>0, <2>1, <2>3
    <2> QED
      BY <1>15, <2>4 DEF ListExpiredStates
  <1>16. ASSUME NEW m \in Monitors, MonitorNext(m)
        PROVE  Typing'
    BY <1>0, <1>16, WorkersAssumption DEF MonitorNext, StartAdvance
  <1>17. ASSUME NEW i \in Incidents, Timeout(i)
        PROVE  Typing'
    BY <1>17 DEF Timeout, Active
  <1>18. CASE ReceiveCreated
    <2>1. /\ queue # <<>> /\ Head(queue) \in Message
          /\ UNCHANGED <<config, rows, history, queue, published, batch, sent, faults>>
      BY <1>18 DEF ReceiveCreated
    <2>2. CASE Return(Consumer)
      BY <1>0, <2>1, <2>2, ReturnType
    <2>3. CASE defaultPolicy # None /\ StartAssign(Consumer, Head(queue)[2], defaultPolicy)
      <3>1. Head(queue)[2] \in Incidents
        BY <2>1 DEF Message
      <3> QED
        BY <1>0, <2>1, <2>3, <3>1 DEF StartAssign
    <2> QED
      BY <1>18, <2>2, <2>3 DEF ReceiveCreated
  <1>19. CASE ReceiveUpdated
    <2> DEFINE i == Head(queue)[2]
               st == Head(queue)[3]
    <2>1. /\ queue # <<>> /\ Head(queue) \in Message
          /\ UNCHANGED <<config, rows, history, queue, published, batch, sent, faults>>
      BY <1>19 DEF ReceiveUpdated
    <2>2. CASE Return(Consumer)
      BY <1>0, <2>1, <2>2, ReturnType
    <2>3. CASE /\ st \in StopReasons
               /\ pc' = [pc EXCEPT ![Consumer] = "stop"]
               /\ inc' = [inc EXCEPT ![Consumer] = i]
               /\ tier' = [tier EXCEPT ![Consumer] = currentTier[i]]
               /\ reason' = [reason EXCEPT ![Consumer] = st]
               /\ UNCHANGED policy
      <3>1. i \in Incidents
        BY <2>1 DEF Message
      <3> QED
        BY <1>0, <2>1, <2>3, <3>1
    <2> QED
      BY <1>19, <2>2, <2>3 DEF ReceiveUpdated
  <1>20. CASE Ack
    BY <1>0, <1>20 DEF Ack, Leave
  <1>21. ASSUME NEW w \in Workers, HandlerError(w)
        PROVE  Typing'
    BY <1>21 DEF HandlerError, Fault, ReturnError, Leave
  <1>22. ASSUME NEW w \in Workers, Crash(w)
        PROVE  Typing'
    BY <1>22 DEF Crash, Fault, Leave
  <1>23. ASSUME NEW m \in Message, IncidentEvent(m)
        PROVE  Typing'
    <2>1. queue \in Seq(Message) /\ queue' = Append(queue, m)
      BY <1>23 DEF IncidentEvent
    <2>2. queue' \in Seq(Message)
      BY <2>1
    <2>3. Len(queue') = Len(queue) + 1 /\ Len(queue) \in Nat
      BY <2>1
    <2>4. queue' # <<>>
      BY <2>3
    <2> QED
      BY <1>23, <2>2, <2>4 DEF IncidentEvent
  <1>24. CASE UNCHANGED vars
    BY <1>24 DEF vars
  <1> QED
    BY <1>1, <1>2, <1>3, <1>4, <1>5, <1>6, <1>7, <1>8, <1>9, <1>10, <1>11,
       <1>12, <1>13, <1>14, <1>15, <1>16, <1>17, <1>18, <1>19, <1>20, <1>21,
       <1>22, <1>23, <1>24 DEF Next, Escalator, Consume

\* TypeOK holds in every reachable state of the escalation service.
THEOREM TypeCorrect == Spec => []TypeOK
PROOF
  <1>1. Init => Typing
    BY DEF Init, Typing, TypeOK, JobsOK, PCs, StopReasons, Workers
  <1>2. Typing => TypeOK
    BY DEF Typing
  <1> QED
    BY <1>1, <1>2, TypingStep, PTL DEF Spec
-----------------------------------------------------------------------------
(***************************************************************************)
(* At-most-once.  Claims is the part of IInv about who may record and      *)
(* publish what.  Most steps leave it alone because the worker they move   *)
(* holds no claim afterwards (QuietStep); the others are taken one by one. *)
(***************************************************************************)

Claims ==
    /\ NothingBeforeRow /\ ClaimsUpToTier /\ ClaimsExclusive /\ ClaimsUnrecorded
    /\ StopsRecorded /\ PublishedOnce /\ HistoryOnce

ClaimPCs == TriggerPCs \cup {"publishExhausted", "stop", "stopHistory"}

\* The indices of a sequence after an append: the old ones and one new one.
LEMMA AppendIndex ==
    ASSUME NEW S, NEW s \in Seq(S), NEW e \in S, NEW k \in DOMAIN Append(s, e)
    PROVE  \/ k \in DOMAIN s /\ Append(s, e)[k] = s[k]
           \/ k = Len(s) + 1 /\ k \notin DOMAIN s /\ Append(s, e)[k] = e
PROOF
  OBVIOUS

\* A sequence without duplicates stays so when a new element is appended.
LEMMA AppendOnce ==
    ASSUME NEW S, NEW s \in Seq(S), NEW e \in S,
           \A j, k \in DOMAIN s : s[j] = s[k] => j = k,
           \A k \in DOMAIN s : s[k] # e
    PROVE  \A j, k \in DOMAIN Append(s, e) : Append(s, e)[j] = Append(s, e)[k] => j = k
PROOF
  BY AppendIndex

\* A step that records nothing, writes no row and leaves the one worker it moves
\* without a claim keeps the claims of all the others.
LEMMA QuietStep ==
    ASSUME Typing, Claims, NEW w \in Workers,
           UNCHANGED <<currentTier, status, history, published>>,
           pc' \in [Workers -> PCs], pc'[w] \notin ClaimPCs,
           \A v \in Workers \ {w} : pc'[v] = pc[v] /\ inc'[v] = inc[v] /\ tier'[v] = tier[v]
    PROVE  Claims'
PROOF
  <1> USE DEF Claims, ClaimPCs, TriggerPCs
  <1>1. NothingBeforeRow'
    BY DEF NothingBeforeRow
  <1>2. ClaimsUpToTier'
    BY DEF ClaimsUpToTier, Active
  <1>3. ClaimsExclusive'
    BY DEF ClaimsExclusive
  <1>4. ClaimsUnrecorded'
    BY DEF ClaimsUnrecorded
  <1>5. StopsRecorded' /\ PublishedOnce' /\ HistoryOnce'
    BY DEF StopsRecorded, PublishedOnce, HistoryOnce
  <1> QED
    BY <1>1, <1>2, <1>3, <1>4, <1>5

\* Creating the row claims its first tier: before the row nothing was recorded.
LEMMA ClaimsCreate ==
    ASSUME Typing, Claims, NEW w \in Workers, CreateEscalationState(w)
    PROVE  Claims'
PROOF
  <1> DEFINE i == inc[w]
             t == FirstTier(policy[w])
  <1>1. /\ pc[w] = "create"
        /\ UNCHANGED <<config, history, queue, published, batch, sent, faults>>
    BY DEF CreateEscalationState
  <1>2. i \in Incidents /\ policy[w] \in Policies
    BY <1>1 DEF Typing, TypeOK, JobsOK
  <1>3. CASE /\ status[i] = "none"
             /\ WriteRow(i, t, "active", FALSE)
             /\ Goto(w, "triggerHistory", t)
    <2>1. t \in Int
      BY <1>2, FirstTierInt
    <2> HIDE DEF t
    <2> USE DEF Claims, TriggerPCs, Typing, TypeOK, WriteRow, Goto
    <2>2. NothingBeforeRow'
      BY <1>1, <1>2, <1>3, <2>1 DEF NothingBeforeRow
    <2>3. ClaimsUpToTier'
      BY <1>1, <1>2, <1>3, <2>1 DEF ClaimsUpToTier, Active, NothingBeforeRow
    <2>4. ClaimsExclusive'
      BY <1>1, <1>2, <1>3, <2>1 DEF ClaimsExclusive, NothingBeforeRow
    <2>5. ClaimsUnrecorded'
      BY <1>1, <1>2, <1>3, <2>1 DEF ClaimsUnrecorded, NothingBeforeRow
    <2>6. StopsRecorded'
      BY <1>1, <1>2, <1>3, <2>1 DEF StopsRecorded, NothingBeforeRow
    <2>7. PublishedOnce'
      BY <1>1, <1>2, <1>3, <2>1 DEF PublishedOnce, NothingBeforeRow
    <2>8. HistoryOnce'
      BY <1>1, <1>2, <1>3, <2>1 DEF HistoryOnce, NothingBeforeRow
    <2> QED
      BY <2>2, <2>3, <2>4, <2>5, <2>6, <2>7, <2>8
  <1>4. CASE ReturnError(w) /\ UNCHANGED rows
    BY <1>1, <1>4, QuietStep DEF ReturnError, Leave, rows, ClaimPCs, TriggerPCs, Typing, TypeOK, PCs
  <1> QED
    BY <1>3, <1>4 DEF CreateEscalationState

\* Recording the claimed tier in the history keeps the claim to publish it.
LEMMA ClaimsTriggerHistory ==
    ASSUME Typing, Claims, NEW w \in Workers, TriggerHistory(w)
    PROVE  Claims'
PROOF
  <1> DEFINE i == inc[w]
             e == <<"triggered", tier[w]>>
  <1>1. /\ pc[w] = "triggerHistory"
        /\ Goto(w, "publishTriggered", tier[w])
        /\ UNCHANGED <<config, rows, queue, published, batch, sent>>
    BY DEF TriggerHistory
  <1>2. i \in Incidents /\ tier[w] \in Int /\ history[i] \in Seq(Entry) /\ e \in Entry
    BY <1>1 DEF Typing, TypeOK, JobsOK, Entry
  <1>3. /\ \A v \in Workers : inc'[v] = inc[v] /\ tier'[v] = tier[v]
        /\ \A v \in Workers \ {w} : pc'[v] = pc[v]
        /\ pc'[w] = "publishTriggered"
        /\ UNCHANGED <<currentTier, status, published>>
    BY <1>1 DEF Goto, Typing, TypeOK, rows
  <1>4. /\ \A j \in Incidents \ {i} : history'[j] = history[j]
        /\ \A k \in DOMAIN history'[i] :
              \/ k \in DOMAIN history[i] /\ history'[i][k] = history[i][k]
              \/ history'[i][k] = e
        /\ \A j, k \in DOMAIN history'[i] : history'[i][j] = history'[i][k] => j = k
        /\ status[i] = "none" => history'[i] = history[i]
    <2>1. CASE AppendHistory(i, "triggered", tier[w])
      <3>1. history'[i] = Append(history[i], e)
        BY <1>2, <2>1 DEF AppendHistory, Typing, TypeOK
      <3>2. \A k \in DOMAIN history[i] : history[i][k] # e
        BY <1>1 DEF Claims, ClaimsUnrecorded
      <3>3. \A j, k \in DOMAIN history[i] : history[i][j] = history[i][k] => j = k
        BY <1>2 DEF Claims, HistoryOnce
      <3>4. status[i] # "none"
        BY <1>1, <1>2 DEF Claims, NothingBeforeRow, TriggerPCs
      <3>5. \A j, k \in DOMAIN history'[i] : history'[i][j] = history'[i][k] => j = k
        <4> HIDE DEF e, i
        <4>1. \A j, k \in DOMAIN Append(history[i], e) :
                 Append(history[i], e)[j] = Append(history[i], e)[k] => j = k
          BY <1>2, <3>2, <3>3, AppendOnce
        <4> QED
          BY <3>1, <4>1
      <3>6. \A k \in DOMAIN history'[i] :
              \/ k \in DOMAIN history[i] /\ history'[i][k] = history[i][k]
              \/ history'[i][k] = e
        BY <1>2, <3>1, AppendIndex
      <3>7. \A j \in Incidents \ {i} : history'[j] = history[j]
        BY <2>1 DEF AppendHistory, Typing, TypeOK
      <3> QED
        BY <3>4, <3>5, <3>6, <3>7
    <2>2. CASE UNCHANGED history
      BY <1>2, <2>2 DEF Claims, HistoryOnce
    <2> QED
      BY <2>1, <2>2 DEF TriggerHistory
  <1> USE DEF Claims, TriggerPCs
  <1>5. NothingBeforeRow'
    BY <1>1, <1>2, <1>3, <1>4 DEF NothingBeforeRow
  <1>6. ClaimsUpToTier'
    BY <1>1, <1>2, <1>3, <1>4 DEF ClaimsUpToTier, Active
  <1>7. ClaimsExclusive'
    BY <1>1, <1>2, <1>3 DEF ClaimsExclusive
  <1>8. ClaimsUnrecorded'
    <2> SUFFICES ASSUME NEW v \in Workers
                 PROVE  ClaimsUnrecorded!(v)'
      BY DEF ClaimsUnrecorded
    <2>1. CASE v = w
      BY <1>1, <1>3, <2>1 DEF ClaimsUnrecorded
    <2>2. CASE v # w
      <3>1. pc'[v] = pc[v] /\ inc'[v] = inc[v] /\ tier'[v] = tier[v]
        BY <1>3, <2>2
      <3>2. pc[v] # "idle" /\ pc[v] # "ack" => inc[v] \in Incidents
        BY DEF Typing, JobsOK
      <3>3. pc[v] = "triggerHistory" /\ inc[v] = i => tier[v] # tier[w]
        BY <1>1, <2>2 DEF ClaimsExclusive
      <3>4. pc[v] = "triggerHistory" =>
              \A k \in DOMAIN history'[inc[v]] : history'[inc[v]][k] # <<"triggered", tier[v]>>
        BY <1>4, <3>2, <3>3 DEF ClaimsUnrecorded
      <3>5. pc[v] = "stopHistory" =>
              \A k \in DOMAIN history'[inc[v]] : history'[inc[v]][k][1] \notin StopReasons
        BY <1>4, <3>2 DEF ClaimsUnrecorded, StopReasons
      <3> QED
        BY <1>3, <3>1, <3>4, <3>5 DEF ClaimsUnrecorded
    <2> QED
      BY <2>1, <2>2
  <1>9. StopsRecorded' /\ PublishedOnce' /\ HistoryOnce'
    BY <1>1, <1>2, <1>3, <1>4 DEF StopsRecorded, PublishedOnce, HistoryOnce, StopReasons
  <1> QED
    BY <1>5, <1>6, <1>7, <1>8, <1>9

\* Publishing what a worker has claimed uses up its claim.  x is the event:
\* escalation.triggered of its tier, or escalation.exhausted.
LEMMA ClaimsPublish ==
    ASSUME Typing, Claims, NEW w \in Workers, NEW type \in {"triggered", "exhausted"},
           NEW t \in Int, Return(w), UNCHANGED <<rows, history>>,
           Publish(inc[w], type, t) \/ UNCHANGED published,
           \/ pc[w] = "publishTriggered" /\ type = "triggered" /\ t = tier[w]
           \/ pc[w] = "publishExhausted" /\ type = "exhausted" /\ t = 0
    PROVE  Claims'
PROOF
  <1> DEFINE x == <<inc[w], type, t>>
  <1>1. inc[w] \in Incidents /\ published \in Seq(Event) /\ x \in Event
    BY DEF Typing, TypeOK, JobsOK, Event
  <1>2. /\ \A v \in Workers \ {w} : inc'[v] = inc[v] /\ tier'[v] = tier[v] /\ pc'[v] = pc[v]
        /\ pc'[w] \in {"idle", "ack"}
        /\ UNCHANGED <<currentTier, status, history>>
    BY DEF Return, Leave, Typing, TypeOK, rows
  <1>3. \A k \in DOMAIN published : published[k] # x
    BY DEF Claims, ClaimsUnrecorded, TriggerPCs
  <1>4. status[inc[w]] # "none"
    BY <1>1 DEF Claims, NothingBeforeRow, TriggerPCs
  <1>5. /\ \A k \in DOMAIN published' :
              \/ k \in DOMAIN published /\ published'[k] = published[k]
              \/ published'[k] = x
        /\ PublishedOnce'
    <2>1. CASE Publish(inc[w], type, t)
      <3>1. published' = Append(published, x)
        BY <2>1 DEF Publish
      <3>2. \A j, k \in DOMAIN published : published[j] = published[k] => j = k
        BY DEF Claims, PublishedOnce
      <3>3. \A j, k \in DOMAIN published' : published'[j] = published'[k] => j = k
        BY <1>1, <1>3, <3>1, <3>2, AppendOnce
      <3>4. \A k \in DOMAIN Append(published, x) :
               \/ k \in DOMAIN published /\ Append(published, x)[k] = published[k]
               \/ Append(published, x)[k] = x
        <4> HIDE DEF x
        <4> QED
          BY <1>1, AppendIndex
      <3> QED
        BY <3>1, <3>3, <3>4 DEF PublishedOnce
    <2>2. CASE UNCHANGED published
      BY <2>2 DEF Claims, PublishedOnce
    <2> QED
      BY <2>1, <2>2
  <1> USE DEF Claims, TriggerPCs
  <1>6. NothingBeforeRow'
    BY <1>1, <1>2, <1>4, <1>5 DEF NothingBeforeRow
  <1>7. ClaimsUpToTier'
    BY <1>1, <1>2, <1>5 DEF ClaimsUpToTier, Active
  <1>8. ClaimsExclusive'
    BY <1>2 DEF ClaimsExclusive
  <1>9. ClaimsUnrecorded'
    <2> SUFFICES ASSUME NEW v \in Workers
                 PROVE  ClaimsUnrecorded!(v)'
      BY DEF ClaimsUnrecorded
    <2>1. CASE v = w
      BY <1>2, <2>1
    <2>2. CASE v # w
      <3>1. pc'[v] = pc[v] /\ inc'[v] = inc[v] /\ tier'[v] = tier[v]
        BY <1>2, <2>2
      <3>2. pc[v] \in TriggerPCs => <<inc[v], "triggered", tier[v]>> # x
        BY <2>2 DEF ClaimsExclusive
      <3>3. pc[v] = "publishExhausted" => <<inc[v], "exhausted", 0>> # x
        BY <2>2 DEF ClaimsExclusive
      <3> QED
        BY <1>2, <1>5, <3>1, <3>2, <3>3 DEF ClaimsUnrecorded
    <2> QED
      BY <2>1, <2>2
  <1>10. StopsRecorded' /\ HistoryOnce'
    BY <1>2 DEF StopsRecorded, HistoryOnce
  <1> QED
    BY <1>5, <1>6, <1>7, <1>8, <1>9, <1>10

\* The guarded UPDATE of AdvanceOrExhaust claims the tier it writes: as long as
\* the row was active at the expected tier, nobody can have claimed the next one.
LEMMA ClaimsAdvance ==
    ASSUME Typing, Claims, NEW w \in Workers, AdvanceOrExhaust(w)
    PROVE  Claims'
PROOF
  <1> DEFINE i == inc[w]
             t == tier[w]
  <1>1. pc[w] = "advance" /\ UNCHANGED <<policyOf, published>>
    BY DEF AdvanceOrExhaust
  <1>2. i \in Incidents /\ t \in Int
    BY <1>1 DEF Typing, TypeOK, JobsOK
  <1>3. CASE Return(w) /\ UNCHANGED <<currentTier, status, due, history>>
    BY <1>1, <1>3, QuietStep DEF Return, Leave, ClaimPCs, TriggerPCs, Typing, TypeOK, PCs
  <1>4. CASE /\ Claimable(i, t)
             /\ WriteRow(i, t + 1, "active", FALSE)
             /\ Goto(w, "triggerHistory", t + 1)
             /\ UNCHANGED history
    <2>1. /\ \A v \in Workers \ {w} : pc'[v] = pc[v] /\ tier'[v] = tier[v]
          /\ \A v \in Workers : inc'[v] = inc[v]
          /\ pc'[w] = "triggerHistory" /\ tier'[w] = t + 1
      BY <1>4 DEF Goto, Typing, TypeOK
    <2>2. /\ \A j \in Incidents \ {i} : status'[j] = status[j] /\ currentTier'[j] = currentTier[j]
          /\ status[i] = "active" /\ currentTier[i] = t
          /\ status'[i] = "active" /\ currentTier'[i] = t + 1
      BY <1>2, <1>4 DEF WriteRow, Claimable, Active, Typing, TypeOK
    <2>3. UNCHANGED <<history, published>>
      BY <1>1, <1>4
    <2>4. \A v \in Workers : tier[v] \in Int
      BY DEF Typing, TypeOK
    <2>5. \A k \in DOMAIN published : published[k][3] \in Int
      BY DEF Typing, TypeOK, Event
    <2>6. \A j \in Incidents : \A k \in DOMAIN history[j] : history[j][k][2] \in Int
      BY DEF Typing, TypeOK, Entry
    <2> USE DEF Claims, TriggerPCs
    <2>7. NothingBeforeRow'
      BY <2>1, <2>2, <2>3 DEF NothingBeforeRow
    <2>8. ClaimsUpToTier'
      BY <1>2, <2>1, <2>2, <2>3, <2>4, <2>5, <2>6 DEF ClaimsUpToTier, Active
    <2>9. ClaimsExclusive'
      BY <1>2, <2>1, <2>2, <2>4 DEF ClaimsExclusive, ClaimsUpToTier, Active
    <2>10. ClaimsUnrecorded'
      <3> SUFFICES ASSUME NEW v \in Workers
                   PROVE  ClaimsUnrecorded!(v)'
        BY DEF ClaimsUnrecorded
      <3>1. CASE v = w
        BY <1>2, <2>1, <2>2, <2>3, <2>5, <2>6, <3>1 DEF ClaimsUpToTier, Active
      <3>2. CASE v # w
        <4>1. pc[v] \in {"stop", "stopHistory"} => inc[v] \in Incidents
          BY DEF Typing, JobsOK
        <4> QED
          BY <2>1, <2>2, <2>3, <3>2, <4>1 DEF ClaimsUnrecorded, StopReasons
      <3> QED
        BY <3>1, <3>2
    <2>11. StopsRecorded' /\ PublishedOnce' /\ HistoryOnce'
      BY <1>2, <2>2, <2>3 DEF StopsRecorded, PublishedOnce, HistoryOnce
    <2> QED
      BY <2>7, <2>8, <2>9, <2>10, <2>11
  <1>5. CASE /\ Claimable(i, t)
             /\ WriteRow(i, t, "exhausted", TRUE)
             /\ AppendHistory(i, "exhausted", t)
             /\ Goto(w, "publishExhausted", t)
    <2> DEFINE e == <<"exhausted", t>>
    <2>1. /\ \A v \in Workers \ {w} : pc'[v] = pc[v]
          /\ \A v \in Workers : inc'[v] = inc[v] /\ tier'[v] = tier[v]
          /\ pc'[w] = "publishExhausted"
      BY <1>5 DEF Goto, Typing, TypeOK
    <2>2. /\ \A j \in Incidents \ {i} : status'[j] = status[j] /\ currentTier'[j] = currentTier[j]
          /\ status[i] = "active" /\ status'[i] = "exhausted"
      BY <1>2, <1>5 DEF WriteRow, Claimable, Active, Typing, TypeOK
    <2>3. /\ \A j \in Incidents \ {i} : history'[j] = history[j]
          /\ history'[i] = Append(history[i], e)
          /\ history[i] \in Seq(Entry) /\ e \in Entry
      BY <1>2, <1>5 DEF AppendHistory, Typing, TypeOK, Entry
    <2>4. \A k \in DOMAIN history[i] : history[i][k] # e
      BY <1>2, <2>2 DEF Claims, ClaimsUpToTier, Active
    <2>5. \A k \in DOMAIN history'[i] :
             \/ k \in DOMAIN history[i] /\ history'[i][k] = history[i][k]
             \/ history'[i][k] = e
      <3> HIDE DEF e, i
      <3> QED
        BY <2>3, AppendIndex
    <2>6. \A j, k \in DOMAIN history'[i] : history'[i][j] = history'[i][k] => j = k
      <3>1. \A j, k \in DOMAIN history[i] : history[i][j] = history[i][k] => j = k
        BY <1>2 DEF Claims, HistoryOnce
      <3> HIDE DEF e, i
      <3>2. \A j, k \in DOMAIN Append(history[i], e) :
               Append(history[i], e)[j] = Append(history[i], e)[k] => j = k
        BY <2>3, <2>4, <3>1, AppendOnce
      <3> QED
        BY <2>3, <3>2
    <2>0. \A j \in Incidents \ {i} : history'[j] = history[j]
      BY <2>3
    <2> USE DEF Claims, TriggerPCs
    <2>7. NothingBeforeRow'
      BY <1>1, <2>1, <2>2, <2>3 DEF NothingBeforeRow
    <2>8. ClaimsUpToTier'
      <3> SUFFICES ASSUME NEW j \in Incidents \ {i}, status[j] = "active"
                   PROVE  ClaimsUpToTier!(j)!2'
        BY <2>2 DEF ClaimsUpToTier, Active
      <3>1. ClaimsUpToTier!(j)!2
        BY DEF ClaimsUpToTier, Active
      <3>2. currentTier'[j] = currentTier[j] /\ history'[j] = history[j]
        BY <2>2, <2>3
      <3> QED
        BY <1>1, <2>1, <3>1, <3>2
    <2>9. ClaimsExclusive'
      BY <1>2, <2>1, <2>2 DEF ClaimsExclusive, ClaimsUpToTier, Active
    <2>10. ClaimsUnrecorded'
      <3> SUFFICES ASSUME NEW v \in Workers
                   PROVE  ClaimsUnrecorded!(v)'
        BY DEF ClaimsUnrecorded
      <3>1. CASE v = w
        BY <1>1, <1>2, <2>1, <2>2, <3>1 DEF ClaimsUpToTier, Active
      <3>2. CASE v # w
        <4>1. pc[v] # "idle" /\ pc[v] # "ack" => inc[v] \in Incidents
          BY DEF Typing, JobsOK
        <4>2. pc'[v] = pc[v] /\ inc'[v] = inc[v] /\ tier'[v] = tier[v]
          BY <2>1, <3>2
        <4>3. pc[v] = "triggerHistory" =>
                \A k \in DOMAIN history'[inc[v]] : history'[inc[v]][k] # <<"triggered", tier[v]>>
          BY <2>0, <2>5, <4>1 DEF ClaimsUnrecorded
        <4>4. pc[v] = "stopHistory" =>
                \A k \in DOMAIN history'[inc[v]] : history'[inc[v]][k][1] \notin StopReasons
          BY <2>0, <2>5, <4>1 DEF ClaimsUnrecorded, StopReasons
        <4>5. pc[v] = "stop" => status'[inc[v]] \in {"active", "exhausted"}
          BY <2>2, <4>1 DEF ClaimsUnrecorded
        <4> QED
          BY <1>1, <2>2, <4>1, <4>2, <4>3, <4>4, <4>5 DEF ClaimsUnrecorded, StopReasons
      <3> QED
        BY <3>1, <3>2
    <2>11. StopsRecorded'
      BY <1>2, <2>0, <2>2, <2>5 DEF StopsRecorded, StopReasons
    <2>12. PublishedOnce' /\ HistoryOnce'
      BY <1>1, <2>3, <2>6 DEF PublishedOnce, HistoryOnce
    <2> QED
      BY <2>7, <2>8, <2>9, <2>10, <2>11, <2>12
  <1> QED
    BY <1>3, <1>4, <1>5 DEF AdvanceOrExhaust

\* Stop begins on a row it has just read as active.
LEMMA ClaimsReceiveUpdated ==
    ASSUME Typing, Claims, ReceiveUpdated
    PROVE  Claims'
PROOF
  <1> DEFINE i == Head(queue)[2]
  <1>0. Consumer \in Workers
    BY DEF Workers
  <1>1. Idle(Consumer) /\ UNCHANGED <<config, rows, history, published>>
    BY DEF ReceiveUpdated
  <1>2. CASE Return(Consumer)
    BY <1>0, <1>1, <1>2, QuietStep
       DEF Return, Leave, rows, ClaimPCs, TriggerPCs, Typing, TypeOK, PCs
  <1>3. CASE /\ Active(i)
             /\ pc' = [pc EXCEPT ![Consumer] = "stop"]
             /\ inc' = [inc EXCEPT ![Consumer] = i]
             /\ tier' = [tier EXCEPT ![Consumer] = currentTier[i]]
    <2>1. /\ \A v \in Workers \ {Consumer} :
                pc'[v] = pc[v] /\ inc'[v] = inc[v] /\ tier'[v] = tier[v]
          /\ pc'[Consumer] = "stop" /\ inc'[Consumer] = i
      BY <1>0, <1>3 DEF Typing, TypeOK
    <2>2. UNCHANGED <<currentTier, status, history, published>> /\ status[i] = "active"
      BY <1>1, <1>3 DEF rows, Active
    <2> HIDE DEF i
    <2> USE DEF Claims, TriggerPCs
    <2>3. NothingBeforeRow'
      BY <2>1, <2>2 DEF NothingBeforeRow
    <2>4. ClaimsUpToTier'
      BY <2>1, <2>2 DEF ClaimsUpToTier, Active
    <2>5. ClaimsExclusive'
      BY <2>1 DEF ClaimsExclusive
    <2>6. ClaimsUnrecorded'
      BY <2>1, <2>2 DEF ClaimsUnrecorded
    <2>7. StopsRecorded' /\ PublishedOnce' /\ HistoryOnce'
      BY <2>2 DEF StopsRecorded, PublishedOnce, HistoryOnce
    <2> QED
      BY <2>3, <2>4, <2>5, <2>6, <2>7
  <1> QED
    BY <1>2, <1>3 DEF ReceiveUpdated

\* Stop's write ends an active or exhausted row; no stop was recorded before.
LEMMA ClaimsStopWrite ==
    ASSUME Typing, Claims, StopWrite
    PROVE  Claims'
PROOF
  <1> DEFINE w == Consumer
             i == inc[w]
  <1>0. w \in Workers
    BY DEF Workers
  <1>1. pc[w] = "stop" /\ UNCHANGED <<history, published>>
    BY DEF StopWrite
  <1>2. i \in Incidents /\ reason[w] \in StopReasons
    BY <1>0, <1>1 DEF Typing, TypeOK, JobsOK
  <1>3. /\ \A v \in Workers \ {w} : pc'[v] = pc[v]
        /\ \A v \in Workers : inc'[v] = inc[v] /\ tier'[v] = tier[v]
        /\ pc'[w] = "stopHistory"
    BY <1>0 DEF StopWrite, Goto, Typing, TypeOK
  <1>4. /\ \A j \in Incidents \ {i} : status'[j] = status[j] /\ currentTier'[j] = currentTier[j]
        /\ status[i] \in {"active", "exhausted"}
        /\ status'[i] \in {"acknowledged", "resolved"}
    BY <1>0, <1>1, <1>2
       DEF StopWrite, WriteRow, Typing, TypeOK, Claims, ClaimsUnrecorded, StopReasons
  <1>5. \A v \in Workers \ {w} : pc[v] # "stop" /\ pc[v] # "stopHistory"
    BY DEF Typing, JobsOK
  <1> HIDE DEF w, i
  <1> USE DEF Claims, TriggerPCs
  <1>6. NothingBeforeRow'
    BY <1>1, <1>2, <1>3, <1>4 DEF NothingBeforeRow, i
  <1>7. ClaimsUpToTier'
    BY <1>0, <1>1, <1>2, <1>3, <1>4 DEF ClaimsUpToTier, Active, i
  <1>8. ClaimsExclusive'
    BY <1>0, <1>1, <1>3 DEF ClaimsExclusive
  <1>9. ClaimsUnrecorded'
    <2> SUFFICES ASSUME NEW v \in Workers
                 PROVE  ClaimsUnrecorded!(v)'
      BY DEF ClaimsUnrecorded
    <2>1. CASE v = w
      BY <1>1, <1>2, <1>3, <1>4, <2>1 DEF StopsRecorded, i, StopReasons
    <2>2. CASE v # w
      BY <1>1, <1>3, <1>5, <2>2 DEF ClaimsUnrecorded
    <2> QED
      BY <2>1, <2>2
  <1>10. StopsRecorded' /\ PublishedOnce' /\ HistoryOnce'
    BY <1>1, <1>2, <1>4 DEF StopsRecorded, PublishedOnce, HistoryOnce
  <1> QED
    BY <1>6, <1>7, <1>8, <1>9, <1>10

\* Stop records its reason; the row is neither active nor exhausted by then.
LEMMA ClaimsStopHistory ==
    ASSUME Typing, Claims, StopHistory
    PROVE  Claims'
PROOF
  <1> DEFINE w == Consumer
             i == inc[w]
             e == <<reason[w], tier[w]>>
  <1>0. w \in Workers
    BY DEF Workers
  <1>1. pc[w] = "stopHistory" /\ Return(w) /\ UNCHANGED <<rows, published>>
    BY DEF StopHistory
  <1>2. /\ i \in Incidents /\ reason[w] \in StopReasons
        /\ history[i] \in Seq(Entry) /\ e \in Entry
    BY <1>0, <1>1 DEF Typing, TypeOK, JobsOK, Entry
  <1>3. CASE UNCHANGED history
    BY <1>0, <1>1, <1>3, QuietStep
       DEF Return, Leave, rows, ClaimPCs, TriggerPCs, Typing, TypeOK, PCs
  <1>4. CASE AppendHistory(i, reason[w], tier[w])
    <2>1. /\ \A v \in Workers \ {w} : inc'[v] = inc[v] /\ tier'[v] = tier[v] /\ pc'[v] = pc[v]
          /\ pc'[w] \in {"idle", "ack"}
          /\ UNCHANGED <<currentTier, status, published>>
      BY <1>0, <1>1 DEF Return, Leave, Typing, TypeOK, rows
    <2>2. /\ \A j \in Incidents \ {i} : history'[j] = history[j]
          /\ history'[i] = Append(history[i], e)
      BY <1>2, <1>4 DEF AppendHistory, Typing, TypeOK
    <2>3. \A k \in DOMAIN history[i] : history[i][k] # e
      BY <1>0, <1>1, <1>2 DEF Claims, ClaimsUnrecorded
    <2>4. \A j, k \in DOMAIN history[i] : history[i][j] = history[i][k] => j = k
      BY <1>2 DEF Claims, HistoryOnce
    <2>5. status[i] # "none" /\ status[i] # "active" /\ status[i] # "exhausted"
      BY <1>0, <1>1 DEF Claims, ClaimsUnrecorded, StopReasons
    <2>6. \A v \in Workers \ {w} : pc[v] # "stopHistory"
      BY DEF Typing, JobsOK
    <2>7. e[1] \in {"acknowledged", "resolved"}
      BY <1>2 DEF StopReasons
    <2> HIDE DEF w, i, e
    <2>8. \A k \in DOMAIN history'[i] :
             \/ k \in DOMAIN history[i] /\ history'[i][k] = history[i][k]
             \/ history'[i][k] = e
      BY <1>2, <2>2, AppendIndex
    <2>9. \A j, k \in DOMAIN history'[i] : history'[i][j] = history'[i][k] => j = k
      <3>1. \A j, k \in DOMAIN Append(history[i], e) :
               Append(history[i], e)[j] = Append(history[i], e)[k] => j = k
        BY <1>2, <2>3, <2>4, AppendOnce
      <3> QED
        BY <2>2, <3>1
    <2>10. \A j \in Incidents \ {i} : history'[j] = history[j]
      BY <2>2
    <2> USE DEF Claims, TriggerPCs
    <2>11. NothingBeforeRow'
      BY <2>1, <2>5, <2>10 DEF NothingBeforeRow
    <2>12. ClaimsUpToTier'
      BY <2>1, <2>5, <2>10 DEF ClaimsUpToTier, Active
    <2>13. ClaimsExclusive'
      BY <2>1 DEF ClaimsExclusive
    <2>14. ClaimsUnrecorded'
      <3> SUFFICES ASSUME NEW v \in Workers
                   PROVE  ClaimsUnrecorded!(v)'
        BY DEF ClaimsUnrecorded
      <3>1. CASE v = w
        BY <2>1, <3>1
      <3>2. CASE v # w
        <4>1. pc'[v] = pc[v] /\ inc'[v] = inc[v] /\ tier'[v] = tier[v] /\ pc[v] # "stopHistory"
          BY <2>1, <2>6, <3>2
        <4>2. pc[v] = "triggerHistory" => inc[v] \in Incidents
          BY DEF Typing, JobsOK
        <4>3. e # <<"triggered", tier[v]>>
          <5>1. <<"triggered", tier[v]>>[1] = "triggered"
            OBVIOUS
          <5> QED
            BY <2>7, <5>1
        <4>4. pc[v] = "triggerHistory" =>
                \A k \in DOMAIN history'[inc[v]] : history'[inc[v]][k] # <<"triggered", tier[v]>>
          <5>1. pc[v] = "triggerHistory" =>
                  \A k \in DOMAIN history[inc[v]] : history[inc[v]][k] # <<"triggered", tier[v]>>
            BY DEF ClaimsUnrecorded
          <5>2. CASE inc[v] = i
            BY <2>8, <4>3, <5>1, <5>2
          <5>3. CASE inc[v] # i
            BY <2>10, <4>2, <5>1, <5>3
          <5> QED
            BY <5>2, <5>3
        <4> QED
          BY <2>1, <4>1, <4>4 DEF ClaimsUnrecorded
      <3> QED
        BY <3>1, <3>2
    <2>15. StopsRecorded' /\ PublishedOnce' /\ HistoryOnce'
      BY <2>1, <2>5, <2>9, <2>10 DEF StopsRecorded, PublishedOnce, HistoryOnce
    <2> QED
      BY <2>11, <2>12, <2>13, <2>14, <2>15
  <1> QED
    BY <1>3, <1>4 DEF StopHistory

\* Every step of the service keeps the claims.
LEMMA ClaimsStep == Typing /\ Claims /\ [Next]_vars => Claims'
PROOF
  <1> SUFFICES ASSUME Typing, Claims, [Next]_vars
               PROVE  Claims'
    OBVIOUS
  <1>0. Consumer \in Workers /\ Handlers \subseteq Workers /\ Monitors \subseteq Workers
    BY DEF Workers
  <1>1. CASE UNCHANGED <<currentTier, status, history, published, pc, inc, tier>>
    BY <1>1 DEF Claims, NothingBeforeRow, ClaimsUpToTier, ClaimsExclusive,
       ClaimsUnrecorded, StopsRecorded, PublishedOnce, HistoryOnce, Active
  <1>2. ASSUME NEW w \in Workers, NEW l \in {"idle", "ack"}, Leave(w, l),
               UNCHANGED <<rows, history, published>>
        PROVE  Claims'
    BY <1>2, QuietStep DEF Leave, rows, ClaimPCs, TriggerPCs, Typing, TypeOK, PCs
  <1>3. ASSUME NEW w \in Workers, NEW l \in {"policy", "create", "advance"},
               pc' = [pc EXCEPT ![w] = l],
               \A v \in Workers \ {w} : inc'[v] = inc[v] /\ tier'[v] = tier[v],
               UNCHANGED <<rows, history, published>>
        PROVE  Claims'
    BY <1>3, QuietStep DEF rows, ClaimPCs, TriggerPCs, Typing, TypeOK, PCs
  <1>4. ASSUME NEW w \in Workers, NEW i, NEW p, StartAssign(w, i, p),
               UNCHANGED <<rows, history, published>>
        PROVE  Claims'
    <2>1. \A v \in Workers \ {w} : inc'[v] = inc[v] /\ tier'[v] = tier[v]
      BY <1>4 DEF StartAssign, Typing, TypeOK
    <2> QED
      BY <1>3, <1>4, <2>1 DEF StartAssign
  <1>5. ASSUME NEW w \in Workers, NEW i, NEW t, StartAdvance(w, i, t),
               UNCHANGED <<rows, history, published>>
        PROVE  Claims'
    <2>1. \A v \in Workers \ {w} : inc'[v] = inc[v] /\ tier'[v] = tier[v]
      BY <1>5 DEF StartAdvance, Typing, TypeOK
    <2> QED
      BY <1>3, <1>5, <2>1 DEF StartAdvance
  <1>6. ASSUME NEW p \in Policies, CreatePolicy(p) \/ DeletePolicy(p) \/ PutDefaultPolicy(p)
        PROVE  Claims'
    BY <1>1, <1>6 DEF CreatePolicy, DeletePolicy, PutDefaultPolicy, rows, jobs
  <1>7. CASE DeleteDefaultPolicy
    BY <1>1, <1>7 DEF DeleteDefaultPolicy, rows, jobs
  <1>8. ASSUME NEW h \in Handlers, NEW i \in Incidents, NEW p \in Policies,
               AttachPolicy(h, i, p)
        PROVE  Claims'
    BY <1>0, <1>4, <1>8 DEF AttachPolicy
  <1>9. ASSUME NEW h \in Handlers, NEW i \in Incidents, ManualEscalate(h, i)
        PROVE  Claims'
    BY <1>0, <1>5, <1>9 DEF ManualEscalate
  <1>10. ASSUME NEW w \in Workers, GetPolicy(w)
        PROVE  Claims'
    <2>1. UNCHANGED <<rows, history, published>>
      BY <1>10 DEF GetPolicy
    <2>2. CASE ReturnError(w)
      BY <1>2, <2>1, <2>2 DEF ReturnError
    <2>3. CASE Goto(w, "create", 0)
      <3>1. \A v \in Workers \ {w} : inc'[v] = inc[v] /\ tier'[v] = tier[v]
        BY <2>3 DEF Goto, Typing, TypeOK
      <3> QED
        BY <1>3, <2>1, <2>3, <3>1 DEF Goto
    <2> QED
      BY <1>10, <2>2, <2>3 DEF GetPolicy
  <1>11. ASSUME NEW w \in Workers, PublishTriggered(w)
        PROVE  Claims'
    <2>1. tier[w] \in Int
      BY DEF Typing, TypeOK
    <2> QED
      BY <1>11, <2>1, ClaimsPublish DEF PublishTriggered
  <1>12. ASSUME NEW w \in Workers, PublishExhausted(w)
        PROVE  Claims'
    BY <1>12, ClaimsPublish DEF PublishExhausted
  <1>13. ASSUME NEW m \in Monitors, ListExpiredStates(m)
        PROVE  Claims'
    BY <1>1, <1>13 DEF ListExpiredStates, rows, jobs
  <1>14. ASSUME NEW m \in Monitors, MonitorNext(m)
        PROVE  Claims'
    BY <1>0, <1>5, <1>14 DEF MonitorNext
  <1>15. ASSUME NEW i \in Incidents, Timeout(i)
        PROVE  Claims'
    BY <1>1, <1>15 DEF Timeout, jobs
  <1>16. CASE ReceiveCreated
    <2>1. UNCHANGED <<rows, history, published>>
      BY <1>16 DEF ReceiveCreated
    <2>2. CASE Return(Consumer)
      BY <1>0, <1>2, <2>1, <2>2 DEF Return
    <2>3. CASE StartAssign(Consumer, Head(queue)[2], defaultPolicy)
      BY <1>0, <1>4, <2>1, <2>3
    <2> QED
      BY <1>16, <2>2, <2>3 DEF ReceiveCreated
  <1>17. CASE Ack
    BY <1>0, <1>2, <1>17 DEF Ack
  <1>18. ASSUME NEW w \in Workers, HandlerError(w) \/ Crash(w)
        PROVE  Claims'
    BY <1>2, <1>18 DEF HandlerError, Crash, ReturnError
  <1>19. ASSUME NEW m \in Message, IncidentEvent(m)
        PROVE  Claims'
    BY <1>1, <1>19 DEF IncidentEvent, rows, jobs
  <1>20. CASE UNCHANGED vars
    BY <1>1, <1>20 DEF vars, rows, jobs
  <1> QED
    BY <1>6, <1>7, <1>8, <1>9, <1>10, <1>11, <1>12, <1>13, <1>14, <1>15, <1>16,
       <1>17, <1>18, <1>19, <1>20, ClaimsCreate, ClaimsTriggerHistory, ClaimsAdvance,
       ClaimsReceiveUpdated, ClaimsStopWrite, ClaimsStopHistory
       DEF Next, Escalator, Consume

\* The two invariants hold together in every reachable state.
LEMMA Invariant == Spec => [](Typing /\ Claims)
PROOF
  <1>1. Init => Typing
    BY DEF Init, Typing, TypeOK, JobsOK, PCs, StopReasons, Workers
  <1>2. Init => Claims
    BY DEF Init, Claims, NothingBeforeRow, ClaimsUpToTier, ClaimsExclusive,
       ClaimsUnrecorded, StopsRecorded, PublishedOnce, HistoryOnce, Active,
       TriggerPCs, Workers
  <1> QED
    BY <1>1, <1>2, TypingStep, ClaimsStep, PTL DEF Spec

\* Whatever the interleaving of replicas, handlers and the consumer, and whatever
\* crashes or fails, no escalation event is given to the broker twice.
THEOREM PublishedAtMostOnce == Spec => []PublishedOnce
PROOF
  <1>1. Claims => PublishedOnce
    BY DEF Claims
  <1> QED
    BY <1>1, Invariant, PTL

\* The escalation history of an incident never repeats an entry.
THEOREM HistoryAtMostOnce == Spec => []HistoryOnce
PROOF
  <1>1. Claims => HistoryOnce
    BY DEF Claims
  <1> QED
    BY <1>1, Invariant, PTL

-----------------------------------------------------------------------------
(***************************************************************************)
(* What a step may never do to a row.                                      *)
(***************************************************************************)

\* How the row of incident i may change in one step: rows are never deleted, and
\* an active row was active before, at the same tier and no less due or at the
\* tier below, unless it is new.
RowStep(i) ==
    /\ status[i] # "none" => status'[i] # "none"
    /\ status[i] # "none" /\ status'[i] = "active" =>
          /\ status[i] = "active"
          /\ \/ currentTier'[i] = currentTier[i] /\ (due[i] => due'[i])
             \/ currentTier'[i] = currentTier[i] + 1

\* Every step changes every row in that way only.
LEMMA RowsStep ==
    Typing /\ [Next]_vars => \A i \in Incidents : RowStep(i)
PROOF
  <1> SUFFICES ASSUME Typing, [Next]_vars, NEW i \in Incidents
               PROVE  RowStep(i)
    OBVIOUS
  <1> USE DEF RowStep
  <1>0. Consumer \in Workers
    BY DEF Workers
  <1>1. CASE UNCHANGED rows
    BY <1>1 DEF rows
  <1>2. ASSUME NEW w \in Workers, CreateEscalationState(w)
        PROVE  RowStep(i)
    <2>1. inc[w] \in Incidents
      BY <1>2 DEF CreateEscalationState, Typing, JobsOK
    <2>2. CASE /\ status[inc[w]] = "none"
               /\ WriteRow(inc[w], FirstTier(policy[w]), "active", FALSE)
      BY <2>1, <2>2 DEF WriteRow, Typing, TypeOK
    <2>3. CASE UNCHANGED rows
      BY <1>1, <2>3
    <2> QED
      BY <1>2, <2>2, <2>3 DEF CreateEscalationState
  <1>3. ASSUME NEW w \in Workers, AdvanceOrExhaust(w)
        PROVE  RowStep(i)
    <2>1. inc[w] \in Incidents /\ tier[w] \in Int /\ UNCHANGED policyOf
      BY <1>3 DEF AdvanceOrExhaust, Typing, TypeOK, JobsOK
    <2>2. CASE UNCHANGED <<currentTier, status, due>>
      BY <1>1, <2>1, <2>2 DEF rows
    <2>3. CASE Claimable(inc[w], tier[w]) /\ WriteRow(inc[w], tier[w] + 1, "active", FALSE)
      BY <2>1, <2>3 DEF Claimable, Active, WriteRow, Typing, TypeOK
    <2>4. CASE WriteRow(inc[w], tier[w], "exhausted", TRUE)
      BY <2>1, <2>4 DEF WriteRow, Typing, TypeOK
    <2> QED
      BY <1>3, <2>2, <2>3, <2>4 DEF AdvanceOrExhaust
  <1>4. CASE StopWrite
    <2>1. inc[Consumer] \in Incidents /\ reason[Consumer] \in {"acknowledged", "resolved"}
      BY <1>0, <1>4 DEF StopWrite, Typing, JobsOK, StopReasons
    <2> QED
      BY <1>4, <2>1 DEF StopWrite, WriteRow, Typing, TypeOK
  <1>5. ASSUME NEW j \in Incidents, Timeout(j)
        PROVE  RowStep(i)
    BY <1>5 DEF Timeout, Typing, TypeOK
  <1>6. CASE UNCHANGED vars
    BY <1>1, <1>6 DEF vars
  <1>7. ASSUME NEW w \in Workers,
               \/ GetPolicy(w) \/ TriggerHistory(w) \/ PublishTriggered(w)
               \/ PublishExhausted(w) \/ HandlerError(w) \/ Crash(w)
        PROVE  RowStep(i)
    BY <1>1, <1>7 DEF GetPolicy, TriggerHistory, PublishTriggered, PublishExhausted,
       HandlerError, Crash
  <1>8. ASSUME ReceiveCreated \/ ReceiveUpdated \/ StopHistory \/ Ack \/ DeleteDefaultPolicy
        PROVE  RowStep(i)
    BY <1>1, <1>8 DEF ReceiveCreated, ReceiveUpdated, StopHistory, Ack, DeleteDefaultPolicy
  <1>9. ASSUME NEW m \in Monitors, ListExpiredStates(m) \/ MonitorNext(m)
        PROVE  RowStep(i)
    BY <1>1, <1>9 DEF ListExpiredStates, MonitorNext
  <1>10. ASSUME NEW m \in Message, IncidentEvent(m)
         PROVE  RowStep(i)
    BY <1>1, <1>10 DEF IncidentEvent
  <1>11. ASSUME NEW p \in Policies, CreatePolicy(p) \/ DeletePolicy(p) \/ PutDefaultPolicy(p)
         PROVE  RowStep(i)
    BY <1>1, <1>11 DEF CreatePolicy, DeletePolicy, PutDefaultPolicy
  <1>12. ASSUME NEW h \in Handlers, NEW j \in Incidents, NEW p \in Policies,
                AttachPolicy(h, j, p)
         PROVE  RowStep(i)
    BY <1>1, <1>12 DEF AttachPolicy
  <1>13. ASSUME NEW h \in Handlers, NEW j \in Incidents, ManualEscalate(h, j)
         PROVE  RowStep(i)
    BY <1>1, <1>13 DEF ManualEscalate
  <1> QED
    BY <1>2, <1>3, <1>4, <1>5, <1>6, <1>7, <1>8, <1>9, <1>10, <1>11, <1>12, <1>13
       DEF Next, Escalator, Consume

\* A stopped or exhausted escalation is never active again, although Stop writes
\* its row without a guard and monitors act on rows they read earlier.
THEOREM StopIsFinal == Spec => StoppedStaysStopped
PROOF
  <1>1. ASSUME Typing, Typing', [Next]_vars, NEW i \in Incidents,
               status[i] \in StopReasons \cup {"exhausted"}
        PROVE  status'[i] \in StopReasons \cup {"exhausted"}
    <2>1. RowStep(i)
      BY <1>1, RowsStep
    <2>2. status'[i] \in {"none", "active", "exhausted"} \cup StopReasons
      BY <1>1 DEF Typing, TypeOK
    <2> QED
      BY <1>1, <2>1, <2>2 DEF RowStep, StopReasons
  <1>2. Typing /\ Typing' /\ [Next]_vars =>
           [\A i \in Incidents :
               status[i] \in StopReasons \cup {"exhausted"} =>
                   status'[i] \in StopReasons \cup {"exhausted"}]_vars
    BY <1>1
  <1> QED
    BY <1>2, Invariant, PTL DEF Spec, StoppedStaysStopped

\* How what monitor m holds may change in one step: rows it listed were just read
\* as expired, and it starts to advance only a row it has listed.
MonitorStep(m) ==
    /\ \A s \in batch'[m] : s \in batch[m] \/ SnapshotOK(s[1], s[2])
    /\ pc'[m] = "advance" =>
          \/ pc[m] = "advance" /\ inc'[m] = inc[m] /\ tier'[m] = tier[m]
          \/ \E s \in batch[m] : inc'[m] = s[1] /\ tier'[m] = s[2]

\* Every step changes what a monitor holds in that way only.
LEMMA MonitorsStep ==
    Typing /\ [Next]_vars => \A m \in Monitors : MonitorStep(m)
PROOF
  <1> SUFFICES ASSUME Typing, [Next]_vars, NEW m \in Monitors
               PROVE  MonitorStep(m)
    OBVIOUS
  <1> USE DEF MonitorStep
  <1>0. m \in Workers /\ m # Consumer /\ m \notin Handlers /\ Consumer \in Workers
        /\ Handlers \subseteq Workers /\ Monitors \subseteq Workers
    BY WorkersAssumption DEF Workers
  <1>1. CASE UNCHANGED <<pc, inc, tier, batch>>
    BY <1>1
  <1>2. ASSUME NEW w \in Workers, NEW l \in PCs \ {"advance"}, pc' = [pc EXCEPT ![w] = l],
               \A v \in Workers \ {w} : inc'[v] = inc[v] /\ tier'[v] = tier[v],
               batch'[m] \subseteq batch[m]
        PROVE  MonitorStep(m)
    BY <1>0, <1>2 DEF Typing, TypeOK
  <1>3. ASSUME NEW w \in Workers, NEW l \in {"idle", "ack"}, Leave(w, l),
               batch'[m] \subseteq batch[m]
        PROVE  MonitorStep(m)
    <2>1. \A v \in Workers \ {w} : inc'[v] = inc[v] /\ tier'[v] = tier[v]
      BY <1>3 DEF Leave, Typing, TypeOK
    <2> QED
      BY <1>2, <1>3, <2>1 DEF Leave, PCs
  <1>4. ASSUME NEW w \in Workers, NEW l \in PCs \ {"advance"}, NEW t, Goto(w, l, t),
               UNCHANGED batch
        PROVE  MonitorStep(m)
    <2>1. \A v \in Workers \ {w} : inc'[v] = inc[v] /\ tier'[v] = tier[v]
      BY <1>4 DEF Goto, Typing, TypeOK
    <2> QED
      BY <1>2, <1>4, <2>1 DEF Goto
  <1>5. ASSUME NEW w \in Workers, NEW i, NEW p, StartAssign(w, i, p), UNCHANGED batch
        PROVE  MonitorStep(m)
    <2>1. \A v \in Workers \ {w} : inc'[v] = inc[v] /\ tier'[v] = tier[v]
      BY <1>5 DEF StartAssign, Typing, TypeOK
    <2> QED
      BY <1>2, <1>5, <2>1 DEF StartAssign, PCs
  <1>6. ASSUME NEW p \in Policies, CreatePolicy(p) \/ DeletePolicy(p) \/ PutDefaultPolicy(p)
        PROVE  MonitorStep(m)
    BY <1>1, <1>6 DEF CreatePolicy, DeletePolicy, PutDefaultPolicy, jobs
  <1>7. CASE DeleteDefaultPolicy
    BY <1>1, <1>7 DEF DeleteDefaultPolicy, jobs
  <1>8. ASSUME NEW h \in Handlers, NEW i \in Incidents, NEW p \in Policies,
               AttachPolicy(h, i, p)
        PROVE  MonitorStep(m)
    BY <1>0, <1>5, <1>8 DEF AttachPolicy
  <1>9. ASSUME NEW h \in Handlers, NEW i \in Incidents, ManualEscalate(h, i)
        PROVE  MonitorStep(m)
    BY <1>0, <1>9 DEF ManualEscalate, StartAdvance, Typing, TypeOK
  <1>10. ASSUME NEW w \in Workers, GetPolicy(w)
         PROVE  MonitorStep(m)
    BY <1>3, <1>4, <1>10 DEF GetPolicy, ReturnError, PCs
  <1>11. ASSUME NEW w \in Workers, CreateEscalationState(w)
         PROVE  MonitorStep(m)
    BY <1>3, <1>4, <1>11 DEF CreateEscalationState, ReturnError, PCs
  <1>12. ASSUME NEW w \in Workers, TriggerHistory(w)
         PROVE  MonitorStep(m)
    BY <1>4, <1>12 DEF TriggerHistory, PCs
  <1>13. ASSUME NEW w \in Workers, PublishTriggered(w) \/ PublishExhausted(w)
         PROVE  MonitorStep(m)
    BY <1>3, <1>13 DEF PublishTriggered, PublishExhausted, Return
  <1>14. ASSUME NEW w \in Workers, AdvanceOrExhaust(w)
         PROVE  MonitorStep(m)
    <2>1. UNCHANGED batch
      BY <1>14 DEF AdvanceOrExhaust
    <2>2. \/ Return(w)
          \/ Goto(w, "triggerHistory", tier[w] + 1)
          \/ Goto(w, "publishExhausted", tier[w])
      BY <1>14 DEF AdvanceOrExhaust
    <2> QED
      BY <1>3, <1>4, <2>1, <2>2 DEF Return, PCs
  <1>15. ASSUME NEW n \in Monitors, ListExpiredStates(n)
         PROVE  MonitorStep(m)
    <2>1. PICK found \in kSubset(Min({ListLimit, Cardinality(Expired)}), Expired) :
             batch' = [batch EXCEPT ![n] = {<<i, currentTier[i]>> : i \in found}]
      BY <1>15 DEF ListExpiredStates
    <2>2. \A i \in found : SnapshotOK(i, currentTier[i])
      BY DEF kSubset, Expired, SnapshotOK, Active, Typing, TypeOK
    <2>3. UNCHANGED <<pc, inc, tier>>
      BY <1>15 DEF ListExpiredStates, jobs
    <2>4. \A s \in batch'[m] : s \in batch[m] \/ SnapshotOK(s[1], s[2])
      <3> HIDE DEF Typing
      <3>1. batch \in [Workers -> SUBSET (Incidents \X Int)]
        BY DEF Typing, TypeOK
      <3>2. CASE m # n
        BY <1>0, <2>1, <3>1, <3>2
      <3>3. CASE m = n
        <4>1. batch'[m] = {<<i, currentTier[i]>> : i \in found}
          BY <1>0, <2>1, <3>1, <3>3
        <4> QED
          BY <2>2, <4>1
      <3> QED
        BY <3>2, <3>3
    <2> QED
      BY <2>3, <2>4
  <1>16. ASSUME NEW n \in Monitors, MonitorNext(n)
         PROVE  MonitorStep(m)
    <2>1. PICK s \in batch[n] : /\ batch' = [batch EXCEPT ![n] = @ \ {s}]
                                /\ StartAdvance(n, s[1], s[2])
      BY <1>16 DEF MonitorNext
    <2>2. batch'[m] \subseteq batch[m]
      BY <1>0, <2>1 DEF Typing, TypeOK
    <2>3. CASE m # n
      BY <1>0, <2>1, <2>2, <2>3 DEF StartAdvance, Typing, TypeOK
    <2>4. CASE m = n
      <3>1. inc'[m] = s[1] /\ tier'[m] = s[2] /\ s \in batch[m]
        BY <1>0, <2>1, <2>4 DEF StartAdvance, Typing, TypeOK
      <3> QED
        BY <2>2, <3>1
    <2> QED
      BY <2>3, <2>4
  <1>17. ASSUME NEW i \in Incidents, Timeout(i)
         PROVE  MonitorStep(m)
    BY <1>1, <1>17 DEF Timeout, jobs
  <1>18. CASE ReceiveCreated
    BY <1>0, <1>3, <1>5, <1>18 DEF ReceiveCreated, Return
  <1>19. CASE ReceiveUpdated
    <2>1. UNCHANGED batch
      BY <1>19 DEF ReceiveUpdated
    <2>2. CASE Return(Consumer)
      BY <1>0, <1>3, <2>1, <2>2 DEF Return
    <2>3. CASE /\ pc' = [pc EXCEPT ![Consumer] = "stop"]
               /\ inc' = [inc EXCEPT ![Consumer] = Head(queue)[2]]
               /\ tier' = [tier EXCEPT ![Consumer] = currentTier[Head(queue)[2]]]
      <3>1. \A v \in Workers \ {Consumer} : inc'[v] = inc[v] /\ tier'[v] = tier[v]
        BY <2>3 DEF Typing, TypeOK
      <3> QED
        BY <1>0, <1>2, <2>1, <2>3, <3>1 DEF PCs
    <2> QED
      BY <1>19, <2>2, <2>3 DEF ReceiveUpdated
  <1>20. CASE StopWrite
    BY <1>0, <1>4, <1>20 DEF StopWrite, PCs
  <1>21. CASE StopHistory
    BY <1>0, <1>3, <1>21 DEF StopHistory, Return
  <1>22. CASE Ack
    BY <1>0, <1>3, <1>22 DEF Ack
  <1>23. ASSUME NEW w \in Workers, HandlerError(w)
         PROVE  MonitorStep(m)
    BY <1>3, <1>23 DEF HandlerError, ReturnError
  <1>24. ASSUME NEW w \in Workers, Crash(w)
         PROVE  MonitorStep(m)
    <2>1. batch'[m] \subseteq batch[m]
      BY <1>0, <1>24 DEF Crash, Typing, TypeOK
    <2> QED
      BY <1>3, <1>24, <2>1 DEF Crash
  <1>25. ASSUME NEW e \in Message, IncidentEvent(e)
         PROVE  MonitorStep(m)
    BY <1>1, <1>25 DEF IncidentEvent, jobs
  <1>26. CASE UNCHANGED vars
    BY <1>1, <1>26 DEF vars, jobs
  <1> QED
    BY <1>6, <1>7, <1>8, <1>9, <1>10, <1>11, <1>12, <1>13, <1>14, <1>15, <1>16,
       <1>17, <1>18, <1>19, <1>20, <1>21, <1>22, <1>23, <1>24, <1>25, <1>26
       DEF Next, Escalator, Consume

\* What the monitors have read stays behind the rows, or current and expired.
LEMMA SnapshotsStep == Typing /\ SnapshotsOK /\ [Next]_vars => SnapshotsOK'
PROOF
  <1> SUFFICES ASSUME Typing, SnapshotsOK, [Next]_vars, NEW m \in Monitors
               PROVE  SnapshotsOK!(m)'
    BY DEF SnapshotsOK
  <1>1. MonitorStep(m)
    BY MonitorsStep
  <1>2. ASSUME NEW i \in Incidents, NEW t \in Int, SnapshotOK(i, t)
        PROVE  SnapshotOK(i, t)'
    <2>1. RowStep(i)
      BY RowsStep
    <2>2. currentTier[i] \in Int
      BY DEF Typing, TypeOK
    <2> QED
      BY <1>2, <2>1, <2>2 DEF RowStep, SnapshotOK, Active
  <1>3. Typing'
    BY TypingStep
  <1>4. m \in Workers
    BY DEF Workers
  <1>5. ASSUME NEW s \in batch'[m]
        PROVE  SnapshotOK(s[1], s[2])'
    <2>1. s[1] \in Incidents /\ s[2] \in Int
      BY <1>3, <1>4 DEF Typing, TypeOK
    <2>2. SnapshotOK(s[1], s[2])
      BY <1>1 DEF MonitorStep, SnapshotsOK
    <2> QED
      BY <1>2, <2>1, <2>2
  <1>6. ASSUME pc'[m] = "advance"
        PROVE  SnapshotOK(inc[m], tier[m])'
    <2>1. inc'[m] \in Incidents /\ tier'[m] \in Int
      BY <1>3, <1>4, <1>6 DEF Typing, TypeOK, JobsOK
    <2>2. SnapshotOK(inc'[m], tier'[m])
      BY <1>1, <1>6 DEF MonitorStep, SnapshotsOK
    <2>3. PICK i \in Incidents, t \in Int : i = inc'[m] /\ t = tier'[m] /\ SnapshotOK(i, t)
      BY <2>1, <2>2
    <2>4. SnapshotOK(i, t)'
      BY <1>2, <2>3
    <2> QED
      BY <2>3, <2>4 DEF SnapshotOK, Active
  <1> QED
    BY <1>5, <1>6

\* A monitor moves a row only when the tier it is at has timed out, even when the
\* monitor listed the row long ago and others have advanced it since.
THEOREM MonitorIsNeverEarly == Spec => MonitorAdvancesOnlyExpired
PROOF
  <1>1. Init => SnapshotsOK
    BY DEF Init, SnapshotsOK, Workers
  <1>2. Spec => [](Typing /\ SnapshotsOK)
    <2>1. Init => Typing
      BY DEF Init, Typing, TypeOK, JobsOK, PCs, StopReasons, Workers
    <2> QED
      BY <1>1, <2>1, TypingStep, SnapshotsStep, PTL DEF Spec
  <1>3. ASSUME Typing, SnapshotsOK, NEW m \in Monitors, AdvanceOrExhaust(m), rows' # rows
        PROVE  due[inc[m]]
    <2>1. pc[m] = "advance" /\ Claimable(inc[m], tier[m])
      BY <1>3 DEF AdvanceOrExhaust, rows
    <2> QED
      BY <1>3, <2>1 DEF SnapshotsOK, SnapshotOK, Claimable, Active
  <1>4. Typing /\ SnapshotsOK =>
           [\A m \in Monitors : AdvanceOrExhaust(m) /\ rows' # rows => due[inc[m]]]_vars
    BY <1>3
  <1> QED
    BY <1>2, <1>4, PTL DEF MonitorAdvancesOnlyExpired

\* The whole inductive invariant, as TLC checks it, holds for every instance.
THEOREM InductiveInvariant == Spec => []IInv
PROOF
  <1>1. Init => Typing /\ Claims /\ SnapshotsOK
    BY DEF Init, Typing, TypeOK, JobsOK, PCs, StopReasons, Workers, Claims,
       NothingBeforeRow, ClaimsUpToTier, ClaimsExclusive, ClaimsUnrecorded, StopsRecorded,
       PublishedOnce, HistoryOnce, Active, TriggerPCs, SnapshotsOK
  <1>2. Typing /\ Claims /\ SnapshotsOK => IInv
    BY DEF IInv, Typing, Claims
  <1> QED
    BY <1>1, <1>2, TypingStep, ClaimsStep, SnapshotsStep, PTL DEF Spec
-----------------------------------------------------------------------------
(***************************************************************************)
(* A row refers to a policy: the tiers claimed on it are tiers of one.     *)
(***************************************************************************)

RowsHavePolicy == \A i \in Incidents : status[i] # "none" => policyOf[i] \in Policies

\* Only CreateEscalationState writes policy_id, and it inserts the row with it.
LEMMA RowsHavePolicyStep ==
    Typing /\ Claims /\ RowsHavePolicy /\ [Next]_vars => RowsHavePolicy'
PROOF
  <1> SUFFICES ASSUME Typing, Claims, RowsHavePolicy, [Next]_vars
               PROVE  RowsHavePolicy'
    OBVIOUS
  <1> USE DEF RowsHavePolicy
  <1>0. Consumer \in Workers
    BY DEF Workers
  <1>1. CASE UNCHANGED <<status, policyOf>>
    BY <1>1
  <1>2. ASSUME NEW w \in Workers, CreateEscalationState(w)
        PROVE  RowsHavePolicy'
    <2>1. inc[w] \in Incidents /\ policy[w] \in Policies
      BY <1>2 DEF CreateEscalationState, Typing, JobsOK
    <2> QED
      BY <1>1, <1>2, <2>1 DEF CreateEscalationState, WriteRow, rows, Typing, TypeOK
  <1>3. ASSUME NEW w \in Workers, AdvanceOrExhaust(w)
        PROVE  RowsHavePolicy'
    <2>1. inc[w] \in Incidents
      BY <1>3 DEF AdvanceOrExhaust, Typing, JobsOK
    <2> QED
      BY <1>3, <2>1 DEF AdvanceOrExhaust, Claimable, Active, WriteRow, Typing, TypeOK
  <1>4. CASE StopWrite
    <2>1. inc[Consumer] \in Incidents /\ status[inc[Consumer]] # "none"
      BY <1>0, <1>4 DEF StopWrite, Typing, JobsOK, Claims, ClaimsUnrecorded
    <2> QED
      BY <1>4, <2>1 DEF StopWrite, WriteRow, Typing, TypeOK
  <1>5. ASSUME NEW i \in Incidents, Timeout(i)
        PROVE  RowsHavePolicy'
    BY <1>1, <1>5 DEF Timeout
  <1>6. CASE UNCHANGED vars
    BY <1>1, <1>6 DEF vars, rows
  <1>7. ASSUME NEW w \in Workers,
               \/ GetPolicy(w) \/ TriggerHistory(w) \/ PublishTriggered(w)
               \/ PublishExhausted(w) \/ HandlerError(w) \/ Crash(w)
        PROVE  RowsHavePolicy'
    BY <1>1, <1>7 DEF GetPolicy, TriggerHistory, PublishTriggered, PublishExhausted,
       HandlerError, Crash, rows
  <1>8. ASSUME ReceiveCreated \/ ReceiveUpdated \/ StopHistory \/ Ack \/ DeleteDefaultPolicy
        PROVE  RowsHavePolicy'
    BY <1>1, <1>8 DEF ReceiveCreated, ReceiveUpdated, StopHistory, Ack, DeleteDefaultPolicy, rows
  <1>9. ASSUME NEW m \in Monitors, ListExpiredStates(m) \/ MonitorNext(m)
        PROVE  RowsHavePolicy'
    BY <1>1, <1>9 DEF ListExpiredStates, MonitorNext, rows
  <1>10. ASSUME NEW m \in Message, IncidentEvent(m)
         PROVE  RowsHavePolicy'
    BY <1>1, <1>10 DEF IncidentEvent, rows
  <1>11. ASSUME NEW p \in Policies, CreatePolicy(p) \/ DeletePolicy(p) \/ PutDefaultPolicy(p)
         PROVE  RowsHavePolicy'
    BY <1>1, <1>11 DEF CreatePolicy, DeletePolicy, PutDefaultPolicy, rows
  <1>12. ASSUME NEW h \in Handlers, NEW i \in Incidents,
                (\E p \in Policies : AttachPolicy(h, i, p)) \/ ManualEscalate(h, i)
         PROVE  RowsHavePolicy'
    BY <1>1, <1>12 DEF AttachPolicy, ManualEscalate, rows
  <1> QED
    BY <1>2, <1>3, <1>4, <1>5, <1>6, <1>7, <1>8, <1>9, <1>10, <1>11, <1>12
       DEF Next, Escalator, Consume

\* The claims and the policies of the rows, in every reachable state.
LEMMA RowsInvariant == Spec => [](Typing /\ Claims /\ RowsHavePolicy)
PROOF
  <1>1. Init => RowsHavePolicy
    BY DEF Init, RowsHavePolicy
  <1> QED
    BY <1>1, Invariant, RowsHavePolicyStep, PTL DEF Spec
-----------------------------------------------------------------------------
(***************************************************************************)
(* Nobody is skipped.  As long as nothing failed, a row has notified every *)
(* tier of its policy up to its current one, or a worker is about to; and  *)
(* it is exhausted only when the policy has no next tier.                  *)
(***************************************************************************)

NotifiedSoFar(i) ==
    /\ FirstTier(policyOf[i]) <= currentTier[i]
    /\ \A t \in Tiers[policyOf[i]] : t <= currentTier[i] => Notified(i, t)
    /\ status[i] = "exhausted" => currentTier[i] + 1 \notin Tiers[policyOf[i]]

NobodySkipped ==
    faults = 0 => \A i \in Incidents : status[i] \in {"active", "exhausted"} => NotifiedSoFar(i)

\* The first tier is the least.
LEMMA FirstTierLeast ==
    ASSUME NEW p \in Policies
    PROVE  /\ FirstTier(p) \in Tiers[p] /\ FirstTier(p) \in Int
           /\ \A t \in Tiers[p] : t \in Int /\ FirstTier(p) <= t
           /\ Min(Tiers[p]) = FirstTier(p)
PROOF
  <1>1. Tiers[p] \in SUBSET Int
    BY TiersAssumption
  <1>2. \E t \in Tiers[p] : \A u \in Tiers[p] : t <= u
    BY TiersAssumption
  <1>3. FirstTier(p) \in Tiers[p] /\ \A t \in Tiers[p] : FirstTier(p) <= t
    BY <1>2 DEF FirstTier
  <1>4. Min(Tiers[p]) \in Tiers[p] /\ \A t \in Tiers[p] : Min(Tiers[p]) <= t
    BY <1>2 DEF Min
  <1> QED
    BY <1>1, <1>3, <1>4

\* A step that forgets no event and, unless it counts a fault, no claim.
LEMMA NotifiedKept ==
    ASSUME Typing, NEW i \in Incidents, NEW t, Notified(i, t),
           \A k \in DOMAIN published : k \in DOMAIN published' /\ published'[k] = published[k],
           \A w \in Workers : pc[w] \in TriggerPCs =>
              pc'[w] \in TriggerPCs /\ inc'[w] = inc[w] /\ tier'[w] = tier[w]
    PROVE  Notified(i, t)'
PROOF
  BY DEF Notified

\* A row whose columns are left alone stays notified as far as it was.
LEMMA NotifiedRow ==
    ASSUME Typing, NobodySkipped, faults' = faults, NEW i \in Incidents,
           \A t \in Int : Notified(i, t) => Notified(i, t)',
           policyOf'[i] = policyOf[i], currentTier'[i] = currentTier[i], status'[i] = status[i],
           faults' = 0, status'[i] \in {"active", "exhausted"}, policyOf[i] \in Policies
    PROVE  NotifiedSoFar(i)'
PROOF
  <1>1. NotifiedSoFar(i)
    BY DEF NobodySkipped
  <1>2. \A t \in Tiers[policyOf[i]] : t \in Int
    BY FirstTierLeast
  <1>3. FirstTier(policyOf'[i]) = FirstTier(policyOf[i])
    OBVIOUS
  <1> QED
    BY <1>1, <1>2, <1>3 DEF NotifiedSoFar

\* Every row stays notified up to its tier: a tier is claimed as it is reached, a claim
\* ends with the event, and whatever loses a claim is a fault.
LEMMA NobodySkippedStep ==
    ASSUME Typing, Claims, RowsHavePolicy, NobodySkipped, [Next]_vars
    PROVE  NobodySkipped'
PROOF
  <1> SUFFICES ASSUME faults' = 0, NEW i \in Incidents, status'[i] \in {"active", "exhausted"}
               PROVE  NotifiedSoFar(i)'
    BY DEF NobodySkipped
  <1> DEFINE RowKept == /\ policyOf'[i] = policyOf[i] /\ currentTier'[i] = currentTier[i]
                        /\ status'[i] = status[i]
             EventsKept == \A k \in DOMAIN published :
                              k \in DOMAIN published' /\ published'[k] = published[k]
             ClaimsKept == \A w \in Workers : pc[w] \in TriggerPCs =>
                              /\ pc'[w] \in TriggerPCs /\ inc'[w] = inc[w]
                              /\ tier'[w] = tier[w]
  <1>0. /\ Consumer \in Workers /\ \A h \in Handlers : h \in Workers
        /\ \A m \in Monitors : m \in Workers
    BY DEF Workers
  <1>a. ~Fault
    BY DEF Fault, Typing, TypeOK
  <1>1. ASSUME RowKept, EventsKept, ClaimsKept, faults' = faults
        PROVE  NotifiedSoFar(i)'
    <2>1. policyOf[i] \in Policies
      BY <1>1 DEF RowsHavePolicy
    <2>2. \A t \in Int : Notified(i, t) => Notified(i, t)'
      BY <1>1, NotifiedKept
    <2> QED
      BY <1>1, <2>1, <2>2, NotifiedRow
  <1>2. ASSUME NEW w \in Workers, CreateEscalationState(w)
        PROVE  NotifiedSoFar(i)'
    <2>1. pc[w] = "create" /\ inc[w] \in Incidents /\ policy[w] \in Policies
      BY <1>2 DEF CreateEscalationState, Typing, JobsOK
    <2>2. EventsKept /\ ClaimsKept /\ faults' = faults
      BY <1>2, <2>1 DEF CreateEscalationState, ReturnError, Leave, Goto, Typing, TypeOK, TriggerPCs
    <2>3. CASE RowKept
      BY <1>1, <2>2, <2>3
    <2>4. CASE ~RowKept
      <3>1. i = inc[w] /\ status[i] = "none" /\ WriteRow(i, FirstTier(policy[w]), "active", FALSE)
            /\ policyOf'[i] = policy[w] /\ Goto(w, "triggerHistory", FirstTier(policy[w]))
        BY <1>2, <2>1, <2>4 DEF CreateEscalationState, WriteRow, rows, Typing, TypeOK
      <3>2. currentTier'[i] = FirstTier(policyOf'[i]) /\ status'[i] = "active"
        BY <3>1 DEF WriteRow, Typing, TypeOK
      <3>3. ASSUME NEW t, t = FirstTier(policyOf'[i])
            PROVE  Notified(i, t)'
        <4>1. pc'[w] \in TriggerPCs /\ inc'[w] = i /\ tier'[w] = t
          BY <3>1, <3>3 DEF Goto, Typing, TypeOK, TriggerPCs
        <4> QED
          BY <4>1 DEF Notified
      <3>4. \A t \in Tiers[policyOf'[i]] :
               /\ t \in Int /\ FirstTier(policyOf'[i]) \in Int /\ FirstTier(policyOf'[i]) <= t
        BY <2>1, <3>1, FirstTierLeast
      <3>5. \A t \in Tiers[policyOf'[i]] : t <= currentTier'[i] => t = FirstTier(policyOf'[i])
        BY <3>2, <3>4
      <3>6. FirstTier(policyOf'[i]) <= currentTier'[i]
        BY <2>1, <3>1, <3>2, FirstTierInt
      <3> QED
        BY <3>2, <3>3, <3>5, <3>6 DEF NotifiedSoFar
    <2> QED
      BY <2>3, <2>4
  <1>3. ASSUME NEW w \in Workers, AdvanceOrExhaust(w)
        PROVE  NotifiedSoFar(i)'
    <2>1. pc[w] = "advance" /\ inc[w] \in Incidents /\ tier[w] \in Int
      BY <1>3 DEF AdvanceOrExhaust, Typing, TypeOK, JobsOK
    <2>2. EventsKept /\ ClaimsKept /\ faults' = faults
      BY <1>3, <2>1 DEF AdvanceOrExhaust, Return, Leave, Goto, Typing, TypeOK, TriggerPCs
    <2>3. CASE RowKept
      BY <1>1, <2>2, <2>3
    <2>4. CASE ~RowKept
      <3>1. i = inc[w] /\ Claimable(i, tier[w]) /\ policyOf'[i] = policyOf[i]
        BY <1>3, <2>1, <2>4 DEF AdvanceOrExhaust, WriteRow, Typing, TypeOK
      <3>2. status[i] = "active" /\ currentTier[i] = tier[w] /\ policyOf[i] \in Policies
        BY <3>1 DEF Claimable, Active, RowsHavePolicy
      <3>3. NotifiedSoFar(i)
        BY <2>2, <3>2 DEF NobodySkipped
      <3>4. \A t \in Int : Notified(i, t) => Notified(i, t)'
        BY <2>2, NotifiedKept
      <3>5. /\ FirstTier(policyOf[i]) \in Int /\ \A t \in Tiers[policyOf[i]] : t \in Int
            /\ FirstTier(policyOf'[i]) = FirstTier(policyOf[i])
        BY <3>1, <3>2, FirstTierLeast
      <3>6. CASE tier[w] + 1 \in Tiers[policyOf[i]]
        <4>1. WriteRow(i, tier[w] + 1, "active", FALSE) /\ Goto(w, "triggerHistory", tier[w] + 1)
          BY <1>3, <3>1, <3>6 DEF AdvanceOrExhaust
        <4>2. currentTier'[i] = currentTier[i] + 1 /\ status'[i] = "active"
          BY <3>2, <4>1 DEF WriteRow, Typing, TypeOK
        <4>3. pc'[w] \in TriggerPCs /\ inc'[w] = i /\ tier'[w] = currentTier[i] + 1
          BY <3>1, <3>2, <4>1 DEF Goto, Typing, TypeOK, TriggerPCs
        <4>4. ASSUME NEW t, t = currentTier[i] + 1
              PROVE  Notified(i, t)'
          BY <4>3, <4>4 DEF Notified
        <4>5. \A t \in Int : t <= currentTier[i] + 1 => t <= currentTier[i] \/ t = currentTier[i] + 1
          BY <2>1, <3>2
        <4>6. FirstTier(policyOf[i]) <= currentTier[i] + 1
          BY <2>1, <3>2, <3>3, <3>5 DEF NotifiedSoFar
        <4>7. \A t \in Tiers[policyOf[i]] : t <= currentTier[i] => Notified(i, t)'
          BY <3>3, <3>4, <3>5 DEF NotifiedSoFar
        <4> QED
          BY <3>1, <3>5, <4>2, <4>4, <4>5, <4>6, <4>7 DEF NotifiedSoFar
      <3>7. CASE tier[w] + 1 \notin Tiers[policyOf[i]]
        <4>1. currentTier'[i] = currentTier[i]
          BY <1>3, <3>1, <3>2, <3>7 DEF AdvanceOrExhaust, WriteRow, Typing, TypeOK
        <4>2. \A t \in Tiers[policyOf[i]] : t <= currentTier[i] => Notified(i, t)'
          BY <3>3, <3>4, <3>5 DEF NotifiedSoFar
        <4>3. FirstTier(policyOf[i]) <= currentTier[i]
          BY <3>3 DEF NotifiedSoFar
        <4> QED
          BY <3>1, <3>2, <3>5, <3>7, <4>1, <4>2, <4>3 DEF NotifiedSoFar
      <3> QED
        BY <3>6, <3>7
    <2> QED
      BY <2>3, <2>4
  <1>4. ASSUME NEW w \in Workers, PublishTriggered(w)
        PROVE  NotifiedSoFar(i)'
    <2>1. /\ pc[w] = "publishTriggered" /\ inc[w] \in Incidents /\ tier[w] \in Int
          /\ UNCHANGED rows /\ Publish(inc[w], "triggered", tier[w]) /\ faults' = faults
      BY <1>a, <1>4 DEF PublishTriggered, Typing, TypeOK, JobsOK
    <2>2. \A v \in Workers \ {w} : pc'[v] = pc[v] /\ inc'[v] = inc[v] /\ tier'[v] = tier[v]
      BY <1>4 DEF PublishTriggered, Return, Leave, Typing, TypeOK
    <2>3. published \in Seq(Event)
      BY DEF Typing, TypeOK
    <2> DEFINE e == <<inc[w], "triggered", tier[w]>>
    <2>4. published' = Append(published, e)
      BY <2>1 DEF Publish
    <2> HIDE DEF e
    <2>5. /\ EventsKept
          /\ \E k \in DOMAIN published' : published'[k] = e
      BY <2>3, <2>4
    <2>6. ASSUME NEW t \in Int, Notified(i, t)
          PROVE  Notified(i, t)'
      <3>1. CASE inc[w] = i /\ tier[w] = t
        BY <2>5, <3>1 DEF e, Notified
      <3>2. CASE ~(inc[w] = i /\ tier[w] = t)
        BY <2>2, <2>5, <2>6, <3>2 DEF Notified
      <3> QED
        BY <3>1, <3>2
    <2>7. RowKept
      BY <2>1 DEF rows
    <2>8. policyOf[i] \in Policies
      BY <2>7 DEF RowsHavePolicy
    <2> QED
      BY <2>1, <2>6, <2>7, <2>8, NotifiedRow
  <1>5. CASE StopWrite
    <2>1. pc[Consumer] = "stop" /\ inc[Consumer] \in Incidents /\ reason[Consumer] \in StopReasons
      BY <1>0, <1>5 DEF StopWrite, Typing, JobsOK
    <2>2. EventsKept /\ ClaimsKept /\ faults' = faults
      BY <1>5, <2>1 DEF StopWrite, Goto, Typing, TypeOK, TriggerPCs
    <2>3. RowKept
      BY <1>5, <2>1 DEF StopWrite, WriteRow, Typing, TypeOK, StopReasons
    <2> QED
      BY <1>1, <2>2, <2>3
  <1>6. ASSUME NEW w \in Workers,
               GetPolicy(w) \/ TriggerHistory(w) \/ HandlerError(w) \/ Crash(w)
        PROVE  NotifiedSoFar(i)'
    <2>1. RowKept /\ EventsKept /\ faults' = faults
      BY <1>a, <1>6 DEF GetPolicy, TriggerHistory, HandlerError, Crash, rows
    <2>2. ClaimsKept
      BY <1>a, <1>6 DEF GetPolicy, TriggerHistory, HandlerError, Crash, Goto, ReturnError, Leave,
         Typing, TypeOK, TriggerPCs
    <2> QED
      BY <1>1, <2>1, <2>2
  <1>7. ASSUME NEW w \in Workers, PublishExhausted(w)
        PROVE  NotifiedSoFar(i)'
    <2>1. RowKept /\ faults' = faults /\ Publish(inc[w], "exhausted", 0) /\ inc[w] \in Incidents
      BY <1>a, <1>7 DEF PublishExhausted, rows, Typing, JobsOK
    <2>2. EventsKept
      <3>1. published \in Seq(Event)
        BY DEF Typing, TypeOK
      <3> QED
        BY <2>1, <3>1 DEF Publish
    <2>3. ClaimsKept
      BY <1>7 DEF PublishExhausted, Return, Leave, Typing, TypeOK, TriggerPCs
    <2> QED
      BY <1>1, <2>1, <2>2, <2>3
  <1>8. CASE ReceiveCreated \/ ReceiveUpdated \/ StopHistory \/ Ack
    <2>1. RowKept /\ EventsKept /\ faults' = faults
      BY <1>a, <1>8 DEF ReceiveCreated, ReceiveUpdated, StopHistory, Ack, rows
    <2>2. ClaimsKept
      BY <1>0, <1>8 DEF ReceiveCreated, ReceiveUpdated, StopHistory, Ack, Return, Leave, StartAssign,
         Idle, Typing, TypeOK, TriggerPCs
    <2> QED
      BY <1>1, <2>1, <2>2
  <1>9. ASSUME NEW h \in Handlers, NEW j \in Incidents,
               (\E p \in Policies : AttachPolicy(h, j, p)) \/ ManualEscalate(h, j)
        PROVE  NotifiedSoFar(i)'
    <2>1. RowKept /\ EventsKept /\ faults' = faults
      BY <1>9 DEF AttachPolicy, ManualEscalate, rows
    <2>2. ClaimsKept
      BY <1>0, <1>9 DEF AttachPolicy, ManualEscalate, StartAssign, StartAdvance, Idle, Typing,
         TypeOK, TriggerPCs
    <2> QED
      BY <1>1, <2>1, <2>2
  <1>10. ASSUME NEW m \in Monitors, MonitorNext(m)
         PROVE  NotifiedSoFar(i)'
    <2>1. RowKept /\ EventsKept /\ faults' = faults
      BY <1>10 DEF MonitorNext, rows
    <2>2. ClaimsKept
      BY <1>0, <1>10 DEF MonitorNext, StartAdvance, Idle, Typing, TypeOK, TriggerPCs
    <2> QED
      BY <1>1, <2>1, <2>2
  <1>11. CASE \/ \E p \in Policies : CreatePolicy(p) \/ DeletePolicy(p) \/ PutDefaultPolicy(p)
              \/ DeleteDefaultPolicy
              \/ \E m \in Monitors : ListExpiredStates(m)
              \/ \E j \in Incidents : Timeout(j)
              \/ \E m \in Message : IncidentEvent(m)
              \/ UNCHANGED vars
    <2>1. UNCHANGED <<policyOf, currentTier, status, published, jobs, faults>>
      BY <1>11 DEF CreatePolicy, DeletePolicy, PutDefaultPolicy, DeleteDefaultPolicy,
         ListExpiredStates, Timeout, IncidentEvent, vars, rows
    <2> QED
      BY <1>1, <2>1 DEF jobs
  <1> QED
    BY <1>2, <1>3, <1>4, <1>5, <1>6, <1>7, <1>8, <1>9, <1>10, <1>11
       DEF Next, Escalator, Consume

\* Unless something failed, an escalation that ran out of tiers has notified every tier
\* its policy has without a gap from the first one on, or a worker is on its way to
\* publish it, in whatever order the workers ran.
THEOREM ExhaustedNotifiedAll == Spec => []ExhaustedMeansAllNotified
PROOF
  <1>1. Init => NobodySkipped
    BY DEF Init, NobodySkipped
  <1>2. Typing /\ RowsHavePolicy /\ NobodySkipped => ExhaustedMeansAllNotified
    <2> SUFFICES ASSUME Typing, RowsHavePolicy, NobodySkipped, faults = 0,
                        NEW i \in Incidents, status[i] = "exhausted",
                        NEW t \in Tiers[policyOf[i]],
                        Min(Tiers[policyOf[i]]) .. t \subseteq Tiers[policyOf[i]]
                 PROVE  Notified(i, t)
      BY DEF ExhaustedMeansAllNotified
    <2>1. policyOf[i] \in Policies /\ NotifiedSoFar(i) /\ currentTier[i] \in Int
      BY DEF RowsHavePolicy, NobodySkipped, Typing, TypeOK
    <2>2. Min(Tiers[policyOf[i]]) \in Int /\ Min(Tiers[policyOf[i]]) <= currentTier[i] /\ t \in Int
      BY <2>1, FirstTierLeast DEF NotifiedSoFar
    <2>3. currentTier[i] + 1 \notin Min(Tiers[policyOf[i]]) .. t
      BY <2>1 DEF NotifiedSoFar
    <2>4. t <= currentTier[i]
      BY <2>1, <2>2, <2>3
    <2> QED
      BY <2>1, <2>4 DEF NotifiedSoFar
  <1>3. Typing /\ Claims /\ RowsHavePolicy /\ NobodySkipped /\ [Next]_vars => NobodySkipped'
    BY NobodySkippedStep
  <1> QED
    BY <1>1, <1>2, <1>3, RowsInvariant, PTL DEF Spec
-----------------------------------------------------------------------------
(***************************************************************************)
(* One fault, one notification.  Missing(i, t) says that t is a tier of    *)
(* row i nobody was told of.  A step makes at most one tier missing, that  *)
(* of a worker that loses its claim, and then it counts a fault.  Stop may *)
(* write an old tier back, never a later one (StopBehind).                 *)
(***************************************************************************)

Missing(i, t) ==
    /\ status[i] # "none" /\ t \in FirstTier(policyOf[i]) .. currentTier[i]
    /\ ~Notified(i, t)

StopBehind ==
    pc[Consumer] = "stop" =>
        /\ status[inc[Consumer]] # "none"
        /\ tier[Consumer] <= currentTier[inc[Consumer]]

UntoldIsMissing ==
    \A c : c \in Untold <=> \E i \in Incidents, t \in Int : c = <<i, t>> /\ Missing(i, t)

\* Untold is the set of what is missing.
LEMMA UntoldMembers == Typing /\ RowsHavePolicy => UntoldIsMissing
PROOF
  <1> SUFFICES ASSUME Typing, RowsHavePolicy
               PROVE  UntoldIsMissing
    OBVIOUS
  <1>1. ASSUME NEW i \in Incidents, status[i] # "none"
        PROVE  FirstTier(policyOf[i]) .. currentTier[i] \subseteq Int
    BY <1>1, FirstTierInt DEF RowsHavePolicy, Typing, TypeOK
  <1>2. ASSUME NEW c, c \in Untold
        PROVE  \E i \in Incidents, t \in Int : c = <<i, t>> /\ Missing(i, t)
    <2>1. PICK i \in Incidents : /\ status[i] # "none"
                                 /\ c \in {i} \X (FirstTier(policyOf[i]) .. currentTier[i])
      BY <1>2 DEF Untold
    <2>2. ~Notified(c[1], c[2])
      BY <1>2 DEF Untold
    <2>3. PICK t \in FirstTier(policyOf[i]) .. currentTier[i] : c = <<i, t>>
      BY <2>1
    <2> QED
      BY <1>1, <2>1, <2>2, <2>3 DEF Missing
  <1>3. ASSUME NEW i \in Incidents, NEW t \in Int, Missing(i, t)
        PROVE  <<i, t>> \in Untold
    <2> DEFINE c == <<i, t>>
               Rowed == {j \in Incidents : status[j] # "none"}
    <2>1. i \in Rowed /\ c \in {i} \X (FirstTier(policyOf[i]) .. currentTier[i])
      BY <1>3 DEF Missing
    <2>2. c \in UNION {{j} \X (FirstTier(policyOf[j]) .. currentTier[j]) : j \in Rowed}
      BY <2>1
    <2>3. ~Notified(c[1], c[2])
      BY <1>3 DEF Missing
    <2> QED
      BY <2>2, <2>3 DEF Untold
  <1> QED
    BY <1>2, <1>3 DEF UntoldIsMissing

\* A row that is left alone misses nothing more when no event and no claim is lost.
LEMMA MissingKept ==
    ASSUME Typing, NEW i \in Incidents, NEW t \in Int, Missing(i, t)',
           policyOf'[i] = policyOf[i], currentTier'[i] = currentTier[i], status'[i] = status[i],
           Notified(i, t) => Notified(i, t)'
    PROVE  Missing(i, t)
PROOF
  BY DEF Missing

\* A worker that leaves triggerTier takes no claim with it but its own.
LEMMA NotifiedButFor ==
    ASSUME NEW w \in Workers, NEW i \in Incidents, NEW t \in Int, Notified(i, t),
           \A k \in DOMAIN published : k \in DOMAIN published' /\ published'[k] = published[k],
           \A v \in Workers \ {w} : pc'[v] = pc[v] /\ inc'[v] = inc[v] /\ tier'[v] = tier[v],
           ~(inc[w] = i /\ tier[w] = t)
    PROVE  Notified(i, t)'
PROOF
  BY DEF Notified

\* A step that loses nothing, and a step that loses one tier and counts it.
LosesNothing ==
    /\ faults' \in {faults, faults + 1}
    /\ \A i \in Incidents, t \in Int : Missing(i, t)' => Missing(i, t)

LosesOne ==
    /\ faults' = faults + 1
    /\ \E j \in Incidents, u \in Int : \A i \in Incidents, t \in Int :
          Missing(i, t)' => Missing(i, t) \/ (i = j /\ t = u)

\* What each step loses: the failed publish and the crash lose the tier of their worker,
\* all others nothing.
LEMMA LosesAtMostOne ==
    ASSUME Typing, Claims, RowsHavePolicy, StopBehind, [Next]_vars
    PROVE  LosesNothing \/ LosesOne
PROOF
  <1> DEFINE RowKept(i) == /\ policyOf'[i] = policyOf[i] /\ currentTier'[i] = currentTier[i]
                           /\ status'[i] = status[i]
             EventsKept == \A k \in DOMAIN published :
                              k \in DOMAIN published' /\ published'[k] = published[k]
             ClaimsKept == \A w \in Workers : pc[w] \in TriggerPCs =>
                              /\ pc'[w] \in TriggerPCs /\ inc'[w] = inc[w]
                              /\ tier'[w] = tier[w]
             Counted == faults' \in {faults, faults + 1}
             OthersKept(w) == \A v \in Workers \ {w} :
                                 pc'[v] = pc[v] /\ inc'[v] = inc[v] /\ tier'[v] = tier[v]
  <1>0. /\ Consumer \in Workers /\ \A h \in Handlers : h \in Workers
        /\ \A m \in Monitors : m \in Workers
    BY DEF Workers
  <1>1. ASSUME \A i \in Incidents : RowKept(i), EventsKept, ClaimsKept, Counted
        PROVE  LosesNothing
    <2>1. ASSUME NEW i \in Incidents, NEW t \in Int, Missing(i, t)'
          PROVE  Missing(i, t)
      <3>1. Notified(i, t) => Notified(i, t)'
        BY <1>1, NotifiedKept
      <3> QED
        BY <1>1, <2>1, <3>1, MissingKept
    <2> QED
      BY <1>1, <2>1 DEF LosesNothing
  <1>2. ASSUME NEW w \in Workers, CreateEscalationState(w)
        PROVE  LosesNothing
    <2>1. pc[w] = "create" /\ inc[w] \in Incidents /\ policy[w] \in Policies
      BY <1>2 DEF CreateEscalationState, Typing, JobsOK
    <2>2. EventsKept /\ ClaimsKept /\ Counted
      BY <1>2, <2>1 DEF CreateEscalationState, ReturnError, Leave, Goto, Typing, TypeOK, TriggerPCs
    <2>3. CASE UNCHANGED rows
      BY <1>1, <2>2, <2>3 DEF rows
    <2>4. ASSUME WriteRow(inc[w], FirstTier(policy[w]), "active", FALSE),
                 policyOf' = [policyOf EXCEPT ![inc[w]] = policy[w]],
                 Goto(w, "triggerHistory", FirstTier(policy[w]))
          PROVE  LosesNothing
      <3>1. ASSUME NEW i \in Incidents, NEW t \in Int, Missing(i, t)'
            PROVE  Missing(i, t)
        <4>1. CASE i # inc[w]
          <5>1. RowKept(i)
            BY <2>1, <2>4, <4>1 DEF WriteRow, Typing, TypeOK
          <5>2. Notified(i, t) => Notified(i, t)'
            BY <2>2, NotifiedKept
          <5> QED
            BY <3>1, <5>1, <5>2, MissingKept
        <4>2. CASE i = inc[w]
          <5>1. currentTier'[i] = FirstTier(policy[w]) /\ policyOf'[i] = policy[w]
            BY <2>1, <2>4, <4>2 DEF WriteRow, Typing, TypeOK
          <5>2. t \in FirstTier(policy[w]) .. FirstTier(policy[w]) /\ FirstTier(policy[w]) \in Int
            BY <2>1, <3>1, <5>1, FirstTierInt DEF Missing
          <5>3. t = FirstTier(policy[w])
            BY <5>2
          <5>4. pc'[w] \in TriggerPCs /\ inc'[w] = i /\ tier'[w] = t
            BY <2>4, <4>2, <5>3 DEF Goto, Typing, TypeOK, TriggerPCs
          <5> QED
            BY <3>1, <5>4 DEF Missing, Notified
        <4> QED
          BY <4>1, <4>2
      <3> QED
        BY <2>2, <3>1 DEF LosesNothing
    <2> QED
      BY <1>2, <2>3, <2>4 DEF CreateEscalationState
  <1>3. ASSUME NEW w \in Workers, AdvanceOrExhaust(w)
        PROVE  LosesNothing
    <2>1. pc[w] = "advance" /\ inc[w] \in Incidents /\ tier[w] \in Int /\ UNCHANGED policyOf
      BY <1>3 DEF AdvanceOrExhaust, Typing, TypeOK, JobsOK
    <2>2. EventsKept /\ ClaimsKept /\ Counted
      BY <1>3, <2>1 DEF AdvanceOrExhaust, Return, Leave, Goto, Typing, TypeOK, TriggerPCs
    <2>3. CASE UNCHANGED <<currentTier, status>>
      BY <1>1, <2>1, <2>2, <2>3
    <2>4. ASSUME Claimable(inc[w], tier[w]),
                 \/ /\ WriteRow(inc[w], tier[w] + 1, "active", FALSE)
                    /\ Goto(w, "triggerHistory", tier[w] + 1)
                 \/ WriteRow(inc[w], tier[w], "exhausted", TRUE)
          PROVE  LosesNothing
      <3>1. ASSUME NEW i \in Incidents, NEW t \in Int, Missing(i, t)'
            PROVE  Missing(i, t)
        <4>0. Notified(i, t) => Notified(i, t)'
          BY <2>2, NotifiedKept
        <4>1. CASE i # inc[w]
          <5>1. RowKept(i)
            BY <2>1, <2>4, <4>1 DEF WriteRow, Typing, TypeOK
          <5> QED
            BY <3>1, <4>0, <5>1, MissingKept
        <4>2. CASE i = inc[w]
          <5>1. /\ status[i] # "none" /\ currentTier[i] = tier[w] /\ policyOf'[i] = policyOf[i]
                /\ FirstTier(policyOf[i]) \in Int
            BY <2>1, <2>4, <4>2, FirstTierInt DEF Claimable, Active, RowsHavePolicy
          <5>2. t # tier[w] + 1 \/ currentTier'[i] = currentTier[i]
            <6>1. CASE WriteRow(inc[w], tier[w], "exhausted", TRUE)
              BY <4>2, <5>1, <6>1 DEF WriteRow, Typing, TypeOK
            <6>2. CASE Goto(w, "triggerHistory", tier[w] + 1) /\ t = tier[w] + 1
              <7>1. pc'[w] \in TriggerPCs /\ inc'[w] = i /\ tier'[w] = t
                BY <4>2, <6>2 DEF Goto, Typing, TypeOK, TriggerPCs
              <7> QED
                BY <3>1, <7>1 DEF Missing, Notified
            <6> QED
              BY <2>4, <6>1, <6>2
          <5>3. currentTier'[i] \in {currentTier[i], tier[w] + 1}
            BY <2>1, <2>4, <4>2, <5>1 DEF WriteRow, Typing, TypeOK
          <5>4. t \in FirstTier(policyOf[i]) .. currentTier'[i] /\ ~Notified(i, t)'
            BY <3>1, <5>1 DEF Missing
          <5>5. t \in FirstTier(policyOf[i]) .. currentTier[i]
            BY <2>1, <5>1, <5>2, <5>3, <5>4
          <5> QED
            BY <4>0, <5>1, <5>4, <5>5 DEF Missing
        <4> QED
          BY <4>1, <4>2
      <3> QED
        BY <2>2, <3>1 DEF LosesNothing
    <2> QED
      BY <1>3, <2>3, <2>4 DEF AdvanceOrExhaust
  <1>4. ASSUME NEW w \in Workers, PublishTriggered(w)
        PROVE  LosesNothing \/ LosesOne
    <2>1. /\ pc[w] = "publishTriggered" /\ inc[w] \in Incidents /\ tier[w] \in Int
          /\ \A i \in Incidents : RowKept(i)
      BY <1>4 DEF PublishTriggered, Typing, TypeOK, JobsOK, rows
    <2>2. OthersKept(w)
      BY <1>4 DEF PublishTriggered, Return, Leave, Typing, TypeOK
    <2>3. published \in Seq(Event)
      BY DEF Typing, TypeOK
    <2>4. CASE Publish(inc[w], "triggered", tier[w]) /\ faults' = faults
      <3> DEFINE e == <<inc[w], "triggered", tier[w]>>
      <3>1. published' = Append(published, e)
        BY <2>4 DEF Publish
      <3> HIDE DEF e
      <3>2. EventsKept /\ \E k \in DOMAIN published' : published'[k] = e
        BY <2>3, <3>1
      <3>3. ASSUME NEW i \in Incidents, NEW t \in Int, Missing(i, t)'
            PROVE  Missing(i, t)
        <4>1. CASE inc[w] = i /\ tier[w] = t
          BY <3>2, <3>3, <4>1 DEF e, Missing, Notified
        <4>2. CASE ~(inc[w] = i /\ tier[w] = t)
          BY <2>1, <2>2, <3>2, <3>3, <4>2, NotifiedButFor, MissingKept
        <4> QED
          BY <4>1, <4>2
      <3> QED
        BY <2>4, <3>3 DEF LosesNothing
    <2>5. CASE Fault /\ UNCHANGED published
      <3>1. ASSUME NEW i \in Incidents, NEW t \in Int, Missing(i, t)', ~(i = inc[w] /\ t = tier[w])
            PROVE  Missing(i, t)
        BY <2>1, <2>2, <2>5, <3>1, NotifiedButFor, MissingKept
      <3> QED
        BY <2>1, <2>5, <3>1 DEF LosesOne, Fault
    <2> QED
      BY <1>4, <2>4, <2>5 DEF PublishTriggered
  <1>5. ASSUME NEW w \in Workers, Crash(w)
        PROVE  LosesNothing \/ LosesOne
    <2>1. /\ \A i \in Incidents : RowKept(i)
          /\ EventsKept /\ faults' = faults + 1 /\ OthersKept(w)
      BY <1>5 DEF Crash, Fault, Leave, Typing, TypeOK, rows
    <2>2. CASE pc[w] \in TriggerPCs
      <3>1. inc[w] \in Incidents /\ tier[w] \in Int
        BY <2>2 DEF Typing, TypeOK, JobsOK, TriggerPCs
      <3>2. ASSUME NEW i \in Incidents, NEW t \in Int, Missing(i, t)', ~(i = inc[w] /\ t = tier[w])
            PROVE  Missing(i, t)
        BY <2>1, <3>2, NotifiedButFor, MissingKept
      <3> QED
        BY <2>1, <3>1, <3>2 DEF LosesOne
    <2>3. CASE pc[w] \notin TriggerPCs
      <3>1. ClaimsKept
        BY <2>1, <2>3
      <3> QED
        BY <1>1, <2>1, <3>1
    <2> QED
      BY <2>2, <2>3
  <1>6. CASE StopWrite
    <2>1. /\ pc[Consumer] = "stop" /\ inc[Consumer] \in Incidents /\ tier[Consumer] \in Int
          /\ status[inc[Consumer]] # "none" /\ tier[Consumer] <= currentTier[inc[Consumer]]
          /\ UNCHANGED policyOf
      BY <1>0, <1>6 DEF StopWrite, Typing, TypeOK, JobsOK, StopBehind
    <2>2. EventsKept /\ ClaimsKept /\ Counted
      BY <1>6, <2>1 DEF StopWrite, Goto, Typing, TypeOK, TriggerPCs
    <2>3. ASSUME NEW i \in Incidents, NEW t \in Int, Missing(i, t)'
          PROVE  Missing(i, t)
      <3>0. Notified(i, t) => Notified(i, t)'
        BY <2>2, NotifiedKept
      <3>1. CASE i # inc[Consumer]
        <4>1. RowKept(i)
          BY <1>6, <2>1, <3>1 DEF StopWrite, WriteRow, Typing, TypeOK
        <4> QED
          BY <2>3, <3>0, <4>1, MissingKept
      <3>2. CASE i = inc[Consumer]
        <4>1. /\ currentTier'[i] = tier[Consumer] /\ currentTier[i] \in Int
              /\ policyOf'[i] = policyOf[i] /\ FirstTier(policyOf[i]) \in Int
          BY <1>6, <2>1, <3>2, FirstTierInt DEF StopWrite, WriteRow, RowsHavePolicy, Typing, TypeOK
        <4>2. t \in FirstTier(policyOf[i]) .. tier[Consumer] /\ ~Notified(i, t)'
          BY <2>3, <4>1 DEF Missing
        <4>3. t \in FirstTier(policyOf[i]) .. currentTier[i]
          BY <2>1, <3>2, <4>1, <4>2
        <4> QED
          BY <2>1, <3>0, <3>2, <4>2, <4>3 DEF Missing
      <3> QED
        BY <3>1, <3>2
    <2> QED
      BY <2>2, <2>3 DEF LosesNothing
  <1>7. ASSUME NEW w \in Workers, GetPolicy(w)
        PROVE  LosesNothing
    <2>1. /\ \A i \in Incidents : RowKept(i)
          /\ EventsKept /\ Counted
      BY <1>7 DEF GetPolicy, rows
    <2>2. ClaimsKept
      BY <1>7 DEF GetPolicy, Goto, ReturnError, Leave, Typing, TypeOK, TriggerPCs
    <2> QED
      BY <1>1, <2>1, <2>2
  <1>8. ASSUME NEW w \in Workers, TriggerHistory(w)
        PROVE  LosesNothing
    <2>1. /\ \A i \in Incidents : RowKept(i)
          /\ EventsKept /\ Counted
      BY <1>8 DEF TriggerHistory, Fault, rows
    <2>2. ClaimsKept
      BY <1>8 DEF TriggerHistory, Goto, Typing, TypeOK, TriggerPCs
    <2> QED
      BY <1>1, <2>1, <2>2
  <1>9. ASSUME NEW w \in Workers, HandlerError(w)
        PROVE  LosesNothing
    <2>1. /\ \A i \in Incidents : RowKept(i)
          /\ EventsKept /\ Counted
      BY <1>9 DEF HandlerError, Fault, rows
    <2>2. ClaimsKept
      BY <1>9 DEF HandlerError, ReturnError, Leave, Typing, TypeOK, TriggerPCs
    <2> QED
      BY <1>1, <2>1, <2>2
  <1>10. ASSUME NEW w \in Workers, PublishExhausted(w)
        PROVE  LosesNothing
    <2>1. /\ \A i \in Incidents : RowKept(i)
          /\ Counted /\ inc[w] \in Incidents
      BY <1>10 DEF PublishExhausted, Fault, rows, Typing, JobsOK
    <2>2. EventsKept
      <3>1. published \in Seq(Event)
        BY DEF Typing, TypeOK
      <3> QED
        BY <1>10, <2>1, <3>1 DEF PublishExhausted, Publish
    <2>3. ClaimsKept
      BY <1>10 DEF PublishExhausted, Return, Leave, Typing, TypeOK, TriggerPCs
    <2> QED
      BY <1>1, <2>1, <2>2, <2>3
  <1>11. CASE ReceiveCreated \/ ReceiveUpdated \/ StopHistory \/ Ack
    <2>1. /\ \A i \in Incidents : RowKept(i)
          /\ EventsKept /\ Counted
      BY <1>11 DEF ReceiveCreated, ReceiveUpdated, StopHistory, Ack, Fault, rows
    <2>2. ClaimsKept
      BY <1>0, <1>11 DEF ReceiveCreated, ReceiveUpdated, StopHistory, Ack, Return, Leave,
         StartAssign, Idle, Typing, TypeOK, TriggerPCs
    <2> QED
      BY <1>1, <2>1, <2>2
  <1>12. ASSUME NEW h \in Handlers, NEW j \in Incidents,
                (\E p \in Policies : AttachPolicy(h, j, p)) \/ ManualEscalate(h, j)
         PROVE  LosesNothing
    <2>1. /\ \A i \in Incidents : RowKept(i)
          /\ EventsKept /\ Counted
      BY <1>12 DEF AttachPolicy, ManualEscalate, rows
    <2>2. ClaimsKept
      BY <1>0, <1>12 DEF AttachPolicy, ManualEscalate, StartAssign, StartAdvance, Idle, Typing,
         TypeOK, TriggerPCs
    <2> QED
      BY <1>1, <2>1, <2>2
  <1>13. ASSUME NEW m \in Monitors, MonitorNext(m)
         PROVE  LosesNothing
    <2>1. /\ \A i \in Incidents : RowKept(i)
          /\ EventsKept /\ Counted
      BY <1>13 DEF MonitorNext, rows
    <2>2. ClaimsKept
      BY <1>0, <1>13 DEF MonitorNext, StartAdvance, Idle, Typing, TypeOK, TriggerPCs
    <2> QED
      BY <1>1, <2>1, <2>2
  <1>14. CASE \/ \E p \in Policies : CreatePolicy(p) \/ DeletePolicy(p) \/ PutDefaultPolicy(p)
              \/ DeleteDefaultPolicy
              \/ \E m \in Monitors : ListExpiredStates(m)
              \/ \E j \in Incidents : Timeout(j)
              \/ \E m \in Message : IncidentEvent(m)
              \/ UNCHANGED vars
    <2>1. UNCHANGED <<policyOf, currentTier, status, published, jobs, faults>>
      BY <1>14 DEF CreatePolicy, DeletePolicy, PutDefaultPolicy, DeleteDefaultPolicy,
         ListExpiredStates, Timeout, IncidentEvent, vars, rows
    <2> QED
      BY <1>1, <2>1 DEF jobs
  <1> QED
    BY <1>2, <1>3, <1>4, <1>5, <1>6, <1>7, <1>8, <1>9, <1>10, <1>11, <1>12, <1>13, <1>14
       DEF Next, Escalator, Consume

\* Stop's stale tier is never ahead of the row: it was read from it, and nobody else
\* takes a row back.
LEMMA StopBehindStep ==
    ASSUME Typing, Claims, StopBehind, [Next]_vars
    PROVE  StopBehind'
PROOF
  <1> DEFINE i == inc[Consumer]
  <1>0. Consumer \in Workers /\ \A h \in Handlers : h \in Workers /\ h # Consumer
    BY WorkersAssumption DEF Workers
  <1>m. \A m \in Monitors : m \in Workers /\ m # Consumer
    BY WorkersAssumption DEF Workers
  <1>1. CASE pc'[Consumer] # "stop"
    BY <1>1 DEF StopBehind
  <1>2. ASSUME pc'[Consumer] = "stop", ReceiveUpdated
        PROVE  StopBehind'
    <2>1. /\ Active(Head(queue)[2]) /\ UNCHANGED rows
          /\ inc' = [inc EXCEPT ![Consumer] = Head(queue)[2]]
          /\ tier' = [tier EXCEPT ![Consumer] = currentTier[Head(queue)[2]]]
      BY <1>0, <1>2 DEF ReceiveUpdated, Return, Leave, Typing, TypeOK
    <2>2. Head(queue)[2] \in Incidents
      <3>1. queue # <<>> /\ queue \in Seq(Message)
        BY <1>2 DEF ReceiveUpdated, Typing, TypeOK
      <3>2. Head(queue) \in Message
        BY <3>1
      <3> QED
        BY <3>2 DEF Message
    <2> QED
      BY <1>0, <2>1, <2>2 DEF StopBehind, Active, rows, Typing, TypeOK
  <1>3. ASSUME pc[Consumer] = "stop", inc'[Consumer] = i, tier'[Consumer] = tier[Consumer],
               status'[i] # "none", currentTier[i] <= currentTier'[i], currentTier'[i] \in Int
        PROVE  StopBehind'
    <2>1. tier[Consumer] \in Int /\ currentTier[i] \in Int /\ tier[Consumer] <= currentTier[i]
      BY <1>0, <1>3 DEF StopBehind, Typing, TypeOK, JobsOK
    <2>2. tier[Consumer] <= currentTier'[i]
      BY <1>3, <2>1
    <2> QED
      BY <1>3, <2>2 DEF StopBehind
  <1>4. ASSUME pc[Consumer] = "stop", UNCHANGED <<status, currentTier>>,
               inc'[Consumer] = i, tier'[Consumer] = tier[Consumer]
        PROVE  StopBehind'
    BY <1>4 DEF StopBehind
  <1>5. ASSUME NEW w \in Workers, CreateEscalationState(w), pc'[Consumer] = "stop"
        PROVE  StopBehind'
    <2>1. w # Consumer /\ pc[Consumer] = "stop" /\ inc'[Consumer] = i /\ tier'[Consumer] = tier[Consumer]
      BY <1>0, <1>5 DEF CreateEscalationState, Goto, ReturnError, Leave, Typing, TypeOK
    <2>2. inc[w] \in Incidents /\ i \in Incidents /\ status[i] # "none"
      BY <1>0, <1>5, <2>1 DEF CreateEscalationState, Typing, JobsOK, StopBehind
    <2>3. status'[i] = status[i] /\ currentTier'[i] = currentTier[i]
      BY <1>5, <2>2 DEF CreateEscalationState, WriteRow, rows, Typing, TypeOK
    <2> QED
      BY <2>1, <2>3 DEF StopBehind
  <1>6. ASSUME NEW w \in Workers, AdvanceOrExhaust(w), pc'[Consumer] = "stop"
        PROVE  StopBehind'
    <2>1. w # Consumer /\ pc[Consumer] = "stop" /\ inc'[Consumer] = i /\ tier'[Consumer] = tier[Consumer]
      BY <1>0, <1>6 DEF AdvanceOrExhaust, Goto, Return, Leave, Typing, TypeOK
    <2>2. /\ inc[w] \in Incidents /\ i \in Incidents /\ status[i] # "none"
          /\ tier[w] \in Int /\ currentTier[i] \in Int
      BY <1>0, <1>6, <2>1 DEF AdvanceOrExhaust, Typing, TypeOK, JobsOK, StopBehind
    <2>3. CASE UNCHANGED <<currentTier, status>>
      BY <1>4, <2>1, <2>3
    <2>4. CASE Claimable(inc[w], tier[w]) /\ WriteRow(inc[w], tier[w] + 1, "active", FALSE)
      <3>1. /\ status'[i] # "none" /\ currentTier'[i] \in {currentTier[i], currentTier[i] + 1}
        BY <2>2, <2>4 DEF Claimable, WriteRow, Typing, TypeOK
      <3> QED
        BY <1>3, <2>1, <2>2, <3>1
    <2>5. CASE Claimable(inc[w], tier[w]) /\ WriteRow(inc[w], tier[w], "exhausted", TRUE)
      <3>1. status'[i] # "none" /\ currentTier'[i] = currentTier[i]
        BY <2>2, <2>5 DEF Claimable, WriteRow, Typing, TypeOK
      <3> QED
        BY <1>3, <2>1, <2>2, <3>1
    <2> QED
      BY <1>6, <2>3, <2>4, <2>5 DEF AdvanceOrExhaust
  <1>7. ASSUME NEW w \in Workers, pc'[Consumer] = "stop",
               \/ GetPolicy(w) \/ TriggerHistory(w) \/ PublishTriggered(w)
               \/ PublishExhausted(w) \/ HandlerError(w) \/ Crash(w)
        PROVE  StopBehind'
    <2>1. UNCHANGED <<status, currentTier>>
      BY <1>7 DEF GetPolicy, TriggerHistory, PublishTriggered, PublishExhausted, HandlerError,
         Crash, rows
    <2>2. CASE GetPolicy(w)
      BY <1>0, <1>4, <1>7, <2>1, <2>2 DEF GetPolicy, Goto, ReturnError, Leave, Typing, TypeOK
    <2>3. CASE TriggerHistory(w)
      BY <1>0, <1>4, <1>7, <2>1, <2>3 DEF TriggerHistory, Goto, Typing, TypeOK
    <2>4. CASE PublishTriggered(w)
      BY <1>0, <1>4, <1>7, <2>1, <2>4 DEF PublishTriggered, Return, Leave, Typing, TypeOK
    <2>5. CASE PublishExhausted(w)
      BY <1>0, <1>4, <1>7, <2>1, <2>5 DEF PublishExhausted, Return, Leave, Typing, TypeOK
    <2>6. CASE HandlerError(w)
      BY <1>0, <1>4, <1>7, <2>1, <2>6 DEF HandlerError, ReturnError, Leave, Typing, TypeOK
    <2>7. CASE Crash(w)
      BY <1>0, <1>4, <1>7, <2>1, <2>7 DEF Crash, Leave, Typing, TypeOK
    <2> QED
      BY <1>7, <2>2, <2>3, <2>4, <2>5, <2>6, <2>7
  <1>8. ASSUME ReceiveCreated \/ StopWrite \/ StopHistory \/ Ack
        PROVE  pc'[Consumer] # "stop"
    BY <1>0, <1>8 DEF ReceiveCreated, StopWrite, StopHistory, Ack, Return, Leave, Goto, StartAssign,
       Typing, TypeOK
  <1>9. ASSUME NEW h \in Handlers, NEW j \in Incidents, pc'[Consumer] = "stop",
               (\E p \in Policies : AttachPolicy(h, j, p)) \/ ManualEscalate(h, j)
        PROVE  StopBehind'
    BY <1>0, <1>4, <1>9 DEF AttachPolicy, ManualEscalate, StartAssign, StartAdvance, rows, Typing, TypeOK
  <1>10. ASSUME NEW m \in Monitors, MonitorNext(m), pc'[Consumer] = "stop"
         PROVE  StopBehind'
    BY <1>0, <1>m, <1>4, <1>10 DEF MonitorNext, StartAdvance, rows, Typing, TypeOK
  <1>11. ASSUME pc'[Consumer] = "stop",
                \/ \E p \in Policies : CreatePolicy(p) \/ DeletePolicy(p) \/ PutDefaultPolicy(p)
                \/ DeleteDefaultPolicy
                \/ \E m \in Monitors : ListExpiredStates(m)
                \/ \E j \in Incidents : Timeout(j)
                \/ \E m \in Message : IncidentEvent(m)
                \/ UNCHANGED vars
         PROVE  StopBehind'
    <2>1. UNCHANGED <<status, currentTier, jobs>>
      BY <1>11 DEF CreatePolicy, DeletePolicy, PutDefaultPolicy, DeleteDefaultPolicy,
         ListExpiredStates, Timeout, IncidentEvent, vars, rows
    <2> QED
      BY <1>4, <1>11, <2>1 DEF jobs
  <1> QED
    BY <1>1, <1>2, <1>5, <1>6, <1>7, <1>8, <1>9, <1>10, <1>11 DEF Next, Escalator, Consume

\* Lost notifications are bounded by the faults: a tier goes untold only when a process
\* dies between claiming and publishing it or the publish fails, one tier each time.
THEOREM LostOnlyByFault == Spec => []UntoldOnlyByFault
PROOF
  <1> DEFINE Bounded == IsFiniteSet(Untold) /\ UntoldOnlyByFault
  <1>1. Init => StopBehind /\ Bounded
    <2> SUFFICES ASSUME Init
                 PROVE  StopBehind /\ Bounded
      OBVIOUS
    <2>1. StopBehind
      BY DEF Init, StopBehind, Workers
    <2>2. {j \in Incidents : status[j] # "none"} = {}
      BY DEF Init
    <2>3. Untold = {}
      BY <2>2 DEF Untold
    <2> QED
      BY <2>1, <2>3, FS_EmptySet DEF UntoldOnlyByFault, Init
  <1>2. ASSUME Typing, Typing', Claims, RowsHavePolicy, RowsHavePolicy', StopBehind, Bounded,
               [Next]_vars
        PROVE  Bounded'
    <2>0. faults \in Nat /\ Cardinality(Untold) \in Nat /\ UntoldIsMissing
      BY <1>2, UntoldMembers, FS_CardinalityType DEF Typing, TypeOK
    <2>1. UntoldIsMissing'
      BY <1>2, UntoldMembers, PTL
    <2>2. CASE LosesNothing
      <3>1. Untold' \in SUBSET Untold
        BY <2>0, <2>1, <2>2 DEF LosesNothing, UntoldIsMissing
      <3>2. IsFiniteSet(Untold') /\ Cardinality(Untold') <= Cardinality(Untold)
        BY <1>2, <3>1, FS_Subset
      <3>3. Cardinality(Untold') \in Nat
        BY <3>2, FS_CardinalityType
      <3> QED
        BY <1>2, <2>0, <2>2, <3>2, <3>3 DEF LosesNothing, UntoldOnlyByFault
    <2>3. CASE LosesOne
      <3>1. PICK j \in Incidents, u \in Int : \A i \in Incidents, t \in Int :
               Missing(i, t)' => Missing(i, t) \/ (i = j /\ t = u)
        BY <2>3 DEF LosesOne
      <3> DEFINE more == Untold \cup {<<j, u>>}
      <3>2. Untold' \in SUBSET more
        BY <2>0, <2>1, <3>1 DEF UntoldIsMissing
      <3>3. IsFiniteSet(more) /\ Cardinality(more) \in {Cardinality(Untold), Cardinality(Untold) + 1}
        BY <1>2, FS_AddElement
      <3> HIDE DEF more
      <3>4. IsFiniteSet(Untold') /\ Cardinality(Untold') <= Cardinality(more)
        BY <3>2, <3>3, FS_Subset
      <3>5. Cardinality(Untold') \in Nat
        BY <3>4, FS_CardinalityType
      <3>6. faults' = faults + 1 /\ Cardinality(Untold) <= faults
        BY <1>2, <2>3 DEF LosesOne, UntoldOnlyByFault
      <3>7. Cardinality(Untold') <= faults'
        BY <2>0, <3>3, <3>4, <3>5, <3>6
      <3> QED
        BY <3>4, <3>7 DEF UntoldOnlyByFault
    <2> QED
      BY <1>2, <2>2, <2>3, LosesAtMostOne
  <1>3. Typing /\ Claims /\ StopBehind /\ [Next]_vars => StopBehind'
    BY StopBehindStep
  <1>4. Bounded => UntoldOnlyByFault
    OBVIOUS
  <1> HIDE DEF Bounded
  <1> QED
    BY <1>1, <1>2, <1>3, <1>4, RowsInvariant, PTL DEF Spec
===============================================================================
