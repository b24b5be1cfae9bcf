---------------------------- MODULE IncidentProofs ----------------------------
(***************************************************************************)
(* Proofs about Incident, for any number of incidents, fingerprints, rules *)
(* and handlers and without the bounds of the TLC runs.                    *)
(***************************************************************************)
EXTENDS Incident, FiniteSetTheorems, TLAPS

(***************************************************************************)
(* Type correctness.                                                       *)
(***************************************************************************)

\* The calls that work on an incident.
OnIncident == {"attach", "getCreated", "publishCreated", "count", "resolve", "history",
               "getUpdated", "transition", "publishUpdated"}

\* A worker in the middle of a call knows an incident that exists; a request is at
\* its transition, which was validated, or at its event; the consumer works on the
\* head of the queue until that is acknowledged.
JobsOK ==
    /\ \A w \in Workers :
          /\ pc[w] \in OnIncident => inc[w] \in Incidents /\ status[inc[w]] # "none"
          /\ pc[w] = "transition" => Validate(old[w], new[w])
          /\ pc[w] \in {"publishCreated", "publishUpdated"} => new[w] \in Statuses
    /\ \A h \in Handlers : pc[h] \in {"idle", "transition", "publishUpdated"}
    /\ pc[Consumer] # "transition"
    /\ pc[Consumer] \in {"find", "create", "attach"} => key[Consumer] # NoKey
    /\ pc[Consumer] # "idle" => queue # <<>>

\* An alert belongs to an incident that exists.
AlertsOK == \A a \in alerts : status[a[1]] # "none"

Typing == TypeOK /\ JobsOK /\ AlertsOK

\* The step changes nothing but what worker w executes.
OnlyMoves(w) ==
    \A v \in Workers \ {w} : /\ pc'[v] = pc[v] /\ inc'[v] = inc[v] /\ key'[v] = key[v]
                             /\ old'[v] = old[v] /\ new'[v] = new[v]

\* The jobs have their types.
JobTypes ==
    /\ pc \in [Workers -> PCs] /\ inc \in [Workers -> Incidents \cup {None}]
    /\ new \in [Workers -> Statuses \cup {"none"}]
    /\ key \in [Workers -> Keys] /\ old \in [Workers -> Statuses \cup {"none"}]

\* What Goto does to the jobs.
LEMMA GotoMoves ==
    ASSUME TypeOK, NEW w \in Workers, NEW l \in PCs, NEW i \in Incidents \cup {None},
           NEW s \in Statuses \cup {"none"}, Goto(w, l, i, s)
    PROVE  /\ OnlyMoves(w) /\ pc'[w] = l /\ inc'[w] = i /\ new'[w] = s
           /\ key'[w] = key[w] /\ old'[w] = old[w] /\ JobTypes'
PROOF
  <1>1. OnlyMoves(w) /\ pc'[w] = l /\ inc'[w] = i /\ new'[w] = s
        /\ key'[w] = key[w] /\ old'[w] = old[w]
    BY DEF TypeOK, Goto, OnlyMoves
  <1>2. JobTypes'
    BY DEF TypeOK, Goto, JobTypes
  <1> QED
    BY <1>1, <1>2

\* What Leave does to the jobs.
LEMMA LeaveMoves ==
    ASSUME TypeOK, NEW w \in Workers, NEW l \in PCs, Leave(w, l)
    PROVE  OnlyMoves(w) /\ pc'[w] = l /\ JobTypes'
PROOF
  <1>1. NoKey \in Keys
    BY DEF Keys
  <1>2. OnlyMoves(w) /\ pc'[w] = l
    BY DEF TypeOK, Leave, OnlyMoves
  <1>3. JobTypes'
    BY <1>1 DEF TypeOK, Leave, JobTypes
  <1> QED
    BY <1>2, <1>3

\* A handler that returns leaves the jobs in order.
LEMMA LeaveJobs ==
    ASSUME Typing, NEW w \in Workers, NEW l \in {"idle", "ack"}, Leave(w, l),
           l = "ack" => w = Consumer, \A i \in Incidents : status[i] # "none" => status'[i] # "none",
           pc'[Consumer] # "idle" => queue' # <<>>
    PROVE  JobTypes' /\ JobsOK'
PROOF
  <1>1. l \in PCs
    BY DEF PCs
  <1>2. OnlyMoves(w) /\ pc'[w] = l /\ JobTypes'
    BY <1>1, LeaveMoves DEF Typing
  <1>3. Consumer \in Workers /\ \A h \in Handlers : h \in Workers /\ h # Consumer
    BY WorkersAssumption DEF Workers
  <1>4. \A v \in Workers :
          /\ pc'[v] \in OnIncident => inc'[v] \in Incidents /\ status'[inc'[v]] # "none"
          /\ pc'[v] = "transition" => Validate(old'[v], new'[v])
          /\ pc'[v] \in {"publishCreated", "publishUpdated"} => new'[v] \in Statuses
    BY <1>2 DEF Typing, JobsOK, OnlyMoves, OnIncident
  <1>5. \A h \in Handlers : pc'[h] \in {"idle", "transition", "publishUpdated"}
    BY <1>2, <1>3 DEF Typing, JobsOK, OnlyMoves
  <1>6. pc'[Consumer] # "transition"
    BY <1>2, <1>3 DEF Typing, JobsOK, OnlyMoves
  <1>7. pc'[Consumer] \in {"find", "create", "attach"} => key'[Consumer] # NoKey
    BY <1>2, <1>3 DEF Typing, JobsOK, OnlyMoves
  <1> QED
    BY <1>2, <1>4, <1>5, <1>6, <1>7 DEF JobsOK

\* The consumer goes on with an incident that exists.
LEMMA GotoJobs ==
    ASSUME Typing, NEW l \in OnIncident, NEW i \in Incidents, NEW s \in Statuses \cup {"none"},
           Goto(Consumer, l, i, s), l # "transition", l = "attach" => key[Consumer] # NoKey,
           l \in {"publishCreated", "publishUpdated"} => s \in Statuses,
           \A j \in Incidents : status[j] # "none" => status'[j] # "none", status'[i] # "none",
           queue # <<>>, UNCHANGED queue
    PROVE  JobTypes' /\ JobsOK'
PROOF
  <1>1. l \in PCs
    BY DEF PCs, OnIncident
  <1>2. Consumer \in Workers /\ \A h \in Handlers : h \in Workers /\ h # Consumer
    BY WorkersAssumption DEF Workers
  <1>3. /\ OnlyMoves(Consumer) /\ pc'[Consumer] = l /\ inc'[Consumer] = i /\ new'[Consumer] = s
        /\ key'[Consumer] = key[Consumer] /\ JobTypes'
    BY <1>1, <1>2, GotoMoves DEF Typing
  <1>4. \A v \in Workers :
          /\ pc'[v] \in OnIncident => inc'[v] \in Incidents /\ status'[inc'[v]] # "none"
          /\ pc'[v] = "transition" => Validate(old'[v], new'[v])
          /\ pc'[v] \in {"publishCreated", "publishUpdated"} => new'[v] \in Statuses
    BY <1>3 DEF Typing, JobsOK, OnlyMoves
  <1>5. \A h \in Handlers : pc'[h] \in {"idle", "transition", "publishUpdated"}
    BY <1>2, <1>3 DEF Typing, JobsOK, OnlyMoves
  <1>6. pc'[Consumer] \in {"find", "create", "attach"} => key'[Consumer] # NoKey
    BY <1>3 DEF OnIncident
  <1> QED
    BY <1>3, <1>4, <1>5, <1>6 DEF JobsOK

\* The tables, the queue and the counters have their types.
TableTypes ==
    /\ rule \in Rules
    /\ status \in [Incidents -> Statuses \cup {"none"}]
    /\ alerts \in SUBSET Alert
    /\ history \in [Incidents -> Seq(Entry)]
    /\ queue \in Seq(Message)
    /\ events \in Seq(Event)
    /\ sent \in Nat /\ requests \in Nat /\ faults \in Nat

\* The alert at the head of the queue.
LEMMA HeadType ==
    ASSUME TypeOK, queue # <<>>
    PROVE  Head(queue)[2] \in Fingerprints
PROOF
  <1>1. Head(queue) \in Message
    BY DEF TypeOK
  <1> QED
    BY <1>1 DEF Message

\* The history stays well-formed.
LEMMA HistoryType ==
    ASSUME TypeOK, NEW i \in Incidents, NEW from \in Statuses \cup {"none"}, NEW to \in Statuses,
           NEW author \in {"user", "consumer"}, AppendHistory(i, from, to, author)
    PROVE  history' \in [Incidents -> Seq(Entry)]
PROOF
  <1>1. <<from, to, author>> \in Entry
    BY DEF Entry
  <1> DEFINE E == Entry
             e == <<from, to, author>>
  <1>2. e \in E /\ history \in [Incidents -> Seq(E)]
    BY <1>1 DEF TypeOK
  <1>3. history' = [history EXCEPT ![i] = Append(@, e)]
    BY DEF AppendHistory
  <1> HIDE DEF E, e
  <1>4. history' \in [Incidents -> Seq(E)]
    BY <1>2, <1>3
  <1> QED
    BY <1>4 DEF E

\* The events stay well-formed.
LEMMA EventType ==
    ASSUME TypeOK, NEW type \in {"created", "updated"}, NEW i \in Incidents, NEW s \in Statuses,
           Publish(type, i, s)
    PROVE  events' \in Seq(Event)
PROOF
  <1>1. <<type, i, s>> \in Event
    BY DEF Event
  <1> QED
    BY <1>1 DEF TypeOK, Publish

\* A key computed from a rule is a key, and not the empty one.
LEMMA KeyType ==
    ASSUME NEW r \in Rules, NEW f \in Fingerprints
    PROVE  GroupKey[r][f] \in Keys /\ GroupKey[r][f] # NoKey
PROOF
  BY RulesAssumption DEF Keys

\* The parts of the typing invariant.
LEMMA TypingParts ==
    Typing <=> TableTypes /\ JobTypes /\ JobsOK /\ AlertsOK
PROOF
  BY DEF Typing, TypeOK, TableTypes, JobTypes

\* Every step leaves the tables, the queue and the jobs well-typed.
LEMMA TypingStep == Typing /\ [Next]_vars => Typing'
PROOF
  <1> SUFFICES ASSUME Typing, [Next]_vars
               PROVE  TableTypes' /\ JobTypes' /\ JobsOK' /\ AlertsOK'
    BY DEF Typing, TypeOK, TableTypes, JobTypes
  <1>0. Consumer \in Workers /\ \A h \in Handlers : h \in Workers /\ h # Consumer
    BY WorkersAssumption DEF Workers
  <1>t. TypeOK /\ TableTypes /\ JobTypes /\ JobsOK /\ AlertsOK
    BY TypingParts DEF Typing
  <1>a. ASSUME UNCHANGED <<status, alerts>>
        PROVE  /\ AlertsOK' /\ \A i \in Incidents : status[i] # "none" => status'[i] # "none"
    BY <1>t, <1>a DEF AlertsOK
  <1>b. ASSUME UNCHANGED <<table, jobs, queue>>
        PROVE  JobTypes' /\ JobsOK'
    BY <1>t, <1>b DEF JobTypes, JobsOK, table, jobs
  <1>1. CASE ReceiveFiring
    <2>1. /\ queue # <<>> /\ pc[Consumer] = "idle"
          /\ UNCHANGED <<rule, table, queue, events, sent, requests, faults, inc, old, new>>
      BY <1>1 DEF ReceiveFiring, Idle
    <2>2. TableTypes' /\ AlertsOK'
      BY <1>t, <1>a, <2>1 DEF TableTypes, table
    <2>3. GroupKey[rule][Head(queue)[2]] \in Keys /\ GroupKey[rule][Head(queue)[2]] # NoKey
      BY <1>t, <2>1, HeadType, KeyType DEF TableTypes
    <2> DEFINE k == GroupKey[rule][Head(queue)[2]]
    <2>4. pc' = [pc EXCEPT ![Consumer] = "find"] /\ key' = [key EXCEPT ![Consumer] = k]
      BY <1>1 DEF ReceiveFiring
    <2>5. k \in Keys /\ k # NoKey
      BY <2>3
    <2> HIDE DEF k
    <2>6. JobTypes'
      BY <1>t, <2>1, <2>4, <2>5 DEF JobTypes, PCs
    <2>7. JobsOK'
      BY <1>0, <1>t, <2>1, <2>4, <2>5 DEF JobsOK, JobTypes, OnIncident, table
    <2> QED
      BY <2>2, <2>6, <2>7
  <1>2. CASE FindOpenIncidentByGroupKey
    <2>1. /\ queue # <<>> /\ pc[Consumer] = "find" /\ key[Consumer] # NoKey
          /\ UNCHANGED <<rule, table, queue, events, sent, requests, faults>>
      BY <1>t, <1>2 DEF FindOpenIncidentByGroupKey, JobsOK
    <2>2. TableTypes' /\ AlertsOK' /\ \A i \in Incidents : status[i] # "none" => status'[i] # "none"
      BY <1>t, <1>a, <2>1 DEF TableTypes, table
    <2>3. ASSUME NEW i \in Matching(key[Consumer]), Goto(Consumer, "attach", i, "none")
          PROVE  JobTypes' /\ JobsOK'
      <3>1. i \in Incidents /\ status[i] # "none"
        BY <2>3 DEF Matching, Open
      <3> QED
        BY <2>1, <2>2, <2>3, <3>1, GotoJobs DEF OnIncident
    <2>4. CASE Goto(Consumer, "create", None, "none")
      <3>1. /\ OnlyMoves(Consumer) /\ pc'[Consumer] = "create"
            /\ key'[Consumer] = key[Consumer] /\ JobTypes'
        BY <1>0, <1>t, <2>4, GotoMoves DEF PCs
      <3>2. JobsOK'
        BY <1>0, <1>t, <2>1, <3>1 DEF JobsOK, OnlyMoves, OnIncident, table
      <3> QED
        BY <2>2, <3>1, <3>2
    <2> QED
      BY <1>2, <2>2, <2>3, <2>4 DEF FindOpenIncidentByGroupKey
  <1>3. CASE CreateIncidentTx
    <2>1. /\ queue # <<>> /\ pc[Consumer] = "create" /\ key[Consumer] \in Keys
          /\ UNCHANGED <<rule, queue, events, sent, requests, faults>>
      BY <1>0, <1>t, <1>3 DEF CreateIncidentTx, JobsOK, JobTypes
    <2>2. PICK i \in Incidents :
             /\ ~Exists(i)
             /\ status' = [status EXCEPT ![i] = "open"]
             /\ alerts' = alerts \cup {<<i, Head(queue)[2], key[Consumer], "firing">>}
             /\ AppendHistory(i, "none", "open", "consumer")
             /\ Goto(Consumer, "getCreated", i, "none")
      BY <1>3 DEF CreateIncidentTx
    <2>3. history' \in [Incidents -> Seq(Entry)]
      BY <1>t, <2>2, HistoryType DEF Statuses
    <2>4. <<i, Head(queue)[2], key[Consumer], "firing">> \in Alert
      BY <1>t, <2>1, HeadType DEF Alert
    <2>5. status' \in [Incidents -> Statuses \cup {"none"}]
      BY <1>t, <2>2 DEF TableTypes, Statuses
    <2>6. alerts' \in SUBSET Alert
      BY <1>t, <2>2, <2>4 DEF TableTypes
    <2>7. TableTypes'
      BY <1>t, <2>1, <2>3, <2>5, <2>6 DEF TableTypes
    <2>8. \A j \in Incidents : status[j] # "none" => status'[j] # "none"
      BY <1>t, <2>2 DEF TableTypes
    <2>9. status'[i] # "none"
      BY <1>t, <2>2 DEF TableTypes
    <2>10. \A a \in alerts : a[1] \in Incidents
      BY <1>t DEF TableTypes, Alert
    <2>11. AlertsOK'
      BY <1>t, <2>2, <2>8, <2>9, <2>10 DEF AlertsOK
    <2>12. JobTypes' /\ JobsOK'
      BY <2>1, <2>2, <2>8, <2>9, GotoJobs DEF OnIncident
    <2> QED
      BY <2>7, <2>11, <2>12
  <1>4. CASE AttachAlert
    <2>1. /\ queue # <<>> /\ inc[Consumer] \in Incidents /\ status[inc[Consumer]] # "none"
          /\ key[Consumer] \in Keys
          /\ UNCHANGED <<rule, status, history, queue, events, sent, requests, faults>>
      BY <1>0, <1>t, <1>4 DEF AttachAlert, JobsOK, OnIncident, JobTypes
    <2>2. <<inc[Consumer], Head(queue)[2], key[Consumer], "firing">> \in Alert
      BY <1>t, <2>1, HeadType DEF Alert
    <2>3. TableTypes'
      BY <1>t, <1>4, <2>1, <2>2 DEF AttachAlert, TableTypes
    <2>4. AlertsOK'
      BY <1>t, <1>4, <2>1 DEF AttachAlert, AlertsOK
    <2>5. JobTypes' /\ JobsOK'
      BY <1>0, <1>4, <2>1, LeaveJobs DEF AttachAlert, Return
    <2> QED
      BY <2>3, <2>4, <2>5
  <1>5. CASE GetCreated \/ GetUpdated
    <2>1. /\ queue # <<>> /\ inc[Consumer] \in Incidents /\ status[inc[Consumer]] # "none"
          /\ status[inc[Consumer]] \in Statuses
          /\ UNCHANGED <<rule, table, queue, events, sent, requests>>
      BY <1>0, <1>t, <1>5 DEF GetCreated, GetUpdated, JobsOK, OnIncident, TableTypes
    <2>2. AlertsOK' /\ \A i \in Incidents : status[i] # "none" => status'[i] # "none"
      BY <1>a, <2>1 DEF table
    <2>3. faults' \in Nat
      BY <1>t, <1>5 DEF GetCreated, GetUpdated, Fault, TableTypes
    <2>4. TableTypes'
      BY <1>t, <2>1, <2>3 DEF TableTypes, table
    <2>5. CASE Return(Consumer)
      BY <1>0, <2>1, <2>2, <2>4, <2>5, LeaveJobs DEF Return
    <2>6. ASSUME NEW l \in {"publishCreated", "publishUpdated"},
                 Goto(Consumer, l, inc[Consumer], status[inc[Consumer]])
          PROVE  JobTypes' /\ JobsOK'
      BY <2>1, <2>2, <2>6, GotoJobs DEF OnIncident
    <2> QED
      BY <1>5, <2>2, <2>4, <2>5, <2>6 DEF GetCreated, GetUpdated
  <1>6. CASE PublishCreated
    <2>1. /\ queue # <<>> /\ inc[Consumer] \in Incidents /\ new[Consumer] \in Statuses
          /\ UNCHANGED <<rule, table, queue, sent, requests>>
      BY <1>0, <1>t, <1>6 DEF PublishCreated, JobsOK, OnIncident
    <2>2. AlertsOK' /\ \A i \in Incidents : status[i] # "none" => status'[i] # "none"
      BY <1>a, <2>1 DEF table
    <2>3. faults' \in Nat
      BY <1>t, <1>6 DEF PublishCreated, Fault, TableTypes
    <2>4. events' \in Seq(Event)
      BY <1>t, <1>6, <2>1, EventType DEF PublishCreated, TableTypes
    <2>5. TableTypes'
      BY <1>t, <2>1, <2>3, <2>4 DEF TableTypes, table
    <2>6. JobTypes' /\ JobsOK'
      BY <1>0, <1>6, <2>1, <2>2, LeaveJobs DEF PublishCreated, Return
    <2> QED
      BY <2>2, <2>5, <2>6
  <1>7. CASE ReceiveResolved
    <2> DEFINE rows == FiringRows(Head(queue)[2])
    <2>1. /\ queue # <<>> /\ UNCHANGED <<rule, status, history, queue, events, sent, requests, faults>>
          /\ alerts' = (alerts \ rows) \cup {<<a[1], a[2], a[3], "resolved">> : a \in rows}
          /\ \/ \E a \in rows : Goto(Consumer, "count", a[1], "none")
             \/ Return(Consumer)
      BY <1>7 DEF ReceiveResolved
    <2>2. rows \subseteq alerts /\ \A a \in alerts : a \in Alert /\ a[1] \in Incidents /\ status[a[1]] # "none"
      BY <1>t DEF FiringRows, TableTypes, AlertsOK, Alert
    <2> HIDE DEF rows
    <2>3. \A a \in rows : <<a[1], a[2], a[3], "resolved">> \in Alert
      BY <2>2 DEF Alert
    <2>4. alerts' \in SUBSET Alert
      BY <1>t, <2>1, <2>3 DEF TableTypes
    <2>5. TableTypes'
      BY <1>t, <2>1, <2>4 DEF TableTypes
    <2>6. AlertsOK'
      BY <2>1, <2>2 DEF AlertsOK
    <2>7. CASE Return(Consumer)
      BY <1>0, <2>1, <2>5, <2>6, <2>7, LeaveJobs DEF Return
    <2>8. ASSUME NEW a \in rows, Goto(Consumer, "count", a[1], "none")
          PROVE  JobTypes' /\ JobsOK'
      BY <2>1, <2>2, <2>8, GotoJobs DEF OnIncident
    <2> QED
      BY <2>1, <2>5, <2>6, <2>7, <2>8
  <1>8. CASE CountFiring
    <2>1. /\ queue # <<>> /\ inc[Consumer] \in Incidents /\ status[inc[Consumer]] # "none"
          /\ UNCHANGED <<rule, table, queue, events, sent, requests, faults>>
      BY <1>0, <1>t, <1>8 DEF CountFiring, JobsOK, OnIncident
    <2>2. AlertsOK' /\ \A i \in Incidents : status[i] # "none" => status'[i] # "none"
      BY <1>a, <2>1 DEF table
    <2>3. TableTypes'
      BY <1>t, <2>1 DEF TableTypes, table
    <2>4. CASE Return(Consumer)
      BY <1>0, <2>1, <2>2, <2>3, <2>4, LeaveJobs DEF Return
    <2>5. CASE Goto(Consumer, "resolve", inc[Consumer], "none")
      BY <2>1, <2>2, <2>3, <2>5, GotoJobs DEF OnIncident
    <2> QED
      BY <1>8, <2>4, <2>5 DEF CountFiring
  <1>9. CASE MaybeResolve
    <2>1. /\ queue # <<>> /\ inc[Consumer] \in Incidents
          /\ UNCHANGED <<rule, alerts, history, queue, events, sent, requests, faults>>
          /\ status' = [status EXCEPT ![inc[Consumer]] = "resolved"]
          /\ Goto(Consumer, "history", inc[Consumer], "none")
      BY <1>0, <1>t, <1>9 DEF MaybeResolve, JobsOK, OnIncident
    <2>2. status' \in [Incidents -> Statuses \cup {"none"}]
      BY <1>t, <2>1 DEF TableTypes, Statuses
    <2>3. \A j \in Incidents : status[j] # "none" => status'[j] # "none"
      BY <1>t, <2>1 DEF TableTypes
    <2>4. status'[inc[Consumer]] # "none"
      BY <1>t, <2>1 DEF TableTypes
    <2>5. \A a \in alerts : a[1] \in Incidents
      BY <1>t DEF TableTypes, Alert
    <2>6. TableTypes' /\ AlertsOK'
      BY <1>t, <2>1, <2>2, <2>3, <2>5 DEF TableTypes, AlertsOK
    <2>7. JobTypes' /\ JobsOK'
      BY <2>1, <2>3, <2>4, GotoJobs DEF OnIncident
    <2> QED
      BY <2>6, <2>7
  <1>10. CASE ResolvedHistory
    <2>1. /\ queue # <<>> /\ inc[Consumer] \in Incidents /\ status[inc[Consumer]] # "none"
          /\ UNCHANGED <<rule, status, alerts, queue, events, sent, requests>>
      BY <1>0, <1>t, <1>10 DEF ResolvedHistory, JobsOK, OnIncident
    <2>2. AlertsOK' /\ \A i \in Incidents : status[i] # "none" => status'[i] # "none"
      BY <1>a, <2>1
    <2>3. faults' \in Nat
      BY <1>t, <1>10 DEF ResolvedHistory, Fault, TableTypes
    <2>4. history' \in [Incidents -> Seq(Entry)]
      BY <1>t, <1>10, <2>1, HistoryType DEF ResolvedHistory, TableTypes, Statuses
    <2>5. TableTypes'
      BY <1>t, <2>1, <2>3, <2>4 DEF TableTypes
    <2>6. JobTypes' /\ JobsOK'
      BY <1>10, <2>1, <2>2, GotoJobs DEF ResolvedHistory, OnIncident
    <2> QED
      BY <2>2, <2>5, <2>6
  <1>11. ASSUME NEW w \in Workers, PublishUpdated(w)
         PROVE  TableTypes' /\ JobTypes' /\ JobsOK' /\ AlertsOK'
    <2>1. /\ inc[w] \in Incidents /\ new[w] \in Statuses /\ pc[w] = "publishUpdated"
          /\ UNCHANGED <<rule, table, queue, sent, requests>>
      BY <1>t, <1>11 DEF PublishUpdated, JobsOK, OnIncident
    <2>2. AlertsOK' /\ \A i \in Incidents : status[i] # "none" => status'[i] # "none"
      BY <1>a, <2>1 DEF table
    <2>3. faults' \in Nat
      BY <1>t, <1>11 DEF PublishUpdated, Fault, TableTypes
    <2>4. events' \in Seq(Event)
      BY <1>t, <1>11, <2>1, EventType DEF PublishUpdated, TableTypes
    <2>5. TableTypes'
      BY <1>t, <2>1, <2>3, <2>4 DEF TableTypes, table
    <2>6. pc'[Consumer] # "idle" => queue' # <<>>
      BY <1>0, <1>t, <1>11, <2>1 DEF PublishUpdated, Return, Leave, JobsOK, JobTypes
    <2>7. JobTypes' /\ JobsOK'
      BY <1>11, <2>2, <2>6, LeaveJobs DEF PublishUpdated, Return
    <2> QED
      BY <2>2, <2>5, <2>7
  <1>12. CASE Ack
    <2>1. /\ queue # <<>> /\ queue' = Tail(queue) /\ Leave(Consumer, "idle")
          /\ UNCHANGED <<rule, table, events, sent, requests, faults>>
      BY <1>t, <1>12 DEF Ack, JobsOK
    <2>2. AlertsOK' /\ \A i \in Incidents : status[i] # "none" => status'[i] # "none"
      BY <1>a, <2>1 DEF table
    <2>3. TableTypes'
      BY <1>t, <2>1 DEF TableTypes, table
    <2>4. pc'[Consumer] = "idle"
      BY <1>0, <1>t, <2>1 DEF Leave, JobTypes
    <2>5. JobTypes' /\ JobsOK'
      BY <1>0, <2>1, <2>2, <2>4, LeaveJobs
    <2> QED
      BY <2>2, <2>3, <2>5
  <1>13. ASSUME NEW h \in Handlers, TransitionStatus(h)
         PROVE  TableTypes' /\ JobTypes' /\ JobsOK' /\ AlertsOK'
    <2>1. /\ h \in Workers /\ h # Consumer /\ inc[h] \in Incidents /\ status[inc[h]] # "none"
          /\ Validate(old[h], new[h])
          /\ UNCHANGED <<rule, alerts, queue, events, sent, requests, faults>>
      BY <1>0, <1>t, <1>13 DEF TransitionStatus, JobsOK, OnIncident
    <2>2. old[h] \in Statuses /\ new[h] \in Statuses
      BY <2>1 DEF Validate, Statuses
    <2>3. CASE UnchangedSinceRead(h)
      <3>1. /\ status' = [status EXCEPT ![inc[h]] = new[h]]
            /\ AppendHistory(inc[h], old[h], new[h], "user")
            /\ Goto(h, "publishUpdated", inc[h], new[h])
        BY <1>13, <2>3 DEF TransitionStatus
      <3>2. history' \in [Incidents -> Seq(Entry)]
        BY <1>t, <2>1, <2>2, <3>1, HistoryType
      <3>3. status' \in [Incidents -> Statuses \cup {"none"}]
        BY <1>t, <2>2, <3>1 DEF TableTypes
      <3>4. TableTypes'
        BY <1>t, <2>1, <3>2, <3>3 DEF TableTypes
      <3>5. \A i \in Incidents : status[i] # "none" => status'[i] # "none"
        BY <1>t, <2>2, <3>1 DEF TableTypes, Statuses
      <3>6. \A a \in alerts : a[1] \in Incidents
        BY <1>t DEF TableTypes, Alert
      <3>7. AlertsOK'
        BY <1>t, <2>1, <3>5, <3>6 DEF AlertsOK
      <3>8. /\ OnlyMoves(h) /\ pc'[h] = "publishUpdated" /\ inc'[h] = inc[h] /\ new'[h] = new[h]
            /\ JobTypes'
        BY <1>t, <2>1, <2>2, <3>1, GotoMoves DEF PCs
      <3>9. JobsOK'
        BY <1>0, <1>t, <2>1, <2>2, <3>5, <3>8 DEF JobsOK, OnlyMoves
      <3> QED
        BY <3>4, <3>7, <3>8, <3>9
    <2>4. CASE ~UnchangedSinceRead(h)
      <3>1. Leave(h, "idle") /\ UNCHANGED <<status, history>>
        BY <1>13, <2>1, <2>4 DEF TransitionStatus, Return
      <3>2. AlertsOK' /\ \A i \in Incidents : status[i] # "none" => status'[i] # "none"
        BY <1>a, <2>1, <3>1
      <3>3. TableTypes'
        BY <1>t, <2>1, <3>1 DEF TableTypes
      <3>4. pc'[Consumer] # "idle" => queue' # <<>>
        BY <1>0, <1>t, <2>1, <3>1 DEF Leave, JobsOK, JobTypes
      <3>5. JobTypes' /\ JobsOK'
        BY <2>1, <3>1, <3>2, <3>4, LeaveJobs
      <3> QED
        BY <3>2, <3>3, <3>5
    <2> QED
      BY <2>3, <2>4
  <1>14. ASSUME NEW h \in Handlers, NEW i \in Incidents, NEW s \in Statuses, PatchStatus(h, i, s)
         PROVE  TableTypes' /\ JobTypes' /\ JobsOK' /\ AlertsOK'
    <2>1. /\ h \in Workers /\ h # Consumer /\ status[i] # "none" /\ Validate(status[i], s)
          /\ pc' = [pc EXCEPT ![h] = "transition"] /\ inc' = [inc EXCEPT ![h] = i]
          /\ old' = [old EXCEPT ![h] = status[i]] /\ new' = [new EXCEPT ![h] = s]
          /\ UNCHANGED <<rule, status, alerts, history, queue, events, key, sent, faults>>
          /\ requests' \in Nat
      BY <1>0, <1>t, <1>14 DEF PatchStatus, Exists, Request, TableTypes, table
    <2>2. TableTypes' /\ AlertsOK'
      BY <1>t, <1>a, <2>1 DEF TableTypes
    <2>3. status[i] \in Statuses \cup {"none"}
      BY <1>t DEF TableTypes
    <2>4. JobTypes'
      BY <1>t, <2>1, <2>3 DEF JobTypes, PCs
    <2>5. OnlyMoves(h) /\ pc'[h] = "transition" /\ inc'[h] = i /\ old'[h] = status[i] /\ new'[h] = s
      BY <1>t, <2>1 DEF OnlyMoves, JobTypes
    <2>6. JobsOK'
      BY <1>0, <1>t, <2>1, <2>5 DEF JobsOK, OnlyMoves
    <2> QED
      BY <2>2, <2>4, <2>6
  <1>15. ASSUME NEW i \in Incidents, NEW f \in Fingerprints, AttachByHand(i, f)
         PROVE  TableTypes' /\ JobTypes' /\ JobsOK' /\ AlertsOK'
    <2>1. /\ status[i] # "none" /\ alerts' = alerts \cup {<<i, f, NoKey, "firing">>}
          /\ UNCHANGED <<rule, status, history, queue, events, jobs, sent, faults>>
          /\ requests' \in Nat
      BY <1>t, <1>15 DEF AttachByHand, Exists, Request, TableTypes
    <2>2. <<i, f, NoKey, "firing">> \in Alert
      BY DEF Alert, Keys
    <2>3. TableTypes'
      BY <1>t, <2>1, <2>2 DEF TableTypes
    <2>4. AlertsOK'
      BY <1>t, <2>1 DEF AlertsOK
    <2>5. JobTypes' /\ JobsOK'
      BY <1>t, <2>1 DEF JobTypes, JobsOK, jobs
    <2> QED
      BY <2>3, <2>4, <2>5
  <1>16. CASE DeleteGroupingRule \/ \E r \in Rules : PutGroupingRule(r)
    <2>1. rule' \in Rules /\ requests' \in Nat /\ UNCHANGED <<table, queue, events, jobs, sent, faults>>
      BY <1>t, <1>16, RulesAssumption DEF DeleteGroupingRule, PutGroupingRule, Request, TableTypes
    <2>2. TableTypes' /\ AlertsOK'
      BY <1>t, <1>a, <2>1 DEF TableTypes, table
    <2> QED
      BY <1>b, <2>1, <2>2
  <1>17. ASSUME NEW w \in Workers, HandlerError(w) \/ Crash(w)
         PROVE  TableTypes' /\ JobTypes' /\ JobsOK' /\ AlertsOK'
    <2>1. /\ Leave(w, "idle") /\ faults' \in Nat
          /\ UNCHANGED <<rule, table, queue, events, sent, requests>>
      BY <1>t, <1>17 DEF HandlerError, Crash, Fault, TableTypes
    <2>2. AlertsOK' /\ \A i \in Incidents : status[i] # "none" => status'[i] # "none"
      BY <1>a, <2>1 DEF table
    <2>3. TableTypes'
      BY <1>t, <2>1 DEF TableTypes, table
    <2>4. pc'[Consumer] # "idle" => queue' # <<>>
      BY <1>0, <1>t, <2>1 DEF Leave, JobsOK, JobTypes
    <2>5. JobTypes' /\ JobsOK'
      BY <2>1, <2>2, <2>4, LeaveJobs
    <2> QED
      BY <2>2, <2>3, <2>5
  <1>18. ASSUME NEW m \in Message, AlertReceived(m)
         PROVE  TableTypes' /\ JobTypes' /\ JobsOK' /\ AlertsOK'
    <2>1. /\ queue' = Append(queue, m) /\ sent' \in Nat
          /\ UNCHANGED <<rule, table, events, jobs, requests, faults>>
      BY <1>t, <1>18 DEF AlertReceived, TableTypes
    <2>2. queue' \in Seq(Message) /\ queue' # <<>>
      BY <1>t, <2>1 DEF TableTypes
    <2>3. TableTypes' /\ AlertsOK'
      BY <1>t, <1>a, <2>1, <2>2 DEF TableTypes, table
    <2>4. JobTypes' /\ JobsOK'
      BY <1>t, <2>1, <2>2 DEF JobTypes, JobsOK, jobs, table
    <2> QED
      BY <2>3, <2>4
  <1>19. CASE UNCHANGED vars
    <2>1. TableTypes' /\ AlertsOK'
      BY <1>t, <1>a, <1>19 DEF TableTypes, table, vars
    <2> QED
      BY <1>b, <1>19, <2>1 DEF vars
  <1> QED
    BY <1>0, <1>1, <1>2, <1>3, <1>4, <1>5, <1>6, <1>7, <1>8, <1>9, <1>10, <1>11, <1>12, <1>13,
       <1>14, <1>15, <1>16, <1>17, <1>18, <1>19 DEF Next, Consume, Handle

\* The typing invariant holds.
LEMMA TypingInvariant == Spec => []Typing
PROOF
  <1>1. Init => Typing
    <2> SUFFICES ASSUME Init
                 PROVE  TypeOK /\ JobsOK /\ AlertsOK
      BY DEF Typing
    <2>1. NoKey \in Keys
      BY DEF Keys
    <2>2. TypeOK
      BY <2>1, RulesAssumption DEF Init, TypeOK, PCs
    <2>3. Consumer \in Workers /\ \A h \in Handlers : h \in Workers
      BY DEF Workers
    <2>4. JobsOK /\ AlertsOK
      BY <2>3 DEF Init, JobsOK, AlertsOK, OnIncident
    <2> QED
      BY <2>2, <2>4
  <1> QED
    BY <1>1, TypingStep, PTL DEF Spec

\* Every variable keeps the shape the tables, queues and goroutines have.
THEOREM IncidentTypeCorrect == Spec => []TypeOK
PROOF
  <1>1. Typing => TypeOK
    BY DEF Typing
  <1> QED
    BY <1>1, TypingInvariant, PTL
-----------------------------------------------------------------------------
(***************************************************************************)
(* The status machine.                                                     *)
(***************************************************************************)

\* Only three steps write a status: the insert, the transition that was validated on
\* the status it still finds, and MaybeResolve.
LEMMA StatusStep ==
    ASSUME Typing, [Next]_vars
    PROVE  \/ UNCHANGED <<status, history>>
           \/ CreateIncidentTx \/ MaybeResolve \/ ResolvedHistory
           \/ \E h \in Handlers : TransitionStatus(h) /\ UnchangedSinceRead(h)
PROOF
  BY DEF Next, Consume, Handle, ReceiveFiring, FindOpenIncidentByGroupKey, AttachAlert, GetCreated,
     PublishCreated, ReceiveResolved, CountFiring, GetUpdated, PublishUpdated, Ack,
     TransitionStatus, PatchStatus, AttachByHand, PutGroupingRule, DeleteGroupingRule,
     HandlerError, Crash, AlertReceived, table, vars

\* What a transition that goes through does.
LEMMA TransitionEffect ==
    ASSUME Typing, NEW h \in Handlers, TransitionStatus(h), UnchangedSinceRead(h)
    PROVE  /\ inc[h] \in Incidents /\ Validate(status[inc[h]], new[h])
           /\ status' = [status EXCEPT ![inc[h]] = new[h]]
           /\ AppendHistory(inc[h], status[inc[h]], new[h], "user")
           /\ UNCHANGED alerts
           /\ pc'[Consumer] = pc[Consumer] /\ inc'[Consumer] = inc[Consumer]
           /\ key'[Consumer] = key[Consumer]
PROOF
  <1>1. Consumer \in Workers /\ h \in Workers /\ h # Consumer
    BY WorkersAssumption DEF Workers
  <1>2. inc[h] \in Incidents /\ Validate(old[h], new[h]) /\ old[h] = status[inc[h]]
    BY <1>1 DEF TransitionStatus, UnchangedSinceRead, Typing, JobsOK, OnIncident
  <1> QED
    BY <1>1, <1>2 DEF TransitionStatus, UnchangedSinceRead, Goto, Typing, TypeOK

\* Whatever the handlers and the consumer read before, a status only ever moves along
\* the state machine: a PATCH writes over the status it validated against, and
\* MaybeResolve closes what exists.
THEOREM StatusMachineFollowed == Spec => FollowsStateMachine
PROOF
  <1>1. ASSUME Typing, [Next]_vars, NEW i \in Incidents, status[i] # "none", status'[i] # status[i]
        PROVE  Validate(status[i], status'[i])
    <2>1. status[i] \in Statuses
      BY <1>1 DEF Typing, TypeOK
    <2>2. CASE CreateIncidentTx
      BY <1>1, <2>2 DEF CreateIncidentTx, Exists, Typing, TypeOK
    <2>3. CASE MaybeResolve
      <3>1. status'[i] = "resolved"
        BY <1>1, <2>3 DEF MaybeResolve, Typing, TypeOK
      <3> QED
        BY <1>1, <2>1, <3>1 DEF Statuses, Validate
    <2>4. CASE ResolvedHistory
      BY <1>1, <2>4 DEF ResolvedHistory
    <2>5. ASSUME NEW h \in Handlers, TransitionStatus(h), UnchangedSinceRead(h)
          PROVE  Validate(status[i], status'[i])
      <3>1. /\ inc[h] \in Incidents /\ Validate(status[inc[h]], new[h])
            /\ status' = [status EXCEPT ![inc[h]] = new[h]]
        BY <1>1, <2>5, TransitionEffect
      <3>2. i = inc[h] /\ status'[i] = new[h]
        BY <1>1, <3>1 DEF Typing, TypeOK
      <3> QED
        BY <3>1, <3>2
    <2> QED
      BY <1>1, <2>2, <2>3, <2>4, <2>5, StatusStep
  <1>2. Typing /\ [Next]_vars =>
           [\A i \in Incidents : status[i] # "none" /\ status'[i] # status[i] =>
               <<status[i], status'[i]>> \in
                   {<<"open", "acknowledged">>, <<"open", "resolved">>,
                    <<"acknowledged", "resolved">>, <<"resolved", "open">>}]_vars
    BY <1>1 DEF Validate
  <1> QED
    BY <1>2, TypingInvariant, PTL DEF Spec, FollowsStateMachine
-----------------------------------------------------------------------------
(***************************************************************************)
(* What a step does to the incidents and the alerts, as far as groups and  *)
(* closing are concerned.                                                  *)
(***************************************************************************)

\* An entry is never lost, and the entry of a reopening, or of a close by hand, marks the
\* incident for ever.
LEMMA HistoryGrows ==
    ASSUME Typing, NEW i \in Incidents, NEW from \in Statuses \cup {"none"}, NEW to \in Statuses,
           NEW author \in {"user", "consumer"}, AppendHistory(i, from, to, author)
    PROVE  /\ \A j \in Incidents : Reopened(j) => Reopened(j)'
           /\ from = "resolved" /\ to = "open" /\ author = "user" => Reopened(i)'
           /\ \A j \in Incidents : ClosedByHand(j) => ClosedByHand(j)'
           /\ to = "resolved" /\ author = "user" => ClosedByHand(i)'
           /\ LastEntry(i)' = <<from, to, author>>
           /\ \A j \in Incidents : j # i => history'[j] = history[j]
PROOF
  <1> DEFINE E == Entry
             e == <<from, to, author>>
  <1>1. history \in [Incidents -> Seq(E)] /\ history' = [history EXCEPT ![i] = Append(@, e)]
    BY DEF Typing, TypeOK, AppendHistory
  <1>2. e \in E
    BY DEF Entry
  <1> HIDE DEF E, e
  <1>3. \A j \in Incidents : \A k \in DOMAIN history[j] :
           k \in DOMAIN history'[j] /\ history'[j][k] = history[j][k]
    BY <1>1, <1>2
  <1>4. \E k \in DOMAIN history'[i] : history'[i][k] = e
    <2>1. history'[i] = Append(history[i], e) /\ history[i] \in Seq(E)
      BY <1>1
    <2>2. Len(history[i]) + 1 \in DOMAIN history'[i] /\ history'[i][Len(history[i]) + 1] = e
      BY <1>2, <2>1
    <2> QED
      BY <2>2
  <1>5. \A j \in Incidents : Reopened(j) => Reopened(j)'
    BY <1>3 DEF Reopened
  <1>6. \A j \in Incidents : ClosedByHand(j) => ClosedByHand(j)'
    BY <1>3 DEF ClosedByHand
  <1>7. from = "resolved" /\ to = "open" /\ author = "user" => Reopened(i)'
    BY <1>4 DEF Reopened, e
  <1>8. to = "resolved" /\ author = "user" => ClosedByHand(i)'
    BY <1>4 DEF ClosedByHand, e
  <1>9. LastEntry(i)' = e
    <2>1. history'[i] = Append(history[i], e) /\ history[i] \in Seq(E)
      BY <1>1
    <2>2. Len(history'[i]) = Len(history[i]) + 1 /\ history'[i][Len(history[i]) + 1] = e
      BY <1>2, <2>1
    <2> QED
      BY <2>2 DEF LastEntry
  <1>10. \A j \in Incidents : j # i => history'[j] = history[j]
    BY <1>1
  <1> QED
    BY <1>5, <1>6, <1>7, <1>8, <1>9, <1>10 DEF e

\* An incident that was reopened stays marked, and one that becomes open is reopened
\* or has just been created.
LEMMA OpenStep ==
    ASSUME Typing, [Next]_vars, NEW i \in Incidents
    PROVE  /\ Reopened(i) => Reopened(i)'
           /\ Open(i)' => Open(i) \/ Reopened(i)' \/ (CreateIncidentTx /\ status[i] = "none")
PROOF
  <1>0. Consumer \in Workers
    BY DEF Workers
  <1>1. CASE UNCHANGED <<status, history>>
    BY <1>1 DEF Open, Reopened
  <1>2. CASE CreateIncidentTx
    <2>1. PICK j \in Incidents : /\ status[j] = "none" /\ status' = [status EXCEPT ![j] = "open"]
                                 /\ AppendHistory(j, "none", "open", "consumer")
      BY <1>2 DEF CreateIncidentTx, Exists
    <2>2. Reopened(i) => Reopened(i)'
      BY <2>1, HistoryGrows DEF Statuses
    <2> QED
      BY <1>2, <2>1, <2>2 DEF Open, Typing, TypeOK
  <1>3. CASE MaybeResolve
    BY <1>3 DEF MaybeResolve, Open, Reopened, Typing, TypeOK
  <1>4. CASE ResolvedHistory
    <2>1. inc[Consumer] \in Incidents /\ UNCHANGED status
      BY <1>0, <1>4 DEF ResolvedHistory, Typing, JobsOK, OnIncident
    <2>2. Reopened(i) => Reopened(i)'
      <3>1. CASE AppendHistory(inc[Consumer], "open", "resolved", "consumer")
        BY <2>1, <3>1, HistoryGrows DEF Statuses
      <3>2. CASE UNCHANGED history
        BY <3>2 DEF Reopened
      <3> QED
        BY <1>4, <3>1, <3>2 DEF ResolvedHistory
    <2> QED
      BY <2>1, <2>2 DEF Open
  <1>5. ASSUME NEW h \in Handlers, TransitionStatus(h), UnchangedSinceRead(h)
        PROVE  /\ Reopened(i) => Reopened(i)'
               /\ Open(i)' => Open(i) \/ Reopened(i)'
    <2>1. /\ inc[h] \in Incidents /\ Validate(status[inc[h]], new[h])
          /\ status' = [status EXCEPT ![inc[h]] = new[h]]
          /\ AppendHistory(inc[h], status[inc[h]], new[h], "user")
      BY <1>5, TransitionEffect
    <2>2. status[inc[h]] \in Statuses /\ new[h] \in Statuses
      BY <2>1 DEF Validate, Statuses
    <2>3. /\ Reopened(i) => Reopened(i)'
          /\ i = inc[h] /\ status[i] = "resolved" /\ new[h] = "open" => Reopened(i)'
      <3>1. ASSUME NEW j \in Incidents, j = inc[h], NEW s \in Statuses, s = status[inc[h]],
                   NEW t \in Statuses, t = new[h]
            PROVE  /\ Reopened(i) => Reopened(i)'
                   /\ i = j /\ s = "resolved" /\ t = "open" => Reopened(i)'
        BY <2>1, <3>1, HistoryGrows
      <3> QED
        BY <2>1, <2>2, <3>1
    <2>4. i # inc[h] => status'[i] = status[i]
      BY <2>1 DEF Typing, TypeOK
    <2>5. i = inc[h] => status'[i] = new[h]
      BY <2>1 DEF Typing, TypeOK
    <2> QED
      BY <2>1, <2>3, <2>4, <2>5 DEF Open, Validate
  <1> QED
    BY <1>1, <1>2, <1>3, <1>4, <1>5, StatusStep

SameAlert(a, b) == a[1] = b[1] /\ a[2] = b[2] /\ a[3] = b[3]

\* Rows of incident_alerts are never removed, a resolved one never fires again, and a
\* new one is attached by hand, by AttachAlert or with a new incident.
LEMMA AlertsStep ==
    ASSUME Typing, [Next]_vars
    PROVE  /\ \A a \in alerts : \E b \in alerts' : SameAlert(a, b)
           /\ \A b \in alerts' :
                 \/ \E a \in alerts : SameAlert(a, b) /\ (b[4] = "firing" => a[4] = "firing")
                 \/ b[3] = NoKey /\ b[4] = "firing"
                 \/ CreateIncidentTx \/ AttachAlert
PROOF
  <1> USE DEF SameAlert
  <1>1. CASE UNCHANGED alerts
    BY <1>1
  <1>2. CASE CreateIncidentTx \/ AttachAlert
    BY <1>2 DEF CreateIncidentTx, AttachAlert
  <1>3. ASSUME NEW i \in Incidents, NEW f \in Fingerprints, AttachByHand(i, f)
        PROVE  /\ \A a \in alerts : \E b \in alerts' : SameAlert(a, b)
               /\ \A b \in alerts' :
                     \/ \E a \in alerts : SameAlert(a, b) /\ (b[4] = "firing" => a[4] = "firing")
                     \/ b[3] = NoKey /\ b[4] = "firing"
    BY <1>3 DEF AttachByHand
  <1>4. CASE ReceiveResolved
    <2> DEFINE rows == FiringRows(Head(queue)[2])
    <2>1. alerts' = (alerts \ rows) \cup {<<a[1], a[2], a[3], "resolved">> : a \in rows}
      BY <1>4 DEF ReceiveResolved
    <2>2. rows \subseteq alerts
      BY DEF FiringRows
    <2> HIDE DEF rows
    <2>3. ASSUME NEW a \in alerts
          PROVE  \E b \in alerts' : SameAlert(a, b)
      <3>1. CASE a \in rows
        <4>1. <<a[1], a[2], a[3], "resolved">> \in alerts'
          BY <2>1, <3>1
        <4> QED
          BY <4>1
      <3> QED
        BY <2>1, <3>1
    <2>4. ASSUME NEW b \in alerts'
          PROVE  \E a \in alerts : SameAlert(a, b) /\ (b[4] = "firing" => a[4] = "firing")
      BY <2>1, <2>2
    <2> QED
      BY <2>3, <2>4
  <1> QED
    BY <1>1, <1>2, <1>3, <1>4 DEF Next, Consume, Handle, ReceiveFiring, FindOpenIncidentByGroupKey,
       GetCreated, PublishCreated, CountFiring, MaybeResolve, ResolvedHistory, GetUpdated,
       PublishUpdated, Ack, TransitionStatus, PatchStatus, PutGroupingRule, DeleteGroupingRule,
       HandlerError, Crash, AlertReceived, table, vars

\* The consumer comes to the insert, the attach and the UPDATE of MaybeResolve only
\* from the read before each, and stays there until it makes the call or fails.
LEMMA ConsumerStep ==
    ASSUME Typing, [Next]_vars
    PROVE  \A l \in {"create", "attach", "resolve"} : pc'[Consumer] = l =>
              \/ /\ pc[Consumer] = l /\ key'[Consumer] = key[Consumer]
                 /\ inc'[Consumer] = inc[Consumer]
              \/ FindOpenIncidentByGroupKey \/ CountFiring
PROOF
  <1> SUFFICES ASSUME NEW l \in {"create", "attach", "resolve"}, pc'[Consumer] = l,
                      ~FindOpenIncidentByGroupKey, ~CountFiring
               PROVE  /\ pc[Consumer] = l /\ key'[Consumer] = key[Consumer]
                      /\ inc'[Consumer] = inc[Consumer]
    OBVIOUS
  <1>0. Consumer \in Workers /\ \A h \in Handlers : h \in Workers /\ h # Consumer
    BY WorkersAssumption DEF Workers
  <1>1. CASE UNCHANGED jobs
    BY <1>1 DEF jobs
  <1>2. ASSUME NEW w \in Workers, NEW m \in {"idle", "ack"}, Leave(w, m)
        PROVE  /\ pc[Consumer] = l /\ key'[Consumer] = key[Consumer]
               /\ inc'[Consumer] = inc[Consumer]
    BY <1>0, <1>2 DEF Leave, Typing, TypeOK
  <1>3. ASSUME NEW m \in {"find", "getCreated", "publishCreated", "count", "history", "getUpdated",
                          "publishUpdated"},
               pc' = [pc EXCEPT ![Consumer] = m]
        PROVE  FALSE
    BY <1>0, <1>3 DEF Typing, TypeOK
  <1>4. ASSUME NEW w \in Workers, Return(w)
        PROVE  /\ pc[Consumer] = l /\ key'[Consumer] = key[Consumer]
               /\ inc'[Consumer] = inc[Consumer]
    BY <1>2, <1>4 DEF Return
  <1>5. CASE ReceiveFiring \/ CreateIncidentTx \/ MaybeResolve \/ ResolvedHistory
    BY <1>3, <1>5 DEF ReceiveFiring, CreateIncidentTx, MaybeResolve, ResolvedHistory, Goto
  <1>6. CASE AttachAlert \/ GetCreated \/ PublishCreated \/ ReceiveResolved \/ GetUpdated \/ Ack
    BY <1>0, <1>2, <1>3, <1>4, <1>6 DEF AttachAlert, GetCreated, PublishCreated, ReceiveResolved,
       GetUpdated, Ack, Goto
  <1>7. ASSUME NEW w \in Workers, PublishUpdated(w) \/ HandlerError(w) \/ Crash(w)
        PROVE  /\ pc[Consumer] = l /\ key'[Consumer] = key[Consumer]
               /\ inc'[Consumer] = inc[Consumer]
    BY <1>2, <1>4, <1>7 DEF PublishUpdated, HandlerError, Crash
  <1>8. ASSUME NEW h \in Handlers, TransitionStatus(h)
        PROVE  /\ pc[Consumer] = l /\ key'[Consumer] = key[Consumer]
               /\ inc'[Consumer] = inc[Consumer]
    <2>1. CASE Return(h)
      BY <1>0, <1>4, <2>1
    <2>2. CASE Goto(h, "publishUpdated", inc[h], new[h])
      BY <1>0, <2>2 DEF Goto, Typing, TypeOK
    <2> QED
      BY <1>8, <2>1, <2>2 DEF TransitionStatus
  <1>9. ASSUME NEW h \in Handlers, NEW i \in Incidents, NEW s \in Statuses, PatchStatus(h, i, s)
        PROVE  /\ pc[Consumer] = l /\ key'[Consumer] = key[Consumer]
               /\ inc'[Consumer] = inc[Consumer]
    BY <1>0, <1>9 DEF PatchStatus, Typing, TypeOK
  <1>10. CASE \/ \E i \in Incidents, f \in Fingerprints : AttachByHand(i, f)
              \/ \E r \in Rules : PutGroupingRule(r)
              \/ DeleteGroupingRule
              \/ \E m \in Message : AlertReceived(m)
              \/ UNCHANGED vars
    BY <1>1, <1>10 DEF AttachByHand, PutGroupingRule, DeleteGroupingRule, AlertReceived, vars, jobs
  <1> QED
    BY <1>0, <1>5, <1>6, <1>7, <1>8, <1>9, <1>10 DEF Next, Consume, Handle
-----------------------------------------------------------------------------
(***************************************************************************)
(* One open incident per group.  The read of FindOpenIncidentByGroupKey is *)
(* stale when the insert or the attach uses it; what is left of it is      *)
(* enough, for only the consumer gives an incident a group.                *)
(***************************************************************************)

\* Before the insert: no incident of the group is open but a reopened one.
CreateClear ==
    pc[Consumer] = "create" =>
        \A a \in alerts : a[3] = key[Consumer] /\ Open(a[1]) => Reopened(a[1])

\* Before the attach: the incident is of the group, be it closed by now.
AttachTarget ==
    pc[Consumer] = "attach" => \E a \in alerts : a[1] = inc[Consumer] /\ a[3] = key[Consumer]

Groups == CreateClear /\ AttachTarget /\ OneOpenPerGroup

\* Every step keeps the groups together.
LEMMA GroupsStep == Typing /\ Groups /\ [Next]_vars => Groups'
PROOF
  <1> SUFFICES ASSUME Typing, Groups, [Next]_vars
               PROVE  Groups'
    OBVIOUS
  <1>0. Consumer \in Workers /\ \A a \in alerts : a \in Alert /\ a[1] \in Incidents
    BY DEF Workers, Typing, TypeOK, Alert
  <1>t. Typing'
    BY TypingStep
  <1>1. CreateClear'
    <2> SUFFICES ASSUME pc'[Consumer] = "create", NEW b \in alerts', b[3] = key'[Consumer],
                        NEW i, i = b[1], Open(i)'
                 PROVE  Reopened(i)'
      BY DEF CreateClear
    <2>1. i \in Incidents /\ b[3] # NoKey
      BY <1>t DEF Typing, TypeOK, JobsOK, Alert
    <2>2. CASE FindOpenIncidentByGroupKey
      <3>1. /\ pc[Consumer] = "find" /\ UNCHANGED <<status, alerts, history>>
        BY <2>2 DEF FindOpenIncidentByGroupKey, table
      <3>2. key'[Consumer] = key[Consumer] /\ Matching(key[Consumer]) = {}
        BY <1>0, <2>2 DEF FindOpenIncidentByGroupKey, Goto, Typing, TypeOK
      <3> QED
        BY <2>1, <3>1, <3>2 DEF Matching, Open
    <2>3. CASE pc[Consumer] = "create" /\ key'[Consumer] = key[Consumer]
      <3>1. ~CreateIncidentTx /\ ~AttachAlert
        BY <1>0, <2>3 DEF CreateIncidentTx, AttachAlert, Goto, Typing, TypeOK
      <3>2. PICK a \in alerts : SameAlert(a, b)
        BY <2>1, <3>1, AlertsStep
      <3>3. Open(i) => Reopened(i)
        BY <2>3, <3>2 DEF Groups, CreateClear, SameAlert
      <3> QED
        BY <2>1, <3>1, <3>3, OpenStep
    <2>4. ~CountFiring
      BY <1>0 DEF CountFiring, Return, Leave, Goto, Typing, TypeOK
    <2> QED
      BY <2>2, <2>3, <2>4, ConsumerStep
  <1>2. AttachTarget'
    <2> SUFFICES ASSUME pc'[Consumer] = "attach"
                 PROVE  \E b \in alerts' : b[1] = inc'[Consumer] /\ b[3] = key'[Consumer]
      BY DEF AttachTarget
    <2>1. CASE FindOpenIncidentByGroupKey
      <3>1. PICK i \in Matching(key[Consumer]) : Goto(Consumer, "attach", i, "none")
        BY <1>0, <2>1 DEF FindOpenIncidentByGroupKey, Goto, Typing, TypeOK
      <3>2. key'[Consumer] = key[Consumer] /\ inc'[Consumer] = i /\ UNCHANGED alerts
        BY <1>0, <2>1, <3>1 DEF FindOpenIncidentByGroupKey, Goto, table, Typing, TypeOK
      <3> QED
        BY <3>1, <3>2 DEF Matching
    <2>2. CASE /\ pc[Consumer] = "attach" /\ key'[Consumer] = key[Consumer]
               /\ inc'[Consumer] = inc[Consumer]
      <3>1. PICK a \in alerts : a[1] = inc[Consumer] /\ a[3] = key[Consumer]
        BY <2>2 DEF Groups, AttachTarget
      <3>2. PICK b \in alerts' : SameAlert(a, b)
        BY AlertsStep
      <3> QED
        BY <2>2, <3>1, <3>2 DEF SameAlert
    <2>3. ~CountFiring
      BY <1>0 DEF CountFiring, Return, Leave, Goto, Typing, TypeOK
    <2> QED
      BY <2>1, <2>2, <2>3, ConsumerStep
  <1>3. OneOpenPerGroup'
    <2> SUFFICES ASSUME NEW a \in alerts', NEW b \in alerts', NEW i, i = a[1], NEW j, j = b[1],
                        i # j, Open(i)', Open(j)', a[3] = b[3], a[3] # NoKey,
                        ~(Reopened(i)'), ~(Reopened(j)')
                 PROVE  FALSE
      BY DEF OneOpenPerGroup
    <2>1. i \in Incidents /\ j \in Incidents
      BY <1>t DEF Typing, TypeOK, Alert
    <2>2. ~Reopened(i) /\ ~Reopened(j)
      BY <2>1, OpenStep
    <2>3. ASSUME NEW c \in alerts, c[1] = i, c[3] = a[3], NEW d \in alerts, d[1] = j, d[3] = a[3],
                 Open(i), Open(j)
          PROVE  FALSE
      BY <2>2, <2>3 DEF Groups, OneOpenPerGroup
    <2>4. CASE CreateIncidentTx
      <3>1. PICK n \in Incidents :
               /\ status[n] = "none"
               /\ status' = [status EXCEPT ![n] = "open"]
               /\ alerts' = alerts \cup {<<n, Head(queue)[2], key[Consumer], "firing">>}
        BY <2>4 DEF CreateIncidentTx, Exists
      <3>2. pc[Consumer] = "create"
        BY <2>4 DEF CreateIncidentTx
      <3>3. \A m \in Incidents : m # n => status'[m] = status[m]
        BY <3>1 DEF Typing, TypeOK
      <3>4. \A c \in alerts : c[1] # n
        BY <3>1 DEF Typing, AlertsOK
      <3>5. a \in alerts => Open(i)
        BY <2>1, <3>3, <3>4 DEF Open
      <3>6. b \in alerts => Open(j)
        BY <2>1, <3>3, <3>4 DEF Open
      <3>7. a \notin alerts => a[1] = n /\ a[3] = key[Consumer]
        BY <3>1
      <3>8. b \notin alerts => b[1] = n /\ b[3] = key[Consumer]
        BY <3>1
      <3>9. CASE a \in alerts /\ b \in alerts
        BY <2>3, <3>5, <3>6, <3>9
      <3>10. CASE a \in alerts /\ b \notin alerts
        BY <2>2, <3>2, <3>5, <3>8, <3>10 DEF Groups, CreateClear
      <3>11. CASE a \notin alerts /\ b \in alerts
        BY <2>2, <3>2, <3>6, <3>7, <3>11 DEF Groups, CreateClear
      <3> QED
        BY <3>7, <3>8, <3>9, <3>10, <3>11
    <2>5. CASE AttachAlert
      <3>1. /\ pc[Consumer] = "attach" /\ UNCHANGED status
            /\ alerts' = alerts \cup {<<inc[Consumer], Head(queue)[2], key[Consumer], "firing">>}
        BY <2>5 DEF AttachAlert
      <3>2. PICK c \in alerts : c[1] = inc[Consumer] /\ c[3] = key[Consumer]
        BY <3>1 DEF Groups, AttachTarget
      <3>3. Open(i) /\ Open(j)
        BY <3>1 DEF Open
      <3>4. \E d \in alerts : d[1] = i /\ d[3] = a[3]
        BY <3>1, <3>2
      <3>5. \E d \in alerts : d[1] = j /\ d[3] = a[3]
        BY <3>1, <3>2
      <3> QED
        BY <2>3, <3>3, <3>4, <3>5
    <2>6. CASE ~CreateIncidentTx /\ ~AttachAlert
      <3>1. Open(i) /\ Open(j)
        BY <2>1, <2>6, OpenStep
      <3>2. PICK c \in alerts : SameAlert(c, a)
        BY <2>6, AlertsStep
      <3>3. PICK d \in alerts : SameAlert(d, b)
        BY <2>6, AlertsStep
      <3> QED
        BY <2>3, <3>1, <3>2, <3>3 DEF SameAlert
    <2> QED
      BY <2>4, <2>5, <2>6
  <1> QED
    BY <1>1, <1>2, <1>3 DEF Groups

\* Redeliveries, crashes, failed calls, acknowledgements and changes of the grouping rule
\* never split a group over two open incidents; only reopening a closed one can.
THEOREM GroupsStayTogether == Spec => []OneOpenPerGroup
PROOF
  <1>1. Init => Groups
    <2>1. Consumer \in Workers
      BY DEF Workers
    <2> QED
      BY <2>1 DEF Init, Groups, CreateClear, AttachTarget, OneOpenPerGroup
  <1>2. Groups => OneOpenPerGroup
    BY DEF Groups
  <1> QED
    BY <1>1, <1>2, GroupsStep, TypingInvariant, PTL DEF Spec
-----------------------------------------------------------------------------
(***************************************************************************)
(* Closing an incident.                                                    *)
(***************************************************************************)

\* Between the count and the UPDATE of MaybeResolve, what fires was attached by hand.
CountClear ==
    pc[Consumer] = "resolve" => \A a \in Firing(inc[Consumer]) : a[3] = NoKey

\* Every step leaves nothing but alerts by hand between the count and the UPDATE.
LEMMA CountClearStep == Typing /\ CountClear /\ [Next]_vars => CountClear'
PROOF
  <1> SUFFICES ASSUME Typing, CountClear, [Next]_vars, pc'[Consumer] = "resolve",
                      NEW b \in alerts', b[1] = inc'[Consumer], b[4] = "firing"
               PROVE  b[3] = NoKey
    BY DEF CountClear, Firing
  <1>0. Consumer \in Workers
    BY DEF Workers
  <1>1. CASE CountFiring
    <2>1. /\ ~StillFiring(inc[Consumer]) /\ inc'[Consumer] = inc[Consumer] /\ UNCHANGED alerts
      BY <1>0, <1>1 DEF CountFiring, Return, Leave, Goto, table, Typing, TypeOK
    <2> QED
      BY <2>1 DEF StillFiring, Firing
  <1>2. CASE pc[Consumer] = "resolve" /\ inc'[Consumer] = inc[Consumer]
    <2>1. ~CreateIncidentTx /\ ~AttachAlert
      BY <1>2 DEF CreateIncidentTx, AttachAlert
    <2> QED
      BY <1>2, <2>1, AlertsStep DEF CountClear, Firing, SameAlert
  <1>3. ~FindOpenIncidentByGroupKey
    BY <1>0 DEF FindOpenIncidentByGroupKey, Goto, Typing, TypeOK
  <1> QED
    BY <1>1, <1>2, <1>3, ConsumerStep

\* MaybeResolve counts and updates in two statements, yet it never closes an incident
\* over a firing alert that the consumer attached: only one attached by hand can come
\* in between.
THEOREM ClosedOverByHandOnly == Spec => ClosedOnlyOverAlertsByHand
PROOF
  <1>1. Init => CountClear
    <2>1. Consumer \in Workers
      BY DEF Workers
    <2> QED
      BY <2>1 DEF Init, CountClear
  <1>2. CountClear /\ [Next]_vars =>
           [MaybeResolve => \A a \in Firing(inc[Consumer]) : a[3] = NoKey]_vars
    BY DEF CountClear, MaybeResolve
  <1> QED
    BY <1>1, <1>2, CountClearStep, TypingInvariant, PTL DEF Spec, ClosedOnlyOverAlertsByHand

\* Rows are never removed, so an incident that shares a fingerprint always will.
LEMMA SharesAlertKept ==
    ASSUME Typing, [Next]_vars, NEW i \in Incidents, SharesAlert(i)
    PROVE  SharesAlert(i)'
PROOF
  <1>1. PICK a \in alerts, b \in alerts : a[1] = i /\ b[1] # i /\ a[2] = b[2]
    BY DEF SharesAlert
  <1>2. PICK c \in alerts' : SameAlert(a, c)
    BY AlertsStep
  <1>3. PICK d \in alerts' : SameAlert(b, d)
    BY AlertsStep
  <1> QED
    BY <1>1, <1>2, <1>3 DEF SharesAlert, SameAlert

\* What ReceiveResolved does to an incident whose last alert it resolves: either it is
\* the one the consumer looks at next, or its alert is an alert of another one too.
LEMMA ReceiveResolvedSettles ==
    ASSUME Typing, ReceiveResolved, NEW i \in Incidents, Firing(i) # {}, Firing(i)' = {}
    PROVE  Settling(i)' \/ SharesAlert(i)'
PROOF
  <1>0. Consumer \in Workers
    BY DEF Workers
  <1> DEFINE f == Head(queue)[2]
             rows == FiringRows(f)
  <1>1. /\ alerts' = (alerts \ rows) \cup {<<a[1], a[2], a[3], "resolved">> : a \in rows}
        /\ \/ \E a \in rows : Goto(Consumer, "count", a[1], "none")
           \/ rows = {}
    BY DEF ReceiveResolved
  <1>2. \A a \in rows : a[2] = f
    BY DEF FiringRows
  <1> HIDE DEF rows, f
  <1>3. PICK a \in alerts : a[1] = i /\ a[4] = "firing"
    BY DEF Firing
  <1>4. a \in rows
    BY <1>1, <1>3 DEF Firing
  <1>5. PICK b \in rows : Goto(Consumer, "count", b[1], "none")
    BY <1>1, <1>4
  <1>6. CASE b[1] = i
    BY <1>0, <1>5, <1>6 DEF Goto, Settling, Typing, TypeOK
  <1>7. CASE b[1] # i
    <2>1. <<a[1], a[2], a[3], "resolved">> \in alerts' /\ <<b[1], b[2], b[3], "resolved">> \in alerts'
      BY <1>1, <1>4
    <2> QED
      BY <1>2, <1>3, <1>4, <1>7, <2>1 DEF SharesAlert
  <1> QED
    BY <1>6, <1>7

\* A step without a fault comes after steps without one.
LEMMA NoFaultBefore ==
    ASSUME Typing, [Next]_vars, faults' = 0
    PROVE  faults = 0 /\ \A w \in Workers : ~HandlerError(w) /\ ~Crash(w)
PROOF
  <1>1. faults = 0
    BY DEF Next, Consume, Handle, ReceiveFiring, FindOpenIncidentByGroupKey, CreateIncidentTx,
       AttachAlert, GetCreated, PublishCreated, ReceiveResolved, CountFiring, MaybeResolve,
       ResolvedHistory, GetUpdated, PublishUpdated, Ack, TransitionStatus, PatchStatus,
       AttachByHand, PutGroupingRule, DeleteGroupingRule, HandlerError, Crash, AlertReceived,
       Fault, Typing, TypeOK, vars
  <1>2. \A w \in Workers : ~HandlerError(w) /\ ~Crash(w)
    BY DEF HandlerError, Crash, Fault, Typing, TypeOK
  <1> QED
    BY <1>1, <1>2

\* A step counts one fault, or none.
LEMMA FaultsStep ==
    ASSUME Typing, [Next]_vars
    PROVE  faults' \in {faults, faults + 1}
PROOF
  BY DEF Next, Consume, Handle, ReceiveFiring, FindOpenIncidentByGroupKey, CreateIncidentTx,
     AttachAlert, GetCreated, PublishCreated, ReceiveResolved, CountFiring, MaybeResolve,
     ResolvedHistory, GetUpdated, PublishUpdated, Ack, TransitionStatus, PatchStatus,
     AttachByHand, PutGroupingRule, DeleteGroupingRule, HandlerError, Crash, AlertReceived,
     Fault, Typing, TypeOK, vars

\* The consumer leaves an incident it settles only over a firing alert, closed or by a fault.
LEMMA SettlingStep ==
    ASSUME Typing, [Next]_vars, NEW i \in Incidents, Settling(i), Open(i)', Firing(i)' = {}
    PROVE  Settling(i)' \/ faults' = faults + 1
PROOF
  <1>0. Consumer \in Workers /\ \A h \in Handlers : h \in Workers /\ h # Consumer
    BY WorkersAssumption DEF Workers
  <1>1. inc[Consumer] = i /\ pc[Consumer] \in {"count", "resolve"}
    BY DEF Settling
  <1>2. CASE pc'[Consumer] = pc[Consumer] /\ inc'[Consumer] = inc[Consumer]
    BY <1>1, <1>2 DEF Settling
  <1>3. CASE CountFiring
    <2>1. UNCHANGED alerts
      BY <1>3 DEF CountFiring, table
    <2>2. ~StillFiring(i)
      BY <2>1 DEF StillFiring, Firing
    <2>3. Goto(Consumer, "resolve", i, "none")
      BY <1>1, <1>3, <2>2 DEF CountFiring
    <2> QED
      BY <1>0, <2>3 DEF Goto, Settling, Typing, TypeOK
  <1>4. CASE MaybeResolve
    BY <1>1, <1>4 DEF MaybeResolve, Open, Typing, TypeOK
  <1>5. ASSUME NEW w \in Workers, HandlerError(w) \/ Crash(w)
        PROVE  faults' = faults + 1
    BY <1>5 DEF HandlerError, Crash, Fault
  <1>6. /\ ~ReceiveFiring /\ ~FindOpenIncidentByGroupKey /\ ~CreateIncidentTx /\ ~AttachAlert
        /\ ~GetCreated /\ ~PublishCreated /\ ~ReceiveResolved /\ ~ResolvedHistory /\ ~GetUpdated
        /\ ~PublishUpdated(Consumer) /\ ~Ack
    BY <1>1 DEF ReceiveFiring, FindOpenIncidentByGroupKey, CreateIncidentTx, AttachAlert,
       GetCreated, PublishCreated, ReceiveResolved, ResolvedHistory, GetUpdated, PublishUpdated,
       Ack, Idle
  <1>7. ASSUME NEW h \in Handlers, Handle(h) \/ \E j \in Incidents, s \in Statuses : PatchStatus(h, j, s)
        PROVE  pc'[Consumer] = pc[Consumer] /\ inc'[Consumer] = inc[Consumer]
    BY <1>0, <1>7 DEF Handle, TransitionStatus, PublishUpdated, PatchStatus, Return, Leave, Goto,
       Typing, TypeOK
  <1>8. ASSUME \/ \E j \in Incidents, f \in Fingerprints : AttachByHand(j, f)
               \/ \E r \in Rules : PutGroupingRule(r)
               \/ DeleteGroupingRule
               \/ \E m \in Message : AlertReceived(m)
               \/ UNCHANGED vars
        PROVE  pc'[Consumer] = pc[Consumer] /\ inc'[Consumer] = inc[Consumer]
    BY <1>8 DEF AttachByHand, PutGroupingRule, DeleteGroupingRule, AlertReceived, vars, jobs
  <1> QED
    BY <1>2, <1>3, <1>4, <1>5, <1>6, <1>7, <1>8 DEF Next, Consume

\* Firing alerts stop firing only by ReceiveResolved.
LEMMA FiringStep ==
    ASSUME Typing, [Next]_vars, ~ReceiveResolved, NEW i \in Incidents, Firing(i)' = {}
    PROVE  Firing(i) = {}
PROOF
  <1>1. alerts \subseteq alerts'
    BY DEF Next, Consume, Handle, ReceiveFiring, FindOpenIncidentByGroupKey, CreateIncidentTx,
       AttachAlert, GetCreated, PublishCreated, CountFiring, MaybeResolve, ResolvedHistory,
       GetUpdated, PublishUpdated, Ack, TransitionStatus, PatchStatus, AttachByHand,
       PutGroupingRule, DeleteGroupingRule, HandlerError, Crash, AlertReceived, table, vars
  <1> QED
    BY <1>1 DEF Firing

\* A new incident has a firing alert.
LEMMA CreatedFires ==
    ASSUME Typing, CreateIncidentTx, NEW i \in Incidents, status[i] = "none", Open(i)'
    PROVE  Firing(i)' # {}
PROOF
  <1>1. PICK n \in Incidents :
           /\ status' = [status EXCEPT ![n] = "open"]
           /\ alerts' = alerts \cup {<<n, Head(queue)[2], key[Consumer], "firing">>}
    BY DEF CreateIncidentTx
  <1>2. n = i
    BY <1>1 DEF Open, Typing, TypeOK
  <1>3. \E b \in alerts' : b[1] = i /\ b[4] = "firing"
    <2> DEFINE b == <<n, Head(queue)[2], key[Consumer], "firing">>
    <2>1. b \in alerts' /\ b[1] = i /\ b[4] = "firing"
      BY <1>1, <1>2
    <2> HIDE DEF b
    <2> QED
      BY <2>1
  <1> QED
    BY <1>3 DEF Firing

\* An incident that is stranded although it shares no alert.
Alone(i) == Stranded(i) /\ ~SharesAlert(i)

\* Only a fault strands such an incident, and only the one the consumer settles.
LEMMA StrandedStep ==
    ASSUME Typing, [Next]_vars, NEW i \in Incidents, Alone(i)', ~Alone(i)
    PROVE  faults' = faults + 1 /\ i = inc[Consumer]
PROOF
  <1>1. /\ Open(i)' /\ Firing(i)' = {} /\ ~(Reopened(i)') /\ ~(Settling(i)')
        /\ \E b \in alerts' : b[1] = i
    BY DEF Alone, Stranded
  <1>2. ~SharesAlert(i) /\ ~(SharesAlert(i)')
    BY SharesAlertKept DEF Alone
  <1>3. ~CreateIncidentTx \/ status[i] # "none"
    BY <1>1, CreatedFires
  <1>4. Open(i) /\ ~Reopened(i)
    BY <1>1, <1>3, OpenStep
  <1>5. CASE Settling(i)
    BY <1>1, <1>5, SettlingStep DEF Settling
  <1>6. CASE ~Settling(i) /\ Firing(i) = {}
    <2>1. \E a \in alerts : a[1] = i
      <3>1. PICK b \in alerts' : b[1] = i
        BY <1>1
      <3>2. b[4] # "firing"
        BY <1>1, <3>1 DEF Firing
      <3>3. CASE CreateIncidentTx \/ AttachAlert
        BY <3>1, <3>2, <3>3 DEF CreateIncidentTx, AttachAlert
      <3>4. CASE ~(CreateIncidentTx \/ AttachAlert)
        BY <3>1, <3>2, <3>4, AlertsStep DEF SameAlert
      <3> QED
        BY <3>3, <3>4
    <2> QED
      BY <1>2, <1>4, <1>6, <2>1 DEF Alone, Stranded
  <1>7. CASE Firing(i) # {}
    <2>1. ReceiveResolved
      BY <1>1, <1>7, FiringStep
    <2> QED
      BY <1>1, <1>2, <1>7, <2>1, ReceiveResolvedSettles
  <1> QED
    BY <1>5, <1>6, <1>7

\* An incident is closed with its last alert, save one that shares a fingerprint with
\* another incident (ResolveAlert resolves the rows of all of them and reports one), and at
\* most one for each crash or failed call.
THEOREM StrandedByFaultOrSharingOnly == Spec => []StrandedOnlyByFaultOrSharing
PROOF
  <1> DEFINE Lone == {i \in Incidents : Stranded(i) /\ ~SharesAlert(i)}
             Bounded == IsFiniteSet(Lone) /\ Cardinality(Lone) <= faults
  <1>1. Init => Bounded
    <2> SUFFICES ASSUME Init
                 PROVE  Bounded
      OBVIOUS
    <2>1. Lone = {}
      BY DEF Init, Stranded
    <2> QED
      BY <2>1, FS_EmptySet DEF Init
  <1>2. ASSUME Typing, Typing', Bounded, [Next]_vars
        PROVE  Bounded'
    <2>1. faults \in Nat /\ Cardinality(Lone) \in Nat
      BY <1>2, FS_CardinalityType DEF Typing, TypeOK
    <2>2. CASE Lone' \in SUBSET Lone
      <3>1. IsFiniteSet(Lone') /\ Cardinality(Lone') <= Cardinality(Lone)
        BY <1>2, <2>2, FS_Subset
      <3>2. Cardinality(Lone') \in Nat
        BY <3>1, FS_CardinalityType
      <3>3. faults' \in {faults, faults + 1}
        BY <1>2, FaultsStep
      <3> QED
        BY <1>2, <2>1, <3>1, <3>2, <3>3
    <2>3. CASE Lone' \notin SUBSET Lone
      <3> DEFINE more == Lone \cup {inc[Consumer]}
      <3>1. ASSUME NEW i \in Incidents, i \in Lone', i \notin Lone
            PROVE  faults' = faults + 1 /\ i = inc[Consumer]
        BY <1>2, <3>1, StrandedStep DEF Alone
      <3>2. faults' = faults + 1 /\ Lone' \in SUBSET more
        BY <2>3, <3>1
      <3>3. IsFiniteSet(more) /\ Cardinality(more) \in {Cardinality(Lone), Cardinality(Lone) + 1}
        BY <1>2, FS_AddElement
      <3> HIDE DEF more
      <3>4. IsFiniteSet(Lone') /\ Cardinality(Lone') <= Cardinality(more)
        BY <3>2, <3>3, FS_Subset
      <3>5. Cardinality(Lone') \in Nat
        BY <3>4, FS_CardinalityType
      <3>6. Cardinality(Lone') <= faults'
        BY <1>2, <2>1, <3>2, <3>3, <3>4, <3>5
      <3> QED
        BY <3>4, <3>6
    <2> QED
      BY <2>2, <2>3
  <1>3. Bounded => StrandedOnlyByFaultOrSharing
    BY DEF StrandedOnlyByFaultOrSharing
  <1> HIDE DEF Bounded, Lone
  <1> QED
    BY <1>1, <1>2, <1>3, TypingInvariant, PTL DEF Spec
-----------------------------------------------------------------------------
(***************************************************************************)
(* Alerts in closed incidents.                                             *)
(***************************************************************************)

\* The mark of a close by hand stays, and an incident becomes resolved by hand or by
\* MaybeResolve of the consumer.
LEMMA CloseStep ==
    ASSUME Typing, [Next]_vars, NEW i \in Incidents
    PROVE  /\ ClosedByHand(i) => ClosedByHand(i)'
           /\ status'[i] = "resolved" =>
                 status[i] = "resolved" \/ ClosedByHand(i)' \/ (MaybeResolve /\ inc[Consumer] = i)
PROOF
  <1>0. Consumer \in Workers
    BY DEF Workers
  <1>1. CASE UNCHANGED <<status, history>>
    BY <1>1 DEF ClosedByHand
  <1>2. CASE CreateIncidentTx
    <2>1. PICK j \in Incidents : /\ status' = [status EXCEPT ![j] = "open"]
                                 /\ AppendHistory(j, "none", "open", "consumer")
      BY <1>2 DEF CreateIncidentTx
    <2>2. ClosedByHand(i) => ClosedByHand(i)'
      BY <2>1, HistoryGrows DEF Statuses
    <2> QED
      BY <2>1, <2>2 DEF Typing, TypeOK
  <1>3. CASE MaybeResolve
    BY <1>3 DEF MaybeResolve, ClosedByHand, Typing, TypeOK
  <1>4. CASE ResolvedHistory
    <2>1. inc[Consumer] \in Incidents /\ UNCHANGED status
      BY <1>0, <1>4 DEF ResolvedHistory, Typing, JobsOK, OnIncident
    <2>2. CASE AppendHistory(inc[Consumer], "open", "resolved", "consumer")
      BY <2>1, <2>2, HistoryGrows DEF Statuses
    <2>3. CASE UNCHANGED history
      BY <2>1, <2>3 DEF ClosedByHand
    <2> QED
      BY <1>4, <2>2, <2>3 DEF ResolvedHistory
  <1>5. ASSUME NEW h \in Handlers, TransitionStatus(h), UnchangedSinceRead(h)
        PROVE  /\ ClosedByHand(i) => ClosedByHand(i)'
               /\ status'[i] = "resolved" => status[i] = "resolved" \/ ClosedByHand(i)'
    <2>1. /\ inc[h] \in Incidents /\ Validate(status[inc[h]], new[h])
          /\ status' = [status EXCEPT ![inc[h]] = new[h]]
          /\ AppendHistory(inc[h], status[inc[h]], new[h], "user")
      BY <1>5, TransitionEffect
    <2>2. status[inc[h]] \in Statuses /\ new[h] \in Statuses
      BY <2>1 DEF Validate, Statuses
    <2>3. /\ ClosedByHand(i) => ClosedByHand(i)'
          /\ i = inc[h] /\ new[h] = "resolved" => ClosedByHand(i)'
      <3>1. ASSUME NEW j \in Incidents, j = inc[h], NEW s \in Statuses, s = status[inc[h]],
                   NEW t \in Statuses, t = new[h]
            PROVE  /\ ClosedByHand(i) => ClosedByHand(i)'
                   /\ i = j /\ t = "resolved" => ClosedByHand(i)'
        BY <2>1, <3>1, HistoryGrows
      <3> QED
        BY <2>1, <2>2, <3>1
    <2>4. i # inc[h] => status'[i] = status[i]
      BY <2>1 DEF Typing, TypeOK
    <2>5. i = inc[h] => status'[i] = new[h]
      BY <2>1 DEF Typing, TypeOK
    <2> QED
      BY <2>3, <2>4, <2>5
  <1> QED
    BY <1>1, <1>2, <1>3, <1>4, <1>5, StatusStep

\* The incident that was found open is resolved by the time of the attach only by hand:
\* MaybeResolve is a call of the same goroutine.
AttachClosed ==
    pc[Consumer] = "attach" /\ status[inc[Consumer]] = "resolved" => ClosedByHand(inc[Consumer])

\* Every step leaves the incident the consumer attaches to open or closed by hand.
LEMMA AttachClosedStep == Typing /\ AttachClosed /\ [Next]_vars => AttachClosed'
PROOF
  <1> SUFFICES ASSUME Typing, AttachClosed, [Next]_vars, pc'[Consumer] = "attach",
                      NEW i, i = inc'[Consumer], status'[i] = "resolved"
               PROVE  ClosedByHand(i)'
    BY DEF AttachClosed
  <1>0. Consumer \in Workers
    BY DEF Workers
  <1>1. CASE FindOpenIncidentByGroupKey
    <2>1. PICK j \in Matching(key[Consumer]) : Goto(Consumer, "attach", j, "none")
      BY <1>0, <1>1 DEF FindOpenIncidentByGroupKey, Goto, Typing, TypeOK
    <2>2. i = j /\ UNCHANGED status
      BY <1>0, <1>1, <2>1 DEF FindOpenIncidentByGroupKey, Goto, table, Typing, TypeOK
    <2> QED
      BY <2>1, <2>2 DEF Matching, Open
  <1>2. CASE pc[Consumer] = "attach" /\ inc'[Consumer] = inc[Consumer]
    <2>1. ~MaybeResolve /\ i = inc[Consumer] /\ i \in Incidents
      BY <1>0, <1>2 DEF MaybeResolve, Typing, JobsOK, OnIncident
    <2>2. ClosedByHand(i) => ClosedByHand(i)'
      BY <2>1, CloseStep
    <2>3. status[i] = "resolved" \/ ClosedByHand(i)'
      BY <2>1, CloseStep
    <2> QED
      BY <1>2, <2>1, <2>2, <2>3 DEF AttachClosed
  <1>3. ~CountFiring
    BY <1>0 DEF CountFiring, Return, Leave, Goto, Typing, TypeOK
  <1> QED
    BY <1>1, <1>2, <1>3, ConsumerStep

Buried == AttachClosed /\ CountClear /\ BuriedOnlyByHand

\* Every step buries an alert by hand only.
LEMMA BuriedStep == Typing /\ Buried /\ [Next]_vars => Buried'
PROOF
  <1> SUFFICES ASSUME Typing, Buried, [Next]_vars, NEW b \in alerts', b[4] = "firing",
                      b[3] # NoKey, NEW i, i = b[1], status'[i] = "resolved"
               PROVE  ClosedByHand(i)'
    BY AttachClosedStep, CountClearStep DEF Buried, BuriedOnlyByHand
  <1>0. Consumer \in Workers
    BY DEF Workers
  <1>1. i \in Incidents
    BY TypingStep DEF Typing, TypeOK, Alert
  <1>2. /\ ClosedByHand(i) => ClosedByHand(i)'
        /\ status[i] = "resolved" \/ ClosedByHand(i)' \/ (MaybeResolve /\ inc[Consumer] = i)
    BY <1>1, CloseStep
  <1>3. ASSUME NEW a \in alerts, SameAlert(a, b), a[4] = "firing"
        PROVE  ClosedByHand(i)'
    <2>1. a[1] = i /\ a[3] # NoKey
      BY <1>3 DEF SameAlert
    <2>2. CASE status[i] = "resolved"
      BY <1>2, <1>3, <2>1, <2>2 DEF Buried, BuriedOnlyByHand
    <2>3. CASE MaybeResolve /\ inc[Consumer] = i
      BY <1>3, <2>1, <2>3 DEF Buried, CountClear, Firing, MaybeResolve
    <2> QED
      BY <1>2, <2>2, <2>3
  <1>4. CASE CreateIncidentTx
    <2>1. PICK n \in Incidents :
             /\ status' = [status EXCEPT ![n] = "open"]
             /\ alerts' = alerts \cup {<<n, Head(queue)[2], key[Consumer], "firing">>}
      BY <1>4 DEF CreateIncidentTx
    <2>2. i # n
      BY <2>1 DEF Typing, TypeOK
    <2>3. b \in alerts
      BY <2>1, <2>2
    <2> QED
      BY <1>3, <2>3 DEF SameAlert
  <1>5. CASE AttachAlert
    <2>1. /\ pc[Consumer] = "attach" /\ UNCHANGED status
          /\ alerts' = alerts \cup {<<inc[Consumer], Head(queue)[2], key[Consumer], "firing">>}
      BY <1>5 DEF AttachAlert
    <2>2. CASE b \in alerts
      BY <1>3, <2>2 DEF SameAlert
    <2>3. CASE b \notin alerts
      <3>1. i = inc[Consumer]
        BY <2>1, <2>3
      <3> QED
        BY <1>2, <2>1, <3>1 DEF Buried, AttachClosed
    <2> QED
      BY <2>2, <2>3
  <1> QED
    BY <1>3, <1>4, <1>5, AlertsStep

\* A grouped alert that still fires lies in a closed incident only if somebody closed it
\* with a PATCH, also when the close falls between the search of handleFiring and its attach
\* or between the two statements of MaybeResolve.
THEOREM BuriedByHandOnly == Spec => []BuriedOnlyByHand
PROOF
  <1>1. Init => Buried
    <2>1. Consumer \in Workers
      BY DEF Workers
    <2> QED
      BY <2>1 DEF Init, Buried, AttachClosed, CountClear, BuriedOnlyByHand
  <1>2. Buried => BuriedOnlyByHand
    BY DEF Buried
  <1> QED
    BY <1>1, <1>2, BuriedStep, TypingInvariant, PTL DEF Spec
-----------------------------------------------------------------------------
(***************************************************************************)
(* The history and the events.                                             *)
(***************************************************************************)

\* The calls after the status of an incident has been written.
Reporting == {"getCreated", "publishCreated", "history", "getUpdated", "publishUpdated"}

Unmoved(w) == pc'[w] = pc[w] /\ inc'[w] = inc[w] /\ new'[w] = new[w]

\* A worker that has written a status stays on the way to its event.
LEMMA ReportingStep ==
    ASSUME Typing, [Next]_vars, faults' = 0, NEW w \in Workers, pc[w] \in Reporting
    PROVE  \/ Unmoved(w)
           \/ w = Consumer /\ (GetCreated \/ PublishCreated \/ ResolvedHistory \/ GetUpdated)
           \/ PublishUpdated(w)
PROOF
  <1> SUFFICES ASSUME ~(w = Consumer /\ (GetCreated \/ PublishCreated \/ ResolvedHistory \/ GetUpdated)),
                      ~PublishUpdated(w)
               PROVE  Unmoved(w)
    OBVIOUS
  <1>0. Consumer \in Workers /\ \A h \in Handlers : h \in Workers /\ h # Consumer
    BY WorkersAssumption DEF Workers
  <1>1. ASSUME NEW v \in Workers, v # w, NEW l, NEW i, NEW s, Goto(v, l, i, s) \/ Leave(v, l)
        PROVE  Unmoved(w)
    BY <1>1 DEF Goto, Leave, Unmoved, Typing, TypeOK
  <1>2. ASSUME NEW v \in Workers, v # w, Return(v)
        PROVE  Unmoved(w)
    BY <1>1, <1>2 DEF Return
  <1>3. CASE w = Consumer /\ Consume
    BY <1>3 DEF Consume, ReceiveFiring, FindOpenIncidentByGroupKey, CreateIncidentTx, AttachAlert,
       ReceiveResolved, CountFiring, MaybeResolve, Ack, Idle, Reporting
  <1>4. CASE w # Consumer /\ Consume
    <2>1. CASE ReceiveFiring
      BY <1>0, <1>4, <2>1 DEF ReceiveFiring, Unmoved, Typing, TypeOK
    <2>2. CASE FindOpenIncidentByGroupKey \/ CreateIncidentTx \/ MaybeResolve \/ ResolvedHistory
      BY <1>0, <1>1, <1>4, <2>2 DEF FindOpenIncidentByGroupKey, CreateIncidentTx, MaybeResolve,
         ResolvedHistory
    <2>3. CASE AttachAlert \/ GetCreated \/ PublishCreated \/ GetUpdated \/ PublishUpdated(Consumer)
      BY <1>0, <1>1, <1>2, <1>4, <2>3 DEF AttachAlert, GetCreated, PublishCreated, GetUpdated,
         PublishUpdated
    <2>4. CASE ReceiveResolved \/ CountFiring \/ Ack
      BY <1>0, <1>1, <1>2, <1>4, <2>4 DEF ReceiveResolved, CountFiring, Ack
    <2> QED
      BY <1>4, <2>1, <2>2, <2>3, <2>4 DEF Consume
  <1>5. ASSUME NEW h \in Handlers, Handle(h)
        PROVE  Unmoved(w)
    <2>1. h # w
      BY <1>5 DEF Handle, TransitionStatus, Reporting
    <2> QED
      BY <1>0, <1>1, <1>2, <1>5, <2>1 DEF Handle, TransitionStatus, PublishUpdated
  <1>6. ASSUME NEW h \in Handlers, NEW i \in Incidents, NEW s \in Statuses, PatchStatus(h, i, s)
        PROVE  Unmoved(w)
    <2>1. h # w
      BY <1>6 DEF PatchStatus, Idle, Reporting
    <2> QED
      BY <1>0, <1>6, <2>1 DEF PatchStatus, Unmoved, Typing, TypeOK
  <1>7. CASE \/ \E i \in Incidents, f \in Fingerprints : AttachByHand(i, f)
             \/ \E r \in Rules : PutGroupingRule(r)
             \/ DeleteGroupingRule
             \/ \E m \in Message : AlertReceived(m)
             \/ UNCHANGED vars
    BY <1>7 DEF AttachByHand, PutGroupingRule, DeleteGroupingRule, AlertReceived, vars, jobs, Unmoved
  <1> QED
    BY <1>3, <1>4, <1>5, <1>6, <1>7, NoFaultBefore DEF Next

\* An event is never taken back.
LEMMA EventsGrow ==
    ASSUME Typing, Typing', [Next]_vars, NEW k \in DOMAIN events
    PROVE  k \in DOMAIN events' /\ events'[k] = events[k]
PROOF
  <1>1. CASE UNCHANGED events
    BY <1>1
  <1>2. ASSUME NEW e, events' = Append(events, e)
        PROVE  k \in DOMAIN events' /\ events'[k] = events[k]
    BY <1>2 DEF Typing, TypeOK
  <1> QED
    BY <1>1, <1>2 DEF Next, Consume, Handle, ReceiveFiring, FindOpenIncidentByGroupKey,
       CreateIncidentTx, AttachAlert, GetCreated, PublishCreated, ReceiveResolved, CountFiring,
       MaybeResolve, ResolvedHistory, GetUpdated, PublishUpdated, Ack, TransitionStatus,
       PatchStatus, AttachByHand, PutGroupingRule, DeleteGroupingRule, HandlerError, Crash,
       AlertReceived, Publish, vars

\* A published event is among the events.
LEMMA PublishAppends ==
    ASSUME Typing, NEW type, NEW i, NEW s, Publish(type, i, s)
    PROVE  \E k \in DOMAIN events' : events'[k][2] = i /\ events'[k][3] = s
PROOF
  <1> DEFINE e == <<type, i, s>>
  <1>1. events' = Append(events, e) /\ events \in Seq(Event)
    BY DEF Publish, Typing, TypeOK
  <1>2. e[2] = i /\ e[3] = s
    OBVIOUS
  <1> HIDE DEF e
  <1>3. Len(events) + 1 \in DOMAIN events' /\ events'[Len(events) + 1] = e
    BY <1>1
  <1> QED
    BY <1>2, <1>3

\* Before the entry of an automatic close is appended, the incident is closed or somebody
\* reopened it.
EntryPending ==
    pc[Consumer] = "history" =>
        status[inc[Consumer]] = "resolved" \/ Reopened(inc[Consumer])

\* The consumer comes to the entry of an automatic close from the UPDATE of MaybeResolve.
LEMMA EntryStep ==
    ASSUME Typing, [Next]_vars, pc'[Consumer] = "history"
    PROVE  MaybeResolve \/ (pc[Consumer] = "history" /\ inc'[Consumer] = inc[Consumer])
PROOF
  <1> DEFINE Stays == pc[Consumer] = "history" /\ inc'[Consumer] = inc[Consumer]
  <1>0. Consumer \in Workers /\ \A h \in Handlers : h \in Workers /\ h # Consumer
    BY WorkersAssumption DEF Workers
  <1>1. ASSUME NEW w \in Workers, NEW l \in PCs \ {"history"}, NEW i, NEW s, Goto(w, l, i, s) \/ Leave(w, l)
        PROVE  Stays
    BY <1>0, <1>1 DEF Goto, Leave, Typing, TypeOK
  <1>2. ASSUME NEW w \in Workers, Return(w)
        PROVE  Stays
    BY <1>1, <1>2 DEF Return, PCs
  <1>3. ASSUME NEW w \in Workers, NEW l \in {"find", "transition"}, pc' = [pc EXCEPT ![w] = l],
               \A v \in Workers : v # w => inc'[v] = inc[v]
        PROVE  Stays
    BY <1>0, <1>3 DEF Typing, TypeOK
  <1>4. ASSUME UNCHANGED jobs
        PROVE  Stays
    BY <1>4 DEF jobs
  <1> SUFFICES MaybeResolve \/ Stays
    OBVIOUS
  <1> HIDE DEF Stays
  <1>5. CASE ReceiveFiring
    BY <1>0, <1>3, <1>5 DEF ReceiveFiring
  <1>6. CASE FindOpenIncidentByGroupKey
    BY <1>0, <1>1, <1>6 DEF FindOpenIncidentByGroupKey, PCs
  <1>7. CASE CreateIncidentTx \/ ResolvedHistory
    BY <1>0, <1>1, <1>7 DEF CreateIncidentTx, ResolvedHistory, PCs
  <1>8. CASE AttachAlert \/ GetCreated \/ PublishCreated \/ GetUpdated
    BY <1>0, <1>1, <1>2, <1>8 DEF AttachAlert, GetCreated, PublishCreated, GetUpdated, PCs
  <1>9. CASE ReceiveResolved \/ CountFiring \/ Ack
    BY <1>0, <1>1, <1>2, <1>9 DEF ReceiveResolved, CountFiring, Ack, PCs
  <1>10. ASSUME NEW w \in Workers, PublishUpdated(w) \/ HandlerError(w) \/ Crash(w)
         PROVE  Stays
    BY <1>0, <1>1, <1>2, <1>10 DEF PublishUpdated, HandlerError, Crash, PCs
  <1>11. ASSUME NEW h \in Handlers, TransitionStatus(h)
         PROVE  Stays
    BY <1>0, <1>1, <1>2, <1>11 DEF TransitionStatus, PCs
  <1>12. ASSUME NEW h \in Handlers, NEW i \in Incidents, NEW s \in Statuses, PatchStatus(h, i, s)
         PROVE  Stays
    <2>1. /\ pc' = [pc EXCEPT ![h] = "transition"] /\ \A v \in Workers : v # h => inc'[v] = inc[v]
      BY <1>0, <1>12 DEF PatchStatus, Typing, TypeOK
    <2> QED
      BY <1>0, <1>3, <2>1
  <1>13. CASE \/ \E i \in Incidents, f \in Fingerprints : AttachByHand(i, f)
              \/ \E r \in Rules : PutGroupingRule(r)
              \/ DeleteGroupingRule
              \/ \E m \in Message : AlertReceived(m)
              \/ UNCHANGED vars
    BY <1>4, <1>13 DEF AttachByHand, PutGroupingRule, DeleteGroupingRule, AlertReceived, vars
  <1> QED
    BY <1>0, <1>5, <1>6, <1>7, <1>8, <1>9, <1>10, <1>11, <1>12, <1>13 DEF Next, Consume, Handle

\* Every step leaves the entry that is pending in order.
LEMMA EntryPendingStep == Typing /\ EntryPending /\ [Next]_vars => EntryPending'
PROOF
  <1> SUFFICES ASSUME Typing, EntryPending, [Next]_vars, pc'[Consumer] = "history",
                      NEW i, i = inc'[Consumer]
               PROVE  status'[i] = "resolved" \/ Reopened(i)'
    BY DEF EntryPending
  <1>0. Consumer \in Workers
    BY DEF Workers
  <1>1. i \in Incidents /\ Typing'
    BY <1>0, TypingStep DEF Typing, JobsOK, OnIncident
  <1>2. CASE MaybeResolve
    BY <1>0, <1>1, <1>2 DEF MaybeResolve, Goto, Typing, TypeOK
  <1>3. CASE pc[Consumer] = "history" /\ inc'[Consumer] = inc[Consumer]
    <2>1. status'[i] \in Statuses
      BY <1>0, <1>1 DEF Typing, TypeOK, JobsOK, OnIncident
    <2>2. status[i] = "resolved" \/ Reopened(i)
      BY <1>3 DEF EntryPending
    <2>3. CASE Open(i)'
      <3>1. ~CreateIncidentTx
        BY <1>3 DEF CreateIncidentTx
      <3> QED
        BY <1>1, <2>2, <2>3, <3>1, OpenStep DEF Open
    <2>4. CASE ~(Open(i)')
      BY <2>1, <2>4 DEF Open, Statuses
    <2> QED
      BY <2>3, <2>4
  <1> QED
    BY <1>2, <1>3, EntryStep

\* The last entry of an incident follows its status.
LEMMA RecordedStep ==
    ASSUME Typing, EntryPending, [Next]_vars, faults' = 0, NEW i \in Incidents, Exists(i),
           Recorded(i)
    PROVE  Recorded(i)'
PROOF
  <1>0. Consumer \in Workers /\ \A h \in Handlers : h \in Workers /\ h # Consumer
    BY WorkersAssumption DEF Workers
  <1>1. ASSUME status'[i] = status[i], history'[i] = history[i], ~ResolvedHistory
        PROVE  Recorded(i)'
    <2>1. CASE inc[Consumer] = i /\ pc[Consumer] = "history"
      <3>1. Unmoved(Consumer)
        BY <1>0, <1>1, <2>1, ReportingStep DEF Reporting, GetCreated, PublishCreated, GetUpdated,
           PublishUpdated
      <3> QED
        BY <2>1, <3>1 DEF Recorded, Unmoved
    <2>2. CASE ~(inc[Consumer] = i /\ pc[Consumer] = "history")
      BY <1>1, <2>2 DEF Recorded, LastEntry, Reopened
    <2> QED
      BY <2>1, <2>2
  <1>2. CASE UNCHANGED <<status, history>> /\ ~ResolvedHistory
    BY <1>1, <1>2
  <1>3. CASE CreateIncidentTx
    <2>1. PICK n \in Incidents : /\ status[n] = "none" /\ status' = [status EXCEPT ![n] = "open"]
                                 /\ AppendHistory(n, "none", "open", "consumer")
      BY <1>3 DEF CreateIncidentTx, Exists
    <2>2. history'[i] = history[i]
      BY <2>1, HistoryGrows DEF Statuses, Exists
    <2>3. ~ResolvedHistory
      BY <1>3 DEF CreateIncidentTx, ResolvedHistory
    <2> QED
      BY <1>1, <2>1, <2>2, <2>3 DEF Exists, Typing, TypeOK
  <1>4. CASE MaybeResolve
    <2>1. ~ResolvedHistory /\ UNCHANGED history
      BY <1>4 DEF MaybeResolve, ResolvedHistory
    <2>2. CASE inc[Consumer] = i
      BY <1>0, <1>4, <2>2 DEF MaybeResolve, Goto, Recorded, Typing, TypeOK
    <2>3. CASE inc[Consumer] # i
      BY <1>1, <1>4, <2>1, <2>3 DEF MaybeResolve, Typing, TypeOK
    <2> QED
      BY <2>2, <2>3
  <1>5. CASE ResolvedHistory
    <2>1. /\ pc[Consumer] = "history" /\ inc[Consumer] \in Incidents /\ UNCHANGED status
          /\ AppendHistory(inc[Consumer], "open", "resolved", "consumer")
      BY <1>0, <1>5 DEF ResolvedHistory, Typing, TypeOK, JobsOK, OnIncident, Fault
    <2>2. PICK c \in Incidents : c = inc[Consumer]
      BY <2>1
    <2>3. AppendHistory(c, "open", "resolved", "consumer")
      BY <2>1, <2>2
    <2>4. /\ Reopened(i) => Reopened(i)'
          /\ LastEntry(c)' = <<"open", "resolved", "consumer">>
          /\ i # c => history'[i] = history[i]
      BY <2>3, HistoryGrows DEF Statuses
    <2>5. CASE i = c
      BY <2>1, <2>2, <2>4, <2>5 DEF Recorded, EntryPending, LastEntry
    <2>6. CASE i # c
      BY <2>1, <2>2, <2>4, <2>6 DEF Recorded, LastEntry
    <2> QED
      BY <2>5, <2>6
  <1>6. ASSUME NEW h \in Handlers, TransitionStatus(h), UnchangedSinceRead(h)
        PROVE  Recorded(i)'
    <2>1. /\ inc[h] \in Incidents /\ Validate(status[inc[h]], new[h])
          /\ status' = [status EXCEPT ![inc[h]] = new[h]]
          /\ AppendHistory(inc[h], status[inc[h]], new[h], "user")
          /\ pc'[Consumer] = pc[Consumer] /\ inc'[Consumer] = inc[Consumer]
      BY <1>6, TransitionEffect
    <2>2. status[inc[h]] \in Statuses /\ new[h] \in Statuses
      BY <2>1 DEF Validate, Statuses
    <2>3. PICK j \in Incidents, s \in Statuses, t \in Statuses :
             j = inc[h] /\ s = status[inc[h]] /\ t = new[h]
      BY <2>1, <2>2
    <2>4. AppendHistory(j, s, t, "user")
      BY <2>1, <2>3
    <2>5. /\ Reopened(i) => Reopened(i)'
          /\ LastEntry(j)' = <<s, t, "user">>
          /\ i # j => history'[i] = history[i]
      BY <2>4, HistoryGrows
    <2>6. CASE i = j
      <3>1. status'[i] = t
        BY <2>1, <2>3, <2>6 DEF Typing, TypeOK
      <3> QED
        BY <2>5, <2>6, <3>1 DEF Recorded, LastEntry
    <2>7. CASE i # j
      <3>1. status'[i] = status[i]
        BY <2>1, <2>3, <2>7 DEF Typing, TypeOK
      <3> QED
        BY <2>1, <2>5, <2>7, <3>1 DEF Recorded, LastEntry
    <2> QED
      BY <2>6, <2>7
  <1> QED
    BY <1>2, <1>3, <1>4, <1>5, <1>6, StatusStep

\* The status of an incident stays announced, or on its way.
LEMMA AnnouncedStep ==
    ASSUME Typing, Typing', [Next]_vars, faults' = 0, NEW i \in Incidents, Exists(i), Announced(i)
    PROVE  Announced(i)'
PROOF
  <1>0. Consumer \in Workers /\ \A h \in Handlers : h \in Workers /\ h # Consumer
    BY WorkersAssumption DEF Workers
  <1>1. ASSUME status'[i] = status[i]
        PROVE  Announced(i)'
    <2>1. ASSUME NEW k \in DOMAIN events, events[k][2] = i, events[k][3] = status[i]
          PROVE  Announced(i)'
      <3>1. k \in DOMAIN events' /\ events'[k] = events[k]
        BY <2>1, EventsGrow
      <3> QED
        BY <1>1, <2>1, <3>1 DEF Announced
    <2>2. ASSUME NEW type, Publish(type, i, status[i])
          PROVE  Announced(i)'
      BY <1>1, <2>2, PublishAppends DEF Announced
    <2>3. ASSUME NEW w \in Workers, inc[w] = i, new[w] = status[i],
                 pc[w] \in {"publishCreated", "publishUpdated"}
          PROVE  Announced(i)'
      <3>1. CASE Unmoved(w)
        BY <1>1, <2>3, <3>1 DEF Announced, Unmoved
      <3>2. CASE w = Consumer /\ PublishCreated
        <4>1. Publish("created", i, status[i])
          BY <2>3, <3>2 DEF PublishCreated, Fault, Typing, TypeOK
        <4> QED
          BY <2>2, <4>1
      <3>3. CASE PublishUpdated(w)
        <4>1. Publish("updated", i, status[i])
          BY <2>3, <3>3 DEF PublishUpdated, Fault, Typing, TypeOK
        <4> QED
          BY <2>2, <4>1
      <3>4. ~(w = Consumer /\ (GetCreated \/ ResolvedHistory \/ GetUpdated))
        BY <2>3 DEF GetCreated, ResolvedHistory, GetUpdated
      <3> QED
        BY <2>3, <3>1, <3>2, <3>3, <3>4, ReportingStep DEF Reporting
    <2>4. CASE inc[Consumer] = i /\ pc[Consumer] \in {"getCreated", "history", "getUpdated"}
      <3>1. CASE Unmoved(Consumer)
        BY <2>4, <3>1 DEF Announced, Unmoved
      <3>2. CASE GetCreated
        <4>1. Goto(Consumer, "publishCreated", i, status[i])
          BY <2>4, <3>2 DEF GetCreated, Fault, Typing, TypeOK
        <4>2. pc'[Consumer] = "publishCreated" /\ inc'[Consumer] = i /\ new'[Consumer] = status[i]
          BY <1>0, <4>1 DEF Goto, Typing, TypeOK
        <4> QED
          BY <1>0, <1>1, <4>2 DEF Announced
      <3>3. CASE GetUpdated
        <4>1. Goto(Consumer, "publishUpdated", i, status[i])
          BY <2>4, <3>3 DEF GetUpdated, Fault, Typing, TypeOK
        <4>2. pc'[Consumer] = "publishUpdated" /\ inc'[Consumer] = i /\ new'[Consumer] = status[i]
          BY <1>0, <4>1 DEF Goto, Typing, TypeOK
        <4> QED
          BY <1>0, <1>1, <4>2 DEF Announced
      <3>4. CASE ResolvedHistory
        <4>1. pc'[Consumer] = "getUpdated" /\ inc'[Consumer] = i
          BY <1>0, <2>4, <3>4 DEF ResolvedHistory, Goto, Typing, TypeOK
        <4> QED
          BY <4>1 DEF Announced
      <3>5. ~PublishCreated /\ ~PublishUpdated(Consumer)
        BY <2>4 DEF PublishCreated, PublishUpdated
      <3> QED
        BY <1>0, <2>4, <3>1, <3>2, <3>3, <3>4, <3>5, ReportingStep DEF Reporting
    <2> QED
      BY <2>1, <2>3, <2>4 DEF Announced
  <1>2. CASE UNCHANGED status
    BY <1>1, <1>2
  <1>3. CASE CreateIncidentTx
    BY <1>1, <1>3 DEF CreateIncidentTx, Exists, Typing, TypeOK
  <1>4. CASE MaybeResolve
    <2>1. CASE inc[Consumer] = i
      <3>1. pc'[Consumer] = "history" /\ inc'[Consumer] = i
        BY <1>0, <1>4, <2>1 DEF MaybeResolve, Goto, Typing, TypeOK
      <3> QED
        BY <3>1 DEF Announced
    <2>2. CASE inc[Consumer] # i
      BY <1>1, <1>4, <2>2 DEF MaybeResolve, Typing, TypeOK
    <2> QED
      BY <2>1, <2>2
  <1>5. ASSUME NEW h \in Handlers, TransitionStatus(h), UnchangedSinceRead(h)
        PROVE  Announced(i)'
    <2>1. inc[h] \in Incidents /\ status' = [status EXCEPT ![inc[h]] = new[h]]
      BY <1>5, TransitionEffect
    <2>2. CASE inc[h] = i
      <3>1. status'[i] = new[h]
        BY <2>1, <2>2 DEF Typing, TypeOK
      <3>2. pc'[h] = "publishUpdated" /\ inc'[h] = i /\ new'[h] = new[h]
        BY <1>0, <1>5, <2>2 DEF TransitionStatus, Goto, Typing, TypeOK
      <3> QED
        BY <1>0, <3>1, <3>2 DEF Announced
    <2>3. CASE inc[h] # i
      BY <1>1, <2>1, <2>3 DEF Typing, TypeOK
    <2> QED
      BY <2>2, <2>3
  <1> QED
    BY <1>2, <1>3, <1>4, <1>5, StatusStep DEF ResolvedHistory

\* Every step without a fault leaves the statuses on record.
LEMMA StatusOnRecordStep ==
    Typing /\ EntryPending /\ StatusOnRecord /\ [Next]_vars => StatusOnRecord'
PROOF
  <1> SUFFICES ASSUME Typing, EntryPending, StatusOnRecord, [Next]_vars, faults' = 0,
                      NEW i \in Incidents, status'[i] # "none"
               PROVE  Recorded(i)' /\ Announced(i)'
    BY DEF StatusOnRecord, Exists
  <1>0. Consumer \in Workers
    BY DEF Workers
  <1>1. Typing' /\ faults = 0
    BY TypingStep, NoFaultBefore
  <1>2. CASE Exists(i)
    <2>1. Recorded(i) /\ Announced(i)
      BY <1>1, <1>2 DEF StatusOnRecord
    <2> QED
      BY <1>1, <1>2, <2>1, RecordedStep, AnnouncedStep
  <1>3. CASE ~Exists(i)
    <2>1. ~(\E h \in Handlers : TransitionStatus(h) /\ UnchangedSinceRead(h))
      <3> SUFFICES ASSUME NEW h \in Handlers, TransitionStatus(h), UnchangedSinceRead(h)
                   PROVE  FALSE
        OBVIOUS
      <3>1. /\ inc[h] \in Incidents /\ Validate(status[inc[h]], new[h])
            /\ status' = [status EXCEPT ![inc[h]] = new[h]]
        BY TransitionEffect
      <3>2. inc[h] # i
        BY <1>3, <3>1 DEF Exists, Validate
      <3> QED
        BY <1>3, <3>1, <3>2 DEF Exists, Typing, TypeOK
    <2>2. ~MaybeResolve /\ ~ResolvedHistory /\ ~UNCHANGED <<status, history>>
      BY <1>0, <1>3 DEF MaybeResolve, ResolvedHistory, Exists, Typing, TypeOK, JobsOK, OnIncident
    <2>3. CreateIncidentTx
      BY <2>1, <2>2, StatusStep
    <2>4. PICK n \in Incidents :
             /\ status' = [status EXCEPT ![n] = "open"]
             /\ AppendHistory(n, "none", "open", "consumer")
             /\ Goto(Consumer, "getCreated", n, "none")
      BY <2>3 DEF CreateIncidentTx
    <2>5. n = i
      BY <1>3, <2>4 DEF Exists, Typing, TypeOK
    <2>6. LastEntry(i)' = <<"none", "open", "consumer">>
      BY <2>4, <2>5, HistoryGrows DEF Statuses
    <2>7. status'[i] = "open" /\ pc'[Consumer] = "getCreated" /\ inc'[Consumer] = i
      BY <1>0, <2>4, <2>5 DEF Goto, Typing, TypeOK
    <2> QED
      BY <2>6, <2>7 DEF Recorded, Announced, LastEntry
  <1> QED
    BY <1>2, <1>3

\* Unless something failed, the last entry of an incident's history is its status and an
\* event has announced it, or the worker that changed it is about to write them; the one
\* exception is the entry of an automatic close that comes in behind a reopening.
THEOREM StatusIsOnRecord == Spec => []StatusOnRecord
PROOF
  <1>1. Init => EntryPending /\ StatusOnRecord
    <2>1. Consumer \in Workers
      BY DEF Workers
    <2> QED
      BY <2>1 DEF Init, EntryPending, StatusOnRecord, Exists
  <1> QED
    BY <1>1, EntryPendingStep, StatusOnRecordStep, TypingInvariant, PTL DEF Spec
===============================================================================
