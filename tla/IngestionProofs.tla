-------------------------- MODULE IngestionProofs --------------------------
(***************************************************************************)
(* Proofs about Ingestion, for any label sets, payloads and number of      *)
(* requests and without the bounds of the TLC runs.                        *)
(***************************************************************************)
EXTENDS Ingestion, FiniteSetTheorems, TLAPS

(***************************************************************************)
(* What a request knows of its batch.                                      *)
(***************************************************************************)

Tables == dup \in [Requests -> SUBSET Nat] /\ todo \in [Requests -> SUBSET Nat]

Typing == TypeOK /\ Tables

\* Normalisation makes alerts of what a webhook may contain.
LEMMA NormalizeOK == ASSUME NEW p \in Payloads PROVE Normalize(p) \in Seq(Alert)
PROOF
  <1> DEFINE n == Len(p[2])
             status(k) == IF p[1] = "alertmanager" THEN amStatus(p[2][k][1])
                          ELSE grafanaStatus(p[2][k][1])
  <1>1. /\ p[1] \in Sources /\ n \in Nat /\ DOMAIN p[2] = 1 .. n
        /\ \A k \in 1 .. n : p[2][k][2] \in Labels
    <2>1. CASE p[1] = "alertmanager" /\ p[2] \in Seq(AlertmanagerStates \X Labels) \ {<<>>}
      BY <2>1 DEF Sources
    <2>2. CASE p[1] = "grafana" /\ \E s \in GrafanaStates, l \in Labels : p[2] = <<<<s, l>>>>
      BY <2>2 DEF Sources
    <2> QED
      BY <2>1, <2>2, PayloadsAssumption
  <1>2. \A k \in 1 .. n : status(k) \in {"firing", "resolved"}
    BY DEF amStatus, grafanaStatus
  <1>3. Normalize(p) = [k \in 1 .. n |-> <<status(k), <<p[2][k][2], p[1]>>>>]
    BY <1>1 DEF Normalize
  <1> HIDE DEF n, status
  <1>4. \A k \in 1 .. n : <<status(k), <<p[2][k][2], p[1]>>>> \in Alert
    BY <1>1, <1>2 DEF Alert, Fingerprint
  <1> QED
    BY <1>1, <1>3, <1>4

\* The Boolean column of the audit table.
LEMMA RowsTyped ==
    ASSUME Typing, NEW r \in Requests
    PROVE  Rows(r) \subseteq {"firing", "resolved"} \X Fingerprint \X BOOLEAN
PROOF
  <1> SUFFICES ASSUME NEW k \in DOMAIN body[r]
               PROVE  <<body[r][k][1], body[r][k][2], k \in dup[r]>>
                          \in {"firing", "resolved"} \X Fingerprint \X BOOLEAN
    BY Zenon DEF Rows
  <1>1. body[r][k][1] \in {"firing", "resolved"} /\ body[r][k][2] \in Fingerprint
    BY DEF Typing, TypeOK, Alert
  <1>2. (k \in dup[r]) \in BOOLEAN
    OBVIOUS
  <1> QED
    BY <1>1, <1>2, Zenon

\* A counter per key stays one when an entry is set.
LEMMA EntryChanged ==
    ASSUME NEW F, NEW m \in [F -> Nat], NEW f, NEW n \in Nat
    PROVE  [m EXCEPT ![f] = n] \in [F -> Nat]
PROOF
  OBVIOUS

\* Every step of a request, and an expiry, keeps the shape of the state.
LEMMA TypingStep == Typing /\ [Next]_vars => Typing'
PROOF
  <1> SUFFICES ASSUME Typing, [Next]_vars
               PROVE  Typing'
    OBVIOUS
  <1> USE DEF Typing, TypeOK, Tables, redis, jobs, history, counters, PCs
  <1>1. ASSUME NEW r \in Requests, NEW p \in Payloads, Webhook(r, p)
        PROVE  Typing'
    <2> DEFINE b == Normalize(p)
    <2>1. b \in Seq(Alert) /\ DOMAIN b \subseteq Nat
      BY NormalizeOK
    <2> HIDE DEF b
    <2>2. /\ pc' = [pc EXCEPT ![r] = "classify"] /\ body' = [body EXCEPT ![r] = b]
          /\ dup' = [dup EXCEPT ![r] = {}] /\ todo' = [todo EXCEPT ![r] = DOMAIN b]
          /\ webhooks' = webhooks + 1
          /\ UNCHANGED <<keys, mark, grants, audit, published, history, failures, faults>>
      BY <1>1 DEF Webhook, b
    <2>3. Tables' /\ body' \in [Requests -> Seq(Alert)]
      BY <2>1, <2>2
    <2>4. \A q \in Requests :
             /\ dup'[q] \in SUBSET {k \in DOMAIN body'[q] : body'[q][k][1] = "firing"}
             /\ todo'[q] \in SUBSET DOMAIN body'[q]
      BY <2>2
    <2> QED
      BY <2>2, <2>3, <2>4
  <1>2. ASSUME NEW r \in Requests, Apply(r)
        PROVE  Typing'
    <2>1. PICK k \in Command(r) : Apply(r)!(k)
      BY <1>2 DEF Apply
    <2>2. k \in todo[r] /\ k \in DOMAIN body[r] /\ k \in Nat
      BY DEF Command, Firing, First
    <2>3. body[r][k][2] \in Fingerprint
      BY <2>2 DEF Alert
    <2>4. mark' \in [Fingerprint -> Nat] /\ grants' \in [Fingerprint -> Nat]
      <3> HIDE DEF Typing, TypeOK, Tables
      <3> DEFINE f == body[r][k][2]
      <3>1. /\ mark' = mark \/ mark' = [mark EXCEPT ![f] = Len(published)]
            /\ grants' = grants \/ grants' = [grants EXCEPT ![f] = grants[f] + 1]
        BY <2>1
      <3>2. mark \in [Fingerprint -> Nat] /\ grants \in [Fingerprint -> Nat]
        BY DEF Typing, TypeOK
      <3>3. Len(published) \in Nat
        BY DEF Typing, TypeOK
      <3>4. grants[f] + 1 \in Nat
        BY <2>3, <3>2
      <3> HIDE DEF f
      <3> QED
        BY <3>1, <3>2, <3>3, <3>4, EntryChanged
    <2>5. CASE body[r][k][1] = "firing"
      <3>1. Duplicate(r, k) \subseteq {j \in DOMAIN body[r] : body[r][j][1] = "firing"}
        BY <2>2, <2>5 DEF Duplicate
      <3>2. dup' = [dup EXCEPT ![r] = @ \cup Duplicate(r, k)] /\ keys' = keys \cup {body[r][k][2]}
        BY <2>1, <2>5
      <3>3. dup' \in [Requests -> SUBSET Nat]
        BY <3>1, <3>2
      <3>4. \A q \in Requests : dup'[q] \subseteq {j \in DOMAIN body[q] : body[q][j][1] = "firing"}
        BY <3>1, <3>2
      <3> QED
        BY <2>1, <2>2, <2>3, <2>4, <3>2, <3>3, <3>4
    <2>6. CASE body[r][k][1] # "firing"
      BY <2>1, <2>2, <2>3, <2>4, <2>6
    <2> QED
      BY <2>5, <2>6
  <1>3. ASSUME NEW r \in Requests, ClassifyError(r)
        PROVE  Typing'
    BY <1>3 DEF ClassifyError, Fault
  <1>4. ASSUME NEW r \in Requests, SaveRawAlerts(r)
        PROVE  Typing'
    <2>1. audit' \subseteq {"firing", "resolved"} \X Fingerprint \X BOOLEAN
      BY <1>4, RowsTyped, Zenon DEF SaveRawAlerts
    <2>2. DOMAIN body[r] \subseteq Nat
      OBVIOUS
    <2> QED
      BY <1>4, <2>1, <2>2 DEF SaveRawAlerts, Fault
  <1>5. ASSUME NEW r \in Requests, PublishAlertPayload(r)
        PROVE  Typing'
    BY <1>5 DEF PublishAlertPayload, First
  <1>6. ASSUME NEW r \in Requests, Answer(r)
        PROVE  Typing'
    <2>1. {body[r][k][2] : k \in dup[r]} \subseteq Fingerprint
      BY DEF Alert
    <2> QED
      BY <1>6, <2>1 DEF Answer, Leave
  <1>7. ASSUME NEW r \in Requests, PublishFails(r)
        PROVE  Typing'
    <2>1. \A k \in todo[r] : body[r][k][2] \in Fingerprint
      BY DEF Alert
    <2> QED
      BY <1>7, <2>1 DEF PublishFails
  <1>8. ASSUME NEW r \in Requests, Clear(r)
        PROVE  Typing'
    <2>1. Released(r) \subseteq Fingerprint
      BY DEF Released, First, Alert
    <2> QED
      BY <1>8, <2>1 DEF Clear, Leave
  <1>9. ASSUME NEW f \in Fingerprint, Expire(f)
        PROVE  Typing'
    BY <1>9 DEF Expire
  <1>10. ASSUME NEW r \in Requests, Crash(r)
         PROVE  Typing'
    BY <1>10 DEF Crash, Leave, Fault
  <1>11. CASE UNCHANGED vars
    BY <1>11 DEF vars
  <1> QED
    BY <1>1, <1>2, <1>3, <1>4, <1>5, <1>6, <1>7, <1>8, <1>9, <1>10, <1>11
    DEF Next, processAlerts

\* The shape of the state, in every behaviour.
LEMMA TypingInvariant == Spec => []Typing
PROOF
  <1>1. Init => Typing
    BY DEF Init, Typing, TypeOK, Tables, PCs
  <1> QED
    BY <1>1, TypingStep, PTL DEF Spec

\* Every variable keeps the shape Redis, the table and the requests have, for any
\* batches and any number of concurrent requests; a resolved alert is never marked as
\* a duplicate.
THEOREM IngestionTypeCorrect == Spec => []TypeOK
PROOF
  <1>1. Typing => TypeOK
    BY DEF Typing
  <1> QED
    BY <1>1, TypingInvariant, PTL

(***************************************************************************)
(* The audit table.                                                        *)
(***************************************************************************)

\* What a request has still to publish is not suppressed and is in the table.
Row(a) == <<a[1], a[2], FALSE>>
SavedFirst ==
    /\ \A r \in Requests : todo[r] \cap dup[r] = {}
    /\ faults = 0 => \A r \in Requests :
          pc[r] \in {"publish", "clear"} => \A k \in todo[r] : Row(body[r][k]) \in audit

\* An alert of the batch that is not a duplicate has its row among those inserted.
LEMMA RowSaved ==
    ASSUME Typing, NEW r \in Requests, NEW k \in DOMAIN body[r] \ dup[r]
    PROVE  Row(body[r][k]) \in Rows(r)
PROOF
  <1>1. (k \in dup[r]) = FALSE
    OBVIOUS
  <1>2. <<body[r][k][1], body[r][k][2], k \in dup[r]>> \in Rows(r)
    BY Zenon DEF Rows
  <1> QED
    BY <1>1, <1>2, Zenon DEF Row

\* The save comes before the publishing, and a request publishes what it saved.
LEMMA AuditStep ==
    ASSUME Typing, SavedFirst, AuditedWhenPublished, [Next]_vars
    PROVE  SavedFirst' /\ AuditedWhenPublished'
PROOF
  <1> DEFINE Goal == SavedFirst /\ AuditedWhenPublished
  <1> USE DEF redis, jobs, history, counters
  <1>0. Typing'
    BY TypingStep
  <1>1. ASSUME NEW r \in Requests, NEW p \in Payloads, Webhook(r, p)
        PROVE  Goal'
    BY <1>1 DEF Webhook, Typing, TypeOK, Tables, SavedFirst, AuditedWhenPublished
  <1>2. ASSUME NEW r \in Requests, Apply(r)
        PROVE  Goal'
    <2>1. PICK k \in Command(r) : Apply(r)!(k)
      BY <1>2 DEF Apply
    <2>2. dup'[r] \subseteq dup[r] \cup {k} /\ \A q \in Requests \ {r} : dup'[q] = dup[q]
      BY <2>1 DEF Duplicate, Typing, Tables
    <2>3. todo'[r] = todo[r] \ {k} /\ \A q \in Requests \ {r} : todo'[q] = todo[q]
      BY <2>1 DEF Typing, Tables
    <2>4. \A q \in Requests : todo'[q] \cap dup'[q] = {}
      BY <2>2, <2>3 DEF SavedFirst
    <2>5. UNCHANGED <<audit, published, pc, body, faults>> /\ pc[r] = "classify"
      BY <2>1
    <2>6. faults' = 0 => \A q \in Requests :
             pc'[q] \in {"publish", "clear"} => \A j \in todo'[q] : Row(body[q][j]) \in audit'
      BY <2>3, <2>5 DEF SavedFirst
    <2>7. SavedFirst'
      BY <2>4, <2>5, <2>6 DEF SavedFirst, Row
    <2> QED
      BY <2>5, <2>7 DEF AuditedWhenPublished
  <1>3. ASSUME NEW r \in Requests, ClassifyError(r) \/ Crash(r)
        PROVE  Goal'
    <2>1. faults' # 0
      BY <1>3 DEF ClassifyError, Crash, Fault, Typing, TypeOK
    <2>2. \A q \in Requests : todo'[q] \cap dup'[q] = {}
      BY <1>3 DEF ClassifyError, Crash, Leave, Typing, Tables, SavedFirst
    <2> QED
      BY <2>1, <2>2 DEF SavedFirst, AuditedWhenPublished
  <1>4. ASSUME NEW r \in Requests, SaveRawAlerts(r)
        PROVE  Goal'
    <2>1. /\ \A q \in Requests \ {r} : todo'[q] = todo[q] /\ pc'[q] = pc[q]
          /\ todo'[r] = DOMAIN body[r] \ dup[r]
          /\ UNCHANGED <<dup, body, published>>
      BY <1>4 DEF SaveRawAlerts, Typing, TypeOK, Tables
    <2>2. \A q \in Requests : todo'[q] \cap dup'[q] = {}
      BY <2>1 DEF SavedFirst
    <2>3. CASE faults' # 0
      BY <2>2, <2>3 DEF SavedFirst, AuditedWhenPublished
    <2>4. CASE faults' = 0
      <3>1. faults = 0 /\ audit' = audit \cup Rows(r)
        BY <1>4, <2>4 DEF SaveRawAlerts, Fault, Typing, TypeOK
      <3>2. \A k \in todo'[r] : Row(body[r][k]) \in audit'
        BY <2>1, <3>1, RowSaved
      <3>3. \A q \in Requests \ {r} :
               pc'[q] \in {"publish", "clear"} => \A k \in todo'[q] : Row(body[q][k]) \in audit'
        BY <2>1, <3>1 DEF SavedFirst
      <3>4. SavedFirst'
        BY <2>1, <2>2, <3>2, <3>3 DEF SavedFirst, Row
      <3>5. AuditedWhenPublished'
        BY <2>1, <3>1 DEF AuditedWhenPublished
      <3> QED
        BY <3>4, <3>5
    <2> QED
      BY <2>3, <2>4
  <1>5. ASSUME NEW r \in Requests, PublishAlertPayload(r)
        PROVE  Goal'
    <2>1. PICK k \in First(todo[r]) : PublishAlertPayload(r)!(k)
      BY <1>5 DEF PublishAlertPayload
    <2>2. k \in todo[r] /\ k \in DOMAIN body[r]
      BY DEF First, Typing, TypeOK
    <2>3. /\ todo'[r] \subseteq todo[r] /\ \A q \in Requests \ {r} : todo'[q] = todo[q]
          /\ UNCHANGED <<dup, body, pc, audit, faults>>
      BY <2>1 DEF Typing, Tables
    <2>4. SavedFirst'
      <3>1. \A q \in Requests : todo'[q] \subseteq todo[q]
        BY <2>3
      <3>2. \A q \in Requests : todo'[q] \cap dup[q] = {}
        BY <3>1 DEF SavedFirst
      <3>3. faults = 0 => \A q \in Requests :
               pc[q] \in {"publish", "clear"} => \A j \in todo'[q] : Row(body[q][j]) \in audit
        BY <3>1 DEF SavedFirst
      <3> QED
        BY <2>3, <3>2, <3>3 DEF SavedFirst, Row
    <2>5. faults = 0 => Row(body[r][k]) \in audit
      BY <2>1, <2>2 DEF SavedFirst
    <2>6. faults = 0 => \A j \in DOMAIN published' : Row(published'[j]) \in audit
      <3>1. /\ published \in Seq(Alert) /\ body[r][k] \in Alert
            /\ published' = Append(published, body[r][k])
        BY <2>1, <2>2 DEF Typing, TypeOK
      <3>2. /\ DOMAIN published' = 1 .. Len(published) + 1
            /\ DOMAIN published = 1 .. Len(published)
            /\ published'[Len(published) + 1] = body[r][k]
            /\ \A j \in 1 .. Len(published) : published'[j] = published[j]
        BY <3>1
      <3>3. faults = 0 => \A j \in DOMAIN published : Row(published[j]) \in audit
        BY DEF AuditedWhenPublished, Row
      <3>4. \A j \in DOMAIN published' : j \in DOMAIN published \/ j = Len(published) + 1
        BY <3>1, <3>2
      <3> QED
        BY <2>5, <3>2, <3>3, <3>4
    <2>7. AuditedWhenPublished'
      BY <2>3, <2>6 DEF AuditedWhenPublished, Row
    <2> QED
      BY <2>4, <2>7
  <1>6. ASSUME NEW r \in Requests, Answer(r) \/ Clear(r)
        PROVE  Goal'
    <2>1. /\ \A q \in Requests \ {r} : /\ todo'[q] = todo[q] /\ pc'[q] = pc[q]
                                      /\ dup'[q] = dup[q] /\ body'[q] = body[q]
          /\ todo'[r] = {} /\ UNCHANGED <<audit, published>>
          /\ faults' = 0 => faults = 0
      BY <1>6 DEF Answer, Clear, Leave, Typing, TypeOK, Tables
    <2>2. SavedFirst'
      BY <2>1 DEF SavedFirst, Row
    <2> QED
      BY <2>1, <2>2 DEF AuditedWhenPublished
  <1>7. ASSUME NEW r \in Requests, PublishFails(r)
        PROVE  Goal'
    BY <1>7 DEF PublishFails, Typing, TypeOK, SavedFirst, AuditedWhenPublished, Row
  <1>8. ASSUME NEW f \in Fingerprint, Expire(f)
        PROVE  Goal'
    BY <1>8 DEF Expire, SavedFirst, AuditedWhenPublished, Row
  <1>9. CASE UNCHANGED vars
    BY <1>9 DEF vars, SavedFirst, AuditedWhenPublished, Row
  <1> QED
    BY <1>1, <1>2, <1>3, <1>4, <1>5, <1>6, <1>7, <1>8, <1>9 DEF Next, processAlerts

\* Alerts are saved before they are published, in every behaviour.
LEMMA AuditInvariant == Spec => [](SavedFirst /\ AuditedWhenPublished)
PROOF
  <1>1. Init => SavedFirst /\ AuditedWhenPublished
    BY DEF Init, SavedFirst, AuditedWhenPublished
  <1> QED
    BY <1>1, TypingInvariant, AuditStep, PTL DEF Spec

\* As long as no save failed, whatever is published is in the audit table as not
\* suppressed, for any batches and any number of concurrent requests.
THEOREM AuditComplete == Spec => []AuditedWhenPublished
PROOF
  BY AuditInvariant, PTL

(***************************************************************************)
(* What a step without a fault does to the alerts that requests were let   *)
(* through with: nothing, let one more through, publish one, or drop those *)
(* of one request after a failed publish.                                  *)
(***************************************************************************)

\* Since the roll back deletes one key only, the other alerts of the batch are in rest.
BehindFailure ==
    \A r \in Requests : pc[r] = "clear" =>
        \A k \in todo[r] \ First(todo[r]) : body[r][k][2] \in rest

\* No request but r holds other alerts than before.
OthersKeep(r) == \A q \in Requests \ {r}, f \in Fingerprint : Holding(q, f)' = Holding(q, f)

Quiet ==
    /\ \A q \in Requests, f \in Fingerprint : Holding(q, f)' = Holding(q, f)
    /\ keys' \subseteq keys /\ UNCHANGED <<published, mark, grants>>

LetsThrough(r, k, g) ==
    /\ OthersKeep(r)
    /\ \A f \in Fingerprint : Holding(r, f)' = Holding(r, f) \cup (IF f = g THEN {k} ELSE {})
    /\ keys' = keys \cup {g} /\ UNCHANGED published
    /\ mark' = [mark EXCEPT ![g] = Len(published)]
    /\ grants' = [grants EXCEPT ![g] = @ + 1]

Publishes(r, k) ==
    /\ OthersKeep(r)
    /\ \A f \in Fingerprint : /\ Holding(r, f)' = Holding(r, f) \ {k}
                              /\ body[r][k] = <<"firing", f>> <=> k \in Holding(r, f)
    /\ body[r][k] \in Alert /\ published' = Append(published, body[r][k])
    /\ UNCHANGED <<keys, mark, grants>>

Drops(r) ==
    /\ OthersKeep(r)
    /\ \A f \in Fingerprint : /\ Holding(r, f)' = {}
                              /\ Holding(r, f) # {} => f \notin keys' \/ f \in rest \cup kept'
    /\ keys' \subseteq keys /\ UNCHANGED <<published, mark, grants>>

\* A request whose program counter, batch and results stay holds what it held.
LEMMA HoldingKept ==
    ASSUME NEW q, NEW f, pc'[q] = pc[q], body'[q] = body[q], dup'[q] = dup[q], todo'[q] = todo[q]
    PROVE  Holding(q, f)' = Holding(q, f)
PROOF
  BY DEF Holding

\* Without faults every step is one of four kinds: it concerns no alert that a request
\* holds, lets one alert through, publishes one, or drops those of a failed batch.
LEMMA OneAlertAtATime ==
    ASSUME Typing, SavedFirst, BehindFailure, Next, faults' = 0
    PROVE  \/ Quiet
           \/ \E r \in Requests, k \in Nat, g \in Fingerprint \ keys : LetsThrough(r, k, g)
           \/ \E r \in Requests, k \in Nat : Publishes(r, k)
           \/ \E r \in Requests : Drops(r)
PROOF
  <1> DEFINE Goal == \/ Quiet
                     \/ \E r \in Requests, k \in Nat, g \in Fingerprint \ keys : LetsThrough(r, k, g)
                     \/ \E r \in Requests, k \in Nat : Publishes(r, k)
                     \/ \E r \in Requests : Drops(r)
  <1> USE DEF redis, jobs, history, counters
  <1>1. ASSUME NEW r \in Requests, NEW p \in Payloads, Webhook(r, p)
        PROVE  Goal
    <2>1. OthersKeep(r)
      BY <1>1, HoldingKept DEF Webhook, OthersKeep, Typing, TypeOK, Tables
    <2>2. pc[r] = "idle" /\ pc'[r] = "classify" /\ todo'[r] = DOMAIN body'[r]
      BY <1>1 DEF Webhook, Idle, Typing, TypeOK, Tables
    <2>3. \A f \in Fingerprint : Holding(r, f)' = Holding(r, f)
      BY <2>2 DEF Holding
    <2>4. Quiet
      BY <1>1, <2>1, <2>3 DEF Quiet, OthersKeep, Webhook
    <2> QED
      BY <2>4
  <1>2. ASSUME NEW r \in Requests, Apply(r)
        PROVE  Goal
    <2>1. PICK k \in Command(r) : Apply(r)!(k)
      BY <1>2 DEF Apply
    <2>2. k \in todo[r] /\ k \in DOMAIN body[r] /\ k \in Nat /\ k \notin dup[r]
      BY DEF Command, Firing, First, Typing, TypeOK, Tables, SavedFirst
    <2>3. OthersKeep(r)
      BY <2>1, HoldingKept DEF OthersKeep, Typing, TypeOK, Tables
    <2> DEFINE g == body[r][k][2]
    <2>4. g \in Fingerprint /\ body[r][k] = <<body[r][k][1], g>>
      BY <2>2 DEF Typing, TypeOK, Alert
    <2>5. pc[r] = "classify" /\ pc' = pc /\ body' = body /\ todo'[r] = todo[r] \ {k}
      BY <2>1 DEF Typing, Tables
    <2>6. CASE body[r][k][1] = "firing" /\ g \notin keys
      <3>1. dup'[r] = dup[r]
        BY <2>1, <2>6 DEF Duplicate, Typing, Tables
      <3>2. \A f \in Fingerprint : Holding(r, f)' = Holding(r, f) \cup (IF f = g THEN {k} ELSE {})
        BY <2>2, <2>4, <2>5, <2>6, <3>1 DEF Holding
      <3>3. LetsThrough(r, k, g)
        BY <2>1, <2>3, <2>6, <3>2 DEF LetsThrough
      <3> QED
        BY <2>2, <2>4, <2>6, <3>3
    <2>7. CASE body[r][k][1] = "firing" /\ g \in keys
      <3>1. dup'[r] = dup[r] \cup {k}
        BY <2>1, <2>7 DEF Duplicate, Typing, Tables
      <3>2. \A f \in Fingerprint : Holding(r, f)' = Holding(r, f)
        BY <2>2, <2>5, <3>1 DEF Holding
      <3>3. Quiet
        BY <2>1, <2>3, <2>7, <3>2 DEF Quiet, OthersKeep
      <3> QED
        BY <3>3
    <2>8. CASE body[r][k][1] # "firing"
      <3>1. dup'[r] = dup[r]
        BY <2>1, <2>8
      <3>2. \A f \in Fingerprint : Holding(r, f)' = Holding(r, f)
        BY <2>2, <2>4, <2>5, <2>8, <3>1 DEF Holding
      <3>3. Quiet
        BY <2>1, <2>3, <2>8, <3>2 DEF Quiet, OthersKeep
      <3> QED
        BY <3>3
    <2> QED
      BY <2>6, <2>7, <2>8
  <1>3. ASSUME NEW r \in Requests, ClassifyError(r) \/ Crash(r)
        PROVE  Goal
    BY <1>3 DEF ClassifyError, Crash, Fault, Typing, TypeOK
  <1>4. ASSUME NEW r \in Requests, SaveRawAlerts(r)
        PROVE  Goal
    <2>1. OthersKeep(r)
      BY <1>4, HoldingKept DEF SaveRawAlerts, OthersKeep, Typing, TypeOK, Tables
    <2>2. /\ pc[r] = "classify" /\ pc'[r] = "publish" /\ todo[r] = {}
          /\ body' = body /\ dup' = dup /\ todo'[r] = DOMAIN body[r] \ dup[r]
      BY <1>4 DEF SaveRawAlerts, Typing, TypeOK, Tables
    <2>3. \A f \in Fingerprint : Holding(r, f)' = Holding(r, f)
      BY <2>2 DEF Holding
    <2>4. Quiet
      BY <1>4, <2>1, <2>3 DEF Quiet, OthersKeep, SaveRawAlerts
    <2> QED
      BY <2>4
  <1>5. ASSUME NEW r \in Requests, PublishAlertPayload(r)
        PROVE  Goal
    <2>1. PICK k \in First(todo[r]) : PublishAlertPayload(r)!(k)
      BY <1>5 DEF PublishAlertPayload
    <2>2. k \in todo[r] /\ k \in DOMAIN body[r] /\ k \in Nat /\ k \notin dup[r]
      BY DEF First, Typing, TypeOK, Tables, SavedFirst
    <2>3. OthersKeep(r)
      BY <2>1, HoldingKept DEF OthersKeep, Typing, TypeOK, Tables
    <2>4. /\ pc[r] = "publish" /\ pc' = pc /\ body' = body /\ dup' = dup
          /\ todo'[r] = todo[r] \ {k}
      BY <2>1 DEF Typing, Tables
    <2>5. \A f \in Fingerprint : /\ Holding(r, f)' = Holding(r, f) \ {k}
                                 /\ body[r][k] = <<"firing", f>> <=> k \in Holding(r, f)
      BY <2>2, <2>4 DEF Holding
    <2>6. body[r][k] \in Alert
      BY <2>2 DEF Typing, TypeOK
    <2>7. Publishes(r, k)
      BY <2>1, <2>3, <2>5, <2>6 DEF Publishes
    <2> QED
      BY <2>2, <2>7
  <1>6. ASSUME NEW r \in Requests, Answer(r)
        PROVE  Goal
    <2>1. OthersKeep(r)
      BY <1>6, HoldingKept DEF Answer, Leave, OthersKeep, Typing, TypeOK, Tables
    <2>2. pc[r] = "publish" /\ todo[r] = {} /\ pc'[r] = "idle"
      BY <1>6 DEF Answer, Leave, Typing, TypeOK
    <2>3. \A f \in Fingerprint : Holding(r, f)' = Holding(r, f)
      BY <2>2 DEF Holding
    <2>4. Quiet
      BY <1>6, <2>1, <2>3 DEF Quiet, OthersKeep, Answer
    <2> QED
      BY <2>4
  <1>7. ASSUME NEW r \in Requests, PublishFails(r)
        PROVE  Goal
    <2>1. OthersKeep(r)
      BY <1>7, HoldingKept DEF PublishFails, OthersKeep, Typing, TypeOK, Tables
    <2>2. pc[r] = "publish" /\ pc'[r] = "clear" /\ body' = body /\ dup' = dup /\ todo' = todo
      BY <1>7 DEF PublishFails, Typing, TypeOK
    <2>3. \A f \in Fingerprint : Holding(r, f)' = Holding(r, f)
      BY <2>2 DEF Holding
    <2>4. Quiet
      BY <1>7, <2>1, <2>3 DEF Quiet, OthersKeep, PublishFails
    <2> QED
      BY <2>4
  <1>8. ASSUME NEW r \in Requests, Clear(r)
        PROVE  Goal
    <2>1. OthersKeep(r)
      BY <1>8, HoldingKept DEF Clear, Leave, OthersKeep, Typing, TypeOK, Tables
    <2>2. pc[r] = "clear" /\ pc'[r] = "idle"
      BY <1>8 DEF Clear, Leave, Typing, TypeOK
    <2>3. \/ keys' = keys \ Released(r)
          \/ keys' = keys /\ kept' = kept \cup Released(r)
      BY <1>8 DEF Clear
    <2>4. ASSUME NEW f \in Fingerprint, NEW k \in Holding(r, f)
          PROVE  f \notin keys' \/ f \in rest \cup kept'
      <3>1. k \in todo[r] /\ body[r][k][2] = f
        BY <2>2 DEF Holding
      <3>2. CASE k \in First(todo[r])
        BY <2>3, <3>1, <3>2 DEF Released
      <3>3. CASE k \notin First(todo[r])
        BY <2>2, <3>1, <3>3 DEF BehindFailure
      <3> QED
        BY <3>2, <3>3
    <2>5. \A f \in Fingerprint : Holding(r, f)' = {}
      BY <2>2 DEF Holding
    <2>6. keys' \subseteq keys /\ UNCHANGED <<published, mark, grants>>
      BY <1>8, <2>3 DEF Clear
    <2>7. Drops(r)
      BY <2>1, <2>4, <2>5, <2>6 DEF Drops
    <2> QED
      BY <2>7
  <1>9. ASSUME NEW g \in Fingerprint, Expire(g)
        PROVE  Goal
    <2>1. Quiet
      BY <1>9, HoldingKept DEF Expire, Quiet
    <2> QED
      BY <2>1
  <1> QED
    BY <1>1, <1>2, <1>3, <1>4, <1>5, <1>6, <1>7, <1>8, <1>9 DEF Next, processAlerts

\* What a failed request leaves behind is never forgotten.
LEMMA LossesGrow ==
    ASSUME [Next]_vars
    PROVE  rest \subseteq rest' /\ kept \subseteq kept'
PROOF
  BY DEF Next, vars, processAlerts, Webhook, Apply, ClassifyError, SaveRawAlerts,
     PublishAlertPayload, Answer, PublishFails, Clear, Expire, Crash, redis, jobs, history, counters

\* A failed publish puts the alerts behind it into rest.
LEMMA BehindFailureStep ==
    ASSUME Typing, BehindFailure, [Next]_vars
    PROVE  BehindFailure'
PROOF
  <1> USE DEF redis, jobs, history, counters
  <1>1. rest \subseteq rest'
    BY LossesGrow
  <1>2. ASSUME NEW q \in Requests, pc'[q] = "clear"
        PROVE  \/ pc[q] = "clear" /\ body'[q] = body[q] /\ todo'[q] = todo[q]
               \/ PublishFails(q)
    <2>1. ASSUME NEW r \in Requests, pc'[r] # "clear", NEW label, pc' = [pc EXCEPT ![r] = label],
                 \A z \in Requests \ {r} : body'[z] = body[z] /\ todo'[z] = todo[z]
          PROVE  pc[q] = "clear" /\ body'[q] = body[q] /\ todo'[q] = todo[q]
      BY <1>2, <2>1 DEF Typing, TypeOK
    <2>2. ASSUME NEW r \in Requests, pc[r] # "clear", pc' = pc,
                 \A z \in Requests \ {r} : body'[z] = body[z] /\ todo'[z] = todo[z]
          PROVE  pc[q] = "clear" /\ body'[q] = body[q] /\ todo'[q] = todo[q]
      BY <1>2, <2>2
    <2>3. ASSUME NEW r \in Requests, NEW p \in Payloads, Webhook(r, p)
          PROVE  pc[q] = "clear" /\ body'[q] = body[q] /\ todo'[q] = todo[q]
      BY <2>1, <2>3 DEF Webhook, Typing, TypeOK, Tables
    <2>4. ASSUME NEW r \in Requests, Apply(r)
          PROVE  pc[q] = "clear" /\ body'[q] = body[q] /\ todo'[q] = todo[q]
      <3>1. PICK k \in Command(r) : Apply(r)!(k)
        BY <2>4 DEF Apply
      <3> QED
        BY <2>2, <3>1 DEF Typing, TypeOK, Tables
    <2>5. ASSUME NEW r \in Requests, ClassifyError(r)
          PROVE  pc[q] = "clear" /\ body'[q] = body[q] /\ todo'[q] = todo[q]
      BY <2>2, <2>5 DEF ClassifyError, Typing, TypeOK, Tables
    <2>6. ASSUME NEW r \in Requests, SaveRawAlerts(r)
          PROVE  pc[q] = "clear" /\ body'[q] = body[q] /\ todo'[q] = todo[q]
      BY <2>1, <2>6 DEF SaveRawAlerts, Typing, TypeOK, Tables
    <2>7. ASSUME NEW r \in Requests, PublishAlertPayload(r)
          PROVE  pc[q] = "clear" /\ body'[q] = body[q] /\ todo'[q] = todo[q]
      BY <2>2, <2>7 DEF PublishAlertPayload, Typing, TypeOK, Tables
    <2>8. ASSUME NEW r \in Requests, Answer(r) \/ Clear(r) \/ Crash(r)
          PROVE  pc[q] = "clear" /\ body'[q] = body[q] /\ todo'[q] = todo[q]
      BY <2>1, <2>8 DEF Answer, Clear, Crash, Leave, Typing, TypeOK, Tables
    <2>9. ASSUME NEW r \in Requests, PublishFails(r), r # q
          PROVE  pc[q] = "clear" /\ body'[q] = body[q] /\ todo'[q] = todo[q]
      BY <1>2, <2>9 DEF PublishFails, Typing, TypeOK
    <2>10. ASSUME NEW f \in Fingerprint, Expire(f)
           PROVE  pc[q] = "clear" /\ body'[q] = body[q] /\ todo'[q] = todo[q]
      BY <1>2, <2>10 DEF Expire
    <2>11. CASE UNCHANGED vars
      BY <1>2, <2>11 DEF vars
    <2> QED
      BY <2>3, <2>4, <2>5, <2>6, <2>7, <2>8, <2>9, <2>10, <2>11 DEF Next, processAlerts
  <1>3. ASSUME NEW q \in Requests, pc'[q] = "clear"
        PROVE  \A k \in todo'[q] \ First(todo'[q]) : body'[q][k][2] \in rest'
    <2>1. CASE pc[q] = "clear" /\ body'[q] = body[q] /\ todo'[q] = todo[q]
      BY <1>1, <2>1 DEF BehindFailure
    <2>2. CASE PublishFails(q)
      BY <2>2 DEF PublishFails
    <2> QED
      BY <1>2, <1>3, <2>1, <2>2
  <1> QED
    BY <1>3 DEF BehindFailure, First

(***************************************************************************)
(* Keys and what is published.                                             *)
(***************************************************************************)

MarksBehind == \A f \in Fingerprint : mark[f] <= Len(published)

\* A fault is never forgotten.
LEMMA FaultsStay == ASSUME Typing, [Next]_vars PROVE faults <= faults'
PROOF
  BY DEF Typing, TypeOK, Next, vars, processAlerts, Webhook, Apply, ClassifyError, SaveRawAlerts,
     PublishAlertPayload, Answer, PublishFails, Clear, Expire, Crash, Fault, redis, jobs, history, counters

\* The mark of a key is set to what is published, which only grows.
LEMMA MarksStep == ASSUME Typing, MarksBehind, [Next]_vars PROVE MarksBehind'
PROOF
  <1> USE DEF redis, jobs, history, counters
  <1>1. CASE UNCHANGED <<mark, published>>
    BY <1>1 DEF MarksBehind
  <1>2. ASSUME NEW r \in Requests, Apply(r)
        PROVE  MarksBehind'
    <2>1. PICK k \in Command(r) : Apply(r)!(k)
      BY <1>2 DEF Apply
    <2>2. Len(published) \in Nat
      BY DEF Typing, TypeOK
    <2> QED
      BY <2>1, <2>2 DEF MarksBehind, Typing, TypeOK
  <1>3. ASSUME NEW r \in Requests, PublishAlertPayload(r)
        PROVE  MarksBehind'
    <2>1. PICK k \in First(todo[r]) : PublishAlertPayload(r)!(k)
      BY <1>3 DEF PublishAlertPayload
    <2>2. published \in Seq(Alert) /\ body[r][k] \in Alert
      BY DEF First, Typing, TypeOK
    <2>3. Len(published') = Len(published) + 1 /\ Len(published) \in Nat
      BY <2>1, <2>2
    <2>4. mark' = mark
      BY <2>1
    <2> QED
      BY <2>3, <2>4 DEF MarksBehind, Typing, TypeOK
  <1> QED
    BY <1>1, <1>2, <1>3 DEF Next, vars, processAlerts, Webhook, ClassifyError, SaveRawAlerts,
       Answer, PublishFails, Clear, Expire, Crash

\* A key of an alert that nobody published since and nobody is about to publish.
LEMMA SilencedStep ==
    ASSUME Typing, SavedFirst, BehindFailure, MarksBehind, SilencedOnlyBehindFailure, [Next]_vars
    PROVE  SilencedOnlyBehindFailure'
PROOF
  <1> SUFFICES ASSUME faults' = 0, NEW f \in Fingerprint, f \in keys', f \notin rest' \cup kept',
                      \A q \in Requests : Holding(q, f)' = {}
               PROVE  \E k \in mark'[f] + 1 .. Len(published') : published'[k] = <<"firing", f>>
    BY DEF SilencedOnlyBehindFailure, Silenced
  <1>1. faults = 0
    BY FaultsStay DEF Typing, TypeOK
  <1>0. f \notin rest \cup kept /\ f \notin rest \cup kept'
    BY LossesGrow
  <1>2. \/ f \notin keys \/ \E q \in Requests : Holding(q, f) # {}
        \/ \E k \in mark[f] + 1 .. Len(published) : published[k] = <<"firing", f>>
    BY <1>0, <1>1 DEF SilencedOnlyBehindFailure, Silenced
  <1>3. CASE Quiet
    BY <1>2, <1>3 DEF Quiet
  <1>4. ASSUME NEW r \in Requests, NEW k \in Nat, NEW g \in Fingerprint \ keys, LetsThrough(r, k, g)
        PROVE  \E j \in mark'[f] + 1 .. Len(published') : published'[j] = <<"firing", f>>
    <2>1. f # g
      BY <1>4 DEF LetsThrough
    <2>2. mark'[f] = mark[f] /\ f \in keys /\ UNCHANGED published
      BY <1>4, <2>1 DEF LetsThrough, Typing, TypeOK
    <2>3. \A q \in Requests : Holding(q, f) = {}
      BY <1>4 DEF LetsThrough, OthersKeep
    <2> QED
      BY <1>2, <2>2, <2>3
  <1>5. ASSUME NEW r \in Requests, NEW k \in Nat, Publishes(r, k)
        PROVE  \E j \in mark'[f] + 1 .. Len(published') : published'[j] = <<"firing", f>>
    <2>1. /\ published \in Seq(Alert) /\ body[r][k] \in Alert
          /\ published' = Append(published, body[r][k])
          /\ UNCHANGED <<mark, keys>>
      BY <1>5 DEF Publishes, Typing, TypeOK
    <2>2. /\ Len(published) \in Nat /\ Len(published') = Len(published) + 1
          /\ published'[Len(published) + 1] = body[r][k]
          /\ \A j \in 1 .. Len(published) : published'[j] = published[j]
      BY <2>1
    <2>3. mark[f] \in Nat /\ mark[f] <= Len(published)
      BY DEF MarksBehind, Typing, TypeOK
    <2>4. CASE body[r][k] = <<"firing", f>>
      <3>1. Len(published) + 1 \in mark'[f] + 1 .. Len(published')
        BY <2>1, <2>2, <2>3
      <3> QED
        BY <2>2, <2>4, <3>1
    <2>5. CASE body[r][k] # <<"firing", f>>
      <3>1. \A q \in Requests : Holding(q, f) = {}
        BY <1>5, <2>5 DEF Publishes, OthersKeep
      <3>2. PICK j \in mark[f] + 1 .. Len(published) : published[j] = <<"firing", f>>
        BY <1>2, <2>1, <3>1
      <3>3. j \in mark'[f] + 1 .. Len(published') /\ published'[j] = <<"firing", f>>
        BY <2>1, <2>2, <2>3, <3>2
      <3> QED
        BY <3>3
    <2> QED
      BY <2>4, <2>5
  <1>6. ASSUME NEW r \in Requests, Drops(r)
        PROVE  \E j \in mark'[f] + 1 .. Len(published') : published'[j] = <<"firing", f>>
    BY <1>0, <1>2, <1>6 DEF Drops, OthersKeep
  <1>7. CASE UNCHANGED vars
    <2>1. \A q \in Requests : Holding(q, f)' = Holding(q, f)
      BY <1>7, HoldingKept DEF vars, jobs
    <2> QED
      BY <1>2, <1>7, <2>1 DEF vars, redis
  <1>8. CASE Next
    BY <1>3, <1>4, <1>5, <1>6, <1>8, OneAlertAtATime
  <1> QED
    BY <1>7, <1>8

\* Concurrent requests, roll backs, resolutions and expiries leave a key behind that
\* silences an alert only for the alerts behind a failed one in its batch and for one whose
\* roll back failed: a publish that fails before the end of a batch and a sender that hangs up
\* are the only causes, whatever the batches and the requests.
THEOREM SilenceHasOneCause == Spec => []SilencedOnlyBehindFailure
PROOF
  <1>1. Init => BehindFailure /\ MarksBehind /\ SilencedOnlyBehindFailure
    BY DEF Init, BehindFailure, MarksBehind, SilencedOnlyBehindFailure, Silenced
  <1>2. Typing /\ SavedFirst /\ (BehindFailure /\ MarksBehind /\ SilencedOnlyBehindFailure)
          /\ [Next]_vars
        => (BehindFailure /\ MarksBehind /\ SilencedOnlyBehindFailure)'
    BY BehindFailureStep, MarksStep, SilencedStep
  <1> QED
    BY <1>1, <1>2, TypingInvariant, AuditInvariant, PTL DEF Spec

(***************************************************************************)
(* One firing alert for each time the key is set.                          *)
(***************************************************************************)

\* The firing alerts of f that are published, and those that some request holds.
Sent(f) == {k \in DOMAIN published : published[k] = <<"firing", f>>}
Held(f) == UNION {{r} \X Holding(r, f) : r \in Requests}

\* The counted sets are finite, which Cardinality needs.
Counted ==
    faults = 0 => \A f \in Fingerprint :
        /\ IsFiniteSet(Sent(f)) /\ IsFiniteSet(Held(f))
        /\ Cardinality(Sent(f)) + Cardinality(Held(f)) <= grants[f]

\* What it is to be held, now and after the step.
LEMMA InHeld ==
    ASSUME NEW f, NEW z
    PROVE  z \in Held(f) <=> \E q \in Requests : \E k \in Holding(q, f) : z = <<q, k>>
PROOF
  BY DEF Held

\* The same after the step.
LEMMA InHeldNext ==
    ASSUME NEW f, NEW z
    PROVE  z \in Held(f)' <=> \E q \in Requests : \E k \in Holding(q, f)' : z = <<q, k>>
PROOF
  BY DEF Held

\* When nothing more is held and nothing is published, the count does not grow.
LEMMA CountFalls ==
    ASSUME NEW f, IsFiniteSet(Sent(f)), IsFiniteSet(Held(f)), NEW n \in Nat,
           Cardinality(Sent(f)) + Cardinality(Held(f)) <= n,
           \A q \in Requests : Holding(q, f)' \subseteq Holding(q, f), published' = published
    PROVE  /\ IsFiniteSet(Sent(f)') /\ IsFiniteSet(Held(f)')
           /\ Cardinality(Sent(f)') + Cardinality(Held(f)') <= n
PROOF
  <1>1. Sent(f)' = Sent(f)
    BY DEF Sent
  <1>2. Held(f)' \in SUBSET Held(f)
    BY InHeld, InHeldNext
  <1>3. IsFiniteSet(Held(f)') /\ Cardinality(Held(f)') <= Cardinality(Held(f))
    BY <1>2, FS_Subset
  <1>4. /\ Cardinality(Sent(f)) \in Nat /\ Cardinality(Held(f)) \in Nat
        /\ Cardinality(Held(f)') \in Nat
    BY <1>3, FS_CardinalityType
  <1> HIDE DEF Sent, Held
  <1> QED
    BY <1>1, <1>3, <1>4

\* Every step keeps the published and held alerts of a key within the times it was set.
LEMMA CountStep ==
    ASSUME Typing, SavedFirst, BehindFailure, Counted, [Next]_vars
    PROVE  Counted'
PROOF
  <1> SUFFICES ASSUME faults' = 0, NEW f \in Fingerprint
               PROVE  /\ IsFiniteSet(Sent(f)') /\ IsFiniteSet(Held(f)')
                      /\ Cardinality(Sent(f)') + Cardinality(Held(f)') <= grants'[f]
    BY DEF Counted
  <1> DEFINE Goal == /\ IsFiniteSet(Sent(f)') /\ IsFiniteSet(Held(f)')
                     /\ Cardinality(Sent(f)') + Cardinality(Held(f)') <= grants'[f]
  <1>1. faults = 0
    BY FaultsStay DEF Typing, TypeOK
  <1>2. /\ IsFiniteSet(Sent(f)) /\ IsFiniteSet(Held(f))
        /\ Cardinality(Sent(f)) + Cardinality(Held(f)) <= grants[f]
    BY <1>1 DEF Counted
  <1>3. Cardinality(Sent(f)) \in Nat /\ Cardinality(Held(f)) \in Nat /\ grants[f] \in Nat
    BY <1>2, FS_CardinalityType DEF Typing, TypeOK
  <1>4. CASE Quiet
    <2>1. /\ \A q \in Requests : Holding(q, f)' \subseteq Holding(q, f)
          /\ published' = published /\ grants' = grants
      BY <1>4 DEF Quiet
    <2> QED
      BY <1>2, <1>3, <2>1, CountFalls
  <1>5. ASSUME NEW r \in Requests, NEW k \in Nat, NEW g \in Fingerprint \ keys, LetsThrough(r, k, g)
        PROVE  Goal
    <2>1. CASE f # g
      <3>1. /\ \A q \in Requests : Holding(q, f)' \subseteq Holding(q, f)
            /\ published' = published /\ grants'[f] = grants[f]
        BY <1>5, <2>1 DEF LetsThrough, OthersKeep, Typing, TypeOK
      <3> QED
        BY <1>2, <1>3, <3>1, CountFalls
    <2>2. CASE f = g
      <3>1. /\ \A q \in Requests \ {r} : Holding(q, f)' = Holding(q, f)
            /\ Holding(r, f)' = Holding(r, f) \cup {k}
            /\ published' = published /\ grants'[f] = grants[f] + 1
        BY <1>5, <2>2 DEF LetsThrough, OthersKeep, Typing, TypeOK
      <3>2. Held(f)' = Held(f) \cup {<<r, k>>}
        BY <3>1, InHeld, InHeldNext
      <3>3. Sent(f)' = Sent(f)
        BY <3>1 DEF Sent
      <3>4. IsFiniteSet(Held(f)') /\ Cardinality(Held(f)') <= Cardinality(Held(f)) + 1
        <4> DEFINE H == Held(f)
        <4>1. /\ IsFiniteSet(H \cup {<<r, k>>})
              /\ Cardinality(H \cup {<<r, k>>}) =
                    IF <<r, k>> \in H THEN Cardinality(H) ELSE Cardinality(H) + 1
          BY <1>2, FS_AddElement
        <4>2. Cardinality(H) \in Nat
          BY <1>3
        <4> HIDE DEF H
        <4>3. Cardinality(H \cup {<<r, k>>}) <= Cardinality(H) + 1
          BY <4>1, <4>2
        <4> QED
          BY <3>2, <4>1, <4>3 DEF H
      <3>5. Cardinality(Held(f)') \in Nat
        BY <3>4, FS_CardinalityType
      <3> HIDE DEF Sent, Held
      <3> QED
        BY <1>2, <1>3, <3>1, <3>3, <3>4, <3>5
    <2> QED
      BY <2>1, <2>2
  <1>6. ASSUME NEW r \in Requests, NEW k \in Nat, Publishes(r, k)
        PROVE  Goal
    <2>1. /\ published \in Seq(Alert) /\ body[r][k] \in Alert
          /\ published' = Append(published, body[r][k]) /\ grants' = grants
      BY <1>6 DEF Publishes, Typing, TypeOK
    <2>2. /\ Len(published) \in Nat /\ DOMAIN published = 1 .. Len(published)
          /\ DOMAIN published' = 1 .. Len(published) + 1
          /\ published'[Len(published) + 1] = body[r][k]
          /\ \A j \in 1 .. Len(published) : published'[j] = published[j]
      BY <2>1
    <2>3. /\ \A q \in Requests \ {r} : Holding(q, f)' = Holding(q, f)
          /\ Holding(r, f)' = Holding(r, f) \ {k}
          /\ body[r][k] = <<"firing", f>> <=> k \in Holding(r, f)
      BY <1>6 DEF Publishes, OthersKeep
    <2>4. Held(f)' = Held(f) \ {<<r, k>>}
      BY <2>3, InHeld, InHeldNext
    <2>5. <<r, k>> \in Held(f) <=> k \in Holding(r, f)
      BY InHeld
    <2>6. /\ IsFiniteSet(Held(f)')
          /\ Cardinality(Held(f)') = IF k \in Holding(r, f) THEN Cardinality(Held(f)) - 1
                                     ELSE Cardinality(Held(f))
      BY <1>2, <2>4, <2>5, FS_RemoveElement
    <2>7. CASE k \in Holding(r, f)
      <3>1. Sent(f)' = Sent(f) \cup {Len(published) + 1}
        BY <2>2, <2>3, <2>7 DEF Sent
      <3>2. IsFiniteSet(Sent(f)') /\ Cardinality(Sent(f)') <= Cardinality(Sent(f)) + 1
        <4> DEFINE S == Sent(f)
                   n == Len(published) + 1
        <4>1. /\ IsFiniteSet(S \cup {n})
              /\ Cardinality(S \cup {n}) = IF n \in S THEN Cardinality(S) ELSE Cardinality(S) + 1
          BY <1>2, FS_AddElement
        <4>2. Cardinality(S) \in Nat
          BY <1>3
        <4> HIDE DEF S, n
        <4>3. Cardinality(S \cup {n}) <= Cardinality(S) + 1
          BY <4>1, <4>2
        <4> QED
          BY <3>1, <4>1, <4>3 DEF S, n
      <3>3. Cardinality(Sent(f)') \in Nat
        BY <3>2, FS_CardinalityType
      <3> HIDE DEF Sent, Held
      <3> QED
        BY <1>2, <1>3, <2>1, <2>6, <2>7, <3>2, <3>3
    <2>8. CASE k \notin Holding(r, f)
      <3>1. Sent(f)' = Sent(f)
        BY <2>2, <2>3, <2>8 DEF Sent
      <3> HIDE DEF Sent, Held
      <3> QED
        BY <1>2, <1>3, <2>1, <2>6, <2>8, <3>1
    <2> QED
      BY <2>7, <2>8
  <1>7. ASSUME NEW r \in Requests, Drops(r)
        PROVE  Goal
    <2>1. /\ \A q \in Requests : Holding(q, f)' \subseteq Holding(q, f)
          /\ published' = published /\ grants' = grants
      BY <1>7 DEF Drops, OthersKeep
    <2> QED
      BY <1>2, <1>3, <2>1, CountFalls
  <1>8. CASE UNCHANGED vars
    <2>1. /\ \A q \in Requests : Holding(q, f)' \subseteq Holding(q, f)
          /\ published' = published /\ grants' = grants
      BY <1>8, HoldingKept DEF vars, jobs, redis
    <2> QED
      BY <1>2, <1>3, <2>1, CountFalls
  <1>9. CASE Next
    BY <1>4, <1>5, <1>6, <1>7, <1>9, OneAlertAtATime
  <1> QED
    BY <1>8, <1>9

\* However many requests interleave and whatever their batches are, the key lets one
\* firing alert through each time it is set, as long as no pipeline failed.
THEOREM KeyLetsOneThrough == Spec => []OnePublishPerKey
PROOF
  <1>1. Init => BehindFailure /\ Counted
    <2> SUFFICES ASSUME Init
                 PROVE  BehindFailure /\ Counted
      OBVIOUS
    <2>1. BehindFailure
      BY DEF Init, BehindFailure
    <2>2. ASSUME NEW f \in Fingerprint
          PROVE  Sent(f) = {} /\ Held(f) = {} /\ grants[f] = 0
      BY DEF Init, Sent, Held, Holding
    <2>3. Counted
      BY <2>2, FS_EmptySet DEF Counted
    <2> QED
      BY <2>1, <2>3
  <1>2. Typing /\ SavedFirst /\ (BehindFailure /\ Counted) /\ [Next]_vars
        => (BehindFailure /\ Counted)'
    BY BehindFailureStep, CountStep
  <1>3. Counted => OnePublishPerKey
    BY DEF Counted, OnePublishPerKey, Sent, Held
  <1> QED
    BY <1>1, <1>2, <1>3, TypingInvariant, AuditInvariant, PTL DEF Spec
=============================================================================
