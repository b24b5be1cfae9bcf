--------------------------- MODULE SchedulingProofs ---------------------------
(***************************************************************************)
(* Proofs about Scheduling, for any number of schedules, overrides,        *)
(* tenants and requests, any rotation, shift length and time zone, and     *)
(* without the bounds of the TLC run.                                      *)
(***************************************************************************)
EXTENDS Scheduling, WellFoundedInduction, FiniteSetTheorems, TLAPS

(***************************************************************************)
(* Rows and requests.  A row has all its columns, and RotationShift can be *)
(* computed from it: the duration parses and the rotation is a list.       *)
(***************************************************************************)

\* What POST and PATCH let into a row.
RowOK(r) ==
    /\ DOMAIN r = Columns /\ Parses(r["duration"]) /\ IsList(r["rotation"]) /\ r["start"] \in Int

\* A row is not one of the marks for a schedule that does not exist.
LEMMA RowExists ==
    ASSUME NEW r, DOMAIN r = Columns
    PROVE  r \notin {Absent, Deleted}
PROOF
  <1>1. DOMAIN Absent = {"id"} /\ DOMAIN Deleted = {"id"}
    BY DEF Absent, Deleted
  <1>2. "zone" \in Columns /\ "zone" \notin {"id"}
    BY DEF Columns
  <1> QED
    BY <1>1, <1>2

\* What POST requires of the row it inserts.
LEMMA PostedOK ==
    ASSUME NEW r \in NewRows, Parses(r.duration)
    PROVE  RowOK(r)
PROOF
  BY RowsAssumption DEF RowOK

\* The fields of a body are as good as columns.
PatchOK(p) ==
    /\ DOMAIN p \subseteq Columns
    /\ "duration" \in DOMAIN p => Parses(p["duration"])
    /\ "rotation" \in DOMAIN p => IsList(p["rotation"])
    /\ "start" \in DOMAIN p => p["start"] \in Int

\* What PATCH requires of the body it accepts.
LEMMA PatchedOK ==
    ASSUME NEW p \in Patches, "duration" \in DOMAIN p => Parses(p.duration)
    PROVE  PatchOK(p)
PROOF
  BY PatchesAssumption DEF PatchOK

\* A request in the middle of its calls knows what it needs.
JobsOK ==
    /\ pc \in [Handlers -> {"idle", "update", "insert"}]
    /\ DOMAIN target = Handlers /\ DOMAIN read = Handlers
    /\ DOMAIN patch = Handlers /\ DOMAIN draft = Handlers
    /\ \A h \in Handlers : pc[h] = "update" =>
          target[h] \in Schedules /\ RowOK(read[h]) /\ PatchOK(patch[h])

RowsOK ==
    /\ DOMAIN row = Schedules
    /\ \A s \in Schedules : Exists(s) => RowOK(row[s])

\* The row a PATCH writes is as good as the one it read.
LEMMA MergedOK ==
    ASSUME NEW h, RowOK(read[h]), PatchOK(patch[h])
    PROVE  RowOK(Merged(h))
PROOF
  BY DEF RowOK, PatchOK, Merged, Columns

\* Finish leaves the other requests alone.
LEMMA FinishJobs ==
    ASSUME JobsOK, NEW h \in Handlers, Finish(h)
    PROVE  /\ JobsOK' /\ pc'[h] = "idle"
           /\ \A g \in Handlers \ {h} : pc'[g] = pc[g] /\ draft'[g] = draft[g]
PROOF
  BY DEF JobsOK, Finish

\* The rows and the requests stay in order.
LEMMA RowsStep ==
    RowsOK /\ JobsOK /\ [Next]_vars => RowsOK' /\ JobsOK'
PROOF
  <1> SUFFICES ASSUME RowsOK, JobsOK, [Next]_vars
               PROVE  RowsOK' /\ JobsOK'
    OBVIOUS
  <1>1. ASSUME UNCHANGED row
        PROVE  RowsOK'
    BY <1>1 DEF RowsOK, Exists
  <1>2. ASSUME UNCHANGED jobs
        PROVE  JobsOK'
    BY <1>2 DEF JobsOK, jobs
  <1>3. ASSUME NEW s \in Schedules, NEW r \in NewRows, CreateSchedule(s, r)
        PROVE  RowsOK' /\ JobsOK'
    <2>1. row' = [row EXCEPT ![s] = r] /\ Parses(r.duration) /\ UNCHANGED jobs
      BY <1>3 DEF CreateSchedule
    <2>2. RowOK(r)
      BY <2>1, PostedOK
    <2> QED
      BY <1>2, <2>1, <2>2 DEF RowsOK, Exists
  <1>4. ASSUME NEW s \in Schedules, DeleteSchedule(s)
        PROVE  RowsOK' /\ JobsOK'
    <2>1. row' = [row EXCEPT ![s] = Deleted] /\ UNCHANGED jobs
      BY <1>4 DEF DeleteSchedule
    <2> QED
      BY <1>2, <2>1 DEF RowsOK, Exists
  <1>5. ASSUME NEW h \in Handlers, NEW s \in Schedules, NEW p \in Patches, PatchSchedule(h, s, p)
        PROVE  RowsOK' /\ JobsOK'
    <2>1. /\ UNCHANGED <<row, draft>> /\ Exists(s) /\ pc' = [pc EXCEPT ![h] = "update"]
          /\ target' = [target EXCEPT ![h] = s] /\ read' = [read EXCEPT ![h] = row[s]]
          /\ patch' = [patch EXCEPT ![h] = p]
      BY <1>5 DEF PatchSchedule
    <2>2. PatchOK(p)
      BY <1>5, PatchedOK DEF PatchSchedule
    <2>3. RowOK(row[s])
      BY <2>1 DEF RowsOK
    <2>4. JobsOK'
      BY <2>1, <2>2, <2>3 DEF JobsOK
    <2> QED
      BY <1>1, <2>1, <2>4
  <1>6. ASSUME NEW h \in Handlers, NEW i \in OverrideIds, NEW s \in Schedules, NEW t \in Tenants,
               NEW u \in Users, NEW w \in Windows, CreateOverride(h, i, s, t, u, w)
        PROVE  RowsOK' /\ JobsOK'
    <2>1. UNCHANGED <<row, target, read, patch>> /\ pc' = [pc EXCEPT ![h] = "insert"]
          /\ DOMAIN draft' = DOMAIN draft
      BY <1>6 DEF CreateOverride
    <2>2. JobsOK'
      BY <2>1 DEF JobsOK
    <2> QED
      BY <1>1, <2>1, <2>2
  <1>7. ASSUME NEW h \in Handlers, UpdateSchedule(h)
        PROVE  RowsOK' /\ JobsOK'
    <2>1. pc[h] = "update" /\ Finish(h)
      BY <1>7 DEF UpdateSchedule
    <2>2. target[h] \in Schedules /\ RowOK(Merged(h))
      BY <2>1, MergedOK DEF JobsOK
    <2>3. RowsOK'
      <3>1. CASE UNCHANGED row
        BY <1>1, <3>1
      <3>2. CASE row' = [row EXCEPT ![target[h]] = Merged(h)]
        BY <2>2, <3>2 DEF RowsOK, Exists
      <3> QED
        BY <1>7, <3>1, <3>2 DEF UpdateSchedule
    <2> QED
      BY <2>1, <2>3, FinishJobs
  <1>8. ASSUME NEW h \in Handlers, InsertOverride(h) \/ RequestFails(h)
        PROVE  RowsOK' /\ JobsOK'
    BY <1>1, <1>8, FinishJobs DEF InsertOverride, RequestFails
  <1>9. ASSUME NEW o \in overrides, DeleteOverride(o)
        PROVE  RowsOK' /\ JobsOK'
    BY <1>1, <1>2, <1>9 DEF DeleteOverride
  <1>10. CASE UNCHANGED vars
    BY <1>1, <1>2, <1>10 DEF vars
  <1> QED
    BY <1>3, <1>4, <1>5, <1>6, <1>7, <1>8, <1>9, <1>10 DEF Next

\* The rows and the requests are in order in every reachable state.
LEMMA RowsInvariant == Spec => [](RowsOK /\ JobsOK)
PROOF
  <1>1. Init => RowsOK /\ JobsOK
    BY DEF Init, RowsOK, JobsOK, Exists
  <1> QED
    BY <1>1, RowsStep, PTL DEF Spec

\* A PATCH writes back the whole row it read, yet a column gets another value than the
\* last one asked for only if it changed between the read and the write of a PATCH.
THEOREM LostUpdatesAreRaces == Spec => []LostOnlyByRace
PROOF
  <1> DEFINE Asked == DOMAIN asked = Schedules /\ LostOnlyByRace
  <1>1. Init => Asked
    BY DEF Init, LostOnlyByRace, Exists
  <1>2. RowsOK /\ JobsOK /\ Asked /\ [Next]_vars => Asked'
    <2> SUFFICES ASSUME RowsOK, JobsOK, Asked, [Next]_vars
                 PROVE  Asked'
      OBVIOUS
    <2>1. CASE UNCHANGED <<row, asked, raced>>
      BY <2>1 DEF LostOnlyByRace, Exists
    <2>2. ASSUME NEW s \in Schedules, NEW r \in NewRows, CreateSchedule(s, r)
          PROVE  Asked'
      BY <2>2 DEF CreateSchedule, LostOnlyByRace, RowsOK, Exists
    <2>3. ASSUME NEW s \in Schedules, DeleteSchedule(s)
          PROVE  Asked'
      BY <2>3 DEF DeleteSchedule, LostOnlyByRace, RowsOK, Exists
    <2>4. ASSUME NEW h \in Handlers, UpdateSchedule(h)
          PROVE  Asked'
      <3>1. CASE UNCHANGED <<row, asked, raced>>
        BY <2>1, <3>1
      <3>2. CASE ~UNCHANGED <<row, asked, raced>>
        <4>1. ASSUME NEW s, s = target[h]
              PROVE  /\ s \in Schedules /\ Exists(s) /\ row' = [row EXCEPT ![s] = Merged(h)]
                     /\ asked' = [asked EXCEPT ![s] = [c \in Columns |->
                           IF c \in DOMAIN patch[h] THEN patch[h][c] ELSE asked[s][c]]]
                     /\ raced' = raced \cup {<<s, c>> : c \in {d \in Columns : row[s][d] # read[h][d]}}
          BY <2>4, <3>2, <4>1 DEF UpdateSchedule, JobsOK
        <4>2. \A c \in Columns : row'[target[h]][c] # asked'[target[h]][c] =>
                  <<target[h], c>> \in raced'
          BY <4>1 DEF RowsOK, LostOnlyByRace, Merged
        <4>3. \A s \in Schedules : s # target[h] => row'[s] = row[s] /\ asked'[s] = asked[s]
          BY <4>1 DEF RowsOK
        <4>4. raced \subseteq raced' /\ DOMAIN asked' = Schedules
          BY <4>1
        <4> QED
          BY <4>2, <4>3, <4>4 DEF LostOnlyByRace, Exists
      <3> QED
        BY <3>1, <3>2
    <2>5. \/ UNCHANGED <<row, asked, raced>>
          \/ \E s \in Schedules, r \in NewRows : CreateSchedule(s, r)
          \/ \E s \in Schedules : DeleteSchedule(s)
          \/ \E h \in Handlers : UpdateSchedule(h)
      <3> DEFINE Same == UNCHANGED <<row, asked, raced>>
      <3>1. ASSUME NEW h \in Handlers, NEW s \in Schedules, NEW p \in Patches,
                   PatchSchedule(h, s, p)
            PROVE  Same
        BY <3>1 DEF PatchSchedule
      <3>2. ASSUME NEW h \in Handlers, NEW i \in OverrideIds, NEW s \in Schedules,
                   NEW t \in Tenants, NEW u \in Users, NEW w \in Windows,
                   CreateOverride(h, i, s, t, u, w)
            PROVE  Same
        BY <3>2 DEF CreateOverride
      <3>3. ASSUME NEW h \in Handlers, InsertOverride(h)
            PROVE  Same
        BY <3>3 DEF InsertOverride
      <3>4. ASSUME NEW h \in Handlers, RequestFails(h)
            PROVE  Same
        BY <3>4 DEF RequestFails
      <3>5. ASSUME NEW o \in overrides, DeleteOverride(o)
            PROVE  Same
        BY <3>5 DEF DeleteOverride
      <3>6. ASSUME UNCHANGED vars
            PROVE  Same
        BY <3>6 DEF vars
      <3> HIDE DEF Same, Asked
      <3>7. \/ Same
            \/ \E s \in Schedules, r \in NewRows : CreateSchedule(s, r)
            \/ \E s \in Schedules : DeleteSchedule(s)
            \/ \E h \in Handlers : UpdateSchedule(h)
        BY <3>1, <3>2, <3>3, <3>4, <3>5, <3>6 DEF Next
      <3> QED
        BY <3>7 DEF Same
    <2> QED
      BY <2>1, <2>2, <2>3, <2>4, <2>5
  <1>3. Asked => LostOnlyByRace
    OBVIOUS
  <1> QED
    BY <1>1, <1>2, <1>3, RowsInvariant, PTL DEF Spec
-----------------------------------------------------------------------------
(***************************************************************************)
(* Overrides.  Between its check and its insert an override is a draft:    *)
(* its id is new, and nobody has seen it.                                  *)
(***************************************************************************)

OverrideOK(o) ==
    /\ o.id \in UsedIds /\ o.schedule \in Schedules /\ o.tenant \in Tenants
    /\ o.start \in Int /\ o.end \in Int /\ o.start < o.end

\* The table: its rows are well-formed, refer to a schedule and have ids of their own.
TableOK ==
    /\ \A o \in overrides : OverrideOK(o) /\ Exists(o.schedule)
    /\ \A a, b \in overrides : a.id = b.id => a = b

\* The drafts: well-formed, with ids that no row, no other draft and no check has.
DraftsOK ==
    \A h \in Handlers : pc[h] = "insert" =>
        /\ OverrideOK(draft[h])
        /\ \A o \in overrides : o.id # draft[h].id
        /\ \A i \in UsedIds : draft[h].id \notin seen[i]
        /\ \A g \in Handlers \ {h} : pc[g] = "insert" => draft[g].id # draft[h].id

SeenOK == UsedIds \subseteq OverrideIds /\ \A i \in UsedIds : seen[i] \subseteq UsedIds

\* A row that overlaps a draft came after the check of the draft.
CheckedOK ==
    \A h \in Handlers : pc[h] = "insert" =>
        \A o \in overrides : Overlap(o, draft[h]) => o.id \notin seen[draft[h].id]

Overriding == TableOK /\ DraftsOK /\ SeenOK /\ CheckedOK /\ OverlapOnlyByRace

\* A step that only drops overrides and requests keeps them in order.
LEMMA DropStep ==
    ASSUME JobsOK, Overriding, overrides' \subseteq overrides, UNCHANGED seen,
           \A o \in overrides' : Exists(o.schedule)',
           \A h \in Handlers : pc'[h] = "insert" => pc[h] = "insert" /\ draft'[h] = draft[h]
    PROVE  Overriding'
PROOF
  <1>1. TableOK'
    BY DEF Overriding, TableOK, OverrideOK, UsedIds
  <1>2. DraftsOK'
    BY DEF Overriding, DraftsOK, OverrideOK, UsedIds
  <1>3. SeenOK' /\ OverlapOnlyByRace'
    BY DEF Overriding, SeenOK, OverlapOnlyByRace, UsedIds, Overlap
  <1>4. CheckedOK'
    BY DEF Overriding, CheckedOK, Overlap
  <1> QED
    BY <1>1, <1>2, <1>3, <1>4 DEF Overriding

\* The check: a new id, with everything in the table seen and nothing of it overlapping.
LEMMA CheckStep ==
    ASSUME JobsOK, Overriding, NEW h \in Handlers, NEW i \in OverrideIds, NEW s \in Schedules,
           NEW t \in Tenants, NEW u \in Users, NEW w \in Windows, CreateOverride(h, i, s, t, u, w)
    PROVE  Overriding'
PROOF
  <1> DEFINE o == [id |-> i, schedule |-> s, tenant |-> t, user |-> u, start |-> w[1], end |-> w[2]]
  <1>1. /\ i \notin UsedIds /\ w[1] < w[2] /\ Conflicts(o) = {}
        /\ pc' = [pc EXCEPT ![h] = "insert"] /\ draft' = [draft EXCEPT ![h] = o]
        /\ seen' = [j \in UsedIds \cup {i} |-> IF j = i THEN {x.id : x \in overrides} ELSE seen[j]]
        /\ UNCHANGED <<row, overrides>> /\ pc[h] = "idle"
    BY DEF CreateOverride, Idle
  <1>2. /\ o.id = i /\ o.schedule = s /\ o.tenant = t /\ o.start = w[1] /\ o.end = w[2]
    OBVIOUS
  <1>3. w[1] \in Int /\ w[2] \in Int
    BY InstantsAssumption
  <1> HIDE DEF o
  <1>4. /\ pc'[h] = "insert" /\ draft'[h] = o
        /\ \A g \in Handlers \ {h} : pc'[g] = pc[g] /\ draft'[g] = draft[g]
    BY <1>1 DEF JobsOK
  <1>5. /\ UsedIds' = UsedIds \cup {i} /\ seen'[i] = {x.id : x \in overrides}
        /\ \A j \in UsedIds : seen'[j] = seen[j]
    BY <1>1 DEF UsedIds
  <1>6. \A x \in overrides : x.id \in UsedIds /\ x.start \in Int /\ x.end \in Int
    BY DEF Overriding, TableOK, OverrideOK
  <1>7. \A g \in Handlers : pc[g] = "insert" => draft[g].id \in UsedIds
    BY DEF Overriding, DraftsOK, OverrideOK
  <1>8. TableOK'
    BY <1>1, <1>5 DEF Overriding, TableOK, OverrideOK, Exists
  <1>9. SeenOK'
    BY <1>5, <1>6 DEF Overriding, SeenOK
  <1>10. DraftsOK'
    <2>1. OverrideOK(o)'
      BY <1>1, <1>2, <1>3, <1>5 DEF OverrideOK
    <2>2. (\A x \in overrides' : x.id # o.id) /\ \A j \in UsedIds' : o.id \notin seen'[j]
      BY <1>1, <1>2, <1>5, <1>6 DEF Overriding, SeenOK
    <2>3. \A g \in Handlers \ {h} : pc'[g] = "insert" =>
             /\ OverrideOK(draft[g])'
             /\ \A x \in overrides' : x.id # draft[g].id
             /\ \A j \in UsedIds' : draft[g].id \notin seen'[j]
             /\ draft[g].id # o.id
      <3>1. ASSUME NEW g \in Handlers \ {h}, pc'[g] = "insert"
            PROVE  /\ OverrideOK(draft[g])'
                   /\ \A x \in overrides' : x.id # draft[g].id
                   /\ \A j \in UsedIds' : draft[g].id \notin seen'[j]
                   /\ draft[g].id # o.id
        <4>1. pc[g] = "insert" /\ draft'[g] = draft[g]
          BY <1>4, <3>1
        <4>2. OverrideOK(draft[g]) /\ \A x \in overrides : x.id # draft[g].id
          BY <4>1 DEF Overriding, DraftsOK
        <4>3. \A j \in UsedIds : draft[g].id \notin seen[j]
          BY <4>1 DEF Overriding, DraftsOK
        <4>4. OverrideOK(draft[g])'
          BY <1>5, <4>1, <4>2 DEF OverrideOK
        <4>5. draft[g].id # o.id
          BY <1>1, <1>2, <1>7, <4>1
        <4> QED
          BY <1>1, <1>5, <4>2, <4>3, <4>4, <4>5
      <3> QED
        BY <3>1
    <2> QED
      BY <1>4, <2>1, <2>2, <2>3 DEF Overriding, DraftsOK
  <1>11. CheckedOK'
    <2>1. \A x \in overrides : ~Overlap(x, o)
      BY <1>1, <1>2, <1>3, <1>6 DEF Conflicts, Overlap
    <2>2. ASSUME NEW g \in Handlers \ {h}, pc'[g] = "insert", NEW x \in overrides,
                 Overlap(x, draft[g])
          PROVE  x.id \notin seen'[draft[g].id]
      BY <1>4, <1>5, <1>7, <2>2 DEF Overriding, CheckedOK
    <2>3. ASSUME NEW g \in Handlers, pc'[g] = "insert", NEW x \in overrides', Overlap(x, draft'[g])
          PROVE  x.id \notin seen'[draft'[g].id]
      <3>1. CASE g = h
        BY <1>1, <1>4, <2>1, <2>3, <3>1
      <3>2. CASE g # h
        BY <1>1, <1>4, <2>2, <2>3, <3>2
      <3> QED
        BY <3>1, <3>2
    <2> QED
      BY <2>3 DEF CheckedOK, Overlap
  <1>12. OverlapOnlyByRace'
    BY <1>1, <1>5, <1>6 DEF Overriding, OverlapOnlyByRace, Overlap
  <1> QED
    BY <1>8, <1>9, <1>10, <1>11, <1>12 DEF Overriding

\* The insert: the draft becomes a row; drafts that overlap it had not seen it, and it
\* had seen none of the rows that overlap it.
LEMMA InsertStep ==
    ASSUME RowsOK, JobsOK, Overriding, NEW h \in Handlers, InsertOverride(h)
    PROVE  Overriding'
PROOF
  <1>1. pc[h] = "insert" /\ Finish(h) /\ UNCHANGED <<row, seen>>
    BY DEF InsertOverride
  <1>2. pc'[h] = "idle" /\ \A g \in Handlers \ {h} : pc'[g] = pc[g] /\ draft'[g] = draft[g]
    BY <1>1, FinishJobs
  <1>3. CASE ~References(draft[h])
    <2>1. UNCHANGED overrides
      BY <1>3 DEF InsertOverride
    <2>2. \A o \in overrides' : Exists(o.schedule)'
      BY <1>1, <2>1 DEF Overriding, TableOK, Exists
    <2> QED
      BY <1>1, <1>2, <2>1, <2>2, DropStep
  <1>4. ASSUME NEW d, d = draft[h], References(d)
        PROVE  Overriding'
    <2>1. overrides' = overrides \cup {d}
      BY <1>4 DEF InsertOverride
    <2>2. /\ OverrideOK(d) /\ \A o \in overrides : o.id # d.id
          /\ \A i \in UsedIds : d.id \notin seen[i]
      BY <1>1, <1>4 DEF Overriding, DraftsOK
    <2>3. \A g \in Handlers \ {h} : pc[g] = "insert" => draft[g].id # d.id
      BY <1>1, <1>4 DEF Overriding, DraftsOK
    <2>4. TableOK'
      BY <1>1, <1>4, <2>1, <2>2 DEF Overriding, TableOK, OverrideOK, UsedIds, Exists, References
    <2>5. DraftsOK'
      <3>1. ASSUME NEW g \in Handlers, pc'[g] = "insert"
            PROVE  g # h /\ pc[g] = "insert" /\ draft'[g] = draft[g]
        BY <1>2, <3>1
      <3> QED
        BY <1>1, <2>1, <2>3, <3>1 DEF Overriding, DraftsOK, OverrideOK, UsedIds
    <2>6. SeenOK'
      BY <1>1 DEF Overriding, SeenOK, UsedIds
    <2>7. CheckedOK'
      <3>1. ASSUME NEW g \in Handlers, pc'[g] = "insert"
            PROVE  g # h /\ pc[g] = "insert" /\ draft'[g] = draft[g] /\ draft[g].id \in UsedIds
        BY <1>2, <3>1 DEF Overriding, DraftsOK, OverrideOK
      <3>2. ASSUME NEW g \in Handlers, pc'[g] = "insert", NEW o \in overrides', Overlap(o, draft'[g])
            PROVE  o.id \notin seen'[draft'[g].id]
        <4>1. CASE o = d
          BY <1>1, <2>2, <3>1, <3>2, <4>1
        <4>2. CASE o \in overrides
          BY <1>1, <3>1, <3>2, <4>2 DEF Overriding, CheckedOK
        <4> QED
          BY <2>1, <4>1, <4>2
      <3> QED
        BY <3>2 DEF CheckedOK, Overlap
    <2>8. OverlapOnlyByRace'
      <3>1. \A o \in overrides : Overlap(o, d) => o.id \notin seen[d.id] /\ d.id \notin seen[o.id]
        BY <1>1, <1>4, <2>2 DEF Overriding, CheckedOK, TableOK, OverrideOK
      <3>2. \A o \in overrides : Overlap(d, o) => Overlap(o, d)
        BY DEF Overlap
      <3>3. ASSUME NEW a \in overrides', NEW b \in overrides', a # b, Overlap(a, b)
            PROVE  a.id \notin seen[b.id] /\ b.id \notin seen[a.id]
        <4>1. CASE a \in overrides /\ b \in overrides
          BY <3>3, <4>1 DEF Overriding, OverlapOnlyByRace
        <4>2. CASE a = d \/ b = d
          BY <2>1, <3>1, <3>2, <3>3, <4>2
        <4> QED
          BY <2>1, <4>1, <4>2
      <3> QED
        BY <1>1, <3>3 DEF OverlapOnlyByRace, Overlap
    <2> QED
      BY <2>4, <2>5, <2>6, <2>7, <2>8 DEF Overriding
  <1> QED
    BY <1>3, <1>4

\* Every step keeps the overrides in order.
LEMMA OverridingStep == RowsOK /\ JobsOK /\ Overriding /\ [Next]_vars => Overriding'
PROOF
  <1> SUFFICES ASSUME RowsOK, JobsOK, Overriding, [Next]_vars
               PROVE  Overriding'
    OBVIOUS
  <1>1. \A o \in overrides : o.schedule \in Schedules /\ Exists(o.schedule)
    BY DEF Overriding, TableOK, OverrideOK
  <1>2. ASSUME UNCHANGED <<row, overrides, seen>>,
               \A h \in Handlers : pc'[h] = "insert" => pc[h] = "insert" /\ draft'[h] = draft[h]
        PROVE  Overriding'
    <2>1. \A o \in overrides' : Exists(o.schedule)'
      BY <1>1, <1>2 DEF Exists
    <2> QED
      BY <1>2, <2>1, DropStep
  <1>3. ASSUME NEW s \in Schedules, NEW r \in NewRows, CreateSchedule(s, r)
        PROVE  Overriding'
    <2>1. \A o \in overrides' : Exists(o.schedule)'
      BY <1>1, <1>3 DEF CreateSchedule, Exists, RowsOK
    <2> QED
      BY <1>3, <2>1, DropStep DEF CreateSchedule, jobs
  <1>4. ASSUME NEW s \in Schedules, DeleteSchedule(s)
        PROVE  Overriding'
    <2>1. \A o \in overrides' : Exists(o.schedule)'
      BY <1>1, <1>4 DEF DeleteSchedule, Cascade, Exists, RowsOK
    <2> QED
      BY <1>4, <2>1, DropStep DEF DeleteSchedule, jobs
  <1>5. ASSUME NEW h \in Handlers, NEW s \in Schedules, NEW p \in Patches, PatchSchedule(h, s, p)
        PROVE  Overriding'
    BY <1>2, <1>5 DEF PatchSchedule, JobsOK
  <1>6. ASSUME NEW h \in Handlers, UpdateSchedule(h)
        PROVE  Overriding'
    <2>1. pc[h] = "update" /\ Finish(h) /\ UNCHANGED <<overrides, seen>>
      BY <1>6 DEF UpdateSchedule
    <2>2. pc'[h] = "idle" /\ \A g \in Handlers \ {h} : pc'[g] = pc[g] /\ draft'[g] = draft[g]
      BY <2>1, FinishJobs
    <2>3. RowOK(Merged(h)) /\ target[h] \in Schedules
      BY <2>1, MergedOK DEF JobsOK
    <2>4. Merged(h) \notin {Absent, Deleted}
      BY <2>3, RowExists DEF RowOK
    <2>5. \A o \in overrides' : Exists(o.schedule)'
      <3>1. CASE UNCHANGED row
        BY <1>1, <2>1, <3>1 DEF Exists
      <3>2. CASE row' = [row EXCEPT ![target[h]] = Merged(h)]
        BY <1>1, <2>1, <2>3, <2>4, <3>2 DEF Exists, RowsOK
      <3> QED
        BY <1>6, <3>1, <3>2 DEF UpdateSchedule
    <2> QED
      BY <2>1, <2>2, <2>5, DropStep
  <1>7. ASSUME NEW h \in Handlers, RequestFails(h)
        PROVE  Overriding'
    <2>1. Finish(h) /\ UNCHANGED <<row, overrides, seen>>
      BY <1>7 DEF RequestFails
    <2>2. pc'[h] = "idle" /\ \A g \in Handlers \ {h} : pc'[g] = pc[g] /\ draft'[g] = draft[g]
      BY <2>1, FinishJobs
    <2> QED
      BY <1>2, <2>1, <2>2
  <1>8. ASSUME NEW o \in overrides, DeleteOverride(o)
        PROVE  Overriding'
    <2>1. /\ overrides' \subseteq overrides /\ UNCHANGED <<row, seen, pc, draft>>
      BY <1>8 DEF DeleteOverride, jobs
    <2>2. \A x \in overrides' : Exists(x.schedule)'
      BY <1>1, <2>1 DEF Exists
    <2> QED
      BY <2>1, <2>2, DropStep
  <1>9. CASE UNCHANGED vars
    BY <1>2, <1>9 DEF vars, jobs
  <1> QED
    BY <1>3, <1>4, <1>5, <1>6, <1>7, <1>8, <1>9, CheckStep, InsertStep DEF Next

\* The overrides are in order in every reachable state.
LEMMA OverridingInvariant == Spec => []Overriding
PROOF
  <1>1. Init => Overriding
    BY DEF Init, Overriding, TableOK, DraftsOK, SeenOK, CheckedOK, OverlapOnlyByRace, UsedIds
  <1> QED
    BY <1>1, OverridingStep, RowsInvariant, PTL DEF Spec

\* The overlap check and the insert are two statements: two overrides can overlap, but
\* only when each was checked before the other was inserted.
THEOREM OverlapsAreRaces == Spec => []OverlapOnlyByRace
PROOF
  <1>1. Overriding => OverlapOnlyByRace
    BY DEF Overriding
  <1> QED
    BY <1>1, OverridingInvariant, PTL

\* Every variable keeps the shape the tables and requests have; an override belongs to a
\* schedule that exists, also when the schedule is deleted while a POST is running.
THEOREM SchedulingTypeCorrect == Spec => []TypeOK
PROOF
  <1> DEFINE Bounded == faults \in 0 .. MaxFaults
  <1>1. Init => Bounded
    BY HorizonAssumption DEF Init
  <1>2. Bounded /\ [Next]_vars => Bounded'
    <2>1. [Next]_vars => UNCHANGED faults \/ Fault
      <3>1. ASSUME NEW s, NEW r, CreateSchedule(s, r)
            PROVE  UNCHANGED faults
        BY <3>1 DEF CreateSchedule
      <3>2. ASSUME NEW s, DeleteSchedule(s)
            PROVE  UNCHANGED faults
        BY <3>2 DEF DeleteSchedule
      <3>3. ASSUME NEW h, NEW s, NEW p, PatchSchedule(h, s, p)
            PROVE  UNCHANGED faults
        BY <3>3 DEF PatchSchedule
      <3>4. ASSUME NEW h, NEW i, NEW s, NEW t, NEW u, NEW w, CreateOverride(h, i, s, t, u, w)
            PROVE  UNCHANGED faults
        BY <3>4 DEF CreateOverride
      <3>5. ASSUME NEW h, UpdateSchedule(h)
            PROVE  UNCHANGED faults
        BY <3>5 DEF UpdateSchedule
      <3>6. ASSUME NEW h, InsertOverride(h)
            PROVE  UNCHANGED faults
        BY <3>6 DEF InsertOverride
      <3>7. ASSUME NEW h, RequestFails(h)
            PROVE  Fault
        BY <3>7 DEF RequestFails
      <3>8. ASSUME NEW o, DeleteOverride(o)
            PROVE  UNCHANGED faults
        BY <3>8 DEF DeleteOverride
      <3>9. UNCHANGED vars => UNCHANGED faults
        BY DEF vars
      <3> QED
        BY <3>1, <3>2, <3>3, <3>4, <3>5, <3>6, <3>7, <3>8, <3>9 DEF Next
    <2>2. Bounded /\ Fault => Bounded'
      BY HorizonAssumption DEF Fault
    <2> QED
      BY <2>1, <2>2
  <1>3. RowsOK /\ JobsOK /\ Overriding /\ Bounded => TypeOK
    BY DEF RowsOK, RowOK, JobsOK, Overriding, TableOK, OverrideOK, SeenOK, TypeOK
  <1> QED
    BY <1>1, <1>2, <1>3, RowsInvariant, OverridingInvariant, PTL DEF Spec
-----------------------------------------------------------------------------
(***************************************************************************)
(* The rotation.                                                           *)
(***************************************************************************)

\* What division and remainder are.
LEMMA Division ==
    ASSUME NEW a \in Nat, NEW d \in Nat \ {0}
    PROVE  /\ a \div d \in Nat /\ a % d \in 0 .. d - 1
           /\ a = d * (a \div d) + (a % d)
PROOF
  OBVIOUS

\* A quotient and a remainder determine each other.
LEMMA DivisionUnique ==
    ASSUME NEW d \in Nat \ {0}, NEW q \in Nat, NEW r \in 0 .. d - 1
    PROVE  (d * q + r) \div d = q /\ (d * q + r) % d = r
PROOF
  OBVIOUS

\* Counting on by one commutes with the remainder: the next index of a cycle.
LEMMA NextInCycle ==
    ASSUME NEW n \in Nat, NEW m \in Nat \ {0}
    PROVE  ((n % m) + 1) % m = (n + 1) % m
PROOF
  <1> DEFINE q == n \div m
             r == n % m
  <1>1. q \in Nat /\ r \in 0 .. m - 1 /\ n = m * q + r
    BY Division
  <1> HIDE DEF q, r
  <1>2. CASE r + 1 < m
    <2>1. r + 1 \in 0 .. m - 1 /\ n + 1 = m * q + (r + 1)
      BY <1>1, <1>2
    <2>2. (n + 1) % m = r + 1
      BY <1>1, <2>1, DivisionUnique
    <2>3. r + 1 = m * 0 + (r + 1)
      BY <1>1
    <2>4. (r + 1) % m = r + 1
      BY <2>1, <2>3, DivisionUnique
    <2> QED
      BY <2>2, <2>4 DEF r
  <1>3. CASE r + 1 = m
    <2>1. n + 1 = m * (q + 1) + 0 /\ r + 1 = m * 1 + 0 /\ q + 1 \in Nat /\ 0 \in 0 .. m - 1
      BY <1>1, <1>3
    <2>2. (n + 1) % m = 0
      BY <2>1, DivisionUnique
    <2>3. (r + 1) % m = 0
      BY <2>1, DivisionUnique
    <2> QED
      BY <2>2, <2>3 DEF r
  <1> QED
    BY <1>1, <1>2, <1>3

\* The shift of the rotation at an instant of a row that POST and PATCH let in.
LEMMA ShiftAt ==
    ASSUME NEW r, RowOK(r), NEW t \in Int, t >= Epoch(r),
           NEW d, d = ParseISO8601Duration(r.duration), NEW e, e = Epoch(r)
    PROVE  /\ e \in Int /\ d \in Nat \ {0} /\ ShiftNumber(r, t) \in Nat
           /\ RotationShift(r, t).start = e + ShiftNumber(r, t) * d
           /\ RotationShift(r, t).end = e + (ShiftNumber(r, t) + 1) * d
           /\ RotationShift(r, t).user = r.rotation[(ShiftNumber(r, t) % Len(r.rotation)) + 1]
           /\ ShiftNumber(r, t) = (t - e) \div d
PROOF
  <1>1. d \in Nat \ {0}
    BY DEF RowOK, Parses
  <1>2. e \in Int
    <2>1. r.start \in Int
      BY DEF RowOK
    <2>2. CASE r.zone \in DOMAIN Offset
      BY <2>1, <2>2, InstantsAssumption DEF Epoch
    <2>3. CASE r.zone \notin DOMAIN Offset
      BY <2>1, <2>3 DEF Epoch
    <2> QED
      BY <2>2, <2>3
  <1>3. t - e \in Nat /\ ~(t < Epoch(r))
    BY <1>2
  <1>4. ShiftNumber(r, t) = (t - e) \div d
    BY <1>3 DEF ShiftNumber
  <1>5. ShiftNumber(r, t) \in Nat
    BY <1>1, <1>3, <1>4, Division
  <1>6. /\ RotationShift(r, t).start = e + ShiftNumber(r, t) * d
        /\ RotationShift(r, t).end = e + (ShiftNumber(r, t) + 1) * d
        /\ RotationShift(r, t).user = r.rotation[(ShiftNumber(r, t) % Len(r.rotation)) + 1]
    BY DEF RotationShift
  <1> QED
    BY <1>1, <1>2, <1>4, <1>5, <1>6

\* The rotation of any row hands over without a gap, at any instant from the start on.
LEMMA HandsOver ==
    ASSUME NEW r, RowOK(r), r.rotation # <<>>, NEW t \in Int, t >= Epoch(r),
           NEW sh, sh = RotationShift(r, t), NEW following, following = RotationShift(r, sh.end)
    PROVE  /\ Covers(sh, t)
           /\ following.start = sh.end
           /\ \E k \in DOMAIN r.rotation :
                 /\ r.rotation[k] = sh.user
                 /\ r.rotation[(k % Len(r.rotation)) + 1] = following.user
PROOF
  <1> DEFINE d == ParseISO8601Duration(r.duration)
             e == Epoch(r)
             n == ShiftNumber(r, t)
             m == Len(r.rotation)
  <1>1. /\ e \in Int /\ d \in Nat \ {0} /\ n \in Nat
        /\ sh.start = e + n * d /\ sh.end = e + (n + 1) * d
        /\ sh.user = r.rotation[(n % m) + 1]
        /\ n = (t - e) \div d
    BY ShiftAt
  <1>2. t >= e
    OBVIOUS
  <1>3. m \in Nat \ {0} /\ DOMAIN r.rotation = 1 .. m
    BY DEF RowOK, IsList
  <1> HIDE DEF d, e, n, m
  <1>4. Covers(sh, t)
    <2>1. t - e \in Nat
      BY <1>1, <1>2
    <2>2. (t - e) % d \in 0 .. d - 1 /\ t - e = d * n + ((t - e) % d)
      BY <1>1, <2>1, Division
    <2>3. d * n <= t - e /\ t - e < d * n + d
      BY <1>1, <2>1, <2>2
    <2>4. n * d = d * n /\ (n + 1) * d = d * n + d
      BY <1>1
    <2>5. e + n * d <= t /\ t < e + (n + 1) * d
      BY <1>1, <2>3, <2>4
    <2> QED
      BY <1>1, <2>5 DEF Covers
  <1>5. sh.end \in Int /\ sh.end >= Epoch(r)
    BY <1>1 DEF e
  <1>6. ShiftNumber(r, sh.end) = n + 1
    <2>1. ShiftNumber(r, sh.end) = (sh.end - e) \div d
      BY <1>5, ShiftAt DEF e, d
    <2>2. sh.end - e = d * (n + 1) + 0 /\ n + 1 \in Nat /\ 0 \in 0 .. d - 1
      BY <1>1
    <2>3. (d * (n + 1) + 0) \div d = n + 1
      BY <1>1, <2>2, DivisionUnique
    <2> QED
      BY <2>1, <2>2, <2>3
  <1>7. following.start = e + (n + 1) * d /\ following.user = r.rotation[((n + 1) % m) + 1]
    <2> DEFINE u == sh.end
    <2>1. u \in Int /\ u >= Epoch(r)
      BY <1>5
    <2> HIDE DEF u
    <2>2. /\ RotationShift(r, u).start = e + ShiftNumber(r, u) * d
          /\ RotationShift(r, u).user = r.rotation[(ShiftNumber(r, u) % m) + 1]
      BY <2>1, ShiftAt DEF e, d, m
    <2> QED
      BY <1>6, <2>2 DEF u
  <1>8. (n % m) + 1 \in 1 .. m
    <2>1. n % m \in 0 .. m - 1
      BY <1>1, <1>3, Division
    <2> QED
      BY <1>3, <2>1
  <1>9. (((n % m) + 1) % m) + 1 = ((n + 1) % m) + 1
    BY <1>1, <1>3, NextInCycle
  <1>10. \E k \in DOMAIN r.rotation :
            /\ r.rotation[k] = sh.user
            /\ r.rotation[(k % Len(r.rotation)) + 1] = following.user
    <2>1. /\ (n % m) + 1 \in DOMAIN r.rotation /\ r.rotation[(n % m) + 1] = sh.user
          /\ r.rotation[(((n % m) + 1) % m) + 1] = following.user
      BY <1>1, <1>3, <1>7, <1>8, <1>9
    <2> QED
      BY <2>1 DEF m
  <1> QED
    BY <1>1, <1>4, <1>7, <1>10

\* The rotation hands over without a gap, for every rotation, shift length and zone that
\* POST and PATCH accept: a shift contains the instant asked for, and the next one begins
\* where it ends, with the next person of the rotation.
THEOREM RotationHasNoGap == Spec => []RotationHandsOver
PROOF
  <1>1. RowsOK => RotationHandsOver
    <2> SUFFICES ASSUME RowsOK, NEW s \in Schedules, Exists(s), row[s].rotation # <<>>,
                        NEW t \in 0 .. Horizon, t >= Epoch(row[s]),
                        NEW sh, sh = RotationShift(row[s], t),
                        NEW following, following = RotationShift(row[s], sh.end)
                 PROVE  /\ Covers(sh, t)
                        /\ following.start = sh.end
                        /\ \E k \in DOMAIN row[s].rotation :
                              /\ row[s].rotation[k] = sh.user
                              /\ row[s].rotation[(k % Len(row[s].rotation)) + 1] = following.user
      BY DEF RotationHandsOver
    <2>1. RowOK(row[s]) /\ t \in Int
      BY HorizonAssumption DEF RowsOK
    <2> QED
      BY <2>1, HandsOver
  <1> QED
    BY <1>1, RowsInvariant, PTL

-----------------------------------------------------------------------------
(***************************************************************************)
(* OnCallAt and GenerateShifts.  What the loops, folds and recursive       *)
(* functions of the two algorithms compute is proved for every input: the  *)
(* least counterexample, which the natural numbers have, takes the place   *)
(* of an induction.  First the inner loop of applyOverrides, then the      *)
(* joining of its lists, the loop over the rotation, the query, and at     *)
(* last the two answers.                                                   *)
(***************************************************************************)

\* A set of naturals that is not empty has a least element.
LEMMA LeastExists ==
    ASSUME NEW S \in SUBSET Nat, S # {}
    PROVE  \E x \in S : \A y \in S : x <= y
PROOF
  <1> DEFINE R == OpToRel(<, Nat)
  <1>1. IsWellFoundedOn(R, Nat)
    BY NatLessThanWellFounded
  <1>2. \A x, y \in Nat : y < x => <<y, x>> \in R
    BY DEF OpToRel
  <1> HIDE DEF R
  <1>3. PICK x \in S : \A y \in S : ~(<<y, x>> \in R)
    BY <1>1, WFMin
  <1>4. \A y \in S : ~(y < x)
    BY <1>2, <1>3, Zenon
  <1> QED
    BY <1>4

\* The greatest of some positions is one of them.
LEMMA MaxPosition ==
    ASSUME NEW n \in Nat, NEW S \in SUBSET (1 .. n), S # {}
    PROVE  Max(S) \in S /\ \A x \in S : x <= Max(S)
PROOF
  <1> DEFINE Bounds == {u \in Nat : \A x \in S : x <= u}
  <1>1. Bounds \in SUBSET Nat /\ n \in Bounds
    OBVIOUS
  <1>2. PICK u \in Bounds : \A v \in Bounds : u <= v
    BY <1>1, LeastExists
  <1>3. u \in S
    <2> SUFFICES ASSUME u \notin S
                 PROVE  FALSE
      OBVIOUS
    <2>1. u \in Nat /\ \A x \in S : x \in Nat /\ x >= 1 /\ x <= u /\ x # u
      OBVIOUS
    <2>2. PICK x \in S : TRUE
      OBVIOUS
    <2>3. u - 1 \in Nat /\ \A y \in S : y <= u - 1
      BY <2>1, <2>2
    <2>4. u - 1 \in Bounds
      BY <2>3
    <2> QED
      BY <1>2, <2>1, <2>4
  <1>4. \E x \in S : \A y \in S : x >= y
    BY <1>3
  <1>5. Max(S) \in S /\ \A y \in S : Max(S) >= y
    BY <1>4 DEF Max
  <1> QED
    BY <1>5

\* The greatest of the first k positions.
LEMMA MaxInterval ==
    ASSUME NEW k \in Nat \ {0}
    PROVE  Max(1 .. k) = k /\ (1 .. k) \ {k} = 1 .. k - 1
PROOF
  <1>1. 1 .. k \in SUBSET (1 .. k) /\ k \in 1 .. k
    OBVIOUS
  <1>2. Max(1 .. k) \in 1 .. k /\ k <= Max(1 .. k)
    BY <1>1, MaxPosition
  <1> QED
    BY <1>2

-----------------------------------------------------------------------------
\* The state of the inner loop of applyOverrides after the overrides at the positions S.
Cutting(b, os, it, S) ==
    IF S = {} THEN [cur |-> b.start, out |-> <<>>]
    ELSE CutBy(b, it[S \ {Max(S)}], os[Max(S)])

IsCutting(b, os, it, D) == it = [S \in SUBSET D |-> Cutting(b, os, it, S)]

\* The loop has such states, for any number of overrides.
LEMMA CuttingExists ==
    ASSUME NEW b, NEW os, NEW n \in Nat
    PROVE  \E it : IsCutting(b, os, it, 1 .. n)
PROOF
  <1> DEFINE Bad == {m \in Nat : ~\E it : IsCutting(b, os, it, 1 .. m)}
  <1> SUFFICES ASSUME Bad # {}
               PROVE  FALSE
    OBVIOUS
  <1>1. PICK m \in Bad : \A k \in Bad : m <= k
    BY LeastExists
  <1>2. CASE m = 0
    <2> DEFINE it == [S \in SUBSET (1 .. 0) |-> [cur |-> b.start, out |-> <<>>]]
    <2>1. IsCutting(b, os, it, 1 .. 0)
      BY DEF IsCutting, Cutting
    <2> QED
      BY <1>2, <2>1
  <1>3. CASE m # 0
    <2>1. m - 1 \in Nat /\ m - 1 \notin Bad
      BY <1>1, <1>3
    <2>2. PICK g : IsCutting(b, os, g, 1 .. m - 1)
      BY <2>1
    <2> DEFINE it == [S \in SUBSET (1 .. m) |-> Cutting(b, os, g, S)]
    <2>3. ASSUME NEW S \in SUBSET (1 .. m), S # {}
          PROVE  S \ {Max(S)} \in SUBSET (1 .. m - 1)
      <3>1. m \in Nat
        OBVIOUS
      <3>2. Max(S) \in S /\ \A x \in S : x <= Max(S)
        BY <2>3, <3>1, MaxPosition
      <3>3. ASSUME NEW x \in S \ {Max(S)}
            PROVE  x \in 1 .. m - 1
        <4>1. x \in 1 .. m /\ Max(S) \in 1 .. m /\ x <= Max(S) /\ x # Max(S)
          BY <3>2, <3>3
        <4> HIDE DEF Bad
        <4> QED
          BY <3>1, <4>1
      <3> QED
        BY <3>3
    <2>4. ASSUME NEW S \in SUBSET (1 .. m - 1)
          PROVE  it[S] = g[S]
      <3>1. S \in SUBSET (1 .. m)
        BY <2>1
      <3>2. it[S] = Cutting(b, os, g, S)
        BY <3>1
      <3>3. g[S] = Cutting(b, os, g, S)
        BY <2>2, <2>4, Zenon DEF IsCutting
      <3> QED
        BY <3>2, <3>3
    <2>5. ASSUME NEW S \in SUBSET (1 .. m)
          PROVE  Cutting(b, os, g, S) = Cutting(b, os, it, S)
      <3> HIDE DEF it
      <3> QED
        BY <2>3, <2>4 DEF Cutting
    <2>6. IsCutting(b, os, it, 1 .. m)
      <3>1. it = [S \in SUBSET (1 .. m) |-> Cutting(b, os, it, S)]
        BY <2>5
      <3> HIDE DEF it
      <3> QED
        BY <3>1 DEF IsCutting
    <2> QED
      BY <2>6
  <1> QED
    BY <1>2, <1>3

\* It goes through these states.
LEMMA CuttingFold ==
    ASSUME NEW b, NEW os, NEW n \in Nat, DOMAIN os = 1 .. n
    PROVE  \E it : /\ IsCutting(b, os, it, 1 .. n)
                   /\ CutAll(b, os) = it[1 .. n]
PROOF
  <1> DEFINE it == CHOOSE i : IsCutting(b, os, i, 1 .. n)
  <1>1. IsCutting(b, os, it, 1 .. n)
    BY CuttingExists
  <1>2. CutAll(b, os) = it[1 .. n]
    BY DEF CutAll, FoldLeft, MapThenFoldSet, IsCutting, Cutting
  <1> HIDE DEF it
  <1> QED
    BY <1>1, <1>2

\* So it has a state after each override, made from the one before.
LEMMA CutStates ==
    ASSUME NEW b, NEW os, NEW n \in Nat, DOMAIN os = 1 .. n
    PROVE  \E st : /\ st[0] = [cur |-> b.start, out |-> <<>>]
                   /\ \A k \in 1 .. n : st[k] = CutBy(b, st[k - 1], os[k])
                   /\ CutAll(b, os) = st[n]
PROOF
  <1>1. PICK it : /\ IsCutting(b, os, it, 1 .. n)
                  /\ CutAll(b, os) = it[1 .. n]
    BY CuttingFold
  <1> DEFINE st == [k \in 0 .. n |-> it[1 .. k]]
  <1>2. ASSUME NEW k \in 0 .. n
        PROVE  st[k] = Cutting(b, os, it, 1 .. k)
    <2>1. 1 .. k \in SUBSET (1 .. n)
      OBVIOUS
    <2>2. it[1 .. k] = Cutting(b, os, it, 1 .. k)
      BY <1>1, <2>1, Zenon DEF IsCutting
    <2> QED
      BY <2>2
  <1>3. st[0] = [cur |-> b.start, out |-> <<>>]
    <2>1. 1 .. 0 = {}
      OBVIOUS
    <2>2. 0 \in 0 .. n
      OBVIOUS
    <2> QED
      BY <1>2, <2>1, <2>2 DEF Cutting
  <1>4. ASSUME NEW k \in 1 .. n
        PROVE  st[k] = CutBy(b, st[k - 1], os[k])
    <2>1. k \in Nat \ {0} /\ k \in 0 .. n /\ k - 1 \in 0 .. n /\ 1 \in 1 .. k
      OBVIOUS
    <2>2. Max(1 .. k) = k /\ (1 .. k) \ {k} = 1 .. k - 1
      BY <2>1, MaxInterval
    <2>3. st[k] = CutBy(b, it[1 .. k - 1], os[k])
      BY <1>2, <2>1, <2>2 DEF Cutting
    <2> QED
      BY <2>1, <2>3
  <1>5. st[n] = it[1 .. n]
    OBVIOUS
  <1> HIDE DEF st
  <1> QED
    BY <1>1, <1>3, <1>4, <1>5

-----------------------------------------------------------------------------
\* Lists of shifts, of which it matters only what is in them.
Pieces(U) == [user : U, start : Int, end : Int]

\* What is in two lists joined.
LEMMA ConcatRange ==
    ASSUME NEW X, NEW p \in Seq(X), NEW q \in Seq(X)
    PROVE  p \o q \in Seq(X) /\ Range(p \o q) = Range(p) \cup Range(q)
PROOF
  <1>1. /\ p \o q \in Seq(X) /\ DOMAIN p = 1 .. Len(p) /\ DOMAIN q = 1 .. Len(q)
        /\ DOMAIN (p \o q) = 1 .. Len(p) + Len(q) /\ Len(p) \in Nat /\ Len(q) \in Nat
        /\ \A i \in 1 .. Len(p) : (p \o q)[i] = p[i]
        /\ \A i \in 1 .. Len(q) : (p \o q)[Len(p) + i] = q[i]
    OBVIOUS
  <1> DEFINE r == p \o q
  <1> HIDE DEF r
  <1>2. ASSUME NEW x \in Range(r)
        PROVE  x \in Range(p) \cup Range(q)
    <2>1. PICK k \in 1 .. Len(p) + Len(q) : r[k] = x
      BY <1>1, <1>2 DEF Range, r
    <2>2. CASE k \in 1 .. Len(p)
      BY <1>1, <2>1, <2>2 DEF Range, r
    <2>3. CASE k \notin 1 .. Len(p)
      <3> DEFINE i == k - Len(p)
      <3>1. i \in 1 .. Len(q) /\ Len(p) + i = k
        BY <1>1, <2>1, <2>3
      <3> HIDE DEF i
      <3> QED
        BY <1>1, <2>1, <3>1 DEF Range, r
    <2> QED
      BY <2>2, <2>3
  <1>3. ASSUME NEW x \in Range(p)
        PROVE  x \in Range(r)
    <2>1. PICK k \in 1 .. Len(p) : p[k] = x
      BY <1>1, <1>3 DEF Range
    <2>2. k \in DOMAIN r /\ r[k] = x
      BY <1>1, <2>1 DEF r
    <2> QED
      BY <2>2 DEF Range
  <1>4. ASSUME NEW x \in Range(q)
        PROVE  x \in Range(r)
    <2>1. PICK k \in 1 .. Len(q) : q[k] = x
      BY <1>1, <1>4 DEF Range
    <2>2. Len(p) + k \in DOMAIN r /\ r[Len(p) + k] = x
      BY <1>1, <2>1 DEF r
    <2> QED
      BY <2>2 DEF Range
  <1> QED
    BY <1>1, <1>2, <1>3, <1>4 DEF r

\* What is in a list of one shift, and in the empty list.
LEMMA OneRange ==
    ASSUME NEW X, NEW x \in X
    PROVE  /\ <<x>> \in Seq(X) /\ Range(<<x>>) = {x}
           /\ <<>> \in Seq(X) /\ Range(<<>>) = {}
PROOF
  BY DEF Range

\* Overrides cut to a window, one behind the other, as ListOverridesInWindow and the
\* overlap check leave them.
InOrder(os, n, U) ==
    /\ DOMAIN os = 1 .. n
    /\ \A i \in 1 .. n : os[i] \in Pieces(U) /\ os[i].start < os[i].end
    /\ \A i, j \in 1 .. n : i < j => os[i].end <= os[j].start

\* A shift of the list is an override, or a part of base shift b in which nobody overrides.
Rightful(b, os, x) ==
    \/ \E i \in DOMAIN os : x = os[i]
    \/ /\ x.user = b.user
       /\ \A t \in Int : Covers(x, t) => Covers(b, t) /\ \A i \in DOMAIN os : ~Covers(os[i], t)

\* The inner loop after k overrides: what precedes cur is settled.
Settled(b, os, U, k, a) ==
    /\ a.out \in Seq(Pieces(U)) /\ a.cur \in Int /\ a.cur >= b.start
    /\ \A x \in Range(a.out) : Rightful(b, os, x)
    /\ \A t \in Int : Covers(b, t) /\ t < a.cur => \E x \in Range(a.out) : Covers(x, t)
    /\ \A i \in 1 .. k : os[i].start < b.end /\ os[i].end > b.start => os[i].end <= a.cur

\* The part of b from u to v, where no override is.
LEMMA PartOf ==
    ASSUME NEW U, NEW b \in Pieces(U), NEW n \in Nat, NEW os, InOrder(os, n, U),
           NEW u \in Int, NEW v \in Int, u >= b.start, v <= b.end,
           \A i \in 1 .. n : os[i].start < b.end /\ os[i].end > b.start => os[i].end <= u \/ v <= os[i].start,
           NEW x, x = [b EXCEPT !.start = u, !.end = v]
    PROVE  /\ x \in Pieces(U) /\ Rightful(b, os, x)
           /\ \A t \in Int : u <= t /\ t < v => Covers(x, t)
PROOF
  <1>1. /\ x \in Pieces(U) /\ x.user = b.user /\ x.start = u /\ x.end = v
        /\ b.start \in Int /\ b.end \in Int
    BY DEF Pieces
  <1>2. ASSUME NEW t \in Int, u <= t, t < v
        PROVE  Covers(b, t)
    BY <1>1, <1>2 DEF Covers
  <1>3. ASSUME NEW t \in Int, u <= t, t < v, NEW i \in 1 .. n, Covers(os[i], t)
        PROVE  FALSE
    <2>1. os[i].start \in Int /\ os[i].end \in Int
      BY DEF InOrder, Pieces
    <2> QED
      BY <1>1, <1>3, <2>1 DEF Covers
  <1>4. \A t \in Int : Covers(x, t) <=> u <= t /\ t < v
    BY <1>1 DEF Covers
  <1> QED
    BY <1>1, <1>2, <1>3, <1>4 DEF Rightful, InOrder

\* One more override.
LEMMA CutSettles ==
    ASSUME NEW U, NEW b \in Pieces(U), NEW n \in Nat, NEW os, InOrder(os, n, U),
           NEW k \in 1 .. n, NEW a, Settled(b, os, U, k - 1, a), NEW c, c = CutBy(b, a, os[k])
    PROVE  Settled(b, os, U, k, c)
PROOF
  <1> DEFINE o == os[k]
             hit == o.start < b.end /\ o.end > b.start
  <1>1. /\ o \in Pieces(U) /\ o.start \in Int /\ o.end \in Int /\ o.start < o.end
        /\ b.start \in Int /\ b.end \in Int /\ a.cur \in Int
        /\ \A i \in 1 .. n : os[i].start \in Int /\ os[i].end \in Int /\ os[i].start < os[i].end
    BY DEF InOrder, Pieces, Settled
  <1>2. CASE ~hit
    <2>1. c = a
      BY <1>2 DEF CutBy
    <2>2. \A i \in 1 .. k : i \in 1 .. k - 1 \/ i = k
      OBVIOUS
    <2> QED
      BY <1>2, <2>1, <2>2 DEF Settled
  <1>3. CASE hit
    <2> DEFINE x == [b EXCEPT !.start = a.cur, !.end = o.start]
               part == IF a.cur < o.start THEN <<x>> ELSE <<>>
    <2>1. c = [cur |-> o.end, out |-> a.out \o part \o <<o>>]
      BY <1>1, <1>3 DEF CutBy
    <2>2. /\ x \in Pieces(U) /\ Rightful(b, os, x)
          /\ \A t \in Int : a.cur <= t /\ t < o.start => Covers(x, t)
      <3>1. \A i \in 1 .. n : os[i].start < b.end /\ os[i].end > b.start =>
                os[i].end <= a.cur \/ o.start <= os[i].start
        <4> SUFFICES ASSUME NEW i \in 1 .. n, os[i].start < b.end, os[i].end > b.start
                     PROVE  os[i].end <= a.cur \/ o.start <= os[i].start
          OBVIOUS
        <4>1. CASE i \in 1 .. k - 1
          BY <4>1 DEF Settled
        <4>2. CASE i = k
          BY <1>1, <4>2
        <4>3. CASE i > k
          <5>1. o.end <= os[i].start
            BY <4>3 DEF InOrder
          <5> QED
            BY <1>1, <5>1
        <4> QED
          BY <4>1, <4>2, <4>3
      <3>2. a.cur >= b.start /\ o.start <= b.end
        BY <1>1, <1>3 DEF Settled
      <3> HIDE DEF o
      <3> QED
        BY <1>1, <3>1, <3>2, PartOf
    <2>3. Rightful(b, os, o)
      BY DEF Rightful, InOrder
    <2> DEFINE X == Pieces(U)
               extra == IF a.cur < o.start THEN {x} ELSE {}
    <2>4. part \in Seq(X) /\ Range(part) = extra
      <3> HIDE DEF X, x, o
      <3> QED
        BY <2>2, OneRange DEF X
    <2>5. c.out \in Seq(X) /\ Range(c.out) = Range(a.out) \cup extra \cup {o}
      <3> HIDE DEF X, x, o, part, extra
      <3>1. a.out \in Seq(X) /\ <<o>> \in Seq(X) /\ Range(<<o>>) = {o}
        BY <1>1, OneRange DEF X, Settled
      <3>2. a.out \o part \in Seq(X) /\ Range(a.out \o part) = Range(a.out) \cup extra
        BY <2>4, <3>1, ConcatRange
      <3> DEFINE w == a.out \o part
                 l == <<o>>
      <3>3. c.out = w \o l
        BY <2>1
      <3>4. w \in Seq(X) /\ l \in Seq(X) /\ Range(w) = Range(a.out) \cup extra /\ Range(l) = {o}
        BY <3>1, <3>2
      <3> HIDE DEF w, l
      <3>5. w \o l \in Seq(X) /\ Range(w \o l) = Range(w) \cup Range(l)
        BY <3>4, ConcatRange
      <3> QED
        BY <3>3, <3>4, <3>5
    <2>6. c.cur = o.end
      BY <2>1
    <2> HIDE DEF o, part, x
    <2>7. c.cur \in Int /\ c.cur >= b.start
      BY <1>1, <1>3, <2>6
    <2>8. \A y \in Range(c.out) : Rightful(b, os, y)
      BY <2>2, <2>3, <2>5 DEF Settled
    <2>9. ASSUME NEW t \in Int, Covers(b, t), t < c.cur
          PROVE  \E y \in Range(c.out) : Covers(y, t)
      <3>1. CASE t < a.cur
        BY <2>5, <2>9, <3>1 DEF Settled
      <3>2. CASE a.cur <= t /\ t < o.start
        <4>1. a.cur < o.start
          BY <1>1, <3>2
        <4> QED
          BY <2>2, <2>5, <3>2, <4>1
      <3>3. CASE o.start <= t
        <4>1. Covers(o, t)
          BY <1>1, <2>6, <2>9, <3>3 DEF Covers
        <4> QED
          BY <2>5, <4>1
      <3> QED
        BY <1>1, <3>1, <3>2, <3>3
    <2>10. ASSUME NEW i \in 1 .. k
           PROVE  os[i].end <= c.cur
      <3>1. CASE i = k
        BY <1>1, <2>6, <3>1 DEF o
      <3>2. CASE i < k
        <4>1. os[i].end <= o.start
          BY <3>2 DEF InOrder, o
        <4> QED
          BY <1>1, <2>6, <4>1
      <3> QED
        BY <3>1, <3>2
    <2> QED
      BY <2>5, <2>7, <2>8, <2>9, <2>10 DEF Settled
  <1> QED
    BY <1>2, <1>3

\* The list takes the place of base shift b: its shifts are rightful and leave nothing of b out.
Replaces(b, os, U, list) ==
    /\ list \in Seq(Pieces(U))
    /\ \A x \in Range(list) : Rightful(b, os, x)
    /\ \A t \in Int : Covers(b, t) => \E x \in Range(list) : Covers(x, t)

\* The list ApplyOverrides makes of a base shift does.
LEMMA ApplyOverridesRight ==
    ASSUME NEW U, NEW b \in Pieces(U), NEW n \in Nat, NEW os, InOrder(os, n, U),
           NEW list, list = ApplyOverrides(b, os)
    PROVE  Replaces(b, os, U, list)
PROOF
  <1>1. PICK st : /\ st[0] = [cur |-> b.start, out |-> <<>>]
                  /\ \A k \in 1 .. n : st[k] = CutBy(b, st[k - 1], os[k])
                  /\ CutAll(b, os) = st[n]
    BY CutStates DEF InOrder
  <1> DEFINE Bad == {k \in 0 .. n : ~Settled(b, os, U, k, st[k])}
  <1>2. Bad = {}
    <2> SUFFICES ASSUME Bad # {}
                 PROVE  FALSE
      OBVIOUS
    <2>1. Bad \in SUBSET Nat
      OBVIOUS
    <2>2. PICK k \in Bad : \A j \in Bad : k <= j
      BY <2>1, LeastExists
    <2>3. CASE k = 0
      <3>1. st[0].out = <<>> /\ st[0].cur = b.start /\ b.start \in Int
        BY <1>1 DEF Pieces
      <3>2. Range(<<>>) = {}
        BY DEF Range
      <3>3. Settled(b, os, U, 0, st[0])
        BY <3>1, <3>2 DEF Settled, Covers
      <3> QED
        BY <2>3, <3>3
    <2>4. CASE k # 0
      <3>1. k \in 1 .. n /\ k - 1 \in 0 .. n /\ k - 1 \notin Bad
        BY <2>2, <2>4
      <3>2. Settled(b, os, U, k - 1, st[k - 1])
        BY <3>1
      <3>3. st[k] = CutBy(b, st[k - 1], os[k])
        BY <1>1, <3>1
      <3>4. Settled(b, os, U, k, st[k])
        BY <3>1, <3>2, <3>3, CutSettles
      <3> QED
        BY <3>4
    <2> QED
      BY <2>3, <2>4
  <1> DEFINE a == st[n]
             x == [b EXCEPT !.start = a.cur]
             part == IF a.cur < b.end THEN <<x>> ELSE <<>>
             extra == IF a.cur < b.end THEN {x} ELSE {}
             X == Pieces(U)
  <1>3. Settled(b, os, U, n, a)
    BY <1>2
  <1>4. list = a.out \o part
    BY <1>1 DEF ApplyOverrides
  <1>5. /\ x \in Pieces(U) /\ Rightful(b, os, x)
        /\ \A t \in Int : a.cur <= t /\ t < b.end => Covers(x, t)
    <2>1. x = [b EXCEPT !.start = a.cur, !.end = b.end]
      BY DEF Pieces
    <2>2. a.cur \in Int /\ a.cur >= b.start /\ b.end \in Int /\ b.end <= b.end
      BY <1>3 DEF Settled, Pieces
    <2>3. \A i \in 1 .. n : os[i].start < b.end /\ os[i].end > b.start =>
              os[i].end <= a.cur \/ b.end <= os[i].start
      BY <1>3 DEF Settled
    <2> HIDE DEF a, x
    <2> QED
      BY <2>1, <2>2, <2>3, PartOf
  <1> HIDE DEF a, x
  <1>6. part \in Seq(X) /\ Range(part) = extra
    <2> HIDE DEF X
    <2> QED
      BY <1>5, OneRange DEF X
  <1>7. list \in Seq(X) /\ Range(list) = Range(a.out) \cup extra
    <2> HIDE DEF X, part, extra
    <2>1. a.out \in Seq(X)
      BY <1>3 DEF Settled, X
    <2> DEFINE w == a.out
    <2> HIDE DEF w
    <2>2. w \in Seq(X) /\ list = w \o part
      BY <1>4, <2>1 DEF w
    <2>3. w \o part \in Seq(X) /\ Range(w \o part) = Range(w) \cup Range(part)
      BY <1>6, <2>2, ConcatRange
    <2> QED
      BY <1>6, <2>2, <2>3 DEF w
  <1>8. \A y \in Range(list) : Rightful(b, os, y)
    BY <1>3, <1>5, <1>7 DEF Settled
  <1>9. ASSUME NEW t \in Int, Covers(b, t)
        PROVE  \E y \in Range(list) : Covers(y, t)
    <2>1. CASE t < a.cur
      BY <1>3, <1>7, <1>9, <2>1 DEF Settled
    <2>2. CASE ~(t < a.cur)
      <3>1. a.cur \in Int /\ b.end \in Int /\ t < b.end
        BY <1>3, <1>9 DEF Settled, Covers, Pieces
      <3>2. a.cur <= t /\ a.cur < b.end
        BY <2>2, <3>1
      <3> QED
        BY <1>5, <1>7, <3>1, <3>2
    <2> QED
      BY <2>1, <2>2
  <1> QED
    BY <1>7, <1>8, <1>9 DEF X, Replaces

-----------------------------------------------------------------------------
\* What FlattenSeq has joined after the first i lists.
Joined(seqs, f, i) == IF i = 1 THEN seqs[i] ELSE f[i - 1] \o seqs[i]

\* FlattenSeq joins the lists of a list.
LEMMA FlattenRange ==
    ASSUME NEW X, NEW seqs, NEW n \in Nat \ {0}, seqs \in Seq(Seq(X)), n = Len(seqs)
    PROVE  /\ FlattenSeq(seqs) \in Seq(X)
           /\ \A x : x \in Range(FlattenSeq(seqs)) <=> \E i \in 1 .. n : x \in Range(seqs[i])
PROOF
  <1> DEFINE Is(f, m) == f = [i \in 1 .. m |-> Joined(seqs, f, i)]
             Bad == {m \in Nat : ~\E f : Is(f, m)}
  <1>1. Bad = {}
    <2> SUFFICES ASSUME Bad # {}
                 PROVE  FALSE
      OBVIOUS
    <2>1. PICK m \in Bad : \A j \in Bad : m <= j
      BY LeastExists
    <2>2. CASE m = 0
      <3>1. Is([i \in 1 .. 0 |-> 0], 0)
        OBVIOUS
      <3> QED
        BY <2>2, <3>1
    <2>3. CASE m # 0
      <3>1. m \in Nat /\ m - 1 \in Nat /\ m - 1 \notin Bad
        BY <2>1, <2>3
      <3>2. PICK g : Is(g, m - 1)
        BY <3>1
      <3> DEFINE f == [i \in 1 .. m |-> Joined(seqs, g, i)]
      <3>3. ASSUME NEW i \in 1 .. m - 1
            PROVE  f[i] = g[i]
        <4>1. i \in 1 .. m
          BY <3>1
        <4>2. f[i] = Joined(seqs, g, i)
          BY <4>1
        <4>3. g[i] = Joined(seqs, g, i)
          BY <3>2, <3>3, Zenon
        <4> QED
          BY <4>2, <4>3
      <3>4. ASSUME NEW i \in 1 .. m
            PROVE  Joined(seqs, g, i) = Joined(seqs, f, i)
        <4> HIDE DEF f, Bad, Is
        <4>1. i = 1 \/ i - 1 \in 1 .. m - 1
          BY <3>1
        <4> QED
          BY <3>3, <4>1 DEF Joined
      <3>5. f = [i \in 1 .. m |-> Joined(seqs, f, i)]
        BY <3>4
      <3> HIDE DEF f
      <3> QED
        BY <3>5
    <2> QED
      BY <2>2, <2>3
  <1>2. \E f : Is(f, n)
    BY <1>1
  <1> DEFINE f == CHOOSE h : Is(h, n)
  <1>3. Is(f, n)
    BY <1>2
  <1>4. FlattenSeq(seqs) = f[n]
    BY DEF FlattenSeq, Joined
  <1> HIDE DEF f
  <1>5. \A i \in 1 .. n : f[i] = Joined(seqs, f, i)
    BY <1>3
  <1> HIDE DEF Is, Bad
  <1> DEFINE Good(i) == /\ f[i] \in Seq(X)
                        /\ \A x : x \in Range(f[i]) <=> \E j \in 1 .. i : x \in Range(seqs[j])
             Wrong == {i \in 1 .. n : ~Good(i)}
  <1>6. Wrong = {}
    <2> SUFFICES ASSUME Wrong # {}
                 PROVE  FALSE
      OBVIOUS
    <2>1. Wrong \in SUBSET Nat
      OBVIOUS
    <2>2. PICK m \in Wrong : \A j \in Wrong : m <= j
      BY <2>1, LeastExists
    <2>3. m \in 1 .. n /\ ~Good(m)
      OBVIOUS
    <2>4. ASSUME NEW j \in 1 .. n, j < m
          PROVE  Good(j)
      <3> HIDE DEF Good
      <3>1. j \notin Wrong
        BY <2>2, <2>3, <2>4
      <3> QED
        BY <3>1
    <2> HIDE DEF Wrong
    <2>5. seqs[m] \in Seq(X) /\ f[m] = Joined(seqs, f, m)
      BY <1>5, <2>3
    <2> HIDE DEF Good
    <2>6. CASE m = 1
      <3>1. f[1] = seqs[1]
        BY <2>5, <2>6 DEF Joined
      <3>2. \A j : j \in 1 .. 1 <=> j = 1
        OBVIOUS
      <3>3. Good(1)
        BY <2>5, <2>6, <3>1, <3>2 DEF Good
      <3> QED
        BY <2>3, <2>6, <3>3
    <2>7. CASE m # 1
      <3>1. m - 1 \in 1 .. n /\ m - 1 < m
        BY <2>3, <2>7
      <3>2. Good(m - 1)
        BY <2>4, <3>1
      <3>3. f[m] = f[m - 1] \o seqs[m]
        BY <2>5, <2>7 DEF Joined
      <3>4. \A j : j \in 1 .. m <=> j \in 1 .. m - 1 \/ j = m
        BY <2>3
      <3> DEFINE p == f[m - 1]
                 q == seqs[m]
      <3>5. p \in Seq(X) /\ q \in Seq(X) /\ f[m] = p \o q
        BY <2>5, <3>2, <3>3 DEF Good
      <3> HIDE DEF p, q
      <3>6. f[m] \in Seq(X) /\ Range(f[m]) = Range(p) \cup Range(q)
        BY <3>5, ConcatRange
      <3>7. ASSUME NEW x
            PROVE  x \in Range(f[m]) <=> \E j \in 1 .. m : x \in Range(seqs[j])
        <4>1. x \in Range(p) <=> \E j \in 1 .. m - 1 : x \in Range(seqs[j])
          BY <3>2 DEF Good, p
        <4> QED
          BY <3>4, <3>6, <4>1 DEF q
      <3>8. Good(m)
        BY <3>6, <3>7 DEF Good
      <3> QED
        BY <2>3, <3>8
    <2> QED
      BY <2>6, <2>7
  <1>7. Good(n)
    <2>1. n \in 1 .. n
      OBVIOUS
    <2> QED
      BY <1>6, <2>1
  <1> QED
    BY <1>4, <1>7

-----------------------------------------------------------------------------
\* The arithmetic of a shift that begins q after the epoch e and lasts d.
LEMMA ShiftBounds ==
    ASSUME NEW e \in Int, NEW q \in Nat, NEW d \in Nat, NEW x, NEW y, x = e + q, y = e + q + d
    PROVE  /\ x \in Int /\ y \in Int
           /\ \A t, u \in Int : (x <= u /\ u < y /\ (u = t \/ (u = e /\ t < e)))
                                 => t < y /\ (x <= t \/ x = e)
           /\ \A v \in Int : (x <= v /\ v < y)
                              => (v - e) - q \in 0 .. d - 1 /\ v - e = q + ((v - e) - q)
PROOF
  OBVIOUS

\* The shift of the rotation at any instant ends after it, begins at it or before it, unless
\* the rotation has not begun, and belongs to one person.
LEMMA ShiftOf ==
    ASSUME NEW r, RowOK(r), r.rotation # <<>>, NEW t \in Int,
           NEW sh, sh = RotationShift(r, t), NEW e, e = Epoch(r)
    PROVE  /\ sh \in Pieces(Range(r.rotation)) /\ e \in Int
           /\ t < sh.end /\ (sh.start <= t \/ sh.start = e)
           /\ \A v \in Int : v >= e /\ Covers(sh, v) => RotationShift(r, v).user = sh.user
PROOF
  <1> DEFINE d == ParseISO8601Duration(r.duration)
             u == IF t < e THEN e ELSE t
             n == ShiftNumber(r, u)
             m == Len(r.rotation)
  <1>0. e \in Int
    <2>1. r.start \in Int
      BY DEF RowOK
    <2>2. CASE r.zone \in DOMAIN Offset
      BY <2>1, <2>2, InstantsAssumption DEF Epoch
    <2>3. CASE r.zone \notin DOMAIN Offset
      BY <2>1, <2>3 DEF Epoch
    <2> QED
      BY <2>2, <2>3
  <1>1. u \in Int /\ u >= e /\ t <= u /\ (u = t \/ (u = e /\ t < e))
    BY <1>0
  <1>2. ShiftNumber(r, t) = n
    <2>1. CASE t < e
      BY <1>0, <2>1 DEF ShiftNumber
    <2>2. CASE ~(t < e)
      BY <2>2
    <2> QED
      BY <2>1, <2>2
  <1> HIDE DEF u
  <1>3. /\ d \in Nat \ {0} /\ n \in Nat /\ n = (u - e) \div d
        /\ RotationShift(r, u).start = e + n * d /\ RotationShift(r, u).end = e + (n + 1) * d
        /\ RotationShift(r, u).user = r.rotation[(n % m) + 1]
    BY <1>1, ShiftAt
  <1>4. sh = RotationShift(r, u)
    BY <1>2 DEF RotationShift
  <1>5. m \in Nat \ {0} /\ DOMAIN r.rotation = 1 .. m
    BY DEF RowOK, IsList
  <1>6. sh = [user |-> sh.user, start |-> sh.start, end |-> sh.end] /\ sh.user \in Range(r.rotation)
    <2>1. sh = [user |-> sh.user, start |-> sh.start, end |-> sh.end]
      BY DEF RotationShift
    <2> HIDE DEF n, m, d
    <2>2. n % m \in 0 .. m - 1
      BY <1>3, <1>5, Division
    <2>3. (n % m) + 1 \in DOMAIN r.rotation
      BY <1>5, <2>2
    <2>4. sh.user \in Range(r.rotation)
      BY <1>3, <1>4, <2>3 DEF Range
    <2> QED
      BY <2>1, <2>4
  <1> HIDE DEF n, m, d
  <1>7. n * d = d * n /\ (n + 1) * d = d * n + d /\ d * n \in Nat
    BY <1>3
  <1>8. e + d * n <= u /\ u < e + d * n + d
    <2>1. u - e \in Nat
      BY <1>0, <1>1
    <2>2. (u - e) % d \in 0 .. d - 1 /\ u - e = d * n + ((u - e) % d)
      BY <1>3, <2>1, Division
    <2> DEFINE q == d * n
               z == (u - e) % d
    <2>3. q \in Nat /\ z \in 0 .. d - 1 /\ u - e = q + z /\ u \in Int /\ e \in Int /\ d \in Nat
      BY <1>0, <1>1, <1>3, <1>7, <2>2
    <2> HIDE DEF q, z
    <2>4. e + q <= u /\ u < e + q + d
      BY <2>3
    <2> QED
      BY <2>4 DEF q
  <1> DEFINE q == d * n
  <1>9. sh.start = e + q /\ sh.end = e + q + d /\ q \in Nat
    <2>1. sh.end = e + (q + d)
      BY <1>3, <1>4, <1>7
    <2> QED
      BY <1>0, <1>3, <1>4, <1>7, <2>1
  <1>10. q \in Nat /\ d \in Nat
    BY <1>3, <1>9
  <1>12. sh.start <= u /\ u < sh.end
    BY <1>8, <1>9
  <1> DEFINE x == sh.start
             y == sh.end
  <1>13. x = e + q /\ y = e + q + d
    BY <1>9
  <1> HIDE DEF q, x, y
  <1>14. /\ x \in Int /\ y \in Int
         /\ \A a, b \in Int : (x <= b /\ b < y /\ (b = a \/ (b = e /\ a < e)))
                               => a < y /\ (x <= a \/ x = e)
         /\ \A v \in Int : (x <= v /\ v < y)
                            => (v - e) - q \in 0 .. d - 1 /\ v - e = q + ((v - e) - q)
    BY <1>0, <1>10, <1>13, ShiftBounds
  <1>15. t < y /\ (x <= t \/ x = e)
    <2>1. x <= u /\ u < y
      BY <1>12 DEF x, y
    <2> QED
      BY <1>1, <1>14, <2>1
  <1>16. sh \in Pieces(Range(r.rotation))
    BY <1>6, <1>14 DEF Pieces, x, y
  <1>11. ASSUME NEW v \in Int, v >= e, Covers(sh, v)
         PROVE  RotationShift(r, v).user = sh.user
    <2> DEFINE z == (v - e) - q
    <2>1. z \in 0 .. d - 1 /\ v - e = q + z
      <3>1. x <= v /\ v < y
        BY <1>11 DEF Covers, x, y
      <3> QED
        BY <1>14, <3>1
    <2> HIDE DEF z
    <2>2. (d * n + z) \div d = n
      BY <1>3, <2>1, DivisionUnique
    <2>5. v - e = d * n + z
      BY <2>1 DEF q
    <2>3. /\ ShiftNumber(r, v) = (v - e) \div d
          /\ RotationShift(r, v).user = r.rotation[(ShiftNumber(r, v) % m) + 1]
      BY <1>11, ShiftAt DEF d, m
    <2>4. ShiftNumber(r, v) = n
      BY <2>2, <2>3, <2>5
    <2> QED
      BY <1>3, <1>4, <2>3, <2>4
  <1> QED
    BY <1>0, <1>11, <1>15, <1>16 DEF x, y

\* A shift of the rotation as GenerateShifts lists it, and the list from `cur' on.
Base(r, to, cur) ==
    LET sh == RotationShift(r, cur)
    IN [sh EXCEPT !.end = IF sh.end > to THEN to ELSE sh.end]
Rest(r, to, f, cur) ==
    IF cur = to THEN <<>> ELSE <<Base(r, to, cur)>> \o f[Base(r, to, cur).end]

\* The shift listed at instant t ends after t and not after the window; it covers the instants
\* from t to its end, and each instant it covers belongs to its person.
LEMMA BaseOf ==
    ASSUME NEW r, RowOK(r), r.rotation # <<>>, NEW to \in Int, NEW t \in Int, t < to,
           NEW b, b = Base(r, to, t)
    PROVE  /\ b \in Pieces(Range(r.rotation)) /\ t < b.end /\ b.end <= to /\ b.end \in Int
           /\ \A v \in Int : v >= Epoch(r) /\ Covers(b, v) => RotationShift(r, v).user = b.user
           /\ \A v \in Int : v >= Epoch(r) /\ t <= v /\ v < b.end => Covers(b, v)
PROOF
  <1> DEFINE sh == RotationShift(r, t)
             e == Epoch(r)
  <1>1. /\ sh \in Pieces(Range(r.rotation)) /\ e \in Int
        /\ t < sh.end /\ (sh.start <= t \/ sh.start = e)
        /\ \A v \in Int : v >= e /\ Covers(sh, v) => RotationShift(r, v).user = sh.user
    BY ShiftOf
  <1>2. b = [sh EXCEPT !.end = IF sh.end > to THEN to ELSE sh.end]
    BY DEF Base
  <1> HIDE DEF sh, e
  <1>3. sh.start \in Int /\ sh.end \in Int
    BY <1>1 DEF Pieces
  <1>4. b.user = sh.user /\ b.start = sh.start /\ b.end = IF sh.end > to THEN to ELSE sh.end
    BY <1>1, <1>2 DEF Pieces
  <1>5. b \in Pieces(Range(r.rotation))
    BY <1>1, <1>2, <1>3 DEF Pieces
  <1>6. t < b.end /\ b.end <= to /\ b.end <= sh.end /\ b.end \in Int
    BY <1>1, <1>3, <1>4
  <1>7. ASSUME NEW v \in Int, v >= e, Covers(b, v)
        PROVE  RotationShift(r, v).user = b.user
    <2>1. Covers(sh, v)
      BY <1>3, <1>4, <1>6, <1>7 DEF Covers
    <2> QED
      BY <1>1, <1>4, <1>7, <2>1
  <1>8. ASSUME NEW v \in Int, v >= e, t <= v, v < b.end
        PROVE  Covers(b, v)
    BY <1>1, <1>3, <1>4, <1>6, <1>8 DEF Covers
  <1> QED
    BY <1>5, <1>6, <1>7, <1>8 DEF e

\* f is the recursive function of BaseShifts, from instant m on.
IsRest(r, to, f, m) == f = [cur \in m .. to |-> Rest(r, to, f, cur)]

\* It exists: the list from an instant on refers to the list from a later one.
LEMMA RestExists ==
    ASSUME NEW r, RowOK(r), r.rotation # <<>>, NEW from \in Int, NEW to \in Int, from <= to
    PROVE  \E f : IsRest(r, to, f, from)
PROOF
  <1> DEFINE Bad == {k \in Nat : ~\E f : IsRest(r, to, f, to - k)}
  <1>1. Bad = {}
    <2> SUFFICES ASSUME Bad # {}
                 PROVE  FALSE
      OBVIOUS
    <2>1. PICK k \in Bad : \A j \in Bad : k <= j
      BY LeastExists
    <2>2. CASE k = 0
      <3> DEFINE f == [cur \in to .. to |-> <<>>]
      <3>1. \A cur \in to .. to : Rest(r, to, f, cur) = <<>>
        BY DEF Rest
      <3>2. IsRest(r, to, f, to)
        BY <3>1 DEF IsRest
      <3>3. to - 0 = to
        OBVIOUS
      <3> QED
        BY <2>2, <3>2, <3>3
    <2>3. CASE k # 0
      <3>1. k \in Nat /\ k - 1 \in Nat /\ k - 1 \notin Bad
        <4>1. k \in Nat
          OBVIOUS
        <4> HIDE DEF Bad
        <4>2. k - 1 \in Nat /\ ~(k <= k - 1)
          BY <2>3, <4>1
        <4> QED
          BY <2>1, <4>1, <4>2
      <3>2. PICK g : IsRest(r, to, g, to - (k - 1))
        BY <3>1
      <3> DEFINE m == to - k
                 l == to - (k - 1)
                 f == [cur \in m .. to |-> Rest(r, to, g, cur)]
      <3>3. m \in Int /\ l \in Int /\ l = m + 1
        BY <3>1
      <3>4. g = [cur \in l .. to |-> Rest(r, to, g, cur)]
        BY <3>2 DEF IsRest
      <3> HIDE DEF Bad, m, l
      <3>5. ASSUME NEW i \in l .. to
            PROVE  f[i] = g[i]
        <4>1. i \in m .. to
          BY <3>3
        <4>2. f[i] = Rest(r, to, g, i)
          BY <4>1
        <4>3. g[i] = Rest(r, to, g, i)
          BY <3>4, <3>5, Zenon
        <4> QED
          BY <4>2, <4>3
      <3> HIDE DEF f
      <3>6. ASSUME NEW i \in m .. to
            PROVE  Rest(r, to, g, i) = Rest(r, to, f, i)
        <4>1. CASE i = to
          BY <4>1 DEF Rest
        <4>2. CASE i # to
          <5>1. i \in Int /\ i < to /\ m <= i
            BY <3>3, <4>2
          <5> DEFINE b == Base(r, to, i)
          <5>2. i < b.end /\ b.end <= to /\ b.end \in Int
            BY <5>1, BaseOf
          <5> HIDE DEF b
          <5>3. b.end \in l .. to
            BY <3>3, <5>1, <5>2
          <5>4. f[b.end] = g[b.end]
            BY <3>5, <5>3
          <5> QED
            BY <4>2, <5>4 DEF Rest, b
        <4> QED
          BY <4>1, <4>2
      <3>7. f = [cur \in m .. to |-> Rest(r, to, f, cur)]
        BY <3>6 DEF f
      <3>8. IsRest(r, to, f, m)
        BY <3>7 DEF IsRest
      <3>9. \E h : IsRest(r, to, h, to - k)
        BY <3>8 DEF m
      <3> QED
        BY <3>9 DEF Bad
    <2> QED
      BY <2>2, <2>3
  <1>2. to - from \in Nat /\ to - (to - from) = from
    OBVIOUS
  <1>3. to - from \notin Bad
    BY <1>1
  <1> QED
    BY <1>2, <1>3

\* What GenerateShifts has listed from `cur' on: shifts of the rotation, each with the
\* person of the rotation, that leave out no instant from the start date on.
Listed(r, to, cur, list) ==
    /\ list \in Seq(Pieces(Range(r.rotation)))
    /\ \A b \in Range(list) : \A t \in Int :
          t >= Epoch(r) /\ Covers(b, t) => RotationShift(r, t).user = b.user
    /\ \A t \in Int : t >= Epoch(r) /\ cur <= t /\ t < to => \E b \in Range(list) : Covers(b, t)

\* One round of the loop.
LEMMA ListedStep ==
    ASSUME NEW r, RowOK(r), r.rotation # <<>>, NEW to \in Int, NEW cur \in Int, cur < to,
           NEW b, b = Base(r, to, cur), NEW tail, Listed(r, to, b.end, tail)
    PROVE  Listed(r, to, cur, <<b>> \o tail)
PROOF
  <1> DEFINE X == Pieces(Range(r.rotation))
             list == <<b>> \o tail
  <1>1. /\ b \in X /\ cur < b.end /\ b.end <= to /\ b.end \in Int
        /\ \A v \in Int : v >= Epoch(r) /\ Covers(b, v) => RotationShift(r, v).user = b.user
        /\ \A v \in Int : v >= Epoch(r) /\ cur <= v /\ v < b.end => Covers(b, v)
    BY BaseOf
  <1>2. tail \in Seq(X)
    BY DEF Listed
  <1> HIDE DEF X
  <1>3. <<b>> \in Seq(X) /\ Range(<<b>>) = {b}
    BY <1>1, OneRange
  <1>4. list \in Seq(X) /\ Range(list) = Range(<<b>>) \cup Range(tail)
    <2> DEFINE one == <<b>>
    <2>1. one \in Seq(X)
      BY <1>3
    <2> HIDE DEF one
    <2>2. one \o tail \in Seq(X) /\ Range(one \o tail) = Range(one) \cup Range(tail)
      BY <1>2, <2>1, ConcatRange
    <2> QED
      BY <2>2 DEF one
  <1>5. \A x : x \in Range(list) <=> x = b \/ x \in Range(tail)
    BY <1>3, <1>4
  <1> HIDE DEF list
  <1>6. ASSUME NEW x \in Range(list), NEW t \in Int, t >= Epoch(r), Covers(x, t)
        PROVE  RotationShift(r, t).user = x.user
    <2>1. CASE x = b
      BY <1>1, <1>6, <2>1
    <2>2. CASE x \in Range(tail)
      BY <1>6, <2>2 DEF Listed
    <2> QED
      BY <1>5, <1>6, <2>1, <2>2
  <1>7. ASSUME NEW t \in Int, t >= Epoch(r), cur <= t, t < to
        PROVE  \E x \in Range(list) : Covers(x, t)
    <2>1. CASE t < b.end
      BY <1>1, <1>5, <1>7, <2>1
    <2>2. CASE ~(t < b.end)
      <3>1. b.end <= t
        BY <1>1, <2>2
      <3>2. PICK x \in Range(tail) : Covers(x, t)
        BY <1>7, <3>1 DEF Listed
      <3> QED
        BY <1>5, <3>2
    <2> QED
      BY <2>1, <2>2
  <1>8. Listed(r, to, cur, list)
    BY <1>4, <1>6, <1>7 DEF Listed, X
  <1> QED
    BY <1>8 DEF list

\* The loop of GenerateShifts lists the whole window.
LEMMA BaseRight ==
    ASSUME NEW r, RowOK(r), r.rotation # <<>>, NEW from \in Int, NEW to \in Int, from <= to
    PROVE  Listed(r, to, from, BaseShifts(r, from, to))
PROOF
  <1> DEFINE f == CHOOSE h : IsRest(r, to, h, from)
  <1>1. IsRest(r, to, f, from)
    BY RestExists
  <1>2. BaseShifts(r, from, to) = f[from]
    BY DEF BaseShifts, IsRest, Rest, Base
  <1> HIDE DEF f
  <1>3. \A cur \in from .. to : f[cur] = Rest(r, to, f, cur)
    BY <1>1, Zenon DEF IsRest
  <1> DEFINE Good(k) == Listed(r, to, to - k, f[to - k])
             Wrong == {k \in 0 .. to - from : ~Good(k)}
  <1>4. Wrong = {}
    <2> SUFFICES ASSUME Wrong # {}
                 PROVE  FALSE
      OBVIOUS
    <2> HIDE DEF Good
    <2>1. Wrong \in SUBSET Nat
      OBVIOUS
    <2>2. PICK k \in Wrong : \A j \in Wrong : k <= j
      BY <2>1, LeastExists
    <2>3. k \in 0 .. to - from /\ ~Good(k)
      OBVIOUS
    <2>4. \A j \in 0 .. to - from : j < k => Good(j)
      BY <2>2, <2>3
    <2> HIDE DEF Wrong
    <2> DEFINE cur == to - k
    <2>5. cur \in Int /\ cur \in from .. to /\ cur <= to
      BY <2>3
    <2>6. f[cur] = Rest(r, to, f, cur)
      BY <1>3, <2>5
    <2>7. (k = 0) <=> (cur = to)
      BY <2>3
    <2> HIDE DEF cur
    <2>8. CASE cur = to
      <3>1. f[cur] = <<>> /\ Range(<<>>) = {} /\ \A X : <<>> \in Seq(X)
        BY <2>6, <2>8 DEF Rest, Range
      <3>2. \A t \in Int : ~(cur <= t /\ t < to)
        BY <2>5, <2>8
      <3>3. Listed(r, to, cur, f[cur])
        BY <3>1, <3>2 DEF Listed
      <3> QED
        BY <2>3, <3>3 DEF Good, cur
    <2>9. CASE cur # to
      <3> DEFINE b == Base(r, to, cur)
      <3>1. cur < to
        BY <2>5, <2>9
      <3>2. cur < b.end /\ b.end <= to /\ b.end \in Int
        BY <2>5, <3>1, BaseOf
      <3>3. f[cur] = <<b>> \o f[b.end]
        BY <2>6, <2>9 DEF Rest
      <3> HIDE DEF b
      <3> DEFINE j == to - b.end
      <3>4. j \in 0 .. to - from /\ j < k /\ to - j = b.end
        BY <2>3, <3>2 DEF cur
      <3> HIDE DEF j
      <3>5. Listed(r, to, b.end, f[b.end])
        BY <2>4, <3>4 DEF Good
      <3>6. Listed(r, to, cur, <<b>> \o f[b.end])
        BY <2>5, <3>1, <3>5, ListedStep DEF b
      <3> QED
        BY <2>3, <3>3, <3>6 DEF Good, cur
    <2> QED
      BY <2>8, <2>9
  <1> DEFINE k == to - from
  <1>5. k \in 0 .. to - from /\ to - k = from
    OBVIOUS
  <1> HIDE DEF k
  <1>6. Good(k)
    BY <1>4, <1>5
  <1> QED
    BY <1>2, <1>5, <1>6

\* Among finitely many overrides one starts last.
LEMMA LatestExists ==
    ASSUME NEW S, IsFiniteSet(S), \A x \in S : x.start \in Int, S # {}
    PROVE  \E x \in S : \A y \in S : y.start <= x.start
PROOF
  <1> DEFINE HasLatest(T) == \E x \in T : \A y \in T : y.start <= x.start
             Bad == {k \in Nat : \E T \in SUBSET S : T # {} /\ Cardinality(T) = k /\ ~HasLatest(T)}
  <1>1. Bad = {}
    <2> SUFFICES ASSUME Bad # {}
                 PROVE  FALSE
      OBVIOUS
    <2> HIDE DEF HasLatest
    <2>1. PICK k \in Bad : \A j \in Bad : k <= j
      BY LeastExists
    <2>2. PICK T \in SUBSET S : T # {} /\ Cardinality(T) = k /\ ~HasLatest(T)
      OBVIOUS
    <2>3. PICK a \in T : TRUE
      BY <2>2
    <2> DEFINE R == T \ {a}
    <2>4. k \in Nat
      OBVIOUS
    <2>5. IsFiniteSet(T)
      BY FS_Subset
    <2>6. R \in SUBSET S /\ Cardinality(R) = k - 1 /\ Cardinality(R) \in Nat
      BY <2>2, <2>5, FS_RemoveElement, FS_CardinalityType
    <2>7. k - 1 \notin Bad
      <3> HIDE DEF Bad
      <3>1. ~(k <= k - 1)
        BY <2>4
      <3> QED
        BY <2>1, <3>1
    <2>8. CASE R = {}
      <3>1. \A y \in T : y = a
        BY <2>8
      <3>2. a.start \in Int
        BY <2>3
      <3>3. HasLatest(T)
        BY <2>3, <3>1, <3>2 DEF HasLatest
      <3> QED
        BY <2>2, <3>3
    <2>9. CASE R # {}
      <3>1. HasLatest(R)
        BY <2>6, <2>7, <2>9
      <3> HIDE DEF Bad
      <3>2. PICK x \in R : \A y \in R : y.start <= x.start
        BY <3>1 DEF HasLatest
      <3>3. a.start \in Int /\ x.start \in Int /\ x \in T /\ \A y \in T : y \in R \/ y = a
        BY <2>3
      <3>4. \A y \in T : y.start \in Int
        OBVIOUS
      <3> HIDE DEF R
      <3>5. CASE a.start <= x.start
        <4>1. \A y \in T : y.start <= x.start
          BY <3>2, <3>3, <3>5
        <4> QED
          BY <2>2, <3>3, <4>1 DEF HasLatest
      <3>6. CASE ~(a.start <= x.start)
        <4>1. ASSUME NEW y \in T
              PROVE  y.start <= a.start
          <5>1. y.start \in Int /\ (y = a \/ y.start <= x.start)
            BY <3>2, <3>3, <3>4
          <5> QED
            BY <3>3, <3>6, <5>1
        <4> QED
          BY <2>2, <2>3, <4>1 DEF HasLatest
      <3> QED
        BY <3>5, <3>6
    <2> QED
      BY <2>8, <2>9
  <1>2. Cardinality(S) \in Nat /\ S \in SUBSET S
    BY FS_CardinalityType
  <1> HIDE DEF HasLatest
  <1>3. HasLatest(S)
    BY <1>1, <1>2
  <1> QED
    BY <1>3 DEF HasLatest

\* The rows of a query, ordered by start.
Sorted(os, S) ==
    /\ os \in SetToSeqs(S)
    /\ \A i, j \in DOMAIN os : i < j => os[i].start <= os[j].start

\* One more row at the end.
LEMMA SortedAppend ==
    ASSUME NEW T, IsFiniteSet(T), NEW a \in T, \A y \in T : y.start <= a.start,
           NEW g, Sorted(g, T \ {a})
    PROVE  \E f : Sorted(f, T)
PROOF
  <1> DEFINE R == T \ {a}
             k == Cardinality(T)
             f == [i \in 1 .. k |-> IF i = k THEN a ELSE g[i]]
  <1>1. k \in Nat /\ k # 0 /\ Cardinality(R) = k - 1
    BY FS_RemoveElement, FS_CardinalityType, FS_EmptySet
  <1>2. g \in [1 .. k - 1 -> R] /\ \A i, j \in 1 .. k - 1 : i # j => g[i] # g[j]
    BY <1>1, Zenon DEF Sorted, SetToSeqs
  <1>3. \A i, j \in 1 .. k - 1 : i < j => g[i].start <= g[j].start
    BY <1>2 DEF Sorted
  <1> HIDE DEF k
  <1>4. ASSUME NEW i \in 1 .. k, i # k
        PROVE  i \in 1 .. k - 1 /\ g[i] \in T /\ g[i] # a
    <2>1. i \in 1 .. k - 1
      BY <1>1, <1>4
    <2> QED
      BY <1>2, <2>1
  <1>5. DOMAIN f = 1 .. k /\ \A i \in 1 .. k : f[i] = IF i = k THEN a ELSE g[i]
    OBVIOUS
  <1>6. f \in [1 .. k -> T]
    BY <1>4
  <1> HIDE DEF f
  <1>7. ASSUME NEW i \in 1 .. k, NEW j \in 1 .. k, i # j
        PROVE  f[i] # f[j]
    BY <1>2, <1>4, <1>5, <1>7
  <1>8. ASSUME NEW i \in 1 .. k, NEW j \in 1 .. k, i < j
        PROVE  f[i].start <= f[j].start
    <2>1. i # k /\ i \in Int /\ j \in Int
      BY <1>1, <1>8
    <2>2. i \in 1 .. k - 1 /\ g[i] \in T /\ f[i] = g[i]
      BY <1>4, <1>5, <2>1
    <2>3. CASE j = k
      BY <1>5, <2>2, <2>3
    <2>4. CASE j # k
      <3>1. j \in 1 .. k - 1 /\ f[j] = g[j]
        BY <1>4, <1>5, <2>4
      <3> QED
        BY <1>3, <1>8, <2>2, <3>1
    <2> QED
      BY <2>3, <2>4
  <1>9. f \in SetToSeqs(T)
    BY <1>6, <1>7 DEF SetToSeqs, k
  <1> QED
    BY <1>5, <1>8, <1>9 DEF Sorted

\* A query has an answer: finitely many rows can be ordered by start.
LEMMA SortedExists ==
    ASSUME NEW S, IsFiniteSet(S), \A x \in S : x.start \in Int
    PROVE  \E os : Sorted(os, S)
PROOF
  <1> DEFINE Bad == {k \in Nat : \E T \in SUBSET S : Cardinality(T) = k /\ ~\E f : Sorted(f, T)}
  <1>1. Bad = {}
    <2> SUFFICES ASSUME Bad # {}
                 PROVE  FALSE
      OBVIOUS
    <2>1. PICK k \in Bad : \A j \in Bad : k <= j
      BY LeastExists
    <2>2. PICK T \in SUBSET S : Cardinality(T) = k /\ ~\E f : Sorted(f, T)
      OBVIOUS
    <2>3. k \in Nat /\ IsFiniteSet(T)
      BY FS_Subset
    <2>4. CASE T = {}
      <3>1. Cardinality(T) = 0
        BY <2>4, FS_EmptySet
      <3> DEFINE f == [i \in 1 .. 0 |-> 0]
      <3>2. f \in [1 .. 0 -> T] /\ DOMAIN f = 1 .. 0 /\ \A i \in 1 .. 0 : FALSE
        OBVIOUS
      <3>3. Sorted(f, T)
        BY <3>1, <3>2 DEF Sorted, SetToSeqs
      <3> QED
        BY <2>2, <3>3
    <2>5. CASE T # {}
      <3>1. PICK a \in T : \A y \in T : y.start <= a.start
        BY <2>3, <2>5, LatestExists
      <3>2. T \ {a} \in SUBSET S /\ Cardinality(T \ {a}) = k - 1 /\ Cardinality(T \ {a}) \in Nat
        BY <2>2, <2>3, FS_RemoveElement, FS_CardinalityType
      <3>3. k - 1 \notin Bad
        <4> HIDE DEF Bad
        <4>1. ~(k <= k - 1)
          BY <2>3
        <4> QED
          BY <2>1, <4>1
      <3>4. PICK g : Sorted(g, T \ {a})
        BY <3>2, <3>3
      <3>5. \E f : Sorted(f, T)
        BY <2>3, <3>1, <3>4, SortedAppend
      <3> QED
        BY <2>2, <3>5
    <2> QED
      BY <2>4, <2>5
  <1>2. Cardinality(S) \in Nat /\ S \in SUBSET S
    BY FS_CardinalityType
  <1> QED
    BY <1>1, <1>2

\* A row of the query is at some position.
LEMMA SortedOnto ==
    ASSUME NEW S, IsFiniteSet(S), NEW os, Sorted(os, S), NEW n, n = Cardinality(S)
    PROVE  /\ n \in Nat /\ DOMAIN os = 1 .. n /\ os \in [1 .. n -> S]
           /\ \A i, j \in 1 .. n : i # j => os[i] # os[j]
           /\ \A i, j \in 1 .. n : i < j => os[i].start <= os[j].start
           /\ \A x \in S : \E i \in 1 .. n : os[i] = x
PROOF
  <1>1. n \in Nat
    BY FS_CardinalityType
  <1>2. os \in [1 .. n -> S] /\ \A i, j \in 1 .. n : i # j => os[i] # os[j]
    BY DEF Sorted, SetToSeqs
  <1>3. DOMAIN os = 1 .. n
    BY <1>2
  <1>4. os \in Injection(1 .. n, S)
    BY <1>2 DEF Injection, IsInjective
  <1>5. Cardinality(1 .. n) = n
    <2>1. 1 \in Int /\ n \in Int
      BY <1>1
    <2>2. Cardinality(1 .. n) = IF 1 > n THEN 0 ELSE n - 1 + 1
      BY <2>1, FS_Interval, Zenon
    <2> QED
      BY <1>1, <2>2
  <1>6. os \in Surjection(1 .. n, S)
    BY <1>4, <1>5, FS_Injection
  <1>7. \A x \in S : \E i \in 1 .. n : os[i] = x
    BY <1>6 DEF Surjection
  <1>8. \A i, j \in 1 .. n : i < j => os[i].start <= os[j].start
    BY <1>3 DEF Sorted
  <1> QED
    BY <1>1, <1>2, <1>3, <1>7, <1>8

\* The table holds finitely many overrides.
LEMMA FiniteTable == Spec => []IsFiniteSet(overrides)
PROOF
  <1>1. Init => IsFiniteSet(overrides)
    BY FS_EmptySet DEF Init
  <1>2. IsFiniteSet(overrides) /\ [Next]_vars => IsFiniteSet(overrides)'
    <2> SUFFICES ASSUME IsFiniteSet(overrides), [Next]_vars
                 PROVE  IsFiniteSet(overrides')
      OBVIOUS
    <2> DEFINE Less == overrides' \in SUBSET overrides
               More == \E x : overrides' = overrides \cup {x}
    <2>1. ASSUME NEW s \in Schedules, NEW r \in NewRows, CreateSchedule(s, r)
          PROVE  Less
      BY <2>1 DEF CreateSchedule
    <2>2. ASSUME NEW s \in Schedules, DeleteSchedule(s)
          PROVE  Less
      BY <2>2 DEF DeleteSchedule
    <2>3. ASSUME NEW h \in Handlers, NEW s \in Schedules, NEW p \in Patches, PatchSchedule(h, s, p)
          PROVE  Less
      BY <2>3 DEF PatchSchedule
    <2>4. ASSUME NEW h \in Handlers, NEW i \in OverrideIds, NEW s \in Schedules, NEW t \in Tenants,
                 NEW u \in Users, NEW w \in Windows, CreateOverride(h, i, s, t, u, w)
          PROVE  Less
      BY <2>4 DEF CreateOverride
    <2>5. ASSUME NEW h \in Handlers, UpdateSchedule(h)
          PROVE  Less
      BY <2>5 DEF UpdateSchedule
    <2>6. ASSUME NEW h \in Handlers, InsertOverride(h)
          PROVE  Less \/ More
      BY <2>6 DEF InsertOverride
    <2>7. ASSUME NEW h \in Handlers, RequestFails(h)
          PROVE  Less
      BY <2>7 DEF RequestFails
    <2>8. ASSUME NEW o \in overrides, DeleteOverride(o)
          PROVE  Less
      BY <2>8 DEF DeleteOverride
    <2>9. ASSUME UNCHANGED vars
          PROVE  Less
      BY <2>9 DEF vars
    <2>10. Less \/ More
      <3> HIDE DEF Less, More
      <3> QED
        BY <2>1, <2>2, <2>3, <2>4, <2>5, <2>6, <2>7, <2>8, <2>9 DEF Next
    <2>11. CASE Less
      BY <2>11, FS_Subset
    <2>12. CASE More
      BY <2>12, FS_AddElement
    <2> QED
      BY <2>10, <2>11, <2>12
  <1> QED
    BY <1>1, <1>2, PTL DEF Spec

\* An override of schedule s that counts: inserted under the tenant of the schedule.
Counts(s, o) == o \in overrides /\ o.schedule = s /\ o.tenant = Owner[s]
InWindow(s, from, to) == {o \in overrides : /\ o.schedule = s /\ o.tenant = Owner[s]
                                            /\ o.start < to /\ o.end > from}

\* ListOverridesInWindow returns the overrides of the window, each once, ordered by start.
LEMMA WindowRows ==
    ASSUME TableOK, IsFiniteSet(overrides), NEW s, NEW from \in Int, NEW to \in Int,
           NEW S, S = InWindow(s, from, to), NEW os, os = OverridesInWindow(s, from, to),
           NEW n, n = Cardinality(S)
    PROVE  /\ n \in Nat /\ DOMAIN os = 1 .. n
           /\ \A i \in 1 .. n : /\ Counts(s, os[i]) /\ os[i].start \in Int /\ os[i].end \in Int
                                /\ os[i].start < os[i].end /\ os[i].start < to /\ os[i].end > from
           /\ \A i, j \in 1 .. n : i # j => os[i] # os[j]
           /\ \A i, j \in 1 .. n : i < j => os[i].start <= os[j].start
           /\ \A o : Counts(s, o) /\ o.start < to /\ o.end > from => \E i \in 1 .. n : os[i] = o
PROOF
  <1>1. S \in SUBSET overrides
    BY DEF InWindow
  <1>2. IsFiniteSet(S)
    BY <1>1, FS_Subset
  <1>3. \A x \in S : x.start \in Int /\ x.end \in Int /\ x.start < x.end
    BY <1>1 DEF TableOK, OverrideOK
  <1>4. \E f : Sorted(f, S)
    BY <1>2, <1>3, SortedExists
  <1>5. os = CHOOSE f \in SetToSeqs(S) : \A i, j \in DOMAIN f : i < j => f[i].start <= f[j].start
    BY DEF OverridesInWindow, InWindow
  <1>6. Sorted(os, S)
    BY <1>4, <1>5 DEF Sorted
  <1>7. /\ n \in Nat /\ DOMAIN os = 1 .. n /\ os \in [1 .. n -> S]
        /\ \A i, j \in 1 .. n : i # j => os[i] # os[j]
        /\ \A i, j \in 1 .. n : i < j => os[i].start <= os[j].start
        /\ \A x \in S : \E i \in 1 .. n : os[i] = x
    BY <1>2, <1>6, SortedOnto
  <1>8. \A o : o \in S <=> Counts(s, o) /\ o.start < to /\ o.end > from
    BY DEF InWindow, Counts
  <1>9. \A i \in 1 .. n : os[i] \in S
    BY <1>7
  <1> QED
    BY <1>3, <1>7, <1>8, <1>9

\* Two overrides that count and cover the same instant are the same one.
LEMMA OneCovers ==
    ASSUME TableOK, NEW s, Orderly(s), NEW t \in Int, NEW a, NEW b,
           Counts(s, a), Counts(s, b), Covers(a, t), Covers(b, t)
    PROVE  a = b
PROOF
  <1>1. a \in overrides /\ b \in overrides /\ a.schedule = b.schedule
    BY DEF Counts
  <1>2. a.start \in Int /\ a.end \in Int /\ b.start \in Int /\ b.end \in Int
    BY <1>1 DEF TableOK, OverrideOK
  <1>3. a.start < b.end /\ b.start < a.end
    BY <1>2 DEF Covers
  <1> QED
    BY <1>1, <1>3 DEF Orderly, Overlap

\* OnCallAt names the person of the override that covers the instant, and without one the
\* person of the rotation.
LEMMA OnCallAtRight ==
    ASSUME TableOK, IsFiniteSet(overrides), NEW s, Orderly(s), NEW t \in Int
    PROVE  /\ \A o : Counts(s, o) /\ Covers(o, t) => OnCallAt(s, t) = o.user
           /\ (\A o : Counts(s, o) => ~Covers(o, t)) => OnCallAt(s, t) = RotationShift(row[s], t).user
PROOF
  <1> DEFINE os == OverridesInWindow(s, t, t + 1)
             n == Cardinality(InWindow(s, t, t + 1))
             found == {k \in DOMAIN os : Covers(os[k], t)}
  <1>1. t + 1 \in Int
    OBVIOUS
  <1>2. /\ n \in Nat /\ DOMAIN os = 1 .. n
        /\ \A i \in 1 .. n : Counts(s, os[i])
        /\ \A o : Counts(s, o) /\ o.start < t + 1 /\ o.end > t => \E i \in 1 .. n : os[i] = o
    BY <1>1, WindowRows
  <1>3. OnCallAt(s, t) = IF found # {} THEN os[Min(found)].user ELSE RotationShift(row[s], t).user
    BY DEF OnCallAt
  <1> HIDE DEF os, n
  <1>4. found \in SUBSET Nat
    BY <1>2
  <1>5. ASSUME NEW o, Counts(s, o), Covers(o, t)
        PROVE  OnCallAt(s, t) = o.user
    <2>1. o.start \in Int /\ o.end \in Int
      BY <1>5 DEF TableOK, OverrideOK, Counts
    <2>2. o.start < t + 1 /\ o.end > t
      BY <1>5, <2>1 DEF Covers
    <2>3. PICK i \in 1 .. n : os[i] = o
      BY <1>2, <1>5, <2>2
    <2>4. i \in found
      BY <1>2, <1>5, <2>3
    <2>5. \E x \in found : \A y \in found : x <= y
      <3>1. found # {}
        BY <2>4
      <3> HIDE DEF found
      <3> QED
        BY <1>4, <3>1, LeastExists
    <2>6. Min(found) \in found
      <3> HIDE DEF found
      <3> QED
        BY <2>5 DEF Min
    <2> DEFINE k == Min(found)
    <2>7. k \in 1 .. n /\ Covers(os[k], t)
      BY <1>2, <2>6
    <2>8. OnCallAt(s, t) = os[k].user
      BY <1>3, <2>4
    <2> HIDE DEF k
    <2>9. os[k] = o
      BY <1>2, <1>5, <2>7, OneCovers
    <2> QED
      BY <2>8, <2>9
  <1>6. ASSUME \A o : Counts(s, o) => ~Covers(o, t)
        PROVE  OnCallAt(s, t) = RotationShift(row[s], t).user
    <2>1. found = {}
      BY <1>2, <1>6
    <2> QED
      BY <1>3, <2>1
  <1> QED
    BY <1>5, <1>6

\* The n pieces cl stand for the overrides of the window: they come one after the other, each
\* is part of an override that counts, and each of these is there.
AreOverrides(s, from, to, cl, n, U) ==
    /\ n \in Nat /\ InOrder(cl, n, U)
    /\ \A i \in 1 .. n : \A t \in Int : Covers(cl[i], t) =>
          \E o : Counts(s, o) /\ Covers(o, t) /\ cl[i].user = o.user
    /\ \A o : \A t \in Int : Counts(s, o) /\ Covers(o, t) /\ from <= t /\ t < to =>
          \E i \in 1 .. n : Covers(cl[i], t)

\* So do the overrides that GenerateShifts cuts to the window.
LEMMA ClampedInOrder ==
    ASSUME TableOK, IsFiniteSet(overrides), NEW s, Orderly(s),
           NEW from \in Int, NEW to \in Int, from < to,
           NEW U, \A o \in overrides : o.user \in U,
           NEW os, os = OverridesInWindow(s, from, to),
           NEW cl, cl = [k \in DOMAIN os |-> Clamp(os[k], from, to)],
           NEW n, n = Cardinality(InWindow(s, from, to))
    PROVE  AreOverrides(s, from, to, cl, n, U)
PROOF
  <1>1. /\ n \in Nat /\ DOMAIN os = 1 .. n
        /\ \A i \in 1 .. n : /\ Counts(s, os[i]) /\ os[i].start \in Int /\ os[i].end \in Int
                             /\ os[i].start < os[i].end /\ os[i].start < to /\ os[i].end > from
        /\ \A i, j \in 1 .. n : i # j => os[i] # os[j]
        /\ \A i, j \in 1 .. n : i < j => os[i].start <= os[j].start
        /\ \A o : Counts(s, o) /\ o.start < to /\ o.end > from => \E i \in 1 .. n : os[i] = o
    BY WindowRows
  <1>2. DOMAIN cl = 1 .. n /\ \A i \in 1 .. n : cl[i] = Clamp(os[i], from, to)
    BY <1>1
  <1>3. ASSUME NEW i \in 1 .. n
        PROVE  /\ cl[i] \in Pieces(U) /\ cl[i].user = os[i].user
               /\ cl[i].start = IF os[i].start < from THEN from ELSE os[i].start
               /\ cl[i].end = IF os[i].end > to THEN to ELSE os[i].end
    <2> DEFINE o == os[i]
    <2>1. o \in overrides /\ o.start \in Int /\ o.end \in Int /\ cl[i] = Clamp(o, from, to)
      BY <1>1, <1>2, <1>3 DEF Counts
    <2> HIDE DEF o
    <2>2. o.user \in U
      BY <2>1
    <2>3. (IF o.start < from THEN from ELSE o.start) \in Int /\ (IF o.end > to THEN to ELSE o.end) \in Int
      BY <2>1
    <2>4. Clamp(o, from, to) \in Pieces(U)
      BY <2>2, <2>3 DEF Clamp, Pieces
    <2> QED
      BY <2>1, <2>4 DEF Clamp, o
  <1>4. ASSUME NEW i \in 1 .. n
        PROVE  cl[i].start < cl[i].end
    <2> DEFINE a == os[i].start
               b == os[i].end
    <2>1. a \in Int /\ b \in Int /\ a < b /\ a < to /\ b > from
      BY <1>1
    <2>2. cl[i].start = (IF a < from THEN from ELSE a) /\ cl[i].end = (IF b > to THEN to ELSE b)
      BY <1>3
    <2> HIDE DEF a, b
    <2> QED
      BY <2>1, <2>2
  <1>5. ASSUME NEW i \in 1 .. n, NEW j \in 1 .. n, i < j
        PROVE  cl[i].end <= cl[j].start
    <2> DEFINE a == os[i]
               b == os[j]
    <2>1. i # j
      BY <1>1, <1>5
    <2>2. /\ Counts(s, a) /\ Counts(s, b) /\ a # b /\ a.start <= b.start
          /\ a.start \in Int /\ a.end \in Int /\ b.start \in Int /\ b.end \in Int
          /\ b.start < b.end
      BY <1>1, <1>5, <2>1
    <2>3. /\ cl[i].end = IF a.end > to THEN to ELSE a.end
          /\ cl[j].start = IF b.start < from THEN from ELSE b.start
      BY <1>3
    <2> HIDE DEF a, b
    <2>4. ~(a.start < b.end /\ b.start < a.end)
      BY <2>2 DEF Orderly, Overlap, Counts
    <2>5. a.end <= b.start
      BY <2>2, <2>4
    <2> QED
      BY <2>2, <2>3, <2>5
  <1>6. InOrder(cl, n, U)
    BY <1>2, <1>3, <1>4, <1>5 DEF InOrder
  <1>7. ASSUME NEW i \in 1 .. n, NEW t \in Int, from <= t, t < to
        PROVE  Covers(cl[i], t) <=> Covers(os[i], t)
    <2> DEFINE a == os[i].start
               b == os[i].end
               x == cl[i].start
               y == cl[i].end
    <2>1. a \in Int /\ b \in Int
      BY <1>1
    <2>2. x = (IF a < from THEN from ELSE a) /\ y = (IF b > to THEN to ELSE b)
      BY <1>3
    <2> HIDE DEF a, b, x, y
    <2>3. (x <= t /\ t < y) <=> (a <= t /\ t < b)
      BY <1>7, <2>1, <2>2
    <2> QED
      BY <2>3 DEF Covers, a, b, x, y
  <1>8. ASSUME NEW i \in 1 .. n, NEW t \in Int, Covers(cl[i], t)
        PROVE  \E o : Counts(s, o) /\ Covers(o, t) /\ cl[i].user = o.user
    <2> DEFINE a == os[i].start
               b == os[i].end
               x == cl[i].start
               y == cl[i].end
    <2>1. a \in Int /\ b \in Int /\ x <= t /\ t < y
      BY <1>1, <1>8 DEF Covers
    <2>2. x = (IF a < from THEN from ELSE a) /\ y = (IF b > to THEN to ELSE b)
      BY <1>3
    <2> HIDE DEF a, b, x, y
    <2>3. a <= t /\ t < b
      BY <2>1, <2>2
    <2>4. Covers(os[i], t)
      BY <2>3 DEF Covers, a, b
    <2> QED
      BY <1>1, <1>3, <2>4
  <1>9. ASSUME NEW o, NEW t \in Int, Counts(s, o), Covers(o, t), from <= t, t < to
        PROVE  \E i \in 1 .. n : Covers(cl[i], t)
    <2>1. o.start \in Int /\ o.end \in Int
      BY <1>9 DEF TableOK, OverrideOK, Counts
    <2>2. o.start < to /\ o.end > from
      BY <1>9, <2>1 DEF Covers
    <2>3. PICK i \in 1 .. n : os[i] = o
      BY <1>1, <1>9, <2>2
    <2> QED
      BY <1>7, <1>9, <2>3
  <1> QED
    BY <1>1, <1>6, <1>8, <1>9 DEF AreOverrides

\* A list of shifts is right about an instant: somebody is listed, and only the person
\* OnCallAt names.
Right(s, t, list) ==
    /\ \E x \in Range(list) : Covers(x, t)
    /\ \A x \in Range(list) : Covers(x, t) => x.user = OnCallAt(s, t)

\* Without overrides in the window the list is the rotation.
LEMMA RightWithout ==
    ASSUME RowsOK, TableOK, IsFiniteSet(overrides), NEW s \in Schedules, Orderly(s),
           NEW from \in Int, NEW to \in Int, NEW t \in Int, from <= t, t < to, t >= Epoch(row[s]),
           \A o : Counts(s, o) => ~Covers(o, t)
    PROVE  Right(s, t, BaseShifts(row[s], from, to))
PROOF
  <1> DEFINE r == row[s]
             base == BaseShifts(r, from, to)
  <1>1. RowOK(r) /\ r.rotation # <<>>
    BY DEF Orderly, RowsOK
  <1>2. Listed(r, to, from, base)
    BY <1>1, BaseRight
  <1>3. OnCallAt(s, t) = RotationShift(r, t).user
    BY OnCallAtRight
  <1> HIDE DEF base
  <1>4. Right(s, t, base)
    BY <1>2, <1>3 DEF Listed, Right
  <1> QED
    BY <1>4 DEF base

\* With overrides, each base shift is replaced by the list applyOverrides makes of it.
LEMMA RightWith ==
    ASSUME RowsOK, TableOK, IsFiniteSet(overrides), NEW s \in Schedules, Orderly(s),
           NEW from \in Int, NEW to \in Int, NEW t \in Int, from <= t, t < to, t >= Epoch(row[s]),
           NEW base, base = BaseShifts(row[s], from, to),
           NEW os, os = OverridesInWindow(s, from, to),
           NEW cl, cl = [k \in DOMAIN os |-> Clamp(os[k], from, to)]
    PROVE  Right(s, t, FlattenSeq([k \in DOMAIN base |-> ApplyOverrides(base[k], cl)]))
PROOF
  <1> DEFINE r == row[s]
             U == Range(r.rotation) \cup {o.user : o \in overrides}
             X == Pieces(U)
             n == Cardinality(InWindow(s, from, to))
             seqs == [k \in DOMAIN base |-> ApplyOverrides(base[k], cl)]
             m == Len(base)
             list == FlattenSeq(seqs)
  <1>1. RowOK(r) /\ r.rotation # <<>>
    BY DEF Orderly, RowsOK
  <1>2. Listed(r, to, from, base)
    BY <1>1, BaseRight
  <1>3. \A o \in overrides : o.user \in U
    OBVIOUS
  <1>4. \A x \in Pieces(Range(r.rotation)) : x \in X
    BY DEF Pieces
  <1> HIDE DEF r, U
  <1>5. /\ n \in Nat /\ InOrder(cl, n, U)
        /\ \A i \in 1 .. n : \A v \in Int : Covers(cl[i], v) =>
              \E o : Counts(s, o) /\ Covers(o, v) /\ cl[i].user = o.user
        /\ \A o : \A v \in Int : Counts(s, o) /\ Covers(o, v) /\ from <= v /\ v < to =>
              \E i \in 1 .. n : Covers(cl[i], v)
    <2>1. from < to
      OBVIOUS
    <2>2. n = Cardinality(InWindow(s, from, to))
      OBVIOUS
    <2> HIDE DEF X, n, seqs, m, list
    <2>3. AreOverrides(s, from, to, cl, n, U)
      BY <1>3, <2>1, <2>2, ClampedInOrder
    <2> QED
      BY <2>3 DEF AreOverrides
  <1>6. DOMAIN cl = 1 .. n
    BY <1>5 DEF InOrder
  <1> HIDE DEF n
  <1>7. /\ base \in Seq(Pieces(Range(r.rotation))) /\ m \in Nat /\ DOMAIN base = 1 .. m
        /\ \A i \in 1 .. m : base[i] \in X /\ base[i] \in Range(base)
    <2>1. base \in Seq(Pieces(Range(r.rotation)))
      BY <1>2 DEF Listed
    <2> DEFINE Y == Pieces(Range(r.rotation))
    <2> HIDE DEF Y, X
    <2>2. m \in Nat /\ DOMAIN base = 1 .. m /\ \A i \in 1 .. m : base[i] \in Y
      BY <2>1 DEF Y
    <2>3. \A i \in 1 .. m : base[i] \in Range(base)
      BY <2>2 DEF Range
    <2> QED
      BY <1>4, <2>1, <2>2, <2>3 DEF Y
  <1> HIDE DEF X
  <1>8. ASSUME NEW i \in 1 .. m
        PROVE  /\ seqs[i] \in Seq(X)
               /\ \A x \in Range(seqs[i]) : Rightful(base[i], cl, x)
               /\ \A v \in Int : Covers(base[i], v) => \E x \in Range(seqs[i]) : Covers(x, v)
    <2>1. seqs[i] = ApplyOverrides(base[i], cl)
      BY <1>7
    <2> HIDE DEF seqs, m
    <2>2. base[i] \in Pieces(U)
      BY <1>7 DEF X
    <2>3. InOrder(cl, n, U) /\ n \in Nat
      BY <1>5
    <2>4. Replaces(base[i], cl, U, seqs[i])
      BY <2>1, <2>2, <2>3, ApplyOverridesRight
    <2> QED
      BY <2>4 DEF Replaces, X
  <1>9. PICK b \in Range(base) : Covers(b, t)
    <2>1. \A v \in Int : v >= Epoch(r) /\ from <= v /\ v < to => \E b \in Range(base) : Covers(b, v)
      BY <1>2 DEF Listed
    <2> QED
      BY <2>1 DEF r
  <1>10. PICK h \in 1 .. m : base[h] = b
    BY <1>7, <1>9 DEF Range
  <1>11. /\ list \in Seq(X)
         /\ \A x : x \in Range(list) <=> \E i \in 1 .. m : x \in Range(seqs[i])
    <2>1. DOMAIN seqs = 1 .. m
      BY <1>7
    <2>2. m \in Nat \ {0}
      BY <1>7, <1>10
    <2> HIDE DEF seqs, m
    <2>3. \A i \in 1 .. m : seqs[i] \in Seq(X)
      BY <1>8
    <2> DEFINE Z == Seq(X)
    <2>4. seqs \in Seq(Z) /\ Len(seqs) = m
      <3>1. seqs = [i \in 1 .. m |-> seqs[i]]
        BY <2>1 DEF seqs
      <3>2. \A i \in 1 .. m : seqs[i] \in Z
        BY <2>3
      <3> HIDE DEF Z
      <3>3. seqs \in [1 .. m -> Z]
        BY <3>1, <3>2
      <3> QED
        BY <1>7, <2>1, <3>3
    <2> QED
      BY <2>2, <2>4, FlattenRange
  <1> HIDE DEF seqs, m, list
  <1>12. \E x \in Range(list) : Covers(x, t)
    BY <1>8, <1>9, <1>10, <1>11
  <1>13. ASSUME NEW x \in Range(list), Covers(x, t)
         PROVE  x.user = OnCallAt(s, t)
    <2>1. PICK i \in 1 .. m : x \in Range(seqs[i])
      BY <1>11
    <2>2. Rightful(base[i], cl, x)
      BY <1>8, <2>1
    <2>3. CASE \E j \in DOMAIN cl : x = cl[j]
      <3>1. PICK j \in 1 .. n : x = cl[j]
        BY <1>6, <2>3
      <3>2. PICK o : Counts(s, o) /\ Covers(o, t) /\ cl[j].user = o.user
        BY <1>5, <1>13, <3>1
      <3>3. OnCallAt(s, t) = o.user
        BY <3>2, OnCallAtRight
      <3> QED
        BY <3>1, <3>2, <3>3
    <2>4. CASE /\ x.user = base[i].user
               /\ \A v \in Int : Covers(x, v) => Covers(base[i], v) /\ \A j \in DOMAIN cl : ~Covers(cl[j], v)
      <3>1. Covers(base[i], t) /\ \A j \in 1 .. n : ~Covers(cl[j], t)
        BY <1>6, <1>13, <2>4
      <3>2. \A o : Counts(s, o) => ~Covers(o, t)
        BY <1>5, <3>1
      <3>3. OnCallAt(s, t) = RotationShift(r, t).user
        BY <3>2, OnCallAtRight DEF r
      <3>4. base[i] \in Range(base) /\ t >= Epoch(r)
        BY <1>7 DEF r
      <3>5. RotationShift(r, t).user = base[i].user
        BY <1>2, <3>1, <3>4 DEF Listed
      <3> QED
        BY <2>4, <3>3, <3>5
    <2> QED
      BY <2>2, <2>3, <2>4 DEF Rightful
  <1> QED
    BY <1>12, <1>13 DEF Right, list, seqs

\* GenerateShifts agrees with OnCallAt in any window.
LEMMA ShiftsRight ==
    ASSUME RowsOK, TableOK, IsFiniteSet(overrides), NEW s \in Schedules, Orderly(s),
           NEW from \in Int, NEW to \in Int, NEW t \in Int, from <= t, t < to, t >= Epoch(row[s])
    PROVE  Right(s, t, GenerateShifts(s, from, to))
PROOF
  <1> DEFINE base == BaseShifts(row[s], from, to)
             os == OverridesInWindow(s, from, to)
             cl == [k \in DOMAIN os |-> Clamp(os[k], from, to)]
             joined == FlattenSeq([k \in DOMAIN base |-> ApplyOverrides(base[k], cl)])
  <1>1. GenerateShifts(s, from, to) = IF cl = <<>> THEN base ELSE joined
    BY DEF GenerateShifts
  <1>2. Right(s, t, joined)
    BY RightWith
  <1>3. ASSUME cl = <<>>
        PROVE  Right(s, t, base)
    <2> DEFINE n == Cardinality(InWindow(s, from, to))
    <2>1. DOMAIN os = {}
      <3>1. DOMAIN cl = DOMAIN os
        OBVIOUS
      <3> HIDE DEF os, cl
      <3>2. DOMAIN cl = {}
        BY <1>3
      <3> QED
        BY <3>1, <3>2
    <2>2. /\ DOMAIN os = 1 .. n
          /\ \A o : Counts(s, o) /\ o.start < to /\ o.end > from => \E i \in 1 .. n : os[i] = o
      BY WindowRows
    <2> HIDE DEF os, n, base, cl
    <2>3. ASSUME NEW o, Counts(s, o), Covers(o, t)
          PROVE  FALSE
      <3>1. o.start \in Int /\ o.end \in Int
        BY <2>3 DEF TableOK, OverrideOK, Counts
      <3>2. o.start < to /\ o.end > from
        BY <2>3, <3>1 DEF Covers
      <3> QED
        BY <2>1, <2>2, <2>3, <3>2
    <2> QED
      BY <2>3, RightWithout DEF base
  <1> HIDE DEF base, joined
  <1> QED
    BY <1>1, <1>2, <1>3

\* The two algorithms of rotation.go agree in every reachable state, for any rotation, shift
\* length, time zone and overrides that do not overlap: each instant of a window from the start
\* date on is in the shifts of the person OnCallAt names, and of nobody else.
THEOREM ShiftsMatchOnCall == Spec => []ShiftsAgreeWithOnCall
PROOF
  <1>1. RowsOK /\ TableOK /\ IsFiniteSet(overrides) => ShiftsAgreeWithOnCall
    <2> SUFFICES ASSUME RowsOK, TableOK, IsFiniteSet(overrides), NEW s \in Schedules, NEW v \in Views,
                        Orderly(s), NEW t \in v[1] .. v[2] - 1, t >= Epoch(row[s]),
                        NEW shifts, shifts = GenerateShifts(s, v[1], v[2])
                 PROVE  {shifts[k].user : k \in {j \in DOMAIN shifts : Covers(shifts[j], t)}}
                            = {OnCallAt(s, t)}
      BY DEF ShiftsAgreeWithOnCall
    <2>1. v[1] \in Int /\ v[2] \in Int
      BY HorizonAssumption DEF Views
    <2>2. t \in Int /\ v[1] <= t /\ t < v[2]
      BY <2>1
    <2>3. Right(s, t, shifts)
      BY <2>1, <2>2, ShiftsRight
    <2>4. \A x : x \in Range(shifts) <=> \E k \in DOMAIN shifts : x = shifts[k]
      BY DEF Range
    <2> QED
      BY <2>3, <2>4 DEF Right
  <1>2. Overriding => TableOK
    BY DEF Overriding
  <1> QED
    BY <1>1, <1>2, RowsInvariant, OverridingInvariant, FiniteTable, PTL
===============================================================================
