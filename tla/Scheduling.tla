----------------------------- MODULE Scheduling -----------------------------
(***************************************************************************)
(* Schedules, overrides and who is on call: rotation.go, and the schedule  *)
(* and override parts of handler.go and store.go, under                    *)
(* services/scheduling/internal.                                           *)
(*                                                                         *)
(* Requests run concurrently and share the database only.  PATCH reads the *)
(* row and writes it back, POST of an override looks for overlaps and then *)
(* inserts: the calls in between are other requests.  The answers (who is  *)
(* on call at an instant, the shifts of a window) are operators over the   *)
(* rows.                                                                   *)
(*                                                                         *)
(* Instants are integers, a tick being the second that GetOnCall adds to   *)
(* its window.  Durations are short, so that the 63 bits of a              *)
(* time.Duration do not overflow.                                          *)
(***************************************************************************)
EXTENDS Integers, Sequences, FiniteSets, SequencesExt

CONSTANTS
    Schedules,    \* ids the database may hand out
    Tenants,      \* tenant slugs
    Owner,        \* Owner[s]: the tenant under which schedule s is created
    OverrideIds,  \* override ids the database may hand out
    Users,        \* user ids
    NewRows,      \* the schedules clients may POST
    Patches,      \* the bodies clients may PATCH: some of the columns
    Windows,      \* the <<start_at, end_at>> of POSTed overrides
    UnitTicks,    \* length of each unit of an ISO 8601 duration, in ticks
    Offset,       \* Offset[z]: UTC offset of the time zones LoadLocation knows
    Horizon,      \* the instants looked at are 0 .. Horizon
    Handlers,     \* HTTP request goroutines
    MaxRequests,  \* bound: PATCH, POST and DELETE requests after the first POST
    MaxFaults     \* bound: failed database calls and crashes

ASSUME OwnerAssumption == Owner \in [Schedules -> Tenants]
ASSUME UnitsAssumption == UnitTicks \in [{"W", "D", "H", "M", "S"} -> Nat]
\* A POSTed schedule has all the columns and a PATCH some; a rotation is a list, and
\* dates, offsets and windows are instants.
Columns == {"zone", "rotation", "duration", "start"}
IsList(q) == q \in Seq(Range(q))
ASSUME RowsAssumption ==
    \A r \in NewRows : DOMAIN r = Columns /\ IsList(r.rotation) /\ r.start \in Int
ASSUME PatchesAssumption ==
    \A p \in Patches : /\ DOMAIN p \subseteq Columns
                       /\ "rotation" \in DOMAIN p => IsList(p.rotation)
                       /\ "start" \in DOMAIN p => p.start \in Int
ASSUME InstantsAssumption ==
    /\ \A z \in DOMAIN Offset : Offset[z] \in Int
    /\ \A w \in Windows : w[1] \in Int /\ w[2] \in Int
ASSUME HorizonAssumption == Horizon \in Nat /\ MaxRequests \in Nat /\ MaxFaults \in Nat

VARIABLES
    row,        \* scheduling.schedules
    overrides,  \* scheduling.schedule_overrides, a set of records
    pc,         \* the next call of each request
    target,     \* the schedule of the request
    read,       \* PATCH: the row as GetSchedule returned it
    patch,      \* PATCH: the body
    draft,      \* POST override: the override to insert
    \* what the properties compare with:
    seen,       \* the overrides that existed when each override was checked
    asked,      \* per schedule and column, the value of the last request to set it
    raced,      \* columns that had changed between the read and the write of a PATCH
    requests,   \* requests so far (bounded by MaxRequests)
    faults      \* faults so far (bounded by MaxFaults)

jobs == <<pc, target, read, patch, draft>>
vars == <<row, overrides, jobs, seen, asked, raced, requests, faults>>

\* No schedule in the request; a schedule not created yet, a schedule deleted.
None == [id |-> "none"]
Absent == [id |-> "absent"]
Deleted == [id |-> "deleted"]

Exists(s) == row[s] \notin {Absent, Deleted}
Idle(h) == pc[h] = "idle"

(***************************************************************************)
(* rotation.go.                                                            *)
(***************************************************************************)

\* One step of the parser: a token is the letter T or <<number, unit>>.
ParseToken(acc, token) ==
    CASE token = <<"T">> -> [acc EXCEPT !.inTime = TRUE]
      [] token # <<"T">> /\ token[2] \in (IF acc.inTime THEN {"H", "M", "S"} ELSE {"W", "D"}) ->
            [acc EXCEPT !.total = @ + token[1] * UnitTicks[token[2]]]
      [] OTHER -> [acc EXCEPT !.ok = FALSE]

\* ParseISO8601Duration of the tokens after the P; 0 stands for an error.
ParseISO8601Duration(tokens) ==
    LET acc == FoldLeft(ParseToken, [ok |-> TRUE, inTime |-> FALSE, total |-> 0], tokens)
    IN IF acc.ok THEN acc.total ELSE 0

\* No error: a total that is not positive is one.
Parses(tokens) == ParseISO8601Duration(tokens) \in Nat \ {0}

\* Midnight of start_date in the schedule's zone; an unknown zone counts as UTC.
Epoch(r) == r.start - (IF r.zone \in DOMAIN Offset THEN Offset[r.zone] ELSE 0)

\* elapsed / shiftDur, where a time before the epoch counts as the epoch.
ShiftNumber(r, at) ==
    (IF at < Epoch(r) THEN 0 ELSE at - Epoch(r)) \div ParseISO8601Duration(r.duration)

\* Faulty form of the next definition: the index rounded up.
RotationShiftRoundedUp(r, at) ==
    LET d == ParseISO8601Duration(r.duration)
        n == IF at < Epoch(r) THEN 0 ELSE (at - Epoch(r) + d - 1) \div d
    IN [user |-> r.rotation[(n % Len(r.rotation)) + 1], start |-> Epoch(r) + n * d,
        end |-> Epoch(r) + (n + 1) * d]

\* The shift of the rotation at an instant, for a rotation that is not empty.
RotationShift(r, at) ==
    LET d == ParseISO8601Duration(r.duration)
        n == ShiftNumber(r, at)
    IN [user |-> r.rotation[(n % Len(r.rotation)) + 1], start |-> Epoch(r) + n * d,
        end |-> Epoch(r) + (n + 1) * d]

\* The rows ListOverridesInWindow selects, ordered by start_at.
OverridesInWindow(s, from, to) ==
    CHOOSE os \in SetToSeqs({o \in overrides : /\ o.schedule = s /\ o.tenant = Owner[s]
                                               /\ o.start < to /\ o.end > from}) :
        \A i, j \in DOMAIN os : i < j => os[i].start <= os[j].start

Covers(o, at) == o.start <= at /\ at < o.end

\* OnCallAt with the overrides that GetOnCall fetches: the first that covers the instant.
OnCallAt(s, at) ==
    LET os == OverridesInWindow(s, at, at + 1)
        found == {k \in DOMAIN os : Covers(os[k], at)}
    IN IF found # {} THEN os[Min(found)].user ELSE RotationShift(row[s], at).user

\* The loop of GenerateShifts: rotation shifts from `from' on, cut at `to'.
BaseShifts(r, from, to) ==
    LET rest[cur \in from .. to] ==
            LET sh == RotationShift(r, cur)
                end == IF sh.end > to THEN to ELSE sh.end
            IN IF cur = to THEN <<>> ELSE <<[sh EXCEPT !.end = end]>> \o rest[end]
    IN rest[from]

\* The part of an override that is in the window [from, to).
Clamp(o, from, to) ==
    [user |-> o.user, start |-> IF o.start < from THEN from ELSE o.start,
                      end |-> IF o.end > to THEN to ELSE o.end]

\* Faulty form of the next definition: what is left of the shift begins where the
\* override began.
CutByKeepingRest(b, acc, o) ==
    IF o.start < o.end /\ o.start < b.end /\ o.end > b.start
    THEN [cur |-> o.start,
          out |-> acc.out \o (IF acc.cur < o.start THEN <<[b EXCEPT !.start = acc.cur, !.end = o.start]>>
                                                   ELSE <<>>) \o <<o>>]
    ELSE acc

\* One round of the inner loop of applyOverrides: base shift b, of which the part before acc.cur
\* is settled, meets the clamped override o.
CutBy(b, acc, o) ==
    IF o.start < o.end /\ o.start < b.end /\ o.end > b.start
    THEN [cur |-> o.end,
          out |-> acc.out \o (IF acc.cur < o.start THEN <<[b EXCEPT !.start = acc.cur, !.end = o.start]>>
                                                   ELSE <<>>) \o <<o>>]
    ELSE acc

\* The inner loop over the clamped overrides of the window.
CutAll(b, os) == FoldLeft(LAMBDA a, o : CutBy(b, a, o), [cur |-> b.start, out |-> <<>>], os)

\* applyOverrides for one base shift: what is left of it comes at the end.
ApplyOverrides(b, os) ==
    LET acc == CutAll(b, os)
    IN acc.out \o (IF acc.cur < b.end THEN <<[b EXCEPT !.start = acc.cur]>> ELSE <<>>)

GenerateShifts(s, from, to) ==
    LET base == BaseShifts(row[s], from, to)
        os == [k \in DOMAIN OverridesInWindow(s, from, to) |->
                  Clamp(OverridesInWindow(s, from, to)[k], from, to)]
    IN IF os = <<>> THEN base
       ELSE FlattenSeq([k \in DOMAIN base |-> ApplyOverrides(base[k], os)])

(***************************************************************************)
(* Schedules.                                                              *)
(***************************************************************************)

\* A database call fails before taking effect, or its process dies.
Fault == faults < MaxFaults /\ faults' = faults + 1

Request == requests < MaxRequests /\ requests' = requests + 1

Finish(h) ==
    /\ pc' = [pc EXCEPT ![h] = "idle"]
    /\ target' = [target EXCEPT ![h] = None]
    /\ read' = [read EXCEPT ![h] = None]
    /\ patch' = [patch EXCEPT ![h] = None]
    /\ draft' = [draft EXCEPT ![h] = None]

\* POST: a rotation and a duration that parses are required.
CreateSchedule(s, r) ==
    /\ row[s] = Absent
    /\ r.rotation # <<>> /\ Parses(r.duration)
    /\ row' = [row EXCEPT ![s] = r]
    /\ asked' = [asked EXCEPT ![s] = r]
    /\ UNCHANGED <<overrides, jobs, seen, raced, requests, faults>>

\* PATCH reads the row, then validates the body; an empty rotation is accepted.
PatchSchedule(h, s, p) ==
    /\ Idle(h) /\ Exists(s) /\ Request
    /\ "duration" \in DOMAIN p => Parses(p.duration)
    /\ pc' = [pc EXCEPT ![h] = "update"]
    /\ target' = [target EXCEPT ![h] = s]
    /\ read' = [read EXCEPT ![h] = row[s]]
    /\ patch' = [patch EXCEPT ![h] = p]
    /\ UNCHANGED <<row, overrides, draft, seen, asked, raced, faults>>

\* Faulty forms of the next definition: only the fields of the body are written, or
\* the absent ones are reset.
MergedOnlyBody(h) == patch[h]
MergedReset(h) == [c \in Columns |-> IF c \in DOMAIN patch[h] THEN patch[h][c]
                                     ELSE (CHOOSE r \in NewRows : TRUE)[c]]

\* The row PATCH writes: what it read, with the fields of its body.
Merged(h) == [c \in Columns |-> IF c \in DOMAIN patch[h] THEN patch[h][c] ELSE read[h][c]]

\* UpdateSchedule writes every column, by id; a schedule deleted since is an error.
UpdateSchedule(h) ==
    LET s == target[h]
    IN /\ pc[h] = "update"
       /\ IF Exists(s)
          THEN /\ row' = [row EXCEPT ![s] = Merged(h)]
               /\ asked' = [asked EXCEPT ![s] = [c \in Columns |->
                     IF c \in DOMAIN patch[h] THEN patch[h][c] ELSE @[c]]]
               /\ raced' = raced \cup {<<s, c>> : c \in {d \in Columns : row[s][d] # read[h][d]}}
          ELSE UNCHANGED <<row, asked, raced>>
       /\ Finish(h)
       /\ UNCHANGED <<overrides, seen, requests, faults>>

\* The overrides that go with schedule s, whichever tenant inserted them.
Cascade(s) == {o \in overrides : o.schedule = s}

DeleteSchedule(s) ==
    /\ Exists(s) /\ Request
    /\ row' = [row EXCEPT ![s] = Deleted]
    /\ overrides' = overrides \ Cascade(s)
    /\ UNCHANGED <<jobs, seen, asked, raced, faults>>

(***************************************************************************)
(* Overrides.                                                              *)
(***************************************************************************)

\* Faulty form of the next definition: only an override that starts inside the
\* window is found.
ConflictsByStart(o) ==
    {x \in overrides : x.schedule = o.schedule /\ o.start <= x.start /\ x.start < o.end}

\* The query of CreateOverride, across tenants.
Conflicts(o) == {x \in overrides : x.schedule = o.schedule /\ x.start < o.end /\ x.end > o.start}

UsedIds == DOMAIN seen

\* POST: an overlapping override answers 409.  The schedule is not looked at, nor
\* whose it is.
CreateOverride(h, i, s, t, u, win) ==
    LET o == [id |-> i, schedule |-> s, tenant |-> t, user |-> u, start |-> win[1], end |-> win[2]]
    IN /\ Idle(h) /\ i \notin UsedIds /\ win[1] < win[2] /\ Request
       /\ Conflicts(o) = {}
       /\ pc' = [pc EXCEPT ![h] = "insert"]
       /\ draft' = [draft EXCEPT ![h] = o]
       /\ seen' = [j \in UsedIds \cup {i} |-> IF j = i THEN {x.id : x \in overrides} ELSE seen[j]]
       /\ UNCHANGED <<row, overrides, target, read, patch, asked, raced, faults>>

\* The foreign key of schedule_overrides.
References(o) == Exists(o.schedule)

InsertOverride(h) ==
    /\ pc[h] = "insert"
    /\ overrides' = IF References(draft[h]) THEN overrides \cup {draft[h]} ELSE overrides
    /\ Finish(h)
    /\ UNCHANGED <<row, seen, asked, raced, requests, faults>>

\* DELETE by id and tenant.
DeleteOverride(o) ==
    /\ o \in overrides /\ Request
    /\ overrides' = overrides \ {o}
    /\ UNCHANGED <<row, jobs, seen, asked, raced, faults>>

RequestFails(h) ==
    /\ ~Idle(h) /\ Fault
    /\ Finish(h)
    /\ UNCHANGED <<row, overrides, seen, asked, raced, requests>>

Init ==
    /\ row = [s \in Schedules |-> Absent]
    /\ overrides = {}
    /\ pc = [h \in Handlers |-> "idle"]
    /\ target = [h \in Handlers |-> None]
    /\ read = [h \in Handlers |-> None]
    /\ patch = [h \in Handlers |-> None]
    /\ draft = [h \in Handlers |-> None]
    /\ seen = [i \in {} |-> {}]
    /\ asked = [s \in Schedules |-> Absent]
    /\ raced = {}
    /\ requests = 0
    /\ faults = 0

Next ==
    \/ \E s \in Schedules, r \in NewRows : CreateSchedule(s, r)
    \/ \E s \in Schedules : DeleteSchedule(s)
    \/ \E h \in Handlers, s \in Schedules, p \in Patches : PatchSchedule(h, s, p)
    \/ \E h \in Handlers, i \in OverrideIds, s \in Schedules, t \in Tenants, u \in Users, w \in Windows :
          CreateOverride(h, i, s, t, u, w)
    \/ \E h \in Handlers : UpdateSchedule(h) \/ InsertOverride(h) \/ RequestFails(h)
    \/ \E o \in overrides : DeleteOverride(o)

Spec == Init /\ [][Next]_vars

-----------------------------------------------------------------------------
(***************************************************************************)
(* Properties.                                                             *)
(***************************************************************************)

\* Every variable keeps the shape the tables and requests have; an override belongs to
\* a schedule that exists, also when the schedule is deleted while a POST is running.
TypeOK ==
    /\ \A s \in Schedules : Exists(s) => DOMAIN row[s] = Columns
    /\ \A o \in overrides : /\ o.id \in OverrideIds /\ Exists(o.schedule)
                            /\ o.tenant \in Tenants /\ o.start < o.end
    /\ \A a, b \in overrides : a.id = b.id => a = b
    /\ pc \in [Handlers -> {"idle", "update", "insert"}]
    /\ faults \in 0 .. MaxFaults

Overlap(a, b) == a.schedule = b.schedule /\ a.start < b.end /\ b.start < a.end

\* The overlap check and the insert are two statements: two overrides can overlap,
\* but only when each was checked before the other was inserted.
OverlapOnlyByRace ==
    \A a, b \in overrides : a # b /\ Overlap(a, b) =>
        a.id \notin seen[b.id] /\ b.id \notin seen[a.id]

\* A schedule somebody can be on call for, with its overrides free of overlaps.
Orderly(s) ==
    /\ Exists(s) /\ row[s].rotation # <<>>
    /\ \A a, b \in overrides : a # b => ~Overlap(a, b)

Views == {<<0, Horizon>>, <<1, Horizon - 1>>, <<2, 4>>}

\* The two algorithms of rotation.go agree: in the list of shifts of a window, every
\* instant from the start date on belongs to the person OnCallAt names and to nobody
\* else, however overrides cut, join or cover the shifts of the rotation.
ShiftsAgreeWithOnCall ==
    \A s \in Schedules, v \in Views : Orderly(s) =>
        LET shifts == GenerateShifts(s, v[1], v[2])
        IN \A t \in v[1] .. v[2] - 1 : t >= Epoch(row[s]) =>
              {shifts[k].user : k \in {j \in DOMAIN shifts : Covers(shifts[j], t)}} = {OnCallAt(s, t)}

\* The rotation hands over without a gap: a shift contains the instant asked for, and
\* the next one begins where it ends, with the next person of the rotation.
RotationHandsOver ==
    \A s \in Schedules : Exists(s) /\ row[s].rotation # <<>> =>
        \A t \in 0 .. Horizon : t >= Epoch(row[s]) =>
            LET sh == RotationShift(row[s], t)
                following == RotationShift(row[s], sh.end)
            IN /\ Covers(sh, t)
               /\ following.start = sh.end
               /\ \E k \in DOMAIN row[s].rotation :
                     /\ row[s].rotation[k] = sh.user
                     /\ row[s].rotation[(k % Len(row[s].rotation)) + 1] = following.user

\* PATCH changes only the columns of its body: a column has another value than the
\* last one asked for only if it changed while another PATCH held the old row.
LostOnlyByRace ==
    \A s \in Schedules : Exists(s) =>
        \A c \in Columns : row[s][c] # asked[s][c] => <<s, c>> \in raced
=============================================================================
