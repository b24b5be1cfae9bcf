------------------------- MODULE NotificationProofs -------------------------
(***************************************************************************)
(* Proofs about Notification, for any number of processes, admins,         *)
(* messages and contact rows, any limits and without the bounds of the TLC *)
(* run.                                                                    *)
(***************************************************************************)
EXTENDS Notification, WellFoundedInduction, FiniteSetTheorems, TLAPS

\* A set of naturals that is not empty has a least element.
LEMMA LeastExists ==
    ASSUME NEW S \in SUBSET Nat, S # {}
    PROVE  \E x \in S : \A y \in S : x <= y
PROOF
  <1> DEFINE R == OpToRel(<, Nat)
  <1>1. IsWellFoundedOn(R, Nat)
    BY NatLessThanWellFounded
  <1>2. \A x, y \in Nat : y < x => <<y, x>> \in R
    BY DEF OpToRel
  <1> HIDE DEF R
  <1>3. PICK x \in S : \A y \in S : ~(<<y, x>> \in R)
    BY <1>1, WFMin
  <1>4. \A y \in S : ~(y < x)
    BY <1>2, <1>3, Zenon
  <1> QED
    BY <1>4

\* The position that a handler is at is one of those it stops at.
LEMMA MinInSet == ASSUME NEW S \in SUBSET Nat, S # {} PROVE Min(S) \in S
PROOF
  BY LeastExists DEF Min

(***************************************************************************)
(* The shape of the state.                                                 *)
(***************************************************************************)

\* BOOLEAN, which the columns of the config have, by another name: the proofs need
\* nothing of it.
Flag == BOOLEAN
Configs == [mm : Flag, email : Flag, url : {"", "hook", "masked"}, at : Nat]

ConfigOK ==
    /\ hist \in Seq(Configs) /\ Len(hist) \in Nat \ {0}
    /\ DOMAIN edit = Admins
    /\ \A a \in Admins : edit[a] # None =>
          /\ edit[a].read \in 1 .. Len(hist)
          /\ edit[a].body \in ConfigBodies /\ edit[a].body.url # "refused"

ClockOK ==
    /\ now \in 0 .. MaxTime
    /\ \A i \in 1 .. Len(hist) : hist[i].at <= now

ContactOK ==
    /\ contact \in Contacts \cup {None}
    /\ sync # None => sync.row \in Contacts \cup {None}

\* Merging a body that was let in into a version gives a version.
LEMMA MergedOK ==
    ASSUME NEW cur \in Configs, NEW b \in ConfigBodies, b.url # "refused", now \in Nat
    PROVE  Merged(cur, b) \in Configs
PROOF
  <1>1. Given(b.mm, cur.mm) \in Flag /\ Given(b.email, cur.email) \in Flag
    <2>1. b.mm \in Flag \cup {Keep} /\ b.email \in Flag \cup {Keep}
      BY BodiesAssumption, Zenon DEF Flag
    <2>2. cur.mm \in Flag /\ cur.email \in Flag
      BY DEF Configs
    <2> QED
      BY <2>1, <2>2 DEF Given
  <1>2. Given(b.url, cur.url) \in {"", "hook", "masked"}
    <2>1. b.url \in {Keep, "hook", "masked", "refused"}
      BY BodiesAssumption
    <2> QED
      BY <2>1 DEF Given, Configs
  <1> QED
    BY <1>1, <1>2 DEF Merged, Configs

\* Which steps touch the config.
LEMMA ConfigFrame ==
    ASSUME [Next]_vars
    PROVE  \/ UNCHANGED <<hist, edit>>
           \/ /\ now' = now
              /\ \E a \in Admins : UpsertConfig(a) \/ \E b \in ConfigBodies : PutConfig(a, b)
PROOF
  BY DEF Next, Handle, Edit, vars, config, contacts, ghosts, redis, UpsertConfig, PutConfig,
     PutContact, SyncRead, SyncWrite, Receive, GetContact, CacheHit, Fetch, Store, Unsendable,
     Allow, AllowUnasked, RateLimited, Send, Ack, Tick, Disconnect, Crash, Expire, RedisRestart

\* The clock runs in steps of its own.
LEMMA ClockFrame ==
    ASSUME [Next]_vars
    PROVE  UNCHANGED now \/ Tick
PROOF
  BY DEF Next, Handle, Edit, vars, config, contacts, ghosts, redis, UpsertConfig, PutConfig,
     PutContact, SyncRead, SyncWrite, Receive, GetContact, CacheHit, Fetch, Store, Unsendable,
     Allow, AllowUnasked, RateLimited, Send, Ack, Disconnect, Crash, Expire, RedisRestart

\* Versions are only added: those there are stay.
HistGrows ==
    /\ Len(hist') \in Nat /\ Len(hist) <= Len(hist')
    /\ \A i \in 1 .. Len(hist) : hist'[i] = hist[i]
    /\ \A i \in Len(hist) + 1 .. Len(hist') : hist'[i].at = now

\* Every step keeps the versions of the config well-formed and appends only, and the
\* clock does not go back.
LEMMA ConfigStep ==
    ASSUME ConfigOK, ClockOK, [Next]_vars
    PROVE  ConfigOK' /\ ClockOK' /\ HistGrows
PROOF
  <1>1. now \in Nat /\ now' \in 0 .. MaxTime /\ now <= now'
    BY ClockFrame, BoundsAssumption DEF ClockOK, Tick
  <1>0. \A i \in 1 .. Len(hist) : hist[i].at \in Nat /\ hist[i].at <= now
    <2>1. \A i \in 1 .. Len(hist) : hist[i] \in Configs
      BY DEF ConfigOK
    <2> QED
      BY <2>1 DEF Configs, ClockOK
  <1>2. CASE UNCHANGED <<hist, edit>>
    <2>1. HistGrows /\ ConfigOK'
      BY <1>2 DEF ConfigOK, HistGrows
    <2>2. ClockOK'
      BY <1>0, <1>1, <1>2 DEF ClockOK
    <2> QED
      BY <2>1, <2>2
  <1>3. ASSUME now' = now, NEW a \in Admins, NEW b \in ConfigBodies, PutConfig(a, b)
        PROVE  ConfigOK' /\ ClockOK' /\ HistGrows
    <2>1. hist' = hist /\ edit' = [edit EXCEPT ![a] = [body |-> b, read |-> Len(hist)]]
      BY <1>3 DEF PutConfig, Version
    <2>2. b.url # "refused"
      BY <1>3 DEF PutConfig, ValidateURL
    <2>3. ConfigOK'
      BY <2>1, <2>2 DEF ConfigOK
    <2>4. ClockOK' /\ HistGrows
      BY <1>0, <1>1, <1>3, <2>1 DEF ClockOK, ConfigOK, HistGrows
    <2> QED
      BY <2>3, <2>4
  <1>4. ASSUME now' = now, NEW a \in Admins, UpsertConfig(a)
        PROVE  ConfigOK' /\ ClockOK' /\ HistGrows
    <2> DEFINE m == Merged(hist[edit[a].read], edit[a].body)
    <2>1. m \in Configs
      BY <1>1, <1>4, MergedOK DEF UpsertConfig, ConfigOK
    <2>2. m.at = now
      BY DEF Merged
    <2>3. /\ edit' = [edit EXCEPT ![a] = None]
          /\ hist' = Append(hist, m) \/ hist' = hist
      BY <1>4 DEF UpsertConfig
    <2> HIDE DEF m
    <2>4. hist' \in Seq(Configs) /\ HistGrows
      BY <2>1, <2>2, <2>3 DEF ConfigOK, HistGrows
    <2>5. ConfigOK'
      <3>1. Len(hist') \in Nat \ {0}
        BY <2>4 DEF ConfigOK, HistGrows
      <3>2. ASSUME NEW z \in Admins, edit'[z] # None
            PROVE  /\ edit'[z].read \in 1 .. Len(hist')
                   /\ edit'[z].body \in ConfigBodies /\ edit'[z].body.url # "refused"
        BY <2>3, <2>4, <3>2 DEF ConfigOK, HistGrows
      <3> QED
        BY <2>3, <2>4, <3>1, <3>2 DEF ConfigOK
    <2>6. ClockOK'
      BY <1>1, <1>4, <2>4 DEF ClockOK, ConfigOK, HistGrows
    <2> QED
      BY <2>4, <2>5, <2>6
  <1> QED
    BY <1>2, <1>3, <1>4, ConfigFrame

\* Every row of the table is the body of a PUT, or one with the address of the token.
LEMMA ContactStep ==
    ASSUME ContactOK, [Next]_vars
    PROVE  ContactOK'
PROOF
  <1>1. \A r \in Contacts \cup {None} : Synced(r) \in Contacts
    BY DEF Synced, Contacts, Lists
  <1>2. CASE UNCHANGED <<contact, sync>>
    BY <1>2 DEF ContactOK
  <1>3. ASSUME NEW b \in ContactBodies, PutContact(b)
        PROVE  ContactOK'
    BY <1>3, NoneAssumption DEF PutContact, ContactOK, Rows
  <1>4. CASE SyncRead
    BY <1>4 DEF SyncRead, ContactOK
  <1>5. CASE SyncWrite
    BY <1>1, <1>5 DEF SyncWrite, ContactOK
  <1> QED
    BY <1>2, <1>3, <1>4, <1>5
    DEF Next, Handle, Edit, vars, config, contacts, ghosts, redis, UpsertConfig, PutConfig,
        Receive, GetContact, CacheHit, Fetch, Store, Unsendable,
        Allow, AllowUnasked, RateLimited, Send, Ack, Tick, Disconnect, Crash, Expire, RedisRestart

(***************************************************************************)
(* The handlers.                                                           *)
(***************************************************************************)

Fields == {"pc", "id", "held", "expired", "to", "ver", "at", "todo", "lost"}
Waiting == {"idle", "contact", "config", "store"}

\* A job with v versions of the config.  It has a message unless it is idle, and stops
\* at channels that the service knows.
WorkOK(w, v) ==
    /\ DOMAIN w = Fields
    /\ w.pc \in Waiting \cup {"loop", "send"}
    /\ w.id \in Ids \cup {0} /\ (w.pc = "idle" => ~w.held) /\ (w.pc # "idle" => w.id \in Ids)
    /\ w.to \in Contacts \cup {None}
    /\ w.ver \in 0 .. v /\ (w.pc = "store" => w.ver # 0) /\ w.at \in Nat
    /\ w.todo \subseteq DOMAIN Candidates(w)
    /\ \A k \in w.todo : Candidates(w)[k] \in Channels
    /\ w.pc \in Waiting => w.todo = {}
    /\ w.pc = "send" => w.todo # {}

JobsOK ==
    /\ DOMAIN work = Procs /\ \A p \in Procs : WorkOK(work[p], Len(hist))
    /\ queue \in Seq(Ids)
    /\ DOMAIN cache = Procs
    /\ \A p \in Procs : cache[p] # None => cache[p].ver \in 1 .. Len(hist) /\ cache[p].expires \in Nat
    /\ DOMAIN log = Ids /\ \A m \in Ids : log[m] \subseteq Channels

\* The channels of a message are numbered.
LEMMA CandidatesOK ==
    ASSUME NEW w, w.to \in Contacts \cup {None}
    PROVE  DOMAIN Candidates(w) \subseteq Nat
PROOF
  <1>1. CASE w.to = None
    BY <1>1 DEF Candidates
  <1>2. CASE w.to # None
    <2> DEFINE q == w.to.channels
    <2>1. q \in Lists
      BY <1>2 DEF Contacts
    <2>2. IsList(q)
      BY <2>1, ListsAssumption
    <2>3. DOMAIN q \subseteq Nat
      BY <2>2 DEF IsList
    <2> QED
      BY <1>2, <2>3 DEF Candidates
  <1> QED
    BY <1>1, <1>2

\* A process without a message has a well-formed job.
LEMMA IdleOK == ASSUME NEW v \in Nat PROVE WorkOK(Idle, v)
PROOF
  BY DEF WorkOK, Idle, Fields, Waiting

\* A channel that is not muted is one the service knows.
LEMMA DispatchOK ==
    ASSUME JobsOK, NEW p \in Procs, At(p, "config") \/ At(p, "store"),
           NEW v \in 0 .. Len(hist), Len(hist) \in Nat, Dispatch(p, v)
    PROVE  \E w : WorkOK(w, Len(hist)) /\ work' = [work EXCEPT ![p] = w]
PROOF
  <1> DEFINE w == [work[p] EXCEPT !.pc = "loop", !.ver = v, !.at = 0]
             u == [w EXCEPT !.todo = {k \in DOMAIN Candidates(w) : ~Muted(w, Candidates(w)[k])}]
  <1>1. WorkOK(work[p], Len(hist)) /\ work[p].pc # "idle"
    BY DEF JobsOK, At
  <1>2. /\ DOMAIN w = Fields /\ w.pc = "loop" /\ w.ver = v /\ w.at = 0
        /\ w.id = work[p].id /\ w.to = work[p].to
    BY <1>1 DEF WorkOK, Fields
  <1> HIDE DEF w
  <1>3. /\ DOMAIN u = Fields /\ u.pc = "loop" /\ u.ver = v /\ u.at = 0
        /\ u.id = work[p].id /\ u.to = work[p].to
        /\ u.todo = {k \in DOMAIN Candidates(w) : ~Muted(w, Candidates(w)[k])}
    BY <1>2 DEF Fields
  <1>4. work' = [work EXCEPT ![p] = u]
    BY DEF Dispatch, Becomes, w
  <1> HIDE DEF u
  <1>5. Candidates(u) = Candidates(w)
    BY <1>2, <1>3 DEF Candidates
  <1>6. \A ch : ~Muted(w, ch) => ch \in Channels
    BY DEF Muted, Channels
  <1>7. WorkOK(u, Len(hist))
    BY <1>1, <1>3, <1>5, <1>6 DEF WorkOK, Waiting
  <1> QED
    BY <1>4, <1>7

\* The channel that a looping or sending handler is at.
LEMMA ChannelOK ==
    ASSUME JobsOK, NEW p \in Procs, work[p].todo # {}
    PROVE  /\ Position(p) \in work[p].todo /\ Channel(p) \in Channels
           /\ work[p].id \in Ids
PROOF
  <1>1. WorkOK(work[p], Len(hist))
    BY DEF JobsOK
  <1>2. work[p].todo \subseteq Nat
    BY <1>1, CandidatesOK DEF WorkOK
  <1>3. Position(p) \in work[p].todo
    BY <1>2, MinInSet DEF Position
  <1> QED
    BY <1>1, <1>3 DEF WorkOK, Channel, Waiting

\* Going on to the next channel, with a row in the log or without.
LEMMA AppendLogOK ==
    ASSUME JobsOK, NEW p \in Procs, At(p, "loop") \/ At(p, "send"), work[p].todo # {},
           Logged(p) \/ Unlogged(p)
    PROVE  /\ \E w : WorkOK(w, Len(hist)) /\ work' = [work EXCEPT ![p] = w]
           /\ DOMAIN log' = Ids /\ \A m \in Ids : log'[m] \subseteq Channels
PROOF
  <1> DEFINE w == Passed(p)
             u == [w EXCEPT !.lost = @ \cup {Channel(p)}]
  <1>1. WorkOK(work[p], Len(hist)) /\ work[p].pc # "idle"
    BY DEF JobsOK, At
  <1>2. /\ DOMAIN w = Fields /\ w.pc = "loop" /\ w.ver = work[p].ver /\ w.at = work[p].at
        /\ w.id = work[p].id /\ w.to = work[p].to /\ w.todo \subseteq work[p].todo
    BY <1>1 DEF WorkOK, Fields, Passed
  <1> HIDE DEF w
  <1>3. /\ DOMAIN u = Fields /\ u.pc = "loop" /\ u.ver = work[p].ver /\ u.at = work[p].at
        /\ u.id = work[p].id /\ u.to = work[p].to /\ u.todo \subseteq work[p].todo
    BY <1>2 DEF Fields
  <1>4. work' = [work EXCEPT ![p] = w] \/ work' = [work EXCEPT ![p] = u]
    BY DEF Logged, Unlogged, Becomes, w
  <1> HIDE DEF u
  <1>5. Candidates(w) = Candidates(work[p]) /\ Candidates(u) = Candidates(work[p])
    BY <1>2, <1>3 DEF Candidates
  <1>6. WorkOK(w, Len(hist)) /\ WorkOK(u, Len(hist))
    BY <1>1, <1>2, <1>3, <1>5 DEF WorkOK, Waiting
  <1>7. DOMAIN log' = Ids /\ \A m \in Ids : log'[m] \subseteq Channels
    BY ChannelOK DEF Logged, Unlogged, JobsOK
  <1> QED
    BY <1>4, <1>6, <1>7

\* An outcome is written to the log or the insert is lost.
LEMMA AppendLogCases == ASSUME NEW p, AppendLog(p) PROVE Logged(p) \/ Unlogged(p)
PROOF
  BY DEF AppendLog

\* What a step of process p does to its job.
JobStep(p) ==
    /\ \E w : WorkOK(w, Len(hist)) /\ work' = [work EXCEPT ![p] = w]
    /\ DOMAIN log' = Ids /\ \A m \in Ids : log'[m] \subseteq Channels
    /\ queue' \in Seq(Ids)
    /\ cache' = cache \/ \E c : /\ cache' = [cache EXCEPT ![p] = c]
                                /\ c # None => c.ver \in 1 .. Len(hist) /\ c.expires \in Nat
    /\ hist' = hist

\* Taking a message from the queue begins a well-formed job.
LEMMA ReceiveStep ==
    ASSUME JobsOK, Len(hist) \in Nat, NEW p \in Procs, Receive(p)
    PROVE  JobStep(p)
PROOF
  <1> DEFINE id == Head(queue)
             w(l) == [Idle EXCEPT !.pc = l, !.id = id, !.held = TRUE]
  <1>1. queue \in Seq(Ids) /\ queue # <<>>
    BY DEF JobsOK, Receive
  <1>2. id \in Ids /\ Tail(queue) \in Seq(Ids)
    BY <1>1
  <1>3. work' \in {[work EXCEPT ![p] = w("contact")], [work EXCEPT ![p] = w("config")],
                   [work EXCEPT ![p] = Idle]}
    BY DEF Receive, Becomes, Finish
  <1> HIDE DEF id
  <1>4. WorkOK(w("contact"), Len(hist)) /\ WorkOK(w("config"), Len(hist))
    BY <1>2 DEF WorkOK, Idle, Fields, Waiting
  <1>5. \E z : WorkOK(z, Len(hist)) /\ work' = [work EXCEPT ![p] = z]
    BY <1>3, <1>4, IdleOK
  <1> QED
    BY <1>2, <1>5 DEF Receive, JobStep, JobsOK, config

\* The steps that change one field of the job.
LEMMA FieldsOK ==
    ASSUME NEW w, NEW v \in Nat, WorkOK(w, v)
    PROVE  /\ WorkOK([w EXCEPT !.held = FALSE], v)
           /\ w.pc # "idle" => WorkOK([w EXCEPT !.expired = TRUE], v)
           /\ w.pc = "loop" /\ w.todo # {} => WorkOK([w EXCEPT !.pc = "send"], v)
           /\ \A c \in Contacts :
                 w.pc = "contact" => WorkOK([w EXCEPT !.pc = "config", !.to = c], v)
           /\ \A t \in Nat : w.pc = "config" /\ v # 0 =>
                 WorkOK([w EXCEPT !.pc = "store", !.ver = v, !.at = t], v)
PROOF
  <1>1. WorkOK([w EXCEPT !.held = FALSE], v)
    <2> DEFINE u == [w EXCEPT !.held = FALSE]
    <2>1. /\ DOMAIN u = Fields /\ u.pc = w.pc /\ u.id = w.id /\ u.to = w.to /\ u.ver = w.ver
          /\ u.at = w.at /\ u.todo = w.todo /\ u.held = FALSE
      BY DEF WorkOK, Fields
    <2> HIDE DEF u
    <2>2. Candidates(u) = Candidates(w)
      BY <2>1 DEF Candidates
    <2>3. WorkOK(u, v)
      BY <2>1, <2>2 DEF WorkOK
    <2> QED
      BY <2>3 DEF u
  <1>2. ASSUME w.pc # "idle"
        PROVE  WorkOK([w EXCEPT !.expired = TRUE], v)
    <2> DEFINE u == [w EXCEPT !.expired = TRUE]
    <2>1. /\ DOMAIN u = Fields /\ u.pc = w.pc /\ u.id = w.id /\ u.to = w.to /\ u.ver = w.ver
          /\ u.at = w.at /\ u.todo = w.todo
      BY DEF WorkOK, Fields
    <2> HIDE DEF u
    <2>2. Candidates(u) = Candidates(w)
      BY <2>1 DEF Candidates
    <2>3. WorkOK(u, v)
      BY <1>2, <2>1, <2>2 DEF WorkOK
    <2> QED
      BY <2>3 DEF u
  <1>3. ASSUME w.pc = "loop", w.todo # {}
        PROVE  WorkOK([w EXCEPT !.pc = "send"], v)
    <2> DEFINE u == [w EXCEPT !.pc = "send"]
    <2>1. /\ DOMAIN u = Fields /\ u.pc = "send" /\ u.id = w.id /\ u.to = w.to /\ u.ver = w.ver
          /\ u.at = w.at /\ u.todo = w.todo
      BY DEF WorkOK, Fields
    <2> HIDE DEF u
    <2>2. Candidates(u) = Candidates(w)
      BY <2>1 DEF Candidates
    <2>3. WorkOK(u, v)
      BY <1>3, <2>1, <2>2 DEF WorkOK, Waiting
    <2> QED
      BY <2>3 DEF u
  <1>4. ASSUME NEW c \in Contacts, w.pc = "contact"
        PROVE  WorkOK([w EXCEPT !.pc = "config", !.to = c], v)
    <2> DEFINE u == [w EXCEPT !.pc = "config", !.to = c]
    <2>1. /\ DOMAIN u = Fields /\ u.pc = "config" /\ u.id = w.id /\ u.to = c /\ u.ver = w.ver
          /\ u.at = w.at /\ u.todo = w.todo
      BY DEF WorkOK, Fields
    <2> HIDE DEF u
    <2>2. WorkOK(u, v)
      BY <1>4, <2>1 DEF WorkOK, Waiting
    <2> QED
      BY <2>2 DEF u
  <1>5. ASSUME NEW t \in Nat, w.pc = "config", v # 0
        PROVE  WorkOK([w EXCEPT !.pc = "store", !.ver = v, !.at = t], v)
    <2> DEFINE u == [w EXCEPT !.pc = "store", !.ver = v, !.at = t]
    <2>1. /\ DOMAIN u = Fields /\ u.pc = "store" /\ u.id = w.id /\ u.to = w.to /\ u.ver = v
          /\ u.at = t /\ u.todo = w.todo
      BY DEF WorkOK, Fields
    <2> HIDE DEF u
    <2>2. WorkOK(u, v)
      BY <1>5, <2>1 DEF WorkOK, Waiting
    <2> QED
      BY <2>2 DEF u
  <1> QED
    BY <1>1, <1>2, <1>3, <1>4, <1>5

\* A step of the consumer.
LEMMA HandleStep ==
    ASSUME JobsOK, ConfigOK, ClockOK, ContactOK, NEW p \in Procs, Handle(p)
    PROVE  JobStep(p)
PROOF
  <1> DEFINE Goes == \E w : WorkOK(w, Len(hist)) /\ work' = [work EXCEPT ![p] = w]
  <1> USE DEF config, redis, ghosts, contacts
  <1>1. Len(hist) \in Nat \ {0} /\ WorkOK(work[p], Len(hist)) /\ now \in Nat
    BY DEF ConfigOK, JobsOK, ClockOK
  <1>2. ASSUME Goes, UNCHANGED <<queue, log, cache, hist>>
        PROVE  JobStep(p)
    BY <1>2 DEF JobStep, JobsOK
  <1>3. CASE Receive(p)
    BY <1>1, <1>3, ReceiveStep
  <1>4. CASE GetContact(p)
    <2>1. CASE Finish(p)
      BY <1>1, <1>2, <1>4, <2>1, IdleOK DEF GetContact, Finish, Becomes
    <2>2. CASE ~Finish(p)
      <3>1. contact \in Contacts /\ work[p].pc = "contact"
        BY <1>4, <2>2 DEF GetContact, ContactOK, At
      <3>2. Becomes(p, [work[p] EXCEPT !.pc = "config", !.to = contact])
        BY <1>4, <2>2 DEF GetContact
      <3>3. Goes
        BY <1>1, <3>1, <3>2, FieldsOK DEF Becomes
      <3> QED
        BY <1>2, <1>4, <3>3 DEF GetContact
    <2> QED
      BY <2>1, <2>2
  <1>5. CASE CacheHit(p)
    <2>1. cache[p].ver \in 0 .. Len(hist)
      BY <1>5 DEF CacheHit, Fresh, JobsOK
    <2>2. Goes
      BY <1>1, <1>5, <2>1, DispatchOK DEF CacheHit
    <2> QED
      BY <1>2, <1>5, <2>2 DEF CacheHit
  <1>6. CASE Fetch(p)
    <2>1. Goes
      <3>1. CASE Dispatch(p, 0)
        BY <1>1, <1>6, <3>1, DispatchOK DEF Fetch
      <3>2. CASE ~Dispatch(p, 0)
        <4>1. Becomes(p, [work[p] EXCEPT !.pc = "store", !.ver = Len(hist), !.at = now])
          BY <1>6, <3>2 DEF Fetch, Version
        <4>2. work[p].pc = "config"
          BY <1>6 DEF Fetch, At
        <4> QED
          BY <1>1, <4>1, <4>2, FieldsOK DEF Becomes
      <3> QED
        BY <3>1, <3>2
    <2> QED
      BY <1>2, <1>6, <2>1 DEF Fetch
  <1>7. CASE Store(p)
    <2>1. work[p].ver \in 1 .. Len(hist)
      BY <1>1, <1>7 DEF Store, At, WorkOK
    <2>2. Goes
      BY <1>1, <1>7, <2>1, DispatchOK DEF Store
    <2> DEFINE c == [ver |-> work[p].ver, expires |-> now + TTL]
    <2>3. /\ cache' = cache \/ cache' = [cache EXCEPT ![p] = c]
          /\ c.ver \in 1 .. Len(hist) /\ c.expires \in Nat
      BY <1>1, <1>7, <2>1, LimitsAssumption DEF Store
    <2>4. UNCHANGED <<queue, log, hist>>
      BY <1>7 DEF Store
    <2> HIDE DEF c
    <2> QED
      BY <2>2, <2>3, <2>4 DEF JobStep, JobsOK
  <1>8. CASE Unsendable(p) \/ RateLimited(p)
    <2>1. Logged(p) \/ Unlogged(p)
      BY <1>8, AppendLogCases DEF Unsendable, RateLimited
    <2>2. At(p, "loop") /\ work[p].todo # {} /\ UNCHANGED <<queue, cache, hist>>
      BY <1>8 DEF Unsendable, RateLimited, Looping
    <2> QED
      BY <2>1, <2>2, AppendLogOK DEF JobStep, JobsOK
  <1>9. CASE Allow(p) \/ AllowUnasked(p)
    <2>1. work[p].pc = "loop" /\ work[p].todo # {} /\ Sends(p)
      BY <1>9 DEF Allow, AllowUnasked, Looping, At
    <2>2. Goes
      BY <1>1, <2>1, FieldsOK DEF Sends, Becomes
    <2> QED
      BY <1>2, <1>9, <2>2 DEF Allow, AllowUnasked
  <1>10. CASE Send(p)
    <2>1. Logged(p) \/ Unlogged(p)
      BY <1>10, AppendLogCases DEF Send
    <2>2. At(p, "send") /\ work[p].todo # {} /\ UNCHANGED <<queue, cache, hist>>
      BY <1>1, <1>10 DEF Send, At, WorkOK
    <2> QED
      BY <2>1, <2>2, AppendLogOK DEF JobStep, JobsOK
  <1>11. CASE Ack(p)
    BY <1>1, <1>2, <1>11, IdleOK DEF Ack, Finish, Becomes
  <1> QED
    BY <1>3, <1>4, <1>5, <1>6, <1>7, <1>8, <1>9, <1>10, <1>11 DEF Handle

\* A lost connection, the end of a process and of a deadline.
LEMMA FailureStep ==
    ASSUME JobsOK, ConfigOK, NEW p \in Procs, Disconnect(p) \/ Crash(p) \/ Expire(p)
    PROVE  JobStep(p)
PROOF
  <1> USE DEF config, redis, ghosts, contacts
  <1>1. Len(hist) \in Nat \ {0} /\ WorkOK(work[p], Len(hist)) /\ queue \in Seq(Ids)
    BY DEF ConfigOK, JobsOK
  <1>2. work[p].pc # "idle" => <<work[p].id>> \o queue \in Seq(Ids)
    BY <1>1 DEF WorkOK
  <1>3. CASE Disconnect(p)
    <2>1. queue' \in Seq(Ids) /\ UNCHANGED <<log, cache, hist>>
      BY <1>1, <1>2, <1>3 DEF Disconnect, WorkOK
    <2> QED
      BY <1>1, <1>3, <2>1, FieldsOK DEF Disconnect, Becomes, JobStep, JobsOK
  <1>4. CASE Crash(p)
    <2>1. queue' \in Seq(Ids) /\ UNCHANGED <<log, hist>> /\ cache' = [cache EXCEPT ![p] = None]
      BY <1>1, <1>2, <1>4 DEF Crash, At
    <2> QED
      BY <1>1, <1>4, <2>1, IdleOK DEF Crash, Becomes, JobStep, JobsOK
  <1>5. CASE Expire(p)
    <2>1. UNCHANGED <<queue, log, cache, hist>> /\ work[p].pc # "idle"
      BY <1>5 DEF Expire, At
    <2> QED
      BY <1>1, <1>5, <2>1, FieldsOK DEF Expire, Becomes, JobStep, JobsOK
  <1> QED
    BY <1>3, <1>4, <1>5

\* Every step keeps the jobs well-formed.
LEMMA JobsStep ==
    ASSUME JobsOK, ConfigOK, ClockOK, ContactOK, [Next]_vars
    PROVE  JobsOK'
PROOF
  <1>1. ASSUME NEW p \in Procs, JobStep(p)
        PROVE  JobsOK'
    <2>1. PICK w : WorkOK(w, Len(hist)) /\ work' = [work EXCEPT ![p] = w]
      BY <1>1 DEF JobStep
    <2>2. DOMAIN work' = Procs /\ \A q \in Procs : WorkOK(work'[q], Len(hist))
      BY <2>1 DEF JobsOK
    <2>3. /\ DOMAIN cache' = Procs
          /\ \A q \in Procs : cache'[q] # None =>
                cache'[q].ver \in 1 .. Len(hist) /\ cache'[q].expires \in Nat
      BY <1>1 DEF JobStep, JobsOK
    <2> QED
      BY <1>1, <2>2, <2>3 DEF JobStep, JobsOK
  <1>2. CASE UNCHANGED <<work, queue, cache, log>>
    <2>1. HistGrows /\ Len(hist) \in Nat
      BY ConfigStep DEF ConfigOK
    <2>2. \A w : WorkOK(w, Len(hist)) => WorkOK(w, Len(hist'))
      BY <2>1 DEF HistGrows, WorkOK
    <2>3. \A p \in Procs : cache[p] # None => cache[p].ver \in 1 .. Len(hist')
      BY <2>1 DEF HistGrows, JobsOK
    <2> QED
      BY <1>2, <2>2, <2>3 DEF JobsOK
  <1> QED
    BY <1>1, <1>2, HandleStep, FailureStep
    DEF Next, Edit, vars, config, contacts, ghosts, redis, UpsertConfig, PutConfig, PutContact,
        SyncRead, SyncWrite, Tick, RedisRestart

(***************************************************************************)
(* The limiter.                                                            *)
(***************************************************************************)

\* A bucket b and the times g at which its channel was granted, at time t.  Since the
\* last refill MaxTokens - b.tokens were granted, the first of them at b.last; whatever
\* is MaxTokens or more before that one is a window older.
BatchStart(g, b) == Len(g) - (MaxTokens - b.tokens) + 1
BucketOK(g, b) ==
    /\ b \in [tokens : 0 .. MaxTokens - 1, last : Nat, expires : Nat]
    /\ b.expires >= b.last + Window
    /\ BatchStart(g, b) \in 1 .. Len(g) /\ g[BatchStart(g, b)] = b.last
    /\ \A i \in 1 .. Len(g) : i <= BatchStart(g, b) - MaxTokens => g[i] + Window <= b.last
LimitOK(g, b, t) ==
    /\ g \in Seq(Nat)
    /\ \A i \in 1 .. Len(g) : g[i] <= t
    /\ \A i, j \in 1 .. Len(g) : i <= j => g[i] <= g[j]
    /\ \A i, j \in 1 .. Len(g) : j = i + 2 * MaxTokens - 1 => g[j] >= g[i] + Window
    /\ b = None => g = <<>>
    /\ b # None => BucketOK(g, b)

LimiterOK ==
    /\ DOMAIN grants = Channels /\ DOMAIN bucket = Channels
    /\ \A ch \in Channels : LimitOK(grants[ch], bucket[ch], now)

\* The times after one more grant.
LEMMA OneMore ==
    ASSUME NEW g \in Seq(Nat), NEW t \in Nat, NEW h, h = Append(g, t),
           \A i \in 1 .. Len(g) : g[i] <= t,
           \A i, j \in 1 .. Len(g) : i <= j => g[i] <= g[j]
    PROVE  /\ h \in Seq(Nat) /\ Len(h) = Len(g) + 1 /\ Len(g) \in Nat /\ h[Len(h)] = t
           /\ \A i \in 1 .. Len(g) : h[i] = g[i] /\ h[i] \in Nat
           /\ \A i \in 1 .. Len(h) : h[i] <= t
           /\ \A i, j \in 1 .. Len(h) : i <= j => h[i] <= h[j]
PROOF
  <1>1. /\ h \in Seq(Nat) /\ Len(h) = Len(g) + 1 /\ Len(g) \in Nat /\ h[Len(h)] = t
        /\ \A i \in 1 .. Len(g) : h[i] = g[i] /\ h[i] \in Nat
    OBVIOUS
  <1>2. \A i \in 1 .. Len(h) : h[i] <= t
    BY <1>1
  <1>3. \A i, j \in 1 .. Len(h) : i <= j => h[i] <= h[j]
    <2> SUFFICES ASSUME NEW i \in 1 .. Len(h), NEW j \in 1 .. Len(h), i <= j
                 PROVE  h[i] <= h[j]
      OBVIOUS
    <2>1. CASE j = Len(h)
      BY <1>1, <1>2, <2>1
    <2>2. CASE j # Len(h)
      BY <1>1, <2>2
    <2> QED
      BY <2>1, <2>2
  <1> QED
    BY <1>1, <1>2, <1>3

\* Positions among n + 1 grants, when k tokens are left after n of them.
LEMMA Counting ==
    ASSUME NEW n \in Nat, NEW m \in Nat \ {0}, NEW k \in 0 .. m - 1
    PROVE  /\ \A i \in 1 .. n : i <= n + 1 - m => i <= n - (m - k) + 1
           /\ (n + 1) - (m - (k - 1)) + 1 = n - (m - k) + 1
           /\ \A i, j \in 1 .. n + 1 : j = i + 2 * m - 1 =>
                 /\ i \in 1 .. n /\ i <= n + 1 - m /\ (j # n + 1 => j \in 1 .. n)
                 /\ j = n + 1 /\ k > 0 => i <= (n - (m - k) + 1) - m
PROOF
  OBVIOUS

\* A refill begins a batch: a window has passed since the last one began.
LEMMA GrantWithRefill ==
    ASSUME NEW g, NEW b, NEW t \in Nat, LimitOK(g, b, t),
           b = None \/ t >= b.expires \/ t - b.last >= Window,
           NEW h, h = Append(g, t),
           NEW c, c = [tokens |-> MaxTokens - 1, last |-> t, expires |-> t + 2 * Window]
    PROVE  LimitOK(h, c, t)
PROOF
  <1> USE LimitsAssumption
  <1>1. g \in Seq(Nat)
    BY DEF LimitOK
  <1>2. /\ h \in Seq(Nat) /\ Len(h) = Len(g) + 1 /\ Len(g) \in Nat /\ h[Len(h)] = t
        /\ \A i \in 1 .. Len(g) : h[i] = g[i] /\ h[i] \in Nat
        /\ \A i \in 1 .. Len(h) : h[i] <= t
        /\ \A i, j \in 1 .. Len(h) : i <= j => h[i] <= h[j]
    BY <1>1, OneMore DEF LimitOK
  <1>3. /\ c \in [tokens : 0 .. MaxTokens - 1, last : Nat, expires : Nat]
        /\ c.tokens = MaxTokens - 1 /\ c.last = t /\ c.expires >= t + Window
    OBVIOUS
  <1>9. Len(g) \in Nat /\ Len(h) = Len(g) + 1
    BY <1>2
  <1>4. BatchStart(h, c) = Len(h)
    BY <1>3, <1>9 DEF BatchStart
  <1>5. \A i \in 1 .. Len(g) : i <= Len(h) - MaxTokens => g[i] + Window <= t
    <2>1. CASE b = None
      BY <1>2, <2>1 DEF LimitOK
    <2>2. CASE b # None
      <3> DEFINE s == BatchStart(g, b)
      <3>1. BucketOK(g, b)
        BY <2>2 DEF LimitOK
      <3>2. b.tokens \in 0 .. MaxTokens - 1 /\ b.last \in Nat /\ b.expires \in Nat
        BY <3>1 DEF BucketOK
      <3>3. b.last + Window <= t
        BY <2>2, <3>1, <3>2 DEF BucketOK
      <3>4. s = Len(g) - (MaxTokens - b.tokens) + 1 /\ s \in 1 .. Len(g) /\ g[s] = b.last
        BY <3>1 DEF BatchStart, BucketOK
      <3> HIDE DEF s
      <3>5. ASSUME NEW i \in 1 .. Len(g), i <= Len(h) - MaxTokens
            PROVE  g[i] + Window <= t
        <4>1. i <= s
          BY <1>9, <3>2, <3>4, <3>5, Counting
        <4>2. g[i] <= g[s]
          BY <3>4, <4>1 DEF LimitOK
        <4>3. g[i] \in Nat
          BY <1>1
        <4> QED
          BY <3>2, <3>3, <3>4, <4>2, <4>3
      <3> QED
        BY <3>5
    <2> QED
      BY <2>1, <2>2
  <1>6. BucketOK(h, c)
    <2>1. \A i \in 1 .. Len(h) : i <= Len(h) - MaxTokens => h[i] + Window <= t
      BY <1>2, <1>5
    <2> QED
      BY <1>2, <1>3, <1>4, <2>1 DEF BucketOK
  <1>7. \A i, j \in 1 .. Len(h) : j = i + 2 * MaxTokens - 1 => h[j] >= h[i] + Window
    <2> SUFFICES ASSUME NEW i \in 1 .. Len(h), NEW j \in 1 .. Len(h), j = i + 2 * MaxTokens - 1
                 PROVE  h[j] >= h[i] + Window
      OBVIOUS
    <2>1. i \in 1 .. Len(g) /\ i <= Len(h) - MaxTokens /\ (j # Len(h) => j \in 1 .. Len(g))
      BY <1>9, Counting
    <2>2. CASE j = Len(h)
      BY <1>2, <1>5, <2>1, <2>2
    <2>3. CASE j # Len(h)
      <3>1. g[j] >= g[i] + Window
        BY <2>1, <2>3 DEF LimitOK
      <3> QED
        BY <1>2, <2>1, <2>3, <3>1
    <2> QED
      BY <2>2, <2>3
  <1>8. c # None
    BY <1>3, NoneAssumption
  <1> QED
    BY <1>2, <1>6, <1>7, <1>8 DEF LimitOK

\* Without a refill the grant is one more of its batch.
LEMMA GrantInBatch ==
    ASSUME NEW g, NEW b, NEW t \in Nat, LimitOK(g, b, t), b # None, b.tokens > 0,
           NEW h, h = Append(g, t),
           NEW c, c = [tokens |-> b.tokens - 1, last |-> b.last, expires |-> t + 2 * Window]
    PROVE  LimitOK(h, c, t)
PROOF
  <1> USE LimitsAssumption
  <1> DEFINE s == BatchStart(g, b)
  <1>1. g \in Seq(Nat) /\ BucketOK(g, b)
    BY DEF LimitOK
  <1>2. /\ h \in Seq(Nat) /\ Len(h) = Len(g) + 1 /\ Len(g) \in Nat /\ h[Len(h)] = t
        /\ \A i \in 1 .. Len(g) : h[i] = g[i] /\ h[i] \in Nat
        /\ \A i \in 1 .. Len(h) : h[i] <= t
        /\ \A i, j \in 1 .. Len(h) : i <= j => h[i] <= h[j]
    BY <1>1, OneMore DEF LimitOK
  <1>3. b.tokens \in 1 .. MaxTokens - 1 /\ b.last \in Nat
    BY <1>1 DEF BucketOK
  <1>4. s = Len(g) - (MaxTokens - b.tokens) + 1 /\ s \in 1 .. Len(g) /\ g[s] = b.last
    BY <1>1 DEF BatchStart, BucketOK
  <1>5. b.last <= t
    BY <1>4 DEF LimitOK
  <1>6. /\ c \in [tokens : 0 .. MaxTokens - 1, last : Nat, expires : Nat]
        /\ c.tokens = b.tokens - 1 /\ c.last = b.last /\ c.expires >= b.last + Window
    BY <1>3, <1>5
  <1>12. Len(g) \in Nat /\ Len(h) = Len(g) + 1
    BY <1>2
  <1>7. BatchStart(h, c) = s
    <2> HIDE DEF s
    <2>1. BatchStart(h, c) = (Len(g) + 1) - (MaxTokens - (b.tokens - 1)) + 1
      BY <1>6, <1>12 DEF BatchStart
    <2> QED
      BY <1>3, <1>4, <1>12, <2>1, Counting
  <1>8. \A i \in 1 .. Len(g) : i <= s - MaxTokens => g[i] + Window <= b.last
    BY <1>1 DEF BucketOK
  <1> HIDE DEF s
  <1>9. BucketOK(h, c)
    <2>1. \A i \in 1 .. Len(h) : i <= s - MaxTokens => h[i] + Window <= b.last
      BY <1>2, <1>4, <1>8
    <2>2. s \in 1 .. Len(h) /\ h[s] = b.last
      BY <1>2, <1>4
    <2> QED
      BY <1>6, <1>7, <2>1, <2>2 DEF BucketOK
  <1>10. \A i, j \in 1 .. Len(h) : j = i + 2 * MaxTokens - 1 => h[j] >= h[i] + Window
    <2> SUFFICES ASSUME NEW i \in 1 .. Len(h), NEW j \in 1 .. Len(h), j = i + 2 * MaxTokens - 1
                 PROVE  h[j] >= h[i] + Window
      OBVIOUS
    <2> DEFINE n == Len(g)
               k == b.tokens
    <2>4. n \in Nat /\ k \in 0 .. MaxTokens - 1 /\ k > 0 /\ i \in 1 .. n + 1 /\ j \in 1 .. n + 1
      BY <1>3, <1>12
    <2> HIDE DEF n, k
    <2>5. /\ i \in 1 .. n /\ (j # n + 1 => j \in 1 .. n)
          /\ j = n + 1 => i <= (n - (MaxTokens - k) + 1) - MaxTokens
      BY <2>4, Counting
    <2>1. i \in 1 .. Len(g) /\ (j # Len(h) => j \in 1 .. Len(g))
      BY <1>12, <2>5 DEF n
    <2>2. CASE j = Len(h)
      <3>1. i <= s - MaxTokens
        BY <1>4, <1>12, <2>2, <2>5 DEF n, k
      <3>2. g[i] + Window <= b.last
        BY <1>8, <2>1, <3>1
      <3>3. h[i] + Window <= b.last /\ h[i] \in Nat /\ h[j] = t
        BY <1>2, <2>1, <2>2, <3>2
      <3> QED
        BY <1>3, <1>5, <3>3
    <2>3. CASE j # Len(h)
      <3>1. g[j] >= g[i] + Window
        BY <2>1, <2>3 DEF LimitOK
      <3> QED
        BY <1>2, <2>1, <2>3, <3>1
    <2> QED
      BY <2>2, <2>3
  <1>11. c # None
    BY <1>6, NoneAssumption
  <1> QED
    BY <1>2, <1>9, <1>10, <1>11 DEF LimitOK

\* Which steps touch the limiter.
LEMMA LimiterFrame ==
    ASSUME [Next]_vars
    PROVE  \/ UNCHANGED <<bucket, grants>>
           \/ now' = now /\ \E p \in Procs : Allow(p)
           \/ RedisRestart
PROOF
  BY DEF Next, Handle, Edit, vars, config, contacts, ghosts, redis, UpsertConfig, PutConfig,
     PutContact, SyncRead, SyncWrite, Receive, GetContact, CacheHit, Fetch, Store, Unsendable,
     Allow, AllowUnasked, RateLimited, Send, Ack, Tick, Disconnect, Crash, Expire

\* Every step keeps the bucket and the grants of the limiter in agreement.
LEMMA LimiterStep ==
    ASSUME LimiterOK, JobsOK, ClockOK, [Next]_vars
    PROVE  LimiterOK'
PROOF
  <1>1. now \in Nat /\ now' \in Nat /\ now <= now'
    BY ClockFrame, BoundsAssumption DEF ClockOK, Tick
  <1>2. CASE UNCHANGED <<bucket, grants>>
    <2>1. ASSUME NEW g, NEW b, LimitOK(g, b, now)
          PROVE  LimitOK(g, b, now')
      <3>1. g \in Seq(Nat) /\ \A i \in 1 .. Len(g) : g[i] \in Nat /\ g[i] <= now
        BY <2>1 DEF LimitOK
      <3>2. \A i \in 1 .. Len(g) : g[i] <= now'
        BY <1>1, <3>1
      <3> QED
        BY <2>1, <3>2 DEF LimitOK
    <2> QED
      BY <1>2, <2>1 DEF LimiterOK
  <1>3. ASSUME now' = now, NEW p \in Procs, Allow(p)
        PROVE  LimiterOK'
    <2> DEFINE ch == Channel(p)
               g == grants[ch]
               b == bucket[ch]
               h == Append(g, now)
               c == [tokens |-> Bucket(ch).tokens - 1, last |-> Bucket(ch).last,
                     expires |-> now + 2 * Window]
    <2>1. ch \in Channels
      BY <1>3, ChannelOK DEF Allow, Looping
    <2>2. /\ Bucket(ch).tokens > 0
          /\ bucket' = [bucket EXCEPT ![ch] = c]
          /\ grants' = [grants EXCEPT ![ch] = h]
      BY <1>3 DEF Allow
    <2>3. LimitOK(g, b, now)
      BY <2>1 DEF LimiterOK
    <2>4. LimitOK(h, c, now)
      <3>1. CASE Refill(b)
        <4>1. c = [tokens |-> MaxTokens - 1, last |-> now, expires |-> now + 2 * Window]
          BY <3>1 DEF Bucket
        <4>2. b = None \/ now >= b.expires \/ now - b.last >= Window
          BY <3>1 DEF Refill
        <4> HIDE DEF b, c, g
        <4> QED
          BY <1>1, <2>3, <4>1, <4>2, GrantWithRefill
      <3>2. CASE ~Refill(b)
        <4>1. b # None /\ b.tokens > 0
          BY <2>2, <3>2 DEF Refill, Bucket
        <4>2. c = [tokens |-> b.tokens - 1, last |-> b.last, expires |-> now + 2 * Window]
          BY <3>2 DEF Bucket
        <4> HIDE DEF b, c, g
        <4> QED
          BY <1>1, <2>3, <4>1, <4>2, GrantInBatch
      <3> QED
        BY <3>1, <3>2
    <2> HIDE DEF ch, h, c
    <2>5. DOMAIN grants' = Channels /\ DOMAIN bucket' = Channels
      BY <2>2 DEF LimiterOK
    <2>6. \A z \in Channels : LimitOK(grants'[z], bucket'[z], now')
      BY <1>3, <2>1, <2>2, <2>4 DEF LimiterOK
    <2> QED
      BY <2>5, <2>6 DEF LimiterOK
  <1>4. CASE RedisRestart
    <2>1. now' = now /\ bucket' = [ch \in Channels |-> None] /\ grants' = [ch \in Channels |-> <<>>]
      BY <1>4 DEF RedisRestart
    <2>2. LimitOK(<<>>, None, now)
      BY <1>1 DEF LimitOK
    <2> QED
      BY <2>1, <2>2 DEF LimiterOK
  <1> QED
    BY <1>2, <1>3, <1>4, LimiterFrame

(***************************************************************************)
(* Type correctness and the rate limit.                                    *)
(***************************************************************************)

Typing == ConfigOK /\ ClockOK /\ ContactOK /\ JobsOK /\ LimiterOK

\* Every step keeps the shape of the state.
LEMMA TypingStep == Typing /\ [Next]_vars => Typing'
PROOF
  BY ConfigStep, ContactStep, JobsStep, LimiterStep DEF Typing

\* The service starts with a state of that shape.
LEMMA TypingInit == Init => Typing
PROOF
  <1> SUFFICES ASSUME Init
               PROVE  Typing
    OBVIOUS
  <1>1. DefaultConfig \in Configs
    <2>1. TRUE \in Flag
      BY Zenon DEF Flag
    <2> QED
      BY <2>1 DEF Configs, DefaultConfig
  <1>2. hist = <<DefaultConfig>> /\ now = 0 /\ edit = [a \in Admins |-> None]
    BY DEF Init
  <1>3. ConfigOK
    BY <1>1, <1>2 DEF ConfigOK
  <1>4. ClockOK
    <2>1. MaxTime \in Nat
      BY BoundsAssumption
    <2>2. Len(hist) = 1 /\ hist[1].at = 0
      BY <1>2 DEF DefaultConfig
    <2> QED
      BY <1>2, <2>1, <2>2 DEF ClockOK
  <1>5. ContactOK
    BY NoneAssumption DEF Init, ContactOK, Rows
  <1>6. JobsOK
    <2>1. DOMAIN work = Procs /\ \A p \in Procs : WorkOK(work[p], Len(hist))
      BY <1>2, IdleOK DEF Init
    <2>2. queue \in Seq(Ids)
      <3>1. Messages \in Seq(Range(Messages))
        BY ListsAssumption DEF IsList
      <3>2. Len(Messages) \in Nat /\ Ids = 1 .. Len(Messages)
        BY <3>1 DEF Ids
      <3> DEFINE n == Len(Messages)
      <3>3. queue = [i \in 1 .. n |-> i]
        BY DEF Init
      <3> HIDE DEF n
      <3>4. queue \in Seq(1 .. n)
        BY <3>2, <3>3 DEF n
      <3> QED
        BY <3>2, <3>4 DEF n
    <2> QED
      BY <2>1, <2>2 DEF Init, JobsOK
  <1>7. LimiterOK
    <2>1. LimitOK(<<>>, None, 0)
      BY DEF LimitOK
    <2> QED
      BY <2>1 DEF Init, LimiterOK
  <1> QED
    BY <1>3, <1>4, <1>5, <1>6, <1>7 DEF Typing

\* The shape of the state, in every behaviour.
LEMMA TypingInvariant == Spec => []Typing
PROOF
  BY TypingInit, TypingStep, PTL DEF Spec

\* The tables, the caches and the handlers keep their shape, for any number of processes,
\* messages, admins and contacts: a refused URL is never stored, and a handler that sends
\* has a channel to send to.
THEOREM NotificationTypeCorrect == Spec => []TypeOK
PROOF
  <1>1. Typing => TypeOK
    <2> SUFFICES ASSUME Typing
                 PROVE  TypeOK
      OBVIOUS
    <2>1. now \in 0 .. MaxTime /\ queue \in Seq(Ids) /\ \A m \in Ids : log[m] \subseteq Channels
      BY DEF Typing, ClockOK, JobsOK
    <2>2. \A i \in 1 .. Version : hist[i].at <= now /\ hist[i].url # "refused"
      <3>1. \A i \in 1 .. Len(hist) : hist[i] \in Configs
        BY DEF Typing, ConfigOK
      <3> QED
        BY <3>1 DEF Version, Configs, Typing, ClockOK
    <2>3. \A p \in Procs :
             /\ work[p].pc \in {"idle", "contact", "config", "store", "loop", "send"}
             /\ work[p].id \in Ids \cup {0} /\ work[p].ver \in 0 .. Version
             /\ At(p, "send") => work[p].todo # {}
             /\ cache[p] # None => cache[p].ver \in 1 .. Version
      BY DEF Typing, JobsOK, WorkOK, Waiting, At, Version
    <2>4. \A ch \in Channels : bucket[ch] # None => bucket[ch].tokens \in 0 .. MaxTokens - 1
      BY DEF Typing, LimiterOK, LimitOK, BucketOK
    <2> QED
      BY <2>1, <2>2, <2>3, <2>4 DEF TypeOK
  <1> QED
    BY <1>1, TypingInvariant, PTL

\* The limiter's promise for every limit, window and number of processes: of any
\* 2 * MaxTokens grants of a channel in a row the last comes a window or more after the
\* first, although a bucket is refilled whole and the processes share it.
THEOREM RateIsBounded == Spec => []RateBounded
PROOF
  <1>1. Typing => RateBounded
    <2> SUFFICES ASSUME Typing, NEW ch \in Channels, NEW i \in DOMAIN grants[ch],
                        NEW j \in DOMAIN grants[ch], j = i + 2 * MaxTokens - 1
                 PROVE  grants[ch][j] >= grants[ch][i] + Window
      BY DEF RateBounded
    <2>1. LimitOK(grants[ch], bucket[ch], now)
      BY DEF Typing, LimiterOK
    <2>2. DOMAIN grants[ch] = 1 .. Len(grants[ch])
      BY <2>1 DEF LimitOK
    <2> QED
      BY <2>1, <2>2 DEF LimitOK
  <1> QED
    BY <1>1, TypingInvariant, PTL

(***************************************************************************)
(* Nobody is skipped in silence.                                           *)
(***************************************************************************)

\* What a handler is through with is muted, logged, or its row could not be written.
Accounted(w) ==
    w.pc \in {"loop", "send"} =>
        \A k \in DOMAIN Candidates(w) \ w.todo :
            Muted(w, Candidates(w)[k]) \/ Candidates(w)[k] \in log[w.id] \cup w.lost
AllAccounted == \A p \in Procs : Accounted(work[p])

\* Which channels are muted depends on the contact and the config of the job only.
LEMMA MutedSame ==
    ASSUME NEW u, NEW w, u.to = w.to, u.ver = w.ver
    PROVE  /\ Candidates(u) = Candidates(w)
           /\ \A ch : Muted(u, ch) <=> Muted(w, ch)
PROOF
  BY DEF Candidates, Muted

\* A job left alone stays accounted for: the log and the versions only grow.
LEMMA AccountedKept ==
    ASSUME ConfigOK, NEW w, WorkOK(w, Len(hist)), w.pc # "idle", Accounted(w), HistGrows,
           \A m \in Ids : log[m] \subseteq log'[m]
    PROVE  Accounted(w)'
PROOF
  <1>1. w.ver \in 0 .. Len(hist) /\ w.id \in Ids
    BY DEF WorkOK
  <1>2. w.ver # 0 => hist'[w.ver] = hist[w.ver]
    BY <1>1 DEF HistGrows, ConfigOK
  <1>3. ASSUME NEW ch, Muted(w, ch)
        PROVE  Muted(w, ch)'
    BY <1>2, <1>3 DEF Muted
  <1> QED
    BY <1>1, <1>3 DEF Accounted

\* Dispatch leaves out what is muted.
LEMMA DispatchAccounts ==
    ASSUME JobsOK, NEW p \in Procs, NEW v, Dispatch(p, v), hist' = hist
    PROVE  Accounted(work[p])'
PROOF
  <1> DEFINE w == [work[p] EXCEPT !.pc = "loop", !.ver = v, !.at = 0]
             T == {k \in DOMAIN Candidates(w) : ~Muted(w, Candidates(w)[k])}
             u == [w EXCEPT !.todo = T]
  <1>1. DOMAIN work[p] = Fields
    BY DEF JobsOK, WorkOK
  <1>2. DOMAIN w = Fields
    BY <1>1
  <1>3. work'[p] = u
    BY DEF Dispatch, Becomes, JobsOK
  <1> HIDE DEF w
  <1>4. u.to = w.to /\ u.ver = w.ver /\ u.todo = T
    BY <1>2 DEF Fields
  <1> HIDE DEF u
  <1>5. Candidates(u) = Candidates(w) /\ \A ch : Muted(u, ch) <=> Muted(w, ch)
    BY <1>4, MutedSame
  <1>6. \A k \in DOMAIN Candidates(u) \ u.todo : Muted(u, Candidates(u)[k])
    BY <1>4, <1>5
  <1>7. ASSUME NEW z, z = u
        PROVE  \A k \in DOMAIN Candidates(z) \ z.todo : Muted(z, Candidates(z)[k])'
    <2>1. \A k \in DOMAIN Candidates(z) \ z.todo : Muted(z, Candidates(z)[k])
      BY <1>6, <1>7
    <2> QED
      BY <2>1 DEF Muted
  <1>8. ASSUME NEW z, z = u
        PROVE  Accounted(z)'
    BY <1>7, <1>8 DEF Accounted
  <1> QED
    BY <1>3, <1>8 DEF Accounted, Muted

\* Going on to the next channel accounts for this one.
LEMMA PassedAccounts ==
    ASSUME JobsOK, NEW p \in Procs, Accounted(work[p]), hist' = hist,
           At(p, "loop") \/ At(p, "send"), work[p].todo # {}, Logged(p) \/ Unlogged(p)
    PROVE  Accounted(work[p])'
PROOF
  <1> DEFINE w == work[p]
             ch == Channel(p)
             x == Passed(p)
  <1>1. DOMAIN w = Fields /\ w.id \in Ids /\ w.pc \in {"loop", "send"}
    BY ChannelOK DEF JobsOK, WorkOK, At
  <1>2. /\ DOMAIN x = Fields /\ x.to = w.to /\ x.ver = w.ver /\ x.id = w.id /\ x.lost = w.lost
        /\ x.todo = w.todo \ {Position(p)}
    BY <1>1 DEF Passed, Fields
  <1> HIDE DEF x
  <1>3. ch = Candidates(w)[Position(p)]
    BY DEF Channel
  <1>4. PICK u : /\ work'[p] = u /\ u.to = w.to /\ u.ver = w.ver /\ u.id = w.id
                 /\ u.todo = w.todo \ {Position(p)}
                 /\ w.lost \subseteq u.lost
                 /\ \A m \in Ids : log[m] \subseteq log'[m]
                 /\ ch \in log'[w.id] \cup u.lost
    <2>1. CASE Logged(p)
      <3>1. work'[p] = x
        BY <2>1 DEF Logged, Becomes, JobsOK, x
      <3>2. ch \in log'[w.id] /\ \A m \in Ids : log[m] \subseteq log'[m]
        BY <1>1, <2>1 DEF Logged, JobsOK
      <3> QED
        BY <1>2, <3>1, <3>2
    <2>2. CASE Unlogged(p)
      <3> DEFINE y == [x EXCEPT !.lost = @ \cup {ch}]
      <3>1. work'[p] = y /\ log' = log
        BY <2>2 DEF Unlogged, Becomes, JobsOK, x
      <3>2. /\ y.to = w.to /\ y.ver = w.ver /\ y.id = w.id /\ y.todo = w.todo \ {Position(p)}
            /\ y.lost = w.lost \cup {ch}
        BY <1>2 DEF Fields
      <3> HIDE DEF y, ch
      <3> QED
        BY <3>1, <3>2
    <2> QED
      BY <2>1, <2>2
  <1> HIDE DEF ch
  <1>5. Candidates(u) = Candidates(w) /\ \A c : Muted(u, c) <=> Muted(w, c)
    BY <1>4, MutedSame
  <1>6. ASSUME NEW k \in DOMAIN Candidates(u) \ u.todo
        PROVE  \/ Muted(u, Candidates(u)[k])
               \/ Candidates(u)[k] \in log'[u.id] \cup u.lost
    <2>1. CASE k = Position(p)
      BY <1>3, <1>4, <1>5, <2>1
    <2>2. CASE k # Position(p)
      <3>1. Muted(w, Candidates(w)[k]) \/ Candidates(w)[k] \in log[w.id] \cup w.lost
        BY <1>1, <1>4, <1>5, <2>2 DEF Accounted
      <3> QED
        BY <1>1, <1>4, <1>5, <3>1
    <2> QED
      BY <2>1, <2>2
  <1>7. \A c : Muted(u, c)' <=> Muted(u, c)
    BY DEF Muted
  <1> QED
    BY <1>4, <1>6, <1>7 DEF Accounted, Muted

\* Only its own steps and the failures that befall it change the job of a process.
Acts(p) == Handle(p) \/ Disconnect(p) \/ Crash(p) \/ Expire(p)
\* A step that is none of these leaves jobs, log and caches alone.
LEMMA JobsFrame ==
    ASSUME [Next]_vars
    PROVE  UNCHANGED <<work, log, cache>> \/ \E p \in Procs : Acts(p)
PROOF
  BY DEF Next, Acts, Edit, vars, config, contacts, ghosts, redis, UpsertConfig, PutConfig,
     PutContact, SyncRead, SyncWrite, Tick, RedisRestart

\* No outcome is removed from the log.
LEMMA LogGrows ==
    ASSUME JobsOK, [Next]_vars
    PROVE  \A m \in Ids : log[m] \subseteq log'[m]
PROOF
  <1>1. ASSUME NEW p \in Procs, Logged(p)
        PROVE  \A m \in Ids : log[m] \subseteq log'[m]
    BY <1>1 DEF Logged, JobsOK
  <1>2. ASSUME NEW p \in Procs, Acts(p), ~Logged(p)
        PROVE  log' = log
    BY <1>2, AppendLogCases DEF Acts, Handle, Receive, GetContact, CacheHit, Fetch, Store,
       Unsendable, Unlogged, Allow, AllowUnasked, RateLimited, Send, Ack, Disconnect, Crash, Expire
  <1> QED
    BY <1>1, <1>2, JobsFrame

\* A step that leaves the phase, the contact, the version, the list and the message of a
\* job, or that begins to send.
LEMMA SameAccounts ==
    ASSUME JobsOK, ConfigOK, NEW p \in Procs, Accounted(work[p]), hist' = hist, log' = log, NEW w,
           work' = [work EXCEPT ![p] = w], WorkOK(w, Len(hist)),
           w.pc = work[p].pc \/ (work[p].pc = "loop" /\ w.pc = "send"),
           w.to = work[p].to, w.ver = work[p].ver, w.id = work[p].id, w.todo = work[p].todo,
           w.lost = work[p].lost
    PROVE  Accounted(work[p])'
PROOF
  <1>1. work'[p] = w
    BY DEF JobsOK
  <1>2. Candidates(w) = Candidates(work[p]) /\ \A ch : Muted(w, ch) <=> Muted(work[p], ch)
    BY MutedSame
  <1>3. Accounted(w)
    BY <1>2 DEF Accounted
  <1>4. \A ch : Muted(w, ch)' <=> Muted(w, ch)
    BY DEF Muted
  <1> QED
    BY <1>1, <1>3, <1>4 DEF Accounted, Muted

\* A step of a process accounts for each channel it passes.
LEMMA ActorAccounts ==
    ASSUME Typing, NEW p \in Procs, Accounted(work[p]), Acts(p)
    PROVE  Accounted(work[p])'
PROOF
  <1> USE DEF config, redis, ghosts, contacts
  <1>0. JobsOK /\ ConfigOK /\ Len(hist) \in Nat \ {0} /\ WorkOK(work[p], Len(hist)) /\ DOMAIN work = Procs
    BY DEF Typing, ConfigOK, JobsOK
  <1>1. ASSUME NEW w, work' = [work EXCEPT ![p] = w], w.pc \notin {"loop", "send"}
        PROVE  Accounted(work[p])'
    BY <1>0, <1>1 DEF Accounted
  <1>2. CASE Receive(p)
    <2> DEFINE w(l) == [Idle EXCEPT !.pc = l, !.id = Head(queue), !.held = TRUE]
    <2>1. work' \in {[work EXCEPT ![p] = w("contact")], [work EXCEPT ![p] = w("config")],
                     [work EXCEPT ![p] = Idle]}
      BY <1>2 DEF Receive, Becomes, Finish
    <2>2. w("contact").pc = "contact" /\ w("config").pc = "config" /\ Idle.pc = "idle"
      BY DEF Idle
    <2> HIDE DEF w
    <2> QED
      BY <1>1, <2>1, <2>2
  <1>3. CASE GetContact(p)
    <2> DEFINE w == [work[p] EXCEPT !.pc = "config", !.to = contact]
    <2>1. work' = [work EXCEPT ![p] = Idle] \/ work' = [work EXCEPT ![p] = w]
      BY <1>3 DEF GetContact, Finish, Becomes
    <2>2. w.pc = "config" /\ Idle.pc = "idle"
      BY <1>0 DEF WorkOK, Fields, Idle
    <2> HIDE DEF w
    <2> QED
      BY <1>1, <2>1, <2>2
  <1>4. CASE CacheHit(p)
    BY <1>0, <1>4, DispatchAccounts DEF CacheHit
  <1>5. CASE Fetch(p)
    <2>1. CASE Dispatch(p, 0)
      BY <1>0, <1>5, <2>1, DispatchAccounts DEF Fetch
    <2>2. CASE ~Dispatch(p, 0)
      <3> DEFINE w == [work[p] EXCEPT !.pc = "store", !.ver = Version, !.at = now]
      <3>1. work' = [work EXCEPT ![p] = w]
        BY <1>5, <2>2 DEF Fetch, Becomes
      <3>2. w.pc = "store"
        BY <1>0 DEF WorkOK, Fields
      <3> HIDE DEF w
      <3> QED
        BY <1>1, <3>1, <3>2
    <2> QED
      BY <2>1, <2>2
  <1>6. CASE Store(p)
    BY <1>0, <1>6, DispatchAccounts DEF Store
  <1>7. CASE Unsendable(p) \/ RateLimited(p) \/ Send(p)
    <2>1. (Logged(p) \/ Unlogged(p)) /\ hist' = hist
      BY <1>7, AppendLogCases DEF Unsendable, RateLimited, Send
    <2>2. (At(p, "loop") \/ At(p, "send")) /\ work[p].todo # {}
      BY <1>0, <1>7 DEF Unsendable, RateLimited, Send, Looping, At, WorkOK
    <2> QED
      BY <1>0, <2>1, <2>2, PassedAccounts
  <1>8. CASE Allow(p) \/ AllowUnasked(p)
    <2> DEFINE w == [work[p] EXCEPT !.pc = "send"]
    <2>1. /\ work' = [work EXCEPT ![p] = w] /\ hist' = hist /\ log' = log
          /\ work[p].pc = "loop" /\ work[p].todo # {}
      BY <1>8 DEF Allow, AllowUnasked, Looping, At, Sends, Becomes
    <2>2. WorkOK(w, Len(hist))
      BY <1>0, <2>1, FieldsOK
    <2>3. /\ w.pc = "send" /\ w.to = work[p].to /\ w.ver = work[p].ver /\ w.id = work[p].id
          /\ w.todo = work[p].todo /\ w.lost = work[p].lost
      BY <1>0 DEF WorkOK, Fields
    <2> HIDE DEF w
    <2> QED
      BY <1>0, <2>1, <2>2, <2>3, SameAccounts
  <1>9. CASE Ack(p) \/ Crash(p)
    <2>1. work' = [work EXCEPT ![p] = Idle]
      BY <1>9 DEF Ack, Crash, Finish, Becomes
    <2> QED
      BY <1>1, <2>1 DEF Idle
  <1>10. CASE Disconnect(p)
    <2> DEFINE w == [work[p] EXCEPT !.held = FALSE]
    <2>1. work' = [work EXCEPT ![p] = w] /\ hist' = hist /\ log' = log
      BY <1>10 DEF Disconnect, Becomes
    <2>2. WorkOK(w, Len(hist))
      BY <1>0, FieldsOK
    <2>3. /\ w.pc = work[p].pc /\ w.to = work[p].to /\ w.ver = work[p].ver /\ w.id = work[p].id
          /\ w.todo = work[p].todo /\ w.lost = work[p].lost
      BY <1>0 DEF WorkOK, Fields
    <2> HIDE DEF w
    <2> QED
      BY <1>0, <2>1, <2>2, <2>3, SameAccounts
  <1>11. CASE Expire(p)
    <2> DEFINE w == [work[p] EXCEPT !.expired = TRUE]
    <2>1. work' = [work EXCEPT ![p] = w] /\ hist' = hist /\ log' = log /\ work[p].pc # "idle"
      BY <1>11 DEF Expire, Becomes, At
    <2>2. WorkOK(w, Len(hist))
      BY <1>0, <2>1, FieldsOK
    <2>3. /\ w.pc = work[p].pc /\ w.to = work[p].to /\ w.ver = work[p].ver /\ w.id = work[p].id
          /\ w.todo = work[p].todo /\ w.lost = work[p].lost
      BY <1>0 DEF WorkOK, Fields
    <2> HIDE DEF w
    <2> QED
      BY <1>0, <2>1, <2>2, <2>3, SameAccounts
  <1> QED
    BY <1>2, <1>3, <1>4, <1>5, <1>6, <1>7, <1>8, <1>9, <1>10, <1>11 DEF Acts, Handle

\* The job of another process stays as it is.
LEMMA OthersStay ==
    ASSUME Typing, NEW p \in Procs, Acts(p)
    PROVE  \A q \in Procs \ {p} : work'[q] = work[q]
PROOF
  <1>1. JobStep(p)
    BY HandleStep, FailureStep DEF Acts, Typing
  <1> QED
    BY <1>1 DEF JobStep, Typing, JobsOK

\* Every step leaves all passed channels accounted for.
LEMMA AccountedStep ==
    ASSUME Typing, AllAccounted, [Next]_vars
    PROVE  AllAccounted'
PROOF
  <1>1. HistGrows /\ \A m \in Ids : log[m] \subseteq log'[m]
    BY ConfigStep, LogGrows DEF Typing
  <1>2. ASSUME NEW q \in Procs, work'[q] = work[q]
        PROVE  Accounted(work[q])'
    <2>1. ASSUME NEW w, w = work[q]
          PROVE  Accounted(w)'
      <3>1. WorkOK(w, Len(hist)) /\ Accounted(w) /\ ConfigOK
        BY <2>1 DEF Typing, JobsOK, AllAccounted
      <3>2. CASE w.pc = "idle"
        BY <3>2 DEF Accounted
      <3>3. CASE w.pc # "idle"
        BY <1>1, <3>1, <3>3, AccountedKept
      <3> QED
        BY <3>2, <3>3
    <2> QED
      BY <1>2, <2>1 DEF Accounted, Muted
  <1>3. ASSUME NEW p \in Procs, Acts(p)
        PROVE  AllAccounted'
    <2>1. Accounted(work[p])'
      BY <1>3, ActorAccounts DEF AllAccounted
    <2> QED
      BY <1>2, <1>3, <2>1, OthersStay DEF AllAccounted
  <1> QED
    BY <1>2, <1>3, JobsFrame DEF AllAccounted

\* All passed channels are accounted for, in every behaviour.
LEMMA AccountedInvariant == Spec => []AllAccounted
PROOF
  <1>1. Init => AllAccounted
    <2> SUFFICES ASSUME Init, NEW p \in Procs
                 PROVE  Accounted(work[p])
      BY DEF AllAccounted
    <2>1. work[p].pc = "idle"
      BY DEF Init, Idle
    <2> QED
      BY <2>1 DEF Accounted
  <1> QED
    BY <1>1, TypingInvariant, AccountedStep, PTL DEF Spec

\* Nobody is skipped in silence, for any contacts, configs and outages: when a handler is
\* through, each known channel of the contact is in the log, or its row could not be
\* written, or there is no address or a config that was read disables it.
THEOREM NobodySkippedSilently == Spec => []NoSilentSkip
PROOF
  <1>1. AllAccounted => NoSilentSkip
    <2> SUFFICES ASSUME AllAccounted, NEW p \in Procs, At(p, "loop"), work[p].todo = {},
                        NEW ch \in Range(Candidates(work[p])) \cap Channels
                 PROVE  \/ ch \in log[work[p].id] \cup work[p].lost
                        \/ ch = "email" /\ work[p].to.email = ""
                        \/ work[p].ver # 0 /\ ~(IF ch = "email" THEN hist[work[p].ver].email
                                                                ELSE hist[work[p].ver].mm)
      BY DEF NoSilentSkip
    <2>1. PICK k \in DOMAIN Candidates(work[p]) : Candidates(work[p])[k] = ch
      BY DEF Range
    <2>2. Muted(work[p], ch) \/ ch \in log[work[p].id] \cup work[p].lost
      BY <2>1 DEF AllAccounted, Accounted, At
    <2> QED
      BY <2>2 DEF Muted, Channels
  <1> QED
    BY <1>1, AccountedInvariant, PTL

(***************************************************************************)
(* Edits stay in force.                                                    *)
(***************************************************************************)

Sections == {"mm", "email", "url"}
AskedOK ==
    /\ DOMAIN asked = {"config", "contact"} /\ DOMAIN asked.config = Sections
    /\ contact = None => asked.contact = None

\* A merge into a version that agrees with what was asked for agrees with it again.
LEMMA MergeKeeps ==
    ASSUME NEW cur \in Configs, NEW b \in ConfigBodies, NEW old,
           \A f \in Sections : cur[f] = old[f]
    PROVE  /\ DOMAIN Requested(old, b) = Sections
           /\ \A f \in Sections : Merged(cur, b)[f] = Requested(old, b)[f]
PROOF
  <1>1. DOMAIN b = Sections
    BY BodiesAssumption DEF Sections
  <1>2. DOMAIN Requested(old, b) = Sections
    BY <1>1 DEF Requested
  <1>3. \A f \in Sections : Requested(old, b)[f] = IF b[f] = Keep THEN cur[f] ELSE b[f]
    BY <1>1 DEF Requested
  <1>4. Merged(cur, b)["mm"] = Given(b["mm"], cur["mm"])
    BY DEF Merged
  <1>5. Merged(cur, b)["email"] = Given(b["email"], cur["email"])
    BY DEF Merged
  <1>6. Merged(cur, b)["url"] = Given(b["url"], cur["url"])
    BY DEF Merged
  <1> QED
    BY <1>2, <1>3, <1>4, <1>5, <1>6 DEF Sections, Given

\* Every step keeps the accepted edits in force or records the race.
LEMMA EditsStep ==
    ASSUME Typing, AskedOK, EditsLostOnlyByRace, [Next]_vars
    PROVE  AskedOK' /\ EditsLostOnlyByRace'
PROOF
  <1> USE DEF config, contacts, ghosts, redis
  <1>1. CASE UNCHANGED <<hist, contact, asked, raced>>
    BY <1>1 DEF AskedOK, EditsLostOnlyByRace, Version
  <1>2. ASSUME NEW a \in Admins, UpsertConfig(a)
        PROVE  AskedOK' /\ EditsLostOnlyByRace'
    <2> DEFINE n == Len(hist)
               b == edit[a].body
               cur == hist[edit[a].read]
    <2>1. CASE UNCHANGED <<hist, asked, raced>>
      BY <1>1, <1>2, <2>1 DEF UpsertConfig
    <2>2. CASE ~UNCHANGED <<hist, asked, raced>>
      <3>1. /\ hist' = Append(hist, Merged(cur, b)) /\ contact' = contact
            /\ asked' = [asked EXCEPT !.config = Requested(@, b)]
            /\ raced' = IF edit[a].read # n THEN raced \cup {"config"} ELSE raced
        BY <1>2, <2>2 DEF UpsertConfig, Version
      <3>2. /\ n \in Nat \ {0} /\ hist \in Seq(Configs) /\ now \in Nat
            /\ edit[a].read \in 1 .. n /\ b \in ConfigBodies /\ b.url # "refused"
        BY <1>2 DEF Typing, ConfigOK, ClockOK, UpsertConfig
      <3>3. cur \in Configs /\ Merged(cur, b) \in Configs
        BY <3>2, MergedOK
      <3>4. Len(hist') = n + 1 /\ hist'[n + 1] = Merged(cur, b)
        BY <3>1, <3>2, <3>3
      <3>5. asked'.config = Requested(asked.config, b) /\ asked'.contact = asked.contact
            /\ DOMAIN asked' = {"config", "contact"}
        BY <3>1 DEF AskedOK
      <3>6. DOMAIN Requested(asked.config, b) = Sections
        BY <3>2, BodiesAssumption DEF Requested, Sections
      <3>7. AskedOK'
        BY <3>1, <3>5, <3>6 DEF AskedOK
      <3>8. "config" \in raced' \/ \A f \in DOMAIN asked'.config : hist'[Len(hist')][f] = asked'.config[f]
        <4>1. CASE edit[a].read # n
          BY <3>1, <4>1
        <4>2. CASE edit[a].read = n /\ "config" \in raced
          BY <3>1, <4>2
        <4>3. CASE edit[a].read = n /\ "config" \notin raced
          <5>1. \A f \in Sections : cur[f] = asked.config[f]
            BY <4>3 DEF EditsLostOnlyByRace, AskedOK, Version
          <5>2. \A f \in Sections : Merged(cur, b)[f] = Requested(asked.config, b)[f]
            BY <3>2, <3>3, <5>1, MergeKeeps
          <5> QED
            BY <3>4, <3>5, <3>6, <5>2
        <4> QED
          BY <4>1, <4>2, <4>3
      <3>9. "contact" \in raced' \/ asked'.contact = None \/ contact'.channels = asked'.contact
        BY <3>1, <3>5 DEF EditsLostOnlyByRace
      <3> QED
        BY <3>7, <3>8, <3>9 DEF EditsLostOnlyByRace, Version
    <2> QED
      BY <2>1, <2>2
  <1>3. ASSUME NEW b \in ContactBodies, PutContact(b)
        PROVE  AskedOK' /\ EditsLostOnlyByRace'
    <2>1. b # None
      BY NoneAssumption DEF Rows
    <2>2. /\ contact' = b /\ hist' = hist /\ raced' = raced
          /\ asked' = [asked EXCEPT !.contact = b.channels]
      BY <1>3 DEF PutContact
    <2>3. /\ DOMAIN asked' = {"config", "contact"} /\ asked'.config = asked.config
          /\ asked'.contact = b.channels
      BY <2>2 DEF AskedOK
    <2> QED
      BY <2>1, <2>2, <2>3 DEF AskedOK, EditsLostOnlyByRace, Version
  <1>4. CASE SyncWrite
    <2>1. CASE contact' = contact /\ raced' = raced
      BY <1>1, <1>4, <2>1 DEF SyncWrite
    <2>2. CASE ~(contact' = contact /\ raced' = raced)
      <3>1. /\ contact' = Synced(sync.row) /\ sync.row \in Contacts \cup {None}
            /\ raced' = IF sync.row # contact THEN raced \cup {"contact"} ELSE raced
            /\ UNCHANGED <<hist, asked>>
        BY <1>4, <2>2 DEF SyncWrite, Typing, ContactOK
      <3>2. Synced(sync.row) \in Contacts
        BY <3>1 DEF Synced, Contacts, Lists
      <3>3. AskedOK'
        BY <3>1, <3>2, NoneAssumption DEF AskedOK
      <3>4. sync.row # None => Synced(sync.row).channels = sync.row.channels
        BY <3>1 DEF Synced, Contacts
      <3>5. "contact" \in raced' \/ asked'.contact = None \/ contact'.channels = asked'.contact
        BY <3>1, <3>4 DEF AskedOK, EditsLostOnlyByRace
      <3>6. "config" \in raced' \/ \A f \in DOMAIN asked'.config : hist'[Version'][f] = asked'.config[f]
        BY <3>1 DEF EditsLostOnlyByRace, Version
      <3> QED
        BY <3>3, <3>5, <3>6 DEF EditsLostOnlyByRace
    <2> QED
      BY <2>1, <2>2
  <1> QED
    BY <1>1, <1>2, <1>3, <1>4
    DEF Next, Handle, Edit, vars, PutConfig, SyncRead, Receive, GetContact, CacheHit, Fetch,
        Store, Unsendable, Allow, AllowUnasked, RateLimited, Send, Ack, Tick, Disconnect,
        Crash, Expire, RedisRestart

\* An accepted edit of a tenant's config or of a contact's channels stays in force until
\* the next one that names the field, unless a request overwrote a row it had read before
\* that edit, for any number of admins and any bodies.
THEOREM EditsStayInForce == Spec => []EditsLostOnlyByRace
PROOF
  <1>1. Init => AskedOK /\ EditsLostOnlyByRace
    <2> SUFFICES ASSUME Init
                 PROVE  AskedOK /\ EditsLostOnlyByRace
      OBVIOUS
    <2>1. /\ DOMAIN asked = {"config", "contact"} /\ DOMAIN asked.config = Sections
          /\ asked.contact = IF contact = None THEN None ELSE contact.channels
          /\ asked.config["mm"] = TRUE /\ asked.config["email"] = TRUE /\ asked.config["url"] = ""
      BY DEF Init, Sections
    <2>2. /\ hist[Version]["mm"] = TRUE /\ hist[Version]["email"] = TRUE
          /\ hist[Version]["url"] = ""
      BY DEF Init, Version, DefaultConfig
    <2>3. \A f \in Sections : hist[Version][f] = asked.config[f]
      BY <2>1, <2>2 DEF Sections
    <2> QED
      BY <2>1, <2>3 DEF AskedOK, EditsLostOnlyByRace
  <1>2. Typing /\ (AskedOK /\ EditsLostOnlyByRace) /\ [Next]_vars
        => (AskedOK /\ EditsLostOnlyByRace)'
    BY EditsStep
  <1> QED
    BY <1>1, <1>2, TypingInvariant, PTL DEF Spec

(***************************************************************************)
(* How old a config may be.                                                *)
(***************************************************************************)

\* When version v of the config was replaced, if it was.
Replaced(v) == v < Len(hist)
ReplacedAt(v) == hist[v + 1].at

CacheAge(c) ==
    /\ c.expires <= now + TTL
    /\ Replaced(c.ver) => c.expires <= ReplacedAt(c.ver) + TTL + FetchTimeout
FetchAge(w) ==
    /\ w.at <= now /\ now <= w.at + FetchTimeout
    /\ Replaced(w.ver) => w.at <= ReplacedAt(w.ver)
Ages ==
    /\ \A p \in Procs : cache[p] # None => CacheAge(cache[p])
    /\ \A p \in Procs : At(p, "store") => FetchAge(work[p])

\* What a step of a process does to its cache and to the config it fetches, and when it
\* goes on with a config.
LEMMA ActorFetches ==
    ASSUME Typing, NEW p \in Procs, Acts(p)
    PROVE  /\ UNCHANGED <<now, hist>>
           /\ \A q \in Procs \ {p} : cache'[q] = cache[q]
           /\ \/ cache'[p] = cache[p]
              \/ cache'[p] = None
              \/ At(p, "store") /\ cache'[p] = [ver |-> work[p].ver, expires |-> now + TTL]
           /\ work'[p].pc = "store" =>
                 \/ At(p, "store") /\ work'[p].ver = work[p].ver /\ work'[p].at = work[p].at
                 \/ work'[p].ver = Len(hist) /\ work'[p].at = now
           /\ work[p].pc \in {"config", "store"} /\ work'[p].pc = "loop" /\ work'[p].ver # 0 =>
                 \/ Fresh(p) /\ work'[p].ver = cache[p].ver
                 \/ At(p, "store") /\ work'[p].ver = work[p].ver
PROOF
  <1> USE DEF config, contacts, ghosts, redis
  <1> DEFINE Goal ==
        /\ UNCHANGED <<now, hist>>
        /\ \A q \in Procs \ {p} : cache'[q] = cache[q]
        /\ \/ cache'[p] = cache[p]
           \/ cache'[p] = None
           \/ At(p, "store") /\ cache'[p] = [ver |-> work[p].ver, expires |-> now + TTL]
        /\ work'[p].pc = "store" =>
              \/ At(p, "store") /\ work'[p].ver = work[p].ver /\ work'[p].at = work[p].at
              \/ work'[p].ver = Len(hist) /\ work'[p].at = now
        /\ work[p].pc \in {"config", "store"} /\ work'[p].pc = "loop" /\ work'[p].ver # 0 =>
              \/ Fresh(p) /\ work'[p].ver = cache[p].ver
              \/ At(p, "store") /\ work'[p].ver = work[p].ver
  <1>0. DOMAIN work = Procs /\ DOMAIN cache = Procs /\ DOMAIN work[p] = Fields
    BY DEF Typing, JobsOK, WorkOK
  <1>1. ASSUME NEW v, Dispatch(p, v)
        PROVE  work'[p].pc = "loop" /\ work'[p].ver = v
    <2> DEFINE w == [work[p] EXCEPT !.pc = "loop", !.ver = v, !.at = 0]
               T == {k \in DOMAIN Candidates(w) : ~Muted(w, Candidates(w)[k])}
    <2>1. work'[p] = [w EXCEPT !.todo = T]
      BY <1>0, <1>1 DEF Dispatch, Becomes
    <2>2. DOMAIN w = Fields /\ w.pc = "loop" /\ w.ver = v
      BY <1>0 DEF Fields
    <2> HIDE DEF w, T
    <2> QED
      BY <2>1, <2>2 DEF Fields
  <1>2. ASSUME work'[p].pc \notin {"store", "loop"} \/ work[p].pc \in {"loop", "send"},
               work'[p].pc # "store", UNCHANGED <<now, hist, cache>>
        PROVE  Goal
    BY <1>2
  <1>3. CASE Receive(p)
    <2> DEFINE w(l) == [Idle EXCEPT !.pc = l, !.id = Head(queue), !.held = TRUE]
    <2>1. work'[p] \in {w("contact"), w("config"), Idle}
      BY <1>0, <1>3 DEF Receive, Becomes, Finish
    <2>2. w("contact").pc = "contact" /\ w("config").pc = "config" /\ Idle.pc = "idle"
      BY DEF Idle
    <2>3. UNCHANGED <<now, hist, cache>>
      BY <1>3 DEF Receive
    <2> HIDE DEF w
    <2> QED
      BY <1>2, <2>1, <2>2, <2>3
  <1>4. CASE GetContact(p)
    <2> DEFINE w == [work[p] EXCEPT !.pc = "config", !.to = contact]
    <2>1. work'[p] \in {Idle, w} /\ UNCHANGED <<now, hist, cache>>
      BY <1>0, <1>4 DEF GetContact, Finish, Becomes
    <2>2. w.pc = "config" /\ Idle.pc = "idle"
      BY <1>0 DEF Fields, Idle
    <2> HIDE DEF w
    <2> QED
      BY <1>2, <2>1, <2>2
  <1>5. CASE CacheHit(p)
    <2>1. Fresh(p) /\ Dispatch(p, cache[p].ver) /\ UNCHANGED <<now, hist, cache>>
      BY <1>5 DEF CacheHit
    <2>2. work'[p].pc = "loop" /\ work'[p].ver = cache[p].ver
      BY <1>1, <2>1
    <2> QED
      BY <2>1, <2>2
  <1>6. CASE Fetch(p)
    <2>1. UNCHANGED <<now, hist, cache>>
      BY <1>6 DEF Fetch
    <2>2. CASE Dispatch(p, 0)
      <3>1. work'[p].pc = "loop" /\ work'[p].ver = 0
        BY <1>1, <2>2
      <3> QED
        BY <2>1, <3>1
    <2>3. CASE ~Dispatch(p, 0)
      <3> DEFINE w == [work[p] EXCEPT !.pc = "store", !.ver = Len(hist), !.at = now]
      <3>1. work'[p] = w
        BY <1>0, <1>6, <2>3 DEF Fetch, Becomes, Version
      <3>2. w.pc = "store" /\ w.ver = Len(hist) /\ w.at = now
        BY <1>0 DEF Fields
      <3> HIDE DEF w
      <3> QED
        BY <2>1, <3>1, <3>2
    <2> QED
      BY <2>2, <2>3
  <1>7. CASE Store(p)
    <2>1. At(p, "store") /\ UNCHANGED <<now, hist>>
      BY <1>7 DEF Store
    <2>2. CASE work[p].expired
      <3>1. Dispatch(p, 0) /\ UNCHANGED cache
        BY <1>7, <2>2 DEF Store
      <3>2. work'[p].pc = "loop" /\ work'[p].ver = 0
        BY <1>1, <3>1
      <3> QED
        BY <1>0, <2>1, <3>1, <3>2
    <2>3. CASE ~work[p].expired
      <3>1. /\ Dispatch(p, work[p].ver)
            /\ cache' = [cache EXCEPT ![p] = [ver |-> work[p].ver, expires |-> now + TTL]]
        BY <1>7, <2>3 DEF Store
      <3>2. work'[p].pc = "loop" /\ work'[p].ver = work[p].ver
        BY <1>1, <3>1
      <3> QED
        BY <1>0, <2>1, <3>1, <3>2
    <2> QED
      BY <2>2, <2>3
  <1>8. CASE Unsendable(p) \/ RateLimited(p) \/ Send(p)
    <2> DEFINE x == Passed(p)
               y == [x EXCEPT !.lost = @ \cup {Channel(p)}]
    <2>1. work'[p] = x \/ work'[p] = y
      <3>1. Logged(p) \/ Unlogged(p)
        BY <1>8, AppendLogCases DEF Unsendable, RateLimited, Send
      <3> QED
        BY <1>0, <3>1 DEF Logged, Unlogged, Becomes
    <2>2. DOMAIN x = Fields /\ x.pc = "loop"
      BY <1>0 DEF Passed, Fields
    <2> HIDE DEF x
    <2>3. y.pc = "loop"
      BY <2>2 DEF Fields
    <2> HIDE DEF y
    <2>4. work[p].pc \in {"loop", "send"} /\ UNCHANGED <<now, hist, cache>>
      BY <1>8 DEF Unsendable, RateLimited, Send, Looping, At
    <2> QED
      BY <1>2, <2>1, <2>2, <2>3, <2>4
  <1>9. CASE Allow(p) \/ AllowUnasked(p)
    <2>1. /\ work'[p] = [work[p] EXCEPT !.pc = "send"] /\ UNCHANGED <<now, hist, cache>>
          /\ work[p].pc = "loop"
      BY <1>0, <1>9 DEF Allow, AllowUnasked, Looping, At, Sends, Becomes
    <2>2. work'[p].pc = "send"
      BY <1>0, <2>1 DEF Fields
    <2> QED
      BY <1>2, <2>1, <2>2
  <1>10. CASE Ack(p) \/ Crash(p)
    <2>1. work'[p].pc = "idle"
      BY <1>0, <1>10 DEF Ack, Crash, Finish, Becomes, Idle
    <2>2. UNCHANGED <<now, hist>> /\ (cache' = cache \/ cache' = [cache EXCEPT ![p] = None])
      BY <1>10 DEF Ack, Crash
    <2> QED
      BY <1>0, <2>1, <2>2
  <1>11. CASE Disconnect(p) \/ Expire(p)
    <2>1. /\ \/ work'[p] = [work[p] EXCEPT !.held = FALSE]
             \/ work'[p] = [work[p] EXCEPT !.expired = TRUE]
          /\ UNCHANGED <<now, hist, cache>>
      BY <1>0, <1>11 DEF Disconnect, Expire, Becomes
    <2>2. work'[p].pc = work[p].pc /\ work'[p].ver = work[p].ver /\ work'[p].at = work[p].at
      BY <1>0, <2>1 DEF Fields
    <2> QED
      BY <2>1, <2>2 DEF At
  <1> QED
    BY <1>3, <1>4, <1>5, <1>6, <1>7, <1>8, <1>9, <1>10, <1>11 DEF Acts, Handle

\* An entry, and a request on its way, get no older than they may when versions are added
\* or the clock runs.
LEMMA VersionReplaced ==
    ASSUME Typing, HistGrows, NEW v \in 0 .. Len(hist), v < Len(hist')
    PROVE  /\ hist'[v + 1].at \in Nat
           /\ \/ v < Len(hist) /\ hist'[v + 1].at = hist[v + 1].at
              \/ v = Len(hist) /\ hist'[v + 1].at = now
PROOF
  <1>1. Len(hist) \in Nat /\ now \in Nat /\ Len(hist') \in Nat
    BY BoundsAssumption DEF Typing, ConfigOK, ClockOK, HistGrows
  <1>2. CASE v < Len(hist)
    <2>1. v + 1 \in 1 .. Len(hist)
      BY <1>1, <1>2
    <2>2. hist[v + 1] \in Configs
      BY <2>1 DEF Typing, ConfigOK
    <2>3. hist'[v + 1] = hist[v + 1]
      BY <2>1 DEF HistGrows
    <2> QED
      BY <1>2, <2>2, <2>3 DEF Configs
  <1>3. CASE v = Len(hist)
    <2>1. v + 1 \in Len(hist) + 1 .. Len(hist')
      BY <1>1, <1>3
    <2>2. hist'[v + 1].at = now
      BY <2>1 DEF HistGrows
    <2> QED
      BY <1>1, <1>3, <2>2
  <1> QED
    BY <1>1, <1>2, <1>3

\* Time and further edits do not make a cache entry too old.
LEMMA CacheAges ==
    ASSUME Typing, HistGrows, now' \in Nat, now <= now', NEW c, c.ver \in 0 .. Len(hist),
           c.expires \in Nat, CacheAge(c)
    PROVE  CacheAge(c)'
PROOF
  <1>1. now \in Nat /\ TTL \in Nat /\ FetchTimeout \in Nat
    BY BoundsAssumption, LimitsAssumption DEF Typing, ClockOK
  <1>2. c.expires <= now' + TTL
    BY <1>1 DEF CacheAge
  <1>3. ASSUME c.ver < Len(hist')
        PROVE  c.expires <= hist'[c.ver + 1].at + TTL + FetchTimeout
    <2>1. /\ hist'[c.ver + 1].at \in Nat
          /\ \/ c.ver < Len(hist) /\ hist'[c.ver + 1].at = hist[c.ver + 1].at
             \/ c.ver = Len(hist) /\ hist'[c.ver + 1].at = now
      BY <1>3, VersionReplaced
    <2>2. CASE c.ver < Len(hist) /\ hist'[c.ver + 1].at = hist[c.ver + 1].at
      BY <2>2 DEF CacheAge, Replaced, ReplacedAt
    <2>3. CASE c.ver = Len(hist) /\ hist'[c.ver + 1].at = now
      BY <1>1, <2>3 DEF CacheAge
    <2> QED
      BY <2>1, <2>2, <2>3
  <1> QED
    BY <1>2, <1>3 DEF CacheAge, Replaced, ReplacedAt

\* Nor the answer of a fetch that has not timed out.
LEMMA FetchAges ==
    ASSUME Typing, HistGrows, now' \in Nat, now <= now', NEW w, w.ver \in 0 .. Len(hist),
           w.at \in Nat, FetchAge(w), now' <= w.at + FetchTimeout
    PROVE  FetchAge(w)'
PROOF
  <1>1. now \in Nat
    BY BoundsAssumption DEF Typing, ClockOK
  <1>2. w.at <= now'
    BY <1>1 DEF FetchAge
  <1>3. ASSUME w.ver < Len(hist')
        PROVE  w.at <= hist'[w.ver + 1].at
    BY <1>3, VersionReplaced DEF FetchAge, Replaced, ReplacedAt
  <1> QED
    BY <1>2, <1>3 DEF FetchAge, Replaced, ReplacedAt

\* Every step keeps the ages of cached and fetched configs.
LEMMA AgesStep == ASSUME Typing, Ages, [Next]_vars PROVE Ages'
PROOF
  <1>1. HistGrows /\ now \in Nat /\ now' \in Nat /\ now <= now'
    BY ConfigStep, ClockFrame, BoundsAssumption DEF Typing, ClockOK, Tick
  <1>2. TTL \in Nat /\ FetchTimeout \in Nat /\ Len(hist) \in Nat
    BY BoundsAssumption, LimitsAssumption DEF Typing, ConfigOK
  <1>3. ASSUME NEW q \in Procs, NEW c, c = cache[q], c # None
        PROVE  CacheAge(c)'
    <2>1. c.ver \in 0 .. Len(hist) /\ c.expires \in Nat /\ CacheAge(c)
      BY <1>2, <1>3 DEF Typing, JobsOK, Ages
    <2> QED
      BY <1>1, <2>1, CacheAges
  <1>4. ASSUME NEW q \in Procs, At(q, "store"), NEW w, w = work[q]
        PROVE  w.ver \in 0 .. Len(hist) /\ w.at \in Nat /\ FetchAge(w) /\ now' <= w.at + FetchTimeout
    <2>1. w.ver \in 0 .. Len(hist) /\ w.at \in Nat /\ FetchAge(w)
      BY <1>4 DEF Typing, JobsOK, WorkOK, Ages
    <2>2. CASE UNCHANGED now
      BY <2>1, <2>2 DEF FetchAge
    <2>3. CASE Tick
      <3>1. now' = now + 1 /\ now < w.at + FetchTimeout
        BY <1>4, <2>3 DEF Tick
      <3> QED
        BY <1>1, <1>2, <2>1, <3>1
    <2> QED
      BY <2>1, <2>2, <2>3, ClockFrame
  <1>5. ASSUME NEW q \in Procs, At(q, "store"), NEW w, w.ver = work[q].ver, w.at = work[q].at
        PROVE  FetchAge(w)'
    <2>1. /\ work[q].ver \in 0 .. Len(hist) /\ work[q].at \in Nat /\ FetchAge(work[q])
          /\ now' <= work[q].at + FetchTimeout
      BY <1>4, <1>5
    <2>2. FetchAge(w)
      BY <1>5, <2>1 DEF FetchAge
    <2> QED
      BY <1>1, <1>5, <2>1, <2>2, FetchAges
  <1>6. ASSUME NEW p \in Procs, Acts(p)
        PROVE  Ages'
    <2>1. UNCHANGED <<now, hist>>
      BY <1>6, ActorFetches
    <2>2. ASSUME NEW q \in Procs, NEW c, c = cache'[q], c # None
          PROVE  CacheAge(c)'
      <3>1. CASE c = cache[q]
        BY <1>3, <2>2, <3>1
      <3>2. CASE At(q, "store") /\ c = [ver |-> work[q].ver, expires |-> now + TTL]
        <4>1. /\ work[q].at \in Nat /\ FetchAge(work[q])
              /\ c.ver = work[q].ver /\ c.expires = now + TTL
          BY <1>4, <3>2
        <4>2. ASSUME Replaced(c.ver)
              PROVE  c.expires <= ReplacedAt(c.ver) + TTL + FetchTimeout
          <5>1. work[q].ver \in 0 .. Len(hist) /\ work[q].ver < Len(hist)
            BY <1>4, <3>2, <4>1, <4>2 DEF Replaced
          <5>2. hist[work[q].ver + 1].at \in Nat
            BY <1>1, <5>1, <2>1, VersionReplaced
          <5>3. now <= work[q].at + FetchTimeout /\ work[q].at <= hist[work[q].ver + 1].at
            BY <4>1, <5>1 DEF FetchAge, Replaced, ReplacedAt
          <5>4. now + TTL <= hist[work[q].ver + 1].at + TTL + FetchTimeout
            BY <1>1, <1>2, <4>1, <5>2, <5>3
          <5> QED
            BY <4>1, <5>4 DEF ReplacedAt
        <4>3. c.expires <= now + TTL
          BY <1>1, <1>2, <4>1
        <4>4. CacheAge(c)
          BY <4>2, <4>3 DEF CacheAge
        <4> QED
          BY <2>1, <4>4 DEF CacheAge, Replaced, ReplacedAt
      <3> QED
        BY <1>6, <2>2, <3>1, <3>2, ActorFetches
    <2>3. ASSUME NEW q \in Procs, NEW w, w = work'[q], w.pc = "store"
          PROVE  FetchAge(w)'
      <3>1. CASE At(q, "store") /\ w.ver = work[q].ver /\ w.at = work[q].at
        BY <1>5, <3>1
      <3>2. CASE w.ver = Len(hist) /\ w.at = now
        <4>1. FetchAge(w)
          BY <1>1, <1>2, <3>2 DEF FetchAge, Replaced
        <4> QED
          BY <2>1, <4>1 DEF FetchAge, Replaced, ReplacedAt
      <3>3. CASE q # p
        <4>1. work'[q] = work[q]
          BY <1>6, <3>3, OthersStay
        <4> QED
          BY <2>3, <3>1, <4>1 DEF At
      <3> QED
        BY <1>6, <2>3, <3>1, <3>2, <3>3, ActorFetches
    <2>4. ASSUME NEW q \in Procs, cache'[q] # None
          PROVE  CacheAge(cache[q])'
      <3>1. \E c : c = cache'[q]
        OBVIOUS
      <3>2. PICK c : c = cache'[q]
        BY <3>1
      <3>3. CacheAge(c)'
        BY <2>2, <2>4, <3>2
      <3> QED
        BY <3>2, <3>3 DEF CacheAge, Replaced, ReplacedAt
    <2>5. ASSUME NEW q \in Procs, work'[q].pc = "store"
          PROVE  FetchAge(work[q])'
      <3>1. \E w : w = work'[q]
        OBVIOUS
      <3>2. PICK w : w = work'[q]
        BY <3>1
      <3>3. FetchAge(w)'
        BY <2>3, <2>5, <3>2
      <3> QED
        BY <3>2, <3>3 DEF FetchAge, Replaced, ReplacedAt
    <2> QED
      BY <2>4, <2>5 DEF Ages, At
  <1>7. CASE UNCHANGED <<work, log, cache>>
    <2>1. ASSUME NEW q \in Procs, cache[q] # None
          PROVE  CacheAge(cache[q])'
      <3>1. PICK c : c = cache[q]
        OBVIOUS
      <3>2. CacheAge(c)'
        BY <1>3, <2>1, <3>1
      <3> QED
        BY <1>7, <3>1, <3>2 DEF CacheAge, Replaced, ReplacedAt
    <2>2. ASSUME NEW q \in Procs, At(q, "store")
          PROVE  FetchAge(work[q])'
      <3>1. PICK w : w = work[q]
        OBVIOUS
      <3>2. FetchAge(w)'
        BY <1>5, <2>2, <3>1
      <3> QED
        BY <1>7, <3>1, <3>2 DEF FetchAge, Replaced, ReplacedAt
    <2> QED
      BY <1>7, <2>1, <2>2 DEF Ages, At
  <1> QED
    BY <1>6, <1>7, JobsFrame

\* In time every process follows the admins' edits, whatever the length of the cache's TTL
\* and of a request's timeout: a handler goes by a replaced version less than both together
\* after it was replaced.
THEOREM ConfigFollowsEdits == Spec => StaleBounded
PROOF
  <1> DEFINE Timely ==
        \A p \in Procs :
          LET v == work'[p].ver
          IN work[p].pc \in {"config", "store"} /\ work'[p].pc = "loop" /\ v \in 1 .. Version - 1
             => now < hist[v + 1].at + TTL + FetchTimeout
  <1>1. Init => Ages
    <2> SUFFICES ASSUME Init, NEW p \in Procs
                 PROVE  cache[p] = None /\ ~At(p, "store")
      BY DEF Ages
    <2>1. work[p] = Idle /\ Idle.pc = "idle"
      BY DEF Init, Idle
    <2> QED
      BY <2>1 DEF Init, At
  <1>2. ASSUME Typing, Ages, [Next]_vars
        PROVE  [Timely]_vars
    <2> SUFFICES ASSUME NEW p \in Procs, NEW v, v = work'[p].ver,
                        work[p].pc \in {"config", "store"}, work'[p].pc = "loop",
                        v \in 1 .. Len(hist) - 1
                 PROVE  now < hist[v + 1].at + TTL + FetchTimeout
      BY DEF Version
    <2>1. now \in Nat /\ TTL \in Nat \ {0} /\ FetchTimeout \in Nat /\ Len(hist) \in Nat
      BY <1>2, BoundsAssumption, LimitsAssumption DEF Typing, ClockOK, ConfigOK
    <2>2. v < Len(hist) /\ v # 0 /\ v + 1 \in 1 .. Len(hist)
      BY <2>1
    <2>3. hist[v + 1].at \in Nat
      <3>1. hist[v + 1] \in Configs
        BY <1>2, <2>2 DEF Typing, ConfigOK
      <3> QED
        BY <3>1 DEF Configs
    <2>4. Acts(p)
      BY <1>2, JobsFrame, OthersStay
    <2>5. CASE Fresh(p) /\ v = cache[p].ver
      <3>1. now < cache[p].expires /\ cache[p].expires \in Nat /\ CacheAge(cache[p])
        BY <1>2, <2>5 DEF Fresh, Ages, Typing, JobsOK
      <3>2. cache[p].expires <= hist[v + 1].at + TTL + FetchTimeout
        BY <2>2, <2>5, <3>1 DEF CacheAge, Replaced, ReplacedAt
      <3> DEFINE x == cache[p].expires
                 y == hist[v + 1].at + TTL + FetchTimeout
      <3>3. now < x /\ x \in Nat /\ x <= y /\ y \in Nat
        BY <2>1, <2>3, <3>1, <3>2
      <3> HIDE DEF x, y
      <3>4. now < y
        BY <2>1, <3>3
      <3> QED
        BY <3>4 DEF y
    <2>6. CASE At(p, "store") /\ v = work[p].ver
      <3>1. FetchAge(work[p]) /\ work[p].at \in Nat
        BY <1>2, <2>6 DEF Ages, Typing, JobsOK, WorkOK
      <3>2. now <= work[p].at + FetchTimeout /\ work[p].at <= hist[v + 1].at
        BY <2>2, <2>6, <3>1 DEF FetchAge, Replaced, ReplacedAt
      <3> DEFINE x == work[p].at
                 y == hist[v + 1].at
      <3>3. now <= x + FetchTimeout /\ x \in Nat /\ x <= y /\ y \in Nat
        BY <2>3, <3>1, <3>2
      <3> HIDE DEF x, y
      <3>4. now < y + TTL + FetchTimeout
        BY <2>1, <3>3
      <3> QED
        BY <3>4 DEF y
    <2> QED
      BY <1>2, <2>2, <2>4, <2>5, <2>6, ActorFetches
  <1>3. Typing /\ Ages /\ [Next]_vars => Ages'
    BY AgesStep
  <1> QED
    BY <1>1, <1>2, <1>3, TypingInvariant, PTL DEF Spec, StaleBounded

(***************************************************************************)
(* Copies have a cause.  What a message may still cost is counted ahead:   *)
(* Copies(ch) for each time it is in the queue, as much for a handler that *)
(* has not chosen its channels yet, and one for each position that a       *)
(* handler still stops at.                                                 *)
(***************************************************************************)

\* A finite set of naturals has a greatest element.
HasMax(S) == \E x \in S : \A y \in S : x >= y
\* A set without a greatest element that is as small as possible loses one element and
\* is still one.
LEMMA GreatestExists ==
    ASSUME NEW S \in SUBSET Nat, IsFiniteSet(S), S # {}
    PROVE  HasMax(S)
PROOF
  <1> DEFINE Bad == {T \in SUBSET Nat : IsFiniteSet(T) /\ T # {} /\ ~HasMax(T)}
             Sizes == {Cardinality(T) : T \in Bad}
  <1> SUFFICES ASSUME Bad # {}
               PROVE  FALSE
    BY DEF HasMax
  <1>1. \A T \in Bad : Cardinality(T) \in Nat
    BY FS_CardinalityType
  <1>2. Sizes \in SUBSET Nat /\ Sizes # {}
    BY <1>1
  <1>3. PICK T \in Bad : \A U \in Bad : Cardinality(T) <= Cardinality(U)
    <2>1. PICK n \in Sizes : \A k \in Sizes : n <= k
      BY <1>2, LeastExists
    <2> QED
      BY <2>1
  <1>4. PICK x \in T : TRUE
    BY <1>3
  <1> DEFINE U == T \ {x}
  <1>5. IsFiniteSet(U) /\ Cardinality(U) = Cardinality(T) - 1
    <2>1. IsFiniteSet(T) /\ x \in T
      BY <1>3, <1>4
    <2> QED
      BY <2>1, FS_RemoveElement
  <1>6. U \notin Bad
    BY <1>1, <1>3, <1>5
  <1>7. U \in SUBSET Nat /\ T \in SUBSET Nat /\ x \in Nat
    BY <1>3, <1>4
  <1>8. CASE U = {}
    <2>1. T = {x}
      BY <1>4, <1>8
    <2> QED
      BY <1>3, <1>7, <2>1 DEF HasMax
  <1>9. CASE U # {}
    <2>1. PICK y \in U : \A z \in U : y >= z
      BY <1>5, <1>6, <1>7, <1>9 DEF HasMax
    <2>2. \A z \in T : z = x \/ y >= z
      BY <2>1
    <2>3. HasMax(T)
      <3>1. CASE y >= x
        BY <1>7, <2>1, <2>2, <3>1 DEF HasMax
      <3>2. CASE ~(y >= x)
        BY <1>4, <1>7, <2>1, <2>2, <3>2 DEF HasMax
      <3> QED
        BY <3>1, <3>2
    <2> QED
      BY <1>3, <2>3
  <1> QED
    BY <1>8, <1>9

\* The positions at which a list names a channel.
Named(q, ch) == {i \in DOMAIN q : q[i] = ch}

\* Copies is the most often that a list of some contact names the channel.
LEMMA CopiesBound ==
    ASSUME NEW ch
    PROVE  /\ Copies(ch) \in Nat \ {0}
           /\ \A q \in Lists : IsFiniteSet(Named(q, ch)) /\ Cardinality(Named(q, ch)) <= Copies(ch)
PROOF
  <1> DEFINE Counts == {Cardinality(Named(q, ch)) : q \in Lists}
             S == {1} \cup Counts
  <1>1. ASSUME NEW q \in Lists
        PROVE  IsFiniteSet(Named(q, ch)) /\ Cardinality(Named(q, ch)) \in Nat
    <2>1. q \in Seq(Range(q))
      BY ListsAssumption DEF IsList
    <2>2. Len(q) \in Nat /\ Named(q, ch) \in SUBSET (1 .. Len(q))
      BY <2>1 DEF Named
    <2>3. IsFiniteSet(1 .. Len(q))
      BY <2>2, FS_Interval
    <2> QED
      BY <2>2, <2>3, FS_Subset, FS_CardinalityType
  <1>2. IsFiniteSet(Counts)
    <2> DEFINE f == [q \in Lists |-> Cardinality(Named(q, ch))]
    <2>1. f \in Surjection(Lists, Counts)
      BY DEF Surjection
    <2>2. IsFiniteSet(Lists)
      BY ListsAssumption
    <2> HIDE DEF f, Counts
    <2> QED
      BY <2>1, <2>2, FS_Surjection
  <1>3. S \in SUBSET Nat /\ S # {}
    BY <1>1
  <1>4. IsFiniteSet(S)
    <2>1. S = Counts \cup {1}
      OBVIOUS
    <2> HIDE DEF Counts, S
    <2> QED
      BY <1>2, <2>1, FS_AddElement
  <1>5. HasMax(S)
    <2> HIDE DEF S
    <2> QED
      BY <1>3, <1>4, GreatestExists
  <1>6. Copies(ch) = Max(S)
    BY DEF Copies, Named
  <1>7. Max(S) \in S /\ \A y \in S : Max(S) >= y
    <2> HIDE DEF S
    <2> QED
      BY <1>5 DEF HasMax, Max
  <1>8. Max(S) \in Nat /\ Max(S) >= 1 /\ \A q \in Lists : Max(S) >= Cardinality(Named(q, ch))
    BY <1>3, <1>7
  <1> HIDE DEF S
  <1> QED
    BY <1>1, <1>6, <1>8

\* What a job may still send of message m on ch.
Slots(w, m, ch) ==
    IF w.pc = "idle" \/ w.id # m THEN {}
    ELSE IF w.pc \in Waiting THEN 1 .. Copies(ch)
    ELSE {k \in w.todo : Candidates(w)[k] = ch}

\* A job has at most Copies sendings of a message on a channel before it.
LEMMA SlotsBound ==
    ASSUME NEW w, NEW v \in Nat, WorkOK(w, v), NEW m, NEW ch
    PROVE  /\ Slots(w, m, ch) \in SUBSET Nat /\ IsFiniteSet(Slots(w, m, ch))
           /\ Cardinality(Slots(w, m, ch)) \in Nat
           /\ Cardinality(Slots(w, m, ch)) <= Copies(ch)
           /\ w.pc \in Waiting \ {"idle"} /\ w.id = m => Cardinality(Slots(w, m, ch)) = Copies(ch)
           /\ w.pc = "idle" \/ w.id # m => Cardinality(Slots(w, m, ch)) = 0
PROOF
  <1>1. Copies(ch) \in Nat \ {0}
    BY CopiesBound
  <1>2. CASE w.pc = "idle" \/ w.id # m
    BY <1>1, <1>2, FS_EmptySet DEF Slots
  <1>3. CASE w.pc \in Waiting \ {"idle"} /\ w.id = m
    <2>1. Slots(w, m, ch) = 1 .. Copies(ch)
      BY <1>3 DEF Slots
    <2>2. IsFiniteSet(1 .. Copies(ch)) /\ Cardinality(1 .. Copies(ch)) = Copies(ch)
      BY <1>1, FS_Interval
    <2>3. 1 .. Copies(ch) \in SUBSET Nat
      BY <1>1
    <2> QED
      BY <1>1, <1>3, <2>1, <2>2, <2>3
  <1>4. CASE w.pc \notin Waiting /\ w.id = m
    <2> DEFINE q == Candidates(w)
    <2>1. DOMAIN q \subseteq Nat
      BY CandidatesOK DEF WorkOK
    <2>2. Slots(w, m, ch) \in SUBSET Named(q, ch) /\ Slots(w, m, ch) \in SUBSET Nat
      BY <1>4, <2>1 DEF Slots, Named, WorkOK, Waiting
    <2>3. IsFiniteSet(Named(q, ch)) /\ Cardinality(Named(q, ch)) <= Copies(ch)
      <3>1. CASE w.to = None
        <4>1. Named(q, ch) \in SUBSET {1}
          BY <3>1 DEF Candidates, Named
        <4>2. IsFiniteSet({1}) /\ Cardinality({1}) = 1
          BY FS_Singleton
        <4>3. IsFiniteSet(Named(q, ch)) /\ Cardinality(Named(q, ch)) <= 1
          BY <4>1, <4>2, FS_Subset
        <4>4. Cardinality(Named(q, ch)) \in Nat
          BY <4>3, FS_CardinalityType
        <4> QED
          BY <1>1, <4>3, <4>4
      <3>2. CASE w.to # None
        <4>1. q \in Lists
          BY <3>2 DEF Candidates, WorkOK, Contacts
        <4> QED
          BY <4>1, CopiesBound
      <3> QED
        BY <3>1, <3>2
    <2>4. IsFiniteSet(Slots(w, m, ch)) /\ Cardinality(Slots(w, m, ch)) <= Cardinality(Named(q, ch))
      BY <2>2, <2>3, FS_Subset
    <2>5. Cardinality(Slots(w, m, ch)) \in Nat /\ Cardinality(Named(q, ch)) \in Nat
      BY <2>3, <2>4, FS_CardinalityType
    <2>6. w.pc # "idle"
      BY <1>4 DEF Waiting
    <2> QED
      BY <1>1, <1>4, <2>2, <2>3, <2>4, <2>5, <2>6
  <1> QED
    BY <1>2, <1>3, <1>4

\* Where message m is in the queue, counted from its end, and what the handlers may still
\* send of it on ch.
Queued(m) == {j \in 0 .. Len(queue) - 1 : queue[Len(queue) - j] = m}
ToSend(m, ch) == {x \in Procs \X Nat : x[2] \in Slots(work[x[1]], m, ch)}

Paid ==
    /\ faults \in Nat
    /\ DOMAIN got = Ids /\ \A m \in Ids : DOMAIN got[m] = Channels
    /\ \A m \in Ids, ch \in Channels :
          /\ got[m][ch] \in Nat /\ IsFiniteSet(ToSend(m, ch))
          /\ got[m][ch] + Copies(ch) * Cardinality(Queued(m)) + Cardinality(ToSend(m, ch))
             <= Copies(ch) * (1 + faults)

\* The queue is finite.
LEMMA QueuedFinite ==
    ASSUME queue \in Seq(Ids), NEW m
    PROVE  IsFiniteSet(Queued(m)) /\ Cardinality(Queued(m)) \in Nat
PROOF
  <1>1. Queued(m) \in SUBSET (0 .. Len(queue) - 1) /\ Len(queue) \in Nat
    BY DEF Queued
  <1>2. IsFiniteSet(0 .. Len(queue) - 1)
    BY <1>1, FS_Interval
  <1> QED
    BY <1>1, <1>2, FS_Subset, FS_CardinalityType

\* Taking a message from the head of the queue.
LEMMA QueuedTail ==
    ASSUME queue \in Seq(Ids), queue # <<>>, queue' = Tail(queue), NEW m
    PROVE  Cardinality(Queued(m)') = IF Head(queue) = m THEN Cardinality(Queued(m)) - 1
                                     ELSE Cardinality(Queued(m))
PROOF
  <1> DEFINE n == Len(queue)
  <1>1. n \in Nat \ {0} /\ Len(queue') = n - 1 /\ Head(queue) = queue[1]
    BY DEF n
  <1>2. \A j \in 0 .. n - 2 : queue'[n - 1 - j] = queue[n - j]
    BY <1>1
  <1>3. Queued(m)' = Queued(m) \ {n - 1}
    <2>1. \A j : j \in Queued(m)' <=> j \in 0 .. n - 2 /\ queue[n - j] = m
      BY <1>1, <1>2 DEF Queued
    <2>2. \A j : j \in Queued(m) <=> j \in 0 .. n - 1 /\ queue[n - j] = m
      BY DEF Queued
    <2> HIDE DEF n
    <2>3. \A j : j \in 0 .. n - 2 <=> j \in 0 .. n - 1 /\ j # n - 1
      BY <1>1
    <2> QED
      BY <2>1, <2>2, <2>3
  <1>4. n - 1 \in Queued(m) <=> Head(queue) = m
    BY <1>1 DEF Queued
  <1> HIDE DEF n
  <1> QED
    BY <1>3, <1>4, QueuedFinite, FS_RemoveElement

\* Putting one back at the head.
LEMMA QueuedAgain ==
    ASSUME queue \in Seq(Ids), NEW id \in Ids, queue' = <<id>> \o queue, NEW m
    PROVE  Cardinality(Queued(m)') <= Cardinality(Queued(m)) + 1
PROOF
  <1> DEFINE n == Len(queue)
  <1>1. n \in Nat /\ Len(queue') = n + 1
    BY DEF n
  <1>2. \A j \in 0 .. n - 1 : queue'[n + 1 - j] = queue[n - j]
    BY <1>1
  <1>3. Queued(m)' \in SUBSET (Queued(m) \cup {n})
    <2>1. \A j : j \in Queued(m)' <=> j \in 0 .. n /\ queue'[n + 1 - j] = m
      BY <1>1 DEF Queued
    <2>2. \A j : j \in Queued(m) <=> j \in 0 .. n - 1 /\ queue[n - j] = m
      BY DEF Queued
    <2> HIDE DEF n
    <2>3. \A j : j \in 0 .. n <=> j \in 0 .. n - 1 \/ j = n
      BY <1>1
    <2> QED
      BY <1>2, <2>1, <2>2, <2>3
  <1> DEFINE Q == Queued(m)
             R == Q \cup {n}
  <1>4. IsFiniteSet(Q) /\ Cardinality(Q) \in Nat
    BY QueuedFinite
  <1> HIDE DEF n, Q
  <1>5. /\ IsFiniteSet(R)
        /\ Cardinality(R) = IF n \in Q THEN Cardinality(Q) ELSE Cardinality(Q) + 1
    BY <1>4, FS_AddElement
  <1> HIDE DEF R
  <1>6. Cardinality(R) <= Cardinality(Q) + 1 /\ Cardinality(R) \in Nat
    BY <1>4, <1>5
  <1>7. IsFiniteSet(Queued(m)') /\ Cardinality(Queued(m)') <= Cardinality(R)
    BY <1>3, <1>5, FS_Subset DEF R, Q
  <1>8. Cardinality(Queued(m)') \in Nat
    BY <1>7, FS_CardinalityType
  <1> QED
    BY <1>4, <1>6, <1>7, <1>8 DEF Q

\* When one process gets another job, what it may send is exchanged.
LEMMA ToSendChanges ==
    ASSUME Typing, NEW p \in Procs, NEW w, WorkOK(w, Len(hist)), work' = [work EXCEPT ![p] = w],
           NEW m, NEW ch, IsFiniteSet(ToSend(m, ch))
    PROVE  /\ IsFiniteSet(ToSend(m, ch)') /\ Cardinality(ToSend(m, ch)) \in Nat
           /\ Cardinality(ToSend(m, ch)') =
                Cardinality(ToSend(m, ch)) - Cardinality(Slots(work[p], m, ch))
                  + Cardinality(Slots(w, m, ch))
PROOF
  <1> DEFINE T == ToSend(m, ch)
             Old == Slots(work[p], m, ch)
             New == Slots(w, m, ch)
             A == {p} \X Old
             B == {p} \X New
  <1>1. Len(hist) \in Nat /\ WorkOK(work[p], Len(hist)) /\ DOMAIN work = Procs
    BY DEF Typing, ConfigOK, JobsOK
  <1>2. /\ Old \in SUBSET Nat /\ IsFiniteSet(Old) /\ Cardinality(Old) \in Nat
        /\ New \in SUBSET Nat /\ IsFiniteSet(New) /\ Cardinality(New) \in Nat
    BY <1>1, SlotsBound
  <1>3. ToSend(m, ch)' = (T \ A) \cup B
    <2>1. \A q \in Procs : Slots(work[q], m, ch)' = IF q = p THEN New ELSE Slots(work[q], m, ch)
      BY <1>1 DEF Slots, Candidates
    <2> HIDE DEF Old, New
    <2>2. \A x \in Procs \X Nat : x \in ToSend(m, ch)' <=> x[2] \in Slots(work[x[1]], m, ch)'
      BY DEF ToSend
    <2>3. \A x \in Procs \X Nat : x \in T <=> x[2] \in Slots(work[x[1]], m, ch)
      BY DEF ToSend
    <2>4. \A x \in Procs \X Nat :
             (x \in A <=> x[1] = p /\ x[2] \in Old) /\ (x \in B <=> x[1] = p /\ x[2] \in New)
      OBVIOUS
    <2>5. T \subseteq Procs \X Nat /\ ToSend(m, ch)' \subseteq Procs \X Nat /\ B \subseteq Procs \X Nat
      BY <1>2 DEF ToSend
    <2>6. \A x \in Procs \X Nat : x[1] = p => Slots(work[x[1]], m, ch) = Old
      BY DEF Old
    <2> HIDE DEF T, A, B
    <2> QED
      BY <2>1, <2>2, <2>3, <2>4, <2>5, <2>6
  <1>4. A \subseteq T /\ (T \ A) \cap B = {}
    <2>1. \A x \in Procs \X Nat : x \in T <=> x[2] \in Slots(work[x[1]], m, ch)
      BY DEF ToSend
    <2>2. T \subseteq Procs \X Nat
      BY DEF ToSend
    <2>3. \A x \in T : x[1] = p => x \in A
      BY <2>1, <2>2
    <2> HIDE DEF T
    <2> QED
      BY <1>2, <2>1, <2>3
  <1>5. /\ IsFiniteSet(A) /\ Cardinality(A) = Cardinality(Old)
        /\ IsFiniteSet(B) /\ Cardinality(B) = Cardinality(New)
    <2>1. IsFiniteSet({p}) /\ Cardinality({p}) = 1
      BY FS_Singleton
    <2> HIDE DEF Old, New
    <2>2. IsFiniteSet(A) /\ Cardinality(A) = Cardinality({p}) * Cardinality(Old)
      BY <1>2, <2>1, FS_Product
    <2>3. IsFiniteSet(B) /\ Cardinality(B) = Cardinality({p}) * Cardinality(New)
      BY <1>2, <2>1, FS_Product
    <2> QED
      BY <1>2, <2>1, <2>2, <2>3
  <1>6. Cardinality(T) \in Nat
    BY FS_CardinalityType
  <1> DEFINE D == T \ A
  <1> HIDE DEF T, A, B, Old, New
  <1>7. IsFiniteSet(D) /\ Cardinality(D) = Cardinality(T) - Cardinality(A)
    <2>1. T \cap A = A
      BY <1>4
    <2>2. IsFiniteSet(T)
      BY DEF T
    <2> QED
      BY <2>1, <2>2, FS_Difference
  <1>8. /\ IsFiniteSet(D \cup B)
        /\ Cardinality(D \cup B) = Cardinality(D) + Cardinality(B) - Cardinality(D \cap B)
    BY <1>5, <1>7, FS_Union
  <1>9. Cardinality(D \cap B) = 0
    BY <1>4, FS_EmptySet
  <1>10. Cardinality(D) \in Nat /\ Cardinality(B) \in Nat
    BY <1>5, <1>7, FS_CardinalityType
  <1> HIDE DEF D
  <1>11. Cardinality(D \cup B) = Cardinality(T) - Cardinality(Old) + Cardinality(New)
    BY <1>2, <1>5, <1>6, <1>7, <1>8, <1>9, <1>10
  <1> QED
    BY <1>3, <1>6, <1>8, <1>11 DEF D, T, Old, New

\* Multiples of the number of copies.
LEMMA Scaled ==
    ASSUME NEW c \in Nat \ {0}, NEW a \in Nat, NEW d \in Nat
    PROVE  /\ c * a \in Nat /\ c * d \in Nat /\ d <= c * d
           /\ c * (a + d) = c * a + c * d /\ c * (a - 1) = c * a - c /\ c * (a + 1) = c * a + c
PROOF
  <1>1. c * a \in Nat /\ c * d \in Nat /\ (c - 1) * d \in Nat
    OBVIOUS
  <1>2. c * d = (c - 1) * d + d
    OBVIOUS
  <1>3. c * (a + d) = c * a + c * d /\ c * (a - 1) = c * a - c /\ c * (a + 1) = c * a + c
    OBVIOUS
  <1> QED
    BY <1>1, <1>2, <1>3

\* The deliveries and the faults that a step of p adds pay for what it sends or may still
\* send of m on ch.
Pays(p, m, ch) ==
    /\ got'[m][ch] \in Nat
    /\ got'[m][ch] + Copies(ch) * Cardinality(Queued(m)') + Cardinality(Slots(work[p], m, ch)')
          + Copies(ch) * faults
       <= got[m][ch] + Copies(ch) * Cardinality(Queued(m)) + Cardinality(Slots(work[p], m, ch))
          + Copies(ch) * faults'

\* The numbers of such a step: what it may send goes from s to s1, q counts the message in
\* the queue, f the faults.
LEMMA PaysByNumbers ==
    ASSUME NEW c \in Nat \ {0}, NEW g \in Nat, NEW g1 \in Nat, NEW q \in Nat, NEW q1 \in Nat,
           NEW s \in Nat, NEW s1 \in Nat, NEW f \in Nat, NEW d \in Nat, s1 <= c,
           \/ g1 = g /\ q1 = q /\ s1 <= s
           \/ g1 = g /\ q1 = q - 1
           \/ g1 = g /\ q1 <= q + 1 /\ s1 <= s /\ d = 1
           \/ g1 <= g + 1 + d /\ q1 = q /\ s1 = s - 1
    PROVE  g1 + c * q1 + s1 + c * f <= g + c * q + s + c * (f + d)
PROOF
  <1>1. /\ c * f \in Nat /\ c * d \in Nat /\ d <= c * d /\ c * (f + d) = c * f + c * d
        /\ c * q \in Nat /\ c * (q - 1) = c * q - c /\ c * (q + 1) = c * q + c
    BY Scaled
  <1>2. CASE g1 = g /\ q1 = q /\ s1 <= s
    <2> DEFINE x == c * q
               y == c * f
               z == c * d
    <2>1. c * q1 = x /\ c * (f + d) = y + z /\ x \in Nat /\ y \in Nat /\ z \in Nat
      BY <1>1, <1>2
    <2> HIDE DEF x
    <2> QED
      BY <1>2, <2>1 DEF x
  <1>3. CASE g1 = g /\ q1 = q - 1
    <2>1. c * q1 = c * q - c
      BY <1>1, <1>3
    <2> QED
      BY <1>1, <1>3, <2>1
  <1>4. CASE g1 = g /\ q1 <= q + 1 /\ s1 <= s /\ d = 1
    <2>1. c * (q + 1) = c * q1 + c * (q + 1 - q1) /\ c * (q + 1 - q1) \in Nat /\ c * q1 \in Nat
      <3> DEFINE e == q + 1 - q1
      <3>1. e \in Nat /\ q + 1 = q1 + e
        BY <1>4
      <3> HIDE DEF e
      <3>2. c * (q1 + e) = c * q1 + c * e /\ c * e \in Nat /\ c * q1 \in Nat
        BY <3>1, Scaled
      <3> QED
        BY <3>1, <3>2 DEF e
    <2>2. c * q1 <= c * q + c
      BY <1>1, <2>1
    <2>3. c * d = c
      BY <1>4
    <2> QED
      BY <1>1, <1>4, <2>1, <2>2, <2>3
  <1>5. CASE g1 <= g + 1 + d /\ q1 = q /\ s1 = s - 1
    BY <1>1, <1>5
  <1> QED
    BY <1>2, <1>3, <1>4, <1>5

\* The step of a process pays for what it sends, in each of these ways.
LEMMA PaysBy ==
    ASSUME Typing, Paid, NEW p \in Procs, NEW m \in Ids, NEW ch \in Channels,
           NEW w, WorkOK(w, Len(hist)), work' = [work EXCEPT ![p] = w], queue' \in Seq(Ids),
           NEW d \in Nat, faults' = faults + d, got'[m][ch] \in Nat,
           \/ /\ got'[m][ch] = got[m][ch] /\ queue' = queue
              /\ Cardinality(Slots(w, m, ch)) <= Cardinality(Slots(work[p], m, ch))
           \/ /\ got'[m][ch] = got[m][ch]
              /\ Cardinality(Queued(m)') = Cardinality(Queued(m)) - 1
           \/ /\ got'[m][ch] = got[m][ch] /\ d = 1
              /\ Cardinality(Queued(m)') <= Cardinality(Queued(m)) + 1
              /\ Cardinality(Slots(w, m, ch)) <= Cardinality(Slots(work[p], m, ch))
           \/ /\ got'[m][ch] <= got[m][ch] + 1 + d /\ queue' = queue
              /\ Cardinality(Slots(w, m, ch)) = Cardinality(Slots(work[p], m, ch)) - 1
    PROVE  Pays(p, m, ch)
PROOF
  <1> DEFINE c == Copies(ch)
             q == Cardinality(Queued(m))
             q1 == Cardinality(Queued(m)')
             s == Cardinality(Slots(work[p], m, ch))
             s1 == Cardinality(Slots(w, m, ch))
             g == got[m][ch]
             g1 == got'[m][ch]
  <1>1. Len(hist) \in Nat /\ WorkOK(work[p], Len(hist)) /\ DOMAIN work = Procs /\ queue \in Seq(Ids)
    BY DEF Typing, ConfigOK, JobsOK
  <1>2. s \in Nat /\ s1 \in Nat /\ s1 <= c
    BY <1>1, SlotsBound
  <1>3. q \in Nat
    BY <1>1, QueuedFinite
  <1>4. q1 \in Nat
    <2>1. Queued(m)' \in SUBSET (0 .. Len(queue') - 1) /\ Len(queue') \in Nat
      BY DEF Queued
    <2>2. IsFiniteSet(0 .. Len(queue') - 1)
      BY <2>1, FS_Interval
    <2> QED
      BY <2>1, <2>2, FS_Subset, FS_CardinalityType
  <1>5. c \in Nat \ {0} /\ g \in Nat /\ g1 \in Nat /\ faults \in Nat
    BY CopiesBound DEF Paid
  <1>6. queue' = queue => q1 = q
    BY DEF Queued
  <1>7. Slots(work[p], m, ch)' = Slots(w, m, ch)
    BY <1>1 DEF Slots, Candidates
  <1>8. \/ g1 = g /\ q1 = q /\ s1 <= s
        \/ g1 = g /\ q1 = q - 1
        \/ g1 = g /\ q1 <= q + 1 /\ s1 <= s /\ d = 1
        \/ g1 <= g + 1 + d /\ q1 = q /\ s1 = s - 1
    BY <1>6
  <1> HIDE DEF c, q, q1, s, s1, g, g1
  <1>9. g1 + c * q1 + s1 + c * faults <= g + c * q + s + c * (faults + d)
    BY <1>2, <1>3, <1>4, <1>5, <1>8, PaysByNumbers
  <1> QED
    BY <1>5, <1>7, <1>9 DEF Pays, c, q, q1, s, s1, g, g1

\* A job that goes on with the same message, waits no more than before and stops at no
\* other positions, may send no more than before.
LEMMA SlotsFall ==
    ASSUME NEW v \in Nat, NEW u, WorkOK(u, v), NEW w, WorkOK(w, v), NEW m, NEW ch,
           \/ w.pc = "idle"
           \/ w.id = u.id /\ u.pc \in Waiting \ {"idle"}
           \/ /\ w.id = u.id /\ w.to = u.to /\ w.todo \subseteq u.todo
              /\ u.pc \notin Waiting /\ w.pc \notin Waiting
    PROVE  Cardinality(Slots(w, m, ch)) <= Cardinality(Slots(u, m, ch))
PROOF
  <1> DEFINE s == Cardinality(Slots(u, m, ch))
             t == Cardinality(Slots(w, m, ch))
  <1>0. Copies(ch) \in Nat
    BY CopiesBound
  <1>1. /\ s \in Nat /\ IsFiniteSet(Slots(u, m, ch))
        /\ u.pc \in Waiting \ {"idle"} /\ u.id = m => s = Copies(ch)
    BY SlotsBound
  <1>2. t \in Nat /\ t <= Copies(ch) /\ (w.pc = "idle" \/ w.id # m => t = 0)
    BY SlotsBound
  <1>3. CASE w.pc = "idle" \/ w.id # m
    BY <1>1, <1>2, <1>3
  <1>4. CASE w.id = m /\ w.id = u.id /\ u.pc \in Waiting \ {"idle"}
    BY <1>0, <1>1, <1>2, <1>4
  <1>5. CASE /\ w.id = u.id /\ w.to = u.to /\ w.todo \subseteq u.todo
             /\ u.pc \notin Waiting /\ w.pc \notin Waiting
    <2>1. Candidates(w) = Candidates(u)
      BY <1>5 DEF Candidates
    <2>2. Slots(w, m, ch) \in SUBSET Slots(u, m, ch)
      BY <1>5, <2>1 DEF Slots, Waiting
    <2> QED
      BY <1>1, <2>2, FS_Subset
  <1> QED
    BY <1>3, <1>4, <1>5

\* What the end of Send leaves to send.
LEMMA SlotsSent ==
    ASSUME Typing, NEW p \in Procs, work[p].pc = "send", NEW w, WorkOK(w, Len(hist)),
           w.pc = "loop", w.id = work[p].id, w.to = work[p].to,
           w.todo = work[p].todo \ {Position(p)}
    PROVE  Cardinality(Slots(w, work[p].id, Channel(p)))
             = Cardinality(Slots(work[p], work[p].id, Channel(p))) - 1
PROOF
  <1> DEFINE m == work[p].id
             ch == Channel(p)
             k == Position(p)
             S == Slots(work[p], m, ch)
  <1>1. Len(hist) \in Nat /\ JobsOK /\ WorkOK(work[p], Len(hist))
    BY DEF Typing, ConfigOK, JobsOK
  <1>2. work[p].todo # {}
    BY <1>1 DEF WorkOK
  <1>3. k \in work[p].todo
    BY <1>1, <1>2, ChannelOK
  <1>4. Candidates(w) = Candidates(work[p])
    BY DEF Candidates
  <1>5. S = {i \in work[p].todo : Candidates(work[p])[i] = ch}
    BY DEF Slots, Waiting
  <1>6. k \in S
    BY <1>3, <1>5 DEF Channel
  <1>7. Slots(w, m, ch) = S \ {k}
    <2>1. Slots(w, m, ch) = {i \in w.todo : Candidates(w)[i] = ch}
      BY DEF Slots, Waiting
    <2> QED
      BY <1>4, <1>5, <2>1
  <1>8. IsFiniteSet(S)
    BY <1>1, SlotsBound
  <1> HIDE DEF S, k, m, ch
  <1>9. Cardinality(S \ {k}) = Cardinality(S) - 1
    BY <1>6, <1>8, FS_RemoveElement
  <1> QED
    BY <1>7, <1>9 DEF S, m, ch

\* What a step adds to the faults.
LEMMA FaultsGrow ==
    ASSUME faults \in Nat, [Next]_vars
    PROVE  \E d \in Nat : faults' = faults + d
PROOF
  <1> USE DEF config, contacts, ghosts, redis
  <1>1. CASE UNCHANGED faults
    BY <1>1
  <1>2. CASE Fault
    BY <1>2 DEF Fault
  <1>3. ASSUME NEW p \in Procs, Send(p)
        PROVE  \E d \in Nat : faults' = faults + d
    <2>1. PICK n \in Arrivals(p), again \in Misreports(p) :
             \/ again = 0 /\ AppendLog(p)
             \/ again \in 1 .. Budget /\ faults' = faults + again
      BY <1>3 DEF Send
    <2>2. CASE AppendLog(p)
      BY <1>1, <1>2, <2>2 DEF AppendLog
    <2>3. CASE again \in 1 .. Budget /\ faults' = faults + again
      <3>1. again \in Nat
        BY DEF Misreports, Attempts
      <3> QED
        BY <2>3, <3>1
    <2> QED
      BY <2>1, <2>2, <2>3
  <1>4. CASE UNCHANGED vars
    BY <1>1, <1>4 DEF vars
  <1>5. ASSUME NEW p \in Procs, Handle(p), ~Send(p)
        PROVE  UNCHANGED faults \/ Fault
    BY <1>5 DEF Handle, Receive, GetContact, CacheHit, Fetch, Store, Unsendable, Allow,
       AllowUnasked, RateLimited, Ack, AppendLog
  <1>6. ASSUME Edit \/ Tick \/ \E p \in Procs : Disconnect(p) \/ Crash(p) \/ Expire(p)
        PROVE  UNCHANGED faults \/ Fault
    BY <1>6 DEF Edit, UpsertConfig, PutConfig, PutContact, SyncRead, SyncWrite, Tick, Disconnect,
       Crash, Expire
  <1>7. CASE RedisRestart
    BY <1>2, <1>7 DEF RedisRestart
  <1> QED
    BY <1>1, <1>2, <1>3, <1>4, <1>5, <1>6, <1>7 DEF Next

\* Every step of a process pays for what it sends or puts back.
LEMMA ActorPays ==
    ASSUME Typing, Paid, NEW p \in Procs, Acts(p), NEW m \in Ids, NEW ch \in Channels
    PROVE  Pays(p, m, ch)
PROOF
  <1> USE DEF config, contacts, ghosts, redis
  <1>0. /\ Len(hist) \in Nat /\ WorkOK(work[p], Len(hist)) /\ DOMAIN work = Procs
        /\ queue \in Seq(Ids) /\ JobsOK /\ DOMAIN work[p] = Fields
    BY DEF Typing, ConfigOK, JobsOK, WorkOK
  <1>1. PICK w : WorkOK(w, Len(hist)) /\ work' = [work EXCEPT ![p] = w]
    BY HandleStep, FailureStep DEF Acts, JobStep, Typing
  <1>2. queue' \in Seq(Ids)
    BY HandleStep, FailureStep DEF Acts, JobStep, Typing
  <1>3. work'[p] = w
    BY <1>0, <1>1
  <1>4. PICK d \in Nat : faults' = faults + d
    <2>1. [Next]_vars
      BY DEF Acts, Next
    <2> QED
      BY <2>1, FaultsGrow DEF Paid
  <1>5. got[m][ch] \in Nat
    BY DEF Paid
  <1>6. ASSUME got' = got, queue' = queue,
               \/ w.pc = "idle"
               \/ w.id = work[p].id /\ work[p].pc \in Waiting \ {"idle"}
               \/ /\ w.id = work[p].id /\ w.to = work[p].to /\ w.todo \subseteq work[p].todo
                  /\ work[p].pc \notin Waiting /\ w.pc \notin Waiting
        PROVE  Pays(p, m, ch)
    <2>1. Cardinality(Slots(w, m, ch)) <= Cardinality(Slots(work[p], m, ch))
      BY <1>0, <1>1, <1>6, SlotsFall
    <2> QED
      BY <1>1, <1>2, <1>4, <1>5, <1>6, <2>1, PaysBy
  <1>7. ASSUME NEW v, Dispatch(p, v)
        PROVE  w.id = work[p].id
    <2> DEFINE u == [work[p] EXCEPT !.pc = "loop", !.ver = v, !.at = 0]
               T == {k \in DOMAIN Candidates(u) : ~Muted(u, Candidates(u)[k])}
    <2>1. w = [u EXCEPT !.todo = T]
      BY <1>0, <1>3, <1>7 DEF Dispatch, Becomes
    <2>2. DOMAIN u = Fields /\ u.id = work[p].id
      BY <1>0 DEF Fields
    <2> HIDE DEF u, T
    <2> QED
      BY <2>1, <2>2 DEF Fields
  <1>8. CASE Receive(p)
    <2> DEFINE u(l) == [Idle EXCEPT !.pc = l, !.id = Head(queue), !.held = TRUE]
    <2>1. /\ queue # <<>> /\ queue' = Tail(queue) /\ got' = got /\ work[p].pc = "idle"
          /\ w \in {u("contact"), u("config"), Idle}
      BY <1>0, <1>3, <1>8 DEF Receive, Becomes, Finish, At
    <2>2. \A l : u(l).id = Head(queue)
      BY DEF Idle
    <2>3. w.pc = "idle" \/ w.id = Head(queue)
      <3>1. Idle.pc = "idle"
        BY DEF Idle
      <3> HIDE DEF u
      <3> QED
        BY <2>1, <2>2, <3>1
    <2> HIDE DEF u
    <2>4. CASE Head(queue) = m
      <3>1. Cardinality(Queued(m)') = Cardinality(Queued(m)) - 1
        BY <1>0, <2>1, <2>4, QueuedTail
      <3> QED
        BY <1>1, <1>2, <1>4, <1>5, <2>1, <3>1, PaysBy
    <2>5. CASE Head(queue) # m
      <3>1. Cardinality(Queued(m)') = Cardinality(Queued(m))
        BY <1>0, <2>1, <2>5, QueuedTail
      <3>2. Cardinality(Slots(w, m, ch)) = 0 /\ Cardinality(Slots(work[p], m, ch)) = 0
        BY <1>0, <1>1, <2>1, <2>3, <2>5, SlotsBound
      <3>3. Slots(work[p], m, ch)' = Slots(w, m, ch) /\ UNCHANGED faults
        BY <1>3, <1>8 DEF Slots, Candidates, Receive
      <3>4. /\ got'[m][ch] = got[m][ch]
            /\ Copies(ch) * Cardinality(Queued(m)) \in Nat /\ Copies(ch) * faults \in Nat
        <4>1. Copies(ch) \in Nat \ {0} /\ Cardinality(Queued(m)) \in Nat /\ faults \in Nat
          BY <1>0, CopiesBound, QueuedFinite DEF Paid
        <4> QED
          BY <2>1, <4>1, Scaled
      <3> QED
        BY <1>5, <3>1, <3>2, <3>3, <3>4 DEF Pays
    <2> QED
      BY <2>4, <2>5
  <1>9. CASE GetContact(p)
    <2> DEFINE u == [work[p] EXCEPT !.pc = "config", !.to = contact]
    <2>1. w \in {Idle, u} /\ UNCHANGED <<got, queue>> /\ work[p].pc = "contact"
      BY <1>0, <1>3, <1>9 DEF GetContact, Finish, Becomes, At
    <2>2. u.id = work[p].id /\ Idle.pc = "idle"
      BY <1>0 DEF Fields, Idle
    <2> HIDE DEF u
    <2> QED
      BY <1>6, <2>1, <2>2 DEF Waiting
  <1>10. CASE CacheHit(p) \/ Fetch(p) \/ Store(p)
    <2>1. UNCHANGED <<got, queue>> /\ work[p].pc \in {"config", "store"}
      BY <1>10 DEF CacheHit, Fetch, Store, At
    <2>2. w.id = work[p].id
      <3>1. CASE \E v : Dispatch(p, v)
        BY <1>7, <3>1
      <3>2. CASE ~ \E v : Dispatch(p, v)
        <4> DEFINE u == [work[p] EXCEPT !.pc = "store", !.ver = Version, !.at = now]
        <4>1. w = u
          BY <1>0, <1>3, <1>10, <3>2 DEF CacheHit, Fetch, Store, Becomes
        <4>2. u.id = work[p].id
          BY <1>0 DEF Fields
        <4> HIDE DEF u
        <4> QED
          BY <4>1, <4>2
      <3> QED
        BY <3>1, <3>2
    <2> QED
      BY <1>6, <2>1, <2>2 DEF Waiting
  <1>11. ASSUME Logged(p) \/ Unlogged(p)
         PROVE  /\ w.pc = "loop" /\ w.id = work[p].id /\ w.to = work[p].to
                /\ w.todo = work[p].todo \ {Position(p)}
    <2> DEFINE x == Passed(p)
               y == [x EXCEPT !.lost = @ \cup {Channel(p)}]
    <2>1. w = x \/ w = y
      BY <1>0, <1>3, <1>11 DEF Logged, Unlogged, Becomes
    <2>2. /\ DOMAIN x = Fields /\ x.pc = "loop" /\ x.id = work[p].id /\ x.to = work[p].to
          /\ x.todo = work[p].todo \ {Position(p)}
      BY <1>0 DEF Passed, Fields
    <2> HIDE DEF x
    <2>3. y.pc = x.pc /\ y.id = x.id /\ y.to = x.to /\ y.todo = x.todo
      BY <2>2 DEF Fields
    <2> HIDE DEF y
    <2> QED
      BY <2>1, <2>2, <2>3
  <1>12. CASE Unsendable(p) \/ RateLimited(p)
    <2>1. UNCHANGED <<got, queue>> /\ work[p].pc = "loop" /\ (Logged(p) \/ Unlogged(p))
      BY <1>12, AppendLogCases DEF Unsendable, RateLimited, Looping, At
    <2> QED
      BY <1>6, <1>11, <2>1 DEF Waiting
  <1>13. CASE Allow(p) \/ AllowUnasked(p)
    <2>1. /\ UNCHANGED <<got, queue>> /\ work[p].pc = "loop"
          /\ w = [work[p] EXCEPT !.pc = "send"]
      BY <1>0, <1>3, <1>13 DEF Allow, AllowUnasked, Looping, At, Sends, Becomes
    <2>2. w.pc = "send" /\ w.id = work[p].id /\ w.to = work[p].to /\ w.todo = work[p].todo
      BY <1>0, <2>1 DEF Fields
    <2> QED
      BY <1>6, <2>1, <2>2 DEF Waiting
  <1>14. CASE Send(p)
    <2>1. PICK n \in Arrivals(p), again \in Misreports(p) :
             /\ got' = [got EXCEPT ![work[p].id][Channel(p)] = @ + n + again]
             /\ \/ again = 0 /\ AppendLog(p)
                \/ again \in 1 .. Budget /\ faults' = faults + again /\ Logged(p)
      BY <1>14 DEF Send
    <2>2. n \in {0, 1} /\ again \in Nat
      BY DEF Arrivals, Misreports, Attempts
    <2>3. queue' = queue /\ work[p].pc = "send" /\ (Logged(p) \/ Unlogged(p))
      BY <1>14, <2>1, AppendLogCases DEF Send, At
    <2>4. /\ w.pc = "loop" /\ w.id = work[p].id /\ w.to = work[p].to
          /\ w.todo = work[p].todo \ {Position(p)}
      BY <1>11, <2>3
    <2>5. work[p].id \in Ids /\ Channel(p) \in Channels
      BY <1>0, <2>3, ChannelOK DEF WorkOK
    <2>6. again <= d
      <3>1. faults \in Nat
        BY DEF Paid
      <3> QED
        BY <1>4, <2>1, <2>2, <3>1
    <2>7. CASE m = work[p].id /\ ch = Channel(p)
      <3>1. got'[m][ch] = got[m][ch] + n + again
        BY <2>1, <2>5, <2>7 DEF Paid
      <3>2. got'[m][ch] \in Nat /\ got'[m][ch] <= got[m][ch] + 1 + d
        BY <1>5, <2>2, <2>6, <3>1
      <3>3. Cardinality(Slots(w, m, ch)) = Cardinality(Slots(work[p], m, ch)) - 1
        BY <1>1, <2>3, <2>4, <2>7, SlotsSent
      <3> QED
        BY <1>1, <1>2, <1>4, <2>3, <3>2, <3>3, PaysBy
    <2>8. CASE ~(m = work[p].id /\ ch = Channel(p))
      <3>1. got'[m][ch] = got[m][ch]
        BY <2>1, <2>5, <2>8 DEF Paid
      <3>2. Cardinality(Slots(w, m, ch)) <= Cardinality(Slots(work[p], m, ch))
        BY <1>0, <1>1, <2>3, <2>4, SlotsFall DEF Waiting
      <3> QED
        BY <1>1, <1>2, <1>4, <1>5, <2>3, <3>1, <3>2, PaysBy
    <2> QED
      BY <2>7, <2>8
  <1>15. CASE Ack(p)
    <2>1. UNCHANGED <<got, queue>> /\ w.pc = "idle"
      BY <1>0, <1>3, <1>15 DEF Ack, Finish, Becomes, Idle
    <2> QED
      BY <1>6, <2>1
  <1>16. ASSUME got' = got, Fault, Cardinality(Slots(w, m, ch)) <= Cardinality(Slots(work[p], m, ch)),
                queue' = queue \/ (work[p].id \in Ids /\ queue' = <<work[p].id>> \o queue)
         PROVE  Pays(p, m, ch)
    <2>1. d = 1
      BY <1>4, <1>16 DEF Fault, Paid
    <2>2. CASE queue' = queue
      BY <1>1, <1>2, <1>4, <1>5, <1>16, <2>2, PaysBy
    <2>3. CASE work[p].id \in Ids /\ queue' = <<work[p].id>> \o queue
      <3>1. Cardinality(Queued(m)') <= Cardinality(Queued(m)) + 1
        BY <1>0, <2>3, QueuedAgain
      <3> QED
        BY <1>1, <1>2, <1>4, <1>5, <1>16, <2>1, <3>1, PaysBy
    <2> QED
      BY <1>16, <2>2, <2>3
  <1>17. CASE Disconnect(p) \/ Expire(p)
    <2>1. /\ got' = got /\ Fault
          /\ w = [work[p] EXCEPT !.held = FALSE] \/ w = [work[p] EXCEPT !.expired = TRUE]
          /\ queue' = queue \/ queue' = <<work[p].id>> \o queue
      BY <1>0, <1>3, <1>17 DEF Disconnect, Expire, Becomes
    <2>2. w.pc = work[p].pc /\ w.id = work[p].id /\ w.to = work[p].to /\ w.todo = work[p].todo
      BY <1>0, <2>1 DEF Fields
    <2>3. Slots(w, m, ch) = Slots(work[p], m, ch)
      BY <2>2 DEF Slots, Candidates
    <2>4. Cardinality(Slots(work[p], m, ch)) \in Nat
      BY <1>0, SlotsBound
    <2>5. work[p].pc # "idle"
      BY <1>0, <1>17 DEF Disconnect, Expire, At, WorkOK
    <2>6. work[p].id \in Ids
      BY <1>0, <2>5 DEF WorkOK
    <2>7. Cardinality(Slots(w, m, ch)) <= Cardinality(Slots(work[p], m, ch))
      BY <2>3, <2>4
    <2> QED
      BY <1>16, <2>1, <2>6, <2>7
  <1>18. CASE Crash(p)
    <2>1. /\ got' = got /\ Fault /\ w = Idle
          /\ queue' = queue \/ queue' = <<work[p].id>> \o queue
      BY <1>0, <1>3, <1>18 DEF Crash, Becomes
    <2>2. Cardinality(Slots(w, m, ch)) <= Cardinality(Slots(work[p], m, ch))
      BY <1>0, <1>1, <2>1, SlotsFall DEF Idle
    <2>3. work[p].id \in Ids
      BY <1>0, <1>18 DEF WorkOK, Crash, At
    <2> QED
      BY <1>16, <2>1, <2>2, <2>3
  <1> QED
    BY <1>8, <1>9, <1>10, <1>12, <1>13, <1>14, <1>15, <1>17, <1>18 DEF Acts, Handle

\* Every step keeps the account.
LEMMA PaidStep ==
    ASSUME Typing, Paid, [Next]_vars
    PROVE  Paid'
PROOF
  <1> USE DEF config, contacts, ghosts, redis
  <1>1. PICK d \in Nat : faults' = faults + d
    BY FaultsGrow DEF Paid
  <1>2. faults \in Nat /\ faults' \in Nat
    BY <1>1 DEF Paid
  <1>3. DOMAIN got' = Ids /\ \A m \in Ids : DOMAIN got'[m] = Channels
    <2>1. CASE got' = got
      BY <2>1 DEF Paid
    <2>2. ASSUME NEW p \in Procs, Send(p)
          PROVE  DOMAIN got' = Ids /\ \A m \in Ids : DOMAIN got'[m] = Channels
      BY <2>2 DEF Send, Paid
    <2>3. got' = got \/ \E p \in Procs : Send(p)
      BY DEF Next, Handle, Edit, vars, UpsertConfig, PutConfig, PutContact, SyncRead, SyncWrite,
         Receive, GetContact, CacheHit, Fetch, Store, Unsendable, Allow, AllowUnasked, RateLimited,
         Ack, Tick, Disconnect, Crash, Expire, RedisRestart
    <2> QED
      BY <2>1, <2>2, <2>3
  <1>4. ASSUME NEW m \in Ids, NEW ch \in Channels
        PROVE  /\ got'[m][ch] \in Nat /\ IsFiniteSet(ToSend(m, ch)')
               /\ got'[m][ch] + Copies(ch) * Cardinality(Queued(m)') + Cardinality(ToSend(m, ch)')
                  <= Copies(ch) * (1 + faults')
    <2> DEFINE c == Copies(ch)
               g == got[m][ch]
               g1 == got'[m][ch]
               x == c * Cardinality(Queued(m))
               x1 == c * Cardinality(Queued(m)')
               t == Cardinality(ToSend(m, ch))
               t1 == Cardinality(ToSend(m, ch)')
               y == c * faults
               y1 == c * faults'
    <2>1. /\ g \in Nat /\ IsFiniteSet(ToSend(m, ch))
          /\ g + x + t <= c * (1 + faults)
      BY DEF Paid
    <2>2. c \in Nat \ {0} /\ Cardinality(Queued(m)) \in Nat /\ queue \in Seq(Ids) /\ t \in Nat
      BY <2>1, CopiesBound, QueuedFinite, FS_CardinalityType DEF Typing, JobsOK
    <2>3. queue' \in Seq(Ids)
      BY TypingStep DEF Typing, JobsOK
    <2>4. Cardinality(Queued(m)') \in Nat
      <3>1. Queued(m)' \in SUBSET (0 .. Len(queue') - 1) /\ Len(queue') \in Nat
        BY <2>3 DEF Queued
      <3>2. IsFiniteSet(0 .. Len(queue') - 1)
        BY <3>1, FS_Interval
      <3> QED
        BY <3>1, <3>2, FS_Subset, FS_CardinalityType
    <2>5. /\ x \in Nat /\ x1 \in Nat /\ y \in Nat /\ y1 \in Nat /\ y <= y1
          /\ c * (1 + faults) = c + y /\ c * (1 + faults') = c + y1
      <3>1. x \in Nat /\ x1 \in Nat /\ y \in Nat /\ y1 \in Nat
        BY <1>2, <2>2, <2>4, Scaled
      <3>2. c * d \in Nat /\ c * (faults + d) = c * faults + c * d
        BY <1>1, <1>2, <2>2, Scaled
      <3>3. c * (1 + faults) = c + y /\ c * (1 + faults') = c + y1
        BY <1>2, <2>2
      <3> QED
        BY <1>1, <3>1, <3>2, <3>3
    <2>6. ASSUME NEW p \in Procs, Acts(p)
          PROVE  g1 \in Nat /\ IsFiniteSet(ToSend(m, ch)') /\ g1 + x1 + t1 <= c + y1
      <3>1. PICK w : WorkOK(w, Len(hist)) /\ work' = [work EXCEPT ![p] = w]
        BY <2>6, HandleStep, FailureStep DEF Acts, JobStep, Typing
      <3> DEFINE s == Cardinality(Slots(work[p], m, ch))
                 s1 == Cardinality(Slots(w, m, ch))
      <3>2. Len(hist) \in Nat /\ WorkOK(work[p], Len(hist)) /\ DOMAIN work = Procs
        BY DEF Typing, ConfigOK, JobsOK
      <3>3. s \in Nat /\ s1 \in Nat
        BY <3>1, <3>2, SlotsBound
      <3>4. IsFiniteSet(ToSend(m, ch)') /\ t1 = t - s + s1
        BY <2>1, <3>1, ToSendChanges
      <3>5. Slots(work[p], m, ch)' = Slots(w, m, ch)
        BY <3>1, <3>2 DEF Slots, Candidates
      <3>6. g1 \in Nat /\ g1 + x1 + s1 + y <= g + x + s + y1
        BY <2>6, <3>5, ActorPays DEF Pays
      <3> HIDE DEF c, g, g1, x, x1, t, t1, y, y1, s, s1
      <3>7. g1 + x1 + (t - s + s1) <= c + y1
        BY <2>1, <2>2, <2>5, <3>3, <3>6
      <3> QED
        BY <3>4, <3>6, <3>7
    <2>7. CASE UNCHANGED <<work, queue, got>>
      <3>1. ToSend(m, ch)' = ToSend(m, ch)
        BY <2>7 DEF ToSend, Slots, Candidates
      <3>2. Queued(m)' = Queued(m)
        BY <2>7 DEF Queued
      <3>3. g1 = g /\ x1 = x /\ t1 = t
        BY <2>7, <3>1, <3>2
      <3> HIDE DEF c, g, g1, x, x1, t, t1, y, y1
      <3>4. g1 + x1 + t1 <= c + y1
        BY <2>1, <2>2, <2>5, <3>3
      <3> QED
        BY <2>1, <2>5, <3>1, <3>3, <3>4 DEF c, g, g1, x, x1, t, t1, y, y1
    <2>8. UNCHANGED <<work, queue, got>> \/ \E p \in Procs : Acts(p)
      BY DEF Next, Acts, Edit, vars, UpsertConfig, PutConfig, PutContact, SyncRead, SyncWrite, Tick,
         RedisRestart
    <2> QED
      BY <2>5, <2>6, <2>7, <2>8
  <1> QED
    BY <1>2, <1>3, <1>4 DEF Paid

\* A recipient gets a message as often as the contact names the channel, and one round more
\* for each redelivery, crash or lost answer, whatever the number of processes, messages and
\* contacts is.
THEOREM CopiesHaveACause == Spec => []DuplicateOnlyByFault
PROOF
  <1>1. Init => Paid
    <2> SUFFICES ASSUME Init
                 PROVE  Paid
      OBVIOUS
    <2>1. Len(Messages) \in Nat /\ Ids = 1 .. Len(Messages)
      BY ListsAssumption DEF IsList, Ids
    <2>2. ASSUME NEW m \in Ids, NEW ch \in Channels
          PROVE  /\ got[m][ch] = 0 /\ IsFiniteSet(ToSend(m, ch))
                 /\ got[m][ch] + Copies(ch) * Cardinality(Queued(m)) + Cardinality(ToSend(m, ch))
                    <= Copies(ch) * (1 + faults)
      <3> DEFINE n == Len(Messages)
      <3>1. queue = [i \in 1 .. n |-> i] /\ got[m][ch] = 0 /\ faults = 0
        BY DEF Init
      <3>2. n \in Nat /\ m \in 1 .. n
        BY <2>1
      <3> HIDE DEF n
      <3>3. Len(queue) = n /\ \A i \in 1 .. n : queue[i] = i
        BY <3>1, <3>2
      <3>4. Queued(m) = {n - m}
        <4>1. \A j : j \in Queued(m) <=> j \in 0 .. n - 1 /\ n - j = m
          BY <3>2, <3>3 DEF Queued
        <4> QED
          BY <3>2, <4>1
      <3>5. Cardinality(Queued(m)) = 1
        BY <3>4, FS_Singleton
      <3>6. ToSend(m, ch) = {}
        <4>1. \A p \in Procs : Slots(work[p], m, ch) = {}
          BY DEF Init, Slots, Idle
        <4> QED
          BY <4>1 DEF ToSend
      <3>7. IsFiniteSet(ToSend(m, ch)) /\ Cardinality(ToSend(m, ch)) = 0
        BY <3>6, FS_EmptySet
      <3>8. Copies(ch) \in Nat
        BY CopiesBound
      <3> QED
        BY <3>1, <3>5, <3>7, <3>8
    <2> QED
      BY <2>2 DEF Init, Paid
  <1>2. Typing /\ Paid /\ [Next]_vars => Paid'
    BY PaidStep
  <1>3. Typing /\ Paid => DuplicateOnlyByFault
    <2> SUFFICES ASSUME Typing, Paid, NEW m \in Ids, NEW ch \in Channels
                 PROVE  got[m][ch] <= Copies(ch) * (1 + faults)
      BY DEF DuplicateOnlyByFault
    <2> DEFINE x == Copies(ch) * Cardinality(Queued(m))
               y == Copies(ch) * (1 + faults)
               t == Cardinality(ToSend(m, ch))
    <2>1. got[m][ch] \in Nat /\ IsFiniteSet(ToSend(m, ch)) /\ got[m][ch] + x + t <= y
      BY DEF Paid
    <2>2. t \in Nat
      BY <2>1, FS_CardinalityType
    <2>3. Copies(ch) \in Nat \ {0} /\ Cardinality(Queued(m)) \in Nat /\ 1 + faults \in Nat
      BY CopiesBound, QueuedFinite DEF Typing, JobsOK, Paid
    <2>4. x \in Nat /\ y \in Nat
      BY <2>3, Scaled
    <2> HIDE DEF x, y, t
    <2>5. got[m][ch] <= y
      BY <2>1, <2>2, <2>4
    <2> QED
      BY <2>5 DEF y
  <1> QED
    BY <1>1, <1>2, <1>3, TypingInvariant, PTL DEF Spec
=============================================================================
