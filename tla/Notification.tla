---------------------------- MODULE Notification ----------------------------
(***************************************************************************)
(* Dispatch of notifications: consumer.go, notifier.go, ratelimit.go,      *)
(* tenantcache/cache.go, schedclient/client.go, the dispatchers, store.go  *)
(* and handler.go under services/notification, composed with the           *)
(* notification config of a tenant, which services/scheduling keeps and    *)
(* serves (handler.go, store.go).                                          *)
(*                                                                         *)
(* Every process of the service has one consumer, which handles one        *)
(* message at a time, and a cache of its own; the limiter's buckets are in *)
(* Redis and shared.  One tenant and one on-call user.  Time is a counter  *)
(* of abstract ticks; a process and Redis agree on it.                     *)
(***************************************************************************)
EXTENDS Naturals, Sequences, FiniteSets, SequencesExt, FiniteSetsExt

CONSTANTS
    Procs,         \* processes of the notification service
    Admins,        \* PUT requests on the tenant's notification config
    Messages,      \* Messages[m]: the type of message m, and if it has a user
    ConfigBodies,  \* bodies of the PUT requests on the config
    ContactBodies, \* bodies of the PUT requests on the contact
    ClaimEmail,    \* the address in the user's token
    FirstContacts, \* rows of the user to begin with
    Keep,          \* a field that is absent from a body
    None,          \* no contact, no cache entry, no bucket
    MaxTokens,     \* RATE_LIMIT_MAX
    Window,        \* RATE_LIMIT_WINDOW
    TTL,           \* lifetime of a cache entry
    FetchTimeout,  \* timeout of the HTTP client
    MaxTime,       \* bound: ticks
    MaxEvents      \* bound: editing requests, failed calls and lost connections

ASSUME LimitsAssumption ==
    MaxTokens \in Nat \ {0} /\ Window \in Nat \ {0} /\ TTL \in Nat \ {0}
ASSUME BoundsAssumption == {FetchTimeout, MaxTime, MaxEvents} \subseteq Nat
ASSUME BodiesAssumption ==
    ConfigBodies \subseteq [mm : BOOLEAN \cup {Keep}, email : BOOLEAN \cup {Keep},
                            url : {Keep, "hook", "masked", "refused"}]

\* The addresses and lists of channels that rows of user_contacts may have.
Rows == ContactBodies \cup (FirstContacts \ {None})
Lists == {<<"email">>} \cup {b.channels : b \in Rows}
Contacts == [email : {ClaimEmail} \cup {b.email : b \in Rows}, channels : Lists]

IsList(q) == q \in Seq(Range(q))
ASSUME ListsAssumption ==
    IsList(Messages) /\ IsFiniteSet(Lists) /\ \A q \in Lists : IsList(q)
ASSUME NoneAssumption ==
    /\ Rows \subseteq Contacts /\ None \notin Contacts
    /\ None \notin [tokens : Nat, last : Nat, expires : Nat]

Ids == DOMAIN Messages
Channels == {"email", "mattermost"}
Attempts == 3

VARIABLES
    now,      \* the clock
    queue,    \* escalations.notification: ids of the messages to deliver
    hist,     \* the config as GET answers it, every version with its time
    edit,     \* each PUT request on the config: body, and the version it read
    contact,  \* notification.user_contacts: the row of the user
    sync,     \* SyncContacts: the row it read, while it runs
    cache,    \* each process: the cached version and its expiry
    work,     \* each process: the message in hand
    bucket,   \* Redis: oncall:ratelimit:notif:...:{channel}
    log,      \* notification_log: the channels with a row, by message
    \* what the properties compare with:
    got,      \* how often a recipient got a message on a channel
    grants,   \* what the script allowed since Redis started: by channel, the times
    asked,    \* the values the accepted requests asked for
    raced,    \* an edit overwrote one it had not read: the tables concerned
    edits,    \* editing requests so far (with faults, bounded by MaxEvents)
    faults    \* faults so far (with edits, bounded by MaxEvents)

config == <<hist, edit>>
contacts == <<contact, sync>>
ghosts == <<asked, raced, edits>>
redis == <<bucket, grants>>
vars == <<now, queue, config, contacts, cache, work, redis, log, got, ghosts, faults>>

Budget == MaxEvents - edits - faults
Fault == Budget > 0 /\ faults' = faults + 1

(***************************************************************************)
(* The notification config in services/scheduling.                         *)
(***************************************************************************)

Version == Len(hist)

\* GetTenantNotificationConfig: without a row the answer is a default, never 404;
\* to a service the webhook URL is not masked.
DefaultConfig == [mm |-> TRUE, email |-> TRUE, url |-> "", at |-> 0]

Given(value, old) == IF value = Keep THEN old ELSE value

\* Faulty form of the next definition: what the body leaves out is reset.
MergedOverDefault(cur, b) ==
    [mm |-> Given(b.mm, TRUE), email |-> Given(b.email, TRUE),
     url |-> Given(b.url, cur.url), at |-> now]

\* Only the fields of the body change; an empty URL counts as absent.
Merged(cur, b) ==
    [mm |-> Given(b.mm, cur.mm), email |-> Given(b.email, cur.email),
     url |-> Given(b.url, cur.url), at |-> now]

\* Faulty form of the next definition: no URL is refused.
ValidateNothing(url) == TRUE

\* ssrf.ValidateURL: https and a public host; a masked URL may pass.
ValidateURL(url) == url # "refused"

\* PutTenantNotificationConfig up to its write: a refused URL is answered 422.
PutConfig(a, b) ==
    /\ edit[a] = None /\ Budget > 0
    /\ ValidateURL(b.url)
    /\ edit' = [edit EXCEPT ![a] = [body |-> b, read |-> Version]]
    /\ edits' = edits + 1
    /\ UNCHANGED <<now, queue, hist, contacts, cache, work, redis, log, got,
                   asked, raced, faults>>

\* What the requests asked for so far.
Requested(old, b) == [f \in DOMAIN b |-> IF b[f] = Keep THEN old[f] ELSE b[f]]

\* The whole row is written, last writer wins.  A failure is answered 500.
UpsertConfig(a) ==
    /\ edit[a] # None
    /\ \/ /\ hist' = Append(hist, Merged(hist[edit[a].read], edit[a].body))
          /\ asked' = [asked EXCEPT !.config = Requested(@, edit[a].body)]
          /\ raced' = IF edit[a].read # Version THEN raced \cup {"config"} ELSE raced
          /\ UNCHANGED faults
       \/ Fault /\ UNCHANGED <<hist, asked, raced>>
    /\ edit' = [edit EXCEPT ![a] = None]
    /\ UNCHANGED <<now, queue, contacts, cache, work, redis, log, got, edits>>

(***************************************************************************)
(* The contact of the user.                                                *)
(***************************************************************************)

\* PutContact: one upsert of the whole row.
PutContact(b) ==
    /\ Budget > 0
    /\ edits' = edits + 1
    /\ contact' = b
    /\ asked' = [asked EXCEPT !.contact = b.channels]
    /\ UNCHANGED <<now, queue, config, sync, cache, work, redis, log, got,
                   raced, faults>>

\* SyncContacts reads the row: when the address is the token's it is done.
SyncRead ==
    /\ sync = None /\ Budget > 0
    /\ contact # None => contact.email # ClaimEmail
    /\ edits' = edits + 1
    /\ sync' = [row |-> contact]
    /\ UNCHANGED <<now, queue, config, contact, cache, work, redis, log, got,
                   asked, raced, faults>>

\* Faulty form of the next definition: every sync enables email and nothing else.
SyncedAsNew(row) == [email |-> ClaimEmail, channels |-> <<"email">>]

\* The row it writes: a new one, or the one it read with the address of the token.
Synced(row) == IF row = None THEN [email |-> ClaimEmail, channels |-> <<"email">>]
               ELSE [row EXCEPT !.email = ClaimEmail]

SyncWrite ==
    /\ sync # None
    /\ \/ /\ contact' = Synced(sync.row)
          /\ raced' = IF sync.row # contact THEN raced \cup {"contact"} ELSE raced
          /\ UNCHANGED faults
       \/ Fault /\ UNCHANGED <<contact, raced>>
    /\ sync' = None
    /\ UNCHANGED <<now, queue, config, cache, work, redis, log, got, asked, edits>>

(***************************************************************************)
(* The consumer.                                                           *)
(***************************************************************************)

Idle == [pc |-> "idle", id |-> 0, held |-> FALSE, expired |-> FALSE, to |-> None,
         ver |-> 0, at |-> 0, todo |-> {}, lost |-> {}]

At(p, l) == work[p].pc = l
Message(p) == Messages[work[p].id]
Becomes(p, w) == work' = [work EXCEPT ![p] = w]

\* Ack, and Nack without requeue of a dropped message, end the delivery.
Finish(p) == Becomes(p, Idle)

\* handle: a message for nobody and one of another type are acknowledged at once.
Receive(p) ==
    /\ At(p, "idle") /\ queue # <<>>
    /\ LET id == Head(queue)
           on(l) == Becomes(p, [Idle EXCEPT !.pc = l, !.id = id, !.held = TRUE])
       IN CASE Messages[id].type = "triggered" /\ Messages[id].user -> on("contact")
            [] Messages[id].type = "exhausted" -> on("config")
            [] OTHER -> Finish(p)
    /\ queue' = Tail(queue)
    /\ UNCHANGED <<now, config, contacts, cache, redis, log, got, ghosts, faults>>

\* NotifyTriggered: no row ends the handler, an error drops the message.
GetContact(p) ==
    /\ At(p, "contact")
    /\ \/ /\ ~work[p].expired /\ contact # None
          /\ Becomes(p, [work[p] EXCEPT !.pc = "config", !.to = contact])
          /\ UNCHANGED faults
       \/ /\ work[p].expired \/ contact = None
          /\ Finish(p)
          /\ UNCHANGED faults
       \/ Fault /\ Finish(p)
    /\ UNCHANGED <<now, queue, config, contacts, cache, redis, log, got, ghosts>>

\* NotifyExhausted goes through mattermost alone, dispatchToContact through the
\* channels of the contact.
Candidates(w) == IF w.to = None THEN <<"mattermost">> ELSE w.to.channels

\* Faulty form of the next definition: no config mutes email too.
MutedUnlessEnabled(w, ch) ==
    IF ch = "email" THEN w.to.email = "" \/ w.ver = 0 \/ ~hist[w.ver].email
                    ELSE w.ver # 0 /\ ~hist[w.ver].mm

\* A channel is passed over: an unknown name, no address, or disabled by the tenant;
\* no config (version 0) does not disable a channel.
Muted(w, ch) ==
    CASE ch = "email" -> w.to.email = "" \/ (w.ver # 0 /\ ~hist[w.ver].email)
      [] ch = "mattermost" -> w.ver # 0 /\ ~hist[w.ver].mm
      [] OTHER -> TRUE

\* The handler goes on with version v of the config: the positions it stops at.
Dispatch(p, v) ==
    LET w == [work[p] EXCEPT !.pc = "loop", !.ver = v, !.at = 0]
    IN Becomes(p, [w EXCEPT !.todo = {k \in DOMAIN Candidates(w) : ~Muted(w, Candidates(w)[k])}])

\* Faulty form of the next definition: an entry never gets too old.
FreshForever(p) == cache[p] # None

\* What evictExpired removes is not fresh either: the sweeper is no action here.
Fresh(p) == cache[p] # None /\ now < cache[p].expires

\* Cache.Get finds an entry that has not expired.
CacheHit(p) ==
    /\ At(p, "config") /\ Fresh(p)
    /\ Dispatch(p, cache[p].ver)
    /\ UNCHANGED <<now, queue, config, contacts, cache, redis, log, got, ghosts, faults>>

\* Otherwise the config is read over HTTP, without the lock; an error is handled
\* like no config.
Fetch(p) ==
    /\ At(p, "config") /\ ~Fresh(p)
    /\ \/ /\ ~work[p].expired
          /\ Becomes(p, [work[p] EXCEPT !.pc = "store", !.ver = Version, !.at = now])
          /\ UNCHANGED faults
       \/ work[p].expired /\ Dispatch(p, 0) /\ UNCHANGED faults
       \/ Fault /\ Dispatch(p, 0)
    /\ UNCHANGED <<now, queue, config, contacts, cache, redis, log, got, ghosts>>

\* The answer comes in and is cached from then on; the handler's deadline cancels the
\* request, and nothing is cached.
Store(p) ==
    /\ At(p, "store")
    /\ \/ /\ ~work[p].expired
          /\ cache' = [cache EXCEPT ![p] = [ver |-> work[p].ver, expires |-> now + TTL]]
          /\ Dispatch(p, work[p].ver)
       \/ work[p].expired /\ Dispatch(p, 0) /\ UNCHANGED cache
    /\ UNCHANGED <<now, queue, config, contacts, redis, log, got, ghosts, faults>>

(***************************************************************************)
(* The channels of a message, one after the other.                         *)
(***************************************************************************)

Looping(p) == At(p, "loop") /\ work[p].todo # {}
Position(p) == Min(work[p].todo)
Channel(p) == Candidates(work[p])[Position(p)]

\* webhookURLUsable.
Usable(url) == url = "hook"
Sendable(p) ==
    Channel(p) = "mattermost" => work[p].ver # 0 /\ Usable(hist[work[p].ver].url)

\* appendLog, and on to the next channel; a row that cannot be written is given up.
Passed(p) == [work[p] EXCEPT !.pc = "loop", !.todo = @ \ {Position(p)}]
Logged(p) ==
    /\ log' = [log EXCEPT ![work[p].id] = @ \cup {Channel(p)}]
    /\ Becomes(p, Passed(p))
Unlogged(p) ==
    /\ Becomes(p, [Passed(p) EXCEPT !.lost = @ \cup {Channel(p)}])
    /\ UNCHANGED log

AppendLog(p) ==
    \/ ~work[p].expired /\ Logged(p) /\ UNCHANGED faults
    \/ work[p].expired /\ Unlogged(p) /\ UNCHANGED faults
    \/ ~work[p].expired /\ Fault /\ Unlogged(p)

\* The row of a channel that cannot be sent to.
Unsendable(p) ==
    /\ Looping(p) /\ ~Sendable(p)
    /\ AppendLog(p)
    /\ UNCHANGED <<now, queue, config, contacts, cache, redis, got, ghosts>>

\* Faulty form of the next definition: the window is a tick too short.
RefillEarly(b) == b = None \/ now - b.last >= Window - 1

\* The script refills a bucket that has expired or whose window is over.
Refill(b) == b = None \/ now >= b.expires \/ now - b.last >= Window

Bucket(ch) == IF Refill(bucket[ch]) THEN [tokens |-> MaxTokens, last |-> now]
                                    ELSE bucket[ch]
Limited(p) == Message(p).type = "triggered"
Sends(p) == Becomes(p, [work[p] EXCEPT !.pc = "send"])

\* Limiter.Allow, one script: a token is taken and the expiry renewed.
Allow(p) ==
    /\ Looping(p) /\ Sendable(p) /\ Limited(p) /\ ~work[p].expired
    /\ LET ch == Channel(p)
       IN /\ Bucket(ch).tokens > 0
          /\ bucket' = [bucket EXCEPT ![ch] = [tokens |-> Bucket(ch).tokens - 1,
                                               last |-> Bucket(ch).last,
                                               expires |-> now + 2 * Window]]
          /\ grants' = [grants EXCEPT ![ch] = Append(@, now)]
    /\ Sends(p)
    /\ UNCHANGED <<now, queue, config, contacts, cache, log, got, ghosts, faults>>

\* A limiter that cannot be asked allows; the team channel has no limit.
AllowUnasked(p) ==
    /\ Looping(p) /\ Sendable(p)
    /\ \/ (~Limited(p) \/ work[p].expired) /\ UNCHANGED faults
       \/ Limited(p) /\ ~work[p].expired /\ Fault
    /\ Sends(p)
    /\ UNCHANGED <<now, queue, config, contacts, cache, redis, log, got, ghosts>>

\* The bucket is empty: the channel is passed over with a row in the log.
RateLimited(p) ==
    /\ Looping(p) /\ Sendable(p) /\ Limited(p) /\ ~work[p].expired
    /\ Bucket(Channel(p)).tokens = 0
    /\ AppendLog(p)
    /\ UNCHANGED <<now, queue, config, contacts, cache, redis, got, ghosts>>

\* Faulty form of the next definition: success does not end the attempts.
ArrivalsOnAndOn(p) == {Attempts}

\* Copies that the attempts of one Send get through: the first success ends them, and
\* all may fail.  After the deadline the webhook is not even called.
Arrivals(p) == IF work[p].expired /\ Channel(p) = "mattermost" THEN {0} ELSE {0, 1}

\* Attempts that arrived and were reported as failed; after the deadline nothing is
\* tried again.
Misreports(p) == IF work[p].expired THEN {0} ELSE 0 .. Attempts - 1

\* Email.Send, Mattermost.Send; whatever the outcome is, it goes to the log.
Send(p) ==
    /\ At(p, "send")
    /\ \E n \in Arrivals(p), again \in Misreports(p) :
          /\ got' = [got EXCEPT ![work[p].id][Channel(p)] = @ + n + again]
          /\ \/ again = 0 /\ AppendLog(p)
             \/ again \in 1 .. Budget /\ faults' = faults + again /\ Logged(p)
    /\ UNCHANGED <<now, queue, config, contacts, cache, redis, ghosts>>

Ack(p) ==
    /\ At(p, "loop") /\ work[p].todo = {}
    /\ Finish(p)
    /\ UNCHANGED <<now, queue, config, contacts, cache, redis, log, got, ghosts, faults>>

(***************************************************************************)
(* Time and failures.                                                      *)
(***************************************************************************)

\* An HTTP request that is not answered in time fails: it is not on the way longer.
Tick ==
    /\ now < MaxTime
    /\ \A p \in Procs : At(p, "store") => now < work[p].at + FetchTimeout
    /\ now' = now + 1
    /\ UNCHANGED <<queue, config, contacts, cache, work, redis, log, got, ghosts, faults>>

\* The connection to the broker is lost: the message is delivered again, to any
\* process, while the handler goes on (consumeOnce waits for it).
Disconnect(p) ==
    /\ work[p].held /\ Fault
    /\ Becomes(p, [work[p] EXCEPT !.held = FALSE])
    /\ queue' = <<work[p].id>> \o queue
    /\ UNCHANGED <<now, config, contacts, cache, redis, log, got, ghosts>>

\* The process ends and another takes its place, with an empty cache.
Crash(p) ==
    /\ ~At(p, "idle") /\ Fault
    /\ queue' = IF work[p].held THEN <<work[p].id>> \o queue ELSE queue
    /\ Becomes(p, Idle)
    /\ cache' = [cache EXCEPT ![p] = None]
    /\ UNCHANGED <<now, config, contacts, redis, log, got, ghosts>>

\* The handler's deadline passes.
Expire(p) ==
    /\ ~At(p, "idle") /\ ~work[p].expired /\ Fault
    /\ Becomes(p, [work[p] EXCEPT !.expired = TRUE])
    /\ UNCHANGED <<now, queue, config, contacts, cache, redis, log, got, ghosts>>

\* Redis restarts empty: every bucket is full again.
RedisRestart ==
    /\ Fault
    /\ bucket' = [ch \in Channels |-> None]
    /\ grants' = [ch \in Channels |-> <<>>]
    /\ UNCHANGED <<now, queue, config, contacts, cache, work, log, got, ghosts>>

Init ==
    /\ now = 0
    /\ queue = [i \in 1 .. Len(Messages) |-> i]
    /\ hist = <<DefaultConfig>>
    /\ edit = [a \in Admins |-> None]
    /\ contact \in FirstContacts
    /\ sync = None
    /\ cache = [p \in Procs |-> None]
    /\ work = [p \in Procs |-> Idle]
    /\ bucket = [ch \in Channels |-> None]
    /\ log = [m \in Ids |-> {}]
    /\ got = [m \in Ids |-> [ch \in Channels |-> 0]]
    /\ grants = [ch \in Channels |-> <<>>]
    /\ asked = [config |-> [mm |-> TRUE, email |-> TRUE, url |-> ""],
                contact |-> IF contact = None THEN None ELSE contact.channels]
    /\ raced = {}
    /\ edits = 0
    /\ faults = 0

Handle(p) ==
    \/ Receive(p) \/ GetContact(p) \/ CacheHit(p) \/ Fetch(p) \/ Store(p)
    \/ Unsendable(p) \/ Allow(p) \/ AllowUnasked(p) \/ RateLimited(p) \/ Send(p) \/ Ack(p)

Edit ==
    \/ \E a \in Admins : UpsertConfig(a) \/ \E b \in ConfigBodies : PutConfig(a, b)
    \/ \E b \in ContactBodies : PutContact(b)
    \/ SyncRead \/ SyncWrite

Next ==
    \/ \E p \in Procs : Handle(p)
    \/ Edit
    \/ Tick
    \/ \E p \in Procs : Disconnect(p) \/ Crash(p) \/ Expire(p)
    \/ RedisRestart

Spec == Init /\ [][Next]_vars

-----------------------------------------------------------------------------
(***************************************************************************)
(* Properties.                                                             *)
(***************************************************************************)

\* Every variable keeps the shape of the tables, the caches and the handlers' state.
TypeOK ==
    /\ now \in 0 .. MaxTime
    /\ queue \in Seq(Ids)
    /\ \A i \in 1 .. Version : hist[i].at <= now /\ hist[i].url # "refused"
    /\ \A p \in Procs :
          /\ work[p].pc \in {"idle", "contact", "config", "store", "loop", "send"}
          /\ work[p].id \in Ids \cup {0} /\ work[p].ver \in 0 .. Version
          /\ At(p, "send") => work[p].todo # {}
          /\ cache[p] # None => cache[p].ver \in 1 .. Version
    /\ \A ch \in Channels : bucket[ch] # None => bucket[ch].tokens \in 0 .. MaxTokens - 1
    /\ \A m \in Ids : log[m] \subseteq Channels

\* The limiter's promise as its script keeps it: in no stretch of Window ticks, at
\* whatever moment it begins, more than 2 * MaxTokens - 1 notifications of a user are
\* allowed on a channel between two restarts of Redis, by all processes together: of any 2 * MaxTokens in a row the last
\* comes Window ticks or more after the first.
RateBounded ==
    \A ch \in Channels : \A i, j \in DOMAIN grants[ch] :
        j = i + 2 * MaxTokens - 1 => grants[ch][j] >= grants[ch][i] + Window

\* A handler that goes by a replaced config does so less than TTL + FetchTimeout after
\* it was replaced: in time the cache of every process follows the admins' edits.
StaleBounded ==
    [][\A p \in Procs :
          LET v == work'[p].ver
          IN work[p].pc \in {"config", "store"} /\ work'[p].pc = "loop" /\ v \in 1 .. Version - 1
             => now < hist[v + 1].at + TTL + FetchTimeout]_vars

\* A recipient gets a message as often as the contact names the channel; more copies
\* take a redelivery or an answer that was lost, each at most one round more.
Copies(ch) ==
    Max({1} \cup {Cardinality({i \in DOMAIN q : q[i] = ch}) : q \in Lists})
DuplicateOnlyByFault ==
    \A m \in Ids, ch \in Channels : got[m][ch] <= Copies(ch) * (1 + faults)

\* Nobody is skipped in silence: when a handler is through with a contact, each of its
\* channels that the service knows has an outcome in the log (or the insert failed),
\* unless there is no address or a config that was read disables the channel; an outage
\* of the scheduling service mutes neither channel.
NoSilentSkip ==
    \A p \in Procs : At(p, "loop") /\ work[p].todo = {} =>
        \A ch \in Range(Candidates(work[p])) \cap Channels :
            \/ ch \in log[work[p].id] \cup work[p].lost
            \/ ch = "email" /\ work[p].to.email = ""
            \/ work[p].ver # 0 /\ ~(IF ch = "email" THEN hist[work[p].ver].email
                                                    ELSE hist[work[p].ver].mm)

\* An accepted edit of the config, or of the channels of a contact, stays in force
\* until the next one that names the field, unless a request overwrote a row it had
\* read before that edit: saving one section keeps the other, a sync keeps the channels.
EditsLostOnlyByRace ==
    /\ "config" \in raced \/ \A f \in DOMAIN asked.config : hist[Version][f] = asked.config[f]
    /\ "contact" \in raced \/ asked.contact = None \/ contact.channels = asked.contact
=============================================================================
