------------------------------- MODULE Tokens -------------------------------
(***************************************************************************)
(* Tenants and webhook tokens: the tenant and token parts of handler.go    *)
(* and store.go, tokenindex/index.go and the start of cmd/server/main.go   *)
(* under services/scheduling, and the token lookup of services/ingestion   *)
(* (middleware/tenant.go, tokenstore.go).                                  *)
(*                                                                         *)
(* The scheduling service keeps the tokens in Postgres and an index of     *)
(* them in Redis, which has no persistence; the ingestion service reads    *)
(* the index only.  Every write goes to the two stores one after the       *)
(* other, and a starting replica copies the table into the index while     *)
(* other replicas serve requests.  A token is identified with its hash.    *)
(***************************************************************************)
EXTENDS Naturals, FiniteSets

CONSTANTS
    Tenants,    \* tenant slugs
    Hashes,     \* token hashes generateToken may produce
    Replicas,   \* processes of the scheduling service
    Handlers,   \* HTTP request goroutines
    ReplicaOf,  \* ReplicaOf[h]: the process request h runs in
    None,       \* no tenant
    MaxFaults   \* bound: failed calls, crashes and restarts of Redis

ASSUME NoneAssumption == None \notin Tenants
ASSUME ReplicasAssumption == ReplicaOf \in [Handlers -> Replicas]
ASSUME BoundsAssumption == MaxFaults \in Nat

VARIABLES
    tenants,   \* scheduling.tenants
    owner,     \* tenant_webhook_tokens: the tenant of a token ever issued
    live,      \* the tokens that are in the table now
    index,     \* Redis: oncall:tokens:{hash} -> tenant
    phase,     \* each replica: "down", "load", "copy" or "serving"
    hasIndex,  \* each replica: whether it got a Redis client when it started
    entries,   \* the rows a starting replica read for the rehydration
    pc,        \* the next call of each request
    tok,       \* the token of the request
    \* what the properties compare with:
    missed,    \* revoked tokens whose Del failed or which were indexed again
    whole,     \* nothing was lost from the index since a replica filled it
    clean,     \* each replica: nothing was lost since it read the table
    faults     \* faults so far (bounded by MaxFaults)

db == <<tenants, owner, live>>
replicas == <<phase, hasIndex, entries>>
jobs == <<pc, tok>>
ghosts == <<missed, whole, clean>>
vars == <<db, index, replicas, jobs, ghosts, faults>>

Revoked(k) == owner[k] # None /\ k \notin live
Serving(h) == phase[ReplicaOf[h]] = "serving"
Ready(h) == Serving(h) /\ pc[h] = "idle"
Fault == faults < MaxFaults /\ faults' = faults + 1

Goto(h, l, k) ==
    /\ pc' = [pc EXCEPT ![h] = l]
    /\ tok' = [tok EXCEPT ![h] = k]

\* Faulty form of the next definition: the request never ends.
FinishHalf(h) == Goto(h, "done", None)

Finish(h) == Goto(h, "idle", None)

\* An entry that ought to be in the index may have got lost.
Lose == whole' = FALSE /\ clean' = [r \in Replicas |-> FALSE]

(***************************************************************************)
(* Tenants.  Tokens refer to a tenant by its slug, without a foreign key:  *)
(* neither creating nor deleting a tenant looks at them.                   *)
(***************************************************************************)

CreateTenant(t) ==
    /\ t \notin tenants
    /\ tenants' = tenants \cup {t}
    /\ UNCHANGED <<owner, live, index, replicas, jobs, ghosts, faults>>

DeleteTenant(t) ==
    /\ t \in tenants
    /\ tenants' = tenants \ {t}
    /\ UNCHANGED <<owner, live, index, replicas, jobs, ghosts, faults>>

(***************************************************************************)
(* Webhook tokens.                                                         *)
(***************************************************************************)

\* The row is inserted under the tenant of the URL, whether that exists or not.
\* Without a Redis client the index is not written.
CreateWebhookToken(h, t, k) ==
    /\ Ready(h) /\ owner[k] = None
    /\ owner' = [owner EXCEPT ![k] = t]
    /\ live' = live \cup {k}
    /\ \/ hasIndex[ReplicaOf[h]] /\ Goto(h, "set", k) /\ UNCHANGED ghosts
       \/ ~hasIndex[ReplicaOf[h]] /\ Lose /\ UNCHANGED <<missed, jobs>>
    /\ UNCHANGED <<tenants, index, replicas, faults>>

\* The value written for a token: the slug the request or the row carries.
Written(k) == owner[k]

\* Faulty form of the next definition: the token is handed out without the Set.
IndexSetDropped(h) ==
    /\ pc[h] = "set"
    /\ Finish(h)
    /\ UNCHANGED <<db, index, replicas, ghosts, faults>>

\* A failed Set is logged and the token handed out all the same.
IndexSet(h) ==
    /\ pc[h] = "set"
    /\ \/ /\ index' = [index EXCEPT ![tok[h]] = Written(tok[h])]
          /\ missed' = IF Revoked(tok[h]) THEN missed \cup {tok[h]} ELSE missed
          /\ UNCHANGED <<whole, clean, faults>>
       \/ Fault /\ Lose /\ UNCHANGED <<index, missed>>
    /\ Finish(h)
    /\ UNCHANGED <<db, replicas>>

\* Faulty form of the next definition: the index entry is left to the next restart.
DeleteWithoutIndex(h, t, k) ==
    /\ Ready(h) /\ k \in live /\ owner[k] = t
    /\ live' = live \ {k}
    /\ UNCHANGED <<tenants, owner, index, replicas, jobs, ghosts, faults>>

\* DELETE by id and tenant returns the hash; otherwise 404.
DeleteWebhookToken(h, t, k) ==
    /\ Ready(h) /\ k \in live /\ owner[k] = t
    /\ live' = live \ {k}
    /\ \/ hasIndex[ReplicaOf[h]] /\ Goto(h, "del", k) /\ UNCHANGED missed
       \/ ~hasIndex[ReplicaOf[h]] /\ missed' = missed \cup {k} /\ UNCHANGED jobs
    /\ UNCHANGED <<tenants, owner, index, replicas, whole, clean, faults>>

\* A failed Del is logged and the request answered 204.
IndexDel(h) ==
    /\ pc[h] = "del"
    /\ \/ index' = [index EXCEPT ![tok[h]] = None] /\ UNCHANGED <<missed, faults>>
       \/ Fault /\ missed' = missed \cup {tok[h]} /\ UNCHANGED index
    /\ Finish(h)
    /\ UNCHANGED <<db, replicas, whole, clean>>

\* The middleware Tenant of the ingestion service: the tenant whose alert a webhook
\* with this token becomes, or None (401).
Resolve(k) == index[k]

(***************************************************************************)
(* The start of a replica, before it listens.                              *)
(***************************************************************************)

\* Without Redis the replica serves with the index disabled until it is restarted.
Start(r) ==
    /\ phase[r] = "down"
    /\ \/ /\ phase' = [phase EXCEPT ![r] = "load"]
          /\ hasIndex' = [hasIndex EXCEPT ![r] = TRUE]
          /\ UNCHANGED faults
       \/ /\ Fault
          /\ phase' = [phase EXCEPT ![r] = "serving"]
          /\ hasIndex' = [hasIndex EXCEPT ![r] = FALSE]
    /\ UNCHANGED <<db, index, entries, jobs, ghosts>>

\* ListWebhookTokenHashes; when it fails the rehydration is skipped.
ListWebhookTokenHashes(r) ==
    /\ phase[r] = "load"
    /\ \/ /\ entries' = [entries EXCEPT ![r] = live]
          /\ clean' = [clean EXCEPT ![r] = TRUE]
          /\ phase' = [phase EXCEPT ![r] = "copy"]
          /\ UNCHANGED faults
       \/ /\ Fault
          /\ phase' = [phase EXCEPT ![r] = "serving"]
          /\ UNCHANGED <<entries, clean>>
    /\ UNCHANGED <<db, index, hasIndex, jobs, missed, whole>>

\* SetMany: one pipeline of sets, nothing is removed; when it fails, some of the
\* sets may have been executed.
SetMany(r) ==
    /\ phase[r] = "copy"
    /\ \/ /\ index' = [k \in Hashes |-> IF k \in entries[r] THEN Written(k) ELSE index[k]]
          /\ missed' = missed \cup {k \in entries[r] : Revoked(k)}
          /\ whole' = (whole \/ clean[r])
          /\ UNCHANGED faults
       \/ /\ Fault
          /\ \E part \in SUBSET entries[r] :
                /\ index' = [k \in Hashes |-> IF k \in part THEN Written(k) ELSE index[k]]
                /\ missed' = missed \cup {k \in part : Revoked(k)}
          /\ UNCHANGED whole
    /\ phase' = [phase EXCEPT ![r] = "serving"]
    /\ entries' = [entries EXCEPT ![r] = {}]
    /\ UNCHANGED <<db, hasIndex, jobs, clean>>

(***************************************************************************)
(* Failures.                                                               *)
(***************************************************************************)

\* The process ends, by a crash or a deployment; its requests end where they are.
Crash(r) ==
    LET cut == {h \in Handlers : ReplicaOf[h] = r}
    IN /\ phase[r] # "down" /\ Fault
       /\ phase' = [phase EXCEPT ![r] = "down"]
       /\ entries' = [entries EXCEPT ![r] = {}]
       /\ pc' = [h \in Handlers |-> IF h \in cut THEN "idle" ELSE pc[h]]
       /\ tok' = [h \in Handlers |-> IF h \in cut THEN None ELSE tok[h]]
       /\ missed' = missed \cup {tok[h] : h \in {g \in cut : pc[g] = "del"}}
       /\ IF \E h \in cut : pc[h] = "set" THEN Lose ELSE UNCHANGED <<whole, clean>>
       /\ UNCHANGED <<db, index, hasIndex>>

\* Redis restarts empty.
RedisRestart ==
    /\ Fault
    /\ index' = [k \in Hashes |-> None]
    /\ Lose
    /\ UNCHANGED <<db, replicas, jobs, missed>>

\* The first replica starts on an empty table and an empty index.
Init ==
    /\ tenants = {}
    /\ owner = [k \in Hashes |-> None]
    /\ live = {}
    /\ index = [k \in Hashes |-> None]
    /\ phase = [r \in Replicas |-> "down"]
    /\ hasIndex = [r \in Replicas |-> FALSE]
    /\ entries = [r \in Replicas |-> {}]
    /\ pc = [h \in Handlers |-> "idle"]
    /\ tok = [h \in Handlers |-> None]
    /\ missed = {}
    /\ whole = TRUE
    /\ clean = [r \in Replicas |-> FALSE]
    /\ faults = 0

Startup(r) == Start(r) \/ ListWebhookTokenHashes(r) \/ SetMany(r)
Handle(h) == IndexSet(h) \/ IndexDel(h)

Next ==
    \/ \E t \in Tenants : CreateTenant(t) \/ DeleteTenant(t)
    \/ \E h \in Handlers, t \in Tenants, k \in Hashes :
          CreateWebhookToken(h, t, k) \/ DeleteWebhookToken(h, t, k)
    \/ \E h \in Handlers : Handle(h)
    \/ \E r \in Replicas : Startup(r) \/ Crash(r)
    \/ RedisRestart

Spec == Init /\ [][Next]_vars

\* Processes are started again when they end, and go on; no request is owed.
FairSpec ==
    /\ Spec
    /\ \A r \in Replicas : WF_vars(Startup(r))
    /\ \A h \in Handlers : WF_vars(Handle(h))

-----------------------------------------------------------------------------
(***************************************************************************)
(* Properties.                                                             *)
(***************************************************************************)

\* Every variable keeps the shape the tables, the index and the requests have.
TypeOK ==
    /\ tenants \subseteq Tenants
    /\ owner \in [Hashes -> Tenants \cup {None}]
    /\ live \subseteq {k \in Hashes : owner[k] # None}
    /\ index \in [Hashes -> Tenants \cup {None}]
    /\ phase \in [Replicas -> {"down", "load", "copy", "serving"}]
    /\ hasIndex \in [Replicas -> BOOLEAN]
    /\ entries \in [Replicas -> SUBSET Hashes]
    /\ pc \in [Handlers -> {"idle", "set", "del"}]
    /\ tok \in [Handlers -> Hashes \cup {None}]
    /\ missed \subseteq Hashes /\ whole \in BOOLEAN /\ clean \in [Replicas -> BOOLEAN]
    /\ faults \in Nat

\* A revoked token goes on being accepted only while its Del is on the way, or after
\* its Del failed, was never sent (the process ended, or runs without the index) or was
\* overtaken by a Set that was on the way or by the copying of a starting replica.
RevokedOnlyAcceptedIfMissed ==
    \A k \in Hashes : Revoked(k) /\ Resolve(k) # None =>
        k \in missed \/ \E h \in Handlers : pc[h] = "del" /\ tok[h] = k

\* A token in the table is accepted unless its Set is on the way or entries were lost
\* since the table was last copied; a replica that reads the table after the loss and
\* copies it makes the index whole again, with requests of other replicas running.
WholeIndexAcceptsLive ==
    whole => \A k \in live :
        Resolve(k) # None \/ \E h \in Handlers : pc[h] = "set" /\ tok[h] = k

\* A revoked token is refused in the end, unless its Del was missed as above.
RevocationTakesEffect ==
    \A k \in Hashes : Revoked(k) ~> (Resolve(k) = None \/ k \in missed)
=============================================================================
