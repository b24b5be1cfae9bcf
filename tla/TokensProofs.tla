---------------------------- MODULE TokensProofs ----------------------------
(***************************************************************************)
(* Proofs about Tokens, for any number of tenants, tokens, replicas and    *)
(* requests and without the bound of the TLC run.                          *)
(***************************************************************************)
EXTENDS Tokens, TLAPS

(***************************************************************************)
(* What the two properties of the index rest on.                           *)
(***************************************************************************)

\* A token on its way into the index was issued, one on its way out was revoked, and
\* a replica copies only tokens that were issued.
TokensOnTheWay ==
    /\ \A h \in Handlers : /\ pc[h] = "set" => tok[h] \in Hashes /\ owner[tok[h]] # None
                           /\ pc[h] = "del" => tok[h] \in Hashes /\ Revoked(tok[h])
    /\ \A r \in Replicas : \A k \in entries[r] : owner[k] # None

\* The index has the token, or will have it when a request goes on.
Indexed(k) == Resolve(k) # None \/ \E h \in Handlers : pc[h] = "set" /\ tok[h] = k

\* When nothing was lost since a starting replica read the table, what it did not read
\* is indexed by whoever created it meanwhile.
CopyMissesNothing ==
    \A r \in Replicas : phase[r] = "copy" /\ clean[r] =>
        \A k \in live \ entries[r] : Indexed(k)

TokensInv ==
    /\ TypeOK /\ TokensOnTheWay /\ CopyMissesNothing
    /\ RevokedOnlyAcceptedIfMissed /\ WholeIndexAcceptsLive

\* Before the first replica starts there is no token anywhere.
LEMMA TokensInit == Init => TokensInv
PROOF
  BY NoneAssumption DEF Init, TokensInv, TypeOK, TokensOnTheWay, CopyMissesNothing, Indexed,
     RevokedOnlyAcceptedIfMissed, WholeIndexAcceptsLive, Revoked, Resolve

\* The Boolean columns of the state stay Boolean.
LEMMA FlagsStep ==
    ASSUME TypeOK, [Next]_vars
    PROVE  /\ hasIndex' \in [Replicas -> BOOLEAN]
           /\ clean' \in [Replicas -> BOOLEAN]
           /\ whole' \in BOOLEAN
PROOF
  <1> DEFINE Flags == /\ hasIndex \in [Replicas -> BOOLEAN]
                      /\ clean \in [Replicas -> BOOLEAN]
                      /\ whole \in BOOLEAN
  <1> USE DEF db, replicas, jobs, ghosts, Lose
  <1>0. Flags
    BY DEF TypeOK
  <1>1. ASSUME UNCHANGED <<hasIndex, clean, whole>>
        PROVE  Flags'
    BY <1>0, <1>1
  <1>2. ASSUME UNCHANGED hasIndex, Lose
        PROVE  Flags'
    BY <1>0, <1>2, Zenon
  <1>3. ASSUME NEW r \in Replicas, Start(r)
        PROVE  Flags'
    BY <1>0, <1>3, Zenon DEF Start
  <1>4. ASSUME NEW r \in Replicas, ListWebhookTokenHashes(r)
        PROVE  Flags'
    BY <1>0, <1>4, Zenon DEF ListWebhookTokenHashes
  <1>5. ASSUME NEW r \in Replicas, SetMany(r)
        PROVE  Flags'
    BY <1>0, <1>5, Zenon DEF SetMany
  <1>6. ASSUME NEW r \in Replicas, Crash(r)
        PROVE  Flags'
    BY <1>1, <1>2, <1>6 DEF Crash
  <1>7. ASSUME NEW h \in Handlers, Handle(h)
        PROVE  Flags'
    BY <1>1, <1>2, <1>7 DEF Handle, IndexSet, IndexDel
  <1>8. ASSUME NEW h \in Handlers, NEW t \in Tenants, NEW k \in Hashes,
               CreateWebhookToken(h, t, k) \/ DeleteWebhookToken(h, t, k)
        PROVE  Flags'
    BY <1>1, <1>2, <1>8 DEF CreateWebhookToken, DeleteWebhookToken
  <1>9. ASSUME NEW t \in Tenants, CreateTenant(t) \/ DeleteTenant(t)
        PROVE  Flags'
    BY <1>1, <1>9 DEF CreateTenant, DeleteTenant
  <1>10. CASE RedisRestart
    BY <1>2, <1>10 DEF RedisRestart
  <1>11. CASE UNCHANGED vars
    BY <1>1, <1>11 DEF vars
  <1> QED
    BY <1>3, <1>4, <1>5, <1>6, <1>7, <1>8, <1>9, <1>10, <1>11 DEF Next, Startup

\* When entries got lost, the index counts as whole nowhere.
LEMMA LoseClears == Lose => ~whole' /\ \A r \in Replicas : ~clean'[r]
PROOF
  BY Zenon DEF Lose

\* Every step of a request, of a starting replica and of a failure keeps TokensInv.
LEMMA TokensStep == TokensInv /\ [Next]_vars => TokensInv'
PROOF
  <1> SUFFICES ASSUME TokensInv, [Next]_vars
               PROVE  TokensInv'
    OBVIOUS
  <1> USE NoneAssumption, ReplicasAssumption
      DEF TokensInv, TypeOK, TokensOnTheWay, CopyMissesNothing, Indexed,
          RevokedOnlyAcceptedIfMissed, WholeIndexAcceptsLive, Revoked, Resolve,
          db, replicas, jobs, ghosts, Fault
  <1>0. /\ hasIndex' \in [Replicas -> BOOLEAN] /\ clean' \in [Replicas -> BOOLEAN]
        /\ whole' \in BOOLEAN
    BY FlagsStep
  <1>1. ASSUME NEW t \in Tenants, CreateTenant(t) \/ DeleteTenant(t)
        PROVE  TokensInv'
    BY <1>1 DEF CreateTenant, DeleteTenant
  <1>2. ASSUME NEW h \in Handlers, NEW t \in Tenants, NEW k \in Hashes,
               CreateWebhookToken(h, t, k)
        PROVE  TokensInv'
    <2>1. TypeOK'
      BY <1>0, <1>2 DEF CreateWebhookToken, Ready, Goto
    <2>2. TokensOnTheWay'
      BY <1>2 DEF CreateWebhookToken, Ready, Goto
    <2>3. RevokedOnlyAcceptedIfMissed'
      BY <1>2 DEF CreateWebhookToken, Ready, Goto
    <2>4. WholeIndexAcceptsLive'
      <3>1. CASE Goto(h, "set", k) /\ UNCHANGED ghosts
        BY <1>2, <3>1 DEF CreateWebhookToken, Ready, Goto
      <3>2. CASE Lose
        BY <3>2, LoseClears
      <3> QED
        BY <1>2, <3>1, <3>2 DEF CreateWebhookToken
    <2>5. CopyMissesNothing'
      BY <1>2, LoseClears DEF CreateWebhookToken, Ready, Goto
    <2> QED
      BY <2>1, <2>2, <2>3, <2>4, <2>5
  <1>3. ASSUME NEW h \in Handlers, NEW t \in Tenants, NEW k \in Hashes,
               DeleteWebhookToken(h, t, k)
        PROVE  TokensInv'
    BY <1>3 DEF DeleteWebhookToken, Ready, Goto
  <1>4. ASSUME NEW h \in Handlers, IndexSet(h)
        PROVE  TokensInv'
    <2>1. TypeOK'
      BY <1>0, <1>4 DEF IndexSet, Written, Finish, Goto
    <2>2. TokensOnTheWay'
      BY <1>4 DEF IndexSet, Written, Finish, Goto
    <2>3. RevokedOnlyAcceptedIfMissed'
      BY <1>4 DEF IndexSet, Written, Finish, Goto
    <2>4. WholeIndexAcceptsLive'
      <3>1. CASE /\ index' = [index EXCEPT ![tok[h]] = Written(tok[h])]
                 /\ UNCHANGED <<whole, clean, faults>>
        BY <1>4, <3>1 DEF IndexSet, Written, Finish, Goto
      <3>2. CASE Lose
        BY <3>2, LoseClears
      <3> QED
        BY <1>4, <3>1, <3>2 DEF IndexSet
    <2>5. CopyMissesNothing'
      BY <1>4, LoseClears DEF IndexSet, Written, Finish, Goto
    <2> QED
      BY <2>1, <2>2, <2>3, <2>4, <2>5
  <1>5. ASSUME NEW h \in Handlers, IndexDel(h)
        PROVE  TokensInv'
    BY <1>5 DEF IndexDel, Finish, Goto
  <1>6. ASSUME NEW r \in Replicas, Start(r)
        PROVE  TokensInv'
    <2>1. TypeOK'
      BY <1>0, <1>6 DEF Start
    <2>2. TokensOnTheWay'
      BY <1>6 DEF Start
    <2>3. RevokedOnlyAcceptedIfMissed'
      BY <1>6 DEF Start
    <2>4. WholeIndexAcceptsLive'
      BY <1>6 DEF Start
    <2>5. CopyMissesNothing'
      BY <1>6 DEF Start
    <2> QED
      BY <2>1, <2>2, <2>3, <2>4, <2>5
  <1>7. ASSUME NEW r \in Replicas, ListWebhookTokenHashes(r)
        PROVE  TokensInv'
    <2>1. TypeOK'
      BY <1>0, <1>7 DEF ListWebhookTokenHashes
    <2>2. TokensOnTheWay'
      BY <1>7 DEF ListWebhookTokenHashes
    <2>3. RevokedOnlyAcceptedIfMissed'
      BY <1>7 DEF ListWebhookTokenHashes
    <2>4. WholeIndexAcceptsLive'
      BY <1>7 DEF ListWebhookTokenHashes
    <2>5. CopyMissesNothing'
      BY <1>7 DEF ListWebhookTokenHashes
    <2> QED
      BY <2>1, <2>2, <2>3, <2>4, <2>5
  <1>8. ASSUME NEW r \in Replicas, SetMany(r)
        PROVE  TokensInv'
    BY <1>8 DEF SetMany, Written
  <1>9. ASSUME NEW r \in Replicas, Crash(r)
        PROVE  TokensInv'
    <2>1. TypeOK'
      BY <1>0, <1>9 DEF Crash
    <2>2. TokensOnTheWay'
      BY <1>9 DEF Crash
    <2>3. RevokedOnlyAcceptedIfMissed'
      BY <1>9 DEF Crash
    <2>4. WholeIndexAcceptsLive'
      BY <1>9, LoseClears DEF Crash
    <2>5. CopyMissesNothing'
      BY <1>9, LoseClears DEF Crash
    <2> QED
      BY <2>1, <2>2, <2>3, <2>4, <2>5
  <1>10. CASE RedisRestart
    <2>1. TypeOK'
      BY <1>0, <1>10 DEF RedisRestart
    <2>2. TokensOnTheWay'
      BY <1>10 DEF RedisRestart
    <2>3. RevokedOnlyAcceptedIfMissed'
      BY <1>10 DEF RedisRestart
    <2>4. WholeIndexAcceptsLive'
      BY <1>10, LoseClears DEF RedisRestart
    <2>5. CopyMissesNothing'
      BY <1>10, LoseClears DEF RedisRestart
    <2> QED
      BY <2>1, <2>2, <2>3, <2>4, <2>5
  <1>11. CASE UNCHANGED vars
    BY <1>11 DEF vars
  <1> QED
    BY <1>1, <1>2, <1>3, <1>4, <1>5, <1>6, <1>7, <1>8, <1>9, <1>10, <1>11
    DEF Next, Handle, Startup

\* The reachable states satisfy the strengthened invariant.
LEMMA TokensInvariant == Spec => []TokensInv
PROOF
  <1> QED
    BY TokensInit, TokensStep, PTL DEF Spec
-----------------------------------------------------------------------------
(***************************************************************************)
(* The theorems.                                                           *)
(***************************************************************************)

\* The table, the index and the requests keep their shape: whatever fails, what a
\* webhook's token resolves to is a tenant or nothing.
THEOREM TokensTypeCorrect == Spec => []TypeOK
PROOF
  <1>1. TokensInv => TypeOK
    BY DEF TokensInv
  <1> QED
    BY <1>1, TokensInvariant, PTL

\* DeleteWebhookToken, SetMany and a late Set may interleave in any order over any
\* number of replicas: a revoked token is accepted only if its Del is on the way or was
\* missed.
THEOREM RevocationHolds == Spec => []RevokedOnlyAcceptedIfMissed
PROOF
  <1>1. TokensInv => RevokedOnlyAcceptedIfMissed
    BY DEF TokensInv
  <1> QED
    BY <1>1, TokensInvariant, PTL

\* Rehydrating the index while other replicas create and delete tokens makes it whole
\* again: every token of the table is accepted, or its Set is on the way.
THEOREM RehydrationComplete == Spec => []WholeIndexAcceptsLive
PROOF
  <1>1. TokensInv => WholeIndexAcceptsLive
    BY DEF TokensInv
  <1> QED
    BY <1>1, TokensInvariant, PTL
=============================================================================
