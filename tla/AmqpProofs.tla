----------------------------- MODULE AmqpProofs -----------------------------
(***************************************************************************)
(* Proofs about Amqp, for any number of publishers, any number of attempts *)
(* and without the bound on faults of the TLC run.                         *)
(***************************************************************************)
EXTENDS Amqp, FiniteSetTheorems, TLAPS

(***************************************************************************)
(* The inductive invariant.                                                *)
(***************************************************************************)

PCs == {"idle", "publish", "send", "channel", "lock", "dial", "backoff", "again", "open",
        "subscribe", "consume", "handle", "retry", "done"}
Results == {"", "ok", "cancelled", "error"}

\* Connection numbers are never beyond the last one dialled, so a connection that has
\* ended is never alive again.
Numbers ==
    /\ dialled \in Nat /\ cur \in 1 .. dialled /\ alive \subseteq 1 .. dialled
    /\ pch \in 0 .. dialled /\ cch \in 0 .. dialled
    /\ \A g \in Goroutines : on[g] \in 0 .. dialled

Shapes ==
    /\ pc \in [Goroutines -> PCs] /\ on \in [Goroutines -> Nat]
    /\ reconnect \in Goroutines \cup {None} /\ mu \in Publishers \cup {None}
    /\ tries \in [Publishers -> Nat] /\ \A g \in Publishers : tries[g] < PublishAttempts
    /\ result \in [Publishers -> Results]
    /\ unacked \in Publishers \cup {None} /\ inhand \in Publishers \cup {None}
    /\ wire \subseteq Publishers \X Nat /\ queue \subseteq Publishers

\* The two locks are held by the goroutine that is between taking and releasing them.
LocksHeld ==
    /\ \A g \in Publishers : mu = g <=> pc[g] \notin {"idle", "publish", "retry", "done"}
    /\ \A g \in Goroutines : pc[g] \in {"dial", "backoff"} <=> reconnect = g

\* Only the connection in use is open, and none while a goroutine dials.
OneDials ==
    /\ alive \subseteq {cur}
    /\ reconnect # None => alive = {}

\* The broker waits for an answer only while the handler runs on an open channel, and
\* then for the message the handler has.
Delivery ==
    /\ inhand # None <=> At(Consumer, "handle")
    /\ unacked # None => At(Consumer, "handle") /\ cch \in alive
    /\ At(Consumer, "handle") /\ cch \in alive => unacked = inhand

AmqpInv == Numbers /\ Shapes /\ LocksHeld /\ OneDials /\ Delivery /\ AcceptedNotLost

\* Every step keeps AmqpInv.
LEMMA AmqpStep == AmqpInv /\ [Next]_vars => AmqpInv'
PROOF
  <1> SUFFICES ASSUME AmqpInv, [Next]_vars
               PROVE  AmqpInv'
    OBVIOUS
  <1>0. Numbers /\ Shapes /\ LocksHeld /\ OneDials /\ Delivery /\ AcceptedNotLost
    BY DEF AmqpInv
  <1>a. /\ PublishAttempts \in Nat /\ dialled \in Nat /\ cur \in Nat /\ pch \in Nat
         /\ cch \in Nat /\ dialled + 1 \in Nat
    BY <1>0, AttemptsAssumption DEF Numbers
  <1> USE ConsumerAssumption
      DEF Goroutines, At, Goto, client, publisher, consumer, control, run, broker
  <1>1. ASSUME NEW g \in Publishers, Publish(g)
        PROVE  AmqpInv'
    <2>1. Numbers'
      BY <1>0, <1>1 DEF Numbers, Shapes, Publish
    <2>2. Shapes'
      BY <1>0, <1>1 DEF Shapes, PCs, Results, Publish
    <2>3. LocksHeld'
      BY <1>0, <1>1 DEF Shapes, LocksHeld, Publish
    <2>4. OneDials'
      BY <1>0, <1>1 DEF Shapes, Numbers, LocksHeld, OneDials, Publish
    <2>5. Delivery'
      BY <1>0, <1>1 DEF Shapes, Numbers, Delivery, Publish
    <2>6. AcceptedNotLost'
      BY <1>0, <1>1 DEF Shapes, Numbers, Delivery, AcceptedNotLost, Publish
    <2> QED
      BY <2>1, <2>2, <2>3, <2>4, <2>5, <2>6 DEF AmqpInv
  <1>2. ASSUME NEW g \in Publishers, Lock(g)
        PROVE  AmqpInv'
    <2>1. Numbers'
      BY <1>0, <1>2 DEF Numbers, Shapes, Lock
    <2>2. Shapes'
      BY <1>0, <1>2 DEF Shapes, PCs, Results, Lock
    <2>3. LocksHeld'
      BY <1>0, <1>2 DEF Shapes, LocksHeld, Lock
    <2>4. OneDials'
      BY <1>0, <1>2 DEF Shapes, Numbers, LocksHeld, OneDials, Lock
    <2>5. Delivery'
      BY <1>0, <1>2 DEF Shapes, Numbers, Delivery, Lock
    <2>6. AcceptedNotLost'
      BY <1>0, <1>2 DEF Shapes, Numbers, Delivery, AcceptedNotLost, Lock
    <2> QED
      BY <2>1, <2>2, <2>3, <2>4, <2>5, <2>6 DEF AmqpInv
  <1>3. ASSUME NEW g \in Publishers, Send(g)
        PROVE  AmqpInv'
    <2>1. Numbers'
      BY <1>0, <1>3 DEF Numbers, Shapes, Send, Returns, Fails, Fault
    <2>2. Shapes'
      <3>1. /\ pc' \in [Goroutines -> PCs] /\ mu' \in Publishers \cup {None}
            /\ result' \in [Publishers -> Results]
        BY <1>0, <1>3 DEF Shapes, PCs, Results, Send, Returns, Fails
      <3>2. wire' \subseteq Publishers \X Nat
        BY <1>0, <1>a, <1>3 DEF Shapes, Send
      <3> QED
        BY <1>0, <1>3, <3>1, <3>2 DEF Shapes, Send
    <2>3. LocksHeld'
      BY <1>0, <1>3 DEF Shapes, LocksHeld, Send, Returns, Fails, Fault
    <2>4. OneDials'
      BY <1>0, <1>3 DEF Shapes, Numbers, LocksHeld, OneDials, Send, Returns, Fails, Fault
    <2>5. Delivery'
      BY <1>0, <1>3 DEF Shapes, Numbers, Delivery, Send, Returns, Fails, Fault
    <2>6. AcceptedNotLost'
      BY <1>0, <1>3 DEF Shapes, Numbers, Delivery, AcceptedNotLost, Send, Returns, Fails, Fault
    <2> QED
      BY <2>1, <2>2, <2>3, <2>4, <2>5, <2>6 DEF AmqpInv
  <1>4. ASSUME NEW g \in Publishers, Retry(g)
        PROVE  AmqpInv'
    <2>1. Numbers'
      BY <1>0, <1>4 DEF Numbers, Shapes, Retry, Returns
    <2>2. Shapes'
      <3>1. pc' \in [Goroutines -> PCs] /\ result' \in [Publishers -> Results]
        BY <1>0, <1>4 DEF Shapes, PCs, Results, Retry, Returns
      <3>2. tries' \in [Publishers -> Nat] /\ \A p \in Publishers : tries'[p] < PublishAttempts
        BY <1>0, <1>a, <1>4 DEF Shapes, Retry
      <3> QED
        BY <1>0, <1>4, <3>1, <3>2 DEF Shapes, Retry
    <2>3. LocksHeld'
      BY <1>0, <1>4 DEF Shapes, LocksHeld, Retry, Returns
    <2>4. OneDials'
      BY <1>0, <1>4 DEF Shapes, Numbers, LocksHeld, OneDials, Retry, Returns
    <2>5. Delivery'
      BY <1>0, <1>4 DEF Shapes, Numbers, Delivery, Retry, Returns
    <2>6. AcceptedNotLost'
      BY <1>0, <1>4 DEF Shapes, Numbers, Delivery, AcceptedNotLost, Retry, Returns
    <2> QED
      BY <2>1, <2>2, <2>3, <2>4, <2>5, <2>6 DEF AmqpInv
  <1>5. ASSUME NEW g \in Publishers, Cancel(g)
        PROVE  AmqpInv'
    <2>1. Numbers'
      BY <1>0, <1>5 DEF Numbers, Shapes, Cancel, Fault
    <2>2. Shapes'
      BY <1>0, <1>5 DEF Shapes, PCs, Results, Cancel, Fault
    <2>3. LocksHeld'
      BY <1>0, <1>5 DEF Shapes, LocksHeld, Cancel, Fault
    <2>4. OneDials'
      BY <1>0, <1>5 DEF Shapes, Numbers, LocksHeld, OneDials, Cancel, Fault
    <2>5. Delivery'
      BY <1>0, <1>5 DEF Shapes, Numbers, Delivery, Cancel, Fault
    <2>6. AcceptedNotLost'
      BY <1>0, <1>5 DEF Shapes, Numbers, Delivery, AcceptedNotLost, Cancel, Fault
    <2> QED
      BY <2>1, <2>2, <2>3, <2>4, <2>5, <2>6 DEF AmqpInv
  <1>6. ASSUME NEW g \in Goroutines, Current(g)
        PROVE  AmqpInv'
    <2>1. Numbers'
      BY <1>0, <1>6 DEF Numbers, Shapes, Current
    <2>2. Shapes'
      <3>1. pc' \in [Goroutines -> PCs]
        BY <1>0, <1>6 DEF Shapes, PCs, Current
      <3>2. on' \in [Goroutines -> Nat]
        BY <1>0, <1>a, <1>6 DEF Shapes, Current
      <3> QED
        BY <1>0, <1>6, <3>1, <3>2 DEF Shapes, Current
    <2>3. LocksHeld'
      BY <1>0, <1>6 DEF Shapes, LocksHeld, Current
    <2>4. OneDials'
      BY <1>0, <1>6 DEF Shapes, Numbers, LocksHeld, OneDials, Current
    <2>5. Delivery'
      BY <1>0, <1>6 DEF Shapes, Numbers, Delivery, Current
    <2>6. AcceptedNotLost'
      BY <1>0, <1>6 DEF Shapes, Numbers, Delivery, AcceptedNotLost, Current
    <2> QED
      BY <2>1, <2>2, <2>3, <2>4, <2>5, <2>6 DEF AmqpInv
  <1>7. ASSUME NEW g \in Goroutines, Open(g)
        PROVE  AmqpInv'
    <2>1. Numbers'
      BY <1>0, <1>7 DEF Numbers, Shapes, Open, Fails
    <2>2. Shapes'
      BY <1>0, <1>7 DEF Shapes, PCs, Results, Open, Fails
    <2>3. LocksHeld'
      BY <1>0, <1>7 DEF Shapes, LocksHeld, Open, Fails
    <2>4. OneDials'
      BY <1>0, <1>7 DEF Shapes, Numbers, LocksHeld, OneDials, Open, Fails
    <2>5. Delivery'
      BY <1>0, <1>7 DEF Shapes, Numbers, Delivery, Open, Fails
    <2>6. AcceptedNotLost'
      BY <1>0, <1>7 DEF Shapes, Numbers, Delivery, AcceptedNotLost, Open, Fails
    <2> QED
      BY <2>1, <2>2, <2>3, <2>4, <2>5, <2>6 DEF AmqpInv
  <1>8. ASSUME NEW g \in Goroutines, Reconnect(g)
        PROVE  AmqpInv'
    <2>1. Numbers'
      BY <1>0, <1>8 DEF Numbers, Shapes, Reconnect
    <2>2. Shapes'
      BY <1>0, <1>8 DEF Shapes, PCs, Results, Reconnect
    <2>3. LocksHeld'
      BY <1>0, <1>8 DEF Shapes, LocksHeld, Reconnect
    <2>4. OneDials'
      BY <1>0, <1>8 DEF Shapes, Numbers, LocksHeld, OneDials, Reconnect
    <2>5. Delivery'
      BY <1>0, <1>8 DEF Shapes, Numbers, Delivery, Reconnect
    <2>6. AcceptedNotLost'
      BY <1>0, <1>8 DEF Shapes, Numbers, Delivery, AcceptedNotLost, Reconnect
    <2> QED
      BY <2>1, <2>2, <2>3, <2>4, <2>5, <2>6 DEF AmqpInv
  <1>9. ASSUME NEW g \in Goroutines, Dial(g)
        PROVE  AmqpInv'
    <2>1. Numbers'
      <3>1. dialled' \in {dialled, dialled + 1} /\ dialled \in Nat
        BY <1>0, <1>9 DEF Numbers, Dial
      <3>2. 0 .. dialled \subseteq 0 .. dialled' /\ 1 .. dialled \subseteq 1 .. dialled'
        BY <3>1
      <3>3. CASE up
        <4>1. /\ dialled' = dialled + 1 /\ cur' = dialled + 1
              /\ alive' = alive \cup {dialled + 1} /\ UNCHANGED <<pch, cch, on>>
          BY <1>9, <3>3 DEF Dial
        <4>2. dialled + 1 \in 1 .. dialled'
          BY <3>1, <4>1
        <4>3. dialled' \in Nat /\ cur' \in 1 .. dialled' /\ alive' \subseteq 1 .. dialled'
          BY <1>0, <3>1, <3>2, <4>1, <4>2 DEF Numbers
        <4>4. /\ pch' \in 0 .. dialled' /\ cch' \in 0 .. dialled'
              /\ \A h \in Goroutines : on'[h] \in 0 .. dialled'
          <5> HIDE DEF Numbers
          <5>1. /\ pch \in 0 .. dialled /\ cch \in 0 .. dialled
                /\ \A h \in Goroutines : on[h] \in 0 .. dialled
            BY <1>0 DEF Numbers
          <5> QED
            BY <3>2, <4>1, <5>1
        <4> QED
          BY <4>3, <4>4 DEF Numbers
      <3>4. CASE ~up
        BY <1>0, <1>9, <3>4 DEF Numbers, Dial
      <3> QED
        BY <3>3, <3>4
    <2>2. Shapes'
      BY <1>0, <1>9 DEF Shapes, PCs, Results, Dial
    <2>3. LocksHeld'
      BY <1>0, <1>9 DEF Shapes, LocksHeld, Dial
    <2>4. OneDials'
      BY <1>0, <1>9 DEF Shapes, Numbers, LocksHeld, OneDials, Dial
    <2>5. Delivery'
      BY <1>0, <1>9 DEF Shapes, Numbers, Delivery, Dial
    <2>6. AcceptedNotLost'
      BY <1>0, <1>9 DEF Shapes, Numbers, Delivery, AcceptedNotLost, Dial
    <2> QED
      BY <2>1, <2>2, <2>3, <2>4, <2>5, <2>6 DEF AmqpInv
  <1>10. ASSUME NEW g \in Goroutines, Backoff(g)
        PROVE  AmqpInv'
    <2>1. Numbers'
      BY <1>0, <1>10 DEF Numbers, Shapes, Backoff, Fails
    <2>2. Shapes'
      <3>1. CASE Fails(g) /\ reconnect' = None
        BY <1>0, <1>10, <3>1 DEF Shapes, PCs, Results, Backoff, Fails
      <3>2. CASE Goto(g, "dial") /\ UNCHANGED <<mu, reconnect>>
        BY <1>0, <1>10, <3>2 DEF Shapes, PCs, Results, Backoff
      <3> QED
        BY <1>10, <3>1, <3>2 DEF Backoff
    <2>3. LocksHeld'
      BY <1>0, <1>10 DEF Shapes, LocksHeld, Backoff, Fails
    <2>4. OneDials'
      BY <1>0, <1>10 DEF Shapes, Numbers, LocksHeld, OneDials, Backoff, Fails
    <2>5. Delivery'
      BY <1>0, <1>10 DEF Shapes, Numbers, Delivery, Backoff, Fails
    <2>6. AcceptedNotLost'
      BY <1>0, <1>10 DEF Shapes, Numbers, Delivery, AcceptedNotLost, Backoff, Fails
    <2> QED
      BY <2>1, <2>2, <2>3, <2>4, <2>5, <2>6 DEF AmqpInv
  <1>11. ASSUME NEW g \in Goroutines, Again(g)
        PROVE  AmqpInv'
    <2>1. Numbers'
      BY <1>0, <1>11 DEF Numbers, Shapes, Again, Fails
    <2>2. Shapes'
      <3>1. pc' \in [Goroutines -> PCs] /\ mu' \in Publishers \cup {None}
        BY <1>0, <1>11 DEF Shapes, PCs, Again, Fails
      <3>2. on' \in [Goroutines -> Nat]
        BY <1>0, <1>a, <1>11 DEF Shapes, Again
      <3> QED
        BY <1>0, <1>11, <3>1, <3>2 DEF Shapes, Again
    <2>3. LocksHeld'
      BY <1>0, <1>11 DEF Shapes, LocksHeld, Again, Fails
    <2>4. OneDials'
      BY <1>0, <1>11 DEF Shapes, Numbers, LocksHeld, OneDials, Again, Fails
    <2>5. Delivery'
      BY <1>0, <1>11 DEF Shapes, Numbers, Delivery, Again, Fails
    <2>6. AcceptedNotLost'
      BY <1>0, <1>11 DEF Shapes, Numbers, Delivery, AcceptedNotLost, Again, Fails
    <2> QED
      BY <2>1, <2>2, <2>3, <2>4, <2>5, <2>6 DEF AmqpInv
  <1>12. CASE Subscribe
    <2>1. Numbers'
      BY <1>0, <1>12 DEF Numbers, Shapes, Subscribe
    <2>2. Shapes'
      BY <1>0, <1>12 DEF Shapes, PCs, Results, Subscribe
    <2>3. LocksHeld'
      BY <1>0, <1>12 DEF Shapes, LocksHeld, Subscribe
    <2>4. OneDials'
      BY <1>0, <1>12 DEF Shapes, Numbers, LocksHeld, OneDials, Subscribe
    <2>5. Delivery'
      BY <1>0, <1>12 DEF Shapes, Numbers, Delivery, Subscribe
    <2>6. AcceptedNotLost'
      BY <1>0, <1>12 DEF Shapes, Numbers, Delivery, AcceptedNotLost, Subscribe
    <2> QED
      BY <2>1, <2>2, <2>3, <2>4, <2>5, <2>6 DEF AmqpInv
  <1>13. ASSUME NEW m \in Publishers, Deliver(m)
        PROVE  AmqpInv'
    <2>1. Numbers'
      BY <1>0, <1>13 DEF Numbers, Shapes, Deliver
    <2>2. Shapes'
      BY <1>0, <1>13 DEF Shapes, PCs, Results, Deliver
    <2>3. LocksHeld'
      BY <1>0, <1>13 DEF Shapes, LocksHeld, Deliver
    <2>4. OneDials'
      BY <1>0, <1>13 DEF Shapes, Numbers, LocksHeld, OneDials, Deliver
    <2>5. Delivery'
      BY <1>0, <1>13 DEF Shapes, Numbers, Delivery, Deliver
    <2>6. AcceptedNotLost'
      BY <1>0, <1>13 DEF Shapes, Numbers, Delivery, AcceptedNotLost, Deliver
    <2> QED
      BY <2>1, <2>2, <2>3, <2>4, <2>5, <2>6 DEF AmqpInv
  <1>14. CASE Process
    <2>1. Numbers'
      BY <1>0, <1>14 DEF Numbers, Shapes, Process, Fault
    <2>2. Shapes'
      BY <1>0, <1>14 DEF Shapes, PCs, Results, Delivery, Process, Fault
    <2>3. LocksHeld'
      BY <1>0, <1>14 DEF Shapes, LocksHeld, Process, Fault
    <2>4. OneDials'
      BY <1>0, <1>14 DEF Shapes, Numbers, LocksHeld, OneDials, Process, Fault
    <2>5. Delivery'
      BY <1>0, <1>14 DEF Shapes, Numbers, Delivery, Process, Fault
    <2>6. AcceptedNotLost'
      BY <1>0, <1>14 DEF Shapes, Numbers, Delivery, AcceptedNotLost, Process, Fault
    <2> QED
      BY <2>1, <2>2, <2>3, <2>4, <2>5, <2>6 DEF AmqpInv
  <1>15. CASE ConsumeOnceEnds
    <2>1. Numbers'
      BY <1>0, <1>15 DEF Numbers, Shapes, ConsumeOnceEnds
    <2>2. Shapes'
      BY <1>0, <1>15 DEF Shapes, PCs, Results, ConsumeOnceEnds
    <2>3. LocksHeld'
      BY <1>0, <1>15 DEF Shapes, LocksHeld, ConsumeOnceEnds
    <2>4. OneDials'
      BY <1>0, <1>15 DEF Shapes, Numbers, LocksHeld, OneDials, ConsumeOnceEnds
    <2>5. Delivery'
      BY <1>0, <1>15 DEF Shapes, Numbers, Delivery, ConsumeOnceEnds
    <2>6. AcceptedNotLost'
      BY <1>0, <1>15 DEF Shapes, Numbers, Delivery, AcceptedNotLost, ConsumeOnceEnds
    <2> QED
      BY <2>1, <2>2, <2>3, <2>4, <2>5, <2>6 DEF AmqpInv
  <1>16. CASE Supervise
    <2>1. Numbers'
      BY <1>0, <1>16 DEF Numbers, Shapes, Supervise
    <2>2. Shapes'
      BY <1>0, <1>16 DEF Shapes, PCs, Results, Supervise
    <2>3. LocksHeld'
      BY <1>0, <1>16 DEF Shapes, LocksHeld, Supervise
    <2>4. OneDials'
      BY <1>0, <1>16 DEF Shapes, Numbers, LocksHeld, OneDials, Supervise
    <2>5. Delivery'
      BY <1>0, <1>16 DEF Shapes, Numbers, Delivery, Supervise
    <2>6. AcceptedNotLost'
      BY <1>0, <1>16 DEF Shapes, Numbers, Delivery, AcceptedNotLost, Supervise
    <2> QED
      BY <2>1, <2>2, <2>3, <2>4, <2>5, <2>6 DEF AmqpInv
  <1>17. CASE Stop
    <2>1. Numbers'
      BY <1>0, <1>17 DEF Numbers, Shapes, Stop
    <2>2. Shapes'
      BY <1>0, <1>17 DEF Shapes, PCs, Results, Stop
    <2>3. LocksHeld'
      BY <1>0, <1>17 DEF Shapes, LocksHeld, Stop
    <2>4. OneDials'
      BY <1>0, <1>17 DEF Shapes, Numbers, LocksHeld, OneDials, Stop
    <2>5. Delivery'
      BY <1>0, <1>17 DEF Shapes, Numbers, Delivery, Stop
    <2>6. AcceptedNotLost'
      BY <1>0, <1>17 DEF Shapes, Numbers, Delivery, AcceptedNotLost, Stop
    <2> QED
      BY <2>1, <2>2, <2>3, <2>4, <2>5, <2>6 DEF AmqpInv
  <1>18. CASE ClosePublisher
    <2>1. Numbers'
      BY <1>0, <1>18 DEF Numbers, Shapes, ClosePublisher
    <2>2. Shapes'
      BY <1>0, <1>18 DEF Shapes, PCs, Results, ClosePublisher
    <2>3. LocksHeld'
      BY <1>0, <1>18 DEF Shapes, LocksHeld, ClosePublisher
    <2>4. OneDials'
      BY <1>0, <1>18 DEF Shapes, Numbers, LocksHeld, OneDials, ClosePublisher
    <2>5. Delivery'
      BY <1>0, <1>18 DEF Shapes, Numbers, Delivery, ClosePublisher
    <2>6. AcceptedNotLost'
      BY <1>0, <1>18 DEF Shapes, Numbers, Delivery, AcceptedNotLost, ClosePublisher
    <2> QED
      BY <2>1, <2>2, <2>3, <2>4, <2>5, <2>6 DEF AmqpInv
  <1>19. ASSUME NEW w \in wire, Read(w)
        PROVE  AmqpInv'
    <2>1. Numbers'
      BY <1>0, <1>19 DEF Numbers, Shapes, Read
    <2>2. Shapes'
      BY <1>0, <1>19 DEF Shapes, PCs, Results, Read
    <2>3. LocksHeld'
      BY <1>0, <1>19 DEF Shapes, LocksHeld, Read
    <2>4. OneDials'
      BY <1>0, <1>19 DEF Shapes, Numbers, LocksHeld, OneDials, Read
    <2>5. Delivery'
      BY <1>0, <1>19 DEF Shapes, Numbers, Delivery, Read
    <2>6. AcceptedNotLost'
      BY <1>0, <1>19 DEF Shapes, Numbers, Delivery, AcceptedNotLost, Read
    <2> QED
      BY <2>1, <2>2, <2>3, <2>4, <2>5, <2>6 DEF AmqpInv
  <1>20. ASSUME NEW c \in alive, LoseConnection(c)
        PROVE  AmqpInv'
    <2>1. Numbers'
      BY <1>0, <1>20 DEF Numbers, Shapes, LoseConnection, Drop, Fault
    <2>2. Shapes'
      BY <1>0, <1>20 DEF Shapes, PCs, Results, LoseConnection, Drop, Fault
    <2>3. LocksHeld'
      BY <1>0, <1>20 DEF Shapes, LocksHeld, LoseConnection, Drop, Fault
    <2>4. OneDials'
      BY <1>0, <1>20 DEF Shapes, Numbers, LocksHeld, OneDials, LoseConnection, Drop, Fault
    <2>5. Delivery'
      BY <1>0, <1>20 DEF Shapes, Numbers, Delivery, LoseConnection, Drop, Fault
    <2>6. AcceptedNotLost'
      BY <1>0, <1>20 DEF Shapes, Numbers, Delivery, AcceptedNotLost, LoseConnection, Drop, Fault
    <2> QED
      BY <2>1, <2>2, <2>3, <2>4, <2>5, <2>6 DEF AmqpInv
  <1>21. CASE Outage
    <2>1. Numbers'
      BY <1>0, <1>21 DEF Numbers, Shapes, Outage, Drop, Fault
    <2>2. Shapes'
      BY <1>0, <1>21 DEF Shapes, PCs, Results, Outage, Drop, Fault
    <2>3. LocksHeld'
      BY <1>0, <1>21 DEF Shapes, LocksHeld, Outage, Drop, Fault
    <2>4. OneDials'
      BY <1>0, <1>21 DEF Shapes, Numbers, LocksHeld, OneDials, Outage, Drop, Fault
    <2>5. Delivery'
      BY <1>0, <1>21 DEF Shapes, Numbers, Delivery, Outage, Drop, Fault
    <2>6. AcceptedNotLost'
      <3>1. /\ alive' = {} /\ wire' = {w \in wire : w[2] \notin alive}
            /\ lost' = lost \cup {w[1] : w \in wire \ wire'}
            /\ unacked' \in {unacked, None} /\ UNCHANGED <<pc, result, settled, inhand>>
        BY <1>21 DEF Outage, Drop
      <3>2. \A m \in Publishers, c \in alive : <<m, c>> \in wire => m \in lost'
        BY <1>0, <3>1 DEF Shapes
      <3>3. (queue \cup {unacked}) \ {None} \subseteq queue' \cup {unacked'}
        BY <1>21 DEF Outage, Drop
      <3> QED
        BY <1>0, <3>1, <3>2, <3>3 DEF Shapes, Delivery, AcceptedNotLost
    <2> QED
      BY <2>1, <2>2, <2>3, <2>4, <2>5, <2>6 DEF AmqpInv
  <1>22. CASE Recover
    <2>1. Numbers'
      BY <1>0, <1>22 DEF Numbers, Shapes, Recover
    <2>2. Shapes'
      BY <1>0, <1>22 DEF Shapes, PCs, Results, Recover
    <2>3. LocksHeld'
      BY <1>0, <1>22 DEF Shapes, LocksHeld, Recover
    <2>4. OneDials'
      BY <1>0, <1>22 DEF Shapes, Numbers, LocksHeld, OneDials, Recover
    <2>5. Delivery'
      BY <1>0, <1>22 DEF Shapes, Numbers, Delivery, Recover
    <2>6. AcceptedNotLost'
      BY <1>0, <1>22 DEF Shapes, Numbers, Delivery, AcceptedNotLost, Recover
    <2> QED
      BY <2>1, <2>2, <2>3, <2>4, <2>5, <2>6 DEF AmqpInv
  <1>23. CASE UNCHANGED vars
    <2>1. Numbers'
      BY <1>0, <1>23 DEF Numbers, Shapes, vars
    <2>2. Shapes'
      BY <1>0, <1>23 DEF Shapes, PCs, Results, vars
    <2>3. LocksHeld'
      BY <1>0, <1>23 DEF Shapes, LocksHeld, vars
    <2>4. OneDials'
      BY <1>0, <1>23 DEF Shapes, Numbers, LocksHeld, OneDials, vars
    <2>5. Delivery'
      BY <1>0, <1>23 DEF Shapes, Numbers, Delivery, vars
    <2>6. AcceptedNotLost'
      BY <1>0, <1>23 DEF Shapes, Numbers, Delivery, AcceptedNotLost, vars
    <2> QED
      BY <2>1, <2>2, <2>3, <2>4, <2>5, <2>6 DEF AmqpInv
  <1>24. CASE CloseConnection
    <2>1. Numbers'
      BY <1>0, <1>24 DEF Numbers, Shapes, CloseConnection
    <2>2. Shapes'
      BY <1>0, <1>24 DEF Shapes, PCs, Results, CloseConnection
    <2>3. LocksHeld'
      BY <1>0, <1>24 DEF Shapes, LocksHeld, CloseConnection
    <2>4. OneDials'
      BY <1>0, <1>24 DEF Shapes, Numbers, LocksHeld, OneDials, CloseConnection
    <2>5. Delivery'
      BY <1>0, <1>24 DEF Shapes, Numbers, Delivery, CloseConnection
    <2>6. AcceptedNotLost'
      BY <1>0, <1>24 DEF Shapes, Numbers, Delivery, AcceptedNotLost, CloseConnection
    <2> QED
      BY <2>1, <2>2, <2>3, <2>4, <2>5, <2>6 DEF AmqpInv
  <1>25. CASE LoseChannel
    <2>1. Numbers'
      BY <1>0, <1>25 DEF Numbers, Shapes, LoseChannel, Fault
    <2>2. Shapes'
      BY <1>0, <1>25 DEF Shapes, PCs, Results, LoseChannel, Fault
    <2>3. LocksHeld'
      BY <1>0, <1>25 DEF Shapes, LocksHeld, LoseChannel, Fault
    <2>4. OneDials'
      BY <1>0, <1>25 DEF Shapes, Numbers, LocksHeld, OneDials, LoseChannel, Fault
    <2>5. Delivery'
      BY <1>0, <1>25 DEF Shapes, Numbers, Delivery, LoseChannel, Fault
    <2>6. AcceptedNotLost'
      BY <1>0, <1>25 DEF Shapes, Numbers, Delivery, AcceptedNotLost, LoseChannel, Fault
    <2> QED
      BY <2>1, <2>2, <2>3, <2>4, <2>5, <2>6 DEF AmqpInv
  <1> QED
    BY <1>1, <1>2, <1>3, <1>4, <1>5, <1>6, <1>7, <1>8, <1>9, <1>10, <1>11, <1>12, <1>13, <1>14,
       <1>15, <1>16, <1>17, <1>18, <1>19, <1>20, <1>21, <1>22, <1>23, <1>24, <1>25
    DEF Next, PublishStep, ConsumeStep, Channel, Goroutines

\* NewConnection has dialled once and nobody holds a lock.
LEMMA AmqpInit == Init => AmqpInv
PROOF
  <1> SUFFICES ASSUME Init
               PROVE  AmqpInv
    OBVIOUS
  <1> USE ConsumerAssumption DEF Init, Goroutines, At
  <1>1. Numbers
    <2>1. /\ dialled = 1 /\ alive = {1} /\ cur = 1 /\ pch = 0 /\ cch = 0
          /\ \A g \in Goroutines : on[g] = 0
      OBVIOUS
    <2> QED
      BY ONLY <2>1 DEF Numbers
  <1>2. Shapes
    <2>1. PublishAttempts \in Nat /\ 0 < PublishAttempts
      BY ONLY AttemptsAssumption
    <2>2. /\ pc = [g \in Goroutines |-> IF g = Consumer THEN "channel" ELSE "idle"]
          /\ on = [g \in Goroutines |-> 0] /\ tries = [g \in Publishers |-> 0]
          /\ result = [g \in Publishers |-> ""]
          /\ reconnect = None /\ mu = None /\ unacked = None /\ inhand = None
          /\ wire = {} /\ queue = {}
      OBVIOUS
    <2> QED
      BY ONLY <2>1, <2>2 DEF Shapes, PCs, Results
  <1>3. LocksHeld /\ OneDials /\ Delivery /\ AcceptedNotLost
    BY DEF LocksHeld, OneDials, Delivery, AcceptedNotLost
  <1> QED
    BY <1>1, <1>2, <1>3 DEF AmqpInv

\* The reachable states satisfy the strengthened invariant.
LEMMA AmqpInvariant == Spec => []AmqpInv
PROOF
  <1> QED
    BY AmqpInit, AmqpStep, PTL DEF Spec

\* The flags of the client and of the broker are Boolean throughout.
FlagsOK ==
    /\ up \in BOOLEAN /\ probe \in BOOLEAN /\ stopping \in BOOLEAN
    /\ pubClosed \in BOOLEAN /\ closed \in BOOLEAN

\* Every step assigns the flags true or false.
LEMMA FlagsInvariant == Spec => []FlagsOK
PROOF
  <1>1. Init => FlagsOK
    BY DEF Init, FlagsOK
  <1>2. FlagsOK /\ [Next]_vars => FlagsOK'
    <2> SUFFICES ASSUME FlagsOK, [Next]_vars
                 PROVE  FlagsOK'
      OBVIOUS
    <2> USE DEF FlagsOK, client, publisher, consumer, control, run, broker
    <2>1. ASSUME NEW g \in Publishers, Publish(g) \/ Lock(g) \/ Send(g) \/ Retry(g) \/ Cancel(g)
          PROVE  FlagsOK'
      BY <2>1 DEF Publish, Lock, Send, Retry, Cancel
    <2>2. ASSUME NEW g \in Goroutines, Channel(g)
          PROVE  FlagsOK'
      BY <2>2 DEF Channel, Current, Open, Reconnect, Dial, Backoff, Again
    <2>3. CASE Subscribe
      BY <2>3 DEF Subscribe
    <2>4. CASE (\E m \in Publishers : Deliver(m)) \/ Process \/ Supervise
      BY <2>4 DEF Deliver, Process, Supervise
    <2>5. CASE ConsumeOnceEnds \/ Stop \/ ClosePublisher \/ CloseConnection
      BY <2>5 DEF ConsumeOnceEnds, Stop, ClosePublisher, CloseConnection
    <2>6. CASE (\E w \in wire : Read(w)) \/ (\E c \in alive : LoseConnection(c))
      BY <2>6 DEF Read, LoseConnection, Drop
    <2>7. CASE LoseChannel \/ Outage \/ Recover
      BY <2>7 DEF LoseChannel, Outage, Recover, Drop
    <2>8. CASE UNCHANGED vars
      BY <2>8 DEF vars
    <2> QED
      BY <2>1, <2>2, <2>3, <2>4, <2>5, <2>6, <2>7, <2>8
      DEF Next, PublishStep, ConsumeStep, Goroutines
  <1> QED
    BY <1>1, <1>2, PTL DEF Spec
-----------------------------------------------------------------------------
(***************************************************************************)
(* The theorems.                                                           *)
(***************************************************************************)

\* The state keeps its shape, and the mutexes are held exactly by the goroutines
\* between their Lock and Unlock: no error path of publish, reconnect or dialWithRetry
\* returns with a lock or without having it.
THEOREM AmqpTypeCorrect == Spec => []TypeOK
PROOF
  <1>1. AmqpInv /\ FlagsOK => TypeOK
    BY ConsumerAssumption DEF AmqpInv, Numbers, Shapes, LocksHeld, FlagsOK, TypeOK, Goroutines
  <1> QED
    BY <1>1, AmqpInvariant, FlagsInvariant, PTL

\* Any number of goroutines that find the connection lost open one between them, since
\* reconnect looks again under its lock: no connection leaks.
THEOREM NoConnectionLeaks == Spec => []OneConnection
PROOF
  <1>1. AmqpInv => OneConnection
    <2> SUFFICES ASSUME AmqpInv
                 PROVE  Cardinality(alive) <= 1
      BY DEF OneConnection
    <2>1. alive = {} \/ alive = {cur}
      BY DEF AmqpInv, OneDials
    <2>2. Cardinality({}) = 0 /\ Cardinality({cur}) = 1
      BY FS_EmptySet, FS_Singleton
    <2> QED
      BY <2>1, <2>2
  <1> QED
    BY <1>1, AmqpInvariant, PTL

\* A message whose Publish returned nil is lost only with the connection it was written
\* to; deliveries, redials, requeues and the shutdown lose none.
THEOREM AcceptedIsKept == Spec => []AcceptedNotLost
PROOF
  <1>1. AmqpInv => AcceptedNotLost
    BY DEF AmqpInv
  <1> QED
    BY <1>1, AmqpInvariant, PTL
=============================================================================
