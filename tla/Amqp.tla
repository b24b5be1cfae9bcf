-------------------------------- MODULE Amqp --------------------------------
(***************************************************************************)
(* The broker client every service shares: pkg/amqp (Connection,           *)
(* Publisher, Consume, Probe) in one process, with the order in which a    *)
(* main function shuts it down.                                            *)
(*                                                                         *)
(* The goroutines are the requests that publish one message each, and the  *)
(* consumer.  They share the connection and the lock reconnectMu under     *)
(* which it is dialled again; the publishers share a channel and the lock  *)
(* mu of the Publisher, which is held across a redial.  Connection.mu is   *)
(* held for a read or a swap only and is no step of its own.  Connections  *)
(* are numbered in the order in which they are dialled.  RabbitMQ is       *)
(* external: it queues what it reads, delivers one message at a time, and  *)
(* takes back what was not acknowledged when a connection ends.            *)
(***************************************************************************)
EXTENDS Naturals, FiniteSets

CONSTANTS
    Publishers,       \* goroutines that publish; each names its message too
    Consumer,         \* the goroutine that runs Consume
    None,             \* no holder, no message
    DialAttempts,     \* attempts of dialWithRetry (5 in the code)
    PublishAttempts,  \* attempts of publishWithRetry (3 in the code)
    MaxFaults         \* bound: lost connections, outages, cancelled requests

ASSUME ConsumerAssumption == Consumer \notin Publishers /\ None \notin Publishers \cup {Consumer}
ASSUME AttemptsAssumption == {DialAttempts, PublishAttempts} \subseteq Nat \ {0}
ASSUME BoundsAssumption == MaxFaults \in Nat

Goroutines == Publishers \cup {Consumer}

VARIABLES
    up,        \* whether the broker accepts connections
    dialled,   \* connections opened so far
    alive,     \* the open ones
    cur,       \* Connection.conn
    reconnect, \* holder of reconnectMu
    mu,        \* holder of Publisher.mu
    pch,       \* Publisher.ch: the connection of the cached channel, 0 for nil
    cch,       \* the consumer's channel, likewise; 0 also when the broker closed it
    probe,     \* Probe.up
    pc,        \* the next step of each goroutine
    on,        \* the connection a goroutine got from current()
    dials,     \* failed dials of dialWithRetry
    tries,     \* failed attempts of publishWithRetry
    result,    \* what Publish returned
    gone,      \* requests whose context is cancelled
    stopping,  \* the run context is cancelled
    pubClosed, \* main closed the publisher
    closed,    \* main closed the connection
    wire,      \* <<message, connection>> written, not yet read by the broker
    queue,     \* messages the broker keeps
    unacked,   \* the message the broker delivered and waits for
    inhand,    \* the message the handler works on
    settled,   \* messages the consumer acknowledged or dropped
    lost,      \* messages lost with the connection they were written to
    faults     \* faults so far (bounded by MaxFaults)

client == <<cur, dialled, reconnect>>
publisher == <<mu, pch, tries, result>>
consumer == <<cch, probe, inhand>>
control == <<pc, on, dials>>
run == <<gone, stopping, pubClosed, closed>>
broker == <<up, alive, wire, queue, unacked, settled, lost>>
vars == <<client, publisher, consumer, control, run, broker, faults>>

Fault == faults < MaxFaults /\ faults' = faults + 1
At(g, l) == pc[g] = l
Goto(g, l) == pc' = [pc EXCEPT ![g] = l]

\* Whether the context a goroutine passes down is done.
Cancelled(g) == IF g = Consumer THEN stopping ELSE g \in gone

\* Faulty form of the next definition: mu is not released.
FailsHolding(g) == Goto(g, "retry") /\ UNCHANGED mu

\* publish returns an error, releasing mu; consumeOnce returns an error.
Fails(g) ==
    /\ Goto(g, "retry")
    /\ mu' = IF mu = g THEN None ELSE mu

(***************************************************************************)
(* Connection.                                                             *)
(***************************************************************************)

\* current() and, with a connection, the call of its method Channel.
Current(g) ==
    /\ At(g, "channel")
    /\ IF cur \in alive THEN Goto(g, "open") /\ on' = [on EXCEPT ![g] = cur]
                        ELSE Goto(g, "lock") /\ UNCHANGED on
    /\ UNCHANGED <<client, publisher, consumer, dials, run, broker, faults>>

\* The connection may have been lost since.
Open(g) ==
    /\ At(g, "open")
    /\ \/ /\ on[g] \in alive
          /\ \/ g = Consumer /\ cch' = on[g] /\ Goto(g, "subscribe") /\ UNCHANGED pch
             \/ g # Consumer /\ pch' = on[g] /\ Goto(g, "send") /\ UNCHANGED cch
          /\ UNCHANGED mu
       \/ on[g] \notin alive /\ Fails(g) /\ UNCHANGED <<pch, cch>>
    /\ on' = [on EXCEPT ![g] = 0]
    /\ UNCHANGED <<client, tries, result, probe, inhand, dials, run, broker, faults>>

\* Faulty form of the next definition: no second look under the lock.
ReconnectUnchecked(g) ==
    /\ At(g, "lock") /\ reconnect = None
    /\ Goto(g, "dial") /\ reconnect' = g
    /\ UNCHANGED <<cur, dialled, publisher, consumer, on, dials, run, broker, faults>>

\* reconnect: another goroutine may have dialled while this one waited for the lock.
Reconnect(g) ==
    /\ At(g, "lock") /\ reconnect = None
    /\ IF cur \in alive THEN Goto(g, "again") /\ UNCHANGED reconnect
                        ELSE Goto(g, "dial") /\ reconnect' = g
    /\ UNCHANGED <<cur, dialled, publisher, consumer, on, dials, run, broker, faults>>

\* dial, and in case of success the return through reconnect.
Dial(g) ==
    /\ At(g, "dial")
    /\ IF up
       THEN /\ dialled' = dialled + 1 /\ cur' = dialled + 1
            /\ alive' = alive \cup {dialled + 1}
            /\ reconnect' = None
            /\ dials' = [dials EXCEPT ![g] = 0]
            /\ Goto(g, "again")
       ELSE /\ dials' = [dials EXCEPT ![g] = @ + 1]
            /\ Goto(g, "backoff")
            /\ UNCHANGED <<client, alive>>
    /\ UNCHANGED <<publisher, consumer, on, run, up, wire, queue, unacked, settled,
                   lost, faults>>

\* Faulty form of the next definition: the lock is kept when the attempts run out.
BackoffKeepingLock(g) ==
    /\ At(g, "backoff")
    /\ IF dials[g] = DialAttempts \/ Cancelled(g)
       THEN Fails(g) /\ dials' = [dials EXCEPT ![g] = 0]
       ELSE Goto(g, "dial") /\ UNCHANGED <<mu, dials>>
    /\ UNCHANGED <<client, pch, tries, result, consumer, on, run, broker, faults>>

\* The pause after a failed dial, also after the last one.
Backoff(g) ==
    /\ At(g, "backoff")
    /\ \/ /\ dials[g] = DialAttempts \/ Cancelled(g)
          /\ Fails(g)
          /\ reconnect' = None
          /\ dials' = [dials EXCEPT ![g] = 0]
       \/ /\ dials[g] < DialAttempts
          /\ Goto(g, "dial")
          /\ UNCHANGED <<mu, reconnect, dials>>
    /\ UNCHANGED <<cur, dialled, pch, tries, result, consumer, on, run, broker, faults>>

\* Channel after reconnect.
Again(g) ==
    /\ At(g, "again")
    /\ \/ /\ cur \in alive
          /\ Goto(g, "open") /\ on' = [on EXCEPT ![g] = cur]
          /\ UNCHANGED mu
       \/ cur \notin alive /\ Fails(g) /\ UNCHANGED on
    /\ UNCHANGED <<client, pch, tries, result, consumer, dials, run, broker, faults>>

Channel(g) ==
    Current(g) \/ Open(g) \/ Reconnect(g) \/ Dial(g) \/ Backoff(g) \/ Again(g)

(***************************************************************************)
(* Publisher.                                                              *)
(***************************************************************************)

\* A request publishes; the server takes none after the shutdown began.
Publish(g) ==
    /\ At(g, "idle") /\ ~stopping
    /\ Goto(g, "publish")
    /\ UNCHANGED <<client, publisher, consumer, on, dials, run, broker, faults>>

\* publish locks mu, channel looks at the cached channel.
Lock(g) ==
    /\ At(g, "publish") /\ mu = None
    /\ mu' = g
    /\ Goto(g, IF pch \in alive THEN "send" ELSE "channel")
    /\ UNCHANGED <<client, pch, tries, result, consumer, on, dials, run, broker, faults>>

Returns(g, r) == Goto(g, "done") /\ result' = [result EXCEPT ![g] = r]

\* PublishWithContext writes and does not wait for a confirmation.  A channel that
\* turns out broken, before or after the write, is discarded.
Send(g) ==
    /\ At(g, "send")
    /\ \/ /\ pch \in alive
          /\ wire' = wire \cup {<<g, pch>>}
          /\ mu' = None
          /\ Returns(g, "ok")
          /\ UNCHANGED <<pch, faults>>
       \/ /\ pch \in alive /\ Fault
          /\ wire' = wire \cup {<<g, pch>>}
          /\ pch' = 0 /\ Fails(g)
          /\ UNCHANGED result
       \/ /\ pch \notin alive
          /\ pch' = 0 /\ Fails(g)
          /\ UNCHANGED <<wire, result, faults>>
    /\ UNCHANGED <<client, tries, consumer, on, dials, run, up, alive, queue, unacked,
                   settled, lost>>

\* The pause of publishWithRetry, also after the last attempt.
Retry(g) ==
    /\ At(g, "retry") /\ g # Consumer
    /\ \/ Cancelled(g) /\ Returns(g, "cancelled") /\ UNCHANGED tries
       \/ tries[g] + 1 = PublishAttempts /\ Returns(g, "error") /\ UNCHANGED tries
       \/ /\ tries[g] + 1 < PublishAttempts
          /\ tries' = [tries EXCEPT ![g] = @ + 1]
          /\ Goto(g, "publish") /\ UNCHANGED result
    /\ UNCHANGED <<client, mu, pch, consumer, on, dials, run, broker, faults>>

(***************************************************************************)
(* Consume.                                                                *)
(***************************************************************************)

\* Qos and Consume on the new channel; then the probe is up.
Subscribe ==
    /\ At(Consumer, "subscribe")
    /\ IF cch \in alive THEN Goto(Consumer, "consume") /\ probe' = TRUE /\ UNCHANGED cch
                        ELSE Goto(Consumer, "retry") /\ cch' = 0 /\ UNCHANGED probe
    /\ UNCHANGED <<client, publisher, inhand, on, dials, run, broker, faults>>

\* The broker delivers a message; it waits for the answer (autoAck is off).
Deliver(m) ==
    /\ At(Consumer, "consume") /\ cch \in alive /\ m \in queue
    /\ queue' = queue \ {m}
    /\ unacked' = m /\ inhand' = m
    /\ Goto(Consumer, "handle")
    /\ UNCHANGED <<client, publisher, cch, probe, on, dials, run, up, alive, wire, settled,
                   lost, faults>>

\* process: Ack (nil), Nack without requeue (Drop, panic, no envelope), or Nack with
\* requeue; on a channel that is gone none of them reaches the broker.
Process ==
    /\ At(Consumer, "handle")
    /\ \/ /\ cch \in alive
          /\ \/ settled' = settled \cup {inhand} /\ UNCHANGED <<queue, faults>>
             \/ Fault /\ queue' = queue \cup {inhand} /\ UNCHANGED settled
          /\ unacked' = None
       \/ cch \notin alive /\ UNCHANGED <<queue, settled, unacked, faults>>
    /\ inhand' = None
    /\ Goto(Consumer, "consume")
    /\ UNCHANGED <<client, publisher, cch, probe, on, dials, run, up, alive, wire, lost>>

\* Faulty form of the next definition: the handlers are not waited for.
ConsumeOnceEndsUndrained ==
    /\ pc[Consumer] \in {"consume", "handle"}
    /\ \/ cch \notin alive /\ Goto(Consumer, "retry")
       \/ stopping /\ Goto(Consumer, "done")
    /\ cch' = 0 /\ probe' = FALSE
    /\ UNCHANGED <<client, publisher, inhand, on, dials, run, broker, faults>>

\* consumeOnce ends: the messages ended with the channel, or the run context is done.
ConsumeOnceEnds ==
    /\ At(Consumer, "consume")
    /\ \/ cch \notin alive /\ Goto(Consumer, "retry")
       \/ stopping /\ Goto(Consumer, "done")
    /\ cch' = 0 /\ probe' = FALSE
    /\ UNCHANGED <<client, publisher, inhand, on, dials, run, broker, faults>>

\* The supervisor's pause, and its end when the run context is done.
Supervise ==
    /\ At(Consumer, "retry")
    /\ Goto(Consumer, IF stopping THEN "done" ELSE "channel")
    /\ UNCHANGED <<client, publisher, consumer, on, dials, run, broker, faults>>

(***************************************************************************)
(* The shutdown, the broker and failures.                                  *)
(***************************************************************************)

\* SIGTERM.
Stop ==
    /\ ~stopping /\ stopping' = TRUE
    /\ UNCHANGED <<client, publisher, consumer, control, gone, pubClosed, closed, broker, faults>>

\* main: after the consumer is joined, Publisher.Close waits for mu.  Requests that
\* outlived the server's drain may be running, and may open a channel again.
ClosePublisher ==
    /\ At(Consumer, "done") /\ ~pubClosed /\ mu = None
    /\ pubClosed' = TRUE
    /\ pch' = 0
    /\ UNCHANGED <<client, mu, tries, result, consumer, control, gone, stopping, closed, broker,
                   faults>>

\* Then Connection.Close; the broker reads what was written before it.
CloseConnection ==
    /\ At(Consumer, "done") /\ pubClosed /\ ~closed
    /\ closed' = TRUE
    /\ alive' = alive \ {cur}
    /\ queue' = queue \cup {w[1] : w \in {v \in wire : v[2] = cur}}
    /\ wire' = {v \in wire : v[2] # cur}
    /\ UNCHANGED <<client, publisher, consumer, control, gone, stopping, pubClosed, up, unacked,
                   settled, lost, faults>>

\* A client hangs up.
Cancel(g) ==
    /\ g \in Publishers \ gone /\ pc[g] \notin {"idle", "done"} /\ Fault
    /\ gone' = gone \cup {g}
    /\ UNCHANGED <<client, publisher, consumer, control, stopping, pubClosed, closed, broker>>

\* The broker reads what was written.
Read(w) ==
    /\ w \in wire /\ w[2] \in alive
    /\ wire' = wire \ {w}
    /\ queue' = queue \cup {w[1]}
    /\ UNCHANGED <<client, publisher, consumer, control, run, up, alive, unacked, settled,
                   lost, faults>>

\* Connections cs end, what they carried is lost and deliveries are taken back.
Drop(cs) ==
    /\ alive' = alive \ cs
    /\ wire' = {w \in wire : w[2] \notin cs}
    /\ lost' = lost \cup {w[1] : w \in wire \ wire'}
    /\ IF unacked # None /\ cch \in cs
       THEN queue' = queue \cup {unacked} /\ unacked' = None
       ELSE UNCHANGED <<queue, unacked>>
    /\ UNCHANGED <<client, publisher, consumer, control, run, settled>>

\* The broker closes the consumer's channel and takes its delivery back; the connection
\* stays.  For the channel of the publishers that is the fault in Send.
LoseChannel ==
    /\ cch \in alive /\ Fault
    /\ cch' = 0
    /\ IF unacked # None
       THEN queue' = queue \cup {unacked} /\ unacked' = None
       ELSE UNCHANGED <<queue, unacked>>
    /\ UNCHANGED <<client, publisher, probe, inhand, control, run, up, alive, wire, settled, lost>>

LoseConnection(c) == c \in alive /\ Fault /\ Drop({c}) /\ UNCHANGED up
Outage == up /\ Fault /\ up' = FALSE /\ Drop(alive)

Recover ==
    /\ ~up /\ up' = TRUE
    /\ UNCHANGED <<client, publisher, consumer, control, run, alive, wire, queue, unacked,
                   settled, lost, faults>>

\* NewConnection has dialled; nothing was published.
Init ==
    /\ up = TRUE /\ dialled = 1 /\ alive = {1} /\ cur = 1
    /\ reconnect = None /\ mu = None /\ pch = 0
    /\ cch = 0 /\ probe = FALSE /\ inhand = None
    /\ pc = [g \in Goroutines |-> IF g = Consumer THEN "channel" ELSE "idle"]
    /\ on = [g \in Goroutines |-> 0]
    /\ dials = [g \in Goroutines |-> 0]
    /\ tries = [g \in Publishers |-> 0]
    /\ result = [g \in Publishers |-> ""]
    /\ gone = {} /\ stopping = FALSE /\ pubClosed = FALSE /\ closed = FALSE
    /\ wire = {} /\ queue = {} /\ unacked = None /\ settled = {} /\ lost = {}
    /\ faults = 0

PublishStep(g) == Lock(g) \/ Send(g) \/ Retry(g) \/ Channel(g)
ConsumeStep ==
    \/ Channel(Consumer) \/ Subscribe \/ (\E m \in Publishers : Deliver(m)) \/ Process
    \/ ConsumeOnceEnds \/ Supervise

Next ==
    \/ \E g \in Publishers : Publish(g) \/ PublishStep(g) \/ Cancel(g)
    \/ ConsumeStep
    \/ Stop \/ ClosePublisher \/ CloseConnection
    \/ \E w \in wire : Read(w)
    \/ \E c \in alive : LoseConnection(c)
    \/ LoseChannel \/ Outage \/ Recover

Spec == Init /\ [][Next]_vars

\* Goroutines go on, and a sync.Mutex that is free again and again is not withheld
\* from a waiter for ever (strong fairness); the broker comes back.  Nobody owes a
\* request or a shutdown.
FairSpec ==
    /\ Spec
    /\ \A g \in Publishers : SF_vars(PublishStep(g))
    /\ SF_vars(ConsumeStep)
    /\ WF_vars(Recover)

-----------------------------------------------------------------------------
(***************************************************************************)
(* Properties.                                                             *)
(***************************************************************************)

\* Every variable keeps its shape; a goroutine beyond the lock of the Publisher
\* holds it.
TypeOK ==
    /\ {up, probe, stopping, pubClosed, closed} \subseteq BOOLEAN
    /\ alive \subseteq 1 .. dialled /\ cur \in 1 .. dialled
    /\ {pch, cch} \subseteq 0 .. dialled
    /\ {reconnect, mu} \subseteq Goroutines \cup {None}
    /\ {unacked, inhand} \subseteq Publishers \cup {None}
    /\ \A g \in Publishers :
          /\ tries[g] < PublishAttempts
          /\ mu = g <=> pc[g] \notin {"idle", "publish", "retry", "done"}
    /\ \A g \in Goroutines : pc[g] \in {"dial", "backoff"} <=> reconnect = g

\* Whatever goroutines find the connection lost together, one dials for all: no
\* connection is left behind open while another is in use.
OneConnection == Cardinality(alive) <= 1

\* Where a message can be whose Publish returned nil: it is lost only with the
\* connection it was written to (there are no confirmations); from the queue on a
\* redial and a channel lost under a running handler keep it, and the shutdown waits
\* for the handler: when the consumer is joined no message is in hand or unanswered.
AcceptedNotLost ==
    /\ \A m \in Publishers : result[m] = "ok" =>
          \/ m \in queue \cup settled \cup lost \cup {unacked}
          \/ \E c \in alive : <<m, c>> \in wire
    /\ At(Consumer, "done") => inhand = None /\ unacked = None

\* Every Publish returns, and the consumer is attached again and stays so unless it is
\* shut down: no goroutine waits for ever for a lock or for another's redial.
Recovers ==
    /\ \A g \in Publishers : At(g, "publish") ~> At(g, "done")
    /\ <>[](probe \/ At(Consumer, "done"))
=============================================================================
