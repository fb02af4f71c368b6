--------------------------- MODULE EventDelivery ---------------------------
(***************************************************************************)
(* How an event gets from the service that recorded it to one subscriber   *)
(* (packages/events): OutboxRelay in several replicas of the service, the  *)
(* JetStream stream with its duplicate window, one durable consumer read   *)
(* by several replicas, and handleOnce.                                    *)
(*                                                                         *)
(* A handler takes one step per await. Clocks are not modelled: a lock, a  *)
(* back-off, the duplicate window and ack_wait may end at any moment.      *)
(***************************************************************************)
EXTENDS Naturals

CONSTANTS
    NumEvents,    \* events, numbered in the order they are recorded
    Relays,       \* replicas of the recording service
    Workers,      \* replicas of the subscribing service
    Requests,     \* events that ask for a notification: their rows are not kept
    MaxDeliver,   \* max_deliver of the consumer (20 in the code)
    MaxCopies,    \* bound: times an event enters the stream
    MaxFaults     \* bound: failures, crashes and timeouts of one run

ASSUME DeliveryAssumption ==
    /\ {NumEvents, MaxDeliver, MaxCopies, MaxFaults} \subseteq Nat
    /\ MaxCopies > 0
    /\ Requests \subseteq 1..NumEvents

Events == 1..NumEvents
Copies == Events \X (1..MaxCopies)
NoEvent == 0
NoCopy == <<0, 0>>

VARIABLES
    row,      \* the outbox row of each event
    held,     \* rows whose lockedUntil is in the future
    relay,    \* each relay: where it is and the row it holds
    window,   \* message ids JetStream still remembers
    stream,   \* each copy of an event in the stream: its state and its deliveries
    worker,   \* each subscriber replica: where it is and its message
    marked,   \* events with a row in processed_events
    applied,  \* times the subscriber's change of an event committed
    refused,  \* history: events whose change a unique index of the subscriber refused
    faults    \* faults so far

vars == <<row, held, relay, window, stream, worker, marked, applied, refused, faults>>

IdleRelay == [pc |-> "idle", at |-> NoEvent]
IdleWorker == [pc |-> "idle", at |-> NoCopy]

Init ==
    /\ row = [e \in Events |-> "none"]
    /\ held = {}
    /\ relay = [r \in Relays |-> IdleRelay]
    /\ window = {}
    /\ stream = [c \in Copies |-> [st |-> "none", tries |-> 0]]
    /\ worker = [w \in Workers |-> IdleWorker]
    /\ marked = {}
    /\ applied = [e \in Events |-> 0]
    /\ refused = {}
    /\ faults = 0

Fault == faults < MaxFaults /\ faults' = faults + 1

-----------------------------------------------------------------------------
(* The recording service *)

\* OutboxWriter.record: the row is written in the transaction of the change.
RecordEvent(e) ==
    /\ row[e] = "none"
    /\ \A d \in Events : d < e => row[d] # "none"
    /\ row' = [row EXCEPT ![e] = "pending"]
    /\ UNCHANGED <<held, relay, window, stream, worker, marked, applied, refused, faults>>

Claimable == {e \in Events : row[e] = "pending" /\ e \notin held}

\* Mutant: The row is marked published when it is claimed.
ClaimPublished(r) ==
    /\ relay[r].pc = "idle"
    /\ \E e \in Claimable :
       /\ \A d \in Claimable : e <= d
       /\ held' = held \union {e}
       /\ row' = [row EXCEPT ![e] = "published"]
       /\ relay' = [relay EXCEPT ![r] = [pc |-> "publish", at |-> e]]
    /\ UNCHANGED <<window, stream, worker, marked, applied, refused, faults>>

\* OutboxRelay.flush takes the oldest pending row that is not locked.
Claim(r) ==
    /\ relay[r].pc = "idle"
    /\ \E e \in Claimable :
       /\ \A d \in Claimable : e <= d
       /\ held' = held \union {e}
       /\ relay' = [relay EXCEPT ![r] = [pc |-> "publish", at |-> e]]
    /\ UNCHANGED <<row, window, stream, worker, marked, applied, refused, faults>>

\* js.publish with msgID: a message id of the window is not stored again.
Stored(e) ==
    IF e \in window THEN UNCHANGED <<stream, window>>
    ELSE \E n \in 1..MaxCopies :
            /\ stream[<<e, n>>].st = "none"
            /\ \A k \in 1..(n - 1) : stream[<<e, k>>].st # "none"
            /\ stream' = [stream EXCEPT ![<<e, n>>].st = "ready"]
            /\ window' = window \union {e}

Publish(r) ==
    /\ relay[r].pc = "publish"
    /\ Stored(relay[r].at)
    /\ relay' = [relay EXCEPT ![r].pc = "mark"]
    /\ UNCHANGED <<row, held, worker, marked, applied, refused, faults>>

\* Mutant: The publish error is swallowed and the row is marked all the same.
PublishFailsUnseen(r) ==
    /\ relay[r].pc = "publish"
    /\ Fault
    /\ Stored(relay[r].at) \/ UNCHANGED <<stream, window>>
    /\ relay' = [relay EXCEPT ![r].pc = "mark"]
    /\ UNCHANGED <<row, held, worker, marked, applied, refused>>

\* The publish fails, stored or not, or the row cannot be marked after it: the
\* row stays pending and backs off.
PublishFails(r) ==
    /\ relay[r].pc # "idle"
    /\ Fault
    /\ \/ relay[r].pc = "publish" /\ Stored(relay[r].at)
       \/ UNCHANGED <<stream, window>>
    /\ relay' = [relay EXCEPT ![r] = IdleRelay]
    /\ held' = held \union {relay[r].at}
    /\ UNCHANGED <<row, worker, marked, applied, refused>>

\* After the publish: the row is deleted (a request) or kept as published.
Mark(r) ==
    /\ relay[r].pc = "mark"
    /\ row' = [row EXCEPT ![relay[r].at] =
                  IF relay[r].at \in Requests THEN "deleted" ELSE "published"]
    /\ relay' = [relay EXCEPT ![r] = IdleRelay]
    /\ UNCHANGED <<held, window, stream, worker, marked, applied, refused, faults>>

\* lockedUntil passes: of a relay that still works, that stopped, or a back-off.
LockEnds(e) ==
    /\ e \in held
    /\ held' = held \ {e}
    /\ UNCHANGED <<row, relay, window, stream, worker, marked, applied, refused, faults>>

\* Mutant: the relay forgets its row but not that it was publishing.
RelayStopsHalf(r) ==
    /\ relay[r].pc # "idle"
    /\ Fault
    /\ relay' = [relay EXCEPT ![r].at = NoEvent]
    /\ UNCHANGED <<row, held, window, stream, worker, marked, applied, refused>>

RelayStops(r) ==
    /\ relay[r].pc # "idle"
    /\ Fault
    /\ relay' = [relay EXCEPT ![r] = IdleRelay]
    /\ UNCHANGED <<row, held, window, stream, worker, marked, applied, refused>>

-----------------------------------------------------------------------------
(* The stream and its durable consumer *)

\* The duplicate window of two minutes ends.
WindowEnds(e) ==
    /\ e \in window
    /\ Fault
    /\ window' = window \ {e}
    /\ UNCHANGED <<row, held, relay, stream, worker, marked, applied, refused>>

Deliver(w, c) ==
    /\ worker[w].pc = "idle"
    /\ stream[c].st = "ready"
    /\ stream[c].tries < MaxDeliver
    /\ stream' = [stream EXCEPT ![c] = [st |-> "sent", tries |-> @.tries + 1]]
    /\ worker' = [worker EXCEPT ![w] = [pc |-> "check", at |-> c]]
    /\ UNCHANGED <<row, held, relay, window, marked, applied, refused, faults>>

\* ack_wait passes before the answer: the message is delivered again.
AckWaitEnds(c) ==
    /\ stream[c].st = "sent"
    /\ Fault
    /\ stream' = [stream EXCEPT ![c].st = "ready"]
    /\ UNCHANGED <<row, held, relay, window, worker, marked, applied, refused>>

-----------------------------------------------------------------------------
(* The subscriber: handleOnce *)

EventOf(w) == worker[w].at[1]

\* The exists() before the transaction.
CheckMarker(w) ==
    /\ worker[w].pc = "check"
    /\ worker' = [worker EXCEPT ![w].pc =
                     IF EventOf(w) \in marked THEN "ack" ELSE "apply"]
    /\ UNCHANGED <<row, held, relay, window, stream, marked, applied, refused, faults>>

\* Mutant: The marker is written with an upsert: no duplicate key stops the second replica.
ApplyUpsert(w) ==
    /\ worker[w].pc = "apply"
    /\ marked' = marked \union {EventOf(w)}
    /\ applied' = [applied EXCEPT ![EventOf(w)] = @ + 1]
    /\ worker' = [worker EXCEPT ![w].pc = "ack"]
    /\ UNCHANGED <<row, held, relay, window, stream, refused, faults>>

\* The transaction: the marker and the change together. A marker that another
\* replica wrote meanwhile is a duplicate key and nothing is applied.
Apply(w) ==
    /\ worker[w].pc = "apply"
    /\ IF EventOf(w) \in marked THEN UNCHANGED <<marked, applied, refused>>
       ELSE /\ marked' = marked \union {EventOf(w)}
            /\ applied' = [applied EXCEPT ![EventOf(w)] = @ + 1]
    /\ worker' = [worker EXCEPT ![w].pc = "ack"]
    /\ UNCHANGED <<row, held, relay, window, stream, refused, faults>>

\* The change writes a key that a unique index of the subscriber already holds. The
\* transaction rolls back, the error is taken for the marker's, and the event is
\* acknowledged with neither its change nor a marker. No failure is needed for it.
ChangeRefused(w) ==
    /\ worker[w].pc = "apply"
    /\ EventOf(w) \notin marked
    /\ refused' = refused \union {EventOf(w)}
    /\ worker' = [worker EXCEPT ![w].pc = "ack"]
    /\ UNCHANGED <<row, held, relay, window, stream, marked, applied, faults>>

\* Mutant: The error handler acknowledges the message.
HandlerFailsAcked(w) ==
    /\ worker[w].pc \in {"check", "apply"}
    /\ Fault
    /\ stream' = [stream EXCEPT ![worker[w].at].st = "acked"]
    /\ worker' = [worker EXCEPT ![w] = IdleWorker]
    /\ UNCHANGED <<row, held, relay, window, marked, applied, refused>>

\* The handler throws: the transaction rolls back and the message is nak'ed.
HandlerFails(w) ==
    /\ worker[w].pc \in {"check", "apply"}
    /\ Fault
    /\ stream' = [stream EXCEPT ![worker[w].at].st = IF @ = "acked" THEN @ ELSE "ready"]
    /\ worker' = [worker EXCEPT ![w] = IdleWorker]
    /\ UNCHANGED <<row, held, relay, window, marked, applied, refused>>

Ack(w) ==
    /\ worker[w].pc = "ack"
    /\ stream' = [stream EXCEPT ![worker[w].at].st = "acked"]
    /\ worker' = [worker EXCEPT ![w] = IdleWorker]
    /\ UNCHANGED <<row, held, relay, window, marked, applied, refused, faults>>

\* The process stops: its message comes back when ack_wait ends.
WorkerStops(w) ==
    /\ worker[w].pc # "idle"
    /\ Fault
    /\ stream' = [stream EXCEPT ![worker[w].at].st = IF @ = "acked" THEN @ ELSE "ready"]
    /\ worker' = [worker EXCEPT ![w] = IdleWorker]
    /\ UNCHANGED <<row, held, relay, window, marked, applied, refused>>

-----------------------------------------------------------------------------
RelayNext(r) == Claim(r) \/ Publish(r) \/ PublishFails(r) \/ Mark(r) \/ RelayStops(r)
WorkerNext(w) ==
    \/ \E c \in Copies : Deliver(w, c)
    \/ CheckMarker(w) \/ Apply(w) \/ ChangeRefused(w) \/ HandlerFails(w)
    \/ Ack(w) \/ WorkerStops(w)

Next ==
    \/ \E e \in Events : RecordEvent(e) \/ LockEnds(e) \/ WindowEnds(e)
    \/ \E c \in Copies : AckWaitEnds(c)
    \/ \E r \in Relays : RelayNext(r)
    \/ \E w \in Workers : WorkerNext(w)

Spec == Init /\ [][Next]_vars

\* The relay polls every 250 ms and the consumer pulls as long as the process
\* runs; a lock ends by the clock.
Fairness ==
    /\ \A e \in Events : WF_vars(LockEnds(e))
    /\ \A r \in Relays : WF_vars(Claim(r) \/ Publish(r) \/ Mark(r))
    /\ \A w \in Workers :
          WF_vars((\E c \in Copies : Deliver(w, c)) \/ CheckMarker(w) \/ Apply(w) \/ Ack(w))
FairSpec == Spec /\ Fairness

-----------------------------------------------------------------------------
(* Properties *)

\* The rows, locks, messages, handlers and counters keep their types.
TypeOK ==
    /\ row \in [Events -> {"none", "pending", "published", "deleted"}]
    /\ held \subseteq Events
    /\ relay \in [Relays -> [pc : {"idle", "publish", "mark"}, at : Events \union {NoEvent}]]
    /\ \A r \in Relays : relay[r].pc # "idle" => relay[r].at \in Events
    /\ window \subseteq Events
    /\ stream \in [Copies -> [st : {"none", "ready", "sent", "acked"}, tries : 0..MaxDeliver]]
    /\ worker \in [Workers -> [pc : {"idle", "check", "apply", "ack"},
                              at : Copies \union {NoCopy}]]
    /\ \A w \in Workers : worker[w].pc # "idle" => worker[w].at \in Copies
    /\ marked \subseteq Events
    /\ applied \in [Events -> Nat]
    /\ refused \subseteq Events
    /\ faults \in 0..MaxFaults

\* A recorded event is at every moment still in the outbox, or in the stream and
\* not acknowledged, or handled: whatever crashes, times out or is sent twice, no
\* failure drops it. (After max_deliver the stream only keeps it.) The one event that
\* is lost, against "No event is lost" (docs/architecture.md), is one whose change a
\* unique index of the subscriber refused: handleOnce takes it for a duplicate.
NoEventLost ==
    \A e \in Events :
        \/ row[e] \in {"none", "pending"}
        \/ e \in marked \union refused
        \/ \E n \in 1..MaxCopies : stream[<<e, n>>].st \in {"ready", "sent"}

\* The change of an event commits at most once, and exactly when its marker
\* does, however many copies of the event and replicas of the subscriber there are.
HandledOnce == \A e \in Events : applied[e] = IF e \in marked THEN 1 ELSE 0

\* The detailed delivery implements the contract: an event is handled only after it
\* was recorded, and once; and every recorded event is in the end handled or refused,
\* as long as it fails fewer times than max_deliver.
C == INSTANCE EventContract WITH
        recorded <- {e \in Events : row[e] # "none"},
        effects <- applied
KeepsTheContract == C!Contract

=============================================================================
