--------------------------- MODULE Delivery_proofs ---------------------------
(***************************************************************************)
(* Theorems about what becomes of a change: EventDelivery for every number *)
(* of events, replicas, deliveries and faults; StatusCopy for any states,  *)
(* changes that are allowed and pushes at once; and AutomationChains for   *)
(* any automations, workflow and MAX_DEPTH.                                *)
(***************************************************************************)
EXTENDS EventDelivery, StatusCopy, AutomationChains, TLAPS

USE DeliveryAssumption

\* An event the subscriber has answered: by its change and marker, or by the refusal of
\* one of its own indexes.
Answered == marked \union refused

USE DEF Answered

\* An event that needs the outbox no more: answered, or unacknowledged in the stream.
Kept(e) ==
    \/ e \in Answered
    \/ \E n \in 1..MaxCopies : stream[<<e, n>>].st \in {"ready", "sent"}

\* What the handlers in progress rely on: a message id of the window and a
\* publish that succeeded stand for a kept event; a message is only
\* acknowledged after its event was answered.
HandlersInv ==
    /\ \A e \in Events : row[e] \in {"published", "deleted"} => Kept(e)
    /\ \A e \in window : Kept(e)
    /\ \A r \in Relays : relay[r].pc = "mark" => Kept(relay[r].at)
    /\ \A w \in Workers : worker[w].pc = "ack" => EventOf(w) \in Answered

DeliveryInv == TypeOK /\ HandlersInv

-----------------------------------------------------------------------------
\* The places of the stream are pairs of an event and a copy number.
LEMMA CopyParts ==
  ASSUME NEW c \in Copies
  PROVE  c[1] \in Events /\ c[2] \in 1..MaxCopies /\ c = <<c[1], c[2]>>
BY DEF Copies

\* Publishing keeps the types, drops no copy and keeps the published event.
LEMMA StoredKeeps ==
  ASSUME TypeOK, NEW e \in Events, Stored(e), \A d \in window : Kept(d),
         marked' = marked, refused' = refused
  PROVE  /\ stream' \in [Copies -> [st : {"none", "ready", "sent", "acked"},
                                    tries : 0..MaxDeliver]]
         /\ window' \subseteq Events
         /\ \A d \in Events : Kept(d) => Kept(d)'
         /\ Kept(e)'
         /\ \A d \in window' : Kept(d)'
<1>1. CASE e \in window /\ UNCHANGED <<stream, window>>
  BY <1>1 DEF TypeOK, Kept
<1>2. CASE e \notin window /\ \E n \in 1..MaxCopies :
            /\ stream[<<e, n>>].st = "none"
            /\ stream' = [stream EXCEPT ![<<e, n>>].st = "ready"]
            /\ window' = window \union {e}
  <2>1. PICK n \in 1..MaxCopies :
            /\ stream[<<e, n>>].st = "none"
            /\ stream' = [stream EXCEPT ![<<e, n>>].st = "ready"]
            /\ window' = window \union {e}
    BY <1>2
  <2>2. <<e, n>> \in Copies
    BY DEF Copies
  <2>3. stream' \in [Copies -> [st : {"none", "ready", "sent", "acked"},
                                tries : 0..MaxDeliver]]
    BY <2>1, <2>2 DEF TypeOK
  <2>4. /\ stream'[<<e, n>>].st = "ready"
        /\ \A c \in Copies : c # <<e, n>> => stream'[c] = stream[c]
    BY <2>1, <2>2 DEF TypeOK
  <2>5. ASSUME NEW d \in Events, Kept(d)
        PROVE  Kept(d)'
    <3>1. CASE d \in Answered
      BY <3>1 DEF Kept
    <3>2. CASE \E k \in 1..MaxCopies : stream[<<d, k>>].st \in {"ready", "sent"}
      <4>1. PICK k \in 1..MaxCopies : stream[<<d, k>>].st \in {"ready", "sent"}
        BY <3>2
      <4>2. <<d, k>> \in Copies /\ <<d, k>> # <<e, n>>
        BY <2>1, <4>1 DEF Copies
      <4>3. stream'[<<d, k>>].st \in {"ready", "sent"}
        BY <2>4, <4>1, <4>2
      <4> QED BY <4>3 DEF Kept
    <3> QED BY <2>5, <3>1, <3>2 DEF Kept
  <2>6. Kept(e)'
    BY <2>4 DEF Kept
  <2> QED BY <2>1, <2>3, <2>5, <2>6 DEF TypeOK
<1> QED BY <1>1, <1>2 DEF Stored

\* A step that keeps every answer and every unacknowledged message, except those
\* of answered events, keeps the events.
LEMMA KeptStays ==
  ASSUME NEW e \in Events, Kept(e), Answered \subseteq Answered',
         \A c \in Copies : stream[c].st \in {"ready", "sent"}
            => stream'[c].st \in {"ready", "sent"} \/ c[1] \in Answered'
  PROVE  Kept(e)'
<1>1. CASE e \in Answered
  BY <1>1 DEF Kept
<1>2. CASE \E n \in 1..MaxCopies : stream[<<e, n>>].st \in {"ready", "sent"}
  <2>1. PICK n \in 1..MaxCopies : stream[<<e, n>>].st \in {"ready", "sent"}
    BY <1>2
  <2>2. <<e, n>> \in Copies /\ <<e, n>>[1] = e
    BY DEF Copies
  <2> QED BY <2>1, <2>2 DEF Kept
<1> QED BY <1>1, <1>2 DEF Kept

LEMMA DeliveryInit == Init => DeliveryInv
BY DEF Init, DeliveryInv, TypeOK, HandlersInv, IdleRelay, IdleWorker

\* Every step keeps the types and the invariant of the handlers.
LEMMA DeliveryStep == DeliveryInv /\ [Next]_vars => DeliveryInv'
<1> SUFFICES ASSUME DeliveryInv, [Next]_vars PROVE DeliveryInv'
  OBVIOUS
<1> USE DEF DeliveryInv
<1>1. ASSUME NEW e \in Events, RecordEvent(e) PROVE DeliveryInv'
  BY <1>1 DEF RecordEvent, TypeOK, HandlersInv, Kept, EventOf
<1>2. ASSUME NEW e \in Events, LockEnds(e) PROVE DeliveryInv'
  BY <1>2 DEF LockEnds, TypeOK, HandlersInv, Kept, EventOf
<1>3. ASSUME NEW e \in Events, WindowEnds(e) PROVE DeliveryInv'
  BY <1>3 DEF WindowEnds, Fault, TypeOK, HandlersInv, Kept, EventOf
<1>4. ASSUME NEW c \in Copies, AckWaitEnds(c) PROVE DeliveryInv'
  <2>1. TypeOK'
    BY <1>4 DEF AckWaitEnds, Fault, TypeOK
  <2>2. \A d \in Copies : stream[d].st \in {"ready", "sent"} => stream'[d].st \in {"ready", "sent"}
    BY <1>4 DEF AckWaitEnds, TypeOK
  <2>3. ASSUME NEW e \in Events, Kept(e) PROVE Kept(e)'
    BY <1>4, <2>2, <2>3, KeptStays DEF AckWaitEnds
  <2> QED BY <1>4, <2>1, <2>3 DEF AckWaitEnds, TypeOK, HandlersInv, EventOf
<1>5. ASSUME NEW r \in Relays, Claim(r) PROVE DeliveryInv'
  BY SMTT(20), <1>5 DEF Claim, Claimable, TypeOK, HandlersInv, Kept, EventOf
<1>6. ASSUME NEW r \in Relays, Publish(r) PROVE DeliveryInv'
  <2>0. PICK e \in Events : e = relay[r].at
    BY <1>6 DEF Publish, TypeOK
  <2>1. Stored(e) /\ marked' = marked /\ refused' = refused
    BY <1>6, <2>0 DEF Publish
  <2>2. /\ stream' \in [Copies -> [st : {"none", "ready", "sent", "acked"},
                                   tries : 0..MaxDeliver]]
        /\ window' \subseteq Events
        /\ \A d \in Events : Kept(d) => Kept(d)'
        /\ Kept(e)'
        /\ \A d \in window' : Kept(d)'
    BY <2>1, StoredKeeps DEF HandlersInv
  <2>3. TypeOK'
    BY <1>6, <2>0, <2>2 DEF Publish, TypeOK
  <2>4. \A q \in Relays : relay'[q].pc = "mark" => Kept(relay[q].at)'
    <3> SUFFICES ASSUME NEW q \in Relays, relay'[q].pc = "mark" PROVE Kept(relay[q].at)'
      OBVIOUS
    <3>1. CASE q = r
      <4>1. relay'[q].at = e
        BY <1>6, <2>0, <3>1 DEF Publish, TypeOK
      <4> QED BY <2>2, <4>1 DEF Kept
    <3>2. CASE q # r
      <4>1. relay'[q] = relay[q]
        BY <1>6, <3>2 DEF Publish, TypeOK
      <4>2. PICK d \in Events : d = relay[q].at
        BY <4>1 DEF TypeOK
      <4>3. Kept(d)
        BY <4>1, <4>2 DEF HandlersInv
      <4> QED BY <2>2, <4>1, <4>2, <4>3 DEF Kept
    <3> QED BY <3>1, <3>2
  <2>5. \A d \in Events : row'[d] \in {"published", "deleted"} => Kept(d)'
    BY <1>6, <2>2 DEF Publish, HandlersInv
  <2>6. \A w \in Workers : worker'[w].pc = "ack" => EventOf(w)' \in Answered'
    BY <1>6 DEF Publish, HandlersInv, EventOf
  <2> QED BY <2>2, <2>3, <2>4, <2>5, <2>6 DEF HandlersInv
<1>7. ASSUME NEW r \in Relays, PublishFails(r) PROVE DeliveryInv'
  <2>0. PICK e \in Events : e = relay[r].at
    BY <1>7 DEF PublishFails, TypeOK
  <2>1. marked' = marked /\ refused' = refused
    BY <1>7 DEF PublishFails
  <2>2. /\ stream' \in [Copies -> [st : {"none", "ready", "sent", "acked"},
                                   tries : 0..MaxDeliver]]
        /\ window' \subseteq Events
        /\ \A d \in Events : Kept(d) => Kept(d)'
        /\ \A d \in window' : Kept(d)'
    <3>1. CASE Stored(e)
      BY <2>1, <3>1, StoredKeeps DEF HandlersInv
    <3>2. CASE UNCHANGED <<stream, window>>
      BY <2>1, <3>2 DEF HandlersInv, Kept, TypeOK
    <3> QED BY <1>7, <2>0, <3>1, <3>2 DEF PublishFails
  <2>3. TypeOK'
    BY <1>7, <2>0, <2>2 DEF PublishFails, IdleRelay, Fault, TypeOK
  <2>4. \A q \in Relays : relay'[q].pc = "mark" => Kept(relay[q].at)'
    <3> SUFFICES ASSUME NEW q \in Relays, relay'[q].pc = "mark" PROVE Kept(relay[q].at)'
      OBVIOUS
    <3>1. relay'[q] = relay[q]
      BY <1>7 DEF PublishFails, IdleRelay, TypeOK
    <3>2. PICK d \in Events : d = relay[q].at
      BY <3>1 DEF TypeOK
    <3>3. Kept(d)
      BY <3>1, <3>2 DEF HandlersInv
    <3> QED BY <2>2, <3>1, <3>2, <3>3 DEF Kept
  <2>5. \A d \in Events : row'[d] \in {"published", "deleted"} => Kept(d)'
    BY <1>7, <2>2 DEF PublishFails, HandlersInv
  <2>6. \A w \in Workers : worker'[w].pc = "ack" => EventOf(w)' \in Answered'
    BY <1>7 DEF PublishFails, HandlersInv, EventOf
  <2> QED BY <2>2, <2>3, <2>4, <2>5, <2>6 DEF HandlersInv
<1>8. ASSUME NEW r \in Relays, Mark(r) PROVE DeliveryInv'
  BY <1>8 DEF Mark, IdleRelay, TypeOK, HandlersInv, Kept, EventOf
<1>9. ASSUME NEW r \in Relays, RelayStops(r) PROVE DeliveryInv'
  BY <1>9 DEF RelayStops, Fault, IdleRelay, TypeOK, HandlersInv, Kept, EventOf
<1>10. ASSUME NEW w \in Workers, NEW c \in Copies, Deliver(w, c) PROVE DeliveryInv'
  <2>1. TypeOK'
    BY <1>10 DEF Deliver, TypeOK
  <2>2. \A d \in Copies : stream[d].st \in {"ready", "sent"} => stream'[d].st \in {"ready", "sent"}
    BY <1>10 DEF Deliver, TypeOK
  <2>3. ASSUME NEW e \in Events, Kept(e) PROVE Kept(e)'
    BY <1>10, <2>2, <2>3, KeptStays DEF Deliver
  <2>4. \A v \in Workers : worker'[v].pc = "ack" => EventOf(v)' \in Answered'
    BY <1>10 DEF Deliver, TypeOK, HandlersInv, EventOf
  <2> QED BY <1>10, <2>1, <2>3, <2>4 DEF Deliver, TypeOK, HandlersInv
<1>11. ASSUME NEW w \in Workers, CheckMarker(w) PROVE DeliveryInv'
  BY <1>11 DEF CheckMarker, TypeOK, HandlersInv, Kept, EventOf
<1>12. ASSUME NEW w \in Workers, Apply(w) PROVE DeliveryInv'
  <2>1. EventOf(w) \in Events /\ EventOf(w) \in Answered' /\ Answered \subseteq Answered'
    BY <1>12, CopyParts DEF Apply, TypeOK, EventOf
  <2>2. TypeOK'
    <3>1. marked' \subseteq Events /\ applied' \in [Events -> Nat]
      <4>1. CASE EventOf(w) \in marked
        BY <1>12, <4>1 DEF Apply, TypeOK
      <4>2. CASE EventOf(w) \notin marked
        <5>1. PICK d \in Events : d = EventOf(w)
          BY <2>1
        <5>2. /\ marked' = marked \union {d}
              /\ applied' = [applied EXCEPT ![d] = applied[d] + 1]
          BY <1>12, <4>2, <5>1 DEF Apply
        <5>3. applied[d] + 1 \in Nat
          BY <5>1 DEF TypeOK
        <5> QED BY <5>1, <5>2, <5>3 DEF TypeOK
      <4> QED BY <4>1, <4>2
    <3> QED BY <1>12, <3>1 DEF Apply, TypeOK
  <2>3. ASSUME NEW e \in Events, Kept(e) PROVE Kept(e)'
    BY <1>12, <2>1, <2>3 DEF Apply, Kept
  <2>4. \A v \in Workers : worker'[v].pc = "ack" => EventOf(v)' \in Answered'
    BY <1>12, <2>1 DEF Apply, TypeOK, HandlersInv, EventOf
  <2> QED BY <1>12, <2>2, <2>3, <2>4 DEF Apply, TypeOK, HandlersInv
<1>16. ASSUME NEW w \in Workers, ChangeRefused(w) PROVE DeliveryInv'
  <2>1. EventOf(w) \in Events /\ EventOf(w) \in Answered' /\ Answered \subseteq Answered'
    BY <1>16, CopyParts DEF ChangeRefused, TypeOK, EventOf
  <2>2. TypeOK'
    BY <1>16, <2>1 DEF ChangeRefused, TypeOK
  <2>3. ASSUME NEW e \in Events, Kept(e) PROVE Kept(e)'
    BY <1>16, <2>1, <2>3 DEF ChangeRefused, Kept
  <2>4. \A v \in Workers : worker'[v].pc = "ack" => EventOf(v)' \in Answered'
    BY <1>16, <2>1 DEF ChangeRefused, TypeOK, HandlersInv, EventOf
  <2> QED BY <1>16, <2>2, <2>3, <2>4 DEF ChangeRefused, TypeOK, HandlersInv
<1>13. ASSUME NEW w \in Workers, HandlerFails(w) \/ WorkerStops(w) PROVE DeliveryInv'
  <2> DEFINE c == worker[w].at
  <2>1. /\ c \in Copies
        /\ stream' = [stream EXCEPT ![c].st = IF @ = "acked" THEN @ ELSE "ready"]
        /\ worker' = [worker EXCEPT ![w] = IdleWorker]
        /\ faults < MaxFaults /\ faults' = faults + 1
        /\ UNCHANGED <<row, held, relay, window, marked, applied, refused>>
    BY <1>13 DEF HandlerFails, WorkerStops, Fault, TypeOK
  <2>2. TypeOK'
    BY <2>1 DEF IdleWorker, TypeOK
  <2>3. \A d \in Copies : stream[d].st \in {"ready", "sent"} => stream'[d].st \in {"ready", "sent"}
    BY <2>1 DEF TypeOK
  <2>4. ASSUME NEW e \in Events, Kept(e) PROVE Kept(e)'
    BY <2>1, <2>3, <2>4, KeptStays
  <2>5. \A v \in Workers : worker'[v].pc = "ack" => EventOf(v)' \in Answered'
    BY <2>1 DEF IdleWorker, TypeOK, HandlersInv, EventOf
  <2> QED BY <2>1, <2>2, <2>4, <2>5 DEF TypeOK, HandlersInv
<1>14. ASSUME NEW w \in Workers, Ack(w) PROVE DeliveryInv'
  <2> DEFINE c == worker[w].at
  <2>1. c \in Copies /\ c[1] \in Answered
    BY <1>14 DEF Ack, TypeOK, HandlersInv, EventOf
  <2>2. TypeOK'
    BY <1>14, <2>1 DEF Ack, IdleWorker, TypeOK
  <2>3. \A d \in Copies : stream[d].st \in {"ready", "sent"}
           => stream'[d].st \in {"ready", "sent"} \/ d[1] \in Answered'
    BY <1>14, <2>1 DEF Ack, TypeOK
  <2>4. ASSUME NEW e \in Events, Kept(e) PROVE Kept(e)'
    BY <1>14, <2>3, <2>4, KeptStays DEF Ack
  <2>5. \A v \in Workers : worker'[v].pc = "ack" => EventOf(v)' \in Answered'
    BY <1>14 DEF Ack, IdleWorker, TypeOK, HandlersInv, EventOf
  <2> QED BY <1>14, <2>2, <2>4, <2>5 DEF Ack, TypeOK, HandlersInv
<1>15. CASE UNCHANGED vars
  BY <1>15 DEF vars, TypeOK, HandlersInv, Kept, EventOf
<1> QED
  BY <1>1, <1>2, <1>3, <1>4, <1>5, <1>6, <1>7, <1>8, <1>9, <1>10, <1>11, <1>12,
     <1>13, <1>14, <1>15, <1>16 DEF Next, RelayNext, WorkerNext

\* The outbox, the stream, the markers and every handler keep their types.
THEOREM DeliveryTypes == Spec => []TypeOK
<1>1. DeliveryInv => TypeOK
  BY DEF DeliveryInv
<1> QED BY <1>1, DeliveryInit, DeliveryStep, PTL DEF Spec

\* No failure, crash, timeout or duplicate drops a recorded event: it is in the
\* outbox, or unacknowledged in the stream, or handled - or a unique index of the
\* subscriber refused its change, which handleOnce takes for a duplicate.
THEOREM NothingIsLost == Spec => []NoEventLost
<1>1. DeliveryInv => NoEventLost
  BY DEF DeliveryInv, TypeOK, HandlersInv, NoEventLost, Kept
<1> QED BY <1>1, DeliveryInit, DeliveryStep, PTL DEF Spec

-----------------------------------------------------------------------------
\* Only the transaction of handleOnce changes the markers and the effects, and
\* it changes both or neither.
LEMMA HandledOnceStep == TypeOK /\ HandledOnce /\ [Next]_vars => HandledOnce'
<1> SUFFICES ASSUME TypeOK, HandledOnce, [Next]_vars PROVE HandledOnce'
  OBVIOUS
<1>1. CASE UNCHANGED <<marked, applied>>
  BY <1>1 DEF HandledOnce
<1>2. ASSUME NEW w \in Workers, Apply(w) PROVE HandledOnce'
  BY <1>2 DEF Apply, TypeOK, HandledOnce
<1> QED
  BY <1>1, <1>2 DEF Next, RelayNext, WorkerNext, RecordEvent, LockEnds, WindowEnds,
     AckWaitEnds, Claim, Publish, PublishFails, Mark, RelayStops, Deliver, CheckMarker,
     ChangeRefused, HandlerFails, Ack, WorkerStops, vars

\* However often an event is delivered, and to however many replicas, its change
\* commits once, with its marker.
THEOREM EventsAreHandledOnce == Spec => []HandledOnce
<1>1. Init => HandledOnce
  BY DEF Init, HandledOnce
<1>2. DeliveryInv => TypeOK
  BY DEF DeliveryInv
<1> QED BY <1>1, <1>2, DeliveryInit, DeliveryStep, HandledOnceStep, PTL DEF Spec

-----------------------------------------------------------------------------
\* Where the handler is past the first look at the markers its event is recorded:
\* only a recorded event is claimed, stored and delivered.
RecordedInv ==
    /\ \A r \in Relays : relay[r].pc # "idle" => row[relay[r].at] # "none"
    /\ \A c \in Copies : stream[c].st # "none" => row[c[1]] # "none"
    /\ \A w \in Workers : worker[w].pc # "idle" => row[EventOf(w)] # "none"
    /\ \A e \in marked : row[e] # "none"

\* A row that is written never disappears from the recorded ones.
LEMMA RecordedStays == TypeOK /\ [Next]_vars =>
                       \A e \in Events : row[e] # "none" => row'[e] # "none"
<1> SUFFICES ASSUME TypeOK, [Next]_vars
             PROVE  \A e \in Events : row[e] # "none" => row'[e] # "none"
  OBVIOUS
<1>1. CASE UNCHANGED row
  BY <1>1
<1>2. ASSUME NEW e \in Events, RecordEvent(e)
      PROVE  \A d \in Events : row[d] # "none" => row'[d] # "none"
  BY <1>2 DEF RecordEvent, TypeOK
<1>3. ASSUME NEW r \in Relays, Mark(r)
      PROVE  \A d \in Events : row[d] # "none" => row'[d] # "none"
  BY <1>3 DEF Mark, TypeOK
<1> QED
  BY <1>1, <1>2, <1>3 DEF Next, RelayNext, WorkerNext, LockEnds, WindowEnds,
     AckWaitEnds, Claim, Publish, PublishFails, RelayStops, Deliver, CheckMarker,
     Apply, ChangeRefused, HandlerFails, Ack, WorkerStops, vars

\* Publishing a recorded event puts only copies of it in the stream.
LEMMA StoredRecorded ==
  ASSUME TypeOK, NEW e \in Events, Stored(e), NEW c \in Copies,
         stream[c].st = "none", stream'[c].st # "none"
  PROVE  c[1] = e
<1>1. e \notin window
  BY DEF Stored
<1>2. PICK n \in 1..MaxCopies : stream' = [stream EXCEPT ![<<e, n>>].st = "ready"]
  BY <1>1 DEF Stored
<1>3. c = <<e, n>>
  BY <1>2 DEF TypeOK
<1> QED BY <1>3

LEMMA RecordedStep == TypeOK /\ RecordedInv /\ [Next]_vars => RecordedInv'
<1> SUFFICES ASSUME TypeOK, RecordedInv, [Next]_vars PROVE RecordedInv'
  OBVIOUS
<1>0. \A e \in Events : row[e] # "none" => row'[e] # "none"
  BY RecordedStays
<1>1. ASSUME NEW e \in Events, RecordEvent(e) \/ LockEnds(e) \/ WindowEnds(e)
      PROVE  RecordedInv'
  BY <1>0, <1>1, CopyParts DEF RecordEvent, LockEnds, WindowEnds, TypeOK, RecordedInv, EventOf
<1>2. ASSUME NEW c \in Copies, AckWaitEnds(c) PROVE RecordedInv'
  BY <1>2 DEF AckWaitEnds, TypeOK, RecordedInv, EventOf
<1>3. ASSUME NEW r \in Relays, Claim(r) PROVE RecordedInv'
  BY <1>3 DEF Claim, Claimable, TypeOK, RecordedInv, EventOf
<1>4. ASSUME NEW r \in Relays, Publish(r) \/ PublishFails(r) PROVE RecordedInv'
  <2>0. PICK e \in Events : e = relay[r].at
    BY <1>4 DEF Publish, PublishFails, TypeOK
  <2>1. row[e] # "none" /\ row' = row /\ worker' = worker /\ marked' = marked
    BY <1>4, <2>0 DEF Publish, PublishFails, RecordedInv
  <2>2. ASSUME NEW c \in Copies, stream'[c].st # "none" PROVE row[c[1]] # "none"
    <3>1. CASE stream[c].st # "none"
      BY <3>1 DEF RecordedInv
    <3>2. CASE stream[c].st = "none"
      <4>1. Stored(e)
        BY <1>4, <2>0, <2>2, <3>2 DEF Publish, PublishFails
      <4>2. c[1] = e
        BY <2>2, <3>2, <4>1, StoredRecorded
      <4> QED BY <2>1, <4>2
    <3> QED BY <3>1, <3>2
  <2>3. \A q \in Relays : relay'[q].pc # "idle" => row[relay'[q].at] # "none"
    BY <1>4, <2>0, <2>1 DEF Publish, PublishFails, IdleRelay, TypeOK, RecordedInv
  <2> QED BY <2>1, <2>2, <2>3 DEF RecordedInv, EventOf
<1>5. ASSUME NEW r \in Relays, Mark(r) \/ RelayStops(r) PROVE RecordedInv'
  <2>1. /\ \A q \in Relays : relay'[q].pc # "idle" => relay'[q] = relay[q]
        /\ UNCHANGED <<stream, worker, marked>>
    BY <1>5 DEF Mark, RelayStops, IdleRelay, TypeOK
  <2> QED BY <1>0, <2>1, CopyParts DEF TypeOK, RecordedInv, EventOf
<1>6. ASSUME NEW w \in Workers, NEW c \in Copies, Deliver(w, c) PROVE RecordedInv'
  BY <1>6 DEF Deliver, TypeOK, RecordedInv, EventOf
<1>7. ASSUME NEW w \in Workers, CheckMarker(w) PROVE RecordedInv'
  BY <1>7 DEF CheckMarker, TypeOK, RecordedInv, EventOf
<1>8. ASSUME NEW w \in Workers, Apply(w) PROVE RecordedInv'
  BY <1>8 DEF Apply, TypeOK, RecordedInv, EventOf
<1>11. ASSUME NEW w \in Workers, ChangeRefused(w) PROVE RecordedInv'
  BY <1>11 DEF ChangeRefused, TypeOK, RecordedInv, EventOf
<1>9. ASSUME NEW w \in Workers, HandlerFails(w) \/ Ack(w) \/ WorkerStops(w)
      PROVE  RecordedInv'
  <2> DEFINE c == worker[w].at
  <2>1. c \in Copies /\ row[c[1]] # "none"
    BY <1>9 DEF HandlerFails, Ack, WorkerStops, TypeOK, RecordedInv, EventOf
  <2>2. /\ \A d \in Copies : d # c => stream'[d] = stream[d]
        /\ \A v \in Workers : worker'[v].pc # "idle" => worker'[v] = worker[v]
        /\ UNCHANGED <<row, relay, marked>>
    BY <1>9, <2>1 DEF HandlerFails, Ack, WorkerStops, IdleWorker, TypeOK
  <2> QED BY <2>1, <2>2 DEF RecordedInv, EventOf
<1>10. CASE UNCHANGED vars
  BY <1>10 DEF vars, RecordedInv, EventOf
<1> QED
  BY <1>1, <1>2, <1>3, <1>4, <1>5, <1>6, <1>7, <1>8, <1>9, <1>10, <1>11
     DEF Next, RelayNext, WorkerNext

\* Every step of the delivery is a step of the contract or none: an event is
\* handled only after it was recorded, and once.
LEMMA ContractStep == TypeOK /\ RecordedInv /\ HandledOnce /\ [Next]_vars
                      => [C!ContractNext]_(C!contractVars)
<1> SUFFICES ASSUME TypeOK, RecordedInv, HandledOnce, [Next]_vars
             PROVE  [C!ContractNext]_(C!contractVars)
  OBVIOUS
<1>1. ASSUME NEW e \in Events, RecordEvent(e) PROVE C!ContractNext
  <2>1. {d \in Events : row'[d] # "none"} = {d \in Events : row[d] # "none"} \union {e}
    BY <1>1 DEF RecordEvent, TypeOK
  <2> QED BY <1>1, <2>1 DEF RecordEvent, C!ContractNext, C!Record
<1>2. ASSUME NEW w \in Workers, Apply(w) PROVE [C!ContractNext]_(C!contractVars)
  <2>1. PICK e \in Events : e = EventOf(w) /\ row[e] # "none" /\ row' = row
    BY <1>2, CopyParts DEF Apply, TypeOK, RecordedInv, EventOf
  <2>2. CASE e \in marked
    BY <1>2, <2>1, <2>2 DEF Apply, C!contractVars
  <2>3. CASE e \notin marked
    <3>1. applied[e] = 0 /\ applied' = [applied EXCEPT ![e] = 1]
      BY <1>2, <2>1, <2>3 DEF Apply, HandledOnce, TypeOK
    <3>2. refused' = refused
      BY <1>2 DEF Apply
    <3> QED BY <2>1, <3>1, <3>2 DEF C!ContractNext, C!Handle
  <2> QED BY <2>2, <2>3
<1>5. ASSUME NEW w \in Workers, ChangeRefused(w) PROVE C!ContractNext
  <2>1. PICK e \in Events : e = EventOf(w) /\ row[e] # "none" /\ row' = row
    BY <1>5, CopyParts DEF ChangeRefused, TypeOK, RecordedInv, EventOf
  <2> QED BY <1>5, <2>1 DEF ChangeRefused, HandledOnce, C!ContractNext, C!Refuse
<1>3. ASSUME NEW r \in Relays, Mark(r) PROVE UNCHANGED C!contractVars
  <2>1. row[relay[r].at] # "none" /\ relay[r].at \in Events
    BY <1>3 DEF Mark, TypeOK, RecordedInv
  <2>2. {d \in Events : row'[d] # "none"} = {d \in Events : row[d] # "none"}
    BY <1>3, <2>1 DEF Mark, TypeOK
  <2> QED BY <1>3, <2>2 DEF Mark, C!contractVars
<1>4. CASE UNCHANGED <<row, applied, refused>>
  BY <1>4 DEF C!contractVars
<1> QED
  BY <1>1, <1>2, <1>3, <1>4, <1>5 DEF Next, RelayNext, WorkerNext, LockEnds, WindowEnds,
     AckWaitEnds, Claim, Publish, PublishFails, RelayStops, Deliver, CheckMarker, HandlerFails, Ack, WorkerStops, vars

\* The delivery implements the safety part of its contract, for every number of
\* replicas, deliveries and faults.
THEOREM DeliveryKeepsContract == Spec => C!ContractInit /\ [][C!ContractNext]_(C!contractVars)
<1>1. Init => RecordedInv /\ HandledOnce /\ C!ContractInit
  BY DEF Init, RecordedInv, HandledOnce, C!ContractInit, IdleRelay, IdleWorker
<1>2. DeliveryInv => TypeOK
  BY DEF DeliveryInv
<1> QED BY <1>1, <1>2, DeliveryInit, DeliveryStep, RecordedStep, HandledOnceStep, ContractStep,
           PTL DEF Spec

-----------------------------------------------------------------------------
(* StatusCopy                                                              *)

\* A copy that a push or a late call carries is of a change the instance made.
Made(s) == <<s.from, s.to>> \in past

\* What a push in progress relies on.
CopiesInv ==
  /\ sync # NoSync => Made(sync)
  /\ \A s \in late : Made(s)
  /\ \A p \in Pushers :
       push[p].pc \in {"post", "check", "clear"} =>
         push[p].mine \in Sync /\ Made(push[p].mine)

\* Unless a change overtook a copy, there is one copy at a time, a push that got through
\* has nothing left to do but to remove the job, and the copy owed has its job.
DebtInv ==
  ~overtaken =>
    /\ sync # NoSync => job # 0
    /\ \A p \in Pushers :
         /\ push[p].pc \in {"post", "check", "clear"} => sync \in {push[p].mine, NoSync}
         /\ push[p].pc = "remove" => sync = NoSync

CopyInv == CopyTypeOK /\ CopiesInv

-----------------------------------------------------------------------------
(* Types                                                                   *)

LEMMA InitTypes == CopyInit => CopyTypeOK
BY CopyAssumption DEF CopyInit, CopyTypeOK, Pusher, Idle, NoSync, Sync

\* A step of one push that leaves it in its type leaves all in theirs.
LEMMA PushTypes ==
  ASSUME push \in [Pushers -> Pusher], NEW p \in Pushers, NEW l \in Pusher,
         push' = [push EXCEPT ![p] = l]
  PROVE  push' \in [Pushers -> Pusher]
OBVIOUS

LEMMA IdleType == Idle \in Pusher
BY CopyAssumption DEF Idle, Pusher

LEMMA StepTypes ==
  ASSUME CopyInv, [CopyNext]_copyVars PROVE CopyTypeOK'
<1> USE CopyAssumption DEF CopyInv
<1>1. ASSUME NEW p \in Pushers, NEW to \in States, Act(p, to) PROVE CopyTypeOK'
  <2>1. sync' \in Sync BY <1>1 DEF Act, CopyTypeOK, Sync
  <2>2. acts' \in 0..MaxActs /\ job' \in 0..MaxActs
    <3>1. acts \in 0..MaxActs BY DEF CopyTypeOK
    <3>2. acts < MaxActs /\ acts' = acts + 1 /\ job' = acts + 1 BY <1>1 DEF Act
    <3> HIDE DEF CopyInv
    <3> QED BY <3>1, <3>2
  <2>3. [Idle EXCEPT !.pc = "read"] \in Pusher BY IdleType DEF Pusher
  <2>4. push' \in [Pushers -> Pusher] BY <1>1, <2>3 DEF Act, CopyTypeOK
  <2>5. past' \subseteq Moves BY <1>1 DEF Act, CopyTypeOK
  <2> QED BY <1>1, <2>1, <2>2, <2>4, <2>5 DEF Act, CopyTypeOK
<1>2. ASSUME NEW p \in Pushers, WorkerStart(p) PROVE CopyTypeOK'
  <2>1. [Idle EXCEPT !.pc = "read", !.worker = TRUE, !.claimed = job] \in Pusher
    BY DEF Idle, Pusher, CopyTypeOK
  <2>2. push' \in [Pushers -> Pusher] BY <1>2, <2>1 DEF WorkerStart, CopyTypeOK
  <2> QED BY <1>2, <2>2 DEF WorkerStart, CopyTypeOK
<1>3. ASSUME NEW p \in Pushers, ReadSync(p) PROVE CopyTypeOK'
  <2>1. CASE sync = NoSync
    <3>1. push' \in [Pushers -> Pusher] /\ job' \in 0..MaxActs
      BY <1>3, <2>1, IdleType DEF ReadSync, Done, CopyTypeOK
    <3> QED BY <1>3, <3>1 DEF ReadSync, CopyTypeOK
  <2>2. CASE sync # NoSync
    <3>1. [push[p] EXCEPT !.pc = "post", !.mine = sync] \in Pusher
      BY <2>2 DEF CopyTypeOK, Pusher
    <3>2. push' = [push EXCEPT ![p] = [push[p] EXCEPT !.pc = "post", !.mine = sync]]
      BY <1>3, <2>2 DEF ReadSync, CopyTypeOK
    <3>3. push' \in [Pushers -> Pusher] BY <3>1, <3>2 DEF CopyTypeOK
    <3> QED BY <1>3, <2>2, <3>3 DEF ReadSync, CopyTypeOK
  <2> QED BY <2>1, <2>2
<1>4. ASSUME NEW p \in Pushers, NEW pc \in {"check", "clear", "remove"}, Goto(p, pc)
      PROVE  push' \in [Pushers -> Pusher]
  <2>1. [push[p] EXCEPT !.pc = pc] \in Pusher BY DEF CopyTypeOK, Pusher
  <2> QED BY <1>4, <2>1 DEF Goto, CopyTypeOK
<1>5. ASSUME NEW p \in Pushers, push' = [push EXCEPT ![p] = Idle]
      PROVE  push' \in [Pushers -> Pusher]
  BY <1>5, IdleType DEF CopyTypeOK
<1>6. ASSUME NEW p \in Pushers, push[p].pc \in {"post", "check", "clear"}
      PROVE  push[p].mine \in Sync \/ push[p].mine = NoSync
  BY DEF CopyTypeOK, Pusher
<1> USE DEF CopyTypeOK
<1>7. ASSUME NEW p \in Pushers, PostOk(p) PROVE CopyTypeOK'
  BY <1>4, <1>7 DEF PostOk, SetStatus, CopiesInv, Sync
<1>8. ASSUME NEW p \in Pushers, PostRefused(p) PROVE CopyTypeOK'
  BY <1>4, <1>8 DEF PostRefused
<1>9. ASSUME NEW p \in Pushers, PostFails(p) PROVE CopyTypeOK'
  <2>1. push[p].mine \in Sync BY <1>9 DEF PostFails, CopiesInv
  <2>2. late' \subseteq Sync /\ record' \in States
    BY <1>9, <2>1 DEF PostFails, SetStatus, Sync
  <2>3. failures' \in 0..MaxFailures BY <1>9 DEF PostFails, Fails
  <2>4. push' \in [Pushers -> Pusher] BY <1>5, <1>9 DEF PostFails, GiveUp
  <2> QED BY <1>9, <2>2, <2>3, <2>4 DEF PostFails, GiveUp
<1>10. ASSUME NEW s \in late, LateCall(s) PROVE CopyTypeOK'
  <2>1. s \in Sync OBVIOUS
  <2>2. late' \subseteq Sync /\ record' \in States
    BY <1>10, <2>1 DEF LateCall, SetStatus, Sync
  <2> QED BY <1>10, <2>2 DEF LateCall
<1>11. ASSUME NEW p \in Pushers, CheckRecord(p) PROVE CopyTypeOK'
  <2>1. push' \in [Pushers -> Pusher] /\ job' = job
    BY <1>4, <1>5, <1>11 DEF CheckRecord, GiveUp
  <2> QED BY <1>11, <2>1 DEF CheckRecord
<1>12. ASSUME NEW p \in Pushers, Clear(p) PROVE CopyTypeOK'
  <2>1. push' \in [Pushers -> Pusher] BY <1>4, <1>12 DEF Clear
  <2> QED BY <1>12, <2>1 DEF Clear
<1>13. ASSUME NEW p \in Pushers, RemoveJob(p) PROVE CopyTypeOK'
  <2>1. push' \in [Pushers -> Pusher] BY <1>5, <1>13 DEF RemoveJob
  <2> QED BY <1>13, <2>1 DEF RemoveJob
<1>14. ASSUME NEW p \in Pushers, Crash(p) PROVE CopyTypeOK'
  <2>1. push' \in [Pushers -> Pusher] BY <1>5, <1>14 DEF Crash
  <2>2. failures' \in 0..MaxFailures BY <1>14 DEF Crash, Fails
  <2> QED BY <1>14, <2>1, <2>2 DEF Crash
<1>15. CASE UNCHANGED copyVars BY <1>15 DEF copyVars
<1> QED BY <1>1, <1>2, <1>3, <1>7, <1>8, <1>9, <1>10, <1>11, <1>12, <1>13, <1>14, <1>15
        DEF CopyNext, Push

-----------------------------------------------------------------------------
(* Copies                                                                  *)

\* What is kept when one push goes on and no change is forgotten.
LEMMA OnePush ==
  ASSUME CopyInv, NEW p \in Pushers, NEW l, push' = [push EXCEPT ![p] = l],
         past \subseteq past',
         l.pc \in {"post", "check", "clear"} => l.mine \in Sync /\ <<l.mine.from, l.mine.to>> \in past'
  PROVE  \A q \in Pushers :
           push'[q].pc \in {"post", "check", "clear"} =>
             push'[q].mine \in Sync /\ <<push'[q].mine.from, push'[q].mine.to>> \in past'
BY DEF CopyInv, CopyTypeOK, CopiesInv, Made

LEMMA StepCopies ==
  ASSUME CopyInv, [CopyNext]_copyVars PROVE CopiesInv'
<1> USE DEF CopyInv
<1>1. ASSUME NEW p \in Pushers, NEW to \in States, Act(p, to) PROVE CopiesInv'
  <2>1. push' = [push EXCEPT ![p] = [Idle EXCEPT !.pc = "read"]] /\ past \subseteq past'
        /\ sync' = [from |-> state, to |-> to] /\ <<state, to>> \in past' /\ late' = late
    BY <1>1 DEF Act
  <2>2. [Idle EXCEPT !.pc = "read"].pc = "read" BY DEF Idle
  <2> QED BY <2>1, <2>2, OnePush DEF CopiesInv, Made
<1>2. ASSUME NEW p \in Pushers, WorkerStart(p) PROVE CopiesInv'
  <2> DEFINE l == [Idle EXCEPT !.pc = "read", !.worker = TRUE, !.claimed = job]
  <2>1. push' = [push EXCEPT ![p] = l] /\ UNCHANGED <<past, sync, late>>
    BY <1>2 DEF WorkerStart
  <2>2. l.pc = "read" BY DEF Idle
  <2> HIDE DEF l
  <2> QED BY <2>1, <2>2, OnePush DEF CopiesInv, Made
<1>3. ASSUME NEW p \in Pushers, push' = [push EXCEPT ![p] = Idle],
             UNCHANGED past, sync' \in {sync, NoSync},
             \A s \in late' : s \in late \/ Made(s)
      PROVE  CopiesInv'
  <2>1. Idle.pc = "idle" BY DEF Idle
  <2> QED BY <1>3, <2>1, OnePush DEF CopiesInv, Made
<1>4. ASSUME NEW p \in Pushers, NEW pc \in {"check", "clear", "remove"}, Goto(p, pc),
             push[p].pc \in {"post", "check", "clear"},
             UNCHANGED <<past, late>>, sync' \in {sync, NoSync}
      PROVE  CopiesInv'
  <2> DEFINE l == [push[p] EXCEPT !.pc = pc]
  <2>1. push' = [push EXCEPT ![p] = l] BY <1>4 DEF Goto, CopyTypeOK
  <2>2. l.mine = push[p].mine BY DEF CopyTypeOK, Pusher
  <2>3. l.mine \in Sync /\ Made(l.mine) BY <1>4, <2>2 DEF CopiesInv
  <2> HIDE DEF l
  <2> QED BY <1>4, <2>1, <2>3, OnePush DEF CopiesInv, Made
<1>5. ASSUME NEW p \in Pushers, ReadSync(p) PROVE CopiesInv'
  <2>1. CASE sync = NoSync BY <1>3, <1>5, <2>1 DEF ReadSync, Done
  <2>2. CASE sync # NoSync
    <3> DEFINE l == [push[p] EXCEPT !.pc = "post", !.mine = sync]
    <3>1. push' = [push EXCEPT ![p] = l] /\ UNCHANGED <<past, sync, late>>
      BY <1>5, <2>2 DEF ReadSync, CopyTypeOK
    <3>2. l.mine = sync BY DEF CopyTypeOK, Pusher
    <3>3. sync \in Sync /\ Made(sync) BY <2>2 DEF CopyTypeOK, CopiesInv
    <3> HIDE DEF l
    <3> QED BY <3>1, <3>2, <3>3, OnePush DEF CopiesInv, Made
  <2> QED BY <2>1, <2>2
<1>6. ASSUME NEW p \in Pushers, PostOk(p) PROVE CopiesInv' BY <1>4, <1>6 DEF PostOk
<1>7. ASSUME NEW p \in Pushers, PostRefused(p) PROVE CopiesInv' BY <1>4, <1>7 DEF PostRefused
<1>8. ASSUME NEW p \in Pushers, PostFails(p) PROVE CopiesInv'
  <2>1. Made(push[p].mine) BY <1>8 DEF PostFails, CopiesInv
  <2>2. \A s \in late' : s \in late \/ Made(s) BY <1>8, <2>1 DEF PostFails
  <2> QED BY <1>3, <1>8, <2>2 DEF PostFails, GiveUp
<1>9. ASSUME NEW s \in late, LateCall(s) PROVE CopiesInv'
  BY <1>9 DEF LateCall, CopiesInv, Made
<1>10. ASSUME NEW p \in Pushers, CheckRecord(p) PROVE CopiesInv'
  BY <1>3, <1>4, <1>10 DEF CheckRecord, GiveUp
<1>11. ASSUME NEW p \in Pushers, Clear(p) PROVE CopiesInv' BY <1>4, <1>11 DEF Clear
<1>12. ASSUME NEW p \in Pushers, RemoveJob(p) PROVE CopiesInv' BY <1>3, <1>12 DEF RemoveJob
<1>13. ASSUME NEW p \in Pushers, Crash(p) PROVE CopiesInv' BY <1>3, <1>13 DEF Crash
<1>14. CASE UNCHANGED copyVars BY <1>14 DEF copyVars, CopiesInv, Made
<1> QED BY <1>1, <1>2, <1>5, <1>6, <1>7, <1>8, <1>9, <1>10, <1>11, <1>12, <1>13, <1>14
        DEF CopyNext, Push

LEMMA InitCopies == CopyInit => CopiesInv
BY DEF CopyInit, CopiesInv, Idle

\* Types, and what every push carries.
THEOREM CopiesAreSound == CopySpec => []CopyInv
<1>1. CopyInit => CopyInv BY InitTypes, InitCopies DEF CopyInv
<1>2. CopyInv /\ [CopyNext]_copyVars => CopyInv' BY StepTypes, StepCopies DEF CopyInv
<1> QED BY <1>1, <1>2, PTL DEF CopySpec

\* Lost, late, repeated and overlapping calls take the record only through changes that
\* the instance made (setStatus of records.service.ts compares the status).
THEOREM RecordIsFaithful == CopySpec => RecordFollowsHistory
<1>1. CopyInv /\ [CopyNext]_copyVars => (record' # record => <<record, record'>> \in past)
  <2> SUFFICES ASSUME CopyInv, [CopyNext]_copyVars, record' # record
               PROVE  <<record, record'>> \in past
    OBVIOUS
  <2>1. ASSUME NEW s, Made(s), SetStatus(s) PROVE <<record, record'>> \in past
    BY <2>1 DEF Made, SetStatus
  <2>2. ASSUME NEW p \in Pushers, PostOk(p) \/ PostFails(p)
        PROVE  <<record, record'>> \in past
    <3>1. Made(push[p].mine) BY <2>2 DEF PostOk, PostFails, CopyInv, CopiesInv
    <3> QED BY <2>1, <2>2, <3>1 DEF PostOk, PostFails
  <2>3. ASSUME NEW s \in late, LateCall(s) PROVE <<record, record'>> \in past
    BY <2>1, <2>3 DEF LateCall, CopyInv, CopiesInv
  <2> QED BY <2>2, <2>3 DEF CopyNext, copyVars, Push, Act, WorkerStart, ReadSync, PostRefused,
        CheckRecord, Clear, RemoveJob, Crash
<1>2. CopyInv /\ [CopyNext]_copyVars => [record' # record => <<record, record'>> \in past]_copyVars
  BY <1>1
<1>3. CopySpec => []CopyInv BY CopiesAreSound
<1> QED BY <1>2, <1>3, PTL DEF CopySpec, RecordFollowsHistory

-----------------------------------------------------------------------------
(* Debts                                                                   *)

LEMMA InitDebt == CopyInit => DebtInv
BY DEF CopyInit, DebtInv, Idle, NoSync

\* One push goes on, keeps the job while a copy is owed, and knows of no other copy.
LEMMA OneDebt ==
  ASSUME CopyInv, DebtInv, NEW p \in Pushers, NEW l, push' = [push EXCEPT ![p] = l],
         overtaken' = overtaken, sync' = sync,
         ~overtaken /\ sync # NoSync => job' # 0,
         ~overtaken /\ l.pc \in {"post", "check", "clear"} => sync \in {l.mine, NoSync},
         ~overtaken /\ l.pc = "remove" => sync = NoSync
  PROVE  DebtInv'
BY DEF DebtInv, CopyInv, CopyTypeOK

LEMMA StepDebt == ASSUME CopyInv, DebtInv, [CopyNext]_copyVars PROVE DebtInv'
<1>1. ASSUME NEW p \in Pushers, NEW to \in States, Act(p, to) PROVE DebtInv'
  <2>1. push' = [push EXCEPT ![p] = [Idle EXCEPT !.pc = "read"]] BY <1>1 DEF Act
  <2>2. job' # 0 BY <1>1 DEF Act, CopyInv, CopyTypeOK
  <2>3. overtaken' = (overtaken \/ ~Settled) BY <1>1 DEF Act
  <2>4. CASE Settled
    <3>1. \A q \in Pushers : push'[q].pc \in {"idle", "read"}
      BY <2>1, <2>4 DEF Settled, Idle, CopyInv, CopyTypeOK
    <3> QED BY <2>2, <3>1 DEF DebtInv
  <2>5. CASE ~Settled
    <3>1. overtaken' = TRUE BY <2>3, <2>5
    <3> QED BY <3>1 DEF DebtInv
  <2> QED BY <2>4, <2>5
<1>2. ASSUME NEW p \in Pushers, WorkerStart(p) PROVE DebtInv'
  <2> DEFINE l == [Idle EXCEPT !.pc = "read", !.worker = TRUE, !.claimed = job]
  <2>1. push' = [push EXCEPT ![p] = l] /\ UNCHANGED <<sync, job, overtaken>>
    BY <1>2 DEF WorkerStart
  <2>2. l.pc = "read" BY DEF Idle
  <2> HIDE DEF l
  <2> QED BY <2>1, <2>2, OneDebt DEF DebtInv
<1>3. ASSUME NEW p \in Pushers, push' = [push EXCEPT ![p] = Idle],
             UNCHANGED <<sync, overtaken>>, job' = job \/ sync = NoSync
      PROVE  DebtInv'
  <2>1. Idle.pc = "idle" BY DEF Idle
  <2> QED BY <1>3, <2>1, OneDebt DEF DebtInv
<1>4. ASSUME NEW p \in Pushers, NEW pc \in {"check", "clear"}, Goto(p, pc),
             push[p].pc \in {"post", "check"},
             UNCHANGED <<sync, job, overtaken>>
      PROVE  DebtInv'
  <2> DEFINE l == [push[p] EXCEPT !.pc = pc]
  <2>1. push' = [push EXCEPT ![p] = l] BY <1>4 DEF Goto, CopyInv, CopyTypeOK
  <2>2. l.mine = push[p].mine /\ l.pc = pc BY DEF CopyInv, CopyTypeOK, Pusher
  <2>3. ~overtaken => sync \in {l.mine, NoSync} BY <1>4, <2>2 DEF DebtInv
  <2> HIDE DEF l
  <2> QED BY <1>4, <2>1, <2>2, <2>3, OneDebt DEF DebtInv
<1>5. ASSUME NEW p \in Pushers, ReadSync(p) PROVE DebtInv'
  <2>1. CASE sync = NoSync BY <1>3, <1>5, <2>1 DEF ReadSync, Done
  <2>2. CASE sync # NoSync
    <3> DEFINE l == [push[p] EXCEPT !.pc = "post", !.mine = sync]
    <3>1. push' = [push EXCEPT ![p] = l] /\ UNCHANGED <<sync, job, overtaken>>
      BY <1>5, <2>2 DEF ReadSync, CopyInv, CopyTypeOK
    <3>2. l.mine = sync /\ l.pc = "post" BY DEF CopyInv, CopyTypeOK, Pusher
    <3> HIDE DEF l
    <3> QED BY <3>1, <3>2, OneDebt DEF DebtInv
  <2> QED BY <2>1, <2>2
<1>6. ASSUME NEW p \in Pushers, PostOk(p) PROVE DebtInv' BY <1>4, <1>6 DEF PostOk
<1>7. ASSUME NEW p \in Pushers, PostRefused(p) PROVE DebtInv' BY <1>4, <1>7 DEF PostRefused
<1>8. ASSUME NEW p \in Pushers, PostFails(p) PROVE DebtInv' BY <1>3, <1>8 DEF PostFails, GiveUp
<1>9. ASSUME NEW s \in late, LateCall(s) PROVE DebtInv' BY <1>9 DEF LateCall, DebtInv
<1>10. ASSUME NEW p \in Pushers, CheckRecord(p) PROVE DebtInv'
  BY <1>3, <1>4, <1>10 DEF CheckRecord, GiveUp
<1>11. ASSUME NEW p \in Pushers, Clear(p) PROVE DebtInv'
  <2> DEFINE l == [push[p] EXCEPT !.pc = "remove"]
  <2>1. push' = [push EXCEPT ![p] = l] /\ UNCHANGED <<job, overtaken>>
    BY <1>11 DEF Clear, Goto, CopyInv, CopyTypeOK
  <2>2. l.pc = "remove" BY DEF CopyInv, CopyTypeOK, Pusher
  <2>3. sync' = IF sync.to = push[p].mine.to THEN NoSync ELSE sync BY <1>11 DEF Clear
  <2>4. ~overtaken => sync' = NoSync BY <1>11, <2>3 DEF Clear, DebtInv
  <2> HIDE DEF l
  <2>5. \A q \in Pushers : q # p => push'[q] = push[q] BY <2>1 DEF CopyInv, CopyTypeOK
  <2>6. push'[p] = l BY <2>1 DEF CopyInv, CopyTypeOK
  <2> QED BY <2>1, <2>2, <2>4, <2>5, <2>6 DEF DebtInv
<1>12. ASSUME NEW p \in Pushers, RemoveJob(p) PROVE DebtInv'
  <2>1. push' = [push EXCEPT ![p] = Idle] /\ UNCHANGED <<sync, overtaken>>
    BY <1>12 DEF RemoveJob
  <2>2. ~overtaken => sync = NoSync BY <1>12 DEF RemoveJob, DebtInv
  <2>3. Idle.pc = "idle" BY DEF Idle
  <2> QED BY <2>1, <2>2, <2>3, OneDebt
<1>13. ASSUME NEW p \in Pushers, Crash(p) PROVE DebtInv' BY <1>3, <1>13 DEF Crash
<1>14. CASE UNCHANGED copyVars BY <1>14 DEF copyVars, DebtInv
<1> QED BY <1>1, <1>2, <1>5, <1>6, <1>7, <1>8, <1>9, <1>10, <1>11, <1>12, <1>13, <1>14
        DEF CopyNext, Push

\* A copy that is owed keeps the job that retries it, unless a change came before the last
\* copy had settled (transition and pushStatus of workflow.service.ts).
THEOREM DebtsAreKept == CopySpec => []DebtKept
<1>1. CopyInv /\ DebtInv /\ [CopyNext]_copyVars => DebtInv' BY StepDebt
<1>2. DebtInv => DebtKept BY DEF DebtInv, DebtKept
<1>3. CopySpec => []CopyInv BY CopiesAreSound
<1> QED BY <1>1, <1>2, <1>3, InitDebt, PTL DEF CopySpec

-----------------------------------------------------------------------------
(* AutomationChains *)

\* What n status copies without their depth are worth.
Worth(n) == MAX_DEPTH * n

\* A chain is no longer than its depth says, but for the copies that lost theirs.
Bounded(d, c, l) == d \in 0..MAX_DEPTH /\ c \in Nat /\ l \in Nat /\ c <= d + Worth(l)
EventBounded(e) == Bounded(e.depth, e.chain, e.lost)

\* A handler past the beginning of a run has an event that is not too deep.
HandlerBounded(b) ==
    /\ b \in [pc : {"idle", "run", "push"}, event : {b.event}, todo : {b.todo}, step : Nat]
    /\ EventBounded(b.event)
    /\ b.step > 0 => b.event.depth < MAX_DEPTH
    /\ b.pc = "push" /\ b.todo # <<>> => b.step > 0

HandlersBounded ==
    /\ handler = [h \in Handlers |-> handler[h]]
    /\ \A h \in Handlers : HandlerBounded(handler[h])

OwedBounded ==
    owed # NothingOwed =>
        /\ Bounded(owed.depth, owed.chain, owed.lost)
        /\ {owed.from, owed.to} \subseteq InstanceStates

ChainsInv ==
    /\ \A e \in BagToSet(events) : EventBounded(e)
    /\ HandlersBounded
    /\ OwedBounded
    /\ instanceState \in InstanceStates /\ status \in InstanceStates
    /\ changes \in 0..MaxChanges /\ troubles \in 0..MaxTroubles

LEMMA ChainConstants ==
  /\ MAX_DEPTH \in Nat /\ MAX_DEPTH > 0 /\ MaxChanges \in Nat /\ MaxTroubles \in Nat
BY ChainsAssumption

LEMMA WorthIs ==
  /\ Worth(0) = 0
  /\ \A n \in Nat : Worth(n) \in Nat /\ Worth(n + 1) = Worth(n) + MAX_DEPTH
BY ChainConstants DEF Worth

\* One more automation is one more in the chain and in the depth.
LEMMA OneDeeper ==
  ASSUME NEW d, NEW c, NEW l, Bounded(d, c, l), d < MAX_DEPTH
  PROVE  Bounded(d + 1, c + 1, l)
BY ChainConstants, WorthIs DEF Bounded

\* A copy made with another depth than that of its change.
LEMMA OtherDepth ==
  ASSUME NEW d, NEW c, NEW l, Bounded(d, c, l), NEW n \in 0..MAX_DEPTH
  PROVE  Bounded(n, c, IF n < d THEN l + 1 ELSE l)
<1>1. CASE n < d BY <1>1, ChainConstants, WorthIs DEF Bounded
<1>2. CASE ~(n < d) BY <1>2, ChainConstants, WorthIs DEF Bounded
<1> QED BY <1>1, <1>2

\* Adding an event to the bag, and taking one out.
LEMMA EmitIs ==
  ASSUME ChainsInv, NEW e, EventBounded(e), Emit(e)
  PROVE  \A x \in BagToSet(events') : EventBounded(x)
<1>1. BagToSet(events') = BagToSet(events) \cup {e}
  BY DEF Emit, BagToSet, SetToBag, (+)
<1> QED BY <1>1 DEF ChainsInv

LEMMA TakeIs ==
  ASSUME NEW e, events' = events (-) SetToBag({e})
  PROVE  BagToSet(events') \subseteq BagToSet(events)
BY DEF BagToSet, SetToBag, (-)

\* A handler in progress is exchanged for one that is bounded too.
LEMMA HandlerIs ==
  ASSUME ChainsInv, NEW h \in Handlers, NEW b, HandlerBounded(b),
         handler' = [handler EXCEPT ![h] = b]
  PROVE  HandlersBounded'
BY DEF ChainsInv, HandlersBounded

LEMMA IdleIsBounded == HandlerBounded(IdleHandler)
BY ChainConstants, WorthIs
   DEF HandlerBounded, IdleHandler, NoRecordEvent, Event, EventBounded, Bounded

LEMMA ChainsBegin == ChainsInit => ChainsInv
<1> SUFFICES ASSUME ChainsInit PROVE ChainsInv OBVIOUS
<1>1. BagToSet(events) = {} BY DEF ChainsInit, EmptyBag, SetToBag, BagToSet
<1>2. HandlersBounded BY IdleIsBounded DEF ChainsInit, HandlersBounded
<1>3. OwedBounded BY DEF ChainsInit, OwedBounded
<1>4. /\ instanceState \in InstanceStates /\ status \in InstanceStates
      /\ changes \in 0..MaxChanges /\ troubles \in 0..MaxTroubles
  BY ChainConstants DEF ChainsInit, InstanceStates
<1> QED BY <1>1, <1>2, <1>3, <1>4 DEF ChainsInv, HandlersBounded

\* What comes after a run, and after a step.
LEMMA RunningIs ==
  ASSUME NEW e, EventBounded(e), NEW todo, NEW step \in Nat, step > 0 => e.depth < MAX_DEPTH
  PROVE  HandlerBounded(Running(e, todo, step))
BY DEF HandlerBounded, Running

LEMMA NextRunIs ==
  ASSUME ChainsInv, NEW h \in Handlers, NextRun(h)
  PROVE  HandlersBounded'
<1> DEFINE c    == handler[h]
           next == IF Len(c.todo) = 1 THEN IdleHandler ELSE Running(c.event, Tail(c.todo), 0)
<1>1. EventBounded(c.event) BY DEF ChainsInv, HandlersBounded, HandlerBounded
<1>2. HandlerBounded(next) BY <1>1, RunningIs, IdleIsBounded
<1>3. handler' = [handler EXCEPT ![h] = next] BY DEF NextRun
<1> HIDE DEF next
<1> QED BY <1>2, <1>3, HandlerIs

LEMMA NextStepIs ==
  ASSUME ChainsInv, NEW h \in Handlers, NextStep(h),
         handler[h].step > 0
  PROVE  HandlersBounded'
<1> DEFINE c    == handler[h]
           next == Running(c.event, c.todo, c.step + 1)
<1>1. HandlerBounded(c) BY DEF ChainsInv, HandlersBounded
<1>2. CASE c.step < Len(Automation(h).steps)
  <2>1. HandlerBounded(next) BY <1>1, RunningIs DEF HandlerBounded
  <2>2. handler' = [handler EXCEPT ![h] = next] BY <1>2 DEF NextStep
  <2> HIDE DEF next
  <2> QED BY <2>1, <2>2, HandlerIs
<1>3. CASE ~(c.step < Len(Automation(h).steps))
  BY <1>3, NextRunIs DEF NextStep
<1> QED BY <1>2, <1>3

\* A step is one of a run whose event is not too deep, and its effect is one deeper.
LEMMA AtStepIs ==
  ASSUME ChainsInv, NEW h \in Handlers, NEW do, AtStep(h, do)
  PROVE  /\ handler[h].pc = "run" /\ handler[h].step > 0
         /\ Bounded(Depth(h) + 1, handler[h].event.chain + 1, handler[h].event.lost)
<1>1. HandlerBounded(handler[h]) BY DEF ChainsInv, HandlersBounded
<1>2. handler[h].pc = "run" /\ handler[h].step > 0 BY <1>1 DEF AtStep, HandlerBounded
<1> QED BY <1>1, <1>2, OneDeeper DEF HandlerBounded, EventBounded, Depth

LEMMA PushingIs ==
  ASSUME NEW b, HandlerBounded(b), b.todo = <<>> \/ b.step > 0
  PROVE  HandlerBounded([b EXCEPT !.pc = "push"])
<1> DEFINE new == [b EXCEPT !.pc = "push"]
<1>1. /\ new \in [pc : {"push"}, event : {b.event}, todo : {b.todo}, step : Nat]
      /\ new.step = b.step
  BY DEF HandlerBounded
<1> HIDE DEF new
<1>2. HandlerBounded(new) BY <1>1 DEF HandlerBounded
<1> QED BY <1>2 DEF new

LEMMA BeginningIs ==
  ASSUME NEW b, HandlerBounded(b), b.pc = "run", b.event.depth < MAX_DEPTH
  PROVE  HandlerBounded([b EXCEPT !.step = 1])
<1> DEFINE new == [b EXCEPT !.step = 1]
<1>1. /\ new \in [pc : {"run"}, event : {b.event}, todo : {b.todo}, step : {1}]
  BY DEF HandlerBounded
<1> HIDE DEF new
<1>2. HandlerBounded(new) BY <1>1 DEF HandlerBounded
<1> QED BY <1>2 DEF new

LEMMA HearsStep ==
  ASSUME ChainsInv, NEW h \in Handlers, NEW e \in BagToSet(events), OnRecordEvent(h, e)
  PROVE  ChainsInv'
<1>1. EventBounded(e) BY DEF ChainsInv
<1>2. \A x \in BagToSet(events') : EventBounded(x) BY TakeIs DEF OnRecordEvent, ChainsInv
<1>3. CASE Triggered(e) = <<>>
  BY <1>2, <1>3 DEF OnRecordEvent, ChainsInv, HandlersBounded, OwedBounded
<1>4. CASE Triggered(e) # <<>>
  <2> DEFINE b == Running(e, Triggered(e), 0)
  <2>1. HandlerBounded(b) BY <1>1, RunningIs
  <2>2. handler' = [handler EXCEPT ![h] = b] BY <1>4 DEF OnRecordEvent
  <2> HIDE DEF b
  <2>3. HandlersBounded' BY <2>1, <2>2, HandlerIs
  <2> QED BY <1>2, <2>3 DEF OnRecordEvent, ChainsInv, OwedBounded, HandlersBounded
<1> QED BY <1>3, <1>4

LEMMA SkipStep ==
  ASSUME ChainsInv, NEW h \in Handlers, Begin(h) \/ Skip(h) \/ StepFails(h)
  PROVE  ChainsInv'
<1>1. HandlersBounded'
  <2>1. CASE Begin(h)
    <3> DEFINE b == [handler[h] EXCEPT !.step = 1]
    <3>1. HandlerBounded(b) BY <2>1, BeginningIs DEF Begin, Depth, ChainsInv, HandlersBounded
    <3>2. handler' = [handler EXCEPT ![h] = b] BY <2>1 DEF Begin
    <3> HIDE DEF b
    <3> QED BY <3>1, <3>2, HandlerIs
  <2>2. CASE Skip(h) \/ StepFails(h)
    BY <2>2, NextRunIs DEF Skip, StepFails
  <2> QED BY <2>1, <2>2
<1>2. /\ UNCHANGED <<events, instanceState, owed, status, changes>>
      /\ troubles' \in 0..MaxTroubles
  BY ChainConstants DEF Begin, Skip, StepFails, ChainsInv
<1> QED BY <1>1, <1>2 DEF ChainsInv, OwedBounded, HandlersBounded

LEMMA ChangeStep ==
  ASSUME ChainsInv, NEW h \in Handlers, Update(h) \/ Create(h) \/ Document(h)
  PROVE  ChainsInv'
<1>1. PICK do : /\ AtStep(h, do) /\ NextStep(h)
                /\ UNCHANGED <<instanceState, owed, status, changes, troubles>>
  BY DEF Update, Create, Document
<1>2. /\ handler[h].pc = "run" /\ handler[h].step > 0
      /\ Bounded(Depth(h) + 1, handler[h].event.chain + 1, handler[h].event.lost)
  BY <1>1, AtStepIs
<1>3. HandlersBounded' BY <1>1, <1>2, NextStepIs
<1>4. \A x \in BagToSet(events') : EventBounded(x)
  <2>1. CASE UNCHANGED events BY <2>1 DEF ChainsInv
  <2>2. ASSUME NEW entity, NEW type, NEW what, Emit(Effect(h, entity, type, what, Depth(h) + 1))
        PROVE  \A x \in BagToSet(events') : EventBounded(x)
    <3> DEFINE e == Effect(h, entity, type, what, Depth(h) + 1)
    <3>1. EventBounded(e) BY <1>2 DEF Effect, Event, EventBounded
    <3> HIDE DEF e
    <3>2. Emit(e) BY <2>2 DEF e
    <3> QED BY <3>1, <3>2, EmitIs
  <2> QED BY <2>1, <2>2 DEF Update, Create, Document
<1> QED BY <1>1, <1>3, <1>4 DEF ChainsInv, OwedBounded, HandlersBounded

LEMMA CommitIs ==
  ASSUME ChainsInv, NEW a \in Actions, NEW d, NEW c, NEW l, Bounded(d, c, l), Commit(a, d, c, l)
  PROVE  OwedBounded' /\ instanceState' \in InstanceStates
BY DEF Commit, OwedBounded, InstanceStates, ChainsInv

LEMMA ActionStep ==
  ASSUME ChainsInv, NEW h \in Handlers, WorkflowAction(h)
  PROVE  ChainsInv'
<1>1. /\ handler[h].pc = "run" /\ handler[h].step > 0
      /\ Bounded(Depth(h) + 1, handler[h].event.chain + 1, handler[h].event.lost)
  BY AtStepIs DEF WorkflowAction
<1>2. HandlersBounded'
  <2>1. CASE NextRun(h) BY <2>1, NextRunIs
  <2>2. CASE handler' = [handler EXCEPT ![h].pc = "push"]
    <3> DEFINE b == [handler[h] EXCEPT !.pc = "push"]
    <3>1. HandlerBounded(b) BY <1>1, PushingIs DEF ChainsInv, HandlersBounded
    <3>2. handler' = [handler EXCEPT ![h] = b] BY <2>2
    <3> HIDE DEF b
    <3> QED BY <3>1, <3>2, HandlerIs
  <2> QED BY <2>1, <2>2 DEF WorkflowAction
<1>3. OwedBounded' /\ instanceState' \in InstanceStates
  <2>1. CASE UNCHANGED <<instanceState, owed>> BY <2>1 DEF ChainsInv, OwedBounded
  <2>2. ASSUME NEW a \in Actions,
               Commit(a, Depth(h) + 1, handler[h].event.chain + 1, handler[h].event.lost)
        PROVE  OwedBounded' /\ instanceState' \in InstanceStates
    BY <1>1, <2>2, CommitIs
  <2> QED BY <2>1, <2>2 DEF WorkflowAction
<1> QED BY <1>2, <1>3 DEF WorkflowAction, ChainsInv, HandlersBounded

LEMMA CopyIs ==
  ASSUME ChainsInv, CanCopy, NEW d \in 0..MAX_DEPTH, Copy(d)
  PROVE  /\ \A x \in BagToSet(events') : EventBounded(x)
         /\ OwedBounded' /\ status' \in InstanceStates
<1>1. /\ Bounded(owed.depth, owed.chain, owed.lost)
      /\ {owed.from, owed.to} \subseteq InstanceStates
  BY DEF ChainsInv, OwedBounded, CanCopy
<1>2. OwedBounded' /\ status' \in InstanceStates BY <1>1 DEF Copy, OwedBounded
<1>3. \A x \in BagToSet(events') : EventBounded(x)
  <2>1. CASE owed.from = status
    <3> DEFINE e == Event(Entity, "status_changed", owed.to, d, owed.chain,
                          IF d < owed.depth THEN owed.lost + 1 ELSE owed.lost)
    <3>1. EventBounded(e)
      <4>1. Bounded(d, owed.chain, IF d < owed.depth THEN owed.lost + 1 ELSE owed.lost)
        BY <1>1, OtherDepth
      <4> QED BY <4>1 DEF EventBounded, Event
    <3>2. Emit(e) BY <2>1 DEF Copy
    <3> HIDE DEF e
    <3> QED BY <3>1, <3>2, EmitIs
  <2>2. CASE owed.from # status BY <2>2 DEF Copy, ChainsInv
  <2> QED BY <2>1, <2>2
<1> QED BY <1>2, <1>3

LEMMA PushedIs ==
  ASSUME ChainsInv, NEW h \in Handlers, handler[h].pc = "push",
         IF handler[h].todo = <<>> THEN handler' = [handler EXCEPT ![h] = IdleHandler]
         ELSE NextStep(h)
  PROVE  HandlersBounded'
<1>1. CASE handler[h].todo = <<>> BY <1>1, IdleIsBounded, HandlerIs
<1>2. CASE handler[h].todo # <<>>
  <2>1. handler[h].step > 0 BY <1>2 DEF ChainsInv, HandlersBounded, HandlerBounded
  <2> QED BY <1>2, <2>1, NextStepIs
<1> QED BY <1>1, <1>2

LEMMA PushStep ==
  ASSUME ChainsInv, NEW h \in Handlers, PushState(h)
  PROVE  ChainsInv'
<1>1. HandlersBounded' BY PushedIs DEF PushState
<1>2. /\ \A x \in BagToSet(events') : EventBounded(x)
      /\ OwedBounded' /\ status' \in InstanceStates
  <2>1. CASE ~CanCopy BY <2>1 DEF PushState, ChainsInv, OwedBounded
  <2>2. CASE CanCopy
    <3> DEFINE d == IF handler[h].todo = <<>> THEN 0 ELSE Depth(h) + 1
    <3>1. d \in 0..MAX_DEPTH
      BY ChainConstants
         DEF PushState, ChainsInv, HandlersBounded, HandlerBounded, EventBounded, Bounded, Depth
    <3>2. Copy(d) BY <2>2 DEF PushState
    <3> HIDE DEF d
    <3> QED BY <2>2, <3>1, <3>2, CopyIs
  <2> QED BY <2>1, <2>2
<1> QED BY <1>1, <1>2 DEF PushState, ChainsInv, HandlersBounded

LEMMA PushFailsStep ==
  ASSUME ChainsInv, NEW h \in Handlers, PushFails(h)
  PROVE  ChainsInv'
<1>1. HandlersBounded' BY PushedIs DEF PushFails
<1>2. troubles' \in 0..MaxTroubles BY ChainConstants DEF PushFails, ChainsInv
<1> QED BY <1>1, <1>2 DEF PushFails, ChainsInv, OwedBounded, HandlersBounded

LEMMA SchedulerPushStep == ASSUME ChainsInv, SchedulerPush PROVE ChainsInv'
<1>1. /\ \A x \in BagToSet(events') : EventBounded(x)
      /\ OwedBounded' /\ status' \in InstanceStates
  BY ChainConstants, CopyIs DEF SchedulerPush
<1>2. troubles' \in 0..MaxTroubles BY ChainConstants DEF SchedulerPush, ChainsInv
<1> QED BY <1>1, <1>2 DEF SchedulerPush, ChainsInv, HandlersBounded

LEMMA UserStep ==
  ASSUME ChainsInv,
         \/ \E type \in {"created", "updated"}, f \in Fields : UserWrites(type, f)
         \/ \E h \in Handlers, a \in Actions : UserActs(h, a)
  PROVE  ChainsInv'
<1>1. Bounded(0, 0, 0) BY ChainConstants, WorthIs DEF Bounded
<1>2. ASSUME NEW type, NEW f, UserWrites(type, f) PROVE ChainsInv'
  <2> DEFINE e == Event(Entity, type, f, 0, 0, 0)
  <2>1. EventBounded(e) BY <1>1 DEF EventBounded, Event
  <2>2. Emit(e) BY <1>2 DEF UserWrites
  <2> HIDE DEF e
  <2>3. \A x \in BagToSet(events') : EventBounded(x) BY <2>1, <2>2, EmitIs
  <2>4. changes' \in 0..MaxChanges BY <1>2, ChainConstants DEF UserWrites, ChainsInv
  <2> QED BY <1>2, <2>3, <2>4 DEF UserWrites, ChainsInv, HandlersBounded, OwedBounded
<1>3. ASSUME NEW h \in Handlers, NEW a \in Actions, UserActs(h, a) PROVE ChainsInv'
  <2>1. HandlersBounded'
    <3> DEFINE b == [handler[h] EXCEPT !.pc = "push"]
    <3>1. HandlerBounded(b)
      BY <1>3, PushingIs DEF UserActs, IdleHandler, ChainsInv, HandlersBounded
    <3>2. handler' = [handler EXCEPT ![h] = b] BY <1>3 DEF UserActs
    <3> HIDE DEF b
    <3> QED BY <3>1, <3>2, HandlerIs
  <2>2. OwedBounded' /\ instanceState' \in InstanceStates
    BY <1>1, <1>3, CommitIs DEF UserActs
  <2>3. changes' \in 0..MaxChanges BY <1>3, ChainConstants DEF UserActs, ChainsInv
  <2> QED BY <1>3, <2>1, <2>2, <2>3 DEF UserActs, ChainsInv, HandlersBounded
<1> QED BY <1>2, <1>3

LEMMA ChainsStep == ChainsInv /\ [ChainsNext]_chainVars => ChainsInv'
<1> SUFFICES ASSUME ChainsInv, [ChainsNext]_chainVars PROVE ChainsInv'
  OBVIOUS
<1>1. CASE UNCHANGED chainVars BY <1>1 DEF ChainsInv, HandlersBounded, OwedBounded, chainVars
<1>2. ASSUME NEW h \in Handlers, Run(h) \/ StepFails(h) \/ PushFails(h) PROVE ChainsInv'
  BY <1>2, HearsStep, SkipStep, ChangeStep, ActionStep, PushStep, PushFailsStep DEF Run
<1>3. CASE SchedulerPush BY <1>3, SchedulerPushStep
<1>4. CASE \E f \in Fields : UserWrites("created", f) \/ UserWrites("updated", f)
  BY <1>4, UserStep
<1>5. CASE \E h \in Handlers, a \in Actions : UserActs(h, a) BY <1>5, UserStep
<1> QED BY <1>1, <1>2, <1>3, <1>4, <1>5 DEF ChainsNext

LEMMA ChainsPromise == ChainsInv => ChainsAreBounded
<1> SUFFICES ASSUME ChainsInv PROVE ChainsTypeOK /\ BeginsInTime BY DEF ChainsAreBounded
<1>1. ChainsTypeOK
  BY DEF ChainsInv, HandlersBounded, ChainsTypeOK, EventBounded, Bounded, HandlerBounded, OwedBounded
<1>2. ASSUME NEW h \in Handlers, handler[h].step > 0
      PROVE  handler[h].event.chain < MAX_DEPTH * (handler[h].event.lost + 1)
  <2>1. /\ Bounded(handler[h].event.depth, handler[h].event.chain, handler[h].event.lost)
        /\ handler[h].event.depth < MAX_DEPTH
    BY <1>2 DEF ChainsInv, HandlersBounded, HandlerBounded, EventBounded
  <2>2. handler[h].event.chain < Worth(handler[h].event.lost + 1)
    BY <2>1, ChainConstants, WorthIs DEF Bounded
  <2> QED BY <2>2 DEF Worth
<1> QED BY <1>1, <1>2 DEF BeginsInTime

\* Automations that trigger each other in a circle stop: whatever events overtake each
\* other, calls fail or the scheduler does, a run that begins follows fewer than MAX_DEPTH
\* automations, or MAX_DEPTH more for each copy of a state that lost its depth.
THEOREM ChainsStayBounded == ChainsSpec => []ChainsAreBounded
<1>1. ChainsInit => ChainsInv BY ChainsBegin
<1>2. ChainsInv /\ [ChainsNext]_chainVars => ChainsInv' BY ChainsStep
<1>3. ChainsInv => ChainsAreBounded BY ChainsPromise
<1> QED BY <1>1, <1>2, <1>3, PTL DEF ChainsSpec
=============================================================================
