----------------------------- MODULE AuditChain -----------------------------
(***************************************************************************)
(* The audit chain of one tenant (audit-service): replicas append the      *)
(* events they receive in the transaction of handleOnce, verify() walks    *)
(* the chain with a cursor while they do, and somebody with access to the  *)
(* database may change records behind its back.                            *)
(*                                                                         *)
(* A hash is modelled as what it is computed from: the sequence of the     *)
(* contents of all records up to its own. Delivery (redelivered events,    *)
(* failed handlers) is in EventDelivery; here any event may come at any    *)
(* time and any number of times until its marker is written.               *)
(***************************************************************************)
EXTENDS Naturals, Sequences, FiniteSets

CONSTANTS
    AuditEvents, \* events of the tenant
    Forged,      \* a content no event has
    Workers,     \* replicas that append
    MaxTampers   \* bound: changes made behind the service's back

Contents == AuditEvents \union {Forged}
Positions == 1..(Cardinality(AuditEvents) + MaxTampers)
Genesis == <<>>
NoHead == [seq |-> 0, hash |-> Genesis]
Resting == [pc |-> "idle", event |-> Forged, seen |-> NoHead, taken |-> FALSE]
NotVerifying == [pc |-> "idle", head |-> NoHead, count |-> 0, prev |-> Genesis,
                 at |-> 0, first |-> 0, moved |-> FALSE]

VARIABLES
    records,   \* positions in use |-> [content, prevHash, hash]
    head,      \* audit_heads: the newest position
    marked,    \* events with a marker in processed_events
    worker,    \* replicas in append: the event, the head they read, and whether the
               \* position after it was in use then
    verifier,  \* verify: local variables; first and moved are history
    result,    \* the last result of verify
    dropped,   \* history: events that were acknowledged without a record
    tampered   \* history: positions changed behind the service's back

auditVars == <<records, head, marked, worker, verifier, result, dropped, tampered>>

\* chainHash: SHA-256 of the previous hash and the content.
ChainHash(prev, content) == Append(prev, content)

AuditInit ==
    /\ records = [s \in {} |-> <<>>]
    /\ head = NoHead
    /\ marked = {}
    /\ worker = [w \in Workers |-> Resting]
    /\ verifier = NotVerifying
    /\ result = [valid |-> TRUE, at |-> 0, first |-> 0, moved |-> FALSE]
    /\ dropped = {}
    /\ tampered = {}

Used == DOMAIN records

-----------------------------------------------------------------------------
(* append, in the transaction of handleOnce *)

\* The transaction starts: no marker yet, and the head is read. What it sees stays as it
\* is now.
BeginAppend(w, e) ==
    /\ worker[w].pc = "idle"
    /\ e \notin marked
    /\ worker' = [worker EXCEPT ![w] = [pc |-> "append", event |-> e, seen |-> head,
                                               taken |-> head.seq + 1 \in Used]]
    /\ UNCHANGED <<records, head, marked, verifier, result, dropped, tampered>>

Put(s, r) == [t \in Used \union {s} |-> IF t = s THEN r ELSE records[t]]

\* Mutant: neither the condition on the head nor the index on seq.
CommitUnguarded(w) ==
    LET e == worker[w].event
        seen == worker[w].seen
        hash == ChainHash(seen.hash, e)
    IN
    /\ worker[w].pc = "append"
    /\ e \notin marked
    /\ records' = Put(seen.seq + 1, [content |-> e, prevHash |-> seen.hash, hash |-> hash])
    /\ head' = [seq |-> seen.seq + 1, hash |-> hash]
    /\ marked' = marked \union {e}
    /\ worker' = [worker EXCEPT ![w] = Resting]
    /\ verifier' = [verifier EXCEPT !.moved = (verifier.pc = "walk")]
    /\ UNCHANGED <<result, dropped, tampered>>

\* It commits: marker, record and head together, if nobody took the marker, the
\* position or the head meanwhile.
CommitAppend(w) ==
    LET e == worker[w].event
        seen == worker[w].seen
        hash == ChainHash(seen.hash, e)
    IN
    /\ worker[w].pc = "append"
    /\ e \notin marked
    /\ seen.seq + 1 \notin Used
    /\ head.seq = seen.seq
    /\ records' = Put(seen.seq + 1, [content |-> e, prevHash |-> seen.hash, hash |-> hash])
    /\ head' = [seq |-> seen.seq + 1, hash |-> hash]
    /\ marked' = marked \union {e}
    /\ worker' = [worker EXCEPT ![w] = Resting]
    /\ verifier' = [verifier EXCEPT !.moved = (verifier.pc = "walk")]
    /\ UNCHANGED <<result, dropped, tampered>>

\* Mutant: the marker is written outside the transaction and stays.
FailMarked(w) ==
    /\ worker[w].pc = "append"
    /\ marked' = marked \union {worker[w].event}
    /\ worker' = [worker EXCEPT ![w] = Resting]
    /\ UNCHANGED <<records, head, verifier, result, dropped, tampered>>

\* It rolls back: a write conflict, a failure or a crash; the event comes again. A
\* position used since the transaction began is a conflict.
FailAppend(w) ==
    /\ worker[w].pc = "append"
    /\ worker' = [worker EXCEPT ![w] = Resting]
    /\ UNCHANGED <<records, head, marked, verifier, result, dropped, tampered>>

\* The position was in use before the transaction began: the unique index on seq refuses
\* the record, handleOnce takes the error for the marker's, and the event is acknowledged
\* without a record.
RefuseAppend(w) ==
    /\ worker[w].pc = "append"
    /\ worker[w].taken
    /\ worker[w].event \notin marked
    /\ dropped' = dropped \union {worker[w].event}
    /\ worker' = [worker EXCEPT ![w] = Resting]
    /\ UNCHANGED <<records, head, marked, verifier, result, tampered>>

-----------------------------------------------------------------------------
(* verify *)

VerifyStart ==
    /\ verifier.pc = "idle"
    /\ verifier' = [NotVerifying EXCEPT !.pc = "walk", !.head = head,
                       !.first = IF tampered = {} THEN 0
                                 ELSE CHOOSE s \in tampered : \A t \in tampered : s <= t]
    /\ UNCHANGED <<records, head, marked, worker, result, dropped, tampered>>

\* The next record of the cursor, which is sorted by seq.
IsNext(s) == s \in Used /\ verifier.at < s /\ \A t \in Used : verifier.at < t => s <= t

Report(valid, at) ==
    /\ result' = [valid |-> valid, at |-> at, first |-> verifier.first,
                  moved |-> verifier.moved]
    /\ verifier' = NotVerifying

\* Mutant: only the hash of the record itself is compared.
SoundContentOnly(s) == records[s].hash = ChainHash(records[s].prevHash, records[s].content)

\* No gap, linked to the record before, and the content is the one hashed.
Sound(s) ==
    /\ s = verifier.count + 1
    /\ records[s].prevHash = verifier.prev
    /\ records[s].hash = ChainHash(verifier.prev, records[s].content)

VerifyRecord(s) ==
    /\ verifier.pc = "walk"
    /\ IsNext(s)
    /\ Sound(s)
    /\ verifier' = [verifier EXCEPT !.count = @ + 1, !.prev = records[s].hash, !.at = s]
    /\ UNCHANGED <<records, head, marked, worker, result, dropped, tampered>>

\* A gap is reported where a record is missing, the rest at the record.
VerifyBroken(s) ==
    /\ verifier.pc = "walk"
    /\ IsNext(s)
    /\ ~Sound(s)
    /\ Report(FALSE, IF s # verifier.count + 1 THEN verifier.count + 1 ELSE s)
    /\ UNCHANGED <<records, head, marked, worker, dropped, tampered>>

\* Mutants: the last record is reported, or the head is off by one.
VerifyEndAtCount ==
    /\ verifier.pc = "walk"
    /\ \A s \in Used : s <= verifier.at
    /\ IF verifier.head = [seq |-> verifier.count, hash |-> verifier.prev]
       THEN Report(TRUE, 0) ELSE Report(FALSE, verifier.count - 1)
    /\ UNCHANGED <<records, head, marked, worker, dropped, tampered>>
VerifyEndFresh ==
    /\ verifier.pc = "walk"
    /\ \A s \in Used : s <= verifier.at
    /\ IF verifier.head.seq = verifier.count + 1 THEN Report(TRUE, 0)
       ELSE Report(FALSE, verifier.count + 1)
    /\ UNCHANGED <<records, head, marked, worker, dropped, tampered>>

\* The cursor is at its end: the head that was read first must be the last record.
VerifyEnd ==
    /\ verifier.pc = "walk"
    /\ \A s \in Used : s <= verifier.at
    /\ IF verifier.head = [seq |-> verifier.count, hash |-> verifier.prev]
       THEN Report(TRUE, 0) ELSE Report(FALSE, verifier.count + 1)
    /\ UNCHANGED <<records, head, marked, worker, dropped, tampered>>

-----------------------------------------------------------------------------
(* Somebody with write access to the database *)

\* Every change is at another position, so no change undoes one made before.
Tamper(s) ==
    /\ s \notin tampered
    /\ Cardinality(tampered) < MaxTampers
    /\ tampered' = tampered \union {s}
    /\ UNCHANGED <<head, marked, worker, verifier, result, dropped>>

\* A record gets another content, its hash is left or computed anew.
Edit(s) ==
    /\ s \in Used /\ Tamper(s)
    /\ \E hash \in {records[s].hash, ChainHash(records[s].prevHash, Forged)} :
         records' = Put(s, [records[s] EXCEPT !.content = Forged, !.hash = hash])

\* A record goes, in the middle or at the tail.
DeleteRecord(s) ==
    /\ s \in Used /\ Tamper(s)
    /\ records' = [t \in Used \ {s} |-> records[t]]

\* A record that fits is added after the newest one.
Insert ==
    /\ head.seq + 1 \notin Used /\ Tamper(head.seq + 1)
    /\ records' = Put(head.seq + 1, [content |-> Forged, prevHash |-> head.hash,
                                     hash |-> ChainHash(head.hash, Forged)])

-----------------------------------------------------------------------------
AuditNext ==
    \/ \E w \in Workers :
         \/ \E e \in AuditEvents : BeginAppend(w, e)
         \/ CommitAppend(w) \/ FailAppend(w) \/ RefuseAppend(w)
    \/ VerifyStart \/ VerifyEnd
    \/ \E s \in Positions : VerifyRecord(s) \/ VerifyBroken(s) \/ Edit(s) \/ DeleteRecord(s)
    \/ Insert

AuditSpec == AuditInit /\ [][AuditNext]_auditVars

-----------------------------------------------------------------------------
(* Properties *)

HeadRow == [seq : Nat, hash : Seq(Contents)]

\* Records, head, markers, replicas and the verifier keep their types.
AuditTypeOK ==
    /\ Used \subseteq Positions
    /\ \A s \in Used : records[s] \in [content : Contents, prevHash : Seq(Contents),
                                       hash : Seq(Contents)]
    /\ head \in HeadRow
    /\ marked \subseteq AuditEvents
    /\ worker \in [Workers -> [pc : {"idle", "append"}, event : Contents, seen : HeadRow,
                              taken : BOOLEAN]]
    /\ verifier \in [pc : {"idle", "walk"}, head : HeadRow, count : Nat,
                     prev : Seq(Contents), at : Nat, first : Nat, moved : BOOLEAN]
    /\ result \in [valid : BOOLEAN, at : Nat, first : Nat, moved : BOOLEAN]
    /\ dropped \subseteq AuditEvents
    /\ tampered \subseteq Positions

\* However many replicas append at once, the records are one chain without gaps
\* or forks from the first record to the head ("two writers can never fork the
\* chain", models.ts).
OneChain == tampered = {} =>
    /\ Used = 1..head.seq
    /\ \A s \in Used :
         /\ records[s].prevHash = IF s = 1 THEN Genesis ELSE records[s - 1].hash
         /\ records[s].hash = ChainHash(records[s].prevHash, records[s].content)
    /\ head.hash = IF head.seq = 0 THEN Genesis ELSE records[head.seq].hash

\* "Every business and security event from every service lands in its tenant's
\* chain": an event has its marker exactly when it has a record, and only one.
MarkedIsChained == tampered = {} =>
    /\ {records[s].content : s \in Used} = marked
    /\ Cardinality(Used) = Cardinality(marked)

\* While nobody changed the chain, no append is refused for good: replicas that meet at a
\* position conflict and try again.
NothingDropped == tampered = {} => dropped = {}

\* "Detects edited records, deleted or inserted records and a truncated tail":
\* a chain that was changed before verify started is never reported valid, also
\* when events are appended to it meanwhile.
VerifyDetects == result.valid => result.first = 0

\* The report points at a change, at the record itself or, when its hash was
\* computed anew, at the next one, and never past the first change there was when
\* verify started.
VerifyPointsAtChange ==
    ~result.valid /\ result.first # 0 =>
        /\ result.at <= result.first + 1
        /\ \E s \in tampered : result.at \in {s, s + 1}

\* A chain nobody changed is reported valid when nothing was appended to it while
\* verify walked. (An append in that time is reported as a broken chain: the head
\* is read before the records.)
QuietVerifyAccepts ==
    tampered = {} /\ ~result.moved => result.valid

\* The replicas append one gapless chain, an event is marked handled only when it is in
\* the chain, and none is passed over as long as nobody changed the chain; verify()
\* accepts no changed chain, points at the first change, and accepts a chain that nobody
\* changed (audit.service.ts, chain.ts).
ChainIsSound ==
    /\ OneChain /\ MarkedIsChained /\ NothingDropped
    /\ VerifyDetects /\ VerifyPointsAtChange /\ QuietVerifyAccepts
=============================================================================
