---------------------------- MODULE RecordWrites ----------------------------
(***************************************************************************)
(* records-service: the writes of one entity (records.service.ts).  Every  *)
(* operation reads the record first, decides over several calls to other   *)
(* services, and writes in one transaction that it guards in its own way:  *)
(* an update by the time of the last write, a status change by the status, *)
(* a delete by nothing.  Next to the records stands the collection of the  *)
(* values of the unique field, and each write puts one event in the outbox.*)
(***************************************************************************)
EXTENDS Naturals, Sequences, FiniteSets, SequencesExt

CONSTANTS
    Callers,    \* requests in flight at one time
    Ids,        \* identifiers of records
    Values,     \* values of the entity's unique field
    Keys,       \* source keys of one pack or automation
    MaxWrites,  \* bound: committed writes
    None        \* no record, no key, no holder

VARIABLES
    docs,       \* the records collection
    uniques,    \* value -> the record that holds it
    log,        \* the events of the outbox, in commit order
    calls       \* what each request in flight has read

recordsVars == <<docs, uniques, log, calls>>

Statuses == {"draft", "locked"}
NoCall == [op |-> "idle"]
Docs == [value : Values, status : Statuses, live : BOOLEAN,
         stamp : 1..MaxWrites, key : Keys \cup {None}]

Exists(id) == docs[id] # None
Live(id) == Exists(id) /\ docs[id].live
Holders(k) == {id \in Ids : Exists(id) /\ docs[id].key = k}

\* updatedAt, set by every write, is the number of the write: two writes of one
\* record are taken to be at least a millisecond apart.
Now == Len(log) + 1
CanWrite == Len(log) < MaxWrites

RecordsInit ==
    /\ docs = [id \in Ids |-> None]
    /\ uniques = [v \in Values |-> None]
    /\ log = <<>>
    /\ calls = [c \in Callers |-> NoCall]

Ask(c, call) == calls[c] = NoCall /\ CanWrite /\ calls' = [calls EXCEPT ![c] = call]
             /\ UNCHANGED <<docs, uniques, log>>
AnswerCall(c) == calls' = [calls EXCEPT ![c] = NoCall]
Refuse(c) == AnswerCall(c) /\ UNCHANGED <<docs, uniques, log>>
Record(event) == log' = Append(log, event)

\* The unique index lets a value pass that nobody, or the record itself, holds.
Free(v, id) == uniques[v] \in {None, id}
Without(id) == [v \in Values |-> IF uniques[v] = id THEN None ELSE uniques[v]]
\* The changed unique fields of a record are deleted and created.
WriteUniques(id, v) == uniques' = [Without(id) EXCEPT ![v] = id]

-----------------------------------------------------------------------------
\* A create by a user, or by an automation or pack with a source key. A key that a
\* record holds answers with that record, deleted or not, and writes nothing.
Create(c, v, k) ==
    /\ k # None => Holders(k) = {}
    /\ Ask(c, [op |-> "create", value |-> v, key |-> k])

\* The insert: both unique indexes answer for the others in flight.
CommitCreate(c, id) ==
    LET call == calls[c] IN
    /\ call.op = "create"
    /\ CanWrite
    /\ ~Exists(id)
    /\ IF Free(call.value, id) /\ (call.key # None => Holders(call.key) = {})
       THEN /\ docs' = [docs EXCEPT ![id] = [value |-> call.value, status |-> "draft",
                          live |-> TRUE, stamp |-> Now, key |-> call.key]]
            /\ WriteUniques(id, call.value)
            /\ Record([type |-> "created", id |-> id, to |-> call.value])
            /\ AnswerCall(c)
       ELSE Refuse(c)

\* A user's update is refused in a locked status; a system's is not.
Update(c, id, v, user) ==
    /\ Live(id)
    /\ docs[id].value # v
    /\ user => docs[id].status # "locked"
    /\ Ask(c, [op |-> "update", id |-> id, doc |-> docs[id], value |-> v, user |-> user])

UpdateIf(c, unchanged(_)) ==
    LET call == calls[c] IN
    /\ call.op = "update"
    /\ CanWrite
    /\ IF unchanged(call) /\ Free(call.value, call.id)
       THEN /\ docs' = [docs EXCEPT ![call.id].value = call.value, ![call.id].stamp = Now]
            /\ WriteUniques(call.id, call.value)
            /\ Record([type |-> "updated", id |-> call.id, from |-> call.doc.value,
                       to |-> call.value, status |-> call.doc.status, user |-> call.user])
            /\ AnswerCall(c)
       ELSE Refuse(c)

\* Mutant: the write is guarded by the identifier alone.
CommitUpdateById(c) == UpdateIf(c, LAMBDA call : TRUE)

\* The write is guarded by updatedAt; someone else's write in between is a conflict.
CommitUpdate(c) == UpdateIf(c, LAMBDA call : docs[call.id].stamp = call.doc.stamp)

Delete(c, id) ==
    /\ Live(id)
    /\ docs[id].status # "locked"
    /\ Ask(c, [op |-> "delete", id |-> id, doc |-> docs[id]])

\* The delete itself looks at nothing: the record may have moved on since it was read.
CommitDelete(c) ==
    LET call == calls[c] IN
    /\ call.op = "delete"
    /\ CanWrite
    /\ docs' = [docs EXCEPT ![call.id].live = FALSE, ![call.id].stamp = Now]
    /\ uniques' = Without(call.id)
    /\ Record([type |-> "deleted", id |-> call.id, status |-> call.doc.status])
    /\ AnswerCall(c)

\* workflow-service moves the status from the one it knows.
SetRecordStatus(c, id, to) ==
    /\ Live(id)
    /\ docs[id].status # to
    /\ Ask(c, [op |-> "status", id |-> id, from |-> docs[id].status, to |-> to])

StatusIf(c, unchanged(_)) ==
    LET call == calls[c] IN
    /\ call.op = "status"
    /\ CanWrite
    /\ IF unchanged(call)
       THEN /\ docs' = [docs EXCEPT ![call.id].status = call.to, ![call.id].stamp = Now]
            /\ Record([type |-> "status", id |-> call.id, from |-> call.from, to |-> call.to])
            /\ AnswerCall(c)
            /\ UNCHANGED uniques
       ELSE Refuse(c)

\* Mutant: the status is written without looking at the present one.
CommitStatusBlind(c) == StatusIf(c, LAMBDA call : TRUE)

\* Guarded by the status alone: a record deleted in between moves all the same.
CommitStatus(c) == StatusIf(c, LAMBDA call : docs[call.id].status = call.from)

\* A pack takes its samples away: the live records of its keys are listed once.
RemoveBySource(c) ==
    /\ \E id \in Ids : Live(id) /\ docs[id].key # None
    /\ Ask(c, [op |-> "purge", rest |-> {id \in Ids : Live(id) /\ docs[id].key # None}])

PurgeOne(c, id, kept) ==
    LET call == calls[c] IN
    /\ call.op = "purge"
    /\ id \in call.rest
    /\ CanWrite
    /\ docs' = [docs EXCEPT ![id].live = FALSE, ![id].stamp = Now, ![id].key = None]
    /\ uniques' = kept
    /\ Record([type |-> "deleted", id |-> id, status |-> docs[id].status])
    /\ calls' = [calls EXCEPT ![c] = IF call.rest = {id} THEN NoCall
                                     ELSE [call EXCEPT !.rest = @ \ {id}]]

\* Mutant: the values of a removed sample stay taken.
RemoveNextKeepingValues(c, id) == PurgeOne(c, id, uniques)

\* One transaction per listed record; its source key is freed.
RemoveNext(c, id) == PurgeOne(c, id, Without(id))

\* The process stops, or a call it makes fails, before the (next) transaction.
Abandon(c) == calls[c] # NoCall /\ Refuse(c)

RecordsNext == \E c \in Callers :
    \/ \E v \in Values, k \in Keys \cup {None} : Create(c, v, k)
    \/ \E id \in Ids : CommitCreate(c, id)
    \/ \E id \in Ids, v \in Values, user \in BOOLEAN : Update(c, id, v, user)
    \/ CommitUpdate(c)
    \/ \E id \in Ids : Delete(c, id)
    \/ CommitDelete(c)
    \/ \E id \in Ids, to \in Statuses : SetRecordStatus(c, id, to)
    \/ CommitStatus(c)
    \/ RemoveBySource(c)
    \/ \E id \in Ids : RemoveNext(c, id)
    \/ Abandon(c)

RecordsSpec == RecordsInit /\ [][RecordsNext]_recordsVars

-----------------------------------------------------------------------------
\* The records, the values held and the requests have their types.
RecordsTypeOK ==
    /\ docs \in [Ids -> Docs \cup {None}]
    /\ uniques \in [Values -> Ids \cup {None}]
    /\ Len(log) <= MaxWrites
    /\ \A c \in Callers : calls[c].op \in {"idle", "create", "update", "delete", "status", "purge"}

\* A value is held by exactly the live record that has it, and a source key by at
\* most one record, whatever updates, deletes and purges overlap (writeUniques, the
\* unique indexes and the transactions of records.service.ts).
OneHolder ==
    /\ \A v \in Values, id \in Ids : uniques[v] = id <=> Live(id) /\ docs[id].value = v
    /\ \A k \in Keys : Cardinality(Holders(k)) <= 1

\* The record as a reader of its events sees it, after each event of the log.
Unseen == [value |-> None, status |-> None, live |-> FALSE]
Apply(view, e) ==
    CASE e.type = "created" -> [value |-> e.to, status |-> "draft", live |-> TRUE]
      [] e.type = "updated" -> [view EXCEPT !.value = e.to]
      [] e.type = "status"  -> [view EXCEPT !.status = e.to]
      [] e.type = "deleted" -> [view EXCEPT !.live = FALSE]
Views(id) ==
    LET view[n \in 0..Len(log)] ==
            IF n = 0 THEN Unseen
            ELSE IF log[n].id = id THEN Apply(view[n - 1], log[n]) ELSE view[n - 1]
    IN view

\* The record as it is stored.
Shown(id) ==
    IF Exists(id)
    THEN [value |-> docs[id].value, status |-> docs[id].status, live |-> docs[id].live]
    ELSE Unseen

\* What an event says of the record it changed is what the events before it left.
Continues(e, before) ==
    /\ e.type = "updated" => before = [value |-> e.from, status |-> e.status, live |-> TRUE]
    /\ e.type = "status" => before.status = e.from

\* Consumers rebuild the record from its events: each update and status change starts
\* from what the events before it left, and all of them together give the record.
EventsReplay ==
    \A id \in Ids :
        LET view == Views(id) IN
        /\ \A n \in 1..Len(log) : log[n].id = id => Continues(log[n], view[n - 1])
        /\ view[Len(log)] = Shown(id)

\* A user's update never commits on a record that is locked at that moment, although
\* the lock was looked up before the calls to the other services.
LockedStep ==
    \A id \in Ids :
        Live(id) /\ docs[id].status = "locked" /\ docs'[id].value # docs[id].value
            => ~Last(log').user
LockedKeepsItsValue == [][LockedStep]_recordsVars
=============================================================================
