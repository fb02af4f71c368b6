--------------------------- MODULE Records_proofs ---------------------------
(***************************************************************************)
(* Theorems about RecordWrites, for any records, values, source keys and   *)
(* number of requests in flight, and about AuditChain, the chain of their  *)
(* events, for any events, any number of replicas and any number of        *)
(* changes made behind the service's back.                                 *)
(***************************************************************************)
EXTENDS RecordWrites, AuditChain, FiniteSetTheorems, WellFoundedInduction, TLAPS

\* What the constants of the records are: None is neither a record, nor an identifier, nor a key.
ConstantsAreSound ==
  /\ None \notin Docs /\ None \notin Ids /\ None \notin Keys
  /\ MaxWrites \in Nat

Events ==
  [type : {"created"}, id : Ids, to : Values]
  \cup [type : {"updated"}, id : Ids, from : Values, to : Values, status : Statuses,
        user : BOOLEAN]
  \cup [type : {"deleted"}, id : Ids, status : Statuses]
  \cup [type : {"status"}, id : Ids, from : Statuses, to : Statuses]

\* What a request relies on when the records are d and n writes were made. An update
\* holds the record as it is, unless a write gave it another stamp.
CreateOK(call) ==
  call.op = "create" /\ call.value \in Values /\ call.key \in Keys \cup {None}

UpdateOK(call, d, n) ==
  /\ call.op = "update"
  /\ call.id \in Ids /\ d[call.id] # None
  /\ call.value \in Values /\ call.user \in BOOLEAN
  /\ call.doc \in Docs /\ call.doc.stamp <= n /\ call.doc.live
  /\ d[call.id].stamp = call.doc.stamp => d[call.id] = call.doc
  /\ call.user => call.doc.status # "locked"

DeleteOK(call, d) ==
  call.op = "delete" /\ call.id \in Ids /\ d[call.id] # None /\ call.doc \in Docs

StatusOK(call, d) ==
  /\ call.op = "status"
  /\ call.id \in Ids /\ d[call.id] # None
  /\ call.from \in Statuses /\ call.to \in Statuses

PurgeOK(call, d) ==
  /\ call = [op |-> "purge", rest |-> call.rest]
  /\ call.rest \subseteq Ids /\ \A id \in call.rest : d[id] # None

CallOK(call, d, n) ==
  \/ call = NoCall
  \/ CreateOK(call) \/ UpdateOK(call, d, n) \/ DeleteOK(call, d)
  \/ StatusOK(call, d) \/ PurgeOK(call, d)

DocMap == [Ids -> Docs \cup {None}]

\* The inductive invariant: types, stamps that are writes that were made, and requests
\* that are sound.
WritesInv ==
  /\ docs \in DocMap
  /\ uniques \in [Values -> Ids \cup {None}]
  /\ log \in Seq(Events) /\ Len(log) <= MaxWrites
  /\ \A id \in Ids : docs[id] # None => docs[id].stamp <= Len(log)
  /\ calls = [c \in Callers |-> calls[c]]
  /\ \A c \in Callers : CallOK(calls[c], docs, Len(log))

-----------------------------------------------------------------------------
\* A write that gives the next stamp to what it changes takes nothing from a request.
LEMMA CallKept ==
  ASSUME NEW c, NEW d \in DocMap, NEW e \in DocMap, NEW n \in Nat, NEW m \in Nat,
         CallOK(c, d, n), n <= m,
         \A id \in Ids : d[id] # None => e[id] # None,
         \A id \in Ids : e[id] = d[id] \/ e[id].stamp > n
  PROVE  CallOK(c, e, m)
<1>1. UpdateOK(c, d, n) => UpdateOK(c, e, m) BY DEF UpdateOK, Docs, DocMap
<1>2. DeleteOK(c, d) => DeleteOK(c, e) BY DEF DeleteOK
<1>3. StatusOK(c, d) => StatusOK(c, e) BY DEF StatusOK
<1>4. PurgeOK(c, d) => PurgeOK(c, e) BY DEF PurgeOK
<1> QED BY <1>1, <1>2, <1>3, <1>4 DEF CallOK

\* A transaction of one request: one event, and new stamps for what it changes.
LEMMA CommitStep ==
  ASSUME ConstantsAreSound, WritesInv, NEW c \in Callers, NEW l, NEW event \in Events,
         calls' = [calls EXCEPT ![c] = l], Record(event), CanWrite,
         docs' \in DocMap, uniques' \in [Values -> Ids \cup {None}],
         \A id \in Ids : docs[id] # None => docs'[id] # None,
         \A id \in Ids : docs'[id] = docs[id] \/ (docs'[id] # None /\ docs'[id].stamp = Now),
         CallOK(l, docs', Len(log) + 1)
  PROVE  WritesInv'
<1>1. log' \in Seq(Events) /\ Len(log') = Len(log) + 1 /\ Len(log) \in Nat
  BY DEF WritesInv, Record
<1>2. Len(log') <= MaxWrites BY <1>1 DEF CanWrite, ConstantsAreSound
<1>3. ASSUME NEW id \in Ids, docs'[id] # None PROVE docs'[id].stamp <= Len(log')
  <2>1. CASE docs'[id] = docs[id]
    <3>1. docs[id].stamp <= Len(log) /\ docs[id] \in Docs BY <1>3, <2>1 DEF WritesInv, DocMap
    <3> QED BY <1>1, <2>1, <3>1 DEF Docs
  <2>2. CASE docs'[id].stamp = Now BY <1>1, <2>2 DEF Now
  <2> QED BY <2>1, <2>2
<1>4. calls' = [b \in Callers |-> calls'[b]] BY DEF WritesInv
<1>5. ASSUME NEW b \in Callers PROVE CallOK(calls'[b], docs', Len(log'))
  <2>1. CASE b = c BY <1>1, <2>1 DEF WritesInv
  <2>2. CASE b # c
    <3>1. calls'[b] = calls[b] /\ CallOK(calls[b], docs, Len(log)) BY <2>2 DEF WritesInv
    <3>2. \A id \in Ids : docs'[id] = docs[id] \/ docs'[id].stamp > Len(log)
      BY <1>1 DEF Now
    <3>3. docs \in DocMap BY DEF WritesInv
    <3> QED BY <1>1, <3>1, <3>2, <3>3, CallKept
  <2> QED BY <2>1, <2>2
<1> QED BY <1>1, <1>2, <1>3, <1>4, <1>5 DEF WritesInv

\* A request that begins, goes on or ends without a write.
LEMMA QuietStep ==
  ASSUME WritesInv, NEW c \in Callers, NEW l, calls' = [calls EXCEPT ![c] = l],
         UNCHANGED <<docs, uniques, log>>, CallOK(l, docs, Len(log))
  PROVE  WritesInv'
BY DEF WritesInv

LEMMA RefuseStep ==
  ASSUME WritesInv, NEW c \in Callers, Refuse(c) PROVE WritesInv'
BY QuietStep DEF Refuse, AnswerCall, CallOK

LEMMA WithoutType ==
  ASSUME uniques \in [Values -> Ids \cup {None}], NEW id
  PROVE  Without(id) \in [Values -> Ids \cup {None}]
BY DEF Without

-----------------------------------------------------------------------------
(* What each transaction does                                              *)

\* A create that is not refused stores a record under a free identifier.
LEMMA CreateParts ==
  ASSUME ConstantsAreSound, WritesInv, NEW c \in Callers, NEW id \in Ids, CommitCreate(c, id)
  PROVE  \/ Refuse(c)
         \/ /\ ~Exists(id) /\ Free(calls[c].value, id)
            /\ calls[c].value \in Values /\ calls[c].key \in Keys \cup {None}
            /\ calls[c].key # None => Holders(calls[c].key) = {}
            /\ docs' = [docs EXCEPT ![id] =
                 [value |-> calls[c].value, status |-> "draft", live |-> TRUE,
                  stamp |-> Now, key |-> calls[c].key]]
            /\ docs'[id] \in Docs /\ docs' \in DocMap
            /\ WriteUniques(id, calls[c].value)
            /\ Record([type |-> "created", id |-> id, to |-> calls[c].value])
            /\ AnswerCall(c) /\ CanWrite
<1>1. CASE Refuse(c) BY <1>1
<1>2. CASE ~Refuse(c)
  <2>1. /\ calls[c].op = "create" /\ CanWrite /\ ~Exists(id)
        /\ Free(calls[c].value, id)
        /\ calls[c].key # None => Holders(calls[c].key) = {}
        /\ docs' = [docs EXCEPT ![id] =
             [value |-> calls[c].value, status |-> "draft", live |-> TRUE,
              stamp |-> Now, key |-> calls[c].key]]
        /\ WriteUniques(id, calls[c].value)
        /\ Record([type |-> "created", id |-> id, to |-> calls[c].value])
        /\ AnswerCall(c)
    BY <1>2 DEF CommitCreate
  <2>2. CreateOK(calls[c])
    BY <2>1 DEF WritesInv, CallOK, UpdateOK, DeleteOK, StatusOK, PurgeOK, NoCall
  <2>3. Now \in 1..MaxWrites BY <2>1 DEF Now, CanWrite, WritesInv, ConstantsAreSound
  <2>4. docs'[id] \in Docs /\ docs' \in DocMap
    BY <2>1, <2>2, <2>3 DEF CreateOK, Docs, DocMap, WritesInv, Statuses
  <2> QED BY <2>1, <2>2, <2>4 DEF CreateOK
<1> QED BY <1>1, <1>2

\* An update that is not refused changes the record that it read.
Edited(doc, v) == [doc EXCEPT !.value = v, !.stamp = Now]

LEMMA UpdateParts ==
  ASSUME ConstantsAreSound, WritesInv, NEW c \in Callers, CommitUpdate(c)
  PROVE  \/ Refuse(c)
         \/ LET call == calls[c] IN
            /\ call.id \in Ids /\ docs[call.id] = call.doc
            /\ call.doc \in Docs /\ call.doc.live /\ call.value \in Values
            /\ call.user \in BOOLEAN
            /\ call.user => call.doc.status # "locked"
            /\ Free(call.value, call.id)
            /\ docs' = [docs EXCEPT ![call.id] = Edited(call.doc, call.value)]
            /\ docs'[call.id].value = call.value /\ docs'[call.id].stamp = Now
            /\ docs'[call.id].live /\ docs'[call.id].key = docs[call.id].key
            /\ docs'[call.id] \in Docs /\ docs' \in DocMap
            /\ WriteUniques(call.id, call.value)
            /\ Record([type |-> "updated", id |-> call.id, from |-> call.doc.value,
                       to |-> call.value, status |-> call.doc.status, user |-> call.user])
            /\ AnswerCall(c) /\ CanWrite
<1> DEFINE call == calls[c]
<1>1. CASE Refuse(c) BY <1>1
<1>2. CASE ~Refuse(c)
  <2>1. /\ call.op = "update" /\ CanWrite
        /\ docs[call.id].stamp = call.doc.stamp
        /\ Free(call.value, call.id)
        /\ docs' = [docs EXCEPT ![call.id].value = call.value, ![call.id].stamp = Now]
        /\ WriteUniques(call.id, call.value)
        /\ Record([type |-> "updated", id |-> call.id, from |-> call.doc.value,
                   to |-> call.value, status |-> call.doc.status, user |-> call.user])
        /\ AnswerCall(c)
    BY <1>2 DEF CommitUpdate, UpdateIf
  <2>2. UpdateOK(call, docs, Len(log))
    BY <2>1 DEF WritesInv, CallOK, CreateOK, DeleteOK, StatusOK, PurgeOK, NoCall
  <2> HIDE DEF call
  <2>3. Now \in 1..MaxWrites BY <2>1 DEF Now, CanWrite, WritesInv, ConstantsAreSound
  <2>4. docs[call.id] = call.doc /\ call.doc \in Docs /\ call.id \in Ids
    BY <2>1, <2>2 DEF UpdateOK
  <2>5. docs' = [docs EXCEPT ![call.id] = Edited(call.doc, call.value)]
    BY <2>1, <2>4 DEF Docs, DocMap, WritesInv, Edited
  <2>6. /\ Edited(call.doc, call.value) \in Docs
        /\ Edited(call.doc, call.value).value = call.value
        /\ Edited(call.doc, call.value).stamp = Now
        /\ Edited(call.doc, call.value).live
        /\ Edited(call.doc, call.value).key = docs[call.id].key
    BY <2>2, <2>3, <2>4 DEF UpdateOK, Docs, Edited
  <2>7. docs'[call.id] = Edited(call.doc, call.value) /\ docs' \in DocMap
    BY <2>4, <2>5, <2>6 DEF DocMap, WritesInv
  <2> QED BY <2>1, <2>2, <2>4, <2>5, <2>6, <2>7 DEF UpdateOK, call
<1> QED BY <1>1, <1>2

\* A delete, a status change or the removal of a sample leaves values and identity alone.
Rewritten(id, doc) ==
  /\ docs' = [docs EXCEPT ![id] = doc]
  /\ doc \in Docs /\ docs[id] \in Docs /\ docs' \in DocMap
  /\ doc.value = docs[id].value /\ doc.stamp = Now /\ CanWrite

LEMMA DeleteParts ==
  ASSUME ConstantsAreSound, WritesInv, NEW c \in Callers, CommitDelete(c)
  PROVE  LET call == calls[c] IN
         /\ call.id \in Ids
         /\ Rewritten(call.id, [docs[call.id] EXCEPT !.live = FALSE, !.stamp = Now])
         /\ uniques' = Without(call.id)
         /\ \E event \in Events : Record(event)
         /\ AnswerCall(c)
<1> DEFINE call == calls[c]
<1>1. call.op = "delete" /\ CanWrite
      /\ docs' = [docs EXCEPT ![call.id].live = FALSE, ![call.id].stamp = Now]
      /\ uniques' = Without(call.id)
      /\ Record([type |-> "deleted", id |-> call.id, status |-> call.doc.status])
      /\ AnswerCall(c)
  BY DEF CommitDelete
<1>2. DeleteOK(call, docs)
  BY <1>1 DEF WritesInv, CallOK, CreateOK, UpdateOK, StatusOK, PurgeOK, NoCall
<1> HIDE DEF call
<1>3. Now \in 1..MaxWrites BY <1>1 DEF Now, CanWrite, WritesInv, ConstantsAreSound
<1>4. call.id \in Ids /\ docs[call.id] \in Docs BY <1>2 DEF DeleteOK, WritesInv, DocMap
<1>5. [docs[call.id] EXCEPT !.live = FALSE, !.stamp = Now] \in Docs BY <1>3, <1>4 DEF Docs
<1>6. docs' = [docs EXCEPT ![call.id] = [docs[call.id] EXCEPT !.live = FALSE, !.stamp = Now]]
  BY <1>1, <1>4 DEF WritesInv, DocMap, Docs
<1>7. docs' \in DocMap BY <1>4, <1>5, <1>6 DEF WritesInv, DocMap
<1>8. Rewritten(call.id, [docs[call.id] EXCEPT !.live = FALSE, !.stamp = Now])
  BY <1>1, <1>4, <1>5, <1>6, <1>7 DEF Rewritten, Docs
<1>9. [type |-> "deleted", id |-> call.id, status |-> call.doc.status] \in Events
  BY <1>2 DEF DeleteOK, Docs, Events
<1> QED BY <1>1, <1>4, <1>8, <1>9 DEF call

LEMMA StatusParts ==
  ASSUME ConstantsAreSound, WritesInv, NEW c \in Callers, CommitStatus(c)
  PROVE  \/ Refuse(c)
         \/ LET call == calls[c] IN
            /\ call.id \in Ids
            /\ Rewritten(call.id, [docs[call.id] EXCEPT !.status = call.to, !.stamp = Now])
            /\ \E event \in Events : Record(event)
            /\ AnswerCall(c) /\ UNCHANGED uniques
<1> DEFINE call == calls[c]
<1>0. CASE Refuse(c) BY <1>0
<1>1. CASE ~Refuse(c)
  <2>1. call.op = "status" /\ CanWrite
        /\ docs' = [docs EXCEPT ![call.id].status = call.to, ![call.id].stamp = Now]
        /\ Record([type |-> "status", id |-> call.id, from |-> call.from, to |-> call.to])
        /\ AnswerCall(c) /\ UNCHANGED uniques
    BY <1>1 DEF CommitStatus, StatusIf
  <2>2. StatusOK(call, docs)
    BY <2>1 DEF WritesInv, CallOK, CreateOK, UpdateOK, DeleteOK, PurgeOK, NoCall
  <2> HIDE DEF call
  <2>3. Now \in 1..MaxWrites BY <2>1 DEF Now, CanWrite, WritesInv, ConstantsAreSound
  <2>4. call.id \in Ids /\ docs[call.id] \in Docs BY <2>2 DEF StatusOK, WritesInv, DocMap
  <2>5. [docs[call.id] EXCEPT !.status = call.to, !.stamp = Now] \in Docs
    BY <2>2, <2>3, <2>4 DEF Docs, StatusOK
  <2>6. docs' = [docs EXCEPT ![call.id] = [docs[call.id] EXCEPT !.status = call.to, !.stamp = Now]]
    BY <2>1, <2>4 DEF WritesInv, DocMap, Docs
  <2>7. docs' \in DocMap BY <2>4, <2>5, <2>6 DEF WritesInv, DocMap
  <2>8. Rewritten(call.id, [docs[call.id] EXCEPT !.status = call.to, !.stamp = Now])
    BY <2>1, <2>4, <2>5, <2>6, <2>7 DEF Rewritten, Docs
  <2>9. [type |-> "status", id |-> call.id, from |-> call.from, to |-> call.to] \in Events
    BY <2>2 DEF StatusOK, Events
  <2> QED BY <2>1, <2>4, <2>8, <2>9 DEF call
<1> QED BY <1>0, <1>1

LEMMA PurgeParts ==
  ASSUME ConstantsAreSound, WritesInv, NEW c \in Callers, NEW id \in Ids, RemoveNext(c, id)
  PROVE  /\ Rewritten(id, [docs[id] EXCEPT !.live = FALSE, !.stamp = Now, !.key = None])
         /\ uniques' = Without(id)
         /\ \E event \in Events : Record(event)
         /\ \E l : calls' = [calls EXCEPT ![c] = l] /\ (l = NoCall \/ PurgeOK(l, docs'))
<1> DEFINE call == calls[c]
           new == [docs[id] EXCEPT !.live = FALSE, !.stamp = Now, !.key = None]
<1>1. call.op = "purge" /\ CanWrite /\ id \in call.rest
      /\ docs' = [docs EXCEPT ![id].live = FALSE, ![id].stamp = Now, ![id].key = None]
      /\ uniques' = Without(id)
      /\ Record([type |-> "deleted", id |-> id, status |-> docs[id].status])
      /\ calls' = [calls EXCEPT ![c] = IF call.rest = {id} THEN NoCall
                                       ELSE [call EXCEPT !.rest = @ \ {id}]]
  BY DEF RemoveNext, PurgeOne
<1>2. PurgeOK(call, docs)
  BY <1>1 DEF WritesInv, CallOK, CreateOK, UpdateOK, StatusOK, DeleteOK, NoCall
<1>3. Now \in 1..MaxWrites BY <1>1 DEF Now, CanWrite, WritesInv, ConstantsAreSound
<1>4. docs[id] \in Docs BY <1>1, <1>2 DEF PurgeOK, WritesInv, DocMap
<1>5. new \in Docs BY <1>3, <1>4 DEF Docs
<1>6. docs' = [docs EXCEPT ![id] = new] BY <1>1, <1>4 DEF WritesInv, DocMap, Docs
<1>7. new.value = docs[id].value /\ new.stamp = Now BY <1>4 DEF Docs
<1> HIDE DEF new
<1>8. docs' \in DocMap BY <1>4, <1>5, <1>6 DEF WritesInv, DocMap
<1>9. Rewritten(id, new) BY <1>1, <1>4, <1>5, <1>6, <1>7, <1>8 DEF Rewritten
<1>10. [type |-> "deleted", id |-> id, status |-> docs[id].status] \in Events
  BY <1>4 DEF Docs, Events
<1>11. CASE call.rest = {id}
  <2>1. calls' = [calls EXCEPT ![c] = NoCall] BY <1>1, <1>11
  <2>2. \E l : calls' = [calls EXCEPT ![c] = l] /\ (l = NoCall \/ PurgeOK(l, docs'))
    BY <2>1, Zenon
  <2> QED BY <1>1, <1>9, <1>10, <2>2 DEF new
<1>12. CASE call.rest # {id}
  <2> DEFINE l == [call EXCEPT !.rest = @ \ {id}]
  <2>1. calls' = [calls EXCEPT ![c] = l] BY <1>1, <1>12
  <2>2. new # None BY <1>5 DEF ConstantsAreSound
  <2>3. \A i \in Ids : docs[i] # None => docs'[i] # None
    BY <1>6, <2>2 DEF WritesInv, DocMap
  <2>4. l = [op |-> "purge", rest |-> call.rest \ {id}] BY <1>2 DEF PurgeOK
  <2> HIDE DEF call
  <2>5. PurgeOK(l, docs') BY <1>2, <2>3, <2>4 DEF PurgeOK
  <2> HIDE DEF l
  <2> QED BY <1>1, <1>9, <1>10, <2>1, <2>5 DEF new
<1> QED BY <1>11, <1>12

\* Such a rewriting keeps the invariant.
LEMMA RewriteStep ==
  ASSUME ConstantsAreSound, WritesInv, NEW c \in Callers, NEW id \in Ids, NEW doc, NEW l,
         Rewritten(id, doc), uniques' = Without(id) \/ UNCHANGED uniques,
         \E event \in Events : Record(event),
         calls' = [calls EXCEPT ![c] = l], l = NoCall \/ PurgeOK(l, docs')
  PROVE  WritesInv'
<1>1. PICK event \in Events : Record(event) OBVIOUS
<1>2. uniques' \in [Values -> Ids \cup {None}] BY WithoutType DEF WritesInv
<1>3. \A i \in Ids : docs[i] # None => docs'[i] # None
  BY DEF Rewritten, WritesInv, DocMap, ConstantsAreSound
<1>4. \A i \in Ids : docs'[i] = docs[i] \/ (docs'[i] # None /\ docs'[i].stamp = Now)
  BY DEF Rewritten, WritesInv, DocMap, ConstantsAreSound
<1>5. docs' \in DocMap /\ CanWrite BY DEF Rewritten
<1>6. CallOK(l, docs', Len(log) + 1) BY DEF CallOK
<1> QED BY <1>1, <1>2, <1>3, <1>4, <1>5, <1>6, CommitStep

-----------------------------------------------------------------------------
(* The invariant                                                           *)

LEMMA WritesInit ==
  ASSUME ConstantsAreSound, RecordsInit PROVE WritesInv
<1>1. docs \in DocMap /\ uniques \in [Values -> Ids \cup {None}] BY DEF RecordsInit, DocMap
<1>2. log \in Seq(Events) /\ Len(log) <= MaxWrites BY DEF RecordsInit, ConstantsAreSound
<1> QED BY <1>1, <1>2 DEF RecordsInit, WritesInv, CallOK

\* A request that begins holds what it has read, and that is what is stored.
LEMMA AskStep ==
  ASSUME ConstantsAreSound, WritesInv, NEW c \in Callers,
         \/ \E v \in Values, k \in Keys \cup {None} : Create(c, v, k)
         \/ \E id \in Ids, v \in Values, user \in BOOLEAN : Update(c, id, v, user)
         \/ \E id \in Ids : Delete(c, id)
         \/ \E id \in Ids, to \in Statuses : SetRecordStatus(c, id, to)
         \/ RemoveBySource(c)
  PROVE  WritesInv'
<1>1. \A id \in Ids : Live(id) =>
        docs[id] \in Docs /\ docs[id] # None /\ docs[id].live /\ docs[id].stamp <= Len(log)
  BY DEF Live, Exists, WritesInv, DocMap
<1>2. ASSUME NEW v \in Values, NEW k \in Keys \cup {None}, Create(c, v, k) PROVE WritesInv'
  <2>1. CreateOK([op |-> "create", value |-> v, key |-> k]) BY DEF CreateOK
  <2>2. CallOK([op |-> "create", value |-> v, key |-> k], docs, Len(log))
    BY <2>1 DEF CallOK
  <2> QED BY <1>2, <2>2, QuietStep DEF Create, Ask
<1>3. ASSUME NEW id \in Ids, NEW v \in Values, NEW user \in BOOLEAN, Update(c, id, v, user)
      PROVE  WritesInv'
  <2> DEFINE l == [op |-> "update", id |-> id, doc |-> docs[id], value |-> v, user |-> user]
  <2>1. Live(id) /\ (user => docs[id].status # "locked")
    BY <1>3 DEF Update
  <2>2. UpdateOK(l, docs, Len(log)) BY <1>1, <2>1 DEF UpdateOK
  <2>3. CallOK(l, docs, Len(log)) BY <2>2 DEF CallOK
  <2>4. calls' = [calls EXCEPT ![c] = l] /\ UNCHANGED <<docs, uniques, log>>
    BY <1>3 DEF Update, Ask
  <2> QED BY <2>3, <2>4, QuietStep
<1>4. ASSUME NEW id \in Ids, Delete(c, id) PROVE WritesInv'
  <2> DEFINE l == [op |-> "delete", id |-> id, doc |-> docs[id]]
  <2>1. DeleteOK(l, docs) BY <1>1, <1>4 DEF DeleteOK, Delete
  <2>2. CallOK(l, docs, Len(log)) BY <2>1 DEF CallOK
  <2>3. calls' = [calls EXCEPT ![c] = l] /\ UNCHANGED <<docs, uniques, log>>
    BY <1>4 DEF Delete, Ask
  <2> QED BY <2>2, <2>3, QuietStep
<1>5. ASSUME NEW id \in Ids, NEW to \in Statuses, SetRecordStatus(c, id, to) PROVE WritesInv'
  <2> DEFINE l == [op |-> "status", id |-> id, from |-> docs[id].status, to |-> to]
  <2>1. StatusOK(l, docs) BY <1>1, <1>5 DEF StatusOK, SetRecordStatus, Docs
  <2>2. CallOK(l, docs, Len(log)) BY <2>1 DEF CallOK
  <2>3. calls' = [calls EXCEPT ![c] = l] /\ UNCHANGED <<docs, uniques, log>>
    BY <1>5 DEF SetRecordStatus, Ask
  <2> QED BY <2>2, <2>3, QuietStep
<1>6. CASE RemoveBySource(c)
  <2> DEFINE l == [op |-> "purge", rest |-> {id \in Ids : Live(id) /\ docs[id].key # None}]
  <2>1. PurgeOK(l, docs) BY <1>1 DEF PurgeOK
  <2>2. CallOK(l, docs, Len(log)) BY <2>1 DEF CallOK
  <2>3. calls' = [calls EXCEPT ![c] = l] /\ UNCHANGED <<docs, uniques, log>>
    BY <1>6 DEF RemoveBySource, Ask
  <2> QED BY <2>2, <2>3, QuietStep
<1> QED BY <1>2, <1>3, <1>4, <1>5, <1>6

LEMMA CreateStep ==
  ASSUME ConstantsAreSound, WritesInv, NEW c \in Callers, NEW id \in Ids, CommitCreate(c, id)
  PROVE  WritesInv'
<1>1. CASE Refuse(c) BY <1>1, RefuseStep
<1>2. CASE ~Refuse(c)
  <2> DEFINE event == [type |-> "created", id |-> id, to |-> calls[c].value]
  <2>1. /\ ~Exists(id) /\ calls[c].value \in Values
        /\ docs' = [docs EXCEPT ![id] =
             [value |-> calls[c].value, status |-> "draft", live |-> TRUE,
              stamp |-> Now, key |-> calls[c].key]]
        /\ docs'[id] \in Docs /\ docs' \in DocMap
        /\ WriteUniques(id, calls[c].value) /\ Record(event) /\ AnswerCall(c) /\ CanWrite
    BY <1>2, CreateParts
  <2>2. event \in Events BY <2>1 DEF Events
  <2>3. uniques' \in [Values -> Ids \cup {None}]
    BY <2>1, WithoutType DEF WriteUniques, WritesInv
  <2>4. docs'[id] # None BY <2>1 DEF ConstantsAreSound
  <2>5. docs'[id].stamp = Now /\ \A i \in Ids : i # id => docs'[i] = docs[i]
    BY <2>1 DEF WritesInv, DocMap
  <2>6. \A i \in Ids : docs[i] # None => docs'[i] # None BY <2>4, <2>5
  <2>7. \A i \in Ids : docs'[i] = docs[i] \/ (docs'[i] # None /\ docs'[i].stamp = Now)
    BY <2>4, <2>5
  <2>8. calls' = [calls EXCEPT ![c] = NoCall] BY <2>1 DEF AnswerCall
  <2>9. CallOK(NoCall, docs', Len(log) + 1) BY DEF CallOK
  <2>10. docs' \in DocMap /\ Record(event) /\ CanWrite BY <2>1
  <2> QED BY <2>2, <2>3, <2>6, <2>7, <2>8, <2>9, <2>10, CommitStep
<1> QED BY <1>1, <1>2

LEMMA UpdateStep ==
  ASSUME ConstantsAreSound, WritesInv, NEW c \in Callers, CommitUpdate(c)
  PROVE  WritesInv'
<1>1. CASE Refuse(c) BY <1>1, RefuseStep
<1>2. CASE ~Refuse(c)
  <2> DEFINE call == calls[c]
             id == call.id
             event == [type |-> "updated", id |-> id, from |-> call.doc.value,
                       to |-> call.value, status |-> call.doc.status, user |-> call.user]
  <2>1. /\ id \in Ids /\ call.doc \in Docs /\ call.value \in Values /\ call.user \in BOOLEAN
        /\ docs' = [docs EXCEPT ![id] = Edited(call.doc, call.value)]
        /\ docs'[id] \in Docs /\ docs' \in DocMap /\ docs'[id].stamp = Now
        /\ WriteUniques(id, call.value) /\ Record(event) /\ AnswerCall(c) /\ CanWrite
    BY <1>2, UpdateParts
  <2>2. event \in Events BY <2>1 DEF Events, Docs
  <2> HIDE DEF call, event
  <2>3. uniques' \in [Values -> Ids \cup {None}]
    BY <2>1, WithoutType DEF WriteUniques, WritesInv
  <2>4. docs'[id] # None BY <2>1 DEF ConstantsAreSound
  <2>5. docs'[id].stamp = Now /\ \A i \in Ids : i # id => docs'[i] = docs[i]
    BY <2>1 DEF WritesInv, DocMap
  <2>6. \A i \in Ids : docs[i] # None => docs'[i] # None BY <2>4, <2>5
  <2>7. \A i \in Ids : docs'[i] = docs[i] \/ (docs'[i] # None /\ docs'[i].stamp = Now)
    BY <2>4, <2>5
  <2>8. calls' = [calls EXCEPT ![c] = NoCall] BY <2>1 DEF AnswerCall
  <2>9. CallOK(NoCall, docs', Len(log) + 1) BY DEF CallOK
  <2>10. docs' \in DocMap /\ Record(event) /\ CanWrite BY <2>1
  <2> QED BY <2>2, <2>3, <2>6, <2>7, <2>8, <2>9, <2>10, CommitStep
<1> QED BY <1>1, <1>2

LEMMA WritesKept ==
  ASSUME ConstantsAreSound, WritesInv, [RecordsNext]_recordsVars PROVE WritesInv'
<1>1. CASE UNCHANGED recordsVars BY <1>1 DEF recordsVars, WritesInv
<1>2. ASSUME NEW c \in Callers, CommitDelete(c) PROVE WritesInv'
  BY <1>2, DeleteParts, RewriteStep DEF AnswerCall
<1>3. ASSUME NEW c \in Callers, CommitStatus(c) PROVE WritesInv'
  BY <1>3, StatusParts, RewriteStep, RefuseStep DEF AnswerCall
<1>4. ASSUME NEW c \in Callers, NEW id \in Ids, RemoveNext(c, id) PROVE WritesInv'
  BY <1>4, PurgeParts, RewriteStep
<1>5. ASSUME NEW c \in Callers, Abandon(c) PROVE WritesInv'
  BY <1>5, RefuseStep DEF Abandon
<1> QED BY <1>1, <1>2, <1>3, <1>4, <1>5, AskStep, CreateStep, UpdateStep DEF RecordsNext

\* What every request in flight relies on stays true of the records, whatever the
\* others write (records.service.ts).
THEOREM RequestsRelyOnTheRecord == ASSUME ConstantsAreSound PROVE RecordsSpec => []WritesInv
<1>1. RecordsInit => WritesInv BY WritesInit
<1>2. WritesInv /\ [RecordsNext]_recordsVars => WritesInv' BY WritesKept
<1> QED BY <1>1, <1>2, PTL DEF RecordsSpec

-----------------------------------------------------------------------------
(* A record that is locked                                                 *)

\* No user's update commits on a record that is locked when it commits.
LEMMA LockedStepHolds ==
  ASSUME ConstantsAreSound, WritesInv, [RecordsNext]_recordsVars PROVE [LockedStep]_recordsVars
<1>1. SUFFICES ASSUME NEW id \in Ids, Live(id), docs[id].status = "locked",
                      docs'[id].value # docs[id].value
               PROVE  ~Last(log').user
  BY DEF LockedStep
<1>2. ASSUME NEW c \in Callers, NEW i \in Ids, CommitCreate(c, i) PROVE FALSE
  <2>1. CASE Refuse(c) BY <1>1, <2>1 DEF Refuse
  <2>2. CASE ~Refuse(c)
    <3>1. ~Exists(i) /\ \E d : docs' = [docs EXCEPT ![i] = d] BY <1>2, <2>2, CreateParts
    <3> QED BY <1>1, <3>1 DEF Live, WritesInv, DocMap
  <2> QED BY <2>1, <2>2
<1>3. ASSUME NEW c \in Callers, CommitUpdate(c) PROVE ~Last(log').user
  <2>1. CASE Refuse(c) BY <1>1, <2>1 DEF Refuse
  <2>2. CASE ~Refuse(c)
    <3> DEFINE call == calls[c]
               event == [type |-> "updated", id |-> call.id, from |-> call.doc.value,
                         to |-> call.value, status |-> call.doc.status, user |-> call.user]
    <3>1. /\ call.id \in Ids /\ docs[call.id] = call.doc
          /\ call.user \in BOOLEAN /\ (call.user => call.doc.status # "locked")
          /\ docs' = [docs EXCEPT ![call.id] = Edited(call.doc, call.value)]
          /\ Record(event)
      BY <1>3, <2>2, UpdateParts
    <3> HIDE DEF call
    <3>2. id = call.id BY <1>1, <3>1 DEF WritesInv, DocMap
    <3>3. ~call.user BY <1>1, <3>1, <3>2
    <3>4. log' = Append(log, event) /\ log \in Seq(Events) BY <3>1 DEF Record, WritesInv
    <3>5. event \in [type : {"updated"}, id : {call.id}, from : {call.doc.value},
                     to : {call.value}, status : {call.doc.status}, user : {call.user}]
      OBVIOUS
    <3>6. event.user = call.user BY <3>5
    <3> HIDE DEF event
    <3>7. Last(log') = event BY <3>4 DEF Last
    <3> QED BY <3>3, <3>6, <3>7
  <2> QED BY <2>1, <2>2
<1>4. ASSUME NEW c \in Callers, CommitDelete(c) PROVE FALSE
  BY <1>1, <1>4, DeleteParts DEF Rewritten, WritesInv, DocMap
<1>5. ASSUME NEW c \in Callers, CommitStatus(c) PROVE FALSE
  BY <1>1, <1>5, StatusParts DEF Rewritten, WritesInv, DocMap, Refuse
<1>6. ASSUME NEW c \in Callers, NEW i \in Ids, RemoveNext(c, i) PROVE FALSE
  BY <1>1, <1>6, PurgeParts DEF Rewritten, WritesInv, DocMap
<1>7. UNCHANGED docs => FALSE BY <1>1
<1> QED BY <1>2, <1>3, <1>4, <1>5, <1>6, <1>7
        DEF RecordsNext, recordsVars, Create, Update, Delete, SetRecordStatus,
            RemoveBySource, Ask, Abandon, Refuse

\* No user's update commits on a record that is locked at that moment, however long
\* before it read the record (records.service.ts, updateLoaded).
THEOREM LockedRecordsAreKept ==
  ASSUME ConstantsAreSound PROVE RecordsSpec => LockedKeepsItsValue
<1>1. RecordsInit => WritesInv BY WritesInit
<1>2. WritesInv /\ [RecordsNext]_recordsVars => WritesInv' /\ [LockedStep]_recordsVars
  BY WritesKept, LockedStepHolds
<1> QED BY <1>1, <1>2, PTL DEF RecordsSpec, LockedKeepsItsValue

-----------------------------------------------------------------------------
(* A value has one holder, and so has a source key                         *)

ValuesHeld ==
  \A v \in Values, id \in Ids : uniques[v] = id <=> Live(id) /\ docs[id].value = v

KeysHeld ==
  \A i, j \in Ids :
    Exists(i) /\ Exists(j) /\ docs[i].key = docs[j].key /\ docs[i].key # None => i = j

\* A live record that takes a free value, and leaves the one it had, is its holder.
LEMMA TakesValue ==
  ASSUME ConstantsAreSound, WritesInv, ValuesHeld, NEW id \in Ids, NEW v \in Values,
         Free(v, id), WriteUniques(id, v), NEW doc, docs' = [docs EXCEPT ![id] = doc],
         doc # None, doc.live, doc.value = v
  PROVE  ValuesHeld'
<1>1. docs'[id] = doc /\ \A i \in Ids : i # id => docs'[i] = docs[i]
  BY DEF WritesInv, DocMap
<1>2. \A w \in Values :
        uniques'[w] = IF w = v THEN id ELSE IF uniques[w] = id THEN None ELSE uniques[w]
  BY DEF WriteUniques, Without
<1>3. \A i \in Ids : i # None BY DEF ConstantsAreSound
<1>4. ASSUME NEW w \in Values
      PROVE  uniques'[w] = id <=> docs'[id] # None /\ docs'[id].live /\ docs'[id].value = w
  BY <1>1, <1>2, <1>3
<1>5. ASSUME NEW w \in Values, NEW i \in Ids, i # id
      PROVE  uniques'[w] = i <=> docs'[i] # None /\ docs'[i].live /\ docs'[i].value = w
  <2>1. uniques[w] = i <=> docs[i] # None /\ docs[i].live /\ docs[i].value = w
    BY DEF ValuesHeld, Live, Exists
  <2>2. w = v => uniques[w] # i BY <1>3, <1>5 DEF Free
  <2>3. uniques'[w] = i <=> uniques[w] = i BY <1>2, <1>3, <1>5, <2>2
  <2> QED BY <1>1, <1>5, <2>1, <2>3
<1> QED BY <1>4, <1>5 DEF ValuesHeld, Live, Exists

\* A record that is no longer live leaves its value to the others.
LEMMA LeavesValue ==
  ASSUME ConstantsAreSound, WritesInv, ValuesHeld, NEW id \in Ids,
         uniques' = Without(id), NEW doc, docs' = [docs EXCEPT ![id] = doc],
         ~doc.live
  PROVE  ValuesHeld'
<1>1. docs'[id] = doc /\ \A i \in Ids : i # id => docs'[i] = docs[i]
  BY DEF WritesInv, DocMap
<1>2. \A w \in Values : uniques'[w] = IF uniques[w] = id THEN None ELSE uniques[w]
  BY DEF Without
<1>3. \A i \in Ids : i # None BY DEF ConstantsAreSound
<1>4. ASSUME NEW w \in Values, NEW i \in Ids
      PROVE  uniques'[w] = i <=> docs'[i] # None /\ docs'[i].live /\ docs'[i].value = w
  BY <1>1, <1>2, <1>3 DEF ValuesHeld, Live, Exists
<1> QED BY <1>4 DEF ValuesHeld, Live, Exists

\* A record that stays as live as it was, with its value, changes nothing.
LEMMA KeepsValue ==
  ASSUME WritesInv, ValuesHeld, UNCHANGED uniques, NEW id \in Ids, NEW doc,
         docs' = [docs EXCEPT ![id] = doc], doc # None, Exists(id),
         doc.live = docs[id].live, doc.value = docs[id].value
  PROVE  ValuesHeld'
<1>1. docs'[id] = doc /\ \A i \in Ids : i # id => docs'[i] = docs[i]
  BY DEF WritesInv, DocMap
<1> QED BY <1>1 DEF ValuesHeld, Live, Exists

\* The source key of a record is the one it had, or nobody's.
LEMMA KeyKept ==
  ASSUME WritesInv, KeysHeld, NEW id \in Ids, NEW doc, docs' = [docs EXCEPT ![id] = doc],
         doc.key = None \/ (Exists(id) /\ doc.key = docs[id].key) \/ Holders(doc.key) = {}
  PROVE  KeysHeld'
<1>1. docs'[id] = doc /\ \A i \in Ids : i # id => docs'[i] = docs[i]
  BY DEF WritesInv, DocMap
<1>2. ASSUME NEW i \in Ids, i # id, Exists(i), doc.key # None PROVE docs[i].key # doc.key
  BY <1>2 DEF KeysHeld, Holders
<1> QED BY <1>1, <1>2 DEF KeysHeld, Exists

LEMMA HoldersInit == ASSUME ConstantsAreSound, RecordsInit PROVE ValuesHeld /\ KeysHeld
BY DEF RecordsInit, ValuesHeld, KeysHeld, Live, Exists, ConstantsAreSound

LEMMA HoldersKept ==
  ASSUME ConstantsAreSound, WritesInv, ValuesHeld, KeysHeld, [RecordsNext]_recordsVars
  PROVE  ValuesHeld' /\ KeysHeld'
<1>0. UNCHANGED <<docs, uniques>> => ValuesHeld' /\ KeysHeld'
  BY DEF ValuesHeld, KeysHeld, Live, Exists
<1>1. ASSUME NEW c \in Callers, NEW id \in Ids, CommitCreate(c, id)
      PROVE  ValuesHeld' /\ KeysHeld'
  <2>1. CASE Refuse(c) BY <1>0, <2>1 DEF Refuse
  <2>2. CASE ~Refuse(c)
    <3> DEFINE v == calls[c].value
               k == calls[c].key
               doc == [value |-> v, status |-> "draft", live |-> TRUE, stamp |-> Now, key |-> k]
    <3>1. /\ ~Exists(id) /\ Free(v, id) /\ v \in Values /\ (k # None => Holders(k) = {})
          /\ docs' = [docs EXCEPT ![id] = doc] /\ docs'[id] \in Docs /\ WriteUniques(id, v)
      BY <1>1, <2>2, CreateParts
    <3>2. doc.live /\ doc.value = v /\ doc.key = k OBVIOUS
    <3> HIDE DEF v, k, doc
    <3>3. doc # None BY <3>1 DEF ConstantsAreSound, WritesInv, DocMap
    <3>4. ValuesHeld' BY <3>1, <3>2, <3>3, TakesValue
    <3>5. KeysHeld' BY <3>1, <3>2, KeyKept
    <3> QED BY <3>4, <3>5
  <2> QED BY <2>1, <2>2
<1>2. ASSUME NEW c \in Callers, CommitUpdate(c) PROVE ValuesHeld' /\ KeysHeld'
  <2>1. CASE Refuse(c) BY <1>0, <2>1 DEF Refuse
  <2>2. CASE ~Refuse(c)
    <3> DEFINE id == calls[c].id
               v == calls[c].value
               doc == Edited(calls[c].doc, v)
    <3>1. /\ id \in Ids /\ docs[id] \in Docs /\ Free(v, id) /\ v \in Values
          /\ docs' = [docs EXCEPT ![id] = doc] /\ docs'[id] \in Docs /\ WriteUniques(id, v)
          /\ docs'[id].live /\ docs'[id].value = v /\ docs'[id].key = docs[id].key
      BY <1>2, <2>2, UpdateParts
    <3> HIDE DEF v, id, doc
    <3>2. doc = docs'[id] BY <3>1 DEF WritesInv, DocMap
    <3>3. doc # None /\ Exists(id) BY <3>1, <3>2 DEF ConstantsAreSound, Exists
    <3>4. ValuesHeld' BY <3>1, <3>2, <3>3, TakesValue
    <3>5. KeysHeld' BY <3>1, <3>2, <3>3, KeyKept
    <3> QED BY <3>4, <3>5
  <2> QED BY <2>1, <2>2
<1>3. ASSUME NEW c \in Callers, CommitDelete(c) PROVE ValuesHeld' /\ KeysHeld'
  <2> DEFINE id == calls[c].id
             doc == [docs[id] EXCEPT !.live = FALSE, !.stamp = Now]
  <2>1. id \in Ids /\ Rewritten(id, doc) /\ uniques' = Without(id) BY <1>3, DeleteParts
  <2>2. ~doc.live /\ doc.key = docs[id].key /\ Exists(id)
    BY <2>1 DEF Rewritten, Docs, Exists, ConstantsAreSound
  <2>3. docs' = [docs EXCEPT ![id] = doc] BY <2>1 DEF Rewritten
  <2> HIDE DEF id, doc
  <2>4. ValuesHeld' BY <2>1, <2>2, <2>3, LeavesValue
  <2>5. KeysHeld' BY <2>1, <2>2, <2>3, KeyKept
  <2> QED BY <2>4, <2>5
<1>4. ASSUME NEW c \in Callers, CommitStatus(c) PROVE ValuesHeld' /\ KeysHeld'
  <2>1. CASE Refuse(c) BY <1>0, <2>1 DEF Refuse
  <2>2. CASE ~Refuse(c)
    <3> DEFINE id == calls[c].id
               doc == [docs[id] EXCEPT !.status = calls[c].to, !.stamp = Now]
    <3>1. id \in Ids /\ Rewritten(id, doc) /\ UNCHANGED uniques BY <1>4, <2>2, StatusParts
    <3>2. /\ doc.key = docs[id].key /\ doc.live = docs[id].live /\ doc.value = docs[id].value
          /\ Exists(id) /\ doc # None
      BY <3>1 DEF Rewritten, Docs, Exists, ConstantsAreSound
    <3>3. docs' = [docs EXCEPT ![id] = doc] BY <3>1 DEF Rewritten
    <3> HIDE DEF id, doc
    <3>4. ValuesHeld' BY <3>1, <3>2, <3>3, KeepsValue
    <3>5. KeysHeld' BY <3>1, <3>2, <3>3, KeyKept
    <3> QED BY <3>4, <3>5
  <2> QED BY <2>1, <2>2
<1>5. ASSUME NEW c \in Callers, NEW id \in Ids, RemoveNext(c, id)
      PROVE  ValuesHeld' /\ KeysHeld'
  <2> DEFINE doc == [docs[id] EXCEPT !.live = FALSE, !.stamp = Now, !.key = None]
  <2>1. Rewritten(id, doc) /\ uniques' = Without(id) BY <1>5, PurgeParts
  <2>2. ~doc.live /\ doc.key = None BY <2>1 DEF Rewritten, Docs
  <2>3. docs' = [docs EXCEPT ![id] = doc] BY <2>1 DEF Rewritten
  <2> HIDE DEF doc
  <2>4. ValuesHeld' BY <2>1, <2>2, <2>3, LeavesValue
  <2>5. KeysHeld' BY <2>1, <2>2, <2>3, KeyKept
  <2> QED BY <2>4, <2>5
<1> QED BY <1>0, <1>1, <1>2, <1>3, <1>4, <1>5
        DEF RecordsNext, recordsVars, Create, Update, Delete, SetRecordStatus,
            RemoveBySource, Ask, Abandon, Refuse

LEMMA HeldOnce == ASSUME KeysHeld, ConstantsAreSound, ValuesHeld PROVE OneHolder
<1>1. ASSUME NEW k \in Keys PROVE Cardinality(Holders(k)) <= 1
  <2>1. \A i, j \in Holders(k) : i = j BY DEF KeysHeld, Holders, ConstantsAreSound
  <2>2. CASE Holders(k) = {} BY <2>2, FS_EmptySet
  <2>3. CASE Holders(k) # {}
    <3>1. PICK i : i \in Holders(k) BY <2>3
    <3>2. Holders(k) = {i} BY <2>1, <3>1
    <3>3. Cardinality({i}) = 1 BY FS_Singleton
    <3> QED BY <3>2, <3>3
  <2> QED BY <2>2, <2>3
<1> QED BY <1>1 DEF OneHolder, ValuesHeld

\* A value is held by exactly the live record that has it and a source key by at most
\* one record, whatever overlaps (writeUniques and the indexes of records.service.ts).
THEOREM ValuesHaveOneHolder ==
  ASSUME ConstantsAreSound PROVE RecordsSpec => []OneHolder
<1> DEFINE IInv == WritesInv /\ ValuesHeld /\ KeysHeld
<1>1. RecordsInit => IInv BY WritesInit, HoldersInit
<1>2. IInv /\ [RecordsNext]_recordsVars => IInv' BY WritesKept, HoldersKept
<1>3. IInv => OneHolder BY HeldOnce
<1> QED BY <1>1, <1>2, <1>3, PTL DEF RecordsSpec

-----------------------------------------------------------------------------
(* The events tell what happened                                           *)

\* f is what the events of the log l make of the record, one after the other.
Replays(f, l, id) ==
  /\ f = [n \in 0..Len(l) |-> f[n]]
  /\ f[0] = Unseen
  /\ \A n \in 1..Len(l) :
       f[n] = IF l[n].id = id THEN Apply(f[n - 1], l[n]) ELSE f[n - 1]

\* The events of a record continue each other and lead to it.
Told(id, l, shown) == \E f :
  /\ Replays(f, l, id)
  /\ \A n \in 1..Len(l) : l[n].id = id => Continues(l[n], f[n - 1])
  /\ f[Len(l)] = shown

ReplayInv == \A id \in Ids : Told(id, log, Shown(id))

\* A set of natural numbers has a least one.
LEMMA Least ==
  ASSUME NEW T \in SUBSET Nat, T # {}
  PROVE  \E m \in T : \A k \in T : m <= k
<1> DEFINE Less == {ss \in Nat \X Nat : ss[1] < ss[2]}
<1>1. IsWellFoundedOn(Less, Nat)
  BY NatLessThanWellFounded, Zenon DEF OpToRel
<1>2. PICK x \in T : \A y \in T : <<y, x>> \notin Less
  <2> HIDE DEF Less
  <2> QED BY <1>1, WFMin, Zenon
<1>3. ASSUME NEW y \in T, ~(x <= y) PROVE FALSE
  <2>1. <<y, x>> \in Nat \X Nat /\ y < x
    BY <1>3
  <2>2. <<y, x>> \in Less
    BY <2>1
  <2> QED BY <1>2, <2>2
<1> QED BY <1>3

\* There is one replay.
LEMMA OneReplay ==
  ASSUME NEW l, Len(l) \in Nat, NEW id, NEW f, NEW g, Replays(f, l, id), Replays(g, l, id)
  PROVE  f = g
<1>1. SUFFICES ASSUME f # g PROVE FALSE OBVIOUS
<1> DEFINE T == {n \in 0..Len(l) : f[n] # g[n]}
<1>2. T # {} BY <1>1 DEF Replays
<1>3. PICK t \in T : \A u \in T : t <= u
  <2>1. T \in SUBSET Nat OBVIOUS
  <2> HIDE DEF T
  <2> QED BY <1>2, <2>1, Least
<1>4. t # 0 BY <1>3 DEF Replays
<1>5. t \in 1..Len(l) /\ t - 1 \in 0..Len(l) BY <1>3, <1>4
<1>6. f[t - 1] = g[t - 1] BY <1>3, <1>5
<1> QED BY <1>3, <1>5, <1>6 DEF Replays

\* What the record looks like after event n, if it does so before it as in g.
NextView(g, n, id) ==
  IF n = 0 THEN Unseen
  ELSE IF log[n].id = id THEN Apply(g[n - 1], log[n]) ELSE g[n - 1]

\* The one replay is what the module defines.
LEMMA ViewsReplay ==
  ASSUME Len(log) \in Nat, NEW id, NEW f, Replays(f, log, id)
  PROVE  Views(id) = f
<1> DEFINE IsView(g) == g = [n \in 0..Len(log) |-> NextView(g, n, id)]
<1>1. IsView(f)
  <2>1. \A n \in 0..Len(log) : f[n] = NextView(f, n, id)
    BY DEF Replays, NextView
  <2>2. f = [n \in 0..Len(log) |-> f[n]] BY DEF Replays
  <2> QED BY <2>1, <2>2
<1>2. Views(id) = CHOOSE g : IsView(g) BY DEF Views, NextView
<1>3. IsView(Views(id))
  <2> HIDE DEF IsView
  <2> QED BY <1>1, <1>2
<1> DEFINE v == Views(id)
<1>4. v = [n \in 0..Len(log) |-> NextView(v, n, id)] BY <1>3
<1> HIDE DEF v
<1>5. \A n \in 0..Len(log) : v[n] = NextView(v, n, id) BY <1>4
<1>6. v = [n \in 0..Len(log) |-> v[n]] BY <1>4
<1>7. v[0] = Unseen BY <1>5 DEF NextView
<1>8. ASSUME NEW n \in 1..Len(log)
      PROVE  v[n] = IF log[n].id = id THEN Apply(v[n - 1], log[n]) ELSE v[n - 1]
  <2>1. n \in 0..Len(log) /\ n # 0 OBVIOUS
  <2>2. v[n] = NextView(v, n, id) BY <1>5, <2>1
  <2> QED BY <2>1, <2>2 DEF NextView
<1>9. Replays(v, log, id) BY <1>6, <1>7, <1>8 DEF Replays
<1>10. v = f BY <1>9, OneReplay
<1> QED BY <1>10 DEF v

\* A transaction adds an event that continues the others and changes its record as the
\* event says.
LEMMA EventFollows ==
  ASSUME WritesInv, ReplayInv, NEW e, NEW own \in Ids, e.id = own, log' = Append(log, e),
         Continues(e, Shown(own)), Shown(own)' = Apply(Shown(own), e),
         \A id \in Ids : id # own => docs'[id] = docs[id]
  PROVE  ReplayInv'
<1> DEFINE N == Len(log)
<1>1. N \in Nat /\ Len(log') = N + 1 /\ log'[N + 1] = e
      /\ \A n \in 1..N : log'[n] = log[n]
  BY DEF WritesInv
<1>2. ASSUME NEW id \in Ids PROVE Told(id, log', Shown(id)')
  <2>1. PICK f : /\ Replays(f, log, id)
                 /\ \A n \in 1..N : log[n].id = id => Continues(log[n], f[n - 1])
                 /\ f[N] = Shown(id)
    BY DEF ReplayInv, Told
  <2> DEFINE last == IF e.id = id THEN Apply(f[N], e) ELSE f[N]
             g == [n \in 0..(N + 1) |-> IF n = N + 1 THEN last ELSE f[n]]
  <2> HIDE DEF last, N
  <2>2. g[N + 1] = last /\ \A n \in 0..N : g[n] = f[n]
    BY <1>1
  <2>3. g = [n \in 0..(N + 1) |-> g[n]] BY <2>2, <1>1
  <2> HIDE DEF g
  <2>4. last = Shown(id)'
    <3>1. CASE e.id = id BY <2>1, <3>1 DEF last
    <3>2. CASE e.id # id
      <4>1. docs'[id] = docs[id] BY <3>2
      <4> QED BY <2>1, <3>2, <4>1 DEF last, Shown, Exists
    <3> QED BY <3>1, <3>2
  <2>5. ASSUME NEW n \in 1..(N + 1)
        PROVE  /\ g[n] = IF log'[n].id = id THEN Apply(g[n - 1], log'[n]) ELSE g[n - 1]
               /\ log'[n].id = id => Continues(log'[n], g[n - 1])
    <3>1. CASE n = N + 1
      <4>1. g[n] = last /\ g[n - 1] = f[N] /\ log'[n] = e BY <1>1, <2>2, <3>1
      <4>2. e.id = id => Continues(e, f[N]) BY <2>1
      <4> QED BY <4>1, <4>2 DEF last
    <3>2. CASE n \in 1..N
      <4>1. g[n] = f[n] /\ g[n - 1] = f[n - 1] /\ log'[n] = log[n] BY <1>1, <2>2, <3>2
      <4>2. f[n] = IF log[n].id = id THEN Apply(f[n - 1], log[n]) ELSE f[n - 1]
        BY <2>1, <3>2 DEF Replays, N
      <4> QED BY <2>1, <3>2, <4>1, <4>2
    <3> QED BY <1>1, <3>1, <3>2
  <2>6. g[0] = Unseen
    <3>1. f[0] = Unseen BY <2>1 DEF Replays
    <3>2. 0 \in 0..N BY <1>1
    <3> QED BY <2>2, <3>1, <3>2
  <2>7. Replays(g, log', id) BY <1>1, <2>3, <2>5, <2>6 DEF Replays
  <2> QED BY <1>1, <2>2, <2>4, <2>5, <2>7 DEF Told
<1> QED BY <1>2 DEF ReplayInv

LEMMA ReplayStutters == ASSUME ReplayInv, UNCHANGED <<docs, log>> PROVE ReplayInv'
<1>1. \A id \in Ids : Shown(id)' = Shown(id) BY DEF Shown, Exists
<1> QED BY <1>1 DEF ReplayInv, Told

\* The view of a record that has this value and status.
View(value, status, live) == [value |-> value, status |-> status, live |-> live]

LEMMA ShownIs ==
  ASSUME WritesInv, NEW id \in Ids, Exists(id)
  PROVE  Shown(id) = View(docs[id].value, docs[id].status, docs[id].live)
BY DEF Shown, View

\* What an event makes of a view.
LEMMA ApplyUpdated ==
  ASSUME NEW value, NEW status, NEW live, NEW e, e.type = "updated"
  PROVE  Apply(View(value, status, live), e) = View(e.to, status, live)
BY DEF Apply, View

LEMMA ApplyStatus ==
  ASSUME NEW value, NEW status, NEW live, NEW e, e.type = "status"
  PROVE  Apply(View(value, status, live), e) = View(value, e.to, live)
BY DEF Apply, View

LEMMA ApplyDeleted ==
  ASSUME NEW e, e.type = "deleted"
  PROVE  \E no : /\ no = FALSE
                 /\ \A value, status, live :
                      Apply(View(value, status, live), e) = View(value, status, no)
<1>1. PICK no \in BOOLEAN : no = FALSE OBVIOUS
<1>2. ASSUME NEW value, NEW status, NEW live
      PROVE  Apply(View(value, status, live), e) = View(value, status, no)
  <2> DEFINE view == View(value, status, live)
  <2>1. Apply(view, e) = [view EXCEPT !.live = FALSE] BY DEF Apply
  <2>2. ASSUME NEW x PROVE [view EXCEPT !.live = x] = View(value, status, x) BY DEF View
  <2>3. [view EXCEPT !.live = no] = View(value, status, no) BY <2>2
  <2> QED BY <1>1, <2>1, <2>3, Zenon
<1> QED BY <1>1, <1>2, Zenon

LEMMA CreateTold ==
  ASSUME ConstantsAreSound, WritesInv, ReplayInv, NEW c \in Callers, NEW id \in Ids,
         CommitCreate(c, id)
  PROVE  ReplayInv'
<1>1. CASE Refuse(c) BY <1>1, ReplayStutters DEF Refuse
<1>2. CASE ~Refuse(c)
  <2>1. PICK v, doc, e :
          /\ doc.value = v /\ doc.status = "draft" /\ doc.live = TRUE
          /\ e.id = id /\ e.type = "created" /\ e.to = v
          /\ docs' = [docs EXCEPT ![id] = doc] /\ docs'[id] \in Docs
          /\ log' = Append(log, e)
    <3> DEFINE v == calls[c].value
               doc == [value |-> v, status |-> "draft", live |-> TRUE, stamp |-> Now,
                       key |-> calls[c].key]
               e == [type |-> "created", id |-> id, to |-> v]
    <3>1. docs' = [docs EXCEPT ![id] = doc] /\ docs'[id] \in Docs /\ log' = Append(log, e)
      BY <1>2, CreateParts DEF Record
    <3>2. doc.value = v /\ doc.status = "draft" /\ doc.live = TRUE OBVIOUS
    <3>3. e.id = id /\ e.type = "created" /\ e.to = v OBVIOUS
    <3> HIDE DEF v, doc, e
    <3> QED BY <3>1, <3>2, <3>3
  <2>2. docs'[id] = doc /\ docs'[id] # None /\ \A i \in Ids : i # id => docs'[i] = docs[i]
    BY <2>1 DEF WritesInv, DocMap, ConstantsAreSound
  <2>3. Shown(id)' = View(v, "draft", TRUE) BY <2>1, <2>2 DEF Shown, Exists, View
  <2>4. Apply(Shown(id), e) = View(v, "draft", TRUE) BY <2>1 DEF Apply, View
  <2>5. Continues(e, Shown(id)) BY <2>1 DEF Continues
  <2> QED BY ZenonT(20), <2>1, <2>2, <2>3, <2>4, <2>5, EventFollows
<1> QED BY <1>1, <1>2

LEMMA UpdateTold ==
  ASSUME ConstantsAreSound, WritesInv, ReplayInv, NEW c \in Callers, CommitUpdate(c)
  PROVE  ReplayInv'
<1>1. CASE Refuse(c) BY <1>1, ReplayStutters DEF Refuse
<1>2. CASE ~Refuse(c)
  <2>1. PICK id, old, v, new, e :
          /\ id \in Ids /\ old \in Docs /\ v \in Values
          /\ e.id = id /\ e.type = "updated" /\ e.from = old.value /\ e.to = v
          /\ e.status = old.status
          /\ new.value = v /\ new.status = old.status /\ new.live = TRUE
          /\ docs[id] = old /\ old.live = TRUE
          /\ docs' = [docs EXCEPT ![id] = new] /\ docs'[id] \in Docs
          /\ log' = Append(log, e)
    <3> DEFINE id == calls[c].id
               old == calls[c].doc
               v == calls[c].value
               new == Edited(old, v)
               e == [type |-> "updated", id |-> id, from |-> old.value,
                     to |-> v, status |-> old.status, user |-> calls[c].user]
    <3>1. /\ id \in Ids /\ docs[id] = old /\ old \in Docs /\ old.live /\ v \in Values
          /\ docs' = [docs EXCEPT ![id] = new] /\ docs'[id] \in Docs
          /\ log' = Append(log, e)
      BY <1>2, UpdateParts DEF Record
    <3>2. e \in [type : {"updated"}, id : {id}, from : {old.value}, to : {v},
                 status : {old.status}, user : {calls[c].user}]
      OBVIOUS
    <3>3. /\ e.id = id /\ e.type = "updated" /\ e.from = old.value /\ e.to = v
          /\ e.status = old.status
      BY <3>2
    <3>4. new.value = v /\ new.status = old.status /\ new.live = TRUE /\ old.live = TRUE
      BY <3>1 DEF Edited, Docs
    <3> HIDE DEF id, old, v, new, e
    <3> QED BY <3>1, <3>3, <3>4
  <2>2. docs'[id] = new /\ docs'[id] # None /\ \A i \in Ids : i # id => docs'[i] = docs[i]
    BY <2>1 DEF WritesInv, DocMap, ConstantsAreSound
  <2>3. Exists(id) BY <2>1 DEF Exists, ConstantsAreSound
  <2>4. Shown(id)' = View(v, old.status, TRUE) BY <2>1, <2>2 DEF Shown, Exists, View
  <2>5. Shown(id) = View(old.value, old.status, TRUE) BY <2>1, <2>3, ShownIs
  <2>6. Apply(Shown(id), e) = View(v, old.status, TRUE)
    <3>1. Shown(id) = View(old.value, old.status, old.live) BY <2>1, <2>3, ShownIs
    <3>2. Apply(Shown(id), e) = View(v, old.status, old.live)
      BY <2>1, <3>1, ApplyUpdated
    <3> QED BY <2>1, <3>2, Zenon
  <2>7. Continues(e, Shown(id)) BY <2>1, <2>5 DEF Continues, View
  <2> QED BY <2>1, <2>2, <2>4, <2>6, <2>7, EventFollows
<1> QED BY <1>1, <1>2

\* A delete, whether of a user or of the pack whose sample it is.
LEMMA DeleteTold ==
  ASSUME ConstantsAreSound, WritesInv, ReplayInv, NEW id \in Ids, NEW doc,
         Rewritten(id, doc), doc.live = FALSE, doc.status = docs[id].status, NEW status,
         Record([type |-> "deleted", id |-> id, status |-> status])
  PROVE  ReplayInv'
<1>1. PICK e : e.id = id /\ e.type = "deleted" /\ log' = Append(log, e)
  <2> DEFINE d == [type |-> "deleted", id |-> id, status |-> status]
  <2>1. d.id = id /\ d.type = "deleted" /\ log' = Append(log, d) BY DEF Record
  <2> QED BY <2>1
<1>2. /\ docs'[id] = doc /\ doc # None /\ Exists(id) /\ docs[id] \in Docs
      /\ \A i \in Ids : i # id => docs'[i] = docs[i]
  BY DEF Rewritten, WritesInv, DocMap, ConstantsAreSound, Exists
<1>3. Shown(id)' = View(docs[id].value, docs[id].status, doc.live)
  BY <1>2 DEF Rewritten, Shown, Exists, View
<1>4. Shown(id) = View(docs[id].value, docs[id].status, docs[id].live) BY <1>2, ShownIs
<1>5. Apply(Shown(id), e) = View(docs[id].value, docs[id].status, doc.live)
  <2>1. PICK no : /\ no = FALSE
                  /\ \A v, s, live : Apply(View(v, s, live), e) = View(v, s, no)
    BY <1>1, ApplyDeleted, Zenon
  <2>2. no = doc.live BY <2>1, Zenon
  <2> QED BY <1>4, <2>1, <2>2
<1>6. Continues(e, Shown(id)) BY <1>1 DEF Continues
<1> QED BY <1>1, <1>2, <1>3, <1>5, <1>6, EventFollows

LEMMA StatusTold ==
  ASSUME ConstantsAreSound, WritesInv, ReplayInv, NEW c \in Callers, CommitStatus(c)
  PROVE  ReplayInv'
<1>1. CASE Refuse(c) BY <1>1, ReplayStutters DEF Refuse
<1>2. CASE ~Refuse(c)
  <2>1. PICK id, from, to, doc, e :
          /\ id \in Ids
          /\ e.id = id /\ e.type = "status" /\ e.from = from /\ e.to = to
          /\ doc.status = to /\ doc.live = docs[id].live /\ doc.value = docs[id].value
          /\ docs[id].status = from /\ Rewritten(id, doc) /\ log' = Append(log, e)
    <3> DEFINE id == calls[c].id
               to == calls[c].to
               from == calls[c].from
               doc == [docs[id] EXCEPT !.status = to, !.stamp = Now]
               e == [type |-> "status", id |-> id, from |-> from, to |-> to]
    <3>1. docs[id].status = from /\ log' = Append(log, e)
      BY <1>2 DEF CommitStatus, StatusIf, Record
    <3>2. id \in Ids /\ Rewritten(id, doc) BY <1>2, StatusParts
    <3>3. e.id = id /\ e.type = "status" /\ e.from = from /\ e.to = to OBVIOUS
    <3>4. doc.status = to /\ doc.live = docs[id].live /\ doc.value = docs[id].value
      BY <3>2 DEF Rewritten, Docs
    <3> HIDE DEF id, to, from, doc, e
    <3> QED BY <3>1, <3>2, <3>3, <3>4
  <2>2. /\ docs'[id] = doc /\ doc # None /\ Exists(id)
        /\ \A i \in Ids : i # id => docs'[i] = docs[i]
    BY <2>1 DEF Rewritten, WritesInv, DocMap, ConstantsAreSound, Exists
  <2>3. Shown(id)' = View(docs[id].value, to, docs[id].live)
    BY <2>1, <2>2 DEF Shown, Exists, View
  <2>4. Shown(id) = View(docs[id].value, from, docs[id].live) BY <2>1, <2>2, ShownIs
  <2>5. Apply(Shown(id), e) = View(docs[id].value, to, docs[id].live)
    BY <2>1, <2>4, ApplyStatus
  <2>6. Continues(e, Shown(id)) BY <2>1, <2>4 DEF Continues, View
  <2> QED BY <2>1, <2>2, <2>3, <2>5, <2>6, EventFollows
<1> QED BY <1>1, <1>2

LEMMA ReplayKept ==
  ASSUME ConstantsAreSound, WritesInv, ReplayInv, [RecordsNext]_recordsVars
  PROVE  ReplayInv'
<1>1. UNCHANGED <<docs, log>> => ReplayInv' BY ReplayStutters
<1>2. ASSUME NEW c \in Callers, CommitDelete(c) PROVE ReplayInv'
  <2> DEFINE id == calls[c].id
             doc == [docs[id] EXCEPT !.live = FALSE, !.stamp = Now]
  <2>1. id \in Ids /\ Rewritten(id, doc) BY <1>2, DeleteParts
  <2>2. Record([type |-> "deleted", id |-> id, status |-> calls[c].doc.status])
    BY <1>2 DEF CommitDelete
  <2>3. doc.live = FALSE /\ doc.status = docs[id].status BY <2>1 DEF Rewritten, Docs
  <2> HIDE DEF id, doc
  <2> QED BY <2>1, <2>2, <2>3, DeleteTold
<1>3. ASSUME NEW c \in Callers, NEW id \in Ids, RemoveNext(c, id) PROVE ReplayInv'
  <2> DEFINE doc == [docs[id] EXCEPT !.live = FALSE, !.stamp = Now, !.key = None]
  <2>1. Rewritten(id, doc) BY <1>3, PurgeParts
  <2>2. Record([type |-> "deleted", id |-> id, status |-> docs[id].status])
    BY <1>3 DEF RemoveNext, PurgeOne
  <2>3. doc.live = FALSE /\ doc.status = docs[id].status BY <2>1 DEF Rewritten, Docs
  <2> HIDE DEF doc
  <2> QED BY <2>1, <2>2, <2>3, DeleteTold
<1> QED BY <1>1, <1>2, <1>3, CreateTold, UpdateTold, StatusTold
        DEF RecordsNext, recordsVars, Create, Update, Delete, SetRecordStatus,
            RemoveBySource, Ask, Abandon, Refuse

\* The events of a record continue each other and lead to what is stored, whatever updates,
\* status changes and deletes overlap (the outbox rows of records.service.ts).
THEOREM EventsTellTheRecord ==
  ASSUME ConstantsAreSound PROVE RecordsSpec => []EventsReplay
<1> DEFINE IInv == WritesInv /\ ReplayInv
<1>1. RecordsInit => IInv
  <2> SUFFICES ASSUME RecordsInit PROVE ReplayInv BY WritesInit
  <2>1. Len(log) = 0 BY DEF RecordsInit
  <2>2. ASSUME NEW id \in Ids PROVE Told(id, log, Shown(id))
    <3> DEFINE f == [n \in 0..0 |-> Unseen]
    <3>1. Shown(id) = Unseen BY DEF RecordsInit, Shown, Exists
    <3>2. f[0] = Unseen OBVIOUS
    <3>3. f = [n \in 0..0 |-> f[n]] OBVIOUS
    <3> HIDE DEF f
    <3> QED BY <2>1, <3>1, <3>2, <3>3 DEF Told, Replays
  <2> QED BY <2>2 DEF ReplayInv
<1>2. IInv /\ [RecordsNext]_recordsVars => IInv' BY WritesKept, ReplayKept
<1>3. IInv => EventsReplay
  <2> SUFFICES ASSUME WritesInv, ReplayInv, NEW id \in Ids
               PROVE  /\ \A n \in 1..Len(log) :
                           log[n].id = id => Continues(log[n], Views(id)[n - 1])
                      /\ Views(id)[Len(log)] = Shown(id)
    BY DEF EventsReplay
  <2>1. PICK f : /\ Replays(f, log, id)
                 /\ \A n \in 1..Len(log) : log[n].id = id => Continues(log[n], f[n - 1])
                 /\ f[Len(log)] = Shown(id)
    BY DEF ReplayInv, Told
  <2>2. Len(log) \in Nat BY DEF WritesInv
  <2>3. Views(id) = f BY <2>1, <2>2, ViewsReplay
  <2> QED BY <2>1, <2>3
<1> QED BY <1>1, <1>2, <1>3, PTL DEF RecordsSpec

-----------------------------------------------------------------------------
\* The audit chain.

\* What the constants of the chain are: a change leaves a content that no event has.
ForgedIsNoEvent == Forged \notin AuditEvents

\* Heads of the service's own appends: one content per position.
Heads == {h \in [seq : Nat, hash : Seq(AuditEvents)] : Len(h.hash) = h.seq}

Hashes == Seq(Contents)
ChainRecord == [content : Contents, prevHash : Hashes, hash : Hashes]
Worker == [pc : {"idle", "append"}, event : Contents, seen : Heads, taken : BOOLEAN]
Verifier == [pc : {"idle", "walk"}, head : Heads, count : Nat, prev : Hashes,
             at : Nat, first : Nat, moved : BOOLEAN]

\* The types, and what a replica in a transaction has read: an event, and a head
\* that is the current one unless the chain has grown.
AppendInv ==
  /\ head \in Heads
  /\ records = [s \in Used |-> records[s]]
  /\ Used \subseteq Nat \ {0}
  /\ \A s \in Used : records[s] \in ChainRecord
  /\ marked \subseteq AuditEvents
  /\ worker \in [Workers -> Worker]
  /\ \A w \in Workers : worker[w].pc = "append" =>
       /\ worker[w].event \in AuditEvents
       /\ worker[w].seen.seq <= head.seq
       /\ worker[w].seen.seq = head.seq => worker[w].seen = head
  /\ verifier \in Verifier

\* What became of the positions that were changed, and where others are.
TamperInv ==
  /\ tampered \subseteq Nat \ {0}
  /\ tampered # {} => \E s \in tampered : \A t \in tampered : s <= t
  /\ \A s \in Used : s <= head.seq \/ s \in tampered
  /\ \A s \in tampered :
       IF s \in Used THEN records[s].content = Forged /\ s <= head.seq + 1
       ELSE s <= head.seq

\* The walk of verify: it has hashed one content per record, and the first change
\* made before it started is still ahead or is in that hash.
WalkInv == verifier.pc = "walk" =>
  /\ verifier.at = verifier.count
  /\ Len(verifier.prev) = verifier.count
  /\ verifier.first # 0 =>
       /\ verifier.first \in tampered
       /\ verifier.first \in Used /\ verifier.first <= verifier.count =>
            verifier.prev[verifier.first] = Forged
       /\ verifier.first \notin Used =>
            /\ verifier.first <= verifier.head.seq
            /\ verifier.count < verifier.first

DetectInv == AppendInv /\ TamperInv /\ WalkInv /\ VerifyDetects

-----------------------------------------------------------------------------
(* Lemmas about the operators *)

\* A hash is longer by its content.
LEMMA HashGrows ==
  ASSUME NEW S, NEW prev \in Seq(S), NEW content \in S
  PROVE  /\ ChainHash(prev, content) \in Seq(S)
         /\ Len(ChainHash(prev, content)) = Len(prev) + 1
         /\ ChainHash(prev, content)[Len(prev) + 1] = content
         /\ \A i \in 1..Len(prev) : ChainHash(prev, content)[i] = prev[i]
BY DEF ChainHash

\* No chain yet is a head.
LEMMA NoHeadIsHead == NoHead \in Heads /\ Genesis \in Hashes /\ Len(Genesis) = 0
BY DEF NoHead, Heads, Genesis, Hashes

\* A record put in its place is there, and the others stay.
LEMMA PutRecord ==
  ASSUME NEW s, NEW r, records' = Put(s, r)
  PROVE  /\ Used' = Used \cup {s}
         /\ records' = [t \in Used' |-> records'[t]]
         /\ records'[s] = r
         /\ \A t \in Used : t # s => records'[t] = records[t]
BY DEF Put, Used

\* What a transaction commits: the head it read is the current one.
LEMMA Committed ==
  ASSUME AppendInv, NEW w \in Workers, CommitAppend(w)
  PROVE  LET e == worker[w].event
             r == [content |-> e, prevHash |-> head.hash,
                   hash |-> ChainHash(head.hash, e)]
         IN  /\ e \in AuditEvents /\ e \notin marked
             /\ head.seq + 1 \notin Used
             /\ records' = Put(head.seq + 1, r)
             /\ head' = [seq |-> head.seq + 1, hash |-> ChainHash(head.hash, e)]
             /\ r \in ChainRecord /\ head' \in Heads
<1> DEFINE e == worker[w].event
           h == ChainHash(head.hash, e)
           r == [content |-> e, prevHash |-> head.hash, hash |-> h]
<1>1. worker[w].seen = head /\ e \in AuditEvents
  BY DEF AppendInv, CommitAppend
<1>2. head.seq \in Nat /\ head.hash \in Seq(AuditEvents) /\ Len(head.hash) = head.seq
  BY DEF AppendInv, Heads
<1>3. h \in Seq(AuditEvents) /\ Len(h) = head.seq + 1
  BY <1>1, <1>2 DEF ChainHash
<1>4. \A x \in Seq(AuditEvents) : x \in Hashes
  BY DEF Hashes, Contents
<1>5. r \in ChainRecord
  BY <1>1, <1>2, <1>3, <1>4 DEF ChainRecord, Contents
<1>6. [seq |-> head.seq + 1, hash |-> h] \in Heads
  BY <1>2, <1>3 DEF Heads
<1>7. /\ e \notin marked /\ head.seq + 1 \notin Used
      /\ records' = Put(head.seq + 1, r)
      /\ head' = [seq |-> head.seq + 1, hash |-> h]
  BY <1>1 DEF CommitAppend
<1> QED BY <1>1, <1>5, <1>6, <1>7

\* verify starts with the first of the changes, or with none.
LEMMA Started ==
  ASSUME TamperInv, VerifyStart
  PROVE  \E first \in Nat :
           /\ verifier' = [NotVerifying EXCEPT !.pc = "walk", !.head = head,
                                               !.first = first]
           /\ first = 0 <=> tampered = {}
           /\ first # 0 => first \in tampered
<1> DEFINE least == CHOOSE s \in tampered : \A t \in tampered : s <= t
<1>1. CASE tampered = {}
  BY <1>1 DEF VerifyStart
<1>2. CASE tampered # {}
  <2>1. least \in tampered
    BY <1>2 DEF TamperInv
  <2>2. verifier' = [NotVerifying EXCEPT !.pc = "walk", !.head = head,
                                         !.first = least]
    BY <1>2 DEF VerifyStart
  <2> HIDE DEF least
  <2>3. least \in Nat /\ least # 0
    BY <2>1 DEF TamperInv
  <2> QED BY <1>2, <2>1, <2>2, <2>3
<1> QED BY <1>1, <1>2

-----------------------------------------------------------------------------
(* What replicas read *)

LEMMA AppendInit == AuditInit => AppendInv
<1> SUFFICES ASSUME AuditInit PROVE AppendInv
  OBVIOUS
<1>1. Used = {} /\ records = [s \in Used |-> records[s]]
  BY DEF AuditInit, Used
<1>2. Resting \in Worker /\ Resting.pc = "idle"
  BY NoHeadIsHead DEF Resting, Worker, Contents
<1>3. NotVerifying \in Verifier
  BY NoHeadIsHead DEF NotVerifying, Verifier
<1> QED BY <1>1, <1>2, <1>3, NoHeadIsHead DEF AuditInit, AppendInv

\* Steps of a replica that commit nothing.
LEMMA ReplicaKeeps ==
  ASSUME AppendInv, NEW w \in Workers, NEW q \in Worker,
         worker' = [worker EXCEPT ![w] = q],
         UNCHANGED <<records, head, marked, verifier>>,
         q.pc = "append" => q.event \in AuditEvents /\ q.seen = head
  PROVE  AppendInv'
BY DEF AppendInv, Used, Heads

\* Steps of verify.
LEMMA VerifierKeeps ==
  ASSUME AppendInv, verifier' \in Verifier,
         UNCHANGED <<records, head, marked, worker>>
  PROVE  AppendInv'
BY DEF AppendInv, Used

\* Changes made behind the service's back.
LEMMA TamperKeeps ==
  ASSUME AppendInv, Used' \subseteq Nat \ {0},
         records' = [s \in Used' |-> records'[s]],
         \A s \in Used' : records'[s] \in ChainRecord,
         UNCHANGED <<head, marked, worker, verifier>>
  PROVE  AppendInv'
BY DEF AppendInv

LEMMA AppendNext == AppendInv /\ TamperInv /\ [AuditNext]_auditVars => AppendInv'
<1> SUFFICES ASSUME AppendInv, TamperInv, [AuditNext]_auditVars PROVE AppendInv'
  OBVIOUS
<1>1. head \in Heads /\ head.seq \in Nat /\ head.hash \in Hashes
      /\ verifier \in Verifier
  BY DEF AppendInv, Heads, Hashes, Contents
<1>2. ASSUME NEW w \in Workers, NEW e \in AuditEvents, BeginAppend(w, e)
      PROVE  AppendInv'
  <2> DEFINE q == [pc |-> "append", event |-> e, seen |-> head,
                   taken |-> head.seq + 1 \in Used]
  <2>1. q \in Worker
    BY <1>1 DEF Worker, Contents
  <2> QED BY <1>2, <2>1, ReplicaKeeps DEF BeginAppend
<1>3. ASSUME NEW w \in Workers, FailAppend(w) \/ RefuseAppend(w) PROVE AppendInv'
  <2>1. Resting \in Worker /\ Resting.pc = "idle"
    BY NoHeadIsHead DEF Resting, Worker, Contents
  <2> QED BY <1>3, <2>1, ReplicaKeeps DEF FailAppend, RefuseAppend
<1>4. ASSUME NEW w \in Workers, CommitAppend(w) PROVE AppendInv'
  <2> DEFINE e == worker[w].event
             r == [content |-> e, prevHash |-> head.hash,
                   hash |-> ChainHash(head.hash, e)]
  <2>1. /\ e \in AuditEvents /\ records' = Put(head.seq + 1, r) /\ r \in ChainRecord
        /\ head' = [seq |-> head.seq + 1, hash |-> ChainHash(head.hash, e)]
        /\ head' \in Heads
    BY <1>4, Committed
  <2> HIDE DEF r
  <2>2. /\ Used' = Used \cup {head.seq + 1}
        /\ records' = [t \in Used' |-> records'[t]]
        /\ records'[head.seq + 1] = r
        /\ \A t \in Used : t # head.seq + 1 => records'[t] = records[t]
    BY <2>1, PutRecord
  <2>3. Used' \subseteq Nat \ {0} /\ \A t \in Used' : records'[t] \in ChainRecord
    BY <1>1, <2>1, <2>2 DEF AppendInv
  <2>4. marked' \subseteq AuditEvents
    BY <1>4, <2>1 DEF CommitAppend, AppendInv
  <2>5. Resting \in Worker /\ Resting.pc = "idle"
    BY NoHeadIsHead DEF Resting, Worker, Contents
  <2>6. worker' = [worker EXCEPT ![w] = Resting]
    BY <1>4 DEF CommitAppend
  <2>7. worker' \in [Workers -> Worker]
    BY <2>5, <2>6 DEF AppendInv
  <2>8. head'.seq = head.seq + 1
    BY <2>1
  <2>9. ASSUME NEW v \in Workers, worker'[v].pc = "append"
        PROVE  /\ worker'[v].event \in AuditEvents
               /\ worker'[v].seen.seq <= head'.seq
               /\ worker'[v].seen.seq = head'.seq => worker'[v].seen = head'
    <3>1. worker'[v] = worker[v] /\ worker[v].pc = "append"
      BY <2>5, <2>6, <2>9 DEF AppendInv
    <3>2. worker[v].event \in AuditEvents /\ worker[v].seen.seq <= head.seq
          /\ worker[v].seen.seq \in Nat
      BY <3>1 DEF AppendInv, Worker, Heads
    <3> QED BY <1>1, <2>8, <3>1, <3>2
  <2>10. verifier' \in Verifier
    BY <1>1, <1>4 DEF CommitAppend, Verifier
  <2> QED BY <2>1, <2>2, <2>3, <2>4, <2>7, <2>9, <2>10 DEF AppendInv
<1>5. CASE VerifyStart
  <2>1. PICK first \in Nat :
          verifier' = [NotVerifying EXCEPT !.pc = "walk", !.head = head,
                                           !.first = first]
    BY <1>5, Started
  <2>2. verifier' \in Verifier
    BY <1>1, <2>1, NoHeadIsHead DEF NotVerifying, Verifier
  <2> QED BY <1>5, <2>2, VerifierKeeps DEF VerifyStart
<1>6. ASSUME NEW s \in Positions, VerifyRecord(s) PROVE AppendInv'
  <2>1. s \in Used /\ s \in Nat /\ records[s].hash \in Hashes
    BY <1>6 DEF VerifyRecord, IsNext, AppendInv, ChainRecord
  <2>2. verifier.count + 1 \in Nat
    BY <1>1 DEF Verifier
  <2>3. verifier' = [verifier EXCEPT !.count = verifier.count + 1,
                                     !.prev = records[s].hash, !.at = s]
    BY <1>6 DEF VerifyRecord
  <2>4. verifier' \in Verifier
    BY <1>1, <2>1, <2>2, <2>3 DEF Verifier
  <2> QED BY <1>6, <2>4, VerifierKeeps DEF VerifyRecord
<1>7. ASSUME NEW valid, NEW at, Report(valid, at),
             UNCHANGED <<records, head, marked, worker>>
      PROVE  AppendInv'
  <2>1. verifier' \in Verifier
    BY <1>7, NoHeadIsHead DEF Report, NotVerifying, Verifier
  <2> QED BY <1>7, <2>1, VerifierKeeps
<1>8. ASSUME NEW s \in Positions, VerifyBroken(s) PROVE AppendInv'
  BY <1>7, <1>8 DEF VerifyBroken
<1>9. CASE VerifyEnd
  BY <1>7, <1>9 DEF VerifyEnd
<1>10. ASSUME NEW s, s \in Nat \ {0}, NEW r \in ChainRecord,
              records' = Put(s, r), UNCHANGED <<head, marked, worker, verifier>>
       PROVE  AppendInv'
  <2>1. /\ Used' = Used \cup {s}
        /\ records' = [t \in Used' |-> records'[t]]
        /\ records'[s] = r
        /\ \A t \in Used : t # s => records'[t] = records[t]
    BY <1>10, PutRecord
  <2>2. Used' \subseteq Nat \ {0} /\ \A t \in Used' : records'[t] \in ChainRecord
    BY <1>10, <2>1 DEF AppendInv
  <2> QED BY <1>10, <2>1, <2>2, TamperKeeps
<1>11. ASSUME NEW s \in Positions, Edit(s) PROVE AppendInv'
  <2>1. s \in Used /\ s \in Nat \ {0} /\ records[s] \in ChainRecord
    BY <1>11 DEF Edit, AppendInv
  <2>2. ChainHash(records[s].prevHash, Forged) \in Hashes
    BY <2>1, HashGrows DEF ChainRecord, Hashes, Contents
  <2>3. PICK hash \in {records[s].hash, ChainHash(records[s].prevHash, Forged)} :
          records' = Put(s, [records[s] EXCEPT !.content = Forged, !.hash = hash])
    BY <1>11 DEF Edit
  <2>4. [records[s] EXCEPT !.content = Forged, !.hash = hash] \in ChainRecord
    BY <2>1, <2>2, <2>3 DEF ChainRecord, Contents
  <2> QED BY <1>10, <1>11, <2>1, <2>3, <2>4 DEF Edit, Tamper
<1>12. ASSUME NEW s \in Positions, DeleteRecord(s) PROVE AppendInv'
  <2>1. Used' = Used \ {s} /\ \A t \in Used' : records'[t] = records[t]
    BY <1>12 DEF DeleteRecord, Used
  <2>2. records' = [t \in Used' |-> records'[t]]
    BY <1>12 DEF DeleteRecord, Used
  <2>3. Used' \subseteq Nat \ {0} /\ \A t \in Used' : records'[t] \in ChainRecord
    BY <2>1 DEF AppendInv
  <2> QED BY <1>12, <2>2, <2>3, TamperKeeps DEF DeleteRecord, Tamper
<1>13. CASE Insert
  <2> DEFINE r == [content |-> Forged, prevHash |-> head.hash,
                   hash |-> ChainHash(head.hash, Forged)]
  <2>1. ChainHash(head.hash, Forged) \in Hashes
    BY <1>1, HashGrows DEF Hashes, Contents
  <2>2. r \in ChainRecord
    BY <1>1, <2>1 DEF ChainRecord, Contents
  <2>3. head.seq + 1 \in Nat \ {0}
    BY <1>1
  <2>4. records' = Put(head.seq + 1, r)
        /\ UNCHANGED <<head, marked, worker, verifier>>
    BY <1>13 DEF Insert, Tamper
  <2> HIDE DEF r
  <2> QED BY <1>10, <2>2, <2>3, <2>4
<1>14. CASE UNCHANGED auditVars
  BY <1>14 DEF auditVars, AppendInv, Used
<1> QED BY <1>2, <1>3, <1>4, <1>5, <1>6, <1>8, <1>9, <1>11, <1>12, <1>13, <1>14
        DEF AuditNext

-----------------------------------------------------------------------------
(* Changes made behind the service's back *)

LEMMA TamperInit == AuditInit => TamperInv
BY DEF AuditInit, TamperInv, Used

\* A change of one more position keeps what is known of the others.
LEMMA OneMore ==
  ASSUME TamperInv, NEW s \in Nat \ {0}, Tamper(s),
         \A t \in Used' : t \in Used \cup {s},
         \A t \in Used : t # s => t \in Used' /\ records'[t] = records[t],
         IF s \in Used' THEN records'[s].content = Forged /\ s <= head.seq + 1
         ELSE s <= head.seq
  PROVE  TamperInv'
<1> USE DEF TamperInv, Tamper
<1>1. tampered' \subseteq Nat \ {0}
  OBVIOUS
<1>2. \E m \in tampered' : \A t \in tampered' : m <= t
  <2>1. CASE tampered = {}
    BY <2>1
  <2>2. CASE tampered # {}
    <3>1. PICK m \in tampered : \A t \in tampered : m <= t
      BY <2>2
    <3>2. CASE m <= s
      BY <3>1, <3>2
    <3>3. CASE ~(m <= s)
      <4>1. \A t \in tampered' : s <= t
        BY <3>1, <3>3
      <4> QED BY <4>1
    <3> QED BY <3>2, <3>3
  <2> QED BY <2>1, <2>2
<1>3. \A t \in Used' : t <= head.seq \/ t \in tampered'
  OBVIOUS
<1>4. ASSUME NEW t \in tampered'
      PROVE  IF t \in Used' THEN records'[t].content = Forged /\ t <= head.seq + 1
             ELSE t <= head.seq
  <2>1. CASE t = s
    BY <2>1
  <2>2. CASE t # s
    <3>1. t \in tampered /\ (t \in Used <=> t \in Used')
      BY <2>2
    <3> QED BY <2>2, <3>1
  <2> QED BY <2>1, <2>2
<1> QED BY <1>1, <1>2, <1>3, <1>4

LEMMA TamperNext == AppendInv /\ TamperInv /\ [AuditNext]_auditVars => TamperInv'
<1> SUFFICES ASSUME AppendInv, TamperInv, [AuditNext]_auditVars PROVE TamperInv'
  OBVIOUS
<1>1. head.seq \in Nat
  BY DEF AppendInv, Heads
<1>2. ASSUME UNCHANGED <<records, head, tampered>> PROVE TamperInv'
  BY <1>2 DEF TamperInv, Used
<1>3. ASSUME NEW w \in Workers, CommitAppend(w) PROVE TamperInv'
  <2> DEFINE r == [content |-> worker[w].event, prevHash |-> head.hash,
                   hash |-> ChainHash(head.hash, worker[w].event)]
  <2>1. /\ head.seq + 1 \notin Used /\ records' = Put(head.seq + 1, r)
        /\ head' = [seq |-> head.seq + 1,
                    hash |-> ChainHash(head.hash, worker[w].event)]
    BY <1>3, Committed
  <2> HIDE DEF r
  <2>2. /\ Used' = Used \cup {head.seq + 1}
        /\ \A t \in Used : t # head.seq + 1 => records'[t] = records[t]
    BY <2>1, PutRecord
  <2>3. tampered' = tampered /\ head'.seq = head.seq + 1
    BY <1>3, <2>1 DEF CommitAppend
  <2>4. ASSUME NEW s \in tampered
        PROVE  IF s \in Used' THEN records'[s].content = Forged /\ s <= head'.seq + 1
               ELSE s <= head'.seq
    <3>1. s \in Nat
      BY DEF TamperInv
    <3>2. CASE s \in Used
      <4>1. records[s].content = Forged /\ s <= head.seq + 1
        BY <3>2 DEF TamperInv
      <4>2. s \in Used' /\ records'[s] = records[s]
        BY <2>1, <2>2, <3>2
      <4> QED BY <1>1, <2>3, <3>1, <4>1, <4>2
    <3>3. CASE s \notin Used
      <4>1. s <= head.seq
        BY <3>3 DEF TamperInv
      <4>2. s \notin Used'
        BY <1>1, <2>2, <3>1, <3>3, <4>1
      <4> QED BY <1>1, <2>3, <3>1, <4>1, <4>2
    <3> QED BY <3>2, <3>3
  <2>5. \A s \in Used' : s <= head'.seq \/ s \in tampered'
    <3>1. \A s \in Used : s \in Nat /\ (s <= head.seq \/ s \in tampered)
      BY DEF TamperInv, AppendInv
    <3> QED BY <1>1, <2>2, <2>3, <3>1
  <2> QED BY <2>3, <2>4, <2>5 DEF TamperInv
<1>4. ASSUME NEW s \in Positions, Edit(s) PROVE TamperInv'
  <2>1. s \in Used /\ s \in Nat \ {0} /\ records[s] \in ChainRecord /\ Tamper(s)
    BY <1>4 DEF Edit, AppendInv
  <2>2. PICK hash :
          records' = Put(s, [records[s] EXCEPT !.content = Forged, !.hash = hash])
    BY <1>4 DEF Edit
  <2>3. [records[s] EXCEPT !.content = Forged, !.hash = hash].content = Forged
    BY <2>1 DEF ChainRecord
  <2> DEFINE r == [records[s] EXCEPT !.content = Forged, !.hash = hash]
  <2>4. records' = Put(s, r) /\ r.content = Forged
    BY <2>2, <2>3
  <2> HIDE DEF r
  <2>5. /\ Used' = Used \cup {s} /\ records'[s] = r
        /\ \A t \in Used : t # s => records'[t] = records[t]
    BY <2>4, PutRecord
  <2>6. s <= head.seq + 1
    <3>1. s <= head.seq
      BY <2>1 DEF TamperInv, Tamper
    <3> QED BY <1>1, <2>1, <3>1
  <2> QED BY <2>1, <2>4, <2>5, <2>6, OneMore
<1>5. ASSUME NEW s \in Positions, DeleteRecord(s) PROVE TamperInv'
  <2>1. s \in Used /\ s \in Nat \ {0} /\ Tamper(s)
    BY <1>5 DEF DeleteRecord, AppendInv
  <2>2. Used' = Used \ {s} /\ \A t \in Used' : records'[t] = records[t]
    BY <1>5 DEF DeleteRecord, Used
  <2>3. s <= head.seq
    BY <2>1 DEF TamperInv, Tamper
  <2> QED BY <2>1, <2>2, <2>3, OneMore
<1>6. CASE Insert
  <2> DEFINE r == [content |-> Forged, prevHash |-> head.hash,
                   hash |-> ChainHash(head.hash, Forged)]
             s == head.seq + 1
  <2>1. s \in Nat \ {0} /\ Tamper(s) /\ records' = Put(s, r) /\ r.content = Forged
    BY <1>1, <1>6 DEF Insert
  <2> HIDE DEF r
  <2>2. /\ Used' = Used \cup {s} /\ records'[s] = r
        /\ \A t \in Used : t # s => records'[t] = records[t]
    BY <2>1, PutRecord
  <2>3. s <= head.seq + 1
    BY <1>1
  <2> HIDE DEF s
  <2> QED BY <2>1, <2>2, <2>3, OneMore
<1>7. ASSUME NEW w \in Workers, NEW e \in AuditEvents, BeginAppend(w, e)
      PROVE  TamperInv'
  BY <1>2, <1>7 DEF BeginAppend
<1>8. ASSUME NEW w \in Workers, FailAppend(w) \/ RefuseAppend(w) PROVE TamperInv'
  BY <1>2, <1>8 DEF FailAppend, RefuseAppend
<1>9. ASSUME NEW s \in Positions, VerifyRecord(s) \/ VerifyBroken(s)
      PROVE  TamperInv'
  BY <1>2, <1>9 DEF VerifyRecord, VerifyBroken
<1>10. CASE VerifyStart \/ VerifyEnd \/ UNCHANGED auditVars
  BY <1>2, <1>10 DEF VerifyStart, VerifyEnd, auditVars
<1> QED BY <1>3, <1>4, <1>5, <1>6, <1>7, <1>8, <1>9, <1>10 DEF AuditNext

-----------------------------------------------------------------------------
(* verify finds them *)

LEMMA WalkInit == AuditInit => WalkInv /\ VerifyDetects
BY DEF AuditInit, WalkInv, VerifyDetects, NotVerifying

\* Steps of others: the walk stays where it is, and what became of the first change.
LEMMA WalkStays ==
  ASSUME AppendInv, TamperInv, WalkInv, VerifyDetects,
         \/ verifier' = verifier
         \/ \E moved \in BOOLEAN : verifier' = [verifier EXCEPT !.moved = moved],
         UNCHANGED result, tampered \subseteq tampered',
         \A s \in tampered : s \in Used' <=> s \in Used
  PROVE  WalkInv' /\ VerifyDetects'
<1>1. /\ verifier'.pc = verifier.pc /\ verifier'.at = verifier.at
      /\ verifier'.count = verifier.count /\ verifier'.prev = verifier.prev
      /\ verifier'.first = verifier.first /\ verifier'.head = verifier.head
  BY DEF AppendInv, Verifier
<1>2. VerifyDetects'
  BY DEF VerifyDetects
<1>3. WalkInv'
  BY <1>1 DEF WalkInv
<1> QED BY <1>2, <1>3

LEMMA WalkNext ==
  ASSUME ForgedIsNoEvent, AppendInv, TamperInv, WalkInv, VerifyDetects,
         [AuditNext]_auditVars
  PROVE  WalkInv' /\ VerifyDetects'
<1>1. head.seq \in Nat /\ verifier \in Verifier
  BY DEF AppendInv, Heads
<1>2. ASSUME NEW w \in Workers, CommitAppend(w)
      PROVE  WalkInv' /\ VerifyDetects'
  <2> DEFINE r == [content |-> worker[w].event, prevHash |-> head.hash,
                   hash |-> ChainHash(head.hash, worker[w].event)]
  <2>1. head.seq + 1 \notin Used /\ records' = Put(head.seq + 1, r)
    BY <1>2, Committed
  <2> HIDE DEF r
  <2>2. Used' = Used \cup {head.seq + 1}
    BY <2>1, PutRecord
  <2>3. head.seq + 1 \notin tampered
    <3>1. ASSUME head.seq + 1 \in tampered PROVE FALSE
      <4>1. head.seq + 1 <= head.seq
        BY <2>1, <3>1 DEF TamperInv
      <4> QED BY <1>1, <4>1
    <3> QED BY <3>1
  <2>4. \E moved \in BOOLEAN : verifier' = [verifier EXCEPT !.moved = moved]
    BY <1>2 DEF CommitAppend
  <2>5. UNCHANGED <<result, tampered>>
    BY <1>2 DEF CommitAppend
  <2> QED BY <2>2, <2>3, <2>4, <2>5, WalkStays
<1>3. ASSUME NEW s, Tamper(s), \A t \in tampered : t # s => (t \in Used' <=> t \in Used)
      PROVE  WalkInv' /\ VerifyDetects'
  BY <1>3, WalkStays DEF Tamper
<1>4. ASSUME NEW s \in Positions, Edit(s) \/ DeleteRecord(s)
      PROVE  WalkInv' /\ VerifyDetects'
  <2>1. CASE Edit(s)
    <3>1. PICK hash :
            records' = Put(s, [records[s] EXCEPT !.content = Forged, !.hash = hash])
      BY <2>1 DEF Edit
    <3>2. Used' = Used \cup {s}
      BY <3>1, PutRecord
    <3> QED BY <1>3, <2>1, <3>2 DEF Edit
  <2>2. CASE DeleteRecord(s)
    <3>1. Used' = Used \ {s}
      BY <2>2 DEF DeleteRecord, Used
    <3> QED BY <1>3, <2>2, <3>1 DEF DeleteRecord
  <2> QED BY <1>4, <2>1, <2>2
<1>5. CASE Insert
  <2>1. PICK r : records' = Put(head.seq + 1, r)
    BY <1>5 DEF Insert
  <2>2. Used' = Used \cup {head.seq + 1}
    BY <2>1, PutRecord
  <2>3. Tamper(head.seq + 1)
    BY <1>5 DEF Insert
  <2> QED BY <1>3, <2>2, <2>3
<1>6. CASE VerifyStart
  <2>1. PICK first \in Nat :
          /\ verifier' = [NotVerifying EXCEPT !.pc = "walk", !.head = head,
                                              !.first = first]
          /\ first # 0 => first \in tampered
    BY <1>6, Started
  <2>2. /\ verifier'.at = 0 /\ verifier'.count = 0 /\ verifier'.prev = <<>>
        /\ verifier'.first = first /\ verifier'.head = head
    BY <2>1 DEF NotVerifying, Genesis
  <2>3. UNCHANGED <<records, result, tampered>>
    BY <1>6 DEF VerifyStart
  <2>4. first # 0 => (first \in Used \/ first <= head.seq) /\ 0 < first
    BY <2>1 DEF TamperInv
  <2>5. WalkInv'
    BY <2>1, <2>2, <2>3, <2>4 DEF WalkInv, Used
  <2> QED BY <2>3, <2>5 DEF VerifyDetects
<1>7. ASSUME NEW s \in Positions, VerifyRecord(s)
      PROVE  WalkInv' /\ VerifyDetects'
  <2> DEFINE prev  == verifier.prev
             count == verifier.count
             first == verifier.first
             new   == Append(prev, records[s].content)
  <2>1. /\ s \in Used /\ s = count + 1 /\ verifier.pc = "walk"
        /\ verifier' = [verifier EXCEPT !.count = count + 1, !.prev = new, !.at = s]
        /\ UNCHANGED <<records, result, tampered>>
    BY <1>7 DEF VerifyRecord, IsNext, Sound, ChainHash
  <2>2. /\ prev \in Seq(Contents) /\ Len(prev) = count /\ count \in Nat
        /\ first \in Nat /\ records[s].content \in Contents
    BY <1>1, <2>1 DEF WalkInv, Verifier, Hashes, AppendInv, ChainRecord
  <2>3. /\ verifier'.pc = "walk" /\ verifier'.at = count + 1
        /\ verifier'.count = count + 1 /\ verifier'.prev = new
        /\ verifier'.first = first /\ verifier'.head = verifier.head
    BY <1>1, <2>1 DEF Verifier
  <2>4. /\ Len(new) = count + 1 /\ new[count + 1] = records[s].content
        /\ \A i \in 1..count : new[i] = prev[i]
    BY <2>2
  <2> HIDE DEF new
  <2>5. first # 0 => first \in tampered
    BY <2>1 DEF WalkInv
  <2>6. ASSUME first # 0, first \in Used, first <= count + 1
        PROVE  new[first] = Forged
    <3>1. CASE first = count + 1
      BY <2>1, <2>4, <2>5, <2>6, <3>1 DEF TamperInv
    <3>2. CASE first # count + 1
      <4>1. first \in 1..count
        BY <2>2, <2>6, <3>2
      <4>2. prev[first] = Forged
        BY <2>1, <2>6, <4>1 DEF WalkInv
      <4> QED BY <2>4, <4>1, <4>2
    <3> QED BY <3>1, <3>2
  <2>7. ASSUME first # 0, first \notin Used
        PROVE  first <= verifier.head.seq /\ count + 1 < first
    <3>1. first <= verifier.head.seq /\ count < first
      BY <2>1, <2>7 DEF WalkInv
    <3>2. first # count + 1
      BY <2>1, <2>7
    <3> QED BY <2>2, <3>1, <3>2
  <2>8. Used' = Used
    BY <2>1 DEF Used
  <2>9. WalkInv'
    BY <2>1, <2>3, <2>4, <2>5, <2>6, <2>7, <2>8 DEF WalkInv
  <2> QED BY <2>1, <2>9 DEF VerifyDetects
<1>8. ASSUME NEW valid, NEW at, Report(valid, at), valid => verifier.first = 0
      PROVE  WalkInv' /\ VerifyDetects'
  <2>1. verifier'.pc = "idle"
    BY <1>8 DEF Report, NotVerifying
  <2>2. result'.valid = valid /\ result'.first = verifier.first
    BY <1>8 DEF Report
  <2> QED BY <1>8, <2>1, <2>2 DEF WalkInv, VerifyDetects
<1>9. ASSUME NEW s \in Positions, VerifyBroken(s)
      PROVE  WalkInv' /\ VerifyDetects'
  BY <1>8, <1>9 DEF VerifyBroken
<1>10. CASE VerifyEnd
  <2> DEFINE first == verifier.first
             count == verifier.count
  <2>1. ASSUME verifier.head = [seq |-> count, hash |-> verifier.prev],
               first # 0
        PROVE  FALSE
    <3>1. /\ verifier.pc = "walk" /\ verifier.at = count
          /\ \A s \in Used : s <= verifier.at
      BY <1>10 DEF VerifyEnd, WalkInv
    <3>2. verifier.head \in Heads /\ first \in Nat /\ count \in Nat
      BY <1>1 DEF Verifier
    <3>3. verifier.head.seq = count /\ verifier.head.hash = verifier.prev
      BY <2>1
    <3>4. CASE first \in Used
      <4>1. first \in 1..count
        BY <2>1, <3>1, <3>2, <3>4
      <4>2. verifier.prev[first] = Forged
        BY <2>1, <3>1, <3>4, <4>1 DEF WalkInv
      <4>3. verifier.prev \in Seq(AuditEvents) /\ Len(verifier.prev) = count
        BY <3>2, <3>3 DEF Heads
      <4>4. verifier.prev[first] \in AuditEvents
        BY <4>1, <4>3
      <4> QED BY <4>2, <4>4 DEF ForgedIsNoEvent
    <3>5. CASE first \notin Used
      <4>1. first <= count /\ count < first
        BY <2>1, <3>1, <3>3, <3>5 DEF WalkInv
      <4> QED BY <3>2, <4>1
    <3> QED BY <3>4, <3>5
  <2>2. CASE verifier.head = [seq |-> count, hash |-> verifier.prev]
    BY <1>8, <1>10, <2>1, <2>2 DEF VerifyEnd
  <2>3. CASE verifier.head # [seq |-> count, hash |-> verifier.prev]
    BY <1>8, <1>10, <2>3 DEF VerifyEnd
  <2> QED BY <2>2, <2>3
<1>11. ASSUME NEW w \in Workers,
              FailAppend(w) \/ RefuseAppend(w) \/ \E e \in AuditEvents : BeginAppend(w, e)
       PROVE  WalkInv' /\ VerifyDetects'
  BY <1>11, WalkStays DEF FailAppend, RefuseAppend, BeginAppend, Used
<1>12. CASE UNCHANGED auditVars
  BY <1>12, WalkStays DEF auditVars, Used
<1> QED BY <1>2, <1>4, <1>5, <1>6, <1>7, <1>9, <1>10, <1>11, <1>12 DEF AuditNext

\* A record edited, deleted or inserted, and a tail cut off, before verify started:
\* it does not answer that the chain is valid, whatever is appended while it walks.
THEOREM VerifyFindsChanges ==
  ASSUME ForgedIsNoEvent PROVE AuditSpec => []VerifyDetects
<1>1. AuditInit => DetectInv
  BY AppendInit, TamperInit, WalkInit DEF DetectInv
<1>2. DetectInv /\ [AuditNext]_auditVars => DetectInv'
  BY AppendNext, TamperNext, WalkNext DEF DetectInv
<1>3. DetectInv => VerifyDetects
  BY DEF DetectInv
<1> QED BY <1>1, <1>2, <1>3, PTL DEF AuditSpec

-----------------------------------------------------------------------------
(* One chain *)

\* The link of the record at s, and the hash that the newest position has.
LinkedAt(s) ==
  /\ records[s].prevHash = IF s = 1 THEN Genesis ELSE records[s - 1].hash
  /\ records[s].hash = ChainHash(records[s].prevHash, records[s].content)

HashAt(n) == IF n = 0 THEN Genesis ELSE records[n].hash

\* A chain that nobody changed: one record per position and per marker, and a walk
\* that has the hash of the last record it read.
CleanInv == tampered = {} =>
  /\ Used = 1..head.seq
  /\ \A s \in Used : LinkedAt(s)
  /\ head.hash = HashAt(head.seq)
  /\ {records[s].content : s \in Used} = marked
  /\ IsFiniteSet(Used) /\ IsFiniteSet(marked)
  /\ Cardinality(Used) = Cardinality(marked)

CleanWalkInv == tampered = {} =>
  /\ verifier.pc = "walk" =>
       /\ verifier.at = verifier.count /\ verifier.count <= head.seq
       /\ verifier.prev = HashAt(verifier.count)
       /\ ~verifier.moved => verifier.head = head
  /\ ~result.moved => result.valid

LEMMA CleanInit == AuditInit => CleanInv /\ CleanWalkInv
<1> SUFFICES ASSUME AuditInit PROVE CleanInv /\ CleanWalkInv
  OBVIOUS
<1>1. Used = {} /\ head.seq = 0 /\ head.hash = Genesis
  BY DEF AuditInit, Used, NoHead
<1>2. 1..head.seq = {}
  BY <1>1
<1>3. IsFiniteSet({}) /\ Cardinality({}) = 0
  BY FS_EmptySet
<1>4. {records[s].content : s \in Used} = {}
  BY <1>1
<1>5. CleanInv
  BY <1>1, <1>2, <1>3, <1>4 DEF AuditInit, CleanInv, HashAt
<1>6. CleanWalkInv
  BY DEF AuditInit, CleanWalkInv, NotVerifying
<1> QED BY <1>5, <1>6

LEMMA CleanNext ==
  ASSUME AppendInv, CleanInv, CleanWalkInv, [AuditNext]_auditVars
  PROVE  CleanInv' /\ CleanWalkInv'
<1>1. head.seq \in Nat /\ verifier \in Verifier
  BY DEF AppendInv, Heads
<1>2. ASSUME NEW s, Tamper(s) PROVE CleanInv' /\ CleanWalkInv'
  BY <1>2 DEF Tamper, CleanInv, CleanWalkInv
<1>3. ASSUME UNCHANGED <<records, head, marked, tampered>> PROVE CleanInv'
  BY <1>3 DEF CleanInv, Used, LinkedAt, HashAt
<1>4. ASSUME UNCHANGED <<records, head, tampered, verifier, result>>
      PROVE  CleanWalkInv'
  BY <1>4 DEF CleanWalkInv, HashAt
<1>5. ASSUME NEW w \in Workers, CommitAppend(w)
      PROVE  CleanInv' /\ CleanWalkInv'
  <2> DEFINE e == worker[w].event
             n == head.seq + 1
             r == [content |-> e, prevHash |-> head.hash,
                   hash |-> ChainHash(head.hash, e)]
  <2>1. /\ e \notin marked /\ n \notin Used
        /\ records' = Put(n, r)
        /\ head' = [seq |-> n, hash |-> ChainHash(head.hash, e)]
    BY <1>5, Committed
  <2>2. r.content = e /\ r.prevHash = head.hash
        /\ r.hash = ChainHash(head.hash, e)
    OBVIOUS
  <2>3. head'.seq = n /\ head'.hash = r.hash
    BY <2>1
  <2> HIDE DEF r
  <2>4. /\ Used' = Used \cup {n} /\ records'[n] = r
        /\ \A t \in Used : t # n => records'[t] = records[t]
    BY <2>1, PutRecord
  <2>5. tampered' = tampered /\ marked' = marked \cup {e} /\ result' = result
        /\ verifier' = [verifier EXCEPT !.moved = (verifier.pc = "walk")]
    BY <1>5 DEF CommitAppend
  <2>6. CASE tampered = {}
    <3>1. /\ Used = 1..head.seq /\ head.hash = HashAt(head.seq)
          /\ \A s \in Used : LinkedAt(s)
          /\ {records[s].content : s \in Used} = marked
          /\ IsFiniteSet(Used) /\ IsFiniteSet(marked)
          /\ Cardinality(Used) = Cardinality(marked)
      BY <2>6 DEF CleanInv
    <3>2. \A t \in Used : records'[t] = records[t]
      BY <2>1, <2>4
    <3>3. Used' = 1..n
      BY <1>1, <2>4, <3>1
    <3>4. \A m \in 0..head.seq : HashAt(m)' = HashAt(m)
      BY <1>1, <3>1, <3>2 DEF HashAt
    <3>5. /\ records'[n].prevHash = IF n = 1 THEN Genesis ELSE records'[n - 1].hash
          /\ records'[n].hash = ChainHash(records'[n].prevHash, records'[n].content)
      <4>1. CASE head.seq = 0
        BY <1>1, <2>2, <2>4, <3>1, <4>1 DEF HashAt
      <4>2. CASE head.seq # 0
        <5>1. head.seq \in Used /\ n # 1 /\ n - 1 = head.seq
          BY <1>1, <3>1, <4>2
        <5>2. records'[n - 1].hash = head.hash
          BY <3>1, <3>2, <4>2, <5>1 DEF HashAt
        <5> QED BY <2>2, <2>4, <5>1, <5>2
      <4> QED BY <4>1, <4>2
    <3>6. ASSUME NEW s \in Used PROVE LinkedAt(s)'
      <4>1. s # 1 => s - 1 \in Used
        BY <1>1, <3>1
      <4> QED BY <3>1, <3>2, <4>1 DEF LinkedAt
    <3>7. head'.hash = HashAt(head.seq)'
      <4>1. n # 0
        BY <1>1
      <4> QED BY <2>3, <2>4, <4>1 DEF HashAt
    <3>8. {records[s].content : s \in Used}' = marked'
      BY <2>2, <2>4, <2>5, <3>1, <3>2
    <3>9. /\ IsFiniteSet(Used') /\ Cardinality(Used') = Cardinality(Used) + 1
          /\ IsFiniteSet(marked') /\ Cardinality(marked') = Cardinality(marked) + 1
      BY <2>1, <2>4, <2>5, <3>1, FS_AddElement
    <3>10. CleanInv'
      <4>1. \A s \in Used' : LinkedAt(s)'
        BY <2>4, <3>5, <3>6 DEF LinkedAt
      <4>2. Used' = 1..head'.seq
        BY <2>3, <3>3
      <4> QED BY <3>1, <3>7, <3>8, <3>9, <4>1, <4>2 DEF CleanInv
    <3>11. CleanWalkInv'
      <4>1. /\ verifier'.pc = verifier.pc /\ verifier'.at = verifier.at
            /\ verifier'.count = verifier.count /\ verifier'.prev = verifier.prev
            /\ verifier'.moved = (verifier.pc = "walk")
        BY <1>1, <2>5 DEF Verifier
      <4>2. ASSUME verifier.pc = "walk"
            PROVE  /\ verifier.at = verifier.count /\ verifier.count <= n
                   /\ verifier.prev = HashAt(verifier.count)'
        <5>1. /\ verifier.at = verifier.count /\ verifier.count <= head.seq
              /\ verifier.prev = HashAt(verifier.count)
          BY <2>6, <4>2 DEF CleanWalkInv
        <5>2. verifier.count \in 0..head.seq
          BY <1>1, <5>1 DEF Verifier
        <5>3. HashAt(verifier.count)' = HashAt(verifier.count)
          <6>1. verifier'.count = verifier.count
            BY <4>1
          <6> QED BY <3>1, <3>2, <5>2, <6>1 DEF HashAt
        <5> QED BY <1>1, <5>1, <5>2, <5>3
      <4>3. ~result.moved => result.valid
        BY <2>6 DEF CleanWalkInv
      <4> QED BY <2>3, <2>5, <4>1, <4>2, <4>3 DEF CleanWalkInv
    <3> QED BY <3>10, <3>11
  <2>7. CASE tampered # {}
    BY <2>5, <2>7 DEF CleanInv, CleanWalkInv
  <2> QED BY <2>6, <2>7
<1>6. CASE VerifyStart
  <2>1. /\ verifier'.at = 0 /\ verifier'.count = 0 /\ verifier'.prev = Genesis
        /\ verifier'.head = head /\ verifier'.moved = FALSE
    BY <1>6 DEF VerifyStart, NotVerifying
  <2>2. UNCHANGED <<records, head, marked, tampered, result>>
    BY <1>6 DEF VerifyStart
  <2>3. CleanWalkInv'
    BY <1>1, <2>1, <2>2 DEF CleanWalkInv, HashAt
  <2> QED BY <1>3, <2>2, <2>3
<1>7. ASSUME NEW s \in Positions, VerifyRecord(s)
      PROVE  CleanInv' /\ CleanWalkInv'
  <2>1. /\ s \in Used /\ s = verifier.count + 1 /\ verifier.pc = "walk"
        /\ verifier' = [verifier EXCEPT !.count = verifier.count + 1,
                                        !.prev = records[s].hash, !.at = s]
        /\ UNCHANGED <<records, head, marked, tampered, result>>
    BY <1>7 DEF VerifyRecord, IsNext, Sound
  <2>2. /\ verifier'.at = s /\ verifier'.count = s
        /\ verifier'.prev = records[s].hash /\ verifier'.head = verifier.head
        /\ verifier'.moved = verifier.moved
    BY <1>1, <2>1 DEF Verifier
  <2>3. s # 0
    BY <2>1 DEF AppendInv
  <2>4. tampered = {} => s <= head.seq
    BY <1>1, <2>1 DEF CleanInv
  <2>5. CleanWalkInv'
    BY <2>1, <2>2, <2>3, <2>4 DEF CleanWalkInv, HashAt
  <2> QED BY <1>3, <2>1, <2>5
<1>8. ASSUME NEW valid, NEW at, Report(valid, at),
             UNCHANGED <<records, head, marked, tampered>>,
             tampered = {} /\ ~verifier.moved => valid
      PROVE  CleanInv' /\ CleanWalkInv'
  <2>1. /\ verifier'.pc = "idle" /\ result'.valid = valid
        /\ result'.moved = verifier.moved
    BY <1>8 DEF Report, NotVerifying
  <2>2. CleanWalkInv'
    BY <1>8, <2>1 DEF CleanWalkInv
  <2> QED BY <1>3, <1>8, <2>2
<1>9. ASSUME NEW s \in Positions, VerifyBroken(s)
      PROVE  CleanInv' /\ CleanWalkInv'
  <2>1. ASSUME tampered = {} PROVE Sound(s)
    <3>1. /\ s \in Used /\ verifier.at < s /\ verifier.pc = "walk"
          /\ \A t \in Used : verifier.at < t => s <= t
      BY <1>9 DEF VerifyBroken, IsNext
    <3>2. /\ verifier.at = verifier.count /\ verifier.prev = HashAt(verifier.count)
          /\ verifier.count \in Nat
      BY <1>1, <2>1, <3>1 DEF CleanWalkInv, Verifier
    <3>3. Used = 1..head.seq /\ LinkedAt(s)
      BY <2>1, <3>1 DEF CleanInv
    <3>4. s = verifier.count + 1
      <4>1. s \in 1..head.seq /\ verifier.count < s
        BY <3>1, <3>2, <3>3
      <4>2. verifier.count + 1 \in Used
        BY <1>1, <3>2, <3>3, <4>1
      <4>3. s <= verifier.count + 1
        BY <3>1, <3>2, <4>2
      <4> QED BY <3>2, <4>1, <4>3
    <3>5. records[s].prevHash = verifier.prev
      <4>1. s = 1 <=> verifier.count = 0
        BY <3>2, <3>4
      <4>2. s - 1 = verifier.count
        BY <3>2, <3>4
      <4> QED BY <3>2, <3>3, <4>1, <4>2 DEF LinkedAt, HashAt
    <3> QED BY <3>3, <3>4, <3>5 DEF Sound, LinkedAt
  <2> QED BY <1>8, <1>9, <2>1 DEF VerifyBroken
<1>10. CASE VerifyEnd
  <2>1. ASSUME tampered = {}, ~verifier.moved
        PROVE  verifier.head = [seq |-> verifier.count, hash |-> verifier.prev]
    <3>1. /\ verifier.pc = "walk" /\ \A s \in Used : s <= verifier.at
      BY <1>10 DEF VerifyEnd
    <3>2. /\ verifier.at = verifier.count /\ verifier.count <= head.seq
          /\ verifier.prev = HashAt(verifier.count) /\ verifier.head = head
          /\ verifier.count \in Nat
      BY <1>1, <2>1, <3>1 DEF CleanWalkInv, Verifier
    <3>3. Used = 1..head.seq /\ head.hash = HashAt(head.seq)
      BY <2>1 DEF CleanInv
    <3>4. verifier.count = head.seq
      <4>1. CASE head.seq = 0
        BY <3>2, <4>1
      <4>2. CASE head.seq # 0
        <5>1. head.seq \in Used
          BY <1>1, <3>3, <4>2
        <5>2. head.seq <= verifier.count
          BY <3>1, <3>2, <5>1
        <5> QED BY <1>1, <3>2, <5>2
      <4> QED BY <4>1, <4>2
    <3>5. head = [seq |-> head.seq, hash |-> head.hash]
      BY DEF AppendInv, Heads
    <3> QED BY <3>2, <3>3, <3>4, <3>5
  <2>2. CASE verifier.head = [seq |-> verifier.count, hash |-> verifier.prev]
    BY <1>8, <1>10, <2>2 DEF VerifyEnd
  <2>3. CASE verifier.head # [seq |-> verifier.count, hash |-> verifier.prev]
    BY <1>8, <1>10, <2>1, <2>3 DEF VerifyEnd
  <2> QED BY <2>2, <2>3
<1>11. ASSUME NEW w \in Workers,
              FailAppend(w) \/ RefuseAppend(w) \/ \E e \in AuditEvents : BeginAppend(w, e)
       PROVE  CleanInv' /\ CleanWalkInv'
  BY <1>3, <1>4, <1>11 DEF FailAppend, RefuseAppend, BeginAppend
<1>12. ASSUME NEW s \in Positions, Edit(s) \/ DeleteRecord(s)
       PROVE  CleanInv' /\ CleanWalkInv'
  BY <1>2, <1>12 DEF Edit, DeleteRecord
<1>13. CASE Insert
  BY <1>2, <1>13 DEF Insert
<1>14. CASE UNCHANGED auditVars
  BY <1>3, <1>4, <1>14 DEF auditVars
<1> QED BY <1>5, <1>6, <1>7, <1>9, <1>10, <1>11, <1>12, <1>13, <1>14 DEF AuditNext

\* The invariant of a chain with its changes and its walk.
ChainInv == AppendInv /\ TamperInv /\ CleanInv /\ CleanWalkInv

LEMMA ChainInvariant == AuditSpec => []ChainInv
<1>1. AuditInit => ChainInv
  BY AppendInit, TamperInit, CleanInit DEF ChainInv
<1>2. ChainInv /\ [AuditNext]_auditVars => ChainInv'
  BY AppendNext, TamperNext, CleanNext DEF ChainInv
<1> QED BY <1>1, <1>2, PTL DEF AuditSpec

\* However many replicas append at once: one chain, without a gap or a fork.
THEOREM ChainNeverForks == AuditSpec => []OneChain
<1>1. ChainInv => OneChain
  <2> SUFFICES ASSUME ChainInv, tampered = {} PROVE OneChain
    BY DEF OneChain
  <2>1. /\ Used = 1..head.seq /\ \A s \in Used : LinkedAt(s)
        /\ head.hash = HashAt(head.seq)
    BY DEF ChainInv, CleanInv
  <2> QED BY <2>1 DEF OneChain, LinkedAt, HashAt
<1> QED BY <1>1, ChainInvariant, PTL

\* An event is in the chain exactly when its marker is written, and once.
THEOREM EventsAreChainedOnce == AuditSpec => []MarkedIsChained
<1>1. ChainInv => MarkedIsChained
  BY DEF ChainInv, CleanInv, MarkedIsChained
<1> QED BY <1>1, ChainInvariant, PTL

\* As long as nobody changed the chain: no append saw the position after the head in use,
\* and no event was passed over.
DropInv == tampered = {} =>
  /\ dropped = {}
  /\ \A w \in Workers : worker[w].pc = "append" => ~worker[w].taken

LEMMA DropNext == ChainInv /\ DropInv /\ [AuditNext]_auditVars => DropInv'
<1> SUFFICES ASSUME ChainInv, DropInv, [AuditNext]_auditVars, tampered' = {} PROVE DropInv'
  BY DEF DropInv
<1>0. worker \in [Workers -> Worker]
  BY DEF ChainInv, AppendInv
<1>1. ASSUME tampered = {}, NEW w \in Workers, NEW e \in AuditEvents, BeginAppend(w, e)
      PROVE  DropInv'
  <2>1. Used = 1..head.seq /\ head.seq \in Nat
    BY <1>1 DEF ChainInv, CleanInv, AppendInv, Heads
  <2>2. head.seq + 1 \notin Used
    BY <2>1
  <2> QED BY <1>0, <1>1, <2>2 DEF BeginAppend, DropInv
<1>2. ASSUME tampered = {}, NEW w \in Workers,
             CommitAppend(w) \/ FailAppend(w) \/ RefuseAppend(w)
      PROVE  DropInv'
  BY <1>0, <1>2 DEF CommitAppend, FailAppend, RefuseAppend, Resting, DropInv
<1>3. CASE tampered = {} /\ UNCHANGED <<worker, dropped>>
  BY <1>3 DEF DropInv
<1>4. ASSUME NEW s, Tamper(s) PROVE FALSE
  BY <1>4 DEF Tamper
<1>5. tampered = {} \/ \E s : Tamper(s)
  BY DEF AuditNext, BeginAppend, CommitAppend, FailAppend, RefuseAppend, VerifyStart,
     VerifyEnd, VerifyRecord, VerifyBroken, Edit, DeleteRecord, Insert, auditVars
<1> QED
  BY <1>1, <1>2, <1>3, <1>4, <1>5 DEF AuditNext, VerifyStart, VerifyEnd, VerifyRecord,
     VerifyBroken, Edit, DeleteRecord, Insert, auditVars

\* No event is passed over, at any position, while nobody changed the chain.
LEMMA AppendsAreNotDropped == AuditSpec => []NothingDropped
<1>1. AuditInit => DropInv
  BY DEF AuditInit, DropInv, Resting
<1>2. DropInv => NothingDropped
  BY DEF DropInv, NothingDropped
<1> QED BY <1>1, <1>2, DropNext, ChainInvariant, PTL DEF AuditSpec

\* verify accepts a chain that nobody changed, unless it grew meanwhile.
THEOREM QuietChainsAreAccepted == AuditSpec => []QuietVerifyAccepts
<1>1. ChainInv => QuietVerifyAccepts
  BY DEF ChainInv, CleanWalkInv, QuietVerifyAccepts
<1> QED BY <1>1, ChainInvariant, PTL

-----------------------------------------------------------------------------
(* verify points at a change *)

\* What an append wrote stays linked until somebody changes it: hashes of appended events
\* only, a record at each position up to the head, and links between records nobody changed.
LinkInv ==
  /\ \A s \in Used : records[s].prevHash \in Seq(AuditEvents)
  /\ \A s \in 1..head.seq : s \in Used \/ s \in tampered
  /\ \A s \in Used \ tampered :
       /\ records[s].hash = ChainHash(records[s].prevHash, records[s].content)
       /\ s = 1 => records[s].prevHash = Genesis
       /\ s # 1 /\ s - 1 \notin tampered =>
            s - 1 \in Used /\ records[s].prevHash = records[s - 1].hash
  /\ head.seq # 0 /\ head.seq \notin tampered => head.hash = records[head.seq].hash

\* The walk has the hash of the last record it read, unless that was changed meanwhile, and
\* it is not past the first change made before it started.
PointInv == verifier.pc = "walk" =>
  /\ verifier.head.seq <= head.seq
  /\ verifier.head.seq = head.seq => verifier.head = head
  /\ verifier.count = 0 => verifier.prev = Genesis
  /\ verifier.count # 0 /\ verifier.count \notin tampered =>
       verifier.count \in Used /\ verifier.prev = records[verifier.count].hash
  /\ verifier.first # 0 =>
       verifier.first <= verifier.head.seq + 1 /\ verifier.count <= verifier.first

LEMMA PointInit == AuditInit => LinkInv /\ PointInv /\ VerifyPointsAtChange
<1> SUFFICES ASSUME AuditInit PROVE LinkInv /\ PointInv /\ VerifyPointsAtChange
  OBVIOUS
<1>1. Used = {} /\ head.seq = 0
  BY DEF AuditInit, Used, NoHead
<1>2. LinkInv
  BY <1>1 DEF LinkInv
<1> QED BY <1>2 DEF AuditInit, PointInv, VerifyPointsAtChange, NotVerifying

\* A change at s, whatever becomes of the record there.
LEMMA ChangeKeepsLinks ==
  ASSUME AppendInv, LinkInv, NEW s, Tamper(s),
         \A t : t # s => (t \in Used' <=> t \in Used),
         \A t \in Used : t # s => records'[t] = records[t],
         s \in Used' => records'[s].prevHash \in Seq(AuditEvents)
  PROVE  LinkInv'
<1>1. tampered' = tampered \cup {s} /\ head' = head
  BY DEF Tamper
<1>2. \A t \in Used' : records'[t].prevHash \in Seq(AuditEvents)
  BY DEF LinkInv
<1>3. \A t \in 1..head.seq : t \in Used' \/ t \in tampered'
  BY <1>1 DEF LinkInv
<1>4. ASSUME NEW t \in Used' \ tampered'
      PROVE  /\ records'[t].hash = ChainHash(records'[t].prevHash, records'[t].content)
             /\ t = 1 => records'[t].prevHash = Genesis
             /\ t # 1 /\ t - 1 \notin tampered' =>
                  t - 1 \in Used' /\ records'[t].prevHash = records'[t - 1].hash
  <2>1. t # s /\ t \in Used \ tampered /\ records'[t] = records[t]
    BY <1>1
  <2>2. ASSUME t # 1, t - 1 \notin tampered'
        PROVE  t - 1 \in Used' /\ records'[t].prevHash = records'[t - 1].hash
    <3>1. t - 1 # s /\ t - 1 \notin tampered
      BY <1>1, <2>2
    <3>2. t - 1 \in Used /\ records[t].prevHash = records[t - 1].hash
      BY <2>1, <2>2, <3>1 DEF LinkInv
    <3> QED BY <2>1, <3>1, <3>2
  <2> QED BY <2>1, <2>2 DEF LinkInv
<1>5. head.seq # 0 /\ head.seq \notin tampered' => head.hash = records'[head.seq].hash
  <2> SUFFICES ASSUME head.seq # 0, head.seq \notin tampered'
               PROVE  head.hash = records'[head.seq].hash
    OBVIOUS
  <2>1. head.seq \in 1..head.seq
    BY DEF AppendInv, Heads
  <2>2. head.seq \in Used /\ head.seq # s /\ head.seq \notin tampered
    BY <1>1, <2>1 DEF LinkInv
  <2> QED BY <2>2 DEF LinkInv
<1> QED BY <1>1, <1>2, <1>3, <1>4, <1>5 DEF LinkInv

\* A transaction appends at a position that nobody changed.
LEMMA AppendsUnchanged ==
  ASSUME AppendInv, TamperInv, head.seq + 1 \notin Used
  PROVE  head.seq + 1 \notin tampered
<1>1. head.seq \in Nat
  BY DEF AppendInv, Heads
<1>2. ASSUME head.seq + 1 \in tampered PROVE FALSE
  <2>1. head.seq + 1 <= head.seq
    BY <1>2 DEF TamperInv
  <2> QED BY <1>1, <2>1
<1> QED BY <1>2

LEMMA LinkNext ==
  ASSUME AppendInv, TamperInv, LinkInv, [AuditNext]_auditVars
  PROVE  LinkInv'
<1>1. head.seq \in Nat /\ head.hash \in Seq(AuditEvents) /\ Len(head.hash) = head.seq
  BY DEF AppendInv, Heads
<1>2. ASSUME UNCHANGED <<records, head, tampered>> PROVE LinkInv'
  BY <1>2 DEF LinkInv, Used
<1>3. ASSUME NEW w \in Workers, CommitAppend(w) PROVE LinkInv'
  <2> DEFINE e == worker[w].event
             n == head.seq + 1
             r == [content |-> e, prevHash |-> head.hash,
                   hash |-> ChainHash(head.hash, e)]
  <2>1. /\ n \notin Used /\ records' = Put(n, r)
        /\ head' = [seq |-> n, hash |-> ChainHash(head.hash, e)]
    BY <1>3, Committed
  <2>2. r.content = e /\ r.prevHash = head.hash /\ r.hash = ChainHash(head.hash, e)
        /\ head'.seq = n /\ head'.hash = r.hash
    BY <2>1
  <2> HIDE DEF r
  <2>3. /\ Used' = Used \cup {n} /\ records'[n] = r
        /\ \A t \in Used : records'[t] = records[t]
    BY <2>1, PutRecord
  <2>4. tampered' = tampered
    BY <1>3 DEF CommitAppend
  <2>5. n \notin tampered
    BY <2>1, AppendsUnchanged
  <2>6. \A t \in Used' : records'[t].prevHash \in Seq(AuditEvents)
    BY <1>1, <2>2, <2>3 DEF LinkInv
  <2>7. \A t \in 1..n : t \in Used' \/ t \in tampered'
    BY <1>1, <2>3, <2>4 DEF LinkInv
  <2>8. ASSUME NEW t \in Used \ tampered
        PROVE  /\ records'[t].hash = ChainHash(records'[t].prevHash, records'[t].content)
               /\ t = 1 => records'[t].prevHash = Genesis
               /\ t # 1 /\ t - 1 \notin tampered =>
                    t - 1 \in Used' /\ records'[t].prevHash = records'[t - 1].hash
    BY <2>3 DEF LinkInv
  <2>9. n = 1 => head.hash = Genesis
    BY <1>1 DEF Genesis
  <2>10. n # 1 /\ n - 1 \notin tampered =>
           n - 1 \in Used /\ head.hash = records[n - 1].hash
    <3>1. n - 1 = head.seq /\ (n # 1 => head.seq \in 1..head.seq)
      BY <1>1
    <3> QED BY <3>1 DEF LinkInv
  <2> HIDE DEF n
  <2> QED BY <2>2, <2>3, <2>4, <2>6, <2>7, <2>8, <2>9, <2>10 DEF LinkInv
<1>4. ASSUME NEW s \in Positions, Edit(s) PROVE LinkInv'
  <2>1. s \in Used /\ records[s] \in ChainRecord /\ Tamper(s)
    BY <1>4 DEF Edit, AppendInv
  <2>2. PICK hash :
          records' = Put(s, [records[s] EXCEPT !.content = Forged, !.hash = hash])
    BY <1>4 DEF Edit
  <2> DEFINE r == [records[s] EXCEPT !.content = Forged, !.hash = hash]
  <2>3. records' = Put(s, r) /\ r.prevHash = records[s].prevHash
    BY <2>1, <2>2 DEF ChainRecord
  <2> HIDE DEF r
  <2>4. /\ Used' = Used \cup {s} /\ records'[s] = r
        /\ \A t \in Used : t # s => records'[t] = records[t]
    BY <2>3, PutRecord
  <2>5. records[s].prevHash \in Seq(AuditEvents)
    BY <2>1 DEF LinkInv
  <2> QED BY <2>1, <2>3, <2>4, <2>5, ChangeKeepsLinks
<1>5. ASSUME NEW s \in Positions, DeleteRecord(s) PROVE LinkInv'
  <2>1. Used' = Used \ {s} /\ \A t \in Used' : records'[t] = records[t]
    BY <1>5 DEF DeleteRecord, Used
  <2>2. Tamper(s)
    BY <1>5 DEF DeleteRecord
  <2> QED BY <2>1, <2>2, ChangeKeepsLinks
<1>6. CASE Insert
  <2> DEFINE r == [content |-> Forged, prevHash |-> head.hash,
                   hash |-> ChainHash(head.hash, Forged)]
             s == head.seq + 1
  <2>1. Tamper(s) /\ records' = Put(s, r) /\ r.prevHash = head.hash
    BY <1>6 DEF Insert
  <2> HIDE DEF r, s
  <2>2. /\ Used' = Used \cup {s} /\ records'[s] = r
        /\ \A t \in Used : t # s => records'[t] = records[t]
    BY <2>1, PutRecord
  <2> QED BY <1>1, <2>1, <2>2, ChangeKeepsLinks
<1>7. ASSUME NEW w \in Workers,
             FailAppend(w) \/ RefuseAppend(w) \/ \E e \in AuditEvents : BeginAppend(w, e)
      PROVE  LinkInv'
  BY <1>2, <1>7 DEF FailAppend, RefuseAppend, BeginAppend
<1>8. ASSUME NEW s \in Positions, VerifyRecord(s) \/ VerifyBroken(s)
      PROVE  LinkInv'
  BY <1>2, <1>8 DEF VerifyRecord, VerifyBroken
<1>9. CASE VerifyStart \/ VerifyEnd \/ UNCHANGED auditVars
  BY <1>2, <1>9 DEF VerifyStart, VerifyEnd, auditVars
<1> QED BY <1>3, <1>4, <1>5, <1>6, <1>7, <1>8, <1>9 DEF AuditNext

\* Steps of others: what the walk read last stays, or is a change of now.
LEMMA PointStays ==
  ASSUME AppendInv, PointInv, VerifyPointsAtChange,
         \/ verifier' = verifier
         \/ \E moved \in BOOLEAN : verifier' = [verifier EXCEPT !.moved = moved],
         UNCHANGED result, tampered \subseteq tampered',
         head' = head \/ head'.seq = head.seq + 1,
         \A t \in Used \ tampered' : t \in Used' /\ records'[t] = records[t]
  PROVE  PointInv' /\ VerifyPointsAtChange'
<1>1. /\ verifier'.pc = verifier.pc /\ verifier'.head = verifier.head
      /\ verifier'.count = verifier.count /\ verifier'.prev = verifier.prev
      /\ verifier'.first = verifier.first
  BY DEF AppendInv, Verifier
<1>2. VerifyPointsAtChange'
  BY DEF VerifyPointsAtChange
<1>3. head.seq \in Nat /\ verifier.head.seq \in Nat
  BY DEF AppendInv, Heads, Verifier
<1>4. PointInv'
  BY <1>1, <1>3 DEF PointInv
<1> QED BY <1>2, <1>4

\* The record a walk that started after a change comes to next: the walk is before the
\* change, because a changed record is in its hash and in no hash that an append wrote.
LEMMA WalkBeforeChange ==
  ASSUME ForgedIsNoEvent, AppendInv, WalkInv, LinkInv, PointInv,
         NEW s \in Used, verifier.pc = "walk", s = verifier.count + 1, Sound(s),
         verifier.first # 0
  PROVE  s <= verifier.first
<1> DEFINE first == verifier.first
<1>1. first \in Nat /\ verifier.count \in Nat /\ verifier.count <= first
  BY DEF AppendInv, Verifier, PointInv
<1>2. ASSUME verifier.count = first PROVE FALSE
  <2>1. first \in Used /\ verifier.prev[first] = Forged /\ Len(verifier.prev) = first
    BY <1>1, <1>2 DEF WalkInv
  <2>2. verifier.prev \in Seq(AuditEvents)
    BY DEF Sound, LinkInv
  <2>3. verifier.prev[first] \in AuditEvents
    BY <1>1, <2>1, <2>2
  <2> QED BY <2>1, <2>3 DEF ForgedIsNoEvent
<1> QED BY <1>1, <1>2

\* A report next to what is missing or wrong.
LEMMA BrokenAtChange ==
  ASSUME AppendInv, TamperInv, WalkInv, LinkInv, PointInv,
         NEW s, verifier.pc = "walk", IsNext(s), ~Sound(s)
  PROVE  \E t \in tampered : verifier.count + 1 \in {t, t + 1}
<1> DEFINE count == verifier.count
<1>1. /\ s \in Used /\ s \in Nat \ {0} /\ count \in Nat /\ head.seq \in Nat
      /\ count < s /\ \A t \in Used : count < t => s <= t
  BY DEF IsNext, AppendInv, Heads, Verifier, WalkInv
<1>2. tampered \subseteq Nat \ {0}
  BY DEF TamperInv
<1>3. CASE s # count + 1
  <2>1. s <= head.seq + 1
    BY <1>1 DEF TamperInv
  <2>2. count + 1 \in 1..head.seq /\ count + 1 \notin Used
    BY <1>1, <1>3, <2>1
  <2>3. count + 1 \in tampered
    BY <2>2 DEF LinkInv
  <2> QED BY <2>3
<1>4. CASE s = count + 1
  <2>1. ASSUME s \notin tampered, count \notin tampered PROVE FALSE
    <3>1. s - 1 = count /\ (s = 1 <=> count = 0)
      BY <1>1, <1>4
    <3>2. records[s].hash = ChainHash(records[s].prevHash, records[s].content)
      BY <1>1, <2>1 DEF LinkInv
    <3>3. records[s].prevHash = verifier.prev
      <4>1. CASE count = 0
        BY <1>1, <2>1, <3>1, <4>1 DEF LinkInv, PointInv
      <4>2. CASE count # 0
        BY <1>1, <2>1, <3>1, <4>2 DEF LinkInv, PointInv
      <4> QED BY <4>1, <4>2
    <3> QED BY <1>4, <3>2, <3>3 DEF Sound
  <2> QED BY <1>2, <1>4, <2>1
<1> QED BY <1>3, <1>4

\* And at the end, where a record is missing or was added.
LEMMA EndAtChange ==
  ASSUME AppendInv, TamperInv, WalkInv, LinkInv, PointInv,
         verifier.pc = "walk", \A s \in Used : s <= verifier.at, verifier.first # 0,
         verifier.head # [seq |-> verifier.count, hash |-> verifier.prev]
  PROVE  \E t \in tampered : verifier.count + 1 \in {t, t + 1}
<1> DEFINE count == verifier.count
<1>1. /\ count \in Nat /\ head.seq \in Nat /\ verifier.head.seq \in Nat
      /\ verifier.first \in Nat /\ \A s \in Used : s <= count
  BY DEF AppendInv, Heads, Verifier, WalkInv
<1>2. tampered \subseteq Nat \ {0} /\ verifier.first \in tampered
  BY DEF TamperInv, WalkInv
<1>3. ASSUME count \notin tampered, count + 1 \notin tampered PROVE FALSE
  <2>1. ~(count + 1 <= head.seq)
    <3>1. ASSUME count + 1 <= head.seq PROVE FALSE
      <4>1. count + 1 \in 1..head.seq /\ count + 1 \notin Used
        BY <1>1, <3>1
      <4> QED BY <1>3, <4>1 DEF LinkInv
    <3> QED BY <3>1
  <2>2. count # 0 => count \in Used
    BY <1>3 DEF PointInv
  <2>3. count <= head.seq
    BY <1>1, <1>3, <2>2 DEF TamperInv
  <2>4. count = head.seq
    BY <1>1, <2>1, <2>3
  <2>5. verifier.prev = head.hash
    <3>1. CASE count = 0
      <4>1. verifier.prev = <<>>
        BY <3>1 DEF PointInv, Genesis
      <4>2. head.hash \in Seq(AuditEvents) /\ Len(head.hash) = 0
        BY <2>4, <3>1 DEF AppendInv, Heads
      <4> QED BY <4>1, <4>2
    <3>2. CASE count # 0
      BY <1>3, <2>4, <3>2 DEF PointInv, LinkInv
    <3> QED BY <3>1, <3>2
  <2>6. head = [seq |-> head.seq, hash |-> head.hash]
    BY DEF AppendInv, Heads
  <2>7. verifier.head.seq < head.seq
    <3>1. verifier.head # head
      BY <2>4, <2>5, <2>6
    <3> QED BY <1>1, <3>1 DEF PointInv
  <2>8. verifier.first <= verifier.head.seq + 1 /\ count <= verifier.first
    BY DEF PointInv
  <2>9. count = verifier.first
    BY <1>1, <2>4, <2>7, <2>8
  <2> QED BY <1>2, <1>3, <2>9
<1> QED BY <1>1, <1>2, <1>3

LEMMA PointNext ==
  ASSUME ForgedIsNoEvent, AppendInv, TamperInv, WalkInv, LinkInv, PointInv,
         VerifyPointsAtChange, [AuditNext]_auditVars
  PROVE  PointInv' /\ VerifyPointsAtChange'
<1>1. head.seq \in Nat /\ verifier \in Verifier
  BY DEF AppendInv, Heads
<1>2. ASSUME NEW w \in Workers, CommitAppend(w)
      PROVE  PointInv' /\ VerifyPointsAtChange'
  <2>1. PICK r : records' = Put(head.seq + 1, r) /\ head.seq + 1 \notin Used
    BY <1>2, Committed
  <2>2. /\ Used' = Used \cup {head.seq + 1}
        /\ \A t \in Used : records'[t] = records[t]
    BY <2>1, PutRecord
  <2>3. head'.seq = head.seq + 1
    <3>1. head' = [seq |-> head.seq + 1, hash |-> ChainHash(head.hash, worker[w].event)]
      BY <1>2, Committed
    <3> QED BY <3>1
  <2>4. /\ \E moved \in BOOLEAN : verifier' = [verifier EXCEPT !.moved = moved]
        /\ UNCHANGED <<result, tampered>>
    BY <1>2 DEF CommitAppend
  <2> QED BY <2>2, <2>3, <2>4, PointStays
<1>3. ASSUME NEW s, Tamper(s),
             \A t \in Used : t # s => t \in Used' /\ records'[t] = records[t]
      PROVE  PointInv' /\ VerifyPointsAtChange'
  BY <1>3, PointStays DEF Tamper
<1>4. ASSUME NEW s \in Positions, Edit(s) \/ DeleteRecord(s)
      PROVE  PointInv' /\ VerifyPointsAtChange'
  <2>1. CASE Edit(s)
    <3>1. PICK r : records' = Put(s, r)
      BY <2>1 DEF Edit
    <3>2. \A t \in Used : t # s => t \in Used' /\ records'[t] = records[t]
      BY <3>1, PutRecord
    <3> QED BY <1>3, <2>1, <3>2 DEF Edit
  <2>2. CASE DeleteRecord(s)
    <3>1. \A t \in Used : t # s => t \in Used' /\ records'[t] = records[t]
      BY <2>2 DEF DeleteRecord, Used
    <3> QED BY <1>3, <2>2, <3>1 DEF DeleteRecord
  <2> QED BY <1>4, <2>1, <2>2
<1>5. CASE Insert
  <2>1. PICK r : records' = Put(head.seq + 1, r)
    BY <1>5 DEF Insert
  <2>2. \A t \in Used : t # head.seq + 1 => t \in Used' /\ records'[t] = records[t]
    BY <2>1, PutRecord
  <2>3. Tamper(head.seq + 1)
    BY <1>5 DEF Insert
  <2> QED BY <1>3, <2>2, <2>3
<1>6. CASE VerifyStart
  <2>1. PICK first \in Nat :
          /\ verifier' = [NotVerifying EXCEPT !.pc = "walk", !.head = head,
                                              !.first = first]
          /\ first # 0 => first \in tampered
    BY <1>6, Started
  <2>2. /\ verifier'.count = 0 /\ verifier'.prev = Genesis
        /\ verifier'.first = first /\ verifier'.head = head
    BY <2>1 DEF NotVerifying
  <2>3. UNCHANGED <<records, head, result, tampered>>
    BY <1>6 DEF VerifyStart
  <2>4. first # 0 => first <= head.seq + 1 /\ 0 <= first
    BY <1>1, <2>1 DEF TamperInv
  <2>5. PointInv'
    BY <1>1, <2>2, <2>3, <2>4 DEF PointInv
  <2> QED BY <2>3, <2>5 DEF VerifyPointsAtChange
<1>7. ASSUME NEW s \in Positions, VerifyRecord(s)
      PROVE  PointInv' /\ VerifyPointsAtChange'
  <2>1. /\ s \in Used /\ s = verifier.count + 1 /\ verifier.pc = "walk" /\ Sound(s)
        /\ verifier' = [verifier EXCEPT !.count = verifier.count + 1,
                                        !.prev = records[s].hash, !.at = s]
        /\ UNCHANGED <<records, head, tampered, result>>
    BY <1>7 DEF VerifyRecord, IsNext, Sound
  <2>2. /\ verifier'.count = s /\ verifier'.prev = records[s].hash
        /\ verifier'.head = verifier.head /\ verifier'.first = verifier.first
    BY <1>1, <2>1 DEF Verifier
  <2>3. verifier.first # 0 => s <= verifier.first
    BY <2>1, WalkBeforeChange
  <2>4. s # 0
    BY <2>1 DEF AppendInv
  <2>5. PointInv'
    BY <2>1, <2>2, <2>3, <2>4 DEF PointInv, Used
  <2> QED BY <2>1, <2>5 DEF VerifyPointsAtChange
<1>8. ASSUME verifier.pc = "walk", NEW valid \in BOOLEAN, NEW at,
             Report(valid, at), UNCHANGED tampered,
             ~valid => at = verifier.count + 1,
             ~valid /\ verifier.first # 0 =>
               \E t \in tampered : verifier.count + 1 \in {t, t + 1}
      PROVE  PointInv' /\ VerifyPointsAtChange'
  <2>1. /\ verifier'.pc = "idle" /\ result'.valid = valid /\ result'.at = at
        /\ result'.first = verifier.first
    BY <1>8 DEF Report, NotVerifying
  <2>2. verifier.first # 0 => verifier.count + 1 <= verifier.first + 1
    BY <1>1, <1>8 DEF PointInv, Verifier
  <2> QED BY <1>8, <2>1, <2>2 DEF PointInv, VerifyPointsAtChange
<1>9. ASSUME NEW s \in Positions, VerifyBroken(s)
      PROVE  PointInv' /\ VerifyPointsAtChange'
  <2>1. /\ verifier.pc = "walk" /\ IsNext(s) /\ ~Sound(s) /\ UNCHANGED tampered
        /\ Report(FALSE, verifier.count + 1)
    BY <1>9 DEF VerifyBroken
  <2> QED BY <1>8, <2>1, BrokenAtChange
<1>10. CASE VerifyEnd
  <2>1. /\ verifier.pc = "walk" /\ \A s \in Used : s <= verifier.at
        /\ UNCHANGED tampered
    BY <1>10 DEF VerifyEnd
  <2>2. CASE verifier.head = [seq |-> verifier.count, hash |-> verifier.prev]
    BY <1>8, <1>10, <2>1, <2>2 DEF VerifyEnd
  <2>3. CASE verifier.head # [seq |-> verifier.count, hash |-> verifier.prev]
    <3>1. Report(FALSE, verifier.count + 1)
      BY <1>10, <2>3 DEF VerifyEnd
    <3> QED BY <1>8, <2>1, <2>3, <3>1, EndAtChange
  <2> QED BY <2>2, <2>3
<1>11. ASSUME NEW w \in Workers,
              FailAppend(w) \/ RefuseAppend(w) \/ \E e \in AuditEvents : BeginAppend(w, e)
       PROVE  PointInv' /\ VerifyPointsAtChange'
  BY <1>11, PointStays DEF FailAppend, RefuseAppend, BeginAppend, Used
<1>12. CASE UNCHANGED auditVars
  BY <1>12, PointStays DEF auditVars, Used
<1> QED BY <1>2, <1>4, <1>5, <1>6, <1>7, <1>9, <1>10, <1>11, <1>12 DEF AuditNext

\* A report of a broken chain that was changed before verify started is never past its
\* first change, and is at a change or right behind one.
THEOREM ReportsPointAtChanges ==
  ASSUME ForgedIsNoEvent PROVE AuditSpec => []VerifyPointsAtChange
<1> DEFINE Inv == DetectInv /\ LinkInv /\ PointInv /\ VerifyPointsAtChange
<1>1. AuditInit => Inv
  BY AppendInit, TamperInit, WalkInit, PointInit DEF DetectInv
<1>2. Inv /\ [AuditNext]_auditVars => Inv'
  BY AppendNext, TamperNext, WalkNext, LinkNext, PointNext DEF DetectInv
<1>3. Inv => VerifyPointsAtChange
  OBVIOUS
<1> QED BY <1>1, <1>2, <1>3, PTL DEF AuditSpec

\* The chain of a tenant is sound whatever appends, verifies and changes interleave
\* (audit.service.ts, chain.ts).
THEOREM ChainsAreSound == ASSUME ForgedIsNoEvent PROVE AuditSpec => []ChainIsSound
BY ChainNeverForks, EventsAreChainedOnce, AppendsAreNotDropped, VerifyFindsChanges,
   ReportsPointAtChanges, QuietChainsAreAccepted, PTL DEF ChainIsSound
=============================================================================
