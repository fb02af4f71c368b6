---------------------------- MODULE ConfigReads ----------------------------
(***************************************************************************)
(* How services read the published configuration: the ConfigClient of      *)
(* service-kit (config-client.ts) over config-service's currentVersion(),  *)
(* latest() and effective() (config.service.ts).  A client asks for the    *)
(* version number each time, shares a request already in flight, and uses  *)
(* what it keeps only when it is of that version.  A replica of            *)
(* config-service answers from what it remembers for a second, and forgets *)
(* that when it publishes itself.                                          *)
(***************************************************************************)
EXTENDS Naturals, FiniteSets

CONSTANTS
    Readers,          \* calls of effective() in progress in one service process
    ConfigReplicas,   \* instances of config-service
    MaxLive           \* bound: published versions

VARIABLES
    live,          \* the newest version in the database
    told,          \* the newest version whose publish has answered
    remembered,    \* per replica: what latest() keeps, and whether another replica has
                   \* published since
    publishing,    \* per replica: the version it has committed and not yet answered, or 0
    kept,          \* the client's cache for one tenant and orgPath: no or one version
    question,      \* the version request in flight: "none", "sent", or answered with
                   \* the version read
    readers        \* each call

readVars == <<live, told, remembered, publishing, kept, question, readers>>

NoReader == [pc |-> "idle", since |-> 0, version |-> 0, excused |-> FALSE]
NoMemory == [version |-> {}, foreign |-> FALSE]
NoQuestion == [state |-> "none", version |-> 0]

ReadsInit ==
    /\ live = 0 /\ told = 0
    /\ remembered = [q \in ConfigReplicas |-> NoMemory]
    /\ publishing = [q \in ConfigReplicas |-> 0]
    /\ kept = {}
    /\ question = NoQuestion
    /\ readers = [r \in Readers |-> NoReader]

\* saveVersion(): the transaction commits when nobody published the number before.
CommitVersion(q) ==
    /\ live < MaxLive /\ publishing[q] = 0
    /\ remembered[q].version \in {{}, {live}}
    /\ live' = live + 1
    /\ publishing' = [publishing EXCEPT ![q] = live + 1]
    /\ remembered' = [p \in ConfigReplicas |->
                        IF p = q \/ remembered[p] = NoMemory THEN remembered[p]
                        ELSE [remembered[p] EXCEPT !.foreign = TRUE]]
    /\ UNCHANGED <<told, kept, question, readers>>

Publishes(q, memory) ==
    /\ publishing[q] # 0
    /\ publishing' = [publishing EXCEPT ![q] = 0]
    /\ remembered' = [remembered EXCEPT ![q] = memory]
    /\ told' = IF publishing[q] > told THEN publishing[q] ELSE told
    /\ UNCHANGED <<live, kept, question, readers>>

\* Mutant: the replica that published goes on with what it remembers.
ForgetNothing(q) == Publishes(q, remembered[q])

\* Its last line: the replica forgets what it remembers, and answers.
ForgetLatest(q) == Publishes(q, NoMemory)

\* The second is over.
MemoryExpires(q) ==
    /\ remembered[q] # NoMemory
    /\ remembered' = [remembered EXCEPT ![q] = NoMemory]
    /\ UNCHANGED <<live, told, publishing, kept, question, readers>>

\* effective(): the call joins the version request in flight, or sends one.
CallEffective(r) ==
    /\ readers[r].pc = "idle"
    /\ readers' = [readers EXCEPT ![r] =
                     [pc |-> "version", since |-> told, version |-> 0,
                      excused |-> question.state = "read"]]
    /\ question' = IF question = NoQuestion THEN [question EXCEPT !.state = "sent"]
                   ELSE question
    /\ UNCHANGED <<live, told, remembered, publishing, kept>>

\* currentVersion(): read in the database, with no cache.
ReadVersion ==
    /\ question.state = "sent"
    /\ question' = [state |-> "read", version |-> live]
    /\ UNCHANGED <<live, told, remembered, publishing, kept, readers>>

Waiting == {r \in Readers : readers[r].pc = "version"}

\* Mutant: what the client keeps is used whatever its version.
UsesAnyKept(version) == kept # {}

UsesKept(version) == kept = {version}

\* The answer: every call that shares it goes on, with what is kept or to a fetch.
VersionAnswered ==
    /\ question.state = "read"
    /\ question' = NoQuestion
    /\ readers' = [r \in Readers |->
                     IF r \notin Waiting THEN readers[r]
                     ELSE IF UsesKept(question.version)
                     THEN [readers[r] EXCEPT !.pc = "done", !.version = CHOOSE v \in kept : TRUE]
                     ELSE [readers[r] EXCEPT !.pc = "fetch"]]
    /\ UNCHANGED <<live, told, remembered, publishing, kept>>

\* The version request failed: the calls that share it fail.
VersionFailed ==
    /\ question # NoQuestion
    /\ question' = NoQuestion
    /\ readers' = [r \in Readers |-> IF r \in Waiting THEN NoReader ELSE readers[r]]
    /\ UNCHANGED <<live, told, remembered, publishing, kept>>

NewestKnown(q) == IF remembered[q] = NoMemory THEN {live} ELSE remembered[q].version

\* A replica answers with the configuration and the version of its latest().
FetchEffective(r, q) ==
    /\ readers[r].pc = "fetch"
    /\ remembered' = [remembered EXCEPT ![q].version = NewestKnown(q)]
    /\ readers' = [readers EXCEPT ![r].pc = "answered",
                                  ![r].version = CHOOSE v \in NewestKnown(q) : TRUE,
                                  ![r].excused = @ \/ remembered[q].foreign]
    /\ UNCHANGED <<live, told, publishing, kept, question>>

KeepIn(r, cache) ==
    /\ readers[r].pc = "answered"
    /\ kept' = cache
    /\ readers' = [readers EXCEPT ![r].pc = "done"]
    /\ UNCHANGED <<live, told, remembered, publishing, question>>

\* Mutant: the answer is kept beside the older one.
KeepBeside(r) == KeepIn(r, kept \cup {readers[r].version})

\* The answer arrives and replaces what is kept, in whatever order the answers arrive.
KeepAnswer(r) == KeepIn(r, {readers[r].version})

Return(r) ==
    /\ readers[r].pc = "done"
    /\ readers' = [readers EXCEPT ![r] = NoReader]
    /\ UNCHANGED <<live, told, remembered, publishing, kept, question>>

\* invalidate(): a ConfigPublished or ConfigRolledBack event reaches the service.
Invalidate ==
    /\ kept # {}
    /\ kept' = {}
    /\ UNCHANGED <<live, told, remembered, publishing, question, readers>>

ReadsNext ==
    \/ \E q \in ConfigReplicas : CommitVersion(q) \/ ForgetLatest(q) \/ MemoryExpires(q)
    \/ \E r \in Readers :
        \/ CallEffective(r) \/ KeepAnswer(r) \/ Return(r)
        \/ \E q \in ConfigReplicas : FetchEffective(r, q)
    \/ ReadVersion \/ VersionAnswered \/ VersionFailed \/ Invalidate

ReadsSpec == ReadsInit /\ [][ReadsNext]_readVars

-----------------------------------------------------------------------------
ReadsTypeOK ==
    /\ live \in 0..MaxLive /\ told \in 0..live
    /\ \A q \in ConfigReplicas : Cardinality(remembered[q].version) <= 1
    /\ publishing \in [ConfigReplicas -> 0..live]
    /\ Cardinality(kept) <= 1 /\ kept \subseteq 0..live
    /\ question.state \in {"none", "sent", "read"}
    /\ \A r \in Readers : readers[r].pc \in {"idle", "version", "fetch", "answered", "done"}

\* "A change is therefore visible immediately after it is published": a call gets no
\* version older than the one whose publish had answered when the call began.  Two
\* ways around it are left out: a shared version request that was read before the call,
\* and a replica that remembers what another replica has published over.
ReadsAreCurrent ==
    \A r \in Readers :
        readers[r].pc = "done" /\ ~readers[r].excused => readers[r].version >= readers[r].since
=============================================================================
