---------------------------- MODULE PackSamples ----------------------------
(***************************************************************************)
(* The sample records of one pack (packs.service.ts).  Adding creates them *)
(* one by one in records-service, by source key, and then notes in one     *)
(* transaction that they are there; when a create fails, everything with   *)
(* the pack's prefix is removed again.  Removing takes the records first   *)
(* and the note second.  Two administrators may do either at once.  A call *)
(* is given up after ten seconds; records-service goes on with it.         *)
(***************************************************************************)
EXTENDS Naturals, FiniteSets

CONSTANTS
    Hands,         \* requests in flight at one time
    NumSamples,    \* sample records of the pack
    MaxGoingOn     \* bound: creates that go on at one time after they were given up

VARIABLES
    present,       \* samples whose record is live in records-service
    noted,         \* pack_samples: the samples are added
    hands,         \* what each request does and has created
    deleted,       \* samples a user deleted: gone, but their source key is still taken
    creating,      \* samples whose create goes on although its caller gave up
    taking,        \* records that a removal goes on to take although its caller gave up
    stray,         \* history: samples created by a call that had been given up
    tangled,       \* history: two requests overlapped, or a removal stopped part way
    halted         \* history: an addition stopped part way

lateVars == <<creating, taking, stray>>
sampleVars == <<present, noted, hands, deleted, lateVars, tangled, halted>>

Samples == 1..NumSamples
NoHand == [op |-> "none", done |-> 0]

SamplesInit ==
    /\ present = {} /\ deleted = {}
    /\ creating = {} /\ taking = {} /\ stray = {}
    /\ noted = FALSE /\ tangled = FALSE /\ halted = FALSE
    /\ hands = [h \in Hands |-> NoHand]

Start(h, op) ==
    /\ hands[h] = NoHand
    /\ hands' = [hands EXCEPT ![h].op = op]
    /\ tangled' = (tangled \/ \E other \in Hands : hands[other] # NoHand)
    /\ UNCHANGED <<present, noted, deleted, lateVars, halted>>
Ends(h) == hands' = [hands EXCEPT ![h] = NoHand]

-----------------------------------------------------------------------------
\* The pack is published, and its samples are not there yet.
AddSamples(h) == ~noted /\ Start(h, "add")

\* The next record: created, or found by its source key, deleted or not; or the call
\* fails, whether or not it was created, or is given up before, and the cleanup begins.
CreateSample(h) ==
    LET n == hands[h].done + 1
        created == present \cup ({n} \ deleted)
    IN
    /\ hands[h].op = "add"
    /\ n \in Samples
    /\ \/ /\ present' = created
          /\ hands' = [hands EXCEPT ![h].done = n]
          /\ UNCHANGED creating
       \/ /\ \/ present' \in {present, created} /\ UNCHANGED creating
             \/ /\ Cardinality(creating) < MaxGoingOn
                /\ creating' = creating \cup {n}
                /\ UNCHANGED present
          /\ hands' = [hands EXCEPT ![h].op = "cleanup"]
    /\ UNCHANGED <<noted, deleted, taking, stray, tangled, halted>>

\* A create that was given up commits, unless the source key is taken by now.
CreateLate(n) ==
    /\ n \in creating
    /\ creating' = creating \ {n}
    /\ LET new == {n} \ (present \cup deleted)
       IN present' = present \cup new /\ stray' = stray \cup new
    /\ UNCHANGED <<noted, hands, deleted, taking, tangled, halted>>

\* The unique index lets one of two requests note it; the other one fails, and its error
\* is past the cleanup.
NoteSamples(h) ==
    /\ hands[h].op = "add" /\ hands[h].done = NumSamples
    /\ noted' = TRUE
    /\ Ends(h)
    /\ UNCHANGED <<present, deleted, lateVars, tangled, halted>>

PurgeBefore(h, next) ==
    /\ hands[h].op \in {"cleanup", "remove"}
    /\ \/ /\ present' = {} /\ stray' = {} /\ taking' = taking \ present
          /\ IF hands[h].op = next
             THEN hands' = [hands EXCEPT ![h].op = "unnote"] ELSE Ends(h)
          /\ UNCHANGED tangled
       \/ /\ present' \in SUBSET present /\ UNCHANGED stray
          /\ taking' \in {taking \ (present \ present'), taking \cup present'}
          /\ tangled' = TRUE
          /\ Ends(h)
    /\ UNCHANGED <<noted, deleted, creating, halted>>

\* Mutant: the note goes after a cleanup, not after a removal.
PurgeKeepingNote(h) == PurgeBefore(h, "cleanup")

\* Removing by prefix takes the live records one by one; it may fail part way, or be given
\* up and go on, or the process stops meanwhile; the cleanup only logs it.  A removal then
\* takes the note.
PurgeSamples(h) == PurgeBefore(h, "remove")

\* A removal that was given up takes a record that it had found, and frees its source key
\* also when a user deleted it meanwhile.
TakeLate(n) ==
    /\ n \in taking
    /\ taking' = taking \ {n}
    /\ present' = present \ {n} /\ deleted' = deleted \ {n}
    /\ UNCHANGED <<noted, hands, creating, stray, tangled, halted>>

RemoveSamples(h) == Start(h, "remove")

Unnote(h) ==
    /\ hands[h].op = "unnote"
    /\ noted' = FALSE
    /\ Ends(h)
    /\ UNCHANGED <<present, deleted, lateVars, tangled, halted>>

\* The process stops: created records stay, unnoted, and a create may go on.
HandCrash(h) ==
    /\ hands[h] # NoHand
    /\ Ends(h)
    /\ tangled' = (tangled \/ hands[h].op = "unnote")
    /\ halted' = TRUE
    /\ creating' \in {creating, creating \cup
          {n \in Samples : /\ hands[h].op = "add" /\ n = hands[h].done + 1
                           /\ Cardinality(creating) < MaxGoingOn}}
    /\ UNCHANGED <<present, noted, deleted, taking, stray>>

\* A user deletes a sample record like any other.
UserDeletes(n) ==
    /\ n \in present
    /\ present' = present \ {n}
    /\ deleted' = deleted \cup {n}
    /\ UNCHANGED <<noted, hands, lateVars, tangled, halted>>

SamplesNext ==
    \/ \E h \in Hands :
        \/ AddSamples(h) \/ CreateSample(h) \/ NoteSamples(h) \/ PurgeSamples(h)
        \/ RemoveSamples(h) \/ Unnote(h) \/ HandCrash(h)
    \/ \E n \in Samples : UserDeletes(n) \/ CreateLate(n) \/ TakeLate(n)

SamplesSpec == SamplesInit /\ [][SamplesNext]_sampleVars

-----------------------------------------------------------------------------
SamplesTypeOK ==
    /\ present \subseteq Samples \ deleted
    /\ {noted, tangled, halted} \subseteq BOOLEAN
    /\ \A h \in Hands : hands[h].done \in 0..NumSamples

\* "All or nothing": when requests do not overlap and no removal stops part way, noted
\* samples are all there, but for those a user deleted, also after additions that failed
\* or crashed before; and without a note and a crash none is left but those whose create
\* was given up and went on, past the cleanup (packs.service.ts:236, service-client.ts:81).
SamplesAllOrNothing ==
    ~tangled =>
        /\ noted /\ (\A h \in Hands : hands[h].op \in {"none", "add"}) =>
               present \cup deleted = Samples
        /\ ~noted /\ ~halted /\ (\A h \in Hands : hands[h] = NoHand) => present \subseteq stray
=============================================================================
