------------------------------ MODULE Exports ------------------------------
(***************************************************************************)
(* The export queue of reporting-service (exports.service.ts): workers in  *)
(* several replicas take a waiting export, or one whose lease is over, and *)
(* run it.  The result is written under the identifier alone, so a worker  *)
(* that outlived its lease writes over what the next one has done.  The    *)
(* announcement is a transaction of its own after the result.              *)
(***************************************************************************)
EXTENDS Naturals, FiniteSets

CONSTANTS
    Exporters,     \* workers of all replicas
    ExportIds,
    MAX_ATTEMPTS,  \* 3 in the code
    MaxTaken       \* bound: times an export is taken

VARIABLES
    exports,       \* export jobs: status, lease, attempts
    exporters,     \* what each worker runs
    announced,     \* history: ReportExported events per export
    outlived       \* history: exports with a worker that outlived its lease, or that
                   \* ended in the failure of the announcement

exportVars == <<exports, exporters, announced, outlived>>

NoExport == [job |-> {}, attempt |-> 0, pc |-> "idle"]
Ended == {"done", "failed"}

ExportsInit ==
    /\ exports = [j \in ExportIds |-> [status |-> "none", lease |-> "none", attempts |-> 0]]
    /\ exporters = [w \in Exporters |-> NoExport]
    /\ announced = [j \in ExportIds |-> 0]
    /\ outlived = {}

At(w, j) == exporters[w].job = {j}
WorkersAt(j) == {w \in Exporters : At(w, j)}
Leave(w) == exporters' = [exporters EXCEPT ![w] = NoExport]

RequestExport(j) ==
    /\ exports[j].status = "none"
    /\ exports' = [exports EXCEPT ![j].status = "queued"]
    /\ UNCHANGED <<exporters, announced, outlived>>

TakeIf(w, j, free(_)) ==
    /\ exporters[w] = NoExport
    /\ free(exports[j])
    /\ exports[j].attempts < MaxTaken
    /\ exports' = [exports EXCEPT ![j] =
                     [status |-> "running", lease |-> "held", attempts |-> @.attempts + 1]]
    /\ exporters' = [exporters EXCEPT ![w] =
                     [job |-> {j}, attempt |-> exports[j].attempts + 1, pc |-> "run"]]
    /\ UNCHANGED <<announced, outlived>>

\* Mutant: a running export is taken whatever its lease.
TakeRunning(w, j) ==
    TakeIf(w, j, LAMBDA e : \/ e.status = "queued" /\ e.lease # "held"
                            \/ e.status = "running")

\* runNext: one findOneAndUpdate takes a waiting export or one whose lease is over.
Take(w, j) ==
    TakeIf(w, j, LAMBDA e : \/ e.status = "queued" /\ e.lease # "held"
                            \/ e.status = "running" /\ e.lease = "over")

\* The file is built and stored; the result is written.
FinishExport(w, j) ==
    /\ At(w, j) /\ exporters[w].pc = "run"
    /\ exports' = [exports EXCEPT ![j].status = "done", ![j].lease = "none"]
    /\ exporters' = [exporters EXCEPT ![w].pc = "announce"]
    /\ UNCHANGED <<announced, outlived>>

AnnounceExport(w, j) ==
    /\ At(w, j) /\ exporters[w].pc = "announce"
    /\ announced' = [announced EXCEPT ![j] = @ + 1]
    /\ Leave(w)
    /\ UNCHANGED <<exports, outlived>>

FailTo(w, j, retried) ==
    /\ At(w, j)
    /\ outlived' = IF exporters[w].pc = "announce" THEN outlived \cup {j} ELSE outlived
    /\ \/ exports' = [exports EXCEPT ![j].status = "failed", ![j].lease = "none"]
       \/ /\ exporters[w].attempt < MAX_ATTEMPTS
          /\ exports' = [exports EXCEPT ![j].status = retried, ![j].lease =
                           IF retried = "queued" THEN "held" ELSE "none"]
    /\ Leave(w)
    /\ UNCHANGED announced

\* Mutant: the export stays marked running, without a lease.
FailRunning(w, j) == FailTo(w, j, "running")

\* The catch: the export fails for good when it was the last attempt or the error is
\* final, and waits a minute otherwise.  It also catches a failed announcement.
Fail(w, j) == FailTo(w, j, "queued")

\* A lease, or the minute of a retry, is over; whoever still runs it runs late.
LeaseEnds(j) ==
    /\ exports[j].lease = "held"
    /\ exports' = [exports EXCEPT ![j].lease = "over"]
    /\ outlived' = IF WorkersAt(j) = {} THEN outlived ELSE outlived \cup {j}
    /\ UNCHANGED <<exporters, announced>>

ExporterCrash(w) ==
    /\ exporters[w] # NoExport
    /\ Leave(w)
    /\ UNCHANGED <<exports, announced, outlived>>

ExportsNext ==
    \/ \E j \in ExportIds :
        \/ RequestExport(j) \/ LeaseEnds(j)
        \/ \E w \in Exporters : Take(w, j) \/ FinishExport(w, j) \/ AnnounceExport(w, j) \/ Fail(w, j)
    \/ \E w \in Exporters : ExporterCrash(w)

ExportsSpec == ExportsInit /\ [][ExportsNext]_exportVars

-----------------------------------------------------------------------------
ExportsTypeOK ==
    /\ exports \in [ExportIds -> [status : {"none", "queued", "running"} \cup Ended,
                                  lease : {"none", "held", "over"}, attempts : 0..MaxTaken]]
    /\ \A w \in Exporters : exporters[w].pc \in {"idle", "run", "announce"}

\* An export that no worker outlived is run by one worker at a time, not taken again
\* once it ended, and announced once.
ExportedOnce ==
    \A j \in ExportIds \ outlived :
        /\ Cardinality(WorkersAt(j)) <= 1
        /\ announced[j] <= 1
        /\ exports[j].status \in Ended => \A w \in WorkersAt(j) : exporters[w].pc = "announce"

\* No export is forgotten: one that has not ended is waiting, or it has a lease after
\* which another worker takes it, whatever workers crash, fail or come late.
NoExportForgotten ==
    \A j \in ExportIds : exports[j].status = "running" => exports[j].lease # "none"
=============================================================================
