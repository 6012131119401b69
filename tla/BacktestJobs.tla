----------------------------- MODULE BacktestJobs -----------------------------
(***************************************************************************)
(* Background backtests (application/backtest_jobs.py) of the replicas of  *)
(* the API, and their records in the one database (backtest_job_store.py). *)
(*                                                                         *)
(* A thread of a pool runs the strategies of a job one after the other and *)
(* saves the job after each; a request may cancel the job at any moment.   *)
(* Each process keeps the jobs it touched in memory, trusts that copy      *)
(* before the record, and saves the whole copy over the record, whatever   *)
(* another process saved since.  The first request of a process claims     *)
(* unfinished jobs under a lease, once; a job that runs where it was       *)
(* started has no lease and is claimed as well.                            *)
(*                                                                         *)
(* Every block that holds _LOCK is a step, and so is a calculation; a      *)
(* request that must first read the record does so in a step of its own.   *)
(***************************************************************************)
EXTENDS Naturals, FiniteSets

CONSTANTS
    Processes,  \* the API processes: the replicas of the deployment
    Jobs,       \* the jobs that may be started
    Total,      \* strategies of a job, all different
    Workers,    \* threads of a process's pool
    ClaimLimit, \* rows one recovery looks at
    None        \* no copy or no record of a job

ASSUME TotalAssumption == Total \in Nat \ {0}

VARIABLES
    record,     \* the backtest_jobs table
    lease,      \* recovery_lease_until of a record
    memory,     \* _JOBS of each process
    claimed,    \* the copies of which the process is the recovery_owner
    run,        \* where the work of a process's pool on a job stands
    process,    \* "down", "up", or "recovered" once the first request was served
    overtaken,  \* copies of jobs that another process has saved since
    missed,     \* unfinished jobs nobody worked on, passed over by the last recovery
    struck      \* jobs for which a database call has failed

vars == <<record, lease, memory, claimed, run, process, overtaken, missed, struck>>

-----------------------------------------------------------------------------

Active == {"QUEUED", "RUNNING", "TIMEOUT"}

\* cancel_requested, completed_at (ended), completed_strategies (done) and
\* result, beside the status.
Job ==
    [status : Active \cup {"COMPLETED", "FAILED", "CANCELLED"},
     cancel : BOOLEAN, ended : BOOLEAN, done : 0 .. Total, result : BOOLEAN]

\* No lease, one that runs and one that ran out.
Leases == {"none", "running", "over"}

RunAt == {"none", "submitted", "between", "calculating", "failing"}

ASSUME NoneAssumption == None \notin Job

NewJob == [status |-> "QUEUED", cancel |-> FALSE, ended |-> FALSE, done |-> 0, result |-> FALSE]

\* The job at its next status, over or not.
At(job, status, ended) ==
    [status |-> status, cancel |-> job.cancel, ended |-> ended, done |-> job.done,
     result |-> job.result]

Init ==
    /\ record = [j \in Jobs |-> None]
    /\ lease = [j \in Jobs |-> "none"]
    /\ memory = [q \in Processes |-> [j \in Jobs |-> None]]
    /\ claimed = [q \in Processes |-> {}]
    /\ run = [q \in Processes |-> [j \in Jobs |-> "none"]]
    /\ process = [q \in Processes |-> "up"]
    /\ overtaken = [q \in Processes |-> {}]
    /\ missed = {}
    /\ struck = {}

\* The copies that fall behind, and the one that does not, when q saves j.
Overtakes(q, j) ==
    [p \in Processes |->
        CASE p = q -> overtaken[p] \ {j}
          [] p # q /\ memory[p][j] # None -> overtaken[p] \cup {j}
          [] OTHER -> overtaken[p]]

\* _persist_job: memory has changed before the database is asked, and keeps the
\* change when the database fails.  The record takes the lease of the copy, which
\* runs again if the process claimed the job; the lease of a job that is neither
\* queued nor running is not looked at any more.
Saves(q, j, job, then, otherwise) ==
    /\ memory' = [memory EXCEPT ![q][j] = job]
    /\ \/ /\ record' = [record EXCEPT ![j] = job]
          /\ lease' = [lease EXCEPT ![j] =
                          IF j \in claimed[q] /\ job.status \in Active THEN "running" ELSE "none"]
          /\ run' = [run EXCEPT ![q][j] = then]
          /\ overtaken' = Overtakes(q, j)
          /\ UNCHANGED struck
       \/ /\ run' = [run EXCEPT ![q][j] = otherwise]
          /\ struck' = struck \cup {j}
          /\ UNCHANGED <<record, lease, overtaken>>
    /\ UNCHANGED <<claimed, process, missed>>

RunGoes(q, j, to) ==
    /\ run' = [run EXCEPT ![q][j] = to]
    /\ UNCHANGED <<record, lease, memory, claimed, process, overtaken, missed, struck>>

-----------------------------------------------------------------------------
(* Requests.                                                               *)

\* start_backtest_job.  When the record cannot be written nobody learns of the
\* job and it is not submitted.
Start(q, j) ==
    /\ process[q] = "recovered"
    /\ record[j] = None
    /\ j \notin struck
    /\ Saves(q, j, NewJob, "submitted", "none")

\* cancel_backtest_job in a process that has no copy: it reads the record first.
Look(q, j) ==
    /\ process[q] = "recovered"
    /\ record[j] # None
    /\ memory[q][j] = None
    /\ memory' = [memory EXCEPT ![q][j] = record[j]]
    /\ UNCHANGED <<record, lease, claimed, run, process, overtaken, missed, struck>>

\* cancel_backtest_job, on the copy.  A job that is over keeps its status.
Cancel(q, j) ==
    LET job == memory[q][j]
        cancelled == IF job.status \in Active
                       THEN [At(job, "CANCELLED", TRUE) EXCEPT !.cancel = TRUE]
                       ELSE [job EXCEPT !.cancel = TRUE]
    IN /\ process[q] = "recovered"
       /\ record[j] # None
       /\ job # None
       /\ Saves(q, j, cancelled, run[q][j], run[q][j])

-----------------------------------------------------------------------------
(* Recovery.                                                               *)

ActiveRows == {j \in Jobs : record[j] # None /\ record[j].status \in Active}

\* A thread of some process goes on with the job.
Worked(j) == \E p \in Processes : run[p][j] # "none" /\ ~memory[p][j].cancel

\* Which rows the query of claim_recoverable_backtest_jobs returns: as many as
\* there are, or the limit, without rows another process is writing.
Listings ==
    {rows \in SUBSET ActiveRows :
        /\ Cardinality(rows) <= ClaimLimit
        /\ \/ Cardinality(rows) = ClaimLimit
           \/ \A j \in ActiveRows \ rows : Worked(j)}

\* _lease_available.
Claimable(j) == ~record[j].cancel /\ lease[j] # "running"

\* Which jobs _ensure_recovered_jobs submits, once they are claimed.
Resumes(job) == ~job.ended /\ job.done < Total

\* Jobs that only a recovery can bring to an end.
Abandoned == {j \in ActiveRows : ~record[j].cancel /\ Resumes(record[j]) /\ ~Worked(j)}

\* claim_recoverable_backtest_jobs, and what becomes of the claimed jobs.
Claims(q, claims, resumed) ==
    /\ process[q] = "up"
    /\ process' = [process EXCEPT ![q] = "recovered"]
    /\ lease' = [j \in Jobs |-> IF j \in claims THEN "running" ELSE lease[j]]
    /\ memory' = [memory EXCEPT ![q] =
                     [j \in Jobs |-> IF j \in resumed THEN record[j] ELSE memory[q][j]]]
    /\ claimed' = [claimed EXCEPT ![q] = resumed]
    /\ run' = [run EXCEPT ![q] =
                  [j \in Jobs |-> IF j \in resumed THEN "submitted" ELSE run[q][j]]]
    /\ missed' = (missed \ claims) \cup (Abandoned \ claims)
    /\ UNCHANGED <<record, overtaken, struck>>

\* Mutant of Recover: the claimed jobs are not submitted.
RecoverOnlyClaims(q) ==
    \E rows \in Listings : Claims(q, {j \in rows : Claimable(j)}, {})

\* _ensure_recovered_jobs, before the first request of a process.
Recover(q) ==
    \E rows \in Listings :
        LET claims == {j \in rows : Claimable(j)}
        IN Claims(q, claims, {j \in claims : Resumes(record[j])})

-----------------------------------------------------------------------------
(* _run_backtest_job, in a thread of the pool.                             *)

AtWork(q) == {j \in Jobs : run[q][j] \in {"between", "calculating", "failing"}}

\* Mutant of Begin: the strategies are run from the first again.
BeginAfresh(q, j) ==
    /\ run[q][j] = "submitted"
    /\ Cardinality(AtWork(q)) < Workers
    /\ ~memory[q][j].cancel
    /\ Saves(q, j, [NewJob EXCEPT !.status = "RUNNING"], "between", "none")

\* The database fails here before the try block: the thread ends silently.
Begin(q, j) ==
    /\ run[q][j] = "submitted"
    /\ Cardinality(AtWork(q)) < Workers
    /\ IF memory[q][j].cancel
         THEN RunGoes(q, j, "none")
         ELSE Saves(q, j, At(memory[q][j], "RUNNING", FALSE), "between", "none")

NextStrategy(q, j) ==
    /\ run[q][j] = "between"
    /\ memory[q][j].done < Total
    /\ IF memory[q][j].cancel
         THEN RunGoes(q, j, "none")
         ELSE Saves(q, j, memory[q][j], "calculating", "failing")

\* A strategy returned.  A cancelled job takes no more results; a job that is
\* over its expected time says so and goes on.
Append(q, j) ==
    /\ run[q][j] = "calculating"
    /\ IF memory[q][j].cancel \/ memory[q][j].status = "CANCELLED"
         THEN RunGoes(q, j, "none")
         ELSE \E s \in {memory[q][j].status, "TIMEOUT"} :
                 Saves(q, j, [At(memory[q][j], s, memory[q][j].ended) EXCEPT !.done = @ + 1],
                       "between", "failing")

\* A strategy raises; or the database could not be read before the block.
Raises(q, j) ==
    /\ run[q][j] \in {"between", "calculating"}
    /\ RunGoes(q, j, "failing")

\* BacktestCalculationCancelled: the isolated calculation was stopped.
CalculationCancelled(q, j) ==
    /\ run[q][j] = "calculating"
    /\ memory[q][j].cancel \/ memory[q][j].status = "CANCELLED"
    /\ RunGoes(q, j, "none")

\* BacktestHardTimeout: the isolated calculation ran too long.
HardTimeout(q, j) ==
    /\ run[q][j] = "calculating"
    /\ IF memory[q][j].cancel
         THEN RunGoes(q, j, "none")
         ELSE Saves(q, j, At(memory[q][j], "TIMEOUT", TRUE), "none", "none")

\* All strategies are in: the comparison is the result.
Finish(q, j) ==
    LET status == IF memory[q][j].cancel THEN "CANCELLED" ELSE "COMPLETED"
    IN /\ run[q][j] = "between"
       /\ memory[q][j].done = Total
       /\ Saves(q, j, [At(memory[q][j], status, TRUE) EXCEPT !.result = TRUE], "none", "failing")

\* Mutant of Fail: a failure after a cancellation overwrites it.
FailAnyway(q, j) ==
    /\ run[q][j] = "failing"
    /\ Saves(q, j, At(memory[q][j], "FAILED", TRUE), "none", "none")

\* The last except block.  When its own save fails the thread ends silently.
Fail(q, j) ==
    /\ run[q][j] = "failing"
    /\ IF memory[q][j].cancel \/ memory[q][j].status = "CANCELLED"
         THEN RunGoes(q, j, "none")
         ELSE Saves(q, j, At(memory[q][j], "FAILED", TRUE), "none", "none")

\* The read that begins the first block, or the last one, fails.
ThreadDies(q, j) ==
    /\ run[q][j] \in {"submitted", "failing"}
    /\ run' = [run EXCEPT ![q][j] = "none"]
    /\ struck' = struck \cup {j}
    /\ UNCHANGED <<record, lease, memory, claimed, process, overtaken, missed>>

-----------------------------------------------------------------------------

\* A process dies with its memory, its threads and their calculations; the leases
\* of the jobs it claimed run on.
Crash(q) ==
    /\ process[q] # "down"
    /\ process' = [process EXCEPT ![q] = "down"]
    /\ memory' = [memory EXCEPT ![q] = [j \in Jobs |-> None]]
    /\ claimed' = [claimed EXCEPT ![q] = {}]
    /\ run' = [run EXCEPT ![q] = [j \in Jobs |-> "none"]]
    /\ overtaken' = [overtaken EXCEPT ![q] = {}]
    /\ UNCHANGED <<record, lease, missed, struck>>

\* Five minutes pass without a save of the process that claimed the job: it died,
\* or it is at a long calculation.
EndLease(j) ==
    /\ lease[j] = "running"
    /\ lease' = [lease EXCEPT ![j] = "over"]
    /\ UNCHANGED <<record, memory, claimed, run, process, overtaken, missed, struck>>

\* The process is started again, long before any lease ends or after.
Restart(q) ==
    /\ process[q] = "down"
    /\ process' = [process EXCEPT ![q] = "up"]
    /\ UNCHANGED <<record, lease, memory, claimed, run, overtaken, missed, struck>>

ThreadStep(q, j) ==
    \/ Begin(q, j) \/ NextStrategy(q, j) \/ Append(q, j) \/ Raises(q, j)
    \/ CalculationCancelled(q, j) \/ HardTimeout(q, j) \/ Finish(q, j) \/ Fail(q, j)

Next ==
    \/ \E q \in Processes :
          \/ \E j \in Jobs :
                ThreadStep(q, j) \/ Start(q, j) \/ Look(q, j) \/ Cancel(q, j) \/ ThreadDies(q, j)
          \/ Recover(q) \/ Crash(q) \/ Restart(q)
    \/ \E j \in Jobs : EndLease(j)

Spec == Init /\ [][Next]_vars

\* The pools run what they were given and calculations end; systemd starts a
\* process again, some page asks it something, and one day it stays up.  Leases
\* owe nothing.
FairSpec ==
    /\ Spec
    /\ \A q \in Processes :
          /\ \A j \in Jobs : WF_vars(ThreadStep(q, j)) /\ SF_vars(Begin(q, j))
          /\ WF_vars(Restart(q)) /\ WF_vars(Recover(q))
          /\ <>[](process[q] # "down")

-----------------------------------------------------------------------------
(* Correctness.                                                            *)

TypeOK ==
    /\ record \in [Jobs -> Job \cup {None}]
    /\ lease \in [Jobs -> Leases]
    /\ memory \in [Processes -> [Jobs -> Job \cup {None}]]
    /\ claimed \in [Processes -> SUBSET Jobs]
    /\ run \in [Processes -> [Jobs -> RunAt]]
    /\ process \in [Processes -> {"down", "up", "recovered"}]
    /\ overtaken \in [Processes -> SUBSET Jobs]
    /\ missed \subseteq Jobs
    /\ struck \subseteq Jobs

\* A process saves a copy that another process has overtaken.
SavesOvertaken(j) == \E q \in Processes : j \in overtaken[q] \ overtaken'[q]

\* What a job came to stands: once its record says it was completed, failed,
\* cancelled or stopped at the hard deadline, no thread that was still
\* running, no late failure and no recovery in any process takes that back or
\* adds results; only a job stopped at the deadline may still be cancelled.
\* The one exception is a process that saves its copy over what another
\* process saved since.
Stands(old, new) ==
    /\ new # None
    /\ new.ended
    /\ new.status \in {old.status} \cup (IF old.status = "TIMEOUT" THEN {"CANCELLED"} ELSE {})
    /\ new.done = old.done

OutcomesStand ==
    [][\A j \in Jobs :
          record[j] # None /\ record[j].ended =>
             Stands(record[j], record'[j]) \/ SavesOvertaken(j)]_vars

\* Results survive: across crashes, recoveries in any process and failed saves
\* the record never forgets a strategy that was finished, again unless a
\* process saves its copy over what another process saved since; and a job is
\* completed only with all of them, without exception.
Survives(old, new) == new # None /\ new.done >= old.done

CompleteWithAll(new) ==
    new # None /\ new.status = "COMPLETED" => new.done = Total /\ new.result

ResultsSurvive ==
    [][\A j \in Jobs :
          /\ record[j] # None => Survives(record[j], record'[j]) \/ SavesOvertaken(j)
          /\ CompleteWithAll(record'[j])]_vars

\* Every job that was accepted comes to an end, crashes and overwritten saves
\* notwithstanding, unless the database failed it, its last strategy was saved
\* before a crash and its end was not, or a recovery passed it over while
\* nobody worked on it.
EveryJobEnds ==
    \A j \in Jobs :
        record[j] # None ~>
            record[j] # None /\ (record[j].ended \/ record[j].done = Total
                                  \/ j \in struck \cup missed)
===============================================================================
