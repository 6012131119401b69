-------------------------- MODULE BacktestJobs_proofs --------------------------
(***************************************************************************)
(* Proofs about backtest jobs for any number of processes, jobs,           *)
(* strategies and threads, with crashes, failing saves, restarts of any    *)
(* speed and leases of any length.                                         *)
(*                                                                         *)
(* The argument: a copy no other process has overtaken never falls behind  *)
(* the record, and once a record is over, a thread still at work on the    *)
(* job sees in that copy that the job was cancelled, which is what it      *)
(* looks at before each save.                                              *)
(***************************************************************************)
EXTENDS BacktestJobs, TLAPS

\* What the parts of one job say of each other.
Consistent(job) ==
    /\ job.status = "COMPLETED" => job.done = Total /\ job.result
    /\ job.status \in {"COMPLETED", "FAILED", "CANCELLED"} => job.ended
    /\ job.ended => job.status \in {"COMPLETED", "FAILED", "CANCELLED", "TIMEOUT"}

\* A copy in memory and the thread of the process that works on it.
Own(mem, at) ==
    /\ at # "none" => mem # None
    /\ at \in {"submitted", "between", "calculating"} =>
          IF mem.cancel
            THEN mem.status = "CANCELLED" /\ mem.ended
            ELSE mem.status \in Active /\ ~mem.ended
    /\ at = "calculating" => mem.done < Total
    /\ mem # None => Consistent(mem)

\* The copy is not behind the record.
Abreast(rec, mem, at) ==
    mem # None /\ rec # None =>
        /\ mem.done >= rec.done
        /\ rec.ended =>
              /\ mem.ended
              /\ mem.done = rec.done
              /\ mem.status \in {rec.status}
                    \cup (IF rec.status = "TIMEOUT" THEN {"CANCELLED"} ELSE {})
              /\ at # "none" => mem.cancel

\* The record, and the copy and the thread of one process.
Linked(rec, mem, at, behind) ==
    /\ Own(mem, at)
    /\ at # "none" => rec # None
    /\ ~behind => Abreast(rec, mem, at)

CopiesLinked ==
    \A q \in Processes, j \in Jobs :
        Linked(record[j], memory[q][j], run[q][j], j \in overtaken[q])

RecordsConsistent == \A j \in Jobs : record[j] # None => Consistent(record[j])

\* A process that has served nothing yet has nothing in memory.
StartsEmpty ==
    \A q \in Processes :
        process[q] # "recovered" => \A j \in Jobs : memory[q][j] = None /\ run[q][j] = "none"

IInv ==
    /\ TypeOK
    /\ CopiesLinked
    /\ RecordsConsistent
    /\ StartsEmpty

-----------------------------------------------------------------------------

\* The record of a job goes from rec to new the way the properties allow.
Allowed(rec, new) ==
    rec # None => /\ rec.ended => Stands(rec, new)
                  /\ Survives(rec, new)

\* What process q does to job j leaves all other jobs alone, and the other
\* copies of j too, which fall behind if the record changes.
OneCopyMoves(q, j) ==
    /\ record' \in [Jobs -> Job \cup {None}]
    /\ lease' \in [Jobs -> Leases]
    /\ memory' \in [Processes -> [Jobs -> Job \cup {None}]]
    /\ run' \in [Processes -> [Jobs -> RunAt]]
    /\ overtaken' \in [Processes -> SUBSET Jobs]
    /\ struck' \subseteq Jobs
    /\ UNCHANGED <<claimed, process, missed>>
    /\ \A i \in Jobs \ {j} : record'[i] = record[i]
    /\ \A p \in Processes, i \in Jobs :
          p # q \/ i # j => memory'[p][i] = memory[p][i] /\ run'[p][i] = run[p][i]
    /\ \A p \in Processes, i \in Jobs \ {j} : i \in overtaken'[p] <=> i \in overtaken[p]
    /\ \A p \in Processes \ {q} :
          \/ record'[j] = record[j] /\ overtaken'[p] = overtaken[p]
          \/ record'[j] # None /\ (memory[p][j] = None \/ j \in overtaken'[p])

JobGoes(q, j) ==
    /\ OneCopyMoves(q, j)
    /\ Linked(record'[j], memory'[q][j], run'[q][j], j \in overtaken'[q])
    /\ record'[j] # None => Consistent(record'[j])
    /\ Allowed(record[j], record'[j]) \/ SavesOvertaken(j)

LEMMA StaysAllowed ==
    ASSUME NEW rec \in Job \cup {None}
    PROVE  Allowed(rec, rec)
<1>1. CASE rec = None
  BY <1>1 DEF Allowed
<1>2. CASE rec # None
  <2>1. rec \in Job
    BY <1>2
  <2>2. rec.done \in Nat
    BY <2>1, TotalAssumption DEF Job
  <2> QED
    BY <1>2, <2>1, <2>2 DEF Allowed, Stands, Survives
<1> QED
  BY <1>1, <1>2

LEMMA AtIsJob ==
    ASSUME NEW job \in Job, NEW s \in Active \cup {"COMPLETED", "FAILED", "CANCELLED"},
           NEW ended \in BOOLEAN
    PROVE  /\ At(job, s, ended) \in Job
           /\ At(job, s, ended).status = s
           /\ At(job, s, ended).ended = ended
           /\ At(job, s, ended).cancel = job.cancel
           /\ At(job, s, ended).done = job.done
           /\ At(job, s, ended).result = job.result
BY DEF At, Job

\* A save that succeeds and one that fails, each harmless, make one that is.
LEMMA SavesGoes ==
    ASSUME IInv, NEW q \in Processes, NEW j \in Jobs, NEW job \in Job,
           NEW then \in RunAt, NEW otherwise \in RunAt,
           Saves(q, j, job, then, otherwise),
           Own(job, then), Own(job, otherwise), Abreast(job, job, then),
           otherwise # "none" => record[j] # None,
           j \notin overtaken[q] =>
              Abreast(record[j], job, otherwise) /\ Allowed(record[j], job)
    PROVE  JobGoes(q, j)
<1>1. job # None /\ Consistent(job)
  BY NoneAssumption DEF Own
<1>2. /\ memory'[q][j] = job
      /\ memory' \in [Processes -> [Jobs -> Job \cup {None}]]
      /\ \A p \in Processes, i \in Jobs : p # q \/ i # j => memory'[p][i] = memory[p][i]
      /\ UNCHANGED <<claimed, process, missed>>
  BY DEF IInv, TypeOK, Saves
<1>3. CASE /\ record' = [record EXCEPT ![j] = job]
           /\ lease' = [lease EXCEPT ![j] =
                 IF j \in claimed[q] /\ job.status \in Active THEN "running" ELSE "none"]
           /\ run' = [run EXCEPT ![q][j] = then]
           /\ overtaken' = Overtakes(q, j)
           /\ UNCHANGED struck
  <2>1. /\ overtaken' \in [Processes -> SUBSET Jobs]
        /\ j \notin overtaken'[q]
        /\ \A p \in Processes, i \in Jobs \ {j} : i \in overtaken'[p] <=> i \in overtaken[p]
        /\ \A p \in Processes \ {q} : memory[p][j] = None \/ j \in overtaken'[p]
    BY <1>3 DEF IInv, TypeOK, Overtakes
  <2>2. /\ record' \in [Jobs -> Job \cup {None}]
        /\ record'[j] = job
        /\ \A i \in Jobs \ {j} : record'[i] = record[i]
        /\ lease' \in [Jobs -> Leases]
        /\ struck' \subseteq Jobs
    BY <1>3 DEF IInv, TypeOK, Leases
  <2>3. /\ run' \in [Processes -> [Jobs -> RunAt]]
        /\ run'[q][j] = then
        /\ \A p \in Processes, i \in Jobs : p # q \/ i # j => run'[p][i] = run[p][i]
    BY <1>3 DEF IInv, TypeOK
  <2>4. OneCopyMoves(q, j)
    BY <1>1, <1>2, <2>1, <2>2, <2>3 DEF OneCopyMoves
  <2>5. Linked(record'[j], memory'[q][j], run'[q][j], j \in overtaken'[q])
    BY <1>1, <1>2, <2>1, <2>2, <2>3 DEF Linked
  <2>6. Allowed(record[j], record'[j]) \/ SavesOvertaken(j)
    BY <2>1, <2>2 DEF SavesOvertaken
  <2> QED
    BY <1>1, <2>2, <2>4, <2>5, <2>6 DEF JobGoes
<1>4. CASE /\ run' = [run EXCEPT ![q][j] = otherwise]
           /\ struck' = struck \cup {j}
           /\ UNCHANGED <<record, lease, overtaken>>
  <2>1. /\ run' \in [Processes -> [Jobs -> RunAt]]
        /\ run'[q][j] = otherwise
        /\ \A p \in Processes, i \in Jobs : p # q \/ i # j => run'[p][i] = run[p][i]
    BY <1>4 DEF IInv, TypeOK
  <2>2. OneCopyMoves(q, j)
    BY <1>2, <1>4, <2>1 DEF OneCopyMoves, IInv, TypeOK
  <2>3. Linked(record'[j], memory'[q][j], run'[q][j], j \in overtaken'[q])
    BY <1>2, <1>4, <2>1 DEF Linked
  <2>4. Allowed(record[j], record'[j]) /\ (record'[j] # None => Consistent(record'[j]))
    BY <1>4, StaysAllowed DEF IInv, TypeOK, RecordsConsistent
  <2> QED
    BY <2>2, <2>3, <2>4 DEF JobGoes
<1> QED
  BY <1>3, <1>4 DEF Saves

\* Only the thread moves.
LEMMA RunGoesGoes ==
    ASSUME IInv, NEW q \in Processes, NEW j \in Jobs, NEW to \in RunAt,
           run' = [run EXCEPT ![q][j] = to],
           UNCHANGED <<record, lease, memory, claimed, process, overtaken, missed>>,
           struck' \subseteq Jobs,
           Linked(record[j], memory[q][j], to, j \in overtaken[q])
    PROVE  JobGoes(q, j)
<1>1. /\ run' \in [Processes -> [Jobs -> RunAt]]
      /\ run'[q][j] = to
      /\ \A p \in Processes, i \in Jobs : p # q \/ i # j => run'[p][i] = run[p][i]
  BY DEF IInv, TypeOK
<1>2. Allowed(record[j], record[j])
  BY StaysAllowed DEF IInv, TypeOK
<1>3. OneCopyMoves(q, j)
  BY <1>1 DEF OneCopyMoves, IInv, TypeOK
<1>4. record'[j] # None => Consistent(record'[j])
  BY DEF IInv, RecordsConsistent
<1> QED
  BY <1>1, <1>2, <1>3, <1>4 DEF JobGoes

-----------------------------------------------------------------------------
(* One lemma for each step of a job.                                       *)

LEMMA StartGoes ==
    ASSUME IInv, NEW q \in Processes, NEW j \in Jobs, Start(q, j)
    PROVE  JobGoes(q, j)
<1>1. NewJob \in Job
  BY TotalAssumption DEF NewJob, Job, Active
<1>2. /\ NewJob.status = "QUEUED"
      /\ ~NewJob.cancel
      /\ ~NewJob.ended
      /\ NewJob.done = 0
  BY DEF NewJob
<1>3. NewJob # None /\ record[j] = None
  BY <1>1, NoneAssumption DEF Start
<1>4. Consistent(NewJob)
  BY <1>2 DEF Consistent
<1>5. /\ Own(NewJob, "submitted") /\ Own(NewJob, "none")
      /\ Abreast(NewJob, NewJob, "submitted") /\ Abreast(record[j], NewJob, "none")
      /\ Allowed(record[j], NewJob)
  BY <1>2, <1>3, <1>4 DEF Own, Abreast, Allowed, Active
<1> QED
  BY <1>1, <1>5, SavesGoes DEF Start, RunAt

LEMMA CancelGoes ==
    ASSUME IInv, NEW q \in Processes, NEW j \in Jobs, Cancel(q, j)
    PROVE  JobGoes(q, j)
<1> DEFINE job == memory[q][j]
           new == IF job.status \in Active
                    THEN [At(job, "CANCELLED", TRUE) EXCEPT !.cancel = TRUE]
                    ELSE [job EXCEPT !.cancel = TRUE]
<1>1. job \in Job /\ record[j] \in Job /\ run[q][j] \in RunAt /\ Saves(q, j, new, run[q][j], run[q][j])
  BY DEF IInv, TypeOK, Cancel
<1>2. Linked(record[j], job, run[q][j], j \in overtaken[q])
  BY DEF IInv, CopiesLinked
<1>3. record[j] # None /\ job # None
  BY DEF Cancel
<1>4. /\ new \in Job
      /\ new.cancel
      /\ job.status \in Active => new.ended
      /\ job.status \notin Active => new.ended = job.ended
      /\ new.done = job.done
      /\ new.result = job.result
      /\ new.status = IF job.status \in Active THEN "CANCELLED" ELSE job.status
  BY <1>1 DEF At, Job
<1>5. job.done \in Nat /\ record[j].done \in Nat
  BY <1>1, TotalAssumption DEF Job
<1>6. /\ Own(job, run[q][j])
      /\ Consistent(job) /\ Consistent(record[j])
      /\ j \notin overtaken[q] => Abreast(record[j], job, run[q][j])
  BY <1>2, <1>3 DEF Linked, Own, IInv, RecordsConsistent
<1>7. job.status \in Active \cup {"COMPLETED", "FAILED", "CANCELLED"}
  BY <1>1 DEF Job
<1> HIDE DEF new, job
<1>8. new # None
  BY <1>4, NoneAssumption
<1>9. new.ended /\ new.done \in Nat /\ new.done >= new.done
  <2>1. job.status \notin Active => job.ended
    BY <1>6, <1>7 DEF Consistent
  <2> QED
    BY <1>4, <1>5, <2>1
<1>10. Own(new, run[q][j]) /\ Abreast(new, new, run[q][j])
  <2>1. Consistent(new)
    BY <1>4, <1>6, <1>9 DEF Consistent, Active
  <2>2. run[q][j] \in {"submitted", "between", "calculating"} => new.status = "CANCELLED"
    BY <1>3, <1>4, <1>6 DEF Own
  <2>3. run[q][j] = "calculating" => new.done < Total
    BY <1>4, <1>6 DEF Own
  <2> QED
    BY <1>4, <1>8, <1>9, <2>1, <2>2, <2>3 DEF Own, Abreast
<1>11. ASSUME j \notin overtaken[q]
       PROVE  Abreast(record[j], new, run[q][j]) /\ Allowed(record[j], new)
  <2>1. Abreast(record[j], job, run[q][j])
    BY <1>6, <1>11
  <2>2. new.done >= record[j].done
    BY <1>3, <1>4, <2>1 DEF Abreast
  <2>3. record[j].ended =>
          /\ new.done = record[j].done
          /\ new.status \in {record[j].status}
                \cup (IF record[j].status = "TIMEOUT" THEN {"CANCELLED"} ELSE {})
    BY <1>3, <1>4, <1>6, <2>1 DEF Abreast, Active, Consistent
  <2> QED
    BY <1>3, <1>4, <1>8, <1>9, <2>2, <2>3 DEF Abreast, Allowed, Stands, Survives
<1> QED
  BY <1>1, <1>3, <1>4, <1>10, <1>11, SavesGoes

LEMMA LookGoes ==
    ASSUME IInv, NEW q \in Processes, NEW j \in Jobs, Look(q, j)
    PROVE  JobGoes(q, j)
<1>1. Linked(record[j], memory[q][j], run[q][j], j \in overtaken[q])
  BY DEF IInv, CopiesLinked
<1>2. run[q][j] = "none" /\ record[j] # None /\ record[j] \in Job /\ Consistent(record[j])
  BY <1>1 DEF Look, Linked, Own, IInv, TypeOK, RecordsConsistent
<1>3. record[j].done \in Nat
  BY <1>2, TotalAssumption DEF Job
<1>4. /\ memory' \in [Processes -> [Jobs -> Job \cup {None}]]
      /\ memory'[q][j] = record[j]
      /\ \A p \in Processes, i \in Jobs : p # q \/ i # j => memory'[p][i] = memory[p][i]
  BY <1>2 DEF Look, IInv, TypeOK
<1>5. OneCopyMoves(q, j)
  BY <1>4 DEF Look, OneCopyMoves, IInv, TypeOK
<1>6. Linked(record[j], record[j], "none", j \in overtaken[q])
  BY <1>2, <1>3 DEF Linked, Own, Abreast
<1>7. Allowed(record[j], record[j])
  BY <1>2, StaysAllowed
<1> QED
  BY <1>2, <1>4, <1>5, <1>6, <1>7 DEF Look, JobGoes

\* What a thread that is at work on a job finds.
LEMMA ThreadFinds ==
    ASSUME IInv, NEW q \in Processes, NEW j \in Jobs, run[q][j] # "none"
    PROVE  /\ memory[q][j] \in Job /\ memory[q][j] # None
           /\ record[j] \in Job /\ record[j] # None
           /\ memory[q][j].done \in Nat /\ record[j].done \in Nat
           /\ Consistent(memory[q][j]) /\ Consistent(record[j])
           /\ Own(memory[q][j], run[q][j])
           /\ j \notin overtaken[q] =>
                 /\ Abreast(record[j], memory[q][j], run[q][j])
                 /\ memory[q][j].done >= record[j].done
                 /\ ~memory[q][j].cancel => ~record[j].ended
<1>1. Linked(record[j], memory[q][j], run[q][j], j \in overtaken[q])
  BY DEF IInv, CopiesLinked
<1>2. memory[q][j] \in Job /\ memory[q][j] # None /\ record[j] \in Job /\ record[j] # None
  BY <1>1 DEF IInv, TypeOK, Linked, Own
<1>3. memory[q][j].done \in Nat /\ record[j].done \in Nat
  BY <1>2, TotalAssumption DEF Job
<1>4. Consistent(memory[q][j]) /\ Consistent(record[j])
  BY <1>1, <1>2 DEF Linked, Own, IInv, RecordsConsistent
<1> QED
  BY <1>1, <1>2, <1>3, <1>4 DEF Linked, Abreast

\* A thread saves a job that was not cancelled.
LEMMA ThreadSaves ==
    ASSUME IInv, NEW q \in Processes, NEW j \in Jobs, run[q][j] # "none", ~memory[q][j].cancel,
           NEW new \in Job, NEW then \in RunAt \ {"failing"},
           NEW otherwise \in {"none", "failing"},
           Saves(q, j, new, then, otherwise),
           new.done >= memory[q][j].done, ~new.cancel, Consistent(new),
           then # "none" => new.status \in Active /\ ~new.ended,
           then = "calculating" => new.done < Total
    PROVE  JobGoes(q, j)
<1>1. /\ record[j] \in Job /\ record[j] # None
      /\ memory[q][j].done \in Nat /\ record[j].done \in Nat /\ new.done \in Nat
  BY ThreadFinds, TotalAssumption DEF Job
<1>2. new # None /\ new.done >= new.done
  BY <1>1, NoneAssumption
<1>3. Own(new, then) /\ Own(new, otherwise)
  BY <1>2 DEF Own, RunAt
<1>4. Abreast(new, new, then)
  BY <1>2 DEF Abreast
<1>5. ASSUME j \notin overtaken[q]
      PROVE  Abreast(record[j], new, otherwise) /\ Allowed(record[j], new)
  <2>1. memory[q][j].done >= record[j].done /\ ~record[j].ended
    BY <1>5, ThreadFinds
  <2>2. new.done >= record[j].done
    BY <1>1, <2>1
  <2> QED
    BY <1>2, <2>1, <2>2 DEF Abreast, Allowed, Survives
<1> QED
  BY <1>1, <1>3, <1>4, <1>5, SavesGoes DEF RunAt

\* A thread that stops touches nothing.
LEMMA ThreadStops ==
    ASSUME IInv, NEW q \in Processes, NEW j \in Jobs, run[q][j] # "none",
           NEW to \in {"none", "failing"}, RunGoes(q, j, to)
    PROVE  JobGoes(q, j)
<1>1. Linked(record[j], memory[q][j], to, j \in overtaken[q])
  BY ThreadFinds DEF Linked, Own, Abreast
<1> QED
  BY <1>1, RunGoesGoes DEF RunGoes, RunAt, IInv, TypeOK

LEMMA BeginGoes ==
    ASSUME IInv, NEW q \in Processes, NEW j \in Jobs, Begin(q, j)
    PROVE  JobGoes(q, j)
<1>1. run[q][j] = "submitted" /\ memory[q][j] \in Job /\ memory[q][j].done \in Nat
  BY ThreadFinds DEF Begin
<1>2. CASE memory[q][j].cancel
  BY <1>1, <1>2, ThreadStops DEF Begin
<1>3. CASE ~memory[q][j].cancel
  <2> DEFINE new == At(memory[q][j], "RUNNING", FALSE)
  <2>1. /\ new \in Job /\ new.status = "RUNNING" /\ ~new.ended /\ ~new.cancel
        /\ new.done = memory[q][j].done
    BY <1>1, <1>3, AtIsJob DEF Active
  <2>2. Saves(q, j, new, "between", "none")
    BY <1>3 DEF Begin
  <2> HIDE DEF new
  <2>3. Consistent(new) /\ new.done >= memory[q][j].done /\ new.status \in Active
    BY <1>1, <2>1 DEF Consistent, Active
  <2> QED
    BY <1>1, <1>3, <2>1, <2>2, <2>3, ThreadSaves DEF RunAt
<1> QED
  BY <1>2, <1>3

LEMMA NextStrategyGoes ==
    ASSUME IInv, NEW q \in Processes, NEW j \in Jobs, NextStrategy(q, j)
    PROVE  JobGoes(q, j)
<1>1. run[q][j] = "between" /\ memory[q][j] \in Job /\ memory[q][j].done \in Nat /\ memory[q][j].done < Total
  BY ThreadFinds DEF NextStrategy
<1>2. CASE memory[q][j].cancel
  BY <1>1, <1>2, ThreadStops DEF NextStrategy
<1>3. CASE ~memory[q][j].cancel
  <2>1. Consistent(memory[q][j]) /\ memory[q][j].status \in Active /\ ~memory[q][j].ended
    BY <1>1, <1>3, ThreadFinds DEF Own
  <2>2. Saves(q, j, memory[q][j], "calculating", "failing")
    BY <1>3 DEF NextStrategy
  <2>3. memory[q][j].done >= memory[q][j].done
    BY <1>1
  <2> QED
    BY <1>1, <1>3, <2>1, <2>2, <2>3, ThreadSaves DEF RunAt
<1> QED
  BY <1>2, <1>3

LEMMA AppendGoes ==
    ASSUME IInv, NEW q \in Processes, NEW j \in Jobs, Append(q, j)
    PROVE  JobGoes(q, j)
<1>1. /\ run[q][j] = "calculating" /\ memory[q][j] \in Job /\ memory[q][j].done \in Nat
      /\ memory[q][j].done < Total
  BY ThreadFinds DEF Append, Own
<1>2. CASE memory[q][j].cancel \/ memory[q][j].status = "CANCELLED"
  BY <1>1, <1>2, ThreadStops DEF Append
<1>3. CASE ~(memory[q][j].cancel \/ memory[q][j].status = "CANCELLED")
  <2>1. memory[q][j].status \in Active /\ ~memory[q][j].ended
    BY <1>1, <1>3, ThreadFinds DEF Own
  <2>2. PICK s \in {memory[q][j].status, "TIMEOUT"} :
          Saves(q, j, [At(memory[q][j], s, memory[q][j].ended) EXCEPT !.done = @ + 1], "between", "failing")
    BY <1>3 DEF Append
  <2> DEFINE old == At(memory[q][j], s, memory[q][j].ended)
             new == [old EXCEPT !.done = @ + 1]
  <2>3. s \in Active
    BY <2>1 DEF Active
  <2>4. /\ old \in Job /\ old.status = s /\ ~old.ended /\ ~old.cancel
        /\ old.done = memory[q][j].done
    BY <1>1, <1>3, <2>1, <2>3, AtIsJob DEF Job
  <2> HIDE DEF old
  <2>5. /\ new \in Job /\ new.status = s /\ ~new.ended /\ ~new.cancel
        /\ new.done = memory[q][j].done + 1
    BY <1>1, <2>4, TotalAssumption DEF Job
  <2>6. Saves(q, j, new, "between", "failing")
    BY <2>2 DEF old
  <2> HIDE DEF new
  <2>7. Consistent(new) /\ new.done >= memory[q][j].done
    BY <1>1, <2>3, <2>5 DEF Consistent, Active
  <2> QED
    BY <1>1, <1>3, <2>3, <2>5, <2>6, <2>7, ThreadSaves DEF RunAt
<1> QED
  BY <1>2, <1>3

LEMMA HardTimeoutGoes ==
    ASSUME IInv, NEW q \in Processes, NEW j \in Jobs, HardTimeout(q, j)
    PROVE  JobGoes(q, j)
<1>1. run[q][j] = "calculating" /\ memory[q][j] \in Job /\ memory[q][j].done \in Nat
  BY ThreadFinds DEF HardTimeout
<1>2. CASE memory[q][j].cancel
  BY <1>1, <1>2, ThreadStops DEF HardTimeout
<1>3. CASE ~memory[q][j].cancel
  <2> DEFINE new == At(memory[q][j], "TIMEOUT", TRUE)
  <2>1. new \in Job /\ new.status = "TIMEOUT" /\ ~new.cancel /\ new.done = memory[q][j].done
    BY <1>1, <1>3, AtIsJob DEF Active
  <2>2. Saves(q, j, new, "none", "none")
    BY <1>3 DEF HardTimeout
  <2> HIDE DEF new
  <2>3. Consistent(new) /\ new.done >= memory[q][j].done
    BY <1>1, <2>1 DEF Consistent
  <2> QED
    BY <1>1, <1>3, <2>1, <2>2, <2>3, ThreadSaves DEF RunAt
<1> QED
  BY <1>2, <1>3

LEMMA FailGoes ==
    ASSUME IInv, NEW q \in Processes, NEW j \in Jobs, Fail(q, j)
    PROVE  JobGoes(q, j)
<1>1. run[q][j] = "failing" /\ memory[q][j] \in Job /\ memory[q][j].done \in Nat
  BY ThreadFinds DEF Fail
<1>2. CASE memory[q][j].cancel \/ memory[q][j].status = "CANCELLED"
  BY <1>1, <1>2, ThreadStops DEF Fail
<1>3. CASE ~(memory[q][j].cancel \/ memory[q][j].status = "CANCELLED")
  <2> DEFINE new == At(memory[q][j], "FAILED", TRUE)
  <2>1. new \in Job /\ new.status = "FAILED" /\ new.ended /\ ~new.cancel
        /\ new.done = memory[q][j].done
    BY <1>1, <1>3, AtIsJob
  <2>2. Saves(q, j, new, "none", "none")
    BY <1>3 DEF Fail
  <2> HIDE DEF new
  <2>3. Consistent(new) /\ new.done >= memory[q][j].done
    BY <1>1, <2>1 DEF Consistent
  <2> QED
    BY <1>1, <1>3, <2>1, <2>2, <2>3, ThreadSaves DEF RunAt
<1> QED
  BY <1>2, <1>3

LEMMA FinishGoes ==
    ASSUME IInv, NEW q \in Processes, NEW j \in Jobs, Finish(q, j)
    PROVE  JobGoes(q, j)
<1> DEFINE status == IF memory[q][j].cancel THEN "CANCELLED" ELSE "COMPLETED"
           over == At(memory[q][j], status, TRUE)
           new == [over EXCEPT !.result = TRUE]
<1>1. run[q][j] = "between" /\ memory[q][j].done = Total /\ Saves(q, j, new, "none", "failing")
  BY DEF Finish
<1>2. /\ memory[q][j] \in Job /\ memory[q][j].done \in Nat
      /\ record[j] \in Job /\ record[j] # None /\ record[j].done \in Nat
      /\ Own(memory[q][j], "between")
      /\ j \notin overtaken[q] => Abreast(record[j], memory[q][j], "between")
  BY <1>1, ThreadFinds
<1>3. /\ over \in Job /\ over.status = status /\ over.ended
      /\ over.cancel = memory[q][j].cancel /\ over.done = Total
  <2>1. status \in {"COMPLETED", "CANCELLED"}
    OBVIOUS
  <2> HIDE DEF status
  <2>2. /\ over \in Job /\ over.status = status /\ over.ended = TRUE
        /\ over.cancel = memory[q][j].cancel /\ over.done = memory[q][j].done
    BY <1>2, <2>1 DEF At, Job
  <2> QED
    BY <1>1, <2>2
<1> HIDE DEF over
<1>4. /\ new \in Job /\ new.status = status /\ new.ended /\ new.result
      /\ new.cancel = memory[q][j].cancel /\ new.done = Total
  BY <1>3 DEF Job
<1> HIDE DEF new
<1>5. Consistent(new) /\ new # None /\ new.done >= new.done
  BY <1>1, <1>4, NoneAssumption, TotalAssumption DEF Consistent
<1>6. CASE ~memory[q][j].cancel
  <2>1. ~new.cancel /\ new.done >= memory[q][j].done /\ run[q][j] # "none"
    BY <1>1, <1>2, <1>4, <1>5, <1>6
  <2> QED
    BY <1>1, <1>4, <1>5, <1>6, <2>1, ThreadSaves DEF RunAt
<1>7. CASE memory[q][j].cancel
  <2>1. memory[q][j].status = "CANCELLED" /\ new.status = "CANCELLED"
    BY <1>2, <1>4, <1>7 DEF Own
  <2>2. Own(new, "none") /\ Own(new, "failing")
    BY <1>5 DEF Own
  <2>3. Abreast(new, new, "none")
    BY <1>5 DEF Abreast
  <2>4. ASSUME j \notin overtaken[q]
        PROVE  Abreast(record[j], new, "failing") /\ Allowed(record[j], new)
    <3>1. Abreast(record[j], memory[q][j], "between")
      BY <1>2, <2>4
    <3>2. /\ new.done >= record[j].done
          /\ record[j].ended =>
                /\ new.done = record[j].done
                /\ new.status \in {record[j].status}
                      \cup (IF record[j].status = "TIMEOUT" THEN {"CANCELLED"} ELSE {})
      BY <1>1, <1>2, <1>4, <2>1, <3>1, NoneAssumption DEF Abreast
    <3> QED
      BY <1>4, <1>5, <1>7, <3>2 DEF Abreast, Allowed, Stands, Survives
  <2> QED
    BY <1>1, <1>2, <1>4, <2>2, <2>3, <2>4, SavesGoes DEF RunAt
<1> QED
  BY <1>6, <1>7

LEMMA OtherThreadSteps ==
    ASSUME IInv, NEW q \in Processes, NEW j \in Jobs, Raises(q, j) \/ CalculationCancelled(q, j) \/ ThreadDies(q, j)
    PROVE  JobGoes(q, j)
<1>1. CASE Raises(q, j)
  BY <1>1, ThreadStops DEF Raises
<1>2. CASE CalculationCancelled(q, j)
  BY <1>2, ThreadStops DEF CalculationCancelled
<1>3. CASE ThreadDies(q, j)
  <2>1. Linked(record[j], memory[q][j], "none", j \in overtaken[q])
    BY <1>3, ThreadFinds DEF ThreadDies, Linked, Own, Abreast
  <2> QED
    BY <1>3, <2>1, RunGoesGoes DEF ThreadDies, RunAt, IInv, TypeOK
<1> QED
  BY <1>1, <1>2, <1>3

LEMMA ThreadStepGoes ==
    ASSUME IInv, NEW q \in Processes, NEW j \in Jobs, ThreadStep(q, j)
    PROVE  JobGoes(q, j)
BY BeginGoes, NextStrategyGoes, AppendGoes, OtherThreadSteps, HardTimeoutGoes, FinishGoes, FailGoes
   DEF ThreadStep

-----------------------------------------------------------------------------
(* The steps of the processes, and all of them.                            *)

\* What a step may do to every record at once.
AllAllowed ==
    \A j \in Jobs :
        /\ Allowed(record[j], record'[j]) \/ SavesOvertaken(j)
        /\ CompleteWithAll(record'[j])

\* Consistent records are completed with all.
LEMMA ConsistentAllowed ==
    ASSUME RecordsConsistent', \A j \in Jobs : Allowed(record[j], record'[j]) \/ SavesOvertaken(j)
    PROVE  AllAllowed
BY DEF RecordsConsistent, AllAllowed, CompleteWithAll, Consistent

LEMMA JobGoesKeeps ==
    ASSUME IInv, NEW q \in Processes, NEW j \in Jobs, JobGoes(q, j),
           process[q] = "recovered" \/ run[q][j] # "none"
    PROVE  IInv' /\ AllAllowed
<1>1. TypeOK'
  BY DEF IInv, TypeOK, JobGoes, OneCopyMoves
<1>2. RecordsConsistent'
  BY DEF IInv, RecordsConsistent, JobGoes, OneCopyMoves
<1>3. process[q] = "recovered"
  BY DEF IInv, StartsEmpty
<1>4. StartsEmpty'
  BY <1>3 DEF IInv, StartsEmpty, JobGoes, OneCopyMoves
<1>5. ASSUME NEW p \in Processes, NEW i \in Jobs
      PROVE  Linked(record[i], memory[p][i], run[p][i], i \in overtaken[p])'
  <2>1. Linked(record[i], memory[p][i], run[p][i], i \in overtaken[p])
    BY DEF IInv, CopiesLinked
  <2>2. CASE p = q /\ i = j
    BY <2>2 DEF JobGoes
  <2>3. CASE i # j
    BY <2>1, <2>3 DEF JobGoes, OneCopyMoves
  <2>4. CASE p # q /\ i = j
    <3>1. memory'[p][j] = memory[p][j] /\ run'[p][j] = run[p][j]
      BY <2>4 DEF JobGoes, OneCopyMoves
    <3>2. \/ record'[j] = record[j] /\ overtaken'[p] = overtaken[p]
          \/ record'[j] # None /\ (memory[p][j] = None \/ j \in overtaken'[p])
      BY <2>4 DEF JobGoes, OneCopyMoves
    <3> QED
      BY <2>1, <2>4, <3>1, <3>2 DEF Linked, Abreast
  <2> QED
    BY <2>2, <2>3, <2>4
<1>6. CopiesLinked'
  BY <1>5 DEF CopiesLinked
<1>7. \A i \in Jobs : Allowed(record[i], record'[i]) \/ SavesOvertaken(i)
  BY StaysAllowed DEF IInv, TypeOK, JobGoes, OneCopyMoves
<1> QED
  BY <1>1, <1>2, <1>4, <1>6, <1>7, ConsistentAllowed DEF IInv

\* A step that changes no record.
LEMMA RecordsStay ==
    ASSUME IInv, UNCHANGED record, TypeOK', CopiesLinked', StartsEmpty'
    PROVE  IInv' /\ AllAllowed
<1>1. RecordsConsistent'
  BY DEF IInv, RecordsConsistent
<1>2. \A i \in Jobs : Allowed(record[i], record'[i])
  BY StaysAllowed DEF IInv, TypeOK
<1> QED
  BY <1>1, <1>2, ConsistentAllowed DEF IInv

LEMMA CrashKeeps ==
    ASSUME IInv, NEW q \in Processes, Crash(q)
    PROVE  IInv' /\ AllAllowed
<1>1. TypeOK'
  BY DEF IInv, TypeOK, Crash, RunAt
<1>2. ASSUME NEW p \in Processes, NEW i \in Jobs
      PROVE  Linked(record[i], memory[p][i], run[p][i], i \in overtaken[p])'
  <2>1. Linked(record[i], memory[p][i], run[p][i], i \in overtaken[p])
    BY DEF IInv, CopiesLinked
  <2>2. CASE p = q
    <3>1. memory'[p][i] = None /\ run'[p][i] = "none"
      BY <2>2 DEF Crash, IInv, TypeOK
    <3> QED
      BY <3>1 DEF Linked, Own, Abreast
  <2>3. CASE p # q
    BY <2>1, <2>3 DEF Crash, IInv, TypeOK
  <2> QED
    BY <2>2, <2>3
<1>3. StartsEmpty'
  BY DEF Crash, StartsEmpty, IInv, TypeOK
<1> QED
  BY <1>1, <1>2, <1>3, RecordsStay DEF Crash, CopiesLinked

LEMMA RecoverKeeps ==
    ASSUME IInv, NEW q \in Processes, Recover(q)
    PROVE  IInv' /\ AllAllowed
<1>1. PICK rows \in Listings :
        Claims(q, {j \in rows : Claimable(j)},
                  {j \in {i \in rows : Claimable(i)} : Resumes(record[j])})
  BY DEF Recover
<1> DEFINE claims == {j \in rows : Claimable(j)}
           resumed == {j \in claims : Resumes(record[j])}
<1>2. /\ claims \subseteq Jobs /\ resumed \subseteq Jobs
      /\ \A j \in resumed : /\ record[j] # None /\ record[j].status \in Active
                            /\ ~record[j].cancel /\ ~record[j].ended
  BY DEF Listings, ActiveRows, Claimable, Resumes
<1>3. Claims(q, claims, resumed)
  BY <1>1
<1> HIDE DEF claims, resumed
<1>4. TypeOK'
  <2>1. lease' \in [Jobs -> Leases]
    BY <1>3 DEF Claims, IInv, TypeOK, Leases
  <2>2. memory' \in [Processes -> [Jobs -> Job \cup {None}]]
    BY <1>3 DEF Claims, IInv, TypeOK
  <2>3. run' \in [Processes -> [Jobs -> RunAt]]
    BY <1>3 DEF Claims, IInv, TypeOK, RunAt
  <2>4. missed' \subseteq Jobs /\ claimed' \in [Processes -> SUBSET Jobs]
    BY <1>2, <1>3 DEF Claims, IInv, TypeOK, Abandoned, ActiveRows
  <2> QED
    BY <1>3, <2>1, <2>2, <2>3, <2>4 DEF Claims, IInv, TypeOK
<1>5. ASSUME NEW p \in Processes, NEW i \in Jobs
      PROVE  Linked(record[i], memory[p][i], run[p][i], i \in overtaken[p])'
  <2>1. Linked(record[i], memory[p][i], run[p][i], i \in overtaken[p])
    BY DEF IInv, CopiesLinked
  <2>2. CASE p # q \/ i \notin resumed
    <3>1. memory'[p][i] = memory[p][i] /\ run'[p][i] = run[p][i]
      BY <1>3, <2>2 DEF Claims, IInv, TypeOK
    <3> QED
      BY <1>3, <2>1, <3>1 DEF Claims
  <2>3. CASE p = q /\ i \in resumed
    <3>1. memory'[p][i] = record[i] /\ run'[p][i] = "submitted"
      BY <1>3, <2>3 DEF Claims, IInv, TypeOK
    <3>2. /\ record[i] \in Job /\ Consistent(record[i])
          /\ record[i] # None /\ record[i].status \in Active
          /\ ~record[i].cancel /\ ~record[i].ended
      BY <1>2, <2>3 DEF IInv, TypeOK, RecordsConsistent
    <3>3. record[i].done >= record[i].done
      BY <3>2, TotalAssumption DEF Job
    <3>4. Own(record[i], "submitted") /\ Abreast(record[i], record[i], "submitted")
      BY <3>2, <3>3 DEF Own, Abreast
    <3> QED
      BY <1>3, <3>1, <3>2, <3>4 DEF Claims, Linked
  <2> QED
    BY <2>2, <2>3
<1>6. StartsEmpty'
  <2>1. ASSUME NEW p \in Processes, process'[p] # "recovered", NEW i \in Jobs
        PROVE  memory'[p][i] = None /\ run'[p][i] = "none"
    <3>1. p # q
      BY <1>3, <2>1 DEF Claims, IInv, TypeOK
    <3> QED
      BY <1>3, <2>1, <3>1 DEF Claims, IInv, TypeOK, StartsEmpty
  <2> QED
    BY <2>1 DEF StartsEmpty
<1>7. UNCHANGED record
  BY <1>3 DEF Claims
<1> QED
  BY <1>4, <1>5, <1>6, <1>7, RecordsStay DEF CopiesLinked

\* A lease ends, a process is started, or nothing happens.
LEMMA OthersKeep ==
    ASSUME IInv, UNCHANGED <<record, memory, claimed, run, overtaken, missed, struck>>,
           lease' \in [Jobs -> Leases],
           process' \in [Processes -> {"down", "up", "recovered"}],
           \A q \in Processes : process'[q] = "recovered" <=> process[q] = "recovered"
    PROVE  IInv' /\ AllAllowed
<1>1. TypeOK' /\ CopiesLinked' /\ StartsEmpty'
  BY DEF IInv, TypeOK, CopiesLinked, StartsEmpty
<1> QED
  BY <1>1, RecordsStay

LEMMA StepKeeps ==
    ASSUME IInv, [Next]_vars
    PROVE  IInv' /\ AllAllowed
<1>1. ASSUME NEW q \in Processes, NEW j \in Jobs, ThreadStep(q, j) \/ ThreadDies(q, j)
      PROVE  IInv' /\ AllAllowed
  <2>1. JobGoes(q, j)
    BY <1>1, ThreadStepGoes, OtherThreadSteps
  <2>2. run[q][j] # "none"
    BY <1>1 DEF ThreadStep, Begin, NextStrategy, Append, Raises, CalculationCancelled, HardTimeout,
                Finish, Fail, ThreadDies
  <2> QED
    BY <2>1, <2>2, JobGoesKeeps
<1>2. ASSUME NEW q \in Processes, NEW j \in Jobs, Start(q, j) \/ Look(q, j) \/ Cancel(q, j)
      PROVE  IInv' /\ AllAllowed
  <2>1. JobGoes(q, j)
    BY <1>2, StartGoes, LookGoes, CancelGoes
  <2>2. process[q] = "recovered"
    BY <1>2 DEF Start, Look, Cancel
  <2> QED
    BY <2>1, <2>2, JobGoesKeeps
<1>3. ASSUME NEW j \in Jobs, EndLease(j)
      PROVE  IInv' /\ AllAllowed
  <2>1. lease' \in [Jobs -> Leases]
    BY <1>3 DEF EndLease, IInv, TypeOK, Leases
  <2> QED
    BY <1>3, <2>1, OthersKeep DEF EndLease, IInv, TypeOK
<1>4. ASSUME NEW q \in Processes, Restart(q)
      PROVE  IInv' /\ AllAllowed
  <2>1. /\ process' \in [Processes -> {"down", "up", "recovered"}]
        /\ \A p \in Processes : process'[p] = "recovered" <=> process[p] = "recovered"
    BY <1>4 DEF Restart, IInv, TypeOK
  <2> QED
    BY <1>4, <2>1, OthersKeep DEF Restart, IInv, TypeOK
<1>5. CASE UNCHANGED vars
  BY <1>5, OthersKeep DEF vars, IInv, TypeOK
<1> QED
  BY <1>1, <1>2, <1>3, <1>4, <1>5, CrashKeeps, RecoverKeeps DEF Next

LEMMA InitHolds == Init => IInv
BY TotalAssumption
   DEF Init, IInv, TypeOK, CopiesLinked, RecordsConsistent, StartsEmpty, Linked, Own, Abreast,
       RunAt, Leases

\* The invariant holds in every reachable state.
THEOREM InvariantHolds == Spec => []IInv
<1>1. IInv /\ [Next]_vars => IInv'
  BY StepKeeps
<1> QED
  BY InitHolds, <1>1, PTL DEF Spec

\* Every record, copy and thread of a backtest stays of its type.
THEOREM TypeCorrect == Spec => []TypeOK
<1>1. IInv => TypeOK
  BY DEF IInv
<1> QED
  BY InvariantHolds, <1>1, PTL

\* What the record of a backtest says it came to is never taken back, however
\* the threads, requests, recoveries, crashes and failing saves of any number of
\* processes interleave, except by a process that saves a copy another process
\* has overtaken.
THEOREM OutcomesNeverChange == Spec => OutcomesStand
<1>1. IInv /\ [Next]_vars =>
        [\A j \in Jobs : record[j] # None /\ record[j].ended =>
            Stands(record[j], record'[j]) \/ SavesOvertaken(j)]_vars
  BY StepKeeps DEF AllAllowed, Allowed
<1> QED
  BY InvariantHolds, <1>1, PTL DEF Spec, OutcomesStand

\* A strategy that was saved stays saved, with the same exception, and completed
\* means all of them, with none.
THEOREM ResultsNeverVanish == Spec => ResultsSurvive
<1>1. IInv /\ [Next]_vars =>
        [\A j \in Jobs :
            /\ record[j] # None => Survives(record[j], record'[j]) \/ SavesOvertaken(j)
            /\ CompleteWithAll(record'[j])]_vars
  BY StepKeeps DEF AllAllowed, Allowed
<1> QED
  BY InvariantHolds, <1>1, PTL DEF Spec, ResultsSurvive

-----------------------------------------------------------------------------
(* A single process has no exception: nobody overtakes it.                 *)

NeverOvertaken == \A q \in Processes : overtaken[q] = {}

LEMMA AloneNeverOvertaken ==
    ASSUME \A p, q \in Processes : p = q
    PROVE  Spec => []NeverOvertaken
<1>1. Init => NeverOvertaken
  BY DEF Init, NeverOvertaken
<1>2. TypeOK /\ NeverOvertaken /\ [Next]_vars => NeverOvertaken'
  <2> SUFFICES ASSUME TypeOK, NeverOvertaken, [Next]_vars
               PROVE  NeverOvertaken'
    OBVIOUS
  <2>1. \A q \in Processes, j \in Jobs : overtaken' = Overtakes(q, j) => NeverOvertaken'
    BY DEF TypeOK, NeverOvertaken, Overtakes
  <2>2. ASSUME NEW q \in Processes, NEW j \in Jobs,
               ThreadStep(q, j) \/ Start(q, j) \/ Cancel(q, j)
        PROVE  NeverOvertaken'
    <3>1. overtaken' = overtaken \/ overtaken' = Overtakes(q, j)
      BY <2>2 DEF ThreadStep, Begin, NextStrategy, Append, Raises, CalculationCancelled,
                  HardTimeout, Finish, Fail, Start, Cancel, RunGoes, Saves
    <3> QED
      BY <2>1, <3>1 DEF NeverOvertaken
  <2>3. ASSUME NEW q \in Processes, Crash(q)
        PROVE  NeverOvertaken'
    BY <2>3 DEF Crash, TypeOK, NeverOvertaken
  <2>4. ASSUME NEW q \in Processes, NEW j \in Jobs,
               Look(q, j) \/ ThreadDies(q, j)
        PROVE  NeverOvertaken'
    BY <2>4 DEF Look, ThreadDies, NeverOvertaken
  <2>5. CASE UNCHANGED vars
    BY <2>5 DEF vars, NeverOvertaken
  <2>6. ASSUME NEW q \in Processes, Recover(q) \/ Restart(q)
        PROVE  NeverOvertaken'
    BY <2>6 DEF Recover, Claims, Restart, NeverOvertaken
  <2>7. ASSUME NEW j \in Jobs, EndLease(j)
        PROVE  NeverOvertaken'
    BY <2>7 DEF EndLease, NeverOvertaken
  <2> QED
    BY <2>2, <2>3, <2>4, <2>5, <2>6, <2>7 DEF Next
<1> QED
  BY <1>1, <1>2, TypeCorrect, PTL DEF Spec

\* In a deployment of one process no outcome is ever taken back and no result
\* ever forgotten.
THEOREM AloneNothingIsLost ==
    ASSUME \A p, q \in Processes : p = q
    PROVE  Spec => [][\A j \in Jobs : Allowed(record[j], record'[j])]_vars
<1>1. IInv /\ NeverOvertaken /\ [Next]_vars => [\A j \in Jobs : Allowed(record[j], record'[j])]_vars
  BY StepKeeps DEF AllAllowed, SavesOvertaken, NeverOvertaken
<1> QED
  BY InvariantHolds, AloneNeverOvertaken, <1>1, PTL DEF Spec
===============================================================================
