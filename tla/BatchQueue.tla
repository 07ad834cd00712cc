----------------------------- MODULE BatchQueue -----------------------------
(***************************************************************************)
(* server/batch-queue.ts: bulk jobs that run inside the process, a few at  *)
(* a time.  A job writes its records chunk by chunk, each chunk in one     *)
(* transaction, and reports its progress in a batch_jobs row.  Which jobs  *)
(* run and which wait for a slot is only in memory.                        *)
(*                                                                         *)
(* A chunk is the number of its records that pass validation and of those  *)
(* that do not.  A statement that fails may have been applied: then its    *)
(* answer was lost.                                                        *)
(***************************************************************************)
EXTENDS Naturals, Sequences, FiniteSets

CONSTANTS
    Jobs,      \* jobs handed to an enqueue function
    Slots,     \* MAX_CONCURRENT_JOBS
    MaxChunks, \* chunks of the longest job (1,000 records in chunks of 250)
    ChunkSize  \* CHUNK_SIZE

ASSUME BatchNumbers ==
    /\ Slots \in Nat \ {0}
    /\ MaxChunks \in Nat \ {0}
    /\ ChunkSize \in Nat \ {0}

ASSUME BatchJobs == IsFiniteSet(Jobs)

VARIABLES
    kind,       \* account_create, or one of the updates
    load,       \* the chunks of each job
    active,     \* activeJobs
    waiting,    \* pendingQueue
    pc,         \* where each job is
    chunk,      \* the chunk it is at
    progress,   \* its JobProgress
    row,        \* its batch_jobs row
    committed   \* records in its chunks that were committed

inputs == <<kind, load>>
slots == <<active, waiting>>
vars == <<inputs, slots, pc, chunk, progress, row, committed>>

Chunks == {c \in [good : 0..ChunkSize, bad : 0..ChunkSize] :
             c.good + c.bad \in 1..ChunkSize}
Loads == UNION {[1..n -> Chunks] : n \in 1..MaxChunks}

Counts(processed, success, errors) ==
    [processed |-> processed, success |-> success, errors |-> errors]
Zero == Counts(0, 0, 0)
Add(p, q) == Counts(p.processed + q.processed, p.success + q.success, p.errors + q.errors)

Job(status, counts) == [status |-> status, counts |-> counts]
NoRow == Job("none", Zero)

Init ==
    /\ kind \in [Jobs -> {"create", "update"}]
    /\ load \in [Jobs -> Loads]
    /\ active = 0
    /\ waiting = <<>>
    /\ pc = [j \in Jobs |-> "request"]
    /\ chunk = [j \in Jobs |-> 1]
    /\ progress = [j \in Jobs |-> Zero]
    /\ row = [j \in Jobs |-> NoRow]
    /\ committed = [j \in Jobs |-> 0]

Goto(j, place) == pc' = [pc EXCEPT ![j] = place]
Write(j, new) == row' = [row EXCEPT ![j] = new]
MayWrite(j, new) == row' \in {row, [row EXCEPT ![j] = new]}
Count(j, new) == progress' = [progress EXCEPT ![j] = Add(@, new)]

-----------------------------------------------------------------------------
(* enqueueBatch...: the row first, then a slot or a place in the queue.    *)

Enqueue(j) ==
    /\ pc[j] = "request"
    /\ Write(j, Job("queued", Zero))
    /\ Goto(j, "accepted")
    /\ UNCHANGED <<inputs, slots, chunk, progress, committed>>

EnqueueFails(j) ==
    /\ pc[j] = "request"
    /\ MayWrite(j, Job("queued", Zero))
    /\ Goto(j, "refused")
    /\ UNCHANGED <<inputs, slots, chunk, progress, committed>>

OneSlotMore == active <= Slots

SlotFree == active < Slots

WaitForSlot(j) ==
    /\ pc[j] = "accepted"
    /\ \/ /\ SlotFree
          /\ active' = active + 1
          /\ Goto(j, "mark")
          /\ UNCHANGED waiting
       \/ /\ ~SlotFree
          /\ waiting' = Append(waiting, j)
          /\ Goto(j, "waiting")
          /\ UNCHANGED active
    /\ UNCHANGED <<inputs, chunk, progress, row, committed>>

(* The record of a job's progress goes with the job.                       *)
Forget(js) ==
    /\ chunk' = [j \in Jobs |-> IF j \in js THEN 1 ELSE chunk[j]]
    /\ progress' = [j \in Jobs |-> IF j \in js THEN Zero ELSE progress[j]]

ReleasesWithoutWaking(j) ==
    /\ pc[j] = "release"
    /\ active' = active - 1
    /\ Goto(j, "done")
    /\ Forget({j})
    /\ UNCHANGED <<inputs, waiting, row, committed>>

(* The slot goes straight to the job that has waited longest.              *)
ReleaseSlot(j) ==
    /\ pc[j] = "release"
    /\ \/ /\ waiting = <<>>
          /\ active' = active - 1
          /\ Goto(j, "done")
          /\ UNCHANGED waiting
       \/ /\ waiting # <<>>
          /\ pc' = [pc EXCEPT ![j] = "done", ![Head(waiting)] = "mark"]
          /\ waiting' = Tail(waiting)
          /\ UNCHANGED active
    /\ Forget({j})
    /\ UNCHANGED <<inputs, row, committed>>

-----------------------------------------------------------------------------
(* The body of a job                                                       *)

Here(j) == load[j][chunk[j]]

MarkProcessing(j) ==
    /\ pc[j] = "mark"
    /\ Write(j, Job("processing", row[j].counts))
    /\ Goto(j, "validate")
    /\ UNCHANGED <<inputs, slots, chunk, progress, committed>>

(* A chunk without a valid record is passed over, and its errors are not   *)
(* saved before the next save.                                             *)
Validate(j) ==
    /\ pc[j] = "validate"
    /\ chunk[j] <= Len(load[j])
    /\ Count(j, Counts(Here(j).bad, 0, Here(j).bad))
    /\ \/ /\ Here(j).good = 0
          /\ chunk' = [chunk EXCEPT ![j] = @ + 1]
          /\ UNCHANGED pc
       \/ /\ Here(j).good > 0
          /\ Goto(j, "write")
          /\ UNCHANGED chunk
    /\ UNCHANGED <<inputs, slots, row, committed>>

(* rowCount || validUpdates.length: an update that matched nothing counts  *)
(* as if it had matched all; an insert counts the rows it skipped too.     *)
Success(j, matched) ==
    IF kind[j] = "create" \/ matched = 0 THEN Here(j).good ELSE matched

CommitChunk(j) ==
    /\ pc[j] = "write"
    /\ \E matched \in 0..Here(j).good :
          Count(j, Counts(Here(j).good, Success(j, matched), 0))
    /\ committed' = [committed EXCEPT ![j] = @ + Here(j).good]
    /\ Goto(j, "save")
    /\ UNCHANGED <<inputs, slots, chunk, row>>

MayCommit(j) == committed' \in {committed, [committed EXCEPT ![j] = @ + Here(j).good]}

CountsAnyway(j) == Counts(Here(j).good, Here(j).good, 0)

CountFailed(j) == Counts(Here(j).good, 0, Here(j).good)

(* The chunk is rolled back, or so the job believes.                       *)
RollbackChunk(j) ==
    /\ pc[j] = "write"
    /\ Count(j, CountFailed(j))
    /\ MayCommit(j)
    /\ Goto(j, "save")
    /\ UNCHANGED <<inputs, slots, chunk, row>>

(* There is no connection, or the ROLLBACK fails too: the job gives up.    *)
ThrowChunk(j) ==
    /\ pc[j] = "write"
    /\ MayCommit(j)
    /\ Goto(j, "fail")
    /\ UNCHANGED <<inputs, slots, chunk, progress, row>>

Saved(j) == Job(row[j].status, progress[j])

SaveProgress(j) ==
    /\ pc[j] = "save"
    /\ Write(j, Saved(j))
    /\ chunk' = [chunk EXCEPT ![j] = @ + 1]
    /\ Goto(j, "validate")
    /\ UNCHANGED <<inputs, slots, progress, committed>>

FinalStatus(j) ==
    IF progress[j].errors > 0 /\ progress[j].success = 0 THEN "failed" ELSE "completed"

StatusOnly(j) == Job(FinalStatus(j), row[j].counts)

(* A create saves its counts once more; an update does not.                *)
FinalRow(j) ==
    Job(FinalStatus(j), IF kind[j] = "create" THEN progress[j] ELSE row[j].counts)

Finish(j) ==
    /\ pc[j] = "validate"
    /\ chunk[j] > Len(load[j])
    /\ Write(j, FinalRow(j))
    /\ Goto(j, "release")
    /\ UNCHANGED <<inputs, slots, chunk, progress, committed>>

(* An UPDATE of batch_jobs fails: the outer catch is next.                 *)
StatementFails(j) ==
    /\ \/ pc[j] = "mark" /\ MayWrite(j, Job("processing", row[j].counts))
       \/ pc[j] = "save" /\ MayWrite(j, Saved(j))
       \/ /\ pc[j] = "validate"
          /\ chunk[j] > Len(load[j])
          /\ MayWrite(j, FinalRow(j))
    /\ Goto(j, "fail")
    /\ UNCHANGED <<inputs, slots, chunk, progress, committed>>

FailsWithoutCounts(j) ==
    /\ pc[j] = "fail"
    /\ MayWrite(j, Job("failed", Zero))
    /\ Goto(j, "release")
    /\ UNCHANGED <<inputs, slots, chunk, progress, committed>>

(* That UPDATE may fail as well: finally still releases the slot.          *)
FailJob(j) ==
    /\ pc[j] = "fail"
    /\ MayWrite(j, Job("failed", row[j].counts))
    /\ Goto(j, "release")
    /\ UNCHANGED <<inputs, slots, chunk, progress, committed>>

-----------------------------------------------------------------------------
Ended == {"request", "refused", "done", "gone"}
Live == {j \in Jobs : pc[j] \notin Ended}

(* The process dies, and the queue with it; the rows stay as they are.     *)
Crash ==
    /\ Live # {}
    /\ pc' = [j \in Jobs |-> IF j \in Live THEN "gone" ELSE pc[j]]
    /\ active' = 0
    /\ waiting' = <<>>
    /\ Forget(Jobs)
    /\ UNCHANGED <<inputs, row, committed>>

Run(j) ==
    \/ WaitForSlot(j) \/ MarkProcessing(j) \/ Validate(j)
    \/ CommitChunk(j) \/ RollbackChunk(j) \/ ThrowChunk(j)
    \/ SaveProgress(j) \/ Finish(j) \/ StatementFails(j) \/ FailJob(j)
    \/ ReleaseSlot(j)

Next ==
    \/ \E j \in Jobs : Enqueue(j) \/ EnqueueFails(j) \/ Run(j)
    \/ Crash

Spec == Init /\ [][Next]_vars

(* The event loop resumes every job whose statement was answered, and the  *)
(* pool and statement_timeout answer every statement.                      *)
FairSpec == Spec /\ \A j \in Jobs : WF_vars(Run(j))
-----------------------------------------------------------------------------
MaxRecords == MaxChunks * ChunkSize
CountsType == [processed : 0..MaxRecords, success : 0..MaxRecords, errors : 0..MaxRecords]
Total(j) ==
    LET sum[i \in 0..Len(load[j])] ==
            IF i = 0 THEN 0 ELSE sum[i - 1] + load[j][i].good + load[j][i].bad
    IN  sum[Len(load[j])]

(* Counts of one job: no record of it is counted twice.                    *)
Within(n, j) ==
    /\ n.success + n.errors <= n.processed
    /\ n.processed <= Total(j)

Running == {"mark", "validate", "write", "save", "fail", "release"}

(* The active count stays within the slots, and neither the counters of a  *)
(* job nor its row exceed the job's own records.                           *)
TypeOK ==
    /\ kind \in [Jobs -> {"create", "update"}]
    /\ load \in [Jobs -> Loads]
    /\ active \in 0..Slots
    /\ waiting \in Seq(Jobs)
    /\ pc \in [Jobs -> Ended \cup Running \cup {"accepted", "waiting"}]
    /\ chunk \in [Jobs -> 1..MaxChunks + 1]
    /\ progress \in [Jobs -> CountsType]
    /\ row \in [Jobs -> [status : {"none", "queued", "processing", "completed", "failed"},
                         counts : CountsType]]
    /\ committed \in [Jobs -> 0..MaxRecords]
    /\ \A j \in Jobs : Within(progress[j], j) /\ Within(row[j].counts, j)

(* activeJobs counts the jobs that run, never more than there are slots,   *)
(* and none waits while a slot is free; a slot that is handed over is not  *)
(* lost, whichever way its job ended.                                      *)
SlotsAreAccounted ==
    /\ active = Cardinality({j \in Jobs : pc[j] \in Running})
    /\ active <= Slots
    /\ waiting # <<>> => active = Slots
    /\ {waiting[i] : i \in DOMAIN waiting} = {j \in Jobs : pc[j] = "waiting"}
    /\ Len(waiting) = Cardinality({j \in Jobs : pc[j] = "waiting"})

(* A job reports no success for records whose chunk was not committed,     *)
(* and calls itself completed only when some chunk was.                    *)
ClaimsAreCommitted ==
    \A j \in Jobs :
        /\ row[j].counts.success <= committed[j]
        /\ row[j].status = "completed" => committed[j] > 0

(* A completed create accounts for each of its records as a success or as  *)
(* an error, also for those of chunks it passed over without a save.       *)
CompletedCreatesAddUp ==
    \A j \in Jobs :
        kind[j] = "create" /\ row[j].status = "completed" =>
            /\ row[j].counts.processed = Total(j)
            /\ row[j].counts.success + row[j].counts.errors = Total(j)

(* What a client polls only moves forward: no count is taken back, and a   *)
(* job that has ended does not run again.                                  *)
ReportsOnlyGrow ==
    [][\A j \in Jobs :
          /\ row[j].counts.processed <= row'[j].counts.processed
          /\ row[j].counts.success <= row'[j].counts.success
          /\ row[j].counts.errors <= row'[j].counts.errors
          /\ row[j].status \in {"completed", "failed"} =>
                row'[j].status \in {"completed", "failed"}]_vars

(* Every accepted job gets its slot and ends, however the jobs before it   *)
(* ended, unless the process dies.                                         *)
AcceptedJobsEnd == \A j \in Jobs : pc[j] = "accepted" ~> pc[j] \in {"done", "gone"}
=============================================================================
