-------------------------- MODULE BatchQueueProofs --------------------------
(***************************************************************************)
(* Why no slot of the batch queue is lost or given twice, for any number   *)
(* of jobs and slots and whatever fails: a slot changes hands only where a *)
(* job enters or leaves the places in which it runs, and every way out of  *)
(* them leads through releaseSlot or the death of the process.  And why    *)
(* the counts a job reports are those of what it committed, however its    *)
(* statements fail: its row only ever lags behind.                         *)
(***************************************************************************)
EXTENDS BatchQueue, FiniteSetTheorems, TLAPS

RunningIn(f) == {j \in Jobs : f[j] \in Running}
WaitingIn(f) == {j \in Jobs : f[j] = "waiting"}

JobPlaces == Ended \cup Running \cup {"accepted", "waiting"}

(* The queue lists every waiting job once.                                 *)
Queued(q, f) ==
    /\ q \in Seq(Jobs)
    /\ \A i, k \in 1..Len(q) : q[i] = q[k] => i = k
    /\ \A i \in 1..Len(q) : f[q[i]] = "waiting"
    /\ \A j \in WaitingIn(f) : \E i \in 1..Len(q) : q[i] = j
    /\ Len(q) = Cardinality(WaitingIn(f))

(* A slot is taken for every job that runs, and all are when one waits.    *)
Taken(n, q, f) ==
    /\ n = Cardinality(RunningIn(f))
    /\ n \in Nat
    /\ n <= Slots
    /\ q # <<>> => n = Slots

IInv ==
    /\ pc \in [Jobs -> JobPlaces]
    /\ Queued(waiting, pc)
    /\ Taken(active, waiting, pc)

-----------------------------------------------------------------------------
LEMMA FiniteJobs ==
    ASSUME NEW f
    PROVE  /\ IsFiniteSet(RunningIn(f))
           /\ IsFiniteSet(WaitingIn(f))
           /\ Cardinality(RunningIn(f)) \in Nat
           /\ Cardinality(WaitingIn(f)) \in Nat
<1>1. RunningIn(f) \in SUBSET Jobs /\ WaitingIn(f) \in SUBSET Jobs
  BY DEF RunningIn, WaitingIn
<1>2. IsFiniteSet(RunningIn(f)) /\ IsFiniteSet(WaitingIn(f))
  BY <1>1, BatchJobs, FS_Subset
<1>. QED
  BY <1>2, FS_CardinalityType

(* A job that enters or leaves the running places changes their number by  *)
(* one.                                                                    *)
LEMMA OneMore ==
    ASSUME NEW f \in [Jobs -> JobPlaces], NEW g, NEW j \in Jobs,
           j \notin RunningIn(f), RunningIn(g) = RunningIn(f) \cup {j}
    PROVE  Cardinality(RunningIn(g)) = Cardinality(RunningIn(f)) + 1
  BY FiniteJobs, FS_AddElement

LEMMA OneLess ==
    ASSUME NEW f \in [Jobs -> JobPlaces], NEW g, NEW j \in Jobs,
           j \in RunningIn(f), RunningIn(g) = RunningIn(f) \ {j}
    PROVE  Cardinality(RunningIn(g)) = Cardinality(RunningIn(f)) - 1
  BY FiniteJobs, FS_RemoveElement

(* Running jobs that stay running, and steps outside the slots, change     *)
(* nothing that IInv speaks of.                                            *)
LEMMA SlotsUntouched ==
    ASSUME IInv, NEW j \in Jobs, NEW place \in JobPlaces,
           pc' = [pc EXCEPT ![j] = place],
           UNCHANGED slots,
           pc[j] \in Running <=> place \in Running,
           pc[j] # "waiting", place # "waiting"
    PROVE  IInv'
<1>1. pc' \in [Jobs -> JobPlaces]
  BY DEF IInv
<1>2. RunningIn(pc') = RunningIn(pc) /\ WaitingIn(pc') = WaitingIn(pc)
  BY DEF IInv, RunningIn, WaitingIn
<1>3. Queued(waiting', pc')
  <2>1. waiting' = waiting /\ Queued(waiting, pc)
    BY DEF IInv, slots
  <2>2. \A i \in 1..Len(waiting) : waiting[i] \in Jobs
    BY <2>1 DEF Queued
  <2>3. \A i \in 1..Len(waiting) : waiting[i] # j
    BY <2>1 DEF Queued
  <2>4. \A i \in 1..Len(waiting) : pc'[waiting[i]] = pc[waiting[i]]
    BY <2>2, <2>3 DEF IInv
  <2>. QED
    BY <1>2, <2>1, <2>4 DEF Queued
<1>4. Taken(active', waiting', pc')
  BY <1>2 DEF IInv, Taken, slots
<1>. QED
  BY <1>1, <1>3, <1>4 DEF IInv

-----------------------------------------------------------------------------
LEMMA InitIsAccounted ==
    Init => IInv
<1>. SUFFICES ASSUME Init PROVE IInv
  OBVIOUS
<1>1. pc = [j \in Jobs |-> "request"] /\ active = 0 /\ waiting = <<>>
  BY DEF Init
<1>2. pc \in [Jobs -> JobPlaces]
  BY <1>1 DEF JobPlaces, Ended
<1>3. RunningIn(pc) = {} /\ WaitingIn(pc) = {}
  BY <1>1 DEF RunningIn, WaitingIn, Running
<1>4. Cardinality(RunningIn(pc)) = 0 /\ Cardinality(WaitingIn(pc)) = 0
  BY <1>3, FS_EmptySet
<1>5. Queued(waiting, pc)
  BY <1>1, <1>3, <1>4 DEF Queued
<1>6. Taken(active, waiting, pc)
  BY <1>1, <1>4, BatchNumbers DEF Taken
<1>. QED
  BY <1>2, <1>5, <1>6 DEF IInv

LEMMA WaitKeeps ==
    ASSUME IInv, NEW j \in Jobs, WaitForSlot(j)
    PROVE  IInv'
<1>1. pc[j] = "accepted" /\ pc \in [Jobs -> JobPlaces]
  BY DEF WaitForSlot, IInv
<1>2. CASE SlotFree /\ active' = active + 1 /\ Goto(j, "mark") /\ UNCHANGED waiting
  <2>1. pc' = [pc EXCEPT ![j] = "mark"] /\ pc' \in [Jobs -> JobPlaces]
    BY <1>1, <1>2 DEF Goto, JobPlaces, Running
  <2>2. waiting = <<>> /\ waiting' = <<>>
    BY <1>2, BatchNumbers DEF IInv, Taken, SlotFree
  <2>3. WaitingIn(pc') = WaitingIn(pc)
    BY <1>1, <2>1 DEF WaitingIn
  <2>4. Queued(waiting', pc')
    BY <2>2, <2>3 DEF IInv, Queued
  <2>5. j \notin RunningIn(pc) /\ RunningIn(pc') = RunningIn(pc) \cup {j}
    BY <1>1, <2>1 DEF RunningIn, Running
  <2>6. Cardinality(RunningIn(pc')) = Cardinality(RunningIn(pc)) + 1
    BY <1>1, <2>5, OneMore
  <2>7. Taken(active', waiting', pc')
    BY <1>2, <2>2, <2>6, BatchNumbers DEF IInv, Taken, SlotFree
  <2>. QED
    BY <2>1, <2>4, <2>7 DEF IInv
<1>3. CASE ~SlotFree /\ waiting' = Append(waiting, j) /\ Goto(j, "waiting")
           /\ UNCHANGED active
  <2>1. pc' = [pc EXCEPT ![j] = "waiting"] /\ pc' \in [Jobs -> JobPlaces]
    BY <1>1, <1>3 DEF Goto, JobPlaces
  <2>2. waiting \in Seq(Jobs) /\ waiting' = Append(waiting, j)
    BY <1>3 DEF IInv, Queued
  <2>3. /\ waiting' \in Seq(Jobs)
        /\ Len(waiting') = Len(waiting) + 1
        /\ Len(waiting) \in Nat
        /\ waiting'[Len(waiting) + 1] = j
        /\ \A i \in 1..Len(waiting) : waiting'[i] = waiting[i] /\ waiting[i] \in Jobs
    BY <2>2
  <2>4. \A i \in 1..Len(waiting) : waiting[i] # j
    BY <1>1 DEF IInv, Queued
  <2>5. \A i, k \in 1..Len(waiting') : waiting'[i] = waiting'[k] => i = k
    BY <2>3, <2>4 DEF IInv, Queued
  <2>6. \A i \in 1..Len(waiting') : pc'[waiting'[i]] = "waiting"
    <3>. TAKE i \in 1..Len(waiting')
    <3>1. CASE i = Len(waiting) + 1
      BY <1>1, <2>1, <2>3, <3>1
    <3>2. CASE i \in 1..Len(waiting)
      <4>1. waiting'[i] = waiting[i] /\ waiting[i] \in Jobs /\ waiting[i] # j
        BY <2>3, <2>4, <3>2
      <4>2. pc[waiting[i]] = "waiting"
        BY <3>2 DEF IInv, Queued
      <4>. QED
        BY <1>1, <2>1, <4>1, <4>2
    <3>. QED
      BY <2>3, <3>1, <3>2
  <2>7. WaitingIn(pc') = WaitingIn(pc) \cup {j} /\ j \notin WaitingIn(pc)
    BY <1>1, <2>1 DEF WaitingIn
  <2>8. \A m \in WaitingIn(pc') : \E i \in 1..Len(waiting') : waiting'[i] = m
    <3>. TAKE m \in WaitingIn(pc')
    <3>1. CASE m = j
      BY <2>3, <3>1
    <3>2. CASE m \in WaitingIn(pc)
      <4>1. PICK i \in 1..Len(waiting) : waiting[i] = m
        BY <3>2 DEF IInv, Queued
      <4>. QED
        BY <2>3, <4>1
    <3>. QED
      BY <2>7, <3>1, <3>2
  <2>9. Cardinality(WaitingIn(pc')) = Cardinality(WaitingIn(pc)) + 1
    BY <2>7, FiniteJobs, FS_AddElement
  <2>10. Queued(waiting', pc')
    BY <2>3, <2>5, <2>6, <2>8, <2>9 DEF IInv, Queued
  <2>11. RunningIn(pc') = RunningIn(pc)
    BY <1>1, <2>1 DEF RunningIn, Running
  <2>12. Taken(active', waiting', pc')
    BY <1>3, <2>11, BatchNumbers DEF IInv, Taken, SlotFree
  <2>. QED
    BY <2>1, <2>10, <2>12 DEF IInv
<1>. QED
  BY <1>2, <1>3 DEF WaitForSlot

LEMMA ReleaseKeeps ==
    ASSUME IInv, NEW j \in Jobs, ReleaseSlot(j)
    PROVE  IInv'
<1>1. pc[j] = "release" /\ pc \in [Jobs -> JobPlaces]
  BY DEF ReleaseSlot, IInv
<1>2. j \in RunningIn(pc)
  BY <1>1 DEF RunningIn, Running
<1>3. CASE waiting = <<>> /\ active' = active - 1 /\ Goto(j, "done") /\ UNCHANGED waiting
  <2>1. pc' = [pc EXCEPT ![j] = "done"] /\ pc' \in [Jobs -> JobPlaces]
    BY <1>1, <1>3 DEF Goto, JobPlaces, Ended
  <2>2. WaitingIn(pc') = WaitingIn(pc)
    BY <1>1, <2>1 DEF WaitingIn
  <2>3. Queued(waiting', pc')
    BY <1>3, <2>2 DEF IInv, Queued
  <2>4. RunningIn(pc') = RunningIn(pc) \ {j}
    BY <1>1, <2>1 DEF RunningIn, Running
  <2>5. /\ Cardinality(RunningIn(pc')) = Cardinality(RunningIn(pc)) - 1
        /\ Cardinality(RunningIn(pc')) \in Nat
    BY <1>1, <1>2, <2>4, OneLess, FiniteJobs
  <2>6. Taken(active', waiting', pc')
    BY <1>3, <2>5, BatchNumbers DEF IInv, Taken
  <2>. QED
    BY <2>1, <2>3, <2>6 DEF IInv
<1>4. CASE /\ waiting # <<>>
           /\ pc' = [pc EXCEPT ![j] = "done", ![Head(waiting)] = "mark"]
           /\ waiting' = Tail(waiting)
           /\ UNCHANGED active
  <2>. DEFINE h == waiting[1]
  <2>1. /\ waiting \in Seq(Jobs) /\ Len(waiting) \in Nat /\ Len(waiting) >= 1
        /\ h \in Jobs /\ Head(waiting) = h
    BY <1>4 DEF IInv, Queued
  <2>2. pc[h] = "waiting" /\ h # j
    BY <1>1, <2>1 DEF IInv, Queued
  <2>. HIDE DEF h
  <2>3. pc' = [pc EXCEPT ![j] = "done", ![h] = "mark"]
    BY <1>4, <2>1
  <2>4. /\ pc' \in [Jobs -> JobPlaces]
        /\ pc'[h] = "mark" /\ pc'[j] = "done"
        /\ \A m \in Jobs \ {h, j} : pc'[m] = pc[m]
    BY <1>1, <2>1, <2>2, <2>3 DEF JobPlaces, Ended, Running
  <2>5. WaitingIn(pc') = WaitingIn(pc) \ {h} /\ h \in WaitingIn(pc)
    BY <1>1, <2>1, <2>2, <2>4 DEF WaitingIn
  <2>6. /\ waiting' \in Seq(Jobs)
        /\ Len(waiting') = Len(waiting) - 1
        /\ \A i \in 1..Len(waiting') : waiting'[i] = waiting[i + 1]
    BY <1>4, <2>1
  <2>7. \A i \in 1..Len(waiting) : waiting[i] \in Jobs /\ waiting[i] # j
    BY <1>1, <2>1 DEF IInv, Queued
  <2>8. \A i \in 2..Len(waiting) : waiting[i] # h
    BY <2>1 DEF IInv, Queued, h
  <2>9. \A i, k \in 1..Len(waiting') : waiting'[i] = waiting'[k] => i = k
    <3>. SUFFICES ASSUME NEW i \in 1..Len(waiting'), NEW k \in 1..Len(waiting'),
                         waiting'[i] = waiting'[k]
                  PROVE  i = k
      OBVIOUS
    <3>1. i + 1 \in 1..Len(waiting) /\ k + 1 \in 1..Len(waiting)
      BY <2>1, <2>6
    <3>2. waiting[i + 1] = waiting[k + 1]
      BY <2>6
    <3>3. i + 1 = k + 1
      BY <3>1, <3>2 DEF IInv, Queued
    <3>. QED
      BY <2>1, <2>6, <3>3
  <2>10. \A i \in 1..Len(waiting') : pc'[waiting'[i]] = "waiting"
    <3>. TAKE i \in 1..Len(waiting')
    <3>1. i + 1 \in 2..Len(waiting) /\ i + 1 \in 1..Len(waiting)
      BY <2>1, <2>6
    <3>2. /\ waiting'[i] = waiting[i + 1]
          /\ waiting[i + 1] \in Jobs \ {h, j}
          /\ pc[waiting[i + 1]] = "waiting"
      BY <2>6, <2>7, <2>8, <3>1 DEF IInv, Queued
    <3>. QED
      BY <2>4, <3>2
  <2>11. \A m \in WaitingIn(pc') : \E i \in 1..Len(waiting') : waiting'[i] = m
    <3>. TAKE m \in WaitingIn(pc')
    <3>1. PICK i \in 1..Len(waiting) : waiting[i] = m
      BY <2>5 DEF IInv, Queued
    <3>2. i # 1
      BY <2>5, <3>1 DEF h
    <3>3. i - 1 \in 1..Len(waiting') /\ waiting'[i - 1] = waiting[i]
      BY <2>1, <2>6, <3>1, <3>2
    <3>. QED
      BY <3>1, <3>3
  <2>12. Cardinality(WaitingIn(pc')) = Cardinality(WaitingIn(pc)) - 1
    BY <2>5, FiniteJobs, FS_RemoveElement
  <2>13. Queued(waiting', pc')
    BY <2>6, <2>9, <2>10, <2>11, <2>12 DEF IInv, Queued
  <2>14. RunningIn(pc') = (RunningIn(pc) \ {j}) \cup {h} /\ h \notin RunningIn(pc)
    BY <1>1, <2>1, <2>2, <2>4 DEF RunningIn, Running
  <2>15. Cardinality(RunningIn(pc')) = Cardinality(RunningIn(pc))
    <3>1. /\ IsFiniteSet(RunningIn(pc) \ {j})
          /\ Cardinality(RunningIn(pc) \ {j}) = Cardinality(RunningIn(pc)) - 1
      BY <1>2, FiniteJobs, FS_RemoveElement
    <3>2. Cardinality(RunningIn(pc')) = Cardinality(RunningIn(pc) \ {j}) + 1
      BY <2>14, <3>1, FS_AddElement
    <3>. QED
      BY <3>1, <3>2, FiniteJobs
  <2>16. Taken(active', waiting', pc')
    BY <1>4, <2>15 DEF IInv, Taken
  <2>. QED
    BY <2>4, <2>13, <2>16 DEF IInv
<1>. QED
  BY <1>3, <1>4 DEF ReleaseSlot

(* The queue and its jobs go with the process.                             *)
LEMMA CrashKeeps ==
    ASSUME IInv, Crash
    PROVE  IInv'
<1>1. pc' \in [Jobs -> JobPlaces] /\ active' = 0 /\ waiting' = <<>>
  BY DEF IInv, Crash, JobPlaces, Ended
<1>2. \A j \in Jobs : pc'[j] \in Ended
  BY DEF Crash, Live, Ended
<1>3. RunningIn(pc') = {} /\ WaitingIn(pc') = {}
  BY <1>2 DEF RunningIn, WaitingIn, Running, Ended
<1>4. Cardinality(RunningIn(pc')) = 0 /\ Cardinality(WaitingIn(pc')) = 0
  BY <1>3, FS_EmptySet
<1>5. Queued(waiting', pc')
  BY <1>1, <1>3, <1>4 DEF Queued
<1>6. Taken(active', waiting', pc')
  BY <1>1, <1>4, BatchNumbers DEF Taken
<1>. QED
  BY <1>1, <1>5, <1>6 DEF IInv

LEMMA NextKeeps ==
    ASSUME IInv, [Next]_vars
    PROVE  IInv'
<1>1. ASSUME NEW j \in Jobs, Enqueue(j) \/ EnqueueFails(j)
      PROVE  IInv'
  <2>1. pc[j] = "request" /\ UNCHANGED slots
    BY <1>1 DEF Enqueue, EnqueueFails
  <2>2. PICK place \in {"accepted", "refused"} : pc' = [pc EXCEPT ![j] = place]
    BY <1>1 DEF Enqueue, EnqueueFails, Goto
  <2>. QED
    BY <2>1, <2>2, SlotsUntouched DEF JobPlaces, Running, Ended
<1>2. ASSUME NEW j \in Jobs,
             \/ MarkProcessing(j) \/ CommitChunk(j) \/ RollbackChunk(j)
             \/ ThrowChunk(j) \/ SaveProgress(j) \/ Finish(j)
             \/ StatementFails(j) \/ FailJob(j)
      PROVE  IInv'
  <2>1. pc[j] \in Running /\ UNCHANGED slots
    BY <1>2 DEF MarkProcessing, CommitChunk, RollbackChunk, ThrowChunk,
                SaveProgress, Finish, StatementFails, FailJob, Running
  <2>2. PICK place \in Running : pc' = [pc EXCEPT ![j] = place]
    BY <1>2 DEF MarkProcessing, CommitChunk, RollbackChunk, ThrowChunk,
                SaveProgress, Finish, StatementFails, FailJob, Goto, Running
  <2>. QED
    BY <2>1, <2>2, SlotsUntouched DEF JobPlaces, Running
<1>3. ASSUME NEW j \in Jobs, Validate(j)
      PROVE  IInv'
  <2>1. pc[j] = "validate" /\ UNCHANGED slots /\ (UNCHANGED pc \/ Goto(j, "write"))
    BY <1>3 DEF Validate
  <2>2. CASE UNCHANGED pc
    <3>1. UNCHANGED <<pc, active, waiting>>
      BY <2>1, <2>2 DEF slots
    <3>. QED
      BY <3>1 DEF IInv, Queued, Taken, RunningIn, WaitingIn
  <2>3. CASE Goto(j, "write")
    BY <2>1, <2>3, SlotsUntouched DEF JobPlaces, Running, Goto
  <2>. QED
    BY <2>1, <2>2, <2>3
<1>4. ASSUME NEW j \in Jobs, Run(j)
      PROVE  IInv'
  BY <1>2, <1>3, <1>4, WaitKeeps, ReleaseKeeps DEF Run
<1>5. CASE UNCHANGED vars
  <2>1. UNCHANGED <<pc, active, waiting>>
    BY <1>5 DEF vars, slots
  <2>. QED
    BY <2>1 DEF IInv, Queued, Taken, RunningIn, WaitingIn
<1>. QED
  BY <1>1, <1>4, <1>5, CrashKeeps DEF Next

LEMMA AccountedSlots ==
    IInv => SlotsAreAccounted
<1>. SUFFICES ASSUME IInv PROVE SlotsAreAccounted
  OBVIOUS
<1>1. RunningIn(pc) = {j \in Jobs : pc[j] \in Running}
      /\ WaitingIn(pc) = {j \in Jobs : pc[j] = "waiting"}
  BY DEF RunningIn, WaitingIn
<1>2. /\ DOMAIN waiting = 1..Len(waiting)
      /\ \A i \in DOMAIN waiting : waiting[i] \in WaitingIn(pc)
      /\ \A j \in WaitingIn(pc) : \E i \in DOMAIN waiting : waiting[i] = j
  <2>1. waiting \in Seq(Jobs)
    BY DEF IInv, Queued
  <2>2. DOMAIN waiting = 1..Len(waiting) /\ \A i \in DOMAIN waiting : waiting[i] \in Jobs
    BY <2>1
  <2>3. \A i \in DOMAIN waiting : pc[waiting[i]] = "waiting"
    BY <2>2 DEF IInv, Queued
  <2>4. \A i \in DOMAIN waiting : waiting[i] \in WaitingIn(pc)
    BY <2>2, <2>3 DEF WaitingIn
  <2>5. \A j \in WaitingIn(pc) : \E i \in DOMAIN waiting : waiting[i] = j
    BY <2>2 DEF IInv, Queued
  <2>. QED
    BY <2>2, <2>4, <2>5
<1>3. {waiting[i] : i \in DOMAIN waiting} = WaitingIn(pc)
  BY <1>2
<1>. QED
  BY <1>1, <1>3 DEF IInv, Queued, Taken, SlotsAreAccounted

(* activeJobs is the number of running jobs and never exceeds the slots,   *)
(* every waiting job is in the queue once, and none waits while a slot is  *)
(* free, however jobs fail and whenever the process dies                   *)
(* (batch-queue.ts:15-34).                                                 *)
THEOREM NoSlotIsLost ==
    Spec => []SlotsAreAccounted
<1>1. IInv /\ [Next]_vars => IInv'
  BY NextKeeps
<1>. QED
  BY <1>1, InitIsAccounted, AccountedSlots, PTL DEF Spec
-----------------------------------------------------------------------------
(* What a job counts and reports.  The records before and up to each chunk *)
(* of a load l, as Total adds them up.                                     *)
Sums(l) ==
    LET sum[i \in 0..Len(l)] ==
            IF i = 0 THEN 0 ELSE sum[i - 1] + l[i].good + l[i].bad
    IN  sum

Upto(c) == c * ChunkSize

Shape == [status : {"none", "queued", "processing", "completed", "failed"},
          counts : CountsType]

(* The counts n of a job of kind k that committed m records: its           *)
(* successes were committed, and no record is counted twice.               *)
Tallied(k, n, m) ==
    /\ n \in CountsType
    /\ m \in 0..MaxRecords
    /\ n.success <= m
    /\ n.success + n.errors <= n.processed
    /\ n.processed > 0 => n.success + n.errors > 0
    /\ k = "create" => n.success + n.errors = n.processed

(* At each place the counts are those of the chunks before chunk c, and of *)
(* as much of chunk c as the job has seen.                                 *)
Placed(l, place, c, n, m) ==
    /\ c \in 1..MaxChunks + 1
    /\ place \in {"request", "refused", "accepted", "waiting", "mark"} =>
          c = 1 /\ n = Zero /\ m = 0
    /\ place = "validate" =>
          /\ c \in 1..Len(l) + 1
          /\ n.processed = Sums(l)[c - 1]
          /\ n.processed <= Upto(c - 1) /\ m <= Upto(c - 1)
    /\ place = "write" =>
          /\ c \in 1..Len(l)
          /\ n.processed = Sums(l)[c - 1] + l[c].bad
          /\ n.processed <= Upto(c - 1) + l[c].bad /\ m <= Upto(c - 1)
          /\ l[c].good > 0
    /\ place = "save" =>
          /\ c \in 1..Len(l)
          /\ n.processed = Sums(l)[c]
          /\ n.processed <= Upto(c) /\ m <= Upto(c)

AtMost(a, b) ==
    a.processed <= b.processed /\ a.success <= b.success /\ a.errors <= b.errors

(* The row r that clients poll claims what was committed, lags behind the  *)
(* job's own counts, and is final only when the job is.                    *)
Reported(k, l, place, n, r, m) ==
    /\ r \in Shape
    /\ r.counts.success <= m
    /\ place \in {"request", "refused", "accepted", "waiting", "mark"} =>
          r.counts = Zero
    /\ place \in {"mark", "validate", "write", "save"} => AtMost(r.counts, n)
    /\ r.status \in {"completed", "failed"} =>
          place \in {"fail", "release", "done", "gone"}
    /\ r.status = "completed" =>
          /\ m > 0
          /\ k = "create" => /\ r.counts.processed = Sums(l)[Len(l)]
                             /\ r.counts.success + r.counts.errors = Sums(l)[Len(l)]

Sound(k, l, place, c, n, r, m) ==
    /\ Tallied(k, n, m)
    /\ Placed(l, place, c, n, m)
    /\ Reported(k, l, place, n, r, m)

Fields ==
    /\ kind \in [Jobs -> {"create", "update"}]
    /\ load \in [Jobs -> Loads]
    /\ chunk \in [Jobs -> 1..MaxChunks + 1]
    /\ progress \in [Jobs -> CountsType]
    /\ row \in [Jobs -> Shape]
    /\ committed \in [Jobs -> 0..MaxRecords]

RInv ==
    /\ IInv
    /\ Fields
    /\ \A j \in Jobs : Sound(kind[j], load[j], pc[j], chunk[j], progress[j],
                             row[j], committed[j])
-----------------------------------------------------------------------------
(* Induction over the natural numbers, for sets: a set that holds 0 and    *)
(* the successor of each of its members holds every one.                   *)
LEMMA NatSet ==
    ASSUME NEW T \in SUBSET Nat, 0 \in T, \A n \in T : n + 1 \in T
    PROVE  T = Nat
<1>. DEFINE R == StrictSubsetOrdering(Nat)
            F == FiniteSubsetsOf(Nat)
            U == Nat \ T
            V == {1..n : n \in U}
<1>. SUFFICES ASSUME U # {} PROVE FALSE
  OBVIOUS
<1>1. IsWellFoundedOn(R, F)
  BY FS_StrictSubsetOrderingWellFounded
<1>2. V \subseteq F /\ V # {}
  <2>1. ASSUME NEW n \in Nat PROVE 1..n \in F
    BY FS_Interval DEF FiniteSubsetsOf
  <2>. QED
    BY <2>1
<1>3. PICK v \in V : \A w \in V : ~(<<w, v>> \in R)
  <2>. HIDE DEF R, F, V
  <2>. QED
    BY <1>1, <1>2, WFMin
<1>4. PICK x \in U : v = 1..x
  OBVIOUS
<1>5. x \in Nat /\ x # 0 /\ x - 1 \in Nat
  OBVIOUS
<1>6. <<1..(x - 1), v>> \in R
  BY <1>4, <1>5 DEF StrictSubsetOrdering
<1>7. x - 1 \notin U
  BY <1>3, <1>6
<1>. QED
  BY <1>5, <1>7

(* The recursion behind Total exists, and counts up chunk by chunk.        *)
LEMMA SumsCount ==
    ASSUME NEW l \in Seq(Chunks)
    PROVE  /\ Sums(l) \in [0..Len(l) -> Nat]
           /\ Sums(l)[0] = 0
           /\ \A i \in 1..Len(l) :
                 Sums(l)[i] = Sums(l)[i - 1] + l[i].good + l[i].bad
<1>. DEFINE Rec(f, m) == f = [i \in 0..m |->
                IF i = 0 THEN 0 ELSE f[i - 1] + l[i].good + l[i].bad]
<1>0. \A i \in 1..Len(l) : l[i].good \in Nat /\ l[i].bad \in Nat
  <2>1. \A i \in 1..Len(l) : l[i] \in Chunks
    OBVIOUS
  <2>. QED
    BY <2>1 DEF Chunks
<1>. DEFINE T == {m \in Nat : m <= Len(l) => \E f \in [0..m -> Nat] : Rec(f, m)}
<1>1. 0 \in T
  <2>1. Rec([i \in 0..0 |-> 0], 0) /\ [i \in 0..0 |-> 0] \in [0..0 -> Nat]
    OBVIOUS
  <2>. QED
    BY <2>1
<1>2. ASSUME NEW m \in T PROVE m + 1 \in T
  <2>. HIDE DEF Rec
  <2>0. Len(l) \in Nat
    OBVIOUS
  <2>. SUFFICES ASSUME m + 1 <= Len(l)
                PROVE  \E f \in [0..(m + 1) -> Nat] : Rec(f, m + 1)
    OBVIOUS
  <2>1. PICK f \in [0..m -> Nat] : Rec(f, m)
    BY <2>0
  <2>. DEFINE next == f[m] + l[m + 1].good + l[m + 1].bad
              g == [i \in 0..(m + 1) |-> IF i = m + 1 THEN next ELSE f[i]]
  <2>2. m \in Nat /\ m + 1 \in 1..Len(l) /\ Len(l) \in Nat
    OBVIOUS
  <2>3. next \in Nat
    <3>1. f[m] \in Nat /\ l[m + 1].good \in Nat /\ l[m + 1].bad \in Nat
      BY <1>0, <2>2
    <3>. QED
      BY <3>1
  <2>4. g \in [0..(m + 1) -> Nat]
    BY <2>2, <2>3
  <2>5. ASSUME NEW i \in 0..(m + 1)
        PROVE  g[i] = IF i = 0 THEN 0 ELSE g[i - 1] + l[i].good + l[i].bad
    BY <2>1, <2>2 DEF Rec
  <2>6. Rec(g, m + 1)
    <3>. HIDE DEF next
    <3>. QED
      BY <2>5 DEF Rec
  <2>. HIDE DEF Rec, g
  <2>. QED
    BY <2>4, <2>6
<1>3. T = Nat
  <2>. HIDE DEF T
  <2>1. T \in SUBSET Nat
    BY DEF T
  <2>. QED
    BY <1>1, <1>2, <2>1, NatSet
<1>4. \E f \in [0..Len(l) -> Nat] : Rec(f, Len(l))
  <2>. HIDE DEF Rec
  <2>1. Len(l) \in T
    BY <1>3
  <2>. QED
    BY <2>1
<1>5. Rec(Sums(l), Len(l))
  BY <1>4 DEF Sums
<1>6. ASSUME NEW f \in [0..Len(l) -> Nat], Rec(f, Len(l)),
             NEW g, Rec(g, Len(l))
      PROVE  f = g
  <2>. DEFINE D == {m \in Nat : m <= Len(l) => f[m] = g[m]}
  <2>1. 0 \in D
    BY <1>6
  <2>2. ASSUME NEW m \in D PROVE m + 1 \in D
    BY <1>6
  <2>3. D = Nat
    <3>. HIDE DEF D
    <3>1. D \in SUBSET Nat
      BY DEF D
    <3>. QED
      BY <2>1, <2>2, <3>1, NatSet
  <2>4. \A m \in 0..Len(l) : f[m] = g[m]
    BY <2>3
  <2>5. DOMAIN g = 0..Len(l) /\ g = [m \in 0..Len(l) |-> g[m]]
    BY <1>6
  <2>. QED
    BY <2>4, <2>5
<1>7. Sums(l) \in [0..Len(l) -> Nat]
  <2>. HIDE DEF Rec
  <2>. QED
    BY <1>4, <1>5, <1>6
<1>8. 0 \in 0..Len(l) /\ \A i \in 1..Len(l) : i \in 0..Len(l) /\ i # 0
  OBVIOUS
<1>9. ASSUME NEW f, Rec(f, Len(l)), NEW i \in 0..Len(l)
      PROVE  f[i] = IF i = 0 THEN 0 ELSE f[i - 1] + l[i].good + l[i].bad
  BY <1>9
<1>. HIDE DEF Rec
<1>. QED
  BY <1>5, <1>7, <1>8, <1>9

LEMMA TotalIsSum ==
    ASSUME NEW j \in Jobs PROVE Total(j) = Sums(load[j])[Len(load[j])]
  BY DEF Total, Sums

LEMMA LoadFacts ==
    ASSUME NEW l \in Loads
    PROVE  /\ l \in Seq(Chunks)
           /\ Len(l) \in 1..MaxChunks
           /\ \A i \in 1..Len(l) : /\ l[i].good \in 0..ChunkSize
                                   /\ l[i].bad \in 0..ChunkSize
                                   /\ l[i].good + l[i].bad \in 1..ChunkSize
<1>1. PICK n \in 1..MaxChunks : l \in [1..n -> Chunks]
  BY DEF Loads
<1>2. n \in Nat /\ l \in Seq(Chunks) /\ Len(l) = n
  BY <1>1, BatchNumbers
<1>3. \A i \in 1..Len(l) : l[i] \in Chunks
  BY <1>1, <1>2
<1>. QED
  BY <1>2, <1>3 DEF Chunks

LEMMA UptoFacts ==
    ASSUME NEW c \in 0..MaxChunks
    PROVE  /\ Upto(c) \in Nat
           /\ Upto(c) <= MaxRecords
           /\ c > 0 => Upto(c) = Upto(c - 1) + ChunkSize
           /\ MaxRecords \in Nat
<1>1. PICK d \in Nat : MaxChunks = c + d
  <2>1. MaxChunks - c \in Nat /\ MaxChunks = c + (MaxChunks - c)
    BY BatchNumbers
  <2>. QED
    BY <2>1
<1>2. ChunkSize \in Nat /\ MaxChunks \in Nat /\ c \in Nat
  BY BatchNumbers
<1>3. MaxRecords = c * ChunkSize + d * ChunkSize
  BY <1>1, <1>2 DEF MaxRecords
<1>4. c * ChunkSize \in Nat /\ d * ChunkSize \in Nat
  BY <1>1, <1>2
<1>5. c > 0 => c * ChunkSize = (c - 1) * ChunkSize + ChunkSize
  BY <1>2
<1>. QED
  BY <1>3, <1>4, <1>5 DEF Upto
-----------------------------------------------------------------------------
LEMMA CountsFacts ==
    ASSUME NEW p, NEW q, NEW a, NEW b, NEW c
    PROVE  /\ Counts(a, b, c).processed = a
           /\ Counts(a, b, c).success = b
           /\ Counts(a, b, c).errors = c
           /\ Add(p, q) = Counts(p.processed + q.processed,
                                 p.success + q.success, p.errors + q.errors)
           /\ Job(p, q).status = p /\ Job(p, q).counts = q
  BY DEF Counts, Add, Job

(* Counts that stay within what was processed stay within their columns.   *)
LEMMA CountsFit ==
    ASSUME NEW a \in 0..MaxRecords, NEW b \in Nat, NEW c \in Nat, b + c <= a
    PROVE  Counts(a, b, c) \in CountsType
<1>1. MaxRecords \in Nat
  BY UptoFacts, BatchNumbers
<1>2. b \in 0..MaxRecords /\ c \in 0..MaxRecords
  BY <1>1
<1>. QED
  BY <1>2 DEF Counts, CountsType

LEMMA CountsAreNumbers ==
    ASSUME NEW n \in CountsType
    PROVE  n.processed \in Nat /\ n.success \in Nat /\ n.errors \in Nat
<1>1. MaxRecords \in Nat
  BY UptoFacts, BatchNumbers
<1>. QED
  BY <1>1 DEF CountsType

LEMMA ZeroFits == Zero \in CountsType
<1>1. MaxRecords \in Nat
  BY UptoFacts, BatchNumbers
<1>2. 0 \in 0..MaxRecords
  BY <1>1
<1>. QED
  BY <1>2, CountsFit DEF Zero

(* More of the same chunk is counted: dp records, ds of them as successes  *)
(* and de as errors, dm committed.                                         *)
LEMMA TallyMore ==
    ASSUME NEW k, NEW n, NEW m, Tallied(k, n, m),
           NEW dp \in Nat, NEW ds \in Nat, NEW de \in Nat, NEW dm \in Nat,
           ds + de <= dp, ds <= dm,
           dp > 0 => ds + de > 0,
           k = "create" => ds + de = dp,
           n.processed + dp <= MaxRecords, m + dm <= MaxRecords
    PROVE  Tallied(k, Add(n, Counts(dp, ds, de)), m + dm)
<1>0. MaxRecords \in Nat
  BY UptoFacts, BatchNumbers
<1>1. n.processed \in Nat /\ n.success \in Nat /\ n.errors \in Nat /\ m \in Nat
  BY <1>0, CountsAreNumbers DEF Tallied
<1>2. /\ n.processed + dp \in 0..MaxRecords
      /\ n.success + ds \in Nat /\ n.errors + de \in Nat
      /\ (n.success + ds) + (n.errors + de) <= n.processed + dp
      /\ m + dm \in 0..MaxRecords
      /\ n.success + ds <= m + dm
      /\ n.processed + dp > 0 => (n.success + ds) + (n.errors + de) > 0
      /\ k = "create" => (n.success + ds) + (n.errors + de) = n.processed + dp
  BY <1>0, <1>1 DEF Tallied
<1>. DEFINE new == Counts(n.processed + dp, n.success + ds, n.errors + de)
<1>3. Add(n, Counts(dp, ds, de)) = new
  BY CountsFacts
<1>4. new \in CountsType
  BY <1>2, CountsFit
<1>5. /\ new.processed = n.processed + dp
      /\ new.success = n.success + ds
      /\ new.errors = n.errors + de
  BY CountsFacts
<1>. HIDE DEF new
<1>6. Tallied(k, new, m + dm)
  BY <1>2, <1>4, <1>5 DEF Tallied
<1>. QED
  BY <1>3, <1>6

(* A chunk is over: it is counted as one of those before the next.         *)
ChunkOK(l, c) ==
    /\ c \in 1..MaxChunks /\ c + 1 \in 1..MaxChunks + 1
    /\ c + 1 \in 1..Len(l) + 1 /\ (c + 1) - 1 = c
    /\ Sums(l)[c - 1] \in Nat /\ Sums(l)[c] \in Nat
    /\ Sums(l)[c] = Sums(l)[c - 1] + l[c].good + l[c].bad
    /\ Sums(l)[c] > 0
    /\ Upto(c) = Upto(c - 1) + ChunkSize
    /\ Upto(c) \in Nat /\ Upto(c - 1) \in Nat /\ Upto(c) <= MaxRecords
    /\ l[c].good \in Nat /\ l[c].bad \in Nat
    /\ l[c].good + l[c].bad <= ChunkSize
    /\ l[c].bad <= ChunkSize /\ l[c].good <= ChunkSize
    /\ ChunkSize \in Nat /\ MaxRecords \in Nat /\ MaxChunks \in Nat
    /\ Len(l) \in Nat /\ c \in Nat

LEMMA MoreIsMore ==
    ASSUME NEW a \in Nat, NEW b \in Nat
    PROVE  a + b \in Nat /\ a <= a + b /\ a <= a + 0 /\ a + 0 \in Nat
  OBVIOUS

LEMMA SumsOrdered ==
    ASSUME NEW a \in Nat, NEW b \in Nat, NEW u \in Nat, NEW v \in Nat,
           a <= u, b <= v
    PROVE  a + b <= u + v
  OBVIOUS

LEMMA ChunkFacts ==
    ASSUME NEW l \in Loads, NEW c \in 1..Len(l)
    PROVE  ChunkOK(l, c)
<1>1. /\ l \in Seq(Chunks) /\ Len(l) \in 1..MaxChunks
      /\ l[c].good \in 0..ChunkSize /\ l[c].bad \in 0..ChunkSize
      /\ l[c].good + l[c].bad \in 1..ChunkSize
  BY LoadFacts
<1>2. /\ c \in 1..MaxChunks /\ c + 1 \in 1..MaxChunks + 1
      /\ c + 1 \in 1..Len(l) + 1 /\ (c + 1) - 1 = c
      /\ c - 1 \in 0..Len(l) /\ c \in 0..Len(l) /\ c \in 0..MaxChunks
      /\ c - 1 \in 0..MaxChunks
  BY <1>1, BatchNumbers
<1>3. /\ Sums(l)[c - 1] \in Nat /\ Sums(l)[c] \in Nat
      /\ Sums(l)[c] = Sums(l)[c - 1] + l[c].good + l[c].bad
  BY <1>1, <1>2, SumsCount
<1>4. /\ Upto(c) = Upto(c - 1) + ChunkSize
      /\ Upto(c) \in Nat /\ Upto(c - 1) \in Nat /\ Upto(c) <= MaxRecords
  BY <1>2, UptoFacts
<1>5. /\ l[c].good \in Nat /\ l[c].bad \in Nat /\ l[c].good + l[c].bad <= ChunkSize
      /\ l[c].good + l[c].bad > 0 /\ ChunkSize \in Nat /\ MaxChunks \in Nat
      /\ l[c].bad <= ChunkSize /\ l[c].good <= ChunkSize
      /\ Len(l) \in Nat /\ c \in Nat
  BY <1>1, BatchNumbers
<1>6. Sums(l)[c] > 0
  BY <1>3, <1>5
<1>7. MaxRecords \in Nat
  BY UptoFacts, BatchNumbers
<1>. QED
  BY <1>2, <1>3, <1>4, <1>5, <1>6, <1>7 DEF ChunkOK
-----------------------------------------------------------------------------
(* A chunk without a valid record is passed over.                          *)
LEMMA SkipSound ==
    ASSUME NEW k, NEW l \in Loads, NEW c \in 1..Len(l), NEW n, NEW r, NEW m,
           Sound(k, l, "validate", c, n, r, m)
    PROVE  LET seen == Add(n, Counts(l[c].bad, 0, l[c].bad))
           IN  /\ l[c].good = 0 => Sound(k, l, "validate", c + 1, seen, r, m)
               /\ l[c].good > 0 => Sound(k, l, "write", c, seen, r, m)
<1>. DEFINE seen == Add(n, Counts(l[c].bad, 0, l[c].bad))
<1>0. /\ l[c].bad \in Nat /\ l[c].bad <= ChunkSize /\ ChunkSize \in Nat
      /\ Upto(c - 1) \in Nat /\ Upto(c) = Upto(c - 1) + ChunkSize
      /\ Upto(c) <= MaxRecords /\ MaxRecords \in Nat
  BY ChunkFacts DEF ChunkOK
<1>a. /\ Sums(l)[c] = Sums(l)[c - 1] + l[c].good + l[c].bad
      /\ Sums(l)[c - 1] \in Nat /\ l[c].good \in Nat
      /\ c + 1 \in 1..MaxChunks + 1 /\ c + 1 \in 1..Len(l) + 1 /\ (c + 1) - 1 = c
      /\ c \in 1..MaxChunks + 1
  BY ChunkFacts DEF ChunkOK
<1>1. /\ n.processed = Sums(l)[c - 1] /\ n.processed <= Upto(c - 1)
      /\ m <= Upto(c - 1)
  BY DEF Sound, Placed
<1>2. n.processed \in Nat /\ n.success \in Nat /\ n.errors \in Nat /\ m \in Nat
  BY UptoFacts, BatchNumbers, CountsAreNumbers DEF Sound, Tallied
<1>3. /\ seen.processed = n.processed + l[c].bad
      /\ seen.success = n.success + 0 /\ seen.errors = n.errors + l[c].bad
  BY CountsFacts
<1>4. Tallied(k, seen, m)
  <2>1. n.processed + l[c].bad <= MaxRecords /\ m + 0 <= MaxRecords /\ m + 0 = m
    <3>1. /\ n.processed <= Upto(c - 1) /\ Upto(c - 1) + ChunkSize <= MaxRecords
          /\ l[c].bad <= ChunkSize /\ l[c].bad \in Nat /\ ChunkSize \in Nat
          /\ Upto(c - 1) \in Nat /\ MaxRecords \in Nat /\ m <= MaxRecords
      <4>1. m <= MaxRecords
        BY DEF Sound, Tallied
      <4>. QED
        BY <1>0, <1>1, <4>1
    <3>. QED
      BY <1>2, <3>1
  <2>2. Tallied(k, seen, m + 0)
    <3>1. l[c].bad > 0 => 0 + l[c].bad > 0
      BY <1>0
    <3>2. 0 \in Nat /\ 0 + l[c].bad <= l[c].bad /\ 0 + l[c].bad = l[c].bad /\ 0 <= 0
      BY <1>0
    <3>. QED
      BY <1>0, <2>1, <3>1, <3>2, TallyMore DEF Sound
  <2>. QED
    BY <2>1, <2>2
<1>. HIDE DEF seen
<1>5. l[c].good = 0 => Placed(l, "validate", c + 1, seen, m)
  <2>. SUFFICES ASSUME l[c].good = 0 PROVE Placed(l, "validate", c + 1, seen, m)
    OBVIOUS
  <2>1. seen.processed = Sums(l)[c]
    BY <1>1, <1>2, <1>3, <1>0, <1>a
  <2>2. seen.processed <= Upto(c) /\ m <= Upto(c)
    <3>1. n.processed + l[c].bad <= Upto(c - 1) + ChunkSize
      BY <1>0, <1>1, <1>2, SumsOrdered
    <3>2. m + 0 <= Upto(c - 1) + ChunkSize /\ m + 0 = m
      BY <1>0, <1>1, <1>2, SumsOrdered
    <3>. QED
      BY <1>0, <1>3, <3>1, <3>2
  <2>. QED
    BY <1>a, <2>1, <2>2 DEF Placed
<1>6. l[c].good > 0 => Placed(l, "write", c, seen, m)
  <2>1. seen.processed <= Upto(c - 1) + l[c].bad
    BY <1>0, <1>1, <1>2, <1>3
  <2>. QED
    BY <1>a, <1>1, <1>3, <2>1 DEF Placed
<1>7. \A place \in {"validate", "write"} : Reported(k, l, place, seen, r, m)
  <2>1. /\ r \in Shape /\ r.counts.success <= m /\ AtMost(r.counts, n)
        /\ r.status \notin {"completed", "failed"}
    BY DEF Sound, Reported
  <2>2. r.counts \in CountsType
    BY <2>1 DEF Shape
  <2>3. AtMost(r.counts, seen)
    <3>1. /\ r.counts.processed \in Nat /\ r.counts.success \in Nat
          /\ r.counts.errors \in Nat
      BY <2>2, CountsAreNumbers
    <3>a. l[c].bad \in Nat
      BY <1>0
    <3>2. /\ n.processed <= n.processed + l[c].bad /\ n.success <= n.success + 0
          /\ n.errors <= n.errors + l[c].bad
      BY <1>2, <3>a, MoreIsMore
    <3>3. /\ n.processed + l[c].bad \in Nat /\ n.success + 0 \in Nat
          /\ n.errors + l[c].bad \in Nat
      BY <1>2, <3>a, MoreIsMore
    <3>. QED
      BY <1>2, <1>3, <2>1, <3>1, <3>2, <3>3 DEF AtMost
  <2>. QED
    BY <2>1, <2>3 DEF Reported
<1>8. (l[c].good = 0 => Sound(k, l, "validate", c + 1, seen, r, m))
      /\ (l[c].good > 0 => Sound(k, l, "write", c, seen, r, m))
  BY <1>4, <1>5, <1>6, <1>7 DEF Sound
<1>. QED
  BY <1>8 DEF seen

(* A chunk is committed or rolled back.                                    *)
LEMMA WriteSound ==
    ASSUME NEW k, NEW l \in Loads, NEW c, NEW n, NEW r, NEW m,
           Sound(k, l, "write", c, n, r, m),
           NEW g, g = l[c].good,
           NEW s \in Nat, NEW e \in Nat, NEW dm \in {0, g},
           s <= dm, s + e \in 1..g, k = "create" => s + e = g
    PROVE  /\ Sound(k, l, "save", c, Add(n, Counts(g, s, e)), r, m + dm)
           /\ Sound(k, l, "fail", c, n, r, m + dm)
<1>. DEFINE seen == Add(n, Counts(g, s, e))
<1>1. /\ c \in 1..Len(l)
      /\ n.processed = Sums(l)[c - 1] + l[c].bad
      /\ n.processed <= Upto(c - 1) + l[c].bad /\ m <= Upto(c - 1)
      /\ l[c].good > 0
  BY DEF Sound, Placed
<1>2. n.processed \in Nat /\ n.success \in Nat /\ n.errors \in Nat /\ m \in Nat
  BY UptoFacts, BatchNumbers, CountsAreNumbers DEF Sound, Tallied
<1>3. /\ seen.processed = n.processed + l[c].good
      /\ seen.success = n.success + s /\ seen.errors = n.errors + e
  BY CountsFacts
<1>a. ChunkOK(l, c)
  BY <1>1, ChunkFacts
<1>4. /\ dm \in Nat /\ dm <= l[c].good /\ l[c].good \in Nat /\ l[c].bad \in Nat
      /\ n.processed + l[c].good <= Upto(c) /\ m + dm <= Upto(c)
      /\ m + dm \in 0..MaxRecords
      /\ n.processed + l[c].good <= MaxRecords
  <2>1. /\ l[c].good \in Nat /\ l[c].bad \in Nat /\ ChunkSize \in Nat
        /\ l[c].good + l[c].bad <= ChunkSize
        /\ Upto(c - 1) \in Nat /\ Upto(c) = Upto(c - 1) + ChunkSize
        /\ Upto(c) <= MaxRecords /\ MaxRecords \in Nat
    BY <1>a DEF ChunkOK
  <2>2. dm \in Nat /\ dm <= l[c].good
    BY <2>1
  <2>3. n.processed + l[c].good <= Upto(c) /\ m + dm <= Upto(c)
    <3>1. m + dm <= Upto(c - 1) + ChunkSize
      <4>1. dm <= ChunkSize
        BY <2>1, <2>2
      <4>. QED
        BY <1>1, <1>2, <2>1, <2>2, <4>1, SumsOrdered
    <3>2. (n.processed - l[c].bad) + (l[c].bad + l[c].good) <= Upto(c - 1) + ChunkSize
      <4>1. n.processed - l[c].bad = Sums(l)[c - 1] /\ Sums(l)[c - 1] \in Nat
        BY <1>1, <1>a, <2>1 DEF ChunkOK
      <4>2. Sums(l)[c - 1] <= Upto(c - 1)
        BY <1>1, <2>1, <4>1
      <4>3. l[c].bad + l[c].good <= ChunkSize /\ l[c].bad + l[c].good \in Nat
        BY <2>1
      <4>. QED
        BY <2>1, <4>1, <4>2, <4>3, SumsOrdered
    <3>. QED
      BY <1>2, <2>1, <3>1, <3>2
  <2>. QED
    BY <1>2, <2>1, <2>2, <2>3
<1>5. Tallied(k, seen, m + dm)
  <2>1. /\ m + dm <= MaxRecords /\ s + e <= l[c].good
        /\ l[c].good > 0 => s + e > 0
    BY <1>1, <1>4, <1>a DEF ChunkOK
  <2>. QED
    BY <1>4, <2>1, TallyMore DEF Sound
<1>6. Tallied(k, n, m + dm)
  BY <1>2, <1>4 DEF Sound, Tallied
<1>. HIDE DEF seen
<1>7. Placed(l, "save", c, seen, m + dm)
  <2>1. /\ Sums(l)[c] = Sums(l)[c - 1] + l[c].good + l[c].bad
        /\ Sums(l)[c - 1] \in Nat /\ c \in 1..MaxChunks + 1
    BY <1>a DEF ChunkOK
  <2>2. seen.processed = Sums(l)[c]
    BY <1>1, <1>3, <1>4, <2>1
  <2>. QED
    BY <1>1, <1>3, <1>4, <2>1, <2>2 DEF Placed
<1>8. Placed(l, "fail", c, n, m + dm)
  BY <1>a DEF Placed, ChunkOK
<1>9. /\ Reported(k, l, "save", seen, r, m + dm)
      /\ Reported(k, l, "fail", n, r, m + dm)
  <2>1. /\ r \in Shape /\ r.counts.success <= m /\ AtMost(r.counts, n)
        /\ r.status \notin {"completed", "failed"}
    BY DEF Sound, Reported
  <2>2. r.counts \in CountsType
    BY <2>1 DEF Shape
  <2>3. AtMost(r.counts, seen) /\ r.counts.success <= m + dm
    BY <1>2, <1>3, <1>4, <2>1, <2>2, CountsAreNumbers DEF AtMost
  <2>. QED
    BY <2>1, <2>3 DEF Reported
<1>10. /\ Sound(k, l, "save", c, seen, r, m + dm)
       /\ Sound(k, l, "fail", c, n, r, m + dm)
  BY <1>5, <1>6, <1>7, <1>8, <1>9 DEF Sound
<1>. QED
  BY <1>10 DEF seen

(* The counts are saved in the row, or that is attempted in vain.          *)
LEMMA SaveSound ==
    ASSUME NEW k, NEW l \in Loads, NEW c, NEW n, NEW r, NEW m,
           Sound(k, l, "save", c, n, r, m)
    PROVE  /\ Sound(k, l, "validate", c + 1, n, Job(r.status, n), m)
           /\ Sound(k, l, "fail", c, n, Job(r.status, n), m)
           /\ AtMost(r.counts, n)
<1>. DEFINE new == Job(r.status, n)
<1>1. new.status = r.status /\ new.counts = n
  BY CountsFacts
<1>2. /\ Tallied(k, n, m) /\ Placed(l, "save", c, n, m)
      /\ r \in Shape /\ n \in CountsType /\ n.success <= m
      /\ r.status \notin {"completed", "failed"} /\ AtMost(r.counts, n)
  BY DEF Sound, Reported, Tallied
<1>3. new \in Shape
  BY <1>2 DEF Job, Shape
<1>4. AtMost(n, n)
  BY <1>2, CountsAreNumbers DEF AtMost
<1>. HIDE DEF new
<1>5. Reported(k, l, "validate", n, new, m) /\ Reported(k, l, "fail", n, new, m)
  BY <1>1, <1>2, <1>3, <1>4 DEF Reported
<1>6. Placed(l, "validate", c + 1, n, m) /\ Placed(l, "fail", c, n, m)
  <2>1. ChunkOK(l, c)
    BY <1>2, ChunkFacts DEF Placed
  <2>. QED
    BY <1>2, <2>1 DEF Placed, ChunkOK
<1>. QED
  BY <1>2, <1>5, <1>6 DEF Sound, new

(* The final status and, for a create, the final counts.                   *)
Final(k, n, r) ==
    Job(IF n.errors > 0 /\ n.success = 0 THEN "failed" ELSE "completed",
        IF k = "create" THEN n ELSE r.counts)

LEMMA FinalSound ==
    ASSUME NEW k, NEW l \in Loads, NEW c, NEW n, NEW r, NEW m,
           Sound(k, l, "validate", c, n, r, m), c > Len(l)
    PROVE  /\ \A place \in {"release", "fail"} :
                 Sound(k, l, place, c, n, Final(k, n, r), m)
           /\ AtMost(r.counts, Final(k, n, r).counts)
<1>. DEFINE new == Final(k, n, r)
<1>1. /\ Tallied(k, n, m) /\ Placed(l, "validate", c, n, m)
      /\ r \in Shape /\ n \in CountsType /\ r.counts.success <= m
      /\ r.status \notin {"completed", "failed"} /\ AtMost(r.counts, n)
  BY DEF Sound, Reported, Tallied
<1>2. /\ new.status \in {"failed", "completed"}
      /\ new.status = "completed" => n.errors = 0 \/ n.success > 0
      /\ new.counts = IF k = "create" THEN n ELSE r.counts
  <2>1. n.errors \in Nat /\ n.success \in Nat
    BY <1>1, CountsAreNumbers
  <2>2. /\ new.status = IF n.errors > 0 /\ n.success = 0 THEN "failed" ELSE "completed"
        /\ new.counts = IF k = "create" THEN n ELSE r.counts
    BY DEF Final, Job
  <2>. HIDE DEF new
  <2>. QED
    BY <2>1, <2>2
<1>3. new \in Shape /\ r.counts \in CountsType
  BY <1>1 DEF Final, Job, Shape
<1>4. c = Len(l) + 1 /\ Len(l) \in 1..Len(l) /\ n.processed = Sums(l)[Len(l)]
  BY <1>1, LoadFacts, BatchNumbers DEF Placed
<1>5. n.success + n.errors > 0
  <2>1. Sums(l)[Len(l)] > 0
    BY <1>4, ChunkFacts DEF ChunkOK
  <2>. QED
    BY <1>1, <1>4, <2>1 DEF Tallied
<1>6. new.status = "completed" => m > 0
  <2>1. n.errors \in Nat /\ n.success \in Nat /\ m \in Nat /\ n.success <= m
    BY <1>1, CountsAreNumbers, UptoFacts, BatchNumbers DEF Tallied
  <2>. QED
    BY <1>2, <1>5, <2>1
<1>7. new.counts.success <= m
  BY <1>1, <1>2 DEF Tallied
<1>8. k = "create" => /\ new.counts.processed = Sums(l)[Len(l)]
                      /\ new.counts.success + new.counts.errors = Sums(l)[Len(l)]
  BY <1>1, <1>2, <1>4 DEF Tallied
<1>9. AtMost(r.counts, new.counts)
  BY <1>1, <1>2, <1>3, CountsAreNumbers DEF AtMost
<1>. HIDE DEF new
<1>10. \A place \in {"release", "fail"} :
          Reported(k, l, place, n, new, m) /\ Placed(l, place, c, n, m)
  BY <1>1, <1>2, <1>3, <1>6, <1>7, <1>8 DEF Reported, Placed
<1>. QED
  BY <1>1, <1>9, <1>10 DEF Sound, new

(* The process, or the job, gives up: its counts are forgotten and its row *)
(* stays.                                                                  *)
LEMMA GoneSound ==
    ASSUME NEW k, NEW l, NEW place, NEW c, NEW n, NEW r, NEW m,
           Sound(k, l, place, c, n, r, m)
    PROVE  /\ Sound(k, l, "gone", 1, Zero, r, m)
           /\ place = "release" => Sound(k, l, "done", 1, Zero, r, m)
           /\ place \in {"request", "refused", "done"} /\ n = Zero /\ c = 1 =>
                 Sound(k, l, place, 1, Zero, r, m)
<1>1. m \in Nat /\ MaxRecords \in Nat
  BY UptoFacts, BatchNumbers DEF Sound, Tallied
<1>2. Zero.processed = 0 /\ Zero.success = 0 /\ Zero.errors = 0
  BY CountsFacts DEF Zero
<1>3. Tallied(k, Zero, m)
  BY <1>1, <1>2, ZeroFits DEF Sound, Tallied
<1>4. \A p \in {"gone", "done"} : Placed(l, p, 1, Zero, m)
  BY BatchNumbers DEF Placed
<1>5. /\ Reported(k, l, "gone", Zero, r, m)
      /\ place = "release" => Reported(k, l, "done", Zero, r, m)
  BY DEF Sound, Reported
<1>. QED
  BY <1>3, <1>4, <1>5 DEF Sound
-----------------------------------------------------------------------------
(* The steps.  A step of one job that leaves its row and counts sound      *)
(* leaves everything sound.                                                *)
SoundHere(j) == Sound(kind[j], load[j], pc[j], chunk[j], progress[j],
                      row[j], committed[j])

LEMMA OneJob ==
    ASSUME RInv, IInv', NEW j \in Jobs, UNCHANGED inputs,
           NEW place, NEW c, NEW n, NEW r, NEW m,
           pc' = [pc EXCEPT ![j] = place],
           chunk' = [chunk EXCEPT ![j] = c],
           progress' = [progress EXCEPT ![j] = n],
           row' = [row EXCEPT ![j] = r],
           committed' = [committed EXCEPT ![j] = m],
           Sound(kind[j], load[j], place, c, n, r, m)
    PROVE  RInv'
<1>1. /\ c \in 1..MaxChunks + 1 /\ n \in CountsType /\ r \in Shape
      /\ m \in 0..MaxRecords
  BY DEF Sound, Tallied, Placed, Reported
<1>2. Fields'
  BY <1>1 DEF RInv, Fields, inputs
<1>3. ASSUME NEW i \in Jobs PROVE SoundHere(i)'
  <2>1. CASE i = j
    BY <2>1 DEF SoundHere, RInv, Fields, IInv, inputs
  <2>2. CASE i # j
    <3>1. /\ pc'[i] = pc[i] /\ chunk'[i] = chunk[i] /\ progress'[i] = progress[i]
          /\ row'[i] = row[i] /\ committed'[i] = committed[i]
          /\ kind' = kind /\ load' = load
      BY <2>2 DEF RInv, Fields, IInv, inputs
    <3>. QED
      BY <3>1 DEF SoundHere, RInv
  <2>. QED
    BY <2>1, <2>2
<1>. QED
  BY <1>2, <1>3 DEF RInv, SoundHere

LEMMA FieldsHere ==
    ASSUME RInv, NEW j \in Jobs
    PROVE  /\ kind[j] \in {"create", "update"} /\ load[j] \in Loads
           /\ SoundHere(j)
           /\ chunk = [chunk EXCEPT ![j] = chunk[j]]
           /\ progress = [progress EXCEPT ![j] = progress[j]]
           /\ row = [row EXCEPT ![j] = row[j]]
           /\ committed = [committed EXCEPT ![j] = committed[j]]
           /\ pc = [pc EXCEPT ![j] = pc[j]]
  BY DEF RInv, Fields, IInv, SoundHere

LEMMA EnqueueSound ==
    ASSUME RInv, IInv', NEW j \in Jobs, Enqueue(j) \/ EnqueueFails(j)
    PROVE  RInv'
<1>1. pc[j] = "request" /\ UNCHANGED <<inputs, chunk, progress, committed>>
  BY DEF Enqueue, EnqueueFails
<1>2. PICK place \in {"accepted", "refused"} : pc' = [pc EXCEPT ![j] = place]
  BY DEF Enqueue, EnqueueFails, Goto
<1>3. PICK r \in {row[j], Job("queued", Zero)} : row' = [row EXCEPT ![j] = r]
  BY FieldsHere DEF Enqueue, EnqueueFails, Write, MayWrite
<1>4. Sound(kind[j], load[j], place, chunk[j], progress[j], r, committed[j])
  <2>1. Sound(kind[j], load[j], "request", chunk[j], progress[j], row[j], committed[j])
    BY <1>1, FieldsHere DEF SoundHere
  <2>2. /\ Job("queued", Zero).status = "queued" /\ Job("queued", Zero).counts = Zero
        /\ Zero.success = 0
    BY DEF Zero, Counts, Job
  <2>3. Job("queued", Zero) \in Shape
    BY ZeroFits DEF Job, Shape
  <2>4. 0 <= committed[j]
    BY <2>1, UptoFacts, BatchNumbers DEF Sound, Tallied
  <2>. QED
    BY <2>1, <2>2, <2>3, <2>4 DEF Sound, Placed, Reported
<1>5. /\ inputs' = inputs
      /\ chunk' = [chunk EXCEPT ![j] = chunk[j]]
      /\ progress' = [progress EXCEPT ![j] = progress[j]]
      /\ committed' = [committed EXCEPT ![j] = committed[j]]
  BY <1>1, FieldsHere
<1>. QED
  BY <1>2, <1>3, <1>4, <1>5, OneJob

LEMMA AtMostSelf ==
    ASSUME NEW n \in CountsType PROVE AtMost(n, n)
  BY CountsAreNumbers DEF AtMost

LEMMA WaitSound ==
    ASSUME RInv, IInv', NEW j \in Jobs, WaitForSlot(j)
    PROVE  RInv'
<1>1. pc[j] = "accepted" /\ UNCHANGED <<inputs, chunk, progress, row, committed>>
  BY DEF WaitForSlot
<1>2. PICK place \in {"mark", "waiting"} : pc' = [pc EXCEPT ![j] = place]
  BY DEF WaitForSlot, Goto
<1>3. Sound(kind[j], load[j], place, chunk[j], progress[j], row[j], committed[j])
  BY <1>1, FieldsHere, ZeroFits, AtMostSelf
     DEF SoundHere, Sound, Placed, Reported
<1>4. /\ inputs' = inputs
      /\ chunk' = [chunk EXCEPT ![j] = chunk[j]]
      /\ progress' = [progress EXCEPT ![j] = progress[j]]
      /\ row' = [row EXCEPT ![j] = row[j]]
      /\ committed' = [committed EXCEPT ![j] = committed[j]]
  BY <1>1, FieldsHere
<1>. QED
  BY <1>2, <1>3, <1>4, OneJob

(* Waiting jobs become running ones; the job that released its slot is     *)
(* done.                                                                   *)
LEMMA ReleaseSound ==
    ASSUME RInv, IInv', NEW j \in Jobs, ReleaseSlot(j)
    PROVE  RInv'
<1>1. /\ pc[j] = "release" /\ Forget({j})
      /\ UNCHANGED <<inputs, row, committed>>
  BY DEF ReleaseSlot
<1>2. /\ \/ pc'[j] = "done"
      /\ \A i \in Jobs \ {j} : pc'[i] = pc[i] \/ (pc[i] = "waiting" /\ pc'[i] = "mark")
  <2>1. CASE Goto(j, "done")
    BY <2>1 DEF Goto, RInv, IInv
  <2>2. CASE /\ waiting # <<>>
             /\ pc' = [pc EXCEPT ![j] = "done", ![Head(waiting)] = "mark"]
    <3>1. 1 \in 1..Len(waiting) /\ Head(waiting) = waiting[1]
      BY <2>2 DEF RInv, IInv, Queued
    <3>2. pc[Head(waiting)] = "waiting" /\ Head(waiting) # j
      BY <1>1, <3>1 DEF RInv, IInv, Queued
    <3>. QED
      BY <2>2, <3>2 DEF RInv, IInv
  <2>. QED
    BY <2>1, <2>2 DEF ReleaseSlot
<1>3. /\ chunk'[j] = 1 /\ progress'[j] = Zero
      /\ \A i \in Jobs \ {j} : chunk'[i] = chunk[i] /\ progress'[i] = progress[i]
      /\ Fields'
  BY <1>1, ZeroFits, BatchNumbers DEF Forget, RInv, Fields, inputs
<1>4. ASSUME NEW i \in Jobs PROVE SoundHere(i)'
  <2>0. /\ kind' = kind /\ load' = load /\ row' = row /\ committed' = committed
    BY <1>1 DEF inputs
  <2>1. CASE i = j
    BY <1>1, <1>2, <1>3, <2>0, <2>1, FieldsHere, GoneSound DEF SoundHere
  <2>2. CASE i # j /\ pc'[i] = pc[i]
    BY <1>3, <2>0, <2>2, FieldsHere DEF SoundHere
  <2>3. CASE i # j /\ pc[i] = "waiting" /\ pc'[i] = "mark"
    BY <1>3, <2>0, <2>3, FieldsHere, ZeroFits, AtMostSelf
       DEF SoundHere, Sound, Placed, Reported
  <2>. QED
    BY <1>2, <2>1, <2>2, <2>3
<1>. QED
  BY <1>3, <1>4 DEF RInv, SoundHere

LEMMA MarkSound ==
    ASSUME NEW k, NEW l \in Loads, NEW c, NEW n, NEW r, NEW m,
           Sound(k, l, "mark", c, n, r, m)
    PROVE  \A place \in {"validate", "fail"} :
              Sound(k, l, place, c, n, Job("processing", r.counts), m)
<1>. DEFINE new == Job("processing", r.counts)
<1>1. /\ c = 1 /\ n = Zero /\ m = 0 /\ r.counts = Zero /\ Tallied(k, n, m)
  BY DEF Sound, Placed, Reported
<1>2. new.status = "processing" /\ new.counts = Zero /\ new \in Shape
  BY <1>1, ZeroFits DEF Job, Shape
<1>3. Zero.processed = 0 /\ Zero.success = 0 /\ AtMost(Zero, Zero)
  BY CountsFacts, ZeroFits, AtMostSelf DEF Zero
<1>4. Sums(l)[0] = 0 /\ Upto(0) \in Nat /\ 1 \in 1..Len(l) + 1
  BY LoadFacts, SumsCount, UptoFacts, BatchNumbers
<1>5. 1 \in 1..MaxChunks + 1
  BY BatchNumbers
<1>6. \A place \in {"validate", "fail"} : Placed(l, place, c, n, m)
  BY <1>1, <1>3, <1>4, <1>5 DEF Placed
<1>. HIDE DEF new
<1>7. \A place \in {"validate", "fail"} : Reported(k, l, place, n, new, m)
  BY <1>1, <1>2, <1>3 DEF Reported
<1>. QED
  BY <1>1, <1>6, <1>7 DEF Sound, new

LEMMA ValidateSound ==
    ASSUME RInv, IInv', NEW j \in Jobs, Validate(j)
    PROVE  RInv'
<1>0. PICK seen : seen = Add(progress[j], Counts(Here(j).bad, 0, Here(j).bad))
  OBVIOUS
<1>1. /\ pc[j] = "validate" /\ UNCHANGED <<inputs, row, committed>>
      /\ progress' = [progress EXCEPT ![j] = seen]
      /\ chunk[j] \in 1..Len(load[j]) /\ Here(j) = load[j][chunk[j]]
  <2>1. chunk[j] \in 1..Len(load[j]) + 1 /\ Len(load[j]) \in Nat
    <3>1. pc[j] = "validate"
      BY DEF Validate
    <3>. QED
      BY <3>1, FieldsHere, LoadFacts DEF SoundHere, Sound, Placed
  <2>2. chunk[j] <= Len(load[j])
    BY DEF Validate
  <2>3. chunk[j] \in 1..Len(load[j])
    BY <2>1, <2>2
  <2>4. progress' = [progress EXCEPT ![j] = seen]
    BY <1>0 DEF Validate, Count, RInv, Fields
  <2>. QED
    BY <2>3, <2>4 DEF Validate, Here
<1>2. Sound(kind[j], load[j], "validate", chunk[j], progress[j], row[j], committed[j])
  BY <1>1, FieldsHere DEF SoundHere
<1>3. CASE Here(j).good = 0 /\ chunk' = [chunk EXCEPT ![j] = @ + 1] /\ UNCHANGED pc
  <2>1. Sound(kind[j], load[j], "validate", chunk[j] + 1, seen, row[j], committed[j])
    BY <1>0, <1>1, <1>2, <1>3, FieldsHere, SkipSound
  <2>2. chunk' = [chunk EXCEPT ![j] = chunk[j] + 1]
    BY <1>3
  <2>3. /\ inputs' = inputs
        /\ pc' = [pc EXCEPT ![j] = "validate"]
        /\ row' = [row EXCEPT ![j] = row[j]]
        /\ committed' = [committed EXCEPT ![j] = committed[j]]
    BY <1>1, <1>3, FieldsHere
  <2>4. progress' = [progress EXCEPT ![j] = seen]
    BY <1>1
  <2>. QED
    BY <2>1, <2>2, <2>3, <2>4, OneJob
<1>4. CASE Here(j).good > 0 /\ Goto(j, "write") /\ UNCHANGED chunk
  <2>1. Sound(kind[j], load[j], "write", chunk[j], seen, row[j], committed[j])
    BY <1>0, <1>1, <1>2, <1>4, FieldsHere, SkipSound
  <2>2. /\ inputs' = inputs
        /\ pc' = [pc EXCEPT ![j] = "write"]
        /\ chunk' = [chunk EXCEPT ![j] = chunk[j]]
        /\ row' = [row EXCEPT ![j] = row[j]]
        /\ committed' = [committed EXCEPT ![j] = committed[j]]
    BY <1>1, <1>4, FieldsHere DEF Goto
  <2>3. progress' = [progress EXCEPT ![j] = seen]
    BY <1>1
  <2>. QED
    BY <2>1, <2>2, <2>3, OneJob
<1>. QED
  BY <1>3, <1>4 DEF Validate

LEMMA WriteKeepsSound ==
    ASSUME RInv, IInv', NEW j \in Jobs,
           CommitChunk(j) \/ RollbackChunk(j) \/ ThrowChunk(j)
    PROVE  RInv'
<1>0. PICK g : g = load[j][chunk[j]].good
  OBVIOUS
<1>1. /\ pc[j] = "write" /\ UNCHANGED <<inputs, chunk, row>> /\ Here(j).good = g
  BY <1>0 DEF CommitChunk, RollbackChunk, ThrowChunk, Here
<1>2. Sound(kind[j], load[j], "write", chunk[j], progress[j], row[j], committed[j])
  BY <1>1, FieldsHere DEF SoundHere
<1>3. g \in Nat /\ g > 0 /\ committed[j] \in Nat
  <2>1. chunk[j] \in 1..Len(load[j]) /\ g > 0
    BY <1>0, <1>2 DEF Sound, Placed
  <2>2. committed[j] \in Nat
    BY <1>2, UptoFacts, BatchNumbers DEF Sound, Tallied
  <2>. QED
    BY <1>0, <2>1, <2>2, FieldsHere, ChunkFacts DEF ChunkOK
<1>4. ASSUME NEW s \in Nat, NEW e \in Nat, NEW dm \in {0, g},
             s <= dm, s + e \in 1..g, kind[j] = "create" => s + e = g,
             committed' = [committed EXCEPT ![j] = committed[j] + dm],
             \/ /\ pc' = [pc EXCEPT ![j] = "save"]
                /\ progress' = [progress EXCEPT
                                  ![j] = Add(progress[j], Counts(g, s, e))]
             \/ /\ pc' = [pc EXCEPT ![j] = "fail"]
                /\ UNCHANGED progress
      PROVE  RInv'
  <2>1. /\ Sound(kind[j], load[j], "save", chunk[j],
                 Add(progress[j], Counts(g, s, e)), row[j], committed[j] + dm)
        /\ Sound(kind[j], load[j], "fail", chunk[j], progress[j], row[j],
                 committed[j] + dm)
    <3>1. load[j] \in Loads
      BY FieldsHere
    <3>. QED
      BY <1>0, <1>2, <1>4, <3>1, WriteSound
  <2>2. /\ inputs' = inputs
        /\ chunk' = [chunk EXCEPT ![j] = chunk[j]]
        /\ row' = [row EXCEPT ![j] = row[j]]
    BY <1>1, FieldsHere
  <2>3. CASE /\ pc' = [pc EXCEPT ![j] = "save"]
             /\ progress' = [progress EXCEPT
                               ![j] = Add(progress[j], Counts(g, s, e))]
    BY <1>4, <2>1, <2>2, <2>3, OneJob
  <2>4. CASE pc' = [pc EXCEPT ![j] = "fail"] /\ UNCHANGED progress
    <3>1. progress' = [progress EXCEPT ![j] = progress[j]]
      BY <2>4, FieldsHere
    <3>. QED
      BY <1>4, <2>1, <2>2, <2>4, <3>1, OneJob
  <2>. QED
    BY <1>4, <2>3, <2>4
<1>5. CASE CommitChunk(j)
  <2>1. PICK matched \in 0..g :
           progress' = [progress EXCEPT
              ![j] = Add(progress[j], Counts(g, Success(j, matched), 0))]
    BY <1>1, <1>5 DEF CommitChunk, Count, RInv, Fields
  <2>. DEFINE s == Success(j, matched)
  <2>2. s \in 1..g /\ (kind[j] = "create" => s = g)
    BY <1>1, <1>3 DEF Success
  <2>. HIDE DEF s
  <2>3. s \in Nat /\ 0 \in Nat /\ s <= g /\ s + 0 \in 1..g
        /\ (kind[j] = "create" => s + 0 = g)
    BY <1>3, <2>2
  <2>4. /\ committed' = [committed EXCEPT ![j] = committed[j] + g]
        /\ pc' = [pc EXCEPT ![j] = "save"]
    BY <1>1, <1>5 DEF CommitChunk, Goto
  <2>5. progress' = [progress EXCEPT ![j] = Add(progress[j], Counts(g, s, 0))]
    BY <2>1 DEF s
  <2>. QED
    BY <1>4, <2>3, <2>4, <2>5
<1>6. CASE RollbackChunk(j) \/ ThrowChunk(j)
  <2>1. PICK dm \in {0, g} : committed' = [committed EXCEPT ![j] = committed[j] + dm]
    <3>1. committed = [committed EXCEPT ![j] = committed[j] + 0]
      BY <1>3, FieldsHere
    <3>2. committed' \in {committed, [committed EXCEPT ![j] = committed[j] + g]}
      BY <1>1, <1>6 DEF RollbackChunk, ThrowChunk, MayCommit
    <3>. QED
      BY <3>1, <3>2
  <2>2. 0 \in Nat /\ 0 <= dm /\ 0 + g \in 1..g /\ 0 + g = g
    BY <1>3
  <2>3. \/ /\ pc' = [pc EXCEPT ![j] = "save"]
           /\ progress' = [progress EXCEPT
                             ![j] = Add(progress[j], Counts(g, 0, g))]
        \/ pc' = [pc EXCEPT ![j] = "fail"] /\ UNCHANGED progress
    BY <1>1, <1>6
       DEF RollbackChunk, ThrowChunk, Count, CountFailed, Goto, RInv, Fields
  <2>. QED
    BY <1>3, <1>4, <2>1, <2>2, <2>3
<1>. QED
  BY <1>5, <1>6
LEMMA FinalRowIsFinal ==
    ASSUME NEW j \in Jobs
    PROVE  FinalRow(j) = Final(kind[j], progress[j], row[j])
  BY DEF FinalRow, FinalStatus, Final

(* What a statement writes in the row, or would have written: the counts   *)
(* it had or newer ones, and a status that no ended job loses.             *)
LEMMA RowSteps ==
    ASSUME RInv, IInv', NEW j \in Jobs,
           \/ MarkProcessing(j) \/ SaveProgress(j) \/ Finish(j)
           \/ StatementFails(j) \/ FailJob(j)
    PROVE  /\ RInv'
           /\ \E r \in Shape : /\ row' = [row EXCEPT ![j] = r]
                               /\ AtMost(row[j].counts, r.counts)
                               /\ row[j].status \in {"completed", "failed"} =>
                                     r.status \in {"completed", "failed"}
<1>. DEFINE Wrote(r) ==
       /\ r \in Shape /\ row' = [row EXCEPT ![j] = r]
       /\ AtMost(row[j].counts, r.counts)
       /\ row[j].status \in {"completed", "failed"} =>
             r.status \in {"completed", "failed"}
<1>1. /\ Sound(kind[j], load[j], pc[j], chunk[j], progress[j], row[j], committed[j])
      /\ load[j] \in Loads /\ row[j] \in Shape /\ row[j].counts \in CountsType
  BY FieldsHere DEF SoundHere, Sound, Reported, Shape
<1>2. /\ inputs' = inputs
      /\ progress' = [progress EXCEPT ![j] = progress[j]]
      /\ committed' = [committed EXCEPT ![j] = committed[j]]
  BY FieldsHere DEF MarkProcessing, SaveProgress, Finish, StatementFails, FailJob
<1>3. AtMost(row[j].counts, row[j].counts) /\ row = [row EXCEPT ![j] = row[j]]
  BY <1>1, AtMostSelf, FieldsHere
<1>4. ASSUME NEW place, NEW c, NEW r,
             pc' = [pc EXCEPT ![j] = place], chunk' = [chunk EXCEPT ![j] = c],
             row' = [row EXCEPT ![j] = r],
             Sound(kind[j], load[j], place, c, progress[j], r, committed[j]),
             AtMost(row[j].counts, r.counts),
             row[j].status \in {"completed", "failed"} =>
                r.status \in {"completed", "failed"}
      PROVE  RInv' /\ Wrote(r)
  <2>1. r \in Shape
    BY <1>4 DEF Sound, Reported
  <2>. QED
    BY <1>2, <1>4, <2>1, OneJob
<1>5. CASE pc[j] = "mark"
  <2>. DEFINE new == Job("processing", row[j].counts)
  <2>1. PICK r \in {row[j], new}, place \in {"validate", "fail"} :
           /\ row' = [row EXCEPT ![j] = r] /\ pc' = [pc EXCEPT ![j] = place]
           /\ place = "validate" => r = new
    BY <1>3, <1>5 DEF MarkProcessing, SaveProgress, Finish, StatementFails,
                      FailJob, Write, MayWrite, Goto
  <2>2. chunk' = [chunk EXCEPT ![j] = chunk[j]]
    BY <1>5, FieldsHere DEF MarkProcessing, SaveProgress, Finish, StatementFails, FailJob
  <2>3. Sound(kind[j], load[j], place, chunk[j], progress[j], new, committed[j])
    BY <1>1, <1>5, MarkSound
  <2>4. Sound(kind[j], load[j], "fail", chunk[j], progress[j], row[j], committed[j])
    BY <1>1, <1>5 DEF Sound, Placed, Reported
  <2>5. new.counts = row[j].counts
    BY DEF Job
  <2>6. row[j].status \notin {"completed", "failed"}
    BY <1>1, <1>5 DEF Sound, Reported
  <2>7. AtMost(row[j].counts, r.counts)
    BY <1>3, <2>1, <2>5
  <2>8. Sound(kind[j], load[j], place, chunk[j], progress[j], r, committed[j])
    BY <2>1, <2>3, <2>4
  <2>. HIDE DEF new
  <2>. QED
    BY <1>4, <2>1, <2>2, <2>6, <2>7, <2>8
<1>6. CASE pc[j] = "save"
  <2>. DEFINE new == Saved(j)
  <2>1. PICK r \in {row[j], new}, place \in {"validate", "fail"} :
           /\ row' = [row EXCEPT ![j] = r] /\ pc' = [pc EXCEPT ![j] = place]
           /\ chunk' = [chunk EXCEPT ![j] =
                 IF place = "validate" THEN chunk[j] + 1 ELSE chunk[j]]
           /\ place = "validate" => r = new
    BY <1>3, <1>6, FieldsHere
       DEF MarkProcessing, SaveProgress, Finish, StatementFails,
           FailJob, Write, MayWrite, Goto
  <2>2. /\ Sound(kind[j], load[j], "validate", chunk[j] + 1, progress[j], new, committed[j])
        /\ Sound(kind[j], load[j], "fail", chunk[j], progress[j], new, committed[j])
        /\ AtMost(row[j].counts, progress[j])
    BY <1>1, <1>6, SaveSound DEF Saved
  <2>3. Sound(kind[j], load[j], "fail", chunk[j], progress[j], row[j], committed[j])
    BY <1>1, <1>6 DEF Sound, Placed, Reported
  <2>4. new.counts = progress[j]
    BY DEF Saved, Job
  <2>5. row[j].status \notin {"completed", "failed"}
    BY <1>1, <1>6 DEF Sound, Reported
  <2>6. AtMost(row[j].counts, r.counts)
    BY <1>3, <2>1, <2>2, <2>4
  <2>. HIDE DEF new
  <2>7. CASE place = "validate"
    <3>1. chunk' = [chunk EXCEPT ![j] = chunk[j] + 1]
      BY <2>1, <2>7
    <3>. QED
      BY <1>4, <2>1, <2>2, <2>5, <2>6, <2>7, <3>1
  <2>8. CASE place = "fail"
    <3>1. /\ chunk' = [chunk EXCEPT ![j] = chunk[j]]
          /\ Sound(kind[j], load[j], "fail", chunk[j], progress[j], r, committed[j])
      BY <2>1, <2>2, <2>3, <2>8
    <3>. QED
      BY <1>4, <2>1, <2>5, <2>6, <2>8, <3>1
  <2>. QED
    BY <2>7, <2>8
<1>7. CASE pc[j] = "validate"
  <2>. DEFINE new == FinalRow(j)
  <2>1. PICK r \in {row[j], new}, place \in {"release", "fail"} :
           /\ row' = [row EXCEPT ![j] = r] /\ pc' = [pc EXCEPT ![j] = place]
           /\ place = "release" => r = new
    BY <1>3, <1>7 DEF MarkProcessing, SaveProgress, Finish, StatementFails,
                      FailJob, Write, MayWrite, Goto
  <2>2. /\ chunk' = [chunk EXCEPT ![j] = chunk[j]] /\ chunk[j] > Len(load[j])
    BY <1>7, FieldsHere DEF MarkProcessing, SaveProgress, Finish, StatementFails, FailJob
  <2>3. /\ \A p \in {"release", "fail"} :
              Sound(kind[j], load[j], p, chunk[j], progress[j], new, committed[j])
        /\ AtMost(row[j].counts, new.counts)
    BY <1>1, <1>7, <2>2, FinalSound, FinalRowIsFinal
  <2>4. Sound(kind[j], load[j], "fail", chunk[j], progress[j], row[j], committed[j])
    BY <1>1, <1>7 DEF Sound, Placed, Reported
  <2>5. row[j].status \notin {"completed", "failed"}
    BY <1>1, <1>7 DEF Sound, Reported
  <2>. HIDE DEF new
  <2>6. AtMost(row[j].counts, r.counts)
    BY <1>3, <2>1, <2>3
  <2>7. Sound(kind[j], load[j], place, chunk[j], progress[j], r, committed[j])
    BY <2>1, <2>3, <2>4
  <2>. QED
    BY <1>4, <2>1, <2>2, <2>5, <2>6, <2>7
<1>8. CASE pc[j] = "fail"
  <2>. DEFINE new == Job("failed", row[j].counts)
  <2>1. PICK r \in {row[j], new} :
           row' = [row EXCEPT ![j] = r] /\ pc' = [pc EXCEPT ![j] = "release"]
    BY <1>3, <1>8 DEF MarkProcessing, SaveProgress, Finish, StatementFails,
                      FailJob, Write, MayWrite, Goto
  <2>2. chunk' = [chunk EXCEPT ![j] = chunk[j]]
    BY <1>8, FieldsHere DEF MarkProcessing, SaveProgress, Finish, StatementFails, FailJob
  <2>3. new.counts = row[j].counts /\ new.status = "failed" /\ new \in Shape
    BY <1>1 DEF Job, Shape
  <2>. HIDE DEF new
  <2>4. Sound(kind[j], load[j], "release", chunk[j], progress[j], r, committed[j])
    BY <1>1, <1>8, <2>1, <2>3 DEF Sound, Placed, Reported
  <2>5. AtMost(row[j].counts, r.counts)
    BY <1>3, <2>1, <2>3
  <2>6. row[j].status \in {"completed", "failed"} => r.status \in {"completed", "failed"}
    BY <2>1, <2>3
  <2>. QED
    BY <1>4, <2>1, <2>2, <2>4, <2>5, <2>6
<1>9. pc[j] \in {"mark", "save", "validate", "fail"}
  BY DEF MarkProcessing, SaveProgress, Finish, StatementFails, FailJob
<1>. QED
  BY <1>5, <1>6, <1>7, <1>8, <1>9

LEMMA CrashSound == ASSUME RInv, IInv', Crash PROVE RInv'
<1>1. /\ UNCHANGED <<inputs, row, committed>>
      /\ chunk' = [j \in Jobs |-> 1] /\ progress' = [j \in Jobs |-> Zero]
  BY DEF Crash, Forget
<1>2. Fields'
  BY <1>1, ZeroFits, BatchNumbers DEF RInv, Fields, inputs
<1>3. ASSUME NEW j \in Jobs PROVE SoundHere(j)'
  <2>1. /\ kind' = kind /\ load' = load /\ row' = row /\ committed' = committed
        /\ chunk'[j] = 1 /\ progress'[j] = Zero
    BY <1>1 DEF inputs
  <2>2. CASE pc'[j] = "gone"
    BY <2>1, <2>2, FieldsHere, GoneSound DEF SoundHere
  <2>3. CASE pc'[j] = pc[j] /\ pc[j] \in Ended
    <3>1. /\ Tallied(kind[j], Zero, committed[j])
          /\ Placed(load[j], "gone", 1, Zero, committed[j])
      BY FieldsHere, GoneSound DEF SoundHere, Sound
    <3>2. Sound(kind[j], load[j], pc[j], 1, Zero, row[j], committed[j])
      BY <2>3, <3>1, FieldsHere DEF Ended, SoundHere, Sound, Placed, Reported
    <3>. QED
      BY <2>1, <2>3, <3>2 DEF SoundHere
  <2>. QED
    BY <2>2, <2>3 DEF Crash, Live
<1>. QED
  BY <1>2, <1>3 DEF RInv, SoundHere

LEMMA InitSound == Init => RInv
<1>. SUFFICES ASSUME Init PROVE RInv
  OBVIOUS
<1>1. NoRow.status = "none" /\ NoRow.counts = Zero /\ NoRow \in Shape
  BY ZeroFits DEF NoRow, Job, Shape
<1>2. Zero.processed = 0 /\ Zero.success = 0 /\ Zero.errors = 0
  BY DEF Zero, Counts
<1>3. 1 \in 1..MaxChunks + 1 /\ 0 \in 0..MaxRecords
  BY UptoFacts, BatchNumbers
<1>4. Fields
  BY <1>1, <1>3, ZeroFits DEF Init, Fields
<1>. HIDE DEF NoRow
<1>5. ASSUME NEW j \in Jobs PROVE SoundHere(j)
  <2>1. /\ pc[j] = "request" /\ chunk[j] = 1 /\ progress[j] = Zero
        /\ row[j] = NoRow /\ committed[j] = 0
    BY DEF Init
  <2>2. Tallied(kind[j], Zero, 0)
    BY <1>2, <1>3, ZeroFits DEF Tallied
  <2>3. Placed(load[j], "request", 1, Zero, 0)
    BY <1>3 DEF Placed
  <2>4. Reported(kind[j], load[j], "request", Zero, NoRow, 0)
    BY <1>1, <1>2 DEF Reported
  <2>. QED
    BY <2>1, <2>2, <2>3, <2>4 DEF SoundHere, Sound
<1>. QED
  BY <1>4, <1>5, InitIsAccounted DEF RInv, SoundHere

LEMMA NextSound == RInv /\ [Next]_vars => RInv'
<1>. SUFFICES ASSUME RInv, [Next]_vars PROVE RInv'
  OBVIOUS
<1>1. IInv'
  BY NextKeeps DEF RInv
<1>2. ASSUME NEW j \in Jobs, Enqueue(j) \/ EnqueueFails(j) PROVE RInv'
  BY <1>1, <1>2, EnqueueSound
<1>3. ASSUME NEW j \in Jobs, Run(j) PROVE RInv'
  BY <1>1, <1>3, WaitSound, ReleaseSound, ValidateSound, WriteKeepsSound, RowSteps
     DEF Run
<1>4. CASE UNCHANGED vars
  <2>1. /\ kind' = kind /\ load' = load /\ pc' = pc /\ chunk' = chunk
        /\ progress' = progress /\ row' = row /\ committed' = committed
    BY <1>4 DEF vars, inputs
  <2>. QED
    BY <1>1, <2>1 DEF RInv, Fields
<1>. QED
  BY <1>1, <1>2, <1>3, <1>4, CrashSound DEF Next

(* However its statements fail and whenever the process dies, the counts   *)
(* of a job are those of the chunks it has seen, and its row lags behind   *)
(* them and behind what was committed (batch-queue.ts:61-300).             *)
THEOREM CountsStaySound == Spec => []RInv
  BY InitSound, NextSound, PTL DEF Spec

-----------------------------------------------------------------------------
(* The records up to a chunk are no more than those of the whole load.     *)
LEMMA SumsGrow ==
    ASSUME NEW l \in Seq(Chunks), NEW c \in 0..Len(l)
    PROVE  Sums(l)[c] <= Sums(l)[Len(l)]
<1>. DEFINE T == {n \in Nat : n <= Len(l) => Sums(l)[Len(l) - n] <= Sums(l)[Len(l)]}
<1>1. Len(l) \in Nat /\ \A i \in 0..Len(l) : Sums(l)[i] \in Nat
  BY SumsCount
<1>2. 0 \in T
  BY <1>1
<1>3. ASSUME NEW n \in T PROVE n + 1 \in T
  <2>. SUFFICES ASSUME n + 1 <= Len(l)
                PROVE  Sums(l)[Len(l) - (n + 1)] <= Sums(l)[Len(l)]
    BY <1>3
  <2>1. PICK i \in 1..Len(l) : i = Len(l) - n
    BY <1>1, <1>3
  <2>2. Sums(l)[i] <= Sums(l)[Len(l)]
    BY <1>1, <1>3, <2>1
  <2>3. l[i].good \in Nat /\ l[i].bad \in Nat
    <3>1. l[i] \in Chunks
      OBVIOUS
    <3>. QED
      BY <3>1, BatchNumbers DEF Chunks
  <2>4. Sums(l)[i] = Sums(l)[i - 1] + l[i].good + l[i].bad
    BY SumsCount
  <2>5. i - 1 = Len(l) - (n + 1) /\ i - 1 \in 0..Len(l) /\ Len(l) \in 0..Len(l)
        /\ i \in 0..Len(l)
    BY <1>1, <1>3, <2>1
  <2>. HIDE DEF T
  <2>6. Sums(l)[i - 1] \in Nat /\ Sums(l)[i] \in Nat /\ Sums(l)[Len(l)] \in Nat
    BY <1>1, <2>5
  <2>. QED
    BY <2>2, <2>3, <2>4, <2>5, <2>6
<1>4. T = Nat
  <2>. HIDE DEF T
  <2>1. T \in SUBSET Nat
    BY DEF T
  <2>. QED
    BY <1>2, <1>3, <2>1, NatSet
<1>5. Len(l) - c \in T /\ Len(l) - (Len(l) - c) = c /\ Len(l) - c <= Len(l)
  <2>. HIDE DEF T
  <2>. QED
    BY <1>1, <1>4
<1>. QED
  BY <1>5

(* What a job has counted, and what its row says of it, is of its own      *)
(* records only.                                                           *)
BInv == \A j \in Jobs : Within(progress[j], j) /\ Within(row[j].counts, j)

LEMMA TotalFacts ==
    ASSUME NEW j \in Jobs, load[j] \in Loads
    PROVE  /\ Total(j) \in Nat
           /\ \A c \in 0..Len(load[j]) : Sums(load[j])[c] \in Nat
                                         /\ Sums(load[j])[c] <= Total(j)
<1>. PICK l \in Loads : l = load[j]
  OBVIOUS
<1>1. l \in Seq(Chunks) /\ Len(l) \in Nat
  BY LoadFacts
<1>2. \A c \in 0..Len(l) : Sums(l)[c] \in Nat /\ Sums(l)[c] <= Sums(l)[Len(l)]
  BY <1>1, SumsCount, SumsGrow
<1>. QED
  BY <1>1, <1>2, TotalIsSum

LEMMA ZeroWithin == ASSUME NEW j \in Jobs, load[j] \in Loads PROVE Within(Zero, j)
  BY TotalFacts, CountsFacts DEF Within, Zero

(* While a job counts, its place tells how many records it has seen.       *)
LEMMA CountingWithin ==
    ASSUME RInv, NEW j \in Jobs, pc[j] \in {"validate", "write", "save"}
    PROVE  Within(progress[j], j)
<1>. PICK l \in Loads, c \in 1..MaxChunks + 1, n \in CountsType :
       l = load[j] /\ c = chunk[j] /\ n = progress[j]
  BY DEF RInv, Fields
<1>1. /\ Tallied(kind[j], n, committed[j]) /\ Placed(l, pc[j], c, n, committed[j])
  BY DEF RInv, Sound
<1>2. n.success + n.errors <= n.processed /\ Total(j) \in Nat
  BY <1>1, TotalFacts DEF Tallied
<1>3. Len(l) \in Nat /\ \A i \in 0..Len(l) : Sums(l)[i] \in Nat /\ Sums(l)[i] <= Total(j)
  BY LoadFacts, TotalFacts
<1>4. CASE pc[j] \in {"validate", "save"}
  <2>1. \E i \in 0..Len(l) : n.processed = Sums(l)[i]
    <3>1. c \in 1..Len(l) + 1 => c - 1 \in 0..Len(l)
      BY <1>3
    <3>2. c \in 1..Len(l) => c \in 0..Len(l)
      BY <1>3
    <3>. QED
      BY <1>1, <1>4, <3>1, <3>2 DEF Placed
  <2>. QED
    BY <1>2, <1>3, <2>1 DEF Within
<1>5. CASE pc[j] = "write"
  <2>1. c \in 1..Len(l) /\ n.processed = Sums(l)[c - 1] + l[c].bad
    BY <1>1, <1>5 DEF Placed
  <2>2. /\ Sums(l)[c] = Sums(l)[c - 1] + l[c].good + l[c].bad
        /\ l[c].good \in Nat /\ l[c].bad \in Nat /\ Sums(l)[c - 1] \in Nat
    BY <2>1, ChunkFacts DEF ChunkOK
  <2>3. Sums(l)[c] <= Total(j) /\ Sums(l)[c] \in Nat
    BY <1>3, <2>1
  <2>4. n.processed <= Total(j)
    BY <1>2, <2>1, <2>2, <2>3
  <2>. QED
    BY <1>2, <2>4 DEF Within
<1>. QED
  BY <1>4, <1>5

CountingInv ==
    \A j \in Jobs : pc[j] \in {"validate", "write", "save"} => Within(progress[j], j)

LEMMA CountingHolds == RInv => CountingInv
  BY CountingWithin DEF CountingInv

LEMMA WithinStep ==
    ASSUME RInv, RInv', BInv, [Next]_vars
    PROVE  BInv'
<1>1. load' = load
  BY DEF Next, Run, Enqueue, EnqueueFails, WaitForSlot, MarkProcessing, Validate,
         CommitChunk, RollbackChunk, ThrowChunk, SaveProgress, Finish,
         StatementFails, FailJob, ReleaseSlot, Crash, inputs, vars
<1>2. \A j \in Jobs : \A n : Within(n, j) => Within(n, j)'
  BY <1>1 DEF Within, Total
<1>3. \A j \in Jobs : Within(Zero, j)'
  BY <1>2, ZeroWithin DEF RInv, Fields
<1>4. \A j \in Jobs : row'[j].counts \in {row[j].counts, progress[j], Zero}
  <2>1. \A s, n : Job(s, n).counts = n
    BY DEF Job
  <2>2. row \in [Jobs -> Shape]
    BY DEF RInv, Fields
  <2>3. ASSUME NEW i \in Jobs, NEW r, r.counts \in {row[i].counts, progress[i], Zero},
               row' = [row EXCEPT ![i] = r]
        PROVE  \A j \in Jobs : row'[j].counts \in {row[j].counts, progress[j], Zero}
    BY <2>2, <2>3
  <2>4. CASE row' = row
    BY <2>4
  <2>5. ASSUME NEW i \in Jobs, Enqueue(i) \/ EnqueueFails(i) \/ FailJob(i)
        PROVE  \A j \in Jobs : row'[j].counts \in {row[j].counts, progress[j], Zero}
    <3>1. row' = row \/ \E r : row' = [row EXCEPT ![i] = r]
                               /\ r.counts \in {row[i].counts, Zero}
      BY <2>1, <2>5 DEF Enqueue, EnqueueFails, FailJob, Write, MayWrite
    <3>. QED
      BY <2>3, <2>4, <3>1
  <2>6. ASSUME NEW i \in Jobs,
               MarkProcessing(i) \/ SaveProgress(i) \/ Finish(i) \/ StatementFails(i)
        PROVE  \A j \in Jobs : row'[j].counts \in {row[j].counts, progress[j], Zero}
    <3>1. row' = row \/ \E r : row' = [row EXCEPT ![i] = r]
                               /\ r.counts \in {row[i].counts, progress[i]}
      BY <2>1, <2>6 DEF MarkProcessing, SaveProgress, Finish, StatementFails, Write,
                        MayWrite, Saved, FinalRow
    <3>. QED
      BY <2>3, <2>4, <3>1
  <2>. QED
    BY <2>4, <2>5, <2>6
       DEF Next, Run, WaitForSlot, Validate, CommitChunk, RollbackChunk, ThrowChunk,
           ReleaseSlot, Crash, vars
<1>5. \A j \in Jobs : \/ pc'[j] \in {"validate", "write", "save"}
                      \/ progress'[j] \in {progress[j], Zero}
  <2>1. progress \in [Jobs -> CountsType] /\ pc \in [Jobs -> JobPlaces]
    BY DEF RInv, IInv, Fields
  <2>2. CASE progress' = progress
    BY <2>2
  <2>3. ASSUME NEW i \in Jobs, Validate(i) \/ CommitChunk(i) \/ RollbackChunk(i)
        PROVE  /\ pc'[i] \in {"validate", "write", "save"}
               /\ \A j \in Jobs : j # i => progress'[j] = progress[j]
    BY <2>1, <2>3 DEF Validate, CommitChunk, RollbackChunk, Goto, Count
  <2>4. ASSUME NEW js, Forget(js)
        PROVE  \A j \in Jobs : progress'[j] \in {progress[j], Zero}
    BY <2>4 DEF Forget
  <2>. QED
    BY <2>2, <2>3, <2>4
       DEF Next, Run, Enqueue, EnqueueFails, WaitForSlot, MarkProcessing, ThrowChunk,
           SaveProgress, Finish, StatementFails, FailJob, ReleaseSlot, Crash, vars
<1>6. ASSUME NEW j \in Jobs PROVE Within(progress[j], j)'
  <2>1. CASE pc'[j] \in {"validate", "write", "save"}
    <3>1. CountingInv'
      BY CountingHolds, PTL
    <3>. QED
      BY <2>1, <3>1 DEF CountingInv
  <2>2. CASE progress'[j] \in {progress[j], Zero}
    <3>1. PICK n : n = progress'[j]
      OBVIOUS
    <3>2. Within(n, j)'
      BY <1>2, <1>3, <2>2, <3>1 DEF BInv
    <3>. QED
      BY <3>1, <3>2 DEF Within
  <2>. QED
    BY <1>5, <2>1, <2>2
<1>7. ASSUME NEW j \in Jobs PROVE Within(row[j].counts, j)'
  <2>1. PICK n : n = row'[j].counts
    OBVIOUS
  <2>2. Within(n, j)'
    BY <1>2, <1>3, <1>4, <2>1 DEF BInv
  <2>. QED
    BY <2>1, <2>2 DEF Within
<1>. QED
  BY <1>6, <1>7 DEF BInv

LEMMA WithinInit == Init => BInv
<1>. SUFFICES ASSUME Init PROVE BInv
  OBVIOUS
<1>1. ASSUME NEW j \in Jobs
      PROVE  /\ Within(Zero, j) /\ progress[j] = Zero /\ row[j].counts = Zero
  BY ZeroWithin DEF Init, NoRow, Job
<1>. QED
  BY <1>1 DEF BInv

(* Every variable keeps its type, and neither the counts in memory nor     *)
(* those of the row that clients poll exceed the records of their own job, *)
(* however statements fail, are lost or the process dies                   *)
(* (batch-queue.ts:57-208).                                                *)
THEOREM BatchTyped == Spec => []TypeOK
<1>1. RInv /\ BInv => TypeOK
  <2>. SUFFICES ASSUME RInv, BInv PROVE TypeOK
    OBVIOUS
  <2>1. active \in 0..Slots
    BY BatchNumbers DEF RInv, IInv, Taken
  <2>. QED
    BY <2>1 DEF RInv, IInv, Fields, Queued, JobPlaces, Shape, BInv, TypeOK
<1>2. RInv /\ RInv' /\ BInv /\ [Next]_vars => BInv'
  BY WithinStep
<1>. QED
  BY <1>1, <1>2, CountsStaySound, WithinInit, PTL DEF Spec

(* No job of any load reports a success that was not committed, or calls   *)
(* itself completed with nothing committed.                                *)
THEOREM ClaimsHold == Spec => []ClaimsAreCommitted
<1>1. RInv => ClaimsAreCommitted
  BY DEF RInv, Sound, Reported, ClaimsAreCommitted
<1>. QED
  BY <1>1, CountsStaySound, PTL

(* A completed create of any number of chunks accounts for every record:   *)
(* the recursive sum over its load is what it processed, and is split into *)
(* successes and errors.                                                   *)
THEOREM CreatesAddUp == Spec => []CompletedCreatesAddUp
<1>1. RInv => CompletedCreatesAddUp
  BY TotalIsSum DEF RInv, Sound, Reported, CompletedCreatesAddUp
<1>. QED
  BY <1>1, CountsStaySound, PTL

(* What a client polls only grows, and an ended job stays ended.           *)
THEOREM ReportsGrow == Spec => ReportsOnlyGrow
<1>. DEFINE Grows(j) ==
       /\ row[j].counts.processed <= row'[j].counts.processed
       /\ row[j].counts.success <= row'[j].counts.success
       /\ row[j].counts.errors <= row'[j].counts.errors
       /\ row[j].status \in {"completed", "failed"} =>
             row'[j].status \in {"completed", "failed"}
<1>1. ASSUME RInv, row' = row, NEW i \in Jobs PROVE Grows(i)
  <2>1. row[i].counts \in CountsType
    BY <1>1 DEF RInv, Fields, Shape
  <2>. QED
    BY <1>1, <2>1, CountsAreNumbers
<1>2. ASSUME RInv, NEW j \in Jobs, NEW r \in Shape, row' = [row EXCEPT ![j] = r],
             AtMost(row[j].counts, r.counts),
             row[j].status \in {"completed", "failed"} =>
                r.status \in {"completed", "failed"},
             NEW i \in Jobs
      PROVE  Grows(i)
  <2>1. row[i].counts \in CountsType /\ (i # j => row'[i] = row[i]) /\ row'[j] = r
    BY <1>2 DEF RInv, Fields, Shape
  <2>. QED
    BY <1>2, <2>1, CountsAreNumbers DEF AtMost
<1>3. ASSUME RInv, NEW j \in Jobs, Enqueue(j) \/ EnqueueFails(j), NEW i \in Jobs
      PROVE  Grows(i)
  <2>1. pc[j] = "request"
    BY <1>3 DEF Enqueue, EnqueueFails
  <2>2. row[j].counts = Zero /\ row[j].status \notin {"completed", "failed"}
    BY <1>3, <2>1, FieldsHere DEF SoundHere, Sound, Reported
  <2>3. /\ Job("queued", Zero) \in Shape /\ Job("queued", Zero).counts = Zero
    BY ZeroFits DEF Job, Shape
  <2>4. AtMost(Zero, Zero)
    BY ZeroFits, AtMostSelf
  <2>5. row' = row \/ row' = [row EXCEPT ![j] = Job("queued", Zero)]
    BY <1>3 DEF Enqueue, EnqueueFails, Write, MayWrite
  <2>. QED
    BY <1>1, <1>2, <1>3, <2>2, <2>3, <2>4, <2>5
<1>4. ASSUME RInv, [Next]_vars, NEW i \in Jobs PROVE Grows(i)
  <2>0. IInv'
    BY <1>4, NextKeeps DEF RInv
  <2>1. ASSUME NEW j \in Jobs, Run(j) PROVE Grows(i)
    <3>1. CASE \/ MarkProcessing(j) \/ SaveProgress(j) \/ Finish(j)
               \/ StatementFails(j) \/ FailJob(j)
      BY <1>2, <1>4, <2>0, <3>1, RowSteps
    <3>2. CASE \/ WaitForSlot(j) \/ Validate(j) \/ CommitChunk(j)
               \/ RollbackChunk(j) \/ ThrowChunk(j) \/ ReleaseSlot(j)
      <4>1. row' = row
        BY <3>2 DEF WaitForSlot, Validate, CommitChunk, RollbackChunk,
                    ThrowChunk, ReleaseSlot
      <4>. QED
        BY <1>1, <1>4, <4>1
    <3>. QED
      BY <2>1, <3>1, <3>2 DEF Run
  <2>2. CASE Crash \/ UNCHANGED vars
    <3>1. row' = row
      BY <2>2 DEF Crash, vars
    <3>. QED
      BY <1>1, <1>4, <3>1
  <2>. QED
    BY <1>3, <1>4, <2>1, <2>2 DEF Next
<1>5. RInv /\ [Next]_vars =>
        [\A j \in Jobs :
          /\ row[j].counts.processed <= row'[j].counts.processed
          /\ row[j].counts.success <= row'[j].counts.success
          /\ row[j].counts.errors <= row'[j].counts.errors
          /\ row[j].status \in {"completed", "failed"} =>
                row'[j].status \in {"completed", "failed"}]_vars
  BY <1>4
<1>. QED
  BY <1>5, CountsStaySound, PTL DEF Spec, ReportsOnlyGrow
=============================================================================
