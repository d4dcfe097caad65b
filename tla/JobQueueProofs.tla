--------------------------- MODULE JobQueueProofs ---------------------------
(***************************************************************************)
(* Proofs about JobQueue, for any jobs, loops, processes and limits.       *)
(*                                                                         *)
(* QueueInv is inductive: the type of attempts and of job_results needs    *)
(* the retry budget, the retry budget needs that a busy loop holds a job   *)
(* that was dequeued, and the claim about the purge needs the relation of  *)
(* lock and age, which dequeue() sets together.                            *)
(***************************************************************************)
EXTENDS JobQueue, TLAPS

\* A busy loop holds a job that was inserted and dequeued at least once.
HoldersHaveJobs ==
  \A l \in Loops : /\ Busy(l) => /\ held[l] \in Jobs
                                 /\ attempts[held[l]] >= 1
                                 /\ status[held[l]] # "absent"
                   /\ ~Busy(l) => held[l] = NoJob

\* locked_until and updated_at of a running job were set by one UPDATE.
LockTracksAge ==
  \A j \in Jobs : status[j] = "running" =>
                    lock[j] = 0 \/ lock[j] + age[j] = LockTicks

\* A running job carries a locked_until, a pending one none.
LockDiscipline ==
  \A j \in Jobs : /\ status[j] = "running" => lock[j] # NoLock
                  /\ status[j] = "pending" => lock[j] = NoLock

\* An INSERT starts from the column defaults.
AbsentRowsAreFresh ==
  \A j \in Jobs : status[j] = "absent" =>
                    attempts[j] = 0 /\ lock[j] = NoLock /\ key[j] = NoKey

QueueInv == /\ TypeOK
            /\ AbsentRowsAreFresh
            /\ RetryBudget
            /\ LockDiscipline
            /\ HoldersHaveJobs
            /\ LockTracksAge

-----------------------------------------------------------------------------
LEMMA InitQueueInv == Init => QueueInv
<1> SUFFICES ASSUME Init PROVE QueueInv
  OBVIOUS
<1> USE QueueAssumption
<1>1. TypeOK
  BY DEF Init, TypeOK, Statuses, Places, Waits, NoLock
<1>2. QED
  BY <1>1 DEF Init, QueueInv, RetryBudget, AbsentRowsAreFresh, LockDiscipline, HoldersHaveJobs,
              LockTracksAge, Busy

LEMMA DequeueKeepsQueueInv ==
  ASSUME QueueInv, NEW l \in Loops, Dequeue(l)
  PROVE  QueueInv'
<1> USE QueueAssumption
<1> DEFINE Q == CrashLooping(KindOf[l])
<1>1. PICK j \in Due(KindOf[l]) \ Q :
        /\ status'   = [i \in Jobs |-> IF i = j THEN "running" ELSE Quarantine(i, Q)]
        /\ lock'     = [i \in Jobs |-> IF i = j THEN LockTicks
                                       ELSE IF i \in Q THEN NoLock ELSE lock[i]]
        /\ age'      = [i \in Jobs |-> IF i \in Q \cup {j} THEN 0 ELSE age[i]]
        /\ attempts' = [attempts EXCEPT ![j] = @ + 1]
        /\ held'     = [held EXCEPT ![l] = j]
  BY DEF Dequeue, Touch
<1>2. /\ pc[l] = "idle"
      /\ pc' = [pc EXCEPT ![l] = "running"]
      /\ elapsed' = [elapsed EXCEPT ![l] = 0]
      /\ UNCHANGED <<kind, prio, key, wait, results, callerVars, purged>>
  BY DEF Dequeue
<1>3. j \in Jobs /\ attempts[j] < MaxAttempts /\ attempts[j] \in Nat
  <2>1. j \in Jobs
    BY DEF Due
  <2>2. attempts[j] \in 0 .. MaxAttempts
    BY <2>1 DEF QueueInv, TypeOK
  <2>3. status[j] = "pending" \/ (status[j] = "running" /\ ~(attempts[j] >= MaxAttempts))
    BY <2>1 DEF Due, CrashLooping, Expired
  <2>4. QED
    BY <2>1, <2>2, <2>3 DEF QueueInv, RetryBudget
<1>4. \A i \in Q : i \in Jobs /\ status[i] = "running"
  BY DEF CrashLooping, Expired
<1> HIDE DEF Q
<1>5. TypeOK'
  BY <1>1, <1>2, <1>3, <1>4
     DEF QueueInv, TypeOK, Statuses, Places, Waits, NoLock, callerVars, Quarantine
<1>6. RetryBudget' /\ LockDiscipline' /\ LockTracksAge' /\ AbsentRowsAreFresh'
  BY <1>1, <1>2, <1>3, <1>4
     DEF QueueInv, TypeOK, RetryBudget, AbsentRowsAreFresh, LockDiscipline, LockTracksAge, NoLock, Quarantine
<1>7. HoldersHaveJobs'
  BY <1>1, <1>2, <1>3, <1>4
     DEF QueueInv, TypeOK, HoldersHaveJobs, Busy, Quarantine, Statuses
<1>8. QED
  BY <1>5, <1>6, <1>7 DEF QueueInv

LEMMA ReportKeepsQueueInv ==
  ASSUME QueueInv, NEW l \in Loops, Work(l)
  PROVE  QueueInv'
<1> USE QueueAssumption
<1>1. Busy(l) /\ held[l] \in Jobs /\ attempts[held[l]] \in 1 .. MaxAttempts
  BY DEF Work, Complete, CompleteAckLost, Fail, Busy, QueueInv, HoldersHaveJobs, TypeOK
<1> DEFINE j == held[l]
<1>2. /\ attempts[j] * BackoffTicks \in 0 .. MaxAttempts * BackoffTicks
      /\ attempts[j] * BackoffTicks \in Waits
  <2>1. \A a \in 1 .. MaxAttempts : a * BackoffTicks \in 0 .. MaxAttempts * BackoffTicks
    OBVIOUS
  <2>2. QED
    BY <2>1, <1>1 DEF Waits
<1>a. \A b \in BOOLEAN : RecordResult(j, b) =>
         results' \in [Jobs -> SUBSET ((1 .. MaxAttempts) \X BOOLEAN)]
  <2> SUFFICES ASSUME NEW b \in BOOLEAN, RecordResult(j, b)
               PROVE  results' \in [Jobs -> SUBSET ((1 .. MaxAttempts) \X BOOLEAN)]
    OBVIOUS
  <2> DEFINE Row == <<attempts[j], b>>
             Table == SUBSET ((1 .. MaxAttempts) \X BOOLEAN)
  <2>1. Row \in (1 .. MaxAttempts) \X BOOLEAN
    BY <1>1
  <2>2. results \in [Jobs -> Table]
    BY DEF QueueInv, TypeOK
  <2>3. results' = [results EXCEPT ![j] = @ \cup {Row}]
    BY DEF RecordResult
  <2>4. results[j] \cup {Row} \in Table
    <3> HIDE DEF Row
    <3>1. results[j] \in Table
      BY <1>1, <2>2
    <3>2. QED
      BY <2>1, <3>1
  <2> HIDE DEF Row, Table
  <2>5. results' \in [Jobs -> Table]
    BY <2>2, <2>3, <2>4
  <2>6. QED
    BY <2>5 DEF Table
<1>3. CASE Complete(l) \/ CompleteAckLost(l)
  <2>1. MarkDone(j) /\ UNCHANGED <<callerVars, purged>>
    BY <1>3 DEF Complete, CompleteAckLost
  <2>2. \/ /\ pc' = [pc EXCEPT ![l] = "idle"]
           /\ held' = [held EXCEPT ![l] = NoJob]
           /\ elapsed' = [elapsed EXCEPT ![l] = 0]
        \/ /\ pc' = [pc EXCEPT ![l] = "failing"]
           /\ UNCHANGED <<held, elapsed>>
    BY <1>3 DEF Complete, CompleteAckLost, LeaveJob
  <2>3. TypeOK'
    <3>1. /\ status' \in [Jobs -> Statuses]
          /\ age' \in [Jobs -> 0 .. PurgeTicks]
      BY <1>1, <2>1 DEF QueueInv, TypeOK, MarkDone, Touch, Statuses
    <3>2. results' \in [Jobs -> SUBSET ((1 .. MaxAttempts) \X BOOLEAN)]
      BY <1>a, <2>1 DEF MarkDone
    <3>3. /\ pc' \in [Loops -> Places]
          /\ held' \in [Loops -> Jobs \cup {NoJob}]
          /\ elapsed' \in [Loops -> 0 .. HandlerMax]
      BY <2>2 DEF QueueInv, TypeOK, Places
    <3>4. QED
      BY <3>1, <3>2, <3>3, <2>1 DEF QueueInv, TypeOK, MarkDone, callerVars
  <2>4. RetryBudget' /\ LockDiscipline' /\ LockTracksAge' /\ AbsentRowsAreFresh'
    BY <1>1, <2>1
       DEF QueueInv, TypeOK, MarkDone, Touch, RetryBudget, AbsentRowsAreFresh, LockDiscipline, LockTracksAge
  <2>5. HoldersHaveJobs'
    BY <1>1, <2>1, <2>2 DEF QueueInv, TypeOK, MarkDone, HoldersHaveJobs, Busy
  <2>6. QED
    BY <2>3, <2>4, <2>5 DEF QueueInv
<1>4. CASE Fail(l)
  <2>1. MarkFailed(j) /\ UNCHANGED <<callerVars, purged>>
    BY <1>4 DEF Fail
  <2>2. PICK place \in {"idle", "paused"} :
           /\ pc' = [pc EXCEPT ![l] = place]
           /\ held' = [held EXCEPT ![l] = NoJob]
           /\ elapsed' = [elapsed EXCEPT ![l] = 0]
    BY <1>4 DEF Fail, LeaveJob
  <2>3. TypeOK'
    <3>1. /\ status' \in [Jobs -> Statuses]
          /\ lock' \in [Jobs -> NoLock .. LockTicks]
          /\ age' \in [Jobs -> 0 .. PurgeTicks]
      BY <1>1, <2>1 DEF QueueInv, TypeOK, MarkFailed, AfterFailure, Unlock,
                        Touch, Statuses, NoLock
    <3>2. wait' \in [Jobs -> Waits]
      BY <1>1, <1>2, <2>1 DEF QueueInv, TypeOK, MarkFailed
    <3>3. results' \in [Jobs -> SUBSET ((1 .. MaxAttempts) \X BOOLEAN)]
      BY <1>a, <2>1 DEF MarkFailed
    <3>4. /\ pc' \in [Loops -> Places]
          /\ held' \in [Loops -> Jobs \cup {NoJob}]
          /\ elapsed' \in [Loops -> 0 .. HandlerMax]
      BY <2>2 DEF QueueInv, TypeOK, Places
    <3>5. QED
      BY <3>1, <3>2, <3>3, <3>4, <2>1 DEF QueueInv, TypeOK, MarkFailed, callerVars
  <2>4. RetryBudget' /\ LockDiscipline' /\ LockTracksAge' /\ AbsentRowsAreFresh'
    BY <1>1, <2>1 DEF QueueInv, TypeOK, MarkFailed, AfterFailure, Unlock, Touch,
                      RetryBudget, AbsentRowsAreFresh, LockDiscipline, LockTracksAge, NoLock
  <2>5. HoldersHaveJobs'
    BY <1>1, <2>1, <2>2
       DEF QueueInv, TypeOK, MarkFailed, AfterFailure, HoldersHaveJobs, Busy
  <2>6. QED
    BY <2>3, <2>4, <2>5 DEF QueueInv
<1>5. QED
  BY <1>3, <1>4 DEF Work

LEMMA PurgeKeepsQueueInv ==
  ASSUME QueueInv,
         NEW k \in Kinds,
         PurgeRunning(k) \/ \E s \in {"pending", "done"} : PurgeOther(k, s)
  PROVE  QueueInv'
<1> USE QueueAssumption
<1>1. CASE PurgeRunning(k)
  <2>1. TypeOK'
    BY <1>1 DEF PurgeRunning, QueueInv, TypeOK, Touch, Statuses, Places, NoLock,
                loopVars, callerVars
  <2>2. RetryBudget' /\ LockDiscipline' /\ LockTracksAge' /\ AbsentRowsAreFresh' /\ HoldersHaveJobs'
    BY <1>1 DEF PurgeRunning, QueueInv, TypeOK, Touch, RetryBudget, AbsentRowsAreFresh, LockDiscipline,
                LockTracksAge, HoldersHaveJobs, Busy, NoLock, loopVars
  <2>3. QED
    BY <2>1, <2>2 DEF QueueInv
<1>2. ASSUME NEW s \in {"pending", "done"}, PurgeOther(k, s) PROVE QueueInv'
  <2>1. TypeOK'
    BY <1>2 DEF PurgeOther, QueueInv, TypeOK, Statuses, Places, loopVars, callerVars
  <2>2. RetryBudget' /\ LockDiscipline' /\ LockTracksAge' /\ AbsentRowsAreFresh' /\ HoldersHaveJobs'
    BY <1>2 DEF PurgeOther, QueueInv, TypeOK, RetryBudget, AbsentRowsAreFresh, LockDiscipline,
                LockTracksAge, HoldersHaveJobs, Busy, loopVars
  <2>3. QED
    BY <2>1, <2>2 DEF QueueInv
<1>3. QED
  BY <1>1, <1>2

LEMMA TickKeepsQueueInv == ASSUME QueueInv, Tick PROVE QueueInv'
<1> USE QueueAssumption
<1>1. TypeOK'
  <2>1. /\ lock' \in [Jobs -> NoLock .. LockTicks]
        /\ age' \in [Jobs -> 0 .. PurgeTicks]
    BY DEF Tick, QueueInv, TypeOK, NoLock
  <2>2. wait' \in [Jobs -> Waits]
    <3> DEFINE Top == MaxAttempts * BackoffTicks
    <3>1. Top \in Nat
      OBVIOUS
    <3> HIDE DEF Top
    <3>2. QED
      BY <3>1 DEF Tick, QueueInv, TypeOK, Waits, Top
  <2>3. elapsed' \in [Loops -> 0 .. HandlerMax]
    BY DEF Tick, QueueInv, TypeOK
  <2>4. QED
    BY <2>1, <2>2, <2>3 DEF Tick, QueueInv, TypeOK, callerVars
<1>2. RetryBudget' /\ LockDiscipline' /\ LockTracksAge' /\ AbsentRowsAreFresh' /\ HoldersHaveJobs'
  BY DEF Tick, QueueInv, TypeOK, RetryBudget, AbsentRowsAreFresh, LockDiscipline, LockTracksAge,
         HoldersHaveJobs, Busy, NoLock
<1>3. QED
  BY <1>1, <1>2 DEF QueueInv

LEMMA NextKeepsQueueInv == QueueInv /\ [Next]_vars => QueueInv'
<1> SUFFICES ASSUME QueueInv, [Next]_vars PROVE QueueInv'
  OBVIOUS
<1> USE QueueAssumption
<1>1. ASSUME NEW j \in Jobs, Enqueue(j) PROVE QueueInv'
  <2>1. TypeOK'
    BY <1>1 DEF Enqueue, QueueInv, TypeOK, Statuses, loopVars, callerVars
  <2>2. QED
    BY <1>1, <2>1
       DEF Enqueue, QueueInv, TypeOK, RetryBudget, AbsentRowsAreFresh, LockDiscipline, LockTracksAge,
                HoldersHaveJobs, Busy, loopVars
<1>2. ASSUME NEW c \in Callers, NEW k \in Keys, LookupKey(c, k) PROVE QueueInv'
  BY <1>2 DEF LookupKey, QueueInv, TypeOK, RetryBudget, AbsentRowsAreFresh, LockDiscipline, LockTracksAge,
              HoldersHaveJobs, Busy, jobVars, loopVars
<1>3. ASSUME NEW c \in Callers, NEW j \in Jobs, InsertKeyed(c, j) PROVE QueueInv'
  <2>1. TypeOK'
    BY <1>3 DEF InsertKeyed, QueueInv, TypeOK, Statuses, loopVars
  <2>2. QED
    BY <1>3, <2>1 DEF InsertKeyed, QueueInv, TypeOK, RetryBudget, AbsentRowsAreFresh, LockDiscipline, LockTracksAge,
              HoldersHaveJobs, Busy, Statuses, loopVars
<1>4. ASSUME NEW c \in Callers, KeyConflict(c) PROVE QueueInv'
  BY <1>4 DEF KeyConflict, QueueInv, TypeOK, RetryBudget, AbsentRowsAreFresh, LockDiscipline, LockTracksAge,
              HoldersHaveJobs, Busy, jobVars, loopVars
<1>5. ASSUME NEW l \in Loops, Dequeue(l) PROVE QueueInv'
  BY <1>5, DequeueKeepsQueueInv
<1>6. ASSUME NEW l \in Loops, PollEmpty(l) PROVE QueueInv'
  <2>1. TypeOK'
    BY <1>6 DEF PollEmpty, QueueInv, TypeOK, Quarantine, Touch, Statuses, NoLock,
                loopVars, callerVars
  <2>2. RetryBudget' /\ LockDiscipline' /\ LockTracksAge' /\ AbsentRowsAreFresh' /\ HoldersHaveJobs'
    BY <1>6 DEF PollEmpty, QueueInv, TypeOK, Quarantine, Touch, CrashLooping, Expired,
                RetryBudget, AbsentRowsAreFresh, LockDiscipline, LockTracksAge, HoldersHaveJobs, Busy,
                NoLock, loopVars
  <2>3. QED
    BY <2>1, <2>2 DEF QueueInv
<1>7. ASSUME NEW l \in Loops, Work(l) PROVE QueueInv'
  BY <1>7, ReportKeepsQueueInv
<1>8. ASSUME NEW l \in Loops, SpendBreaker(l) \/ WakeUp(l) PROVE QueueInv'
  BY <1>8 DEF SpendBreaker, WakeUp, QueueInv, TypeOK, RetryBudget, AbsentRowsAreFresh, LockDiscipline,
              LockTracksAge, HoldersHaveJobs, Busy, Places, jobVars, callerVars
<1>9. ASSUME NEW p \in Procs, Crash(p) \/ Restart(p) PROVE QueueInv'
  BY <1>9 DEF Crash, Restart, QueueInv, TypeOK, RetryBudget, AbsentRowsAreFresh, LockDiscipline,
              LockTracksAge, HoldersHaveJobs, Busy, Places, jobVars, callerVars
<1>10. ASSUME NEW k \in Kinds,
              PurgeRunning(k) \/ \E s \in {"pending", "done"} : PurgeOther(k, s)
       PROVE QueueInv'
  BY <1>10, PurgeKeepsQueueInv
<1>11. CASE Tick
  BY <1>11, TickKeepsQueueInv
<1>12. CASE UNCHANGED vars
  BY <1>12 DEF vars, QueueInv, TypeOK, RetryBudget, AbsentRowsAreFresh, LockDiscipline, LockTracksAge,
               HoldersHaveJobs, Busy, jobVars, loopVars, callerVars
<1>13. QED
  BY <1>1, <1>2, <1>3, <1>4, <1>5, <1>6, <1>7, <1>8, <1>9, <1>10, <1>11, <1>12 DEF Next

LEMMA QueueInvariance == Spec => []QueueInv
BY InitQueueInv, NextKeepsQueueInv, PTL DEF Spec

\* The columns keep their types; in particular attempts never passes
\* max_attempts, on any route of a job through the queue.
THEOREM TypeCorrect == Spec => []TypeOK
<1>1. QueueInv => TypeOK
  BY DEF QueueInv
<1>2. QED
  BY <1>1, QueueInvariance, PTL

\* A pending job has an attempt left and a running job has used one.
THEOREM RetryBudgetHolds == Spec => []RetryBudget
<1>1. QueueInv => RetryBudget
  BY DEF QueueInv
<1>2. QED
  BY <1>1, QueueInvariance, PTL

\* Whatever the purge of running jobs matches has an expired lock.
THEOREM PurgeableIsExpiredHolds == Spec => []PurgeableIsExpired
<1>1. QueueInv => PurgeableIsExpired
  <2> SUFFICES ASSUME QueueInv,
                      NEW j \in Jobs, status[j] = "running", age[j] = PurgeTicks
               PROVE  lock[j] = 0
    BY DEF PurgeableIsExpired
  <2>1. lock[j] \in NoLock .. LockTicks /\ lock[j] # NoLock
    BY DEF QueueInv, TypeOK, LockDiscipline
  <2>2. lock[j] = 0 \/ lock[j] + PurgeTicks = LockTicks
    BY DEF QueueInv, LockTracksAge
  <2>3. QED
    BY <2>1, <2>2, QueueAssumption DEF NoLock
<1>2. QED
  BY <1>1, QueueInvariance, PTL

\* A failed job that no admin purged has used up its attempts.
THEOREM GivenUpOnlyWhenSpentHolds == Spec => []GivenUpOnlyWhenSpent
<1>1. Init => GivenUpOnlyWhenSpent
  BY DEF Init, GivenUpOnlyWhenSpent
<1>2. QueueInv /\ GivenUpOnlyWhenSpent /\ [Next]_vars => GivenUpOnlyWhenSpent'
  <2> SUFFICES ASSUME QueueInv, GivenUpOnlyWhenSpent, [Next]_vars
               PROVE  GivenUpOnlyWhenSpent'
    OBVIOUS
  <2> USE QueueAssumption
  <2>1. attempts \in [Jobs -> 0 .. MaxAttempts]
    BY DEF QueueInv, TypeOK
  <2>2. ASSUME NEW j \in Jobs, Enqueue(j) PROVE GivenUpOnlyWhenSpent'
    BY <2>2 DEF Enqueue, GivenUpOnlyWhenSpent, QueueInv, TypeOK
  <2>3. ASSUME NEW c \in Callers, NEW j \in Jobs, InsertKeyed(c, j)
        PROVE  GivenUpOnlyWhenSpent'
    BY <2>3 DEF InsertKeyed, GivenUpOnlyWhenSpent, QueueInv, TypeOK
  <2>4. ASSUME NEW l \in Loops, Dequeue(l) PROVE GivenUpOnlyWhenSpent'
    <3> DEFINE Q == CrashLooping(KindOf[l])
    <3>1. PICK j \in Due(KindOf[l]) \ Q :
            /\ status'   = [i \in Jobs |-> IF i = j THEN "running"
                                           ELSE Quarantine(i, Q)]
            /\ attempts' = [attempts EXCEPT ![j] = @ + 1]
      BY <2>4 DEF Dequeue
    <3>2. purged' = purged
      BY <2>4 DEF Dequeue
    <3>3. \A i \in Q : attempts[i] = MaxAttempts
      BY <2>1 DEF CrashLooping
    <3> HIDE DEF Q
    <3>4. QED
      BY <2>1, <3>1, <3>2, <3>3 DEF GivenUpOnlyWhenSpent, Quarantine
  <2>5. ASSUME NEW l \in Loops, PollEmpty(l) PROVE GivenUpOnlyWhenSpent'
    <3>1. \A i \in CrashLooping(KindOf[l]) : attempts[i] = MaxAttempts
      BY <2>1 DEF CrashLooping
    <3>2. QED
      BY <2>5, <3>1 DEF PollEmpty, GivenUpOnlyWhenSpent, Quarantine
  <2>6. ASSUME NEW l \in Loops, Work(l) PROVE GivenUpOnlyWhenSpent'
    <3>1. held[l] \in Jobs
      BY <2>6 DEF Work, Complete, CompleteAckLost, Fail, Busy, QueueInv, HoldersHaveJobs
    <3>2. CASE MarkDone(held[l]) /\ purged' = purged
      BY <3>1, <3>2 DEF MarkDone, GivenUpOnlyWhenSpent, QueueInv, TypeOK
    <3>3. CASE MarkFailed(held[l]) /\ purged' = purged
      BY <2>1, <3>1, <3>3
         DEF MarkFailed, AfterFailure, GivenUpOnlyWhenSpent, QueueInv, TypeOK
    <3>4. QED
      BY <2>6, <3>2, <3>3 DEF Work, Complete, CompleteAckLost, Fail
  <2>7. ASSUME NEW k \in Kinds, PurgeRunning(k) PROVE GivenUpOnlyWhenSpent'
    BY <2>7 DEF PurgeRunning, GivenUpOnlyWhenSpent
  <2>8. ASSUME NEW k \in Kinds, NEW s \in {"pending", "done"}, PurgeOther(k, s)
        PROVE  GivenUpOnlyWhenSpent'
    BY <2>8 DEF PurgeOther, GivenUpOnlyWhenSpent
  <2>9. CASE UNCHANGED <<status, attempts, purged>>
    BY <2>9 DEF GivenUpOnlyWhenSpent
  <2>10. QED
    BY <2>2, <2>3, <2>4, <2>5, <2>6, <2>7, <2>8, <2>9
       DEF Next, vars, jobVars, LookupKey, KeyConflict, SpendBreaker, WakeUp,
           Crash, Restart, Tick
<1>3. QED
  BY <1>1, <1>2, QueueInvariance, PTL DEF Spec

\* A job neither runs past its attempts nor fails before the last of them.
THEOREM AttemptsAreCountedHolds == Spec => []AttemptsAreCounted
<1>1. RetryBudget /\ GivenUpOnlyWhenSpent => AttemptsAreCounted
  BY DEF AttemptsAreCounted
<1>2. QED
  BY <1>1, RetryBudgetHolds, GivenUpOnlyWhenSpentHolds, PTL

\* The unique index leaves at most one job per idempotency key, whatever the
\* SELECTs of concurrent callers saw.
THEOREM OneJobPerKeyHolds == Spec => []OneJobPerKey
<1>1. Init => OneJobPerKey
  BY DEF Init, OneJobPerKey
<1>2. TypeOK /\ OneJobPerKey /\ [Next]_vars => OneJobPerKey'
  <2> SUFFICES ASSUME TypeOK, OneJobPerKey, [Next]_vars PROVE OneJobPerKey'
    OBVIOUS
  <2>1. ASSUME NEW c \in Callers, NEW j \in Jobs, InsertKeyed(c, j)
        PROVE  OneJobPerKey'
    BY <2>1 DEF InsertKeyed, IndexAdmits, OneJobPerKey, TypeOK
  <2>2. CASE key' = key
    BY <2>2 DEF OneJobPerKey
  <2>3. QED
    BY <2>1, <2>2
       DEF Next, vars, jobVars, Enqueue, LookupKey, KeyConflict, Dequeue, PollEmpty,
           Work, Complete, CompleteAckLost, Fail, MarkDone, MarkFailed, SpendBreaker,
           WakeUp, Crash, Restart, PurgeRunning, PurgeOther, Tick
<1>3. QED
  BY <1>1, <1>2, TypeCorrect, PTL DEF Spec
-----------------------------------------------------------------------------
(***************************************************************************)
(* Exclusive execution.  The argument: while a loop is busy its job's lock *)
(* has LockTicks - elapsed ticks left, which is positive as long as no     *)
(* handler runs for LockTicks; a job with time left on its lock is neither *)
(* claimed, nor quarantined, nor old enough to be purged.                  *)
(***************************************************************************)
LeaseCovers(l) ==
  /\ pc[l] = "running" => /\ status[held[l]] = "running"
                          /\ lock[held[l]] = LockTicks - elapsed[l]
                          /\ age[held[l]] = elapsed[l]
  /\ pc[l] = "failing" => status[held[l]] \in {"done", "failed"}

LeaseInv == ExclusiveExecution /\ \A l \in Loops : LeaseCovers(l)

LEMMA NextKeepsLeaseInv ==
  ASSUME HandlerMax < LockTicks, QueueInv, LeaseInv, [Next]_vars
  PROVE  LeaseInv'
<1> USE QueueAssumption
<1>t. /\ status \in [Jobs -> Statuses]
      /\ lock \in [Jobs -> NoLock .. LockTicks]
      /\ age \in [Jobs -> 0 .. PurgeTicks]
      /\ attempts \in [Jobs -> 0 .. MaxAttempts]
      /\ pc \in [Loops -> Places]
      /\ held \in [Loops -> Jobs \cup {NoJob}]
      /\ elapsed \in [Loops -> 0 .. HandlerMax]
  BY DEF QueueInv, TypeOK
<1>h. \A l \in Loops : Busy(l) => held[l] \in Jobs /\ status[held[l]] # "absent"
  BY DEF QueueInv, HoldersHaveJobs
<1>e. \A l \in Loops : Busy(l) => ~Expired(held[l]) /\ status[held[l]] # "pending"
  BY <1>t, <1>h DEF LeaseInv, LeaseCovers, Expired, Busy
<1>1. ASSUME NEW j \in Jobs, status[j] = "absent",
             status' = [status EXCEPT ![j] = "pending"],
             UNCHANGED <<lock, age, loopVars>>
      PROVE  LeaseInv'
  <2>1. \A l \in Loops : Busy(l) => held[l] # j
    BY <1>1, <1>h
  <2>2. QED
    BY <1>1, <1>t, <1>h, <2>1
       DEF LeaseInv, LeaseCovers, ExclusiveExecution, Busy, loopVars
<1>2. ASSUME NEW l \in Loops, Dequeue(l) PROVE LeaseInv'
  <2> DEFINE Q == CrashLooping(KindOf[l])
  <2>1. PICK j \in Due(KindOf[l]) \ Q :
          /\ status' = [i \in Jobs |-> IF i = j THEN "running" ELSE Quarantine(i, Q)]
          /\ lock'   = [i \in Jobs |-> IF i = j THEN LockTicks
                                       ELSE IF i \in Q THEN NoLock ELSE lock[i]]
          /\ age'    = [i \in Jobs |-> IF i \in Q \cup {j} THEN 0 ELSE age[i]]
          /\ held'   = [held EXCEPT ![l] = j]
    BY <1>2 DEF Dequeue, Touch
  <2>2. /\ pc[l] = "idle"
        /\ pc' = [pc EXCEPT ![l] = "running"]
        /\ elapsed' = [elapsed EXCEPT ![l] = 0]
    BY <1>2 DEF Dequeue
  <2>3. j \in Jobs
    BY DEF Due
  <2>4. \A m \in Loops : Busy(m) => held[m] # j /\ held[m] \notin Q
    BY <1>e DEF Due, CrashLooping, Expired
  <2> HIDE DEF Q
  <2>5. LeaseCovers(l)'
    BY <1>t, <2>1, <2>2, <2>3 DEF LeaseCovers
  <2>6. ASSUME NEW m \in Loops, m # l PROVE LeaseCovers(m)'
    <3>1. held'[m] = held[m] /\ pc'[m] = pc[m] /\ elapsed'[m] = elapsed[m]
      BY <1>t, <2>1, <2>2, <2>6
    <3>2. LeaseCovers(m)
      BY DEF LeaseInv
    <3>3. CASE Busy(m)
      <4>1. held[m] \in Jobs /\ held[m] # j /\ held[m] \notin Q
        BY <1>h, <2>4, <3>3
      <4>2. /\ status'[held[m]] = status[held[m]]
            /\ lock'[held[m]] = lock[held[m]]
            /\ age'[held[m]] = age[held[m]]
        BY <2>1, <4>1 DEF Quarantine
      <4>3. QED
        BY <3>1, <3>2, <4>2 DEF LeaseCovers
    <3>4. CASE ~Busy(m)
      BY <3>1, <3>4 DEF LeaseCovers, Busy
    <3>5. QED
      BY <3>3, <3>4
  <2>7. ExclusiveExecution'
    BY <1>t, <2>1, <2>2, <2>4 DEF LeaseInv, ExclusiveExecution, Busy
  <2>8. QED
    BY <2>5, <2>6, <2>7 DEF LeaseInv
<1>3. ASSUME NEW l \in Loops, PollEmpty(l) PROVE LeaseInv'
  <2> DEFINE Q == CrashLooping(KindOf[l])
  <2>1. /\ status' = [i \in Jobs |-> Quarantine(i, Q)]
        /\ lock'   = [i \in Jobs |-> IF i \in Q THEN NoLock ELSE lock[i]]
        /\ age'    = [i \in Jobs |-> IF i \in Q THEN 0 ELSE age[i]]
        /\ UNCHANGED loopVars
    BY <1>3 DEF PollEmpty, Touch
  <2>2. \A m \in Loops : Busy(m) => held[m] \notin Q
    BY <1>e DEF CrashLooping
  <2> HIDE DEF Q
  <2>3. QED
    BY <1>h, <2>1, <2>2
       DEF LeaseInv, LeaseCovers, ExclusiveExecution, Busy, Quarantine, loopVars
<1>4. ASSUME NEW l \in Loops, Work(l) PROVE LeaseInv'
  <2>1. Busy(l) /\ held[l] \in Jobs
    BY <1>4, <1>h DEF Work, Complete, CompleteAckLost, Fail, Busy
  <2>2. /\ \A i \in Jobs : i # held[l] => /\ status'[i] = status[i]
                                          /\ lock'[i] = lock[i]
                                          /\ age'[i] = age[i]
        /\ pc'[l] = "failing" => status'[held[l]] = "done" /\ held'[l] = held[l]
        /\ pc'[l] \in {"idle", "paused", "failing"}
        /\ \A m \in Loops : m # l => /\ pc'[m] = pc[m]
                                     /\ held'[m] = held[m]
                                     /\ elapsed'[m] = elapsed[m]
    <3>1. CASE Complete(l)
      BY <1>t, <2>1, <3>1 DEF Complete, MarkDone, LeaveJob, Touch
    <3>2. CASE CompleteAckLost(l)
      BY <1>t, <2>1, <3>2 DEF CompleteAckLost, MarkDone, Touch
    <3>3. CASE Fail(l)
      <4>1. PICK place \in {"idle", "paused"} : LeaveJob(l, place)
        BY <3>3 DEF Fail
      <4>2. MarkFailed(held[l])
        BY <3>3 DEF Fail
      <4>3. /\ pc'[l] \in {"idle", "paused"}
            /\ \A m \in Loops : m # l => /\ pc'[m] = pc[m]
                                         /\ held'[m] = held[m]
                                         /\ elapsed'[m] = elapsed[m]
        BY <1>t, <4>1 DEF LeaveJob
      <4>4. \A i \in Jobs : i # held[l] => /\ status'[i] = status[i]
                                           /\ lock'[i] = lock[i]
                                           /\ age'[i] = age[i]
        BY <1>t, <2>1, <4>2 DEF MarkFailed, Touch, Unlock
      <4>5. QED
        BY <4>3, <4>4
    <3>4. QED
      BY <1>4, <3>1, <3>2, <3>3 DEF Work
  <2>3. \A m \in Loops : Busy(m) /\ m # l => held[m] \in Jobs /\ held[m] # held[l]
    BY <1>h, <2>1 DEF LeaseInv, ExclusiveExecution
  <2>4. \A m \in Loops : LeaseCovers(m)'
    <3> SUFFICES ASSUME NEW m \in Loops PROVE LeaseCovers(m)'
      OBVIOUS
    <3>1. CASE m = l
      BY <2>2, <3>1 DEF LeaseCovers
    <3>2. CASE m # l
      BY <2>2, <2>3, <3>2 DEF LeaseInv, LeaseCovers, Busy
    <3>3. QED
      BY <3>1, <3>2
  <2>5. ExclusiveExecution'
    BY <2>1, <2>2 DEF LeaseInv, ExclusiveExecution, Busy
  <2>6. QED
    BY <2>4, <2>5 DEF LeaseInv
<1>5. ASSUME NEW l \in Loops, SpendBreaker(l) \/ WakeUp(l) PROVE LeaseInv'
  BY <1>5, <1>t DEF SpendBreaker, WakeUp, LeaseInv, LeaseCovers, ExclusiveExecution,
                    Busy, jobVars
<1>6. ASSUME NEW p \in Procs, Crash(p) \/ Restart(p) PROVE LeaseInv'
  BY <1>6, <1>t DEF Crash, Restart, LeaseInv, LeaseCovers, ExclusiveExecution,
                    Busy, jobVars
<1>7. ASSUME NEW k \in Kinds, PurgeRunning(k) PROVE LeaseInv'
  <2>1. PICK Z \in SUBSET Jobs :
          /\ \A j \in Z : status[j] = "running" /\ age[j] = PurgeTicks
          /\ status' = [j \in Jobs |-> IF j \in Z THEN "failed" ELSE status[j]]
          /\ lock'   = [j \in Jobs |-> IF j \in Z THEN NoLock ELSE lock[j]]
          /\ age'    = [j \in Jobs |-> IF j \in Z THEN 0 ELSE age[j]]
          /\ UNCHANGED loopVars
    BY <1>7 DEF PurgeRunning, Touch
  <2>2. \A m \in Loops : Busy(m) => held[m] \notin Z
    BY <1>t, <2>1 DEF LeaseInv, LeaseCovers, Busy
  <2>3. QED
    BY <1>h, <2>1, <2>2 DEF LeaseInv, LeaseCovers, ExclusiveExecution, Busy, loopVars
<1>8. ASSUME NEW k \in Kinds, NEW s \in {"pending", "done"}, PurgeOther(k, s)
      PROVE  LeaseInv'
  BY <1>8, <1>t, <1>h
     DEF PurgeOther, LeaseInv, LeaseCovers, ExclusiveExecution, Busy, loopVars
<1>9. CASE Tick
  <2>1. \A l \in Loops : Busy(l) =>
          /\ elapsed[l] < HandlerMax
          /\ elapsed'[l] = elapsed[l] + 1
    BY <1>9, <1>t DEF Tick
  <2>2. \A l \in Loops : pc[l] = "running" =>
          /\ lock'[held[l]] = lock[held[l]] - 1
          /\ age'[held[l]] = age[held[l]] + 1
    BY <1>9, <1>t, <1>h, <2>1 DEF Tick, LeaseInv, LeaseCovers, Busy
  <2>3. status' = status /\ pc' = pc /\ held' = held
    BY <1>9 DEF Tick
  <2>4. \A l \in Loops : LeaseCovers(l)'
    <3> SUFFICES ASSUME NEW l \in Loops PROVE LeaseCovers(l)'
      OBVIOUS
    <3>1. LeaseCovers(l)
      BY DEF LeaseInv
    <3>2. pc[l] = "running" => elapsed[l] \in Nat
      BY <1>t
    <3>3. QED
      BY <2>1, <2>2, <2>3, <3>1, <3>2 DEF LeaseCovers, Busy
  <2>5. QED
    BY <2>3, <2>4 DEF LeaseInv, ExclusiveExecution, Busy
<1>10. CASE UNCHANGED <<status, lock, age, loopVars>>
  BY <1>10 DEF LeaseInv, LeaseCovers, ExclusiveExecution, Busy, loopVars
<1>11. QED
  <2>1. ASSUME NEW j \in Jobs, Enqueue(j) PROVE LeaseInv'
    BY <1>1, <2>1 DEF Enqueue
  <2>2. ASSUME NEW c \in Callers, NEW j \in Jobs, InsertKeyed(c, j) PROVE LeaseInv'
    BY <1>1, <2>2 DEF InsertKeyed
  <2>3. QED
    BY <1>2, <1>3, <1>4, <1>5, <1>6, <1>7, <1>8, <1>9, <1>10, <2>1, <2>2
       DEF Next, vars, jobVars, LookupKey, KeyConflict

\* When handlers finish inside their lock, no job is ever executed by two
\* loops, through crashes, purges, lost acknowledgements and re-claims.
THEOREM ExclusiveExecutionHolds ==
  ASSUME HandlerMax < LockTicks
  PROVE  Spec => []ExclusiveExecution
<1>1. Init => LeaseInv
  BY DEF Init, LeaseInv, LeaseCovers, ExclusiveExecution, Busy
<1>2. QueueInv /\ LeaseInv /\ [Next]_vars => LeaseInv'
  BY NextKeepsLeaseInv
<1>3. LeaseInv => ExclusiveExecution
  BY DEF LeaseInv
<1>4. QED
  BY <1>1, <1>2, <1>3, QueueInvariance, PTL DEF Spec
-----------------------------------------------------------------------------
(***************************************************************************)
(* Refinement.  With handlers inside their lock and no lost COMMIT         *)
(* acknowledgement, every step of the queue is a step of LeaseQueue or     *)
(* changes neither a job's phase nor who holds it.                         *)
(***************************************************************************)
ImplInv == QueueInv /\ LeaseInv /\ \A l \in Loops : pc[l] # "failing"

LEMMA ImplInvariance ==
  ASSUME HandlerMax < LockTicks, AckLoss = FALSE
  PROVE  Spec => []ImplInv
<1>1. Init => ImplInv
  BY InitQueueInv
     DEF Init, ImplInv, LeaseInv, LeaseCovers, ExclusiveExecution, Busy
<1>2. ImplInv /\ [Next]_vars => ImplInv'
  <2> SUFFICES ASSUME ImplInv, [Next]_vars PROVE ImplInv'
    OBVIOUS
  <2>1. QueueInv' /\ LeaseInv'
    BY NextKeepsQueueInv, NextKeepsLeaseInv DEF ImplInv
  <2>2. \A l \in Loops : pc'[l] # "failing"
    <3>1. pc \in [Loops -> Places]
      BY DEF ImplInv, QueueInv, TypeOK
    <3>2. ASSUME NEW l \in Loops,
                 Dequeue(l) \/ Work(l) \/ SpendBreaker(l) \/ WakeUp(l)
          PROVE  \E place \in Places \ {"failing"} : pc' = [pc EXCEPT ![l] = place]
      BY <3>2 DEF Dequeue, Work, Complete, CompleteAckLost, Fail, LeaveJob,
                  SpendBreaker, WakeUp, Places
    <3>3. ASSUME NEW p \in Procs, Crash(p) \/ Restart(p)
          PROVE  \A l \in Loops : pc'[l] # "failing"
      BY <3>3 DEF ImplInv, Crash, Restart
    <3>4. CASE pc' = pc
      BY <3>4 DEF ImplInv
    <3>5. CASE \E l \in Loops, place \in Places \ {"failing"} :
                 pc' = [pc EXCEPT ![l] = place]
      BY <3>1, <3>5 DEF ImplInv
    <3>6. QED
      BY <3>2, <3>3, <3>4, <3>5
         DEF Next, vars, loopVars, Enqueue, LookupKey, InsertKeyed, KeyConflict,
             PollEmpty, PurgeRunning, PurgeOther, Tick
  <2>3. QED
    BY <2>1, <2>2 DEF ImplInv
<1>3. QED
  BY <1>1, <1>2, PTL DEF Spec
\* Only busy loops hold jobs, and with no loop failing they hold open ones.
LEMMA HeldJobsAreOpen ==
  ASSUME ImplInv
  PROVE  /\ \A l \in Loops : held[l] # NoJob =>
              pc[l] = "running" /\ held[l] \in Jobs /\ status[held[l]] = "running"
         /\ \A l \in Loops : pc[l] # "running" => held[l] = NoJob
         /\ \A l, m \in Loops : held[l] = held[m] /\ held[l] # NoJob => l = m
BY DEF ImplInv, QueueInv, HoldersHaveJobs, LeaseInv, LeaseCovers, ExclusiveExecution, Busy

\* A step that gives up unheld, inserted jobs and leaves the leases alone.
LEMMA GiveUpIsDiscard ==
  ASSUME NEW Q \in SUBSET Jobs,
         \A j \in Q : status[j] # "absent" /\ \A l \in Loops : held[l] # j,
         status' = [j \in Jobs |-> IF j \in Q THEN "failed" ELSE status[j]],
         held' = held
  PROVE  Lease!Next
<1>1. Lease!GiveUp(Q)
  BY DEF Lease!GiveUp, Lease!Held, Phase
<1>2. Lease!Discard(Q)
  BY <1>1 DEF Lease!Discard
<1>3. QED
  BY <1>2 DEF Lease!Next

LEMMA DequeueIsClaim ==
  ASSUME HandlerMax < LockTicks, ImplInv, NEW l \in Loops, Dequeue(l)
  PROVE  Lease!Next
<1> DEFINE Q == CrashLooping(KindOf[l])
<1>1. PICK j \in Due(KindOf[l]) \ Q :
        /\ status' = [i \in Jobs |-> IF i = j THEN "running" ELSE Quarantine(i, Q)]
        /\ held'   = [held EXCEPT ![l] = j]
  BY DEF Dequeue
<1>2. j \in Jobs /\ status[j] \in {"pending", "running"} /\ Q \in SUBSET Jobs
  BY DEF Due, Expired, CrashLooping
<1>3. \A i \in Q : status[i] = "running" /\ lock[i] = 0
  BY DEF CrashLooping, Expired
<1>4. held[l] = NoJob /\ \A m \in Loops : held[m] # j /\ held[m] \notin Q
  <2>1. pc[l] = "idle"
    BY DEF Dequeue
  <2>2. \A m \in Loops : held[m] # NoJob => status[held[m]] = "running" /\ lock[held[m]] # 0
    <3>1. \A m \in Loops : elapsed[m] \in 0 .. HandlerMax
      BY DEF ImplInv, QueueInv, TypeOK
    <3>2. QED
      BY <3>1, HeldJobsAreOpen, QueueAssumption DEF ImplInv, LeaseInv, LeaseCovers
  <2>3. j # NoJob /\ NoJob \notin Q
    BY <1>2, QueueAssumption
  <2>4. \A m \in Loops : held[m] # j
    BY <2>2, <2>3 DEF Due, Expired
  <2>5. \A m \in Loops : held[m] \notin Q
    BY <1>3, <2>2, <2>3
  <2>6. QED
    BY <2>1, <2>4, <2>5, HeldJobsAreOpen
<1> HIDE DEF Q
<1>5. Lease!GiveUp(Q)
  BY <1>1, <1>2, <1>3, <1>4 DEF Lease!GiveUp, Lease!Held, Phase, Quarantine
<1>6. Lease!Claim(l, j, Q)
  BY <1>1, <1>2, <1>4, <1>5 DEF Lease!Claim, Lease!Held, Phase
<1>7. QED
  BY <1>2, <1>6 DEF Lease!Next
LEMMA WorkIsRelease ==
  ASSUME ImplInv, AckLoss = FALSE, NEW l \in Loops, Work(l)
  PROVE  Lease!Next
<1>1. pc[l] = "running" /\ held[l] \in Jobs /\ status[held[l]] = "running"
  BY DEF Work, Complete, CompleteAckLost, Fail, ImplInv, QueueInv, HoldersHaveJobs,
         Busy, LeaseInv, LeaseCovers
<1>2. held[l] # NoJob
  BY <1>1, QueueAssumption
<1>3. \E v \in {"open", "settled"} :
         [j \in Jobs |-> Phase(j)]' = [[j \in Jobs |-> Phase(j)] EXCEPT ![held[l]] = v]
  <2>1. status \in [Jobs -> Statuses]
    BY DEF ImplInv, QueueInv, TypeOK
  <2>2. CASE Complete(l)
    BY <1>1, <2>1, <2>2 DEF Complete, MarkDone, Phase
  <2>3. CASE Fail(l)
    BY <1>1, <2>1, <2>3 DEF Fail, MarkFailed, AfterFailure, Phase
  <2>4. QED
    BY <2>2, <2>3 DEF Work, CompleteAckLost
<1>4. held' = [held EXCEPT ![l] = NoJob]
  BY DEF Work, Complete, CompleteAckLost, Fail, LeaveJob
<1>5. PICK v \in {"open", "settled"} : Lease!Release(l, v)
  BY <1>1, <1>2, <1>3, <1>4 DEF Lease!Release, Phase
<1>6. QED
  BY <1>5 DEF Lease!Next

LEMMA NextImplementsLease ==
  ASSUME HandlerMax < LockTicks, AckLoss = FALSE, ImplInv, [Next]_vars
  PROVE  [Lease!Next]_(Lease!vars)
<1> USE QueueAssumption
<1>1. ASSUME NEW j \in Jobs, status[j] = "absent",
             status' = [status EXCEPT ![j] = "pending"], UNCHANGED held
      PROVE  Lease!Next
  <2>1. status \in [Jobs -> Statuses]
    BY DEF ImplInv, QueueInv, TypeOK
  <2>2. Lease!Submit(j)
    BY <1>1, <2>1 DEF Lease!Submit, Phase
  <2>3. QED
    BY <2>2 DEF Lease!Next
<1>2. ASSUME NEW l \in Loops, PollEmpty(l) PROVE Lease!Next
  <2> DEFINE Q == CrashLooping(KindOf[l])
  <2>1. Q \in SUBSET Jobs /\ \A j \in Q : status[j] = "running" /\ lock[j] = 0
    BY DEF CrashLooping, Expired
  <2>2. \A j \in Q, m \in Loops : held[m] # j
    <3>1. \A m \in Loops : elapsed[m] \in 0 .. HandlerMax
      BY DEF ImplInv, QueueInv, TypeOK
    <3>2. QED
      BY <2>1, <3>1, HeldJobsAreOpen DEF ImplInv, LeaseInv, LeaseCovers
  <2>3. /\ status' = [j \in Jobs |-> IF j \in Q THEN "failed" ELSE status[j]]
        /\ held' = held
    BY <1>2 DEF PollEmpty, Quarantine, loopVars
  <2> HIDE DEF Q
  <2>4. QED
    BY <2>1, <2>2, <2>3, GiveUpIsDiscard
<1>3. ASSUME NEW p \in Procs, Crash(p) PROVE Lease!Next
  <2> DEFINE W == {l \in Loops : ProcOf[l] = p}
  <2>1. held' = [l \in Loops |-> IF l \in W THEN NoJob ELSE held[l]]
    BY <1>3 DEF Crash
  <2>2. status' = status
    BY <1>3 DEF Crash, jobVars
  <2>3. W \in SUBSET Loops
    OBVIOUS
  <2> HIDE DEF W
  <2>4. Lease!Die(W)
    BY <2>1, <2>2 DEF Lease!Die, Phase
  <2>5. QED
    BY <2>3, <2>4 DEF Lease!Next
<1>4. ASSUME NEW k \in Kinds, PurgeRunning(k) PROVE Lease!Next
  <2>1. PICK Z \in SUBSET Jobs :
          /\ \A j \in Z : status[j] = "running" /\ age[j] = PurgeTicks
          /\ status' = [j \in Jobs |-> IF j \in Z THEN "failed" ELSE status[j]]
          /\ held' = held
    BY <1>4 DEF PurgeRunning, loopVars
  <2>2. \A j \in Z, m \in Loops : held[m] # j
    <3>1. \A m \in Loops : elapsed[m] \in 0 .. HandlerMax
      BY DEF ImplInv, QueueInv, TypeOK
    <3>2. QED
      BY <2>1, <3>1, HeldJobsAreOpen DEF ImplInv, LeaseInv, LeaseCovers
  <2>3. QED
    BY <2>1, <2>2, GiveUpIsDiscard
<1>5. ASSUME NEW k \in Kinds, NEW s \in {"pending", "done"}, PurgeOther(k, s)
      PROVE  Lease!Next
  <2>1. PICK Z \in SUBSET Jobs :
          /\ \A j \in Z : status[j] \in {"pending", "done"}
          /\ status' = [j \in Jobs |-> IF j \in Z THEN "failed" ELSE status[j]]
          /\ held' = held
    BY <1>5 DEF PurgeOther, loopVars
  <2>2. \A j \in Z, m \in Loops : held[m] # j
    BY <2>1, HeldJobsAreOpen
  <2>3. QED
    BY <2>1, <2>2, GiveUpIsDiscard
<1>6. CASE UNCHANGED <<status, held>>
  BY <1>6 DEF Lease!vars, Phase
<1>7. QED
  <2>1. ASSUME NEW j \in Jobs, Enqueue(j) PROVE Lease!Next
    BY <1>1, <2>1 DEF Enqueue, loopVars
  <2>2. ASSUME NEW c \in Callers, NEW j \in Jobs, InsertKeyed(c, j) PROVE Lease!Next
    BY <1>1, <2>2 DEF InsertKeyed, loopVars
  <2>3. QED
    BY <1>2, <1>3, <1>4, <1>5, <1>6, <2>1, <2>2, DequeueIsClaim, WorkIsRelease
       DEF Next, vars, jobVars, loopVars, LookupKey, KeyConflict, SpendBreaker,
           WakeUp, Restart, Tick

\* The queue implements the exclusive lease service of LeaseQueue: a job is
\* leased to one worker at a time, and once done or given up never again.
THEOREM QueueImplementsLease ==
  ASSUME HandlerMax < LockTicks, AckLoss = FALSE
  PROVE  Spec => ImplementsLease
<1>1. Init => Lease!Init
  BY DEF Init, Lease!Init, Phase
<1>2. ImplInv /\ [Next]_vars => [Lease!Next]_(Lease!vars)
  BY NextImplementsLease
<1>3. QED
  BY <1>1, <1>2, ImplInvariance, PTL DEF Spec, ImplementsLease, Lease!Spec

-----------------------------------------------------------------------------
(***************************************************************************)
(* Verdicts.  Only the loop that runs a job records one, the attempt it    *)
(* records is the current one, and the job does not stay running; so the   *)
(* attempts of a running job's verdicts are all earlier ones.              *)
(***************************************************************************)
VerdictsAreEarlier ==
  \A j \in Jobs : \A v \in results[j] :
    v[1] <= attempts[j] /\ (status[j] = "running" => v[1] < attempts[j])

LEMMA NextKeepsVerdicts ==
  ASSUME HandlerMax < LockTicks, ImplInv, VerdictsAreEarlier, OneVerdictPerAttempt, [Next]_vars
  PROVE  VerdictsAreEarlier' /\ OneVerdictPerAttempt'
<1> USE QueueAssumption
<1>t. /\ attempts \in [Jobs -> 0 .. MaxAttempts]
      /\ status \in [Jobs -> Statuses]
      /\ results \in [Jobs -> SUBSET ((1 .. MaxAttempts) \X BOOLEAN)]
  BY DEF ImplInv, QueueInv, TypeOK
\* A loop's verdict is the first of its job's current attempt.
<1>1. ASSUME NEW l \in Loops, Work(l) PROVE VerdictsAreEarlier' /\ OneVerdictPerAttempt'
  <2>1. pc[l] = "running"
    BY <1>1 DEF Work, Complete, CompleteAckLost, Fail, ImplInv
  <2>2. PICK job \in Jobs : job = held[l] /\ status[job] = "running"
    BY <2>1 DEF ImplInv, QueueInv, HoldersHaveJobs, LeaseInv, LeaseCovers, Busy
  <2>3. PICK success \in BOOLEAN :
          /\ results' = [results EXCEPT ![job] = @ \cup {<<attempts[job], success>>}]
          /\ attempts' = attempts
          /\ \E s \in {"done", "failed", "pending"} : status' = [status EXCEPT ![job] = s]
    BY <1>1, <1>t, <2>2 DEF Work, Complete, CompleteAckLost, Fail, MarkDone, MarkFailed,
                            RecordResult, AfterFailure
  <2>4. \A v \in results[job] : v[1] < attempts[job]
    BY <2>2 DEF VerdictsAreEarlier
  <2>5. VerdictsAreEarlier'
    BY <1>t, <2>2, <2>3 DEF VerdictsAreEarlier
  <2>6. ASSUME NEW i \in Jobs, NEW n \in 1 .. MaxAttempts
        PROVE  ~(<<n, TRUE>> \in results'[i] /\ <<n, FALSE>> \in results'[i])
    <3>1. CASE i # job
      BY <1>t, <2>3, <3>1 DEF OneVerdictPerAttempt
    <3>2. CASE i = job
      <4>1. results'[i] = results[job] \cup {<<attempts[job], success>>}
        BY <1>t, <2>2, <2>3, <3>2
      <4>2. n = attempts[job] => \A b \in BOOLEAN : <<n, b>> \notin results[job]
        BY <1>t, <2>2, <2>4
      <4>3. ~(<<n, TRUE>> \in results[job] /\ <<n, FALSE>> \in results[job])
        BY <2>2 DEF OneVerdictPerAttempt
      <4> QED
        BY <4>1, <4>2, <4>3
    <3> QED
      BY <3>1, <3>2
  <2>7. OneVerdictPerAttempt'
    BY <2>6, Zenon DEF OneVerdictPerAttempt
  <2> QED
    BY <2>5, <2>7
\* A claim starts the next attempt; the rest only end attempts or record none.
<1>2. ASSUME NEW l \in Loops, Dequeue(l) PROVE VerdictsAreEarlier' /\ OneVerdictPerAttempt'
  <2>1. PICK j \in Due(KindOf[l]) :
          /\ attempts' = [attempts EXCEPT ![j] = @ + 1]
          /\ status' = [i \in Jobs |-> IF i = j THEN "running"
                                       ELSE Quarantine(i, CrashLooping(KindOf[l]))]
    BY <1>2 DEF Dequeue
  <2>2. j \in Jobs /\ results' = results
    BY <1>2 DEF Dequeue, Due
  <2>3. ASSUME NEW i \in Jobs, NEW v \in results[i]
        PROVE  v[1] <= attempts'[i] /\ (status'[i] = "running" => v[1] < attempts'[i])
    <3>1. v[1] \in Nat /\ v[1] <= attempts[i]
      BY <1>t DEF VerdictsAreEarlier
    <3>2. CASE i = j
      BY <1>t, <2>1, <2>2, <3>1, <3>2
    <3>3. CASE i # j
      <4>1. attempts'[i] = attempts[i] /\ (status'[i] = "running" => status[i] = "running")
        BY <1>t, <2>1, <3>3 DEF Quarantine
      <4> QED
        BY <3>1, <4>1 DEF VerdictsAreEarlier
    <3> QED
      BY <3>2, <3>3
  <2> QED
    BY <2>2, <2>3 DEF VerdictsAreEarlier, OneVerdictPerAttempt
<1>3. ASSUME attempts' = attempts, results' = results,
             \A i \in Jobs : status'[i] = "running" => status[i] = "running"
      PROVE  VerdictsAreEarlier' /\ OneVerdictPerAttempt'
  BY <1>3 DEF VerdictsAreEarlier, OneVerdictPerAttempt
<1>4. ASSUME NEW l \in Loops, PollEmpty(l) PROVE VerdictsAreEarlier' /\ OneVerdictPerAttempt'
  BY <1>3, <1>4 DEF PollEmpty, Quarantine
<1>5. ASSUME NEW k \in Kinds, PurgeRunning(k) \/ \E s \in {"pending", "done"} : PurgeOther(k, s)
      PROVE  VerdictsAreEarlier' /\ OneVerdictPerAttempt'
  BY <1>3, <1>5 DEF PurgeRunning, PurgeOther
<1>6. ASSUME NEW j \in Jobs, Enqueue(j) \/ \E c \in Callers : InsertKeyed(c, j)
      PROVE  VerdictsAreEarlier' /\ OneVerdictPerAttempt'
  BY <1>3, <1>6, <1>t DEF Enqueue, InsertKeyed
<1>7. CASE UNCHANGED <<status, attempts, results>>
  BY <1>3, <1>7
<1> QED
  BY <1>1, <1>2, <1>4, <1>5, <1>6, <1>7
     DEF Next, vars, jobVars, LookupKey, KeyConflict, SpendBreaker, WakeUp, Crash, Restart, Tick

\* With handlers inside their lock and no lost acknowledgement no attempt is
\* recorded both as a success and as a failure.
THEOREM OneVerdictPerAttemptHolds ==
  ASSUME HandlerMax < LockTicks, AckLoss = FALSE
  PROVE  Spec => []OneVerdictPerAttempt
<1>1. Init => VerdictsAreEarlier /\ OneVerdictPerAttempt
  BY DEF Init, VerdictsAreEarlier, OneVerdictPerAttempt
<1>2. ImplInv /\ VerdictsAreEarlier /\ OneVerdictPerAttempt /\ [Next]_vars
        => VerdictsAreEarlier' /\ OneVerdictPerAttempt'
  BY NextKeepsVerdicts
<1> QED
  BY <1>1, <1>2, ImplInvariance, PTL DEF Spec

\* Under the same assumptions a job that is done is never run again: only the
\* loop that runs a job writes its verdict, and only a purge relabels it.
THEOREM DoneIsFinalHolds ==
  ASSUME HandlerMax < LockTicks, AckLoss = FALSE
  PROVE  Spec => DoneIsFinal
<1> DEFINE Kept == \A j \in Jobs : status[j] = "done" =>
                     \/ status'[j] = "done"
                     \/ status'[j] = "failed" /\ j \in purged'
<1>1. ImplInv /\ [Next]_vars => [Kept]_vars
  <2> SUFFICES ASSUME ImplInv, Next, NEW j \in Jobs, status[j] = "done"
               PROVE  status'[j] = "done" \/ (status'[j] = "failed" /\ j \in purged')
    OBVIOUS
  <2>t. status \in [Jobs -> Statuses]
    BY DEF ImplInv, QueueInv, TypeOK
  <2>1. ASSUME NEW l \in Loops, Work(l) PROVE status'[j] = "done"
    <3>1. pc[l] = "running"
      BY <2>1 DEF Work, Complete, CompleteAckLost, Fail, ImplInv
    <3>2. held[l] # j
      BY <3>1 DEF ImplInv, LeaseInv, LeaseCovers
    <3> QED
      BY <2>1, <2>t, <3>2 DEF Work, Complete, CompleteAckLost, Fail, MarkDone, MarkFailed
  <2>2. ASSUME NEW l \in Loops, Dequeue(l) \/ PollEmpty(l) PROVE status'[j] = "done"
    BY <2>2 DEF Dequeue, PollEmpty, Due, CrashLooping, Expired, Quarantine
  <2>3. ASSUME NEW i \in Jobs, Enqueue(i) \/ \E c \in Callers : InsertKeyed(c, i)
        PROVE  status'[j] = "done"
    BY <2>3, <2>t DEF Enqueue, InsertKeyed
  <2>4. ASSUME NEW k \in Kinds, PurgeRunning(k) PROVE status'[j] = "done"
    BY <2>4 DEF PurgeRunning
  <2>5. ASSUME NEW k \in Kinds, NEW s \in {"pending", "done"}, PurgeOther(k, s)
        PROVE  status'[j] = "done" \/ (status'[j] = "failed" /\ j \in purged')
    BY <2>5 DEF PurgeOther
  <2>6. CASE status' = status
    BY <2>6
  <2> QED
    BY <2>1, <2>2, <2>3, <2>4, <2>5, <2>6
       DEF Next, vars, jobVars, LookupKey, KeyConflict, SpendBreaker, WakeUp, Crash, Restart, Tick
<1>2. Spec => [][Kept]_vars
  BY <1>1, ImplInvariance, PTL DEF Spec
<1> QED
  BY <1>2 DEF DoneIsFinal
=============================================================================
