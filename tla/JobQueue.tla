------------------------------ MODULE JobQueue ------------------------------
(***************************************************************************)
(* The Postgres-backed job queue of src/nodalpulse/queue/pg_queue.py: the  *)
(* jobs table, the worker loops that poll it, the processes that carry the *)
(* loops and may be killed, the admin purge endpoint and the keyed         *)
(* (idempotent) enqueue.  One action is one database transaction.          *)
(*                                                                         *)
(* Time is kept as remaining or elapsed ticks, so it needs no bound: lock  *)
(* is locked_until - NOW, wait is run_after - NOW, age is NOW -            *)
(* updated_at.  A job's clocks advance while a query can still read them.  *)
(***************************************************************************)
EXTENDS Integers, FiniteSets

CONSTANTS
  Jobs,          \* the rows the jobs table may come to hold
  NoJob,         \* a loop that runs nothing
  Kinds,         \* the keys of HANDLERS in worker.py
  Procs,         \* worker processes (replicas, or old and new at a redeploy)
  Loops,         \* one run_worker coroutine per process and kind
  KindOf,        \* the kind a loop polls
  ProcOf,        \* the process a loop lives in
  Prios,         \* priorities callers pass to enqueue
  Callers,       \* concurrent callers of enqueue_idempotent
  Keys, NoKey,   \* idempotency keys, and the NULL key
  MaxAttempts,   \* jobs.max_attempts
  LockTicks,     \* lock_seconds
  BackoffTicks,  \* the 30 seconds of fail()
  PurgeTicks,    \* the 1 hour of admin_jobs_purge
  HandlerMax,    \* ticks a handler may run before it returns or dies
  AckLoss,       \* whether a COMMIT may succeed and still raise at the client
  OverdueCap     \* how far in the past run_after is told apart

ASSUME QueueAssumption ==
  /\ NoJob \notin Jobs
  /\ NoKey \notin Keys
  /\ KindOf \in [Loops -> Kinds]
  /\ ProcOf \in [Loops -> Procs]
  /\ Prios \subseteq Int
  /\ MaxAttempts \in Nat \ {0}
  /\ LockTicks \in Nat \ {0}
  /\ BackoffTicks \in Nat
  /\ PurgeTicks \in Nat /\ LockTicks <= PurgeTicks
  /\ HandlerMax \in Nat
  /\ AckLoss \in BOOLEAN
  /\ OverdueCap \in Nat

VARIABLES
  status,    \* jobs.status, "absent" before the INSERT
  kind,      \* jobs.kind
  prio,      \* jobs.priority
  key,       \* jobs.idempotency_key
  attempts,  \* jobs.attempts
  lock,      \* ticks until locked_until has passed; NoLock is NULL
  wait,      \* ticks until run_after, negative once it has passed
  age,       \* ticks since updated_at, counted while the job runs
  results,   \* job_results: per job the <<attempt, success>> pairs inserted
  pc,        \* where each run_worker loop is
  held,      \* the job each loop dequeued
  elapsed,   \* ticks since that dequeue
  intent,    \* a key an enqueue_idempotent SELECT found missing
  raised,    \* callers whose INSERT broke the unique index
  purged     \* history: the jobs an admin purge ever touched

jobVars    == <<status, kind, prio, key, attempts, lock, wait, age, results>>
loopVars   == <<pc, held, elapsed>>
callerVars == <<intent, raised>>
vars       == <<jobVars, loopVars, callerVars, purged>>

-----------------------------------------------------------------------------
NoLock   == -1
Statuses == {"absent", "pending", "running", "done", "failed"}
Places   == {"idle", "running", "failing", "paused", "down"}
Waits    == (-OverdueCap) .. (MaxAttempts * BackoffTicks)

TypeOK ==
  /\ status   \in [Jobs -> Statuses]
  /\ kind     \in [Jobs -> Kinds]
  /\ prio     \in [Jobs -> Prios]
  /\ key      \in [Jobs -> Keys \cup {NoKey}]
  /\ attempts \in [Jobs -> 0 .. MaxAttempts]
  /\ lock     \in [Jobs -> NoLock .. LockTicks]
  /\ wait     \in [Jobs -> Waits]
  /\ age      \in [Jobs -> 0 .. PurgeTicks]
  /\ results  \in [Jobs -> SUBSET ((1 .. MaxAttempts) \X BOOLEAN)]
  /\ pc       \in [Loops -> Places]
  /\ held     \in [Loops -> Jobs \cup {NoJob}]
  /\ elapsed  \in [Loops -> 0 .. HandlerMax]
  /\ intent   \in [Callers -> Keys \cup {NoKey}]
  /\ raised   \subseteq Callers
  /\ purged   \subseteq Jobs

Init ==
  /\ status   = [j \in Jobs |-> "absent"]
  /\ kind     \in [Jobs -> Kinds]     \* free until the INSERT fixes them
  /\ prio     \in [Jobs -> Prios]
  /\ key      = [j \in Jobs |-> NoKey]
  /\ attempts = [j \in Jobs |-> 0]
  /\ lock     = [j \in Jobs |-> NoLock]
  /\ wait     = [j \in Jobs |-> 0]
  /\ age      = [j \in Jobs |-> 0]
  /\ results  = [j \in Jobs |-> {}]
  /\ pc       = [l \in Loops |-> "idle"]
  /\ held     = [l \in Loops |-> NoJob]
  /\ elapsed  = [l \in Loops |-> 0]
  /\ intent   = [c \in Callers |-> NoKey]
  /\ raised   = {}
  /\ purged   = {}

-----------------------------------------------------------------------------
(* Enqueueing *)

\* enqueue(): one INSERT with the table's defaults.
Enqueue(j) ==
  /\ status[j] = "absent"
  /\ status' = [status EXCEPT ![j] = "pending"]
  /\ UNCHANGED <<kind, prio, key, attempts, lock, wait, age, results,
                 loopVars, callerVars, purged>>

\* The SELECT of enqueue_idempotent: a caller that finds the key returns the
\* existing job and changes nothing; one that does not goes on to INSERT.
LookupKey(c, k) ==
  /\ intent[c] = NoKey /\ c \notin raised
  /\ \A j \in Jobs : key[j] # k
  /\ intent' = [intent EXCEPT ![c] = k]
  /\ UNCHANGED <<jobVars, loopVars, raised, purged>>

\* The partial unique index on jobs.idempotency_key, and a schema without it.
IndexAdmits_Missing(k) == TRUE
IndexAdmits(k) == \A o \in Jobs : key[o] # k

\* The INSERT of enqueue_idempotent.  The unique index of
\* add_idempotency_key.sql admits one row per key; the statement has no ON
\* CONFLICT, so the loser's transaction raises instead of returning the row.
InsertKeyed(c, j) ==
  /\ intent[c] # NoKey
  /\ status[j] = "absent"
  /\ IndexAdmits(intent[c])
  /\ status' = [status EXCEPT ![j] = "pending"]
  /\ key'    = [key EXCEPT ![j] = intent[c]]
  /\ intent' = [intent EXCEPT ![c] = NoKey]
  /\ UNCHANGED <<kind, prio, attempts, lock, wait, age, results,
                 loopVars, raised, purged>>

KeyConflict(c) ==
  /\ intent[c] # NoKey
  /\ ~IndexAdmits(intent[c])
  /\ intent' = [intent EXCEPT ![c] = NoKey]
  /\ raised' = raised \cup {c}
  /\ UNCHANGED <<jobVars, loopVars, purged>>

-----------------------------------------------------------------------------
(* dequeue(): the crash-loop guard and the claim, in one transaction *)

\* updated_at = NOW() on some rows, and a statement that leaves it out.
Touch_Forgotten(S) == age' = age
Touch(S) == age' = [j \in Jobs |-> IF j \in S THEN 0 ELSE age[j]]

\* status = 'running' AND locked_until < NOW(), and a test of status alone.
Expired_LockIgnored(j) == status[j] = "running"
Expired(j) == status[j] = "running" /\ lock[j] = 0

\* The rows the guard quarantines; without the guard; with no cap in it.
CrashLooping_NoGuard(k) == {}
CrashLooping_NoCap(k) == {j \in Jobs : kind[j] = k /\ Expired(j)}
CrashLooping(k) ==
  {j \in Jobs : kind[j] = k /\ Expired(j) /\ attempts[j] >= MaxAttempts}

\* The rows the claim may take; a claim that forgets expired locks.
Due_PendingOnly(k) ==
  {j \in Jobs : kind[j] = k /\ status[j] = "pending" /\ wait[j] <= 0}
Due(k) ==
  {j \in Jobs : /\ kind[j] = k
                /\ \/ status[j] = "pending" /\ wait[j] <= 0
                   \/ Expired(j)}

\* ORDER BY priority DESC, run_after ASC
Before(i, j) ==
  \/ prio[i] > prio[j]
  \/ prio[i] = prio[j] /\ wait[i] < wait[j]

Quarantine(j, Q) == IF j \in Q THEN "failed" ELSE status[j]

Dequeue(l) ==
  LET Q     == CrashLooping(KindOf[l])
      ready == Due(KindOf[l]) \ Q
  IN  /\ pc[l] = "idle"
      /\ \E j \in ready :
           /\ \A i \in ready : ~Before(i, j)
           /\ status'   = [i \in Jobs |-> IF i = j THEN "running"
                                          ELSE Quarantine(i, Q)]
           /\ lock'     = [i \in Jobs |-> IF i = j THEN LockTicks
                                          ELSE IF i \in Q THEN NoLock
                                          ELSE lock[i]]
           /\ Touch(Q \cup {j})
           /\ attempts' = [attempts EXCEPT ![j] = @ + 1]
           /\ held'     = [held EXCEPT ![l] = j]
      /\ pc'      = [pc EXCEPT ![l] = "running"]
      /\ elapsed' = [elapsed EXCEPT ![l] = 0]
      /\ UNCHANGED <<kind, prio, key, wait, results, callerVars, purged>>

\* The poll that finds nothing to claim still commits the guard's UPDATE.
PollEmpty(l) ==
  LET Q == CrashLooping(KindOf[l])
  IN  /\ pc[l] = "idle"
      /\ Due(KindOf[l]) \ Q = {}
      /\ status' = [i \in Jobs |-> Quarantine(i, Q)]
      /\ lock'   = [i \in Jobs |-> IF i \in Q THEN NoLock ELSE lock[i]]
      /\ Touch(Q)
      /\ UNCHANGED <<kind, prio, key, attempts, wait, results,
                     loopVars, callerVars, purged>>

-----------------------------------------------------------------------------
(* complete() and fail(): by id alone, whatever the row has become *)

RecordResult(j, success) ==
  results' = [results EXCEPT ![j] = @ \cup {<<attempts[j], success>>}]

MarkDone(j) ==
  /\ status' = [status EXCEPT ![j] = "done"]
  /\ Touch({j})
  /\ RecordResult(j, TRUE)
  /\ UNCHANGED <<kind, prio, key, attempts, lock, wait>>

\* CASE WHEN attempts >= max_attempts, and the same off by one.
AfterFailure_OffByOne(j) == IF attempts[j] > MaxAttempts THEN "failed" ELSE "pending"
AfterFailure(j) == IF attempts[j] >= MaxAttempts THEN "failed" ELSE "pending"

\* locked_until = NULL.
Unlock(j) == lock' = [lock EXCEPT ![j] = NoLock]

MarkFailed(j) ==
  /\ status' = [status EXCEPT ![j] = AfterFailure(j)]
  /\ Unlock(j)
  /\ wait'   = [wait EXCEPT ![j] = attempts[j] * BackoffTicks]
  /\ Touch({j})
  /\ RecordResult(j, FALSE)
  /\ UNCHANGED <<kind, prio, key, attempts>>

LeaveJob(l, place) ==
  /\ pc'      = [pc EXCEPT ![l] = place]
  /\ held'    = [held EXCEPT ![l] = NoJob]
  /\ elapsed' = [elapsed EXCEPT ![l] = 0]

\* The handler returned and complete() committed; and a loop that then runs
\* on into fail().
Complete_FallsThrough(l) ==
  /\ pc[l] = "running"
  /\ MarkDone(held[l])
  /\ pc' = [pc EXCEPT ![l] = "failing"]
  /\ UNCHANGED <<held, elapsed, callerVars, purged>>

Complete(l) ==
  /\ pc[l] = "running"
  /\ MarkDone(held[l])
  /\ LeaveJob(l, "idle")
  /\ UNCHANGED <<callerVars, purged>>

\* complete() committed but its await raised: the try block of run_worker
\* takes this for a failed handler.
CompleteAckLost(l) ==
  /\ AckLoss
  /\ pc[l] = "running"
  /\ MarkDone(held[l])
  /\ pc' = [pc EXCEPT ![l] = "failing"]
  /\ UNCHANGED <<held, elapsed, callerVars, purged>>

\* The handler (or complete) raised: fail(), then poll again or, on
\* CreditExhaustedError, sleep for a day.
Fail(l) ==
  /\ pc[l] \in {"running", "failing"}
  /\ MarkFailed(held[l])
  /\ \E place \in {"idle", "paused"} :
       /\ pc[l] = "failing" => place = "idle"
       /\ LeaveJob(l, place)
  /\ UNCHANGED <<callerVars, purged>>

\* The spend circuit breaker at the top of the loop.
SpendBreaker(l) ==
  /\ pc[l] = "idle"
  /\ pc' = [pc EXCEPT ![l] = "paused"]
  /\ UNCHANGED <<jobVars, held, elapsed, callerVars, purged>>

WakeUp(l) ==
  /\ pc[l] = "paused"
  /\ pc' = [pc EXCEPT ![l] = "idle"]
  /\ UNCHANGED <<jobVars, held, elapsed, callerVars, purged>>

-----------------------------------------------------------------------------
(* Processes.  main() gathers every loop: an OOM kill, a redeploy, or an    *)
(* exception that leaves one run_worker (its dequeue or its fail raised)    *)
(* ends all loops of the process; their jobs keep status 'running'.         *)

Crash(p) ==
  /\ \E l \in Loops : ProcOf[l] = p /\ pc[l] # "down"
  /\ pc'      = [l \in Loops |-> IF ProcOf[l] = p THEN "down" ELSE pc[l]]
  /\ held'    = [l \in Loops |-> IF ProcOf[l] = p THEN NoJob ELSE held[l]]
  /\ elapsed' = [l \in Loops |-> IF ProcOf[l] = p THEN 0 ELSE elapsed[l]]
  /\ UNCHANGED <<jobVars, callerVars, purged>>

Restart(p) ==
  /\ \E l \in Loops : ProcOf[l] = p /\ pc[l] = "down"
  /\ pc' = [l \in Loops |-> IF ProcOf[l] = p /\ pc[l] = "down" THEN "idle"
                            ELSE pc[l]]
  /\ UNCHANGED <<jobVars, held, elapsed, callerVars, purged>>

-----------------------------------------------------------------------------
(* POST /admin/jobs/purge *)

PurgeRunning(k) ==
  LET zombies == {j \in Jobs : /\ kind[j] = k /\ status[j] = "running"
                               /\ age[j] = PurgeTicks}
  IN  /\ zombies # {}
      /\ status' = [j \in Jobs |-> IF j \in zombies THEN "failed" ELSE status[j]]
      /\ lock'   = [j \in Jobs |-> IF j \in zombies THEN NoLock ELSE lock[j]]
      /\ Touch(zombies)
      /\ purged' = purged \cup zombies
      /\ UNCHANGED <<kind, prio, key, attempts, wait, results,
                     loopVars, callerVars>>

\* Any other status in the request body, "done" included.
PurgeOther(k, s) ==
  LET chosen == {j \in Jobs : kind[j] = k /\ status[j] = s}
  IN  /\ chosen # {}
      /\ status' = [j \in Jobs |-> IF j \in chosen THEN "failed" ELSE status[j]]
      /\ purged' = purged \cup chosen
      /\ UNCHANGED <<kind, prio, key, attempts, lock, wait, age, results,
                     loopVars, callerVars>>

-----------------------------------------------------------------------------
(* Time.  HandlerMax is the longest a handler and the complete() or fail()  *)
(* after it may take: the code sets no limit, so the runs choose one below  *)
(* the lock, and one above it.                                              *)

Busy(l) == pc[l] \in {"running", "failing"}

Tick ==
  /\ \A l \in Loops : Busy(l) => elapsed[l] < HandlerMax
  /\ lock'    = [j \in Jobs |-> IF status[j] = "running" /\ lock[j] > 0
                                THEN lock[j] - 1 ELSE lock[j]]
  /\ age'     = [j \in Jobs |-> IF status[j] = "running" /\ age[j] < PurgeTicks
                                THEN age[j] + 1 ELSE age[j]]
  /\ wait'    = [j \in Jobs |-> IF /\ status[j] \in {"pending", "running"}
                                   /\ wait[j] > -OverdueCap
                                THEN wait[j] - 1 ELSE wait[j]]
  /\ elapsed' = [l \in Loops |-> IF Busy(l) THEN elapsed[l] + 1 ELSE elapsed[l]]
  /\ UNCHANGED <<status, kind, prio, key, attempts, results, pc, held,
                 callerVars, purged>>

-----------------------------------------------------------------------------
Work(l) == Complete(l) \/ CompleteAckLost(l) \/ Fail(l)

Next ==
  \/ \E j \in Jobs : Enqueue(j)
  \/ \E c \in Callers, k \in Keys : LookupKey(c, k)
  \/ \E c \in Callers, j \in Jobs : InsertKeyed(c, j)
  \/ \E c \in Callers : KeyConflict(c)
  \/ \E l \in Loops : \/ Dequeue(l) \/ PollEmpty(l) \/ Work(l)
                      \/ SpendBreaker(l) \/ WakeUp(l)
  \/ \E p \in Procs : Crash(p) \/ Restart(p)
  \/ \E k \in Kinds : PurgeRunning(k)
  \/ \E k \in Kinds, s \in {"pending", "done"} : PurgeOther(k, s)
  \/ Tick

Spec == Init /\ [][Next]_vars

\* Postgres serves every poll, sleeps end, the platform restarts a dead
\* process, and handlers return: what the deployment gives, not the code.
Fairness ==
  /\ WF_vars(Tick)
  /\ \A l \in Loops : /\ SF_vars(Dequeue(l) \/ PollEmpty(l))
                      /\ WF_vars(Work(l))
                      /\ WF_vars(WakeUp(l))
  /\ \A p \in Procs : WF_vars(Restart(p))

FairSpec == Spec /\ Fairness

-----------------------------------------------------------------------------
(* What holds however long handlers run *)

\* The retry cap survives every route back to the queue: a job waiting to be
\* picked has an attempt left, one that runs has used at least one.  Clean
\* failures are capped by fail(), crash loops by dequeue()'s guard, and the
\* guard must come before the claim for the claim to stay under the cap.
RetryBudget ==
  \A j \in Jobs : /\ status[j] = "pending" => attempts[j] < MaxAttempts
                  /\ status[j] = "running" => attempts[j] \in 1 .. MaxAttempts

\* The queue gives up on a job only after its last attempt; any other failed
\* row was purged by an admin (fail() and the guard of dequeue()).
GivenUpOnlyWhenSpent ==
  \A j \in Jobs : status[j] = "failed" /\ j \notin purged
                    => attempts[j] = MaxAttempts

\* Attempts are never overdrawn and never given up early, whichever of fail(),
\* the guard, a crash, a restart or a purge decides on a job.
AttemptsAreCounted == RetryBudget /\ GivenUpOnlyWhenSpent

\* "Only matches jobs whose locked_until has expired": the purge of running
\* jobs tests updated_at, never locked_until, and is right because dequeue()
\* sets both and nothing touches updated_at of a job that stays running.
PurgeableIsExpired ==
  \A j \in Jobs : status[j] = "running" /\ age[j] = PurgeTicks => lock[j] = 0

\* Two concurrent enqueue_idempotent calls never leave two jobs for a key.
OneJobPerKey ==
  \A i, j \in Jobs : key[i] = key[j] /\ key[i] # NoKey => i = j

\* Every job ends up done or failed for good: crashes, lost acknowledgements
\* and late answers of a worker that lost its lock can only reopen it while
\* an attempt is left.
EverySettles ==
  \A j \in Jobs : <>[](status[j] \in {"absent", "done", "failed"})

-----------------------------------------------------------------------------
(* What needs handlers to finish inside their lock (HandlerMax < LockTicks) *)

\* No job is being executed by two loops.  Nothing fences a late worker, so
\* this rests on the lock outliving the handler.
ExclusiveExecution ==
  \A l, m \in Loops : Busy(l) /\ Busy(m) /\ held[l] = held[m] => l = m

\* No attempt is recorded both as a success and as a failure.
OneVerdictPerAttempt ==
  \A j \in Jobs, n \in 1 .. MaxAttempts :
    ~(<<n, TRUE>> \in results[j] /\ <<n, FALSE>> \in results[j])

\* A job that is done is never run again; only a purge relabels it.
DoneIsFinal ==
  [][\A j \in Jobs : status[j] = "done" =>
       \/ status'[j] = "done"
       \/ status'[j] = "failed" /\ j \in purged']_vars

\* The lease view of the queue: who holds which job, hidden behind status,
\* lock and the loops' program counters (see LeaseQueue).
Phase(j) == CASE status[j] = "absent"                 -> "absent"
              [] status[j] \in {"pending", "running"} -> "open"
              [] OTHER                                -> "settled"

Lease == INSTANCE LeaseQueue WITH
           Workers <- Loops,
           phase   <- [j \in Jobs |-> Phase(j)],
           holds   <- held

\* With handlers inside their lock the queue is an exclusive lease service.
ImplementsLease == Lease!Spec
=============================================================================
