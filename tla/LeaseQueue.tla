----------------------------- MODULE LeaseQueue -----------------------------
(***************************************************************************)
(* What callers may expect of the job queue: a submitted job is leased to  *)
(* at most one worker at a time, whoever finishes or gives up a job is its *)
(* holder or acts on an unheld job, a dead worker's jobs become unheld,    *)
(* and a settled job is never leased again.  No locks, clocks, attempts.   *)
(***************************************************************************)
CONSTANTS Jobs, NoJob, Workers

VARIABLES
  phase,   \* "absent", "open" or "settled"
  holds    \* the job each worker leases, or NoJob

vars == <<phase, holds>>

Held == {holds[w] : w \in Workers} \ {NoJob}

Init ==
  /\ phase = [j \in Jobs |-> "absent"]
  /\ holds = [w \in Workers |-> NoJob]

Submit(j) ==
  /\ phase[j] = "absent"
  /\ phase' = [phase EXCEPT ![j] = "open"]
  /\ UNCHANGED holds

\* Give up jobs nobody holds.
GiveUp(Q) ==
  /\ \A j \in Q : phase[j] # "absent" /\ j \notin Held
  /\ phase' = [j \in Jobs |-> IF j \in Q THEN "settled" ELSE phase[j]]

Discard(Q) == GiveUp(Q) /\ UNCHANGED holds

\* Lease an open job nobody holds, giving up some others on the way.
Claim(w, j, Q) ==
  /\ holds[w] = NoJob
  /\ phase[j] = "open" /\ j \notin Held /\ j \notin Q
  /\ GiveUp(Q)
  /\ holds' = [holds EXCEPT ![w] = j]

\* The holder ends its lease, for good or to have the job tried again.
Release(w, verdict) ==
  /\ holds[w] # NoJob
  /\ phase[holds[w]] = "open"
  /\ phase' = [phase EXCEPT ![holds[w]] = verdict]
  /\ holds' = [holds EXCEPT ![w] = NoJob]

\* Workers die together; their jobs stay open and unheld.
Die(W) ==
  /\ holds' = [w \in Workers |-> IF w \in W THEN NoJob ELSE holds[w]]
  /\ UNCHANGED phase

Next ==
  \/ \E j \in Jobs : Submit(j)
  \/ \E Q \in SUBSET Jobs : Discard(Q)
  \/ \E w \in Workers, j \in Jobs, Q \in SUBSET Jobs : Claim(w, j, Q)
  \/ \E w \in Workers, verdict \in {"open", "settled"} : Release(w, verdict)
  \/ \E W \in SUBSET Workers : Die(W)

Spec == Init /\ [][Next]_vars
=============================================================================
