------------------------------- MODULE WorkPool -------------------------------
(***************************************************************************)
(* What the job queue promises its callers, with the ring, the cursors and *)
(* the assignment protocol abstracted away: a job offered to the pool is   *)
(* rejected or accepted, an accepted job is picked up by one idle worker,  *)
(* and it runs once.                                                       *)
(***************************************************************************)
CONSTANTS Jobs, Workers, NoJob

VARIABLES
  status,   \* what has become of each job
  running   \* the job each worker is executing, or NoJob

poolVars == <<status, running>>

PoolInit ==
  /\ status = [j \in Jobs |-> "offered"]
  /\ running = [w \in Workers |-> NoJob]

Reject(j) ==
  /\ status[j] = "offered"
  /\ status' = [status EXCEPT ![j] = "rejected"]
  /\ UNCHANGED running

Accept(j) ==
  /\ status[j] = "offered"
  /\ status' = [status EXCEPT ![j] = "accepted"]
  /\ UNCHANGED running

Start(w, j) ==
  /\ status[j] = "accepted"
  /\ running[w] = NoJob
  /\ status' = [status EXCEPT ![j] = "running"]
  /\ running' = [running EXCEPT ![w] = j]

Finish(w) ==
  /\ running[w] # NoJob
  /\ status' = [status EXCEPT ![running[w]] = "done"]
  /\ running' = [running EXCEPT ![w] = NoJob]

PoolNext ==
  \/ \E j \in Jobs : Reject(j) \/ Accept(j)
  \/ \E w \in Workers : Finish(w) \/ \E j \in Jobs : Start(w, j)

PoolSpec == PoolInit /\ [][PoolNext]_poolVars
=============================================================================
