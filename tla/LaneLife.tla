------------------------------ MODULE LaneLife ------------------------------
(***************************************************************************)
(* What the long-transfer lane promises the sync passes, without its       *)
(* queue, marks, timers and goroutines: the life of a job.  A job is       *)
(* accepted, waits and runs (as often as it is paused), may be set aside,  *)
(* leaves once, and is told once how it ended.  A set-aside job never      *)
(* runs again, a job that has left never comes back, no path is held       *)
(* twice, and at most Workers jobs run.                                    *)
(***************************************************************************)
EXTENDS Naturals

CONSTANTS Jobs, Paths, PathOf, Workers

VARIABLE stage

Stages == {"new", "waiting", "running", "parked", "leaving", "told"}
In     == {"waiting", "running", "parked"}

\* What the stage of one job may become in a step.  A paused job that finds a
\* worker free goes from running to running, through the queue.
After == [ new     |-> {"new", "waiting", "running"},
           waiting |-> {"waiting", "running", "parked", "leaving"},
           running |-> {"running", "waiting", "parked", "leaving"},
           parked  |-> {"parked", "leaving"},
           leaving |-> {"leaving", "told"},
           told    |-> {"told"} ]

Running(st) == {j \in Jobs : st[j] = "running"}
\* Every running job can have a worker of its own.
Staffed(st) ==
  \E f \in [Running(st) -> 1 .. Workers] :
    \A j, k \in Running(st) : f[j] = f[k] => j = k
Distinct(st) ==
  \A j, k \in Jobs : j # k /\ st[j] \in In /\ st[k] \in In => PathOf[j] # PathOf[k]

LifeInit == stage = [j \in Jobs |-> "new"]

LifeNext ==
  /\ stage' \in [Jobs -> Stages]
  /\ \A j \in Jobs : stage'[j] \in After[stage[j]]
  /\ Staffed(stage')
  /\ Distinct(stage')

LifeSpec == LifeInit /\ [][LifeNext]_stage
=============================================================================
