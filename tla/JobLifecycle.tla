---------------------------- MODULE JobLifecycle ----------------------------
(***************************************************************************)
(* What the queue promises of a job, the lifecycle of docs/architecture/   *)
(* jobs-and-workers.md as the code keeps it: a job waits, runs, and in the *)
(* end is completed, failed or cancelled; it may wait again after a failed *)
(* attempt or a crash, but never once its work has taken effect.           *)
(***************************************************************************)
CONSTANT Jobs

VARIABLES
  phase,     \* where each job is in its life
  done       \* the jobs whose work has taken effect

Phases == {"absent", "waiting", "running", "completed", "failed",
           "cancelled", "gone"}

\* What one job may do in a step.  A cancellation that comes while the job
\* runs shows only when the run has ended.
Moves ==
  {<<"absent", "waiting">>,
   <<"waiting", "running">>, <<"waiting", "cancelled">>,
   <<"running", "waiting">>,
   <<"running", "completed">>, <<"running", "failed">>,
   <<"running", "cancelled">>,
   <<"completed", "cancelled">>, <<"failed", "cancelled">>}
  \cup ((Phases \ {"absent", "gone"}) \X {"gone"})

Init == phase = [j \in Jobs |-> "absent"] /\ done = {}

\* The work of a job takes effect when its run ends and never before, and a
\* job that is done does not go back to waiting or running.
Takes(j) == /\ phase[j] = "running"
            /\ phase'[j] \in {"completed", "cancelled"}

Next ==
  /\ phase' \in [Jobs -> Phases]
  /\ \A j \in Jobs : phase'[j] # phase[j] => <<phase[j], phase'[j]>> \in Moves
  /\ done \subseteq done'
  /\ \A j \in done' \ done : Takes(j)
  /\ \A j \in Jobs : phase'[j] = "completed" => j \in done'
  /\ \A j \in done' : phase'[j] \notin {"absent", "waiting", "running"}

Spec == Init /\ [][Next]_<<phase, done>>
=============================================================================
