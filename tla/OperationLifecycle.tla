-------------------------- MODULE OperationLifecycle --------------------------
(***************************************************************************)
(* What the rest of the operator may rely on of a CruiseControlOperation:  *)
(* the life of the object, seen through the fields that the                *)
(* CruiseControlTask controller reads.  CCOperation implements this        *)
(* specification; GracefulAction builds on it.                             *)
(***************************************************************************)
EXTENDS CCOperationTypes

CONSTANT Objects

VARIABLE ops

LifecycleObject ==
  [ phase : {"unborn", "live", "gone"}, set : BOOLEAN, policy : Policies,
    paused : BOOLEAN, deleting : BOOLEAN, state : TaskStates, retries : Nat ]

LifecycleInit == ops = [o \in Objects |-> View(Unborn)]

Becomes(o, op) == ops' = [ops EXCEPT ![o] = op]

\* The object is created without a status, which follows.
Create(o, policy) ==
  /\ ops[o].phase = "unborn"
  /\ Becomes(o, [View(Unborn) EXCEPT !.phase = "live", !.policy = policy])

SetTask(o) ==
  /\ ops[o].phase = "live" /\ ~ops[o].set
  /\ Becomes(o, [ops[o] EXCEPT !.set = TRUE])

\* Users and the operator change labels, the error policy and the deletion
\* timestamp, never the task.
Edit(o) ==
  /\ ops[o].phase = "live"
  /\ \E policy \in Policies : \E paused, deleting \in BOOLEAN :
       /\ ops[o].deleting => deleting
       /\ Becomes(o, [ops[o] EXCEPT !.policy = policy, !.paused = paused,
                                    !.deleting = deleting])

\* The task starts, or fails at once: it never ends well without having run.
Begun == {"Active", "CompletedWithError"}

FirstExecution(o) ==
  /\ ops[o].phase = "live" /\ ops[o].set /\ ops[o].state = ""
  /\ \E s \in Begun : Becomes(o, [ops[o] EXCEPT !.state = s])

\* A failed task runs again only while the object asks for it: at the moment the
\* new attempt is recorded, its policy is retry and it is not paused.
RetryExecution(o) ==
  /\ ops[o].phase = "live" /\ ops[o].state = "CompletedWithError"
  /\ ops[o].policy = "retry" /\ ~ops[o].paused
  /\ \E s \in Begun :
       Becomes(o, [ops[o] EXCEPT !.state = s, !.retries = @ + 1])

\* The running task goes forward.
Progress(o) ==
  /\ ops[o].phase = "live" /\ ops[o].state \in RunningStates
  /\ \E s \in {"InExecution"} \cup EndStates : Becomes(o, [ops[o] EXCEPT !.state = s])

\* stop_execution takes the place of the running task of a deleted object.
StopExecution(o) ==
  /\ ops[o].phase = "live" /\ ops[o].state \in RunningStates /\ ops[o].deleting
  /\ \E s \in Begun : Becomes(o, [ops[o] EXCEPT !.state = s])

Remove(o) ==
  /\ ops[o].phase = "live"
  /\ \E deleting \in BOOLEAN :
       Becomes(o, [ops[o] EXCEPT !.phase = "gone", !.deleting = deleting])

LifecycleNext ==
  \E o \in Objects :
    \/ \E policy \in Policies : Create(o, policy)
    \/ SetTask(o) \/ Edit(o) \/ FirstExecution(o) \/ RetryExecution(o)
    \/ Progress(o) \/ StopExecution(o) \/ Remove(o)

\* The promise: every object takes only these steps.
LifecycleSpec == LifecycleInit /\ [][LifecycleNext]_ops
=============================================================================
