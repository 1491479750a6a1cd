------------------------- MODULE SchedulerRefinement -------------------------
(***************************************************************************)
(* The evaluation task, its rerun flag and its shutdown implement          *)
(* EvaluationPromise.  Of what an evaluation depends on, the snapshot, the *)
(* options and the force charge change only with a request; the sensors    *)
(* and the clocks also change with none (an off-peak window opens, a       *)
(* pause runs out) and are no part of the promise.                         *)
(***************************************************************************)
EXTENDS SurplusController

Owed == ~shutdown /\ (pc = "ready" \/ rerun)
Evaluating == pc \in Steps
RequestedInput == << data, settings, force.current >>

Promise == INSTANCE EvaluationPromise
             WITH input <- RequestedInput, owed <- Owed,
                  busy <- Evaluating, closed <- shutdown

\* No request is lost, however it falls between the awaits of the evaluation under way:
\* an evaluation that begins after it follows (the loop of _async_evaluation_loop).
PromiseKept == Promise!Spec
=============================================================================
