---------------------- MODULE MCSchedulingStateMachine ----------------------
(***************************************************************************)
(* Small instances of SchedulingStateMachine.                              *)
(***************************************************************************)
EXTENDS SchedulingStateMachine, TLC

AddressSymmetry == Permutations(Address)

\* The tasks were scheduled in the order of their ids, as the replay of a block does.
IdsArriveInOrder ==
    \A t, u \in Task : arrival[t] > 0 /\ arrival[u] > 0 /\ t < u => arrival[t] < arrival[u]

Fifo == INSTANCE SchedulingStateMachine WITH Capability <- "FifoQueueing"

\* "any use of FifoQueueing can safely replaced with PriorityQueueing" (lib.rs,
\* l. 136): fed in the order of the ids, the priority machine takes only steps
\* of the FIFO machine.
PriorityReplacesFifo ==
    [][IdsArriveInOrder /\ IdsArriveInOrder' => Fifo!Next]_vars

(***************************************************************************)
(* Tasks that never stop arriving.  Task ids and places of arrival matter  *)
(* only in relation to those of other tasks, so what a finished task used  *)
(* is given back: the next transaction with the same relative priority     *)
(* takes its id.  unblocked_task_count is a statistic nothing reads.       *)
(***************************************************************************)
GiveBack(t) ==
    /\ ~clearing /\ t \notin active /\ arrival[t] > 0
    /\ arrival' = [u \in Task |-> CASE u = t -> 0
                                    [] arrival[u] > arrival[t] -> arrival[u] - 1
                                    [] arrival[u] < arrival[t] -> arrival[u]]
    /\ total_task_count' = total_task_count - 1
    /\ handled_task_count' = handled_task_count - 1
    /\ unblocked_task_count' = 0
    /\ UNCHANGED <<lock_contexts, active, running, unblocked_task_queue, queues,
                   active_task_count, running_task_count, clearing>>

\* The thread of the scheduler prefers a runnable task to a new one (select_biased!
\* in unified-scheduler-pool/src/lib.rs:2232), so that new tasks, although they
\* may take the free place, cannot do so for ever.
EndlessSpec ==
    /\ Init /\ [][Next \/ \E t \in Task : GiveBack(t)]_vars
    /\ SF_vars(schedule_next_unblocked_task)
    /\ \A t \in Task : WF_vars(deschedule_task(t))
    /\ WF_vars(clear_next_task) /\ WF_vars(clear_done)

=============================================================================
