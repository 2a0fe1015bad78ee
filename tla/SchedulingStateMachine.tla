----------------------- MODULE SchedulingStateMachine -----------------------
(***************************************************************************)
(* The transaction scheduler of unified-scheduler-logic/src/lib.rs.  Every *)
(* account address has a usage queue: the tasks that hold the address now, *)
(* all readers or one writer, and the tasks that are blocked on it.  A     *)
(* task runs once it holds every address it names.                         *)
(*                                                                         *)
(* A task is its task_id.  The loops of the code over a task's lock        *)
(* contexts touch one usage queue per iteration, so they are written as    *)
(* functions over all addresses at once.  A blocked queue is a set ordered *)
(* by Key: a task enters it behind everything that arrived before it       *)
(* (VecDeque) or at the place of its task_id (BTreeMap).                   *)
(***************************************************************************)
EXTENDS Integers, Sequences, FiniteSets, Functions

CONSTANTS
    Task,                   \* task ids; a lower id is a higher priority
    Address,
    Capability,             \* "FifoQueueing" or "PriorityQueueing"
    MaxRunningTaskCount

ASSUME TaskAssumption == Task \subseteq Nat /\ IsFiniteSet(Task)
ASSUME AddressAssumption == IsFiniteSet(Address)
ASSUME CapabilityAssumption == Capability \in {"FifoQueueing", "PriorityQueueing"}
ASSUME MaxRunningAssumption == MaxRunningTaskCount \in Nat \ {0}

VARIABLES
    lock_contexts,          \* the usage each task requests of each address
    active,                 \* tasks accepted and not yet descheduled
    running,                \* the active tasks handed to a caller
    unblocked_task_queue,   \* the active tasks that may run, not handed out
    current_usage,          \* per address: how it is used now
    current_tasks,          \* per address: the tasks using it
    blocked_usages,         \* per address: the tasks blocked on it
    blocked_usage_count,    \* per task: the usages it still waits for
    arrival,                \* per task: its place in the order of scheduling
    active_task_count, running_task_count, handled_task_count,
    unblocked_task_count, total_task_count,
    clearing                \* inside the loop of clear_and_reinitialize

queues == <<current_usage, current_tasks, blocked_usages, blocked_usage_count>>
counters == <<active_task_count, running_task_count, handled_task_count,
              unblocked_task_count, total_task_count>>
vars == <<lock_contexts, active, running, unblocked_task_queue, queues,
          arrival, counters, clearing>>

RequestedUsage == {"Readonly", "Writable"}
NoContext == "None"
NoContexts == [a \in Address |-> NoContext]
Unused == "Unused"

\* A transaction names at least one account (the fee payer).
LockContexts ==
    {req \in [Address -> RequestedUsage \union {NoContext}] :
        \E a \in Address : req[a] # NoContext}

Uses(t, a) == lock_contexts[t][a] # NoContext

KeyIgnoresArrival(t) == t

\* The order of the blocked queues: arrival for VecDeque, task_id for BTreeMap.
Key(t) == IF Capability = "FifoQueueing" THEN arrival[t] ELSE t

is_lower_priority(t, u) == t > u

is_higher_priority(t, u) == t < u

(***************************************************************************)
(* Locking one address for the new task t, which requests usage r of it.   *)
(***************************************************************************)

ReblocksNothing(t, r, a) == {}

ReblocksRunnable(t, r, a) ==
    IF Capability = "FifoQueueing" \/ (current_usage[a] = "Readonly" /\ r = "Readonly")
    THEN {} ELSE {c \in current_tasks[a] : is_higher_priority(t, c)}

\* The current users that prepare_lock() sends back to the blocked queue.
Reblocked(t, r, a) ==
    IF Capability = "FifoQueueing" \/ (current_usage[a] = "Readonly" /\ r = "Readonly")
    THEN {}
    ELSE {c \in current_tasks[a] :
            is_higher_priority(t, c) /\ blocked_usage_count[c] > 0}

OvertakesQueue(t, r, a) == TRUE


prepare_lock(t, r, a) ==
    IF Capability = "FifoQueueing" THEN blocked_usages[a] = {}
    ELSE IF current_usage[a] = "Readonly" /\ r = "Readonly"
         THEN \A b \in blocked_usages[a] : is_higher_priority(t, b)
         ELSE current_tasks[a] \subseteq Reblocked(t, r, a)

ReadersAlwaysLock(t, r, a) ==
    current_tasks[a] \subseteq Reblocked(t, r, a) \/ r = "Readonly"

try_lock(t, r, a) ==
    \/ current_tasks[a] \subseteq Reblocked(t, r, a)
    \/ current_usage[a] = "Readonly" /\ r = "Readonly"

Locks(t, r, a) == prepare_lock(t, r, a) /\ try_lock(t, r, a)

ForgetsReblocked(u, reblocked) == blocked_usage_count[u]

\* try_reblock() of task u, once for every address it loses.
try_reblock(u, reblocked) ==
    blocked_usage_count[u] + Cardinality({a \in Address : u \in reblocked[a]})

try_lock_usage_queues(t, req) ==
    LET contexts == {a \in Address : req[a] # NoContext}
        failed == {a \in contexts : ~Locks(t, req[a], a)}
        reblocked == [a \in Address |->
                        IF a \in contexts THEN Reblocked(t, req[a], a) ELSE {}]
    IN /\ current_tasks' = [a \in Address |->
              (current_tasks[a] \ reblocked[a])
                  \union (IF a \in contexts \ failed THEN {t} ELSE {})]
       /\ current_usage' = [a \in Address |->
              IF a \in contexts \ failed THEN req[a] ELSE current_usage[a]]
       /\ blocked_usages' = [a \in Address |->
              blocked_usages[a] \union reblocked[a]
                  \union (IF a \in failed THEN {t} ELSE {})]
       /\ blocked_usage_count' = [u \in Task |->
              IF u = t THEN Cardinality(failed)
              ELSE try_reblock(u, reblocked)]

(***************************************************************************)
(* Unlocking every address of a finished task t.                           *)
(***************************************************************************)

PopsOnlyHead(a) ==
    {b \in blocked_usages[a] : \A c \in blocked_usages[a] : Key(c) >= Key(b)}
PopsEverything(a) == blocked_usages[a]

\* What the loop pops once an address is free: the head of the blocked queue
\* and, if it is a reader, the readers that directly follow it.
Lockable(a) ==
    {b \in blocked_usages[a] :
        \A c \in blocked_usages[a] :
            Key(c) < Key(b) => /\ lock_contexts[b][a] = "Readonly"
                               /\ lock_contexts[c][a] = "Readonly"}

unlock(t, a) ==
    IF Uses(t, a) /\ current_tasks[a] \subseteq {t} THEN Lockable(a) ELSE {}

\* The tasks newly unblocked, in the order in which the loop over t's lock
\* contexts (some order ctx of its addresses) meets the last of their usages.
UnblockOrders(t, newly) ==
    LET own == {a \in Address : Uses(t, a)}
        Last(ctx, u) == CHOOSE i \in DOMAIN ctx :
                           /\ u \in unlock(t, ctx[i])
                           /\ \A j \in DOMAIN ctx : u \in unlock(t, ctx[j]) => j <= i
        Before(ctx, u, v) ==
            \/ Last(ctx, u) < Last(ctx, v)
            \/ Last(ctx, u) = Last(ctx, v) /\ Key(u) < Key(v)
    IN {s \in Bijection(1..Cardinality(newly), newly) :
          \E ctx \in Bijection(1..Cardinality(own), own) :
              \A i, j \in DOMAIN s : i < j => Before(ctx, s[i], s[j])}

\* try_unblock() of task u, once for every address it gains.
try_unblock(u, popped) ==
    blocked_usage_count[u] - Cardinality({a \in Address : u \in popped[a]})

\* unlock_usage_queues(t), appending to the queue that is left after `rest`.
unlock_usage_queues(t, rest) ==
    LET popped == [a \in Address |-> unlock(t, a)]
        count == [u \in Task |-> try_unblock(u, popped)]
        newly == {u \in Task : /\ \E a \in Address : u \in popped[a]
                               /\ count[u] = 0}
    IN /\ current_tasks' = [a \in Address |->
              IF Uses(t, a) THEN (current_tasks[a] \ {t}) \union popped[a]
                            ELSE current_tasks[a]]
       /\ current_usage' = [a \in Address |->
              IF ~Uses(t, a) \/ ~(current_tasks[a] \subseteq {t}) THEN current_usage[a]
              ELSE IF popped[a] = {} THEN Unused
              ELSE IF \E u \in popped[a] : lock_contexts[u][a] = "Writable"
                   THEN "Writable" ELSE "Readonly"]
       /\ blocked_usages' = [a \in Address |-> blocked_usages[a] \ popped[a]]
       /\ blocked_usage_count' = count
       /\ \E order \in UnblockOrders(t, newly) : unblocked_task_queue' = rest \o order
-----------------------------------------------------------------------------

Init ==
    /\ lock_contexts = [t \in Task |-> NoContexts]
    /\ active = {} /\ running = {} /\ unblocked_task_queue = <<>>
    /\ current_usage = [a \in Address |-> Unused]
    /\ current_tasks = [a \in Address |-> {}]
    /\ blocked_usages = [a \in Address |-> {}]
    /\ blocked_usage_count = [t \in Task |-> 0]
    /\ arrival = [t \in Task |-> 0]
    /\ active_task_count = 0 /\ running_task_count = 0 /\ handled_task_count = 0
    /\ unblocked_task_count = 0 /\ total_task_count = 0
    /\ clearing = FALSE

RunsOneTooMany == running_task_count <= MaxRunningTaskCount

is_task_runnable == running_task_count < MaxRunningTaskCount

\* Bound: a task id is used once between two reinitialisations.  Callers number
\* their tasks differently as long as these are active; the maps rely on it.
Fresh(t) == arrival[t] = 0

schedule_or_buffer_task(t, req, force_buffering) ==
    /\ ~clearing /\ Fresh(t)
    /\ lock_contexts' = [lock_contexts EXCEPT ![t] = req]
    /\ arrival' = [arrival EXCEPT ![t] = total_task_count + 1]
    /\ total_task_count' = total_task_count + 1
    /\ active_task_count' = active_task_count + 1
    /\ active' = active \union {t}
    /\ try_lock_usage_queues(t, req)
    /\ IF blocked_usage_count'[t] > 0
       THEN UNCHANGED <<unblocked_task_queue, unblocked_task_count, running,
                        running_task_count>>
       ELSE IF ~is_task_runnable \/ force_buffering
       THEN /\ unblocked_task_count' = unblocked_task_count + 1
            /\ unblocked_task_queue' = Append(unblocked_task_queue, t)
            /\ UNCHANGED <<running, running_task_count>>
       ELSE /\ running' = running \union {t}
            /\ running_task_count' = running_task_count + 1
            /\ UNCHANGED <<unblocked_task_queue, unblocked_task_count>>
    /\ UNCHANGED <<handled_task_count, clearing>>

schedule_next_uncounted ==
    /\ ~clearing
    /\ is_task_runnable
    /\ unblocked_task_queue # <<>>
    /\ unblocked_task_queue' = Tail(unblocked_task_queue)
    /\ running' = running \union {Head(unblocked_task_queue)}
    /\ UNCHANGED <<lock_contexts, active, queues, arrival, counters, clearing>>

schedule_next_unblocked_task ==
    /\ ~clearing
    /\ is_task_runnable
    /\ unblocked_task_queue # <<>>
    /\ unblocked_task_queue' = Tail(unblocked_task_queue)
    /\ running' = running \union {Head(unblocked_task_queue)}
    /\ running_task_count' = running_task_count + 1
    /\ unblocked_task_count' = unblocked_task_count + 1
    /\ UNCHANGED <<lock_contexts, active, queues, arrival, active_task_count,
                   handled_task_count, total_task_count, clearing>>

deschedule_task(t) ==
    /\ ~clearing
    /\ t \in running
    /\ running_task_count' = running_task_count - 1
    /\ active_task_count' = active_task_count - 1
    /\ handled_task_count' = handled_task_count + 1
    /\ running' = running \ {t}
    /\ active' = active \ {t}
    /\ unlock_usage_queues(t, unblocked_task_queue)
    /\ lock_contexts' = [lock_contexts EXCEPT ![t] = NoContexts]
    /\ UNCHANGED <<arrival, unblocked_task_count, total_task_count,
                   clearing>>

\* Callers reinitialise a machine that has no active task.
Rewind ==
    /\ active_task_count' = 0 /\ handled_task_count' = 0
    /\ unblocked_task_count' = 0 /\ total_task_count' = 0
    /\ arrival' = [t \in Task |-> 0]
    /\ clearing' = FALSE
    /\ UNCHANGED <<lock_contexts, active, running, unblocked_task_queue, queues,
                   running_task_count>>

reinitialize ==
    /\ ~clearing
    /\ total_task_count > 0
    /\ active_task_count = 0
    /\ Rewind

\* clear_and_reinitialize() may be called while no task is running.  Nothing
\* else happens until its loop, one step per cleared task, is over.
clear_and_reinitialize ==
    /\ ~clearing
    /\ active_task_count > 0 /\ running_task_count = 0
    /\ clearing' = TRUE
    /\ UNCHANGED <<lock_contexts, active, running, unblocked_task_queue, queues,
                   arrival, counters>>

clear_next_task ==
    /\ clearing
    /\ is_task_runnable /\ unblocked_task_queue # <<>>
    /\ LET t == Head(unblocked_task_queue) IN
         /\ active' = active \ {t}
         /\ unlock_usage_queues(t, Tail(unblocked_task_queue))
         /\ lock_contexts' = [lock_contexts EXCEPT ![t] = NoContexts]
    /\ unblocked_task_count' = unblocked_task_count + 1
    /\ active_task_count' = active_task_count - 1
    /\ handled_task_count' = handled_task_count + 1
    /\ UNCHANGED <<running, arrival, running_task_count, total_task_count, clearing>>

clear_done ==
    /\ clearing
    /\ unblocked_task_queue = <<>>
    /\ Rewind

Next ==
    \/ \E t \in Task, req \in LockContexts, force_buffering \in BOOLEAN :
          schedule_or_buffer_task(t, req, force_buffering)
    \/ schedule_next_unblocked_task
    \/ \E t \in Task : deschedule_task(t)
    \/ reinitialize
    \/ clear_and_reinitialize
    \/ clear_next_task
    \/ clear_done

Spec == Init /\ [][Next]_vars
-----------------------------------------------------------------------------
TypeOK ==
    /\ lock_contexts \in [Task -> [Address -> RequestedUsage \union {NoContext}]]
    /\ active \subseteq Task /\ running \subseteq active
    /\ unblocked_task_queue \in Seq(active)
    /\ current_usage \in [Address -> RequestedUsage \union {Unused}]
    /\ current_tasks \in [Address -> SUBSET active]
    /\ blocked_usages \in [Address -> SUBSET active]
    /\ blocked_usage_count \in [Task -> Nat]
    /\ arrival \in [Task -> Nat]
    /\ active_task_count \in Nat /\ running_task_count \in 0..MaxRunningTaskCount
    /\ handled_task_count \in Nat /\ unblocked_task_count \in Nat
    /\ total_task_count \in Nat
    /\ clearing \in BOOLEAN

Conflicts(t, u) ==
    \E a \in Address : /\ Uses(t, a) /\ Uses(u, a)
                       /\ "Writable" \in {lock_contexts[t][a], lock_contexts[u][a]}

Unblocked == running \union Range(unblocked_task_queue)

\* Two tasks of which one writes an address the other uses are never both
\* runnable: what the whole locking scheme is for.
NoConflictingTasksUnblocked ==
    \A t, u \in Unblocked : t # u => ~Conflicts(t, u)

\* The counters agree with the queues they summarise.  blocked_usage_count
\* (l. 477: "the number of remaining usages which are currently occupied by
\* other tasks") is kept by try_reblock(), try_unblock() and
\* set_blocked_usage_count(), the queues by other code.
CountersMatchQueues ==
    /\ \A t \in active :
          blocked_usage_count[t] = Cardinality({a \in Address : t \in blocked_usages[a]})
    /\ active_task_count = Cardinality(active)
    /\ running_task_count = Cardinality(running)
    /\ total_task_count = active_task_count + handled_task_count
    /\ \A t \in active : t \in Unblocked <=> blocked_usage_count[t] = 0
    /\ Len(unblocked_task_queue) = Cardinality(Unblocked \ running)

\* None of the assertions of the usage queues can fail, whatever is called
\* next: prepare_lock() (l. 957, 980), push_blocked() (l. 840), unlock()
\* (l. 796-824), the unwrap()s of try_lock() and of the maps (l. 680, 767,
\* 1227), the counter decrement of try_unblock() (l. 537) and those of
\* reinitialize() (l. 1374-1376).  With the types it says that the queues are
\* "identical to just after created" when no task is active (l. 1258).
NoPanic ==
    /\ \A a \in Address :
         /\ current_usage[a] = Unused <=> current_tasks[a] = {}
         /\ current_tasks[a] = {} => blocked_usages[a] = {}
         /\ current_usage[a] = "Writable" => Cardinality(current_tasks[a]) = 1
         /\ current_tasks[a] \intersect blocked_usages[a] = {}
         /\ \A t \in current_tasks[a] : lock_contexts[t][a] = current_usage[a]
         /\ \A b \in blocked_usages[a] : Uses(b, a) /\ blocked_usage_count[b] > 0
         /\ current_usage[a] = "Readonly" =>
               \A b \in blocked_usages[a] :
                  (\A c \in blocked_usages[a] : Key(b) <= Key(c))
                     => lock_contexts[b][a] = "Writable"
    /\ \A t \in running, a \in Address : Uses(t, a) => t \in current_tasks[a]
    /\ active_task_count = 0 => running_task_count = 0 /\ unblocked_task_queue = <<>>
    /\ clearing /\ unblocked_task_queue = <<>> => active_task_count = 0

\* "reblocking must be consistently applied across all usage queues. otherwise,
\* deadlock would happen" (l. 946): a task that still waits for something never
\* stands in front of a task of higher priority (of earlier arrival for FIFO).
WaitersHoldInOrder ==
    \A a \in Address :
        \A h \in current_tasks[a], b \in blocked_usages[a] :
            blocked_usage_count[h] > 0 => Key(h) < Key(b)

\* While there is an active task, one of them is running or can be handed out:
\* the tasks never all wait for each other.
SomeTaskCanRun == active # {} => Unblocked # {}

\* Block verification replays a ledger: of two conflicting tasks the one
\* scheduled first is finished before the other becomes runnable.
ConflictsRunInArrivalOrder ==
    Capability = "FifoQueueing" =>
        \A t \in active, u \in Unblocked :
            t # u /\ Conflicts(t, u) => arrival[u] < arrival[t]

\* With FIFO queues the machine implements SerialExecution: the tasks handed
\* out and those cleared could have been executed one by one in ledger order.
Serial == INSTANCE SerialExecution WITH contexts <- lock_contexts, place <- arrival
ExecutionIsSerial == Serial!Spec

\* A runnable task "might be running already" and is never blocked again: it
\* keeps every address it holds until it is descheduled.
UnblockedStaysUnblocked ==
    [][\A t \in Unblocked :
          \/ t \in Unblocked' /\ \A a \in Address :
                                   t \in current_tasks[a] => t \in current_tasks'[a]
          \/ t \notin active']_vars
=============================================================================
