-------------------- MODULE SchedulingStateMachineProofs --------------------
(***************************************************************************)
(* Proofs that the scheduler is safe and never deadlocks, for any number   *)
(* of tasks and addresses, both capabilities and every limit on running    *)
(* tasks.                                                                  *)
(***************************************************************************)
EXTENDS SchedulerLocking, SchedulerUnlocking
-----------------------------------------------------------------------------
(***************************************************************************)
(* Every operation preserves the invariant.                                *)
(***************************************************************************)

\* Adding and removing one task in a finite set of tasks.
LEMMA TaskCount ==
    ASSUME NEW S \in SUBSET Task
    PROVE  /\ Cardinality(S) \in Nat
           /\ Cardinality(S) = 0 <=> S = {}
           /\ \A t \in Task \ S : Cardinality(S \union {t}) = Cardinality(S) + 1
           /\ \A t \in S : Cardinality(S \ {t}) = Cardinality(S) - 1
<1>1. IsFiniteSet(S)
  BY TaskAssumption, FS_Subset, Zenon
<1> QED
  BY <1>1, FS_CardinalityType, FS_EmptySet, FS_AddElement, FS_RemoveElement, SMTT(30)

\* Taking the head off the queue of runnable tasks.
LEMMA TailInjective ==
    ASSUME NEW S, NEW q \in Seq(S), q # <<>>, IsInjective(q)
    PROVE  /\ Tail(q) \in Seq(S) /\ Head(q) \in S /\ Head(q) \in Range(q)
           /\ IsInjective(Tail(q)) /\ Range(Tail(q)) = Range(q) \ {Head(q)}
<1>1. /\ Len(q) \in Nat /\ Len(q) > 0 /\ Head(q) = q[1] /\ Tail(q) \in Seq(S)
      /\ Len(Tail(q)) = Len(q) - 1 /\ \A i \in 1..Len(Tail(q)) : Tail(q)[i] = q[i + 1]
      /\ DOMAIN q = 1..Len(q) /\ DOMAIN Tail(q) = 1..(Len(q) - 1)
  OBVIOUS
<1>2. Head(q) \in Range(q) /\ Head(q) \in S
  BY <1>1 DEF Range
<1>3. \A i, j \in 1..Len(q) : q[i] = q[j] => i = j
  BY <1>1 DEF IsInjective
<1>4. IsInjective(Tail(q))
  BY <1>1, <1>3 DEF IsInjective
<1>5. \A i \in DOMAIN Tail(q) : i + 1 \in 1..Len(q) /\ i + 1 # 1 /\ Tail(q)[i] = q[i + 1]
  BY <1>1
<1>6. \A x \in Range(Tail(q)) : x \in Range(q) /\ x # Head(q)
  BY <1>1, <1>3, <1>5 DEF Range
<1>7. ASSUME NEW x \in Range(q), x # Head(q) PROVE x \in Range(Tail(q))
  <2>1. PICK i \in 1..Len(q) : x = q[i]
    BY <1>1 DEF Range
  <2>2. i - 1 \in DOMAIN Tail(q) /\ Tail(q)[i - 1] = q[i]
    BY <1>1, <1>7, <2>1
  <2> QED
    BY <2>1, <2>2, Zenon DEF Range
<1> QED
  BY <1>1, <1>2, <1>4, <1>6, <1>7

\* schedule_or_buffer_task() preserves the inductive invariant.
LEMMA ScheduleStep ==
    ASSUME IInv, NEW t \in Task, NEW req \in LockContexts, NEW force_buffering \in BOOLEAN,
           schedule_or_buffer_task(t, req, force_buffering)
    PROVE  IInv'
<1>1. /\ HoldInv' /\ ReaderInv' /\ CountInv' /\ WaitersHoldInOrder' /\ FifoInv'
      /\ current_usage' \in [Address -> RequestedUsage \union {Unused}]
      /\ current_tasks' \in [Address -> SUBSET active']
      /\ blocked_usages' \in [Address -> SUBSET active']
      /\ blocked_usage_count' \in [Task -> Nat]
      /\ \A u \in active : blocked_usage_count'[u] = 0 <=> blocked_usage_count[u] = 0
  BY LockStep, Zenon DEF schedule_or_buffer_task
<1>2. t \notin active /\ t \notin Unblocked /\ active' = active \union {t} /\ active' \subseteq Task
  BY SMTT(30) DEF IInv, TypeOK, ArrivalInv, schedule_or_buffer_task, Fresh, Unblocked, Range
<1>3. /\ lock_contexts' \in [Task -> [Address -> RequestedUsage \union {NoContext}]]
      /\ arrival' \in [Task -> Nat] /\ total_task_count' = total_task_count + 1
      /\ ArrivalInv'
  BY <1>2, SMTT(30) DEF IInv, TypeOK, ArrivalInv, schedule_or_buffer_task, LockContexts
<1>4. /\ Cardinality(active') = Cardinality(active) + 1
      /\ Cardinality(running \union {t}) = Cardinality(running) + 1
  <2>1. t \in Task \ active /\ t \in Task \ running /\ active \in SUBSET Task /\ running \in SUBSET Task
    BY <1>2 DEF IInv, TypeOK
  <2> QED
    BY <1>2, <2>1, TaskCount
<1>5. /\ active_task_count' = Cardinality(active')
      /\ total_task_count' = active_task_count' + handled_task_count'
      /\ clearing' = FALSE
  BY <1>4, SMTT(30) DEF IInv, TypeOK, CounterInv, schedule_or_buffer_task
<1>6. CASE blocked_usage_count'[t] > 0
  <2>1. Unblocked' = Unblocked
    BY <1>6 DEF schedule_or_buffer_task, Unblocked
  <2>2. RunInv'
    BY <1>1, <1>2, <1>6, <2>1 DEF IInv, RunInv, schedule_or_buffer_task
  <2>3. CounterInv'
    BY <1>6, <1>5, SMTT(30) DEF IInv, CounterInv, schedule_or_buffer_task
  <2>4. unblocked_task_queue' \in Seq(active')
    BY <1>2, <1>6 DEF IInv, TypeOK, schedule_or_buffer_task
  <2>5. TypeOK'
    BY <1>1, <1>2, <1>3, <1>6, <2>4, SMTT(30) DEF IInv, TypeOK, schedule_or_buffer_task
  <2> QED
    BY <1>1, <1>3, <2>2, <2>3, <2>5 DEF IInv
<1>7. CASE blocked_usage_count'[t] = 0 /\ (~is_task_runnable \/ force_buffering)
  <2>1. /\ unblocked_task_queue' = unblocked_task_queue \o <<t>>
        /\ running' = running
    <3>1. unblocked_task_queue' = Append(unblocked_task_queue, t) /\ running' = running
      BY <1>7 DEF schedule_or_buffer_task
    <3>2. unblocked_task_queue \in Seq(active') /\ t \in active'
      BY <1>2 DEF IInv, TypeOK
    <3> QED
      BY <3>1, <3>2, AppendIsConcat
  <2>2. /\ <<t>> \in Seq(active') /\ IsInjective(<<t>>) /\ Range(<<t>>) = {t}
        /\ unblocked_task_queue \in Seq(active')
        /\ IsInjective(unblocked_task_queue) /\ t \notin Range(unblocked_task_queue)
    BY <1>2 DEF IInv, TypeOK, RunInv, Unblocked, IsInjective, Range
  <2>3. /\ unblocked_task_queue' \in Seq(active')
        /\ Range(unblocked_task_queue') = Range(unblocked_task_queue) \union {t}
        /\ IsInjective(unblocked_task_queue')
    <3> DEFINE o == <<t>>
    <3>1. /\ o \in Seq(active') /\ IsInjective(o) /\ Range(o) = {t}
          /\ Range(unblocked_task_queue) \intersect Range(o) = {}
          /\ unblocked_task_queue' = unblocked_task_queue \o o
      BY <2>1, <2>2
    <3> HIDE DEF o
    <3> QED
      BY <2>2, <3>1, ConcatInjective
  <2>4. RunInv'
    <3>1. Unblocked' = Unblocked \union {t}
      BY <2>1, <2>3, Zenon DEF Unblocked
    <3>2. \A u \in active : u \in Unblocked <=> blocked_usage_count'[u] = 0
      BY <1>1 DEF IInv, RunInv
    <3>3. \A u \in active' : u \in Unblocked' <=> blocked_usage_count'[u] = 0
      BY <1>2, <1>7, <3>1, <3>2
    <3>4. running \intersect Range(unblocked_task_queue) = {} /\ t \notin running
      BY <1>2 DEF IInv, RunInv, Unblocked
    <3>5. running' \intersect Range(unblocked_task_queue') = {}
      BY <2>1, <2>3, <3>4
    <3> QED
      BY <2>3, <3>3, <3>5 DEF RunInv
  <2>5. CounterInv'
    BY <1>7, <1>5, SMTT(30) DEF IInv, CounterInv, schedule_or_buffer_task
  <2>6. TypeOK'
    BY <1>1, <1>2, <1>3, <1>7, <2>3, SMTT(30) DEF IInv, TypeOK, schedule_or_buffer_task
  <2> QED
    BY <1>1, <1>3, <2>4, <2>5, <2>6 DEF IInv
<1>8. CASE blocked_usage_count'[t] = 0 /\ is_task_runnable /\ ~force_buffering
  <2>1. running' = running \union {t} /\ unblocked_task_queue' = unblocked_task_queue
    BY <1>8 DEF schedule_or_buffer_task
  <2>2. RunInv'
    BY <1>1, <1>2, <1>8, <2>1 DEF IInv, RunInv, Unblocked
  <2>3. CounterInv'
    BY <1>8, <1>4, <1>5, <2>1, SMTT(30) DEF IInv, CounterInv, schedule_or_buffer_task
  <2>4. unblocked_task_queue' \in Seq(active') /\ running' \subseteq active'
    BY <1>2, <2>1 DEF IInv, TypeOK
  <2>5. running_task_count' \in 0..MaxRunningTaskCount
    BY <1>8, MaxRunningAssumption, SMTT(30) DEF IInv, TypeOK, schedule_or_buffer_task, is_task_runnable
  <2>6. TypeOK'
    BY <1>1, <1>2, <1>3, <1>8, <2>4, <2>5, SMTT(30) DEF IInv, TypeOK, schedule_or_buffer_task
  <2> QED
    BY <1>1, <1>3, <2>2, <2>3, <2>6 DEF IInv
<1>9. blocked_usage_count'[t] \in Nat
  BY <1>1
<1> QED
  BY <1>6, <1>7, <1>8, <1>9

\* schedule_next_unblocked_task() preserves the inductive invariant.
LEMMA ScheduleNextStep == IInv /\ schedule_next_unblocked_task => IInv'
<1> SUFFICES ASSUME IInv, schedule_next_unblocked_task PROVE IInv'
  OBVIOUS
<1> DEFINE t == Head(unblocked_task_queue)
<1>1. /\ Tail(unblocked_task_queue) \in Seq(active) /\ t \in active
      /\ t \in Range(unblocked_task_queue)
      /\ IsInjective(Tail(unblocked_task_queue))
      /\ Range(Tail(unblocked_task_queue)) = Range(unblocked_task_queue) \ {t}
  BY TailInjective DEF IInv, TypeOK, RunInv, schedule_next_unblocked_task
<1>2. /\ HoldInv' /\ ReaderInv' /\ CountInv' /\ WaitersHoldInOrder' /\ FifoInv' /\ ArrivalInv'
  BY SMTT(30) DEF schedule_next_unblocked_task, queues, IInv, HoldInv, ReaderInv, CountInv, FifoInv,
         ArrivalInv, WaitersHoldInOrder, Uses, Key, BlockedOn
<1>3. /\ unblocked_task_queue' = Tail(unblocked_task_queue)
      /\ running' = running \union {t}
      /\ active' = active /\ blocked_usage_count' = blocked_usage_count
  BY DEF schedule_next_unblocked_task, queues
<1>4. RunInv' /\ t \notin running
  BY <1>1, <1>3 DEF IInv, RunInv, Unblocked
<1>5. Cardinality(running') = Cardinality(running) + 1
  <2>1. running \in SUBSET Task /\ t \in Task \ running
    BY <1>1, <1>4 DEF IInv, TypeOK
  <2> QED
    BY <1>3, <2>1, TaskCount
<1>6. CounterInv'
  BY <1>5 DEF schedule_next_unblocked_task, IInv, TypeOK, CounterInv
<1>7. running_task_count' \in 0..MaxRunningTaskCount
  BY MaxRunningAssumption DEF schedule_next_unblocked_task, IInv, TypeOK, is_task_runnable
<1>8. TypeOK'
  BY <1>1, <1>3, <1>7, SMTT(30) DEF schedule_next_unblocked_task, IInv, TypeOK, queues
<1> QED
  BY <1>2, <1>4, <1>6, <1>8 DEF IInv

\* deschedule_task() preserves the inductive invariant.
LEMMA DescheduleStep == ASSUME IInv, NEW t \in Task, deschedule_task(t) PROVE IInv'
<1>1. t \in active /\ t \in running /\ t \in Unblocked /\ t \notin Range(unblocked_task_queue)
  BY DEF deschedule_task, IInv, TypeOK, RunInv, Unblocked
<1>2. /\ blocked_usage_count[t] = 0
      /\ running' \intersect Range(unblocked_task_queue) = {}
      /\ running' \union Range(unblocked_task_queue) = Unblocked \ {t}
      /\ unblocked_task_queue \in Seq(active) /\ IsInjective(unblocked_task_queue)
  BY <1>1 DEF deschedule_task, IInv, TypeOK, RunInv, Unblocked
<1>3. /\ HoldInv' /\ ReaderInv' /\ CountInv' /\ WaitersHoldInOrder' /\ FifoInv' /\ RunInv'
      /\ current_usage' \in [Address -> RequestedUsage \union {Unused}]
      /\ current_tasks' \in [Address -> SUBSET active']
      /\ blocked_usages' \in [Address -> SUBSET active']
      /\ blocked_usage_count' \in [Task -> Nat]
      /\ unblocked_task_queue' \in Seq(active')
  <2>1. /\ active' = active \ {t} /\ arrival' = arrival
        /\ lock_contexts' = [lock_contexts EXCEPT ![t] = NoContexts]
        /\ unlock_usage_queues(t, unblocked_task_queue)
    BY DEF deschedule_task
  <2> QED
    BY <1>1, <1>2, <2>1, UnlockStep, Zenon
<1>4. /\ Cardinality(active') = Cardinality(active) - 1
      /\ Cardinality(running') = Cardinality(running) - 1
      /\ Cardinality(active') \in Nat /\ Cardinality(running') \in Nat
  <2>1. /\ active \in SUBSET Task /\ running \in SUBSET Task
        /\ active' = active \ {t} /\ running' = running \ {t}
    BY DEF deschedule_task, IInv, TypeOK
  <2>2. active' \in SUBSET Task /\ running' \in SUBSET Task
    BY <2>1
  <2> QED
    BY <1>1, <2>1, <2>2, TaskCount
<1>5. CounterInv'
  BY <1>4 DEF deschedule_task, IInv, TypeOK, CounterInv
<1>6. ArrivalInv'
  BY DEF deschedule_task, IInv, TypeOK, ArrivalInv
<1>7. active_task_count' \in Nat /\ running_task_count' \in 0..MaxRunningTaskCount
  BY <1>4, <1>5, MaxRunningAssumption, SMTT(30) DEF deschedule_task, IInv, TypeOK, CounterInv
<1>8. lock_contexts' \in [Task -> [Address -> RequestedUsage \union {NoContext}]]
  BY DEF deschedule_task, IInv, TypeOK, NoContexts
<1>9. TypeOK'
  BY <1>3, <1>7, <1>8, SMTT(30) DEF deschedule_task, IInv, TypeOK
<1> QED
  BY <1>3, <1>5, <1>6, <1>9 DEF IInv

\* An iteration of clear_and_reinitialize()'s loop preserves the inductive invariant.
LEMMA ClearNextStep == IInv /\ clear_next_task => IInv'
<1> SUFFICES ASSUME IInv, clear_next_task PROVE IInv'
  OBVIOUS
<1> DEFINE t == Head(unblocked_task_queue)
           rest == Tail(unblocked_task_queue)
<1>1. /\ rest \in Seq(active) /\ t \in active
      /\ t \in Range(unblocked_task_queue)
      /\ IsInjective(rest)
      /\ Range(rest) = Range(unblocked_task_queue) \ {t}
  BY TailInjective DEF IInv, TypeOK, RunInv, clear_next_task
<1>2. /\ active' = active \ {t} /\ arrival' = arrival /\ running' = running
      /\ lock_contexts' = [lock_contexts EXCEPT ![t] = NoContexts]
      /\ unlock_usage_queues(t, rest)
  BY DEF clear_next_task
<1> HIDE DEF t, rest
<1>3. /\ blocked_usage_count[t] = 0
      /\ running' \intersect Range(rest) = {}
      /\ running' \union Range(rest) = Unblocked \ {t}
  BY <1>1, <1>2, SMTT(30) DEF IInv, RunInv, Unblocked
<1>4. /\ HoldInv' /\ ReaderInv' /\ CountInv' /\ WaitersHoldInOrder' /\ FifoInv' /\ RunInv'
      /\ current_usage' \in [Address -> RequestedUsage \union {Unused}]
      /\ current_tasks' \in [Address -> SUBSET active']
      /\ blocked_usages' \in [Address -> SUBSET active']
      /\ blocked_usage_count' \in [Task -> Nat]
      /\ unblocked_task_queue' \in Seq(active')
  BY <1>1, <1>2, <1>3, UnlockStep, Zenon
<1>5. /\ Cardinality(active') = Cardinality(active) - 1
      /\ Cardinality(active') \in Nat
  <2>1. active \in SUBSET Task /\ active' \in SUBSET Task
    BY <1>2 DEF IInv, TypeOK
  <2> QED
    BY <1>1, <1>2, <2>1, TaskCount
<1>6. CounterInv'
  <2>1. /\ active_task_count' = active_task_count - 1
        /\ handled_task_count' = handled_task_count + 1
        /\ running_task_count' = running_task_count /\ total_task_count' = total_task_count
        /\ running' = running /\ clearing' = clearing
    BY DEF clear_next_task
  <2>2. active_task_count \in Nat /\ handled_task_count \in Nat /\ CounterInv
    BY DEF IInv, TypeOK
  <2> QED
    BY <1>5, <2>1, <2>2 DEF CounterInv
<1>7. ArrivalInv'
  BY <1>2 DEF clear_next_task, IInv, TypeOK, ArrivalInv
<1>8. lock_contexts' \in [Task -> [Address -> RequestedUsage \union {NoContext}]]
  BY <1>2, Zenon DEF IInv, TypeOK, NoContexts
<1>9. running' \subseteq active' /\ active_task_count' \in Nat
  BY <1>2, <1>5, <1>6 DEF clear_next_task, IInv, CounterInv
<1>10. TypeOK'
  BY <1>2, <1>4, <1>8, <1>9, SMTT(30) DEF clear_next_task, IInv, TypeOK
<1> QED
  BY <1>4, <1>6, <1>7, <1>10 DEF IInv

\* Resetting the counters of an empty scheduler preserves the inductive invariant.
LEMMA RewindStep == IInv /\ active = {} /\ Rewind => IInv'
<1> SUFFICES ASSUME IInv, active = {}, Rewind PROVE IInv'
  OBVIOUS
<1>1. /\ \A a \in Address : current_tasks[a] = {} /\ blocked_usages[a] = {}
      /\ running = {}
  BY DEF IInv, TypeOK
<1>2. HoldInv' /\ ReaderInv' /\ WaitersHoldInOrder' /\ FifoInv' /\ ArrivalInv' /\ RunInv'
  <2>1. /\ active' = {} /\ running' = running
        /\ unblocked_task_queue' = unblocked_task_queue
        /\ current_usage' = current_usage /\ lock_contexts' = lock_contexts
        /\ current_tasks' = current_tasks /\ blocked_usages' = blocked_usages
        /\ blocked_usage_count' = blocked_usage_count
    BY DEF Rewind, queues
  <2>2. HoldInv'
    BY <2>1 DEF IInv, HoldInv, Uses
  <2>3. ReaderInv'
    BY <1>1, <2>1 DEF IInv, ReaderInv
  <2>4. WaitersHoldInOrder' /\ FifoInv'
    BY <1>1, <2>1 DEF WaitersHoldInOrder, FifoInv
  <2>5. ArrivalInv'
    BY <2>1 DEF Rewind, IInv, ArrivalInv
  <2>6. RunInv'
    BY <2>1 DEF IInv, RunInv, Unblocked
  <2> QED
    BY <2>2, <2>3, <2>4, <2>5, <2>6
<1>3. CountInv'
  BY DEF Rewind, queues, IInv, CountInv, BlockedOn
<1>4. /\ active' = {} /\ Cardinality(active') = 0
      /\ running' = running /\ running_task_count' = Cardinality(running')
  BY FS_EmptySet DEF Rewind, IInv, CounterInv
<1>5. CounterInv'
  BY <1>4 DEF Rewind, CounterInv
<1>6. TypeOK'
  BY Zenon DEF Rewind, queues, IInv, TypeOK
<1> QED
  BY <1>2, <1>3, <1>5, <1>6 DEF IInv
-----------------------------------------------------------------------------
\* Only CounterInv looks at `clearing`.
LEMMA StutterStep ==
    ASSUME IInv, UNCHANGED <<lock_contexts, active, running, unblocked_task_queue, queues,
                             arrival, counters>>,
           clearing' \in BOOLEAN, clearing' => running = {}
    PROVE  IInv'
<1> USE DEF queues, counters
<1>1. TypeOK'
  BY DEF IInv, TypeOK
<1>2. HoldInv' /\ ReaderInv'
  BY SMTT(30) DEF IInv, HoldInv, ReaderInv, Uses, Key
<1>3. CountInv'
  BY DEF IInv, CountInv, BlockedOn
<1>4. WaitersHoldInOrder' /\ FifoInv'
  BY DEF IInv, WaitersHoldInOrder, FifoInv, Key
<1>5. RunInv' /\ ArrivalInv'
  BY SMTT(30) DEF IInv, RunInv, ArrivalInv, Unblocked
<1>6. CounterInv'
  BY DEF IInv, CounterInv
<1> QED
  BY <1>1, <1>2, <1>3, <1>4, <1>5, <1>6 DEF IInv

\* A new scheduler satisfies the inductive invariant.
LEMMA InitEstablishes == Init => IInv
<1> SUFFICES ASSUME Init PROVE IInv
  OBVIOUS
<1>1. TypeOK
  <2>1. unblocked_task_queue \in Seq(active)
    BY DEF Init
  <2>2. 0 \in 0..MaxRunningTaskCount
    BY MaxRunningAssumption
  <2>3. lock_contexts \in [Task -> [Address -> RequestedUsage \union {NoContext}]]
    BY DEF Init, NoContexts
  <2> QED
    BY <2>1, <2>2, <2>3, Zenon DEF Init, TypeOK
<1>2. HoldInv /\ ReaderInv /\ WaitersHoldInOrder /\ FifoInv
  BY DEF Init, HoldInv, ReaderInv, WaitersHoldInOrder, FifoInv
<1>3. CountInv
  <2>1. \A t \in Task : BlockedOn(t) = {}
    BY DEF Init, BlockedOn
  <2> QED
    BY <2>1, FS_EmptySet, Zenon DEF Init, CountInv
<1>4. RunInv /\ ArrivalInv
  BY DEF Init, RunInv, ArrivalInv, Unblocked, Range, IsInjective
<1>5. CounterInv
  <2>1. Cardinality(active) = 0 /\ Cardinality(running) = 0
    BY FS_EmptySet DEF Init
  <2> QED
    BY <2>1 DEF Init, CounterInv
<1> QED
  BY <1>1, <1>2, <1>3, <1>4, <1>5 DEF IInv

\* Every operation of the scheduler preserves the inductive invariant.
LEMMA NextPreserves == IInv /\ [Next]_vars => IInv'
<1> SUFFICES ASSUME IInv, [Next]_vars PROVE IInv'
  OBVIOUS
<1>1. CASE \E t \in Task, req \in LockContexts, force_buffering \in BOOLEAN :
              schedule_or_buffer_task(t, req, force_buffering)
  BY <1>1, ScheduleStep
<1>2. CASE schedule_next_unblocked_task
  BY <1>2, ScheduleNextStep
<1>3. CASE \E t \in Task : deschedule_task(t)
  BY <1>3, DescheduleStep
<1>4. CASE reinitialize
  <2>1. active = {}
    <3>1. active \in SUBSET Task /\ Cardinality(active) = 0
      BY <1>4 DEF reinitialize, IInv, TypeOK, CounterInv
    <3> QED
      BY <3>1, TaskCount
  <2> QED
    BY <1>4, <2>1, RewindStep DEF reinitialize
<1>5. CASE clear_and_reinitialize
  <2>1. running = {}
    <3>1. running \in SUBSET Task /\ Cardinality(running) = 0
      BY <1>5 DEF clear_and_reinitialize, IInv, TypeOK, CounterInv
    <3> QED
      BY <3>1, TaskCount
  <2> QED
    BY <1>5, <2>1, StutterStep, SMTT(30) DEF clear_and_reinitialize, counters, IInv, CounterInv
<1>6. CASE clear_next_task
  BY <1>6, ClearNextStep
<1>7. CASE clear_done
  <2>1. Unblocked = {}
    BY <1>7 DEF clear_done, IInv, CounterInv, Unblocked, Range
  <2>2. active = {}
    BY <2>1, LeastTaskRuns DEF SomeTaskCanRun
  <2> QED
    BY <1>7, <2>2, RewindStep DEF clear_done
<1>8. CASE UNCHANGED vars
  BY <1>8, StutterStep, SMTT(30) DEF vars, counters, IInv, TypeOK, CounterInv
<1> QED
  BY <1>1, <1>2, <1>3, <1>4, <1>5, <1>6, <1>7, <1>8 DEF Next

\* The invariant holds in every reachable state.
THEOREM Invariance == Spec => []IInv
<1> QED
  BY InitEstablishes, NextPreserves, PTL DEF Spec

\* The scheduler's fields keep their types; in particular the counters that
\* the code decrements with checked arithmetic never go below zero.
THEOREM TypeCorrect == Spec => []TypeOK
<1>1. IInv => TypeOK
  BY DEF IInv
<1> QED
  BY <1>1, Invariance, PTL

\* Two conflicting tasks are never runnable at the same time.
THEOREM SchedulerSafe == Spec => []NoConflictingTasksUnblocked
BY UnblockedDoNotConflict, Invariance, PTL

\* The tasks never all wait for each other.
THEOREM SchedulerDeadlockFree == Spec => []SomeTaskCanRun
BY LeastTaskRuns, Invariance, PTL

\* Reblocking keeps all usage queues in one order.
THEOREM WaitersInOrder == Spec => []WaitersHoldInOrder
<1>1. IInv => WaitersHoldInOrder
  BY DEF IInv
<1> QED
  BY <1>1, Invariance, PTL

\* With FIFO queues conflicting tasks become runnable in ledger order.
THEOREM LedgerOrder == Spec => []ConflictsRunInArrivalOrder
<1>1. IInv => ConflictsRunInArrivalOrder
  <2> SUFFICES ASSUME IInv, Capability = "FifoQueueing", NEW t \in active, NEW u \in Unblocked,
                      t # u, NEW a \in Address, Uses(t, a), Uses(u, a),
                      "Writable" \in {lock_contexts[t][a], lock_contexts[u][a]}
               PROVE  arrival[u] < arrival[t]
    BY DEF ConflictsRunInArrivalOrder, Conflicts
  <2>1. u \in active
    BY SMTT(30) DEF IInv, TypeOK, Unblocked, Range
  <2>2. u \in current_tasks[a]
    BY <2>1, CountZero DEF IInv, TypeOK, RunInv, HoldInv
  <2>3. t \in blocked_usages[a]
    BY <2>2, Zenon DEF IInv, HoldInv
  <2> QED
    BY <2>2, <2>3, SMTT(30) DEF IInv, FifoInv
<1> QED
  BY <1>1, Invariance, PTL
=============================================================================
