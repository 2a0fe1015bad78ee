------------------------- MODULE SchedulerInvariant -------------------------
(***************************************************************************)
(* The inductive invariant of the scheduler, what follows from it in a     *)
(* single state, and counting lemmas.                                      *)
(***************************************************************************)
EXTENDS SchedulingStateMachine, FiniteSetTheorems, SequenceTheorems, TLAPS

-----------------------------------------------------------------------------
\* A nonempty set of naturals has a least element.
LEMMA NatMin ==
    ASSUME NEW S \in SUBSET Nat, S # {}
    PROVE  \E m \in S : \A n \in S : m <= n
<1> DEFINE R == {p \in Nat \X Nat : p[1] < p[2]}
<1>1. IsWellFoundedOn(R, Nat)
  BY NatLessThanWellFounded DEF OpToRel
<1>2. PICK m \in S : \A n \in S : <<n, m>> \notin R
  BY <1>1, WFMin, Zenon
<1>3. ASSUME NEW n \in S, n < m PROVE FALSE
  <2> DEFINE p == <<n, m>>
  <2>1. p \in Nat \X Nat /\ p[1] < p[2]
    BY <1>3
  <2> QED
    BY <1>2, <2>1
<1> QED
  BY <1>3
-----------------------------------------------------------------------------
(***************************************************************************)
(* The inductive invariant.                                                *)
(***************************************************************************)
BlockedOn(t) == {a \in Address : t \in blocked_usages[a]}

\* An active task stands in the usage queue of each address it names, either
\* among the users or among the blocked ones; nobody else stands there.
HoldInv ==
    \A a \in Address :
        /\ \A t \in active : Uses(t, a) <=> t \in current_tasks[a] \union blocked_usages[a]
        /\ current_tasks[a] \intersect blocked_usages[a] = {}
        /\ current_usage[a] = Unused <=> current_tasks[a] = {}
        /\ current_tasks[a] = {} => blocked_usages[a] = {}
        /\ \A t \in current_tasks[a] : lock_contexts[t][a] = current_usage[a]
        /\ current_usage[a] = "Writable" => \A t, u \in current_tasks[a] : t = u

\* The head of the queue of an address that readers use is a writer.
ReaderInv ==
    \A a \in Address :
        current_usage[a] = "Readonly" =>
            \A b \in blocked_usages[a] :
                lock_contexts[b][a] = "Readonly" =>
                    \E w \in blocked_usages[a] :
                        lock_contexts[w][a] = "Writable" /\ Key(w) < Key(b)

\* With FIFO queues the blocked tasks arrived after all the users.
FifoInv ==
    Capability = "FifoQueueing" =>
        \A a \in Address : \A h \in current_tasks[a], b \in blocked_usages[a] :
            arrival[h] < arrival[b]

CountInv == \A t \in Task : blocked_usage_count[t] = Cardinality(BlockedOn(t))

\* The queue of runnable tasks has no duplicates and shares none with the
\* running tasks; together they are the active tasks that wait for nothing.
RunInv ==
    /\ \A t \in active : t \in Unblocked <=> blocked_usage_count[t] = 0
    /\ running \intersect Range(unblocked_task_queue) = {}
    /\ IsInjective(unblocked_task_queue)

ArrivalInv ==
    /\ \A t \in Task : arrival[t] <= total_task_count
    /\ \A t \in active : arrival[t] > 0
    /\ \A t, u \in active : arrival[t] = arrival[u] => t = u

CounterInv ==
    /\ active_task_count = Cardinality(active)
    /\ running_task_count = Cardinality(running)
    /\ total_task_count = active_task_count + handled_task_count
    /\ clearing => running = {}

IInv ==
    /\ TypeOK /\ HoldInv /\ ReaderInv /\ CountInv /\ WaitersHoldInOrder
    /\ FifoInv /\ RunInv /\ ArrivalInv /\ CounterInv
-----------------------------------------------------------------------------
\* Keys are natural numbers that tell active tasks apart.
LEMMA KeyFacts ==
    ASSUME IInv
    PROVE  /\ \A t \in Task : Key(t) \in Nat
           /\ \A t, u \in active : Key(t) = Key(u) => t = u
BY TaskAssumption, CapabilityAssumption DEF IInv, TypeOK, ArrivalInv, Key

\* A nonempty set of tasks has a member with the least key.
LEMMA LeastKey ==
    ASSUME IInv, NEW T \in SUBSET Task, T # {}
    PROVE  \E m \in T : \A t \in T : Key(m) <= Key(t)
<1> DEFINE S == {Key(t) : t \in T}
<1>1. S \in SUBSET Nat /\ S # {}
  BY KeyFacts
<1>2. PICK k \in S : \A n \in S : k <= n
  BY <1>1, NatMin, Zenon
<1> QED
  BY <1>2

\* A task waits for nothing exactly when it is blocked nowhere.
LEMMA CountZero ==
    ASSUME CountInv, NEW t \in Task
    PROVE  /\ blocked_usage_count[t] \in Nat
           /\ blocked_usage_count[t] = 0 <=> \A a \in Address : t \notin blocked_usages[a]
<1>1. IsFiniteSet(BlockedOn(t))
  BY AddressAssumption, FS_Subset DEF BlockedOn
<1>2. Cardinality(BlockedOn(t)) \in Nat /\ (Cardinality(BlockedOn(t)) = 0 <=> BlockedOn(t) = {})
  BY <1>1, FS_CardinalityType, FS_EmptySet
<1> QED
  BY <1>2 DEF CountInv, BlockedOn

\* The task with the least key among the active ones waits for nothing: in
\* front of it there would be a holder that runs, or one with a lower key.
LEMMA LeastTaskRuns == IInv => SomeTaskCanRun
<1> SUFFICES ASSUME IInv, active # {}, Unblocked = {} PROVE FALSE
  BY DEF SomeTaskCanRun
<1>1. PICK m \in active : \A t \in active : Key(m) <= Key(t)
  BY LeastKey, Zenon DEF IInv, TypeOK
<1>2. PICK a \in Address : m \in blocked_usages[a]
  BY CountZero DEF IInv, TypeOK, RunInv
<1>3. PICK h \in current_tasks[a] : TRUE
  BY <1>2 DEF IInv, HoldInv
<1>4. h \in active /\ h \in Task /\ blocked_usage_count[h] > 0
  BY CountZero DEF IInv, TypeOK, RunInv
<1>5. Key(h) < Key(m)
  BY <1>2, <1>3, <1>4 DEF IInv, WaitersHoldInOrder
<1> QED
  BY <1>1, <1>4, <1>5, KeyFacts DEF IInv, TypeOK

\* Two tasks that wait for nothing hold all their addresses, and an address
\* that is written has one holder.
LEMMA UnblockedDoNotConflict == IInv => NoConflictingTasksUnblocked
<1> SUFFICES ASSUME IInv, NEW t \in Unblocked, NEW u \in Unblocked, t # u,
                    NEW a \in Address, Uses(t, a), Uses(u, a),
                    "Writable" \in {lock_contexts[t][a], lock_contexts[u][a]}
             PROVE  FALSE
  BY DEF NoConflictingTasksUnblocked, Conflicts
<1>1. t \in active /\ u \in active
  BY DEF IInv, TypeOK, Unblocked, Range
<1>2. t \in current_tasks[a] /\ u \in current_tasks[a]
  BY <1>1, CountZero DEF IInv, TypeOK, RunInv, HoldInv
<1> QED
  BY <1>2 DEF IInv, HoldInv
-----------------------------------------------------------------------------
\* Cardinalities of sets of addresses.
LEMMA AddressCount ==
    /\ \A S \in SUBSET Address :
          Cardinality(S) \in Nat /\ (Cardinality(S) = 0 <=> S = {})
    /\ \A S, T \in SUBSET Address :
          S \intersect T = {} => Cardinality(S \union T) = Cardinality(S) + Cardinality(T)
    /\ \A S, T \in SUBSET Address :
          T \subseteq S => Cardinality(S \ T) = Cardinality(S) - Cardinality(T)
<1>1. \A S \in SUBSET Address : IsFiniteSet(S)
  BY AddressAssumption, FS_Subset
<1>2. \A S \in SUBSET Address :
         Cardinality(S) \in Nat /\ (Cardinality(S) = 0 <=> S = {})
  BY <1>1, FS_CardinalityType, FS_EmptySet
<1>3. ASSUME NEW S \in SUBSET Address, NEW T \in SUBSET Address, S \intersect T = {}
      PROVE  Cardinality(S \union T) = Cardinality(S) + Cardinality(T)
  <2>1. Cardinality(S \union T) = Cardinality(S) + Cardinality(T) - Cardinality({})
    BY <1>1, <1>3, FS_Union
  <2> QED
    BY <2>1, <1>2
<1>4. ASSUME NEW S \in SUBSET Address, NEW T \in SUBSET Address, T \subseteq S
      PROVE  Cardinality(S \ T) = Cardinality(S) - Cardinality(T)
  <2>1. S = (S \ T) \union T /\ (S \ T) \intersect T = {} /\ S \ T \in SUBSET Address
    BY <1>4
  <2>2. Cardinality(S) = Cardinality(S \ T) + Cardinality(T)
    BY <2>1, <1>3
  <2> QED
    BY <2>1, <2>2, <1>2
<1> QED
  BY <1>2, <1>3, <1>4
=============================================================================
