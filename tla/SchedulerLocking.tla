-------------------------- MODULE SchedulerLocking --------------------------
(***************************************************************************)
(* Entering the usage queues preserves what the invariant says of them and *)
(* of the counters of blocked usages.                                      *)
(***************************************************************************)
EXTENDS SchedulerInvariant

(***************************************************************************)
(* A new task enters the usage queues.                                     *)
(***************************************************************************)
LEMMA LockStep ==
    ASSUME IInv, NEW t \in Task, NEW req \in LockContexts, Fresh(t),
           lock_contexts' = [lock_contexts EXCEPT ![t] = req],
           arrival' = [arrival EXCEPT ![t] = total_task_count + 1],
           active' = active \union {t},
           try_lock_usage_queues(t, req)
    PROVE  /\ HoldInv' /\ ReaderInv' /\ CountInv' /\ WaitersHoldInOrder' /\ FifoInv'
           /\ current_usage' \in [Address -> RequestedUsage \union {Unused}]
           /\ current_tasks' \in [Address -> SUBSET active']
           /\ blocked_usages' \in [Address -> SUBSET active']
           /\ blocked_usage_count' \in [Task -> Nat]
           /\ \A u \in active : blocked_usage_count'[u] = 0 <=> blocked_usage_count[u] = 0
<1> DEFINE Rb(a) == IF req[a] # NoContext THEN Reblocked(t, req[a], a) ELSE {}
           Got(a) == req[a] # NoContext /\ Locks(t, req[a], a)
           Lost(a) == req[a] # NoContext /\ ~Locks(t, req[a], a)
<1>1. t \notin active
  BY DEF IInv, ArrivalInv, Fresh
<1>2. /\ \A a \in Address : current_tasks'[a] =
             (current_tasks[a] \ Rb(a)) \union (IF Got(a) THEN {t} ELSE {})
      /\ \A a \in Address : blocked_usages'[a] =
             blocked_usages[a] \union Rb(a) \union (IF Lost(a) THEN {t} ELSE {})
      /\ \A a \in Address : current_usage'[a] = IF Got(a) THEN req[a] ELSE current_usage[a]
      /\ current_tasks' = [a \in Address |-> current_tasks'[a]]
      /\ blocked_usages' = [a \in Address |-> blocked_usages'[a]]
      /\ current_usage' = [a \in Address |-> current_usage'[a]]
  BY DEF try_lock_usage_queues
<1>3. /\ \A a \in Address : current_tasks[a] \subseteq active /\ blocked_usages[a] \subseteq active
      /\ active \subseteq Task
      /\ \A u \in Task, a \in Address : u # t => lock_contexts'[u][a] = lock_contexts[u][a]
      /\ \A a \in Address : lock_contexts'[t][a] = req[a]
      /\ \A a \in Address : req[a] \in RequestedUsage \union {NoContext}
  BY DEF IInv, TypeOK, LockContexts
<1>4. /\ \A a \in Address : Rb(a) \subseteq current_tasks[a]
      /\ \A a \in Address : \A c \in Rb(a) : blocked_usage_count[c] > 0 /\ Key(t)' < Key(c)
  BY <1>3, TaskAssumption, CapabilityAssumption DEF Reblocked, is_higher_priority, Key
<1>5. /\ \A u \in active : Key(u)' = Key(u)
      /\ \A u \in active' : Key(u)' \in Nat
      /\ Capability = "FifoQueueing" => \A u \in active : Key(u) < Key(t)'
      /\ Capability = "PriorityQueueing" => \A u \in active' : Key(u) = u /\ Key(u)' = u
  BY <1>1, <1>3, TaskAssumption DEF IInv, TypeOK, ArrivalInv, Key
<1>6. current_usage' \in [Address -> RequestedUsage \union {Unused}]
  BY <1>2, <1>3, Zenon DEF IInv, TypeOK
<1>7. /\ current_tasks' \in [Address -> SUBSET active']
      /\ blocked_usages' \in [Address -> SUBSET active']
  BY <1>2, <1>3, <1>4
<1>8. /\ CountInv'
      /\ blocked_usage_count' \in [Task -> Nat]
      /\ \A u \in active : blocked_usage_count'[u] = 0 <=> blocked_usage_count[u] = 0
  <2> DEFINE Back(u) == {a \in Address : u \in Rb(a)}
             Failed == {a \in Address : Lost(a)}
  <2>1. /\ blocked_usage_count'[t] = Cardinality(Failed)
        /\ \A u \in Task : u # t =>
              blocked_usage_count'[u] = blocked_usage_count[u] + Cardinality(Back(u))
    <3>1. /\ Failed = {a \in {b \in Address : req[b] # NoContext} : ~Locks(t, req[a], a)}
          /\ \A u \in Task : Back(u) = {a \in Address : u \in [b \in Address |->
                IF b \in {d \in Address : req[d] # NoContext}
                THEN Reblocked(t, req[b], b) ELSE {}][a]}
      OBVIOUS
    <3> QED
      BY <3>1, Zenon DEF try_lock_usage_queues, try_reblock
  <2>2. /\ BlockedOn(t)' = Failed
        /\ \A u \in Task : u # t => BlockedOn(u)' = BlockedOn(u) \union Back(u)
    BY <1>1, <1>2, <1>3, <1>4 DEF BlockedOn
  <2>3. \A u \in Task : BlockedOn(u) \intersect Back(u) = {}
    BY <1>4 DEF IInv, HoldInv, BlockedOn
  <2>4. /\ Failed \in SUBSET Address
        /\ \A u \in Task : BlockedOn(u) \in SUBSET Address /\ Back(u) \in SUBSET Address
    BY DEF BlockedOn
  <2>5. \A u \in Task : u # t =>
           Cardinality(BlockedOn(u)') = Cardinality(BlockedOn(u)) + Cardinality(Back(u))
    BY <2>2, <2>3, <2>4, AddressCount
  <2>6. CountInv'
    <3>1. \A u \in Task : blocked_usage_count'[u] = Cardinality(BlockedOn(u)')
      BY <2>1, <2>2, <2>5, Zenon DEF IInv, CountInv
    <3> QED
      BY <3>1 DEF CountInv
  <2>7. /\ Cardinality(Failed) \in Nat
        /\ \A u \in Task : /\ Cardinality(Back(u)) \in Nat
                           /\ Cardinality(Back(u)) = 0 <=> Back(u) = {}
    BY <2>4, AddressCount
  <2>8. \A u \in active : Back(u) # {} => blocked_usage_count[u] > 0
    BY <1>4
  <2>9. blocked_usage_count \in [Task -> Nat] /\ active \subseteq Task
    BY DEF IInv, TypeOK
  <2> HIDE DEF Back, Failed
  <2>10. \A u \in Task : blocked_usage_count'[u] \in Nat
    BY <2>1, <2>7, <2>9
  <2>11. ASSUME NEW u \in active
        PROVE  blocked_usage_count'[u] = 0 <=> blocked_usage_count[u] = 0
    BY <1>1, <2>1, <2>7, <2>8, <2>9
  <2> QED
    <3>1. blocked_usage_count' = [u \in Task |-> blocked_usage_count'[u]]
      BY DEF try_lock_usage_queues
    <3> QED
      BY <2>6, <2>10, <2>11, <3>1
\* What prepare_lock() and try_lock() leave behind at an address.
<1>9. ASSUME NEW a \in Address
      PROVE  /\ Lost(a) => current_tasks[a] \ Rb(a) # {}
             /\ Got(a) /\ current_tasks[a] \ Rb(a) # {} =>
                   current_usage[a] = "Readonly" /\ req[a] = "Readonly" /\ Rb(a) = {}
  BY SMTT(30) DEF Locks, prepare_lock, try_lock, Reblocked, IInv, HoldInv
<1>10. HoldInv'
  <2> SUFFICES ASSUME NEW a \in Address
      PROVE  /\ \A u \in active' :
                   Uses(u, a)' <=> u \in current_tasks'[a] \union blocked_usages'[a]
             /\ current_tasks'[a] \intersect blocked_usages'[a] = {}
             /\ current_usage'[a] = Unused <=> current_tasks'[a] = {}
             /\ current_tasks'[a] = {} => blocked_usages'[a] = {}
             /\ \A u \in current_tasks'[a] : lock_contexts'[u][a] = current_usage'[a]
             /\ current_usage'[a] = "Writable" => \A u, v \in current_tasks'[a] : u = v
    BY DEF HoldInv
  <2>1. /\ \A u \in active : Uses(u, a) <=> u \in current_tasks[a] \union blocked_usages[a]
        /\ current_tasks[a] \intersect blocked_usages[a] = {}
        /\ current_usage[a] = Unused <=> current_tasks[a] = {}
        /\ current_tasks[a] = {} => blocked_usages[a] = {}
        /\ \A u \in current_tasks[a] : lock_contexts[u][a] = current_usage[a]
        /\ current_usage[a] = "Writable" => \A u, v \in current_tasks[a] : u = v
    BY DEF IInv, HoldInv
  <2>2. /\ \A u \in active : Uses(u, a)' <=> Uses(u, a)
        /\ Uses(t, a)' <=> req[a] # NoContext
    BY <1>1, <1>3 DEF Uses
  <2> HIDE DEF Rb, Got, Lost
  <2>3. CASE Got(a)
    <3>1. ~Lost(a) /\ req[a] # NoContext /\ req[a] # Unused
      BY <2>3, <1>3, SMTT(30) DEF Got, Lost, NoContext, RequestedUsage, Unused
    <3> QED
      BY <1>1, <1>2, <1>3, <1>4, <1>9, <2>1, <2>2, <2>3, <3>1
  <2>4. CASE Lost(a)
    <3>1. ~Got(a) /\ req[a] # NoContext
      BY <2>4, SMTT(30) DEF Got, Lost
    <3> QED
      BY <1>1, <1>2, <1>3, <1>4, <1>9, <2>1, <2>2, <2>4, <3>1
  <2>5. CASE ~Got(a) /\ ~Lost(a)
    <3>1. req[a] = NoContext /\ Rb(a) = {}
      BY <2>5 DEF Got, Lost, Rb
    <3> QED
      BY <1>1, <1>2, <1>3, <2>1, <2>2, <2>5, <3>1
  <2> QED
    BY <2>3, <2>4, <2>5
<1>11. WaitersHoldInOrder'
  <2> SUFFICES ASSUME NEW a \in Address, NEW h \in current_tasks'[a],
                      NEW b \in blocked_usages'[a], blocked_usage_count'[h] > 0
               PROVE  Key(h)' < Key(b)'
    BY DEF WaitersHoldInOrder
  <2>1. \A u \in active : blocked_usage_count[u] \in Nat /\ blocked_usage_count'[u] \in Nat
    BY <1>3, <1>8, Zenon DEF IInv, TypeOK
  <2>2. \A x \in current_tasks[a], y \in blocked_usages[a] :
           blocked_usage_count[x] > 0 => Key(x) < Key(y)
    BY DEF IInv, WaitersHoldInOrder
  <2>3. h # t => blocked_usage_count[h] > 0 /\ h \in active /\ h \in current_tasks[a] \ Rb(a)
    BY <1>2, <1>3, <1>8, <2>1
  <2>4. CASE h # t /\ b \in blocked_usages[a]
    BY <1>3, <1>5, <2>2, <2>3, <2>4
  <2>5. CASE h # t /\ b \in Rb(a)
    <3>1. Capability = "PriorityQueueing" /\ ~is_higher_priority(t, h)
      BY <2>3, <2>5, CapabilityAssumption DEF Reblocked
    <3>2. h < t /\ t < b
      <4>1. h \in Nat /\ t \in Nat /\ h # t
        BY <1>3, <2>3, <2>5, TaskAssumption, Zenon
      <4>2. b \in active /\ Key(t)' < Key(b)
        BY <1>3, <1>4, <2>5
      <4> QED
        BY <1>5, <3>1, <4>1, <4>2 DEF is_higher_priority
    <3>3. {h, t, b} \subseteq Nat /\ {h, t, b} \subseteq active'
      BY <1>3, <1>4, <2>3, <2>5, TaskAssumption, Zenon
    <3> QED
      BY <1>5, <3>1, <3>2, <3>3
  <2>6. CASE h # t /\ b = t
    <3>1. Lost(a)
      BY <1>1, <1>2, <1>3, <1>4, <2>6
    <3>2. CASE Capability = "FifoQueueing"
      BY <1>5, <2>3, <2>6, <3>2
    <3>3. CASE Capability = "PriorityQueueing" /\ current_usage[a] = "Readonly" /\ req[a] = "Readonly"
      <4>1. PICK c \in blocked_usages[a] : ~(t < c)
        BY <3>1, <3>3 DEF Locks, prepare_lock, try_lock, is_higher_priority
      <4>2. c < t /\ h < c
        <5>1. {h, t, c} \subseteq Nat /\ {h, t, c} \subseteq active' /\ c # t
          BY <1>1, <1>3, <2>3, <4>1, TaskAssumption, Zenon
        <5>2. Key(h) < Key(c)
          BY <2>2, <2>3, <2>6, <4>1
        <5> QED
          BY <1>5, <3>3, <4>1, <5>1, <5>2
      <4>3. {h, t, c} \subseteq Nat /\ {h, t, c} \subseteq active'
        BY <1>3, <2>3, <4>1, TaskAssumption, Zenon
      <4> QED
        BY <1>5, <2>6, <3>3, <4>2, <4>3
    <3>4. CASE Capability = "PriorityQueueing" /\ ~(current_usage[a] = "Readonly" /\ req[a] = "Readonly")
      <4>1. ~is_higher_priority(t, h)
        <5>1. Capability # "FifoQueueing" /\ Rb(a) = Reblocked(t, req[a], a)
          BY <3>1, <3>4
        <5> QED
          BY <2>3, <2>6, <3>4, <5>1, SMTT(30) DEF Reblocked
      <4>2. {h, t} \subseteq Nat /\ {h, t} \subseteq active' /\ h # t
        BY <1>3, <2>3, <2>6, TaskAssumption, Zenon
      <4> QED
        BY <1>5, <2>6, <3>4, <4>1, <4>2 DEF is_higher_priority
    <3> QED
      BY <3>2, <3>3, <3>4, CapabilityAssumption
  <2>7. CASE h = t
    <3>1. Got(a) /\ ~Lost(a)
      BY <1>1, <1>2, <1>3, <2>7
    <3>2. CASE b \in Rb(a)
      BY <1>1, <1>3, <1>4, <1>5, <2>7, <3>2
    <3>3. CASE b \in blocked_usages[a] /\ current_tasks[a] \ Rb(a) # {}
      <4>1. Capability = "PriorityQueueing" /\ t < b
        BY <1>9, <3>1, <3>3, CapabilityAssumption, SMTT(30)
        DEF Locks, prepare_lock, try_lock, is_higher_priority, Reblocked
      <4> QED
        BY <1>3, <2>7, <3>3, <4>1, TaskAssumption DEF Key
    <3>4. CASE b \in blocked_usages[a] /\ current_tasks[a] \subseteq Rb(a)
      <4>1. PICK c \in Rb(a) : c \in current_tasks[a]
        <5>1. HoldInv
          BY Zenon DEF IInv
        <5>2. current_tasks[a] # {}
          BY <3>4, <5>1, Zenon DEF HoldInv
        <5> HIDE DEF Rb
        <5> QED
          BY <3>4, <5>2, Zenon
      <4>2. Key(t)' < Key(c) /\ Key(c) < Key(b)
        BY <1>4, <2>2, <3>4, <4>1
      <4>3. {Key(t)', Key(c), Key(b)} \subseteq Nat
        BY <1>3, <1>5, <3>4, <4>1, KeyFacts
      <4> QED
        BY <1>3, <1>5, <2>7, <3>4, <4>2, <4>3, SMTT(30)
    <3> QED
      BY <1>2, <3>1, <3>2, <3>3, <3>4
  <2> QED
    BY <1>2, <2>4, <2>5, <2>6, <2>7
<1>12. ReaderInv'
  <2> SUFFICES ASSUME NEW a \in Address, current_usage'[a] = "Readonly",
                      NEW b \in blocked_usages'[a], lock_contexts'[b][a] = "Readonly"
               PROVE  \E w \in blocked_usages'[a] :
                         lock_contexts'[w][a] = "Writable" /\ Key(w)' < Key(b)'
    BY DEF ReaderInv
  <2>1. \A x \in blocked_usages[a] \union current_tasks[a] :
           x \in active /\ Key(x)' = Key(x) /\ Key(x) \in Nat
                         /\ lock_contexts'[x][a] = lock_contexts[x][a]
    BY <1>1, <1>3, <1>5, KeyFacts
  <2>2. blocked_usages[a] \union Rb(a) \subseteq blocked_usages'[a]
    BY <1>2
  <2>3. ASSUME current_usage[a] = "Readonly", NEW x \in blocked_usages[a],
               lock_contexts[x][a] = "Readonly"
        PROVE  \E w \in blocked_usages[a] : lock_contexts[w][a] = "Writable" /\ Key(w) < Key(x)
    BY <2>3 DEF IInv, ReaderInv
  <2>4. CASE current_usage[a] = "Readonly" /\ b \in blocked_usages[a]
    BY <2>1, <2>2, <2>3, <2>4
  <2>5. CASE current_usage[a] = "Readonly" /\ b \in Rb(a)
    <3>1. req[a] = "Writable" /\ ~Got(a)
      BY <1>2, <1>3, <1>9, <2>5 DEF Reblocked, RequestedUsage
    <3>2. t \in blocked_usages'[a] /\ lock_contexts'[t][a] = "Writable"
      BY <1>2, <1>3, <3>1 DEF NoContext
    <3>3. Key(t)' < Key(b)'
      BY <1>4, <2>1, <2>5
    <3> QED
      BY <3>2, <3>3
  <2>6. CASE current_usage[a] = "Readonly" /\ b = t
    <3>1. Lost(a) /\ req[a] = "Readonly"
      BY <1>1, <1>2, <1>3, <1>4, <2>6
    <3>2. PICK c \in blocked_usages[a] : Key(c) < Key(t)'
      <4>1. CASE Capability = "FifoQueueing"
        BY <1>3, <1>5, <2>6, <3>1, <4>1 DEF Locks, prepare_lock, try_lock
      <4>2. CASE Capability = "PriorityQueueing"
        <5>1. PICK c \in blocked_usages[a] : ~(t < c)
          BY <2>6, <3>1, <4>2 DEF Locks, prepare_lock, try_lock, is_higher_priority
        <5>2. c \in Nat /\ t \in Nat /\ c # t /\ c \in active'
          BY <1>1, <1>3, <5>1, TaskAssumption, Zenon
        <5> QED
          BY <1>5, <4>2, <5>1, <5>2
      <4> QED
        BY <4>1, <4>2, CapabilityAssumption
    <3>3. lock_contexts[c][a] \in RequestedUsage
      BY <1>3, <3>2 DEF IInv, TypeOK, HoldInv, Uses
    <3>4. Key(t)' \in Nat
      BY <1>5
    <3>5. CASE lock_contexts[c][a] = "Writable"
      BY <2>1, <2>2, <2>6, <3>2, <3>5
    <3>6. CASE lock_contexts[c][a] = "Readonly"
      <4>1. PICK w \in blocked_usages[a] : lock_contexts[w][a] = "Writable" /\ Key(w) < Key(c)
        BY <2>3, <2>6, <3>6
      <4> QED
        BY <2>1, <2>2, <2>6, <3>2, <3>4, <4>1, SMTT(30)
    <3> QED
      BY <3>3, <3>5, <3>6 DEF RequestedUsage
  <2>7. CASE current_usage[a] # "Readonly"
    <3>1. Got(a) /\ current_tasks[a] \subseteq Rb(a)
      BY <1>2, <1>9, <2>7
    <3>2. b \in blocked_usages[a] \union Rb(a) /\ b \in active
      BY <1>2, <1>3, <1>4, <3>1
    <3>3. PICK c \in current_tasks[a] : c \in Rb(a)
      BY <1>4, <3>1, <3>2, SMTT(30) DEF IInv, HoldInv
    <3>4. lock_contexts[c][a] = "Writable" /\ current_tasks[a] = {c}
      <4>1. current_usage[a] = "Writable"
        BY <2>7, <3>3 DEF IInv, HoldInv, TypeOK, RequestedUsage
      <4> QED
        BY <3>3, <4>1, SMTT(30) DEF IInv, HoldInv
    <3>5. b \in blocked_usages[a]
      BY <1>4, <2>1, <3>2, <3>4
    <3>6. Key(c) < Key(b)
      BY <1>4, <3>3, <3>5, SMTT(30) DEF IInv, WaitersHoldInOrder
    <3> QED
      BY <2>1, <2>2, <3>3, <3>4, <3>5, <3>6
  <2> QED
    BY <1>2, <2>4, <2>5, <2>6, <2>7
<1>13. FifoInv'
  <2> SUFFICES ASSUME Capability = "FifoQueueing", NEW a \in Address,
                      NEW h \in current_tasks'[a], NEW b \in blocked_usages'[a]
               PROVE  Key(h)' < Key(b)'
    BY DEF FifoInv, Key
  <2>1. Rb(a) = {} /\ (Got(a) => blocked_usages[a] = {} /\ ~Lost(a))
    BY DEF Reblocked, Locks, prepare_lock
  <2>2. h \in current_tasks[a] /\ h \in active
    BY <1>1, <1>2, <1>3, <2>1
  <2>3. CASE b = t
    BY <1>5, <2>2, <2>3, SMTT(30)
  <2>4. CASE b \in blocked_usages[a]
    <3>1. Key(h) < Key(b)
      BY <2>2, <2>4 DEF IInv, FifoInv, Key
    <3> QED
      BY <1>3, <1>5, <2>2, <2>4, <3>1
  <2> QED
    BY <1>2, <2>1, <2>3, <2>4
<1> QED
  BY <1>6, <1>7, <1>8, <1>10, <1>11, <1>12, <1>13
=============================================================================
