------------------------- MODULE SchedulerUnlocking -------------------------
(***************************************************************************)
(* Leaving the usage queues preserves what the invariant says of them, of  *)
(* the counters of blocked usages, and of the queue of runnable tasks.     *)
(***************************************************************************)
EXTENDS SchedulerInvariant

\* Appending to a queue without duplicates others that it does not contain.
LEMMA ConcatInjective ==
    ASSUME NEW S, NEW r \in Seq(S), NEW o \in Seq(S), IsInjective(r), IsInjective(o),
           Range(r) \intersect Range(o) = {}
    PROVE  /\ r \o o \in Seq(S) /\ Range(r \o o) = Range(r) \union Range(o)
           /\ IsInjective(r \o o)
<1> DEFINE c == r \o o
<1>1. /\ c \in Seq(S) /\ Len(c) = Len(r) + Len(o)
      /\ \A i \in 1..Len(c) : c[i] = IF i <= Len(r) THEN r[i] ELSE o[i - Len(r)]
      /\ Len(r) \in Nat /\ Len(o) \in Nat
      /\ DOMAIN c = 1..Len(c) /\ DOMAIN r = 1..Len(r) /\ DOMAIN o = 1..Len(o)
  BY SMTT(30)
<1> HIDE DEF c
<1>2. \A i \in DOMAIN c : \/ i \in DOMAIN r /\ c[i] = r[i]
                          \/ i - Len(r) \in DOMAIN o /\ c[i] = o[i - Len(r)] /\ i > Len(r)
  BY <1>1
<1>3. Range(c) \subseteq Range(r) \union Range(o)
  BY <1>2 DEF Range
<1>4. Range(r) \subseteq Range(c)
  <2>1. \A i \in DOMAIN r : i \in DOMAIN c /\ c[i] = r[i]
    BY <1>1
  <2> QED
    BY <2>1 DEF Range
<1>5. Range(o) \subseteq Range(c)
  <2>1. \A i \in DOMAIN o : i + Len(r) \in DOMAIN c /\ c[i + Len(r)] = o[i]
    BY <1>1
  <2> QED
    BY <2>1 DEF Range
<1>6. IsInjective(c)
  <2> SUFFICES ASSUME NEW i \in DOMAIN c, NEW j \in DOMAIN c, c[i] = c[j] PROVE i = j
    BY DEF IsInjective
  <2>1. i \in Int /\ j \in Int
    BY <1>1
  <2>2. ~(\E k \in DOMAIN r, l \in DOMAIN o : r[k] = o[l])
    BY Zenon DEF Range
  <2> QED
    BY <1>1, <1>2, <2>1, <2>2 DEF IsInjective
<1> QED
  BY <1>1, <1>3, <1>4, <1>5, <1>6, SMTT(30) DEF c

(***************************************************************************)
(* A task that waits for nothing leaves the usage queues.                  *)
(***************************************************************************)
LEMMA UnlockStep ==
    ASSUME IInv, NEW t \in active, blocked_usage_count[t] = 0,
           NEW rest \in Seq(active), IsInjective(rest),
           running' \intersect Range(rest) = {},
           running' \union Range(rest) = Unblocked \ {t},
           active' = active \ {t},
           lock_contexts' = [lock_contexts EXCEPT ![t] = NoContexts],
           arrival' = arrival,
           unlock_usage_queues(t, rest)
    PROVE  /\ HoldInv' /\ ReaderInv' /\ CountInv' /\ WaitersHoldInOrder' /\ FifoInv' /\ RunInv'
           /\ current_usage' \in [Address -> RequestedUsage \union {Unused}]
           /\ current_tasks' \in [Address -> SUBSET active']
           /\ blocked_usages' \in [Address -> SUBSET active']
           /\ blocked_usage_count' \in [Task -> Nat]
           /\ unblocked_task_queue' \in Seq(active')
<1> DEFINE Pop(a) == unlock(t, a)
           Free(a) == Uses(t, a) /\ current_tasks[a] \subseteq {t}
<1>1. /\ active \subseteq Task /\ t \in Task
      /\ \A a \in Address : current_tasks[a] \subseteq active /\ blocked_usages[a] \subseteq active
      /\ \A a \in Address : t \notin blocked_usages[a]
      /\ \A u \in Task, a \in Address : u # t => lock_contexts'[u][a] = lock_contexts[u][a]
      /\ \A a \in Address : Uses(t, a) <=> t \in current_tasks[a]
  BY CountZero DEF IInv, TypeOK, HoldInv
<1>2. /\ \A u \in Task : Key(u)' = Key(u) /\ Key(u) \in Nat
      /\ \A u, v \in active : Key(u) = Key(v) => u = v
  BY KeyFacts DEF Key
<1>3. /\ \A a \in Address : current_tasks'[a] = (current_tasks[a] \ {t}) \union Pop(a)
      /\ \A a \in Address : blocked_usages'[a] = blocked_usages[a] \ Pop(a)
      /\ \A a \in Address : ~Free(a) => current_usage'[a] = current_usage[a] /\ Pop(a) = {}
      /\ \A a \in Address : Free(a) => Pop(a) = Lockable(a)
      /\ \A a \in Address : Free(a) => current_usage'[a] =
            IF Pop(a) = {} THEN Unused
            ELSE IF \E u \in Pop(a) : lock_contexts[u][a] = "Writable"
                 THEN "Writable" ELSE "Readonly"
  BY <1>1, SMTT(30) DEF unlock_usage_queues, unlock
<1>4. /\ current_tasks' = [a \in Address |-> current_tasks'[a]]
      /\ blocked_usages' = [a \in Address |-> blocked_usages'[a]]
      /\ current_usage' = [a \in Address |-> current_usage'[a]]
  BY SMTT(30) DEF unlock_usage_queues
<1>5. \A a \in Address : Pop(a) \subseteq blocked_usages[a]
  BY DEF unlock, Lockable
<1>6. current_usage' \in [Address -> RequestedUsage \union {Unused}]
  BY <1>3, <1>4, Zenon DEF IInv, TypeOK, RequestedUsage
<1>7. /\ current_tasks' \in [Address -> SUBSET active']
      /\ blocked_usages' \in [Address -> SUBSET active']
  BY <1>1, <1>3, <1>4, <1>5
\* The loop stops with the head of the queue popped, and pops a writer alone.
<1>8. ASSUME NEW a \in Address, Free(a)
      PROVE  /\ Pop(a) = {} => blocked_usages[a] = {}
             /\ \A u, v \in Pop(a) : u # v => lock_contexts[u][a] = "Readonly"
  <2>1. \A b \in Pop(a), c \in blocked_usages[a] :
           Key(c) < Key(b) => /\ lock_contexts[b][a] = "Readonly"
                              /\ lock_contexts[c][a] = "Readonly"
    BY <1>3, <1>8, SMTT(30) DEF Lockable
  <2>2. ASSUME blocked_usages[a] # {} PROVE Pop(a) # {}
    <3>1. PICK m \in blocked_usages[a] : \A c \in blocked_usages[a] : Key(m) <= Key(c)
      BY <1>1, <2>2, LeastKey
    <3>2. m \in Lockable(a)
      BY <1>1, <1>2, <3>1, SMTT(30) DEF Lockable
    <3> QED
      BY <1>3, <1>8, <3>2, SMTT(30)
  <2>3. ASSUME NEW u \in Pop(a), NEW v \in Pop(a), u # v
        PROVE  lock_contexts[u][a] = "Readonly"
    <3>1. Key(u) \in Nat /\ Key(v) \in Nat /\ Key(u) # Key(v)
      BY <1>1, <1>2, <1>5, <2>3, SMTT(30)
    <3> QED
      BY <1>5, <2>1, <3>1
  <2> QED
    BY <2>2, <2>3
\* Whatever stays behind is behind a popped task, and behind a writer.
<1>9. ASSUME NEW a \in Address, Free(a), NEW b \in blocked_usages[a] \ Pop(a)
      PROVE  /\ \A h \in Pop(a) : Key(h) < Key(b)
             /\ \E c \in blocked_usages[a] :
                   /\ Key(c) < Key(b)
                   /\ "Readonly" # lock_contexts[b][a] \/ "Readonly" # lock_contexts[c][a]
  <2>1. PICK c \in blocked_usages[a] :
              /\ Key(c) < Key(b)
              /\ "Readonly" # lock_contexts[b][a] \/ "Readonly" # lock_contexts[c][a]
    BY <1>3, <1>9, SMTT(30) DEF Lockable
  <2>2. ASSUME NEW h \in Pop(a) PROVE Key(h) < Key(b)
    <3>1. {h, b, c} \subseteq active /\ h # b
      BY <1>1, <1>5, <2>1
    <3>2. {Key(h), Key(b), Key(c)} \subseteq Nat /\ Key(h) # Key(b)
      BY <1>1, <1>2, <3>1, SMTT(30)
    <3>3. \A d \in blocked_usages[a] :
             Key(d) < Key(h) => /\ lock_contexts[h][a] = "Readonly"
                                /\ lock_contexts[d][a] = "Readonly"
      BY <1>3, <1>9, SMTT(30) DEF Lockable
    <3>4. ~(Key(b) < Key(h))
      BY <2>1, <3>2, <3>3
    <3> QED
      BY <3>2, <3>4
  <2> QED
    BY <2>1, <2>2, SMTT(30)
<1>10. HoldInv'
  <2> SUFFICES ASSUME NEW a \in Address
      PROVE  /\ \A u \in active' :
                   Uses(u, a)' <=> u \in current_tasks'[a] \union blocked_usages'[a]
             /\ current_tasks'[a] \intersect blocked_usages'[a] = {}
             /\ current_usage'[a] = Unused <=> current_tasks'[a] = {}
             /\ current_tasks'[a] = {} => blocked_usages'[a] = {}
             /\ \A u \in current_tasks'[a] : lock_contexts'[u][a] = current_usage'[a]
             /\ current_usage'[a] = "Writable" => \A u, v \in current_tasks'[a] : u = v
    BY SMTT(30) DEF HoldInv
  <2>1. /\ \A u \in active : Uses(u, a) <=> u \in current_tasks[a] \union blocked_usages[a]
        /\ current_tasks[a] \intersect blocked_usages[a] = {}
        /\ current_usage[a] = Unused <=> current_tasks[a] = {}
        /\ current_tasks[a] = {} => blocked_usages[a] = {}
        /\ \A u \in current_tasks[a] : lock_contexts[u][a] = current_usage[a]
        /\ current_usage[a] = "Writable" => \A u, v \in current_tasks[a] : u = v
    BY DEF IInv, HoldInv
  <2>2. \A u \in active' : Uses(u, a)' <=> Uses(u, a)
    BY <1>1 DEF Uses
  <2>3. \A u \in blocked_usages[a] : lock_contexts[u][a] \in RequestedUsage
    BY <1>1, <2>1 DEF IInv, TypeOK, Uses
  <2>4. CASE Free(a)
    <3>1. current_tasks'[a] = Pop(a) /\ \A u \in Pop(a) : u # t
      <4>1. current_tasks[a] \ {t} = {}
        BY <2>4
      <4>2. current_tasks'[a] = (current_tasks[a] \ {t}) \union Pop(a)
        BY <1>3, SMTT(30)
      <4>3. \A u \in Pop(a) : u # t
        BY <1>1, <1>5
      <4> QED
        BY <4>1, <4>2, <4>3, SMTT(30)
    <3>2. \A u \in Pop(a) : lock_contexts'[u][a] = lock_contexts[u][a]
                             /\ lock_contexts[u][a] \in RequestedUsage
      BY <1>1, <1>5, <2>3, <3>1, SMTT(30)
    <3>3. /\ current_usage'[a] = Unused <=> Pop(a) = {}
          /\ \A u \in Pop(a) : lock_contexts[u][a] = current_usage'[a]
          /\ current_usage'[a] = "Writable" => \A u, v \in Pop(a) : u = v
      BY <1>3, <1>8, <2>4, <3>2, SMTT(30) DEF Unused, RequestedUsage
    <3>4. \A u \in active' : Uses(u, a)' <=> u \in current_tasks'[a] \union blocked_usages'[a]
      BY <1>3, <1>5, <2>1, <2>2, <2>4, <3>1, SMTT(30)
    <3> HIDE DEF Pop, Free
    <3> QED
      BY <1>3, <1>8, <2>4, <3>1, <3>2, <3>3, <3>4, SMTT(30)
  <2>5. CASE ~Free(a)
    BY <1>1, <1>3, <2>1, <2>2, <2>5, SMTT(30)
  <2> QED
    BY <2>4, <2>5, SMTT(30)
<1>11. ReaderInv'
  <2> SUFFICES ASSUME NEW a \in Address, current_usage'[a] = "Readonly",
                      NEW b \in blocked_usages'[a], lock_contexts'[b][a] = "Readonly"
               PROVE  \E w \in blocked_usages'[a] :
                         lock_contexts'[w][a] = "Writable" /\ Key(w)' < Key(b)'
    BY SMTT(30) DEF ReaderInv
  <2>1. \A x \in blocked_usages[a] :
           x \in Task /\ Key(x)' = Key(x) /\ lock_contexts'[x][a] = lock_contexts[x][a]
    BY <1>1, <1>2, SMTT(30)
  <2>2. b \in blocked_usages[a] \ Pop(a)
    BY <1>3, SMTT(30)
  <2>3. CASE Free(a)
    <3>1. PICK c \in blocked_usages[a] : Key(c) < Key(b) /\ "Readonly" # lock_contexts[c][a]
      BY <1>9, <2>1, <2>2, <2>3, SMTT(30)
    <3>2. lock_contexts[c][a] = "Writable"
      BY <1>1, <3>1, SMTT(30) DEF IInv, TypeOK, HoldInv, Uses, RequestedUsage
    <3>3. c \notin Pop(a)
      BY <1>3, <2>3, <3>2, SMTT(30)
    <3> QED
      BY <1>3, <2>1, <2>2, <3>1, <3>2, <3>3, SMTT(30)
  <2>4. CASE ~Free(a)
    <3>1. PICK w \in blocked_usages[a] : lock_contexts[w][a] = "Writable" /\ Key(w) < Key(b)
      BY <1>3, <2>1, <2>2, <2>4, Zenon DEF IInv, ReaderInv
    <3> QED
      BY <1>3, <2>1, <2>2, <2>4, <3>1, SMTT(30)
  <2> QED
    BY <2>3, <2>4, SMTT(30)
<1>12. ASSUME NEW u \in Task
       PROVE  /\ blocked_usage_count'[u] \in Nat
              /\ blocked_usage_count'[u] = Cardinality(BlockedOn(u)')
              /\ blocked_usage_count'[u] =
                   blocked_usage_count[u] - Cardinality({a \in Address : u \in Pop(a)})
              /\ blocked_usage_count'[u] <= blocked_usage_count[u]
              /\ blocked_usage_count[u] = blocked_usage_count'[u]
                    <=> \A a \in Address : u \notin Pop(a)
  <2> DEFINE P == {a \in Address : u \in Pop(a)}
  <2>1. /\ P \in SUBSET Address /\ BlockedOn(u) \in SUBSET Address /\ P \subseteq BlockedOn(u)
        /\ BlockedOn(u)' = BlockedOn(u) \ P
    BY <1>3, <1>5, SMTT(30) DEF BlockedOn
  <2>2. /\ Cardinality(BlockedOn(u)') = Cardinality(BlockedOn(u)) - Cardinality(P)
        /\ Cardinality(P) \in Nat /\ (Cardinality(P) = 0 <=> P = {})
        /\ Cardinality(BlockedOn(u)) \in Nat
        /\ Cardinality(BlockedOn(u)') \in Nat
    BY <2>1, AddressCount, SMTT(30)
  <2>3. blocked_usage_count[u] = Cardinality(BlockedOn(u))
    BY DEF IInv, CountInv
  <2>4. blocked_usage_count'[u] = blocked_usage_count[u] - Cardinality(P)
    <3>1. P = {a \in Address : u \in [b \in Address |-> unlock(t, b)][a]}
      OBVIOUS
    <3> QED
      BY <3>1, Zenon DEF unlock_usage_queues, try_unblock
  <2>5. P = {} <=> \A a \in Address : u \notin Pop(a)
    OBVIOUS
  <2> HIDE DEF P
  <2>6. blocked_usage_count'[u] = Cardinality(BlockedOn(u)')
    BY <2>2, <2>3, <2>4
  <2>7. /\ blocked_usage_count'[u] <= blocked_usage_count[u]
        /\ blocked_usage_count[u] = blocked_usage_count'[u] <=> P = {}
    BY <2>2, <2>3, <2>4, SMTT(30)
  <2> QED
    BY <2>2, <2>4, <2>5, <2>6, <2>7, SMTT(30) DEF P
<1>13. CountInv' /\ blocked_usage_count' \in [Task -> Nat]
  <2>1. blocked_usage_count' = [u \in Task |-> blocked_usage_count'[u]]
    BY SMTT(30) DEF unlock_usage_queues
  <2> QED
    BY <1>12, <2>1, Zenon DEF CountInv
<1>14. WaitersHoldInOrder'
  <2> SUFFICES ASSUME NEW a \in Address, NEW h \in current_tasks'[a],
                      NEW b \in blocked_usages'[a], blocked_usage_count'[h] > 0
               PROVE  Key(h)' < Key(b)'
    BY SMTT(30) DEF WaitersHoldInOrder
  <2>1. b \in blocked_usages[a] \ Pop(a) /\ b \in Task /\ h \in Task
    BY <1>1, <1>3, <1>5, SMTT(30)
  <2>2. CASE h \in Pop(a)
    <3>1. Free(a)
      BY <1>3, <2>2, SMTT(30)
    <3>2. Key(h) < Key(b)
      BY <1>9, <2>1, <2>2, <3>1, Zenon
    <3> QED
      BY <1>2, <2>1, <3>2, SMTT(30)
  <2>3. CASE h \in current_tasks[a]
    <3>1. blocked_usage_count[h] > 0
      <4>1. /\ blocked_usage_count'[h] \in Nat /\ blocked_usage_count[h] \in Nat
            /\ blocked_usage_count'[h] <= blocked_usage_count[h]
        BY <1>12, <2>1, Zenon DEF IInv, TypeOK
      <4> QED
        BY <4>1, SMTT(30)
    <3> QED
      BY <1>2, <2>1, <2>3, <3>1, SMTT(30) DEF IInv, WaitersHoldInOrder
  <2> QED
    BY <1>3, <2>2, <2>3, SMTT(30)
<1>15. RunInv' /\ unblocked_task_queue' \in Seq(active')
  <2> DEFINE newly == {u \in Task : /\ \E a \in Address : u \in Pop(a)
                                   /\ blocked_usage_count'[u] = 0}
  <2>1. PICK order \in Bijection(1..Cardinality(newly), newly) :
              unblocked_task_queue' = rest \o order
    <3> DEFINE popped == [a \in Address |-> unlock(t, a)]
               count == [u \in Task |-> try_unblock(u, popped)]
               N == {u \in Task : /\ \E a \in Address : u \in popped[a]
                                  /\ count[u] = 0}
    <3>1. blocked_usage_count' = count
      BY SMTT(30) DEF unlock_usage_queues
    <3>2. newly = N
      BY <3>1
    <3>3. \E order \in UnblockOrders(t, N) : unblocked_task_queue' = rest \o order
      BY Zenon DEF unlock_usage_queues
    <3> HIDE DEF N, newly
    <3> QED
      BY <3>2, <3>3, SMTT(30) DEF UnblockOrders
  <2>2. newly \subseteq active' /\ newly \intersect Unblocked = {}
    <3> SUFFICES ASSUME NEW u \in newly PROVE u \in active' /\ u \notin Unblocked
      BY SMTT(30)
    <3>1. PICK a \in Address : u \in Pop(a)
      OBVIOUS
    <3>2. u \in active /\ u # t
      BY <1>1, <1>5, <3>1, SMTT(30)
    <3>3. blocked_usage_count[u] # 0
      <4>1. u \in blocked_usages[a] /\ u \in Task
        BY <1>5, <3>1, Zenon
      <4>2. CountInv
        BY Zenon DEF IInv
      <4> QED
        BY <4>1, <4>2, CountZero, Zenon
    <3> QED
      BY <3>2, <3>3, SMTT(30) DEF IInv, RunInv
  <2>3. Cardinality(newly) \in Nat
    BY <2>2, <1>1, TaskAssumption, FS_Subset, FS_CardinalityType, SMTT(30)
  <2> HIDE DEF newly
  <2>4. order \in Seq(active') /\ IsInjective(order) /\ Range(order) = newly
    <3>1. order \in [1..Cardinality(newly) -> newly] /\ IsInjective(order)
      BY <2>1 DEF Bijection, Injection
    <3>2. \A u \in newly : \E i \in 1..Cardinality(newly) : order[i] = u
      BY <2>1 DEF Bijection, Surjection
    <3>3. order \in Seq(newly)
      BY <2>3, <3>1
    <3>4. order \in Seq(active')
      BY <2>2, <3>3
    <3> QED
      BY <3>1, <3>2, <3>4 DEF Range
  <2>5. rest \in Seq(active') /\ Range(rest) \intersect newly = {}
    <3>1. \A i \in 1..Len(rest) : rest[i] \in Range(rest)
      BY DEF Range
    <3>2. \A i \in 1..Len(rest) : rest[i] \in active'
      BY <3>1
    <3> QED
      BY <2>2, <3>2, SMTT(30)
  <2>6. /\ unblocked_task_queue' \in Seq(active')
        /\ Range(unblocked_task_queue') = Range(rest) \union newly
        /\ IsInjective(unblocked_task_queue')
    BY <2>1, <2>4, <2>5, ConcatInjective
  <2>7. Unblocked' = (Unblocked \ {t}) \union newly
    BY <2>6 DEF Unblocked
  <2>8. running' \intersect Range(unblocked_task_queue') = {}
    BY <2>2, <2>6
  <2>9. ASSUME NEW u \in active'
        PROVE  u \in Unblocked' <=> blocked_usage_count'[u] = 0
    <3>1. u \in Task /\ u # t /\ (u \in Unblocked <=> blocked_usage_count[u] = 0)
      BY <1>1, SMTT(30) DEF IInv, RunInv
    <3>2. /\ blocked_usage_count[u] \in Nat
          /\ blocked_usage_count'[u] \in Nat
          /\ blocked_usage_count'[u] <= blocked_usage_count[u]
          /\ blocked_usage_count[u] = blocked_usage_count'[u]
                <=> \A a \in Address : u \notin Pop(a)
      BY <1>12, <3>1, Zenon DEF IInv, TypeOK
    <3>3. u \in newly <=> blocked_usage_count'[u] = 0 /\ \E a \in Address : u \in Pop(a)
      BY <3>1, SMTT(30) DEF newly
    <3> HIDE DEF Pop
    <3> QED
      BY <2>7, <3>1, <3>2, <3>3, SMTT(30)
  <2> QED
    BY <2>6, <2>8, <2>9, SMTT(30) DEF RunInv
<1>16. FifoInv'
  <2> SUFFICES ASSUME Capability = "FifoQueueing", NEW a \in Address,
                      NEW h \in current_tasks'[a], NEW b \in blocked_usages'[a]
               PROVE  Key(h) < Key(b)
    BY SMTT(30) DEF FifoInv, Key
  <2>1. b \in blocked_usages[a] \ Pop(a) /\ h \in current_tasks[a] \union Pop(a)
    BY <1>3, SMTT(30)
  <2>2. CASE h \in Pop(a)
    BY <1>3, <1>9, <2>1, <2>2, SMTT(30)
  <2>3. CASE h \in current_tasks[a]
    BY <2>1, <2>3, SMTT(30) DEF IInv, FifoInv, Key
  <2> QED
    BY <2>1, <2>2, <2>3, SMTT(30)
<1> QED
  BY <1>6, <1>7, <1>10, <1>11, <1>13, <1>14, <1>15, <1>16
=============================================================================
