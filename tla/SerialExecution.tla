-------------------------- MODULE SerialExecution --------------------------
(***************************************************************************)
(* What the scheduler promises to the replay of a block: tasks run in      *)
(* parallel, but a task starts only when every conflicting task that was   *)
(* submitted before it has finished.  Any such execution has the effect of *)
(* running the tasks one by one in the order of submission.                *)
(***************************************************************************)
EXTENDS Integers

CONSTANTS Task, Address

VARIABLES
    contexts,       \* the usage each submitted task makes of each address
    active,         \* tasks submitted and not finished
    running,        \* active tasks that have started
    place           \* per task: its place in the order of submission

svars == <<contexts, active, running, place>>

Conflict(t, u) ==
    \E a \in Address : /\ "Writable" \in {contexts[t][a], contexts[u][a]}
                       /\ "None" \notin {contexts[t][a], contexts[u][a]}

MayStart(t) == \A u \in active : place[u] < place[t] => ~Conflict(t, u)

Init ==
    /\ contexts = [t \in Task |-> [a \in Address |-> "None"]]
    /\ active = {} /\ running = {}
    /\ place = [t \in Task |-> 0]

Submit(t) ==
    /\ place[t] = 0
    /\ contexts' \in [Task -> [Address -> {"None", "Readonly", "Writable"}]]
    /\ \A u \in Task \ {t} : contexts'[u] = contexts[u]
    /\ place' \in [Task -> Nat]
    /\ \A u \in Task \ {t} : place'[u] = place[u] /\ place[u] < place'[t]
    /\ active' = active \union {t}
    /\ running' = running \/ (running' = running \union {t} /\ MayStart(t)')

Start(t) ==
    /\ t \in active \ running /\ MayStart(t)
    /\ running' = running \union {t}
    /\ UNCHANGED <<contexts, active, place>>

\* A task is finished after it has run, or dropped when its turn has come.
Finish(t) ==
    /\ t \in running \/ (t \in active /\ MayStart(t))
    /\ active' = active \ {t} /\ running' = running \ {t}
    /\ \A u \in Task \ {t} : contexts'[u] = contexts[u]
    /\ UNCHANGED place

Reset ==
    /\ active = {}
    /\ place' = [t \in Task |-> 0]
    /\ UNCHANGED <<contexts, active, running>>

Next == (\E t \in Task : Submit(t) \/ Start(t) \/ Finish(t)) \/ Reset

Spec == Init /\ [][Next]_svars
=============================================================================
