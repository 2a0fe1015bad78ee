# TLA+ models of the validator

This directory models two parts of the validator whose correctness depends on
the order of events rather than on single functions: the **unified scheduler**
(`unified-scheduler-logic`), which decides when transactions with conflicting
accounts may run, and **votor** (`votor`, `votor-messages`), the voting side of
the Alpenglow consensus protocol. The modules are written from the code;
`PROJECT.json` names the lines that each definition stands for.

## 1. The system and its parts

| Part | State | Operations | What makes it hard |
|---|---|---|---|
| Scheduling state machine (`unified-scheduler-logic/src/lib.rs`) | usage queues (current usage, blocked usages), blocked-usage count of each task, buffered tasks, counters | `schedule_or_buffer_task`, `schedule_next_unblocked_task`, `deschedule_task`, `reinitialize`, `clear_and_reinitialize` | locks on several addresses taken in any order, reblocking by priority, clearing a session half way |
| Parent-ready tracker (`votor/src/consensus_pool/parent_ready_tracker.rs`) | status of each slot: skip, notarized blocks, ready parents | a block is notarized, a slot is skipped, the root moves | certificates in any order have to be connected incrementally |
| Consensus pool (`votor/src/consensus_pool.rs`, `vote_pool.rs`, `slot_stake_counters.rs`, `certificate_builder.rs`) | votes, stake counters, completed certificates, highest finalized slots | `add_vote`, `add_certificate`, `prune_old_state`, `get_certs_for_standstill` | votes and certificates in any order, own vote early or late, two ways to finality |
| Consensus pool service (`votor/src/consensus_pool_service.rs`) | the pool, pending events, highest parent ready | a message, a round of the loop | the root is moved by another thread; a channel fills up |
| Event handler (`votor/src/event_handler.rs`, `vote_history.rs`, `voting_utils.rs`, `root_utils.rs`) | vote history, pending and finalized blocks, received shreds | one per `VotorEvent` | events of several threads, root moving inside handlers, restart |
| Timers and voting service (`timer_manager/timers.rs`, `voting_service.rs`) | armed timers, queue of votes, stored history | timer steps, store, broadcast | timers race with blocks; a crash between store and broadcast |
| Voting rules of the cluster (thresholds in `common.rs`, `slot_stake_counters.rs`) | the votes cast | the five kinds of votes | fallback votes and finality at the same time, faulty validators |

How they interact: the pool service feeds votes and certificates to the pool,
and hands the events of the pool (block notarized, parent ready, safe to notar,
safe to skip, finalized) to the event handler. The handler votes, sends each
vote to its own pool and, with a copy of the vote history, to the voting
service, arms timers, and moves the root. The pool prunes to that root.

All other parts of the repository (TowerBFT, banking stage, PoH, blockstore,
accounts database, gossip, turbine, repair, runtime, SVM, networking, RPC and
tools) are listed in `PROJECT.json` with the reason why they are not modelled.

## 2. Modules

| Module | Models | How state and actions correspond |
|---|---|---|
| `SchedulingStateMachine` | the scheduler, FIFO and priority disciplines | `current_usage`, `current_tasks` and `blocked_usages` of an address are its `UsageQueueInner`, `blocked_usage_count[t]` is the counter of the task; one action per public operation; `clear_next_task` is one turn of the loop in `clear_and_reinitialize` |
| `SerialExecution` | what the scheduler promises in block verification: transactions as if run one after another in ledger order | refined by `SchedulingStateMachine` |
| `VotorMessages` | slots, leader windows, blocks, votes, certificates, thresholds | shared by all of votor's modules |
| `ParentReadyTracker` | the tracker | `tracker` is the struct, with the events it has pushed; `certified` and `skipped` remember every certificate, for the properties |
| `ConsensusPool` | the pool | its methods as operators over the pool's fields |
| `ConsensusPoolService` | the thread around the pool, composed of the pool, the tracker and the loop | `ReceiveVote`, `ReceiveCertificate` and `StartRound` are the three things the loop does; `produced` is the sequence of leader windows it has started, `failed` the error that ended it |
| `EventHandler` | event loop, vote history, timers, voting service, restart | `node` is what a crash loses, `disk` what it leaves; one action per event; `node.restored` keeps the slots whose ready parent came from disk, for the properties |
| `Alpenglow` | the votes of a cluster and the certificates they can form | `cast` is the set of all votes of correct validators; one action per kind of vote |

`SchedulingStateMachineProofs` and `AlpenglowProofs` hold the theorems.
The former rests on `SchedulerInvariant` (the inductive invariant and lemmas),
`SchedulerLocking` (a task enters its usage queues) and `SchedulerUnlocking` (a
task leaves them).
`MC...` modules give TLC its instances.

Operators named like `ForgetsBadWindow` or `AnyBitmaps` stand before the
definition they resemble: each is a plausible mistake, and replacing the
definition by it makes TLC report the property given in `PROJECT.json`.

Abstractions. Hashes are small numbers, keys are validators, signatures and
bitmaps are reduced to who signed. Stakes are compared exactly: `100 * stake >=
percent * total`, where the code divides 64-bit floats. Time is abstracted to
the order in which the timers of a window fire; firing and handling are one step. Sends on unbounded channels never fail.

What the models assume of each other: `ConsensusPoolService` receives only
certificates that can exist together (`Consistent` in `VotorMessages`), and
`EventHandler` restricts the events of its pool likewise. The part of this that
is about one slot is what `Alpenglow` proves of the certificates a cluster can
form. That finalized blocks of different slots are on one chain, which the
guards of `BlockNotarized` and `Finalized` in `EventHandler` also use, is
assumed and proved nowhere in this project. `EventHandler` further assumes that
SafeToNotar and SafeToSkip follow an own vote, which `SafeToNotarIsExact` and
`SafeToSkipIsExact` establish of the pool. `Alpenglow` in turn assumes that a
correct validator's votes survive restarts and follow the rules, which
`NeverContradictsItself` and `VotesAreJustified` establish of the handler.

## 3. Runs

| Run | Bounds | Shows |
|---|---|---|
| `scheduler_fifo` | 3 tasks, 3 symmetric addresses, at most 2 running | safety, counters, no deadlock, ledger order, refinement of `SerialExecution` |
| `scheduler_priority` | 4 tasks, 2 addresses, any order of priority | the same safety with reblocking; a runnable task stays runnable; tasks in the order of their ids are handled as by FIFO queues (comment at `lib.rs:133`) |
| `scheduler_liveness` | 3 tasks at a time without end, 2 addresses, one running, priorities, fair | a task waits for ever only if tasks of higher priority keep arriving |
| `pool_votes` | 3 validators with 40, 20, 40 percent, one slot, 2 blocks | certificates, fallback events, finality, compatible votes |
| `pool_certificates` | certificates of 4 slots in every order, windows and epochs of 2 slots, own windows at 2 and 4 | incremental ready parents equal their definition, finality records, standstill certificates, leader windows start in order and on ready parents |
| `pool_standstill` | 2 slots, the channel may be full at any time, fair | finality is passed on |
| `voting_crash` | one slot, 2 versions of its block, 1 crash, a handler starts with up to one queued vote | consistent and justified votes across a restart |
| `voting_window` | 2 blocks in a window of 3 slots, `wait_to_vote_slot` at its second | no assertion of the history fails while the root moves inside the window; consistent and justified votes |
| `voting_timeouts` | a window of 2 slots, 1 crash, fair | every slot of a window whose ready parent this process was told of is voted on; a history behind the ledger after a restart fails no assertion |
| `voting_restart` | the same, and ready parents are reported again and again | the second finding below |
| `voting_joiner` | a window of 2 slots | the first finding below |
| `alpenglow` | 4 correct validators with 30, 20, 16, 15 percent and a faulty one with 19, one slot, 2 blocks | consistent certificates, and the invariant of the proof |

Why the bounds are enough. Two conflicting tasks with a third between them are
the smallest case of a reader group, a waiting writer and an overtaking task;
four tasks are needed for reblocking several readers at once. Stakes of 40, 20
and 40 make each threshold (20, 40, 60, 80) reachable exactly and by different
groups. Two versions of a block and one crash suffice to vote twice in a slot.
Three slots are the smallest window with a root strictly inside it and a slot
still open behind. The stakes of `alpenglow` let every kind of certificate form
with and without the faulty validator. In `EventHandler` each version of a block
is replayed once per start (`replayed`), reports of first shreds and ready
parents are limited to `InputSlots`, and the queue of votes to `MaxOutbox` when
a handler starts.

Deadlock is checked in every run but two. `alpenglow` ends when all votes the
rules allow in the slot have been cast. In `pool_certificates` the loop of the
service ends, as in the code, when a slot with a ready parent is in an epoch
whose leaders the root does not determine yet (`LeaderIsKnown`); the comment on
that loop (`consensus_pool_service.rs:184-185`) names only other reasons to exit.
Deadlock freedom of the scheduler's
tasks is a property of its own (`SomeTaskCanRun`).

Fairness. `scheduler_liveness`: tasks keep arriving. To keep this finite the
place and the id of a finished task are given back (`GiveBack`) and taken by a
new one. The scheduler thread takes the next unblocked task before it takes a new
one, since its `select_biased!` (`unified-scheduler-pool/src/lib.rs:2232`) tries
that arm first (strong fairness: the one place for a running task is full now
and then); handler threads finish what they started (weak fairness). Nothing is
assumed of arrivals. `pool_standstill`: the loop of the service runs on, the
standstill timer runs out unless something new is finalized, and the voting
service empties its channel, so that a resend fits infinitely often.
`voting_timeouts`: the voting service runs (weak fairness); timers fire, and a
timeout event is handled in its turn since the event channel is first in, first
out (strong fairness, because the bounded queue of votes may be full now and
then). `voting_restart` adds that a ready parent the pool may report is reported
(strong fairness), so that the missing vote is not due to a silent pool. Crashes
are never forced.

## 4. The findings

`voting_joiner`: the comment at `votor/src/event_handler.rs:487-495` says that a
validator that joins in the middle of a window "will immediately vote Notarize"
for the finalized block at which parent ready is triggered. `try_notar` looks at
ready parents only in the first slot of a window; later it asks for an own
Notarize vote for the parent, which a joiner has not cast. The run reaches a
state with the parent ready, the block handled, and no vote.

`voting_restart`: `add_parent_ready` "Returns true if the insertion was
successful and this was the first parent ready for this slot, indicating we
should set timeouts" (`votor/src/vote_history.rs:211-212`). The ready parents
are part of the stored history and the timers are not. When a process restarts
in the middle of a window and is told of the ready parent again, the entry is
there already, `add_parent_ready` returns false and no timer is set;
`add_missing_parent_ready` is held back by the same entry. If no block arrives
for the rest of the window, its slots get neither a notarize nor a skip vote
from this validator. `EveryWindowIsVoted`, which leaves out the slots in
`node.restored`, holds with the same crash. At start-up the
history is handed to votor through `VotorConfig`, whose caller is not in this
repository; the model takes it to be the stored one, as `VoteHistory::restore`
returns it (which votor itself calls when the identity changes,
`event_handler.rs:557`).

## 5. Theorems

Both proofs hold for every value of the constants.

`SchedulingStateMachineProofs`, from the assumptions that tasks and addresses are
finite sets, that task ids are natural numbers, and that at least one task may
run. The inductive invariant `IInv` (`SchedulerInvariant`) says that an active task stands exactly in
the queues of the addresses it names, as a user or blocked (`HoldInv`); that
behind readers a writer is first in the queue (`ReaderInv`); that users precede
conflicting waiters (`WaitersHoldInOrder`, `FifoInv`); that the counter of a task
is the number of addresses it is blocked on (`CountInv`); and that the queue of
runnable tasks and the totals agree with all this.
From it follow
`TypeCorrect`, `SchedulerSafe` (no two conflicting tasks unblocked),
`WaitersInOrder` (who holds a lock precedes who waits for it),
`SchedulerDeadlockFree` (the first active task in that order waits for nobody)
and `LedgerOrder` (conflicting tasks run in their order of arrival in block
verification). The counters alone are not inductive: without the order of
holders and waiters, unlocking could let a task through that conflicts with one
that overtook it.

`AlpenglowProofs`, from the assumptions that stake is additive and that less
than a fifth of it is faulty. `CertificatesAreConsistent` is not inductive,
since it says nothing of single votes. `IInv` adds that the votes of a correct
validator are compatible, that the condition under which it cast a fallback vote
is still true (stake behind a vote only grows), and that who voted to finalize
had notarized a block with a certificate. One counting lemma does the rest
(`Overlap`): groups with 60% and 60%, or with 80% and 40%, share a correct
validator. Applied to two certificates it gives one validator with two votes
that exclude each other, or a fallback vote; the condition of that vote is a
third group, with 40% or more, and `Overlap` applies again.

Model-checked only: liveness, the refinement of `SerialExecution`,
`UnblockedStaysUnblocked`, `PriorityReplacesFifo`, and all of the tracker, the
pool, its service and the event handler. Liveness under fairness is out of the
prover's reach. The other ones are open; section 7 says which come next.

## 6. What is not modelled

In the modelled parts: statistics, metrics and logging; `SetIdentity`,
`ProduceWindow` and the commitment updates of the event handler; signatures; the
assertion that a slot has at most three notarize-fallback blocks; the order in
which an own vote reaches the own pool and the disk. The reported hazards
without a property say what is missing. `Alpenglow` treats each slot on its own:
it says nothing yet about finalized blocks of different slots being on one chain.

## 7. Plan

1. `Alpenglow` with parents: `try_notar`'s conditions on parents, ready parents
   from certificates, windows; the claim of `parent_ready_tracker.rs:9-10` that
   the condition extends to ancestors, and the TODO at `event_handler.rs:370`;
   finalized blocks on one chain.
2. `EventHandler` and `ConsensusPoolService` of one validator composed, with the
   own vote reaching the pool before the disk.
3. The proof of `ParentsReadyIsExact` for every number of slots, and of
   `NeverContradictsItself` for the event handler.
4. The thread pool and the sessions of the unified scheduler
   (`unified-scheduler-pool`), above `SchedulingStateMachine`.
5. The block creation loop and PoH recorder, the migration phases, then the
   program cache and the tower.
