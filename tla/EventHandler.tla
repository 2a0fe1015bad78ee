---------------------------- MODULE EventHandler ----------------------------
(***************************************************************************)
(* How one validator votes: the event loop of votor (votor/src/            *)
(* event_handler.rs, with vote_history.rs, voting_utils.rs, root_utils.rs),*)
(* the timers (timer_manager/timers.rs) and the voting service, which      *)
(* stores the vote history before it broadcasts a vote (voting_service.rs).*)
(* Events of other threads arrive at any time and in any order.            *)
(*                                                                         *)
(* `node` is what a crash loses, except the ledger: its methods map a node *)
(* to the next one, as the handlers thread their contexts.  The sets of    *)
(* the vote history that the code keeps beside votes_cast are all pruned   *)
(* as it is, so they are read off the votes here.  Signatures, metrics and *)
(* the identity change of SetIdentity are left out.  What one handler sends*)
(* stands in the channel behind what the voting service has not taken yet. *)
(***************************************************************************)
EXTENDS VotorMessages, SequencesExt

CONSTANTS
    ParentOf,           \* the tree of blocks that leaders propose: child |-> parent
    WaitToVoteSlot,     \* wait_to_vote_slot: no message is made for earlier slots
    InputSlots,         \* bound: slots whose first shred and ready parents are reported
    MaxOutbox,          \* bound: votes in the channel to the voting service
    MaxCrashes          \* bound

ASSUME TreeAssumption ==
    /\ DOMAIN ParentOf \subseteq Block
    /\ \A b \in DOMAIN ParentOf :
          ParentOf[b] \in DOMAIN ParentOf \union {RootBlock} /\ SlotOf(ParentOf[b]) < SlotOf(b)
ASSUME WindowAssumption == leader_slot_index(MaxSlot + 1) = 0

VARIABLES
    node,
    events,     \* Block events that replay sent and that are not handled yet
    disk,       \* the stored vote history
    sent,       \* votes broadcast to the cluster
    durable,    \* history: every vote that was ever stored
    learned,    \* history: what the consensus pool reported
    crashes

vars == <<node, events, disk, sent, durable, learned, crashes>>

Proposed == DOMAIN ParentOf
-----------------------------------------------------------------------------
(* vote_history.rs *)

NewHistory == [votes |-> {}, notarized_blocks |-> {}, parent_ready_slots |-> {}, root |-> 0]

Cast(h, slot, types) == {v \in h.votes : v.slot = slot /\ v.type \in types}

voted(h, slot) == Cast(h, slot, {"Notarize", "Skip"}) # {}
its_over(h, slot) == Cast(h, slot, {"Finalize"}) # {}
bad_window(h, slot) == Cast(h, slot, {"Skip", "SkipFallback", "NotarizeFallback"}) # {}

\* The assertions of VoteHistory::add_vote().
MayAddVote(h, vote) ==
    /\ vote.slot >= h.root
    /\ vote.type = "Notarize" => ~voted(h, vote.slot)
    /\ vote.type = "Finalize" => ~bad_window(h, vote.slot)
    /\ vote.type \in {"NotarizeFallback", "SkipFallback"} =>
          voted(h, vote.slot) /\ ~its_over(h, vote.slot)

PrunesRootItself(h, root) ==
    [votes |-> {v \in h.votes : v.slot > root},
     notarized_blocks |-> {b \in h.notarized_blocks : SlotOf(b) > root},
     parent_ready_slots |-> {p \in h.parent_ready_slots : p[1] > root},
     root |-> root + 1]

history_set_root(h, root) ==
    [votes |-> {v \in h.votes : v.slot >= root},
     notarized_blocks |-> {b \in h.notarized_blocks : SlotOf(b) >= root},
     parent_ready_slots |-> {p \in h.parent_ready_slots : p[1] >= root},
     root |-> root]
-----------------------------------------------------------------------------
(* The node: the history, the local context of the event loop, the bank     *)
(* forks (one frozen bank a slot), the armed timers, the channel to the     *)
(* voting service, what the block creation loop is told (highest_parent_    *)
(* ready of the leader window notifier), and whether every assertion held   *)
(* so far.  `restored` keeps the slots whose ready parent came from disk.   *)

NewNode(h, root_block) ==
    [h |-> h, pending_blocks |-> [s \in Slot |-> <<>>], finalized_blocks |-> {},
     received_shred |-> {}, banks |-> {root_block}, root |-> SlotOf(root_block),
     start_block |-> root_block, replayed |-> {},
     timers |-> [s \in Slot |-> <<>>], outbox |-> <<>>,
     highest_parent_ready |-> <<0, RootBlock>>,
     restored |-> {p[1] : p \in h.parent_ready_slots}, ok |-> TRUE]

\* Every query of the history asserts that the slot is not below its root.
Queried(n, slot) == [n EXCEPT !.ok = @ /\ slot >= n.h.root]

\* The vote enters the history first.  When no message can be made it stays there.
generate_vote_message(n, vote) ==
    LET h == [n.h EXCEPT !.votes = @ \union {vote}]
    IN [n EXCEPT !.h = h, !.ok = @ /\ MayAddVote(n.h, vote),
                 !.outbox = IF vote.slot < WaitToVoteSlot THEN @
                            ELSE Append(@, [vote |-> vote, saved |-> h])]

ForgetsBadWindow(n, block) ==
    LET slot == SlotOf(block)
    IN IF /\ block \in n.h.notarized_blocks
          /\ ~its_over(n.h, slot)
          /\ ForBlock("Notarize", block) \in n.h.votes
       THEN generate_vote_message(n, ForSlot("Finalize", slot))
       ELSE n

FinalizesUnvotedBlock(n, block) ==
    LET slot == SlotOf(block)
    IN IF /\ block \in n.h.notarized_blocks
          /\ ~its_over(n.h, slot) /\ ~bad_window(n.h, slot)
       THEN generate_vote_message(n, ForSlot("Finalize", slot))
       ELSE n

try_final(n, block) ==
    LET slot == SlotOf(block)
    IN IF /\ block \in n.h.notarized_blocks
          /\ ~its_over(n.h, slot) /\ ~bad_window(n.h, slot)
          /\ ForBlock("Notarize", block) \in n.h.votes
       THEN generate_vote_message(n, ForSlot("Finalize", slot))
       ELSE n

AnyParentOfWindow(h, block, parent) ==
    /\ ~voted(h, SlotOf(block))
    /\ IF leader_slot_index(SlotOf(block)) = 0 \/ SlotOf(block) = 1
       THEN <<SlotOf(block), parent>> \in h.parent_ready_slots
       ELSE SlotOf(parent) + 1 = SlotOf(block)

\* The conditions under which try_notar() votes.
MayNotarize(h, block, parent) ==
    /\ ~voted(h, SlotOf(block))
    /\ IF leader_slot_index(SlotOf(block)) = 0 \/ SlotOf(block) = 1
       THEN <<SlotOf(block), parent>> \in h.parent_ready_slots
       ELSE SlotOf(parent) + 1 = SlotOf(block) /\ ForBlock("Notarize", parent) \in h.votes

try_notar(n, block) ==
    LET slot == SlotOf(block)
        parent == ParentOf[block]
        q == Queried(n, IF voted(n.h, slot) \/ leader_slot_index(slot) = 0
                             \/ SlotOf(parent) + 1 # slot
                        THEN slot ELSE SlotOf(parent))
    IN IF ~MayNotarize(n.h, block, parent) THEN q
       ELSE try_final([generate_vote_message(q, ForBlock("Notarize", block))
                          EXCEPT !.pending_blocks[slot] = <<>>], block)

\* In the order of slots, and of arrival within a slot.
check_pending_blocks(n) == FoldLeft(try_notar, n, FlattenSeq(n.pending_blocks))

SkipsWholeWindow(n, slot) ==
    LET start == first_of_consecutive_leader_slots(slot)
        Skip(m, s) == IF s = 0 THEN m ELSE
                      IF voted(m.h, s) THEN Queried(m, s)
                      ELSE generate_vote_message(m, ForSlot("Skip", s))
    IN FoldLeft(Skip, n, [i \in 1..last_of_consecutive_leader_slots(slot) - start + 1 |->
                             start + i - 1])

SkipsVotedSlots(n, slot) ==
    LET start == Max({first_of_consecutive_leader_slots(slot), n.root, 1})
        Skip(m, s) == generate_vote_message(m, ForSlot("Skip", s))
    IN FoldLeft(Skip, n, [i \in 1..last_of_consecutive_leader_slots(slot) - start + 1 |->
                             start + i - 1])

\* Skip votes for the slots of the window, from the root on, that have no vote.
try_skip_window(n, slot) ==
    LET start == Max({first_of_consecutive_leader_slots(slot), n.root, 1})
        Skip(m, s) == IF voted(m.h, s) THEN Queried(m, s)
                      ELSE generate_vote_message(m, ForSlot("Skip", s))
    IN FoldLeft(Skip, n, [i \in 1..last_of_consecutive_leader_slots(slot) - start + 1 |->
                             start + i - 1])

StopsOneSlotEarly(slot) ==
    <<<<"TimeoutCrashedLeader", slot>>>>
        \o [i \in 1..last_of_consecutive_leader_slots(slot) - slot |->
               <<"Timeout", slot + i - 1>>]

\* The timers of a window fire in this order, the first one twice.
WindowTimeouts(slot) ==
    <<<<"TimeoutCrashedLeader", slot>>>>
        \o [i \in 1..last_of_consecutive_leader_slots(slot) - slot + 1 |->
               <<"Timeout", slot + i - 1>>]

set_timeouts(n, slot) ==
    IF n.timers[slot] # <<>> THEN n
    ELSE [n EXCEPT !.timers[slot] = WindowTimeouts(slot)]

HasReadyParent(h, slot) == \E p \in h.parent_ready_slots : p[1] = slot

\* Timeouts are set with the first ready parent of a slot in the history.
handle_parent_ready_event(n, slot, parent) ==
    LET m == check_pending_blocks(
                IF slot < n.h.root THEN n
                ELSE [n EXCEPT !.h.parent_ready_slots = @ \union {<<slot, parent>>}])
        timed == IF slot < n.h.root \/ HasReadyParent(n.h, slot) THEN m
                 ELSE set_timeouts(m, slot)
    IN IF slot <= n.highest_parent_ready[1] THEN timed
       ELSE [timed EXCEPT !.highest_parent_ready = <<slot, parent>>]

\* A block stays in the bank forks if it is the root or descends from it.
Descendants(root) ==
    LET upTo[s \in 0..MaxSlot] ==
            IF s <= SlotOf(root) THEN {root}
            ELSE upTo[s - 1] \union
                    {b \in Proposed : SlotOf(b) = s /\ ParentOf[b] \in upTo[s - 1]}
    IN upTo[MaxSlot]

\* set_root() of root_utils.rs.
set_root(n, root) ==
    LET slot == SlotOf(root)
    IN [n EXCEPT !.h = history_set_root(@, slot),
                 !.pending_blocks = [s \in Slot |-> IF s < slot THEN <<>> ELSE @[s]],
                 !.finalized_blocks = {b \in @ : SlotOf(b) >= slot},
                 !.received_shred = {s \in @ : s >= slot},
                 !.banks = @ \intersect Descendants(root),
                 !.root = slot]

check_rootable_blocks(n) ==
    LET rootable == {b \in n.finalized_blocks \intersect n.banks :
                        SlotOf(b) > n.root /\ voted(n.h, SlotOf(b))}
    IN IF rootable = {} THEN n
       ELSE set_root(n, CHOOSE b \in rootable : \A c \in rootable : SlotOf(c) <= SlotOf(b))

\* A bank that was made the root has lost its parent.
add_missing_parent_ready(n, block) ==
    LET slot == SlotOf(block)
        first_slot == first_of_consecutive_leader_slots(slot)
    IN IF \/ first_slot = slot \/ first_slot = 0
          \/ \E p \in n.h.parent_ready_slots : p[1] >= first_slot
          \/ block \notin n.finalized_blocks \intersect n.banks
          \/ slot = n.root
       THEN n
       ELSE handle_parent_ready_event(n, slot, ParentOf[block])
-----------------------------------------------------------------------------
(* The events.  An event at or below the root is ignored.                   *)

Init ==
    /\ node = NewNode(NewHistory, RootBlock)
    /\ events = {}
    /\ disk = NewHistory /\ sent = {} /\ durable = {}
    /\ learned = [notarized |-> {}, parent_ready |-> {}, finalized |-> {},
                  safe_to_notar |-> {}, safe_to_skip |-> {}]
    /\ crashes = 0

Handles(slot) == node.ok /\ slot > node.root /\ Len(node.outbox) < MaxOutbox

\* Replay freezes a bank, in place of another version of the block if there is
\* one, and sends the Block event.  Bound: each version is replayed once.
Replay(block) ==
    /\ SlotOf(block) > node.root /\ ParentOf[block] \in node.banks /\ block \notin node.replayed
    /\ node' = [node EXCEPT
          !.replayed = @ \union {block},
          !.banks = {block} \union
             (@ \ UNION {Descendants(b) : b \in {c \in @ : SlotOf(c) = SlotOf(block)}})]
    /\ events' = events \union {<<"Block", block>>}
    /\ UNCHANGED <<disk, sent, durable, learned, crashes>>

HandleBlock(block) ==
    /\ <<"Block", block>> \in events
    /\ node.ok /\ Len(node.outbox) < MaxOutbox
    /\ events' = events \ {<<"Block", block>>}
    /\ LET slot == SlotOf(block)
           tried == try_notar(node, block)
           checked == CASE MayNotarize(node.h, block, ParentOf[block]) ->
                              check_pending_blocks(tried)
                        [] voted(node.h, slot) -> tried
                        [] OTHER -> [tried EXCEPT !.pending_blocks[slot] = Append(@, block)]
       IN node' = IF slot <= node.root THEN node
                  ELSE add_missing_parent_ready(check_rootable_blocks(checked), block)
    /\ UNCHANGED <<disk, sent, durable, learned, crashes>>

\* Certificates exist for one notarized block of a slot (CertificatesAreConsistent
\* of Alpenglow).
BlockNotarized(block) ==
    /\ Handles(SlotOf(block))
    /\ \A b \in learned.notarized \union learned.finalized : SlotOf(b) = SlotOf(block) => b = block
    /\ learned' = [learned EXCEPT !.notarized = @ \union {block}]
    /\ node' = try_final([node EXCEPT !.h.notarized_blocks = @ \union {block}], block)
    /\ UNCHANGED <<events, disk, sent, durable, crashes>>

FirstShred(slot) ==
    /\ Handles(slot)
    /\ node' = [node EXCEPT !.received_shred = @ \union {slot}]
    /\ UNCHANGED <<events, disk, sent, durable, learned, crashes>>

\* A finalized block has no skip certificate, and no other certified block beside it.
Contradicts(block, slot, parent) ==
    \/ SlotOf(parent) < SlotOf(block) /\ SlotOf(block) < slot
    \/ SlotOf(parent) = SlotOf(block) /\ parent # block

\* Ready parents are reported for the first slot of a window and, when the pool
\* starts, for the slot after its root.
ParentReady(slot, parent) ==
    /\ Handles(slot)
    /\ SlotOf(parent) < slot
    /\ \/ leader_slot_index(slot) = 0 /\ parent \in Proposed \union {RootBlock}
       \/ slot = SlotOf(node.start_block) + 1 /\ parent = node.start_block
    /\ \A b \in learned.finalized : ~Contradicts(b, slot, parent)
    /\ learned' = [learned EXCEPT !.parent_ready = @ \union {<<slot, parent>>}]
    /\ node' = handle_parent_ready_event(node, slot, parent)
    /\ UNCHANGED <<events, disk, sent, durable, crashes>>

\* The timer of a window fires and, however much later, its event is handled.
\* Nothing looks at the event in between, and the channel keeps the order.
Fires(timer, type) ==
    /\ node.ok /\ Len(node.outbox) < MaxOutbox
    /\ node.timers[timer] # <<>> /\ Head(node.timers[timer])[1] = type

TimeoutCrashedLeader(timer) ==
    /\ Fires(timer, "TimeoutCrashedLeader")
    /\ LET slot == Head(node.timers[timer])[2]
           fired == [node EXCEPT !.timers[timer] = Tail(@)]
       IN node' = IF slot <= node.root \/ voted(node.h, slot) \/ slot \in node.received_shred
                  THEN fired ELSE try_skip_window(fired, slot)
    /\ UNCHANGED <<events, disk, sent, durable, learned, crashes>>

Timeout(timer) ==
    /\ Fires(timer, "Timeout")
    /\ LET slot == Head(node.timers[timer])[2]
           fired == [node EXCEPT !.timers[timer] = Tail(@)]
       IN node' = IF slot <= node.root \/ voted(node.h, slot)
                  THEN fired ELSE try_skip_window(fired, slot)
    /\ UNCHANGED <<events, disk, sent, durable, learned, crashes>>

\* The pool reports SafeToNotar and SafeToSkip only once it has counted a vote
\* of ours in the slot, for another block or for a block (SlotStakeCounters).
SafeToNotar(block) ==
    LET slot == SlotOf(block)
        vote == ForBlock("NotarizeFallback", block)
        skipping == try_skip_window(node, slot)
    IN /\ Handles(slot)
       /\ voted(node.h, slot) /\ ForBlock("Notarize", block) \notin node.h.votes
       /\ learned' = [learned EXCEPT !.safe_to_notar = @ \union {block}]
       /\ node' = IF its_over(skipping.h, slot) \/ vote \in skipping.h.votes THEN skipping
                  ELSE generate_vote_message(skipping, vote)
       /\ UNCHANGED <<events, disk, sent, durable, crashes>>

SafeToSkip(slot) ==
    LET vote == ForSlot("SkipFallback", slot)
        skipping == try_skip_window(node, slot)
    IN /\ Handles(slot)
       /\ Cast(node.h, slot, {"Notarize"}) # {}
       /\ learned' = [learned EXCEPT !.safe_to_skip = @ \union {slot}]
       /\ node' = IF its_over(skipping.h, slot) \/ vote \in skipping.h.votes THEN skipping
                  ELSE generate_vote_message(skipping, vote)
       /\ UNCHANGED <<events, disk, sent, durable, crashes>>

\* The pool reports finalized blocks that have no other certified block and no
\* skip certificate beside them (CertificatesAreConsistent of Alpenglow) and that
\* are on one chain (assumed: Alpenglow looks at single slots).
Finalized(block) ==
    /\ Handles(SlotOf(block))
    /\ \A b \in learned.finalized :
          b \in Descendants(block) \/ block \in Descendants(b)
    /\ \A b \in learned.notarized : SlotOf(b) = SlotOf(block) => b = block
    /\ \A p \in learned.parent_ready : ~Contradicts(block, p[1], p[2])
    /\ learned' = [learned EXCEPT !.finalized = @ \union {block}]
    /\ node' = add_missing_parent_ready(
                  check_rootable_blocks([node EXCEPT !.finalized_blocks = @ \union {block}]), block)
    /\ UNCHANGED <<events, disk, sent, durable, crashes>>

\* refresh_votes(): messages are made again for the votes since the highest
\* finalized slot, each with the present history.  The slots come in the order
\* of a hash map; here the votes of one slot may change places too.
Standstill(highest_finalized_slot) ==
    /\ node.ok /\ Len(node.outbox) < MaxOutbox
    /\ \E refreshed \in SetToSeqs({v \in node.h.votes :
                            v.slot > highest_finalized_slot /\ v.slot >= WaitToVoteSlot}) :
          node' = [node EXCEPT !.outbox =
                      @ \o [i \in DOMAIN refreshed |-> [vote |-> refreshed[i], saved |-> node.h]]]
    /\ UNCHANGED <<events, disk, sent, durable, learned, crashes>>

\* handle_bls_op(): the history is stored, then the vote is broadcast.
StoreHistory ==
    /\ node.outbox # <<>> /\ Head(node.outbox).saved # disk
    /\ disk' = Head(node.outbox).saved
    /\ durable' = durable \union disk'.votes
    /\ UNCHANGED <<node, events, sent, learned, crashes>>

BroadcastsWithoutStoring ==
    /\ node.outbox # <<>>
    /\ sent' = sent \union {Head(node.outbox).vote}
    /\ node' = [node EXCEPT !.outbox = Tail(@)]
    /\ UNCHANGED <<events, disk, durable, learned, crashes>>

Broadcast ==
    /\ node.outbox # <<>> /\ Head(node.outbox).saved = disk
    /\ sent' = sent \union {Head(node.outbox).vote}
    /\ node' = [node EXCEPT !.outbox = Tail(@)]
    /\ UNCHANGED <<events, disk, durable, learned, crashes>>

\* The process stops and starts again from the stored history; the bank forks
\* hold the root, which is in the blockstore, and are replayed again.
Restart ==
    /\ crashes < MaxCrashes
    /\ crashes' = crashes + 1
    /\ node' = NewNode(disk, CHOOSE b \in node.banks : SlotOf(b) = node.root)
    /\ events' = {}
    /\ UNCHANGED <<disk, sent, durable, learned>>

Next ==
    \/ \E b \in Proposed : Replay(b) \/ HandleBlock(b) \/ BlockNotarized(b)
                             \/ SafeToNotar(b) \/ Finalized(b)
    \/ \E s \in InputSlots :
          FirstShred(s) \/ \E p \in Proposed \union {RootBlock} : ParentReady(s, p)
    \/ \E s \in Slot : SafeToSkip(s) \/ TimeoutCrashedLeader(s) \/ Timeout(s)
    \/ \E s \in 0..MaxSlot : Standstill(s)
    \/ StoreHistory \/ Broadcast \/ Restart

Spec == Init /\ [][Next]_vars

\* The timer, event loop and voting service threads keep running.  The event
\* channel is first in, first out: a timeout is handled in its turn, however
\* many other events fill the (here bounded) channel to the voting service.
FairSpec ==
    /\ Spec
    /\ \A s \in Slot : SF_vars(TimeoutCrashedLeader(s)) /\ SF_vars(Timeout(s))
    /\ WF_vars(StoreHistory) /\ WF_vars(Broadcast)

\* Moreover the pool reports, again after every restart, the parents that are
\* ready in its view.
ReportingSpec ==
    /\ FairSpec
    /\ \A s \in InputSlots, p \in Proposed \union {RootBlock} : SF_vars(ParentReady(s, p))
-----------------------------------------------------------------------------
\* The context of the event loop, the history and the channels hold what the
\* structs of the code may hold; the stored root never runs ahead of the ledger.
TypeOK ==
    /\ node.h.votes \union sent \union durable \subseteq Vote
    /\ node.h.parent_ready_slots \subseteq Slot \X (Proposed \union {RootBlock})
    /\ node.banks \subseteq Proposed \union {RootBlock}
    /\ \A b, c \in node.banks : SlotOf(b) = SlotOf(c) => b = c
    /\ \A s \in Slot : Range(node.pending_blocks[s]) \subseteq {b \in Proposed : SlotOf(b) = s}
    /\ disk.root <= node.root /\ node.h.root <= node.root
    /\ \A p \in node.h.parent_ready_slots :
          p[1] \in node.restored \/ p[1] <= node.highest_parent_ready[1]
    /\ crashes \in 0..MaxCrashes

\* No assertion of vote_history.rs fails: the history is never asked about a
\* slot below its root, and a vote is never added against its rules, although
\* the root moves in the middle of handlers and a restart may put the history
\* behind the ledger.
AssertionsHold == node.ok

\* Whatever the order of events, and across crashes, the votes a validator
\* shows to the cluster never exclude each other.
NeverContradictsItself ==
    \A v, w \in durable \union sent : Compatible(v, w)

\* Every vote that left the validator, or may after a restart, has its reason:
\* a parent that was ready or notarized by ourselves (try_notar), a notarized
\* block that we notarized too (try_final), the fallback event of the pool.
VotesAreJustified ==
    \A v \in durable \union sent :
        LET block == <<v.slot, v.id>>
            votedHere == \E w \in durable : w.slot = v.slot /\ w.type \in {"Notarize", "Skip"}
        IN CASE v.type = "Notarize" ->
                  \/ <<v.slot, ParentOf[block]>> \in learned.parent_ready
                  \/ /\ leader_slot_index(v.slot) # 0
                     /\ ForBlock("Notarize", ParentOf[block]) \in durable
             [] v.type = "Finalize" ->
                  \E b \in learned.notarized :
                      SlotOf(b) = v.slot /\ ForBlock("Notarize", b) \in durable
             [] v.type = "NotarizeFallback" -> block \in learned.safe_to_notar /\ votedHere
             [] v.type = "SkipFallback" -> v.slot \in learned.safe_to_skip /\ votedHere
             [] OTHER -> TRUE

\* Slot t is ahead of the root, without a notarize or skip vote, although slot s
\* of its window, at t or before it, has a ready parent.
Open(s, t) ==
    /\ t \in s..last_of_consecutive_leader_slots(s) /\ t > node.root
    /\ HasReadyParent(node.h, s) /\ ~voted(node.h, t)

\* No slot stays open for ever once this process has been told of a ready parent
\* for its window (handle_parent_ready_event): the timers cover the whole window,
\* also when slots of it are voted on before they fire, and also after a crash
\* that lost the timers together with the record of the ready parent.
EveryWindowIsVoted ==
    \A s, t \in Slot : []<>~(Open(s, t) /\ s \notin node.restored)

\* "the first parent ready for this slot, indicating we should set timeouts"
\* (vote_history.rs:211): no slot stays open for ever, whether the ready parent
\* of its window was recorded before or after the last restart.
RestartedWindowIsVoted == \A s, t \in Slot : []<>~Open(s, t)

\* The comment at event_handler.rs:492-495: a validator that joins late, and for
\* which parent ready is triggered at a finalized block in the middle of a
\* window, votes to notarize that block as soon as it has the block.
JoinerNotarizes ==
    \A b \in node.finalized_blocks \intersect node.banks :
        /\ leader_slot_index(SlotOf(b)) # 0
        /\ \A c \in Proposed : <<"Block", c>> \notin events
        /\ <<SlotOf(b), ParentOf[b]>> \in node.h.parent_ready_slots
        => ForBlock("Notarize", b) \in node.h.votes
=============================================================================
