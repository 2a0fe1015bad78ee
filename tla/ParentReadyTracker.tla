------------------------- MODULE ParentReadyTracker -------------------------
(***************************************************************************)
(* The parent-ready condition of votor, maintained one certificate at a    *)
(* time (votor/src/consensus_pool/parent_ready_tracker.rs).  A block b is  *)
(* a ready parent for a later slot s when b has a notarize-fallback        *)
(* certificate (or a stronger one) and every slot between the two has a    *)
(* skip certificate.                                                       *)
(*                                                                         *)
(* The tracker is a record, as it is a struct in the code, and its methods *)
(* map a tracker to the next one.  The map from slots to statuses is three *)
(* sets: an absent entry and a default one read the same.                  *)
(***************************************************************************)
EXTENDS VotorMessages, FiniteSetsExt

VARIABLES
    tracker,
    certified, skipped  \* history: the blocks and slots whose certificates it accepted

trackerVars == <<tracker, certified, skipped>>

\* ParentReadyTracker::new() for the root block.  `events` are the ParentReady
\* events pushed so far, pairs <<slot, parent>>.
NewTracker ==
    [root |-> 0, skip |-> {}, notar_fallbacks |-> {RootBlock},
     parents_ready |-> {<<1, RootBlock>>}, highest_with_parent_ready |-> 1,
     events |-> {}]

StopsBeforeUnskipped(skip, slot) ==
    {s \in slot + 1 .. MaxSlot + 1 : (slot + 1 .. s) \subseteq skip}

\* The slots that the loops from slot + 1 visit: up to the first one that is
\* not skip-certified, and that one too.
Connected(skip, slot) ==
    {s \in slot + 1 .. MaxSlot + 1 : (slot + 1 .. s - 1) \subseteq skip}

ParentsOf(t, slot) == {p[2] : p \in {q \in t.parents_ready : q[1] = slot}}

\* Pushing pairs <<slot, parent>>, with an event for the first slot of a window.
AddParentsReady(t, pairs) ==
    [t EXCEPT !.parents_ready = @ \union pairs,
              !.highest_with_parent_ready = Max({@} \union {p[1] : p \in pairs}),
              !.events = @ \union {p \in pairs \ t.parents_ready : p[1] % Window = 0}]

Accepts(t, slot) == slot > t.root

add_new_notar_fallback_or_stronger(t, block) ==
    IF ~Accepts(t, SlotOf(block)) \/ block \in t.notar_fallbacks THEN t
    ELSE AddParentsReady([t EXCEPT !.notar_fallbacks = @ \union {block}],
                         Connected(t.skip, SlotOf(block)) \X {block})

ParentsOfPreviousBlock(t, slot) == {b \in t.notar_fallbacks : SlotOf(b) = slot - 1}

\* The parents a newly skipped slot passes on: what is certified in the slot
\* before it and, if that slot is skipped too, the parents of that slot.
PotentialParents(t, slot) ==
    {b \in t.notar_fallbacks : SlotOf(b) = slot - 1}
        \union (IF slot - 1 \in t.skip THEN ParentsOf(t, slot - 1) ELSE {})

add_new_skip(t, slot) ==
    IF ~Accepts(t, slot) THEN t
    ELSE LET new == [t EXCEPT !.skip = @ \union {slot}]
         IN AddParentsReady(new, Connected(new.skip, slot) \X PotentialParents(new, slot))

set_root(t, root) ==
    [t EXCEPT !.root = root,
              !.skip = {s \in @ : s >= root},
              !.notar_fallbacks = {b \in @ : SlotOf(b) >= root},
              !.parents_ready = {p \in @ : p[1] >= root}]

MissedWindow == "MissedWindow"
ParentNotReady == "ParentNotReady"

ForgetsMissedWindow(t, slot) ==
    LET ready == ParentsOf(t, slot)
    IN IF ready = {} THEN ParentNotReady
       ELSE CHOOSE b \in ready : \A c \in ready :
               SlotOf(b) < SlotOf(c) \/ (SlotOf(b) = SlotOf(c) /\ b[2] <= c[2])

\* The parent for our leader slot: the least ready one, ordered as (slot, id).
block_production_parent(t, slot) ==
    LET ready == ParentsOf(t, slot)
    IN IF t.highest_with_parent_ready > slot THEN MissedWindow
       ELSE IF ready = {} THEN ParentNotReady
       ELSE CHOOSE b \in ready : \A c \in ready :
               SlotOf(b) < SlotOf(c) \/ (SlotOf(b) = SlotOf(c) /\ b[2] <= c[2])
-----------------------------------------------------------------------------
TrackerInit == tracker = NewTracker /\ certified = {RootBlock} /\ skipped = {}
-----------------------------------------------------------------------------
\* Every slot and block the tracker holds is one of a certificate it was given,
\* or the root block (the fields of ParentReadyTracker, l. 27-55).
TrackerTypeOK ==
    /\ tracker \in [root : 0..MaxSlot, skip : SUBSET Slot, notar_fallbacks : SUBSET AnyBlock,
                    parents_ready : SUBSET ((1..MaxSlot + 1) \X AnyBlock),
                    highest_with_parent_ready : 1..MaxSlot + 1,
                    events : SUBSET ((1..MaxSlot + 1) \X AnyBlock)]
    /\ certified \subseteq AnyBlock /\ skipped \subseteq Slot

\* The definition at the head of parent_ready_tracker.rs (l. 3-7), over every
\* certificate that was ever accepted.
ReadyParents(s) ==
    {b \in certified : SlotOf(b) < s /\ (SlotOf(b) + 1 .. s - 1) \subseteq skipped}

\* Whatever the order in which certificates arrive, and although everything
\* below the root is thrown away, the tracked parents are those the definition
\* gives, and an event was pushed for each one at the first slot of a window.
ParentsReadyIsExact ==
    \A s \in 1 .. MaxSlot + 1 : s >= tracker.root =>
        /\ ParentsOf(tracker, s) = ReadyParents(s)
        /\ s % Window = 0 /\ s > 1 =>
              {p \in tracker.events : p[1] = s} = {s} \X ReadyParents(s)

\* A slot is only ever missed because a later one has a ready parent, and the
\* highest slot that has one is never missed.
HighestIsExact ==
    tracker.highest_with_parent_ready =
        Max({s \in 1 .. MaxSlot + 1 : ReadyParents(s) # {}})
=============================================================================
