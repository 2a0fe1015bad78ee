---------------------------- MODULE ConsensusPool ----------------------------
(***************************************************************************)
(* The votes and certificates one validator has received (votor/src/       *)
(* consensus_pool.rs with vote_pool.rs, slot_stake_counters.rs and         *)
(* certificate_builder.rs).  A vote is checked against the earlier votes   *)
(* of its voter, counted, and may complete certificates; a certificate,    *)
(* completed here or received, updates the parent-ready tracker and the    *)
(* record of what is finalized.                                            *)
(*                                                                         *)
(* Signatures are left out: messages were verified before they reach the   *)
(* pool.  Stake ratios are compared exactly.                               *)
(***************************************************************************)
EXTENDS ParentReadyTracker

CONSTANTS
    Validator,
    Me,                 \* the vote account of this validator
    StakeOf             \* a function from Validator to stakes

ASSUME StakeAssumption ==
    /\ IsFiniteSet(Validator) /\ Me \in Validator
    /\ StakeOf \in [Validator -> Nat \ {0}]

VARIABLES
    votes,                  \* accepted votes: [voter, vote]
    counters,               \* per slot: the SlotStakeCounters
    completed_certificates,
    built,                  \* history: the certificates completed from votes here
    highest_finalized_slot,             \* 0 stands for None
    highest_finalized_with_notarize,    \* <<slot, has FinalizeFast>>
    finalized_events,       \* history: blocks of the Finalized events pushed
    notarized_events        \* history: blocks of the BlockNotarized events pushed

finality == <<highest_finalized_slot, highest_finalized_with_notarize,
              finalized_events, notarized_events>>
poolVars == <<trackerVars, votes, counters, completed_certificates, built, finality>>

NoVote == Item("None", 0, NoId)

TotalStake == MapThenSumSet(LAMBDA v : StakeOf[v], Validator)
StakeIn(voters) == MapThenSumSet(LAMBDA v : StakeOf[v], voters)

\* stake / total >= percent / 100
AtLeast(stake, percent) == 100 * stake >= percent * TotalStake
-----------------------------------------------------------------------------
(* vote_pool.rs *)

MAX_NOTAR_FALLBACK_PER_VALIDATOR == 3

\* The votes of `voter` in the slot of `vote` that have one of the types.
Earlier(voter, vote, types) ==
    {m \in votes : m.voter = voter /\ m.vote.slot = vote.slot /\ m.vote.type \in types}

OnlyFinalizeExcludes(type) ==
    CASE type = "Skip" -> {"Notarize"}
      [] type = "Finalize" -> {"Skip", "SkipFallback", "NotarizeFallback"}
      [] type = "Notarize" -> {"Skip"}
      [] OTHER -> {}

\* The types of earlier votes that make a vote of this type invalid.
Excludes(type) ==
    CASE type = "Notarize" -> {"Skip"}
      [] type = "Skip" -> {"Notarize", "Finalize"}
      [] type \in {"NotarizeFallback", "SkipFallback"} -> {"Finalize"}
      [] type = "Finalize" -> {"Skip", "SkipFallback", "NotarizeFallback"}
      [] OTHER -> {}

IsDuplicate(voter, vote) == [voter |-> voter, vote |-> vote] \in votes

IsInvalid(voter, vote) ==
    \/ Earlier(voter, vote, Excludes(vote.type)) # {}
    \/ /\ ~IsDuplicate(voter, vote)
       /\ Cardinality(Earlier(voter, vote, {vote.type})) >=
            IF vote.type = "NotarizeFallback" THEN MAX_NOTAR_FALLBACK_PER_VALIDATOR ELSE 1

\* Who cast `vote`, among the messages `all`.
Voters(all, vote) == {v \in Validator : [voter |-> v, vote |-> vote] \in all}
get_stake(all, vote) == StakeIn(Voters(all, vote))
-----------------------------------------------------------------------------
(* slot_stake_counters.rs *)

NewCounters == [my_first_vote |-> NoVote, skip_total |-> 0, notarize_total |-> 0,
                notarize_entry_total |-> [id \in BlockId |-> 0],
                top_notarized_stake |-> 0, safe_to_notar_sent |-> {},
                safe_to_skip_sent |-> FALSE]

is_safe_to_notar(c, id) ==
    /\ ~(c.my_first_vote.type = "Notarize" /\ c.my_first_vote.id = id)
    /\ \/ AtLeast(c.notarize_entry_total[id], 40)
       \/ /\ AtLeast(c.notarize_entry_total[id], 20)
          /\ AtLeast(c.notarize_entry_total[id] + c.skip_total, 60)

is_safe_to_skip(c) ==
    /\ c.my_first_vote.type = "Notarize"
    /\ AtLeast(c.skip_total + (c.notarize_total - c.top_notarized_stake), 40)

AddsEntryTwice(c, vote, entry_stake) ==
    IF vote.type = "Skip"
    THEN [c EXCEPT !.skip_total = entry_stake]
    ELSE [c EXCEPT !.notarize_entry_total[vote.id] = entry_stake,
                   !.notarize_total = @ + entry_stake,
                   !.top_notarized_stake = IF entry_stake > @ THEN entry_stake ELSE @]

CountStake(c, vote, entry_stake) ==
    IF vote.type = "Skip"
    THEN [c EXCEPT !.skip_total = entry_stake]
    ELSE [c EXCEPT !.notarize_entry_total[vote.id] = entry_stake,
                   !.notarize_total = @ - c.notarize_entry_total[vote.id] + entry_stake,
                   !.top_notarized_stake = IF entry_stake > @ THEN entry_stake ELSE @]

NoteMyVote(c, vote, is_my_own_vote) ==
    IF c.my_first_vote = NoVote /\ is_my_own_vote
    THEN [c EXCEPT !.my_first_vote = vote] ELSE c

ChecksVotedBlockOnly(c, vote) ==
    IF c.my_first_vote = NoVote THEN c
    ELSE [c EXCEPT !.safe_to_notar_sent =
                      @ \union {id \in BlockId \intersect {vote.id} : is_safe_to_notar(c, id)},
                   !.safe_to_skip_sent = @ \/ is_safe_to_skip(c)]

\* The SafeToNotar and SafeToSkip events pushed are remembered in the counters.
CheckSafe(c, vote) ==
    IF c.my_first_vote = NoVote THEN c
    ELSE [c EXCEPT !.safe_to_notar_sent =
                      @ \union {id \in BlockId : is_safe_to_notar(c, id)},
                   !.safe_to_skip_sent = @ \/ is_safe_to_skip(c)]

slot_stake_counters_add_vote(c, vote, entry_stake, is_my_own_vote) ==
    IF vote.type \notin {"Skip", "Notarize"} THEN c
    ELSE CheckSafe(NoteMyVote(CountStake(c, vote, entry_stake), vote, is_my_own_vote), vote)
-----------------------------------------------------------------------------
(* common.rs and certificate_builder.rs *)

\* The certificates a vote counts for.
vote_to_certificate_ids(vote) ==
    LET For(type) == [vote EXCEPT !.type = type]
    IN CASE vote.type = "Notarize" ->
              {vote, For("NotarizeFallback"), For("FinalizeFast")}
         [] vote.type = "SkipFallback" -> {For("Skip")}
         [] OTHER -> {vote}

AnyBitmaps(all, cert) == TRUE

\* encode_base3() refuses a validator that is in both bitmaps.
CanBuild(all, cert) ==
    \A fallback \in FallbackVotes(cert) :
        Voters(all, PrimaryVote(cert)) \intersect Voters(all, fallback) = {}
-----------------------------------------------------------------------------
(* consensus_pool.rs *)

PoolInit ==
    /\ TrackerInit
    /\ votes = {} /\ counters = [s \in Slot |-> NewCounters]
    /\ completed_certificates = {} /\ built = {}
    /\ highest_finalized_slot = 0
    /\ highest_finalized_with_notarize = <<0, FALSE>>
    /\ finalized_events = {} /\ notarized_events = {}

Completed(types, slot) ==
    {c \in completed_certificates : c.type \in types /\ c.slot = slot}

is_finalized(slot) == Completed({"Finalize", "FinalizeFast"}, slot) # {}

\* get_notarized_block(slot), as a set of at most one block.
get_notarized_block(slot) ==
    LET ids == {c.id : c \in Completed({"Notarize"}, slot)}
    IN IF ids = {} THEN {} ELSE {<<slot, Min(ids)>>}

FinalizesOnlyByFinalizeVotes(cert) ==
    CASE cert.type = "Finalize" -> get_notarized_block(cert.slot)
      [] cert.type = "FinalizeFast" -> {<<cert.slot, cert.id>>}
      [] OTHER -> {}

\* The blocks for which insert_certificate(cert) pushes a Finalized event.
NewlyFinalized(cert) ==
    CASE cert.type = "Finalize" -> get_notarized_block(cert.slot)
      [] cert.type = "FinalizeFast" -> {<<cert.slot, cert.id>>}
      [] cert.type = "Notarize" ->
            IF is_finalized(cert.slot) THEN {<<cert.slot, cert.id>>} ELSE {}
      [] OTHER -> {}

IgnoresEqualSlot(new, slot) ==
    LET highest == highest_finalized_with_notarize IN
    IF new # {} /\ highest[1] < slot
    THEN <<slot, \E c \in new : c.type = "FinalizeFast">> ELSE highest

\* `new` are the certificates of one slot that finalize a block.
HighestWithNotarize(new, slot) ==
    LET highest == highest_finalized_with_notarize IN
    IF \E c \in new : c.type = "FinalizeFast" /\ highest[1] <= slot THEN <<slot, TRUE>>
    ELSE IF new # {} /\ highest[1] < slot THEN <<slot, FALSE>> ELSE highest

Notarizing(new) ==
    {c \in new : c.type \in {"Notarize", "NotarizeFallback", "FinalizeFast"}}

\* What the tracker is told.  Of the certificates of one block it takes the first.
TrackerAfter(new, slot) ==
    CASE Notarizing(new) # {} ->
            add_new_notar_fallback_or_stronger(
                tracker, <<slot, (CHOOSE c \in Notarizing(new) : TRUE).id>>)
      [] \E c \in new : c.type = "Skip" -> add_new_skip(tracker, slot)
      [] OTHER -> tracker

\* prune_old_state() of the votes and of the certificates.
RetainedVotes(all, root_slot) == {m \in all : m.vote.slot >= root_slot}
Retained(certs, root_slot) == {c \in certs : c.slot >= root_slot}

\* insert_certificate() for certificates of one slot and at most one block, in
\* the order of vote_to_certificate_ids(), then prune_old_state(root_slot).
insert_and_prune(new, slot, root_slot) ==
    LET accepted == {c \in new : Accepts(tracker, slot)}
    IN /\ completed_certificates' = Retained(completed_certificates \union new, root_slot)
       /\ tracker' = set_root(TrackerAfter(new, slot), root_slot)
       /\ certified' = certified \union {<<slot, c.id>> : c \in Notarizing(accepted)}
       /\ skipped' = skipped \union {c.slot : c \in {d \in accepted : d.type = "Skip"}}
       /\ notarized_events' = notarized_events \union
             {<<slot, c.id>> : c \in {d \in new : d.type = "Notarize"}}
       /\ finalized_events' = finalized_events \union UNION {NewlyFinalized(c) : c \in new}
       /\ highest_finalized_slot' =
             IF \E c \in new : c.type \in {"Finalize", "FinalizeFast"}
             THEN Max({highest_finalized_slot, slot}) ELSE highest_finalized_slot
       /\ highest_finalized_with_notarize' =
             HighestWithNotarize({c \in new : NewlyFinalized(c) # {}}, slot)

\* The certificates that `vote` counts for and that the votes `all` complete.
WithEnoughStake(all, vote) ==
    {c \in vote_to_certificate_ids(vote) \ completed_certificates :
        AtLeast(get_stake(all, PrimaryVote(c))
                  + MapThenSumSet(LAMBDA f : get_stake(all, f), FallbackVotes(c)),
                CertificateLimit(c))}

CountersAfter(all, voter, vote) ==
    [counters EXCEPT ![vote.slot] =
        slot_stake_counters_add_vote(@, vote, get_stake(all, vote), voter = Me)]

\* add_vote() of a new and valid vote.  One certificate that cannot be built
\* makes build_certs() return an error: then nothing is inserted, the vote
\* stays counted, and the caller does not prune.
add_vote(voter, vote, root_slot) ==
    LET all == votes \union {[voter |-> voter, vote |-> vote]}
        complete == WithEnoughStake(all, vote)
    IN /\ ~IsDuplicate(voter, vote) /\ ~IsInvalid(voter, vote)
       /\ IF \A c \in complete : CanBuild(all, c)
          THEN /\ votes' = RetainedVotes(all, root_slot)
               /\ counters' = [s \in Slot |-> IF s < root_slot THEN NewCounters
                                              ELSE CountersAfter(all, voter, vote)[s]]
               /\ built' = built \union complete
               /\ insert_and_prune(complete, vote.slot, root_slot)
          ELSE /\ votes' = all
               /\ counters' = CountersAfter(all, voter, vote)
               /\ UNCHANGED <<trackerVars, completed_certificates, built, finality>>

prune_old_state(root_slot) ==
    /\ votes' = RetainedVotes(votes, root_slot)
    /\ counters' = [s \in Slot |-> IF s < root_slot THEN NewCounters ELSE counters[s]]
    /\ UNCHANGED built

\* add_certificate() of a certificate from another validator; the second case
\* is the one that is complete already.
add_certificate(cert, root_slot) ==
    /\ prune_old_state(root_slot)
    /\ insert_and_prune({cert} \ completed_certificates, cert.slot, root_slot)

\* add_vote() of a vote that was counted before.
add_duplicate_vote(voter, vote, root_slot) ==
    /\ IsDuplicate(voter, vote) /\ ~IsInvalid(voter, vote)
    /\ prune_old_state(root_slot)
    /\ insert_and_prune({}, vote.slot, root_slot)

ResendsOnlyUnfinalized ==
    {c \in completed_certificates : c.slot > highest_finalized_with_notarize[1]}

\* get_certs_for_standstill(), without the certificates it passes over.
get_certs_for_standstill ==
    LET highest == highest_finalized_with_notarize[1]
        fast == highest_finalized_with_notarize[2]
    IN {c \in completed_certificates :
          \/ c.slot > highest
          \/ /\ c.slot = highest
             /\ c.type \in IF fast THEN {"FinalizeFast"} ELSE {"Finalize", "Notarize"}}
=============================================================================
