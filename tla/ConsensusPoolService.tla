------------------------ MODULE ConsensusPoolService ------------------------
(***************************************************************************)
(* The thread that owns the consensus pool (votor/src/                     *)
(* consensus_pool_service.rs).  Each round of its loop may start our       *)
(* leader window, may resend certificates after a standstill, hands the    *)
(* events of the last round to the event handler, and then feeds a batch   *)
(* of messages to the pool.  The root it prunes to is set by the event     *)
(* handler thread at any moment, between the two times it is read too.     *)
(***************************************************************************)
EXTENDS ConsensusPool, Sequences

CONSTANTS
    InputVotes, InputCertificates,  \* bounds: the messages that may be received
    MyLeaderSlots,                  \* slots for which this validator is the leader
    SlotsPerEpoch,
    ChannelMayFill                  \* bound: whether the channel to the voting service fills up

ASSUME EpochAssumption == SlotsPerEpoch \in Nat \ {0}

VARIABLES
    bank_root,              \* the root of the bank forks
    drained_parent_ready,   \* ParentReady events handed to the event handler
    drained_finalized,      \* Finalized events handed to the event handler
    highest_parent_ready,
    produced,               \* <<slot, parent>> of the ProduceWindow events, in their order
    broadcast,              \* certificates given to the voting service
    failed                  \* why the loop returned an error, or "No"

serviceVars == <<bank_root, drained_parent_ready, drained_finalized,
                 highest_parent_ready, produced, broadcast, failed>>
vars == <<poolVars, serviceVars>>

Init ==
    /\ PoolInit
    /\ bank_root = 0
    /\ drained_parent_ready = {} /\ drained_finalized = {}
    /\ highest_parent_ready = 0
    /\ produced = <<>> /\ broadcast = {} /\ failed = "No"

\* The event handler roots a finalized block while a message is handled.
RootMoves ==
    \/ UNCHANGED bank_root
    \/ \E b \in drained_finalized : SlotOf(b) > bank_root /\ bank_root' = SlotOf(b)

\* send_certificates(): a full channel drops the rest of the certificates, in
\* whatever order they are sent.
send_certificates(certs) ==
    \/ broadcast' = broadcast \union certs
    \/ /\ ChannelMayFill
       /\ \E sent \in SUBSET certs : sent # certs /\ broadcast' = broadcast \union sent

\* process_consensus_message() of a vote.  Votes below the root and invalid
\* votes change nothing.
ReceiveVote(voter, vote) ==
    /\ failed = "No"
    /\ vote.slot >= bank_root
    /\ RootMoves
    /\ \/ add_vote(voter, vote, bank_root')
       \/ add_duplicate_vote(voter, vote, bank_root')
    /\ send_certificates(built' \ built)
    /\ UNCHANGED <<drained_parent_ready, drained_finalized, highest_parent_ready,
                   produced, failed>>

\* process_consensus_message() of a certificate, which is passed on if it is new.
\* Certificates that cannot exist together are not received (module Alpenglow).
ReceiveCertificate(cert) ==
    /\ failed = "No"
    /\ cert.slot >= bank_root
    /\ Consistent(built \union broadcast \union completed_certificates \union {cert})
    /\ RootMoves
    /\ add_certificate(cert, bank_root')
    /\ send_certificates({cert} \ completed_certificates)
    /\ UNCHANGED <<drained_parent_ready, drained_finalized, highest_parent_ready,
                   produced, failed>>

PendingParentReady ==
    (tracker.events \union {<<1, RootBlock>>}) \ drained_parent_ready

\* slot_leader_at(): leaders are known up to the end of the epoch after the
\* epoch of the root.
LeaderIsKnown(slot) == slot \div SlotsPerEpoch <= bank_root \div SlotsPerEpoch + 1

\* add_produce_block_event(): has_existing_shreds says whether the blockstore
\* already holds shreds of the window.
add_produce_block_event(has_existing_shreds) ==
    LET slots == {p[1] : p \in PendingParentReady}
        start_slot == Max(slots)
        parent == block_production_parent(tracker, start_slot)
        passes == \/ start_slot \notin MyLeaderSlots \/ has_existing_shreds
                  \/ parent = MissedWindow
    IN IF slots = {} \/ start_slot <= highest_parent_ready
       THEN UNCHANGED <<highest_parent_ready, produced, failed>>
       ELSE /\ highest_parent_ready' = start_slot
            /\ failed' = IF ~LeaderIsKnown(start_slot) THEN "LeaderUnknown"
                         ELSE IF ~passes /\ parent = ParentNotReady THEN ParentNotReady
                         ELSE "No"
            /\ produced' = IF failed' # "No" \/ passes THEN produced
                           ELSE Append(produced, <<start_slot, parent>>)

\* The head of a round of the loop; standstill says whether the standstill
\* timer, which a new finalized slot resets, has run out.
StartRound(has_existing_shreds, standstill) ==
    /\ failed = "No"
    /\ add_produce_block_event(has_existing_shreds)
    /\ IF standstill /\ failed' = "No" THEN send_certificates(get_certs_for_standstill)
                                       ELSE UNCHANGED broadcast
    /\ IF failed' # "No" THEN UNCHANGED <<drained_parent_ready, drained_finalized>>
       ELSE /\ drained_parent_ready' = tracker.events \union {<<1, RootBlock>>}
            /\ drained_finalized' = finalized_events
    /\ UNCHANGED <<poolVars, bank_root>>

Next ==
    \/ \E voter \in Validator, vote \in InputVotes : ReceiveVote(voter, vote)
    \/ \E cert \in InputCertificates : ReceiveCertificate(cert)
    \/ \E has_existing_shreds, standstill \in BOOLEAN :
          StartRound(has_existing_shreds, standstill)

Spec == Init /\ [][Next]_vars

\* A round in which the standstill certificates all fit into the channel.
ResendRound ==
    /\ StartRound(FALSE, TRUE)
    /\ broadcast' = broadcast \union get_certs_for_standstill

\* The loop runs until it fails.  The standstill timer runs out unless a slot is
\* finalized, and the voting service empties its channel.
FairSpec == Spec /\ WF_vars(ResendRound)
-----------------------------------------------------------------------------
\* The fields of ConsensusPool and of the service; no total of the slot stake
\* counters exceeds the stake of all validators, however often votes are counted.
TypeOK ==
    /\ TrackerTypeOK
    /\ \A s \in Slot : LET c == counters[s] IN
          /\ c.skip_total + c.notarize_total \in 0..TotalStake
          /\ c.top_notarized_stake \in 0..c.notarize_total
    /\ votes \subseteq [voter : Validator, vote : Vote]
    /\ completed_certificates \subseteq Certificate /\ built \subseteq Certificate
    /\ broadcast \subseteq Certificate
    /\ highest_finalized_slot \in 0..MaxSlot /\ bank_root \in 0..MaxSlot
    /\ highest_finalized_with_notarize \in (0..MaxSlot) \X BOOLEAN
    /\ finalized_events \subseteq Block /\ notarized_events \subseteq Block
    /\ drained_finalized \subseteq finalized_events
    /\ highest_parent_ready \in 0..MaxSlot + 1
    /\ produced \in Seq((1..MaxSlot + 1) \X AnyBlock)
    /\ failed \in {"No", "LeaderUnknown", ParentNotReady}

\* A certificate is only completed here when different validators with enough
\* stake voted for it: get_stake() adds up the two kinds of votes of a
\* NotarizeFallback or Skip certificate, and a validator that cast both is not
\* counted twice in any certificate that is built.
BuiltByEnoughValidators ==
    \A c \in built : c.slot >= tracker.root =>
        AtLeast(StakeIn(Voters(votes, PrimaryVote(c))
                          \union UNION {Voters(votes, f) : f \in FallbackVotes(c)}),
                CertificateLimit(c))

\* In every order of arrival, no voter is counted for votes that exclude each
\* other (vote_pool.rs, l. 23): never for two notarized blocks, for notarize
\* and skip, or for finalize and any fallback or skip vote in the same slot.
CountedVotesAreCompatible ==
    \A m, n \in votes : m.voter = n.voter => Compatible(m.vote, n.vote)

MyVote(s) ==
    {m.vote : m \in {n \in votes : n.voter = Me /\ n.vote.slot = s
                                     /\ n.vote.type \in {"Notarize", "Skip"}}}
NotarStake(s, id) == get_stake(votes, Item("Notarize", s, id))
SkipStake(s) == get_stake(votes, Item("Skip", s, NoId))

\* The SafeToNotar event of a block is pushed exactly when we have voted in the
\* slot, not to notarize that block, and the stakes of the white paper are
\* reached (slot_stake_counters.rs, l. 88-90), in whatever order our own vote
\* and the votes of the others are counted.
SafeToNotarIsExact ==
    \A s \in Slot : s >= tracker.root =>
        counters[s].safe_to_notar_sent =
            {id \in BlockId :
                /\ MyVote(s) # {} /\ Item("Notarize", s, id) \notin MyVote(s)
                /\ \/ AtLeast(NotarStake(s, id), 40)
                   \/ /\ AtLeast(NotarStake(s, id), 20)
                      /\ AtLeast(NotarStake(s, id) + SkipStake(s), 60)}

\* The SafeToSkip event is pushed exactly when we have voted to notarize and
\* the stake of skip and of all but the most voted block reaches 40%
\* (slot_stake_counters.rs, l. 107-109).
SafeToSkipIsExact ==
    \A s \in Slot : s >= tracker.root =>
        counters[s].safe_to_skip_sent =
            /\ \E v \in MyVote(s) : v.type = "Notarize"
            /\ \A id \in BlockId :
                  AtLeast(SkipStake(s) + MapThenSumSet(LAMBDA i : NotarStake(s, i), BlockId \ {id}), 40)

FinalizedBlocks(certs) ==
    {<<c.slot, c.id>> : c \in {d \in certs : d.type = "FinalizeFast"
                                  \/ (d.type = "Notarize"
                                        /\ Item("Finalize", d.slot, NoId) \in certs)}}

\* A block is reported as finalized as soon as the certificates that finalize
\* it, fast or slow, are complete, whichever of them came first; and the two
\* records of the highest finalized slot agree with the certificates, so that
\* get_certs_for_standstill() never reaches its panic (consensus_pool.rs, l. 523).
FinalizationIsRecorded ==
    /\ FinalizedBlocks(completed_certificates) \subseteq finalized_events
    /\ \A c \in completed_certificates :
          c.type \in {"Finalize", "FinalizeFast"} => c.slot <= highest_finalized_slot
    /\ LET highest == highest_finalized_with_notarize IN
          /\ \A b \in finalized_events : SlotOf(b) <= highest[1]
          /\ highest[1] > 0 /\ highest[1] >= tracker.root =>
                /\ \E b \in FinalizedBlocks(completed_certificates) : SlotOf(b) = highest[1]
                /\ highest[2] = (Completed({"FinalizeFast"}, highest[1]) # {})

\* Who receives exactly the certificates that a standstill resends learns the
\* finality of the highest finalized slot, and every ready parent from there on.
StandstillCertificatesSuffice ==
    LET sent == get_certs_for_standstill
        highest == highest_finalized_with_notarize[1]
        Ready(s, certs) ==
            {b \in {<<c.slot, c.id>> : c \in Notarizing(certs)} :
                highest <= SlotOf(b) /\ SlotOf(b) < s
                  /\ \A k \in SlotOf(b) + 1 .. s - 1 : Item("Skip", k, NoId) \in certs}
    IN /\ \A b \in FinalizedBlocks(completed_certificates) :
             SlotOf(b) >= highest => b \in FinalizedBlocks(sent)
       /\ \A s \in highest + 1 .. MaxSlot + 1 :
             Ready(s, completed_certificates) = Ready(s, sent)

\* ParentNotReady "can't happen" (consensus_pool_service.rs, l. 396): the root may
\* move past the slot of an event before the event is looked at, and the tracker
\* forgets the parents of that slot; then the window counts as missed.  The
\* windows that are started follow each other, and each one has a ready parent.
WindowsStartOnReadyParents ==
    /\ failed # ParentNotReady
    /\ \A i \in DOMAIN produced :
          /\ produced[i][2] \in ReadyParents(produced[i][1])
          /\ \A j \in 1 .. i - 1 : produced[j][1] < produced[i][1]

\* Certificates that a full channel dropped are sent again: whatever is
\* finalized here, its finality or that of a later block is eventually provable
\* from the certificates passed on, also when the root has moved meanwhile.
FinalityIsPassedOn ==
    \A b \in Block : b \in finalized_events ~>
        \E d \in FinalizedBlocks(broadcast) : SlotOf(d) >= SlotOf(b)
=============================================================================
