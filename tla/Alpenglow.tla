------------------------------ MODULE Alpenglow ------------------------------
(***************************************************************************)
(* The votes of a cluster of validators that run votor, and the            *)
(* certificates that can come of them.  A correct validator votes as       *)
(* EventHandler allows; its pool lets it cast fallback votes by the        *)
(* thresholds of SlotStakeCounters; a certificate needs the stake of       *)
(* certificate_limits_and_votes().                                         *)
(*                                                                         *)
(* A validator has received any part of the votes cast, and whatever votes *)
(* the faulty validators chose to show it.  All rules are monotone in the  *)
(* votes received, so they are stated for the most it can have received.   *)
(***************************************************************************)
EXTENDS VotorMessages

CONSTANTS
    Validator,
    Faulty,     \* the validators that may send anything to anyone
    Stake       \* the stake of each set of validators

ASSUME StakeAssumption ==
    /\ Faulty \subseteq Validator
    /\ Stake \in [SUBSET Validator -> Nat]
    /\ \A S, T \in SUBSET Validator :
          S \intersect T = {} => Stake[S \union T] = Stake[S] + Stake[T]

\* Less than 20% of the stake is faulty.
ASSUME FaultAssumption == 5 * Stake[Faulty] < Stake[Validator]

VARIABLE cast   \* the votes of correct validators, as pairs <<validator, vote>>

Correct == Validator \ Faulty

AtLeast(voters, percent) == 100 * Stake[voters] >= percent * Stake[Validator]

\* Who has, or may have, cast one of the votes.
Voters(votes) == Faulty \union {v \in Correct : \E vote \in votes : <<v, vote>> \in cast}

VotesFor(cert) == {PrimaryVote(cert)} \union FallbackVotes(cert)
CanForm(cert) == AtLeast(Voters(VotesFor(cert)), CertificateLimit(cert))
Certificates == {cert \in Certificate : CanForm(cert)}

HasVoted(v, slot, types) ==
    \E id \in BlockId \union {NoId}, t \in types : <<v, Item(t, slot, id)>> \in cast

NotarizeVotes(slot, ids) == {Item("Notarize", slot, id) : id \in ids}

IgnoresSkipStake(block) ==
    LET notarize == {ForBlock("Notarize", block)}
    IN AtLeast(Voters(notarize), 20)

\* is_safe_to_notar(), but for our own vote.
SafeToNotar(block) ==
    LET notarize == {ForBlock("Notarize", block)}
        skip == {ForSlot("Skip", SlotOf(block))}
    IN \/ AtLeast(Voters(notarize), 40)
       \/ AtLeast(Voters(notarize), 20) /\ AtLeast(Voters(notarize \union skip), 60)

\* is_safe_to_skip(): the skip votes and the notarize votes, without those for
\* any one block.
SafeToSkip(slot) ==
    \A id \in BlockId :
        AtLeast(Voters(NotarizeVotes(slot, BlockId \ {id}) \union {ForSlot("Skip", slot)}), 40)
-----------------------------------------------------------------------------
Init == cast = {}

CastVote(v, vote) == cast' = cast \union {<<v, vote>>}

Notarize(v, block) ==
    /\ ~HasVoted(v, SlotOf(block), {"Notarize", "Skip"})
    /\ CastVote(v, ForBlock("Notarize", block))

Skip(v, slot) ==
    /\ ~HasVoted(v, slot, {"Notarize", "Skip"})
    /\ CastVote(v, ForSlot("Skip", slot))

NotarizeFallback(v, block) ==
    /\ HasVoted(v, SlotOf(block), {"Notarize", "Skip"})
    /\ <<v, ForBlock("Notarize", block)>> \notin cast
    /\ SafeToNotar(block)
    /\ ~HasVoted(v, SlotOf(block), {"Finalize"})
    /\ CastVote(v, ForBlock("NotarizeFallback", block))

SkipFallback(v, slot) ==
    /\ HasVoted(v, slot, {"Notarize"})
    /\ SafeToSkip(slot)
    /\ ~HasVoted(v, slot, {"Finalize"})
    /\ CastVote(v, ForSlot("SkipFallback", slot))

FinalizesAfterFallback(v, block) ==
    /\ <<v, ForBlock("Notarize", block)>> \in cast
    /\ CanForm(ForBlock("Notarize", block))
    /\ CastVote(v, ForSlot("Finalize", SlotOf(block)))

\* try_final(), which a Notarize certificate triggers.
Finalize(v, block) ==
    /\ <<v, ForBlock("Notarize", block)>> \in cast
    /\ CanForm(ForBlock("Notarize", block))
    /\ ~HasVoted(v, SlotOf(block), {"Skip", "SkipFallback", "NotarizeFallback"})
    /\ CastVote(v, ForSlot("Finalize", SlotOf(block)))

Next ==
    \E v \in Correct :
        \/ \E b \in Block : Notarize(v, b) \/ NotarizeFallback(v, b) \/ Finalize(v, b)
        \/ \E s \in Slot : Skip(v, s) \/ SkipFallback(v, s)

Spec == Init /\ [][Next]_cast
-----------------------------------------------------------------------------
\* Correct validators cast votes of the types of votor_messages::vote::Vote.
TypeOK == cast \subseteq Correct \X Vote

\* The thresholds of votor keep certificates from contradicting each other: no
\* two blocks of a slot are notarized, and once a block is finalized, fast or
\* slowly, neither a skip certificate of its slot nor any certificate of another
\* block can ever be made, although votes are cast after it (insert_certificate()
\* and EventHandler rely on this and do not look for contradictions).
CertificatesAreConsistent == Consistent(Certificates)

\* What holds of each vote from when it is cast on.
VotesAreCompatible ==
    \A v \in Correct, x, y \in Vote :
        <<v, x>> \in cast /\ <<v, y>> \in cast => Compatible(x, y)
FallbacksAreSafe ==
    \A v \in Correct :
        /\ \A b \in Block : <<v, ForBlock("NotarizeFallback", b)>> \in cast => SafeToNotar(b)
        /\ \A s \in Slot : <<v, ForSlot("SkipFallback", s)>> \in cast => SafeToSkip(s)
FinalizersNotarized ==
    \A v \in Correct, s \in Slot :
        <<v, ForSlot("Finalize", s)>> \in cast =>
            \E id \in BlockId : /\ <<v, Item("Notarize", s, id)>> \in cast
                                /\ CanForm(Item("Notarize", s, id))

\* The inductive invariant behind CertificatesAreConsistent: each correct
\* validator's votes are compatible, and the conditions under which its fallback
\* and finalize votes were cast (is_safe_to_notar, is_safe_to_skip, try_final)
\* still hold, since they only grow truer as more votes are cast.
IInv == TypeOK /\ VotesAreCompatible /\ FallbacksAreSafe /\ FinalizersNotarized
=============================================================================
