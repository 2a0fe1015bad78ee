---------------------------- MODULE VotorMessages ----------------------------
(***************************************************************************)
(* Slots, leader windows, blocks, votes and certificates, as all of votor  *)
(* uses them (votor-messages/src, votor/src/common.rs,                     *)
(* ledger/src/leader_schedule_utils.rs).  A block is a pair <<slot, id>>;  *)
(* a vote, and the type of a certificate, is a record of a type, a slot    *)
(* and a block id.                                                         *)
(***************************************************************************)
EXTENDS Integers, FiniteSets

CONSTANTS
    MaxSlot,            \* bound: votes and certificates are for slots 1..MaxSlot
    BlockId,            \* hashes, as numbers: block_production_parent orders them
    GenesisId,          \* the block id of the block at which votor starts
    Window              \* NUM_CONSECUTIVE_LEADER_SLOTS

ASSUME SlotAssumption == MaxSlot \in Nat \ {0} /\ Window \in Nat \ {0}
ASSUME BlockIdAssumption == BlockId \subseteq Nat /\ GenesisId \in Nat

Slot == 1..MaxSlot
Block == Slot \X BlockId
RootBlock == <<0, GenesisId>>
AnyBlock == Block \union {RootBlock}
SlotOf(block) == block[1]

first_of_consecutive_leader_slots(s) == (s \div Window) * Window
last_of_consecutive_leader_slots(s) == first_of_consecutive_leader_slots(s) + Window - 1
leader_slot_index(s) == s % Window

NoId == -1
Item(type, slot, id) == [type |-> type, slot |-> slot, id |-> id]
ForBlock(type, block) == Item(type, block[1], block[2])
ForSlot(type, slot) == Item(type, slot, NoId)
BlockItems(types) == {Item(t, s, id) : t \in types, s \in Slot, id \in BlockId}
SlotItems(types) == {ForSlot(t, s) : t \in types, s \in Slot}

Vote == BlockItems({"Notarize", "NotarizeFallback", "Genesis"})
            \union SlotItems({"Skip", "SkipFallback", "Finalize"})
Certificate == BlockItems({"Notarize", "NotarizeFallback", "FinalizeFast", "Genesis"})
                  \union SlotItems({"Skip", "Finalize"})

\* What no validator may have voted in one slot: two blocks, a block and skip,
\* or to finalize and a skip or fallback vote.
Compatible(v, w) ==
    v.slot = w.slot =>
        /\ v.type = "Notarize" => w.type # "Skip" /\ (w.type = "Notarize" => v.id = w.id)
        /\ v.type = "Finalize" => w.type \notin {"Skip", "SkipFallback", "NotarizeFallback"}

\* The stake a certificate needs, in percent.
CertificateLimit(cert) ==
    CASE cert.type = "FinalizeFast" -> 80
      [] cert.type = "Genesis" -> 82
      [] OTHER -> 60

PrimaryVote(cert) ==
    IF cert.type \in {"NotarizeFallback", "FinalizeFast"}
    THEN [cert EXCEPT !.type = "Notarize"] ELSE cert

\* The second kind of vote that also counts, if there is one.
FallbackVotes(cert) ==
    CASE cert.type = "NotarizeFallback" -> {cert}
      [] cert.type = "Skip" -> {[cert EXCEPT !.type = "SkipFallback"]}
      [] OTHER -> {}

\* The certificates of `certs` finalize the block, fast or slowly.
Finalizes(certs, slot, id) ==
    \/ Item("FinalizeFast", slot, id) \in certs
    \/ Item("Notarize", slot, id) \in certs /\ ForSlot("Finalize", slot) \in certs

\* What certificates can exist together: at most one block of a slot is
\* notarized, and a finalized slot has no other certified block and no skip
\* certificate.
Consistent(certs) ==
    \A c, d \in certs : c.slot = d.slot =>
        /\ c.type \in {"Notarize", "FinalizeFast"} /\ d.type \in {"Notarize", "FinalizeFast"}
              => c.id = d.id
        /\ c.type \in {"Finalize", "FinalizeFast"} => d.type # "Skip"
        /\ Finalizes(certs, c.slot, c.id) /\ d.type = "NotarizeFallback" => c.id = d.id
=============================================================================
