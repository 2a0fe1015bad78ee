--------------------------- MODULE AlpenglowProofs ---------------------------
(***************************************************************************)
(* Certificates are consistent, for any number of validators, stakes,      *)
(* slots and blocks, if less than a fifth of the stake is faulty.          *)
(*                                                                         *)
(* The argument is one counting fact, Overlap: two groups of voters with   *)
(* 60% and 60%, or 80% and 40%, share a correct validator.  The votes of   *)
(* that validator are compatible, or one is a fallback vote whose          *)
(* condition, still true, gives another group to count.                    *)
(***************************************************************************)
EXTENDS Alpenglow, TLAPS

\* A set of validators has no more stake than a larger one.
LEMMA StakeMonotone ==
    ASSUME NEW T \in SUBSET Validator, NEW S \in SUBSET T
    PROVE  Stake[S] <= Stake[T]
<1>1. S \in SUBSET Validator /\ T \ S \in SUBSET Validator
  OBVIOUS
<1>2. S \intersect (T \ S) = {} /\ S \union (T \ S) = T
  OBVIOUS
<1>3. Stake[T] = Stake[S] + Stake[T \ S]
  BY <1>1, <1>2, StakeAssumption
<1>4. Stake[S] \in Nat /\ Stake[T \ S] \in Nat
  BY <1>1, StakeAssumption
<1> QED
  BY <1>3, <1>4

\* Votes are never taken back, so the stake behind any of them only grows.
LEMMA VotersGrow ==
    ASSUME NEW votes, NEW percent \in Nat, cast \subseteq cast', AtLeast(Voters(votes), percent)
    PROVE  AtLeast(Voters(votes), percent)'
<1>1. Voters(votes) \subseteq Voters(votes)'
  BY DEF Voters
<1>2. Voters(votes)' \in SUBSET Validator /\ Voters(votes) \in SUBSET Validator
  BY StakeAssumption DEF Voters, Correct
<1> DEFINE S == Voters(votes)
           T == Voters(votes)'
<1>3. Stake[S] <= Stake[T]
  BY <1>1, <1>2, StakeMonotone
<1>4. Stake[S] \in Nat /\ Stake[T] \in Nat /\ Stake[Validator] \in Nat
  BY <1>2, StakeAssumption
<1>5. 100 * Stake[S] >= percent * Stake[Validator]
  BY DEF AtLeast
<1>6. percent * Stake[Validator] \in Nat
  BY <1>4
<1>7. 100 * Stake[T] >= percent * Stake[Validator]
  <2> DEFINE limit == percent * Stake[Validator]
  <2>1. limit \in Nat /\ 100 * Stake[S] >= limit
    BY <1>5, <1>6
  <2> HIDE DEF limit, S, T
  <2>2. 100 * Stake[T] >= limit
    BY <2>1, <1>3, <1>4
  <2> QED
    BY <2>2 DEF limit
<1> QED
  BY <1>7 DEF AtLeast

\* Disjoint groups of correct validators: the faulty ones are counted twice.
LEMMA DisjointStake ==
    ASSUME NEW S \in SUBSET Correct, NEW T \in SUBSET Correct, S \intersect T = {}
    PROVE  Stake[Faulty \union S] + Stake[Faulty \union T] <= Stake[Validator] + Stake[Faulty]
<1>1. /\ Faulty \in SUBSET Validator /\ S \in SUBSET Validator /\ T \in SUBSET Validator
      /\ S \union T \in SUBSET Validator /\ Faulty \union (S \union T) \in SUBSET Validator
      /\ Validator \in SUBSET Validator
  BY StakeAssumption DEF Correct
<1>2. /\ Faulty \intersect S = {} /\ Faulty \intersect T = {}
      /\ Faulty \intersect (S \union T) = {}
  BY DEF Correct
<1>3. /\ Stake[Faulty \union S] = Stake[Faulty] + Stake[S]
      /\ Stake[Faulty \union T] = Stake[Faulty] + Stake[T]
  BY <1>1, <1>2, StakeAssumption
<1>4. Stake[Faulty \union (S \union T)] = Stake[Faulty] + Stake[S \union T]
  BY <1>1, <1>2, StakeAssumption
<1>5. Stake[S \union T] = Stake[S] + Stake[T]
  BY <1>1, StakeAssumption
<1>6. Stake[Faulty \union (S \union T)] <= Stake[Validator]
  BY <1>1, StakeMonotone
<1>7. /\ Stake[Faulty] \in Nat /\ Stake[S] \in Nat /\ Stake[T] \in Nat
      /\ Stake[Validator] \in Nat
  BY <1>1, StakeAssumption
<1> QED
  BY <1>3, <1>4, <1>5, <1>6, <1>7

\* A larger threshold implies a smaller one.
LEMMA AtLeastWeaken ==
    ASSUME NEW S \in SUBSET Validator
    PROVE  /\ AtLeast(S, 80) => AtLeast(S, 60)
           /\ AtLeast(S, 60) => AtLeast(S, 40)
<1>1. Stake[S] \in Nat /\ Stake[Validator] \in Nat
  BY StakeAssumption
<1> QED
  BY <1>1 DEF AtLeast

\* Two votes with enough stake behind both have a correct voter in common.
LEMMA Overlap ==
    ASSUME NEW X, NEW Y,
           \/ AtLeast(Voters(X), 60) /\ AtLeast(Voters(Y), 60)
           \/ AtLeast(Voters(X), 80) /\ AtLeast(Voters(Y), 40)
    PROVE  \E v \in Correct, x \in X, y \in Y : <<v, x>> \in cast /\ <<v, y>> \in cast
<1> DEFINE S == {v \in Correct : \E x \in X : <<v, x>> \in cast}
           T == {v \in Correct : \E y \in Y : <<v, y>> \in cast}
<1>1. Voters(X) = Faulty \union S /\ Voters(Y) = Faulty \union T
  BY DEF Voters
<1>2. S \in SUBSET Correct /\ T \in SUBSET Correct
  OBVIOUS
<1>3. /\ Faulty \union S \in SUBSET Validator /\ Faulty \union T \in SUBSET Validator
      /\ Faulty \in SUBSET Validator /\ Validator \in SUBSET Validator
  BY <1>2, StakeAssumption DEF Correct
<1>4. /\ Stake[Faulty \union S] \in Nat /\ Stake[Faulty \union T] \in Nat
      /\ Stake[Faulty] \in Nat /\ Stake[Validator] \in Nat
  BY <1>3, StakeAssumption
<1>5. \/ AtLeast(Faulty \union S, 60) /\ AtLeast(Faulty \union T, 60)
      \/ AtLeast(Faulty \union S, 80) /\ AtLeast(Faulty \union T, 40)
  BY <1>1
<1>6. S \intersect T # {}
  <2> HIDE DEF S, T
  <2>1. SUFFICES ASSUME S \intersect T = {} PROVE FALSE
    OBVIOUS
  <2>2. Stake[Faulty \union S] + Stake[Faulty \union T] <= Stake[Validator] + Stake[Faulty]
    BY <1>2, <2>1, DisjointStake
  <2>3. 100 * Stake[Faulty \union S] + 100 * Stake[Faulty \union T] >= 120 * Stake[Validator]
    BY <1>4, <1>5 DEF AtLeast
  <2> QED
    BY <1>4, <2>2, <2>3, FaultAssumption
<1> QED
  BY <1>6

\* Overlap, with the first vote given: some correct validator cast it and one of Y.
LEMMA OverlapOne ==
    ASSUME NEW x, NEW Y,
           \/ AtLeast(Voters({x}), 60) /\ AtLeast(Voters(Y), 60)
           \/ AtLeast(Voters({x}), 80) /\ AtLeast(Voters(Y), 40)
    PROVE  \E v \in Correct, y \in Y : <<v, x>> \in cast /\ <<v, y>> \in cast
<1> DEFINE X == {x}
<1>1. \/ AtLeast(Voters(X), 60) /\ AtLeast(Voters(Y), 60)
      \/ AtLeast(Voters(X), 80) /\ AtLeast(Voters(Y), 40)
  OBVIOUS
<1>2. \A z \in X : z = x
  OBVIOUS
<1> HIDE DEF X
<1>3. PICK v \in Correct, z \in X, y \in Y : <<v, z>> \in cast /\ <<v, y>> \in cast
  BY <1>1, Overlap
<1> QED
  BY <1>2, <1>3
-----------------------------------------------------------------------------
\* The votes and certificates as records.
LEMMA VoteShape ==
    ASSUME NEW x \in Vote
    PROVE  /\ x = Item(x.type, x.slot, x.id)
           /\ x.slot \in Slot /\ x.id \in BlockId \union {NoId}
           /\ x.type \in {"Notarize", "NotarizeFallback", "Genesis",
                          "Skip", "SkipFallback", "Finalize"}
BY DEF Vote, BlockItems, SlotItems, ForSlot, Item

\* A certificate (CertificateType) names a block exactly when its type carries one.
LEMMA CertificateShape ==
    ASSUME NEW c \in Certificate
    PROVE  /\ c = Item(c.type, c.slot, c.id)
           /\ c.slot \in Slot
           /\ c.type \in {"Notarize", "NotarizeFallback", "FinalizeFast", "Genesis"}
                 => c.id \in BlockId
           /\ c.type \in {"Skip", "Finalize"} => c.id = NoId
BY DEF Certificate, BlockItems, SlotItems, ForSlot, Item

\* The votes a validator can cast for a slot are members of Vote.
LEMMA VoteTypes ==
    ASSUME NEW s \in Slot
    PROVE  /\ \A id \in BlockId : /\ Item("Notarize", s, id) \in Vote
                                  /\ Item("NotarizeFallback", s, id) \in Vote
           /\ ForSlot("Skip", s) \in Vote /\ ForSlot("SkipFallback", s) \in Vote
           /\ ForSlot("Finalize", s) \in Vote
BY DEF Vote, BlockItems, SlotItems

\* The votes that each type of certificate needs, and how many.
LEMMA CertificateVotes ==
    ASSUME NEW s, NEW id
    PROVE  /\ CanForm(Item("Notarize", s, id)) <=> AtLeast(Voters({Item("Notarize", s, id)}), 60)
           /\ CanForm(Item("FinalizeFast", s, id)) <=> AtLeast(Voters({Item("Notarize", s, id)}), 80)
           /\ CanForm(Item("NotarizeFallback", s, id)) <=>
                 AtLeast(Voters({Item("Notarize", s, id), Item("NotarizeFallback", s, id)}), 60)
           /\ CanForm(ForSlot("Finalize", s)) <=> AtLeast(Voters({ForSlot("Finalize", s)}), 60)
           /\ CanForm(ForSlot("Skip", s)) <=>
                 AtLeast(Voters({ForSlot("Skip", s), ForSlot("SkipFallback", s)}), 60)
<1>1. /\ VotesFor(Item("Notarize", s, id)) = {Item("Notarize", s, id)}
      /\ VotesFor(Item("FinalizeFast", s, id)) = {Item("Notarize", s, id)}
  BY DEF VotesFor, PrimaryVote, FallbackVotes, Item
<1>2. VotesFor(Item("NotarizeFallback", s, id)) =
         {Item("Notarize", s, id), Item("NotarizeFallback", s, id)}
  BY DEF VotesFor, PrimaryVote, FallbackVotes, Item
<1>3. /\ VotesFor(ForSlot("Finalize", s)) = {ForSlot("Finalize", s)}
      /\ VotesFor(ForSlot("Skip", s)) = {ForSlot("Skip", s), ForSlot("SkipFallback", s)}
  BY DEF VotesFor, PrimaryVote, FallbackVotes, Item, ForSlot
<1>4. /\ CertificateLimit(Item("Notarize", s, id)) = 60
      /\ CertificateLimit(Item("FinalizeFast", s, id)) = 80
      /\ CertificateLimit(Item("NotarizeFallback", s, id)) = 60
      /\ CertificateLimit(ForSlot("Finalize", s)) = 60
      /\ CertificateLimit(ForSlot("Skip", s)) = 60
  BY DEF CertificateLimit, Item, ForSlot
<1> QED
  BY <1>1, <1>2, <1>3, <1>4 DEF CanForm

\* Only validators count towards the stake behind a set of votes.
LEMMA VotersAreValidators ==
    ASSUME NEW X
    PROVE  Voters(X) \in SUBSET Validator
BY StakeAssumption DEF Voters, Correct
-----------------------------------------------------------------------------
(* Certificates that would contradict each other.                           *)

\* Two votes of one correct validator.
LEMMA VotesOfOne ==
    ASSUME IInv, NEW v \in Correct, NEW x, NEW y, <<v, x>> \in cast, <<v, y>> \in cast
    PROVE  Compatible(x, y) /\ Compatible(y, x)
<1>1. x \in Vote /\ y \in Vote
  BY DEF IInv, TypeOK
<1> QED
  BY <1>1 DEF IInv, VotesAreCompatible

\* Two blocks of a slot are not both notarized.
LEMMA OneNotarized ==
    ASSUME IInv, NEW s \in Slot, NEW b, NEW c,
           AtLeast(Voters({Item("Notarize", s, b)}), 60),
           AtLeast(Voters({Item("Notarize", s, c)}), 60)
    PROVE  b = c
<1>1. PICK v \in Correct, y \in {Item("Notarize", s, c)} :
         <<v, Item("Notarize", s, b)>> \in cast /\ <<v, y>> \in cast
  BY OverlapOne
<1>2. Compatible(Item("Notarize", s, b), y) /\ y = Item("Notarize", s, c)
  BY <1>1, VotesOfOne
<1> QED
  BY <1>2 DEF Compatible, Item

\* With 80% for one block there are not 40% against it: neither for other
\* blocks, nor to skip.
LEMMA FewAgainstFast ==
    ASSUME IInv, NEW s \in Slot, NEW b \in BlockId,
           AtLeast(Voters({Item("Notarize", s, b)}), 80)
    PROVE  /\ ~SafeToSkip(s)
           /\ \A c \in BlockId \ {b} : ~SafeToNotar(<<s, c>>)
<1> DEFINE against == NotarizeVotes(s, BlockId \ {b}) \union {ForSlot("Skip", s)}
<1>1. ASSUME NEW X \in SUBSET against, AtLeast(Voters(X), 40)
      PROVE  FALSE
  <2>1. PICK v \in Correct, x \in X : /\ <<v, Item("Notarize", s, b)>> \in cast
                                      /\ <<v, x>> \in cast
    BY <1>1, OverlapOne
  <2>2. Compatible(Item("Notarize", s, b), x)
    BY <2>1, VotesOfOne
  <2>3. x \in NotarizeVotes(s, BlockId \ {b}) \/ x = ForSlot("Skip", s)
    BY <1>1
  <2> QED
    BY <2>2, <2>3 DEF Compatible, Item, ForSlot, NotarizeVotes
<1>2. ~SafeToSkip(s)
  BY <1>1 DEF SafeToSkip
<1>3. ASSUME NEW c \in BlockId \ {b}, SafeToNotar(<<s, c>>)
      PROVE  FALSE
  <2> DEFINE notarize == {ForBlock("Notarize", <<s, c>>)}
             skip == {ForSlot("Skip", SlotOf(<<s, c>>))}
  <2>1. notarize \in SUBSET against /\ notarize \union skip \in SUBSET against
    BY DEF NotarizeVotes, ForBlock, SlotOf
  <2>2. AtLeast(Voters(notarize), 40) \/ AtLeast(Voters(notarize \union skip), 60)
    BY <1>3 DEF SafeToNotar
  <2>3. AtLeast(Voters(notarize), 40) \/ AtLeast(Voters(notarize \union skip), 40)
    BY <2>2, AtLeastWeaken, VotersAreValidators
  <2> QED
    BY <1>1, <2>1, <2>3
<1> QED
  BY <1>2, <1>3

\* A slot with a Finalize or FinalizeFast certificate is not skipped.
LEMMA FinalizedNotSkipped ==
    ASSUME IInv, NEW s \in Slot, CanForm(ForSlot("Skip", s)),
           \/ CanForm(ForSlot("Finalize", s))
           \/ \E id \in BlockId : CanForm(Item("FinalizeFast", s, id))
    PROVE  FALSE
<1> DEFINE skips == {ForSlot("Skip", s), ForSlot("SkipFallback", s)}
<1>0. \A x \in skips : x = ForSlot("Skip", s) \/ x = ForSlot("SkipFallback", s)
  OBVIOUS
<1>1. AtLeast(Voters(skips), 60)
  BY CertificateVotes
<1> HIDE DEF skips
<1>2. CASE CanForm(ForSlot("Finalize", s))
  <2>1. PICK v \in Correct, x \in skips : /\ <<v, ForSlot("Finalize", s)>> \in cast
                                          /\ <<v, x>> \in cast
    BY <1>1, <1>2, CertificateVotes, OverlapOne
  <2>2. Compatible(ForSlot("Finalize", s), x)
    BY <2>1, VotesOfOne
  <2> QED
    BY <1>0, <2>2 DEF Compatible, Item, ForSlot
<1>3. ASSUME NEW b \in BlockId, CanForm(Item("FinalizeFast", s, b))
      PROVE  FALSE
  <2>1. AtLeast(Voters({Item("Notarize", s, b)}), 80)
    BY <1>3, CertificateVotes
  <2>2. AtLeast(Voters(skips), 40)
    BY <1>1, AtLeastWeaken, VotersAreValidators
  <2>3. PICK v \in Correct, x \in skips : /\ <<v, Item("Notarize", s, b)>> \in cast
                                          /\ <<v, x>> \in cast
    BY <2>1, <2>2, OverlapOne
  <2>4. Compatible(Item("Notarize", s, b), x)
    BY <2>3, VotesOfOne
  <2>5. x = ForSlot("SkipFallback", s)
    BY <1>0, <2>4 DEF Compatible, Item, ForSlot
  <2>6. SafeToSkip(s)
    BY <2>3, <2>5 DEF IInv, FallbacksAreSafe
  <2> QED
    BY <2>1, <2>6, FewAgainstFast
<1> QED
  BY <1>2, <1>3

\* Beside a finalized block, no other block of the slot has a certificate.
LEMMA FinalizedAlone ==
    ASSUME IInv, NEW s \in Slot, NEW b \in BlockId, NEW c \in BlockId,
           CanForm(Item("NotarizeFallback", s, c)),
           \/ CanForm(Item("FinalizeFast", s, b))
           \/ CanForm(Item("Notarize", s, b)) /\ CanForm(ForSlot("Finalize", s))
    PROVE  b = c
<1> DEFINE X == {Item("Notarize", s, c), Item("NotarizeFallback", s, c)}
<1>0. \A x \in X : x = Item("Notarize", s, c) \/ x = Item("NotarizeFallback", s, c)
  OBVIOUS
<1>1. AtLeast(Voters(X), 60)
  BY CertificateVotes
<1> HIDE DEF X
<1>2. CASE CanForm(Item("FinalizeFast", s, b))
  <2>1. AtLeast(Voters({Item("Notarize", s, b)}), 80)
    BY <1>2, CertificateVotes
  <2>2. AtLeast(Voters(X), 40)
    BY <1>1, AtLeastWeaken, VotersAreValidators
  <2>3. PICK v \in Correct, x \in X : /\ <<v, Item("Notarize", s, b)>> \in cast
                                      /\ <<v, x>> \in cast
    BY <2>1, <2>2, OverlapOne
  <2>4. CASE x = Item("Notarize", s, c)
    <3>1. Compatible(Item("Notarize", s, b), x)
      BY <2>3, VotesOfOne
    <3> QED
      BY <2>4, <3>1 DEF Compatible, Item
  <2>5. CASE x = Item("NotarizeFallback", s, c)
    <3>1. <<s, c>> \in Block /\ ForBlock("NotarizeFallback", <<s, c>>) = x
      BY <2>5 DEF Block, ForBlock
    <3>2. SafeToNotar(<<s, c>>)
      BY <2>3, <3>1 DEF IInv, FallbacksAreSafe
    <3> QED
      BY <2>1, <3>2, FewAgainstFast
  <2> QED
    BY <1>0, <2>4, <2>5
<1>3. CASE CanForm(Item("Notarize", s, b)) /\ CanForm(ForSlot("Finalize", s))
  <2>1. PICK v \in Correct, x \in X : /\ <<v, ForSlot("Finalize", s)>> \in cast
                                      /\ <<v, x>> \in cast
    BY <1>1, <1>3, CertificateVotes, OverlapOne
  <2>2. Compatible(ForSlot("Finalize", s), x)
    BY <2>1, VotesOfOne
  <2>3. x = Item("Notarize", s, c)
    BY <1>0, <2>2 DEF Compatible, Item, ForSlot
  <2>4. PICK id \in BlockId : /\ <<v, Item("Notarize", s, id)>> \in cast
                              /\ CanForm(Item("Notarize", s, id))
    BY <2>1 DEF IInv, FinalizersNotarized
  <2>5. Compatible(Item("Notarize", s, id), Item("Notarize", s, c))
    BY <2>1, <2>3, <2>4, VotesOfOne
  <2>6. id = c
    BY <2>5 DEF Compatible, Item
  <2> QED
    BY <1>3, <2>4, <2>6, CertificateVotes, OneNotarized
<1> QED
  BY <1>2, <1>3

\* The invariant suffices: the thresholds of certificate_limits_and_votes() and
\* of SlotStakeCounters exclude contradicting certificates.
LEMMA InvariantSuffices == IInv => CertificatesAreConsistent
<1> SUFFICES ASSUME IInv,
                    NEW c \in Certificates, NEW d \in Certificates, c.slot = d.slot
             PROVE  /\ c.type \in {"Notarize", "FinalizeFast"} /\ d.type \in {"Notarize", "FinalizeFast"}
                          => c.id = d.id
                    /\ c.type \in {"Finalize", "FinalizeFast"} => d.type # "Skip"
                    /\ Finalizes(Certificates, c.slot, c.id) /\ d.type = "NotarizeFallback"
                          => c.id = d.id
  BY DEF CertificatesAreConsistent, Consistent
<1> DEFINE s == c.slot
<1>1. c \in Certificate /\ d \in Certificate /\ CanForm(c) /\ CanForm(d)
  BY DEF Certificates
<1>2. s \in Slot /\ c = Item(c.type, s, c.id) /\ d = Item(d.type, s, d.id)
  BY <1>1, CertificateShape
<1>3. /\ c.type \in {"Notarize", "FinalizeFast"} => c.id \in BlockId
      /\ d.type = "NotarizeFallback" => d.id \in BlockId
      /\ d.type = "Skip" => d = ForSlot("Skip", s)
      /\ c.type = "Finalize" => c = ForSlot("Finalize", s)
  BY <1>1, <1>2, CertificateShape DEF ForSlot
<1>4. ASSUME c.type \in {"Notarize", "FinalizeFast"}, d.type \in {"Notarize", "FinalizeFast"}
      PROVE  c.id = d.id
  <2>1. ASSUME NEW e \in Certificate, CanForm(e), e = Item(e.type, s, e.id),
               e.type \in {"Notarize", "FinalizeFast"}
        PROVE  AtLeast(Voters({Item("Notarize", s, e.id)}), 60)
    <3>1. CASE e.type = "Notarize"
      BY <2>1, <3>1, CertificateVotes
    <3>2. CASE e.type = "FinalizeFast"
      <4>1. AtLeast(Voters({Item("Notarize", s, e.id)}), 80)
        BY <2>1, <3>2, CertificateVotes
      <4> QED
        BY <4>1, AtLeastWeaken, VotersAreValidators
    <3> QED
      BY <2>1, <3>1, <3>2
  <2> QED
    BY <1>1, <1>2, <1>4, <2>1, OneNotarized
<1>5. ASSUME c.type \in {"Finalize", "FinalizeFast"}, d.type = "Skip"
      PROVE  FALSE
  <2>1. CanForm(ForSlot("Skip", s))
    BY <1>1, <1>3, <1>5
  <2>2. CASE c.type = "Finalize"
    BY <1>1, <1>2, <1>3, <2>1, <2>2, FinalizedNotSkipped
  <2>3. CASE c.type = "FinalizeFast"
    <3>1. CanForm(Item("FinalizeFast", s, c.id)) /\ c.id \in BlockId
      BY <1>1, <1>2, <1>3, <2>3
    <3> QED
      BY <1>2, <2>1, <3>1, FinalizedNotSkipped
  <2> QED
    BY <1>5, <2>2, <2>3
<1>6. ASSUME Finalizes(Certificates, c.slot, c.id), d.type = "NotarizeFallback"
      PROVE  c.id = d.id
  <2>1. CanForm(Item("NotarizeFallback", s, d.id)) /\ d.id \in BlockId
    BY <1>1, <1>2, <1>3, <1>6
  <2>2. \/ Item("FinalizeFast", s, c.id) \in Certificates
        \/ Item("Notarize", s, c.id) \in Certificates /\ ForSlot("Finalize", s) \in Certificates
    BY <1>6 DEF Finalizes
  <2>3. \/ CanForm(Item("FinalizeFast", s, c.id))
        \/ CanForm(Item("Notarize", s, c.id)) /\ CanForm(ForSlot("Finalize", s))
    BY <2>2 DEF Certificates
  <2>4. \/ Item("FinalizeFast", s, c.id) \in Certificate
        \/ Item("Notarize", s, c.id) \in Certificate
    BY <2>2 DEF Certificates
  <2>5. c.id \in BlockId
    <3>1. ASSUME NEW t \in {"FinalizeFast", "Notarize"}, Item(t, s, c.id) \in Certificate
          PROVE  c.id \in BlockId
      <4> DEFINE e == Item(t, s, c.id)
      <4>1. e.type = t /\ e.id = c.id
        BY DEF Item
      <4>2. e \in Certificate
        BY <3>1
      <4> HIDE DEF e
      <4>3. e.type \in {"Notarize", "NotarizeFallback", "FinalizeFast", "Genesis"} => e.id \in BlockId
        BY <4>2, CertificateShape
      <4> QED
        BY <4>1, <4>3
    <3> QED
      BY <2>4, <3>1
  <2> QED
    BY <1>2, <2>1, <2>3, <2>5, FinalizedAlone
<1> QED
  BY <1>4, <1>5, <1>6
-----------------------------------------------------------------------------
(* The invariant is inductive.                                              *)

\* What a validator has not voted, read off its votes.
LEMMA NotVoted ==
    ASSUME NEW v, NEW s, NEW types, ~HasVoted(v, s, types),
           NEW x \in Vote, <<v, x>> \in cast, x.slot = s
    PROVE  x.type \notin types
<1>1. x = Item(x.type, s, x.id) /\ x.id \in BlockId \union {NoId}
  BY VoteShape
<1> QED
  BY <1>1 DEF HasVoted

\* The conditions of fallback and finalize votes stay true.
LEMMA ConditionsLast ==
    ASSUME cast \subseteq cast'
    PROVE  /\ \A b \in Block : SafeToNotar(b) => SafeToNotar(b)'
           /\ \A s \in Slot : SafeToSkip(s) => SafeToSkip(s)'
           /\ \A s \in Slot, id \in BlockId :
                 CanForm(Item("Notarize", s, id)) => CanForm(Item("Notarize", s, id))'
<1>1. ASSUME NEW b \in Block, SafeToNotar(b)
      PROVE  SafeToNotar(b)'
  <2> DEFINE notarize == {ForBlock("Notarize", b)}
             both == notarize \union {ForSlot("Skip", SlotOf(b))}
  <2>1. \/ AtLeast(Voters(notarize), 40)
        \/ AtLeast(Voters(notarize), 20) /\ AtLeast(Voters(both), 60)
    BY <1>1 DEF SafeToNotar
  <2> HIDE DEF notarize, both
  <2>2. \/ AtLeast(Voters(notarize), 40)'
        \/ AtLeast(Voters(notarize), 20)' /\ AtLeast(Voters(both), 60)'
    BY <2>1, VotersGrow DEF notarize, both
  <2> QED
    BY <2>2 DEF SafeToNotar, notarize, both
<1>2. ASSUME NEW s \in Slot, SafeToSkip(s)
      PROVE  SafeToSkip(s)'
  <2>1. ASSUME NEW id \in BlockId
        PROVE  AtLeast(Voters(NotarizeVotes(s, BlockId \ {id}) \union {ForSlot("Skip", s)}), 40)'
    BY <1>2, VotersGrow DEF SafeToSkip
  <2> QED
    BY <2>1 DEF SafeToSkip
<1>3. ASSUME NEW s \in Slot, NEW id \in BlockId, CanForm(Item("Notarize", s, id))
      PROVE  CanForm(Item("Notarize", s, id))'
  <2>1. CertificateLimit(Item("Notarize", s, id)) = 60
    BY DEF CertificateLimit, Item
  <2>2. AtLeast(Voters(VotesFor(Item("Notarize", s, id))), 60)
    BY <1>3, <2>1 DEF CanForm
  <2>3. AtLeast(Voters(VotesFor(Item("Notarize", s, id))), 60)'
    BY <2>2, VotersGrow
  <2> QED
    BY <2>1, <2>3 DEF CanForm
<1> QED
  BY <1>1, <1>2, <1>3

\* A vote that is compatible with the validator's earlier ones, and whose
\* condition holds if it is a fallback or finalize vote, keeps the invariant.
LEMMA VoteStep ==
    ASSUME IInv, NEW v \in Correct, NEW w \in Vote, CastVote(v, w), Compatible(w, w),
           \A x \in Vote : <<v, x>> \in cast => Compatible(w, x) /\ Compatible(x, w),
           \A b \in Block : w = ForBlock("NotarizeFallback", b) => SafeToNotar(b),
           \A s \in Slot : w = ForSlot("SkipFallback", s) => SafeToSkip(s),
           \A s \in Slot : w = ForSlot("Finalize", s) =>
              \E id \in BlockId : /\ <<v, Item("Notarize", s, id)>> \in cast
                                  /\ CanForm(Item("Notarize", s, id))
    PROVE  IInv'
<1>1. cast' = cast \union {<<v, w>>} /\ cast \subseteq cast'
  BY DEF CastVote
<1>2. TypeOK'
  BY <1>1 DEF IInv, TypeOK
<1>3. VotesAreCompatible'
  <2> SUFFICES ASSUME NEW u \in Correct, NEW x \in Vote, NEW y \in Vote,
                      <<u, x>> \in cast', <<u, y>> \in cast'
               PROVE  Compatible(x, y)
    BY DEF VotesAreCompatible
  <2>1. \/ <<u, x>> \in cast /\ <<u, y>> \in cast
        \/ u = v /\ x = w /\ y = w
        \/ u = v /\ x = w /\ <<v, y>> \in cast
        \/ u = v /\ y = w /\ <<v, x>> \in cast
    BY <1>1
  <2> QED
    BY <2>1 DEF IInv, VotesAreCompatible
<1>4. FallbacksAreSafe'
  <2>1. ASSUME NEW u \in Correct, NEW b \in Block, <<u, ForBlock("NotarizeFallback", b)>> \in cast'
        PROVE  SafeToNotar(b)'
    <3>1. SafeToNotar(b)
      BY <1>1, <2>1 DEF IInv, FallbacksAreSafe
    <3> QED
      BY <1>1, <3>1, ConditionsLast
  <2>2. ASSUME NEW u \in Correct, NEW s \in Slot, <<u, ForSlot("SkipFallback", s)>> \in cast'
        PROVE  SafeToSkip(s)'
    <3>1. SafeToSkip(s)
      BY <1>1, <2>2 DEF IInv, FallbacksAreSafe
    <3> QED
      BY <1>1, <3>1, ConditionsLast
  <2> QED
    BY <2>1, <2>2 DEF FallbacksAreSafe
<1>5. FinalizersNotarized'
  <2> SUFFICES ASSUME NEW u \in Correct, NEW s \in Slot, <<u, ForSlot("Finalize", s)>> \in cast'
               PROVE  \E id \in BlockId : /\ <<u, Item("Notarize", s, id)>> \in cast'
                                          /\ CanForm(Item("Notarize", s, id))'
    BY DEF FinalizersNotarized
  <2>1. PICK id \in BlockId : /\ <<u, Item("Notarize", s, id)>> \in cast
                              /\ CanForm(Item("Notarize", s, id))
    BY <1>1 DEF IInv, FinalizersNotarized
  <2> QED
    BY <1>1, <2>1, ConditionsLast
<1> QED
  BY <1>2, <1>3, <1>4, <1>5 DEF IInv

\* Every vote a correct validator casts preserves the inductive invariant.
LEMMA NextPreserves == IInv /\ [Next]_cast => IInv'
<1> SUFFICES ASSUME IInv, [Next]_cast
             PROVE  IInv'
  OBVIOUS
<1>1. ASSUME NEW v \in Correct, NEW b \in Block, Notarize(v, b)
      PROVE  IInv'
  <2> DEFINE w == ForBlock("Notarize", b)
  <2>1. SlotOf(b) \in Slot /\ w.type = "Notarize" /\ w.slot = SlotOf(b) /\ w \in Vote
    BY VoteTypes DEF Block, SlotOf, ForBlock, Item
  <2>2. CastVote(v, w) /\ ~HasVoted(v, SlotOf(b), {"Notarize", "Skip"})
    BY <1>1 DEF Notarize
  <2> HIDE DEF w
  <2>3. \A x \in Vote : <<v, x>> \in cast /\ x.slot = SlotOf(b) => x.type \notin {"Notarize", "Skip"}
    BY <2>2, NotVoted
  <2>4. \A x \in Vote : <<v, x>> \in cast => Compatible(w, x) /\ Compatible(x, w)
    BY <2>1, <2>3 DEF Compatible
  <2>5. /\ Compatible(w, w)
        /\ \A c \in Block : w # ForBlock("NotarizeFallback", c)
        /\ \A s \in Slot : w # ForSlot("SkipFallback", s) /\ w # ForSlot("Finalize", s)
    BY <2>1 DEF Compatible, ForBlock, ForSlot, Item
  <2> QED
    BY <2>1, <2>2, <2>4, <2>5, VoteStep
<1>2. ASSUME NEW v \in Correct, NEW s \in Slot, Skip(v, s)
      PROVE  IInv'
  <2> DEFINE w == ForSlot("Skip", s)
  <2>1. w.type = "Skip" /\ w.slot = s /\ w \in Vote
    BY VoteTypes DEF ForSlot, Item
  <2>2. CastVote(v, w) /\ ~HasVoted(v, s, {"Notarize", "Skip"})
    BY <1>2 DEF Skip
  <2> HIDE DEF w
  <2>3. \A x \in Vote : <<v, x>> \in cast /\ x.slot = s => x.type \notin {"Notarize", "Skip"}
    BY <2>2, NotVoted
  <2>4. ASSUME NEW x \in Vote, <<v, x>> \in cast, x.slot = s
        PROVE  x.type # "Finalize"
    <3> SUFFICES ASSUME x.type = "Finalize" PROVE FALSE
      OBVIOUS
    <3>1. x = ForSlot("Finalize", s)
      BY <2>4 DEF Vote, BlockItems, SlotItems, ForSlot, Item
    <3>2. PICK id \in BlockId : <<v, Item("Notarize", s, id)>> \in cast
      BY <2>4, <3>1 DEF IInv, FinalizersNotarized
    <3> QED
      BY <2>2, <3>2 DEF HasVoted
  <2>5. \A x \in Vote : <<v, x>> \in cast => Compatible(w, x) /\ Compatible(x, w)
    BY <2>1, <2>3, <2>4 DEF Compatible
  <2>6. /\ Compatible(w, w)
        /\ \A c \in Block : w # ForBlock("NotarizeFallback", c)
        /\ \A t \in Slot : w # ForSlot("SkipFallback", t) /\ w # ForSlot("Finalize", t)
    BY <2>1 DEF Compatible, ForBlock, ForSlot, Item
  <2> QED
    BY <2>1, <2>2, <2>5, <2>6, VoteStep
<1>3. ASSUME NEW v \in Correct, NEW b \in Block, NotarizeFallback(v, b)
      PROVE  IInv'
  <2> DEFINE w == ForBlock("NotarizeFallback", b)
  <2>1. SlotOf(b) \in Slot /\ w.type = "NotarizeFallback" /\ w.slot = SlotOf(b) /\ w \in Vote
    BY VoteTypes DEF Block, SlotOf, ForBlock, Item
  <2>2. CastVote(v, w) /\ ~HasVoted(v, SlotOf(b), {"Finalize"}) /\ SafeToNotar(b)
    BY <1>3 DEF NotarizeFallback
  <2>3. \A c \in Block : w = ForBlock("NotarizeFallback", c) => c = b
    BY DEF ForBlock, Item, Block
  <2> HIDE DEF w
  <2>4. \A x \in Vote : <<v, x>> \in cast /\ x.slot = SlotOf(b) => x.type \notin {"Finalize"}
    BY <2>2, NotVoted
  <2>5. \A x \in Vote : <<v, x>> \in cast => Compatible(w, x) /\ Compatible(x, w)
    BY <2>1, <2>4 DEF Compatible
  <2>6. /\ Compatible(w, w)
        /\ \A s \in Slot : w # ForSlot("SkipFallback", s) /\ w # ForSlot("Finalize", s)
    BY <2>1 DEF Compatible, ForSlot, Item
  <2> QED
    BY <2>1, <2>2, <2>3, <2>5, <2>6, VoteStep
<1>4. ASSUME NEW v \in Correct, NEW s \in Slot, SkipFallback(v, s)
      PROVE  IInv'
  <2> DEFINE w == ForSlot("SkipFallback", s)
  <2>1. w.type = "SkipFallback" /\ w.slot = s /\ w \in Vote
    BY VoteTypes DEF ForSlot, Item
  <2>2. CastVote(v, w) /\ ~HasVoted(v, s, {"Finalize"}) /\ SafeToSkip(s)
    BY <1>4 DEF SkipFallback
  <2>3. \A t \in Slot : w = ForSlot("SkipFallback", t) => t = s
    BY DEF ForSlot, Item
  <2> HIDE DEF w
  <2>4. \A x \in Vote : <<v, x>> \in cast /\ x.slot = s => x.type \notin {"Finalize"}
    BY <2>2, NotVoted
  <2>5. \A x \in Vote : <<v, x>> \in cast => Compatible(w, x) /\ Compatible(x, w)
    BY <2>1, <2>4 DEF Compatible
  <2>6. /\ Compatible(w, w)
        /\ \A c \in Block : w # ForBlock("NotarizeFallback", c)
        /\ \A t \in Slot : w # ForSlot("Finalize", t)
    BY <2>1 DEF Compatible, ForBlock, ForSlot, Item
  <2> QED
    BY <2>1, <2>2, <2>3, <2>5, <2>6, VoteStep
<1>5. ASSUME NEW v \in Correct, NEW b \in Block, Finalize(v, b)
      PROVE  IInv'
  <2> DEFINE s == SlotOf(b)
             w == ForSlot("Finalize", s)
  <2>1. s \in Slot /\ b[2] \in BlockId /\ w.type = "Finalize" /\ w.slot = s /\ w \in Vote
    BY VoteTypes DEF Block, SlotOf, ForSlot, Item
  <2>2. /\ CastVote(v, w) /\ ~HasVoted(v, s, {"Skip", "SkipFallback", "NotarizeFallback"})
        /\ <<v, Item("Notarize", s, b[2])>> \in cast /\ CanForm(Item("Notarize", s, b[2]))
    BY <1>5 DEF Finalize, ForBlock, SlotOf
  <2>3. \A t \in Slot : w = ForSlot("Finalize", t) => t = s
    BY DEF ForSlot, Item
  <2> HIDE DEF w, s
  <2>4. \A x \in Vote : <<v, x>> \in cast /\ x.slot = s
                           => x.type \notin {"Skip", "SkipFallback", "NotarizeFallback"}
    BY <2>2, NotVoted
  <2>5. \A x \in Vote : <<v, x>> \in cast => Compatible(w, x) /\ Compatible(x, w)
    BY <2>1, <2>4 DEF Compatible
  <2>6. /\ Compatible(w, w)
        /\ \A c \in Block : w # ForBlock("NotarizeFallback", c)
        /\ \A t \in Slot : w # ForSlot("SkipFallback", t)
    BY <2>1 DEF Compatible, ForBlock, ForSlot, Item
  <2>7. \A t \in Slot : w = ForSlot("Finalize", t) =>
           \E id \in BlockId : /\ <<v, Item("Notarize", t, id)>> \in cast
                               /\ CanForm(Item("Notarize", t, id))
    BY <2>1, <2>2, <2>3
  <2> QED
    BY <2>1, <2>2, <2>5, <2>6, <2>7, VoteStep
<1>6. CASE UNCHANGED cast
  <2>1. cast' = cast
    BY <1>6
  <2>2. TypeOK' /\ VotesAreCompatible'
    BY <2>1 DEF IInv, TypeOK, VotesAreCompatible
  <2>3. FallbacksAreSafe'
    BY <2>1, ConditionsLast DEF IInv, FallbacksAreSafe
  <2>4. FinalizersNotarized'
    BY <2>1, ConditionsLast DEF IInv, FinalizersNotarized
  <2> QED
    BY <2>2, <2>3, <2>4 DEF IInv
<1> QED
  BY <1>1, <1>2, <1>3, <1>4, <1>5, <1>6 DEF Next

\* The inductive invariant holds before anyone has voted.
LEMMA InitEstablishes == Init => IInv
BY DEF Init, IInv, TypeOK, VotesAreCompatible, FallbacksAreSafe, FinalizersNotarized

\* Every correct validator's votes stay compatible, and the conditions of its
\* fallback and finalize votes stay true.
THEOREM Invariance == Spec => []IInv
<1>1. Init => IInv
  BY InitEstablishes
<1>2. IInv /\ [Next]_cast => IInv'
  BY NextPreserves
<1> QED
  BY <1>1, <1>2, PTL DEF Spec

\* No two certificates of a slot ever contradict each other: a finalized block
\* is the only block of its slot with a certificate, and its slot is not skipped.
THEOREM CertificatesConsistent == Spec => []CertificatesAreConsistent
<1>1. Spec => []IInv
  BY Invariance
<1>2. IInv => CertificatesAreConsistent
  BY InvariantSuffices
<1> QED
  BY <1>1, <1>2, PTL
=============================================================================
