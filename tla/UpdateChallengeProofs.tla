----------------------- MODULE UpdateChallengeProofs -----------------------
(***************************************************************************)
(* Proofs about UpdateChallenge, for any number of accounts, proposals and  *)
(* blocks and any lengths of the phases.                                    *)
(*                                                                          *)
(* The invariant adds to the properties what a proposal's phase implies     *)
(* (PhaseInv): deadlines are ordered, a decided proposal is past its reveal *)
(* phase, and its verdict is the verdict of its final counts.               *)
(*                                                                          *)
(* The contract's balance is a sum over all proposals of what is left of    *)
(* their stakes, which are sums over all accounts (Funds).                  *)
(***************************************************************************)
EXTENDS UpdateChallenge, FiniteSetTheorems, WellFoundedInduction, TLAPS

Phase(id) ==
    /\ p(id).commit_deadline < p(id).reveal_deadline
    /\ ~p(id).resolved => ~p(id).approved
    /\ p(id).approved => p(id).approve_count > p(id).reject_count
    /\ p(id).resolved => p(id).escrow_unlock_block >= p(id).reveal_deadline + 1 + ESCROW_LOCK

PhaseInv == \A id \in DOMAIN proposals : Phase(id)

\* CurrentIsApproved's second half; the first follows from the tally.
CurrentInv ==
    current_value_x # None =>
       \E id \in DOMAIN proposals : p(id).approved /\ p(id).new_value_x = current_value_x

\* A payee is the proposer or a rejecter, and got one share.
PayInv ==
    \A id \in DOMAIN proposals, a \in Accounts : paid[<<a, id>>] > 0 =>
       /\ paid[<<a, id>>] = Share(id)
       /\ IF p(id).approved \/ p(id).reject_count = 0
          THEN a = p(id).proposer ELSE reveals[<<a, id>>] = 2

IInv ==
    /\ TypeOK /\ PhaseInv /\ CurrentInv /\ PayInv
    /\ TallyMatchesVotes /\ VotesHidden /\ EscrowHeld

-----------------------------------------------------------------------------
\* The sets of voters are finite.
LEMMA VotesFinite ==
  ASSUME NEW id, NEW vote
  PROVE  IsFiniteSet(Votes(id, vote)) /\ Cardinality(Votes(id, vote)) \in Nat
<1>1. Votes(id, vote) \subseteq Accounts
  BY DEF Votes
<1> QED BY <1>1, ChallengeAssumption, FS_Subset, FS_CardinalityType

\* Fields of a stored proposal have their types.
LEMMA Fields ==
  ASSUME TypeOK, NEW id \in DOMAIN proposals
  PROVE  /\ p(id) \in Proposals /\ id \in Ids
         /\ p(id).commit_deadline \in Nat /\ p(id).reveal_deadline \in Nat
         /\ p(id).approve_count \in Nat /\ p(id).reject_count \in Nat
         /\ p(id).escrow_unlock_block \in Nat /\ p(id).stake \in Nat
         /\ p(id).resolved \in BOOLEAN /\ p(id).approved \in BOOLEAN
         /\ p(id).new_value_x \in Values
<1>1. p(id) \in Proposals /\ id \in Ids
  BY DEF TypeOK, p
<1> QED BY <1>1 DEF Proposals

LEMMA InitInv == Init => IInv
<1> SUFFICES ASSUME Init PROVE IInv
  OBVIOUS
<1>1. DOMAIN proposals = {}
  BY DEF Init
<1>2. TypeOK
  <2>1. proposals \in [DOMAIN proposals -> Proposals]
    BY <1>1 DEF Init
  <2>2. /\ reveals \in [Slots -> 0 .. 2] /\ claimed \in [Slots -> BOOLEAN]
        /\ paid \in [Slots -> Nat] /\ DOMAIN commitments = Slots
    BY DEF Init
  <2>3. \A v \in Accounts, id \in Ids :
           /\ commitments[<<v, id>>] = None /\ reveals[<<v, id>>] = 0
           /\ ~claimed[<<v, id>>] /\ paid[<<v, id>>] = 0
    BY DEF Init, Slots
  <2>4. block \in 1 .. MaxBlock /\ balance \in Int /\ current_value_x = None
    BY ChallengeAssumption DEF Init
  <2> QED BY <1>1, <2>1, <2>2, <2>3, <2>4 DEF TypeOK
<1> QED BY <1>1, <1>2 DEF Init, IInv, PhaseInv, CurrentInv, PayInv, TallyMatchesVotes, VotesHidden,
              EscrowHeld, Slots

LEMMA ProposeStep ==
  ASSUME IInv, NEW a \in Accounts, NEW value \in Values, NEW stake \in Stakes,
         propose(a, value, stake)
  PROVE  IInv'
<1> USE DEF IInv
<1> DEFINE id == <<value, block>>
<1>1. /\ ~Exists(id) /\ balance' = balance + stake
      /\ UNCHANGED <<block, commitments, reveals, claimed, current_value_x, paid>>
      /\ DOMAIN proposals' = DOMAIN proposals \cup {id}
      /\ \A i \in DOMAIN proposals : proposals'[i] = proposals[i]
      /\ proposals'[id] =
             [proposer |-> a, new_value_x |-> value, stake |-> stake,
              commit_deadline |-> block + COMMIT_PERIOD,
              reveal_deadline |-> block + COMMIT_PERIOD + REVEAL_PERIOD,
              resolved |-> FALSE, approved |-> FALSE,
              approve_count |-> 0, reject_count |-> 0, escrow_unlock_block |-> 0]
      /\ proposals' = [i \in DOMAIN proposals' |-> proposals'[i]]
  BY DEF propose, Exists
<1>2. id \in Ids /\ stake \in Nat /\ block \in Nat
  BY ChallengeAssumption DEF Ids, TypeOK
<1>3. proposals'[id] \in Proposals
  BY <1>1, <1>2, ChallengeAssumption DEF Proposals
<1>4. \A v \in Accounts : commitments[<<v, id>>] = None /\ reveals[<<v, id>>] = 0 /\ paid[<<v, id>>] = 0
  BY <1>1, <1>2 DEF TypeOK, Exists
<1>5. TypeOK'
  <2>1. proposals' \in [DOMAIN proposals' -> Proposals]
    BY <1>1, <1>3 DEF TypeOK
  <2> QED BY <1>1, <1>2, <2>1 DEF TypeOK
<1>6. PhaseInv'
  <2>1. ASSUME NEW i \in DOMAIN proposals PROVE Phase(i)'
    BY <1>1 DEF PhaseInv, Phase, p
  <2>2. Phase(id)'
    BY <1>1, <1>2, ChallengeAssumption DEF Phase, p
  <2> QED BY <1>1, <2>1, <2>2 DEF PhaseInv
<1>7. CurrentInv'
  BY <1>1 DEF CurrentInv, p
<1>8. TallyMatchesVotes'
  <2>1. Votes(id, 1)' = {} /\ Votes(id, 2)' = {}
    BY <1>1, <1>4 DEF Votes
  <2>2. Cardinality({}) = 0
    BY FS_EmptySet
  <2>3. \A i, vote : Votes(i, vote)' = Votes(i, vote)
    BY <1>1 DEF Votes
  <2>4. proposals'[id].approve_count = 0 /\ proposals'[id].reject_count = 0
    BY <1>1
  <2>5. \A v \in Accounts : reveals'[<<v, id>>] = 0
    BY <1>1, <1>4
  <2> HIDE DEF id
  <2>6. ASSUME NEW i \in DOMAIN proposals'
        PROVE  /\ p(i)'.approve_count = Cardinality(Votes(i, 1)')
               /\ p(i)'.reject_count = Cardinality(Votes(i, 2)')
               /\ \A v \in Accounts : reveals'[<<v, i>>] # 0 =>
                     \E s \in Salts :
                        commitments'[<<v, i>>] = Keccak(reveals'[<<v, i>>] = 1, s)
    <3>1. CASE i \in DOMAIN proposals
      BY <3>1, <1>1, <2>3 DEF TallyMatchesVotes, p
    <3>2. CASE i = id
      <4>1. Votes(i, 1)' = {} /\ Votes(i, 2)' = {}
        BY <3>2, <2>5 DEF Votes
      <4>2. p(i)'.approve_count = 0 /\ p(i)'.reject_count = 0
        BY <3>2, <2>4 DEF p
      <4> QED BY <3>2, <2>2, <2>5, <4>1, <4>2
    <3> QED BY <3>1, <3>2, <1>1
  <2> QED BY <2>6 DEF TallyMatchesVotes
<1>9. VotesHidden'
  <2>1. ASSUME NEW i \in DOMAIN proposals'
        PROVE  /\ (\E v \in Accounts : reveals'[<<v, i>>] # 0)
                     => block' > proposals'[i].commit_deadline
               /\ proposals'[i].resolved => block' > proposals'[i].reveal_deadline
    <3>1. CASE i \in DOMAIN proposals
      BY <3>1, <1>1 DEF VotesHidden, p
    <3>2. CASE i = id
      <4>1. ~proposals'[id].resolved
        BY <1>1
      <4>2. \A v \in Accounts : reveals'[<<v, id>>] = 0
        BY <1>1, <1>4
      <4> HIDE DEF id
      <4> QED BY <3>2, <4>1, <4>2
    <3> QED BY <3>1, <3>2, <1>1
  <2> QED BY <2>1 DEF VotesHidden, p
<1>10. EscrowHeld'
  BY <1>1, <1>4 DEF EscrowHeld, p, Exists
<1>11. PayInv'
  <2>1. \A v \in Accounts : ~(paid'[<<v, id>>] > 0)
    BY <1>1, <1>4
  <2>2. \A i \in DOMAIN proposals : p(i)' = p(i) /\ Share(i)' = Share(i)
    BY <1>1 DEF Share, p
  <2> HIDE DEF id
  <2> QED BY <1>1, <2>1, <2>2 DEF PayInv
<1> QED BY <1>5, <1>6, <1>7, <1>8, <1>9, <1>10, <1>11
\* A commitment is made only before anybody has revealed.
LEMMA CommitStep ==
  ASSUME IInv, NEW v \in Accounts, NEW id \in Ids, NEW c, commit_vote(v, id, c)
  PROVE  IInv'
<1> USE DEF IInv
<1>1. /\ id \in DOMAIN proposals /\ block <= p(id).commit_deadline
      /\ commitments' = [commitments EXCEPT ![<<v, id>>] = c]
      /\ UNCHANGED <<block, proposals, reveals, claimed, current_value_x, balance, paid>>
  BY DEF commit_vote, Exists
<1>2. <<v, id>> \in Slots /\ DOMAIN commitments = Slots
  BY DEF Slots, TypeOK
<1>3. /\ DOMAIN commitments' = Slots
      /\ \A w \in Accounts, i \in Ids :
            i # id \/ w # v => commitments'[<<w, i>>] = commitments[<<w, i>>]
  BY <1>1, <1>2 DEF Slots
<1>4. reveals[<<v, id>>] = 0
  <2>1. block \in Int /\ p(id).commit_deadline \in Int
    BY <1>1, Fields DEF TypeOK
  <2> QED BY <1>1, <2>1 DEF VotesHidden
<1>5. TypeOK'
  BY <1>1, <1>3 DEF TypeOK
<1>6. PhaseInv' /\ CurrentInv' /\ VotesHidden' /\ EscrowHeld' /\ PayInv'
  BY <1>1 DEF PhaseInv, Phase, CurrentInv, VotesHidden, EscrowHeld, PayInv, Share, p, Exists
<1>7. TallyMatchesVotes'
  <2>1. \A i, vote : Votes(i, vote)' = Votes(i, vote)
    BY <1>1 DEF Votes
  <2>2. ASSUME NEW i \in DOMAIN proposals, NEW w \in Accounts, reveals[<<w, i>>] # 0
        PROVE  commitments'[<<w, i>>] = commitments[<<w, i>>] /\ i \in Ids
    BY <2>2, <1>3, <1>4 DEF TypeOK
  <2> QED BY <1>1, <2>1, <2>2 DEF TallyMatchesVotes, p
<1> QED BY <1>5, <1>6, <1>7

\* What a reveal does to the revealed proposal and to the voters' sets.
LEMMA RevealStep ==
  ASSUME IInv, NEW v \in Accounts, NEW id \in Ids, NEW approved \in BOOLEAN,
         NEW salt \in Salts, reveal_vote(v, id, approved, salt)
  PROVE  IInv'
<1> USE DEF IInv
<1> DEFINE vote == IF approved THEN 1 ELSE 2
           q == [p(id) EXCEPT
                   !.approve_count = IF approved THEN @ + 1 ELSE @,
                   !.reject_count = IF approved THEN @ ELSE @ + 1]
<1>1. /\ id \in DOMAIN proposals
      /\ block > p(id).commit_deadline /\ block <= p(id).reveal_deadline
      /\ reveals[<<v, id>>] = 0 /\ commitments[<<v, id>>] = Keccak(approved, salt)
      /\ reveals' = [reveals EXCEPT ![<<v, id>>] = vote]
      /\ UNCHANGED <<block, commitments, claimed, current_value_x, balance, paid>>
  BY DEF reveal_vote, Exists
<1>2. proposals' = [proposals EXCEPT ![id] = q]
  BY DEF reveal_vote, p
<1>3. /\ p(id) \in Proposals /\ p(id).approve_count \in Nat /\ p(id).reject_count \in Nat
      /\ p(id).commit_deadline \in Nat /\ p(id).reveal_deadline \in Nat /\ block \in Nat
      /\ p(id).resolved \in BOOLEAN /\ p(id).approved \in BOOLEAN
  BY <1>1, Fields DEF TypeOK
<1>4. ~p(id).resolved /\ ~p(id).approved
  BY <1>1, <1>3 DEF VotesHidden, PhaseInv, Phase
<1>5. /\ q \in Proposals
      /\ q.approve_count = (IF approved THEN p(id).approve_count + 1 ELSE p(id).approve_count)
      /\ q.reject_count = (IF approved THEN p(id).reject_count ELSE p(id).reject_count + 1)
      /\ q.commit_deadline = p(id).commit_deadline /\ q.reveal_deadline = p(id).reveal_deadline
      /\ q.resolved = p(id).resolved /\ q.approved = p(id).approved
      /\ q.new_value_x = p(id).new_value_x
  <2>1. CASE approved
    <3>1. q = [p(id) EXCEPT !.approve_count = @ + 1]
      BY <2>1, <1>3 DEF Proposals
    <3> QED BY <2>1, <3>1, <1>3 DEF Proposals
  <2>2. CASE ~approved
    <3>1. q = [p(id) EXCEPT !.reject_count = @ + 1]
      BY <2>2, <1>3 DEF Proposals
    <3> QED BY <2>2, <3>1, <1>3 DEF Proposals
  <2> QED BY <2>1, <2>2
<1> HIDE DEF q
<1>6. /\ DOMAIN proposals' = DOMAIN proposals /\ proposals'[id] = q
      /\ \A i \in DOMAIN proposals : i # id => proposals'[i] = proposals[i]
      /\ proposals' \in [DOMAIN proposals' -> Proposals]
  BY <1>1, <1>2, <1>5 DEF TypeOK
<1>7. /\ reveals' \in [Slots -> 0 .. 2] /\ reveals'[<<v, id>>] = vote
      /\ \A w \in Accounts, i \in Ids :
            i # id \/ w # v => reveals'[<<w, i>>] = reveals[<<w, i>>]
  <2>1. <<v, id>> \in Slots /\ vote \in 0 .. 2
    BY DEF Slots
  <2> HIDE DEF vote
  <2> QED BY <1>1, <2>1 DEF TypeOK, Slots
<1>8. TypeOK'
  <2>1. \A w \in Accounts, i \in Ids \ DOMAIN proposals : reveals'[<<w, i>>] = 0
    <3>1. TAKE w \in Accounts, i \in Ids \ DOMAIN proposals
    <3>2. i # id /\ i \in Ids
      BY <1>1
    <3>3. reveals[<<w, i>>] = 0
      BY DEF TypeOK
    <3> QED BY <3>2, <3>3, <1>7
  <2> QED BY <1>1, <1>6, <1>7, <2>1 DEF TypeOK
<1>9. PhaseInv'
  <2>1. ASSUME NEW i \in DOMAIN proposals, i # id PROVE Phase(i)'
    BY <2>1, <1>6 DEF PhaseInv, Phase, p
  <2>2. Phase(id)'
    BY <1>1, <1>4, <1>5, <1>6 DEF PhaseInv, Phase, p
  <2> QED BY <1>6, <2>1, <2>2 DEF PhaseInv
<1>10. CurrentInv'
  <2>1. \A i \in DOMAIN proposals : /\ p(i)'.approved = p(i).approved
                                    /\ p(i)'.new_value_x = p(i).new_value_x
    BY <1>5, <1>6 DEF p
  <2> QED BY <1>1, <1>6, <2>1 DEF CurrentInv
<1>11. TallyMatchesVotes'
  <2>1. ASSUME NEW i \in DOMAIN proposals, i # id
        PROVE  /\ p(i)' = p(i) /\ Votes(i, 1)' = Votes(i, 1) /\ Votes(i, 2)' = Votes(i, 2)
               /\ \A w \in Accounts : reveals'[<<w, i>>] = reveals[<<w, i>>]
    <3>1. i \in Ids
      BY DEF TypeOK
    <3> QED BY <2>1, <3>1, <1>6, <1>7 DEF Votes, p
  <2>2. /\ v \notin Votes(id, 1) /\ v \notin Votes(id, 2)
        /\ Votes(id, 1)' = IF approved THEN Votes(id, 1) \cup {v} ELSE Votes(id, 1)
        /\ Votes(id, 2)' = IF approved THEN Votes(id, 2) ELSE Votes(id, 2) \cup {v}
    BY <1>1, <1>7 DEF Votes
  <2>3. /\ Cardinality(Votes(id, 1) \cup {v}) = Cardinality(Votes(id, 1)) + 1
        /\ Cardinality(Votes(id, 2) \cup {v}) = Cardinality(Votes(id, 2)) + 1
    BY <2>2, VotesFinite, FS_AddElement
  <2>4. /\ p(id)'.approve_count = Cardinality(Votes(id, 1)')
        /\ p(id)'.reject_count = Cardinality(Votes(id, 2)')
    BY <1>1, <1>5, <1>6, <2>2, <2>3 DEF TallyMatchesVotes, p
  <2>5. ASSUME NEW w \in Accounts, reveals'[<<w, id>>] # 0
        PROVE  \E s \in Salts : commitments'[<<w, id>>] = Keccak(reveals'[<<w, id>>] = 1, s)
    <3>1. CASE w = v
      <4>1. (vote = 1) = approved
        OBVIOUS
      <4>2. (reveals'[<<w, id>>] = 1) = approved
        BY <3>1, <1>7, <4>1
      <4> QED BY <3>1, <1>1, <4>2 DEF Keccak
    <3>2. CASE w # v
      BY <3>2, <2>5, <1>1, <1>7 DEF TallyMatchesVotes
    <3> QED BY <3>1, <3>2
  <2>6. ASSUME NEW i \in DOMAIN proposals, i # id
        PROVE  /\ p(i)'.approve_count = Cardinality(Votes(i, 1)')
               /\ p(i)'.reject_count = Cardinality(Votes(i, 2)')
               /\ \A w \in Accounts : reveals'[<<w, i>>] # 0 =>
                     \E s \in Salts :
                        commitments'[<<w, i>>] = Keccak(reveals'[<<w, i>>] = 1, s)
    BY <2>1, <2>6, <1>1 DEF TallyMatchesVotes
  <2> QED BY <1>6, <2>4, <2>5, <2>6 DEF TallyMatchesVotes
<1>12. VotesHidden'
  <2>1. ASSUME NEW i \in DOMAIN proposals, i # id
        PROVE  \A w \in Accounts : reveals'[<<w, i>>] = reveals[<<w, i>>]
    BY <2>1, <1>7 DEF TypeOK
  <2> QED BY <1>1, <1>4, <1>5, <1>6, <2>1 DEF VotesHidden, p
<1>13. EscrowHeld'
  BY <1>1, <1>4, <1>6 DEF EscrowHeld, Exists, p
<1>14. PayInv'
  <2>1. \A a \in Accounts : ~(paid[<<a, id>>] > 0)
    BY <1>4 DEF EscrowHeld
  <2>2. \A i \in DOMAIN proposals : i # id => p(i)' = p(i) /\ Share(i)' = Share(i)
    BY <1>6 DEF Share, p
  <2>3. \A i \in DOMAIN proposals, a \in Accounts :
           i # id => reveals'[<<a, i>>] = reveals[<<a, i>>]
    BY <1>7 DEF TypeOK
  <2> QED BY <1>1, <1>6, <2>1, <2>2, <2>3 DEF PayInv
<1> QED BY <1>8, <1>9, <1>10, <1>11, <1>12, <1>13, <1>14
\* Resolution closes the proposal with the verdict of its final counts.
LEMMA ResolveStep ==
  ASSUME IInv, NEW id \in Ids, resolve(id)
  PROVE  IInv'
<1> USE DEF IInv
<1> DEFINE q == [p(id) EXCEPT !.resolved = TRUE, !.approved = Approved(id),
                              !.escrow_unlock_block = block + ESCROW_LOCK]
<1>1. /\ id \in DOMAIN proposals /\ block > p(id).reveal_deadline /\ ~p(id).resolved
      /\ current_value_x' = IF Approved(id) THEN p(id).new_value_x ELSE current_value_x
      /\ UNCHANGED <<block, commitments, reveals, claimed, balance, paid>>
      /\ proposals' = [proposals EXCEPT ![id] = q]
  BY DEF resolve, Exists, p
<1>2. /\ p(id) \in Proposals /\ block \in Nat /\ block + ESCROW_LOCK \in Nat
      /\ p(id).reveal_deadline \in Nat /\ ESCROW_LOCK \in Nat /\ p(id).new_value_x \in Values
  BY <1>1, Fields, ChallengeAssumption DEF TypeOK
<1>3. /\ q \in Proposals /\ q.resolved /\ q.approved = Approved(id)
      /\ q.escrow_unlock_block = block + ESCROW_LOCK
      /\ q.approve_count = p(id).approve_count /\ q.reject_count = p(id).reject_count
      /\ q.commit_deadline = p(id).commit_deadline /\ q.reveal_deadline = p(id).reveal_deadline
      /\ q.new_value_x = p(id).new_value_x
  <2>1. Approved(id) \in BOOLEAN
    BY DEF Approved
  <2> HIDE DEF Approved
  <2> QED BY <1>2, <2>1 DEF Proposals
<1> HIDE DEF q
<1>4. /\ DOMAIN proposals' = DOMAIN proposals /\ proposals'[id] = q
      /\ \A i \in DOMAIN proposals : i # id => proposals'[i] = proposals[i]
      /\ proposals' \in [DOMAIN proposals' -> Proposals]
  BY <1>1, <1>3 DEF TypeOK
<1>5. TypeOK'
  BY <1>1, <1>2, <1>4 DEF TypeOK
<1>6. PhaseInv'
  <2>1. ASSUME NEW i \in DOMAIN proposals, i # id PROVE Phase(i)'
    BY <2>1, <1>4 DEF PhaseInv, Phase, p
  <2>2. Phase(id)'
    <3>1. p(id)' = q
      BY <1>4 DEF p
    <3>2. q.commit_deadline < q.reveal_deadline
      BY <1>1, <1>3 DEF PhaseInv, Phase
    <3>3. q.approved => q.approve_count > q.reject_count
      BY <1>3 DEF Approved
    <3>4. q.escrow_unlock_block >= q.reveal_deadline + 1 + ESCROW_LOCK
      BY <1>1, <1>2, <1>3
    <3> QED BY <3>1, <3>2, <3>3, <3>4, <1>3 DEF Phase
  <2> QED BY <1>4, <2>1, <2>2 DEF PhaseInv
<1>7. CurrentInv'
  <2>1. CASE Approved(id)
    BY <2>1, <1>1, <1>3, <1>4 DEF CurrentInv, p
  <2>2. CASE ~Approved(id)
    <3>1. current_value_x' = current_value_x
      BY <2>2, <1>1
    <3>2. ~p(id).approved
      BY <1>1 DEF PhaseInv, Phase
    <3> QED BY <3>1, <3>2, <1>4 DEF CurrentInv, p
  <2> QED BY <2>1, <2>2
<1>8. TallyMatchesVotes'
  <2>1. \A i, vote : Votes(i, vote)' = Votes(i, vote)
    BY <1>1 DEF Votes
  <2>2. \A i \in DOMAIN proposals : /\ p(i)'.approve_count = p(i).approve_count
                                    /\ p(i)'.reject_count = p(i).reject_count
    BY <1>3, <1>4 DEF p
  <2> QED BY <1>1, <1>4, <2>1, <2>2 DEF TallyMatchesVotes
<1>9. VotesHidden'
  BY <1>1, <1>3, <1>4 DEF VotesHidden, p
<1>10. EscrowHeld' /\ PayInv'
  <2>1. \A a \in Accounts : ~(paid[<<a, id>>] > 0)
    BY <1>1 DEF EscrowHeld
  <2>2. \A i \in DOMAIN proposals : i # id => p(i)' = p(i) /\ Share(i)' = Share(i)
    BY <1>4 DEF Share, p
  <2> QED BY <1>1, <1>4, <2>1, <2>2 DEF PayInv, EscrowHeld, Exists
<1> QED BY <1>5, <1>6, <1>7, <1>8, <1>9, <1>10

\* A claim pays one share to an account that had none.
LEMMA ClaimStep ==
  ASSUME IInv, NEW a \in Accounts, NEW id \in Ids, claim_reward(a, id)
  PROVE  IInv'
<1> USE DEF IInv
<1>1. /\ id \in DOMAIN proposals /\ p(id).resolved /\ block >= p(id).escrow_unlock_block
      /\ ~claimed[<<a, id>>] /\ Reward(a, id) > 0
      /\ claimed' = [claimed EXCEPT ![<<a, id>>] = TRUE]
      /\ balance' = balance - Reward(a, id)
      /\ paid' = [paid EXCEPT ![<<a, id>>] = @ + Reward(a, id)]
      /\ UNCHANGED <<block, proposals, commitments, reveals, current_value_x>>
  BY DEF claim_reward, MayClaim, Exists
<1>2. <<a, id>> \in Slots
  BY DEF Slots
<1>3. /\ p(id).stake \in Nat /\ p(id).reject_count \in Nat /\ block \in Nat
      /\ p(id).escrow_unlock_block \in Nat /\ p(id).reveal_deadline \in Nat
      /\ ESCROW_LOCK \in Nat
  BY <1>1, Fields, ChallengeAssumption DEF TypeOK
<1>4. /\ Reward(a, id) = Share(id) /\ Reward(a, id) \in Nat
      /\ IF p(id).approved \/ p(id).reject_count = 0
         THEN a = p(id).proposer ELSE reveals[<<a, id>>] = 2
  BY <1>1, <1>3 DEF Reward, Share
<1>5. paid[<<a, id>>] = 0
  <2>1. paid[<<a, id>>] \in Nat
    BY <1>2 DEF TypeOK
  <2> QED BY <2>1, <1>1 DEF EscrowHeld
<1>6. /\ paid' \in [Slots -> Nat] /\ claimed' \in [Slots -> BOOLEAN]
      /\ paid'[<<a, id>>] = Share(id) /\ claimed'[<<a, id>>]
      /\ \A w \in Accounts, i \in Ids : i # id \/ w # a =>
            paid'[<<w, i>>] = paid[<<w, i>>] /\ claimed'[<<w, i>>] = claimed[<<w, i>>]
  <2>1. paid' = [paid EXCEPT ![<<a, id>>] = Share(id)] /\ Share(id) \in Nat
    <3>1. paid[<<a, id>>] + Reward(a, id) = Share(id) /\ Share(id) \in Nat
      BY <1>4, <1>5
    <3> QED BY <3>1, <1>1
  <2>2. paid \in [Slots -> Nat] /\ claimed \in [Slots -> BOOLEAN]
    BY DEF TypeOK
  <2>3. \A w \in Accounts, i \in Ids : <<w, i>> \in Slots
    BY DEF Slots
  <2>4. /\ paid' \in [Slots -> Nat] /\ paid'[<<a, id>>] = Share(id)
        /\ \A w \in Accounts, i \in Ids : i # id \/ w # a =>
              paid'[<<w, i>>] = paid[<<w, i>>]
    BY <2>1, <2>2, <2>3, <1>2
  <2>5. /\ claimed' \in [Slots -> BOOLEAN] /\ claimed'[<<a, id>>]
        /\ \A w \in Accounts, i \in Ids : i # id \/ w # a =>
              claimed'[<<w, i>>] = claimed[<<w, i>>]
    BY <2>2, <2>3, <1>1, <1>2
  <2> QED BY <2>4, <2>5
<1>7. TypeOK'
  <2>1. \A w \in Accounts, i \in Ids \ DOMAIN proposals :
           ~claimed'[<<w, i>>] /\ paid'[<<w, i>>] = 0
    <3>1. TAKE w \in Accounts, i \in Ids \ DOMAIN proposals
    <3>2. i # id /\ i \in Ids
      BY <1>1
    <3>3. ~claimed[<<w, i>>] /\ paid[<<w, i>>] = 0
      BY DEF TypeOK
    <3> QED BY <3>2, <3>3, <1>6
  <2> QED BY <1>1, <1>4, <1>6, <2>1 DEF TypeOK
<1>8. PhaseInv' /\ CurrentInv' /\ VotesHidden'
  BY <1>1 DEF PhaseInv, Phase, CurrentInv, VotesHidden, p
<1>9. TallyMatchesVotes'
  BY <1>1 DEF TallyMatchesVotes, Votes, p
<1>10. EscrowHeld'
  <2>1. block >= p(id).reveal_deadline + 1 + ESCROW_LOCK
    BY <1>1, <1>3 DEF PhaseInv, Phase
  <2>2. ASSUME NEW w \in Accounts, NEW i \in Ids, paid'[<<w, i>>] > 0
        PROVE  /\ Exists(i)' /\ p(i)'.resolved /\ claimed'[<<w, i>>]
               /\ block' >= p(i)'.reveal_deadline + 1 + ESCROW_LOCK
    <3>1. CASE w = a /\ i = id
      BY <3>1, <2>1, <1>1, <1>6 DEF Exists, p
    <3>2. CASE w # a \/ i # id
      BY <3>2, <2>2, <1>1, <1>6 DEF EscrowHeld, Exists, p
    <3> QED BY <3>1, <3>2
  <2> QED BY <2>2 DEF EscrowHeld
<1>11. PayInv'
  <2>1. \A i : p(i)' = p(i) /\ Share(i)' = Share(i)
    BY <1>1 DEF Share, p
  <2>2. ASSUME NEW i \in DOMAIN proposals, NEW w \in Accounts, paid'[<<w, i>>] > 0
        PROVE  /\ paid'[<<w, i>>] = Share(i)
               /\ IF p(i).approved \/ p(i).reject_count = 0
                  THEN w = p(i).proposer ELSE reveals[<<w, i>>] = 2
    <3>1. CASE w = a /\ i = id
      BY <3>1, <1>4, <1>6
    <3>2. CASE w # a \/ i # id
      <4>1. i \in Ids
        BY DEF TypeOK
      <4> QED BY <3>2, <4>1, <2>2, <1>6 DEF PayInv
    <3> QED BY <3>1, <3>2
  <2> QED BY <1>1, <2>1, <2>2 DEF PayInv
<1> QED BY <1>7, <1>8, <1>9, <1>10, <1>11
LEMMA NextInv == IInv /\ [Next]_vars => IInv'
<1> SUFFICES ASSUME IInv, [Next]_vars PROVE IInv'
  OBVIOUS
<1>1. CASE Mine
  <2>1. /\ block \in Nat /\ block' \in 1 .. MaxBlock /\ block' = block + 1
        /\ UNCHANGED <<proposals, commitments, reveals, claimed, current_value_x, balance, paid>>
    BY <1>1, ChallengeAssumption DEF Mine, IInv, TypeOK
  <2>2. TypeOK' /\ PhaseInv' /\ CurrentInv' /\ PayInv'
    BY <2>1 DEF IInv, TypeOK, PhaseInv, Phase, CurrentInv, PayInv, Share, p
  <2>3. TallyMatchesVotes'
    BY <2>1 DEF IInv, TallyMatchesVotes, Votes, p
  <2>4. VotesHidden'
    <3>1. \A i \in DOMAIN proposals : /\ p(i).commit_deadline \in Nat
                                      /\ p(i).reveal_deadline \in Nat
      BY Fields DEF IInv
    <3> QED BY <2>1, <3>1 DEF IInv, VotesHidden, p
  <2>5. EscrowHeld'
    <3>1. \A i \in DOMAIN proposals : p(i).reveal_deadline \in Nat
      BY Fields DEF IInv
    <3> QED BY <2>1, <3>1, ChallengeAssumption DEF IInv, EscrowHeld, Exists, p
  <2> QED BY <2>2, <2>3, <2>4, <2>5 DEF IInv
<1>2. CASE UNCHANGED vars
  <2>1. TypeOK' /\ PhaseInv' /\ CurrentInv' /\ PayInv'
    BY <1>2 DEF vars, IInv, TypeOK, PhaseInv, Phase, CurrentInv, PayInv, Share, p
  <2>2. TallyMatchesVotes'
    BY <1>2 DEF vars, IInv, TallyMatchesVotes, Votes, p
  <2>3. VotesHidden'
    BY <1>2 DEF vars, IInv, VotesHidden, p
  <2>4. EscrowHeld'
    BY <1>2 DEF vars, IInv, EscrowHeld, Exists, p
  <2> QED BY <2>1, <2>2, <2>3, <2>4 DEF IInv
<1> QED BY <1>1, <1>2, ProposeStep, CommitStep, RevealStep, ResolveStep, ClaimStep DEF Next

\* The invariant holds in every reachable state of the contract.
THEOREM ChallengeInvariant == Spec => []IInv
  BY InitInv, NextInv, PTL DEF Spec

\* Storage keeps its types, and nothing is recorded for a proposal that was
\* never made (UpdateChallenge.vy: storage).
THEOREM ChallengeTypeCorrect == Spec => []TypeOK
<1>1. IInv => TypeOK
  BY DEF IInv
<1> QED BY <1>1, ChallengeInvariant, PTL

\* The counts are the numbers of accounts that revealed each vote, each as it
\* committed (UpdateChallenge.vy: commit_vote, reveal_vote).
THEOREM ChallengeTally == Spec => []TallyMatchesVotes
<1>1. IInv => TallyMatchesVotes
  BY DEF IInv
<1> QED BY <1>1, ChallengeInvariant, PTL

\* No vote is revealed while commitments are open (UpdateChallenge.vy:
\* commit_vote, reveal_vote, resolve).
THEOREM ChallengeVotesHidden == Spec => []VotesHidden
<1>1. IInv => VotesHidden
  BY DEF IInv
<1> QED BY <1>1, ChallengeInvariant, PTL

\* The recommended Value X always has a majority of revealed votes behind it
\* (UpdateChallenge.vy: resolve).
THEOREM ChallengeCurrentIsApproved == Spec => []CurrentIsApproved
<1>1. IInv => CurrentIsApproved
  <2> SUFFICES ASSUME IInv PROVE CurrentIsApproved
    OBVIOUS
  <2>1. \A id \in DOMAIN proposals :
           p(id).approved => Cardinality(Votes(id, 1)) > Cardinality(Votes(id, 2))
    BY DEF IInv, PhaseInv, Phase, TallyMatchesVotes
  <2> QED BY <2>1 DEF IInv, CurrentInv, CurrentIsApproved
<1> QED BY <1>1, ChallengeInvariant, PTL

\* Ether leaves the contract only after a decision and its escrow
\* (UpdateChallenge.vy: resolve, claim_reward).
THEOREM ChallengeEscrowHeld == Spec => []EscrowHeld
<1>1. IInv => EscrowHeld
  BY DEF IInv
<1> QED BY <1>1, ChallengeInvariant, PTL

\* Integer division rounds down, so n shares fit into the stake.
LEMMA SharesFit ==
  ASSUME NEW stake \in Nat, NEW n \in Nat \ {0}, NEW k \in 0 .. n
  PROVE  k * (stake \div n) <= stake
<1> DEFINE q == stake \div n
<1>1. q \in Nat /\ n * q <= stake
  OBVIOUS
<1> HIDE DEF q
<1>2. k * q <= n * q
  BY <1>1
<1>3. k * q \in Int /\ n * q \in Int
  BY <1>1
<1> QED BY <1>1, <1>2, <1>3 DEF q

LEMMA ClaimsFit == IInv => ClaimsCovered
<1> SUFFICES ASSUME IInv, NEW id \in DOMAIN proposals
             PROVE  /\ \A a \in Accounts : paid[<<a, id>>] \in {0, Share(id)}
                    /\ Cardinality(Payees(id)) * Share(id) <= p(id).stake
  BY DEF ClaimsCovered
<1>1. /\ TypeOK /\ p(id).stake \in Nat /\ p(id).reject_count \in Nat
      /\ p(id).approved \in BOOLEAN /\ id \in Ids
  BY Fields DEF IInv
<1>2. \A a \in Accounts : paid[<<a, id>>] \in Nat
  BY <1>1 DEF TypeOK, Slots
<1>3. \A a \in Accounts : paid[<<a, id>>] \in {0, Share(id)}
  BY <1>2 DEF IInv, PayInv
<1>4. CASE p(id).approved \/ p(id).reject_count = 0
  <2>1. Payees(id) \subseteq {p(id).proposer}
    BY <1>4 DEF Payees, IInv, PayInv
  <2>2. Cardinality(Payees(id)) \in {0, 1}
    <3>1. Payees(id) = {} \/ Payees(id) = {p(id).proposer}
      BY <2>1
    <3> QED BY <3>1, FS_EmptySet, FS_Singleton
  <2>3. Share(id) = p(id).stake
    BY <1>4 DEF Share
  <2> QED BY <1>1, <1>3, <2>2, <2>3
<1>5. CASE ~(p(id).approved \/ p(id).reject_count = 0)
  <2>1. Payees(id) \subseteq Votes(id, 2)
    BY <1>5 DEF Payees, Votes, IInv, PayInv
  <2>2. Cardinality(Payees(id)) \in 0 .. p(id).reject_count
    <3>1. /\ Cardinality(Payees(id)) \in Nat
          /\ Cardinality(Payees(id)) <= Cardinality(Votes(id, 2))
      BY <2>1, VotesFinite, FS_Subset, FS_CardinalityType
    <3>2. p(id).reject_count = Cardinality(Votes(id, 2))
      BY DEF IInv, TallyMatchesVotes
    <3> QED BY <1>1, <3>1, <3>2
  <2>3. Share(id) = p(id).stake \div p(id).reject_count /\ p(id).reject_count \in Nat \ {0}
    BY <1>1, <1>5 DEF Share
  <2> QED BY <1>1, <1>3, <2>2, <2>3, SharesFit
<1> QED BY <1>4, <1>5

\* Every payee got one share and the shares fit into the proposal's own stake
\* (UpdateChallenge.vy: claim_reward).
THEOREM ChallengeClaimsCovered == Spec => []ClaimsCovered
  BY ClaimsFit, ChallengeInvariant, PTL

\* Nothing done after the commit phase changes a commitment and nothing done
\* after the resolution changes the outcome (UpdateChallenge.vy: every external
\* function).
THEOREM ChallengeOutcomeFinal == Spec => OutcomeFinal
<1>1. ASSUME IInv, [Next]_vars, NEW id \in DOMAIN proposals
      PROVE  /\ id \in DOMAIN proposals'
             /\ block > p(id).commit_deadline =>
                   \A v \in Accounts : commitments'[<<v, id>>] = commitments[<<v, id>>]
             /\ p(id).resolved => proposals'[id] = p(id)
  <2>1. /\ id \in Ids /\ block \in Nat /\ p(id).commit_deadline \in Nat
        /\ p(id).reveal_deadline \in Nat /\ DOMAIN commitments = Slots
    BY <1>1, Fields DEF IInv, TypeOK
  <2>2. ASSUME NEW a \in Accounts, NEW value \in Values, NEW stake \in Stakes,
               propose(a, value, stake)
        PROVE  /\ id \in DOMAIN proposals' /\ proposals'[id] = p(id)
               /\ commitments' = commitments
    BY <2>2, <1>1 DEF propose, Exists, p
  <2>3. ASSUME NEW v \in Accounts, NEW i \in Ids, NEW c, commit_vote(v, i, c)
        PROVE  /\ proposals' = proposals
               /\ block > p(id).commit_deadline =>
                     \A w \in Accounts : commitments'[<<w, id>>] = commitments[<<w, id>>]
    <3>1. \A w \in Accounts : <<w, id>> \in DOMAIN commitments
      BY <2>1 DEF Slots
    <3> QED BY <2>1, <2>3, <3>1 DEF commit_vote
  <2>4. ASSUME NEW v \in Accounts, NEW i \in Ids, NEW approved, NEW salt,
               reveal_vote(v, i, approved, salt)
        PROVE  /\ DOMAIN proposals' = DOMAIN proposals /\ commitments' = commitments
               /\ p(id).resolved => proposals'[id] = p(id)
    <3>1. p(id).resolved => i # id
      BY <2>1, <2>4, <1>1 DEF reveal_vote, IInv, VotesHidden
    <3> QED BY <2>4, <3>1 DEF reveal_vote, p
  <2>5. ASSUME NEW i \in Ids, resolve(i)
        PROVE  /\ DOMAIN proposals' = DOMAIN proposals /\ commitments' = commitments
               /\ p(id).resolved => proposals'[id] = p(id)
    BY <2>5 DEF resolve, p
  <2>6. ASSUME NEW a \in Accounts, NEW i \in Ids, claim_reward(a, i)
        PROVE  proposals' = proposals /\ commitments' = commitments
    BY <2>6 DEF claim_reward
  <2>7. CASE Mine \/ UNCHANGED vars
    BY <2>7 DEF Mine, vars, p
  <2> QED BY <1>1, <2>2, <2>3, <2>4, <2>5, <2>6, <2>7 DEF Next, p
<1>2. IInv /\ [Next]_vars =>
         [\A id \in DOMAIN proposals :
            /\ id \in DOMAIN proposals'
            /\ block > p(id).commit_deadline =>
                  \A v \in Accounts : commitments'[<<v, id>>] = commitments[<<v, id>>]
            /\ p(id).resolved => proposals'[id] = p(id)]_vars
  BY <1>1
<1> QED BY <1>2, ChallengeInvariant, PTL DEF Spec, OutcomeFinal

\* Tallies are the revealed votes, and only a tally changes the current value.
THEOREM ChallengeVotesDecide == Spec => []VotesDecide
  BY ChallengeTally, ChallengeCurrentIsApproved, PTL DEF VotesDecide

-----------------------------------------------------------------------------
(* Sums of natural numbers.  A sum counts units: as many for each index as   *)
(* the function has there.  Theorems on cardinalities then do for sums.      *)

Pick(s) == CHOOSE x \in s : TRUE

\* The recursion of the library's fold: g sums f over every subset of S.
Sums(f, S, g) ==
    g = [s \in SUBSET S |-> IF s = {} THEN 0 ELSE f[Pick(s)] + g[s \ {Pick(s)}]]

Units(f, S) == {u \in S \X Nat : u[2] \in 1 .. f[u[1]]}

LEMMA SumUnfolds ==
    ASSUME NEW f, NEW S
    PROVE  SumFunctionOnSet(f, S) = (CHOOSE g : Sums(f, S, g))[S]
BY DEF SumFunctionOnSet, FoldFunctionOnSet, MapThenFoldSet, Sums, Pick

\* One index contributes its number of units.
LEMMA UnitsAt ==
    ASSUME NEW S, NEW f \in [S -> Nat], NEW s \in SUBSET S, NEW x \in s,
           IsFiniteSet(Units(f, s \ {x}))
    PROVE  /\ IsFiniteSet(Units(f, s))
           /\ Cardinality(Units(f, s)) = f[x] + Cardinality(Units(f, s \ {x}))
<1> DEFINE rest == Units(f, s \ {x})
           own == {x} \X (1 .. f[x])
<1>1. f[x] \in Nat /\ IsFiniteSet(rest) /\ Cardinality(rest) \in Nat
  BY FS_CardinalityType
<1>2. Units(f, s) = rest \cup own /\ rest \cap own = {}
  BY <1>1 DEF Units
<1>3. IsFiniteSet(own) /\ Cardinality(own) = f[x]
  <2>1. IsFiniteSet(1 .. f[x]) /\ Cardinality(1 .. f[x]) = f[x]
    <3>1. \A n \in Nat : IsFiniteSet(1 .. n) /\ Cardinality(1 .. n) = n
      BY FS_Interval
    <3> QED
      BY <1>1, <3>1
  <2>2. IsFiniteSet({x}) /\ Cardinality({x}) = 1
    BY FS_Singleton
  <2> DEFINE range == 1 .. f[x]
  <2>3. IsFiniteSet({x} \X range) /\ Cardinality({x} \X range) = Cardinality({x}) * Cardinality(range)
    <3> HIDE DEF range
    <3>1. IsFiniteSet(range)
      BY <2>1 DEF range
    <3> QED
      BY <2>2, <3>1, FS_Product
  <2> QED
    BY <1>1, <2>1, <2>2, <2>3
<1>4. Cardinality(rest \cap own) = 0
  BY <1>2, FS_EmptySet
<1> HIDE DEF rest, own
<1>5. IsFiniteSet(rest \cup own) /\ Cardinality(rest \cup own) = Cardinality(rest) + f[x]
  BY <1>1, <1>3, <1>4, FS_Union
<1> QED
  BY <1>1, <1>2, <1>5 DEF rest

\* A set of subsets that has a member has a smallest one.
LEMMA SmallestSubset ==
    ASSUME NEW S, IsFiniteSet(S), NEW B \in SUBSET SUBSET S, B # {}
    PROVE  \E s \in B : \A x \in s : s \ {x} \notin B
<1>1. IsWellFoundedOn(StrictSubsetOrdering(S), SUBSET S)
  BY FS_StrictSubsetOrderingWellFounded, FS_FiniteSubsetsOfFinite
<1>2. PICK s \in B : \A y \in B : <<y, s>> \notin StrictSubsetOrdering(S)
  BY <1>1, WFMin
<1>3. ASSUME NEW x \in s, s \ {x} \in B PROVE FALSE
  <2>1. <<s \ {x}, s>> \in StrictSubsetOrdering(S)
    BY <1>3 DEF StrictSubsetOrdering
  <2> QED
    BY <1>2, <1>3, <2>1
<1> QED
  BY <1>2, <1>3

LEMMA UnitsFinite ==
    ASSUME NEW S, IsFiniteSet(S), NEW f \in [S -> Nat], NEW s \in SUBSET S
    PROVE  IsFiniteSet(Units(f, s)) /\ Cardinality(Units(f, s)) \in Nat
<1> DEFINE B == {t \in SUBSET S : ~IsFiniteSet(Units(f, t))}
<1>1. B = {}
  <2> SUFFICES ASSUME B # {} PROVE FALSE
    OBVIOUS
  <2>1. PICK t \in B : \A x \in t : t \ {x} \notin B
    BY SmallestSubset
  <2>2. CASE t = {}
    <3>1. Units(f, {}) = {}
      BY DEF Units
    <3> QED
      BY <2>1, <2>2, <3>1, FS_EmptySet
  <2>3. CASE t # {}
    <3>1. PICK x \in t : TRUE
      BY <2>3
    <3>2. IsFiniteSet(Units(f, t \ {x}))
      BY <2>1, <3>1
    <3> QED
      BY <2>1, <3>1, <3>2, UnitsAt
  <2> QED
    BY <2>2, <2>3
<1> QED
  BY <1>1, FS_CardinalityType

\* The fold counts the units.
LEMMA SumCounts ==
    ASSUME NEW S, IsFiniteSet(S), NEW f \in [S -> Nat]
    PROVE  SumFunction(f) = Cardinality(Units(f, S)) /\ SumFunction(f) \in Nat
<1> DEFINE h == [s \in SUBSET S |-> Cardinality(Units(f, s))]
           g == CHOOSE k : Sums(f, S, k)
<1>1. Units(f, {}) = {} /\ Cardinality(Units(f, {})) = 0
  BY FS_EmptySet DEF Units
<1>2. ASSUME NEW s \in SUBSET S, s # {}
      PROVE  /\ Pick(s) \in s /\ s \ {Pick(s)} \in SUBSET S
             /\ Cardinality(Units(f, s)) = f[Pick(s)] + Cardinality(Units(f, s \ {Pick(s)}))
  <2>1. Pick(s) \in s
    BY <1>2 DEF Pick
  <2>2. s \ {Pick(s)} \in SUBSET S
    OBVIOUS
  <2> QED
    BY <2>1, <2>2, UnitsFinite, UnitsAt
<1>3. Sums(f, S, h)
  <2>1. \A s \in SUBSET S :
           h[s] = IF s = {} THEN 0 ELSE f[Pick(s)] + h[s \ {Pick(s)}]
    BY <1>1, <1>2
  <2> QED
    BY <2>1 DEF Sums
<1>4. Sums(f, S, g)
  BY <1>3
<1> HIDE DEF g
<1>5. \A s \in SUBSET S : g[s] = IF s = {} THEN 0 ELSE f[Pick(s)] + g[s \ {Pick(s)}]
  BY <1>4 DEF Sums
<1> DEFINE B == {s \in SUBSET S : g[s] # h[s]}
<1>6. B = {}
  <2> SUFFICES ASSUME B # {} PROVE FALSE
    OBVIOUS
  <2>1. PICK s \in B : \A x \in s : s \ {x} \notin B
    BY SmallestSubset
  <2>2. CASE s = {}
    BY <1>1, <1>5, <2>1, <2>2
  <2>3. CASE s # {}
    <3>1. Pick(s) \in s /\ s \ {Pick(s)} \in SUBSET S /\ s \ {Pick(s)} \notin B
      BY <1>2, <2>1, <2>3
    <3>2. g[s \ {Pick(s)}] = h[s \ {Pick(s)}]
      BY <3>1
    <3>3. g[s] = f[Pick(s)] + h[s \ {Pick(s)}]
      BY <1>5, <2>1, <2>3, <3>2
    <3>4. h[s] = f[Pick(s)] + h[s \ {Pick(s)}]
      BY <1>2, <2>1, <2>3, <3>1
    <3> QED
      BY <2>1, <3>3, <3>4
  <2> QED
    BY <2>2, <2>3
<1>7. SumFunction(f) = g[S]
  BY SumUnfolds DEF SumFunction, g
<1>8. Cardinality(Units(f, S)) \in Nat
  BY UnitsFinite
<1> QED
  BY <1>6, <1>7, <1>8

\* A sum grows with a new index and shrinks with a value, by as much.
LEMMA SumGrows ==
    ASSUME NEW S, IsFiniteSet(S), NEW f \in [S -> Nat], NEW x, x \notin S,
           NEW g \in [S \cup {x} -> Nat], \A i \in S : g[i] = f[i]
    PROVE  SumFunction(g) = SumFunction(f) + g[x]
<1>1. IsFiniteSet(S \cup {x}) /\ (S \cup {x}) \ {x} = S /\ x \in S \cup {x}
  BY FS_AddElement
<1>2. Units(g, S) = Units(f, S)
  BY DEF Units
<1>3. IsFiniteSet(Units(f, S)) /\ SumFunction(f) = Cardinality(Units(f, S)) /\ SumFunction(f) \in Nat
  BY UnitsFinite, SumCounts
<1>4. SumFunction(g) = Cardinality(Units(g, S \cup {x}))
  BY <1>1, SumCounts
<1>5. Cardinality(Units(g, S \cup {x})) = g[x] + Cardinality(Units(g, S))
  BY <1>1, <1>2, <1>3, UnitsAt
<1> QED
  BY <1>1, <1>2, <1>3, <1>4, <1>5

LEMMA SumShrinks ==
    ASSUME NEW S, IsFiniteSet(S), NEW f \in [S -> Nat], NEW x \in S, NEW r \in Nat,
           NEW g \in [S -> Nat], \A i \in S : i # x => g[i] = f[i], g[x] = f[x] - r
    PROVE  SumFunction(g) = SumFunction(f) - r
<1> DEFINE rest == Cardinality(Units(f, S \ {x}))
<1>1. Units(g, S \ {x}) = Units(f, S \ {x})
  BY DEF Units
<1>2. IsFiniteSet(Units(f, S \ {x})) /\ rest \in Nat
  BY UnitsFinite
<1>3. /\ SumFunction(f) = Cardinality(Units(f, S)) /\ SumFunction(g) = Cardinality(Units(g, S))
  BY SumCounts
<1>4. Cardinality(Units(f, S)) = f[x] + rest /\ Cardinality(Units(g, S)) = g[x] + rest
  BY <1>1, <1>2, UnitsAt
<1>5. f[x] \in Nat /\ g[x] \in Nat
  OBVIOUS
<1> HIDE DEF rest
<1> QED
  BY <1>2, <1>3, <1>4, <1>5

\* Equal shares.
LEMMA SumOfShares ==
    ASSUME NEW S, IsFiniteSet(S), NEW f \in [S -> Nat], NEW n \in Nat, NEW T \in SUBSET S,
           \A i \in T : f[i] = n, \A i \in S \ T : f[i] = 0
    PROVE  SumFunction(f) = Cardinality(T) * n
<1>1. Units(f, S) = T \X (1 .. n)
  <2>1. \A i \in S : 1 .. f[i] = IF i \in T THEN 1 .. n ELSE {}
    OBVIOUS
  <2> QED
    BY <2>1 DEF Units
<1>2. IsFiniteSet(1 .. n) /\ Cardinality(1 .. n) = n
  BY FS_Interval
<1>3. IsFiniteSet(T)
  BY FS_Subset
<1>4. Cardinality(T \X (1 .. n)) = Cardinality(T) * n
  BY <1>2, <1>3, FS_Product
<1>5. SumFunction(f) = Cardinality(Units(f, S))
  BY SumCounts
<1> QED
  BY <1>1, <1>4, <1>5

-----------------------------------------------------------------------------
(* The ether of the contract.                                               *)

\* What is left of each stake.
Left == [id \in DOMAIN proposals |-> p(id).stake - PaidFor(id)]

Funds ==
    /\ IsFiniteSet(DOMAIN proposals)
    /\ \A a \in Accounts, id \in Ids : claimed[<<a, id>>] => paid[<<a, id>>] > 0
    /\ balance = SumFunction(Left)

\* A proposal has paid one share to each of its payees.
SharesPaid(id) ==
    /\ PaidFor(id) = Cardinality(Payees(id)) * Share(id)
    /\ PaidFor(id) \in Nat /\ PaidFor(id) <= p(id).stake
    /\ IsFiniteSet(Payees(id)) /\ Cardinality(Payees(id)) \in Nat /\ Share(id) \in Nat
AllSharesPaid == \A id \in DOMAIN proposals : SharesPaid(id)

LEMMA PaidShares == IInv => AllSharesPaid
<1> SUFFICES ASSUME IInv, NEW id \in DOMAIN proposals PROVE SharesPaid(id)
  BY DEF AllSharesPaid
<1> DEFINE f == [a \in Accounts |-> paid[<<a, id>>]]
<1>1. /\ TypeOK /\ id \in Ids /\ p(id).stake \in Nat /\ p(id).reject_count \in Nat
      /\ IsFiniteSet(Accounts)
  BY Fields, ChallengeAssumption DEF IInv
<1>2. f \in [Accounts -> Nat]
  BY <1>1 DEF TypeOK, Slots
<1>3. Share(id) \in Nat
  BY <1>1 DEF Share
<1>4. /\ \A a \in Accounts : paid[<<a, id>>] \in {0, Share(id)}
      /\ Cardinality(Payees(id)) * Share(id) <= p(id).stake
  BY ClaimsFit DEF ClaimsCovered
<1>5. /\ Payees(id) \in SUBSET Accounts
      /\ \A a \in Payees(id) : f[a] = Share(id)
      /\ \A a \in Accounts \ Payees(id) : f[a] = 0
  BY <1>2, <1>3, <1>4 DEF Payees
<1>6. IsFiniteSet(Payees(id)) /\ Cardinality(Payees(id)) \in Nat
  BY <1>1, <1>5, FS_Subset, FS_CardinalityType
<1>7. PaidFor(id) = SumFunction(f)
  BY DEF PaidFor
<1> HIDE DEF f
<1>8. SumFunction(f) = Cardinality(Payees(id)) * Share(id)
  BY <1>1, <1>2, <1>3, <1>5, SumOfShares
<1>9. SumFunction(f) \in Nat
  BY <1>1, <1>2, SumCounts
<1> QED
  BY <1>3, <1>4, <1>6, <1>7, <1>8, <1>9 DEF SharesPaid

LEMMA LeftNatural == IInv => Left \in [DOMAIN proposals -> Nat]
<1> SUFFICES ASSUME IInv PROVE Left \in [DOMAIN proposals -> Nat]
  OBVIOUS
<1>1. \A id \in DOMAIN proposals : p(id).stake - PaidFor(id) \in Nat
  BY PaidShares, Fields DEF IInv, AllSharesPaid, SharesPaid
<1> QED
  BY <1>1 DEF Left

LEMMA FundsInit == Init => Funds
<1> SUFFICES ASSUME Init PROVE Funds
  OBVIOUS
<1>1. DOMAIN proposals = {} /\ IsFiniteSet(DOMAIN proposals)
  BY FS_EmptySet DEF Init
<1>2. Units(Left, {}) = {} /\ Left \in [{} -> Nat]
  BY <1>1 DEF Units, Left
<1>3. SumFunction(Left) = 0
  BY <1>1, <1>2, SumCounts, FS_EmptySet
<1> QED
  BY <1>1, <1>3 DEF Init, Funds, Slots

\* No vote and no resolution moves ether.
LEMMA FundsStand ==
    ASSUME Funds, DOMAIN proposals' = DOMAIN proposals,
           \A id \in DOMAIN proposals : p(id)'.stake = p(id).stake,
           UNCHANGED <<balance, claimed, paid>>
    PROVE  Funds'
<1>1. \A id : PaidFor(id)' = PaidFor(id)
  BY DEF PaidFor
<1>2. Left' = Left
  BY <1>1 DEF Left
<1> QED
  BY <1>2 DEF Funds

LEMMA FundsPropose ==
    ASSUME IInv, IInv', Funds, NEW a \in Accounts, NEW value \in Values, NEW stake \in Stakes,
           propose(a, value, stake)
    PROVE  Funds'
<1> SUFFICES ASSUME NEW id, id = <<value, block>> PROVE Funds'
  OBVIOUS
<1>1. /\ id \notin DOMAIN proposals /\ balance' = balance + stake /\ UNCHANGED <<claimed, paid>>
      /\ DOMAIN proposals' = DOMAIN proposals \cup {id}
      /\ \A i \in DOMAIN proposals : p(i)' = p(i)
      /\ p(id)'.stake = stake
  BY DEF propose, Exists, p
<1>2. id \in Ids /\ stake \in Nat
  BY ChallengeAssumption DEF IInv, TypeOK, Ids
<1>3. \A v \in Accounts : paid'[<<v, id>>] = 0
  BY <1>1, <1>2 DEF IInv, TypeOK
<1>4. PaidFor(id)' = 0
  <2>1. Payees(id)' = {}
    BY <1>3 DEF Payees
  <2>2. AllSharesPaid'
    BY PaidShares, PTL
  <2>3. PaidFor(id)' = Cardinality(Payees(id)') * Share(id)' /\ Share(id)' \in Nat
    BY <1>1, <2>2 DEF AllSharesPaid, SharesPaid
  <2> QED
    BY <2>1, <2>3, FS_EmptySet
<1>5. \A i : PaidFor(i)' = PaidFor(i)
  BY <1>1 DEF PaidFor
<1>6. Left \in [DOMAIN proposals -> Nat] /\ Left' \in [DOMAIN proposals \cup {id} -> Nat]
  <2>1. (Left \in [DOMAIN proposals -> Nat])'
    BY LeftNatural, PTL
  <2> QED
    BY <1>1, <2>1, LeftNatural
<1>7. Left'[id] = stake /\ \A i \in DOMAIN proposals : Left'[i] = Left[i]
  BY <1>1, <1>2, <1>4, <1>5 DEF Left
<1>8. SumFunction(Left') = SumFunction(Left) + stake
  <2>1. IsFiniteSet(DOMAIN proposals) /\ id \notin DOMAIN proposals
    BY <1>1 DEF Funds
  <2>2. SumFunction(Left') = SumFunction(Left) + Left'[id]
    BY <1>6, <1>7, <2>1, SumGrows
  <2> QED
    BY <1>7, <2>2
<1>9. IsFiniteSet(DOMAIN proposals')
  BY <1>1, FS_AddElement DEF Funds
<1> QED
  BY <1>1, <1>8, <1>9 DEF Funds

LEMMA FundsClaim ==
    ASSUME IInv, IInv', Funds, NEW a \in Accounts, NEW id \in Ids, claim_reward(a, id)
    PROVE  Funds'
<1>1. /\ id \in DOMAIN proposals /\ ~claimed[<<a, id>>] /\ Reward(a, id) > 0
      /\ claimed' = [claimed EXCEPT ![<<a, id>>] = TRUE]
      /\ balance' = balance - Reward(a, id)
      /\ paid' = [paid EXCEPT ![<<a, id>>] = @ + Reward(a, id)]
      /\ proposals' = proposals /\ reveals' = reveals
  BY DEF claim_reward, MayClaim, Exists
<1>2. /\ <<a, id>> \in Slots /\ paid \in [Slots -> Nat] /\ claimed \in [Slots -> BOOLEAN]
      /\ p(id).stake \in Nat /\ p(id).reject_count \in Nat
      /\ \A w \in Accounts, i \in Ids : <<w, i>> \in Slots
  BY <1>1, Fields DEF Slots, IInv, TypeOK
<1>3. Reward(a, id) = Share(id) /\ Share(id) \in Nat /\ Share(id) > 0
  BY <1>1, <1>2 DEF Reward, Share
<1>4. paid[<<a, id>>] = 0
  BY <1>1, <1>2 DEF IInv, EscrowHeld
<1>5. /\ paid'[<<a, id>>] = Share(id)
      /\ \A w \in Accounts, i \in Ids : w # a \/ i # id => paid'[<<w, i>>] = paid[<<w, i>>]
  BY <1>1, <1>2, <1>3, <1>4
<1>6. \A w \in Accounts, i \in Ids : claimed'[<<w, i>>] => paid'[<<w, i>>] > 0
  <2>1. \A w \in Accounts, i \in Ids : w # a \/ i # id => claimed'[<<w, i>>] = claimed[<<w, i>>]
    BY <1>1, <1>2
  <2> QED
    BY <1>3, <1>5, <2>1 DEF Funds
<1>7. PaidFor(id)' = PaidFor(id) + Share(id)
  <2>1. /\ PaidFor(id) = Cardinality(Payees(id)) * Share(id)
        /\ IsFiniteSet(Payees(id)) /\ Cardinality(Payees(id)) \in Nat
        /\ PaidFor(id)' = Cardinality(Payees(id)') * Share(id)'
    <3>1. AllSharesPaid'
      BY PaidShares, PTL
    <3> QED
      BY <1>1, <3>1, PaidShares DEF AllSharesPaid, SharesPaid
  <2>2. Share(id)' = Share(id)
    BY <1>1 DEF Share, p
  <2>3. Payees(id)' = Payees(id) \cup {a} /\ a \notin Payees(id)
    BY <1>3, <1>4, <1>5 DEF Payees
  <2>4. Cardinality(Payees(id)') = Cardinality(Payees(id)) + 1
    BY <2>1, <2>3, FS_AddElement
  <2>5. \A n, s \in Nat : (n + 1) * s = n * s + s
    OBVIOUS
  <2> QED
    BY <1>3, <2>1, <2>2, <2>4, <2>5
<1>8. ASSUME NEW i \in DOMAIN proposals, i # id PROVE PaidFor(i)' = PaidFor(i)
  <2>1. i \in Ids
    BY DEF IInv, TypeOK
  <2>2. [w \in Accounts |-> paid'[<<w, i>>]] = [w \in Accounts |-> paid[<<w, i>>]]
    BY <1>5, <1>8, <2>1
  <2> QED
    BY <2>2 DEF PaidFor
<1>9. Left \in [DOMAIN proposals -> Nat] /\ Left' \in [DOMAIN proposals -> Nat]
  <2>1. (Left \in [DOMAIN proposals -> Nat])'
    BY LeftNatural, PTL
  <2> QED
    BY <1>1, <2>1, LeftNatural
<1>10. \A i : p(i)' = p(i)
  BY <1>1 DEF p
<1>11. PaidFor(id) \in Nat
  BY <1>1, PaidShares DEF AllSharesPaid, SharesPaid
<1>12. Left'[id] = Left[id] - Share(id) /\ \A i \in DOMAIN proposals : i # id => Left'[i] = Left[i]
  BY <1>1, <1>2, <1>3, <1>7, <1>8, <1>10, <1>11 DEF Left
<1>13. SumFunction(Left') = SumFunction(Left) - Share(id)
  BY <1>1, <1>3, <1>9, <1>12, SumShrinks DEF Funds
<1> QED
  BY <1>1, <1>3, <1>6, <1>13 DEF Funds

LEMMA FundsNext == ASSUME IInv, IInv', Funds, [Next]_vars PROVE Funds'
<1>1. ASSUME NEW v \in Accounts, NEW id \in Ids, NEW c, commit_vote(v, id, c) PROVE Funds'
  BY <1>1, FundsStand DEF commit_vote, p
<1>2. ASSUME NEW v \in Accounts, NEW id \in Ids, NEW approved \in BOOLEAN, NEW salt \in Salts,
             reveal_vote(v, id, approved, salt)
      PROVE  Funds'
  <2>1. \A i \in DOMAIN proposals : p(i)'.stake = p(i).stake
    <3>1. \A i \in DOMAIN proposals : p(i) \in Proposals
      BY Fields DEF IInv
    <3> QED
      BY <1>2, <3>1 DEF reveal_vote, p, Proposals
  <2> QED
    BY <1>2, <2>1, FundsStand DEF reveal_vote
<1>3. ASSUME NEW id \in Ids, resolve(id) PROVE Funds'
  <2>1. \A i \in DOMAIN proposals : p(i)'.stake = p(i).stake
    <3>1. \A i \in DOMAIN proposals : p(i) \in Proposals
      BY Fields DEF IInv
    <3> QED
      BY <1>3, <3>1 DEF resolve, p, Proposals
  <2> QED
    BY <1>3, <2>1, FundsStand DEF resolve
<1>4. CASE Mine \/ UNCHANGED vars
  BY <1>4, FundsStand DEF Mine, vars, p
<1> QED
  BY <1>1, <1>2, <1>3, <1>4, FundsPropose, FundsClaim DEF Next

\* The contract's balance is what is left of all stakes, in every reachable state.
THEOREM ChallengeFunds == Spec => []Funds
  BY FundsInit, FundsNext, ChallengeInvariant, PTL DEF Spec

\* A proposal never pays out more than its stake and the contract holds exactly
\* what the proposals have left, for any numbers of accounts, voters and
\* proposals and any stakes (UpdateChallenge.vy: claim_reward).
THEOREM ChallengeSolvent == Spec => []Solvent
<1>1. ASSUME IInv, Funds PROVE Solvent
  <2>1. \A id \in DOMAIN proposals : PaidFor(id) <= p(id).stake
    BY <1>1, PaidShares DEF AllSharesPaid, SharesPaid
  <2>2. SumFunction(Left) \in Nat
    BY <1>1, LeftNatural, SumCounts DEF Funds
  <2> QED
    BY <1>1, <2>1, <2>2 DEF Funds, Left, Solvent
<1> QED
  BY <1>1, ChallengeInvariant, ChallengeFunds, PTL

\* After the escrow somebody can claim or no more than the indivisible rest is
\* left, for any stake and any number of rejecters (UpdateChallenge.vy:
\* claim_reward).
THEOREM ChallengeNothingStranded == Spec => []NothingStranded
<1>1. ASSUME IInv, Funds, NEW id \in DOMAIN proposals, p(id).resolved,
             block >= p(id).escrow_unlock_block, \A a \in Accounts : ~MayClaim(a, id)
      PROVE  p(id).stake - PaidFor(id) < IF p(id).approved \/ p(id).reject_count = 0
                                         THEN 1 ELSE p(id).reject_count
  <2>1. /\ id \in Ids /\ p(id).stake \in Nat /\ p(id).reject_count \in Nat
        /\ p(id).proposer \in Accounts /\ TypeOK
    BY <1>1, Fields DEF IInv, Proposals
  <2>2. /\ PaidFor(id) = Cardinality(Payees(id)) * Share(id) /\ PaidFor(id) \in Nat
        /\ IsFiniteSet(Payees(id)) /\ Cardinality(Payees(id)) \in Nat /\ Share(id) \in Nat
    BY <1>1, PaidShares DEF AllSharesPaid, SharesPaid
  <2>3. \A a \in Accounts : Reward(a, id) > 0 => a \in Payees(id)
    BY <1>1, <2>1 DEF MayClaim, Exists, Funds, Payees
  <2>4. CASE p(id).approved \/ p(id).reject_count = 0
    <3>1. Share(id) = p(id).stake /\ Reward(p(id).proposer, id) = p(id).stake
      BY <2>4 DEF Share, Reward
    <3>2. CASE p(id).stake = 0
      BY <2>1, <2>2, <2>4, <3>2
    <3>3. CASE p(id).stake > 0
      <4>1. p(id).proposer \in Payees(id)
        BY <2>1, <2>3, <3>1, <3>3
      <4>2. Cardinality(Payees(id)) # 0
        BY <2>2, <4>1, FS_EmptySet
      <4>3. \A n, s \in Nat : n # 0 => n * s >= s
        OBVIOUS
      <4>4. PaidFor(id) >= p(id).stake
        BY <2>1, <2>2, <3>1, <4>2, <4>3
      <4> QED
        BY <2>1, <2>2, <2>4, <4>4
    <3> QED
      BY <2>1, <3>2, <3>3
  <2>5. CASE ~(p(id).approved \/ p(id).reject_count = 0)
    <3> DEFINE n == p(id).reject_count
               s == p(id).stake
    <3>1. /\ n \in Nat \ {0} /\ s \in Nat /\ Share(id) = s \div n
          /\ \A a \in Votes(id, 2) : Reward(a, id) = s \div n
      BY <2>1, <2>5 DEF Share, Reward, Votes
    <3>2. s - n * (s \div n) < n /\ s \div n \in Nat
      BY <3>1
    <3>3. CASE s \div n = 0
      BY <2>1, <2>2, <2>5, <3>1, <3>2, <3>3
    <3>4. CASE s \div n > 0
      <4>1. Votes(id, 2) \subseteq Payees(id)
        BY <2>3, <3>1, <3>4 DEF Votes
      <4>2. n = Cardinality(Votes(id, 2))
        BY <1>1 DEF IInv, TallyMatchesVotes
      <4>3. n <= Cardinality(Payees(id))
        BY <2>2, <4>1, <4>2, FS_Subset
      <4>4. \A i, j, k \in Nat : i <= j => i * k <= j * k
        OBVIOUS
      <4>5. n * (s \div n) <= PaidFor(id)
        BY <2>2, <3>1, <3>2, <4>3, <4>4
      <4>6. s - PaidFor(id) < n
        <5> DEFINE u == n * (s \div n)
        <5>1. u \in Int
          BY <3>1, <3>2
        <5> HIDE DEF u
        <5> QED
          BY <2>2, <3>1, <3>2, <4>5, <5>1 DEF u
      <4> QED
        BY <2>5, <4>6
    <3> QED
      BY <3>2, <3>3, <3>4
  <2> QED
    BY <2>4, <2>5
<1>2. IInv /\ Funds => NothingStranded
  BY <1>1 DEF NothingStranded
<1> QED
  BY <1>2, ChallengeInvariant, ChallengeFunds, PTL


=============================================================================
