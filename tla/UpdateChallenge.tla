-------------------------- MODULE UpdateChallenge --------------------------
(***************************************************************************)
(* The update-challenge contract (contracts/UpdateChallenge.vy): a proposer *)
(* stakes ether on a new Value X, accounts commit and then reveal votes,    *)
(* anybody resolves the tally, and after an escrow the stake is claimed by  *)
(* the proposer or split between the rejecting voters.                      *)
(*                                                                          *)
(* A transaction is atomic and a failed assert reverts it, so an action is  *)
(* a whole external function and its asserts are its guard.  Any number of  *)
(* transactions of any accounts fall into one block.                        *)
(***************************************************************************)
EXTENDS Integers, FiniteSets, Functions

CONSTANTS
    None,
    Accounts,       \* addresses that propose, vote and claim
    Values,         \* Value X candidates
    Salts,
    Stakes,         \* msg.value of a proposal
    min_stake,
    COMMIT_PERIOD, REVEAL_PERIOD, ESCROW_LOCK,
    MaxBlock, MaxProposals        \* bounds

ASSUME ChallengeAssumption ==
    /\ IsFiniteSet(Accounts)
    /\ Stakes \subseteq Nat /\ min_stake \in Nat
    /\ COMMIT_PERIOD \in Nat \ {0} /\ REVEAL_PERIOD \in Nat \ {0}
    /\ ESCROW_LOCK \in Nat \ {0}
    /\ MaxBlock \in Nat \ {0} /\ MaxProposals \in Nat
    /\ None \notin Values

VARIABLES
    block,             \* block.number
    proposals,         \* id -> Proposal, for the ids that exist
    commitments,       \* <<voter, id>> -> commitment hash or None
    reveals,           \* <<voter, id>> -> 0, 1 approve, 2 reject
    claimed,           \* <<voter, id>> -> BOOLEAN
    current_value_x,
    balance,           \* ether held by the contract
    paid               \* history: <<account, id>> -> ether sent

vars == <<block, proposals, commitments, reveals, claimed, current_value_x, balance, paid>>

\* proposal_id is the keccak of the value and the block.
Ids == Values \X (1 .. MaxBlock)
Slots == Accounts \X Ids

\* The hash a vote is committed with.
Keccak(approved, salt) == <<approved, salt>>

p(id) == proposals[id]
Exists(id) == id \in DOMAIN proposals

-----------------------------------------------------------------------------
propose(a, value, stake) ==
    LET id == <<value, block>> IN
    /\ Cardinality(DOMAIN proposals) < MaxProposals
    /\ stake >= min_stake
    /\ ~Exists(id)
    /\ proposals' = [i \in DOMAIN proposals \cup {id} |->
           IF i # id THEN proposals[i]
           ELSE [proposer |-> a, new_value_x |-> value, stake |-> stake,
                 commit_deadline |-> block + COMMIT_PERIOD,
                 reveal_deadline |-> block + COMMIT_PERIOD + REVEAL_PERIOD,
                 resolved |-> FALSE, approved |-> FALSE,
                 approve_count |-> 0, reject_count |-> 0, escrow_unlock_block |-> 0]]
    /\ balance' = balance + stake
    /\ UNCHANGED <<block, commitments, reveals, claimed, current_value_x, paid>>

\* Mutation of commit_vote: the end of the commit phase is not checked.
commit_vote_late(v, id, commitment) ==
    /\ Exists(id)
    /\ commitments[<<v, id>>] = None
    /\ commitments' = [commitments EXCEPT ![<<v, id>>] = commitment]
    /\ UNCHANGED <<block, proposals, reveals, claimed, current_value_x, balance, paid>>

commit_vote(v, id, commitment) ==
    /\ Exists(id)
    /\ block <= p(id).commit_deadline
    /\ commitments[<<v, id>>] = None
    /\ commitments' = [commitments EXCEPT ![<<v, id>>] = commitment]
    /\ UNCHANGED <<block, proposals, reveals, claimed, current_value_x, balance, paid>>

\* Mutation of reveal_vote: a vote can be revealed again.
reveal_vote_twice(v, id, approved, salt) ==
    /\ Exists(id)
    /\ block > p(id).commit_deadline /\ block <= p(id).reveal_deadline
    /\ commitments[<<v, id>>] = Keccak(approved, salt)
    /\ reveals' = [reveals EXCEPT ![<<v, id>>] = IF approved THEN 1 ELSE 2]
    /\ proposals' = [proposals EXCEPT
          ![id].approve_count = IF approved THEN @ + 1 ELSE @,
          ![id].reject_count = IF approved THEN @ ELSE @ + 1]
    /\ UNCHANGED <<block, commitments, claimed, current_value_x, balance, paid>>

reveal_vote(v, id, approved, salt) ==
    /\ Exists(id)
    /\ block > p(id).commit_deadline /\ block <= p(id).reveal_deadline
    /\ reveals[<<v, id>>] = 0
    /\ commitments[<<v, id>>] = Keccak(approved, salt)
    /\ reveals' = [reveals EXCEPT ![<<v, id>>] = IF approved THEN 1 ELSE 2]
    /\ proposals' = [proposals EXCEPT
          ![id].approve_count = IF approved THEN @ + 1 ELSE @,
          ![id].reject_count = IF approved THEN @ ELSE @ + 1]
    /\ UNCHANGED <<block, commitments, claimed, current_value_x, balance, paid>>

\* Mutation of Approved: silence is approval.
ApprovedBySilence(id) == p(id).approve_count >= p(id).reject_count

\* The tally: no votes approve nothing, a tie rejects.
Approved(id) ==
    /\ p(id).approve_count + p(id).reject_count # 0
    /\ p(id).approve_count > p(id).reject_count

resolve(id) ==
    /\ Exists(id)
    /\ block > p(id).reveal_deadline
    /\ ~p(id).resolved
    /\ proposals' = [proposals EXCEPT ![id].resolved = TRUE,
                                      ![id].approved = Approved(id),
                                      ![id].escrow_unlock_block = block + ESCROW_LOCK]
    /\ current_value_x' = IF Approved(id) THEN p(id).new_value_x ELSE current_value_x
    /\ UNCHANGED <<block, commitments, reveals, claimed, balance, paid>>

\* Mutation of Reward: without a single reject nobody is paid.
RewardNoRefund(a, id) ==
    IF p(id).approved
    THEN IF a = p(id).proposer THEN p(id).stake ELSE 0
    ELSE IF reveals[<<a, id>>] = 2 THEN p(id).stake \div p(id).reject_count ELSE 0

\* What claim_reward computes for an account; a zero reward reverts.
Reward(a, id) ==
    IF p(id).approved \/ p(id).reject_count = 0
    THEN IF a = p(id).proposer THEN p(id).stake ELSE 0
    ELSE IF reveals[<<a, id>>] = 2 THEN p(id).stake \div p(id).reject_count ELSE 0

MayClaim(a, id) ==
    /\ Exists(id)
    /\ p(id).resolved
    /\ block >= p(id).escrow_unlock_block
    /\ ~claimed[<<a, id>>]
    /\ Reward(a, id) > 0

\* Mutation of claim_reward: the claim is not recorded.
claim_reward_again(a, id) ==
    /\ MayClaim(a, id)
    /\ balance' = balance - Reward(a, id)
    /\ paid' = [paid EXCEPT ![<<a, id>>] = @ + Reward(a, id)]
    /\ UNCHANGED <<block, proposals, commitments, reveals, claimed, current_value_x>>

claim_reward(a, id) ==
    /\ MayClaim(a, id)
    /\ claimed' = [claimed EXCEPT ![<<a, id>>] = TRUE]
    /\ balance' = balance - Reward(a, id)
    /\ paid' = [paid EXCEPT ![<<a, id>>] = @ + Reward(a, id)]
    /\ UNCHANGED <<block, proposals, commitments, reveals, current_value_x>>

Mine ==
    /\ block < MaxBlock
    /\ block' = block + 1
    /\ UNCHANGED <<proposals, commitments, reveals, claimed, current_value_x, balance, paid>>

-----------------------------------------------------------------------------
Init ==
    /\ block = 1
    /\ proposals = [i \in {} |-> None]
    /\ commitments = [s \in Slots |-> None]
    /\ reveals = [s \in Slots |-> 0]
    /\ claimed = [s \in Slots |-> FALSE]
    /\ current_value_x = None
    /\ balance = 0
    /\ paid = [s \in Slots |-> 0]

Next ==
    \/ \E a \in Accounts, x \in Values, stake \in Stakes : propose(a, x, stake)
    \/ \E v \in Accounts, id \in Ids, approved \in BOOLEAN, salt \in Salts :
          commit_vote(v, id, Keccak(approved, salt)) \/ reveal_vote(v, id, approved, salt)
    \/ \E id \in Ids : resolve(id)
    \/ \E a \in Accounts, id \in Ids : claim_reward(a, id)
    \/ Mine

Spec == Init /\ [][Next]_vars

-----------------------------------------------------------------------------
(* Correctness.                                                             *)

Proposals ==
    [proposer : Accounts, new_value_x : Values, stake : Nat,
     commit_deadline : Nat, reveal_deadline : Nat, resolved : BOOLEAN, approved : BOOLEAN,
     approve_count : Nat, reject_count : Nat, escrow_unlock_block : Nat]

\* Storage holds values of its types, and nobody has voted, claimed or been
\* paid on a proposal that was never made.
TypeOK ==
    /\ block \in 1 .. MaxBlock
    /\ DOMAIN proposals \subseteq Ids
    /\ proposals \in [DOMAIN proposals -> Proposals]
    /\ reveals \in [Slots -> 0 .. 2] /\ claimed \in [Slots -> BOOLEAN]
    /\ paid \in [Slots -> Nat]
    /\ DOMAIN commitments = Slots
    /\ current_value_x \in Values \cup {None}
    /\ balance \in Int
    /\ \A v \in Accounts, id \in Ids \ DOMAIN proposals :
          /\ commitments[<<v, id>>] = None /\ reveals[<<v, id>>] = 0
          /\ ~claimed[<<v, id>>] /\ paid[<<v, id>>] = 0

Votes(id, vote) == {v \in Accounts : reveals[<<v, id>>] = vote}

\* The counts that decide a proposal are the votes revealed for it: every voter
\* counts once, on the side it committed to, whatever other proposals are open.
TallyMatchesVotes ==
    \A id \in DOMAIN proposals :
       /\ p(id).approve_count = Cardinality(Votes(id, 1))
       /\ p(id).reject_count = Cardinality(Votes(id, 2))
       /\ \A v \in Accounts : reveals[<<v, id>>] # 0 =>
             \E salt \in Salts : commitments[<<v, id>>] = Keccak(reveals[<<v, id>>] = 1, salt)

\* Votes stay hidden until nobody can vote any more: no vote is revealed while
\* a commitment can still be made, and none is committed or revealed later.
VotesHidden ==
    /\ \A id \in DOMAIN proposals : (\E v \in Accounts : reveals[<<v, id>>] # 0)
          => block > p(id).commit_deadline
    /\ \A id \in DOMAIN proposals : p(id).resolved => block > p(id).reveal_deadline

\* A step after the commit phase never changes a commitment, and a resolved
\* outcome, its tally and its escrow are final.
OutcomeFinal ==
    [][\A id \in DOMAIN proposals :
         /\ id \in DOMAIN proposals'
         /\ block > p(id).commit_deadline =>
               \A v \in Accounts : commitments'[<<v, id>>] = commitments[<<v, id>>]
         /\ p(id).resolved => proposals'[id] = p(id)]_vars

\* Silence is not approval: the recommended Value X is one that more revealed
\* votes approved than rejected, and a proposal is approved only by them.
CurrentIsApproved ==
    /\ \A id \in DOMAIN proposals :
          p(id).approved => Cardinality(Votes(id, 1)) > Cardinality(Votes(id, 2))
    /\ current_value_x # None =>
          \E id \in DOMAIN proposals : p(id).approved /\ p(id).new_value_x = current_value_x

\* The votes decide: the tally of every proposal is the votes revealed for it,
\* and only a tally makes a value the recommended one.
VotesDecide == TallyMatchesVotes /\ CurrentIsApproved

\* What one payee of a proposal gets, and who was paid.
Share(id) == IF p(id).approved \/ p(id).reject_count = 0
             THEN p(id).stake ELSE p(id).stake \div p(id).reject_count
Payees(id) == {a \in Accounts : paid[<<a, id>>] > 0}

\* Payments come out of the proposal's own stake: every payee got exactly one
\* share, and the shares paid fit into the stake.
ClaimsCovered ==
    \A id \in DOMAIN proposals :
       /\ \A a \in Accounts : paid[<<a, id>>] \in {0, Share(id)}
       /\ Cardinality(Payees(id)) * Share(id) <= p(id).stake

PaidFor(id) == SumFunction([a \in Accounts |-> paid[<<a, id>>]])

\* A proposal never pays out more than its stake, so claims on one proposal are
\* never paid from the stake of another, and the contract can always pay.
Solvent ==
    /\ balance >= 0
    /\ \A id \in DOMAIN proposals : PaidFor(id) <= p(id).stake
    /\ balance = SumFunction([id \in DOMAIN proposals |-> p(id).stake - PaidFor(id)])

\* No ether is sent before the proposal was decided and its escrow has passed.
EscrowHeld ==
    \A a \in Accounts, id \in Ids : paid[<<a, id>>] > 0 =>
       /\ Exists(id) /\ p(id).resolved /\ claimed[<<a, id>>]
       /\ block >= p(id).reveal_deadline + 1 + ESCROW_LOCK

\* A stake is never stranded: after the escrow either somebody can still claim,
\* or all but the indivisible rest below one wei per rejecter is paid.
NothingStranded ==
    \A id \in DOMAIN proposals :
       p(id).resolved /\ block >= p(id).escrow_unlock_block =>
          \/ \E a \in Accounts : MayClaim(a, id)
          \/ p(id).stake - PaidFor(id) < IF p(id).approved \/ p(id).reject_count = 0
                                         THEN 1 ELSE p(id).reject_count
=============================================================================
