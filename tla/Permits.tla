------------------------------- MODULE Permits ------------------------------
(***************************************************************************)
(* Signed permits of the lending contract (veilend-soroban/src/permit.rs,  *)
(* permit_helpers.rs and the *_for entrypoints of lib.rs): a user signs    *)
(* the terms of one call off chain, and anybody may submit it, once.       *)
(*                                                                         *)
(* A signature stays valid for ever and may be submitted at any time, any  *)
(* number of times and in any order.  A call the pool refuses reverts the  *)
(* transaction together with the consumed nonce, so it is no step at all;  *)
(* what an accepted call does to the pool is LendingPool's subject.  The   *)
(* second asset of withdraw_for and borrow_for is not part of the permit.  *)
(***************************************************************************)
EXTENDS Naturals, Sequences, FiniteSets

CONSTANTS
    Owner,               \* users whose keys sign permits
    Terms,               \* <<action, asset, amount>>, abstracted
    Deadlines,           \* deadlines a permit may carry
    MaxNonce,            \* bound: nonces a user signs for are below this
    MaxPermits,          \* bound: permits ever signed
    MaxEpoch,            \* bound: no user revokes more often
    LastTime             \* bound: the last ledger timestamp

ASSUME PermitAssumption ==
    /\ Deadlines \subseteq Nat
    /\ MaxNonce \in Nat /\ MaxPermits \in Nat /\ MaxEpoch \in Nat
    /\ LastTime \in Nat

VARIABLES
    time,                \* env.ledger().timestamp()
    nonce,               \* DataKey::PermitNonce, 0 when absent
    epoch,               \* DataKey::PermitEpoch, 0 when absent
    signed,              \* permits whose signature exists
    executed,            \* auxiliary: permits in the order of their execution
    revoked              \* auxiliary: permits their owner has revoked

permitVars == <<time, nonce, epoch, signed, executed, revoked>>

Permit == [owner : Owner, terms : Terms, nonce : Nat, epoch : Nat, deadline : Nat]

PermitsInit ==
    /\ time = 0
    /\ nonce = [u \in Owner |-> 0]
    /\ epoch = [u \in Owner |-> 0]
    /\ signed = {}
    /\ executed = <<>>
    /\ revoked = {}

\* A user signs for the epoch read from the contract, and for any nonce.
Sign(u) ==
    /\ \E t \in Terms, n \in 0 .. MaxNonce - 1, d \in Deadlines :
          signed' = signed \cup {[owner |-> u, terms |-> t, nonce |-> n,
                                  epoch |-> epoch[u], deadline |-> d]}
    /\ Cardinality(signed') <= MaxPermits
    /\ UNCHANGED <<time, nonce, epoch, executed, revoked>>

\* Mutant: a nonce that is not yet used will do.
ValidPermitAhead(p) ==
    /\ time <= p.deadline
    /\ p.epoch = epoch[p.owner]
    /\ p.nonce >= nonce[p.owner]

\* validate_permit
ValidPermit(p) ==
    /\ time <= p.deadline
    /\ p.epoch = epoch[p.owner]
    /\ p.nonce = nonce[p.owner]

\* advance_nonce
AdvanceNonce(u) == nonce' = [nonce EXCEPT ![u] = @ + 1]

\* deposit_for, withdraw_for, borrow_for, repay_for: the call must be the one
\* the permit's terms name.
ExecuteFor(p, call) ==
    /\ ValidPermit(p)
    /\ AdvanceNonce(p.owner)
    /\ call = p.terms
    /\ executed' = Append(executed, p)
    /\ UNCHANGED <<time, epoch, signed, revoked>>

\* Mutant: revoking takes the nonce back to that of a new user.
RevokePermitsAnew(u) ==
    /\ nonce' = [nonce EXCEPT ![u] = 0]
    /\ revoked' = revoked \cup {p \in signed : p.owner = u}
    /\ UNCHANGED <<time, epoch, signed, executed>>

\* revoke_permits: every permit the user has signed so far is void.
RevokePermits(u) ==
    /\ epoch[u] < MaxEpoch
    /\ epoch' = [epoch EXCEPT ![u] = @ + 1]
    /\ revoked' = revoked \cup {p \in signed : p.owner = u}
    /\ UNCHANGED <<time, nonce, signed, executed>>

TimePasses ==
    /\ time < LastTime
    /\ time' = time + 1
    /\ UNCHANGED <<nonce, epoch, signed, executed, revoked>>

PermitsNext ==
    \/ \E u \in Owner : Sign(u) \/ RevokePermits(u)
    \/ \E p \in signed, call \in Terms : ExecuteFor(p, call)
    \/ TimePasses

PermitsSpec == PermitsInit /\ [][PermitsNext]_permitVars

-----------------------------------------------------------------------------
(* Properties.                                                             *)

Spent == {executed[i] : i \in DOMAIN executed}

\* Types of nonces, epochs and permits.
PermitsTypeOK ==
    /\ time \in Nat
    /\ nonce \in [Owner -> Nat] /\ epoch \in [Owner -> Nat]
    /\ signed \subseteq Permit /\ revoked \subseteq signed
    /\ executed \in Seq(signed)

\* Whatever is submitted again, late or out of order: what is executed is a
\* permit its owner signed and has not revoked, before its deadline, and a
\* permit is executed at most once (verify_and_consume_permit).
PermitsAreSpent ==
    [][executed' # executed =>
          \E p \in signed :
              /\ executed' = Append(executed, p)
              /\ p \notin Spent /\ p \notin revoked
              /\ time <= p.deadline]_permitVars
=============================================================================
