-------------------------- MODULE GovernanceProofs --------------------------
(***************************************************************************)
(* Proofs about the contract's governance and its signed permits.          *)
(*                                                                         *)
(* Governance: for every set of accounts and payloads, every timelock      *)
(* range, upgrade floor and ledger bound.                                  *)
(* TimelockHonoured speaks of finished actions only, so it is not          *)
(* inductive: that an action about to be executed has waited long enough   *)
(* follows from QueueAgrees, which ties each stored executable_at_ledger   *)
(* to the delay in force when the action was proposed.                     *)
(*                                                                         *)
(* Permits: no signed permit is executed twice, after its revocation or    *)
(* after its deadline, for any owners, terms, deadlines and bounds, and    *)
(* however many times and in whatever order signed permits are submitted.  *)
(* A single nonce and a single epoch per owner stand for all the permits   *)
(* the owner ever signed: spent ones lie below the nonce, revoked ones     *)
(* below the epoch, and neither ever goes back.                            *)
(***************************************************************************)
EXTENDS Governance, Permits, SequenceTheorems, TLAPS


\* What storage holds for an id is what was proposed under it, it is still
\* undecided, and its ledger is the one the proposal fixed.
QueueAgrees ==
    \A id \in DOMAIN pending :
        /\ history[id].outcome = "pending"
        /\ history[id].payload = pending[id].payload
        /\ pending[id].executable_at_ledger = EarliestLedger(history[id])

\* The inductive invariant.
IInv == TypeOK /\ QueueAgrees /\ TimelockHonoured

-----------------------------------------------------------------------------
\* The numbers and domains the type invariant gives.
LEMMA Domains ==
    ASSUME TypeOK
    PROVE  /\ ledger \in Nat /\ timelock \in Nat /\ nextActionId \in Nat
           /\ DOMAIN history = 0 .. nextActionId - 1
           /\ nextActionId \notin DOMAIN history
           /\ DOMAIN pending \subseteq DOMAIN history
           /\ nextActionId \notin DOMAIN pending
<1>1. /\ ledger \in Nat /\ timelock \in Nat /\ nextActionId \in Nat
  BY ConstantAssumption DEF TypeOK, TimelockRange
<1>2. DOMAIN history = 0 .. nextActionId - 1
  BY DEF TypeOK
<1>3. nextActionId \notin 0 .. nextActionId - 1
  BY <1>1
<1>4. DOMAIN pending \subseteq 0 .. nextActionId - 1
  BY DEF TypeOK
<1> QED BY <1>1, <1>2, <1>3, <1>4

\* A new deployment has an empty queue.
LEMMA InitTypeOK == Init => TypeOK
<1> SUFFICES ASSUME Init PROVE TypeOK
  OBVIOUS
<1>1. 0 .. nextActionId - 1 = {}
  BY DEF Init
<1>2. /\ DOMAIN pending = {} /\ pending \in [{} -> PendingAction]
      /\ history \in [{} -> Entry]
  BY DEF Init
<1>3. /\ admins \subseteq Address /\ timelock \in TimelockRange
      /\ ledger \in 0 .. MaxLedger /\ nextActionId \in 0 .. MaxActions
      /\ version \in Nat /\ schema \in Nat /\ storedSchema \in Nat
  BY AddressAssumption, ConstantAssumption DEF Init, TimelockRange
<1>4. paused \in BOOLEAN
  BY DEF Init
<1> QED BY <1>1, <1>2, <1>3, <1>4 DEF TypeOK

\* SaturatingAdd returns a ledger sequence.
LEMMA SaturatingAddType ==
    ASSUME NEW m \in Nat, NEW n \in Nat
    PROVE  SaturatingAdd(m, n) \in Nat
BY ConstantAssumption DEF SaturatingAdd

\* The delay is a natural number, whatever the kind.
LEMMA DelayType == ASSUME TypeOK, NEW k PROVE Delay(k) \in Nat
BY ConstantAssumption DEF TypeOK, TimelockRange, Delay, Larger

-----------------------------------------------------------------------------
\* Every state the contract's governance reaches is well typed.
THEOREM TypeCorrect == Spec => []TypeOK
<1>1. Init => TypeOK
  BY InitTypeOK
<1>2. TypeOK /\ [Next]_vars => TypeOK'
  <2> SUFFICES ASSUME TypeOK, [Next]_vars PROVE TypeOK'
    OBVIOUS
  <2> USE ConstantAssumption, PayloadAssumption
  <2>1. CASE UNCHANGED vars
    BY <2>1 DEF vars, TypeOK
  <2>2. ASSUME NEW caller \in Address, NEW who \in Address,
               AddAdmin(caller, who) \/ RemoveAdmin(caller, who)
        PROVE TypeOK'
    BY <2>2 DEF AddAdmin, RemoveAdmin, TypeOK
  <2>3. ASSUME NEW admin \in Address, NEW n,
               SetTimelockLedgers(admin, n)
        PROVE TypeOK'
    BY <2>3 DEF SetTimelockLedgers, TypeOK
  <2>4. ASSUME NEW admin \in Address, NEW p \in Payload,
               ProposeAction(admin, p)
        PROVE TypeOK'
    <3> DEFINE rec == [payload |-> p,
                       executable_at_ledger |->
                           SaturatingAdd(ledger, Delay(KindOf[p])),
                       proposer |-> admin]
               ent == [payload |-> p, proposedAt |-> ledger,
                       timelock |-> timelock, outcome |-> "pending",
                       endedAt |-> 0]
    <3>1. rec \in PendingAction /\ ent \in Entry
      <4>1. SaturatingAdd(ledger, Delay(KindOf[p])) \in Nat
        <5>1. Delay(KindOf[p]) \in Nat /\ ledger \in Nat
          BY Domains, DelayType
        <5> QED BY <5>1, SaturatingAddType
      <4> QED BY <4>1, Domains DEF PendingAction, Entry
    <3>0. 0 .. nextActionId' - 1 = DOMAIN history \cup {nextActionId}
      <4>1. nextActionId' = nextActionId + 1
        BY <2>4 DEF ProposeAction
      <4> QED BY <4>1, Domains
    <3>2. /\ DOMAIN pending' \subseteq 0 .. nextActionId' - 1
          /\ pending' \in [DOMAIN pending' -> PendingAction]
      <4>1. pending' = [i \in DOMAIN pending \cup {nextActionId} |->
                           IF i = nextActionId THEN rec ELSE pending[i]]
        BY <2>4 DEF ProposeAction, With
      <4>2. pending \in [DOMAIN pending -> PendingAction]
        BY DEF TypeOK
      <4> HIDE DEF rec
      <4> QED BY <3>0, <3>1, <4>1, <4>2, Domains
    <3>3. history' \in [0 .. nextActionId' - 1 -> Entry]
      <4>2. history' = [i \in DOMAIN history \cup {nextActionId} |->
                           IF i = nextActionId THEN ent ELSE history[i]]
        BY <2>4 DEF ProposeAction, With
      <4>3. history \in [DOMAIN history -> Entry]
        BY DEF TypeOK
      <4> HIDE DEF ent
      <4> DEFINE ids == DOMAIN history \cup {nextActionId}
      <4>4. history' \in [ids -> Entry]
        <5>1. history' = [i \in ids |-> IF i = nextActionId THEN ent ELSE history[i]]
          BY <4>2
        <5> HIDE DEF ids
        <5>2. \A i \in ids : i # nextActionId => i \in DOMAIN history
          BY DEF ids
        <5> QED BY <3>1, <4>3, <5>1, <5>2
      <4> HIDE DEF ids
      <4> QED BY <3>0, <4>4 DEF ids
    <3>4. nextActionId' \in 0 .. MaxActions
      BY <2>4 DEF ProposeAction, TypeOK
    <3> QED BY <2>4, <3>2, <3>3, <3>4 DEF ProposeAction, TypeOK
  <2>5. ASSUME NEW id \in DOMAIN pending, NEW o \in {"executed", "cancelled"},
               Finish(id, o)
        PROVE /\ DOMAIN pending' \subseteq 0 .. nextActionId - 1
              /\ pending' \in [DOMAIN pending' -> PendingAction]
              /\ history' \in [0 .. nextActionId - 1 -> Entry]
    <3>1. ledger \in Nat
      BY DEF TypeOK
    <3> QED BY <2>5, <3>1 DEF Finish, Without, TypeOK, Entry
  <2>6. ASSUME NEW admin \in Address, NEW id \in DOMAIN pending,
               ExecuteAction(admin, id)
        PROVE TypeOK'
    <3>1. /\ paused' \in BOOLEAN /\ version' \in Nat /\ schema' \in Nat
      <4>1. pending[id].payload \in Payload
        BY DEF TypeOK, PendingAction
      <4> QED BY <2>6, <4>1 DEF ExecuteAction, ApplyAction, TypeOK
    <3> QED BY <2>5, <2>6, <3>1 DEF ExecuteAction, TypeOK
  <2>7. ASSUME NEW caller \in Address, NEW id \in DOMAIN pending,
               CancelAction(caller, id)
        PROVE TypeOK'
    BY <2>5, <2>7 DEF CancelAction, TypeOK
  <2>8. ASSUME NEW admin \in Address, Unpause(admin) \/ Migrate(admin)
        PROVE TypeOK'
    BY <2>8 DEF Unpause, Migrate, TypeOK
  <2>9. CASE LedgerClose
    BY <2>9 DEF LedgerClose, TypeOK
  <2> QED BY <2>1, <2>2, <2>3, <2>4, <2>6, <2>7, <2>8, <2>9 DEF Next
<1> QED BY <1>1, <1>2, PTL DEF Spec

-----------------------------------------------------------------------------
\* remove_admin can never leave the contract without an admin.
THEOREM AdminsRemain == Spec => []AdminSetNeverEmpty
<1>1. Init => AdminSetNeverEmpty
  BY DEF Init, AdminSetNeverEmpty
<1>2. AdminSetNeverEmpty /\ [Next]_vars => AdminSetNeverEmpty'
  BY DEF AdminSetNeverEmpty, Next, vars, AddAdmin, RemoveAdmin,
         SetTimelockLedgers, ProposeAction, ExecuteAction, CancelAction,
         Unpause, Migrate, LedgerClose
<1> QED BY <1>1, <1>2, PTL DEF Spec

-----------------------------------------------------------------------------
\* What a step that leaves the queue alone preserves.
LEMMA QueueUntouched ==
    ASSUME IInv, TypeOK', UNCHANGED <<pending, history>>
    PROVE  IInv'
BY DEF IInv, QueueAgrees, TimelockHonoured, EarliestLedger

\* Storage and history agree in every reachable state of the queue.
THEOREM QueueInvariant == Spec => []IInv
<1>1. Init => IInv
  BY InitTypeOK DEF Init, IInv, QueueAgrees, TimelockHonoured
<1>2. IInv /\ TypeOK' /\ [Next]_vars => IInv'
  <2> SUFFICES ASSUME IInv, TypeOK', [Next]_vars PROVE IInv'
    OBVIOUS
  <2> USE ConstantAssumption, PayloadAssumption
  <2>1. ASSUME NEW admin \in Address, NEW p \in Payload,
               ProposeAction(admin, p)
        PROVE IInv'
    <3> DEFINE ent == [payload |-> p, proposedAt |-> ledger,
                       timelock |-> timelock, outcome |-> "pending",
                       endedAt |-> 0]
    <3>1. /\ nextActionId \notin DOMAIN history
          /\ DOMAIN pending \subseteq DOMAIN history
      BY Domains DEF IInv
    <3>2. /\ DOMAIN history' = DOMAIN history \cup {nextActionId}
          /\ history'[nextActionId] = ent
          /\ \A i \in DOMAIN history : history'[i] = history[i]
      BY <2>1, <3>1 DEF ProposeAction, With
    <3>3. /\ DOMAIN pending' = DOMAIN pending \cup {nextActionId}
          /\ pending'[nextActionId].payload = p
          /\ pending'[nextActionId].executable_at_ledger
                = SaturatingAdd(ledger, Delay(KindOf[p]))
          /\ \A i \in DOMAIN pending : pending'[i] = pending[i]
      BY <2>1, <3>1 DEF ProposeAction, With
    <3>4. EarliestLedger(ent) = SaturatingAdd(ledger, Delay(KindOf[p]))
      BY DEF EarliestLedger, Delay
    <3>5. QueueAgrees'
      BY <3>1, <3>2, <3>3, <3>4 DEF IInv, QueueAgrees, EarliestLedger
    <3>6. TimelockHonoured'
      BY <3>1, <3>2 DEF IInv, TimelockHonoured, EarliestLedger
    <3> QED BY <3>5, <3>6 DEF IInv
  <2>2. ASSUME NEW id \in DOMAIN pending, NEW o \in {"executed", "cancelled"},
               Finish(id, o),
               o = "executed" => ledger >= pending[id].executable_at_ledger
        PROVE  IInv'
    <3>1. /\ DOMAIN pending \subseteq DOMAIN history
          /\ \A i \in DOMAIN history : history[i] \in Entry
      BY DEF IInv, TypeOK
    <3>2. /\ DOMAIN history' = DOMAIN history
          /\ \A i \in DOMAIN history \ {id} : history'[i] = history[i]
          /\ history'[id] = [history[id] EXCEPT !.outcome = o,
                                                !.endedAt = ledger]
      BY <2>2, <3>1 DEF Finish, IInv, TypeOK
    <3>3. /\ DOMAIN pending' = DOMAIN pending \ {id}
          /\ \A i \in DOMAIN pending \ {id} : pending'[i] = pending[i]
      BY <2>2 DEF Finish, Without
    <3>4. /\ history'[id].outcome = o /\ history'[id].endedAt = ledger
          /\ EarliestLedger(history'[id]) = EarliestLedger(history[id])
      BY <3>1, <3>2 DEF Entry, EarliestLedger
    <3>5. QueueAgrees'
      BY <3>1, <3>2, <3>3 DEF IInv, QueueAgrees, EarliestLedger
    <3>6. o = "executed" => history'[id].endedAt >= EarliestLedger(history'[id])
      BY <2>2, <3>4 DEF IInv, QueueAgrees
    <3>7. TimelockHonoured'
      BY <3>1, <3>2, <3>4, <3>6 DEF IInv, TimelockHonoured, EarliestLedger
    <3> QED BY <3>5, <3>7 DEF IInv
  <2>3. ASSUME NEW admin \in Address, NEW id \in DOMAIN pending,
               ExecuteAction(admin, id)
        PROVE IInv'
    BY <2>2, <2>3 DEF ExecuteAction
  <2>4. ASSUME NEW caller \in Address, NEW id \in DOMAIN pending,
               CancelAction(caller, id)
        PROVE IInv'
    BY <2>2, <2>4 DEF CancelAction
  <2>5. CASE UNCHANGED <<pending, history>>
    BY <2>5, QueueUntouched
  <2> QED
    BY <2>1, <2>3, <2>4, <2>5
       DEF Next, vars, AddAdmin, RemoveAdmin, SetTimelockLedgers, Unpause,
           Migrate, LedgerClose
<1> QED BY <1>1, <1>2, TypeCorrect, PTL DEF Spec

\* No timelocked action is applied before the delay in force at its proposal,
\* nor an upgrade before the floor: set_timelock_ledgers cannot shorten it.
THEOREM TimelockIsHonoured == Spec => []TimelockHonoured
BY QueueInvariant, PTL DEF IInv

-----------------------------------------------------------------------------
\* A finished action is out of storage, so neither execute_* nor cancel_* can
\* reach it again, and ProposeAction takes an id that was never used.
THEOREM OutcomesAreFinal == Spec => OutcomeIsFinal
<1> DEFINE Final == \A id \in DOMAIN history :
                       history[id].outcome # "pending" =>
                           /\ id \in DOMAIN history'
                           /\ history'[id] = history[id]
<1>1. IInv /\ [Next]_vars => [Final]_vars
  <2> SUFFICES ASSUME IInv, Next PROVE Final
    BY DEF vars
  <2>1. CASE UNCHANGED history
    BY <2>1
  <2>2. ASSUME NEW admin \in Address, NEW p \in Payload,
               ProposeAction(admin, p)
        PROVE Final
    <3>1. nextActionId \notin DOMAIN history
      BY Domains DEF IInv
    <3> QED BY <2>2, <3>1 DEF ProposeAction, With
  <2>3. ASSUME NEW id \in DOMAIN pending, NEW o, Finish(id, o)
        PROVE Final
    <3>1. history[id].outcome = "pending"
      BY DEF IInv, QueueAgrees
    <3>2. /\ DOMAIN history' = DOMAIN history
          /\ \A i \in DOMAIN history \ {id} : history'[i] = history[i]
      BY <2>3 DEF Finish, IInv, TypeOK
    <3> QED BY <3>1, <3>2
  <2> QED
    BY <2>1, <2>2, <2>3
       DEF Next, AddAdmin, RemoveAdmin, SetTimelockLedgers, ExecuteAction,
           CancelAction, Unpause, Migrate, LedgerClose
<1> QED BY <1>1, QueueInvariant, PTL DEF Spec, OutcomeIsFinal

\* Whatever the order in which queued upgrades are executed, neither the
\* running version nor the stored schema version ever goes back.
THEOREM NeverDowngrades == Spec => NoDowngrade
<1> DEFINE Up == version' >= version /\ storedSchema' >= storedSchema
<1>1. TypeOK /\ [Next]_vars => [Up]_vars
  <2> SUFFICES ASSUME TypeOK, Next PROVE Up
    BY DEF vars
  <2>1. version \in Nat /\ schema \in Nat /\ storedSchema \in Nat
    BY DEF TypeOK
  <2>2. ASSUME NEW admin \in Address, NEW id \in DOMAIN pending,
               ExecuteAction(admin, id)
        PROVE Up
    <3>1. WasmVersion[pending[id].payload] \in Nat
      BY PayloadAssumption DEF TypeOK, PendingAction
    <3> QED BY <2>1, <2>2, <3>1 DEF ExecuteAction, ApplyAction
  <2>3. ASSUME NEW admin \in Address, Migrate(admin) PROVE Up
    BY <2>1, <2>3 DEF Migrate
  <2>4. CASE UNCHANGED <<version, storedSchema>>
    BY <2>1, <2>4
  <2> QED
    BY <2>2, <2>3, <2>4
       DEF Next, AddAdmin, RemoveAdmin, SetTimelockLedgers, ProposeAction,
           CancelAction, Unpause, LedgerClose
<1> QED BY <1>1, TypeCorrect, PTL DEF Spec, NoDowngrade

-----------------------------------------------------------------------------
(* Permits.                                                                  *)

SpentBelowNonce == \A p \in Spent : p.nonce < nonce[p.owner]

RevokedBelowEpoch == \A p \in revoked : p.epoch < epoch[p.owner]

SignedUpToEpoch == \A p \in signed : p.epoch <= epoch[p.owner]

PInv == PermitsTypeOK /\ SpentBelowNonce /\ RevokedBelowEpoch /\ SignedUpToEpoch

-----------------------------------------------------------------------------
(* The record of executed permits.                                         *)

LEMMA SpentAreSigned == PermitsTypeOK => Spent \subseteq signed
BY ElementOfSeq DEF PermitsTypeOK, Spent

LEMMA SpentGrowsByOne ==
    ASSUME PermitsTypeOK, NEW p \in signed, executed' = Append(executed, p),
           UNCHANGED signed
    PROVE  /\ executed' \in Seq(signed')
           /\ Spent' = Spent \cup {p}
<1>1. executed \in Seq(signed)
  BY DEF PermitsTypeOK
<1>2. /\ Append(executed, p) \in Seq(signed)
      /\ Len(Append(executed, p)) = Len(executed) + 1
      /\ \A i \in 1 .. Len(executed) : Append(executed, p)[i] = executed[i]
      /\ Append(executed, p)[Len(executed) + 1] = p
  BY <1>1, AppendProperties
<1>3. /\ DOMAIN executed = 1 .. Len(executed) /\ Len(executed) \in Nat
      /\ DOMAIN executed' = 1 .. Len(executed) + 1
  BY <1>1, <1>2, LenProperties
<1>4. \A i \in DOMAIN executed' :
         \/ i \in DOMAIN executed /\ executed'[i] = executed[i]
         \/ i = Len(executed) + 1 /\ executed'[i] = p
  BY <1>2, <1>3
<1>5. /\ Len(executed) + 1 \in DOMAIN executed'
      /\ \A i \in DOMAIN executed : i \in DOMAIN executed'
  BY <1>3
<1>6. Spent' \subseteq Spent \cup {p}
  BY <1>4 DEF Spent
<1>7. Spent \cup {p} \subseteq Spent'
  BY <1>2, <1>3, <1>5 DEF Spent
<1> QED BY <1>2, <1>6, <1>7

-----------------------------------------------------------------------------
(* One lemma per action.                                                   *)

LEMMA SignSound ==
    ASSUME PInv, NEW u \in Owner, Sign(u)
    PROVE  PInv'
<1>1. PICK t \in Terms, n \in 0 .. MaxNonce - 1, d \in Deadlines :
         signed' = signed \cup {[owner |-> u, terms |-> t, nonce |-> n,
                                 epoch |-> epoch[u], deadline |-> d]}
  BY DEF Sign
<1> DEFINE p == [owner |-> u, terms |-> t, nonce |-> n,
                 epoch |-> epoch[u], deadline |-> d]
<1>2. UNCHANGED <<time, nonce, epoch, executed, revoked>>
  BY DEF Sign
<1>3. epoch[u] \in Nat /\ p \in Permit /\ p.epoch <= epoch[p.owner]
  BY PermitAssumption DEF PInv, PermitsTypeOK, Permit
<1> HIDE DEF p
<1>4. signed' = signed \cup {p}
  BY <1>1 DEF p
<1>5. executed' \in Seq(signed')
  <2>1. executed \in Seq(signed)
    BY DEF PInv, PermitsTypeOK
  <2> QED BY <1>2, <1>4, <2>1, SeqDef
<1>6. PermitsTypeOK'
  BY <1>2, <1>3, <1>4, <1>5 DEF PInv, PermitsTypeOK
<1>7. SpentBelowNonce' /\ RevokedBelowEpoch'
  BY <1>2 DEF PInv, SpentBelowNonce, RevokedBelowEpoch, Spent
<1>8. SignedUpToEpoch'
  BY <1>2, <1>3, <1>4 DEF PInv, SignedUpToEpoch
<1> QED BY <1>6, <1>7, <1>8 DEF PInv

LEMMA ExecuteSound ==
    ASSUME PInv, NEW p \in signed, NEW call \in Terms, ExecuteFor(p, call)
    PROVE  PInv' /\ p \notin Spent /\ p \notin revoked /\ time <= p.deadline
<1>1. /\ executed' = Append(executed, p)
      /\ nonce' = [nonce EXCEPT ![p.owner] = @ + 1]
      /\ UNCHANGED <<time, epoch, signed, revoked>>
      /\ time <= p.deadline
      /\ p.epoch = epoch[p.owner] /\ p.nonce = nonce[p.owner]
  BY DEF ExecuteFor, ValidPermit, AdvanceNonce
<1>2. /\ nonce \in [Owner -> Nat] /\ epoch \in [Owner -> Nat]
      /\ signed \subseteq Permit /\ p.owner \in Owner
  BY DEF PInv, PermitsTypeOK, Permit
<1>3. Spent' = Spent \cup {p} /\ executed' \in Seq(signed')
  BY <1>1, SpentGrowsByOne DEF PInv
<1>4. p \notin Spent
  BY <1>1, <1>2 DEF PInv, SpentBelowNonce
<1>5. p \notin revoked
  BY <1>1, <1>2 DEF PInv, RevokedBelowEpoch
<1>6. PermitsTypeOK'
  BY <1>1, <1>2, <1>3 DEF PInv, PermitsTypeOK
<1>7. SpentBelowNonce'
  <2> SUFFICES ASSUME NEW q \in Spent' PROVE q.nonce < nonce'[q.owner]
    BY DEF SpentBelowNonce
  <2>1. q \in Permit
    BY <1>2, <1>3, SpentAreSigned DEF PInv
  <2>2. q.owner \in Owner /\ q.nonce \in Nat
    BY <2>1 DEF Permit
  <2>3. CASE q \in Spent
    <3>1. q.nonce < nonce[q.owner]
      BY <2>3 DEF PInv, SpentBelowNonce
    <3> QED BY <1>1, <1>2, <2>2, <3>1
  <2>4. CASE q = p
    BY <1>1, <1>2, <2>4
  <2> QED BY <1>3, <2>3, <2>4
<1>8. RevokedBelowEpoch' /\ SignedUpToEpoch'
  BY <1>1 DEF PInv, RevokedBelowEpoch, SignedUpToEpoch
<1> QED BY <1>1, <1>4, <1>5, <1>6, <1>7, <1>8 DEF PInv

LEMMA RevokeSound ==
    ASSUME PInv, NEW u \in Owner, RevokePermits(u)
    PROVE  PInv'
<1>1. /\ epoch' = [epoch EXCEPT ![u] = @ + 1]
      /\ revoked' = revoked \cup {p \in signed : p.owner = u}
      /\ UNCHANGED <<time, nonce, signed, executed>>
  BY DEF RevokePermits
<1>2. /\ epoch \in [Owner -> Nat] /\ signed \subseteq Permit
      /\ revoked \subseteq signed
  BY DEF PInv, PermitsTypeOK
<1>3. PermitsTypeOK'
  BY <1>1, <1>2 DEF PInv, PermitsTypeOK
<1>4. SpentBelowNonce'
  BY <1>1 DEF PInv, SpentBelowNonce, Spent
<1>5. \A q \in signed : /\ q.owner \in Owner /\ q.epoch \in Nat
                        /\ q.epoch <= epoch[q.owner]
  BY <1>2 DEF PInv, SignedUpToEpoch, Permit
<1>6. RevokedBelowEpoch'
  <2> SUFFICES ASSUME NEW q \in revoked' PROVE q.epoch < epoch'[q.owner]
    BY DEF RevokedBelowEpoch
  <2>1. CASE q \in revoked
    <3>1. q.epoch < epoch[q.owner] /\ q \in signed
      BY <1>2, <2>1 DEF PInv, RevokedBelowEpoch
    <3> QED BY <1>1, <1>2, <1>5, <3>1
  <2>2. CASE q \in signed /\ q.owner = u
    BY <1>1, <1>2, <1>5, <2>2
  <2> QED BY <1>1, <2>1, <2>2
<1>7. SignedUpToEpoch'
  BY <1>1, <1>2, <1>5 DEF SignedUpToEpoch
<1> QED BY <1>3, <1>4, <1>6, <1>7 DEF PInv

LEMMA TimeSound ==
    ASSUME PInv, TimePasses \/ UNCHANGED permitVars
    PROVE  PInv'
<1>1. time' \in Nat /\ UNCHANGED <<nonce, epoch, signed, executed, revoked>>
  BY DEF TimePasses, permitVars, PInv, PermitsTypeOK
<1>2. PermitsTypeOK'
  BY <1>1 DEF PInv, PermitsTypeOK
<1>3. SpentBelowNonce'
  BY <1>1 DEF PInv, SpentBelowNonce, Spent
<1>4. RevokedBelowEpoch' /\ SignedUpToEpoch'
  BY <1>1 DEF PInv, RevokedBelowEpoch, SignedUpToEpoch
<1> QED BY <1>2, <1>3, <1>4 DEF PInv

-----------------------------------------------------------------------------
(* The theorems.                                                           *)

LEMMA PermitsInitSound == PermitsInit => PInv
<1> SUFFICES ASSUME PermitsInit PROVE PInv
  OBVIOUS
<1>1. PermitsTypeOK
  BY EmptySeq DEF PermitsInit, PermitsTypeOK
<1>2. Spent = {}
  BY DEF PermitsInit, Spent
<1> QED
  BY <1>1, <1>2
     DEF PermitsInit, PInv, SpentBelowNonce, RevokedBelowEpoch, SignedUpToEpoch

\* Nonces and epochs stay ahead of the permits that are spent and revoked.
THEOREM NoncesAndEpochsGuard == PermitsSpec => []PInv
<1>1. PInv /\ [PermitsNext]_permitVars => PInv'
  <2> SUFFICES ASSUME PInv, [PermitsNext]_permitVars PROVE PInv'
    OBVIOUS
  <2>1. ASSUME NEW u \in Owner, Sign(u) \/ RevokePermits(u) PROVE PInv'
    BY <2>1, SignSound, RevokeSound
  <2>2. ASSUME NEW p \in signed, NEW call \in Terms, ExecuteFor(p, call)
        PROVE  PInv'
    BY <2>2, ExecuteSound
  <2>3. CASE TimePasses \/ UNCHANGED permitVars
    BY <2>3, TimeSound
  <2> QED BY <2>1, <2>2, <2>3 DEF PermitsNext
<1> QED BY <1>1, PermitsInitSound, PTL DEF PermitsSpec

\* What is executed is a signed, unrevoked permit that was never executed
\* before, before its deadline (verify_and_consume_permit).
THEOREM PermitsAreSpentOnce == PermitsSpec => PermitsAreSpent
<1>1. PInv /\ [PermitsNext]_permitVars =>
        [executed' # executed =>
            \E p \in signed : /\ executed' = Append(executed, p)
                              /\ p \notin Spent /\ p \notin revoked
                              /\ time <= p.deadline]_permitVars
  <2> SUFFICES ASSUME PInv, PermitsNext, executed' # executed
               PROVE  \E p \in signed : /\ executed' = Append(executed, p)
                                        /\ p \notin Spent /\ p \notin revoked
                                        /\ time <= p.deadline
    OBVIOUS
  <2>1. PICK p \in signed, call \in Terms : ExecuteFor(p, call)
    BY DEF PermitsNext, Sign, RevokePermits, TimePasses
  <2>2. executed' = Append(executed, p)
    BY <2>1 DEF ExecuteFor
  <2> QED BY <2>1, <2>2, ExecuteSound
<1> QED BY <1>1, NoncesAndEpochsGuard, PTL DEF PermitsSpec, PermitsAreSpent
=============================================================================
