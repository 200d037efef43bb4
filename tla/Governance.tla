----------------------------- MODULE Governance -----------------------------
(***************************************************************************)
(* The admin set, the timelocked action queue, the pause switch and the    *)
(* upgrade/migrate path of the lending contract                            *)
(* (veilend-soroban/src/lib.rs).                                           *)
(*                                                                         *)
(* Every critical mutation goes through propose_* -> execute_* / cancel_*. *)
(* The ten kinds share propose_action, execute_action and cancel_action;   *)
(* they differ in the pause gate, in the delay (Upgrade has a floor) and   *)
(* in what applying the payload does.  Of the payloads, this module gives  *)
(* SetPaused and Upgrade their effect; the others act on the lending pool, *)
(* and their effects are the Apply* actions of LendingPool.  A call that   *)
(* panics reverts the whole transaction, so a call whose payload does not  *)
(* validate is no step at all: leaving the pool-dependent validation out   *)
(* only adds behaviours.                                                   *)
(***************************************************************************)
EXTENDS Integers

CONSTANTS
    Address,             \* accounts that may sign a call
    Founder,             \* the admin given to __constructor
    Payload,             \* the action payloads that can be proposed
    KindOf,              \* [Payload -> ActionKind]
    WasmVersion,         \* contract_version reported by an Upgrade's wasm
    WasmSchema,          \* STORAGE_SCHEMA_VERSION compiled into that wasm
    InitVersion,         \* CONTRACT_VERSION of the deployed wasm
    InitSchema,          \* STORAGE_SCHEMA_VERSION of the deployed wasm
    DEFAULT_TIMELOCK_LEDGERS,
    MIN_TIMELOCK_LEDGERS,
    MAX_TIMELOCK_LEDGERS,
    UPGRADE_MIN_TIMELOCK_LEDGERS,
    MaxLedger,           \* u32::MAX, where the ledger sequence saturates
    MaxActions           \* bound: how many actions are ever proposed

VARIABLES
    admins,              \* DataKey::AdminSet
    timelock,            \* DataKey::TimelockLedgers
    ledger,              \* env.ledger().sequence()
    nextActionId,        \* DataKey::NextActionId
    pending,             \* DataKey::PendingAction(id): id -> record
    paused,              \* DataKey::Paused
    version,             \* CONTRACT_VERSION of the running wasm
    schema,              \* STORAGE_SCHEMA_VERSION of the running wasm
    storedSchema,        \* DataKey::StorageSchemaVersion
    history              \* auxiliary: what became of every action id

vars == <<admins, timelock, ledger, nextActionId, pending, paused,
          version, schema, storedSchema, history>>

ActionKind == {"ConfigureAsset", "SetOraclePrice", "UpdateAssetCaps",
               "SetMinCollateralRatio", "SetPaused", "RecordProtocolFee",
               "WithdrawReserves", "Upgrade", "SetAssetRiskParams",
               "RecoverRewards"}

\* execute_set_paused and execute_upgrade do not call require_not_paused.
PauseExempt == {"SetPaused", "Upgrade"}

ASSUME AddressAssumption == Founder \in Address

ASSUME PayloadAssumption ==
    /\ KindOf \in [Payload -> ActionKind]
    /\ WasmVersion \in [Payload -> Nat]
    /\ WasmSchema \in [Payload -> Nat]

ASSUME ConstantAssumption ==
    /\ MIN_TIMELOCK_LEDGERS \in Nat
    /\ MAX_TIMELOCK_LEDGERS \in Nat
    /\ UPGRADE_MIN_TIMELOCK_LEDGERS \in Nat
    /\ DEFAULT_TIMELOCK_LEDGERS \in MIN_TIMELOCK_LEDGERS .. MAX_TIMELOCK_LEDGERS
    /\ MaxLedger \in Nat
    /\ MaxActions \in Nat
    /\ InitVersion \in Nat
    /\ InitSchema \in Nat

-----------------------------------------------------------------------------
PendingAction == [payload : Payload, executable_at_ledger : Nat,
                  proposer : Address]

Entry == [payload : Payload, proposedAt : Nat, timelock : Nat,
          outcome : {"pending", "executed", "cancelled"}, endedAt : Nat]

TimelockRange == MIN_TIMELOCK_LEDGERS .. MAX_TIMELOCK_LEDGERS

Init ==
    /\ admins = {Founder}
    /\ timelock = DEFAULT_TIMELOCK_LEDGERS
    /\ ledger = 0
    /\ nextActionId = 0
    /\ pending = [i \in {} |-> {}]
    /\ paused = FALSE
    /\ version = InitVersion
    /\ schema = InitSchema
    /\ storedSchema = InitSchema
    /\ history = [i \in {} |-> {}]

-----------------------------------------------------------------------------
(* Admin set and timelock: immediate, and reachable while paused.          *)

AddAdmin(caller, new_admin) ==
    /\ caller \in admins
    /\ admins' = admins \cup {new_admin}
    /\ UNCHANGED <<timelock, ledger, nextActionId, pending, paused,
                   version, schema, storedSchema, history>>

\* Mutant: the last-admin check is missing.
RemoveAdminUnchecked(caller, to_remove) ==
    /\ caller \in admins
    /\ to_remove \in admins
    /\ admins' = admins \ {to_remove}
    /\ UNCHANGED <<timelock, ledger, nextActionId, pending, paused,
                   version, schema, storedSchema, history>>

\* admins.len() <= 1 refuses; the stored Vec has no duplicates, so a second
\* member is a member other than to_remove.
RemoveAdmin(caller, to_remove) ==
    /\ caller \in admins
    /\ to_remove \in admins
    /\ admins # {to_remove}
    /\ admins' = admins \ {to_remove}
    /\ UNCHANGED <<timelock, ledger, nextActionId, pending, paused,
                   version, schema, storedSchema, history>>

SetTimelockLedgers(admin, ledgers) ==
    /\ admin \in admins
    /\ ledgers \in TimelockRange
    /\ timelock' = ledgers
    /\ UNCHANGED <<admins, ledger, nextActionId, pending, paused,
                   version, schema, storedSchema, history>>

-----------------------------------------------------------------------------
(* The queue.                                                              *)

Larger(m, n) == IF m >= n THEN m ELSE n

\* Mutant: a wide addition that runs past the last ledger sequence.
PlainAdd(m, n) == m + n

SaturatingAdd(m, n) == IF m + n > MaxLedger THEN MaxLedger ELSE m + n

\* Mutant: an upgrade waits only for the global timelock.
DelayNoFloor(kind) == timelock

\* The delay of a proposal made now, before it is added to the ledger sequence.
Delay(kind) ==
    IF kind = "Upgrade" THEN Larger(timelock, UPGRADE_MIN_TIMELOCK_LEDGERS)
                        ELSE timelock

Without(f, id) == [i \in DOMAIN f \ {id} |-> f[i]]

With(f, id, value) ==
    [i \in DOMAIN f \cup {id} |-> IF i = id THEN value ELSE f[i]]

ProposeAction(admin, payload) ==
    /\ admin \in admins
    /\ nextActionId < MaxActions
    /\ nextActionId' = nextActionId + 1
    /\ pending' = With(pending, nextActionId,
           [payload |-> payload,
            executable_at_ledger |-> SaturatingAdd(ledger, Delay(KindOf[payload])),
            proposer |-> admin])
    /\ history' = With(history, nextActionId,
           [payload |-> payload, proposedAt |-> ledger, timelock |-> timelock,
            outcome |-> "pending", endedAt |-> 0])
    /\ UNCHANGED <<admins, timelock, ledger, paused, version, schema,
                   storedSchema>>

\* Mutant: the wasm's reported version is not compared with the running one.
ApplyActionUnguarded(payload) ==
    /\ paused' = (paused \/ KindOf[payload] = "SetPaused")
    /\ version' = IF KindOf[payload] = "Upgrade" THEN WasmVersion[payload]
                                                ELSE version
    /\ schema' = IF KindOf[payload] = "Upgrade" THEN WasmSchema[payload]
                                               ELSE schema

\* apply_action, for the two payloads that act on this module's state.
ApplyAction(payload) ==
    CASE KindOf[payload] = "SetPaused" ->
           /\ paused' = TRUE
           /\ UNCHANGED <<version, schema>>
      [] KindOf[payload] = "Upgrade" ->
           /\ WasmVersion[payload] >= version
           /\ version' = WasmVersion[payload]
           /\ schema' = WasmSchema[payload]
           /\ UNCHANGED paused
      [] OTHER -> UNCHANGED <<paused, version, schema>>

\* Mutant: the finished action stays in storage.
FinishKeep(id, outcome) ==
    /\ pending' = pending
    /\ history' = [history EXCEPT ![id].outcome = outcome,
                                  ![id].endedAt = ledger]

\* What the records of a finished action become: the entry leaves storage.
Finish(id, outcome) ==
    /\ pending' = Without(pending, id)
    /\ history' = [history EXCEPT ![id].outcome = outcome,
                                  ![id].endedAt = ledger]

\* Executing needs a current admin, not the proposer.
ExecuteAction(admin, id) ==
    /\ admin \in admins
    /\ id \in DOMAIN pending
    /\ paused => KindOf[pending[id].payload] \in PauseExempt
    /\ ledger >= pending[id].executable_at_ledger
    /\ ApplyAction(pending[id].payload)
    /\ Finish(id, "executed")
    /\ UNCHANGED <<admins, timelock, ledger, nextActionId, storedSchema>>

\* The proposer may cancel even after losing the admin role.
CancelAction(caller, id) ==
    /\ id \in DOMAIN pending
    /\ caller \in admins \/ caller = pending[id].proposer
    /\ Finish(id, "cancelled")
    /\ UNCHANGED <<admins, timelock, ledger, nextActionId, paused, version,
                   schema, storedSchema>>

-----------------------------------------------------------------------------
(* set_paused(admin, false) and migrate are immediate.                     *)

Unpause(admin) ==
    /\ admin \in admins
    /\ paused' = FALSE
    /\ UNCHANGED <<admins, timelock, ledger, nextActionId, pending, version,
                   schema, storedSchema, history>>

Migrate(admin) ==
    /\ admin \in admins
    /\ storedSchema < schema
    /\ storedSchema' = schema
    /\ UNCHANGED <<admins, timelock, ledger, nextActionId, pending, paused,
                   version, schema, history>>

\* The network closes a ledger.
LedgerClose ==
    /\ ledger < MaxLedger
    /\ ledger' = ledger + 1
    /\ UNCHANGED <<admins, timelock, nextActionId, pending, paused, version,
                   schema, storedSchema, history>>

Next ==
    \/ \E caller, who \in Address :
          \/ AddAdmin(caller, who)
          \/ RemoveAdmin(caller, who)
    \/ \E admin \in Address :
          \/ \E ledgers \in 0 .. MAX_TIMELOCK_LEDGERS + 1 :
                SetTimelockLedgers(admin, ledgers)
          \/ \E payload \in Payload : ProposeAction(admin, payload)
          \/ \E id \in DOMAIN pending : \/ ExecuteAction(admin, id)
                                        \/ CancelAction(admin, id)
          \/ Unpause(admin)
          \/ Migrate(admin)
    \/ LedgerClose

Spec == Init /\ [][Next]_vars

\* Ledgers keep closing; nobody is obliged to call the contract.
FairSpec == Spec /\ WF_vars(LedgerClose)

-----------------------------------------------------------------------------
(* Properties.                                                             *)

\* Types: every id below NextActionId has a record, storage holds only such
\* ids, and the delay stays within the bounds of set_timelock_ledgers.
TypeOK ==
    /\ admins \subseteq Address
    /\ timelock \in TimelockRange
    /\ ledger \in 0 .. MaxLedger
    /\ nextActionId \in 0 .. MaxActions
    /\ DOMAIN pending \subseteq 0 .. nextActionId - 1
    /\ pending \in [DOMAIN pending -> PendingAction]
    /\ history \in [0 .. nextActionId - 1 -> Entry]
    /\ paused \in BOOLEAN
    /\ version \in Nat /\ schema \in Nat /\ storedSchema \in Nat

\* remove_admin never empties the set, whoever removes whom in which order:
\* an empty set would leave a paused contract that nobody can unpause.
AdminSetNeverEmpty == admins # {}

\* The ledger before which an action proposed with this entry may not run.
EarliestLedger(e) ==
    SaturatingAdd(e.proposedAt,
                  IF KindOf[e.payload] = "Upgrade"
                    THEN Larger(e.timelock, UPGRADE_MIN_TIMELOCK_LEDGERS)
                    ELSE e.timelock)

\* No action is applied before the delay that was in force when it was
\* proposed has passed, and no upgrade before the upgrade floor, however
\* set_timelock_ledgers is called in between and whoever executes it
\* (propose_action snapshots executable_at_ledger).
TimelockHonoured ==
    \A id \in DOMAIN history :
        history[id].outcome = "executed" =>
            history[id].endedAt >= EarliestLedger(history[id])

\* An action is applied or cancelled at most once, and what was decided and
\* when is never revised: its id is not handed out again and it is not left
\* in storage (next_action_id, the removal in execute_action/cancel_action).
OutcomeIsFinal ==
    [][\A id \in DOMAIN history :
          history[id].outcome # "pending" => /\ id \in DOMAIN history'
                                             /\ history'[id] = history[id]]_vars

\* Upgrades queued in one order and executed in the other never install an
\* older wasm, and migrate never takes the stored schema back
\* (apply_upgrade compares at execute time, not at propose time).
NoDowngrade == [][version' >= version /\ storedSchema' >= storedSchema]_vars

\* Every queued action is cancelled or executed or becomes executable: its
\* ledger is always one the network can reach (saturating_add).
EveryActionMatures ==
    \A id \in 0 .. MaxActions - 1 :
        id \in DOMAIN pending ~>
            (id \in DOMAIN pending => ledger >= pending[id].executable_at_ledger)
=============================================================================
