---------------------------- MODULE MCGovernance ----------------------------
(* Governance on two accounts, one pool-side payload, the pause, and two   *)
(* upgrades of different versions; or the permits of two users.  The two   *)
(* share no state, so a behaviour is about one of them.                    *)
EXTENDS Governance, Permits, TLC

CONSTANTS a1, a2, cap, pause, wasmA, wasmB, deposit, borrow

MCAddress == {a1, a2}
MCPayload == {cap, pause, wasmA, wasmB}
MCKindOf == cap :> "UpdateAssetCaps" @@ pause :> "SetPaused"
            @@ wasmA :> "Upgrade" @@ wasmB :> "Upgrade"
MCWasmVersion == cap :> 0 @@ pause :> 0 @@ wasmA :> 12 @@ wasmB :> 13
MCWasmSchema == cap :> 0 @@ pause :> 0 @@ wasmA :> 9 @@ wasmB :> 8

MCTerms == {deposit, borrow}

VARIABLE focus

focusVars == <<vars, permitVars, focus>>

AdminsStep == focus = "admins" /\ Next /\ UNCHANGED <<permitVars, focus>>
PermitsStep == focus = "permits" /\ PermitsNext /\ UNCHANGED <<vars, focus>>

AdminsLedgerClose ==
    focus = "admins" /\ LedgerClose /\ UNCHANGED <<permitVars, focus>>

FocusInit == Init /\ PermitsInit /\ focus \in {"admins", "permits"}

\* The fairness of FairSpec, for the behaviours that are about it.
FocusSpec ==
    /\ FocusInit
    /\ [][AdminsStep \/ PermitsStep]_focusVars
    /\ WF_focusVars(AdminsLedgerClose)
=============================================================================
