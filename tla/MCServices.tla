----------------------------- MODULE MCServices -----------------------------
(* The backend services that share no state with one another, checked in one  *)
(* run: focus names the service whose steps a behaviour takes, so that their  *)
(* state spaces add up instead of multiplying.                                *)
EXTENDS Deposits, AdminActions, RpcBreaker, Notifications, TLC

CONSTANTS d1, d2

VARIABLE focus
services == <<depositVars, adminAll, breakerVars, pushVars, focus>>

MCDepositAmount == (d1 :> 1) @@ (d2 :> 2)
MCNProviders == [s \in {"soroban", "horizon"} |-> IF s = "soroban" THEN 2 ELSE 1]
MCLoads == {[ops |-> {}, atOnce |-> 1, outages |-> 3],
            [ops |-> {"write", "validate", "lookup"}, atOnce |-> 2, outages |-> 1]}
MCKinds == {[sensitive |-> TRUE, liquidation |-> TRUE], [sensitive |-> FALSE, liquidation |-> FALSE]}

Init == /\ DepositInit /\ AdminInit /\ BreakerInit /\ PushInit
        /\ focus \in {"reports", "restarts", "actions", "config", "rpc", "push"}

(* Two services are looked at twice: two reports of deposits at once, or one  *)
(* over outages and restarts; two submissions of an action while nobody reads *)
(* the configuration, or one with readers.                                    *)
DepositStep(A) ==
    /\ \/ focus = "reports" /\ A /\ UNCHANGED <<restarts, outages>>
       \/ focus = "restarts" /\ A /\ post'[2] = post[2]
    /\ UNCHANGED <<focus, adminAll, breakerVars, pushVars>>
AdminStep(A) ==
    /\ \/ focus = "actions" /\ A /\ UNCHANGED <<build, clock>>
       \/ focus = "config" /\ A /\ submit'[2] = submit[2]
    /\ UNCHANGED <<focus, depositVars, breakerVars, pushVars>>
BreakerStep(A) == focus = "rpc" /\ A /\ UNCHANGED <<focus, depositVars, adminAll, pushVars>>
PushStep(A) == focus = "push" /\ A /\ UNCHANGED <<focus, depositVars, adminAll, breakerVars>>
Next == DepositStep(DepositNext) \/ AdminStep(AdminNext) \/ BreakerStep(BreakerNext) \/ PushStep(PushNext)

(* Watchers re-arm their timers, ledgers close, calls to the providers keep   *)
(* being made and end, cooldowns pass.  Steps of different services are never *)
(* enabled together: fairness of their disjunction is fairness of each.       *)
Fairness ==
    /\ WF_services(DepositStep(RunDepositWatcher) \/ AdminStep(RunActionWatcher) \/ BreakerStep(CallStep(1)))
    /\ WF_services(DepositStep(HorizonCloses) \/ BreakerStep(CallStep(2)))
    /\ SF_services(BreakerStep(\E c \in RpcCalls : ReadSoroban(c)))
    /\ SF_services(BreakerStep(\E c \in RpcCalls : ReadHorizon(c)))
    /\ \A s \in Services : WF_services(BreakerStep(CoolDown(s, 1)))

Spec == Init /\ [][Next]_services /\ Fairness

-----------------------------------------------------------------------------
(* The watchers bring what they were given to an end, whatever calls to       *)
(* Horizon or the RPC fail on the way: a pending deposit is confirmed or       *)
(* orphaned, and an admin transaction whose outcome is known leaves SENT       *)
(* (runWatcher of deposit-watcher and of admin-action-watcher).                *)
WatchersSettle == DepositsSettle /\ ActionsResolve
=============================================================================
