----------------------------- MODULE MCClients -----------------------------
(* The mobile application's session and its handling of the secret key, the   *)
(* browser's sign-in and the two halves of its dashboard: focus names the one  *)
(* whose steps a behaviour takes, so that their state spaces add up.           *)
EXTENDS MobileDevice, WebDashboard, WalletSession, TLC

CONSTANTS w1, w2, ga, gb, xa, usdc

VARIABLE focus
clients == <<mobileVars, custodyVars, webVars, sessionVars, focus>>

(* One scenario of the mobile application each: how often a behaviour may do  *)
(* what costs states.                                                         *)
Quota(c, le, f, lo, e, o, k, a, h, r, g) ==
    ("connect" :> c) @@ ("lend" :> le) @@ ("fetch" :> f) @@ ("logout" :> lo) @@ ("expire" :> e) @@
    ("outage" :> o) @@ ("lock" :> k) @@ ("away" :> a) @@ ("half" :> h) @@ ("relaunch" :> r) @@ ("hang" :> g)
FewSteps == Quota(1, 2, 2, 0, 0, 1, 0, 0, 0, 0, 0)
MCQuotas == {FewSteps, Quota(2, 2, 1, 0, 1, 0, 0, 0, 0, 0, 0),
             Quota(2, 1, 1, 1, 0, 0, 0, 0, 0, 0, 1), Quota(1, 0, 0, 1, 0, 0, 1, 2, 1, 1, 0),
             Quota(2, 0, 1, 0, 1, 0, 1, 1, 0, 1, 0), Quota(1, 0, 0, 0, 0, 0, 3, 1, 0, 1, 0)}

MCContexts == {[wallet |-> 2, deposited |-> 0, debt |-> 1, credit |-> 1],
               [wallet |-> 1, deposited |-> 2, debt |-> 0, credit |-> 2]}

Used(s, r, m) == [signIns |-> s, reloads |-> r, moves |-> m]
Budget(j, v, k, o, a, l) ==
    ("join" :> j) @@ ("visit" :> v) @@ ("lock" :> k) @@ ("open" :> o) @@ ("ask" :> a) @@ ("leave" :> l)
MCBudgets == {Budget(2, 1, 2, 0, 0, 1), Budget(1, 1, 0, 2, 3, 1), Budget(2, 0, 0, 0, 2, 1)}

MCTallies == {Used(0, 1, 1), Used(1, 0, 0)}

(* A behaviour with another focus needs one scenario only.                    *)
Init == /\ MobileInit /\ HookInit /\ TrayInit /\ SessionInit /\ CustodyInit /\ focus \in {"mobile", "custody", "hooks", "tray", "wallet"}
        /\ focus # "wallet" => /\ granted = <<>> /\ tally = Used(1, 0, 0) /\ ~browser.token /\ ~browser.sendsToken
                              /\ extension = [installed |-> TRUE, unlocked |-> TRUE, address |-> ga]
        /\ focus # "custody" => budget = Budget(2, 0, 0, 0, 2, 1) /\ vault.key = NoKey
        /\ focus # "mobile" => quota = FewSteps
        /\ focus # "tray" => form = [wallet |-> 1, deposited |-> 2, debt |-> 0, credit |-> 2]

MobileStep(A) == focus = "mobile" /\ A /\ UNCHANGED <<focus, custodyVars, webVars, sessionVars>>
OfCustody(A) == focus = "custody" /\ A /\ UNCHANGED <<focus, mobileVars, webVars, sessionVars>>
OfHooks(A) == focus = "hooks" /\ A /\ UNCHANGED <<focus, mobileVars, custodyVars, tray, sessionVars>>
OfTray(A) == focus = "tray" /\ A /\ UNCHANGED <<focus, mobileVars, custodyVars, hooks, sessionVars>>
OfWallet(A) == focus = "wallet" /\ A /\ UNCHANGED <<focus, mobileVars, custodyVars, webVars>>
Next == MobileStep(MobileNext) \/ OfCustody(CustodyNext) \/ OfHooks(HookStep) \/ OfTray(TrayStep) \/ OfWallet(SessionNext)

(* A lending under way goes on to its end; the browser's timers fire, its     *)
(* polls recur and its requests are answered.  Steps of different parts are   *)
(* never enabled together: fairness of their disjunction is fairness of each. *)
Fairness ==
    /\ WF_clients(MobileStep(LendingStep(1)) \/ OfHooks(PageTimer) \/ OfWallet(InitializeWallet))
    /\ WF_clients(MobileStep(LendingStep(2)) \/ OfHooks(Refetch) \/ OfWallet(RunHealthCheck))
    /\ WF_clients(OfWallet(CheckStep))
    /\ \A a \in Accounts : WF_clients(OfHooks(PageAnswered(a)))

Spec == Init /\ [][Next]_clients /\ Fairness

-----------------------------------------------------------------------------
(* Clients come to rest: every lending call of the mobile application ends,    *)
(* the dashboard's hook ends up with the connected wallet's own data, and a    *)
(* warning about the wallet ends when its cause does.                          *)
ClientsSettle == LendingEnds /\ OwnDataInTheEnd /\ WarningsEnd
=============================================================================
