---------------------------- MODULE WebDashboard ----------------------------
(* The browser client's dashboard: the hook that keeps a wallet's figures on  *)
(* the screen while the wallet changes under it (useDashboardData), and the   *)
(* tray that submits an action: its form, the pipeline of simulation,         *)
(* signature, submission and polling, and the store that shows the action     *)
(* before it is confirmed and takes it back when it fails. JavaScript runs    *)
(* one callback at a time: a step is what happens between two awaits or       *)
(* timers.                                                                    *)
EXTENDS Integers, Sequences, SequencesExt

CONSTANTS Accounts,        \* well-formed addresses
          Misformed,      \* addresses that do not start with G
          NoAddress,       \* no address, or a disabled hook
          Assets, Amounts,
          Contexts,       \* what GET /assets may tell the form: see Limits
          MaxMoves, MaxFailures, MaxSubmits   \* bounds of the environment

Addresses == Accounts \cup Misformed \cup {NoAddress}
Limits == [wallet : Nat, deposited : Nat, debt : Nat, credit : Nat]
Kinds == {"DEPOSIT", "WITHDRAW", "BORROW", "REPAY"}

ASSUME AccountsAssumption == NoAddress \notin Accounts \cup Misformed /\ Accounts \cap Misformed = {}
ASSUME ContextsAssumption == Contexts \subseteq Limits /\ Amounts \subseteq Nat \ {0}

VARIABLES address,    \* the address the hook is given
          page,       \* useDashboardData
          requests,   \* its requests that nobody aborted
          moves, failures,
          form,       \* the context the tray's form checks an amount against
          pipelines,  \* submissions whose pipeline is running
          pending,    \* pendingActionsRef: the snapshot to go back to
          store,      \* the optimistic portfolio and activity
          settled     \* the actions whose pipeline reported success, in order

hooks == <<address, page, requests, moves, failures>>
tray == <<form, pipelines, pending, store, settled>>
webVars == <<hooks, tray>>

-----------------------------------------------------------------------------
(* useDashboardData *)

(* cleanupPendingOperations. An aborted request ends in an AbortError, which   *)
(* fetchData ignores, unless it was reading the answer's body: see BodyCut.   *)
AbortedNone(rs) == rs
Aborted(rs) == {}
Cut(p) == [p EXCEPT !.cut = @ \/ requests # {}]

FetchData(shown) ==
    IF address \in Accounts
    THEN /\ requests' = Aborted(requests) \cup {address}
         /\ page' = [Cut(shown) EXCEPT !.loading = TRUE, !.error = FALSE, !.stale = page.hasData]
    ELSE /\ page' = [shown EXCEPT !.data = NoAddress, !.hasData = FALSE, !.loading = FALSE, !.error = TRUE]
         /\ UNCHANGED requests

(* The timer of the mounting effects: the first fetch, or clearing the screen. *)
PageTimer ==
    /\ \/ /\ page.timer = "fetch"
          /\ FetchData([page EXCEPT !.timer = "none"])
       \/ /\ page.timer = "clear"
          /\ page' = [page EXCEPT !.data = NoAddress, !.hasData = FALSE, !.loading = FALSE,
                                  !.error = FALSE, !.timer = "none"]
          /\ UNCHANGED requests
    /\ UNCHANGED <<address, moves, failures>>

(* The polling interval and the manual refetch. *)
Refetch ==
    /\ address # NoAddress /\ page.timer = "none"
    /\ FetchData(page)
    /\ UNCHANGED <<address, moves, failures>>

(* visibilitychange: a hidden page is stale, a stale one refetches on return. *)
ChangeVisibility ==
    /\ moves < MaxMoves /\ moves' = moves + 1
    /\ LET shown == [page EXCEPT !.hidden = ~@]
       IN CASE shown.hidden -> page' = [shown EXCEPT !.stale = TRUE] /\ UNCHANGED requests
            [] ~shown.hidden /\ page.stale /\ address # NoAddress -> FetchData(shown)
            [] OTHER -> page' = shown /\ UNCHANGED requests
    /\ UNCHANGED <<address, failures>>

(* The backend answers, refuses, or fetchValidated gives up after its own     *)
(* time limit: that is an AbortError as well, and is ignored like one.        *)
PageAnswered(a) ==
    /\ a \in requests /\ requests' = requests \ {a}
    /\ \/ /\ page' = [page EXCEPT !.data = a, !.hasData = TRUE, !.stale = FALSE, !.loading = FALSE]
          /\ UNCHANGED failures
       \/ /\ failures < MaxFailures /\ failures' = failures + 1
          /\ page' = [page EXCEPT !.error = TRUE, !.stale = page.hasData, !.loading = FALSE]
       \/ failures < MaxFailures /\ failures' = failures + 1 /\ UNCHANGED page
    /\ UNCHANGED <<address, moves>>

(* An abort in the middle of the body comes as a ValidationError, or as the   *)
(* HttpError of an answer that was none: an error like any other to fetchData,*)
(* whatever request is under way by then.                                     *)
BodyCut ==
    /\ page.cut
    /\ page' = [page EXCEPT !.cut = FALSE, !.error = TRUE, !.stale = page.hasData, !.loading = FALSE]
    /\ UNCHANGED <<address, requests, moves, failures>>

(* The wallet changes: the hook cleans up and runs its effects again. *)
MoveTo(a) ==
    /\ a # address /\ moves < MaxMoves /\ moves' = moves + 1
    /\ address' = a
    /\ requests' = Aborted(requests)
    /\ page' = [Cut(page) EXCEPT !.timer = IF a = NoAddress THEN "clear" ELSE "fetch"]
    /\ UNCHANGED failures

HookStep ==
    \/ PageTimer \/ Refetch \/ ChangeVisibility \/ BodyCut
    \/ \E a \in Addresses : PageAnswered(a) \/ MoveTo(a)

-----------------------------------------------------------------------------
(* The tray *)

Min2(a, b) == IF a < b THEN a ELSE b
Less(a, b) == IF a > b THEN a - b ELSE 0   \* Math.max(0, a - b)

(* validateAmount with the tray's validationCtx: a wallet that has nothing    *)
(* deposited is offered its balance instead (deposited || wallet).            *)
FormAccepts(kind, amount) ==
    CASE kind = "DEPOSIT" -> amount <= form.wallet
      [] kind = "WITHDRAW" -> amount <= (IF form.deposited = 0 THEN form.wallet ELSE form.deposited)
      [] kind = "BORROW" -> amount <= form.credit
      [] kind = "REPAY" -> amount <= Min2(form.debt, form.wallet)

(* ActionInputSchema: the pipeline's own check of the same input. *)
SchemaAccepts(kind, amount) ==
    CASE kind = "DEPOSIT" -> amount <= form.wallet
      [] kind = "WITHDRAW" -> amount <= form.deposited
      [] kind = "BORROW" -> amount <= form.credit
      [] kind = "REPAY" -> (form.debt > 0 => amount <= form.debt) /\ amount <= form.wallet

(* The factor itself follows from the two sums; what matters is whether it is *)
(* Infinity, of which JSON.parse(JSON.stringify()) makes null.                *)
HealthFactor(p) == IF p.borrowed = 0 THEN "infinity" ELSE "number"
JsonCopy(p) == [p EXCEPT !.healthFactor = IF @ = "infinity" THEN "null" ELSE @]

(* What an action does to the figures on the screen, before anybody confirms. *)
Moved(p, act) ==
    CASE act.kind = "DEPOSIT" -> [p EXCEPT !.deposited = @ + act.amount, !.balance = @ + act.amount,
                                           !.lent[act.asset] = @ + act.amount]
      [] act.kind = "WITHDRAW" -> [p EXCEPT !.deposited = Less(@, act.amount), !.balance = @ - act.amount,
                                            !.lent[act.asset] = Less(@, act.amount)]
      [] act.kind = "BORROW" -> [p EXCEPT !.borrowed = @ + act.amount, !.balance = @ - act.amount,
                                          !.owed[act.asset] = @ + act.amount]
      [] act.kind = "REPAY" -> [p EXCEPT !.borrowed = Less(@, act.amount), !.balance = @ + act.amount,
                                         !.owed[act.asset] = Less(@, act.amount)]

Applied(p, act) == [Moved(p, act) EXCEPT !.healthFactor = HealthFactor(Moved(p, act))]

NoPortfolio == [balance |-> 0, deposited |-> 0, borrowed |-> 0, healthFactor |-> "infinity",
                lent |-> [a \in Assets |-> 0], owed |-> [a \in Assets |-> 0]]
Running(i) == pipelines[i].step \in {"VALIDATING", "SIMULATING", "SIGNING", "SUBMITTING", "POLLING"}

(* isSubmitting disables the button until the pipeline has answered. *)
SubmittableAlways(i) == pipelines[i].step = "none"
Submittable(i) == pipelines[i].step = "none" /\ ~\E j \in 1..MaxSubmits : Running(j)

(* applyOptimisticAction: the snapshot is a JSON copy of the portfolio.        *)
HandleSubmitAction(i, act) ==
    /\ Submittable(i) /\ FormAccepts(act.kind, act.amount)
    /\ \A j \in 1..(i - 1) : pipelines[j].step # "none"
    /\ pending' = [pending EXCEPT ![i] = [store EXCEPT !.portfolio = JsonCopy(@)]]
    /\ store' = [portfolio |-> Applied(store.portfolio, act),
                 activity |-> <<[id |-> i, act |-> act, status |-> "PENDING"]>> \o store.activity]
    /\ pipelines' = [pipelines EXCEPT ![i] = [step |-> "VALIDATING", act |-> act]]
    /\ UNCHANGED <<form, settled>>

(* Choosing another asset, or another wallet, fetches GET /assets anew; the   *)
(* form keeps its context after an action.                                    *)
SelectAsset ==
    /\ \A i \in 1..MaxSubmits : ~Running(i)
    /\ form' \in Contexts \ {form}
    /\ UNCHANGED <<pipelines, pending, store, settled>>

To(i, step) ==
    /\ pipelines' = [pipelines EXCEPT ![i].step = step]
    /\ UNCHANGED <<form, pending, store, settled>>

(* confirmOptimisticAction *)
ConfirmAction(i) ==
    /\ pipelines' = [pipelines EXCEPT ![i].step = "CONFIRMED"]
    /\ pending' = [pending EXCEPT ![i] = <<>>]
    /\ store' = [store EXCEPT !.activity =
          [n \in DOMAIN @ |-> IF @[n].id = i THEN [@[n] EXCEPT !.status = "COMPLETED"] ELSE @[n]]]
    /\ settled' = Append(settled, pipelines[i].act)
    /\ UNCHANGED form

(* rollbackOptimisticAction: back to the snapshot, whatever happened since. *)
RollbackAction(i) ==
    /\ pipelines' = [pipelines EXCEPT ![i].step = "FAILED"]
    /\ pending' = [pending EXCEPT ![i] = <<>>]
    /\ store' = pending[i]
    /\ UNCHANGED <<form, settled>>

(* simulateSorobanTransaction: a panic or a 429 fails the action; an          *)
(* unreachable RPC counts as a success.                                       *)
SimulateSorobanTransaction(i) == To(i, "SIGNING") \/ RollbackAction(i)

(* The four pipelines are written out four times and do the same. Freighter   *)
(* may be locked, or the user may refuse. Horizon may refuse the submission,  *)
(* but a bad sequence number is reported as a success. The poll ends when the *)
(* transaction is found or after a minute, and reports success either way.    *)
Pipeline(i, kind) ==
    /\ pipelines[i].step # "none" /\ pipelines[i].act.kind = kind
    /\ \/ /\ pipelines[i].step = "VALIDATING"
          /\ IF SchemaAccepts(kind, pipelines[i].act.amount) THEN To(i, "SIMULATING") ELSE RollbackAction(i)
       \/ pipelines[i].step = "SIMULATING" /\ SimulateSorobanTransaction(i)
       \/ pipelines[i].step = "SIGNING" /\ (To(i, "SUBMITTING") \/ RollbackAction(i))
       \/ pipelines[i].step = "SUBMITTING" /\ (To(i, "POLLING") \/ ConfirmAction(i) \/ RollbackAction(i))
       \/ pipelines[i].step = "POLLING" /\ ConfirmAction(i)

ExecuteDeposit(i) == Pipeline(i, "DEPOSIT")
ExecuteWithdraw(i) == Pipeline(i, "WITHDRAW")
ExecuteBorrow(i) == Pipeline(i, "BORROW")
ExecuteRepay(i) == Pipeline(i, "REPAY")

TrayStep ==
    \/ SelectAsset
    \/ \E i \in 1..MaxSubmits :
         \/ \E act \in [kind : Kinds, asset : Assets, amount : Amounts] : HandleSubmitAction(i, act)
         \/ ExecuteDeposit(i) \/ ExecuteWithdraw(i) \/ ExecuteBorrow(i) \/ ExecuteRepay(i)

-----------------------------------------------------------------------------
HookInit ==
    /\ address = NoAddress /\ requests = {} /\ moves = 0 /\ failures = 0
    /\ page = [data |-> NoAddress, hasData |-> FALSE, loading |-> FALSE, error |-> FALSE,
               stale |-> FALSE, hidden |-> FALSE, cut |-> FALSE, timer |-> "clear"]

HookSpec == HookInit /\ [][HookStep]_hooks

TrayInit ==
    /\ form \in Contexts /\ settled = <<>>
    /\ pipelines = [i \in 1..MaxSubmits |-> [step |-> "none"]]
    /\ pending = [i \in 1..MaxSubmits |-> <<>>]
    /\ store = [portfolio |-> NoPortfolio, activity |-> <<>>]

TraySpec == TrayInit /\ [][TrayStep]_tray

-----------------------------------------------------------------------------
(* Figures of another wallet are never shown as this wallet's current ones:   *)
(* they are marked stale, or a timer is about to fetch or clear them, however *)
(* answers, timeouts and wallet changes follow each other (useDashboardData). *)
ForeignDataIsFlagged ==
    page.data \notin {NoAddress, address} => page.stale \/ page.timer # "none"

(* When the wallet stays the same and the backend answers, the hook ends up   *)
(* showing that wallet's own figures (useDashboardData).                      *)
OwnDataInTheEnd == <>[](address \in Accounts => page.data = address)

(* With no pipeline running, the store holds exactly the actions reported     *)
(* successful, in their order, and of the others no trace but one: a health   *)
(* factor of Infinity is null after a rollback, until the next action         *)
(* computes it anew (useDashboardStore).                                      *)
StoreMatchesOutcomes ==
    (\A i \in 1..MaxSubmits : ~Running(i)) =>
        /\ LET outcome == FoldLeft(Applied, NoPortfolio, settled)
           IN store.portfolio \in {outcome, JsonCopy(outcome)}
        /\ [n \in DOMAIN store.activity |-> store.activity[n].act] = Reverse(settled)
        /\ \A n \in DOMAIN store.activity : store.activity[n].status = "COMPLETED"
=============================================================================
