---------------------------- MODULE Withdrawals ----------------------------
(* Withdrawals of the backend: the status machine that HTTP requests and the  *)
(* watcher drive over the same rows, the solvency check of                    *)
(* withdrawal-solvency.service.ts, and the Position row that watcher and      *)
(* indexer both write.  One user, one destination address, and one hash that  *)
(* every submission of a withdrawal names.  A database call is a step; what a *)
(* handler has read before an await it keeps in its request record, so that   *)
(* every later write can act on a row that has moved on.                      *)
EXTENDS Integers, FiniteSets, FiniteSetsExt, Functions

CONSTANTS
    Assets, Collateral,     \* assets of the user's positions; the one withdrawn
    Withdrawals,            \* rows that may be created
    Calls,                  \* Calls[w]: the handlers a client calls on withdrawal w
    Deltas,                 \* what an indexed event adds to depositedRaw
    Amount,                 \* Amount[w]: what withdrawal w moves
    Keys, KeysOf,           \* idempotency keys; KeysOf[w]: none or the one sent for w
    Malformed,              \* withdrawals submitted with a hash no Horizon lookup accepts
    MaxRequests,            \* HTTP requests in flight at once
    Depth,                  \* confirmationsRequired
    Seed,                   \* Seed[a]: the position row written by prisma/seed.ts
    Ratio,                  \* minCollateralRatio in tenths
    MaxLedger, MaxEvents, MaxErrors, MaxWipes

ASSUME WithdrawalsAssumption ==
    /\ Collateral \in Assets
    /\ MaxRequests \in Nat /\ Depth \in Nat /\ MaxLedger \in Nat /\ MaxEvents \in Nat
    /\ MaxErrors \in Nat /\ MaxWipes \in Nat /\ Malformed \subseteq Withdrawals
    /\ Amount \in [Withdrawals -> Nat \ {0}]
    /\ Calls \in [Withdrawals -> SUBSET {"sign", "submit", "revalidate", "cancel"}]
    /\ IsFiniteSet(Withdrawals) /\ Deltas \subseteq Int
    /\ Seed \in [Assets -> [row : {TRUE}, raw : Nat, usd : Nat, debtUsd : Nat, stale : BOOLEAN]]

VARIABLES
    position,   \* Position rows: [row, raw, usd, debtUsd, stale]; row: it exists;
                \* stale also stands for a lastSyncAt older than MAX_ORACLE_AGE_MS
    wd,         \* WithdrawalRequest rows, with the nonce row's used flag
    keyRow,     \* IdempotencyKey rows
    whitelist,  \* the AddressWhitelist row of the destination
    request,    \* handlers between two awaits
    watch,      \* WithdrawalWatcherService: ledger read, rows listed, row in hand
    chain,      \* Horizon: current ledger and the transactions it knows
    events,     \* the indexer's writes and wipes so far; what its writes added to
                \* each position since the last wipe, and from what amount
    errors,     \* Horizon failures so far
    debits,     \* history: debits of each withdrawal,
    taken,      \*   those since the last wipe,
    reopened    \*   and the withdrawals whose CONFIRMED a handler overwrote

rows == <<wd, keyRow, whitelist>>
history == <<debits, taken, reopened>>
vars == <<position, rows, request, watch, chain, events, errors, history>>

Requests == 1..MaxRequests
Idle == [op |-> "idle"]

----------------------------------------------------------------------------
(* computeHealthFactor: the values of the collateral, in tenths of Ratio,      *)
(* against the debt, both times the factor common to all.  One live position   *)
(* without a price, or with a stale one, leaves the health factor unknown.     *)
DebtUsd == SumFunction([a \in Assets |-> position[a].debtUsd])
Priced(a) == position[a].usd * position[a].raw > 0 \/ position[a].debtUsd > 0
HealthFactor(value, factor) ==
    [known |-> \A a \in Assets : value[a] > 0 \/ position[a].debtUsd > 0
                                  => Priced(a) /\ ~position[a].stale,
     weighted |-> Ratio * SumFunction(value),
     debt |-> 10 * DebtUsd * factor]

(* assertWithdrawable: the position withdrawn from has a price, the health     *)
(* factor is known before and after, and the debt stays covered when the       *)
(* target's cached value is scaled down by the amount.  The amount is never    *)
(* compared with depositedRaw.                                                 *)
Withdrawable(amount) ==
    LET target == position[Collateral]
        values == [a \in Assets |-> position[a].usd * target.raw]
        projected == HealthFactor([values EXCEPT ![Collateral] = target.usd * (target.raw - amount)],
                                  target.raw)
    IN  /\ target.usd > 0 /\ target.raw > 0
        /\ HealthFactor(values, target.raw).known /\ projected.known
        /\ DebtUsd = 0 \/ projected.weighted >= projected.debt

----------------------------------------------------------------------------
(* A request has no identity: it takes the first free slot.                    *)
FreeSlot(r) == request[r] = Idle /\ \A q \in 1..(r - 1) : request[q] # Idle

(* POST /withdrawals: the row of the key sent, if any, is read first, then     *)
(* solvency and whitelist; a new address, or one still in its waiting time,    *)
(* locks the request.                                                          *)
CreateWithdrawal(r, w) ==
    LET ks == KeysOf[w] IN
    /\ FreeSlot(r) /\ wd[w].status = "none"
    /\ \A k \in ks : keyRow[k] # "live"
    /\ Withdrawable(Amount[w])
    /\ request' = [request EXCEPT ![r] =
                     [op |-> "create", w |-> w, locked |-> whitelist # "active"]]
    /\ UNCHANGED <<position, rows, watch, chain, events, errors, history>>

(* One serializable transaction writes request, nonce and key row; the key is  *)
(* the table's primary key, so a second transaction with it fails as a whole,  *)
(* an expired row included.                                                    *)
KeyUpserted(ks) == \A k \in ks : keyRow[k] \in {"none", "live", "expired"}
KeyFree(ks) == \A k \in ks : keyRow[k] = "none"
StoreWithdrawal(r) ==
    LET q == request[r] IN
    /\ q.op = "create"
    /\ IF KeyFree(KeysOf[q.w]) /\ wd[q.w].status = "none"
       THEN /\ wd' = [wd EXCEPT ![q.w] = [status |-> "DRAFT", nonceUsed |-> FALSE,
                                          locked |-> q.locked]]
            /\ keyRow' = [k \in Keys |-> IF k \in KeysOf[q.w] THEN "live" ELSE keyRow[k]]
       ELSE UNCHANGED <<wd, keyRow>>
    /\ request' = [request EXCEPT ![r] = Idle]
    /\ UNCHANGED <<position, whitelist, watch, chain, events, errors, history>>

(* The handlers on an existing request read the row once and refuse by what    *)
(* they read; every later update addresses the row by id alone.                *)
Signable(w) == wd[w].status = "DRAFT" /\ ~wd[w].locked
Admits(op, w) ==
    CASE op = "sign"       -> Signable(w)
      [] op = "submit"     -> wd[w].status = "SIGNED"
      [] op = "revalidate" -> wd[w].status = "REQUIRES_REVALIDATION"
      [] op = "cancel"     -> wd[w].status \notin {"none", "CONFIRMED", "CANCELLED"}

ReadRequest(r, op, w) ==
    /\ FreeSlot(r)
    /\ Admits(op, w)
    /\ request' = [request EXCEPT ![r] = [op |-> op, w |-> w]]
    /\ UNCHANGED <<position, rows, watch, chain, events, errors, history>>

SetStatus(w, s) == wd' = [wd EXCEPT ![w].status = s]
Done(r) == request' = [request EXCEPT ![r] = Idle]
Continue(r, op) == request' = [request EXCEPT ![r].op = op]
RequestFrame == UNCHANGED <<position, keyRow, whitelist, watch, chain, events, errors, debits, taken>>

(* A handler's last update, by id alone: whatever the row has become.          *)
Update(r, s) ==
    LET w == request[r].w IN
    /\ SetStatus(w, s) /\ Done(r)
    /\ reopened' = IF wd[w].status = "CONFIRMED" THEN reopened \cup {w} ELSE reopened
    /\ RequestFrame

(* sign, submit and revalidate read the positions for the solvency check, and  *)
(* write by its outcome after the await.  A failed revalidation changes        *)
(* nothing.                                                                    *)
IfSolvent == [sign |-> "nonce", submit |-> "send", revalidate |-> "redraft"]
CheckSolvency(r) ==
    LET op == request[r].op IN
    /\ op \in DOMAIN IfSolvent
    /\ IF Withdrawable(Amount[request[r].w]) THEN Continue(r, IfSolvent[op])
       ELSE IF op = "revalidate" THEN Done(r) ELSE Continue(r, "park")
    /\ UNCHANGED <<wd, reopened>> /\ RequestFrame

Park(r) == request[r].op = "park" /\ Update(r, "REQUIRES_REVALIDATION")

(* signWithdrawal after the check: the nonce is read, then marked, then the    *)
(* row is updated, with an await before each.                                  *)
CheckNonce(r) ==
    /\ request[r].op = "nonce"
    /\ IF wd[request[r].w].nonceUsed THEN Done(r) ELSE Continue(r, "mark")
    /\ UNCHANGED <<wd, reopened>> /\ RequestFrame

MarkNonce(r) ==
    /\ request[r].op = "mark"
    /\ wd' = [wd EXCEPT ![request[r].w].nonceUsed = TRUE]
    /\ Continue(r, "signed")
    /\ UNCHANGED reopened /\ RequestFrame

SignWithdrawal(r) == request[r].op = "signed" /\ Update(r, "SIGNED")
SubmitWithdrawal(r) == request[r].op = "send" /\ Update(r, "SENT")
RevalidateWithdrawal(r) == request[r].op = "redraft" /\ Update(r, "DRAFT")
CancelWithdrawal(r) == request[r].op = "cancel" /\ Update(r, "CANCELLED")

----------------------------------------------------------------------------
(* The whitelist.  addToWhitelist refuses an address already listed; instant   *)
(* mode stores no waiting time, so the instant-limit branch of                 *)
(* createWithdrawal meets no entry that is both instant and waiting.           *)
WhitelistFrame == UNCHANGED <<position, wd, keyRow, request, watch, chain, events, errors,
                              history>>
AddToWhitelist(instant) ==
    /\ whitelist = "none"
    /\ whitelist' = IF instant THEN "active" ELSE "waiting"
    /\ WhitelistFrame
RemoveFromWhitelist ==
    /\ whitelist # "none" /\ whitelist' = "none" /\ WhitelistFrame

(* Time: a waiting time or timelock passes, a key's row expires, a price ages. *)
TimePasses ==
    /\ \/ /\ whitelist = "waiting" /\ whitelist' = "active"
          /\ UNCHANGED <<position, wd, keyRow>>
       \/ \E w \in Withdrawals : wd[w].locked /\ wd' = [wd EXCEPT ![w].locked = FALSE]
          /\ UNCHANGED <<position, whitelist, keyRow>>
       \/ \E k \in Keys : keyRow[k] = "live" /\ keyRow' = [keyRow EXCEPT ![k] = "expired"]
          /\ UNCHANGED <<position, wd, whitelist>>
       \/ \E a \in Assets :
            /\ position[a].row /\ ~position[a].stale
            /\ position' = [position EXCEPT ![a].stale = TRUE]
          /\ UNCHANGED <<wd, whitelist, keyRow>>
    /\ UNCHANGED <<request, watch, chain, events, errors, history>>

----------------------------------------------------------------------------
(* Horizon: ledgers close, and a transaction the user sent lands.  One that    *)
(* fails on chain is orphaned like one that is not found, so it stays unknown  *)
(* here.                                                                       *)
LedgerCloses ==
    /\ chain.ledger < MaxLedger
    /\ chain' = [chain EXCEPT !.ledger = @ + 1]
    /\ UNCHANGED <<position, rows, request, watch, events, errors, history>>

TxLands(w) ==
    /\ ~chain.tx[w].known
    /\ chain.ledger + Depth <= MaxLedger
    /\ wd[w].status \notin {"none", "DRAFT"}
    /\ chain' = [chain EXCEPT !.tx[w] = [known |-> TRUE, at |-> chain.ledger]]
    /\ UNCHANGED <<position, rows, request, watch, events, errors, history>>

(* The indexer's applyPositionDelta: a missing row is inserted without price   *)
(* or debt, the balance is clamped at zero, isStale cleared, lastSyncAt        *)
(* renewed; the cached USD value is not written.                               *)
IndexerSync(a, delta) ==
    LET raw == Max({0, position[a].raw + delta}) IN
    /\ events.count < MaxEvents
    /\ position' = [position EXCEPT ![a].row = TRUE, ![a].raw = raw, ![a].stale = FALSE]
    /\ events' = [events EXCEPT !.count = @ + 1, !.net[a] = @ + raw - position[a].raw]
    /\ UNCHANGED <<rows, request, watch, chain, errors, history>>

(* The indexer's forced replay, resetDatabase('full'): every position row is   *)
(* deleted, with its seed and what was debited; the events come again.         *)
NoRow == [row |-> FALSE, raw |-> 0, usd |-> 0, debtUsd |-> 0, stale |-> FALSE]
ResetDatabase ==
    /\ events.wipes < MaxWipes
    /\ position' = [a \in Assets |-> NoRow]
    /\ events' = [events EXCEPT !.wipes = @ + 1,
                                !.base = [a \in Assets |-> 0], !.net = [a \in Assets |-> 0]]
    /\ taken' = [w \in Withdrawals |-> 0]
    /\ UNCHANGED <<rows, request, watch, chain, errors, debits, reopened>>

----------------------------------------------------------------------------
(* WithdrawalWatcherService.runWatcher: ledger, list, then row by row.  A cycle *)
(* that lists nothing changes nothing and is left out; one ends with its last  *)
(* row.                                                                        *)
WatchFrame == UNCHANGED <<keyRow, whitelist, request, chain, events, reopened>>
Watching(todo) ==
    watch' = IF todo = {} THEN [at |-> "idle"]
                          ELSE [at |-> "rows", ledger |-> watch.ledger, todo |-> todo]

WatcherStart ==
    LET sent == {w \in Withdrawals : wd[w].status = "SENT"} IN
    /\ watch.at = "idle" /\ sent # {}
    /\ watch' = [at |-> "rows", ledger |-> chain.ledger, todo |-> sent]
    /\ UNCHANGED <<position, wd, errors, debits, taken>> /\ WatchFrame

(* getTransactionByHash: 404 is null, any other failure is thrown, and caught  *)
(* for this row alone; the next row follows, and the end of the cycle releases *)
(* isProcessing.  The hash comes unchecked from the request, and one that      *)
(* Horizon refuses as malformed fails at every lookup.                         *)
AfterFailureStillProcessing(w) == watch' = [at |-> "left processing"]
AfterFailure(w) == Watching(watch.todo \ {w})
WatcherFetch(w) ==
    /\ watch.at = "rows" /\ w \in watch.todo
    /\ \/ /\ \/ w \in Malformed /\ UNCHANGED errors
             \/ w \notin Malformed /\ errors < MaxErrors /\ errors' = errors + 1
          /\ AfterFailure(w)
       \/ /\ w \notin Malformed /\ UNCHANGED errors
          /\ watch' = [at |-> IF chain.tx[w].known THEN "read" ELSE "orphan",
                       ledger |-> watch.ledger, todo |-> watch.todo \ {w}, w |-> w]
    /\ UNCHANGED <<position, wd, debits, taken>> /\ WatchFrame

MarkWithdrawalOrphaned ==
    /\ watch.at = "orphan"
    /\ SetStatus(watch.w, "ORPHANED") /\ Watching(watch.todo)
    /\ UNCHANGED <<position, errors, debits, taken>> /\ WatchFrame

(* updateWithdrawalConfirmations: the row is read again and only a SENT one    *)
(* with enough confirmations goes on to the debiting transaction, which does   *)
(* not look at the status again, and fails as a whole when the position row is *)
(* missing; the cycle goes on with the next row.                               *)
ConfirmedOneEarly(ledger, landed) == ledger - landed + 1 >= Depth
Confirmed(ledger, landed) == ledger - landed >= Depth
ReadForConfirmation ==
    /\ watch.at = "read"
    /\ IF wd[watch.w].status = "SENT" /\ Confirmed(watch.ledger, chain.tx[watch.w].at)
       THEN watch' = [watch EXCEPT !.at = "debit"]
       ELSE Watching(watch.todo)
    /\ UNCHANGED <<position, wd, errors, debits, taken>> /\ WatchFrame

DebitedFromSeed(raw, w) == Seed[Collateral].raw - Amount[w]
Debited(raw, w) == raw - Amount[w]
ConfirmWithdrawal ==
    /\ watch.at = "debit" /\ position[Collateral].row
    /\ SetStatus(watch.w, "CONFIRMED") /\ Watching(watch.todo)
    /\ position' = [position EXCEPT ![Collateral].raw = Debited(@, watch.w),
                                    ![Collateral].stale = TRUE]
    /\ debits' = [debits EXCEPT ![watch.w] = @ + 1]
    /\ taken' = [taken EXCEPT ![watch.w] = @ + 1]
    /\ UNCHANGED errors /\ WatchFrame

ConfirmFails ==
    /\ watch.at = "debit" /\ ~position[Collateral].row
    /\ Watching(watch.todo)
    /\ UNCHANGED <<position, wd, errors, debits, taken>> /\ WatchFrame

----------------------------------------------------------------------------
Init ==
    /\ position = Seed
    /\ wd = [w \in Withdrawals |-> [status |-> "none", nonceUsed |-> FALSE, locked |-> FALSE]]
    /\ keyRow = [k \in Keys |-> "none"]
    /\ whitelist = "none"
    /\ request = [r \in Requests |-> Idle]
    /\ watch = [at |-> "idle"]
    /\ chain = [ledger |-> 0, tx |-> [w \in Withdrawals |-> [known |-> FALSE]]]
    /\ events = [count |-> 0, wipes |-> 0, base |-> [a \in Assets |-> Seed[a].raw],
                 net |-> [a \in Assets |-> 0]]
    /\ errors = 0
    /\ debits = [w \in Withdrawals |-> 0] /\ taken = [w \in Withdrawals |-> 0]
    /\ reopened = {}

RequestStep(r) ==
    \/ StoreWithdrawal(r) \/ CheckSolvency(r) \/ Park(r) \/ CheckNonce(r) \/ MarkNonce(r) \/ SignWithdrawal(r)
    \/ SubmitWithdrawal(r) \/ RevalidateWithdrawal(r) \/ CancelWithdrawal(r)

RunWatcher ==
    \/ WatcherStart \/ (\E w \in Withdrawals : WatcherFetch(w)) \/ MarkWithdrawalOrphaned
    \/ ReadForConfirmation \/ ConfirmWithdrawal \/ ConfirmFails

Next ==
    \/ \E r \in Requests, w \in Withdrawals :
         \/ CreateWithdrawal(r, w)
         \/ \E op \in Calls[w] : ReadRequest(r, op, w)
    \/ \E r \in Requests : RequestStep(r)
    \/ \E instant \in BOOLEAN : AddToWhitelist(instant)
    \/ RemoveFromWhitelist \/ TimePasses
    \/ LedgerCloses
    \/ \E w \in Withdrawals : TxLands(w)
    \/ \E a \in Assets, delta \in Deltas : IndexerSync(a, delta)
    \/ ResetDatabase
    \/ RunWatcher

(* The watcher re-arms its timer after every cycle and ledgers keep closing.   *)
Fairness == WF_vars(RunWatcher) /\ WF_vars(LedgerCloses)
Spec == Init /\ [][Next]_vars /\ Fairness

----------------------------------------------------------------------------
(* However requests, watcher and indexer interleave, the raw amount of the     *)
(* position withdrawn from is what it held after the last wipe, or its seed,   *)
(* plus what the indexer applied since minus every debit since: neither writer *)
(* overwrites an addition of the other.  A forced replay does erase both seed  *)
(* and debits (updateWithdrawalConfirmations, applyPositionDelta,              *)
(* resetDatabase).                                                             *)
PositionIsSumOfWrites ==
    position[Collateral].raw =
        events.base[Collateral] + events.net[Collateral]
        - SumFunction([w \in Withdrawals |-> taken[w] * Amount[w]])

(* Unless a handler overwrote its confirmation, a withdrawal is debited        *)
(* exactly when it is CONFIRMED, and once; and no withdrawal is ever debited   *)
(* before its timelock is over, its transaction has landed and Depth ledgers   *)
(* are on top (signWithdrawal, submitWithdrawal, cancelWithdrawal,             *)
(* updateWithdrawalConfirmations).                                             *)
DebitIsEarned ==
    \A w \in Withdrawals :
        /\ w \notin reopened => debits[w] = IF wd[w].status = "CONFIRMED" THEN 1 ELSE 0
        /\ debits[w] > 0 => /\ ~wd[w].locked
                            /\ chain.tx[w].known
                            /\ chain.ledger - chain.tx[w].at >= Depth

(* Concurrent or repeated POST /withdrawals with one idempotency key create    *)
(* one request, after the key's row has expired too (createWithdrawal).        *)
OneWithdrawalPerKey ==
    \A k \in Keys : Cardinality({w \in Withdrawals : k \in KeysOf[w] /\ wd[w].status # "none"}) <= 1

(* Failed calls to Horizon never stop the watcher: with its timer and the      *)
(* ledgers going on, every submitted withdrawal leaves that state, confirmed   *)
(* or orphaned, or finds its position row deleted (the try/catch/finally of    *)
(* runWatcher).  One whose hash Horizon refuses stays for ever.                *)
WithdrawalsSettle ==
    \A w \in Withdrawals \ Malformed :
        wd[w].status = "SENT" ~> wd[w].status # "SENT" \/ ~position[Collateral].row
=============================================================================
