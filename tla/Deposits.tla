------------------------------ MODULE Deposits ------------------------------
(* Deposits of the backend (deposits.service.ts, deposit-watcher.service.ts): *)
(* a user reports a transfer, a watcher waits for it to be old enough and     *)
(* credits the position once.  A database or Horizon call is a step; a crash  *)
(* may come between any two.                                                  *)
EXTENDS Integers, FiniteSets, FiniteSetsExt, Functions

CONSTANTS
    Deposits,        \* transaction hashes users may report
    Malformed,       \* those for which every Horizon call fails
    DepositAmount,   \* DepositAmount[d]: amountStroops
    Posts,           \* POST /deposits in flight at once, numbered
    DepositDepth,    \* confirmationsRequired
    DepositLedgers,  \* bound on the chain
    MaxOutages       \* bound on failed Horizon calls and on restarts, each

ASSUME DepositsAssumption ==
    /\ Malformed \subseteq Deposits
    /\ DepositAmount \in [Deposits -> Nat \ {0}]
    /\ DepositDepth \in Nat /\ DepositLedgers \in Nat /\ MaxOutages \in Nat

VARIABLES
    deposit,     \* UserDeposit rows by hash: status and reported ledger
    keyed,       \* hash whose idempotency row exists, per hash
    credited,    \* Position.depositedRaw of the user
    post,        \* createDeposit handlers between two awaits
    cycle,       \* runWatcher: ledger read, rows still to visit
    horizon,     \* current ledger and the successful transactions
    outages, restarts

depositVars == <<deposit, keyed, credited, post, cycle, horizon, outages, restarts>>

NoPost == [at |-> "idle"]
NoCycle == [at |-> "idle"]

DepositInit ==
    /\ deposit = [d \in Deposits |-> [status |-> "none", ledgerSeq |-> 0]]
    /\ keyed = {} /\ credited = 0
    /\ post = [p \in Posts |-> NoPost]
    /\ cycle = NoCycle
    /\ horizon = [ledger |-> 0, successful |-> {}]
    /\ outages = 0 /\ restarts = 0

----------------------------------------------------------------------------
\* Handlers are interchangeable: a new one takes the first free slot.
FreePost(p) == post[p] = NoPost /\ \A q \in Posts : q < p => post[q] # NoPost

(* createDeposit: the key's row and the hash are read, the deposit is created, *)
(* and the key's row is written last, outside any transaction.  The ledger is  *)
(* the one the user reports.                                                   *)
ReadBeforeCreate(p, d, seq) ==
    /\ FreePost(p)
    /\ d \notin keyed /\ deposit[d].status = "none"
    /\ seq + DepositDepth <= DepositLedgers
    /\ post' = [post EXCEPT ![p] = [at |-> "create", d |-> d, seq |-> seq]]
    /\ UNCHANGED <<deposit, keyed, credited, cycle, horizon, outages, restarts>>

\* Mutant: txHash is an ordinary column.
HashNotUnique(d) == deposit[d].status \in {"none", "PENDING", "CONFIRMED", "ORPHANED"}
\* txHash is unique: the second creation fails, and its handler with it.
HashFree(d) == deposit[d].status = "none"
CreateDeposit(p) ==
    LET d == post[p].d IN
    /\ post[p].at = "create"
    /\ IF HashFree(d)
         THEN /\ deposit' = [deposit EXCEPT ![d] = [status |-> "PENDING", ledgerSeq |-> post[p].seq]]
              /\ post' = [post EXCEPT ![p].at = "key"]
         ELSE /\ post' = [post EXCEPT ![p] = NoPost]
              /\ UNCHANGED deposit
    /\ UNCHANGED <<keyed, credited, cycle, horizon, outages, restarts>>

StoreKey(p) ==
    /\ post[p].at = "key"
    /\ keyed' = keyed \cup {post[p].d}
    /\ post' = [post EXCEPT ![p] = NoPost]
    /\ UNCHANGED <<deposit, credited, cycle, horizon, outages, restarts>>

----------------------------------------------------------------------------
(* runWatcher: the ledger is read before the list; one cycle at a time.        *)
Visiting(todo) == cycle' = IF todo = {} THEN NoCycle ELSE [cycle EXCEPT !.todo = todo, !.at = "rows"]
CycleFrame == UNCHANGED <<keyed, post, horizon, restarts>>

CycleStart ==
    /\ cycle.at = "idle"
    /\ cycle' = [at |-> "list", ledger |-> horizon.ledger]
    /\ UNCHANGED <<deposit, credited, outages>> /\ CycleFrame

ListPending ==
    LET pending == {d \in Deposits : deposit[d].status = "PENDING"} IN
    /\ cycle.at = "list"
    /\ cycle' = IF pending = {} THEN NoCycle
                ELSE [at |-> "rows", ledger |-> cycle.ledger, todo |-> pending]
    /\ UNCHANGED <<deposit, credited, outages>> /\ CycleFrame

\* Mutant: an error ends the cycle instead of the row.
NextRowsNone(d) == {}
\* The catch of the row: the loop goes on with the next one.
NextRows(d) == cycle.todo \ {d}
RowFails(d) ==
    /\ cycle.at = "rows" /\ d = CHOOSE e \in cycle.todo : TRUE
    /\ \/ d \in Malformed /\ UNCHANGED outages
       \/ d \notin Malformed /\ outages < MaxOutages /\ outages' = outages + 1
    /\ Visiting(NextRows(d))
    /\ UNCHANGED <<deposit, credited>> /\ CycleFrame

\* markDepositOrphaned: not found, or failed on chain.
OrphanRow(d) ==
    /\ cycle.at = "rows" /\ d = CHOOSE e \in cycle.todo : TRUE
    /\ d \notin Malformed /\ d \notin horizon.successful
    /\ deposit' = [deposit EXCEPT ![d].status = "ORPHANED"]
    /\ Visiting(cycle.todo \ {d})
    /\ UNCHANGED <<credited, outages>> /\ CycleFrame

\* updateDepositConfirmations reads the row, and only a pending one that is old
\* enough goes on to the crediting transaction.
ReadRow(d) ==
    /\ cycle.at = "rows" /\ d = CHOOSE e \in cycle.todo : TRUE
    /\ d \in horizon.successful \ Malformed
    /\ IF /\ deposit[d].status = "PENDING"
          /\ cycle.ledger - deposit[d].ledgerSeq >= DepositDepth
         THEN cycle' = [cycle EXCEPT !.at = "credit"]
         ELSE Visiting(cycle.todo \ {d})
    /\ UNCHANGED <<deposit, credited, outages>> /\ CycleFrame

\* The Serializable transaction: status and position together.
Credit(d) ==
    /\ cycle.at = "credit" /\ d = CHOOSE e \in cycle.todo : TRUE
    /\ deposit' = [deposit EXCEPT ![d].status = "CONFIRMED"]
    /\ credited' = credited + DepositAmount[d]
    /\ Visiting(cycle.todo \ {d})
    /\ UNCHANGED outages /\ CycleFrame

RunDepositWatcher ==
    \/ CycleStart \/ ListPending
    \/ \E d \in Deposits : RowFails(d) \/ OrphanRow(d) \/ ReadRow(d) \/ Credit(d)

----------------------------------------------------------------------------
(* The chain closes ledgers and transactions land; the process restarts.       *)
HorizonCloses ==
    /\ horizon.ledger < DepositLedgers
    /\ horizon' = [horizon EXCEPT !.ledger = @ + 1]
    /\ UNCHANGED <<deposit, keyed, credited, post, cycle, outages, restarts>>

TransferLands(d) ==
    /\ d \notin horizon.successful
    /\ horizon' = [horizon EXCEPT !.successful = @ \cup {d}]
    /\ UNCHANGED <<deposit, keyed, credited, post, cycle, outages, restarts>>

Restart ==
    /\ restarts < MaxOutages /\ restarts' = restarts + 1
    /\ post' = [p \in Posts |-> NoPost]
    /\ cycle' = NoCycle
    /\ UNCHANGED <<deposit, keyed, credited, horizon, outages>>

DepositNext ==
    \/ \E p \in Posts, d \in Deposits, seq \in 0 .. DepositLedgers : ReadBeforeCreate(p, d, seq)
    \/ \E p \in Posts : CreateDeposit(p) \/ StoreKey(p)
    \/ RunDepositWatcher
    \/ HorizonCloses
    \/ \E d \in Deposits : TransferLands(d)
    \/ Restart

DepositSpec == DepositInit /\ [][DepositNext]_depositVars

----------------------------------------------------------------------------
(* A position is credited with every confirmed deposit once, and with nothing  *)
(* else, over restarts, repeated reports of a hash and repeated cycles; and    *)
(* none is confirmed before its ledger is DepositDepth old.                    *)
CreditIsEarned ==
    /\ credited = SumFunction([d \in {e \in Deposits : deposit[e].status = "CONFIRMED"} |->
                                 DepositAmount[d]])
    /\ \A d \in Deposits : deposit[d].status = "CONFIRMED" =>
           /\ d \in horizon.successful
           /\ horizon.ledger - deposit[d].ledgerSeq >= DepositDepth

(* Failing calls, restarts and rows that always fail do not keep the others:   *)
(* every other pending deposit is confirmed or orphaned (runWatcher).          *)
DepositsSettle ==
    \A d \in Deposits \ Malformed :
        deposit[d].status = "PENDING" ~> deposit[d].status # "PENDING"
=============================================================================
