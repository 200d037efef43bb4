-------------------------- MODULE WithdrawalsProofs --------------------------
(* What Withdrawals promises of a debit and of an idempotency key, for any     *)
(* rows, keys, clients, number of requests in flight and depth.                *)
(*                                                                            *)
(* Nothing locks a withdrawal row between the read of a handler and its        *)
(* update by id.  What the debit rests on is what cannot be undone in that     *)
(* time: a row that was created and whose timelock has passed stays so, and a  *)
(* submission that the watcher has read is used up only by the watcher.        *)
EXTENDS Withdrawals, SumTheorems

Statuses == {"none", "DRAFT", "SIGNED", "SENT", "CONFIRMED", "ORPHANED", "CANCELLED",
             "REQUIRES_REVALIDATION"}

\* The points of a handler past the timelock, and those that only need the row.
Advancing == {"sign", "nonce", "mark", "signed", "submit", "send"}
Correcting == {"revalidate", "redraft", "park", "cancel"}
Handled == Advancing \cup Correcting

RequestStates ==
    {Idle}
    \cup [op : {"create"}, w : Withdrawals, locked : BOOLEAN]
    \cup [op : Handled, w : Withdrawals]

WatchStates ==
    [at : {"idle"}]
    \cup [at : {"rows"}, ledger : Nat, todo : SUBSET Withdrawals]
    \cup [at : {"read", "orphan", "debit"}, ledger : Nat, todo : SUBSET Withdrawals,
          w : Withdrawals]

TypeOK ==
    /\ wd \in [Withdrawals -> [status : Statuses, nonceUsed : BOOLEAN, locked : BOOLEAN]]
    /\ keyRow \in [Keys -> {"none", "live", "expired"}]
    /\ request \in [Requests -> RequestStates]
    /\ watch \in WatchStates
    /\ chain \in [ledger : Nat,
                  tx : [Withdrawals -> [known : {FALSE}] \cup [known : {TRUE}, at : Nat]]]
    /\ debits \in [Withdrawals -> Nat]

Created(w) == wd[w].status # "none"
Ready(w) == Created(w) /\ ~wd[w].locked

\* Whoever acts on a row past its timelock has read it so, and it stays so.
ReadyInv ==
    /\ \A w \in Withdrawals : wd[w].status \in {"SIGNED", "SENT"} => Ready(w)
    /\ \A r \in Requests :
          /\ request[r].op \in Advancing => Ready(request[r].w)
          /\ request[r].op \in Correcting => Created(request[r].w)
    /\ watch.at # "idle" => \A w \in watch.todo : Ready(w)
    /\ watch.at \in {"read", "orphan", "debit"} => Ready(watch.w)
    /\ \A w \in Withdrawals : debits[w] > 0 => Ready(w)

\* No row the watcher has yet to deal with, and not the one in its hand, is
\* confirmed, so confirming it debits it for the first time.
WatchOpen ==
    /\ watch.at # "idle" => \A w \in watch.todo : wd[w].status # "CONFIRMED"
    /\ watch.at \in {"read", "orphan", "debit"} =>
          watch.w \notin watch.todo /\ wd[watch.w].status # "CONFIRMED"

Counted(w) == w \notin reopened => debits[w] = IF wd[w].status = "CONFIRMED" THEN 1 ELSE 0
DebitInv == WatchOpen /\ \A w \in Withdrawals : Counted(w)

\* The watcher's ledger is one that has closed, and what it found on it stays.
LandedInv ==
    /\ watch.at # "idle" => watch.ledger <= chain.ledger
    /\ watch.at = "read" => chain.tx[watch.w].known
    /\ watch.at = "debit" => /\ chain.tx[watch.w].known
                             /\ watch.ledger - chain.tx[watch.w].at >= Depth
    /\ \A w \in Withdrawals :
          debits[w] > 0 => chain.tx[w].known /\ chain.ledger - chain.tx[w].at >= Depth

\* A key's row is never deleted, so a key is taken by the first row with it.
KeyInv ==
    \A w \in Withdrawals, k \in Keys :
        Created(w) /\ k \in KeysOf[w] =>
            /\ keyRow[k] # "none"
            /\ \A v \in Withdrawals : Created(v) /\ k \in KeysOf[v] => v = w

IInv == TypeOK /\ ReadyInv /\ DebitInv /\ LandedInv /\ KeyInv

-----------------------------------------------------------------------------
(* Types.                                                                     *)

LEMMA RequestCarries ==
    ASSUME NEW q \in RequestStates
    PROVE  /\ q.op \in {"idle", "create"} \cup Handled
           /\ q.op = "create" => q.w \in Withdrawals /\ q.locked \in BOOLEAN
           /\ q.op \in Handled => /\ q \in [op : Handled, w : Withdrawals]
                                  /\ q.w \in Withdrawals
BY DEF RequestStates, Handled, Advancing, Correcting, Idle

LEMMA WatchCarries ==
    ASSUME NEW q \in WatchStates
    PROVE  /\ q.at \in {"idle", "rows", "read", "orphan", "debit"}
           /\ q.at # "idle" => q.ledger \in Nat /\ q.todo \in SUBSET Withdrawals
           /\ q.at \in {"read", "orphan", "debit"} =>
                 /\ q.w \in Withdrawals
                 /\ q = [at |-> q.at, ledger |-> q.ledger, todo |-> q.todo, w |-> q.w]
BY DEF WatchStates

\* What a handler's step writes to its own request.
LEMMA SlotTyped ==
    ASSUME TypeOK, NEW r \in Requests, NEW q \in RequestStates,
           request' = [request EXCEPT ![r] = q]
    PROVE  /\ request' \in [Requests -> RequestStates]
           /\ request'[r] = q
           /\ \A x \in Requests \ {r} : request'[x] = request[x]
BY DEF TypeOK

LEMMA StatusTyped ==
    ASSUME TypeOK, NEW w \in Withdrawals, NEW s \in Statuses \ {"none"}, SetStatus(w, s)
    PROVE  /\ wd' \in [Withdrawals -> [status : Statuses, nonceUsed : BOOLEAN,
                                       locked : BOOLEAN]]
           /\ wd'[w].status = s /\ wd'[w].locked = wd[w].locked
           /\ \A v \in Withdrawals \ {w} : wd'[v] = wd[v]
BY DEF TypeOK, SetStatus

-----------------------------------------------------------------------------
(* What a step of a handler, of the watcher, or of anything else leaves       *)
(* behind, said of the state before it.                                       *)

RowsKept ==
    \A w \in Withdrawals : /\ Created(w) => Created(w)'
                           /\ Ready(w) => Ready(w)'
                           /\ wd'[w].status \in {"SIGNED", "SENT"} => Ready(w)

RequestsReady ==
    \A r \in Requests :
        /\ request'[r].op \in Advancing => Ready(request'[r].w)
        /\ request'[r].op \in Correcting => Created(request'[r].w)

WatchReady ==
    /\ watch'.at # "idle" => \A w \in watch'.todo : Ready(w)
    /\ watch'.at \in {"read", "orphan", "debit"} => Ready(watch'.w)

DebitsReady == \A w \in Withdrawals : debits'[w] > 0 => Ready(w)

LEMMA ReadyStep ==
    ASSUME TypeOK', RowsKept, RequestsReady, WatchReady, DebitsReady
    PROVE  ReadyInv'
<1>1. \A r \in Requests : request'[r].op \in Handled => request'[r].w \in Withdrawals
  BY RequestCarries DEF TypeOK
<1>2. /\ watch'.at # "idle" => watch'.todo \in SUBSET Withdrawals
      /\ watch'.at \in {"read", "orphan", "debit"} => watch'.w \in Withdrawals
  BY WatchCarries DEF TypeOK
<1>3. \A w \in Withdrawals : wd'[w].status \in {"SIGNED", "SENT"} => Ready(w)'
  BY DEF RowsKept
<1>4. ASSUME NEW r \in Requests
      PROVE  /\ request'[r].op \in Advancing => Ready(request[r].w)'
             /\ request'[r].op \in Correcting => Created(request[r].w)'
  <2>1. CASE request'[r].op \in Advancing
    <3>1. PICK w \in Withdrawals : w = request'[r].w
      BY <1>1, <2>1 DEF Handled
    <3>2. Ready(w)'
      BY <2>1, <3>1 DEF RequestsReady, RowsKept
    <3> QED BY <2>1, <3>1, <3>2 DEF Ready, Created
  <2>2. CASE request'[r].op \in Correcting
    <3>1. PICK w \in Withdrawals : w = request'[r].w
      BY <1>1, <2>2 DEF Handled
    <3>2. Created(w)'
      BY <2>2, <3>1 DEF RequestsReady, RowsKept
    <3> QED BY <2>2, <3>1, <3>2 DEF Created, Correcting, Advancing
  <2> QED BY <2>1, <2>2
<1>5. watch'.at # "idle" => \A w \in watch'.todo : Ready(w)'
  BY <1>2 DEF WatchReady, RowsKept
<1>6. watch'.at \in {"read", "orphan", "debit"} => Ready(watch.w)'
  <2> SUFFICES ASSUME watch'.at \in {"read", "orphan", "debit"} PROVE Ready(watch.w)'
    OBVIOUS
  <2>1. PICK w \in Withdrawals : w = watch'.w
    BY <1>2
  <2>2. Ready(w)'
    BY <2>1 DEF WatchReady, RowsKept
  <2> QED BY <2>1, <2>2 DEF Ready, Created
<1>7. \A w \in Withdrawals : debits'[w] > 0 => Ready(w)'
  BY DEF DebitsReady, RowsKept
<1> QED BY <1>3, <1>4, <1>5, <1>6, <1>7 DEF ReadyInv

\* What was ready stays so by itself when nothing else moves.
LEMMA StillReady ==
    ASSUME TypeOK, ReadyInv
    PROVE  /\ (\A r \in Requests : request'[r] = request[r] \/ request'[r] = Idle)
                 => RequestsReady
           /\ UNCHANGED watch => WatchReady
           /\ UNCHANGED debits => DebitsReady
           /\ UNCHANGED wd => RowsKept
BY DEF ReadyInv, RequestsReady, WatchReady, DebitsReady, RowsKept, Ready, Created, Idle,
       Advancing, Correcting

-----------------------------------------------------------------------------
(* Handlers.                                                                  *)

HandlerKeeps ==
    /\ TypeOK'
    /\ UNCHANGED <<keyRow, watch, chain, debits>>
    /\ RowsKept /\ RequestsReady
    /\ \A w \in Withdrawals :
          /\ Created(w)' <=> Created(w)
          /\ w \in reopened => w \in reopened'
          /\ wd'[w].status = "CONFIRMED" => wd[w].status = "CONFIRMED"
          /\ wd[w].status = "CONFIRMED" => wd'[w].status = "CONFIRMED" \/ w \in reopened'

\* A handler that writes a status and answers.
LEMMA UpdateEffect ==
    ASSUME TypeOK, ReadyInv, NEW r \in Requests, NEW s \in Statuses \ {"none", "CONFIRMED"},
           request[r].op \in Handled, Update(r, s),
           s \in {"SIGNED", "SENT"} => request[r].op \in Advancing
    PROVE  HandlerKeeps
<1>1. PICK w \in Withdrawals : w = request[r].w
  BY RequestCarries DEF TypeOK
<1>2. /\ SetStatus(w, s) /\ Done(r)
      /\ reopened' = IF wd[w].status = "CONFIRMED" THEN reopened \cup {w} ELSE reopened
      /\ UNCHANGED <<keyRow, watch, chain, debits>>
  BY <1>1 DEF Update, RequestFrame
<1>3. /\ wd' \in [Withdrawals -> [status : Statuses, nonceUsed : BOOLEAN, locked : BOOLEAN]]
      /\ wd'[w].status = s /\ wd'[w].locked = wd[w].locked
      /\ \A v \in Withdrawals \ {w} : wd'[v] = wd[v]
  BY <1>2, StatusTyped
<1>4. /\ request' \in [Requests -> RequestStates]
      /\ \A x \in Requests : request'[x] = request[x] \/ request'[x] = Idle
  <2>1. Idle \in RequestStates
    BY DEF RequestStates
  <2> QED BY <1>2, <2>1, SlotTyped DEF Done
<1>5. Created(w) /\ (s \in {"SIGNED", "SENT"} => Ready(w))
  BY <1>1 DEF ReadyInv, Ready, Handled
<1>6. RowsKept /\ \A v \in Withdrawals : Created(v)' <=> Created(v)
  BY <1>3, <1>5 DEF RowsKept, Ready, Created, ReadyInv
<1>7. \A v \in Withdrawals :
        /\ v \in reopened => v \in reopened'
        /\ wd'[v].status = "CONFIRMED" => wd[v].status = "CONFIRMED"
        /\ wd[v].status = "CONFIRMED" => wd'[v].status = "CONFIRMED" \/ v \in reopened'
  BY <1>2, <1>3
<1>8. TypeOK'
  BY <1>2, <1>3, <1>4 DEF TypeOK
<1> QED BY <1>2, <1>4, <1>6, <1>7, <1>8, StillReady DEF HandlerKeeps

\* A handler that goes on, with what it has read.
LEMMA ReadEffect ==
    ASSUME TypeOK, ReadyInv, NEW r \in Requests, NEW q \in RequestStates,
           request' = [request EXCEPT ![r] = q],
           q.op \in Advancing => Ready(q.w),
           q.op \in Correcting => Created(q.w),
           UNCHANGED <<wd, keyRow, watch, chain, debits, reopened>>
    PROVE  HandlerKeeps
<1>1. /\ request' \in [Requests -> RequestStates]
      /\ request'[r] = q
      /\ \A x \in Requests \ {r} : request'[x] = request[x]
  BY SlotTyped
<1>2. RequestsReady
  BY <1>1 DEF RequestsReady, ReadyInv
<1>3. TypeOK'
  BY <1>1 DEF TypeOK
<1> QED BY <1>2, <1>3, StillReady DEF HandlerKeeps, Created

LEMMA HandlerStep ==
    ASSUME TypeOK, ReadyInv, NEW r \in Requests,
           \/ \E w \in Withdrawals :
                 CreateWithdrawal(r, w) \/ \E op \in Calls[w] : ReadRequest(r, op, w)
           \/ CheckSolvency(r) \/ Park(r) \/ CheckNonce(r) \/ MarkNonce(r)
           \/ SignWithdrawal(r) \/ SubmitWithdrawal(r) \/ RevalidateWithdrawal(r) \/ CancelWithdrawal(r)
    PROVE  HandlerKeeps
<1>0. request[r] \in RequestStates
  BY DEF TypeOK
<1>1. ASSUME NEW w \in Withdrawals, CreateWithdrawal(r, w) PROVE HandlerKeeps
  <2> DEFINE q == [op |-> "create", w |-> w, locked |-> whitelist # "active"]
  <2>1. q \in RequestStates /\ q.op \notin Advancing \cup Correcting
    BY DEF RequestStates, Advancing, Correcting
  <2>2. request' = [request EXCEPT ![r] = q] /\ UNCHANGED <<wd, keyRow, watch, chain, debits, reopened>>
    BY <1>1 DEF CreateWithdrawal, rows, history
  <2> HIDE DEF q
  <2> QED BY <2>1, <2>2, ReadEffect
<1>2. ASSUME NEW w \in Withdrawals, NEW op \in Calls[w], ReadRequest(r, op, w)
      PROVE  HandlerKeeps
  <2> DEFINE q == [op |-> op, w |-> w]
  <2>1. op \in {"sign", "submit", "revalidate", "cancel"}
    BY WithdrawalsAssumption
  <2>2. q \in RequestStates /\ q.op = op /\ q.w = w
    BY <2>1 DEF RequestStates, Handled, Advancing, Correcting
  <2>3. request' = [request EXCEPT ![r] = q] /\ UNCHANGED <<wd, keyRow, watch, chain, debits, reopened>>
    BY <1>2 DEF ReadRequest, rows, history
  <2>4. Admits(op, w)
    BY <1>2 DEF ReadRequest
  <2>5. /\ op \in {"sign", "submit"} => Ready(w)
        /\ Created(w)
    BY <2>1, <2>4 DEF Admits, Signable, Ready, Created, ReadyInv
  <2> HIDE DEF q
  <2> QED BY <2>1, <2>2, <2>3, <2>5, ReadEffect DEF Advancing, Correcting
<1>3. CASE Park(r) \/ SignWithdrawal(r) \/ SubmitWithdrawal(r) \/ RevalidateWithdrawal(r)
           \/ CancelWithdrawal(r)
  BY <1>3, UpdateEffect DEF Park, SignWithdrawal, SubmitWithdrawal, RevalidateWithdrawal,
                            CancelWithdrawal, Statuses, Handled, Advancing, Correcting
\* A handler that answers without a write, or goes on to op.
<1>10. ASSUME request[r].op \in Handled, UNCHANGED <<wd, keyRow, watch, chain, debits, reopened>>,
              \/ Done(r)
              \/ \E op \in Handled : /\ Continue(r, op)
                                     /\ op \in Advancing => request[r].op \in Advancing
       PROVE  HandlerKeeps
  <2>1. /\ request[r] \in [op : Handled, w : Withdrawals] /\ Created(request[r].w)
        /\ request[r].op \in Advancing => Ready(request[r].w)
    BY <1>0, <1>10, RequestCarries DEF Handled, ReadyInv, Ready
  <2>2. CASE Done(r)
    <3>1. Idle \in RequestStates /\ Idle.op \notin Advancing \cup Correcting
      BY DEF RequestStates, Idle, Advancing, Correcting
    <3> QED BY <1>10, <2>2, <3>1, ReadEffect DEF Done
  <2>3. ASSUME NEW op \in Handled, Continue(r, op), op \in Advancing => request[r].op \in Advancing
        PROVE  HandlerKeeps
    <3> DEFINE q == [request[r] EXCEPT !.op = op]
    <3>1. q \in RequestStates /\ q.op = op /\ q.w = request[r].w
      BY <2>1 DEF RequestStates
    <3>2. request' = [request EXCEPT ![r] = q]
      BY <2>3 DEF Continue
    <3> HIDE DEF q
    <3> QED BY <1>10, <2>1, <2>3, <3>1, <3>2, ReadEffect
  <2> QED BY <1>10, <2>2, <2>3
<1>4. CASE CheckNonce(r)
  <2>1. /\ request[r].op = "nonce" /\ UNCHANGED <<wd, keyRow, watch, chain, debits, reopened>>
        /\ Done(r) \/ Continue(r, "mark")
    BY <1>4 DEF CheckNonce, RequestFrame
  <2> QED BY <1>10, <2>1 DEF Handled, Advancing
<1>6. CASE CheckSolvency(r)
  <2>1. /\ request[r].op \in {"sign", "submit", "revalidate"}
        /\ UNCHANGED <<wd, keyRow, watch, chain, debits, reopened>>
        /\ \/ Done(r) \/ Continue(r, "park") \/ Continue(r, IfSolvent[request[r].op])
    BY <1>6 DEF CheckSolvency, RequestFrame, IfSolvent
  <2>2. \/ Done(r) \/ Continue(r, "park")
        \/ request[r].op = "sign" /\ Continue(r, "nonce")
        \/ request[r].op = "submit" /\ Continue(r, "send")
        \/ Continue(r, "redraft")
    BY <2>1 DEF IfSolvent
  <2> QED BY <1>10, <2>1, <2>2 DEF Handled, Advancing, Correcting
<1>5. CASE MarkNonce(r)
  <2>1. /\ request[r].op = "mark" /\ UNCHANGED <<keyRow, watch, chain, debits, reopened>>
        /\ wd' = [wd EXCEPT ![request[r].w].nonceUsed = TRUE]
        /\ Continue(r, "signed")
    BY <1>5 DEF MarkNonce, RequestFrame
  <2>2. request[r] \in [op : Handled, w : Withdrawals] /\ Ready(request[r].w)
    BY <1>0, <2>1, RequestCarries DEF Handled, Advancing, ReadyInv
  <2> DEFINE q == [request[r] EXCEPT !.op = "signed"]
  <2>3. q \in RequestStates /\ q.op = "signed" /\ q.w = request[r].w
    BY <2>2 DEF RequestStates, Handled, Advancing
  <2>4. request' = [request EXCEPT ![r] = q]
    BY <2>1 DEF Continue
  <2>5. /\ wd' \in [Withdrawals -> [status : Statuses, nonceUsed : BOOLEAN, locked : BOOLEAN]]
        /\ \A v \in Withdrawals : wd'[v].status = wd[v].status /\ wd'[v].locked = wd[v].locked
    <3>1. wd \in [Withdrawals -> [status : Statuses, nonceUsed : BOOLEAN, locked : BOOLEAN]]
      BY DEF TypeOK
    <3>2. request[r].w \in Withdrawals
      BY <2>2
    <3>3. wd' = [wd EXCEPT ![request[r].w].nonceUsed = TRUE]
      BY <2>1
    <3> QED BY <3>1, <3>2, <3>3
  <2> HIDE DEF q
  <2>6. /\ request' \in [Requests -> RequestStates]
        /\ request'[r] = q
        /\ \A x \in Requests \ {r} : request'[x] = request[x]
    BY <2>3, <2>4, SlotTyped
  <2>7. RowsKept /\ RequestsReady
    BY <2>2, <2>3, <2>5, <2>6 DEF RowsKept, RequestsReady, ReadyInv, Ready, Created, Correcting
  <2>8. UNCHANGED <<keyRow, watch, chain, debits, reopened>>
    BY <2>1
  <2>9. TypeOK'
    BY <2>5, <2>6, <2>8 DEF TypeOK
  <2> QED BY <2>5, <2>7, <2>8, <2>9 DEF HandlerKeeps, Created
<1> QED BY <1>1, <1>2, <1>3, <1>4, <1>5, <1>6

\* Keys stay taken while no row is created.
LEMMA KeysStay ==
    ASSUME KeyInv, \A w \in Withdrawals : Created(w)' <=> Created(w),
           \A k \in Keys : keyRow[k] # "none" => keyRow'[k] # "none"
    PROVE  KeyInv'
<1> SUFFICES ASSUME NEW w \in Withdrawals, NEW k \in Keys, Created(w)', k \in KeysOf[w]
             PROVE  /\ keyRow'[k] # "none"
                    /\ \A v \in Withdrawals : Created(v)' /\ k \in KeysOf[v] => v = w
  BY DEF KeyInv
<1> QED BY DEF KeyInv

LEMMA HandlerInv ==
    ASSUME IInv, HandlerKeeps
    PROVE  IInv'
<1>1. TypeOK /\ TypeOK' /\ UNCHANGED <<keyRow, watch, chain, debits>>
  BY DEF IInv, HandlerKeeps
<1>2. ReadyInv'
  BY <1>1, StillReady, ReadyStep DEF IInv, HandlerKeeps
<1>3. \A w \in Withdrawals : Counted(w)'
  BY <1>1 DEF HandlerKeeps, IInv, DebitInv, Counted
<1>4. WatchOpen'
  <2>1. /\ watch.at # "idle" => watch.todo \in SUBSET Withdrawals
        /\ watch.at \in {"read", "orphan", "debit"} => watch.w \in Withdrawals
    BY <1>1, WatchCarries DEF TypeOK
  <2> QED BY <1>1, <2>1 DEF HandlerKeeps, IInv, DebitInv, WatchOpen
<1>5. DebitInv'
  BY <1>3, <1>4 DEF DebitInv, Counted
<1>6. LandedInv'
  BY <1>1 DEF IInv, LandedInv
<1>7. KeyInv'
  BY <1>1, KeysStay DEF IInv, HandlerKeeps
<1> QED BY <1>1, <1>2, <1>5, <1>6, <1>7 DEF IInv

\* The transaction that creates a row takes its keys, or does nothing.
LEMMA StoreStep ==
    ASSUME IInv, NEW r \in Requests, StoreWithdrawal(r)
    PROVE  IInv'
<1>1. TypeOK /\ request[r] \in RequestStates /\ request[r].op = "create"
  BY DEF IInv, TypeOK, StoreWithdrawal
<1>2. PICK w \in Withdrawals : w = request[r].w /\ request[r].locked \in BOOLEAN
  BY <1>1, RequestCarries
<1>3. UNCHANGED <<watch, chain, debits, reopened>>
  BY DEF StoreWithdrawal, history
<1>4. /\ request' \in [Requests -> RequestStates]
      /\ \A x \in Requests : request'[x] = request[x] \/ request'[x] = Idle
  <2>1. Idle \in RequestStates
    BY DEF RequestStates
  <2> QED BY <1>1, <2>1, SlotTyped DEF StoreWithdrawal
<1>5. CASE KeyFree(KeysOf[w]) /\ wd[w].status = "none"
  <2>1. /\ wd' = [wd EXCEPT ![w] = [status |-> "DRAFT", nonceUsed |-> FALSE,
                                    locked |-> request[r].locked]]
        /\ keyRow' = [k \in Keys |-> IF k \in KeysOf[w] THEN "live" ELSE keyRow[k]]
    BY <1>2, <1>5 DEF StoreWithdrawal
  <2>2. /\ wd' \in [Withdrawals -> [status : Statuses, nonceUsed : BOOLEAN, locked : BOOLEAN]]
        /\ wd'[w].status = "DRAFT"
        /\ \A v \in Withdrawals \ {w} : wd'[v] = wd[v]
    BY <1>1, <1>2, <2>1 DEF TypeOK, Statuses
  <2>3. keyRow' \in [Keys -> {"none", "live", "expired"}]
    BY <1>1, <2>1 DEF TypeOK
  <2>4. TypeOK'
    BY <1>1, <1>3, <1>4, <2>2, <2>3 DEF TypeOK
  <2>5. ~Created(w)
    BY <1>5 DEF Created
  <2>6. RowsKept
    BY <2>2, <2>5 DEF RowsKept, Ready, Created, IInv, ReadyInv
  <2>7. ReadyInv'
    BY <1>1, <1>3, <1>4, <2>4, <2>6, StillReady, ReadyStep DEF IInv
  <2>8. \A v \in Withdrawals : wd'[v].status = "CONFIRMED" <=> wd[v].status = "CONFIRMED"
    BY <1>5, <2>2
  <2>9. DebitInv'
    <3>1. /\ watch.at # "idle" => watch.todo \in SUBSET Withdrawals
          /\ watch.at \in {"read", "orphan", "debit"} => watch.w \in Withdrawals
      BY <1>1, WatchCarries DEF TypeOK
    <3>2. \A v \in Withdrawals : Counted(v)'
      BY <1>3, <2>8 DEF IInv, DebitInv, Counted
    <3>3. WatchOpen'
      BY <1>3, <2>8, <3>1 DEF IInv, DebitInv, WatchOpen
    <3> QED BY <3>2, <3>3 DEF DebitInv, Counted
  <2>10. LandedInv'
    BY <1>3 DEF IInv, LandedInv
  <2>11. KeyInv'
    <3>1. \A v \in Withdrawals : Created(v)' <=> Created(v) \/ v = w
      BY <2>2, <2>5 DEF Created
    <3>2. \A k \in Keys : k \in KeysOf[w] => keyRow[k] = "none"
      BY <1>5 DEF KeyFree
    <3>3. \A k \in Keys : keyRow'[k] = IF k \in KeysOf[w] THEN "live" ELSE keyRow[k]
      BY <2>1
    <3> SUFFICES ASSUME NEW u \in Withdrawals, NEW k \in Keys, Created(u)', k \in KeysOf[u]
                 PROVE  /\ keyRow'[k] # "none"
                        /\ \A v \in Withdrawals : Created(v)' /\ k \in KeysOf[v] => v = u
      BY DEF KeyInv
    <3> QED BY <3>1, <3>2, <3>3 DEF IInv, KeyInv
  <2> QED BY <2>4, <2>7, <2>9, <2>10, <2>11 DEF IInv
<1>6. CASE ~(KeyFree(KeysOf[w]) /\ wd[w].status = "none")
  <2>1. UNCHANGED <<wd, keyRow>>
    BY <1>2, <1>6 DEF StoreWithdrawal
  <2>2. TypeOK'
    BY <1>1, <1>3, <1>4, <2>1 DEF TypeOK
  <2>3. ReadyInv'
    BY <1>1, <1>3, <1>4, <2>1, <2>2, StillReady, ReadyStep DEF IInv
  <2>4. DebitInv' /\ LandedInv'
    BY <1>3, <2>1 DEF IInv, DebitInv, WatchOpen, Counted, LandedInv
  <2>5. KeyInv'
    BY <2>1, KeysStay DEF IInv, Created
  <2> QED BY <2>2, <2>3, <2>4, <2>5 DEF IInv
<1> QED BY <1>5, <1>6

-----------------------------------------------------------------------------
(* Time, the whitelist, the chain and the indexer.                            *)

EnvironmentAction ==
    \/ \E instant \in BOOLEAN : AddToWhitelist(instant)
    \/ RemoveFromWhitelist \/ TimePasses \/ LedgerCloses
    \/ \E w \in Withdrawals : TxLands(w)
    \/ \E a \in Assets, delta \in Deltas : IndexerSync(a, delta)
    \/ ResetDatabase \/ UNCHANGED vars

\* A row is only unlocked, a key only expires, a transaction only lands.
EnvironmentKeeps ==
    /\ TypeOK'
    /\ UNCHANGED <<request, watch, debits, reopened>>
    /\ \A w \in Withdrawals : /\ wd'[w].status = wd[w].status
                              /\ wd'[w].locked => wd[w].locked
    /\ \A k \in Keys : keyRow[k] # "none" => keyRow'[k] # "none"
    /\ chain'.ledger >= chain.ledger
    /\ \A w \in Withdrawals : chain.tx[w].known => chain'.tx[w] = chain.tx[w]

LEMMA EnvironmentMoves ==
    ASSUME TypeOK, EnvironmentAction
    PROVE  EnvironmentKeeps
<1>0. chain.ledger \in Nat /\ chain.ledger >= chain.ledger
  BY DEF TypeOK
<1>1. ASSUME UNCHANGED <<wd, keyRow, request, watch, chain, debits, reopened>>
      PROVE  EnvironmentKeeps
  <2>1. TypeOK'
    BY <1>1 DEF TypeOK
  <2> QED BY <1>0, <1>1, <2>1 DEF EnvironmentKeeps
<1>2. CASE \/ \E instant \in BOOLEAN : AddToWhitelist(instant)
           \/ RemoveFromWhitelist
           \/ \E a \in Assets, delta \in Deltas : IndexerSync(a, delta)
           \/ ResetDatabase \/ UNCHANGED vars
  BY <1>1, <1>2 DEF AddToWhitelist, RemoveFromWhitelist, WhitelistFrame, IndexerSync,
                    ResetDatabase, vars, rows, history
<1>3. CASE TimePasses
  <2>1. UNCHANGED <<request, watch, chain, debits, reopened>>
    BY <1>3 DEF TimePasses, history
  <2>2. /\ wd' \in [Withdrawals -> [status : Statuses, nonceUsed : BOOLEAN, locked : BOOLEAN]]
        /\ \A w \in Withdrawals : /\ wd'[w].status = wd[w].status
                                  /\ wd'[w].locked => wd[w].locked
    <3>1. UNCHANGED wd \/ \E w \in Withdrawals : wd' = [wd EXCEPT ![w].locked = FALSE]
      BY <1>3 DEF TimePasses
    <3>2. CASE UNCHANGED wd
      BY <3>2 DEF TypeOK
    <3>3. ASSUME NEW v \in Withdrawals, wd' = [wd EXCEPT ![v].locked = FALSE]
          PROVE  /\ wd' \in [Withdrawals -> [status : Statuses, nonceUsed : BOOLEAN,
                                             locked : BOOLEAN]]
                 /\ \A w \in Withdrawals : /\ wd'[w].status = wd[w].status
                                           /\ wd'[w].locked => wd[w].locked
      BY <3>3 DEF TypeOK
    <3> QED BY <3>1, <3>2, <3>3
  <2>3. /\ keyRow' \in [Keys -> {"none", "live", "expired"}]
        /\ \A k \in Keys : keyRow[k] # "none" => keyRow'[k] # "none"
    BY <1>3 DEF TimePasses, TypeOK
  <2>4. TypeOK'
    BY <2>1, <2>2, <2>3 DEF TypeOK
  <2> QED BY <1>0, <2>1, <2>2, <2>3, <2>4 DEF EnvironmentKeeps
<1>4. CASE LedgerCloses
  <2>1. /\ UNCHANGED <<wd, keyRow, request, watch, debits, reopened>>
        /\ chain' = [chain EXCEPT !.ledger = @ + 1]
    BY <1>4 DEF LedgerCloses, rows, history
  <2>2. chain'.ledger = chain.ledger + 1 /\ chain'.tx = chain.tx
    BY <2>1 DEF TypeOK
  <2>3. TypeOK'
    <3> DEFINE T == [Withdrawals -> [known : {FALSE}] \cup [known : {TRUE}, at : Nat]]
    <3>1. chain \in [ledger : Nat, tx : T]
      BY DEF TypeOK
    <3>2. chain.ledger + 1 \in Nat
      BY <1>0
    <3> HIDE DEF T
    <3>3. chain' \in [ledger : Nat, tx : T]
      BY <2>1, <3>1, <3>2
    <3> QED BY <2>1, <3>3 DEF TypeOK, T
  <2> QED BY <1>0, <2>1, <2>2, <2>3 DEF EnvironmentKeeps
<1>5. ASSUME NEW w \in Withdrawals, TxLands(w)
      PROVE  EnvironmentKeeps
  <2>1. /\ UNCHANGED <<wd, keyRow, request, watch, debits, reopened>>
        /\ chain' = [chain EXCEPT !.tx[w] = [known |-> TRUE, at |-> chain.ledger]]
        /\ ~chain.tx[w].known
    BY <1>5 DEF TxLands, rows, history
  <2>2. chain'.ledger = chain.ledger /\ \A v \in Withdrawals \ {w} : chain'.tx[v] = chain.tx[v]
    BY <2>1 DEF TypeOK
  <2>3. chain' \in [ledger : Nat,
                    tx : [Withdrawals -> [known : {FALSE}] \cup [known : {TRUE}, at : Nat]]]
    BY <1>0, <2>1 DEF TypeOK
  <2>4. TypeOK'
    BY <2>1, <2>3 DEF TypeOK
  <2> QED BY <1>0, <2>1, <2>2, <2>4 DEF EnvironmentKeeps
<1> QED BY <1>2, <1>3, <1>4, <1>5 DEF EnvironmentAction

\* A transaction that was Depth ledgers old stays so.
LEMMA LandedStays ==
    ASSUME TypeOK, TypeOK', NEW w \in Withdrawals, NEW l \in Nat, NEW m \in Nat, m >= l,
           chain.tx[w].known, l - chain.tx[w].at >= Depth, chain'.tx[w] = chain.tx[w]
    PROVE  chain'.tx[w].known /\ m - chain'.tx[w].at >= Depth
<1>1. chain.tx[w].at \in Nat /\ Depth \in Nat
  BY WithdrawalsAssumption DEF TypeOK
<1> QED BY <1>1

LEMMA EnvironmentInv ==
    ASSUME IInv, EnvironmentAction
    PROVE  IInv'
<1>1. TypeOK /\ EnvironmentKeeps
  BY EnvironmentMoves DEF IInv
<1>2. TypeOK' /\ UNCHANGED <<request, watch, debits, reopened>>
  BY <1>1 DEF EnvironmentKeeps
<1>3. RowsKept
  BY <1>1 DEF EnvironmentKeeps, RowsKept, Ready, Created, IInv, ReadyInv
<1>4. ReadyInv'
  BY <1>1, <1>2, <1>3, StillReady, ReadyStep DEF IInv
<1>5. DebitInv'
  <2>1. /\ watch.at # "idle" => watch.todo \in SUBSET Withdrawals
        /\ watch.at \in {"read", "orphan", "debit"} => watch.w \in Withdrawals
    BY <1>1, WatchCarries DEF TypeOK
  <2>2. \A w \in Withdrawals : Counted(w)'
    BY <1>1, <1>2 DEF EnvironmentKeeps, IInv, DebitInv, Counted
  <2>3. WatchOpen'
    BY <1>1, <1>2, <2>1 DEF EnvironmentKeeps, IInv, DebitInv, WatchOpen
  <2> QED BY <2>2, <2>3 DEF DebitInv, Counted
<1>6. KeyInv'
  BY <1>1, KeysStay DEF EnvironmentKeeps, IInv, Created
<1>7. LandedInv'
  <2>1. chain.ledger \in Nat /\ chain'.ledger \in Nat /\ chain'.ledger >= chain.ledger
    BY <1>1, <1>2 DEF EnvironmentKeeps, TypeOK
  <2>2. watch.at # "idle" => watch.ledger \in Nat
    BY <1>1, WatchCarries DEF TypeOK
  <2>3. watch.at \in {"read", "orphan", "debit"} => watch.w \in Withdrawals
    BY <1>1, WatchCarries DEF TypeOK
  <2>4. watch.at # "idle" => watch.ledger <= chain'.ledger
    BY <2>1, <2>2 DEF IInv, LandedInv
  <2>5. watch.at = "read" => chain'.tx[watch.w].known
    BY <1>1, <2>3 DEF EnvironmentKeeps, IInv, LandedInv
  <2>6. watch.at = "debit" => /\ chain'.tx[watch.w].known
                              /\ watch.ledger - chain'.tx[watch.w].at >= Depth
    BY <1>1, <2>3 DEF EnvironmentKeeps, IInv, LandedInv
  <2>7. ASSUME NEW w \in Withdrawals, debits[w] > 0
        PROVE  chain'.tx[w].known /\ chain'.ledger - chain'.tx[w].at >= Depth
    <3>1. chain.tx[w].known /\ chain.ledger - chain.tx[w].at >= Depth
      BY <2>7 DEF IInv, LandedInv
    <3>2. chain'.tx[w] = chain.tx[w]
      BY <1>1, <3>1 DEF EnvironmentKeeps
    <3> QED BY <1>1, <1>2, <2>1, <3>1, <3>2, LandedStays
  <2> QED BY <1>2, <2>4, <2>5, <2>6, <2>7 DEF LandedInv
<1> QED BY <1>2, <1>4, <1>5, <1>6, <1>7 DEF IInv

-----------------------------------------------------------------------------
(* The watcher.                                                               *)

LEMMA WatchingTyped ==
    ASSUME TypeOK, watch.at # "idle", NEW S \in SUBSET watch.todo, Watching(S)
    PROVE  /\ watch' \in WatchStates /\ watch'.at \in {"idle", "rows"}
           /\ watch'.at # "idle" => watch'.ledger = watch.ledger /\ watch'.todo \subseteq watch.todo
<1>1. watch.ledger \in Nat /\ watch.todo \in SUBSET Withdrawals
  BY WatchCarries DEF TypeOK
<1>2. S \in SUBSET Withdrawals
  BY <1>1
<1> QED BY <1>1, <1>2 DEF Watching, WatchStates

WatchStaysOpen ==
    /\ watch'.at # "idle" => \A w \in watch'.todo : wd[w].status # "CONFIRMED"
    /\ watch'.at \in {"read", "orphan", "debit"} =>
          watch'.w \notin watch'.todo /\ wd[watch'.w].status # "CONFIRMED"

\* What a step of the watcher writes when it debits nothing.
LEMMA WatcherQuiet ==
    ASSUME IInv, watch' \in WatchStates, WatchReady, WatchStaysOpen,
           UNCHANGED <<keyRow, request, chain, debits, reopened>>,
           \/ UNCHANGED wd
           \/ watch.at = "orphan" /\ SetStatus(watch.w, "ORPHANED"),
           watch'.at # "idle" => watch'.ledger <= chain.ledger,
           watch'.at = "read" => chain.tx[watch'.w].known,
           watch'.at = "debit" => /\ chain.tx[watch'.w].known
                                  /\ watch'.ledger - chain.tx[watch'.w].at >= Depth
    PROVE  IInv'
<1>1. TypeOK /\ (watch.at = "orphan" => watch.w \in Withdrawals /\ Created(watch.w))
  BY WatchCarries DEF IInv, TypeOK, ReadyInv, Ready
<1>2. /\ wd' \in [Withdrawals -> [status : Statuses, nonceUsed : BOOLEAN, locked : BOOLEAN]]
      /\ \A w \in Withdrawals : /\ wd'[w].locked = wd[w].locked
                                /\ Created(w)' <=> Created(w)
                                /\ wd'[w].status # wd[w].status => wd'[w].status = "ORPHANED"
  <2>1. CASE UNCHANGED wd
    BY <1>1, <2>1 DEF TypeOK, Created
  <2>2. CASE watch.at = "orphan" /\ SetStatus(watch.w, "ORPHANED")
    <3>1. "ORPHANED" \in Statuses \ {"none"}
      BY DEF Statuses
    <3>2. PICK u \in Withdrawals : u = watch.w /\ Created(u)
      BY <1>1, <2>2 DEF Created
    <3>3. SetStatus(u, "ORPHANED")
      BY <2>2, <3>2 DEF SetStatus
    <3> QED BY <1>1, <3>1, <3>2, <3>3, StatusTyped DEF Created
  <2> QED BY <2>1, <2>2
<1>3. TypeOK'
  BY <1>1, <1>2 DEF TypeOK
<1>4. RowsKept
  BY <1>2 DEF RowsKept, Ready, Created, IInv, ReadyInv
<1>5. ReadyInv'
  BY <1>1, <1>3, <1>4, StillReady, ReadyStep DEF IInv
<1>6. DebitInv'
  <2>1. /\ watch'.at # "idle" => watch'.todo \in SUBSET Withdrawals
        /\ watch'.at \in {"read", "orphan", "debit"} => watch'.w \in Withdrawals
    BY WatchCarries
  <2>2. \A w \in Withdrawals : wd'[w].status = "CONFIRMED" <=> wd[w].status = "CONFIRMED"
    <3>1. CASE UNCHANGED wd
      BY <3>1
    <3>2. CASE watch.at = "orphan" /\ SetStatus(watch.w, "ORPHANED")
      <4>1. PICK u \in Withdrawals : u = watch.w /\ wd[u].status # "CONFIRMED"
        BY <1>1, <3>2 DEF IInv, DebitInv, WatchOpen
      <4>2. \A w \in Withdrawals : w # u => wd'[w] = wd[w]
        BY <1>1, <3>2, <4>1 DEF SetStatus, TypeOK
      <4>3. wd'[u].status = "ORPHANED"
        BY <1>1, <3>2, <4>1 DEF SetStatus, TypeOK
      <4> QED BY <4>1, <4>2, <4>3
    <3> QED BY <3>1, <3>2
  <2>3. \A w \in Withdrawals : Counted(w)'
    BY <2>2 DEF IInv, DebitInv, Counted
  <2>4. WatchOpen'
    BY <2>1, <2>2 DEF WatchStaysOpen, WatchOpen
  <2> QED BY <2>3, <2>4 DEF DebitInv, Counted
<1>7. LandedInv'
  BY DEF IInv, LandedInv
<1>8. KeyInv'
  BY <1>2, KeysStay DEF IInv
<1> QED BY <1>3, <1>5, <1>6, <1>7, <1>8 DEF IInv

LEMMA ConfirmStep ==
    ASSUME IInv, ConfirmWithdrawal
    PROVE  IInv'
<1>1. /\ watch.at = "debit" /\ SetStatus(watch.w, "CONFIRMED") /\ Watching(watch.todo)
      /\ debits' = [debits EXCEPT ![watch.w] = @ + 1]
      /\ UNCHANGED <<keyRow, request, chain, reopened>>
  BY DEF ConfirmWithdrawal, WatchFrame
<1>2. TypeOK /\ watch \in WatchStates
  BY DEF IInv, TypeOK
<1>3. PICK u \in Withdrawals : u = watch.w
  BY <1>1, <1>2, WatchCarries
<1>4. Ready(u) /\ u \notin watch.todo /\ wd[u].status # "CONFIRMED"
  BY <1>1, <1>3 DEF IInv, ReadyInv, DebitInv, WatchOpen, Ready, Created
<1>5. /\ wd' \in [Withdrawals -> [status : Statuses, nonceUsed : BOOLEAN, locked : BOOLEAN]]
      /\ wd'[u].status = "CONFIRMED" /\ wd'[u].locked = wd[u].locked
      /\ \A v \in Withdrawals \ {u} : wd'[v] = wd[v]
  <2>1. SetStatus(u, "CONFIRMED") /\ "CONFIRMED" \in Statuses \ {"none"}
    BY <1>1, <1>3 DEF SetStatus, Statuses
  <2> QED BY <1>2, <2>1, StatusTyped
<1>6. /\ watch' \in WatchStates /\ watch'.at \in {"idle", "rows"}
      /\ watch'.at # "idle" => watch'.ledger = watch.ledger /\ watch'.todo \subseteq watch.todo
  <2>1. watch.at # "idle" /\ watch.todo \in SUBSET watch.todo
    BY <1>1
  <2> QED BY <1>1, <1>2, <2>1, WatchingTyped
<1>7. /\ debits' \in [Withdrawals -> Nat]
      /\ debits'[u] = debits[u] + 1
      /\ \A v \in Withdrawals \ {u} : debits'[v] = debits[v]
  BY <1>1, <1>2, <1>3 DEF TypeOK
<1>8. TypeOK'
  BY <1>1, <1>2, <1>5, <1>6, <1>7 DEF TypeOK
<1>9. RowsKept /\ \A v \in Withdrawals : Created(v)' <=> Created(v)
  BY <1>4, <1>5 DEF RowsKept, Ready, Created, IInv, ReadyInv
<1>10. WatchReady /\ DebitsReady
  BY <1>1, <1>4, <1>6, <1>7 DEF WatchReady, DebitsReady, IInv, ReadyInv
<1>11. ReadyInv'
  BY <1>1, <1>2, <1>8, <1>9, <1>10, StillReady, ReadyStep DEF IInv
<1>12. DebitInv'
  <2>1. watch.todo \in SUBSET Withdrawals
    BY <1>1, <1>2, WatchCarries
  <2>2. Counted(u)'
    <3>1. u \notin reopened => debits[u] = 0
      BY <1>4 DEF IInv, DebitInv, Counted
    <3> QED BY <1>1, <1>5, <1>7, <3>1 DEF Counted
  <2>3. \A v \in Withdrawals \ {u} : Counted(v)'
    BY <1>1, <1>5, <1>7 DEF IInv, DebitInv, Counted
  <2>4. WatchOpen'
    BY <1>1, <1>4, <1>5, <1>6, <2>1 DEF IInv, DebitInv, WatchOpen
  <2> QED BY <2>2, <2>3, <2>4 DEF DebitInv, Counted
<1>13. LandedInv'
  <2>1. /\ watch.ledger \in Nat /\ chain.ledger \in Nat /\ watch.ledger <= chain.ledger
        /\ chain.tx[u].known /\ watch.ledger - chain.tx[u].at >= Depth
    BY <1>1, <1>2, <1>3, WatchCarries DEF IInv, LandedInv, TypeOK
  <2>2. chain.ledger - chain.tx[u].at >= Depth
    BY <1>1, <1>2, <1>8, <2>1, LandedStays
  <2>3. watch'.at # "idle" => watch'.ledger <= chain.ledger
    BY <1>6, <2>1
  <2>4. \A v \in Withdrawals :
          debits'[v] > 0 => chain.tx[v].known /\ chain.ledger - chain.tx[v].at >= Depth
    BY <1>7, <2>1, <2>2 DEF IInv, LandedInv
  <2> QED BY <1>1, <1>6, <2>3, <2>4 DEF LandedInv
<1>14. KeyInv'
  BY <1>1, <1>9, KeysStay DEF IInv
<1> QED BY <1>8, <1>11, <1>12, <1>13, <1>14 DEF IInv

LEMMA WatcherStep ==
    ASSUME IInv, RunWatcher
    PROVE  IInv'
<1>0. TypeOK /\ watch \in WatchStates /\ chain.ledger \in Nat /\ chain.ledger <= chain.ledger
  <2>1. TypeOK /\ watch \in WatchStates /\ chain.ledger \in Nat
    BY DEF IInv, TypeOK
  <2>2. chain.ledger <= chain.ledger
    BY <2>1
  <2> QED BY <2>1, <2>2
<1>1. CASE WatcherStart
  <2> DEFINE S == {w \in Withdrawals : wd[w].status = "SENT"}
  <2>1. /\ watch' = [at |-> "rows", ledger |-> chain.ledger, todo |-> S]
        /\ UNCHANGED <<wd, keyRow, request, chain, debits, reopened>>
    BY <1>1 DEF WatcherStart, WatchFrame
  <2>2. \A w \in S : Ready(w) /\ wd[w].status # "CONFIRMED"
    BY DEF IInv, ReadyInv
  <2>3. S \in SUBSET Withdrawals
    OBVIOUS
  <2> HIDE DEF S
  <2>4. watch' \in WatchStates
    BY <1>0, <2>1, <2>3 DEF WatchStates
  <2> QED BY <1>0, <2>1, <2>2, <2>4, WatcherQuiet DEF WatchReady, WatchStaysOpen
\* A row that is left, whatever became of it.
<1>2. ASSUME watch.at # "idle", NEW S \in SUBSET watch.todo, Watching(S),
             UNCHANGED <<keyRow, request, chain, debits, reopened>>,
             UNCHANGED wd \/ (watch.at = "orphan" /\ SetStatus(watch.w, "ORPHANED"))
      PROVE  IInv'
  <2>1. /\ watch' \in WatchStates /\ watch'.at \in {"idle", "rows"}
        /\ watch'.at # "idle" => watch'.ledger = watch.ledger /\ watch'.todo \subseteq watch.todo
    BY <1>0, <1>2, WatchingTyped
  <2>2. WatchReady /\ WatchStaysOpen
    BY <1>2, <2>1 DEF WatchReady, WatchStaysOpen, IInv, ReadyInv, DebitInv, WatchOpen
  <2>3. watch'.at # "idle" => watch'.ledger <= chain.ledger
    BY <1>2, <2>1 DEF IInv, LandedInv
  <2> QED BY <1>2, <2>1, <2>2, <2>3, WatcherQuiet
<1>3. ASSUME NEW w \in Withdrawals, WatcherFetch(w)
      PROVE  IInv'
  <2>1. /\ watch.at = "rows" /\ w \in watch.todo
        /\ UNCHANGED <<wd, keyRow, request, chain, debits, reopened>>
    BY <1>3 DEF WatcherFetch, WatchFrame
  <2>2. CASE AfterFailure(w)
    <3>1. watch.todo \ {w} \in SUBSET watch.todo
      OBVIOUS
    <3> QED BY <1>2, <2>1, <2>2, <3>1 DEF AfterFailure
  <2>3. CASE watch' = [at |-> IF chain.tx[w].known THEN "read" ELSE "orphan",
                       ledger |-> watch.ledger, todo |-> watch.todo \ {w}, w |-> w]
    <3>1. /\ watch.ledger \in Nat /\ watch.todo \in SUBSET Withdrawals
          /\ watch.ledger <= chain.ledger
          /\ \A v \in watch.todo : Ready(v) /\ wd[v].status # "CONFIRMED"
      BY <1>0, <2>1, WatchCarries DEF IInv, LandedInv, ReadyInv, DebitInv, WatchOpen
    <3>2. watch' \in WatchStates
      BY <2>3, <3>1 DEF WatchStates
    <3>3. WatchReady /\ WatchStaysOpen
      BY <2>1, <2>3, <3>1 DEF WatchReady, WatchStaysOpen
    <3> QED BY <2>1, <2>3, <3>1, <3>2, <3>3, WatcherQuiet
  <2> QED BY <1>3, <2>2, <2>3 DEF WatcherFetch
<1>4. CASE MarkWithdrawalOrphaned
  <2>1. watch.at = "orphan" /\ watch.todo \in SUBSET watch.todo
    BY <1>4 DEF MarkWithdrawalOrphaned
  <2> QED BY <1>2, <1>4, <2>1 DEF MarkWithdrawalOrphaned, WatchFrame
<1>5. CASE ReadForConfirmation
  <2>1. watch.at = "read" /\ UNCHANGED <<wd, keyRow, request, chain, debits, reopened>>
    BY <1>5 DEF ReadForConfirmation, WatchFrame
  <2>2. CASE Watching(watch.todo)
    <3>1. watch.todo \in SUBSET watch.todo
      OBVIOUS
    <3> QED BY <1>2, <2>1, <2>2, <3>1
  <2>3. CASE /\ wd[watch.w].status = "SENT" /\ Confirmed(watch.ledger, chain.tx[watch.w].at)
             /\ watch' = [watch EXCEPT !.at = "debit"]
    <3>1. /\ watch.ledger \in Nat /\ watch.todo \in SUBSET Withdrawals /\ watch.w \in Withdrawals
          /\ watch = [at |-> "read", ledger |-> watch.ledger, todo |-> watch.todo, w |-> watch.w]
      BY <1>0, <2>1, WatchCarries
    <3>2. watch' = [at |-> "debit", ledger |-> watch.ledger, todo |-> watch.todo, w |-> watch.w]
      BY <2>3, <3>1
    <3>3. watch' \in WatchStates
      BY <3>1, <3>2 DEF WatchStates
    <3>4. WatchReady /\ WatchStaysOpen
      BY <2>1, <3>2 DEF WatchReady, WatchStaysOpen, IInv, ReadyInv, DebitInv, WatchOpen
    <3>5. /\ watch'.at = "debit" /\ watch'.w = watch.w /\ watch'.ledger = watch.ledger
      BY <3>2
    <3>6. watch.ledger <= chain.ledger /\ chain.tx[watch.w].known
      BY <2>1 DEF IInv, LandedInv
    <3> QED BY <2>1, <2>3, <3>3, <3>4, <3>5, <3>6, WatcherQuiet DEF Confirmed
  <2> QED BY <1>5, <2>2, <2>3 DEF ReadForConfirmation
<1>6. CASE ConfirmFails
  <2>1. watch.at = "debit" /\ watch.todo \in SUBSET watch.todo
    BY <1>6 DEF ConfirmFails
  <2> QED BY <1>2, <1>6, <2>1 DEF ConfirmFails, WatchFrame
<1> QED BY <1>1, <1>3, <1>4, <1>5, <1>6, ConfirmStep DEF RunWatcher

-----------------------------------------------------------------------------
(* The specification.                                                         *)

LEMMA InitInv == Init => IInv
<1> SUFFICES ASSUME Init PROVE IInv
  OBVIOUS
<1>1. TypeOK
  BY DEF Init, TypeOK, Statuses, RequestStates, WatchStates
<1>2. /\ \A w \in Withdrawals : ~Created(w) /\ wd[w].status = "none" /\ debits[w] = 0
      /\ \A r \in Requests : request[r].op = "idle"
      /\ watch.at = "idle"
  BY DEF Init, Created, Idle
<1>3. ReadyInv /\ DebitInv /\ LandedInv /\ KeyInv
  BY <1>2 DEF ReadyInv, DebitInv, WatchOpen, Counted, LandedInv, KeyInv, Advancing, Correcting
<1> QED BY <1>1, <1>3 DEF IInv

LEMMA StepInv ==
    ASSUME IInv, [Next]_vars
    PROVE  IInv'
<1>1. TypeOK /\ ReadyInv
  BY DEF IInv
<1>2. ASSUME NEW r \in Requests, NEW w \in Withdrawals,
             CreateWithdrawal(r, w) \/ \E op \in Calls[w] : ReadRequest(r, op, w)
      PROVE  IInv'
  BY <1>1, <1>2, HandlerStep, HandlerInv
<1>3. ASSUME NEW r \in Requests, RequestStep(r)
      PROVE  IInv'
  BY <1>1, <1>3, HandlerStep, HandlerInv, StoreStep DEF RequestStep
<1>4. CASE EnvironmentAction
  BY <1>4, EnvironmentInv
<1>5. CASE RunWatcher
  BY <1>5, WatcherStep
<1> QED BY <1>2, <1>3, <1>4, <1>5 DEF Next, EnvironmentAction

LEMMA WithdrawalInvariant == Spec => []IInv
<1>1. Init => IInv
  BY InitInv
<1>2. IInv /\ [Next]_vars => IInv'
  BY StepInv
<1> QED BY <1>1, <1>2, PTL DEF Spec

\* Rows, requests in flight and the watcher's cycle have their shapes
\* (withdrawals.service.ts, withdrawal-watcher.service.ts).
THEOREM TypeCorrect == Spec => []TypeOK
<1>1. IInv => TypeOK
  BY DEF IInv
<1> QED BY <1>1, WithdrawalInvariant, PTL

\* However handlers with stale reads, cancellations, revalidations, wipes and the
\* watcher interleave, a withdrawal whose confirmation no handler overwrote is
\* debited once if it is CONFIRMED and not at all otherwise, and any debit comes
\* after the timelock, on a landed transaction Depth ledgers old
\* (signWithdrawal, submitWithdrawal, updateWithdrawalConfirmations).
THEOREM DebitsAreEarned == Spec => []DebitIsEarned
<1>1. IInv => DebitIsEarned
  BY DEF IInv, DebitInv, Counted, ReadyInv, LandedInv, DebitIsEarned, Ready
<1> QED BY <1>1, WithdrawalInvariant, PTL

\* Any number of concurrent or repeated requests with one idempotency key
\* create one withdrawal, before and after the key expires (createWithdrawal).
THEOREM KeysAreUsedOnce == Spec => []OneWithdrawalPerKey
<1>1. IInv => OneWithdrawalPerKey
  <2> SUFFICES ASSUME IInv, NEW k \in Keys
               PROVE  Cardinality({w \in Withdrawals : k \in KeysOf[w] /\ wd[w].status # "none"}) <= 1
    BY DEF OneWithdrawalPerKey
  <2> DEFINE S == {w \in Withdrawals : k \in KeysOf[w] /\ wd[w].status # "none"}
  <2>1. \A v, w \in S : v = w
    BY DEF IInv, KeyInv, Created
  <2> HIDE DEF S
  <2>2. S = {} => Cardinality(S) <= 1
    BY FS_EmptySet
  <2>3. ASSUME NEW w \in S PROVE Cardinality(S) <= 1
    <3>1. S = {w}
      BY <2>1
    <3>2. Cardinality(S) = 1
      BY <3>1, FS_Singleton
    <3> QED BY <3>2
  <2>4. Cardinality(S) <= 1
    BY <2>2, <2>3
  <2> QED BY <2>4 DEF S
<1> QED BY <1>1, WithdrawalInvariant, PTL

-----------------------------------------------------------------------------
(* Two writers, one row.  The watcher and the indexer both read the position,  *)
(* add to it and write it back; as each does so in one step, the row is the    *)
(* sum of what they added since it was last deleted.                           *)

Rows == [row : BOOLEAN, raw : Int, usd : Nat, debtUsd : Nat, stale : BOOLEAN]
Taken(times) == [w \in Withdrawals |-> times[w] * Amount[w]]
WrittenTypeOK ==
    /\ position \in [Assets -> Rows]
    /\ taken \in [Withdrawals -> Nat]
    /\ events \in [count : Nat, wipes : Nat, base : [Assets -> Int], net : [Assets -> Int]]
WritesInv == WrittenTypeOK /\ PositionIsSumOfWrites

\* The greater of two integers is one of them.
LEMMA GreaterOf ==
    ASSUME NEW x \in Int, NEW y \in Int
    PROVE  Max({x, y}) \in Int
<1>1. \E z \in {x, y} : \A t \in {x, y} : z >= t
  OBVIOUS
<1>2. Max({x, y}) \in {x, y}
  BY <1>1 DEF Max
<1> QED BY <1>2

LEMMA TakenTyped ==
    ASSUME NEW times \in [Withdrawals -> Nat]
    PROVE  /\ SumFunction(Taken(times)) = SumFunctionOnSet(Taken(times), Withdrawals)
           /\ \A w \in Withdrawals : Taken(times)[w] \in Int
           /\ SumFunction(Taken(times)) \in Int
<1>1. DOMAIN Taken(times) = Withdrawals
  BY DEF Taken
<1>2. ASSUME NEW w \in Withdrawals
      PROVE  Taken(times)[w] \in Int
  <2>1. times[w] \in Int /\ Amount[w] \in Int
    BY WithdrawalsAssumption
  <2> QED BY <2>1 DEF Taken
<1>3. SumFunctionOnSet(Taken(times), Withdrawals) \in Int
  BY <1>2, SumTyped, WithdrawalsAssumption
<1> QED BY <1>1, <1>2, <1>3 DEF SumFunction

\* One more debit of u.
LEMMA OneMoreTaken ==
    ASSUME NEW times \in [Withdrawals -> Nat], NEW u \in Withdrawals
    PROVE  SumFunction(Taken([times EXCEPT ![u] = @ + 1]))
             = SumFunction(Taken(times)) + Amount[u]
<1> DEFINE more == [times EXCEPT ![u] = @ + 1]
           f == Taken(times)
           g == Taken(more)
<1>1. /\ more \in [Withdrawals -> Nat] /\ more[u] = times[u] + 1
      /\ \A v \in Withdrawals \ {u} : more[v] = times[v]
  OBVIOUS
<1> HIDE DEF more
<1>2. \A v \in Withdrawals : f[v] \in Int /\ g[v] \in Int
  BY <1>1, TakenTyped
<1>3. \A v \in Withdrawals \ {u} : g[v] = f[v]
  BY <1>1 DEF Taken
<1>4. g[u] - f[u] = Amount[u]
  <2>1. times[u] \in Int /\ Amount[u] \in Int
    BY WithdrawalsAssumption
  <2>2. f[u] = times[u] * Amount[u] /\ g[u] = (times[u] + 1) * Amount[u]
    BY <1>1 DEF Taken
  <2>3. (times[u] + 1) * Amount[u] = times[u] * Amount[u] + Amount[u]
    BY <2>1
  <2>4. times[u] * Amount[u] \in Int
    BY <2>1
  <2> QED BY <2>1, <2>2, <2>3, <2>4
<1>5. IsFiniteSet(Withdrawals)
  BY WithdrawalsAssumption
<1> HIDE DEF f, g
<1>6. SumFunctionOnSet(g, Withdrawals) = SumFunctionOnSet(f, Withdrawals) + (g[u] - f[u])
  BY <1>2, <1>3, <1>5, SumMoves
<1>7. SumFunction(f) = SumFunctionOnSet(f, Withdrawals)
      /\ SumFunction(g) = SumFunctionOnSet(g, Withdrawals)
  BY <1>1, TakenTyped DEF f, g
<1> QED BY <1>4, <1>6, <1>7 DEF f, g, more

\* Nothing debited yet.
LEMMA NothingTaken ==
    ASSUME NEW times \in [Withdrawals -> Nat], \A w \in Withdrawals : times[w] = 0
    PROVE  SumFunction(Taken(times)) = 0
<1>1. \A w \in Withdrawals : Taken(times)[w] = 0
  <2> SUFFICES ASSUME NEW w \in Withdrawals PROVE Taken(times)[w] = 0
    OBVIOUS
  <2>1. times[w] = 0 /\ Amount[w] \in Int
    BY WithdrawalsAssumption
  <2> QED BY <2>1 DEF Taken
<1>2. SumFunctionOnSet(Taken(times), Withdrawals) = 0
  BY <1>1, SumOfZeros, WithdrawalsAssumption
<1> QED BY <1>2, TakenTyped

\* What a writer leaves in the row it rewrites, and in the others.
LEMMA RowWritten ==
    ASSUME WrittenTypeOK, NEW a \in Assets, NEW row \in Rows,
           position' = [position EXCEPT ![a] = row]
    PROVE  /\ position' \in [Assets -> Rows]
           /\ position'[a].raw = row.raw
           /\ \A b \in Assets \ {a} : position'[b] = position[b]
BY DEF WrittenTypeOK

\* What the indexer writes of its counts.
LEMMA CountsWritten ==
    ASSUME NEW F, NEW e \in [count : Nat, wipes : Nat, base : F, net : F], NEW b \in F, NEW n \in F
    PROVE  /\ LET x == [e EXCEPT !.count = @ + 1, !.net = n]
              IN  /\ x \in [count : Nat, wipes : Nat, base : F, net : F]
                  /\ x.base = e.base /\ x.net = n
           /\ LET x == [e EXCEPT !.wipes = @ + 1, !.base = b, !.net = n]
              IN  /\ x \in [count : Nat, wipes : Nat, base : F, net : F]
                  /\ x.base = b /\ x.net = n
<1>1. e.count + 1 \in Nat /\ e.wipes + 1 \in Nat
  OBVIOUS
<1> QED BY <1>1

LEMMA SeedTyped == Seed \in [Assets -> Rows] /\ \A a \in Assets : Seed[a].raw \in Int
<1>1. Seed \in [Assets -> [row : {TRUE}, raw : Nat, usd : Nat, debtUsd : Nat, stale : BOOLEAN]]
  BY WithdrawalsAssumption, Zenon DEF WithdrawalsAssumption
<1>2. ASSUME NEW a \in Assets PROVE Seed[a] \in Rows /\ Seed[a].raw \in Int
  <2>1. Seed[a] \in [row : {TRUE}, raw : Nat, usd : Nat, debtUsd : Nat, stale : BOOLEAN]
    BY <1>1
  <2>2. /\ Seed[a] = [row |-> Seed[a].row, raw |-> Seed[a].raw, usd |-> Seed[a].usd,
                     debtUsd |-> Seed[a].debtUsd, stale |-> Seed[a].stale]
        /\ Seed[a].row \in BOOLEAN /\ Seed[a].raw \in Nat /\ Seed[a].usd \in Nat
        /\ Seed[a].debtUsd \in Nat /\ Seed[a].stale \in BOOLEAN
    BY <2>1
  <2> QED BY <2>2 DEF Rows
<1> QED BY <1>1, <1>2

LEMMA WritesStart == Init => WritesInv
<1> SUFFICES ASSUME Init PROVE WritesInv
  OBVIOUS
<1>1. /\ taken \in [Withdrawals -> Nat] /\ \A w \in Withdrawals : taken[w] = 0
      /\ position = Seed /\ Collateral \in Assets
      /\ events = [count |-> 0, wipes |-> 0, base |-> [a \in Assets |-> Seed[a].raw],
                   net |-> [a \in Assets |-> 0]]
  BY WithdrawalsAssumption DEF Init
<1>2. WrittenTypeOK
  <2> DEFINE F == [Assets -> Int]
             b == [a \in Assets |-> Seed[a].raw]
             z == [a \in Assets |-> 0]
  <2>1. b \in F /\ z \in F
    BY SeedTyped
  <2>2. events \in [count : Nat, wipes : Nat, base : F, net : F]
    <3>1. events = [count |-> 0, wipes |-> 0, base |-> b, net |-> z]
      BY <1>1
    <3> HIDE DEF F, b, z
    <3> QED BY <2>1, <3>1
  <2>3. position \in [Assets -> Rows]
    BY <1>1, SeedTyped
  <2> QED BY <1>1, <2>2, <2>3 DEF WrittenTypeOK
<1>3. SumFunction(Taken(taken)) = 0
  BY <1>1, NothingTaken
<1>4. /\ events.net[Collateral] = 0 /\ events.base[Collateral] = Seed[Collateral].raw
      /\ Seed[Collateral].raw \in Int
  <2> DEFINE b == [a \in Assets |-> Seed[a].raw]
             z == [a \in Assets |-> 0]
  <2>1. b[Collateral] = Seed[Collateral].raw /\ z[Collateral] = 0 /\ Seed[Collateral].raw \in Int
    BY <1>1, SeedTyped
  <2>2. events.base = b /\ events.net = z
    <3>1. events = [count |-> 0, wipes |-> 0, base |-> b, net |-> z]
      BY <1>1
    <3> HIDE DEF b, z
    <3> QED BY <3>1
  <2> HIDE DEF b, z
  <2> QED BY <2>1, <2>2
<1> QED BY <1>1, <1>2, <1>3, <1>4 DEF WritesInv, PositionIsSumOfWrites, Taken

\* The indexer adds to the row and to events.net alike.
LEMMA SyncWrites ==
    ASSUME WritesInv, NEW a \in Assets, NEW delta \in Deltas, IndexerSync(a, delta)
    PROVE  WritesInv'
<1> DEFINE raw == Max({0, position[a].raw + delta})
           total == SumFunction(Taken(taken))
           row == [position[a] EXCEPT !.row = TRUE, !.raw = raw, !.stale = FALSE]
<1>1. /\ position' = [position EXCEPT ![a].row = TRUE, ![a].raw = raw, ![a].stale = FALSE]
      /\ events' = [events EXCEPT !.count = @ + 1, !.net[a] = @ + raw - position[a].raw]
      /\ UNCHANGED taken
  BY DEF IndexerSync, history
<1>2. WrittenTypeOK /\ position[a] \in Rows /\ position[a].raw \in Int /\ events.net[a] \in Int
  BY DEF WritesInv, WrittenTypeOK, Rows
<1>3. raw \in Int
  <2>1. delta \in Int
    BY WithdrawalsAssumption
  <2>2. position[a].raw + delta \in Int
    BY <1>2, <2>1
  <2> QED BY <2>2, GreaterOf
<1> HIDE DEF raw
<1>4. /\ position' \in [Assets -> Rows] /\ position'[a].raw = raw
      /\ \A b \in Assets \ {a} : position'[b] = position[b]
  <2>1. row \in Rows /\ row.raw = raw
    BY <1>2, <1>3 DEF Rows
  <2>2. position' = [position EXCEPT ![a] = row]
    BY <1>1, <1>2 DEF WrittenTypeOK
  <2> HIDE DEF row
  <2> QED BY <1>2, <2>1, <2>2, RowWritten
<1>5. /\ events' \in [count : Nat, wipes : Nat, base : [Assets -> Int], net : [Assets -> Int]]
      /\ events'.base = events.base
      /\ events'.net[a] = events.net[a] + raw - position[a].raw
      /\ \A b \in Assets \ {a} : events'.net[b] = events.net[b]
  <2> DEFINE F == [Assets -> Int]
             g == [events.net EXCEPT ![a] = @ + raw - position[a].raw]
  <2>1. /\ events \in [count : Nat, wipes : Nat, base : F, net : F]
        /\ events' = [events EXCEPT !.count = @ + 1, !.net = g]
    BY <1>1, <1>2 DEF WrittenTypeOK
  <2>2. /\ g \in F /\ g[a] = events.net[a] + raw - position[a].raw
        /\ \A b \in Assets \ {a} : g[b] = events.net[b]
    BY <1>2, <1>3 DEF WrittenTypeOK
  <2>3. events' \in [count : Nat, wipes : Nat, base : F, net : F]
        /\ events'.base = events.base /\ events'.net = g
    <3> HIDE DEF F, g
    <3> QED BY <2>1, <2>2, CountsWritten
  <2> HIDE DEF g
  <2> QED BY <2>2, <2>3
<1>6. total \in Int /\ Collateral \in Assets /\ events.base[Collateral] \in Int
      /\ events.net[Collateral] \in Int /\ position[Collateral].raw \in Int
  BY <1>2, TakenTyped, WithdrawalsAssumption DEF WrittenTypeOK, Rows
<1>7. position[Collateral].raw = events.base[Collateral] + events.net[Collateral] - total
  BY DEF WritesInv, PositionIsSumOfWrites, Taken
<1>8. total' = total
  BY <1>1 DEF Taken
<1> HIDE DEF total
<1>9. position'[Collateral].raw = events'.base[Collateral] + events'.net[Collateral] - total
  <2>1. CASE a = Collateral
    BY <1>2, <1>3, <1>4, <1>5, <1>6, <1>7, <2>1
  <2>2. CASE a # Collateral
    BY <1>4, <1>5, <1>6, <1>7, <2>2
  <2> QED BY <2>1, <2>2
<1>10. WrittenTypeOK'
  BY <1>1, <1>2, <1>4, <1>5 DEF WrittenTypeOK
<1> QED BY <1>8, <1>9, <1>10 DEF WritesInv, PositionIsSumOfWrites, Taken, total

\* A wipe leaves nothing, and starts the count again.
LEMMA WipeWrites ==
    ASSUME WritesInv, ResetDatabase
    PROVE  WritesInv'
<1>1. /\ position' = [a \in Assets |-> NoRow]
      /\ events' = [events EXCEPT !.wipes = @ + 1, !.base = [a \in Assets |-> 0],
                                  !.net = [a \in Assets |-> 0]]
      /\ taken' = [w \in Withdrawals |-> 0]
      /\ events \in [count : Nat, wipes : Nat, base : [Assets -> Int], net : [Assets -> Int]]
  BY DEF ResetDatabase, WritesInv, WrittenTypeOK
<1>2. /\ taken' \in [Withdrawals -> Nat] /\ \A w \in Withdrawals : taken'[w] = 0
      /\ position' \in [Assets -> Rows] /\ position'[Collateral].raw = 0
  BY <1>1, WithdrawalsAssumption DEF NoRow, Rows
<1>3. /\ events' \in [count : Nat, wipes : Nat, base : [Assets -> Int], net : [Assets -> Int]]
      /\ events'.base[Collateral] = 0 /\ events'.net[Collateral] = 0
  <2> DEFINE F == [Assets -> Int]
             z == [a \in Assets |-> 0]
  <2>1. z \in F /\ z[Collateral] = 0
    BY WithdrawalsAssumption
  <2>2. events \in [count : Nat, wipes : Nat, base : F, net : F]
        /\ events' = [events EXCEPT !.wipes = @ + 1, !.base = z, !.net = z]
    BY <1>1
  <2>3. events' \in [count : Nat, wipes : Nat, base : F, net : F]
        /\ events'.base = z /\ events'.net = z
    <3> HIDE DEF F, z
    <3> QED BY <2>1, <2>2, CountsWritten
  <2> QED BY <2>1, <2>3
<1>4. SumFunction(Taken(taken')) = 0
  BY <1>2, NothingTaken
<1> QED BY <1>2, <1>3, <1>4 DEF WritesInv, WrittenTypeOK, PositionIsSumOfWrites, Taken

\* The watcher takes one amount off the row as it counts one more debit.
LEMMA DebitWrites ==
    ASSUME WritesInv, IInv, ConfirmWithdrawal
    PROVE  WritesInv'
<1> DEFINE before == SumFunction(Taken(taken))
           after == SumFunction(Taken(taken'))
<1>1. /\ watch.at = "debit"
      /\ position' = [position EXCEPT ![Collateral].raw = Debited(@, watch.w),
                                      ![Collateral].stale = TRUE]
      /\ taken' = [taken EXCEPT ![watch.w] = @ + 1]
      /\ UNCHANGED events
  BY DEF ConfirmWithdrawal, WatchFrame
<1>2. taken \in [Withdrawals -> Nat] /\ WrittenTypeOK
  BY DEF WritesInv, WrittenTypeOK
<1>3. PICK u \in Withdrawals : u = watch.w
  BY <1>1, WatchCarries DEF IInv, TypeOK
<1>4. /\ position[Collateral] \in Rows /\ position[Collateral].raw \in Int
      /\ events.net[Collateral] \in Int /\ Amount[u] \in Int /\ Collateral \in Assets
      /\ events.base[Collateral] \in Int
  BY <1>2, WithdrawalsAssumption DEF WrittenTypeOK, Rows
<1> DEFINE raw == position[Collateral].raw - Amount[u]
           row == [position[Collateral] EXCEPT !.raw = raw, !.stale = TRUE]
<1>5. position' \in [Assets -> Rows] /\ position'[Collateral].raw = raw
  <2>1. row \in Rows /\ row.raw = raw
    <3>1. raw \in Int
      BY <1>4
    <3> HIDE DEF raw
    <3> QED BY <1>4, <3>1 DEF Rows
  <2>2. position' = [position EXCEPT ![Collateral] = row]
    <3>1. position' = [position EXCEPT ![Collateral].raw = position[Collateral].raw - Amount[watch.w],
                                       ![Collateral].stale = TRUE]
      BY <1>1 DEF Debited
    <3> QED BY <1>2, <1>3, <1>4, <3>1 DEF WrittenTypeOK
  <2> HIDE DEF row, raw
  <2> QED BY <1>2, <1>4, <2>1, <2>2, RowWritten
<1>6. after = before + Amount[u] /\ before \in Int
  BY <1>1, <1>2, <1>3, OneMoreTaken, TakenTyped
<1>7. position[Collateral].raw = events.base[Collateral] + events.net[Collateral] - before
  BY DEF WritesInv, PositionIsSumOfWrites, Taken
<1>8. taken' \in [Withdrawals -> Nat]
  BY <1>1, <1>2, <1>3
<1> HIDE DEF before, after
<1>9. position'[Collateral].raw = events'.base[Collateral] + events'.net[Collateral] - after
  BY <1>1, <1>4, <1>5, <1>6, <1>7
<1>10. WrittenTypeOK'
  BY <1>1, <1>2, <1>5, <1>8 DEF WrittenTypeOK
<1> QED BY <1>9, <1>10 DEF WritesInv, PositionIsSumOfWrites, Taken, after

LEMMA WritesStep ==
    ASSUME WritesInv, IInv, [Next]_vars
    PROVE  WritesInv'
<1>1. ASSUME UNCHANGED <<position, events, taken>> PROVE WritesInv'
  BY <1>1 DEF WritesInv, WrittenTypeOK, PositionIsSumOfWrites
<1>2. ASSUME NEW r \in Requests, NEW w \in Withdrawals,
             CreateWithdrawal(r, w) \/ \E op \in Calls[w] : ReadRequest(r, op, w)
      PROVE  WritesInv'
  BY <1>1, <1>2 DEF CreateWithdrawal, ReadRequest, history
<1>3. ASSUME NEW r \in Requests, RequestStep(r)
      PROVE  WritesInv'
  BY <1>1, <1>3 DEF RequestStep, RequestFrame, Update, StoreWithdrawal, CheckSolvency, Park,
                    CheckNonce, MarkNonce, SignWithdrawal, SubmitWithdrawal,
                    RevalidateWithdrawal, CancelWithdrawal, history
<1>4. CASE TimePasses
  <2>1. CASE UNCHANGED position
    BY <1>1, <1>4, <2>1 DEF TimePasses, history
  <2>2. ASSUME NEW a \in Assets, position' = [position EXCEPT ![a].stale = TRUE]
        PROVE  WritesInv'
    <3>1. UNCHANGED <<events, taken>>
      BY <1>4 DEF TimePasses, history
    <3>2. WrittenTypeOK' /\ \A b \in Assets : position'[b].raw = position[b].raw
      BY <2>2, <3>1 DEF WritesInv, WrittenTypeOK, Rows
    <3> QED BY <3>1, <3>2, WithdrawalsAssumption DEF WritesInv, PositionIsSumOfWrites
  <2> QED BY <1>4, <2>1, <2>2 DEF TimePasses
<1>5. CASE \/ \E instant \in BOOLEAN : AddToWhitelist(instant)
           \/ RemoveFromWhitelist \/ LedgerCloses
           \/ \E w \in Withdrawals : TxLands(w)
  BY <1>1, <1>5 DEF AddToWhitelist, RemoveFromWhitelist, WhitelistFrame, LedgerCloses, TxLands,
                    history
<1>6. CASE RunWatcher
  <2>1. CASE ConfirmWithdrawal
    BY <2>1, DebitWrites
  <2>2. CASE \/ WatcherStart \/ (\E w \in Withdrawals : WatcherFetch(w))
             \/ MarkWithdrawalOrphaned \/ ReadForConfirmation \/ ConfirmFails
    BY <1>1, <2>2 DEF WatcherStart, WatcherFetch, MarkWithdrawalOrphaned, ReadForConfirmation,
                      ConfirmFails, WatchFrame
  <2> QED BY <1>6, <2>1, <2>2 DEF RunWatcher
<1>7. CASE UNCHANGED vars
  BY <1>1, <1>7 DEF vars, history
<1> QED BY <1>2, <1>3, <1>4, <1>5, <1>6, <1>7, SyncWrites, WipeWrites DEF Next

\* Whatever the watcher and the indexer do between each other's steps, neither
\* loses an addition of the other to the raw amount of the position withdrawn
\* from: since the last wipe, or from its seed, that amount is every indexed
\* delta minus every debit (updateWithdrawalConfirmations, applyPositionDelta,
\* resetDatabase).
THEOREM NoWriteIsLost == Spec => []PositionIsSumOfWrites
<1>1. Init => WritesInv
  BY WritesStart
<1>2. WritesInv /\ IInv /\ [Next]_vars => WritesInv'
  BY WritesStep
<1>3. WritesInv => PositionIsSumOfWrites
  BY DEF WritesInv
<1> QED BY <1>1, <1>2, <1>3, WithdrawalInvariant, PTL DEF Spec
=============================================================================
