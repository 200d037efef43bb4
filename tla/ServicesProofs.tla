--------------------------- MODULE ServicesProofs ---------------------------
(* Deposits, the protocol configuration, notifications and the indexer of the *)
(* backend, for any rows, events, requests in flight, cache times, chunk sizes *)
(* and outages.                                                                *)
EXTENDS Deposits, AdminActions, Notifications, Indexer, SumTheorems

-----------------------------------------------------------------------------
(* Deposits.  Only the watcher moves a row out of PENDING, and it works on one *)
(* row at a time: what it read of the row in hand still holds when it credits. *)

DepositStates == {"none", "PENDING", "CONFIRMED", "ORPHANED"}

PostStates == {NoPost} \cup [at : {"create", "key"}, d : Deposits, seq : Nat]

CycleStates ==
    {NoCycle}
    \cup [at : {"list"}, ledger : Nat]
    \cup [at : {"rows", "credit"}, ledger : Nat, todo : (SUBSET Deposits) \ {{}}]

DepositTypeOK ==
    /\ deposit \in [Deposits -> [status : DepositStates, ledgerSeq : Nat]]
    /\ post \in [Posts -> PostStates]
    /\ cycle \in CycleStates
    /\ horizon \in [ledger : Nat, successful : SUBSET Deposits]
    /\ credited \in Nat

\* Deep enough for a ledger l, and its transfer seen to succeed.
Settled(d, l) == d \in horizon.successful /\ l - deposit[d].ledgerSeq >= DepositDepth

InHand == CHOOSE e \in cycle.todo : TRUE

RowsPending ==
    cycle.at \in {"rows", "credit"} => \A d \in cycle.todo : deposit[d].status = "PENDING"

DepositInv ==
    /\ DepositTypeOK
    /\ cycle.at # "idle" => cycle.ledger <= horizon.ledger
    /\ RowsPending
    /\ cycle.at = "credit" => Settled(InHand, cycle.ledger)
    /\ \A d \in Deposits : deposit[d].status = "CONFIRMED" => Settled(d, horizon.ledger)

LEMMA PostCarries ==
    ASSUME NEW q \in PostStates
    PROVE  q.at \in {"create", "key"} => q.d \in Deposits /\ q.seq \in Nat
BY DEF PostStates, NoPost

LEMMA CycleCarries ==
    ASSUME NEW q \in CycleStates
    PROVE  /\ q.at \in {"idle", "list", "rows", "credit"}
           /\ q.at # "idle" => q.ledger \in Nat
           /\ q.at \in {"rows", "credit"} =>
                 /\ q.todo \in SUBSET Deposits /\ q.todo # {}
                 /\ q = [at |-> q.at, ledger |-> q.ledger, todo |-> q.todo]
BY DEF CycleStates, NoCycle

LEMMA HandIsPending ==
    ASSUME DepositInv, cycle.at \in {"rows", "credit"}
    PROVE  InHand \in cycle.todo /\ InHand \in Deposits /\ deposit[InHand].status = "PENDING"
<1>1. cycle.todo \in SUBSET Deposits /\ cycle.todo # {}
  BY CycleCarries DEF DepositInv, DepositTypeOK
<1>2. InHand \in cycle.todo
  BY <1>1 DEF InHand
<1> QED BY <1>1, <1>2 DEF DepositInv, RowsPending

LEMMA VisitingTyped ==
    ASSUME DepositTypeOK, cycle.at \in {"rows", "credit"}, NEW S \in SUBSET cycle.todo, Visiting(S)
    PROVE  /\ cycle' \in CycleStates /\ cycle'.at \in {"idle", "rows"}
           /\ cycle'.at # "idle" => cycle'.ledger = cycle.ledger /\ cycle'.todo = S
<1>1. /\ cycle.ledger \in Nat /\ cycle.todo \in SUBSET Deposits
      /\ cycle = [at |-> cycle.at, ledger |-> cycle.ledger, todo |-> cycle.todo]
  BY CycleCarries DEF DepositTypeOK
<1>2. CASE S = {}
  BY <1>2 DEF Visiting, CycleStates, NoCycle
<1>3. CASE S # {}
  <2>1. cycle' = [at |-> "rows", ledger |-> cycle.ledger, todo |-> S]
    BY <1>1, <1>3 DEF Visiting
  <2>2. S \in (SUBSET Deposits) \ {{}}
    BY <1>1, <1>3
  <2>3. cycle' \in CycleStates
    BY <1>1, <2>1, <2>2 DEF CycleStates
  <2> QED BY <2>1, <2>3
<1> QED BY <1>2, <1>3

\* Steps outside the watcher: rows come to be, ledgers close, transfers land.
DepositQuiet ==
    /\ deposit' \in [Deposits -> [status : DepositStates, ledgerSeq : Nat]]
    /\ post' \in [Posts -> PostStates]
    /\ \A d \in Deposits : deposit'[d] = deposit[d]
                           \/ (deposit[d].status = "none" /\ deposit'[d].status = "PENDING")
    /\ cycle' = cycle \/ cycle' = NoCycle
    /\ horizon' \in [ledger : Nat, successful : SUBSET Deposits]
    /\ horizon'.ledger >= horizon.ledger /\ horizon.successful \subseteq horizon'.successful
    /\ UNCHANGED credited

LEMMA QuietStep ==
    ASSUME DepositInv, DepositQuiet
    PROVE  DepositInv'
<1>1. NoCycle \in CycleStates /\ NoCycle.at = "idle"
  BY DEF CycleStates, NoCycle
<1>2. DepositTypeOK'
  BY <1>1 DEF DepositInv, DepositTypeOK, DepositQuiet
<1>3. /\ horizon.ledger \in Nat /\ horizon'.ledger \in Nat
      /\ horizon'.ledger >= horizon.ledger /\ horizon.successful \subseteq horizon'.successful
      /\ DepositDepth \in Nat
  BY DepositsAssumption DEF DepositInv, DepositTypeOK, DepositQuiet
<1>4. ASSUME NEW d \in Deposits, NEW l \in Nat, NEW m \in Nat, m >= l,
             Settled(d, l), deposit'[d] = deposit[d]
      PROVE  Settled(d, m)'
  <2>1. deposit[d].ledgerSeq \in Nat
    BY DEF DepositInv, DepositTypeOK
  <2>2. m - deposit[d].ledgerSeq >= DepositDepth
    BY <1>3, <1>4, <2>1 DEF Settled
  <2> QED BY <1>3, <1>4, <2>2 DEF Settled
<1>5. \A d \in Deposits : deposit'[d].status = "CONFIRMED" => Settled(d, horizon.ledger)'
  <2> SUFFICES ASSUME NEW d \in Deposits, deposit'[d].status = "CONFIRMED"
               PROVE  Settled(d, horizon.ledger)'
    OBVIOUS
  <2>1. deposit'[d] = deposit[d] /\ Settled(d, horizon.ledger)
    BY DEF DepositQuiet, DepositInv
  <2>2. PICK m \in Nat : m = horizon'.ledger
    BY <1>3
  <2>3. Settled(d, m)'
    BY <1>3, <1>4, <2>1, <2>2
  <2> QED BY <2>2, <2>3 DEF Settled
<1>6. CASE cycle' = NoCycle
  BY <1>1, <1>2, <1>5, <1>6 DEF DepositInv, RowsPending
<1>7. CASE cycle' = cycle
  <2>1. cycle.at # "idle" => cycle.ledger \in Nat /\ cycle.ledger <= horizon'.ledger
    BY <1>3, CycleCarries DEF DepositInv, DepositTypeOK
  <2>2. ASSUME cycle.at = "credit"
        PROVE  /\ InHand \in Deposits /\ deposit'[InHand] = deposit[InHand]
               /\ Settled(InHand, cycle.ledger)
    BY <2>2, HandIsPending DEF DepositInv, DepositQuiet
  <2>3. ASSUME cycle.at = "credit"
        PROVE  Settled(InHand, cycle.ledger)'
    <3>1. InHand' = InHand
      BY <1>7 DEF InHand
    <3>2. PICK d \in Deposits : d = InHand
      BY <2>2, <2>3
    <3>3. PICK l \in Nat : l = cycle.ledger
      BY <2>1, <2>3
    <3>4. Settled(d, l)' /\ l <= l
      BY <1>4, <2>2, <2>3, <3>2, <3>3
    <3> QED BY <1>7, <2>2, <2>3, <3>1, <3>2, <3>3, <3>4 DEF Settled
  <2>4. RowsPending'
    BY <1>7, CycleCarries DEF DepositInv, DepositTypeOK, DepositQuiet, RowsPending
  <2> QED BY <1>2, <1>5, <1>7, <2>1, <2>3, <2>4 DEF DepositInv
<1> QED BY <1>6, <1>7 DEF DepositQuiet

LEMMA OutsideTheWatcher ==
    ASSUME DepositInv,
           \/ \E p \in Posts, d \in Deposits, seq \in 0 .. DepositLedgers : ReadBeforeCreate(p, d, seq)
           \/ \E p \in Posts : CreateDeposit(p) \/ StoreKey(p)
           \/ HorizonCloses \/ Restart
           \/ \E d \in Deposits : TransferLands(d)
           \/ UNCHANGED depositVars
    PROVE  DepositQuiet
<1>0. /\ DepositTypeOK
      /\ horizon.ledger \in Nat /\ horizon.ledger >= horizon.ledger
      /\ horizon.successful \subseteq horizon.successful
      /\ NoPost \in PostStates
  <2>1. DepositTypeOK /\ horizon.ledger \in Nat
    BY DEF DepositInv, DepositTypeOK
  <2> QED BY <2>1 DEF PostStates
<1>1. ASSUME post' \in [Posts -> PostStates], UNCHANGED <<deposit, horizon, credited>>,
             cycle' = cycle \/ cycle' = NoCycle
      PROVE  DepositQuiet
  BY <1>0, <1>1 DEF DepositQuiet, DepositTypeOK
<1>2. ASSUME NEW p \in Posts, NEW d \in Deposits, NEW seq \in 0 .. DepositLedgers,
             ReadBeforeCreate(p, d, seq)
      PROVE  DepositQuiet
  <2>1. [at |-> "create", d |-> d, seq |-> seq] \in PostStates
    BY DepositsAssumption DEF PostStates
  <2>2. post' \in [Posts -> PostStates]
    BY <1>0, <1>2, <2>1 DEF ReadBeforeCreate, DepositTypeOK
  <2> QED BY <1>1, <1>2, <2>2 DEF ReadBeforeCreate
<1>3. ASSUME NEW p \in Posts, StoreKey(p)
      PROVE  DepositQuiet
  <2>1. post' \in [Posts -> PostStates]
    BY <1>0, <1>3 DEF StoreKey, DepositTypeOK
  <2> QED BY <1>1, <1>3, <2>1 DEF StoreKey
<1>4. ASSUME NEW p \in Posts, CreateDeposit(p)
      PROVE  DepositQuiet
  <2>1. post[p].at = "create" /\ post[p].d \in Deposits /\ post[p].seq \in Nat
        /\ post[p] \in PostStates
    BY <1>0, <1>4, PostCarries DEF CreateDeposit, DepositTypeOK
  <2>2. UNCHANGED <<credited, cycle, horizon>>
    BY <1>4 DEF CreateDeposit
  <2>3. CASE HashFree(post[p].d)
    <3>1. /\ deposit' = [deposit EXCEPT ![post[p].d] = [status |-> "PENDING", ledgerSeq |-> post[p].seq]]
          /\ post' = [post EXCEPT ![p].at = "key"]
      BY <1>4, <2>3 DEF CreateDeposit
    <3>2. [post[p] EXCEPT !.at = "key"] \in PostStates
      BY <2>1 DEF PostStates, NoPost
    <3>3. post' \in [Posts -> PostStates]
      BY <1>0, <3>1, <3>2 DEF DepositTypeOK
    <3>4. deposit' \in [Deposits -> [status : DepositStates, ledgerSeq : Nat]]
      BY <1>0, <2>1, <3>1 DEF DepositTypeOK, DepositStates
    <3>5. \A d \in Deposits : deposit'[d] = deposit[d]
                              \/ (deposit[d].status = "none" /\ deposit'[d].status = "PENDING")
      BY <1>0, <2>1, <2>3, <3>1 DEF DepositTypeOK, HashFree
    <3> QED BY <1>0, <2>2, <3>3, <3>4, <3>5 DEF DepositQuiet, DepositTypeOK
  <2>4. CASE ~HashFree(post[p].d)
    <3>1. post' \in [Posts -> PostStates] /\ UNCHANGED deposit
      BY <1>0, <1>4, <2>4 DEF CreateDeposit, DepositTypeOK
    <3> QED BY <1>1, <2>2, <3>1
  <2> QED BY <2>3, <2>4
<1>5. CASE HorizonCloses
  <2>1. /\ UNCHANGED <<deposit, post, cycle, credited>>
        /\ horizon' = [horizon EXCEPT !.ledger = @ + 1]
    BY <1>5 DEF HorizonCloses
  <2>2. /\ horizon' \in [ledger : Nat, successful : SUBSET Deposits]
        /\ horizon'.ledger >= horizon.ledger /\ horizon.successful = horizon'.successful
    BY <1>0, <2>1 DEF DepositTypeOK
  <2> QED BY <1>0, <2>1, <2>2 DEF DepositQuiet, DepositTypeOK
<1>6. ASSUME NEW d \in Deposits, TransferLands(d)
      PROVE  DepositQuiet
  <2>1. /\ UNCHANGED <<deposit, post, cycle, credited>>
        /\ horizon' = [horizon EXCEPT !.successful = @ \cup {d}]
    BY <1>6 DEF TransferLands
  <2>2. /\ horizon' \in [ledger : Nat, successful : SUBSET Deposits]
        /\ horizon'.ledger = horizon.ledger /\ horizon.successful \subseteq horizon'.successful
    BY <1>0, <2>1 DEF DepositTypeOK
  <2> QED BY <1>0, <2>1, <2>2 DEF DepositQuiet, DepositTypeOK
<1>7. CASE Restart
  BY <1>0, <1>1, <1>7 DEF Restart
<1>8. CASE UNCHANGED depositVars
  BY <1>0, <1>1, <1>8 DEF depositVars, DepositTypeOK
<1> QED BY <1>2, <1>3, <1>4, <1>5, <1>6, <1>7, <1>8

\* A step of the watcher that credits nothing.
LEMMA WatcherQuietStep ==
    ASSUME DepositInv, UNCHANGED <<post, horizon, credited>>, cycle' \in CycleStates,
           cycle'.at # "idle" => cycle'.ledger <= horizon.ledger,
           cycle'.at # "credit", RowsPending',
           \/ UNCHANGED deposit
           \/ \E d \in Deposits : deposit' = [deposit EXCEPT ![d].status = "ORPHANED"]
    PROVE  DepositInv'
<1>1. /\ deposit' \in [Deposits -> [status : DepositStates, ledgerSeq : Nat]]
      /\ \A d \in Deposits : deposit'[d] = deposit[d] \/ deposit'[d].status = "ORPHANED"
  BY DEF DepositInv, DepositTypeOK, DepositStates
<1>2. DepositTypeOK'
  BY <1>1 DEF DepositInv, DepositTypeOK
<1>3. \A d \in Deposits : deposit'[d].status = "CONFIRMED" => Settled(d, horizon.ledger)'
  BY <1>1 DEF DepositInv, Settled
<1> QED BY <1>2, <1>3 DEF DepositInv

LEMMA CreditStep ==
    ASSUME DepositInv, NEW d \in Deposits, Credit(d)
    PROVE  /\ DepositInv'
           /\ deposit[d].status = "PENDING" /\ deposit'[d].status = "CONFIRMED"
           /\ \A e \in Deposits \ {d} : deposit'[e] = deposit[e]
<1>0. DepositTypeOK /\ cycle.at = "credit" /\ d = InHand
  BY DEF DepositInv, Credit, InHand
<1>1. /\ DepositTypeOK /\ cycle.at = "credit" /\ d = InHand
      /\ deposit' = [deposit EXCEPT ![d].status = "CONFIRMED"]
      /\ credited' = credited + DepositAmount[d]
      /\ Visiting(cycle.todo \ {d})
      /\ UNCHANGED <<post, horizon>>
  BY <1>0 DEF Credit, CycleFrame
<1>2. deposit[d].status = "PENDING" /\ Settled(d, cycle.ledger)
  BY <1>0, HandIsPending DEF DepositInv, Settled
<1>3. /\ cycle.ledger \in Nat /\ horizon.ledger \in Nat /\ cycle.ledger <= horizon.ledger
      /\ deposit[d].ledgerSeq \in Nat /\ DepositDepth \in Nat
  BY <1>1, CycleCarries, DepositsAssumption DEF DepositInv, DepositTypeOK
<1>4. Settled(d, horizon.ledger)
  BY <1>2, <1>3 DEF Settled
<1>5. /\ deposit' \in [Deposits -> [status : DepositStates, ledgerSeq : Nat]]
      /\ deposit'[d].status = "CONFIRMED" /\ deposit'[d].ledgerSeq = deposit[d].ledgerSeq
      /\ \A e \in Deposits \ {d} : deposit'[e] = deposit[e]
  BY <1>1 DEF DepositTypeOK, DepositStates
<1>6. /\ cycle' \in CycleStates /\ cycle'.at \in {"idle", "rows"}
      /\ cycle'.at # "idle" => cycle'.ledger = cycle.ledger /\ cycle'.todo = cycle.todo \ {d}
  <2>1. cycle.todo \ {d} \in SUBSET cycle.todo
    OBVIOUS
  <2> QED BY <1>1, <2>1, VisitingTyped
<1>7. credited' \in Nat
  <2>1. DepositAmount[d] \in Nat /\ credited \in Nat
    BY <1>0, DepositsAssumption DEF DepositTypeOK
  <2> QED BY <1>1, <2>1
<1>8. DepositTypeOK'
  BY <1>1, <1>5, <1>6, <1>7 DEF DepositTypeOK
<1>9. \A e \in Deposits : deposit'[e].status = "CONFIRMED" => Settled(e, horizon.ledger)'
  BY <1>1, <1>4, <1>5 DEF DepositInv, Settled
<1>10. RowsPending'
  BY <1>0, <1>5, <1>6, CycleCarries DEF DepositInv, DepositTypeOK, RowsPending
<1>11. DepositInv'
  BY <1>1, <1>3, <1>6, <1>8, <1>9, <1>10 DEF DepositInv
<1> QED BY <1>2, <1>5, <1>11

LEMMA DepositWatcherStep ==
    ASSUME DepositInv, RunDepositWatcher
    PROVE  DepositInv'
<1>0. DepositTypeOK /\ cycle \in CycleStates /\ horizon.ledger \in Nat
  BY DEF DepositInv, DepositTypeOK
<1>1. CASE CycleStart
  <2>1. cycle' \in CycleStates /\ cycle'.at = "list" /\ cycle'.ledger = horizon.ledger
    BY <1>0, <1>1 DEF CycleStart, CycleStates
  <2>2. horizon.ledger <= horizon.ledger
    BY <1>0
  <2>3. RowsPending'
    BY <2>1 DEF RowsPending
  <2> QED BY <1>1, <2>1, <2>2, <2>3, WatcherQuietStep DEF CycleStart, CycleFrame
<1>2. CASE ListPending
  <2>1. cycle.at = "list" /\ cycle.ledger \in Nat /\ cycle.ledger <= horizon.ledger
    BY <1>0, <1>2, CycleCarries DEF ListPending, DepositInv
  <2>2. /\ cycle' \in CycleStates /\ cycle'.at \in {"idle", "rows"}
        /\ cycle'.at # "idle" => /\ cycle'.ledger = cycle.ledger
                                 /\ \A d \in cycle'.todo : deposit[d].status = "PENDING"
    <3> DEFINE P == {d \in Deposits : deposit[d].status = "PENDING"}
    <3>1. \/ cycle' = NoCycle
          \/ P # {} /\ cycle' = [at |-> "rows", ledger |-> cycle.ledger, todo |-> P]
      BY <1>2 DEF ListPending
    <3>2. P \in SUBSET Deposits /\ \A d \in P : deposit[d].status = "PENDING"
      OBVIOUS
    <3> HIDE DEF P
    <3> QED BY <2>1, <3>1, <3>2 DEF CycleStates, NoCycle
  <2>3. UNCHANGED <<deposit, post, horizon, credited>>
    BY <1>2 DEF ListPending, CycleFrame
  <2>4. RowsPending'
    BY <2>2, <2>3 DEF RowsPending
  <2> QED BY <2>1, <2>2, <2>3, <2>4, WatcherQuietStep
\* A row that is left without a credit.
<1>3. ASSUME cycle.at = "rows", NEW S \in SUBSET cycle.todo, Visiting(S),
             UNCHANGED <<post, horizon, credited>>,
             \/ UNCHANGED deposit
             \/ \E d \in Deposits \ S : deposit' = [deposit EXCEPT ![d].status = "ORPHANED"]
      PROVE  DepositInv'
  <2>1. /\ cycle' \in CycleStates /\ cycle'.at \in {"idle", "rows"}
        /\ cycle'.at # "idle" => cycle'.ledger = cycle.ledger /\ cycle'.todo = S
    BY <1>0, <1>3, VisitingTyped
  <2>2. cycle.ledger <= horizon.ledger
    BY <1>3 DEF DepositInv
  <2>3. \A e \in S : e \in Deposits /\ deposit'[e] = deposit[e] /\ deposit[e].status = "PENDING"
    BY <1>0, <1>3, CycleCarries DEF DepositInv, RowsPending, DepositTypeOK
  <2>4. RowsPending'
    BY <2>1, <2>3 DEF RowsPending
  <2> QED BY <1>3, <2>1, <2>2, <2>4, WatcherQuietStep
<1>4. ASSUME NEW d \in Deposits, RowFails(d)
      PROVE  DepositInv'
  <2>1. cycle.todo \ {d} \in SUBSET cycle.todo
    OBVIOUS
  <2> QED BY <1>3, <1>4, <2>1 DEF RowFails, NextRows, CycleFrame
<1>5. ASSUME NEW d \in Deposits, OrphanRow(d)
      PROVE  DepositInv'
  <2>1. cycle.todo \ {d} \in SUBSET cycle.todo
    OBVIOUS
  <2> QED BY <1>3, <1>5, <2>1 DEF OrphanRow, CycleFrame
<1>6. ASSUME NEW d \in Deposits, ReadRow(d)
      PROVE  DepositInv'
  <2>1. /\ cycle.at = "rows" /\ d = InHand /\ d \in horizon.successful
        /\ UNCHANGED <<deposit, post, horizon, credited>>
    BY <1>6 DEF ReadRow, CycleFrame, InHand
  <2>2. CASE Visiting(cycle.todo \ {d})
    <3>1. cycle.todo \ {d} \in SUBSET cycle.todo
      OBVIOUS
    <3> QED BY <1>3, <2>1, <2>2, <3>1
  <2>3. CASE /\ deposit[d].status = "PENDING"
             /\ cycle.ledger - deposit[d].ledgerSeq >= DepositDepth
             /\ cycle' = [cycle EXCEPT !.at = "credit"]
    <3>1. /\ cycle.ledger \in Nat /\ cycle.todo \in (SUBSET Deposits) \ {{}}
          /\ cycle = [at |-> "rows", ledger |-> cycle.ledger, todo |-> cycle.todo]
      BY <1>0, <2>1, CycleCarries
    <3>2. cycle' = [at |-> "credit", ledger |-> cycle.ledger, todo |-> cycle.todo]
      BY <2>3, <3>1
    <3>3. /\ cycle' \in CycleStates /\ cycle'.at = "credit" /\ cycle'.ledger = cycle.ledger
          /\ cycle'.todo = cycle.todo
      BY <3>1, <3>2 DEF CycleStates
    <3>4. InHand' = d
      BY <2>1, <3>3 DEF InHand
    <3>5. cycle.ledger <= horizon.ledger
      BY <2>1 DEF DepositInv
    <3>6. DepositTypeOK'
      BY <1>0, <2>1, <3>3 DEF DepositTypeOK
    <3>7. Settled(InHand, cycle.ledger)'
      BY <2>1, <2>3, <3>3, <3>4 DEF Settled
    <3>8. \A e \in Deposits : deposit'[e].status = "CONFIRMED" => Settled(e, horizon.ledger)'
      BY <2>1 DEF DepositInv, Settled
    <3>9. RowsPending'
      BY <2>1, <3>3 DEF DepositInv, RowsPending
    <3> QED BY <2>1, <3>3, <3>5, <3>6, <3>7, <3>8, <3>9 DEF DepositInv
  <2> QED BY <1>6, <2>2, <2>3 DEF ReadRow
<1> QED BY <1>1, <1>2, <1>4, <1>5, <1>6, CreditStep DEF RunDepositWatcher

LEMMA DepositInvariant == DepositSpec => []DepositInv
<1>1. DepositInit => DepositInv
  BY DEF DepositInit, DepositInv, DepositTypeOK, DepositStates, PostStates, CycleStates,
         RowsPending, NoPost, NoCycle
<1>2. DepositInv /\ [DepositNext]_depositVars => DepositInv'
  BY OutsideTheWatcher, QuietStep, DepositWatcherStep DEF DepositNext
<1> QED BY <1>1, <1>2, PTL DEF DepositSpec

\* Step by step: the position moves only when one deposit goes from PENDING to
\* CONFIRMED, and by that deposit's amount, and no confirmed deposit is ever left
\* or confirmed again (updateDepositConfirmations).
CreditsOncePerDeposit ==
    /\ \A d \in Deposits : deposit[d].status = "CONFIRMED" => deposit'[d] = deposit[d]
    /\ \/ /\ credited' = credited
          /\ \A d \in Deposits : deposit'[d].status = "CONFIRMED" => deposit[d].status = "CONFIRMED"
       \/ \E d \in Deposits :
             /\ deposit[d].status = "PENDING" /\ deposit'[d].status = "CONFIRMED"
             /\ credited' = credited + DepositAmount[d]
             /\ \A e \in Deposits \ {d} : deposit'[e] = deposit[e]

LEMMA CreditsOnce ==
    ASSUME DepositInv, [DepositNext]_depositVars
    PROVE  CreditsOncePerDeposit
<1>1. ASSUME DepositInv, DepositQuiet PROVE CreditsOncePerDeposit
  BY <1>1 DEF DepositQuiet, CreditsOncePerDeposit
<1>2. ASSUME UNCHANGED <<deposit, credited>> PROVE CreditsOncePerDeposit
  BY <1>2 DEF CreditsOncePerDeposit
<1>3. ASSUME DepositInv, NEW d \in Deposits, OrphanRow(d) PROVE CreditsOncePerDeposit
  <2>1. d = InHand /\ cycle.at = "rows"
    BY <1>3 DEF OrphanRow, InHand
  <2>2. deposit[d].status = "PENDING"
    BY <1>3, <2>1, HandIsPending
  <2>3. /\ deposit \in [Deposits -> [status : DepositStates, ledgerSeq : Nat]]
        /\ deposit' = [deposit EXCEPT ![d].status = "ORPHANED"] /\ credited' = credited
    BY <1>3 DEF OrphanRow, DepositInv, DepositTypeOK
  <2>4. deposit'[d].status = "ORPHANED" /\ \A e \in Deposits \ {d} : deposit'[e] = deposit[e]
    BY <2>3 DEF DepositStates
  <2> QED BY <2>2, <2>3, <2>4 DEF CreditsOncePerDeposit
<1>4. ASSUME DepositInv, NEW d \in Deposits, Credit(d) PROVE CreditsOncePerDeposit
  <2>1. credited' = credited + DepositAmount[d]
    BY <1>4 DEF Credit
  <2> QED BY <1>4, <2>1, CreditStep DEF CreditsOncePerDeposit
<1>5. ASSUME DepositInv, RunDepositWatcher PROVE CreditsOncePerDeposit
  BY <1>2, <1>3, <1>4, <1>5
     DEF RunDepositWatcher, CycleStart, ListPending, RowFails, ReadRow
<1> QED BY <1>1, <1>5, OutsideTheWatcher DEF DepositNext

\* A deposit is credited once, by its own amount, and its confirmation is final.
THEOREM DepositsAreCreditedOnce == DepositSpec => [][CreditsOncePerDeposit]_depositVars
BY CreditsOnce, DepositInvariant, PTL DEF DepositSpec

\* The credit is the sum over the confirmed deposits, of which there are finitely
\* many whatever Deposits is: each was confirmed by a step of its own.
Confirmed == {d \in Deposits : deposit[d].status = "CONFIRMED"}
CreditIsSum == IsFiniteSet(Confirmed) /\ credited = SumFunctionOnSet(DepositAmount, Confirmed)

LEMMA CreditSumStep ==
    ASSUME DepositInv, CreditIsSum, [DepositNext]_depositVars
    PROVE  CreditIsSum'
<1>1. CreditsOncePerDeposit
  BY CreditsOnce
<1>2. CASE /\ credited' = credited
           /\ \A d \in Deposits : deposit'[d].status = "CONFIRMED" => deposit[d].status = "CONFIRMED"
  <2>1. Confirmed' = Confirmed
    BY <1>1, <1>2 DEF CreditsOncePerDeposit, Confirmed
  <2> QED BY <1>2, <2>1 DEF CreditIsSum
<1>3. ASSUME NEW d \in Deposits,
             deposit[d].status = "PENDING", deposit'[d].status = "CONFIRMED",
             credited' = credited + DepositAmount[d],
             \A e \in Deposits \ {d} : deposit'[e] = deposit[e]
      PROVE  CreditIsSum'
  <2>1. Confirmed' = Confirmed \cup {d} /\ d \notin Confirmed
    BY <1>3 DEF Confirmed
  <2>2. IsFiniteSet(Confirmed')
    BY <2>1, FS_AddElement DEF CreditIsSum
  <2>3. \A e \in Confirmed \cup {d} : DepositAmount[e] \in Int
    BY DepositsAssumption DEF Confirmed
  <2>4. IsFiniteSet(Confirmed)
    BY DEF CreditIsSum
  <2> DEFINE before == SumFunctionOnSet(DepositAmount, Confirmed)
             after == SumFunctionOnSet(DepositAmount, Confirmed \cup {d})
  <2>5. after = DepositAmount[d] + before
    BY <2>1, <2>3, <2>4, SumInserts
  <2>6. before \in Int
    BY <2>3, <2>4, SumTyped
  <2>7. credited = before /\ DepositAmount[d] \in Int
    BY <2>3 DEF CreditIsSum
  <2> HIDE DEF before, after
  <2>8. credited' = after
    BY <1>3, <2>5, <2>6, <2>7
  <2> QED BY <2>1, <2>2, <2>8 DEF CreditIsSum, after
<1> QED BY <1>1, <1>2, <1>3 DEF CreditsOncePerDeposit

\* The position holds every confirmed deposit once and nothing else, and none is
\* confirmed before its transfer succeeded and its ledger is DepositDepth old,
\* over repeated reports, outages and restarts (runWatcher,
\* updateDepositConfirmations).
THEOREM CreditsAreEarned == DepositSpec => []CreditIsEarned
<1>1. DepositInit => CreditIsSum
  <2> SUFFICES ASSUME DepositInit PROVE CreditIsSum
    OBVIOUS
  <2>1. Confirmed = {} /\ credited = 0
    BY DEF DepositInit, Confirmed
  <2> QED BY <2>1, FS_EmptySet, SumOverEmpty DEF CreditIsSum
<1>2. DepositInv /\ CreditIsSum /\ [DepositNext]_depositVars => CreditIsSum'
  BY CreditSumStep
<1>3. DepositInv /\ CreditIsSum => CreditIsEarned
  <2> SUFFICES ASSUME DepositInv, CreditIsSum PROVE CreditIsEarned
    OBVIOUS
  <2> DEFINE f == [d \in Confirmed |-> DepositAmount[d]]
  <2>1. \A d \in Confirmed : DepositAmount[d] \in Int /\ f[d] = DepositAmount[d]
    BY DepositsAssumption DEF Confirmed
  <2>2. DOMAIN f = Confirmed
    OBVIOUS
  <2> HIDE DEF f
  <2>3. SumFunctionOnSet(f, Confirmed) = SumFunctionOnSet(DepositAmount, Confirmed)
    BY <2>1, SumSame DEF CreditIsSum
  <2>4. credited = SumFunction(f)
    BY <2>2, <2>3 DEF SumFunction, CreditIsSum
  <2>5. \A d \in Deposits : deposit[d].status = "CONFIRMED" => Settled(d, horizon.ledger)
    BY DEF DepositInv
  <2> QED BY <2>4, <2>5 DEF CreditIsEarned, f, Confirmed, Settled
<1> QED BY <1>1, <1>2, <1>3, DepositInvariant, PTL DEF DepositSpec

-----------------------------------------------------------------------------
(* The protocol configuration.  What a build has read was the contract's at or *)
(* after the moment the build began, and its entry carries that moment.        *)

\* Version v was the contract's at time t or later.
Fresh(v, t) == v \in 0 .. live /\ (v # live => replaced[v] >= t)

Entries == {NoEntry} \cup [at : Nat, params : Nat, assets : Nat]
EntryHolds(e) == e # NoEntry => e.at <= clock /\ Fresh(e.params, e.at) /\ Fresh(e.assets, e.at)

BuildStates ==
    {Free}
    \cup [at : {"read"}, now : Nat]
    \cup [at : {"assets"}, now : Nat, params : Nat]
    \cup [at : {"store"}, now : Nat, params : Nat, assets : Nat]
BuildHolds(q) ==
    /\ q.at # "idle" => q.now <= clock
    /\ q.at \in {"assets", "store"} => Fresh(q.params, q.now)
    /\ q.at = "store" => Fresh(q.assets, q.now)

ConfigTypeOK ==
    /\ clock \in Nat /\ live \in Nat
    /\ replaced \in [0 .. live - 1 -> Nat]
    /\ configCache \in Entries /\ lastKnownGood \in Entries
    /\ build \in [Readers -> BuildStates]

ConfigInv ==
    /\ ConfigTypeOK
    /\ EntryHolds(configCache) /\ EntryHolds(lastKnownGood)
    /\ \A r \in Readers : BuildHolds(build[r])

LEMMA BuildCarries ==
    ASSUME NEW q \in BuildStates
    PROVE  /\ q.at \in {"idle", "read", "assets", "store"}
           /\ q.at # "idle" => q.now \in Nat
           /\ q.at \in {"assets", "store"} => q.params \in Nat
           /\ q.at = "store" => q.assets \in Nat
BY DEF BuildStates, Free

LEMMA EntryCarries ==
    ASSUME NEW e \in Entries, e # NoEntry
    PROVE  e.at \in Nat /\ e.params \in Nat /\ e.assets \in Nat
BY DEF Entries

\* Time passes and versions follow one another; what was fresh stays fresh.
HistoryGrows ==
    /\ clock \in Nat /\ clock' \in Nat /\ clock' >= clock
    /\ \A v \in Nat, t \in Nat : t <= clock /\ Fresh(v, t) => Fresh(v, t)'

LEMMA HistoryStep ==
    ASSUME ConfigTypeOK,
           \/ UNCHANGED replaced /\ (clock' = clock \/ clock' = clock + 1)
           \/ \E t \in Txs, ok \in BOOLEAN : Execute(t, ok)
    PROVE  /\ clock' \in Nat /\ live' \in Nat /\ (replaced \in [0 .. live - 1 -> Nat])'
           /\ HistoryGrows
<1>0. clock \in Nat /\ live \in Nat /\ replaced \in [0 .. live - 1 -> Nat]
  BY DEF ConfigTypeOK
<1>1. ASSUME UNCHANGED replaced, clock' \in Nat, clock' >= clock
      PROVE  live' = live /\ live' \in Nat /\ (replaced \in [0 .. live - 1 -> Nat])' /\ HistoryGrows
  <2>1. live' = live
    BY <1>1 DEF live
  <2>2. \A v \in Nat, t \in Nat : Fresh(v, t) => Fresh(v, t)'
    BY <1>1, <2>1 DEF Fresh
  <2> QED BY <1>0, <1>1, <2>1, <2>2 DEF HistoryGrows
<1>2. CASE UNCHANGED replaced /\ (clock' = clock \/ clock' = clock + 1)
  <2>1. clock' \in Nat /\ clock' >= clock
    BY <1>0, <1>2
  <2> QED BY <1>1, <1>2, <2>1
<1>3. ASSUME NEW t \in Txs, NEW ok \in BOOLEAN, Execute(t, ok)
      PROVE  /\ clock' \in Nat /\ live' \in Nat /\ (replaced \in [0 .. live - 1 -> Nat])'
             /\ HistoryGrows
  <2>1. clock' = clock /\ clock <= clock
    BY <1>0, <1>3 DEF Execute
  <2>2. CASE ~ok
    <3>1. UNCHANGED replaced
      BY <1>3, <2>2 DEF Execute
    <3> QED BY <1>0, <1>1, <2>1, <3>1
  <2>3. CASE ok
    <3>1. PICK n \in Nat : n = live
      BY <1>0
    <3>2. replaced' = [v \in 0 .. n |-> IF v = n THEN clock ELSE replaced[v]]
      BY <1>3, <2>3, <3>1 DEF Execute
    <3>3. replaced \in [0 .. n - 1 -> Nat]
      BY <1>0, <3>1
    <3>4. replaced' \in [0 .. n -> Nat]
      BY <1>0, <3>1, <3>2, <3>3
    <3>5. live' = n + 1
      <4>1. DOMAIN replaced' = 0 .. n
        BY <3>2
      <4>2. Cardinality(0 .. n) = n - 0 + 1
        BY <3>1, FS_Interval
      <4> QED BY <4>1, <4>2, <3>1 DEF live
    <3>6. (replaced \in [0 .. live - 1 -> Nat])'
      <4>1. live' - 1 = n
        BY <3>1, <3>5
      <4> QED BY <3>4, <4>1
    <3>7. ASSUME NEW v \in Nat, NEW s \in Nat, s <= clock, Fresh(v, s)
          PROVE  Fresh(v, s)'
      <4>1. v \in 0 .. n /\ (v # n => replaced[v] >= s)
        BY <3>1, <3>7 DEF Fresh
      <4>2. v \in 0 .. n + 1
        BY <4>1
      <4>3. replaced'[v] >= s
        BY <1>0, <3>2, <3>7, <4>1
      <4> QED BY <3>5, <4>2, <4>3 DEF Fresh
    <3> QED BY <1>0, <2>1, <3>5, <3>6, <3>7 DEF HistoryGrows
  <2> QED BY <2>2, <2>3
<1> QED BY <1>2, <1>3

LEMMA EntryStays ==
    ASSUME HistoryGrows, NEW e \in Entries, EntryHolds(e)
    PROVE  EntryHolds(e)'
<1>1. CASE e = NoEntry
  BY <1>1 DEF EntryHolds
<1>2. CASE e # NoEntry
  <2>1. e.at \in Nat /\ e.params \in Nat /\ e.assets \in Nat
    BY <1>2, EntryCarries
  <2>2. e.at <= clock /\ Fresh(e.params, e.at) /\ Fresh(e.assets, e.at)
    BY <1>2 DEF EntryHolds
  <2>3. Fresh(e.params, e.at)' /\ Fresh(e.assets, e.at)'
    BY <2>1, <2>2 DEF HistoryGrows
  <2>4. e.at <= clock'
    BY <2>1, <2>2 DEF HistoryGrows
  <2> QED BY <2>3, <2>4 DEF EntryHolds
<1> QED BY <1>1, <1>2

LEMMA BuildStays ==
    ASSUME HistoryGrows, NEW q \in BuildStates, BuildHolds(q)
    PROVE  BuildHolds(q)'
<1>1. q.at # "idle" => q.now \in Nat /\ q.now <= clock /\ q.now <= clock'
  BY BuildCarries DEF BuildHolds, HistoryGrows
<1>2. q.at \in {"assets", "store"} => Fresh(q.params, q.now)'
  BY <1>1, BuildCarries DEF BuildHolds, HistoryGrows
<1>3. q.at = "store" => Fresh(q.assets, q.now)'
  BY <1>1, BuildCarries DEF BuildHolds, HistoryGrows
<1> QED BY <1>1, <1>2, <1>3 DEF BuildHolds

\* The chain, the clock and the rows move; builds keep what they read, and the
\* cache may be cleared.
LEMMA ConfigQuietStep ==
    ASSUME ConfigInv, UNCHANGED <<lastKnownGood, build>>,
           configCache' = configCache \/ configCache' = NoEntry,
           \/ UNCHANGED replaced /\ (clock' = clock \/ clock' = clock + 1)
           \/ \E t \in Txs, ok \in BOOLEAN : Execute(t, ok)
    PROVE  ConfigInv'
<1>0. ConfigTypeOK
  BY DEF ConfigInv
<1>1. /\ clock' \in Nat /\ live' \in Nat /\ (replaced \in [0 .. live - 1 -> Nat])'
      /\ HistoryGrows
  BY <1>0, HistoryStep
<1>2. configCache' \in Entries /\ lastKnownGood' \in Entries /\ build' \in [Readers -> BuildStates]
  BY <1>0 DEF ConfigTypeOK, Entries
<1>3. EntryHolds(configCache)' /\ EntryHolds(lastKnownGood)'
  <2>1. PICK e \in Entries : e = lastKnownGood
    BY <1>0 DEF ConfigTypeOK
  <2>2. PICK f \in Entries : f = configCache'
    BY <1>2
  <2>3. EntryHolds(e) /\ EntryHolds(f)
    BY <2>1, <2>2 DEF ConfigInv, EntryHolds
  <2>4. EntryHolds(e)' /\ EntryHolds(f)'
    BY <1>1, <2>3, EntryStays
  <2> QED BY <2>1, <2>2, <2>4 DEF EntryHolds
<1>4. \A r \in Readers : BuildHolds(build[r])'
  <2> TAKE r \in Readers
  <2>1. PICK q \in BuildStates : q = build[r]
    BY <1>0 DEF ConfigTypeOK
  <2>2. BuildHolds(q)
    BY <2>1 DEF ConfigInv
  <2>3. BuildHolds(q)'
    BY <1>1, <2>2, BuildStays
  <2> QED BY <2>1, <2>3 DEF BuildHolds
<1>5. ConfigTypeOK'
  BY <1>1, <1>2 DEF ConfigTypeOK
<1> QED BY <1>3, <1>4, <1>5 DEF ConfigInv

\* One reader moves on to q.
LEMMA ConfigReaderStep ==
    ASSUME ConfigInv, UNCHANGED <<replaced, clock>>,
           NEW r \in Readers, NEW q \in BuildStates, BuildHolds(q), build' = [build EXCEPT ![r] = q],
           NEW e \in Entries, EntryHolds(e), NEW f \in Entries, EntryHolds(f),
           configCache' = e, lastKnownGood' = f
    PROVE  ConfigInv'
<1>0. ConfigTypeOK
  BY DEF ConfigInv
<1>1. live' = live
  BY DEF live
<1>2. ConfigTypeOK'
  BY <1>0, <1>1 DEF ConfigTypeOK
<1>3. EntryHolds(configCache)' /\ EntryHolds(lastKnownGood)'
  BY <1>1 DEF EntryHolds, Fresh
<1>4. \A s \in Readers : BuildHolds(build[s])'
  <2> TAKE s \in Readers
  <2>1. BuildHolds(build[s])
    BY DEF ConfigInv
  <2>2. build'[s] = IF s = r THEN q ELSE build[s]
    BY <1>0 DEF ConfigTypeOK
  <2> QED BY <1>1, <2>1, <2>2 DEF BuildHolds, Fresh
<1> QED BY <1>2, <1>3, <1>4 DEF ConfigInv

LEMMA ConfigBuildStep ==
    ASSUME ConfigInv, NEW r \in Readers,
           \/ StartBuild(r) \/ ReadParameters(r) \/ ReadAssets(r)
           \/ StoreConfig(r) \/ ServeFallback(r)
    PROVE  ConfigInv'
<1>0. /\ ConfigTypeOK /\ clock \in Nat /\ clock <= clock /\ live \in Nat
      /\ build[r] \in BuildStates /\ BuildHolds(build[r])
      /\ configCache \in Entries /\ lastKnownGood \in Entries
      /\ EntryHolds(configCache) /\ EntryHolds(lastKnownGood)
  <2>1. ConfigTypeOK /\ clock \in Nat /\ live \in Nat
    BY DEF ConfigInv, ConfigTypeOK
  <2> QED BY <2>1 DEF ConfigInv, ConfigTypeOK
<1>1. /\ build[r].at # "idle" => build[r].now \in Nat /\ build[r].now <= clock
      /\ build[r].at \in {"assets", "store"} => build[r].params \in Nat /\ Fresh(build[r].params, build[r].now)
      /\ build[r].at = "store" => build[r].assets \in Nat /\ Fresh(build[r].assets, build[r].now)
  BY <1>0, BuildCarries DEF BuildHolds
<1>2. \A t : Fresh(live, t)
  BY <1>0 DEF Fresh
<1>3. ASSUME NEW q \in BuildStates, BuildHolds(q), build' = [build EXCEPT ![r] = q],
             UNCHANGED <<replaced, clock, configCache, lastKnownGood>>
      PROVE  ConfigInv'
  BY <1>0, <1>3, ConfigReaderStep
<1>4. CASE StartBuild(r)
  <2> DEFINE q == [at |-> "read", now |-> clock]
  <2>1. q \in BuildStates /\ BuildHolds(q)
    BY <1>0 DEF BuildStates, BuildHolds
  <2>2. build' = [build EXCEPT ![r] = q] /\ UNCHANGED <<replaced, clock, configCache, lastKnownGood>>
    BY <1>4 DEF StartBuild
  <2> HIDE DEF q
  <2> QED BY <1>3, <2>1, <2>2
<1>5. CASE ReadParameters(r)
  <2> DEFINE q == [at |-> "assets", now |-> build[r].now, params |-> live]
  <2>1. build[r].at = "read"
    BY <1>5 DEF ReadParameters
  <2>2. q \in BuildStates /\ BuildHolds(q)
    BY <1>0, <1>1, <1>2, <2>1 DEF BuildStates, BuildHolds
  <2>3. build' = [build EXCEPT ![r] = q] /\ UNCHANGED <<replaced, clock, configCache, lastKnownGood>>
    BY <1>5 DEF ReadParameters
  <2> HIDE DEF q
  <2> QED BY <1>3, <2>2, <2>3
<1>6. CASE ReadAssets(r)
  <2> DEFINE q == [at |-> "store", now |-> build[r].now, params |-> build[r].params, assets |-> live]
  <2>1. build[r].at = "assets"
    BY <1>6 DEF ReadAssets
  <2>2. q \in BuildStates /\ BuildHolds(q)
    BY <1>0, <1>1, <1>2, <2>1 DEF BuildStates, BuildHolds
  <2>3. build' = [build EXCEPT ![r] = q] /\ UNCHANGED <<replaced, clock, configCache, lastKnownGood>>
    BY <1>6 DEF ReadAssets
  <2> HIDE DEF q
  <2> QED BY <1>3, <2>2, <2>3
<1>7. Free \in BuildStates /\ BuildHolds(Free)
  BY DEF BuildStates, BuildHolds, Free
<1>8. CASE StoreConfig(r)
  <2> DEFINE e == [at |-> build[r].now, params |-> build[r].params, assets |-> build[r].assets]
  <2>1. build[r].at = "store"
    BY <1>8 DEF StoreConfig
  <2>2. e \in Entries /\ EntryHolds(e)
    BY <1>1, <2>1 DEF Entries, EntryHolds
  <2>3. /\ build' = [build EXCEPT ![r] = Free] /\ UNCHANGED <<replaced, clock>>
        /\ configCache' = e /\ lastKnownGood' = e
    BY <1>8 DEF StoreConfig, StampAt
  <2> HIDE DEF e
  <2> QED BY <1>7, <2>2, <2>3, ConfigReaderStep
<1>9. CASE ServeFallback(r)
  <2>1. build' = [build EXCEPT ![r] = Free] /\ UNCHANGED <<replaced, clock, configCache, lastKnownGood>>
    BY <1>9 DEF ServeFallback
  <2> QED BY <1>3, <1>7, <2>1
<1> QED BY <1>4, <1>5, <1>6, <1>8, <1>9

LEMMA ConfigInvariant == AdminSpec => []ConfigInv
<1>1. AdminInit => ConfigInv
  <2> SUFFICES ASSUME AdminInit PROVE ConfigInv
    OBVIOUS
  <2>1. replaced = [v \in {} |-> 0] /\ DOMAIN replaced = {}
    BY DEF AdminInit
  <2>2. live = 0
    BY <2>1, FS_EmptySet DEF live
  <2>3. 0 .. (live - 1) = {}
    BY <2>2
  <2>4. replaced \in [0 .. (live - 1) -> Nat]
    BY <2>1, <2>3
  <2>5. ConfigTypeOK
    BY <2>2, <2>4 DEF AdminInit, ConfigTypeOK, Entries, BuildStates
  <2>6. EntryHolds(NoEntry) /\ BuildHolds(Free)
    BY DEF EntryHolds, BuildHolds, Free
  <2> QED BY <2>5, <2>6 DEF AdminInit, ConfigInv
<1>2. ConfigInv /\ [AdminNext]_adminAll => ConfigInv'
  <2> SUFFICES ASSUME ConfigInv, [AdminNext]_adminAll PROVE ConfigInv'
    OBVIOUS
  <2>1. CASE /\ UNCHANGED <<replaced, lastKnownGood, build, clock>>
             /\ configCache' = configCache \/ configCache' = NoEntry
    BY <2>1, ConfigQuietStep
  <2>2. ASSUME NEW a \in Actions, RecordIntent(a) \/ BuildXdr(a) PROVE ConfigInv'
    BY <2>1, <2>2 DEF RecordIntent, BuildXdr, configVars
  <2>3. ASSUME NEW s \in Submits, MarkSent(s) \/ \E a \in Actions, t \in Txs : ReadPending(s, a, t)
        PROVE  ConfigInv'
    BY <2>1, <2>3 DEF MarkSent, ReadPending, configVars
  <2>4. CASE \E t \in Txs, ok \in BOOLEAN : Execute(t, ok)
    BY <2>4, ConfigQuietStep DEF Execute
  <2>5. CASE RunActionWatcher
    BY <2>1, <2>5 DEF RunActionWatcher, ListSent, PollAction, configVars
  <2>6. CASE Tick
    BY <2>6, ConfigQuietStep DEF Tick, configVars
  <2>7. CASE UNCHANGED adminAll
    BY <2>1, <2>7 DEF adminAll, configVars
  <2> QED BY <2>2, <2>3, <2>4, <2>5, <2>6, <2>7, ConfigBuildStep DEF AdminNext
<1> QED BY <1>1, <1>2, PTL DEF AdminSpec

\* Each part of a configuration that is served was the contract's within the
\* cache time, or within the fallback time when the chain cannot be read
\* (getConfig, invalidateCache).
THEOREM ServedConfigStaysRecent == AdminSpec => []ServedConfigIsRecent
<1>1. ASSUME NEW e \in Entries, EntryHolds(e), e # NoEntry, ConfigTypeOK, NEW t \in Int, t <= e.at
      PROVE  LiveSince(e, t)
  <2>1. /\ e.at \in Nat /\ live \in Nat /\ replaced \in [0 .. live - 1 -> Nat]
        /\ Fresh(e.params, e.at) /\ Fresh(e.assets, e.at)
    BY <1>1, EntryCarries DEF EntryHolds, ConfigTypeOK
  <2>2. ASSUME NEW v, Fresh(v, e.at) PROVE v = live \/ replaced[v] >= t
    <3>1. CASE v = live
      BY <3>1
    <3>2. CASE v # live
      <4>1. v \in 0 .. live - 1 /\ replaced[v] >= e.at
        BY <2>1, <2>2, <3>2 DEF Fresh
      <4>2. replaced[v] \in Nat
        BY <2>1, <4>1
      <4> QED BY <1>1, <2>1, <4>1, <4>2
    <3> QED BY <3>1, <3>2
  <2> QED BY <2>1, <2>2 DEF LiveSince
<1>2. ConfigInv => ServedConfigIsRecent
  <2> SUFFICES ASSUME ConfigInv PROVE ServedConfigIsRecent
    OBVIOUS
  <2>1. ConfigTypeOK /\ CacheTtl \in Nat /\ FallbackAge \in Nat
    BY AdminAssumption DEF ConfigInv
  <2>2. ASSUME configCache # NoEntry, Expiry(configCache) > clock
        PROVE  LiveSince(configCache, clock - CacheTtl + 1)
    <3>1. configCache \in Entries /\ EntryHolds(configCache) /\ clock \in Nat
      BY DEF ConfigInv, ConfigTypeOK
    <3>2. configCache.at \in Nat
      BY <2>2, <3>1, EntryCarries
    <3>3. clock - CacheTtl + 1 \in Int /\ clock - CacheTtl + 1 <= configCache.at
      BY <2>1, <2>2, <3>1, <3>2 DEF Expiry
    <3> QED BY <1>1, <2>1, <2>2, <3>1, <3>3
  <2>3. ASSUME NEW r \in Readers, build[r].at \in {"read", "assets"}, FallbackServable(build[r].now)
        PROVE  LiveSince(lastKnownGood, build[r].now - FallbackAge)
    <3>1. /\ lastKnownGood \in Entries /\ EntryHolds(lastKnownGood) /\ lastKnownGood # NoEntry
          /\ build[r] \in BuildStates
      BY <2>3 DEF ConfigInv, ConfigTypeOK, FallbackServable
    <3>2. lastKnownGood.at \in Nat /\ build[r].now \in Nat
      BY <2>3, <3>1, EntryCarries, BuildCarries
    <3>3. build[r].now - FallbackAge \in Int /\ build[r].now - FallbackAge <= lastKnownGood.at
      BY <2>1, <2>3, <3>2 DEF FallbackServable
    <3> QED BY <1>1, <2>1, <3>1, <3>3
  <2> QED BY <2>2, <2>3 DEF ServedConfigIsRecent
<1> QED BY <1>2, ConfigInvariant, PTL

-----------------------------------------------------------------------------
(* Notifications.  What notifyUser decided about a message travels with it.   *)

\* A call that reached Expo holds its message, and a sensitive one is sealed.
NotifyHolds(q) ==
    q.at = "send" =>
        /\ {"at", "kind", "sealed"} \subseteq DOMAIN q
        /\ q.kind.sensitive => q.sealed

PushInv ==
    /\ notify = [n \in Notifies |-> notify[n]]
    /\ \A n \in Notifies : NotifyHolds(notify[n])
    /\ \A m \in pushed : m.kind.sensitive => m.sealed

\* One call moves on to q, and what it pushes is as it was decided.
LEMMA NotifyStep ==
    ASSUME PushInv, NEW n \in Notifies, NEW q, NotifyHolds(q), notify' = [notify EXCEPT ![n] = q],
           \A m \in pushed' \ pushed : m.kind.sensitive => m.sealed
    PROVE  PushInv'
BY DEF PushInv

LEMMA PushInvariant == PushSpec => []PushInv
<1>1. PushInit => PushInv
  BY DEF PushInit, PushInv, NotifyHolds, NoNotify
<1>2. ASSUME PushInv, UNCHANGED <<notify, pushed>> PROVE PushInv'
  BY <1>2 DEF PushInv
<1>3. NotifyHolds(NoNotify)
  BY DEF NotifyHolds, NoNotify
<1>4. ASSUME PushInv, NEW n \in Notifies, NEW u \in Notified, NEW k \in Kinds, ReadSettings(n, u, k)
      PROVE  PushInv'
  <2>1. NotifyHolds([at |-> "tokens", u |-> u, kind |-> k])
    BY DEF NotifyHolds
  <2> QED BY <1>4, <2>1, NotifyStep DEF ReadSettings
<1>5. ASSUME PushInv, NEW n \in Notifies, ReadTokens(n)
      PROVE  PushInv'
  <2>1. PICK q : NotifyHolds(q) /\ notify' = [notify EXCEPT ![n] = q] /\ pushed' = pushed
    <3>1. CASE notify' = [notify EXCEPT ![n] = NoNotify] /\ pushed' = pushed
      BY <1>3, <3>1
    <3>2. ASSUME NEW s, pushed' = pushed,
                 notify' = [notify EXCEPT ![n] = [at |-> "message", u |-> notify[n].u,
                                                  kind |-> notify[n].kind, tokens |-> s]]
          PROVE  \E q : NotifyHolds(q) /\ notify' = [notify EXCEPT ![n] = q] /\ pushed' = pushed
      <4>1. NotifyHolds([at |-> "message", u |-> notify[n].u, kind |-> notify[n].kind, tokens |-> s])
        BY DEF NotifyHolds
      <4> QED BY <3>2, <4>1
    <3> QED BY <1>5, <3>1, <3>2 DEF ReadTokens
  <2> QED BY <1>5, <2>1, NotifyStep
<1>6. ASSUME PushInv, NEW n \in Notifies, BuildMessage(n)
      PROVE  PushInv'
  <2> DEFINE q == notify[n]
             m == [at |-> "send", u |-> q.u, kind |-> q.kind, tokens |-> q.tokens,
                   sealed |-> Sealed(q.kind, q.u), rest |-> q.tokens, tickets |-> <<>>]
  <2>1. pushed' = pushed
    BY <1>6 DEF BuildMessage
  <2>2. CASE Sendable(q.kind, q.u)
    <3>1. notify' = [notify EXCEPT ![n] = m]
      BY <1>6, <2>2 DEF BuildMessage
    <3>2. q.kind.sensitive => Sealed(q.kind, q.u)
      BY <2>2 DEF Sendable, Sealed
    <3>3. NotifyHolds(m)
      BY <3>2 DEF NotifyHolds
    <3> HIDE DEF m
    <3> QED BY <1>6, <2>1, <3>1, <3>3, NotifyStep
  <2>3. CASE ~Sendable(q.kind, q.u)
    <3>1. notify' = [notify EXCEPT ![n] = NoNotify]
      BY <1>6, <2>3 DEF BuildMessage
    <3> QED BY <1>3, <1>6, <2>1, <3>1, NotifyStep
  <2> QED BY <2>2, <2>3
<1>7. ASSUME PushInv, NEW n \in Notifies, NEW delivered \in BOOLEAN, SendChunk(n, delivered)
      PROVE  PushInv'
  <2> DEFINE q == notify[n]
             m == notify'[n]
  <2>1. /\ q.at = "send" /\ {"at", "kind", "sealed"} \subseteq DOMAIN q
        /\ q.kind.sensitive => q.sealed
    BY <1>7 DEF SendChunk, PushInv, NotifyHolds
  <2>2. PICK rest, tickets : notify' = [notify EXCEPT ![n].rest = rest, ![n].tickets = tickets]
    BY <1>7 DEF SendChunk
  <2>3. notify = [k \in Notifies |-> notify[k]]
    BY <1>7 DEF PushInv
  <2>4. /\ DOMAIN m = DOMAIN q /\ m.at = q.at /\ m.kind = q.kind /\ m.sealed = q.sealed
        /\ notify' = [notify EXCEPT ![n] = m]
    BY <2>1, <2>2, <2>3
  <2>5. NotifyHolds(m)
    BY <2>1, <2>4 DEF NotifyHolds
  <2>6. \A x \in pushed' \ pushed : x.kind.sensitive => x.sealed
    BY <1>7, <2>1 DEF SendChunk
  <2> HIDE DEF m
  <2> QED BY <1>7, <2>4, <2>5, <2>6, NotifyStep
<1>8. ASSUME PushInv, NEW n \in Notifies, Settle(n)
      PROVE  PushInv'
  BY <1>3, <1>8, NotifyStep DEF Settle
<1>9. PushInv /\ [PushNext]_pushVars => PushInv'
  BY <1>2, <1>4, <1>5, <1>6, <1>7, <1>8
     DEF PushNext, UpsertPushToken, DeletePushToken, Unregister, UpdateSettings, SetE2eeKey,
         CooldownPasses, pushVars
<1> QED BY <1>1, <1>9, PTL DEF PushSpec

\* A push that reaches the device of another user is never a sensitive one that
\* user could read, whatever changed hands while it was prepared
\* (buildExpoMessage, send).
THEOREM SensitivePushesStaySealed == PushSpec => []NobodyElseReads
<1>1. PushInv => NobodyElseReads
  BY DEF PushInv, NobodyElseReads
<1> QED BY <1>1, PushInvariant, PTL

-----------------------------------------------------------------------------
(* The indexer loses nothing silently, for any ledgers, chunks, pages, replays *)
(* and crashes.                                                                *)

Chunks == Nat \ {0}

WorkerStates ==
    {Off}
    \cup [pc : {"read"}]
    \cup [pc : {"wipe", "start"}, from : Nat, to : Nat, chunk : Chunks]
    \cup [pc : {"fetch"}, next : Nat, end : Nat, chunk : Chunks]
    \cup [pc : {"check", "commit"}, next : Nat, end : Nat, chunk : Chunks, batch : SUBSET Events]

IndexTypeOK ==
    /\ latest \in Nat /\ checkpoint \in Nat
    /\ history \in SUBSET Events /\ dedup \in SUBSET Events
    /\ worker \in [Workers -> WorkerStates]
    /\ exposed \in BOOLEAN

Walking == {"fetch", "check", "commit"}

\* What a worker has before it and behind it while it walks its range: all below
\* is indexed, and what it has read of its chunk but not indexed is in its batch.
ChunkTo(q) == Min2(q.next + q.chunk - 1, q.end)
WorkerHolds(q) ==
    q.pc \in Walking =>
        /\ q.end <= latest
        /\ TxEvents(q.next - 1) \subseteq history
        /\ q.pc # "fetch" => TxEvents(ChunkTo(q)) \subseteq history \cup q.batch

\* A deduplication row of a transaction comes with its history row.
DedupHolds == \A e \in dedup : Kind[e] \in TxKinds => e \in history

NothingLost ==
    /\ TxEvents(checkpoint) \subseteq history
    /\ DedupHolds
    /\ \A w \in Workers : WorkerHolds(worker[w])

IndexInv == IndexTypeOK /\ (exposed \/ NothingLost)

-----------------------------------------------------------------------------
LEMMA WorkerCarries ==
    ASSUME NEW q \in WorkerStates
    PROVE  /\ q.pc \in {"off", "read", "wipe", "start", "fetch", "check", "commit"}
           /\ q.pc \in {"wipe", "start"} =>
                 /\ q.from \in Nat /\ q.to \in Nat /\ q.chunk \in Chunks
                 /\ q = [pc |-> q.pc, from |-> q.from, to |-> q.to, chunk |-> q.chunk]
           /\ q.pc \in Walking => q.next \in Nat /\ q.end \in Nat /\ q.chunk \in Chunks
           /\ q.pc \in {"check", "commit"} =>
                 /\ q.batch \in SUBSET Events
                 /\ q = [pc |-> q.pc, next |-> q.next, end |-> q.end, chunk |-> q.chunk, batch |-> q.batch]
<1>1. CASE q.pc \in {"off", "read", "wipe", "start", "fetch"}
  BY <1>1 DEF WorkerStates, Off, Walking
<1>2. CASE q.pc \in {"check", "commit"}
  BY <1>2 DEF WorkerStates, Off, Walking
<1>3. q.pc \in {"off", "read", "wipe", "start", "fetch", "check", "commit"}
  BY DEF WorkerStates, Off
<1> QED BY <1>1, <1>2, <1>3

LEMMA ChunkToTyped ==
    ASSUME NEW q \in WorkerStates, q.pc \in Walking
    PROVE  ChunkTo(q) \in Nat /\ ChunkTo(q) <= q.end
<1>1. q.next \in Nat /\ q.end \in Nat /\ q.chunk \in Nat /\ q.chunk >= 1
  BY WorkerCarries DEF Chunks
<1>2. q.next + q.chunk - 1 \in Nat
  BY <1>1
<1> QED BY <1>1, <1>2 DEF ChunkTo, Min2

LEMMA EventsTyped ==
    /\ StartLedger \in Nat /\ StartLedger >= 1
    /\ \A e \in Events : Ledger[e] \in Nat /\ Ledger[e] >= StartLedger
BY IndexerAssumption

\* There is nothing below the first ledger that is indexed.
LEMMA NothingBefore ==
    ASSUME NEW n \in Int, n < StartLedger
    PROVE  TxEvents(n) = {}
<1>1. ASSUME NEW e \in Events PROVE ~(Ledger[e] <= n)
  BY EventsTyped
<1> QED BY <1>1 DEF TxEvents

LEMMA TxEventsGrow ==
    ASSUME NEW m \in Int, NEW n \in Int, m <= n
    PROVE  TxEvents(m) \subseteq TxEvents(n)
BY EventsTyped DEF TxEvents

LEMMA IndexedIsCovered ==
    ASSUME IndexTypeOK, NothingLost
    PROVE  Indexed \in Nat /\ TxEvents(Indexed) \subseteq history
<1>1. CASE checkpoint = 0
  <2>1. Indexed = StartLedger - 1 /\ StartLedger \in Nat /\ StartLedger >= 1
    BY <1>1, IndexerAssumption DEF Indexed
  <2> QED BY <2>1, NothingBefore
<1>2. CASE checkpoint # 0
  BY <1>2 DEF Indexed, IndexTypeOK, NothingLost
<1> QED BY <1>1, <1>2

\* One worker moves on to q, and what is indexed only grows.
LEMMA WorkerStep ==
    ASSUME IndexInv, NEW w \in Workers, NEW q \in WorkerStates, Become(w, q),
           latest' = latest, history' \in SUBSET Events, dedup' \in SUBSET Events,
           checkpoint' \in Nat, exposed' \in BOOLEAN, exposed => exposed',
           history \subseteq history',
           exposed' \/ /\ TxEvents(checkpoint') \subseteq history'
                       /\ \A e \in dedup' : Kind[e] \in TxKinds => e \in history'
                       /\ WorkerHolds(q)'
    PROVE  IndexInv'
<1>0. IndexTypeOK
  BY DEF IndexInv
<1>1. IndexTypeOK'
  BY <1>0 DEF IndexTypeOK, Become
<1>2. CASE exposed'
  BY <1>1, <1>2 DEF IndexInv
<1>3. CASE ~exposed'
  <2>1. NothingLost
    BY <1>3 DEF IndexInv
  <2>2. /\ TxEvents(checkpoint') \subseteq history'
        /\ \A e \in dedup' : Kind[e] \in TxKinds => e \in history'
        /\ WorkerHolds(q)'
    BY <1>3
  <2>3. \A v \in Workers : WorkerHolds(worker[v])'
    <3> TAKE v \in Workers
    <3>1. worker'[v] = IF v = w THEN q ELSE worker[v]
      BY <1>0 DEF IndexTypeOK, Become
    <3>2. CASE v = w
      BY <2>2, <3>1, <3>2 DEF WorkerHolds
    <3>3. CASE v # w
      <4>1. worker'[v] = worker[v] /\ WorkerHolds(worker[v])
        BY <2>1, <3>1, <3>3 DEF NothingLost
      <4> QED BY <4>1 DEF WorkerHolds
    <3> QED BY <3>2, <3>3
  <2>4. TxEvents(checkpoint)'  \subseteq history'
    BY <2>2 DEF TxEvents
  <2> QED BY <1>1, <2>2, <2>3, <2>4 DEF IndexInv, NothingLost, DedupHolds
<1> QED BY <1>2, <1>3

\* A step that leaves the database as it is.
LEMMA IdleRows ==
    ASSUME IndexInv, UNCHANGED <<latest, checkpoint, history, dedup>>,
           NEW w \in Workers, NEW q \in WorkerStates, Become(w, q),
           exposed' \in BOOLEAN, exposed => exposed', exposed' \/ WorkerHolds(q)
    PROVE  IndexInv'
<1>1. /\ history' \in SUBSET Events /\ dedup' \in SUBSET Events /\ checkpoint' \in Nat
      /\ history \subseteq history'
  BY DEF IndexInv, IndexTypeOK
<1>2. exposed' \/ WorkerHolds(q)'
  BY DEF WorkerHolds, TxEvents
<1>3. exposed' \/ /\ TxEvents(checkpoint') \subseteq history'
                  /\ \A e \in dedup' : Kind[e] \in TxKinds => e \in history'
  BY DEF IndexInv, NothingLost, DedupHolds
<1> QED BY <1>1, <1>2, <1>3, WorkerStep

-----------------------------------------------------------------------------
(* Starting and stopping.                                                     *)

LEMMA OffStands == Off \in WorkerStates /\ WorkerHolds(Off)
BY DEF Off, WorkerStates, WorkerHolds, Walking

LEMMA PollStarts ==
    ASSUME IndexInv, PollStart \/ PollRead
    PROVE  IndexInv'
<1>0. "poll" \in Workers /\ IndexTypeOK
  BY DEF Workers, IndexInv
<1>1. CASE PollStart
  <2>1. [pc |-> "read"] \in WorkerStates /\ WorkerHolds([pc |-> "read"])
    BY DEF WorkerStates, WorkerHolds, Walking
  <2> QED BY <1>0, <1>1, <2>1, IdleRows DEF PollStart, db, IndexTypeOK
<1>2. CASE PollRead
  <2>1. /\ UNCHANGED <<latest, checkpoint, history, dedup>>
        /\ exposed' = (exposed \/ LastLedger > Indexed)
    BY <1>2 DEF PollRead, db
  <2>2. exposed' \in BOOLEAN /\ (exposed => exposed')
    BY <2>1
  <2>3. CASE Become("poll", Off)
    BY <1>0, <2>1, <2>2, <2>3, OffStands, IdleRows
  <2>4. CASE latest > LastLedger
    <3> DEFINE q == [pc |-> "fetch", next |-> LastLedger + 1, end |-> latest, chunk |-> DefaultChunk]
    <3>1. Become("poll", q)
      BY <1>2, <2>4 DEF PollRead
    <3>2. /\ Indexed \in Nat \/ Indexed = StartLedger - 1
          /\ OldestLedger \in Nat /\ OldestLedger >= 1
      BY <1>0, IndexerAssumption DEF IndexTypeOK, Indexed, OldestLedger
    <3>3. LastLedger \in Nat /\ Indexed \in Nat
      BY <3>2, EventsTyped DEF LastLedger
    <3>4. q \in WorkerStates
      BY <1>0, <3>3, IndexerAssumption DEF WorkerStates, Chunks, IndexTypeOK
    <3>5. exposed' \/ WorkerHolds(q)
      <4>1. SUFFICES ASSUME ~exposed' PROVE WorkerHolds(q)
        OBVIOUS
      <4>2. NothingLost /\ LastLedger = Indexed
        <5>1. ~exposed /\ ~(LastLedger > Indexed)
          BY <2>1, <4>1
        <5>2. LastLedger >= Indexed
          BY <3>2, <3>3 DEF LastLedger
        <5> QED BY <3>3, <5>1, <5>2 DEF IndexInv
      <4>3. TxEvents(LastLedger) \subseteq history
        BY <1>0, <4>2, IndexedIsCovered
      <4>4. q.next - 1 = LastLedger /\ q.end = latest /\ latest <= latest /\ q.pc = "fetch"
        BY <1>0, <3>3 DEF IndexTypeOK
      <4> HIDE DEF q
      <4> QED BY <4>3, <4>4 DEF WorkerHolds
    <3> HIDE DEF q
    <3> QED BY <1>0, <2>1, <2>2, <3>1, <3>4, <3>5, IdleRows
  <2> QED BY <1>2, <2>3, <2>4 DEF PollRead, Stop
<1> QED BY <1>1, <1>2

LEMMA ReplayStarts ==
    ASSUME IndexInv, NEW w \in {"replay", "forced"}, ReplayStep(w)
    PROVE  IndexInv'
<1>0. w \in Workers /\ IndexTypeOK /\ worker[w] \in WorkerStates
  BY DEF Workers, IndexInv, IndexTypeOK
<1>1. PICK head \in {0, latest} : StartReplay(w, head)
  BY DEF ReplayStep
<1>2. PICK from, to : /\ from = worker[w].from
                      /\ to = IF worker[w].to # 0 THEN worker[w].to
                              ELSE IF head > 0 THEN head ELSE from
  OBVIOUS
<1>3. worker[w].pc = "start" /\ UNCHANGED <<latest, checkpoint, history, dedup>>
  BY <1>1 DEF StartReplay, db
<1>4. from \in Nat /\ worker[w].to \in Nat /\ worker[w].chunk \in Chunks /\ latest \in Nat
  BY <1>0, <1>2, <1>3, WorkerCarries DEF IndexTypeOK
<1>5. to \in Nat
  BY <1>2, <1>4
<1>6. CASE to < from
  <2>1. Become(w, Off) /\ exposed' = exposed
    BY <1>1, <1>2, <1>6 DEF StartReplay
  <2> QED BY <1>0, <1>3, <2>1, OffStands, IdleRows DEF IndexTypeOK
<1>7. CASE ~(to < from)
  <2> DEFINE q == [pc |-> "fetch", next |-> from, end |-> to, chunk |-> worker[w].chunk]
  <2>1. Become(w, q) /\ exposed' = (exposed \/ from > Indexed + 1 \/ to > latest)
    BY <1>1, <1>2, <1>7 DEF StartReplay
  <2>2. q \in WorkerStates
    BY <1>4, <1>5 DEF WorkerStates
  <2>3. exposed' \in BOOLEAN /\ (exposed => exposed')
    BY <2>1
  <2>4. exposed' \/ WorkerHolds(q)
    <3>1. SUFFICES ASSUME ~exposed' PROVE WorkerHolds(q)
      OBVIOUS
    <3>2. ~exposed /\ ~(from > Indexed + 1) /\ ~(to > latest)
      BY <2>1, <3>1
    <3>3. Indexed \in Nat /\ TxEvents(Indexed) \subseteq history
      BY <1>0, <3>2, IndexedIsCovered DEF IndexInv
    <3>4. TxEvents(from - 1) \subseteq TxEvents(Indexed)
      <4>1. from - 1 \in Int /\ from - 1 <= Indexed
        BY <1>4, <3>2, <3>3
      <4> QED BY <3>3, <4>1, TxEventsGrow
    <3>5. q.end <= latest /\ q.next = from /\ q.pc = "fetch"
      BY <1>4, <1>5, <3>2
    <3> HIDE DEF q
    <3> QED BY <3>3, <3>4, <3>5 DEF WorkerHolds
  <2> HIDE DEF q
  <2> QED BY <1>0, <1>3, <2>1, <2>2, <2>3, <2>4, IdleRows
<1> QED BY <1>6, <1>7

LEMMA TriggerStep ==
    ASSUME IndexInv, NEW full \in BOOLEAN, NEW ask \in Replays, TriggerReplay(full, ask)
    PROVE  IndexInv'
<1> DEFINE q == [pc |-> IF full THEN "wipe" ELSE "start", from |-> ask.from, to |-> ask.to,
                 chunk |-> ask.chunk]
<1>1. Become("replay", q) /\ UNCHANGED <<latest, checkpoint, history, dedup, exposed>>
  BY DEF TriggerReplay, db
<1>2. ask.from \in Nat /\ ask.to \in Nat /\ ask.chunk \in Chunks
  BY IndexerAssumption DEF Chunks
<1>3. q \in WorkerStates /\ q.pc \in {"wipe", "start"}
  BY <1>2 DEF WorkerStates
<1>4. WorkerHolds(q)
  BY <1>3 DEF WorkerHolds, Walking
<1>5. "replay" \in Workers /\ exposed \in BOOLEAN
  BY DEF Workers, IndexInv, IndexTypeOK
<1> HIDE DEF q
<1> QED BY <1>1, <1>3, <1>4, <1>5, IdleRows

\* The wipe leaves nothing indexed and, unless a poll was under way, nobody who
\* counts on what was.
LEMMA ForceStep ==
    ASSUME IndexInv, ForceReplay
    PROVE  IndexInv'
<1>0. /\ IndexTypeOK /\ worker["replay"] \in WorkerStates /\ worker["replay"].pc = "wipe"
      /\ Workers = {"poll", "replay", "forced"}
  BY DEF IndexInv, IndexTypeOK, ForceReplay, Workers
<1>1. PICK from \in Nat, to \in Nat, chunk \in Chunks :
         worker["replay"] = [pc |-> "wipe", from |-> from, to |-> to, chunk |-> chunk]
  BY <1>0, WorkerCarries
<1> DEFINE r == [pc |-> "start", from |-> from, to |-> to, chunk |-> chunk]
           f == [pc |-> "start", from |-> StartLedger, to |-> 0, chunk |-> DefaultChunk]
<1>2. /\ worker'["poll"] = worker["poll"] /\ worker'["replay"] = r /\ worker'["forced"] = f
      /\ DOMAIN worker' = Workers /\ worker' = [w \in Workers |-> worker'[w]]
  <2>1. worker = [w \in Workers |-> worker[w]]
    BY <1>0 DEF IndexTypeOK
  <2>2. [worker["replay"] EXCEPT !.pc = "start"] = r
    BY <1>1
  <2>3. worker' = [worker EXCEPT !["replay"] = [worker["replay"] EXCEPT !.pc = "start"], !["forced"] = f]
    BY <1>0, <2>1 DEF ForceReplay
  <2> HIDE DEF r, f
  <2>4. worker' = [worker EXCEPT !["replay"] = r, !["forced"] = f]
    BY <2>2, <2>3
  <2> QED BY <1>0, <2>1, <2>4
<1>3. r \in WorkerStates /\ f \in WorkerStates
  BY EventsTyped, IndexerAssumption DEF WorkerStates, Chunks
<1>4. r.pc \notin Walking /\ f.pc \notin Walking
  BY DEF Walking
<1>5. /\ checkpoint' = 0 /\ history' = {} /\ dedup' = {} /\ latest' = latest
      /\ exposed' = (exposed \/ worker["poll"].pc \notin {"off", "read"})
  BY DEF ForceReplay, ResetDatabase
<1> HIDE DEF r, f
<1>6. worker' \in [Workers -> WorkerStates]
  <2>1. \A w \in Workers : worker'[w] \in WorkerStates
    BY <1>0, <1>2, <1>3 DEF IndexTypeOK
  <2> QED BY <1>2, <2>1
<1>7. IndexTypeOK'
  BY <1>0, <1>5, <1>6 DEF IndexTypeOK
<1>8. exposed' \/ NothingLost'
  <2>1. SUFFICES ASSUME ~exposed' PROVE NothingLost'
    OBVIOUS
  <2>2. worker["poll"].pc \notin Walking
    BY <1>5, <2>1 DEF Walking
  <2>3. \A w \in Workers : worker'[w].pc \notin Walking
    BY <1>0, <1>2, <1>4, <2>2
  <2>4. TxEvents(0) = {}
    BY EventsTyped, NothingBefore
  <2>5. (TxEvents(checkpoint) \subseteq history)'
    BY <1>5, <2>4 DEF TxEvents
  <2> QED BY <1>5, <2>3, <2>5 DEF NothingLost, DedupHolds, WorkerHolds
<1> QED BY <1>7, <1>8 DEF IndexInv

-----------------------------------------------------------------------------
(* Walking a range.                                                           *)

LEMMA FetchStep ==
    ASSUME IndexInv, NEW w \in Workers, NEW pages \in Nat, FetchAndParse(w, pages)
    PROVE  IndexInv'
<1>0. IndexTypeOK /\ worker[w] \in WorkerStates /\ worker[w].pc = "fetch" /\ latest \in Nat
  BY DEF IndexInv, IndexTypeOK, FetchAndParse
<1>1. PICK next, end, chunk, to :
         /\ next = worker[w].next /\ end = worker[w].end /\ chunk = worker[w].chunk /\ to = ChunkEnd(w)
         /\ to = Min2(next + chunk - 1, end)
  BY DEF ChunkEnd
<1>2. next \in Nat /\ end \in Nat /\ chunk \in Chunks /\ to \in Nat /\ to <= end
  <2>1. next \in Nat /\ end \in Nat /\ chunk \in Chunks
    BY <1>0, <1>1, WorkerCarries DEF Walking
  <2> QED BY <1>1, <2>1 DEF Chunks, Min2
<1>3. PICK read, batch :
         /\ read = FirstOf(Listed(w), pages * PageSize)
         /\ batch = Parsed(read)
  OBVIOUS
<1> DEFINE q == [pc |-> "check", next |-> next, end |-> end, chunk |-> chunk, batch |-> batch]
<1>4. /\ Become(w, q) /\ UNCHANGED <<latest, checkpoint, history, dedup>>
      /\ exposed' = (exposed \/ ~(ChunkEvents(w) \subseteq read))
  BY <1>1, <1>3 DEF FetchAndParse, Holding, db
<1>5. Listed(w) \subseteq Events /\ read \subseteq Events
  BY <1>3 DEF Listed, ChunkEvents, FirstOf
<1>6. batch = {e \in read : Kind[e] \notin {"configured", "other"}} /\ batch \in SUBSET Events
  BY <1>3, <1>5 DEF Parsed
<1>7. q \in WorkerStates
  BY <1>2, <1>6 DEF WorkerStates
<1>8. exposed' \in BOOLEAN /\ (exposed => exposed')
  BY <1>4
<1>9. exposed' \/ WorkerHolds(q)
  <2>1. SUFFICES ASSUME ~exposed' PROVE WorkerHolds(q)
    OBVIOUS
  <2>2. ~exposed /\ ChunkEvents(w) \subseteq read
    BY <1>4, <2>1
  <2>3. end <= latest /\ TxEvents(next - 1) \subseteq history
    BY <1>0, <1>1, <2>2 DEF IndexInv, NothingLost, WorkerHolds, Walking
  <2>4. ASSUME NEW e \in TxEvents(to), e \notin history PROVE e \in batch
    <3>1. e \in Events /\ Kind[e] \in TxKinds /\ Ledger[e] <= to /\ Ledger[e] \in Nat
      BY <2>4, EventsTyped DEF TxEvents
    <3>2. ~(Ledger[e] <= next - 1)
      BY <2>3, <2>4, <3>1 DEF TxEvents
    <3>3. to <= latest /\ Min2(to, latest) = to
      BY <1>0, <1>2, <2>3 DEF Min2
    <3>4. Ledger[e] \in next .. to
      BY <1>2, <3>1, <3>2
    <3>5. e \in ChunkEvents(w)
      BY <1>1, <3>1, <3>3, <3>4 DEF ChunkEvents
    <3> QED BY <1>6, <2>2, <3>1, <3>5 DEF TxKinds
  <2>5. /\ q.pc = "check" /\ q.end = end /\ q.next = next /\ q.batch = batch
        /\ ChunkTo(q) = to
    BY <1>1 DEF ChunkTo
  <2> HIDE DEF q
  <2> QED BY <2>3, <2>4, <2>5 DEF WorkerHolds
<1> HIDE DEF q
<1> QED BY <1>4, <1>7, <1>8, <1>9, IdleRows

LEMMA CheckStep ==
    ASSUME IndexInv, NEW w \in Workers, CheckDuplicates(w)
    PROVE  IndexInv'
<1>0. IndexTypeOK /\ worker[w] \in WorkerStates /\ worker[w].pc = "check"
  BY DEF IndexInv, IndexTypeOK, CheckDuplicates
<1>1. PICK next, end, chunk, batch :
         /\ next = worker[w].next /\ end = worker[w].end /\ chunk = worker[w].chunk
         /\ batch = worker[w].batch
  OBVIOUS
<1>1a. next \in Nat /\ end \in Nat /\ chunk \in Chunks /\ batch \in SUBSET Events
  BY <1>0, <1>1, WorkerCarries DEF Walking
<1>2. PICK left : left = {e \in batch : ~IsDuplicate(e)}
  OBVIOUS
<1> DEFINE q == [pc |-> "commit", next |-> next, end |-> end, chunk |-> chunk, batch |-> left]
<1>4. Become(w, q) /\ UNCHANGED <<latest, checkpoint, history, dedup, exposed>>
  BY <1>1, <1>2 DEF CheckDuplicates, Holding, db
<1>5. q \in WorkerStates
  BY <1>2, <1>1a DEF WorkerStates
<1>6. exposed \in BOOLEAN
  BY <1>0 DEF IndexTypeOK
<1>7. exposed \/ WorkerHolds(q)
  <2>1. SUFFICES ASSUME ~exposed PROVE WorkerHolds(q)
    OBVIOUS
  <2>2. DedupHolds /\ WorkerHolds(worker[w])
    BY <2>1 DEF IndexInv, NothingLost
  <2>3. /\ worker[w].pc = "check" /\ worker[w].next = next /\ worker[w].end = end
        /\ worker[w].batch = batch /\ ChunkTo(worker[w]) = ChunkTo(q)
        /\ q.pc = "commit" /\ q.next = next /\ q.end = end /\ q.batch = left
    BY <1>0, <1>1 DEF ChunkTo
  <2> HIDE DEF q
  <2>4. end <= latest /\ TxEvents(next - 1) \subseteq history /\ TxEvents(ChunkTo(q)) \subseteq history \cup batch
    BY <2>2, <2>3 DEF WorkerHolds, Walking
  <2>5. \A e \in TxEvents(ChunkTo(q)) : e \in batch => e \in history \cup left
    BY <1>2, <2>2 DEF IsDuplicate, DedupHolds, TxEvents
  <2> QED BY <2>3, <2>4, <2>5 DEF WorkerHolds
<1> HIDE DEF q
<1> QED BY <1>4, <1>5, <1>6, <1>7, IdleRows

LEMMA CommitStep ==
    ASSUME IndexInv, NEW w \in Workers, CommitChunk(w)
    PROVE  IndexInv'
<1>0. IndexTypeOK /\ worker[w] \in WorkerStates /\ worker[w].pc = "commit"
  BY DEF IndexInv, IndexTypeOK, CommitChunk
<1>1. PICK next, end, chunk, batch :
         /\ next = worker[w].next /\ end = worker[w].end /\ chunk = worker[w].chunk
         /\ batch = worker[w].batch
  OBVIOUS
<1>1a. next \in Nat /\ end \in Nat /\ chunk \in Chunks /\ batch \in SUBSET Events
  BY <1>0, <1>1, WorkerCarries DEF Walking
<1>2. PICK to \in Nat : to = ChunkEnd(w) /\ to = ChunkTo(worker[w]) /\ to <= end
  <2>1. ChunkEnd(w) = ChunkTo(worker[w])
    BY DEF ChunkEnd, ChunkTo
  <2>2. worker[w].end = end /\ worker[w].pc \in Walking
    BY <1>0, <1>1 DEF Walking
  <2> QED BY <1>0, <2>1, <2>2, ChunkToTyped
<1>3. /\ history' = history \cup {e \in batch : Kind[e] \in TxKinds}
      /\ dedup' = dedup \cup batch
      /\ checkpoint' = to /\ UNCHANGED <<latest, exposed>>
  BY <1>1, <1>2 DEF CommitChunk
<1>4. /\ history \in SUBSET Events /\ history' \in SUBSET Events /\ dedup' \in SUBSET Events
      /\ history \subseteq history' /\ exposed \in BOOLEAN
  BY <1>0, <1>1a, <1>3 DEF IndexTypeOK
<1>5. ~exposed => TxEvents(to) \subseteq history' /\ end <= latest
  <2>1. SUFFICES ASSUME ~exposed PROVE TxEvents(to) \subseteq history' /\ end <= latest
    OBVIOUS
  <2>2. WorkerHolds(worker[w])
    BY <2>1 DEF IndexInv, NothingLost
  <2>3. TxEvents(to) \subseteq history \cup batch /\ end <= latest
    BY <1>0, <1>1, <1>2, <2>2 DEF WorkerHolds, Walking
  <2> QED BY <1>3, <2>3 DEF TxEvents
<1>6. ~exposed => \A e \in dedup' : Kind[e] \in TxKinds => e \in history'
  BY <1>3 DEF IndexInv, NothingLost, DedupHolds
<1>7. CASE to < end
  <2> DEFINE q == [pc |-> "fetch", next |-> to + 1, end |-> end, chunk |-> chunk]
  <2>1. Become(w, q)
    BY <1>1, <1>2, <1>7 DEF CommitChunk
  <2>2. q \in WorkerStates
    BY <1>2, <1>1a DEF WorkerStates
  <2>3. q.pc = "fetch" /\ q.end = end /\ q.next - 1 = to
    OBVIOUS
  <2> HIDE DEF q
  <2>4. ~exposed => WorkerHolds(q)'
    BY <1>3, <1>5, <2>3 DEF WorkerHolds, TxEvents
  <2> QED BY <1>3, <1>4, <1>5, <1>6, <2>1, <2>2, <2>4, WorkerStep
<1>8. CASE ~(to < end)
  <2>1. Become(w, Off)
    BY <1>1, <1>2, <1>8 DEF CommitChunk, Stop
  <2>2. WorkerHolds(Off)'
    BY DEF WorkerHolds, Off, Walking
  <2> QED BY <1>3, <1>4, <1>5, <1>6, <2>1, <2>2, OffStands, WorkerStep
<1> QED BY <1>7, <1>8

-----------------------------------------------------------------------------
LEMMA OthersStep ==
    ASSUME IndexInv, CloseLedger \/ ExpireDedup \/ Crash \/ UNCHANGED vars
    PROVE  IndexInv'
<1>0. IndexTypeOK
  BY DEF IndexInv
<1>1. CASE CloseLedger
  <2>1. latest' = latest + 1 /\ latest \in Nat
        /\ UNCHANGED <<checkpoint, history, dedup, worker, exposed>>
    BY <1>0, <1>1 DEF CloseLedger, db, IndexTypeOK
  <2>2. IndexTypeOK'
    BY <1>0, <2>1 DEF IndexTypeOK
  <2>3. ASSUME NEW v \in Workers, WorkerHolds(worker[v]) PROVE WorkerHolds(worker[v])'
    <3>1. worker[v].pc \in Walking => worker[v].end \in Nat
      BY <1>0, WorkerCarries DEF IndexTypeOK
    <3>2. worker[v].pc \in Walking => worker[v].end <= latest'
      BY <2>1, <2>3, <3>1 DEF WorkerHolds
    <3> QED BY <2>1, <2>3, <3>2 DEF WorkerHolds, TxEvents
  <2> QED BY <2>1, <2>2, <2>3 DEF IndexInv, NothingLost, DedupHolds, TxEvents
<1>2. CASE ExpireDedup
  <2>1. dedup' = {} /\ UNCHANGED <<latest, checkpoint, history, worker, exposed>>
    BY <1>2 DEF ExpireDedup
  <2>2. IndexTypeOK'
    BY <1>0, <2>1 DEF IndexTypeOK
  <2> QED BY <2>1, <2>2 DEF IndexInv, NothingLost, DedupHolds, WorkerHolds, TxEvents
<1>3. CASE Crash
  <2>1. worker' = [w \in Workers |-> Off] /\ UNCHANGED <<latest, checkpoint, history, dedup, exposed>>
    BY <1>3 DEF Crash, db
  <2>2. IndexTypeOK'
    BY <1>0, <2>1, OffStands DEF IndexTypeOK
  <2>3. \A w \in Workers : worker'[w].pc \notin Walking
    BY <2>1 DEF Off, Walking
  <2> QED BY <2>1, <2>2, <2>3 DEF IndexInv, NothingLost, DedupHolds, WorkerHolds, TxEvents
<1>4. CASE UNCHANGED vars
  BY <1>4 DEF vars, db, IndexInv, IndexTypeOK, NothingLost, DedupHolds, WorkerHolds, TxEvents
<1> QED BY <1>1, <1>2, <1>3, <1>4

LEMMA FailStep ==
    ASSUME IndexInv, NEW w \in Workers, RunFails(w)
    PROVE  IndexInv'
<1>1. /\ Become(w, Off) /\ UNCHANGED <<latest, checkpoint, history, dedup, exposed>>
      /\ exposed \in BOOLEAN
  BY DEF RunFails, Stop, db, IndexInv, IndexTypeOK
<1> QED BY <1>1, OffStands, IdleRows

LEMMA IndexInvariant == IndexerSpec => []IndexInv
<1>1. IndexerInit => IndexInv
  <2> SUFFICES ASSUME IndexerInit PROVE IndexInv
    OBVIOUS
  <2>1. IndexTypeOK
    BY OffStands, EventsTyped DEF IndexerInit, IndexTypeOK
  <2>2. TxEvents(0) = {}
    BY EventsTyped, NothingBefore
  <2>3. \A w \in Workers : worker[w] = Off
    BY DEF IndexerInit
  <2> QED BY <2>1, <2>2, <2>3, OffStands DEF IndexerInit, IndexInv, NothingLost, DedupHolds
<1>2. IndexInv /\ [IndexerNext]_vars => IndexInv'
  <2> SUFFICES ASSUME IndexInv, [IndexerNext]_vars PROVE IndexInv'
    OBVIOUS
  <2>1. ASSUME NEW w \in Workers, Step(w) PROVE IndexInv'
    <3>1. ASSUME NEW pages \in 0 .. Cardinality(Events), FetchAndParse(w, pages) PROVE IndexInv'
      <4>1. pages \in Nat
        OBVIOUS
      <4> QED BY <3>1, <4>1, FetchStep
    <3> QED BY <2>1, <3>1, CheckStep, CommitStep, FailStep DEF Step
  <2> QED BY <2>1, PollStarts, ReplayStarts, TriggerStep, ForceStep, OthersStep DEF IndexerNext
<1> QED BY <1>1, <1>2, PTL DEF IndexerSpec

\* Up to the checkpoint nothing is missing from the history, whatever polls,
\* replays, wipes, aborts and restarts did, unless one of the named causes of
\* loss occurred (indexer.service.ts).
THEOREM GapsAreNeverSilent == IndexerSpec => []NoSilentGap
<1>1. IndexInv => NoSilentGap
  <2> SUFFICES ASSUME IndexInv, ~exposed PROVE TxEvents(Min2(checkpoint, latest)) \subseteq history
    BY DEF NoSilentGap
  <2>1. checkpoint \in Nat /\ latest \in Nat /\ TxEvents(checkpoint) \subseteq history
    BY DEF IndexInv, IndexTypeOK, NothingLost
  <2>2. Min2(checkpoint, latest) \in Nat /\ Min2(checkpoint, latest) <= checkpoint
    BY <2>1 DEF Min2
  <2> QED BY <2>1, <2>2, TxEventsGrow
<1> QED BY <1>1, IndexInvariant, PTL

-----------------------------------------------------------------------------
(* The position is what the history adds up to.  Events are applied in their  *)
(* order on top of a history without gaps, so a user whose events are covered *)
(* is never clamped.                                                          *)

Positions == [deposited : Nat, borrowed : Nat]
DepositedBy == [e \in Events |-> DepositedDelta(e)]
BorrowedBy == [e \in Events |-> BorrowedDelta(e)]

\* No prefix of the chain's events takes more out than was put in.  The contract
\* enforces it up to interest.
NeverOverdrawn ==
    \A n \in Nat : /\ Net(DepositedDelta, {e \in Events : e < n}) >= 0
                   /\ Net(BorrowedDelta, {e \in Events : e < n}) >= 0

IsTx(e) == Kind[e] \in TxKinds

\* Below each of its events, E holds all transactions that are not in H.
NoGap(E, H) == \A e \in E, d \in Events : IsTx(e) /\ IsTx(d) /\ d < e => d \in H \cup E

HistoryTypeOK ==
    /\ position \in Positions
    /\ \A e \in history : IsTx(e)

HistoryInv ==
    /\ HistoryTypeOK
    /\ position.deposited >= Net(DepositedDelta, history)
    /\ position.borrowed >= Net(BorrowedDelta, history)
    /\ exposed \/ /\ position.deposited = Net(DepositedDelta, history)
                  /\ position.borrowed = Net(BorrowedDelta, history)
                  /\ NoGap(history, {})
                  /\ \A w \in Workers :
                        worker[w].pc \in {"check", "commit"} => NoGap(worker[w].batch, history)

-----------------------------------------------------------------------------
(* What events add.                                                           *)

\* delta is what a transaction adds to one of the two amounts.
IsDelta(delta) ==
    /\ delta \in [Events -> Int]
    /\ \A e \in Events : ~IsTx(e) => delta[e] = 0

LEMMA DeltasTyped == IsDelta(DepositedBy) /\ IsDelta(BorrowedBy)
<1>1. \A e \in Events : Amount[e] \in Nat /\ Kind[e] \in EventKinds
  BY IndexerAssumption
<1>2. \A e \in Events : DepositedDelta(e) \in Int /\ BorrowedDelta(e) \in Int
  BY <1>1 DEF DepositedDelta, BorrowedDelta
<1>3. \A e \in Events : ~IsTx(e) => DepositedDelta(e) = 0 /\ BorrowedDelta(e) = 0
  BY <1>1 DEF DepositedDelta, BorrowedDelta, IsTx, TxKinds, EventKinds
<1> QED BY <1>2, <1>3 DEF IsDelta, DepositedBy, BorrowedBy

LEMMA NetIsSum ==
    ASSUME NEW S
    PROVE  /\ Net(DepositedDelta, S) = SumFunctionOnSet(DepositedBy, S)
           /\ Net(BorrowedDelta, S) = SumFunctionOnSet(BorrowedBy, S)
BY DEF Net, DepositedBy, BorrowedBy

LEMMA EventsFinite ==
    ASSUME NEW S \in SUBSET Events
    PROVE  /\ IsFiniteSet(S) /\ S \in FiniteSubsetsOf(Int)
<1>1. IsFiniteSet(Events) /\ Events \subseteq Int
  BY IndexerAssumption
<1>2. IsFiniteSet(S)
  BY <1>1, FS_Subset
<1> QED BY <1>1, <1>2 DEF FiniteSubsetsOf

LEMMA DeltaSums ==
    ASSUME NEW delta, IsDelta(delta), NEW S \in SUBSET Events
    PROVE  SumFunctionOnSet(delta, S) \in Int
<1>1. \A e \in S : delta[e] \in Int
  BY DEF IsDelta
<1> QED BY <1>1, EventsFinite, SumTyped

\* A batch adds what its transactions add to a history that has none of them.
LEMMA BatchAdds ==
    ASSUME NEW delta, IsDelta(delta), NEW H \in SUBSET Events, NEW B \in SUBSET Events,
           \A e \in B : IsTx(e) => e \notin H
    PROVE  SumFunctionOnSet(delta, H \cup {e \in B : IsTx(e)})
               = SumFunctionOnSet(delta, H) + SumFunctionOnSet(delta, B)
<1> DEFINE N == {e \in B : IsTx(e)}
<1>1. IsFiniteSet(H) /\ IsFiniteSet(B) /\ IsFiniteSet(N) /\ N \in SUBSET B /\ H \cap N = {}
  BY EventsFinite
<1>2. /\ \A e \in H \cup N : delta[e] \in Int
      /\ \A e \in B \ N : delta[e] = 0
  BY DEF IsDelta
<1> HIDE DEF N
<1>3. SumFunctionOnSet(delta, B) = SumFunctionOnSet(delta, N)
  BY <1>1, <1>2, SumSkips
<1>4. SumFunctionOnSet(delta, H \cup N) = SumFunctionOnSet(delta, H) + SumFunctionOnSet(delta, N)
  BY <1>1, <1>2, SumJoins
<1> QED BY <1>3, <1>4 DEF N

\* Transactions without a gap before them add up to something.
LEMMA PrefixCovered ==
    ASSUME NEW delta, IsDelta(delta),
           \A n \in Nat : SumFunctionOnSet(delta, {e \in Events : e < n}) >= 0,
           NEW C \in SUBSET Events, NoGap(C, {}), \A e \in C : IsTx(e)
    PROVE  SumFunctionOnSet(delta, C) >= 0
<1>1. CASE C = {}
  <2>1. SumFunctionOnSet(delta, {}) = 0
    BY SumOverEmpty
  <2> QED BY <1>1, <2>1
<1>2. CASE C # {}
  <2>1. PICK m \in C : \A e \in C : e <= m
    BY <1>2, EventsFinite, TopIsGreatest
  <2> DEFINE P == {e \in Events : e < m + 1}
  <2>2. Events \subseteq Nat
    BY IndexerAssumption
  <2>3. m + 1 \in Nat /\ P \in SUBSET Events
    BY <2>1, <2>2
  <2>4. C \in SUBSET P /\ \A e \in P \ C : e \in Events /\ e < m
    <3>1. \A e \in C : e < m + 1
      BY <2>1, <2>2
    <3>2. ASSUME NEW e \in P, e # m PROVE e < m
      BY <2>1, <2>2, <3>2
    <3> QED BY <2>1, <3>1, <3>2
  <2>8. ASSUME NEW e \in P \ C PROVE delta[e] = 0
    <3>1. ~IsTx(e)
      BY <2>1, <2>4, <2>8 DEF NoGap
    <3> QED BY <2>4, <3>1 DEF IsDelta
  <2>5. \A e \in C : delta[e] \in Int
    BY DEF IsDelta
  <2>6. SumFunctionOnSet(delta, P) >= 0
    BY <2>3
  <2> HIDE DEF P
  <2>7. SumFunctionOnSet(delta, P) = SumFunctionOnSet(delta, C)
    BY <2>3, <2>4, <2>5, <2>8, EventsFinite, SumSkips
  <2> QED BY <2>6, <2>7
<1> QED BY <1>1, <1>2

-----------------------------------------------------------------------------
(* A batch applied event by event.                                            *)

LEMMA ApplyTyped ==
    ASSUME NEW pos \in Positions, NEW e \in Events
    PROVE  /\ ApplyPositionDelta(pos, e) \in Positions
           /\ ApplyPositionDelta(pos, e).deposited = Clamp(pos.deposited + DepositedBy[e])
           /\ ApplyPositionDelta(pos, e).borrowed = Clamp(pos.borrowed + BorrowedBy[e])
<1>1. DepositedBy[e] = DepositedDelta(e) /\ BorrowedBy[e] = BorrowedDelta(e)
  BY DEF DepositedBy, BorrowedBy
<1>2. DepositedBy[e] \in Int /\ BorrowedBy[e] \in Int
  BY DeltasTyped DEF IsDelta
<1>3. pos.deposited \in Nat /\ pos.borrowed \in Nat
  BY DEF Positions
<1> QED BY <1>1, <1>2, <1>3 DEF ApplyPositionDelta, Positions, Clamp

\* The positions a batch passes through.
Passes(g, pos, B) ==
    /\ g \in [SUBSET B -> Positions]
    /\ \A s \in SUBSET B :
          g[s] = IF s = {} THEN pos ELSE ApplyPositionDelta(g[s \ {Top(s)}], Top(s))

LEMMA BatchPasses ==
    ASSUME NEW pos \in Positions, NEW B \in SUBSET Events
    PROVE  \E g : Passes(g, pos, B) /\ InOrder(ApplyPositionDelta, pos, B) = g[B]
<1> DEFINE F == [x \in Positions \X B |-> ApplyPositionDelta(x[1], x[2])]
<1>1. F \in [Positions \X B -> Positions]
  <2>1. \A x \in Positions \X B : ApplyPositionDelta(x[1], x[2]) \in Positions
    BY ApplyTyped
  <2> QED BY <2>1
<1>2. \A p \in Positions, e \in B : F[<<p, e>>] = ApplyPositionDelta(p, e)
  OBVIOUS
<1> HIDE DEF F
<1>3. PICK h \in [SUBSET B -> Positions] : FoldsUp(h, F, pos, B)
  BY <1>1, EventsFinite, FoldExists
<1> DEFINE Is(g) == g = [s \in SUBSET B |-> IF s = {} THEN pos
                            ELSE LET x == Top(s) IN ApplyPositionDelta(g[s \ {x}], x)]
<1>4. \A s \in SUBSET B : s # {} => Top(s) \in s
  BY EventsFinite, TopIsGreatest
<1>5. Is(h)
  <2>1. ASSUME NEW s \in SUBSET B
        PROVE  h[s] = IF s = {} THEN pos ELSE ApplyPositionDelta(h[s \ {Top(s)}], Top(s))
    <3>1. h[s] = IF s = {} THEN pos ELSE F[<<h[s \ {Top(s)}], Top(s)>>]
      BY <1>3 DEF FoldsUp
    <3>2. s # {} => F[<<h[s \ {Top(s)}], Top(s)>>] = ApplyPositionDelta(h[s \ {Top(s)}], Top(s))
      BY <1>2, <1>3, <1>4
    <3> QED BY <3>1, <3>2
  <2> QED BY <2>1, <1>3
<1> DEFINE g == CHOOSE k : Is(k)
<1>6. Is(g)
  <2> HIDE DEF Is
  <2> QED BY <1>5
<1>7. InOrder(ApplyPositionDelta, pos, B) = g[B]
  BY DEF InOrder, MapThenFoldSet, Max, Top
<1> HIDE DEF g
<1>8. \A s \in SUBSET B : g[s] = IF s = {} THEN pos ELSE ApplyPositionDelta(g[s \ {Top(s)}], Top(s))
  BY <1>6
<1>9. \A s \in SUBSET B : g[s] = h[s]
  <2> DEFINE Bad == {s \in SUBSET B : g[s] # h[s]}
  <2> SUFFICES ASSUME Bad # {} PROVE FALSE
    OBVIOUS
  <2>1. PICK s \in Bad : \A t \in Bad : t \subseteq s => t = s
    <3>1. Bad \in SUBSET (SUBSET B) /\ IsFiniteSet(B)
      BY EventsFinite
    <3> HIDE DEF Bad
    <3> QED BY <3>1, SmallestSet
  <2>2. h[s] = IF s = {} THEN pos ELSE ApplyPositionDelta(h[s \ {Top(s)}], Top(s))
    BY <1>5
  <2>3. CASE s # {}
    <3>1. Top(s) \in s
      BY <1>4, <2>3
    <3>2. s \ {Top(s)} \notin Bad
      BY <2>1, <3>1
    <3>3. g[s \ {Top(s)}] = h[s \ {Top(s)}]
      BY <3>2
    <3> QED BY <1>8, <2>2, <2>3, <3>3
  <2>4. CASE s = {}
    BY <1>8, <2>2, <2>4
  <2> QED BY <2>3, <2>4
<1>10. g = [s \in SUBSET B |-> g[s]]
  BY <1>6
<1>11. g \in [SUBSET B -> Positions]
  BY <1>3, <1>9, <1>10
<1> QED BY <1>7, <1>8, <1>11 DEF Passes

\* Clamping leaves at least what the events add up to.
LEMMA AppliedAbove ==
    ASSUME NEW pos \in Positions, NEW B \in SUBSET Events, NEW g, Passes(g, pos, B)
    PROVE  /\ g[B].deposited >= pos.deposited + SumFunctionOnSet(DepositedBy, B)
           /\ g[B].borrowed >= pos.borrowed + SumFunctionOnSet(BorrowedBy, B)
<1> DEFINE Above(s) == /\ g[s].deposited >= pos.deposited + SumFunctionOnSet(DepositedBy, s)
                       /\ g[s].borrowed >= pos.borrowed + SumFunctionOnSet(BorrowedBy, s)
           Bad == {s \in SUBSET B : ~Above(s)}
<1> SUFFICES ASSUME Bad # {} PROVE FALSE
  OBVIOUS
<1> HIDE DEF Above
<1>1. PICK s \in Bad : \A t \in Bad : t \subseteq s => t = s
  <2>1. Bad \in SUBSET (SUBSET B) /\ IsFiniteSet(B)
    BY EventsFinite
  <2> HIDE DEF Bad
  <2> QED BY <2>1, SmallestSet
<1>2. pos.deposited \in Nat /\ pos.borrowed \in Nat
  BY DEF Positions
<1>3. CASE s = {}
  <2>1. SumFunctionOnSet(DepositedBy, {}) = 0 /\ SumFunctionOnSet(BorrowedBy, {}) = 0
    BY SumOverEmpty
  <2>2. g[s] = pos
    BY <1>3 DEF Passes
  <2> QED BY <1>2, <1>3, <2>1, <2>2 DEF Above
<1>4. CASE s # {}
  <2>1. PICK m \in s : m = Top(s)
    BY <1>4, EventsFinite, TopIsGreatest
  <2> DEFINE r == s \ {m}
  <2>2. r \in SUBSET B /\ r # s /\ r \subseteq s /\ m \in Events
    BY <2>1
  <2>3. Above(r)
    BY <1>1, <2>2
  <2>4. g[s] = ApplyPositionDelta(g[r], m) /\ g[r] \in Positions
    BY <1>4, <2>1, <2>2 DEF Passes
  <2>5. /\ SumFunctionOnSet(DepositedBy, s) = DepositedBy[m] + SumFunctionOnSet(DepositedBy, r)
        /\ SumFunctionOnSet(BorrowedBy, s) = BorrowedBy[m] + SumFunctionOnSet(BorrowedBy, r)
    <3>1. /\ \A e \in s : DepositedBy[e] \in Int /\ BorrowedBy[e] \in Int
          /\ IsFiniteSet(s)
      BY DeltasTyped, EventsFinite DEF IsDelta
    <3> QED BY <2>1, <3>1, SumTakesOut
  <2> DEFINE x == SumFunctionOnSet(DepositedBy, r)
             y == SumFunctionOnSet(BorrowedBy, r)
  <2>6. x \in Int /\ y \in Int /\ DepositedBy[m] \in Int /\ BorrowedBy[m] \in Int
    BY <2>2, DeltasTyped, DeltaSums DEF IsDelta
  <2>7. /\ g[s].deposited = Clamp(g[r].deposited + DepositedBy[m])
        /\ g[s].borrowed = Clamp(g[r].borrowed + BorrowedBy[m])
        /\ g[r].deposited \in Nat /\ g[r].borrowed \in Nat
    BY <2>2, <2>4, ApplyTyped DEF Positions
  <2>8. g[r].deposited >= pos.deposited + x /\ g[r].borrowed >= pos.borrowed + y
    BY <2>3 DEF Above
  <2> HIDE DEF r, x, y
  <2>9. \A n \in Int : Clamp(n) \in Nat /\ Clamp(n) >= n
    BY DEF Clamp
  <2>10. /\ g[s].deposited >= pos.deposited + (DepositedBy[m] + x)
         /\ g[s].borrowed >= pos.borrowed + (BorrowedBy[m] + y)
    BY <1>2, <2>6, <2>7, <2>8, <2>9
  <2>11. Above(s)
    BY <2>5, <2>10 DEF Above, x, y
  <2> QED BY <2>11
<1> QED BY <1>3, <1>4

\* It changes nothing where every prefix of the batch is covered.
LEMMA AppliedExactly ==
    ASSUME NEW pos \in Positions, NEW B \in SUBSET Events, NEW g, Passes(g, pos, B),
           \A s \in SUBSET B : (\A e \in s, d \in B : d < e => d \in s) =>
               /\ pos.deposited + SumFunctionOnSet(DepositedBy, s) >= 0
               /\ pos.borrowed + SumFunctionOnSet(BorrowedBy, s) >= 0
    PROVE  /\ g[B].deposited = pos.deposited + SumFunctionOnSet(DepositedBy, B)
           /\ g[B].borrowed = pos.borrowed + SumFunctionOnSet(BorrowedBy, B)
<1> DEFINE Prefix(s) == \A e \in s, d \in B : d < e => d \in s
           Exact(s) == /\ g[s].deposited = pos.deposited + SumFunctionOnSet(DepositedBy, s)
                       /\ g[s].borrowed = pos.borrowed + SumFunctionOnSet(BorrowedBy, s)
           Bad == {s \in SUBSET B : Prefix(s) /\ ~Exact(s)}
<1> SUFFICES ASSUME Bad # {} PROVE FALSE
  OBVIOUS
<1> HIDE DEF Exact
<1>1. PICK s \in Bad : \A t \in Bad : t \subseteq s => t = s
  <2>1. Bad \in SUBSET (SUBSET B) /\ IsFiniteSet(B)
    BY EventsFinite
  <2> HIDE DEF Bad
  <2> QED BY <2>1, SmallestSet
<1>2. pos.deposited \in Nat /\ pos.borrowed \in Nat
  BY DEF Positions
<1>3. CASE s = {}
  <2>1. SumFunctionOnSet(DepositedBy, {}) = 0 /\ SumFunctionOnSet(BorrowedBy, {}) = 0
    BY SumOverEmpty
  <2>2. g[s] = pos
    BY <1>3 DEF Passes
  <2> QED BY <1>2, <1>3, <2>1, <2>2 DEF Exact
<1>4. CASE s # {}
  <2>1. PICK m \in s : m = Top(s) /\ \A e \in s : e <= m
    BY <1>4, EventsFinite, TopIsGreatest
  <2> DEFINE r == s \ {m}
  <2>2. r \in SUBSET B /\ r # s /\ r \subseteq s /\ m \in Events
    BY <2>1
  <2>3. Exact(r)
    <3>1. ASSUME NEW e \in r, NEW d \in B, d < e PROVE d \in r
      <4>1. d \in s /\ e <= m /\ d \in Int /\ e \in Int /\ m \in Int
        BY <2>1, <3>1, IndexerAssumption
      <4> QED BY <3>1, <4>1
    <3> QED BY <1>1, <2>2, <3>1
  <2>4. g[s] = ApplyPositionDelta(g[r], m) /\ g[r] \in Positions
    BY <1>4, <2>1, <2>2 DEF Passes
  <2>5. /\ SumFunctionOnSet(DepositedBy, s) = DepositedBy[m] + SumFunctionOnSet(DepositedBy, r)
        /\ SumFunctionOnSet(BorrowedBy, s) = BorrowedBy[m] + SumFunctionOnSet(BorrowedBy, r)
    <3>1. /\ \A e \in s : DepositedBy[e] \in Int /\ BorrowedBy[e] \in Int
          /\ IsFiniteSet(s)
      BY DeltasTyped, EventsFinite DEF IsDelta
    <3> QED BY <2>1, <3>1, SumTakesOut
  <2> DEFINE x == SumFunctionOnSet(DepositedBy, r)
             y == SumFunctionOnSet(BorrowedBy, r)
  <2>6. x \in Int /\ y \in Int /\ DepositedBy[m] \in Int /\ BorrowedBy[m] \in Int
    BY <2>2, DeltasTyped, DeltaSums DEF IsDelta
  <2>7. /\ g[s].deposited = Clamp(g[r].deposited + DepositedBy[m])
        /\ g[s].borrowed = Clamp(g[r].borrowed + BorrowedBy[m])
    BY <2>2, <2>4, ApplyTyped
  <2>8. g[r].deposited = pos.deposited + x /\ g[r].borrowed = pos.borrowed + y
    BY <2>3 DEF Exact
  <2>9. /\ pos.deposited + (DepositedBy[m] + x) >= 0
        /\ pos.borrowed + (BorrowedBy[m] + y) >= 0
    <3>1. \A e \in s, d \in B : d < e => d \in s
      BY <1>1
    <3>2. /\ pos.deposited + SumFunctionOnSet(DepositedBy, s) >= 0
          /\ pos.borrowed + SumFunctionOnSet(BorrowedBy, s) >= 0
      BY <3>1
    <3> QED BY <2>5, <3>2
  <2> HIDE DEF r, x, y
  <2>10. \A n \in Int : n >= 0 => Clamp(n) = n
    BY DEF Clamp
  <2>11. /\ g[s].deposited = pos.deposited + (DepositedBy[m] + x)
         /\ g[s].borrowed = pos.borrowed + (BorrowedBy[m] + y)
    <3>1. /\ (pos.deposited + x) + DepositedBy[m] = pos.deposited + (DepositedBy[m] + x)
          /\ (pos.borrowed + y) + BorrowedBy[m] = pos.borrowed + (BorrowedBy[m] + y)
          /\ pos.deposited + (DepositedBy[m] + x) \in Int /\ pos.borrowed + (BorrowedBy[m] + y) \in Int
      BY <1>2, <2>6
    <3> QED BY <2>7, <2>8, <2>9, <2>10, <3>1
  <2>12. Exact(s)
    BY <2>5, <2>11 DEF Exact, x, y
  <2> QED BY <2>12
<1> QED BY <1>3, <1>4

-----------------------------------------------------------------------------
(* The steps.                                                                 *)

\* One worker moves on to q; history and position stay.
LEMMA HistoryStays ==
    ASSUME IndexInv, HistoryInv, UNCHANGED <<history, position>>,
           NEW w \in Workers, NEW q, Become(w, q), exposed => exposed',
           exposed' \/ (q.pc \in {"check", "commit"} => NoGap(q.batch, history))
    PROVE  HistoryInv'
<1>1. HistoryTypeOK' /\ Net(DepositedDelta, history)' = Net(DepositedDelta, history)
      /\ Net(BorrowedDelta, history)' = Net(BorrowedDelta, history)
  BY DEF HistoryInv, HistoryTypeOK, Net, IsTx
<1>2. CASE exposed'
  BY <1>1, <1>2 DEF HistoryInv
<1>3. CASE ~exposed'
  <2>1. ASSUME NEW v \in Workers, worker'[v].pc \in {"check", "commit"}
        PROVE  NoGap(worker'[v].batch, history')
    <3>1. worker'[v] = IF v = w THEN q ELSE worker[v]
      BY DEF IndexInv, IndexTypeOK, Become
    <3>2. CASE v = w
      BY <1>3, <2>1, <3>1, <3>2
    <3>3. CASE v # w
      BY <1>3, <2>1, <3>1, <3>3 DEF HistoryInv
    <3> QED BY <3>2, <3>3
  <2>2. \A v \in Workers : worker'[v].pc \in {"check", "commit"} => NoGap(worker[v].batch, history)'
    BY <2>1 DEF NoGap, IsTx
  <2>3. NoGap(history, {})'
    BY <1>3 DEF HistoryInv, NoGap, IsTx
  <2> QED BY <1>1, <1>3, <2>2, <2>3 DEF HistoryInv
<1> QED BY <1>2, <1>3

LEMMA StartsKeepHistory ==
    ASSUME IndexInv, HistoryInv,
           \/ PollStart \/ PollRead
           \/ \E full \in BOOLEAN, ask \in Replays : TriggerReplay(full, ask)
           \/ \E w \in {"replay", "forced"} : ReplayStep(w)
           \/ \E w \in Workers : RunFails(w)
    PROVE  HistoryInv'
<1>1. /\ UNCHANGED <<history, position>> /\ (exposed => exposed')
      /\ \E w \in Workers : \E q : Become(w, q) /\ q.pc \notin {"check", "commit"}
  <2>1. CASE PollStart
    <3>1. Become("poll", [pc |-> "read"])
      BY <2>1 DEF PollStart
    <3> QED BY <2>1, <3>1 DEF PollStart, db, Workers
  <2>2. CASE PollRead
    <3>1. \E q : Become("poll", q) /\ q.pc \in {"fetch", "off"}
      BY <2>2 DEF PollRead, Stop, Off
    <3> QED BY <2>2, <3>1 DEF PollRead, db, Workers
  <2>3. ASSUME NEW full \in BOOLEAN, NEW ask \in Replays, TriggerReplay(full, ask)
        PROVE  /\ UNCHANGED <<history, position>> /\ (exposed => exposed')
               /\ \E w \in Workers : \E q : Become(w, q) /\ q.pc \notin {"check", "commit"}
    <3> DEFINE q == [pc |-> IF full THEN "wipe" ELSE "start", from |-> ask.from, to |-> ask.to,
                     chunk |-> ask.chunk]
    <3>1. Become("replay", q) /\ q.pc \notin {"check", "commit"}
      BY <2>3 DEF TriggerReplay
    <3>2. UNCHANGED <<history, position, exposed>> /\ "replay" \in Workers
      BY <2>3 DEF TriggerReplay, db, Workers
    <3> HIDE DEF q
    <3> QED BY <3>1, <3>2
  <2>4. ASSUME NEW w \in {"replay", "forced"}, NEW head, StartReplay(w, head)
        PROVE  /\ UNCHANGED <<history, position>> /\ (exposed => exposed')
               /\ \E q : Become(w, q) /\ q.pc \notin {"check", "commit"}
    <3>1. UNCHANGED <<history, position>> /\ (exposed => exposed')
      BY <2>4 DEF StartReplay, db
    <3>2. PICK from, to : /\ from = worker[w].from
                          /\ to = IF worker[w].to # 0 THEN worker[w].to
                                  ELSE IF head > 0 THEN head ELSE from
      OBVIOUS
    <3> DEFINE q == [pc |-> "fetch", next |-> from, end |-> to, chunk |-> worker[w].chunk]
    <3>3. Become(w, Off) \/ Become(w, q)
      BY <2>4, <3>2 DEF StartReplay
    <3>4. Off.pc = "off" /\ q.pc = "fetch"
      BY DEF Off
    <3> HIDE DEF q
    <3> QED BY <3>1, <3>3, <3>4
  <2>5. ASSUME NEW w \in Workers, RunFails(w)
        PROVE  /\ UNCHANGED <<history, position>> /\ (exposed => exposed')
               /\ \E q : Become(w, q) /\ q.pc \notin {"check", "commit"}
    <3>1. UNCHANGED <<history, position, exposed>> /\ Become(w, Off)
      BY <2>5 DEF RunFails, Stop, db
    <3> QED BY <3>1 DEF Off
  <2>6. {"replay", "forced"} \subseteq Workers
    BY DEF Workers
  <2> QED BY <2>1, <2>2, <2>3, <2>4, <2>5, <2>6 DEF ReplayStep
<1> QED BY <1>1, HistoryStays

LEMMA ForceClearsHistory ==
    ASSUME IndexInv, IndexInv', HistoryInv, ForceReplay
    PROVE  HistoryInv'
<1>1. /\ history' = {} /\ position' = [deposited |-> 0, borrowed |-> 0]
      /\ exposed' = (exposed \/ worker["poll"].pc \notin {"off", "read"})
  BY DEF ForceReplay, ResetDatabase
<1>2. position' \in Positions /\ HistoryTypeOK'
  BY <1>1 DEF Positions, HistoryTypeOK
<1>3. Net(DepositedDelta, history)' = 0 /\ Net(BorrowedDelta, history)' = 0
  <2>1. SumFunctionOnSet(DepositedBy, {}) = 0 /\ SumFunctionOnSet(BorrowedBy, {}) = 0
    BY SumOverEmpty
  <2>2. /\ Net(DepositedDelta, history)' = SumFunctionOnSet(DepositedBy, history')
        /\ Net(BorrowedDelta, history)' = SumFunctionOnSet(BorrowedBy, history')
    BY DEF Net, DepositedBy, BorrowedBy, DepositedDelta, BorrowedDelta
  <2> QED BY <1>1, <2>1, <2>2
<1>4. ASSUME ~exposed', NEW v \in Workers PROVE worker'[v].pc \notin {"check", "commit"}
  <2>1. worker \in [Workers -> WorkerStates] /\ worker["replay"].pc = "wipe"
    BY DEF IndexInv, IndexTypeOK, ForceReplay
  <2>2. worker["replay"] \in WorkerStates
    BY <2>1 DEF Workers
  <2>3. PICK from \in Nat, to \in Nat, chunk \in Chunks :
           worker["replay"] = [pc |-> "wipe", from |-> from, to |-> to, chunk |-> chunk]
    BY <2>1, <2>2, WorkerCarries
  <2> DEFINE r == [pc |-> "start", from |-> from, to |-> to, chunk |-> chunk]
             f == [pc |-> "start", from |-> StartLedger, to |-> 0, chunk |-> DefaultChunk]
  <2>4. [worker["replay"] EXCEPT !.pc = "start"] = r
    BY <2>3
  <2>5. worker' = [worker EXCEPT !["replay"] = [worker["replay"] EXCEPT !.pc = "start"], !["forced"] = f]
    BY <2>1 DEF ForceReplay, Workers
  <2>6. r.pc = "start" /\ f.pc = "start"
    OBVIOUS
  <2> HIDE DEF r, f
  <2>7. v = "poll" => worker'[v].pc \in {"off", "read"}
    BY <1>1, <1>4, <2>1, <2>5 DEF Workers
  <2>8. v # "poll" => worker'[v].pc = "start"
    BY <2>1, <2>4, <2>5, <2>6 DEF Workers
  <2> QED BY <2>7, <2>8
<1>5. NoGap(history, {})'
  BY <1>1 DEF NoGap
<1> QED BY <1>1, <1>2, <1>3, <1>4, <1>5 DEF HistoryInv

\* What a fetch returns has no gap above what is indexed.
LEMMA FetchLeavesNoGap ==
    ASSUME IndexInv, HistoryInv, NEW w \in Workers, NEW pages \in Nat, FetchAndParse(w, pages)
    PROVE  HistoryInv'
<1>0. IndexTypeOK /\ worker[w] \in WorkerStates /\ worker[w].pc = "fetch" /\ latest \in Nat
  BY DEF IndexInv, IndexTypeOK, FetchAndParse
<1>1. PICK next, to, read, n :
         /\ next = worker[w].next /\ to = Min2(ChunkEnd(w), latest)
         /\ n = pages * PageSize /\ read = FirstOf(Listed(w), n)
  OBVIOUS
<1>2. next \in Nat /\ to \in Int
  <2>1. next \in Nat /\ worker[w].end \in Nat /\ worker[w].chunk \in Nat
    BY <1>0, <1>1, WorkerCarries DEF Walking, Chunks
  <2> QED BY <1>0, <1>1, <2>1 DEF ChunkEnd, Min2
<1> DEFINE q == Holding(w, "check", Parsed(read))
<1>3. Become(w, q) /\ UNCHANGED <<history, position>> /\ (exposed => exposed')
  BY <1>1 DEF FetchAndParse, db
<1>4. q.batch = Parsed(read)
  BY DEF Holding
<1>5. exposed \/ NoGap(Parsed(read), history)
  <2>1. SUFFICES ASSUME ~exposed, NEW e \in Parsed(read), NEW d \in Events,
                        IsTx(e), IsTx(d), d < e, d \notin history
                 PROVE  d \in Parsed(read)
    BY DEF NoGap
  <2>2. e \in Events /\ e \in read /\ e \in Listed(w)
    BY <1>1 DEF Parsed, FirstOf, Listed, ChunkEvents
  <2>3. Ledger[d] \in Nat /\ Ledger[e] \in Nat /\ Ledger[d] <= Ledger[e]
    BY <2>1, <2>2, EventsTyped, IndexerAssumption
  <2>4. Ledger[d] >= next
    <3>1. TxEvents(next - 1) \subseteq history
      BY <1>0, <1>1, <2>1 DEF IndexInv, NothingLost, WorkerHolds, Walking
    <3>2. ~(Ledger[d] <= next - 1)
      BY <2>1, <3>1 DEF TxEvents, IsTx
    <3> QED BY <1>2, <2>3, <3>2
  <2>5. d \in Listed(w)
    <3>1. \/ Listed(w) = {x \in Events : Ledger[x] \in next .. to}
          \/ Listed(w) = {x \in Events : Ledger[x] \in next .. latest}
      BY <1>1 DEF Listed, ChunkEvents
    <3>2. ASSUME NEW top \in Int, Ledger[e] \in next .. top PROVE Ledger[d] \in next .. top
      BY <1>2, <2>3, <2>4, <3>2
    <3> QED BY <1>0, <1>2, <2>2, <3>1, <3>2
  <2>6. d \in read
    <3> DEFINE D == {x \in Listed(w) : x < d}
               E == {x \in Listed(w) : x < e}
    <3>1. /\ Events \subseteq Nat /\ Listed(w) \subseteq Events
      BY IndexerAssumption DEF Listed, ChunkEvents
    <3>2. \A x \in Listed(w) : x < d => x < e
      BY <2>1, <2>2, <3>1
    <3>3. D \subseteq E /\ E \in SUBSET Events
      BY <3>1, <3>2
    <3>4. IsFiniteSet(E) /\ Cardinality(D) <= Cardinality(E) /\ Cardinality(D) \in Nat /\ Cardinality(E) \in Nat
      <4>1. IsFiniteSet(E)
        BY <3>3, EventsFinite
      <4> HIDE DEF D, E
      <4>2. IsFiniteSet(D) /\ Cardinality(D) <= Cardinality(E)
        BY <3>3, <4>1, FS_Subset
      <4> QED BY <4>1, <4>2, FS_CardinalityType
    <3>5. Cardinality(E) < n
      BY <1>1, <2>2 DEF FirstOf
    <3>6. n \in Nat
      BY <1>1, IndexerAssumption
    <3>7. Cardinality(D) < n
      <4> HIDE DEF D, E
      <4> QED BY <3>4, <3>5, <3>6
    <3> QED BY <1>1, <2>5, <3>7 DEF FirstOf
  <2> QED BY <2>1, <2>6 DEF Parsed, IsTx, TxKinds
<1> HIDE DEF q
<1>6. exposed' \/ (q.pc \in {"check", "commit"} => NoGap(q.batch, history))
  BY <1>3, <1>4, <1>5
<1> QED BY <1>3, <1>6, HistoryStays

LEMMA CheckLeavesNoGap ==
    ASSUME IndexInv, HistoryInv, NEW w \in Workers, CheckDuplicates(w)
    PROVE  HistoryInv'
<1> DEFINE left == {e \in worker[w].batch : ~IsDuplicate(e)}
           q == Holding(w, "commit", left)
<1>1. Become(w, q) /\ UNCHANGED <<history, position, exposed>> /\ worker[w].pc = "check"
  BY DEF CheckDuplicates, db
<1>2. q.batch = left
  BY DEF Holding
<1>3. exposed \/ NoGap(left, history)
  <2>1. SUFFICES ASSUME ~exposed, NEW e \in left, NEW d \in Events,
                        IsTx(e), IsTx(d), d < e, d \notin history
                 PROVE  d \in left
    BY DEF NoGap
  <2>2. NoGap(worker[w].batch, history) /\ DedupHolds
    BY <1>1, <2>1 DEF HistoryInv, IndexInv, NothingLost
  <2>3. d \in worker[w].batch
    BY <2>1, <2>2 DEF NoGap
  <2>4. ~IsDuplicate(d)
    BY <2>1, <2>2 DEF IsDuplicate, DedupHolds, IsTx
  <2> QED BY <2>3, <2>4
<1> HIDE DEF q, left
<1>4. exposed' \/ (q.pc \in {"check", "commit"} => NoGap(q.batch, history))
  BY <1>1, <1>2, <1>3
<1> QED BY <1>1, <1>4, HistoryStays

\* A batch without a gap is never clamped, and leaves no gap.
LEMMA CommitLeavesNoGap ==
    ASSUME IndexInv, HistoryInv, NeverOverdrawn, NEW w \in Workers, CommitChunk(w)
    PROVE  HistoryInv'
<1>1. PICK B : B = worker[w].batch
  OBVIOUS
<1> DEFINE H == history
           N == {e \in B : IsTx(e)}
<1>2. /\ B \in SUBSET Events /\ H \in SUBSET Events /\ worker[w].pc = "commit"
      /\ worker \in [Workers -> WorkerStates] /\ exposed \in BOOLEAN
  BY <1>1, WorkerCarries DEF IndexInv, IndexTypeOK, CommitChunk
<1>3. /\ history' = H \cup N /\ exposed' = exposed
      /\ position' = InOrder(ApplyPositionDelta, position, B)
      /\ \A e \in B : IsTx(e) => e \notin H
  BY <1>1 DEF CommitChunk, Conflict, IsTx
<1>4. \E q : Become(w, q) /\ q.pc \in {"fetch", "off"}
  <2> DEFINE q == [pc |-> "fetch", next |-> ChunkEnd(w) + 1, end |-> worker[w].end,
                   chunk |-> worker[w].chunk]
  <2>1. Become(w, q) \/ Become(w, Off)
    BY DEF CommitChunk, Stop
  <2>2. q.pc = "fetch" /\ Off.pc = "off"
    BY DEF Off
  <2> HIDE DEF q
  <2> QED BY <2>1, <2>2
<1>5. PICK g : Passes(g, position, B) /\ position' = g[B]
  BY <1>2, <1>3, BatchPasses DEF HistoryInv, HistoryTypeOK
<1>6. position' \in Positions /\ position \in Positions
  BY <1>5 DEF Passes, HistoryInv, HistoryTypeOK
<1>7. HistoryTypeOK'
  <2>1. \A e \in H \cup N : IsTx(e)
    BY DEF HistoryInv, HistoryTypeOK
  <2> QED BY <1>3, <1>6, <2>1 DEF HistoryTypeOK, IsTx
<1>8. /\ Net(DepositedDelta, history)' = SumFunctionOnSet(DepositedBy, H) + SumFunctionOnSet(DepositedBy, B)
      /\ Net(BorrowedDelta, history)' = SumFunctionOnSet(BorrowedBy, H) + SumFunctionOnSet(BorrowedBy, B)
  <2>1. /\ Net(DepositedDelta, history)' = SumFunctionOnSet(DepositedBy, history')
        /\ Net(BorrowedDelta, history)' = SumFunctionOnSet(BorrowedBy, history')
    BY DEF Net, DepositedBy, BorrowedBy, DepositedDelta, BorrowedDelta
  <2>2. /\ SumFunctionOnSet(DepositedBy, H \cup N)
               = SumFunctionOnSet(DepositedBy, H) + SumFunctionOnSet(DepositedBy, B)
        /\ SumFunctionOnSet(BorrowedBy, H \cup N)
               = SumFunctionOnSet(BorrowedBy, H) + SumFunctionOnSet(BorrowedBy, B)
    BY <1>2, <1>3, DeltasTyped, BatchAdds
  <2> QED BY <1>3, <2>1, <2>2
<1>9. /\ position.deposited \in Nat /\ position.borrowed \in Nat
      /\ position'.deposited \in Nat /\ position'.borrowed \in Nat
      /\ SumFunctionOnSet(DepositedBy, H) \in Int /\ SumFunctionOnSet(DepositedBy, B) \in Int
      /\ SumFunctionOnSet(BorrowedBy, H) \in Int /\ SumFunctionOnSet(BorrowedBy, B) \in Int
  BY <1>2, <1>6, DeltasTyped, DeltaSums DEF Positions
<1>10. /\ position'.deposited >= Net(DepositedDelta, history)'
       /\ position'.borrowed >= Net(BorrowedDelta, history)'
  <2>1. /\ position'.deposited >= position.deposited + SumFunctionOnSet(DepositedBy, B)
        /\ position'.borrowed >= position.borrowed + SumFunctionOnSet(BorrowedBy, B)
    BY <1>2, <1>5, <1>6, AppliedAbove
  <2>2. /\ position.deposited >= SumFunctionOnSet(DepositedBy, H)
        /\ position.borrowed >= SumFunctionOnSet(BorrowedBy, H)
    BY NetIsSum DEF HistoryInv
  <2>3. \A p, q, x, y \in Int : p >= x /\ q >= p + y => q >= x + y
    OBVIOUS
  <2> HIDE DEF H
  <2> QED BY <1>8, <1>9, <2>1, <2>2, <2>3
<1>11. CASE exposed
  BY <1>3, <1>7, <1>10, <1>11 DEF HistoryInv
<1>12. CASE ~exposed
  <2>1. /\ position.deposited = SumFunctionOnSet(DepositedBy, H)
        /\ position.borrowed = SumFunctionOnSet(BorrowedBy, H)
        /\ NoGap(H, {}) /\ NoGap(B, H)
    BY <1>1, <1>2, <1>12, NetIsSum DEF HistoryInv
  <2>2. ASSUME NEW s \in SUBSET B, \A e \in s, d \in B : d < e => d \in s
        PROVE  /\ position.deposited + SumFunctionOnSet(DepositedBy, s) >= 0
               /\ position.borrowed + SumFunctionOnSet(BorrowedBy, s) >= 0
    <3> DEFINE C == H \cup {e \in s : IsTx(e)}
    <3>1. C \in SUBSET Events /\ s \in SUBSET Events /\ \A e \in s : IsTx(e) => e \notin H
      BY <1>2, <1>3
    <3>2. \A e \in C : IsTx(e)
      BY DEF HistoryInv, HistoryTypeOK
    <3>3. NoGap(C, {})
      <4>1. SUFFICES ASSUME NEW e \in C, NEW d \in Events, IsTx(e), IsTx(d), d < e PROVE d \in C
        BY DEF NoGap
      <4>2. CASE e \in H
        BY <2>1, <4>1, <4>2 DEF NoGap
      <4>3. CASE e \in s
        <5>1. d \in H \cup B
          BY <2>1, <4>1, <4>3 DEF NoGap
        <5> QED BY <2>2, <4>1, <4>3, <5>1
      <4> QED BY <4>1, <4>2, <4>3
    <3>4. /\ \A n \in Nat : SumFunctionOnSet(DepositedBy, {e \in Events : e < n}) >= 0
          /\ \A n \in Nat : SumFunctionOnSet(BorrowedBy, {e \in Events : e < n}) >= 0
      BY NetIsSum DEF NeverOverdrawn
    <3>5. /\ SumFunctionOnSet(DepositedBy, C) = SumFunctionOnSet(DepositedBy, H) + SumFunctionOnSet(DepositedBy, s)
          /\ SumFunctionOnSet(BorrowedBy, C) = SumFunctionOnSet(BorrowedBy, H) + SumFunctionOnSet(BorrowedBy, s)
      BY <1>2, <3>1, DeltasTyped, BatchAdds
    <3> HIDE DEF C
    <3>6. SumFunctionOnSet(DepositedBy, C) >= 0 /\ SumFunctionOnSet(BorrowedBy, C) >= 0
      BY <3>1, <3>2, <3>3, <3>4, DeltasTyped, PrefixCovered
    <3> QED BY <2>1, <3>5, <3>6
  <2>3. /\ position'.deposited = position.deposited + SumFunctionOnSet(DepositedBy, B)
        /\ position'.borrowed = position.borrowed + SumFunctionOnSet(BorrowedBy, B)
    BY <1>2, <1>5, <1>6, <2>2, AppliedExactly
  <2>4. /\ position'.deposited = Net(DepositedDelta, history)'
        /\ position'.borrowed = Net(BorrowedDelta, history)'
    BY <1>8, <2>1, <2>3
  <2>5. NoGap(H \cup N, {})
    <3>1. SUFFICES ASSUME NEW e \in H \cup N, NEW d \in Events, IsTx(e), IsTx(d), d < e
                   PROVE  d \in H \cup N
      BY DEF NoGap
    <3>2. d \in H \cup B
      BY <2>1, <3>1 DEF NoGap
    <3> QED BY <3>1, <3>2
  <2>6. ASSUME NEW v \in Workers, worker'[v].pc \in {"check", "commit"}
        PROVE  NoGap(worker'[v].batch, H \cup N)
    <3>1. v # w /\ worker'[v] = worker[v]
      BY <1>2, <1>4, <2>6 DEF Become
    <3>2. NoGap(worker[v].batch, H)
      BY <1>12, <2>6, <3>1 DEF HistoryInv
    <3> QED BY <3>1, <3>2 DEF NoGap
  <2>7. /\ NoGap(history, {})'
        /\ \A v \in Workers : (worker[v].pc \in {"check", "commit"} => NoGap(worker[v].batch, history))'
    BY <1>3, <2>5, <2>6 DEF NoGap, IsTx
  <2> QED BY <1>3, <1>7, <1>10, <2>4, <2>7 DEF HistoryInv
<1> QED BY <1>2, <1>11, <1>12

LEMMA HistoryInvariant == NeverOverdrawn => (IndexerSpec => [](IndexInv /\ HistoryInv))
<1> SUFFICES ASSUME NeverOverdrawn PROVE IndexerSpec => [](IndexInv /\ HistoryInv)
  OBVIOUS
<1>1. IndexerInit => HistoryInv
  <2> SUFFICES ASSUME IndexerInit PROVE HistoryInv
    OBVIOUS
  <2>1. position = [deposited |-> 0, borrowed |-> 0] /\ history = {} /\ \A w \in Workers : worker[w].pc = "off"
    BY DEF IndexerInit, Off
  <2>2. SumFunctionOnSet(DepositedBy, {}) = 0 /\ SumFunctionOnSet(BorrowedBy, {}) = 0
    BY SumOverEmpty
  <2>3. Net(DepositedDelta, history) = 0 /\ Net(BorrowedDelta, history) = 0
    BY <2>1, <2>2, NetIsSum
  <2> QED BY <2>1, <2>3 DEF HistoryInv, HistoryTypeOK, Positions, NoGap
<1>2. IndexInv /\ IndexInv' /\ HistoryInv /\ [IndexerNext]_vars => HistoryInv'
  <2> SUFFICES ASSUME IndexInv, IndexInv', HistoryInv, [IndexerNext]_vars PROVE HistoryInv'
    OBVIOUS
  <2>1. CASE CloseLedger \/ ExpireDedup \/ UNCHANGED vars
    <3>1. UNCHANGED <<history, position, worker, exposed>>
      BY <2>1 DEF CloseLedger, ExpireDedup, vars, db
    <3> QED BY <3>1 DEF HistoryInv, HistoryTypeOK, Net, NoGap, IsTx
  <2>2. CASE Crash
    <3>1. UNCHANGED <<history, position, exposed>> /\ \A w \in Workers : worker'[w].pc = "off"
      BY <2>2 DEF Crash, db, Off
    <3> QED BY <3>1 DEF HistoryInv, HistoryTypeOK, Net, NoGap, IsTx
  <2>3. ASSUME NEW w \in Workers, Step(w) PROVE HistoryInv'
    <3>1. ASSUME NEW pages \in 0 .. Cardinality(Events), FetchAndParse(w, pages) PROVE HistoryInv'
      <4>1. pages \in Nat
        OBVIOUS
      <4> QED BY <3>1, <4>1, FetchLeavesNoGap
    <3>2. CASE RunFails(w)
      BY <3>2, StartsKeepHistory
    <3> QED BY <2>3, <3>1, <3>2, CheckLeavesNoGap, CommitLeavesNoGap DEF Step
  <2>4. CASE ForceReplay
    BY <2>4, ForceClearsHistory
  <2>5. CASE \/ PollStart \/ PollRead
             \/ \E full \in BOOLEAN, ask \in Replays : TriggerReplay(full, ask)
             \/ \E w \in {"replay", "forced"} : ReplayStep(w)
    BY <2>5, StartsKeepHistory
  <2> QED BY <2>1, <2>2, <2>3, <2>4, <2>5 DEF IndexerNext
<1>3. IndexerSpec => [][IndexerNext]_vars /\ IndexerInit
  BY DEF IndexerSpec
<1> QED BY <1>1, <1>2, <1>3, IndexInvariant, PTL

\* A position is what its history rows add up to, however polls, replays,
\* wipes, duplicates and restarts follow each other: exactly, unless one of
\* the named causes of loss occurred, and never less (indexer.repository.ts).
\* That no user is overdrawn at any point of the chain is needed: the code
\* clamps a position at zero where the contract would have added interest.
THEOREM PositionsMatchHistory == NeverOverdrawn => (IndexerSpec => []PositionMatchesHistory)
<1> SUFFICES ASSUME NeverOverdrawn PROVE IndexerSpec => []PositionMatchesHistory
  OBVIOUS
<1>1. HistoryInv => PositionMatchesHistory
  BY DEF HistoryInv, PositionMatchesHistory
<1> QED BY <1>1, HistoryInvariant, PTL
=============================================================================
