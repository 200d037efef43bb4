------------------------- MODULE LendingPoolTotals --------------------------
(***************************************************************************)
(* The sums of LendingPool, for any number of users and assets.            *)
(*                                                                         *)
(* Over users: the totals against the positions, while no interest is      *)
(* charged.  Such a sum is the number of units its users hold, a set that  *)
(* one user's units join and leave at a time: no induction over users is   *)
(* needed.  That the set stays finite is part of the invariant, so nothing *)
(* is assumed of the number of users.                                      *)
(*                                                                         *)
(* Over assets: what a user's weighted deposits cover, at any rates.  A    *)
(* call that adds to a debt leaves it covered, and a liquidation takes     *)
(* less cover than it repays.                                              *)
(*                                                                         *)
(* Both rest on one description of what a call does, single or batched.    *)
(*                                                                         *)
(* Over users and assets: the rewards users earn, against the speeds that  *)
(* pay for them, and over a user's grants, what is left to be paid.  Here  *)
(* User and Asset are finite.                                              *)
(***************************************************************************)
EXTENDS LendingPoolProofs, Rewards, FiniteSetTheorems

\* Every interest model that may be set charges nothing, as DEFAULT_PARAMS does.
NoInterest ==
    \A r \in RateChoices :
        r.base_rate_bps = 0 /\ r.slope1_bps = 0 /\ r.slope2_bps = 0

\* Nobody liquidates a debt against collateral in the same asset; with such a
\* call the totals do fall apart.
CrossLiquidation == \A pair \in LiquidationPairs : pair[1] # pair[2]

-----------------------------------------------------------------------------
(* Sums.                                                                   *)

\* Rewriting one user's balance changes the sum by the difference.
LEMMA SumChanges ==
    ASSUME NEW f \in [User -> Nat], IsFiniteSet(UnitsHeld(f)),
           NEW u \in User, NEW n \in Nat
    PROVE  /\ IsFiniteSet(UnitsHeld([f EXCEPT ![u] = n]))
           /\ SumOf(f) \in Nat
           /\ SumOf([f EXCEPT ![u] = n]) = SumOf(f) + n - f[u]
<1> DEFINE g == [f EXCEPT ![u] = n]
           Mine(k) == {u} \X (1 .. k)
           Others == UNION {{v} \X (1 .. f[v]) : v \in User \ {u}}
<1>1. UnitsHeld(f) = Others \cup Mine(f[u])
  BY DEF UnitsHeld
<1>2. UnitsHeld(g) = Others \cup Mine(n)
  <2>1. g[u] = n /\ \A v \in User \ {u} : g[v] = f[v]
    OBVIOUS
  <2> HIDE DEF g
  <2>2. UnitsHeld(g) \subseteq Others \cup Mine(n)
    BY <2>1 DEF UnitsHeld
  <2>3. Others \cup Mine(n) \subseteq UnitsHeld(g)
    BY <2>1 DEF UnitsHeld
  <2> QED BY <2>2, <2>3
<1>3. ASSUME NEW k \in Nat
      PROVE  /\ IsFiniteSet(Mine(k)) /\ Cardinality(Mine(k)) = k
             /\ Others \cap Mine(k) = {}
  <2>1. IsFiniteSet({u}) /\ Cardinality({u}) = 1
    BY FS_Singleton
  <2>2. IsFiniteSet(1 .. k) /\ Cardinality(1 .. k) = k
    BY FS_Interval
  <2>3. IsFiniteSet(Mine(k)) /\ Cardinality(Mine(k)) = 1 * k
    <3> DEFINE A == {u}
               B == 1 .. k
    <3> HIDE DEF A, B
    <3>1. IsFiniteSet(A \X B) /\ Cardinality(A \X B) = Cardinality(A) * Cardinality(B)
      BY <2>1, <2>2, FS_Product DEF A, B
    <3> QED BY <2>1, <2>2, <3>1 DEF A, B
  <2>4. Others \cap Mine(k) = {}
    OBVIOUS
  <2> QED BY <2>3, <2>4
<1>4. f[u] \in Nat
  OBVIOUS
<1>5. IsFiniteSet(Others)
  BY <1>1, FS_Subset
<1>6. Cardinality(Others) \in Nat
  BY <1>5, FS_CardinalityType
<1> HIDE DEF Others, Mine, g
<1>7. Cardinality({}) = 0
  BY FS_EmptySet
<1>8. ASSUME NEW k \in Nat
      PROVE  /\ IsFiniteSet(Others \cup Mine(k))
             /\ Cardinality(Others \cup Mine(k)) = Cardinality(Others) + k
  <2>1. Cardinality(Others \cup Mine(k))
          = Cardinality(Others) + Cardinality(Mine(k)) - Cardinality(Others \cap Mine(k))
    BY <1>3, <1>5, FS_Union
  <2>2. IsFiniteSet(Others \cup Mine(k))
    BY <1>3, <1>5, FS_Union
  <2>3. Others \cap Mine(k) = {} /\ Cardinality(Mine(k)) = k
    BY <1>3
  <2>4. Cardinality(Others \cap Mine(k)) = 0
    BY <1>7, <2>3
  <2> QED BY <1>6, <2>1, <2>2, <2>3, <2>4
<1>9. SumOf(f) = Cardinality(Others) + f[u] /\ SumOf(g) = Cardinality(Others) + n
  <2>1. Cardinality(UnitsHeld(f)) = Cardinality(Others) + f[u]
    BY <1>1, <1>4, <1>8
  <2>2. Cardinality(UnitsHeld(g)) = Cardinality(Others) + n
    BY <1>2, <1>8
  <2> QED BY <2>1, <2>2 DEF SumOf
<1>10. IsFiniteSet(UnitsHeld(g))
  BY <1>2, <1>8
<1> QED BY <1>4, <1>6, <1>9, <1>10 DEF g

\* Nobody holds anything of what sums up to nothing.
LEMMA EmptySum ==
    ASSUME NEW f \in [User -> Nat], IsFiniteSet(UnitsHeld(f)), SumOf(f) = 0,
           NEW u \in User
    PROVE  f[u] = 0
<1>1. UnitsHeld(f) = {}
  BY FS_EmptySet DEF SumOf
<1>2. CASE f[u] # 0
  <2>1. 1 \in 1 .. f[u]
    BY <1>2
  <2>2. <<u, 1>> \in UnitsHeld(f)
    BY <2>1 DEF UnitsHeld
  <2> QED BY <1>1, <2>2
<1> QED BY <1>2

\* What users hold of each asset sums up to dep and bor.
Sums(pos, dep, bor) ==
    \A a \in Asset :
        LET D == [u \in User |-> pos[u][a].deposited]
            B == [u \in User |-> pos[u][a].borrowed]
        IN  /\ IsFiniteSet(UnitsHeld(D)) /\ dep[a] = SumOf(D)
            /\ IsFiniteSet(UnitsHeld(B)) /\ bor[a] = SumOf(B)

\* write_position and the matching changes of the two totals.
LEMMA RewrittenSums ==
    ASSUME NEW pos \in [User -> [Asset -> PositionType]],
           NEW dep \in [Asset -> Int], NEW bor \in [Asset -> Int],
           Sums(pos, dep, bor),
           NEW u \in User, NEW a \in Asset, NEW p \in PositionType
    PROVE  Sums([pos EXCEPT ![u][a] = Stored(p)],
                [dep EXCEPT ![a] = @ + p.deposited - pos[u][a].deposited],
                [bor EXCEPT ![a] = @ + p.borrowed - pos[u][a].borrowed])
<1> DEFINE q == Stored(p)
           new == [pos EXCEPT ![u][a] = q]
           D(f, e) == [v \in User |-> f[v][e].deposited]
           B(f, e) == [v \in User |-> f[v][e].borrowed]
<1>1. /\ q.deposited = p.deposited /\ q.borrowed = p.borrowed
      /\ p.deposited \in Nat /\ p.borrowed \in Nat
  BY DEF Stored, EmptyPosition, PositionType
<1> HIDE DEF q
<1>2. \A e \in Asset : /\ D(pos, e) \in [User -> Nat]
                       /\ B(pos, e) \in [User -> Nat]
  BY DEF PositionType
<1>3. \A v \in User, e \in Asset :
         new[v][e] = IF v = u /\ e = a THEN q ELSE pos[v][e]
  OBVIOUS
<1>4. /\ D(new, a) = [D(pos, a) EXCEPT ![u] = p.deposited]
      /\ B(new, a) = [B(pos, a) EXCEPT ![u] = p.borrowed]
  BY <1>1, <1>3
<1>5. \A e \in Asset \ {a} : D(new, e) = D(pos, e) /\ B(new, e) = B(pos, e)
  BY <1>3
<1>6. \A e \in Asset : /\ IsFiniteSet(UnitsHeld(D(pos, e))) /\ dep[e] = SumOf(D(pos, e))
                       /\ IsFiniteSet(UnitsHeld(B(pos, e))) /\ bor[e] = SumOf(B(pos, e))
  BY DEF Sums
<1>7. D(pos, a)[u] = pos[u][a].deposited /\ B(pos, a)[u] = pos[u][a].borrowed
  OBVIOUS
<1> HIDE DEF D, B, new
<1>8. /\ IsFiniteSet(UnitsHeld(D(new, a)))
      /\ SumOf(D(new, a)) = dep[a] + p.deposited - pos[u][a].deposited
  <2> DEFINE f == D(pos, a)
  <2>1. f \in [User -> Nat] /\ IsFiniteSet(UnitsHeld(f)) /\ p.deposited \in Nat
    BY <1>1, <1>2, <1>6
  <2>2. f[u] = pos[u][a].deposited /\ SumOf(f) = dep[a]
    BY <1>6, <1>7
  <2>3. D(new, a) = [f EXCEPT ![u] = p.deposited]
    BY <1>4
  <2> HIDE DEF f
  <2>4. /\ IsFiniteSet(UnitsHeld([f EXCEPT ![u] = p.deposited]))
        /\ SumOf([f EXCEPT ![u] = p.deposited]) = SumOf(f) + p.deposited - f[u]
    BY <2>1, SumChanges
  <2> QED BY <2>2, <2>3, <2>4
<1>9. /\ IsFiniteSet(UnitsHeld(B(new, a)))
      /\ SumOf(B(new, a)) = bor[a] + p.borrowed - pos[u][a].borrowed
  <2> DEFINE f == B(pos, a)
  <2>1. f \in [User -> Nat] /\ IsFiniteSet(UnitsHeld(f)) /\ p.borrowed \in Nat
    BY <1>1, <1>2, <1>6
  <2>2. f[u] = pos[u][a].borrowed /\ SumOf(f) = bor[a]
    BY <1>6, <1>7
  <2>3. B(new, a) = [f EXCEPT ![u] = p.borrowed]
    BY <1>4
  <2> HIDE DEF f
  <2>4. /\ IsFiniteSet(UnitsHeld([f EXCEPT ![u] = p.borrowed]))
        /\ SumOf([f EXCEPT ![u] = p.borrowed]) = SumOf(f) + p.borrowed - f[u]
    BY <2>1, SumChanges
  <2> QED BY <2>2, <2>3, <2>4
<1> DEFINE dep2 == [dep EXCEPT ![a] = @ + p.deposited - pos[u][a].deposited]
           bor2 == [bor EXCEPT ![a] = @ + p.borrowed - pos[u][a].borrowed]
<1>12. /\ dep2[a] = dep[a] + p.deposited - pos[u][a].deposited
       /\ bor2[a] = bor[a] + p.borrowed - pos[u][a].borrowed
       /\ \A e \in Asset \ {a} : dep2[e] = dep[e] /\ bor2[e] = bor[e]
  OBVIOUS
<1> HIDE DEF dep2, bor2
<1>10. ASSUME NEW e \in Asset
       PROVE  /\ IsFiniteSet(UnitsHeld(D(new, e))) /\ dep2[e] = SumOf(D(new, e))
              /\ IsFiniteSet(UnitsHeld(B(new, e))) /\ bor2[e] = SumOf(B(new, e))
  <2>1. CASE e = a
    BY <1>8, <1>9, <1>12, <2>1
  <2>2. CASE e # a
    BY <1>5, <1>6, <1>12, <2>2
  <2> QED BY <2>1, <2>2
<1>11. Sums(new, dep2, bor2)
  BY <1>10 DEF Sums, D, B
<1> QED BY <1>11 DEF new, q, dep2, bor2

-----------------------------------------------------------------------------
(* Calls.  A user's call, single or batch, and a write-off change the       *)
(* deposits and debts of one user in some assets, and the totals of these   *)
(* assets by as much.                                                       *)

None == [a \in Asset |-> 0]
Only(e, n) == [a \in Asset |-> IF a = e THEN n ELSE 0]
Sent(ops) == [a \in Asset |-> Total(ops, a)]
Taken(ops) == [a \in Asset |-> -Total(ops, a)]

\* The position p is q with d more deposited and b more owed.
Changed(p, q, d, b) ==
    /\ p = [q EXCEPT !.deposited = q.deposited + d, !.borrowed = q.borrowed + b]
    /\ q.deposited + d \in Nat /\ q.borrowed + b \in Nat

CallPositions(u, T, dep, bor) ==
    \E next :
        /\ position' = [position EXCEPT ![u] =
               [a \in Asset |-> IF a \in T THEN Stored(next[a]) ELSE position[u][a]]]
        /\ \A a \in T : Changed(next[a], CurrentPosition(u, a), dep[a], bor[a])

\* The books of the settled assets S.
CallPosts(S, dep, bor, bal) ==
    book' = [a \in Asset |->
        IF a \in S THEN Posted(Accrued(a), dep[a], bor[a], bal[a], 0) ELSE book[a]]

\* A call for u in the assets T that adds dep to deposits and bor to debts.
Call(u, T, dep, bor) ==
    /\ now' = now /\ SettingsKept
    /\ \A a \in Asset \ T : dep[a] = 0 /\ bor[a] = 0
    /\ \E S \in SUBSET Asset, bal \in [Asset -> Int] :
          T \subseteq S /\ CallPosts(S, dep, bor, bal)
    /\ CallPositions(u, T, dep, bor)

CapsChecked(dep, bor) ==
    \A a \in Asset :
        /\ dep[a] > 0 => WithinDepositCaps(a, Accrued(a).total_deposited, dep[a])
        /\ bor[a] > 0 => WithinBorrowCaps(a, Accrued(a).total_borrowed, bor[a])

\* A call that leaves all debts, or repays and leaves all deposits, or adds to
\* debts only that the deposits still cover; finitely many assets are weighed.
Weighed(u, T, dep, bor) ==
    \/ \A a \in Asset : bor[a] = 0
    \/ \A a \in Asset : dep[a] = 0 /\ bor[a] <= 0
    \/ /\ \A a \in Asset : dep[a] = 0 /\ bor[a] >= 0
       /\ IsFiniteSet(supported) =>
             \A a \in T : Collateralized(Deposits(u), a,
                                        CurrentPosition(u, a).borrowed + bor[a])

LEMMA ChangedFields ==
    ASSUME NEW q \in PositionType, NEW d \in Int
    PROVE  /\ [q EXCEPT !.deposited = q.deposited + d]
                = [q EXCEPT !.deposited = q.deposited + d, !.borrowed = q.borrowed + 0]
           /\ [q EXCEPT !.borrowed = q.borrowed + d]
                = [q EXCEPT !.deposited = q.deposited + 0, !.borrowed = q.borrowed + d]
<1>1. q.deposited + 0 = q.deposited /\ q.borrowed + 0 = q.borrowed
  BY DEF PositionType
<1> QED BY <1>1 DEF PositionType

\* A position with another deposit, or with another debt.
LEMMA ChangedTo ==
    ASSUME IInv, NEW u \in User, NEW a \in Asset, NEW n \in Nat
    PROVE  LET q == CurrentPosition(u, a)
           IN  /\ Changed([q EXCEPT !.deposited = n], q, n - q.deposited, 0)
               /\ Changed([q EXCEPT !.borrowed = n], q, 0, n - q.borrowed)
<1> DEFINE q == CurrentPosition(u, a)
           d == n - q.deposited
           b == n - q.borrowed
<1>1. q \in PositionType /\ q.deposited \in Nat /\ q.borrowed \in Nat
  BY Parts DEF Behind
<1> HIDE DEF q
<1>2. /\ d \in Int /\ b \in Int /\ q.deposited + d = n /\ q.borrowed + b = n
      /\ q.deposited + 0 \in Nat /\ q.borrowed + 0 \in Nat
  BY <1>1
<1> HIDE DEF d, b
<1>3. /\ [q EXCEPT !.deposited = n]
            = [q EXCEPT !.deposited = q.deposited + d, !.borrowed = q.borrowed + 0]
      /\ [q EXCEPT !.borrowed = n]
            = [q EXCEPT !.deposited = q.deposited + 0, !.borrowed = q.borrowed + b]
  BY <1>1, <1>2, ChangedFields
<1> QED BY <1>2, <1>3 DEF Changed, q, d, b

LEMMA NonePlaced ==
    ASSUME NEW a \in Asset, NEW n \in Int
    PROVE  /\ None \in [Asset -> Int] /\ Only(a, n) \in [Asset -> Int]
           /\ \A e \in Asset : None[e] = 0
           /\ Only(a, n)[a] = n
           /\ \A e \in Asset \ {a} : Only(a, n)[e] = 0
BY DEF None, Only

\* write_position with set_reserve, for one asset.
LEMMA OneAssetCall ==
    ASSUME IInv, now' = now, SettingsKept,
           NEW u \in User, NEW a \in Asset, NEW p,
           NEW dep \in [Asset -> Int], NEW bor \in [Asset -> Int], NEW bal \in Int,
           \A e \in Asset \ {a} : dep[e] = 0 /\ bor[e] = 0,
           SetPosition(u, a, p), Changed(p, CurrentPosition(u, a), dep[a], bor[a]),
           book' = [book EXCEPT ![a] = Posted(Accrued(a), dep[a], bor[a], bal, 0)]
    PROVE  Call(u, {a}, dep, bor)
<1> DEFINE next == [e \in Asset |-> p]
           all == [e \in Asset |-> bal]
<1>1. /\ position \in [User -> [Asset -> PositionType]] /\ book \in [Asset -> BookType]
  BY DEF IInv, TypeOK
<1>2. position' = [position EXCEPT ![u] =
         [e \in Asset |-> IF e \in {a} THEN Stored(next[e]) ELSE position[u][e]]]
  BY <1>1 DEF SetPosition
<1>3. next[a] = p /\ all[a] = bal /\ all \in [Asset -> Int]
  OBVIOUS
<1> HIDE DEF next, all
<1>4. CallPositions(u, {a}, dep, bor)
  BY <1>2, <1>3 DEF CallPositions
<1>5. CallPosts({a}, dep, bor, all)
  BY <1>1, <1>3 DEF CallPosts
<1>6. {a} \in SUBSET Asset /\ {a} \subseteq {a}
  OBVIOUS
<1> QED BY <1>3, <1>4, <1>5, <1>6 DEF Call

\* The same for a write that changes the deposit only, or the debt only.
LEMMA OneDepositCall ==
    ASSUME IInv, now' = now, SettingsKept,
           NEW u \in User, NEW a \in Asset, NEW p, NEW n \in Int, NEW bal \in Int,
           SetPosition(u, a, p), Changed(p, CurrentPosition(u, a), n, 0),
           book' = [book EXCEPT ![a] = Posted(Accrued(a), n, 0, bal, 0)]
    PROVE  Call(u, {a}, Only(a, n), None)
<1> DEFINE dep == Only(a, n)
<1>1. /\ dep \in [Asset -> Int] /\ None \in [Asset -> Int]
      /\ dep[a] = n /\ None[a] = 0
      /\ \A e \in Asset \ {a} : dep[e] = 0 /\ None[e] = 0
  BY NonePlaced
<1> HIDE DEF dep
<1>2. /\ Changed(p, CurrentPosition(u, a), dep[a], None[a])
      /\ book' = [book EXCEPT ![a] = Posted(Accrued(a), dep[a], None[a], bal, 0)]
  BY <1>1
<1>3. Call(u, {a}, dep, None)
  BY <1>1, <1>2, OneAssetCall
<1> QED BY <1>3 DEF dep

LEMMA OneDebtCall ==
    ASSUME IInv, now' = now, SettingsKept,
           NEW u \in User, NEW a \in Asset, NEW p, NEW n \in Int, NEW bal \in Int,
           SetPosition(u, a, p), Changed(p, CurrentPosition(u, a), 0, n),
           book' = [book EXCEPT ![a] = Posted(Accrued(a), 0, n, bal, 0)]
    PROVE  Call(u, {a}, None, Only(a, n))
<1> DEFINE bor == Only(a, n)
<1>1. /\ bor \in [Asset -> Int] /\ None \in [Asset -> Int]
      /\ bor[a] = n /\ None[a] = 0
      /\ \A e \in Asset \ {a} : None[e] = 0 /\ bor[e] = 0
  BY NonePlaced
<1> HIDE DEF bor
<1>2. /\ Changed(p, CurrentPosition(u, a), None[a], bor[a])
      /\ book' = [book EXCEPT ![a] = Posted(Accrued(a), None[a], bor[a], bal, 0)]
  BY <1>1
<1>3. Call(u, {a}, None, bor)
  BY <1>1, <1>2, OneAssetCall
<1> QED BY <1>3 DEF bor

LEMMA DepositCall ==
    ASSUME IInv, NEW u \in User, NEW a \in Asset, NEW n \in Int, Deposit(u, a, n)
    PROVE  /\ Call(u, {a}, Only(a, n), None) /\ a \in supported
           /\ CapsChecked(Only(a, n), None) /\ Weighed(u, {a}, Only(a, n), None)
<1> DEFINE q == CurrentPosition(u, a)
<1>1. /\ now' = now /\ SettingsKept /\ a \in supported /\ n > 0
      /\ WithinDepositCaps(a, Accrued(a).total_deposited, n)
      /\ SetPosition(u, a, [q EXCEPT !.deposited = q.deposited + n])
      /\ book' = [book EXCEPT ![a] = Posted(Accrued(a), n, 0, n, 0)]
  BY DEF Deposit, SettingsKept, oracleVars, adminVars
<1>2. q.deposited \in Nat /\ q.deposited + n \in Nat /\ q.deposited + n - q.deposited = n
  BY <1>1, Parts
<1>3. Changed([q EXCEPT !.deposited = q.deposited + n], q, n, 0)
  <2> DEFINE m == q.deposited + n
  <2>1. m \in Nat /\ m - q.deposited = n
    BY <1>2
  <2> HIDE DEF m
  <2>2. Changed([q EXCEPT !.deposited = m], q, n, 0)
    BY <2>1, ChangedTo
  <2> QED BY <2>2 DEF m
<1>4. Call(u, {a}, Only(a, n), None)
  <2> DEFINE p == [q EXCEPT !.deposited = q.deposited + n]
  <2>1. SetPosition(u, a, p) /\ Changed(p, q, n, 0)
    BY <1>1, <1>3
  <2> HIDE DEF p
  <2> QED BY <1>1, <2>1, OneDepositCall
<1>5. CapsChecked(Only(a, n), None)
  BY <1>1 DEF CapsChecked, Only, None
<1>6. Weighed(u, {a}, Only(a, n), None)
  BY DEF Weighed, None
<1> QED BY <1>1, <1>4, <1>5, <1>6

LEMMA BorrowCall ==
    ASSUME IInv, NEW u \in User, NEW a \in Asset, NEW c \in Asset, NEW n \in Int,
           Borrow(u, a, c, n)
    PROVE  /\ Call(u, {a}, None, Only(a, n)) /\ a \in supported
           /\ CapsChecked(None, Only(a, n)) /\ Weighed(u, {a}, None, Only(a, n))
<1> DEFINE q == CurrentPosition(u, a)
<1>1. /\ now' = now /\ SettingsKept /\ a \in supported /\ n > 0
      /\ WithinBorrowCaps(a, Accrued(a).total_borrowed, n)
      /\ SetPosition(u, a, [q EXCEPT !.borrowed = q.borrowed + n])
      /\ book' = [book EXCEPT ![a] = Posted(Accrued(a), 0, n, -n, 0)]
  BY DEF Borrow, SettingsKept, oracleVars, adminVars
<1>2. Changed([q EXCEPT !.borrowed = q.borrowed + n], q, 0, n)
  <2> DEFINE m == q.borrowed + n
  <2>1. m \in Nat /\ m - q.borrowed = n
    BY <1>1, Parts
  <2> HIDE DEF m
  <2>2. Changed([q EXCEPT !.borrowed = m], q, 0, n)
    BY <2>1, ChangedTo
  <2> QED BY <2>2 DEF m
<1>3. Call(u, {a}, None, Only(a, n))
  <2> DEFINE p == [q EXCEPT !.borrowed = q.borrowed + n]
             m == -n
  <2>1. /\ m \in Int /\ SetPosition(u, a, p) /\ Changed(p, q, 0, n)
        /\ book' = [book EXCEPT ![a] = Posted(Accrued(a), 0, n, m, 0)]
    BY <1>1, <1>2
  <2> HIDE DEF p, m
  <2> QED BY <1>1, <2>1, OneDebtCall
<1>4. CapsChecked(None, Only(a, n))
  BY <1>1 DEF CapsChecked, Only, None
<1>5. Weighed(u, {a}, None, Only(a, n))
  <2>1. Collateralized(Deposits(u), a, q.borrowed + n)
    BY DEF Borrow
  <2>2. \A e \in Asset : None[e] = 0 /\ Only(a, n)[e] >= 0
    BY <1>1 DEF None, Only
  <2>3. Only(a, n)[a] = n
    BY NonePlaced
  <2> QED BY <2>1, <2>2, <2>3 DEF Weighed
<1> QED BY <1>1, <1>3, <1>4, <1>5

LEMMA WithdrawCall ==
    ASSUME IInv, NEW u \in User, NEW a \in Asset, NEW c \in Asset, NEW n \in Int,
           Withdraw(u, a, c, n)
    PROVE  /\ Call(u, {a}, Only(a, -n), None) /\ a \in supported
           /\ CapsChecked(Only(a, -n), None) /\ Weighed(u, {a}, Only(a, -n), None)
<1> DEFINE q == CurrentPosition(u, a)
           m == -n
<1>1. /\ now' = now /\ SettingsKept /\ a \in supported /\ n > 0 /\ n <= q.deposited
      /\ SetPosition(u, a, [q EXCEPT !.deposited = q.deposited - n])
      /\ book' = [book EXCEPT ![a] = Posted(Accrued(a), m, 0, m, 0)]
  BY DEF Withdraw, SettingsKept, oracleVars, adminVars
<1>2. m \in Int /\ ~(m > 0)
  BY <1>1
<1>3. Changed([q EXCEPT !.deposited = q.deposited - n], q, m, 0)
  <2> DEFINE k == q.deposited - n
  <2>1. k \in Nat /\ k - q.deposited = m
    BY <1>1, Parts
  <2> HIDE DEF k, m
  <2>2. Changed([q EXCEPT !.deposited = k], q, m, 0)
    BY <2>1, ChangedTo
  <2> QED BY <2>2 DEF k
<1>4. Call(u, {a}, Only(a, m), None)
  <2> DEFINE p == [q EXCEPT !.deposited = q.deposited - n]
  <2>1. /\ SetPosition(u, a, p) /\ Changed(p, q, m, 0)
        /\ book' = [book EXCEPT ![a] = Posted(Accrued(a), m, 0, m, 0)]
    BY <1>1, <1>3
  <2> HIDE DEF p, m
  <2> QED BY <1>1, <1>2, <2>1, OneDepositCall
<1>5. CapsChecked(Only(a, m), None) /\ Weighed(u, {a}, Only(a, m), None)
  BY <1>2 DEF CapsChecked, Weighed, Only, None
<1> QED BY <1>1, <1>4, <1>5

\* What is repaid and forgiven together is no more than the debt.
LEMMA RepayCall ==
    ASSUME IInv, NEW u \in User, NEW a \in Asset, NEW n \in Int, Repay(u, a, n)
    PROVE  \E gone \in Nat : /\ Call(u, {a}, None, Only(a, -gone)) /\ a \in supported
                             /\ CapsChecked(None, Only(a, -gone))
                             /\ Weighed(u, {a}, None, Only(a, -gone))
<1> DEFINE q == CurrentPosition(u, a)
           rest == q.borrowed - n
           dust == IF rest > 0 /\ rest <= DUST_THRESHOLD THEN rest ELSE 0
           gone == n + dust
           m == -gone
           k == rest - dust
           p == [q EXCEPT !.borrowed = rest - dust]
<1>1. /\ now' = now /\ SettingsKept /\ a \in supported /\ n > 0 /\ n <= q.borrowed
      /\ SetPosition(u, a, p)
      /\ book' = [book EXCEPT ![a] = Posted(Accrued(a), 0, m, n, 0)]
  BY DEF Repay, RepaidBook, SettingsKept, oracleVars, adminVars
<1>2. /\ gone \in Nat /\ m \in Int /\ ~(m > 0) /\ k \in Nat /\ k - q.borrowed = m
  <2>1. q.borrowed \in Nat
    BY Parts
  <2>2. rest \in Nat /\ dust \in Nat /\ dust <= rest
    BY <1>1, <2>1
  <2> HIDE DEF dust
  <2> QED BY <1>1, <2>1, <2>2
<1>3. p = [q EXCEPT !.borrowed = k] /\ m = -gone
  OBVIOUS
<1> HIDE DEF rest, dust, gone, m, k, p, q
<1>4. Changed(p, q, 0, m)
  BY <1>2, <1>3, ChangedTo DEF q
<1>5. Call(u, {a}, None, Only(a, m))
  <2>1. SetPosition(u, a, p) /\ Changed(p, CurrentPosition(u, a), 0, m)
    BY <1>1, <1>4 DEF q
  <2> QED BY <1>1, <1>2, <2>1, OneDebtCall
<1>6. CapsChecked(None, Only(a, m)) /\ Weighed(u, {a}, None, Only(a, m))
  BY <1>2 DEF CapsChecked, Weighed, Only, None
<1> QED BY <1>1, <1>2, <1>3, <1>5, <1>6

\* Without a debt a write-off only settles the book.
LEMMA WriteoffCall ==
    ASSUME IInv, NEW u \in User, NEW a \in Asset, WriteoffBadDebt(u, a)
    PROVE  \E T \in SUBSET {a}, gone \in Nat :
              /\ Call(u, T, None, Only(a, -gone))
              /\ T # {} => gone > 0 /\ gone = CurrentPosition(u, a).borrowed
<1> DEFINE q == CurrentPosition(u, a)
<1>0. /\ position \in [User -> [Asset -> PositionType]] /\ book \in [Asset -> BookType]
      /\ q.borrowed \in Nat /\ now' = now /\ SettingsKept
  BY Parts DEF IInv, TypeOK, WriteoffBadDebt, SettingsKept, oracleVars, adminVars
<1>1. \A e \in Asset : Posted(Accrued(e), 0, 0, 0, 0) = Accrued(e)
  <2>1. ASSUME NEW x \in BookType PROVE Posted(x, 0, 0, 0, 0) = x
    <3>1. /\ x.total_deposited + 0 = x.total_deposited
          /\ x.total_borrowed + 0 = x.total_borrowed
          /\ x.total_balance + 0 = x.total_balance
          /\ x.protocol_fees + 0 = x.protocol_fees
      BY DEF BookType
    <3> QED BY <3>1 DEF Posted, BookType
  <2> QED BY <2>1, AccruedFacts
<1>2. None \in [Asset -> Int] /\ \A e \in Asset : None[e] = 0
  BY DEF None
<1>3. CASE q.borrowed = 0
  <2> DEFINE gone == q.borrowed
             z == Only(a, -gone)
  <2>1. \A e \in Asset : z[e] = 0
    <3>1. gone = 0 /\ gone \in Nat
      BY <1>0, <1>3
    <3> DEFINE m == -gone
    <3>2. gone \in Nat
      BY <3>1
    <3> HIDE DEF gone
    <3>3. gone + m = 0 /\ m \in Int
      BY <3>2
    <3> HIDE DEF m
    <3>4. m = 0
      BY <3>1, <3>3
    <3>5. \A e \in Asset : Only(a, m)[e] = 0
      BY <3>4 DEF Only
    <3> QED BY <3>5 DEF m
  <2> HIDE DEF z
  <2>2. book' = [book EXCEPT ![a] = Accrued(a)] /\ UNCHANGED position
    BY <1>3 DEF WriteoffBadDebt
  <2>3. CallPosts({a}, None, z, None)
    BY <1>0, <1>1, <1>2, <2>1, <2>2 DEF CallPosts
  <2>4. CallPositions(u, {}, None, z)
    <3>1. position' = [position EXCEPT ![u] =
            [e \in Asset |-> IF e \in {} THEN Stored(None[e]) ELSE position[u][e]]]
      BY <1>0, <2>2
    <3> QED BY <3>1 DEF CallPositions
  <2>5. Call(u, {}, None, z)
    <3>1. {a} \in SUBSET Asset /\ {} \subseteq {a}
      OBVIOUS
    <3> QED BY <1>0, <1>2, <2>1, <2>3, <2>4, <3>1 DEF Call
  <2> QED BY <1>0, <2>5 DEF z
<1>4. CASE q.borrowed # 0
  <2> DEFINE gone == q.borrowed
             m == -gone
             S == (supported \cup {a}) \cap Asset
             bor == Only(a, m)
             p == [q EXCEPT !.borrowed = 0]
             next == [e \in Asset |-> p]
  <2>1. /\ SetPosition(u, a, p)
        /\ book' = [e \in Asset |->
              IF e = a THEN Posted(Accrued(e), 0, m, 0, 0)
              ELSE IF e \in supported \cup {a} THEN Accrued(e) ELSE book[e]]
    BY <1>4 DEF WriteoffBadDebt
  <2>2. m \in Int /\ 0 - q.borrowed = m /\ 0 \in Nat
    BY <1>0
  <2>3. Changed(p, q, 0, m)
    <3> HIDE DEF m
    <3> QED BY <2>2, ChangedTo
  <2>4. bor \in [Asset -> Int] /\ bor[a] = m /\ \A e \in Asset \ {a} : bor[e] = 0
    <3> HIDE DEF m
    <3> QED BY <2>2, NonePlaced
  <2>5. S \in SUBSET Asset /\ {a} \subseteq S
    OBVIOUS
  <2>6. CallPosts(S, None, bor, None)
    <3> HIDE DEF m, bor
    <3> QED BY <1>1, <1>2, <2>1, <2>4 DEF CallPosts
  <2>7. CallPositions(u, {a}, None, bor)
    <3> HIDE DEF p, bor, m
    <3>1. position' = [position EXCEPT ![u] =
            [e \in Asset |-> IF e \in {a} THEN Stored(next[e]) ELSE position[u][e]]]
      BY <1>0, <2>1 DEF SetPosition
    <3>2. next[a] = p
      OBVIOUS
    <3> HIDE DEF next
    <3> QED BY <1>2, <2>3, <2>4, <3>1, <3>2 DEF CallPositions
  <2> HIDE DEF S, bor
  <2>8. Call(u, {a}, None, bor)
    BY <1>0, <1>2, <2>4, <2>5, <2>6, <2>7 DEF Call
  <2> HIDE DEF m
  <2>9. gone \in Nat /\ gone > 0 /\ m = -gone
    BY <1>0, <1>4 DEF m
  <2> QED BY <2>8, <2>9 DEF bor
<1> QED BY <1>3, <1>4

LEMMA BatchFacts ==
    ASSUME NEW ops \in Seq(BatchOperation), ValidOperations(ops)
    PROVE  /\ Touched(ops) \subseteq supported /\ Touched(ops) \in SUBSET Asset
           /\ Sent(ops) \in [Asset -> Int] /\ Taken(ops) \in [Asset -> Int]
           /\ \A a \in Asset : /\ Total(ops, a) \in Nat
                               /\ Sent(ops)[a] = Total(ops, a)
                               /\ Taken(ops)[a] = -Total(ops, a)
                               /\ a \notin Touched(ops) => Total(ops, a) = 0
<1>1. \A a \in Asset : Total(ops, a) \in Nat /\ (a \notin Touched(ops) => Total(ops, a) = 0)
  BY BatchTotals
<1>2. Touched(ops) \subseteq supported /\ Touched(ops) \in SUBSET Asset
  BY BatchDomain DEF ValidOperations, Touched
<1> QED BY <1>1, <1>2 DEF Sent, Taken

\* A batch for u on its touched assets: positions, books and checks together.
LEMMA BatchCall ==
    ASSUME IInv, now' = now, SettingsKept,
           NEW u \in User, NEW ops \in Seq(BatchOperation), ValidOperations(ops),
           NEW S \in SUBSET Asset, Touched(ops) \subseteq S, NEW next,
           NEW dep \in [Asset -> Int], NEW bor \in [Asset -> Int],
           NEW bal \in [Asset -> Int],
           \A a \in Asset \ Touched(ops) : dep[a] = 0 /\ bor[a] = 0,
           SetPositions(u, ops, next), CallPosts(S, dep, bor, bal),
           \A a \in Touched(ops) :
              Changed(next[a], CurrentPosition(u, a), dep[a], bor[a])
    PROVE  Call(u, Touched(ops), dep, bor)
<1>1. position' = [position EXCEPT ![u] =
         [a \in Asset |-> IF a \in Touched(ops) THEN Stored(next[a]) ELSE position[u][a]]]
  BY DEF SetPositions, IInv, TypeOK
<1>2. CallPositions(u, Touched(ops), dep, bor)
  BY <1>1 DEF CallPositions
<1> QED BY <1>2 DEF Call

\* Prices and factors are natural numbers, and so is a weighted sum.
LEMMA FactorsTyped ==
    ASSUME IInv, NEW a \in Asset
    PROVE  /\ Price(a) \in Nat /\ CollateralFactor(a) \in Nat
           /\ LiquidationThreshold(a) \in Nat
           /\ ~risk[a].stored => CollateralFactor(a) = LiquidationThreshold(a)
<1> DEFINE ratio == config.min_collateral_ratio_bps
           n == BPS * BPS + ratio - 1
<1>1. /\ oracle[a] \in OracleType /\ risk[a] \in RiskType /\ config \in ConfigType
      /\ BPS \in Nat \ {0}
  BY ScaleAssumption DEF IInv, TypeOK
<1>2. ratio \in Nat
  BY <1>1 DEF ConfigType
<1>3. RatioToFactor(ratio) \in Nat
  <2>1. CASE ratio = 0
    BY <1>1, <2>1 DEF RatioToFactor
  <2>2. CASE ratio # 0
    <3>1. BPS * BPS \in Nat
      BY <1>1, ProductNat
    <3> HIDE DEF ratio
    <3>2. n \in Nat
      BY <1>2, <2>2, <3>1
    <3>3. RatioToFactor(ratio) = n \div ratio
      BY <2>2 DEF RatioToFactor
    <3> HIDE DEF n
    <3> QED BY <1>2, <2>2, <3>2, <3>3, QuotientNat
  <2> QED BY <2>1, <2>2
<1> QED BY <1>1, <1>3 DEF OracleType, RiskType, Price, CollateralFactor, LiquidationThreshold

LEMMA WeightedSum ==
    ASSUME IInv, IsFiniteSet(supported),
           NEW deposits \in [Asset -> Nat], NEW factor \in [Asset -> Nat]
    PROVE  /\ Weighted(deposits, factor) \in Int
           /\ Weighted(deposits, factor)
                 = SumFunctionOnSet([a \in Asset |-> deposits[a] * Price(a) * factor[a]],
                                    supported)
           /\ \A a \in Asset : deposits[a] * Price(a) * factor[a] \in Nat
<1> DEFINE f == [a \in Asset |-> IF deposits[a] > 0
                                   THEN deposits[a] * Price(a) * factor[a] ELSE 0]
           g == [a \in Asset |-> deposits[a] * Price(a) * factor[a]]
<1>1. ASSUME NEW a \in Asset
      PROVE  /\ f[a] = g[a] /\ g[a] \in Nat
             /\ g[a] = deposits[a] * Price(a) * factor[a]
  <2> DEFINE x == deposits[a]
             p == Price(a)
             k == factor[a]
  <2>1. x \in Nat /\ p \in Nat /\ k \in Nat
    BY FactorsTyped
  <2>2. f[a] = (IF x > 0 THEN x * p * k ELSE 0) /\ g[a] = x * p * k
    OBVIOUS
  <2>3. x * p * k \in Nat /\ (~(x > 0) => x * p * k = 0)
    <3> HIDE DEF x, p, k
    <3>1. x * p \in Nat
      BY <2>1, ProductNat
    <3>2. x * p * k \in Nat
      BY <2>1, <3>1, ProductNat
    <3>3. x = 0 => x * p = 0
      BY <2>1
    <3>4. x * p = 0 => x * p * k = 0
      BY <2>1
    <3> QED BY <2>1, <3>2, <3>3, <3>4
  <2> HIDE DEF f, g
  <2> QED BY <2>1, <2>2, <2>3
<1>2. Weighted(deposits, factor) = SumFunctionOnSet(f, supported)
  BY DEF Weighted
<1>3. f = g
  <2>1. \A a \in Asset : f[a] = g[a]
    BY <1>1
  <2> QED BY <2>1
<1>4. supported \subseteq Asset
  BY DEF IInv, TypeOK
<1> HIDE DEF f
<1>5. SumFunctionOnSet(g, supported) \in Int
  <2> HIDE DEF g
  <2>1. \A a \in supported : g[a] \in Int
    BY <1>1, <1>4
  <2> QED BY <2>1, SumTyped
<1> QED BY <1>1, <1>2, <1>3, <1>5

LEMMA WeightsTyped ==
    ASSUME IInv, IsFiniteSet(supported), NEW u \in User,
           NEW factor \in [Asset -> Nat]
    PROVE  /\ Weighted(Deposits(u), factor) \in Int
           /\ Weighted(Deposits(u), factor)
                 = SumFunctionOnSet([a \in Asset |-> Deposits(u)[a] * Price(a) * factor[a]],
                                    supported)
           /\ \A a \in Asset : Deposits(u)[a] * Price(a) * factor[a] \in Nat
<1> DEFINE x == Deposits(u)
<1>1. x \in [Asset -> Nat]
  BY Parts DEF Deposits
<1> HIDE DEF x
<1>2. /\ Weighted(x, factor) \in Int
      /\ Weighted(x, factor)
            = SumFunctionOnSet([a \in Asset |-> x[a] * Price(a) * factor[a]], supported)
      /\ \A a \in Asset : x[a] * Price(a) * factor[a] \in Nat
  BY <1>1, WeightedSum
<1> QED BY <1>2 DEF x

\* Debts that are covered together are covered each.
LEMMA EachCovered ==
    ASSUME IInv, NEW u \in User, NEW ops \in Seq(BatchOperation), ValidOperations(ops),
           IsFiniteSet(supported), CoveredTogether(u, ops), NEW a \in Touched(ops)
    PROVE  Collateralized(Deposits(u), a, CurrentPosition(u, a).borrowed + Total(ops, a))
<1> DEFINE T == Touched(ops)
           owed == [e \in Asset |-> (CurrentPosition(u, e).borrowed + Total(ops, e))
                                        * Price(e) * BPS]
           w == Weighted(Deposits(u), [e \in Asset |-> CollateralFactor(e)])
           rest == SumFunctionOnSet(owed, T \ {a})
<1>1. T \subseteq Asset /\ a \in Asset
  BY BatchFacts
<1>2. IsFiniteSet(T)
  BY FS_Subset DEF ValidOperations, Touched
<1>3. PricesReadable(Deposits(u), a) /\ w >= SumFunctionOnSet(owed, T)
  BY DEF CoveredTogether
<1>4. \A e \in T : owed[e] \in Nat
  <2> SUFFICES ASSUME NEW e \in T PROVE owed[e] \in Nat
    OBVIOUS
  <2> DEFINE x == CurrentPosition(u, e).borrowed + Total(ops, e)
             p == Price(e)
  <2>1. x \in Nat
    BY <1>1, Parts, BatchFacts
  <2>2. p \in Nat
    BY <1>1 DEF IInv, TypeOK, OracleType, Price
  <2>3. owed[e] = x * p * BPS
    BY <1>1
  <2> HIDE DEF x, p, owed
  <2>4. x * p \in Nat
    BY <2>1, <2>2, ProductNat
  <2>5. x * p * BPS \in Nat
    BY <2>4, ProductNat, ScaleAssumption
  <2> QED BY <2>3, <2>5
<1>5. owed[a] = (CurrentPosition(u, a).borrowed + Total(ops, a)) * Price(a) * BPS
  BY <1>1
<1> HIDE DEF owed, T, w
<1>6. SumFunctionOnSet(owed, T) = owed[a] + rest /\ rest \in Nat /\ owed[a] \in Nat
  <2>1. a \in T
    BY DEF T
  <2>2. IsFiniteSet(T \ {a})
    BY <1>2, FS_RemoveElement
  <2> QED BY <1>2, <1>4, <2>1, <2>2, SumTakesOut, SumNatural
<1>7. w \in Int
  <2> DEFINE factor == [e \in Asset |-> CollateralFactor(e)]
  <2>1. factor \in [Asset -> Nat]
    BY FactorsTyped
  <2>2. w = Weighted(Deposits(u), factor)
    BY DEF w
  <2> HIDE DEF factor
  <2> QED BY <2>1, <2>2, WeightsTyped
<1> HIDE DEF rest
<1>8. w >= owed[a]
  BY <1>3, <1>6, <1>7
<1> QED BY <1>3, <1>5, <1>8 DEF Collateralized, w

LEMMA DepositBatchCall ==
    ASSUME IInv, NEW u \in User, NEW ops \in Seq(BatchOperation), DepositBatch(u, ops)
    PROVE  /\ Call(u, Touched(ops), Sent(ops), None)
           /\ Touched(ops) \subseteq supported /\ CapsChecked(Sent(ops), None)
           /\ Weighed(u, Touched(ops), Sent(ops), None)
<1> DEFINE T == Touched(ops)
           next == [a \in Asset |->
                      [CurrentPosition(u, a) EXCEPT !.deposited = @ + Total(ops, a)]]
<1>1. /\ ValidOperations(ops) /\ now' = now /\ SettingsKept
      /\ \A a \in T : WithinDepositCaps(a, Accrued(a).total_deposited, Total(ops, a))
      /\ SetPositions(u, ops, next)
      /\ book' = [a \in Asset |-> IF a \in T
                     THEN Posted(Accrued(a), Total(ops, a), 0, Total(ops, a), 0)
                     ELSE book[a]]
  BY DEF DepositBatch, SetBooks, SettingsKept, oracleVars, adminVars
<1>2. None \in [Asset -> Int] /\ \A a \in Asset : None[a] = 0
  BY DEF None
<1>3. CallPosts(T, Sent(ops), None, Sent(ops))
  BY <1>1, <1>2, BatchFacts DEF CallPosts
<1>4. ASSUME NEW a \in T
      PROVE  Changed(next[a], CurrentPosition(u, a), Sent(ops)[a], None[a])
  <2> DEFINE q == CurrentPosition(u, a)
             n == Total(ops, a)
             m == q.deposited + n
  <2>1. a \in Asset /\ n \in Nat /\ Sent(ops)[a] = n /\ None[a] = 0
    BY <1>1, <1>2, BatchFacts
  <2>2. q.deposited \in Nat
    BY <2>1, Parts
  <2>3. next[a] = [q EXCEPT !.deposited = m]
    BY <2>1
  <2>4. m \in Nat /\ m - q.deposited = n
    <3> HIDE DEF q, n
    <3> QED BY <2>1, <2>2
  <2> HIDE DEF n, m, next
  <2>5. Changed([q EXCEPT !.deposited = m], q, n, 0)
    BY <2>1, <2>4, ChangedTo
  <2> QED BY <2>1, <2>3, <2>5
<1> HIDE DEF next
<1>5. \A a \in Asset \ T : Sent(ops)[a] = 0 /\ None[a] = 0
  BY <1>1, <1>2, BatchFacts
<1>6. Call(u, T, Sent(ops), None)
  BY <1>1, <1>2, <1>3, <1>4, <1>5, BatchFacts, BatchCall
<1>7. CapsChecked(Sent(ops), None)
  BY <1>1, <1>2, <1>5, BatchFacts DEF CapsChecked
<1>8. Weighed(u, T, Sent(ops), None)
  BY <1>2 DEF Weighed
<1> QED BY <1>1, <1>6, <1>7, <1>8, BatchFacts

LEMMA BorrowBatchCall ==
    ASSUME IInv, NEW u \in User, NEW c \in Asset, NEW ops \in Seq(BatchOperation),
           BorrowBatch(u, c, ops)
    PROVE  /\ Call(u, Touched(ops), None, Sent(ops))
           /\ Touched(ops) \subseteq supported /\ CapsChecked(None, Sent(ops))
           /\ Weighed(u, Touched(ops), None, Sent(ops))
<1> DEFINE T == Touched(ops)
           S == T \cup {c}
           next == [a \in Asset |->
                      [CurrentPosition(u, a) EXCEPT !.borrowed = @ + Total(ops, a)]]
<1>1. /\ ValidOperations(ops) /\ now' = now /\ SettingsKept
      /\ \A a \in T : WithinBorrowCaps(a, Accrued(a).total_borrowed, Total(ops, a))
      /\ CoveredTogether(u, ops)
      /\ SetPositions(u, ops, next)
      /\ book' = [a \in Asset |-> IF a \in S
                     THEN Posted(Accrued(a), 0, Total(ops, a), -Total(ops, a), 0)
                     ELSE book[a]]
  BY DEF BorrowBatch, SetBooks, SettingsKept, oracleVars, adminVars
<1>2. None \in [Asset -> Int] /\ \A a \in Asset : None[a] = 0
  BY DEF None
<1>3. CallPosts(S, None, Sent(ops), Taken(ops))
  BY <1>1, <1>2, BatchFacts DEF CallPosts
<1>4. ASSUME NEW a \in T
      PROVE  Changed(next[a], CurrentPosition(u, a), None[a], Sent(ops)[a])
  <2> DEFINE q == CurrentPosition(u, a)
             n == Total(ops, a)
             m == q.borrowed + n
  <2>1. a \in Asset /\ n \in Nat /\ Sent(ops)[a] = n /\ None[a] = 0
    BY <1>1, <1>2, BatchFacts
  <2>2. q.borrowed \in Nat
    BY <2>1, Parts
  <2>3. next[a] = [q EXCEPT !.borrowed = m]
    BY <2>1
  <2>4. m \in Nat /\ m - q.borrowed = n
    <3> HIDE DEF q, n
    <3> QED BY <2>1, <2>2
  <2> HIDE DEF n, m, next
  <2>5. Changed([q EXCEPT !.borrowed = m], q, 0, n)
    BY <2>1, <2>4, ChangedTo
  <2> QED BY <2>1, <2>3, <2>5
<1>5. \A a \in Asset \ T : None[a] = 0 /\ Sent(ops)[a] = 0
  BY <1>1, <1>2, BatchFacts
<1>6. S \in SUBSET Asset /\ T \subseteq S
  BY <1>1, BatchFacts
<1> HIDE DEF next, S
<1>7. Call(u, T, None, Sent(ops))
  BY <1>1, <1>2, <1>3, <1>4, <1>5, <1>6, BatchFacts, BatchCall
<1>8. CapsChecked(None, Sent(ops))
  BY <1>1, <1>2, <1>5, BatchFacts DEF CapsChecked
<1>9. Weighed(u, T, None, Sent(ops))
  <2>1. \A a \in Asset : None[a] = 0 /\ Sent(ops)[a] >= 0
    BY <1>1, <1>2, BatchFacts
  <2>2. ASSUME IsFiniteSet(supported), NEW a \in T
        PROVE  Collateralized(Deposits(u), a,
                              CurrentPosition(u, a).borrowed + Sent(ops)[a])
    <3>1. a \in Asset /\ Sent(ops)[a] = Total(ops, a)
      BY <1>1, BatchFacts
    <3> QED BY <1>1, <2>2, <3>1, EachCovered
  <2> QED BY <2>1, <2>2 DEF Weighed
<1> QED BY <1>1, <1>7, <1>8, <1>9, BatchFacts

LEMMA WithdrawBatchCall ==
    ASSUME IInv, NEW u \in User, NEW c \in Asset, NEW ops \in Seq(BatchOperation),
           WithdrawBatch(u, c, ops)
    PROVE  /\ Call(u, Touched(ops), Taken(ops), None)
           /\ Touched(ops) \subseteq supported /\ CapsChecked(Taken(ops), None)
           /\ Weighed(u, Touched(ops), Taken(ops), None)
<1> DEFINE T == Touched(ops)
           S == T \cup {c}
           next == [a \in Asset |->
                      [CurrentPosition(u, a) EXCEPT !.deposited = @ - Total(ops, a)]]
<1>1. /\ ValidOperations(ops) /\ now' = now /\ SettingsKept
      /\ \A a \in T : Total(ops, a) <= CurrentPosition(u, a).deposited
      /\ SetPositions(u, ops, next)
      /\ book' = [a \in Asset |-> IF a \in S
                     THEN Posted(Accrued(a), -Total(ops, a), 0, -Total(ops, a), 0)
                     ELSE book[a]]
  BY DEF WithdrawBatch, SetBooks, SettingsKept, oracleVars, adminVars
<1>2. None \in [Asset -> Int] /\ \A a \in Asset : None[a] = 0
  BY DEF None
<1>3. CallPosts(S, Taken(ops), None, Taken(ops))
  BY <1>1, <1>2, BatchFacts DEF CallPosts
<1>4. ASSUME NEW a \in T
      PROVE  Changed(next[a], CurrentPosition(u, a), Taken(ops)[a], None[a])
  <2> DEFINE q == CurrentPosition(u, a)
             n == Total(ops, a)
             m == q.deposited - n
             d == -n
  <2>1. a \in Asset /\ n \in Nat /\ Taken(ops)[a] = d /\ None[a] = 0
    BY <1>1, <1>2, BatchFacts
  <2>2. q.deposited \in Nat /\ n <= q.deposited
    BY <1>1, <2>1, Parts
  <2>3. next[a] = [q EXCEPT !.deposited = m]
    BY <2>1
  <2>4. m \in Nat /\ m - q.deposited = d
    <3> HIDE DEF q, n
    <3> QED BY <2>1, <2>2
  <2> HIDE DEF n, m, d, next
  <2>5. Changed([q EXCEPT !.deposited = m], q, d, 0)
    BY <2>1, <2>4, ChangedTo
  <2> QED BY <2>1, <2>3, <2>5
<1>5. \A a \in Asset \ T : Taken(ops)[a] = 0 /\ None[a] = 0
  BY <1>1, <1>2, BatchFacts
<1>6. S \in SUBSET Asset /\ T \subseteq S
  BY <1>1, BatchFacts
<1> HIDE DEF next, S
<1>7. Call(u, T, Taken(ops), None)
  BY <1>1, <1>2, <1>3, <1>4, <1>5, <1>6, BatchFacts, BatchCall
<1>8. CapsChecked(Taken(ops), None)
  <2>1. \A a \in Asset : ~(Taken(ops)[a] > 0)
    BY <1>1, BatchFacts
  <2> QED BY <1>2, <2>1 DEF CapsChecked
<1>9. Weighed(u, T, Taken(ops), None)
  BY <1>2 DEF Weighed
<1> QED BY <1>1, <1>7, <1>8, <1>9, BatchFacts

\* What is forgiven counts as repaid.
LEMMA RepayBatchCall ==
    ASSUME IInv, NEW u \in User, NEW ops \in Seq(BatchOperation), RepayBatch(u, ops)
    PROVE  \E bor \in [Asset -> Int] :
              /\ Call(u, Touched(ops), None, bor)
              /\ Touched(ops) \subseteq supported /\ CapsChecked(None, bor)
              /\ Weighed(u, Touched(ops), None, bor)
<1> DEFINE T == Touched(ops)
           rest == [a \in Asset |-> CurrentPosition(u, a).borrowed - Total(ops, a)]
           loss == [a \in Asset |-> IF a \in T /\ rest[a] <= DUST_THRESHOLD
                                      THEN rest[a] ELSE 0]
           bor == [a \in Asset |-> -(Total(ops, a) + loss[a])]
           next == [a \in Asset |->
                      [CurrentPosition(u, a) EXCEPT !.borrowed = rest[a] - loss[a]]]
<1>1. /\ ValidOperations(ops) /\ RepayableInTurn(u, ops) /\ now' = now /\ SettingsKept
      /\ SetPositions(u, ops, next)
      /\ book' = [a \in Asset |-> IF a \in T
                     THEN Posted(Accrued(a), 0, -(Total(ops, a) + loss[a]), Total(ops, a), 0)
                     ELSE book[a]]
  BY DEF RepayBatch, RepaidBook, SetBooks, SettingsKept, oracleVars, adminVars
<1>2. None \in [Asset -> Int] /\ \A a \in Asset : None[a] = 0
  BY DEF None
<1>3. CallPosts(T, None, bor, Sent(ops))
  BY <1>1, <1>2, BatchFacts DEF CallPosts
<1>4. ASSUME NEW a \in Asset
      PROVE  /\ rest[a] - loss[a] \in Nat /\ loss[a] \in Nat
             /\ rest[a] - loss[a] - CurrentPosition(u, a).borrowed = bor[a]
             /\ bor[a] \in Int /\ bor[a] <= 0
             /\ (a \notin T => bor[a] = 0)
             /\ next[a] = [CurrentPosition(u, a) EXCEPT !.borrowed = rest[a] - loss[a]]
  <2> DEFINE n == Total(ops, a)
             x == CurrentPosition(u, a).borrowed
             l == loss[a]
             r == rest[a]
  <2>1. n \in Nat /\ (a \notin T => n = 0) /\ n <= x /\ x \in Nat
    BY <1>1, BatchTotals, RepayableTotals, Parts
  <2>2. r = x - n /\ l = (IF a \in T /\ r <= DUST_THRESHOLD THEN r ELSE 0)
    OBVIOUS
  <2>3. bor[a] = -(n + l) /\ next[a] = [CurrentPosition(u, a) EXCEPT !.borrowed = r - l]
    OBVIOUS
  <2>4. r - l \in Nat /\ l \in Nat /\ r - l - x = -(n + l) /\ -(n + l) \in Int
        /\ -(n + l) <= 0 /\ (a \notin T => -(n + l) = 0)
    <3> HIDE DEF n, x, l, r
    <3> QED BY <2>1, <2>2
  <2> QED BY <2>3, <2>4
<1>5. bor \in [Asset -> Int]
  <2>1. bor = [a \in Asset |-> bor[a]]
    OBVIOUS
  <2> HIDE DEF bor
  <2> QED BY <1>4, <2>1
<1> HIDE DEF rest, loss, bor, next
<1>6. ASSUME NEW a \in T
      PROVE  Changed(next[a], CurrentPosition(u, a), None[a], bor[a])
  <2> DEFINE q == CurrentPosition(u, a)
             m == rest[a] - loss[a]
  <2>1. a \in Asset /\ None[a] = 0
    BY <1>1, <1>2, BatchFacts
  <2>2. m \in Nat /\ m - q.borrowed = bor[a] /\ next[a] = [q EXCEPT !.borrowed = m]
    BY <1>4, <2>1
  <2> HIDE DEF m
  <2>3. Changed([q EXCEPT !.borrowed = m], q, 0, m - q.borrowed)
    BY <2>1, <2>2, ChangedTo
  <2> QED BY <2>1, <2>2, <2>3
<1>7. \A a \in Asset \ T : None[a] = 0 /\ bor[a] = 0
  BY <1>2, <1>4
<1>8. Call(u, T, None, bor)
  BY <1>1, <1>2, <1>3, <1>5, <1>6, <1>7, BatchFacts, BatchCall
<1>9. CapsChecked(None, bor)
  <2>1. ASSUME NEW a \in Asset PROVE ~(bor[a] > 0) /\ ~(None[a] > 0)
    <3>1. bor[a] \in Int /\ bor[a] <= 0 /\ None[a] = 0
      BY <1>2, <1>4
    <3> QED BY <3>1
  <2> QED BY <2>1 DEF CapsChecked
<1>10. Weighed(u, T, None, bor)
  BY <1>2, <1>4 DEF Weighed
<1> QED BY <1>1, <1>5, <1>8, <1>9, <1>10, BatchFacts

\* Every call of a user, and every write-off.
LEMMA UserCalls ==
    ASSUME IInv, UserStep \/ BatchStep
    PROVE  \E u \in User, T \in SUBSET Asset, dep \in [Asset -> Int], bor \in [Asset -> Int] :
              /\ Call(u, T, dep, bor) /\ T \subseteq supported
              /\ CapsChecked(dep, bor) /\ Weighed(u, T, dep, bor)
<1> USE PoolAssumption
<1> DEFINE Goal ==
      \E u \in User, T \in SUBSET Asset, dep \in [Asset -> Int], bor \in [Asset -> Int] :
          /\ Call(u, T, dep, bor) /\ T \subseteq supported
          /\ CapsChecked(dep, bor) /\ Weighed(u, T, dep, bor)
<1> SUFFICES Goal
  OBVIOUS
<1>0. ASSUME NEW u \in User, NEW T \in SUBSET Asset, NEW dep \in [Asset -> Int],
             NEW bor \in [Asset -> Int],
             Call(u, T, dep, bor), T \subseteq supported, CapsChecked(dep, bor),
             Weighed(u, T, dep, bor)
      PROVE  Goal
  BY <1>0
<1> HIDE DEF Goal
<1>1. ASSUME NEW n \in Int PROVE -n \in Int
  OBVIOUS
<1>2. ASSUME NEW u \in User, NEW a \in Asset, NEW n \in Amounts,
             \/ Deposit(u, a, n) \/ Repay(u, a, n)
             \/ \E c \in Asset : Borrow(u, a, c, n) \/ Withdraw(u, a, c, n)
      PROVE  Goal
  <2>0. n \in Int /\ -n \in Int /\ {a} \in SUBSET Asset
    OBVIOUS
  <2>5. None \in [Asset -> Int] /\ Only(a, n) \in [Asset -> Int]
    BY <2>0, NonePlaced
  <2>1. CASE Deposit(u, a, n)
    <3>1. /\ Call(u, {a}, Only(a, n), None) /\ a \in supported
          /\ CapsChecked(Only(a, n), None) /\ Weighed(u, {a}, Only(a, n), None)
      BY <2>0, <2>1, DepositCall
    <3> QED BY <1>0, <2>0, <2>5, <3>1
  <2>2. ASSUME NEW c \in Asset, Borrow(u, a, c, n)
        PROVE  Goal
    <3>1. /\ Call(u, {a}, None, Only(a, n)) /\ a \in supported
          /\ CapsChecked(None, Only(a, n)) /\ Weighed(u, {a}, None, Only(a, n))
      BY <2>0, <2>2, BorrowCall
    <3> QED BY <1>0, <2>0, <2>5, <3>1
  <2>3. ASSUME NEW c \in Asset, Withdraw(u, a, c, n)
        PROVE  Goal
    <3> DEFINE m == -n
    <3>1. /\ m \in Int /\ Call(u, {a}, Only(a, m), None) /\ a \in supported
          /\ CapsChecked(Only(a, m), None) /\ Weighed(u, {a}, Only(a, m), None)
      BY <2>0, <2>3, WithdrawCall
    <3> HIDE DEF m
    <3> QED BY <1>0, <2>0, <3>1, NonePlaced
  <2>4. CASE Repay(u, a, n)
    <3>1. PICK gone \in Nat : /\ Call(u, {a}, None, Only(a, -gone)) /\ a \in supported
                              /\ CapsChecked(None, Only(a, -gone))
                              /\ Weighed(u, {a}, None, Only(a, -gone))
      BY <2>0, <2>4, RepayCall
    <3> DEFINE m == -gone
    <3>2. /\ m \in Int /\ Call(u, {a}, None, Only(a, m)) /\ a \in supported
          /\ CapsChecked(None, Only(a, m)) /\ Weighed(u, {a}, None, Only(a, m))
      BY <3>1
    <3> HIDE DEF m
    <3> QED BY <1>0, <2>0, <3>2, NonePlaced
  <2> QED BY <1>2, <2>1, <2>2, <2>3, <2>4
<1>3. ASSUME NEW u \in User, NEW ops \in Batches,
             \/ DepositBatch(u, ops) \/ RepayBatch(u, ops)
             \/ \E c \in Asset : WithdrawBatch(u, c, ops) \/ BorrowBatch(u, c, ops)
      PROVE  Goal
  <2>1. ops \in Seq(BatchOperation)
    BY BatchOf
  <2>2. ValidOperations(ops)
    BY <1>3 DEF DepositBatch, RepayBatch, WithdrawBatch, BorrowBatch
  <2>3. /\ Touched(ops) \in SUBSET Asset /\ Sent(ops) \in [Asset -> Int]
        /\ Taken(ops) \in [Asset -> Int] /\ None \in [Asset -> Int]
    BY <2>1, <2>2, BatchFacts DEF None
  <2>4. CASE DepositBatch(u, ops)
    BY <1>0, <2>1, <2>3, <2>4, DepositBatchCall
  <2>5. CASE RepayBatch(u, ops)
    BY <1>0, <2>1, <2>3, <2>5, RepayBatchCall
  <2>6. ASSUME NEW c \in Asset, WithdrawBatch(u, c, ops)
        PROVE  Goal
    BY <1>0, <2>1, <2>3, <2>6, WithdrawBatchCall
  <2>7. ASSUME NEW c \in Asset, BorrowBatch(u, c, ops)
        PROVE  Goal
    BY <1>0, <2>1, <2>3, <2>7, BorrowBatchCall
  <2> QED BY <1>3, <2>4, <2>5, <2>6, <2>7
<1>4. CASE UserStep
  <2>1. PICK u \in User, a \in Asset, n \in Amounts :
             \/ Deposit(u, a, n) \/ Repay(u, a, n)
             \/ \E c \in Asset : Borrow(u, a, c, n) \/ Withdraw(u, a, c, n)
    BY <1>4 DEF UserStep
  <2> QED BY <1>2, <2>1
<1>5. CASE BatchStep
  BY <1>3, <1>5 DEF BatchStep
<1> QED BY <1>4, <1>5

-----------------------------------------------------------------------------
(* A pool that charges no interest: indexes stay at RATE_SCALE, so that     *)
(* settling moves nothing but the accrual clock.                           *)

RatesAreZero ==
    \A a \in Asset : /\ rates[a].base_rate_bps = 0
                     /\ rates[a].slope1_bps = 0
                     /\ rates[a].slope2_bps = 0

Unscaled ==
    \A a \in Asset : /\ book[a].supply_index = RATE_SCALE
                     /\ book[a].borrow_index = RATE_SCALE

Flat == IInv /\ RatesAreZero /\ Unscaled

\* The formulas of interest.rs at a rate of zero.
LEMMA ZeroRates ==
    ASSUME NEW p \in Rates, NEW util \in Nat, NEW elapsed \in Nat,
           p.base_rate_bps = 0, p.slope1_bps = 0, p.slope2_bps = 0
    PROVE  /\ BorrowRate(p, util) = 0
           /\ SupplyRate(p, util, 0) = 0
           /\ Growth(0, elapsed) = 0
<1>1. p.kink_util_bps \in Nat /\ BPS \in Nat \ {0}
  BY ScaleAssumption DEF Rates
<1>2. 0 \div BPS = 0
  BY <1>1
<1>3. BorrowRate(p, util) = 0
  <2>1. /\ p.slope1_bps * util = 0 /\ p.slope1_bps * p.kink_util_bps = 0
        /\ util > p.kink_util_bps => p.slope2_bps * (util - p.kink_util_bps) = 0
    BY <1>1
  <2> QED BY <1>1, <1>2, <2>1 DEF BorrowRate
<1>4. SupplyRate(p, util, 0) = 0
  <2> DEFINE rest == BPS - p.reserve_factor_bps
             pass == IF rest < 0 THEN 0 ELSE rest
  <2>1. pass \in Nat
    BY <1>1 DEF Rates
  <2>2. SupplyRate(p, util, 0) = (0 * util * pass) \div (BPS * BPS)
    BY DEF SupplyRate
  <2> HIDE DEF pass
  <2>3. 0 * util * pass = 0
    BY <2>1
  <2>4. BPS * BPS \in Nat \ {0}
    BY <1>1
  <2>5. \A d \in Nat \ {0} : 0 \div d = 0
    OBVIOUS
  <2> QED BY <2>2, <2>3, <2>4, <2>5
<1>5. Growth(0, elapsed) = 0
  <2>1. 0 * elapsed * RATE_SCALE = 0
    BY ScaleAssumption
  <2>2. BPS * SECONDS_PER_YEAR \in Nat \ {0}
    BY ScaleAssumption
  <2>3. \A d \in Nat \ {0} : 0 \div d = 0
    OBVIOUS
  <2> QED BY <2>1, <2>2, <2>3 DEF Growth
<1> QED BY <1>3, <1>4, <1>5

\* compute_accrual at a rate of zero.
LEMMA ZeroAccrual ==
    ASSUME NEW si \in Nat, NEW bi \in Nat, NEW p \in Rates,
           NEW s \in Int, NEW b \in Int, NEW elapsed \in Nat,
           p.base_rate_bps = 0, p.slope1_bps = 0, p.slope2_bps = 0
    PROVE  ComputeAccrual(si, bi, p, s, b, elapsed)
             = [supply_index |-> si, borrow_index |-> bi,
                interest_to_suppliers |-> 0, interest_to_borrowers |-> 0,
                dust_to_reserves |-> 0]
<1> DEFINE util == UtilizationRatio(s, b)
           rate == BorrowRate(p, util)
           bg == Growth(rate, elapsed)
           sg == Growth(SupplyRate(p, util, rate), elapsed)
<1>1. util \in Nat
  BY UtilizationType
<1> HIDE DEF util
<1>2. rate = 0
  BY <1>1, ZeroRates
<1>3. bg = 0 /\ sg = 0
  BY <1>1, <1>2, ZeroRates
<1>4. TruncDiv(0, RATE_SCALE) = 0
  BY ScaleAssumption DEF TruncDiv, Magnitude
<1>5. \A i \in Nat : Grown(i, 0) = i
  BY ScaleAssumption DEF Grown
<1>6. ComputeAccrual(si, bi, p, s, b, elapsed)
        = [supply_index |-> Grown(si, sg), borrow_index |-> Grown(bi, bg),
           interest_to_suppliers |-> TruncDiv(s * sg, RATE_SCALE),
           interest_to_borrowers |-> TruncDiv(b * bg, RATE_SCALE),
           dust_to_reserves |-> TruncDiv(b * bg, RATE_SCALE)
                                  - TruncDiv(s * sg, RATE_SCALE)]
  BY DEF ComputeAccrual, util
<1> HIDE DEF rate, bg, sg
<1>7. s * sg = 0 /\ b * bg = 0
  BY <1>3
<1> QED BY <1>3, <1>4, <1>5, <1>6, <1>7

LEMMA FlatAccrual ==
    ASSUME Flat, NEW a \in Asset
    PROVE  Accrual(a) = [supply_index |-> RATE_SCALE, borrow_index |-> RATE_SCALE,
                         interest_to_suppliers |-> 0, interest_to_borrowers |-> 0,
                         dust_to_reserves |-> 0]
<1> DEFINE b == book[a]
           elapsed == IF b.last_accrual = NoEntry \/ now <= b.last_accrual
                        THEN 0 ELSE now - b.last_accrual
<1>1. /\ b \in BookType /\ now \in Nat
      /\ b.supply_index = RATE_SCALE /\ b.borrow_index = RATE_SCALE
      /\ b.total_deposited \in Int /\ b.total_borrowed \in Int
      /\ b.last_accrual \in Nat \cup {NoEntry}
      /\ rates[a] \in Rates
  BY DEF Flat, IInv, TypeOK, Unscaled, BookType, RatesType, Rates
<1>2. elapsed \in Nat
  BY <1>1 DEF NoEntry
<1>3. CASE elapsed = 0
  BY <1>1, <1>3 DEF Accrual
<1>4. CASE elapsed # 0
  <2>1. Accrual(a) = ComputeAccrual(RATE_SCALE, RATE_SCALE, rates[a],
                                    b.total_deposited, b.total_borrowed, elapsed)
    BY <1>1, <1>4 DEF Accrual
  <2> HIDE DEF b, elapsed
  <2> QED BY <1>1, <1>2, <2>1, ZeroAccrual, ScaleAssumption DEF Flat, RatesAreZero
<1> QED BY <1>3, <1>4

\* Settling a book leaves its totals alone.
LEMMA FlatAccrued ==
    ASSUME Flat, NEW a \in Asset
    PROVE  /\ Accrued(a) \in BookType
           /\ Accrued(a).supply_index = RATE_SCALE
           /\ Accrued(a).borrow_index = RATE_SCALE
           /\ Accrued(a).total_deposited = book[a].total_deposited
           /\ Accrued(a).total_borrowed = book[a].total_borrowed
<1> DEFINE r == Accrual(a)
           b == book[a]
<1>1. Accrued(a) \in BookType /\ b \in BookType
  BY AccruedFacts DEF Flat, IInv, TypeOK
<1>2. /\ Accrued(a).supply_index = RATE_SCALE
      /\ Accrued(a).borrow_index = RATE_SCALE
  BY FlatAccrual, AccruedFacts DEF Flat
<1>3. r.interest_to_suppliers = 0 /\ r.interest_to_borrowers = 0
  BY FlatAccrual
<1>4. /\ Accrued(a).total_deposited = b.total_deposited + r.interest_to_suppliers
      /\ Accrued(a).total_borrowed = b.total_borrowed + r.interest_to_borrowers
  BY <1>1 DEF Accrued, SettledBook, WithAccrual, BookType
<1>5. b.total_deposited \in Int /\ b.total_borrowed \in Int
  BY <1>1 DEF BookType
<1> HIDE DEF r, b
<1>6. /\ b.total_deposited + r.interest_to_suppliers = b.total_deposited
      /\ b.total_borrowed + r.interest_to_borrowers = b.total_borrowed
  BY <1>3, <1>5
<1> QED BY <1>1, <1>2, <1>4, <1>6 DEF b

\* A flat book with the totals of asset a changed by dep and bor.
BookMoved(b, a, dep, bor) ==
    /\ b.supply_index = RATE_SCALE /\ b.borrow_index = RATE_SCALE
    /\ b.total_deposited = book[a].total_deposited + dep
    /\ b.total_borrowed = book[a].total_borrowed + bor

LEMMA FlatPosted ==
    ASSUME Flat, NEW a \in Asset, NEW dep \in Int, NEW bor \in Int,
           NEW bal \in Int, NEW fee \in Int
    PROVE  BookMoved(Posted(Accrued(a), dep, bor, bal, fee), a, dep, bor)
<1> DEFINE c == Accrued(a)
<1>1. /\ c \in BookType
      /\ c.supply_index = RATE_SCALE /\ c.borrow_index = RATE_SCALE
      /\ c.total_deposited = book[a].total_deposited
      /\ c.total_borrowed = book[a].total_borrowed
  BY FlatAccrued
<1> HIDE DEF c
<1> QED BY <1>1 DEF Posted, BookType, BookMoved, c

-----------------------------------------------------------------------------
(* What a step does to the totals.                                         *)

DepositTotals == [a \in Asset |-> book[a].total_deposited]
BorrowTotals == [a \in Asset |-> book[a].total_borrowed]

\* The deposits of asset a change by dep, its debt by bor, no other total.
TotalsMove(a, dep, bor) ==
    /\ Unscaled'
    /\ DepositTotals' = [DepositTotals EXCEPT ![a] = @ + dep]
    /\ BorrowTotals' = [BorrowTotals EXCEPT ![a] = @ + bor]

TotalsStay == Unscaled' /\ UNCHANGED <<DepositTotals, BorrowTotals>>

LEMMA TotalsTyped ==
    ASSUME IInv
    PROVE  /\ DepositTotals \in [Asset -> Int] /\ BorrowTotals \in [Asset -> Int]
           /\ book \in [Asset -> BookType]
           /\ \A a \in Asset : /\ DepositTotals[a] = book[a].total_deposited
                               /\ BorrowTotals[a] = book[a].total_borrowed
BY DEF IInv, TypeOK, BookType, DepositTotals, BorrowTotals

\* The books of a step, asset by asset.
LEMMA TotalsMoved ==
    ASSUME Flat, NEW a \in Asset, NEW dep \in Int, NEW bor \in Int,
           BookMoved(book'[a], a, dep, bor),
           \A e \in Asset \ {a} : BookMoved(book'[e], e, 0, 0)
    PROVE  TotalsMove(a, dep, bor)
<1>1. Unscaled'
  BY DEF Unscaled, BookMoved
<1>2. \A e \in Asset : /\ book[e].total_deposited \in Int
                       /\ book[e].total_borrowed \in Int
  BY DEF Flat, IInv, TypeOK, BookType
<1>3. \A e \in Asset :
         /\ book'[e].total_deposited
               = IF e = a THEN book[e].total_deposited + dep ELSE book[e].total_deposited
         /\ book'[e].total_borrowed
               = IF e = a THEN book[e].total_borrowed + bor ELSE book[e].total_borrowed
  BY <1>2 DEF BookMoved
<1>4. DepositTotals' = [DepositTotals EXCEPT ![a] = @ + dep]
  BY <1>3 DEF DepositTotals
<1>5. BorrowTotals' = [BorrowTotals EXCEPT ![a] = @ + bor]
  BY <1>3 DEF BorrowTotals
<1> QED BY <1>1, <1>4, <1>5 DEF TotalsMove

LEMMA FlatUnmoved ==
    ASSUME Flat, NEW a \in Asset
    PROVE  BookMoved(book[a], a, 0, 0) /\ BookMoved(Accrued(a), a, 0, 0)
<1>1. book[a].total_deposited \in Int /\ book[a].total_borrowed \in Int
  BY DEF Flat, IInv, TypeOK, BookType
<1> QED BY <1>1, FlatAccrued DEF BookMoved, Flat, Unscaled

\* One book written, as most entrypoints do.
LEMMA OneBookMoved ==
    ASSUME Flat, NEW a \in Asset, NEW dep \in Int, NEW bor \in Int,
           NEW bal \in Int, NEW fee \in Int,
           book' = [book EXCEPT ![a] = Posted(Accrued(a), dep, bor, bal, fee)]
    PROVE  TotalsMove(a, dep, bor)
<1>1. book \in [Asset -> BookType]
  BY DEF Flat, IInv, TypeOK
<1>2. /\ book'[a] = Posted(Accrued(a), dep, bor, bal, fee)
      /\ \A e \in Asset \ {a} : book'[e] = book[e]
  BY <1>1
<1>3. BookMoved(book'[a], a, dep, bor)
  BY <1>2, FlatPosted
<1>4. \A e \in Asset \ {a} : BookMoved(book'[e], e, 0, 0)
  BY <1>2, FlatUnmoved
<1> QED BY <1>3, <1>4, TotalsMoved

\* Books settled and nothing more.
LEMMA BooksSettled ==
    ASSUME Flat, \A e \in Asset : book'[e] = book[e] \/ book'[e] = Accrued(e)
    PROVE  TotalsStay
<1>1. \A e \in Asset :
        /\ book'[e].supply_index = RATE_SCALE /\ book'[e].borrow_index = RATE_SCALE
        /\ book'[e].total_deposited = book[e].total_deposited
        /\ book'[e].total_borrowed = book[e].total_borrowed
  BY FlatAccrued DEF Flat, Unscaled
<1> QED BY <1>1 DEF TotalsStay, Unscaled, DepositTotals, BorrowTotals

\* The seized deposit changes hands: the total of deposits stays.
LEMMA LiquidateMoves ==
    ASSUME Flat, NEW l \in User, NEW u \in User, NEW c \in Asset, NEW d \in Asset,
           NEW n \in Int, Liquidate(l, u, c, d, n)
    PROVE  TotalsMove(d, 0, -Smaller(n, CurrentPosition(u, d).borrowed))
<1> DEFINE repay == Smaller(n, CurrentPosition(u, d).borrowed)
           b == Posted(Accrued(d), 0, -repay, repay, 0)
<1>1. book' = [book EXCEPT ![c] = Accrued(c), ![d] = b]
  BY DEF Liquidate
<1>2. repay \in Nat
  BY LiquidatedAmounts DEF Flat
<1> HIDE DEF repay
<1>3. 0 \in Int /\ repay \in Int /\ -repay \in Int
  BY <1>2
<1>4. BookMoved(b, d, 0, -repay)
  BY <1>3, FlatPosted
<1> HIDE DEF b
<1>5. book \in [Asset -> BookType]
  BY DEF Flat, IInv, TypeOK
<1>6. /\ book'[d] = b
      /\ \A e \in Asset \ {d} : book'[e] = book[e] \/ book'[e] = Accrued(e)
  BY <1>1, <1>5
<1>7. \A e \in Asset \ {d} : BookMoved(book'[e], e, 0, 0)
  BY <1>6, FlatUnmoved
<1>8. TotalsMove(d, 0, -repay)
  BY <1>3, <1>4, <1>6, <1>7, TotalsMoved
<1> QED BY <1>8 DEF repay

\* Every other step settles books at most.
LEMMA OthersSettle ==
    ASSUME Flat,
           \/ \E a \in Asset : AccrueInterest(a)
           \/ AdminStep
           \/ FeeStep
           \/ OracleStep /\ UNCHANGED <<now, paused, supported, adminVars, poolVars>>
           \/ Tick
           \/ UNCHANGED vars
    PROVE  TotalsStay /\ UNCHANGED position
<1> USE PoolAssumption
<1>0. book \in [Asset -> BookType]
  BY DEF Flat, IInv, TypeOK
<1>1. ASSUME NEW a \in Asset, book' = [book EXCEPT ![a] = Accrued(a)]
      PROVE  TotalsStay
  <2>1. \A e \in Asset : book'[e] = book[e] \/ book'[e] = Accrued(e)
    BY <1>0, <1>1
  <2> QED BY <2>1, BooksSettled
<1>2. ASSUME UNCHANGED book PROVE TotalsStay
  BY <1>2, BooksSettled
<1>3. ASSUME NEW a \in Asset, AccrueInterest(a)
      PROVE  TotalsStay /\ UNCHANGED position
  BY <1>1, <1>3 DEF AccrueInterest
<1>4. ASSUME NEW a \in Asset, NEW x \in RateChoices, SetInterestParams(a, x)
      PROVE  TotalsStay /\ UNCHANGED position
  BY <1>1, <1>4 DEF SetInterestParams
<1>5. ASSUME NEW a \in Asset, NEW e, ApplyConfigureAsset(a, e)
      PROVE  TotalsStay /\ UNCHANGED position
  <2>1. PICK t : book' = [book EXCEPT ![a].last_accrual = t]
    BY <1>5 DEF ApplyConfigureAsset
  <2>2. \A c \in Asset :
          /\ book'[c].supply_index = book[c].supply_index
          /\ book'[c].borrow_index = book[c].borrow_index
          /\ book'[c].total_deposited = book[c].total_deposited
          /\ book'[c].total_borrowed = book[c].total_borrowed
    BY <1>0, <2>1 DEF BookType
  <2>3. UNCHANGED position
    BY <1>5 DEF ApplyConfigureAsset
  <2> QED BY <2>2, <2>3 DEF TotalsStay, Unscaled, DepositTotals, BorrowTotals, Flat
<1>6. ASSUME NEW a \in Asset, NEW n \in Int,
             ApplyRecordProtocolFee(a, n) \/ ApplyWithdrawReserves(a, n)
      PROVE  TotalsStay /\ UNCHANGED position
  <2>1. PICK m \in Int : /\ book' = [book EXCEPT ![a] = Posted(Accrued(a), 0, 0, m, m)]
                         /\ UNCHANGED position
    BY <1>6 DEF ApplyRecordProtocolFee, ApplyWithdrawReserves
  <2>0. 0 \in Int
    OBVIOUS
  <2>2. TotalsMove(a, 0, 0)
    BY <2>0, <2>1, OneBookMoved
  <2>3. TotalsStay
    BY <2>2, TotalsTyped DEF Flat, TotalsMove, TotalsStay
  <2> QED BY <2>1, <2>3
<1>7. CASE AdminStep
  <2>1. ASSUME \/ \E a \in Asset :
                    \/ \E c, d \in CapChoices : ApplyUpdateAssetCaps(a, c, d)
                    \/ \E c \in CapChoices : SetSupplyCap(a, c) \/ SetBorrowCap(a, c)
                    \/ \E x \in RiskChoices :
                          ApplySetAssetRiskParams(a, x[1], x[2], x[3])
               \/ \E x \in RatioChoices : ApplySetMinCollateralRatio(x)
               \/ \E x \in LiquidationChoices : SetLiquidationParams(x[1], x[2])
               \/ \E f \in Pausing : ApplySetPaused(f) \/ ApplySetPaused(~f)
        PROVE  UNCHANGED book /\ UNCHANGED position
    BY <2>1 DEF ApplyUpdateAssetCaps, SetSupplyCap, SetBorrowCap,
                ApplySetAssetRiskParams, ApplySetMinCollateralRatio,
                SetLiquidationParams, ApplySetPaused, poolVars
  <2> QED BY <1>2, <1>4, <1>5, <1>7, <2>1 DEF AdminStep
<1>8. CASE FeeStep
  <2>1. ASSUME NEW f \in FeeLimits, SetMaxProtocolFeeBps(f)
        PROVE  UNCHANGED book /\ UNCHANGED position
    BY <2>1 DEF SetMaxProtocolFeeBps, poolVars
  <2> QED BY <1>2, <1>6, <1>8, <2>1 DEF FeeStep
<1>9. CASE \/ OracleStep /\ UNCHANGED <<now, paused, supported, adminVars, poolVars>>
           \/ Tick
           \/ UNCHANGED vars
  BY <1>2, <1>9 DEF poolVars, Tick, vars
<1> QED BY <1>3, <1>7, <1>8, <1>9

\* What a call does to the totals, and what its caps were checked against.
LEMMA CallTotals ==
    ASSUME Flat, NEW u \in User, NEW T \in SUBSET Asset,
           NEW dep \in [Asset -> Int], NEW bor \in [Asset -> Int], Call(u, T, dep, bor)
    PROVE  /\ Unscaled'
           /\ \A a \in Asset :
                 /\ book'[a].total_deposited = book[a].total_deposited + dep[a]
                 /\ book'[a].total_borrowed = book[a].total_borrowed + bor[a]
<1>1. PICK S \in SUBSET Asset, bal \in [Asset -> Int] :
         T \subseteq S /\ CallPosts(S, dep, bor, bal)
  BY DEF Call
<1>2. ASSUME NEW a \in Asset PROVE BookMoved(book'[a], a, dep[a], bor[a])
  <2>1. dep[a] \in Int /\ bor[a] \in Int /\ bal[a] \in Int /\ 0 \in Int
    OBVIOUS
  <2>2. CASE a \in S
    BY <1>1, <2>1, <2>2, FlatPosted DEF CallPosts
  <2>3. CASE a \notin S
    <3>1. dep[a] = 0 /\ bor[a] = 0
      BY <1>1, <2>3 DEF Call
    <3> QED BY <1>1, <2>3, <3>1, FlatUnmoved DEF CallPosts
  <2> QED BY <2>2, <2>3
<1> QED BY <1>2 DEF BookMoved, Unscaled

\* Every step that moves the totals.
LEMMA TotalsStep ==
    ASSUME Flat, UserStep \/ LiquidationStep \/ BatchStep
    PROVE  /\ UNCHANGED <<caps, rates>>
           /\ \/ \E u \in User, T \in SUBSET Asset, dep \in [Asset -> Int],
                    bor \in [Asset -> Int] :
                    Call(u, T, dep, bor) /\ CapsChecked(dep, bor)
              \/ \E a \in Asset, n \in Nat : TotalsMove(a, 0, -n)
<1> USE PoolAssumption
<1>1. CASE UserStep \/ BatchStep
  BY <1>1, UserCalls DEF Call, SettingsKept, Flat
<1>2. ASSUME NEW l \in User, NEW u \in User, NEW c \in Asset, NEW d \in Asset,
             NEW n \in Amounts, Liquidate(l, u, c, d, n)
      PROVE  /\ UNCHANGED <<caps, rates>>
             /\ \E a \in Asset, m \in Nat : TotalsMove(a, 0, -m)
  <2>1. /\ Smaller(n, CurrentPosition(u, d).borrowed) \in Nat
        /\ TotalsMove(d, 0, -Smaller(n, CurrentPosition(u, d).borrowed))
    BY <1>2, LiquidateMoves, LiquidatedAmounts DEF Flat
  <2> QED BY <1>2, <2>1 DEF Liquidate, adminVars
<1>3. ASSUME NEW u \in User, NEW a \in Asset, WriteoffBadDebt(u, a)
      PROVE  \E T \in SUBSET Asset, dep \in [Asset -> Int], bor \in [Asset -> Int] :
                Call(u, T, dep, bor) /\ CapsChecked(dep, bor)
  <2>1. PICK T \in SUBSET {a}, gone \in Nat : Call(u, T, None, Only(a, -gone))
    BY <1>3, WriteoffCall DEF Flat
  <2> DEFINE m == -gone
  <2>2. m \in Int /\ ~(m > 0) /\ T \in SUBSET Asset /\ Call(u, T, None, Only(a, m))
    BY <2>1
  <2> HIDE DEF m
  <2>3. CapsChecked(None, Only(a, m))
    BY <2>2 DEF CapsChecked, Only, None
  <2> QED BY <2>2, <2>3, NonePlaced
<1>4. CASE LiquidationStep
  BY <1>2, <1>3, <1>4 DEF LiquidationStep, Call, SettingsKept
<1> QED BY <1>1, <1>4

\* Without interest, none appears.
LEMMA FlatStep ==
    ASSUME NoInterest, Flat, [Next \/ BatchStep]_vars
    PROVE  Flat'
<1> DEFINE Moving == UserStep \/ LiquidationStep \/ BatchStep
<1>1. IInv'
  BY NextSound DEF Flat, Sound
<1>2. Unscaled'
  <2>1. CASE Moving
    BY <2>1, TotalsStep, CallTotals DEF TotalsMove
  <2>2. CASE ~Moving
    BY <2>2, OthersSettle DEF Next, TotalsStay
  <2> QED BY <2>1, <2>2
<1>3. RatesAreZero'
  <2>1. CASE Moving
    BY <2>1, TotalsStep DEF Flat, RatesAreZero
  <2>2. CASE AdminStep
    <3>1. ASSUME NEW a \in Asset, NEW x \in RateChoices, SetInterestParams(a, x)
          PROVE  RatesAreZero'
      <4>1. rates' = [rates EXCEPT ![a] = x]
        BY <3>1 DEF SetInterestParams
      <4>2. x.base_rate_bps = 0 /\ x.slope1_bps = 0 /\ x.slope2_bps = 0
        BY DEF NoInterest
      <4> QED BY <4>1, <4>2 DEF Flat, RatesAreZero, IInv, TypeOK
    <3>2. ASSUME UNCHANGED rates PROVE RatesAreZero'
      BY <3>2 DEF Flat, RatesAreZero
    <3> QED BY <2>2, <3>1, <3>2
            DEF AdminStep, ApplyConfigureAsset, ApplyUpdateAssetCaps, SetSupplyCap,
                SetBorrowCap, ApplySetAssetRiskParams, ApplySetMinCollateralRatio,
                SetLiquidationParams, ApplySetPaused, adminVars
  <2>3. CASE ~(Moving \/ AdminStep)
    <3>1. UNCHANGED rates
      BY <2>3 DEF Next, AccrueInterest, FeeStep, SetMaxProtocolFeeBps,
                  ApplyRecordProtocolFee, ApplyWithdrawReserves, Tick, adminVars, vars
    <3> QED BY <3>1 DEF Flat, RatesAreZero
  <2> QED BY <2>1, <2>2, <2>3
<1> QED BY <1>1, <1>2, <1>3 DEF Flat

LEMMA FlatInit == Init => Flat
<1> SUFFICES ASSUME Init PROVE Flat
  OBVIOUS
<1>1. RatesAreZero
  BY DEF Init, RatesAreZero, DefaultRates
<1>2. Unscaled
  BY DEF Init, Unscaled, EmptyBook
<1> QED BY <1>1, <1>2, InitSound DEF Flat

-----------------------------------------------------------------------------
(* Caps.                                                                   *)

LEMMA CapsStep ==
    ASSUME Flat, OutstandingWithinCaps, [Next \/ BatchStep]_vars
    PROVE  OutstandingWithinCaps'
<1> USE DEF OutstandingWithinCaps
<1> DEFINE Moving == UserStep \/ LiquidationStep \/ BatchStep
<1>1. /\ \A a \in Asset : /\ book[a].total_deposited \in Int
                          /\ book[a].total_borrowed \in Int
                          /\ caps[a].deposit \in Int /\ caps[a].borrow \in Int
      /\ caps \in [Asset -> CapsType]
  BY DEF Flat, IInv, TypeOK, BookType, CapsType
<1>2. ASSUME UNCHANGED <<DepositTotals, BorrowTotals>>
      PROVE  \A a \in Asset : /\ book'[a].total_deposited = book[a].total_deposited
                              /\ book'[a].total_borrowed = book[a].total_borrowed
  BY <1>2 DEF DepositTotals, BorrowTotals
<1>3. CASE Moving
  <2>1. UNCHANGED caps
    BY <1>3, TotalsStep
  <2>2. ASSUME NEW u \in User, NEW T \in SUBSET Asset, NEW dep \in [Asset -> Int],
               NEW bor \in [Asset -> Int], Call(u, T, dep, bor), CapsChecked(dep, bor)
        PROVE  OutstandingWithinCaps'
    <3> SUFFICES ASSUME NEW a \in Asset
                 PROVE  /\ caps[a].deposit # Unlimited
                              => book'[a].total_deposited <= caps[a].deposit
                        /\ caps[a].borrow # Unlimited
                              => book'[a].total_borrowed <= caps[a].borrow
      BY <2>1
    <3> DEFINE d == dep[a]
               b == bor[a]
               x == book[a].total_deposited
               y == book[a].total_borrowed
               cd == caps[a].deposit
               cb == caps[a].borrow
    <3>1. /\ d \in Int /\ b \in Int /\ x \in Int /\ y \in Int /\ cd \in Int /\ cb \in Int
          /\ book'[a].total_deposited = x + d /\ book'[a].total_borrowed = y + b
      BY <1>1, <2>2, CallTotals
    <3>2. /\ d > 0 /\ cd # Unlimited => x + d <= cd
          /\ b > 0 /\ cb # Unlimited => y + b <= cb
      BY <2>2, FlatAccrued DEF CapsChecked, WithinDepositCaps, WithinBorrowCaps
    <3>3. (cd # Unlimited => x <= cd) /\ (cb # Unlimited => y <= cb)
      OBVIOUS
    <3> HIDE DEF d, b, x, y, cd, cb
    <3>4. (cd # Unlimited => x + d <= cd) /\ (cb # Unlimited => y + b <= cb)
      BY <3>1, <3>2, <3>3
    <3> QED BY <3>1, <3>4 DEF cd, cb
  <2>3. ASSUME NEW a \in Asset, NEW n \in Nat, TotalsMove(a, 0, -n)
        PROVE  OutstandingWithinCaps'
    <3>1. \A e \in Asset :
             /\ book'[e].total_deposited
                   = IF e = a THEN book[e].total_deposited + 0 ELSE book[e].total_deposited
             /\ book'[e].total_borrowed
                   = IF e = a THEN book[e].total_borrowed + (-n) ELSE book[e].total_borrowed
      BY <2>3 DEF TotalsMove, DepositTotals, BorrowTotals
    <3> QED BY <1>1, <2>1, <3>1
  <2> QED BY <1>3, <2>2, <2>3, TotalsStep
<1>4. CASE AdminStep
  <2>1. ASSUME NEW a \in Asset, NEW c, NEW d, ApplyUpdateAssetCaps(a, c, d)
        PROVE  OutstandingWithinCaps'
    <3>1. /\ caps' = [caps EXCEPT ![a].deposit = c, ![a].borrow = d]
          /\ c # Unlimited => c >= book[a].total_deposited
          /\ d # Unlimited => d >= book[a].total_borrowed
          /\ UNCHANGED book
      BY <2>1 DEF ApplyUpdateAssetCaps, poolVars
    <3>2. \A e \in Asset :
             /\ caps'[e].deposit = IF e = a THEN c ELSE caps[e].deposit
             /\ caps'[e].borrow = IF e = a THEN d ELSE caps[e].borrow
      BY <1>1, <3>1 DEF CapsType
    <3> QED BY <1>1, <3>1, <3>2
  <2>2. ASSUME NEW a \in Asset, NEW c, SetSupplyCap(a, c) \/ SetBorrowCap(a, c)
        PROVE  OutstandingWithinCaps'
    <3>1. UNCHANGED book
      BY <2>2 DEF SetSupplyCap, SetBorrowCap, poolVars
    <3>2. \A e \in Asset : /\ caps'[e].deposit = caps[e].deposit
                           /\ caps'[e].borrow = caps[e].borrow
      BY <1>1, <2>2 DEF SetSupplyCap, SetBorrowCap, CapsType
    <3> QED BY <3>1, <3>2
  <2>3. CASE UNCHANGED caps
    BY <1>1, <1>2, <1>4, <2>3, OthersSettle DEF TotalsStay
  <2> QED BY <1>4, <2>1, <2>2, <2>3
          DEF AdminStep, ApplyConfigureAsset, SetInterestParams,
              ApplySetAssetRiskParams, ApplySetMinCollateralRatio,
              SetLiquidationParams, ApplySetPaused, adminVars
<1>5. CASE ~(Moving \/ AdminStep)
  <2>1. UNCHANGED caps
    BY <1>5 DEF Next, AccrueInterest, FeeStep, SetMaxProtocolFeeBps,
                ApplyRecordProtocolFee, ApplyWithdrawReserves, Tick, adminVars, vars
  <2>2. TotalsStay
    BY <1>5, OthersSettle DEF Next
  <2> QED BY <1>1, <1>2, <2>1, <2>2 DEF TotalsStay
<1> QED BY <1>3, <1>4, <1>5

\* While no interest is charged, neither a deposit nor a borrow, alone or in a
\* batch, nor a change of the caps leaves more outstanding than
\* update_asset_caps allows.
THEOREM CapsHold ==
    ASSUME NoInterest
    PROVE  BatchSpec => []OutstandingWithinCaps
<1>1. Init => Flat /\ OutstandingWithinCaps
  <2> SUFFICES ASSUME Init PROVE OutstandingWithinCaps
    BY FlatInit
  <2>1. \A a \in Asset : caps[a].deposit = Unlimited /\ caps[a].borrow = Unlimited
    BY DEF Init, NoCaps
  <2> QED BY <2>1 DEF OutstandingWithinCaps
<1>2. Flat /\ OutstandingWithinCaps /\ [Next \/ BatchStep]_vars
         => (Flat /\ OutstandingWithinCaps)'
  BY FlatStep, CapsStep
<1> QED BY <1>1, <1>2, PTL DEF BatchSpec

-----------------------------------------------------------------------------
(* Positions under the totals.                                             *)

FlatPosition ==
    {p \in PositionType : /\ p.supply_index_snapshot = RATE_SCALE
                          /\ p.borrow_index_snapshot = RATE_SCALE}

\* Settling a position that never earned anything changes nothing.
LEMMA SettledFlat ==
    ASSUME Flat, NEW a \in Asset, NEW p \in FlatPosition
    PROVE  AtCurrentIndex(p, a) = p
<1> DEFINE r == Accrual(a)
<1>1. r.supply_index = RATE_SCALE /\ r.borrow_index = RATE_SCALE
  BY FlatAccrual
<1>2. /\ p \in PositionType /\ p.deposited \in Nat /\ p.borrowed \in Nat
      /\ p.supply_index_snapshot = RATE_SCALE /\ p.borrow_index_snapshot = RATE_SCALE
  BY DEF FlatPosition, PositionType
<1>3. ASSUME NEW x \in Nat PROVE Realized(x, RATE_SCALE, RATE_SCALE) = x
  <2>1. RATE_SCALE \in Nat \ {0}
    BY ScaleAssumption
  <2>2. x * (RATE_SCALE - RATE_SCALE) = 0
    BY <2>1
  <2>3. TruncDiv(0, RATE_SCALE) = 0
    BY <2>1 DEF TruncDiv, Magnitude
  <2> QED BY <2>2, <2>3 DEF Realized
<1>4. AtCurrentIndex(p, a) =
        [deposited |-> Realized(p.deposited, RATE_SCALE, RATE_SCALE),
         borrowed |-> Realized(p.borrowed, RATE_SCALE, RATE_SCALE),
         supply_index_snapshot |-> RATE_SCALE,
         borrow_index_snapshot |-> RATE_SCALE]
  BY <1>1, <1>2, ScaleAssumption DEF AtCurrentIndex, CarriedTo, ComputeAccruedPosition
<1>5. AtCurrentIndex(p, a) =
        [deposited |-> p.deposited, borrowed |-> p.borrowed,
         supply_index_snapshot |-> p.supply_index_snapshot,
         borrow_index_snapshot |-> p.borrow_index_snapshot]
  BY <1>2, <1>3, <1>4
<1> QED BY <1>2, <1>5 DEF PositionType

\* Positions, totals that match them, and no holdings in unsupported assets.
Placed(f, dep, bor) ==
    /\ f \in [User -> [Asset -> PositionType]]
    /\ dep \in [Asset -> Int] /\ bor \in [Asset -> Int]
    /\ Sums(f, dep, bor)
    /\ \A u \in User, a \in Asset :
          /\ f[u][a] \in FlatPosition
          /\ f[u][a].deposited + f[u][a].borrowed > 0 => a \in supported

\* One write_position with the matching changes of the totals.
LEMMA PlacedWrite ==
    ASSUME NEW f, NEW dep, NEW bor, Placed(f, dep, bor),
           NEW u \in User, NEW a \in Asset, a \in supported,
           NEW p \in FlatPosition, NEW d \in Int, NEW b \in Int,
           p.deposited = f[u][a].deposited + d,
           p.borrowed = f[u][a].borrowed + b
    PROVE  Placed([f EXCEPT ![u][a] = Stored(p)],
                  [dep EXCEPT ![a] = @ + d], [bor EXCEPT ![a] = @ + b])
<1> DEFINE new == [f EXCEPT ![u][a] = Stored(p)]
           dep2 == [dep EXCEPT ![a] = @ + d]
           bor2 == [bor EXCEPT ![a] = @ + b]
<1>1. /\ f \in [User -> [Asset -> PositionType]] /\ p \in PositionType
      /\ dep \in [Asset -> Int] /\ bor \in [Asset -> Int] /\ Sums(f, dep, bor)
  BY DEF Placed, FlatPosition
<1>2. Sums(new, [dep EXCEPT ![a] = @ + p.deposited - f[u][a].deposited],
                [bor EXCEPT ![a] = @ + p.borrowed - f[u][a].borrowed])
  BY <1>1, RewrittenSums
<1>3. /\ f[u][a].deposited \in Int /\ f[u][a].borrowed \in Int
      /\ dep[a] \in Int /\ bor[a] \in Int
      /\ p.deposited \in Int /\ p.borrowed \in Int
  BY <1>1 DEF PositionType
<1>4. /\ dep[a] + p.deposited - f[u][a].deposited = dep[a] + d
      /\ bor[a] + p.borrowed - f[u][a].borrowed = bor[a] + b
  BY <1>3
<1>5. Sums(new, dep2, bor2)
  BY <1>2, <1>4
<1>6. Stored(p) \in FlatPosition
  <2>1. EmptyPosition \in FlatPosition
    BY ScaleAssumption DEF EmptyPosition, FlatPosition, PositionType
  <2> QED BY <2>1 DEF Stored
<1>7. dep2 \in [Asset -> Int] /\ bor2 \in [Asset -> Int]
  BY <1>1, <1>3
<1> HIDE DEF dep2, bor2
<1>8. new \in [User -> [Asset -> PositionType]]
  BY <1>1, <1>6 DEF FlatPosition
<1>9. \A v \in User, e \in Asset :
         new[v][e] = IF v = u /\ e = a THEN Stored(p) ELSE f[v][e]
  BY <1>1
<1> HIDE DEF new
<1>10. \A v \in User, e \in Asset :
          /\ new[v][e] \in FlatPosition
          /\ new[v][e].deposited + new[v][e].borrowed > 0 => e \in supported
  BY <1>6, <1>9 DEF Placed
<1>11. Placed(new, dep2, bor2)
  BY <1>5, <1>7, <1>8, <1>10 DEF Placed
<1> QED BY <1>11 DEF new, dep2, bor2

PlacedNow == Placed(position, DepositTotals, BorrowTotals)

LEMMA HeldPosition ==
    ASSUME Flat, PlacedNow, NEW u \in User, NEW a \in Asset
    PROVE  /\ CurrentPosition(u, a) = position[u][a]
           /\ position[u][a] \in FlatPosition
           /\ position[u][a] \in PositionType
           /\ position[u][a].deposited \in Nat /\ position[u][a].borrowed \in Nat
BY SettledFlat DEF PlacedNow, Placed, CurrentPosition, FlatPosition, PositionType

LEMMA ChangedPosition ==
    ASSUME NEW p \in FlatPosition, NEW x \in Nat
    PROVE  /\ [p EXCEPT !.deposited = x] \in FlatPosition
           /\ [p EXCEPT !.deposited = x].deposited = x
           /\ [p EXCEPT !.deposited = x].borrowed = p.borrowed
           /\ [p EXCEPT !.borrowed = x] \in FlatPosition
           /\ [p EXCEPT !.borrowed = x].borrowed = x
           /\ [p EXCEPT !.borrowed = x].deposited = p.deposited
BY DEF FlatPosition, PositionType

\* The positions a call writes, with the totals it moves.
LEMMA CallPlaced ==
    ASSUME Flat, PlacedNow, NEW u \in User, NEW T \in SUBSET Asset,
           NEW dep \in [Asset -> Int], NEW bor \in [Asset -> Int],
           Call(u, T, dep, bor), T \subseteq supported
    PROVE  PlacedNow'
<1>1. /\ UNCHANGED supported
      /\ \A a \in Asset \ T : dep[a] = 0 /\ bor[a] = 0
      /\ \A a \in Asset : /\ book'[a].total_deposited = book[a].total_deposited + dep[a]
                          /\ book'[a].total_borrowed = book[a].total_borrowed + bor[a]
  BY CallTotals DEF Call, SettingsKept
<1>2. PICK next :
         /\ position' = [position EXCEPT ![u] =
               [a \in Asset |-> IF a \in T THEN Stored(next[a]) ELSE position[u][a]]]
         /\ \A a \in T : Changed(next[a], CurrentPosition(u, a), dep[a], bor[a])
  BY DEF Call, CallPositions
<1> DEFINE row == [a \in Asset |-> IF a \in T THEN Stored(next[a]) ELSE position[u][a]]
<1>3. /\ position \in [User -> [Asset -> PositionType]]
      /\ \A v \in User, a \in Asset :
            /\ position[v][a] \in FlatPosition
            /\ position[v][a].deposited + position[v][a].borrowed > 0 => a \in supported
      /\ DepositTotals \in [Asset -> Int] /\ BorrowTotals \in [Asset -> Int]
      /\ Sums(position, DepositTotals, BorrowTotals)
  BY DEF PlacedNow, Placed
<1>4. ASSUME NEW a \in Asset
      PROVE  /\ row[a] \in FlatPosition
             /\ row[a].deposited = position[u][a].deposited + dep[a]
             /\ row[a].borrowed = position[u][a].borrowed + bor[a]
             /\ a \in T \/ row[a] = position[u][a]
  <2> DEFINE q == position[u][a]
             p == next[a]
  <2>1. /\ q \in FlatPosition /\ q.deposited \in Nat /\ q.borrowed \in Nat
        /\ CurrentPosition(u, a) = q
    BY HeldPosition
  <2>2. CASE a \in T
    <3>1. Changed(p, q, dep[a], bor[a]) /\ row[a] = Stored(p)
      BY <1>2, <2>1, <2>2
    <3> HIDE DEF p, q, row
    <3>2. /\ p \in FlatPosition /\ p.deposited = q.deposited + dep[a]
          /\ p.borrowed = q.borrowed + bor[a]
      BY <2>1, <3>1 DEF Changed, FlatPosition, PositionType
    <3>3. EmptyPosition \in FlatPosition
      BY ScaleAssumption DEF EmptyPosition, FlatPosition, PositionType
    <3>4. /\ Stored(p) \in FlatPosition /\ Stored(p).deposited = p.deposited
          /\ Stored(p).borrowed = p.borrowed
      BY <3>2, <3>3 DEF Stored, EmptyPosition
    <3> QED BY <2>2, <3>1, <3>2, <3>4 DEF q
  <2>3. CASE a \notin T
    BY <1>1, <2>1, <2>3
  <2> QED BY <2>2, <2>3
<1>5. position' = [position EXCEPT ![u] = row]
  BY <1>2
<1> HIDE DEF row
<1>6. /\ \A a \in Asset : position'[u][a] = row[a]
      /\ \A v \in User \ {u}, a \in Asset : position'[v][a] = position[v][a]
  BY <1>3, <1>5
<1>7. position' \in [User -> [Asset -> PositionType]]
  <2>1. row \in [Asset -> PositionType]
    <3>1. row = [a \in Asset |-> row[a]]
      BY DEF row
    <3> QED BY <1>4, <3>1 DEF FlatPosition
  <2> QED BY <1>3, <1>5, <2>1
<1>8. \A a \in Asset : /\ DepositTotals'[a] = DepositTotals[a] + dep[a]
                       /\ BorrowTotals'[a] = BorrowTotals[a] + bor[a]
  BY <1>1 DEF DepositTotals, BorrowTotals
<1>9. DepositTotals' \in [Asset -> Int] /\ BorrowTotals' \in [Asset -> Int]
  <2>1. \A a \in Asset : DepositTotals'[a] \in Int /\ BorrowTotals'[a] \in Int
    BY <1>3, <1>8
  <2>2. /\ DepositTotals' = [a \in Asset |-> DepositTotals'[a]]
        /\ BorrowTotals' = [a \in Asset |-> BorrowTotals'[a]]
    BY DEF DepositTotals, BorrowTotals
  <2> QED BY <2>1, <2>2
<1>10. ASSUME NEW a \in Asset
       PROVE  LET D == [v \in User |-> position'[v][a].deposited]
                  B == [v \in User |-> position'[v][a].borrowed]
              IN  /\ IsFiniteSet(UnitsHeld(D)) /\ DepositTotals'[a] = SumOf(D)
                  /\ IsFiniteSet(UnitsHeld(B)) /\ BorrowTotals'[a] = SumOf(B)
  <2> DEFINE D0 == [v \in User |-> position[v][a].deposited]
             B0 == [v \in User |-> position[v][a].borrowed]
             D == [v \in User |-> position'[v][a].deposited]
             B == [v \in User |-> position'[v][a].borrowed]
             d == row[a].deposited
             b == row[a].borrowed
  <2>1. /\ IsFiniteSet(UnitsHeld(D0)) /\ DepositTotals[a] = SumOf(D0)
        /\ IsFiniteSet(UnitsHeld(B0)) /\ BorrowTotals[a] = SumOf(B0)
    BY <1>3 DEF Sums
  <2>2. /\ D0 \in [User -> Nat] /\ B0 \in [User -> Nat]
        /\ D0[u] = position[u][a].deposited /\ B0[u] = position[u][a].borrowed
    BY <1>3 DEF PositionType
  <2>3. d \in Nat /\ b \in Nat
    BY <1>4 DEF FlatPosition, PositionType
  <2>4. D = [D0 EXCEPT ![u] = d] /\ B = [B0 EXCEPT ![u] = b]
    BY <1>6
  <2>5. d = D0[u] + dep[a] /\ b = B0[u] + bor[a]
    BY <1>4, <2>2
  <2>6. dep[a] \in Int /\ bor[a] \in Int
    OBVIOUS
  <2> HIDE DEF D0, B0, D, B, d, b
  <2>7. /\ IsFiniteSet(UnitsHeld(D)) /\ SumOf(D0) \in Nat
        /\ SumOf(D) = SumOf(D0) + d - D0[u]
    BY <2>1, <2>2, <2>3, <2>4, SumChanges
  <2>8. /\ IsFiniteSet(UnitsHeld(B)) /\ SumOf(B0) \in Nat
        /\ SumOf(B) = SumOf(B0) + b - B0[u]
    BY <2>1, <2>2, <2>3, <2>4, SumChanges
  <2>9. D0[u] \in Nat /\ B0[u] \in Nat
    BY <2>2
  <2>10. SumOf(D) = SumOf(D0) + dep[a] /\ SumOf(B) = SumOf(B0) + bor[a]
    BY <2>5, <2>6, <2>7, <2>8, <2>9
  <2>11. DepositTotals'[a] = SumOf(D) /\ BorrowTotals'[a] = SumOf(B)
    BY <1>8, <2>1, <2>10
  <2> QED BY <2>7, <2>8, <2>11 DEF D, B
<1>11. ASSUME NEW v \in User, NEW a \in Asset
       PROVE  /\ position'[v][a] \in FlatPosition
              /\ position'[v][a].deposited + position'[v][a].borrowed > 0 => a \in supported
  BY <1>1, <1>3, <1>4, <1>6
<1> QED BY <1>1, <1>7, <1>9, <1>10, <1>11 DEF PlacedNow, Placed, Sums

\* The three writes of a liquidation across two assets.
LEMMA LiquidatePlaced ==
    ASSUME Flat, PlacedNow, NEW l \in User, NEW u \in User, NEW c \in Asset,
           NEW d \in Asset, c # d, NEW n \in Int, Liquidate(l, u, c, d, n)
    PROVE  PlacedNow'
<1> DEFINE repay == Smaller(n, CurrentPosition(u, d).borrowed)
           seize == SeizeAmount(u, c, d, repay)
<1>1. /\ position' = LiquidatedPositions(l, u, c, d, repay, seize)
      /\ c \in supported /\ d \in supported /\ UNCHANGED supported
  BY DEF Liquidate, MayLiquidate
<1>2. /\ repay \in Nat /\ repay <= CurrentPosition(u, d).borrowed
      /\ seize \in Nat /\ seize <= CurrentPosition(u, c).deposited
  BY LiquidatedAmounts DEF Flat
<1>3. TotalsMove(d, 0, -repay)
  BY LiquidateMoves
<1> HIDE DEF repay
<1> HIDE DEF seize
<1> DEFINE debt == position[u][d]
           coll == position[u][c]
           owed == -repay
           taken == -seize
           debt2 == [debt EXCEPT !.borrowed = debt.borrowed - repay]
           coll2 == [coll EXCEPT !.deposited = coll.deposited - seize]
           first == [position EXCEPT ![u][d] = Stored(debt2)]
           second == [first EXCEPT ![u][c] = Stored(coll2)]
           gained == second[l][c]
           gained2 == [gained EXCEPT !.deposited = gained.deposited + seize]
           third == [second EXCEPT ![l][c] = Stored(gained2)]
           dep1 == [DepositTotals EXCEPT ![d] = @ + 0]
           dep2 == [dep1 EXCEPT ![c] = @ + taken]
           dep3 == [dep2 EXCEPT ![c] = @ + seize]
           bor1 == [BorrowTotals EXCEPT ![d] = @ + owed]
           bor2 == [bor1 EXCEPT ![c] = @ + 0]
           bor3 == [bor2 EXCEPT ![c] = @ + 0]
<1>4. /\ CurrentPosition(u, d) = debt /\ CurrentPosition(u, c) = coll
      /\ debt \in FlatPosition /\ debt.deposited \in Nat /\ debt.borrowed \in Nat
      /\ coll \in FlatPosition /\ coll.deposited \in Nat /\ coll.borrowed \in Nat
  BY HeldPosition
<1>5. owed \in Int /\ taken \in Int /\ seize \in Int /\ 0 \in Int
  BY <1>2
<1>6. /\ debt2 \in FlatPosition /\ debt2.deposited = debt.deposited + 0
      /\ debt2.borrowed = debt.borrowed + owed
  <2>1. debt.borrowed - repay \in Nat /\ debt.borrowed - repay = debt.borrowed + owed
    BY <1>2, <1>4
  <2>2. debt.deposited = debt.deposited + 0
    BY <1>4
  <2> QED BY <1>4, <2>1, <2>2, ChangedPosition
<1>7. /\ coll2 \in FlatPosition /\ coll2.borrowed = coll.borrowed + 0
      /\ coll2.deposited = coll.deposited + taken
  <2>1. coll.deposited - seize \in Nat /\ coll.deposited - seize = coll.deposited + taken
    BY <1>2, <1>4
  <2>2. coll.borrowed = coll.borrowed + 0
    BY <1>4
  <2> QED BY <1>4, <2>1, <2>2, ChangedPosition
<1>8. LiquidatedPositions(l, u, c, d, repay, seize)
        = [second EXCEPT ![l][c] =
             Stored([AtCurrentIndex(gained, c) EXCEPT !.deposited = @ + seize])]
  BY <1>4 DEF LiquidatedPositions
<1>9. Placed(position, DepositTotals, BorrowTotals)
  BY DEF PlacedNow
<1> HIDE DEF debt2, coll2, owed, taken
<1>10. Placed(first, dep1, bor1)
  BY <1>1, <1>5, <1>6, <1>9, PlacedWrite
<1>11. first[u][c] = coll
  BY <1>9 DEF Placed
<1> HIDE DEF first, dep1, bor1
<1>12. Placed(second, dep2, bor2)
  BY <1>1, <1>5, <1>7, <1>10, <1>11, PlacedWrite
<1>13. /\ gained \in FlatPosition /\ gained.deposited \in Nat /\ gained.borrowed \in Nat
       /\ AtCurrentIndex(gained, c) = gained
  <2>1. gained \in FlatPosition
    BY <1>12 DEF Placed
  <2> QED BY <2>1, SettledFlat DEF FlatPosition, PositionType
<1>14. /\ gained2 \in FlatPosition /\ gained2.deposited = gained.deposited + seize
       /\ gained2.borrowed = gained.borrowed + 0
  <2>1. gained.deposited + seize \in Nat /\ gained.borrowed + 0 = gained.borrowed
    BY <1>2, <1>13
  <2> QED BY <1>13, <2>1, ChangedPosition
<1>15. position' = third
  BY <1>1, <1>8, <1>13
<1> HIDE DEF second, dep2, bor2
<1> HIDE DEF gained2
<1>16. Placed(third, dep3, bor3)
  BY <1>1, <1>5, <1>12, <1>14, PlacedWrite
<1>17. dep3 = DepositTotals' /\ bor3 = BorrowTotals'
  <2>1. /\ DepositTotals' = [DepositTotals EXCEPT ![d] = @ + 0]
        /\ BorrowTotals' = [BorrowTotals EXCEPT ![d] = @ + owed]
    BY <1>3 DEF TotalsMove, owed
  <2>2. DepositTotals \in [Asset -> Int] /\ BorrowTotals \in [Asset -> Int]
    BY <1>9 DEF Placed
  <2>3. dep3 = [DepositTotals EXCEPT ![d] = @ + 0]
    <3>1. dep1 = DepositTotals
      BY <2>2 DEF dep1
    <3>2. DepositTotals[c] + taken + seize = DepositTotals[c]
      BY <1>2, <2>2 DEF taken
    <3>3. dep3 = DepositTotals
      BY <1>5, <2>2, <3>1, <3>2 DEF dep2
    <3> HIDE DEF dep3
    <3> QED BY <3>1, <3>3 DEF dep1
  <2>4. bor3 = bor1
    <3>1. bor1 \in [Asset -> Int]
      BY <1>5, <2>2 DEF bor1
    <3> QED BY <3>1 DEF bor2
  <2> QED BY <2>1, <2>3, <2>4 DEF bor1
<1> HIDE DEF third, dep3, bor3
<1>18. Placed(position', DepositTotals', BorrowTotals')
  BY <1>15, <1>16, <1>17
<1> QED BY <1>1, <1>18 DEF PlacedNow, Placed

LEMMA WriteoffPlaced ==
    ASSUME Flat, PlacedNow, NEW u \in User, NEW a \in Asset, WriteoffBadDebt(u, a)
    PROVE  PlacedNow'
<1>1. PICK T \in SUBSET {a}, gone \in Nat :
         /\ Call(u, T, None, Only(a, -gone))
         /\ T # {} => gone > 0 /\ gone = CurrentPosition(u, a).borrowed
  BY WriteoffCall DEF Flat
<1>2. T \in SUBSET Asset /\ T \subseteq supported
  <2>1. CASE T = {}
    BY <2>1
  <2>2. CASE T # {}
    <3>1. /\ position[u][a].deposited \in Nat /\ position[u][a].borrowed \in Nat
          /\ position[u][a].borrowed > 0
      BY <1>1, <2>2, HeldPosition
    <3>2. position[u][a].deposited + position[u][a].borrowed > 0
      BY <3>1
    <3>3. a \in supported
      BY <3>2 DEF PlacedNow, Placed
    <3> QED BY <3>3
  <2> QED BY <2>1, <2>2
<1> DEFINE m == -gone
<1>3. m \in Int /\ Call(u, T, None, Only(a, m))
  BY <1>1
<1> HIDE DEF m
<1> QED BY <1>2, <1>3, CallPlaced, NonePlaced

\* An asset is disabled only once nothing is left in it.
LEMMA OthersPlaced ==
    ASSUME Flat, PlacedNow, [Next]_vars, ~(UserStep \/ LiquidationStep)
    PROVE  PlacedNow'
<1>1. TotalsStay /\ UNCHANGED position
  BY OthersSettle DEF Next
<1>2. \A a \in Asset : a \in supported /\ a \notin supported' => Vacant(a)
  <2>1. ASSUME NEW a \in Asset, NEW e \in Configuring, ApplyConfigureAsset(a, e)
        PROVE  \A c \in Asset : c \in supported /\ c \notin supported' => Vacant(c)
    BY <2>1 DEF ApplyConfigureAsset
  <2>2. CASE AdminStep
    BY <2>1, <2>2 DEF AdminStep, ApplyUpdateAssetCaps, SetSupplyCap, SetBorrowCap,
                      ApplySetAssetRiskParams, SetInterestParams,
                      ApplySetMinCollateralRatio, SetLiquidationParams, ApplySetPaused
  <2>3. CASE ~AdminStep
    BY <2>3 DEF Next, AccrueInterest, FeeStep, SetMaxProtocolFeeBps,
                ApplyRecordProtocolFee, ApplyWithdrawReserves, Tick, vars
  <2> QED BY <2>2, <2>3
<1>3. ASSUME NEW u \in User, NEW a \in Asset, Vacant(a)
      PROVE  position[u][a].deposited = 0 /\ position[u][a].borrowed = 0
  <2> DEFINE D == [v \in User |-> position[v][a].deposited]
             B == [v \in User |-> position[v][a].borrowed]
  <2>1. /\ IsFiniteSet(UnitsHeld(D)) /\ SumOf(D) = DepositTotals[a]
        /\ IsFiniteSet(UnitsHeld(B)) /\ SumOf(B) = BorrowTotals[a]
    BY DEF PlacedNow, Placed, Sums
  <2>2. DepositTotals[a] = 0 /\ BorrowTotals[a] = 0
    BY <1>3 DEF Vacant, DepositTotals, BorrowTotals
  <2>3. D \in [User -> Nat] /\ B \in [User -> Nat]
    BY DEF PlacedNow, Placed, PositionType
  <2>4. D[u] = position[u][a].deposited /\ B[u] = position[u][a].borrowed
    OBVIOUS
  <2> HIDE DEF D, B
  <2>5. D[u] = 0 /\ B[u] = 0
    BY <2>1, <2>2, <2>3, EmptySum
  <2> QED BY <2>4, <2>5
<1>4. \A u \in User, a \in Asset :
         position[u][a].deposited + position[u][a].borrowed > 0 => a \in supported'
  BY <1>2, <1>3 DEF PlacedNow, Placed
<1>5. /\ position' = position /\ DepositTotals' = DepositTotals
      /\ BorrowTotals' = BorrowTotals
  BY <1>1 DEF TotalsStay
<1> QED BY <1>4, <1>5 DEF PlacedNow, Placed

LEMMA PlacedStep ==
    ASSUME CrossLiquidation, Flat, PlacedNow, [Next \/ BatchStep]_vars
    PROVE  PlacedNow'
<1>1. CASE LiquidationStep
  <2>1. ASSUME NEW l \in User, NEW u \in User, NEW pair \in LiquidationPairs,
               NEW n \in Amounts, Liquidate(l, u, pair[1], pair[2], n)
        PROVE  PlacedNow'
    <3>1. /\ pair[1] \in Asset /\ pair[2] \in Asset /\ pair[1] # pair[2] /\ n \in Int
      BY PoolAssumption DEF CrossLiquidation
    <3> QED BY <2>1, <3>1, LiquidatePlaced
  <2> QED BY <1>1, <2>1, WriteoffPlaced DEF LiquidationStep
<1>2. CASE UserStep \/ BatchStep
  <2>1. PICK u \in User, T \in SUBSET Asset, dep \in [Asset -> Int],
             bor \in [Asset -> Int] :
           Call(u, T, dep, bor) /\ T \subseteq supported
    BY <1>2, UserCalls DEF Flat
  <2> QED BY <2>1, CallPlaced
<1>3. CASE ~(LiquidationStep \/ UserStep \/ BatchStep)
  <2>1. [Next]_vars
    BY <1>3
  <2> QED BY <1>3, <2>1, OthersPlaced
<1> QED BY <1>1, <1>2, <1>3

\* Nothing is held at the start, which is what the totals say.
LEMMA PlacedInit == Init => PlacedNow
<1> SUFFICES ASSUME Init PROVE PlacedNow
  OBVIOUS
<1>1. /\ position = [u \in User |-> [a \in Asset |-> EmptyPosition]]
      /\ \A a \in Asset : book[a].total_deposited = 0 /\ book[a].total_borrowed = 0
  BY DEF Init, EmptyBook
<1>2. /\ EmptyPosition \in FlatPosition /\ EmptyPosition \in PositionType
      /\ EmptyPosition.deposited = 0 /\ EmptyPosition.borrowed = 0
  BY ScaleAssumption DEF EmptyPosition, FlatPosition, PositionType
<1>3. \A u \in User, a \in Asset : position[u][a] = EmptyPosition
  BY <1>1
<1>4. /\ position \in [User -> [Asset -> PositionType]]
      /\ DepositTotals \in [Asset -> Int] /\ BorrowTotals \in [Asset -> Int]
  BY <1>1, <1>2 DEF DepositTotals, BorrowTotals
<1>5. LET Z == [u \in User |-> 0] IN IsFiniteSet(UnitsHeld(Z)) /\ SumOf(Z) = 0
  <2> DEFINE Z == [u \in User |-> 0]
  <2>1. UnitsHeld(Z) = {}
    BY DEF UnitsHeld
  <2> QED BY <2>1, FS_EmptySet DEF SumOf
<1>6. \A a \in Asset : /\ [u \in User |-> position[u][a].deposited] = [u \in User |-> 0]
                       /\ [u \in User |-> position[u][a].borrowed] = [u \in User |-> 0]
  BY <1>2, <1>3
<1>7. Sums(position, DepositTotals, BorrowTotals)
  BY <1>1, <1>5, <1>6 DEF Sums, DepositTotals, BorrowTotals
<1>8. \A u \in User, a \in Asset :
         /\ position[u][a] \in FlatPosition
         /\ ~(position[u][a].deposited + position[u][a].borrowed > 0)
  BY <1>2, <1>3
<1> QED BY <1>4, <1>7, <1>8 DEF PlacedNow, Placed

LEMMA PlacedThroughout ==
    ASSUME NoInterest, CrossLiquidation
    PROVE  BatchSpec => [](Flat /\ PlacedNow)
<1>1. Init => Flat /\ PlacedNow
  BY FlatInit, PlacedInit
<1>2. Flat /\ PlacedNow /\ [Next \/ BatchStep]_vars => (Flat /\ PlacedNow)'
  BY FlatStep, PlacedStep
<1> QED BY <1>1, <1>2, PTL DEF BatchSpec

LEMMA PlacedTotals ==
    ASSUME Flat, PlacedNow
    PROVE  TotalsMatchPositions /\ NoTrappedPosition
<1>1. NoTrappedPosition
  BY DEF PlacedNow, Placed, NoTrappedPosition
<1>2. ASSUME NEW a \in Asset
      PROVE  /\ book[a].total_deposited = SumOf(DepositsIn(a))
             /\ book[a].total_borrowed = SumOf(DebtsIn(a))
  BY DEF PlacedNow, Placed, Sums, DepositTotals, BorrowTotals, DepositsIn, DebtsIn
<1> QED BY <1>1, <1>2 DEF TotalsMatchPositions

\* TotalDeposited and TotalBorrowed are the sums of the users' balances,
\* however many users and assets there are, while no interest is charged and no
\* debt is liquidated against collateral in the same asset.
THEOREM TotalsMatch ==
    ASSUME NoInterest, CrossLiquidation
    PROVE  BatchSpec => []TotalsMatchPositions
<1>1. Flat /\ PlacedNow => TotalsMatchPositions
  BY PlacedTotals
<1> QED BY <1>1, PlacedThroughout, PTL

\* Nobody's deposit or debt is left in an asset that has been disabled: zero
\* totals, which disabling asks for, mean that everybody's balance is zero.
THEOREM NobodyIsTrapped ==
    ASSUME NoInterest, CrossLiquidation
    PROVE  BatchSpec => []NoTrappedPosition
<1>1. Flat /\ PlacedNow => NoTrappedPosition
  BY PlacedTotals
<1> QED BY <1>1, PlacedThroughout, PTL

-----------------------------------------------------------------------------
(* Collateral.  What a step does to the weighted deposits of a user, and to *)
(* the debts they are compared with, at any rates of interest.              *)

\* Finitely many assets are supported, and an asset counts for no more when a
\* debt is taken on than when it is tested for liquidation.
CollateralInv ==
    /\ IsFiniteSet(supported)
    /\ \A a \in Asset :
          risk[a].stored
             => risk[a].collateral_factor_bps <= risk[a].liquidation_threshold_bps

LEMMA CollateralInit == Init => CollateralInv
BY PoolAssumption DEF Init, CollateralInv, NoRisk

LEMMA CollateralStep ==
    ASSUME IInv, CollateralInv, [Next \/ BatchStep]_vars
    PROVE  CollateralInv'
<1>1. ASSUME UNCHANGED <<supported, risk>> PROVE CollateralInv'
  BY <1>1 DEF CollateralInv
<1>2. ASSUME NEW a \in Asset, NEW e, ApplyConfigureAsset(a, e)
      PROVE  CollateralInv'
  <2>1. UNCHANGED risk /\ supported' \in {supported \cup {a}, supported \ {a}}
    BY <1>2 DEF ApplyConfigureAsset, adminVars
  <2>2. IsFiniteSet(supported \cup {a}) /\ IsFiniteSet(supported \ {a})
    BY FS_AddElement, FS_RemoveElement DEF CollateralInv
  <2> QED BY <2>1, <2>2 DEF CollateralInv
<1>3. ASSUME NEW a \in Asset, NEW f, NEW t, NEW b, ApplySetAssetRiskParams(a, f, t, b)
      PROVE  CollateralInv'
  <2>1. /\ f <= t /\ UNCHANGED supported
        /\ risk' = [risk EXCEPT ![a] =
              [stored |-> TRUE, collateral_factor_bps |-> f,
               liquidation_threshold_bps |-> t, liquidation_bonus_bps |-> b]]
    BY <1>3 DEF ApplySetAssetRiskParams, ValidRiskParams
  <2> QED BY <2>1 DEF CollateralInv, IInv, TypeOK
<1>4. CASE AdminStep
  <2>1. ASSUME \/ \E a \in Asset :
                    \/ \E c, d \in CapChoices : ApplyUpdateAssetCaps(a, c, d)
                    \/ \E c \in CapChoices : SetSupplyCap(a, c) \/ SetBorrowCap(a, c)
                    \/ \E x \in RateChoices : SetInterestParams(a, x)
               \/ \E x \in RatioChoices : ApplySetMinCollateralRatio(x)
               \/ \E x \in LiquidationChoices : SetLiquidationParams(x[1], x[2])
               \/ \E f \in Pausing : ApplySetPaused(f) \/ ApplySetPaused(~f)
        PROVE  UNCHANGED <<supported, risk>>
    BY <2>1 DEF ApplyUpdateAssetCaps, SetSupplyCap, SetBorrowCap, SetInterestParams,
                ApplySetMinCollateralRatio, SetLiquidationParams, ApplySetPaused, adminVars
  <2> QED BY <1>1, <1>2, <1>3, <1>4, <2>1 DEF AdminStep
<1>5. CASE UserStep \/ BatchStep
  BY <1>1, <1>5, UserCalls DEF Call, SettingsKept
<1>6. CASE LiquidationStep
  BY <1>1, <1>6 DEF LiquidationStep, Liquidate, WriteoffBadDebt, adminVars
<1>7. CASE ~(UserStep \/ BatchStep \/ LiquidationStep \/ AdminStep)
  BY <1>1, <1>7 DEF Next, AccrueInterest, FeeStep, SetMaxProtocolFeeBps,
                    ApplyRecordProtocolFee, ApplyWithdrawReserves, Tick, adminVars, vars
<1> QED BY <1>4, <1>5, <1>6, <1>7

\* The step leaves the indexes that settling asset a would reach now.
AccrualStays(a) ==
    /\ Accrual(a)'.supply_index = Accrual(a).supply_index
    /\ Accrual(a)'.borrow_index = Accrual(a).borrow_index

LEMMA AccrualKept ==
    ASSUME IInv, now' = now, UNCHANGED rates, NEW a \in Asset,
           book'[a] = book[a] \/ Carries(book'[a], a)
    PROVE  AccrualStays(a)
<1>1. CASE book'[a] = book[a]
  BY <1>1 DEF AccrualStays, Accrual
<1>2. CASE Carries(book'[a], a)
  <2>1. /\ book'[a].last_accrual = now /\ now \in Nat
        /\ book'[a].supply_index = Accrual(a).supply_index
        /\ book'[a].borrow_index = Accrual(a).borrow_index
    BY <1>2 DEF Carries, IInv, TypeOK
  <2>2. /\ Accrual(a)'.supply_index = book'[a].supply_index
        /\ Accrual(a)'.borrow_index = book'[a].borrow_index
    BY <2>1 DEF Accrual
  <2> QED BY <2>1, <2>2 DEF AccrualStays
<1> QED BY <1>1, <1>2

\* A position that has just been settled.
Fresh(p, a) ==
    /\ p \in PositionType
    /\ p.supply_index_snapshot = Accrual(a).supply_index
    /\ p.borrow_index_snapshot = Accrual(a).borrow_index

LEMMA RealizedStill ==
    ASSUME NEW x \in Nat, NEW i \in Nat \ {0}, NEW j \in Nat, x = 0 \/ i = j
    PROVE  Realized(x, i, j) = x
<1>1. CASE x = 0
  BY <1>1 DEF Realized
<1>2. CASE i = j
  <2>1. x * (j - i) = 0
    BY <1>2
  <2>2. TruncDiv(0, i) = 0
    BY DEF TruncDiv, Magnitude
  <2> QED BY <2>1, <2>2 DEF Realized
<1> QED BY <1>1, <1>2

\* Storing and settling it again at the same indexes gives it back.
LEMMA StoredAgain ==
    ASSUME NEW x \in PositionType, NEW r,
           r.supply_index = x.supply_index_snapshot,
           r.borrow_index = x.borrow_index_snapshot
    PROVE  CarriedTo(Stored(x), r) = x
<1> DEFINE s == Stored(x)
<1>1. /\ x.deposited \in Nat /\ x.borrowed \in Nat
      /\ x.supply_index_snapshot \in Nat \ {0} /\ x.borrow_index_snapshot \in Nat \ {0}
      /\ x = [deposited |-> x.deposited, borrowed |-> x.borrowed,
              supply_index_snapshot |-> x.supply_index_snapshot,
              borrow_index_snapshot |-> x.borrow_index_snapshot]
  BY DEF PositionType
<1>2. /\ s.deposited = x.deposited /\ s.borrowed = x.borrowed
      /\ s.supply_index_snapshot \in Nat \ {0} /\ s.borrow_index_snapshot \in Nat \ {0}
      /\ s.deposited = 0 \/ s.supply_index_snapshot = x.supply_index_snapshot
      /\ s.borrowed = 0 \/ s.borrow_index_snapshot = x.borrow_index_snapshot
  BY <1>1, ScaleAssumption DEF Stored, EmptyPosition
<1> HIDE DEF s
<1>3. CarriedTo(s, r) =
        [deposited |-> Realized(s.deposited, s.supply_index_snapshot, r.supply_index),
         borrowed |-> Realized(s.borrowed, s.borrow_index_snapshot, r.borrow_index),
         supply_index_snapshot |-> r.supply_index,
         borrow_index_snapshot |-> r.borrow_index]
  BY <1>2 DEF CarriedTo, ComputeAccruedPosition
<1>4. /\ Realized(s.deposited, s.supply_index_snapshot, r.supply_index) = x.deposited
      /\ Realized(s.borrowed, s.borrow_index_snapshot, r.borrow_index) = x.borrowed
  BY <1>1, <1>2, RealizedStill
<1>5. CarriedTo(s, r) = x
  BY <1>1, <1>3, <1>4
<1> QED BY <1>5 DEF s

LEMMA CurrentIsFresh ==
    ASSUME IInv, NEW u \in User, NEW a \in Asset
    PROVE  Fresh(CurrentPosition(u, a), a)
<1>1. /\ position[u][a].supply_index_snapshot \in Nat \ {0}
      /\ position[u][a].borrow_index_snapshot \in Nat \ {0}
  BY StoredPositions DEF Behind, PositionType
<1>2. CurrentPosition(u, a) \in PositionType
  BY CurrentPositionBehind DEF Behind
<1> QED BY <1>1, <1>2
        DEF Fresh, CurrentPosition, AtCurrentIndex, CarriedTo, ComputeAccruedPosition

\* Changing the balances of a settled position leaves it settled.
LEMMA ChangedIsFresh ==
    ASSUME NEW a \in Asset, NEW q, Fresh(q, a), NEW d \in Int, NEW b \in Int, NEW p,
           Changed(p, q, d, b)
    PROVE  /\ Fresh(p, a) /\ p.deposited = q.deposited + d
           /\ p.borrowed = q.borrowed + b
<1> DEFINE x == q.deposited + d
           y == q.borrowed + b
<1>1. x \in Nat /\ y \in Nat /\ p = [q EXCEPT !.deposited = x, !.borrowed = y]
  BY DEF Changed
<1> HIDE DEF x, y
<1>2. /\ p \in PositionType /\ p.deposited = x /\ p.borrowed = y
      /\ p.supply_index_snapshot = q.supply_index_snapshot
      /\ p.borrow_index_snapshot = q.borrow_index_snapshot
  BY <1>1 DEF Fresh, PositionType
<1> QED BY <1>2 DEF Fresh, x, y

\* What a position is worth after the step, written or not.
LEMMA WrittenPosition ==
    ASSUME NEW v \in User, NEW a \in Asset, AccrualStays(a), NEW x, Fresh(x, a),
           position'[v][a] = Stored(x)
    PROVE  CurrentPosition(v, a)' = x /\ position'[v][a].borrowed = x.borrowed
<1> DEFINE r == Accrual(a)'
<1>1. /\ x \in PositionType /\ r.supply_index = x.supply_index_snapshot
      /\ r.borrow_index = x.borrow_index_snapshot
  BY DEF Fresh, AccrualStays
<1>2. CurrentPosition(v, a)' = CarriedTo(Stored(x), r)
  BY DEF CurrentPosition, AtCurrentIndex, CarriedTo
<1> HIDE DEF r
<1>3. CarriedTo(Stored(x), r) = x
  BY <1>1, StoredAgain
<1>4. Stored(x).borrowed = x.borrowed
  BY DEF Stored, EmptyPosition
<1> QED BY <1>2, <1>3, <1>4

LEMMA UnwrittenPosition ==
    ASSUME NEW v \in User, NEW a \in Asset, AccrualStays(a),
           position'[v][a] = position[v][a]
    PROVE  CurrentPosition(v, a)' = CurrentPosition(v, a)
BY DEF AccrualStays, CurrentPosition, AtCurrentIndex, CarriedTo, ComputeAccruedPosition

\* What a call makes of every position, settled.
Moved(u, T, dep, bor, v, a) ==
    /\ CurrentPosition(v, a)'.deposited
         = CurrentPosition(v, a).deposited + (IF v = u THEN dep[a] ELSE 0)
    /\ CurrentPosition(v, a)'.borrowed
         = CurrentPosition(v, a).borrowed + (IF v = u THEN bor[a] ELSE 0)
    /\ \/ position'[v][a] = position[v][a]
       \/ /\ v = u /\ a \in T
          /\ position'[v][a].borrowed = CurrentPosition(v, a).borrowed + bor[a]

LEMMA CallBalances ==
    ASSUME IInv, NEW u \in User, NEW T \in SUBSET Asset,
           NEW dep \in [Asset -> Int], NEW bor \in [Asset -> Int],
           Call(u, T, dep, bor), NEW v \in User, NEW a \in Asset
    PROVE  Moved(u, T, dep, bor, v, a)
<1> DEFINE q == CurrentPosition(v, a)
<1>1. /\ position \in [User -> [Asset -> PositionType]] /\ book \in [Asset -> BookType]
      /\ now' = now /\ UNCHANGED rates
      /\ \A e \in Asset \ T : dep[e] = 0 /\ bor[e] = 0
      /\ dep[a] \in Int /\ bor[a] \in Int
  BY DEF IInv, TypeOK, Call, SettingsKept
<1>2. q.deposited \in Nat /\ q.borrowed \in Nat /\ Fresh(q, a)
  BY Parts, CurrentIsFresh
<1>3. AccrualStays(a)
  <2>1. PICK S \in SUBSET Asset, bal \in [Asset -> Int] : CallPosts(S, dep, bor, bal)
    BY DEF Call
  <2>2. CASE a \in S
    <3>1. book'[a] = Posted(Accrued(a), dep[a], bor[a], bal[a], 0)
      BY <2>1, <2>2 DEF CallPosts
    <3>2. Carries(Accrued(a), a) /\ bal[a] \in Int /\ 0 \in Int
      BY Parts
    <3>3. Carries(book'[a], a)
      BY <1>1, <3>1, <3>2, PostedBook
    <3> QED BY <1>1, <3>3, AccrualKept
  <2>3. CASE a \notin S
    <3>1. book'[a] = book[a]
      BY <2>1, <2>3 DEF CallPosts
    <3> QED BY <1>1, <3>1, AccrualKept
  <2> QED BY <2>2, <2>3
<1>4. PICK next :
         /\ position' = [position EXCEPT ![u] =
               [e \in Asset |-> IF e \in T THEN Stored(next[e]) ELSE position[u][e]]]
         /\ \A e \in T : Changed(next[e], CurrentPosition(u, e), dep[e], bor[e])
  BY DEF Call, CallPositions
<1>5. CASE v = u /\ a \in T
  <2> DEFINE x == next[a]
  <2>1. position'[v][a] = Stored(x) /\ Changed(x, q, dep[a], bor[a])
    BY <1>1, <1>4, <1>5
  <2> HIDE DEF x, q
  <2>2. Fresh(x, a) /\ x.deposited = q.deposited + dep[a] /\ x.borrowed = q.borrowed + bor[a]
    BY <1>1, <1>2, <2>1, ChangedIsFresh
  <2>3. CurrentPosition(v, a)' = x /\ position'[v][a].borrowed = x.borrowed
    BY <1>3, <2>1, <2>2, WrittenPosition
  <2> QED BY <1>5, <2>2, <2>3 DEF q, Moved
<1>6. CASE v # u \/ a \notin T
  <2>1. position'[v][a] = position[v][a]
    BY <1>1, <1>4, <1>6
  <2>2. CurrentPosition(v, a)' = q
    BY <1>3, <2>1, UnwrittenPosition
  <2>3. v = u => dep[a] = 0 /\ bor[a] = 0
    BY <1>1, <1>6
  <2> HIDE DEF q
  <2>4. CurrentPosition(v, a)'.deposited = q.deposited + (IF v = u THEN dep[a] ELSE 0)
    BY <1>2, <2>2, <2>3
  <2>5. CurrentPosition(v, a)'.borrowed = q.borrowed + (IF v = u THEN bor[a] ELSE 0)
    BY <1>2, <2>2, <2>3
  <2> QED BY <2>1, <2>4, <2>5 DEF q, Moved
<1> QED BY <1>5, <1>6

\* The deposits of a user as liquidation weighs them.
Cover(u) == Weighted(Deposits(u), [a \in Asset |-> LiquidationThreshold(a)])

LEMMA CoverKept ==
    ASSUME SettingsKept, NEW u \in User,
           \A a \in Asset :
              CurrentPosition(u, a)'.deposited = CurrentPosition(u, a).deposited
    PROVE  Cover(u)' = Cover(u)
<1>1. Deposits(u)' = Deposits(u)
  BY DEF Deposits
<1> QED BY <1>1 DEF Cover, Weighted, LiquidationThreshold, Price, SettingsKept

\* Deposits count for no less when a liquidation is asked for than when a debt
\* is taken on.
LEMMA CoverOrdered ==
    ASSUME IInv, CollateralInv, NEW u \in User
    PROVE  /\ Weighted(Deposits(u), [a \in Asset |-> CollateralFactor(a)]) <= Cover(u)
           /\ Weighted(Deposits(u), [a \in Asset |-> CollateralFactor(a)]) \in Int
           /\ Cover(u) \in Int
<1> DEFINE cf == [a \in Asset |-> CollateralFactor(a)]
           lt == [a \in Asset |-> LiquidationThreshold(a)]
           f == [a \in Asset |-> Deposits(u)[a] * Price(a) * cf[a]]
           g == [a \in Asset |-> Deposits(u)[a] * Price(a) * lt[a]]
<1>1. cf \in [Asset -> Nat] /\ lt \in [Asset -> Nat]
  BY FactorsTyped
<1>2. \A a \in Asset : cf[a] <= lt[a]
  <2> SUFFICES ASSUME NEW a \in Asset PROVE CollateralFactor(a) <= LiquidationThreshold(a)
    OBVIOUS
  <2>1. CASE risk[a].stored
    BY <2>1 DEF CollateralInv, CollateralFactor, LiquidationThreshold
  <2>2. CASE ~risk[a].stored
    BY <2>2, FactorsTyped
  <2> QED BY <2>1, <2>2
<1>3. Weighted(Deposits(u), lt) = Cover(u)
  BY DEF Cover
<1>4. Weighted(Deposits(u), cf) = Weighted(Deposits(u), [a \in Asset |-> CollateralFactor(a)])
  OBVIOUS
<1> HIDE DEF cf, lt
<1>5. /\ Weighted(Deposits(u), cf) = SumFunctionOnSet(f, supported)
      /\ Weighted(Deposits(u), cf) \in Int
      /\ \A a \in Asset : f[a] \in Nat
  BY <1>1, WeightsTyped DEF CollateralInv
<1>6. /\ Weighted(Deposits(u), lt) = SumFunctionOnSet(g, supported)
      /\ Weighted(Deposits(u), lt) \in Int
      /\ \A a \in Asset : g[a] \in Nat
  BY <1>1, WeightsTyped DEF CollateralInv
<1>7. ASSUME NEW a \in Asset PROVE f[a] <= g[a]
  <2> DEFINE x == Deposits(u)[a]
             p == Price(a)
             w == x * p
             k == cf[a]
             m == lt[a]
  <2>1. x \in Nat /\ p \in Nat /\ k \in Nat /\ m \in Nat /\ k <= m
    BY <1>1, <1>2, Parts, FactorsTyped DEF Deposits
  <2>2. f[a] = w * k /\ g[a] = w * m
    OBVIOUS
  <2>3. w \in Nat
    <3> HIDE DEF x, p
    <3> QED BY <2>1, ProductNat
  <2> HIDE DEF w, k, m, f, g
  <2>4. w * k = k * w /\ w * m = m * w
    BY <2>1, <2>3
  <2>5. k * w <= m * w
    BY <2>1, <2>3, ProductGrows
  <2> QED BY <2>2, <2>4, <2>5
<1>8. supported \subseteq Asset /\ IsFiniteSet(supported)
  BY DEF IInv, TypeOK, CollateralInv
<1> HIDE DEF f, g
<1>9. SumFunctionOnSet(f, supported) <= SumFunctionOnSet(g, supported)
  <2>1. \A a \in supported : f[a] \in Int /\ g[a] \in Int /\ f[a] <= g[a]
    BY <1>5, <1>6, <1>7, <1>8
  <2> QED BY <1>8, <2>1, SumMonotone
<1> QED BY <1>3, <1>4, <1>5, <1>6, <1>9

-----------------------------------------------------------------------------
(* What borrow accepts.                                                     *)

\* A call that adds to a debt leaves it covered.
LEMMA CallNotLiquidatable ==
    ASSUME IInv, CollateralInv, NEW u \in User, NEW T \in SUBSET Asset,
           NEW dep \in [Asset -> Int], NEW bor \in [Asset -> Int],
           Call(u, T, dep, bor), Weighed(u, T, dep, bor),
           NEW v \in User, NEW a \in Asset,
           position'[v][a].borrowed > CurrentPosition(v, a).borrowed
    PROVE  ~Liquidatable(v, a)'
<1> DEFINE owed == CurrentPosition(v, a).borrowed
           debt == owed + bor[a]
           w == Weighted(Deposits(u), [e \in Asset |-> CollateralFactor(e)])
<1>1. /\ owed \in Nat /\ position[v][a].borrowed \in Nat
      /\ position[v][a].borrowed <= owed /\ bor[a] \in Int
  BY DebtOnlyGrows
<1>2. v = u /\ a \in T /\ position'[v][a].borrowed = debt
  <2>1. \/ position'[v][a] = position[v][a]
        \/ v = u /\ a \in T /\ position'[v][a].borrowed = debt
    <3>1. Moved(u, T, dep, bor, v, a)
      BY CallBalances
    <3> QED BY <3>1 DEF Moved
  <2>2. ~(position'[v][a] = position[v][a])
    <3> HIDE DEF debt
    <3>1. SUFFICES ASSUME position'[v][a] = position[v][a] PROVE FALSE
      OBVIOUS
    <3>2. position'[v][a].borrowed = position[v][a].borrowed
      BY <3>1
    <3>3. position'[v][a].borrowed > owed
      OBVIOUS
    <3> HIDE DEF owed
    <3> QED BY <1>1, <3>2, <3>3
  <2> QED BY <2>1, <2>2
<1>3. bor[a] > 0
  <2> HIDE DEF owed
  <2>1. debt > owed
    BY <1>2 DEF owed
  <2> QED BY <1>1, <2>1
<1>4. /\ \A e \in Asset : dep[e] = 0
      /\ IsFiniteSet(supported) => Collateralized(Deposits(u), a, debt)
  <2>1. ~(bor[a] = 0) /\ ~(bor[a] <= 0)
    BY <1>1, <1>3
  <2> QED BY <1>2, <2>1 DEF Weighed
<1>5. debt # 0
  <2> HIDE DEF owed
  <2> QED BY <1>1, <1>3
<1>6. w >= debt * Price(a) * BPS
  BY <1>4, <1>5 DEF Collateralized, CollateralInv
<1>7. w <= Cover(u) /\ w \in Int /\ Cover(u) \in Int
  BY CoverOrdered
<1>8. debt * Price(a) * BPS \in Int
  <2> DEFINE p == Price(a)
  <2>1. debt \in Nat
    <3> HIDE DEF owed
    <3> QED BY <1>1, <1>3
  <2>2. p \in Nat /\ BPS \in Nat
    BY FactorsTyped, ScaleAssumption
  <2> HIDE DEF debt, p
  <2>3. debt * p \in Nat
    BY <2>1, <2>2, ProductNat
  <2>4. debt * p * BPS \in Nat
    BY <2>2, <2>3, ProductNat
  <2> QED BY <2>4 DEF p
<1>9. ASSUME NEW e \in Asset
      PROVE  CurrentPosition(u, e)'.deposited = CurrentPosition(u, e).deposited
  <2>0. Moved(u, T, dep, bor, u, e)
    BY CallBalances
  <2>1. CurrentPosition(u, e)'.deposited = CurrentPosition(u, e).deposited + dep[e]
    BY <2>0 DEF Moved
  <2>2. CurrentPosition(u, e).deposited \in Nat /\ dep[e] = 0
    BY <1>4, Parts
  <2> QED BY <2>1, <2>2
<1>10. SettingsKept /\ Price(a)' = Price(a)
  BY DEF Call, SettingsKept, Price
<1>11. Cover(u)' = Cover(u)
  BY <1>9, <1>10, CoverKept
<1>12. CurrentPosition(v, a)'.borrowed = debt
  <2>1. Moved(u, T, dep, bor, v, a)
    BY CallBalances
  <2> QED BY <1>2, <2>1 DEF Moved
<1> HIDE DEF w, debt
<1>13. ~(Cover(u)' < debt * Price(a)' * BPS)
  BY <1>6, <1>7, <1>8, <1>10, <1>11
<1> QED BY <1>2, <1>12, <1>13 DEF Liquidatable, Cover

\* Every step that is neither a user's nor a liquidator's leaves the positions.
LEMMA OthersKeepPositions ==
    ASSUME [Next \/ BatchStep]_vars, ~(UserStep \/ BatchStep \/ LiquidationStep)
    PROVE  UNCHANGED position
<1>1. CASE AdminStep
  BY <1>1 DEF AdminStep, ApplyConfigureAsset, ApplyUpdateAssetCaps, SetSupplyCap,
              SetBorrowCap, ApplySetAssetRiskParams, SetInterestParams,
              ApplySetMinCollateralRatio, SetLiquidationParams, ApplySetPaused, poolVars
<1>2. CASE FeeStep
  BY <1>2 DEF FeeStep, SetMaxProtocolFeeBps, ApplyRecordProtocolFee,
              ApplyWithdrawReserves, poolVars
<1>3. CASE ~(AdminStep \/ FeeStep)
  BY <1>3 DEF Next, AccrueInterest, Tick, poolVars, vars
<1> QED BY <1>1, <1>2, <1>3

CollateralSafe == IInv /\ CollateralInv

LEMMA CollateralThroughout == BatchSpec => []CollateralSafe
<1>1. Init => CollateralSafe
  BY InitSound, CollateralInit DEF CollateralSafe
<1>2. CollateralSafe /\ [Next \/ BatchStep]_vars => CollateralSafe'
  <2> SUFFICES ASSUME IInv, CollateralInv, [Next \/ BatchStep]_vars
               PROVE  IInv' /\ CollateralInv'
    BY DEF CollateralSafe
  <2> QED BY NextSound, CollateralStep DEF Sound
<1> QED BY <1>1, <1>2, PTL DEF BatchSpec

\* The steps that move positions, as calls and liquidations.
LEMMA MovingSteps ==
    ASSUME IInv, [Next \/ BatchStep]_vars
    PROVE  \/ UNCHANGED position
           \/ \E u \in User, T \in SUBSET Asset, dep \in [Asset -> Int],
                 bor \in [Asset -> Int] : Call(u, T, dep, bor) /\ Weighed(u, T, dep, bor)
           \/ \E l \in User, u \in User, c \in Asset, d \in Asset, n \in Int :
                 Liquidate(l, u, c, d, n)
<1>1. CASE UserStep \/ BatchStep
  BY <1>1, UserCalls
<1>2. ASSUME NEW u \in User, NEW a \in Asset, WriteoffBadDebt(u, a)
      PROVE  \E T \in SUBSET Asset, dep \in [Asset -> Int], bor \in [Asset -> Int] :
                Call(u, T, dep, bor) /\ Weighed(u, T, dep, bor)
  <2>1. PICK T \in SUBSET {a}, gone \in Nat : Call(u, T, None, Only(a, -gone))
    BY <1>2, WriteoffCall
  <2> DEFINE m == -gone
  <2>2. m \in Int /\ m <= 0 /\ Call(u, T, None, Only(a, m)) /\ T \in SUBSET Asset
    BY <2>1
  <2> HIDE DEF m
  <2>3. None \in [Asset -> Int] /\ Only(a, m) \in [Asset -> Int]
    BY <2>2, NonePlaced
  <2>4. \A e \in Asset : None[e] = 0 /\ Only(a, m)[e] <= 0
    BY <2>2 DEF None, Only
  <2>5. Weighed(u, T, None, Only(a, m))
    BY <2>4 DEF Weighed
  <2> QED BY <2>2, <2>3, <2>5
<1>3. CASE LiquidationStep
  BY <1>2, <1>3, PoolAssumption DEF LiquidationStep
<1> QED BY <1>1, <1>3, OthersKeepPositions

\* What borrow and a batch of borrows accept, under any collateral factors an
\* admin can store, a liquidation rejects: a debt that has just grown beyond
\* its interest is not liquidatable, with any number of assets and users and
\* at any prices and rates.
THEOREM BorrowsAreCovered == BatchSpec => BorrowIsNotLiquidatable
<1> DEFINE A == \A u \in User, a \in Asset :
             (now' = now /\ position'[u][a].borrowed > CurrentPosition(u, a).borrowed)
                 => ~Liquidatable(u, a)'
<1>1. CollateralSafe /\ [Next \/ BatchStep]_vars => [A]_vars
  <2> SUFFICES ASSUME IInv, CollateralInv, [Next \/ BatchStep]_vars,
                      NEW v \in User, NEW a \in Asset,
                      position'[v][a].borrowed > CurrentPosition(v, a).borrowed
               PROVE  ~Liquidatable(v, a)'
    BY DEF CollateralSafe
  <2>1. /\ position[v][a].borrowed \in Nat /\ CurrentPosition(v, a).borrowed \in Nat
        /\ position[v][a].borrowed <= CurrentPosition(v, a).borrowed
    BY DebtOnlyGrows
  <2>2. CASE UNCHANGED position
    BY <2>1, <2>2
  <2>3. ASSUME NEW u \in User, NEW T \in SUBSET Asset, NEW dep \in [Asset -> Int],
               NEW bor \in [Asset -> Int], Call(u, T, dep, bor), Weighed(u, T, dep, bor)
        PROVE  ~Liquidatable(v, a)'
    BY <2>3, CallNotLiquidatable
  <2>4. ASSUME NEW l \in User, NEW u \in User, NEW c \in Asset, NEW d \in Asset,
               NEW n \in Int, Liquidate(l, u, c, d, n)
        PROVE  FALSE
    <3>1. position'[v][a].borrowed <= CurrentPosition(v, a).borrowed
      BY <2>4, LiquidateExits DEF ExitsOnly
    <3>2. IInv'
      BY <2>4, LiquidateSound DEF Sound
    <3>3. position'[v][a].borrowed \in Nat
      BY <3>2 DEF IInv, TypeOK, PositionType
    <3> QED BY <2>1, <3>1, <3>3
  <2> QED BY <2>2, <2>3, <2>4, MovingSteps
<1> QED BY <1>1, CollateralThroughout, PTL DEF BatchSpec, BorrowIsNotLiquidatable

-----------------------------------------------------------------------------
(* What a liquidation takes.                                                *)

\* A debt that falls by r while its cover falls by no more than r is worth.
LEMMA LessOwed ==
    ASSUME NEW x \in Nat, NEW y \in Nat, NEW r \in Nat, y + r = x, NEW p \in Nat,
           NEW w \in Int, NEW w2 \in Int, w2 >= w - r * p * BPS
    PROVE  y * p * BPS - w2 <= x * p * BPS - w
<1> DEFINE k == p * BPS
           m == r * p * BPS
           i == y * p * BPS
           j == x * p * BPS
<1>1. k \in Nat
  BY ProductNat, ScaleAssumption
<1>2. m = r * k /\ i = y * k /\ j = x * k
  BY ScaleAssumption
<1>3. w2 >= w - m
  OBVIOUS
<1> HIDE DEF k, m, i, j
<1>4. j = i + m /\ i \in Nat /\ m \in Nat
  <2>1. x * k = y * k + r * k
    BY <1>1
  <2> QED BY <1>1, <1>2, <2>1, ProductNat
<1>5. i - w2 <= j - w
  BY <1>3, <1>4
<1> QED BY <1>5 DEF i, j

\* A repayment leaves no more of the debt uncovered.
LEMMA CallShortfall ==
    ASSUME IInv, IInv', CollateralInv, NEW u \in User, NEW T \in SUBSET Asset,
           NEW dep \in [Asset -> Int], NEW bor \in [Asset -> Int],
           Call(u, T, dep, bor), Weighed(u, T, dep, bor),
           NEW v \in User, NEW a \in Asset,
           position'[v][a].borrowed < position[v][a].borrowed
    PROVE  Shortfall(v, a)' <= Shortfall(v, a)
<1> DEFINE owed == CurrentPosition(v, a).borrowed
           debt == owed + bor[a]
           p == Price(a)
<1>1. /\ owed \in Nat /\ position[v][a].borrowed \in Nat
      /\ position[v][a].borrowed <= owed /\ bor[a] \in Int
  BY DebtOnlyGrows
<1>2. Moved(u, T, dep, bor, v, a)
  BY CallBalances
<1>3. v = u /\ position'[v][a].borrowed = debt
  BY <1>1, <1>2 DEF Moved
<1>4. CurrentPosition(v, a)'.borrowed = debt
  BY <1>2, <1>3 DEF Moved
<1>5. bor[a] < 0
  <2>1. position'[v][a].borrowed < position[v][a].borrowed
    OBVIOUS
  <2> HIDE DEF owed
  <2> QED BY <1>1, <1>3, <2>1
<1>6. \A e \in Asset : dep[e] = 0
  <2>1. ~(bor[a] = 0) /\ ~(bor[a] >= 0)
    BY <1>1, <1>5
  <2> QED BY <2>1 DEF Weighed
<1>7. ASSUME NEW e \in Asset
      PROVE  CurrentPosition(u, e)'.deposited = CurrentPosition(u, e).deposited
  <2>0. Moved(u, T, dep, bor, u, e)
    BY CallBalances
  <2>1. CurrentPosition(u, e)'.deposited = CurrentPosition(u, e).deposited + dep[e]
    BY <2>0 DEF Moved
  <2>2. CurrentPosition(u, e).deposited \in Nat /\ dep[e] = 0
    BY <1>6, Parts
  <2> QED BY <2>1, <2>2
<1>8. SettingsKept /\ Price(a)' = p
  BY DEF Call, SettingsKept, Price
<1>9. Cover(u)' = Cover(u) /\ Cover(u) \in Int
  BY <1>7, <1>8, CoverKept, CoverOrdered
<1>10. debt \in Nat
  BY <1>3 DEF IInv, TypeOK, PositionType
<1> DEFINE r == owed - debt
           w == Cover(u)
           w2 == Cover(u)'
<1>11. r \in Nat /\ debt + r = owed
  <2> HIDE DEF owed
  <2> QED BY <1>1, <1>5, <1>10
<1>12. p \in Nat
  BY FactorsTyped
<1>13. /\ Shortfall(v, a) = owed * p * BPS - w
       /\ Shortfall(v, a)' = debt * p * BPS - w2
  BY <1>3, <1>4, <1>8 DEF Shortfall, Cover
<1> HIDE DEF owed, debt, p, r, w, w2
<1>14. w \in Int /\ w2 \in Int /\ r * p * BPS \in Nat /\ w2 = w
  <2>1. r * p \in Nat
    BY <1>11, <1>12, ProductNat
  <2> QED BY <1>9, <2>1, ProductNat, ScaleAssumption DEF w, w2
<1>15. w2 >= w - r * p * BPS
  <2> DEFINE m == r * p * BPS
  <2>1. m \in Nat
    BY <1>14
  <2> HIDE DEF m
  <2>2. w2 >= w - m
    BY <1>14, <2>1
  <2> QED BY <2>2 DEF m
<1>16. owed \in Nat
  BY <1>1
<1>17. debt * p * BPS - w2 <= owed * p * BPS - w
  BY <1>10, <1>11, <1>12, <1>14, <1>15, <1>16, LessOwed
<1> QED BY <1>13, <1>17

\* What is seized for a repayment, weighted, is worth no more than it, where
\* the discount leaves room under the threshold.
LEMMA SeizedWorthLess ==
    ASSUME NEW repay \in Nat, NEW pd \in Nat, NEW pc \in Nat \ {0}, NEW disc \in Nat,
           NEW lt \in Nat, lt * (BPS + disc) <= BPS * BPS, NEW seize \in Nat,
           seize <= ((repay * pd * (BPS + disc)) \div BPS) \div pc
    PROVE  /\ seize * pc * lt <= repay * pd * BPS
           /\ seize * pc * lt \in Nat /\ repay * pd * BPS \in Nat
<1> DEFINE k == BPS + disc
           g == repay * pd
           n == g * k
           v == n \div BPS
           q == v \div pc
           s == seize * pc
<1>1. BPS \in Nat \ {0} /\ k \in Nat /\ lt * k <= BPS * BPS /\ seize <= q
  BY ScaleAssumption
<1>2. g \in Nat /\ s \in Nat
  BY ProductNat
<1> HIDE DEF k, g
<1>3. n \in Nat
  BY <1>1, <1>2, ProductNat
<1> HIDE DEF n
<1>4. v \in Nat /\ v * BPS <= n
  BY <1>1, <1>3, QuotientFits
<1> HIDE DEF v
<1>5. q \in Nat /\ q * pc <= v
  BY <1>4, QuotientFits
<1> HIDE DEF q
<1>6. s <= v
  <2>1. seize * pc <= q * pc
    BY <1>1, <1>5, ProductGrows
  <2>2. seize * pc \in Nat /\ q * pc \in Nat
    BY <1>5, ProductNat
  <2> QED BY <1>4, <1>5, <2>1, <2>2
<1> HIDE DEF s
<1>7. s * BPS <= g * k
  <2>1. s * BPS <= v * BPS
    BY <1>1, <1>2, <1>4, <1>6, ProductGrows
  <2>2. s * BPS \in Nat /\ v * BPS \in Nat
    BY <1>1, <1>2, <1>4, ProductNat
  <2> QED BY <1>3, <1>4, <2>1, <2>2 DEF n
<1>8. (s * lt) * BPS <= (g * BPS) * BPS
  <2> DEFINE a1 == s * BPS
             a2 == g * k
             a3 == lt * k
             a4 == BPS * BPS
  <2>1. a1 \in Nat /\ a2 \in Nat /\ a3 \in Nat /\ a4 \in Nat
    BY <1>1, <1>2, ProductNat
  <2>2. a1 * lt <= a2 * lt
    <3>1. a1 <= a2
      BY <1>7
    <3> HIDE DEF a1, a2
    <3> QED BY <2>1, <3>1, ProductGrows
  <2>3. a3 * g <= a4 * g
    <3>1. a3 <= a4
      BY <1>1
    <3> HIDE DEF a3, a4
    <3> QED BY <1>2, <2>1, <3>1, ProductGrows
  <2>4. /\ (s * lt) * BPS = a1 * lt /\ a2 * lt = a3 * g
        /\ (g * BPS) * BPS = a4 * g
    BY <1>1, <1>2
  <2>5. a1 * lt \in Nat /\ a3 * g \in Nat /\ a4 * g \in Nat
    <3> HIDE DEF a1, a2, a3, a4
    <3> QED BY <1>2, <2>1, ProductNat
  <2> HIDE DEF a1, a2, a3, a4
  <2> QED BY <2>2, <2>3, <2>4, <2>5
<1>9. s * lt \in Nat /\ g * BPS \in Nat
  BY <1>1, <1>2, ProductNat
<1>10. s * lt <= g * BPS
  <2> DEFINE b1 == s * lt
             b2 == g * BPS
  <2>1. b1 * BPS <= b2 * BPS
    BY <1>8
  <2> HIDE DEF b1, b2
  <2>2. b1 \in Nat /\ b2 \in Nat
    BY <1>9 DEF b1, b2
  <2>3. b1 <= b2
    BY <1>1, <2>1, <2>2, ProductCancels
  <2> QED BY <2>3 DEF b1, b2
<1> QED BY <1>9, <1>10 DEF s, g

\* Taking from one deposit takes no more than its weight from the cover.
LEMMA CoverLoses ==
    ASSUME IInv, IsFiniteSet(supported), NEW c \in supported,
           NEW old \in [Asset -> Nat], NEW new \in [Asset -> Nat],
           NEW factor \in [Asset -> Nat], NEW seize \in Nat,
           new[c] = old[c] \/ new[c] = old[c] - seize,
           \A a \in Asset \ {c} : new[a] = old[a]
    PROVE  /\ Weighted(old, factor) \in Int /\ Weighted(new, factor) \in Int
           /\ Weighted(new, factor)
                 >= Weighted(old, factor) - seize * Price(c) * factor[c]
<1> DEFINE f == [a \in Asset |-> old[a] * Price(a) * factor[a]]
           g == [a \in Asset |-> new[a] * Price(a) * factor[a]]
           taken == seize * Price(c) * factor[c]
<1>1. c \in Asset /\ supported \subseteq Asset
  BY DEF IInv, TypeOK
<1>2. /\ Weighted(old, factor) \in Int
      /\ Weighted(old, factor) = SumFunctionOnSet(f, supported)
      /\ \A a \in Asset : f[a] \in Nat
  BY WeightedSum
<1>3. /\ Weighted(new, factor) \in Int
      /\ Weighted(new, factor) = SumFunctionOnSet(g, supported)
      /\ \A a \in Asset : g[a] \in Nat
  BY WeightedSum
<1>4. \A a \in Asset \ {c} : g[a] = f[a]
  OBVIOUS
<1>5. g[c] - f[c] >= -taken /\ taken \in Nat
  <2> DEFINE x == old[c]
             y == new[c]
             p == Price(c)
             k == factor[c]
             w == p * k
  <2>1. x \in Nat /\ y \in Nat /\ p \in Nat /\ k \in Nat /\ (y = x \/ y = x - seize)
    BY <1>1, FactorsTyped
  <2>2. f[c] = x * p * k /\ g[c] = y * p * k /\ taken = seize * p * k
    BY <1>1
  <2> HIDE DEF x, y, p, k, f, g, taken
  <2>3. w \in Nat
    BY <2>1, ProductNat
  <2>4. f[c] = x * w /\ g[c] = y * w /\ taken = seize * w
    BY <2>1, <2>2
  <2> HIDE DEF w
  <2>5. x * w \in Nat /\ y * w \in Nat /\ seize * w \in Nat
    BY <2>1, <2>3, ProductNat
  <2>6. y * w = x * w \/ y * w = x * w - seize * w
    BY <2>1, <2>3
  <2> QED BY <2>4, <2>5, <2>6
<1> HIDE DEF f, g, taken
<1>6. SumFunctionOnSet(g, supported) = SumFunctionOnSet(f, supported) + (g[c] - f[c])
  <2>1. \A a \in supported : f[a] \in Int /\ g[a] \in Int
    BY <1>1, <1>2, <1>3
  <2>2. \A a \in supported \ {c} : g[a] = f[a]
    BY <1>1, <1>4
  <2> QED BY <2>1, <2>2, SumMoves
<1>7. f[c] \in Nat /\ g[c] \in Nat
  BY <1>1, <1>2, <1>3
<1>8. Weighted(new, factor) >= Weighted(old, factor) - taken
  BY <1>2, <1>3, <1>5, <1>6, <1>7
<1> QED BY <1>2, <1>3, <1>8 DEF taken

LEMMA LiquidationStays ==
    ASSUME IInv, NEW l \in User, NEW u \in User, NEW c \in Asset, NEW d \in Asset,
           NEW n \in Int, Liquidate(l, u, c, d, n), NEW a \in Asset
    PROVE  AccrualStays(a)
<1> DEFINE repay == Smaller(n, CurrentPosition(u, d).borrowed)
           owed == -repay
           b == Posted(Accrued(d), 0, owed, repay, 0)
<1>1. /\ book' = [book EXCEPT ![c] = Accrued(c), ![d] = b]
      /\ book \in [Asset -> BookType] /\ now' = now /\ UNCHANGED rates
  BY DEF Liquidate, IInv, TypeOK, adminVars
<1>2. repay \in Int /\ owed \in Int /\ 0 \in Int
  BY LiquidatedAmounts
<1>3. Carries(Accrued(c), c) /\ Carries(Accrued(d), d)
  BY Parts
<1> HIDE DEF repay, owed
<1>4. Carries(b, d)
  BY <1>2, <1>3, PostedBook
<1> HIDE DEF b
<1>5. book'[a] = book[a] \/ Carries(book'[a], a)
  <2>1. CASE a = d
    BY <1>1, <1>4, <2>1
  <2>2. CASE a = c /\ a # d
    BY <1>1, <1>3, <2>2
  <2>3. CASE a # c /\ a # d
    BY <1>1, <2>3
  <2> QED BY <2>1, <2>2, <2>3
<1> QED BY <1>1, <1>5, AccrualKept

\* What the liquidation makes of the borrower's collateral and debt, and of a
\* debt of anybody else.
Seized(u, c, seize) ==
    \E y : /\ Fresh(y, c) /\ position'[u][c] = Stored(y)
           /\ y.borrowed = CurrentPosition(u, c).borrowed
           /\ \/ y.deposited = CurrentPosition(u, c).deposited
              \/ y.deposited = CurrentPosition(u, c).deposited - seize

Repaid(u, d, repay) ==
    \E x : /\ Fresh(x, d) /\ position'[u][d] = Stored(x)
           /\ x.deposited = CurrentPosition(u, d).deposited
           /\ x.borrowed = CurrentPosition(u, d).borrowed - repay

DebtsElsewhere(u, c, d) ==
    \A v \in User : \A a \in Asset :
        (v # u \/ a \notin {c, d}) =>
           \/ position'[v][a] = position[v][a]
           \/ a = c /\ position'[v][a].borrowed = CurrentPosition(v, a).borrowed

\* The three writes, in their order.
LEMMA LiquidationWrites ==
    ASSUME IInv, NEW l \in User, NEW u \in User, NEW c \in Asset, NEW d \in Asset,
           NEW repay \in Nat, repay <= CurrentPosition(u, d).borrowed,
           NEW seize \in Nat, seize <= CurrentPosition(u, c).deposited,
           position' = LiquidatedPositions(l, u, c, d, repay, seize)
    PROVE  /\ Seized(u, c, seize)
           /\ c # d => Repaid(u, d, repay)
           /\ DebtsElsewhere(u, c, d)
<1> DEFINE debt == CurrentPosition(u, d)
           coll == CurrentPosition(u, c)
           x == [debt EXCEPT !.borrowed = debt.borrowed - repay]
           y == [coll EXCEPT !.deposited = coll.deposited - seize]
           first == [position EXCEPT ![u][d] = Stored(x)]
           second == [first EXCEPT ![u][c] = Stored(y)]
           gained == AtCurrentIndex(second[l][c], c)
           z == [gained EXCEPT !.deposited = gained.deposited + seize]
<1>1. position' = [second EXCEPT ![l][c] = Stored(z)]
  BY DEF LiquidatedPositions
<1>2. /\ position \in [User -> [Asset -> PositionType]]
      /\ Fresh(debt, d) /\ Fresh(coll, c)
      /\ debt.borrowed \in Nat /\ coll.deposited \in Nat
  BY Parts, CurrentIsFresh DEF IInv, TypeOK
<1>3. /\ Fresh(x, d) /\ x.deposited = debt.deposited /\ x.borrowed = debt.borrowed - repay
      /\ Fresh(y, c) /\ y.deposited = coll.deposited - seize /\ y.borrowed = coll.borrowed
  <2> DEFINE i == debt.borrowed - repay
             j == coll.deposited - seize
  <2>1. i \in Nat /\ j \in Nat
    BY <1>2
  <2>2. x = [debt EXCEPT !.borrowed = i] /\ y = [coll EXCEPT !.deposited = j]
    OBVIOUS
  <2> HIDE DEF x, y, debt, coll
  <2>3. i = debt.borrowed - repay /\ j = coll.deposited - seize
    OBVIOUS
  <2> HIDE DEF i, j
  <2>4. Fresh(x, d) /\ x.deposited = debt.deposited /\ x.borrowed = i
    BY <1>2, <2>1, <2>2 DEF Fresh, PositionType
  <2>5. Fresh(y, c) /\ y.deposited = j /\ y.borrowed = coll.borrowed
    BY <1>2, <2>1, <2>2 DEF Fresh, PositionType
  <2> QED BY <2>3, <2>4, <2>5
<1>4. Stored(x) \in PositionType /\ Stored(y) \in PositionType
  <2>1. EmptyPosition \in PositionType
    BY ScaleAssumption DEF EmptyPosition, PositionType
  <2> QED BY <1>3, <2>1 DEF Stored, Fresh
<1> HIDE DEF debt, coll, x, y
<1>5. second \in [User -> [Asset -> PositionType]]
  BY <1>2, <1>4
<1>6. /\ second[u][c] = Stored(y)
      /\ c # d => second[u][d] = Stored(x)
      /\ \A v \in User : \A a \in Asset :
            (v # u \/ a \notin {c, d}) => second[v][a] = position[v][a]
  BY <1>2, <1>4
<1> HIDE DEF second
<1>7. /\ l = u => gained = y
      /\ l # u => gained = CurrentPosition(l, c)
  <2>1. CASE l = u
    <3>1. gained = CarriedTo(Stored(y), Accrual(c))
      BY <1>6, <2>1 DEF AtCurrentIndex
    <3> QED BY <1>3, <2>1, <3>1, StoredAgain DEF Fresh
  <2>2. CASE l # u
    BY <1>6, <2>2 DEF CurrentPosition
  <2> QED BY <2>1, <2>2
<1> HIDE DEF gained
<1>8. gained \in PositionType /\ Fresh(gained, c)
  <2>1. CASE l = u
    BY <1>3, <1>7, <2>1 DEF Fresh
  <2>2. CASE l # u
    BY <1>7, <2>2, CurrentIsFresh DEF Fresh
  <2> QED BY <2>1, <2>2
<1>9. Fresh(z, c) /\ z.deposited = gained.deposited + seize /\ z.borrowed = gained.borrowed
  <2> DEFINE i == gained.deposited + seize
  <2>1. i \in Nat
    BY <1>8 DEF PositionType
  <2> HIDE DEF i
  <2> QED BY <1>8, <2>1 DEF Fresh, PositionType
<1> HIDE DEF z
<1>10. /\ position'[l][c] = Stored(z)
       /\ \A v \in User : \A a \in Asset :
             (v # l \/ a # c) => position'[v][a] = second[v][a]
  BY <1>1, <1>5
<1>11. Seized(u, c, seize)
  <2>1. CASE l = u
    <3>1. z.deposited = coll.deposited /\ z.borrowed = coll.borrowed
      BY <1>2, <1>3, <1>7, <1>9, <2>1
    <3> QED BY <1>9, <1>10, <2>1, <3>1 DEF Seized, coll
  <2>2. CASE l # u
    BY <1>3, <1>6, <1>10, <2>2 DEF Seized, coll
  <2> QED BY <2>1, <2>2
<1>12. c # d => Repaid(u, d, repay)
  BY <1>3, <1>6, <1>10 DEF Repaid, debt
<1>13. ASSUME NEW v \in User, NEW a \in Asset, v # u \/ a \notin {c, d}
       PROVE  \/ position'[v][a] = position[v][a]
              \/ a = c /\ position'[v][a].borrowed = CurrentPosition(v, a).borrowed
  <2>1. CASE v = l /\ a = c
    <3>1. l # u
      BY <1>13, <2>1
    <3>2. position'[v][a] = Stored(z) /\ z.borrowed = CurrentPosition(v, a).borrowed
      BY <1>7, <1>9, <1>10, <2>1, <3>1
    <3>3. Stored(z).borrowed = z.borrowed
      BY DEF Stored, EmptyPosition
    <3> QED BY <2>1, <3>2, <3>3
  <2>2. CASE ~(v = l /\ a = c)
    BY <1>6, <1>10, <1>13, <2>2
  <2> QED BY <2>1, <2>2
<1> QED BY <1>11, <1>12, <1>13 DEF DebtsElsewhere

\* The debt whose stored amount a liquidation lowers is the one repaid.
LEMMA LoweredDebt ==
    ASSUME IInv, NEW u \in User, NEW c \in Asset, NEW d \in Asset, NEW seize,
           Seized(u, c, seize), DebtsElsewhere(u, c, d),
           NEW v \in User, NEW a \in Asset,
           position'[v][a].borrowed < position[v][a].borrowed
    PROVE  v = u /\ a = d /\ c # d
<1>1. /\ position[v][a].borrowed \in Nat /\ CurrentPosition(v, a).borrowed \in Nat
      /\ position[v][a].borrowed <= CurrentPosition(v, a).borrowed
  BY DebtOnlyGrows
<1>2. /\ position'[v][a] # position[v][a]
      /\ position'[v][a].borrowed # CurrentPosition(v, a).borrowed
  <2> DEFINE p == position'[v][a].borrowed
             q == position[v][a].borrowed
             r == CurrentPosition(v, a).borrowed
  <2>1. p < q
    OBVIOUS
  <2>2. position'[v][a] = position[v][a] => p = q
    OBVIOUS
  <2> HIDE DEF p, q, r
  <2>3. p # q /\ p # r
    BY <1>1, <2>1 DEF q, r
  <2> QED BY <2>2, <2>3 DEF p, r
<1>3. v = u /\ a \in {c, d}
  BY <1>2 DEF DebtsElsewhere
<1>4. a # c
  <2> SUFFICES ASSUME a = c PROVE FALSE
    OBVIOUS
  <2>1. PICK y : /\ position'[u][c] = Stored(y)
                 /\ y.borrowed = CurrentPosition(u, c).borrowed
    BY DEF Seized
  <2>2. Stored(y).borrowed = y.borrowed
    BY DEF Stored, EmptyPosition
  <2> QED BY <1>2, <1>3, <2>1, <2>2
<1> QED BY <1>3, <1>4

\* What the borrower of a liquidation across two assets has afterwards.
LEMMA LiquidatedBalances ==
    ASSUME IInv, NEW l \in User, NEW u \in User, NEW c \in Asset, NEW d \in Asset,
           NEW n \in Int, Liquidate(l, u, c, d, n), c # d,
           NEW repay \in Nat, NEW seize \in Nat,
           Seized(u, c, seize), Repaid(u, d, repay), DebtsElsewhere(u, c, d)
    PROVE  /\ CurrentPosition(u, d)'.borrowed = CurrentPosition(u, d).borrowed - repay
           /\ Deposits(u)' \in [Asset -> Nat]
           /\ Deposits(u)'[c] \in {Deposits(u)[c], Deposits(u)[c] - seize}
           /\ \A a \in Asset \ {c} : Deposits(u)'[a] = Deposits(u)[a]
<1>1. \A a \in Asset : AccrualStays(a)
  BY LiquidationStays
<1>2. PICK y : /\ Fresh(y, c) /\ position'[u][c] = Stored(y)
               /\ \/ y.deposited = CurrentPosition(u, c).deposited
                  \/ y.deposited = CurrentPosition(u, c).deposited - seize
  BY DEF Seized
<1>3. PICK x : /\ Fresh(x, d) /\ position'[u][d] = Stored(x)
               /\ x.deposited = CurrentPosition(u, d).deposited
               /\ x.borrowed = CurrentPosition(u, d).borrowed - repay
  BY DEF Repaid
<1>4. CurrentPosition(u, c)' = y /\ CurrentPosition(u, d)' = x
  BY <1>1, <1>2, <1>3, WrittenPosition
<1>5. ASSUME NEW a \in Asset \ {c, d}
      PROVE  CurrentPosition(u, a)' = CurrentPosition(u, a)
  <2>1. position'[u][a] = position[u][a]
    BY DEF DebtsElsewhere
  <2> QED BY <1>1, <2>1, UnwrittenPosition
<1>6. /\ Deposits(u) = [a \in Asset |-> CurrentPosition(u, a).deposited]
      /\ Deposits(u)' = [a \in Asset |-> CurrentPosition(u, a)'.deposited]
  BY DEF Deposits
<1>7. ASSUME NEW a \in Asset PROVE CurrentPosition(u, a)'.deposited \in Nat
  <2>1. y.deposited \in Nat /\ x.deposited \in Nat
    BY <1>2, <1>3 DEF Fresh, PositionType
  <2>2. CurrentPosition(u, a).deposited \in Nat
    BY Parts
  <2> QED BY <1>4, <1>5, <2>1, <2>2
<1> QED BY <1>2, <1>3, <1>4, <1>5, <1>6, <1>7

LEMMA LiquidationShortfall ==
    ASSUME IInv, CollateralInv, NEW l \in User, NEW u \in User, NEW c \in Asset,
           NEW d \in Asset, NEW n \in Int, Liquidate(l, u, c, d, n),
           \A e \in Asset : LiquidationThreshold(e) * (BPS + config.discount_bps)
                               <= BPS * BPS,
           NEW v \in User, NEW a \in Asset,
           position'[v][a].borrowed < position[v][a].borrowed
    PROVE  Shortfall(v, a)' <= Shortfall(v, a)
<1> DEFINE repay == Smaller(n, CurrentPosition(u, d).borrowed)
           seize == SeizeAmount(u, c, d, repay)
           value == (repay * Price(d) * (BPS + config.discount_bps)) \div BPS
           lt == [e \in Asset |-> LiquidationThreshold(e)]
           owed == CurrentPosition(u, d).borrowed
           rest == owed - repay
           old == Deposits(u)
           new == Deposits(u)'
<1>1. /\ position' = LiquidatedPositions(l, u, c, d, repay, seize)
      /\ c \in supported /\ PriceReadable(c) /\ SettingsKept
  BY DEF Liquidate, MayLiquidate, SettingsKept, oracleVars, adminVars
<1>2. /\ repay \in Nat /\ repay <= owed
      /\ seize \in Nat /\ seize <= CurrentPosition(u, c).deposited
  BY LiquidatedAmounts
<1>3. /\ seize = Smaller(value \div Price(c), CurrentPosition(u, c).deposited)
      /\ CurrentPosition(u, c).deposited \in Nat /\ owed \in Nat
  BY Parts DEF SeizeAmount
<1> HIDE DEF repay, seize
<1>4. /\ Seized(u, c, seize) /\ DebtsElsewhere(u, c, d)
      /\ c # d => Repaid(u, d, repay)
  BY <1>1, <1>2, LiquidationWrites
<1>5. v = u /\ a = d /\ c # d
  BY <1>4, LoweredDebt
<1>6. /\ CurrentPosition(u, d)'.borrowed = rest
      /\ new \in [Asset -> Nat] /\ new[c] \in {old[c], old[c] - seize}
      /\ \A e \in Asset \ {c} : new[e] = old[e]
  BY <1>2, <1>4, <1>5, LiquidatedBalances
<1>7. old \in [Asset -> Nat]
  BY Parts DEF Deposits
<1>8. lt \in [Asset -> Nat]
  BY FactorsTyped
<1>9. /\ Cover(u) = Weighted(old, lt) /\ Cover(u)' = Weighted(new, lt)
      /\ Price(d)' = Price(d)
  BY <1>1 DEF Cover, Weighted, LiquidationThreshold, Price, SettingsKept
<1>10. /\ Shortfall(u, d) = owed * Price(d) * BPS - Cover(u)
       /\ Shortfall(u, d)' = rest * Price(d) * BPS - Cover(u)'
  BY <1>6, <1>9 DEF Shortfall, Cover
<1>11. /\ Price(d) \in Nat /\ Price(c) \in Nat \ {0} /\ config.discount_bps \in Nat
       /\ lt[c] \in Nat /\ lt[c] * (BPS + config.discount_bps) <= BPS * BPS
  <2>1. Price(d) \in Nat /\ Price(c) \in Nat
    BY FactorsTyped
  <2>2. Price(c) # 0
    BY <1>1, <2>1 DEF PriceReadable, Price
  <2>3. config.discount_bps \in Nat
    BY DEF IInv, TypeOK, ConfigType
  <2> QED BY <1>8, <2>1, <2>2, <2>3
<1> HIDE DEF lt, old, new
<1>12. seize <= value \div Price(c)
  <2> DEFINE k == repay * Price(d) * (BPS + config.discount_bps)
             q == value \div Price(c)
  <2>1. k \in Nat
    <3>1. repay * Price(d) \in Nat
      BY <1>2, <1>11, ProductNat
    <3>2. BPS + config.discount_bps \in Nat
      BY <1>11, ScaleAssumption
    <3> QED BY <3>1, <3>2, ProductNat
  <2>2. value = k \div BPS
    OBVIOUS
  <2> HIDE DEF k
  <2>3. value \in Nat
    BY <2>1, <2>2, QuotientNat, ScaleAssumption
  <2> HIDE DEF value
  <2>4. q \in Nat
    BY <1>11, <2>3, QuotientNat
  <2>5. seize = Smaller(q, CurrentPosition(u, c).deposited)
    BY <1>3
  <2> HIDE DEF q
  <2>6. seize <= q
    BY <1>3, <2>4, <2>5 DEF Smaller
  <2> QED BY <2>6 DEF q
<1> DEFINE taken == seize * Price(c) * lt[c]
           gone == repay * Price(d) * BPS
<1>13. taken <= gone /\ taken \in Nat /\ gone \in Nat
  BY <1>2, <1>11, <1>12, SeizedWorthLess
<1>14. /\ Weighted(old, lt) \in Int /\ Weighted(new, lt) \in Int
       /\ Weighted(new, lt) >= Weighted(old, lt) - taken
  BY <1>1, <1>2, <1>6, <1>7, <1>8, CoverLoses DEF CollateralInv
<1>15. Weighted(new, lt) >= Weighted(old, lt) - gone
  <2> HIDE DEF taken, gone
  <2> QED BY <1>13, <1>14
<1>16. rest \in Nat /\ rest + repay = owed
  <2> HIDE DEF owed
  <2> QED BY <1>2, <1>3
<1> HIDE DEF rest, owed
<1>17. rest * Price(d) * BPS - Weighted(new, lt) <= owed * Price(d) * BPS - Weighted(old, lt)
  BY <1>2, <1>3, <1>11, <1>14, <1>15, <1>16, LessOwed
<1> QED BY <1>5, <1>9, <1>10, <1>17

LEMMA ShortfallShrinks ==
    ASSUME IInv, CollateralInv, [Next \/ BatchStep]_vars, NEW v \in User, NEW a \in Asset,
           position'[v][a].borrowed < position[v][a].borrowed,
           \A c \in Asset : LiquidationThreshold(c) * (BPS + config.discount_bps)
                               <= BPS * BPS
    PROVE  Shortfall(v, a)' <= Shortfall(v, a)
<1>1. IInv' /\ position[v][a].borrowed \in Nat
  BY NextSound, DebtOnlyGrows DEF Sound
<1>2. CASE UNCHANGED position
  <2>1. position'[v][a].borrowed = position[v][a].borrowed
    BY <1>2
  <2>2. position'[v][a].borrowed < position[v][a].borrowed
    OBVIOUS
  <2> QED BY <1>1, <2>1, <2>2
<1>3. ASSUME NEW u \in User, NEW T \in SUBSET Asset, NEW dep \in [Asset -> Int],
             NEW bor \in [Asset -> Int], Call(u, T, dep, bor), Weighed(u, T, dep, bor)
      PROVE  Shortfall(v, a)' <= Shortfall(v, a)
  BY <1>1, <1>3, CallShortfall
<1>4. ASSUME NEW l \in User, NEW u \in User, NEW c \in Asset, NEW d \in Asset,
             NEW n \in Int, Liquidate(l, u, c, d, n)
      PROVE  Shortfall(v, a)' <= Shortfall(v, a)
  BY <1>4, LiquidationShortfall
<1> QED BY <1>2, <1>3, <1>4, MovingSteps

\* No liquidation, by whomever and of whatever pair of assets, leaves more of
\* the debt it repays uncovered, as long as the discount leaves room under the
\* thresholds; nor does a repayment, alone or in a batch, or a write-off.
THEOREM LiquidationsHelp == BatchSpec => LiquidationReducesShortfall
<1> DEFINE A == \A u \in User, a \in Asset :
          (/\ position'[u][a].borrowed < position[u][a].borrowed
           /\ book'[a].total_borrowed < book[a].total_borrowed
           /\ Liquidatable(u, a)
           /\ \A c \in Asset : LiquidationThreshold(c) * (BPS + config.discount_bps)
                                  <= BPS * BPS)
              => Shortfall(u, a)' <= Shortfall(u, a)
<1>1. CollateralSafe /\ [Next \/ BatchStep]_vars => [A]_vars
  BY ShortfallShrinks DEF CollateralSafe
<1> QED BY <1>1, CollateralThroughout, PTL DEF BatchSpec, LiquidationReducesShortfall

-----------------------------------------------------------------------------
(* Rewards.  What an index adds to all balances together is no more than    *)
(* the speed emitted, because the balances add up to the totals.            *)

PaceType == [supply_index : Nat, borrow_index : Nat, supply_speed : Nat,
             borrow_speed : Nat, last : Nat]
ClaimType == [supply_snapshot : Nat, borrow_snapshot : Nat, unclaimed : Nat]

\* RATE_SCALE times what a position p with the claim c is due at the indexes s.
Due(p, c, s) ==
    RATE_SCALE * c.unclaimed
    + p.deposited * (s.supply_index - c.supply_snapshot)
    + p.borrowed * (s.borrow_index - c.borrow_snapshot)

Pending(u, a) == Due(position[u][a], claim[u][a], pace[a])

Owing == [u \in User |-> RATE_SCALE * granted[u]
                           + SumFunctionOnSet([a \in Asset |-> Pending(u, a)], Asset)]

Behindhand(c, s) ==
    c.supply_snapshot <= s.supply_index /\ c.borrow_snapshot <= s.borrow_index

EarnedInv ==
    /\ pace \in [Asset -> PaceType]
    /\ claim \in [User -> [Asset -> ClaimType]]
    /\ granted \in [User -> Nat] /\ emitted \in Nat
    /\ \A u \in User, a \in Asset : Behindhand(claim[u][a], pace[a])
    /\ SumFunctionOnSet(Owing, User) <= RATE_SCALE * emitted

LEMMA ProductInt == \A m, n \in Int : m * n \in Int
OBVIOUS

LEMMA ProductTurns == \A m, n \in Int : m * n = n * m
OBVIOUS

LEMMA ProductSplits ==
    \A m, x, y, z \in Int : m * (x - z) = m * (y - z) + m * (x - y)
OBVIOUS

LEMMA ProductOverSum == \A k, m, n \in Int : k * (m + n) = k * m + k * n
OBVIOUS

LEMMA NatProducts ==
    /\ \A m, n \in Nat : m * n \in Nat
    /\ \A m, n, k \in Nat : m <= n => m * k <= n * k
OBVIOUS

LEMMA IndexPaid ==
    ASSUME NEW a \in Asset, pace[a] \in PaceType, now \in Nat,
           NEW speed \in Nat, NEW total \in Nat
    PROVE  /\ Elapsed(a) \in Nat /\ IndexDelta(a, speed, total) \in Nat
           /\ total * IndexDelta(a, speed, total)
                 <= RATE_SCALE * (Elapsed(a) * (IF total > 0 THEN speed ELSE 0))
<1> DEFINE t == Elapsed(a)
<1>1. t \in Nat /\ RATE_SCALE \in Nat
  BY ScaleAssumption DEF Elapsed, PaceType
<1> HIDE DEF t
<1>2. CASE speed > 0 /\ total > 0
  <2> DEFINE n == speed * t * RATE_SCALE
  <2>1. n \in Nat /\ total \in Nat \ {0}
    BY <1>1, <1>2, NatProducts
  <2>2. n = RATE_SCALE * (t * speed)
    <3>1. speed * t = t * speed /\ speed * t \in Int
      BY <1>1, ProductInt, ProductTurns
    <3>2. (speed * t) * RATE_SCALE = RATE_SCALE * (speed * t)
      BY <1>1, <3>1, ProductTurns
    <3> QED BY <3>1, <3>2
  <2>3. IndexDelta(a, speed, total) = n \div total
    BY <1>2 DEF IndexDelta, t
  <2> HIDE DEF n
  <2>4. n \div total \in Nat /\ (n \div total) * total <= n
    BY <2>1, QuotientFits
  <2>5. (n \div total) * total = total * (n \div total)
    BY <2>4, ProductTurns
  <2> QED BY <1>1, <1>2, <2>2, <2>3, <2>4, <2>5 DEF t
<1>3. CASE ~(speed > 0 /\ total > 0)
  <2>1. IndexDelta(a, speed, total) = 0
    BY <1>3 DEF IndexDelta
  <2>2. (IF total > 0 THEN speed ELSE 0) = 0
    BY <1>3
  <2>3. t * 0 = 0 /\ RATE_SCALE * 0 = 0 /\ total * 0 = 0
    BY <1>1
  <2> QED BY <1>1, <2>1, <2>2, <2>3 DEF t
<1> QED BY <1>2, <1>3

LEMMA EarnedPart ==
    ASSUME NEW balance \in Nat, NEW index \in Nat, NEW snapshot \in Nat, snapshot <= index
    PROVE  /\ Earned(balance, index, snapshot) \in Nat
           /\ RATE_SCALE * Earned(balance, index, snapshot) <= balance * (index - snapshot)
<1> DEFINE n == balance * (index - snapshot)
<1>1. n \in Nat /\ RATE_SCALE \in Nat \ {0}
  BY NatProducts, ScaleAssumption
<1>2. CASE balance > 0 /\ index > snapshot
  <2>1. Earned(balance, index, snapshot) = n \div RATE_SCALE
    BY <1>2 DEF Earned
  <2> HIDE DEF n
  <2>2. n \div RATE_SCALE \in Nat /\ (n \div RATE_SCALE) * RATE_SCALE <= n
    BY <1>1, QuotientFits
  <2>3. (n \div RATE_SCALE) * RATE_SCALE = RATE_SCALE * (n \div RATE_SCALE)
    BY <1>1, <2>2, ProductTurns
  <2> QED BY <2>1, <2>2, <2>3 DEF n
<1>3. CASE ~(balance > 0 /\ index > snapshot)
  <2>1. Earned(balance, index, snapshot) = 0
    BY <1>3 DEF Earned
  <2>2. RATE_SCALE * 0 = 0
    BY <1>1
  <2> QED BY <1>1, <2>1, <2>2
<1> QED BY <1>2, <1>3

\* Indexes only grow, and for all balances of the book b together by no more
\* than was emitted.
LEMMA AdvancedFacts ==
    ASSUME NEW a \in Asset, pace[a] \in PaceType, now \in Nat,
           NEW b, b.total_deposited \in Nat, b.total_borrowed \in Nat
    PROVE  LET s == pace[a]
               r == Advanced(a, b)
           IN  /\ r \in PaceType /\ Emission(a, b) \in Nat
               /\ r.supply_index >= s.supply_index /\ r.borrow_index >= s.borrow_index
               /\ b.total_deposited * (r.supply_index - s.supply_index)
                    + b.total_borrowed * (r.borrow_index - s.borrow_index)
                  <= RATE_SCALE * Emission(a, b)
<1> DEFINE s == pace[a]
           r == Advanced(a, b)
           D == b.total_deposited
           B == b.total_borrowed
           ds == IndexDelta(a, s.supply_speed, D)
           db == IndexDelta(a, s.borrow_speed, B)
           t == Elapsed(a)
           v == IF D > 0 THEN s.supply_speed ELSE 0
           w == IF B > 0 THEN s.borrow_speed ELSE 0
<1>1. /\ s.supply_speed \in Nat /\ s.borrow_speed \in Nat
      /\ s.supply_index \in Nat /\ s.borrow_index \in Nat
      /\ D \in Nat /\ B \in Nat /\ v \in Nat /\ w \in Nat /\ RATE_SCALE \in Nat
  BY ScaleAssumption DEF PaceType
<1>2. /\ ds \in Nat /\ t \in Nat /\ D * ds <= RATE_SCALE * (t * v)
      /\ db \in Nat /\ B * db <= RATE_SCALE * (t * w)
  <2> HIDE DEF D, B
  <2> QED BY <1>1, IndexPaid
<1>3. r = [s EXCEPT !.supply_index = s.supply_index + ds,
                    !.borrow_index = s.borrow_index + db, !.last = now]
  BY DEF Advanced
<1>4. Emission(a, b) = t * (v + w)
  BY DEF Emission
<1> HIDE DEF D, B, ds, db, t, v, w
<1>5. /\ r \in PaceType /\ r.supply_index = s.supply_index + ds
      /\ r.borrow_index = s.borrow_index + db
  <2>1. s \in PaceType /\ s.supply_index + ds \in Nat /\ s.borrow_index + db \in Nat
    BY <1>1, <1>2
  <2> HIDE DEF r, s
  <2> QED BY <1>3, <2>1 DEF PaceType
<1> HIDE DEF r
<1>6. RATE_SCALE * (t * (v + w)) = RATE_SCALE * (t * v) + RATE_SCALE * (t * w)
  <2>1. t * (v + w) = t * v + t * w /\ t * v \in Int /\ t * w \in Int
    BY <1>1, <1>2, ProductInt, ProductOverSum
  <2> QED BY <1>1, <2>1, ProductOverSum
<1>7. t * (v + w) \in Nat
  BY <1>1, <1>2, NatProducts
<1>8. /\ r.supply_index - s.supply_index = ds /\ r.borrow_index - s.borrow_index = db
      /\ r.supply_index >= s.supply_index /\ r.borrow_index >= s.borrow_index
  <2> HIDE DEF s
  <2> QED BY <1>1, <1>2, <1>5
<1>9. D * ds + B * db <= RATE_SCALE * (t * (v + w))
  <2>1. /\ D * ds \in Int /\ B * db \in Int
        /\ RATE_SCALE * (t * v) \in Int /\ RATE_SCALE * (t * w) \in Int
    <3>1. t * v \in Int /\ t * w \in Int
      BY <1>1, <1>2, ProductInt
    <3> QED BY <1>1, <1>2, <3>1, ProductInt
  <2> QED BY <1>2, <1>6, <2>1
<1> QED BY <1>4, <1>5, <1>7, <1>8, <1>9 DEF r, D, B

\* A settled claim is worth no more than it was due.
LEMMA SettledFacts ==
    ASSUME NEW u \in User, NEW a \in Asset, claim[u][a] \in ClaimType,
           NEW p, p.deposited \in Nat, p.borrowed \in Nat,
           NEW r \in PaceType, Behindhand(claim[u][a], r)
    PROVE  LET c == Settled(u, a, p, r)
           IN  /\ c \in ClaimType
               /\ c.supply_snapshot = r.supply_index /\ c.borrow_snapshot = r.borrow_index
               /\ RATE_SCALE * c.unclaimed <= Due(p, claim[u][a], r)
<1> DEFINE o == claim[u][a]
           x == Earned(p.deposited, r.supply_index, o.supply_snapshot)
           y == Earned(p.borrowed, r.borrow_index, o.borrow_snapshot)
           c == Settled(u, a, p, r)
<1>1. /\ o.unclaimed \in Nat /\ o.supply_snapshot \in Nat /\ o.borrow_snapshot \in Nat
      /\ r.supply_index \in Nat /\ r.borrow_index \in Nat
      /\ o.supply_snapshot <= r.supply_index /\ o.borrow_snapshot <= r.borrow_index
  BY DEF ClaimType, PaceType, Behindhand
<1>2. /\ x \in Nat /\ RATE_SCALE * x <= p.deposited * (r.supply_index - o.supply_snapshot)
      /\ y \in Nat /\ RATE_SCALE * y <= p.borrowed * (r.borrow_index - o.borrow_snapshot)
  <2> HIDE DEF o
  <2> QED BY <1>1, EarnedPart
<1>3. c = [supply_snapshot |-> r.supply_index, borrow_snapshot |-> r.borrow_index,
           unclaimed |-> o.unclaimed + x + y]
  BY DEF Settled
<1>4. Due(p, o, r) = RATE_SCALE * o.unclaimed
                       + p.deposited * (r.supply_index - o.supply_snapshot)
                       + p.borrowed * (r.borrow_index - o.borrow_snapshot)
  BY DEF Due
<1> HIDE DEF x, y, c
<1>5. RATE_SCALE * (o.unclaimed + x + y) = RATE_SCALE * o.unclaimed + RATE_SCALE * x + RATE_SCALE * y
  <2>1. RATE_SCALE \in Int /\ o.unclaimed + x \in Int
    BY <1>1, <1>2, ScaleAssumption
  <2> HIDE DEF o
  <2>2. RATE_SCALE * ((o.unclaimed + x) + y) = RATE_SCALE * (o.unclaimed + x) + RATE_SCALE * y
    BY <1>2, <2>1, ProductOverSum
  <2>3. RATE_SCALE * (o.unclaimed + x) = RATE_SCALE * o.unclaimed + RATE_SCALE * x
    BY <1>1, <1>2, <2>1, ProductOverSum
  <2> QED BY <2>2, <2>3
<1>6. /\ RATE_SCALE * o.unclaimed \in Int /\ RATE_SCALE * x \in Int /\ RATE_SCALE * y \in Int
      /\ p.deposited * (r.supply_index - o.supply_snapshot) \in Int
      /\ p.borrowed * (r.borrow_index - o.borrow_snapshot) \in Int
  <2>1. RATE_SCALE \in Int
    BY ScaleAssumption
  <2> HIDE DEF o
  <2> QED BY <1>1, <1>2, <2>1, ProductInt
<1>7. RATE_SCALE * (o.unclaimed + x + y) <= Due(p, o, r)
  <2> HIDE DEF o
  <2> QED BY <1>2, <1>4, <1>5, <1>6
<1>8. c \in ClaimType
  <2>1. o.unclaimed + x + y \in Nat
    BY <1>1, <1>2
  <2> QED BY <1>1, <1>3, <2>1 DEF ClaimType
<1> QED BY <1>3, <1>7, <1>8 DEF c

\* The units users hold, counted user by user.
LEMMA UnitsAreSummed ==
    ASSUME NEW f \in [User -> Nat], IsFiniteSet(User)
    PROVE  SumOf(f) = SumFunctionOnSet(f, User) /\ IsFiniteSet(UnitsHeld(f))
<1> DEFINE Part(s) == [u \in User |-> IF u \in s THEN f[u] ELSE 0]
           Good(s) == IsFiniteSet(UnitsHeld(Part(s))) /\ SumOf(Part(s)) = SumFunctionOnSet(f, s)
           Bad == {s \in SUBSET User : ~Good(s)}
<1>1. Part(User) = f
  OBVIOUS
<1>2. \A s \in SUBSET User : Part(s) \in [User -> Nat] /\ \A u \in User : Part(s)[u] = IF u \in s THEN f[u] ELSE 0
  OBVIOUS
<1>3. Good({})
  <2>1. UnitsHeld(Part({})) = {}
    BY DEF UnitsHeld
  <2>2. SumOf(Part({})) = 0 /\ IsFiniteSet(UnitsHeld(Part({})))
    BY <2>1, FS_EmptySet DEF SumOf
  <2> HIDE DEF Part
  <2> QED BY <2>2, SumOverEmpty
<1>4. ASSUME NEW s \in SUBSET User, NEW m \in s
      PROVE  s \ {m} \in SUBSET User /\ Part(s) = [Part(s \ {m}) EXCEPT ![m] = f[m]]
  OBVIOUS
<1> HIDE DEF Part
<1>5. Bad = {}
  <2> SUFFICES ASSUME Bad # {} PROVE FALSE
    OBVIOUS
  <2>1. PICK s \in Bad : \A t \in Bad : t \subseteq s => t = s
    <3>1. Bad \in SUBSET (SUBSET User)
      OBVIOUS
    <3> HIDE DEF Bad
    <3> QED BY <3>1, SmallestSet
  <2>2. s \in SUBSET User /\ ~Good(s) /\ s # {}
    BY <1>3, <2>1
  <2>3. PICK m : m \in s
    BY <2>2
  <2> DEFINE t == s \ {m}
  <2>4. t \in SUBSET User /\ t # s /\ t \subseteq s /\ m \in User /\ IsFiniteSet(s) /\ m \notin t
    BY <2>2, <2>3, FS_Subset
  <2>5. Good(t)
    BY <2>1, <2>4
  <2>6. Part(s) = [Part(t) EXCEPT ![m] = f[m]]
    BY <1>4, <2>2, <2>3
  <2>7. SumFunctionOnSet(f, s) = f[m] + SumFunctionOnSet(f, t)
    BY <2>2, <2>3, <2>4, SumTakesOut
  <2> HIDE DEF t
  <2>8. /\ IsFiniteSet(UnitsHeld(Part(s))) /\ SumOf(Part(t)) \in Nat
        /\ SumOf(Part(s)) = SumOf(Part(t)) + f[m] - Part(t)[m]
    <3>1. Part(t) \in [User -> Nat] /\ f[m] \in Nat /\ IsFiniteSet(UnitsHeld(Part(t)))
      BY <1>2, <2>4, <2>5
    <3> QED BY <2>4, <2>6, <3>1, SumChanges
  <2>9. Part(t)[m] = 0 /\ f[m] \in Nat
    BY <1>2, <2>4
  <2> QED BY <2>2, <2>5, <2>7, <2>8, <2>9
<1>6. Good(User)
  BY <1>5
<1> QED BY <1>1, <1>6

HeldIn(a) == [u \in User |-> position[u][a].deposited]
OwedIn(a) == [u \in User |-> position[u][a].borrowed]

\* The totals, in the books as in the positions.
LEMMA TotalsShared ==
    ASSUME Flat, PlacedNow, NEW a \in Asset
    PROVE  /\ SumFunctionOnSet(HeldIn(a), User) = book[a].total_deposited
           /\ SumFunctionOnSet(OwedIn(a), User) = book[a].total_borrowed
           /\ book[a].total_deposited \in Nat /\ book[a].total_borrowed \in Nat
           /\ Accrued(a).total_deposited = book[a].total_deposited
           /\ Accrued(a).total_borrowed = book[a].total_borrowed
<1>1. IsFiniteSet(User)
  BY RewardsAssumption
<1>2. HeldIn(a) \in [User -> Nat] /\ OwedIn(a) \in [User -> Nat]
  BY HeldPosition DEF HeldIn, OwedIn
<1>3. SumOf(HeldIn(a)) = book[a].total_deposited /\ SumOf(OwedIn(a)) = book[a].total_borrowed
  BY DEF PlacedNow, Placed, Sums, DepositTotals, BorrowTotals, HeldIn, OwedIn
<1>4. /\ SumFunctionOnSet(HeldIn(a), User) = SumOf(HeldIn(a))
      /\ SumFunctionOnSet(OwedIn(a), User) = SumOf(OwedIn(a))
  BY <1>1, <1>2, UnitsAreSummed
<1>5. SumFunctionOnSet(HeldIn(a), User) \in Nat /\ SumFunctionOnSet(OwedIn(a), User) \in Nat
  BY <1>1, <1>2, SumNatural
<1> QED BY <1>3, <1>4, <1>5, FlatAccrued

\* A step of the rewards in two parts.  For an asset: the indexes grow, for
\* all balances together by no more than e.
Fed(a, e) ==
    LET s == pace[a]
        r == pace'[a]
    IN  /\ r \in PaceType
        /\ r.supply_index >= s.supply_index /\ r.borrow_index >= s.borrow_index
        /\ book[a].total_deposited * (r.supply_index - s.supply_index)
             + book[a].total_borrowed * (r.borrow_index - s.borrow_index)
           <= RATE_SCALE * e

\* For a user: the claim is settled and n of it granted, or it stays and the
\* position does not grow.
Credited(u, a, n) ==
    \/ /\ claim'[u][a] = claim[u][a] /\ n = 0
       /\ position'[u][a].deposited <= position[u][a].deposited
       /\ position'[u][a].borrowed <= position[u][a].borrowed
    \/ LET c == Settled(u, a, position[u][a], pace'[a])
       IN  \E v \in Nat : claim'[u][a] = [c EXCEPT !.unclaimed = v] /\ v + n = c.unclaimed

LEMMA StaysCredited ==
    ASSUME NEW u \in User, NEW a \in Asset, claim'[u][a] = claim[u][a],
           position'[u][a].deposited <= position[u][a].deposited,
           position'[u][a].borrowed <= position[u][a].borrowed
    PROVE  Credited(u, a, 0)
BY DEF Credited

LEMMA CreditedFacts ==
    ASSUME EarnedInv, NEW u \in User, NEW a \in Asset, NEW n \in Nat, NEW e \in Nat,
           Fed(a, e), Credited(u, a, n),
           position[u][a].deposited \in Nat, position[u][a].borrowed \in Nat,
           position'[u][a].deposited \in Nat, position'[u][a].borrowed \in Nat
    PROVE  /\ claim'[u][a] \in ClaimType /\ Behindhand(claim'[u][a], pace'[a])
           /\ Pending(u, a) \in Int /\ Pending(u, a)' \in Int
           /\ Pending(u, a)' + RATE_SCALE * n
                 <= Pending(u, a)
                    + (position[u][a].deposited * (pace'[a].supply_index - pace[a].supply_index)
                       + position[u][a].borrowed * (pace'[a].borrow_index - pace[a].borrow_index))
<1> DEFINE s == pace[a]
           r == pace'[a]
           o == claim[u][a]
           q == claim'[u][a]
           p == position[u][a]
           p2 == position'[u][a]
           gain == p.deposited * (r.supply_index - s.supply_index)
                     + p.borrowed * (r.borrow_index - s.borrow_index)
<1>1. /\ s \in PaceType /\ r \in PaceType /\ o \in ClaimType /\ Behindhand(o, s)
      /\ r.supply_index >= s.supply_index /\ r.borrow_index >= s.borrow_index
  BY DEF EarnedInv, Fed
<1>2. /\ p.deposited \in Nat /\ p.borrowed \in Nat
      /\ p2.deposited \in Nat /\ p2.borrowed \in Nat
  OBVIOUS
<1>3. /\ Pending(u, a) = Due(p, o, s) /\ Pending(u, a)' = Due(p2, q, r)
  BY DEF Pending, Due
<1>4. \/ /\ q = o /\ n = 0 /\ p2.deposited <= p.deposited /\ p2.borrowed <= p.borrowed
      \/ LET c == Settled(u, a, p, r)
         IN  \E v \in Nat : q = [c EXCEPT !.unclaimed = v] /\ v + n = c.unclaimed
  BY DEF Credited
<1>5. claim[u][a] = o
  OBVIOUS
<1> HIDE DEF s, r, o, q, p, p2
<1>6. /\ s.supply_index \in Nat /\ s.borrow_index \in Nat
      /\ r.supply_index \in Nat /\ r.borrow_index \in Nat /\ RATE_SCALE \in Nat
      /\ o.supply_snapshot \in Nat /\ o.borrow_snapshot \in Nat /\ o.unclaimed \in Nat
      /\ o.supply_snapshot <= s.supply_index /\ o.borrow_snapshot <= s.borrow_index
  BY <1>1, ScaleAssumption DEF PaceType, ClaimType, Behindhand
<1>7. Behindhand(o, r)
  BY <1>1, <1>6 DEF Behindhand
<1>8. Due(p, o, s) \in Int /\ Due(p, o, r) = Due(p, o, s) + gain /\ gain \in Int
  <2>1. /\ p.deposited * (r.supply_index - o.supply_snapshot)
             = p.deposited * (s.supply_index - o.supply_snapshot)
               + p.deposited * (r.supply_index - s.supply_index)
        /\ p.borrowed * (r.borrow_index - o.borrow_snapshot)
             = p.borrowed * (s.borrow_index - o.borrow_snapshot)
               + p.borrowed * (r.borrow_index - s.borrow_index)
    BY <1>2, <1>6, ProductSplits
  <2>2. /\ p.deposited * (s.supply_index - o.supply_snapshot) \in Int
        /\ p.deposited * (r.supply_index - s.supply_index) \in Int
        /\ p.borrowed * (s.borrow_index - o.borrow_snapshot) \in Int
        /\ p.borrowed * (r.borrow_index - s.borrow_index) \in Int
        /\ RATE_SCALE * o.unclaimed \in Int
    <3>1. /\ s.supply_index - o.supply_snapshot \in Int /\ r.supply_index - s.supply_index \in Int
          /\ s.borrow_index - o.borrow_snapshot \in Int /\ r.borrow_index - s.borrow_index \in Int
          /\ p.deposited \in Int /\ p.borrowed \in Int /\ RATE_SCALE \in Int /\ o.unclaimed \in Int
      BY <1>2, <1>6
    <3> QED BY <3>1, ProductInt
  <2> QED BY <2>1, <2>2 DEF Due
<1> HIDE DEF gain
<1>9. CASE /\ q = o /\ n = 0 /\ p2.deposited <= p.deposited /\ p2.borrowed <= p.borrowed
  <2>1. Due(p2, o, r) \in Int /\ Due(p2, o, r) <= Due(p, o, r)
    <3>1. r.supply_index - o.supply_snapshot \in Nat /\ r.borrow_index - o.borrow_snapshot \in Nat
      BY <1>6, <1>7 DEF Behindhand
    <3> DEFINE x == r.supply_index - o.supply_snapshot
               y == r.borrow_index - o.borrow_snapshot
    <3>2. /\ Due(p2, o, r) = RATE_SCALE * o.unclaimed + p2.deposited * x + p2.borrowed * y
          /\ Due(p, o, r) = RATE_SCALE * o.unclaimed + p.deposited * x + p.borrowed * y
      BY DEF Due
    <3>3. x \in Nat /\ y \in Nat
      BY <3>1
    <3> HIDE DEF x, y
    <3>4. /\ p2.deposited * x <= p.deposited * x /\ p2.borrowed * y <= p.borrowed * y
          /\ p2.deposited * x \in Nat /\ p.deposited * x \in Nat
          /\ p2.borrowed * y \in Nat /\ p.borrowed * y \in Nat /\ RATE_SCALE * o.unclaimed \in Nat
      BY <1>2, <1>6, <1>9, <3>3, NatProducts
    <3> QED BY <3>2, <3>4
  <2>2. RATE_SCALE * n = 0
    BY <1>6, <1>9
  <2> QED BY <1>1, <1>3, <1>7, <1>8, <1>9, <2>1, <2>2 DEF gain, q, r, s, p
<1>10. CASE LET c == Settled(u, a, p, r)
            IN  \E v \in Nat : q = [c EXCEPT !.unclaimed = v] /\ v + n = c.unclaimed
  <2> DEFINE c == Settled(u, a, p, r)
  <2>1. PICK v \in Nat : q = [c EXCEPT !.unclaimed = v] /\ v + n = c.unclaimed
    BY <1>10
  <2>2. /\ c \in ClaimType
        /\ c.supply_snapshot = r.supply_index /\ c.borrow_snapshot = r.borrow_index
        /\ RATE_SCALE * c.unclaimed <= Due(p, o, r)
    BY <1>1, <1>2, <1>5, <1>7, SettledFacts DEF o
  <2> HIDE DEF c
  <2>3. /\ q \in ClaimType /\ q.unclaimed = v
        /\ q.supply_snapshot = r.supply_index /\ q.borrow_snapshot = r.borrow_index
    BY <2>1, <2>2 DEF ClaimType
  <2>4. Due(p2, q, r) = RATE_SCALE * v
    <3>1. /\ r.supply_index - q.supply_snapshot = 0 /\ r.borrow_index - q.borrow_snapshot = 0
      BY <1>6, <2>3
    <3>2. p2.deposited * 0 = 0 /\ p2.borrowed * 0 = 0 /\ RATE_SCALE * v \in Int
      BY <1>2, <1>6, <2>1, ProductInt
    <3> QED BY <2>3, <3>1, <3>2 DEF Due
  <2>5. RATE_SCALE * (v + n) = RATE_SCALE * v + RATE_SCALE * n
    BY <1>6, ProductOverSum
  <2>6. RATE_SCALE * v \in Int /\ RATE_SCALE * n \in Int
    BY <1>6, ProductInt
  <2>7. Behindhand(q, r)
    BY <1>6, <2>3 DEF Behindhand
  <2> QED BY <1>3, <1>8, <2>1, <2>2, <2>3, <2>4, <2>5, <2>6, <2>7 DEF gain, q, r, s, p
<1> QED BY <1>4, <1>9, <1>10

\* What a step grants and leaves to be claimed is paid for by what it emits.
LEMMA EmissionShared ==
    ASSUME Flat, PlacedNow, EarnedInv, NEW e, \A a \in Asset : e[a] \in Nat, NEW w,
           \A u \in User, a \in Asset : w[u][a] \in Nat,
           pace' = [a \in Asset |-> pace'[a]], \A a \in Asset : Fed(a, e[a]),
           claim' = [u \in User |-> [a \in Asset |-> claim'[u][a]]],
           \A u \in User, a \in Asset : Credited(u, a, w[u][a]),
           position' \in [User -> [Asset -> PositionType]],
           granted' = [u \in User |-> granted'[u]],
           \A u \in User : granted'[u] = granted[u] + SumFunctionOnSet(w[u], Asset),
           emitted' = emitted + SumFunctionOnSet(e, Asset)
    PROVE  EarnedInv'
<1> DEFINE held == [a \in Asset |-> HeldIn(a)]
           owed == [a \in Asset |-> OwedIn(a)]
           ds == [a \in Asset |-> pace'[a].supply_index - pace[a].supply_index]
           db == [a \in Asset |-> pace'[a].borrow_index - pace[a].borrow_index]
           gains == [u \in User |-> [a \in Asset |->
                       held[a][u] * ds[a] + owed[a][u] * db[a]]]
           p == [u \in User |-> [a \in Asset |-> Pending(u, a)]]
           q == [u \in User |-> [a \in Asset |-> Pending(u, a)']]
           Whole(f) == SumFunctionOnSet(f, Asset)
           Sum(f) == SumFunctionOnSet(f, User)
<1>1. IsFiniteSet(User) /\ IsFiniteSet(Asset) /\ RATE_SCALE \in Nat /\ RATE_SCALE \in Int
  BY RewardsAssumption, ScaleAssumption
<1>2. ASSUME NEW u \in User, NEW a \in Asset
      PROVE  /\ held[a][u] = position[u][a].deposited /\ held[a][u] \in Nat
             /\ owed[a][u] = position[u][a].borrowed /\ owed[a][u] \in Nat
             /\ position'[u][a].deposited \in Nat /\ position'[u][a].borrowed \in Nat
  BY HeldPosition DEF PositionType, HeldIn, OwedIn
<1>3. ASSUME NEW a \in Asset
      PROVE  /\ pace'[a] \in PaceType
             /\ ds[a] = pace'[a].supply_index - pace[a].supply_index /\ ds[a] \in Nat
             /\ db[a] = pace'[a].borrow_index - pace[a].borrow_index /\ db[a] \in Nat
             /\ Sum(held[a]) * ds[a] + Sum(owed[a]) * db[a] <= RATE_SCALE * e[a]
  <2>1. /\ pace[a] \in PaceType /\ Fed(a, e[a])
    BY DEF EarnedInv
  <2>2. /\ pace'[a] \in PaceType /\ ds[a] \in Nat /\ db[a] \in Nat
    BY <2>1 DEF Fed, PaceType
  <2>3. /\ Sum(held[a]) = book[a].total_deposited /\ Sum(owed[a]) = book[a].total_borrowed
    BY TotalsShared
  <2> QED BY <2>1, <2>2, <2>3 DEF Fed
<1>4. ASSUME NEW u \in User, NEW a \in Asset
      PROVE  /\ gains[u][a] = held[a][u] * ds[a] + owed[a][u] * db[a]
             /\ p[u][a] = Pending(u, a) /\ q[u][a] = Pending(u, a)'
  OBVIOUS
<1>5. ASSUME NEW u \in User
      PROVE  /\ Owing[u] = RATE_SCALE * granted[u] + Whole(p[u])
             /\ Owing'[u] = RATE_SCALE * granted'[u] + Whole(q[u])
  BY DEF Owing
<1> HIDE DEF held, owed, ds, db, gains, p, q
<1>6. ASSUME NEW u \in User, NEW a \in Asset PROVE gains[u][a] \in Int
  <2>1. /\ held[a][u] \in Int /\ owed[a][u] \in Int /\ ds[a] \in Int /\ db[a] \in Int
    BY <1>2, <1>3
  <2>2. held[a][u] * ds[a] \in Int /\ owed[a][u] * db[a] \in Int
    BY <2>1, ProductInt
  <2> QED BY <1>4, <2>2
<1>7. ASSUME NEW u \in User, NEW a \in Asset
      PROVE  /\ claim'[u][a] \in ClaimType /\ Behindhand(claim'[u][a], pace'[a])
             /\ p[u][a] \in Int /\ q[u][a] \in Int /\ w[u][a] \in Int
             /\ q[u][a] + RATE_SCALE * w[u][a] <= p[u][a] + gains[u][a]
  <2>1. /\ e[a] \in Nat /\ w[u][a] \in Nat /\ Fed(a, e[a]) /\ Credited(u, a, w[u][a])
    OBVIOUS
  <2>2. /\ position[u][a].deposited \in Nat /\ position[u][a].borrowed \in Nat
    BY <1>2
  <2>3. /\ claim'[u][a] \in ClaimType /\ Behindhand(claim'[u][a], pace'[a])
        /\ Pending(u, a) \in Int /\ Pending(u, a)' \in Int
        /\ Pending(u, a)' + RATE_SCALE * w[u][a]
              <= Pending(u, a)
                 + (position[u][a].deposited * (pace'[a].supply_index - pace[a].supply_index)
                    + position[u][a].borrowed * (pace'[a].borrow_index - pace[a].borrow_index))
    BY <1>2, <2>1, <2>2, CreditedFacts
  <2> QED BY <1>2, <1>3, <1>4, <2>1, <2>3
<1>8. ASSUME NEW u \in User PROVE granted[u] \in Int /\ granted'[u] \in Nat
  <2>1. \A a \in Asset : w[u][a] \in Nat
    OBVIOUS
  <2>2. Whole(w[u]) \in Nat /\ granted[u] \in Nat
    BY <1>1, <2>1, SumNatural DEF EarnedInv
  <2> QED BY <2>2
<1>9. ASSUME NEW u \in User
      PROVE  /\ Owing[u] \in Int /\ Owing'[u] \in Int
             /\ Owing'[u] <= Owing[u] + Whole(gains[u])
  <2>1. granted[u] \in Int /\ granted'[u] \in Int /\ granted'[u] = granted[u] + Whole(w[u])
    BY <1>8
  <2>2. \A a \in Asset :
           /\ p[u][a] \in Int /\ q[u][a] \in Int /\ w[u][a] \in Int /\ gains[u][a] \in Int
           /\ q[u][a] + RATE_SCALE * w[u][a] <= p[u][a] + gains[u][a]
    BY <1>6, <1>7
  <2>3. TakesOut(Asset, RATE_SCALE, p[u], q[u], w[u], gains[u])
    BY <2>2 DEF TakesOut
  <2>4. /\ Whole(p[u]) \in Int /\ Whole(q[u]) \in Int /\ Whole(w[u]) \in Int
        /\ Whole(gains[u]) \in Int
        /\ Whole(q[u]) + RATE_SCALE * Whole(w[u]) <= Whole(p[u]) + Whole(gains[u])
    BY <1>1, <2>3, PartsTakenOut
  <2> HIDE DEF Whole
  <2>5. PICK m, n, t : m = granted[u] /\ n = granted'[u] /\ t = Whole(w[u])
    OBVIOUS
  <2>6. m \in Int /\ t \in Int /\ n = m + t
    BY <2>1, <2>4, <2>5
  <2>7. /\ RATE_SCALE * n = RATE_SCALE * m + RATE_SCALE * t
        /\ RATE_SCALE * m \in Int /\ RATE_SCALE * t \in Int
    BY <1>1, <2>6, ProductOverSum, ProductInt
  <2>8. /\ Owing[u] = RATE_SCALE * m + Whole(p[u])
        /\ Owing'[u] = RATE_SCALE * n + Whole(q[u])
        /\ Whole(q[u]) + RATE_SCALE * t <= Whole(p[u]) + Whole(gains[u])
    BY <1>5, <2>4, <2>5
  <2> QED BY <2>4, <2>7, <2>8
<1>10. Sum(Owing') <= Sum(Owing) + RATE_SCALE * Whole(e)
  <2>1. \A a \in Asset :
           /\ ds[a] \in Int /\ db[a] \in Int /\ e[a] \in Int
           /\ Sum(held[a]) * ds[a] + Sum(owed[a]) * db[a] <= RATE_SCALE * e[a]
    BY <1>3
  <2>2. \A u \in User, a \in Asset :
           /\ held[a][u] \in Int /\ owed[a][u] \in Int
           /\ gains[u][a] = held[a][u] * ds[a] + owed[a][u] * db[a]
    BY <1>2, <1>4
  <2>3. PICK before, after : before = Owing /\ after = Owing'
    OBVIOUS
  <2>4. \A u \in User : /\ before[u] \in Int /\ after[u] \in Int
                        /\ after[u] <= before[u] + Whole(gains[u])
    BY <1>9, <2>3
  <2>5. Sum(after) <= Sum(before) + RATE_SCALE * Whole(e)
    BY <1>1, <2>1, <2>2, <2>4, SharesOfTotals
  <2> QED BY <2>3, <2>5
<1>11. /\ emitted' \in Nat /\ Whole(e) \in Nat /\ emitted \in Nat
       /\ RATE_SCALE * emitted' = RATE_SCALE * emitted + RATE_SCALE * Whole(e)
       /\ RATE_SCALE * emitted \in Int /\ RATE_SCALE * Whole(e) \in Int
  <2>1. Whole(e) \in Nat /\ emitted \in Nat
    BY <1>1, SumNatural DEF EarnedInv
  <2>2. emitted' = emitted + Whole(e)
    OBVIOUS
  <2>3. PICK k, m : k = emitted /\ m = Whole(e)
    OBVIOUS
  <2>4. /\ RATE_SCALE * (k + m) = RATE_SCALE * k + RATE_SCALE * m
        /\ RATE_SCALE * k \in Int /\ RATE_SCALE * m \in Int /\ k + m \in Nat
    <3>1. k \in Int /\ m \in Int /\ k + m \in Nat
      BY <2>1, <2>3
    <3> QED BY <1>1, <3>1, ProductOverSum, ProductInt
  <2> QED BY <2>1, <2>2, <2>3, <2>4
<1>12. Sum(Owing') <= RATE_SCALE * emitted'
  <2>1. PICK before, after : before = Owing /\ after = Owing'
    OBVIOUS
  <2>2. \A u \in User : before[u] \in Int /\ after[u] \in Int
    BY <1>9, <2>1
  <2>3. Sum(before) \in Int /\ Sum(after) \in Int
    BY <1>1, <2>2, SumTyped
  <2>4. Sum(Owing) <= RATE_SCALE * emitted
    BY DEF EarnedInv
  <2> QED BY <1>10, <1>11, <2>1, <2>3, <2>4
<1>13. claim' \in [User -> [Asset -> ClaimType]]
  BY <1>7
<1>14. granted' \in [User -> Nat] /\ pace' \in [Asset -> PaceType]
  BY <1>3, <1>8
<1> QED BY <1>7, <1>11, <1>12, <1>13, <1>14 DEF EarnedInv

-----------------------------------------------------------------------------
(* What the steps emit and grant.                                         *)

Zeros == [u \in User |-> [a \in Asset |-> 0]]

LEMMA NoneGranted ==
    ASSUME EarnedInv, UNCHANGED granted
    PROVE  /\ \A u \in User, a \in Asset : Zeros[u][a] = 0 /\ Zeros[u][a] \in Nat
           /\ granted' = [u \in User |-> granted'[u]]
           /\ \A u \in User : granted'[u] = granted[u] + SumFunctionOnSet(Zeros[u], Asset)
<1>1. \A u \in User, a \in Asset : Zeros[u][a] = 0 /\ Zeros[u][a] \in Nat
  BY DEF Zeros
<1>2. ASSUME NEW u \in User PROVE granted'[u] = granted[u] + SumFunctionOnSet(Zeros[u], Asset)
  <2>1. granted[u] \in Nat /\ granted'[u] = granted[u]
    BY DEF EarnedInv
  <2>2. SumFunctionOnSet(Zeros[u], Asset) = 0
    BY <1>1, SumOfZeros, RewardsAssumption
  <2> QED BY <2>1, <2>2
<1>3. granted' = [u \in User |-> granted'[u]]
  BY DEF EarnedInv
<1> QED BY <1>1, <1>2, <1>3

\* An index that stays feeds nobody.
LEMMA StaysFed ==
    ASSUME Flat, PlacedNow, NEW a \in Asset, pace'[a] \in PaceType,
           pace'[a].supply_index = pace[a].supply_index,
           pace'[a].borrow_index = pace[a].borrow_index
    PROVE  Fed(a, 0)
<1>1. /\ pace'[a].supply_index \in Nat /\ pace'[a].borrow_index \in Nat
      /\ book[a].total_deposited \in Nat /\ book[a].total_borrowed \in Nat
      /\ RATE_SCALE \in Nat
  BY TotalsShared, ScaleAssumption DEF PaceType
<1>2. /\ pace'[a].supply_index - pace[a].supply_index = 0
      /\ pace'[a].borrow_index - pace[a].borrow_index = 0
  BY <1>1
<1>3. \A n \in Nat : n * 0 = 0
  OBVIOUS
<1>4. /\ book[a].total_deposited * 0 = 0 /\ book[a].total_borrowed * 0 = 0
      /\ RATE_SCALE * 0 = 0
  BY <1>1, <1>3
<1> QED BY <1>1, <1>2, <1>4 DEF Fed

\* Steps that leave rewards alone and let no position grow.
LEMMA RewardsLeft ==
    ASSUME Flat, PlacedNow, EarnedInv, UNCHANGED <<pace, claim, granted, emitted>>,
           position' \in [User -> [Asset -> PositionType]],
           \A u \in User, a \in Asset :
              /\ position'[u][a].deposited <= position[u][a].deposited
              /\ position'[u][a].borrowed <= position[u][a].borrowed
    PROVE  EarnedInv'
<1> DEFINE e == [a \in Asset |-> 0]
<1>1. /\ \A a \in Asset : e[a] = 0 /\ e[a] \in Nat /\ pace'[a] \in PaceType
      /\ emitted \in Nat /\ emitted' = emitted
  BY DEF EarnedInv
<1> HIDE DEF e
<1>2. emitted' = emitted + SumFunctionOnSet(e, Asset)
  <2>1. SumFunctionOnSet(e, Asset) = 0
    BY <1>1, SumOfZeros, RewardsAssumption
  <2> QED BY <1>1, <2>1
<1>3. ASSUME NEW a \in Asset PROVE Fed(a, e[a])
  BY <1>1, StaysFed
<1>4. ASSUME NEW u \in User, NEW a \in Asset PROVE Credited(u, a, Zeros[u][a])
  BY NoneGranted DEF Credited
<1>5. /\ pace' = [a \in Asset |-> pace'[a]]
      /\ claim' = [u \in User |-> [a \in Asset |-> claim'[u][a]]]
  BY DEF EarnedInv
<1> QED BY <1>1, <1>2, <1>3, <1>4, <1>5, NoneGranted, EmissionShared

\* advance_reward_indexes on the totals of the asset.
LEMMA AdvancedFeeds ==
    ASSUME Flat, PlacedNow, EarnedInv, NEW a \in Asset, NEW b,
           b.total_deposited = book[a].total_deposited,
           b.total_borrowed = book[a].total_borrowed,
           pace'[a] \in PaceType,
           pace'[a].supply_index = Advanced(a, b).supply_index,
           pace'[a].borrow_index = Advanced(a, b).borrow_index
    PROVE  Fed(a, Emission(a, b)) /\ Emission(a, b) \in Nat
<1>1. b.total_deposited \in Nat /\ b.total_borrowed \in Nat
  BY TotalsShared
<1>2. pace[a] \in PaceType /\ now \in Nat
  BY DEF EarnedInv, Flat, IInv, TypeOK
<1>3. LET s == pace[a]
          r == Advanced(a, b)
      IN  /\ r \in PaceType /\ Emission(a, b) \in Nat
          /\ r.supply_index >= s.supply_index /\ r.borrow_index >= s.borrow_index
          /\ b.total_deposited * (r.supply_index - s.supply_index)
               + b.total_borrowed * (r.borrow_index - s.borrow_index)
             <= RATE_SCALE * Emission(a, b)
  BY <1>1, <1>2, AdvancedFacts
<1> QED BY <1>3 DEF Fed

\* The positions outside `touched` stay.
Elsewhere(touched) ==
    \A u \in User, a \in Asset : <<u, a>> \notin touched => position'[u][a] = position[u][a]

Emissions(assets) ==
    [a \in Asset |-> IF a \in assets THEN Emission(a, Accrued(a)) ELSE 0]

LEMMA AdvanceFeeds ==
    ASSUME Flat, PlacedNow, EarnedInv, NEW assets \in SUBSET Asset, Advance(assets)
    PROVE  /\ pace' = [a \in Asset |-> pace'[a]]
           /\ \A a \in Asset : /\ Emissions(assets)[a] \in Nat
                               /\ Fed(a, Emissions(assets)[a])
           /\ \A a \in assets : /\ pace'[a] = Advanced(a, Accrued(a))
                                /\ pace'[a] \in PaceType
           /\ emitted' = emitted + SumFunctionOnSet(Emissions(assets), Asset)
<1>1. /\ pace' = [a \in Asset |-> IF a \in assets THEN Advanced(a, Accrued(a)) ELSE pace[a]]
      /\ emitted' = emitted + SumFunctionOnSet([a \in Asset |-> Emission(a, Accrued(a))], assets)
  BY DEF Advance
<1>2. ASSUME NEW a \in Asset
      PROVE  /\ Accrued(a).total_deposited = book[a].total_deposited
             /\ Accrued(a).total_borrowed = book[a].total_borrowed
             /\ Advanced(a, Accrued(a)) \in PaceType
             /\ Emission(a, Accrued(a)) \in Nat
  <2>1. /\ Accrued(a).total_deposited = book[a].total_deposited
        /\ Accrued(a).total_borrowed = book[a].total_borrowed
        /\ book[a].total_deposited \in Nat /\ book[a].total_borrowed \in Nat
    BY TotalsShared
  <2>2. pace[a] \in PaceType /\ now \in Nat
    BY DEF EarnedInv, Flat, IInv, TypeOK
  <2> QED BY <2>1, <2>2, AdvancedFacts
<1>3. ASSUME NEW a \in Asset
      PROVE  Emissions(assets)[a] \in Nat /\ Fed(a, Emissions(assets)[a])
  <2>1. CASE a \in assets
    <3>1. pace'[a] = Advanced(a, Accrued(a)) /\ Emissions(assets)[a] = Emission(a, Accrued(a))
      BY <1>1, <2>1 DEF Emissions
    <3> QED BY <1>2, <3>1, AdvancedFeeds
  <2>2. CASE a \notin assets
    <3>1. pace'[a] = pace[a] /\ pace[a] \in PaceType /\ Emissions(assets)[a] = 0
      BY <1>1, <2>2 DEF Emissions, EarnedInv
    <3> QED BY <3>1, StaysFed
  <2> QED BY <2>1, <2>2
<1>4. emitted' = emitted + SumFunctionOnSet(Emissions(assets), Asset)
  <2> DEFINE f == [a \in Asset |-> Emission(a, Accrued(a))]
             g == Emissions(assets)
  <2>1. /\ \A a \in assets : f[a] \in Int /\ g[a] = f[a] /\ g[a] \in Int
        /\ \A a \in Asset \ assets : g[a] = 0
    BY <1>2 DEF Emissions
  <2> HIDE DEF f, g
  <2>2. IsFiniteSet(assets) /\ IsFiniteSet(Asset)
    BY FS_Subset, RewardsAssumption
  <2>3. SumFunctionOnSet(g, assets) = SumFunctionOnSet(f, assets)
    BY <2>1, <2>2, SumSame
  <2>4. SumFunctionOnSet(g, Asset) = SumFunctionOnSet(g, assets)
    BY <2>1, <2>2, SumSkips
  <2> QED BY <1>1, <2>3, <2>4 DEF f, g
<1>5. \A a \in assets : pace'[a] = Advanced(a, Accrued(a)) /\ pace'[a] \in PaceType
  BY <1>1, <1>2
<1>6. pace' = [a \in Asset |-> pace'[a]]
  BY <1>1
<1> QED BY <1>3, <1>4, <1>5, <1>6

\* accrue_user_rewards before the positions of `touched` change.
LEMMA AccruedFor ==
    ASSUME Flat, PlacedNow, EarnedInv, NEW touched \in SUBSET (User \X Asset),
           AccrueUserRewards(touched), Elsewhere(touched),
           position' \in [User -> [Asset -> PositionType]]
    PROVE  EarnedInv'
<1> DEFINE assets == {t[2] : t \in touched}
<1>1. assets \in SUBSET Asset /\ Advance(assets) /\ UNCHANGED granted
  BY DEF AccrueUserRewards
<1>2. claim' = [u \in User |-> [a \in Asset |->
         IF <<u, a>> \in touched
           THEN Settled(u, a, CurrentPosition(u, a), Advanced(a, Accrued(a)))
           ELSE claim[u][a]]]
  BY DEF AccrueUserRewards
<1>3. ASSUME NEW u \in User, NEW a \in Asset PROVE Credited(u, a, Zeros[u][a])
  <2>0. Zeros[u][a] = 0
    BY DEF Zeros
  <2>1. CASE <<u, a>> \in touched
    <3>1. a \in assets
      BY <2>1
    <3> HIDE DEF assets
    <3>2. pace'[a] = Advanced(a, Accrued(a)) /\ pace'[a] \in PaceType
      BY <1>1, <3>1, AdvanceFeeds
    <3>3. claim'[u][a] = Settled(u, a, position[u][a], pace'[a])
      BY <1>2, <2>1, <3>2, HeldPosition
    <3>4. /\ claim[u][a] \in ClaimType /\ Behindhand(claim[u][a], pace'[a])
      <4>1. /\ claim[u][a] \in ClaimType /\ Behindhand(claim[u][a], pace[a]) /\ pace[a] \in PaceType
        BY DEF EarnedInv
      <4>2. pace'[a].supply_index >= pace[a].supply_index /\ pace'[a].borrow_index >= pace[a].borrow_index
        BY <1>1, AdvanceFeeds DEF Fed
      <4> QED BY <3>2, <4>1, <4>2 DEF Behindhand, ClaimType, PaceType
    <3>5. claim'[u][a] \in ClaimType
      BY <3>2, <3>3, <3>4, HeldPosition, SettledFacts
    <3> DEFINE c == claim'[u][a]
    <3>6. c.unclaimed \in Nat /\ c = [c EXCEPT !.unclaimed = c.unclaimed] /\ c.unclaimed + 0 = c.unclaimed
      <4>1. c \in ClaimType
        BY <3>5
      <4> HIDE DEF c
      <4> QED BY <4>1 DEF ClaimType
    <3> QED BY <2>0, <3>3, <3>6 DEF Credited
  <2>2. CASE <<u, a>> \notin touched
    <3>1. claim'[u][a] = claim[u][a] /\ position'[u][a] = position[u][a]
      BY <1>2, <2>2 DEF Elsewhere
    <3>2. position[u][a].deposited \in Nat /\ position[u][a].borrowed \in Nat
      BY HeldPosition
    <3>3. /\ position'[u][a].deposited <= position[u][a].deposited
          /\ position'[u][a].borrowed <= position[u][a].borrowed
      BY <3>1, <3>2
    <3>4. Credited(u, a, 0)
      BY <3>1, <3>3, StaysCredited
    <3> QED BY <2>0, <3>4
  <2> QED BY <2>1, <2>2
<1>4. claim' = [u \in User |-> [a \in Asset |-> claim'[u][a]]]
  BY <1>2
<1> HIDE DEF assets
<1>5. /\ pace' = [a \in Asset |-> pace'[a]]
      /\ \A a \in Asset : /\ Emissions(assets)[a] \in Nat
                          /\ Fed(a, Emissions(assets)[a])
      /\ emitted' = emitted + SumFunctionOnSet(Emissions(assets), Asset)
  BY <1>1, AdvanceFeeds
<1>6. PICK e : e = Emissions(assets)
  OBVIOUS
<1>7. PICK w : w = Zeros
  OBVIOUS
<1>8. /\ \A a \in Asset : e[a] \in Nat
      /\ \A a \in Asset : Fed(a, e[a])
      /\ emitted' = emitted + SumFunctionOnSet(e, Asset)
  BY <1>5, <1>6
<1>9. /\ \A u \in User, a \in Asset : w[u][a] \in Nat
      /\ \A u \in User, a \in Asset : Credited(u, a, w[u][a])
      /\ granted' = [u \in User |-> granted'[u]]
      /\ \A u \in User : granted'[u] = granted[u] + SumFunctionOnSet(w[u], Asset)
  BY <1>1, <1>3, <1>7, NoneGranted
<1> QED BY <1>4, <1>5, <1>8, <1>9, EmissionShared

\* A call touches the positions it settles, and no others.
LEMMA CallsStayHome ==
    ASSUME Flat, RewardedUserStep \/ RewardedLiquidation
    PROVE  /\ UserStep \/ BatchStep \/ LiquidationStep
           /\ \E touched \in SUBSET (User \X Asset) :
                 AccrueUserRewards(touched) /\ Elsewhere(touched)
<1>0. position \in [User -> [Asset -> PositionType]]
  BY DEF Flat, IInv, TypeOK
<1>1. ASSUME NEW u \in User, NEW a \in Asset, NEW n \in Amounts,
             \/ Deposit(u, a, n)
             \/ Repay(u, a, n)
             \/ \E c \in Asset : Borrow(u, a, c, n) \/ Withdraw(u, a, c, n)
      PROVE  UserStep /\ Elsewhere({<<u, a>>})
  <2>1. UserStep
    BY <1>1 DEF UserStep
  <2>2. PICK p : position' = [position EXCEPT ![u][a] = p]
    BY <1>1 DEF Deposit, Repay, Borrow, Withdraw, SetPosition
  <2> QED BY <1>0, <2>1, <2>2 DEF Elsewhere
<1>2. ASSUME NEW u \in User, NEW ops \in Batches,
             \/ DepositBatch(u, ops) \/ RepayBatch(u, ops)
             \/ \E c \in Asset : WithdrawBatch(u, c, ops) \/ BorrowBatch(u, c, ops)
      PROVE  /\ BatchStep /\ Elsewhere({u} \X Touched(ops))
             /\ {u} \X Touched(ops) \in SUBSET (User \X Asset)
  <2>1. BatchStep
    BY <1>2 DEF BatchStep
  <2>2. PICK next : SetPositions(u, ops, next)
    BY <1>2 DEF DepositBatch, RepayBatch, WithdrawBatch, BorrowBatch
  <2>3. \A v \in User, a \in Asset :
           <<v, a>> \notin {u} \X Touched(ops) => v # u \/ a \notin Touched(ops)
    OBVIOUS
  <2>4. Elsewhere({u} \X Touched(ops))
    BY <1>0, <2>2, <2>3 DEF Elsewhere, SetPositions
  <2>5. ops \in Seq(BatchOperation) /\ ValidOperations(ops)
    BY <1>2, BatchOf DEF DepositBatch, RepayBatch, WithdrawBatch, BorrowBatch
  <2>6. Touched(ops) \in SUBSET Asset
    BY <2>5, BatchFacts
  <2> QED BY <2>1, <2>4, <2>6
<1>3. ASSUME NEW l \in User, NEW u \in User, NEW pair \in LiquidationPairs,
             NEW n \in Amounts, Liquidate(l, u, pair[1], pair[2], n)
      PROVE  /\ LiquidationStep
             /\ Elsewhere({<<u, pair[2]>>, <<u, pair[1]>>, <<l, pair[1]>>})
             /\ {<<u, pair[2]>>, <<u, pair[1]>>, <<l, pair[1]>>} \in SUBSET (User \X Asset)
  <2>1. LiquidationStep
    BY <1>3 DEF LiquidationStep
  <2>2. pair[1] \in Asset /\ pair[2] \in Asset
    BY PoolAssumption
  <2>3. PICK p, q, r : position' = [[[position EXCEPT ![u][pair[2]] = p]
                                        EXCEPT ![u][pair[1]] = q] EXCEPT ![l][pair[1]] = r]
    BY <1>3 DEF Liquidate, LiquidatedPositions
  <2>4. Elsewhere({<<u, pair[2]>>, <<u, pair[1]>>, <<l, pair[1]>>})
    <3> SUFFICES ASSUME NEW v \in User, NEW a \in Asset,
                        <<v, a>> \notin {<<u, pair[2]>>, <<u, pair[1]>>, <<l, pair[1]>>}
                 PROVE  position'[v][a] = position[v][a]
      BY DEF Elsewhere
    <3> DEFINE x == [position EXCEPT ![u][pair[2]] = p]
               y == [x EXCEPT ![u][pair[1]] = q]
    <3>1. /\ ~(v = u /\ a = pair[2]) /\ ~(v = u /\ a = pair[1]) /\ ~(v = l /\ a = pair[1])
      OBVIOUS
    <3>2. x[v][a] = position[v][a]
      BY <1>0, <3>1
    <3>3. \A k \in User : DOMAIN x[k] = Asset /\ DOMAIN x = User
      BY <1>0
    <3>4. y[v][a] = x[v][a]
      <4> HIDE DEF x
      <4> QED BY <3>1, <3>3
    <3>5. \A k \in User : DOMAIN y[k] = Asset /\ DOMAIN y = User
      <4> HIDE DEF x
      <4> QED BY <3>3
    <3>6. position' = [y EXCEPT ![l][pair[1]] = r]
      BY <2>3
    <3> HIDE DEF x, y
    <3> QED BY <3>1, <3>2, <3>4, <3>5, <3>6
  <2> QED BY <2>1, <2>2, <2>4
<1>4. CASE RewardedUserStep
  <2>1. PICK u \in User :
          \/ \E a \in Asset, n \in Amounts :
                /\ \/ Deposit(u, a, n)
                   \/ Repay(u, a, n)
                   \/ \E c \in Asset : Borrow(u, a, c, n) \/ Withdraw(u, a, c, n)
                /\ AccrueUserRewards({<<u, a>>})
          \/ \E ops \in Batches :
                /\ \/ DepositBatch(u, ops)
                   \/ RepayBatch(u, ops)
                   \/ \E c \in Asset : WithdrawBatch(u, c, ops) \/ BorrowBatch(u, c, ops)
                /\ AccrueUserRewards({u} \X Touched(ops))
    BY <1>4 DEF RewardedUserStep
  <2>2. ASSUME NEW a \in Asset, NEW n \in Amounts,
               \/ Deposit(u, a, n)
               \/ Repay(u, a, n)
               \/ \E c \in Asset : Borrow(u, a, c, n) \/ Withdraw(u, a, c, n),
               AccrueUserRewards({<<u, a>>})
        PROVE  /\ UserStep \/ BatchStep \/ LiquidationStep
               /\ \E touched \in SUBSET (User \X Asset) :
                     AccrueUserRewards(touched) /\ Elsewhere(touched)
    <3>1. {<<u, a>>} \in SUBSET (User \X Asset)
      OBVIOUS
    <3> QED BY <1>1, <2>2, <3>1
  <2>3. ASSUME NEW ops \in Batches,
               \/ DepositBatch(u, ops)
               \/ RepayBatch(u, ops)
               \/ \E c \in Asset : WithdrawBatch(u, c, ops) \/ BorrowBatch(u, c, ops),
               AccrueUserRewards({u} \X Touched(ops))
        PROVE  /\ UserStep \/ BatchStep \/ LiquidationStep
               /\ \E touched \in SUBSET (User \X Asset) :
                     AccrueUserRewards(touched) /\ Elsewhere(touched)
    BY <1>2, <2>3
  <2> QED BY <2>1, <2>2, <2>3
<1>5. CASE RewardedLiquidation
  BY <1>3, <1>5 DEF RewardedLiquidation
<1> QED BY <1>4, <1>5

\* A claim settles books, as an accrual does, and moves no position.
LEMMA ClaimSound ==
    ASSUME IInv, NEW u \in User, NEW assets \in SUBSET Asset, ClaimInto(u, assets)
    PROVE  Sound /\ UNCHANGED <<position, supported, risk>>
<1> DEFINE l == [a \in Asset |-> 0]
<1>1. /\ SetBooks(assets, [a \in Asset |-> Accrued(a)])
      /\ UNCHANGED <<now, paused, supported, oracleVars, adminVars, position, lost>>
  BY DEF ClaimInto
<1>2. /\ book \in [Asset -> BookType] /\ lost \in [Asset -> Nat]
  BY DEF IInv, TypeOK
<1>3. /\ \A a \in assets : book'[a] = Accrued(a)
      /\ \A a \in Asset \ assets : book'[a] = book[a]
      /\ BookAccruals(assets) /\ position' = position /\ lost' = lost
      /\ UNCHANGED Settings /\ now' = now /\ supported' = supported /\ risk' = risk
  BY <1>1 DEF SetBooks, oracleVars, adminVars, Settings
<1>4. \A a \in assets : Carries(Accrued(a), a)
  BY AccruedFacts DEF Carries
<1>5. \A a \in assets : Sheet(Accrued(a)) = Sheet(Accrued(a)) - 0
  <2> SUFFICES ASSUME NEW a \in assets PROVE Sheet(Accrued(a)) \in Int
    OBVIOUS
  <2> QED BY <1>4, AccruedFacts, PostedBook
<1>6. book' \in [Asset -> BookType]
  <2>1. book' = [a \in Asset |-> book'[a]]
    BY <1>1 DEF SetBooks
  <2> QED BY <1>2, <1>3, <1>4, <2>1 DEF Carries
<1>7. MarketInv' /\ Forward
  BY <1>3, <1>4, <1>6, BooksOnlyStep
<1>8. /\ l \in [Asset -> Nat] /\ \A a \in Asset : l[a] = 0 /\ lost'[a] = lost[a] + l[a]
      /\ lost' \in [Asset -> Nat]
  BY <1>2, <1>3
<1> HIDE DEF l
<1>9. Balanced
  BY <1>3, <1>4, <1>5, <1>8, BalancedStep
<1>10. booked' \in [Asset -> Int]
  BY <1>3, BookedTyped
<1> QED BY <1>3, <1>7, <1>8, <1>9, <1>10, SoundStep

\* A claim settles books and turns what one user earned into a grant.
LEMMA ClaimEarned ==
    ASSUME Flat, PlacedNow, EarnedInv, NEW u \in User, NEW assets \in SUBSET Asset,
           ClaimInto(u, assets)
    PROVE  /\ Flat' /\ PlacedNow' /\ EarnedInv'
           /\ \E n \in Nat :
                 /\ granted' = [granted EXCEPT ![u] = granted[u] + n]
                 /\ grants' = [grants EXCEPT ![u] = Append(grants[u],
                       [amount |-> n, claimed |-> 0, start |-> now,
                        cliff |-> schedule.cliff, duration |-> schedule.duration])]
<1> DEFINE r == [a \in Asset |-> Settled(u, a, CurrentPosition(u, a), Advanced(a, Accrued(a)))]
           amounts == [a \in Asset |-> r[a].unclaimed]
           amount == SumFunctionOnSet(amounts, assets)
           w == [v \in User |-> [a \in Asset |->
                   IF v = u /\ a \in assets THEN amounts[a] ELSE 0]]
<1>1. /\ SetBooks(assets, [a \in Asset |-> Accrued(a)])
      /\ Advance(assets)
      /\ claim' = [claim EXCEPT ![u] = [a \in Asset |->
             IF a \in assets THEN [r[a] EXCEPT !.unclaimed = 0] ELSE claim[u][a]]]
      /\ granted' = [granted EXCEPT ![u] = granted[u] + amount]
      /\ grants' = [grants EXCEPT ![u] = Append(grants[u],
             [amount |-> amount, claimed |-> 0, start |-> now,
              cliff |-> schedule.cliff, duration |-> schedule.duration])]
      /\ UNCHANGED <<now, paused, supported, oracleVars, adminVars, position, lost>>
  BY DEF ClaimInto
<1>2. /\ position \in [User -> [Asset -> PositionType]] /\ IInv
      /\ claim \in [User -> [Asset -> ClaimType]] /\ granted \in [User -> Nat]
  BY DEF Flat, IInv, TypeOK, EarnedInv
<1>3. /\ \A a \in assets : book'[a] = Accrued(a)
      /\ \A a \in Asset \ assets : book'[a] = book[a]
      /\ position' = position /\ lost' = lost
      /\ now' = now /\ supported' = supported /\ rates' = rates
  BY <1>1 DEF SetBooks, oracleVars, adminVars
<1>4. Flat'
  <2>1. Sound
    BY <1>2, ClaimSound
  <2>2. Unscaled'
    BY <1>3, BooksSettled DEF TotalsStay
  <2>3. RatesAreZero'
    BY <1>3 DEF Flat, RatesAreZero
  <2> QED BY <2>1, <2>2, <2>3 DEF Flat, Sound
<1>5. PlacedNow'
  <2>1. TotalsStay
    BY <1>3, BooksSettled
  <2> QED BY <1>3, <2>1 DEF PlacedNow, Placed, TotalsStay
<1>6. ASSUME NEW a \in assets
      PROVE  /\ r[a] = Settled(u, a, position[u][a], pace'[a]) /\ r[a] \in ClaimType
             /\ amounts[a] = r[a].unclaimed /\ amounts[a] \in Nat
  <2>1. /\ pace'[a] = Advanced(a, Accrued(a)) /\ pace'[a] \in PaceType
        /\ pace'[a].supply_index >= pace[a].supply_index
        /\ pace'[a].borrow_index >= pace[a].borrow_index
    BY <1>1, AdvanceFeeds DEF Fed
  <2>2. r[a] = Settled(u, a, position[u][a], pace'[a])
    BY <2>1, HeldPosition
  <2>3. claim[u][a] \in ClaimType /\ Behindhand(claim[u][a], pace[a]) /\ pace[a] \in PaceType
    BY DEF EarnedInv
  <2>4. Behindhand(claim[u][a], pace'[a])
    BY <2>1, <2>3 DEF Behindhand, ClaimType, PaceType
  <2>5. Settled(u, a, position[u][a], pace'[a]) \in ClaimType
    BY <2>1, <2>3, <2>4, HeldPosition, SettledFacts
  <2>6. amounts[a] = r[a].unclaimed
    OBVIOUS
  <2> QED BY <2>2, <2>5, <2>6 DEF ClaimType
<1> HIDE DEF r, amounts
<1>7. \A v \in User, a \in Asset :
         /\ w[v][a] = IF v = u /\ a \in assets THEN amounts[a] ELSE 0
         /\ w[v][a] \in Nat
  BY <1>6
<1> HIDE DEF w
<1>8. ASSUME NEW v \in User PROVE granted'[v] = granted[v] + SumFunctionOnSet(w[v], Asset)
  <2>1. IsFiniteSet(assets) /\ IsFiniteSet(Asset)
    BY FS_Subset, RewardsAssumption
  <2>2. granted[v] \in Nat
    BY <1>2
  <2>3. CASE v = u
    <3>1. /\ \A a \in assets : w[u][a] \in Int /\ amounts[a] \in Int /\ w[u][a] = amounts[a]
          /\ \A a \in Asset \ assets : w[u][a] = 0
      BY <1>6, <1>7
    <3>2. PICK f : f = w[u]
      OBVIOUS
    <3>3. /\ \A a \in assets : f[a] \in Int /\ amounts[a] \in Int /\ f[a] = amounts[a]
          /\ \A a \in Asset \ assets : f[a] = 0
      BY <3>1, <3>2
    <3>4. SumFunctionOnSet(f, Asset) = SumFunctionOnSet(f, assets)
      BY <2>1, <3>3, SumSkips
    <3>5. SumFunctionOnSet(f, assets) = SumFunctionOnSet(amounts, assets)
      BY <2>1, <3>3, SumSame
    <3> QED BY <1>1, <1>2, <2>3, <3>2, <3>4, <3>5
  <2>4. CASE v # u
    <3>1. \A a \in Asset : w[v][a] = 0
      BY <1>7, <2>4
    <3>2. SumFunctionOnSet(w[v], Asset) = 0
      BY <2>1, <3>1, SumOfZeros
    <3> QED BY <1>1, <1>2, <2>2, <2>4, <3>2
  <2> QED BY <2>3, <2>4
<1>9. ASSUME NEW v \in User, NEW a \in Asset PROVE Credited(v, a, w[v][a])
  <2>1. CASE v = u /\ a \in assets
    <3>1. claim'[v][a] = [r[a] EXCEPT !.unclaimed = 0]
      BY <1>1, <1>2, <2>1
    <3>2. w[v][a] = r[a].unclaimed /\ r[a].unclaimed \in Nat
      BY <1>6, <1>7, <2>1
    <3>3. 0 + w[v][a] = r[a].unclaimed
      BY <3>2
    <3>4. \E n \in Nat : claim'[v][a] = [r[a] EXCEPT !.unclaimed = n] /\ n + w[v][a] = r[a].unclaimed
      BY <3>1, <3>3
    <3> QED BY <1>6, <2>1, <3>4 DEF Credited
  <2>2. CASE ~(v = u /\ a \in assets)
    <3>1. claim'[v][a] = claim[v][a] /\ w[v][a] = 0 /\ position'[v][a] = position[v][a]
      BY <1>1, <1>2, <1>3, <1>7, <2>2
    <3>2. position[v][a].deposited \in Nat /\ position[v][a].borrowed \in Nat
      BY HeldPosition
    <3> QED BY <3>1, <3>2 DEF Credited
  <2> QED BY <2>1, <2>2
<1>10. /\ claim' = [v \in User |-> [a \in Asset |-> claim'[v][a]]]
       /\ granted' = [v \in User |-> granted'[v]]
       /\ position' \in [User -> [Asset -> PositionType]]
  BY <1>1, <1>2, <1>3
<1>11. EarnedInv'
  BY <1>1, <1>7, <1>8, <1>9, <1>10, AdvanceFeeds, EmissionShared
<1>12. amount \in Nat
  <2>1. IsFiniteSet(assets)
    BY FS_Subset, RewardsAssumption
  <2> QED BY <1>6, <2>1, SumNatural
<1> HIDE DEF amount
<1> QED BY <1>1, <1>4, <1>5, <1>11, <1>12

\* The time until a change of speeds is paid at the old ones.
LEMMA SpeedsEarned ==
    ASSUME Flat, PlacedNow, EarnedInv, NEW a \in Asset, NEW speed \in Speeds,
           SetRewardSpeeds(a, speed)
    PROVE  EarnedInv'
<1> DEFINE n == Emission(a, book[a])
           e == [c \in Asset |-> IF c = a THEN n ELSE 0]
<1>1. /\ pace' = [pace EXCEPT ![a] = [Advanced(a, book[a]) EXCEPT
                     !.supply_speed = speed[1], !.borrow_speed = speed[2]]]
      /\ emitted' = emitted + n
      /\ UNCHANGED vars /\ UNCHANGED claim /\ UNCHANGED granted
      /\ speed[1] \in Nat /\ speed[2] \in Nat
  BY RewardsAssumption DEF SetRewardSpeeds
<1>2. /\ pace \in [Asset -> PaceType] /\ claim \in [User -> [Asset -> ClaimType]]
      /\ position \in [User -> [Asset -> PositionType]] /\ emitted \in Nat /\ now \in Nat
      /\ position' = position
  BY <1>1 DEF EarnedInv, Flat, IInv, TypeOK, vars
<1>3. /\ book[a].total_deposited \in Nat /\ book[a].total_borrowed \in Nat
  BY TotalsShared
<1>4. Advanced(a, book[a]) \in PaceType
  BY <1>2, <1>3, AdvancedFacts
<1>5. /\ pace'[a] \in PaceType
      /\ pace'[a].supply_index = Advanced(a, book[a]).supply_index
      /\ pace'[a].borrow_index = Advanced(a, book[a]).borrow_index
  BY <1>1, <1>2, <1>4 DEF PaceType
<1>6. n \in Nat /\ Fed(a, n)
  BY <1>5, AdvancedFeeds
<1> HIDE DEF n
<1>7. ASSUME NEW c \in Asset PROVE e[c] \in Nat /\ Fed(c, e[c])
  <2>1. CASE c = a
    BY <1>6, <2>1
  <2>2. CASE c # a
    <3>1. pace'[c] = pace[c] /\ pace[c] \in PaceType /\ e[c] = 0
      BY <1>1, <1>2, <2>2
    <3> QED BY <3>1, StaysFed
  <2> QED BY <2>1, <2>2
<1>8. emitted' = emitted + SumFunctionOnSet(e, Asset)
  <2>1. \A c \in {a} : e[c] \in Int
    BY <1>6
  <2>2. \A c \in Asset \ {a} : e[c] = 0
    OBVIOUS
  <2>3. e[a] = n
    OBVIOUS
  <2> HIDE DEF e
  <2>4. SumFunctionOnSet(e, Asset) = e[a] + SumFunctionOnSet(e, Asset \ {a})
    <3>1. \A c \in Asset : e[c] \in Int
      BY <2>1, <2>2
    <3> QED BY <3>1, SumTakesOut, RewardsAssumption
  <2>5. SumFunctionOnSet(e, Asset \ {a}) = 0
    <3>1. IsFiniteSet(Asset \ {a})
      BY FS_Subset, RewardsAssumption
    <3> QED BY <2>2, <3>1, SumOfZeros
  <2> QED BY <1>1, <1>6, <2>3, <2>4, <2>5
<1> HIDE DEF e
<1>9. ASSUME NEW u \in User, NEW c \in Asset PROVE Credited(u, c, Zeros[u][c])
  <2>1. position[u][c].deposited \in Nat /\ position[u][c].borrowed \in Nat
    BY HeldPosition
  <2> QED BY <1>1, <1>2, <2>1, NoneGranted DEF Credited
<1>10. /\ pace' = [c \in Asset |-> pace'[c]]
       /\ claim' = [u \in User |-> [c \in Asset |-> claim'[u][c]]]
  BY <1>1, <1>2
<1> QED BY <1>1, <1>2, <1>7, <1>8, <1>9, <1>10, NoneGranted, EmissionShared

-----------------------------------------------------------------------------
(* Grants.  What is left of them, and that dropping the paid ones leaves it. *)

GrantType == [amount : Nat, claimed : Nat, start : Nat, cliff : Nat, duration : Nat]

\* Grants made by time t, and not overpaid.
Grants(t) == {g \in GrantType : g.claimed <= g.amount /\ g.start <= t}

Remaining(g) == g.amount - g.claimed
Left(s) == SumFunction([i \in DOMAIN s |-> s[i].amount - s[i].claimed])

\* What is left of grants is a sum over their places.
LEMMA LeftIs ==
    ASSUME NEW t, NEW s \in Seq(Grants(t))
    PROVE  /\ DOMAIN s = 1 .. Len(s) /\ Len(s) \in Nat /\ IsFiniteSet(1 .. Len(s))
           /\ \A i \in 1 .. Len(s) : s[i] \in Grants(t) /\ Remaining(s[i]) \in Nat
           /\ Left(s) = SumFunctionOnSet([i \in 1 .. Len(s) |-> Remaining(s[i])], 1 .. Len(s))
           /\ Left(s) \in Nat
<1>1. DOMAIN s = 1 .. Len(s) /\ Len(s) \in Nat /\ \A i \in 1 .. Len(s) : s[i] \in Grants(t)
  OBVIOUS
<1>2. IsFiniteSet(1 .. Len(s))
  BY <1>1, FS_Interval
<1>3. \A i \in 1 .. Len(s) : Remaining(s[i]) \in Nat
  <2> SUFFICES ASSUME NEW g \in Grants(t) PROVE Remaining(g) \in Nat
    BY <1>1
  <2> QED BY DEF Grants, GrantType, Remaining
<1> DEFINE f == [i \in 1 .. Len(s) |-> Remaining(s[i])]
<1>4. Left(s) = SumFunctionOnSet(f, 1 .. Len(s))
  <2>1. [i \in DOMAIN s |-> s[i].amount - s[i].claimed] = f /\ DOMAIN f = 1 .. Len(s)
    BY <1>1 DEF Remaining
  <2> HIDE DEF f
  <2> QED BY <2>1 DEF Left, SumFunction
<1>5. \A i \in 1 .. Len(s) : f[i] \in Nat
  BY <1>3
<1> HIDE DEF f
<1>6. SumFunctionOnSet(f, 1 .. Len(s)) \in Nat
  BY <1>2, <1>5, SumNatural
<1> QED BY <1>1, <1>2, <1>3, <1>4, <1>6 DEF f

LEMMA NothingLeft == ASSUME NEW t PROVE <<>> \in Seq(Grants(t)) /\ Left(<<>>) = 0
<1>1. <<>> \in Seq(Grants(t)) /\ Len(<<>>) = 0 /\ 1 .. 0 = {}
  OBVIOUS
<1> DEFINE none == <<>>
<1>2. Left(none) = SumFunctionOnSet([i \in 1 .. Len(none) |-> Remaining(none[i])], 1 .. Len(none))
  BY <1>1, LeftIs
<1> QED BY <1>1, <1>2, SumOverEmpty

LEMMA LeftAppended ==
    ASSUME NEW t, NEW s \in Seq(Grants(t)), NEW g \in Grants(t)
    PROVE  Append(s, g) \in Seq(Grants(t)) /\ Left(Append(s, g)) = Left(s) + Remaining(g)
<1> DEFINE more == Append(s, g)
           n == Len(s)
           f == [i \in 1 .. n |-> Remaining(s[i])]
           h == [i \in 1 .. n + 1 |-> Remaining(more[i])]
<1>1. /\ n \in Nat /\ more \in Seq(Grants(t)) /\ Len(more) = n + 1
      /\ more[n + 1] = g /\ \A i \in 1 .. n : more[i] = s[i]
  OBVIOUS
<1> HIDE DEF more
<1>2. /\ Left(s) = SumFunctionOnSet(f, 1 .. n)
      /\ \A i \in 1 .. n : Remaining(s[i]) \in Nat
      /\ IsFiniteSet(1 .. n)
  BY LeftIs
<1>3. /\ Left(more) = SumFunctionOnSet(h, 1 .. n + 1)
      /\ \A i \in 1 .. n + 1 : Remaining(more[i]) \in Nat
  BY <1>1, LeftIs
<1>4. 1 .. n + 1 = (1 .. n) \cup {n + 1} /\ n + 1 \notin 1 .. n
  BY <1>1
<1>5. /\ \A i \in (1 .. n) \cup {n + 1} : h[i] \in Int
      /\ h[n + 1] = Remaining(g)
      /\ \A i \in 1 .. n : f[i] \in Int /\ h[i] = f[i]
  BY <1>1, <1>2, <1>3, <1>4
<1> HIDE DEF f, h
<1>6. SumFunctionOnSet(h, (1 .. n) \cup {n + 1}) = h[n + 1] + SumFunctionOnSet(h, 1 .. n)
  BY <1>2, <1>4, <1>5, SumInserts
<1>7. SumFunctionOnSet(h, 1 .. n) = SumFunctionOnSet(f, 1 .. n)
  BY <1>2, <1>5, SumSame
<1>8. SumFunctionOnSet(f, 1 .. n) \in Int /\ h[n + 1] \in Int
  BY <1>2, <1>5, SumTyped
<1>9. SumFunctionOnSet(h, 1 .. n + 1) = SumFunctionOnSet(h, (1 .. n) \cup {n + 1})
  BY <1>4
<1>10. Left(more) = Left(s) + Remaining(g)
  BY <1>2, <1>3, <1>5, <1>6, <1>7, <1>8, <1>9
<1> QED BY <1>1, <1>10 DEF more

LEMMA KeptFacts ==
    ASSUME NEW t, NEW s \in Seq(Grants(t)), NEW g \in Grants(t)
    PROVE  Kept(s, g) \in Seq(Grants(t)) /\ Left(Kept(s, g)) = Left(s) + Remaining(g)
<1>1. CASE g.claimed < g.amount
  BY <1>1, LeftAppended DEF Kept
<1>2. CASE ~(g.claimed < g.amount)
  <2>1. Remaining(g) = 0
    BY <1>2 DEF Grants, GrantType, Remaining
  <2>2. Left(s) \in Nat
    BY LeftIs
  <2> QED BY <1>2, <2>1, <2>2 DEF Kept
<1> QED BY <1>1, <1>2

LEMMA UnpaidFacts ==
    ASSUME NEW t, NEW s \in Seq(Grants(t))
    PROVE  Unpaid(s) \in Seq(Grants(t)) /\ Left(Unpaid(s)) = Left(s)
<1> DEFINE B == DOMAIN s
           V == Seq(Grants(t))
           F == [x \in V \X B |-> Kept(x[1], s[x[2]])]
           f == [i \in 1 .. Len(s) |-> Remaining(s[i])]
<1>0. /\ B = 1 .. Len(s) /\ IsFiniteSet(B) /\ B \subseteq Int
      /\ \A i \in B : s[i] \in Grants(t) /\ f[i] = Remaining(s[i]) /\ f[i] \in Int
      /\ Left(s) = SumFunctionOnSet(f, B)
      /\ <<>> \in V /\ Left(<<>>) = 0
  BY LeftIs, NothingLeft
<1>1. B \in FiniteSubsetsOf(Int) /\ IsFiniteSet(B)
  BY <1>0 DEF FiniteSubsetsOf
<1>2. F \in [V \X B -> V] /\ \A q \in V, i \in B : F[<<q, i>>] = Kept(q, s[i])
  <2>1. \A q \in V, i \in B : Kept(q, s[i]) \in V
    BY <1>0, KeptFacts
  <2> HIDE DEF V
  <2> QED BY <2>1
<1> HIDE DEF F, V, f
<1>3. PICK h \in [SUBSET B -> V] : FoldsUp(h, F, <<>>, B)
  BY <1>0, <1>1, <1>2, FoldExists
<1>4. \A r \in SUBSET B : r # {} => Top(r) \in r
  BY <1>1, SubsetFinite, TopIsGreatest
<1>5. \A r \in SUBSET B : h[r] = IF r = {} THEN <<>> ELSE Kept(h[r \ {Top(r)}], s[Top(r)])
  <2> SUFFICES ASSUME NEW r \in SUBSET B
               PROVE  h[r] = IF r = {} THEN <<>> ELSE Kept(h[r \ {Top(r)}], s[Top(r)])
    OBVIOUS
  <2>1. h[r] = IF r = {} THEN <<>> ELSE F[<<h[r \ {Top(r)}], Top(r)>>]
    BY <1>3 DEF FoldsUp
  <2>2. r # {} => h[r \ {Top(r)}] \in V /\ Top(r) \in B
    BY <1>3, <1>4
  <2> QED BY <1>2, <2>1, <2>2
<1> DEFINE Is(k) == k = [r \in SUBSET B |-> IF r = {} THEN <<>>
                            ELSE LET x == Top(r) IN Kept(k[r \ {x}], s[x])]
           g == CHOOSE k : Is(k)
<1>6. Is(g)
  <2>1. Is(h)
    BY <1>3, <1>5
  <2> HIDE DEF Is
  <2> QED BY <2>1
<1>7. Unpaid(s) = g[B]
  BY DEF Unpaid, FoldLeft, MapThenFoldSet, Max, Top
<1> HIDE DEF g
<1>8. \A r \in SUBSET B : g[r] = IF r = {} THEN <<>> ELSE Kept(g[r \ {Top(r)}], s[Top(r)])
  BY <1>6
<1> HIDE DEF Is, B
<1> DEFINE Good(r) == g[r] \in V /\ Left(g[r]) = SumFunctionOnSet(f, r)
           Bad == {r \in SUBSET B : ~Good(r)}
<1>9. Bad = {}
  <2> SUFFICES ASSUME Bad # {} PROVE FALSE
    OBVIOUS
  <2>1. PICK r \in Bad : \A q \in Bad : q \subseteq r => q = r
    <3>1. Bad \in SUBSET (SUBSET B)
      OBVIOUS
    <3> HIDE DEF Bad
    <3> QED BY <1>1, <3>1, SmallestSet
  <2>2. r \in SUBSET B /\ ~Good(r)
    BY <2>1
  <2>3. CASE r = {}
    BY <1>0, <1>8, <2>2, <2>3, SumOverEmpty
  <2>4. CASE r # {}
    <3> DEFINE p == Top(r)
               q == r \ {p}
    <3>1. p \in r /\ p \in B
      BY <1>4, <2>2, <2>4
    <3>2. g[r] = Kept(g[q], s[p])
      BY <1>8, <2>2, <2>4
    <3>3. q \in SUBSET B /\ q # r /\ q \subseteq r
      BY <2>2, <3>1
    <3>4. q \notin Bad
      BY <2>1, <3>3
    <3>5. Good(q)
      BY <3>3, <3>4
    <3> HIDE DEF p
    <3>6. IsFiniteSet(r)
      BY <1>0, <2>2, FS_Subset
    <3>7. SumFunctionOnSet(f, r) = f[p] + SumFunctionOnSet(f, q)
      <4>1. \A i \in r : f[i] \in Int
        BY <1>0, <2>2
      <4> QED BY <3>1, <3>6, <4>1, SumTakesOut
    <3> HIDE DEF q
    <3>8. /\ Kept(g[q], s[p]) \in V
          /\ Left(Kept(g[q], s[p])) = Left(g[q]) + Remaining(s[p])
          /\ Left(g[q]) \in Nat
      <4>1. g[q] \in Seq(Grants(t)) /\ s[p] \in Grants(t)
        BY <1>0, <3>1, <3>5 DEF V
      <4>2. PICK x, y : x = g[q] /\ y = s[p]
        OBVIOUS
      <4>3. x \in Seq(Grants(t)) /\ y \in Grants(t)
        BY <4>1, <4>2
      <4>4. Kept(x, y) \in Seq(Grants(t)) /\ Left(Kept(x, y)) = Left(x) + Remaining(y)
        BY <4>3, KeptFacts
      <4>5. Left(x) \in Nat
        BY <4>3, LeftIs
      <4> QED BY <4>2, <4>4, <4>5 DEF V
    <3> QED BY <1>0, <2>2, <3>1, <3>2, <3>5, <3>7, <3>8
  <2> QED BY <2>3, <2>4
<1>10. Good(B)
  BY <1>9
<1> QED BY <1>0, <1>7, <1>10 DEF V

\* A grant vests no more than its amount.
LEMMA VestedPart ==
    ASSUME now \in Nat, NEW g \in Grants(now)
    PROVE  Vested(g) \in 0 .. g.amount
<1> DEFINE m == g.amount
           x == now - g.start
           d == g.duration
<1>1. m \in Nat /\ x \in Nat /\ d \in Nat /\ g.cliff \in Nat
  BY DEF Grants, GrantType
<1>2. Vested(g) = IF d = 0 \/ (x >= g.cliff /\ x >= d) THEN m
                  ELSE IF x < g.cliff THEN 0 ELSE (m * x) \div d
  BY DEF Vested
<1> HIDE DEF m, x, d
<1>3. CASE d # 0 /\ x < d
  <2>1. m * x <= m * d /\ m * x \in Nat /\ m * d \in Nat
    <3>1. x * m <= d * m /\ m * x \in Nat /\ m * d \in Nat
      BY <1>1, <1>3, NatProducts
    <3>2. x * m = m * x /\ d * m = m * d
      BY <1>1, ProductTurns
    <3> QED BY <3>1, <3>2
  <2>2. d \in Nat \ {0}
    BY <1>1, <1>3
  <2> DEFINE n == m * x
             k == n \div d
  <2>3. k \in Nat /\ k * d <= n /\ n \in Nat /\ n <= m * d
    <3>1. n \in Nat /\ n <= m * d
      BY <2>1
    <3> HIDE DEF n
    <3>2. k \in Nat /\ k * d <= n
      BY <2>2, <3>1, QuotientFits
    <3> QED BY <3>1, <3>2
  <2>4. k <= m
    <3> HIDE DEF k, n
    <3>1. k * d <= m * d
      <4>1. k * d \in Int /\ m * d \in Int /\ n \in Int
        BY <1>1, <2>3, ProductInt
      <4> QED BY <2>3, <4>1
    <3> QED BY <1>1, <2>2, <2>3, <3>1, ProductCancels
  <2>5. Vested(g) = IF x < g.cliff THEN 0 ELSE k
    BY <1>1, <1>2, <1>3
  <2> HIDE DEF k, n
  <2> QED BY <1>1, <2>3, <2>4, <2>5 DEF m
<1>4. CASE ~(d # 0 /\ x < d)
  BY <1>1, <1>2, <1>4 DEF m
<1> QED BY <1>3, <1>4

\* What vesting pays is what it takes off the grants.
LEMMA VestingPays ==
    ASSUME now \in Nat, NEW u \in User, grants[u] \in Seq(Grants(now))
    PROVE  LET s == [i \in DOMAIN grants[u] |-> AfterVesting(grants[u][i])]
           IN  /\ s \in Seq(Grants(now))
               /\ Releasable(u) \in Int /\ Left(s) + Releasable(u) = Left(grants[u])
<1> DEFINE o == grants[u]
           s == [i \in DOMAIN o |-> AfterVesting(o[i])]
           n == Len(o)
           f == [i \in 1 .. n |-> Remaining(o[i])]
           h == [i \in 1 .. n |-> Remaining(s[i])]
           v == [i \in 1 .. n |-> Vested(o[i]) - o[i].claimed]
<1>1. /\ DOMAIN o = 1 .. n /\ n \in Nat /\ IsFiniteSet(1 .. n)
      /\ \A i \in 1 .. n : o[i] \in Grants(now) /\ Remaining(o[i]) \in Nat
      /\ Left(o) = SumFunctionOnSet(f, 1 .. n)
  BY LeftIs
<1>2. ASSUME NEW g \in Grants(now)
      PROVE  /\ AfterVesting(g) \in Grants(now) /\ Vested(g) - g.claimed \in Int
             /\ Remaining(g) = Remaining(AfterVesting(g)) + (Vested(g) - g.claimed)
  <2>1. Vested(g) \in 0 .. g.amount
    BY VestedPart
  <2>2. PICK x : x = Vested(g)
    OBVIOUS
  <2>3. AfterVesting(g) = [g EXCEPT !.claimed = x]
    BY <2>2 DEF AfterVesting
  <2>4. x \in 0 .. g.amount /\ g \in GrantType
    BY <2>1, <2>2 DEF Grants
  <2>5. AfterVesting(g) \in Grants(now)
    <3> DEFINE later == [g EXCEPT !.claimed = x]
    <3>1. x \in Nat /\ g.amount \in Nat /\ x <= g.amount
      BY <2>4 DEF GrantType
    <3>2. later \in GrantType /\ later.claimed = x /\ later.amount = g.amount /\ later.start = g.start
      BY <2>4, <3>1 DEF GrantType
    <3>3. g.start <= now
      BY DEF Grants
    <3> HIDE DEF later
    <3>4. later \in Grants(now)
      BY <3>1, <3>2, <3>3 DEF Grants
    <3> QED BY <2>3, <3>4 DEF later
  <2>6. AfterVesting(g).amount = g.amount /\ AfterVesting(g).claimed = x
    BY <2>3, <2>4 DEF GrantType
  <2>7. g.amount \in Nat /\ g.claimed \in Nat /\ x \in Nat
    BY <2>4 DEF GrantType
  <2> QED BY <2>2, <2>5, <2>6, <2>7 DEF Remaining
<1>3. s \in Seq(Grants(now)) /\ Len(s) = n /\ \A i \in 1 .. n : s[i] = AfterVesting(o[i])
  <2>1. s = [i \in 1 .. n |-> AfterVesting(o[i])]
    BY <1>1
  <2>2. \A i \in 1 .. n : AfterVesting(o[i]) \in Grants(now)
    BY <1>1, <1>2
  <2> HIDE DEF s, n, o
  <2> QED BY <1>1, <2>1, <2>2
<1>4. Releasable(u) = SumFunctionOnSet(v, 1 .. n)
  <2>1. [i \in DOMAIN grants[u] |-> Vested(grants[u][i]) - grants[u][i].claimed] = v /\ DOMAIN v = 1 .. n
    BY <1>1
  <2> HIDE DEF v
  <2> QED BY <2>1 DEF Releasable, SumFunction
<1> HIDE DEF s, n, o
<1>5. Left(s) = SumFunctionOnSet(h, 1 .. n)
  BY <1>3, LeftIs
<1>6. \A i \in 1 .. n : /\ h[i] \in Int /\ v[i] \in Int /\ f[i] = h[i] + v[i]
  <2> SUFFICES ASSUME NEW i \in 1 .. n
               PROVE  /\ Remaining(s[i]) \in Int /\ Vested(o[i]) - o[i].claimed \in Int
                      /\ Remaining(o[i]) = Remaining(s[i]) + (Vested(o[i]) - o[i].claimed)
    OBVIOUS
  <2>1. o[i] \in Grants(now) /\ s[i] = AfterVesting(o[i])
    BY <1>1, <1>3
  <2>2. Remaining(s[i]) \in Nat
    BY <1>3, LeftIs
  <2> QED BY <1>2, <2>1, <2>2
<1> HIDE DEF f, h, v
<1>7. SumFunctionOnSet(f, 1 .. n) = SumFunctionOnSet(h, 1 .. n) + SumFunctionOnSet(v, 1 .. n)
  BY <1>1, <1>6, SumAdds
<1>8. SumFunctionOnSet(h, 1 .. n) \in Int /\ SumFunctionOnSet(v, 1 .. n) \in Int
  BY <1>1, <1>6, SumTyped
<1> QED BY <1>1, <1>3, <1>4, <1>5, <1>7, <1>8 DEF s, o

-----------------------------------------------------------------------------
(* What was paid and is left is what was granted.                          *)

ScheduleType == [cliff : Nat, duration : Nat]

PaidInv ==
    /\ schedule \in ScheduleType
    /\ grants \in [User -> Seq(Grants(now))]
    /\ paid \in [User -> Int]
    /\ \A u \in User : paid[u] + Left(grants[u]) = granted[u]

\* A grant made in the past stays one.
LEMMA GrantsAge ==
    ASSUME NEW t \in Nat, NEW r \in Nat, t <= r, NEW s \in Seq(Grants(t))
    PROVE  s \in Seq(Grants(r))
<1>1. \A g \in Grants(t) : g \in Grants(r)
  BY DEF Grants, GrantType
<1>2. Len(s) \in Nat /\ s = [i \in 1 .. Len(s) |-> s[i]] /\ \A i \in 1 .. Len(s) : s[i] \in Grants(t)
  OBVIOUS
<1>3. \A i \in 1 .. Len(s) : s[i] \in Grants(r)
  BY <1>1, <1>2
<1> QED BY <1>2, <1>3

\* Steps that leave what was granted and paid alone.
LEMMA PaidStays ==
    ASSUME PaidInv, now \in Nat, now' \in Nat, now' >= now,
           UNCHANGED <<grants, granted, paid>>, schedule' \in ScheduleType
    PROVE  PaidInv'
<1>1. ASSUME NEW u \in User PROVE grants'[u] \in Seq(Grants(now'))
  BY GrantsAge DEF PaidInv
<1>2. grants' = [u \in User |-> grants'[u]]
  BY DEF PaidInv
<1>3. grants' \in [User -> Seq(Grants(now'))]
  BY <1>1, <1>2
<1> QED BY <1>3 DEF PaidInv

\* A claim adds to the grants what it adds to what was granted.
LEMMA PaidByClaim ==
    ASSUME PaidInv, now \in Nat, now' = now, NEW u \in User, NEW n \in Nat,
           granted \in [User -> Nat],
           granted' = [granted EXCEPT ![u] = granted[u] + n],
           grants' = [grants EXCEPT ![u] = Append(grants[u],
                 [amount |-> n, claimed |-> 0, start |-> now,
                  cliff |-> schedule.cliff, duration |-> schedule.duration])],
           UNCHANGED <<paid, schedule>>
    PROVE  PaidInv'
<1> DEFINE g == [amount |-> n, claimed |-> 0, start |-> now,
                 cliff |-> schedule.cliff, duration |-> schedule.duration]
<1>1. g \in Grants(now) /\ Remaining(g) = n
  BY DEF PaidInv, ScheduleType, Grants, GrantType, Remaining
<1> HIDE DEF g
<1>2. /\ grants \in [User -> Seq(Grants(now))]
      /\ grants' = [grants EXCEPT ![u] = Append(grants[u], g)]
  BY DEF PaidInv, g
<1>3. /\ Append(grants[u], g) \in Seq(Grants(now))
      /\ Left(Append(grants[u], g)) = Left(grants[u]) + n
      /\ Left(grants[u]) \in Nat
  <2>1. grants[u] \in Seq(Grants(now))
    BY <1>2
  <2>2. PICK s : s = grants[u]
    OBVIOUS
  <2>3. s \in Seq(Grants(now))
    BY <2>1, <2>2
  <2>4. Left(s) \in Nat
    BY <2>3, LeftIs
  <2>5. Append(s, g) \in Seq(Grants(now)) /\ Left(Append(s, g)) = Left(s) + Remaining(g)
    BY <1>1, <2>3, LeftAppended
  <2> QED BY <1>1, <2>2, <2>4, <2>5
<1>4. grants' \in [User -> Seq(Grants(now'))]
  BY <1>2, <1>3
<1>5. ASSUME NEW v \in User PROVE paid'[v] + Left(grants'[v]) = granted'[v]
  <2>1. paid[v] \in Int /\ granted[v] \in Nat /\ paid[v] + Left(grants[v]) = granted[v]
    BY DEF PaidInv
  <2>2. CASE v = u
    BY <1>2, <1>3, <2>1, <2>2
  <2>3. CASE v # u
    BY <1>2, <2>1, <2>3
  <2> QED BY <2>2, <2>3
<1> QED BY <1>4, <1>5 DEF PaidInv

\* A vesting pays what it takes off the grants.
LEMMA PaidByVesting ==
    ASSUME PaidInv, now \in Nat, NEW u \in User, VestClaimable(u),
           granted \in [User -> Nat]
    PROVE  PaidInv'
<1> DEFINE s == [i \in DOMAIN grants[u] |-> AfterVesting(grants[u][i])]
<1>1. /\ paid' = [paid EXCEPT ![u] = paid[u] + Releasable(u)]
      /\ grants' = [grants EXCEPT ![u] = Unpaid(s)]
      /\ now' = now /\ granted' = granted /\ schedule' = schedule
  BY DEF VestClaimable, vars
<1>2. /\ grants \in [User -> Seq(Grants(now))] /\ paid \in [User -> Int]
  BY DEF PaidInv
<1>3. /\ s \in Seq(Grants(now)) /\ Releasable(u) \in Int
      /\ Left(s) + Releasable(u) = Left(grants[u])
  BY <1>2, VestingPays
<1> HIDE DEF s
<1>4. Unpaid(s) \in Seq(Grants(now)) /\ Left(Unpaid(s)) = Left(s) /\ Left(s) \in Nat
  BY <1>3, UnpaidFacts, LeftIs
<1>5. grants' \in [User -> Seq(Grants(now'))] /\ paid' \in [User -> Int]
  BY <1>1, <1>2, <1>3, <1>4
<1>6. ASSUME NEW v \in User PROVE paid'[v] + Left(grants'[v]) = granted'[v]
  <2>1. paid[v] \in Int /\ granted[v] \in Nat /\ paid[v] + Left(grants[v]) = granted[v]
    BY DEF PaidInv
  <2>2. CASE v = u
    BY <1>1, <1>2, <1>3, <1>4, <2>1, <2>2
  <2>3. CASE v # u
    BY <1>1, <1>2, <2>1, <2>3
  <2> QED BY <2>2, <2>3
<1> QED BY <1>1, <1>5, <1>6 DEF PaidInv

-----------------------------------------------------------------------------
(* The steps, and the theorem.                                              *)

LEMMA TimeForward ==
    ASSUME IInv, [Next \/ BatchStep]_vars
    PROVE  now \in Nat /\ now' \in Nat /\ now' >= now
<1>1. now \in Nat
  BY PoolAssumption DEF IInv, TypeOK
<1>2. CASE UserStep \/ BatchStep
  <2>1. now' = now
    BY <1>2, UserCalls DEF Call
  <2> QED BY <1>1, <2>1
<1>3. CASE LiquidationStep
  <2>1. now' = now
    BY <1>3 DEF LiquidationStep, Liquidate, WriteoffBadDebt
  <2> QED BY <1>1, <2>1
<1>4. CASE AdminStep
  <2>1. now' = now
    BY <1>4 DEF AdminStep, ApplyConfigureAsset, ApplyUpdateAssetCaps, SetSupplyCap,
                SetBorrowCap, ApplySetAssetRiskParams, SetInterestParams,
                ApplySetMinCollateralRatio, SetLiquidationParams, ApplySetPaused
  <2> QED BY <1>1, <2>1
<1>5. CASE FeeStep
  <2>1. now' = now
    BY <1>5 DEF FeeStep, SetMaxProtocolFeeBps, ApplyRecordProtocolFee, ApplyWithdrawReserves
  <2> QED BY <1>1, <2>1
<1>6. CASE Tick
  BY <1>1, <1>6 DEF Tick
<1>7. CASE ~(UserStep \/ BatchStep \/ LiquidationStep \/ AdminStep \/ FeeStep \/ Tick)
  <2>1. now' = now
    BY <1>7 DEF Next, AccrueInterest, vars
  <2> QED BY <1>1, <2>1
<1> QED BY <1>2, <1>3, <1>4, <1>5, <1>6, <1>7

\* A write-off takes a debt away, and no other unrewarded step writes positions.
LEMMA UnrewardedPositions ==
    ASSUME Flat, PlacedNow, UnrewardedStep
    PROVE  /\ [Next \/ BatchStep]_vars
           /\ \A u \in User, a \in Asset :
                 /\ position'[u][a].deposited <= position[u][a].deposited
                 /\ position'[u][a].borrowed <= position[u][a].borrowed
<1>1. [Next \/ BatchStep]_vars
  BY DEF UnrewardedStep, Next, LiquidationStep
<1>2. \A u \in User, a \in Asset :
         position[u][a].deposited \in Nat /\ position[u][a].borrowed \in Nat
  BY HeldPosition
<1>3. ASSUME UNCHANGED position
      PROVE  \A u \in User, a \in Asset :
                /\ position'[u][a].deposited <= position[u][a].deposited
                /\ position'[u][a].borrowed <= position[u][a].borrowed
  BY <1>2, <1>3
<1>4. ASSUME NEW u \in User, NEW a \in Asset, WriteoffBadDebt(u, a), position' # position
      PROVE  \A v \in User, d \in Asset :
                /\ position'[v][d].deposited <= position[v][d].deposited
                /\ position'[v][d].borrowed <= position[v][d].borrowed
  <2> DEFINE p == CurrentPosition(u, a)
             q == [p EXCEPT !.borrowed = 0]
  <2>1. position' = [position EXCEPT ![u][a] = Stored(q)]
    BY <1>4 DEF WriteoffBadDebt, SetPosition
  <2>2. p = position[u][a] /\ p \in PositionType
    BY HeldPosition
  <2>3. q.deposited = p.deposited /\ q.borrowed = 0
    BY <2>2 DEF PositionType
  <2> HIDE DEF q, p
  <2>4. Stored(q).deposited = p.deposited /\ Stored(q).borrowed = 0
    BY <2>3 DEF Stored, EmptyPosition
  <2>5. position \in [User -> [Asset -> PositionType]]
    BY DEF Flat, IInv, TypeOK
  <2>6. position'[u][a] = Stored(q)
    BY <2>1, <2>5
  <2> SUFFICES ASSUME NEW v \in User, NEW d \in Asset
               PROVE  /\ position'[v][d].deposited <= position[v][d].deposited
                      /\ position'[v][d].borrowed <= position[v][d].borrowed
    OBVIOUS
  <2>7. CASE v = u /\ d = a
    BY <1>2, <2>2, <2>4, <2>6, <2>7
  <2>8. CASE ~(v = u /\ d = a)
    <3>1. position'[v][d] = position[v][d]
      BY <2>1, <2>5, <2>8
    <3> QED BY <1>2, <3>1
  <2> QED BY <2>7, <2>8
<1>5. CASE \E u \in User, a \in Asset : WriteoffBadDebt(u, a)
  BY <1>1, <1>3, <1>4, <1>5
<1>6. CASE ~ \E u \in User, a \in Asset : WriteoffBadDebt(u, a)
  <2>1. UNCHANGED position
    BY <1>6, OthersSettle DEF UnrewardedStep
  <2> QED BY <1>1, <1>3, <2>1
<1> QED BY <1>1, <1>5, <1>6

\* The pool's invariant while nothing is charged, with what EarnedInv says of
\* claims and PaidInv of grants.
RewardsInv == Flat /\ PlacedNow /\ EarnedInv /\ PaidInv

\* The steps of the pool's entrypoints, with the rewards they settle.
LEMMA RewardedCalls ==
    ASSUME NoInterest, CrossLiquidation, RewardsInv, RewardedUserStep \/ RewardedLiquidation
    PROVE  RewardsInv'
<1> USE DEF RewardsInv
<1>1. UserStep \/ BatchStep \/ LiquidationStep
  BY CallsStayHome
<1>2. [Next \/ BatchStep]_vars
  BY <1>1 DEF Next
<1>3. Flat' /\ PlacedNow'
  BY <1>2, FlatStep, PlacedStep
<1>4. now \in Nat /\ now' \in Nat /\ now' >= now
  BY <1>2, TimeForward DEF Flat
<1>5. PICK touched \in SUBSET (User \X Asset) :
         AccrueUserRewards(touched) /\ Elsewhere(touched)
  BY CallsStayHome
<1>6. position' \in [User -> [Asset -> PositionType]]
  BY <1>3 DEF Flat, IInv, TypeOK
<1>7. EarnedInv'
  BY <1>5, <1>6, AccruedFor
<1>8. UNCHANGED <<grants, granted, paid>> /\ schedule' \in ScheduleType
  BY <1>5 DEF AccrueUserRewards, PaidInv
<1>9. PaidInv'
  BY <1>4, <1>8, PaidStays
<1> QED BY <1>3, <1>7, <1>9

LEMMA RewardSteps ==
    ASSUME NoInterest, CrossLiquidation, RewardsInv, RewardStep
    PROVE  RewardsInv'
<1> USE DEF RewardsInv
<1>1. /\ now \in Nat /\ supported \in SUBSET Asset
      /\ position \in [User -> [Asset -> PositionType]]
      /\ granted \in [User -> Nat] /\ schedule \in ScheduleType
  BY PoolAssumption DEF Flat, IInv, TypeOK, EarnedInv, PaidInv
<1>2. ASSUME UNCHANGED vars PROVE Flat' /\ PlacedNow' /\ now' = now /\ position' = position
  <2>1. now' = now /\ position' = position
    BY <1>2 DEF vars
  <2> QED BY <1>2, <2>1, FlatStep, PlacedStep
<1>3. ASSUME UNCHANGED vars, UNCHANGED <<pace, claim, granted, emitted>>
      PROVE  EarnedInv'
  <2>1. position' = position
    BY <1>3 DEF vars
  <2>2. \A u \in User, a \in Asset :
           /\ position'[u][a].deposited <= position[u][a].deposited
           /\ position'[u][a].borrowed <= position[u][a].borrowed
    BY <2>1, HeldPosition
  <2> QED BY <1>1, <1>3, <2>1, <2>2, RewardsLeft
<1>4. ASSUME NEW u \in User, NEW assets \in SUBSET Asset, ClaimInto(u, assets)
      PROVE  RewardsInv'
  <2>1. Flat' /\ PlacedNow' /\ EarnedInv'
    BY <1>4, ClaimEarned
  <2>2. PICK n \in Nat :
           /\ granted' = [granted EXCEPT ![u] = granted[u] + n]
           /\ grants' = [grants EXCEPT ![u] = Append(grants[u],
                 [amount |-> n, claimed |-> 0, start |-> now,
                  cliff |-> schedule.cliff, duration |-> schedule.duration])]
    BY <1>4, ClaimEarned
  <2>3. now' = now /\ UNCHANGED <<paid, schedule>>
    BY <1>4 DEF ClaimInto
  <2>4. PaidInv'
    BY <1>1, <2>2, <2>3, PaidByClaim
  <2> QED BY <2>1, <2>4
<1>5. ASSUME NEW u \in User, VestClaimable(u) PROVE RewardsInv'
  <2>1. UNCHANGED vars /\ UNCHANGED <<pace, claim, granted, emitted>>
    BY <1>5 DEF VestClaimable
  <2>2. PaidInv'
    BY <1>1, <1>5, PaidByVesting
  <2> QED BY <1>2, <1>3, <2>1, <2>2
<1>6. ASSUME UNCHANGED vars, UNCHANGED <<grants, granted, paid>>, schedule' \in ScheduleType,
             EarnedInv'
      PROVE  RewardsInv'
  <2>1. PaidInv'
    BY <1>1, <1>2, <1>6, PaidStays
  <2> QED BY <1>2, <1>6, <2>1
<1>7. ASSUME \/ SetRewardToken
             \/ \E n \in Payments : FundRewardPool(n) \/ ApplyRecoverRewards(n)
      PROVE  RewardsInv'
  <2>1. /\ UNCHANGED vars /\ UNCHANGED <<pace, claim, granted, emitted>>
        /\ UNCHANGED <<grants, paid>> /\ schedule' = schedule
    BY <1>7 DEF SetRewardToken, FundRewardPool, ApplyRecoverRewards
  <2> QED BY <1>1, <1>3, <1>6, <2>1
<1>8. ASSUME NEW s \in Schedules, SetVestingParams(s[1], s[2]) PROVE RewardsInv'
  <2>1. /\ UNCHANGED vars /\ UNCHANGED <<pace, claim, granted, emitted>>
        /\ UNCHANGED <<grants, paid>> /\ schedule' = [cliff |-> s[1], duration |-> s[2]]
    BY <1>8 DEF SetVestingParams
  <2>2. schedule' \in ScheduleType
    BY <2>1, RewardsAssumption DEF ScheduleType
  <2> QED BY <1>3, <1>6, <2>1, <2>2
<1>9. ASSUME NEW a \in Asset, NEW s \in Speeds, SetRewardSpeeds(a, s) PROVE RewardsInv'
  <2>1. /\ UNCHANGED vars /\ UNCHANGED <<grants, granted, paid>> /\ schedule' = schedule
    BY <1>9 DEF SetRewardSpeeds
  <2>2. EarnedInv'
    BY <1>9, SpeedsEarned
  <2> QED BY <1>1, <1>6, <2>1, <2>2
<1>10. ASSUME NEW u \in User, ClaimAll(u) \/ \E a \in Asset : ClaimAsset(u, a)
       PROVE  RewardsInv'
  BY <1>1, <1>4, <1>10 DEF ClaimAll, ClaimAsset
<1> HIDE DEF RewardsInv
<1> QED BY <1>5, <1>7, <1>8, <1>9, <1>10 DEF RewardStep

LEMMA RewardsStep ==
    ASSUME NoInterest, CrossLiquidation, RewardsInv, [RewardedNext]_<<vars, rewardVars>>
    PROVE  RewardsInv'
<1>1. CASE RewardedUserStep \/ RewardedLiquidation
  BY <1>1, RewardedCalls
<1>2. CASE RewardStep
  BY <1>2, RewardSteps
<1>3. ASSUME [Next \/ BatchStep]_vars, UNCHANGED rewardVars,
             \A u \in User, a \in Asset :
                /\ position'[u][a].deposited <= position[u][a].deposited
                /\ position'[u][a].borrowed <= position[u][a].borrowed
      PROVE  RewardsInv'
  <2> USE DEF RewardsInv
  <2>1. Flat' /\ PlacedNow'
    BY <1>3, FlatStep, PlacedStep
  <2>2. now \in Nat /\ now' \in Nat /\ now' >= now
    BY <1>3, TimeForward DEF Flat
  <2>3. position' \in [User -> [Asset -> PositionType]]
    BY <2>1 DEF Flat, IInv, TypeOK
  <2>4. /\ UNCHANGED <<pace, claim, granted, emitted>>
        /\ UNCHANGED <<grants, granted, paid>> /\ schedule' \in ScheduleType
    BY <1>3 DEF rewardVars, PaidInv
  <2>5. EarnedInv'
    BY <1>3, <2>3, <2>4, RewardsLeft
  <2>6. PaidInv'
    BY <2>2, <2>4, PaidStays
  <2> QED BY <2>1, <2>5, <2>6
<1>4. CASE UnrewardedStep
  <2>1. UNCHANGED rewardVars
    BY <1>4 DEF UnrewardedStep
  <2> QED BY <1>3, <1>4, <2>1, UnrewardedPositions DEF RewardsInv
<1>5. CASE UNCHANGED <<vars, rewardVars>>
  <2>1. UNCHANGED vars /\ UNCHANGED rewardVars /\ position' = position
    BY <1>5 DEF vars
  <2>2. \A u \in User, a \in Asset :
           /\ position'[u][a].deposited <= position[u][a].deposited
           /\ position'[u][a].borrowed <= position[u][a].borrowed
    BY <2>1, HeldPosition DEF RewardsInv
  <2> QED BY <1>3, <2>1, <2>2
<1> QED BY <1>1, <1>2, <1>4, <1>5 DEF RewardedNext

LEMMA RewardsStart ==
    ASSUME Init, RewardsInit
    PROVE  RewardsInv
<1>1. Flat /\ PlacedNow
  BY FlatInit, PlacedInit
<1>2. /\ \A a \in Asset : pace[a] = [supply_index |-> 0, borrow_index |-> 0,
                                     supply_speed |-> 0, borrow_speed |-> 0, last |-> 0]
      /\ pace \in [Asset -> PaceType]
  BY DEF RewardsInit, PaceType
<1>3. /\ \A u \in User, a \in Asset :
            claim[u][a] = [supply_snapshot |-> 0, borrow_snapshot |-> 0, unclaimed |-> 0]
      /\ claim \in [User -> [Asset -> ClaimType]]
  BY DEF RewardsInit, ClaimType
<1>4. /\ granted \in [User -> Nat] /\ \A u \in User : granted[u] = 0
      /\ emitted = 0 /\ RATE_SCALE \in Nat /\ RATE_SCALE * 0 = 0
  BY ScaleAssumption DEF RewardsInit
<1>5. ASSUME NEW u \in User, NEW a \in Asset
      PROVE  Behindhand(claim[u][a], pace[a]) /\ Pending(u, a) = 0
  <2>1. position[u][a].deposited \in Nat /\ position[u][a].borrowed \in Nat
    BY <1>1, HeldPosition
  <2>2. /\ position[u][a].deposited * 0 = 0 /\ position[u][a].borrowed * 0 = 0
    BY <2>1
  <2>3. /\ claim[u][a].supply_snapshot = 0 /\ claim[u][a].borrow_snapshot = 0
        /\ claim[u][a].unclaimed = 0
        /\ pace[a].supply_index = 0 /\ pace[a].borrow_index = 0
    BY <1>2, <1>3
  <2>4. 0 - 0 = 0
    OBVIOUS
  <2>5. Pending(u, a) = RATE_SCALE * 0 + position[u][a].deposited * 0
                          + position[u][a].borrowed * 0
    BY <2>3, <2>4 DEF Pending, Due
  <2>6. Pending(u, a) = 0
    <3>1. Pending(u, a) = 0 + 0 + 0
      BY <1>4, <2>2, <2>5
    <3> QED BY <3>1
  <2>7. 0 <= 0
    OBVIOUS
  <2>8. Behindhand(claim[u][a], pace[a])
    BY <2>3, <2>7 DEF Behindhand
  <2> QED BY <2>6, <2>8
<1>6. ASSUME NEW u \in User PROVE Owing[u] = 0
  <2> DEFINE f == [a \in Asset |-> Pending(u, a)]
  <2>1. \A a \in Asset : f[a] = 0
    BY <1>5
  <2>2. Owing[u] = RATE_SCALE * granted[u] + SumFunctionOnSet(f, Asset)
    BY DEF Owing
  <2> HIDE DEF f
  <2>3. SumFunctionOnSet(f, Asset) = 0
    BY <2>1, SumOfZeros, RewardsAssumption
  <2> QED BY <1>4, <2>2, <2>3
<1>7. SumFunctionOnSet(Owing, User) = 0
  BY <1>6, SumOfZeros, RewardsAssumption
<1>8. EarnedInv
  BY <1>2, <1>3, <1>4, <1>5, <1>7 DEF EarnedInv
<1>9. PaidInv
  <2>1. /\ schedule \in ScheduleType
        /\ grants = [u \in User |-> <<>>] /\ paid = [u \in User |-> 0]
    BY DEF RewardsInit, ScheduleType
  <2>2. ASSUME NEW u \in User
        PROVE  grants[u] \in Seq(Grants(now)) /\ paid[u] + Left(grants[u]) = granted[u]
    <3>1. grants[u] = <<>> /\ paid[u] = 0
      BY <2>1
    <3>2. <<>> \in Seq(Grants(now)) /\ Left(<<>>) = 0
      BY NothingLeft
    <3> QED BY <1>4, <3>1, <3>2
  <2>3. grants \in [User -> Seq(Grants(now))] /\ paid \in [User -> Int]
    BY <2>1, <2>2
  <2> QED BY <2>1, <2>2, <2>3 DEF PaidInv
<1> QED BY <1>1, <1>8, <1>9 DEF RewardsInv

\* A position is due at least what its claim already holds.
LEMMA UnclaimedIsDue ==
    ASSUME Flat, PlacedNow, EarnedInv, NEW u \in User, NEW a \in Asset
    PROVE  /\ claim[u][a].unclaimed \in Nat /\ Pending(u, a) \in Int
           /\ RATE_SCALE * claim[u][a].unclaimed <= Pending(u, a)
<1> DEFINE c == claim[u][a]
           s == pace[a]
           p == position[u][a]
<1>1. /\ c \in ClaimType /\ s \in PaceType /\ Behindhand(c, s)
      /\ p.deposited \in Nat /\ p.borrowed \in Nat /\ RATE_SCALE \in Nat
  BY HeldPosition, ScaleAssumption DEF EarnedInv
<1>2. /\ s.supply_index - c.supply_snapshot \in Nat
      /\ s.borrow_index - c.borrow_snapshot \in Nat /\ c.unclaimed \in Nat
  BY <1>1 DEF ClaimType, PaceType, Behindhand
<1> DEFINE x == RATE_SCALE * c.unclaimed
           y == p.deposited * (s.supply_index - c.supply_snapshot)
           z == p.borrowed * (s.borrow_index - c.borrow_snapshot)
<1>3. x \in Nat /\ y \in Nat /\ z \in Nat
  BY <1>1, <1>2, NatProducts
<1>4. Pending(u, a) = x + y + z
  BY DEF Pending, Due
<1> HIDE DEF x, y, z
<1>5. Pending(u, a) \in Int /\ x <= Pending(u, a)
  BY <1>3, <1>4
<1> QED BY <1>2, <1>5 DEF x

\* Rounding never credits a user: RATE_SCALE cancels out of what users are owed.
LEMMA EarnedWithinEmission ==
    ASSUME Flat, PlacedNow, EarnedInv
    PROVE  SumFunction(granted)
             + SumFunction([u \in User |-> SumFunction([a \in Asset |-> claim[u][a].unclaimed])])
           <= emitted
<1> DEFINE open == [u \in User |-> [a \in Asset |-> claim[u][a].unclaimed]]
           unclaimed == [u \in User |-> SumFunctionOnSet(open[u], Asset)]
           both == [u \in User |-> granted[u] + unclaimed[u]]
           scaled == [u \in User |-> RATE_SCALE * both[u]]
<1>1. /\ IsFiniteSet(User) /\ IsFiniteSet(Asset)
      /\ RATE_SCALE \in Nat \ {0} /\ emitted \in Nat
      /\ granted \in [User -> Nat] /\ DOMAIN granted = User
      /\ SumFunctionOnSet(Owing, User) <= RATE_SCALE * emitted
  BY RewardsAssumption, ScaleAssumption DEF EarnedInv
<1>2. \A u \in User, a \in Asset :
         open[u][a] = claim[u][a].unclaimed /\ open[u][a] \in Nat
  BY UnclaimedIsDue
<1>3. /\ SumFunction(granted) = SumFunctionOnSet(granted, User)
      /\ SumFunction([u \in User |-> SumFunction([a \in Asset |-> claim[u][a].unclaimed])])
           = SumFunctionOnSet(unclaimed, User)
  <2>1. \A u \in User :
           SumFunction([a \in Asset |-> claim[u][a].unclaimed]) = SumFunctionOnSet(open[u], Asset)
    BY DEF SumFunction
  <2>2. [u \in User |-> SumFunction([a \in Asset |-> claim[u][a].unclaimed])] = unclaimed
    BY <2>1
  <2>3. DOMAIN unclaimed = User
    OBVIOUS
  <2> HIDE DEF unclaimed
  <2> QED BY <1>1, <2>2, <2>3 DEF SumFunction
<1> HIDE DEF open
<1>4. ASSUME NEW u \in User
      PROVE  /\ unclaimed[u] \in Nat /\ both[u] \in Nat /\ both[u] = granted[u] + unclaimed[u]
             /\ scaled[u] = RATE_SCALE * both[u] /\ scaled[u] \in Int
             /\ Owing[u] \in Int /\ scaled[u] <= Owing[u]
  <2> DEFINE dues == [a \in Asset |-> Pending(u, a)]
             needs == [a \in Asset |-> RATE_SCALE * open[u][a]]
             mine == open[u]
  <2>1. /\ \A a \in Asset : mine[a] \in Nat
        /\ \A a \in Asset : mine[a] \in Int /\ needs[a] = RATE_SCALE * mine[a]
    BY <1>2
  <2>2. ASSUME NEW a \in Asset
        PROVE  needs[a] \in Int /\ dues[a] \in Int /\ needs[a] <= dues[a]
    <3>1. /\ Pending(u, a) \in Int /\ RATE_SCALE * claim[u][a].unclaimed <= Pending(u, a)
          /\ claim[u][a].unclaimed \in Nat
      BY UnclaimedIsDue
    <3>2. RATE_SCALE * claim[u][a].unclaimed \in Int
      BY <1>1, <3>1, ProductInt
    <3> QED BY <1>2, <3>1, <3>2
  <2>3. Owing[u] = RATE_SCALE * granted[u] + SumFunctionOnSet(dues, Asset)
    BY DEF Owing
  <2>4. unclaimed[u] = SumFunctionOnSet(mine, Asset)
    OBVIOUS
  <2> HIDE DEF dues, needs, mine
  <2>5. SumFunctionOnSet(mine, Asset) \in Nat
    BY <1>1, <2>1, SumNatural
  <2>6. SumFunctionOnSet(needs, Asset) = RATE_SCALE * SumFunctionOnSet(mine, Asset)
    BY <1>1, <2>1, SumScales
  <2>7. SumFunctionOnSet(needs, Asset) <= SumFunctionOnSet(dues, Asset)
    BY <1>1, <2>2, SumMonotone
  <2>8. SumFunctionOnSet(dues, Asset) \in Int /\ SumFunctionOnSet(needs, Asset) \in Int
    BY <1>1, <2>2, SumTyped
  <2> DEFINE g == granted[u]
             m == unclaimed[u]
  <2>9. g \in Nat /\ m \in Nat
    BY <1>1, <2>4, <2>5
  <2>10. both[u] = g + m /\ scaled[u] = RATE_SCALE * both[u]
    OBVIOUS
  <2> HIDE DEF g, m, both, scaled, unclaimed
  <2>11. RATE_SCALE * (g + m) = RATE_SCALE * g + RATE_SCALE * m
    BY <1>1, <2>9, ProductOverSum
  <2>12. RATE_SCALE * g \in Int /\ RATE_SCALE * m \in Int
    BY <1>1, <2>9, ProductInt
  <2>13. /\ scaled[u] = RATE_SCALE * g + RATE_SCALE * m
         /\ RATE_SCALE * m <= SumFunctionOnSet(dues, Asset)
         /\ Owing[u] = RATE_SCALE * g + SumFunctionOnSet(dues, Asset)
    BY <2>3, <2>4, <2>6, <2>7, <2>10, <2>11 DEF g, m
  <2>14. scaled[u] \in Int /\ Owing[u] \in Int /\ scaled[u] <= Owing[u]
    BY <2>8, <2>12, <2>13
  <2>15. both[u] \in Nat
    BY <2>9, <2>10
  <2> QED BY <2>9, <2>10, <2>14, <2>15 DEF g, m
<1> HIDE DEF unclaimed, both, scaled
<1>5. SumFunctionOnSet(both, User) = SumFunctionOnSet(granted, User) + SumFunctionOnSet(unclaimed, User)
  <2>1. \A u \in User : granted[u] \in Int /\ unclaimed[u] \in Int
                          /\ both[u] = granted[u] + unclaimed[u]
    BY <1>1, <1>4
  <2> QED BY <1>1, <2>1, SumAdds
<1>6. SumFunctionOnSet(scaled, User) = RATE_SCALE * SumFunctionOnSet(both, User)
  <2>1. \A u \in User : both[u] \in Int /\ scaled[u] = RATE_SCALE * both[u]
    BY <1>4
  <2> QED BY <1>1, <2>1, SumScales
<1>7. SumFunctionOnSet(scaled, User) <= SumFunctionOnSet(Owing, User)
  BY <1>1, <1>4, SumMonotone
<1>8. /\ SumFunctionOnSet(both, User) \in Nat /\ SumFunctionOnSet(Owing, User) \in Int
      /\ SumFunctionOnSet(scaled, User) \in Int
  BY <1>1, <1>4, SumNatural, SumTyped
<1> DEFINE n == SumFunctionOnSet(both, User)
<1>9. n \in Nat /\ RATE_SCALE * n <= RATE_SCALE * emitted
  <2>1. RATE_SCALE * emitted \in Int
    BY <1>1, ProductInt
  <2> QED BY <1>1, <1>6, <1>7, <1>8, <2>1
<1> HIDE DEF n
<1>10. n <= emitted
  <2>1. RATE_SCALE * n = n * RATE_SCALE /\ RATE_SCALE * emitted = emitted * RATE_SCALE
    BY <1>1, <1>9, ProductTurns
  <2> QED BY <1>1, <1>9, <2>1, ProductCancels
<1> QED BY <1>3, <1>5, <1>10 DEF n

\* However many users and assets, calls and batches, changes of speed, claims
\* and vestings: what users were granted and may still claim is no more than
\* the speeds emitted, and what a user was paid and is still owed is exactly
\* what was granted, while no interest is charged and no debt is liquidated
\* against collateral in the same asset.
THEOREM EmissionCoversRewards ==
    ASSUME NoInterest, CrossLiquidation
    PROVE  RewardedSpec => []RewardsWithinEmission
<1>1. Init /\ RewardsInit => RewardsInv
  BY RewardsStart
<1>2. RewardsInv /\ [RewardedNext]_<<vars, rewardVars>> => RewardsInv'
  BY RewardsStep
<1>3. RewardsInv => RewardsWithinEmission
  BY EarnedWithinEmission DEF RewardsInv, PaidInv, Left, RewardsWithinEmission
<1> QED BY <1>1, <1>2, <1>3, PTL DEF RewardedSpec

-----------------------------------------------------------------------------
(* The pool under rewards: RewardedSpec takes the pool's own steps, and     *)
(* claims, which settle books like an accrual.                              *)

LEMMA RewardedMoves ==
    ASSUME IInv, [RewardedNext]_<<vars, rewardVars>>
    PROVE  \/ [Next \/ BatchStep]_vars
           \/ \E u \in User, assets \in SUBSET Asset : ClaimInto(u, assets)
<1>1. CASE RewardedUserStep
  <2>1. UserStep \/ BatchStep
    BY <1>1 DEF RewardedUserStep, UserStep, BatchStep
  <2> QED BY <2>1 DEF Next
<1>2. CASE RewardedLiquidation
  <2>1. LiquidationStep
    BY <1>2 DEF RewardedLiquidation, LiquidationStep
  <2> QED BY <2>1 DEF Next
<1>3. CASE RewardStep
  <2>1. supported \in SUBSET Asset
    BY DEF IInv, TypeOK
  <2>2. CASE \E u \in User : ClaimAll(u) \/ \E a \in Asset : ClaimAsset(u, a)
    BY <2>1, <2>2 DEF ClaimAll, ClaimAsset
  <2>3. CASE \/ \E u \in User : VestClaimable(u)
             \/ SetRewardToken
             \/ \E n \in Payments : FundRewardPool(n) \/ ApplyRecoverRewards(n)
             \/ \E a \in Asset, s \in Speeds : SetRewardSpeeds(a, s)
             \/ \E s \in Schedules : SetVestingParams(s[1], s[2])
    <3>1. UNCHANGED vars
      BY <2>3 DEF VestClaimable, SetRewardToken, FundRewardPool, ApplyRecoverRewards,
                  SetRewardSpeeds, SetVestingParams
    <3> QED BY <3>1
  <2> QED BY <1>3, <2>2, <2>3 DEF RewardStep
<1>4. CASE UnrewardedStep
  <2>1. Next
    BY <1>4 DEF UnrewardedStep, Next, LiquidationStep
  <2> QED BY <2>1
<1>5. CASE UNCHANGED <<vars, rewardVars>>
  BY <1>5
<1> QED BY <1>1, <1>2, <1>3, <1>4, <1>5 DEF RewardedNext

LEMMA RewardedSound ==
    ASSUME IInv, [RewardedNext]_<<vars, rewardVars>>
    PROVE  Sound /\ (CollateralInv => CollateralInv')
<1>1. CASE [Next \/ BatchStep]_vars
  BY <1>1, NextSound, CollateralStep
<1>2. ASSUME NEW u \in User, NEW assets \in SUBSET Asset, ClaimInto(u, assets)
      PROVE  Sound /\ (CollateralInv => CollateralInv')
  BY <1>2, ClaimSound DEF CollateralInv
<1> QED BY <1>1, <1>2, RewardedMoves

\* Rewards do not disturb the pool: types, snapshots behind their indexes and
\* the balance sheet hold with every reward entrypoint called in between, at any
\* interest rates.
THEOREM RewardsKeepBooks ==
    RewardedSpec => [](TypeOK /\ SnapshotsBehindIndexes /\ BalanceSheet)
<1> DEFINE Books == IInv /\ BalanceSheet
<1>1. Init => Books
  BY InitSound
<1>2. Books /\ [RewardedNext]_<<vars, rewardVars>> => Books'
  BY RewardedSound, BalanceKept DEF Sound
<1>3. Books => TypeOK /\ SnapshotsBehindIndexes /\ BalanceSheet
  BY DEF IInv
<1> QED BY <1>1, <1>2, <1>3, PTL DEF RewardedSpec

\* Nor the totals: with every reward entrypoint called in between, they are the
\* sums of the positions, and nobody is left in a delisted asset.
THEOREM RewardsKeepTotals ==
    ASSUME NoInterest, CrossLiquidation
    PROVE  RewardedSpec => [](TotalsMatchPositions /\ NoTrappedPosition)
<1>1. Init /\ RewardsInit => RewardsInv
  BY RewardsStart
<1>2. RewardsInv /\ [RewardedNext]_<<vars, rewardVars>> => RewardsInv'
  BY RewardsStep
<1>3. RewardsInv => TotalsMatchPositions /\ NoTrappedPosition
  BY PlacedTotals DEF RewardsInv
<1> QED BY <1>1, <1>2, <1>3, PTL DEF RewardedSpec

\* And a liquidation that settles rewards on the way leaves no more of the debt
\* it repays uncovered; a claim, which moves no position, repays none.
THEOREM RewardedLiquidationsHelp == RewardedSpec => LiquidationReducesShortfall
<1> DEFINE A == \A u \in User, a \in Asset :
          (/\ position'[u][a].borrowed < position[u][a].borrowed
           /\ book'[a].total_borrowed < book[a].total_borrowed
           /\ Liquidatable(u, a)
           /\ \A c \in Asset : LiquidationThreshold(c) * (BPS + config.discount_bps)
                                  <= BPS * BPS)
              => Shortfall(u, a)' <= Shortfall(u, a)
<1>1. Init => CollateralSafe
  BY InitSound, CollateralInit DEF CollateralSafe
<1>2. CollateralSafe /\ [RewardedNext]_<<vars, rewardVars>> => CollateralSafe'
  BY RewardedSound DEF CollateralSafe, Sound
<1>3. CollateralSafe /\ [RewardedNext]_<<vars, rewardVars>> => [A]_vars
  <2> SUFFICES ASSUME IInv, CollateralInv, [RewardedNext]_<<vars, rewardVars>>,
                      NEW v \in User, NEW a \in Asset,
                      position'[v][a].borrowed < position[v][a].borrowed,
                      \A c \in Asset : LiquidationThreshold(c) * (BPS + config.discount_bps)
                                          <= BPS * BPS
               PROVE  Shortfall(v, a)' <= Shortfall(v, a)
    BY DEF CollateralSafe
  <2>1. CASE [Next \/ BatchStep]_vars
    BY <2>1, ShortfallShrinks
  <2>2. ASSUME NEW u \in User, NEW assets \in SUBSET Asset, ClaimInto(u, assets)
        PROVE  FALSE
    <3>1. position' = position
      BY <2>2, ClaimSound
    <3>2. position[v][a].borrowed \in Nat
      BY DebtOnlyGrows
    <3>3. position'[v][a].borrowed = position[v][a].borrowed
      BY <3>1
    <3>4. position'[v][a].borrowed < position[v][a].borrowed
      OBVIOUS
    <3> QED BY <3>2, <3>3, <3>4
  <2> QED BY <2>1, <2>2, RewardedMoves
<1> QED BY <1>1, <1>2, <1>3, PTL DEF RewardedSpec, LiquidationReducesShortfall
=============================================================================
