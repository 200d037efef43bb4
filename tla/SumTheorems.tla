---------------------------- MODULE SumTheorems ----------------------------
(***************************************************************************)
(* Laws of SumFunctionOnSet for finite sets, and of folds that take their  *)
(* elements in ascending order.  The library's induction theorems are not  *)
(* usable here because their parameter is an operator; the proofs below    *)
(* choose a smallest set for which a law would fail instead, which needs   *)
(* only that strict inclusion is well founded on the subsets of a finite   *)
(* set.                                                                    *)
(***************************************************************************)
EXTENDS Integers, FiniteSets, Functions, FiniteSetTheorems,
        WellFoundedInduction, TLAPS

LEMMA SmallestSet ==
    ASSUME NEW S, IsFiniteSet(S), NEW T \in SUBSET (SUBSET S), T # {}
    PROVE  \E s \in T : \A t \in T : t \subseteq s => t = s
<1>1. IsWellFoundedOn(StrictSubsetOrdering(S), FiniteSubsetsOf(S))
  BY FS_StrictSubsetOrderingWellFounded
<1>2. T \subseteq FiniteSubsetsOf(S)
  BY FS_FiniteSubsetsOfFinite
<1>3. \E s \in T : \A t \in T : ~ (<<t, s>> \in StrictSubsetOrdering(S))
  BY <1>1, <1>2, WFMin
<1> QED BY <1>3 DEF StrictSubsetOrdering

-----------------------------------------------------------------------------
(* The recursion of MapThenFoldSet has a solution, and only one.           *)

Pick(s) == CHOOSE x \in s : TRUE

\* The table g holds the sum of f over every subset of S.
Tabulates(g, f, S) ==
    g = [s \in SUBSET S |-> IF s = {} THEN 0 ELSE f[Pick(s)] + g[s \ {Pick(s)}]]

Table(f, S) == CHOOSE g : Tabulates(g, f, S)

LEMMA TablesAgree ==
    ASSUME NEW f, NEW A, NEW B, IsFiniteSet(A), NEW g, NEW h,
           Tabulates(g, f, A), Tabulates(h, f, B), NEW s \in SUBSET A, s \subseteq B
    PROVE  g[s] = h[s]
<1> DEFINE Differ == {t \in SUBSET A : t \subseteq B /\ g[t] # h[t]}
<1> SUFFICES ASSUME Differ # {} PROVE FALSE
  OBVIOUS
<1>1. PICK t \in Differ : \A u \in Differ : u \subseteq t => u = t
  <2>1. Differ \in SUBSET (SUBSET A)
    OBVIOUS
  <2> HIDE DEF Differ
  <2> QED BY <2>1, SmallestSet
<1> DEFINE p == Pick(t)
<1>2. /\ g[t] = IF t = {} THEN 0 ELSE f[p] + g[t \ {p}]
      /\ h[t] = IF t = {} THEN 0 ELSE f[p] + h[t \ {p}]
  BY DEF Tabulates
<1>3. CASE t # {}
  <2>1. p \in t
    BY <1>3 DEF Pick
  <2>2. t \ {p} \notin Differ
    BY <1>1, <2>1
  <2>3. g[t \ {p}] = h[t \ {p}]
    BY <2>2
  <2> QED BY <1>2, <1>3, <2>3
<1>4. CASE t = {}
  BY <1>2, <1>4
<1> QED BY <1>3, <1>4

LEMMA TableExists ==
    ASSUME NEW f, NEW S, IsFiniteSet(S)
    PROVE  Tabulates(Table(f, S), f, S)
<1> DEFINE Missing == {t \in SUBSET S : ~ \E g : Tabulates(g, f, t)}
<1>1. SUFFICES ASSUME Missing # {} PROVE FALSE
  BY DEF Table
<1>2. PICK t \in Missing : \A u \in Missing : u \subseteq t => u = t
  <2>1. Missing \in SUBSET (SUBSET S)
    OBVIOUS
  <2> HIDE DEF Missing
  <2> QED BY <1>1, <2>1, SmallestSet
<1> DEFINE below == [u \in SUBSET t |-> Table(f, u)[u]]
           g == [s \in SUBSET t |-> IF s = {} THEN 0 ELSE f[Pick(s)] + below[s \ {Pick(s)}]]
<1>3. \A u \in SUBSET t : u # t => Tabulates(Table(f, u), f, u)
  <2> SUFFICES ASSUME NEW u \in SUBSET t, u # t PROVE Tabulates(Table(f, u), f, u)
    OBVIOUS
  <2>1. u \notin Missing
    BY <1>2
  <2>2. \E h : Tabulates(h, f, u)
    BY <2>1
  <2> QED BY <2>2 DEF Table
<1>4. \A u \in SUBSET t : u # t => below[u] = g[u]
  <2> SUFFICES ASSUME NEW u \in SUBSET t, u # t PROVE below[u] = g[u]
    OBVIOUS
  <2> DEFINE h == Table(f, u)
             p == Pick(u)
  <2>1. h[u] = IF u = {} THEN 0 ELSE f[p] + h[u \ {p}]
    BY <1>3 DEF Tabulates
  <2>2. CASE u # {}
    <3>1. p \in u
      BY <2>2 DEF Pick
    <3>2. u \ {p} \in SUBSET t /\ u \ {p} # t
      BY <3>1
    <3>3. IsFiniteSet(u)
      BY FS_Subset
    <3>4. h[u \ {p}] = below[u \ {p}]
      <4> HIDE DEF h
      <4>1. Tabulates(h, f, u) /\ Tabulates(Table(f, u \ {p}), f, u \ {p})
        BY <1>3, <3>2 DEF h
      <4> QED BY <4>1, <3>2, <3>3, TablesAgree
    <3> QED BY <2>1, <2>2, <3>4
  <2>3. CASE u = {}
    BY <2>1, <2>3
  <2> QED BY <2>2, <2>3
<1>5. Tabulates(g, f, t)
  <2>1. \A s \in SUBSET t : s # {} => s \ {Pick(s)} \in SUBSET t /\ s \ {Pick(s)} # t
    BY DEF Pick
  <2>2. \A s \in SUBSET t : s # {} => below[s \ {Pick(s)}] = g[s \ {Pick(s)}]
    <3> HIDE DEF g, below
    <3> QED BY <1>4, <2>1
  <2>3. g = [s \in SUBSET t |-> IF s = {} THEN 0 ELSE f[Pick(s)] + g[s \ {Pick(s)}]]
    <3> HIDE DEF below
    <3>1. \A s \in SUBSET t : g[s] = IF s = {} THEN 0 ELSE f[Pick(s)] + g[s \ {Pick(s)}]
      BY <2>2
    <3> QED BY <3>1
  <2> QED BY <2>3 DEF Tabulates
<1> QED BY <1>2, <1>5

-----------------------------------------------------------------------------
(* The laws.                                                               *)

LEMMA SumUnfolds ==
    ASSUME NEW f, NEW S, IsFiniteSet(S)
    PROVE  SumFunctionOnSet(f, S) =
               IF S = {} THEN 0 ELSE f[Pick(S)] + SumFunctionOnSet(f, S \ {Pick(S)})
<1>1. \A T : SumFunctionOnSet(f, T) = Table(f, T)[T]
  BY DEF SumFunctionOnSet, FoldFunctionOnSet, MapThenFoldSet, Table, Tabulates, Pick
<1> DEFINE p == Pick(S)
           g == Table(f, S)
<1>2. Tabulates(g, f, S)
  BY TableExists
<1>3. g[S] = IF S = {} THEN 0 ELSE f[p] + g[S \ {p}]
  BY <1>2 DEF Tabulates
<1>4. g[S \ {p}] = Table(f, S \ {p})[S \ {p}]
  <2>1. IsFiniteSet(S \ {p})
    BY FS_RemoveElement
  <2>2. Tabulates(Table(f, S \ {p}), f, S \ {p})
    BY <2>1, TableExists
  <2> HIDE DEF g, p
  <2> QED BY <1>2, <2>2, TablesAgree
<1> HIDE DEF g
<1> QED BY <1>1, <1>3, <1>4 DEF g

LEMMA SumOverEmpty == ASSUME NEW f PROVE SumFunctionOnSet(f, {}) = 0
BY FS_EmptySet, SumUnfolds

LEMMA SumTyped ==
    ASSUME NEW S, IsFiniteSet(S), NEW f, \A x \in S : f[x] \in Int
    PROVE  SumFunctionOnSet(f, S) \in Int
<1> DEFINE Bad == {s \in SUBSET S : SumFunctionOnSet(f, s) \notin Int}
<1> SUFFICES ASSUME Bad # {} PROVE FALSE
  OBVIOUS
<1>1. PICK s \in Bad : \A t \in Bad : t \subseteq s => t = s
  <2>1. Bad \in SUBSET (SUBSET S)
    OBVIOUS
  <2> HIDE DEF Bad
  <2> QED BY <2>1, SmallestSet
<1>2. IsFiniteSet(s)
  BY FS_Subset
<1>3. SumFunctionOnSet(f, s) = IF s = {} THEN 0 ELSE f[Pick(s)] + SumFunctionOnSet(f, s \ {Pick(s)})
  BY <1>2, SumUnfolds
<1>4. ASSUME s # {} PROVE Pick(s) \in s /\ SumFunctionOnSet(f, s \ {Pick(s)}) \in Int
  <2>1. Pick(s) \in s
    BY <1>4 DEF Pick
  <2>2. s \ {Pick(s)} \notin Bad
    BY <1>1, <2>1
  <2> QED BY <2>1, <2>2
<1> QED BY <1>3, <1>4

\* Any member may be taken out, not only the one the fold would pick.
LEMMA SumTakesOut ==
    ASSUME NEW S, IsFiniteSet(S), NEW f, \A x \in S : f[x] \in Int, NEW m \in S
    PROVE  SumFunctionOnSet(f, S) = f[m] + SumFunctionOnSet(f, S \ {m})
<1> DEFINE Total(s) == SumFunctionOnSet(f, s)
           Bad == {s \in SUBSET S : \E x \in s : Total(s) # f[x] + Total(s \ {x})}
<1> HIDE DEF Total
<1> SUFFICES ASSUME Bad # {} PROVE FALSE
  BY DEF Total
<1>1. PICK s \in Bad : \A t \in Bad : t \subseteq s => t = s
  <2>1. Bad \in SUBSET (SUBSET S)
    OBVIOUS
  <2> HIDE DEF Bad
  <2> QED BY <2>1, SmallestSet
<1>2. PICK x \in s : Total(s) # f[x] + Total(s \ {x})
  OBVIOUS
<1> DEFINE p == Pick(s)
<1>3. p \in s
  BY DEF Pick
<1>4. Total(s) = f[p] + Total(s \ {p})
  <2>1. IsFiniteSet(s)
    BY FS_Subset
  <2> QED BY <2>1, SumUnfolds DEF Total
<1>5. \A t \in SUBSET S : Total(t) \in Int
  <2> SUFFICES ASSUME NEW t \in SUBSET S PROVE Total(t) \in Int
    OBVIOUS
  <2>1. IsFiniteSet(t)
    BY FS_Subset
  <2>2. \A y \in t : f[y] \in Int
    OBVIOUS
  <2> QED BY <2>1, <2>2, SumTyped DEF Total
<1> HIDE DEF p
<1>6. s \ {p} \notin Bad /\ s \ {x} \notin Bad
  BY <1>1, <1>3
<1>7. x # p
  BY <1>2, <1>4
<1>8. Total(s \ {p}) = f[x] + Total((s \ {p}) \ {x})
  BY <1>6, <1>7
<1>9. Total(s \ {x}) = f[p] + Total((s \ {x}) \ {p})
  BY <1>3, <1>6, <1>7
<1>10. (s \ {x}) \ {p} = (s \ {p}) \ {x}
  OBVIOUS
<1>11. Total(s) = f[x] + Total(s \ {x})
  <2> DEFINE rest == Total((s \ {p}) \ {x})
  <2>1. f[x] \in Int /\ f[p] \in Int
    BY <1>3
  <2>2. rest \in Int
    BY <1>5
  <2>3. Total(s \ {p}) = f[x] + rest
    BY <1>8
  <2>4. Total(s \ {x}) = f[p] + rest
    BY <1>9, <1>10
  <2> HIDE DEF rest
  <2>5. Total(s) = f[p] + (f[x] + rest)
    BY <1>4, <2>3
  <2>6. f[p] + (f[x] + rest) = f[x] + (f[p] + rest)
    BY <2>1, <2>2
  <2> QED BY <2>4, <2>5, <2>6
<1> QED BY <1>2, <1>11

LEMMA SumInserts ==
    ASSUME NEW S, IsFiniteSet(S), NEW m, m \notin S, NEW f, \A x \in S \cup {m} : f[x] \in Int
    PROVE  SumFunctionOnSet(f, S \cup {m}) = f[m] + SumFunctionOnSet(f, S)
<1>1. IsFiniteSet(S \cup {m})
  BY FS_AddElement
<1>2. (S \cup {m}) \ {m} = S
  OBVIOUS
<1> QED BY <1>1, <1>2, SumTakesOut

\* Two summands that agree on the set have the same sum over it, and a smaller
\* one has no larger sum.
LEMMA SumMonotone ==
    ASSUME NEW S, IsFiniteSet(S), NEW f, NEW g,
           \A x \in S : f[x] \in Int /\ g[x] \in Int /\ f[x] <= g[x]
    PROVE  SumFunctionOnSet(f, S) <= SumFunctionOnSet(g, S)
<1> DEFINE F(s) == SumFunctionOnSet(f, s)
           G(s) == SumFunctionOnSet(g, s)
           Bad == {s \in SUBSET S : ~(F(s) <= G(s))}
<1> HIDE DEF F, G
<1> SUFFICES ASSUME Bad # {} PROVE FALSE
  BY DEF F, G
<1>1. PICK s \in Bad : \A t \in Bad : t \subseteq s => t = s
  <2>1. Bad \in SUBSET (SUBSET S)
    OBVIOUS
  <2> HIDE DEF Bad
  <2> QED BY <2>1, SmallestSet
<1>2. IsFiniteSet(s) /\ s \in SUBSET S
  BY FS_Subset
<1>3. s # {}
  <2>1. F({}) = 0 /\ G({}) = 0
    BY SumOverEmpty DEF F, G
  <2>2. ~(F(s) <= G(s))
    OBVIOUS
  <2> QED BY <2>1, <2>2
<1>4. PICK m \in s : TRUE
  BY <1>3
<1> DEFINE r == s \ {m}
<1>5. IsFiniteSet(r) /\ r \in SUBSET S
  BY <1>2, FS_Subset
<1>6. F(r) <= G(r)
  BY <1>1, <1>4, <1>5
<1>7. F(s) = f[m] + F(r) /\ G(s) = g[m] + G(r)
  BY <1>2, <1>4, SumTakesOut DEF F, G
<1>8. F(r) \in Int /\ G(r) \in Int
  BY <1>5, SumTyped DEF F, G
<1>9. f[m] \in Int /\ g[m] \in Int /\ f[m] <= g[m]
  BY <1>2, <1>4
<1> HIDE DEF r
<1>10. F(s) <= G(s)
  BY <1>6, <1>7, <1>8, <1>9
<1> QED BY <1>10

LEMMA SumSame ==
    ASSUME NEW S, IsFiniteSet(S), NEW f, NEW g,
           \A x \in S : f[x] \in Int /\ g[x] = f[x]
    PROVE  SumFunctionOnSet(g, S) = SumFunctionOnSet(f, S)
<1>1. /\ SumFunctionOnSet(f, S) <= SumFunctionOnSet(g, S)
      /\ SumFunctionOnSet(g, S) <= SumFunctionOnSet(f, S)
  BY SumMonotone
<1>2. SumFunctionOnSet(f, S) \in Int /\ SumFunctionOnSet(g, S) \in Int
  BY SumTyped
<1> QED BY <1>1, <1>2

LEMMA SumNatural ==
    ASSUME NEW S, IsFiniteSet(S), NEW f, \A x \in S : f[x] \in Nat
    PROVE  SumFunctionOnSet(f, S) \in Nat
<1> DEFINE Bad == {s \in SUBSET S : SumFunctionOnSet(f, s) \notin Nat}
<1> SUFFICES ASSUME Bad # {} PROVE FALSE
  OBVIOUS
<1>1. PICK s \in Bad : \A t \in Bad : t \subseteq s => t = s
  <2>1. Bad \in SUBSET (SUBSET S)
    OBVIOUS
  <2> HIDE DEF Bad
  <2> QED BY <2>1, SmallestSet
<1>2. IsFiniteSet(s)
  BY FS_Subset
<1>3. SumFunctionOnSet(f, s) = IF s = {} THEN 0 ELSE f[Pick(s)] + SumFunctionOnSet(f, s \ {Pick(s)})
  BY <1>2, SumUnfolds
<1>4. ASSUME s # {} PROVE Pick(s) \in s /\ SumFunctionOnSet(f, s \ {Pick(s)}) \in Nat
  <2>1. Pick(s) \in s
    BY <1>4 DEF Pick
  <2>2. s \ {Pick(s)} \notin Bad
    BY <1>1, <2>1
  <2> QED BY <2>1, <2>2
<1> QED BY <1>3, <1>4

LEMMA SumOfZeros ==
    ASSUME NEW S, IsFiniteSet(S), NEW f, \A x \in S : f[x] = 0
    PROVE  SumFunctionOnSet(f, S) = 0
<1> DEFINE Bad == {s \in SUBSET S : SumFunctionOnSet(f, s) # 0}
<1> SUFFICES ASSUME Bad # {} PROVE FALSE
  OBVIOUS
<1>1. PICK s \in Bad : \A t \in Bad : t \subseteq s => t = s
  <2>1. Bad \in SUBSET (SUBSET S)
    OBVIOUS
  <2> HIDE DEF Bad
  <2> QED BY <2>1, SmallestSet
<1>2. IsFiniteSet(s)
  BY FS_Subset
<1>3. SumFunctionOnSet(f, s) = IF s = {} THEN 0 ELSE f[Pick(s)] + SumFunctionOnSet(f, s \ {Pick(s)})
  BY <1>2, SumUnfolds
<1>4. ASSUME s # {} PROVE f[Pick(s)] = 0 /\ SumFunctionOnSet(f, s \ {Pick(s)}) = 0
  <2>1. Pick(s) \in s
    BY <1>4 DEF Pick
  <2>2. s \ {Pick(s)} \notin Bad
    BY <1>1, <2>1
  <2> QED BY <2>1, <2>2
<1> QED BY <1>3, <1>4

\* Rewriting one summand moves the sum by the difference.
LEMMA SumMoves ==
    ASSUME NEW S, IsFiniteSet(S), NEW f, NEW g, NEW m \in S,
           \A x \in S : f[x] \in Int /\ g[x] \in Int,
           \A x \in S \ {m} : g[x] = f[x]
    PROVE  SumFunctionOnSet(g, S) = SumFunctionOnSet(f, S) + (g[m] - f[m])
<1> DEFINE F == SumFunctionOnSet(f, S)
           G == SumFunctionOnSet(g, S)
           r == SumFunctionOnSet(f, S \ {m})
<1>1. IsFiniteSet(S \ {m})
  BY FS_RemoveElement
<1>2. SumFunctionOnSet(g, S \ {m}) = r
  BY <1>1, SumSame
<1>3. F = f[m] + r /\ G = g[m] + SumFunctionOnSet(g, S \ {m})
  BY SumTakesOut
<1>4. r \in Int
  BY <1>1, SumTyped
<1> HIDE DEF F, G, r
<1>5. G = F + (g[m] - f[m])
  BY <1>2, <1>3, <1>4
<1> QED BY <1>5 DEF F, G

\* The sum of a sum.
LEMMA SumAdds ==
    ASSUME NEW S, IsFiniteSet(S), NEW f, NEW g, NEW h,
           \A x \in S : f[x] \in Int /\ g[x] \in Int /\ h[x] = f[x] + g[x]
    PROVE  SumFunctionOnSet(h, S) = SumFunctionOnSet(f, S) + SumFunctionOnSet(g, S)
<1> DEFINE F(s) == SumFunctionOnSet(f, s)
           G(s) == SumFunctionOnSet(g, s)
           H(s) == SumFunctionOnSet(h, s)
           Bad == {s \in SUBSET S : H(s) # F(s) + G(s)}
<1> HIDE DEF F, G, H
<1> SUFFICES ASSUME Bad # {} PROVE FALSE
  BY DEF F, G, H
<1>1. PICK s \in Bad : \A t \in Bad : t \subseteq s => t = s
  <2>1. Bad \in SUBSET (SUBSET S)
    OBVIOUS
  <2> HIDE DEF Bad
  <2> QED BY <2>1, SmallestSet
<1>2. IsFiniteSet(s) /\ s \in SUBSET S
  BY FS_Subset
<1>3. s # {}
  <2>1. F({}) = 0 /\ G({}) = 0 /\ H({}) = 0
    BY SumOverEmpty DEF F, G, H
  <2>2. H({}) = F({}) + G({})
    BY <2>1
  <2>3. {} \notin Bad
    BY <2>2
  <2> QED BY <2>3
<1>4. PICK m \in s : TRUE
  BY <1>3
<1> DEFINE r == s \ {m}
<1>5. IsFiniteSet(r) /\ r \in SUBSET S
  BY <1>2, FS_Subset
<1>6. H(r) = F(r) + G(r)
  BY <1>1, <1>4, <1>5
<1>7. F(s) = f[m] + F(r) /\ G(s) = g[m] + G(r) /\ H(s) = h[m] + H(r)
  <2>1. \A x \in s : f[x] \in Int /\ g[x] \in Int /\ h[x] \in Int
    BY <1>2
  <2> QED BY <1>2, <1>4, <2>1, SumTakesOut DEF F, G, H
<1>8. F(r) \in Int /\ G(r) \in Int
  BY <1>5, SumTyped DEF F, G
<1>9. f[m] \in Int /\ g[m] \in Int /\ h[m] = f[m] + g[m]
  BY <1>2, <1>4
<1> HIDE DEF r
<1>10. H(s) = F(s) + G(s)
  BY <1>6, <1>7, <1>8, <1>9
<1> QED BY <1>10

\* The sum over two disjoint sets.
LEMMA SumJoins ==
    ASSUME NEW S, IsFiniteSet(S), NEW T, IsFiniteSet(T), S \cap T = {}, NEW f,
           \A x \in S \cup T : f[x] \in Int
    PROVE  SumFunctionOnSet(f, S \cup T) = SumFunctionOnSet(f, S) + SumFunctionOnSet(f, T)
<1> DEFINE F(s) == SumFunctionOnSet(f, s)
           Bad == {t \in SUBSET T : F(S \cup t) # F(S) + F(t)}
<1> HIDE DEF F
<1> SUFFICES ASSUME Bad # {} PROVE FALSE
  BY DEF F
<1>1. PICK t \in Bad : \A u \in Bad : u \subseteq t => u = t
  <2>1. Bad \in SUBSET (SUBSET T)
    OBVIOUS
  <2> HIDE DEF Bad
  <2> QED BY <2>1, SmallestSet
<1>2. F({}) = 0 /\ F(S) \in Int
  BY SumOverEmpty, SumTyped DEF F
<1>3. t # {}
  <2>1. F(S \cup {}) = F(S) + F({})
    <3>1. S \cup {} = S
      OBVIOUS
    <3> QED BY <1>2, <3>1
  <2> QED BY <2>1
<1>4. PICK m \in t : TRUE
  BY <1>3
<1> DEFINE r == t \ {m}
<1>5. /\ IsFiniteSet(t) /\ t \in SUBSET T /\ IsFiniteSet(r) /\ r \in SUBSET T
      /\ IsFiniteSet(S \cup t) /\ m \notin S
  BY FS_Subset, FS_Union
<1>6. F(S \cup r) = F(S) + F(r)
  BY <1>1, <1>4, <1>5
<1>7. F(t) = f[m] + F(r)
  BY <1>4, <1>5, SumTakesOut DEF F
<1>8. F(S \cup t) = f[m] + F(S \cup r)
  <2>1. (S \cup t) \ {m} = S \cup r /\ m \in S \cup t /\ \A x \in S \cup t : f[x] \in Int
    BY <1>4, <1>5
  <2> HIDE DEF r
  <2> QED BY <1>5, <2>1, SumTakesOut DEF F
<1>9. F(r) \in Int
  BY <1>5, SumTyped DEF F
<1>10. f[m] \in Int
  BY <1>4, <1>5
<1> HIDE DEF r
<1>11. F(S \cup t) = F(S) + F(t)
  BY <1>2, <1>6, <1>7, <1>8, <1>9, <1>10
<1> QED BY <1>11

\* Members that add nothing may be left out.
LEMMA SumSkips ==
    ASSUME NEW T, IsFiniteSet(T), NEW S \in SUBSET T, NEW f,
           \A x \in S : f[x] \in Int, \A x \in T \ S : f[x] = 0
    PROVE  SumFunctionOnSet(f, T) = SumFunctionOnSet(f, S)
<1>1. IsFiniteSet(S) /\ IsFiniteSet(T \ S)
  BY FS_Subset
<1>2. S \cup (T \ S) = T /\ S \cap (T \ S) = {} /\ \A x \in S \cup (T \ S) : f[x] \in Int
  OBVIOUS
<1>3. SumFunctionOnSet(f, T) = SumFunctionOnSet(f, S) + SumFunctionOnSet(f, T \ S)
  BY <1>1, <1>2, SumJoins
<1>4. SumFunctionOnSet(f, T \ S) = 0 /\ SumFunctionOnSet(f, S) \in Int
  BY <1>1, SumOfZeros, SumTyped
<1> QED BY <1>3, <1>4

\* A factor common to all summands.
LEMMA SumScales ==
    ASSUME NEW S, IsFiniteSet(S), NEW k \in Int, NEW f, NEW g,
           \A x \in S : f[x] \in Int /\ g[x] = k * f[x]
    PROVE  SumFunctionOnSet(g, S) = k * SumFunctionOnSet(f, S)
<1> DEFINE F(s) == SumFunctionOnSet(f, s)
           G(s) == SumFunctionOnSet(g, s)
           Bad == {s \in SUBSET S : G(s) # k * F(s)}
<1> HIDE DEF F, G
<1> SUFFICES ASSUME Bad # {} PROVE FALSE
  BY DEF F, G
<1>1. PICK s \in Bad : \A t \in Bad : t \subseteq s => t = s
  <2>1. Bad \in SUBSET (SUBSET S)
    OBVIOUS
  <2> HIDE DEF Bad
  <2> QED BY <2>1, SmallestSet
<1>2. IsFiniteSet(s) /\ s \in SUBSET S
  BY FS_Subset
<1>3. s # {}
  <2>1. F({}) = 0 /\ G({}) = 0 /\ k * 0 = 0
    BY SumOverEmpty DEF F, G
  <2>2. G({}) = k * F({})
    BY <2>1
  <2>3. {} \notin Bad
    BY <2>2
  <2> QED BY <2>3
<1>4. PICK m \in s : TRUE
  BY <1>3
<1> DEFINE r == s \ {m}
<1>5. IsFiniteSet(r) /\ r \in SUBSET S
  BY <1>2, FS_Subset
<1>6. G(r) = k * F(r)
  BY <1>1, <1>4, <1>5
<1>7. F(s) = f[m] + F(r) /\ G(s) = g[m] + G(r)
  <2>1. \A x \in s : f[x] \in Int /\ g[x] \in Int
    BY <1>2
  <2> QED BY <1>2, <1>4, <2>1, SumTakesOut DEF F, G
<1>8. F(r) \in Int
  BY <1>5, SumTyped DEF F
<1>9. f[m] \in Int /\ g[m] = k * f[m]
  BY <1>2, <1>4
<1> HIDE DEF r
<1>10. \A x, y \in Int : k * (x + y) = k * x + k * y
  OBVIOUS
<1>11. G(s) = k * F(s)
  BY <1>6, <1>7, <1>8, <1>9, <1>10
<1> QED BY <1>11

\* A double sum, by rows and by columns.
LEMMA SumsSwap ==
    ASSUME NEW S, IsFiniteSet(S), NEW T, IsFiniteSet(T), NEW f,
           \A x \in S, y \in T : f[x][y] \in Int
    PROVE  SumFunctionOnSet([x \in S |-> SumFunctionOnSet(f[x], T)], S)
             = SumFunctionOnSet([y \in T |-> SumFunctionOnSet([x \in S |-> f[x][y]], S)], T)
<1> DEFINE Row == [x \in S |-> SumFunctionOnSet(f[x], T)]
           Col(y) == [x \in S |-> f[x][y]]
           Cols(s) == [y \in T |-> SumFunctionOnSet(Col(y), s)]
           Bad == {s \in SUBSET S : SumFunctionOnSet(Row, s) # SumFunctionOnSet(Cols(s), T)}
<1>1. S \notin Bad => SumFunctionOnSet(Row, S) = SumFunctionOnSet(Cols(S), T)
  OBVIOUS
<1>2. \A x \in S : Row[x] = SumFunctionOnSet(f[x], T) /\ Row[x] \in Int
  BY SumTyped
<1>3. \A y \in T, x \in S : Col(y)[x] = f[x][y] /\ Col(y)[x] \in Int
  OBVIOUS
<1>4. \A s \in SUBSET S, y \in T : Cols(s)[y] = SumFunctionOnSet(Col(y), s)
  OBVIOUS
<1>5. \A s \in SUBSET S : IsFiniteSet(s) /\ IsFiniteSet(T)
  BY FS_Subset
<1> HIDE DEF Row, Col, Cols
<1>6. Bad = {}
  <2> SUFFICES ASSUME Bad # {} PROVE FALSE
    OBVIOUS
  <2>1. PICK s \in Bad : \A t \in Bad : t \subseteq s => t = s
    <3>1. Bad \in SUBSET (SUBSET S)
      OBVIOUS
    <3> HIDE DEF Bad
    <3> QED BY <3>1, SmallestSet
  <2>2. s \in SUBSET S /\ SumFunctionOnSet(Row, s) # SumFunctionOnSet(Cols(s), T)
    BY <2>1
  <2>3. CASE s = {}
    <3>1. \A y \in T : Cols(s)[y] = 0
      BY <1>4, <2>2, <2>3, SumOverEmpty
    <3>2. SumFunctionOnSet(Cols(s), T) = 0
      BY <3>1, SumOfZeros
    <3> QED BY <2>2, <2>3, <3>2, SumOverEmpty
  <2>4. CASE s # {}
    <3>1. PICK m : m \in s
      BY <2>4
    <3> DEFINE t == s \ {m}
    <3>2. t \in SUBSET S /\ m \in S /\ IsFiniteSet(s) /\ IsFiniteSet(t)
      BY <1>5, <2>2, <3>1
    <3>3. SumFunctionOnSet(Row, t) = SumFunctionOnSet(Cols(t), T)
      <4>1. t # s /\ t \subseteq s
        BY <3>1
      <4>2. t \notin Bad
        BY <2>1, <4>1
      <4> QED BY <3>2, <4>2
    <3> HIDE DEF t
    <3>4. SumFunctionOnSet(Row, s) = Row[m] + SumFunctionOnSet(Row, t)
      BY <1>2, <2>2, <3>1, <3>2, SumTakesOut DEF t
    <3>5. ASSUME NEW y \in T
          PROVE  /\ f[m][y] \in Int /\ Cols(t)[y] \in Int
                 /\ Cols(s)[y] = f[m][y] + Cols(t)[y]
      <4>1. SumFunctionOnSet(Col(y), s) = Col(y)[m] + SumFunctionOnSet(Col(y), t)
        BY <1>3, <2>2, <3>1, <3>2, SumTakesOut DEF t
      <4>2. SumFunctionOnSet(Col(y), t) \in Int
        BY <1>3, <3>2, SumTyped
      <4> QED BY <1>3, <1>4, <2>2, <3>2, <4>1, <4>2
    <3>6. SumFunctionOnSet(Cols(s), T) = SumFunctionOnSet(f[m], T) + SumFunctionOnSet(Cols(t), T)
      BY <3>5, SumAdds
    <3>7. SumFunctionOnSet(Row, t) \in Int
      BY <1>2, <3>2, SumTyped
    <3> QED BY <1>2, <2>2, <3>2, <3>3, <3>4, <3>6, <3>7
  <2> QED BY <2>3, <2>4
<1> QED BY <1>1, <1>6 DEF Row, Col, Cols

\* Whoever holds a part of each total earns what is paid on the totals, and
\* no more: x before and y after k * paid is distributed.
LEMMA SharesOfTotals ==
    ASSUME NEW U, IsFiniteSet(U), NEW A, IsFiniteSet(A), NEW k \in Int,
           NEW held, NEW owed, NEW ds, NEW db, NEW gains, NEW paid, NEW x, NEW y,
           \A a \in A : /\ ds[a] \in Int /\ db[a] \in Int /\ paid[a] \in Int
                        /\ SumFunctionOnSet(held[a], U) * ds[a]
                             + SumFunctionOnSet(owed[a], U) * db[a] <= k * paid[a],
           \A u \in U, a \in A :
               /\ held[a][u] \in Int /\ owed[a][u] \in Int
               /\ gains[u][a] = held[a][u] * ds[a] + owed[a][u] * db[a],
           \A u \in U : /\ x[u] \in Int /\ y[u] \in Int
                        /\ y[u] <= x[u] + SumFunctionOnSet(gains[u], A)
    PROVE  SumFunctionOnSet(y, U) <= SumFunctionOnSet(x, U) + k * SumFunctionOnSet(paid, A)
<1> DEFINE row == [u \in U |-> SumFunctionOnSet(gains[u], A)]
           col == [a \in A |-> SumFunctionOnSet([u \in U |-> gains[u][a]], U)]
           z == [u \in U |-> x[u] + row[u]]
           scaled == [a \in A |-> k * paid[a]]
<1>0. \A m, n \in Int : m * n \in Int /\ m + n \in Int /\ m * n = n * m
  OBVIOUS
<1>1. ASSUME NEW u \in U, NEW a \in A
      PROVE  /\ held[a][u] * ds[a] \in Int /\ owed[a][u] * db[a] \in Int
             /\ gains[u][a] \in Int
  <2>1. held[a][u] \in Int /\ ds[a] \in Int /\ owed[a][u] \in Int /\ db[a] \in Int
    OBVIOUS
  <2>2. gains[u][a] = held[a][u] * ds[a] + owed[a][u] * db[a]
    OBVIOUS
  <2> QED BY <1>0, <2>1, <2>2
<1>2. \A a \in A : paid[a] \in Int
  OBVIOUS
<1>3. ASSUME NEW u \in U PROVE row[u] = SumFunctionOnSet(gains[u], A) /\ row[u] \in Int
  <2>1. \A a \in A : gains[u][a] \in Int
    BY <1>1
  <2> QED BY <2>1, SumTyped
<1>4. ASSUME NEW u \in U PROVE z[u] = x[u] + row[u] /\ z[u] \in Int /\ y[u] <= z[u]
  <2>1. y[u] <= x[u] + SumFunctionOnSet(gains[u], A) /\ x[u] \in Int /\ y[u] \in Int
    OBVIOUS
  <2>2. z[u] = x[u] + row[u]
    OBVIOUS
  <2> HIDE DEF z, row
  <2> QED BY <1>3, <2>1, <2>2
<1>5. SumFunctionOnSet(row, U) = SumFunctionOnSet(col, A)
  BY <1>1, SumsSwap
<1>6. \A a \in A : col[a] \in Int /\ scaled[a] \in Int /\ col[a] <= scaled[a]
                   /\ scaled[a] = k * paid[a]
  <2> SUFFICES ASSUME NEW a \in A
               PROVE  col[a] \in Int /\ col[a] <= k * paid[a] /\ k * paid[a] \in Int
    OBVIOUS
  <2> DEFINE D == held[a]
             B == owed[a]
             Dd == [u \in U |-> ds[a] * D[u]]
             Bd == [u \in U |-> db[a] * B[u]]
             G == [u \in U |-> gains[u][a]]
  <2>1. ds[a] \in Int /\ db[a] \in Int /\ \A u \in U : D[u] \in Int /\ B[u] \in Int
    OBVIOUS
  <2>2. col[a] = SumFunctionOnSet(G, U)
    OBVIOUS
  <2>3. \A u \in U : Dd[u] = ds[a] * D[u] /\ Dd[u] \in Int /\ Bd[u] = db[a] * B[u] /\ Bd[u] \in Int
    <3> HIDE DEF D, B
    <3> QED BY <1>0, <2>1
  <2>4. \A u \in U : G[u] = Dd[u] + Bd[u]
    <3>1. \A u \in U : G[u] = D[u] * ds[a] + B[u] * db[a]
      OBVIOUS
    <3> HIDE DEF G, D, B
    <3> QED BY <1>0, <2>1, <2>3, <3>1
  <2>5. SumFunctionOnSet(D, U) * ds[a] + SumFunctionOnSet(B, U) * db[a] <= k * paid[a]
    OBVIOUS
  <2> HIDE DEF D, B, Dd, Bd, G
  <2>6. SumFunctionOnSet(G, U) = SumFunctionOnSet(Dd, U) + SumFunctionOnSet(Bd, U)
    BY <2>3, <2>4, SumAdds
  <2>7. /\ SumFunctionOnSet(Dd, U) = ds[a] * SumFunctionOnSet(D, U)
        /\ SumFunctionOnSet(Bd, U) = db[a] * SumFunctionOnSet(B, U)
    BY <2>1, <2>3, SumScales
  <2>8. SumFunctionOnSet(D, U) \in Int /\ SumFunctionOnSet(B, U) \in Int
    BY <2>1, SumTyped
  <2>9. /\ ds[a] * SumFunctionOnSet(D, U) = SumFunctionOnSet(D, U) * ds[a]
        /\ db[a] * SumFunctionOnSet(B, U) = SumFunctionOnSet(B, U) * db[a]
        /\ ds[a] * SumFunctionOnSet(D, U) \in Int /\ db[a] * SumFunctionOnSet(B, U) \in Int
        /\ k * paid[a] \in Int
    BY <1>0, <1>2, <2>1, <2>8
  <2> QED BY <2>2, <2>5, <2>6, <2>7, <2>9
<1> HIDE DEF row, col, z, scaled
<1>7. /\ SumFunctionOnSet(y, U) <= SumFunctionOnSet(z, U)
      /\ SumFunctionOnSet(z, U) = SumFunctionOnSet(x, U) + SumFunctionOnSet(row, U)
  BY <1>3, <1>4, SumMonotone, SumAdds
<1>8. /\ SumFunctionOnSet(col, A) <= SumFunctionOnSet(scaled, A)
      /\ SumFunctionOnSet(scaled, A) = k * SumFunctionOnSet(paid, A)
  BY <1>2, <1>6, SumMonotone, SumScales
<1>9. /\ SumFunctionOnSet(x, U) \in Int /\ SumFunctionOnSet(y, U) \in Int
      /\ SumFunctionOnSet(row, U) \in Int /\ SumFunctionOnSet(z, U) \in Int
      /\ SumFunctionOnSet(scaled, A) \in Int /\ SumFunctionOnSet(paid, A) \in Int
  BY <1>2, <1>3, <1>4, <1>6, SumTyped
<1> QED BY <1>5, <1>7, <1>8, <1>9

\* What w takes out of the parts p, which grow by no more than g to q, is
\* taken out of the sums as well.
TakesOut(A, k, p, q, w, g) ==
    \A a \in A : /\ p[a] \in Int /\ q[a] \in Int /\ w[a] \in Int /\ g[a] \in Int
                 /\ q[a] + k * w[a] <= p[a] + g[a]

LEMMA PartsTakenOut ==
    ASSUME NEW A, IsFiniteSet(A), NEW k \in Int, NEW p, NEW q, NEW w, NEW g,
           TakesOut(A, k, p, q, w, g)
    PROVE  /\ SumFunctionOnSet(p, A) \in Int /\ SumFunctionOnSet(q, A) \in Int
           /\ SumFunctionOnSet(w, A) \in Int /\ SumFunctionOnSet(g, A) \in Int
           /\ SumFunctionOnSet(q, A) + k * SumFunctionOnSet(w, A)
                <= SumFunctionOnSet(p, A) + SumFunctionOnSet(g, A)
<1> DEFINE kw == [a \in A |-> k * w[a]]
           l == [a \in A |-> q[a] + kw[a]]
           r == [a \in A |-> p[a] + g[a]]
<1>1. \A a \in A : /\ p[a] \in Int /\ q[a] \in Int /\ w[a] \in Int /\ g[a] \in Int
                   /\ kw[a] = k * w[a] /\ kw[a] \in Int
                   /\ l[a] = q[a] + kw[a] /\ l[a] \in Int
                   /\ r[a] = p[a] + g[a] /\ r[a] \in Int /\ l[a] <= r[a]
  <2> SUFFICES ASSUME NEW a \in A
               PROVE  /\ p[a] \in Int /\ q[a] \in Int /\ w[a] \in Int /\ g[a] \in Int
                      /\ k * w[a] \in Int /\ q[a] + k * w[a] <= p[a] + g[a]
                      /\ q[a] + k * w[a] \in Int /\ p[a] + g[a] \in Int
    OBVIOUS
  <2>1. /\ p[a] \in Int /\ q[a] \in Int /\ w[a] \in Int /\ g[a] \in Int
        /\ q[a] + k * w[a] <= p[a] + g[a]
    BY DEF TakesOut
  <2>2. \A x, y \in Int : x * y \in Int
    OBVIOUS
  <2> QED BY <2>1, <2>2
<1> HIDE DEF kw, l, r
<1>2. SumFunctionOnSet(l, A) <= SumFunctionOnSet(r, A)
  BY <1>1, SumMonotone
<1>3. /\ SumFunctionOnSet(l, A) = SumFunctionOnSet(q, A) + SumFunctionOnSet(kw, A)
      /\ SumFunctionOnSet(r, A) = SumFunctionOnSet(p, A) + SumFunctionOnSet(g, A)
  BY <1>1, SumAdds
<1>4. SumFunctionOnSet(kw, A) = k * SumFunctionOnSet(w, A)
  BY <1>1, SumScales
<1> QED BY <1>1, <1>2, <1>3, <1>4, SumTyped

-----------------------------------------------------------------------------
(* Folds in ascending order: FoldLeft, and MapThenFoldSet with Max.        *)

Top(s) == CHOOSE x \in s : \A y \in s : x >= y

LEMMA SubsetFinite ==
    ASSUME NEW S \in FiniteSubsetsOf(Int), NEW T \in SUBSET S
    PROVE  T \in FiniteSubsetsOf(Int) /\ IsFiniteSet(T)
BY FS_Subset DEF FiniteSubsetsOf

LEMMA TopIsGreatest ==
    ASSUME NEW S \in FiniteSubsetsOf(Int), S # {}
    PROVE  Top(S) \in S /\ \A y \in S : y <= Top(S)
<1>0. S \subseteq Int
  BY DEF FiniteSubsetsOf
<1> DEFINE Greatest(s) == \E x \in s : \A y \in s : x >= y
           Bad == {s \in SUBSET S : s # {} /\ ~Greatest(s)}
<1> SUFFICES Bad = {}
  BY DEF Top
<1> SUFFICES ASSUME Bad # {} PROVE FALSE
  OBVIOUS
<1>1. PICK s \in Bad : \A t \in Bad : t \subseteq s => t = s
  <2>1. Bad \in SUBSET (SUBSET S)
    OBVIOUS
  <2> HIDE DEF Bad
  <2> QED BY <2>1, SubsetFinite, SmallestSet
<1>2. PICK m \in s : TRUE
  OBVIOUS
<1>3. s \ {m} \notin Bad
  BY <1>1
<1>4. CASE s = {m}
  BY <1>0, <1>4
<1>5. CASE s \ {m} # {}
  <2>1. PICK x \in s \ {m} : \A y \in s \ {m} : x >= y
    BY <1>3, <1>5
  <2>2. CASE x >= m
    BY <1>0, <2>1, <2>2
  <2>3. CASE m >= x
    BY <1>0, <2>1, <2>3
  <2>4. x \in Int /\ m \in Int
    BY <1>0
  <2> QED BY <2>2, <2>3, <2>4
<1> QED BY <1>4, <1>5

\* The table g folds F over every subset of S, the greatest member last.
FoldsUp(g, F, base, S) ==
    \A s \in SUBSET S : g[s] = IF s = {} THEN base ELSE F[<<g[s \ {Top(s)}], Top(s)>>]

LEMMA FoldsAgree ==
    ASSUME NEW A \in FiniteSubsetsOf(Int), NEW B, NEW F, NEW base, NEW g, NEW h,
           FoldsUp(g, F, base, A), FoldsUp(h, F, base, B), NEW s \in SUBSET A, s \subseteq B
    PROVE  g[s] = h[s]
<1>0. IsFiniteSet(A)
  BY DEF FiniteSubsetsOf
<1> DEFINE Differ == {t \in SUBSET A : t \subseteq B /\ g[t] # h[t]}
<1> SUFFICES ASSUME Differ # {} PROVE FALSE
  OBVIOUS
<1>1. PICK t \in Differ : \A u \in Differ : u \subseteq t => u = t
  <2>1. Differ \in SUBSET (SUBSET A)
    OBVIOUS
  <2> HIDE DEF Differ
  <2> QED BY <1>0, <2>1, SmallestSet
<1> DEFINE p == Top(t)
<1>2. /\ g[t] = IF t = {} THEN base ELSE F[<<g[t \ {p}], p>>]
      /\ h[t] = IF t = {} THEN base ELSE F[<<h[t \ {p}], p>>]
  BY DEF FoldsUp
<1>3. CASE t # {}
  <2>1. p \in t
    BY <1>3, SubsetFinite, TopIsGreatest
  <2> HIDE DEF p
  <2>2. t \ {p} \notin Differ
    BY <1>1, <2>1
  <2>3. g[t \ {p}] = h[t \ {p}]
    BY <2>2
  <2> QED BY <1>2, <1>3, <2>3
<1>4. CASE t = {}
  BY <1>2, <1>4
<1> QED BY <1>3, <1>4

LEMMA FoldExists ==
    ASSUME NEW S \in FiniteSubsetsOf(Int), NEW V, NEW base \in V, NEW F \in [V \X S -> V]
    PROVE  \E g \in [SUBSET S -> V] : FoldsUp(g, F, base, S)
<1>0. IsFiniteSet(S)
  BY DEF FiniteSubsetsOf
<1> DEFINE Is(g, t) == g \in [SUBSET t -> V] /\ FoldsUp(g, F, base, t)
           Fold(t) == CHOOSE g : Is(g, t)
           Missing == {t \in SUBSET S : ~ \E g : Is(g, t)}
<1>1. SUFFICES ASSUME Missing # {} PROVE FALSE
  BY DEF Missing
<1>2. PICK t \in Missing : \A u \in Missing : u \subseteq t => u = t
  <2>1. Missing \in SUBSET (SUBSET S)
    OBVIOUS
  <2> HIDE DEF Missing
  <2> QED BY <1>0, <1>1, <2>1, SmallestSet
<1>3. \A u \in SUBSET t : u # t => Is(Fold(u), u)
  <2> SUFFICES ASSUME NEW u \in SUBSET t, u # t PROVE Is(Fold(u), u)
    OBVIOUS
  <2>1. u \notin Missing
    BY <1>2
  <2>2. \E h : Is(h, u)
    BY <2>1
  <2> HIDE DEF Is
  <2> QED BY <2>2
<1>4. \A u \in SUBSET t : u # {} => Top(u) \in u /\ u \ {Top(u)} \in SUBSET t /\ u \ {Top(u)} # t
  <2> TAKE u \in SUBSET t
  <2> HAVE u # {}
  <2>1. u \in FiniteSubsetsOf(Int)
    BY SubsetFinite
  <2>2. Top(u) \in u
    BY <2>1, TopIsGreatest
  <2> QED BY <2>2
<1> DEFINE below == [u \in SUBSET t |-> Fold(u)[u]]
           g == [s \in SUBSET t |-> IF s = {} THEN base ELSE F[<<below[s \ {Top(s)}], Top(s)>>]]
<1>5. \A u \in SUBSET t : u # t => below[u] = g[u] /\ below[u] \in V
  <2> SUFFICES ASSUME NEW u \in SUBSET t, u # t PROVE below[u] = g[u] /\ below[u] \in V
    OBVIOUS
  <2> DEFINE h == Fold(u)
             p == Top(u)
  <2>1. Is(h, u)
    BY <1>3
  <2>2. h[u] = IF u = {} THEN base ELSE F[<<h[u \ {p}], p>>]
    BY <2>1 DEF FoldsUp
  <2>3. h[u] \in V /\ below[u] = h[u]
    BY <2>1
  <2>4. CASE u # {}
    <3>1. p \in u /\ u \ {p} \in SUBSET t /\ u \ {p} # t
      BY <1>4, <2>4
    <3>2. Is(Fold(u \ {p}), u \ {p})
      BY <1>3, <3>1
    <3>3. below[u \ {p}] = Fold(u \ {p})[u \ {p}]
      BY <3>1
    <3>4. h[u \ {p}] = Fold(u \ {p})[u \ {p}]
      <4> DEFINE k == Fold(u \ {p})
      <4>1. FoldsUp(h, F, base, u) /\ FoldsUp(k, F, base, u \ {p})
        BY <2>1, <3>2
      <4>2. u \in FiniteSubsetsOf(Int) /\ u \ {p} \in SUBSET u
        BY SubsetFinite
      <4> HIDE DEF h, k, p
      <4> QED BY <4>1, <4>2, FoldsAgree DEF k
    <3>5. g[u] = F[<<below[u \ {p}], p>>]
      BY <2>4
    <3> QED BY <2>2, <2>3, <2>4, <3>3, <3>4, <3>5
  <2>5. CASE u = {}
    BY <2>2, <2>3, <2>5
  <2> QED BY <2>4, <2>5
<1>6. Is(g, t)
  <2>1. ASSUME NEW s \in SUBSET t
        PROVE  g[s] \in V /\ g[s] = IF s = {} THEN base ELSE F[<<g[s \ {Top(s)}], Top(s)>>]
    <3> DEFINE p == Top(s)
               r == s \ {p}
    <3>1. g[s] = IF s = {} THEN base ELSE F[<<below[r], p>>]
      OBVIOUS
    <3>2. CASE s # {}
      <4>1. p \in S /\ r \in SUBSET t /\ r # t
        BY <1>4, <3>2
      <4>2. below[r] = g[r] /\ below[r] \in V
        BY <1>5, <4>1
      <4> HIDE DEF p, r, g, below
      <4>3. F[<<below[r], p>>] \in V
        BY <4>1, <4>2
      <4>4. g[s] \in V /\ g[s] = F[<<g[r], p>>]
        BY <3>1, <3>2, <4>2, <4>3
      <4> QED BY <3>2, <4>4 DEF p, r
    <3>3. CASE s = {}
      BY <3>1, <3>3
    <3> QED BY <3>2, <3>3
  <2>2. g = [s \in SUBSET t |-> g[s]]
    OBVIOUS
  <2> HIDE DEF g
  <2> QED BY <2>1, <2>2 DEF FoldsUp
<1> QED BY <1>2, <1>6
=============================================================================
