---------------------------- MODULE SumTheorems ----------------------------
(***************************************************************************)
(* Facts about SumFunctionOnSet, the sum of the values F[x] over a finite  *)
(* set of x, for the budgets and pools whose bounds are sums.  The library *)
(* defines the sum by recursion over the subsets of the set; induction     *)
(* over them is done here by looking at a smallest counterexample.         *)
(***************************************************************************)
EXTENDS Functions, FiniteSetTheorems, TLAPS

\* The element the library takes out of a set first.
Pick(s) == CHOOSE x \in s : TRUE

\* g holds the sums of F over the subsets of S.
IsTable(g, F, S) ==
    g = [s \in SUBSET S |-> IF s = {} THEN 0 ELSE F[Pick(s)] + g[s \ {Pick(s)}]]

Table(F, S) == CHOOSE g : IsTable(g, F, S)

\* Some set of a nonempty set C of subsets of a finite set contains no other
\* member of C: the induction principle of this module.
LEMMA SmallestSet ==
    ASSUME NEW S, IsFiniteSet(S), NEW C \in SUBSET (SUBSET S), C # {}
    PROVE  \E s \in C : \A t \in C : t \subseteq s => t = s
<1>1. IsWellFoundedOn(StrictSubsetOrdering(S), SUBSET S)
  BY FS_StrictSubsetOrderingWellFounded, FS_FiniteSubsetsOfFinite
<1>2. PICK s \in C : \A t \in C : ~(<<t, s>> \in StrictSubsetOrdering(S))
  BY <1>1, WFMin
<1> QED BY <1>2 DEF StrictSubsetOrdering

\* The library's definition of a sum.
LEMMA SumByTable ==
    ASSUME NEW F, NEW S
    PROVE  SumFunctionOnSet(F, S) = Table(F, S)[S]
BY DEF SumFunctionOnSet, FoldFunctionOnSet, MapThenFoldSet, Table, IsTable, Pick

\* Taking out the first element leaves a smaller set.
LEMMA PickFacts ==
    ASSUME NEW s, s # {}
    PROVE  Pick(s) \in s /\ s \ {Pick(s)} \subseteq s /\ s \ {Pick(s)} # s
BY DEF Pick

\* What a table holds.
LEMMA TableEntry ==
    ASSUME NEW F, NEW S, NEW g, IsTable(g, F, S), NEW s \in SUBSET S
    PROVE  g[s] = IF s = {} THEN 0 ELSE F[Pick(s)] + g[s \ {Pick(s)}]
BY DEF IsTable

\* Tables agree where both are defined.
LEMMA TablesAgree ==
    ASSUME NEW F, NEW S, NEW T, IsFiniteSet(S), T \subseteq S, NEW g, NEW h,
           IsTable(g, F, S), IsTable(h, F, T)
    PROVE  \A s \in SUBSET T : g[s] = h[s]
<1> DEFINE C == {s \in SUBSET T : g[s] # h[s]}
<1>1. ASSUME C # {} PROVE FALSE
  <2>1. PICK s \in C : \A t \in C : t \subseteq s => t = s
    <3>1. C \in SUBSET (SUBSET S)
      OBVIOUS
    <3> HIDE DEF C
    <3> QED BY <1>1, <3>1, SmallestSet
  <2>e. /\ g[s] = IF s = {} THEN 0 ELSE F[Pick(s)] + g[s \ {Pick(s)}]
        /\ h[s] = IF s = {} THEN 0 ELSE F[Pick(s)] + h[s \ {Pick(s)}]
    BY <2>1, TableEntry
  <2>2. s # {}
    BY <2>1, <2>e
  <2>3. g[s \ {Pick(s)}] = h[s \ {Pick(s)}]
    BY <2>1, <2>2, PickFacts
  <2> QED BY <2>1, <2>e, <2>2, <2>3
<1> QED BY <1>1

\* Every finite set has a table, which the definition therefore chooses.
LEMMA TableExists ==
    ASSUME NEW F, NEW S, IsFiniteSet(S)
    PROVE  IsTable(Table(F, S), F, S)
<1> DEFINE C == {T \in SUBSET S : ~IsTable(Table(F, T), F, T)}
<1>1. ASSUME C # {} PROVE FALSE
  <2>1. PICK T \in C : \A U \in C : U \subseteq T => U = T
    <3>1. C \in SUBSET (SUBSET S)
      OBVIOUS
    <3> HIDE DEF C
    <3> QED BY <1>1, <3>1, SmallestSet
  <2>2. \A U \in SUBSET T : U # T => IsTable(Table(F, U), F, U)
    BY <2>1
  <2>3. \A U \in SUBSET T : IsFiniteSet(U)
    BY <2>1, FS_Subset
  <2> DEFINE g == [s \in SUBSET T |-> IF s = {} THEN 0 ELSE
                      F[Pick(s)] + Table(F, s \ {Pick(s)})[s \ {Pick(s)}]]
  <2>4. ASSUME NEW U \in SUBSET T, U # T PROVE g[U] = Table(F, U)[U]
    <3>1. IsTable(Table(F, U), F, U) /\ IsFiniteSet(U)
      BY <2>2, <2>3, <2>4
    <3>2. CASE U = {}
      BY <3>1, <3>2, TableEntry
    <3>3. CASE U # {}
      <4> DEFINE V == U \ {Pick(U)}
      <4>1. V \subseteq U /\ V # T /\ V \in SUBSET T
        BY <3>3, <2>4, PickFacts
      <4>2. IsTable(Table(F, V), F, V)
        BY <4>1, <2>2
      <4>3. Table(F, U)[V] = Table(F, V)[V]
        <5> HIDE DEF V
        <5> QED BY <3>1, <4>1, <4>2, TablesAgree
      <4>4. Table(F, U)[U] = F[Pick(U)] + Table(F, U)[V]
        BY <3>1, <3>3, TableEntry
      <4> QED BY <3>3, <4>3, <4>4
    <3> QED BY <3>2, <3>3
  <2>5. IsTable(g, F, T)
    <3>1. ASSUME NEW s \in SUBSET T, s # {}
          PROVE  g[s \ {Pick(s)}] = Table(F, s \ {Pick(s)})[s \ {Pick(s)}]
      <4>1. s \ {Pick(s)} \in SUBSET T /\ s \ {Pick(s)} # T
        BY <3>1, PickFacts
      <4> QED BY <2>4, <4>1
    <3> DEFINE h == [s \in SUBSET T |-> IF s = {} THEN 0 ELSE F[Pick(s)] + g[s \ {Pick(s)}]]
    <3>2. \A s \in SUBSET T : g[s] = h[s]
      BY <3>1
    <3>3. g = h
      BY <3>2
    <3> QED BY <3>3 DEF IsTable
  <2>6. IsTable(Table(F, T), F, T)
    <3> HIDE DEF g
    <3> QED BY <2>5 DEF Table
  <2> QED BY <2>1, <2>6
<1> QED BY <1>1

\* The sum over nothing.
LEMMA SumEmpty ==
    ASSUME NEW F
    PROVE  SumFunctionOnSet(F, {}) = 0
<1>1. IsTable(Table(F, {}), F, {})
  BY TableExists, FS_EmptySet
<1> QED BY <1>1, SumByTable, TableEntry

\* The sum over a nonempty set, as the library takes it apart.
LEMMA SumPick ==
    ASSUME NEW F, NEW S, IsFiniteSet(S), S # {}
    PROVE  SumFunctionOnSet(F, S) = F[Pick(S)] + SumFunctionOnSet(F, S \ {Pick(S)})
<1> DEFINE V == S \ {Pick(S)}
<1>1. V \subseteq S /\ IsFiniteSet(V)
  BY PickFacts, FS_Subset
<1>2. IsTable(Table(F, S), F, S) /\ IsTable(Table(F, V), F, V)
  <2> HIDE DEF V
  <2> QED BY <1>1, TableExists
<1>3. Table(F, S)[V] = Table(F, V)[V]
  <2> HIDE DEF V
  <2> QED BY <1>1, <1>2, TablesAgree
<1>4. Table(F, S)[S] = F[Pick(S)] + Table(F, S)[V]
  BY <1>2, TableEntry
<1> QED BY <1>3, <1>4, SumByTable

\* The sum over a set with any of its elements taken out: the order in which the
\* library adds does not matter.
LEMMA SumRemove ==
    ASSUME NEW S, IsFiniteSet(S), NEW F, \A x \in S : F[x] \in Nat
    PROVE  /\ SumFunctionOnSet(F, S) \in Nat
           /\ \A x \in S : SumFunctionOnSet(F, S) = F[x] + SumFunctionOnSet(F, S \ {x})
<1> DEFINE Good(T) == /\ SumFunctionOnSet(F, T) \in Nat
                      /\ \A x \in T : SumFunctionOnSet(F, T) = F[x] + SumFunctionOnSet(F, T \ {x})
           C == {T \in SUBSET S : ~Good(T)}
<1>1. ASSUME C # {} PROVE FALSE
  <2>1. PICK T \in C : \A U \in C : U \subseteq T => U = T
    <3>1. C \in SUBSET (SUBSET S)
      OBVIOUS
    <3> HIDE DEF C
    <3> QED BY <1>1, <3>1, SmallestSet
  <2>2. \A U \in SUBSET T : U # T => Good(U)
    BY <2>1
  <2>3. T # {}
    <3>1. Good({})
      BY SumEmpty
    <3> HIDE DEF Good
    <3> QED BY <2>1, <3>1
  <2>4. IsFiniteSet(T) /\ \A U \in SUBSET T : IsFiniteSet(U)
    BY <2>1, FS_Subset
  <2> DEFINE p == Pick(T)
             V == T \ {p}
  <2>5. SumFunctionOnSet(F, T) = F[p] + SumFunctionOnSet(F, V)
    BY <2>3, <2>4, SumPick
  <2>6. p \in T /\ V \in SUBSET T /\ V # T /\ F[p] \in Nat
    BY <2>1, <2>3, PickFacts
  <2>7. Good(V)
    BY <2>2, <2>6
  <2>8. ASSUME NEW x \in T, x # p
        PROVE  SumFunctionOnSet(F, T) = F[x] + SumFunctionOnSet(F, T \ {x})
    <3> DEFINE W == T \ {x}
               R == V \ {x}
    <3>1. x \in V /\ W \in SUBSET T /\ W # T /\ p \in W /\ F[x] \in Nat
      BY <2>1, <2>6, <2>8
    <3>2. R = W \ {p} /\ R \in SUBSET T /\ R # T
      BY <2>6, <2>8
    <3>3. /\ SumFunctionOnSet(F, V) = F[x] + SumFunctionOnSet(F, R)
          /\ SumFunctionOnSet(F, R) \in Nat
      BY <2>2, <2>7, <3>1, <3>2
    <3>4. SumFunctionOnSet(F, W) = F[p] + SumFunctionOnSet(F, R)
      BY <2>2, <3>1, <3>2
    <3> HIDE DEF W, R
    <3> QED BY <2>5, <2>6, <3>1, <3>3, <3>4 DEF W
  <2>9. Good(T)
    BY <2>5, <2>6, <2>7, <2>8
  <2> QED BY <2>1, <2>9
<1>2. S \notin C
  BY <1>1
<1> QED BY <1>2

\* Sums grow with their terms.
LEMMA SumMonotonic ==
    ASSUME NEW S, IsFiniteSet(S), NEW F, NEW G,
           \A x \in S : F[x] \in Nat /\ G[x] \in Nat /\ F[x] <= G[x]
    PROVE  SumFunctionOnSet(F, S) <= SumFunctionOnSet(G, S)
<1> DEFINE Good(T) == SumFunctionOnSet(F, T) <= SumFunctionOnSet(G, T)
           C == {T \in SUBSET S : ~Good(T)}
<1>1. ASSUME C # {} PROVE FALSE
  <2>1. PICK T \in C : \A U \in C : U \subseteq T => U = T
    <3>1. C \in SUBSET (SUBSET S)
      OBVIOUS
    <3> HIDE DEF C
    <3> QED BY <1>1, <3>1, SmallestSet
  <2>2. T # {}
    <3>1. Good({})
      BY SumEmpty
    <3> HIDE DEF Good
    <3> QED BY <2>1, <3>1
  <2>3. PICK x \in T : TRUE
    BY <2>2
  <2>4. IsFiniteSet(T) /\ IsFiniteSet(T \ {x})
    BY <2>1, FS_Subset
  <2>5. /\ SumFunctionOnSet(F, T) = F[x] + SumFunctionOnSet(F, T \ {x})
        /\ SumFunctionOnSet(G, T) = G[x] + SumFunctionOnSet(G, T \ {x})
        /\ SumFunctionOnSet(F, T \ {x}) \in Nat /\ SumFunctionOnSet(G, T \ {x}) \in Nat
    BY <2>1, <2>3, <2>4, SumRemove
  <2>6. Good(T \ {x})
    BY <2>1, <2>3
  <2> QED BY <2>1, <2>3, <2>5, <2>6
<1> QED BY <1>1

\* A sum depends on its terms only.
LEMMA SumSame ==
    ASSUME NEW S, IsFiniteSet(S), NEW F, NEW G,
           \A x \in S : F[x] \in Nat /\ G[x] = F[x]
    PROVE  SumFunctionOnSet(F, S) = SumFunctionOnSet(G, S)
<1>1. /\ SumFunctionOnSet(F, S) <= SumFunctionOnSet(G, S)
      /\ SumFunctionOnSet(G, S) <= SumFunctionOnSet(F, S)
  BY SumMonotonic
<1>2. SumFunctionOnSet(F, S) \in Nat /\ SumFunctionOnSet(G, S) \in Nat
  BY SumRemove
<1> QED BY <1>1, <1>2

\* A sum of zeros is zero: take out any element.
LEMMA SumZero ==
    ASSUME NEW S, IsFiniteSet(S), NEW F, \A x \in S : F[x] = 0
    PROVE  SumFunctionOnSet(F, S) = 0
<1> DEFINE C == {T \in SUBSET S : SumFunctionOnSet(F, T) # 0}
<1>1. ASSUME C # {} PROVE FALSE
  <2>1. PICK T \in C : \A U \in C : U \subseteq T => U = T
    <3>1. C \in SUBSET (SUBSET S)
      OBVIOUS
    <3> HIDE DEF C
    <3> QED BY <1>1, <3>1, SmallestSet
  <2>2. T \in SUBSET S /\ SumFunctionOnSet(F, T) # 0
    OBVIOUS
  <2>3. IsFiniteSet(T) /\ \A x \in T : F[x] \in Nat
    BY <2>2, FS_Subset
  <2>4. T # {}
    BY <2>2, SumEmpty
  <2>5. PICK x \in T : TRUE
    BY <2>4
  <2>6. SumFunctionOnSet(F, T \ {x}) = 0
    <3>1. T \ {x} \in SUBSET S /\ T \ {x} # T /\ T \ {x} \subseteq T
      BY <2>2
    <3> QED BY <2>1, <3>1
  <2>7. SumFunctionOnSet(F, T) = F[x] + SumFunctionOnSet(F, T \ {x})
    BY <2>3, SumRemove
  <2> QED BY <2>2, <2>6, <2>7
<1>2. S \notin C
  BY <1>1
<1> QED BY <1>2

\* One term changes.
LEMMA SumUpdate ==
    ASSUME NEW S, IsFiniteSet(S), NEW F, NEW G, NEW c \in S,
           \A x \in S : F[x] \in Nat /\ G[x] \in Nat,
           \A x \in S \ {c} : G[x] = F[x]
    PROVE  /\ SumFunctionOnSet(F, S) \in Nat /\ SumFunctionOnSet(G, S) \in Nat
           /\ SumFunctionOnSet(G, S) + F[c] = SumFunctionOnSet(F, S) + G[c]
<1>1. IsFiniteSet(S \ {c})
  BY FS_Subset
<1>2. SumFunctionOnSet(F, S \ {c}) = SumFunctionOnSet(G, S \ {c})
  BY <1>1, SumSame
<1>3. /\ SumFunctionOnSet(F, S) = F[c] + SumFunctionOnSet(F, S \ {c})
      /\ SumFunctionOnSet(G, S) = G[c] + SumFunctionOnSet(G, S \ {c})
      /\ SumFunctionOnSet(F, S) \in Nat /\ SumFunctionOnSet(G, S) \in Nat
      /\ SumFunctionOnSet(F, S \ {c}) \in Nat
  BY <1>1, SumRemove
<1> QED BY <1>2, <1>3

\* The sum over a set is the sum over a part of it and over the rest.
LEMMA SumSplit ==
    ASSUME NEW S, IsFiniteSet(S), NEW T \in SUBSET S, NEW F, \A x \in S : F[x] \in Nat
    PROVE  /\ SumFunctionOnSet(F, S) = SumFunctionOnSet(F, T) + SumFunctionOnSet(F, S \ T)
           /\ SumFunctionOnSet(F, T) \in Nat /\ SumFunctionOnSet(F, S \ T) \in Nat
<1> DEFINE Good(U) == SumFunctionOnSet(F, S) = SumFunctionOnSet(F, U) + SumFunctionOnSet(F, S \ U)
           C == {U \in SUBSET S : ~Good(U)}
<1>n. \A U \in SUBSET S : IsFiniteSet(U) /\ SumFunctionOnSet(F, U) \in Nat
  BY FS_Subset, SumRemove
<1>1. ASSUME C # {} PROVE FALSE
  <2>1. PICK U \in C : \A V \in C : V \subseteq U => V = U
    <3>1. C \in SUBSET (SUBSET S)
      OBVIOUS
    <3> HIDE DEF C
    <3> QED BY <1>1, <3>1, SmallestSet
  <2>2. U # {}
    <3>1. SumFunctionOnSet(F, {}) = 0 /\ S \ {} = S
      BY SumEmpty
    <3>2. SumFunctionOnSet(F, S) \in Nat
      BY <1>n
    <3>3. Good({})
      BY <3>1, <3>2
    <3> QED BY <2>1, <3>3
  <2>3. PICK x \in U : TRUE
    BY <2>2
  <2>4. Good(U \ {x})
    BY <2>1, <2>3
  <2>5. (S \ (U \ {x})) \ {x} = S \ U /\ x \in S \ (U \ {x}) /\ x \in S
    BY <2>1, <2>3
  <2>6. SumFunctionOnSet(F, S \ (U \ {x})) = F[x] + SumFunctionOnSet(F, S \ U)
    <3>1. IsFiniteSet(S \ (U \ {x})) /\ \A y \in S \ (U \ {x}) : F[y] \in Nat
      BY <1>n
    <3> QED BY <2>5, <3>1, SumRemove
  <2>7. SumFunctionOnSet(F, U) = F[x] + SumFunctionOnSet(F, U \ {x})
    BY <1>n, <2>1, <2>3, SumRemove
  <2>8. SumFunctionOnSet(F, U \ {x}) \in Nat /\ SumFunctionOnSet(F, S \ U) \in Nat /\ F[x] \in Nat
    BY <1>n, <2>1, <2>5
  <2> QED BY <2>1, <2>4, <2>6, <2>7, <2>8
<1>2. Good(T)
  BY <1>1
<1> QED BY <1>2, <1>n

\* A smaller set has a smaller sum.
LEMMA SumSubset ==
    ASSUME NEW S, IsFiniteSet(S), NEW T \in SUBSET S, NEW F, \A x \in S : F[x] \in Nat
    PROVE  SumFunctionOnSet(F, T) <= SumFunctionOnSet(F, S)
<1>1. /\ SumFunctionOnSet(F, S) = SumFunctionOnSet(F, T) + SumFunctionOnSet(F, S \ T)
      /\ SumFunctionOnSet(F, T) \in Nat /\ SumFunctionOnSet(F, S \ T) \in Nat
  BY SumSplit
<1> QED BY <1>1

\* Terms that are zero need not be added.
LEMMA SumOutside ==
    ASSUME NEW S, IsFiniteSet(S), NEW T \in SUBSET S, NEW F, \A x \in S : F[x] \in Nat,
           \A x \in S \ T : F[x] = 0
    PROVE  SumFunctionOnSet(F, S) = SumFunctionOnSet(F, T)
<1>1. IsFiniteSet(S \ T)
  BY FS_Subset
<1>2. SumFunctionOnSet(F, S \ T) = 0
  BY <1>1, SumZero
<1> QED BY <1>2, SumSplit

\* The members of S that p puts into one of the parts U.
PartOf(p, S, U) == {x \in S : p[x] \in U}

\* p puts every x into a part, and G has the sums of the parts.
PartSums(S, T, F, p, G) ==
    /\ IsFiniteSet(S) /\ IsFiniteSet(T) /\ p \in [S -> T]
    /\ \A x \in S : F[x] \in Nat
    /\ \A t \in T : G[t] = SumFunctionOnSet(F, PartOf(p, S, {t}))

\* Adding up by parts.
LEMMA SumByParts ==
    ASSUME NEW S, NEW T, NEW F, NEW p, NEW G, PartSums(S, T, F, p, G), NEW U \in SUBSET T
    PROVE  SumFunctionOnSet(G, U) = SumFunctionOnSet(F, PartOf(p, S, U))
<1>s. /\ IsFiniteSet(S) /\ IsFiniteSet(T) /\ p \in [S -> T]
      /\ \A x \in S : F[x] \in Nat
      /\ \A t \in T : G[t] = SumFunctionOnSet(F, PartOf(p, S, {t}))
  BY DEF PartSums
<1> USE <1>s DEF PartOf
<1> DEFINE In(V) == PartOf(p, S, V)
           Good(V) == SumFunctionOnSet(G, V) = SumFunctionOnSet(F, In(V))
           C == {V \in SUBSET T : ~Good(V)}
<1>n. \A V \in SUBSET S : IsFiniteSet(V) /\ SumFunctionOnSet(F, V) \in Nat
  BY FS_Subset, SumRemove
<1>g. \A t \in T : G[t] \in Nat
  BY <1>n
<1>1. ASSUME C # {} PROVE FALSE
  <2>1. PICK V \in C : \A W \in C : W \subseteq V => W = V
    <3>1. C \in SUBSET (SUBSET T)
      OBVIOUS
    <3> HIDE DEF C
    <3> QED BY <1>1, <3>1, SmallestSet
  <2>2. V # {}
    <3>1. In({}) = {}
      OBVIOUS
    <3> QED BY <2>1, <3>1, SumEmpty
  <2>3. PICK t \in V : TRUE
    BY <2>2
  <2>4. Good(V \ {t}) /\ t \in T
    BY <2>1, <2>3
  <2>5. SumFunctionOnSet(G, V) = G[t] + SumFunctionOnSet(G, V \ {t})
    <3>1. IsFiniteSet(V) /\ \A u \in V : G[u] \in Nat
      BY <1>g, <2>1, FS_Subset
    <3> QED BY <2>3, <3>1, SumRemove
  <2> DEFINE Part == PartOf(p, S, {t})
  <2>6. Part \in SUBSET In(V) /\ In(V) \ Part = In(V \ {t}) /\ In(V) \in SUBSET S
    BY <2>3
  <2>7. SumFunctionOnSet(F, In(V)) = SumFunctionOnSet(F, Part) + SumFunctionOnSet(F, In(V \ {t}))
    <3>1. IsFiniteSet(In(V)) /\ \A x \in In(V) : F[x] \in Nat
      BY <1>n, <2>6
    <3>2. SumFunctionOnSet(F, In(V)) = SumFunctionOnSet(F, Part) + SumFunctionOnSet(F, In(V) \ Part)
      <4> HIDE DEF In, Part
      <4> QED BY <2>6, <3>1, SumSplit
    <3> QED BY <2>6, <3>2
  <2>8. G[t] = SumFunctionOnSet(F, Part)
    BY <2>4
  <2> QED BY <2>1, <2>4, <2>5, <2>7, <2>8
<1>2. Good(U)
  BY <1>1
<1> QED BY <1>2

=============================================================================
