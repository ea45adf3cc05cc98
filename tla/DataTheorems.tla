---------------------------- MODULE DataTheorems -----------------------------
(***************************************************************************)
(* Facts about data the proofs of this project share: the least element of *)
(* a set of naturals, sums over finite sets of integers that a function    *)
(* gives, as the modules write them (SumFunctionOnSet), the first of a     *)
(* finite set in some order, and lists without one of their elements.  All *)
(* rest on the fact that the finite subsets of a set are well founded: a   *)
(* least counterexample takes the place of an induction.                   *)
(***************************************************************************)
EXTENDS Integers, Sequences, FiniteSetsExt, FiniteSetTheorems, SequenceTheorems, TLAPS

\* Among some finite sets there is one that has none of the others inside.
LEMMA LeastSet ==
    ASSUME NEW D, NEW C, C \subseteq FiniteSubsetsOf(D), C # {}
    PROVE  \E s \in C : \A t \in C : t \subseteq s => t = s
<1>1. PICK s \in C : \A t \in C : ~(<<t, s>> \in StrictSubsetOrdering(D))
  BY FS_StrictSubsetOrderingWellFounded, WFMin
<1>2. \A t \in C : t \in SUBSET D
  BY DEF FiniteSubsetsOf
<1>3. ASSUME NEW t \in C, t \subseteq s PROVE t = s
  BY <1>1, <1>2, <1>3 DEF StrictSubsetOrdering
<1> QED
  BY <1>3

\* Naturals have a least one among them.
LEMMA LeastNumber ==
    ASSUME NEW S, S \subseteq Nat, S # {}
    PROVE  \E m \in S : \A n \in S : m <= n
<1> DEFINE C == {0..n : n \in S}
<1>1. C \subseteq FiniteSubsetsOf(Nat) /\ C # {}
  <2>1. \A n \in S : 0..n \subseteq Nat /\ IsFiniteSet(0..n)
    BY FS_Interval
  <2> QED
    BY <2>1 DEF FiniteSubsetsOf
<1>2. PICK s \in C : \A t \in C : t \subseteq s => t = s
  <2> HIDE DEF C
  <2> QED BY <1>1, LeastSet
<1>3. PICK m \in S : s = 0..m
  OBVIOUS
<1>4. ASSUME NEW n \in S, n < m PROVE FALSE
  <2>1. 0..n \subseteq 0..m /\ 0..n # 0..m
    BY <1>4
  <2> QED
    BY <1>2, <1>3, <2>1
<1> QED
  BY <1>4

------------------------------------------------------------------------------
(* Tables of sums: what the fold of the community modules computes. *)

Pick(s) == CHOOSE x \in s : TRUE

\* g gives the sum of f over every subset of T.
IsTable(g, f, T) ==
    g = [s \in SUBSET T |-> IF s = {} THEN 0 ELSE f[Pick(s)] + g[s \ {Pick(s)}]]

TableOf(f, T) == CHOOSE g : IsTable(g, f, T)

\* The element picked from a non-empty set belongs to it.
LEMMA PickIsIn == ASSUME NEW s, s # {} PROVE Pick(s) \in s
  BY DEF Pick

\* Two tables of one function agree where both have an entry.
LEMMA TablesAgree ==
    ASSUME NEW f, NEW S, NEW T, NEW g, NEW h, IsTable(g, f, S), IsTable(h, f, T),
           NEW u, u \subseteq S, u \subseteq T, IsFiniteSet(u)
    PROVE  g[u] = h[u]
<1> DEFINE C == {s \in FiniteSubsetsOf(u) : g[s] # h[s]}
<1> SUFFICES ASSUME C # {} PROVE FALSE
  BY FS_FiniteSubsetsOfFinite DEF FiniteSubsetsOf
<1>1. PICK s \in C : \A t \in C : t \subseteq s => t = s
  <2>1. C \subseteq FiniteSubsetsOf(u)
    OBVIOUS
  <2> HIDE DEF C
  <2> QED BY <2>1, LeastSet
<1>2. s \subseteq S /\ s \subseteq T /\ IsFiniteSet(s) /\ s \subseteq u
  BY DEF FiniteSubsetsOf
<1>3. /\ g[s] = IF s = {} THEN 0 ELSE f[Pick(s)] + g[s \ {Pick(s)}]
      /\ h[s] = IF s = {} THEN 0 ELSE f[Pick(s)] + h[s \ {Pick(s)}]
  BY <1>2 DEF IsTable
<1>4. s # {} /\ g[s \ {Pick(s)}] # h[s \ {Pick(s)}]
  BY <1>3
<1>5. s \ {Pick(s)} \in C
  <2>1. IsFiniteSet(s \ {Pick(s)})
    BY <1>2, FS_RemoveElement
  <2> QED BY <1>2, <1>4, <2>1 DEF FiniteSubsetsOf
<1> QED
  BY <1>1, <1>4, <1>5, PickIsIn

\* Every finite set has a table.
LEMMA TableExists ==
    ASSUME NEW f, NEW S, IsFiniteSet(S)
    PROVE  \E g : IsTable(g, f, S)
<1> DEFINE C == {s \in FiniteSubsetsOf(S) : \A g : ~IsTable(g, f, s)}
<1> SUFFICES ASSUME C # {} PROVE FALSE
  BY DEF FiniteSubsetsOf
<1>1. PICK T \in C : \A t \in C : t \subseteq T => t = T
  <2>1. C \subseteq FiniteSubsetsOf(S)
    OBVIOUS
  <2> HIDE DEF C
  <2> QED BY <2>1, LeastSet
<1>2. IsFiniteSet(T) /\ T \subseteq S
  BY DEF FiniteSubsetsOf
<1>3. ASSUME NEW u, u \subseteq T, u # T PROVE IsTable(TableOf(f, u), f, u)
  <2>1. u \in FiniteSubsetsOf(S)
    BY <1>2, <1>3, FS_Subset DEF FiniteSubsetsOf
  <2>2. u \notin C
    BY <1>1, <1>3
  <2>3. \E g : IsTable(g, f, u)
    BY <2>1, <2>2
  <2> QED BY <2>3 DEF TableOf
<1> HIDE DEF C
<1> DEFINE h(u) == TableOf(f, u)[u]
           g == [s \in SUBSET T |-> IF s = {} THEN 0 ELSE f[Pick(s)] + h(s \ {Pick(s)})]
<1>4. ASSUME NEW u, u \subseteq T, u # T
      PROVE  h(u) = IF u = {} THEN 0 ELSE f[Pick(u)] + h(u \ {Pick(u)})
  <2>1. IsTable(TableOf(f, u), f, u)
    BY <1>3, <1>4
  <2>2. h(u) = IF u = {} THEN 0 ELSE f[Pick(u)] + TableOf(f, u)[u \ {Pick(u)}]
    <3> DEFINE t == TableOf(f, u)
    <3>1. t = [s \in SUBSET u |-> IF s = {} THEN 0 ELSE f[Pick(s)] + t[s \ {Pick(s)}]]
      BY <2>1 DEF IsTable
    <3> HIDE DEF t
    <3>2. t[u] = IF u = {} THEN 0 ELSE f[Pick(u)] + t[u \ {Pick(u)}]
      BY <3>1
    <3> QED BY <3>2 DEF t
  <2>3. CASE u # {}
    <3> DEFINE v == u \ {Pick(u)}
    <3>1. v \subseteq u /\ v \subseteq T /\ v # T
      BY <1>4
    <3>2. IsTable(TableOf(f, v), f, v) /\ IsFiniteSet(v)
      <4> HIDE DEF v
      <4> QED BY <1>2, <1>3, <3>1, FS_Subset
    <3>3. TableOf(f, u)[v] = TableOf(f, v)[v]
      <4> HIDE DEF v
      <4> QED BY <2>1, <3>1, <3>2, TablesAgree
    <3> QED BY <2>2, <2>3, <3>3
  <2>4. CASE u = {}
    BY <2>2, <2>4
  <2> QED BY <2>3, <2>4
<1>5. ASSUME NEW u, u \subseteq T, u # T PROVE g[u] = h(u)
  <2> HIDE DEF h
  <2> QED BY <1>4, <1>5
<1>6. ASSUME NEW s \in SUBSET T, s # {} PROVE g[s \ {Pick(s)}] = h(s \ {Pick(s)})
  <2>1. s \ {Pick(s)} \subseteq T /\ s \ {Pick(s)} # T
    BY <1>6, PickIsIn
  <2> HIDE DEF g, h
  <2> QED BY <1>5, <2>1
<1>7. g = [s \in SUBSET T |-> IF s = {} THEN 0 ELSE f[Pick(s)] + g[s \ {Pick(s)}]]
  <2> HIDE DEF h
  <2> DEFINE k == [s \in SUBSET T |-> IF s = {} THEN 0 ELSE f[Pick(s)] + g[s \ {Pick(s)}]]
  <2>1. ASSUME NEW s \in SUBSET T PROVE g[s] = k[s]
    BY <1>6, <2>1
  <2> HIDE DEF k
  <2>2. DOMAIN g = SUBSET T /\ g = [s \in SUBSET T |-> g[s]]
    OBVIOUS
  <2>3. DOMAIN k = SUBSET T /\ k = [s \in SUBSET T |-> k[s]]
    BY DEF k
  <2>4. g = k
    <3> HIDE DEF g
    <3> QED BY <2>1, <2>2, <2>3
  <2> QED BY <2>4 DEF k
<1>8. IsTable(g, f, T)
  BY <1>7 DEF IsTable
<1> QED
  <2> HIDE DEF g
  <2> QED BY <1>1, <1>8 DEF C

------------------------------------------------------------------------------
(* Sums. *)

\* A sum over a finite set is the last entry of the table of its partial sums.
LEMMA SumIsTable ==
    ASSUME NEW f, NEW S
    PROVE  SumFunctionOnSet(f, S) = TableOf(f, S)[S]
  BY DEF SumFunctionOnSet, FoldFunctionOnSet, MapThenFoldSet, TableOf, IsTable, Pick

\* The sum over nothing is 0,
LEMMA SumEmpty == ASSUME NEW f PROVE SumFunctionOnSet(f, {}) = 0
<1>1. IsTable(TableOf(f, {}), f, {})
  BY TableExists, FS_EmptySet DEF TableOf
<1> DEFINE t == TableOf(f, {})
<1>2. t = [s \in SUBSET {} |-> IF s = {} THEN 0 ELSE f[Pick(s)] + t[s \ {Pick(s)}]]
  BY <1>1 DEF IsTable
<1> HIDE DEF t
<1>3. t[{}] = 0
  BY <1>2
<1> QED
  BY <1>3, SumIsTable DEF t

\* that over something is what it gives for an element and the sum of the rest.
LEMMA SumPicks ==
    ASSUME NEW f, NEW S, IsFiniteSet(S), S # {}
    PROVE  SumFunctionOnSet(f, S) = f[Pick(S)] + SumFunctionOnSet(f, S \ {Pick(S)})
<1> DEFINE u == S \ {Pick(S)}
           t == TableOf(f, S)
<1>1. IsFiniteSet(u) /\ u \subseteq S
  BY FS_RemoveElement
<1>2. IsTable(t, f, S) /\ IsTable(TableOf(f, u), f, u)
  <2> HIDE DEF u
  <2> QED BY <1>1, TableExists DEF TableOf
<1>3. t[S] = f[Pick(S)] + t[u]
  <2>1. t = [s \in SUBSET S |-> IF s = {} THEN 0 ELSE f[Pick(s)] + t[s \ {Pick(s)}]]
    BY <1>2 DEF IsTable
  <2> HIDE DEF t
  <2> QED BY <2>1
<1>4. t[u] = TableOf(f, u)[u]
  <2> HIDE DEF u, t
  <2> QED BY <1>1, <1>2, TablesAgree
<1> QED
  BY <1>3, <1>4, SumIsTable

\* A sum of integers is an integer.
LEMMA SumInt ==
    ASSUME NEW S, IsFiniteSet(S), NEW f, \A x \in S : f[x] \in Int
    PROVE  SumFunctionOnSet(f, S) \in Int
<1> DEFINE C == {s \in FiniteSubsetsOf(S) : SumFunctionOnSet(f, s) \notin Int}
<1> SUFFICES ASSUME C # {} PROVE FALSE
  BY DEF FiniteSubsetsOf
<1>1. PICK s \in C : \A t \in C : t \subseteq s => t = s
  <2>1. C \subseteq FiniteSubsetsOf(S)
    OBVIOUS
  <2> HIDE DEF C
  <2> QED BY <2>1, LeastSet
<1>2. s \subseteq S /\ IsFiniteSet(s) /\ SumFunctionOnSet(f, s) \notin Int
  BY DEF FiniteSubsetsOf
<1>3. s # {}
  BY <1>2, SumEmpty
<1> DEFINE u == s \ {Pick(s)}
<1>4. u \in FiniteSubsetsOf(S) /\ u \subseteq s /\ u # s
  BY <1>2, <1>3, FS_RemoveElement, PickIsIn DEF FiniteSubsetsOf
<1>5. SumFunctionOnSet(f, u) \in Int
  <2> HIDE DEF u
  <2> QED BY <1>1, <1>4
<1>6. f[Pick(s)] \in Int
  BY <1>2, <1>3, PickIsIn
<1>7. SumFunctionOnSet(f, s) = f[Pick(s)] + SumFunctionOnSet(f, u)
  BY <1>2, <1>3, SumPicks
<1> QED
  <2> HIDE DEF u, C
  <2> QED BY <1>2, <1>5, <1>6, <1>7

\* The order of the terms does not matter.
LEMMA SumTakes ==
    ASSUME NEW S, IsFiniteSet(S), NEW f, \A y \in S : f[y] \in Int, NEW x \in S
    PROVE  SumFunctionOnSet(f, S) = f[x] + SumFunctionOnSet(f, S \ {x})
<1> DEFINE Takes(s) == \A y \in s : SumFunctionOnSet(f, s) = f[y] + SumFunctionOnSet(f, s \ {y})
           C == {s \in FiniteSubsetsOf(S) : ~Takes(s)}
<1> SUFFICES ASSUME C # {} PROVE FALSE
  BY DEF FiniteSubsetsOf
<1>1. PICK s \in C : \A t \in C : t \subseteq s => t = s
  <2>1. C \subseteq FiniteSubsetsOf(S)
    OBVIOUS
  <2> HIDE DEF C
  <2> QED BY <2>1, LeastSet
<1>2. s \subseteq S /\ IsFiniteSet(s) /\ ~Takes(s)
  BY DEF FiniteSubsetsOf
<1>3. PICK y \in s : SumFunctionOnSet(f, s) # f[y] + SumFunctionOnSet(f, s \ {y})
  BY <1>2
<1> DEFINE p == Pick(s)
<1>4. p \in s /\ SumFunctionOnSet(f, s) = f[p] + SumFunctionOnSet(f, s \ {p})
  BY <1>2, <1>3, SumPicks, PickIsIn
<1> HIDE DEF p
<1>5. y # p
  BY <1>3, <1>4
<1>6. ASSUME NEW z \in s PROVE IsFiniteSet(s \ {z}) /\ Takes(s \ {z})
  <2>1. s \ {z} \in FiniteSubsetsOf(S) /\ s \ {z} \subseteq s /\ s \ {z} # s
    BY <1>2, FS_RemoveElement DEF FiniteSubsetsOf
  <2>2. s \ {z} \notin C
    BY <1>1, <2>1
  <2> QED BY <2>1, <2>2 DEF FiniteSubsetsOf
<1>7. SumFunctionOnSet(f, s \ {p}) = f[y] + SumFunctionOnSet(f, (s \ {p}) \ {y})
  BY <1>4, <1>5, <1>6
<1>8. SumFunctionOnSet(f, s \ {y}) = f[p] + SumFunctionOnSet(f, (s \ {y}) \ {p})
  BY <1>4, <1>5, <1>6
<1>9. (s \ {p}) \ {y} = (s \ {y}) \ {p}
  OBVIOUS
<1>10. SumFunctionOnSet(f, (s \ {y}) \ {p}) \in Int
  <2>1. IsFiniteSet((s \ {y}) \ {p})
    BY <1>6, FS_RemoveElement
  <2> QED BY <1>2, <2>1, SumInt
<1>11. f[y] \in Int /\ f[p] \in Int
  BY <1>2, <1>4
<1> QED
  <2> HIDE DEF C, Takes
  <2> DEFINE rest == SumFunctionOnSet(f, (s \ {y}) \ {p})
  <2>1. SumFunctionOnSet(f, s) = f[p] + (f[y] + rest)
    BY <1>4, <1>7, <1>9
  <2>2. SumFunctionOnSet(f, s \ {y}) = f[p] + rest
    BY <1>8
  <2> HIDE DEF rest
  <2>3. rest \in Int
    BY <1>10 DEF rest
  <2> QED BY <1>3, <1>11, <2>1, <2>2, <2>3

\* Functions that give the same have the same sum.
LEMMA SumEqual ==
    ASSUME NEW S, IsFiniteSet(S), NEW f, NEW g, \A x \in S : f[x] = g[x]
    PROVE  SumFunctionOnSet(f, S) = SumFunctionOnSet(g, S)
<1> DEFINE C == {s \in FiniteSubsetsOf(S) : SumFunctionOnSet(f, s) # SumFunctionOnSet(g, s)}
<1> SUFFICES ASSUME C # {} PROVE FALSE
  BY DEF FiniteSubsetsOf
<1>1. PICK s \in C : \A t \in C : t \subseteq s => t = s
  <2>1. C \subseteq FiniteSubsetsOf(S)
    OBVIOUS
  <2> HIDE DEF C
  <2> QED BY <2>1, LeastSet
<1>2. s \subseteq S /\ IsFiniteSet(s)
  BY DEF FiniteSubsetsOf
<1>3. s # {}
  BY SumEmpty
<1>4. /\ SumFunctionOnSet(f, s) = f[Pick(s)] + SumFunctionOnSet(f, s \ {Pick(s)})
      /\ SumFunctionOnSet(g, s) = g[Pick(s)] + SumFunctionOnSet(g, s \ {Pick(s)})
      /\ Pick(s) \in s
  BY <1>2, <1>3, SumPicks, PickIsIn
<1>5. s \ {Pick(s)} \in C
  <2>1. s \ {Pick(s)} \in FiniteSubsetsOf(S)
    BY <1>2, FS_RemoveElement DEF FiniteSubsetsOf
  <2>2. f[Pick(s)] = g[Pick(s)]
    BY <1>2, <1>4
  <2> QED BY <1>4, <2>1, <2>2
<1> QED
  BY <1>1, <1>4, <1>5

\* A sum with one element more,
LEMMA SumAdd ==
    ASSUME NEW S, IsFiniteSet(S), NEW f, NEW x, x \notin S, \A y \in S \cup {x} : f[y] \in Int
    PROVE  SumFunctionOnSet(f, S \cup {x}) = f[x] + SumFunctionOnSet(f, S)
<1>1. IsFiniteSet(S \cup {x}) /\ (S \cup {x}) \ {x} = S /\ x \in S \cup {x}
  BY FS_AddElement
<1> DEFINE T == S \cup {x}
<1> HIDE DEF T
<1>2. SumFunctionOnSet(f, T) = f[x] + SumFunctionOnSet(f, T \ {x})
  BY <1>1, SumTakes DEF T
<1> QED
  BY <1>1, <1>2 DEF T

\* and with one term changed.
LEMMA SumChange ==
    ASSUME NEW S, IsFiniteSet(S), NEW f, NEW g, NEW x \in S,
           \A y \in S : f[y] \in Int /\ g[y] \in Int,
           \A y \in S \ {x} : g[y] = f[y]
    PROVE  SumFunctionOnSet(g, S) = SumFunctionOnSet(f, S) + g[x] - f[x]
<1>1. IsFiniteSet(S \ {x})
  BY FS_RemoveElement
<1>2. SumFunctionOnSet(g, S \ {x}) = SumFunctionOnSet(f, S \ {x})
  BY <1>1, SumEqual
<1>3. SumFunctionOnSet(f, S \ {x}) \in Int
  BY <1>1, SumInt
<1>4. /\ SumFunctionOnSet(f, S) = f[x] + SumFunctionOnSet(f, S \ {x})
      /\ SumFunctionOnSet(g, S) = g[x] + SumFunctionOnSet(g, S \ {x})
  BY SumTakes
<1> QED
  BY <1>2, <1>3, <1>4

\* A sum of sums,
LEMMA SumBoth ==
    ASSUME NEW S, IsFiniteSet(S), NEW f, NEW g, NEW h,
           \A x \in S : f[x] \in Int /\ g[x] \in Int /\ h[x] = f[x] + g[x]
    PROVE  SumFunctionOnSet(h, S) = SumFunctionOnSet(f, S) + SumFunctionOnSet(g, S)
<1> DEFINE Both(s) == SumFunctionOnSet(h, s) = SumFunctionOnSet(f, s) + SumFunctionOnSet(g, s)
           C == {s \in FiniteSubsetsOf(S) : ~Both(s)}
<1>0. SUFFICES ASSUME C # {} PROVE FALSE
  <2>1. S \in FiniteSubsetsOf(S)
    BY DEF FiniteSubsetsOf
  <2> QED BY <2>1
<1>1. PICK s \in C : \A t \in C : t \subseteq s => t = s
  <2>1. C \subseteq FiniteSubsetsOf(S)
    OBVIOUS
  <2> HIDE DEF C
  <2> QED BY <1>0, <2>1, LeastSet
<1>2. s \subseteq S /\ IsFiniteSet(s) /\ ~Both(s)
  BY DEF FiniteSubsetsOf
<1>3. s # {}
  <2>1. SumFunctionOnSet(f, {}) = 0 /\ SumFunctionOnSet(g, {}) = 0 /\ SumFunctionOnSet(h, {}) = 0
    BY SumEmpty
  <2>2. Both({})
    BY <2>1
  <2> HIDE DEF Both
  <2> QED BY <1>2, <2>2
<1>4. PICK x \in s : TRUE
  BY <1>3
<1> DEFINE u == s \ {x}
<1>5. u \in FiniteSubsetsOf(S) /\ u \subseteq s /\ u # s /\ IsFiniteSet(u) /\ u \subseteq S
  BY <1>2, <1>4, FS_RemoveElement DEF FiniteSubsetsOf
<1>6. /\ SumFunctionOnSet(f, s) = f[x] + SumFunctionOnSet(f, u)
      /\ SumFunctionOnSet(g, s) = g[x] + SumFunctionOnSet(g, u)
      /\ SumFunctionOnSet(h, s) = h[x] + SumFunctionOnSet(h, u)
  <2>1. \A y \in s : f[y] \in Int /\ g[y] \in Int /\ h[y] \in Int
    BY <1>2
  <2> QED BY <1>2, <2>1, SumTakes
<1> HIDE DEF u
<1>7. Both(u)
  BY <1>1, <1>5
<1>8. SumFunctionOnSet(f, u) \in Int /\ SumFunctionOnSet(g, u) \in Int
  BY <1>5, SumInt
<1>9. f[x] \in Int /\ g[x] \in Int /\ h[x] = f[x] + g[x]
  BY <1>2
<1> QED
  <2> HIDE DEF C
  <2> DEFINE a == SumFunctionOnSet(f, u)
             b == SumFunctionOnSet(g, u)
  <2>1. /\ SumFunctionOnSet(f, s) = f[x] + a /\ SumFunctionOnSet(g, s) = g[x] + b
        /\ SumFunctionOnSet(h, s) = h[x] + (a + b)
    BY <1>6, <1>7
  <2>2. a \in Int /\ b \in Int
    BY <1>8
  <2> HIDE DEF a, b
  <2>3. SumFunctionOnSet(h, s) = SumFunctionOnSet(f, s) + SumFunctionOnSet(g, s)
    BY <1>9, <2>1, <2>2
  <2> QED BY <1>2, <2>3

\* one of multiples,
LEMMA SumTimes ==
    ASSUME NEW S, IsFiniteSet(S), NEW f, NEW h, NEW c \in Int,
           \A x \in S : f[x] \in Int /\ h[x] = f[x] * c
    PROVE  SumFunctionOnSet(h, S) = SumFunctionOnSet(f, S) * c
<1> DEFINE Times(s) == SumFunctionOnSet(h, s) = SumFunctionOnSet(f, s) * c
           C == {s \in FiniteSubsetsOf(S) : ~Times(s)}
<1>0. SUFFICES ASSUME C # {} PROVE FALSE
  <2>1. S \in FiniteSubsetsOf(S)
    BY DEF FiniteSubsetsOf
  <2> QED BY <2>1
<1>1. PICK s \in C : \A t \in C : t \subseteq s => t = s
  <2>1. C \subseteq FiniteSubsetsOf(S)
    OBVIOUS
  <2> HIDE DEF C
  <2> QED BY <1>0, <2>1, LeastSet
<1>2. s \subseteq S /\ IsFiniteSet(s) /\ ~Times(s)
  BY DEF FiniteSubsetsOf
<1>3. s # {}
  <2>1. SumFunctionOnSet(f, {}) = 0 /\ SumFunctionOnSet(h, {}) = 0 /\ 0 * c = 0
    BY SumEmpty
  <2>2. Times({})
    BY <2>1
  <2> HIDE DEF Times
  <2> QED BY <1>2, <2>2
<1>4. PICK x \in s : TRUE
  BY <1>3
<1> DEFINE u == s \ {x}
<1>5. u \in FiniteSubsetsOf(S) /\ u \subseteq s /\ u # s /\ IsFiniteSet(u) /\ u \subseteq S
  BY <1>2, <1>4, FS_RemoveElement DEF FiniteSubsetsOf
<1>6. \A y \in s : f[y] \in Int /\ h[y] \in Int
  <2>1. \A i \in Int : i * c \in Int
    OBVIOUS
  <2> QED BY <1>2, <2>1
<1>7. /\ SumFunctionOnSet(f, s) = f[x] + SumFunctionOnSet(f, u)
      /\ SumFunctionOnSet(h, s) = h[x] + SumFunctionOnSet(h, u)
  BY <1>2, <1>6, SumTakes
<1> HIDE DEF u
<1>8. Times(u)
  BY <1>1, <1>5
<1>9. SumFunctionOnSet(f, u) \in Int
  BY <1>5, SumInt
<1>10. f[x] \in Int /\ h[x] = f[x] * c
  BY <1>2
<1> QED
  <2> HIDE DEF C
  <2> DEFINE a == SumFunctionOnSet(f, u)
             y == f[x]
  <2>1. /\ SumFunctionOnSet(f, s) = y + a
        /\ SumFunctionOnSet(h, s) = y * c + a * c
    BY <1>7, <1>8, <1>10
  <2>2. a \in Int /\ y \in Int
    BY <1>9, <1>10
  <2> HIDE DEF a, y
  <2>3. (y + a) * c = y * c + a * c
    BY <2>2
  <2>4. SumFunctionOnSet(h, s) = SumFunctionOnSet(f, s) * c
    BY <2>1, <2>3
  <2> QED BY <1>2, <2>4

\* one whose other terms are 0,
LEMMA SumOver ==
    ASSUME NEW S, IsFiniteSet(S), NEW T, T \subseteq S, NEW f,
           \A x \in S : f[x] \in Int, \A x \in S \ T : f[x] = 0
    PROVE  SumFunctionOnSet(f, S) = SumFunctionOnSet(f, T)
<1> DEFINE Same(s) == SumFunctionOnSet(f, T \cup s) = SumFunctionOnSet(f, T)
           C == {s \in FiniteSubsetsOf(S \ T) : ~Same(s)}
<1>1. IsFiniteSet(T) /\ IsFiniteSet(S \ T) /\ T \cup (S \ T) = S
  BY FS_Subset, FS_Difference
<1>2. SUFFICES ASSUME C # {} PROVE FALSE
  <2>1. S \ T \in FiniteSubsetsOf(S \ T)
    BY <1>1 DEF FiniteSubsetsOf
  <2>2. Same(S \ T)
    BY <2>1
  <2>3. T \cup (S \ T) = S
    BY <1>1
  <2> QED BY <2>2, <2>3, Zenon
<1>3. PICK s \in C : \A t \in C : t \subseteq s => t = s
  <2>1. C \subseteq FiniteSubsetsOf(S \ T)
    OBVIOUS
  <2> HIDE DEF C
  <2> QED BY <1>2, <2>1, LeastSet
<1>4. s \subseteq S \ T /\ IsFiniteSet(s) /\ ~Same(s)
  BY DEF FiniteSubsetsOf
<1>5. s # {}
  <2>1. T \cup {} = T
    OBVIOUS
  <2> QED BY <1>4, <2>1
<1>6. PICK x \in s : TRUE
  BY <1>5
<1> DEFINE u == s \ {x}
<1>7. u \in FiniteSubsetsOf(S \ T) /\ u \subseteq s /\ u # s /\ IsFiniteSet(u)
  BY <1>4, <1>6, FS_RemoveElement DEF FiniteSubsetsOf
<1>8. x \notin T \cup u /\ (T \cup u) \cup {x} = T \cup s /\ T \cup s \subseteq S /\ f[x] = 0
  BY <1>4, <1>6
<1> HIDE DEF u
<1>9. Same(u)
  BY <1>3, <1>7
<1>10. IsFiniteSet(T \cup u) /\ IsFiniteSet(T)
  BY <1>1, <1>7, FS_Union
<1>11. SumFunctionOnSet(f, (T \cup u) \cup {x}) = f[x] + SumFunctionOnSet(f, T \cup u)
  <2> DEFINE m == T \cup u
  <2>1. IsFiniteSet(m) /\ x \notin m /\ \A y \in m \cup {x} : f[y] \in Int
    BY <1>8, <1>10
  <2> HIDE DEF m
  <2>2. SumFunctionOnSet(f, m \cup {x}) = f[x] + SumFunctionOnSet(f, m)
    BY <2>1, SumAdd
  <2> QED BY <2>2 DEF m
<1>12. SumFunctionOnSet(f, T) \in Int
  BY <1>1, SumInt
<1> QED
  <2> HIDE DEF C
  <2>1. SumFunctionOnSet(f, T \cup s) = 0 + SumFunctionOnSet(f, T)
    BY <1>8, <1>9, <1>11
  <2> QED BY <1>4, <1>12, <2>1

\* and one over other names for its terms.
LEMMA SumMoved ==
    ASSUME NEW S, IsFiniteSet(S), NEW f, NEW g, NEW h,
           \A x \in S : f[x] \in Int /\ g[h[x]] = f[x],
           \A x, y \in S : h[x] = h[y] => x = y
    PROVE  SumFunctionOnSet(g, {h[x] : x \in S}) = SumFunctionOnSet(f, S)
<1> DEFINE Named(s) == {h[x] : x \in s}
           Moved(s) == SumFunctionOnSet(g, Named(s)) = SumFunctionOnSet(f, s)
           C == {s \in FiniteSubsetsOf(S) : ~Moved(s)}
<1>0. SUFFICES ASSUME C # {} PROVE FALSE
  <2>1. S \in FiniteSubsetsOf(S)
    BY DEF FiniteSubsetsOf
  <2> QED BY <2>1
<1>1. PICK s \in C : \A t \in C : t \subseteq s => t = s
  <2>1. C \subseteq FiniteSubsetsOf(S)
    OBVIOUS
  <2> HIDE DEF C
  <2> QED BY <1>0, <2>1, LeastSet
<1>2. s \subseteq S /\ IsFiniteSet(s) /\ ~Moved(s)
  BY DEF FiniteSubsetsOf
<1>3. s # {}
  <2>1. Named({}) = {}
    OBVIOUS
  <2> QED BY <1>2, <2>1, SumEmpty
<1>4. PICK x \in s : TRUE
  BY <1>3
<1> DEFINE u == s \ {x}
<1>5. u \in FiniteSubsetsOf(S) /\ u \subseteq s /\ u # s /\ IsFiniteSet(u) /\ u \subseteq S
  BY <1>2, <1>4, FS_RemoveElement DEF FiniteSubsetsOf
<1>6. SumFunctionOnSet(f, s) = f[x] + SumFunctionOnSet(f, u)
  <2>1. \A y \in s : f[y] \in Int
    BY <1>2
  <2> QED BY <1>2, <2>1, SumTakes
<1>7. Named(s) = Named(u) \cup {h[x]} /\ h[x] \notin Named(u)
  BY <1>2, <1>4
<1> HIDE DEF u
<1>8. Moved(u)
  BY <1>1, <1>5
<1>9. IsFiniteSet(Named(u)) /\ \A y \in Named(u) \cup {h[x]} : g[y] \in Int
  <2>1. IsFiniteSet(Named(u))
    <3> DEFINE to == [y \in u |-> h[y]]
    <3>1. to \in Surjection(u, Named(u))
      BY DEF Surjection
    <3> HIDE DEF to, Named
    <3> QED BY <1>5, <3>1, FS_Surjection
  <2> QED BY <1>2, <1>4, <1>5, <2>1
<1>10. SumFunctionOnSet(g, Named(s)) = g[h[x]] + SumFunctionOnSet(g, Named(u))
  <2> DEFINE m == Named(u)
  <2>1. IsFiniteSet(m) /\ h[x] \notin m /\ \A y \in m \cup {h[x]} : g[y] \in Int
    BY <1>7, <1>9
  <2> HIDE DEF m
  <2>2. SumFunctionOnSet(g, m \cup {h[x]}) = g[h[x]] + SumFunctionOnSet(g, m)
    BY <2>1, SumAdd
  <2> QED BY <1>7, <2>2 DEF m
<1>11. g[h[x]] = f[x]
  BY <1>2
<1> QED
  <2> HIDE DEF C, Named
  <2> QED BY <1>2, <1>6, <1>8, <1>10, <1>11

\* A sum of naturals is one.
LEMMA SumNat ==
    ASSUME NEW S, IsFiniteSet(S), NEW f, \A x \in S : f[x] \in Nat
    PROVE  SumFunctionOnSet(f, S) \in Nat
<1> DEFINE C == {s \in FiniteSubsetsOf(S) : SumFunctionOnSet(f, s) \notin Nat}
<1>0. SUFFICES ASSUME C # {} PROVE FALSE
  <2>1. S \in FiniteSubsetsOf(S)
    BY DEF FiniteSubsetsOf
  <2> QED BY <2>1
<1>1. PICK s \in C : \A t \in C : t \subseteq s => t = s
  <2>1. C \subseteq FiniteSubsetsOf(S)
    OBVIOUS
  <2> HIDE DEF C
  <2> QED BY <1>0, <2>1, LeastSet
<1>2. s \subseteq S /\ IsFiniteSet(s) /\ SumFunctionOnSet(f, s) \notin Nat
  BY DEF FiniteSubsetsOf
<1>3. s # {}
  BY <1>2, SumEmpty
<1>4. PICK x \in s : TRUE
  BY <1>3
<1> DEFINE u == s \ {x}
<1>5. u \in FiniteSubsetsOf(S) /\ u \subseteq s /\ u # s
  BY <1>2, <1>4, FS_RemoveElement DEF FiniteSubsetsOf
<1>6. SumFunctionOnSet(f, s) = f[x] + SumFunctionOnSet(f, u)
  <2>1. \A y \in s : f[y] \in Int
    BY <1>2
  <2> QED BY <1>2, <2>1, SumTakes
<1> HIDE DEF u
<1>7. SumFunctionOnSet(f, u) \in Nat
  BY <1>1, <1>5
<1>8. f[x] \in Nat
  BY <1>2
<1> QED
  <2> HIDE DEF C
  <2> QED BY <1>2, <1>6, <1>7, <1>8


\* The sum of nothing but zeros.
LEMMA SumZero ==
    ASSUME NEW S, IsFiniteSet(S), NEW f, \A x \in S : f[x] = 0
    PROVE  SumFunctionOnSet(f, S) = 0
<1>1. {} \subseteq S /\ (\A x \in S : f[x] \in Int) /\ \A x \in S \ {} : f[x] = 0
  OBVIOUS
<1>2. SumFunctionOnSet(f, S) = SumFunctionOnSet(f, {})
  BY <1>1, SumOver
<1> QED BY <1>2, SumEmpty

------------------------------------------------------------------------------
(* Ranks in finite sets, least and greatest elements. *)

\* Those of S with fewer than n others before them.
FirstOf(S, before, n) == {x \in S : Cardinality({y \in S : <<y, x>> \in before}) < n}

\* Elements of a finite set that have fewer than n others before them are at most
\* n, if of any two one is before the other.
LEMMA FirstAreFew ==
    ASSUME NEW S, IsFiniteSet(S), NEW before, NEW n \in Nat,
           \A x \in S : <<x, x>> \notin before,
           \A x, y \in S : x # y => <<x, y>> \in before \/ <<y, x>> \in before,
           \A x, y, z \in S : <<x, y>> \in before /\ <<y, z>> \in before => <<x, z>> \in before
    PROVE  IsFiniteSet(FirstOf(S, before, n)) /\ Cardinality(FirstOf(S, before, n)) <= n
<1> DEFINE Less(x) == {y \in S : <<y, x>> \in before}
           few == {x \in S : Cardinality(Less(x)) < n}
           rank == [x \in few |-> Cardinality(Less(x))]
<1>1. ASSUME NEW x \in S PROVE IsFiniteSet(Less(x)) /\ Cardinality(Less(x)) \in Nat
  BY FS_Subset, FS_CardinalityType
<1>2. ASSUME NEW x \in S, NEW y \in S, <<x, y>> \in before PROVE Cardinality(Less(x)) < Cardinality(Less(y))
  <2>1. Less(x) \subseteq Less(y) /\ x \in Less(y) /\ x \notin Less(x)
    BY <1>2
  <2>2. IsFiniteSet(Less(y)) /\ Cardinality(Less(y)) \in Nat /\ Cardinality(Less(x)) \in Nat
    BY <1>1
  <2> HIDE DEF Less
  <2>3. Cardinality(Less(x)) <= Cardinality(Less(y)) /\ Cardinality(Less(x)) # Cardinality(Less(y))
    BY <2>1, <2>2, FS_Subset
  <2> QED
    BY <2>2, <2>3
<1>3. rank \in Injection(few, 0..(n - 1))
  <2>1. rank \in [few -> 0..(n - 1)]
    <3>1. ASSUME NEW x \in few PROVE Cardinality(Less(x)) \in 0..(n - 1)
      <4> HIDE DEF Less
      <4> QED BY <1>1
    <3> HIDE DEF Less
    <3> QED BY <3>1
  <2>2. ASSUME NEW x \in few, NEW y \in few, x # y PROVE Cardinality(Less(x)) # Cardinality(Less(y))
    <3>1. x \in S /\ y \in S
      OBVIOUS
    <3>2. <<x, y>> \in before \/ <<y, x>> \in before
      BY <2>2, <3>1
    <3>3. Cardinality(Less(x)) < Cardinality(Less(y)) \/ Cardinality(Less(y)) < Cardinality(Less(x))
      <4> HIDE DEF Less
      <4> QED BY <1>2, <3>1, <3>2
    <3>4. Cardinality(Less(x)) \in Nat /\ Cardinality(Less(y)) \in Nat
      BY <1>1, <3>1
    <3> HIDE DEF Less
    <3> QED BY <3>3, <3>4
  <2> HIDE DEF Less
  <2>3. \A x, y \in few : rank[x] = rank[y] => x = y
    BY <2>2
  <2> HIDE DEF few, rank
  <2> QED BY <2>1, <2>3 DEF Injection, IsInjective
<1>4. IsFiniteSet(0..(n - 1)) /\ Cardinality(0..(n - 1)) = n
  <2>1. 0 \in Int /\ n - 1 \in Int
    OBVIOUS
  <2>2. IsFiniteSet(0..(n - 1)) /\ Cardinality(0..(n - 1)) = IF 0 > n - 1 THEN 0 ELSE n - 1 - 0 + 1
    BY <2>1, FS_Interval
  <2> QED BY <2>2
<1>5. IsFiniteSet(few) /\ Cardinality(few) <= n
  <2> HIDE DEF few, rank
  <2> QED BY <1>3, <1>4, FS_Injection
<1> QED
  BY <1>5 DEF FirstOf

\* Elements of a finite set at places of their own, counted up to one of them.
LEMMA RanksApart ==
    ASSUME NEW S, IsFiniteSet(S), NEW at, \A x \in S : at[x] \in Int,
           \A x, y \in S : at[x] = at[y] => x = y
    PROVE  /\ \A x \in S : Cardinality({y \in S : at[y] <= at[x]}) \in 1..Cardinality(S)
           /\ \A x, y \in S : Cardinality({z \in S : at[z] <= at[x]}) = Cardinality({z \in S : at[z] <= at[y]}) => x = y
<1> DEFINE UpTo(x) == {y \in S : at[y] <= at[x]}
<1>1. ASSUME NEW x \in S PROVE IsFiniteSet(UpTo(x)) /\ Cardinality(UpTo(x)) \in 1..Cardinality(S)
  <2>1. UpTo(x) \in SUBSET S /\ UpTo(x) # {}
    <3>1. x \in UpTo(x)
      OBVIOUS
    <3> QED BY <3>1
  <2> HIDE DEF UpTo
  <2>2. IsFiniteSet(UpTo(x)) /\ Cardinality(UpTo(x)) <= Cardinality(S)
    BY <2>1, FS_Subset
  <2>3. Cardinality(UpTo(x)) \in Nat /\ Cardinality(UpTo(x)) # 0 /\ Cardinality(S) \in Nat
    BY <2>1, <2>2, FS_CardinalityType, FS_EmptySet
  <2> QED BY <2>2, <2>3
<1>2. ASSUME NEW x \in S, NEW y \in S, at[x] < at[y] PROVE Cardinality(UpTo(x)) # Cardinality(UpTo(y))
  <2>1. UpTo(x) \in SUBSET UpTo(y) /\ UpTo(x) # UpTo(y)
    <3>1. y \in UpTo(y) /\ y \notin UpTo(x)
      BY <1>2
    <3>2. UpTo(x) \subseteq UpTo(y)
      BY <1>2
    <3> QED BY <3>1, <3>2
  <2>2. IsFiniteSet(UpTo(y))
    BY <1>1
  <2> HIDE DEF UpTo
  <2> QED BY <2>1, <2>2, FS_Subset
<1>3. ASSUME NEW x \in S, NEW y \in S, x # y PROVE Cardinality(UpTo(x)) # Cardinality(UpTo(y))
  <2>1. at[x] < at[y] \/ at[y] < at[x]
    BY <1>3
  <2> HIDE DEF UpTo
  <2> QED BY <1>2, <2>1
<1> QED
  <2> HIDE DEF UpTo
  <2>1. \A x \in S : Cardinality(UpTo(x)) \in 1..Cardinality(S)
    BY <1>1
  <2>2. \A x, y \in S : Cardinality(UpTo(x)) = Cardinality(UpTo(y)) => x = y
    BY <1>3
  <2> QED BY <2>1, <2>2 DEF UpTo

\* A finite set of naturals has a greatest element.
LEMMA GreatestNumber ==
    ASSUME NEW S, S \subseteq Nat, IsFiniteSet(S), S # {}
    PROVE  \E m \in S : \A n \in S : n <= m
<1> DEFINE UpTo(x) == {y \in S : y >= x}
<1>1. PICK c \in {Cardinality(UpTo(x)) : x \in S} : \A n \in {Cardinality(UpTo(x)) : x \in S} : c <= n
  <2> DEFINE C == {Cardinality(UpTo(x)) : x \in S}
  <2>1. \A x \in S : Cardinality(UpTo(x)) \in Nat
    <3>1. ASSUME NEW x \in S PROVE Cardinality(UpTo(x)) \in Nat
      <4>1. UpTo(x) \in SUBSET S
        OBVIOUS
      <4> HIDE DEF UpTo
      <4> QED BY <4>1, FS_Subset, FS_CardinalityType
    <3> HIDE DEF UpTo
    <3> QED BY <3>1
  <2>2. C \subseteq Nat /\ C # {}
    <3> HIDE DEF UpTo
    <3> QED BY <2>1
  <2> HIDE DEF C
  <2>3. \E m \in C : \A n \in C : m <= n
    BY <2>2, LeastNumber
  <2> QED BY <2>3 DEF C
<1>2. PICK m \in S : c = Cardinality(UpTo(m))
  OBVIOUS
<1>3. ASSUME NEW n \in S, m < n PROVE FALSE
  <2>1. UpTo(n) \in SUBSET UpTo(m) /\ UpTo(n) # UpTo(m) /\ UpTo(m) \in SUBSET S
    <3>1. m \in UpTo(m) /\ m \notin UpTo(n)
      BY <1>3
    <3>2. ASSUME NEW y \in S, y >= n PROVE y >= m
      <4>1. y \in Nat /\ m \in Nat /\ n \in Nat
        OBVIOUS
      <4> QED BY ONLY <4>1, <3>2, <1>3
    <3> QED BY <3>1, <3>2
  <2>2. Cardinality(UpTo(m)) <= Cardinality(UpTo(n))
    <3> HIDE DEF UpTo
    <3> QED BY <1>1, <1>2
  <2> HIDE DEF UpTo
  <2>3. IsFiniteSet(UpTo(m))
    BY <2>1, FS_Subset
  <2>4. Cardinality(UpTo(n)) <= Cardinality(UpTo(m)) /\ Cardinality(UpTo(n)) # Cardinality(UpTo(m))
    BY <2>1, <2>3, FS_Subset
  <2>5. Cardinality(UpTo(m)) \in Nat /\ Cardinality(UpTo(n)) \in Nat
    BY <2>1, <2>3, FS_Subset, FS_CardinalityType
  <2> QED BY <2>2, <2>4, <2>5
<1> QED
  <2>1. \A n \in S : n <= m
    BY <1>3
  <2> QED BY <2>1

\* What is listed is finite.
LEMMA FewAreFinite ==
    /\ \A a, b : IsFiniteSet({a, b})
    /\ \A a, b, c, d : IsFiniteSet({a, b, c, d})
<1>1. ASSUME NEW S, IsFiniteSet(S), NEW x PROVE IsFiniteSet(S \cup {x})
  BY <1>1, FS_AddElement
<1>2. ASSUME NEW a, NEW b PROVE IsFiniteSet({a, b})
  <2>1. IsFiniteSet({a})
    BY FS_Singleton
  <2>2. IsFiniteSet({a} \cup {b})
    BY <1>1, <2>1
  <2> QED BY <2>2
<1>3. ASSUME NEW a, NEW b, NEW c, NEW d PROVE IsFiniteSet({a, b, c, d})
  <2>1. IsFiniteSet({a, b}) /\ IsFiniteSet({c, d})
    BY <1>2
  <2>2. IsFiniteSet({a, b} \cup {c, d})
    BY ONLY <2>1, FS_Union
  <2>3. {a, b} \cup {c, d} = {a, b, c, d}
    OBVIOUS
  <2> QED BY <2>2, <2>3
<1> QED BY <1>2, <1>3

\* Min is the least of a set of naturals.
LEMMA MinIs == ASSUME NEW S, S \subseteq Nat, S # {} PROVE Min(S) \in S /\ \A n \in S : Min(S) <= n
  BY LeastNumber DEF Min

\* The lesser of two numbers.
LEMMA LesserIs == ASSUME NEW a \in Int, NEW b \in Int PROVE Min({a, b}) = IF a <= b THEN a ELSE b
<1> DEFINE m == Min({a, b})
<1>1. \E x \in {a, b} : \A y \in {a, b} : x =< y
  OBVIOUS
<1>2. m \in {a, b} /\ \A y \in {a, b} : m =< y
  BY <1>1 DEF Min
<1> HIDE DEF m
<1>3. m = IF a <= b THEN a ELSE b
  BY <1>2
<1> QED BY <1>3 DEF m

------------------------------------------------------------------------------
(* Lists. *)

\* What RemoveAt of the community modules gives.
LessElement(s, i) == SubSeq(s, 1, i - 1) \o SubSeq(s, i + 1, Len(s))

\* A list without its i-th element: what is at k was at k, or after i at k + 1.
LEMMA RemovedAt ==
    ASSUME NEW S, NEW s \in Seq(S), NEW i \in DOMAIN s
    PROVE  /\ LessElement(s, i) \in Seq(S)
           /\ DOMAIN LessElement(s, i) = 1..(Len(s) - 1) /\ Len(LessElement(s, i)) = Len(s) - 1
           /\ \A k \in 1..(Len(s) - 1) :
                LessElement(s, i)[k] = IF k < i THEN s[k] ELSE s[k + 1]
<1>1. Len(s) \in Nat /\ DOMAIN s = 1..Len(s) /\ i \in 1..Len(s)
  BY LenProperties
<1> DEFINE front == SubSeq(s, 1, i - 1)
           rest  == SubSeq(s, i + 1, Len(s))
<1>2. front \in Seq(S) /\ Len(front) = i - 1 /\ \A k \in 1..(i - 1) : front[k] = s[k]
  BY <1>1, SubSeqProperties
<1>3. /\ rest \in Seq(S) /\ Len(rest) = Len(s) - i
      /\ \A k \in 1..(Len(s) - i) : rest[k] = s[k + i]
  BY <1>1, SubSeqProperties
<1>4. LessElement(s, i) = front \o rest
  BY DEF LessElement
<1> HIDE DEF front, rest
<1>5. /\ front \o rest \in Seq(S) /\ Len(front \o rest) = Len(s) - 1
      /\ \A k \in 1..(Len(s) - 1) :
            (front \o rest)[k] = IF k <= i - 1 THEN front[k] ELSE rest[k - (i - 1)]
  <2> DEFINE both == front \o rest
  <2>1. /\ both \in Seq(S)
        /\ Len(both) = Len(front) + Len(rest)
        /\ \A k \in 1..(Len(front) + Len(rest)) :
              both[k] = IF k <= Len(front) THEN front[k] ELSE rest[k - Len(front)]
    BY <1>2, <1>3, ConcatProperties, Zenon
  <2> HIDE DEF both
  <2>2. /\ both \in Seq(S) /\ Len(both) = Len(s) - 1
        /\ \A k \in 1..(Len(s) - 1) :
              both[k] = IF k <= i - 1 THEN front[k] ELSE rest[k - (i - 1)]
    <3>1. Len(front) = i - 1 /\ Len(front) + Len(rest) = Len(s) - 1
      BY <1>1, <1>2, <1>3
    <3> QED BY <2>1, <3>1
  <2> QED BY <2>2 DEF both
<1>6. DOMAIN (front \o rest) = 1..(Len(s) - 1)
  BY <1>5, LenProperties
<1>7. ASSUME NEW k \in 1..(Len(s) - 1)
      PROVE  (front \o rest)[k] = IF k < i THEN s[k] ELSE s[k + 1]
  <2>1. CASE k < i
    BY <1>1, <1>2, <1>5, <2>1
  <2>2. CASE ~(k < i)
    <3>1. k - (i - 1) \in 1..(Len(s) - i) /\ k - (i - 1) + i = k + 1
      BY <1>1, <2>2
    <3>2. rest[k - (i - 1)] = s[k + 1]
      BY <1>3, <3>1
    <3> QED BY <1>1, <1>5, <2>2, <3>2
  <2> QED BY <2>1, <2>2
<1> QED BY <1>4, <1>5, <1>6, <1>7

==============================================================================
