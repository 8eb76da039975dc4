--------------------------- MODULE CountingTheorems --------------------------
(***************************************************************************)
(* Least elements, and sums over finite sets, for the proofs that count.   *)
(* The sum of the community modules is a recursive function over subsets   *)
(* that picks its elements by CHOOSE: here it is shown to exist, and the   *)
(* order of its elements to be irrelevant. Induction is by the least       *)
(* counterexample.                                                         *)
(***************************************************************************)
EXTENDS Integers, Functions, FiniteSetTheorems, WellFoundedInduction, TLAPS

-----------------------------------------------------------------------------

\* A nonempty collection of finite sets has a member none of whose elements
\* can be removed within the collection.
LEMMA SmallestMember ==
    ASSUME NEW S, IsFiniteSet(S), NEW C \in SUBSET (SUBSET S), C # {}
    PROVE  \E s \in C : \A x \in s : s \ {x} \notin C
  <1>1. IsWellFoundedOn(StrictSubsetOrdering(S), SUBSET S)
    BY FS_StrictSubsetOrderingWellFounded, FS_FiniteSubsetsOfFinite
  <1>2. PICK s \in C : \A t \in C : ~ (<<t, s>> \in StrictSubsetOrdering(S))
    <2> DEFINE R == StrictSubsetOrdering(S)
    <2> HIDE DEF R
    <2>1. IsWellFoundedOn(R, SUBSET S)
      BY <1>1 DEF R
    <2>2. \E s \in C : \A t \in C : ~ (<<t, s>> \in R)
      BY <2>1, WFMin
    <2> QED
      BY <2>2 DEF R
  <1>3. ASSUME NEW x \in s PROVE s \ {x} \notin C
    <2>1. <<s \ {x}, s>> \in (SUBSET S) \X (SUBSET S)
      OBVIOUS
    <2>2. <<s \ {x}, s>> \in StrictSubsetOrdering(S)
      BY <2>1 DEF StrictSubsetOrdering
    <2> QED
      BY <1>2, <2>2
  <1> QED
    BY <1>3

\* A set of natural numbers has a least element.
LEMMA LeastNatural ==
    ASSUME NEW T, T \subseteq Nat, T # {}
    PROVE  \E m \in T : \A k \in T : m <= k
  <1> DEFINE R == OpToRel(<, Nat)
  <1>1. IsWellFoundedOn(R, Nat)
    BY NatLessThanWellFounded
  <1>2. PICK m \in T : \A k \in T : ~ (<<k, m>> \in R)
    <2> HIDE DEF R
    <2> QED
      BY <1>1, WFMin
  <1>3. ASSUME NEW k \in T PROVE m <= k
    <2>1. k \in Nat /\ m \in Nat /\ <<k, m>> \in Nat \X Nat
      OBVIOUS
    <2>2. ~ (<<k, m>>[1] < <<k, m>>[2])
      BY <1>2, <2>1 DEF OpToRel
    <2> QED
      BY <2>1, <2>2
  <1> QED
    BY <1>3

\* A correspondence preserves the number of elements.
LEMMA SameCount ==
    ASSUME NEW S, IsFiniteSet(S), NEW T, NEW f \in [S -> T],
           \A t \in T : \E s \in S : f[s] = t,
           \A r, s \in S : f[r] = f[s] => r = s
    PROVE  IsFiniteSet(T) /\ Cardinality(T) = Cardinality(S)
  <1>1. f \in Surjection(S, T)
    BY DEF Surjection
  <1>2. f \in Injection(S, T)
    BY DEF Injection, IsInjective
  <1> QED
    BY <1>1, <1>2, FS_Surjection

-----------------------------------------------------------------------------

Chosen(s) == CHOOSE x \in s : TRUE

Sums(g, F, D) ==
    g = [s \in D |-> IF s = {} THEN 0 ELSE F[Chosen(s)] + g[s \ {Chosen(s)}]]

\* The sum is a value of a function chosen to satisfy its recursion.
LEMMA SumUnfolded ==
    ASSUME NEW F, NEW S
    PROVE  SumFunctionOnSet(F, S) = (CHOOSE g : Sums(g, F, SUBSET S))[S]
  BY DEF SumFunctionOnSet, FoldFunctionOnSet, MapThenFoldSet, Sums, Chosen

\* Such functions exist: on the subsets of one more element by one more step.
LEMMA SumsExist ==
    ASSUME NEW F, NEW S, IsFiniteSet(S)
    PROVE  \E g : Sums(g, F, SUBSET S)
  <1> DEFINE Small(n) == {s \in SUBSET S : Cardinality(s) <= n}
             Without == {n \in Nat : ~ \E g : Sums(g, F, Small(n))}
  <1>1. \A s \in SUBSET S : IsFiniteSet(s) /\ Cardinality(s) \in Nat /\ Cardinality(s) <= Cardinality(S)
    BY FS_Subset, FS_CardinalityType
  <1>2. Without = {}
    <2>1. SUFFICES ASSUME Without # {} PROVE FALSE
      OBVIOUS
    <2>2. PICK n \in Without : \A k \in Without : n <= k
      <3> HIDE DEF Without
      <3>1. Without \subseteq Nat
        BY DEF Without
      <3> QED
        BY <2>1, <3>1, LeastNatural
    <2>3. CASE n = 0
      <3>1. \A s \in Small(0) : s = {}
        BY <1>1, FS_EmptySet
      <3>2. Sums([s \in Small(0) |-> 0], F, Small(0))
        BY <3>1 DEF Sums
      <3> QED
        BY <2>2, <2>3, <3>2
    <2>4. CASE n # 0
      <3>1. n - 1 \in Nat /\ n - 1 \notin Without
        <4> HIDE DEF Without
        <4>1. n \in Nat
          BY <2>2 DEF Without
        <4> QED
          BY <2>2, <2>4, <4>1
      <3>2. PICK g : Sums(g, F, Small(n - 1))
        BY <3>1
      <3> DEFINE h == [s \in Small(n) |-> IF s = {} THEN 0
                                          ELSE F[Chosen(s)] + g[s \ {Chosen(s)}]]
      <3>3. \A s \in Small(n - 1) : s \in Small(n) /\ h[s] = g[s]
        <4> SUFFICES ASSUME NEW s \in Small(n - 1) PROVE s \in Small(n) /\ h[s] = g[s]
          OBVIOUS
        <4>1. s \in Small(n)
          BY <1>1, <3>1
        <4>2. h[s] = IF s = {} THEN 0 ELSE F[Chosen(s)] + g[s \ {Chosen(s)}]
          BY <4>1
        <4>3. g[s] = IF s = {} THEN 0 ELSE F[Chosen(s)] + g[s \ {Chosen(s)}]
          BY <3>2 DEF Sums
        <4> QED
          BY <4>1, <4>2, <4>3
      <3>4. \A s \in Small(n) : s # {} => s \ {Chosen(s)} \in Small(n - 1)
        <4> SUFFICES ASSUME NEW s \in Small(n), s # {} PROVE s \ {Chosen(s)} \in Small(n - 1)
          OBVIOUS
        <4>1. Chosen(s) \in s
          BY DEF Chosen
        <4>2. Cardinality(s \ {Chosen(s)}) = Cardinality(s) - 1
          BY <1>1, <4>1, FS_RemoveElement
        <4> QED
          BY <1>1, <3>1, <4>2
      <3>5. Sums(h, F, Small(n))
        BY <3>3, <3>4 DEF Sums
      <3> QED
        BY <2>2, <3>5
    <2> QED
      BY <2>3, <2>4
  <1>3. Small(Cardinality(S)) = SUBSET S
    BY <1>1
  <1>4. Cardinality(S) \in Nat
    BY FS_CardinalityType
  <1> QED
    BY <1>2, <1>3, <1>4

\* Two of them agree where both are defined.
LEMMA SumsAgree ==
    ASSUME NEW F, NEW S, IsFiniteSet(S), NEW T \in SUBSET S,
           NEW g, Sums(g, F, SUBSET S), NEW h, Sums(h, F, SUBSET T)
    PROVE  h[T] = g[T]
  <1> DEFINE C == {s \in SUBSET T : h[s] # g[s]}
  <1>1. IsFiniteSet(T)
    BY FS_Subset
  <1>2. SUFFICES ASSUME C # {} PROVE FALSE
    OBVIOUS
  <1>3. PICK s \in C : \A x \in s : s \ {x} \notin C
    <2> HIDE DEF C
    <2>1. C \in SUBSET (SUBSET T)
      BY DEF C
    <2> QED
      BY <1>1, <1>2, <2>1, SmallestMember
  <1>4. s # {}
    BY <1>3 DEF Sums
  <1>5. Chosen(s) \in s /\ s \ {Chosen(s)} \in SUBSET T
    BY <1>4 DEF Chosen
  <1>6. h[s \ {Chosen(s)}] = g[s \ {Chosen(s)}]
    BY <1>3, <1>5
  <1>7. /\ h[s] = F[Chosen(s)] + h[s \ {Chosen(s)}]
        /\ g[s] = F[Chosen(s)] + g[s \ {Chosen(s)}]
    BY <1>3, <1>4 DEF Sums
  <1> QED
    BY <1>3, <1>6, <1>7

\* The recursion without the function: an empty sum is zero, and any other is
\* its chosen element's value and the sum of the rest.
LEMMA SumStep ==
    ASSUME NEW F, NEW S, IsFiniteSet(S)
    PROVE  /\ S = {} => SumFunctionOnSet(F, S) = 0
           /\ S # {} => /\ Chosen(S) \in S
                        /\ SumFunctionOnSet(F, S) =
                              F[Chosen(S)] + SumFunctionOnSet(F, S \ {Chosen(S)})
  <1> DEFINE G(T) == CHOOSE g : Sums(g, F, SUBSET T)
             T == S \ {Chosen(S)}
  <1>1. IsFiniteSet(T)
    BY FS_Subset
  <1>2. Sums(G(S), F, SUBSET S) /\ Sums(G(T), F, SUBSET T)
    <2>1. \E g : Sums(g, F, SUBSET S)
      BY SumsExist
    <2>2. \E g : Sums(g, F, SUBSET T)
      BY <1>1, SumsExist
    <2> QED
      BY <2>1, <2>2
  <1>3. SumFunctionOnSet(F, S) = G(S)[S] /\ SumFunctionOnSet(F, T) = G(T)[T]
    BY SumUnfolded
  <1> HIDE DEF G
  <1>4. G(T)[T] = G(S)[T]
    <2>1. T \in SUBSET S
      OBVIOUS
    <2> QED
      BY <1>2, <2>1, SumsAgree
  <1>5. S = {} => G(S)[S] = 0
    BY <1>2 DEF Sums
  <1>6. S # {} => Chosen(S) \in S /\ G(S)[S] = F[Chosen(S)] + G(S)[T]
    <2>1. S # {} => Chosen(S) \in S
      BY DEF Chosen
    <2>2. G(S)[S] = IF S = {} THEN 0 ELSE F[Chosen(S)] + G(S)[S \ {Chosen(S)}]
      BY <1>2 DEF Sums
    <2> QED
      BY <2>1, <2>2
  <1> QED
    BY <1>3, <1>4, <1>5, <1>6

\* A sum of integers is an integer.
LEMMA SumType ==
    ASSUME NEW S, IsFiniteSet(S), NEW F, \A x \in S : F[x] \in Int
    PROVE  SumFunctionOnSet(F, S) \in Int
  <1> DEFINE C == {s \in SUBSET S : SumFunctionOnSet(F, s) \notin Int}
  <1>1. SUFFICES ASSUME C # {} PROVE FALSE
    OBVIOUS
  <1>2. PICK s \in C : \A x \in s : s \ {x} \notin C
    <2> HIDE DEF C
    <2>1. C \in SUBSET (SUBSET S)
      BY DEF C
    <2> QED
      BY <1>1, <2>1, SmallestMember
  <1>3. IsFiniteSet(s)
    BY FS_Subset
  <1>4. s # {} /\ Chosen(s) \in s
    BY <1>2, <1>3, SumStep
  <1>5. SumFunctionOnSet(F, s \ {Chosen(s)}) \in Int
    BY <1>2, <1>4
  <1>6. SumFunctionOnSet(F, s) = F[Chosen(s)] + SumFunctionOnSet(F, s \ {Chosen(s)})
    BY <1>3, <1>4, SumStep
  <1> QED
    BY <1>2, <1>4, <1>5, <1>6

\* A sum of natural numbers is a natural number.
LEMMA SumNatural ==
    ASSUME NEW S, IsFiniteSet(S), NEW F, \A x \in S : F[x] \in Nat
    PROVE  SumFunctionOnSet(F, S) \in Nat
  <1> DEFINE C == {s \in SUBSET S : SumFunctionOnSet(F, s) \notin Nat}
  <1>1. SUFFICES ASSUME C # {} PROVE FALSE
    OBVIOUS
  <1>2. PICK s \in C : \A x \in s : s \ {x} \notin C
    <2> HIDE DEF C
    <2>1. C \in SUBSET (SUBSET S)
      BY DEF C
    <2> QED
      BY <1>1, <2>1, SmallestMember
  <1>3. IsFiniteSet(s)
    BY FS_Subset
  <1>4. s # {} /\ Chosen(s) \in s
    <2>1. SumFunctionOnSet(F, s) \notin Nat
      BY <1>2
    <2>2. s = {} => SumFunctionOnSet(F, s) = 0
      BY <1>3, SumStep
    <2>3. s # {} => Chosen(s) \in s
      BY <1>3, SumStep
    <2> HIDE DEF C
    <2> QED
      BY <2>1, <2>2, <2>3
  <1>5. SumFunctionOnSet(F, s \ {Chosen(s)}) \in Nat
    BY <1>2, <1>4
  <1>6. SumFunctionOnSet(F, s) = F[Chosen(s)] + SumFunctionOnSet(F, s \ {Chosen(s)})
    BY <1>3, <1>4, SumStep
  <1>7. F[Chosen(s)] \in Nat
    BY <1>2, <1>4
  <1>8. SumFunctionOnSet(F, s) \in Nat
    BY <1>5, <1>6, <1>7
  <1> QED
    BY <1>2, <1>8

\* Any element may be taken out first: a sum over the ledger's entries does not
\* depend on the order in which SumFunctionOnSet picks them.
THEOREM SumSplit ==
    ASSUME NEW S, IsFiniteSet(S), NEW F, \A x \in S : F[x] \in Int, NEW e \in S
    PROVE  SumFunctionOnSet(F, S) = F[e] + SumFunctionOnSet(F, S \ {e})
  <1> DEFINE C == {s \in SUBSET S : \E x \in s :
                      SumFunctionOnSet(F, s) # F[x] + SumFunctionOnSet(F, s \ {x})}
  <1>1. SUFFICES ASSUME C # {} PROVE FALSE
    OBVIOUS
  <1>2. PICK s \in C : \A x \in s : s \ {x} \notin C
    <2> HIDE DEF C
    <2>1. C \in SUBSET (SUBSET S)
      BY DEF C
    <2> QED
      BY <1>1, <2>1, SmallestMember
  <1>3. PICK x \in s : SumFunctionOnSet(F, s) # F[x] + SumFunctionOnSet(F, s \ {x})
    BY <1>2
  <1> DEFINE p == Chosen(s)
  <1>4. IsFiniteSet(s) /\ IsFiniteSet(s \ {x}) /\ IsFiniteSet((s \ {x}) \ {p})
    BY FS_Subset
  <1>5. p \in s /\ SumFunctionOnSet(F, s) = F[p] + SumFunctionOnSet(F, s \ {p})
    BY <1>3, <1>4, SumStep
  <1> HIDE DEF p
  <1>6. p # x
    BY <1>3, <1>5
  <1>7. SumFunctionOnSet(F, s \ {p}) = F[x] + SumFunctionOnSet(F, (s \ {p}) \ {x})
    BY <1>2, <1>5, <1>6
  <1>8. SumFunctionOnSet(F, s \ {x}) = F[p] + SumFunctionOnSet(F, (s \ {x}) \ {p})
    BY <1>2, <1>5, <1>6
  <1>9. (s \ {p}) \ {x} = (s \ {x}) \ {p}
    OBVIOUS
  <1>10. SumFunctionOnSet(F, (s \ {x}) \ {p}) \in Int
    BY <1>4, SumType
  <1>11. F[x] \in Int /\ F[p] \in Int
    BY <1>5
  <1>12. \A a, b, c \in Int : b + (a + c) = a + (b + c)
    OBVIOUS
  <1>13. SumFunctionOnSet(F, s) = F[x] + SumFunctionOnSet(F, s \ {x})
    <2> DEFINE rest == SumFunctionOnSet(F, (s \ {x}) \ {p})
    <2>1. SumFunctionOnSet(F, s \ {p}) = F[x] + rest
      BY <1>7, <1>9
    <2>2. rest \in Int
      BY <1>10
    <2> HIDE DEF C, rest
    <2>3. F[p] + (F[x] + rest) = F[x] + (F[p] + rest)
      BY <1>11, <1>12, <2>2
    <2>4. SumFunctionOnSet(F, s) = F[p] + (F[x] + rest)
      BY <1>5, <2>1
    <2>5. SumFunctionOnSet(F, s \ {x}) = F[p] + rest
      BY <1>8 DEF rest
    <2> QED
      BY <2>3, <2>4, <2>5
  <1> QED
    BY <1>3, <1>13

\* Only the values on the set matter.
LEMMA SumSame ==
    ASSUME NEW S, IsFiniteSet(S), NEW F, NEW G, \A x \in S : F[x] = G[x]
    PROVE  SumFunctionOnSet(F, S) = SumFunctionOnSet(G, S)
  <1> DEFINE C == {s \in SUBSET S : SumFunctionOnSet(F, s) # SumFunctionOnSet(G, s)}
  <1>1. SUFFICES ASSUME C # {} PROVE FALSE
    OBVIOUS
  <1>2. PICK s \in C : \A x \in s : s \ {x} \notin C
    <2> HIDE DEF C
    <2>1. C \in SUBSET (SUBSET S)
      BY DEF C
    <2> QED
      BY <1>1, <2>1, SmallestMember
  <1>3. IsFiniteSet(s)
    BY FS_Subset
  <1>4. s # {} /\ Chosen(s) \in s
    BY <1>2, <1>3, SumStep
  <1>5. SumFunctionOnSet(F, s \ {Chosen(s)}) = SumFunctionOnSet(G, s \ {Chosen(s)})
    BY <1>2, <1>4
  <1>6. /\ SumFunctionOnSet(F, s) = F[Chosen(s)] + SumFunctionOnSet(F, s \ {Chosen(s)})
        /\ SumFunctionOnSet(G, s) = G[Chosen(s)] + SumFunctionOnSet(G, s \ {Chosen(s)})
    BY <1>3, <1>4, SumStep
  <1> QED
    BY <1>2, <1>4, <1>5, <1>6

\* One more element adds its value.
LEMMA SumGrows ==
    ASSUME NEW S, IsFiniteSet(S), NEW e, e \notin S,
           NEW F, NEW G, \A x \in S : G[x] = F[x] /\ F[x] \in Int, G[e] \in Int
    PROVE  SumFunctionOnSet(G, S \cup {e}) = SumFunctionOnSet(F, S) + G[e]
  <1>1. IsFiniteSet(S \cup {e}) /\ (S \cup {e}) \ {e} = S
    BY FS_AddElement
  <1>2. SumFunctionOnSet(G, S \cup {e}) = G[e] + SumFunctionOnSet(G, S)
    <2>1. SumFunctionOnSet(G, S \cup {e}) = G[e] + SumFunctionOnSet(G, (S \cup {e}) \ {e})
      BY <1>1, SumSplit
    <2> QED
      BY <1>1, <2>1
  <1>3. SumFunctionOnSet(G, S) = SumFunctionOnSet(F, S)
    BY SumSame
  <1>4. SumFunctionOnSet(F, S) \in Int
    BY SumType
  <1> QED
    BY <1>2, <1>3, <1>4

\* A changed element changes the sum by the difference.
LEMMA SumChanges ==
    ASSUME NEW S, IsFiniteSet(S), NEW e \in S, NEW F, NEW G,
           \A x \in S : F[x] \in Int /\ G[x] \in Int, \A x \in S \ {e} : G[x] = F[x]
    PROVE  SumFunctionOnSet(G, S) = SumFunctionOnSet(F, S) - F[e] + G[e]
  <1>1. IsFiniteSet(S \ {e})
    BY FS_Subset
  <1>2. /\ SumFunctionOnSet(F, S) = F[e] + SumFunctionOnSet(F, S \ {e})
        /\ SumFunctionOnSet(G, S) = G[e] + SumFunctionOnSet(G, S \ {e})
    BY SumSplit
  <1>3. SumFunctionOnSet(G, S \ {e}) = SumFunctionOnSet(F, S \ {e})
    BY <1>1, SumSame
  <1>4. SumFunctionOnSet(F, S \ {e}) \in Int
    BY <1>1, SumType
  <1> QED
    BY <1>2, <1>3, <1>4

=============================================================================
