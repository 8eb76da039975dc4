---------------------------- MODULE ChunkerProofs -----------------------------
(***************************************************************************)
(* What chunking guarantees for pages of any length, every cap and every   *)
(* overlap. In order: spans and the order InOrder gives them; the tokens   *)
(* of a text and of a cut of the page, where counting by the page's offsets*)
(* is shown to be exact; words, where a word over the cap is split, and the*)
(* units these make; one window of the loop; the loop's invariant; and that*)
(* two loops which take the same rounds end with the same chunks.          *)
(***************************************************************************)
EXTENDS Chunker, CountingTheorems, SequenceTheorems, TLAPS

-----------------------------------------------------------------------------
(* Greatest and least elements of bounded sets of integers. *)

LEMMA MaxIs ==
    ASSUME NEW a \in Int, NEW b \in Int, NEW S \in SUBSET (a..b), S # {}
    PROVE  /\ Max(S) \in S /\ Max(S) \in Int
           /\ \A x \in S : x <= Max(S)
<1>1. PICK T : T = {b - x : x \in S}
  OBVIOUS
<1>2. T \subseteq Nat /\ T # {}
  <2>1. \A x \in S : x \in Int /\ a <= x /\ x <= b
    OBVIOUS
  <2>2. \A x \in S : b - x \in Nat
    BY <2>1
  <2> QED  BY <1>1, <2>2
<1>3. PICK m \in T : \A k \in T : m <= k
  BY <1>2, LeastNatural
<1>4. PICK x \in S : m = b - x
  BY <1>1
<1>5. \A y \in S : x >= y
  <2> TAKE y \in S
  <2>1. b - y \in T /\ y \in Int /\ x \in Int
    BY <1>1
  <2>2. b - x <= b - y
    BY <1>3, <1>4, <2>1
  <2> QED  BY <2>1, <2>2
<1>6. Max(S) \in S /\ \A y \in S : Max(S) >= y
  BY <1>5 DEF Max
<1>7. \A y \in S : y \in Int
  OBVIOUS
<1> QED  BY <1>6, <1>7

LEMMA MinIs ==
    ASSUME NEW a \in Int, NEW b \in Int, NEW S \in SUBSET (a..b), S # {}
    PROVE  /\ Min(S) \in S /\ Min(S) \in Int
           /\ \A x \in S : Min(S) <= x
<1>1. PICK T : T = {x - a : x \in S}
  OBVIOUS
<1>2. T \subseteq Nat /\ T # {}
  <2>1. \A x \in S : x \in Int /\ a <= x /\ x <= b
    OBVIOUS
  <2>2. \A x \in S : x - a \in Nat
    BY <2>1
  <2> QED  BY <1>1, <2>2
<1>3. PICK m \in T : \A k \in T : m <= k
  BY <1>2, LeastNatural
<1>4. PICK x \in S : m = x - a
  BY <1>1
<1>5. \A y \in S : x =< y
  <2> TAKE y \in S
  <2>1. y - a \in T /\ y \in Int /\ x \in Int
    BY <1>1
  <2>2. x - a <= y - a
    BY <1>3, <1>4, <2>1
  <2> QED  BY <2>1, <2>2
<1>6. Min(S) \in S /\ \A y \in S : Min(S) =< y
  BY <1>5 DEF Min
<1>7. \A y \in S : y \in Int
  OBVIOUS
<1> QED  BY <1>6, <1>7

-----------------------------------------------------------------------------
(* Spans that do not overlap, and the order InOrder puts them in. *)

Span(t) == t = <<t[1], t[2]>> /\ t[1] \in Nat /\ t[2] \in Nat /\ t[1] < t[2]

Apart(S) ==
    /\ IsFiniteSet(S)
    /\ \A t \in S : Span(t)
    /\ \A t, u \in S : t[1] <= u[1] => t = u \/ t[2] <= u[1]

UpTo(S, t) == {u \in S : u[1] <= t[1]}

LEMMA RankRises ==
    ASSUME NEW S, Apart(S)
    PROVE  /\ \A t \in S : Cardinality(UpTo(S, t)) \in 1..Cardinality(S)
           /\ \A t, u \in S : t[1] < u[1] => Cardinality(UpTo(S, t)) < Cardinality(UpTo(S, u))
<1>1. IsFiniteSet(S) /\ Cardinality(S) \in Nat
  BY FS_CardinalityType DEF Apart
<1>2. ASSUME NEW t \in S
      PROVE  /\ IsFiniteSet(UpTo(S, t)) /\ Cardinality(UpTo(S, t)) \in 1..Cardinality(S)
             /\ t \in UpTo(S, t)
  <2>1. UpTo(S, t) \in SUBSET S /\ t \in UpTo(S, t)
    BY DEF UpTo, Apart, Span
  <2>2. IsFiniteSet(UpTo(S, t)) /\ Cardinality(UpTo(S, t)) <= Cardinality(S)
    BY <1>1, <2>1, FS_Subset
  <2>3. Cardinality(UpTo(S, t)) \in Nat /\ Cardinality(UpTo(S, t)) # 0
    BY <2>1, <2>2, FS_CardinalityType, FS_EmptySet
  <2> QED  BY <1>1, <2>1, <2>2, <2>3
<1>3. ASSUME NEW t \in S, NEW u \in S, t[1] < u[1]
      PROVE  Cardinality(UpTo(S, t)) < Cardinality(UpTo(S, u))
  <2>1. UpTo(S, t) \in SUBSET UpTo(S, u) /\ u \notin UpTo(S, t)
    <3>1. \A x \in S : x[1] \in Nat
      BY DEF Apart, Span
    <3> QED  BY <1>3, <3>1 DEF UpTo
  <2>2. /\ Cardinality(UpTo(S, t)) <= Cardinality(UpTo(S, u))
        /\ Cardinality(UpTo(S, u)) = Cardinality(UpTo(S, t)) => UpTo(S, u) = UpTo(S, t)
    BY <1>2, <2>1, FS_Subset
  <2>3. Cardinality(UpTo(S, t)) \in Nat /\ Cardinality(UpTo(S, u)) \in Nat
    BY <1>2
  <2> QED  BY <1>2, <2>1, <2>2, <2>3
<1> QED  BY <1>2, <1>3

LEMMA RanksAreTaken ==
    ASSUME NEW S, Apart(S)
    PROVE  /\ \A t, u \in S : Cardinality(UpTo(S, t)) = Cardinality(UpTo(S, u)) => t = u
           /\ \A k \in 1..Cardinality(S) : \E t \in S : Cardinality(UpTo(S, t)) = k
<1>1. \A t \in S : Cardinality(UpTo(S, t)) \in Nat
  BY RankRises, FS_CardinalityType DEF Apart
<1>2. ASSUME NEW t \in S, NEW u \in S, Cardinality(UpTo(S, t)) = Cardinality(UpTo(S, u))
      PROVE  t = u
  <2>1. ~(t[1] < u[1]) /\ ~(u[1] < t[1])
    BY <1>1, <1>2, RankRises
  <2>2. Span(t) /\ Span(u)
    BY DEF Apart
  <2>3. t[1] = u[1]
    BY <2>1, <2>2 DEF Span
  <2> QED  BY <2>2, <2>3 DEF Apart, Span
<1>3. PICK n, taken : n = Cardinality(S) /\ taken = {Cardinality(UpTo(S, t)) : t \in S}
  OBVIOUS
<1>4. Cardinality(taken) = n
  <2>1. PICK T, f : T = S /\ f = [t \in T |-> Cardinality(UpTo(S, t))]
    OBVIOUS
  <2>2. IsFiniteSet(T) /\ f \in [T -> taken]
    BY <1>3, <2>1 DEF Apart
  <2>3. \A k \in taken : \E t \in T : f[t] = k
    BY <1>3, <2>1
  <2>4. \A t, u \in T : f[t] = f[u] => t = u
    BY <1>2, <2>1
  <2>5. Cardinality(taken) = Cardinality(T)
    BY <2>2, <2>3, <2>4, SameCount
  <2> QED  BY <1>3, <2>1, <2>5
<1>5. taken = 1..n
  <2>1. n \in Nat
    BY <1>3, FS_CardinalityType DEF Apart
  <2>2. IsFiniteSet(1..n) /\ Cardinality(1..n) = n
    <3>1. IsFiniteSet(1..n) /\ Cardinality(1..n) = IF 1 > n THEN 0 ELSE n - 1 + 1
      BY <2>1, FS_Interval
    <3> QED  BY <2>1, <3>1
  <2>3. taken \in SUBSET (1..n)
    BY <1>3, RankRises
  <2> QED  BY <1>4, <2>2, <2>3, FS_Subset
<1> QED  BY <1>2, <1>3, <1>5

(* InOrder lists the spans, each once, from left to right. *)
LEMMA InOrderLists ==
    ASSUME NEW S, Apart(S), NEW s, s = InOrder(S)
    PROVE  /\ s \in Seq(S) /\ Len(s) = Cardinality(S) /\ Len(s) \in Nat
           /\ \A k \in 1..Len(s) : s[k] \in S /\ Span(s[k])
           /\ \A t \in S : \E k \in 1..Len(s) : s[k] = t
           /\ \A j, k \in 1..Len(s) : j < k => s[j][2] <= s[k][1]
<1>1. PICK n : n = Cardinality(S) /\ n \in Nat
  BY FS_CardinalityType DEF Apart
<1>2. ASSUME NEW k \in 1..n
      PROVE  s[k] \in S /\ Cardinality(UpTo(S, s[k])) = k
  <2>1. \E t \in S : Cardinality(UpTo(S, t)) = k
    BY <1>1, RanksAreTaken
  <2>2. s[k] = CHOOSE t \in S : Cardinality(UpTo(S, t)) = k
    BY <1>1 DEF InOrder, UpTo
  <2> QED  BY <2>1, <2>2
<1>3. s \in [1..n -> S]
  <2>1. s = [k \in 1..n |-> CHOOSE t \in S : Cardinality({u \in S : u[1] <= t[1]}) = k]
    BY <1>1, Zenon DEF InOrder
  <2>2. s = [k \in 1..n |-> s[k]]
    BY <2>1, Zenon
  <2> QED  BY <1>2, <2>2
<1>4. s \in Seq(S) /\ Len(s) = n
  BY <1>1, <1>3
<1>5. ASSUME NEW t \in S PROVE \E k \in 1..n : s[k] = t
  <2>1. PICK k \in 1..n : k = Cardinality(UpTo(S, t))
    BY <1>1, RankRises
  <2> QED  BY <1>2, <2>1, RanksAreTaken
<1>6. ASSUME NEW j \in 1..n, NEW k \in 1..n, j < k
      PROVE  s[j][2] <= s[k][1]
  <2>1. Span(s[j]) /\ Span(s[k]) /\ s[j] # s[k]
    BY <1>2, <1>6 DEF Apart
  <2>2. ~(s[k][1] < s[j][1])
    BY <1>2, <1>6, RankRises
  <2>3. s[j][1] <= s[k][1]
    BY <2>1, <2>2 DEF Span
  <2> QED  BY <1>2, <2>1, <2>3 DEF Apart
<1> QED  BY <1>1, <1>2, <1>4, <1>5, <1>6 DEF Apart

-----------------------------------------------------------------------------
(* Tokens of a text. *)

Texts == Seq(Characters)

LEMMA Neighbours ==
    ASSUME NEW text \in Texts, NEW i \in 1..Len(text)
    PROVE  /\ Before(text, i) \subseteq 1..(i - 1)
           /\ Before(text, i) # {} =>
                  /\ Max(Before(text, i)) \in Before(text, i)
                  /\ \A j \in Before(text, i) : j <= Max(Before(text, i))
           /\ After(text, i) \subseteq (i + 1)..Len(text)
           /\ After(text, i) # {} =>
                  /\ Min(After(text, i)) \in After(text, i)
                  /\ \A j \in After(text, i) : Min(After(text, i)) <= j
<1>1. Len(text) \in Nat /\ i \in Int /\ i - 1 \in Int /\ i + 1 \in Int
  BY DEF Texts
<1>2. Before(text, i) \in SUBSET (1..(i - 1)) /\ After(text, i) \in SUBSET ((i + 1)..Len(text))
  BY DEF Before, After
<1>3. Before(text, i) # {} =>
          /\ Max(Before(text, i)) \in Before(text, i)
          /\ \A j \in Before(text, i) : j <= Max(Before(text, i))
  <2>1. PICK a, b, S : a = 1 /\ b = i - 1 /\ S = Before(text, i)
    OBVIOUS
  <2>2. a \in Int /\ b \in Int /\ S \in SUBSET (a..b)
    BY <1>1, <1>2, <2>1
  <2>3. S # {} => Max(S) \in S /\ \A j \in S : j <= Max(S)
    BY <2>2, MaxIs
  <2> QED  BY <2>1, <2>3
<1>4. After(text, i) # {} =>
          /\ Min(After(text, i)) \in After(text, i)
          /\ \A j \in After(text, i) : Min(After(text, i)) <= j
  <2>1. PICK a, b, S : a = i + 1 /\ b = Len(text) /\ S = After(text, i)
    OBVIOUS
  <2>2. a \in Int /\ b \in Int /\ S \in SUBSET (a..b)
    BY <1>1, <1>2, <2>1
  <2>3. S # {} => Min(S) \in S /\ \A j \in S : Min(S) <= j
    BY <2>2, MinIs
  <2> QED  BY <2>1, <2>3
<1> QED  BY <1>2, <1>3, <1>4

(* A text has as many tokens as there are characters where one begins, with *)
(* those where two begin counted twice.                                     *)
TokensOf(text, I) == {<<t[1] - 1, TokenEnd(text, t[1]), t[2]>> : t \in I}

LEMMA TokensOfCount ==
    ASSUME NEW text \in Texts, NEW I \in SUBSET Numbered(text)
    PROVE  /\ IsFiniteSet(I) /\ Cardinality(I) \in Nat
           /\ IsFiniteSet(TokensOf(text, I)) /\ Cardinality(TokensOf(text, I)) = Cardinality(I)
<1>1. Len(text) \in Nat /\ I \in SUBSET ((1..Len(text)) \X {1, 2})
  BY DEF Texts, TokenStarts, Numbered
<1>2. IsFiniteSet((1..Len(text)) \X {1, 2})
  <2>1. IsFiniteSet(1..Len(text))
    BY <1>1, FS_Interval
  <2>2. IsFiniteSet({1, 2})
    <3>1. {1, 2} = 1..2
      OBVIOUS
    <3>2. IsFiniteSet(1..2)
      <4>1. PICK a \in Int, b \in Int : a = 1 /\ b = 2
        OBVIOUS
      <4>2. IsFiniteSet(a..b)
        BY FS_Interval
      <4> QED  BY <4>1, <4>2
    <3> QED  BY <3>1, <3>2, Zenon
  <2> QED  BY <2>1, <2>2, FS_Product
<1>3. IsFiniteSet(I) /\ Cardinality(I) \in Nat
  BY <1>1, <1>2, FS_Subset, FS_CardinalityType
<1>4. PICK S, T, f : /\ S = I /\ T = TokensOf(text, I)
                     /\ f = [t \in S |-> <<t[1] - 1, TokenEnd(text, t[1]), t[2]>>]
  OBVIOUS
<1>5. f \in [S -> T] /\ \A u \in T : \E t \in S : f[t] = u
  BY <1>4 DEF TokensOf
<1>6. \A t, u \in S : f[t] = f[u] => t = u
  <2>1. \A t \in S : t[1] \in Int /\ t = <<t[1], t[2]>> /\ f[t][1] = t[1] - 1 /\ f[t][3] = t[2]
    BY <1>1, <1>4
  <2>2. ASSUME NEW t \in S, NEW u \in S, f[t] = f[u] PROVE t = u
    <3>1. t[1] - 1 = u[1] - 1 /\ t[2] = u[2]
      BY <2>1, <2>2
    <3>2. t[1] = u[1]
      BY <2>1, <3>1
    <3> QED  BY <2>1, <3>1, <3>2
  <2> QED  BY <2>2
<1>7. IsFiniteSet(T) /\ Cardinality(T) = Cardinality(S)
  BY <1>3, <1>4, <1>5, <1>6, SameCount
<1> QED  BY <1>3, <1>4, <1>7

LEMMA EncodeCount ==
    ASSUME NEW text \in Texts
    PROVE  /\ IsFiniteSet(Numbered(text)) /\ IsFiniteSet(Encode(text))
           /\ Cardinality(Encode(text)) = Cardinality(Numbered(text))
           /\ Cardinality(Encode(text)) \in Nat
<1>1. Encode(text) = TokensOf(text, Numbered(text))
  BY DEF Encode, TokensOf
<1> QED  BY <1>1, TokensOfCount

(* The tokens of a text begin where they begin in every longer one. *)
LEMMA PrefixStarts ==
    ASSUME NEW prefix \in Texts, NEW text \in Texts, Len(prefix) <= Len(text),
           \A i \in 1..Len(prefix) : prefix[i] = text[i]
    PROVE  Cardinality(Encode(prefix)) <= Cardinality(Encode(text))
<1>1. Len(prefix) \in Nat /\ Len(text) \in Nat
  BY DEF Texts
<1>2. ASSUME NEW i \in 1..Len(prefix)
      PROVE  /\ i \in 1..Len(text) /\ i \in Int
             /\ Before(prefix, i) = Before(text, i)
             /\ After(prefix, i) = After(text, i) \cap 1..Len(prefix)
  <2>1. i \in 1..Len(text) /\ i \in Int
    BY <1>1
  <2>2. Before(prefix, i) = Before(text, i)
    <3>1. \A j \in 1..(i - 1) : j \in 1..Len(prefix)
      BY <1>1
    <3> QED  BY <3>1 DEF Before
  <2>3. After(prefix, i) = After(text, i) \cap 1..Len(prefix)
    <3>1. ASSUME NEW j
          PROVE  j \in (i + 1)..Len(prefix) <=>
                     j \in (i + 1)..Len(text) /\ j \in 1..Len(prefix)
      BY <1>1, <2>1
    <3> QED  BY <3>1 DEF After
  <2> QED  BY <2>1, <2>2, <2>3
<1>3. ASSUME NEW i \in 1..Len(prefix), ~Erased(prefix[i]), Before(prefix, i) # {},
             Pairs(text, Max(Before(text, i)))
      PROVE  Pairs(prefix, Max(Before(prefix, i)))
  <2>1. PICK j : j = Max(Before(text, i)) /\ j = Max(Before(prefix, i))
    BY <1>2
  <2>2. j \in 1..(i - 1) /\ j \in 1..Len(prefix) /\ j \in 1..Len(text)
    BY <1>1, <1>2, <1>3, <2>1, Neighbours
  <2>3. i \in After(text, j) /\ i \in After(prefix, j)
    BY <1>1, <1>2, <1>3, <2>2 DEF After
  <2>4. PICK k : k = Min(After(text, j))
    OBVIOUS
  <2>5. k \in After(text, j) /\ k <= i /\ k \in (j + 1)..Len(text)
    BY <2>2, <2>3, <2>4, Neighbours
  <2>6. k \in After(prefix, j)
    BY <1>1, <1>2, <2>2, <2>5
  <2>7. Min(After(prefix, j)) = k
    <3>1. PICK l : l = Min(After(prefix, j))
      OBVIOUS
    <3>2. l \in After(prefix, j) /\ l <= k /\ l \in (j + 1)..Len(prefix)
      BY <2>2, <2>6, <3>1, Neighbours
    <3>3. l \in After(text, j)
      BY <1>2, <2>2, <3>2
    <3>4. k <= l
      BY <2>2, <2>4, <3>3, Neighbours
    <3> QED  BY <1>1, <2>5, <3>1, <3>2, <3>4
  <2>8. Begins(prefix, j) <=> Begins(text, j)
    <3>1. Before(prefix, j) = Before(text, j)
      BY <1>2, <2>2
    <3>2. Before(text, j) # {} => prefix[Max(Before(text, j))] = text[Max(Before(text, j))]
      <4>1. ASSUME Before(text, j) # {}
            PROVE  Max(Before(text, j)) \in 1..Len(prefix)
        <5>1. Max(Before(text, j)) \in 1..(j - 1)
          BY <2>2, <4>1, Neighbours
        <5> QED  BY <1>1, <2>2, <5>1
      <4> QED  BY <4>1
    <3> QED  BY <3>1, <3>2 DEF Begins
  <2>9. prefix[j] = text[j] /\ prefix[k] = text[k]
    BY <1>2, <2>2, <2>6
  <2> QED  BY <1>3, <2>1, <2>4, <2>6, <2>7, <2>8, <2>9 DEF Pairs
<1>4. TokenStarts(prefix) \in SUBSET TokenStarts(text)
  <2>1. DOMAIN prefix = 1..Len(prefix) /\ DOMAIN text = 1..Len(text)
    BY DEF Texts
  <2> QED  BY <1>2, <1>3, <2>1 DEF TokenStarts, IsSpace
<1>5. Numbered(prefix) \in SUBSET Numbered(text)
  <2>1. ASSUME NEW t \in Numbered(prefix) PROVE t \in Numbered(text)
    <3>1. t[1] \in 1..Len(prefix) /\ t \in TokenStarts(prefix) \X {1, 2}
      BY DEF Numbered, TokenStarts, Texts
    <3> QED  BY <1>4, <3>1 DEF Numbered
  <2> QED  BY <2>1
<1>6. Cardinality(Numbered(prefix)) <= Cardinality(Numbered(text))
  BY <1>5, EncodeCount, FS_Subset
<1> QED  BY <1>6, EncodeCount

-----------------------------------------------------------------------------
(* Slices of the page. *)

PageType == page \in Texts /\ cap \in Nat \ {0} /\ budget \in 0..(cap - 1) /\ ordered \in BOOLEAN

Cut(start, end) == start \in Nat /\ end \in Nat /\ start <= end /\ end <= Len(page)

LEMMA SliceIs ==
    ASSUME PageType, NEW start, NEW end, Cut(start, end)
    PROVE  /\ Slice(start, end) \in Texts /\ Len(Slice(start, end)) = end - start
           /\ \A i \in 1..(end - start) : /\ Slice(start, end)[i] = page[start + i]
                                          /\ start + i \in 1..Len(page)
<1>1. /\ page \in Seq(Characters) /\ Len(page) \in Nat /\ start \in Nat /\ end \in Nat
      /\ start <= end /\ end <= Len(page)
  BY DEF PageType, Texts, Cut
<1>2. Slice(start, end) = [i \in 1..(end - start) |-> page[start + i]]
  <2>1. Slice(start, end) = [i \in 1..(end - (start + 1) + 1) |-> page[(start + 1) + i - 1]]
    BY <1>1 DEF Slice
  <2>2. end - (start + 1) + 1 = end - start
    BY <1>1
  <2>3. \A i \in 1..(end - start) : (start + 1) + i - 1 = start + i
    BY <1>1
  <2> QED  BY <2>1, <2>2, <2>3
<1>3. \A i \in 1..(end - start) : start + i \in 1..Len(page) /\ page[start + i] \in Characters
  <2>1. \A i \in 1..(end - start) : start + i \in 1..Len(page)
    BY <1>1
  <2> QED  BY <1>1, <2>1
<1>4. Slice(start, end) \in [1..(end - start) -> Characters] /\ end - start \in Nat
  BY <1>1, <1>2, <1>3
<1>5. Slice(start, end) \in Seq(Characters) /\ Len(Slice(start, end)) = end - start
  BY <1>4
<1> QED  BY <1>2, <1>3, <1>5 DEF Texts

(* A longer cut from the same start has no fewer tokens. *)
LEMMA IsolatedGrows ==
    ASSUME PageType, NEW start, NEW end, Cut(start, end)
    PROVE  /\ Isolated(start, end) \in Nat
           /\ \A later : Cut(start, later) /\ end <= later =>
                  Isolated(start, end) <= Isolated(start, later)
<1>1. Isolated(start, end) \in Nat
  BY SliceIs, EncodeCount DEF Isolated
<1>2. ASSUME NEW later, Cut(start, later), end <= later
      PROVE  Isolated(start, end) <= Isolated(start, later)
  <2>1. PICK prefix, text : prefix = Slice(start, end) /\ text = Slice(start, later)
    OBVIOUS
  <2>2. /\ prefix \in Texts /\ Len(prefix) = end - start
        /\ \A i \in 1..(end - start) : prefix[i] = page[start + i]
    BY <2>1, SliceIs
  <2>3. /\ text \in Texts /\ Len(text) = later - start
        /\ \A i \in 1..(later - start) : text[i] = page[start + i]
    BY <1>2, <2>1, SliceIs
  <2>4. end - start <= later - start /\ \A i \in 1..(end - start) : i \in 1..(later - start)
    BY <1>2 DEF Cut
  <2>5. Cardinality(Encode(prefix)) <= Cardinality(Encode(text))
    BY <2>2, <2>3, <2>4, PrefixStarts
  <2> QED  BY <2>1, <2>5 DEF Isolated
<1> QED  BY <1>1, <1>2

-----------------------------------------------------------------------------
(* Texts from which the tokenizer erases nothing: a pair is two letters next *)
(* to each other.                                                            *)

Plain(text) == \A i \in 1..Len(text) : ~Erased(text[i])

PairAt(text, i) ==
    /\ text[i] = "b" /\ (i = 1 \/ text[i - 1] = " ")
    /\ i < Len(text) /\ text[i + 1] = "b"

LEMMA PlainTokens ==
    ASSUME NEW text \in Texts, Plain(text), NEW i \in 1..Len(text)
    PROVE  /\ Pairs(text, i) <=> PairAt(text, i)
           /\ TokenEnd(text, i) = IF PairAt(text, i) THEN i + 1 ELSE i
           /\ i \in TokenStarts(text) <=> text[i] # " " /\ (i = 1 \/ ~PairAt(text, i - 1))
<1>1. Len(text) \in Nat /\ DOMAIN text = 1..Len(text)
  BY DEF Texts
<1>2. ASSUME NEW j \in 1..Len(text)
      PROVE  /\ j = 1 => Before(text, j) = {}
             /\ j # 1 => Before(text, j) # {} /\ Max(Before(text, j)) = j - 1
             /\ After(text, j) # {} <=> j < Len(text)
             /\ j < Len(text) => Min(After(text, j)) = j + 1
  <2>1. Before(text, j) = 1..(j - 1) /\ After(text, j) = (j + 1)..Len(text)
    <3>1. \A k \in 1..(j - 1) : k \in 1..Len(text)
      BY <1>1
    <3>2. \A k \in (j + 1)..Len(text) : k \in 1..Len(text)
      BY <1>1
    <3> QED  BY <3>1, <3>2 DEF Before, After, Plain
  <2>2. ASSUME j # 1
        PROVE  Before(text, j) # {} /\ Max(Before(text, j)) = j - 1
    <3>1. j - 1 \in Before(text, j)
      BY <1>1, <2>1, <2>2
    <3>2. Max(Before(text, j)) \in 1..(j - 1) /\ j - 1 <= Max(Before(text, j))
      BY <2>1, <3>1, Neighbours
    <3> QED  BY <1>1, <3>1, <3>2
  <2>3. ASSUME j < Len(text)
        PROVE  After(text, j) # {} /\ Min(After(text, j)) = j + 1
    <3>1. j + 1 \in After(text, j)
      BY <1>1, <2>1, <2>3
    <3>2. Min(After(text, j)) \in (j + 1)..Len(text) /\ Min(After(text, j)) <= j + 1
      BY <2>1, <3>1, Neighbours
    <3> QED  BY <1>1, <3>1, <3>2
  <2>4. j = 1 => Before(text, j) = {}
    BY <2>1
  <2>5. ~(j < Len(text)) => After(text, j) = {}
    BY <1>1, <2>1
  <2> QED  BY <2>2, <2>3, <2>4, <2>5
<1>3. ASSUME NEW j \in 1..Len(text)
      PROVE  Pairs(text, j) <=> PairAt(text, j)
  <2>1. Begins(text, j) <=> j = 1 \/ text[j - 1] = " "
    BY <1>2 DEF Begins
  <2>2. After(text, j) # {} /\ text[Min(After(text, j))] = "b"
            <=> j < Len(text) /\ text[j + 1] = "b"
    BY <1>2
  <2> QED  BY <2>1, <2>2 DEF Pairs, PairAt
<1>4. TokenEnd(text, i) = IF PairAt(text, i) THEN i + 1 ELSE i
  <2>1. PairAt(text, i) => i < Len(text)
    BY DEF PairAt
  <2> QED  BY <1>2, <1>3, <2>1 DEF TokenEnd
<1>5. i \in TokenStarts(text) <=> text[i] # " " /\ (i = 1 \/ ~PairAt(text, i - 1))
  <2>1. ~IsSpace(text[i]) <=> text[i] # " "
    BY DEF IsSpace, Plain, Erased
  <2>2. i # 1 => i - 1 \in 1..Len(text)
    BY <1>1
  <2>3. (Before(text, i) # {} => ~Pairs(text, Max(Before(text, i))))
            <=> (i = 1 \/ ~PairAt(text, i - 1))
    BY <1>2, <1>3, <2>2
  <2> QED  BY <1>1, <2>1, <2>3 DEF TokenStarts, Plain
<1> QED  BY <1>3, <1>4, <1>5

(* A cut beside whitespace has the page's tokens that lie in it. *)
LEMMA CutStarts ==
    ASSUME PageType, Plain(page), NEW start, NEW end, Cut(start, end), ~InsideWord(start, end),
           NEW i \in 1..(end - start)
    PROVE  i \in TokenStarts(Slice(start, end)) <=> start + i \in TokenStarts(page)
<1>1. PICK text : text = Slice(start, end)
  OBVIOUS
<1>2. /\ page \in Texts /\ Len(page) \in Nat /\ start \in Nat /\ end \in Nat
      /\ start <= end /\ end <= Len(page)
  BY DEF PageType, Texts, Cut
<1>3. /\ text \in Texts /\ Len(text) = end - start
      /\ \A j \in 1..(end - start) : text[j] = page[start + j] /\ start + j \in 1..Len(page)
  BY <1>1, SliceIs
<1>4. Plain(text)
  BY <1>3 DEF Plain
<1>5. /\ start = 0 \/ page[start] = " "
      /\ end = Len(page) \/ page[end + 1] = " "
  <2>1. start # 0 => start \in 1..Len(page) /\ start > 0
    BY <1>2
  <2>2. end # Len(page) => end + 1 \in 1..Len(page) /\ end < Len(page)
    BY <1>2
  <2>3. start # 0 => ~Erased(page[start]) /\ IsSpace(page[start])
    BY <2>1 DEF InsideWord, Plain
  <2>4. end # Len(page) => ~Erased(page[end + 1]) /\ IsSpace(page[end + 1])
    BY <2>2 DEF InsideWord, Plain
  <2> QED  BY <2>3, <2>4 DEF IsSpace, Erased
<1>6. ASSUME NEW j \in 1..(end - start)
      PROVE  PairAt(text, j) <=> PairAt(page, start + j)
  <2>1. PICK k : k = start + j
    OBVIOUS
  <2>2. k \in 1..Len(page) /\ text[j] = page[k] /\ k \in Int /\ j \in Int
    BY <1>2, <1>3, <2>1
  <2>3. (j = 1 \/ text[j - 1] = " ") <=> (k = 1 \/ page[k - 1] = " ")
    <3>1. CASE j = 1
      <4>1. k - 1 = start /\ (start = 0 => k = 1)
        BY <1>2, <2>1, <3>1
      <4> QED  BY <1>5, <3>1, <4>1
    <3>2. CASE j # 1
      <4>1. j - 1 \in 1..(end - start) /\ start + (j - 1) = k - 1 /\ k # 1
        BY <1>2, <2>1, <3>2
      <4>2. text[j - 1] = page[k - 1]
        BY <1>3, <4>1
      <4> QED  BY <3>2, <4>1, <4>2
    <3> QED  BY <3>1, <3>2
  <2>4. j < Len(text) /\ text[j + 1] = "b" <=> k < Len(page) /\ page[k + 1] = "b"
    <3>1. CASE j < Len(text)
      <4>1. j + 1 \in 1..(end - start) /\ start + (j + 1) = k + 1 /\ k < Len(page)
        BY <1>2, <1>3, <2>1, <3>1
      <4>2. text[j + 1] = page[k + 1]
        BY <1>3, <4>1
      <4> QED  BY <3>1, <4>1, <4>2
    <3>2. CASE ~(j < Len(text))
      <4>1. k = end
        BY <1>2, <1>3, <2>1, <3>2
      <4>2. k < Len(page) => page[k + 1] = " "
        <5>1. end < Len(page) => end # Len(page)
          BY <1>2
        <5>2. end < Len(page) => page[end + 1] = " "
          BY <1>5, <5>1, Zenon
        <5> QED  BY <4>1, <5>2, Zenon
      <4>3. ~(k < Len(page) /\ page[k + 1] = "b")
        <5>1. " " # "b"
          OBVIOUS
        <5> QED  BY <4>2, <5>1, Zenon
      <4> QED  BY <3>2, <4>3, Zenon
    <3> QED  BY <3>1, <3>2
  <2>5. PairAt(text, j) <=> PairAt(page, k)
    BY <2>2, <2>3, <2>4, Zenon DEF PairAt
  <2> QED  BY <2>1, <2>5
<1>7. i \in TokenStarts(text) <=> text[i] # " " /\ (i = 1 \/ ~PairAt(text, i - 1))
  BY <1>3, <1>4, PlainTokens
<1>8. PICK k : k = start + i
  OBVIOUS
<1>9. /\ k \in 1..Len(page) /\ text[i] = page[k]
      /\ k \in TokenStarts(page) <=> page[k] # " " /\ (k = 1 \/ ~PairAt(page, k - 1))
  <2>1. k \in 1..Len(page) /\ text[i] = page[k]
    BY <1>2, <1>3, <1>8
  <2> QED  BY <1>2, <2>1, PlainTokens
<1>10. CASE i = 1
  <2>1. k - 1 = start /\ (start = 0 => k = 1)
    BY <1>2, <1>8, <1>10
  <2>2. k # 1 => ~PairAt(page, k - 1)
    BY <1>5, <2>1 DEF PairAt
  <2> QED  BY <1>1, <1>7, <1>9, <1>10, <1>8, <2>2
<1>11. CASE i # 1
  <2>1. i - 1 \in 1..(end - start) /\ start + (i - 1) = k - 1 /\ k # 1
    BY <1>2, <1>8, <1>11
  <2>2. PairAt(text, i - 1) <=> PairAt(page, k - 1)
    BY <1>6, <2>1
  <2> QED  BY <1>1, <1>7, <1>9, <1>11, <1>8, <2>1, <2>2
<1> QED  BY <1>10, <1>11

StartsIn(a, b) == {t \in Numbered(page) : a < t[1] /\ t[1] <= b}

(* So the page's offsets count what tokenizing the cut alone would, for any *)
(* cut of a page that the tokenizer erases nothing from (structure.py,      *)
(* _PageTokens.count against _chunk_reference.py).                          *)
THEOREM OffsetIsIsolated ==
    ASSUME PageType, Plain(page), ordered, NEW start, NEW end, Cut(start, end)
    PROVE  OffsetCount(start, end) = Isolated(start, end)
<1>1. SUFFICES ASSUME ~InsideWord(start, end) PROVE OffsetCount(start, end) = Isolated(start, end)
  BY DEF OffsetCount
<1>2. /\ page \in Texts /\ Len(page) \in Nat /\ start \in Nat /\ end \in Nat
      /\ start <= end /\ end <= Len(page)
  BY DEF PageType, Texts, Cut
<1>3. Numbered(page) \in SUBSET ((1..Len(page)) \X {1, 2})
  BY <1>2 DEF Numbered, TokenStarts, Texts
<1>4. PICK P, L, R, D : /\ P = Numbered(page)
                        /\ L = StartsIn(0, start) /\ R = StartsIn(0, end) /\ D = StartsIn(start, end)
  OBVIOUS
<1>5. /\ L \in SUBSET P /\ R \in SUBSET P /\ D \in SUBSET P
      /\ R \ L = D /\ R \cap L = L
  <2>1. \A t \in P : t[1] \in Nat /\ 0 < t[1]
    BY <1>2, <1>3, <1>4
  <2>2. /\ L = {t \in P : t[1] <= start} /\ R = {t \in P : t[1] <= end}
        /\ D = {t \in P : start < t[1] /\ t[1] <= end}
    BY <1>4, <2>1 DEF StartsIn
  <2>3. \A t \in P : ~(t[1] <= start) <=> start < t[1]
    BY <1>2, <2>1
  <2>4. \A t \in P : t[1] <= start => t[1] <= end
    BY <1>2, <2>1
  <2> QED  BY <2>2, <2>3, <2>4
<1>6. {t \in Encode(page) : t[1] < start} = TokensOf(page, L)
  <2>1. ASSUME NEW t \in P PROVE t[1] - 1 < start <=> t \in L
    <3>1. t[1] \in Nat /\ 0 < t[1]
      BY <1>2, <1>3, <1>4
    <3>2. t \in L <=> t[1] <= start
      BY <1>4, <3>1 DEF StartsIn
    <3> QED  BY <1>2, <3>1, <3>2
  <2> QED  BY <1>4, <1>5, <2>1 DEF Encode, TokensOf
<1>7. {t \in Encode(page) : t[2] <= end} = TokensOf(page, R)
  <2>1. ASSUME NEW t \in P PROVE TokenEnd(page, t[1]) <= end <=> t \in R
    <3>0. PICK i : i = t[1]
      OBVIOUS
    <3>1. i \in Nat /\ 0 < i /\ i \in 1..Len(page)
      BY <1>2, <1>3, <1>4, <3>0
    <3>2. t \in R <=> i <= end
      BY <1>4, <3>0, <3>1 DEF StartsIn
    <3>3. TokenEnd(page, i) = IF PairAt(page, i) THEN i + 1 ELSE i
      BY <1>2, <3>1, PlainTokens
    <3>4. ~(PairAt(page, i) /\ i = end)
      <4>1. ASSUME PairAt(page, i), i = end PROVE FALSE
        <5>1. end < Len(page) /\ page[end + 1] = "b"
          BY <4>1 DEF PairAt
        <5> QED  BY <1>1, <5>1 DEF InsideWord, IsSpace
      <4> QED  BY <4>1
    <3> QED  BY <1>2, <3>0, <3>1, <3>2, <3>3, <3>4
  <2> QED  BY <1>4, <1>5, <2>1 DEF Encode, TokensOf
<1>8. OffsetCount(start, end) = Cardinality(R) - Cardinality(L)
  BY <1>1, <1>2, <1>4, <1>5, <1>6, <1>7, TokensOfCount DEF OffsetCount
<1>9. Cardinality(D) = Cardinality(R) - Cardinality(L)
  <2>1. IsFiniteSet(R)
    BY <1>2, <1>4, <1>5, TokensOfCount
  <2>2. Cardinality(R \ L) = Cardinality(R) - Cardinality(R \cap L)
    BY <2>1, FS_Difference
  <2> QED  BY <1>5, <2>2, Zenon
<1>10. Isolated(start, end) = Cardinality(D)
  <2>1. PICK text : text = Slice(start, end)
    OBVIOUS
  <2>2. text \in Texts /\ Len(text) = end - start
    BY <2>1, SliceIs
  <2>3. PICK S, f : S = Numbered(text) /\ f = [t \in S |-> <<start + t[1], t[2]>>]
    OBVIOUS
  <2>4. S \in SUBSET ((1..(end - start)) \X {1, 2}) /\ IsFiniteSet(S)
    <3>1. DOMAIN text = 1..(end - start)
      BY <2>2 DEF Texts
    <3>2. S \in SUBSET ((DOMAIN text) \X {1, 2})
      BY <2>3 DEF Numbered, TokenStarts
    <3> QED  BY <2>2, <2>3, <3>1, <3>2, EncodeCount
  <2>5. ASSUME NEW i \in 1..(end - start), NEW c \in {1, 2}
        PROVE  <<i, c>> \in S <=> <<start + i, c>> \in P
    <3>1. i \in TokenStarts(text) <=> start + i \in TokenStarts(page)
      BY <1>1, <2>1, CutStarts
    <3>2. text[i] = page[start + i]
      <4>1. \A j \in 1..(end - start) : Slice(start, end)[j] = page[start + j]
        BY SliceIs
      <4> QED  BY <2>1, <4>1
    <3>3. PICK k : k = start + i
      OBVIOUS
    <3>4. <<i, c>> \in Numbered(text) <=> <<k, c>> \in Numbered(page)
      <4>1. PICK t, u : t = <<i, c>> /\ u = <<k, c>>
        OBVIOUS
      <4>2. /\ t \in TokenStarts(text) \X {1, 2} <=> i \in TokenStarts(text)
            /\ u \in TokenStarts(page) \X {1, 2} <=> k \in TokenStarts(page)
            /\ t[1] = i /\ t[2] = c /\ u[1] = k /\ u[2] = c
        BY <4>1
      <4> QED  BY <3>1, <3>2, <3>3, <4>1, <4>2 DEF Numbered
    <3> QED  BY <1>4, <2>3, <3>3, <3>4
  <2>6. f \in [S -> D]
    <3>1. ASSUME NEW t \in S PROVE <<start + t[1], t[2]>> \in D
      <4>1. t[1] \in 1..(end - start) /\ t[2] \in {1, 2} /\ t = <<t[1], t[2]>>
        BY <2>4
      <4>2. PICK u : u = <<start + t[1], t[2]>>
        OBVIOUS
      <4>3. u \in P
        BY <2>5, <4>1, <4>2
      <4>4. u[1] = start + t[1]
        BY <4>2
      <4>5. start < u[1] /\ u[1] <= end
        BY <1>2, <4>1, <4>4
      <4> QED  BY <1>4, <4>2, <4>3, <4>5 DEF StartsIn
    <3> QED  BY <2>3, <3>1
  <2>7. \A u \in D : \E t \in S : f[t] = u
    <3> TAKE u \in D
    <3>1. /\ u \in P /\ start < u[1] /\ u[1] <= end /\ u[1] \in Nat
          /\ u = <<u[1], u[2]>> /\ u[2] \in {1, 2}
      BY <1>2, <1>3, <1>4 DEF StartsIn
    <3>2. PICK i : i = u[1] - start
      OBVIOUS
    <3>3. i \in 1..(end - start) /\ start + i = u[1]
      BY <1>2, <3>1, <3>2
    <3>4. PICK t : t = <<i, u[2]>>
      OBVIOUS
    <3>5. t \in S /\ t[1] = i /\ t[2] = u[2]
      BY <2>5, <3>1, <3>3, <3>4
    <3> QED  BY <2>3, <3>1, <3>3, <3>5
  <2>8. \A t, u \in S : f[t] = f[u] => t = u
    <3>1. ASSUME NEW t \in S, NEW u \in S, f[t] = f[u] PROVE t = u
      <4>1. /\ t = <<t[1], t[2]>> /\ u = <<u[1], u[2]>> /\ t[1] \in Int /\ u[1] \in Int
            /\ start + t[1] = start + u[1] /\ t[2] = u[2]
        BY <2>3, <2>4, <3>1
      <4>2. t[1] = u[1]
        BY <1>2, <4>1
      <4> QED  BY <4>1, <4>2
    <3> QED  BY <3>1
  <2>9. Cardinality(D) = Cardinality(S)
    BY <2>4, <2>6, <2>7, <2>8, SameCount
  <2> QED  BY <2>1, <2>2, <2>3, <2>9, EncodeCount DEF Isolated
<1> QED  BY <1>8, <1>9, <1>10

LEMMA CountIsIsolated ==
    ASSUME PageType, NEW m, NEW start, NEW end, Cut(start, end)
    PROVE  Count(m, start, end) = Isolated(start, end)
<1>1. CASE Guarded
  BY <1>1 DEF Count
<1>2. CASE ~Guarded
  <2>1. Plain(page) /\ ordered
    BY <1>2 DEF Guarded, RequiresReference, Plain, PageType, Texts
  <2> QED  BY <2>1, OffsetIsIsolated DEF Count
<1> QED  BY <1>1, <1>2

-----------------------------------------------------------------------------
(* The words of a page, and the tokens of a word. *)

Letters(text) == \A i \in 1..Len(text) : ~IsSpace(text[i])

(* Words do not overlap, have no whitespace, and leave out nothing else. *)
LEMMA WordsAre ==
    ASSUME PageType
    PROVE  /\ Apart(Words)
           /\ \A w \in Words : /\ Cut(w[1], w[2]) /\ w[1] < w[2]
                               /\ Letters(Slice(w[1], w[2]))
           /\ \A i \in 1..Len(page) : ~IsSpace(page[i]) =>
                  \E w \in Words : w[1] < i /\ i <= w[2]
<1>1. PICK n : n = Len(page) /\ n \in Nat
  BY DEF PageType, Texts
<1>2. ASSUME NEW w \in Words
      PROVE  /\ w = <<w[1], w[2]>> /\ w[1] \in Nat /\ w[2] \in Nat /\ w[1] < w[2] /\ w[2] <= n
             /\ \A i \in (w[1] + 1)..w[2] : ~IsSpace(page[i])
             /\ w[1] = 0 \/ IsSpace(page[w[1]])
             /\ w[2] = n \/ IsSpace(page[w[2] + 1])
  <2>1. w \in (0..n) \X (0..n)
    BY <1>1 DEF Words
  <2>2. w = <<w[1], w[2]>> /\ w[1] \in 0..n /\ w[2] \in 0..n
    BY <2>1
  <2>3. /\ w[1] < w[2]
        /\ \A i \in (w[1] + 1)..w[2] : ~IsSpace(page[i])
        /\ w[1] = 0 \/ IsSpace(page[w[1]])
        /\ w[2] = n \/ IsSpace(page[w[2] + 1])
    BY <1>1 DEF Words
  <2> QED  BY <1>1, <2>2, <2>3
<1>3. IsFiniteSet(Words)
  <2>1. IsFiniteSet(0..n)
    BY <1>1, FS_Interval
  <2>2. IsFiniteSet((0..n) \X (0..n))
    BY <2>1, FS_Product
  <2>3. Words \in SUBSET ((0..n) \X (0..n))
    BY <1>1 DEF Words
  <2> QED  BY <2>2, <2>3, FS_Subset
<1>4. ASSUME NEW t \in Words, NEW u \in Words, t[1] <= u[1], t # u
      PROVE  t[2] <= u[1]
  <2>1. CASE t[1] = u[1]
    <3>1. t[2] < u[2] \/ u[2] < t[2]
      BY <1>2, <1>4, <2>1
    <3>2. CASE t[2] < u[2]
      <4>1. t[2] + 1 \in (u[1] + 1)..u[2] /\ t[2] # n
        BY <1>1, <1>2, <2>1, <3>2
      <4> QED  BY <1>2, <4>1
    <3>3. CASE u[2] < t[2]
      <4>1. u[2] + 1 \in (t[1] + 1)..t[2] /\ u[2] # n
        BY <1>1, <1>2, <2>1, <3>3
      <4> QED  BY <1>2, <4>1
    <3> QED  BY <3>1, <3>2, <3>3
  <2>2. CASE t[1] # u[1] /\ u[1] < t[2]
    <3>1. u[1] \in (t[1] + 1)..t[2] /\ u[1] # 0
      BY <1>2, <1>4, <2>2
    <3> QED  BY <1>2, <3>1
  <2> QED  BY <1>2, <2>1, <2>2
<1>5. Apart(Words)
  BY <1>2, <1>3, <1>4 DEF Apart, Span
<1>6. ASSUME NEW w \in Words
      PROVE  Cut(w[1], w[2]) /\ w[1] < w[2] /\ Letters(Slice(w[1], w[2]))
  <2>1. PICK start, end : start = w[1] /\ end = w[2]
    OBVIOUS
  <2>2. Cut(start, end) /\ start \in Nat /\ end \in Nat /\ start < end
    BY <1>1, <1>2, <2>1 DEF Cut
  <2>3. /\ Len(Slice(start, end)) = end - start
        /\ \A i \in 1..(end - start) : Slice(start, end)[i] = page[start + i]
    BY <2>2, SliceIs
  <2>4. \A i \in 1..(end - start) : start + i \in (start + 1)..end
    BY <2>2
  <2>5. Letters(Slice(start, end))
    BY <1>2, <2>1, <2>3, <2>4 DEF Letters
  <2> QED  BY <2>1, <2>2, <2>5
<1>7. ASSUME NEW i \in 1..Len(page), ~IsSpace(page[i])
      PROVE  \E w \in Words : w[1] < i /\ i <= w[2]
  <2>1. i \in Nat /\ 1 <= i /\ i <= n
    BY <1>1
  <2>2. PICK lo, hi : lo = 0 /\ hi = i - 1
    OBVIOUS
  <2>3. PICK S : S = {k \in lo..hi : k = 0 \/ IsSpace(page[k])}
    OBVIOUS
  <2>4. lo \in Int /\ hi \in Int /\ S \in SUBSET (lo..hi) /\ S # {}
    <3>1. 0 \in S
      BY <2>1, <2>2, <2>3
    <3>2. lo \in Int /\ hi \in Int
      BY <2>1, <2>2
    <3>3. S \in SUBSET (lo..hi)
      BY <2>3
    <3> QED  BY <3>1, <3>2, <3>3
  <2>5. PICK start : start = Max(S)
    OBVIOUS
  <2>6. start \in S /\ \A k \in S : k <= start
    BY <2>4, <2>5, MaxIs
  <2>7. PICK T : T = {k \in i..n : k = n \/ IsSpace(page[k + 1])}
    OBVIOUS
  <2>8. i \in Int /\ n \in Int /\ T \in SUBSET (i..n) /\ T # {}
    <3>1. n \in T
      BY <1>1, <2>1, <2>7
    <3> QED  BY <1>1, <2>1, <2>7, <3>1
  <2>9. PICK end : end = Min(T)
    OBVIOUS
  <2>10. end \in T /\ \A k \in T : end <= k
    BY <2>8, <2>9, MinIs
  <2>11. /\ start \in 0..(i - 1) /\ (start = 0 \/ IsSpace(page[start]))
         /\ end \in i..n /\ (end = n \/ IsSpace(page[end + 1]))
    BY <2>2, <2>3, <2>6, <2>7, <2>10
  <2>12. ASSUME NEW j \in (start + 1)..end PROVE ~IsSpace(page[j])
    <3>1. CASE j < i
      <4>1. j \in 0..(i - 1) /\ ~(j <= start)
        BY <2>1, <2>11, <3>1
      <4> QED  BY <2>2, <2>3, <2>6, <4>1
    <3>2. CASE j > i
      <4>1. PICK k : k = j - 1
        OBVIOUS
      <4>2. k \in i..n /\ ~(end <= k) /\ k + 1 = j
        BY <1>1, <2>1, <2>11, <3>2, <4>1
      <4> QED  BY <2>7, <2>10, <4>2
    <3> QED  BY <1>7, <2>1, <2>11, <3>1, <3>2
  <2>13. start \in 0..n /\ end \in 0..n /\ start < i /\ i <= end /\ start < end
    BY <1>1, <2>1, <2>11
  <2>14. PICK w : w = <<start, end>>
    OBVIOUS
  <2>15. w \in (0..n) \X (0..n) /\ w[1] = start /\ w[2] = end
    BY <2>13, <2>14
  <2>16. w \in Words
    BY <1>1, <2>11, <2>12, <2>13, <2>15 DEF Words
  <2> QED  BY <2>13, <2>15, <2>16
<1> QED  BY <1>5, <1>6, <1>7

(* The spans of a text's tokens do not overlap, and cover every character   *)
(* that is neither whitespace nor erased. Only a pair is longer than one.   *)
LEMMA SpansAre ==
    ASSUME NEW text \in Texts
    PROVE  /\ Apart(Spans(text))
           /\ \A t \in Spans(text) :
                  /\ t[2] <= Len(text) /\ t[1] + 1 \in TokenStarts(text)
                  /\ t[2] = TokenEnd(text, t[1] + 1)
                  /\ t[2] = t[1] + 1 \/ Pairs(text, t[1] + 1)
           /\ \A i \in 1..Len(text) : ~IsSpace(text[i]) /\ ~Erased(text[i]) =>
                  \E t \in Spans(text) : t[1] < i /\ i <= t[2]
<1>1. Len(text) \in Nat /\ DOMAIN text = 1..Len(text)
  BY DEF Texts
<1>2. ASSUME NEW i \in 1..Len(text)
      PROVE  /\ i \in Nat /\ 0 < i /\ TokenEnd(text, i) \in Nat
             /\ i <= TokenEnd(text, i) /\ TokenEnd(text, i) <= Len(text)
             /\ TokenEnd(text, i) = i \/ Pairs(text, i)
  <2>1. i \in Nat /\ 0 < i /\ i <= Len(text)
    BY <1>1
  <2>2. CASE Pairs(text, i)
    <3>1. After(text, i) # {}
      BY <2>2 DEF Pairs
    <3>2. Min(After(text, i)) \in (i + 1)..Len(text)
      BY <3>1, Neighbours
    <3> QED  BY <1>1, <2>1, <2>2, <3>2 DEF TokenEnd
  <2> QED  BY <2>1, <2>2 DEF TokenEnd
<1>3. TokenStarts(text) \in SUBSET (1..Len(text))
  BY <1>1 DEF TokenStarts
<1>4. ASSUME NEW t \in Spans(text)
      PROVE  \E i \in TokenStarts(text) : t = <<i - 1, TokenEnd(text, i)>>
  BY DEF Spans
\* Of two neighbours that pair, nothing that is not erased is in between.
<1>5. ASSUME NEW j \in 1..Len(text), NEW i \in 1..Len(text), j < i,
             ~Erased(text[i]), ~Erased(text[j])
      PROVE  /\ Before(text, i) # {} /\ j <= Max(Before(text, i))
             /\ After(text, j) # {} /\ Min(After(text, j)) <= i
             /\ Max(Before(text, i)) = j <=> Min(After(text, j)) = i
  <2>1. j \in Before(text, i) /\ i \in After(text, j)
    BY <1>1, <1>5 DEF Before, After
  <2>2. PICK k, l : k = Max(Before(text, i)) /\ l = Min(After(text, j))
    OBVIOUS
  <2>3. k \in Before(text, i) /\ k \in 1..(i - 1) /\ j <= k
        /\ l \in After(text, j) /\ l \in (j + 1)..Len(text) /\ l <= i
    BY <2>1, <2>2, Neighbours
  <2>4. j < k => k \in After(text, j)
    BY <1>1, <1>5, <2>3 DEF Before, After
  <2>5. l < i => l \in Before(text, i)
    BY <1>1, <1>5, <2>3 DEF Before, After
  <2>6. j < k => l <= k
    BY <2>2, <2>4, Neighbours
  <2>7. l < i => l <= k
    BY <2>2, <2>5, Neighbours
  <2> QED  BY <1>1, <2>1, <2>2, <2>3, <2>6, <2>7
<1>6. ASSUME NEW t \in Spans(text)
      PROVE  /\ Span(t) /\ t[2] <= Len(text) /\ t[1] + 1 \in TokenStarts(text)
             /\ t[2] = TokenEnd(text, t[1] + 1)
             /\ t[2] = t[1] + 1 \/ Pairs(text, t[1] + 1)
  <2>1. PICK i \in TokenStarts(text) : t = <<i - 1, TokenEnd(text, i)>>
    BY <1>4
  <2>2. i \in 1..Len(text)
    BY <1>3
  <2>3. t[1] = i - 1 /\ t[2] = TokenEnd(text, i) /\ t = <<t[1], t[2]>>
    BY <2>1
  <2>4. t[1] + 1 = i
    BY <1>2, <2>2, <2>3
  <2> QED  BY <1>2, <2>2, <2>3, <2>4 DEF Span
<1>7. ASSUME NEW t \in Spans(text), NEW u \in Spans(text), t[1] <= u[1], t # u
      PROVE  t[2] <= u[1]
  <2>1. PICK i \in TokenStarts(text) : t = <<i - 1, TokenEnd(text, i)>>
    BY <1>4
  <2>2. PICK j \in TokenStarts(text) : u = <<j - 1, TokenEnd(text, j)>>
    BY <1>4
  <2>3. i # j
    BY <1>7, <2>1, <2>2
  <2>4. t[1] = i - 1 /\ t[2] = TokenEnd(text, i) /\ u[1] = j - 1
    BY <2>1, <2>2
  <2>5. i \in 1..Len(text) /\ j \in 1..Len(text)
    BY <1>3
  <2>6. i < j
    BY <1>2, <1>7, <2>3, <2>4, <2>5
  <2>7. ~Erased(text[i]) /\ ~Erased(text[j])
    BY DEF TokenStarts
  <2>8. CASE Pairs(text, i)
    <3>1. Before(text, j) # {} /\ Min(After(text, i)) <= j
          /\ (Max(Before(text, j)) = i <=> Min(After(text, i)) = j)
      BY <1>5, <2>5, <2>6, <2>7
    <3>2. Max(Before(text, j)) # i
      BY <2>8, <3>1 DEF TokenStarts
    <3>3. TokenEnd(text, i) = Min(After(text, i))
      BY <2>8 DEF TokenEnd
    <3>4. TokenEnd(text, i) \in Nat
      BY <1>2, <2>5
    <3> QED  BY <1>2, <2>4, <2>5, <3>1, <3>2, <3>3, <3>4
  <2>9. CASE ~Pairs(text, i)
    BY <1>2, <2>4, <2>5, <2>6, <2>9
  <2> QED  BY <2>8, <2>9
<1>8. ASSUME NEW i \in 1..Len(text), ~IsSpace(text[i]), ~Erased(text[i])
      PROVE  \E t \in Spans(text) : t[1] < i /\ i <= t[2]
  <2>1. CASE i \in TokenStarts(text)
    <3>1. PICK t : t = <<i - 1, TokenEnd(text, i)>>
      OBVIOUS
    <3>2. t \in Spans(text) /\ t[1] = i - 1 /\ t[2] = TokenEnd(text, i)
      BY <2>1, <3>1 DEF Spans
    <3>3. t[1] < i /\ i <= t[2]
      BY <1>2, <3>2
    <3> QED  BY <3>2, <3>3
  <2>2. CASE i \notin TokenStarts(text)
    <3>1. PICK j : j = Max(Before(text, i))
      OBVIOUS
    <3>2. Before(text, i) # {} /\ Pairs(text, j)
      BY <1>1, <1>8, <2>2, <3>1 DEF TokenStarts
    <3>3. j \in Before(text, i) /\ j \in 1..(i - 1)
      BY <3>1, <3>2, Neighbours
    <3>4. j \in 1..Len(text) /\ j < i /\ ~Erased(text[j]) /\ j \in Nat /\ i \in Nat
      BY <1>1, <3>3 DEF Before
    <3>5. Min(After(text, j)) = i
      BY <1>5, <1>8, <3>1, <3>4
    <3>6. TokenEnd(text, j) = i
      BY <3>2, <3>5 DEF TokenEnd
    <3>7. j \in TokenStarts(text)
      <4>1. text[j] = "b" /\ Begins(text, j)
        BY <3>2 DEF Pairs
      <4>2. Before(text, j) # {} => ~Pairs(text, Max(Before(text, j)))
        BY <4>1 DEF Begins, Pairs
      <4> QED  BY <1>1, <3>4, <4>1, <4>2 DEF TokenStarts, IsSpace
    <3>8. PICK t : t = <<j - 1, TokenEnd(text, j)>>
      OBVIOUS
    <3>9. t \in Spans(text) /\ t[1] = j - 1 /\ t[2] = i
      BY <3>6, <3>7, <3>8 DEF Spans
    <3>10. t[1] < i /\ i <= t[2]
      BY <3>4, <3>9
    <3> QED  BY <3>9, <3>10
  <2> QED  BY <2>1, <2>2
<1>9. IsFiniteSet(Spans(text))
  <2>1. PICK n, T : n = Len(text) /\ T = (0..n) \X (0..n)
    OBVIOUS
  <2>2. IsFiniteSet(T)
    <3>1. IsFiniteSet(0..n)
      BY <1>1, <2>1, FS_Interval
    <3> QED  BY <2>1, <3>1, FS_Product
  <2>3. Spans(text) \in SUBSET T
    <3>1. ASSUME NEW t \in Spans(text) PROVE t \in T
      BY <1>1, <1>6, <2>1 DEF Span
    <3> QED  BY <3>1
  <2> QED  BY <2>2, <2>3, FS_Subset
<1> QED  BY <1>6, <1>7, <1>8, <1>9 DEF Apart

(* A token cut out of a text alone is one token, or one character. *)
LEMMA TokenAlone ==
    ASSUME NEW text \in Texts, NEW i \in TokenStarts(text), Pairs(text, i),
           NEW piece \in Texts, NEW e, e = TokenEnd(text, i), Len(piece) = e - i + 1,
           \A k \in 1..Len(piece) : piece[k] = text[i + k - 1]
    PROVE  Cardinality(Encode(piece)) <= 1
<1>1. /\ Len(text) \in Nat /\ DOMAIN text = 1..Len(text) /\ i \in 1..Len(text)
      /\ Len(piece) \in Nat /\ DOMAIN piece = 1..Len(piece)
  BY DEF Texts, TokenStarts
<1>2. After(text, i) # {} /\ e = Min(After(text, i)) /\ text[i] = "b" /\ text[e] = "b"
  BY DEF Pairs, TokenEnd
<1>3. /\ e \in (i + 1)..Len(text) /\ i \in Int /\ e \in Int
      /\ \A j \in After(text, i) : e <= j
  BY <1>1, <1>2, Neighbours
<1>4. PICK n : n = Len(piece) /\ n \in Nat /\ n = e - i + 1 /\ 1 < n
  BY <1>1, <1>3
<1>5. piece[1] = "b" /\ piece[n] = "b"
  <2>1. 1 \in 1..Len(piece) /\ n \in 1..Len(piece) /\ i + 1 - 1 = i /\ i + n - 1 = e
    BY <1>3, <1>4
  <2> QED  BY <1>2, <2>1
<1>6. ASSUME NEW k \in 1..n, k # 1, k # n
      PROVE  Erased(piece[k])
  <2>1. PICK j : j = i + k - 1
    OBVIOUS
  <2>2. j \in (i + 1)..Len(text) /\ j < e /\ piece[k] = text[j]
    BY <1>1, <1>3, <1>4, <1>6, <2>1
  <2>3. j \notin After(text, i)
    BY <1>3, <2>2
  <2> QED  BY <2>2, <2>3 DEF After
<1>7. Pairs(piece, 1)
  <2>1. ~Erased(piece[n])
    BY <1>5 DEF Erased
  <2>2. n \in After(piece, 1)
    BY <1>4, <2>1 DEF After
  <2>3. 1 \in 1..Len(piece)
    BY <1>4
  <2>4. PICK l : l = Min(After(piece, 1))
    OBVIOUS
  <2>5. l \in After(piece, 1) /\ l \in 2..n
    BY <1>4, <2>2, <2>3, <2>4, Neighbours
  <2>6. l = n
    BY <1>4, <1>6, <2>5 DEF After
  <2>7. Before(piece, 1) = {}
    BY DEF Before
  <2> QED  BY <1>5, <2>2, <2>4, <2>6, <2>7 DEF Pairs, Begins
<1>8. n \notin TokenStarts(piece)
  <2>1. ~Erased(piece[1])
    BY <1>5 DEF Erased
  <2>2. 1 \in Before(piece, n)
    BY <1>4, <2>1 DEF Before
  <2>3. PICK l : l = Max(Before(piece, n))
    OBVIOUS
  <2>4. l \in Before(piece, n) /\ l \in 1..(n - 1)
    BY <1>4, <2>2, <2>3, Neighbours
  <2>5. l = 1
    BY <1>4, <1>6, <2>4 DEF Before
  <2> QED  BY <1>7, <2>2, <2>3, <2>5 DEF TokenStarts
<1>9. Numbered(piece) \in SUBSET {<<1, 1>>}
  <2>1. ASSUME NEW t \in Numbered(piece) PROVE t = <<1, 1>>
    <3>1. /\ t = <<t[1], t[2]>> /\ t[1] \in TokenStarts(piece) /\ t[2] \in {1, 2}
          /\ piece[t[1]] = "&" \/ t[2] = 1
      BY DEF Numbered
    <3>2. t[1] = 1
      BY <1>1, <1>4, <1>6, <1>8, <3>1 DEF TokenStarts
    <3> QED  BY <1>5, <3>1, <3>2
  <2> QED  BY <2>1
<1>10. Cardinality(Numbered(piece)) <= 1
  <2>1. IsFiniteSet({<<1, 1>>}) /\ Cardinality({<<1, 1>>}) = 1
    BY FS_Singleton
  <2> QED  BY <1>9, <2>1, FS_Subset
<1> QED  BY <1>10, EncodeCount

(* A word's tokens follow one another and cover all of it that the tokenizer *)
(* does not erase. One cut out alone is one token or one character.         *)
LEMMA WordTokensAre ==
    ASSUME PageType, NEW w \in Words, NEW s, s = WordTokens(w)
    PROVE  /\ w[1] \in Nat /\ w[2] \in Nat /\ w[2] <= Len(page)
           /\ Len(s) \in Nat /\ s \in Seq(Spans(Slice(w[1], w[2])))
           /\ \A k \in 1..Len(s) : Span(s[k]) /\ w[1] + s[k][2] <= w[2]
           /\ \A j, k \in 1..Len(s) : j < k => s[j][2] <= s[k][1]
           /\ \A i \in (w[1] + 1)..w[2] : ~Erased(page[i]) =>
                  \E k \in 1..Len(s) : w[1] + s[k][1] < i /\ i <= w[1] + s[k][2]
           /\ \A k \in 1..Len(s) : \/ Isolated(w[1] + s[k][1], w[1] + s[k][2]) <= 1
                                   \/ s[k][2] = s[k][1] + 1
<1>1. PICK start, end, text : start = w[1] /\ end = w[2] /\ text = Slice(start, end)
  OBVIOUS
<1>2. Cut(start, end) /\ start < end /\ Letters(text) /\ start \in Nat /\ end \in Nat
  BY <1>1, WordsAre DEF Cut
<1>3. /\ text \in Texts /\ Len(text) = end - start
      /\ \A i \in 1..(end - start) : text[i] = page[start + i]
  BY <1>1, <1>2, SliceIs
<1>4. PICK S : S = Spans(text)
  OBVIOUS
<1>5. Apart(S) /\ s = InOrder(S)
  BY <1>1, <1>3, <1>4, SpansAre DEF WordTokens
<1>6. /\ s \in Seq(S) /\ Len(s) \in Nat
      /\ \A k \in 1..Len(s) : s[k] \in S /\ Span(s[k])
      /\ \A t \in S : \E k \in 1..Len(s) : s[k] = t
      /\ \A j, k \in 1..Len(s) : j < k => s[j][2] <= s[k][1]
  BY <1>5, InOrderLists
<1>7. \A t \in S : t[2] <= end - start
  BY <1>3, <1>4, SpansAre
<1>8. ASSUME NEW k \in 1..Len(s)
      PROVE  start + s[k][2] <= end
  <2>1. s[k][2] <= end - start /\ s[k][2] \in Nat
    BY <1>6, <1>7 DEF Span
  <2> QED  BY <1>2, <2>1
<1>9. ASSUME NEW i \in (start + 1)..end, ~Erased(page[i])
      PROVE  \E k \in 1..Len(s) : start + s[k][1] < i /\ i <= start + s[k][2]
  <2>1. PICK j : j = i - start
    OBVIOUS
  <2>2. j \in 1..Len(text) /\ i = start + j /\ j \in Nat
    BY <1>2, <1>3, <2>1
  <2>3. ~IsSpace(text[j]) /\ ~Erased(text[j])
    BY <1>2, <1>3, <1>9, <2>2 DEF Letters
  <2>4. PICK t \in S : t[1] < j /\ j <= t[2]
    BY <1>3, <1>4, <2>2, <2>3, SpansAre
  <2>5. PICK k \in 1..Len(s) : s[k] = t
    BY <1>6
  <2>6. s[k][1] \in Nat /\ s[k][2] \in Nat
    BY <1>6 DEF Span
  <2> QED  BY <1>2, <2>2, <2>4, <2>5, <2>6
<1>10. ASSUME NEW k \in 1..Len(s), s[k][2] # s[k][1] + 1
       PROVE  Isolated(start + s[k][1], start + s[k][2]) <= 1
  <2>1. PICK from, to : from = start + s[k][1] /\ to = start + s[k][2]
    OBVIOUS
  <2>2. s[k][1] \in Nat /\ s[k][2] \in Nat /\ s[k][1] < s[k][2] /\ s[k] \in S
    BY <1>6 DEF Span
  <2>3. Cut(from, to) /\ to - from = s[k][2] - s[k][1]
    <3>1. from \in Nat /\ to \in Nat /\ from <= to
      BY <1>2, <2>1, <2>2
    <3>2. to <= end /\ end <= Len(page) /\ Len(page) \in Nat /\ end \in Nat
      BY <1>2, <1>8, <2>1 DEF Cut, PageType, Texts
    <3>3. Cut(from, to)
      BY <3>1, <3>2 DEF Cut
    <3>4. PICK x, y : x = s[k][1] /\ y = s[k][2]
      OBVIOUS
    <3>5. x \in Nat /\ y \in Nat /\ from = start + x /\ to = start + y
      BY <2>1, <2>2, <3>4
    <3>6. to - from = y - x
      BY <1>2, <3>5
    <3> QED  BY <3>3, <3>4, <3>6
  <2>4. PICK i, e, piece : i = s[k][1] + 1 /\ e = s[k][2] /\ piece = Slice(from, to)
    OBVIOUS
  <2>5. i \in TokenStarts(text) /\ Pairs(text, i) /\ e = TokenEnd(text, i)
    <3>1. PICK t \in S : t = s[k] /\ t[2] # t[1] + 1
      BY <1>10, <2>2
    <3>2. /\ t[1] + 1 \in TokenStarts(text)
          /\ t[2] = TokenEnd(text, t[1] + 1)
          /\ (t[2] = t[1] + 1 \/ Pairs(text, t[1] + 1))
      BY <1>3, <1>4, SpansAre
    <3>3. i = t[1] + 1 /\ e = t[2]
      BY <2>4, <3>1
    <3> QED  BY <3>1, <3>2, <3>3, Zenon
  <2>6. /\ piece \in Texts /\ Len(piece) = e - i + 1
        /\ \A x \in 1..Len(piece) : piece[x] = page[from + x]
    <3>1. /\ piece \in Texts /\ Len(piece) = to - from
          /\ \A x \in 1..(to - from) : piece[x] = page[from + x]
      BY <2>3, <2>4, SliceIs
    <3>2. to - from = e - i + 1
      BY <2>2, <2>3, <2>4
    <3> QED  BY <3>1, <3>2
  <2>7. ASSUME NEW x \in 1..Len(piece) PROVE piece[x] = text[i + x - 1]
    <3>1. PICK y : y = i + x - 1
      OBVIOUS
    <3>2. y \in 1..(end - start) /\ start + y = from + x
      <4>1. s[k][2] <= end - start
        BY <1>7, <2>2
      <4>2. PICK a, b : a = s[k][1] /\ b = s[k][2]
        OBVIOUS
      <4>3. /\ a \in Nat /\ b \in Nat /\ a < b /\ b <= end - start
            /\ i = a + 1 /\ e = b /\ from = start + a
        BY <2>1, <2>2, <2>4, <4>1, <4>2
      <4>4. x \in 1..(b - a)
        BY <2>6, <4>3
      <4>5. y = a + x
        BY <3>1, <4>3, <4>4
      <4> QED  BY <1>2, <4>3, <4>4, <4>5
    <3>3. piece[x] = page[from + x]
      BY <2>6
    <3>4. text[y] = page[start + y]
      BY <1>3, <3>2
    <3> QED  BY <3>1, <3>2, <3>3, <3>4
  <2>8. Cardinality(Encode(piece)) <= 1
    BY <1>3, <2>5, <2>6, <2>7, TokenAlone
  <2> QED  BY <2>1, <2>4, <2>8 DEF Isolated
<1> QED  BY <1>1, <1>2, <1>4, <1>6, <1>8, <1>9, <1>10 DEF Cut

-----------------------------------------------------------------------------
(* Where _split_word cuts: repeating a step that moves forward until it    *)
(* leaves the tokens.                                                      *)

Repeats(f, next, n) == f = [k \in 0..n |-> IF k = 0 THEN 1 ELSE next[f[k - 1]]]

Forward(next, n) ==
    /\ next \in [1..(n + 1) -> 1..(n + 1)]
    /\ \A c \in 1..n : c < next[c]
    /\ next[n + 1] = n + 1

LEMMA RepeatsExist ==
    ASSUME NEW n \in Nat, NEW next
    PROVE  \E f : Repeats(f, next, n)
<1>1. PICK Bad : Bad = {m \in Nat : ~ \E f : Repeats(f, next, m)}
  OBVIOUS
<1>2. ASSUME Bad # {} PROVE FALSE
  <2>1. PICK m \in Bad : \A k \in Bad : m <= k
    BY <1>1, <1>2, LeastNatural
  <2>2. m \in Nat /\ ~ \E f : Repeats(f, next, m)
    BY <1>1
  <2>3. CASE m = 0
    <3>1. PICK f : f = [k \in 0..0 |-> 1]
      OBVIOUS
    <3>2. f = [k \in 0..0 |-> IF k = 0 THEN 1 ELSE next[f[k - 1]]]
      <4>1. \A k \in 0..0 : k = 0
        OBVIOUS
      <4> QED  BY <3>1, <4>1
    <3> QED  BY <2>2, <2>3, <3>2 DEF Repeats
  <2>4. CASE m # 0
    <3>1. PICK l : l = m - 1
      OBVIOUS
    <3>2. l \in Nat /\ l + 1 = m /\ l < m /\ ~(m <= l)
      BY <2>2, <2>4, <3>1
    <3>3. PICK g : Repeats(g, next, l)
      BY <1>1, <2>1, <3>2
    <3>4. PICK f : f = [k \in 0..m |-> IF k = m THEN next[g[l]] ELSE g[k]]
      OBVIOUS
    <3>5. ASSUME NEW k \in 0..m
          PROVE  f[k] = IF k = 0 THEN 1 ELSE next[f[k - 1]]
      <4>1. CASE k = m
        <5>1. k # 0 /\ k - 1 = l /\ l \in 0..m /\ l # m
          BY <2>2, <3>1, <3>2, <4>1
        <5> QED  BY <3>4, <4>1, <5>1
      <4>2. CASE k # m
        <5>1. k \in 0..l /\ f[k] = g[k]
          BY <2>2, <3>2, <3>4, <4>2
        <5>2. g[k] = IF k = 0 THEN 1 ELSE next[g[k - 1]]
          BY <3>3, <5>1 DEF Repeats
        <5>3. k # 0 => k - 1 \in 0..m /\ k - 1 # m
          BY <2>2, <3>2, <5>1
        <5>4. k # 0 => f[k - 1] = g[k - 1]
          BY <3>4, <5>3
        <5> QED  BY <5>1, <5>2, <5>4
      <4> QED  BY <4>1, <4>2
    <3>6. f = [k \in 0..m |-> IF k = 0 THEN 1 ELSE next[f[k - 1]]]
      <4>1. f = [k \in 0..m |-> f[k]]
        BY <3>4, Zenon
      <4> QED  BY <3>5, <4>1
    <3> QED  BY <2>2, <3>6 DEF Repeats
  <2> QED  BY <2>3, <2>4
<1> QED  BY <1>1, <1>2

LEMMA RepeatsMove ==
    ASSUME NEW n \in Nat, NEW next, Forward(next, n), NEW f, Repeats(f, next, n)
    PROVE  /\ \A k \in 0..n : f[k] \in 1..(n + 1) /\ (f[k] = n + 1 \/ k < f[k])
           /\ \A j, k \in 0..n : j < k => next[f[j]] <= f[k]
<1>1. ASSUME NEW k \in 0..n, k # 0
      PROVE  k - 1 \in 0..n /\ k - 1 < k /\ f[k] = next[f[k - 1]]
  BY <1>1 DEF Repeats
<1>2. f[0] = 1
  BY DEF Repeats
<1>3. \A c \in 1..(n + 1) : next[c] \in 1..(n + 1) /\ c <= next[c] /\ (c < next[c] \/ next[c] = n + 1)
  <2> TAKE c \in 1..(n + 1)
  <2>1. next[c] \in 1..(n + 1)
    BY DEF Forward
  <2>2. c \in 1..n \/ c = n + 1
    OBVIOUS
  <2> QED  BY <2>1, <2>2 DEF Forward
<1>4. PICK Bad : Bad = {k \in 0..n : ~(f[k] \in 1..(n + 1) /\ (f[k] = n + 1 \/ k < f[k]))}
  OBVIOUS
<1>5. ASSUME Bad # {} PROVE FALSE
  <2>1. Bad \subseteq Nat
    BY <1>4
  <2>2. PICK k \in Bad : \A i \in Bad : k <= i
    BY <1>5, <2>1, LeastNatural
  <2>3. k \in 0..n /\ ~(f[k] \in 1..(n + 1) /\ (f[k] = n + 1 \/ k < f[k]))
    BY <1>4
  <2>4. k # 0
    BY <1>2, <2>3
  <2>5. PICK i : i = k - 1 /\ i \in 0..n /\ i < k /\ f[k] = next[f[i]]
    BY <1>1, <2>3, <2>4
  <2>6. f[i] \in 1..(n + 1) /\ (f[i] = n + 1 \/ i < f[i])
    BY <1>4, <2>2, <2>3, <2>5
  <2>7. next[f[i]] \in 1..(n + 1) /\ f[i] <= next[f[i]] /\ (f[i] < next[f[i]] \/ next[f[i]] = n + 1)
    BY <1>3, <2>6
  <2> QED  BY <2>3, <2>5, <2>6, <2>7
<1>6. \A k \in 0..n : f[k] \in 1..(n + 1) /\ (f[k] = n + 1 \/ k < f[k])
  BY <1>4, <1>5
<1>7. ASSUME NEW j \in 0..n
      PROVE  \A k \in 0..n : j < k => next[f[j]] <= f[k]
  <2>1. PICK Late : Late = {k \in 0..n : j < k /\ ~(next[f[j]] <= f[k])}
    OBVIOUS
  <2>2. ASSUME Late # {} PROVE FALSE
    <3>1. Late \subseteq Nat
      BY <2>1
    <3>2. PICK k \in Late : \A i \in Late : k <= i
      BY <2>2, <3>1, LeastNatural
    <3>3. k \in 0..n /\ j < k /\ ~(next[f[j]] <= f[k])
      BY <2>1
    <3>4. PICK i : i = k - 1 /\ i \in 0..n /\ i < k /\ f[k] = next[f[i]]
      BY <1>1, <3>3
    <3>5. f[i] \in 1..(n + 1) /\ f[j] \in 1..(n + 1)
      BY <1>6, <3>4
    <3>6. next[f[i]] \in 1..(n + 1) /\ f[i] <= next[f[i]] /\ next[f[j]] \in 1..(n + 1)
      BY <1>3, <3>5
    <3>7. CASE i = j
      BY <3>3, <3>4, <3>6, <3>7
    <3>8. CASE i # j
      <4>1. j < i
        BY <3>3, <3>4, <3>8
      <4>2. next[f[j]] <= f[i]
        BY <2>1, <3>2, <3>3, <3>4, <4>1
      <4> QED  BY <3>3, <3>4, <3>5, <3>6, <4>2
    <3> QED  BY <3>7, <3>8
  <2> QED  BY <2>1, <2>2
<1> QED  BY <1>6, <1>7

(* A unit that no chunk can hold is short: it has more tokens than characters. *)
FitsOrShort(u) == Isolated(u[1], u[2]) <= cap \/ u[2] - u[1] <= cap

LEMMA ReachIs ==
    ASSUME PageType, NEW w \in Words, NEW n, n = Len(WordTokens(w)), NEW c \in 1..n
    PROVE  Reach(w, c) \in c..n /\ FitsOrShort(Piece(w, c, Reach(w, c)))
<1>1. n \in Nat \ {0} /\ cap \in Nat \ {0}
  BY WordTokensAre DEF PageType
<1>2. PICK S : S = {j \in c..n : \A k \in (c + 1)..j :
                        Isolated(Piece(w, c, k)[1], Piece(w, c, k)[2]) <= cap}
  OBVIOUS
<1>3. c \in Int /\ n \in Int /\ S \in SUBSET (c..n) /\ S # {}
  <2>1. c \in S
    BY <1>1, <1>2
  <2>2. S \in SUBSET (c..n)
    BY <1>2
  <2> QED  BY <1>1, <2>1, <2>2
<1>4. PICK r : r = Max(S)
  OBVIOUS
<1>5. r \in S
  BY <1>3, <1>4, MaxIs
<1>6. Reach(w, c) = r
  BY <1>2, <1>4 DEF Reach
<1>7. r \in c..n /\ \A k \in (c + 1)..r : Isolated(Piece(w, c, k)[1], Piece(w, c, k)[2]) <= cap
  BY <1>2, <1>5
<1>8. FitsOrShort(Piece(w, c, r))
  <2>1. CASE r = c
    <3>1. PICK from, to, x, y, z : /\ x = WordTokens(w)[c][1] /\ y = WordTokens(w)[c][2]
                                   /\ z = w[1] /\ from = z + x /\ to = z + y
      OBVIOUS
    <3>2. /\ z \in Nat /\ w[2] \in Nat /\ w[2] <= Len(page) /\ x \in Nat /\ y \in Nat /\ x < y
          /\ z + y <= w[2]
          /\ Isolated(from, to) <= 1 \/ y = x + 1
      <4>1. PICK s : s = WordTokens(w) /\ c \in 1..Len(s)
        OBVIOUS
      <4>2. /\ w[1] \in Nat /\ w[2] \in Nat /\ w[2] <= Len(page)
            /\ Span(s[c]) /\ w[1] + s[c][2] <= w[2]
            /\ \/ Isolated(w[1] + s[c][1], w[1] + s[c][2]) <= 1
               \/ s[c][2] = s[c][1] + 1
        <5>1. /\ w[1] \in Nat /\ w[2] \in Nat /\ w[2] <= Len(page)
              /\ \A k \in 1..Len(s) : Span(s[k]) /\ w[1] + s[k][2] <= w[2]
              /\ \A k \in 1..Len(s) : \/ Isolated(w[1] + s[k][1], w[1] + s[k][2]) <= 1
                                      \/ s[k][2] = s[k][1] + 1
          BY <4>1, WordTokensAre, Zenon
        <5> QED  BY <4>1, <5>1, Zenon
      <4>3. x = s[c][1] /\ y = s[c][2] /\ z = w[1] /\ from = z + x /\ to = z + y
        BY <3>1, <4>1
      <4>4. x \in Nat /\ y \in Nat /\ x < y
        BY <4>2, <4>3 DEF Span
      <4>5. Isolated(from, to) <= 1 \/ y = x + 1
        BY <4>2, <4>3
      <4> QED  BY <4>2, <4>3, <4>4, <4>5
    <3>3. Cut(from, to) /\ (y = x + 1 => to - from <= cap)
      <4>1. Len(page) \in Nat
        BY DEF PageType, Texts
      <4>2. from = z + x /\ to = z + y
        BY <3>1
      <4>3. PICK end : end = w[2]
        OBVIOUS
      <4>4. /\ x \in Nat /\ y \in Nat /\ z \in Nat /\ end \in Nat
            /\ x < y /\ z + y <= end /\ end <= Len(page)
        BY <3>2, <4>3
      <4> QED  BY <1>1, <4>1, <4>2, <4>4 DEF Cut
    <3>4. Isolated(from, to) \in Nat
      BY <3>3, IsolatedGrows
    <3>5. Piece(w, c, r)[1] = from /\ Piece(w, c, r)[2] = to
      BY <2>1, <3>1 DEF Piece
    <3>6. CASE y = x + 1
      <4>1. to - from <= cap
        BY <3>3, <3>6
      <4> QED  BY <3>5, <4>1 DEF FitsOrShort
    <3>7. CASE Isolated(from, to) <= 1
      <4>1. Isolated(from, to) <= cap
        BY <1>1, <3>4, <3>7
      <4> QED  BY <3>5, <4>1 DEF FitsOrShort
    <3> QED  BY <3>2, <3>6, <3>7
  <2>2. CASE r # c
    <3>1. r \in (c + 1)..r
      BY <1>1, <1>7, <2>2
    <3> QED  BY <1>7, <3>1 DEF FitsOrShort
  <2> QED  BY <2>1, <2>2
<1> QED  BY <1>6, <1>7, <1>8

(* The cuts start at the first token, and each piece starts where the one *)
(* before it ended.                                                       *)
LEMMA CutsAre ==
    ASSUME PageType, NEW w \in Words, NEW n, n = Len(WordTokens(w))
    PROVE  /\ Cuts(w) \subseteq 1..n /\ (n # 0 => 1 \in Cuts(w))
           /\ \A c \in Cuts(w) : Reach(w, c) < n => Reach(w, c) + 1 \in Cuts(w)
           /\ \A c, d \in Cuts(w) : c < d => Reach(w, c) < d
<1>1. n \in Nat
  BY WordTokensAre
<1>2. PICK next : next = [c \in 1..(n + 1) |-> IF c > n THEN c ELSE Reach(w, c) + 1]
  OBVIOUS
<1>3. \A c \in 1..n : next[c] = Reach(w, c) + 1 /\ Reach(w, c) \in c..n
  BY <1>1, <1>2, ReachIs
<1>4. Forward(next, n)
  <2>1. next[n + 1] = n + 1
    BY <1>1, <1>2
  <2>2. \A c \in 1..(n + 1) : next[c] \in 1..(n + 1)
    <3> TAKE c \in 1..(n + 1)
    <3>1. c \in 1..n \/ c = n + 1
      BY <1>1
    <3> QED  BY <1>1, <1>3, <2>1, <3>1
  <2>3. \A c \in 1..n : c < next[c]
    BY <1>1, <1>3
  <2>4. next \in [1..(n + 1) -> 1..(n + 1)]
    BY <1>2, <2>2
  <2> QED  BY <2>1, <2>3, <2>4 DEF Forward
<1>5. PICK cut : Repeats(cut, next, n) /\ Cuts(w) = {cut[k] : k \in 0..n} \cap (1..n)
  <2>1. PICK chosen : chosen = CHOOSE f : Repeats(f, next, n)
    OBVIOUS
  <2>2. Repeats(chosen, next, n)
    BY <1>1, <2>1, RepeatsExist
  <2>3. chosen = CHOOSE f : f = [k \in 0..n |-> IF k = 0 THEN 1 ELSE next[f[k - 1]]]
    BY <2>1, Zenon DEF Repeats
  <2>4. Followed(next, n) = {chosen[k] : k \in 0..n} \cap (1..n)
    BY <2>3, Zenon DEF Followed
  <2>5. Cuts(w) = Followed(next, n)
    BY <1>2 DEF Cuts
  <2> QED  BY <2>2, <2>4, <2>5
<1>6. /\ \A k \in 0..n : cut[k] \in 1..(n + 1) /\ (cut[k] = n + 1 \/ k < cut[k])
      /\ \A j, k \in 0..n : j < k => next[cut[j]] <= cut[k]
  BY <1>1, <1>4, <1>5, RepeatsMove
<1>7. Cuts(w) \subseteq 1..n /\ \A c \in Cuts(w) : \E k \in 0..n : c = cut[k]
  BY <1>5
<1>8. n # 0 => 1 \in Cuts(w)
  <2>1. cut[0] = 1
    BY <1>1, <1>5 DEF Repeats
  <2> QED  BY <1>1, <1>5, <2>1
<1>9. ASSUME NEW c \in Cuts(w), Reach(w, c) < n
      PROVE  Reach(w, c) + 1 \in Cuts(w)
  <2>1. PICK k \in 0..n : c = cut[k]
    BY <1>7
  <2>2. c \in 1..n /\ k < n
    BY <1>1, <1>6, <1>7, <2>1
  <2>3. PICK l : l = k + 1
    OBVIOUS
  <2>4. l \in 0..n /\ l # 0 /\ l - 1 = k
    BY <1>1, <2>2, <2>3
  <2>5. cut[l] = next[c]
    BY <1>5, <2>1, <2>4 DEF Repeats
  <2>6. cut[l] = Reach(w, c) + 1 /\ Reach(w, c) + 1 \in 1..n
    BY <1>1, <1>3, <1>9, <2>2, <2>5
  <2> QED  BY <1>5, <2>4, <2>6
<1>10. ASSUME NEW c \in Cuts(w), NEW d \in Cuts(w), c < d
       PROVE  Reach(w, c) < d
  <2>1. c \in 1..n /\ d \in 1..n
    BY <1>7
  <2>2. PICK j \in 0..n : c = cut[j]
    BY <1>7
  <2>3. PICK k \in 0..n : d = cut[k]
    BY <1>7
  <2>4. next[c] = Reach(w, c) + 1 /\ Reach(w, c) \in c..n
    BY <1>3, <2>1
  <2>5. CASE j < k
    BY <1>1, <1>6, <2>1, <2>2, <2>3, <2>4, <2>5
  <2>6. CASE k < j
    <3>1. next[d] <= c /\ d < next[d]
      BY <1>4, <1>6, <2>1, <2>2, <2>3, <2>6 DEF Forward
    <3>2. next[d] \in 1..(n + 1)
      BY <1>1, <1>4, <2>1 DEF Forward
    <3> QED  BY <1>1, <1>10, <2>1, <3>1, <3>2
  <2> QED  BY <1>10, <2>1, <2>2, <2>3, <2>5, <2>6
<1> QED  BY <1>7, <1>8, <1>9, <1>10

(* The pieces of a word do not overlap, and cover what is not erased. *)
LEMMA PiecesAre ==
    ASSUME PageType, NEW w \in Words
    PROVE  /\ \A p \in SplitWord(w) :
                  Span(p) /\ w[1] <= p[1] /\ p[2] <= w[2] /\ FitsOrShort(p)
           /\ \A p, q \in SplitWord(w) : p[1] <= q[1] => p = q \/ p[2] <= q[1]
           /\ \A i \in (w[1] + 1)..w[2] : ~Erased(page[i]) =>
                  \E p \in SplitWord(w) : p[1] < i /\ i <= p[2]
<1>1. PICK s, n, start, end : /\ s = WordTokens(w) /\ n = Len(s) /\ n = Len(WordTokens(w))
                              /\ start = w[1] /\ end = w[2]
  OBVIOUS
<1>2. /\ start \in Nat /\ end \in Nat /\ n \in Nat
      /\ \A k \in 1..n : Span(s[k]) /\ start + s[k][2] <= end
      /\ \A j, k \in 1..n : j < k => s[j][2] <= s[k][1]
      /\ \A i \in (start + 1)..end : ~Erased(page[i]) =>
             \E k \in 1..n : start + s[k][1] < i /\ i <= start + s[k][2]
  BY <1>1, WordTokensAre
<1>3. \A k \in 1..n : s[k][1] \in Nat /\ s[k][2] \in Nat /\ s[k][1] < s[k][2]
  BY <1>2 DEF Span
<1>4. ASSUME NEW j \in 1..n, NEW k \in 1..n, j <= k
      PROVE  s[j][1] <= s[k][1] /\ s[j][2] <= s[k][2]
  <2>1. CASE j = k
    BY <1>3, <2>1
  <2>2. CASE j # k
    <3>1. s[j][2] <= s[k][1]
      BY <1>2, <1>4, <2>2
    <3> QED  BY <1>3, <3>1
  <2> QED  BY <2>1, <2>2
<1>5. /\ Cuts(w) \subseteq 1..n /\ (n # 0 => 1 \in Cuts(w))
      /\ \A c \in Cuts(w) : Reach(w, c) < n => Reach(w, c) + 1 \in Cuts(w)
      /\ \A c, d \in Cuts(w) : c < d => Reach(w, c) < d
  BY <1>1, CutsAre
<1>6. ASSUME NEW c \in Cuts(w)
      PROVE  /\ c \in 1..n /\ Reach(w, c) \in c..n /\ Reach(w, c) \in 1..n
             /\ Piece(w, c, Reach(w, c))[1] = start + s[c][1]
             /\ Piece(w, c, Reach(w, c))[2] = start + s[Reach(w, c)][2]
             /\ Span(Piece(w, c, Reach(w, c)))
             /\ start <= start + s[c][1] /\ start + s[Reach(w, c)][2] <= end
             /\ FitsOrShort(Piece(w, c, Reach(w, c)))
  <2>1. c \in 1..n
    BY <1>5
  <2>2. PICK r : r = Reach(w, c)
    OBVIOUS
  <2>3. r \in c..n /\ FitsOrShort(Piece(w, c, r))
    BY <1>1, <2>1, <2>2, ReachIs
  <2>4. r \in 1..n /\ c <= r
    BY <1>2, <2>1, <2>3
  <2>5. s[c][1] < s[r][2] /\ start + s[r][2] <= end
    BY <1>2, <1>3, <1>4, <2>1, <2>4
  <2>6. Piece(w, c, r) = <<start + s[c][1], start + s[r][2]>>
    BY <1>1 DEF Piece
  <2>7. Piece(w, c, r)[1] = start + s[c][1] /\ Piece(w, c, r)[2] = start + s[r][2]
    BY <2>6
  <2>8. PICK x, y : x = s[c][1] /\ y = s[r][2]
    OBVIOUS
  <2>9. x \in Nat /\ y \in Nat /\ x < y
    BY <1>3, <2>1, <2>4, <2>5, <2>8
  <2>10. start + x \in Nat /\ start + y \in Nat /\ start + x < start + y /\ start <= start + x
    BY <1>2, <2>9
  <2>11. Span(Piece(w, c, r))
    BY <2>6, <2>8, <2>10 DEF Span
  <2> QED  BY <2>1, <2>2, <2>3, <2>4, <2>5, <2>7, <2>8, <2>10, <2>11
<1>7. \A p \in SplitWord(w) : \E c \in Cuts(w) : p = Piece(w, c, Reach(w, c))
  BY DEF SplitWord
<1>8. ASSUME NEW p \in SplitWord(w)
      PROVE  Span(p) /\ w[1] <= p[1] /\ p[2] <= w[2] /\ FitsOrShort(p)
  <2>1. PICK c \in Cuts(w) : p = Piece(w, c, Reach(w, c))
    BY <1>7
  <2> QED  BY <1>1, <1>6, <2>1
<1>9. ASSUME NEW p \in SplitWord(w), NEW q \in SplitWord(w), p[1] <= q[1], p # q
      PROVE  p[2] <= q[1]
  <2>1. PICK c \in Cuts(w) : p = Piece(w, c, Reach(w, c))
    BY <1>7
  <2>2. PICK d \in Cuts(w) : q = Piece(w, d, Reach(w, d))
    BY <1>7
  <2>3. PICK a, b : a = Reach(w, c) /\ b = Reach(w, d)
    OBVIOUS
  <2>4. /\ c \in 1..n /\ d \in 1..n /\ a \in c..n /\ b \in d..n /\ a \in 1..n /\ b \in 1..n
        /\ p[1] = start + s[c][1] /\ p[2] = start + s[a][2]
        /\ q[1] = start + s[d][1] /\ q[2] = start + s[b][2]
    BY <1>6, <2>1, <2>2, <2>3
  <2>5. c # d
    BY <1>9, <2>1, <2>2
  <2>6. CASE c < d
    <3>1. a < d
      BY <1>5, <2>3, <2>6
    <3>2. s[a][2] <= s[d][1] /\ s[a][2] \in Nat /\ s[d][1] \in Nat
      BY <1>2, <1>3, <2>4, <3>1
    <3> QED  BY <1>2, <2>4, <3>2
  <2>7. CASE d < c
    <3>1. b < c
      BY <1>5, <2>3, <2>7
    <3>2. s[b][2] <= s[c][1] /\ s[b][2] \in Nat /\ s[c][1] \in Nat
      BY <1>2, <1>3, <2>4, <3>1
    <3>3. Span(q)
      BY <1>8
    <3> QED  BY <1>2, <1>9, <2>4, <3>2, <3>3 DEF Span
  <2> QED  BY <1>2, <2>4, <2>5, <2>6, <2>7
<1>10. ASSUME NEW i \in (w[1] + 1)..w[2], ~Erased(page[i])
       PROVE  \E p \in SplitWord(w) : p[1] < i /\ i <= p[2]
  <2>1. PICK k \in 1..n : start + s[k][1] < i /\ i <= start + s[k][2]
    BY <1>1, <1>2, <1>10
  <2>2. PICK C, one : C = {c \in Cuts(w) : c <= k} /\ one = 1
    OBVIOUS
  <2>3. one \in Int /\ k \in Int /\ C \in SUBSET (one..k) /\ C # {}
    <3>0. n # 0
      BY <1>2, <2>1
    <3>1. 1 \in C /\ k \in Int
      BY <1>2, <1>5, <2>1, <2>2, <3>0
    <3>2. \A c \in C : c \in one..k
      BY <1>2, <1>5, <2>1, <2>2
    <3> QED  BY <2>2, <3>1, <3>2
  <2>4. PICK c : c = Max(C)
    OBVIOUS
  <2>5. c \in C /\ \A d \in C : d <= c
    BY <2>3, <2>4, MaxIs
  <2>6. c \in Cuts(w) /\ c <= k
    BY <2>2, <2>5
  <2>7. PICK a : a = Reach(w, c)
    OBVIOUS
  <2>8. c \in 1..n /\ a \in c..n /\ a \in 1..n
    BY <1>6, <2>6, <2>7
  <2>9. k <= a
    <3>1. ASSUME a < k PROVE FALSE
      <4>1. a + 1 \in Cuts(w) /\ a + 1 <= k
        BY <1>2, <1>5, <2>1, <2>6, <2>7, <2>8, <3>1
      <4>2. a + 1 <= c
        BY <2>2, <2>5, <4>1
      <4> QED  BY <1>2, <2>8, <4>2
    <3> QED  BY <1>2, <2>1, <2>8, <3>1
  <2>10. PICK p : p = Piece(w, c, Reach(w, c))
    OBVIOUS
  <2>11. p \in SplitWord(w) /\ p[1] = start + s[c][1] /\ p[2] = start + s[a][2]
    BY <1>6, <2>6, <2>7, <2>10 DEF SplitWord
  <2>12. s[c][1] <= s[k][1] /\ s[k][2] <= s[a][2]
    BY <1>4, <2>1, <2>6, <2>8, <2>9
  <2>13. /\ s[c][1] \in Nat /\ s[k][1] \in Nat /\ s[k][2] \in Nat /\ s[a][2] \in Nat
         /\ i \in Int
    <3>1. i \in Int
      BY <1>1, <1>2, <1>10
    <3> QED  BY <1>2, <1>3, <2>1, <2>8, <3>1
  <2>14. p[1] < i /\ i <= p[2]
    BY <1>2, <2>1, <2>11, <2>12, <2>13
  <2> QED  BY <2>11, <2>14
<1> QED  BY <1>8, <1>9, <1>10

-----------------------------------------------------------------------------
(* Units: the words, with those over the cap cut into pieces. *)

UnitsOfWord(m, w) ==
    IF w[2] - w[1] <= cap \/ Count(m, w[1], w[2]) <= cap THEN {w} ELSE SplitWord(w)
UnitSpans(m) == UNION {UnitsOfWord(m, w) : w \in Words}

LEMMA UnitsOfWordAre ==
    ASSUME PageType, NEW m, NEW w \in Words
    PROVE  /\ \A p \in UnitsOfWord(m, w) :
                  Span(p) /\ w[1] <= p[1] /\ p[2] <= w[2] /\ FitsOrShort(p)
           /\ \A p, q \in UnitsOfWord(m, w) : p[1] <= q[1] => p = q \/ p[2] <= q[1]
           /\ \A i \in (w[1] + 1)..w[2] : ~Erased(page[i]) \/ Isolated(w[1], w[2]) <= cap =>
                  \E p \in UnitsOfWord(m, w) : p[1] < i /\ i <= p[2]
<1>0. Count(m, w[1], w[2]) = Isolated(w[1], w[2])
  BY WordsAre, CountIsIsolated
<1>1. CASE w[2] - w[1] <= cap \/ Count(m, w[1], w[2]) <= cap
  <2>1. UnitsOfWord(m, w) = {w}
    BY <1>1 DEF UnitsOfWord
  <2>2. PICK start, end : start = w[1] /\ end = w[2]
    OBVIOUS
  <2>3. Cut(start, end) /\ Span(w) /\ start \in Nat /\ end \in Nat /\ cap \in Nat
    BY <2>2, WordsAre DEF Apart, Cut, PageType
  <2>4. FitsOrShort(w)
    BY <1>0, <1>1 DEF FitsOrShort
  <2>5. \A i \in (w[1] + 1)..w[2] : w[1] < i /\ i <= w[2]
    BY <2>2, <2>3
  <2> QED  BY <2>1, <2>2, <2>3, <2>4, <2>5
<1>2. CASE ~(w[2] - w[1] <= cap \/ Count(m, w[1], w[2]) <= cap)
  <2>1. UnitsOfWord(m, w) = SplitWord(w)
    BY <1>2 DEF UnitsOfWord
  <2>2. ~(Isolated(w[1], w[2]) <= cap)
    BY <1>0, <1>2
  <2> QED  BY <2>1, <2>2, PiecesAre
<1> QED  BY <1>1, <1>2

LEMMA UnitSpansAre ==
    ASSUME PageType, NEW m
    PROVE  /\ Apart(UnitSpans(m))
           /\ \A u \in UnitSpans(m) : u[2] <= Len(page) /\ FitsOrShort(u)
           /\ \A i \in 1..Len(page) : ~IsSpace(page[i]) =>
                  LostAtCut(i) \/ \E u \in UnitSpans(m) : u[1] < i /\ i <= u[2]
<1>1. PICK n : n = Len(page) /\ n \in Nat
  BY DEF PageType, Texts
<1>2. \A w \in Words : Span(w) /\ w[2] <= n
  BY <1>1, WordsAre DEF Apart, Cut
<1>3. \A t, u \in Words : t[1] <= u[1] => t = u \/ t[2] <= u[1]
  BY WordsAre DEF Apart
<1>4. \A u \in UnitSpans(m) : \E w \in Words : u \in UnitsOfWord(m, w)
  BY DEF UnitSpans
<1>5. ASSUME NEW u \in UnitSpans(m)
      PROVE  Span(u) /\ u[2] <= n /\ FitsOrShort(u)
  <2>1. PICK w \in Words : u \in UnitsOfWord(m, w)
    BY <1>4
  <2>2. Span(u) /\ u[2] <= w[2] /\ FitsOrShort(u)
    BY <2>1, UnitsOfWordAre
  <2> QED  BY <1>1, <1>2, <2>2 DEF Span
<1>6. IsFiniteSet(UnitSpans(m))
  <2>1. IsFiniteSet(0..n)
    BY <1>1, FS_Interval
  <2>2. IsFiniteSet((0..n) \X (0..n))
    BY <2>1, FS_Product
  <2>3. ASSUME NEW u \in UnitSpans(m)
        PROVE  u \in (0..n) \X (0..n)
    <3>1. u = <<u[1], u[2]>> /\ u[1] \in 0..n /\ u[2] \in 0..n
      BY <1>1, <1>5 DEF Span
    <3>2. <<u[1], u[2]>> \in (0..n) \X (0..n)
      BY <3>1
    <3> QED  BY <3>1, <3>2, Zenon
  <2>4. UnitSpans(m) \in SUBSET ((0..n) \X (0..n))
    BY <2>3
  <2> QED  BY <2>2, <2>4, FS_Subset
<1>7. ASSUME NEW t \in UnitSpans(m), NEW u \in UnitSpans(m), t[1] <= u[1], t # u
      PROVE  t[2] <= u[1]
  <2>1. PICK v \in Words : t \in UnitsOfWord(m, v)
    BY <1>4
  <2>2. PICK w \in Words : u \in UnitsOfWord(m, w)
    BY <1>4
  <2>3. CASE v = w
    BY <1>7, <2>1, <2>2, <2>3, UnitsOfWordAre
  <2>4. CASE v # w
    <3>1. /\ Span(t) /\ Span(u) /\ v[1] <= t[1] /\ t[2] <= v[2] /\ w[1] <= u[1] /\ u[2] <= w[2]
      BY <2>1, <2>2, UnitsOfWordAre
    <3>2. Span(v) /\ Span(w)
      BY <1>2
    <3>3. (v[1] <= w[1] => v[2] <= w[1]) /\ (w[1] <= v[1] => w[2] <= v[1])
      BY <1>3, <2>4
    <3> QED  BY <1>7, <3>1, <3>2, <3>3 DEF Span
  <2> QED  BY <2>3, <2>4
<1>8. ASSUME NEW i \in 1..Len(page), ~IsSpace(page[i]), ~LostAtCut(i)
      PROVE  \E u \in UnitSpans(m) : u[1] < i /\ i <= u[2]
  <2>1. PICK w \in Words : w[1] < i /\ i <= w[2]
    BY <1>8, WordsAre
  <2>2. i \in (w[1] + 1)..w[2]
    BY <1>1, <1>2, <2>1 DEF Span
  <2>3. ~Erased(page[i]) \/ Isolated(w[1], w[2]) <= cap
    <3>1. Isolated(w[1], w[2]) \in Nat /\ cap \in Nat
      BY WordsAre, IsolatedGrows DEF PageType
    <3>2. Erased(page[i]) => ~(Isolated(w[1], w[2]) > cap)
      BY <1>8, <2>1 DEF LostAtCut
    <3> QED  BY <3>1, <3>2
  <2>4. PICK p \in UnitsOfWord(m, w) : p[1] < i /\ i <= p[2]
    BY <2>2, <2>3, UnitsOfWordAre
  <2> QED  BY <2>4 DEF UnitSpans
<1> QED  BY <1>1, <1>5, <1>6, <1>7, <1>8 DEF Apart

(* What the loop relies on: the units lie in order, and leave out only     *)
(* whitespace and what the tokenizer erases at a cut.                      *)
GoodUnits(units) ==
    /\ Len(units) \in Nat /\ DOMAIN units = 1..Len(units)
    /\ \A k \in 1..Len(units) : /\ Span(units[k]) /\ units[k][2] <= Len(page)
                                /\ FitsOrShort(units[k])
    /\ \A j, k \in 1..Len(units) : j < k => units[j][2] <= units[k][1]
    /\ \A i \in 1..Len(page) : ~IsSpace(page[i]) =>
           LostAtCut(i) \/ \E k \in 1..Len(units) : units[k][1] < i /\ i <= units[k][2]

LEMMA UnitsAre ==
    ASSUME PageType, NEW m
    PROVE  /\ GoodUnits(Units(m)) /\ Units(m) \in Seq(UnitSpans(m))
           /\ Units(m) = Units("reference")
<1>1. ASSUME NEW l PROVE Units(l) = InOrder(UnitSpans(l))
  BY Zenon DEF Units, UnitSpans, UnitsOfWord
<1>2. PICK s : s = Units(m)
  OBVIOUS
<1>3. /\ s \in Seq(UnitSpans(m)) /\ Len(s) \in Nat
      /\ \A k \in 1..Len(s) : s[k] \in UnitSpans(m) /\ Span(s[k])
      /\ \A t \in UnitSpans(m) : \E k \in 1..Len(s) : s[k] = t
      /\ \A j, k \in 1..Len(s) : j < k => s[j][2] <= s[k][1]
  BY <1>1, <1>2, UnitSpansAre, InOrderLists
<1>4. GoodUnits(s)
  <2>1. DOMAIN s = 1..Len(s)
    BY <1>3
  <2> QED  BY <1>3, <2>1, UnitSpansAre DEF GoodUnits
<1>5. UnitSpans(m) = UnitSpans("reference")
  <2>1. ASSUME NEW w \in Words
        PROVE  UnitsOfWord(m, w) = UnitsOfWord("reference", w)
    <3>1. Count(m, w[1], w[2]) = Count("reference", w[1], w[2])
      BY WordsAre, CountIsIsolated
    <3> QED  BY <3>1 DEF UnitsOfWord
  <2> QED  BY <2>1 DEF UnitSpans
<1>6. Units(m) = Units("reference")
  BY <1>1, <1>5
<1> QED  BY <1>2, <1>3, <1>4, <1>6

LEMMA UnitsInOrder ==
    ASSUME PageType, NEW units, GoodUnits(units),
           NEW j \in 1..Len(units), NEW k \in 1..Len(units), j <= k
    PROVE  /\ units[j][1] \in Nat /\ units[j][2] \in Nat
           /\ units[k][1] \in Nat /\ units[k][2] \in Nat
           /\ Cut(units[j][1], units[k][2])
           /\ units[j][1] <= units[k][1] /\ units[j][2] <= units[k][2]
           /\ j < k => units[j][1] < units[k][1] /\ units[j][2] < units[k][2]
<1>1. Span(units[j]) /\ Span(units[k]) /\ units[k][2] <= Len(page)
  BY DEF GoodUnits
<1>2. j < k => units[j][2] <= units[k][1]
  BY DEF GoodUnits
<1>3. j \in Int /\ k \in Int /\ (j = k \/ j < k)
  BY DEF GoodUnits
<1> QED  BY <1>1, <1>2, <1>3 DEF Span, Cut

-----------------------------------------------------------------------------
(* One window: unless its first unit does not fit, it holds a unit, fits    *)
(* the cap, holds every longer one that fits, and its end repeats no more   *)
(* than the budget. Both chunkers take the same.                            *)

Fits(units, first, last) == Isolated(units[first + 1][1], units[last][2]) <= cap

LEMMA GrowWindowIs ==
    ASSUME PageType, NEW m, NEW units, GoodUnits(units), NEW first \in 0..(Len(units) - 1)
    PROVE  /\ GrowWindow(m, units, first) \in first..Len(units)
           /\ IF GrowWindow(m, units, first) = first THEN ~Fits(units, first, first + 1)
              ELSE Fits(units, first, GrowWindow(m, units, first))
           /\ \A k \in (first + 1)..Len(units) :
                  Fits(units, first, k) => k <= GrowWindow(m, units, first)
           /\ GrowWindow(m, units, first) = GrowWindow("reference", units, first)
<1>1. PICK n : n = Len(units) /\ n \in Nat /\ first \in Nat /\ first + 1 \in 1..n
  BY DEF GoodUnits
<1>2. PICK S : S = {last \in first..n : \A k \in (first + 1)..last : Fits(units, first, k)}
  OBVIOUS
<1>3. \A k \in (first + 1)..n : k \in 1..n /\ first + 1 <= k
  BY <1>1
<1>4. ASSUME NEW l
      PROVE  GrowWindow(l, units, first) = Max(S)
  <2>1. PICK T : T = {last \in first..n :
                        \A k \in (first + 1)..last : Count(l, units[first + 1][1], units[k][2]) <= cap}
    OBVIOUS
  <2>2. ASSUME NEW last \in first..n, NEW k \in (first + 1)..last
        PROVE  Count(l, units[first + 1][1], units[k][2]) = Isolated(units[first + 1][1], units[k][2])
    <3>1. PICK i : i = first + 1 /\ i \in 1..n /\ k \in 1..n /\ i <= k
      BY <1>1
    <3>2. Cut(units[i][1], units[k][2])
      BY <1>1, <3>1, UnitsInOrder
    <3> QED  BY <3>1, <3>2, CountIsIsolated
  <2>3. T = S
    BY <1>2, <2>1, <2>2 DEF Fits
  <2> QED  BY <1>1, <2>1, <2>3 DEF GrowWindow
<1>5. first \in Int /\ n \in Int /\ S \in SUBSET (first..n) /\ first \in S
  <2>1. \A k \in (first + 1)..first : FALSE
    BY <1>1
  <2>2. first \in first..n
    BY <1>1
  <2> QED  BY <1>1, <1>2, <2>1, <2>2
<1>6. PICK last : last = Max(S) /\ last \in S /\ \A x \in S : x <= last
  <2>1. S # {}
    BY <1>5
  <2> QED  BY <1>5, <2>1, MaxIs
<1>7. last \in first..n /\ (last # first => Fits(units, first, last))
  <2>1. last \in first..n
    BY <1>2, <1>6
  <2>2. last # first => last \in (first + 1)..last
    BY <1>1, <2>1
  <2> QED  BY <1>2, <1>6, <2>1, <2>2
<1>8. ASSUME NEW k \in (first + 1)..n, Fits(units, first, k)
      PROVE  k <= last
  <2>1. ASSUME NEW j \in (first + 1)..k PROVE Fits(units, first, j)
    <3>1. PICK i : i = first + 1 /\ i \in 1..n /\ j \in 1..n /\ k \in 1..n /\ i <= j /\ j <= k
      BY <1>1
    <3>2. PICK a, b, c : a = units[i][1] /\ b = units[j][2] /\ c = units[k][2]
      OBVIOUS
    <3>3. Cut(a, b) /\ b <= c
      BY <1>1, <3>1, <3>2, UnitsInOrder
    <3>4. Cut(a, c)
      <4>1. i <= k
        BY <1>1, <3>1
      <4> QED  BY <1>1, <3>1, <3>2, <4>1, UnitsInOrder
    <3>5. Isolated(a, b) \in Nat /\ Isolated(a, c) \in Nat /\ Isolated(a, b) <= Isolated(a, c)
      BY <3>3, <3>4, IsolatedGrows
    <3>6. Isolated(a, c) <= cap /\ cap \in Nat
      BY <1>8, <3>1, <3>2 DEF Fits, PageType
    <3> QED  BY <3>1, <3>2, <3>5, <3>6 DEF Fits
  <2>2. k \in S
    BY <1>1, <1>2, <2>1
  <2> QED  BY <1>6, <2>2
<1>9. last = first => ~Fits(units, first, first + 1)
  <2>1. first + 1 \in (first + 1)..n /\ ~(first + 1 <= first)
    BY <1>1
  <2> QED  BY <1>8, <2>1
<1> QED  BY <1>1, <1>4, <1>6, <1>7, <1>8, <1>9

LEMMA OverlapStartIs ==
    ASSUME PageType, NEW m, NEW units, GoodUnits(units), NEW first \in 0..(Len(units) - 1),
           NEW last \in (first + 1)..Len(units)
    PROVE  /\ OverlapStart(m, units, first, last) \in (first + 1)..last
           /\ \A next : next = OverlapStart(m, units, first, last) /\ next < last =>
                  Isolated(units[next + 1][1], units[last][2]) <= budget
           /\ OverlapStart(m, units, first, last) = OverlapStart("reference", units, first, last)
<1>1. PICK n : n = Len(units) /\ n \in Nat /\ first \in Nat /\ last \in 1..n /\ last \in Int
  BY DEF GoodUnits
<1>2. PICK S, a : /\ a = first + 1
                  /\ S = {next \in a..last : \A k \in next..(last - 1) :
                              Isolated(units[k + 1][1], units[last][2]) <= budget}
  OBVIOUS
<1>3. ASSUME NEW l
      PROVE  OverlapStart(l, units, first, last) = Min(S)
  <2>1. PICK T : T = {next \in a..last : \A k \in next..(last - 1) :
                          Count(l, units[k + 1][1], units[last][2]) <= budget}
    OBVIOUS
  <2>2. ASSUME NEW next \in a..last, NEW k \in next..(last - 1)
        PROVE  Count(l, units[k + 1][1], units[last][2]) = Isolated(units[k + 1][1], units[last][2])
    <3>1. PICK i : i = k + 1 /\ i \in 1..n /\ i <= last
      BY <1>1, <1>2
    <3>2. Cut(units[i][1], units[last][2])
      BY <1>1, <3>1, UnitsInOrder
    <3> QED  BY <3>1, <3>2, CountIsIsolated
  <2>3. T = S
    BY <1>2, <2>1, <2>2
  <2> QED  BY <1>2, <2>1, <2>3 DEF OverlapStart
<1>4. a \in Int /\ last \in Int /\ S \in SUBSET (a..last) /\ last \in S
  <2>1. \A k \in last..(last - 1) : FALSE
    BY <1>1
  <2>2. last \in a..last
    BY <1>1, <1>2
  <2> QED  BY <1>1, <1>2, <2>1, <2>2
<1>5. PICK next : next = Min(S) /\ next \in S
  <2>1. S # {}
    BY <1>4
  <2> QED  BY <1>4, <2>1, MinIs
<1>6. next \in a..last
  BY <1>4, <1>5
<1>7. next < last => Isolated(units[next + 1][1], units[last][2]) <= budget
  <2>1. next < last => next \in next..(last - 1)
    BY <1>1, <1>2, <1>6
  <2> QED  BY <1>2, <1>5, <2>1
<1> QED  BY <1>2, <1>3, <1>5, <1>6, <1>7

-----------------------------------------------------------------------------
(* What a chunker has produced: how far its chunks reach, and that the next *)
(* window starts behind the last chunk's start and repeats no more of it    *)
(* than the budget. A window that gets no further is therefore the one      *)
(* that ends where the last chunk did, and dropping it loses nothing.       *)

ChunkRecords == [start : Nat, end : Nat, tokens : Nat]
Follows(c, d) ==
    /\ c.start < d.start /\ c.end < d.end
    /\ d.start < c.end => Isolated(d.start, c.end) <= budget
ChunkList(chunks) ==
    /\ chunks \in Seq(ChunkRecords)
    /\ \A i \in 1..Len(chunks) : /\ Cut(chunks[i].start, chunks[i].end)
                                 /\ chunks[i].tokens = Isolated(chunks[i].start, chunks[i].end)
                                 /\ chunks[i].tokens <= cap
    /\ \A i, j \in 1..Len(chunks) : j = i + 1 => Follows(chunks[i], chunks[j])

Reached(r, reached) ==
    /\ reached \in 0..Len(r.units)
    /\ reached = 0 <=> Len(r.chunks) = 0
    /\ reached # 0 => r.chunks[Len(r.chunks)].end = r.units[reached][2]
    /\ \A k \in 1..reached : \E i \in 1..Len(r.chunks) :
           r.chunks[i].start <= r.units[k][1] /\ r.units[k][2] <= r.chunks[i].end
    /\ r.pc = "run" =>
           /\ r.first <= reached
           /\ reached # 0 => r.chunks[Len(r.chunks)].start < r.units[r.first + 1][1]
           /\ r.first < reached =>
                  Isolated(r.units[r.first + 1][1], r.units[reached][2]) <= budget
    /\ r.pc = "done" => reached = Len(r.units)

LoopRecord(r) == r = [units |-> r.units, first |-> r.first, chunks |-> r.chunks,
                      pc |-> r.pc, rounds |-> r.rounds]

Working(r) ==
    /\ LoopRecord(r) /\ GoodUnits(r.units) /\ ChunkList(r.chunks)
    /\ r.pc \in {"run", "done", "too small"}
    /\ r.pc = "too small" =>
           \E k \in 1..Len(r.units) : ~(Isolated(r.units[k][1], r.units[k][2]) <= cap)
    /\ r.first \in Nat /\ r.rounds \in Nat /\ r.rounds <= Len(r.units)
    /\ r.pc = "run" => r.first < Len(r.units) /\ r.rounds <= r.first
    /\ \E reached : Reached(r, reached)

LEMMA AppendedChunk ==
    ASSUME PageType, NEW chunks, ChunkList(chunks), NEW c \in ChunkRecords,
           Cut(c.start, c.end), c.tokens = Isolated(c.start, c.end), c.tokens <= cap,
           Len(chunks) # 0 => Follows(chunks[Len(chunks)], c)
    PROVE  /\ ChunkList(Append(chunks, c)) /\ Len(Append(chunks, c)) = Len(chunks) + 1
           /\ Append(chunks, c)[Len(chunks) + 1] = c
           /\ \A i \in 1..Len(chunks) : Append(chunks, c)[i] = chunks[i]
<1>1. PICK n, s : n = Len(chunks) /\ s = Append(chunks, c)
  OBVIOUS
<1>2. chunks \in Seq(ChunkRecords) /\ n \in Nat
  BY <1>1 DEF ChunkList
<1>3. /\ s \in Seq(ChunkRecords) /\ Len(s) = n + 1 /\ s[n + 1] = c
      /\ \A i \in 1..n : s[i] = chunks[i]
  BY <1>1, <1>2
<1>4. ASSUME NEW i \in 1..(n + 1)
      PROVE  (i \in 1..n /\ s[i] = chunks[i]) \/ (i = n + 1 /\ s[i] = c)
  <2>1. i \in 1..n \/ i = n + 1
    BY <1>2
  <2> QED  BY <1>3, <2>1
<1>5. \A i \in 1..Len(s) : /\ Cut(s[i].start, s[i].end)
                           /\ s[i].tokens = Isolated(s[i].start, s[i].end) /\ s[i].tokens <= cap
  BY <1>1, <1>3, <1>4 DEF ChunkList
<1>6. ASSUME NEW i \in 1..Len(s), NEW j \in 1..Len(s), j = i + 1
      PROVE  Follows(s[i], s[j])
  <2>1. i \in 1..n /\ s[i] = chunks[i]
    BY <1>2, <1>3, <1>6
  <2>2. CASE j \in 1..n /\ s[j] = chunks[j]
    BY <1>1, <1>6, <2>1, <2>2 DEF ChunkList
  <2>3. CASE j = n + 1 /\ s[j] = c
    <3>1. i = n /\ n # 0
      BY <1>2, <1>6, <2>1, <2>3
    <3> QED  BY <1>1, <2>1, <2>3, <3>1
  <2> QED  BY <1>3, <1>4, <2>2, <2>3
<1>7. ChunkList(s)
  BY <1>3, <1>5, <1>6 DEF ChunkList
<1> QED  BY <1>1, <1>3, <1>7

(* The first unit that is left does not fit: the page fails. *)
LEMMA RoundFails ==
    ASSUME PageType, NEW m, NEW r, Working(r), r.pc = "run",
           GrowWindow(m, r.units, r.first) = r.first
    PROVE  Working(Round(m, r)) /\ Round(m, r) = Round("reference", r)
<1>1. PICK U, n, first : U = r.units /\ n = Len(U) /\ first = r.first
  OBVIOUS
<1>2. /\ GoodUnits(U) /\ n \in Nat /\ first \in 0..(n - 1)
  <2>1. n \in Nat
    BY <1>1 DEF Working, GoodUnits
  <2> QED  BY <1>1, <2>1 DEF Working
<1>3. GrowWindow("reference", U, first) = first /\ ~Fits(U, first, first + 1)
  BY <1>1, <1>2, GrowWindowIs
<1>4. PICK new : new = [r EXCEPT !.pc = "too small"]
  OBVIOUS
<1>5. Round(m, r) = new /\ Round("reference", r) = new
  BY <1>1, <1>3, <1>4 DEF Round
<1>6. /\ new.units = r.units /\ new.first = r.first /\ new.chunks = r.chunks
      /\ new.pc = "too small" /\ new.rounds = r.rounds /\ LoopRecord(new)
  BY <1>4 DEF Working, LoopRecord
<1>7. PICK k : k = first + 1 /\ k \in 1..n
  BY <1>2
<1>8. ~(Isolated(U[k][1], U[k][2]) <= cap)
  BY <1>3, <1>7 DEF Fits
<1>9. \E reached : Reached(new, reached)
  <2>1. PICK reached : Reached(r, reached)
    BY DEF Working
  <2>2. Reached(new, reached)
    BY <1>6, <2>1 DEF Reached
  <2> QED  BY <2>2
<1>10. Working(new)
  BY <1>1, <1>6, <1>7, <1>8, <1>9 DEF Working
<1> QED  BY <1>5, <1>10

LEMMA RoundGoesOn ==
    ASSUME PageType, NEW m, NEW r, Working(r), r.pc = "run",
           GrowWindow(m, r.units, r.first) # r.first
    PROVE  Working(Round(m, r)) /\ Round(m, r) = Round("reference", r)
<1>1. PICK U, n, first : U = r.units /\ n = Len(U) /\ first = r.first
  OBVIOUS
<1>2. /\ GoodUnits(U) /\ ChunkList(r.chunks) /\ n \in Nat /\ r.rounds \in Nat
      /\ first \in 0..(n - 1) /\ r.rounds <= first /\ first \in Nat /\ first < n
  <2>1. n \in Nat
    BY <1>1 DEF Working, GoodUnits
  <2> QED  BY <1>1, <2>1 DEF Working
<1>3. PICK last : last = GrowWindow(m, U, first)
  OBVIOUS
<1>4. /\ last \in (first + 1)..n /\ Fits(U, first, last)
      /\ \A k \in (first + 1)..n : Fits(U, first, k) => k <= last
      /\ last = GrowWindow("reference", U, first)
  <2>1. /\ last \in first..n /\ Fits(U, first, last) /\ last # first
        /\ \A k \in (first + 1)..n : Fits(U, first, k) => k <= last
        /\ last = GrowWindow("reference", U, first)
    BY <1>1, <1>2, <1>3, GrowWindowIs
  <2>2. last \in (first + 1)..n
    BY <1>2, <2>1
  <2> QED  BY <2>1, <2>2
<1>5. PICK i : i = first + 1 /\ i \in 1..n /\ last \in 1..n /\ i <= last /\ last # first
               /\ i \in Nat /\ last \in Nat
  BY <1>2, <1>4
<1>6. PICK start, end : start = U[i][1] /\ end = U[last][2]
  OBVIOUS
<1>7. Cut(start, end) /\ start \in Nat /\ end \in Nat /\ Isolated(start, end) <= cap
      /\ Isolated(start, end) \in Nat
  <2>1. Cut(start, end)
    BY <1>1, <1>2, <1>5, <1>6, UnitsInOrder
  <2> QED  BY <1>4, <1>5, <1>6, <2>1, IsolatedGrows DEF Cut, Fits
<1>8. PICK next : next = OverlapStart(m, U, first, last)
  OBVIOUS
<1>9. /\ next \in i..last /\ next = OverlapStart("reference", U, first, last)
      /\ next < last => Isolated(U[next + 1][1], U[last][2]) <= budget
  BY <1>1, <1>2, <1>4, <1>5, <1>8, OverlapStartIs
<1>10. PICK chunk : chunk = [start |-> start, end |-> end, tokens |-> Isolated(start, end)]
  OBVIOUS
<1>11. chunk \in ChunkRecords /\ chunk.start = start /\ chunk.end = end
       /\ chunk.tokens = Isolated(start, end)
  BY <1>7, <1>10 DEF ChunkRecords
<1>12. PICK new : new = [units  |-> U,
                         chunks |-> IF Extends(r.chunks, end) THEN Append(r.chunks, chunk)
                                    ELSE r.chunks,
                         first  |-> IF last = n THEN first ELSE next,
                         pc     |-> IF last = n THEN "done" ELSE "run",
                         rounds |-> r.rounds + 1]
  OBVIOUS
<1>13. Round(m, r) = new /\ Round("reference", r) = new
  <2>1. ASSUME NEW l, GrowWindow(l, U, first) = last, OverlapStart(l, U, first, last) = next
        PROVE  Round(l, r) = new
    <3>1. Count(l, start, end) = Isolated(start, end)
      BY <1>7, CountIsIsolated
    <3> QED  BY <1>1, <1>5, <1>6, <1>10, <1>12, <2>1, <3>1 DEF Round
  <2> QED  BY <1>3, <1>4, <1>8, <1>9, <2>1
<1>14. PICK reached : Reached(r, reached)
  BY DEF Working
<1>15. /\ reached \in 0..n /\ reached \in Nat /\ (reached = 0 <=> Len(r.chunks) = 0)
       /\ reached # 0 => r.chunks[Len(r.chunks)].end = U[reached][2]
       /\ \A k \in 1..reached : \E j \in 1..Len(r.chunks) :
              r.chunks[j].start <= U[k][1] /\ U[k][2] <= r.chunks[j].end
       /\ first <= reached
       /\ reached # 0 => r.chunks[Len(r.chunks)].start < start
       /\ first < reached => Isolated(start, U[reached][2]) <= budget
  <2>1. /\ reached \in 0..n /\ reached \in Nat /\ (reached = 0 <=> Len(r.chunks) = 0)
        /\ reached # 0 => r.chunks[Len(r.chunks)].end = U[reached][2]
    BY <1>1, <1>2, <1>14 DEF Reached
  <2>2. \A k \in 1..reached : \E j \in 1..Len(r.chunks) :
            r.chunks[j].start <= U[k][1] /\ U[k][2] <= r.chunks[j].end
    BY <1>1, <1>14 DEF Reached
  <2>3. /\ first <= reached
        /\ reached # 0 => r.chunks[Len(r.chunks)].start < U[first + 1][1]
        /\ first < reached => Isolated(U[first + 1][1], U[reached][2]) <= budget
    BY <1>1, <1>14 DEF Reached
  <2>4. U[first + 1][1] = start
    BY <1>5, <1>6
  <2> QED  BY <2>1, <2>2, <2>3, <2>4
<1>16. reached <= last
  <2>1. CASE first < reached
    <3>1. reached \in (first + 1)..n
      BY <1>2, <1>15, <2>1
    <3>2. Isolated(start, U[reached][2]) \in Nat
      <4>1. i <= reached /\ reached \in 1..n
        BY <1>2, <1>5, <3>1
      <4>2. Cut(start, U[reached][2])
        BY <1>1, <1>2, <1>5, <1>6, <4>1, UnitsInOrder
      <4> QED  BY <4>2, IsolatedGrows
    <3>3. Fits(U, first, reached)
      BY <1>5, <1>6, <1>15, <2>1, <3>2 DEF Fits, PageType
    <3> QED  BY <1>4, <3>1, <3>3
  <2>2. CASE ~(first < reached)
    BY <1>2, <1>4, <1>15, <2>2
  <2> QED  BY <2>1, <2>2
<1>17. r.chunks = <<>> <=> Len(r.chunks) = 0
  BY <1>2 DEF ChunkList
<1>18. Extends(r.chunks, end) <=> reached # last
  <2>1. CASE reached = 0
    BY <1>5, <1>15, <1>17, <2>1 DEF Extends
  <2>2. CASE reached # 0
    <3>1. reached \in 1..n /\ (reached = last \/ reached < last)
      BY <1>2, <1>5, <1>15, <1>16, <2>2
    <3>2. reached < last => U[reached][2] < end
      BY <1>1, <1>2, <1>5, <1>6, <3>1, UnitsInOrder
    <3>3. reached = last => ~(end > end)
      BY <1>7
    <3> QED  BY <1>6, <1>7, <1>15, <1>17, <2>2, <3>1, <3>2, <3>3 DEF Extends
  <2> QED  BY <2>1, <2>2
<1>19. PICK s : s = new.chunks /\ s = IF reached # last THEN Append(r.chunks, chunk) ELSE r.chunks
  BY <1>12, <1>18
<1>20. /\ ChunkList(s) /\ Len(s) \in Nat /\ Len(s) # 0
       /\ s[Len(s)].end = end /\ (last # n => s[Len(s)].start < U[next + 1][1])
       /\ \A k \in 1..last : \E j \in 1..Len(s) :
              s[j].start <= U[k][1] /\ U[k][2] <= s[j].end
  <2>1. PICK c : c = Len(r.chunks) /\ c \in Nat
    BY <1>2 DEF ChunkList
  <2>2. last # n => start < U[next + 1][1] /\ U[next + 1][1] \in Nat
    <3>1. SUFFICES ASSUME last # n PROVE start < U[next + 1][1] /\ U[next + 1][1] \in Nat
      OBVIOUS
    <3>2. PICK j : j = next + 1 /\ j \in 1..n /\ i < j /\ i <= j
      BY <1>2, <1>5, <1>9, <3>1
    <3> QED  BY <1>1, <1>2, <1>5, <1>6, <3>2, UnitsInOrder
  <2>3. CASE reached = last
    <3>1. s = r.chunks /\ reached # 0
      BY <1>5, <1>19, <2>3
    <3>2. s[Len(s)].end = end /\ s[Len(s)].start < start
      BY <1>6, <1>15, <2>3, <3>1
    <3>3. Len(s) \in 1..Len(s) /\ Len(s) # 0
      BY <1>15, <2>1, <3>1
    <3>4. s[Len(s)].start \in Nat
      BY <1>2, <3>1, <3>3 DEF ChunkList, Cut
    <3>5. last # n => s[Len(s)].start < U[next + 1][1]
      BY <1>7, <2>2, <3>2, <3>4
    <3> QED  BY <1>2, <1>15, <2>1, <2>3, <3>1, <3>2, <3>3, <3>5
  <2>4. CASE reached # last
    <3>1. s = Append(r.chunks, chunk) /\ reached < last
      BY <1>5, <1>15, <1>16, <1>19, <2>4
    <3>2. c # 0 => Follows(r.chunks[c], chunk)
      <4>1. SUFFICES ASSUME c # 0 PROVE Follows(r.chunks[c], chunk)
        OBVIOUS
      <4>2. reached # 0 /\ r.chunks[c].end = U[reached][2] /\ r.chunks[c].start < start
        BY <1>15, <2>1, <4>1
      <4>3. reached \in 1..n /\ reached <= last
        <5>1. reached \in 0..n /\ n \in Nat
          BY <1>2, <1>15
        <5> QED  BY <1>16, <4>2, <5>1
      <4>4. U[reached][2] < end /\ U[reached][2] \in Nat
        BY <1>1, <1>2, <1>5, <1>6, <3>1, <4>3, UnitsInOrder
      <4>5. start < U[reached][2] => Isolated(start, U[reached][2]) <= budget
        <5>1. ASSUME ~(first < reached) PROVE U[reached][2] <= start
          <6>1. reached < i
            BY <1>2, <1>5, <1>15, <5>1
          <6> QED  BY <1>1, <1>2, <1>5, <1>6, <4>3, <6>1 DEF GoodUnits
        <5> QED  BY <1>7, <1>15, <4>4, <5>1
      <4> QED  BY <1>11, <4>2, <4>4, <4>5 DEF Follows
    <3>3. /\ ChunkList(s) /\ Len(s) = c + 1 /\ s[c + 1] = chunk
          /\ \A j \in 1..c : s[j] = r.chunks[j]
      BY <1>2, <1>7, <1>11, <2>1, <3>1, <3>2, AppendedChunk
    <3>4. ASSUME NEW k \in 1..last
          PROVE  \E j \in 1..Len(s) : s[j].start <= U[k][1] /\ U[k][2] <= s[j].end
      <4>1. CASE k \in 1..reached
        <5>1. PICK j \in 1..c : r.chunks[j].start <= U[k][1] /\ U[k][2] <= r.chunks[j].end
          BY <1>15, <2>1, <4>1
        <5>2. j \in 1..Len(s) /\ s[j] = r.chunks[j]
          BY <2>1, <3>3
        <5> QED  BY <5>1, <5>2
      <4>2. CASE k \notin 1..reached
        <5>1. i <= k /\ k <= last /\ k \in 1..n
          BY <1>2, <1>5, <1>15, <4>2
        <5>2. start <= U[k][1] /\ U[k][2] <= end
          BY <1>1, <1>2, <1>5, <1>6, <5>1, UnitsInOrder
        <5>3. c + 1 \in 1..Len(s)
          BY <2>1, <3>3
        <5> QED  BY <1>11, <3>3, <5>2, <5>3
      <4> QED  BY <4>1, <4>2
    <3>5. Len(s) \in Nat /\ Len(s) # 0 /\ s[Len(s)] = chunk
      BY <2>1, <3>3
    <3> QED  BY <1>11, <2>2, <3>3, <3>4, <3>5
  <2> QED  BY <2>3, <2>4
<1>21. Working(new)
  <2>1. /\ new.units = U /\ new.chunks = s /\ new.rounds = r.rounds + 1
        /\ last = n => new.first = first /\ new.pc = "done"
        /\ last # n => new.first = next /\ new.pc = "run"
    BY <1>12, <1>19
  <2>2. next \in Nat /\ i <= next /\ next <= last /\ last <= n
    BY <1>2, <1>5, <1>9
  <2>3. new.first \in Nat /\ new.rounds \in Nat /\ new.rounds <= n
    BY <1>2, <2>1, <2>2
  <2>4. new.pc = "run" => new.first < n /\ new.rounds <= new.first
    BY <1>2, <1>5, <2>1, <2>2
  <2>5. Reached(new, last)
    <3>1. /\ last \in 0..Len(new.units) /\ (last = 0 <=> Len(new.chunks) = 0)
          /\ last # 0 => new.chunks[Len(new.chunks)].end = new.units[last][2]
      BY <1>1, <1>2, <1>5, <1>6, <1>20, <2>1
    <3>2. \A k \in 1..last : \E j \in 1..Len(new.chunks) :
              new.chunks[j].start <= new.units[k][1] /\ new.units[k][2] <= new.chunks[j].end
      BY <1>20, <2>1
    <3>3. CASE last = n
      BY <1>1, <2>1, <3>1, <3>2, <3>3 DEF Reached
    <3>4. CASE last # n
      <4>1. /\ new.first <= last
            /\ new.chunks[Len(new.chunks)].start < new.units[new.first + 1][1]
            /\ new.first < last =>
                   Isolated(new.units[new.first + 1][1], new.units[last][2]) <= budget
        BY <1>9, <1>20, <2>1, <2>2, <3>4
      <4>2. new.pc = "run"
        BY <2>1, <3>4
      <4> QED  BY <3>1, <3>2, <4>1, <4>2 DEF Reached
    <3> QED  BY <3>3, <3>4
  <2>6. new.pc \in {"run", "done"}
    BY <2>1
  <2>7. LoopRecord(new)
    BY <1>12 DEF LoopRecord
  <2> QED  BY <1>1, <1>2, <1>20, <2>1, <2>3, <2>4, <2>5, <2>6, <2>7 DEF Working
<1> QED  BY <1>13, <1>21

LEMMA RoundIs ==
    ASSUME PageType, NEW m, NEW r, Working(r), r.pc = "run"
    PROVE  Working(Round(m, r)) /\ Round(m, r) = Round("reference", r)
BY RoundFails, RoundGoesOn

-----------------------------------------------------------------------------
(* A step that leaves the page and its settings alone changes nothing that *)
(* is computed from them.                                                  *)

LEMMA SettledCounts ==
    ASSUME UNCHANGED <<page, cap, budget, ordered>>, NEW m, NEW start, NEW end
    PROVE  /\ Slice(start, end)' = Slice(start, end)
           /\ Isolated(start, end)' = Isolated(start, end)
           /\ Cut(start, end)' <=> Cut(start, end)
           /\ Count(m, start, end)' = Count(m, start, end)
<1>1. page' = page /\ cap' = cap /\ budget' = budget /\ ordered' = ordered
  OBVIOUS
<1>2. Slice(start, end)' = Slice(start, end)
  BY <1>1 DEF Slice
<1>3. Isolated(start, end)' = Isolated(start, end)
  BY <1>2 DEF Isolated
<1>4. Cut(start, end)' <=> Cut(start, end)
  BY <1>1 DEF Cut
<1>5. InsideWord(start, end)' <=> InsideWord(start, end)
  BY <1>1 DEF InsideWord
<1>6. Guarded' <=> Guarded
  BY <1>1 DEF Guarded, RequiresReference
<1>7. OffsetCount(start, end)' = OffsetCount(start, end)
  BY <1>1, <1>3, <1>5 DEF OffsetCount
<1>8. Count(m, start, end)' = Count(m, start, end)
  BY <1>3, <1>6, <1>7 DEF Count
<1> QED  BY <1>2, <1>3, <1>4, <1>8

LEMMA SettledUnits ==
    ASSUME UNCHANGED <<page, cap, budget, ordered>>, NEW m
    PROVE  Units(m)' = Units(m)
<1>1. page' = page /\ cap' = cap
  OBVIOUS
<1>2. Words' = Words
  BY <1>1 DEF Words
<1>3. ASSUME NEW w, NEW i, NEW j
      PROVE  /\ WordTokens(w)' = WordTokens(w) /\ Piece(w, i, j)' = Piece(w, i, j)
             /\ Isolated(Piece(w, i, j)[1], Piece(w, i, j)[2])'
                    = Isolated(Piece(w, i, j)[1], Piece(w, i, j)[2])
  <2>1. WordTokens(w)' = WordTokens(w)
    BY SettledCounts DEF WordTokens
  <2>2. Piece(w, i, j)' = Piece(w, i, j)
    BY <2>1 DEF Piece
  <2>3. Isolated(Piece(w, i, j)[1], Piece(w, i, j)[2])'
            = Isolated(Piece(w, i, j)[1], Piece(w, i, j)[2])
    BY <1>1, <2>2 DEF Isolated, Slice
  <2> QED  BY <2>1, <2>2, <2>3
<1>4. ASSUME NEW w, NEW i
      PROVE  Reach(w, i)' = Reach(w, i)
  BY <1>1, <1>3 DEF Reach
<1>5. ASSUME NEW w
      PROVE  Cuts(w)' = Cuts(w)
  BY <1>3, <1>4 DEF Cuts
<1>6. ASSUME NEW w
      PROVE  SplitWord(w)' = SplitWord(w)
  <2>1. ASSUME NEW c PROVE Piece(w, c, Reach(w, c))' = Piece(w, c, Reach(w, c))
    BY <1>3, <1>4 DEF Piece
  <2> QED  BY <1>5, <2>1 DEF SplitWord
<1>7. ASSUME NEW w
      PROVE  UnitsOfWord(m, w)' = UnitsOfWord(m, w)
  BY <1>1, <1>6, SettledCounts DEF UnitsOfWord
<1>8. UnitSpans(m)' = UnitSpans(m)
  BY <1>2, <1>7 DEF UnitSpans
<1>9. Units(m) = InOrder(UnitSpans(m))
  BY Zenon DEF Units, UnitSpans, UnitsOfWord
<1>10. Units(m)' = InOrder(UnitSpans(m)')
  BY Zenon DEF Units, UnitSpans, UnitsOfWord
<1> QED  BY <1>8, <1>9, <1>10

LEMMA SettledRounds ==
    ASSUME UNCHANGED <<page, cap, budget, ordered>>, NEW r, NEW m
    PROVE  (Working(r)' <=> Working(r)) /\ Round(m, r)' = Round(m, r)
<1>1. page' = page /\ cap' = cap /\ budget' = budget
  OBVIOUS
<1>2. ASSUME NEW units, NEW first
      PROVE  GrowWindow(m, units, first)' = GrowWindow(m, units, first)
  BY <1>1, SettledCounts DEF GrowWindow
<1>3. ASSUME NEW units, NEW first, NEW last
      PROVE  OverlapStart(m, units, first, last)' = OverlapStart(m, units, first, last)
  BY <1>1, SettledCounts DEF OverlapStart
<1>4. Round(m, r)' = Round(m, r)
  BY <1>2, <1>3, SettledCounts DEF Round
<1>5. GoodUnits(r.units)' <=> GoodUnits(r.units)
  <2>1. ASSUME NEW u PROVE FitsOrShort(u)' <=> FitsOrShort(u)
    BY <1>1, SettledCounts DEF FitsOrShort
  <2>2. ASSUME NEW i PROVE LostAtCut(i)' <=> LostAtCut(i)
    <3>1. Words' = Words
      BY <1>1 DEF Words
    <3> QED  BY <1>1, <3>1, SettledCounts DEF LostAtCut
  <2> QED  BY <1>1, <2>1, <2>2 DEF GoodUnits
<1>6. ChunkList(r.chunks)' <=> ChunkList(r.chunks)
  <2>1. ASSUME NEW c, NEW d
        PROVE  Follows(c, d)' <=> Follows(c, d)
    BY <1>1, SettledCounts DEF Follows
  <2>2. ASSUME NEW c
        PROVE  /\ Cut(c.start, c.end)' <=> Cut(c.start, c.end)
               /\ Isolated(c.start, c.end)' = Isolated(c.start, c.end)
    BY SettledCounts
  <2>3. ChunkRecords' = ChunkRecords
    BY DEF ChunkRecords
  <2> QED  BY <1>1, <2>1, <2>2, <2>3, Zenon DEF ChunkList
<1>7. ASSUME NEW reached
      PROVE  Reached(r, reached)' <=> Reached(r, reached)
  BY <1>1, SettledCounts DEF Reached
<1>8. Working(r)' <=> Working(r)
  <2>1. LoopRecord(r)' <=> LoopRecord(r)
    BY DEF LoopRecord
  <2>2. ASSUME NEW a, NEW b PROVE Isolated(a, b)' = Isolated(a, b)
    BY SettledCounts
  <2> QED  BY <1>1, <1>5, <1>6, <1>7, <2>1, <2>2 DEF Working
<1> QED  BY <1>4, <1>8

-----------------------------------------------------------------------------
(* The two chunkers together. The reference loop runs after the fast one.   *)
(* To compare them, let a state of the loop lead to another if every set    *)
(* closed under the reference's round that has the first has the second:    *)
(* what the reference still has to do leads to where the fast loop is.      *)

Fresh == [units |-> <<>>, first |-> 0, chunks |-> <<>>, pc |-> "units", rounds |-> 0]
Prepared(units) == [units |-> units, first |-> 0, chunks |-> <<>>,
                    pc |-> IF units = <<>> THEN "done" ELSE "run", rounds |-> 0]

Closed(S) == \A r \in S : r.pc = "run" => Round("reference", r) \in S
Leads(r, s) == \A S : r \in S /\ Closed(S) => s \in S

FreshOrWorking(r) == r = Fresh \/ Working(r)
Compared(fast, reference) ==
    /\ fast = Fresh \/ fast.pc = "run" => reference = Fresh
    /\ fast # Fresh /\ reference = Fresh => Leads(Prepared(Units("reference")), fast)
    /\ reference # Fresh => Leads(reference, fast)

Both(fast, reference) == [m \in Loops |-> IF m = "fast" THEN fast ELSE reference]
ChunkerInv ==
    /\ PageType
    /\ \E fast, reference : /\ loop = Both(fast, reference)
                            /\ FreshOrWorking(fast) /\ FreshOrWorking(reference)
                            /\ Compared(fast, reference)

LEMMA LeadsIs ==
    ASSUME NEW r, NEW s, Leads(r, s)
    PROVE  /\ s.pc = "run" => Leads(r, Round("reference", s))
           /\ r.pc = "run" /\ s.pc # "run" => Leads(Round("reference", r), s)
           /\ r.pc # "run" => s = r
<1>1. ASSUME s.pc = "run" PROVE Leads(r, Round("reference", s))
  BY <1>1 DEF Leads, Closed
<1>2. ASSUME r.pc = "run", s.pc # "run" PROVE Leads(Round("reference", r), s)
  <2>1. SUFFICES ASSUME NEW S, Round("reference", r) \in S, Closed(S) PROVE s \in S
    BY DEF Leads
  <2>2. PICK T : T = S \cup {r}
    OBVIOUS
  <2>3. r \in T /\ Closed(T)
    BY <2>1, <2>2 DEF Closed
  <2>4. s \in T /\ s # r
    BY <1>2, <2>3 DEF Leads
  <2> QED  BY <2>2, <2>4
<1>3. ASSUME r.pc # "run" PROVE s = r
  <2>1. PICK S : S = {r}
    OBVIOUS
  <2>2. r \in S /\ Closed(S)
    BY <1>3, <2>1 DEF Closed
  <2> QED  BY <2>1, <2>2 DEF Leads
<1> QED  BY <1>1, <1>2, <1>3

LEMMA SettledLeads ==
    ASSUME UNCHANGED <<page, cap, budget, ordered>>, NEW r, NEW s
    PROVE  /\ Leads(r, s)' <=> Leads(r, s)
           /\ FreshOrWorking(r)' <=> FreshOrWorking(r)
           /\ Compared(r, s)' <=> Compared(r, s)
<1>1. ASSUME NEW S PROVE Closed(S)' <=> Closed(S)
  BY SettledRounds DEF Closed
<1>2. ASSUME NEW p, NEW q PROVE Leads(p, q)' <=> Leads(p, q)
  BY <1>1 DEF Leads
<1>3. FreshOrWorking(r)' <=> FreshOrWorking(r)
  BY SettledRounds DEF FreshOrWorking, Fresh
<1>4. Units("reference")' = Units("reference")
  BY SettledUnits
<1>5. Leads(Prepared(Units("reference")), r)' <=> Leads(Prepared(Units("reference")), r)
  <2>1. PICK u : u = Units("reference")
    OBVIOUS
  <2> QED  BY <1>1, <1>4 DEF Leads, Prepared
<1>6. Compared(r, s)' <=> Compared(r, s)
  BY <1>2, <1>5 DEF Compared, Fresh
<1> QED  BY <1>2, <1>3, <1>6

(* A chunker with its units starts well, and ends at once on a blank page. *)
LEMMA PreparedIs ==
    ASSUME PageType, NEW m
    PROVE  Working(Prepared(Units(m)))
<1>1. PICK U, n, r : U = Units(m) /\ n = Len(U) /\ r = Prepared(U)
  OBVIOUS
<1>2. GoodUnits(U) /\ n \in Nat /\ (U = <<>> <=> n = 0)
  BY <1>1, UnitsAre DEF GoodUnits
<1>3. /\ r.units = U /\ r.first = 0 /\ r.chunks = <<>> /\ r.rounds = 0
      /\ r.pc = IF n = 0 THEN "done" ELSE "run"
  BY <1>1, <1>2 DEF Prepared
<1>4. ChunkList(r.chunks) /\ Len(r.chunks) = 0
  BY <1>3 DEF ChunkList
<1>5. Reached(r, 0)
  BY <1>1, <1>2, <1>3, <1>4 DEF Reached
<1>6. LoopRecord(r)
  BY <1>1 DEF Prepared, LoopRecord
<1> QED  BY <1>1, <1>2, <1>3, <1>4, <1>5, <1>6 DEF Working

LEMMA ChunkerStarts ==
    ASSUME ChunkerAssumption, ChunkerInit
    PROVE  ChunkerInv
<1>1. PageType
  <2>1. PICK n \in 0..MaxPage : page \in [1..n -> Characters]
    BY DEF ChunkerInit
  <2>2. n \in Nat
    BY DEF ChunkerAssumption
  <2>3. page \in Seq(Characters)
    BY <2>1, <2>2
  <2> QED  BY <2>3 DEF ChunkerInit, ChunkerAssumption, PageType, Texts
<1>2. loop = Both(Fresh, Fresh)
  BY DEF ChunkerInit, Fresh, Both
<1> QED  BY <1>1, <1>2 DEF ChunkerInv, FreshOrWorking, Compared

LEMMA BothIs ==
    ASSUME NEW f, NEW g
    PROVE  /\ Both(f, g)["fast"] = f /\ Both(f, g)["reference"] = g
           /\ \A x : [Both(f, g) EXCEPT !["fast"] = x] = Both(x, g)
           /\ \A x : [Both(f, g) EXCEPT !["reference"] = x] = Both(f, x)
BY DEF Both, Loops

LEMMA ChunkerKept ==
    ASSUME PageType, UNCHANGED <<page, cap, budget, ordered>>, NEW f, NEW g, loop' = Both(f, g),
           FreshOrWorking(f), FreshOrWorking(g), Compared(f, g)
    PROVE  ChunkerInv'
<1>1. PageType'
  BY DEF PageType
<1>2. FreshOrWorking(f)' /\ FreshOrWorking(g)' /\ Compared(f, g)'
  BY SettledLeads
<1> QED  BY <1>1, <1>2 DEF ChunkerInv, Both

LEMMA StatesDiffer ==
    ASSUME NEW r, FreshOrWorking(r)
    PROVE  /\ Fresh.pc = "units"
           /\ r.pc = "units" <=> r = Fresh
           /\ r.pc \in {"run", "done", "too small"} <=> Working(r)
           /\ r.pc \in {"units", "run", "done", "too small"}
<1>1. Fresh.pc = "units"
  BY DEF Fresh
<1>2. Working(r) => r.pc \in {"run", "done", "too small"}
  BY DEF Working
<1>3. r = Fresh \/ Working(r)
  BY DEF FreshOrWorking
<1> QED  BY <1>1, <1>2, <1>3

LEMMA WorkingIsNotFresh ==
    ASSUME NEW r, Working(r)
    PROVE  r # Fresh
<1>1. r.pc # "units"
  BY DEF Working
<1>2. Fresh.pc = "units"
  BY DEF Fresh
<1> QED  BY <1>1, <1>2

LEMMA PrepareKeeps ==
    ASSUME ChunkerInv, NEW m \in Loops, Prepare(m)
    PROVE  ChunkerInv'
<1>1. PICK f, g : /\ loop = Both(f, g) /\ FreshOrWorking(f) /\ FreshOrWorking(g)
                  /\ Compared(f, g)
  BY DEF ChunkerInv
<1>2. PageType /\ UNCHANGED <<page, cap, budget, ordered>>
  BY DEF ChunkerInv, Prepare, Turn
<1>3. PICK U, x : U = Units(m) /\ U = Units("reference") /\ x = Prepared(U)
  BY <1>2, UnitsAre
<1>4. Working(x) /\ x # Fresh /\ FreshOrWorking(x)
  <2>1. Working(x)
    BY <1>2, <1>3, PreparedIs
  <2> QED  BY <2>1, WorkingIsNotFresh DEF FreshOrWorking
<1>5. loop[m] = Fresh /\ loop' = [loop EXCEPT ![m] = x]
  <2>1. loop[m].pc = "units" /\ (m = "fast" \/ m = "reference")
    BY DEF Prepare, Turn, Loops
  <2>2. loop[m] = Fresh
    <3>1. loop[m] = f \/ loop[m] = g
      BY <1>1, <2>1, BothIs
    <3>2. f.pc = "units" => f = Fresh
      BY <1>1, StatesDiffer, Zenon
    <3>3. g.pc = "units" => g = Fresh
      BY <1>1, StatesDiffer, Zenon
    <3> QED  BY <2>1, <3>1, <3>2, <3>3
  <2>3. PICK pc : pc = IF U = <<>> THEN "done" ELSE "run"
    OBVIOUS
  <2>4. loop' = [loop EXCEPT ![m].units = U, ![m].pc = pc]
    BY <1>3, <2>3 DEF Prepare
  <2>5. [Fresh EXCEPT !.units = U, !.pc = pc] = x
    <3>1. x = [units |-> U, first |-> 0, chunks |-> <<>>, pc |-> pc, rounds |-> 0]
      BY <1>3, <2>3, Zenon DEF Prepared
    <3>2. PICK new : new = [Fresh EXCEPT !.units = U, !.pc = pc]
      OBVIOUS
    <3>3. new = [units |-> U, first |-> 0, chunks |-> <<>>, pc |-> pc, rounds |-> 0]
      BY <3>2 DEF Fresh
    <3> QED  BY <3>1, <3>2, <3>3, Zenon
  <2> QED  BY <1>1, <2>1, <2>2, <2>4, <2>5 DEF Both, Loops
<1>6. CASE m = "fast"
  <2>1. f = Fresh /\ g = Fresh /\ loop' = Both(x, g)
    BY <1>1, <1>5, <1>6, BothIs DEF Compared
  <2>2. Leads(x, x)
    BY DEF Leads
  <2>3. Compared(x, g)
    BY <1>3, <1>4, <2>1, <2>2 DEF Compared
  <2> QED  BY <1>1, <1>2, <1>4, <2>1, <2>3, ChunkerKept
<1>7. CASE m = "reference"
  <2>1. g = Fresh /\ loop' = Both(f, x)
    BY <1>1, <1>5, <1>7, BothIs
  <2>2. f.pc \in {"done", "too small"}
    <3>1. loop["fast"].pc \in {"done", "too small"}
      BY <1>7 DEF Prepare, Turn
    <3>2. loop["fast"] = f
      BY <1>1, BothIs
    <3> QED  BY <3>1, <3>2
  <2>3. f # Fresh /\ f.pc # "run"
    <3>1. f.pc # "units" /\ f.pc # "run"
      BY <2>2
    <3> QED  BY <1>1, <3>1, StatesDiffer
  <2>4. Compared(f, x)
    BY <1>1, <1>3, <2>1, <2>3 DEF Compared
  <2> QED  BY <1>1, <1>2, <1>4, <2>1, <2>4, ChunkerKept
<1> QED  BY <1>6, <1>7 DEF Loops

LEMMA WindowKeeps ==
    ASSUME ChunkerInv, NEW m \in Loops, Window(m)
    PROVE  ChunkerInv'
<1>1. PICK f, g : /\ loop = Both(f, g) /\ FreshOrWorking(f) /\ FreshOrWorking(g)
                  /\ Compared(f, g)
  BY DEF ChunkerInv
<1>2. PageType /\ UNCHANGED <<page, cap, budget, ordered>>
  BY DEF ChunkerInv, Window, Turn
<1>3. loop' = [loop EXCEPT ![m] = Round(m, loop[m])] /\ loop[m].pc = "run"
  BY DEF Window, Turn
<1>4. CASE m = "fast"
  <2>1. PICK x : x = Round("reference", f)
    OBVIOUS
  <2>2. f.pc = "run" /\ Working(f) /\ g = Fresh /\ f # Fresh
    <3>1. f.pc = "run"
      BY <1>1, <1>3, <1>4, BothIs
    <3>2. f # Fresh
      BY <1>1, <3>1, StatesDiffer
    <3> QED  BY <1>1, <3>1, <3>2 DEF FreshOrWorking, Compared
  <2>3. Working(x) /\ Round("fast", f) = x
    BY <1>2, <2>1, <2>2, RoundIs
  <2>4. loop' = Both(x, g) /\ FreshOrWorking(x) /\ x # Fresh
    <3>1. loop["fast"] = f
      BY <1>1, BothIs
    <3>2. loop' = Both(x, g)
      BY <1>1, <1>3, <1>4, <2>3, <3>1, BothIs
    <3> QED  BY <2>3, <3>2, WorkingIsNotFresh DEF FreshOrWorking
  <2>5. Leads(Prepared(Units("reference")), x)
    <3>1. PICK p : p = Prepared(Units("reference"))
      OBVIOUS
    <3>2. Leads(p, f)
      BY <1>1, <2>2, <3>1 DEF Compared
    <3> QED  BY <2>1, <2>2, <3>1, <3>2, LeadsIs
  <2>6. Compared(x, g)
    BY <2>2, <2>4, <2>5 DEF Compared
  <2> QED  BY <1>1, <1>2, <2>4, <2>6, ChunkerKept
<1>5. CASE m = "reference"
  <2>1. PICK x : x = Round("reference", g)
    OBVIOUS
  <2>2. loop["reference"] = g /\ loop["fast"] = f
    BY <1>1, BothIs
  <2>3. g.pc = "run" /\ Working(g) /\ g # Fresh
    BY <1>1, <1>3, <1>5, <2>2, StatesDiffer
  <2>4. f # Fresh /\ f.pc # "run"
    <3>1. f.pc \in {"done", "too small"}
      BY <1>5, <2>2 DEF Window, Turn
    <3>2. f.pc # "units" /\ f.pc # "run"
      BY <3>1
    <3> QED  BY <1>1, <3>2, StatesDiffer
  <2>5. Working(x) /\ FreshOrWorking(x)
    BY <1>2, <2>1, <2>3, RoundIs DEF FreshOrWorking
  <2>6. loop' = Both(f, x)
    BY <1>1, <1>3, <1>5, <2>1, <2>2, BothIs
  <2>7. Leads(x, f)
    BY <1>1, <2>1, <2>3, <2>4, LeadsIs DEF Compared
  <2>8. Compared(f, x)
    <3>1. x # Fresh
      BY <2>5, WorkingIsNotFresh
    <3> QED  BY <2>4, <2>7, <3>1 DEF Compared
  <2> QED  BY <1>1, <1>2, <2>5, <2>6, <2>8, ChunkerKept
<1> QED  BY <1>4, <1>5 DEF Loops

(* In every state the units stay apart and fit, each chunker's chunks reach *)
(* as far as the units it is done with, and what the reference has still to *)
(* do leads to where the fast loop is (structure.py, chunk_page, and        *)
(* _chunk_reference.py, whose loop is the same with its own counting).      *)
THEOREM ChunkerInvariant ==
    ASSUME ChunkerAssumption
    PROVE  ChunkerSpec => []ChunkerInv
<1>1. ChunkerInit => ChunkerInv
  BY ChunkerStarts
<1>2. ChunkerInv /\ [ChunkerNext]_chunkerVars => ChunkerInv'
  <2> SUFFICES ASSUME ChunkerInv, [ChunkerNext]_chunkerVars
               PROVE  ChunkerInv'
    OBVIOUS
  <2>1. CASE Prepare("fast")
    BY <2>1, PrepareKeeps DEF Loops
  <2>2. CASE PrepareReference
    BY <2>2, PrepareKeeps DEF PrepareReference, Loops
  <2>3. CASE ChunkPage
    BY <2>3, WindowKeeps DEF ChunkPage, Loops
  <2>4. CASE ReferenceChunkPage
    BY <2>4, WindowKeeps DEF ReferenceChunkPage, Loops
  <2>5. CASE UNCHANGED chunkerVars
    <3>1. PICK f, g : /\ loop = Both(f, g) /\ FreshOrWorking(f) /\ FreshOrWorking(g)
                      /\ Compared(f, g)
      BY DEF ChunkerInv
    <3>2. PageType /\ UNCHANGED <<page, cap, budget, ordered>> /\ loop' = loop
      BY <2>5 DEF chunkerVars, ChunkerInv
    <3> QED  BY <3>1, <3>2, ChunkerKept
  <2> QED  BY <2>1, <2>2, <2>3, <2>4, <2>5 DEF ChunkerNext, Chunked
<1> QED  BY <1>1, <1>2, PTL DEF ChunkerSpec

LEMMA ChunkListed ==
    ASSUME NEW chunks, ChunkList(chunks)
    PROVE  /\ Len(chunks) \in Nat
           /\ \A c \in Range(chunks) : \E i \in 1..Len(chunks) : c = chunks[i]
           /\ \A i \in 1..Len(chunks) : chunks[i] \in Range(chunks)
<1>1. Len(chunks) \in Nat /\ DOMAIN chunks = 1..Len(chunks)
  BY DEF ChunkList
<1> QED  BY <1>1 DEF Range

LEMMA FreshOrWorkingShows ==
    ASSUME PageType, NEW r, FreshOrWorking(r)
    PROVE  /\ ChunkList(r.chunks) /\ r.rounds <= Len(r.units)
           /\ r.pc = "done" =>
                  \A i \in 1..Len(page) : ~IsSpace(page[i]) =>
                      LostAtCut(i) \/ \E c \in Range(r.chunks) : c.start < i /\ i <= c.end
           /\ r.pc = "too small" =>
                  \E u \in Range(r.units) : u[2] - u[1] <= cap /\ Isolated(u[1], u[2]) > cap
<1>1. CASE r = Fresh
  <2>1. ChunkList(<<>>)
    BY DEF ChunkList
  <2> QED  BY <1>1, <2>1 DEF Fresh
<1>2. CASE Working(r)
  <2>1. ChunkList(r.chunks) /\ r.rounds <= Len(r.units)
    BY <1>2 DEF Working
  <2>2. ASSUME r.pc = "done", NEW i \in 1..Len(page), ~IsSpace(page[i]), ~LostAtCut(i)
        PROVE  \E c \in Range(r.chunks) : c.start < i /\ i <= c.end
    <3>1. PICK U, n : U = r.units /\ n = Len(U) /\ GoodUnits(U) /\ n \in Nat
      BY <1>2 DEF Working, GoodUnits
    <3>2. PICK k \in 1..n : U[k][1] < i /\ i <= U[k][2]
      BY <2>2, <3>1 DEF GoodUnits
    <3>3. PICK reached : Reached(r, reached)
      BY <1>2 DEF Working
    <3>4. reached = n
      BY <2>2, <3>1, <3>3 DEF Reached
    <3>5. PICK j \in 1..Len(r.chunks) :
              r.chunks[j].start <= U[k][1] /\ U[k][2] <= r.chunks[j].end
      BY <3>1, <3>2, <3>3, <3>4 DEF Reached
    <3>6. PICK c : c = r.chunks[j] /\ c \in Range(r.chunks) /\ c.start \in Nat /\ c.end \in Nat
      BY <2>1, <3>5, ChunkListed DEF ChunkList, Cut
    <3>7. U[k][1] \in Nat /\ U[k][2] \in Nat /\ i \in Int
      BY <3>1, <3>2 DEF GoodUnits, Span, PageType, Texts
    <3>8. c.start < i /\ i <= c.end
      <4>1. PICK a, b, u, v : a = U[k][1] /\ b = U[k][2] /\ u = c.start /\ v = c.end
        OBVIOUS
      <4>2. a < i /\ i <= b /\ u <= a /\ b <= v
        BY <3>2, <3>5, <3>6, <4>1, Zenon
      <4>3. u < i /\ i <= v
        BY <3>6, <3>7, <4>1, <4>2
      <4> QED  BY <4>1, <4>3, Zenon
    <3> QED  BY <3>6, <3>8
  <2>3. ASSUME r.pc = "too small"
        PROVE  \E u \in Range(r.units) : u[2] - u[1] <= cap /\ Isolated(u[1], u[2]) > cap
    <3>1. PICK U, n : U = r.units /\ n = Len(U) /\ GoodUnits(U) /\ n \in Nat
      BY <1>2 DEF Working, GoodUnits
    <3>2. PICK k \in 1..n : ~(Isolated(U[k][1], U[k][2]) <= cap)
      BY <1>2, <2>3, <3>1 DEF Working
    <3>3. PICK u : u = U[k]
      OBVIOUS
    <3>4. u \in Range(U)
      BY <3>1, <3>2, <3>3 DEF GoodUnits, Range
    <3>5. Cut(u[1], u[2]) /\ FitsOrShort(u)
      <4>1. Span(u) /\ u[2] <= Len(page) /\ FitsOrShort(u)
        BY <3>1, <3>2, <3>3 DEF GoodUnits
      <4> QED  BY <4>1 DEF Span, Cut
    <3>6. u[2] - u[1] <= cap
      BY <3>2, <3>3, <3>5 DEF FitsOrShort
    <3>7. Isolated(u[1], u[2]) > cap
      <4>1. Isolated(u[1], u[2]) \in Nat /\ cap \in Nat
        BY <3>5, IsolatedGrows DEF PageType
      <4> QED  BY <3>2, <3>3, <4>1
    <3> QED  BY <3>1, <3>4, <3>6, <3>7
  <2> QED  BY <2>1, <2>2, <2>3
<1> QED  BY <1>1, <1>2 DEF FreshOrWorking

LEMMA EachLoop ==
    ASSUME ChunkerInv, NEW m \in Loops
    PROVE  FreshOrWorking(loop[m])
BY BothIs DEF ChunkerInv, Loops

(* A chunker ends in at most a round per unit, each chunk reaches further   *)
(* than the one before, and every character outside whitespace is in a      *)
(* chunk, but for those that the tokenizer erases in a word over the cap;   *)
(* and it fails only for a short text with more tokens than the cap, however *)
(* pages, caps and overlaps are chosen (structure.py, chunk_page,           *)
(* _overlap_start, _split_word).                                            *)
THEOREM CoverSafety ==
    ASSUME ChunkerAssumption
    PROVE  ChunkerSpec => []ChunksCoverPage
<1>1. ChunkerInv => ChunksCoverPage
  <2> SUFFICES ASSUME ChunkerInv, NEW m \in Loops, NEW r, r = loop[m]
               PROVE  /\ r.rounds <= Len(r.units)
                      /\ \A i \in 1..(Len(r.chunks) - 1) :
                             /\ r.chunks[i].start < r.chunks[i + 1].start
                             /\ r.chunks[i].end < r.chunks[i + 1].end
                      /\ r.pc = "done" =>
                             \A i \in DOMAIN page : ~IsSpace(page[i]) =>
                                 \/ LostAtCut(i)
                                 \/ \E c \in Range(r.chunks) : c.start < i /\ i <= c.end
                      /\ r.pc = "too small" =>
                             \E u \in Range(r.units) :
                                 u[2] - u[1] <= cap /\ Isolated(u[1], u[2]) > cap
    BY DEF ChunksCoverPage
  <2>1. PageType /\ FreshOrWorking(r)
    BY EachLoop DEF ChunkerInv
  <2>2. DOMAIN page = 1..Len(page)
    BY <2>1 DEF PageType, Texts
  <2>3. ChunkList(r.chunks) /\ Len(r.chunks) \in Nat
    BY <2>1, FreshOrWorkingShows, ChunkListed
  <2>4. ASSUME NEW i \in 1..(Len(r.chunks) - 1)
        PROVE  Follows(r.chunks[i], r.chunks[i + 1])
    <3>1. PICK j : j = i + 1 /\ j \in 1..Len(r.chunks) /\ i \in 1..Len(r.chunks)
      BY <2>3
    <3> QED  BY <2>3, <3>1 DEF ChunkList
  <2> QED  BY <2>1, <2>2, <2>4, FreshOrWorkingShows DEF Follows
<1> QED  BY <1>1, ChunkerInvariant, PTL

(* What is embedded is what was counted: a chunk's token count is that of   *)
(* its own tokenization and at most the cap, and it repeats at most the     *)
(* overlap budget of its predecessor (structure.py, chunk_page).            *)
THEOREM LimitsSafety ==
    ASSUME ChunkerAssumption
    PROVE  ChunkerSpec => []ChunksWithinLimits
<1>1. ChunkerInv => ChunksWithinLimits
  <2> SUFFICES ASSUME ChunkerInv, NEW m \in Loops, NEW r, r = loop[m]
               PROVE  /\ \A c \in Range(r.chunks) :
                             c.tokens = Isolated(c.start, c.end) /\ c.tokens <= cap
                      /\ \A i \in 1..(Len(r.chunks) - 1) :
                             r.chunks[i + 1].start < r.chunks[i].end =>
                                 Isolated(r.chunks[i + 1].start, r.chunks[i].end) <= budget
    BY DEF ChunksWithinLimits
  <2>1. ChunkList(r.chunks) /\ Len(r.chunks) \in Nat
    BY EachLoop, FreshOrWorkingShows, ChunkListed DEF ChunkerInv
  <2>2. ASSUME NEW c \in Range(r.chunks)
        PROVE  c.tokens = Isolated(c.start, c.end) /\ c.tokens <= cap
    BY <2>1, ChunkListed DEF ChunkList
  <2>3. ASSUME NEW i \in 1..(Len(r.chunks) - 1)
        PROVE  Follows(r.chunks[i], r.chunks[i + 1])
    <3>1. PICK j : j = i + 1 /\ j \in 1..Len(r.chunks) /\ i \in 1..Len(r.chunks)
      BY <2>1
    <3> QED  BY <2>1, <3>1 DEF ChunkList
  <2> QED  BY <2>2, <2>3 DEF Follows
<1> QED  BY <1>1, ChunkerInvariant, PTL

(* The faster counting is only that: where both chunkers have ended, they   *)
(* have cut the same chunks, and both fail or neither does (structure.py,   *)
(* _PageTokens.count, _requires_reference and the check of ordered).        *)
THEOREM MatchSafety ==
    ASSUME ChunkerAssumption
    PROVE  ChunkerSpec => []MatchesReference
<1>1. ChunkerInv => MatchesReference
  <2> SUFFICES ASSUME ChunkerInv, \A m \in Loops : loop[m].pc \in {"done", "too small"}
               PROVE  loop["fast"] = loop["reference"]
    BY DEF MatchesReference
  <2>1. PICK f, g : /\ loop = Both(f, g) /\ FreshOrWorking(f) /\ FreshOrWorking(g)
                    /\ Compared(f, g)
    BY DEF ChunkerInv
  <2>2. loop["fast"] = f /\ loop["reference"] = g
    BY <2>1, BothIs
  <2>3. g.pc \in {"done", "too small"}
    BY <2>2 DEF Loops
  <2>4. g # Fresh /\ g.pc # "run"
    <3>1. g.pc # "units" /\ g.pc # "run"
      BY <2>3
    <3> QED  BY <2>1, <3>1, StatesDiffer
  <2>5. f = g
    BY <2>1, <2>4, LeadsIs DEF Compared
  <2> QED  BY <2>2, <2>5
<1> QED  BY <1>1, ChunkerInvariant, PTL

=============================================================================
