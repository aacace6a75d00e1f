-------------------------- MODULE MemoryPoolProofs --------------------------
(***************************************************************************)
(* The invariant of the memory pool, for every number of callers, blocks   *)
(* and sizes: it holds of an empty pool and every operation keeps it.      *)
(* CudaEngineProofs builds on it.                                          *)
(*                                                                         *)
(* The gauges are sums, so the first part is about the sum of a function   *)
(* over a finite set.  Its lemmas are by induction on the set, done with   *)
(* a minimal counterexample: StrictSubsetOrdering is well founded on the   *)
(* subsets of a finite set, and WFMin gives the least bad one.             *)
(***************************************************************************)
EXTENDS MemoryPool, TLAPS, FiniteSetTheorems

\* A nonempty set of natural numbers has a least element.
LEMMA MinBelongs ==
    ASSUME NEW S \in SUBSET Nat, S # {}
    PROVE  Min(S) \in S
<1> DEFINE less == {ss \in Nat \X Nat : ss[1] < ss[2]}
<1>1. IsWellFoundedOn(less, Nat)
  BY NatLessThanWellFounded DEF OpToRel
<1> HIDE DEF less
<1>2. PICK x \in S : \A y \in S : ~(<<y, x>> \in less)
  BY <1>1, WFMin, Zenon
<1>3. ASSUME NEW y \in S PROVE x <= y
  <2>1. y < x => <<y, x>> \in less
    BY DEF less
  <2> QED
    BY <1>2, <2>1
<1> QED
  BY <1>3, Zenon DEF Min
-----------------------------------------------------------------------------
(* Sums over finite sets. *)

\* m gives every subset of S the sum of f over it: one more element adds its
\* value, whichever it is.
Weighs(m, f, S) ==
    /\ m \in [SUBSET S -> Int]
    /\ m[{}] = 0
    /\ \A s \in SUBSET S : \A x \in s : m[s] = f[x] + m[s \ {x}]

\* A nonempty family of subsets of a finite set has a member none of whose
\* proper subsets is in the family.  Induction over finite sets is done by
\* taking such a member of the family of counterexamples.
LEMMA MinimalSubset ==
    ASSUME NEW S, IsFiniteSet(S), NEW T \in SUBSET (SUBSET S), T # {}
    PROVE  \E s \in T : \A x \in s : s \ {x} \notin T
<1>1. T \subseteq FiniteSubsetsOf(S)
  BY FS_Subset DEF FiniteSubsetsOf
<1>2. PICK s \in T : \A y \in T : <<y, s>> \notin StrictSubsetOrdering(S)
  BY <1>1, FS_StrictSubsetOrderingWellFounded, WFMin
<1>3. ASSUME NEW x \in s PROVE s \ {x} \notin T
  BY <1>2, Zenon DEF StrictSubsetOrdering
<1> QED
  BY <1>3

\* Every finite set can be summed over.
LEMMA WeightExists ==
    ASSUME NEW S, IsFiniteSet(S), NEW f, \A x \in S : f[x] \in Int
    PROVE  \E m : Weighs(m, f, S)
<1> DEFINE bad == {s \in SUBSET S : ~(\E m : Weighs(m, f, s))}
<1> SUFFICES ASSUME bad # {} PROVE FALSE
  OBVIOUS
<1>1. PICK s \in bad : \A x \in s : s \ {x} \notin bad
  BY MinimalSubset, Zenon
<1>2. s # {}
  <2>1. Weighs([e \in {{}} |-> 0], f, {})
    <3>1. SUBSET {} = {{}}
      OBVIOUS
    <3> QED
      BY <3>1 DEF Weighs
  <2> QED
    BY <1>1, <2>1, Zenon
<1>3. PICK x \in s : TRUE
  BY <1>2
<1>4. PICK m : Weighs(m, f, s \ {x})
  BY <1>1, <1>3, Zenon
<1> DEFINE w == [e \in SUBSET s |-> IF x \in e THEN f[x] + m[e \ {x}] ELSE m[e]]
<1>5. /\ m \in [SUBSET (s \ {x}) -> Int] /\ m[{}] = 0
      /\ \A e \in SUBSET (s \ {x}) : \A y \in e : m[e] = f[y] + m[e \ {y}]
  BY <1>4 DEF Weighs
<1>6. \A e \in SUBSET s : e \ {x} \in SUBSET (s \ {x}) /\ (x \notin e => e \in SUBSET (s \ {x}))
  OBVIOUS
<1>7. \A y \in s : f[y] \in Int
  BY <1>1
<1>8. w \in [SUBSET s -> Int] /\ w[{}] = 0
  BY <1>5, <1>6, <1>7
<1>9. ASSUME NEW e \in SUBSET s, NEW y \in e PROVE w[e] = f[y] + w[e \ {y}]
  <2>1. CASE y = x
    <3>1. w[e] = f[x] + m[e \ {x}] /\ w[e \ {x}] = m[e \ {x}]
      BY <2>1, <1>6
    <3> QED
      BY <2>1, <3>1
  <2>2. CASE y # x /\ x \notin e
    <3>1. w[e] = m[e] /\ w[e \ {y}] = m[e \ {y}] /\ e \in SUBSET (s \ {x})
      BY <2>2
    <3> QED
      BY <1>5, <3>1
  <2>3. CASE y # x /\ x \in e
    <3>1. w[e] = f[x] + m[e \ {x}] /\ w[e \ {y}] = f[x] + m[(e \ {y}) \ {x}]
      BY <2>3
    <3>2. (e \ {y}) \ {x} = (e \ {x}) \ {y} /\ y \in e \ {x}
      BY <2>3
    <3>3. m[e \ {x}] = f[y] + m[(e \ {x}) \ {y}]
      BY <1>5, <1>6, <3>2, Zenon
    <3>4. f[x] \in Int /\ f[y] \in Int /\ m[(e \ {x}) \ {y}] \in Int
      <4>1. (e \ {x}) \ {y} \in SUBSET (s \ {x})
        OBVIOUS
      <4> QED
        BY <1>5, <1>7, <4>1
    <3> HIDE DEF w
    <3> DEFINE rest == m[(e \ {x}) \ {y}]
    <3>5. w[e] = f[x] + (f[y] + rest)
      BY <3>1, <3>3, Zenon
    <3>6. w[e \ {y}] = f[x] + rest
      BY <3>1, <3>2, Zenon
    <3>7. f[x] + (f[y] + rest) = f[y] + (f[x] + rest)
      <4> HIDE DEF rest
      <4> QED
        BY <3>4 DEF rest
    <3> QED
      BY <3>5, <3>6, <3>7, Zenon
  <2> QED
    BY <2>1, <2>2, <2>3
<1>10. Weighs(w, f, s)
  BY <1>8, <1>9, Zenon DEF Weighs
<1> QED
  BY <1>1, <1>10

\* SumFunctionOnSet computes that sum.
LEMMA SumIsWeight ==
    ASSUME NEW S, IsFiniteSet(S), NEW f, \A x \in S : f[x] \in Int,
           NEW m, Weighs(m, f, S)
    PROVE  SumFunctionOnSet(f, S) = m[S]
<1> DEFINE iter[s \in SUBSET S] ==
             IF s = {} THEN 0
             ELSE f[CHOOSE x \in s : TRUE] + iter[s \ {CHOOSE x \in s : TRUE}]
<1>1. SumFunctionOnSet(f, S) = iter[S]
  BY Zenon DEF SumFunctionOnSet, FoldFunctionOnSet, MapThenFoldSet
<1> DEFINE any(s) == CHOOSE x \in s : TRUE
<1>2. \A s \in SUBSET S : s # {} => any(s) \in s
  OBVIOUS
<1>3. m = [s \in SUBSET S |-> IF s = {} THEN 0 ELSE f[any(s)] + m[s \ {any(s)}]]
  <2> HIDE DEF any
  <2> QED
    BY <1>2, Zenon DEF Weighs
<1>4. iter = [s \in SUBSET S |-> IF s = {} THEN 0 ELSE f[any(s)] + iter[s \ {any(s)}]]
  BY <1>3, ZenonT(30)
<1> HIDE DEF iter, any
<1> DEFINE bad == {s \in SUBSET S : iter[s] # m[s]}
<1>5. SUFFICES ASSUME bad # {} PROVE FALSE
  BY <1>1
<1>6. PICK s \in bad : \A x \in s : s \ {x} \notin bad
  BY <1>5, MinimalSubset, Zenon
<1>7. s # {}
  BY <1>4, <1>6, Zenon DEF Weighs
<1>8. iter[s \ {any(s)}] = m[s \ {any(s)}]
  BY <1>2, <1>6, <1>7
<1>9. iter[s] = f[any(s)] + m[s \ {any(s)}]
  BY <1>4, <1>7, <1>8, Zenon
<1>10. m[s] = f[any(s)] + m[s \ {any(s)}]
  BY <1>2, <1>7, Zenon DEF Weighs
<1> QED
  BY <1>6, <1>9, <1>10

\* The weight of a set weighs its subsets, under every function that agrees.
LEMMA WeightOfSubset ==
    ASSUME NEW S, NEW T \in SUBSET S, NEW f, NEW g, \A x \in T : g[x] = f[x],
           NEW m, Weighs(m, f, S)
    PROVE  Weighs([s \in SUBSET T |-> m[s]], g, T)
<1> DEFINE w == [s \in SUBSET T |-> m[s]]
<1>1. w \in [SUBSET T -> Int] /\ w[{}] = 0
  BY DEF Weighs
<1>2. ASSUME NEW s \in SUBSET T, NEW x \in s PROVE w[s] = g[x] + w[s \ {x}]
  <2>1. m[s] = f[x] + m[s \ {x}]
    BY DEF Weighs
  <2> QED
    BY <2>1
<1> QED
  BY <1>1, <1>2 DEF Weighs

\* A sum is the weight that any weight of a larger set gives.
LEMMA SumOnSubset ==
    ASSUME NEW S, IsFiniteSet(S), NEW f, \A x \in S : f[x] \in Int, NEW m, Weighs(m, f, S),
           NEW T \in SUBSET S, NEW g, \A x \in T : g[x] = f[x]
    PROVE  SumFunctionOnSet(g, T) = m[T] /\ m[T] \in Int
<1> DEFINE w == [s \in SUBSET T |-> m[s]]
<1>1. IsFiniteSet(T)
  BY FS_Subset
<1>2. Weighs(w, g, T)
  BY WeightOfSubset
<1>3. \A x \in T : g[x] \in Int
  OBVIOUS
<1>4. w[T] = m[T] /\ m[T] \in Int
  BY DEF Weighs
<1> HIDE DEF w
<1>5. SumFunctionOnSet(g, T) = w[T]
  BY <1>1, <1>2, <1>3, SumIsWeight
<1> QED
  BY <1>4, <1>5

\* One more element adds its value.
LEMMA SumAdd ==
    ASSUME NEW S, IsFiniteSet(S), NEW x, x \notin S, NEW T, T = S \union {x},
           NEW f, \A y \in T : f[y] \in Int,
           NEW g, \A y \in S : g[y] = f[y]
    PROVE  /\ SumFunctionOnSet(f, T) = f[x] + SumFunctionOnSet(g, S)
           /\ SumFunctionOnSet(g, S) \in Int
<1>1. IsFiniteSet(T)
  BY FS_AddElement
<1>2. PICK m : Weighs(m, f, T)
  BY <1>1, WeightExists
<1>3. SumFunctionOnSet(f, T) = m[T]
  BY <1>1, <1>2, SumIsWeight
<1>4. SumFunctionOnSet(g, S) = m[S] /\ m[S] \in Int
  BY <1>1, <1>2, SumOnSubset
<1>5. m[T] = f[x] + m[T \ {x}] /\ T \ {x} = S
  BY <1>2, Zenon DEF Weighs
<1> QED
  BY <1>3, <1>4, <1>5, Zenon

\* The same for the sum of a function over its domain.
LEMMA SumGrows ==
    ASSUME NEW f, NEW g, NEW x, IsFiniteSet(DOMAIN f), x \notin DOMAIN f,
           DOMAIN g = DOMAIN f \union {x},
           \A y \in DOMAIN g : g[y] \in Int, \A y \in DOMAIN f : f[y] = g[y]
    PROVE  /\ SumFunction(g) = SumFunction(f) + g[x]
           /\ SumFunction(f) \in Int
<1>1. /\ SumFunctionOnSet(g, DOMAIN g) = g[x] + SumFunctionOnSet(f, DOMAIN f)
      /\ SumFunctionOnSet(f, DOMAIN f) \in Int
  BY SumAdd
<1>2. g[x] \in Int
  OBVIOUS
<1> QED
  BY <1>1, <1>2 DEF SumFunction

\* The parts of a sum add up to it.
LEMMA SumSplit ==
    ASSUME NEW S, IsFiniteSet(S), NEW T \in SUBSET S, NEW f, \A y \in S : f[y] \in Int
    PROVE  /\ SumFunctionOnSet(f, S) = SumFunctionOnSet(f, T) + SumFunctionOnSet(f, S \ T)
           /\ SumFunctionOnSet(f, T) \in Int /\ SumFunctionOnSet(f, S \ T) \in Int
<1>1. PICK m : Weighs(m, f, S)
  BY WeightExists
<1>2. /\ SumFunctionOnSet(f, S) = m[S]
      /\ SumFunctionOnSet(f, T) = m[T] /\ m[T] \in Int
      /\ SumFunctionOnSet(f, S \ T) = m[S \ T] /\ m[S \ T] \in Int
  BY <1>1, SumIsWeight, SumOnSubset
<1> DEFINE bad == {s \in SUBSET T : m[s \union (S \ T)] # m[s] + m[S \ T]}
<1>3. bad = {}
  <2> SUFFICES ASSUME bad # {} PROVE FALSE
    BY Zenon
  <2>1. PICK s \in bad : \A x \in s : s \ {x} \notin bad
    BY FS_Subset, MinimalSubset, Zenon
  <2>2. s # {}
    <3>1. m[{}] = 0 /\ {} \union (S \ T) = S \ T
      BY <1>1 DEF Weighs
    <3>2. m[S \ T] = 0 + m[S \ T]
      BY <1>2
    <3>3. m[{} \union (S \ T)] = m[{}] + m[S \ T]
      BY <3>1, <3>2, Zenon
    <3> QED
      BY <2>1, <3>3, Zenon
  <2>3. PICK x \in s : TRUE
    BY <2>2
  <2>4. m[(s \ {x}) \union (S \ T)] = m[s \ {x}] + m[S \ T]
    BY <2>1, <2>3, Zenon
  <2>5. m[s] = f[x] + m[s \ {x}] /\ m[s \ {x}] \in Int /\ f[x] \in Int
    BY <1>1 DEF Weighs
  <2>6. m[s \union (S \ T)] = f[x] + m[(s \ {x}) \union (S \ T)]
    <3>1. (s \union (S \ T)) \ {x} = (s \ {x}) \union (S \ T)
      OBVIOUS
    <3>2. s \union (S \ T) \in SUBSET S /\ x \in s \union (S \ T)
      OBVIOUS
    <3>3. \A e \in SUBSET S : \A y \in e : m[e] = f[y] + m[e \ {y}]
      BY <1>1, Zenon DEF Weighs
    <3>4. m[s \union (S \ T)] = f[x] + m[(s \union (S \ T)) \ {x}]
      BY <3>2, <3>3, Zenon
    <3> QED
      BY <3>1, <3>4, Zenon
  <2>7. m[s \union (S \ T)] = m[s] + m[S \ T]
    BY <1>2, <2>4, <2>5, <2>6
  <2> QED
    BY <2>1, <2>7, Zenon
<1>4. T \union (S \ T) = S
  OBVIOUS
<1> QED
  BY <1>2, <1>3, <1>4, Zenon

\* The sum of one value.
LEMMA SumConstant ==
    ASSUME NEW S, IsFiniteSet(S), NEW c \in Int, NEW f, \A y \in S : f[y] = c
    PROVE  SumFunctionOnSet(f, S) = c * Cardinality(S)
<1>1. PICK m : Weighs(m, f, S)
  BY WeightExists
<1> DEFINE bad == {s \in SUBSET S : m[s] # c * Cardinality(s)}
<1>2. bad = {}
  <2> SUFFICES ASSUME bad # {} PROVE FALSE
    OBVIOUS
  <2>1. PICK s \in bad : \A x \in s : s \ {x} \notin bad
    BY MinimalSubset, Zenon
  <2>2. s # {}
    <3>1. m[{}] = 0 /\ Cardinality({}) = 0 /\ c * 0 = 0
      BY <1>1, FS_EmptySet DEF Weighs
    <3>2. m[{}] = c * Cardinality({})
      BY <3>1, Zenon
    <3> QED
      BY <2>1, <3>2
  <2>3. PICK x \in s : TRUE
    BY <2>2
  <2>4. m[s] = c + m[s \ {x}] /\ m[s \ {x}] = c * Cardinality(s \ {x})
    BY <1>1, <2>1, <2>3 DEF Weighs
  <2>5. Cardinality(s \ {x}) = Cardinality(s) - 1 /\ Cardinality(s) \in Nat
    BY FS_Subset, FS_RemoveElement, FS_CardinalityType
  <2>6. c + c * (Cardinality(s) - 1) = c * Cardinality(s)
    BY <2>5
  <2> QED
    BY <2>1, <2>4, <2>5, <2>6
<1> QED
  BY <1>1, <1>2, SumIsWeight
-----------------------------------------------------------------------------
(* The invariant of the pool. *)

Buffers == [ptr : Blocks, capacity : Buckets, requested : Sizes]

Handles == [Callers -> [Kinds -> Buffers \union {NoBuffer}]]

PoolTypeOK ==
    /\ free \in [Kinds -> [Buckets -> Seq(Blocks)]]
    /\ heap \in [Blocks -> [kind : Kinds, capacity : Buckets] \union {Unused}]
    /\ handle \in Handles
    /\ stats \in [bytes_in_use : Int, bytes_cached : Int, live_handles : Int]

Held(t, k) == handle[t][k] # NoBuffer

\* A free list holds different blocks, all of its kind and size.
ListsSorted ==
    \A k \in Kinds, c \in Buckets :
        /\ IsInjective(free[k][c])
        /\ \A b \in Cached(k, c) : heap[b] = [kind |-> k, capacity |-> c]

\* A handle owns a block of its kind and size that no list has, and that no
\* other caller's handle of that kind has.
Owns(t, k) ==
    /\ heap[handle[t][k].ptr] = [kind |-> k, capacity |-> handle[t][k].capacity]
    /\ \A j \in Kinds, c \in Buckets : handle[t][k].ptr \notin Cached(j, c)
    /\ \A u \in Callers : Held(u, k) /\ u # t => handle[u][k].ptr # handle[t][k].ptr

HandlesOwn == \A t \in Callers, k \in Kinds : Held(t, k) => Owns(t, k)

\* No block is lost: it is in the list of its kind and size or in a handle.
NoneLost ==
    \A b \in Blocks, k \in Kinds, c \in Buckets :
        heap[b] = [kind |-> k, capacity |-> c] =>
            b \in Cached(k, c) \/ \E t \in Callers : Held(t, k) /\ handle[t][k].ptr = b

InUse(given) == {h \in Callers \X Kinds : given[h[1]][h[2]] # NoBuffer}
BytesGiven(given) == SumFunction([h \in InUse(given) |-> given[h[1]][h[2]].capacity])
BytesHeld == SumFunction([b \in Blocks \ UnusedBlocks |-> heap[b].capacity])

Gauges ==
    /\ stats.live_handles = Cardinality(InUse(handle))
    /\ stats.bytes_in_use = BytesGiven(handle)
    /\ stats.bytes_cached + stats.bytes_in_use = BytesHeld

PoolInv ==
    PoolTypeOK /\ ListsSorted /\ HandlesOwn /\ NoneLost /\ Gauges /\ PoolStaysSmall

\* Taking the last block of a list.
LEMMA PopFacts ==
    ASSUME NEW T, NEW s \in Seq(T), IsInjective(s), s # <<>>
    PROVE  LET rest == SubSeq(s, 1, Len(s) - 1)
               last == s[Len(s)]
           IN  /\ rest \in Seq(T) /\ IsInjective(rest) /\ last \in Range(s)
               /\ Range(rest) = Range(s) \ {last}
<1> DEFINE rest == SubSeq(s, 1, Len(s) - 1)
           last == s[Len(s)]
           n == Len(s) - 1
<1>1. /\ Range(s) = {s[i] : i \in 1..Len(s)} /\ Len(s) \in Nat
      /\ \A i, j \in 1..Len(s) : s[i] = s[j] => i = j
  BY DEF Range, IsInjective
<1>2. n \in Nat /\ n + 1 = Len(s) /\ n <= Len(s) /\ Len(s) \in 1..Len(s)
  BY <1>1
<1>3. rest \in Seq(T) /\ Len(rest) = n
  BY <1>2
<1>4. \A i \in 1..n : rest[i] = s[i]
  BY <1>2
<1> HIDE DEF rest, n
<1>5. Range(rest) = {rest[i] : i \in 1..n}
  BY <1>3 DEF Range
<1>6. Range(rest) = {s[i] : i \in 1..n}
  BY <1>4, <1>5
<1>7. IsInjective(rest)
  BY <1>1, <1>2, <1>3, <1>4 DEF IsInjective
<1>8. Range(rest) = Range(s) \ {last}
  BY <1>1, <1>2, <1>6
<1>9. last \in Range(s)
  BY <1>1, <1>2
<1> QED
  BY <1>3, <1>7, <1>8, <1>9 DEF rest

\* What the invariant says about a list of blocks, in terms of its elements.
LEMMA ListFacts ==
    ASSUME NEW T, NEW s \in Seq(T), IsInjective(s)
    PROVE  /\ \A b \in T \ Range(s) :
                 /\ Append(s, b) \in Seq(T) /\ IsInjective(Append(s, b))
                 /\ Range(Append(s, b)) = Range(s) \union {b}
           /\ IsFiniteSet(Range(s)) /\ Cardinality(Range(s)) = Len(s)
           /\ Range(s) \subseteq T
<1>1. /\ Range(s) = {s[i] : i \in 1..Len(s)} /\ Len(s) \in Nat
      /\ \A i, j \in 1..Len(s) : s[i] = s[j] => i = j
  BY DEF Range, IsInjective
<1>3. ASSUME NEW b \in T \ Range(s)
      PROVE  /\ Append(s, b) \in Seq(T) /\ IsInjective(Append(s, b))
             /\ Range(Append(s, b)) = Range(s) \union {b}
  <2>1. /\ Append(s, b) \in Seq(T) /\ Len(Append(s, b)) = Len(s) + 1
        /\ \A i \in 1..Len(s) : Append(s, b)[i] = s[i]
        /\ Append(s, b)[Len(s) + 1] = b
    BY <1>3
  <2>2. Range(Append(s, b)) = {Append(s, b)[i] : i \in 1..(Len(s) + 1)}
    BY <2>1 DEF Range
  <2>3. Range(Append(s, b)) = Range(s) \union {b}
    BY <1>1, <2>1, <2>2
  <2>4. \A i \in 1..Len(s) : s[i] # b
    BY <1>1, <1>3
  <2>5. IsInjective(Append(s, b))
    BY <1>1, <2>1, <2>4 DEF IsInjective
  <2> QED
    BY <2>1, <2>3, <2>5
<1>4. IsFiniteSet(Range(s)) /\ Cardinality(Range(s)) = Len(s)
  <2>1. s \in Bijection(1..Len(s), Range(s))
    BY <1>1 DEF Bijection, Injection, Surjection, IsInjective
  <2>2. ExistsBijection(1..Len(s), Range(s))
    BY <2>1 DEF ExistsBijection
  <2>3. IsFiniteSet(1..Len(s)) /\ Cardinality(1..Len(s)) = Len(s)
    <3>1. /\ IsFiniteSet(1..Len(s))
          /\ Cardinality(1..Len(s)) = IF 1 > Len(s) THEN 0 ELSE Len(s) - 1 + 1
      <4>1. 1 \in Int /\ Len(s) \in Int
        BY <1>1
      <4> QED
        BY <4>1, FS_Interval, Zenon
    <3> QED
      BY <1>1, <3>1
  <2> QED
    BY <2>2, <2>3, FS_Bijection
<1>5. Range(s) \subseteq T
  BY <1>1
<1> QED
  BY <1>3, <1>4, <1>5, Zenon

\* A list of the pool holds blocks, none of them twice.
LEMMA ListsType ==
    ASSUME PoolTypeOK, ListsSorted, NEW k \in Kinds, NEW c \in Buckets
    PROVE  free[k][c] \in Seq(Blocks) /\ IsInjective(free[k][c])
<1>1. free[k][c] \in Seq(Blocks)
  BY DEF PoolTypeOK
<1>2. IsInjective(free[k][c])
  BY Zenon DEF ListsSorted
<1> QED
  BY <1>1, <1>2

\* A handle that is not empty.
LEMMA BufferFacts ==
    ASSUME NEW b \in Buffers
    PROVE  /\ b.ptr \in Blocks /\ b.capacity \in Buckets /\ b.capacity \in Nat
           /\ b # NoBuffer
<1>1. b.ptr \in Blocks /\ b.capacity \in Buckets
  BY DEF Buffers
<1>2. b.capacity \in Nat
  BY <1>1, BucketAssumption, Zenon
<1>3. b.ptr # 0 /\ NoBuffer.ptr = 0
  BY <1>1, PoolAssumption DEF Blocks, NoBuffer
<1> QED
  BY <1>1, <1>2, <1>3

\* There are two kinds of memory.
LEMMA KindsFinite == IsFiniteSet(Kinds)
<1>1. Kinds = {"device"} \union {"pinned"} /\ IsFiniteSet({"device"})
  BY FS_Singleton DEF Kinds
<1> QED
  BY <1>1, FS_AddElement

\* One more handle: one more in the count, and its capacity in the bytes.
LEMMA OneMoreHandle ==
    ASSUME NEW given \in Handles,
           NEW t \in Callers, NEW k \in Kinds, given[t][k] = NoBuffer,
           NEW more, more[t][k] \in Buffers,
           \A u \in Callers, j \in Kinds : (u # t \/ j # k) => more[u][j] = given[u][j]
    PROVE  /\ Cardinality(InUse(more)) = Cardinality(InUse(given)) + 1
           /\ BytesGiven(more) = BytesGiven(given) + more[t][k].capacity
           /\ BytesGiven(given) \in Int /\ Cardinality(InUse(given)) \in Nat
<1> DEFINE S == InUse(given)
           x == <<t, k>>
           buffer == more[t][k]
           before == [h \in S |-> given[h[1]][h[2]].capacity]
           after == [h \in InUse(more) |-> more[h[1]][h[2]].capacity]
<1>1. buffer # NoBuffer /\ buffer.capacity \in Nat
  BY BufferFacts
<1>2. \A h \in Callers \X Kinds :
          more[h[1]][h[2]] = IF h = x THEN buffer ELSE given[h[1]][h[2]]
  <2> SUFFICES ASSUME NEW u \in Callers, NEW j \in Kinds
               PROVE  more[u][j] = IF <<u, j>> = x THEN buffer ELSE given[u][j]
    OBVIOUS
  <2> QED
    OBVIOUS
<1>3. x \notin S /\ InUse(more) = S \union {x}
  BY <1>1, <1>2 DEF InUse
<1>4. IsFiniteSet(S)
  <2>1. IsFiniteSet(Callers \X Kinds)
    BY KindsFinite, FS_Product, PoolAssumption
  <2> QED
    BY <2>1, FS_Subset DEF InUse
<1>5. Cardinality(InUse(more)) = Cardinality(S) + 1 /\ Cardinality(S) \in Nat
  BY <1>3, <1>4, FS_AddElement, FS_CardinalityType
<1>6. ASSUME NEW h \in S PROVE before[h] = after[h] /\ before[h] \in Nat
  <2>1. h \in Callers \X Kinds /\ h # x /\ h \in InUse(more)
    BY <1>3 DEF InUse
  <2>2. given[h[1]][h[2]] \in Buffers
    BY <2>1 DEF InUse, Handles
  <2>3. given[h[1]][h[2]].capacity \in Nat
    BY <2>2, BufferFacts
  <2>4. more[h[1]][h[2]] = given[h[1]][h[2]]
    BY <1>2, <2>1
  <2> QED
    BY <2>1, <2>3, <2>4
<1>7. after[x] = buffer.capacity
  BY <1>2, <1>3
<1>8. DOMAIN before = S /\ DOMAIN after = S \union {x}
  BY <1>3
<1>9. BytesGiven(given) = SumFunction(before) /\ BytesGiven(more) = SumFunction(after)
  BY DEF BytesGiven
<1> HIDE DEF before, after, S, x
<1>10. \A y \in DOMAIN after : after[y] \in Int
  BY <1>1, <1>6, <1>7, <1>8
<1>11. \A y \in DOMAIN before : before[y] = after[y]
  BY <1>6, <1>8
<1>12. SumFunction(after) = SumFunction(before) + after[x] /\ SumFunction(before) \in Int
  BY <1>3, <1>4, <1>8, <1>10, <1>11, SumGrows
<1> QED
  BY <1>5, <1>7, <1>9, <1>12 DEF S

\* What Give does to the handles.
LEMMA GiveFacts ==
    ASSUME handle \in Handles, NEW t \in Callers, NEW kind \in Kinds, NEW n \in Sizes,
           NEW b \in Blocks, Give(t, kind, b, n)
    PROVE  /\ handle' \in Handles
           /\ handle'[t][kind] \in Buffers
           /\ handle'[t][kind].ptr = b /\ handle'[t][kind].capacity = BucketFor(n)
           /\ Held(t, kind)'
           /\ \A u \in Callers, k \in Kinds :
                 (u # t \/ k # kind) => handle'[u][k] = handle[u][k]
<1> DEFINE buffer == [ptr |-> b, capacity |-> BucketFor(n), requested |-> n]
<1>1. buffer \in Buffers
  BY DEF Buffers, Buckets
<1>2. buffer.ptr = b /\ buffer.capacity = BucketFor(n)
  OBVIOUS
<1>3. handle' = [handle EXCEPT ![t][kind] = buffer]
  BY DEF Give
<1> HIDE DEF buffer
<1>4. handle'[t][kind] = buffer
  BY <1>3 DEF Handles
<1>5. handle' \in Handles
  BY <1>1, <1>3 DEF Handles
<1>6. \A u \in Callers, k \in Kinds : (u # t \/ k # kind) => handle'[u][k] = handle[u][k]
  BY <1>3 DEF Handles
<1>7. buffer # NoBuffer
  BY <1>1, BufferFacts
<1> QED
  BY <1>1, <1>2, <1>3, <1>4, <1>5, <1>6, <1>7 DEF Held

\* Membership in the bucket of a requested size.
LEMMA BucketOfSize == \A n \in Sizes : BucketFor(n) \in Buckets /\ BucketFor(n) \in Nat
  BY BucketAssumption DEF Buckets

\* A block changes hands: from a list, or from the allocator, to a handle.
LEMMA OwnersAfterGive ==
    ASSUME PoolTypeOK, HandlesOwn, NEW t \in Callers, NEW kind \in Kinds, NEW n \in Sizes,
           ~Held(t, kind), NEW b \in Blocks, Give(t, kind, b, n),
           \A u \in Callers, k \in Kinds : Held(u, k) => handle[u][k].ptr # b,
           heap'[b] = [kind |-> kind, capacity |-> BucketFor(n)],
           \A d \in Blocks : d # b => heap'[d] = heap[d],
           \A k \in Kinds, c \in Buckets : b \notin Cached(k, c)',
           \A k \in Kinds, c \in Buckets : Cached(k, c)' \subseteq Cached(k, c)
    PROVE  HandlesOwn'
<1>1. /\ handle'[t][kind].ptr = b /\ handle'[t][kind].capacity = BucketFor(n)
      /\ \A u \in Callers, k \in Kinds :
            (u # t \/ k # kind) => handle'[u][k] = handle[u][k]
  BY GiveFacts DEF PoolTypeOK
<1>2. ASSUME NEW u \in Callers, NEW k \in Kinds, Held(u, k)', u # t \/ k # kind
      PROVE  /\ Held(u, k) /\ handle'[u][k] = handle[u][k]
             /\ handle[u][k].ptr \in Blocks /\ handle[u][k].ptr # b
  <2>1. Held(u, k) /\ handle'[u][k] = handle[u][k]
    BY <1>1, <1>2 DEF Held
  <2>2. handle[u][k] \in Buffers
    BY <2>1 DEF Held, PoolTypeOK, Handles
  <2> QED
    BY <2>1, <2>2, BufferFacts
<1>3. ASSUME NEW u \in Callers, NEW k \in Kinds, Held(u, k)' PROVE Owns(u, k)'
  <2>1. CASE u = t /\ k = kind
    <3>1. \A v \in Callers : Held(v, k)' /\ v # u => handle'[v][k].ptr # b
      BY <1>2, <2>1
    <3> QED
      BY <1>1, <2>1, <3>1 DEF Owns
  <2>2. CASE u # t \/ k # kind
    <3>1. /\ Held(u, k) /\ handle'[u][k] = handle[u][k]
          /\ handle[u][k].ptr \in Blocks /\ handle[u][k].ptr # b
      BY <1>2, <1>3, <2>2
    <3>2. Owns(u, k)
      BY <3>1 DEF HandlesOwn
    <3>3. heap'[handle[u][k].ptr] = [kind |-> k, capacity |-> handle[u][k].capacity]
      BY <3>1, <3>2 DEF Owns
    <3>4. \A j \in Kinds, c \in Buckets : handle[u][k].ptr \notin Cached(j, c)'
      BY <3>2 DEF Owns
    <3>5. ASSUME NEW v \in Callers, Held(v, k)', v # u
          PROVE  handle'[v][k].ptr # handle[u][k].ptr
      <4>1. CASE v = t /\ k = kind
        BY <1>1, <3>1, <4>1
      <4>2. CASE v # t \/ k # kind
        <5>1. Held(v, k) /\ handle'[v][k] = handle[v][k]
          BY <1>2, <3>5, <4>2
        <5> QED
          BY <3>2, <3>5, <5>1 DEF Owns
      <4> QED
        BY <4>1, <4>2
    <3> QED
      BY <3>1, <3>3, <3>4, <3>5 DEF Owns
  <2> QED
    BY <2>1, <2>2
<1> QED
  BY <1>3 DEF HandlesOwn

\* The gauges after a handle is given out.
LEMMA GaugesAfterGive ==
    ASSUME PoolTypeOK, Gauges, NEW t \in Callers, NEW kind \in Kinds, NEW n \in Sizes,
           ~Held(t, kind), NEW b \in Blocks, Give(t, kind, b, n),
           stats'.live_handles = stats.live_handles + 1,
           stats'.bytes_in_use = stats.bytes_in_use + BucketFor(n),
           stats'.bytes_cached + stats'.bytes_in_use = BytesHeld'
    PROVE  Gauges'
<1>1. /\ handle'[t][kind] \in Buffers /\ handle'[t][kind].capacity = BucketFor(n)
      /\ \A u \in Callers, k \in Kinds :
            (u # t \/ k # kind) => handle'[u][k] = handle[u][k]
      /\ handle \in Handles /\ handle[t][kind] = NoBuffer
  BY GiveFacts DEF PoolTypeOK, Held
<1>2. /\ Cardinality(InUse(handle')) = Cardinality(InUse(handle)) + 1
      /\ BytesGiven(handle') = BytesGiven(handle) + BucketFor(n)
  BY <1>1, OneMoreHandle
<1>3. InUse(handle)' = InUse(handle') /\ BytesGiven(handle)' = BytesGiven(handle')
  BY DEF InUse, BytesGiven
<1> QED
  BY <1>2, <1>3 DEF Gauges

\* A handle that is held is a buffer.
LEMMA HeldFacts ==
    ASSUME PoolTypeOK, NEW t \in Callers, NEW k \in Kinds, Held(t, k)
    PROVE  /\ handle[t][k] \in Buffers /\ handle[t][k].ptr \in Blocks
           /\ handle[t][k].capacity \in Buckets /\ handle[t][k].capacity \in Nat
<1>1. handle[t][k] \in Buffers
  BY DEF Held, PoolTypeOK, Handles
<1> QED
  BY <1>1, BufferFacts

\* Acquiring a cached block.
LEMMA AcquireCachedKeeps ==
    ASSUME PoolInv, NEW t \in Callers, NEW kind \in Kinds, NEW n \in Sizes,
           ~Held(t, kind), AcquireCached(t, kind, n)
    PROVE  PoolInv'
<1> DEFINE c == BucketFor(n)
           list == free[kind][c]
           b == list[Len(list)]
           rest == SubSeq(list, 1, Len(list) - 1)
<1>1. /\ PoolTypeOK /\ ListsSorted /\ HandlesOwn /\ NoneLost /\ Gauges /\ PoolStaysSmall
      /\ c \in Buckets /\ c \in Nat
  BY BucketOfSize DEF PoolInv
<1>2. list \in Seq(Blocks) /\ IsInjective(list) /\ list # <<>>
  BY <1>1, Zenon DEF PoolTypeOK, ListsSorted, AcquireCached
<1>3. /\ rest \in Seq(Blocks) /\ IsInjective(rest)
      /\ b \in Range(list) /\ Range(rest) = Range(list) \ {b} /\ Range(list) \subseteq Blocks
  BY <1>2, PopFacts, ListFacts
<1>4. /\ Give(t, kind, b, n) /\ heap' = heap
      /\ free' = [free EXCEPT ![kind][c] = rest]
      /\ stats' = [stats EXCEPT !.bytes_cached = @ - c, !.bytes_in_use = @ + c,
                                !.live_handles = @ + 1]
  BY <1>1 DEF AcquireCached, PoolTypeOK
<1> HIDE DEF b, c, rest
<1>5. /\ free'[kind][c] = rest
      /\ \A k \in Kinds, d \in Buckets : (k # kind \/ d # c) => free'[k][d] = free[k][d]
      /\ free' \in [Kinds -> [Buckets -> Seq(Blocks)]]
  BY <1>1, <1>3, <1>4 DEF PoolTypeOK
<1>6. /\ Cached(kind, c)' = Cached(kind, c) \ {b}
      /\ \A k \in Kinds, d \in Buckets : (k # kind \/ d # c) => Cached(k, d)' = Cached(k, d)
  BY <1>3, <1>5 DEF Cached
<1>7. b \in Blocks /\ b \in Cached(kind, c) /\ heap[b] = [kind |-> kind, capacity |-> c]
  BY <1>1, <1>3 DEF Cached, ListsSorted
<1>8. \A k \in Kinds, d \in Buckets : Cached(k, d)' \subseteq Cached(k, d) /\ b \notin Cached(k, d)'
  <2>1. ASSUME NEW k \in Kinds, NEW d \in Buckets, b \in Cached(k, d) PROVE k = kind /\ d = c
    <3>1. heap[b] = [kind |-> k, capacity |-> d]
      BY <1>1, <2>1 DEF ListsSorted
    <3>2. [kind |-> k, capacity |-> d] = [kind |-> kind, capacity |-> c]
      BY <1>7, <3>1
    <3> QED
      BY <3>2
  <2> QED
    BY <1>6, <2>1
<1>9. ASSUME NEW u \in Callers, NEW k \in Kinds, Held(u, k) PROVE handle[u][k].ptr # b
  <2>1. Owns(u, k)
    BY <1>1, <1>9 DEF HandlesOwn
  <2>2. handle[u][k].ptr \notin Cached(kind, c)
    BY <1>1, <2>1 DEF Owns
  <2> QED
    BY <1>7, <2>2
<1>10. PoolTypeOK'
  <2>1. stats' \in [bytes_in_use : Int, bytes_cached : Int, live_handles : Int]
    <3>1. stats \in [bytes_in_use : Int, bytes_cached : Int, live_handles : Int] /\ c \in Int
      BY <1>1 DEF PoolTypeOK
    <3>2. stats' = [bytes_in_use |-> stats.bytes_in_use + c,
                    bytes_cached |-> stats.bytes_cached - c,
                    live_handles |-> stats.live_handles + 1]
      BY <1>4, <3>1, Zenon
    <3>3. /\ stats.bytes_in_use + c \in Int /\ stats.bytes_cached - c \in Int
          /\ stats.live_handles + 1 \in Int
      BY <3>1
    <3> QED
      BY <3>2, <3>3
  <2>2. handle' \in Handles
    BY <1>1, <1>4, <1>7, GiveFacts DEF PoolTypeOK
  <2> QED
    BY <1>1, <1>4, <1>5, <2>1, <2>2 DEF PoolTypeOK
<1>11. ListsSorted'
  <2>1. ASSUME NEW k \in Kinds, NEW d \in Buckets PROVE IsInjective(free'[k][d])
    <3>1. IsInjective(free[k][d])
      BY <1>1, Zenon DEF ListsSorted
    <3>2. CASE k = kind /\ d = c
      BY <1>3, <1>5, <3>2
    <3>3. CASE ~(k = kind /\ d = c)
      BY <1>5, <3>1, <3>3
    <3> QED
      BY <3>2, <3>3
  <2>2. ASSUME NEW k \in Kinds, NEW d \in Buckets, NEW e \in Cached(k, d)'
        PROVE  heap'[e] = [kind |-> k, capacity |-> d]
    BY <1>1, <1>4, <1>8 DEF ListsSorted
  <2> QED
    BY <2>1, <2>2 DEF ListsSorted
<1>12. HandlesOwn'
  BY <1>1, <1>4, <1>7, <1>8, <1>9, OwnersAfterGive DEF c
<1>13. NoneLost'
  <2> SUFFICES ASSUME NEW e \in Blocks, NEW k \in Kinds, NEW d \in Buckets,
                      heap[e] = [kind |-> k, capacity |-> d], e \notin Cached(k, d)'
               PROVE  \E u \in Callers : Held(u, k)' /\ handle'[u][k].ptr = e
    BY <1>4 DEF NoneLost
  <2>1. /\ handle'[t][kind].ptr = b /\ Held(t, kind)'
        /\ \A u \in Callers, j \in Kinds :
              (u # t \/ j # kind) => handle'[u][j] = handle[u][j]
    BY <1>1, <1>4, <1>7, GiveFacts DEF PoolTypeOK
  <2>2. CASE e = b
    <3>1. k = kind
      BY <1>7, <2>2
    <3> QED
      BY <2>1, <2>2, <3>1
  <2>3. CASE e # b
    <3>1. e \notin Cached(k, d)
      BY <1>6, <2>3
    <3>2. PICK u \in Callers : Held(u, k) /\ handle[u][k].ptr = e
      BY <1>1, <3>1 DEF NoneLost
    <3>3. handle'[u][k] = handle[u][k]
      BY <2>1, <3>2
    <3> QED
      BY <3>2, <3>3 DEF Held
  <2> QED
    BY <2>2, <2>3
<1>14. Gauges'
  <2>1. /\ stats'.live_handles = stats.live_handles + 1
        /\ stats'.bytes_in_use = stats.bytes_in_use + c
        /\ stats'.bytes_cached = stats.bytes_cached - c
        /\ stats.bytes_in_use \in Int /\ stats.bytes_cached \in Int
    BY <1>1, <1>4 DEF PoolTypeOK
  <2>2. BytesHeld' = BytesHeld
    BY <1>4 DEF BytesHeld, UnusedBlocks
  <2>3. stats'.bytes_cached + stats'.bytes_in_use = BytesHeld'
    BY <1>1, <2>1, <2>2 DEF Gauges
  <2> QED
    BY <1>1, <1>4, <1>7, <2>1, <2>3, GaugesAfterGive DEF c
<1>15. PoolStaysSmall'
  BY <1>1, <1>4 DEF PoolStaysSmall
<1> QED
  BY <1>10, <1>11, <1>12, <1>13, <1>14, <1>15 DEF PoolInv

\* An unused block is of no kind.
LEMMA UnusedFacts ==
    ASSUME NEW k \in Kinds, NEW c PROVE Unused # [kind |-> k, capacity |-> c]
<1>1. Unused.kind = "none" /\ k # "none"
  BY DEF Unused, Kinds
<1> QED
  BY <1>1

\* There are MaxBlocks blocks.
LEMMA BlocksFinite == IsFiniteSet(Blocks) /\ Blocks \subseteq Nat
  BY FS_Interval, PoolAssumption DEF Blocks

\* The bytes held after one more block is allocated.
LEMMA OneMoreBlock ==
    ASSUME PoolTypeOK, NEW b \in UnusedBlocks, NEW kind \in Kinds, NEW c \in Buckets,
           heap' = [heap EXCEPT ![b] = [kind |-> kind, capacity |-> c]]
    PROVE  BytesHeld' = BytesHeld + c /\ BytesHeld \in Int
<1> DEFINE used == Blocks \ UnusedBlocks
           before == [d \in used |-> heap[d].capacity]
           after == [d \in used \union {b} |-> heap'[d].capacity]
<1>0. \A d \in Buckets : d \in Int
  BY BucketAssumption
<1>1. b \in Blocks /\ heap[b] = Unused
  BY DEF UnusedBlocks
<1>2. /\ heap'[b] = [kind |-> kind, capacity |-> c] /\ heap'[b] # Unused
      /\ \A d \in Blocks : d # b => heap'[d] = heap[d]
  BY <1>1, UnusedFacts DEF PoolTypeOK
<1>3. Blocks \ UnusedBlocks' = used \union {b} /\ b \notin used
  BY <1>1, <1>2 DEF UnusedBlocks
<1>4. BytesHeld = SumFunction(before)
  BY DEF BytesHeld
<1>5. BytesHeld' = SumFunction(after)
  BY <1>3 DEF BytesHeld
<1>6. \A d \in used : heap'[d].capacity = heap[d].capacity /\ heap[d].capacity \in Int
  <2> SUFFICES ASSUME NEW d \in used
               PROVE  heap'[d].capacity = heap[d].capacity /\ heap[d].capacity \in Int
    OBVIOUS
  <2>1. d \in Blocks /\ d # b /\ heap[d] # Unused
    BY <1>3 DEF UnusedBlocks
  <2>2. heap[d] \in [kind : Kinds, capacity : Buckets]
    BY <2>1 DEF PoolTypeOK
  <2>3. heap[d].capacity \in Buckets
    BY <2>2
  <2>4. heap[d].capacity \in Int
    BY <1>0, <2>3, Zenon
  <2>5. heap'[d] = heap[d]
    BY <1>2, <2>1
  <2> QED
    BY <2>4, <2>5
<1>7. heap'[b].capacity = c /\ c \in Int
  BY <1>2, BucketAssumption
<1>8. IsFiniteSet(used)
  BY BlocksFinite, FS_Subset
<1>9. /\ DOMAIN before = used /\ DOMAIN after = DOMAIN before \union {b}
      /\ \A d \in DOMAIN after : after[d] \in Int
      /\ \A d \in DOMAIN before : before[d] = after[d]
      /\ after[b] = c
  BY <1>6, <1>7
<1> HIDE DEF used, before, after
<1>10. SumFunction(after) = SumFunction(before) + after[b] /\ SumFunction(before) \in Int
  BY <1>3, <1>8, <1>9, SumGrows
<1> QED
  BY <1>4, <1>5, <1>9, <1>10

\* Nothing cached in a bucket: its blocks are all in handles, and a caller has
\* one at most.
LEMMA RoomForOneMore ==
    ASSUME PoolInv, NEW t \in Callers, NEW k \in Kinds, NEW c \in Buckets, ~Held(t, k),
           free[k][c] = <<>>
    PROVE  LET S == {b \in Blocks : heap[b] = [kind |-> k, capacity |-> c]} IN
           IsFiniteSet(S) /\ Cardinality(S) < Cardinality(Callers)
<1> DEFINE S == {b \in Blocks : heap[b] = [kind |-> k, capacity |-> c]}
           holder == [b \in S |-> CHOOSE u \in Callers : Held(u, k) /\ handle[u][k].ptr = b]
<1>1. ASSUME NEW b \in S
      PROVE  \E u \in Callers : Held(u, k) /\ handle[u][k].ptr = b
  <2>1. b \notin Cached(k, c)
    BY DEF Cached, Range
  <2> QED
    BY <2>1 DEF PoolInv, NoneLost
<1>2. ASSUME NEW b \in S
      PROVE  holder[b] \in Callers /\ Held(holder[b], k) /\ handle[holder[b]][k].ptr = b
  BY <1>1
<1> HIDE DEF S, holder
<1>3. holder \in [S -> Callers \ {t}]
  <2>1. \A b \in S : holder[b] \in Callers \ {t}
    BY <1>2
  <2> QED
    BY <2>1 DEF holder
<1>4. IsInjective(holder)
  <2>1. \A b, d \in S : holder[b] = holder[d] => b = d
    BY <1>2
  <2> QED
    BY <1>3, <2>1 DEF IsInjective
<1>5. holder \in Injection(S, Callers \ {t})
  BY <1>3, <1>4 DEF Injection
<1>6. /\ IsFiniteSet(Callers \ {t}) /\ Cardinality(Callers \ {t}) = Cardinality(Callers) - 1
      /\ Cardinality(Callers) \in Nat
  BY PoolAssumption, FS_RemoveElement, FS_CardinalityType
<1>7. IsFiniteSet(S) /\ Cardinality(S) <= Cardinality(Callers \ {t})
  BY <1>5, <1>6, FS_Injection
<1>8. Cardinality(S) \in Nat
  BY <1>7, FS_CardinalityType
<1>9. IsFiniteSet(S) /\ Cardinality(S) < Cardinality(Callers)
  BY <1>6, <1>7, <1>8
<1> QED
  BY <1>9 DEF S

\* A set grows by one element at most.
LEMMA OneMoreElement ==
    ASSUME NEW S, IsFiniteSet(S), NEW x
    PROVE  Cardinality(S \union {x}) <= Cardinality(S) + 1 /\ Cardinality(S \union {x}) \in Nat
<1>1. Cardinality(S) \in Nat
  BY FS_CardinalityType
<1>2. CASE x \in S
  <2>1. S \union {x} = S
    BY <1>2
  <2> QED
    BY <1>1, <2>1
<1>3. CASE x \notin S
  <2>1. Cardinality(S \union {x}) = Cardinality(S) + 1
    BY <1>3, FS_AddElement
  <2> QED
    BY <1>1, <2>1
<1> QED
  BY <1>2, <1>3

\* Acquiring a block from the allocator.
LEMMA AcquireFreshKeeps ==
    ASSUME PoolInv, NEW t \in Callers, NEW kind \in Kinds, NEW n \in Sizes,
           ~Held(t, kind), AcquireFresh(t, kind, n)
    PROVE  PoolInv'
<1> DEFINE c == BucketFor(n)
           b == Min(UnusedBlocks)
<1>1. /\ PoolTypeOK /\ ListsSorted /\ HandlesOwn /\ NoneLost /\ Gauges /\ PoolStaysSmall
      /\ c \in Buckets /\ c \in Nat
  BY BucketOfSize DEF PoolInv
<1>2. b \in UnusedBlocks
  <2>1. UnusedBlocks \subseteq Nat /\ UnusedBlocks # {}
    BY BlocksFinite DEF UnusedBlocks, AcquireFresh
  <2> QED
    BY <2>1, MinBelongs
<1>3. /\ Give(t, kind, b, n) /\ free' = free /\ free[kind][c] = <<>>
      /\ heap' = [heap EXCEPT ![b] = [kind |-> kind, capacity |-> c]]
      /\ stats' = [stats EXCEPT !.bytes_in_use = @ + c, !.live_handles = @ + 1]
  BY DEF AcquireFresh
<1>4. BytesHeld' = BytesHeld + c /\ BytesHeld \in Int
  BY <1>1, <1>2, <1>3, OneMoreBlock, Zenon
<1>5. b \in Blocks /\ heap[b] = Unused
  BY <1>2 DEF UnusedBlocks
<1> HIDE DEF b, c
<1>6. /\ heap'[b] = [kind |-> kind, capacity |-> c]
      /\ \A d \in Blocks : d # b => heap'[d] = heap[d]
      /\ heap' \in [Blocks -> [kind : Kinds, capacity : Buckets] \union {Unused}]
  BY <1>1, <1>3, <1>5 DEF PoolTypeOK
<1>7. \A k \in Kinds, d \in Buckets : Cached(k, d)' = Cached(k, d) /\ b \notin Cached(k, d)
  <2>1. ASSUME NEW k \in Kinds, NEW d \in Buckets, b \in Cached(k, d) PROVE FALSE
    <3>1. heap[b] = [kind |-> k, capacity |-> d]
      BY <1>1, <2>1 DEF ListsSorted
    <3>2. Unused # [kind |-> k, capacity |-> d]
      BY UnusedFacts
    <3> QED
      BY <1>5, <3>1, <3>2
  <2>2. ASSUME NEW k \in Kinds, NEW d \in Buckets PROVE Cached(k, d)' = Cached(k, d)
    BY <1>3 DEF Cached
  <2> QED
    BY <2>1, <2>2
<1>8. ASSUME NEW u \in Callers, NEW k \in Kinds, Held(u, k) PROVE handle[u][k].ptr # b
  <2>1. heap[handle[u][k].ptr] = [kind |-> k, capacity |-> handle[u][k].capacity]
    BY <1>1, <1>8 DEF HandlesOwn, Owns
  <2> QED
    BY <1>5, <2>1, UnusedFacts
<1>9. /\ handle' \in Handles /\ handle'[t][kind].ptr = b /\ Held(t, kind)'
      /\ \A u \in Callers, j \in Kinds :
            (u # t \/ j # kind) => handle'[u][j] = handle[u][j]
  BY <1>1, <1>3, <1>5, GiveFacts DEF PoolTypeOK
<1>10. PoolTypeOK'
  <2>1. stats' \in [bytes_in_use : Int, bytes_cached : Int, live_handles : Int]
    <3>1. stats \in [bytes_in_use : Int, bytes_cached : Int, live_handles : Int] /\ c \in Int
      BY <1>1 DEF PoolTypeOK
    <3>2. stats' = [bytes_in_use |-> stats.bytes_in_use + c,
                    bytes_cached |-> stats.bytes_cached,
                    live_handles |-> stats.live_handles + 1]
      BY <1>3, <3>1, Zenon
    <3>3. /\ stats.bytes_in_use + c \in Int /\ stats.bytes_cached \in Int
          /\ stats.live_handles + 1 \in Int
      BY <3>1
    <3> QED
      BY <3>2, <3>3
  <2> QED
    BY <1>1, <1>3, <1>6, <1>9, <2>1 DEF PoolTypeOK
<1>11. ListsSorted'
  <2>1. ASSUME NEW k \in Kinds, NEW d \in Buckets PROVE IsInjective(free'[k][d])
    BY <1>1, <1>3, Zenon DEF ListsSorted
  <2>2. ASSUME NEW k \in Kinds, NEW d \in Buckets, NEW e \in Cached(k, d)'
        PROVE  heap'[e] = [kind |-> k, capacity |-> d]
    <3>1. e \in Cached(k, d) /\ e # b
      BY <1>7, <2>2
    <3>2. free[k][d] \in Seq(Blocks) /\ IsInjective(free[k][d])
      BY <1>1, ListsType
    <3>3. e \in Blocks
      BY <3>1, <3>2, ListFacts, SMTT(30) DEF Cached
    <3>4. heap[e] = [kind |-> k, capacity |-> d]
      BY <1>1, <3>1 DEF ListsSorted
    <3> QED
      BY <1>6, <3>1, <3>3, <3>4
  <2> QED
    BY <2>1, <2>2 DEF ListsSorted
<1>12. HandlesOwn'
  BY <1>1, <1>3, <1>5, <1>6, <1>7, <1>8, OwnersAfterGive, SMTT(30) DEF c
<1>13. NoneLost'
  <2> SUFFICES ASSUME NEW e \in Blocks, NEW k \in Kinds, NEW d \in Buckets,
                      heap'[e] = [kind |-> k, capacity |-> d], e \notin Cached(k, d)'
               PROVE  \E u \in Callers : Held(u, k)' /\ handle'[u][k].ptr = e
    BY DEF NoneLost
  <2>1. CASE e = b
    <3>1. k = kind
      BY <1>6, <2>1, SMTT(30)
    <3> QED
      BY <1>9, <2>1, <3>1, SMTT(30)
  <2>2. CASE e # b
    <3>1. e \notin Cached(k, d) /\ heap[e] = [kind |-> k, capacity |-> d]
      BY <1>6, <1>7, <2>2
    <3>2. PICK u \in Callers : Held(u, k) /\ handle[u][k].ptr = e
      BY <1>1, <3>1, SMTT(30) DEF NoneLost
    <3>3. handle'[u][k] = handle[u][k]
      BY <1>9, <3>2
    <3> QED
      BY <3>2, <3>3, SMTT(30) DEF Held
  <2> QED
    BY <2>1, <2>2
<1>14. Gauges'
  <2>1. /\ stats'.live_handles = stats.live_handles + 1
        /\ stats'.bytes_in_use = stats.bytes_in_use + c
        /\ stats'.bytes_cached = stats.bytes_cached
        /\ stats.bytes_in_use \in Int /\ stats.bytes_cached \in Int
    BY <1>1, <1>3 DEF PoolTypeOK
  <2>2. stats'.bytes_cached + stats'.bytes_in_use = BytesHeld'
    BY <1>1, <1>4, <2>1 DEF Gauges
  <2> QED
    BY <1>1, <1>3, <1>5, <2>1, <2>2, GaugesAfterGive DEF c
<1>15. PoolStaysSmall'
  <2> DEFINE S(k, d) == {e \in Blocks : heap[e] = [kind |-> k, capacity |-> d]}
  <2> SUFFICES ASSUME NEW k \in Kinds, NEW d \in Buckets
               PROVE  Cardinality(S(k, d)') <= Cardinality(Callers)
    BY DEF PoolStaysSmall
  <2>1. CASE k = kind /\ d = c
    <3>1. IsFiniteSet(S(kind, c)) /\ Cardinality(S(kind, c)) < Cardinality(Callers)
      BY <1>1, <1>3, RoomForOneMore, SMTT(30)
    <3>2. S(kind, c)' = S(kind, c) \union {b}
      BY <1>5, <1>6
    <3> HIDE DEF S
    <3>3. Cardinality(S(kind, c)) \in Nat /\ Cardinality(Callers) \in Nat
      BY <3>1, FS_CardinalityType, PoolAssumption
    <3>4. /\ Cardinality(S(kind, c) \union {b}) <= Cardinality(S(kind, c)) + 1
          /\ Cardinality(S(kind, c) \union {b}) \in Nat
      BY <3>1, OneMoreElement, Zenon
    <3> QED
      BY <2>1, <3>1, <3>2, <3>3, <3>4
  <2>2. CASE ~(k = kind /\ d = c)
    <3>1. [kind |-> k, capacity |-> d] # [kind |-> kind, capacity |-> c]
      BY <2>2
    <3>2. [kind |-> k, capacity |-> d] # Unused
      BY UnusedFacts
    <3>3. S(k, d)' = S(k, d)
      BY <1>5, <1>6, <3>1, <3>2
    <3> QED
      BY <1>1, <3>3 DEF PoolStaysSmall
  <2> QED
    BY <2>1, <2>2
<1> QED
  BY <1>10, <1>11, <1>12, <1>13, <1>14, <1>15 DEF PoolInv

\* Releasing a handle.
LEMMA ReleaseKeeps ==
    ASSUME PoolInv, NEW t \in Callers, NEW kind \in Kinds, Held(t, kind), Release(t, kind)
    PROVE  PoolInv'
<1>0. PICK h, b, c, list : /\ h = handle[t][kind] /\ b = h.ptr /\ c = h.capacity
                            /\ list = free[kind][c]
  OBVIOUS
<1>1. PoolTypeOK /\ ListsSorted /\ HandlesOwn /\ NoneLost /\ Gauges /\ PoolStaysSmall
  BY DEF PoolInv
<1>2. h \in Buffers /\ b \in Blocks /\ c \in Buckets /\ c \in Nat
  BY <1>0, <1>1, HeldFacts, SMTT(30)
<1>3. /\ heap[b] = [kind |-> kind, capacity |-> c]
      /\ \A k \in Kinds, d \in Buckets : b \notin Cached(k, d)
      /\ \A u \in Callers : Held(u, kind) /\ u # t => handle[u][kind].ptr # b
  BY <1>0, <1>1, SMTT(30) DEF HandlesOwn, Owns
<1>4. list \in Seq(Blocks) /\ IsInjective(list) /\ b \notin Range(list)
  BY <1>0, <1>1, <1>2, <1>3 DEF PoolTypeOK, ListsSorted, Cached
<1>5. /\ Append(list, b) \in Seq(Blocks) /\ IsInjective(Append(list, b))
      /\ Range(Append(list, b)) = Range(list) \union {b}
  BY <1>2, <1>4, ListFacts, SMTT(30)
<1>6. /\ handle' = [handle EXCEPT ![t][kind] = NoBuffer] /\ heap' = heap
      /\ free' = [free EXCEPT ![kind][c] = Append(list, b)]
      /\ stats' = [stats EXCEPT !.bytes_in_use = @ - c, !.bytes_cached = @ + c,
                                !.live_handles = @ - 1]
  BY <1>0, <1>1, <1>2, SMTT(30) DEF Release, PoolTypeOK
<1>7. /\ handle' \in Handles /\ handle'[t][kind] = NoBuffer
      /\ \A u \in Callers, k \in Kinds :
            (u # t \/ k # kind) => handle'[u][k] = handle[u][k]
  <2>1. handle \in Handles
    BY <1>1 DEF PoolTypeOK
  <2> QED
    BY <1>0, <1>6, <2>1 DEF Handles
<1>8. /\ free'[kind][c] = Append(list, b)
      /\ \A k \in Kinds, d \in Buckets : (k # kind \/ d # c) => free'[k][d] = free[k][d]
      /\ free' \in [Kinds -> [Buckets -> Seq(Blocks)]]
  BY <1>1, <1>2, <1>5, <1>6 DEF PoolTypeOK
<1>9. /\ Cached(kind, c)' = Cached(kind, c) \union {b}
      /\ \A k \in Kinds, d \in Buckets : (k # kind \/ d # c) => Cached(k, d)' = Cached(k, d)
  BY <1>0, <1>5, <1>8, Zenon DEF Cached
<1>10. PoolTypeOK'
  <2>1. stats' \in [bytes_in_use : Int, bytes_cached : Int, live_handles : Int]
    <3>1. stats \in [bytes_in_use : Int, bytes_cached : Int, live_handles : Int] /\ c \in Int
      BY <1>1, <1>2 DEF PoolTypeOK
    <3>2. stats' = [bytes_in_use |-> stats.bytes_in_use - c,
                    bytes_cached |-> stats.bytes_cached + c,
                    live_handles |-> stats.live_handles - 1]
      BY <1>6, <3>1, Zenon
    <3>3. /\ stats.bytes_in_use - c \in Int /\ stats.bytes_cached + c \in Int
          /\ stats.live_handles - 1 \in Int
      BY <3>1
    <3> QED
      BY <3>2, <3>3
  <2> QED
    BY <1>1, <1>6, <1>7, <1>8, <2>1 DEF PoolTypeOK
<1>11. ListsSorted'
  <2>1. ASSUME NEW k \in Kinds, NEW d \in Buckets PROVE IsInjective(free'[k][d])
    BY <1>1, <1>5, <1>8, ZenonT(30) DEF ListsSorted
  <2>2. ASSUME NEW k \in Kinds, NEW d \in Buckets, NEW e \in Cached(k, d)'
        PROVE  heap'[e] = [kind |-> k, capacity |-> d]
    <3>1. CASE k = kind /\ d = c /\ e = b
      BY <1>3, <1>6, <3>1
    <3>2. CASE ~(k = kind /\ d = c /\ e = b)
      <4>1. e \in Cached(k, d)
        BY <1>2, <1>9, <2>2, <3>2
      <4> QED
        BY <1>1, <1>6, <4>1 DEF ListsSorted
    <3> QED
      BY <3>1, <3>2
  <2> QED
    BY <2>1, <2>2 DEF ListsSorted
<1>12. ASSUME NEW u \in Callers, NEW k \in Kinds, Held(u, k)'
       PROVE  (u # t \/ k # kind) /\ Held(u, k) /\ handle'[u][k] = handle[u][k]
  BY <1>7, <1>12, SMTT(30) DEF Held
<1>13. HandlesOwn'
  <2> SUFFICES ASSUME NEW u \in Callers, NEW k \in Kinds, Held(u, k)' PROVE Owns(u, k)'
    BY DEF HandlesOwn
  <2>1. (u # t \/ k # kind) /\ Owns(u, k) /\ handle'[u][k] = handle[u][k]
    BY <1>1, <1>12 DEF HandlesOwn
  <2>2. heap'[handle'[u][k].ptr] = [kind |-> k, capacity |-> handle'[u][k].capacity]
    BY <1>6, <2>1 DEF Owns
  <2>3. handle'[u][k].ptr # b
    <3>1. CASE k = kind
      BY <1>3, <1>12, <2>1, <3>1
    <3>2. CASE k # kind
      <4>1. [kind |-> k, capacity |-> handle'[u][k].capacity] # [kind |-> kind, capacity |-> c]
        BY <3>2, SMTT(30)
      <4> QED
        BY <1>3, <1>6, <2>2, <4>1
    <3> QED
      BY <3>1, <3>2
  <2>4. \A j \in Kinds, d \in Buckets : handle'[u][k].ptr \notin Cached(j, d)'
    BY <1>2, <1>9, <2>1, <2>3, SMTT(30) DEF Owns
  <2>5. ASSUME NEW v \in Callers, Held(v, k)', v # u PROVE handle'[v][k].ptr # handle'[u][k].ptr
    <3>1. Held(v, k) /\ handle'[v][k] = handle[v][k]
      BY <1>12, <2>5
    <3> QED
      BY <2>1, <2>5, <3>1 DEF Owns
  <2> QED
    BY <2>2, <2>4, <2>5 DEF Owns
<1>14. NoneLost'
  <2> SUFFICES ASSUME NEW e \in Blocks, NEW k \in Kinds, NEW d \in Buckets,
                      heap[e] = [kind |-> k, capacity |-> d], e \notin Cached(k, d)'
               PROVE  \E u \in Callers : Held(u, k)' /\ handle'[u][k].ptr = e
    BY <1>6, SMTT(30) DEF NoneLost
  <2>1. e # b
    <3>1. SUFFICES ASSUME e = b PROVE FALSE
      OBVIOUS
    <3>2. k = kind /\ d = c
      BY <1>3, <3>1
    <3> QED
      BY <1>9, <3>1, <3>2
  <2>2. e \notin Cached(k, d)
    BY <1>2, <1>9, Zenon
  <2>3. PICK u \in Callers : Held(u, k) /\ handle[u][k].ptr = e
    BY <1>1, <2>2, SMTT(30) DEF NoneLost
  <2>4. u # t \/ k # kind
    BY <1>0, <2>1, <2>3
  <2> QED
    BY <1>7, <2>3, <2>4 DEF Held
<1>15. Gauges'
  <2>1. /\ stats'.live_handles = stats.live_handles - 1
        /\ stats'.bytes_in_use = stats.bytes_in_use - c
        /\ stats'.bytes_cached = stats.bytes_cached + c
        /\ stats.bytes_in_use \in Int /\ stats.bytes_cached \in Int
    BY <1>1, <1>6 DEF PoolTypeOK
  <2>2. /\ Cardinality(InUse(handle)) = Cardinality(InUse(handle')) + 1
        /\ BytesGiven(handle) = BytesGiven(handle') + c
        /\ BytesGiven(handle') \in Int /\ Cardinality(InUse(handle')) \in Nat
    <3>1. /\ handle' \in Handles /\ handle'[t][kind] = NoBuffer
          /\ handle[t][kind] \in Buffers
          /\ \A u \in Callers, k \in Kinds :
                (u # t \/ k # kind) => handle[u][k] = handle'[u][k]
      BY <1>0, <1>2, <1>7, SMTT(30)
    <3>2. /\ Cardinality(InUse(handle)) = Cardinality(InUse(handle')) + 1
          /\ BytesGiven(handle) = BytesGiven(handle') + handle[t][kind].capacity
          /\ BytesGiven(handle') \in Int /\ Cardinality(InUse(handle')) \in Nat
      BY <3>1, OneMoreHandle
    <3> QED
      BY <1>0, <3>2, SMTT(30)
  <2>3. BytesHeld' = BytesHeld
    BY <1>6 DEF BytesHeld, UnusedBlocks
  <2>4. stats'.bytes_cached + stats'.bytes_in_use = BytesHeld'
    BY <1>1, <1>2, <2>1, <2>3 DEF Gauges
  <2>5. /\ stats'.live_handles = Cardinality(InUse(handle'))
        /\ stats'.bytes_in_use = BytesGiven(handle')
    BY <1>1, <1>2, <2>1, <2>2 DEF Gauges
  <2> QED
    BY <2>4, <2>5, Zenon DEF Gauges, InUse, BytesGiven
<1>16. PoolStaysSmall'
  BY <1>1, <1>6 DEF PoolStaysSmall
<1> QED
  BY <1>10, <1>11, <1>13, <1>14, <1>15, <1>16 DEF PoolInv

\* The sum over nothing.
LEMMA SumEmpty == ASSUME NEW f PROVE SumFunctionOnSet(f, {}) = 0
<1>1. IsFiniteSet({}) /\ Cardinality({}) = 0
  BY FS_EmptySet
<1>2. SumFunctionOnSet(f, {}) = 0 * Cardinality({})
  BY <1>1, SumConstant
<1> QED
  BY <1>1, <1>2

\* A sum and one of its terms.
LEMMA SumRemove ==
    ASSUME NEW S, IsFiniteSet(S), NEW x \in S, NEW f, \A y \in S : f[y] \in Int
    PROVE  SumFunctionOnSet(f, S) = f[x] + SumFunctionOnSet(f, S \ {x})
<1>1. IsFiniteSet(S \ {x}) /\ x \notin S \ {x} /\ S = (S \ {x}) \union {x}
  BY FS_RemoveElement
<1> QED
  BY <1>1, SumAdd

\* A sum over disjoint parts is the sum of the parts' sums.
LEMMA SumByParts ==
    ASSUME NEW I, IsFiniteSet(I), NEW S, IsFiniteSet(S),
           NEW part \in [I -> SUBSET S],
           \A i, j \in I : i # j => part[i] \cap part[j] = {},
           NEW f, \A x \in S : f[x] \in Int,
           NEW g, \A i \in I : g[i] = SumFunctionOnSet(f, part[i])
    PROVE  SumFunctionOnSet(g, I) = SumFunctionOnSet(f, UNION {part[i] : i \in I})
<1> DEFINE U(J) == UNION {part[i] : i \in J}
           bad == {J \in SUBSET I : SumFunctionOnSet(g, J) # SumFunctionOnSet(f, U(J))}
<1>1. \A J \in SUBSET I : IsFiniteSet(J) /\ U(J) \in SUBSET S /\ IsFiniteSet(U(J))
  <2> SUFFICES ASSUME NEW J \in SUBSET I
               PROVE  IsFiniteSet(J) /\ U(J) \in SUBSET S /\ IsFiniteSet(U(J))
    BY Zenon
  <2>1. U(J) \in SUBSET S
    OBVIOUS
  <2> QED
    BY <2>1, FS_Subset
<1>2. \A i \in I : g[i] \in Int
  <2> SUFFICES ASSUME NEW i \in I PROVE SumFunctionOnSet(f, part[i]) \in Int
    OBVIOUS
  <2>1. part[i] \in SUBSET S
    OBVIOUS
  <2> QED
    BY <2>1, SumSplit, Zenon
<1>3. SUFFICES ASSUME bad # {} PROVE FALSE
  BY Zenon
<1>4. PICK J \in SUBSET I :
          /\ SumFunctionOnSet(g, J) # SumFunctionOnSet(f, U(J))
          /\ \A i \in J : SumFunctionOnSet(g, J \ {i}) = SumFunctionOnSet(f, U(J \ {i}))
  <2>1. PICK J \in bad : \A i \in J : J \ {i} \notin bad
    BY <1>3, MinimalSubset, Zenon
  <2> QED
    BY <2>1, Zenon
<1> HIDE DEF bad
<1>5. CASE J = {}
  <2>1. U(J) = {}
    BY <1>5
  <2> QED
    BY <1>4, <1>5, <2>1, SumEmpty
<1>6. CASE J # {}
  <2>1. PICK i \in J : TRUE
    BY <1>6
  <2> DEFINE K == J \ {i}
  <2>2. SumFunctionOnSet(g, K) = SumFunctionOnSet(f, U(K))
    BY <1>4, <2>1
  <2>3. SumFunctionOnSet(g, J) = g[i] + SumFunctionOnSet(g, K)
    <3>1. IsFiniteSet(J) /\ \A y \in J : g[y] \in Int
      BY <1>1, <1>2, <1>4, Zenon
    <3> QED
      BY <3>1, SumRemove
  <2>4. SumFunctionOnSet(f, U(J)) = SumFunctionOnSet(f, part[i]) + SumFunctionOnSet(f, U(K))
    <3>1. part[i] \in SUBSET U(J) /\ U(J) \ part[i] = U(K)
      <4>1. \A j \in J : j # i => part[i] \cap part[j] = {}
        BY <1>4, <2>1
      <4> QED
        BY <2>1, <4>1
    <3>2. IsFiniteSet(U(J)) /\ \A y \in U(J) : f[y] \in Int
      BY <1>1, <1>4, Zenon
    <3> HIDE DEF U, K
    <3>3. SumFunctionOnSet(f, U(J)) =
              SumFunctionOnSet(f, part[i]) + SumFunctionOnSet(f, U(J) \ part[i])
      BY <3>1, <3>2, SumSplit, Zenon
    <3> QED
      BY <3>1, <3>3, Zenon
  <2>5. g[i] = SumFunctionOnSet(f, part[i])
    BY <1>4, <2>1
  <2>6. SumFunctionOnSet(g, J) # SumFunctionOnSet(f, U(J))
    BY <1>4
  <2> HIDE DEF K, U
  <2> QED
    BY <2>2, <2>3, <2>4, <2>5, <2>6
<1> QED
  BY <1>5, <1>6

\* There are finitely many lists.
LEMMA ListsFinite == IsFiniteSet(Kinds \X Buckets)
<1> DEFINE bucket == [n \in Sizes |-> BucketFor(n)]
<1>1. bucket \in Surjection(Sizes, Buckets)
  BY DEF Surjection, Buckets
<1>2. IsFiniteSet(Buckets)
  BY <1>1, FS_Surjection, PoolAssumption
<1> QED
  BY <1>2, KindsFinite, FS_Product

\* A sum only depends on the terms.
LEMMA SumSame ==
    ASSUME NEW S, IsFiniteSet(S), NEW f, \A x \in S : f[x] \in Int, NEW g, \A x \in S : g[x] = f[x]
    PROVE  SumFunctionOnSet(g, S) = SumFunctionOnSet(f, S)
<1>1. PICK m : Weighs(m, f, S)
  BY WeightExists
<1>2. SumFunctionOnSet(f, S) = m[S]
  BY <1>1, SumIsWeight
<1>3. S \in SUBSET S
  OBVIOUS
<1>4. SumFunctionOnSet(g, S) = m[S]
  BY <1>1, <1>3, SumOnSubset
<1> QED
  BY <1>2, <1>4

CachedBlocks == UNION {Cached(k, c) : k \in Kinds, c \in Buckets}

\* A block in a list is in no other one, is in use, and has the list's size.
LEMMA CachedFacts ==
    ASSUME PoolTypeOK, ListsSorted, NEW k \in Kinds, NEW c \in Buckets, NEW b \in Cached(k, c)
    PROVE  /\ b \in Blocks \ UnusedBlocks /\ heap[b].capacity = c
           /\ \A j \in Kinds, d \in Buckets : b \in Cached(j, d) => j = k /\ d = c
<1>1. heap[b] = [kind |-> k, capacity |-> c]
  BY DEF ListsSorted
<1>2. free[k][c] \in Seq(Blocks) /\ IsInjective(free[k][c])
  BY ListsType
<1>3. b \in Blocks
  BY <1>2, ListFacts DEF Cached
<1>4. heap[b] # Unused
  BY <1>1, UnusedFacts
<1>5. ASSUME NEW j \in Kinds, NEW d \in Buckets, b \in Cached(j, d) PROVE j = k /\ d = c
  <2>1. heap[b] = [kind |-> j, capacity |-> d]
    BY <1>5 DEF ListsSorted
  <2>2. [kind |-> j, capacity |-> d] = [kind |-> k, capacity |-> c]
    BY <1>1, <2>1
  <2> QED
    BY <2>2
<1> QED
  BY <1>1, <1>3, <1>4, <1>5 DEF UnusedBlocks

\* What trim subtracts from bytes_cached, list by list, is what the blocks it
\* frees hold.
LEMMA TrimBytes ==
    ASSUME PoolTypeOK, ListsSorted,
           NEW f, \A b \in Blocks \ UnusedBlocks : f[b] = heap[b].capacity /\ f[b] \in Int
    PROVE  SumFunction([l \in Kinds \X Buckets |-> l[2] * Len(free[l[1]][l[2]])]) =
             SumFunctionOnSet(f, CachedBlocks)
<1> DEFINE I == Kinds \X Buckets
           S == Blocks \ UnusedBlocks
           part == [l \in I |-> Cached(l[1], l[2])]
           g == [l \in I |-> l[2] * Len(free[l[1]][l[2]])]
<1>1. IsFiniteSet(I) /\ IsFiniteSet(S)
  BY ListsFinite, BlocksFinite, FS_Subset
<1>2. part \in [I -> SUBSET S]
  BY CachedFacts
<1>3. \A i, j \in I : i # j => part[i] \cap part[j] = {}
  <2> SUFFICES ASSUME NEW i \in I, NEW j \in I, NEW b, b \in part[i], b \in part[j] PROVE i = j
    OBVIOUS
  <2>1. /\ b \in Cached(i[1], i[2]) /\ b \in Cached(j[1], j[2])
        /\ i[1] \in Kinds /\ j[1] \in Kinds /\ i[2] \in Buckets /\ j[2] \in Buckets
        /\ i = <<i[1], i[2]>> /\ j = <<j[1], j[2]>>
    OBVIOUS
  <2>2. j[1] = i[1] /\ j[2] = i[2]
    BY <2>1, CachedFacts
  <2> QED
    BY <2>1, <2>2
<1>4. ASSUME NEW l \in I PROVE g[l] = SumFunctionOnSet(f, part[l])
  <2>1. PICK k \in Kinds, c \in Buckets : l = <<k, c>>
    OBVIOUS
  <2>2. free[k][c] \in Seq(Blocks) /\ IsInjective(free[k][c])
    BY ListsType
  <2>3. IsFiniteSet(Cached(k, c)) /\ Cardinality(Cached(k, c)) = Len(free[k][c])
    BY <2>2, ListFacts DEF Cached
  <2>4. \A b \in Cached(k, c) : f[b] = c
    BY CachedFacts
  <2>5. SumFunctionOnSet(f, Cached(k, c)) = c * Cardinality(Cached(k, c))
    <3>1. c \in Int
      BY BucketAssumption
    <3> QED
      BY <2>3, <2>4, <3>1, SumConstant, Zenon
  <2>6. g[l] = c * Len(free[k][c]) /\ part[l] = Cached(k, c)
    BY <2>1
  <2> QED
    BY <2>3, <2>5, <2>6
<1>5. UNION {part[l] : l \in I} = CachedBlocks
  <2>1. \A k \in Kinds, c \in Buckets : part[<<k, c>>] = Cached(k, c) /\ <<k, c>> \in I
    OBVIOUS
  <2>2. \A l \in I : part[l] = Cached(l[1], l[2]) /\ l[1] \in Kinds /\ l[2] \in Buckets
    OBVIOUS
  <2> HIDE DEF part, I
  <2>3. \A b : b \in CachedBlocks <=> \E k \in Kinds, c \in Buckets : b \in Cached(k, c)
    BY DEF CachedBlocks
  <2>4. \A b : b \in UNION {part[l] : l \in I} <=> \E l \in I : b \in part[l]
    OBVIOUS
  <2>5. \A b : b \in UNION {part[l] : l \in I} <=> b \in CachedBlocks
    <3>1. ASSUME NEW b, NEW l \in I, b \in part[l] PROVE b \in CachedBlocks
      BY <2>2, <2>3, <3>1, Zenon
    <3>2. ASSUME NEW b, NEW k \in Kinds, NEW c \in Buckets, b \in Cached(k, c)
          PROVE  \E l \in I : b \in part[l]
      BY <2>1, <3>2, Zenon
    <3> QED
      BY <2>3, <2>4, <3>1, <3>2, Zenon
  <2> QED
    BY <2>5, Zenon
<1>6. SumFunction(g) = SumFunctionOnSet(g, I)
  <2>1. DOMAIN g = I
    OBVIOUS
  <2> HIDE DEF g, I
  <2> QED
    BY <2>1 DEF SumFunction
<1>7. \A b \in S : f[b] \in Int
  OBVIOUS
<1> HIDE DEF I, S, part, g
<1>8. SumFunctionOnSet(g, I) = SumFunctionOnSet(f, UNION {part[l] : l \in I})
  BY <1>1, <1>2, <1>3, <1>4, <1>7, SumByParts
<1> QED
  BY <1>5, <1>6, <1>8, Zenon DEF g, I

\* Trimming.
LEMMA TrimKeeps == ASSUME PoolInv, Trim PROVE PoolInv'
<1>0. PICK gone : gone = CachedBlocks
  OBVIOUS
<1>1. PoolTypeOK /\ ListsSorted /\ HandlesOwn /\ NoneLost /\ Gauges /\ PoolStaysSmall
  BY DEF PoolInv
<1>2. PICK freed : freed = SumFunction([l \in Kinds \X Buckets |-> l[2] * Len(free[l[1]][l[2]])])
  OBVIOUS
<1>3. /\ free' = [k \in Kinds |-> [c \in Buckets |-> <<>>]] /\ handle' = handle
      /\ heap' = [b \in Blocks |-> IF b \in gone THEN Unused ELSE heap[b]]
      /\ stats' = [stats EXCEPT !.bytes_cached = @ - freed]
  BY <1>0, <1>2 DEF Trim, CachedBlocks
<1>4. \A b : b \in gone <=> \E k \in Kinds, c \in Buckets : b \in Cached(k, c)
  BY <1>0 DEF CachedBlocks
<1>5. gone \subseteq Blocks \ UnusedBlocks
  BY <1>1, <1>4, CachedFacts
<1>6. BytesHeld' = BytesHeld - freed /\ freed \in Int /\ BytesHeld \in Int
  <2>1. PICK S, f : S = Blocks \ UnusedBlocks /\ f = [b \in S |-> heap[b].capacity]
    BY Zenon
  <2>2. PICK g : g = [b \in S \ gone |-> heap'[b].capacity]
    BY Zenon
  <2>3. Blocks \ UnusedBlocks' = S \ gone
    BY <1>3, <1>5, <2>1 DEF UnusedBlocks
  <2>4. IsFiniteSet(S) /\ gone \in SUBSET S /\ IsFiniteSet(S \ gone)
    BY <1>5, <2>1, BlocksFinite, FS_Subset
  <2>5. \A b \in S : f[b] = heap[b].capacity /\ f[b] \in Int
    <3> SUFFICES ASSUME NEW b \in S PROVE f[b] = heap[b].capacity /\ heap[b].capacity \in Int
      OBVIOUS
    <3>1. heap[b] \in [kind : Kinds, capacity : Buckets]
      BY <1>1, <2>1 DEF PoolTypeOK, UnusedBlocks
    <3>2. heap[b].capacity \in Buckets
      BY <3>1
    <3>3. \A d \in Buckets : d \in Int
      BY BucketAssumption
    <3>4. heap[b].capacity \in Int
      BY <3>2, <3>3, Zenon
    <3> QED
      BY <2>1, <3>4
  <2>6. \A b \in S \ gone : g[b] = f[b]
    BY <1>3, <2>1, <2>2, <2>5
  <2>7. BytesHeld = SumFunctionOnSet(f, S)
    <3>1. DOMAIN f = S /\ BytesHeld = SumFunction(f)
      BY <2>1 DEF BytesHeld
    <3> QED
      BY <3>1 DEF SumFunction
  <2>8. BytesHeld' = SumFunctionOnSet(g, S \ gone)
    <3>1. DOMAIN g = S \ gone /\ BytesHeld' = SumFunction(g)
      BY <2>2, <2>3 DEF BytesHeld
    <3> QED
      BY <3>1 DEF SumFunction
  <2>9. freed = SumFunctionOnSet(f, gone)
    BY <1>0, <1>1, <1>2, <2>1, <2>5, TrimBytes, Zenon
  <2>10. \A b \in S : f[b] \in Int
    BY <2>5
  <2>11. /\ SumFunctionOnSet(f, S) = SumFunctionOnSet(f, gone) + SumFunctionOnSet(f, S \ gone)
         /\ SumFunctionOnSet(f, gone) \in Int /\ SumFunctionOnSet(f, S \ gone) \in Int
    BY <2>4, <2>10, SumSplit
  <2>12. SumFunctionOnSet(g, S \ gone) = SumFunctionOnSet(f, S \ gone)
    BY <2>4, <2>6, <2>10, SumSame
  <2> QED
    BY <2>7, <2>8, <2>9, <2>11, <2>12
<1>7. \A k \in Kinds, c \in Buckets : free'[k][c] = <<>> /\ Cached(k, c)' = {}
  BY <1>3 DEF Cached, Range
<1>8. PoolTypeOK'
  <2>1. stats' \in [bytes_in_use : Int, bytes_cached : Int, live_handles : Int]
    <3>1. stats \in [bytes_in_use : Int, bytes_cached : Int, live_handles : Int]
      BY <1>1 DEF PoolTypeOK
    <3>2. stats' = [bytes_in_use |-> stats.bytes_in_use,
                    bytes_cached |-> stats.bytes_cached - freed,
                    live_handles |-> stats.live_handles]
      BY <1>3, <3>1
    <3>3. /\ stats.bytes_in_use \in Int /\ stats.bytes_cached - freed \in Int
          /\ stats.live_handles \in Int
      BY <1>6, <3>1
    <3> QED
      BY <3>2, <3>3
  <2>2. free' \in [Kinds -> [Buckets -> Seq(Blocks)]]
    BY <1>3
  <2>3. heap' \in [Blocks -> [kind : Kinds, capacity : Buckets] \union {Unused}]
    BY <1>1, <1>3 DEF PoolTypeOK
  <2> QED
    BY <1>1, <1>3, <2>1, <2>2, <2>3 DEF PoolTypeOK
<1>9. ListsSorted'
  <2>1. ASSUME NEW k \in Kinds, NEW c \in Buckets PROVE IsInjective(free'[k][c])
    BY <1>7 DEF IsInjective
  <2> QED
    BY <1>7, <2>1 DEF ListsSorted
<1>10. HandlesOwn'
  <2> SUFFICES ASSUME NEW t \in Callers, NEW k \in Kinds, Held(t, k) PROVE Owns(t, k)'
    BY <1>3 DEF HandlesOwn, Held
  <2>1. Owns(t, k) /\ handle[t][k].ptr \in Blocks
    BY <1>1, HeldFacts, SMTT(30) DEF HandlesOwn
  <2>2. handle[t][k].ptr \notin gone
    BY <1>4, <2>1 DEF Owns
  <2>3. heap'[handle[t][k].ptr] = heap[handle[t][k].ptr]
    BY <1>3, <2>1, <2>2, SMTT(30)
  <2> QED
    BY <1>3, <1>7, <2>1, <2>3 DEF Owns, Held
<1>11. NoneLost'
  <2> SUFFICES ASSUME NEW b \in Blocks, NEW k \in Kinds, NEW c \in Buckets,
                      heap'[b] = [kind |-> k, capacity |-> c]
               PROVE  \E t \in Callers : Held(t, k) /\ handle[t][k].ptr = b
    BY <1>3 DEF NoneLost, Held
  <2>1. b \notin gone /\ heap[b] = [kind |-> k, capacity |-> c]
    BY <1>3, UnusedFacts
  <2>2. b \notin Cached(k, c)
    BY <1>4, <2>1
  <2> QED
    BY <1>1, <2>1, <2>2 DEF NoneLost
<1>12. Gauges'
  <2>1. /\ stats'.live_handles = stats.live_handles
        /\ stats'.bytes_in_use = stats.bytes_in_use
        /\ stats'.bytes_cached = stats.bytes_cached - freed
        /\ stats.bytes_in_use \in Int /\ stats.bytes_cached \in Int
    BY <1>1, <1>3 DEF PoolTypeOK
  <2>2. stats'.bytes_cached + stats'.bytes_in_use = BytesHeld'
    BY <1>1, <1>6, <2>1 DEF Gauges
  <2>3. InUse(handle)' = InUse(handle) /\ BytesGiven(handle)' = BytesGiven(handle)
    BY <1>3 DEF InUse, BytesGiven
  <2> QED
    BY <1>1, <2>1, <2>2, <2>3 DEF Gauges
<1>13. PoolStaysSmall'
  <2> DEFINE S(k, c) == {b \in Blocks : heap[b] = [kind |-> k, capacity |-> c]}
  <2> SUFFICES ASSUME NEW k \in Kinds, NEW c \in Buckets
               PROVE  Cardinality(S(k, c)') <= Cardinality(Callers)
    BY DEF PoolStaysSmall
  <2>1. S(k, c)' \subseteq S(k, c)
    BY <1>3, UnusedFacts
  <2>2. Cardinality(S(k, c)) <= Cardinality(Callers)
    BY <1>1 DEF PoolStaysSmall
  <2>3. IsFiniteSet(S(k, c))
    BY BlocksFinite, FS_Subset
  <2>4. PICK A, B : A = S(k, c) /\ B = S(k, c)'
    BY Zenon
  <2> HIDE DEF S
  <2>5. Cardinality(B) <= Cardinality(A) /\ Cardinality(A) \in Nat /\ Cardinality(B) \in Nat
    BY <2>1, <2>3, <2>4, FS_Subset, FS_CardinalityType
  <2> QED
    BY <2>2, <2>4, <2>5, FS_CardinalityType, PoolAssumption, SMTT(30)
<1> QED
  BY <1>8, <1>9, <1>10, <1>11, <1>12, <1>13 DEF PoolInv

\* An empty pool.
LEMMA PoolStarts == PoolInit => PoolInv
<1> SUFFICES ASSUME PoolInit PROVE PoolInv
  OBVIOUS
<1>1. \A k \in Kinds, c \in Buckets : free[k][c] = <<>> /\ Cached(k, c) = {}
  BY DEF PoolInit, Cached, Range
<1>2. \A t \in Callers, k \in Kinds : ~Held(t, k)
  BY DEF PoolInit, Held
<1>3. \A b \in Blocks, k \in Kinds, c \in Buckets : heap[b] # [kind |-> k, capacity |-> c]
  BY UnusedFacts DEF PoolInit
<1>4. PoolTypeOK
  <2>1. handle \in Handles
    BY DEF PoolInit, Handles
  <2> QED
    BY <2>1 DEF PoolTypeOK, PoolInit
<1>5. ListsSorted
  <2>1. ASSUME NEW k \in Kinds, NEW c \in Buckets PROVE IsInjective(free[k][c])
    BY <1>1 DEF IsInjective
  <2> QED
    BY <1>1, <2>1 DEF ListsSorted
<1>6. HandlesOwn /\ NoneLost
  BY <1>2, <1>3 DEF HandlesOwn, NoneLost
<1>7. Gauges
  <2>1. InUse(handle) = {} /\ Blocks \ UnusedBlocks = {}
    BY DEF PoolInit, InUse, UnusedBlocks
  <2>2. ASSUME NEW f, DOMAIN f = {} PROVE SumFunction(f) = 0
    BY <2>2, SumEmpty DEF SumFunction
  <2>3. BytesGiven(handle) = 0 /\ BytesHeld = 0
    <3> DEFINE given == [h \in InUse(handle) |-> handle[h[1]][h[2]].capacity]
               held == [b \in Blocks \ UnusedBlocks |-> heap[b].capacity]
    <3>1. DOMAIN given = {} /\ DOMAIN held = {}
      BY <2>1
    <3> HIDE DEF given, held
    <3>2. SumFunction(given) = 0 /\ SumFunction(held) = 0
      BY <2>2, <3>1
    <3> QED
      BY <3>2 DEF BytesGiven, BytesHeld, given, held
  <2>4. Cardinality(InUse(handle)) = 0
    BY <2>1, FS_EmptySet
  <2>5. stats.live_handles = 0 /\ stats.bytes_in_use = 0 /\ stats.bytes_cached = 0
    BY DEF PoolInit
  <2> QED
    BY <2>3, <2>4, <2>5 DEF Gauges
<1>8. PoolStaysSmall
  <2> SUFFICES ASSUME NEW k \in Kinds, NEW c \in Buckets
               PROVE  Cardinality({b \in Blocks : heap[b] = [kind |-> k, capacity |-> c]})
                        <= Cardinality(Callers)
    BY DEF PoolStaysSmall
  <2>1. {b \in Blocks : heap[b] = [kind |-> k, capacity |-> c]} = {}
    BY <1>3
  <2>2. Cardinality({}) = 0 /\ Cardinality(Callers) \in Nat
    BY FS_EmptySet, FS_CardinalityType, PoolAssumption
  <2> QED
    BY <2>1, <2>2
<1> QED
  BY <1>4, <1>5, <1>6, <1>7, <1>8 DEF PoolInv

\* The invariant is about the pool only.
LEMMA PoolStutters == ASSUME PoolInv, UNCHANGED poolVars PROVE PoolInv'
<1>1. free' = free /\ heap' = heap /\ handle' = handle /\ stats' = stats
  BY DEF poolVars
<1>2. \A k, c : Cached(k, c)' = Cached(k, c)
  BY <1>1 DEF Cached
<1>3. \A t, k : Held(t, k)' = Held(t, k)
  BY <1>1 DEF Held
<1>4. PoolTypeOK' /\ ListsSorted' /\ NoneLost'
  BY <1>1, <1>2, <1>3, ZenonT(30) DEF PoolInv, PoolTypeOK, ListsSorted, NoneLost
<1>5. HandlesOwn'
  <2> SUFFICES ASSUME NEW t \in Callers, NEW k \in Kinds, Held(t, k)' PROVE Owns(t, k)'
    BY DEF HandlesOwn
  <2>1. Owns(t, k)
    BY <1>3 DEF PoolInv, HandlesOwn
  <2> QED
    BY <1>1, <1>2, <1>3, <2>1 DEF Owns
<1>6. Gauges' /\ PoolStaysSmall'
  BY <1>1, Zenon DEF PoolInv, Gauges, BytesGiven, BytesHeld, InUse, UnusedBlocks, PoolStaysSmall
<1> QED
  BY <1>4, <1>5, <1>6 DEF PoolInv

\* The invariant is what PoolAccounted says, and more.
LEMMA PoolGood == PoolInv => PoolAccounted
<1> SUFFICES ASSUME PoolInv PROVE PoolAccounted
  OBVIOUS
<1>1. Live = InUse(handle)
  BY DEF Live, InUse
<1>2. ASSUME NEW h \in Live
      PROVE  /\ h[1] \in Callers /\ h[2] \in Kinds /\ h = <<h[1], h[2]>>
             /\ Held(h[1], h[2]) /\ Owns(h[1], h[2])
  BY DEF Live, Held, PoolInv, HandlesOwn
<1>3. ASSUME NEW h \in Live
      PROVE  LET b == handle[h[1]][h[2]].ptr IN
             /\ heap[b] = [kind |-> h[2], capacity |-> Capacity(h)]
             /\ \A k \in Kinds, c \in Buckets : b \notin Cached(k, c)
             /\ \A g \in Live \ {h} : handle[g[1]][g[2]].ptr # b
  <2>1. ASSUME NEW g \in Live, handle[g[1]][g[2]].ptr = handle[h[1]][h[2]].ptr PROVE g = h
    <3>1. /\ heap[handle[g[1]][g[2]].ptr] = [kind |-> g[2], capacity |-> Capacity(g)]
          /\ heap[handle[h[1]][h[2]].ptr] = [kind |-> h[2], capacity |-> Capacity(h)]
      BY <1>2, Zenon DEF Owns, Capacity
    <3>2. [kind |-> g[2], capacity |-> Capacity(g)] = [kind |-> h[2], capacity |-> Capacity(h)]
      BY <2>1, <3>1, Zenon
    <3>3. g[2] = h[2]
      BY <3>2
    <3>4. g[1] = h[1]
      <4>1. Owns(h[1], h[2]) /\ Held(g[1], h[2]) /\ g[1] \in Callers
        BY <1>2, <3>3
      <4>2. Held(g[1], h[2]) /\ g[1] # h[1] => handle[g[1]][h[2]].ptr # handle[h[1]][h[2]].ptr
        BY <4>1, Zenon DEF Owns
      <4> QED
        BY <2>1, <3>3, <4>1, <4>2
    <3> QED
      BY <1>2, <3>3, <3>4
  <2> QED
    BY <1>2, <2>1, Zenon DEF Owns, Capacity
<1>4. \A k \in Kinds, c \in Buckets :
          /\ IsInjective(free[k][c])
          /\ \A b \in Cached(k, c) : heap[b] = [kind |-> k, capacity |-> c]
  BY DEF PoolInv, ListsSorted
<1>5. /\ stats.live_handles = Cardinality(Live)
      /\ stats.bytes_in_use = SumFunction([h \in Live |-> Capacity(h)])
      /\ stats.bytes_cached + stats.bytes_in_use =
            SumFunction([b \in Blocks \ UnusedBlocks |-> heap[b].capacity])
  BY <1>1 DEF PoolInv, Gauges, BytesGiven, BytesHeld, Capacity
<1> QED
  BY <1>3, <1>4, <1>5, Zenon DEF PoolAccounted

\* An acquisition gives a block.
LEMMA GivesBlock ==
    ASSUME PoolInv, NEW t \in Callers, NEW kind \in Kinds, NEW n \in Sizes,
           AcquireCached(t, kind, n) \/ AcquireFresh(t, kind, n)
    PROVE  \E b \in Blocks : Give(t, kind, b, n)
<1>1. CASE AcquireCached(t, kind, n)
  <2>1. /\ free[kind][BucketFor(n)] \in Seq(Blocks) /\ IsInjective(free[kind][BucketFor(n)])
        /\ free[kind][BucketFor(n)] # <<>>
    BY <1>1, BucketOfSize, Zenon DEF PoolInv, PoolTypeOK, ListsSorted, AcquireCached
  <2>2. free[kind][BucketFor(n)][Len(free[kind][BucketFor(n)])] \in Blocks
    BY <2>1
  <2> QED
    BY <1>1, <2>2 DEF AcquireCached
<1>2. CASE AcquireFresh(t, kind, n)
  <2>1. UnusedBlocks \subseteq Nat /\ UnusedBlocks # {} /\ UnusedBlocks \subseteq Blocks
    BY <1>2, BlocksFinite DEF UnusedBlocks, AcquireFresh
  <2>2. Min(UnusedBlocks) \in Blocks
    BY <2>1, MinBelongs, Zenon
  <2> QED
    BY <1>2, <2>2 DEF AcquireFresh
<1> QED
  BY <1>1, <1>2
=============================================================================
