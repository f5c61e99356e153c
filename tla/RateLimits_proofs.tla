-------------------------- MODULE RateLimits_proofs --------------------------
(***************************************************************************)
(* Proofs about Counters and RateLimits, for any clients, dimensions,      *)
(* limits, networks, clock skew and lag, and any number of requests.       *)
(*                                                                         *)
(* In this order: finite sums and extrema; the rates rateLua returns are   *)
(* the sliding estimates over the requests (CountsTrue); the statistics    *)
(* behaviorLua keeps are those of the client's own requests in the order   *)
(* Redis saw them (RhythmInv), so that a steady client shows; and what     *)
(* Evaluate makes of both.                                                 *)
(***************************************************************************)
EXTENDS RateLimits, FiniteSetTheorems, TLAPS

------------------------------------------------------------------------------
(* Sums over finite sets, largest and smallest numbers *)

Pick(s) == CHOOSE x \in s : TRUE

\* g gives the sums of f over the subsets of T.
IsSum(g, f, T) ==
  g = [s \in SUBSET T |-> IF s = {} THEN 0 ELSE f[Pick(s)] + g[s \ {Pick(s)}]]

\* A member is picked, and without it less remains.
LEMMA Picked ==
  ASSUME NEW s, s # {}
  PROVE  Pick(s) \in s /\ s \ {Pick(s)} \subseteq s /\ s \ {Pick(s)} # s
BY DEF Pick

\* Of the subsets of a finite set that are in B one has no smaller one in B.
LEMMA Smallest ==
  ASSUME NEW S, IsFiniteSet(S), NEW B, B \subseteq SUBSET S, B # {}
  PROVE  \E T \in B : \A U \in SUBSET T : U # T => U \notin B
<1>1. IsWellFoundedOn(StrictSubsetOrdering(S), SUBSET S)
  BY FS_StrictSubsetOrderingWellFounded, FS_FiniteSubsetsOfFinite
<1>2. PICK T \in B : \A U \in B : <<U, T>> \notin StrictSubsetOrdering(S)
  BY <1>1, WFMin
<1>3. ASSUME NEW U \in SUBSET T, U # T, U \in B PROVE FALSE
  <2>1. <<U, T>> \in (SUBSET S) \X (SUBSET S)
    BY <1>3
  <2>2. <<U, T>> \in StrictSubsetOrdering(S)
    BY <1>3, <2>1 DEF StrictSubsetOrdering
  <2>3. QED
    BY <1>2, <1>3, <2>2
<1>4. QED
  BY <1>2, <1>3

\* Two functions that give the sums of f agree where both do.
LEMMA SumsAgree ==
  ASSUME NEW f, NEW S, IsFiniteSet(S), NEW A, NEW C, NEW g, NEW h,
         IsSum(g, f, A), IsSum(h, f, C), S \subseteq A, S \subseteq C
  PROVE  g[S] = h[S]
<1> DEFINE B == {T \in SUBSET S : g[T] # h[T]}
<1>1. SUFFICES ASSUME B # {} PROVE FALSE
  OBVIOUS
<1>2. PICK T \in B : \A U \in SUBSET T : U # T => U \notin B
  <2>1. B \subseteq SUBSET S
    OBVIOUS
  <2> HIDE DEF B
  <2>2. QED
    BY <1>1, <2>1, Smallest
<1>3. T \in SUBSET A /\ T \in SUBSET C /\ g[T] # h[T]
  OBVIOUS
<1>4. /\ g[T] = IF T = {} THEN 0 ELSE f[Pick(T)] + g[T \ {Pick(T)}]
      /\ h[T] = IF T = {} THEN 0 ELSE f[Pick(T)] + h[T \ {Pick(T)}]
  BY <1>3 DEF IsSum
<1>5. T # {} => g[T \ {Pick(T)}] = h[T \ {Pick(T)}]
  BY <1>2, Picked
<1>6. QED
  BY <1>3, <1>4, <1>5

\* A finite set has a function that gives the sums of f.
LEMMA SumExists ==
  ASSUME NEW f, NEW S, IsFiniteSet(S)
  PROVE  \E g : IsSum(g, f, S)
<1> DEFINE B == {T \in SUBSET S : ~ \E g : IsSum(g, f, T)}
<1>1. SUFFICES ASSUME B # {} PROVE FALSE
  OBVIOUS
<1>2. PICK T \in B : \A U \in SUBSET T : U # T => U \notin B
  <2>1. B \subseteq SUBSET S
    OBVIOUS
  <2> HIDE DEF B
  <2>2. QED
    BY <1>1, <2>1, Smallest
<1> DEFINE G(U) == CHOOSE g : IsSum(g, f, U)
           h == [U \in SUBSET T |->
                   IF U # T THEN G(U)[U]
                   ELSE IF T = {} THEN 0
                   ELSE f[Pick(T)] + G(T \ {Pick(T)})[T \ {Pick(T)}]]
<1>3. ASSUME NEW U \in SUBSET T, U # T PROVE IsSum(G(U), f, U)
  BY <1>2, <1>3
<1>4. ASSUME NEW U \in SUBSET T
      PROVE  h[U] = IF U = {} THEN 0 ELSE f[Pick(U)] + h[U \ {Pick(U)}]
  <2>1. CASE U = {} /\ U = T
    BY <2>1
  <2>2. CASE U = {} /\ U # T
    <3>1. IsSum(G(U), f, U)
      BY <1>3, <2>2
    <3>2. h[U] = G(U)[U]
      BY <2>2
    <3> HIDE DEF G
    <3>3. G(U)[U] = 0
      BY <2>2, <3>1 DEF IsSum
    <3>4. QED
      BY <2>2, <3>2, <3>3
  <2>3. CASE U # {}
    <3> DEFINE V == U \ {Pick(U)}
    <3>1. V \in SUBSET T /\ V # T /\ V \subseteq U /\ V # U
      BY <2>3, Picked
    <3>2. h[V] = G(V)[V] /\ IsSum(G(V), f, V)
      BY <1>3, <3>1
    <3>3. CASE U = T
      BY <2>3, <3>2, <3>3
    <3>4. CASE U # T
      <4>1. h[U] = G(U)[U] /\ IsSum(G(U), f, U)
        BY <1>3, <3>4
      <4> HIDE DEF G, h
      <4>2. G(U)[U] = f[Pick(U)] + G(U)[V]
        BY <2>3, <4>1 DEF IsSum
      <4>3. G(U)[V] = G(V)[V]
        <5>1. IsFiniteSet(V)
          BY <3>1, FS_Subset
        <5>2. QED
          BY <3>1, <3>2, <4>1, <5>1, SumsAgree
      <4>4. QED
        BY <2>3, <3>2, <4>1, <4>2, <4>3
    <3>5. QED
      BY <3>3, <3>4
  <2>4. QED
    BY <2>1, <2>2, <2>3
<1>5. IsSum(h, f, T)
  <2>1. h = [U \in SUBSET T |-> h[U]]
    OBVIOUS
  <2> HIDE DEF h
  <2>2. QED
    BY <1>4, <2>1 DEF IsSum
<1>6. QED
  BY <1>2, <1>5

\* What SumFunctionOnSet computes.
LEMMA SumIs ==
  ASSUME NEW f, NEW S, IsFiniteSet(S)
  PROVE  \E g : /\ IsSum(g, f, S)
                /\ \A T \in SUBSET S : SumFunctionOnSet(f, T) = g[T]
<1> DEFINE G(T) == CHOOSE g : IsSum(g, f, T)
<1>1. ASSUME NEW T \in SUBSET S
      PROVE  IsSum(G(T), f, T) /\ SumFunctionOnSet(f, T) = G(T)[T]
  <2>1. IsSum(G(T), f, T)
    BY SumExists, FS_Subset
  <2>2. SumFunctionOnSet(f, T) = G(T)[T]
    BY DEF SumFunctionOnSet, FoldFunctionOnSet, MapThenFoldSet, IsSum, Pick
  <2>3. QED
    BY <2>1, <2>2
<1> HIDE DEF G
<1>2. ASSUME NEW T \in SUBSET S PROVE G(T)[T] = G(S)[T]
  <2>1. IsFiniteSet(T) /\ IsSum(G(T), f, T) /\ IsSum(G(S), f, S)
    BY <1>1, FS_Subset
  <2>2. QED
    BY <2>1, SumsAgree
<1>3. QED
  BY <1>1, <1>2

\* A sum of natural numbers is one.
LEMMA SumOfNaturals ==
  ASSUME NEW f, NEW S, IsFiniteSet(S), \A x \in S : f[x] \in Nat
  PROVE  SumFunctionOnSet(f, S) \in Nat
<1>1. PICK g : /\ IsSum(g, f, S)
               /\ \A T \in SUBSET S : SumFunctionOnSet(f, T) = g[T]
  BY SumIs
<1> DEFINE B == {T \in SUBSET S : g[T] \notin Nat}
<1>2. SUFFICES ASSUME B # {} PROVE FALSE
  BY <1>1
<1>3. PICK T \in B : \A U \in SUBSET T : U # T => U \notin B
  <2>1. B \subseteq SUBSET S
    OBVIOUS
  <2> HIDE DEF B
  <2>2. QED
    BY <1>2, <2>1, Smallest
<1>4. g[T] = IF T = {} THEN 0 ELSE f[Pick(T)] + g[T \ {Pick(T)}]
  BY <1>1 DEF IsSum
<1>5. T # {} => f[Pick(T)] \in Nat /\ g[T \ {Pick(T)}] \in Nat
  BY <1>3, Picked
<1>6. QED
  BY <1>4, <1>5

\* A sum does not depend on the order.
LEMMA SumWithout ==
  ASSUME NEW f, NEW S, IsFiniteSet(S), \A x \in S : f[x] \in Nat, NEW x \in S
  PROVE  SumFunctionOnSet(f, S) = f[x] + SumFunctionOnSet(f, S \ {x})
<1>1. PICK g : /\ IsSum(g, f, S)
               /\ \A T \in SUBSET S : SumFunctionOnSet(f, T) = g[T]
  BY SumIs
<1>2. ASSUME NEW T \in SUBSET S PROVE g[T] \in Nat
  BY <1>1, FS_Subset, SumOfNaturals
<1> DEFINE B == {T \in SUBSET S : \E y \in T : g[T] # f[y] + g[T \ {y}]}
<1>3. SUFFICES ASSUME B # {} PROVE FALSE
  <2>1. CASE B = {}
    <3>1. S \in SUBSET S /\ S \notin B
      BY <2>1
    <3>2. g[S] = f[x] + g[S \ {x}]
      BY <3>1
    <3>3. SumFunctionOnSet(f, S) = g[S] /\ SumFunctionOnSet(f, S \ {x}) = g[S \ {x}]
      BY <1>1
    <3>4. QED
      BY <3>2, <3>3
  <2>2. QED
    BY <2>1
<1>4. PICK T \in B : \A U \in SUBSET T : U # T => U \notin B
  <2>1. B \subseteq SUBSET S
    OBVIOUS
  <2> HIDE DEF B
  <2>2. QED
    BY <1>3, <2>1, Smallest
<1>5. PICK y \in T : g[T] # f[y] + g[T \ {y}]
  OBVIOUS
<1> DEFINE c == Pick(T)
<1>6. T # {} /\ c \in T
  BY <1>5, Picked
<1>7. g[T] = f[c] + g[T \ {c}]
  BY <1>1, <1>6 DEF IsSum
<1>8. y # c
  BY <1>5, <1>7
<1> HIDE DEF c
<1>9. g[T \ {c}] = f[y] + g[(T \ {c}) \ {y}]
  <2>1. T \ {c} \in SUBSET T /\ T \ {c} # T /\ y \in T \ {c}
    BY <1>6, <1>8
  <2>2. QED
    BY <1>4, <2>1
<1>10. g[T \ {y}] = f[c] + g[(T \ {y}) \ {c}]
  <2>1. T \ {y} \in SUBSET T /\ T \ {y} # T /\ c \in T \ {y}
    BY <1>6, <1>8
  <2>2. QED
    BY <1>4, <2>1
<1>11. (T \ {c}) \ {y} = (T \ {y}) \ {c}
  OBVIOUS
<1>12. f[c] \in Nat /\ f[y] \in Nat /\ g[(T \ {y}) \ {c}] \in Nat
  BY <1>2, <1>6
<1> DEFINE fc == f[c]
           fy == f[y]
           rest == g[(T \ {y}) \ {c}]
<1>13. g[T] = fc + (fy + rest) /\ g[T \ {y}] = fc + rest
  BY <1>7, <1>9, <1>10, <1>11, Zenon
<1>14. fc \in Nat /\ fy \in Nat /\ rest \in Nat
  BY <1>12
<1>15. g[T] # fy + g[T \ {y}]
  BY <1>5
<1> HIDE DEF fc, fy, rest
<1>16. QED
  BY <1>13, <1>14, <1>15

\* The sum of nothing.
LEMMA SumEmpty ==
  ASSUME NEW f
  PROVE  SumFunctionOnSet(f, {}) = 0
<1>1. PICK g : IsSum(g, f, {}) /\ \A T \in SUBSET {} : SumFunctionOnSet(f, T) = g[T]
  BY SumIs, FS_EmptySet
<1>2. QED
  BY <1>1 DEF IsSum

\* The sum with one element more.
LEMMA SumAdd ==
  ASSUME NEW f, NEW S, IsFiniteSet(S), NEW x, x \notin S, \A y \in S \cup {x} : f[y] \in Nat
  PROVE  SumFunctionOnSet(f, S \cup {x}) = SumFunctionOnSet(f, S) + f[x]
<1> DEFINE T == S \cup {x}
<1>1. IsFiniteSet(T)
  BY FS_AddElement
<1>2. x \in T /\ T \ {x} = S /\ \A y \in T : f[y] \in Nat
  OBVIOUS
<1>3. SumFunctionOnSet(f, S) \in Nat /\ f[x] \in Nat
  BY SumOfNaturals
<1> HIDE DEF T
<1>4. SumFunctionOnSet(f, T) = f[x] + SumFunctionOnSet(f, T \ {x})
  BY <1>1, <1>2, SumWithout
<1>5. SumFunctionOnSet(f, T) = SumFunctionOnSet(f, S) + f[x]
  BY <1>2, <1>3, <1>4
<1>6. QED
  BY <1>5 DEF T

\* Functions with the same values have the same sum.
LEMMA SumSame ==
  ASSUME NEW f, NEW g, NEW S, IsFiniteSet(S), \A x \in S : f[x] = g[x]
  PROVE  SumFunctionOnSet(f, S) = SumFunctionOnSet(g, S)
<1>1. PICK F : IsSum(F, f, S) /\ \A T \in SUBSET S : SumFunctionOnSet(f, T) = F[T]
  BY SumIs
<1>2. PICK G : IsSum(G, g, S) /\ \A T \in SUBSET S : SumFunctionOnSet(g, T) = G[T]
  BY SumIs
<1> DEFINE B == {T \in SUBSET S : F[T] # G[T]}
<1>3. SUFFICES ASSUME B # {} PROVE FALSE
  BY <1>1, <1>2
<1>4. PICK T \in B : \A U \in SUBSET T : U # T => U \notin B
  <2>1. B \subseteq SUBSET S
    OBVIOUS
  <2> HIDE DEF B
  <2>2. QED
    BY <1>3, <2>1, Smallest
<1>5. T \in SUBSET S /\ F[T] # G[T]
  OBVIOUS
<1>6. /\ F[T] = IF T = {} THEN 0 ELSE f[Pick(T)] + F[T \ {Pick(T)}]
      /\ G[T] = IF T = {} THEN 0 ELSE g[Pick(T)] + G[T \ {Pick(T)}]
  BY <1>1, <1>2, <1>5 DEF IsSum
<1>7. T # {} => F[T \ {Pick(T)}] = G[T \ {Pick(T)}] /\ f[Pick(T)] = g[Pick(T)]
  BY <1>4, Picked
<1>8. QED
  BY <1>5, <1>6, <1>7

\* The sum of equal numbers is a product.
LEMMA SumConstant ==
  ASSUME NEW f, NEW S, IsFiniteSet(S), NEW d \in Nat, \A x \in S : f[x] = d
  PROVE  SumFunctionOnSet(f, S) = Cardinality(S) * d
<1>1. PICK F : IsSum(F, f, S) /\ \A T \in SUBSET S : SumFunctionOnSet(f, T) = F[T]
  BY SumIs
<1> DEFINE B == {T \in SUBSET S : F[T] # Cardinality(T) * d}
<1>2. SUFFICES ASSUME B # {} PROVE FALSE
  BY <1>1
<1>3. PICK T \in B : \A U \in SUBSET T : U # T => U \notin B
  <2>1. B \subseteq SUBSET S
    OBVIOUS
  <2> HIDE DEF B
  <2>2. QED
    BY <1>2, <2>1, Smallest
<1>4. T \in SUBSET S /\ F[T] # Cardinality(T) * d
  OBVIOUS
<1>5. F[T] = IF T = {} THEN 0 ELSE f[Pick(T)] + F[T \ {Pick(T)}]
  BY <1>1, <1>4 DEF IsSum
<1>6. CASE T = {}
  BY <1>4, <1>5, <1>6, FS_EmptySet
<1>7. CASE T # {}
  <2> DEFINE U == T \ {Pick(T)}
             k == Cardinality(U)
  <2>1. U \in SUBSET T /\ U # T /\ Pick(T) \in T /\ Pick(T) \notin U /\ T = U \cup {Pick(T)}
    BY <1>7, Picked
  <2>2. F[U] = k * d /\ f[Pick(T)] = d
    BY <1>3, <1>4, <2>1
  <2>3. IsFiniteSet(U)
    BY <1>4, <2>1, FS_Subset
  <2>4. k \in Nat /\ Cardinality(T) = k + 1
    <3> HIDE DEF U
    <3>1. QED
      BY <2>1, <2>3, FS_AddElement, FS_CardinalityType
  <2>5. F[T] = d + k * d
    BY <1>5, <1>7, <2>2
  <2> HIDE DEF k
  <2>6. (k + 1) * d = d + k * d
    BY <2>4
  <2>7. QED
    BY <1>4, <2>4, <2>5, <2>6
<1>8. QED
  BY <1>6, <1>7

------------------------------------------------------------------------------
(* The least and the largest number of a finite set *)

\* A finite set of integers that is not empty has a largest one.
LEMMA HasMax ==
  ASSUME NEW S \in SUBSET Int, IsFiniteSet(S), S # {}
  PROVE  Max(S) \in S /\ \A y \in S : Max(S) >= y
<1> DEFINE Has(T) == \E x \in T : \A y \in T : x >= y
           B == {T \in SUBSET S : T # {} /\ ~Has(T)}
<1>1. ASSUME B # {} PROVE FALSE
  <2>1. PICK T \in B : \A U \in SUBSET T : U # T => U \notin B
    <3>1. B \subseteq SUBSET S
      OBVIOUS
    <3> HIDE DEF B
    <3>2. QED
      BY <1>1, <3>1, Smallest
  <2>2. PICK x \in T : TRUE
    OBVIOUS
  <2>3. T \subseteq Int /\ T \ {x} \in SUBSET T /\ T \ {x} # T /\ ~Has(T)
    BY <2>2
  <2>4. CASE T = {x}
    BY <2>2, <2>3, <2>4
  <2>5. CASE T # {x}
    <3>1. T \ {x} # {}
      BY <2>2, <2>5
    <3>2. Has(T \ {x})
      BY <2>1, <2>3, <3>1
    <3>3. PICK z \in T \ {x} : \A y \in T \ {x} : z >= y
      BY <3>2
    <3>4. (\A y \in T : z >= y) \/ (\A y \in T : x >= y)
      BY <2>2, <2>3, <3>3
    <3>5. QED
      BY <2>2, <2>3, <3>3, <3>4
  <2>6. QED
    BY <2>4, <2>5
<1>2. Has(S)
  <2>1. B = {}
    BY <1>1
  <2>2. QED
    BY <2>1
<1>3. QED
  BY <1>2 DEF Max

\* And a smallest one.
LEMMA HasMin ==
  ASSUME NEW S \in SUBSET Int, IsFiniteSet(S), S # {}
  PROVE  Min(S) \in S /\ \A y \in S : Min(S) =< y
<1> DEFINE Has(T) == \E x \in T : \A y \in T : x =< y
           B == {T \in SUBSET S : T # {} /\ ~Has(T)}
<1>1. ASSUME B # {} PROVE FALSE
  <2>1. PICK T \in B : \A U \in SUBSET T : U # T => U \notin B
    <3>1. B \subseteq SUBSET S
      OBVIOUS
    <3> HIDE DEF B
    <3>2. QED
      BY <1>1, <3>1, Smallest
  <2>2. PICK x \in T : TRUE
    OBVIOUS
  <2>3. T \subseteq Int /\ T \ {x} \in SUBSET T /\ T \ {x} # T /\ ~Has(T)
    BY <2>2
  <2>4. CASE T = {x}
    BY <2>2, <2>3, <2>4
  <2>5. CASE T # {x}
    <3>1. T \ {x} # {}
      BY <2>2, <2>5
    <3>2. Has(T \ {x})
      BY <2>1, <2>3, <3>1
    <3>3. PICK z \in T \ {x} : \A y \in T \ {x} : z =< y
      BY <3>2
    <3>4. (\A y \in T : z =< y) \/ (\A y \in T : x =< y)
      BY <2>2, <2>3, <3>3
    <3>5. QED
      BY <2>2, <2>3, <3>3, <3>4
  <2>6. QED
    BY <2>4, <2>5
<1>2. Has(S)
  <2>1. B = {}
    BY <1>1
  <2>2. QED
    BY <2>1
<1>3. QED
  BY <1>2 DEF Min

\* The largest number, when it is known.
LEMMA LargestIs ==
  ASSUME NEW S \in SUBSET Int, NEW x \in S, \A y \in S : x >= y
  PROVE  Max(S) = x
<1>1. Max(S) \in S /\ \A y \in S : Max(S) >= y
  BY DEF Max
<1>2. Max(S) >= x /\ x >= Max(S) /\ Max(S) \in Int /\ x \in Int
  BY <1>1
<1>3. QED
  BY <1>2

\* The smallest number, when it is known.
LEMMA SmallestIs ==
  ASSUME NEW S \in SUBSET Int, NEW x \in S, \A y \in S : x =< y
  PROVE  Min(S) = x
<1>1. Min(S) \in S /\ \A y \in S : Min(S) =< y
  BY DEF Min
<1>2. Min(S) =< x /\ x =< Min(S) /\ Min(S) \in Int /\ x \in Int
  BY <1>1
<1>3. QED
  BY <1>2

------------------------------------------------------------------------------
(* The rates *)

\* The first moment at which a bucket b may have expired.
GoneAt(b) == (b + 2) * Window - MaxSkew

\* A bucket counts the requests of its key and its time, or has none to count,
\* or is too old for any request to come.
BucketTrue(k, b) ==
  IF <<k, b>> \in DOMAIN bucket
  THEN /\ bucket[<<k, b>>].n = Requested(k, b)
       /\ bucket[<<k, b>>].exp \in Int /\ bucket[<<k, b>>].exp >= GoneAt(b)
  ELSE Requested(k, b) = 0 \/ clock >= GoneAt(b)

\* The types of the state, as far as the rates need them.
Typed ==
  /\ clock \in Nat /\ clock > MaxLag
  /\ Len(log) \in Nat /\ log = [i \in 1 .. Len(log) |-> log[i]]
  /\ \A i \in 1 .. Len(log) : /\ log[i].sig \in Signal /\ log[i].now \in Nat
                              /\ log[i].at \in Nat /\ log[i].at =< clock
                              /\ log[i].rates \in [Keys(log[i].sig) -> Nat] \cup {NoRates}

\* The inductive invariant.
CountsTrue == /\ Typed
              /\ \A k \in AllKeys, b \in Int : BucketTrue(k, b)
              /\ RatesAreCounts

------------------------------------------------------------------------------
(* Counting requests *)

\* Whether request e is one of key k in bucket b.
Matches(e, k, b) == BucketOf(e.now) = b /\ k \in Keys(e.sig)

\* The same number for any log, and what RatesAreCounts says of entry e of log l.
RequestedIn(l, k, b) ==
  Cardinality({i \in DOMAIN l : BucketOf(l[i].now) = b /\ k \in Keys(l[i].sig)})

RateRight(e, l, k) ==
  LET before == RequestedIn(l, k, BucketOf(e.now) - 1)
      exact == Estimate(RequestedIn(l, k, BucketOf(e.now)), before, e.now)
  IN  e.rates[k] \in exact - before * (MaxSkew + MaxLag) .. exact

\* What Append does to a log, whatever its entries are made of.
LEMMA OneMore ==
  ASSUME NEW s, NEW r, Len(s) \in Nat, s = [n \in 1 .. Len(s) |-> s[n]]
  PROVE  LET t == Append(s, r)
         IN  /\ Len(t) = Len(s) + 1 /\ DOMAIN t = 1 .. Len(t)
             /\ t = [n \in 1 .. Len(t) |-> t[n]]
             /\ \A n \in 1 .. Len(s) : t[n] = s[n]
             /\ t[Len(s) + 1] = r
<1> DEFINE T == {s[n] : n \in 1 .. Len(s)} \cup {r}
<1>1. s \in [1 .. Len(s) -> T]
  OBVIOUS
<1>2. s \in Seq(T)
  BY <1>1
<1>3. r \in T
  OBVIOUS
<1> HIDE DEF T
<1> DEFINE t == Append(s, r)
<1>4. /\ t \in Seq(T) /\ Len(t) = Len(s) + 1
      /\ \A n \in 1 .. Len(s) : t[n] = s[n]
      /\ t[Len(s) + 1] = r
  BY <1>2, <1>3
<1> HIDE DEF t
<1>5. DOMAIN t = 1 .. Len(t) /\ t \in [1 .. Len(t) -> T]
  BY <1>4
<1>6. t = [n \in 1 .. Len(t) |-> t[n]]
  BY <1>5
<1>7. QED
  BY <1>4, <1>5, <1>6 DEF t

\* The number of requests is one, and finite sets of requests stay so.
LEMMA RequestedCounts ==
  ASSUME Typed, NEW k, NEW b
  PROVE  /\ IsFiniteSet({i \in DOMAIN log : Matches(log[i], k, b)})
         /\ Requested(k, b) = Cardinality({i \in DOMAIN log : Matches(log[i], k, b)})
         /\ Requested(k, b) \in Nat
<1> DEFINE S == {i \in DOMAIN log : Matches(log[i], k, b)}
<1>1. Requested(k, b) = Cardinality(S)
  BY DEF Requested, Matches
<1>2. S \subseteq 1 .. Len(log)
  BY DEF Typed
<1>3. IsFiniteSet(1 .. Len(log))
  <2>1. 1 \in Int /\ Len(log) \in Int
    BY DEF Typed
  <2>2. QED
    BY <2>1, FS_Interval
<1> HIDE DEF S
<1>4. IsFiniteSet(S)
  BY <1>2, <1>3, FS_Subset
<1>5. QED
  BY <1>1, <1>4, FS_CardinalityType DEF S

\* A request more counts for its own keys in its own bucket.
LEMMA RequestMore ==
  ASSUME Typed, NEW e, log' = Append(log, e), NEW k, NEW b
  PROVE  /\ Matches(e, k, b) => Requested(k, b)' = Requested(k, b) + 1
         /\ ~Matches(e, k, b) => Requested(k, b)' = Requested(k, b)
<1> DEFINE S == {i \in DOMAIN log : Matches(log[i], k, b)}
           S1 == {i \in DOMAIN log' : Matches(log'[i], k, b)}
           last == Len(log) + 1
           more == Append(log, e)
<1>1. Len(log) \in Nat /\ log = [i \in 1 .. Len(log) |-> log[i]] /\ DOMAIN log = 1 .. Len(log)
  BY DEF Typed
<1>2. /\ Len(more) = Len(log) + 1 /\ DOMAIN more = 1 .. Len(more)
      /\ \A i \in 1 .. Len(log) : more[i] = log[i]
      /\ more[Len(log) + 1] = e
  BY <1>1, OneMore
<1>3. more = log'
  OBVIOUS
<1> HIDE DEF more
<1>4. /\ DOMAIN log' = (1 .. Len(log)) \cup {last} /\ last \notin 1 .. Len(log)
      /\ \A i \in 1 .. Len(log) : log'[i] = log[i]
      /\ log'[last] = e
  BY <1>1, <1>2, <1>3
<1>5. last \notin S
  BY <1>1, <1>4
<1>6. Requested(k, b)' = Cardinality(S1)
  BY DEF Requested, Matches, BucketOf
<1>7. Requested(k, b) = Cardinality(S) /\ IsFiniteSet(S)
  BY RequestedCounts
<1>8. ASSUME Matches(e, k, b) PROVE S1 = S \cup {last}
  BY <1>1, <1>4, <1>8 DEF Matches
<1>9. ASSUME ~Matches(e, k, b) PROVE S1 = S
  BY <1>1, <1>4, <1>9 DEF Matches
<1> HIDE DEF S, S1, last
<1>10. Cardinality(S \cup {last}) = Cardinality(S) + 1
  BY <1>5, <1>7, FS_AddElement
<1>11. QED
  BY <1>6, <1>7, <1>8, <1>9, <1>10

------------------------------------------------------------------------------
(* Time *)

\* What the constants of time are.
LEMMA Constants ==
  /\ Window \in Nat \ {0} /\ MaxSkew \in Nat /\ MaxLag \in Nat
  /\ MaxSkew + MaxLag < Window
BY TimeAssumption

\* The time a request works with, in buckets.
LEMMA InBucket ==
  ASSUME NEW now \in Nat
  PROVE  /\ BucketOf(now) \in Nat /\ now % Window \in 0 .. Window - 1
         /\ now = Window * BucketOf(now) + (now % Window)
BY Constants DEF BucketOf

\* When a request is counted its bucket has not expired, a new one lives long
\* enough, and if the one before has expired the window has moved past it but
\* for the clocks.
LEMMA InTime ==
  ASSUME Typed, NEW now \in Times
  PROVE  /\ now \in Nat
         /\ clock < GoneAt(BucketOf(now))
         /\ clock + 2 * Window \in Int /\ clock + 2 * Window >= GoneAt(BucketOf(now))
         /\ clock >= GoneAt(BucketOf(now) - 1)
              => Window - (now % Window) =< MaxSkew + MaxLag
<1>1. now \in Nat /\ clock \in Nat /\ clock - MaxLag =< now /\ now =< clock + MaxSkew
  BY Constants DEF Typed, Times
<1> DEFINE q == BucketOf(now)
           r == now % Window
           m == Window * q
<1>2. q \in Nat /\ r \in 0 .. Window - 1 /\ now = m + r
  BY <1>1, InBucket
<1> HIDE DEF q, r
<1>3. /\ GoneAt(q) = m + 2 * Window - MaxSkew
      /\ GoneAt(q - 1) = m + Window - MaxSkew
      /\ m \in Nat
  BY <1>2, Constants DEF GoneAt
<1> HIDE DEF m
<1>4. /\ clock < GoneAt(q) /\ clock + 2 * Window >= GoneAt(q)
      /\ clock >= GoneAt(q - 1) => Window - r =< MaxSkew + MaxLag
  BY <1>1, <1>2, <1>3, Constants
<1>5. QED
  BY <1>1, <1>4, Constants DEF q, r

------------------------------------------------------------------------------
(* Steps *)

\* The keys of a client are among all keys.
LEMMA KeysOfClients ==
  ASSUME NEW s \in Signal, NEW k \in Keys(s)
  PROVE  k \in AllKeys
BY DEF AllKeys

\* rateLua for the keys of s: its buckets stay true ones.
LEMMA BucketsStayTrue ==
  ASSUME CountsTrue, NEW s \in Signal, NEW now \in Times, bucket' = Buckets(s, now),
         NEW e, e.sig = s, e.now = now, log' = Append(log, e), clock' = clock
  PROVE  \A k \in AllKeys, b \in Int : BucketTrue(k, b)'
<1> DEFINE at == BucketOf(now)
           touched == {<<k, at>> : k \in Keys(s)}
<1>1. Typed
  BY DEF CountsTrue
<1>2. /\ now \in Nat /\ clock < GoneAt(at) /\ clock + 2 * Window \in Int
      /\ clock + 2 * Window >= GoneAt(at) /\ at \in Nat /\ GoneAt(at) \in Int
      /\ clock \in Nat
  <2>1. now \in Nat
    BY <1>1, InTime
  <2>2. at \in Nat
    BY <2>1, InBucket
  <2>3. /\ clock < GoneAt(at) /\ clock + 2 * Window \in Int
        /\ clock + 2 * Window >= GoneAt(at)
    BY <1>1, InTime
  <2>4. GoneAt(at) \in Int
    <3> HIDE DEF at
    <3>1. (at + 2) * Window \in Int
      BY <2>2, Constants
    <3>2. QED
      BY <3>1, Constants DEF GoneAt
  <2>5. clock \in Nat
    BY <1>1 DEF Typed
  <2>6. QED
    BY <2>1, <2>2, <2>3, <2>4, <2>5
<1>3. bucket' = [x \in DOMAIN bucket \cup touched |->
                   IF x \in touched THEN Increment(x[1], x[2]) ELSE bucket[x]]
  BY DEF Buckets
<1> HIDE DEF at
<1>4. SUFFICES ASSUME NEW k \in AllKeys, NEW b \in Int PROVE BucketTrue(k, b)'
  OBVIOUS
<1>5. BucketTrue(k, b) /\ Requested(k, b) \in Nat
  BY <1>1, RequestedCounts DEF CountsTrue
<1>6. Matches(e, k, b) <=> <<k, b>> \in touched
  BY DEF Matches, at
<1>7. CASE <<k, b>> \in touched
  <2>1. b = at /\ Requested(k, b)' = Requested(k, b) + 1
    BY <1>1, <1>6, <1>7, RequestMore
  <2>2. <<k, b>> \in DOMAIN bucket' /\ bucket'[<<k, b>>] = Increment(k, b)
    BY <1>3, <1>7
  <2>3. CASE <<k, b>> \in DOMAIN bucket
    <3>1. /\ Increment(k, b) = [bucket[<<k, b>>] EXCEPT !.n = @ + 1]
          /\ bucket[<<k, b>>].n = Requested(k, b)
          /\ bucket[<<k, b>>].exp \in Int /\ bucket[<<k, b>>].exp >= GoneAt(b)
      BY <1>5, <2>3 DEF Increment, BucketTrue
    <3>2. QED
      BY <2>1, <2>2, <3>1 DEF BucketTrue
  <2>4. CASE <<k, b>> \notin DOMAIN bucket
    <3>1. Requested(k, b) = 0
      BY <1>2, <1>5, <2>1, <2>4 DEF BucketTrue
    <3>2. Increment(k, b).n = 1 /\ Increment(k, b).exp = clock + 2 * Window
      BY <2>4 DEF Increment
    <3>3. QED
      BY <1>2, <2>1, <2>2, <3>1, <3>2 DEF BucketTrue
  <2>5. QED
    BY <2>3, <2>4
<1>8. CASE <<k, b>> \notin touched
  <2>1. Requested(k, b)' = Requested(k, b)
    BY <1>1, <1>6, <1>8, RequestMore
  <2>2. /\ <<k, b>> \in DOMAIN bucket' <=> <<k, b>> \in DOMAIN bucket
        /\ <<k, b>> \in DOMAIN bucket => bucket'[<<k, b>>] = bucket[<<k, b>>]
    BY <1>3, <1>8
  <2>3. GoneAt(b)' = GoneAt(b)
    BY DEF GoneAt
  <2>4. CASE <<k, b>> \in DOMAIN bucket
    BY <1>5, <2>1, <2>2, <2>3, <2>4 DEF BucketTrue
  <2>5. CASE <<k, b>> \notin DOMAIN bucket
    BY <1>5, <2>1, <2>2, <2>3, <2>5 DEF BucketTrue
  <2>6. QED
    BY <2>4, <2>5
<1>9. QED
  BY <1>7, <1>8

\* What rateLua returns for a key, next to the requests it should count.
LEMMA RateIsCount ==
  ASSUME CountsTrue, NEW s \in Signal, NEW now \in Times, NEW k \in Keys(s),
         NEW e, e.sig = s, e.now = now, log' = Append(log, e)
  PROVE  LET before == Requested(k, BucketOf(now) - 1)'
             exact == Estimate(Requested(k, BucketOf(now))', before, now)
         IN  Rate(k, now) \in exact - before * (MaxSkew + MaxLag) .. exact
<1> DEFINE q == BucketOf(now)
           r == now % Window
           c == Requested(k, q)
           p == Requested(k, q - 1)
           slack == MaxSkew + MaxLag
<1>1. Typed /\ k \in AllKeys
  BY KeysOfClients DEF CountsTrue
<1>2. now \in Nat /\ q \in Nat /\ r \in 0 .. Window - 1 /\ clock < GoneAt(q)
  <2>1. now \in Nat /\ clock < GoneAt(q)
    BY <1>1, InTime
  <2>2. QED
    BY <2>1, InBucket
<1>3. c \in Nat /\ p \in Nat
  BY <1>1, RequestedCounts
<1>4. BucketTrue(k, q) /\ BucketTrue(k, q - 1)
  <2>1. q \in Int /\ q - 1 \in Int
    BY <1>2
  <2> HIDE DEF q
  <2>2. QED
    BY <1>1, <2>1 DEF CountsTrue
<1>5. CountIn(k, q) = c
  <2>1. GoneAt(q) \in Int /\ clock \in Int
    <3> HIDE DEF q
    <3>1. (q + 2) * Window \in Int
      BY <1>2, Constants
    <3>2. QED
      BY <1>1, <3>1, Constants DEF GoneAt, Typed
  <2> HIDE DEF q
  <2>2. QED
    BY <1>2, <1>4, <2>1 DEF BucketTrue, CountIn
<1>6. CountIn(k, q - 1) = p \/ (CountIn(k, q - 1) = 0 /\ Window - r =< slack)
  <2>1. clock >= GoneAt(q - 1) => Window - r =< slack
    BY <1>1, InTime
  <2> HIDE DEF q, r, slack
  <2>2. QED
    BY <1>4, <2>1 DEF BucketTrue, CountIn
<1>7. Requested(k, q)' = c + 1 /\ Requested(k, q - 1)' = p
  <2>1. Matches(e, k, q) /\ ~Matches(e, k, q - 1)
    BY <1>2 DEF Matches
  <2> HIDE DEF q
  <2>2. QED
    BY <1>1, <2>1, RequestMore
<1> HIDE DEF q, r, c, p, slack
<1> DEFINE y == CountIn(k, q - 1)
           w == Window - r
           x == (c + 1) * Window + p * w
<1>8. Rate(k, now) = (c + 1) * Window + y * w
  <2>1. Rate(k, now) = (CountIn(k, q) + 1) * Window + y * w
    BY DEF Rate, Estimate, q, r
  <2>2. QED
    BY <1>5, <2>1
<1>9. w \in Nat /\ (y = p \/ (y = 0 /\ w =< slack)) /\ slack \in Nat
  BY <1>2, <1>6, Constants DEF slack
<1>10. Rate(k, now) \in x - p * slack .. x
  <2> HIDE DEF y, w
  <2>1. p * w \in Nat /\ p * slack \in Nat /\ (c + 1) * Window \in Nat
    BY <1>3, <1>9, Constants
  <2>2. CASE y = p
    BY <1>8, <2>1, <2>2
  <2>3. CASE y = 0 /\ w =< slack
    <3>1. p * w =< p * slack /\ y * w = 0
      BY <1>3, <1>9, <2>3
    <3>2. QED
      BY <1>8, <2>1, <3>1
  <2>4. QED
    BY <1>9, <2>2, <2>3
<1> DEFINE before == Requested(k, BucketOf(now) - 1)'
           exact == Estimate(Requested(k, BucketOf(now))', before, now)
<1>11. before = p /\ exact = (c + 1) * Window + p * (Window - r)
  BY <1>7 DEF Estimate, q, r
<1>12. before = p /\ exact = x
  BY <1>11, Zenon
<1> HIDE DEF before, exact, x
<1>13. Rate(k, now) \in exact - before * slack .. exact
  BY <1>10, <1>12
<1>14. QED
  BY <1>13 DEF before, exact, slack

\* rateLua returns natural numbers, in units of 1 / Window.
LEMMA RateType ==
  ASSUME CountsTrue, NEW s \in Signal, NEW now \in Times, NEW k \in Keys(s)
  PROVE  Rate(k, now) \in Nat
<1>1. Typed /\ k \in AllKeys
  BY KeysOfClients DEF CountsTrue
<1>2. ASSUME NEW b \in Int PROVE CountIn(k, b) \in Nat
  <2>1. BucketTrue(k, b) /\ Requested(k, b) \in Nat
    BY <1>1, RequestedCounts DEF CountsTrue
  <2>2. QED
    BY <2>1 DEF BucketTrue, CountIn
<1> DEFINE q == BucketOf(now)
           c == CountIn(k, q) + 1
           p == CountIn(k, q - 1)
           w == Window - (now % Window)
<1>3. q \in Nat /\ w \in Nat
  <2>1. now \in Nat
    BY <1>1, InTime
  <2>2. q \in Nat /\ now % Window \in 0 .. Window - 1
    BY <2>1, InBucket
  <2> HIDE DEF q
  <2>3. QED
    BY <2>2, Constants
<1>4. c \in Nat /\ p \in Nat
  <2> HIDE DEF q
  <2>1. CountIn(k, q) \in Nat /\ CountIn(k, q - 1) \in Nat
    BY <1>2, <1>3
  <2>2. QED
    BY <2>1
<1>5. Rate(k, now) = c * Window + p * w
  BY DEF Rate, Estimate
<1> HIDE DEF c, p, w
<1>6. QED
  BY <1>3, <1>4, <1>5, Constants

\* The log after one of the three ways a request can end.
LEMMA CountsStayTrue ==
  ASSUME CountsTrue, NEW s \in Signal, NEW now \in Times, bucket' = Buckets(s, now),
         clock' = clock, NEW e, e.sig = s, e.now = now, e.at = clock,
         e.rates = NoRates \/ e.rates = [k \in Keys(s) |-> Rate(k, now)],
         log' = Append(log, e)
  PROVE  CountsTrue'
<1> DEFINE more == Append(log, e)
<1>1. /\ Typed /\ Len(log) \in Nat /\ log = [i \in 1 .. Len(log) |-> log[i]]
      /\ clock \in Nat
  BY DEF CountsTrue, Typed
<1>2. /\ Len(more) = Len(log) + 1 /\ DOMAIN more = 1 .. Len(more)
      /\ more = [i \in 1 .. Len(more) |-> more[i]]
      /\ \A i \in 1 .. Len(log) : more[i] = log[i]
      /\ more[Len(log) + 1] = e
  BY <1>1, OneMore
<1>3. log' = more
  OBVIOUS
<1> HIDE DEF more
<1>4. /\ Len(log') = Len(log) + 1 /\ log' = [i \in 1 .. Len(log') |-> log'[i]]
      /\ \A i \in 1 .. Len(log) : log'[i] = log[i]
      /\ log'[Len(log')] = e
  BY <1>2, <1>3
<1>5. Typed'
  <2>1. now \in Nat /\ e.rates \in [Keys(s) -> Nat] \cup {NoRates}
    BY <1>1, InTime, RateType
  <2>2. ASSUME NEW i \in 1 .. Len(log')
        PROVE  /\ log'[i].sig \in Signal /\ log'[i].now \in Nat
               /\ log'[i].at \in Nat /\ log'[i].at =< clock
               /\ log'[i].rates \in [Keys(log'[i].sig) -> Nat] \cup {NoRates}
    <3>1. CASE i = Len(log')
      BY <1>1, <1>4, <2>1, <3>1
    <3>2. CASE i \in 1 .. Len(log)
      BY <1>1, <1>4, <3>2 DEF Typed
    <3>3. QED
      BY <1>1, <1>4, <3>1, <3>2
  <2>3. QED
    BY <1>1, <1>4, <2>2 DEF Typed
<1>6. \A k \in AllKeys, b \in Int : BucketTrue(k, b)'
  BY BucketsStayTrue
<1>7. RatesAreCounts'
  <2>1. Last(log') = e
    BY <1>4 DEF Last
  <2>2. ASSUME e.rates # NoRates, NEW k \in DOMAIN e.rates
        PROVE  RateRight(e, log', k)
    <3>1. k \in Keys(s) /\ e.rates[k] = Rate(k, now)
      BY <2>2
    <3>2. LET before == Requested(k, BucketOf(now) - 1)'
              exact == Estimate(Requested(k, BucketOf(now))', before, now)
          IN  Rate(k, now) \in exact - before * (MaxSkew + MaxLag) .. exact
      BY <3>1, RateIsCount
    <3>3. \A b : Requested(k, b)' = RequestedIn(log', k, b)
      BY DEF Requested, RequestedIn, BucketOf
    <3>4. QED
      BY <3>1, <3>2, <3>3 DEF RateRight
  <2>3. Told' => \A k \in DOMAIN Last(log').rates : RateRight(Last(log'), log', k)
    BY <2>1, <2>2 DEF Told
  <2>4. QED
    BY <2>3 DEF RatesAreCounts, RateRight, Requested, RequestedIn
<1>8. QED
  BY <1>5, <1>6, <1>7 DEF CountsTrue

\* Time passes: what expires then is a bucket too old for any request.
LEMMA StepTick ==
  ASSUME CountsTrue, Tick
  PROVE  CountsTrue'
<1>1. /\ Typed /\ clock \in Nat /\ clock' = clock + 1 /\ log' = log
      /\ bucket' = [x \in {y \in DOMAIN bucket : clock' < bucket[y].exp} |-> bucket[x]]
  BY DEF CountsTrue, Typed, Tick
<1>2. Typed'
  <2>1. ASSUME NEW i \in 1 .. Len(log)
        PROVE  log[i].at \in Nat /\ log[i].at =< clock + 1
    BY <1>1 DEF Typed
  <2>2. clock + 1 \in Nat /\ clock + 1 > MaxLag
    BY <1>1, Constants DEF Typed
  <2>3. QED
    BY <1>1, <2>1, <2>2 DEF Typed
<1>3. ASSUME NEW k \in AllKeys, NEW b \in Int PROVE BucketTrue(k, b)'
  <2>1. BucketTrue(k, b)
    BY DEF CountsTrue
  <2>2. Requested(k, b)' = Requested(k, b) /\ GoneAt(b)' = GoneAt(b)
    BY <1>1 DEF Requested, BucketOf, GoneAt
  <2>3. GoneAt(b) \in Int
    <3>1. (b + 2) * Window \in Int
      BY Constants
    <3>2. QED
      BY <3>1, Constants DEF GoneAt
  <2>4. CASE <<k, b>> \in DOMAIN bucket /\ clock' < bucket[<<k, b>>].exp
    <3>1. <<k, b>> \in DOMAIN bucket' /\ bucket'[<<k, b>>] = bucket[<<k, b>>]
      BY <1>1, <2>4
    <3>2. QED
      BY <2>1, <2>2, <2>4, <3>1 DEF BucketTrue
  <2>5. CASE <<k, b>> \in DOMAIN bucket /\ ~(clock' < bucket[<<k, b>>].exp)
    <3>1. <<k, b>> \notin DOMAIN bucket'
      BY <1>1, <2>5
    <3>2. clock' >= GoneAt(b)
      BY <1>1, <2>1, <2>3, <2>5 DEF BucketTrue
    <3>3. QED
      BY <2>2, <3>1, <3>2 DEF BucketTrue
  <2>6. CASE <<k, b>> \notin DOMAIN bucket
    <3>1. <<k, b>> \notin DOMAIN bucket'
      BY <1>1, <2>6
    <3>2. Requested(k, b) = 0 \/ clock' >= GoneAt(b)
      BY <1>1, <2>1, <2>3, <2>6 DEF BucketTrue
    <3>3. QED
      BY <2>2, <3>1, <3>2 DEF BucketTrue
  <2>7. QED
    BY <2>4, <2>5, <2>6
<1>4. RatesAreCounts'
  <2>1. SUFFICES ASSUME Told' PROVE FALSE
    BY DEF RatesAreCounts
  <2>2. log # <<>> /\ log[Len(log)].at = clock + 1
    BY <1>1, <2>1 DEF Told, Last
  <2>3. Len(log) \in 1 .. Len(log)
    BY <1>1, <2>2 DEF Typed
  <2>4. log[Len(log)].at \in Nat /\ log[Len(log)].at =< clock
    BY <1>1, <2>3 DEF Typed
  <2>5. QED
    BY <1>1, <2>2, <2>4
<1>5. QED
  BY <1>2, <1>3, <1>4 DEF CountsTrue

\* The books of rateLua are right at the start and stay so.
THEOREM CountsInvariant == Spec => []CountsTrue
<1>1. Init => CountsTrue
  <2>1. SUFFICES ASSUME Init PROVE CountsTrue
    OBVIOUS
  <2>2. clock = MaxLag + 1 /\ bucket = [x \in {} |-> 0] /\ log = <<>>
    BY <2>1 DEF Init
  <2>3. Typed
    BY <2>2, Constants DEF Typed
  <2>4. ASSUME NEW k \in AllKeys, NEW b \in Int PROVE BucketTrue(k, b)
    <3>1. {i \in DOMAIN log : BucketOf(log[i].now) = b /\ k \in Keys(log[i].sig)} = {}
      BY <2>2
    <3>2. Requested(k, b) = 0
      BY <3>1, FS_EmptySet DEF Requested
    <3>3. <<k, b>> \notin DOMAIN bucket
      BY <2>2
    <3>4. QED
      BY <3>2, <3>3 DEF BucketTrue
  <2>5. RatesAreCounts
    BY <2>2 DEF RatesAreCounts, Told
  <2>6. QED
    BY <2>3, <2>4, <2>5 DEF CountsTrue
<1>2. CountsTrue /\ [Next]_cvars => CountsTrue'
  <2>1. SUFFICES ASSUME CountsTrue, [Next]_cvars PROVE CountsTrue'
    OBVIOUS
  <2>2. CASE Tick
    BY <2>1, <2>2, StepTick
  <2>3. ASSUME NEW s \in Signal, NEW now \in Times, Count(s, now)
        PROVE  CountsTrue'
    <3> DEFINE e == Entry(s, now, [k \in Keys(s) |-> Rate(k, now)], TRUE,
                          BehaviorHits(Observed(s, now)))
    <3>1. bucket' = Buckets(s, now) /\ clock' = clock /\ log' = Append(log, e)
      BY <2>3 DEF Count
    <3>2. /\ e.sig = s /\ e.now = now /\ e.at = clock
          /\ e.rates = [k \in Keys(s) |-> Rate(k, now)]
      BY DEF Entry
    <3> HIDE DEF e
    <3>3. QED
      BY <2>1, <3>1, <3>2, CountsStayTrue
  <2>4. ASSUME NEW s \in Signal, NEW now \in Times, CountRatesOnly(s, now)
        PROVE  CountsTrue'
    <3> DEFINE e == Entry(s, now, [k \in Keys(s) |-> Rate(k, now)], FALSE, {})
    <3>1. bucket' = Buckets(s, now) /\ clock' = clock /\ log' = Append(log, e)
      BY <2>4 DEF CountRatesOnly
    <3>2. /\ e.sig = s /\ e.now = now /\ e.at = clock
          /\ e.rates = [k \in Keys(s) |-> Rate(k, now)]
      BY DEF Entry
    <3> HIDE DEF e
    <3>3. QED
      BY <2>1, <3>1, <3>2, CountsStayTrue
  <2>5. ASSUME NEW s \in Signal, NEW now \in Times, CountUnanswered(s, now)
        PROVE  CountsTrue'
    <3> DEFINE e == Entry(s, now, NoRates, FALSE, {})
    <3>1. bucket' = Buckets(s, now) /\ clock' = clock /\ log' = Append(log, e)
      BY <2>5 DEF CountUnanswered
    <3>2. e.sig = s /\ e.now = now /\ e.at = clock /\ e.rates = NoRates
      BY DEF Entry
    <3> HIDE DEF e
    <3>3. QED
      BY <2>1, <3>1, <3>2, CountsStayTrue
  <2>6. CASE UNCHANGED cvars
    <3>1. clock' = clock /\ log' = log /\ bucket' = bucket
      BY <2>6 DEF cvars
    <3>2. Typed'
      BY <2>1, <3>1 DEF CountsTrue, Typed
    <3>3. \A k \in AllKeys, b \in Int : BucketTrue(k, b)'
      BY <2>1, <3>1 DEF CountsTrue, BucketTrue, GoneAt, Requested, BucketOf
    <3>4. RatesAreCounts'
      BY <2>1, <3>1 DEF CountsTrue, RatesAreCounts, Told, Requested, BucketOf, Estimate
    <3>5. QED
      BY <3>2, <3>3, <3>4 DEF CountsTrue
  <2>7. QED
    BY <2>1, <2>2, <2>3, <2>4, <2>5, <2>6 DEF Next
<1>3. QED
  BY <1>1, <1>2, PTL DEF Spec

\* Every rate that rateLua returns is the sliding estimate over the requests
\* of its key, but for what the clocks of instances and Redis differ by.
THEOREM RatesAreCountsHolds == Spec => []RatesAreCounts
<1>1. CountsTrue => RatesAreCounts
  BY DEF CountsTrue
<1>2. QED
  BY <1>1, CountsInvariant, PTL
------------------------------------------------------------------------------
(* Types *)

\* The keys in Redis, with the time of the last request that TypeOK leaves out.
KeysTyped ==
  /\ \A x \in DOMAIN bucket : /\ x[1] \in AllKeys /\ x[2] \in Nat
                              /\ bucket[x] \in [n : Nat \ {0}, exp : Nat]
  /\ \A id \in DOMAIN hash : /\ hash[id].n \in Nat \ {0} /\ hash[id].last \in Nat
                             /\ hash[id].dn \in 0 .. hash[id].n - 1
                             /\ {hash[id].dsum, hash[id].dsq} \subseteq Nat

\* rateLua leaves buckets of their type.
LEMMA BucketsTyped ==
  ASSUME Typed, KeysTyped, NEW s \in Signal, NEW now \in Times
  PROVE  \A x \in DOMAIN Buckets(s, now) :
            /\ x[1] \in AllKeys /\ x[2] \in Nat
            /\ Buckets(s, now)[x] \in [n : Nat \ {0}, exp : Nat]
<1> DEFINE touched == {<<k, BucketOf(now)>> : k \in Keys(s)}
           grown(x) == IF x \in touched THEN Increment(x[1], x[2]) ELSE bucket[x]
<1>1. BucketOf(now) \in Nat /\ clock + 2 * Window \in Nat
  <2>1. now \in Nat
    BY InTime
  <2>2. QED
    BY <2>1, InBucket, Constants DEF Typed
<1>2. Buckets(s, now) = [x \in DOMAIN bucket \cup touched |-> grown(x)]
  BY Zenon DEF Buckets
<1>3. ASSUME NEW x \in touched
      PROVE  x[1] \in AllKeys /\ x[2] \in Nat /\ Increment(x[1], x[2]) \in [n : Nat \ {0}, exp : Nat]
  <2>1. PICK k \in Keys(s) : x = <<k, BucketOf(now)>>
    OBVIOUS
  <2>2. k \in AllKeys
    BY KeysOfClients
  <2>3. CASE <<k, BucketOf(now)>> \in DOMAIN bucket
    <3>1. bucket[<<k, BucketOf(now)>>] \in [n : Nat \ {0}, exp : Nat]
      BY <2>3 DEF KeysTyped
    <3>2. QED
      BY <1>1, <2>1, <2>2, <2>3, <3>1 DEF Increment
  <2>4. CASE <<k, BucketOf(now)>> \notin DOMAIN bucket
    BY <1>1, <2>1, <2>2, <2>4 DEF Increment
  <2>5. QED
    BY <2>3, <2>4
<1>4. ASSUME NEW x \in DOMAIN bucket \cup touched
      PROVE  x[1] \in AllKeys /\ x[2] \in Nat /\ grown(x) \in [n : Nat \ {0}, exp : Nat]
  BY <1>3 DEF KeysTyped
<1> HIDE DEF touched, grown
<1>5. QED
  BY <1>2, <1>4

\* behaviorLua leaves statistics of their type: a gap more comes with a request
\* more.
LEMMA ObservedTyped ==
  ASSUME Typed, KeysTyped, NEW s \in Signal, NEW now \in Times
  PROVE  LET h == Observed(s, now)
         IN  /\ h.n \in Nat \ {0} /\ h.last \in Nat /\ h.dn \in 0 .. h.n - 1
             /\ {h.dsum, h.dsq} \subseteq Nat
<1> DEFINE h == StatsOf(Identity(s))
           d == now - h.last
           counts == h.last > 0 /\ d > 0 /\ d < MaxGap
<1>1. /\ now \in Nat
      /\ h.n \in Nat /\ h.last \in Nat /\ h.dn \in Nat /\ h.dsum \in Nat /\ h.dsq \in Nat
      /\ h.dn < h.n \/ (h.dn = 0 /\ h.n = 0 /\ h.last = 0)
  <2>1. now \in Nat
    BY InTime
  <2>2. CASE Identity(s) \in DOMAIN hash
    BY <2>1, <2>2 DEF KeysTyped, StatsOf
  <2>3. CASE Identity(s) \notin DOMAIN hash
    BY <2>1, <2>3 DEF StatsOf, NoStats
  <2>4. QED
    BY <2>2, <2>3
<1> HIDE DEF h
<1>2. counts => d \in Nat /\ d * d \in Nat
  <2>1. d \in Int
    BY <1>1
  <2> HIDE DEF d
  <2>2. QED
    BY <2>1
<1> DEFINE o == Observed(s, now)
<1>3. /\ o.n = h.n + 1 /\ o.last = now
      /\ o.dn = IF counts THEN h.dn + 1 ELSE h.dn
      /\ o.dsum = IF counts THEN h.dsum + d ELSE h.dsum
      /\ o.dsq = IF counts THEN h.dsq + d * d ELSE h.dsq
  BY DEF Observed, h
<1> HIDE DEF o
<1>4. counts => h.last > 0
  OBVIOUS
<1> HIDE DEF counts, d
<1>5. o.n \in Nat \ {0} /\ o.last \in Nat /\ o.dn \in 0 .. o.n - 1
  BY <1>1, <1>3, <1>4
<1>6. o.dsum \in Nat /\ o.dsq \in Nat
  BY <1>1, <1>2, <1>3
<1>7. QED
  BY <1>5, <1>6 DEF o

\* Every step keeps the types of the keys.
LEMMA KeysTypedStep == CountsTrue /\ KeysTyped /\ [Next]_cvars => KeysTyped'
<1> SUFFICES ASSUME CountsTrue, KeysTyped, [Next]_cvars PROVE KeysTyped'
  OBVIOUS
<1>1. Typed
  BY DEF CountsTrue
<1>2. CASE Tick
  BY <1>2 DEF Tick, KeysTyped, AllKeys
<1>3. ASSUME NEW s \in Signal, NEW now \in Times, bucket' = Buckets(s, now),
             \/ hash' = hash
             \/ hash' = Put(Identity(s), Observed(s, now))
      PROVE  KeysTyped'
  <2>1. \A x \in DOMAIN bucket' : /\ x[1] \in AllKeys /\ x[2] \in Nat
                                  /\ bucket'[x] \in [n : Nat \ {0}, exp : Nat]
    BY <1>1, <1>3, BucketsTyped
  <2> DEFINE o == Observed(s, now)
  <2>2. /\ o.n \in Nat \ {0} /\ o.last \in Nat /\ o.dn \in 0 .. o.n - 1
        /\ {o.dsum, o.dsq} \subseteq Nat
    BY <1>1, ObservedTyped
  <2> HIDE DEF o
  <2>3. ASSUME NEW id \in DOMAIN hash'
        PROVE  hash'[id] = o \/ (id \in DOMAIN hash /\ hash'[id] = hash[id])
    BY <1>3 DEF Put, o
  <2>4. QED
    BY <2>1, <2>2, <2>3 DEF KeysTyped, AllKeys
<1>4. CASE UNCHANGED cvars
  BY <1>4 DEF cvars, KeysTyped, AllKeys
<1>5. QED
  BY <1>2, <1>3, <1>4 DEF Next, Count, CountRatesOnly, CountUnanswered

\* The state of Counters has its types: no bucket counts nothing, and a client
\* has fewer gaps than requests.
THEOREM CountersTypeCorrect == Spec => []TypeOK
<1>1. Init => KeysTyped
  BY DEF Init, KeysTyped
<1>2. CountsTrue /\ KeysTyped => TypeOK
  BY DEF CountsTrue, Typed, KeysTyped, TypeOK
<1>3. QED
  BY <1>1, <1>2, KeysTypedStep, CountsInvariant, PTL DEF Spec

------------------------------------------------------------------------------
(* What the statistics of one client are made of, for any log l and any set  *)
(* of requests of the client.                                                *)

FreshIn(l, S, i) == \A q \in S : q < i => \E p \in S :
                       p < i /\ p >= q /\ l[p].at + TTL > l[i].at

CoveredIn(l, S, now) ==
  {i \in S : now < l[Max(S)].at + TTL /\ \A p \in S : p > i => FreshIn(l, S, p)}

GapIn(l, i, T) == l[i].now - l[Max({p \in T : p < i})].now

GapsIn(l, T) ==
  {<<i, GapIn(l, i, T)>> :
     i \in {q \in T : q # Min(T) /\ GapIn(l, q, T) \in 1 .. MaxGap - 1}}

\* Covered and Gaps are instances of these operators, now ...
LEMMA InsOfState ==
  \A id : /\ Covered(id) = CoveredIn(log, Seen(id), clock)
          /\ Gaps(id) = GapsIn(log, Covered(id))
BY DEF Covered, Fresh, Gaps, GapBefore, CoveredIn, FreshIn, GapsIn, GapIn

\* ... and in the next state.
LEMMA InsOfNext ==
  \A id : /\ Covered(id)' = CoveredIn(log', Seen(id)', clock')
          /\ Gaps(id)' = GapsIn(log', Covered(id)')
BY DEF Covered, Fresh, Gaps, GapBefore, CoveredIn, FreshIn, GapsIn, GapIn

\* All that matters of the log is the requests in question.
LEMMA CoveredAgree ==
  ASSUME NEW l, NEW m, NEW S \in SUBSET Nat, IsFiniteSet(S), \A i \in S : l[i] = m[i], NEW now
  PROVE  CoveredIn(l, S, now) = CoveredIn(m, S, now)
<1>1. S # {} => Max(S) \in S
  BY HasMax
<1>2. \A i \in S : FreshIn(l, S, i) <=> FreshIn(m, S, i)
  BY DEF FreshIn
<1>3. QED
  BY <1>1, <1>2 DEF CoveredIn

\* The request before request i of T.
LEMMA Predecessor ==
  ASSUME NEW T \in SUBSET Nat, IsFiniteSet(T), NEW i \in T, i # Min(T)
  PROVE  Max({p \in T : p < i}) \in T /\ Max({p \in T : p < i}) < i
<1>1. Min(T) \in T /\ Min(T) < i
  <2>1. T \in SUBSET Int
    OBVIOUS
  <2>2. Min(T) \in T /\ \A y \in T : Min(T) =< y
    BY <2>1, HasMin
  <2>3. Min(T) \in Int /\ i \in Int /\ Min(T) =< i
    BY <2>1, <2>2
  <2>4. QED
    BY <2>2, <2>3
<1> DEFINE P == {p \in T : p < i}
<1>2. P \in SUBSET Int /\ P # {} /\ IsFiniteSet(P)
  <2>1. P \subseteq T /\ T \subseteq Int
    OBVIOUS
  <2>2. Min(T) \in P
    BY <1>1
  <2> HIDE DEF P
  <2>3. QED
    BY <2>1, <2>2, FS_Subset
<1>3. Max(P) \in P
  <2> HIDE DEF P
  <2>1. QED
    BY <1>2, HasMax
<1>4. QED
  BY <1>3

\* Logs that agree on T have the same gaps there.
LEMMA GapsAgree ==
  ASSUME NEW l, NEW m, NEW T \in SUBSET Nat, IsFiniteSet(T), \A i \in T : l[i] = m[i]
  PROVE  GapsIn(l, T) = GapsIn(m, T)
<1>1. \A i \in T : i # Min(T) => GapIn(l, i, T) = GapIn(m, i, T)
  BY Predecessor DEF GapIn
<1>2. QED
  BY <1>1 DEF GapsIn

\* There are finitely many gaps.
LEMMA GapsFinite ==
  ASSUME NEW l, NEW T, IsFiniteSet(T)
  PROVE  IsFiniteSet(GapsIn(l, T))
<1> DEFINE Q == {q \in T : q # Min(T) /\ GapIn(l, q, T) \in 1 .. MaxGap - 1}
           f == [i \in Q |-> <<i, GapIn(l, i, T)>>]
<1>1. IsFiniteSet(Q)
  BY FS_Subset
<1>2. GapsIn(l, T) = {f[i] : i \in Q}
  BY DEF GapsIn
<1> HIDE DEF Q
<1>3. f \in Surjection(Q, {f[i] : i \in Q})
  BY DEF Surjection
<1>4. QED
  BY <1>1, <1>2, <1>3, FS_Surjection

\* Gaps that count are positive.
LEMMA GapsPositive ==
  ASSUME NEW l, NEW T, NEW g \in GapsIn(l, T)
  PROVE  g[1] \in T /\ g[2] \in Nat /\ g[2] > 0
BY TimeAssumption DEF GapsIn

\* Request n of log m comes after the requests S, which are those of log l.
OneLater(l, m, S, n) ==
  /\ S \in SUBSET Nat /\ IsFiniteSet(S) /\ n \in Nat
  /\ \A i \in S : l[i] = m[i] /\ i < n

\* One request more: it is covered, and with it all that were covered before it
\* came.
LEMMA CoveredMore ==
  ASSUME NEW l, NEW m, NEW S, NEW n, OneLater(l, m, S, n),
         NEW time \in Nat, m[n].at = time, \A i \in S : l[i].at \in Nat
  PROVE  CoveredIn(m, S \cup {n}, time) = CoveredIn(l, S, time) \cup {n}
<1> USE DEF OneLater
<1> DEFINE A == S \cup {n}
           fresh == \A q \in S : \E p \in S : p >= q /\ l[p].at + TTL > time
<1>0. TTL \in Nat /\ TTL > 0
  BY TimeAssumption
<1>1. Max(A) = n
  <2>1. A \in SUBSET Int /\ n \in A /\ \A i \in A : n >= i
    OBVIOUS
  <2> HIDE DEF A
  <2>2. QED
    BY <2>1, LargestIs
<1>2. time < m[Max(A)].at + TTL
  BY <1>0, <1>1
<1>3. \A p \in S : FreshIn(m, A, p) <=> FreshIn(l, S, p)
  BY DEF FreshIn
<1>4. FreshIn(m, A, n) <=> fresh
  <2>1. FreshIn(m, A, n) <=> \A q \in A : q < n => \E p \in A : p < n /\ p >= q /\ m[p].at + TTL > time
    BY DEF FreshIn
  <2>2. n \in Int /\ n \notin S /\ \A i \in S : i \in Int /\ i < n
    OBVIOUS
  <2>3. ~(n < n)
    BY <2>2
  <2>4. QED
    BY <2>1, <2>2, <2>3
<1>5. S # {} => (fresh <=> time < l[Max(S)].at + TTL)
  <2>1. SUFFICES ASSUME S # {} PROVE fresh <=> time < l[Max(S)].at + TTL
    OBVIOUS
  <2>2. Max(S) \in S /\ \A y \in S : Max(S) >= y
    BY <2>1, HasMax
  <2>3. ASSUME fresh PROVE time < l[Max(S)].at + TTL
    <3>1. PICK p \in S : p >= Max(S) /\ l[p].at + TTL > time
      BY <2>2, <2>3
    <3>2. p = Max(S)
      BY <2>2, <3>1
    <3>3. QED
      BY <3>1, <3>2, <1>0
  <2>4. ASSUME time < l[Max(S)].at + TTL PROVE fresh
    BY <2>2, <2>4, <1>0
  <2>5. QED
    BY <2>3, <2>4
<1>6. CoveredIn(m, A, time) = {i \in A : \A p \in A : p > i => FreshIn(m, A, p)}
  BY <1>2 DEF CoveredIn
<1>7. n \in CoveredIn(m, A, time)
  BY <1>6
<1>8. ASSUME NEW i \in S
      PROVE  i \in CoveredIn(m, A, time) <=> i \in CoveredIn(l, S, time)
  <2>1. i \in CoveredIn(m, A, time) <=> fresh /\ \A p \in S : p > i => FreshIn(l, S, p)
    <3> HIDE DEF fresh
    <3>1. QED
      BY <1>3, <1>4, <1>6
  <2> HIDE DEF fresh
  <2>2. QED
    BY <1>5, <2>1 DEF CoveredIn
<1>9. CoveredIn(m, A, time) \subseteq A /\ CoveredIn(l, S, time) \subseteq S
  BY DEF CoveredIn
<1> HIDE DEF A
<1>10. QED
  BY <1>7, <1>8, <1>9 DEF A

\* It has a gap if it follows another one, and only then.
LEMMA GapsMore ==
  ASSUME NEW l, NEW m, NEW T \in SUBSET Nat, IsFiniteSet(T), \A i \in T : l[i] = m[i],
         NEW n \in Nat, \A i \in T : i < n, T # {}, NEW d, d = m[n].now - l[Max(T)].now
  PROVE  GapsIn(m, T \cup {n})
           = GapsIn(l, T) \cup {g \in {<<n, d>>} : d \in 1 .. MaxGap - 1}
<1> DEFINE A == T \cup {n}
<1>1. Max(T) \in T /\ Min(T) \in T /\ \A y \in T : Min(T) =< y
  BY HasMax, HasMin
<1>2. Min(A) = Min(T)
  <2>1. A \in SUBSET Int /\ Min(T) \in A
    BY <1>1
  <2>2. Min(T) < n /\ n \in Int /\ Min(T) \in Int
    <3>1. T \subseteq Int /\ n \in Int
      OBVIOUS
    <3>2. Min(T) < n
      BY <1>1, Zenon
    <3>3. QED
      BY <1>1, <3>1, <3>2, Zenon
  <2>3. Min(T) =< n
    BY <2>2
  <2>4. \A y \in A : Min(T) =< y
    BY <1>1, <2>3
  <2> HIDE DEF A
  <2>5. QED
    BY <2>1, <2>4, SmallestIs
<1>3. \A i \in T : {p \in A : p < i} = {p \in T : p < i}
  <2>1. ASSUME NEW i \in T PROVE ~(n < i)
    BY <2>1
  <2>2. QED
    BY <2>1
<1>4. {p \in A : p < n} = T
  <2>1. n \in Int /\ ~(n < n) /\ \A i \in T : i < n
    OBVIOUS
  <2>2. QED
    BY <2>1
<1>5. \A i \in T : i # Min(T) => GapIn(m, i, A) = GapIn(l, i, T)
  BY <1>3, Predecessor DEF GapIn
<1>6. GapIn(m, n, A) = d
  BY <1>1, <1>4 DEF GapIn
<1>7. n # Min(T) /\ n \notin T
  BY <1>1
<1> DEFINE Q(k, D) == {q \in D : q # Min(D) /\ GapIn(k, q, D) \in 1 .. MaxGap - 1}
           new == {q \in {n} : d \in 1 .. MaxGap - 1}
<1>8. Q(m, A) = Q(l, T) \cup new
  BY <1>2, <1>5, <1>6, <1>7
<1>9. GapsIn(m, A) = {<<i, GapIn(m, i, A)>> : i \in Q(m, A)} /\ GapsIn(l, T) = {<<i, GapIn(l, i, T)>> : i \in Q(l, T)}
  BY DEF GapsIn
<1>10. \A i \in Q(l, T) : GapIn(m, i, A) = GapIn(l, i, T)
  BY <1>5
<1>11. \A i \in new : GapIn(m, i, A) = d
  BY <1>6
<1> HIDE DEF A, Q
<1>12. QED
  BY <1>8, <1>9, <1>10, <1>11 DEF A

\* A request alone has no gap.
LEMMA NoGapAlone ==
  ASSUME NEW m, NEW n \in Nat
  PROVE  GapsIn(m, {n}) = {}
<1>1. Min({n}) = n
  BY SmallestIs
<1>2. QED
  BY <1>1 DEF GapsIn

\* The sums over a set of gaps.
GapSum(G) == SumFunction([g \in G |-> g[2]])
GapSquares(G) == SumFunction([g \in G |-> g[2] * g[2]])

\* Without gaps the sums are 0.
LEMMA GapSumsEmpty == GapSum({}) = 0 /\ GapSquares({}) = 0
<1>1. DOMAIN [g \in {} |-> g[2]] = {} /\ DOMAIN [g \in {} |-> g[2] * g[2]] = {}
  OBVIOUS
<1>2. QED
  BY <1>1, SumEmpty DEF GapSum, GapSquares, SumFunction

\* The sum of a function with one argument more.
LEMMA SumFunctionAdd ==
  ASSUME NEW G, IsFiniteSet(G), NEW x, x \notin G, NEW f, DOMAIN f = G, NEW h, DOMAIN h = G \cup {x},
         \A y \in G : h[y] = f[y], \A y \in G \cup {x} : h[y] \in Nat
  PROVE  SumFunction(h) = SumFunction(f) + h[x]
<1>1. SumFunctionOnSet(h, G \cup {x}) = SumFunctionOnSet(h, G) + h[x]
  BY SumAdd
<1>2. SumFunctionOnSet(h, G) = SumFunctionOnSet(f, G)
  BY SumSame
<1>3. QED
  BY <1>1, <1>2, Zenon DEF SumFunction

\* The sums with one gap more.
LEMMA GapSumsAdd ==
  ASSUME NEW G, IsFiniteSet(G), \A g \in G : g[2] \in Nat, NEW n, NEW d \in Nat, <<n, d>> \notin G
  PROVE  /\ GapSum(G \cup {<<n, d>>}) = GapSum(G) + d
         /\ GapSquares(G \cup {<<n, d>>}) = GapSquares(G) + d * d
<1> DEFINE x == <<n, d>>
           A == G \cup {x}
           f == [g \in G |-> g[2]]
           h == [g \in A |-> g[2]]
           f2 == [g \in G |-> g[2] * g[2]]
           h2 == [g \in A |-> g[2] * g[2]]
<1>1. x[2] = d /\ d * d \in Nat
  OBVIOUS
<1>2. DOMAIN f = G /\ DOMAIN h = A /\ DOMAIN f2 = G /\ DOMAIN h2 = A
  OBVIOUS
<1>3. /\ \A y \in G : h[y] = f[y] /\ h2[y] = f2[y]
      /\ h[x] = d /\ h2[x] = d * d
  BY <1>1
<1>4. \A y \in A : h[y] \in Nat /\ h2[y] \in Nat
  BY <1>1
<1>5. x \notin G
  OBVIOUS
<1>6. GapSum(A) = SumFunction(h) /\ GapSum(G) = SumFunction(f)
      /\ GapSquares(A) = SumFunction(h2) /\ GapSquares(G) = SumFunction(f2)
  BY DEF GapSum, GapSquares
<1> HIDE DEF f, h, f2, h2, x
<1>7. SumFunction(h) = SumFunction(f) + h[x] /\ SumFunction(h2) = SumFunction(f2) + h2[x]
  BY <1>2, <1>3, <1>4, <1>5, SumFunctionAdd
<1>8. QED
  BY <1>3, <1>6, <1>7 DEF x

\* The sums are natural numbers.
LEMMA GapSumsTypes ==
  ASSUME NEW G, IsFiniteSet(G), \A g \in G : g[2] \in Nat
  PROVE  GapSum(G) \in Nat /\ GapSquares(G) \in Nat
<1> DEFINE f == [g \in G |-> g[2]]
           f2 == [g \in G |-> g[2] * g[2]]
<1>1. DOMAIN f = G /\ DOMAIN f2 = G /\ \A y \in G : f[y] \in Nat /\ f2[y] \in Nat
  OBVIOUS
<1>2. GapSum(G) = SumFunctionOnSet(f, G) /\ GapSquares(G) = SumFunctionOnSet(f2, G)
  BY <1>1 DEF GapSum, GapSquares, SumFunction
<1> HIDE DEF f, f2
<1>3. QED
  BY <1>1, <1>2, SumOfNaturals

------------------------------------------------------------------------------
(* The statistics and the requests they are made of *)

\* Statistics h are those of the requests T of log l.
StatsMatch(h, l, T) ==
  /\ h.n = Cardinality(T)
  /\ h.last = IF T = {} THEN 0 ELSE l[Max(T)].now
  /\ h.dn = Cardinality(GapsIn(l, T))
  /\ h.dsum = GapSum(GapsIn(l, T))
  /\ h.dsq = GapSquares(GapsIn(l, T))
  /\ h.paths = {l[i].sig.path : i \in T}

\* What the script makes of statistics h at the time at.
StatsAfter(h, path, now, at) ==
  LET d == now - h.last
      counts == h.last > 0 /\ d > 0 /\ d < MaxGap
  IN  [n     |-> h.n + 1,
       last  |-> now,
       dn    |-> IF counts THEN h.dn + 1 ELSE h.dn,
       dsum  |-> IF counts THEN h.dsum + d ELSE h.dsum,
       dsq   |-> IF counts THEN h.dsq + d * d ELSE h.dsq,
       paths |-> h.paths \cup {path},
       exp   |-> at + TTL]

\* behaviorLua makes StatsAfter of what it finds.
LEMMA ObservedIs ==
  ASSUME NEW s, NEW now
  PROVE  Observed(s, now) = StatsAfter(StatsOf(Identity(s)), s.path, now, clock)
BY DEF Observed, StatsAfter

\* Statistics of requests T become those of T and the request that follows.
LEMMA StatsMore ==
  ASSUME NEW l, NEW m, NEW T \in SUBSET Nat, IsFiniteSet(T), \A i \in T : l[i] = m[i],
         \A i \in T : l[i].now \in Nat \ {0},
         NEW n \in Nat, \A i \in T : i < n, NEW now \in Nat \ {0}, NEW path, NEW at,
         m[n].now = now, m[n].sig.path = path, NEW h, StatsMatch(h, l, T)
  PROVE  StatsMatch(StatsAfter(h, path, now, at), m, T \cup {n})
<1> DEFINE A == T \cup {n}
           g == StatsAfter(h, path, now, at)
           d == now - h.last
           counts == h.last > 0 /\ d > 0 /\ d < MaxGap
           G == GapsIn(l, T)
<1>1. /\ h.n = Cardinality(T)
      /\ h.last = IF T = {} THEN 0 ELSE l[Max(T)].now
      /\ h.dn = Cardinality(G) /\ h.dsum = GapSum(G) /\ h.dsq = GapSquares(G)
      /\ h.paths = {l[i].sig.path : i \in T}
  BY DEF StatsMatch
<1>2. n \notin T /\ T \in SUBSET Int
  <2>1. n \in Int /\ ~(n < n)
    OBVIOUS
  <2>2. QED
    BY <2>1
<1>3. Cardinality(A) = h.n + 1
  <2>1. Cardinality(T \cup {n}) = Cardinality(T) + 1
    BY <1>2, FS_AddElement
  <2>2. QED
    BY <1>1, <2>1
<1>4. A # {} /\ Max(A) = n
  <2>1. A \in SUBSET Int /\ n \in A /\ \A i \in A : n >= i
    OBVIOUS
  <2> HIDE DEF A
  <2>2. QED
    BY <2>1, LargestIs
<1>5. {m[i].sig.path : i \in A} = h.paths \cup {path}
  BY <1>1
<1>6. G = GapsIn(l, T) /\ IsFiniteSet(G) /\ \A x \in G : x[1] \in T /\ x[2] \in Nat
  <2>1. IsFiniteSet(GapsIn(l, T))
    BY GapsFinite
  <2>2. QED
    BY <2>1, GapsPositive
<1>7. GapsIn(m, A) = IF counts THEN G \cup {<<n, d>>} ELSE G
  <2>1. CASE T = {}
    <3>1. h.last = 0 /\ A = {n}
      BY <1>1, <2>1
    <3>2. GapsIn(m, {n}) = {}
      BY NoGapAlone
    <3>3. G = {}
      BY <2>1 DEF GapsIn
    <3>4. ~counts
      BY <3>1
    <3> HIDE DEF A, G, counts, d
    <3>5. QED
      BY <3>1, <3>2, <3>3, <3>4
  <2>2. CASE T # {}
    <3>1. h.last = l[Max(T)].now
      BY <1>1, <2>2
    <3>2. Max(T) \in T
      BY <1>2, <2>2, HasMax
    <3>3. h.last \in Nat /\ h.last > 0
      <4>1. h.last \in Nat \ {0}
        BY <3>1, <3>2, Zenon
      <4>2. QED
        BY <4>1
    <3>4. d = m[n].now - l[Max(T)].now /\ d \in Int
      BY <3>1, <3>3
    <3>5. counts <=> d \in 1 .. MaxGap - 1
      <4>1. MaxGap \in Nat
        BY TimeAssumption
      <4> HIDE DEF d
      <4>2. QED
        BY <3>3, <3>4, <4>1
    <3> HIDE DEF d, counts
    <3>6. GapsIn(m, T \cup {n}) = GapsIn(l, T) \cup {x \in {<<n, d>>} : d \in 1 .. MaxGap - 1}
      BY <2>2, <3>4, GapsMore
    <3>7. QED
      BY <3>5, <3>6
  <2>3. QED
    BY <2>1, <2>2
<1>8. counts => d \in Nat /\ <<n, d>> \notin G
  <2>1. counts => d \in Nat
    <3>1. h.last \in Int
      <4>1. CASE T = {}
        BY <1>1, <4>1
      <4>2. CASE T # {}
        <5>1. Max(T) \in T
          BY <1>2, <4>2, HasMax
        <5>2. h.last \in Nat \ {0}
          BY <1>1, <4>2, <5>1, Zenon
        <5>3. QED
          BY <5>2
      <4>3. QED
        BY <4>1, <4>2
    <3>2. QED
      BY <3>1
  <2> HIDE DEF G, counts, d
  <2>2. <<n, d>> \notin G
    BY <1>2, <1>6
  <2>3. QED
    BY <2>1, <2>2
<1>9. /\ g.n = h.n + 1 /\ g.last = now /\ g.paths = h.paths \cup {path}
      /\ g.dn = IF counts THEN h.dn + 1 ELSE h.dn
      /\ g.dsum = IF counts THEN h.dsum + d ELSE h.dsum
      /\ g.dsq = IF counts THEN h.dsq + d * d ELSE h.dsq
  BY DEF StatsAfter
<1> HIDE DEF g, d, counts, G, A
<1>10. CASE counts
  <2>1. Cardinality(G \cup {<<n, d>>}) = Cardinality(G) + 1
    BY <1>6, <1>8, <1>10, FS_AddElement
  <2>2. /\ GapSum(G \cup {<<n, d>>}) = GapSum(G) + d
        /\ GapSquares(G \cup {<<n, d>>}) = GapSquares(G) + d * d
    BY <1>6, <1>8, <1>10, GapSumsAdd
  <2>3. g.dn = Cardinality(GapsIn(m, A)) /\ g.dsum = GapSum(GapsIn(m, A))
        /\ g.dsq = GapSquares(GapsIn(m, A))
    BY <1>1, <1>7, <1>9, <1>10, <2>1, <2>2, Zenon
  <2>4. QED
    BY <1>3, <1>4, <1>5, <1>9, <2>3 DEF StatsMatch, A, g
<1>11. CASE ~counts
  <2>1. g.dn = Cardinality(GapsIn(m, A)) /\ g.dsum = GapSum(GapsIn(m, A))
        /\ g.dsq = GapSquares(GapsIn(m, A))
    BY <1>1, <1>7, <1>9, <1>11, Zenon
  <2>2. QED
    BY <1>3, <1>4, <1>5, <1>9, <2>1 DEF StatsMatch, A, g
<1>12. QED
  BY <1>10, <1>11

------------------------------------------------------------------------------
(* The rhythm of every client *)

Clients == {Identity(s) : s \in Signal}
Rules == {"crawl_pattern", "single_endpoint", "machine_rhythm"}

\* The statistics of a client are those of the requests they cover, and they
\* are there as long as they cover any.
RhythmTrue(id) ==
  /\ StatsMatch(StatsOf(id), log, Covered(id))
  /\ IF id \in DOMAIN hash
     THEN Seen(id) # {} /\ hash[id].exp = log[Max(Seen(id))].at + TTL /\ clock < hash[id].exp
     ELSE Covered(id) = {}

\* The rules the latest request met are those its statistics meet.
HitsTrue ==
  Told /\ Last(log).observed =>
    Last(log).hits = BehaviorHits(StatsOf(Identity(Last(log).sig)))

\* The inductive invariant, on top of CountsTrue.
RhythmInv ==
  /\ \A i \in 1 .. Len(log) : /\ log[i].now > 0 /\ log[i].observed \in BOOLEAN
                              /\ log[i].hits \subseteq Rules
  /\ \A id \in Clients : RhythmTrue(id)
  /\ HitsTrue

\* The requests of a client are finitely many indices of the log, with their
\* times.
LEMMA SeenTypes ==
  ASSUME Typed, NEW id
  PROVE  /\ Seen(id) \subseteq 1 .. Len(log) /\ Seen(id) \in SUBSET Nat /\ IsFiniteSet(Seen(id))
         /\ Covered(id) \subseteq Seen(id) /\ IsFiniteSet(Covered(id))
         /\ \A i \in Seen(id) : log[i].at \in Nat /\ log[i].now \in Nat
<1>1. Len(log) \in Nat /\ DOMAIN log = 1 .. Len(log)
  BY DEF Typed
<1>2. Seen(id) \subseteq 1 .. Len(log) /\ Covered(id) \subseteq Seen(id)
  BY <1>1 DEF Seen, Covered
<1>3. IsFiniteSet(1 .. Len(log))
  <2>1. 1 \in Int /\ Len(log) \in Int
    BY <1>1
  <2>2. QED
    BY <2>1, FS_Interval
<1>4. IsFiniteSet(Seen(id)) /\ IsFiniteSet(Covered(id))
  BY <1>2, <1>3, FS_Subset
<1>5. \A i \in 1 .. Len(log) : log[i].at \in Nat /\ log[i].now \in Nat
  BY DEF Typed
<1>6. QED
  BY <1>1, <1>2, <1>4, <1>5

\* What a request more does to the log.
LEMMA LogMore ==
  ASSUME Typed, NEW e, log' = Append(log, e)
  PROVE  LET n == Len(log) + 1
         IN  /\ n \in Nat /\ Len(log') = n /\ log'[n] = e
             /\ \A i \in 1 .. Len(log) : log'[i] = log[i] /\ i < n
             /\ \A id : Seen(id)' = Seen(id) \cup {i \in {n} : Identity(e.sig) = id /\ e.observed}
<1> DEFINE more == Append(log, e)
           n == Len(log) + 1
<1>1. Len(log) \in Nat /\ log = [i \in 1 .. Len(log) |-> log[i]] /\ DOMAIN log = 1 .. Len(log)
  BY DEF Typed
<1>2. /\ Len(more) = n /\ DOMAIN more = 1 .. Len(more)
      /\ \A i \in 1 .. Len(log) : more[i] = log[i]
      /\ more[n] = e
  BY <1>1, OneMore
<1>3. log' = more
  OBVIOUS
<1> HIDE DEF more
<1>4. n \in Nat /\ 1 .. n = (1 .. Len(log)) \cup {n} /\ \A i \in 1 .. Len(log) : i < n
  BY <1>1
<1> HIDE DEF n
<1>5. ASSUME NEW id
      PROVE  Seen(id)' = Seen(id) \cup {i \in {n} : Identity(e.sig) = id /\ e.observed}
  <2>1. Seen(id)' = {i \in 1 .. n : Identity(more[i].sig) = id /\ more[i].observed}
    BY <1>2, <1>3 DEF Seen, Identity
  <2>2. Seen(id) = {i \in 1 .. Len(log) : Identity(log[i].sig) = id /\ log[i].observed}
    BY <1>1 DEF Seen
  <2>3. QED
    BY <1>2, <1>4, <2>1, <2>2
<1>6. QED
  BY <1>2, <1>3, <1>4, <1>5 DEF n

\* Statistics are those of the same requests in any log that agrees on them.
LEMMA StatsAgree ==
  ASSUME NEW l, NEW m, NEW T \in SUBSET Nat, IsFiniteSet(T), \A i \in T : l[i] = m[i],
         NEW h, StatsMatch(h, l, T)
  PROVE  StatsMatch(h, m, T)
<1>1. GapsIn(l, T) = GapsIn(m, T)
  BY GapsAgree
<1>2. T # {} => l[Max(T)] = m[Max(T)]
  <2>1. T \in SUBSET Int
    OBVIOUS
  <2>2. T # {} => Max(T) \in T
    BY <2>1, HasMax
  <2>3. QED
    BY <2>2
<1>3. {l[i].sig.path : i \in T} = {m[i].sig.path : i \in T}
  OBVIOUS
<1>4. QED
  BY <1>1, <1>2, <1>3 DEF StatsMatch

\* No statistics are those of no requests.
LEMMA NoStatsMatch == \A l : StatsMatch(NoStats, l, {})
<1>1. \A l : GapsIn(l, {}) = {}
  BY DEF GapsIn
<1>2. QED
  BY <1>1, GapSumsEmpty, FS_EmptySet DEF StatsMatch, NoStats

\* A request that behaviorLua does not see, or one of another client.
LEMMA RhythmUntouched ==
  ASSUME Typed, NEW id, RhythmTrue(id), NEW e, log' = Append(log, e), clock' = clock,
         ~(Identity(e.sig) = id /\ e.observed),
         id \in DOMAIN hash' <=> id \in DOMAIN hash, id \in DOMAIN hash => hash'[id] = hash[id]
  PROVE  RhythmTrue(id)'
<1> DEFINE S == Seen(id)
           T == Covered(id)
<1>1. /\ S \in SUBSET Nat /\ IsFiniteSet(S) /\ T \subseteq S /\ IsFiniteSet(T)
      /\ S \subseteq 1 .. Len(log)
  BY SeenTypes
<1>2. Seen(id)' = S /\ \A i \in S : log[i] = log'[i]
  <2> DEFINE n == Len(log) + 1
             new == {i \in {n} : Identity(e.sig) = id /\ e.observed}
  <2>1. Seen(id)' = S \cup new /\ \A i \in 1 .. Len(log) : log'[i] = log[i]
    BY LogMore
  <2>2. new = {}
    OBVIOUS
  <2> HIDE DEF new, S
  <2>3. QED
    BY <1>1, <2>1, <2>2
<1>3. Covered(id)' = T
  <2>1. CoveredIn(log', S, clock) = CoveredIn(log, S, clock)
    <3> DEFINE m == log'
    <3>1. S \in SUBSET Nat /\ IsFiniteSet(S) /\ \A i \in S : log[i] = m[i]
      BY <1>1, <1>2
    <3> HIDE DEF S, m
    <3>2. CoveredIn(log, S, clock) = CoveredIn(m, S, clock)
      BY <3>1, CoveredAgree
    <3>3. QED
      BY <3>2 DEF m
  <2>2. Covered(id)' = CoveredIn(log', Seen(id)', clock')
    BY InsOfNext
  <2>3. T = CoveredIn(log, S, clock)
    BY InsOfState
  <2>4. QED
    BY <1>2, <2>1, <2>2, <2>3
<1>4. StatsOf(id)' = StatsOf(id)
  BY DEF StatsOf
<1>5. StatsMatch(StatsOf(id), log', T)
  <2>1. T \in SUBSET Nat /\ \A i \in T : log[i] = log'[i]
    BY <1>1, <1>2
  <2>2. StatsMatch(StatsOf(id), log, T)
    BY DEF RhythmTrue
  <2> HIDE DEF T
  <2>3. QED
    BY <1>1, <2>1, <2>2, StatsAgree
<1>6. StatsMatch(StatsOf(id), log, Covered(id))' <=> StatsMatch(StatsOf(id), log', T)
  BY <1>3, <1>4 DEF StatsMatch, GapsIn, GapIn, GapSum, GapSquares
<1>7. CASE id \in DOMAIN hash
  <2>1. S # {} => Max(S) \in S
    BY <1>1, HasMax
  <2>2. QED
    BY <1>2, <1>5, <1>6, <1>7, <2>1 DEF RhythmTrue
<1>8. CASE id \notin DOMAIN hash
  BY <1>3, <1>5, <1>6, <1>8 DEF RhythmTrue
<1>9. QED
  BY <1>7, <1>8

\* A request of the client that behaviorLua sees.
LEMMA RhythmMore ==
  ASSUME Typed, NEW id, RhythmTrue(id), \A i \in 1 .. Len(log) : log[i].now > 0,
         NEW s, Identity(s) = id, NEW now \in Nat, now > 0, NEW e, log' = Append(log, e),
         e.sig = s, e.now = now, e.at = clock, e.observed, clock' = clock,
         hash' = Put(id, Observed(s, now))
  PROVE  RhythmTrue(id)' /\ StatsOf(id)' = Observed(s, now)
<1> DEFINE S == Seen(id)
           T == Covered(id)
           n == Len(log) + 1
           m == log'
           h == StatsOf(id)
           g == Observed(s, now)
<1>1. /\ S \in SUBSET Nat /\ IsFiniteSet(S) /\ T \subseteq S /\ IsFiniteSet(T)
      /\ S \subseteq 1 .. Len(log)
      /\ \A i \in S : log[i].at \in Nat /\ log[i].now \in Nat \ {0}
  <2>1. \A i \in Seen(id) : i \in 1 .. Len(log) /\ log[i].at \in Nat /\ log[i].now \in Nat
    BY SeenTypes
  <2>2. \A i \in Seen(id) : log[i].now \in Nat \ {0}
    BY <2>1
  <2>3. QED
    BY <2>1, <2>2, SeenTypes
<1>2. /\ n \in Nat /\ m[n] = e /\ \A i \in 1 .. Len(log) : m[i] = log[i] /\ i < n
      /\ Seen(id)' = S \cup {n} /\ clock \in Nat /\ TTL \in Nat /\ TTL > 0
  <2> DEFINE new == {i \in {n} : Identity(e.sig) = id /\ e.observed}
  <2>1. /\ n \in Nat /\ m[n] = e /\ \A i \in 1 .. Len(log) : m[i] = log[i] /\ i < n
        /\ Seen(id)' = S \cup new
    BY LogMore
  <2>2. new = {n}
    OBVIOUS
  <2>3. clock \in Nat /\ TTL \in Nat /\ TTL > 0
    BY TimeAssumption DEF Typed
  <2> HIDE DEF new, S, n, m
  <2>4. QED
    BY <2>1, <2>2, <2>3
<1>3. T = CoveredIn(log, S, clock) /\ Covered(id)' = CoveredIn(m, Seen(id)', clock')
  BY InsOfState, InsOfNext
<1>4. StatsMatch(h, log, T)
  BY DEF RhythmTrue
<1>5. g = StatsAfter(h, s.path, now, clock)
  BY ObservedIs
<1>6. id \in DOMAIN hash' /\ hash'[id] = g /\ StatsOf(id)' = g
  BY DEF Put, StatsOf
<1>7. g.exp = clock + TTL
  BY <1>5 DEF StatsAfter
<1> HIDE DEF S, T, n, m, h, g
<1>8. \A i \in S : log[i] = m[i] /\ i < n
  BY <1>1, <1>2
<1>9. CoveredIn(m, S \cup {n}, clock) = T \cup {n}
  <2>1. OneLater(log, m, S, n)
    BY <1>1, <1>2, <1>8 DEF OneLater
  <2>2. clock \in Nat /\ m[n].at = clock
    BY <1>2
  <2>3. \A i \in S : log[i].at \in Nat
    BY <1>1
  <2>4. CoveredIn(m, S \cup {n}, clock) = CoveredIn(log, S, clock) \cup {n}
    BY ONLY <2>1, <2>2, <2>3, CoveredMore
  <2>5. QED
    BY <1>3, <2>4
<1>10. StatsMatch(g, m, T \cup {n})
  <2>1. T \in SUBSET Nat /\ (\A i \in T : log[i] = m[i] /\ i < n)
        /\ \A i \in T : log[i].now \in Nat \ {0}
    BY <1>1, <1>8
  <2>2. m[n].now = now /\ m[n].sig.path = s.path /\ now \in Nat \ {0}
    BY <1>2
  <2>3. StatsMatch(StatsAfter(h, s.path, now, clock), m, T \cup {n})
    BY <1>1, <1>2, <1>4, <2>1, <2>2, StatsMore
  <2>4. QED
    BY <1>5, <2>3
<1>11. Covered(id)' = T \cup {n}
  BY <1>2, <1>3, <1>9
<1>12. StatsMatch(StatsOf(id), log, Covered(id))'
  <2>1. StatsMatch(StatsOf(id)', log', Covered(id)')
    BY <1>6, <1>10, <1>11 DEF m
  <2>2. QED
    BY <2>1 DEF StatsMatch, GapsIn, GapIn, GapSum, GapSquares
<1>13. Max(S \cup {n}) = n
  <2>1. S \cup {n} \in SUBSET Int /\ n \in S \cup {n} /\ \A i \in S \cup {n} : n >= i
    BY <1>1, <1>2, <1>8
  <2>2. QED
    BY <2>1, LargestIs
<1>14. Seen(id)' # {} /\ hash'[id].exp = log'[Max(Seen(id)')].at + TTL /\ clock' < hash'[id].exp
  <2>1. log'[Max(Seen(id)')].at = clock
    BY <1>2, <1>13 DEF m
  <2>2. clock < clock + TTL
    BY <1>2
  <2>3. QED
    BY <1>2, <1>6, <1>7, <2>1, <2>2
<1>15. RhythmTrue(id)'
  BY <1>6, <1>12, <1>14 DEF RhythmTrue
<1>16. QED
  BY <1>6, <1>15 DEF g

\* Time passes.
LEMMA RhythmTick ==
  ASSUME Typed, NEW id, RhythmTrue(id), Tick
  PROVE  RhythmTrue(id)'
<1> DEFINE S == Seen(id)
           T == Covered(id)
<1>1. /\ S \in SUBSET Nat /\ IsFiniteSet(S)
      /\ \A i \in S : log[i].at \in Nat
  BY SeenTypes
<1>2. /\ clock \in Nat /\ clock' = clock + 1 /\ log' = log /\ TTL \in Nat
      /\ hash' = [x \in {y \in DOMAIN hash : clock' < hash[y].exp} |-> hash[x]]
  BY TimeAssumption DEF Typed, Tick
<1>3. Seen(id)' = S
  BY <1>2 DEF Seen, Identity
<1>4. T = CoveredIn(log, S, clock) /\ Covered(id)' = CoveredIn(log, S, clock + 1)
  <2>1. Covered(id)' = CoveredIn(log', Seen(id)', clock')
    BY InsOfNext
  <2>2. QED
    BY <1>2, <1>3, <2>1, InsOfState
<1>5. S # {} => Max(S) \in S
  <2>1. S \in SUBSET Int
    BY <1>1
  <2> HIDE DEF S
  <2>2. QED
    BY <1>1, <2>1, HasMax
<1> HIDE DEF S, T
<1>6. CASE id \in DOMAIN hash
  <2>1. StatsOf(id) = hash[id] /\ S # {} /\ hash[id].exp = log[Max(S)].at + TTL
    BY <1>6 DEF RhythmTrue, StatsOf, S
  <2>2. hash[id].exp \in Nat
    <3>1. log[Max(S)].at \in Nat
      BY <1>1, <1>5, <2>1
    <3>2. QED
      BY <1>2, <2>1, <3>1
  <2>3. CASE clock' < hash[id].exp
    <3>1. id \in DOMAIN hash' /\ hash'[id] = hash[id] /\ StatsOf(id)' = StatsOf(id)
      BY <1>2, <1>6, <2>1, <2>3 DEF StatsOf
    <3>2. clock < hash[id].exp
      BY <1>2, <2>2, <2>3
    <3>3. Covered(id)' = T
      BY <1>2, <1>4, <2>1, <2>3, <3>2 DEF CoveredIn
    <3>4. StatsMatch(StatsOf(id)', log', Covered(id)')
      BY <1>2, <3>1, <3>3 DEF RhythmTrue, T
    <3>5. StatsMatch(StatsOf(id), log, Covered(id))'
      BY <3>4 DEF StatsMatch, GapsIn, GapIn, GapSum, GapSquares
    <3>6. QED
      BY <1>2, <1>3, <2>1, <2>3, <3>1, <3>5 DEF RhythmTrue
  <2>4. CASE ~(clock' < hash[id].exp)
    <3>1. id \notin DOMAIN hash' /\ StatsOf(id)' = NoStats
      BY <1>2, <2>4 DEF StatsOf
    <3>2. Covered(id)' = {}
      BY <1>2, <1>4, <2>1, <2>4 DEF CoveredIn
    <3>3. StatsMatch(StatsOf(id)', log', Covered(id)')
      BY <3>1, <3>2, NoStatsMatch
    <3>4. StatsMatch(StatsOf(id), log, Covered(id))'
      BY <3>3 DEF StatsMatch, GapsIn, GapIn, GapSum, GapSquares
    <3>5. QED
      BY <3>1, <3>2, <3>4 DEF RhythmTrue
  <2>5. QED
    BY <2>3, <2>4
<1>7. CASE id \notin DOMAIN hash
  <2>1. id \notin DOMAIN hash' /\ StatsOf(id)' = NoStats
    BY <1>2, <1>7 DEF StatsOf
  <2>2. Covered(id)' = {}
    <3>1. T = {}
      BY <1>7 DEF RhythmTrue, T
    <3>2. S # {} => log[Max(S)].at \in Nat
      BY <1>1, <1>5
    <3>3. CoveredIn(log, S, clock + 1) \subseteq CoveredIn(log, S, clock)
      <4>1. S # {} /\ clock + 1 < log[Max(S)].at + TTL => clock < log[Max(S)].at + TTL
        BY <1>2, <3>2
      <4>2. QED
        BY <4>1 DEF CoveredIn
    <3>4. QED
      BY <1>4, <3>1, <3>3
  <2>3. StatsMatch(StatsOf(id)', log', Covered(id)')
    BY <2>1, <2>2, NoStatsMatch
  <2>4. StatsMatch(StatsOf(id), log, Covered(id))'
    BY <2>3 DEF StatsMatch, GapsIn, GapIn, GapSum, GapSquares
  <2>5. QED
    BY <2>1, <2>2, <2>4 DEF RhythmTrue
<1>8. QED
  BY <1>6, <1>7

\* The latest entry is the one appended.
LEMMA LatestIs ==
  ASSUME Typed, NEW e, log' = Append(log, e)
  PROVE  Last(log') = e
BY LogMore DEF Last

\* What RhythmInv says of the entries of the log.
LEMMA EntriesStay ==
  ASSUME Typed, RhythmInv, NEW e, log' = Append(log, e), e.now > 0, e.observed \in BOOLEAN,
         e.hits \subseteq Rules
  PROVE  \A i \in 1 .. Len(log') : /\ log'[i].now > 0 /\ log'[i].observed \in BOOLEAN
                                   /\ log'[i].hits \subseteq Rules
<1> DEFINE n == Len(log) + 1
<1>1. /\ Len(log') = n /\ log'[n] = e /\ Len(log) \in Nat
      /\ \A i \in 1 .. Len(log) : log'[i] = log[i]
  BY LogMore DEF Typed
<1>2. \A i \in 1 .. Len(log) : /\ log[i].now > 0 /\ log[i].observed \in BOOLEAN
                               /\ log[i].hits \subseteq Rules
  BY DEF RhythmInv
<1>3. 1 .. n = (1 .. Len(log)) \cup {n}
  BY <1>1
<1> HIDE DEF n
<1>4. QED
  BY <1>1, <1>2, <1>3

\* The rules are those of behaviorScore.
LEMMA HitsAreRules == \A h : BehaviorHits(h) \subseteq Rules
BY DEF BehaviorHits, Rules

\* Both scripts answer: the rhythm of every client stays true.
LEMMA RhythmCount ==
  ASSUME Typed, RhythmInv, NEW s \in Signal, NEW now \in Times, Count(s, now)
  PROVE  RhythmInv'
<1> DEFINE e == Entry(s, now, [k \in Keys(s) |-> Rate(k, now)], TRUE,
                      BehaviorHits(Observed(s, now)))
           id == Identity(s)
<1>1. /\ e.sig = s /\ e.now = now /\ e.at = clock /\ e.observed = TRUE
      /\ e.hits = BehaviorHits(Observed(s, now))
  BY DEF Entry
<1>2. log' = Append(log, e) /\ clock' = clock /\ hash' = Put(id, Observed(s, now))
  BY DEF Count
<1> HIDE DEF e
<1>3. now \in Nat /\ now > 0
  BY Constants DEF Typed, Times
<1>4. \A i \in 1 .. Len(log) : log[i].now > 0
  BY DEF RhythmInv
<1>5. RhythmTrue(id)' /\ StatsOf(id)' = Observed(s, now)
  <2>1. id \in Clients /\ RhythmTrue(id)
    BY DEF RhythmInv, Clients
  <2> HIDE DEF id
  <2>2. Identity(s) = id
    BY DEF id
  <2>3. QED
    BY <1>1, <1>2, <1>3, <1>4, <2>1, <2>2, RhythmMore
<1>6. ASSUME NEW other \in Clients PROVE RhythmTrue(other)'
  <2>1. CASE other = id
    BY <1>5, <2>1
  <2>2. CASE other # id
    <3>1. /\ other \in DOMAIN hash' <=> other \in DOMAIN hash
          /\ other \in DOMAIN hash => hash'[other] = hash[other]
      BY <1>2, <2>2 DEF Put
    <3>2. RhythmTrue(other)
      BY DEF RhythmInv
    <3>3. ~(Identity(e.sig) = other /\ e.observed)
      BY <1>1, <2>2
    <3> HIDE DEF id
    <3>4. QED
      BY <1>2, <3>1, <3>2, <3>3, RhythmUntouched
  <2>3. QED
    BY <2>1, <2>2
<1>7. Last(log') = e
  BY <1>2, LatestIs
<1>8. HitsTrue'
  <2>1. Last(log').hits = BehaviorHits(StatsOf(id)')
    BY <1>1, <1>5, <1>7
  <2>2. Last(log').sig = s
    BY <1>1, <1>7
  <2>3. QED
    BY <2>1, <2>2 DEF HitsTrue, BehaviorHits, CrawlPattern, SingleEndpoint, MachineRhythm,
                      CVBelow, Identity
<1>9. \A i \in 1 .. Len(log') : /\ log'[i].now > 0 /\ log'[i].observed \in BOOLEAN
                                /\ log'[i].hits \subseteq Rules
  BY <1>1, <1>2, <1>3, EntriesStay, HitsAreRules
<1>10. QED
  BY <1>6, <1>8, <1>9 DEF RhythmInv, Clients, Identity

\* A request that behaviorLua did not see.
LEMMA RhythmMissed ==
  ASSUME Typed, RhythmInv, NEW e, log' = Append(log, e), e.now > 0, e.observed = FALSE,
         e.hits = {}, clock' = clock, hash' = hash
  PROVE  RhythmInv'
<1>1. ASSUME NEW id \in Clients PROVE RhythmTrue(id)'
  <2>1. RhythmTrue(id)
    BY DEF RhythmInv
  <2>2. QED
    BY <2>1, RhythmUntouched
<1>2. HitsTrue'
  <2>1. Last(log') = e
    BY LatestIs
  <2>2. QED
    BY <2>1 DEF HitsTrue
<1>3. \A i \in 1 .. Len(log') : /\ log'[i].now > 0 /\ log'[i].observed \in BOOLEAN
                                /\ log'[i].hits \subseteq Rules
  BY EntriesStay
<1>4. QED
  BY <1>1, <1>2, <1>3 DEF RhythmInv, Clients, Identity

\* Every step keeps the rhythm of every client true.
LEMMA RhythmStep ==
  ASSUME CountsTrue, RhythmInv, [Next]_cvars
  PROVE  RhythmInv'
<1>0. Typed
  BY DEF CountsTrue
<1>1. CASE Tick
  <2>1. /\ log' = log /\ clock' = clock + 1 /\ clock \in Nat
        /\ \A i \in 1 .. Len(log) : log[i].at \in Nat /\ log[i].at =< clock
        /\ Len(log) \in Nat /\ log = [i \in 1 .. Len(log) |-> log[i]]
    BY <1>0, <1>1 DEF Tick, Typed
  <2>2. ~Told'
    <3>1. SUFFICES ASSUME Told' PROVE FALSE
      OBVIOUS
    <3>2. log # <<>> /\ log[Len(log)].at = clock + 1
      BY <2>1, <3>1 DEF Told, Last
    <3>3. Len(log) \in 1 .. Len(log)
      BY <2>1, <3>2
    <3>4. QED
      BY <2>1, <3>2, <3>3
  <2>3. \A id \in Clients : RhythmTrue(id)'
    BY <1>0, <1>1, RhythmTick DEF RhythmInv
  <2>4. QED
    BY <2>1, <2>2, <2>3 DEF RhythmInv, HitsTrue, Clients, Identity
<1>2. ASSUME NEW s \in Signal, NEW now \in Times, Count(s, now) PROVE RhythmInv'
  BY <1>0, <1>2, RhythmCount
<1>3. ASSUME NEW s \in Signal, NEW now \in Times,
             CountRatesOnly(s, now) \/ CountUnanswered(s, now)
      PROVE  RhythmInv'
  <2>1. now > 0
    BY <1>0, Constants DEF Typed, Times
  <2>2. CASE CountRatesOnly(s, now)
    <3> DEFINE e == Entry(s, now, [k \in Keys(s) |-> Rate(k, now)], FALSE, {})
    <3>1. log' = Append(log, e) /\ clock' = clock /\ hash' = hash
      BY <2>2 DEF CountRatesOnly
    <3>2. e.now = now /\ e.observed = FALSE /\ e.hits = {}
      BY DEF Entry
    <3> HIDE DEF e
    <3>3. QED
      BY <1>0, <2>1, <3>1, <3>2, RhythmMissed
  <2>3. CASE CountUnanswered(s, now)
    <3> DEFINE e == Entry(s, now, NoRates, FALSE, {})
    <3>1. log' = Append(log, e) /\ clock' = clock /\ hash' = hash
      BY <2>3 DEF CountUnanswered
    <3>2. e.now = now /\ e.observed = FALSE /\ e.hits = {}
      BY DEF Entry
    <3> HIDE DEF e
    <3>3. QED
      BY <1>0, <2>1, <3>1, <3>2, RhythmMissed
  <2>4. QED
    BY <1>3, <2>2, <2>3
<1>4. CASE UNCHANGED cvars
  <2>1. clock' = clock /\ hash' = hash /\ log' = log
    BY <1>4 DEF cvars
  <2>2. \A id : Seen(id)' = Seen(id) /\ StatsOf(id)' = StatsOf(id)
    BY <2>1 DEF Seen, StatsOf, Identity
  <2>3. \A id : Covered(id)' = Covered(id)
    BY <2>1, <2>2, InsOfState, InsOfNext
  <2>4. ASSUME NEW id \in Clients PROVE RhythmTrue(id)'
    <3>1. RhythmTrue(id)
      BY DEF RhythmInv
    <3>2. StatsMatch(StatsOf(id)', log', Covered(id)')
      BY <2>1, <2>2, <2>3, <3>1 DEF RhythmTrue
    <3>3. StatsMatch(StatsOf(id), log, Covered(id))'
      BY <3>2 DEF StatsMatch, GapsIn, GapIn, GapSum, GapSquares
    <3>4. QED
      BY <2>1, <2>2, <2>3, <3>1, <3>3 DEF RhythmTrue
  <2>5. HitsTrue'
    <3>1. Told' = Told /\ Last(log') = Last(log)
      BY <2>1 DEF Told
    <3>2. HitsTrue
      BY DEF RhythmInv
    <3> DEFINE id == Identity(Last(log).sig)
    <3>3. Last(log').hits = BehaviorHits(StatsOf(id)') <=> Last(log).hits = BehaviorHits(StatsOf(id))
      BY <2>2, <3>1
    <3>4. id = Identity(Last(log').sig)
      BY <3>1
    <3>5. QED
      BY <3>1, <3>2, <3>3, <3>4 DEF HitsTrue, BehaviorHits, CrawlPattern, SingleEndpoint,
                                  MachineRhythm, CVBelow, Identity
  <2>6. QED
    BY <2>1, <2>4, <2>5 DEF RhythmInv, Clients, Identity
<1>5. QED
  BY <1>1, <1>2, <1>3, <1>4 DEF Next

\* The statistics of every client are those of its requests at the start and
\* stay so.
THEOREM RhythmInvariant == Spec => []RhythmInv
<1>1. Init => RhythmInv
  <2> SUFFICES ASSUME Init PROVE RhythmInv
    OBVIOUS
  <2>1. log = <<>> /\ hash = [x \in {} |-> NoStats]
    BY DEF Init
  <2>2. ASSUME NEW id PROVE RhythmTrue(id)
    <3>1. Covered(id) = {} /\ id \notin DOMAIN hash /\ StatsOf(id) = NoStats
      BY <2>1 DEF Covered, Seen, StatsOf
    <3>2. QED
      BY <3>1, NoStatsMatch DEF RhythmTrue
  <2>3. QED
    BY <2>1, <2>2 DEF RhythmInv, HitsTrue, Told
<1>2. CountsTrue /\ RhythmInv /\ [Next]_cvars => RhythmInv'
  BY RhythmStep
<1>3. QED
  BY <1>1, <1>2, CountsInvariant, PTL DEF Spec

\* The invariant says what RhythmIsReal asks for.
LEMMA RhythmInvReal == RhythmInv => RhythmIsReal
<1> SUFFICES ASSUME RhythmInv, NEW id \in Clients
    PROVE  /\ StatsOf(id).n = Cardinality(Covered(id))
           /\ StatsOf(id).paths = {log[i].sig.path : i \in Covered(id)}
           /\ StatsOf(id).dn = Cardinality(Gaps(id))
           /\ StatsOf(id).dsum = SumFunction([g \in Gaps(id) |-> g[2]])
           /\ StatsOf(id).dsq = SumFunction([g \in Gaps(id) |-> g[2] * g[2]])
  BY Zenon DEF RhythmIsReal, Clients
<1>1. StatsMatch(StatsOf(id), log, Covered(id)) /\ Gaps(id) = GapsIn(log, Covered(id))
  BY InsOfState DEF RhythmInv, RhythmTrue
<1>2. QED
  BY <1>1 DEF StatsMatch, GapSum, GapSquares

\* The statistics a client is judged by are those of its own requests in the
\* order Redis saw them, whatever instances answered and whatever failed.
THEOREM RhythmIsRealHolds == Spec => []RhythmIsReal
BY RhythmInvariant, RhythmInvReal, PTL

\* A steady client's gaps add up to what no spread has.
LEMMA SteadySums ==
  ASSUME NEW G, IsFiniteSet(G), NEW d \in Nat, \A g \in G : g[2] = d
  PROVE  /\ Cardinality(G) \in Nat
         /\ GapSum(G) = Cardinality(G) * d
         /\ GapSquares(G) = Cardinality(G) * (d * d)
<1> DEFINE f == [g \in G |-> g[2]]
           f2 == [g \in G |-> g[2] * g[2]]
           dd == d * d
<1>1. DOMAIN f = G /\ DOMAIN f2 = G /\ \A x \in G : f[x] = d /\ f2[x] = dd
  OBVIOUS
<1>2. GapSum(G) = SumFunctionOnSet(f, G) /\ GapSquares(G) = SumFunctionOnSet(f2, G)
  BY <1>1 DEF GapSum, GapSquares, SumFunction
<1>3. dd \in Nat
  OBVIOUS
<1> HIDE DEF f, f2, dd
<1>4. GapSum(G) = Cardinality(G) * d /\ GapSquares(G) = Cardinality(G) * dd
  BY <1>1, <1>2, <1>3, SumConstant
<1>5. QED
  BY <1>4, FS_CardinalityType DEF dd

\* When all gaps are alike the variance is 0, below every bound.
LEMMA NoSpread ==
  ASSUME NEW n \in Nat, n >= 2, NEW d \in Nat, d > 0, NEW h,
         h.dn = n, h.dsum = n * d, h.dsq = n * (d * d), NEW percent \in Nat, percent > 0
  PROVE  CVBelow(h, percent)
<1> DEFINE sum == n * d
<1>1. sum \in Nat /\ sum > 0
  <2>1. n >= 1 /\ d >= 1
    OBVIOUS
  <2>2. QED
    BY <2>1
<1>2. n * (n * (d * d)) = sum * sum
  OBVIOUS
<1>3. Max({0, h.dn * h.dsq - h.dsum * h.dsum}) = 0
  <2>1. h.dn * h.dsq - h.dsum * h.dsum = 0
    <3>1. h.dn * h.dsq = sum * sum /\ h.dsum = sum
      BY <1>2
    <3> HIDE DEF sum
    <3>2. sum * sum \in Int
      BY <1>1
    <3>3. QED
      BY <3>1, <3>2
  <2>2. Max({0}) = 0
    BY LargestIs
  <2>3. {0, h.dn * h.dsq - h.dsum * h.dsum} = {0}
    BY <2>1
  <2>4. QED
    BY <2>2, <2>3
<1>4. percent * percent * h.dsum * h.dsum > 0
  <2>1. h.dsum = sum
    OBVIOUS
  <2> HIDE DEF sum
  <2> DEFINE a == percent * percent
             b == a * sum
  <2>2. a \in Nat /\ a > 0
    OBVIOUS
  <2> HIDE DEF a
  <2>3. b \in Nat /\ b > 0
    BY <1>1, <2>2
  <2> HIDE DEF b
  <2>4. b * sum > 0
    BY <1>1, <2>3
  <2>5. QED
    BY <2>1, <2>4 DEF a, b
<1>5. 0 * 10000 < percent * percent * h.dsum * h.dsum
  BY <1>4
<1>6. h.dn >= 2 /\ h.dsum > 0
  BY <1>1
<1> DEFINE variance == Max({0, h.dn * h.dsq - h.dsum * h.dsum})
           bound == percent * percent * h.dsum * h.dsum
<1>7. CVBelow(h, percent) <=> h.dn >= 2 /\ h.dsum > 0 /\ variance * 10000 < bound
  BY DEF CVBelow
<1>8. variance = 0 /\ 0 * 10000 < bound
  BY <1>3, <1>5
<1> HIDE DEF variance, bound
<1>9. QED
  BY <1>6, <1>7, <1>8

\* The statistics of a steady client meet machine_rhythm.
LEMMA RhythmInvSteady == Typed /\ RhythmInv => SteadyClientShows
<1> SUFFICES ASSUME Typed, RhythmInv, RhythmCV > 0, Told, Last(log).observed,
                    Cardinality(Gaps(Identity(Last(log).sig))) >= Max({2, RhythmMinN}),
                    Cardinality({g[2] : g \in Gaps(Identity(Last(log).sig))}) = 1
             PROVE  "machine_rhythm" \in Last(log).hits
  BY Zenon DEF SteadyClientShows
<1> DEFINE id == Identity(Last(log).sig)
           h == StatsOf(id)
           G == Gaps(id)
<1>1. id \in Clients
  <2>1. Len(log) \in 1 .. Len(log)
    BY DEF Typed, Told
  <2>2. Last(log).sig \in Signal
    BY <2>1 DEF Typed, Last
  <2>3. QED
    BY <2>2 DEF Clients
<1>2. G = GapsIn(log, Covered(id)) /\ StatsMatch(h, log, Covered(id))
  BY <1>1, InsOfState DEF RhythmInv, RhythmTrue
<1>3. h.dn = Cardinality(G) /\ h.dsum = GapSum(G) /\ h.dsq = GapSquares(G)
  BY <1>2 DEF StatsMatch
<1>4. IsFiniteSet(G) /\ \A g \in G : g[2] \in Nat /\ g[2] > 0
  <2>1. IsFiniteSet(Covered(id))
    BY SeenTypes
  <2>2. QED
    BY <1>2, <2>1, GapsFinite, GapsPositive
<1>5. Last(log).hits = BehaviorHits(h)
  BY DEF RhythmInv, HitsTrue
<1>6. Cardinality(G) >= Max({2, RhythmMinN}) /\ Cardinality({g[2] : g \in G}) = 1
  OBVIOUS
<1> HIDE DEF G, h, id
<1>7. PICK d : {g[2] : g \in G} = {d}
  <2> DEFINE D == {g[2] : g \in G}
             f == [g \in G |-> g[2]]
  <2>1. f \in Surjection(G, D)
    BY DEF Surjection
  <2>2. IsFiniteSet(D)
    BY <1>4, <2>1, FS_Surjection
  <2> HIDE DEF D
  <2>3. \E d : D = {d}
    BY <1>6, <2>2, FS_Singleton DEF D
  <2>4. QED
    BY <2>3 DEF D
<1>8. (\A g \in G : g[2] = d) /\ d \in Nat /\ d > 0
  <2>1. \A g \in G : g[2] \in {d}
    BY <1>7
  <2>2. \E g \in G : g[2] = d
    <3>1. d \in {g[2] : g \in G}
      BY <1>7
    <3>2. QED
      BY <3>1
  <2>3. QED
    BY <1>4, <2>1, <2>2
<1>9. /\ Cardinality(G) \in Nat /\ GapSum(G) = Cardinality(G) * d
      /\ GapSquares(G) = Cardinality(G) * (d * d)
  BY <1>4, <1>8, SteadySums
<1>10. Cardinality(G) >= 2 /\ Cardinality(G) >= RhythmMinN
  <2>1. 2 \in Int /\ RhythmMinN \in Int /\ (2 >= RhythmMinN \/ RhythmMinN >= 2)
    BY TimeAssumption
  <2>2. Max({2, RhythmMinN}) \in Int /\ Max({2, RhythmMinN}) >= 2 /\ Max({2, RhythmMinN}) >= RhythmMinN
    <3>1. \E x \in {2, RhythmMinN} : \A y \in {2, RhythmMinN} : x >= y
      BY <2>1
    <3>2. QED
      BY <2>1, <3>1 DEF Max
  <2>3. QED
    BY <1>6, <1>9, <2>1, <2>2
<1>11. CVBelow(h, RhythmCV)
  <2>1. RhythmCV \in Nat
    BY TimeAssumption
  <2> DEFINE n == Cardinality(G)
  <2>2. n \in Nat /\ n >= 2 /\ h.dn = n /\ h.dsum = n * d /\ h.dsq = n * (d * d)
    BY <1>3, <1>9, <1>10
  <2> HIDE DEF n
  <2>3. QED
    BY <1>8, <2>1, <2>2, NoSpread
<1>12. MachineRhythm(h)
  BY <1>3, <1>10, <1>11 DEF MachineRhythm
<1>13. QED
  BY <1>5, <1>12 DEF BehaviorHits

\* For any bounds: enough gaps of one client that are all alike are told apart
\* as a machine's.
THEOREM SteadyClientShowsHolds == Spec => []SteadyClientShows
<1>1. CountsTrue => Typed
  BY DEF CountsTrue
<1>2. QED
  BY <1>1, CountsInvariant, RhythmInvariant, RhythmInvSteady, PTL

------------------------------------------------------------------------------
(* From a rate to a score *)

\* A quotient and its remainder.
LEMMA Quotient ==
  ASSUME NEW a \in Nat, NEW b \in Nat \ {0}
  PROVE  a \div b \in Nat /\ (a \div b) * b =< a /\ a < (a \div b) * b + b
OBVIOUS

\* A rate within the limit, both with m of ClearanceMult to spare, scores at most One.
LEMMA WithinScores ==
  ASSUME NEW rate \in Nat, NEW f \in Nat, NEW l \in Nat \ {0}, NEW c \in Nat \ {0},
         NEW m \in Nat \ {0}, NEW one \in Nat, NEW q \in Nat,
         rate * f =< l * m, q * (l * c) =< rate * one * f
  PROVE  q * c =< one * m
<1>1. rate * one * f =< one * m * l
  <2>1. (rate * f) * one =< (l * m) * one
    OBVIOUS
  <2>2. QED
    BY <2>1
<1>2. (q * c) * l =< (one * m) * l
  BY <1>1
<1>3. (q * c > one * m) => (q * c) * l > (one * m) * l
  OBVIOUS
<1>4. QED
  BY <1>2, <1>3

\* A rate that reaches the limit scores at least One for a client without a
\* clearance.
LEMMA OverScores ==
  ASSUME NEW rate \in Nat, NEW f \in Nat, NEW l \in Nat \ {0}, NEW c \in Nat \ {0},
         NEW one \in Nat, NEW q \in Nat,
         rate * f >= l, q * (l * c) = rate * one * f
  PROVE  q * c >= one
<1>1. rate * one * f >= one * l
  <2>1. (rate * f) * one >= l * one
    OBVIOUS
  <2>2. QED
    BY <2>1
<1>2. (q * c) * l >= one * l
  BY <1>1
<1>3. (q * c < one) => (q * c) * l < one * l
  OBVIOUS
<1>4. QED
  BY <1>2, <1>3

\* A multiple is divided without a rest.
LEMMA Exactly ==
  ASSUME NEW rate \in Nat, NEW x \in Nat, NEW b \in Nat \ {0}, x % b = 0
  PROVE  ((rate * x) \div b) * b = rate * x
<1> DEFINE c == x \div b
           k == rate * c
           q == (rate * x) \div b
<1>1. c \in Nat /\ x = c * b
  <2>1. x = (x \div b) * b + (x % b) /\ x \div b \in Nat
    OBVIOUS
  <2>2. QED
    BY <2>1
<1> HIDE DEF c
<1>2. k \in Nat /\ rate * x = k * b
  BY <1>1
<1> HIDE DEF k
<1>3. rate * x \in Nat
  BY <1>2
<1>4. q \in Nat /\ q * b =< k * b /\ k * b < q * b + b
  BY <1>2, <1>3, Quotient
<1> HIDE DEF q
<1>5. q = k
  <2>1. q < k => (q + 1) * b =< k * b
    BY <1>2, <1>4
  <2>2. q > k => q * b > k * b
    BY <1>2, <1>4
  <2>3. (q + 1) * b = q * b + b
    BY <1>4
  <2>4. ~(q < k) /\ ~(q > k)
    BY <1>2, <1>4, <2>1, <2>2, <2>3
  <2>5. QED
    BY <1>2, <1>4, <2>4
<1>6. QED
  BY <1>2, <1>5 DEF q

\* A limit is positive, and for a dimension without exceptions no network's is
\* above the default.
LEMMA LimitTypes ==
  ASSUME NEW d, d.name \in Counting, NEW n
  PROVE  /\ LimitFactor(d, n) \in Nat \ {0} /\ LimitOf(d, n) \in Nat \ {0}
         /\ d.name \in NoFactors \/ d.name \notin Aggregates
              => LimitOf(d, n) =< Limit[d.name] * DefaultFactor * Window
<1>1. /\ Limit[d.name] \in Nat \ {0} /\ DefaultFactor \in Nat \ {0} /\ Window \in Nat \ {0}
      /\ \A t \in DOMAIN Factors : Factors[t] \in Nat \ {0}
      /\ \A t \in DOMAIN ConnFactors : ConnFactors[t] \in Nat \ {0}
  BY LimitAssumption, TimeAssumption
<1>2. LimitFactor(d, n) \in Nat \ {0}
  BY <1>1 DEF LimitFactor
<1>3. d.name \in NoFactors \/ d.name \notin Aggregates => LimitFactor(d, n) =< DefaultFactor
  BY <1>1, DefaultsAssumption DEF LimitFactor
<1> DEFINE l == Limit[d.name]
           f == LimitFactor(d, n)
<1>4. LimitOf(d, n) = l * f * Window
  BY DEF LimitOf
<1> HIDE DEF l, f
<1>5. l \in Nat \ {0} /\ f \in Nat \ {0}
  BY <1>1, <1>2 DEF l, f
<1>6. l * f \in Nat \ {0}
  BY <1>5
<1>7. l * f * Window \in Nat \ {0}
  BY <1>1, <1>6
<1>8. ASSUME f =< DefaultFactor PROVE l * f * Window =< l * DefaultFactor * Window
  <2>1. l * f =< l * DefaultFactor /\ l * DefaultFactor \in Nat
    BY <1>1, <1>5, <1>8
  <2>2. QED
    BY <1>1, <1>6, <2>1
<1>9. QED
  BY <1>2, <1>3, <1>4, <1>7, <1>8 DEF l, f

\* What an active dimension told: a sliding estimate, short of it by what the
\* clocks can forget.
LEMMA ToldRate ==
  ASSUME CountsTrue, Told, NEW d \in ActiveDimensions(Last(log).sig)
  PROVE  LET e == Last(log)
             rate == e.rates[KeyOf(d, e.sig)]
         IN  /\ rate \in Nat /\ rate =< Asked(d, e) /\ Asked(d, e) - Forgotten(d, e) =< rate
             /\ Asked(d, e) \in Int /\ Forgotten(d, e) \in Int
             /\ d \in Dimensions /\ d.name \in Counting
<1> DEFINE e == Last(log)
           k == KeyOf(d, e.sig)
<1>1. e.sig \in Signal /\ e.now \in Nat /\ e.rates \in [Keys(e.sig) -> Nat]
  <2>1. Typed /\ Told
    BY DEF CountsTrue
  <2>2. Len(log) \in 1 .. Len(log) /\ e = log[Len(log)]
    BY ONLY <2>1 DEF Typed, Told, Last
  <2>3. QED
    BY <2>2 DEF CountsTrue, Typed, Told
<1>2. k \in Keys(e.sig)
  BY <1>1 DEF Keys, KeysBy
<1> DEFINE before == Requested(k, BucketOf(e.now) - 1)
           now == Requested(k, BucketOf(e.now))
<1>3. e.rates[k] \in Nat
  BY <1>1, <1>2
<1>4. e.rates[k] \in Asked(d, e) - Forgotten(d, e) .. Asked(d, e)
  <2>1. k \in DOMAIN e.rates
    BY <1>1, <1>2
  <2>2. RatesAreCounts
    BY DEF CountsTrue
  <2>3. QED
    BY <2>1, <2>2 DEF RatesAreCounts, Asked, Forgotten
<1>5. Asked(d, e) \in Int /\ Forgotten(d, e) \in Int
  <2>1. BucketOf(e.now) \in Nat /\ e.now % Window \in 0 .. Window - 1
    BY <1>1, InBucket
  <2>2. before \in Nat /\ now \in Nat
    <3>1. k \in AllKeys /\ Typed
      BY <1>1, <1>2, KeysOfClients DEF CountsTrue
    <3> DEFINE b == BucketOf(e.now)
    <3>2. b \in Int /\ b - 1 \in Int
      BY <2>1
    <3> HIDE DEF b, k
    <3>3. Requested(k, b) \in Nat /\ Requested(k, b - 1) \in Nat
      BY <3>1, <3>2, RequestedCounts
    <3>4. QED
      BY <3>3 DEF b, k
  <2>3. /\ Asked(d, e) = now * Window + before * (Window - (e.now % Window))
        /\ Forgotten(d, e) = before * (MaxSkew + MaxLag)
    BY DEF Asked, Forgotten, Estimate
  <2> HIDE DEF before, now, e
  <2>4. QED
    BY <2>1, <2>2, <2>3, Constants
<1>6. d \in Dimensions /\ d.name \in Counting
  BY DEF ActiveDimensions
<1>7. QED
  BY <1>3, <1>4, <1>5, <1>6

\* The dimensions of a request that have a name, and what one of them scores.
Named(e, name) == {d \in ActiveDimensions(e.sig) : d.name = name}
ScoreOf(e, n, d) == Ratio(d, e.rates[KeyOf(d, e.sig)], n)

RatioOf(e, n, name) == IF Named(e, name) = {} THEN 0
                       ELSE ScoreOf(e, n, CHOOSE d \in Named(e, name) : TRUE)

\* Request r is what measure makes of what the client of entry e was told.
Measured(e, n, cleared, r) ==
  /\ r.kind = "browser" /\ r.cleared = cleared /\ r.asn = "none" /\ r.fails = 0
  /\ r.storeOK /\ r.badPair = FALSE /\ r.hosting = (n.usage \in HostingTypes)
  /\ r.behavior = SumFunction([hit \in e.hits |-> Weight(hit)])
  /\ \A name \in Dimension : r.ratio[name] = RatioOf(e, n, name)

\* The request RateLimits builds is the one measured.
LEMMA RequestIs ==
  ASSUME NEW e, e.rates # NoRates, NEW n, NEW cleared
  PROVE  Measured(e, n, cleared, Request(e, n, cleared))
<1> DEFINE ratio(name) == IF e.rates = NoRates \/ Named(e, name) = {} THEN 0
                          ELSE ScoreOf(e, n, CHOOSE d \in Named(e, name) : TRUE)
           weight == SumFunction([hit \in e.hits |-> Weight(hit)])
           ok == e.rates # NoRates
           r == Request(e, n, cleared)
<1>1. r = [kind |-> "browser", cleared |-> cleared, asn |-> "none",
           hosting |-> n.usage \in HostingTypes, fails |-> 0,
           storeOK |-> ok, ratio |-> [name \in Dimension |-> ratio(name)],
           behavior |-> weight, badPair |-> FALSE, botNet |-> "unknown",
           onMatch |-> "allow", onMismatch |-> "allow", flood |-> FALSE]
  BY Zenon DEF Request, Named, ScoreOf
<1>2. ok /\ \A name \in Dimension : ratio(name) = RatioOf(e, n, name)
  BY DEF RatioOf
<1> HIDE DEF r, ratio, weight, ok
<1>3. /\ r.kind = "browser" /\ r.cleared = cleared /\ r.asn = "none" /\ r.fails = 0
      /\ r.badPair = FALSE /\ r.behavior = weight
      /\ \A name \in Dimension : r.ratio[name] = ratio(name)
  BY ONLY <1>1
<1>4. r.hosting = (n.usage \in HostingTypes)
  BY ONLY <1>1, Zenon
<1>5. r.storeOK
  BY ONLY <1>1, <1>2, Zenon
<1>6. QED
  BY <1>2, <1>3, <1>4, <1>5 DEF Measured, weight, r

\* The rules met add their weights.
LEMMA BehaviorWeighs ==
  ASSUME NEW hits \in SUBSET Rules
  PROVE  /\ SumFunction([hit \in hits |-> Weight(hit)]) \in Nat
         /\ hits = {} => SumFunction([hit \in hits |-> Weight(hit)]) = 0
<1> DEFINE f == [hit \in hits |-> Weight(hit)]
<1>1. SumFunction(f) = SumFunctionOnSet(f, hits)
  BY DEF SumFunction, SumFunctionOnSet, FoldFunction
<1>2. IsFiniteSet(hits)
  <2>1. IsFiniteSet(Rules)
    <3>1. Rules = {"crawl_pattern"} \cup {"single_endpoint"} \cup {"machine_rhythm"}
      BY DEF Rules
    <3>2. QED
      BY <3>1, FS_Singleton, FS_Union
  <2>2. QED
    BY <2>1, FS_Subset
<1>3. \A hit \in hits : f[hit] \in Nat
  BY LimitAssumption DEF Rules, Weight
<1> HIDE DEF f
<1>4. SumFunctionOnSet(f, hits) \in Nat
  BY <1>2, <1>3, SumOfNaturals
<1>5. hits = {} => SumFunctionOnSet(f, hits) = 0
  BY SumEmpty
<1>6. QED
  BY <1>1, <1>4, <1>5 DEF f

\* Scores and weights have the types Evaluate takes.
LEMMA RequestTypes ==
  ASSUME CountsTrue, RhythmInv, Told, NEW n, NEW cleared,
         NEW e, e = Last(log), NEW r, r = Request(e, n, cleared)
  PROVE  /\ \A name \in Dimension : r.ratio[name] \in Nat
         /\ r.behavior \in Nat /\ (e.hits = {} => r.behavior = 0)
<1> DEFINE score(d) == ScoreOf(e, n, d)
<1>0. Measured(e, n, cleared, r)
  BY RequestIs DEF Told
<1>1. ASSUME NEW d \in ActiveDimensions(e.sig) PROVE score(d) \in Nat
  <2> DEFINE rate == e.rates[KeyOf(d, e.sig)]
             l == LimitOf(d, n)
  <2>1. rate \in Nat /\ d.name \in Counting
    BY <1>1, ToldRate
  <2>2. l \in Nat \ {0}
    BY <2>1, LimitTypes
  <2>3. score(d) = (rate * One * FactorOne) \div (l * ClearanceMult)
    BY DEF Ratio, ScoreOf
  <2> HIDE DEF rate, l, score
  <2>4. rate * One \in Nat /\ l * ClearanceMult \in Nat \ {0}
    BY <2>1, <2>2, ScoreAssumption
  <2>5. rate * One * FactorOne \in Nat
    BY <2>4, LimitAssumption
  <2>6. QED
    BY <2>3, <2>4, <2>5, Quotient
<1>2. ASSUME NEW name \in Dimension PROVE r.ratio[name] \in Nat
  <2>1. r.ratio[name] = RatioOf(e, n, name)
    BY <1>0 DEF Measured
  <2>2. Named(e, name) # {} => (CHOOSE d \in Named(e, name) : TRUE) \in ActiveDimensions(e.sig)
    BY DEF Named
  <2>3. QED
    BY <1>1, <2>1, <2>2 DEF RatioOf
<1>3. e.hits \in SUBSET Rules
  <2>1. Len(log) \in 1 .. Len(log) /\ e = log[Len(log)]
    BY DEF CountsTrue, Typed, Told, Last
  <2>2. QED
    BY <2>1 DEF RhythmInv
<1>4. r.behavior = SumFunction([hit \in e.hits |-> Weight(hit)])
  BY <1>0 DEF Measured
<1>5. QED
  BY <1>2, <1>3, <1>4, BehaviorWeighs

\* A browser from an address with no failures is decided by the thresholds,
\* unless it has no clearance and is challenged for its network.
LEMMA Thresholds ==
  ASSUME NEW e, NEW n, NEW cleared \in BOOLEAN, NEW r, Measured(e, n, cleared, r),
         NEW v \in Evaluate(r)
  PROVE  \/ ~cleared /\ v.decision = "Challenge"
         \/ \E worst \in Worsts(r) : v = Threshold(r, worst)
<1>1. /\ r.kind = "browser" /\ r.cleared = cleared /\ r.asn = "none" /\ r.fails = 0
      /\ r.storeOK
  BY DEF Measured
<1>2. Evaluate(r) = EvaluateCounted(r)
  BY <1>1 DEF Evaluate, UsedUp, Counted
<1> DEFINE late == AtLeast(Score(r), ChallengeAt)
<1>3. CASE ChallengeHosting /\ r.hosting /\ r.kind = "browser" /\ ~r.cleared
  <2>1. v = Verdict("Challenge", "hosting_browser", "", late)
    BY <1>1, <1>2, <1>3 DEF EvaluateCounted
  <2> HIDE DEF late
  <2>2. v.decision = "Challenge"
    BY <2>1 DEF Verdict
  <2>3. ~cleared
    BY <1>1, <1>3, Zenon
  <2>4. QED
    BY <2>2, <2>3
<1>4. CASE ~(ChallengeHosting /\ r.hosting /\ r.kind = "browser" /\ ~r.cleared)
  <2>1. v \in {Threshold(r, worst) : worst \in Worsts(r)}
    BY <1>1, <1>2, <1>4 DEF EvaluateCounted
  <2>2. QED
    BY <2>1
<1>5. QED
  BY <1>3, <1>4

\* With a clearance there is a verdict, from the thresholds.
LEMMA VerdictOfCleared ==
  ASSUME NEW e, NEW n, NEW r, Measured(e, n, TRUE, r)
  PROVE  Evaluate(r) # {}
<1>1. /\ r.kind = "browser" /\ r.cleared = TRUE /\ r.asn = "none" /\ r.fails = 0
      /\ r.storeOK
  BY DEF Measured
<1>2. Evaluate(r) = EvaluateCounted(r)
  BY <1>1 DEF Evaluate, UsedUp, Counted
<1>3. EvaluateCounted(r) = {Threshold(r, worst) : worst \in Worsts(r)}
  BY <1>1 DEF EvaluateCounted
<1>4. Worsts(r) # {}
  BY DEF Worsts
<1>5. QED
  BY <1>2, <1>3, <1>4

\* The values of a function on a finite set are finitely many.
LEMMA FiniteImage ==
  ASSUME NEW S, IsFiniteSet(S), NEW f
  PROVE  IsFiniteSet({f[x] : x \in S})
<1> DEFINE g == [x \in S |-> f[x]]
           T == {f[x] : x \in S}
<1>1. g \in Surjection(S, T)
  BY DEF Surjection
<1>2. QED
  BY <1>1, FS_Surjection

\* A browser's request with nothing against it but rates and behavior.
Plain(r) ==
  /\ r.cleared \in BOOLEAN /\ r.kind = "browser" /\ r.badPair = FALSE
  /\ r.behavior \in Nat /\ \A d \in Dimension : r.ratio[d] \in Nat

OwnWithinOne(r) == \A d \in Dimension \ SharedDim : RateScore(r, d) =< One

\* The scores of the rates are numbers, and ordered as the ratios are.
LEMMA RateScores ==
  ASSUME NEW r, Plain(r)
  PROVE  /\ \A d \in Dimension : RateScore(r, d) \in Nat
         /\ \A d, e \in Dimension : r.ratio[e] =< r.ratio[d] => RateScore(r, e) =< RateScore(r, d)
         /\ \A d \in Dimension : r.ratio[d] = 0 => RateScore(r, d) = 0
<1> DEFINE m == IF r.cleared THEN 1 ELSE ClearanceMult
<1>1. m \in Nat /\ \A d : RateScore(r, d) = r.ratio[d] * m
  BY ScoreAssumption DEF RateScore, Plain
<1> HIDE DEF m
<1>2. \A a \in Nat : a * m \in Nat /\ 0 * m = 0
  BY <1>1
<1>3. ASSUME NEW a \in Nat, NEW b \in Nat, a =< b PROVE a * m =< b * m
  <2> DEFINE c == b - a
  <2>1. c \in Nat /\ b = a + c
    BY <1>3
  <2> HIDE DEF c
  <2>2. b * m = a * m + c * m
    BY <1>1, <2>1
  <2>3. QED
    BY <1>2, <2>1, <2>2
<1>4. QED
  BY <1>1, <1>2, <1>3 DEF Plain

\* Without a weight on top, and with every rate of the visitor's own within One,
\* a verdict with the name of one of his own dimensions, or none, has a score
\* within One.
LEMMA OwnScore ==
  ASSUME NEW r, Plain(r), r.behavior = 0, OwnWithinOne(r),
         NEW worst \in Worsts(r), worst \notin SharedDim
  PROVE  Score(r) =< One /\ Score(r) \in Nat
<1> DEFINE S == {0} \cup {RateScore(r, d) : d \in Dimension}
<1>1. Score(r) = Max(S) + 0
  BY DEF Score, Extra, EmptyUA, Mismatch, Plain
<1>2. S \in SUBSET Nat /\ S \in SUBSET Int
  BY RateScores
<1>3. CASE WorstDimensions(r) # {}
  <2>1. /\ worst \in Dimension \ SharedDim
        /\ \A e \in Dimension : r.ratio[e] =< r.ratio[worst]
    BY <1>3 DEF Worsts, WorstDimensions
  <2>2. \A e \in Dimension : RateScore(r, e) =< RateScore(r, worst)
    BY <2>1, RateScores
  <2>3. RateScore(r, worst) \in S /\ RateScore(r, worst) \in Nat
    BY <2>1, RateScores
  <2>4. \A y \in S : RateScore(r, worst) >= y
    BY <2>2, <2>3
  <2> HIDE DEF S
  <2>5. Max(S) = RateScore(r, worst)
    BY <1>2, <2>3, <2>4, LargestIs
  <2>6. QED
    BY <1>1, <2>1, <2>3, <2>5 DEF OwnWithinOne
<1>4. CASE WorstDimensions(r) = {}
  <2>1. ASSUME NEW d \in Dimension PROVE RateScore(r, d) = 0
    <3> DEFINE R == {r.ratio[x] : x \in Dimension}
    <3>1. R \in SUBSET Int /\ R # {} /\ IsFiniteSet(R)
      <4>1. R \in SUBSET Int /\ R # {}
        BY DEF Plain
      <4>2. IsFiniteSet(R)
        BY DimensionAssumption, FiniteImage, Zenon
      <4>3. QED
        BY <4>1, <4>2
    <3>2. Max(R) \in R /\ \A y \in R : Max(R) >= y
      <4> HIDE DEF R
      <4>1. QED
        BY <3>1, HasMax
    <3>3. PICK w \in Dimension : \A x \in Dimension : r.ratio[w] >= r.ratio[x]
      BY <3>2
    <3>4. ~(r.ratio[w] > 0)
      BY <1>4, <3>3 DEF WorstDimensions, Plain
    <3>5. r.ratio[d] = 0
      BY <3>3, <3>4 DEF Plain
    <3>6. QED
      BY <3>5, RateScores
  <2>2. 0 \in S /\ \A y \in S : 0 >= y
    BY <2>1
  <2> HIDE DEF S
  <2>3. Max(S) = 0
    BY <1>2, <2>2, LargestIs
  <2>4. QED
    BY <1>1, <2>3, ScoreAssumption
<1>5. QED
  BY <1>3, <1>4

\* No dimension scores more than the request.
LEMMA ScoreAbove ==
  ASSUME NEW r, Plain(r), NEW d \in Dimension
  PROVE  Score(r) >= RateScore(r, d) /\ Score(r) \in Int
<1> DEFINE R == {RateScore(r, x) : x \in Dimension}
           S == {0} \cup R
<1>1. Score(r) = Max(S) + (r.behavior + 0 + 0)
  BY DEF Score, Extra, EmptyUA, Mismatch, Plain
<1>2. S \in SUBSET Int /\ RateScore(r, d) \in S
  BY RateScores
<1>3. IsFiniteSet(S)
  <2>1. IsFiniteSet(R)
    <3> DEFINE f == [x \in Dimension |-> RateScore(r, x)]
    <3>1. R = {f[x] : x \in Dimension}
      OBVIOUS
    <3> HIDE DEF f, R
    <3>2. QED
      BY <3>1, DimensionAssumption, FiniteImage
  <2> HIDE DEF R
  <2>2. QED
    BY <2>1, FS_Singleton, FS_Union
<1> HIDE DEF S
<1>4. Max(S) \in S /\ Max(S) >= RateScore(r, d)
  BY <1>2, <1>3, HasMax
<1> DEFINE top == Max(S)
<1>5. top \in Int /\ RateScore(r, d) \in Int
  BY <1>2, <1>4
<1>6. Score(r) = top + r.behavior /\ top >= RateScore(r, d)
  <2> HIDE DEF top
  <2>1. top + (r.behavior + 0 + 0) = top + r.behavior
    BY <1>5 DEF Plain
  <2>2. QED
    BY <1>1, <1>4, <2>1 DEF top
<1> HIDE DEF top
<1>7. QED
  BY <1>5, <1>6 DEF Plain

------------------------------------------------------------------------------
(* The visitor's own traffic *)

\* How much a limit is stretched for a clearance.
Stretch(cleared) == IF cleared THEN ClearanceMult ELSE 1

\* The visitor's own requests stay within the limits, stretched or not.
Within(e, n, mult) ==
  \A d \in ActiveDimensions(e.sig) :
     d.name \notin SharedDim => Asked(d, e) * FactorOne =< LimitOf(d, n) * mult

\* A dimension within its limit scores at most One.
LEMMA OwnRate ==
  ASSUME CountsTrue, Told, NEW n, NEW cleared \in BOOLEAN, NEW e, e = Last(log),
         Within(e, n, Stretch(cleared)),
         NEW d \in ActiveDimensions(e.sig), d.name \notin SharedDim
  PROVE  ScoreOf(e, n, d) * Stretch(~cleared) =< One
<1> DEFINE rate == e.rates[KeyOf(d, e.sig)]
           asked == Asked(d, e)
           l == LimitOf(d, n)
           q == ScoreOf(e, n, d)
           mult == Stretch(cleared)
<1>1. /\ One \in Nat \ {0} /\ ClearanceMult \in Nat \ {0} /\ FactorOne \in Nat \ {0}
      /\ mult \in Nat \ {0}
  BY ScoreAssumption, LimitAssumption DEF Stretch
<1>2. rate \in Nat /\ asked \in Int /\ rate =< asked /\ d.name \in Counting
  BY ToldRate
<1>3. l \in Nat \ {0}
  BY <1>2, LimitTypes
<1>4. asked * FactorOne =< l * mult
  BY DEF Within
<1>5. q = (rate * One * FactorOne) \div (l * ClearanceMult)
  BY DEF ScoreOf, Ratio
<1>6. mult = IF cleared THEN ClearanceMult ELSE 1
  BY DEF Stretch
<1>7. Stretch(~cleared) = IF cleared THEN 1 ELSE ClearanceMult
  BY DEF Stretch
<1> HIDE DEF rate, asked, l, q, mult
<1>8. rate * FactorOne =< l * mult
  <2>1. rate * FactorOne =< asked * FactorOne
    BY <1>1, <1>2
  <2>2. rate * FactorOne \in Int /\ asked * FactorOne \in Int /\ l * mult \in Int
    BY <1>1, <1>2, <1>3
  <2>3. QED
    BY <1>4, <2>1, <2>2
<1>9. q \in Nat /\ q * (l * ClearanceMult) =< rate * One * FactorOne
  <2>1. l * ClearanceMult \in Nat \ {0} /\ rate * One \in Nat
    BY <1>1, <1>2, <1>3
  <2>2. rate * One * FactorOne \in Nat
    BY <1>1, <2>1
  <2>3. QED
    BY <1>5, <2>1, <2>2, Quotient
<1>10. q * ClearanceMult =< One * mult
  BY <1>1, <1>2, <1>3, <1>8, <1>9, WithinScores
<1>11. CASE cleared
  <2>1. q * ClearanceMult =< One * ClearanceMult
    BY <1>6, <1>10, <1>11
  <2>2. q > One => q * ClearanceMult > One * ClearanceMult
    BY <1>1, <1>9
  <2>3. q =< One
    <3>1. q * ClearanceMult \in Int /\ One * ClearanceMult \in Int
      BY <1>1, <1>9
    <3>2. QED
      BY <1>1, <1>9, <2>1, <2>2, <3>1
  <2>4. q * 1 =< One
    BY <1>9, <2>3
  <2>5. QED
    BY <1>7, <1>11, <2>4 DEF q
<1>12. CASE ~cleared
  <2>1. One * 1 = One
    BY <1>1
  <2>2. QED
    BY <1>6, <1>7, <1>10, <1>12, <2>1 DEF q
<1>13. QED
  BY <1>11, <1>12

\* So every verdict has at most the score One, or the name of a shared dimension.
LEMMA OwnVerdict ==
  ASSUME CountsTrue, RhythmInv, Told, NEW n, NEW cleared \in BOOLEAN, NEW e, e = Last(log),
         e.hits = {}, Within(e, n, Stretch(cleared)),
         NEW v \in Evaluate(Request(e, n, cleared))
  PROVE  /\ v.decision # "Block"
         /\ cleared => v.decision = "Allow"
<1> DEFINE r == Request(e, n, cleared)
<1>1. Measured(e, n, cleared, r)
  BY RequestIs DEF Told
<1>2. (\A d \in Dimension : r.ratio[d] \in Nat) /\ r.behavior = 0
  BY RequestTypes
<1>3. v \in Evaluate(r)
  OBVIOUS
<1> HIDE DEF r
<1>4. /\ r.cleared = cleared /\ r.kind = "browser" /\ r.badPair = FALSE
      /\ \A name \in Dimension : r.ratio[name] = RatioOf(e, n, name)
  BY <1>1 DEF Measured
<1>5. ASSUME NEW name \in Dimension \ SharedDim PROVE RateScore(r, name) =< One
  <2>1. RateScore(r, name) = RatioOf(e, n, name) * Stretch(~cleared)
    BY <1>4 DEF RateScore, Stretch
  <2>2. CASE Named(e, name) = {}
    <3>1. RatioOf(e, n, name) = 0
      BY <2>2 DEF RatioOf
    <3>2. r.ratio[name] = 0
      BY <1>4, <3>1
    <3>3. RateScore(r, name) = 0
      BY <1>2, <1>4, <3>2, RateScores DEF Plain
    <3>4. QED
      BY <3>3, ScoreAssumption
  <2>3. CASE Named(e, name) # {}
    <3> DEFINE d == CHOOSE x \in Named(e, name) : TRUE
    <3>1. d \in ActiveDimensions(e.sig) /\ d.name \notin SharedDim
      BY <2>3 DEF Named
    <3>2. RatioOf(e, n, name) = ScoreOf(e, n, d)
      BY <2>3 DEF RatioOf
    <3> HIDE DEF d
    <3>3. ScoreOf(e, n, d) * Stretch(~cleared) =< One
      BY <3>1, OwnRate
    <3>4. QED
      BY <2>1, <3>2, <3>3
  <2>4. QED
    BY <2>2, <2>3
<1>6. ASSUME NEW worst \in Worsts(r), v = Threshold(r, worst)
      PROVE  v.decision # "Block" /\ (cleared => v.decision = "Allow")
  <2>1. worst \notin SharedDim => Score(r) =< One /\ Score(r) \in Nat
    <3>1. Plain(r) /\ r.behavior = 0 /\ OwnWithinOne(r)
      BY <1>2, <1>4, <1>5 DEF Plain, OwnWithinOne
    <3>2. QED
      BY <1>6, <3>1, OwnScore
  <2>2. /\ worst \notin SharedDim => ~(Score(r) >= BlockAt) /\ ~(Score(r) >= AbuseAt)
    BY <2>1, DefaultsAssumption, ScoreAssumption
  <2>3. \/ v.decision = "Challenge" /\ ~r.cleared
        \/ v.decision = "Allow"
    BY <1>6, <2>2 DEF Threshold, Verdict
  <2>4. QED
    BY <1>4, <2>3
<1>7. QED
  BY <1>1, <1>3, <1>6, Thresholds

\* In every state the invariants allow, the visitor answers for his own traffic
\* only.
LEMMA OwnTraffic ==
  ASSUME CountsTrue, RhythmInv
  PROVE  OwnTrafficOnly
<1> DEFINE e == Last(log)
           personal == {d \in ActiveDimensions(e.sig) : d.name \notin SharedDim}
           within(n, mult) == \A d \in personal :
                                Asked(d, e) * FactorOne =< LimitOf(d, n) * mult
<1>1. SUFFICES ASSUME Told, e.hits = {}, NEW n \in NetworksOf(e.sig)
               PROVE  /\ within(n, 1) => "Block" \notin Verdicts(e, n, FALSE)
                      /\ within(n, ClearanceMult) => Verdicts(e, n, TRUE) = {"Allow"}
  BY Zenon DEF OwnTrafficOnly
<1>2. /\ within(n, 1) => Within(e, n, Stretch(FALSE))
      /\ within(n, ClearanceMult) => Within(e, n, Stretch(TRUE))
  BY DEF Within, Stretch
<1>3. ASSUME Within(e, n, Stretch(FALSE)) PROVE "Block" \notin Verdicts(e, n, FALSE)
  BY <1>1, <1>3, OwnVerdict DEF Verdicts
<1>4. ASSUME Within(e, n, Stretch(TRUE)) PROVE Verdicts(e, n, TRUE) = {"Allow"}
  <2>1. \A v \in Evaluate(Request(e, n, TRUE)) : v.decision = "Allow"
    BY <1>1, <1>4, OwnVerdict
  <2>2. Evaluate(Request(e, n, TRUE)) # {}
    BY <1>1, RequestIs, VerdictOfCleared DEF Told
  <2>3. QED
    BY <2>1, <2>2 DEF Verdicts
<1>5. QED
  BY <1>2, <1>3, <1>4

\* A visitor answers for nobody else's traffic, whatever is counted, whoever
\* shares his fingerprint, and however the clocks of the instances differ:
\* Guard.Evaluate over the counters of both scripts.
THEOREM OwnTrafficOnlyHolds == Spec => []OwnTrafficOnly
BY CountsInvariant, RhythmInvariant, OwnTraffic, PTL

------------------------------------------------------------------------------
(* One person *)

\* No two dimensions share a name.
LEMMA NamesAreUnique ==
  ASSUME NEW d \in Dimensions, NEW x \in Dimensions, x.name = d.name
  PROVE  x = d
<1> DEFINE of(n) == CASE n = "ip_ua"       -> {"ip", "ua"}
                      [] n = "ip"          -> {"ip"}
                      [] n = "subnet"      -> {"subnet"}
                      [] n = "ip_ua@host"  -> {"host", "ip", "ua"}
                      [] n = "ip@host"     -> {"host", "ip"}
                      [] n = "subnet@host" -> {"host", "subnet"}
                      [] n = "fp@host"     -> {"host", "fprint"}
                      [] n = "fp"          -> {"fprint"}
                      [] n = "asn_fp@host" -> {"host", "asn", "fprint"}
                      [] n = "asn"         -> {"asn"}
           hosting(n) == n \in {"asn_fp@host", "asn"}
           fp(n) == n \in {"fp@host", "fp", "asn_fp@host"}
           Only(n) == [name : {n}, of : {of(n)}, hosting : {hosting(n)}, fp : {fp(n)}]
<1>1. Dimensions =
        Only("ip_ua") \cup Only("ip") \cup Only("subnet") \cup Only("ip_ua@host") \cup
        Only("ip@host") \cup Only("subnet@host") \cup Only("fp@host") \cup Only("fp") \cup
        Only("asn_fp@host") \cup Only("asn")
  <2>1. /\ of("ip_ua") = {"ip", "ua"} /\ of("ip") = {"ip"} /\ of("subnet") = {"subnet"}
        /\ of("ip_ua@host") = {"host", "ip", "ua"} /\ of("ip@host") = {"host", "ip"}
        /\ of("subnet@host") = {"host", "subnet"} /\ of("fp@host") = {"host", "fprint"}
        /\ of("fp") = {"fprint"} /\ of("asn_fp@host") = {"host", "asn", "fprint"}
        /\ of("asn") = {"asn"}
    OBVIOUS
  <2>2. /\ hosting("ip_ua") = FALSE /\ hosting("ip") = FALSE /\ hosting("subnet") = FALSE
        /\ hosting("ip_ua@host") = FALSE /\ hosting("ip@host") = FALSE
        /\ hosting("subnet@host") = FALSE /\ hosting("fp@host") = FALSE
        /\ hosting("fp") = FALSE /\ hosting("asn_fp@host") = TRUE /\ hosting("asn") = TRUE
    OBVIOUS
  <2>3. /\ fp("ip_ua") = FALSE /\ fp("ip") = FALSE /\ fp("subnet") = FALSE
        /\ fp("ip_ua@host") = FALSE /\ fp("ip@host") = FALSE
        /\ fp("subnet@host") = FALSE /\ fp("fp@host") = TRUE
        /\ fp("fp") = TRUE /\ fp("asn_fp@host") = TRUE /\ fp("asn") = FALSE
    OBVIOUS
  <2> HIDE DEF of, hosting, fp
  <2>4. QED
    BY <2>1, <2>2, <2>3, Zenon DEF Dimensions
<1> HIDE DEF of, hosting, fp
<1>2. ASSUME NEW y \in Dimensions
      PROVE  \E n : y \in Only(n)
  <2> HIDE DEF Only
  <2>1. QED
    BY <1>1
<1>3. PICK n : d \in Only(n)
  BY <1>2
<1>4. PICK m : x \in Only(m)
  BY <1>2
<1>5. n = m
  BY <1>3, <1>4
<1>6. QED
  BY <1>3, <1>4, <1>5

\* A dimension whose limit is reached scores at least One without a clearance,
\* whatever the network.
LEMMA StrictRate ==
  ASSUME CountsTrue, Told, NEW e, e = Last(log), NEW n \in Networks,
         NEW d \in ActiveDimensions(e.sig), d.name \in NoFactors \/ d.name \notin Aggregates,
         (Asked(d, e) - Forgotten(d, e)) * FactorOne >= Limit[d.name] * DefaultFactor * Window
  PROVE  ScoreOf(e, n, d) * ClearanceMult >= One
<1> DEFINE rate == e.rates[KeyOf(d, e.sig)]
           least == Asked(d, e) - Forgotten(d, e)
           top == Limit[d.name] * DefaultFactor * Window
           l == LimitOf(d, n)
           q == ScoreOf(e, n, d)
<1>1. One \in Nat \ {0} /\ ClearanceMult \in Nat \ {0} /\ FactorOne \in Nat \ {0}
  BY ScoreAssumption, LimitAssumption
<1>2. /\ rate \in Nat /\ least \in Int /\ least =< rate
      /\ d \in Dimensions /\ d.name \in Counting
  BY ToldRate
<1>3. l \in Nat \ {0} /\ l =< top
  BY <1>2, LimitTypes
<1>4. top \in Int
  <2> DEFINE k == Limit[d.name]
  <2>1. k \in Nat /\ DefaultFactor \in Nat /\ Window \in Nat
    BY <1>2, LimitAssumption, TimeAssumption
  <2> HIDE DEF k
  <2>2. k * DefaultFactor \in Nat
    BY <2>1
  <2>3. k * DefaultFactor * Window \in Nat
    BY <2>1, <2>2
  <2>4. QED
    BY <2>3 DEF k
<1>5. (One * FactorOne) % (l * ClearanceMult) = 0
  BY <1>2, ExactAssumption
<1>6. least * FactorOne >= top
  OBVIOUS
<1>7. q = (rate * One * FactorOne) \div (l * ClearanceMult)
  BY DEF ScoreOf, Ratio
<1> HIDE DEF rate, least, top, l, q
<1>8. rate * FactorOne >= l
  <2>1. rate * FactorOne >= least * FactorOne
    BY <1>1, <1>2
  <2>2. rate * FactorOne \in Int /\ least * FactorOne \in Int
    BY <1>1, <1>2
  <2>3. QED
    BY <1>3, <1>4, <1>6, <2>1, <2>2
<1>9. q \in Nat /\ q * (l * ClearanceMult) = rate * One * FactorOne
  <2> DEFINE x == One * FactorOne
             b == l * ClearanceMult
  <2>1. x \in Nat /\ b \in Nat \ {0} /\ x % b = 0
    BY <1>1, <1>3, <1>5
  <2>2. rate * One * FactorOne = rate * x
    BY <1>1, <1>2
  <2>3. q = (rate * x) \div b
    BY <1>7, <2>2
  <2> HIDE DEF x, b
  <2>4. rate * x \in Nat
    BY <1>2, <2>1
  <2>5. q \in Nat /\ q * b = rate * x
    BY <1>2, <2>1, <2>3, <2>4, Quotient, Exactly
  <2>6. QED
    BY <2>2, <2>5 DEF b
<1>10. q * ClearanceMult >= One
  BY <1>1, <1>2, <1>3, <1>8, <1>9, OverScores
<1>11. QED
  BY <1>10 DEF q

\* In every state the invariants allow, a strict dimension at its limit is not
\* let through.
LEMMA OnePerson ==
  ASSUME CountsTrue, RhythmInv
  PROVE  OnePersonStaysOne
<1> DEFINE e == Last(log)
           strict == {d \in ActiveDimensions(e.sig) :
                        d.name \in NoFactors \/ d.name \notin Aggregates}
           over(d) == (Asked(d, e) - Forgotten(d, e)) * FactorOne
                        >= Limit[d.name] * DefaultFactor * Window
<1>1. SUFFICES ASSUME Told, NEW d \in strict, over(d), NEW n \in NetworksOf(e.sig)
               PROVE  "Allow" \notin Verdicts(e, n, FALSE)
  BY Zenon DEF OnePersonStaysOne
<1> DEFINE r == Request(e, n, FALSE)
<1>2. Measured(e, n, FALSE, r)
  BY <1>1, RequestIs DEF Told
<1>3. (\A x \in Dimension : r.ratio[x] \in Nat) /\ r.behavior \in Nat
  BY <1>1, RequestTypes
<1>4. /\ d \in ActiveDimensions(e.sig) /\ n \in Networks
      /\ ScoreOf(e, n, d) * ClearanceMult >= One
  BY <1>1, StrictRate DEF NetworksOf
<1>5. Verdicts(e, n, FALSE) = {v.decision : v \in Evaluate(r)}
  BY DEF Verdicts
<1> HIDE DEF r, e, over
<1>6. /\ r.cleared = FALSE /\ r.kind = "browser" /\ r.badPair = FALSE
      /\ \A name \in Dimension : r.ratio[name] = RatioOf(e, n, name)
  BY <1>2 DEF Measured
<1>7. d.name \in Dimension /\ RatioOf(e, n, d.name) = ScoreOf(e, n, d)
  <2>1. d \in Dimensions /\ d.name \in Dimension
    BY <1>4, LimitAssumption DEF ActiveDimensions
  <2>2. ASSUME NEW x \in Named(e, d.name) PROVE x = d
    BY <2>1, NamesAreUnique DEF Named, ActiveDimensions
  <2>3. d \in Named(e, d.name)
    BY <1>4 DEF Named
  <2>4. (CHOOSE x \in Named(e, d.name) : TRUE) = d
    BY <2>2, <2>3
  <2>5. QED
    BY <2>1, <2>3, <2>4 DEF RatioOf
<1>8. RateScore(r, d.name) >= One
  BY <1>4, <1>6, <1>7 DEF RateScore
<1>9. Score(r) >= ChallengeAt
  <2>1. Plain(r)
    BY <1>3, <1>6 DEF Plain
  <2>2. Score(r) >= RateScore(r, d.name) /\ Score(r) \in Int
    BY <1>7, <2>1, ScoreAbove
  <2>3. RateScore(r, d.name) \in Int
    BY <1>7, <2>1, RateScores
  <2>4. QED
    BY <1>8, <2>2, <2>3, DefaultsAssumption, ScoreAssumption
<1>10. ASSUME NEW v \in Evaluate(r) PROVE v.decision # "Allow"
  <2>1. CASE v.decision = "Challenge"
    BY <2>1
  <2>2. ASSUME NEW worst \in Worsts(r), v = Threshold(r, worst) PROVE v.decision # "Allow"
    BY <1>6, <1>9, <2>2 DEF Threshold, Verdict
  <2>3. QED
    BY <1>2, <2>1, <2>2, Thresholds
<1>11. QED
  BY <1>5, <1>10

\* No allowance for a kind of network hides one address and User-Agent, or one
\* fingerprint over all hosts, beyond its limit: limitFactor and the thresholds
\* of Guard.Evaluate over what rateLua counts.
THEOREM OnePersonStaysOneHolds == Spec => []OnePersonStaysOne
BY CountsInvariant, RhythmInvariant, OnePerson, PTL
=============================================================================
