---------------------------- MODULE AmountsProofs ---------------------------
(***************************************************************************)
(* Proofs about Refunds, Charges and Ledger, the components whose          *)
(* properties are about sums; facts about sums over finite sets come first.*)
(*                                                                         *)
(* Refunds.  A refund whose row does not exist yet, or that is large and   *)
(* not approved, is out of reach of processApprovedRefund.  While no two   *)
(* approvals of a refund overlap and the HTTP client does not repeat it,   *)
(* at most one request is on its way to Tingg with it, and none is once    *)
(* Tingg has accepted it or while it still waits for approval.  No total   *)
(* exceeds what Tingg has answered for, and while requests do not cross    *)
(* the last total read is the one the statuses show.                       *)
(*                                                                         *)
(* Charges.  Kahn's algorithm keeps the number of charges each one waits   *)
(* for; when nothing is ready, the charges in force that have no place are *)
(* a set in which each waits for another.  Pricing goes through the order, *)
(* so a base is settled before what is based on it, and what refunds give  *)
(* back of a line is compared with the sum of the shares refunded.         *)
(*                                                                         *)
(* Ledger.  Every entry is about a row, and on every account comes to what *)
(* its amount says.  Until something moves, each query of a wallet has     *)
(* found what the rows show.  A payout whose dispatch did not go wrong is  *)
(* issued at least as often as it is unwound and reported on.  The reports *)
(* are sums of the same entries, taken apart by type, by payout and by     *)
(* provider.                                                               *)
(***************************************************************************)
EXTENDS Refunds, Charges, Ledger, FiniteSetTheorems, SequenceTheorems, TLAPS

-----------------------------------------------------------------------------
(* Sums.  The library defines a sum by recursion on the set, always taking  *)
(* out an element it chooses.  What the amounts need of it: the sum is a    *)
(* number, grows with the set, depends on nothing outside it, and may be    *)
(* taken in parts, term by term or by owner.                                *)
(* Induction over the finite subsets of a set takes the form of a smallest  *)
(* counterexample.                                                          *)

\* The sum of the values f gives to the elements of S.
SumOf(f, S) == MapThenSumSet(LAMBDA k : f[k], S)

Chosen(s) == CHOOSE x \in s : TRUE

\* One round of the recursion that the library's sum is defined by.
Round(f, g, s) == IF s = {} THEN 0 ELSE f[Chosen(s)] + g[s \ {Chosen(s)}]

Solves(g, f, S) == g = [s \in SUBSET S |-> Round(f, g, s)]

Solution(f, S) == CHOOSE g : Solves(g, f, S)

LEMMA SumIsSolution == ASSUME NEW f, NEW S PROVE SumOf(f, S) = Solution(f, S)[S]
  BY DEF SumOf, MapThenSumSet, MapThenFoldSet, Solution, Solves, Round, Chosen

\* A family of subsets of a finite set has a smallest member: what stands in
\* for induction over finite sets.
LEMMA SmallestMember ==
    ASSUME NEW A, IsFiniteSet(A), NEW F \in SUBSET SUBSET A, F # {}
    PROVE  \E m \in F : \A s \in F : s \subseteq m => s = m
<1>1. IsWellFoundedOn(StrictSubsetOrdering(A), SUBSET A)
  BY FS_StrictSubsetOrderingWellFounded, FS_FiniteSubsetsOfFinite
<1>2. \E m \in F : \A s \in F : <<s, m>> \notin StrictSubsetOrdering(A)
  BY <1>1, WFMin, Zenon
<1> QED  BY <1>2 DEF StrictSubsetOrdering

LEMMA ChosenIn == ASSUME NEW s, s # {} PROVE Chosen(s) \in s /\ s \ {Chosen(s)} # s
  BY DEF Chosen

\* Two solutions agree where both are defined.
LEMMA SolutionsAgree ==
    ASSUME NEW A, IsFiniteSet(A), NEW f, NEW S \in SUBSET A, NEW T \in SUBSET A,
           NEW g, NEW h, Solves(g, f, S), Solves(h, f, T), NEW s \in SUBSET (S \cap T)
    PROVE  g[s] = h[s]
<1> DEFINE Bad == {t \in SUBSET (S \cap T) : g[t] # h[t]}
<1>1. SUFFICES ASSUME Bad # {} PROVE FALSE
  OBVIOUS
<1>2. PICK m \in Bad : \A t \in Bad : t \subseteq m => t = m
  <2>1. Bad \in SUBSET SUBSET A
    OBVIOUS
  <2> HIDE DEF Bad
  <2> QED  BY <1>1, <2>1, SmallestMember
<1>3. g[m] = Round(f, g, m) /\ h[m] = Round(f, h, m)
  BY DEF Solves
<1>4. m # {}
  BY <1>3 DEF Round
<1>5. g[m \ {Chosen(m)}] = h[m \ {Chosen(m)}]
  BY <1>2, <1>4, ChosenIn
<1> QED  BY <1>3, <1>5 DEF Round

LEMMA SolutionExists ==
    ASSUME NEW A, IsFiniteSet(A), NEW f, NEW S \in SUBSET A
    PROVE  Solves(Solution(f, S), f, S)
<1> DEFINE Bad == {T \in SUBSET A : ~Solves(Solution(f, T), f, T)}
<1>1. SUFFICES ASSUME Bad # {} PROVE FALSE
  OBVIOUS
<1>2. PICK m \in Bad : \A t \in Bad : t \subseteq m => t = m
  <2>1. Bad \in SUBSET SUBSET A
    OBVIOUS
  <2> HIDE DEF Bad
  <2> QED  BY <1>1, <2>1, SmallestMember
<1>3. \A t \in SUBSET m : t # m => Solves(Solution(f, t), f, t)
  BY <1>2
<1> DEFINE v == [t \in SUBSET m |-> Solution(f, t)[t]]
           g == [s \in SUBSET m |-> Round(f, v, s)]
<1>4. \A t \in SUBSET m : t # m => v[t] = g[t]
  <2> SUFFICES ASSUME NEW t \in SUBSET m, t # m PROVE v[t] = g[t]
    OBVIOUS
  <2>1. v[t] = Round(f, Solution(f, t), t)
    BY <1>3 DEF Solves
  <2>2. CASE t = {}
    BY <2>1, <2>2 DEF Round
  <2>3. CASE t # {}
    <3> DEFINE u == t \ {Chosen(t)}
    <3>1. u \in SUBSET t /\ u \in SUBSET m /\ u # m
      BY <2>3, ChosenIn
    <3>2. Solution(f, t)[u] = Solution(f, u)[u]
      <4>1. Solves(Solution(f, t), f, t) /\ Solves(Solution(f, u), f, u)
        BY <1>3, <3>1
      <4>2. u \in SUBSET (t \cap u) /\ t \in SUBSET A /\ u \in SUBSET A
        BY <3>1
      <4> HIDE DEF u
      <4> QED  BY <4>1, <4>2, SolutionsAgree
    <3> QED  BY <2>1, <2>3, <3>1, <3>2 DEF Round
  <2> QED  BY <2>2, <2>3
<1>5. \A s \in SUBSET m : Round(f, v, s) = Round(f, g, s)
  <2> SUFFICES ASSUME NEW s \in SUBSET m PROVE Round(f, v, s) = Round(f, g, s)
    OBVIOUS
  <2>1. s # {} => s \ {Chosen(s)} \in SUBSET m /\ s \ {Chosen(s)} # m
    BY ChosenIn
  <2> HIDE DEF v, g
  <2> QED  BY <1>4, <2>1 DEF Round
<1>6. Solves(g, f, m)
  BY <1>5, Zenon DEF Solves
<1>7. Solves(Solution(f, m), f, m)
  <2> HIDE DEF g
  <2> QED  BY <1>6, Zenon DEF Solution
<1> QED  BY <1>7

LEMMA SumOfEmpty == ASSUME NEW f PROVE SumOf(f, {}) = 0
<1>1. IsFiniteSet({})
  BY FS_EmptySet
<1>2. Solves(Solution(f, {}), f, {})
  BY <1>1, SolutionExists
<1> QED  BY <1>2, SumIsSolution DEF Solves, Round

LEMMA SumOfChosen ==
    ASSUME NEW A, IsFiniteSet(A), NEW f, NEW S \in SUBSET A, S # {}
    PROVE  SumOf(f, S) = f[Chosen(S)] + SumOf(f, S \ {Chosen(S)})
<1> DEFINE R == S \ {Chosen(S)}
<1>1. Solves(Solution(f, S), f, S) /\ Solves(Solution(f, R), f, R)
  BY SolutionExists
<1>2. R \in SUBSET A /\ R \in SUBSET (S \cap R)
  OBVIOUS
<1>3. Solution(f, S)[R] = Solution(f, R)[R]
  <2> HIDE DEF R
  <2> QED  BY <1>1, <1>2, SolutionsAgree
<1>4. SumOf(f, S) = Round(f, Solution(f, S), S)
  BY <1>1, SumIsSolution DEF Solves
<1> QED  BY <1>3, <1>4, SumIsSolution DEF Round

\* The sum over a finite set is a number, and no negative one without any.
LEMMA SumOfInt ==
    ASSUME NEW A, IsFiniteSet(A), NEW f \in [A -> Int], NEW S \in SUBSET A
    PROVE  SumOf(f, S) \in Int
<1> DEFINE Bad == {T \in SUBSET A : SumOf(f, T) \notin Int}
<1>1. SUFFICES ASSUME Bad # {} PROVE FALSE
  OBVIOUS
<1>2. PICK m \in Bad : \A t \in Bad : t \subseteq m => t = m
  <2>1. Bad \in SUBSET SUBSET A
    OBVIOUS
  <2> HIDE DEF Bad
  <2> QED  BY <1>1, <2>1, SmallestMember
<1>3. m # {}
  BY SumOfEmpty
<1>4. Chosen(m) \in A /\ SumOf(f, m \ {Chosen(m)}) \in Int
  BY <1>2, <1>3, ChosenIn
<1> QED  BY <1>3, <1>4, SumOfChosen

LEMMA SumOfNat ==
    ASSUME NEW A, IsFiniteSet(A), NEW f \in [A -> Nat], NEW S \in SUBSET A
    PROVE  SumOf(f, S) \in Nat
<1> DEFINE Bad == {T \in SUBSET A : SumOf(f, T) \notin Nat}
<1>1. SUFFICES ASSUME Bad # {} PROVE FALSE
  OBVIOUS
<1>2. PICK m \in Bad : \A t \in Bad : t \subseteq m => t = m
  <2>1. Bad \in SUBSET SUBSET A
    OBVIOUS
  <2> HIDE DEF Bad
  <2> QED  BY <1>1, <2>1, SmallestMember
<1>3. m # {}
  BY SumOfEmpty
<1>4. Chosen(m) \in A /\ SumOf(f, m \ {Chosen(m)}) \in Nat
  BY <1>2, <1>3, ChosenIn
<1> QED  BY <1>3, <1>4, SumOfChosen

\* Any element of the set may be taken out of the sum.
LEMMA SumOfRemove ==
    ASSUME NEW A, IsFiniteSet(A), NEW f \in [A -> Int], NEW S \in SUBSET A, NEW x \in S
    PROVE  SumOf(f, S) = f[x] + SumOf(f, S \ {x})
<1> DEFINE Good(T) == \A y \in T : SumOf(f, T) = f[y] + SumOf(f, T \ {y})
           Bad == {T \in SUBSET A : ~Good(T)}
<1>1. SUFFICES ASSUME Bad # {} PROVE FALSE
  OBVIOUS
<1>2. PICK m \in Bad : \A t \in Bad : t \subseteq m => t = m
  <2>1. Bad \in SUBSET SUBSET A
    OBVIOUS
  <2> HIDE DEF Bad
  <2> QED  BY <1>1, <2>1, SmallestMember
<1>3. PICK y \in m : SumOf(f, m) # f[y] + SumOf(f, m \ {y})
  OBVIOUS
<1> DEFINE c == Chosen(m)
<1>4. c \in m /\ SumOf(f, m) = f[c] + SumOf(f, m \ {c})
  BY <1>3, ChosenIn, SumOfChosen
<1>5. Good(m \ {c}) /\ Good(m \ {y})
  BY <1>2, <1>3, <1>4
<1>6. y # c
  BY <1>3, <1>4
<1>7. SumOf(f, m \ {c}) = f[y] + SumOf(f, m \ {c, y})
  <2>1. (m \ {c}) \ {y} = m \ {c, y} /\ y \in m \ {c}
    BY <1>6
  <2> QED  BY <1>5, <2>1
<1>8. SumOf(f, m \ {y}) = f[c] + SumOf(f, m \ {c, y})
  <2>1. (m \ {y}) \ {c} = m \ {c, y} /\ c \in m \ {y}
    BY <1>4, <1>6
  <2> QED  BY <1>5, <2>1
<1>9. f[c] \in Int /\ f[y] \in Int /\ SumOf(f, m \ {c, y}) \in Int
  BY <1>4, SumOfInt
<1> HIDE DEF c
<1> QED  BY <1>3, <1>4, <1>7, <1>8, <1>9

\* A sum of natural numbers over more elements is no smaller.
LEMMA SumOfMonotone ==
    ASSUME NEW A, IsFiniteSet(A), NEW f \in [A -> Nat],
           NEW T \in SUBSET A, NEW S \in SUBSET T
    PROVE  SumOf(f, S) <= SumOf(f, T)
<1> DEFINE Bad == {U \in SUBSET A : S \subseteq U /\ ~(SumOf(f, S) <= SumOf(f, U))}
<1>1. SUFFICES ASSUME Bad # {} PROVE FALSE
  OBVIOUS
<1>2. PICK m \in Bad : \A t \in Bad : t \subseteq m => t = m
  <2>1. Bad \in SUBSET SUBSET A
    OBVIOUS
  <2> HIDE DEF Bad
  <2> QED  BY <1>1, <2>1, SmallestMember
<1>3. SumOf(f, S) \in Nat /\ SumOf(f, m) \in Nat
  BY SumOfNat
<1>4. PICK x \in m : x \notin S
  BY <1>3
<1>5. SumOf(f, S) <= SumOf(f, m \ {x})
  BY <1>2, <1>4
<1>6. SumOf(f, m) = f[x] + SumOf(f, m \ {x})
  <2>1. f \in [A -> Int] /\ m \in SUBSET A
    OBVIOUS
  <2> HIDE DEF Bad
  <2> QED  BY <1>4, <2>1, SumOfRemove
<1>7. f[x] \in Nat /\ SumOf(f, m \ {x}) \in Nat
  BY SumOfNat
<1> QED  BY <1>3, <1>5, <1>6, <1>7

\* The sum depends on the function only where it is taken.
LEMMA SumOfSame ==
    ASSUME NEW A, IsFiniteSet(A), NEW S \in SUBSET A, NEW f, NEW g,
           \A x \in S : f[x] = g[x]
    PROVE  SumOf(f, S) = SumOf(g, S)
<1> DEFINE Bad == {T \in SUBSET S : SumOf(f, T) # SumOf(g, T)}
<1>1. SUFFICES ASSUME Bad # {} PROVE FALSE
  OBVIOUS
<1>2. PICK m \in Bad : \A t \in Bad : t \subseteq m => t = m
  <2>1. Bad \in SUBSET SUBSET A
    OBVIOUS
  <2> HIDE DEF Bad
  <2> QED  BY <1>1, <2>1, SmallestMember
<1>3. m # {}
  BY SumOfEmpty
<1>4. Chosen(m) \in m /\ SumOf(f, m \ {Chosen(m)}) = SumOf(g, m \ {Chosen(m)})
  BY <1>2, <1>3, ChosenIn
<1> QED  BY <1>3, <1>4, SumOfChosen

\* A sum of sums.
LEMMA SumOfPlus ==
    ASSUME NEW A, IsFiniteSet(A), NEW f \in [A -> Int], NEW g \in [A -> Int], NEW h \in [A -> Int],
           \A x \in A : h[x] = f[x] + g[x]
    PROVE  SumOf(h, A) = SumOf(f, A) + SumOf(g, A)
<1> DEFINE Bad == {T \in SUBSET A : SumOf(h, T) # SumOf(f, T) + SumOf(g, T)}
<1>1. SUFFICES ASSUME Bad # {} PROVE FALSE
  OBVIOUS
<1>2. PICK m \in Bad : \A t \in Bad : t \subseteq m => t = m
  <2>1. Bad \in SUBSET SUBSET A
    OBVIOUS
  <2> HIDE DEF Bad
  <2> QED  BY <1>1, <2>1, SmallestMember
<1>3. m # {}
  BY SumOfEmpty
<1>4. PICK x \in m : TRUE
  BY <1>3
<1> DEFINE r == m \ {x}
<1>5. r \in SUBSET A /\ m \in SUBSET A /\ x \in A
  BY <1>4
<1>6. SumOf(h, r) = SumOf(f, r) + SumOf(g, r)
  BY <1>2, <1>4
<1>7. /\ SumOf(h, m) = h[x] + SumOf(h, r)
      /\ SumOf(f, m) = f[x] + SumOf(f, r)
      /\ SumOf(g, m) = g[x] + SumOf(g, r)
  BY <1>4, <1>5, SumOfRemove
<1> HIDE DEF r
<1>8. SumOf(f, r) \in Int /\ SumOf(g, r) \in Int /\ f[x] \in Int /\ g[x] \in Int
  BY <1>5, SumOfInt
<1>9. h[x] = f[x] + g[x]
  BY <1>5
<1>10. SumOf(h, m) = SumOf(f, m) + SumOf(g, m)
  BY <1>6, <1>7, <1>8, <1>9
<1> QED  BY <1>2, <1>10

\* Nothing adds up to nothing.
LEMMA SumOfZeros ==
    ASSUME NEW A, IsFiniteSet(A), NEW f \in [A -> Int], \A x \in A : f[x] = 0
    PROVE  SumOf(f, A) = 0
<1>1. SumOf(f, A) = SumOf(f, A) + SumOf(f, A)
  BY SumOfPlus
<1>2. SumOf(f, A) \in Int
  BY SumOfInt
<1> QED  BY <1>1, <1>2

\* What is greater for each is greater in all.
LEMMA SumOfLeq ==
    ASSUME NEW A, IsFiniteSet(A), NEW f \in [A -> Int], NEW g \in [A -> Int],
           \A x \in A : f[x] <= g[x]
    PROVE  SumOf(f, A) <= SumOf(g, A)
<1> DEFINE d == [x \in A |-> g[x] - f[x]]
<1>1. d \in [A -> Nat] /\ \A x \in A : g[x] = f[x] + d[x]
  OBVIOUS
<1> HIDE DEF d
<1>2. SumOf(g, A) = SumOf(f, A) + SumOf(d, A)
  <2>1. d \in [A -> Int]
    BY <1>1
  <2> QED  BY <1>1, <2>1, SumOfPlus
<1>3. SumOf(d, A) \in Nat /\ SumOf(f, A) \in Int
  BY <1>1, SumOfNat, SumOfInt
<1> QED  BY <1>2, <1>3

\* A set in two parts.
LEMMA SumOfParts ==
    ASSUME NEW A, IsFiniteSet(A), NEW f \in [A -> Int],
           NEW S \in SUBSET A, NEW T \in SUBSET A, S \cap T = {}
    PROVE  SumOf(f, S \cup T) = SumOf(f, S) + SumOf(f, T)
<1> DEFINE Bad == {U \in SUBSET T : SumOf(f, S \cup U) # SumOf(f, S) + SumOf(f, U)}
<1>1. SUFFICES ASSUME Bad # {} PROVE FALSE
  OBVIOUS
<1>2. PICK m \in Bad : \A t \in Bad : t \subseteq m => t = m
  <2>1. Bad \in SUBSET SUBSET A
    OBVIOUS
  <2> HIDE DEF Bad
  <2> QED  BY <1>1, <2>1, SmallestMember
<1>3. SumOf(f, S) \in Int
  BY SumOfInt
<1>4. m # {}
  <2> SUFFICES ASSUME m = {} PROVE FALSE
    OBVIOUS
  <2>1. S \cup m = S /\ SumOf(f, m) = 0
    BY SumOfEmpty
  <2> QED  BY <1>2, <1>3, <2>1
<1>5. PICK x \in m : TRUE
  BY <1>4
<1> DEFINE r == m \ {x}
<1>6. r \in SUBSET T /\ x \in A /\ x \notin S /\ (S \cup m) \ {x} = S \cup r
  BY <1>2, <1>5
<1>7. SumOf(f, S \cup r) = SumOf(f, S) + SumOf(f, r)
  BY <1>2, <1>5, <1>6
<1>8. SumOf(f, m) = f[x] + SumOf(f, r)
  BY <1>2, <1>5, SumOfRemove
<1>9. SumOf(f, S \cup m) = f[x] + SumOf(f, S \cup r)
  <2>1. S \cup m \in SUBSET A /\ x \in S \cup m
    BY <1>2, <1>5
  <2>2. SumOf(f, S \cup m) = f[x] + SumOf(f, (S \cup m) \ {x})
    BY <2>1, SumOfRemove
  <2> QED  BY <1>6, <2>2
<1> HIDE DEF r
<1>10. SumOf(f, r) \in Int /\ f[x] \in Int
  <2>1. r \in SUBSET A
    BY <1>6
  <2> QED  BY <1>6, <2>1, SumOfInt
<1>11. SumOf(f, S \cup m) = SumOf(f, S) + SumOf(f, m)
  BY <1>3, <1>7, <1>8, <1>9, <1>10
<1> QED  BY <1>2, <1>11

\* Adding up by owner adds up all.
LEMMA SumOfFibers ==
    ASSUME NEW A, IsFiniteSet(A), NEW V, IsFiniteSet(V), NEW f \in [A -> Int], NEW own \in [A -> V],
           NEW g \in [V -> Int], \A v \in V : g[v] = SumOf(f, {x \in A : own[x] = v})
    PROVE  SumOf(g, V) = SumOf(f, A)
<1> DEFINE Of(U) == {x \in A : own[x] \in U}
           Bad == {U \in SUBSET V : SumOf(g, U) # SumOf(f, Of(U))}
<1>0. Of(V) = A
  OBVIOUS
<1>1. SUFFICES ASSUME Bad # {} PROVE FALSE
  <2>1. Bad = {} => SumOf(g, V) = SumOf(f, Of(V))
    OBVIOUS
  <2> QED  BY <1>0, <2>1
<1>2. PICK m \in Bad : \A t \in Bad : t \subseteq m => t = m
  <2>1. Bad \in SUBSET SUBSET V
    OBVIOUS
  <2> HIDE DEF Bad
  <2> QED  BY <1>1, <2>1, SmallestMember
<1>3. m # {}
  <2> SUFFICES ASSUME m = {} PROVE FALSE
    OBVIOUS
  <2>1. Of(m) = {}
    OBVIOUS
  <2> QED  BY <1>2, <2>1, SumOfEmpty
<1>4. PICK v \in m : TRUE
  BY <1>3
<1> DEFINE r == m \ {v}
           One == {x \in A : own[x] = v}
<1>5. r \in SUBSET V /\ m \in SUBSET V /\ v \in V
  BY <1>4
<1>6. SumOf(g, r) = SumOf(f, Of(r))
  BY <1>2, <1>4
<1>7. SumOf(g, m) = g[v] + SumOf(g, r)
  BY <1>4, <1>5, SumOfRemove
<1>8. Of(m) = Of(r) \cup One /\ Of(r) \cap One = {} /\ Of(r) \in SUBSET A /\ One \in SUBSET A
  BY <1>4
<1>9. g[v] = SumOf(f, One)
  BY <1>5
<1> HIDE DEF r, One, Of
<1>10. SumOf(f, Of(m)) = SumOf(f, Of(r)) + SumOf(f, One)
  BY <1>8, SumOfParts
<1>11. SumOf(f, Of(r)) \in Int /\ SumOf(f, One) \in Int
  BY <1>8, SumOfInt
<1>12. SumOf(g, m) = SumOf(f, Of(m))
  BY <1>6, <1>7, <1>9, <1>10, <1>11
<1> QED  BY <1>2, <1>12

\* The same amount over and over.
LEMMA SumOfSameAmount ==
    ASSUME NEW A, IsFiniteSet(A), NEW a \in Int, NEW f \in [A -> Int], \A x \in A : f[x] = a
    PROVE  Cardinality(A) \in Nat /\ SumOf(f, A) = a * Cardinality(A)
<1> DEFINE Bad == {T \in SUBSET A : SumOf(f, T) # a * Cardinality(T)}
<1>0. Cardinality(A) \in Nat
  BY FS_CardinalityType
<1>1. SUFFICES ASSUME Bad # {} PROVE FALSE
  BY <1>0
<1>2. PICK m \in Bad : \A t \in Bad : t \subseteq m => t = m
  <2>1. Bad \in SUBSET SUBSET A
    OBVIOUS
  <2> HIDE DEF Bad
  <2> QED  BY <1>1, <2>1, SmallestMember
<1>3. m # {}
  <2>1. SumOf(f, {}) = 0 /\ Cardinality({}) = 0 /\ a * 0 = 0
    BY SumOfEmpty, FS_EmptySet
  <2> QED  BY <1>2, <2>1
<1>4. PICK x \in m : TRUE
  BY <1>3
<1> DEFINE r == m \ {x}
<1>5. r \in SUBSET A /\ m \in SUBSET A /\ x \in A /\ IsFiniteSet(m)
  BY <1>4, FS_Subset
<1>6. SumOf(f, r) = a * Cardinality(r)
  BY <1>2, <1>4
<1>7. SumOf(f, m) = a + SumOf(f, r)
  BY <1>4, <1>5, SumOfRemove
<1>8. Cardinality(r) = Cardinality(m) - 1 /\ Cardinality(m) \in Nat
  BY <1>4, <1>5, FS_RemoveElement, FS_CardinalityType
<1> HIDE DEF r
<1>9. a + a * (Cardinality(m) - 1) = a * Cardinality(m)
  BY <1>8
<1>10. SumOf(f, m) = a * Cardinality(m)
  BY <1>6, <1>7, <1>8, <1>9
<1> QED  BY <1>2, <1>10

-----------------------------------------------------------------------------
(* Strengthening *)

\* What the proofs need of the types.  TypeOK also bounds the totals, which
\* are sums over the refunds.
Typed ==
    /\ payment \in Settled
    /\ refund \in [Asks -> RefundStatus]
    /\ amount \in [Asks -> Nat]
    /\ approved \subseteq Asks
    /\ posts \in [Asks -> Nat]
    /\ issued \in [Asks -> Nat]
    /\ pc \in [Requests -> {"idle"} \cup Running \cup Terminal]
    /\ key \in [Requests -> Asks]
    /\ doubt \subseteq Asks
    /\ overlapped \subseteq Asks

\* Where a request is says what it is and what it has seen of its refund.
LocalInv ==
    \A r \in Requests :
        /\ pc[r] \in {"create", "items"} => r \in Asks /\ key[r] = r
        /\ pc[r] = "create" => refund[r] = "absent"
        /\ pc[r] = "approve" => r \in Approvals
        /\ pc[r] \in {"items", "approve"} => refund[key[r]] # "absent"
        /\ pc[r] = "idle" /\ r \in Asks => refund[r] = "absent"

OutOfReach(k) ==
    refund[k] = "absent" \/ (NeedsApproval(amount[k]) /\ k \notin approved)

HeldInv ==
    \A k \in Asks : OutOfReach(k) =>
        /\ refund[k] \in {"absent", "pending_approval"}
        /\ posts[k] = 0
        /\ \A r \in Requests : key[r] = k => pc[r] \notin {"process"} \cup Processing

\* Requests that have yet to call Tingg about k.
Ahead(r, k) ==
    /\ key[r] = k
    /\ \/ pc[r] \in {"approve", "process", "call"}
       \/ pc[r] = "items" /\ ~NeedsApproval(amount[k])

OnceInv ==
    \A k \in Asks : k \notin doubt \cup overlapped =>
        /\ posts[k] <= 1
        /\ \A q, r \in Requests : Ahead(q, k) /\ Ahead(r, k) => q = r
        /\ posts[k] = 1 => \A r \in Requests : ~Ahead(r, k)
        /\ refund[k] = "pending_approval" =>
             /\ posts[k] = 0
             /\ \A r \in Requests : Ahead(r, k) => pc[r] = "approve"

IInv == Typed /\ LocalInv /\ HeldInv /\ OnceInv /\ SucceededIsPosted

-----------------------------------------------------------------------------
LEMMA InitIInv == Init => IInv
<1> SUFFICES ASSUME Init PROVE IInv
  OBVIOUS
<1>1. Typed
  BY RefundsAssumption DEF Init, Typed, Settled, RefundStatus, Requests
<1>2. LocalInv /\ HeldInv /\ SucceededIsPosted
  BY DEF Init, LocalInv, HeldInv, Processing, Guarded, SucceededIsPosted, Succeeded
<1>3. OnceInv
  BY DEF Init, OnceInv, Ahead
<1> QED  BY <1>1, <1>2, <1>3 DEF IInv

-----------------------------------------------------------------------------
(* Each group of steps keeps the invariant *)

LEMMA ArriveIInv == ASSUME IInv, NEW r \in Requests, Arrive(r) PROVE IInv'
<1>1. CASE \E a \in 1 .. Paid : StartRefund(r, a)
  <2>1. PICK a \in 1 .. Paid : StartRefund(r, a)  BY <1>1
  <2>2. Typed'
    BY <2>1, RefundsAssumption
    DEF IInv, Typed, StartRefund, Goto, statusVars, histVars, Running
  <2>3. refund[r] = "absent" /\ \A q \in Requests : pc[q] # "items" \/ key[q] # r
    BY <2>1 DEF IInv, Typed, LocalInv, StartRefund, Goto
  <2>4. LocalInv'
    BY <2>1, <2>2, <2>3 DEF IInv, Typed, LocalInv, StartRefund, Goto, Requests
  <2>5. HeldInv'
    BY <2>1, <2>3 DEF IInv, Typed, HeldInv, OutOfReach, StartRefund, Goto,
                      Processing, Guarded, NeedsApproval
  <2>6. OnceInv'
    BY <2>1, <2>3 DEF IInv, Typed, OnceInv, Ahead, StartRefund, Goto, histVars
  <2>7. SucceededIsPosted'
    BY <2>1 DEF IInv, Typed, SucceededIsPosted, Succeeded, StartRefund, Goto
  <2> QED  BY <2>2, <2>4, <2>5, <2>6, <2>7 DEF IInv
<1>2. CASE \E k \in Asks : StartApproval(r, k)
  <2>1. PICK k \in Asks : StartApproval(r, k)  BY <1>2
  <2>2. Typed'
    BY <2>1 DEF IInv, Typed, StartApproval, Goto, statusVars, rowVars, Running
  <2>3. LocalInv'
    BY <2>1, RefundsAssumption
    DEF IInv, Typed, LocalInv, StartApproval, Goto, rowVars, RefundStatus
  <2>4. HeldInv'
    BY <2>1 DEF IInv, Typed, HeldInv, OutOfReach, StartApproval, Goto, rowVars,
                Processing, Guarded
  <2>5. k \notin overlapped' => \A q \in Requests : ~Ahead(q, k) \/ k \in doubt
    BY <2>1 DEF IInv, Typed, LocalInv, OnceInv, Ahead, StartApproval, Goto, Running
  <2>6. OnceInv'
    BY <2>1, <2>5 DEF IInv, Typed, OnceInv, Ahead, StartApproval, Goto, rowVars
  <2>7. SucceededIsPosted'
    BY <2>1 DEF IInv, Typed, SucceededIsPosted, Succeeded, StartApproval, Goto, rowVars
  <2> QED  BY <2>2, <2>3, <2>4, <2>6, <2>7 DEF IInv
<1> QED  BY <1>1, <1>2 DEF Arrive

LEMMA AdmitIInv == ASSUME IInv, NEW r \in Requests, AdmitStep(r) PROVE IInv'
<1>1. CASE CreateRefund(r)
  <2>1. /\ r \in Asks /\ key[r] = r /\ refund[r] = "absent" /\ posts[r] = 0
        /\ \A q \in Requests : ~Ahead(q, r)
    BY <1>1 DEF IInv, Typed, LocalInv, HeldInv, OutOfReach, CreateRefund, Goto,
                Ahead, Processing, Guarded
  <2>2. Typed'
    BY <1>1 DEF IInv, Typed, CreateRefund, Goto, statusVars, histVars, Running,
                RefundStatus
  <2>3. LocalInv'
    BY <1>1, <2>1 DEF IInv, Typed, LocalInv, CreateRefund, Goto
  <2>4. HeldInv'
    BY <1>1, <2>1 DEF IInv, Typed, HeldInv, OutOfReach, CreateRefund, Goto,
                      Processing, Guarded, NeedsApproval
  <2>5. OnceInv'
    BY <1>1, <2>1 DEF IInv, Typed, OnceInv, Ahead, CreateRefund, Goto, histVars,
                      NeedsApproval
  <2>6. SucceededIsPosted'
    BY <1>1 DEF IInv, Typed, SucceededIsPosted, Succeeded, CreateRefund, Goto
  <2> QED  BY <2>2, <2>3, <2>4, <2>5, <2>6 DEF IInv
<1>2. CASE CreateItems(r)
  <2>1. r \in Asks /\ key[r] = r /\ refund[r] # "absent"
    BY <1>2 DEF IInv, Typed, LocalInv, CreateItems, Goto
  <2>2. Typed'
    BY <1>2 DEF IInv, Typed, CreateItems, Goto, statusVars, rowVars, histVars,
                Running, Terminal
  <2>3. LocalInv'
    BY <1>2 DEF IInv, Typed, LocalInv, CreateItems, Goto, rowVars
  <2>4. HeldInv'
    BY <1>2, <2>1 DEF IInv, Typed, HeldInv, OutOfReach, CreateItems, Goto, rowVars,
                      Processing, Guarded
  <2>5. OnceInv'
    BY <1>2, <2>1 DEF IInv, Typed, OnceInv, Ahead, CreateItems, Goto, rowVars, histVars
  <2>6. SucceededIsPosted'
    BY <1>2 DEF IInv, Typed, SucceededIsPosted, Succeeded, CreateItems, Goto, rowVars
  <2> QED  BY <2>2, <2>3, <2>4, <2>5, <2>6 DEF IInv
<1>3. CASE Approve(r)
  <2>1. refund[key[r]] # "absent"
    BY <1>3 DEF IInv, Typed, LocalInv, Approve, Goto
  <2>2. Typed'
    BY <1>3 DEF IInv, Typed, Approve, Goto, statusVars, histVars, Running, RefundStatus
  <2>3. LocalInv'
    BY <1>3, <2>1 DEF IInv, Typed, LocalInv, Approve, Goto
  <2>4. HeldInv'
    BY <1>3, <2>1 DEF IInv, Typed, HeldInv, OutOfReach, Approve, Goto, Processing, Guarded
  <2>5. OnceInv'
    BY <1>3 DEF IInv, Typed, OnceInv, Ahead, Approve, Goto, histVars
  <2>6. SucceededIsPosted'
    BY <1>3 DEF IInv, Typed, SucceededIsPosted, Succeeded, Approve, Goto
  <2> QED  BY <2>2, <2>3, <2>4, <2>5, <2>6 DEF IInv
<1>4. CASE Process(r)
  <2>1. ~OutOfReach(key[r])
    BY <1>4 DEF IInv, Typed, HeldInv, Process, Goto
  <2>2. Typed'
    BY <1>4 DEF IInv, Typed, Process, Goto, statusVars, Running, Processing, Guarded,
                RefundStatus
  <2>3. LocalInv'
    BY <1>4, <2>1 DEF IInv, Typed, LocalInv, OutOfReach, Process, Goto
  <2>4. HeldInv'
    BY <1>4, <2>1 DEF IInv, Typed, HeldInv, OutOfReach, Process, Goto, Processing, Guarded
  <2>5. OnceInv'
    BY <1>4 DEF IInv, Typed, OnceInv, Ahead, Process, Goto
  <2>6. SucceededIsPosted'
    BY <1>4 DEF IInv, Typed, SucceededIsPosted, Succeeded, Process, Goto
  <2> QED  BY <2>2, <2>3, <2>4, <2>5, <2>6 DEF IInv
<1> QED  BY <1>1, <1>2, <1>3, <1>4 DEF AdmitStep

LEMMA CallIInv == ASSUME IInv, NEW r \in Requests, CallStep(r) PROVE IInv'
<1>1. pc[r] = "call" /\ ~OutOfReach(key[r]) /\ UNCHANGED <<rowVars, issued, key>>
  BY DEF IInv, Typed, HeldInv, CallStep, CallAccepted, CallNotAccepted, CallRepeated,
         Goto, Processing, Guarded
<1>2. Typed'
  BY DEF IInv, Typed, CallStep, CallAccepted, CallNotAccepted, CallRepeated, Accept,
         Goto, statusVars, rowVars, Running, Processing, Guarded
<1>3. LocalInv'
  BY <1>1 DEF IInv, Typed, LocalInv, CallStep, CallAccepted, CallNotAccepted,
              CallRepeated, Goto, rowVars
<1>4. HeldInv'
  BY <1>1 DEF IInv, Typed, HeldInv, OutOfReach, CallStep, CallAccepted, CallNotAccepted,
              CallRepeated, Accept, Goto, rowVars, Processing, Guarded
<1>5. OnceInv'
  <2>1. Ahead(r, key[r])
    BY <1>1 DEF Ahead
  <2>2. CASE CallAccepted(r)
    BY <1>1, <2>1, <2>2 DEF IInv, Typed, OnceInv, Ahead, CallAccepted, Accept, Goto, rowVars
  <2>3. CASE CallNotAccepted(r)
    BY <1>1, <2>1, <2>3 DEF IInv, Typed, OnceInv, Ahead, CallNotAccepted, Goto, rowVars
  <2>4. CASE CallRepeated(r)
    BY <1>1, <2>4 DEF IInv, Typed, OnceInv, Ahead, CallRepeated, Accept, rowVars
  <2> QED  BY <2>2, <2>3, <2>4 DEF CallStep
<1>6. SucceededIsPosted'
  BY <1>1 DEF IInv, Typed, SucceededIsPosted, Succeeded, CallStep, CallAccepted,
              CallNotAccepted, CallRepeated, Goto, rowVars
<1> QED  BY <1>2, <1>3, <1>4, <1>5, <1>6 DEF IInv

\* Steps after the call, but for the throw out of it, send nothing to Tingg.
LEMMA ProcessIInv == ASSUME IInv, NEW r \in Requests, ProcessStep(r) PROVE IInv'
<1>1. CASE Succeed(r) \/ MarkFailed(r)
  <2>1. ~OutOfReach(key[r])
    BY <1>1 DEF IInv, Typed, HeldInv, Succeed, MarkFailed, Goto, Processing, Guarded
  <2>2. Typed'
    BY <1>1 DEF IInv, Typed, Succeed, MarkFailed, Goto, statusVars, histVars, Running,
                Processing, Guarded, Terminal, RefundStatus
  <2>3. LocalInv'
    BY <1>1, <2>1 DEF IInv, Typed, LocalInv, OutOfReach, Succeed, MarkFailed, Goto
  <2>4. HeldInv'
    BY <1>1, <2>1 DEF IInv, Typed, HeldInv, OutOfReach, Succeed, MarkFailed, Goto,
                      Processing, Guarded
  <2>5. OnceInv'
    BY <1>1 DEF IInv, Typed, OnceInv, Ahead, Succeed, MarkFailed, Goto, histVars
  <2>6. SucceededIsPosted'
    BY <1>1 DEF IInv, Typed, SucceededIsPosted, Succeeded, Succeed, MarkFailed, Goto
  <2> QED  BY <2>2, <2>3, <2>4, <2>5, <2>6 DEF IInv
<1>2. CASE PostIssuance(r)
  <2>1. Typed' /\ LocalInv' /\ HeldInv'
    BY <1>2 DEF IInv, Typed, LocalInv, HeldInv, OutOfReach, PostIssuance, Goto,
                statusVars, rowVars, histVars, Running, Processing, Guarded
  <2>2. OnceInv'
    BY <1>2 DEF IInv, Typed, OnceInv, Ahead, PostIssuance, Goto, rowVars, histVars
  <2>3. SucceededIsPosted'
    BY <1>2 DEF IInv, Typed, SucceededIsPosted, Succeeded, PostIssuance, Goto, rowVars
  <2> QED  BY <2>1, <2>2, <2>3 DEF IInv
<1>3. CASE ReadTotal(r) \/ UpdatePayment(r) \/ UpdateBooking(r)
  <2>1. Typed' /\ LocalInv' /\ HeldInv'
    BY <1>3 DEF IInv, Typed, LocalInv, HeldInv, OutOfReach, ReadTotal, UpdatePayment,
                UpdateBooking, Goto, StatusFor, Settled, statusVars, rowVars, histVars,
                Running, Processing, Guarded, Terminal
  <2>2. OnceInv'
    BY <1>3 DEF IInv, Typed, OnceInv, Ahead, ReadTotal, UpdatePayment, UpdateBooking,
                Goto, rowVars, histVars
  <2>3. SucceededIsPosted'
    BY <1>3 DEF IInv, Typed, SucceededIsPosted, Succeeded, ReadTotal, UpdatePayment,
                UpdateBooking, Goto, rowVars
  <2> QED  BY <2>1, <2>2, <2>3 DEF IInv
<1>4. CASE Throw(r)
  <2>1. ~OutOfReach(key[r]) /\ UNCHANGED <<rowVars, issued, key>>
    BY <1>4 DEF IInv, Typed, HeldInv, Throw, Processing
  <2>2. Typed' /\ LocalInv' /\ HeldInv'
    BY <1>4, <2>1 DEF IInv, Typed, LocalInv, HeldInv, OutOfReach, Throw, Accept,
                      statusVars, rowVars, histVars, Running, Processing, Guarded
  <2>3. OnceInv'
    BY <1>4 DEF IInv, Typed, OnceInv, Ahead, Throw, Accept, Guarded, rowVars, histVars
  <2>4. SucceededIsPosted'
    BY <1>4 DEF IInv, Typed, SucceededIsPosted, Succeeded, Throw, Guarded, rowVars
  <2> QED  BY <2>2, <2>3, <2>4 DEF IInv
<1>5. CASE Evict(r)
  <2>1. Typed' /\ LocalInv' /\ HeldInv'
    BY <1>5 DEF IInv, Typed, LocalInv, HeldInv, OutOfReach, Evict, statusVars, rowVars,
                histVars, Running, Processing, Guarded, Terminal
  <2>2. OnceInv'
    BY <1>5 DEF IInv, Typed, OnceInv, Ahead, Evict, rowVars, histVars
  <2>3. SucceededIsPosted'
    BY <1>5 DEF IInv, Typed, SucceededIsPosted, Succeeded, Evict, Running, rowVars
  <2> QED  BY <2>1, <2>2, <2>3 DEF IInv
<1> QED  BY <1>1, <1>2, <1>3, <1>4, <1>5 DEF ProcessStep

LEMMA NextIInv == IInv /\ [Next]_vars => IInv'
<1> SUFFICES ASSUME IInv, [Next]_vars PROVE IInv'
  OBVIOUS
<1>1. ASSUME NEW r \in Requests,
             Arrive(r) \/ AdmitStep(r) \/ CallStep(r) \/ ProcessStep(r)
      PROVE  IInv'
  BY <1>1, ArriveIInv, AdmitIInv, CallIInv, ProcessIInv
<1>2. CASE UNCHANGED vars
  BY <1>2 DEF vars, statusVars, rowVars, histVars, IInv, Typed, LocalInv, HeldInv,
              OutOfReach, OnceInv, Ahead, SucceededIsPosted, Succeeded
<1> QED  BY <1>1, <1>2 DEF Next

-----------------------------------------------------------------------------
(* Amounts refunded.  A refund that Tingg has answered for keeps its        *)
(* amount, whatever becomes of its row, so no total read exceeds what Tingg *)
(* has answered for.  And the total that settles the statuses is read last: *)
(* while requests do not cross, either one is still to read the total, or   *)
(* the statuses show it, but for what the one that read it has yet to write.*)

AnsweredInv ==
    /\ \A k \in answered : refund[k] # "absent"
    /\ Succeeded \subseteq answered
    /\ \A r \in Requests : pc[r] = "succeed" => key[r] \in answered
    /\ \A r \in Requests : total[r] <= Sum(answered)

\* One request at a time processes a refund; failures leave faults behind.
AloneInv ==
    /\ ~crossed => \A q, r \in Requests :
                     pc[q] \in Processing /\ pc[r] \in Processing => q = r
    /\ faults = 0 => \A r \in Requests : pc[r] \notin {"fail", "failed", "aborted"}

Unread == {"process", "call", "succeed", "post", "total"}

Shown ==
    IF Succeeded = {}
    THEN payment = "succeeded" /\ booking = "paid"
    ELSE payment = StatusFor(Sum(Succeeded)) /\ booking = StatusFor(Sum(Succeeded))

\* A refund on its way to the total is succeeded, unless another approval of
\* it is about to process it.
ReadyInv ==
    ~crossed /\ faults = 0 =>
        \A r \in Requests : pc[r] \in {"post", "total"} =>
            refund[key[r]] = "succeeded" \/ \E q \in Requests : pc[q] = "process"

ShownInv ==
    /\ ~crossed /\ faults = 0
    /\ \A r \in Requests : pc[r] \notin Unread
    => /\ \A r \in Requests : pc[r] \in {"update", "book"} =>
            Succeeded # {} /\ total[r] = Sum(Succeeded)
       /\ \A r \in Requests : pc[r] = "book" => payment = StatusFor(Sum(Succeeded))
       /\ (\A r \in Requests : pc[r] \notin {"update", "book"}) => Shown

\* The part of TypeOK that is not in Typed.
RestTyped ==
    /\ booking \in {"paid", "partially_refunded", "refunded"}
    /\ amount \in [Asks -> 0 .. Paid]
    /\ total \in [Requests -> Nat]
    /\ answered \subseteq Asks
    /\ crossed \in BOOLEAN
    /\ faults \in 0 .. MaxFaults

SumInv ==
    /\ IInv /\ TypeOK
    /\ AnsweredInv /\ RefundedInFull
    /\ AloneInv /\ ReadyInv /\ ShownInv

Step(r) == Arrive(r) \/ AdmitStep(r) \/ CallStep(r) \/ ProcessStep(r)

LEMMA SumIsSumOf == ASSUME NEW S PROVE Sum(S) = SumOf(amount, S)
  BY DEF Sum, SumOf, MapThenSumSet, MapThenFoldSet

LEMMA TypesAddUp == Typed /\ RestTyped => TypeOK
  BY DEF Typed, RestTyped, TypeOK

LEMMA SumInit == Init => SumInv
<1> SUFFICES ASSUME Init PROVE SumInv
  OBVIOUS
<1>1. TypeOK
  <2>1. RestTyped
    <3>1. crossed \in BOOLEAN /\ booking \in {"paid", "partially_refunded", "refunded"}
          /\ answered \subseteq Asks
      BY DEF Init
    <3>2. 0 \in 0 .. Paid /\ 0 \in 0 .. MaxFaults /\ 0 \in Nat
      BY RefundsAssumption
    <3>3. amount \in [Asks -> 0 .. Paid] /\ total \in [Requests -> Nat] /\ faults \in 0 .. MaxFaults
      BY <3>2, Zenon DEF Init
    <3> QED  BY <3>1, <3>3 DEF RestTyped
  <2> QED  BY <2>1, InitIInv, TypesAddUp DEF IInv
<1>2. Succeeded = {}
  BY DEF Init, Succeeded
<1>3. Sum({}) = 0
  BY SumOfEmpty, SumIsSumOf
<1>4. AnsweredInv
  BY <1>2, <1>3 DEF Init, AnsweredInv
<1>5. RefundedInFull
  BY DEF Init, RefundedInFull
<1>6. AloneInv /\ ReadyInv
  BY DEF Init, AloneInv, ReadyInv, Processing, Guarded
<1>7. ShownInv
  BY <1>2 DEF Init, ShownInv, Shown
<1> QED  BY <1>1, <1>4, <1>5, <1>6, <1>7, InitIInv DEF SumInv

-----------------------------------------------------------------------------
(* Sums of amounts before and after a step *)

LEMMA SumsOrdered ==
    ASSUME TypeOK, NEW T \in SUBSET Asks, NEW S \in SUBSET T
    PROVE  Sum(S) \in Nat /\ Sum(T) \in Nat /\ Sum(S) <= Sum(T)
<1>1. amount \in [Asks -> Nat] /\ IsFiniteSet(Asks)
  BY RefundsAssumption DEF TypeOK
<1>2. SumOf(amount, S) \in Nat /\ SumOf(amount, T) \in Nat
      /\ SumOf(amount, S) <= SumOf(amount, T)
  BY <1>1, SumOfNat, SumOfMonotone
<1> QED  BY <1>2, SumIsSumOf

\* A row that exists keeps its amount.
LEMMA AmountKept ==
    ASSUME IInv, NEW r \in Requests, Step(r), NEW k \in Asks, refund[k] # "absent"
    PROVE  amount'[k] = amount[k] /\ refund'[k] # "absent"
<1>1. CASE Arrive(r)
  <2>1. ASSUME NEW a \in 1 .. Paid, StartRefund(r, a) PROVE k # r
    BY <2>1 DEF IInv, LocalInv, StartRefund, Goto
  <2> QED
    BY <1>1, <2>1 DEF Arrive, StartRefund, StartApproval, rowVars, IInv, Typed
<1>2. CASE AdmitStep(r)
  BY <1>2 DEF AdmitStep, CreateRefund, CreateItems, Approve, Process, rowVars, IInv, Typed
<1>3. CASE CallStep(r)
  BY <1>3 DEF CallStep, CallAccepted, CallNotAccepted, CallRepeated, rowVars
<1>4. CASE ProcessStep(r)
  BY <1>4 DEF ProcessStep, Succeed, PostIssuance, ReadTotal, UpdatePayment, UpdateBooking,
              Throw, MarkFailed, Evict, rowVars, IInv, Typed
<1> QED  BY <1>1, <1>2, <1>3, <1>4 DEF Step

\* The sum over refunds that exist stays what it is.
LEMMA SumKept ==
    ASSUME IInv, NEW r \in Requests, Step(r),
           NEW S \in SUBSET Asks, \A k \in S : refund[k] # "absent"
    PROVE  Sum(S)' = Sum(S)
<1>1. \A k \in S : amount'[k] = amount[k]
  BY AmountKept
<1>2. SumOf(amount', S) = SumOf(amount, S)
  BY <1>1, SumOfSame, RefundsAssumption
<1>3. Sum(S)' = SumOf(amount', S)
  BY DEF Sum, SumOf, MapThenSumSet, MapThenFoldSet
<1> QED  BY <1>2, <1>3, SumIsSumOf

-----------------------------------------------------------------------------
LEMMA StepTyped == ASSUME SumInv, NEW r \in Requests, Step(r) PROVE TypeOK'
<1> SUFFICES RestTyped'
  <2>1. IInv'
    BY NextIInv DEF SumInv, Step, Next
  <2> QED  BY <2>1 DEF IInv, Typed, RestTyped, TypeOK
<1>a. RestTyped
  BY DEF SumInv, TypeOK, RestTyped
<1> USE <1>a DEF RestTyped
<1>1. CASE Arrive(r)
  BY <1>1, RefundsAssumption
  DEF Arrive, StartRefund, StartApproval, statusVars, rowVars, histVars
<1>2. CASE AdmitStep(r)
  BY <1>2 DEF AdmitStep, CreateRefund, CreateItems, Approve, Process, statusVars,
              rowVars, histVars
<1>3. CASE CallStep(r)
  <2>1. key[r] \in Asks
    BY DEF SumInv, TypeOK
  <2> QED
    BY <1>3, <2>1, RefundsAssumption
    DEF CallStep, CallAccepted, CallNotAccepted, CallRepeated, statusVars, rowVars
<1>4. CASE ReadTotal(r)
  <2>1. Sum(Succeeded) \in Nat
    BY SumsOrdered DEF SumInv, Succeeded
  <2> QED  BY <1>4, <2>1 DEF ReadTotal, statusVars, rowVars, histVars
<1>5. CASE ProcessStep(r) /\ ~ReadTotal(r)
  BY <1>5, RefundsAssumption
  DEF ProcessStep, Succeed, PostIssuance, UpdatePayment, UpdateBooking, Throw, MarkFailed,
      Evict, StatusFor, statusVars, rowVars, histVars
<1> QED  BY <1>1, <1>2, <1>3, <1>4, <1>5 DEF Step

-----------------------------------------------------------------------------
(* No total read exceeds what Tingg has answered for *)

\* What Tingg has answered for only grows, and so does its sum.
LEMMA AnsweredGrows ==
    ASSUME SumInv, NEW r \in Requests, Step(r)
    PROVE  /\ answered \subseteq answered'
           /\ \A k \in answered' : refund[k] # "absent"
           /\ Sum(answered) \in Nat /\ Sum(answered)' \in Nat
           /\ Sum(answered) <= Sum(answered)'
<1>a. IInv /\ TypeOK /\ AnsweredInv
  BY DEF SumInv
<1>b. pc[r] \in {"succeed", "call"} => refund[key[r]] # "absent"
  BY <1>a DEF IInv, Typed, HeldInv, OutOfReach, Processing, Guarded
<1>1. answered \subseteq answered' /\ \A k \in answered' : refund[k] # "absent"
  <2>1. \/ answered' = answered
        \/ pc[r] = "call" /\ answered' = answered \cup {key[r]}
    <3>1. CASE Arrive(r) \/ AdmitStep(r)
      BY <3>1 DEF Arrive, StartRefund, StartApproval, AdmitStep, CreateRefund,
                  CreateItems, Approve, Process, histVars
    <3>2. CASE CallStep(r)
      BY <3>2 DEF CallStep, CallAccepted, CallNotAccepted, CallRepeated, Goto
    <3>3. CASE ProcessStep(r)
      BY <3>3 DEF ProcessStep, Succeed, PostIssuance, ReadTotal, UpdatePayment,
                  UpdateBooking, Throw, MarkFailed, Evict, histVars
    <3> QED  BY <3>1, <3>2, <3>3 DEF Step
  <2> QED  BY <1>a, <1>b, <2>1 DEF AnsweredInv
<1>2. Sum(answered) \in Nat /\ Sum(answered)' \in Nat /\ Sum(answered) <= Sum(answered)'
  <2>1. answered' \in SUBSET Asks /\ answered \in SUBSET answered'
    BY <1>1, StepTyped DEF TypeOK
  <2>2. Sum(answered)' \in Nat /\ SumOf(amount', answered) \in Nat
        /\ SumOf(amount', answered) <= Sum(answered)'
    <3>1. amount' \in [Asks -> Nat] /\ IsFiniteSet(Asks)
      BY StepTyped, RefundsAssumption DEF TypeOK
    <3>2. SumOf(amount', answered) <= SumOf(amount', answered')
          /\ SumOf(amount', answered) \in Nat /\ SumOf(amount', answered') \in Nat
      BY <2>1, <3>1, SumOfMonotone, SumOfNat
    <3>3. Sum(answered)' = SumOf(amount', answered')
      BY DEF Sum, SumOf, MapThenSumSet, MapThenFoldSet
    <3> QED  BY <3>2, <3>3
  <2>3. SumOf(amount', answered) = SumOf(amount, answered)
    <3>1. \A k \in answered : amount'[k] = amount[k]
      BY <1>a, <1>1, AmountKept DEF TypeOK
    <3>2. answered \in SUBSET Asks
      BY <1>a DEF TypeOK
    <3> QED  BY <3>1, <3>2, SumOfSame, RefundsAssumption
  <2> QED  BY <2>2, <2>3, SumIsSumOf
<1> QED  BY <1>1, <1>2

LEMMA StepAnswered == ASSUME SumInv, NEW r \in Requests, Step(r) PROVE AnsweredInv'
<1>a. IInv /\ TypeOK /\ AnsweredInv
  BY DEF SumInv
<1>1. answered \subseteq answered' /\ \A k \in answered' : refund[k] # "absent"
  BY AnsweredGrows
<1>2. \A k \in answered' : refund'[k] # "absent"
  BY <1>a, <1>1, AmountKept, StepTyped DEF TypeOK
<1>3. \A q \in Requests : pc'[q] = "succeed" => key'[q] \in answered'
  <2>1. ASSUME NEW q \in Requests, q # r PROVE pc'[q] = pc[q] /\ key'[q] = key[q]
    BY <1>a, <2>1
    DEF Step, Arrive, StartRefund, StartApproval, AdmitStep, CreateRefund, CreateItems,
        Approve, Process, CallStep, CallAccepted, CallNotAccepted, CallRepeated,
        ProcessStep, Succeed, PostIssuance, ReadTotal, UpdatePayment, UpdateBooking,
        Throw, MarkFailed, Evict, Goto, TypeOK
  <2>2. pc'[r] = "succeed" => key'[r] \in answered'
    BY <1>a
    DEF Step, Arrive, StartRefund, StartApproval, AdmitStep, CreateRefund, CreateItems,
        Approve, Process, CallStep, CallAccepted, CallNotAccepted, CallRepeated,
        ProcessStep, Succeed, PostIssuance, ReadTotal, UpdatePayment, UpdateBooking,
        Throw, MarkFailed, Evict, Goto, TypeOK
  <2> QED  BY <1>a, <1>1, <2>1, <2>2 DEF AnsweredInv
<1>4. Succeeded' \subseteq answered'
  <2>1. \A k \in Asks : refund'[k] = "succeeded" =>
          refund[k] = "succeeded" \/ (pc[r] = "succeed" /\ k = key[r])
    <3>1. CASE Arrive(r) \/ AdmitStep(r)
      BY <1>a, <3>1 DEF Arrive, StartRefund, StartApproval, AdmitStep, CreateRefund,
                        CreateItems, Approve, Process, rowVars, TypeOK
    <3>2. CASE CallStep(r)
      BY <3>2 DEF CallStep, CallAccepted, CallNotAccepted, CallRepeated, rowVars
    <3>3. CASE ProcessStep(r)
      BY <1>a, <3>3 DEF ProcessStep, Succeed, PostIssuance, ReadTotal, UpdatePayment,
                        UpdateBooking, Throw, MarkFailed, Evict, Goto, rowVars, TypeOK
    <3> QED  BY <3>1, <3>2, <3>3 DEF Step
  <2> QED  BY <1>a, <1>1, <2>1 DEF AnsweredInv, Succeeded
<1>5. Sum(answered) \in Nat /\ Sum(answered)' \in Nat /\ Sum(answered) <= Sum(answered)'
  BY AnsweredGrows
<1>6. \A q \in Requests : total'[q] <= Sum(answered)'
  <2>2. CASE ReadTotal(r)
    <3>1. Sum(Succeeded) \in Nat /\ Sum(Succeeded) <= Sum(answered)
      BY <1>a, SumsOrdered DEF AnsweredInv, TypeOK
    <3>2. \A q \in Requests : total'[q] = total[q] \/ total'[q] = Sum(Succeeded)
      BY <1>a, <2>2 DEF ReadTotal, TypeOK
    <3> QED  BY <1>a, <1>5, <3>1, <3>2 DEF AnsweredInv, TypeOK
  <2>3. CASE total' = total
    BY <1>a, <1>5, <2>3 DEF AnsweredInv, TypeOK
  <2> QED
    BY <2>2, <2>3
    DEF Step, Arrive, StartRefund, StartApproval, AdmitStep, CreateRefund, CreateItems,
        Approve, Process, CallStep, CallAccepted, CallNotAccepted, CallRepeated,
        ProcessStep, Succeed, PostIssuance, UpdatePayment, UpdateBooking,
        Throw, MarkFailed, Evict
<1> QED  BY <1>2, <1>3, <1>4, <1>6 DEF AnsweredInv

LEMMA StepInFull == ASSUME SumInv, NEW r \in Requests, Step(r) PROVE RefundedInFull'
<1> SUFFICES ASSUME "refunded" \in {payment', booking'} PROVE Sum(answered)' >= Paid
  BY DEF RefundedInFull
<1>1. "refunded" \in {payment, booking} \/ StatusFor(total[r]) = "refunded"
  <2>1. CASE ProcessStep(r)
    BY <2>1 DEF ProcessStep, Succeed, PostIssuance, ReadTotal, UpdatePayment,
                UpdateBooking, Throw, MarkFailed, Evict, statusVars
  <2>2. CASE Arrive(r) \/ AdmitStep(r) \/ CallStep(r)
    BY <2>2 DEF Arrive, StartRefund, StartApproval, AdmitStep, CreateRefund, CreateItems,
                Approve, Process, CallStep, CallAccepted, CallNotAccepted, CallRepeated,
                statusVars
  <2> QED  BY <2>1, <2>2 DEF Step
<1>2. Sum(answered) >= Paid \/ total[r] >= Paid
  BY <1>1 DEF SumInv, RefundedInFull, StatusFor
<1>3. total[r] <= Sum(answered) /\ total[r] \in Nat
  BY DEF SumInv, AnsweredInv, TypeOK
<1> QED  BY <1>2, <1>3, AnsweredGrows, RefundsAssumption

-----------------------------------------------------------------------------
(* The statuses show the last total *)

LEMMA StepAlone == ASSUME SumInv, NEW r \in Requests, Step(r) PROVE AloneInv'
<1>a. TypeOK /\ AloneInv /\ faults' \in Nat
  BY StepTyped DEF SumInv, TypeOK
<1> USE DEF AloneInv, Processing, Guarded, TypeOK
<1>1. CASE Arrive(r)
  BY <1>1, <1>a DEF Arrive, StartRefund, StartApproval, Goto, histVars
<1>2. CASE CreateRefund(r) \/ CreateItems(r) \/ Approve(r)
  BY <1>2, <1>a DEF CreateRefund, CreateItems, Approve, Goto, histVars
<1>3. CASE Process(r)
  BY <1>3, <1>a DEF Process, Goto
<1>4. CASE CallStep(r)
  BY <1>4, <1>a DEF CallStep, CallAccepted, CallNotAccepted, CallRepeated, Goto
<1>5. CASE Throw(r) \/ Evict(r)
  BY <1>5, <1>a DEF Throw, Evict, histVars
<1>6. CASE ProcessStep(r) /\ ~Throw(r) /\ ~Evict(r)
  BY <1>6, <1>a DEF ProcessStep, Succeed, PostIssuance, ReadTotal, UpdatePayment,
                    UpdateBooking, MarkFailed, Goto, histVars
<1> HIDE DEF AloneInv
<1> QED  BY <1>1, <1>2, <1>3, <1>4, <1>5, <1>6 DEF Step, AdmitStep

\* What a step starts from when it leaves nothing that excuses the statuses.
LEMMA Excused ==
    ASSUME SumInv, NEW r \in Requests, Step(r), ~crossed', faults' = 0
    PROVE  /\ ~crossed /\ faults = 0
           /\ ~Throw(r) /\ ~Evict(r) /\ ~MarkFailed(r) /\ ~CallRepeated(r)
<1>a. TypeOK /\ AloneInv
  BY DEF SumInv
<1>1. CASE Arrive(r) \/ AdmitStep(r)
  BY <1>1, <1>a DEF Arrive, StartRefund, StartApproval, AdmitStep, CreateRefund,
                    CreateItems, Approve, Process, Goto, histVars, TypeOK, AloneInv,
                    Throw, Evict, MarkFailed, CallRepeated, Guarded
<1>2. CASE CallStep(r)
  BY <1>2, <1>a DEF CallStep, CallAccepted, CallNotAccepted, CallRepeated, Goto, TypeOK,
                    Throw, Evict, MarkFailed
<1>3. CASE ProcessStep(r)
  BY <1>3, <1>a DEF ProcessStep, Succeed, PostIssuance, ReadTotal, UpdatePayment,
                    UpdateBooking, Throw, MarkFailed, Evict, CallRepeated, Goto, histVars,
                    TypeOK, AloneInv
<1> QED  BY <1>1, <1>2, <1>3 DEF Step

LEMMA StepReady == ASSUME SumInv, NEW r \in Requests, Step(r) PROVE ReadyInv'
<1> SUFFICES ASSUME ~crossed', faults' = 0,
                    NEW q \in Requests, pc'[q] \in {"post", "total"}
             PROVE  refund'[key'[q]] = "succeeded" \/ \E p \in Requests : pc'[p] = "process"
  BY DEF ReadyInv
<1>a. TypeOK /\ IInv /\ AloneInv /\ ReadyInv /\ ~crossed /\ faults = 0
  BY Excused DEF SumInv
<1>b. pc[q] \in {"post", "total"} =>
        /\ refund[key[q]] = "succeeded" \/ \E p \in Requests : pc[p] = "process"
        /\ \A p \in Requests : p # q => pc[p] \notin Processing
  BY <1>a DEF ReadyInv, AloneInv, Processing, Guarded
<1> USE <1>b DEF TypeOK
<1>1. CASE Arrive(r)
  <2>1. \A p \in Requests : pc[p] = "process" => pc'[p] = "process"
    BY <1>1, <1>a DEF Arrive, StartRefund, StartApproval, Goto
  <2> QED
    BY <1>1, <1>a, <2>1 DEF Arrive, StartRefund, StartApproval, Goto, rowVars
<1>2. CASE CreateRefund(r)
  <2>1. refund[r] = "absent" /\ key[r] = r
    BY <1>2, <1>a DEF CreateRefund, Goto, IInv, LocalInv
  <2> QED  BY <1>2, <1>a, <2>1 DEF CreateRefund, Goto
<1>3. CASE CreateItems(r)
  BY <1>3, <1>a DEF CreateItems, Goto, rowVars
<1>4. CASE Approve(r)
  BY <1>4, <1>a DEF Approve, Goto
<1>5. CASE Process(r)
  <2>1. \A p \in Requests : pc[p] \notin Processing
    BY <1>5 DEF Process
  <2> QED  BY <1>5, <1>a, <2>1 DEF Process, Goto, Processing, Guarded
<1>6. CASE CallStep(r)
  BY <1>6, <1>a
  DEF CallStep, CallAccepted, CallNotAccepted, CallRepeated, Goto, rowVars, Processing, Guarded
<1>7. CASE Succeed(r)
  <2>1. \A p \in Requests : p # r => pc[p] \notin Processing
    BY <1>7, <1>a DEF Succeed, Goto, AloneInv, Processing, Guarded
  <2> QED  BY <1>7, <1>a, <2>1 DEF Succeed, Goto, Processing, Guarded
<1>8. CASE PostIssuance(r) \/ ReadTotal(r) \/ UpdatePayment(r) \/ UpdateBooking(r)
  BY <1>8, <1>a DEF PostIssuance, ReadTotal, UpdatePayment, UpdateBooking, Goto, rowVars,
                    Processing, Guarded
<1> QED
  BY <1>1, <1>2, <1>3, <1>4, <1>5, <1>6, <1>7, <1>8, Excused
  DEF Step, AdmitStep, ProcessStep

\* Before the steps that write a status, no one else processes a refund.
LEMMA OthersOut ==
    ASSUME SumInv, NEW r \in Requests, pc[r] \in Processing, ~crossed
    PROVE  \A q \in Requests : q # r => pc[q] \notin Processing
  BY DEF SumInv, AloneInv

\* A step that leaves the succeeded refunds and the statuses alone, and what
\* the requests have read and have yet to write.
LEMMA ShownFrame ==
    ASSUME SumInv, NEW r \in Requests, Step(r), ~crossed, faults = 0,
           UNCHANGED <<statusVars, total>>, Succeeded' = Succeeded,
           \A q \in Requests : pc[q] \in Processing \cup {"process"} => pc'[q] = pc[q],
           \A q \in Requests : pc'[q] # pc[q] => pc'[q] \notin {"update", "book"}
    PROVE  ShownInv'
<1>1. Sum(Succeeded)' = Sum(Succeeded)
  <2>1. \A k \in Succeeded : refund[k] # "absent"
    BY DEF Succeeded
  <2>2. Sum(Succeeded)' = SumOf(amount', Succeeded)
    BY DEF Sum, SumOf, MapThenSumSet, MapThenFoldSet
  <2>3. \A k \in Succeeded : amount'[k] = amount[k]
    BY <2>1, AmountKept DEF SumInv, Succeeded
  <2>4. SumOf(amount', Succeeded) = SumOf(amount, Succeeded)
    <3>1. Succeeded \in SUBSET Asks
      BY DEF Succeeded
    <3> QED  BY <2>3, <3>1, SumOfSame, RefundsAssumption
  <2> QED  BY <2>2, <2>4, SumIsSumOf
<1>2. \A q \in Requests : pc[q] \in Unread \cup {"update", "book"} => pc'[q] = pc[q]
  BY DEF Unread, Processing, Guarded
<1>3. SUFFICES ASSUME ~crossed', faults' = 0, \A q \in Requests : pc'[q] \notin Unread
               PROVE  /\ \A q \in Requests : pc'[q] \in {"update", "book"} =>
                            Succeeded # {} /\ total[q] = Sum(Succeeded)
                      /\ \A q \in Requests : pc'[q] = "book" =>
                            payment = StatusFor(Sum(Succeeded))
                      /\ (\A q \in Requests : pc'[q] \notin {"update", "book"}) => Shown
  BY <1>1 DEF ShownInv, Shown, statusVars, StatusFor
<1>4. \A q \in Requests : pc[q] \notin Unread
  BY <1>2, <1>3
<1> QED  BY <1>2, <1>4 DEF SumInv, ShownInv

LEMMA StepShown == ASSUME SumInv, NEW r \in Requests, Step(r) PROVE ShownInv'
<1> SUFFICES ASSUME ~crossed', faults' = 0 PROVE ShownInv'
  BY DEF ShownInv
<1>a. TypeOK /\ IInv /\ AloneInv /\ ReadyInv /\ ShownInv /\ ~crossed /\ faults = 0
  BY Excused DEF SumInv
\* Someone is still to read the total.
<1>b. ASSUME pc'[r] \in Unread PROVE ShownInv'
  BY <1>b DEF ShownInv
<1>1. CASE Arrive(r)
  <2>1. /\ UNCHANGED <<statusVars, total>> /\ Succeeded' = Succeeded
        /\ \A q \in Requests : pc[q] \in Processing \cup {"process"} => pc'[q] = pc[q]
        /\ \A q \in Requests : pc'[q] # pc[q] => pc'[q] \notin {"update", "book"}
    BY <1>1, <1>a DEF Arrive, StartRefund, StartApproval, Goto, statusVars, rowVars, TypeOK,
                      Succeeded, Processing, Guarded
  <2> QED  BY <1>a, <2>1, ShownFrame
<1>2. CASE CreateRefund(r) \/ CreateItems(r)
  <2>1. CreateRefund(r) => refund[r] = "absent"
    BY <1>a DEF CreateRefund, Goto, IInv, LocalInv
  <2>2. /\ UNCHANGED <<statusVars, total>> /\ Succeeded' = Succeeded
        /\ \A q \in Requests : pc[q] \in Processing \cup {"process"} => pc'[q] = pc[q]
        /\ \A q \in Requests : pc'[q] # pc[q] => pc'[q] \notin {"update", "book"}
    BY <1>2, <1>a, <2>1
    DEF CreateRefund, CreateItems, Goto, statusVars, rowVars, TypeOK, Succeeded, Processing,
        Guarded
  <2> QED  BY <1>a, <2>2, ShownFrame
<1>3. CASE Approve(r) \/ Process(r) \/ CallAccepted(r) \/ CallNotAccepted(r)
           \/ Succeed(r) \/ PostIssuance(r)
  <2>1. pc'[r] \in Unread
    BY <1>3, <1>a DEF Approve, Process, CallAccepted, CallNotAccepted, Succeed, PostIssuance,
                      Goto, Unread, TypeOK
  <2> QED  BY <1>b, <2>1
<1>4. CASE ReadTotal(r) \/ UpdatePayment(r) \/ UpdateBooking(r)
  <2>1. /\ Succeeded' = Succeeded /\ Sum(Succeeded)' = Sum(Succeeded)
        /\ UNCHANGED <<refund, amount, key>>
    <3>1. Succeeded' = Succeeded /\ UNCHANGED <<refund, amount, key>>
      BY <1>4 DEF ReadTotal, UpdatePayment, UpdateBooking, rowVars, Succeeded
    <3>2. Sum(Succeeded)' = SumOf(amount', Succeeded')
      BY DEF Sum, SumOf, MapThenSumSet, MapThenFoldSet
    <3> QED  BY <3>1, <3>2, SumIsSumOf
  <2>2. \A q \in Requests : q # r => pc[q] \notin Processing /\ pc'[q] = pc[q]
    BY <1>4, <1>a DEF ReadTotal, UpdatePayment, UpdateBooking, Goto, AloneInv, Processing,
                      Guarded, TypeOK
  <2>3. SUFFICES ASSUME \A q \in Requests : pc'[q] \notin Unread PROVE ShownInv'
    BY DEF ShownInv
  <2>4. \A q \in Requests : pc[q] # "process"
    BY <1>4, <2>2, <2>3 DEF ReadTotal, UpdatePayment, UpdateBooking, Goto, Unread
  <2>5. CASE ReadTotal(r)
    <3>1. key[r] \in Succeeded
      BY <1>a, <2>4, <2>5 DEF ReadyInv, ReadTotal, Goto, Succeeded, TypeOK
    <3>2. /\ pc'[r] = "update" /\ total'[r] = Sum(Succeeded)
          /\ \A q \in Requests : q # r => pc'[q] \notin {"update", "book"}
      BY <1>a, <2>2, <2>5 DEF ReadTotal, Goto, TypeOK, Processing, Guarded
    <3> QED  BY <2>1, <3>1, <3>2 DEF ShownInv
  <2>6. CASE UpdatePayment(r) \/ UpdateBooking(r)
    <3>1. /\ pc[r] \in {"update", "book"}
          /\ \A q \in Requests : q # r => pc'[q] \notin {"update", "book"}
      BY <2>2, <2>6 DEF UpdatePayment, UpdateBooking, Goto, Processing, Guarded
    <3>2. \A q \in Requests : pc[q] \notin Unread
      BY <2>2, <2>3, <3>1 DEF Unread
    <3>3. Succeeded # {} /\ total[r] = Sum(Succeeded)
          /\ (pc[r] = "book" => payment = StatusFor(Sum(Succeeded)))
      BY <1>a, <3>1, <3>2 DEF ShownInv
    <3>4. StatusFor(Sum(Succeeded))' = StatusFor(Sum(Succeeded))
      BY <2>1 DEF StatusFor
    <3>5. CASE UpdatePayment(r)
      <4>1. pc'[r] = "book" /\ payment' = StatusFor(Sum(Succeeded)) /\ total' = total
        BY <1>a, <3>3, <3>5 DEF UpdatePayment, Goto, TypeOK
      <4> QED  BY <2>1, <3>1, <3>3, <3>4, <4>1 DEF ShownInv
    <3>6. CASE UpdateBooking(r)
      <4>1. /\ pc'[r] = "processed" /\ booking' = StatusFor(Sum(Succeeded))
            /\ payment' = StatusFor(Sum(Succeeded))
        BY <1>a, <3>3, <3>6 DEF UpdateBooking, Goto, TypeOK
      <4>2. Shown'
        BY <2>1, <3>3, <3>4, <4>1 DEF Shown
      <4>3. \A q \in Requests : pc'[q] \notin {"update", "book"}
        BY <3>1, <4>1
      <4> QED  BY <4>2, <4>3 DEF ShownInv
    <3> QED  BY <2>6, <3>5, <3>6
  <2> QED  BY <1>4, <2>5, <2>6
<1> QED
  BY <1>1, <1>2, <1>3, <1>4, Excused DEF Step, AdmitStep, CallStep, ProcessStep

LEMMA NextSum == SumInv /\ [Next]_vars => SumInv'
<1> SUFFICES ASSUME SumInv, [Next]_vars PROVE SumInv'
  OBVIOUS
<1>1. IInv'
  BY NextIInv DEF SumInv
<1>2. ASSUME NEW r \in Requests, Step(r) PROVE SumInv'
  BY <1>1, <1>2, StepTyped, StepAnswered, StepInFull, StepAlone, StepReady, StepShown
  DEF SumInv
<1>3. CASE UNCHANGED vars
  <2>1. /\ UNCHANGED <<statusVars, rowVars, posts, issued, pc, key, total, histVars, faults>>
        /\ Succeeded' = Succeeded
    BY <1>3 DEF vars, rowVars, Succeeded
  <2>2. Sum(Succeeded)' = Sum(Succeeded) /\ Sum(answered)' = Sum(answered)
    <3>1. /\ Sum(Succeeded)' = SumOf(amount', Succeeded')
          /\ Sum(answered)' = SumOf(amount', answered')
      BY DEF Sum, SumOf, MapThenSumSet, MapThenFoldSet
    <3> QED  BY <2>1, <3>1, SumIsSumOf DEF rowVars, histVars
  <2> QED
    BY <1>1, <2>1, <2>2
    DEF statusVars, rowVars, histVars, SumInv, TypeOK, AnsweredInv, RefundedInFull, AloneInv,
        ReadyInv, ShownInv, Shown, StatusFor
<1> QED  BY <1>2, <1>3 DEF Next, Step

-----------------------------------------------------------------------------
(* The results *)

\* However many requests and failures, the inductive invariant of the service
\* holds (requestRefund, approveRefund, processApprovedRefund).
THEOREM InductiveInvariant == Spec => []IInv
  BY InitIInv, NextIInv, PTL DEF Spec

\* Tingg is not asked for a refund above the threshold before approveRefund has
\* recorded who approved it (requestRefund, processApprovedRefund).
THEOREM ApprovalBeforeRefund == Spec => []LargeRefundNeedsApproval
<1>1. IInv => LargeRefundNeedsApproval
  BY DEF IInv, Typed, HeldInv, OutOfReach, LargeRefundNeedsApproval
<1> QED  BY <1>1, InductiveInvariant, PTL

\* One refund is paid twice only if its approvals overlapped or the HTTP client
\* repeated it (approveRefund, TinggHttpClient.post).
THEOREM RefundedOnce == Spec => []RefundedTwiceOnlyInDoubt
<1>1. IInv => RefundedTwiceOnlyInDoubt
  BY DEF IInv, Typed, OnceInv, RefundedTwiceOnlyInDoubt
<1> QED  BY <1>1, InductiveInvariant, PTL

\* A succeeded refund is in the ledger or a request is to blame
\* (processApprovedRefund, postRefundIssuance).
THEOREM RefundIsPosted == Spec => []SucceededIsPosted
<1>1. IInv => SucceededIsPosted
  BY DEF IInv
<1> QED  BY <1>1, InductiveInvariant, PTL

\* So does the one about the sums (processApprovedRefund).
THEOREM SumsInvariant == Spec => []SumInv
  BY SumInit, NextSum, PTL DEF Spec

\* Every row and every request local has its type, totals included.
THEOREM RefundsTyped == Spec => []TypeOK
<1>1. SumInv => TypeOK
  BY DEF SumInv
<1> QED  BY <1>1, SumsInvariant, PTL

\* Payment and booking are refunded only if what Tingg has answered for adds up
\* to what was paid (updateStatus after the sum over succeeded refunds).
THEOREM InFullOnly == Spec => []RefundedInFull
<1>1. SumInv => RefundedInFull
  BY DEF SumInv
<1> QED  BY <1>1, SumsInvariant, PTL

\* When nothing runs, the statuses show the sum of the succeeded refunds,
\* unless two were processed at once or a request was cut short.
THEOREM StatusIsTotal == Spec => []StatusShowsTotal
<1>1. SumInv => StatusShowsTotal
  BY DEF SumInv, ShownInv, Shown, StatusShowsTotal, Unread, Running, Processing, Guarded
<1> QED  BY <1>1, SumsInvariant, PTL

-----------------------------------------------------------------------------
(* Charges: the order *)

\* The charges picked so far, and the edges a charge still waits for.
Placed == {order[i] : i \in DOMAIN order}
Waits(d) == {x \in Edges : x.dependent = d /\ x.on \notin Placed}

Pricing == {"price", "priced"}

ChargesTyped ==
    /\ applicable \subseteq Defs
    /\ deps \subseteq Dependencies /\ IsFiniteSet(deps)
    /\ stage \in {"configure", "order", "threw"} \cup Pricing
    /\ degree \in [Defs -> Int] /\ ready \subseteq Defs /\ order \in Seq(Defs)
    /\ baseOf \in [Defs -> Defs \cup {NoCharge}]
    /\ at \in Nat \ {0}
    /\ DOMAIN computed \subseteq Defs /\ DOMAIN lines \subseteq Defs
    /\ \A d \in DOMAIN computed : computed[d] \in Nat
    /\ \A d \in DOMAIN lines : lines[d].base \in Nat /\ lines[d].amount \in Nat
    /\ refunds \in Seq(Ratios) /\ refunded \in [Defs -> Nat]

\* A pair has one dependency.
DepsInv ==
    \A x, y \in deps : x.dependent = y.dependent /\ x.on = y.on => x = y

\* What a stage has not begun is as it was at first.
FreshInv ==
    /\ stage = "configure" => order = <<>>
    /\ stage \notin Pricing => DOMAIN computed = {} /\ DOMAIN lines = {} /\ at = 1
    /\ stage # "priced" => refunds = <<>> /\ \A d \in Defs : refunded[d] = 0

\* A charge is ready when it waits for nothing, and its degree counts what it
\* waits for.
KahnInv ==
    stage = "order" =>
        /\ ready \cap Placed = {}
        /\ \A d \in Defs : degree[d] = Cardinality(Waits(d))
        /\ \A d \in ready \cup Placed : Waits(d) = {}
        /\ \A d \in Active : Waits(d) = {} => d \in ready \cup Placed
        /\ ready \cup Placed \subseteq Active \cup {x.dependent : x \in Edges}

\* Each charge is placed once, after those it depends on.
PlacedInv ==
    /\ \A i, j \in DOMAIN order : order[i] = order[j] => i = j
    /\ \A x \in Edges, j \in DOMAIN order :
          order[j] = x.dependent => \E i \in DOMAIN order : i < j /\ order[i] = x.on
    /\ stage \in Pricing => Placed \subseteq applicable

\* The base of a charge is one it depends on.
BaseInv ==
    stage # "configure" =>
        \A d \in Defs : baseOf[d] = NoCharge \/ baseOf[d] \in Bases(d)

PriceInv ==
    stage \in Pricing =>
        \A d \in DOMAIN computed \cup DOMAIN lines :
            \E i \in DOMAIN order : i < at /\ order[i] = d

RoundingInv ==
    /\ Refunded \in 0..Whole
    /\ \A d \in DOMAIN lines :
          2 * Whole * refunded[d] <= 2 * lines[d].amount * Refunded + Whole * Len(refunds)

ChargesIInv ==
    /\ ChargesTyped /\ DepsInv /\ FreshInv
    /\ KahnInv /\ PlacedInv /\ OrderedUnlessCyclic
    /\ BaseInv /\ PriceInv /\ BasedOnComputed
    /\ RoundingInv

-----------------------------------------------------------------------------
(* The definitions the graph is made of depend on the inputs only. *)
LEMMA GraphKept ==
    ASSUME UNCHANGED inputVars
    PROVE  /\ Active' = Active /\ Edges' = Edges
           /\ \A d : Bases(d)' = Bases(d) /\ Neighbours(d)' = Neighbours(d)
           /\ Foreign' = Foreign /\ Cyclic' = Cyclic
<1>1. excluded' = excluded
  BY DEF excluded, inputVars
<1>2. Active' = Active /\ Orderings' = Orderings
  BY <1>1 DEF inputVars, Active, Orderings
<1>3. Edges' = Edges /\ \A d : Bases(d)' = Bases(d)
  BY <1>2 DEF Edges, Bases
<1> QED
  BY <1>2, <1>3 DEF Neighbours, Foreign, Cyclic, inputVars

LEMMA GraphTyped ==
    ASSUME ChargesTyped
    PROVE  /\ Active \subseteq Defs /\ Active \subseteq applicable /\ IsFiniteSet(Active)
           /\ Edges \subseteq deps /\ IsFiniteSet(Edges)
           /\ \A x \in Edges : x.dependent \in Defs /\ x.on \in Active
           /\ \A d : Bases(d) \subseteq Defs
           /\ ~Foreign => \A x \in Edges : x.dependent \in Active
<1>1. Active \subseteq Defs /\ Active \subseteq applicable
  BY DEF ChargesTyped, Active
<1>2. Edges \subseteq deps /\ \A x \in Edges : x.dependent \in Defs /\ x.on \in Active
  BY DEF ChargesTyped, Edges, Orderings, Dependencies
<1>3. IsFiniteSet(Active) /\ IsFiniteSet(Edges)
  BY <1>1, <1>2, ChargesAssumption, FS_Subset DEF ChargesTyped
<1>4. \A d : Bases(d) \subseteq Defs
  BY DEF ChargesTyped, Bases, Orderings, Dependencies
<1>5. ASSUME ~Foreign, NEW x \in Edges PROVE x.dependent \in Active
  BY <1>5 DEF Foreign, Active, Edges, Orderings
<1> QED  BY <1>1, <1>2, <1>3, <1>4, <1>5

\* The greater and the smaller of two numbers.
LEMMA TwoNumbers ==
    ASSUME NEW a \in Nat, NEW b \in Nat
    PROVE  Max({a, b}) \in Nat /\ Min({a, b}) \in Nat
BY DEF Max, Min

LEMMA RoundedNear ==
    ASSUME NEW n \in Nat, NEW m \in Nat, m > 0
    PROVE  Rounded(n, m) \in Nat /\ 2 * m * Rounded(n, m) <= 2 * n + m
BY DEF Rounded

LEMMA AmountNat == ASSUME NEW base \in Nat, NEW r \in Rules PROVE Amount(base, r) \in Nat
<1> DEFINE of == IF r.inclusive THEN Whole + r.rate ELSE Whole
           n == base * r.rate
<1>1. of \in Nat /\ of > 0 /\ n \in Nat /\ {r.fixed, r.min, r.max} \subseteq Nat
  BY ChargesAssumption
<1> HIDE DEF of, n
<1>2. Rounded(n, of) \in Nat
  BY <1>1, RoundedNear
<1> DEFINE a == r.fixed + Rounded(n, of)
<1>3. a \in Nat /\ Max({a, r.min}) \in Nat
  BY <1>1, <1>2, TwoNumbers
<1>4. Min({Max({a, r.min}), r.max}) \in Nat
  BY <1>1, <1>3, TwoNumbers
<1> QED  BY <1>4 DEF Amount, of, n

\* What was refunded is a sum over the refunds.
LEMMA RefundedIsSum == Refunded = SumOf(refunds, DOMAIN refunds)
BY DEF Refunded, FoldFunction, FoldFunctionOnSet, SumOf, MapThenSumSet, MapThenFoldSet

LEMMA RoundingKept ==
    ASSUME RoundingInv, UNCHANGED <<lines, refundVars>>
    PROVE  RoundingInv'
<1>1. UNCHANGED <<lines, refunds, refunded>>
  BY DEF refundVars
<1>2. Refunded' = SumOf(refunds', DOMAIN refunds')
  BY DEF Refunded, FoldFunction, FoldFunctionOnSet, SumOf, MapThenSumSet, MapThenFoldSet
<1>3. Refunded' = Refunded
  BY <1>1, <1>2, RefundedIsSum
<1> QED  BY <1>1, <1>3 DEF RoundingInv

-----------------------------------------------------------------------------
LEMMA ChargesInitIInv == ChargesInit => ChargesIInv
<1> SUFFICES ASSUME ChargesInit PROVE ChargesIInv
  OBVIOUS
<1> USE DEF ChargesInit, Pricing
<1>1. ChargesTyped
  BY ChargesAssumption, FS_EmptySet DEF ChargesTyped
<1>2. DepsInv /\ FreshInv /\ KahnInv /\ PlacedInv /\ OrderedUnlessCyclic
  BY DEF DepsInv, FreshInv, KahnInv, PlacedInv, OrderedUnlessCyclic
<1>3. BaseInv /\ PriceInv /\ BasedOnComputed
  BY DEF BaseInv, PriceInv, BasedOnComputed
<1>4. Refunded = 0
  <2>1. DOMAIN refunds = {}
    OBVIOUS
  <2> QED  BY <2>1, SumOfEmpty, RefundedIsSum
<1>5. DOMAIN lines = {} /\ 0 \in 0 .. Whole
  BY ChargesAssumption
<1>6. RoundingInv
  BY <1>4, <1>5 DEF RoundingInv
<1> QED  BY <1>1, <1>2, <1>3, <1>6 DEF ChargesIInv

\* A step that leaves inputs, stage and amounts alone.
LEMMA AddIInv == ASSUME ChargesIInv, NEW x \in Dependencies, AddDependency(x) PROVE ChargesIInv'
<1> USE DEF AddDependency, orderVars, priceVars, refundVars, Pricing
<1>1. ChargesTyped'
  BY FS_AddElement DEF ChargesIInv, ChargesTyped
<1>2. DepsInv'
  BY DEF ChargesIInv, DepsInv
<1>3. FreshInv'
  BY DEF ChargesIInv, FreshInv
<1>4. KahnInv' /\ PlacedInv' /\ OrderedUnlessCyclic'
  BY DEF ChargesIInv, FreshInv, KahnInv, PlacedInv, OrderedUnlessCyclic
<1>5. BaseInv' /\ PriceInv' /\ BasedOnComputed'
  BY DEF ChargesIInv, BaseInv, PriceInv, BasedOnComputed
<1>6. RoundingInv'
  BY RoundingKept DEF ChargesIInv
<1> QED  BY <1>1, <1>2, <1>3, <1>4, <1>5, <1>6, Zenon DEF ChargesIInv

\* The queue starts with what waits for nothing.
LEMMA ResolveIInv == ASSUME ChargesIInv, Resolve PROVE ChargesIInv'
<1> USE DEF Resolve, priceVars, refundVars, inputVars, Pricing
<1>1. order = <<>> /\ order' = <<>> /\ Placed = {} /\ Placed' = {}
  BY DEF ChargesIInv, FreshInv, Placed
<1>2. Edges' = Edges /\ Active' = Active /\ \A d : Bases(d)' = Bases(d)
  BY GraphKept
<1>3. \A d \in Defs : Indegree(d) = Cardinality(Waits(d)') /\ IsFiniteSet(Waits(d)')
  <2> SUFFICES ASSUME NEW d \in Defs
               PROVE  Indegree(d) = Cardinality(Waits(d)') /\ IsFiniteSet(Waits(d)')
    OBVIOUS
  <2>1. Waits(d)' = {x \in Edges : x.dependent = d}
    BY <1>1, <1>2 DEF Waits
  <2> QED  BY <2>1, GraphTyped, FS_Subset DEF Indegree, ChargesIInv
<1>4. \A d \in Defs : Indegree(d) \in Nat /\ (Indegree(d) = 0 <=> Waits(d)' = {})
  BY <1>3, FS_CardinalityType, FS_EmptySet
<1>5. ChargesTyped'
  BY <1>1, <1>4, GraphTyped DEF ChargesIInv, ChargesTyped
<1>6. KahnInv'
  BY <1>1, <1>2, <1>3, <1>4, <1>5, GraphTyped DEF KahnInv, ChargesIInv, ChargesTyped
<1>7. DepsInv' /\ FreshInv' /\ PlacedInv' /\ OrderedUnlessCyclic'
  BY <1>1 DEF ChargesIInv, DepsInv, FreshInv, PlacedInv, OrderedUnlessCyclic
<1>8. BaseInv'
  BY <1>2 DEF BaseInv, ChargesIInv, ChargesTyped
<1>9. PriceInv' /\ BasedOnComputed'
  BY DEF ChargesIInv, PriceInv, BasedOnComputed, FreshInv
<1>10. RoundingInv'
  BY RoundingKept DEF ChargesIInv
<1> QED  BY <1>5, <1>6, <1>7, <1>8, <1>9, <1>10, Zenon DEF ChargesIInv

-----------------------------------------------------------------------------
(* Picking a charge *)

LEMMA PickPlaces ==
    ASSUME ChargesTyped, NEW d \in Defs, Pick(d)
    PROVE  /\ Placed' = Placed \cup {d} /\ d \in ready
           /\ order' \in Seq(Defs) /\ Len(order') = Len(order) + 1
           /\ \A i \in 1..Len(order) : order'[i] = order[i]
           /\ order'[Len(order) + 1] = d
           /\ \A e \in Defs : degree'[e] = IF e \in Neighbours(d) THEN degree[e] - 1 ELSE degree[e]
           /\ ready' = (ready \ {d}) \cup {e \in Neighbours(d) : degree[e] = 1}
<1>1. order \in Seq(Defs) /\ order' = Append(order, d)
  BY DEF ChargesTyped, Pick
<1>2. /\ order' \in Seq(Defs) /\ Len(order') = Len(order) + 1
      /\ \A i \in 1..Len(order) : order'[i] = order[i]
      /\ order'[Len(order) + 1] = d
  BY <1>1
<1>3. DOMAIN order = 1..Len(order) /\ DOMAIN order' = 1..(Len(order) + 1)
  BY <1>1, <1>2
<1>4. Placed' = Placed \cup {d}
  <2>1. Placed' \subseteq Placed \cup {d}
    BY <1>1, <1>2, <1>3 DEF Placed
  <2>2. Placed \subseteq Placed'
    BY <1>1, <1>2, <1>3 DEF Placed
  <2>3. d \in Placed'
    BY <1>1, <1>2, <1>3 DEF Placed
  <2> QED  BY <2>1, <2>2, <2>3
<1> QED  BY <1>2, <1>4 DEF Pick, First

\* Whoever waited for the charge picked waits for one charge less.
LEMMA PickWaits ==
    ASSUME ChargesIInv, NEW d \in Defs, Pick(d), NEW e \in Defs
    PROVE  /\ Waits(e)' \subseteq Waits(e)
           /\ e \notin Neighbours(d) => Waits(e)' = Waits(e)
           /\ degree'[e] = Cardinality(Waits(e)')
           /\ e \in Neighbours(d) /\ degree[e] = 1 => Waits(e) # {} /\ Waits(e)' = {}
           /\ e \in Neighbours(d) /\ degree[e] # 1 => Waits(e)' # {}
<1>1. /\ ChargesTyped /\ stage = "order" /\ UNCHANGED inputVars
      /\ ready \cap Placed = {} /\ degree[e] = Cardinality(Waits(e))
  BY DEF ChargesIInv, KahnInv, Pick
<1>2. Edges' = Edges
  BY <1>1, GraphKept
<1>3. Placed' = Placed \cup {d} /\ d \notin Placed
  BY <1>1, PickPlaces
<1>4. Waits(e)' = {x \in Waits(e) : x.on # d}
  BY <1>2, <1>3 DEF Waits
<1>5. IsFiniteSet(Waits(e))
  BY <1>1, GraphTyped, FS_Subset DEF Waits
<1>6. CASE e \notin Neighbours(d)
  <2>1. Waits(e)' = Waits(e)
    BY <1>4, <1>6 DEF Waits, Neighbours
  <2> QED  BY <1>1, <1>6, <2>1, PickPlaces
<1>7. CASE e \in Neighbours(d)
  <2>1. PICK x \in Edges : x.on = d /\ x.dependent = e
    BY <1>7 DEF Neighbours
  <2>2. x \in Waits(e)
    BY <1>3, <2>1 DEF Waits
  <2>3. \A y \in Waits(e) : y.on = d => y = x
    BY <1>1, <2>1, GraphTyped DEF ChargesIInv, DepsInv, Waits
  <2>4. Waits(e)' = Waits(e) \ {x}
    BY <1>4, <2>1, <2>2, <2>3
  <2>5. /\ IsFiniteSet(Waits(e) \ {x})
        /\ Cardinality(Waits(e) \ {x}) = Cardinality(Waits(e)) - 1
    BY <1>5, <2>2, FS_RemoveElement
  <2>6. /\ Cardinality(Waits(e)) \in Nat
        /\ Cardinality(Waits(e) \ {x}) = 0 <=> Waits(e) \ {x} = {}
    BY <1>5, <2>5, FS_CardinalityType, FS_EmptySet
  <2>7. degree'[e] = degree[e] - 1
    BY <1>1, <1>7, PickPlaces
  <2> QED  BY <1>1, <1>7, <2>2, <2>4, <2>5, <2>6, <2>7
<1> QED  BY <1>6, <1>7

LEMMA PickKahn == ASSUME ChargesIInv, NEW d \in Defs, Pick(d) PROVE KahnInv'
<1>1. /\ ChargesTyped /\ stage = "order" /\ UNCHANGED inputVars
      /\ KahnInv /\ ready \subseteq Defs
  BY DEF ChargesIInv, ChargesTyped, Pick
<1>2. /\ Edges' = Edges /\ Active' = Active
      /\ Active \subseteq Defs /\ \A x \in Edges : x.dependent \in Defs
  BY <1>1, GraphKept, GraphTyped
<1>3. /\ Placed' = Placed \cup {d} /\ d \in ready
      /\ ready' = (ready \ {d}) \cup {e \in Neighbours(d) : degree[e] = 1}
  BY <1>1, PickPlaces
<1>4. Neighbours(d) \subseteq {x.dependent : x \in Edges} /\ Neighbours(d) \subseteq Defs
  BY <1>2 DEF Neighbours
<1>5. Placed \subseteq Defs
  BY <1>1 DEF ChargesTyped, Placed
<1>6. \A e \in ready \cup Placed : Waits(e) = {}
  BY <1>1 DEF KahnInv
<1>7. ready' \cap Placed' = {}
  BY <1>1, <1>3, <1>4, <1>6, PickWaits DEF KahnInv
<1>8. \A e \in Defs : degree'[e] = Cardinality(Waits(e)')
  BY PickWaits
<1>9. ASSUME NEW e \in ready' \cup Placed' PROVE Waits(e)' = {}
  <2>1. e \in Defs
    BY <1>1, <1>3, <1>4, <1>5
  <2>2. CASE e \in ready \cup Placed
    BY <1>6, <2>1, <2>2, PickWaits
  <2>3. CASE e \in Neighbours(d) /\ degree[e] = 1
    BY <2>1, <2>3, PickWaits
  <2> QED  BY <1>3, <2>2, <2>3
<1>10. ASSUME NEW e \in Active, Waits(e)' = {} PROVE e \in ready' \cup Placed'
  <2>1. e \in Defs
    BY <1>2
  <2>2. CASE Waits(e) = {}
    BY <1>1, <1>3, <2>2 DEF KahnInv
  <2>3. CASE Waits(e) # {}
    BY <1>3, <1>10, <2>1, <2>3, PickWaits
  <2> QED  BY <2>2, <2>3
<1>11. ready' \cup Placed' \subseteq Active \cup {x.dependent : x \in Edges}
  BY <1>1, <1>3, <1>4 DEF KahnInv
<1> QED  BY <1>2, <1>7, <1>8, <1>9, <1>10, <1>11 DEF KahnInv

LEMMA PickPlaced == ASSUME ChargesIInv, NEW d \in Defs, Pick(d) PROVE PlacedInv'
<1>1. /\ ChargesTyped /\ stage = "order" /\ stage' = "order" /\ UNCHANGED inputVars
      /\ KahnInv /\ PlacedInv
  BY DEF ChargesIInv, Pick
<1>2. Edges' = Edges
  BY <1>1, GraphKept
<1>3. /\ order \in Seq(Defs) /\ order' \in Seq(Defs) /\ Len(order') = Len(order) + 1
      /\ \A i \in 1..Len(order) : order'[i] = order[i]
      /\ order'[Len(order) + 1] = d
  BY <1>1, PickPlaces DEF ChargesTyped
<1>4. DOMAIN order = 1..Len(order) /\ DOMAIN order' = 1..(Len(order) + 1) /\ Len(order) \in Nat
  BY <1>3
<1>5. d \notin Placed /\ Waits(d) = {}
  BY <1>1, PickPlaces DEF KahnInv
<1>6. \A i \in 1..Len(order) : order[i] # d
  BY <1>4, <1>5 DEF Placed
<1>7. ASSUME NEW i \in DOMAIN order', NEW j \in DOMAIN order', order'[i] = order'[j] PROVE i = j
  BY <1>1, <1>3, <1>4, <1>6, <1>7 DEF PlacedInv
<1>8. ASSUME NEW x \in Edges, NEW j \in DOMAIN order', order'[j] = x.dependent
      PROVE  \E i \in DOMAIN order' : i < j /\ order'[i] = x.on
  <2>1. CASE j = Len(order) + 1
    <3>1. x.on \in Placed
      BY <1>3, <1>5, <1>8, <2>1 DEF Waits
    <3>2. PICK i \in 1..Len(order) : order[i] = x.on
      BY <1>4, <3>1 DEF Placed
    <3> QED  BY <1>3, <1>4, <2>1, <3>2
  <2>2. CASE j # Len(order) + 1
    <3>1. j \in 1..Len(order) /\ order[j] = x.dependent
      BY <1>3, <1>4, <1>8, <2>2
    <3>2. PICK i \in 1..Len(order) : i < j /\ order[i] = x.on
      BY <1>1, <1>4, <3>1 DEF PlacedInv
    <3> QED  BY <1>3, <1>4, <3>2
  <2> QED  BY <2>1, <2>2
<1> QED  BY <1>1, <1>2, <1>7, <1>8 DEF PlacedInv, Pricing

LEMMA PickIInv == ASSUME ChargesIInv, NEW d \in Defs, Pick(d) PROVE ChargesIInv'
<1> USE DEF Pick, Pricing
<1>1. \A e : Bases(e)' = Bases(e)
  BY GraphKept
<1>2. Neighbours(d) \subseteq Defs
  BY GraphTyped DEF ChargesIInv, Neighbours
<1>3. ChargesTyped'
  BY <1>2 DEF ChargesIInv, ChargesTyped, inputVars, priceVars, refundVars
<1>4. DepsInv' /\ FreshInv' /\ OrderedUnlessCyclic'
  BY DEF ChargesIInv, DepsInv, FreshInv, OrderedUnlessCyclic, inputVars, priceVars, refundVars
<1>5. BaseInv'
  BY <1>1 DEF ChargesIInv, BaseInv
<1>6. PriceInv' /\ BasedOnComputed'
  BY DEF ChargesIInv, PriceInv, BasedOnComputed, priceVars
<1>7. RoundingInv'
  BY RoundingKept DEF ChargesIInv, priceVars
<1> QED  BY <1>3, <1>4, <1>5, <1>6, <1>7, PickKahn, PickPlaced, Zenon DEF ChargesIInv

-----------------------------------------------------------------------------
(* The end of the loop *)

\* A sequence without repetitions fills a finite set when it is as long.
LEMMA FillsSet ==
    ASSUME NEW S, IsFiniteSet(S), NEW s \in Seq(S),
           \A i, j \in DOMAIN s : s[i] = s[j] => i = j
    PROVE  Len(s) = Cardinality(S) <=> {s[i] : i \in DOMAIN s} = S
<1> DEFINE D == 1 .. Len(s)
<1>1. s \in [D -> S] /\ DOMAIN s = D /\ Len(s) \in Nat
  OBVIOUS
<1>2. s \in Injection(D, S)
  BY <1>1 DEF Injection, IsInjective
<1>3. Cardinality(D) = Cardinality(S) <=> s \in Surjection(D, S)
  BY <1>2, FS_Injection
<1>4. Cardinality(D) = Len(s)
  <2>1. ASSUME NEW n \in Nat PROVE Cardinality(1 .. n) = n
    BY FS_Interval
  <2> QED  BY <1>1, <2>1
<1>5. s \in Surjection(D, S) <=> {s[i] : i \in DOMAIN s} = S
  BY <1>1 DEF Surjection
<1> QED  BY <1>3, <1>4, <1>5

\* When every dependent is in force, nothing else is placed.
LEMMA PlacedActive ==
    ASSUME ChargesIInv, stage = "order", ~Foreign
    PROVE  /\ ready \cup Placed \subseteq Active
           /\ Len(order) = Cardinality(Active) <=> Placed = Active
<1>1. ready \cup Placed \subseteq Active
  BY GraphTyped DEF ChargesIInv, KahnInv
<1>2. order \in Seq(Active)
  <2>1. order \in Seq(Defs) /\ \A i \in DOMAIN order : order[i] \in Active
    BY <1>1 DEF ChargesIInv, ChargesTyped, Placed
  <2> QED  BY <2>1
<1>3. IsFiniteSet(Active) /\ \A i, j \in DOMAIN order : order[i] = order[j] => i = j
  BY GraphTyped DEF ChargesIInv, PlacedInv
<1> QED  BY <1>1, <1>2, <1>3, FillsSet DEF Placed

\* Whoever throws has a cycle before it.
LEMMA ThrowIInv ==
    ASSUME ChargesIInv, \/ SortFails
                        \/ Finish /\ stage' = "threw"
    PROVE  ChargesIInv'
<1>1. /\ stage = "order" /\ stage' = "threw" /\ UNCHANGED <<inputVars, orderVars, priceVars, refundVars>>
      /\ ~Sortable \/ (ready = {} /\ Len(order) # Cardinality(Active))
  BY DEF SortFails, Finish, orderVars
<1> USE DEF Pricing
<1>2. Active' = Active /\ Edges' = Edges /\ Foreign' = Foreign /\ Cyclic' = Cyclic
      /\ \A d : Bases(d)' = Bases(d)
  BY <1>1, GraphKept
<1>3. ASSUME ~Foreign PROVE Cyclic
  <2>1. ready \subseteq applicable
    BY <1>1, <1>3, PlacedActive, GraphTyped DEF ChargesIInv
  <2>2. ready = {} /\ Len(order) # Cardinality(Active)
    BY <1>1, <2>1 DEF Sortable
  <2> DEFINE S == Active \ Placed
  <2>3. S \in (SUBSET Active) \ {{}}
    BY <1>1, <1>3, <2>2, PlacedActive
  <2>4. ASSUME NEW d \in S PROVE \E x \in Edges : x.dependent = d /\ x.on \in S
    <3>1. Waits(d) # {}
      BY <1>1, <2>2, <2>4 DEF ChargesIInv, KahnInv
    <3>2. PICK x \in Edges : x.dependent = d /\ x.on \notin Placed
      BY <3>1 DEF Waits
    <3> QED  BY <3>2, GraphTyped DEF ChargesIInv
  <2> HIDE DEF S
  <2> QED  BY <2>3, <2>4 DEF Cyclic
<1>4. OrderedUnlessCyclic'
  BY <1>1, <1>2, <1>3 DEF OrderedUnlessCyclic
<1>5. ChargesTyped' /\ DepsInv' /\ FreshInv'
  BY <1>1 DEF ChargesIInv, ChargesTyped, DepsInv, FreshInv, inputVars, orderVars, priceVars,
     refundVars
<1>6. KahnInv' /\ PlacedInv'
  BY <1>1, <1>2 DEF ChargesIInv, KahnInv, PlacedInv, orderVars
<1>7. BaseInv' /\ PriceInv' /\ BasedOnComputed'
  BY <1>1, <1>2 DEF ChargesIInv, BaseInv, PriceInv, BasedOnComputed, orderVars, priceVars
<1>8. RoundingInv'
  BY <1>1, RoundingKept DEF ChargesIInv, priceVars
<1> QED  BY <1>4, <1>5, <1>6, <1>7, <1>8, Zenon DEF ChargesIInv

\* What is left of the order, in terms of the places kept.
LEMMA FinishPlaces ==
    ASSUME ChargesTyped, Finish, stage' = "price"
    PROVE  \E place \in [1 .. Cardinality(Kept) -> Kept] :
              /\ Cardinality(Kept) \in Nat /\ Kept \subseteq DOMAIN order
              /\ order' \in Seq(Defs) /\ DOMAIN order' = 1 .. Cardinality(Kept)
              /\ \A i \in DOMAIN order' : order'[i] = order[place[i]]
              /\ \A i, j \in DOMAIN order' : i < j <=> place[i] < place[j]
              /\ \A k \in Kept : \E i \in DOMAIN order' : place[i] = k
<1>1. order \in Seq(Defs) /\ DOMAIN order = 1 .. Len(order) /\ Len(order) \in Nat
  BY DEF ChargesTyped
<1>2. Kept \subseteq 1 .. Len(order) /\ IsFiniteSet(Kept) /\ Cardinality(Kept) \in Nat
  <2>1. Kept \subseteq 1 .. Len(order)
    BY <1>1 DEF Kept
  <2>2. IsFiniteSet(1 .. Len(order))
    BY <1>1, FS_Interval
  <2> QED  BY <2>1, <2>2, FS_Subset, FS_CardinalityType
<1> DEFINE n == Cardinality(Kept)
<1>3. PICK place \in [1 .. n -> Kept] :
         /\ \A i, j \in DOMAIN place : i < j => place[i] < place[j]
         /\ order' = [i \in DOMAIN place |-> order[place[i]]]
  BY DEF Finish
<1>4. n \in Nat /\ n = Cardinality(Kept)
  BY <1>2
<1> HIDE DEF n
<1>5. /\ DOMAIN order' = 1 .. n /\ \A i \in 1 .. n : place[i] \in 1 .. Len(order)
      /\ \A i \in 1 .. n : order'[i] = order[place[i]]
      /\ order' \in [1 .. n -> Defs]
  <2>1. DOMAIN place = 1 .. n /\ \A i \in 1 .. n : place[i] \in Kept
    BY <1>3
  <2>2. \A i \in 1 .. n : place[i] \in 1 .. Len(order)
    BY <1>2, <2>1
  <2>3. \A i \in 1 .. n : order[place[i]] \in Defs
    BY <1>1, <2>2
  <2>4. order' = [i \in 1 .. n |-> order[place[i]]]
    BY <1>3, <2>1
  <2> QED  BY <2>2, <2>3, <2>4
<1>6. order' \in Seq(Defs)
  BY <1>4, <1>5
<1>7. \A i, j \in 1 .. n : i < j <=> place[i] < place[j]
  BY <1>3, <1>4, <1>5
<1>8. place \in Injection(1 .. n, Kept)
  BY <1>3, <1>4, <1>5, <1>7 DEF Injection, IsInjective
<1>9. Cardinality(1 .. n) = n
  BY <1>4, FS_Interval
<1>10. place \in Surjection(1 .. n, Kept)
  BY <1>2, <1>4, <1>8, <1>9, FS_Injection
<1>11. \A k \in Kept : \E i \in 1 .. n : place[i] = k
  BY <1>10 DEF Surjection
<1>12. /\ Kept \subseteq DOMAIN order
       /\ \A i \in DOMAIN order' : order'[i] = order[place[i]]
       /\ \A i, j \in DOMAIN order' : i < j <=> place[i] < place[j]
       /\ \A k \in Kept : \E i \in DOMAIN order' : place[i] = k
  BY <1>1, <1>2, <1>5, <1>7, <1>11
<1>13. place \in [1 .. Cardinality(Kept) -> Kept]
  BY <1>4
<1>14. Cardinality(Kept) \in Nat /\ order' \in Seq(Defs) /\ DOMAIN order' = 1 .. Cardinality(Kept)
  BY <1>4, <1>5, <1>6
<1> QED  BY <1>12, <1>13, <1>14

LEMMA FinishIInv ==
    ASSUME ChargesIInv, Finish, stage' = "price"
    PROVE  ChargesIInv'
<1> USE DEF Pricing
<1>1. /\ stage = "order" /\ ready = {} /\ Len(order) = Cardinality(Active)
      /\ UNCHANGED <<inputVars, degree, ready, baseOf, priceVars, refundVars>>
  BY DEF Finish
<1>2. /\ Active' = Active /\ Edges' = Edges /\ Foreign' = Foreign
      /\ \A d : Bases(d)' = Bases(d)
  BY <1>1, GraphKept
<1>3. PICK place \in [1 .. Cardinality(Kept) -> Kept] :
         /\ Cardinality(Kept) \in Nat /\ Kept \subseteq DOMAIN order
         /\ order' \in Seq(Defs) /\ DOMAIN order' = 1 .. Cardinality(Kept)
         /\ \A i \in DOMAIN order' : order'[i] = order[place[i]]
         /\ \A i, j \in DOMAIN order' : i < j <=> place[i] < place[j]
         /\ \A k \in Kept : \E i \in DOMAIN order' : place[i] = k
  BY FinishPlaces DEF ChargesIInv
<1>4. /\ order \in Seq(Defs) /\ DOMAIN order \subseteq Nat
      /\ \A i \in DOMAIN order' : place[i] \in DOMAIN order /\ order[place[i]] \in applicable
  BY <1>3 DEF ChargesIInv, ChargesTyped, Kept
<1>5. ASSUME NEW i \in DOMAIN order', NEW j \in DOMAIN order', order'[i] = order'[j] PROVE i = j
  <2>1. place[i] = place[j]
    BY <1>3, <1>4, <1>5 DEF ChargesIInv, PlacedInv
  <2> QED  BY <1>3, <1>4, <2>1
<1>6. ASSUME NEW x \in Edges, NEW j \in DOMAIN order', order'[j] = x.dependent
      PROVE  \E i \in DOMAIN order' : i < j /\ order'[i] = x.on
  <2>1. PICK k \in DOMAIN order : k < place[j] /\ order[k] = x.on
    BY <1>3, <1>4, <1>6 DEF ChargesIInv, PlacedInv
  <2>2. k \in Kept
    BY <2>1, GraphTyped DEF ChargesIInv, Kept
  <2>3. PICK i \in DOMAIN order' : place[i] = k
    BY <1>3, <2>2
  <2> QED  BY <1>3, <2>1, <2>3
<1>7. PlacedInv'
  <2>1. Placed' \subseteq applicable'
    BY <1>1, <1>3, <1>4 DEF Placed, inputVars
  <2> QED  BY <1>2, <1>5, <1>6, <2>1 DEF PlacedInv
<1>8. ASSUME ~Foreign
      PROVE  /\ {order'[i] : i \in DOMAIN order'} = Active /\ Len(order') = Cardinality(Active)
             /\ \A x \in Edges : Before(x.on, x.dependent)'
  <2>1. Placed = Active
    BY <1>1, <1>8, PlacedActive
  <2>2. \A i \in DOMAIN order : order[i] \in Active /\ i \in Kept
    BY <2>1, GraphTyped DEF Placed, Kept, ChargesIInv
  <2>3. {order'[i] : i \in DOMAIN order'} \subseteq Active
    BY <1>3, <1>4, <2>2
  <2>4. ASSUME NEW d \in Active PROVE \E i \in DOMAIN order' : order'[i] = d
    <3>1. PICK k \in DOMAIN order : order[k] = d
      BY <2>1, <2>4 DEF Placed
    <3>2. PICK i \in DOMAIN order' : place[i] = k
      BY <1>3, <2>2, <3>1
    <3> QED  BY <1>3, <3>1, <3>2
  <2>5. {order'[i] : i \in DOMAIN order'} = Active
    BY <2>3, <2>4
  <2>6. order' \in Seq(Active)
    BY <1>3, <2>3
  <2>7. Len(order') = Cardinality(Active)
    BY <1>5, <2>5, <2>6, FillsSet, GraphTyped DEF ChargesIInv
  <2>8. ASSUME NEW x \in Edges PROVE Before(x.on, x.dependent)'
    <3>1. x.dependent \in Active
      BY <1>8, GraphTyped DEF ChargesIInv
    <3>2. PICK j \in DOMAIN order' : order'[j] = x.dependent
      BY <2>4, <3>1
    <3> QED  BY <1>6, <3>2 DEF Before
  <2> QED  BY <2>5, <2>7, <2>8
<1>9. OrderedUnlessCyclic'
  BY <1>2, <1>8 DEF OrderedUnlessCyclic
<1>10. ChargesTyped' /\ DepsInv' /\ KahnInv'
  BY <1>1, <1>3 DEF ChargesIInv, ChargesTyped, DepsInv, KahnInv, inputVars, priceVars, refundVars
<1>11. FreshInv' /\ PriceInv' /\ BasedOnComputed'
  BY <1>1 DEF ChargesIInv, FreshInv, PriceInv, BasedOnComputed, priceVars, refundVars
<1>12. BaseInv'
  BY <1>1, <1>2 DEF ChargesIInv, BaseInv
<1>13. RoundingInv'
  BY <1>1, RoundingKept DEF ChargesIInv, priceVars
<1> QED  BY <1>7, <1>9, <1>10, <1>11, <1>12, <1>13, Zenon DEF ChargesIInv

-----------------------------------------------------------------------------
(* Pricing *)

\* What a charge is based on is priced before it, if it is priced at all.
LEMMA BaseFirst ==
    ASSUME ChargesIInv, stage \in Pricing, NEW i \in DOMAIN order, NEW j \in DOMAIN order,
           baseOf[order[j]] = order[i]
    PROVE  i < j
<1>1. order[i] \in Defs /\ order[j] \in Defs /\ order[i] \in applicable
  BY DEF ChargesIInv, ChargesTyped, PlacedInv, Placed
<1>2. order[i] \in Bases(order[j])
  BY <1>1, ChargesAssumption DEF ChargesIInv, BaseInv, Pricing
<1>3. PICK y \in Orderings : y.dependent = order[j] /\ y.on = order[i]
  BY <1>2 DEF Bases
<1>4. y \in Edges
  BY <1>1, <1>3 DEF Edges, Orderings, Active
<1>5. PICK k \in DOMAIN order : k < j /\ order[k] = order[i]
  BY <1>3, <1>4 DEF ChargesIInv, PlacedInv
<1>6. k = i
  BY <1>5 DEF ChargesIInv, PlacedInv
<1> QED  BY <1>5, <1>6

\* What every iteration of the loop keeps, whatever becomes of the charge.
LEMMA PriceKeeps ==
    ASSUME ChargesIInv, NEW d \in Defs, Price(d)
    PROVE  /\ DepsInv' /\ FreshInv' /\ KahnInv' /\ PlacedInv' /\ OrderedUnlessCyclic' /\ BaseInv'
           /\ stage = "price" /\ stage' = "price"
           /\ at \in DOMAIN order /\ order[at] = d /\ at' = at + 1
           /\ UNCHANGED <<inputVars, orderVars, refundVars>>
           /\ Refunded = 0 /\ Refunded' = 0 /\ Len(refunds) = 0
           /\ \A e \in Defs : refunded[e] = 0
<1> USE DEF Pricing
<1>1. /\ stage = "price" /\ stage' = "price" /\ order[at] = d /\ at' = at + 1
      /\ UNCHANGED <<inputVars, orderVars, refundVars>> /\ at <= Len(order)
  BY DEF Price
<1>2. at \in DOMAIN order
  BY <1>1 DEF ChargesIInv, ChargesTyped
<1>3. Active' = Active /\ Edges' = Edges /\ Foreign' = Foreign /\ \A e : Bases(e)' = Bases(e)
  BY <1>1, GraphKept
<1>4. DepsInv' /\ FreshInv' /\ KahnInv'
  BY <1>1 DEF ChargesIInv, DepsInv, FreshInv, KahnInv, inputVars, orderVars, refundVars
<1>5. PlacedInv'
  BY <1>1, <1>3 DEF ChargesIInv, PlacedInv, Placed, inputVars, orderVars
<1>6. OrderedUnlessCyclic'
  BY <1>1, <1>3 DEF ChargesIInv, OrderedUnlessCyclic, Before, orderVars
<1>7. BaseInv'
  BY <1>1, <1>3 DEF ChargesIInv, BaseInv, orderVars
<1>8. refunds = <<>> /\ refunds' = <<>> /\ \A e \in Defs : refunded[e] = 0
  BY <1>1 DEF ChargesIInv, FreshInv, refundVars
<1>9. Refunded = 0
  <2>1. DOMAIN refunds = {}
    BY <1>8
  <2> QED  BY <2>1, RefundedIsSum, SumOfEmpty
<1>10. Refunded' = 0
  <2>1. Refunded' = SumOf(refunds', DOMAIN refunds')
    BY DEF Refunded, FoldFunction, FoldFunctionOnSet, SumOf, MapThenSumSet, MapThenFoldSet
  <2>2. DOMAIN refunds' = {}
    BY <1>8
  <2> QED  BY <2>1, <2>2, SumOfEmpty
<1> QED  BY <1>1, <1>2, <1>4, <1>5, <1>6, <1>7, <1>8, <1>9, <1>10

LEMMA PriceIInv ==
    ASSUME ChargesIInv, NEW d \in Defs,
           Waive(d) \/ Skip(d) \/ \E r \in Rules : Charge(d, r)
    PROVE  ChargesIInv'
<1>1. Price(d)
  BY DEF Waive, Skip, Charge
<1>2. /\ stage = "price" /\ stage' = "price" /\ at \in DOMAIN order /\ order[at] = d /\ at' = at + 1
      /\ UNCHANGED <<inputVars, orderVars, refundVars>>
      /\ Refunded = 0 /\ Refunded' = 0 /\ Len(refunds) = 0
      /\ \A e \in Defs : refunded[e] = 0
  BY <1>1, PriceKeeps
<1>3. UNCHANGED <<applicable, deps, degree, ready, order, baseOf, refunds, refunded>>
  BY <1>2 DEF inputVars, orderVars, refundVars
<1>4. /\ \A j \in DOMAIN order : order[j] \in Defs /\ j \in Nat
      /\ \A i, j \in DOMAIN order : order[i] = order[j] => i = j
      /\ \A e \in DOMAIN computed \cup DOMAIN lines : \E i \in DOMAIN order : i < at /\ order[i] = e
      /\ at \in Nat /\ baseOf \in [Defs -> Defs \cup {NoCharge}]
  BY <1>2 DEF ChargesIInv, ChargesTyped, PlacedInv, PriceInv, Pricing
\* Nothing is priced that is based on the charge, and not the charge itself.
<1>5. d \notin DOMAIN computed /\ d \notin DOMAIN lines
  BY <1>2, <1>4
<1>6. \A e \in DOMAIN lines \cup {d} : baseOf[e] # d
  <2> SUFFICES ASSUME NEW e \in DOMAIN lines \cup {d}, baseOf[e] = d PROVE FALSE
    OBVIOUS
  <2>1. PICK j \in DOMAIN order : j <= at /\ order[j] = e
    BY <1>2, <1>4
  <2>2. at < j
    BY <1>2, <2>1, BaseFirst DEF Pricing
  <2> QED  BY <1>4, <2>1, <2>2
<1>7. ASSUME NEW new, new \in Nat,
             computed' = [e \in DOMAIN computed \cup {d} |-> IF e = d THEN new ELSE computed[e]]
      PROVE  /\ DOMAIN computed' = DOMAIN computed \cup {d}
             /\ \A e \in DOMAIN computed : computed'[e] = computed[e]
             /\ DOMAIN computed' \subseteq Defs /\ \A e \in DOMAIN computed' : computed'[e] \in Nat
  BY <1>5, <1>7 DEF ChargesIInv, ChargesTyped
<1> DEFINE Goal == /\ DOMAIN computed' \subseteq Defs /\ DOMAIN lines' \subseteq Defs
                   /\ \A e \in DOMAIN computed' : computed'[e] \in Nat
                   /\ \A e \in DOMAIN lines' : lines'[e].base \in Nat /\ lines'[e].amount \in Nat
                   /\ DOMAIN computed' \cup DOMAIN lines' \subseteq DOMAIN computed \cup DOMAIN lines \cup {d}
                   /\ BasedOnComputed'
<1>8. ASSUME Waive(d) PROVE Goal
  <2>1. lines' = lines
        /\ computed' = [e \in DOMAIN computed \cup {d} |-> IF e = d THEN 0 ELSE computed[e]]
    BY <1>8 DEF Waive
  <2>2. /\ DOMAIN computed' = DOMAIN computed \cup {d}
        /\ \A e \in DOMAIN computed : computed'[e] = computed[e]
        /\ DOMAIN computed' \subseteq Defs /\ \A e \in DOMAIN computed' : computed'[e] \in Nat
    BY <1>7, <2>1
  <2>3. BasedOnComputed'
    BY <1>3, <1>6, <2>1, <2>2 DEF ChargesIInv, BasedOnComputed
  <2> QED  BY <2>1, <2>2, <2>3 DEF ChargesIInv, ChargesTyped
<1>9. ASSUME Skip(d) PROVE Goal
  BY <1>3, <1>9 DEF Skip, ChargesIInv, ChargesTyped, BasedOnComputed
<1>10. ASSUME NEW r \in Rules, Charge(d, r) PROVE Goal
  <2>1. PICK b \in BaseAmounts(d) :
           /\ computed' = [e \in DOMAIN computed \cup {d} |->
                             IF e = d THEN Amount(b, r) ELSE computed[e]]
           /\ lines' = [e \in DOMAIN lines \cup {d} |->
                          IF e = d THEN [base |-> b, amount |-> Amount(b, r)] ELSE lines[e]]
    BY <1>10 DEF Charge
  <2>2. /\ b \in Nat
        /\ baseOf[d] \in DOMAIN computed => b = computed[baseOf[d]]
    <3>1. NoCharge \notin DOMAIN computed
      BY ChargesAssumption DEF ChargesIInv, ChargesTyped
    <3>2. CASE baseOf[d] = NoCharge
      BY <3>1, <3>2, ChargesAssumption DEF BaseAmounts
    <3>3. CASE baseOf[d] # NoCharge /\ baseOf[d] \in DOMAIN computed
      BY <3>3 DEF BaseAmounts, ChargesIInv, ChargesTyped
    <3>4. CASE baseOf[d] # NoCharge /\ baseOf[d] \notin DOMAIN computed
      BY <3>4 DEF BaseAmounts
    <3> QED  BY <3>2, <3>3, <3>4
  <2>3. Amount(b, r) \in Nat
    BY <2>2, AmountNat
  <2>4. /\ DOMAIN computed' = DOMAIN computed \cup {d}
        /\ \A e \in DOMAIN computed : computed'[e] = computed[e]
        /\ DOMAIN computed' \subseteq Defs /\ \A e \in DOMAIN computed' : computed'[e] \in Nat
    BY <1>7, <2>1, <2>3
  <2>5. /\ DOMAIN lines' = DOMAIN lines \cup {d} /\ \A e \in DOMAIN lines : lines'[e] = lines[e]
        /\ lines'[d] = [base |-> b, amount |-> Amount(b, r)]
    BY <1>5, <2>1
  <2>6. BasedOnComputed'
    <3>1. \A e \in DOMAIN lines : baseOf'[e] \in DOMAIN computed' => lines'[e].base = computed'[baseOf'[e]]
      BY <1>3, <1>6, <2>4, <2>5 DEF ChargesIInv, BasedOnComputed
    <3>2. baseOf'[d] \in DOMAIN computed' => lines'[d].base = computed'[baseOf'[d]]
      BY <1>3, <1>6, <2>2, <2>4, <2>5
    <3> QED  BY <2>5, <3>1, <3>2 DEF BasedOnComputed
  <2>7. \A e \in DOMAIN lines' : lines'[e].base \in Nat /\ lines'[e].amount \in Nat
    BY <2>2, <2>3, <2>5 DEF ChargesIInv, ChargesTyped
  <2> QED  BY <2>4, <2>5, <2>6, <2>7 DEF ChargesIInv, ChargesTyped
<1>11. Goal
  BY <1>8, <1>9, <1>10
<1> HIDE DEF Goal
<1>12. ChargesTyped'
  BY <1>2, <1>3, <1>4, <1>11 DEF Goal, ChargesIInv, ChargesTyped
<1>13. PriceInv'
  BY <1>2, <1>3, <1>4, <1>11 DEF Goal, PriceInv
<1>14. RoundingInv'
  <2>1. Refunded' \in 0..Whole
    BY <1>2, ChargesAssumption
  <2>2. ASSUME NEW e \in DOMAIN lines'
        PROVE 2 * Whole * refunded'[e] <= 2 * lines'[e].amount * Refunded' + Whole * Len(refunds')
    <3>1. lines'[e].amount \in Nat /\ refunded'[e] = 0 /\ Len(refunds') = 0
      BY <1>2, <1>3, <1>11 DEF Goal
    <3> QED  BY <1>2, <3>1, ChargesAssumption
  <2> QED  BY <2>1, <2>2 DEF RoundingInv
<1>15. BasedOnComputed'
  BY <1>11 DEF Goal
<1> QED  BY <1>1, <1>12, <1>13, <1>14, <1>15, PriceKeeps, Zenon DEF ChargesIInv

LEMMA EndPricingIInv == ASSUME ChargesIInv, EndPricing PROVE ChargesIInv'
<1> USE DEF Pricing
<1>1. /\ stage = "price" /\ stage' = "priced"
      /\ UNCHANGED <<inputVars, orderVars, priceVars, refundVars>>
  BY DEF EndPricing
<1>2. Active' = Active /\ Edges' = Edges /\ Foreign' = Foreign /\ \A e : Bases(e)' = Bases(e)
  BY <1>1, GraphKept
<1>3. ChargesTyped' /\ DepsInv' /\ FreshInv' /\ KahnInv'
  BY <1>1 DEF ChargesIInv, ChargesTyped, DepsInv, FreshInv, KahnInv,
              inputVars, orderVars, priceVars, refundVars
<1>4. PlacedInv'
  BY <1>1, <1>2 DEF ChargesIInv, PlacedInv, Placed, inputVars, orderVars
<1>5. OrderedUnlessCyclic'
  BY <1>1, <1>2 DEF ChargesIInv, OrderedUnlessCyclic, Before, orderVars
<1>6. BaseInv' /\ PriceInv' /\ BasedOnComputed'
  BY <1>1, <1>2 DEF ChargesIInv, BaseInv, PriceInv, BasedOnComputed, orderVars, priceVars
<1>7. RoundingInv'
  BY <1>1, RoundingKept DEF ChargesIInv, priceVars
<1> QED  BY <1>3, <1>4, <1>5, <1>6, <1>7, Zenon DEF ChargesIInv

-----------------------------------------------------------------------------
(* Refunding *)

\* A sequence is a function, and one over a larger set as well.
LEMMA SeqIsFunction ==
    ASSUME NEW S, NEW s \in Seq(S)
    PROVE  /\ Len(s) \in Nat /\ DOMAIN s = 1 .. Len(s) /\ s \in [1 .. Len(s) -> S]
           /\ \A T : S \subseteq T => s \in Seq(T)
<1>1. Len(s) \in Nat /\ DOMAIN s = 1 .. Len(s) /\ s \in [1 .. Len(s) -> S]
  OBVIOUS
<1>2. ASSUME NEW T, S \subseteq T PROVE s \in Seq(T)
  <2>1. \A i \in 1 .. Len(s) : s[i] \in T
    BY <1>1, <1>2
  <2> QED  BY <1>1, <2>1
<1> QED  BY <1>1, <1>2

\* One more refund adds its share.
LEMMA RefundedMore ==
    ASSUME refunds \in Seq(Nat), NEW share \in Nat, refunds' = Append(refunds, share)
    PROVE  Refunded \in Nat /\ Refunded' = Refunded + share /\ Len(refunds') = Len(refunds) + 1
<1> DEFINE n == Len(refunds)
           A == 1 .. (n + 1)
<1>1. /\ n \in Nat /\ DOMAIN refunds = 1 .. n /\ DOMAIN refunds' = A
      /\ refunds \in [1 .. n -> Nat] /\ refunds' \in [A -> Nat]
      /\ refunds'[n + 1] = share /\ \A i \in 1 .. n : refunds'[i] = refunds[i]
      /\ Len(refunds') = n + 1
  <2>1. n \in Nat /\ DOMAIN refunds = 1 .. n /\ refunds \in [1 .. n -> Nat]
    OBVIOUS
  <2>2. refunds' \in Seq(Nat) /\ Len(refunds') = n + 1
    OBVIOUS
  <2>3. DOMAIN refunds' = 1 .. Len(refunds') /\ refunds' \in [1 .. Len(refunds') -> Nat]
    BY <2>2, SeqIsFunction, Zenon
  <2>4. refunds'[n + 1] = share
    OBVIOUS
  <2>5. \A i \in 1 .. n : refunds'[i] = refunds[i]
    OBVIOUS
  <2>6. DOMAIN refunds' = A /\ refunds' \in [A -> Nat]
    BY <2>2, <2>3, Zenon
  <2> QED  BY <2>1, <2>2, <2>4, <2>5, <2>6, Zenon
<1> HIDE DEF n
<1>2. IsFiniteSet(A) /\ IsFiniteSet(1 .. n) /\ A \in SUBSET A /\ n + 1 \in A
      /\ 1 .. n \in SUBSET A /\ A \ {n + 1} = 1 .. n
  <2>1. n \in Int /\ n + 1 \in Int /\ 1 \in Int
    BY <1>1
  <2>2. IsFiniteSet(A) /\ IsFiniteSet(1 .. n)
    BY <2>1, FS_Interval
  <2>3. A \ {n + 1} = 1 .. n
    BY <1>1
  <2>4. A \in SUBSET A /\ n + 1 \in A /\ 1 .. n \in SUBSET A
    BY <1>1
  <2> QED  BY <2>2, <2>3, <2>4
<1>3. Refunded = SumOf(refunds, 1 .. n)
  BY <1>1, RefundedIsSum
<1>4. Refunded' = SumOf(refunds', A)
  <2>1. Refunded' = SumOf(refunds', DOMAIN refunds')
    BY DEF Refunded, FoldFunction, FoldFunctionOnSet, SumOf, MapThenSumSet, MapThenFoldSet
  <2> QED  BY <1>1, <2>1
<1> HIDE DEF A
<1>5. SumOf(refunds', A) = refunds'[n + 1] + SumOf(refunds', A \ {n + 1})
  <2> DEFINE f == refunds'
             x == n + 1
  <2>1. IsFiniteSet(A) /\ f \in [A -> Nat] /\ A \in SUBSET A /\ x \in A
    BY <1>1, <1>2
  <2> HIDE DEF f, x
  <2>2. SumOf(f, A) = f[x] + SumOf(f, A \ {x})
    BY <2>1, SumOfRemove
  <2> QED  BY <2>2, Zenon DEF f, x
<1>6. SumOf(refunds', 1 .. n) = SumOf(refunds, 1 .. n)
  BY <1>1, <1>2, SumOfSame
<1>7. SumOf(refunds, 1 .. n) \in Nat
  BY <1>1, <1>2, SumOfNat
<1>8. Refunded \in Nat /\ Refunded' = Refunded + share
  <2> DEFINE given == SumOf(refunds, 1 .. n)
  <2>1. given \in Nat /\ Refunded = given /\ Refunded' = share + given
    BY <1>1, <1>2, <1>3, <1>4, <1>5, <1>6, <1>7, Zenon
  <2> HIDE DEF given
  <2>2. share + given = given + share
    BY <2>1
  <2> QED  BY <2>1, <2>2, Zenon
<1> QED  BY <1>1, <1>8 DEF n

LEMMA BoundsAdd ==
    ASSUME NEW p \in Nat, NEW q \in Nat, NEW t \in Nat, NEW u \in Nat, NEW b \in Nat,
           NEW w \in Nat, p <= t + u, q <= 2 * b + w
    PROVE  p + q <= (t + 2 * b) + (u + w) /\ p <= (t + 2 * b) + (u + w)
OBVIOUS

\* The share of one line: the bound grows by at least what is given back.
LEMMA ShareRounded ==
    ASSUME NEW a \in Nat, NEW s \in Nat, NEW f \in Nat, NEW g \in Nat, NEW k \in Nat,
           NEW W \in Nat, W > 0, 2 * W * g <= 2 * a * f + W * k
    PROVE  /\ Rounded(a * s, W) \in Nat
           /\ 2 * W * (g + Rounded(a * s, W)) <= 2 * a * (f + s) + W * (k + 1)
           /\ 2 * W * g <= 2 * a * (f + s) + W * (k + 1)
<1> DEFINE as == a * s
           r == Rounded(as, W)
<1>1. as \in Nat
  OBVIOUS
<1>2. r \in Nat /\ 2 * W * r <= 2 * as + W
  <2> HIDE DEF as
  <2> QED  BY <1>1, RoundedNear
<1>3. 2 * W * (g + r) = 2 * W * g + 2 * W * r
  <2> HIDE DEF r
  <2> QED  BY <1>2
<1>4. 2 * a * (f + s) = 2 * a * f + 2 * as
  OBVIOUS
<1>5. W * (k + 1) = W * k + W
  OBVIOUS
<1> DEFINE p == 2 * W * g
           q == 2 * W * r
           t == 2 * a * f
           u == W * k
<1>6. p \in Nat /\ q \in Nat /\ t \in Nat /\ u \in Nat
  <2> HIDE DEF r
  <2> QED  BY <1>2
<1>7. p <= t + u /\ q <= 2 * as + W
  BY <1>2
<1>8. p + q <= (t + 2 * as) + (u + W) /\ p <= (t + 2 * as) + (u + W)
  <2> HIDE DEF p, q, t, u, as
  <2> QED  BY <1>1, <1>6, <1>7, BoundsAdd, Zenon
<1>9. 2 * W * (g + r) <= 2 * a * (f + s) + W * (k + 1) /\ 2 * W * g <= 2 * a * (f + s) + W * (k + 1)
  <2>1. 2 * W * (g + r) = p + q /\ 2 * a * (f + s) + W * (k + 1) = (t + 2 * as) + (u + W)
        /\ 2 * W * g = p
    BY <1>3, <1>4, <1>5, Zenon
  <2> HIDE DEF p, q, t, u, as, r
  <2> QED  BY <1>8, <2>1
<1> QED  BY <1>2, <1>9

LEMMA RefundIInv ==
    ASSUME ChargesIInv, NEW share \in Ratios, NEW s \in BOOLEAN, NEW p \in BOOLEAN,
           Refund(share, s, p)
    PROVE  ChargesIInv'
<1> USE DEF Pricing
<1>1. /\ stage = "priced" /\ stage' = "priced" /\ refunds' = Append(refunds, share)
      /\ Refunded + share <= Whole
      /\ UNCHANGED <<inputVars, orderVars, priceVars>>
  BY DEF Refund
<1>2. share \in Nat /\ refunds \in Seq(Nat) /\ refunds' \in Seq(Ratios)
      /\ Whole \in Nat /\ Whole > 0
  <2>1. share \in Nat /\ Ratios \subseteq Nat /\ Whole \in Nat /\ Whole > 0
    BY ChargesAssumption
  <2>2. refunds \in Seq(Ratios)
    BY DEF ChargesIInv, ChargesTyped
  <2>3. refunds \in Seq(Nat)
    BY <2>1, <2>2, SeqIsFunction, Zenon
  <2>4. refunds' \in Seq(Ratios)
    BY <1>1, <2>2
  <2> QED  BY <2>1, <2>3, <2>4
<1>3. Refunded \in Nat /\ Refunded' = Refunded + share /\ Len(refunds') = Len(refunds) + 1
  BY <1>1, <1>2, RefundedMore
<1>4. Len(refunds) \in Nat
  BY <1>2
<1>5. \A d \in DOMAIN lines : /\ d \in Defs /\ refunded[d] \in Nat /\ lines[d].amount \in Nat
                              /\ 2 * Whole * refunded[d] <=
                                    2 * lines[d].amount * Refunded + Whole * Len(refunds)
  BY DEF ChargesIInv, ChargesTyped, RoundingInv
<1>6. \A d \in Defs : /\ d \in DOMAIN lines =>
                            \/ refunded'[d] = refunded[d] + Rounded(lines[d].amount * share, Whole)
                            \/ refunded'[d] = refunded[d]
                      /\ d \notin DOMAIN lines => refunded'[d] = refunded[d]
  BY DEF Refund
<1>7. \A d \in DOMAIN lines :
          /\ refunded'[d] \in Nat
          /\ 2 * Whole * refunded'[d] <=
                2 * lines[d].amount * (Refunded + share) + Whole * (Len(refunds) + 1)
  <2> SUFFICES ASSUME NEW d \in DOMAIN lines
               PROVE  /\ refunded'[d] \in Nat
                      /\ 2 * Whole * refunded'[d] <=
                            2 * lines[d].amount * (Refunded + share) + Whole * (Len(refunds) + 1)
    OBVIOUS
  <2> DEFINE a == lines[d].amount
             g == refunded[d]
             h == refunded'[d]
             k == Len(refunds)
             f == Refunded
  <2>1. /\ a \in Nat /\ g \in Nat /\ k \in Nat /\ f \in Nat
        /\ 2 * Whole * g <= 2 * a * f + Whole * k
        /\ h = g + Rounded(a * share, Whole) \/ h = g
    BY <1>3, <1>4, <1>5, <1>6
  <2> HIDE DEF a, g, h, k, f
  <2>2. /\ Rounded(a * share, Whole) \in Nat
        /\ 2 * Whole * (g + Rounded(a * share, Whole)) <= 2 * a * (f + share) + Whole * (k + 1)
        /\ 2 * Whole * g <= 2 * a * (f + share) + Whole * (k + 1)
    BY <1>2, <2>1, ShareRounded
  <2>3. h \in Nat /\ 2 * Whole * h <= 2 * a * (f + share) + Whole * (k + 1)
    <3> HIDE DEF Rounded
    <3>1. CASE h = g
      BY <2>1, <2>2, <3>1
    <3>2. CASE h = g + Rounded(a * share, Whole)
      <4> DEFINE r == Rounded(a * share, Whole)
      <4>1. r \in Nat /\ h = g + r /\ 2 * Whole * (g + r) <= 2 * a * (f + share) + Whole * (k + 1)
        BY <2>2, <3>2
      <4> HIDE DEF r
      <4> QED  BY <2>1, <4>1
    <3> QED  BY <2>1, <3>1, <3>2
  <2> QED  BY <2>3 DEF a, g, h, k, f
<1>8. lines' = lines
  BY <1>1 DEF priceVars
<1>9. RoundingInv'
  <2>1. Refunded' \in 0 .. Whole
    BY <1>1, <1>2, <1>3
  <2> QED  BY <1>3, <1>7, <1>8, <2>1 DEF RoundingInv
<1>10. refunded' \in [Defs -> Nat]
  <2>1. \A d \in Defs : refunded'[d] \in Nat
    BY <1>6, <1>7 DEF ChargesIInv, ChargesTyped
  <2>2. refunded' = [d \in Defs |-> refunded'[d]]
    BY DEF Refund
  <2> QED  BY <2>1, <2>2
<1>11. Active' = Active /\ Edges' = Edges /\ Foreign' = Foreign /\ \A e : Bases(e)' = Bases(e)
  BY <1>1, GraphKept
<1>12. ChargesTyped'
  BY <1>1, <1>2, <1>10 DEF ChargesIInv, ChargesTyped, inputVars, orderVars, priceVars
<1>13. DepsInv' /\ FreshInv' /\ KahnInv'
  BY <1>1 DEF ChargesIInv, DepsInv, FreshInv, KahnInv, inputVars, priceVars
<1>14. PlacedInv'
  BY <1>1, <1>11 DEF ChargesIInv, PlacedInv, Placed, inputVars, orderVars
<1>15. OrderedUnlessCyclic'
  BY <1>1, <1>11 DEF ChargesIInv, OrderedUnlessCyclic, Before, orderVars
<1>16. BaseInv' /\ PriceInv' /\ BasedOnComputed'
  BY <1>1, <1>11 DEF ChargesIInv, BaseInv, PriceInv, BasedOnComputed, orderVars, priceVars
<1> QED  BY <1>9, <1>12, <1>13, <1>14, <1>15, <1>16, Zenon DEF ChargesIInv

-----------------------------------------------------------------------------
(* The step *)

LEMMA ChargesStutter == ASSUME ChargesIInv, UNCHANGED chargeVars PROVE ChargesIInv'
<1>1. UNCHANGED <<inputVars, stage, orderVars, priceVars, refundVars>>
  BY DEF chargeVars
<1>2. /\ Active' = Active /\ Edges' = Edges /\ Foreign' = Foreign /\ Cyclic' = Cyclic
      /\ \A e : Bases(e)' = Bases(e)
  BY <1>1, GraphKept
<1>3. ChargesTyped' /\ DepsInv' /\ FreshInv'
  BY <1>1 DEF ChargesIInv, ChargesTyped, DepsInv, FreshInv, inputVars, orderVars, priceVars,
              refundVars
<1>4. KahnInv' /\ PlacedInv'
  BY <1>1, <1>2 DEF ChargesIInv, KahnInv, PlacedInv, Placed, Waits, inputVars, orderVars
<1>5. OrderedUnlessCyclic'
  BY <1>1, <1>2 DEF ChargesIInv, OrderedUnlessCyclic, Before, orderVars
<1>6. BaseInv' /\ PriceInv' /\ BasedOnComputed'
  BY <1>1, <1>2 DEF ChargesIInv, BaseInv, PriceInv, BasedOnComputed, orderVars, priceVars
<1>7. RoundingInv'
  BY <1>1, RoundingKept DEF ChargesIInv, priceVars
<1> QED  BY <1>3, <1>4, <1>5, <1>6, <1>7, Zenon DEF ChargesIInv

LEMMA ChargesStep == ChargesIInv /\ [ChargesNext]_chargeVars => ChargesIInv'
<1> SUFFICES ASSUME ChargesIInv, [ChargesNext]_chargeVars PROVE ChargesIInv'
  OBVIOUS
<1>1. CASE \E x \in Dependencies : AddDependency(x)
  BY <1>1, AddIInv
<1>2. CASE Resolve
  BY <1>2, ResolveIInv
<1>3. CASE SortFails
  BY <1>3, ThrowIInv
<1>4. CASE Finish
  <2>1. stage' = "price" \/ stage' = "threw"
    BY <1>4, Zenon DEF Finish
  <2> QED  BY <1>4, <2>1, FinishIInv, ThrowIInv
<1>5. CASE EndPricing
  BY <1>5, EndPricingIInv
<1>6. CASE \E d \in Defs : Pick(d)
  BY <1>6, PickIInv
<1>7. CASE \E d \in Defs : Waive(d) \/ Skip(d) \/ \E r \in Rules : Charge(d, r)
  BY <1>7, PriceIInv
<1>8. CASE \E share \in Ratios, s, p \in BOOLEAN : Refund(share, s, p)
  BY <1>8, RefundIInv
<1>9. CASE UNCHANGED chargeVars
  BY <1>9, ChargesStutter
<1> QED  BY <1>1, <1>2, <1>3, <1>4, <1>5, <1>6, <1>7, <1>8, <1>9, Zenon DEF ChargesNext

LEMMA ChargesInvariance == ChargesSpec => []ChargesIInv
  BY ChargesInitIInv, ChargesStep, PTL DEF ChargesSpec

\* With no more refunded than the booking, the bound is the charge itself and
\* half a unit for each refund.
LEMMA RoundingBound ==
    ASSUME NEW a \in Nat, NEW f \in Nat, NEW g \in Nat, NEW k \in Nat, NEW W \in Nat,
           W > 0, f <= W, 2 * W * g <= 2 * a * f + W * k
    PROVE  2 * (g - a) <= k
<1>1. a * f <= a * W
  BY Z3
<1> DEFINE p == W * (2 * g)
           q == W * (2 * a + k)
<1>2. p <= q
  <2>1. p = 2 * W * g /\ q = 2 * (a * W) + W * k /\ 2 * a * f = 2 * (a * f)
    OBVIOUS
  <2> DEFINE x == a * f
             y == a * W
             z == W * k
             v == 2 * W * g
  <2>2. x <= y /\ v <= 2 * x + z /\ x \in Nat /\ y \in Nat /\ z \in Nat /\ v \in Nat
    BY <1>1, <2>1
  <2>3. v <= 2 * y + z
    <3> HIDE DEF x, y, z, v
    <3> QED  BY <2>2
  <2> QED  BY <2>1, <2>3
<1>3. 2 * g <= 2 * a + k
  <2> SUFFICES ASSUME 2 * g > 2 * a + k PROVE FALSE
    OBVIOUS
  <2> DEFINE m == 2 * g
             n == 2 * a + k
  <2>1. m \in Nat /\ n \in Nat /\ m >= n + 1
    OBVIOUS
  <2>2. W * m <= W * n
    BY <1>2
  <2> HIDE DEF m, n
  <2>3. W * m >= W * n + W
    BY <2>1
  <2> QED  BY <2>1, <2>2, <2>3
<1> QED  BY <1>3

\* Inputs, orders, amounts and refunds keep their types in every calculation
\* (resolveCalculationOrder, calculateCharges, allocateRefundCharges).
THEOREM ChargesTypes == ChargesSpec => []ChargesTyped
<1>1. ChargesIInv => ChargesTyped
  BY DEF ChargesIInv
<1> QED  BY <1>1, ChargesInvariance, PTL

\* Whatever definitions depend on each other, pricing throws only on a circle
\* of them, and otherwise goes through each charge once and after all those it
\* depends on, unless a dependent is not in force (resolveCalculationOrder).
THEOREM DependenciesFirst == ChargesSpec => []OrderedUnlessCyclic
<1>1. ChargesIInv => OrderedUnlessCyclic
  BY DEF ChargesIInv
<1> QED  BY <1>1, ChargesInvariance, PTL

\* A charge on another one is priced on the amount the other got
\* (calculateCharges, the lookup in computedAmounts).
THEOREM BasesComputed == ChargesSpec => []BasedOnComputed
<1>1. ChargesIInv => BasedOnComputed
  BY DEF ChargesIInv
<1> QED  BY <1>1, ChargesInvariance, PTL

\* Refunds of no more than the booking give back no more of a charge than it
\* was, but for half a unit of each refund (allocateRefundCharges).
THEOREM RefundsRounded == ChargesSpec => []RefundsStayWithinRounding
<1>1. ChargesIInv => RefundsStayWithinRounding
  <2> SUFFICES ASSUME ChargesIInv, NEW d \in DOMAIN lines
               PROVE  2 * (refunded[d] - lines[d].amount) <= Len(refunds)
    BY DEF RefundsStayWithinRounding
  <2> DEFINE a == lines[d].amount
             g == refunded[d]
             k == Len(refunds)
             f == Refunded
  <2>1. /\ a \in Nat /\ g \in Nat /\ k \in Nat /\ f \in Nat /\ f <= Whole
        /\ 2 * Whole * g <= 2 * a * f + Whole * k
    <3>1. f \in 0 .. Whole /\ Whole \in Nat
      BY ChargesAssumption, Zenon DEF ChargesIInv, RoundingInv
    <3>2. f \in Nat /\ f <= Whole
      <4> HIDE DEF f
      <4> QED  BY <3>1
    <3>3. refunds \in Seq(Ratios) /\ k \in Nat
      BY SeqIsFunction, Zenon DEF ChargesIInv, ChargesTyped
    <3>4. a \in Nat /\ g \in Nat
      BY DEF ChargesIInv, ChargesTyped
    <3>5. 2 * Whole * g <= 2 * a * f + Whole * k
      BY Zenon DEF ChargesIInv, RoundingInv
    <3> QED  BY <3>2, <3>3, <3>4, <3>5, Zenon
  <2>2. Whole \in Nat /\ Whole > 0
    BY ChargesAssumption
  <2> HIDE DEF a, g, k, f
  <2>3. 2 * (g - a) <= k
    BY <2>1, <2>2, RoundingBound
  <2> QED  BY <2>3 DEF a, g, k
<1> QED  BY <1>1, ChargesInvariance, PTL

-----------------------------------------------------------------------------
(* Ledger: what workers, rows and entries know of each other *)

Captures(p) == <<"booking_payment", p>>
Issues(k) == <<"payout_issuance", k>>
Unwinds(k) == <<"payout_failure_unwind", k>>

\* The await a worker is at says what its task is about.
TaskInv ==
    \A w \in Workers :
        /\ doing[w] = "idle" => task[w] = NoTask
        /\ doing[w] = "succeed" => task[w] \in {"booking_payment"} \X Payments
        /\ doing[w] \in {"claim", "call", "fail"} => task[w] \in {"payout_issuance"} \X Payouts
        /\ doing[w] \in {"refund", "total", "settle"} => task[w] \in {"refund_issuance"} \X Refunds
        /\ doing[w] \in {"insert", "lines"} => task[w] \in EntryKinds
        /\ doing[w] = "lines" => entry[w] \in DOMAIN journal[task[w]]

\* The rows there are: what is worked on and what has been posted about has one.
RefundRows == {f \in Refunds : refundStatus[f] # "absent"}
Rows == Payments \cup PayoutRows \cup RefundRows

RowsInv ==
    /\ \A w \in Workers : doing[w] # "idle" => task[w][2] \in Rows
    /\ \A kind \in EntryKinds : journal[kind] # <<>> => kind[2] \in Rows

\* Of a payment captured once and never reopened: while it is in processing
\* nothing has been posted, and then one worker posts it once.
CaptureInv ==
    \A p \in Payments \ again :
        /\ paymentStatus[p] = "processing" =>
              /\ journal[Captures(p)] = <<>>
              /\ \A w \in Workers : task[w] = Captures(p) => doing[w] = "succeed"
              /\ \A w \in Workers : task[w][1] = "refund_issuance" => PaymentOf[task[w][2]] # p
        /\ \A w \in Workers : task[w] = Captures(p) =>
              /\ doing[w] = "succeed" => paymentStatus[p] = "processing"
              /\ doing[w] = "insert" => journal[Captures(p)] = <<>>
        /\ \A v, w \in Workers :
              /\ task[v] = Captures(p) /\ doing[v] \in {"succeed", "insert"}
              /\ task[w] = Captures(p) /\ doing[w] \in {"succeed", "insert"}
              => v = w
        /\ Len(journal[Captures(p)]) <= 1

-----------------------------------------------------------------------------
(* Ledger: what a calculation has found, unless a worker overtook it *)

Settling == {p \in Payments : paymentStatus[p] = "succeeded"}

Mine(rows) == {x \in rows : OwnerOf(x) = whose[1]}

\* The entries of some types about the references found.
About(types) == Entries({k \in EntryKinds : k[1] \in types /\ k[2] \in ids})

Balance ==
    Credits(Found("booking_payment"), "2000") - Debits(Found("payout_issuance"), "2000")
      - Debits(Found("refund_issuance"), "2000") + Credits(Found("payout_failure_unwind"), "2000")

Types == {"booking_payment", "payout_issuance", "payout_failure_unwind", "refund_issuance"}

WalletInv ==
    /\ query \in {"idle", "payments"} => ids = {}
    /\ query \in {"idle", "payments", "payouts", "refunds", "booking_payment"} => found = {}
    /\ query # "idle" => whose \in Wallets
    /\ found \subseteq Entries(EntryKinds)
    /\ ~overtaken =>
          /\ query = "payouts" => ids = Mine(Settling)
          /\ query = "refunds" => ids = Mine(Settling \cup PayoutRows)
          /\ query \notin {"idle", "payments", "payouts", "refunds"} =>
                ids = Mine(Settling \cup PayoutRows \cup RefundRows)
          /\ query = "payout_issuance" => found = About({"booking_payment"})
          /\ query = "payout_failure_unwind" => found = About({"booking_payment", "payout_issuance"})
          /\ query = "refund_issuance" => found = About(Types \ {"refund_issuance"})
          /\ query \in {"sums", "held", "done"} => found = About(Types)
          /\ query \in {"held", "done"} => balance = Balance
          /\ query = "done" => withdrawable = IF Free > 0 THEN Free ELSE 0

-----------------------------------------------------------------------------
(* Ledger: what covers a payout *)

Posting(kind) == {w \in Workers : doing[w] = "insert" /\ task[w] = kind}

\* The entries of a kind there are, and those about to be.
Posts(kind) == Len(journal[kind]) + Cardinality(Posting(kind))

\* Each payment Tingg has accepted is posted, and can only be reported on once.
CoverInv ==
    \A k \in Payouts \ astray :
        /\ \A w \in Workers : doing[w] = "fail" => task[w] # Issues(k)
        /\ callbacks[k] + Posts(Unwinds(k)) + (IF payoutStatus[k] = "succeeded" THEN 1 ELSE 0)
              <= Posts(Issues(k))
        /\ \A i \in DOMAIN journal[Issues(k)] :
              journal[Issues(k)][i] \/ \E w \in Workers : /\ doing[w] = "lines"
                                                          /\ task[w] = Issues(k) /\ entry[w] = i

LedgerIInv ==
    /\ LedgerTypeOK /\ TaskInv /\ RowsInv
    /\ CaptureInv /\ WalletInv /\ CoverInv

-----------------------------------------------------------------------------
(* Ledger: what an entry comes to *)

LEMMA SumFunctionIs == ASSUME NEW f PROVE SumFunction(f) = SumOf(f, DOMAIN f)
BY DEF SumFunction, SumFunctionOnSet, FoldFunctionOnSet, SumOf, MapThenSumSet

LEMMA SumOnSetIs == ASSUME NEW f, NEW S PROVE SumFunctionOnSet(f, S) = SumOf(f, S)
BY DEF SumFunctionOnSet, FoldFunctionOnSet, SumOf, MapThenSumSet

LEMMA SumOfOne == ASSUME NEW x, NEW f \in [{x} -> Nat] PROVE SumOf(f, {x}) = f[x]
<1>1. IsFiniteSet({x})
  BY FS_Singleton
<1>2. SumOf(f, {x}) = f[x] + SumOf(f, {x} \ {x})
  BY <1>1, SumOfRemove
<1>3. {x} \ {x} = {} /\ f[x] \in Nat
  OBVIOUS
<1> QED  BY <1>2, <1>3, SumOfEmpty

LEMMA FeeWithin == ASSUME NEW a \in Nat PROVE Fee(a) \in Nat /\ a - Fee(a) \in Nat
BY DEF Fee

\* An account with no line, and one with a line.
LEMMA NoLine ==
    ASSUME NEW kind, NEW account, On(kind, account) = {}
    PROVE  Debit(kind, account) = 0 /\ Credit(kind, account) = 0
<1> DEFINE d == [l \in On(kind, account) |-> l.debit]
           c == [l \in On(kind, account) |-> l.credit]
<1>1. DOMAIN d = {} /\ DOMAIN c = {}
  OBVIOUS
<1> HIDE DEF d, c
<1>2. SumFunction(d) = 0 /\ SumFunction(c) = 0
  BY <1>1, SumFunctionIs, SumOfEmpty
<1> QED  BY <1>2, Zenon DEF Debit, Credit, d, c

LEMMA OneLine ==
    ASSUME NEW kind, NEW account, NEW dr \in Nat, NEW cr \in Nat,
           On(kind, account) = {Line(account, dr, cr)}
    PROVE  Debit(kind, account) = dr /\ Credit(kind, account) = cr
<1> DEFINE x == Line(account, dr, cr)
           d == [l \in On(kind, account) |-> l.debit]
           c == [l \in On(kind, account) |-> l.credit]
<1>1. /\ DOMAIN d = {x} /\ d \in [{x} -> Nat] /\ d[x] = dr
      /\ DOMAIN c = {x} /\ c \in [{x} -> Nat] /\ c[x] = cr
  BY DEF Line
<1> HIDE DEF d, c, x
<1>2. SumFunction(d) = dr /\ SumFunction(c) = cr
  BY <1>1, SumFunctionIs, SumOfOne
<1> QED  BY <1>2, Zenon DEF Debit, Credit, d, c

LEMMA KindTyped ==
    ASSUME NEW kind \in EntryKinds
    PROVE  /\ kind = <<kind[1], kind[2]>> /\ kind[1] \in Types /\ kind[2] \in Refs
           /\ AmountOf[kind[2]] \in Nat
           /\ kind[1] = "booking_payment" <=> kind[2] \in Payments
           /\ kind[1] = "refund_issuance" <=> kind[2] \in Refunds
           /\ kind[1] \in {"payout_issuance", "payout_failure_unwind"} <=> kind[2] \in Payouts
BY LedgerAssumption DEF EntryKinds, Types, Refs

\* The lines of an entry, account by account.
LEMMA PaymentLines ==
    ASSUME NEW kind \in EntryKinds, kind[1] = "booking_payment"
    PROVE  LET a == AmountOf[kind[2]] IN
           /\ Debit(kind, "1100") = a /\ Credit(kind, "4000") = Fee(a)
           /\ Debit(kind, "2000") = 0 /\ Credit(kind, "2000") = a - Fee(a)
           /\ Debit(kind, "1200") = 0 /\ Credit(kind, "1200") = 0 /\ Credit(kind, "2100") = 0
<1> DEFINE a == AmountOf[kind[2]]
<1>1. a \in Nat /\ Fee(a) \in Nat /\ a - Fee(a) \in Nat
  BY KindTyped, FeeWithin
<1>0. 0 \in Nat
  OBVIOUS
<1>2. Lines(kind) = {Line("1100", a, 0), Line("2000", 0, a - Fee(a)), Line("4000", 0, Fee(a))}
  BY DEF Lines
<1> HIDE DEF a
<1>3. /\ On(kind, "1100") = {Line("1100", a, 0)}
      /\ On(kind, "2000") = {Line("2000", 0, a - Fee(a))}
      /\ On(kind, "4000") = {Line("4000", 0, Fee(a))}
      /\ On(kind, "1200") = {} /\ On(kind, "2100") = {}
  BY <1>2 DEF On, Line
<1>4. Debit(kind, "1100") = a /\ Credit(kind, "1100") = 0
  <2>1. On(kind, "1100") = {Line("1100", a, 0)}
    BY <1>3
  <2> QED  BY <1>0, <1>1, <2>1, OneLine
<1>5. Debit(kind, "2000") = 0 /\ Credit(kind, "2000") = a - Fee(a)
  <2>1. On(kind, "2000") = {Line("2000", 0, a - Fee(a))}
    BY <1>3
  <2> QED  BY <1>0, <1>1, <2>1, OneLine
<1>6. Credit(kind, "4000") = Fee(a)
  <2>1. On(kind, "4000") = {Line("4000", 0, Fee(a))}
    BY <1>3
  <2> QED  BY <1>0, <1>1, <2>1, OneLine
<1>7. Debit(kind, "1200") = 0 /\ Credit(kind, "1200") = 0 /\ Credit(kind, "2100") = 0
  BY <1>3, NoLine
<1> QED  BY <1>4, <1>5, <1>6, <1>7, Zenon DEF a

LEMMA IssuanceLines ==
    ASSUME NEW kind \in EntryKinds, kind[1] = "payout_issuance"
    PROVE  LET a == AmountOf[kind[2]] IN
           /\ Debit(kind, "1100") = 0 /\ Credit(kind, "4000") = 0
           /\ Debit(kind, "2000") = a /\ Credit(kind, "2000") = 0
           /\ Debit(kind, "1200") = 0 /\ Credit(kind, "1200") = a /\ Credit(kind, "2100") = 0
<1> DEFINE a == AmountOf[kind[2]]
<1>1. a \in Nat
  BY KindTyped
<1>0. 0 \in Nat
  OBVIOUS
<1>2. Lines(kind) = {Line("2000", a, 0), Line("1200", 0, a)}
  BY DEF Lines
<1> HIDE DEF a
<1>3. /\ On(kind, "2000") = {Line("2000", a, 0)} /\ On(kind, "1200") = {Line("1200", 0, a)}
      /\ On(kind, "1100") = {} /\ On(kind, "4000") = {} /\ On(kind, "2100") = {}
  BY <1>2 DEF On, Line
<1>4. Debit(kind, "2000") = a /\ Credit(kind, "2000") = 0
  <2>1. On(kind, "2000") = {Line("2000", a, 0)}
    BY <1>3
  <2> QED  BY <1>0, <1>1, <2>1, OneLine
<1>5. Debit(kind, "1200") = 0 /\ Credit(kind, "1200") = a
  <2>1. On(kind, "1200") = {Line("1200", 0, a)}
    BY <1>3
  <2> QED  BY <1>0, <1>1, <2>1, OneLine
<1>6. Debit(kind, "1100") = 0 /\ Credit(kind, "4000") = 0 /\ Credit(kind, "2100") = 0
  BY <1>3, NoLine
<1> QED  BY <1>4, <1>5, <1>6, Zenon DEF a

LEMMA UnwindLines ==
    ASSUME NEW kind \in EntryKinds, kind[1] = "payout_failure_unwind"
    PROVE  LET a == AmountOf[kind[2]] IN
           /\ Debit(kind, "1100") = 0 /\ Credit(kind, "4000") = 0
           /\ Debit(kind, "2000") = 0 /\ Credit(kind, "2000") = a
           /\ Debit(kind, "1200") = a /\ Credit(kind, "1200") = 0 /\ Credit(kind, "2100") = 0
<1> DEFINE a == AmountOf[kind[2]]
<1>1. a \in Nat
  BY KindTyped
<1>0. 0 \in Nat
  OBVIOUS
<1>2. Lines(kind) = {Line("1200", a, 0), Line("2000", 0, a)}
  BY DEF Lines
<1> HIDE DEF a
<1>3. /\ On(kind, "1200") = {Line("1200", a, 0)} /\ On(kind, "2000") = {Line("2000", 0, a)}
      /\ On(kind, "1100") = {} /\ On(kind, "4000") = {} /\ On(kind, "2100") = {}
  BY <1>2 DEF On, Line
<1>4. Debit(kind, "2000") = 0 /\ Credit(kind, "2000") = a
  <2>1. On(kind, "2000") = {Line("2000", 0, a)}
    BY <1>3
  <2> QED  BY <1>0, <1>1, <2>1, OneLine
<1>5. Debit(kind, "1200") = a /\ Credit(kind, "1200") = 0
  <2>1. On(kind, "1200") = {Line("1200", a, 0)}
    BY <1>3
  <2> QED  BY <1>0, <1>1, <2>1, OneLine
<1>6. Debit(kind, "1100") = 0 /\ Credit(kind, "4000") = 0 /\ Credit(kind, "2100") = 0
  BY <1>3, NoLine
<1> QED  BY <1>4, <1>5, <1>6, Zenon DEF a

LEMMA RefundLines ==
    ASSUME NEW kind \in EntryKinds, kind[1] = "refund_issuance"
    PROVE  LET a == AmountOf[kind[2]] IN
           /\ Debit(kind, "1100") = 0 /\ Credit(kind, "4000") = 0
           /\ Debit(kind, "2000") = a /\ Credit(kind, "2000") = 0
           /\ Debit(kind, "1200") = 0 /\ Credit(kind, "1200") = 0 /\ Credit(kind, "2100") = a
<1> DEFINE a == AmountOf[kind[2]]
<1>1. a \in Nat
  BY KindTyped
<1>0. 0 \in Nat
  OBVIOUS
<1>2. Lines(kind) = {Line("2000", a, 0), Line("2100", 0, a)}
  BY DEF Lines
<1> HIDE DEF a
<1>3. /\ On(kind, "2000") = {Line("2000", a, 0)} /\ On(kind, "2100") = {Line("2100", 0, a)}
      /\ On(kind, "1100") = {} /\ On(kind, "4000") = {} /\ On(kind, "1200") = {}
  BY <1>2 DEF On, Line
<1>4. Debit(kind, "2000") = a /\ Credit(kind, "2000") = 0
  <2>1. On(kind, "2000") = {Line("2000", a, 0)}
    BY <1>3
  <2> QED  BY <1>0, <1>1, <2>1, OneLine
<1>5. Credit(kind, "2100") = a
  <2>1. On(kind, "2100") = {Line("2100", 0, a)}
    BY <1>3
  <2> QED  BY <1>0, <1>1, <2>1, OneLine
<1>6. /\ Debit(kind, "1100") = 0 /\ Credit(kind, "4000") = 0
      /\ Debit(kind, "1200") = 0 /\ Credit(kind, "1200") = 0
  BY <1>3, NoLine
<1> QED  BY <1>4, <1>5, <1>6, Zenon DEF a

\* Every entry balances, and what is owed to providers is the rest.
LEMMA EntryTies ==
    ASSUME NEW kind \in EntryKinds
    PROVE  /\ Debit(kind, "1100") \in Nat /\ Debit(kind, "2000") \in Nat /\ Debit(kind, "1200") \in Nat
           /\ Credit(kind, "4000") \in Nat /\ Credit(kind, "2000") \in Nat
           /\ Credit(kind, "1200") \in Nat /\ Credit(kind, "2100") \in Nat
           /\ Credit(kind, "2000") - Debit(kind, "2000") =
                 Debit(kind, "1100") - Credit(kind, "4000")
                   - (Credit(kind, "1200") - Debit(kind, "1200")) - Credit(kind, "2100")
<1> DEFINE a == AmountOf[kind[2]]
<1>1. a \in Nat /\ Fee(a) \in Nat /\ a - Fee(a) \in Nat /\ kind[1] \in Types
  BY KindTyped, FeeWithin
<1>2. CASE kind[1] = "booking_payment"
  BY <1>1, <1>2, PaymentLines
<1>3. CASE kind[1] = "payout_issuance"
  BY <1>1, <1>3, IssuanceLines
<1>4. CASE kind[1] = "payout_failure_unwind"
  BY <1>1, <1>4, UnwindLines
<1>5. CASE kind[1] = "refund_issuance"
  BY <1>1, <1>5, RefundLines
<1> QED  BY <1>1, <1>2, <1>3, <1>4, <1>5 DEF Types

-----------------------------------------------------------------------------
(* Ledger: sums over entries *)

\* The entries there could be, and what each comes to on an account.
Ent == EntryKinds \X Nat
Cr(account) == [e \in Ent |-> Credit(e[1], account)]
Dr(account) == [e \in Ent |-> Debit(e[1], account)]

LEMMA EntryValues ==
    /\ Cr("2000") \in [Ent -> Int] /\ Dr("2000") \in [Ent -> Int]
    /\ Cr("1200") \in [Ent -> Int] /\ Dr("1200") \in [Ent -> Int]
    /\ Cr("2100") \in [Ent -> Int] /\ Cr("4000") \in [Ent -> Int] /\ Dr("1100") \in [Ent -> Int]
<1>1. ASSUME NEW e \in Ent PROVE e[1] \in EntryKinds
  BY DEF Ent
<1> QED  BY <1>1, EntryTies DEF Cr, Dr

LEMMA KindsFinite == IsFiniteSet(EntryKinds)
<1>1. /\ IsFiniteSet({"booking_payment"}) /\ IsFiniteSet({"refund_issuance"})
      /\ IsFiniteSet({"payout_issuance", "payout_failure_unwind"})
  <2>1. {"payout_issuance", "payout_failure_unwind"} = {"payout_issuance"} \cup {"payout_failure_unwind"}
    OBVIOUS
  <2>2. IsFiniteSet({"payout_issuance"}) /\ IsFiniteSet({"payout_failure_unwind"})
    BY FS_Singleton
  <2>3. IsFiniteSet({"payout_issuance", "payout_failure_unwind"})
    BY <2>1, <2>2, FS_Union
  <2> QED  BY <2>3, FS_Singleton
<1>2. /\ IsFiniteSet({"booking_payment"} \X Payments) /\ IsFiniteSet({"refund_issuance"} \X Refunds)
      /\ IsFiniteSet({"payout_issuance", "payout_failure_unwind"} \X Payouts)
  BY <1>1, LedgerAssumption, FS_Product
<1> QED  BY <1>2, FS_Union DEF EntryKinds

LEMMA EntriesFinite ==
    ASSUME LedgerTypeOK, NEW kinds \in SUBSET EntryKinds
    PROVE  /\ IsFiniteSet(Entries(kinds)) /\ Entries(kinds) \subseteq Ent
           /\ \A e : e \in Entries(kinds) <=> /\ e = <<e[1], e[2]>> /\ e[1] \in kinds
                                              /\ e[2] \in DOMAIN journal[e[1]]
<1> DEFINE part == [k \in kinds |-> {k} \X DOMAIN journal[k]]
           parts == {part[k] : k \in kinds}
<1>1. \A k \in kinds : DOMAIN journal[k] = 1 .. Len(journal[k]) /\ Len(journal[k]) \in Nat
  BY DEF LedgerTypeOK
<1>2. IsFiniteSet(parts)
  <2>1. part \in Surjection(kinds, parts)
    BY DEF Surjection
  <2>2. IsFiniteSet(kinds)
    BY KindsFinite, FS_Subset
  <2> HIDE DEF part, parts
  <2> QED  BY <2>1, <2>2, FS_Surjection
<1>3. ASSUME NEW T \in parts PROVE IsFiniteSet(T)
  <2>1. PICK k \in kinds : T = {k} \X DOMAIN journal[k]
    OBVIOUS
  <2>2. IsFiniteSet(1 .. Len(journal[k]))
    <3>1. ASSUME NEW n \in Nat PROVE IsFiniteSet(1 .. n)
      BY FS_Interval
    <3> QED  BY <1>1, <3>1
  <2> QED  BY <1>1, <2>1, <2>2, FS_Singleton, FS_Product
<1>4. Entries(kinds) = UNION parts
  BY DEF Entries
<1>5. IsFiniteSet(UNION parts)
  <2> HIDE DEF parts
  <2> QED  BY <1>2, <1>3, FS_UNION
<1>6. \A e : e \in Entries(kinds) <=> /\ e = <<e[1], e[2]>> /\ e[1] \in kinds
                                      /\ e[2] \in DOMAIN journal[e[1]]
  BY DEF Entries
<1>7. Entries(kinds) \subseteq Ent
  BY <1>1, <1>6 DEF Ent
<1> QED  BY <1>4, <1>5, <1>6, <1>7

\* Credits and debits are sums of what the entries with lines come to.
LEMMA SidesAreSums ==
    ASSUME NEW es, es \subseteq Ent, IsFiniteSet(es), NEW account
    PROVE  /\ IsFiniteSet(Lined(es)) /\ Lined(es) \subseteq es
           /\ Credits(es, account) = SumOf(Cr(account), Lined(es))
           /\ Debits(es, account) = SumOf(Dr(account), Lined(es))
<1> DEFINE S == Lined(es)
           c == [e \in S |-> Credit(e[1], account)]
           d == [e \in S |-> Debit(e[1], account)]
<1>1. S \subseteq es /\ IsFiniteSet(S)
  BY FS_Subset DEF Lined
<1>2. Credits(es, account) = SumFunction(c) /\ Debits(es, account) = SumFunction(d)
  BY Zenon DEF Credits, Debits
<1>3. /\ DOMAIN c = S /\ \A e \in S : c[e] = Cr(account)[e]
      /\ DOMAIN d = S /\ \A e \in S : d[e] = Dr(account)[e]
  BY <1>1 DEF Cr, Dr
<1> HIDE DEF S, c, d
<1>4. SumOf(c, S) = SumOf(Cr(account), S) /\ SumOf(d, S) = SumOf(Dr(account), S)
  BY <1>1, <1>3, SumOfSame
<1>5. SumFunction(c) = SumOf(c, S) /\ SumFunction(d) = SumOf(d, S)
  BY <1>3, SumFunctionIs
<1> QED  BY <1>1, <1>2, <1>4, <1>5, Zenon DEF S

LEMMA SidesTyped ==
    ASSUME NEW es, es \subseteq Ent, IsFiniteSet(es)
    PROVE  /\ Credits(es, "2000") \in Int /\ Debits(es, "2000") \in Int
           /\ Credits(es, "1200") \in Int /\ Debits(es, "1200") \in Int
           /\ Credits(es, "2100") \in Int /\ Credits(es, "4000") \in Int /\ Debits(es, "1100") \in Int
<1> DEFINE S == Lined(es)
<1>1. IsFiniteSet(S) /\ S \subseteq Ent
  BY SidesAreSums
<1> HIDE DEF S
<1>2. ASSUME NEW f \in [Ent -> Int] PROVE SumOf(f, S) \in Int
  <2> DEFINE g == [e \in S |-> f[e]]
  <2>1. g \in [S -> Int] /\ \A e \in S : g[e] = f[e]
    BY <1>1
  <2> HIDE DEF g
  <2>2. SumOf(g, S) \in Int /\ SumOf(f, S) = SumOf(g, S)
    BY <1>1, <2>1, SumOfInt, SumOfSame
  <2> QED  BY <2>2
<1> QED  BY <1>2, EntryValues, SidesAreSums DEF S

-----------------------------------------------------------------------------
(* Ledger: what workers, rows and entries know of each other, preserved *)

JournalInv == LedgerTypeOK /\ TaskInv /\ RowsInv

LEMMA RefsFinite == IsFiniteSet(Refs)
BY LedgerAssumption, FS_Union DEF Refs

LEMMA HeldTyped == ASSUME NEW v, NEW c, NEW statuses PROVE Held(v, c, statuses) \in Nat
<1> DEFINE S == {k \in Payouts : Owner[k] = v /\ Currency[k] = c /\ payoutStatus[k] \in statuses}
<1>1. S \subseteq Refs /\ AmountOf \in [Refs -> Nat]
  BY LedgerAssumption DEF Refs
<1>2. Held(v, c, statuses) = SumFunctionOnSet(AmountOf, S)
  BY Zenon DEF Held
<1> HIDE DEF S
<1> QED  BY <1>1, <1>2, RefsFinite, SumOnSetIs, SumOfNat

\* What a calculation has found is among the entries.
LEMMA FoundTyped ==
    ASSUME LedgerTypeOK, found \subseteq Entries(EntryKinds), NEW type
    PROVE  Found(type) \subseteq Ent /\ IsFiniteSet(Found(type)) /\ Found(type) \subseteq found
<1>1. IsFiniteSet(Entries(EntryKinds)) /\ Entries(EntryKinds) \subseteq Ent
  BY EntriesFinite
<1>2. Found(type) \subseteq found
  BY DEF Found
<1> QED  BY <1>1, <1>2, FS_Subset

LEMMA BalanceTyped ==
    ASSUME LedgerTypeOK, found \subseteq Entries(EntryKinds)
    PROVE  Balance \in Int
<1> DEFINE in == Found("booking_payment")
           out == Found("payout_issuance")
           back == Found("refund_issuance")
           again1 == Found("payout_failure_unwind")
<1>1. /\ Credits(in, "2000") \in Int /\ Debits(out, "2000") \in Int
      /\ Debits(back, "2000") \in Int /\ Credits(again1, "2000") \in Int
  BY FoundTyped, SidesTyped
<1> QED  BY <1>1 DEF Balance

LEMMA BaseInit == LedgerInit => JournalInv
<1> SUFFICES ASSUME LedgerInit PROVE JournalInv
  OBVIOUS
<1>1. LedgerTypeOK
  <2>1. tasks \in 0 .. MaxTasks /\ losses \in 0 .. MaxLosses
    BY LedgerAssumption DEF LedgerInit
  <2>2. journal \in [EntryKinds -> Seq(BOOLEAN)]
    BY DEF LedgerInit
  <2>3. /\ paymentStatus \in
               [Payments -> {"processing", "succeeded", "partially_refunded", "refunded"}]
        /\ payoutStatus \in
               [Payouts -> {"absent", "on_hold", "pending", "processing", "succeeded", "failed"}]
        /\ refundStatus \in [Refunds -> {"absent", "processing", "succeeded", "failed"}]
        /\ callbacks \in [Payouts -> Nat]
    BY DEF LedgerInit
  <2>4. /\ doing \in [Workers -> {"idle", "succeed", "claim", "call", "fail", "refund", "insert",
                                "lines", "total", "settle"}]
        /\ task \in [Workers -> EntryKinds \cup {NoTask}]
        /\ entry \in [Workers -> Nat] /\ inFull \in [Workers -> BOOLEAN]
    BY DEF LedgerInit
  <2>5. /\ ids \subseteq Refs /\ found \subseteq EntryKinds \X Nat
        /\ balance \in Int /\ withdrawable \in Nat /\ overtaken \in BOOLEAN
        /\ again \subseteq Payments /\ astray \subseteq Payouts
    <3>1. balance \in Int /\ withdrawable \in Nat
      BY DEF LedgerInit
    <3> QED  BY <3>1, Zenon DEF LedgerInit
  <2> QED  BY <2>1, <2>2, <2>3, <2>4, <2>5, Zenon DEF LedgerTypeOK
<1>2. TaskInv /\ RowsInv
  BY DEF LedgerInit, TaskInv, RowsInv
<1> QED  BY <1>1, <1>2 DEF JournalInv

\* The kinds of what is worked on.
LEMMA KindOf ==
    /\ \A p \in Payments : <<"booking_payment", p>> \in EntryKinds
    /\ \A k \in Payouts : <<"payout_issuance", k>> \in EntryKinds /\ <<"payout_failure_unwind", k>> \in EntryKinds
    /\ \A f \in Refunds : <<"refund_issuance", f>> \in EntryKinds
    /\ NoTask \notin EntryKinds
BY DEF EntryKinds, NoTask

LEMMA StartTyped ==
    ASSUME LedgerTypeOK, NEW w \in Workers, NEW kind \in EntryKinds,
           NEW step \in {"succeed", "claim", "refund", "insert"}, Start(w, step, kind)
    PROVE  /\ tasks' \in 0 .. MaxTasks /\ task' \in [Workers -> EntryKinds \cup {NoTask}]
           /\ doing' \in [Workers -> {"idle", "succeed", "claim", "call", "fail", "refund", "insert",
                                     "lines", "total", "settle"}]
BY LedgerAssumption DEF LedgerTypeOK, Start

LEMMA MarkedTyped ==
    ASSUME NEW s \in Seq(BOOLEAN), NEW i \in DOMAIN s
    PROVE  [s EXCEPT ![i] = TRUE] \in Seq(BOOLEAN) /\ Len([s EXCEPT ![i] = TRUE]) = Len(s)
BY ExceptSeq

LEMMA TypedWork ==
    ASSUME JournalInv, NEW w \in Workers, Work(w), Moves
    PROVE  LedgerTypeOK'
<1> USE DEF JournalInv
<1>0. /\ UNCHANGED <<query, whose, ids, found, balance, withdrawable>>
      /\ overtaken' \in BOOLEAN
      /\ ids' \subseteq Refs /\ found' \subseteq EntryKinds \X Nat
      /\ balance' \in Int /\ withdrawable' \in Nat
  BY DEF Moves, walletVars, LedgerTypeOK
<1> USE DEF LedgerTypeOK, ledgerRows, ledgerHistory, workVars
<1>1. ASSUME NEW p \in Payments, StartCapture(w, p) PROVE LedgerTypeOK'
  BY <1>0, <1>1, StartTyped, KindOf DEF StartCapture
<1>2. ASSUME NEW k \in Payouts, StartDispatch(w, k) PROVE LedgerTypeOK'
  <2>1. /\ payoutStatus' = [payoutStatus EXCEPT ![k] = "pending"] /\ Start(w, "claim", Issues(k))
        /\ UNCHANGED <<paymentStatus, refundStatus, callbacks, journal, entry, inFull, ledgerHistory, losses>>
    BY <1>2 DEF StartDispatch, Issues
  <2> QED  BY <1>0, <2>1, StartTyped, KindOf DEF Issues
<1>3. ASSUME NEW k \in Payouts, ReportFailed(w, k) PROVE LedgerTypeOK'
  <2>1. /\ payoutStatus' = [payoutStatus EXCEPT ![k] = "failed"] /\ Start(w, "insert", Unwinds(k))
        /\ callbacks[k] > 0 /\ callbacks' = [callbacks EXCEPT ![k] = @ - 1]
        /\ UNCHANGED <<paymentStatus, refundStatus, journal, entry, inFull, ledgerHistory, losses>>
    BY <1>3 DEF ReportFailed, Unwinds
  <2>2. callbacks' \in [Payouts -> Nat]
    <3>1. callbacks[k] - 1 \in Nat
      BY <2>1
    <3> QED  BY <2>1, <3>1
  <2>3. Unwinds(k) \in EntryKinds
    BY KindOf DEF Unwinds
  <2> QED  BY <1>0, <2>1, <2>2, <2>3, StartTyped
<1>4. ASSUME NEW f \in Refunds, BeginRefund(w, f) PROVE LedgerTypeOK'
  BY <1>0, <1>4, StartTyped, KindOf DEF BeginRefund
<1>5. CASE MarkSucceeded(w)
  BY <1>0, <1>5 DEF MarkSucceeded, Proceed, TaskInv
<1>6. CASE Claim(w)
  BY <1>0, <1>6 DEF Claim, Proceed, TaskInv
<1>7. CASE Accepted(w)
  BY <1>0, <1>7 DEF Accepted, Proceed, TaskInv
<1>8. CASE Refused(w)
  BY <1>0, <1>8 DEF Refused, Proceed, TaskInv
<1>9. CASE Fail(w)
  BY <1>0, <1>9, KindOf DEF Fail, TaskInv
<1>10. CASE RefundAnswered(w)
  BY <1>0, <1>10, KindOf DEF RefundAnswered, Proceed, TaskInv
<1>11. CASE ReadRefunded(w)
  BY <1>0, <1>11 DEF ReadRefunded, Proceed, TaskInv
<1>12. CASE SettleRefund(w)
  BY <1>0, <1>12, KindOf DEF SettleRefund, Proceed, TaskInv
<1>13. CASE InsertEntry(w)
  <2>1. /\ task[w] \in EntryKinds /\ journal[task[w]] \in Seq(BOOLEAN)
        /\ journal' = [journal EXCEPT ![task[w]] = Append(@, FALSE)]
    BY <1>13 DEF InsertEntry, Proceed, TaskInv
  <2>2. Append(journal[task[w]], FALSE) \in Seq(BOOLEAN) /\ Len(journal[task[w]]) + 1 \in Nat
    BY <2>1
  <2>3. journal' \in [EntryKinds -> Seq(BOOLEAN)]
    BY <2>1, <2>2
  <2> QED  BY <1>0, <1>13, <2>2, <2>3 DEF InsertEntry, Proceed
<1>14. CASE InsertLines(w)
  <2>1. /\ task[w] \in EntryKinds /\ journal[task[w]] \in Seq(BOOLEAN)
        /\ entry[w] \in DOMAIN journal[task[w]]
        /\ journal' = [journal EXCEPT ![task[w]] = [@ EXCEPT ![entry[w]] = TRUE]]
    BY <1>14 DEF InsertLines, Proceed, TaskInv
  <2>2. [journal[task[w]] EXCEPT ![entry[w]] = TRUE] \in Seq(BOOLEAN)
    BY <2>1, MarkedTyped
  <2>3. journal' \in [EntryKinds -> Seq(BOOLEAN)]
    BY <2>1, <2>2
  <2> QED  BY <1>0, <1>14, <2>3 DEF InsertLines, Proceed
<1>15. CASE ThrowIn(w)
  <2>1. /\ losses' \in 0 .. MaxLosses
        /\ entry' \in [Workers -> Nat] /\ inFull' \in [Workers -> BOOLEAN]
        /\ UNCHANGED <<paymentStatus, payoutStatus, callbacks, journal, again, tasks>>
    BY <1>15, LedgerAssumption DEF ThrowIn, Forget
  <2>2. /\ task[w] \in EntryKinds
        /\ task[w][1] = "payout_issuance" => task[w][2] \in Payouts
        /\ task[w][1] = "refund_issuance" => task[w][2] \in Refunds
    BY <1>15, KindTyped, KindOf DEF ThrowIn, TaskInv
  <2>3. astray' \subseteq Payouts
    BY <1>15, <2>2 DEF ThrowIn
  <2>4. CASE task[w][1] = "payout_issuance" /\ Proceed(w, doing[w], "fail") /\ UNCHANGED refundStatus
    BY <1>0, <2>1, <2>3, <2>4 DEF Proceed
  <2>5. CASE /\ Proceed(w, doing[w], "idle")
             /\ refundStatus' = [refundStatus EXCEPT ![task[w][2]] = "failed"]
    BY <1>0, <2>1, <2>3, <2>5 DEF Proceed
  <2> QED  BY <1>15, <2>4, <2>5 DEF ThrowIn
<1>16. CASE EvictWorker(w)
  BY <1>0, <1>16, LedgerAssumption DEF EvictWorker, Proceed, Forget
<1> QED
  <2> HIDE DEF LedgerTypeOK, JournalInv
  <2> QED  BY <1>1, <1>2, <1>3, <1>4, <1>5, <1>6, <1>7, <1>8, <1>9, <1>10, <1>11, <1>12, <1>13, <1>14,
              <1>15, <1>16, Zenon DEF Work

LEMMA TypedRest ==
    ASSUME JournalInv, Moves,
           \/ \E p \in Payments : LatePending(p)
           \/ \E k \in Payouts : CreatePayout(k) \/ Report(k)
    PROVE  LedgerTypeOK'
<1> USE DEF JournalInv
<1>0. /\ UNCHANGED <<query, whose, ids, found, balance, withdrawable>>
      /\ overtaken' \in BOOLEAN
      /\ ids' \subseteq Refs /\ found' \subseteq EntryKinds \X Nat
      /\ balance' \in Int /\ withdrawable' \in Nat
  BY DEF Moves, walletVars, LedgerTypeOK
<1> USE DEF LedgerTypeOK, ledgerHistory, workVars
<1>1. ASSUME NEW p \in Payments, LatePending(p) PROVE LedgerTypeOK'
  BY <1>0, <1>1, LedgerAssumption DEF LatePending
<1>2. ASSUME NEW k \in Payouts, CreatePayout(k) PROVE LedgerTypeOK'
  BY <1>0, <1>2 DEF CreatePayout
<1>3. ASSUME NEW k \in Payouts, Report(k) PROVE LedgerTypeOK'
  <2>1. callbacks' \in [Payouts -> Nat]
    <3>1. callbacks[k] - 1 \in Nat
      BY <1>3 DEF Report
    <3> QED  BY <1>3, <3>1 DEF Report
  <2>2. payoutStatus' \in [Payouts -> {"absent", "on_hold", "pending", "processing", "succeeded", "failed"}]
    BY <1>3 DEF Report
  <2> QED  BY <1>0, <1>3, <2>1, <2>2 DEF Report
<1> QED  BY <1>1, <1>2, <1>3

LEMMA TypedWallet ==
    ASSUME JournalInv, found \subseteq Entries(EntryKinds),
           (\E of \in Wallets : StartWallet(of)) \/ WalletStep
    PROVE  LedgerTypeOK'
<1> USE DEF JournalInv
<1>1. /\ UNCHANGED <<paymentStatus, payoutStatus, refundStatus, callbacks, journal, doing, task, entry,
                     inFull, again, astray, tasks, losses>>
      /\ overtaken' \in BOOLEAN
  BY DEF WalletStep, StartWallet, FindIds, FindEntries, SumLines, SumHeld, Query, ledgerRows, workVars,
         ledgerHistory, LedgerTypeOK
<1>2. /\ ids' \subseteq Refs
      /\ found' \subseteq EntryKinds \X Nat
      /\ balance' \in Int /\ withdrawable' \in Nat
  <2>0. /\ ids \subseteq Refs /\ found \subseteq EntryKinds \X Nat
        /\ balance \in Int /\ withdrawable \in Nat
    BY DEF LedgerTypeOK
  <2>1. ASSUME NEW from, NEW to, NEW rows \in SUBSET Refs, FindIds(from, to, rows) PROVE <1>2!1 /\ <1>2!2 /\ <1>2!3
    BY <2>0, <2>1 DEF FindIds
  <2>2. ASSUME NEW type, NEW to, FindEntries(type, to) PROVE <1>2!1 /\ <1>2!2 /\ <1>2!3
    <3>1. Entries({k \in EntryKinds : k[1] = type /\ k[2] \in ids}) \subseteq EntryKinds \X Nat
      BY EntriesFinite DEF Ent
    <3> QED  BY <2>0, <2>2, <3>1 DEF FindEntries
  <2>3. CASE SumLines
    <3>1. balance' = Balance
      <4>1. Balance = Credits(Found("booking_payment"), "2000")
                    - Debits(Found("payout_issuance"), "2000")
                    - Debits(Found("refund_issuance"), "2000")
                    + Credits(Found("payout_failure_unwind"), "2000")
        BY Zenon DEF Balance
      <4> QED  BY <2>3, <4>1, Zenon DEF SumLines
    <3> QED  BY <2>0, <2>3, <3>1, BalanceTyped DEF SumLines
  <2>4. CASE SumHeld
    <3> DEFINE a == Held(whose[1], whose[2], {"processing"})
               b == Held(whose[1], whose[2], {"on_hold"})
    <3>1. a \in Nat /\ b \in Nat
      BY HeldTyped
    <3>2. Free = balance - a - b /\ withdrawable' = IF Free > 0 THEN Free ELSE 0
      BY <2>4, Zenon DEF Free, SumHeld
    <3> HIDE DEF a, b
    <3> QED  BY <2>0, <2>4, <3>1, <3>2 DEF SumHeld
  <2>5. ASSUME NEW of, StartWallet(of) PROVE <1>2!1 /\ <1>2!2 /\ <1>2!3
    BY <2>0, <2>5 DEF StartWallet
  <2>6. /\ {p \in Payments : paymentStatus[p] = "succeeded"} \in SUBSET Refs
        /\ PayoutRows \in SUBSET Refs
        /\ {f \in Refunds : refundStatus[f] # "absent"} \in SUBSET Refs
    BY DEF PayoutRows, Refs
  <2> QED  BY <2>1, <2>2, <2>3, <2>4, <2>5, <2>6 DEF WalletStep
<1> QED  BY <1>1, <1>2 DEF LedgerTypeOK

LEMMA TaskWork ==
    ASSUME JournalInv, LedgerTypeOK', NEW w \in Workers, Work(w)
    PROVE  TaskInv'
<1> USE DEF JournalInv, ledgerRows
<1>0. /\ \A x \in Workers : TaskInv!(x)
      /\ doing \in [Workers -> {"idle", "succeed", "claim", "call", "fail", "refund", "insert",
                                     "lines", "total", "settle"}]
      /\ task \in [Workers -> EntryKinds \cup {NoTask}] /\ entry \in [Workers -> Nat]
  BY DEF LedgerTypeOK, TaskInv
<1>1. ASSUME NEW step \in {"succeed", "claim", "refund", "insert"}, NEW kind \in EntryKinds, Start(w, step, kind),
             step = "succeed" => kind \in {"booking_payment"} \X Payments,
             step = "claim" => kind \in {"payout_issuance"} \X Payouts,
             step = "refund" => kind \in {"refund_issuance"} \X Refunds,
             UNCHANGED <<entry, journal>>
      PROVE  TaskInv'
  BY <1>0, <1>1 DEF Start, TaskInv
<1>2. ASSUME NEW from \in {"succeed", "claim", "call", "refund", "total", "settle"}, NEW to, Proceed(w, from, to),
             <<from, to>> \in {<<"succeed", "insert">>, <<"claim", "call">>, <<"call", "insert">>,
                               <<"call", "fail">>, <<"refund", "insert">>, <<"refund", "idle">>,
                               <<"total", "settle">>, <<"settle", "idle">>},
             UNCHANGED <<entry, journal>>
      PROVE  TaskInv'
  <2>1. ASSUME NEW x \in Workers PROVE TaskInv!(x)'
    <3>1. CASE x # w
      BY <1>0, <1>2, <3>1 DEF Proceed
    <3>2. CASE x = w
      BY <1>0, <1>2, <3>2, KindOf DEF Proceed, EntryKinds
    <3> QED  BY <3>1, <3>2
  <2> QED  BY <2>1 DEF TaskInv
<1>3. CASE \E p \in Payments : StartCapture(w, p)
  BY <1>1, <1>3, KindOf DEF StartCapture
<1>4. CASE \E k \in Payouts : StartDispatch(w, k) \/ ReportFailed(w, k)
  BY <1>1, <1>4, KindOf DEF StartDispatch, ReportFailed
<1>5. CASE \E f \in Refunds : BeginRefund(w, f)
  BY <1>1, <1>5, KindOf DEF BeginRefund
<1>6. CASE MarkSucceeded(w) \/ Claim(w) \/ Accepted(w) \/ Refused(w)
  BY <1>2, <1>6 DEF MarkSucceeded, Claim, Accepted, Refused
<1>7. CASE RefundAnswered(w) \/ ReadRefunded(w) \/ SettleRefund(w)
  BY <1>2, <1>7 DEF RefundAnswered, ReadRefunded, SettleRefund
<1>8. CASE Fail(w)
  BY <1>0, <1>8, KindOf DEF Fail, TaskInv
<1>9. CASE InsertEntry(w)
  <2>1. /\ doing[w] = "insert" /\ doing' = [doing EXCEPT ![w] = "lines"] /\ task' = task
        /\ task[w] \in EntryKinds
        /\ journal' = [journal EXCEPT ![task[w]] = Append(@, FALSE)]
        /\ entry' = [entry EXCEPT ![w] = Len(journal[task[w]]) + 1]
    BY <1>0, <1>9 DEF InsertEntry, Proceed
  <2>2. ASSUME NEW kind \in EntryKinds
        PROVE  /\ DOMAIN journal[kind] \subseteq DOMAIN journal'[kind]
               /\ kind = task[w] => Len(journal[kind]) + 1 \in DOMAIN journal'[kind]
    <3>1. journal[kind] \in Seq(BOOLEAN)
      BY DEF LedgerTypeOK
    <3>2. /\ DOMAIN journal[kind] = 1 .. Len(journal[kind]) /\ Len(journal[kind]) \in Nat
          /\ DOMAIN Append(journal[kind], FALSE) = 1 .. Len(journal[kind]) + 1
      BY <3>1
    <3>3. journal'[kind] = IF kind = task[w] THEN Append(journal[kind], FALSE) ELSE journal[kind]
      BY <2>1 DEF LedgerTypeOK
    <3> QED  BY <3>2, <3>3
  <2>3. ASSUME NEW x \in Workers PROVE TaskInv!(x)'
    <3>1. CASE x # w
      BY <1>0, <2>1, <2>2, <3>1
    <3>2. CASE x = w
      BY <1>0, <2>1, <2>2, <3>2
    <3> QED  BY <3>1, <3>2
  <2> QED  BY <2>3 DEF TaskInv
<1>10. CASE InsertLines(w)
  <2>1. /\ doing[w] = "lines" /\ task[w] \in EntryKinds /\ entry[w] \in DOMAIN journal[task[w]]
        /\ journal' = [journal EXCEPT ![task[w]] = [@ EXCEPT ![entry[w]] = TRUE]]
        /\ entry' = [entry EXCEPT ![w] = 0]
        /\ Proceed(w, "lines", IF task[w][1] = "refund_issuance" THEN "total" ELSE "idle")
    BY <1>0, <1>10 DEF InsertLines, Proceed
  <2>2. ASSUME NEW kind \in EntryKinds PROVE DOMAIN journal'[kind] = DOMAIN journal[kind]
    BY <2>1 DEF LedgerTypeOK
  <2>3. task[w][1] = "refund_issuance" => task[w] \in {"refund_issuance"} \X Refunds
    BY <2>1 DEF EntryKinds
  <2>4. ASSUME NEW x \in Workers PROVE TaskInv!(x)'
    <3>1. CASE x # w
      BY <1>0, <2>1, <2>2, <3>1 DEF Proceed
    <3>2. CASE x = w
      BY <1>0, <2>1, <2>3, <3>2 DEF Proceed
    <3> QED  BY <3>1, <3>2
  <2> QED  BY <2>4 DEF TaskInv
<1>11. CASE ThrowIn(w)
  <2>1. /\ doing[w] \in {"insert", "lines", "total", "settle"} /\ journal' = journal
        /\ entry' = [entry EXCEPT ![w] = 0]
        /\ \/ Proceed(w, doing[w], "fail") /\ task[w][1] = "payout_issuance"
           \/ Proceed(w, doing[w], "idle")
    BY <1>11 DEF ThrowIn, Forget
  <2>2. task[w] \in EntryKinds /\ (task[w][1] = "payout_issuance" => task[w] \in {"payout_issuance"} \X Payouts)
    BY <1>0, <2>1 DEF EntryKinds
  <2>4. ASSUME NEW x \in Workers PROVE TaskInv!(x)'
    <3>1. CASE x # w
      BY <1>0, <2>1, <3>1 DEF Proceed
    <3>2. CASE x = w
      BY <1>0, <2>1, <2>2, <3>2 DEF Proceed
    <3> QED  BY <3>1, <3>2
  <2> QED  BY <2>4 DEF TaskInv
<1>12. CASE EvictWorker(w)
  BY <1>0, <1>12 DEF EvictWorker, Proceed, Forget, TaskInv
<1> QED  BY <1>3, <1>4, <1>5, <1>6, <1>7, <1>8, <1>9, <1>10, <1>11, <1>12, Zenon DEF Work

LEMMA RowsWork ==
    ASSUME JournalInv, LedgerTypeOK', TaskInv', NEW w \in Workers, Work(w)
    PROVE  RowsInv'
<1> USE DEF JournalInv, ledgerRows
<1>0. /\ \A x \in Workers : doing[x] # "idle" => task[x][2] \in Rows
      /\ \A kind \in EntryKinds : journal[kind] # <<>> => kind[2] \in Rows
      /\ payoutStatus \in
          [Payouts -> {"absent", "on_hold", "pending", "processing", "succeeded", "failed"}]
      /\ refundStatus \in [Refunds -> {"absent", "processing", "succeeded", "failed"}]
      /\ doing \in [Workers -> {"idle", "succeed", "claim", "call", "fail", "refund", "insert",
                                     "lines", "total", "settle"}]
      /\ task \in [Workers -> EntryKinds \cup {NoTask}]
      /\ Payments \cap Payouts = {} /\ (Payments \cup Payouts) \cap Refunds = {}
  BY LedgerAssumption DEF LedgerTypeOK, RowsInv
\* No row goes away.
<1>1. ASSUME NEW x, x \in Rows PROVE x \in Rows'
  <2>1. \A k \in Payouts : payoutStatus[k] # "absent" => payoutStatus'[k] # "absent"
    BY <1>0 DEF Work, StartCapture, StartDispatch, ReportFailed, BeginRefund, MarkSucceeded, Claim, Accepted,
         Refused, Fail, RefundAnswered, ReadRefunded, SettleRefund, InsertEntry, InsertLines, ThrowIn, EvictWorker
  <2>2. \A f \in Refunds : refundStatus[f] # "absent" => refundStatus'[f] # "absent"
    BY <1>0 DEF Work, StartCapture, StartDispatch, ReportFailed, BeginRefund, MarkSucceeded, Claim, Accepted,
         Refused, Fail, RefundAnswered, ReadRefunded, SettleRefund, InsertEntry, InsertLines, ThrowIn, EvictWorker
  <2> QED  BY <1>1, <2>1, <2>2 DEF Rows, PayoutRows, RefundRows
\* A worker is on what it was on, or on what has a row.
<1>2. ASSUME NEW x \in Workers, doing'[x] # "idle" PROVE task'[x][2] \in Rows'
  <2>1. CASE doing[x] # "idle" /\ task'[x][2] = task[x][2]
    BY <1>0, <1>1, <2>1
  <2>2. ASSUME x = w, NEW kind \in EntryKinds, task'[w] = kind, kind[2] \in Rows' PROVE task'[x][2] \in Rows'
    BY <2>2
  <2>3. CASE x # w
    <3>1. doing'[x] = doing[x] /\ task'[x] = task[x]
      BY <1>0, <2>3 DEF Work, StartCapture, StartDispatch, ReportFailed, BeginRefund, MarkSucceeded, Claim, Accepted,
         Refused, Fail, RefundAnswered, ReadRefunded, SettleRefund, InsertEntry, InsertLines, ThrowIn, EvictWorker, Start, Proceed
    <3> QED  BY <1>2, <2>1, <3>1
  <2>4. CASE x = w
    <3>1. ASSUME NEW p \in Payments, StartCapture(w, p) PROVE task'[w][2] \in Rows'
      BY <1>0, <3>1 DEF StartCapture, Start, Rows, PayoutRows, RefundRows
    <3>2. ASSUME NEW k \in Payouts, StartDispatch(w, k) PROVE task'[w][2] \in Rows'
      BY <1>0, <3>2 DEF StartDispatch, Start, Rows, PayoutRows, RefundRows
    <3>3. ASSUME NEW k \in Payouts, ReportFailed(w, k) PROVE task'[w][2] \in Rows'
      BY <1>0, <3>3 DEF ReportFailed, Start, Rows, PayoutRows, RefundRows
    <3>4. ASSUME NEW f \in Refunds, BeginRefund(w, f) PROVE task'[w][2] \in Rows'
      BY <1>0, <3>4 DEF BeginRefund, Start, Rows, PayoutRows, RefundRows
    <3>5. doing[w] # "idle" /\ task'[w][2] = task[w][2] => task'[w][2] \in Rows'
      BY <1>2, <2>1, <2>4
    <3>6. CASE Fail(w)
      <4>1. doing[w] = "fail" /\ task'[w] = <<"payout_failure_unwind", task[w][2]>>
        BY <1>0, <3>6 DEF Fail
      <4>2. task'[w][2] = task[w][2] /\ doing[w] # "idle"
        BY <4>1
      <4> QED  BY <2>4, <3>5, <4>2
    <3>7. CASE ThrowIn(w) \/ EvictWorker(w)
      <4>1. doing[w] # "idle" /\ (doing'[w] # "idle" => task'[w] = task[w])
        BY <1>0, <3>7 DEF ThrowIn, EvictWorker, Proceed
      <4> QED  BY <1>2, <2>4, <3>5, <4>1
    <3>8. CASE MarkSucceeded(w) \/ Claim(w) \/ Accepted(w) \/ Refused(w)
      <4>1. doing[w] # "idle" /\ (doing'[w] # "idle" => task'[w] = task[w])
        BY <1>0, <3>8 DEF MarkSucceeded, Claim, Accepted, Refused, Proceed
      <4> QED  BY <1>2, <2>4, <3>5, <4>1
    <3>9. CASE RefundAnswered(w) \/ ReadRefunded(w) \/ SettleRefund(w) \/ InsertEntry(w) \/ InsertLines(w)
      <4>1. doing[w] # "idle" /\ (doing'[w] # "idle" => task'[w] = task[w])
        BY <1>0, <3>9 DEF RefundAnswered, ReadRefunded, SettleRefund, InsertEntry, InsertLines, Proceed
      <4> QED  BY <1>2, <2>4, <3>5, <4>1
    <3> QED  BY <2>4, <3>1, <3>2, <3>3, <3>4, <3>6, <3>7, <3>8, <3>9, Zenon DEF Work
  <2> QED  BY <2>3, <2>4
<1>3. ASSUME NEW kind \in EntryKinds, journal'[kind] # <<>> PROVE kind[2] \in Rows'
  <2>1. CASE journal[kind] # <<>>
    BY <1>0, <1>1, <2>1
  <2>2. CASE journal[kind] = <<>>
    <3>1. CASE InsertEntry(w)
      <4>1. kind = task[w] /\ doing[w] = "insert"
        BY <1>0, <1>3, <2>2, <3>1 DEF InsertEntry, Proceed, LedgerTypeOK
      <4> QED  BY <1>0, <1>1, <4>1
    <3>2. CASE InsertLines(w)
      <4>1. entry[w] \in DOMAIN journal[task[w]]
        BY <3>2 DEF InsertLines, Proceed, TaskInv
      <4>2. kind # task[w]
        BY <2>2, <4>1
      <4>3. journal'[kind] = journal[kind]
        BY <3>2, <4>2 DEF InsertLines, LedgerTypeOK
      <4> QED  BY <1>3, <2>2, <4>3
    <3>3. CASE journal' = journal
      BY <1>3, <2>2, <3>3
    <3> QED  BY <3>1, <3>2, <3>3 DEF Work, StartCapture, StartDispatch, ReportFailed, BeginRefund, MarkSucceeded,
               Claim, Accepted, Refused, Fail, RefundAnswered, ReadRefunded, SettleRefund, ThrowIn, EvictWorker
  <2> QED  BY <2>1, <2>2
<1> QED  BY <1>2, <1>3 DEF RowsInv

LEMMA RestBase ==
    ASSUME JournalInv,
           \/ \E p \in Payments : LatePending(p)
           \/ \E k \in Payouts : CreatePayout(k) \/ Report(k)
           \/ \E of \in Wallets : StartWallet(of)
           \/ WalletStep
    PROVE  /\ TaskInv' /\ RowsInv'
           /\ UNCHANGED <<journal, doing, task, entry, again>> \/ \E p \in Payments : LatePending(p)
           /\ UNCHANGED <<journal, doing, task, entry>>
<1> USE DEF JournalInv
<1>1. /\ UNCHANGED <<journal, doing, task, entry>>
      /\ UNCHANGED again \/ \E p \in Payments : LatePending(p)
      /\ \A k \in Payouts : payoutStatus[k] # "absent" => payoutStatus'[k] # "absent"
      /\ refundStatus' = refundStatus
  BY DEF LatePending, CreatePayout, Report, StartWallet, WalletStep, FindIds, FindEntries, SumLines, SumHeld,
         Query, ledgerRows, workVars, ledgerHistory, LedgerTypeOK
<1>2. ASSUME NEW x, x \in Rows PROVE x \in Rows'
  BY <1>1, <1>2 DEF Rows, PayoutRows, RefundRows
<1>3. TaskInv'
  BY <1>1 DEF TaskInv
<1>4. RowsInv'
  BY <1>1, <1>2 DEF RowsInv
<1> QED  BY <1>1, <1>3, <1>4

-----------------------------------------------------------------------------
(* Ledger: a payment captured once is posted once, preserved *)

LEMMA CaptureInit == LedgerInit => CaptureInv
<1>1. ASSUME LedgerInit, NEW p \in Payments, NEW w \in Workers
      PROVE  /\ journal[Captures(p)] = <<>> /\ Len(journal[Captures(p)]) <= 1
             /\ task[w] = NoTask /\ task[w] # Captures(p) /\ task[w][1] # "refund_issuance"
             /\ paymentStatus[p] = "processing"
  BY <1>1, KindOf DEF LedgerInit, NoTask, Captures
<1>2. ASSUME LedgerInit, NEW p \in Payments PROVE Len(journal[Captures(p)]) <= 1 /\ journal[Captures(p)] = <<>>
  BY <1>2, KindOf DEF LedgerInit, Captures
<1> QED  BY <1>1, <1>2 DEF CaptureInv

\* A step that leaves the payment, the number of its entries and those who
\* capture it alone.
LEMMA CaptureKept ==
    ASSUME JournalInv, JournalInv', CaptureInv, NEW p \in Payments \ again, NEW w \in Workers,
           paymentStatus'[p] = paymentStatus[p],
           Len(journal'[Captures(p)]) = Len(journal[Captures(p)]),
           \A x \in Workers \ {w} : task'[x] = task[x] /\ doing'[x] = doing[x],
           task'[w] = Captures(p) => task[w] = Captures(p) /\ doing'[w] = doing[w],
           task'[w][1] = "refund_issuance" =>
               \/ task[w] = task'[w]
               \/ paymentStatus[p] = "processing" => PaymentOf[task'[w][2]] # p
    PROVE  CaptureInv!(p)'
<1>1. journal'[Captures(p)] = <<>> <=> journal[Captures(p)] = <<>>
  <2>1. journal[Captures(p)] \in Seq(BOOLEAN) /\ journal'[Captures(p)] \in Seq(BOOLEAN)
    BY KindOf DEF JournalInv, LedgerTypeOK, Captures
  <2> QED  BY <2>1, EmptySeq
<1>2. CaptureInv!(p)
  BY DEF CaptureInv
<1>3. \A x \in Workers : task'[x] = Captures(p) => task[x] = Captures(p) /\ doing'[x] = doing[x]
  OBVIOUS
<1>4. paymentStatus[p] = "processing" =>
        \A x \in Workers : task'[x][1] = "refund_issuance" => PaymentOf[task'[x][2]] # p
  BY <1>2
<1> QED  BY <1>1, <1>2, <1>3, <1>4

\* A step of one worker is no step of another.
LEMMA OthersGoOn ==
    ASSUME LedgerTypeOK, NEW w \in Workers, Work(w), NEW x \in Workers \ {w}
    PROVE  task'[x] = task[x] /\ doing'[x] = doing[x] /\ entry'[x] = entry[x]
<1>1. CASE \/ \E p \in Payments : StartCapture(w, p)
           \/ \E k \in Payouts : StartDispatch(w, k) \/ ReportFailed(w, k)
           \/ \E f \in Refunds : BeginRefund(w, f)
  BY <1>1 DEF StartCapture, StartDispatch, ReportFailed, BeginRefund, Start, LedgerTypeOK
<1>2. CASE \/ MarkSucceeded(w) \/ Claim(w) \/ Accepted(w) \/ Refused(w) \/ Fail(w)
           \/ RefundAnswered(w) \/ ReadRefunded(w) \/ SettleRefund(w)
  BY <1>2 DEF MarkSucceeded, Claim, Accepted, Refused, Fail, RefundAnswered, ReadRefunded, SettleRefund, Proceed,
              LedgerTypeOK
<1>3. CASE InsertEntry(w) \/ InsertLines(w) \/ ThrowIn(w) \/ EvictWorker(w)
  BY <1>3 DEF InsertEntry, InsertLines, ThrowIn, EvictWorker, Forget, Proceed, LedgerTypeOK
<1> QED  BY <1>1, <1>2, <1>3, Zenon DEF Work

LEMMA CaptureWork ==
    ASSUME JournalInv, JournalInv', CaptureInv, NEW w \in Workers, Work(w)
    PROVE  CaptureInv'
<1> SUFFICES ASSUME NEW p \in Payments \ again' PROVE CaptureInv!(p)'
  BY DEF CaptureInv
<1> USE DEF ledgerRows, ledgerHistory
<1>0. /\ again \subseteq again' /\ p \in Payments \ again
      /\ \A x \in Workers \ {w} : task'[x] = task[x] /\ doing'[x] = doing[x]
  <2>1. again \subseteq again'
    BY DEF Work, StartCapture, StartDispatch, ReportFailed, BeginRefund, MarkSucceeded, Claim, Accepted, Refused,
           Fail, RefundAnswered, ReadRefunded, SettleRefund, InsertEntry, InsertLines, ThrowIn, EvictWorker
  <2> QED  BY <2>1, OthersGoOn DEF JournalInv
<1>t. /\ doing \in [Workers -> {"idle", "succeed", "claim", "call", "fail", "refund", "insert",
                                     "lines", "total", "settle"}]
      /\ task \in [Workers -> EntryKinds \cup {NoTask}]
      /\ paymentStatus \in
          [Payments -> {"processing", "succeeded", "partially_refunded", "refunded"}]
      /\ journal \in [EntryKinds -> Seq(BOOLEAN)]
      /\ Captures(p) \in EntryKinds /\ Captures(p)[1] = "booking_payment" /\ Captures(p) # NoTask
      /\ NoTask[1] # "refund_issuance"
  BY KindOf DEF JournalInv, LedgerTypeOK, Captures, NoTask
<1>p. CaptureInv!(p)
  BY <1>0 DEF CaptureInv
\* The steps of other tasks.
<1>k. ASSUME paymentStatus'[p] = paymentStatus[p],
             Len(journal'[Captures(p)]) = Len(journal[Captures(p)]),
             task'[w] # Captures(p),
             task'[w][1] = "refund_issuance" =>
               \/ task[w] = task'[w]
               \/ paymentStatus[p] = "processing" => PaymentOf[task'[w][2]] # p
      PROVE  CaptureInv!(p)'
  BY <1>0, <1>k, CaptureKept
<1>1. ASSUME NEW q \in Payments, StartCapture(w, q) PROVE CaptureInv!(p)'
  <2>1. /\ paymentStatus[q] = "processing" /\ paymentStatus' = paymentStatus /\ journal' = journal
        /\ task'[w] = Captures(q) /\ doing'[w] = "succeed"
        /\ again' = IF \E v \in Workers : doing[v] = "succeed" /\ task[v] = Captures(q)
                    THEN again \cup {q} ELSE again
    BY <1>1, <1>t DEF StartCapture, Open, Start, Captures
  <2>2. CASE q # p
    BY <1>k, <2>1, <2>2 DEF Captures
  <2>3. CASE q = p
    <3>1. \A x \in Workers : task[x] # Captures(p)
      BY <1>p, <2>1, <2>3
    <3>2. \A x \in Workers : task'[x] = Captures(p) => x = w
      BY <1>0, <3>1
    <3>3. \A x \in Workers : task'[x][1] = "refund_issuance" => PaymentOf[task'[x][2]] # p
      <4>1. task'[w][1] # "refund_issuance"
        BY <1>t, <2>1, <2>3
      <4> QED  BY <1>0, <1>p, <2>1, <2>3, <4>1
    <3> QED  BY <1>p, <2>1, <2>3, <3>2, <3>3
  <2> QED  BY <2>2, <2>3
<1>2. ASSUME NEW k \in Payouts, StartDispatch(w, k) \/ ReportFailed(w, k) PROVE CaptureInv!(p)'
  <2>1. /\ paymentStatus' = paymentStatus /\ journal' = journal
        /\ task'[w][1] \in {"payout_issuance", "payout_failure_unwind"}
    BY <1>t, <1>2 DEF StartDispatch, ReportFailed, Start
  <2> QED  BY <1>k, <1>t, <2>1
<1>3. ASSUME NEW f \in Refunds, BeginRefund(w, f) PROVE CaptureInv!(p)'
  <2>1. /\ paymentStatus' = paymentStatus /\ journal' = journal /\ task'[w] = <<"refund_issuance", f>>
        /\ paymentStatus[PaymentOf[f]] # "processing"
    BY <1>t, <1>3 DEF BeginRefund, Start
  <2> QED  BY <1>k, <1>t, <2>1
<1>4. CASE MarkSucceeded(w)
  <2>1. /\ doing[w] = "succeed" /\ task' = task /\ doing'[w] = "insert" /\ journal' = journal
        /\ paymentStatus' = [paymentStatus EXCEPT ![task[w][2]] = "succeeded"]
    BY <1>t, <1>4 DEF MarkSucceeded, Proceed
  <2>2. PICK q \in Payments : task[w] = Captures(q)
    BY <2>1 DEF JournalInv, TaskInv, Captures
  <2>3. CASE q # p
    <3>1. task[w] # Captures(p) /\ task[w][2] = q
      BY <2>2, <2>3 DEF Captures
    <3>2. paymentStatus'[p] = paymentStatus[p]
      BY <1>t, <2>1, <2>3, <3>1
    <3> QED  BY <1>k, <2>1, <3>1, <3>2
  <2>4. CASE q = p
    <3>1. /\ paymentStatus[p] = "processing" /\ journal'[Captures(p)] = <<>> /\ paymentStatus'[p] = "succeeded"
          /\ Len(journal'[Captures(p)]) <= 1
      BY <1>p, <1>t, <2>1, <2>2, <2>4 DEF Captures
    <3>2. \A x \in Workers \ {w} : task[x] # Captures(p)
      BY <1>p, <2>1, <2>2, <2>4, <3>1
    <3> QED  BY <1>p, <1>0, <2>1, <2>2, <2>4, <3>1, <3>2
  <2> QED  BY <2>3, <2>4
<1>5. CASE Claim(w) \/ Accepted(w) \/ Refused(w) \/ RefundAnswered(w) \/ ReadRefunded(w)
  <2>1. /\ doing[w] \in {"claim", "call", "refund", "total"} /\ task'[w] \in {task[w], NoTask}
        /\ paymentStatus' = paymentStatus /\ journal' = journal
    BY <1>t, <1>5 DEF Claim, Accepted, Refused, RefundAnswered, ReadRefunded, Proceed
  <2>2. task[w] # Captures(p)
    BY <1>t, <2>1 DEF JournalInv, TaskInv
  <2> QED  BY <1>k, <1>t, <2>1, <2>2
<1>6. CASE Fail(w)
  BY <1>k, <1>t, <1>6 DEF Fail
<1>7. CASE SettleRefund(w)
  <2>1. /\ doing[w] = "settle" /\ task'[w] = NoTask /\ journal' = journal
        /\ paymentStatus' = [paymentStatus EXCEPT ![PaymentOf[task[w][2]]] =
                      IF inFull[w] THEN "refunded" ELSE "partially_refunded"]
    BY <1>t, <1>7 DEF SettleRefund, Proceed
  <2>2. task[w][1] = "refund_issuance"
    BY <2>1 DEF JournalInv, TaskInv
  <2>3. CASE PaymentOf[task[w][2]] # p
    BY <1>k, <1>t, <2>1, <2>3
  <2>4. CASE PaymentOf[task[w][2]] = p
    <3>1. paymentStatus[p] # "processing" /\ paymentStatus'[p] # "processing"
      BY <1>p, <1>t, <2>1, <2>2, <2>4
    <3>2. \A x \in Workers : task'[x] = Captures(p) => task[x] = Captures(p) /\ doing'[x] = doing[x]
      BY <1>0, <1>t, <2>1
    <3> QED  BY <1>p, <2>1, <3>1, <3>2
  <2> QED  BY <2>3, <2>4
<1>8. CASE InsertEntry(w)
  <2>1. /\ doing[w] = "insert" /\ task' = task /\ doing'[w] = "lines" /\ paymentStatus' = paymentStatus
        /\ journal' = [journal EXCEPT ![task[w]] = Append(@, FALSE)]
    BY <1>t, <1>8 DEF InsertEntry, Proceed
  <2>2. CASE task[w] # Captures(p)
    <3>1. journal'[Captures(p)] = journal[Captures(p)]
      BY <1>t, <2>1, <2>2
    <3> QED  BY <1>k, <2>1, <2>2, <3>1
  <2>3. CASE task[w] = Captures(p)
    <3>1. journal[Captures(p)] = <<>> /\ paymentStatus[p] # "processing"
      BY <1>p, <2>1, <2>3
    <3>2. Len(journal'[Captures(p)]) <= 1
      BY <1>t, <2>1, <2>3, <3>1
    <3>3. \A x \in Workers \ {w} : task[x] = Captures(p) => doing[x] \notin {"succeed", "insert"}
      BY <1>p, <2>1, <2>3
    <3> QED  BY <1>0, <1>p, <2>1, <3>1, <3>2, <3>3
  <2> QED  BY <2>2, <2>3
<1>9. CASE InsertLines(w)
  <2>1. /\ doing[w] = "lines" /\ paymentStatus' = paymentStatus
        /\ task'[w] = IF task[w][1] = "refund_issuance" THEN task[w] ELSE NoTask
        /\ journal' = [journal EXCEPT ![task[w]] = [@ EXCEPT ![entry[w]] = TRUE]]
        /\ task[w] \in EntryKinds /\ entry[w] \in DOMAIN journal[task[w]]
    BY <1>t, <1>9 DEF InsertLines, Proceed, JournalInv, TaskInv
  <2>2. Len(journal'[Captures(p)]) = Len(journal[Captures(p)])
    BY <1>t, <2>1, MarkedTyped
  <2> QED  BY <1>k, <1>t, <2>1, <2>2
<1>10. CASE ThrowIn(w)
  <2>1. /\ task[w][1] \in {"payout_issuance", "refund_issuance"} /\ task'[w] \in {task[w], NoTask}
        /\ paymentStatus' = paymentStatus /\ journal' = journal
    BY <1>t, <1>10 DEF ThrowIn, Proceed
  <2> QED  BY <1>k, <1>t, <2>1
<1>11. CASE EvictWorker(w)
  BY <1>k, <1>t, <1>11 DEF EvictWorker, Proceed
<1> QED  BY <1>1, <1>2, <1>3, <1>4, <1>5, <1>6, <1>7, <1>8, <1>9, <1>10, <1>11, Zenon DEF Work

LEMMA CaptureRest ==
    ASSUME JournalInv, CaptureInv,
           \/ \E p \in Payments : LatePending(p)
           \/ \E k \in Payouts : CreatePayout(k) \/ Report(k)
           \/ \E of \in Wallets : StartWallet(of)
           \/ WalletStep
    PROVE  CaptureInv'
<1>1. UNCHANGED <<journal, doing, task>>
  BY RestBase
<1>2. again \subseteq again' /\ \A p \in Payments \ again' : paymentStatus'[p] = paymentStatus[p]
  BY DEF LatePending, CreatePayout, Report, StartWallet, WalletStep, FindIds, FindEntries, SumLines, SumHeld,
         Query, ledgerRows, workVars, ledgerHistory, JournalInv, LedgerTypeOK
<1> QED  BY <1>1, <1>2 DEF CaptureInv

-----------------------------------------------------------------------------
(* Ledger: what covers a payout, preserved *)

LEMMA PostsTyped ==
    ASSUME LedgerTypeOK, NEW kind \in EntryKinds
    PROVE  /\ IsFiniteSet(Posting(kind)) /\ Posting(kind) \subseteq Workers
           /\ Cardinality(Posting(kind)) \in Nat /\ Len(journal[kind]) \in Nat /\ Posts(kind) \in Nat
<1>1. Posting(kind) \subseteq Workers
  BY DEF Posting
<1>2. IsFiniteSet(Posting(kind)) /\ Cardinality(Posting(kind)) \in Nat
  BY <1>1, LedgerAssumption, FS_Subset, FS_CardinalityType
<1>3. Len(journal[kind]) \in Nat
  BY DEF LedgerTypeOK
<1> QED  BY <1>1, <1>2, <1>3 DEF Posts

\* A worker that is about to post, or no longer is.
LEMMA PostsPlus ==
    ASSUME LedgerTypeOK, NEW kind \in EntryKinds, NEW w \in Workers, w \notin Posting(kind),
           Posting(kind)' = Posting(kind) \cup {w}, Len(journal'[kind]) = Len(journal[kind])
    PROVE  Posts(kind)' = Posts(kind) + 1
<1>1. Cardinality(Posting(kind) \cup {w}) = Cardinality(Posting(kind)) + 1
  BY PostsTyped, FS_AddElement
<1>2. Posts(kind)' = Len(journal'[kind]) + Cardinality(Posting(kind)')
  BY DEF Posts
<1> QED  BY <1>1, <1>2, PostsTyped DEF Posts

LEMMA PostsMoved ==
    ASSUME LedgerTypeOK, NEW kind \in EntryKinds, NEW w \in Posting(kind),
           Posting(kind)' = Posting(kind) \ {w}, Len(journal'[kind]) = Len(journal[kind]) + 1
    PROVE  Posts(kind)' = Posts(kind)
<1>1. Cardinality(Posting(kind) \ {w}) = Cardinality(Posting(kind)) - 1
  BY PostsTyped, FS_RemoveElement
<1>2. Posts(kind)' = Len(journal'[kind]) + Cardinality(Posting(kind)')
  BY DEF Posts
<1> QED  BY <1>1, <1>2, PostsTyped DEF Posts

LEMMA PostsSame ==
    ASSUME NEW kind, Posting(kind)' = Posting(kind), Len(journal'[kind]) = Len(journal[kind])
    PROVE  Posts(kind)' = Posts(kind)
BY DEF Posts

LEMMA PayoutKinds ==
    ASSUME NEW k \in Payouts
    PROVE  /\ Issues(k) \in EntryKinds /\ Unwinds(k) \in EntryKinds
           /\ Issues(k) # Unwinds(k) /\ Issues(k) # NoTask /\ Unwinds(k) # NoTask
           /\ Issues(k)[1] = "payout_issuance" /\ Issues(k)[2] = k
           /\ Unwinds(k)[1] = "payout_failure_unwind" /\ Unwinds(k)[2] = k
BY DEF EntryKinds, Issues, Unwinds, NoTask

LEMMA CoverInit == LedgerInit => CoverInv
<1> SUFFICES ASSUME LedgerInit, NEW k \in Payouts PROVE CoverInv!(k)
  BY DEF CoverInv
<1>1. /\ Issues(k) \in EntryKinds /\ Unwinds(k) \in EntryKinds
  BY PayoutKinds
<1>2. ASSUME NEW kind \in EntryKinds PROVE Posts(kind) = 0 /\ DOMAIN journal[kind] = {}
  <2>1. Posting(kind) = {} /\ Len(journal[kind]) = 0 /\ DOMAIN journal[kind] = {}
    BY DEF LedgerInit, Posting
  <2> QED  BY <2>1, FS_EmptySet DEF Posts
<1>3. \A w \in Workers : doing[w] # "fail"
  BY DEF LedgerInit
<1>4. callbacks[k] = 0 /\ payoutStatus[k] # "succeeded"
  BY DEF LedgerInit
<1> QED  BY <1>1, <1>2, <1>3, <1>4

\* What a worker has to do with a payout.
Concerned(x, k) == doing[x] \in {"insert", "lines", "fail"} /\ task[x] \in {Issues(k), Unwinds(k)}

\* A step that has nothing to do with a payout, but may shorten what waits.
LEMMA CoverKept ==
    ASSUME LedgerTypeOK, LedgerTypeOK', CoverInv, NEW k \in Payouts \ astray, NEW w \in Workers,
           \A x \in Workers \ {w} : task'[x] = task[x] /\ doing'[x] = doing[x] /\ entry'[x] = entry[x],
           ~Concerned(w, k), ~Concerned(w, k)',
           journal'[Issues(k)] = journal[Issues(k)], journal'[Unwinds(k)] = journal[Unwinds(k)],
           callbacks'[k] <= callbacks[k],
           payoutStatus'[k] = "succeeded" => payoutStatus[k] = "succeeded"
    PROVE  CoverInv!(k)'
<1>1. /\ Posting(Issues(k))' = Posting(Issues(k))
      /\ Posting(Unwinds(k))' = Posting(Unwinds(k))
  BY DEF Posting, Concerned
<1>2. Posts(Issues(k))' = Posts(Issues(k)) /\ Posts(Unwinds(k))' = Posts(Unwinds(k))
  BY <1>1, PostsSame
<1>3. CoverInv!(k)
  BY DEF CoverInv
<1>4. /\ \A x \in Workers : doing'[x] = "fail" => task'[x] # Issues(k)
      /\ \A i : (\E x \in Workers : doing[x] = "lines" /\ task[x] = Issues(k) /\ entry[x] = i)
                => \E x \in Workers : doing'[x] = "lines" /\ task'[x] = Issues(k) /\ entry'[x] = i
  BY <1>3 DEF Concerned
<1>5. /\ Posts(Issues(k)) \in Nat /\ Posts(Unwinds(k)) \in Nat
      /\ callbacks[k] \in Nat /\ callbacks'[k] \in Nat
  BY PayoutKinds, PostsTyped DEF LedgerTypeOK
<1> DEFINE now == IF payoutStatus[k] = "succeeded" THEN 1 ELSE 0
           then == IF payoutStatus'[k] = "succeeded" THEN 1 ELSE 0
<1>6. callbacks'[k] + Posts(Unwinds(k))' + then <= Posts(Issues(k))'
  <2>1. then <= now /\ now \in Nat /\ then \in Nat
    OBVIOUS
  <2>2. callbacks[k] + Posts(Unwinds(k)) + now <= Posts(Issues(k))
    BY <1>3
  <2> HIDE DEF now, then
  <2> QED  BY <1>2, <1>5, <2>1, <2>2
<1>7. \A i \in DOMAIN journal'[Issues(k)] :
         journal'[Issues(k)][i] \/ \E x \in Workers : doing'[x] = "lines" /\ task'[x] = Issues(k) /\ entry'[x] = i
  BY <1>3, <1>4
<1> QED  BY <1>4, <1>6, <1>7

LEMMA AppendIndex ==
    ASSUME NEW s \in Seq(BOOLEAN), NEW t, t = Append(s, FALSE), NEW i \in DOMAIN t,
           ~(i \in DOMAIN s /\ s[i] = t[i])
    PROVE  i = Len(s) + 1
<1>1. /\ DOMAIN t = 1 .. Len(s) + 1 /\ DOMAIN s = 1 .. Len(s) /\ Len(s) \in Nat
      /\ \A j \in 1 .. Len(s) : t[j] = s[j]
  <2>1. Len(t) = Len(s) + 1 /\ t \in Seq(BOOLEAN) /\ \A j \in 1 .. Len(s) : t[j] = s[j]
    BY AppendProperties
  <2> QED  BY <2>1, LenProperties
<1>2. i \notin 1 .. Len(s)
  BY <1>1, Zenon
<1>3. i \in 1 .. Len(s) + 1 /\ Len(s) \in Nat
  BY <1>1, Zenon
<1> QED  BY <1>2, <1>3

LEMMA CoverWork ==
    ASSUME JournalInv, JournalInv', CoverInv, NEW w \in Workers, Work(w)
    PROVE  CoverInv'
<1> SUFFICES ASSUME NEW k \in Payouts \ astray' PROVE CoverInv!(k)'
  BY DEF CoverInv
<1> USE DEF ledgerRows, ledgerHistory
<1>0. /\ astray \subseteq astray' /\ k \in Payouts \ astray
      /\ \A x \in Workers \ {w} : task'[x] = task[x] /\ doing'[x] = doing[x] /\ entry'[x] = entry[x]
  <2>1. astray \subseteq astray'
    BY DEF Work, StartCapture, StartDispatch, ReportFailed, BeginRefund, MarkSucceeded, Claim, Accepted, Refused,
           Fail, RefundAnswered, ReadRefunded, SettleRefund, InsertEntry, InsertLines, ThrowIn, EvictWorker
  <2> QED  BY <2>1, OthersGoOn DEF JournalInv
<1>t. /\ doing \in [Workers -> {"idle", "succeed", "claim", "call", "fail", "refund", "insert",
                                     "lines", "total", "settle"}]
      /\ task \in [Workers -> EntryKinds \cup {NoTask}]
      /\ entry \in [Workers -> Nat]
      /\ payoutStatus \in
          [Payouts -> {"absent", "on_hold", "pending", "processing", "succeeded", "failed"}]
      /\ callbacks \in [Payouts -> Nat] /\ callbacks'[k] \in Nat /\ callbacks[k] \in Nat
      /\ journal \in [EntryKinds -> Seq(BOOLEAN)]
      /\ LedgerTypeOK /\ LedgerTypeOK' /\ TaskInv
      /\ NoTask[1] = "none"
  BY DEF JournalInv, LedgerTypeOK, NoTask
<1>i. /\ Issues(k) \in EntryKinds /\ Unwinds(k) \in EntryKinds
      /\ Issues(k) # Unwinds(k) /\ Issues(k) # NoTask /\ Unwinds(k) # NoTask
      /\ Issues(k)[1] = "payout_issuance" /\ Issues(k)[2] = k
      /\ Unwinds(k)[1] = "payout_failure_unwind" /\ Unwinds(k)[2] = k
  BY PayoutKinds
<1>p. /\ \A x \in Workers : doing[x] = "fail" => task[x] # Issues(k)
      /\ callbacks[k] + Posts(Unwinds(k)) + (IF payoutStatus[k] = "succeeded" THEN 1 ELSE 0)
            <= Posts(Issues(k))
      /\ \A i \in DOMAIN journal[Issues(k)] :
            journal[Issues(k)][i] \/ \E x \in Workers : /\ doing[x] = "lines"
                                                        /\ task[x] = Issues(k) /\ entry[x] = i
  BY <1>0 DEF CoverInv
<1>n. Posts(Unwinds(k)) \in Nat /\ Posts(Issues(k)) \in Nat
  BY <1>i, <1>t, PostsTyped
\* The steps that are about something else.
<1>k. ASSUME ~Concerned(w, k), ~Concerned(w, k)', journal' = journal,
             callbacks'[k] <= callbacks[k],
             payoutStatus'[k] = "succeeded" => payoutStatus[k] = "succeeded"
      PROVE  CoverInv!(k)'
  BY <1>0, <1>t, <1>k, CoverKept
<1>c. callbacks[k] <= callbacks[k]
  BY <1>t
<1>1. ASSUME NEW q \in Payments, StartCapture(w, q) PROVE CoverInv!(k)'
  <2>1. /\ doing[w] = "idle" /\ doing'[w] = "succeed"
        /\ journal' = journal /\ callbacks' = callbacks /\ payoutStatus' = payoutStatus
    BY <1>t, <1>1 DEF StartCapture, Start
  <2> QED  BY <1>c, <1>k, <2>1 DEF Concerned
<1>2. ASSUME NEW q \in Payouts, StartDispatch(w, q) PROVE CoverInv!(k)'
  <2>1. /\ doing[w] = "idle" /\ doing'[w] = "claim"
        /\ journal' = journal /\ callbacks' = callbacks /\ payoutStatus' = [payoutStatus EXCEPT ![q] = "pending"]
    BY <1>t, <1>2 DEF StartDispatch, Start
  <2> QED  BY <1>c, <1>k, <1>t, <2>1 DEF Concerned
<1>3. ASSUME NEW f \in Refunds, BeginRefund(w, f) PROVE CoverInv!(k)'
  <2>1. /\ doing[w] = "idle" /\ doing'[w] = "refund"
        /\ journal' = journal /\ callbacks' = callbacks /\ payoutStatus' = payoutStatus
    BY <1>t, <1>3 DEF BeginRefund, Start
  <2> QED  BY <1>c, <1>k, <2>1 DEF Concerned
<1>4. CASE MarkSucceeded(w)
  <2>1. /\ doing[w] = "succeed" /\ task'[w] = task[w]
        /\ journal' = journal /\ callbacks' = callbacks /\ payoutStatus' = payoutStatus
    BY <1>t, <1>4 DEF MarkSucceeded, Proceed
  <2>2. task[w][1] = "booking_payment"
    BY <1>t, <2>1 DEF TaskInv
  <2> QED  BY <1>c, <1>i, <1>k, <2>1, <2>2 DEF Concerned
<1>5. CASE Claim(w) \/ Refused(w)
  <2>1. /\ doing[w] \in {"claim", "call"} /\ task'[w] = task[w]
        /\ journal' = journal /\ callbacks' = callbacks
        /\ payoutStatus'[k] = "succeeded" => payoutStatus[k] = "succeeded"
        /\ doing'[w] = "call" \/ (doing'[w] = "fail" /\ task[w][2] \in astray')
    <3>1. CASE Claim(w)
      BY <1>t, <3>1 DEF Claim, Proceed
    <3>2. CASE Refused(w)
      BY <1>t, <3>2 DEF Refused, Proceed
    <3> QED  BY <1>5, <3>1, <3>2
  <2>2. ~Concerned(w, k) /\ ~Concerned(w, k)'
    <3>1. task[w] \in {"payout_issuance"} \X Payouts
      BY <1>t, <2>1 DEF TaskInv
    <3> QED  BY <1>i, <2>1, <3>1 DEF Concerned
  <2> QED  BY <1>c, <1>k, <2>1, <2>2
<1>6. CASE RefundAnswered(w) \/ ReadRefunded(w) \/ SettleRefund(w)
  <2>1. /\ doing[w] \in {"refund", "total", "settle"} /\ task'[w] \in {task[w], NoTask}
        /\ journal' = journal /\ callbacks' = callbacks /\ payoutStatus' = payoutStatus
    BY <1>t, <1>6 DEF RefundAnswered, ReadRefunded, SettleRefund, Proceed
  <2>2. task[w][1] = "refund_issuance"
    BY <1>t, <2>1 DEF TaskInv
  <2> QED  BY <1>c, <1>i, <1>k, <1>t, <2>1, <2>2 DEF Concerned
<1>7. CASE Fail(w)
  <2>1. /\ doing[w] = "fail" /\ task' = [task EXCEPT ![w] = <<"payout_failure_unwind", task[w][2]>>]
        /\ doing'[w] = "insert" /\ journal' = journal /\ callbacks' = callbacks
        /\ payoutStatus' = [payoutStatus EXCEPT ![task[w][2]] = "failed"]
    BY <1>t, <1>7 DEF Fail
  <2>2. PICK q \in Payouts : task[w] = Issues(q)
    BY <1>t, <2>1 DEF TaskInv, Issues
  <2>3. task[w] # Issues(k) /\ q # k /\ task[w] # Unwinds(k) /\ task[w][2] = q
    <3>1. task[w][1] = "payout_issuance" /\ task[w][2] = q
      BY <2>2 DEF Issues
    <3>2. task[w] # Issues(k)
      BY <1>p, <2>1
    <3> QED  BY <1>i, <2>2, <3>1, <3>2
  <2>4. task'[w][2] = q /\ payoutStatus'[k] = payoutStatus[k]
    BY <1>t, <2>1, <2>3
  <2> QED  BY <1>c, <1>i, <1>k, <2>1, <2>3, <2>4 DEF Concerned
<1>8. ASSUME NEW q \in Payouts, ReportFailed(w, q) PROVE CoverInv!(k)'
  <2>1. /\ doing[w] = "idle" /\ doing'[w] = "insert" /\ task'[w] = Unwinds(q)
        /\ journal' = journal /\ callbacks' = [callbacks EXCEPT ![q] = callbacks[q] - 1]
        /\ payoutStatus' = [payoutStatus EXCEPT ![q] = "failed"] /\ callbacks[q] > 0 /\ entry' = entry
    BY <1>t, <1>8 DEF ReportFailed, Start, Unwinds
  <2>2. CASE q # k
    <3>1. callbacks'[k] = callbacks[k] /\ payoutStatus'[k] = payoutStatus[k]
      BY <1>t, <2>1, <2>2
    <3>2. task'[w][2] = q
      BY <2>1 DEF Unwinds
    <3> QED  BY <1>c, <1>i, <1>k, <2>1, <2>2, <3>1, <3>2 DEF Concerned
  <2>3. CASE q = k
    <3>1. callbacks'[k] = callbacks[k] - 1 /\ payoutStatus'[k] = "failed"
      BY <1>t, <2>1, <2>3
    <3>2. Posting(Issues(k))' = Posting(Issues(k))
      BY <1>0, <1>i, <2>1, <2>3 DEF Posting
    <3>3. Posting(Unwinds(k))' = Posting(Unwinds(k)) \cup {w} /\ w \notin Posting(Unwinds(k))
      BY <1>0, <1>i, <2>1, <2>3 DEF Posting
    <3>4. Posts(Issues(k))' = Posts(Issues(k)) /\ Posts(Unwinds(k))' = Posts(Unwinds(k)) + 1
      <4>1. journal'[Issues(k)] = journal[Issues(k)] /\ journal'[Unwinds(k)] = journal[Unwinds(k)]
        BY <2>1
      <4> QED  BY <1>i, <1>t, <3>2, <3>3, <4>1, PostsSame, PostsPlus
    <3>5. callbacks'[k] + Posts(Unwinds(k))' + 0 <= Posts(Issues(k))'
      BY <1>n, <1>p, <1>t, <3>1, <3>4
    <3>6. \A x \in Workers : doing'[x] = "fail" => task'[x] # Issues(k)
      BY <1>0, <1>p, <2>1
    <3>7. \A i \in DOMAIN journal'[Issues(k)] :
            journal'[Issues(k)][i] \/ \E x \in Workers : /\ doing'[x] = "lines"
                                                        /\ task'[x] = Issues(k) /\ entry'[x] = i
      <4>1. \A x \in Workers : doing[x] = "lines" => x # w
        BY <2>1
      <4> QED  BY <1>0, <1>p, <2>1, <4>1
    <3> QED  BY <3>1, <3>5, <3>6, <3>7
  <2> QED  BY <2>2, <2>3
<1>9. CASE Accepted(w)
  <2>1. /\ doing[w] = "call" /\ doing'[w] = "insert" /\ task' = task
        /\ journal' = journal /\ callbacks' = [callbacks EXCEPT ![task[w][2]] = callbacks[task[w][2]] + 1]
        /\ payoutStatus' = [payoutStatus EXCEPT ![task[w][2]] = "processing"] /\ entry' = entry
    BY <1>t, <1>9 DEF Accepted, Proceed
  <2>2. PICK q \in Payouts : task[w] = Issues(q)
    BY <1>t, <2>1 DEF TaskInv, Issues
  <2>3. task[w][2] = q
    BY <2>2 DEF Issues
  <2>4. CASE q # k
    <3>1. callbacks'[k] = callbacks[k] /\ payoutStatus'[k] = payoutStatus[k]
      BY <1>t, <2>1, <2>3, <2>4
    <3> QED  BY <1>c, <1>i, <1>k, <2>1, <2>3, <2>4, <3>1 DEF Concerned
  <2>5. CASE q = k
    <3>1. callbacks'[k] = callbacks[k] + 1 /\ payoutStatus'[k] = "processing"
      BY <1>t, <2>1, <2>3, <2>5
    <3>2. Posting(Issues(k))' = Posting(Issues(k)) \cup {w} /\ w \notin Posting(Issues(k))
      BY <1>0, <2>1, <2>2, <2>5 DEF Posting
    <3>3. Posting(Unwinds(k))' = Posting(Unwinds(k))
      BY <1>0, <1>i, <2>1, <2>2, <2>5 DEF Posting
    <3>4. Posts(Issues(k))' = Posts(Issues(k)) + 1 /\ Posts(Unwinds(k))' = Posts(Unwinds(k))
      <4>1. journal'[Issues(k)] = journal[Issues(k)] /\ journal'[Unwinds(k)] = journal[Unwinds(k)]
        BY <2>1
      <4> QED  BY <1>i, <1>t, <3>2, <3>3, <4>1, PostsSame, PostsPlus
    <3>5. callbacks'[k] + Posts(Unwinds(k))' + 0 <= Posts(Issues(k))'
      BY <1>n, <1>p, <1>t, <3>1, <3>4
    <3>6. \A x \in Workers : doing'[x] = "fail" => task'[x] # Issues(k)
      BY <1>0, <1>p, <2>1
    <3>7. \A i \in DOMAIN journal'[Issues(k)] :
            journal'[Issues(k)][i] \/ \E x \in Workers : /\ doing'[x] = "lines"
                                                        /\ task'[x] = Issues(k) /\ entry'[x] = i
      <4>1. \A x \in Workers : doing[x] = "lines" => x # w
        BY <2>1
      <4> QED  BY <1>0, <1>p, <2>1, <4>1
    <3> QED  BY <3>1, <3>5, <3>6, <3>7
  <2> QED  BY <2>4, <2>5
<1>10. CASE InsertEntry(w)
  <2>1. /\ doing[w] = "insert" /\ doing'[w] = "lines" /\ task' = task
        /\ callbacks' = callbacks /\ payoutStatus' = payoutStatus
        /\ journal' = [journal EXCEPT ![task[w]] = Append(@, FALSE)]
        /\ entry'[w] = Len(journal[task[w]]) + 1 /\ task[w] \in EntryKinds
    BY <1>t, <1>10 DEF InsertEntry, Proceed, TaskInv
  <2>2. ASSUME NEW kind \in EntryKinds PROVE Posts(kind)' = Posts(kind)
    <3>0. journal[kind] \in Seq(BOOLEAN)
      BY <1>t
    <3>1. CASE kind # task[w]
      <4>1. journal'[kind] = journal[kind] /\ Posting(kind)' = Posting(kind)
        BY <1>0, <1>t, <2>1, <3>1 DEF Posting
      <4> QED  BY <4>1, PostsSame
    <3>2. CASE kind = task[w]
      <4>1. Len(journal'[kind]) = Len(journal[kind]) + 1
        BY <1>t, <2>1, <3>0, <3>2
      <4>2. w \in Posting(kind) /\ Posting(kind)' = Posting(kind) \ {w}
        BY <1>0, <2>1, <3>2 DEF Posting
      <4> QED  BY <1>t, <4>1, <4>2, PostsMoved
    <3> QED  BY <3>1, <3>2
  <2>3. callbacks'[k] + Posts(Unwinds(k))' + (IF payoutStatus'[k] = "succeeded" THEN 1 ELSE 0)
            <= Posts(Issues(k))'
    BY <1>i, <1>p, <2>1, <2>2
  <2>4. \A x \in Workers : doing'[x] = "fail" => task'[x] # Issues(k)
    BY <1>0, <1>p, <2>1
  <2>5. \A i \in DOMAIN journal'[Issues(k)] :
            journal'[Issues(k)][i] \/ \E x \in Workers : /\ doing'[x] = "lines"
                                                        /\ task'[x] = Issues(k) /\ entry'[x] = i
    <3> SUFFICES ASSUME NEW i \in DOMAIN journal'[Issues(k)], ~journal'[Issues(k)][i]
                 PROVE  \E x \in Workers : doing'[x] = "lines" /\ task'[x] = Issues(k) /\ entry'[x] = i
      OBVIOUS
    <3> DEFINE s == journal[Issues(k)]
    <3>0. s \in Seq(BOOLEAN)
      BY <1>i, <1>t
    <3>1. CASE i \in DOMAIN s /\ s[i] = journal'[Issues(k)][i]
      <4>1. PICK x \in Workers : doing[x] = "lines" /\ task[x] = Issues(k) /\ entry[x] = i
        BY <1>p, <3>1
      <4> QED  BY <1>0, <2>1, <4>1
    <3>2. CASE ~(i \in DOMAIN s /\ s[i] = journal'[Issues(k)][i])
      <4>1. task[w] = Issues(k)
        BY <1>i, <1>t, <2>1, <3>2
      <4>2. journal'[Issues(k)] = Append(s, FALSE)
        BY <1>i, <1>t, <2>1, <4>1
      <4> HIDE DEF s
      <4>3. i = Len(s) + 1
        BY <3>0, <3>2, <4>2, AppendIndex
      <4> QED  BY <2>1, <4>1, <4>3 DEF s
    <3> QED  BY <3>1, <3>2
  <2> QED  BY <2>3, <2>4, <2>5
<1>11. CASE InsertLines(w)
  <2>1. /\ doing[w] = "lines" /\ doing'[w] \in {"idle", "total"} /\ task'[w] \in {task[w], NoTask}
        /\ callbacks' = callbacks /\ payoutStatus' = payoutStatus
        /\ journal' = [journal EXCEPT ![task[w]] = [@ EXCEPT ![entry[w]] = TRUE]]
        /\ task[w] \in EntryKinds /\ entry[w] \in DOMAIN journal[task[w]]
    BY <1>t, <1>11 DEF InsertLines, Proceed, TaskInv
  <2>2. ASSUME NEW kind \in EntryKinds PROVE Posts(kind)' = Posts(kind)
    <3>1. Len(journal'[kind]) = Len(journal[kind])
      BY <1>t, <2>1, MarkedTyped
    <3>2. Posting(kind)' = Posting(kind)
      BY <1>0, <2>1 DEF Posting
    <3> QED  BY <3>1, <3>2, PostsSame
  <2>3. callbacks'[k] + Posts(Unwinds(k))' + (IF payoutStatus'[k] = "succeeded" THEN 1 ELSE 0)
            <= Posts(Issues(k))'
    BY <1>i, <1>p, <2>1, <2>2
  <2>4. \A x \in Workers : doing'[x] = "fail" => task'[x] # Issues(k)
    BY <1>0, <1>p, <2>1
  <2>5. \A i \in DOMAIN journal'[Issues(k)] :
            journal'[Issues(k)][i] \/ \E x \in Workers : /\ doing'[x] = "lines"
                                                        /\ task'[x] = Issues(k) /\ entry'[x] = i
    <3> SUFFICES ASSUME NEW i \in DOMAIN journal'[Issues(k)], ~journal'[Issues(k)][i]
                 PROVE  \E x \in Workers : doing'[x] = "lines" /\ task'[x] = Issues(k) /\ entry'[x] = i
      OBVIOUS
    <3> DEFINE s == journal[Issues(k)]
    <3>0. s \in Seq(BOOLEAN)
      BY <1>i, <1>t
    <3>1. /\ i \in DOMAIN s /\ ~s[i]
          /\ task[w] = Issues(k) => i # entry[w]
      <4>1. journal'[Issues(k)] = IF task[w] = Issues(k) THEN [s EXCEPT ![entry[w]] = TRUE] ELSE s
        BY <1>i, <1>t, <2>1
      <4> HIDE DEF s
      <4> QED  BY <3>0, <4>1
    <3>2. PICK x \in Workers : doing[x] = "lines" /\ task[x] = Issues(k) /\ entry[x] = i
      BY <1>p, <3>1
    <3>3. x # w
      BY <3>1, <3>2
    <3> QED  BY <1>0, <3>2, <3>3
  <2> QED  BY <2>3, <2>4, <2>5
<1>12. CASE ThrowIn(w)
  <2>1. /\ journal' = journal /\ callbacks' = callbacks /\ payoutStatus' = payoutStatus
        /\ \/ task[w][1] = "payout_issuance" /\ task[w][2] \in astray' /\ task'[w] = task[w]
           \/ task[w][1] = "refund_issuance" /\ task'[w] = NoTask
    BY <1>t, <1>12 DEF ThrowIn, Proceed
  <2> QED  BY <1>c, <1>i, <1>k, <1>t, <2>1 DEF Concerned
<1>13. CASE EvictWorker(w)
  <2>1. /\ journal' = journal /\ callbacks' = callbacks /\ payoutStatus' = payoutStatus
        /\ task[w][2] \in Payouts => task[w][2] \in astray'
        /\ task'[w] = NoTask
    BY <1>t, <1>13 DEF EvictWorker, Proceed
  <2> QED  BY <1>c, <1>i, <1>k, <1>t, <2>1 DEF Concerned
<1> QED  BY <1>1, <1>2, <1>3, <1>4, <1>5, <1>6, <1>7, <1>8, <1>9, <1>10, <1>11, <1>12, <1>13, Zenon DEF Work

LEMMA CoverRest ==
    ASSUME JournalInv, JournalInv', CoverInv,
           \/ \E p \in Payments : LatePending(p)
           \/ \E k \in Payouts : CreatePayout(k) \/ Report(k)
           \/ \E of \in Wallets : StartWallet(of)
           \/ WalletStep
    PROVE  CoverInv'
<1>1. /\ UNCHANGED <<journal, doing, task, entry, astray>>
      /\ \/ UNCHANGED <<callbacks, payoutStatus>>
         \/ \E q \in Payouts : /\ UNCHANGED callbacks /\ payoutStatus[q] = "absent"
                               /\ \E s \in {"pending", "on_hold"} : payoutStatus' = [payoutStatus EXCEPT ![q] = s]
         \/ \E q \in Payouts : /\ callbacks[q] > 0 /\ callbacks' = [callbacks EXCEPT ![q] = @ - 1]
                               /\ \E s \in {"succeeded", "processing"} :
                                     payoutStatus' = [payoutStatus EXCEPT ![q] = s]
  BY DEF LatePending, CreatePayout, Report, StartWallet, WalletStep, FindIds, FindEntries, SumLines, SumHeld,
         Query, ledgerRows, workVars, ledgerHistory
<1> SUFFICES ASSUME NEW k \in Payouts \ astray PROVE CoverInv!(k)'
  BY <1>1 DEF CoverInv
<1> DEFINE now == callbacks[k] + (IF payoutStatus[k] = "succeeded" THEN 1 ELSE 0)
           then == callbacks'[k] + (IF payoutStatus'[k] = "succeeded" THEN 1 ELSE 0)
<1>2. then <= now /\ now \in Nat /\ then \in Nat
  <2>1. /\ callbacks \in [Payouts -> Nat] /\ callbacks' \in [Payouts -> Nat]
        /\ payoutStatus \in
              [Payouts -> {"absent", "on_hold", "pending", "processing", "succeeded", "failed"}]
    BY DEF JournalInv, LedgerTypeOK
  <2>2. CASE UNCHANGED <<callbacks, payoutStatus>>
    BY <2>1, <2>2
  <2>3. ASSUME NEW q \in Payouts, UNCHANGED callbacks, NEW s \in {"pending", "on_hold"},
               payoutStatus' = [payoutStatus EXCEPT ![q] = s]
        PROVE  then <= now /\ now \in Nat /\ then \in Nat
    BY <2>1, <2>3
  <2>4. ASSUME NEW q \in Payouts, callbacks[q] > 0, callbacks' = [callbacks EXCEPT ![q] = @ - 1],
               NEW s \in {"succeeded", "processing"}, payoutStatus' = [payoutStatus EXCEPT ![q] = s]
        PROVE  then <= now /\ now \in Nat /\ then \in Nat
    <3>1. CASE q # k
      BY <2>1, <2>4, <3>1
    <3>2. CASE q = k
      BY <2>1, <2>4, <3>2
    <3> QED  BY <3>1, <3>2
  <2> QED  BY <1>1, <2>2, <2>3, <2>4
<1>3. /\ Posts(Issues(k))' = Posts(Issues(k)) /\ Posts(Unwinds(k))' = Posts(Unwinds(k))
      /\ Posts(Issues(k)) \in Nat /\ Posts(Unwinds(k)) \in Nat
  <2>1. /\ Posting(Issues(k))' = Posting(Issues(k)) /\ Posting(Unwinds(k))' = Posting(Unwinds(k))
        /\ journal' = journal
    BY <1>1 DEF Posting
  <2> QED  BY <2>1, PayoutKinds, PostsTyped DEF Posts, JournalInv
<1>4. CoverInv!(k)
  BY DEF CoverInv
<1>5. now + Posts(Unwinds(k)) <= Posts(Issues(k))
  <2>1. callbacks[k] \in Nat
    BY DEF JournalInv, LedgerTypeOK
  <2> QED  BY <1>3, <1>4, <2>1
<1>6. then + Posts(Unwinds(k))' <= Posts(Issues(k))'
  <2> HIDE DEF now, then
  <2> QED  BY <1>2, <1>3, <1>5
<1>7. callbacks'[k] + Posts(Unwinds(k))' + (IF payoutStatus'[k] = "succeeded" THEN 1 ELSE 0)
            <= Posts(Issues(k))'
  <2>1. callbacks'[k] \in Nat /\ Posts(Unwinds(k))' \in Nat
    BY <1>3 DEF JournalInv, LedgerTypeOK
  <2> QED  BY <1>6, <2>1
<1> QED  BY <1>1, <1>4, <1>7

-----------------------------------------------------------------------------
(* Ledger: what a calculation has found, preserved *)

\* What the balance and the free amount depend on.
CreditsIn(j, es, account) == SumFunction([e \in {x \in es : j[x[1]][x[2]]} |-> Credit(e[1], account)])
DebitsIn(j, es, account) == SumFunction([e \in {x \in es : j[x[1]][x[2]]} |-> Debit(e[1], account)])
FoundIn(f, v, type) == {e \in f : e[1][1] = type /\ Currency[e[1][2]] = v[2]}
BalanceOf(j, f, v) ==
    CreditsIn(j, FoundIn(f, v, "booking_payment"), "2000") - DebitsIn(j, FoundIn(f, v, "payout_issuance"), "2000")
      - DebitsIn(j, FoundIn(f, v, "refund_issuance"), "2000")
      + CreditsIn(j, FoundIn(f, v, "payout_failure_unwind"), "2000")
HeldOf(s, v, c, statuses) ==
    SumFunctionOnSet(AmountOf, {k \in Payouts : Owner[k] = v /\ Currency[k] = c /\ s[k] \in statuses})
FreeOf(b, s, v) == b - HeldOf(s, v[1], v[2], {"processing"}) - HeldOf(s, v[1], v[2], {"on_hold"})

LEMMA BalanceDepends ==
    Balance = BalanceOf(journal, found, whose) /\ Balance' = BalanceOf(journal', found', whose')
<1>1. Balance = BalanceOf(journal, found, whose)
  BY Zenon DEF Balance, BalanceOf, Credits, Debits, Lined, Found, CreditsIn, DebitsIn, FoundIn
<1>2. Balance' = BalanceOf(journal', found', whose')
  BY Zenon DEF Balance, BalanceOf, Credits, Debits, Lined, Found, CreditsIn, DebitsIn, FoundIn
<1> QED  BY <1>1, <1>2

LEMMA FreeDepends ==
    Free = FreeOf(balance, payoutStatus, whose) /\ Free' = FreeOf(balance', payoutStatus', whose')
<1>1. Free = FreeOf(balance, payoutStatus, whose)
  BY Zenon DEF Free, FreeOf, Held, HeldOf
<1>2. Free' = FreeOf(balance', payoutStatus', whose')
  BY Zenon DEF Free, FreeOf, Held, HeldOf
<1> QED  BY <1>1, <1>2

LEMMA WalletInit == LedgerInit => WalletInv
BY DEF LedgerInit, WalletInv

\* Entries stay.
LEMMA EntriesStay ==
    ASSUME JournalInv, JournalInv',
           \/ \E w \in Workers : Work(w)
           \/ journal' = journal
    PROVE  Entries(EntryKinds) \subseteq Entries(EntryKinds)'
<1> SUFFICES ASSUME NEW kind \in EntryKinds PROVE DOMAIN journal[kind] \subseteq DOMAIN journal'[kind]
  BY DEF Entries
<1> USE DEF JournalInv
<1>0. /\ journal[kind] \in Seq(BOOLEAN) /\ journal \in [EntryKinds -> Seq(BOOLEAN)]
      /\ journal'[kind] \in Seq(BOOLEAN)
  BY DEF LedgerTypeOK
<1>1. ASSUME NEW w \in Workers, InsertEntry(w) PROVE DOMAIN journal[kind] \subseteq DOMAIN journal'[kind]
  <2>1. journal'[kind] \in {journal[kind], Append(journal[kind], FALSE)}
    BY <1>0, <1>1 DEF InsertEntry
  <2>2. Len(Append(journal[kind], FALSE)) = Len(journal[kind]) + 1
    BY <1>0
  <2>3. Len(journal[kind]) \in Nat /\ Len(journal'[kind]) \in {Len(journal[kind]), Len(journal[kind]) + 1}
    <3>1. Len(journal[kind]) \in Nat
      BY <1>0, LenProperties
    <3> QED  BY <2>1, <2>2, <3>1, Zenon
  <2>4. DOMAIN journal[kind] = 1 .. Len(journal[kind]) /\ DOMAIN journal'[kind] = 1 .. Len(journal'[kind])
    BY <1>0
  <2> QED  BY <2>3, <2>4
<1>2. ASSUME NEW w \in Workers, InsertLines(w) PROVE DOMAIN journal[kind] \subseteq DOMAIN journal'[kind]
  <2>1. journal' = [journal EXCEPT ![task[w]] = [@ EXCEPT ![entry[w]] = TRUE]]
    BY <1>2 DEF InsertLines
  <2> QED  BY <1>0, <2>1
<1>3. CASE journal' = journal
  BY <1>3
<1> QED  BY <1>1, <1>2, <1>3 DEF Work, StartCapture, StartDispatch, ReportFailed, BeginRefund, MarkSucceeded, Claim,
               Accepted, Refused, Fail, RefundAnswered, ReadRefunded, SettleRefund, ThrowIn, EvictWorker, ledgerRows

LEMMA WalletMoved ==
    ASSUME JournalInv, JournalInv', WalletInv, Moves,
           \/ \E w \in Workers : Work(w)
           \/ \E p \in Payments : LatePending(p)
           \/ \E k \in Payouts : CreatePayout(k) \/ Report(k)
    PROVE  WalletInv'
<1>1. \/ \E w \in Workers : Work(w)
      \/ journal' = journal
  BY DEF LatePending, CreatePayout, Report
<1>2. Entries(EntryKinds) \subseteq Entries(EntryKinds)'
  BY <1>1, EntriesStay
<1>3. found' \subseteq Entries(EntryKinds)'
  BY <1>2 DEF WalletInv, Moves, walletVars
<1>4. /\ query' = query /\ ids' = ids /\ found' = found /\ whose' = whose
      /\ overtaken' \/ query = "idle"
  BY DEF Moves, walletVars
<1>5. CASE overtaken'
  BY <1>3, <1>4, <1>5 DEF WalletInv
<1>6. CASE query = "idle"
  BY <1>3, <1>4, <1>6 DEF WalletInv
<1> QED  BY <1>4, <1>5, <1>6

LEMMA EntriesUnion ==
    ASSUME NEW A, NEW B
    PROVE  Entries(A \cup B) = Entries(A) \cup Entries(B)
BY DEF Entries

\* The parts of the invariant that hold after each query.
LEMMA WalletSteps ==
    ASSUME JournalInv, WalletInv, (\E of \in Wallets : StartWallet(of)) \/ WalletStep
    PROVE  WalletInv'
<1>1. /\ UNCHANGED <<paymentStatus, payoutStatus, refundStatus, journal>>
      /\ \/ UNCHANGED <<whose, overtaken>> /\ query # "idle"
         \/ \E of \in Wallets : StartWallet(of)
  BY DEF StartWallet, WalletStep, FindIds, FindEntries, SumLines, SumHeld, Query, ledgerRows
<1>2. /\ Settling' = Settling /\ PayoutRows' = PayoutRows /\ RefundRows' = RefundRows
      /\ \A kinds : Entries(kinds)' = Entries(kinds)
      /\ \A rows : whose' = whose => Mine(rows)' = Mine(rows)
  BY <1>1 DEF Settling, PayoutRows, RefundRows, Entries, Mine
<1>3. ASSUME NEW of \in Wallets, StartWallet(of) PROVE WalletInv'
  <2>1. /\ query' = "payments" /\ query = "idle" /\ ids' = ids /\ found' = found /\ whose' = of
    BY <1>3 DEF StartWallet
  <2> QED  BY <1>2, <2>1 DEF WalletInv
<1>4. CASE FindIds("payments", "payouts", {p \in Payments : paymentStatus[p] = "succeeded"})
  <2>1. /\ query = "payments" /\ query' = "payouts" /\ found' = found /\ overtaken' = overtaken /\ whose' = whose
        /\ ids' = ids \cup Mine(Settling)
    BY <1>4 DEF FindIds, Query, Mine, Settling
  <2>2. ids' = Mine(Settling)'
    BY <1>2, <2>1 DEF WalletInv
  <2> QED  BY <1>2, <2>1, <2>2 DEF WalletInv
<1>5. CASE FindIds("payouts", "refunds", PayoutRows)
  <2>1. /\ query = "payouts" /\ query' = "refunds" /\ found' = found /\ overtaken' = overtaken /\ whose' = whose
        /\ ids' = ids \cup Mine(PayoutRows)
    BY <1>5 DEF FindIds, Query, Mine
  <2>2. Mine(Settling \cup PayoutRows) = Mine(Settling) \cup Mine(PayoutRows)
    BY DEF Mine
  <2>3. ~overtaken => ids' = Mine(Settling \cup PayoutRows)'
    BY <1>2, <2>1, <2>2 DEF WalletInv
  <2> QED  BY <1>2, <2>1, <2>3 DEF WalletInv
<1>6. CASE FindIds("refunds", "booking_payment", {f \in Refunds : refundStatus[f] # "absent"})
  <2>1. /\ query = "refunds" /\ query' = "booking_payment" /\ found' = found /\ overtaken' = overtaken
        /\ whose' = whose /\ ids' = ids \cup Mine(RefundRows)
    BY <1>6 DEF FindIds, Query, Mine, RefundRows
  <2>2. Mine(Settling \cup PayoutRows \cup RefundRows) = Mine(Settling \cup PayoutRows) \cup Mine(RefundRows)
    BY DEF Mine
  <2>3. ~overtaken => ids' = Mine(Settling \cup PayoutRows \cup RefundRows)'
    BY <1>2, <2>1, <2>2 DEF WalletInv
  <2> QED  BY <1>2, <2>1, <2>3 DEF WalletInv
<1>7. ASSUME NEW before \in SUBSET Types, NEW after \in SUBSET Types, NEW type \in Types, NEW to,
             FindEntries(type, to), after = before \cup {type},
             <<type, to, after>> \in {<<"booking_payment", "payout_issuance", {"booking_payment"}>>,
                               <<"payout_issuance", "payout_failure_unwind", {"booking_payment", "payout_issuance"}>>,
                               <<"payout_failure_unwind", "refund_issuance", Types \ {"refund_issuance"}>>,
                               <<"refund_issuance", "sums", Types>>},
             ~overtaken => found = About(before)
      PROVE  WalletInv'
  <2>1. /\ query = type /\ query' = to /\ ids' = ids /\ overtaken' = overtaken /\ whose' = whose
        /\ found' = found \cup About({type})
    BY <1>7 DEF FindEntries, Query, About
  <2>2. About(before) \cup About({type}) = About(after)
    <3> DEFINE A == {k \in EntryKinds : k[1] \in before /\ k[2] \in ids}
               B == {k \in EntryKinds : k[1] \in {type} /\ k[2] \in ids}
    <3>1. A \cup B = {k \in EntryKinds : k[1] \in after /\ k[2] \in ids}
      BY <1>7
    <3> QED  BY <3>1, EntriesUnion DEF About
  <2>3. About(after)' = About(after) /\ About({type}) \subseteq Entries(EntryKinds)
    <3>1. About({type}) \subseteq Entries(EntryKinds)
      BY DEF About, Entries
    <3> QED  BY <1>2, <2>1, <3>1 DEF About
  <2>4. ~overtaken' => found' = About(after)'
    BY <1>7, <2>1, <2>2, <2>3
  <2>5. found' \subseteq Entries(EntryKinds)'
    BY <1>2, <2>1, <2>3 DEF WalletInv
  <2>6. ~overtaken' => ids' = Mine(Settling \cup PayoutRows \cup RefundRows)'
    BY <1>2, <1>7, <2>1 DEF WalletInv, Types
  <2> HIDE DEF About, Types
  <2> QED  BY <1>1, <1>7, <2>1, <2>4, <2>5, <2>6 DEF WalletInv, Types
<1>8. CASE FindEntries("booking_payment", "payout_issuance")
  <2>1. query = "booking_payment" /\ found = {}
    BY <1>8 DEF FindEntries, Query, WalletInv
  <2>2. About({}) = {}
    BY DEF About, Entries
  <2>3. {"booking_payment"} = {} \cup {"booking_payment"} /\ {"booking_payment"} \in SUBSET Types
        /\ {} \in SUBSET Types
    BY DEF Types
  <2> QED  BY <1>7, <1>8, <2>1, <2>2, <2>3
<1>9. CASE FindEntries("payout_issuance", "payout_failure_unwind")
  <2>1. ~overtaken => found = About({"booking_payment"})
    BY <1>9 DEF FindEntries, Query, WalletInv
  <2> QED  BY <1>7, <1>9, <2>1 DEF Types
<1>10. CASE FindEntries("payout_failure_unwind", "refund_issuance")
  <2>1. ~overtaken => found = About({"booking_payment", "payout_issuance"})
    BY <1>10 DEF FindEntries, Query, WalletInv
  <2> QED  BY <1>7, <1>10, <2>1 DEF Types
<1>11. CASE FindEntries("refund_issuance", "sums")
  <2>1. ~overtaken => found = About(Types \ {"refund_issuance"})
    BY <1>11 DEF FindEntries, Query, WalletInv
  <2> QED  BY <1>7, <1>11, <2>1 DEF Types
<1>12. CASE SumLines \/ SumHeld
  <2>1. /\ query \in {"sums", "held"} /\ ids' = ids /\ found' = found /\ whose' = whose /\ overtaken' = overtaken
        /\ query = "sums" => query' = "held" /\ balance' = Balance
        /\ query = "held" => /\ query' = "done" /\ balance' = balance
                             /\ withdrawable' = IF Free > 0 THEN Free ELSE 0
    BY <1>12, Zenon DEF SumLines, SumHeld, Query, Balance
  <2>2. Balance' = Balance
    BY <1>1, <2>1, BalanceDepends
  <2>3. query = "held" => Free' = Free
    BY <1>1, <2>1, FreeDepends
  <2>4. About(Types)' = About(Types)
    BY <1>2, <2>1 DEF About
  <2> HIDE DEF About
  <2> QED  BY <1>1, <1>2, <2>1, <2>2, <2>3, <2>4 DEF WalletInv
<1> QED  BY <1>3, <1>4, <1>5, <1>6, <1>8, <1>9, <1>10, <1>11, <1>12, Zenon DEF WalletStep

-----------------------------------------------------------------------------
(* Ledger: the invariant *)

LEMMA LedgerIInvInit == LedgerInit => LedgerIInv
BY BaseInit, CaptureInit, WalletInit, CoverInit, Zenon DEF LedgerIInv, JournalInv

LEMMA LedgerIInvStep == LedgerIInv /\ [LedgerNext]_ledgerVars => LedgerIInv'
<1> SUFFICES ASSUME LedgerIInv, [LedgerNext]_ledgerVars PROVE LedgerIInv'
  OBVIOUS
<1>0. JournalInv /\ CaptureInv /\ WalletInv /\ CoverInv /\ found \subseteq Entries(EntryKinds)
  BY DEF LedgerIInv, JournalInv, WalletInv
<1>1. CASE (\E w \in Workers : Work(w)) /\ Moves
  <2> PICK w \in Workers : Work(w)
    BY <1>1
  <2>1. LedgerTypeOK'
    BY <1>0, <1>1, TypedWork
  <2>2. TaskInv'
    BY <1>0, <2>1, TaskWork
  <2>3. RowsInv'
    BY <1>0, <2>1, <2>2, RowsWork
  <2>4. JournalInv'
    BY <2>1, <2>2, <2>3, Zenon DEF JournalInv
  <2>5. CaptureInv' /\ CoverInv'
    BY <1>0, <2>4, CaptureWork, CoverWork
  <2>6. WalletInv'
    BY <1>0, <1>1, <2>4, WalletMoved
  <2> QED  BY <2>1, <2>2, <2>3, <2>5, <2>6, Zenon DEF LedgerIInv
<1>2. CASE /\ \/ \E p \in Payments : LatePending(p)
              \/ \E k \in Payouts : CreatePayout(k) \/ Report(k)
           /\ Moves
  <2>1. LedgerTypeOK'
    BY <1>0, <1>2, TypedRest
  <2>2. TaskInv' /\ RowsInv'
    BY <1>0, <1>2, RestBase
  <2>3. JournalInv'
    BY <2>1, <2>2, Zenon DEF JournalInv
  <2>4. CaptureInv' /\ CoverInv' /\ WalletInv'
    BY <1>0, <1>2, <2>3, CaptureRest, CoverRest, WalletMoved
  <2> QED  BY <2>1, <2>2, <2>4, Zenon DEF LedgerIInv
<1>3. CASE (\E of \in Wallets : StartWallet(of)) \/ WalletStep
  <2>1. LedgerTypeOK'
    BY <1>0, <1>3, TypedWallet
  <2>2. TaskInv' /\ RowsInv'
    BY <1>0, <1>3, RestBase
  <2>3. JournalInv'
    BY <2>1, <2>2, Zenon DEF JournalInv
  <2>4. CaptureInv' /\ CoverInv' /\ WalletInv'
    BY <1>0, <1>3, <2>3, CaptureRest, CoverRest, WalletSteps
  <2> QED  BY <2>1, <2>2, <2>4, Zenon DEF LedgerIInv
<1>4. CASE UNCHANGED ledgerVars
  <2>1. UNCHANGED <<paymentStatus, payoutStatus, refundStatus, callbacks, journal, doing, task, entry, inFull, query,
                    whose, ids, found, balance, withdrawable, overtaken, again, astray, tasks, losses>>
    BY <1>4 DEF ledgerVars, ledgerRows, workVars, walletVars, ledgerHistory
  <2>2. LedgerTypeOK'
    BY <1>0, <2>1 DEF LedgerTypeOK, JournalInv
  <2>3. TaskInv' /\ RowsInv'
    BY <1>0, <2>1 DEF JournalInv, TaskInv, RowsInv, Rows, PayoutRows, RefundRows
  <2>4. CaptureInv'
    BY <1>0, <2>1 DEF CaptureInv
  <2>5. CoverInv'
    <3>1. \A kind : Posts(kind)' = Posts(kind)
      <4>1. \A kind : Posting(kind)' = Posting(kind) /\ journal'[kind] = journal[kind]
        BY <2>1 DEF Posting
      <4> QED  BY <4>1 DEF Posts
    <3> QED  BY <1>0, <2>1, <3>1 DEF CoverInv
  <2>6. Balance' = Balance /\ Free' = Free
    BY <2>1, BalanceDepends, FreeDepends
  <2>7. /\ Settling' = Settling /\ PayoutRows' = PayoutRows /\ RefundRows' = RefundRows
        /\ \A kinds : Entries(kinds)' = Entries(kinds)
        /\ \A rows : Mine(rows)' = Mine(rows)
    BY <2>1 DEF Settling, PayoutRows, RefundRows, Entries, Mine
  <2>8. \A types : About(types)' = About(types)
    BY <2>1, <2>7 DEF About
  <2>9. WalletInv'
    BY <1>0, <2>1, <2>6, <2>7, <2>8 DEF WalletInv
  <2> QED  BY <2>2, <2>3, <2>4, <2>5, <2>9, Zenon DEF LedgerIInv
<1> QED  BY <1>1, <1>2, <1>3, <1>4, Zenon DEF LedgerNext

\* Rows, journal, workers and calculations keep to their types, and to what they
\* know of each other.
THEOREM LedgerInvariant == LedgerSpec => []LedgerIInv
<1> QED  BY LedgerIInvInit, LedgerIInvStep, PTL DEF LedgerSpec

\* Every row, local and entry holds a value the code can put there.
THEOREM LedgerTypes == LedgerSpec => []LedgerTypeOK
<1>1. LedgerIInv => LedgerTypeOK
  BY DEF LedgerIInv
<1> QED  BY <1>1, LedgerInvariant, PTL

\* A payment that was captured once, and never reopened, is credited to the
\* provider once.
THEOREM CreditedTwice == LedgerSpec => []CreditedTwiceOnlyIfAgain
<1>1. LedgerIInv => CreditedTwiceOnlyIfAgain
  <2> SUFFICES ASSUME LedgerIInv, NEW p \in Payments, p \notin again
               PROVE  ~(Len(journal[<<"booking_payment", p>>]) > 1)
    BY DEF CreditedTwiceOnlyIfAgain
  <2>1. Len(journal[Captures(p)]) <= 1 /\ Len(journal[Captures(p)]) \in Nat
    BY KindOf, LenProperties DEF LedgerIInv, CaptureInv, LedgerTypeOK, Captures
  <2> QED  BY <2>1 DEF Captures
<1> QED  BY <1>1, LedgerInvariant, PTL

-----------------------------------------------------------------------------
(* Ledger: what the reports show *)

\* Sums over finitely many entries.
LEMMA SumTwo ==
    ASSUME NEW S \in SUBSET Ent, IsFiniteSet(S),
           NEW f \in [Ent -> Int], NEW g \in [Ent -> Int], NEW h \in [Ent -> Int],
           \A e \in S : h[e] = f[e] + g[e]
    PROVE  SumOf(f, S) \in Int /\ SumOf(g, S) \in Int /\ SumOf(h, S) = SumOf(f, S) + SumOf(g, S)
<1> DEFINE F == [e \in S |-> f[e]]
           G == [e \in S |-> g[e]]
           H == [e \in S |-> h[e]]
<1>1. /\ F \in [S -> Int] /\ G \in [S -> Int] /\ H \in [S -> Int]
      /\ \A e \in S : F[e] = f[e] /\ G[e] = g[e] /\ H[e] = h[e] /\ H[e] = F[e] + G[e]
  OBVIOUS
<1> HIDE DEF F, G, H
<1>2. SumOf(F, S) \in Int /\ SumOf(G, S) \in Int /\ SumOf(H, S) = SumOf(F, S) + SumOf(G, S)
  BY <1>1, SumOfInt, SumOfPlus
<1>3. SumOf(F, S) = SumOf(f, S) /\ SumOf(G, S) = SumOf(g, S) /\ SumOf(H, S) = SumOf(h, S)
  BY <1>1, SumOfSame
<1> QED  BY <1>2, <1>3

LEMMA SumSplit ==
    ASSUME NEW S \in SUBSET Ent, IsFiniteSet(S), NEW f \in [Ent -> Int], NEW T \in SUBSET S
    PROVE  /\ SumOf(f, S) \in Int /\ SumOf(f, T) \in Int /\ SumOf(f, S \ T) \in Int
           /\ SumOf(f, S) = SumOf(f, T) + SumOf(f, S \ T)
           /\ (\A e \in S : f[e] = 0) => SumOf(f, S) = 0
           /\ (\A e \in S : f[e] >= 0) => SumOf(f, T) <= SumOf(f, S)
<1> DEFINE F == [e \in S |-> f[e]]
<1>1. F \in [S -> Int] /\ \A e \in S : F[e] = f[e]
  OBVIOUS
<1> HIDE DEF F
<1>2. /\ SumOf(F, S) \in Int /\ SumOf(F, T) \in Int /\ SumOf(F, S \ T) \in Int
  BY <1>1, SumOfInt
<1>3. SumOf(F, S) = SumOf(F, T) + SumOf(F, S \ T)
  <2>1. T \cup (S \ T) = S /\ T \cap (S \ T) = {} /\ S \ T \in SUBSET S
    OBVIOUS
  <2> QED  BY <1>1, <2>1, SumOfParts
<1>4. SumOf(F, S) = SumOf(f, S) /\ SumOf(F, T) = SumOf(f, T) /\ SumOf(F, S \ T) = SumOf(f, S \ T)
  <2>1. T \subseteq S /\ S \ T \subseteq S
    OBVIOUS
  <2> QED  BY <1>1, <2>1, SumOfSame
<1>5. (\A e \in S : f[e] = 0) => SumOf(F, S) = 0
  BY <1>1, SumOfZeros
<1>6. (\A e \in S : f[e] >= 0) => SumOf(F, T) <= SumOf(F, S)
  <2> SUFFICES ASSUME \A e \in S : f[e] >= 0 PROVE SumOf(F, T) <= SumOf(F, S)
    OBVIOUS
  <2>1. F \in [S -> Nat]
    BY <1>1
  <2> QED  BY <2>1, SumOfMonotone
<1> QED  BY <1>2, <1>3, <1>4, <1>5, <1>6

\* Credits and debits of a set of entries in two parts.
LEMMA SidesSplit ==
    ASSUME NEW es \in SUBSET Ent, IsFiniteSet(es), NEW part \in SUBSET es
    PROVE  /\ Credits(es, "2000") = Credits(part, "2000") + Credits(es \ part, "2000")
           /\ Debits(es, "2000") = Debits(part, "2000") + Debits(es \ part, "2000")
           /\ Credits(part, "2000") \in Int /\ Credits(es \ part, "2000") \in Int
           /\ Debits(part, "2000") \in Int /\ Debits(es \ part, "2000") \in Int
           /\ Credits(part, "2000") <= Credits(es, "2000")
<1>1. Lined(part) \subseteq Lined(es) /\ Lined(es \ part) = Lined(es) \ Lined(part)
  BY DEF Lined
<1>2. /\ part \subseteq Ent /\ IsFiniteSet(part) /\ es \ part \subseteq Ent /\ IsFiniteSet(es \ part)
      /\ es \ part \subseteq es
  BY FS_Subset
<1>3. /\ Lined(es) \subseteq Ent /\ IsFiniteSet(Lined(es))
      /\ Credits(es, "2000") = SumOf(Cr("2000"), Lined(es))
      /\ Debits(es, "2000") = SumOf(Dr("2000"), Lined(es))
  BY SidesAreSums
<1>4. /\ Credits(part, "2000") = SumOf(Cr("2000"), Lined(part))
      /\ Debits(part, "2000") = SumOf(Dr("2000"), Lined(part))
      /\ Credits(es \ part, "2000") = SumOf(Cr("2000"), Lined(es \ part))
      /\ Debits(es \ part, "2000") = SumOf(Dr("2000"), Lined(es \ part))
  BY <1>2, SidesAreSums
<1>5. \A e \in Lined(es) : Cr("2000")[e] >= 0
  <2> TAKE e \in Lined(es)
  <2>1. e \in Ent /\ e[1] \in EntryKinds
    BY <1>3 DEF Ent
  <2>2. Credit(e[1], "2000") \in Nat /\ Cr("2000")[e] = Credit(e[1], "2000")
    BY <2>1, EntryTies DEF Cr
  <2> QED  BY <2>2
<1>6. /\ SumOf(Cr("2000"), Lined(es)) = SumOf(Cr("2000"), Lined(part)) + SumOf(Cr("2000"), Lined(es) \ Lined(part))
      /\ SumOf(Cr("2000"), Lined(part)) <= SumOf(Cr("2000"), Lined(es))
      /\ SumOf(Cr("2000"), Lined(part)) \in Int /\ SumOf(Cr("2000"), Lined(es) \ Lined(part)) \in Int
  BY <1>1, <1>3, <1>5, EntryValues, SumSplit
<1>7. /\ SumOf(Dr("2000"), Lined(es)) = SumOf(Dr("2000"), Lined(part)) + SumOf(Dr("2000"), Lined(es) \ Lined(part))
      /\ SumOf(Dr("2000"), Lined(part)) \in Int /\ SumOf(Dr("2000"), Lined(es) \ Lined(part)) \in Int
  BY <1>1, <1>3, EntryValues, SumSplit
<1> QED  BY <1>1, <1>3, <1>4, <1>6, <1>7

\* Entries of payments and of unwinds are credits to the provider, the others debits.
LEMMA OneSided ==
    ASSUME NEW es \in SUBSET Ent, IsFiniteSet(es)
    PROVE  /\ (\A e \in es : e[1][1] \in {"payout_issuance", "refund_issuance"}) => Credits(es, "2000") = 0
           /\ (\A e \in es : e[1][1] \in {"booking_payment", "payout_failure_unwind"}) => Debits(es, "2000") = 0
<1>1. /\ Lined(es) \subseteq Ent /\ Lined(es) \subseteq es /\ IsFiniteSet(Lined(es))
      /\ Credits(es, "2000") = SumOf(Cr("2000"), Lined(es))
      /\ Debits(es, "2000") = SumOf(Dr("2000"), Lined(es))
  BY SidesAreSums
<1>2. ASSUME NEW e \in es
      PROVE  /\ e[1][1] \in {"payout_issuance", "refund_issuance"} => Cr("2000")[e] = 0
             /\ e[1][1] \in {"booking_payment", "payout_failure_unwind"} => Dr("2000")[e] = 0
  <2>1. e[1] \in EntryKinds /\ e \in Ent
    BY DEF Ent
  <2>2. Cr("2000")[e] = Credit(e[1], "2000") /\ Dr("2000")[e] = Debit(e[1], "2000")
    BY <2>1 DEF Cr, Dr
  <2> QED  BY <2>1, <2>2, PaymentLines, IssuanceLines, UnwindLines, RefundLines
<1> QED  BY <1>1, <1>2, EntryValues, SumSplit

\* What is found of a provider: what it is owed for, in the wallet's currency.
LEMMA WhatIsFound ==
    ASSUME LedgerIInv, query = "done", ~overtaken
    PROVE  /\ ProviderEntries(whose[1]) \subseteq Ent /\ IsFiniteSet(ProviderEntries(whose[1]))
           /\ \A e \in ProviderEntries(whose[1]) :
                 /\ e[1] \in EntryKinds /\ e[2] \in DOMAIN journal[e[1]] /\ e = <<e[1], e[2]>>
                 /\ OwnerOf(e[1][2]) = whose[1]
           /\ \A e : e \in found <=>
                 /\ e \in ProviderEntries(whose[1])
                 /\ e[1][2] \in Payments => paymentStatus[e[1][2]] = "succeeded"
           /\ balance = Balance
<1> DEFINE v == whose[1]
           kinds == {k \in EntryKinds : OwnerOf(k[2]) = v}
           mine == {k \in EntryKinds : k[1] \in Types /\ k[2] \in ids}
<1>1. LedgerTypeOK /\ RowsInv /\ WalletInv
  BY DEF LedgerIInv
<1>2. /\ IsFiniteSet(Entries(kinds)) /\ Entries(kinds) \subseteq Ent
      /\ \A e : e \in Entries(kinds) <=> /\ e = <<e[1], e[2]>> /\ e[1] \in kinds
                                         /\ e[2] \in DOMAIN journal[e[1]]
  BY <1>1, EntriesFinite
<1>3. \A e : e \in Entries(mine) <=> /\ e = <<e[1], e[2]>> /\ e[1] \in mine
                                     /\ e[2] \in DOMAIN journal[e[1]]
  BY <1>1, EntriesFinite
<1>4. /\ found = Entries(mine) /\ ProviderEntries(v) = Entries(kinds)
      /\ ids = Mine(Settling \cup PayoutRows \cup RefundRows) /\ balance = Balance
  BY <1>1 DEF WalletInv, About, ProviderEntries
<1>5. ASSUME NEW kind \in EntryKinds, journal[kind] # <<>>
      PROVE  kind \in mine <=> /\ kind \in kinds
                               /\ kind[2] \in Payments => paymentStatus[kind[2]] = "succeeded"
  <2>1. kind[2] \in Rows /\ kind[1] \in Types
    BY <1>1, <1>5, KindTyped DEF RowsInv
  <2>2. kind[2] \in ids <=> /\ OwnerOf(kind[2]) = v
                            /\ kind[2] \in Payments => paymentStatus[kind[2]] = "succeeded"
    BY <1>4, <2>1, LedgerAssumption DEF Mine, Rows, Settling, PayoutRows, RefundRows
  <2> QED  BY <2>1, <2>2
<1>6. ASSUME NEW kind \in EntryKinds, NEW i \in DOMAIN journal[kind] PROVE journal[kind] # <<>>
  <2>1. DOMAIN <<>> = {}
    OBVIOUS
  <2> QED  BY <1>6, <2>1
<1>7. \A e : e \in found <=> /\ e \in ProviderEntries(v)
                             /\ e[1][2] \in Payments => paymentStatus[e[1][2]] = "succeeded"
  <2> SUFFICES ASSUME NEW e
               PROVE  e \in found <=> /\ e \in ProviderEntries(v)
                                      /\ e[1][2] \in Payments => paymentStatus[e[1][2]] = "succeeded"
    OBVIOUS
  <2>1. e \in found <=> e = <<e[1], e[2]>> /\ e[1] \in mine /\ e[2] \in DOMAIN journal[e[1]]
    BY <1>3, <1>4, Zenon
  <2>2. e \in ProviderEntries(v) <=> e = <<e[1], e[2]>> /\ e[1] \in kinds /\ e[2] \in DOMAIN journal[e[1]]
    BY <1>2, <1>4, Zenon
  <2>3. e[1] \in EntryKinds /\ e[2] \in DOMAIN journal[e[1]] =>
            (e[1] \in mine <=> /\ e[1] \in kinds
                               /\ e[1][2] \in Payments => paymentStatus[e[1][2]] = "succeeded")
    BY <1>5, <1>6
  <2>4. (e[1] \in mine => e[1] \in EntryKinds) /\ (e[1] \in kinds => e[1] \in EntryKinds)
    OBVIOUS
  <2> HIDE DEF mine, kinds, v
  <2> QED  BY <2>1, <2>2, <2>3, <2>4
<1>8. \A e \in ProviderEntries(v) :
         /\ e[1] \in EntryKinds /\ e[2] \in DOMAIN journal[e[1]] /\ e = <<e[1], e[2]>>
         /\ OwnerOf(e[1][2]) = v
  BY <1>2, <1>4
<1> HIDE DEF kinds, mine
<1> QED  BY <1>2, <1>4, <1>7, <1>8

\* What is found, type by type, makes up the balance.
LEMMA BalanceOfFound ==
    ASSUME LedgerIInv,
           NEW es, es = {e \in found : Currency[e[1][2]] = whose[2]}
    PROVE  Balance = Credits(es, "2000") - Debits(es, "2000") /\ es \in SUBSET Ent /\ IsFiniteSet(es)
<1>0. LedgerTypeOK /\ found \subseteq Entries(EntryKinds)
  BY DEF LedgerIInv, WalletInv
<1>1. IsFiniteSet(Entries(EntryKinds)) /\ Entries(EntryKinds) \subseteq Ent
  BY <1>0, EntriesFinite
<1>2. es \in SUBSET Ent /\ IsFiniteSet(es)
  BY <1>0, <1>1, FS_Subset
<1> DEFINE P == Found("booking_payment")
           I == Found("payout_issuance")
           U == Found("payout_failure_unwind")
           R == Found("refund_issuance")
           rest == es \ P
           rest2 == rest \ U
<1>3. /\ P \in SUBSET es /\ U \in SUBSET rest /\ I \in SUBSET rest2 /\ rest2 \ I = R
      /\ rest \in SUBSET es /\ rest2 \in SUBSET es
  <2>1. \A e \in es : e[1][1] \in Types
    <3>1. \A e \in es : e[1] \in EntryKinds
      BY <1>2 DEF Ent
    <3> QED  BY <3>1, KindTyped
  <2> QED  BY <2>1 DEF Found, Types
<1>4. /\ \A e \in P : e[1][1] \in {"booking_payment", "payout_failure_unwind"}
      /\ \A e \in U : e[1][1] \in {"booking_payment", "payout_failure_unwind"}
      /\ \A e \in I : e[1][1] \in {"payout_issuance", "refund_issuance"}
      /\ \A e \in R : e[1][1] \in {"payout_issuance", "refund_issuance"}
  BY DEF Found
<1>5. Balance = Credits(P, "2000") - Debits(I, "2000") - Debits(R, "2000") + Credits(U, "2000")
  BY Zenon DEF Balance
<1> HIDE DEF P, I, U, R
<1>6. IsFiniteSet(rest) /\ IsFiniteSet(rest2) /\ rest \in SUBSET Ent /\ rest2 \in SUBSET Ent
  BY <1>2, <1>3, FS_Subset
<1>7. /\ P \in SUBSET Ent /\ IsFiniteSet(P) /\ I \in SUBSET Ent /\ IsFiniteSet(I)
      /\ U \in SUBSET Ent /\ IsFiniteSet(U) /\ R \in SUBSET Ent /\ IsFiniteSet(R)
  <2>1. P \subseteq es /\ U \subseteq rest /\ I \subseteq rest2 /\ R \subseteq rest2
    BY <1>3
  <2> HIDE DEF rest, rest2
  <2> QED  BY <1>2, <1>6, <2>1, FS_Subset
<1>8. /\ Credits(I, "2000") = 0 /\ Credits(R, "2000") = 0
      /\ Debits(P, "2000") = 0 /\ Debits(U, "2000") = 0
  BY <1>4, <1>7, OneSided
<1>9. /\ Credits(es, "2000") = Credits(P, "2000") + Credits(rest, "2000")
      /\ Debits(es, "2000") = Debits(P, "2000") + Debits(rest, "2000")
  BY <1>2, <1>3, SidesSplit
<1>10. /\ Credits(rest, "2000") = Credits(U, "2000") + Credits(rest2, "2000")
       /\ Debits(rest, "2000") = Debits(U, "2000") + Debits(rest2, "2000")
  <2> HIDE DEF rest
  <2> QED  BY <1>3, <1>6, SidesSplit
<1>11. /\ Credits(rest2, "2000") = Credits(I, "2000") + Credits(R, "2000")
       /\ Debits(rest2, "2000") = Debits(I, "2000") + Debits(R, "2000")
  <2> HIDE DEF rest2
  <2> QED  BY <1>3, <1>6, SidesSplit
<1>12. /\ Credits(P, "2000") \in Int /\ Credits(U, "2000") \in Int
       /\ Debits(I, "2000") \in Int /\ Debits(R, "2000") \in Int
  BY <1>7, SidesTyped
<1> HIDE DEF rest, rest2
<1> QED  BY <1>2, <1>5, <1>8, <1>9, <1>10, <1>11, <1>12

\* A wallet nothing overtook shows what the provider's statement closes with,
\* but for other currencies and payments that are no longer "succeeded".
THEOREM WalletAndStatement == LedgerSpec => []WalletIsStatement
<1>1. LedgerIInv => WalletIsStatement
  <2> SUFFICES ASSUME LedgerIInv, query = "done", ~overtaken PROVE WalletIsStatement
    BY DEF WalletIsStatement
  <2> DEFINE all == ProviderEntries(whose[1])
             other == {e \in all :
                        \/ Currency[e[1][2]] # whose[2]
                        \/ e[1][2] \in Payments /\ paymentStatus[e[1][2]] # "succeeded"}
             es == {e \in found : Currency[e[1][2]] = whose[2]}
  <2>1. /\ all \in SUBSET Ent /\ IsFiniteSet(all) /\ balance = Balance
        /\ \A e : e \in found <=> /\ e \in all
                                  /\ e[1][2] \in Payments => paymentStatus[e[1][2]] = "succeeded"
    BY WhatIsFound
  <2>2. other \in SUBSET all /\ all \ other = es
    BY <2>1
  <2>3. Balance = Credits(es, "2000") - Debits(es, "2000")
    BY BalanceOfFound
  <2>4. ClosingBalance(whose[1]) = Credits(all, "2000") - Debits(all, "2000")
    BY Zenon DEF ClosingBalance
  <2> HIDE DEF all, es
  <2>5. other \in SUBSET all
    BY <2>2
  <2> HIDE DEF other
  <2>6. /\ Credits(all, "2000") = Credits(other, "2000") + Credits(es, "2000")
        /\ Debits(all, "2000") = Debits(other, "2000") + Debits(es, "2000")
        /\ Credits(other, "2000") \in Int /\ Credits(es, "2000") \in Int
        /\ Debits(other, "2000") \in Int /\ Debits(es, "2000") \in Int
    <3>1. all \ other = es
      BY <2>2
    <3> QED  BY <2>1, <2>5, <3>1, SidesSplit
  <2>7. ClosingBalance(whose[1]) = balance + Credits(other, "2000") - Debits(other, "2000")
    BY <2>1, <2>3, <2>4, <2>6
  <2> QED  BY <2>7, Zenon DEF WalletIsStatement, other, all
<1> QED  BY <1>1, LedgerInvariant, PTL

LEMMA OwnerTyped == ASSUME NEW x \in Refs PROVE OwnerOf(x) \in Providers
<1>1. CASE x \in Refunds
  <2>1. PaymentOf[x] \in Payments
    BY <1>1, LedgerAssumption
  <2> QED  BY <1>1, <2>1 DEF OwnerOf, Providers
<1>2. CASE x \notin Refunds
  BY <1>2 DEF OwnerOf, Providers, Refs
<1> QED  BY <1>1, <1>2

LEMMA ProvidersFinite == IsFiniteSet(Providers)
<1> DEFINE S == Payments \cup Payouts
           f == [x \in S |-> Owner[x]]
<1>1. IsFiniteSet(S)
  BY LedgerAssumption, FS_Union
<1>2. f \in Surjection(S, Providers)
  BY DEF Surjection, Providers
<1> HIDE DEF S, f
<1> QED  BY <1>1, <1>2, FS_Surjection

\* The entries of all providers are all entries.
LEMMA StatementsTieState == ASSUME LedgerTypeOK PROVE StatementsTie
<1> DEFINE All == Entries(EntryKinds)
           LA == Lined(All)
           net == [e \in Ent |-> Cr("2000")[e] - Dr("2000")[e]]
           Of == [v \in Providers |-> ClosingBalance(v)]
<1>1. /\ IsFiniteSet(All) /\ All \subseteq Ent
      /\ \A e : e \in All <=> e = <<e[1], e[2]>> /\ e[1] \in EntryKinds /\ e[2] \in DOMAIN journal[e[1]]
  BY EntriesFinite
<1>2. /\ IsFiniteSet(LA) /\ LA \subseteq All /\ LA \in SUBSET Ent
      /\ Credits(All, "2100") = SumOf(Cr("2100"), LA) /\ Credits(All, "4000") = SumOf(Cr("4000"), LA)
      /\ Credits(All, "1200") = SumOf(Cr("1200"), LA) /\ Debits(All, "1200") = SumOf(Dr("1200"), LA)
      /\ Debits(All, "1100") = SumOf(Dr("1100"), LA)
  BY <1>1, SidesAreSums
<1>3. net \in [Ent -> Int] /\ \A e \in Ent : net[e] = Cr("2000")[e] - Dr("2000")[e]
  <2>1. \A e \in Ent : Cr("2000")[e] \in Int /\ Dr("2000")[e] \in Int
    BY EntryValues
  <2> QED  BY <2>1
<1> HIDE DEF All, LA, net
\* Each provider's closing balance is the net of its entries.
<1>4. ASSUME NEW v \in Providers
      PROVE  /\ ClosingBalance(v) = SumOf(net, {e \in LA : OwnerOf(e[1][2]) = v})
             /\ ClosingBalance(v) \in Int
  <2> DEFINE kinds == {k \in EntryKinds : OwnerOf(k[2]) = v}
             PE == ProviderEntries(v)
             S == {e \in LA : OwnerOf(e[1][2]) = v}
  <2>1. /\ PE \in SUBSET Ent /\ IsFiniteSet(PE)
        /\ \A e : e \in PE <=> e = <<e[1], e[2]>> /\ e[1] \in kinds /\ e[2] \in DOMAIN journal[e[1]]
    BY EntriesFinite DEF ProviderEntries
  <2>2. Lined(PE) = S
    BY <1>1, <2>1 DEF Lined, LA
  <2>3. ClosingBalance(v) = Credits(PE, "2000") - Debits(PE, "2000")
    BY Zenon DEF ClosingBalance
  <2> HIDE DEF PE, S, kinds
  <2>4. /\ IsFiniteSet(S) /\ S \in SUBSET Ent
        /\ Credits(PE, "2000") = SumOf(Cr("2000"), S) /\ Debits(PE, "2000") = SumOf(Dr("2000"), S)
    BY <2>1, <2>2, SidesAreSums
  <2>5. \A e \in S : Cr("2000")[e] = net[e] + Dr("2000")[e]
    <3> TAKE e \in S
    <3>1. e \in Ent /\ Cr("2000")[e] \in Int /\ Dr("2000")[e] \in Int
      BY <2>4, EntryValues
    <3> QED  BY <1>3, <3>1
  <2>6. /\ SumOf(Cr("2000"), S) = SumOf(net, S) + SumOf(Dr("2000"), S)
        /\ SumOf(net, S) \in Int /\ SumOf(Dr("2000"), S) \in Int
    <3>1. net \in [Ent -> Int] /\ Cr("2000") \in [Ent -> Int] /\ Dr("2000") \in [Ent -> Int]
      BY <1>3, EntryValues
    <3>2. S \in SUBSET Ent /\ IsFiniteSet(S)
      BY <2>4
    <3> QED  BY <2>5, <3>1, <3>2, SumTwo
  <2> QED  BY <2>3, <2>4, <2>6 DEF S
\* Together they are the net of all entries.
<1>5. SumFunction(Of) = SumOf(net, LA)
  <2> DEFINE own == [e \in LA |-> OwnerOf(e[1][2])]
             n == [e \in LA |-> net[e]]
  <2>1. own \in [LA -> Providers]
    <3>1. ASSUME NEW e \in LA PROVE OwnerOf(e[1][2]) \in Providers
      <4>1. e[1] \in EntryKinds
        BY <1>1, <1>2
      <4> QED  BY <4>1, KindTyped, OwnerTyped
    <3> QED  BY <3>1
  <2>2. n \in [LA -> Int] /\ \A e \in LA : n[e] = net[e]
    BY <1>2, <1>3
  <2>3. Of \in [Providers -> Int] /\ DOMAIN Of = Providers
    BY <1>4
  <2>4. \A v \in Providers : Of[v] = SumOf(n, {e \in LA : own[e] = v})
    <3> TAKE v \in Providers
    <3>1. {e \in LA : own[e] = v} = {e \in LA : OwnerOf(e[1][2]) = v}
      OBVIOUS
    <3>2. SumOf(n, {e \in LA : own[e] = v}) = SumOf(net, {e \in LA : own[e] = v})
      <4> DEFINE T == {e \in LA : own[e] = v}
      <4>1. T \in SUBSET LA /\ \A e \in T : n[e] = net[e]
        BY <2>2
      <4> HIDE DEF n, own, T
      <4>2. SumOf(n, T) = SumOf(net, T)
        BY <1>2, <4>1, SumOfSame
      <4> QED  BY <4>2 DEF T
    <3> QED  BY <1>4, <3>1, <3>2
  <2> HIDE DEF own, n, Of
  <2>5. SumOf(Of, Providers) = SumOf(n, LA)
    BY <1>2, <2>1, <2>2, <2>3, <2>4, ProvidersFinite, SumOfFibers
  <2>6. SumOf(n, LA) = SumOf(net, LA)
    BY <1>2, <2>2, SumOfSame
  <2> QED  BY <2>3, <2>5, <2>6, SumFunctionIs
\* And every entry ties.
<1>6. SumOf(net, LA) = Debits(All, "1100") - Credits(All, "4000")
                         - (Credits(All, "1200") - Debits(All, "1200")) - Credits(All, "2100")
  <2> DEFINE a == [e \in Ent |-> net[e] + Cr("4000")[e]]
             b == [e \in Ent |-> a[e] + Cr("1200")[e]]
             d == [e \in Ent |-> b[e] + Cr("2100")[e]]
  <2>1. /\ a \in [Ent -> Int] /\ b \in [Ent -> Int] /\ d \in [Ent -> Int]
        /\ \A e \in Ent : a[e] = net[e] + Cr("4000")[e]
        /\ \A e \in Ent : b[e] = a[e] + Cr("1200")[e]
        /\ \A e \in Ent : d[e] = b[e] + Cr("2100")[e]
    <3>1. \A e \in Ent : net[e] \in Int /\ Cr("4000")[e] \in Int /\ Cr("1200")[e] \in Int /\ Cr("2100")[e] \in Int
      BY <1>3, EntryValues
    <3> QED  BY <3>1
  <2> HIDE DEF a, b, d
  <2>2. \A e \in LA : d[e] = Dr("1100")[e] + Dr("1200")[e]
    <3> TAKE e \in LA
    <3>1. e \in Ent /\ e[1] \in EntryKinds
      BY <1>2 DEF Ent
    <3>2. /\ Cr("2000")[e] = Credit(e[1], "2000") /\ Dr("2000")[e] = Debit(e[1], "2000")
          /\ Cr("4000")[e] = Credit(e[1], "4000") /\ Cr("1200")[e] = Credit(e[1], "1200")
          /\ Cr("2100")[e] = Credit(e[1], "2100") /\ Dr("1100")[e] = Debit(e[1], "1100")
          /\ Dr("1200")[e] = Debit(e[1], "1200")
      BY <3>1 DEF Cr, Dr
    <3>3. d[e] = net[e] + Cr("4000")[e] + Cr("1200")[e] + Cr("2100")[e]
      BY <2>1, <3>1
    <3>4. /\ Debit(e[1], "1100") \in Nat /\ Debit(e[1], "2000") \in Nat /\ Debit(e[1], "1200") \in Nat
          /\ Credit(e[1], "4000") \in Nat /\ Credit(e[1], "2000") \in Nat
          /\ Credit(e[1], "1200") \in Nat /\ Credit(e[1], "2100") \in Nat
          /\ Credit(e[1], "2000") - Debit(e[1], "2000") =
                Debit(e[1], "1100") - Credit(e[1], "4000")
                  - (Credit(e[1], "1200") - Debit(e[1], "1200")) - Credit(e[1], "2100")
      BY <3>1, EntryTies
    <3>5. net[e] = Credit(e[1], "2000") - Debit(e[1], "2000")
      BY <1>3, <3>1, <3>2
    <3> QED  BY <3>2, <3>3, <3>4, <3>5
  <2>3. /\ SumOf(a, LA) = SumOf(net, LA) + SumOf(Cr("4000"), LA)
        /\ SumOf(b, LA) = SumOf(a, LA) + SumOf(Cr("1200"), LA)
        /\ SumOf(d, LA) = SumOf(b, LA) + SumOf(Cr("2100"), LA)
        /\ SumOf(d, LA) = SumOf(Dr("1100"), LA) + SumOf(Dr("1200"), LA)
        /\ SumOf(net, LA) \in Int /\ SumOf(Cr("4000"), LA) \in Int /\ SumOf(Cr("1200"), LA) \in Int
        /\ SumOf(Cr("2100"), LA) \in Int /\ SumOf(Dr("1100"), LA) \in Int /\ SumOf(Dr("1200"), LA) \in Int
    <3>1. /\ SumOf(a, LA) = SumOf(net, LA) + SumOf(Cr("4000"), LA)
          /\ SumOf(net, LA) \in Int /\ SumOf(Cr("4000"), LA) \in Int
      <4>1. net \in [Ent -> Int] /\ Cr("4000") \in [Ent -> Int] /\ a \in [Ent -> Int]
        BY <1>3, <2>1, EntryValues
      <4>2. LA \in SUBSET Ent /\ IsFiniteSet(LA) /\ \A e \in LA : a[e] = net[e] + Cr("4000")[e]
        BY <1>2, <2>1
      <4> QED  BY <4>1, <4>2, SumTwo
    <3>2. SumOf(b, LA) = SumOf(a, LA) + SumOf(Cr("1200"), LA) /\ SumOf(Cr("1200"), LA) \in Int
      BY <1>2, <2>1, EntryValues, SumTwo
    <3>3. SumOf(d, LA) = SumOf(b, LA) + SumOf(Cr("2100"), LA) /\ SumOf(Cr("2100"), LA) \in Int
      BY <1>2, <2>1, EntryValues, SumTwo
    <3>4. /\ SumOf(d, LA) = SumOf(Dr("1100"), LA) + SumOf(Dr("1200"), LA)
          /\ SumOf(Dr("1100"), LA) \in Int /\ SumOf(Dr("1200"), LA) \in Int
      BY <1>2, <2>1, <2>2, EntryValues, SumTwo
    <3> QED  BY <3>1, <3>2, <3>3, <3>4
  <2> QED  BY <1>2, <2>3
<1> HIDE DEF Of
<1>7. SumFunction(Of) = Debits(All, "1100") - Credits(All, "4000")
                          - (Credits(All, "1200") - Debits(All, "1200")) - Credits(All, "2100")
  BY <1>5, <1>6
<1> QED  BY <1>7, Zenon DEF StatementsTie, TotalGrossBookings, TotalCommissionEarned, TotalPayoutsDispatched, All, Of

\* The platform's statement and the providers' tell of the same money, in every
\* state of the journal.
THEOREM StatementsAgree == LedgerSpec => []StatementsTie
<1>1. LedgerTypeOK => StatementsTie
  BY StatementsTieState
<1> QED  BY <1>1, LedgerTypes, PTL

\* The entries of one kind, by number.
LEMMA OfOneKind ==
    ASSUME LedgerTypeOK, NEW kind \in EntryKinds
    PROVE  LET s == Entries({kind}) IN
           /\ IsFiniteSet(s) /\ s \in SUBSET Ent /\ Cardinality(s) = Len(journal[kind])
           /\ \A e \in s : e = <<kind, e[2]>> /\ e[1] = kind /\ e[2] \in DOMAIN journal[kind]
           /\ IsFiniteSet(Lined(s)) /\ Lined(s) \in SUBSET s
           /\ Cardinality(Lined(s)) \in Nat /\ Cardinality(Lined(s)) <= Len(journal[kind])
           /\ Len(journal[kind]) \in Nat
<1> DEFINE s == Entries({kind})
           n == Len(journal[kind])
           f == [i \in 1 .. n |-> <<kind, i>>]
<1>1. /\ IsFiniteSet(s) /\ s \subseteq Ent
      /\ \A e : e \in s <=> e = <<e[1], e[2]>> /\ e[1] \in {kind} /\ e[2] \in DOMAIN journal[e[1]]
  BY EntriesFinite
<1>2. n \in Nat /\ DOMAIN journal[kind] = 1 .. n
  BY DEF LedgerTypeOK
<1>3. f \in Bijection(1 .. n, s)
  <2>1. \A i \in 1 .. n : <<kind, i>> \in s
    BY <1>1, <1>2
  <2>2. \A e \in s : e = <<kind, e[2]>> /\ e[2] \in 1 .. n
    BY <1>1, <1>2
  <2> HIDE DEF s, n
  <2>3. f \in [1 .. n -> s] /\ \A i \in 1 .. n : f[i] = <<kind, i>>
    BY <2>1
  <2> HIDE DEF f
  <2>4. \A i, j \in 1 .. n : f[i] = f[j] => i = j
    BY <2>3
  <2>5. \A e \in s : \E i \in 1 .. n : f[i] = e
    BY <2>2, <2>3
  <2> QED  BY <2>3, <2>4, <2>5 DEF Bijection, Injection, Surjection, IsInjective
<1> HIDE DEF s, n, f
<1>4. Cardinality(s) = n
  <2>1. IsFiniteSet(1 .. n) /\ Cardinality(1 .. n) = n
    <3>1. ASSUME NEW m \in Nat PROVE IsFiniteSet(1 .. m) /\ Cardinality(1 .. m) = m
      BY FS_Interval
    <3> QED  BY <1>2, <3>1
  <2>2. IsFiniteSet(s) /\ Cardinality(s) = Cardinality(1 .. n)
    <3>1. ExistsBijection(1 .. n, s)
      BY <1>3 DEF ExistsBijection
    <3> QED  BY <2>1, <3>1, FS_Bijection
  <2> QED  BY <2>1, <2>2
<1>5. Lined(s) \subseteq s
  BY DEF Lined
<1>6. IsFiniteSet(Lined(s)) /\ Cardinality(Lined(s)) \in Nat /\ Cardinality(Lined(s)) <= Cardinality(s)
  BY <1>1, <1>5, FS_Subset, FS_CardinalityType
<1>7. \A e \in s : e = <<kind, e[2]>> /\ e[1] = kind /\ e[2] \in DOMAIN journal[kind]
  BY <1>1
<1> QED  BY <1>1, <1>2, <1>4, <1>5, <1>6, <1>7 DEF s, n

\* What one payout costs, at most.
LEMMA PayoutArithmetic ==
    ASSUME NEW a \in Nat, NEW unwound \in Nat, NEW posted \in Nat, NEW paid \in {0, 1}, paid + unwound <= posted
    PROVE  /\ a * unwound \in Int /\ a * posted \in Int /\ a * paid \in Int
           /\ a * paid + a * unwound \in Int /\ a * paid + a * unwound <= a * posted
<1>1. a * (posted - (paid + unwound)) >= 0
  <2>1. ASSUME NEW x \in Nat, NEW y \in Nat PROVE x * y >= 0
    BY <2>1
  <2>2. posted - (paid + unwound) \in Nat
    OBVIOUS
  <2> QED  BY <2>1, <2>2
<1>2. a * (posted - (paid + unwound)) = a * posted - (a * paid + a * unwound)
  OBVIOUS
<1> QED  BY <1>1, <1>2

\* Of the entries of some payouts, those of one.
LEMMA OfOnePayout ==
    ASSUME LedgerTypeOK, NEW k \in Payouts
    PROVE  LET I == Lined(Entries({Issues(k)}))
               U == Lined(Entries({Unwinds(k)}))
           IN  /\ SumOf(Dr("2000"), I) = AmountOf[k] * Cardinality(I)
               /\ SumOf(Cr("2000"), U) = AmountOf[k] * Cardinality(U)
<1> DEFINE I == Lined(Entries({Issues(k)}))
           U == Lined(Entries({Unwinds(k)}))
           a == AmountOf[k]
           d == [e \in I |-> Dr("2000")[e]]
           c == [e \in U |-> Cr("2000")[e]]
<1>1. /\ Issues(k) \in EntryKinds /\ Issues(k)[1] = "payout_issuance" /\ Issues(k)[2] = k
      /\ Unwinds(k) \in EntryKinds /\ Unwinds(k)[1] = "payout_failure_unwind" /\ Unwinds(k)[2] = k
  BY PayoutKinds
<1>2. /\ Debit(Issues(k), "2000") = a /\ Credit(Unwinds(k), "2000") = a
      /\ a \in Nat
  BY <1>1, IssuanceLines, UnwindLines, LedgerAssumption DEF Refs
<1>3. /\ IsFiniteSet(I) /\ \A e \in I : e \in Ent /\ e[1] = Issues(k)
      /\ IsFiniteSet(U) /\ \A e \in U : e \in Ent /\ e[1] = Unwinds(k)
  BY <1>1, OfOneKind
<1>4. /\ \A e \in I : Dr("2000")[e] = a
      /\ \A e \in U : Cr("2000")[e] = a
  BY <1>2, <1>3 DEF Dr, Cr
<1> HIDE DEF I, U, a
<1>5. /\ d \in [I -> Int] /\ \A e \in I : d[e] = a /\ d[e] = Dr("2000")[e]
      /\ c \in [U -> Int] /\ \A e \in U : c[e] = a /\ c[e] = Cr("2000")[e]
  BY <1>2, <1>4
<1> HIDE DEF d, c
<1>6. SumOf(d, I) = a * Cardinality(I) /\ SumOf(c, U) = a * Cardinality(U)
  <2>1. a \in Int
    BY <1>2
  <2> QED  BY <1>3, <1>5, <2>1, SumOfSameAmount
<1>7. SumOf(d, I) = SumOf(Dr("2000"), I) /\ SumOf(c, U) = SumOf(Cr("2000"), U)
  BY <1>3, <1>5, SumOfSame
<1> QED  BY <1>6, <1>7 DEF I, U, a

\* Payouts that are posted and reported on once, together.
LEMMA PayoutsCovered ==
    ASSUME LedgerIInv, NEW K \in SUBSET Payouts,
           \A k \in K : k \notin astray, \A w \in Workers : doing[w] = "idle",
           NEW out \in SUBSET Ent, IsFiniteSet(out), NEW back \in SUBSET Ent, IsFiniteSet(back),
           \A e : e \in out <=> \E k \in K : e \in Entries({Issues(k)}),
           \A e : e \in back <=> \E k \in K : e \in Entries({Unwinds(k)})
    PROVE  /\ SumFunctionOnSet(AmountOf, {k \in K : payoutStatus[k] = "succeeded"}) \in Int
           /\ SumFunctionOnSet(AmountOf, {k \in K : payoutStatus[k] = "succeeded"}) + Credits(back, "2000")
                <= Debits(out, "2000")
<1> DEFINE done == {k \in K : payoutStatus[k] = "succeeded"}
           paid == [k \in K |-> IF payoutStatus[k] = "succeeded" THEN 1 ELSE 0]
           I == [k \in K |-> Lined(Entries({Issues(k)}))]
           U == [k \in K |-> Lined(Entries({Unwinds(k)}))]
           h == [k \in K |-> AmountOf[k] * paid[k]]
           u == [k \in K |-> AmountOf[k] * Cardinality(U[k])]
           i == [k \in K |-> AmountOf[k] * Cardinality(I[k])]
           hu == [k \in K |-> h[k] + u[k]]
<1>0. LedgerTypeOK /\ CoverInv /\ IsFiniteSet(K)
  BY LedgerAssumption, FS_Subset DEF LedgerIInv
<1>e. ASSUME NEW k \in K
      PROVE  /\ \A e \in Entries({Issues(k)}) : e \in out /\ e[1] = Issues(k) /\ e[1][2] = k
             /\ \A e \in Entries({Unwinds(k)}) : e \in back /\ e[1] = Unwinds(k) /\ e[1][2] = k
  <2>1. /\ Issues(k) \in EntryKinds /\ Unwinds(k) \in EntryKinds
        /\ Issues(k)[2] = k /\ Unwinds(k)[2] = k
    BY PayoutKinds
  <2>2. /\ \A e \in Entries({Issues(k)}) : e[1] = Issues(k)
        /\ \A e \in Entries({Unwinds(k)}) : e[1] = Unwinds(k)
    BY <1>0, <2>1, OfOneKind
  <2>3. /\ \A e \in Entries({Issues(k)}) : e \in out
        /\ \A e \in Entries({Unwinds(k)}) : e \in back
    OBVIOUS
  <2> QED  BY <2>1, <2>2, <2>3
\* Of each payout, what was issued covers what was unwound and paid.
<1>1. ASSUME NEW k \in K
      PROVE  /\ AmountOf[k] \in Nat /\ Cardinality(I[k]) \in Nat /\ Cardinality(U[k]) \in Nat /\ paid[k] \in {0, 1}
             /\ paid[k] + Cardinality(U[k]) <= Cardinality(I[k])
  <2>0. k \in Payouts /\ k \in Payouts \ astray /\ AmountOf[k] \in Nat
    BY LedgerAssumption DEF Refs
  <2> DEFINE EI == Entries({Issues(k)})
             EU == Entries({Unwinds(k)})
  <2>1. Issues(k) \in EntryKinds /\ Unwinds(k) \in EntryKinds
    BY <2>0, PayoutKinds
  <2>2. /\ Cardinality(EI) = Len(journal[Issues(k)])
        /\ \A e \in EI : e[1] = Issues(k) /\ e[2] \in DOMAIN journal[Issues(k)]
        /\ Cardinality(Lined(EI)) \in Nat
    BY <1>0, <2>1, OfOneKind
  <2>3. /\ Cardinality(Lined(EU)) \in Nat /\ Cardinality(Lined(EU)) <= Len(journal[Unwinds(k)])
        /\ Len(journal[Unwinds(k)]) \in Nat /\ Len(journal[Issues(k)]) \in Nat
    BY <1>0, <2>1, OfOneKind
  <2>4. Lined(EI) = EI
    <3>1. \A j \in DOMAIN journal[Issues(k)] : journal[Issues(k)][j]
      BY <1>0, <2>0 DEF CoverInv
    <3> QED  BY <2>2, <3>1 DEF Lined
  <2>5. Posting(Issues(k)) = {} /\ Posting(Unwinds(k)) = {}
    BY DEF Posting
  <2>6. Posts(Issues(k)) = Len(journal[Issues(k)]) /\ Posts(Unwinds(k)) = Len(journal[Unwinds(k)])
    BY <2>3, <2>5, FS_EmptySet DEF Posts
  <2>7. /\ callbacks[k] \in Nat
        /\ callbacks[k] + Posts(Unwinds(k)) + (IF payoutStatus[k] = "succeeded" THEN 1 ELSE 0) <= Posts(Issues(k))
    BY <1>0, <2>0 DEF CoverInv, LedgerTypeOK
  <2>8. paid[k] = (IF payoutStatus[k] = "succeeded" THEN 1 ELSE 0) /\ paid[k] \in {0, 1}
    OBVIOUS
  <2>9. I[k] = Lined(EI) /\ U[k] = Lined(EU)
    OBVIOUS
  <2> HIDE DEF EI, EU, I, U, paid
  <2> QED  BY <2>0, <2>2, <2>3, <2>4, <2>6, <2>7, <2>8, <2>9
<1>2. /\ h \in [K -> Int] /\ u \in [K -> Int] /\ i \in [K -> Int] /\ hu \in [K -> Int]
      /\ \A k \in K : hu[k] = h[k] + u[k] /\ hu[k] <= i[k]
  <2> HIDE DEF I, U, paid
  <2>1. \A k \in K : /\ AmountOf[k] * Cardinality(U[k]) \in Int /\ AmountOf[k] * Cardinality(I[k]) \in Int
                     /\ AmountOf[k] * paid[k] \in Int
                     /\ AmountOf[k] * paid[k] + AmountOf[k] * Cardinality(U[k]) \in Int
                     /\ AmountOf[k] * paid[k] + AmountOf[k] * Cardinality(U[k]) <= AmountOf[k] * Cardinality(I[k])
    BY <1>1, PayoutArithmetic
  <2> QED  BY <2>1
<1>3. /\ SumOf(h, K) \in Int /\ SumOf(u, K) \in Int /\ SumOf(i, K) \in Int
      /\ SumOf(h, K) + SumOf(u, K) <= SumOf(i, K)
  <2> HIDE DEF h, u, i, hu
  <2>1. SumOf(h, K) \in Int /\ SumOf(u, K) \in Int /\ SumOf(i, K) \in Int
    BY <1>0, <1>2, SumOfInt
  <2>2. SumOf(hu, K) = SumOf(h, K) + SumOf(u, K)
    BY <1>0, <1>2, SumOfPlus
  <2>3. SumOf(hu, K) <= SumOf(i, K)
    BY <1>0, <1>2, SumOfLeq
  <2> QED  BY <2>1, <2>2, <2>3
<1>4. SumOf(h, K) = SumFunctionOnSet(AmountOf, done)
  <2>1. /\ \A k \in done : h[k] = AmountOf[k]
        /\ \A k \in K \ done : h[k] = 0
    <3>1. \A k \in K : AmountOf[k] \in Nat
      BY <1>1
    <3>2. ASSUME NEW a \in Nat PROVE a * 1 = a /\ a * 0 = 0
      OBVIOUS
    <3>3. \A k \in K : h[k] = IF payoutStatus[k] = "succeeded" THEN AmountOf[k] * 1 ELSE AmountOf[k] * 0
      OBVIOUS
    <3>4. \A k \in K : h[k] = IF payoutStatus[k] = "succeeded" THEN AmountOf[k] ELSE 0
      <4> HIDE DEF h
      <4> QED  BY <3>1, <3>2, <3>3
    <3> HIDE DEF h
    <3> QED  BY <3>4
  <2>2. done \in SUBSET K /\ K \ done \in SUBSET K /\ done \cup (K \ done) = K /\ done \cap (K \ done) = {}
    OBVIOUS
  <2> DEFINE z == [k \in K \ done |-> h[k]]
  <2>3. z \in [K \ done -> Int] /\ (\A k \in K \ done : z[k] = 0 /\ z[k] = h[k]) /\ IsFiniteSet(K \ done)
    BY <1>0, <2>1, FS_Subset
  <2> HIDE DEF h, done, z
  <2>4. SumOf(h, K) = SumOf(h, done) + SumOf(h, K \ done) /\ SumOf(h, done) \in Int
    <3>1. SumOf(h, done \cup (K \ done)) = SumOf(h, done) + SumOf(h, K \ done)
      BY <1>0, <1>2, <2>2, SumOfParts
    <3> QED  BY <1>0, <1>2, <2>2, <3>1, SumOfInt
  <2>5. SumOf(h, K \ done) = 0
    <3>1. SumOf(z, K \ done) = 0
      BY <2>3, SumOfZeros
    <3>2. SumOf(z, K \ done) = SumOf(h, K \ done)
      BY <2>3, SumOfSame
    <3> QED  BY <3>1, <3>2
  <2>6. SumOf(h, done) = SumOf(AmountOf, done)
    BY <1>0, <2>1, <2>2, SumOfSame
  <2> QED  BY <2>4, <2>5, <2>6, SumOnSetIs
<1>5. /\ IsFiniteSet(Lined(out)) /\ Lined(out) \subseteq Ent
      /\ Debits(out, "2000") = SumOf(Dr("2000"), Lined(out))
      /\ IsFiniteSet(Lined(back)) /\ Lined(back) \subseteq Ent
      /\ Credits(back, "2000") = SumOf(Cr("2000"), Lined(back))
  BY SidesAreSums
\* What was issued, added up payout by payout.
<1>6. SumOf(i, K) = Debits(out, "2000")
  <2> DEFINE A == Lined(out)
             own == [e \in A |-> e[1][2]]
             d == [e \in A |-> Dr("2000")[e]]
  <2>1. \A e \in out : \E k \in K : e[1] = Issues(k) /\ e[1][2] = k
    <3> TAKE e \in out
    <3>1. PICK k \in K : e \in Entries({Issues(k)})
      OBVIOUS
    <3>2. e[1] = Issues(k)
      BY <1>e, <3>1
    <3> QED  BY <1>e, <3>1, <3>2
  <2>2. own \in [A -> K] /\ \A e \in A : own[e] = e[1][2] /\ e \in out
    BY <2>1 DEF Lined
  <2>3. d \in [A -> Int] /\ \A e \in A : d[e] = Dr("2000")[e]
    BY <1>5, EntryValues
  <2>4. \A k \in K : {e \in A : own[e] = k} = I[k]
    <3> TAKE k \in K
    <3>1. \A e \in Entries({Issues(k)}) : e \in out /\ e[1][2] = k
      BY <1>e
    <3>2. \A e \in out : e[1][2] = k => e \in Entries({Issues(k)})
      <4> TAKE e \in out
      <4>1. PICK j \in K : e \in Entries({Issues(j)})
        OBVIOUS
      <4>2. e[1][2] = j
        BY <1>e, <4>1
      <4> QED  BY <4>1, <4>2
    <3> QED  BY <3>1, <3>2 DEF Lined
  <2> HIDE DEF A, own, d
  <2>5. \A k \in K : i[k] = SumOf(d, {e \in A : own[e] = k})
    <3> TAKE k \in K
    <3>1. SumOf(Dr("2000"), I[k]) = AmountOf[k] * Cardinality(I[k])
      BY <1>0, OfOnePayout
    <3>2. I[k] \in SUBSET A
      BY <2>4
    <3> HIDE DEF I
    <3>3. SumOf(d, I[k]) = SumOf(Dr("2000"), I[k])
      <4>1. \A e \in I[k] : d[e] = Dr("2000")[e]
        BY <2>3, <3>2
      <4>2. IsFiniteSet(A)
        BY <1>5 DEF A
      <4> QED  BY <3>2, <4>1, <4>2, SumOfSame
    <3> QED  BY <2>4, <3>1, <3>3
  <2> HIDE DEF i
  <2>6. IsFiniteSet(A)
    BY <1>5 DEF A
  <2>7. SumOf(i, K) = SumOf(d, A)
    BY <1>0, <1>2, <2>2, <2>3, <2>5, <2>6, SumOfFibers
  <2>8. SumOf(d, A) = SumOf(Dr("2000"), A)
    BY <2>3, <2>6, SumOfSame
  <2> QED  BY <1>5, <2>7, <2>8 DEF A
\* And what was unwound.
<1>7. SumOf(u, K) = Credits(back, "2000")
  <2> DEFINE A == Lined(back)
             own == [e \in A |-> e[1][2]]
             d == [e \in A |-> Cr("2000")[e]]
  <2>1. \A e \in back : \E k \in K : e[1] = Unwinds(k) /\ e[1][2] = k
    <3> TAKE e \in back
    <3>1. PICK k \in K : e \in Entries({Unwinds(k)})
      OBVIOUS
    <3>2. e[1] = Unwinds(k)
      BY <1>e, <3>1
    <3> QED  BY <1>e, <3>1, <3>2
  <2>2. own \in [A -> K] /\ \A e \in A : own[e] = e[1][2] /\ e \in back
    BY <2>1 DEF Lined
  <2>3. d \in [A -> Int] /\ \A e \in A : d[e] = Cr("2000")[e]
    BY <1>5, EntryValues
  <2>4. \A k \in K : {e \in A : own[e] = k} = U[k]
    <3> TAKE k \in K
    <3>1. \A e \in Entries({Unwinds(k)}) : e \in back /\ e[1][2] = k
      BY <1>e
    <3>2. \A e \in back : e[1][2] = k => e \in Entries({Unwinds(k)})
      <4> TAKE e \in back
      <4>1. PICK j \in K : e \in Entries({Unwinds(j)})
        OBVIOUS
      <4>2. e[1][2] = j
        BY <1>e, <4>1
      <4> QED  BY <4>1, <4>2
    <3> QED  BY <3>1, <3>2 DEF Lined
  <2> HIDE DEF A, own, d
  <2>5. \A k \in K : u[k] = SumOf(d, {e \in A : own[e] = k})
    <3> TAKE k \in K
    <3>1. SumOf(Cr("2000"), U[k]) = AmountOf[k] * Cardinality(U[k])
      BY <1>0, OfOnePayout
    <3>2. U[k] \in SUBSET A
      BY <2>4
    <3> HIDE DEF U
    <3>3. SumOf(d, U[k]) = SumOf(Cr("2000"), U[k])
      <4>1. \A e \in U[k] : d[e] = Cr("2000")[e]
        BY <2>3, <3>2
      <4>2. IsFiniteSet(A)
        BY <1>5 DEF A
      <4> QED  BY <3>2, <4>1, <4>2, SumOfSame
    <3> QED  BY <2>4, <3>1, <3>3
  <2> HIDE DEF u
  <2>6. IsFiniteSet(A)
    BY <1>5 DEF A
  <2>7. SumOf(u, K) = SumOf(d, A)
    BY <1>0, <1>2, <2>2, <2>3, <2>5, <2>6, SumOfFibers
  <2>8. SumOf(d, A) = SumOf(Cr("2000"), A)
    BY <2>3, <2>6, SumOfSame
  <2> QED  BY <1>5, <2>7, <2>8 DEF A
<1> HIDE DEF h, u, i
<1>8. SumFunctionOnSet(AmountOf, done) \in Int
  BY <1>3, <1>4
<1> QED  BY <1>3, <1>4, <1>6, <1>7, <1>8 DEF done

\* What a provider may still withdraw, with what was paid out or is held for it
\* and what customers got back, is no more than was earned.
THEOREM WithdrawalsAreCovered == LedgerSpec => []WithdrawableIsCovered
<1>1. LedgerIInv => WithdrawableIsCovered
  <2> DEFINE v == whose[1]
             c == whose[2]
             mine == {e \in ProviderEntries(v) : Currency[e[1][2]] = c}
             ofRefunds == {e \in mine : e[1][2] \in Refunds}
             ofPayments == {e \in mine : e[1][2] \in Payments}
             held == Held(v, c, {"on_hold", "processing", "succeeded"})
  <2> SUFFICES ASSUME LedgerIInv, query = "done", ~overtaken, withdrawable > 0,
                      \A w \in Workers : doing[w] = "idle", \A k \in astray : Owner[k] # v
               PROVE  withdrawable + held + Debits(ofRefunds, "2000") <= Credits(ofPayments, "2000")
    BY Zenon DEF WithdrawableIsCovered
  <2> DEFINE P == Found("booking_payment")
             I == Found("payout_issuance")
             U == Found("payout_failure_unwind")
             R == Found("refund_issuance")
             K == {k \in Payouts : Owner[k] = v /\ Currency[k] = c}
             onHold == {k \in K : payoutStatus[k] = "on_hold"}
             inTransit == {k \in K : payoutStatus[k] = "processing"}
             paid == {k \in K : payoutStatus[k] = "succeeded"}
  <2>0. LedgerTypeOK /\ found \subseteq Entries(EntryKinds) /\ withdrawable = (IF Free > 0 THEN Free ELSE 0)
    BY DEF LedgerIInv, WalletInv
  <2>1. /\ ProviderEntries(v) \subseteq Ent /\ IsFiniteSet(ProviderEntries(v))
        /\ \A e \in ProviderEntries(v) :
              /\ e[1] \in EntryKinds /\ e[2] \in DOMAIN journal[e[1]] /\ e = <<e[1], e[2]>>
              /\ OwnerOf(e[1][2]) = v
        /\ \A e : e \in found <=> /\ e \in ProviderEntries(v)
                                  /\ e[1][2] \in Payments => paymentStatus[e[1][2]] = "succeeded"
        /\ balance = Balance
    BY WhatIsFound
\* What is found of payouts is all of it; of payments and refunds, no more.
  <2>2. ASSUME NEW e \in mine
        PROVE  /\ e[1][1] = "booking_payment" <=> e[1][2] \in Payments
               /\ e[1][1] = "refund_issuance" <=> e[1][2] \in Refunds
               /\ e[1][1] \in {"payout_issuance", "payout_failure_unwind"} <=> e[1][2] \in Payouts
               /\ e[1] = <<e[1][1], e[1][2]>>
    <3>1. e[1] \in EntryKinds
      BY <2>1
    <3> QED  BY <3>1, KindTyped
  <2>3. P \subseteq ofPayments /\ R = ofRefunds
    <3>1. Payments \cap Refunds = {}
      BY LedgerAssumption
    <3> QED  BY <2>1, <2>2, <3>1 DEF Found
  <2>4. \A e : e \in I <=> \E k \in K : e \in Entries({Issues(k)})
    <3> SUFFICES ASSUME NEW e PROVE e \in I <=> \E k \in K : e \in Entries({Issues(k)})
      OBVIOUS
    <3>1. ASSUME e \in I PROVE \E k \in K : e \in Entries({Issues(k)})
      <4>1. /\ e \in mine /\ e[1][1] = "payout_issuance"
        BY <2>1, <3>1 DEF Found
      <4>2. /\ e[1] = Issues(e[1][2]) /\ e[1][2] \in Payouts
            /\ e[2] \in DOMAIN journal[e[1]] /\ e = <<e[1], e[2]>>
        BY <2>1, <2>2, <4>1 DEF Issues
      <4>3. e[1][2] \in K
        <5>1. OwnerOf(e[1][2]) = Owner[e[1][2]] /\ OwnerOf(e[1][2]) = v
          BY <2>1, <4>1, <4>2, LedgerAssumption DEF OwnerOf
        <5> QED  BY <4>1, <4>2, <5>1
      <4>4. e \in Entries({Issues(e[1][2])})
        BY <2>0, <4>2, PayoutKinds, EntriesFinite
      <4> QED  BY <4>3, <4>4
    <3>2. ASSUME NEW k \in K, e \in Entries({Issues(k)}) PROVE e \in I
      <4>1. /\ e[1] = Issues(k) /\ e[1][2] = k /\ e[1][1] = "payout_issuance" /\ e[1] \in EntryKinds
            /\ e = <<e[1], e[2]>> /\ e[2] \in DOMAIN journal[e[1]]
        BY <2>0, <3>2, PayoutKinds, EntriesFinite
      <4>2. OwnerOf(k) = v /\ k \notin Payments
        BY LedgerAssumption DEF OwnerOf
      <4>3. e \in ProviderEntries(v)
        BY <2>0, <4>1, <4>2, EntriesFinite DEF ProviderEntries
      <4> QED  BY <2>1, <4>1, <4>2, <4>3 DEF Found
    <3> QED  BY <3>1, <3>2
  <2>5. \A e : e \in U <=> \E k \in K : e \in Entries({Unwinds(k)})
    <3> SUFFICES ASSUME NEW e PROVE e \in U <=> \E k \in K : e \in Entries({Unwinds(k)})
      OBVIOUS
    <3>1. ASSUME e \in U PROVE \E k \in K : e \in Entries({Unwinds(k)})
      <4>1. /\ e \in mine /\ e[1][1] = "payout_failure_unwind"
        BY <2>1, <3>1 DEF Found
      <4>2. /\ e[1] = Unwinds(e[1][2]) /\ e[1][2] \in Payouts
            /\ e[2] \in DOMAIN journal[e[1]] /\ e = <<e[1], e[2]>>
        BY <2>1, <2>2, <4>1 DEF Unwinds
      <4>3. e[1][2] \in K
        <5>1. OwnerOf(e[1][2]) = Owner[e[1][2]] /\ OwnerOf(e[1][2]) = v
          BY <2>1, <4>1, <4>2, LedgerAssumption DEF OwnerOf
        <5> QED  BY <4>1, <4>2, <5>1
      <4>4. e \in Entries({Unwinds(e[1][2])})
        BY <2>0, <4>2, PayoutKinds, EntriesFinite
      <4> QED  BY <4>3, <4>4
    <3>2. ASSUME NEW k \in K, e \in Entries({Unwinds(k)}) PROVE e \in U
      <4>1. /\ e[1] = Unwinds(k) /\ e[1][2] = k /\ e[1][1] = "payout_failure_unwind" /\ e[1] \in EntryKinds
            /\ e = <<e[1], e[2]>> /\ e[2] \in DOMAIN journal[e[1]]
        BY <2>0, <3>2, PayoutKinds, EntriesFinite
      <4>2. OwnerOf(k) = v /\ k \notin Payments
        BY LedgerAssumption DEF OwnerOf
      <4>3. e \in ProviderEntries(v)
        BY <2>0, <4>1, <4>2, EntriesFinite DEF ProviderEntries
      <4> QED  BY <2>1, <4>1, <4>2, <4>3 DEF Found
    <3> QED  BY <3>1, <3>2
  <2>6. /\ P \in SUBSET Ent /\ IsFiniteSet(P) /\ I \in SUBSET Ent /\ IsFiniteSet(I)
        /\ U \in SUBSET Ent /\ IsFiniteSet(U) /\ R \in SUBSET Ent /\ IsFiniteSet(R)
    BY <2>0, FoundTyped
  <2>7. K \in SUBSET Payouts /\ \A k \in K : k \notin astray
    OBVIOUS
\* The payouts' part.
  <2>8. /\ SumFunctionOnSet(AmountOf, paid) \in Int
        /\ SumFunctionOnSet(AmountOf, paid) + Credits(U, "2000") <= Debits(I, "2000")
    <3> HIDE DEF I, U, K, v
    <3> QED  BY <2>4, <2>5, <2>6, <2>7, PayoutsCovered
\* The statuses' part.
  <2>9. /\ held = SumFunctionOnSet(AmountOf, onHold) + SumFunctionOnSet(AmountOf, inTransit)
                    + SumFunctionOnSet(AmountOf, paid)
        /\ Free = balance - SumFunctionOnSet(AmountOf, inTransit) - SumFunctionOnSet(AmountOf, onHold)
        /\ SumFunctionOnSet(AmountOf, onHold) \in Int /\ SumFunctionOnSet(AmountOf, inTransit) \in Int
    <3> DEFINE all == {k \in Payouts : /\ Owner[k] = v /\ Currency[k] = c
                                       /\ payoutStatus[k] \in {"on_hold", "processing", "succeeded"}}
    <3>1. /\ held = SumFunctionOnSet(AmountOf, all)
          /\ Held(v, c, {"processing"}) = SumFunctionOnSet(AmountOf,
                {k \in Payouts : Owner[k] = v /\ Currency[k] = c /\ payoutStatus[k] \in {"processing"}})
          /\ Held(v, c, {"on_hold"}) = SumFunctionOnSet(AmountOf,
                {k \in Payouts : Owner[k] = v /\ Currency[k] = c /\ payoutStatus[k] \in {"on_hold"}})
      BY Zenon DEF Held
    <3>2. /\ {k \in Payouts : Owner[k] = v /\ Currency[k] = c /\ payoutStatus[k] \in {"processing"}} = inTransit
          /\ {k \in Payouts : Owner[k] = v /\ Currency[k] = c /\ payoutStatus[k] \in {"on_hold"}} = onHold
          /\ all = (onHold \cup inTransit) \cup paid
      OBVIOUS
    <3>3. Free = balance - Held(v, c, {"processing"}) - Held(v, c, {"on_hold"})
      BY Zenon DEF Free
    <3>4. /\ onHold \in SUBSET Refs /\ inTransit \in SUBSET Refs /\ paid \in SUBSET Refs
          /\ onHold \cap inTransit = {} /\ (onHold \cup inTransit) \cap paid = {}
          /\ onHold \cup inTransit \in SUBSET Refs
      BY DEF Refs
    <3>5. AmountOf \in [Refs -> Int] /\ IsFiniteSet(Refs)
      BY LedgerAssumption, RefsFinite
    <3> HIDE DEF held, all, onHold, inTransit, paid
    <3>6. /\ SumOf(AmountOf, (onHold \cup inTransit) \cup paid)
                = SumOf(AmountOf, onHold \cup inTransit) + SumOf(AmountOf, paid)
          /\ SumOf(AmountOf, onHold \cup inTransit) = SumOf(AmountOf, onHold) + SumOf(AmountOf, inTransit)
      BY <3>4, <3>5, SumOfParts
    <3>7. /\ SumOf(AmountOf, onHold) \in Int /\ SumOf(AmountOf, inTransit) \in Int
      BY <3>4, <3>5, SumOfInt
    <3>8. /\ SumFunctionOnSet(AmountOf, onHold) = SumOf(AmountOf, onHold)
          /\ SumFunctionOnSet(AmountOf, inTransit) = SumOf(AmountOf, inTransit)
          /\ SumFunctionOnSet(AmountOf, paid) = SumOf(AmountOf, paid)
          /\ SumFunctionOnSet(AmountOf, all) = SumOf(AmountOf, all)
      BY SumOnSetIs
    <3> QED  BY <3>1, <3>2, <3>3, <3>6, <3>7, <3>8
\* The payments' part.
  <2>10. /\ Credits(P, "2000") <= Credits(ofPayments, "2000")
         /\ Credits(P, "2000") \in Int /\ Credits(ofPayments, "2000") \in Int
    <3>1. ofPayments \subseteq ProviderEntries(v)
      OBVIOUS
    <3> HIDE DEF ofPayments, P, v
    <3>2. ofPayments \in SUBSET Ent /\ IsFiniteSet(ofPayments) /\ P \in SUBSET ofPayments
      BY <2>1, <2>3, <3>1, FS_Subset
    <3> QED  BY <3>2, SidesSplit, SidesTyped
  <2>11. Balance = Credits(P, "2000") - Debits(I, "2000") - Debits(R, "2000") + Credits(U, "2000")
    BY Zenon DEF Balance
  <2>12. /\ Debits(I, "2000") \in Int /\ Debits(R, "2000") \in Int /\ Credits(U, "2000") \in Int
         /\ Debits(ofRefunds, "2000") = Debits(R, "2000")
    BY <2>3, <2>6, SidesTyped
  <2>13. balance = Balance /\ withdrawable = Free /\ balance \in Int
    BY <2>0, <2>1 DEF LedgerTypeOK
  <2> HIDE DEF P, I, U, R, K, onHold, inTransit, paid, held, ofRefunds, ofPayments, mine, v, c
  <2> QED  BY <2>8, <2>9, <2>10, <2>11, <2>12, <2>13
<1> QED  BY <1>1, LedgerInvariant, PTL
=============================================================================
