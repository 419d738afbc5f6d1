------------------------------ MODULE LedgerSums ------------------------------
(***************************************************************************)
(* What a ledger's entries sum to.  The community modules' MapThenSumSet is  *)
(* a recursive function over the subsets of its argument, which takes the    *)
(* elements in the order of a CHOOSE; here it is shown that the order does   *)
(* not matter, so that one more entry adds its amount to the sum.           *)
(*                                                                         *)
(* The inductions take the smallest of the sets that would refute a          *)
(* statement, which is a fact about a set and needs no operator parameter.   *)
(***************************************************************************)
EXTENDS Integers, FiniteSets, FiniteSetTheorems, WellFoundedInduction, TLAPS

\* The entry that is counted first.
First(s) == CHOOSE e \in s : TRUE

\* f is what MapThenSumSet defines to sum the amounts of S.
IsTally(f, S) ==
    f = [s \in SUBSET S |-> IF s = {} THEN 0 ELSE First(s).amount + f[s \ {First(s)}]]

Tally(S) == CHOOSE f : IsTally(f, S)

Total(S) == Tally(S)[S]

Amounts(S) == \A e \in S : e.amount \in Int

-----------------------------------------------------------------------------
\* A non-empty set of natural numbers has a least one.
LEMMA SmallestNumber ==
    ASSUME NEW T, T \subseteq Nat, T # {}
    PROVE  \E n \in T : \A m \in T : n <= m
<1>. DEFINE R == OpToRel(<, Nat)
<1>1. IsWellFoundedOn(R, Nat)
    BY NatLessThanWellFounded
<1>2. \A m, n \in Nat : m < n => <<m, n>> \in R
    BY DEF OpToRel
<1>. HIDE DEF R
<1>3. PICK n \in T : \A m \in T : <<m, n>> \notin R
    BY <1>1, WFMin
<1>4. ASSUME NEW m \in T
      PROVE  n <= m
    <2>1. m \in Nat /\ n \in Nat /\ ~(m < n)
        BY <1>2, <1>3
    <2>. QED
        BY <2>1
<1>. QED
    BY <1>3, <1>4

\* Of several finite sets, one contains no other of them.
LEMMA SmallestSet ==
    ASSUME NEW C, C # {}, \A S \in C : IsFiniteSet(S)
    PROVE  \E S \in C : \A U \in C : U \subseteq S => U = S
<1>. DEFINE T == {Cardinality(S) : S \in C}
<1>1. T \subseteq Nat /\ T # {}
    BY FS_CardinalityType
<1>2. PICK n \in T : \A m \in T : n <= m
    <2>. HIDE DEF T
    <2>. QED
        BY <1>1, SmallestNumber
<1>3. PICK S \in C : n = Cardinality(S)
    OBVIOUS
<1>4. ASSUME NEW U \in C, U \subseteq S
      PROVE  U = S
    <2>1. IsFiniteSet(S) /\ Cardinality(S) <= Cardinality(U)
        BY <1>2, <1>3
    <2>2. /\ Cardinality(U) <= Cardinality(S)
          /\ Cardinality(S) = Cardinality(U) => S = U
        BY <1>4, <2>1, FS_Subset
    <2>3. Cardinality(S) \in Nat /\ Cardinality(U) \in Nat
        BY <1>4, FS_CardinalityType
    <2>. QED
        BY <2>1, <2>2, <2>3
<1>. QED
    BY <1>3, <1>4

\* A non-empty set has a first entry.
LEMMA FirstIsOne == ASSUME NEW s, s # {} PROVE First(s) \in s
BY DEF First

\* Two tallies agree where both are defined.
LEMMA TalliesAgree ==
    ASSUME NEW S, NEW T, NEW f, NEW g, IsFiniteSet(S), IsTally(f, S), IsTally(g, T)
    PROVE  \A s \in SUBSET S : s \in SUBSET T => f[s] = g[s]
<1>. DEFINE C == {s \in SUBSET S : s \in SUBSET T /\ f[s] # g[s]}
<1>. SUFFICES ASSUME C # {}
              PROVE  FALSE
    OBVIOUS
<1>1. PICK s \in C : \A u \in C : u \subseteq s => u = s
    <2>1. \A s \in C : IsFiniteSet(s)
        BY FS_Subset
    <2>. HIDE DEF C
    <2>. QED
        BY <2>1, SmallestSet
<1>2. CASE s = {}
    BY <1>2 DEF IsTally
<1>3. CASE s # {}
    <2>. DEFINE u == s \ {First(s)}
    <2>1. u \subseteq s /\ u # s
        BY <1>3, FirstIsOne
    <2>2. f[u] = g[u]
        BY <1>1, <2>1
    <2>3. f[s] = First(s).amount + f[u] /\ g[s] = First(s).amount + g[u]
        BY <1>3 DEF IsTally
    <2>. QED
        BY <2>2, <2>3
<1>. QED
    BY <1>2, <1>3

\* A finite set has a tally, and so the definition by recursion defines one.
LEMMA TallyDefined ==
    ASSUME NEW S, IsFiniteSet(S)
    PROVE  IsTally(Tally(S), S)
<1>. DEFINE C == {s \in SUBSET S : ~IsTally(Tally(s), s)}
<1>. SUFFICES ASSUME C # {}
              PROVE  FALSE
    OBVIOUS
<1>1. PICK T \in C : \A U \in C : U \subseteq T => U = T
    <2>1. \A s \in C : IsFiniteSet(s)
        BY FS_Subset
    <2>. HIDE DEF C
    <2>. QED
        BY <2>1, SmallestSet
<1>2. IsFiniteSet(T) /\ T \in SUBSET S
    BY FS_Subset
<1>3. \A u \in SUBSET T : u # T => IsTally(Tally(u), u) /\ IsFiniteSet(u)
    BY <1>1, <1>2, FS_Subset
<1>. DEFINE f == [s \in SUBSET T |-> IF s = {} THEN 0
                                    ELSE First(s).amount + Total(s \ {First(s)})]
<1>4. ASSUME NEW u \in SUBSET T, u # T
      PROVE  f[u] = Total(u)
    <2>1. IsTally(Tally(u), u) /\ IsFiniteSet(u)
        BY <1>3, <1>4
    <2>2. CASE u = {}
        BY <2>1, <2>2 DEF IsTally, Total
    <2>3. CASE u # {}
        <3>. DEFINE v == u \ {First(u)}
        <3>1. v \in SUBSET u /\ v \in SUBSET T /\ v # T
            BY <1>4
        <3>2. IsTally(Tally(v), v)
            BY <1>3, <3>1
        <3>3. Tally(u)[v] = Total(v)
            BY <2>1, <3>1, <3>2, TalliesAgree DEF Total
        <3>4. Total(u) = First(u).amount + Tally(u)[v]
            BY <2>1, <2>3 DEF IsTally, Total
        <3>. QED
            BY <2>3, <3>3, <3>4
    <2>. QED
        BY <2>2, <2>3
<1>5. IsTally(f, T)
    <2>1. ASSUME NEW s \in SUBSET T, s # {}
          PROVE  f[s \ {First(s)}] = Total(s \ {First(s)})
        <3>1. s \ {First(s)} \in SUBSET T /\ s \ {First(s)} # T
            BY <2>1, FirstIsOne
        <3>. HIDE DEF f
        <3>. QED
            BY <1>4, <3>1
    <2>. QED
        BY <2>1 DEF IsTally
<1>6. IsTally(Tally(T), T)
    <2>. HIDE DEF f
    <2>. QED
        BY <1>5 DEF Tally
<1>. QED
    BY <1>6

-----------------------------------------------------------------------------
(* The total of a finite set, without its tally.                            *)

\* The total is that of the first entry and of the rest.
LEMMA TotalByFirst ==
    ASSUME NEW S, IsFiniteSet(S)
    PROVE  Total(S) = IF S = {} THEN 0 ELSE First(S).amount + Total(S \ {First(S)})
<1>1. IsTally(Tally(S), S)
    BY TallyDefined
<1>2. CASE S = {}
    BY <1>1, <1>2 DEF IsTally, Total
<1>3. CASE S # {}
    <2>. DEFINE U == S \ {First(S)}
    <2>1. IsFiniteSet(U) /\ U \in SUBSET S
        BY FS_Subset
    <2>2. Tally(S)[U] = Total(U)
        BY <1>1, <2>1, TallyDefined, TalliesAgree DEF Total
    <2>3. Total(S) = First(S).amount + Tally(S)[U]
        BY <1>1, <1>3 DEF IsTally, Total
    <2>. QED
        BY <1>3, <2>2, <2>3
<1>. QED
    BY <1>2, <1>3

\* Integer amounts sum to an integer.
LEMMA TotalIsInteger ==
    ASSUME NEW S, IsFiniteSet(S), Amounts(S)
    PROVE  Total(S) \in Int
<1>. DEFINE C == {s \in SUBSET S : Total(s) \notin Int}
<1>. SUFFICES ASSUME C # {}
              PROVE  FALSE
    OBVIOUS
<1>1. PICK T \in C : \A U \in C : U \subseteq T => U = T
    <2>1. \A s \in C : IsFiniteSet(s)
        BY FS_Subset
    <2>. HIDE DEF C
    <2>. QED
        BY <2>1, SmallestSet
<1>2. IsFiniteSet(T)
    BY FS_Subset
<1>3. CASE T = {}
    BY <1>2, <1>3, TotalByFirst
<1>4. CASE T # {}
    <2>1. First(T) \in T
        BY <1>4, FirstIsOne
    <2>2. Total(T \ {First(T)}) \in Int
        BY <1>1, <2>1
    <2>3. First(T).amount \in Int
        BY <2>1 DEF Amounts
    <2>. QED
        BY <1>2, <1>4, <2>2, <2>3, TotalByFirst
<1>. QED
    BY <1>3, <1>4

\* Whichever entry is taken out, it leaves the rest of the total.
LEMMA TotalByAny ==
    ASSUME NEW S, IsFiniteSet(S), Amounts(S), NEW e \in S
    PROVE  Total(S) = e.amount + Total(S \ {e})
<1>. DEFINE C == {s \in SUBSET S : \E x \in s : Total(s) # x.amount + Total(s \ {x})}
<1>. SUFFICES C = {}
    OBVIOUS
<1>. SUFFICES ASSUME C # {}
              PROVE  FALSE
    OBVIOUS
<1>1. PICK T \in C : \A U \in C : U \subseteq T => U = T
    <2>1. \A s \in C : IsFiniteSet(s)
        BY FS_Subset
    <2>. HIDE DEF C
    <2>. QED
        BY <2>1, SmallestSet
<1>2. IsFiniteSet(T) /\ Amounts(T)
    BY FS_Subset DEF Amounts
<1>3. PICK x \in T : Total(T) # x.amount + Total(T \ {x})
    OBVIOUS
<1>. DEFINE y == First(T)
            U == T \ {x}
            V == T \ {y}
            W == (T \ {x}) \ {y}
<1>4. y \in T /\ Total(T) = y.amount + Total(V)
    BY <1>2, TotalByFirst, FirstIsOne
<1>5. x # y
    BY <1>3, <1>4
<1>6. U \subseteq T /\ U # T /\ V \subseteq T /\ V # T /\ y \in U /\ x \in V
    BY <1>4, <1>5
<1>7. U \notin C /\ V \notin C /\ U \in SUBSET S /\ V \in SUBSET S
    BY <1>1, <1>6
<1>8. Total(U) = y.amount + Total(W)
    BY <1>6, <1>7
<1>9. Total(V) = x.amount + Total(W)
    <2>1. V \ {x} = W
        OBVIOUS
    <2>2. Total(V) = x.amount + Total(V \ {x})
        BY <1>6, <1>7
    <2>. QED
        BY <2>1, <2>2
<1>10. Total(W) \in Int /\ x.amount \in Int /\ y.amount \in Int
    <2>1. IsFiniteSet(W) /\ Amounts(W)
        BY <1>2, FS_Subset DEF Amounts
    <2>. QED
        BY <1>2, <1>4, <2>1, TotalIsInteger DEF Amounts
<1>. QED
    BY <1>3, <1>4, <1>8, <1>9, <1>10

\* An empty ledger sums to nothing.
LEMMA TotalOfNone == Total({}) = 0
BY FS_EmptySet, TotalByFirst

\* One more entry adds its amount.
LEMMA TotalOfOneMore ==
    ASSUME NEW S, IsFiniteSet(S), Amounts(S), NEW e, e \notin S, e.amount \in Int
    PROVE  Total(S \cup {e}) = Total(S) + e.amount
<1>1. IsFiniteSet(S \cup {e}) /\ Amounts(S \cup {e})
    BY FS_AddElement DEF Amounts
<1>2. (S \cup {e}) \ {e} = S
    OBVIOUS
<1>3. Total(S \cup {e}) = e.amount + Total(S)
    BY <1>1, <1>2, TotalByAny
<1>. QED
    BY <1>3, TotalIsInteger
=============================================================================
