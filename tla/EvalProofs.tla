----------------------------- MODULE EvalProofs -----------------------------
(***************************************************************************)
(* Theorems about Eval for every schema, every set of rows, every subject, *)
(* every fanout limit, memo capacity and depth.                            *)
(*                                                                         *)
(* The argument.  A call that is evaluated while the keys in `off` are     *)
(* active sees the snapshot in which those keys have no members: its       *)
(* answer is right for Sure and Possible with those keys off.  EnterSure   *)
(* and EnterPossible carry an answer out of the call of a key k: what is   *)
(* right for the rewrite of k with k off too is right for k.  So the root, *)
(* under which nothing is active, is right as such.  With a memo the       *)
(* answers are kept for other stacks, so they must be right with nothing   *)
(* off, which they are as long as no cycle was cut.                        *)
(***************************************************************************)
EXTENDS Eval, FiniteSetTheorems, WellFoundedInduction, TLAPS

-----------------------------------------------------------------------------
(* Least fixed points.                                                     *)

(* Every nonempty set of natural numbers has a least element.              *)
LEMMA LeastNumber ==
    ASSUME NEW T \in SUBSET Nat, T # {}
    PROVE  \E n \in T : \A m \in T : n <= m
<1> DEFINE R == OpToRel(<, Nat)
<1>1. IsWellFoundedOn(R, Nat)
  BY NatLessThanWellFounded
<1>2. \E x \in T : \A y \in T : ~ (<<y, x>> \in R)
  BY <1>1, WFMin
<1>3. \A x, y \in Nat : <<y, x>> \in R <=> y < x
  BY DEF OpToRel
<1>4. PICK x \in T : \A y \in T : ~ (<<y, x>> \in R)
  BY <1>2
<1>5. \A y \in T : ~(y < x)
  BY <1>3, <1>4
<1> HIDE DEF R
<1> QED BY <1>5

(* Induction, for a property given as the set of numbers that have it.     *)
LEMMA Induction ==
    ASSUME NEW T \in SUBSET Nat, 0 \in T, \A n \in T : n + 1 \in T
    PROVE  \A n \in Nat : n \in T
<1> SUFFICES ASSUME Nat \ T # {} PROVE FALSE
  OBVIOUS
<1>1. PICK n \in Nat \ T : \A m \in Nat \ T : n <= m
  BY LeastNumber
<1>2. n - 1 \in T
  BY <1>1
<1> QED BY <1>1, <1>2

(* The recursion of Lfp: the functions that follow it up to n.             *)
GrownBody(G, F, i, g) ==
    [X \in SUBSET G |-> LET more == F[X] IN IF i = 0 \/ more = X THEN X ELSE g[i - 1][more]]

GrownTo(G, F, n, g) ==
    \A i \in 0..n : g[i] = GrownBody(G, F, i, g)

(* Two such functions agree where both are defined.                        *)
LEMMA GrownUnique ==
    ASSUME NEW G, NEW F, NEW n \in Nat, NEW m \in Nat, NEW g, NEW h,
           GrownTo(G, F, n, g), GrownTo(G, F, m, h)
    PROVE  \A i \in Nat : i <= n /\ i <= m => g[i] = h[i]
<1> DEFINE T == {i \in Nat : i <= n /\ i <= m => g[i] = h[i]}
<1>1. 0 \in T
  <2>1. GrownBody(G, F, 0, g) = GrownBody(G, F, 0, h)
    BY DEF GrownBody
  <2> QED BY <2>1 DEF GrownTo
<1>2. ASSUME NEW i \in T PROVE i + 1 \in T
  <2> SUFFICES ASSUME i + 1 <= n, i + 1 <= m PROVE g[i + 1] = h[i + 1]
    OBVIOUS
  <2>1. g[i] = h[i]
    OBVIOUS
  <2>2. g[(i + 1) - 1] = h[(i + 1) - 1]
    BY <2>1
  <2>3. GrownBody(G, F, i + 1, g) = GrownBody(G, F, i + 1, h)
    BY <2>2, Zenon DEF GrownBody
  <2> QED BY <2>3 DEF GrownTo
<1> HIDE DEF T
<1>3. \A i \in Nat : i \in T
  BY <1>1, <1>2, Induction DEF T
<1> QED BY <1>3 DEF T

(* There is one up to every n ...                                          *)
LEMMA GrownExists ==
    ASSUME NEW G, NEW F
    PROVE  \A n \in Nat : \E g : GrownTo(G, F, n, g)
<1> DEFINE T == {n \in Nat : \E g : GrownTo(G, F, n, g)}
<1>1. 0 \in T
  <2> DEFINE g == [i \in 0..0 |-> [X \in SUBSET G |-> X]]
  <2>1. GrownTo(G, F, 0, g)
    BY DEF GrownTo, GrownBody
  <2> QED BY <2>1
<1>2. ASSUME NEW n \in T PROVE n + 1 \in T
  <2>1. PICK g : GrownTo(G, F, n, g)
    OBVIOUS
  <2> DEFINE h == [i \in 0..(n + 1) |-> IF i <= n THEN g[i] ELSE GrownBody(G, F, n + 1, g)]
  <2>2. ASSUME NEW i \in 0..(n + 1) PROVE h[i] = GrownBody(G, F, i, h)
    <3>1. CASE i = 0
      <4>1. GrownBody(G, F, i, g) = GrownBody(G, F, i, h)
        BY <3>1 DEF GrownBody
      <4> QED BY <4>1, <2>1, <3>1 DEF GrownTo
    <3>2. CASE i > 0
      <4>1. g[i - 1] = h[i - 1]
        BY <3>2
      <4> HIDE DEF h
      <4>2. GrownBody(G, F, i, g) = GrownBody(G, F, i, h)
        BY <4>1, Zenon DEF GrownBody
      <4>3. h[i] = GrownBody(G, F, i, g)
        BY <2>1 DEF GrownTo, h
      <4> QED BY <4>2, <4>3
    <3> QED BY <3>1, <3>2
  <2> HIDE DEF h
  <2>3. GrownTo(G, F, n + 1, h)
    BY <2>2 DEF GrownTo
  <2> QED BY <2>3
<1> HIDE DEF T
<1>3. \A n \in Nat : n \in T
  BY <1>1, <1>2, Induction DEF T
<1> QED BY <1>3 DEF T

(* ... and so one for all of Nat: the recursion of Lfp defines a function. *)
LEMMA GrownFunction ==
    ASSUME NEW G, NEW F
    PROVE  \E f : f = [n \in Nat |-> GrownBody(G, F, n, f)]
<1> DEFINE to(n) == CHOOSE g : GrownTo(G, F, n, g)
           f == [n \in Nat |-> to(n)[n]]
<1>1. \A n \in Nat : GrownTo(G, F, n, to(n))
  BY GrownExists
<1> HIDE DEF to
<1>2. ASSUME NEW n \in Nat PROVE f[n] = GrownBody(G, F, n, f)
  <2>1. f[n] = GrownBody(G, F, n, to(n))
    BY <1>1 DEF GrownTo
  <2>2. n > 0 => to(n)[n - 1] = f[n - 1]
    <3> SUFFICES ASSUME n > 0 PROVE to(n)[n - 1] = to(n - 1)[n - 1]
      OBVIOUS
    <3> QED BY <1>1, GrownUnique
  <2> HIDE DEF f
  <2>3. GrownBody(G, F, n, to(n)) = GrownBody(G, F, n, f)
    <3>1. CASE n = 0
      BY <3>1 DEF GrownBody
    <3>2. CASE n > 0
      BY <3>2, <2>2, Zenon DEF GrownBody
    <3> QED BY <3>1, <3>2
  <2> QED BY <2>1, <2>3
<1>3. f = [n \in Nat |-> GrownBody(G, F, n, f)]
  BY <1>2
<1> QED BY <1>3

(* Lfp is the least fixed point of a monotone function on a finite set: in *)
(* every step the set grows by an element or has stopped growing.          *)
LEMMA LfpIsLeast ==
    ASSUME NEW G, IsFiniteSet(G), NEW F \in [SUBSET G -> SUBSET G],
           \A X, Y \in SUBSET G : X \subseteq Y => F[X] \subseteq F[Y]
    PROVE  /\ Lfp(G, F) \in SUBSET G
           /\ F[Lfp(G, F)] = Lfp(G, F)
           /\ \A Y \in SUBSET G : F[Y] \subseteq Y => Lfp(G, F) \subseteq Y
<1> DEFINE grown[n \in Nat] ==
        [X \in SUBSET G |-> LET more == F[X] IN IF n = 0 \/ more = X THEN X ELSE grown[n - 1][more]]
<1>1. grown = [n \in Nat |-> GrownBody(G, F, n, grown)]
  <2>1. \E f : f = [n \in Nat |-> GrownBody(G, F, n, f)]
    BY GrownFunction
  <2> QED BY <2>1 DEF GrownBody
<1>2. Lfp(G, F) = grown[Cardinality(G) + 1][{}]
  BY DEF Lfp
<1> HIDE DEF grown
<1>3. \A n \in Nat, X \in SUBSET G :
          grown[n][X] = IF n = 0 \/ F[X] = X THEN X ELSE grown[n - 1][F[X]]
  <2> TAKE n \in Nat, X \in SUBSET G
  <2>1. grown[n] = GrownBody(G, F, n, grown)
    BY <1>1
  <2> QED BY <2>1 DEF GrownBody
<1> DEFINE Grows(n, X) ==
        /\ grown[n][X] \in SUBSET G
        /\ F[grown[n][X]] = grown[n][X] \/ Cardinality(grown[n][X]) >= Cardinality(X) + n
        /\ \A Y \in SUBSET G : F[Y] \subseteq Y /\ X \subseteq Y => grown[n][X] \subseteq Y
    T == {n \in Nat : \A X \in SUBSET G : X \subseteq F[X] => Grows(n, X)}
<1>4. \A X \in SUBSET G : IsFiniteSet(X) /\ Cardinality(X) \in Nat /\ Cardinality(X) <= Cardinality(G)
  BY FS_Subset, FS_CardinalityType
<1>5. 0 \in T
  <2> SUFFICES ASSUME NEW X \in SUBSET G PROVE Grows(0, X)
    OBVIOUS
  <2>1. grown[0][X] = X
    BY <1>3
  <2> QED BY <2>1, <1>4
<1>6. ASSUME NEW n \in T PROVE n + 1 \in T
  <2> SUFFICES ASSUME NEW X \in SUBSET G, X \subseteq F[X] PROVE Grows(n + 1, X)
    OBVIOUS
  <2>1. CASE F[X] = X
    <3>1. grown[n + 1][X] = X
      BY <2>1, <1>3
    <3> QED BY <3>1, <2>1
  <2>2. CASE F[X] # X
    <3>1. grown[n + 1][X] = grown[n][F[X]]
      BY <2>2, <1>3
    <3>2. F[X] \in SUBSET G /\ F[X] \subseteq F[F[X]]
      OBVIOUS
    <3>3. Grows(n, F[X])
      BY <3>2
    <3>4. Cardinality(F[X]) >= Cardinality(X) + 1
      <4>1. Cardinality(X) < Cardinality(F[X])
        BY <2>2, <3>2, <1>4, FS_Subset
      <4> QED BY <4>1, <1>4, <3>2
    <3>5. \A Y \in SUBSET G : F[Y] \subseteq Y /\ X \subseteq Y => F[X] \subseteq Y
      OBVIOUS
    <3>6. F[grown[n][F[X]]] = grown[n][F[X]] \/ Cardinality(grown[n][F[X]]) >= Cardinality(X) + (n + 1)
      BY <3>3, <3>4, <1>4, <3>2
    <3> QED BY <3>1, <3>3, <3>5, <3>6
  <2> QED BY <2>1, <2>2
<1> HIDE DEF T
<1>7. \A n \in Nat : n \in T
  BY <1>5, <1>6, Induction DEF T
<1>8. Cardinality(G) \in Nat
  BY FS_CardinalityType
<1>9. Grows(Cardinality(G) + 1, {})
  BY <1>7, <1>8 DEF T
<1>10. Cardinality({}) = 0
  BY FS_EmptySet
<1> QED BY <1>2, <1>4, <1>8, <1>9, <1>10

-----------------------------------------------------------------------------
(* Goals, and what is derived.                                             *)

(* A snapshot has finitely many keys and goals.                            *)
LEMMA KeyFinite == IsFiniteSet(Key)
<1> DEFINE P == Objects \X RelationNames
           f == [p \in P |-> [obj |-> p[1], rel |-> p[2]]]
<1>1. IsFiniteSet(P)
  BY SemanticsAssumption, FS_Product
<1>2. f \in Surjection(P, Key)
  <2>1. f \in [P -> Key]
    BY DEF Key
  <2>2. ASSUME NEW k \in Key PROVE \E p \in P : f[p] = k
    <3>1. <<k.obj, k.rel>> \in P /\ k = [obj |-> k.obj, rel |-> k.rel]
      BY DEF Key
    <3> QED BY <3>1
  <2> QED BY <2>1, <2>2 DEF Surjection
<1> QED BY <1>1, <1>2, FS_Surjection

LEMMA KeysFinite ==
    ASSUME NEW s PROVE IsFiniteSet(Keys(s)) /\ Keys(s) \subseteq Key
BY KeyFinite, FS_Subset DEF Keys

(* What a goal of a snapshot is.                                           *)
LEMMA GoalShape ==
    ASSUME NEW s, IsSnapshot(s), NEW g \in Goals(s)
    PROVE  /\ g = Goal(g.key, g.expr) /\ g.key \in Keys(s)
           /\ Rewrite(s, g.key) \in DOMAIN Parts
           /\ \/ g.expr = Whole
              \/ /\ g.expr \in Parts[Rewrite(s, g.key)]
                 /\ g.expr.op # "relation"
                 /\ IsExpression(g.expr, Parts[Rewrite(s, g.key)])
<1>0. PICK k \in Keys(s) : g \in {Goal(k, e) : e \in Parts[Rewrite(s, k)] \cup {Whole}}
  BY DEF Goals
<1>1. PICK e \in Parts[Rewrite(s, k)] \cup {Whole} : g = Goal(k, e)
  BY <1>0
<1>2. g.key = k /\ g.expr = e
  BY <1>1 DEF Goal
<1>3. Rewrite(s, k) \in DOMAIN Parts
  BY DEF Keys, Defined, IsSnapshot, Rewrite
<1>4. e = Whole \/ IsExpression(e, Parts[Rewrite(s, k)])
  BY <1>3, SemanticsAssumption
<1>5. IsExpression(e, Parts[Rewrite(s, k)]) => e.op # "relation"
  BY DEF IsExpression
<1> QED BY <1>1, <1>2, <1>3, <1>4, <1>5

(* The goals of a key.                                                     *)
LEMMA GoalIn ==
    ASSUME NEW s, NEW k \in Keys(s), NEW e \in Parts[Rewrite(s, k)] \cup {Whole}
    PROVE  Goal(k, e) \in Goals(s) /\ Goal(k, e).key = k /\ Goal(k, e).expr = e
BY DEF Goals, Goal

(* The goals are as many as the keys times the parts of their rewrites.    *)
LEMMA GoalsFinite ==
    ASSUME NEW s, IsSnapshot(s) PROVE IsFiniteSet(Goals(s))
<1> DEFINE K == Keys(s)
           p == [k \in K |-> Parts[Rewrite(s, k)]]
           Q == {Parts[Rewrite(s, k)] : k \in K}
           E == (UNION Q) \cup {Whole}
           f == [x \in K \X E |-> Goal(x[1], x[2])]
           H == {f[x] : x \in K \X E}
<1>1. IsFiniteSet(K)
  BY KeysFinite
<1>2. p \in Surjection(K, Q)
  BY DEF Surjection
<1>3. IsFiniteSet(Q)
  BY <1>1, <1>2, FS_Surjection
<1>4. ASSUME NEW q \in Q PROVE IsFiniteSet(q)
  <2>1. PICK k \in K : q = Parts[Rewrite(s, k)]
    OBVIOUS
  <2>2. Rewrite(s, k) \in DOMAIN Parts
    BY DEF Keys, Defined, IsSnapshot, Rewrite
  <2> QED BY <2>1, <2>2, SemanticsAssumption
<1>5. IsFiniteSet(UNION Q)
  BY <1>3, <1>4, FS_UNION
<1>6. IsFiniteSet(E)
  <2> DEFINE U == UNION Q
             W == {Whole}
  <2>1. IsFiniteSet(U) /\ IsFiniteSet(W)
    BY <1>5, FS_Singleton
  <2>2. E = U \cup W
    OBVIOUS
  <2> HIDE DEF U, W
  <2>3. IsFiniteSet(U \cup W)
    BY <2>1, FS_Union
  <2> QED BY <2>2, <2>3, Zenon
<1>7. IsFiniteSet(K \X E)
  BY <1>1, <1>6, FS_Product
<1>8. f \in Surjection(K \X E, H)
  <2>1. f \in [K \X E -> H]
    OBVIOUS
  <2> QED BY <2>1 DEF Surjection
<1>9. IsFiniteSet(H)
  BY <1>7, <1>8, FS_Surjection
<1>10. Goals(s) \subseteq H
  <2> SUFFICES ASSUME NEW g \in Goals(s) PROVE g \in H
    OBVIOUS
  <2>0. PICK k \in K : g \in {Goal(k, e) : e \in Parts[Rewrite(s, k)] \cup {Whole}}
    BY DEF Goals
  <2>1. PICK e \in Parts[Rewrite(s, k)] \cup {Whole} : g = Goal(k, e)
    BY <2>0
  <2>2. e \in E
    <3>1. Parts[Rewrite(s, k)] \in Q
      OBVIOUS
    <3>2. e \in Parts[Rewrite(s, k)] => e \in UNION Q
      BY <3>1, Zenon
    <3> QED BY <3>2, Zenon
  <2>3. <<k, e>> \in K \X E /\ f[<<k, e>>] = g
    BY <2>1, <2>2
  <2> QED BY <2>3
<1> QED BY <1>9, <1>10, FS_Subset

(* More goals to rely on, fewer exclusions and fewer keys without members  *)
(* let more follow.                                                        *)
LEMMA FollowsMonotone ==
    ASSUME NEW s, NEW u, NEW off, NEW off2, NEW g, NEW pos, NEW pos2, NEW neg, NEW neg2,
           off2 \subseteq off, pos \subseteq pos2, neg2 \subseteq neg,
           Follows(s, u, off, g, pos, neg)
    PROVE  Follows(s, u, off2, g, pos2, neg2)
BY DEF Follows

(* Only the key itself is affected by being taken to have no members.      *)
LEMMA FollowsOff ==
    ASSUME NEW s, IsSnapshot(s), NEW u, NEW off, NEW k, NEW g \in Goals(s), NEW pos, NEW neg,
           Follows(s, u, off, g, pos, neg), g # InRelation(k)
    PROVE  Follows(s, u, off \cup {k}, g, pos, neg)
<1>1. g.expr.op = "relation" => g.key # k
  <2> SUFFICES ASSUME g.expr.op = "relation", g.key = k PROVE FALSE
    OBVIOUS
  <2>1. g.expr = Whole /\ g = Goal(g.key, g.expr)
    BY GoalShape
  <2> QED BY <2>1 DEF InRelation
<1> QED BY <1>1 DEF Follows

(* Derived is closed under Follows, and the least set that is.             *)
LEMMA DerivedIsLeast ==
    ASSUME NEW s, IsSnapshot(s), NEW u, NEW off, NEW neg
    PROVE  /\ Derived(s, u, off, neg) \in SUBSET Goals(s)
           /\ \A g \in Goals(s) :
                 g \in Derived(s, u, off, neg) <=> Follows(s, u, off, g, Derived(s, u, off, neg), neg)
           /\ \A Y \in SUBSET Goals(s) :
                 (\A g \in Goals(s) : Follows(s, u, off, g, Y, neg) => g \in Y)
                     => Derived(s, u, off, neg) \subseteq Y
<1> DEFINE G == Goals(s)
           F == [X \in SUBSET G |-> {g \in G : Follows(s, u, off, g, X, neg)}]
           D == Derived(s, u, off, neg)
<1>1. D = Lfp(G, F)
  BY DEF Derived
<1>2. F \in [SUBSET G -> SUBSET G]
  OBVIOUS
<1>3. \A X, Y \in SUBSET G : X \subseteq Y => F[X] \subseteq F[Y]
  <2> SUFFICES ASSUME NEW X \in SUBSET G, NEW Y \in SUBSET G, X \subseteq Y,
                      NEW g \in G, Follows(s, u, off, g, X, neg)
               PROVE  Follows(s, u, off, g, Y, neg)
    OBVIOUS
  <2> QED BY FollowsMonotone
<1>4. IsFiniteSet(G)
  BY GoalsFinite
<1>5. /\ Lfp(G, F) \in SUBSET G
      /\ F[Lfp(G, F)] = Lfp(G, F)
      /\ \A Y \in SUBSET G : F[Y] \subseteq Y => Lfp(G, F) \subseteq Y
  <2> HIDE DEF F, G
  <2> QED BY <1>2, <1>3, <1>4, LfpIsLeast
<1>6. D \in SUBSET G /\ F[D] = D /\ \A Y \in SUBSET G : F[Y] \subseteq Y => D \subseteq Y
  BY <1>1, <1>5
<1> HIDE DEF D
<1>7. \A g \in G : g \in D <=> Follows(s, u, off, g, D, neg)
  BY <1>6
<1>8. \A Y \in SUBSET G : (\A g \in G : Follows(s, u, off, g, Y, neg) => g \in Y) => D \subseteq Y
  BY <1>6
<1> QED BY <1>6, <1>7, <1>8 DEF D

(* The more is excluded, and the more keys are off, the less is derived.   *)
LEMMA DerivedAntitone ==
    ASSUME NEW s, IsSnapshot(s), NEW u, NEW off, NEW off2, NEW neg, NEW neg2,
           off2 \subseteq off, neg2 \subseteq neg
    PROVE  Derived(s, u, off, neg) \subseteq Derived(s, u, off2, neg2)
<1> DEFINE Y == Derived(s, u, off2, neg2)
<1>1. Y \in SUBSET Goals(s) /\ \A g \in Goals(s) : g \in Y <=> Follows(s, u, off2, g, Y, neg2)
  BY DerivedIsLeast
<1> HIDE DEF Y
<1>2. \A g \in Goals(s) : Follows(s, u, off, g, Y, neg) => g \in Y
  BY <1>1, FollowsMonotone
<1>3. Derived(s, u, off, neg) \subseteq Y
  BY <1>1, <1>2, DerivedIsLeast
<1> QED BY <1>3 DEF Y

-----------------------------------------------------------------------------
(* What surely and what possibly holds.                                    *)

(* The least set that is derived from what it leaves possible.             *)
LEMMA SureIsLeast ==
    ASSUME NEW s, IsSnapshot(s), NEW u, NEW off
    PROVE  LET D(X) == Derived(s, u, off, X) IN
           /\ Sure(s, u, off) \in SUBSET Goals(s)
           /\ D(D(Sure(s, u, off))) = Sure(s, u, off)
           /\ \A Y \in SUBSET Goals(s) : D(D(Y)) \subseteq Y => Sure(s, u, off) \subseteq Y
<1> DEFINE D(X) == Derived(s, u, off, X)
           G == Goals(s)
           F == [X \in SUBSET G |-> D(D(X))]
<1>1. Sure(s, u, off) = Lfp(G, F)
  BY DEF Sure
<1>2. \A X : D(X) \in SUBSET G
  BY DerivedIsLeast
<1>3. \A X, Y : X \subseteq Y => D(Y) \subseteq D(X)
  BY DerivedAntitone
<1> HIDE DEF D, G
<1>4. F \in [SUBSET G -> SUBSET G]
  BY <1>2
<1>5. \A X, Y \in SUBSET G : X \subseteq Y => F[X] \subseteq F[Y]
  BY <1>3
<1>6. IsFiniteSet(G)
  BY GoalsFinite DEF G
<1>7. /\ Lfp(G, F) \in SUBSET G
      /\ F[Lfp(G, F)] = Lfp(G, F)
      /\ \A Y \in SUBSET G : F[Y] \subseteq Y => Lfp(G, F) \subseteq Y
  <2> HIDE DEF F
  <2> QED BY <1>4, <1>5, <1>6, LfpIsLeast
<1> DEFINE S == Sure(s, u, off)
<1>8. S \in SUBSET G /\ F[S] = S /\ \A Y \in SUBSET G : F[Y] \subseteq Y => S \subseteq Y
  BY <1>1, <1>7
<1> HIDE DEF S
<1>9. S \in SUBSET G /\ D(D(S)) = S /\ \A Y \in SUBSET G : D(D(Y)) \subseteq Y => S \subseteq Y
  BY <1>8
<1> QED BY <1>9 DEF S, D, G

(* Sure and Possible are the two ends of the same alternation.             *)
LEMMA SurePossible ==
    ASSUME NEW s, IsSnapshot(s), NEW u, NEW off
    PROVE  /\ Sure(s, u, off) = Derived(s, u, off, Possible(s, u, off))
           /\ Possible(s, u, off) = Derived(s, u, off, Sure(s, u, off))
           /\ Sure(s, u, off) \subseteq Possible(s, u, off)
           /\ Sure(s, u, off) \in SUBSET Goals(s) /\ Possible(s, u, off) \in SUBSET Goals(s)
<1> DEFINE D(X) == Derived(s, u, off, X)
           S == Sure(s, u, off)
           P == Possible(s, u, off)
           G == Goals(s)
<1>1. P = D(S)
  BY DEF Possible
<1>2. S \in SUBSET G /\ D(D(S)) = S /\ \A Y \in SUBSET G : D(D(Y)) \subseteq Y => S \subseteq Y
  BY SureIsLeast
<1>3. P \in SUBSET G
  BY <1>1, DerivedIsLeast
<1> HIDE DEF D, S, P, G
<1>4. S = D(P)
  BY <1>1, <1>2
<1>5. D(D(P)) = P
  BY <1>1, <1>4
<1>6. S \subseteq P
  BY <1>2, <1>3, <1>5
<1> QED BY <1>1, <1>2, <1>3, <1>4, <1>6 DEF D, S, P, G

(* A key that is off is not derived.                                       *)
LEMMA OffLeavesOut ==
    ASSUME NEW s, IsSnapshot(s), NEW u, NEW off, NEW k, k \in off, NEW neg
    PROVE  InRelation(k) \notin Derived(s, u, off, neg)
<1>1. ~Follows(s, u, off, InRelation(k), Derived(s, u, off, neg), neg)
  BY DEF Follows, InRelation, Goal, Whole
<1> QED BY <1>1, DerivedIsLeast

(* What is derived with k on, when k itself is not, is derived with k off. *)
LEMMA DerivedOff ==
    ASSUME NEW s, IsSnapshot(s), NEW u, NEW off, NEW k, NEW neg,
           InRelation(k) \notin Derived(s, u, off, neg)
    PROVE  Derived(s, u, off \cup {k}, neg) = Derived(s, u, off, neg)
<1> DEFINE X == Derived(s, u, off, neg)
           Y == Derived(s, u, off \cup {k}, neg)
           G == Goals(s)
<1>1. X \in SUBSET G /\ \A g \in G : g \in X <=> Follows(s, u, off, g, X, neg)
  BY DerivedIsLeast
<1>2. Y \in SUBSET G /\ \A g \in G : g \in Y <=> Follows(s, u, off \cup {k}, g, Y, neg)
  BY DerivedIsLeast
<1>3. Y \subseteq X
  BY DerivedAntitone
<1>4. InRelation(k) \notin X
  OBVIOUS
<1>5. X \subseteq Y
  <2>1. ASSUME NEW g \in G, Follows(s, u, off, g, Y, neg) PROVE g \in Y
    <3>1. g \in X
      BY <1>1, <1>3, <2>1, FollowsMonotone DEF X, Y
    <3>2. g # InRelation(k)
      BY <3>1, <1>4
    <3>3. Follows(s, u, off \cup {k}, g, Y, neg)
      BY <3>2, <2>1, FollowsOff
    <3> QED BY <3>3, <1>2
  <2> QED BY <1>2, <2>1, DerivedIsLeast
<1> QED BY <1>3, <1>5

(* Entering k, with k off below it, does not lose what is sure ...         *)
LEMMA EnterSure ==
    ASSUME NEW s, IsSnapshot(s), NEW u, NEW off, NEW k \in Keys(s), k \notin off,
           InRelation(k) \in Sure(s, u, off)
    PROVE  Goal(k, Rewrite(s, k)) \in Sure(s, u, off \cup {k})
<1> DEFINE D(X) == Derived(s, u, off, X)
           E(X) == Derived(s, u, off \cup {k}, X)
           S == Sure(s, u, off \cup {k})
           P == Possible(s, u, off \cup {k})
           G == Goals(s)
<1> SUFFICES ASSUME Goal(k, Rewrite(s, k)) \notin S PROVE FALSE
  OBVIOUS
<1>1. S = E(P) /\ P = E(S) /\ S \in SUBSET G /\ P \in SUBSET G
  BY SurePossible
<1>2. \A X : E(X) \subseteq D(X)
  BY DerivedAntitone
<1>3. P \subseteq D(S)
  BY <1>1, <1>2
<1>4. D(D(S)) \subseteq D(P)
  <2>1. \A X, Y : X \subseteq Y => D(Y) \subseteq D(X)
    BY DerivedAntitone
  <2> HIDE DEF D
  <2> QED BY <1>3, <2>1
<1>5. D(P) \subseteq S
  <2>1. ASSUME NEW g \in G, Follows(s, u, off, g, S, P) PROVE g \in S
    <3>1. g # InRelation(k)
      BY <2>1 DEF Follows, InRelation, Goal, Whole
    <3>2. Follows(s, u, off \cup {k}, g, S, P)
      BY <3>1, <2>1, FollowsOff
    <3>3. \A h \in G : h \in E(P) <=> Follows(s, u, off \cup {k}, h, E(P), P)
      BY DerivedIsLeast
    <3> QED BY <1>1, <3>2, <3>3
  <2>2. \A Y \in SUBSET G : (\A g \in G : Follows(s, u, off, g, Y, P) => g \in Y) => D(P) \subseteq Y
    BY DerivedIsLeast
  <2> HIDE DEF D, S, P, G
  <2> QED BY <1>1, <2>1, <2>2
<1>6. Sure(s, u, off) \subseteq S
  <2>1. D(D(S)) \subseteq S
    BY <1>4, <1>5
  <2>2. S \in SUBSET Goals(s)
    BY <1>1
  <2> HIDE DEF S
  <2> QED BY <2>1, <2>2, SureIsLeast
<1>7. InRelation(k) \notin S
  BY <1>1, OffLeavesOut
<1> QED BY <1>6, <1>7

(* ... and gains nothing that was not possible.                            *)
LEMMA EnterPossible ==
    ASSUME NEW s, IsSnapshot(s), NEW u, NEW off, NEW k \in Keys(s), k \notin off,
           InRelation(k) \notin Possible(s, u, off)
    PROVE  Goal(k, Rewrite(s, k)) \notin Possible(s, u, off \cup {k})
<1> DEFINE D(X) == Derived(s, u, off, X)
           E(X) == Derived(s, u, off \cup {k}, X)
           S == Sure(s, u, off)
           P == Possible(s, u, off)
           T == Sure(s, u, off \cup {k})
           Q == Possible(s, u, off \cup {k})
           G == Goals(s)
<1>1. S = D(P) /\ P = D(S) /\ S \subseteq P /\ S \in SUBSET G /\ P \in SUBSET G
  BY SurePossible
<1>2. T = E(Q) /\ Q = E(T) /\ T \in SUBSET G /\ Q \in SUBSET G
  BY SurePossible
<1>a. \A X, Y : X \subseteq Y => D(Y) \subseteq D(X) /\ E(Y) \subseteq E(X)
  BY DerivedAntitone
<1>3. InRelation(k) \notin P /\ InRelation(k) \notin S
  BY <1>1
<1>4. E(S) = P /\ E(P) = S
  BY <1>1, <1>3, DerivedOff
<1>5. T \subseteq S
  <2>1. E(E(S)) = S
    BY <1>4
  <2> HIDE DEF S
  <2> QED BY <1>1, <2>1, SureIsLeast
<1>6. P \subseteq Q
  <2> HIDE DEF E, S, T, P, Q
  <2>1. E(S) \subseteq E(T)
    BY <1>5, <1>a
  <2> QED BY <2>1, <1>4, <1>2
<1>7. D(Q) \subseteq S
  <2>1. D(Q) \subseteq D(P)
    BY <1>6, DerivedAntitone
  <2> QED BY <2>1, <1>1
<1>8. D(Q) = T
  <2>1. InRelation(k) \notin D(Q)
    BY <1>7, <1>3
  <2> QED BY <2>1, <1>2, DerivedOff
<1>9. P \subseteq D(T)
  BY <1>1, <1>5, DerivedAntitone
<1>10. S \subseteq T
  <2>1. D(D(T)) \subseteq T
    <3>1. Q \subseteq D(T)
      BY <1>2, DerivedAntitone
    <3> HIDE DEF D, T, Q
    <3>2. D(D(T)) \subseteq D(Q)
      BY <3>1, <1>a
    <3> QED BY <3>2, <1>8
  <2>2. \A Y \in SUBSET G : D(D(Y)) \subseteq Y => S \subseteq Y
    BY SureIsLeast
  <2> HIDE DEF D, S, T, G
  <2> QED BY <1>2, <2>1, <2>2
<1>11. S = T
  BY <1>5, <1>10
<1>12. Q = P
  BY <1>11, <1>2, <1>4
<1>13. k \notin off => (InRelation(k) \in P <=> Goal(k, Rewrite(s, k)) \in P)
  <2>1. InRelation(k) \in G
    BY GoalIn DEF InRelation
  <2>2. InRelation(k) \in D(S) <=> Follows(s, u, off, InRelation(k), D(S), S)
    BY <2>1, DerivedIsLeast
  <2> QED BY <2>2, <1>1 DEF Follows, InRelation, Goal, Whole
<1> QED BY <1>3, <1>12, <1>13

-----------------------------------------------------------------------------
(* The answer of one call from the answers of its operands.                *)

(* What an operand of g answers when it says w.                            *)
Answering(o, w) == IF o.negated THEN Negate(w) ELSE w

(* The operands of each operation.                                         *)
Plain(o, h) == o.goal = h /\ o.negated = FALSE

LEMMA OperandsOfRelation ==
    ASSUME NEW s, NEW g, g.expr.op = "relation"
    PROVE  /\ DOMAIN Operands(s, g) = {1}
           /\ Plain(Operands(s, g)[1], Goal(g.key, Rewrite(s, g.key)))
<1>1. Operands(s, g) = <<Operand(Goal(g.key, Rewrite(s, g.key)))>>
  BY DEF Operands
<1> QED BY <1>1 DEF Operand, Plain

LEMMA OperandsOfThis ==
    ASSUME NEW s, NEW g, g.expr.op = "this"
    PROVE  /\ DOMAIN Operands(s, g) = UsersetRows(s, g.key)
           /\ \A i \in UsersetRows(s, g.key) : Plain(Operands(s, g)[i], InRelation(s.rows[i].sub))
<1>1. Operands(s, g) = Checks([i \in UsersetRows(s, g.key) |-> s.rows[i].sub])
  BY DEF Operands
<1> QED BY <1>1 DEF Checks, Plain

LEMMA OperandsOfComputed ==
    ASSUME NEW s, NEW g, g.expr.op = "computed"
    PROVE  /\ DOMAIN Operands(s, g) = {1}
           /\ Plain(Operands(s, g)[1], InRelation(At(g.key, g.expr.rel)))
<1>1. Operands(s, g) = <<Operand(InRelation(At(g.key, g.expr.rel)))>>
  BY DEF Operands
<1> QED BY <1>1 DEF Operand, Plain

LEMMA OperandsOfTupleToUserset ==
    ASSUME NEW s, NEW g, g.expr.op = "tupleToUserset"
    PROVE  /\ DOMAIN Operands(s, g) = UsersetRows(s, At(g.key, g.expr.tupleset))
           /\ \A i \in UsersetRows(s, At(g.key, g.expr.tupleset)) :
                 Plain(Operands(s, g)[i], InRelation(At(s.rows[i].sub, g.expr.rel)))
<1>1. Operands(s, g) = Checks([i \in UsersetRows(s, At(g.key, g.expr.tupleset)) |->
                                  At(s.rows[i].sub, g.expr.rel)])
  BY DEF Operands
<1> QED BY <1>1 DEF Checks, Plain

LEMMA OperandsOfArgs ==
    ASSUME NEW s, NEW g, g.expr.op = "union" \/ g.expr.op = "intersection"
    PROVE  /\ DOMAIN Operands(s, g) = 1..Len(g.expr.args)
           /\ \A i \in 1..Len(g.expr.args) : Plain(Operands(s, g)[i], Goal(g.key, g.expr.args[i]))
<1>1. Operands(s, g) = [i \in 1..Len(g.expr.args) |-> Operand(Goal(g.key, g.expr.args[i]))]
  BY DEF Operands
<1> QED BY <1>1 DEF Operand, Plain

LEMMA OperandsOfExclusion ==
    ASSUME NEW s, NEW g, g.expr.op = "exclusion"
    PROVE  /\ DOMAIN Operands(s, g) = 1..2
           /\ \E b \in 1..2 : /\ Plain(Operands(s, g)[b], Goal(g.key, g.expr.base))
                              /\ Operands(s, g)[3 - b].goal = Goal(g.key, g.expr.exclude)
                              /\ Operands(s, g)[3 - b].negated = TRUE
<1> DEFINE base == Operand(Goal(g.key, g.expr.base))
           exclude == Excluded(Goal(g.key, g.expr.exclude))
           os == Operands(s, g)
<1>1. os = <<exclude, base>> \/ os = <<base, exclude>>
  BY DEF Operands
<1>2. /\ Plain(base, Goal(g.key, g.expr.base))
      /\ exclude.goal = Goal(g.key, g.expr.exclude) /\ exclude.negated = TRUE
  BY DEF Operand, Excluded, Plain
<1> HIDE DEF base, exclude, os
<1>3. DOMAIN os = 1..2 /\ \E b \in 1..2 : os[b] = base /\ os[3 - b] = exclude
  <2>1. CASE os = <<exclude, base>>
    <3>1. DOMAIN os = 1..2 /\ os[2] = base /\ os[3 - 2] = exclude
      BY <2>1
    <3> QED BY <3>1
  <2>2. CASE os = <<base, exclude>>
    <3>1. DOMAIN os = 1..2 /\ os[1] = base /\ os[3 - 1] = exclude
      BY <2>2
    <3> QED BY <3>1
  <2> QED BY <1>1, <2>1, <2>2
<1> QED BY <1>2, <1>3 DEF os

(* The operations a goal may have.                                         *)
LEMMA Operations ==
    ASSUME NEW s, IsSnapshot(s), NEW g \in Goals(s)
    PROVE  \/ g.expr.op \in {"relation", "this", "computed", "tupleToUserset", "union"}
           \/ g.expr.op \in {"intersection", "exclusion"}
BY GoalShape DEF IsExpression, Whole

(* Only the goal of a whole relation has this operation.                   *)
LEMMA RelationIsWhole ==
    ASSUME NEW s, IsSnapshot(s), NEW g \in Goals(s)
    PROVE  g.expr.op = "relation" <=> g.expr = Whole
BY GoalShape DEF Whole

(* What holds surely and possibly, one step unfolded.                      *)
LEMMA Unfold ==
    ASSUME NEW s, IsSnapshot(s), NEW u, NEW off, NEW g \in Goals(s)
    PROVE  /\ g \in Sure(s, u, off)
                <=> Follows(s, u, off, g, Sure(s, u, off), Possible(s, u, off))
           /\ g \in Possible(s, u, off)
                <=> Follows(s, u, off, g, Possible(s, u, off), Sure(s, u, off))
BY SurePossible, DerivedIsLeast

(* A goal whose operands all went on answers right.                        *)
LEMMA AllGoOn ==
    ASSUME NEW s, IsSnapshot(s), NEW u, NEW off, NEW g \in Goals(s),
           ~NamesSubject(s, u, g), g.expr = Whole => g.key \notin off,
           \A i \in DOMAIN Operands(s, g) :
              Right(Operands(s, g)[i].goal, Answering(Operands(s, g)[i], GoOn(g)),
                    Sure(s, u, off), Possible(s, u, off))
    PROVE  Right(g, GoOn(g), Sure(s, u, off), Possible(s, u, off))
<1> DEFINE k == g.key
           e == g.expr
           os == Operands(s, g)
           S == Sure(s, u, off)
           P == Possible(s, u, off)
<1>1. g \in S <=> Follows(s, u, off, g, S, P)
  BY Unfold
<1>2. g \in P <=> Follows(s, u, off, g, P, S)
  BY Unfold
<1>3. \A i \in DOMAIN os : Right(os[i].goal, Answering(os[i], GoOn(g)), S, P)
  OBVIOUS
<1> HIDE DEF S, P, os
<1>4. CASE e.op \notin {"intersection", "exclusion"}
  <2>1. GoOn(g) = "denied"
    BY <1>4 DEF GoOn
  <2>2. \A i \in DOMAIN os : ~os[i].negated => os[i].goal \notin S
    BY <1>3, <2>1 DEF Right, Answering
  <2>3. ~Follows(s, u, off, g, S, P)
    <3>1. CASE e.op = "relation"
      BY <3>1, <2>2, OperandsOfRelation DEF os, Follows, Plain
    <3>2. CASE e.op = "this"
      BY <3>2, <2>2, OperandsOfThis DEF os, Follows, Plain, NamesSubject
    <3>3. CASE e.op = "computed"
      BY <3>3, <2>2, OperandsOfComputed DEF os, Follows, Plain
    <3>4. CASE e.op = "tupleToUserset"
      BY <3>4, <2>2, OperandsOfTupleToUserset DEF os, Follows, Plain
    <3>5. CASE e.op = "union"
      BY <3>5, <2>2, OperandsOfArgs DEF os, Follows, Plain
    <3> QED BY <1>4, <3>1, <3>2, <3>3, <3>4, <3>5, Operations
  <2> QED BY <2>1, <2>3, <1>1 DEF Right, S, P
<1>5. CASE e.op = "intersection"
  <2>1. GoOn(g) = "allowed"
    BY <1>5 DEF GoOn
  <2>2. \A i \in DOMAIN os : ~os[i].negated => os[i].goal \in P
    BY <1>3, <2>1 DEF Right, Answering
  <2>3. \A i \in 1..Len(e.args) : Goal(k, e.args[i]) \in P
    BY <2>2, <1>5, OperandsOfArgs DEF os, Plain
  <2>4. Follows(s, u, off, g, P, S)
    BY <2>3, <1>5 DEF Follows
  <2> QED BY <2>1, <2>4, <1>2 DEF Right, S, P
<1>6. CASE e.op = "exclusion"
  <2>1. GoOn(g) = "allowed"
    BY <1>6 DEF GoOn
  <2>2. \A i \in DOMAIN os : /\ ~os[i].negated => os[i].goal \in P
                             /\ os[i].negated => os[i].goal \notin S
    BY <1>3, <2>1 DEF Right, Answering, Negate
  <2>3. PICK b \in 1..2 : /\ os[b].goal = Goal(k, e.base) /\ os[b].negated = FALSE
                          /\ os[3 - b].goal = Goal(k, e.exclude) /\ os[3 - b].negated = TRUE
                          /\ DOMAIN os = 1..2
    BY <1>6, OperandsOfExclusion DEF os, Plain
  <2>4. 3 - b \in DOMAIN os /\ b \in DOMAIN os
    BY <2>3
  <2>5. Follows(s, u, off, g, P, S)
    BY <2>2, <2>3, <2>4, <1>6 DEF Follows
  <2> QED BY <2>1, <2>5, <1>2 DEF Right, S, P
<1> QED BY <1>4, <1>5, <1>6

(* A goal that an operand ended answers right.                             *)
LEMMA OneEnds ==
    ASSUME NEW s, IsSnapshot(s), NEW u, NEW off, NEW g \in Goals(s),
           g.expr = Whole => g.key \notin off,
           NEW i \in DOMAIN Operands(s, g), NEW v,
           Right(Operands(s, g)[i].goal, v, Sure(s, u, off), Possible(s, u, off)),
           Answering(Operands(s, g)[i], v) # GoOn(g)
    PROVE  Right(g, Answering(Operands(s, g)[i], v), Sure(s, u, off), Possible(s, u, off))
<1> DEFINE k == g.key
           e == g.expr
           os == Operands(s, g)
           S == Sure(s, u, off)
           P == Possible(s, u, off)
           w == Answering(os[i], v)
<1>1. g \in S <=> Follows(s, u, off, g, S, P)
  BY Unfold
<1>2. g \in P <=> Follows(s, u, off, g, P, S)
  BY Unfold
<1>3. Right(os[i].goal, v, S, P) /\ i \in DOMAIN os /\ w # GoOn(g)
  OBVIOUS
<1> HIDE DEF S, P, os
<1>4. CASE e.op \notin {"intersection", "exclusion"}
  <2>1. w # "denied"
    BY <1>3, <1>4 DEF GoOn
  <2>2. ASSUME w = "allowed" PROVE g \in P
    <3>1. os[i].negated = FALSE
      <4>1. CASE e.op = "relation"
        BY <4>1, <1>3, OperandsOfRelation DEF os, Plain
      <4>2. CASE e.op = "this"
        BY <4>2, <1>3, OperandsOfThis DEF os, Plain
      <4>3. CASE e.op = "computed"
        BY <4>3, <1>3, OperandsOfComputed DEF os, Plain
      <4>4. CASE e.op = "tupleToUserset"
        BY <4>4, <1>3, OperandsOfTupleToUserset DEF os, Plain
      <4>5. CASE e.op = "union"
        BY <4>5, <1>3, OperandsOfArgs DEF os, Plain
      <4> QED BY <1>4, <4>1, <4>2, <4>3, <4>4, <4>5, Operations
    <3>2. os[i].goal \in P
      BY <3>1, <2>2, <1>3 DEF Right, Answering
    <3>3. Follows(s, u, off, g, P, S)
      <4>0. e.op = "relation" => k \notin off
        BY RelationIsWhole
      <4>1. CASE e.op = "relation"
        BY <4>0, <4>1, <3>2, <1>3, OperandsOfRelation DEF os, Follows, Plain
      <4>2. CASE e.op = "this"
        BY <4>2, <3>2, <1>3, OperandsOfThis DEF os, Follows, Plain
      <4>3. CASE e.op = "computed"
        BY <4>3, <3>2, <1>3, OperandsOfComputed DEF os, Follows, Plain
      <4>4. CASE e.op = "tupleToUserset"
        BY <4>4, <3>2, <1>3, OperandsOfTupleToUserset DEF os, Follows, Plain
      <4>5. CASE e.op = "union"
        <5>1. i \in 1..Len(e.args) /\ Goal(k, e.args[i]) \in P
          BY <4>5, <3>2, <1>3, OperandsOfArgs DEF os, Plain
        <5> QED BY <4>5, <5>1 DEF Follows
      <4> QED BY <1>4, <4>1, <4>2, <4>3, <4>4, <4>5, Operations
    <3> QED BY <3>3, <1>2
  <2> QED BY <2>1, <2>2 DEF Right, S, P, os
<1>5. CASE e.op = "intersection"
  <2>1. w # "allowed"
    BY <1>3, <1>5 DEF GoOn
  <2>2. ASSUME w = "denied" PROVE g \notin S
    <3>1. os[i].negated = FALSE
      BY <1>5, <1>3, OperandsOfArgs DEF os, Plain
    <3>2. os[i].goal \notin S
      BY <3>1, <2>2, <1>3 DEF Right, Answering
    <3>3. ~Follows(s, u, off, g, S, P)
      <4>1. i \in 1..Len(e.args) /\ Goal(k, e.args[i]) \notin S
        BY <3>2, <1>3, <1>5, OperandsOfArgs DEF os, Plain
      <4> QED BY <4>1, <1>5 DEF Follows
    <3> QED BY <3>3, <1>1
  <2> QED BY <2>1, <2>2 DEF Right, S, P, os
<1>6. CASE e.op = "exclusion"
  <2>1. w # "allowed"
    BY <1>3, <1>6 DEF GoOn
  <2>2. ASSUME w = "denied" PROVE g \notin S
    <3>1. PICK b \in 1..2 : /\ os[b].goal = Goal(k, e.base) /\ os[b].negated = FALSE
                            /\ os[3 - b].goal = Goal(k, e.exclude) /\ os[3 - b].negated = TRUE
                            /\ DOMAIN os = 1..2
      BY <1>6, OperandsOfExclusion DEF os, Plain
    <3>2. i = b \/ i = 3 - b
      BY <3>1, <1>3
    <3>3. CASE i = b
      <4>1. os[i].goal \notin S
        BY <3>1, <3>3, <2>2, <1>3 DEF Right, Answering
      <4> QED BY <4>1, <3>1, <3>3, <1>1, <1>6 DEF Follows
    <3>4. CASE i = 3 - b
      <4>1. v = "allowed"
        BY <3>1, <3>4, <2>2 DEF Answering, Negate
      <4>2. os[i].goal \in P
        BY <4>1, <1>3 DEF Right
      <4> QED BY <4>2, <3>1, <3>4, <1>1, <1>6 DEF Follows
    <3> QED BY <3>2, <3>3, <3>4
  <2> QED BY <2>1, <2>2 DEF Right, S, P, os
<1> QED BY <1>4, <1>5, <1>6

(* A row that names the subject is enough.                                 *)
LEMMA NamedRight ==
    ASSUME NEW s, IsSnapshot(s), NEW u, NEW off, NEW g \in Goals(s), NamesSubject(s, u, g)
    PROVE  Right(g, "allowed", Sure(s, u, off), Possible(s, u, off))
<1>1. Follows(s, u, off, g, Possible(s, u, off), Sure(s, u, off))
  BY DEF NamesSubject, Follows
<1> QED BY <1>1, Unfold DEF Right

(* An entered key answers as its rewrite does with the key off.            *)
LEMMA EnteredRight ==
    ASSUME NEW s, IsSnapshot(s), NEW u, NEW off, NEW k \in Keys(s), k \notin off, NEW v,
           Right(Goal(k, Rewrite(s, k)), v, Sure(s, u, off \cup {k}), Possible(s, u, off \cup {k}))
    PROVE  Right(InRelation(k), v, Sure(s, u, off), Possible(s, u, off))
BY EnterSure, EnterPossible DEF Right

(* A key that is off is rightly denied.                                    *)
LEMMA CutRight ==
    ASSUME NEW s, IsSnapshot(s), NEW u, NEW off, NEW k \in off
    PROVE  Right(InRelation(k), "denied", Sure(s, u, off), Possible(s, u, off))
<1>1. InRelation(k) \notin Sure(s, u, off)
  BY SurePossible, OffLeavesOut
<1> QED BY <1>1 DEF Right

(* An operand that is a goal of the same relation is a goal of the snapshot. *)
LEMMA OperandIsGoal ==
    ASSUME NEW s, IsSnapshot(s), NEW g \in Goals(s), NEW i \in DOMAIN Operands(s, g)
    PROVE  LET h == Operands(s, g)[i].goal
           IN  /\ h.key \in Key /\ h = Goal(h.key, h.expr)
               /\ h.expr # Whole => h \in Goals(s)
               /\ h.key \in Keys(s) => h \in Goals(s)
<1> DEFINE k == g.key
           e == g.expr
           os == Operands(s, g)
           h == os[i].goal
           R == Rewrite(s, k)
<1>1. /\ g = Goal(k, e) /\ k \in Keys(s) /\ R \in DOMAIN Parts
      /\ e = Whole \/ IsExpression(e, Parts[R])
  BY GoalShape
<1>2. R \in Parts[R]
  BY <1>1, SemanticsAssumption
<1>3. \A j \in 1..Len(s.rows) : s.rows[j] \in Row
  BY DEF IsSnapshot
<1>4. \A j \in Key : InRelation(j).key = j /\ InRelation(j).expr = Whole /\ InRelation(j) = Goal(j, Whole)
  BY DEF InRelation, Goal
<1>5. ASSUME NEW j \in Key, h = InRelation(j)
      PROVE /\ h.key \in Key /\ h = Goal(h.key, h.expr)
            /\ h.expr # Whole => h \in Goals(s)
            /\ h.key \in Keys(s) => h \in Goals(s)
  BY <1>4, <1>5, GoalIn
<1>6. ASSUME NEW p \in Parts[R], h = Goal(k, p)
      PROVE /\ h.key \in Key /\ h = Goal(h.key, h.expr)
            /\ h.expr # Whole => h \in Goals(s)
            /\ h.key \in Keys(s) => h \in Goals(s)
  BY <1>1, <1>6, GoalIn DEF Keys
<1>7. k \in Key
  BY <1>1 DEF Keys
<1>8. CASE e = Whole
  <2>1. e.op = "relation"
    BY <1>8 DEF Whole
  <2>2. h = Goal(k, R)
    BY <2>1, OperandsOfRelation DEF Plain
  <2> QED BY <2>2, <1>2, <1>6
<1>9. CASE e.op = "this"
  <2>1. h = InRelation(s.rows[i].sub) /\ i \in UsersetRows(s, k)
    BY <1>9, OperandsOfThis DEF Plain
  <2>2. s.rows[i].sub \in Key
    BY <2>1, <1>3 DEF UsersetRows, RowsOf, Row, Subject, Key
  <2> QED BY <2>1, <2>2, <1>5
<1>10. CASE e.op = "computed"
  <2>1. h = InRelation(At(k, e.rel))
    BY <1>10, OperandsOfComputed DEF Plain
  <2>2. At(k, e.rel) \in Key
    BY <1>10, <1>1, <1>7 DEF IsExpression, At, Key, Whole
  <2> QED BY <2>1, <2>2, <1>5
<1>11. CASE e.op = "tupleToUserset"
  <2>1. h = InRelation(At(s.rows[i].sub, e.rel)) /\ i \in UsersetRows(s, At(k, e.tupleset))
    BY <1>11, OperandsOfTupleToUserset DEF Plain
  <2>2. s.rows[i].sub \in Key
    BY <2>1, <1>3 DEF UsersetRows, RowsOf, Row, Subject, Key
  <2>3. At(s.rows[i].sub, e.rel) \in Key
    BY <2>2, <1>11, <1>1 DEF IsExpression, At, Key, Whole
  <2> QED BY <2>1, <2>3, <1>5
<1>12. CASE e.op = "union" \/ e.op = "intersection"
  <2>1. i \in 1..Len(e.args) /\ h = Goal(k, e.args[i])
    BY <1>12, OperandsOfArgs DEF Plain
  <2>2. e.args \in Seq(Parts[R])
    BY <1>12, <1>1 DEF IsExpression, Whole
  <2>3. e.args[i] \in Parts[R]
    BY <2>1, <2>2
  <2> QED BY <2>1, <2>3, <1>6
<1>13. CASE e.op = "exclusion"
  <2>1. h = Goal(k, e.base) \/ h = Goal(k, e.exclude)
    <3>1. PICK b \in 1..2 : /\ os[b].goal = Goal(k, e.base) /\ os[3 - b].goal = Goal(k, e.exclude)
                            /\ DOMAIN os = 1..2
      BY <1>13, OperandsOfExclusion DEF Plain
    <3> QED BY <3>1
  <2>2. e.base \in Parts[R] /\ e.exclude \in Parts[R]
    BY <1>13, <1>1 DEF IsExpression, Whole
  <2> QED BY <2>1, <2>2, <1>6
<1> QED BY <1>1, <1>8, <1>9, <1>10, <1>11, <1>12, <1>13 DEF IsExpression

-----------------------------------------------------------------------------

(* The inductive invariant.                                                *)
(*                                                                         *)
(* The check keys entered by the first i calls, and the keys that are      *)
(* taken to have no members where the operands of the i-th call are right: *)
(* those a nested check would find active, so not a root without a store   *)
(* key.                                                                    *)
ActiveTo(s, u, fs, i) ==
    {CheckKeyOf(s, u, fs[j].goal.key, j) : j \in {h \in 1..i : fs[h].goal.expr = Whole}}
Off(on, s, u, fs, i) ==
    IF on THEN {} ELSE {k \in Key : CheckKeyOf(s, u, k, 2) \in ActiveTo(s, u, fs, i)}

(* The check key that is asked for next.                                   *)
PendingCheckKey == CheckKeyOf(snap, subject, Pending.goal.key, Len(frames) + 1)

RightIn(s, u, off, g, v) == Right(g, v, Sure(s, u, off), Possible(s, u, off))

(* Between requests nothing is left of the last one.                       *)
Requested ==
    \/ /\ snap = NoRequest /\ subject = NoRequest /\ limit = 0 /\ memoOn = FALSE
       /\ todo = <<>> /\ memo = NoMemo /\ verdicts = <<>> /\ cut = FALSE
       /\ frames = <<>> /\ answer = NoAnswer
    \/ snap \in Snapshots /\ subject \in Subjects /\ limit \in Depths

(* The types, the calls with goals of the snapshot.                        *)
Calls(s) == [goal : Goals(s), left : SUBSET Nat, depth : Nat, low : Nat]

MemoOK ==
    /\ DOMAIN memo \subseteq Key /\ Cardinality(DOMAIN memo) <= MemoCapacity
    /\ memo \in [DOMAIN memo -> [v : Answers, need : 1..limit]]

Shaped ==
    /\ Requested /\ MemoOK
    /\ memoOn \in BOOLEAN /\ cut \in BOOLEAN
    /\ todo \in Seq(Key) /\ verdicts \in Seq([key : Key, v : Answers \cup Errors])
    /\ frames \in Seq(Calls(snap))
    /\ answer \in Answers \cup Errors \cup {NoAnswer}

(* A call: operands of its goal are left to do, no row answered it at once,*)
(* and what it needed of its depth is recorded.                            *)
CallOK(s, u, most, f) ==
    /\ f.left \subseteq DOMAIN Operands(s, f.goal)
    /\ ~NamesSubject(s, u, f.goal)
    /\ f.low <= f.depth /\ f.depth < most

(* Something is to be evaluated, or was just answered.                     *)
HasPending == IF frames = <<>> THEN todo # <<>> ELSE Top.left # {}

(* Each call evaluates the next operand of the one below it, the first the *)
(* root of the request.                                                    *)
Chained(fs) ==
    /\ fs # <<>> => todo # <<>> /\ fs[1].goal = InRelation(Head(todo))
    /\ \A i \in 2..Len(fs) : fs[i - 1].left # {} /\ fs[i].goal = OperandOf(fs[i - 1]).goal

(* No check key is entered twice ...                                       *)
Fresh(fs) ==
    \A i \in 1..Len(fs) : fs[i].goal.expr = Whole =>
        CheckKeyOf(snap, subject, fs[i].goal.key, i) \notin ActiveTo(snap, subject, fs, i - 1)

(* ... and each takes one level of depth.                                  *)
DepthsOK(fs) ==
    \A i \in 1..Len(fs) : fs[i].depth + Cardinality(ActiveTo(snap, subject, fs, i)) = limit

Stack ==
    /\ \A i \in 1..Len(frames) : CallOK(snap, subject, limit, frames[i])
    /\ Chained(frames) /\ Fresh(frames) /\ DepthsOK(frames)
    /\ answer # NoAnswer => HasPending

StackInv == Shaped /\ Stack /\ CyclesNeedNoDepth

(* The operands that are done went on, and rightly.                        *)
DoneRight ==
    \A i \in 1..Len(frames) : \A j \in DOMAIN Operands(snap, frames[i].goal) \ frames[i].left :
        LET o == Operands(snap, frames[i].goal)[j]
        IN  RightIn(snap, subject, Off(memoOn, snap, subject, frames, i), o.goal, Answering(o, GoOn(frames[i].goal)))

(* The last answer is right for what is pending.                           *)
AnswerRight ==
    answer # NoAnswer => RightIn(snap, subject, Off(memoOn, snap, subject, frames, Len(frames)), Pending.goal, answer)

(* What outlives the stack is right with nothing off.                      *)
RecordedRight ==
    snap # NoRequest =>
    /\ \A i \in 1..Len(verdicts) : RightIn(snap, subject, {}, InRelation(verdicts[i].key), verdicts[i].v)
    /\ memoOn => \A k \in DOMAIN memo : RightIn(snap, subject, {}, InRelation(k), memo[k].v)

(* With a memo, as long as no cycle was cut.                               *)
RightInv == (memoOn => ~cut) => DoneRight /\ AnswerRight /\ RecordedRight

-----------------------------------------------------------------------------
(* Stacks.                                                                 *)

(* The next operand is one of those left.                                  *)
LEMMA FirstIn ==
    ASSUME NEW I \in SUBSET Nat, I # {}
    PROVE  First(I) \in I
BY LeastNumber DEF First

(* The stack without its last call.                                        *)
LEMMA BelowIs ==
    ASSUME NEW S, NEW s \in Seq(S), s # <<>>
    PROVE  /\ Below(s) \in Seq(S) /\ Len(s) \in Nat \ {0} /\ Len(Below(s)) = Len(s) - 1
           /\ \A i \in 1..(Len(s) - 1) : Below(s)[i] = s[i]
<1> DEFINE n == Len(s) - 1
<1>1. Len(s) \in Nat \ {0} /\ Below(s) = SubSeq(s, 1, n) /\ n \in Nat /\ \A i \in 1..n : s[i] \in S
  BY DEF Below
<1>2. 1 \in Int /\ n \in Int
  BY <1>1
<1> HIDE DEF n
<1>3. PICK t : t = SubSeq(s, 1, n)
  OBVIOUS
<1>4. t \in Seq(S) /\ Len(t) = n
  BY <1>1, <1>3
<1>5. ASSUME NEW i \in 1..n PROVE t[i] = s[i]
  BY <1>1, <1>3
<1> QED BY <1>1, <1>3, <1>4, <1>5 DEF n

(* The active keys depend on the goals of the calls only.                  *)
LEMMA ActiveToSame ==
    ASSUME NEW s, NEW u, NEW fs, NEW gs, NEW i \in Nat, \A j \in 1..i : fs[j].goal = gs[j].goal
    PROVE  ActiveTo(s, u, fs, i) = ActiveTo(s, u, gs, i)
BY DEF ActiveTo

LEMMA ActiveToNext ==
    ASSUME NEW s, NEW u, NEW fs, NEW i \in Nat
    PROVE  /\ fs[i + 1].goal.expr = Whole =>
                 ActiveTo(s, u, fs, i + 1) =
                    ActiveTo(s, u, fs, i) \cup {CheckKeyOf(s, u, fs[i + 1].goal.key, i + 1)}
           /\ fs[i + 1].goal.expr # Whole => ActiveTo(s, u, fs, i + 1) = ActiveTo(s, u, fs, i)
BY DEF ActiveTo

LEMMA ActiveToNone ==
    ASSUME NEW s, NEW u, NEW fs PROVE ActiveTo(s, u, fs, 0) = {}
BY DEF ActiveTo

(* A check key knows its key, and has one form for nested checks; the root *)
(* has the same one where it is a store key.                               *)
LEMMA CheckKeys ==
    ASSUME NEW s, NEW u, NEW j, NEW k, NEW a \in Nat, NEW b \in Nat
    PROVE  /\ CheckKeyOf(s, u, j, a) = CheckKeyOf(s, u, k, b) => j = k
           /\ (a = 1 <=> b = 1) \/ StoreKeyed(s, u, k) => CheckKeyOf(s, u, k, a) = CheckKeyOf(s, u, k, b)
           /\ ~StoreKeyed(s, u, k) => CheckKeyOf(s, u, k, 1) # CheckKeyOf(s, u, k, 2)
BY DEF CheckKeyOf

(* Each is the nested form of a key of the snapshot, or the root's.        *)
LEMMA ActiveToKeys ==
    ASSUME NEW s, IsSnapshot(s), NEW u, NEW fs \in Seq(Calls(s)), NEW i \in 0..Len(fs), NEW root,
           fs # <<>> => fs[1].goal.key = root
    PROVE  /\ IsFiniteSet(ActiveTo(s, u, fs, i))
           /\ Cardinality(ActiveTo(s, u, fs, i)) \in Nat /\ Cardinality(Keys(s)) \in Nat
           /\ Cardinality(ActiveTo(s, u, fs, i))
                 <= Cardinality(Keys(s)) + IF StoreKeyed(s, u, root) THEN 0 ELSE 1
<1> DEFINE nested == {CheckKeyOf(s, u, k, 2) : k \in Keys(s)}
           first == CheckKeyOf(s, u, root, 1)
           A == ActiveTo(s, u, fs, i)
<1>1. \A j \in 1..i : fs[j] \in Calls(s)
  OBVIOUS
<1>2. \A j \in 1..i : fs[j].goal \in Goals(s)
  BY <1>1 DEF Calls
<1>3. \A j \in 1..i : fs[j].goal.key \in Keys(s)
  BY <1>2, GoalShape
<1>4. IsFiniteSet(Keys(s)) /\ Cardinality(Keys(s)) \in Nat
  BY KeysFinite, FS_CardinalityType
<1>5. IsFiniteSet(nested) /\ Cardinality(nested) \in Nat /\ Cardinality(nested) <= Cardinality(Keys(s))
  <2> DEFINE F == [k \in Keys(s) |-> CheckKeyOf(s, u, k, 2)]
  <2>1. F \in Surjection(Keys(s), nested)
    BY DEF Surjection
  <2> QED BY <2>1, <1>4, FS_Surjection, FS_CardinalityType
<1>6. ASSUME NEW x \in A PROVE x \in nested \/ x = first
  <2>1. PICK j \in 1..i : x = CheckKeyOf(s, u, fs[j].goal.key, j)
    BY <1>6 DEF ActiveTo
  <2>2. CASE j = 1
    <3>1. fs # <<>> /\ fs[1].goal.key = root
      BY <2>2
    <3> QED BY <2>1, <2>2, <3>1, CheckKeys
  <2>3. CASE j # 1
    <3>1. CheckKeyOf(s, u, fs[j].goal.key, j) = CheckKeyOf(s, u, fs[j].goal.key, 2)
      BY <2>3, CheckKeys
    <3> QED BY <2>1, <3>1, <1>3
  <2> QED BY <2>2, <2>3
<1>7. CASE StoreKeyed(s, u, root)
  <2>1. A \subseteq nested
    <3> SUFFICES ASSUME NEW x \in A, x = first PROVE x \in nested
      BY <1>6
    <3>1. PICK j \in 1..i : x = CheckKeyOf(s, u, fs[j].goal.key, j)
      BY DEF ActiveTo
    <3>2. fs[j].goal.key = root
      BY <3>1, CheckKeys
    <3>3. first = CheckKeyOf(s, u, root, 2)
      BY <1>7, CheckKeys
    <3> QED BY <3>2, <3>3, <1>3
  <2>2. IsFiniteSet(A) /\ Cardinality(A) \in Nat /\ Cardinality(A) <= Cardinality(nested)
    BY <2>1, <1>5, FS_Subset, FS_CardinalityType
  <2> HIDE DEF nested, A
  <2> QED BY <1>4, <1>5, <1>7, <2>2 DEF A
<1>8. CASE ~StoreKeyed(s, u, root)
  <2>1. A \subseteq nested \cup {first}
    BY <1>6
  <2>2. /\ IsFiniteSet(nested \cup {first}) /\ Cardinality(nested \cup {first}) \in Nat
        /\ Cardinality(nested \cup {first}) <= Cardinality(nested) + 1
    <3> HIDE DEF nested, first
    <3>1. IsFiniteSet(nested \cup {first}) /\ Cardinality(nested \cup {first}) \in Nat
      BY <1>5, FS_AddElement, FS_CardinalityType
    <3>2. CASE first \in nested
      BY <1>5, <3>1, <3>2, FS_AddElement
    <3>3. CASE first \notin nested
      BY <1>5, <3>1, <3>3, FS_AddElement
    <3> QED BY <3>2, <3>3
  <2>3. IsFiniteSet(A) /\ Cardinality(A) \in Nat /\ Cardinality(A) <= Cardinality(nested \cup {first})
    BY <2>1, <2>2, FS_Subset, FS_CardinalityType
  <2> HIDE DEF nested, first, A
  <2> QED BY <1>4, <1>5, <1>8, <2>2, <2>3 DEF A
<1> QED BY <1>7, <1>8

LEMMA ActiveIsTo == Active(frames) = ActiveTo(snap, subject, frames, Len(frames))
BY DEF Active, ActiveTo

(* Entering a key turns it off below, unless it is a root without a store  *)
(* key; it was not off before.                                             *)
LEMMA OffNext ==
    ASSUME NEW s, NEW u, NEW fs, NEW n \in Nat \ {0}, NEW k \in Key, k = fs[n].goal.key,
           fs[n].goal.expr = Whole => CheckKeyOf(s, u, k, n) \notin ActiveTo(s, u, fs, n - 1)
    PROVE  /\ fs[n].goal.expr # Whole => Off(FALSE, s, u, fs, n) = Off(FALSE, s, u, fs, n - 1)
           /\ fs[n].goal.expr = Whole =>
                 /\ k \notin Off(FALSE, s, u, fs, n - 1)
                 /\ \/ Off(FALSE, s, u, fs, n) = Off(FALSE, s, u, fs, n - 1) \cup {k}
                    \/ Off(FALSE, s, u, fs, n) = Off(FALSE, s, u, fs, n - 1)
<1> DEFINE A == ActiveTo(s, u, fs, n - 1)
           key == CheckKeyOf(s, u, k, n)
<1>1. /\ fs[n].goal.expr = Whole => ActiveTo(s, u, fs, n) = A \cup {key}
      /\ fs[n].goal.expr # Whole => ActiveTo(s, u, fs, n) = A
  <2>1. n - 1 \in Nat /\ (n - 1) + 1 = n
    OBVIOUS
  <2> QED BY <2>1, ActiveToNext
<1>2. CASE fs[n].goal.expr # Whole
  BY <1>1, <1>2 DEF Off
<1>3. CASE fs[n].goal.expr = Whole /\ key = CheckKeyOf(s, u, k, 2)
  <2>1. \A j \in Key : CheckKeyOf(s, u, j, 2) = key <=> j = k
    BY <1>3, CheckKeys
  <2> HIDE DEF key, A
  <2> QED BY <1>1, <1>3, <2>1 DEF Off, key, A
<1>4. CASE fs[n].goal.expr = Whole /\ key # CheckKeyOf(s, u, k, 2)
  <2>1. \A j \in Key : CheckKeyOf(s, u, j, 2) # key
    BY <1>4, CheckKeys
  <2>2. n = 1
    BY <1>4, CheckKeys
  <2>3. A = {}
    BY <2>2, ActiveToNone
  <2> HIDE DEF key, A
  <2> QED BY <1>1, <1>4, <2>1, <2>3 DEF Off, A
<1> QED BY <1>2, <1>3, <1>4

(* A request is on a snapshot while anything is to do.                     *)
LEMMA OnSnapshot ==
    ASSUME Requested, todo # <<>>
    PROVE  snap \in Snapshots /\ IsSnapshot(snap) /\ subject \in Subjects /\ limit \in Nat \ {0}
           /\ snap # NoRequest
BY RequestAssumption DEF Requested

LEMMA HasTodo ==
    ASSUME Stack, HasPending
    PROVE  todo # <<>>
BY DEF Stack, HasPending, Chained

LEMMA FrameCall ==
    ASSUME Shaped, NEW i \in 1..Len(frames)
    PROVE  /\ frames[i] \in Calls(snap) /\ frames[i].goal \in Goals(snap)
           /\ frames[i].left \in SUBSET Nat /\ frames[i].depth \in Nat /\ frames[i].low \in Nat
<1>1. frames[i] \in Calls(snap)
  BY DEF Shaped
<1> QED BY <1>1 DEF Calls

LEMMA TopCall ==
    ASSUME Shaped, frames # <<>>
    PROVE  /\ Len(frames) \in Nat \ {0} /\ Top = frames[Len(frames)]
           /\ Top.goal \in Goals(snap) /\ Top.left \in SUBSET Nat /\ Top.depth \in Nat /\ Top.low \in Nat
<1>1. Len(frames) \in Nat \ {0}
  BY DEF Shaped
<1> QED BY <1>1, FrameCall DEF Top

(* What is pending is a goal.                                              *)
LEMMA PendingIsGoal ==
    ASSUME Shaped, Stack, HasPending
    PROVE  /\ Pending.goal.key \in Key /\ Pending.goal = Goal(Pending.goal.key, Pending.goal.expr)
           /\ Pending.goal.expr # Whole => frames # <<>> /\ Pending.goal \in Goals(snap)
           /\ Pending.goal.key \in Keys(snap) => Pending.goal \in Goals(snap)
<1>0. todo # <<>> /\ IsSnapshot(snap)
  BY HasTodo, OnSnapshot DEF Shaped
<1>1. CASE frames = <<>>
  <2>1. Head(todo) \in Key
    BY <1>0 DEF Shaped
  <2>2. Pending.goal = InRelation(Head(todo))
    BY <1>1 DEF Pending, Operand
  <2>3. /\ InRelation(Head(todo)).key = Head(todo) /\ InRelation(Head(todo)).expr = Whole
        /\ InRelation(Head(todo)) = Goal(Head(todo), Whole)
    BY DEF InRelation, Goal
  <2>4. Head(todo) \in Keys(snap) => InRelation(Head(todo)) \in Goals(snap)
    BY <2>3, GoalIn
  <2> QED BY <2>1, <2>2, <2>3, <2>4
<1>2. CASE frames # <<>>
  <2>1. Top.left # {}
    BY <1>2 DEF HasPending
  <2>2. First(Top.left) \in Top.left
    BY <2>1, <1>2, TopCall, FirstIn
  <2>3. First(Top.left) \in DOMAIN Operands(snap, Top.goal)
    BY <2>2, <1>2, TopCall DEF Stack, CallOK
  <2>4. Pending.goal = Operands(snap, Top.goal)[First(Top.left)].goal
    BY <1>2 DEF Pending, OperandOf
  <2>5. Top.goal \in Goals(snap)
    BY <1>2, TopCall
  <2> QED BY <1>0, <1>2, <2>3, <2>4, <2>5, OperandIsGoal
<1> QED BY <1>1, <1>2

(* Operands are numbered.                                                  *)
LEMMA OperandPositions ==
    ASSUME NEW s, IsSnapshot(s), NEW g \in Goals(s)
    PROVE  DOMAIN Operands(s, g) \in SUBSET Nat
<1>1. \A k : UsersetRows(s, k) \subseteq 1..Len(s.rows)
  BY DEF UsersetRows, RowsOf
<1>2. Len(s.rows) \in Nat
  BY DEF IsSnapshot
<1>3. CASE g.expr.op \in {"relation", "computed"}
  BY <1>3, OperandsOfRelation, OperandsOfComputed
<1>4. CASE g.expr.op = "this"
  BY <1>4, <1>1, <1>2, OperandsOfThis
<1>5. CASE g.expr.op = "tupleToUserset"
  BY <1>5, <1>1, <1>2, OperandsOfTupleToUserset
<1>6. CASE g.expr.op = "union" \/ g.expr.op = "intersection"
  BY <1>6, OperandsOfArgs
<1>7. CASE g.expr.op = "exclusion"
  <2>1. DOMAIN Operands(s, g) = 1..2
    BY <1>7, OperandsOfExclusion
  <2> QED BY <2>1
<1> QED BY <1>3, <1>4, <1>5, <1>6, <1>7, Operations

-----------------------------------------------------------------------------
(* The steps that answer, enter and leave.                                 *)

(* Steps of the walk that leave the stack alone.                           *)
LEMMA AnsweredKeeps ==
    ASSUME StackInv, Evaluating, NEW v \in Answers \cup Errors, Answered(v), cut' \in BOOLEAN,
           v = "depthExceeded" => ~(limit > MostActive)
    PROVE  StackInv'
<1>1. UNCHANGED <<snap, subject, limit, memoOn, todo, memo, verdicts, frames>> /\ answer' = v
  BY DEF Answered, request
<1>2. HasPending
  BY DEF Evaluating, HasPending
<1>3. snap \in Snapshots /\ subject \in Subjects /\ limit \in Depths
  BY <1>2, HasTodo, OnSnapshot DEF StackInv, Shaped, Requested
<1>4. Requested'
  BY <1>1, <1>3 DEF Requested
<1>5. MemoOK'
  BY <1>1 DEF StackInv, Shaped, MemoOK
<1>6. Shaped'
  BY <1>1, <1>4, <1>5 DEF StackInv, Shaped
<1>7. HasPending'
  BY <1>1, <1>2 DEF HasPending, Top
<1>8. Stack'
  BY <1>1, <1>7 DEF StackInv, Stack, CallOK, Chained, OperandOf, Fresh, DepthsOK
<1>9. CyclesNeedNoDepth'
  BY <1>1 DEF CyclesNeedNoDepth, MostActive
<1> QED BY <1>6, <1>8, <1>9 DEF StackInv

(* A call is pushed for the pending goal.                                  *)
LEMMA PushKeeps ==
    ASSUME StackInv, Evaluating, NEW d \in Nat, NEW l \in Nat, l <= d, d < limit,
           Pending.goal \in Goals(snap), ~NamesSubject(snap, subject, Pending.goal),
           Pending.goal.expr = Whole => PendingCheckKey \notin Active(frames),
           Pending.goal.expr = Whole =>
              d + Cardinality(ActiveTo(snap, subject, frames, Len(frames)) \cup {PendingCheckKey}) = limit,
           Pending.goal.expr # Whole => d + Cardinality(ActiveTo(snap, subject, frames, Len(frames))) = limit,
           frames' = Append(frames, [goal |-> Pending.goal, left |-> DOMAIN Operands(snap, Pending.goal),
                                     depth |-> d, low |-> l]),
           UNCHANGED <<request, todo, memo, verdicts, cut, answer>>
    PROVE  StackInv'
<1> DEFINE g == Pending.goal
           f == [goal |-> g, left |-> DOMAIN Operands(snap, g), depth |-> d, low |-> l]
           n == Len(frames)
<1>1. UNCHANGED <<snap, subject, limit, memoOn, todo, memo, verdicts, cut, answer>> /\ answer = NoAnswer
  BY DEF request, Evaluating
<1>2. HasPending
  BY DEF Evaluating, HasPending
<1>3. snap \in Snapshots /\ subject \in Subjects /\ limit \in Depths /\ IsSnapshot(snap) /\ todo # <<>>
  BY <1>2, HasTodo, OnSnapshot DEF StackInv, Shaped, Requested
<1>4. frames \in Seq(Calls(snap)) /\ n \in Nat
  BY DEF StackInv, Shaped
<1>5. f \in Calls(snap)
  BY <1>3, OperandPositions DEF Calls
<1>6. /\ frames' = Append(frames, f) /\ Len(frames') = n + 1 /\ frames'[n + 1] = f
      /\ \A i \in 1..n : frames'[i] = frames[i]
  BY <1>4, <1>5
<1>7. frames' \in Seq(Calls(snap))
  BY <1>4, <1>5, <1>6
<1>8. f.goal = g /\ f.left = DOMAIN Operands(snap, g) /\ f.depth = d /\ f.low = l
  OBVIOUS
<1>9. CallOK(snap, subject, limit, f)
  BY <1>8 DEF CallOK
<1> HIDE DEF f
<1>10. Shaped'
  <2>1. Requested'
    BY <1>1, <1>3 DEF Requested
  <2>2. MemoOK'
    BY <1>1 DEF StackInv, Shaped, MemoOK
  <2> QED BY <2>1, <2>2, <1>1, <1>7 DEF StackInv, Shaped
<1>11. ASSUME NEW i \in 0..n PROVE ActiveTo(snap, subject, frames', i) = ActiveTo(snap, subject, frames, i)
  <2>1. i \in Nat /\ \A j \in 1..i : frames'[j].goal = frames[j].goal
    BY <1>4, <1>6
  <2> HIDE DEF n
  <2> QED BY <2>1, ActiveToSame
<1>a. CheckKeyOf(snap, subject, g.key, n + 1) = PendingCheckKey
  <2>1. (n + 1 = 1) <=> (frames = <<>>)
    BY <1>4
  <2> HIDE DEF g
  <2>2. CheckKeyOf(snap, subject, g.key, n + 1) = CheckKeyOf(snap, subject, g.key, Len(frames) + 1)
    BY <2>1, CheckKeys
  <2> QED BY <2>2 DEF PendingCheckKey, g
<1>12. /\ g.expr = Whole =>
             ActiveTo(snap, subject, frames', n + 1) = ActiveTo(snap, subject, frames, n) \cup {PendingCheckKey}
       /\ g.expr # Whole => ActiveTo(snap, subject, frames', n + 1) = ActiveTo(snap, subject, frames, n)
  <2>1. ActiveTo(snap, subject, frames', n) = ActiveTo(snap, subject, frames, n)
    BY <1>4, <1>11
  <2>2. frames'[n + 1].goal = g
    BY <1>6, <1>8
  <2> HIDE DEF g
  <2>3. n \in Nat
    BY <1>4
  <2> HIDE DEF n
  <2>4. /\ frames'[n + 1].goal.expr = Whole =>
              ActiveTo(snap, subject, frames', n + 1) =
                 ActiveTo(snap, subject, frames', n)
                    \cup {CheckKeyOf(snap, subject, frames'[n + 1].goal.key, n + 1)}
        /\ frames'[n + 1].goal.expr # Whole =>
              ActiveTo(snap, subject, frames', n + 1) = ActiveTo(snap, subject, frames', n)
    <3>1. PICK fs : fs = frames'
      OBVIOUS
    <3>2. /\ fs[n + 1].goal.expr = Whole =>
                ActiveTo(snap, subject, fs, n + 1) =
                   ActiveTo(snap, subject, fs, n) \cup {CheckKeyOf(snap, subject, fs[n + 1].goal.key, n + 1)}
          /\ fs[n + 1].goal.expr # Whole => ActiveTo(snap, subject, fs, n + 1) = ActiveTo(snap, subject, fs, n)
      BY <2>3, ActiveToNext
    <3> QED BY <3>1, <3>2
  <2> QED BY <1>a, <2>1, <2>2, <2>4
<1>13. \A i \in 1..Len(frames') : CallOK(snap, subject, limit, frames'[i])
  <2> SUFFICES ASSUME NEW i \in 1..(n + 1) PROVE CallOK(snap, subject, limit, frames'[i])
    BY <1>6
  <2>1. CASE i \in 1..n
    <3>1. CallOK(snap, subject, limit, frames[i])
      BY <2>1 DEF StackInv, Stack
    <3> QED BY <2>1, <3>1, <1>6
  <2>2. CASE i = n + 1
    BY <2>2, <1>6, <1>9
  <2> QED BY <2>1, <2>2, <1>4
<1>14. Chained(frames)'
  <2>1. todo # <<>> /\ frames'[1].goal = InRelation(Head(todo))
    <3>1. CASE frames = <<>>
      BY <3>1, <1>3, <1>4, <1>6, <1>8 DEF Pending, Operand
    <3>2. CASE frames # <<>>
      <4>1. 1 \in 1..n
        BY <3>2, <1>4
      <4> QED BY <4>1, <3>2, <1>3, <1>6 DEF StackInv, Stack, Chained
    <3> QED BY <3>1, <3>2
  <2>2. ASSUME NEW i \in 2..(n + 1)
        PROVE  frames'[i - 1].left # {} /\ frames'[i].goal = OperandOf(frames'[i - 1]).goal
    <3>1. CASE i \in 2..n
      BY <3>1, <1>4, <1>6 DEF StackInv, Stack, Chained
    <3>2. CASE i = n + 1
      <4>1. frames # <<>> /\ i - 1 = n /\ n \in 1..n
        BY <3>2, <1>4
      <4>2. frames'[i - 1] = Top /\ Top.left # {}
        BY <4>1, <1>2, <1>6 DEF HasPending, Top
      <4>3. frames'[i].goal = g /\ g = OperandOf(Top).goal
        BY <3>2, <4>1, <1>6, <1>8 DEF Pending
      <4> QED BY <4>2, <4>3
    <3> QED BY <3>1, <3>2, <1>4
  <2> QED BY <2>1, <2>2, <1>1, <1>6 DEF Chained, OperandOf
<1>15. Fresh(frames)'
  <2> SUFFICES ASSUME NEW i \in 1..(n + 1), frames'[i].goal.expr = Whole
               PROVE  CheckKeyOf(snap, subject, frames'[i].goal.key, i)
                         \notin ActiveTo(snap, subject, frames', i - 1)
    BY <1>1, <1>6 DEF Fresh
  <2>1. CASE i \in 1..n
    BY <2>1, <1>4, <1>6, <1>11 DEF StackInv, Stack, Fresh
  <2>2. CASE i = n + 1
    <3>1. i - 1 = n /\ n \in 0..n
      BY <2>2, <1>4
    <3>2. PendingCheckKey \notin ActiveTo(snap, subject, frames, n)
      BY <2>2, <1>6, <1>8, ActiveIsTo
    <3> QED BY <2>2, <3>1, <3>2, <1>6, <1>8, <1>11, <1>a
  <2> QED BY <2>1, <2>2, <1>4
<1>16. DepthsOK(frames)'
  <2> SUFFICES ASSUME NEW i \in 1..(n + 1)
               PROVE  frames'[i].depth + Cardinality(ActiveTo(snap, subject, frames', i)) = limit
    BY <1>1, <1>6 DEF DepthsOK
  <2>1. CASE i \in 1..n
    BY <2>1, <1>4, <1>6, <1>11 DEF StackInv, Stack, DepthsOK
  <2>2. CASE i = n + 1
    BY <2>2, <1>6, <1>8, <1>12
  <2> QED BY <2>1, <2>2, <1>4
<1>17. Stack'
  BY <1>1, <1>13, <1>14, <1>15, <1>16 DEF Stack
<1>18. CyclesNeedNoDepth'
  BY <1>1 DEF CyclesNeedNoDepth, MostActive, NoAnswer
<1> QED BY <1>10, <1>17, <1>18 DEF StackInv

(* What a shorter stack keeps.                                             *)
LEMMA BelowCalls ==
    ASSUME StackInv, frames # <<>>
    PROVE  LET n == Len(frames)
               below == Below(frames)
               fs == IF n = 1 THEN below ELSE [below EXCEPT ![n - 1].low = Lower(@, Top.low)]
           IN  /\ below \in Seq(Calls(snap)) /\ Len(below) = n - 1 /\ Len(below) = 0 <=> n = 1
               /\ fs \in Seq(Calls(snap)) /\ Len(fs) = n - 1
               /\ \A i \in 1..(n - 1) :
                     /\ below[i] = frames[i]
                     /\ fs[i].goal = frames[i].goal /\ fs[i].left = frames[i].left
                     /\ fs[i].depth = frames[i].depth /\ fs[i].low <= fs[i].depth
<1> DEFINE n == Len(frames)
           below == Below(frames)
           fs == IF n = 1 THEN below ELSE [below EXCEPT ![n - 1].low = Lower(@, Top.low)]
<1>1. n \in Nat \ {0} /\ frames \in Seq(Calls(snap)) /\ Top.low \in Nat
  BY TopCall DEF StackInv, Shaped
<1>2. below \in Seq(Calls(snap)) /\ Len(below) = n - 1 /\ \A i \in 1..(n - 1) : below[i] = frames[i]
  BY <1>1, BelowIs
<1> HIDE DEF below
<1>3. \A i \in 1..(n - 1) : /\ frames[i].goal \in Goals(snap) /\ frames[i].left \in SUBSET Nat
                            /\ frames[i].depth \in Nat /\ frames[i].low \in Nat
                            /\ frames[i].low <= frames[i].depth /\ frames[i] \in Calls(snap)
  BY <1>1, FrameCall DEF StackInv, Stack, CallOK
<1>4. CASE n = 1
  <2>1. fs = below
    BY <1>4
  <2> QED BY <2>1, <1>1, <1>2, <1>3, <1>4 DEF below
<1>5. CASE n # 1
  <2> DEFINE f == [below[n - 1] EXCEPT !.low = Lower(@, Top.low)]
  <2>1. n - 1 \in 1..(n - 1) /\ below[n - 1] \in Calls(snap)
    BY <1>1, <1>2, <1>3, <1>5
  <2>2. /\ f \in Calls(snap) /\ f.goal = below[n - 1].goal /\ f.left = below[n - 1].left
        /\ f.depth = below[n - 1].depth /\ f.low = Lower(below[n - 1].low, Top.low)
    BY <2>1, <1>1 DEF Calls, Lower
  <2>3. f.low <= f.depth
    BY <2>1, <2>2, <1>1, <1>2, <1>3 DEF Lower
  <2>4. fs = [below EXCEPT ![n - 1] = f]
    BY <1>5
  <2> HIDE DEF f, fs
  <2>5. fs \in Seq(Calls(snap)) /\ Len(fs) = n - 1 /\ fs[n - 1] = f
        /\ \A i \in 1..(n - 1) : i # n - 1 => fs[i] = below[i]
    BY <2>1, <2>2, <2>4, <1>1, <1>2
  <2>6. \A i \in 1..(n - 1) :
                     /\ below[i] = frames[i]
                     /\ fs[i].goal = frames[i].goal /\ fs[i].left = frames[i].left
                     /\ fs[i].depth = frames[i].depth /\ fs[i].low <= fs[i].depth
    BY <2>2, <2>3, <2>5, <1>2, <1>3
  <2> QED BY <2>5, <2>6, <1>1, <1>2, <1>5 DEF fs, below
<1> QED BY <1>4, <1>5

(* What memo_insert keeps.                                                 *)
LEMMA MemoInsertKeeps ==
    ASSUME NEW m, NEW most, DOMAIN m \subseteq Key, Cardinality(DOMAIN m) <= MemoCapacity,
           m \in [DOMAIN m -> [v : Answers, need : 1..most]],
           NEW k \in Key, NEW v \in Answers, NEW need \in 1..most,
           NEW r, r = MemoInsert(m, k, v, need)
    PROVE  /\ DOMAIN r \subseteq Key /\ Cardinality(DOMAIN r) <= MemoCapacity
           /\ r \in [DOMAIN r -> [v : Answers, need : 1..most]]
<1>1. CASE k \in DOMAIN m
  <2>1. CASE need <= m[k].need
    <3>1. r = [m EXCEPT ![k] = [v |-> v, need |-> need]]
      BY <1>1, <2>1 DEF MemoInsert
    <3> QED BY <3>1, <1>1
  <2>2. CASE ~(need <= m[k].need)
    BY <1>1, <2>2 DEF MemoInsert
  <2> QED BY <2>1, <2>2
<1>2. CASE k \notin DOMAIN m /\ Cardinality(DOMAIN m) >= MemoCapacity
  BY <1>2 DEF MemoInsert
<1>3. CASE k \notin DOMAIN m /\ ~(Cardinality(DOMAIN m) >= MemoCapacity)
  <2>1. r = [j \in DOMAIN m \cup {k} |-> IF j = k THEN [v |-> v, need |-> need] ELSE m[j]]
    BY <1>3 DEF MemoInsert
  <2>2. DOMAIN r = DOMAIN m \cup {k}
    BY <2>1
  <2>3. IsFiniteSet(DOMAIN m) /\ Cardinality(DOMAIN m) \in Nat
    BY KeyFinite, FS_Subset, FS_CardinalityType
  <2>4. Cardinality(DOMAIN m \cup {k}) = Cardinality(DOMAIN m) + 1
    BY <1>3, <2>3, FS_AddElement
  <2>5. Cardinality(DOMAIN r) <= MemoCapacity
    BY <1>3, <2>2, <2>3, <2>4, LimitsAssumption
  <2>7. r \in [DOMAIN r -> [v : Answers, need : 1..most]]
    BY <1>3, <2>1, <2>2
  <2> QED BY <2>2, <2>5, <2>7
<1> QED BY <1>1, <1>2, <1>3

(* A call leaves.                                                          *)
LEMMA LeaveKeeps ==
    ASSUME StackInv, frames # <<>>, NEW v \in Answers \cup Errors, Leave(v),
           v = "depthExceeded" => ~(limit > MostActive)
    PROVE  StackInv'
<1> DEFINE n == Len(frames)
<1>1. UNCHANGED <<snap, subject, limit, memoOn, todo, verdicts, cut>> /\ answer' = v
  BY DEF Leave, request
<1>2. todo # <<>> /\ IsSnapshot(snap) /\ snap \in Snapshots /\ subject \in Subjects /\ limit \in Depths
      /\ limit \in Nat
  BY OnSnapshot DEF StackInv, Stack, Chained, Shaped, Requested
<1>3. /\ n \in Nat \ {0} /\ frames \in Seq(Calls(snap)) /\ Top = frames[n]
      /\ Top.goal \in Goals(snap) /\ Top.depth \in Nat /\ Top.low \in Nat
  BY TopCall DEF StackInv, Shaped
<1>4. /\ frames' \in Seq(Calls(snap)) /\ Len(frames') = n - 1
      /\ \A i \in 1..(n - 1) : /\ frames'[i].goal = frames[i].goal /\ frames'[i].left = frames[i].left
                               /\ frames'[i].depth = frames[i].depth /\ frames'[i].low <= frames'[i].depth
  <2>1. Len(Below(frames)) = n - 1 /\ (Len(Below(frames)) = 0 <=> n = 1)
    BY <1>3, BelowCalls
  <2>2. frames' = IF n = 1 THEN Below(frames)
                  ELSE [Below(frames) EXCEPT ![n - 1].low = Lower(@, Top.low)]
    BY <2>1 DEF Leave
  <2> QED BY <2>2, BelowCalls
<1>5. ASSUME NEW i \in 0..(n - 1) PROVE ActiveTo(snap, subject, frames', i) = ActiveTo(snap, subject, frames, i)
  <2>1. i \in Nat /\ \A j \in 1..i : frames'[j].goal = frames[j].goal
    BY <1>3, <1>4
  <2> HIDE DEF n
  <2> QED BY <2>1, ActiveToSame
<1>6. MemoOK'
  <2>1. CASE Top.goal.expr = Whole /\ Eligible(Below(frames)) /\ v \in Answers
    <3>1. memo' = MemoInsert(memo, Top.goal.key, v, Top.depth + 1 - Top.low)
      BY <2>1 DEF Leave
    <3>2. Top.goal.key \in Key
      BY <1>2, <1>3, GoalShape, KeysFinite
    <3>3. Top.low <= Top.depth /\ Top.depth < limit
      BY <1>3 DEF StackInv, Stack, CallOK
    <3>4. Top.depth + 1 - Top.low \in 1..limit
      BY <1>2, <1>3, <3>3
    <3>5. /\ DOMAIN memo \subseteq Key /\ Cardinality(DOMAIN memo) <= MemoCapacity
          /\ memo \in [DOMAIN memo -> [v : Answers, need : 1..limit]]
      BY DEF StackInv, Shaped, MemoOK
    <3> DEFINE key == Top.goal.key
               need == Top.depth + 1 - Top.low
    <3>a. key \in Key /\ need \in 1..limit /\ v \in Answers /\ memo' = MemoInsert(memo, key, v, need)
      BY <2>1, <3>1, <3>2, <3>4
    <3> HIDE DEF key, need
    <3>6. /\ DOMAIN memo' \subseteq Key /\ Cardinality(DOMAIN memo') <= MemoCapacity
          /\ memo' \in [DOMAIN memo' -> [v : Answers, need : 1..limit]]
      BY <3>a, <3>5, MemoInsertKeeps
    <3> QED BY <3>6, <1>1 DEF MemoOK
  <2>2. CASE ~(Top.goal.expr = Whole /\ Eligible(Below(frames)) /\ v \in Answers)
    <3>1. memo' = memo
      BY <2>2 DEF Leave
    <3> QED BY <3>1, <1>1 DEF StackInv, Shaped, MemoOK
  <2> QED BY <2>1, <2>2
<1>7. Shaped'
  <2>1. Requested'
    BY <1>1, <1>2 DEF Requested
  <2> QED BY <2>1, <1>1, <1>4, <1>6 DEF StackInv, Shaped
<1>8. \A i \in 1..Len(frames') : CallOK(snap, subject, limit, frames'[i])
  BY <1>3, <1>4 DEF StackInv, Stack, CallOK
<1>9. Chained(frames)'
  <2>1. frames' # <<>> => frames'[1].goal = InRelation(Head(todo))
    BY <1>3, <1>4 DEF StackInv, Stack, Chained
  <2>2. ASSUME NEW i \in 2..(n - 1)
        PROVE  frames'[i - 1].left # {} /\ frames'[i].goal = OperandOf(frames'[i - 1]).goal
    <3>1. i - 1 \in 1..(n - 1) /\ i \in 1..(n - 1) /\ i \in 2..n
      BY <1>3
    <3>2. frames[i - 1].left # {} /\ frames[i].goal = OperandOf(frames[i - 1]).goal
      BY <3>1 DEF StackInv, Stack, Chained
    <3> QED BY <3>1, <3>2, <1>4 DEF OperandOf
  <2> QED BY <2>1, <2>2, <1>1, <1>2, <1>4 DEF Chained, OperandOf
<1>10. Fresh(frames)'
  <2> SUFFICES ASSUME NEW i \in 1..(n - 1), frames'[i].goal.expr = Whole
               PROVE  CheckKeyOf(snap, subject, frames'[i].goal.key, i)
                         \notin ActiveTo(snap, subject, frames', i - 1)
    BY <1>1, <1>4 DEF Fresh
  <2>1. i \in 1..n /\ i - 1 \in 0..(n - 1)
    BY <1>3
  <2> QED BY <2>1, <1>4, <1>5 DEF StackInv, Stack, Fresh
<1>11. DepthsOK(frames)'
  <2> SUFFICES ASSUME NEW i \in 1..(n - 1)
               PROVE  frames'[i].depth + Cardinality(ActiveTo(snap, subject, frames', i)) = limit
    BY <1>1, <1>4 DEF DepthsOK
  <2>1. i \in 1..n /\ i \in 0..(n - 1)
    BY <1>3
  <2> QED BY <2>1, <1>4, <1>5 DEF StackInv, Stack, DepthsOK
<1>12. HasPending'
  <2>1. CASE n = 1
    <3>1. frames' = <<>>
      BY <2>1, <1>4
    <3> QED BY <3>1, <1>1, <1>2 DEF HasPending
  <2>2. CASE n # 1
    <3>1. n - 1 \in 1..(n - 1) /\ n \in 2..n /\ frames' # <<>>
      BY <2>2, <1>3, <1>4
    <3>2. frames[n - 1].left # {}
      BY <3>1 DEF StackInv, Stack, Chained
    <3>3. frames'[Len(frames')].left # {}
      BY <3>1, <3>2, <1>4
    <3> QED BY <3>1, <3>3 DEF HasPending, Top
  <2> QED BY <2>1, <2>2
<1>13. Stack'
  BY <1>1, <1>8, <1>9, <1>10, <1>11, <1>12 DEF Stack
<1>14. CyclesNeedNoDepth'
  BY <1>1 DEF CyclesNeedNoDepth, MostActive
<1> QED BY <1>7, <1>13, <1>14 DEF StackInv

(* A call goes on to its next operand.                                     *)
LEMMA NextOperandKeeps ==
    ASSUME StackInv, NextOperand
    PROVE  /\ StackInv' /\ Len(frames') = Len(frames)
           /\ \A i \in 1..Len(frames) : frames'[i].goal = frames[i].goal
           /\ \A i \in 1..(Len(frames) - 1) : frames'[i] = frames[i]
           /\ frames'[Len(frames)].left = Top.left \ {First(Top.left)}
<1> DEFINE n == Len(frames)
           f == [frames[n] EXCEPT !.left = @ \ {First(@)}]
<1>1. UNCHANGED <<snap, subject, limit, memoOn, todo, memo, verdicts, cut>> /\ answer' = NoAnswer
      /\ frames # <<>> /\ answer # NoAnswer
  BY DEF NextOperand, Returned, request
<1>2. todo # <<>> /\ IsSnapshot(snap) /\ snap \in Snapshots /\ subject \in Subjects /\ limit \in Depths
  BY <1>1, OnSnapshot DEF StackInv, Stack, Chained, Shaped, Requested
<1>3. /\ n \in Nat \ {0} /\ frames \in Seq(Calls(snap)) /\ Top = frames[n] /\ frames[n] \in Calls(snap)
      /\ Top.goal \in Goals(snap) /\ Top.left \in SUBSET Nat /\ Top.depth \in Nat /\ Top.low \in Nat
  BY <1>1, TopCall DEF StackInv, Shaped
<1>4. /\ f \in Calls(snap) /\ f.goal = frames[n].goal /\ f.left = frames[n].left \ {First(frames[n].left)}
      /\ f.depth = frames[n].depth /\ f.low = frames[n].low
  BY <1>3 DEF Calls
<1>5. frames' = [frames EXCEPT ![n] = f]
  BY DEF NextOperand
<1> HIDE DEF f
<1>6. /\ frames' \in Seq(Calls(snap)) /\ Len(frames') = n /\ frames'[n] = f
      /\ \A i \in 1..n : i # n => frames'[i] = frames[i]
  BY <1>3, <1>4, <1>5
<1>7. \A i \in 1..(n - 1) : frames'[i] = frames[i]
  BY <1>3, <1>6
<1>8. \A i \in 1..n : /\ frames'[i].goal = frames[i].goal /\ frames'[i].depth = frames[i].depth
                      /\ frames'[i].low = frames[i].low /\ frames'[i].left \subseteq frames[i].left
  BY <1>3, <1>4, <1>6
<1>9. ASSUME NEW i \in 0..n PROVE ActiveTo(snap, subject, frames', i) = ActiveTo(snap, subject, frames, i)
  <2>1. i \in Nat /\ \A j \in 1..i : frames'[j].goal = frames[j].goal
    BY <1>3, <1>8
  <2> HIDE DEF n
  <2> QED BY <2>1, ActiveToSame
<1>10. Shaped'
  <2>1. Requested'
    BY <1>1, <1>2 DEF Requested
  <2>2. MemoOK'
    BY <1>1 DEF StackInv, Shaped, MemoOK
  <2> QED BY <2>1, <2>2, <1>1, <1>6 DEF StackInv, Shaped
<1>11. \A i \in 1..Len(frames') : CallOK(snap, subject, limit, frames'[i])
  BY <1>3, <1>6, <1>8 DEF StackInv, Stack, CallOK
<1>12. Chained(frames)'
  <2>1. frames'[1].goal = InRelation(Head(todo))
    <3>1. 1 \in 1..n
      BY <1>3
    <3> QED BY <3>1, <1>1, <1>8 DEF StackInv, Stack, Chained
  <2>2. ASSUME NEW i \in 2..n
        PROVE  frames'[i - 1].left # {} /\ frames'[i].goal = OperandOf(frames'[i - 1]).goal
    <3>1. i - 1 \in 1..(n - 1) /\ i \in 1..n
      BY <1>3
    <3> QED BY <3>1, <1>7, <1>8 DEF StackInv, Stack, Chained
  <2> QED BY <2>1, <2>2, <1>1, <1>2, <1>6 DEF Chained, OperandOf
<1>13. Fresh(frames)'
  <2> SUFFICES ASSUME NEW i \in 1..n, frames'[i].goal.expr = Whole
               PROVE  CheckKeyOf(snap, subject, frames'[i].goal.key, i)
                         \notin ActiveTo(snap, subject, frames', i - 1)
    BY <1>1, <1>6 DEF Fresh
  <2>1. i - 1 \in 0..n
    BY <1>3
  <2> QED BY <2>1, <1>8, <1>9 DEF StackInv, Stack, Fresh
<1>14. DepthsOK(frames)'
  <2> SUFFICES ASSUME NEW i \in 1..n
               PROVE  frames'[i].depth + Cardinality(ActiveTo(snap, subject, frames', i)) = limit
    BY <1>1, <1>6 DEF DepthsOK
  <2>1. i \in 0..n
    BY <1>3
  <2> QED BY <2>1, <1>8, <1>9 DEF StackInv, Stack, DepthsOK
<1>15. Stack'
  BY <1>1, <1>11, <1>12, <1>13, <1>14 DEF Stack
<1>16. CyclesNeedNoDepth'
  BY <1>1 DEF CyclesNeedNoDepth, MostActive, NoAnswer
<1> QED BY <1>3, <1>4, <1>6, <1>7, <1>8, <1>10, <1>15, <1>16 DEF StackInv

-----------------------------------------------------------------------------
(* The stack of calls.                                                     *)

(* The depth left is the limit less the active keys.                       *)
LEMMA DepthLeft ==
    ASSUME StackInv, HasPending
    PROVE  /\ Depth \in Nat /\ Depth + Cardinality(ActiveTo(snap, subject, frames, Len(frames))) = limit
           /\ Cardinality(ActiveTo(snap, subject, frames, Len(frames))) \in Nat
           /\ IsFiniteSet(ActiveTo(snap, subject, frames, Len(frames)))
           /\ MostActive \in Nat
           /\ Cardinality(ActiveTo(snap, subject, frames, Len(frames))) <= MostActive
           /\ limit \in Nat /\ IsSnapshot(snap)
<1>1. IsSnapshot(snap) /\ limit \in Nat
  BY HasTodo, OnSnapshot DEF StackInv, Shaped
<1>2. frames \in Seq(Calls(snap)) /\ Len(frames) \in 0..Len(frames)
  BY DEF StackInv, Shaped
<1>3. /\ Cardinality(ActiveTo(snap, subject, frames, Len(frames))) \in Nat
      /\ IsFiniteSet(ActiveTo(snap, subject, frames, Len(frames)))
      /\ MostActive \in Nat
      /\ Cardinality(ActiveTo(snap, subject, frames, Len(frames))) <= MostActive
  <2>1. frames # <<>> => frames[1].goal.key = Head(todo)
    BY DEF StackInv, Stack, Chained, InRelation, Goal
  <2> DEFINE i == Len(frames)
             root == Head(todo)
  <2>2. i \in 0..Len(frames) /\ (frames # <<>> => frames[1].goal.key = root)
    BY <1>2, <2>1
  <2> HIDE DEF i, root
  <2>3. /\ IsFiniteSet(ActiveTo(snap, subject, frames, i))
        /\ Cardinality(ActiveTo(snap, subject, frames, i)) \in Nat /\ Cardinality(Keys(snap)) \in Nat
        /\ Cardinality(ActiveTo(snap, subject, frames, i))
              <= Cardinality(Keys(snap)) + IF StoreKeyed(snap, subject, root) THEN 0 ELSE 1
    BY <1>1, <1>2, <2>2, ActiveToKeys
  <2>4. MostActive = Cardinality(Keys(snap)) + IF StoreKeyed(snap, subject, root) THEN 0 ELSE 1
    BY DEF MostActive, root
  <2>5. MostActive \in Nat
    BY <2>3, <2>4
  <2> QED BY <2>3, <2>4, <2>5 DEF i
<1>4. CASE frames = <<>>
  <2>1. Len(frames) = 0 /\ Depth = limit
    BY <1>4 DEF Depth
  <2>2. Cardinality(ActiveTo(snap, subject, frames, Len(frames))) = 0
    BY <2>1, ActiveToNone, FS_EmptySet
  <2> QED BY <1>1, <1>3, <2>1, <2>2
<1>5. CASE frames # <<>>
  <2>1. Len(frames) \in 1..Len(frames) /\ Depth = frames[Len(frames)].depth /\ Depth \in Nat
    BY <1>5, TopCall DEF Depth, Top, StackInv
  <2> QED BY <1>1, <1>3, <2>1 DEF StackInv, Stack, DepthsOK
<1> QED BY <1>4, <1>5

LEMMA NoneInSeq ==
    /\ <<>> \in Seq(Key) /\ <<>> \in Seq([key : Key, v : Answers \cup Errors])
    /\ \A s : <<>> \in Seq(Calls(s))
OBVIOUS

(* The invariant of the stack holds at first, is kept by each action ...   *)
LEMMA InitStackInv == Init => StackInv
<1> SUFFICES ASSUME Init PROVE StackInv
  OBVIOUS
<1>1. Requested
  BY DEF Init, Requested
<1>2. MemoOK
  <2>1. DOMAIN NoMemo = {}
    BY DEF NoMemo
  <2>2. NoMemo \in [DOMAIN NoMemo -> [v : Answers, need : 1..limit]]
    BY <2>1 DEF NoMemo
  <2> QED BY <2>1, <2>2, FS_EmptySet, LimitsAssumption DEF Init, MemoOK
<1>3. Shaped
  BY <1>1, <1>2, NoneInSeq DEF Init, Shaped
<1>4. Stack
  BY DEF Init, Stack, Chained, Fresh, DepthsOK
<1>5. CyclesNeedNoDepth
  BY DEF Init, CyclesNeedNoDepth, NoAnswer
<1> QED BY <1>3, <1>4, <1>5 DEF StackInv

LEMMA BeginKeeps ==
    ASSUME StackInv, NEW on \in BOOLEAN, NEW roots \in Seq(Key), Begin(on, roots)
    PROVE  StackInv'
<1>1. /\ memo = NoMemo /\ verdicts = <<>> /\ cut = FALSE /\ frames = <<>> /\ answer = NoAnswer
      /\ snap = NoRequest
  BY RequestAssumption DEF StackInv, Shaped, Requested, Begin
<1>2. /\ snap' \in Snapshots /\ subject' \in Subjects /\ limit' \in Depths
      /\ memoOn' = on /\ todo' = roots
      /\ UNCHANGED <<memo, verdicts, cut, frames, answer>>
  BY DEF Begin
<1>3. Requested'
  BY <1>2 DEF Requested
<1>4. MemoOK'
  <2>1. DOMAIN NoMemo = {}
    BY DEF NoMemo
  <2>2. NoMemo \in [DOMAIN NoMemo -> [v : Answers, need : 1..limit']]
    BY <2>1 DEF NoMemo
  <2> QED BY <1>1, <1>2, <2>1, <2>2, FS_EmptySet, LimitsAssumption DEF MemoOK
<1>5. Shaped'
  BY <1>1, <1>2, <1>3, <1>4, NoneInSeq DEF Shaped
<1>6. Stack'
  BY <1>1, <1>2 DEF Stack, Chained, Fresh, DepthsOK
<1>7. CyclesNeedNoDepth'
  BY <1>1, <1>2 DEF CyclesNeedNoDepth, MostActive, NoAnswer
<1> QED BY <1>5, <1>6, <1>7 DEF StackInv

LEMMA EnterKeeps ==
    ASSUME StackInv, Enter
    PROVE  StackInv'
<1> DEFINE g == Pending.goal
<1>1. Evaluating /\ g.expr = Whole /\ PendingCheckKey \notin Active(frames) /\ Depth > 0 /\ Defined(snap, g.key)
  BY DEF Enter, Entering, CheckKey, PendingKey, IsActive, PendingCheckKey
<1>2. HasPending
  BY <1>1 DEF Evaluating, HasPending
<1>3. g.key \in Keys(snap) /\ g \in Goals(snap)
  BY <1>1, <1>2, PendingIsGoal DEF StackInv, Keys
<1>4. ~NamesSubject(snap, subject, g)
  BY <1>1 DEF NamesSubject, Whole
<1>5. /\ Depth \in Nat /\ Depth + Cardinality(ActiveTo(snap, subject, frames, Len(frames))) = limit
      /\ Cardinality(ActiveTo(snap, subject, frames, Len(frames))) \in Nat
      /\ IsFiniteSet(ActiveTo(snap, subject, frames, Len(frames))) /\ limit \in Nat
  BY <1>2, DepthLeft
<1>6. Cardinality(ActiveTo(snap, subject, frames, Len(frames)) \cup {PendingCheckKey})
         = Cardinality(ActiveTo(snap, subject, frames, Len(frames))) + 1
  BY <1>1, <1>5, ActiveIsTo, FS_AddElement
<1> DEFINE d == Depth - 1
<1>7. /\ d \in Nat /\ d <= d /\ d < limit
      /\ d + Cardinality(ActiveTo(snap, subject, frames, Len(frames)) \cup {PendingCheckKey}) = limit
  BY <1>1, <1>5, <1>6
<1>8. /\ frames' = Append(frames, [goal |-> g, left |-> DOMAIN Operands(snap, g), depth |-> d, low |-> d])
      /\ UNCHANGED <<request, todo, memo, verdicts, cut, answer>>
  BY DEF Enter
<1> HIDE DEF d
<1> QED BY <1>1, <1>3, <1>4, <1>7, <1>8, PushKeeps

LEMMA DescendKeeps ==
    ASSUME StackInv, Descend
    PROVE  StackInv'
<1> DEFINE g == Pending.goal
<1>1. /\ Evaluating /\ g.expr # Whole /\ ~NamesSubject(snap, subject, g)
      /\ frames' = Append(frames, [goal |-> g, left |-> DOMAIN Operands(snap, g),
                                   depth |-> Top.depth, low |-> Top.low])
      /\ UNCHANGED <<request, todo, memo, verdicts, cut, answer>>
  BY DEF Descend
<1>2. HasPending
  BY <1>1 DEF Evaluating, HasPending
<1>3. g \in Goals(snap) /\ frames # <<>>
  BY <1>1, <1>2, PendingIsGoal DEF StackInv
<1>4. /\ Top.depth \in Nat /\ Top.low \in Nat /\ Len(frames) \in 1..Len(frames)
      /\ Top = frames[Len(frames)]
  BY <1>3, TopCall DEF StackInv
<1>5. /\ Top.low <= Top.depth /\ Top.depth < limit
      /\ Top.depth + Cardinality(ActiveTo(snap, subject, frames, Len(frames))) = limit
  BY <1>4 DEF StackInv, Stack, CallOK, DepthsOK
<1> QED BY <1>1, <1>3, <1>4, <1>5, PushKeeps

LEMMA RootDoneKeeps ==
    ASSUME StackInv, RootDone
    PROVE  StackInv'
<1>1. /\ UNCHANGED <<snap, subject, limit, memoOn, memo, cut, frames>>
      /\ answer # NoAnswer /\ frames = <<>> /\ answer' = NoAnswer
      /\ verdicts' = Append(verdicts, [key |-> Head(todo), v |-> answer])
      /\ todo' = IF answer \in Answers THEN Tail(todo) ELSE <<>>
  BY DEF RootDone, request
<1>2. todo # <<>> /\ todo \in Seq(Key) /\ answer \in Answers \cup Errors
  BY <1>1 DEF StackInv, Shaped, Stack, HasPending
<1>3. snap \in Snapshots /\ subject \in Subjects /\ limit \in Depths
  BY <1>2, OnSnapshot DEF StackInv, Shaped, Requested
<1>4. Requested'
  BY <1>1, <1>3 DEF Requested
<1>5. MemoOK'
  BY <1>1 DEF StackInv, Shaped, MemoOK
<1>6. todo' \in Seq(Key) /\ verdicts' \in Seq([key : Key, v : Answers \cup Errors])
  <2>1. Head(todo) \in Key /\ Tail(todo) \in Seq(Key)
    BY <1>2
  <2> QED BY <2>1, <1>1, <1>2 DEF StackInv, Shaped
<1>7. Shaped'
  BY <1>1, <1>4, <1>5, <1>6 DEF StackInv, Shaped
<1>8. Stack'
  BY <1>1 DEF Stack, Chained, Fresh, DepthsOK
<1>9. CyclesNeedNoDepth'
  BY <1>1 DEF CyclesNeedNoDepth, MostActive, NoAnswer
<1> QED BY <1>7, <1>8, <1>9 DEF StackInv

LEMMA FinishKeeps ==
    ASSUME StackInv, Finish
    PROVE  StackInv'
<1>1. /\ todo = <<>> /\ UNCHANGED <<todo, frames, answer>>
      /\ snap' = NoRequest /\ subject' = NoRequest /\ limit' = 0 /\ memoOn' = FALSE
      /\ memo' = NoMemo /\ verdicts' = <<>> /\ cut' = FALSE
  BY DEF Finish
<1>2. frames = <<>> /\ answer = NoAnswer
  BY <1>1 DEF StackInv, Stack, Chained, HasPending
<1>3. Init'
  BY <1>1, <1>2 DEF Init
<1>4. Requested'
  BY <1>3 DEF Init, Requested
<1>5. MemoOK'
  <2>1. DOMAIN NoMemo = {}
    BY DEF NoMemo
  <2>2. NoMemo \in [DOMAIN NoMemo -> [v : Answers, need : 1..limit']]
    BY <2>1 DEF NoMemo
  <2> QED BY <1>1, <2>1, <2>2, FS_EmptySet, LimitsAssumption DEF MemoOK
<1>6. Shaped'
  BY <1>3, <1>4, <1>5, NoneInSeq DEF Init, Shaped
<1>7. Stack'
  BY <1>1, <1>2 DEF Stack, Chained, Fresh, DepthsOK
<1>8. CyclesNeedNoDepth'
  BY <1>1 DEF CyclesNeedNoDepth, MostActive
<1> QED BY <1>6, <1>7, <1>8 DEF StackInv

(* ... and so by every step.                                               *)
LEMMA StackInvKept == StackInv /\ [Next]_vars => StackInv'
<1> SUFFICES ASSUME StackInv, [Next]_vars PROVE StackInv'
  OBVIOUS
<1>1. CASE UNCHANGED vars
  BY <1>1 DEF vars, StackInv, Shaped, Requested, MemoOK, Stack, CallOK, Chained, OperandOf, Fresh,
              DepthsOK, HasPending, Top, CyclesNeedNoDepth, MostActive
<1>2. CASE BeginCheck
  <2>1. PICK roots \in Roots : Begin(FALSE, <<Head(roots)>>)
    BY <1>2 DEF BeginCheck
  <2>2. <<Head(roots)>> \in Seq(Key)
    <3>1. roots \in Seq(Key) /\ roots # <<>>
      BY RequestAssumption
    <3>2. Head(roots) \in Key
      BY <3>1
    <3> QED BY <3>2
  <2> QED BY <2>1, <2>2, BeginKeeps
<1>3. CASE BeginLookup
  BY <1>3, BeginKeeps, RequestAssumption DEF BeginLookup
<1>4. CASE FanoutExceeded
  BY <1>4, AnsweredKeeps DEF FanoutExceeded, Errors, StackInv, Shaped
<1>5. CASE Direct
  BY <1>5, AnsweredKeeps DEF Direct, Answers, StackInv, Shaped
<1>6. CASE Descend
  BY <1>6, DescendKeeps
<1>7. CASE CutCycle
  BY <1>7, AnsweredKeeps DEF CutCycle, CheckKey, Answers
<1>8. CASE Recall
  <2>1. Evaluating /\ PendingKey \in DOMAIN memo /\ Answered(memo[PendingKey].v) /\ cut' = cut
    BY <1>8 DEF Recall, CheckKey, Remembered, MemoHit
  <2>2. memo[PendingKey].v \in Answers
    BY <2>1 DEF StackInv, Shaped, MemoOK
  <2>3. memo[PendingKey].v # "depthExceeded"
    BY <2>2 DEF Answers
  <2> QED BY <2>1, <2>2, <2>3, AnsweredKeeps DEF StackInv, Shaped
<1>9. CASE DepthExceeded
  <2>1. Evaluating /\ Depth = 0 /\ Answered("depthExceeded") /\ cut' = cut
    BY <1>9 DEF DepthExceeded, Entering, CheckKey
  <2>2. HasPending
    BY <2>1 DEF Evaluating, HasPending
  <2>3. ~(limit > MostActive)
    BY <2>1, <2>2, DepthLeft
  <2> QED BY <2>1, <2>3, AnsweredKeeps DEF StackInv, Shaped, Errors
<1>10. CASE RelationNotFound
  BY <1>10, AnsweredKeeps DEF RelationNotFound, Entering, CheckKey, Errors, StackInv, Shaped
<1>11. CASE Enter
  BY <1>11, EnterKeeps
<1>12. CASE NextOperand
  BY <1>12, NextOperandKeeps
<1>13. CASE ShortCircuit
  <2>1. Returned /\ Leave(Said) /\ frames # <<>> /\ answer # NoAnswer
    BY <1>13 DEF ShortCircuit, Returned
  <2>2. Said \in Answers \cup Errors /\ (Said = "depthExceeded" => answer = "depthExceeded")
    BY <2>1 DEF Said, Negate, StackInv, Shaped, Answers, Errors
  <2>3. snap # NoRequest
    BY <2>1, OnSnapshot DEF StackInv, Shaped, Stack, Chained
  <2>4. Said = "depthExceeded" => ~(limit > MostActive)
    <3>1. todo # <<>>
      BY <2>1 DEF StackInv, Stack, Chained
    <3> QED BY <2>2, <3>1 DEF StackInv, CyclesNeedNoDepth
  <2> HIDE DEF Said
  <2> QED BY <2>1, <2>2, <2>4, LeaveKeeps
<1>14. CASE Exhausted
  <2>1. Leave(GoOn(Top.goal)) /\ frames # <<>>
    BY <1>14 DEF Exhausted
  <2>2. GoOn(Top.goal) \in Answers /\ GoOn(Top.goal) # "depthExceeded"
    BY DEF GoOn, Answers
  <2> QED BY <2>1, <2>2, LeaveKeeps
<1>15. CASE RootDone
  BY <1>15, RootDoneKeeps
<1>16. CASE Finish
  BY <1>16, FinishKeeps
<1> QED BY <1>1, <1>2, <1>3, <1>4, <1>5, <1>6, <1>7, <1>8, <1>9, <1>10, <1>11, <1>12, <1>13, <1>14,
           <1>15, <1>16 DEF Next, Walk

LEMMA StackInvariant == Spec => []StackInv
BY InitStackInv, StackInvKept, PTL DEF Spec

LEMMA StackInvTypes == StackInv => TypeOK
<1> SUFFICES ASSUME StackInv PROVE TypeOK
  OBVIOUS
<1>1. snap = NoRequest \/ IsSnapshot(snap)
  BY RequestAssumption DEF StackInv, Shaped, Requested
<1>2. frames \in Seq(Frame)
  <2>1. CASE frames = <<>>
    BY <2>1
  <2>2. CASE frames # <<>>
    <3>1. IsSnapshot(snap)
      BY <2>2, OnSnapshot DEF StackInv, Shaped, Stack, Chained
    <3>2. ASSUME NEW g \in Goals(snap)
          PROVE  g \in [key : Key, expr : (UNION {Parts[e] : e \in DOMAIN Parts}) \cup {Whole}]
      <4>1. /\ g = Goal(g.key, g.expr) /\ g.key \in Key /\ Rewrite(snap, g.key) \in DOMAIN Parts
            /\ g.expr = Whole \/ g.expr \in Parts[Rewrite(snap, g.key)]
        BY <3>1, GoalShape, KeysFinite
      <4>2. g.expr \in (UNION {Parts[e] : e \in DOMAIN Parts}) \cup {Whole}
        BY <4>1
      <4> HIDE DEF Goals
      <4> QED BY <4>1, <4>2 DEF Goal
    <3>3. Calls(snap) \subseteq Frame
      BY <3>2 DEF Calls, Frame
    <3>4. frames \in Seq(Calls(snap))
      BY DEF StackInv, Shaped
    <3> QED BY <3>3, <3>4
  <2> QED BY <2>1, <2>2
<1>3. \A i \in 1..Len(frames) : frames[i].low <= frames[i].depth /\ frames[i].depth < limit
  BY DEF StackInv, Stack, CallOK
<1>4. subject = NoRequest \/ subject \in Subjects
  BY DEF StackInv, Shaped, Requested
<1>5. limit \in Depths \cup {0}
  BY DEF StackInv, Shaped, Requested
<1> QED BY <1>1, <1>2, <1>3, <1>4, <1>5 DEF TypeOK, StackInv, Shaped, MemoOK

(* The stack of calls, the memo and the verdicts keep their types; the memo*)
(* never exceeds its capacity and no call has more depth than the limit    *)
(* (eval.rs EvaluationContext, RequestCheckMemo).                          *)
THEOREM TypeCorrect == Spec => []TypeOK
BY StackInvariant, StackInvTypes, PTL

(* A check whose limit exceeds the number of keys never runs out of depth, *)
(* whatever cycles the relationships have: each level enters another key   *)
(* (eval.rs is_check_active, enter_check).                                 *)
THEOREM CyclesNeedNoDepthError == Spec => []CyclesNeedNoDepth
<1>1. StackInv => CyclesNeedNoDepth
  BY DEF StackInv
<1> QED BY <1>1, StackInvariant, PTL

-----------------------------------------------------------------------------
(* The answers.                                                            *)

(* An error is never a wrong answer.                                       *)
LEMMA ErrorsRight ==
    ASSUME NEW s, NEW u, NEW off, NEW g, NEW v \in Errors
    PROVE  RightIn(s, u, off, g, v)
BY DEF RightIn, Right, Errors

(* An operand that says w answered what it answers when it says w.         *)
LEMMA SameAnswer ==
    ASSUME NEW o, NEW v \in Answers \cup Errors, NEW w, w = Answering(o, v), w \in Answers
    PROVE  Answering(o, w) = v
BY DEF Answering, Negate, Answers, Errors

(* An operand is rightly answered without a call.                          *)
LEMMA AnsweredRight ==
    ASSUME StackInv, DoneRight, RecordedRight, Evaluating, NEW v, Answered(v),
           RightIn(snap, subject, Off(memoOn, snap, subject, frames, Len(frames)), Pending.goal, v)
    PROVE  DoneRight' /\ AnswerRight' /\ RecordedRight'
<1>1. UNCHANGED <<snap, subject, limit, memoOn, todo, memo, verdicts, frames>> /\ answer' = v
  BY DEF Answered, request
<1>2. DoneRight'
  BY <1>1 DEF DoneRight
<1>3. Pending' = Pending
  BY <1>1 DEF Pending, OperandOf, Top
<1>4. AnswerRight'
  BY <1>1, <1>3 DEF AnswerRight
<1>5. RecordedRight'
  BY <1>1 DEF RecordedRight
<1> QED BY <1>2, <1>4, <1>5

(* A call starts with nothing done.                                        *)
LEMMA PushRight ==
    ASSUME StackInv, DoneRight, RecordedRight, answer = NoAnswer, NEW f,
           f.left = DOMAIN Operands(snap, f.goal), frames' = Append(frames, f),
           UNCHANGED <<request, todo, memo, verdicts, cut, answer>>
    PROVE  DoneRight' /\ AnswerRight' /\ RecordedRight'
<1> DEFINE n == Len(frames)
<1>1. UNCHANGED <<snap, subject, limit, memoOn, todo, memo, verdicts, cut, answer>>
  BY DEF request
<1>2. /\ n \in Nat /\ Len(frames') = n + 1 /\ frames'[n + 1] = f
      /\ \A i \in 1..n : frames'[i] = frames[i]
  BY DEF StackInv, Shaped
<1>3. ASSUME NEW i \in 1..n PROVE Off(memoOn, snap, subject, frames', i) = Off(memoOn, snap, subject, frames, i)
  <2>1. i \in Nat /\ \A j \in 1..i : frames'[j].goal = frames[j].goal
    BY <1>2
  <2>2. ActiveTo(snap, subject, frames', i) = ActiveTo(snap, subject, frames, i)
    BY <2>1, ActiveToSame
  <2> QED BY <2>2 DEF Off
<1>4. DoneRight'
  <2> SUFFICES ASSUME NEW i \in 1..(n + 1),
                      NEW j \in DOMAIN Operands(snap, frames'[i].goal) \ frames'[i].left
               PROVE  LET o == Operands(snap, frames'[i].goal)[j]
                      IN  RightIn(snap, subject, Off(memoOn, snap, subject, frames', i), o.goal,
                                  Answering(o, GoOn(frames'[i].goal)))
    BY <1>1, <1>2 DEF DoneRight
  <2>1. i \in 1..n
    BY <1>2
  <2>2. frames'[i] = frames[i] /\ Off(memoOn, snap, subject, frames', i) = Off(memoOn, snap, subject, frames, i)
    BY <2>1, <1>2, <1>3
  <2> QED BY <2>1, <2>2 DEF DoneRight
<1>5. AnswerRight'
  BY <1>1 DEF AnswerRight
<1>6. RecordedRight'
  BY <1>1 DEF RecordedRight
<1> QED BY <1>4, <1>5, <1>6

(* The operands still to do and those done.                                *)
LEMMA NextOperandRight ==
    ASSUME StackInv, DoneRight, AnswerRight, RecordedRight, NextOperand
    PROVE  DoneRight' /\ AnswerRight' /\ RecordedRight'
<1> DEFINE n == Len(frames)
           first == First(Top.left)
<1>1. /\ UNCHANGED <<snap, subject, limit, memoOn, todo, memo, verdicts, cut>> /\ answer' = NoAnswer
      /\ frames # <<>> /\ answer # NoAnswer /\ Said = GoOn(Top.goal)
  BY DEF NextOperand, Returned, request
<1>2. /\ Len(frames') = n
      /\ \A i \in 1..n : frames'[i].goal = frames[i].goal
      /\ \A i \in 1..(n - 1) : frames'[i] = frames[i]
      /\ frames'[n].left = Top.left \ {first}
  BY NextOperandKeeps
<1>3. n \in Nat \ {0} /\ Top = frames[n]
  BY <1>1, TopCall DEF StackInv
<1>4. ASSUME NEW i \in 1..n PROVE Off(memoOn, snap, subject, frames', i) = Off(memoOn, snap, subject, frames, i)
  <2>1. i \in Nat /\ \A j \in 1..i : frames'[j].goal = frames[j].goal
    BY <1>2, <1>3
  <2>2. ActiveTo(snap, subject, frames', i) = ActiveTo(snap, subject, frames, i)
    BY <2>1, ActiveToSame
  <2> QED BY <2>2 DEF Off
<1>5. LET o == OperandOf(Top)
      IN  RightIn(snap, subject, Off(memoOn, snap, subject, frames, n), o.goal, Answering(o, GoOn(Top.goal)))
  <2> DEFINE o == OperandOf(Top)
  <2>1. RightIn(snap, subject, Off(memoOn, snap, subject, frames, n), o.goal, answer)
    BY <1>1 DEF AnswerRight, Pending
  <2>2. Answering(o, answer) = GoOn(Top.goal)
    BY <1>1 DEF Said, Answering
  <2>3. GoOn(Top.goal) \in Answers /\ answer \in Answers \cup Errors
    BY <1>1 DEF GoOn, Answers, StackInv, Shaped
  <2> HIDE DEF o
  <2>4. Answering(o, GoOn(Top.goal)) = answer
    BY <2>2, <2>3, SameAnswer
  <2> QED BY <2>1, <2>4 DEF o
<1>6. DoneRight'
  <2> SUFFICES ASSUME NEW i \in 1..n,
                      NEW j \in DOMAIN Operands(snap, frames'[i].goal) \ frames'[i].left
               PROVE  LET o == Operands(snap, frames'[i].goal)[j]
                      IN  RightIn(snap, subject, Off(memoOn, snap, subject, frames', i), o.goal,
                                  Answering(o, GoOn(frames'[i].goal)))
    BY <1>1, <1>2 DEF DoneRight
  <2>1. frames'[i].goal = frames[i].goal /\ Off(memoOn, snap, subject, frames', i) = Off(memoOn, snap, subject, frames, i)
    BY <1>2, <1>4
  <2>2. CASE j \notin frames[i].left
    BY <2>1, <2>2 DEF DoneRight
  <2>3. CASE j \in frames[i].left
    <3>1. i = n
      BY <2>3, <1>2, <1>3
    <3>2. j = first
      BY <2>3, <3>1, <1>2, <1>3
    <3>3. Operands(snap, frames[i].goal)[j] = OperandOf(Top)
      BY <3>1, <3>2, <1>3 DEF OperandOf
    <3> QED BY <3>1, <3>3, <2>1, <1>3, <1>5
  <2> QED BY <2>2, <2>3
<1>7. AnswerRight'
  BY <1>1 DEF AnswerRight
<1>8. RecordedRight'
  BY <1>1 DEF RecordedRight
<1> QED BY <1>6, <1>7, <1>8

(* What the last call is about to answer is right below it.                *)
LEMMA ExhaustedRight ==
    ASSUME StackInv, DoneRight, frames # <<>>, Top.left = {}
    PROVE  RightIn(snap, subject, Off(memoOn, snap, subject, frames, Len(frames) - 1), Top.goal, GoOn(Top.goal))
<1> DEFINE n == Len(frames)
           g == Top.goal
           os == Operands(snap, g)
           off == Off(memoOn, snap, subject, frames, n)
           below == Off(memoOn, snap, subject, frames, n - 1)
<1>1. n \in Nat \ {0} /\ Top = frames[n] /\ g \in Goals(snap) /\ n \in 1..n
  BY TopCall DEF StackInv
<1>2. IsSnapshot(snap)
  BY OnSnapshot DEF StackInv, Shaped, Stack, Chained
<1>3. \A j \in DOMAIN os : RightIn(snap, subject, off, os[j].goal, Answering(os[j], GoOn(g)))
  BY <1>1 DEF DoneRight
<1>4. ~NamesSubject(snap, subject, g)
  BY <1>1 DEF StackInv, Stack, CallOK
<1>5. g.key \in Key
  BY <1>1, <1>2, GoalShape, KeysFinite
<1>6. \/ below = off /\ (g.expr = Whole => g.key \notin off)
      \/ g.expr = Whole /\ off = below \cup {g.key} /\ g.key \notin below
  <2>1. g.expr = Whole =>
           CheckKeyOf(snap, subject, g.key, n) \notin ActiveTo(snap, subject, frames, n - 1)
    BY <1>1 DEF StackInv, Stack, Fresh
  <2>2. CASE memoOn
    BY <2>2 DEF Off
  <2>3. CASE ~memoOn
    <3>1. g = frames[n].goal
      BY <1>1
    <3>2. Off(memoOn, snap, subject, frames, n) = Off(FALSE, snap, subject, frames, n)
          /\ Off(memoOn, snap, subject, frames, n - 1) = Off(FALSE, snap, subject, frames, n - 1)
      BY <2>3 DEF Off
    <3> HIDE DEF n, g
    <3>3. /\ g.expr # Whole => Off(FALSE, snap, subject, frames, n) = Off(FALSE, snap, subject, frames, n - 1)
          /\ g.expr = Whole =>
                /\ g.key \notin Off(FALSE, snap, subject, frames, n - 1)
                /\ \/ Off(FALSE, snap, subject, frames, n) = Off(FALSE, snap, subject, frames, n - 1) \cup {g.key}
                   \/ Off(FALSE, snap, subject, frames, n) = Off(FALSE, snap, subject, frames, n - 1)
      BY <1>1, <1>5, <2>1, <3>1, OffNext
    <3> QED BY <3>2, <3>3
  <2> QED BY <2>2, <2>3
<1>7. CASE below = off /\ (g.expr = Whole => g.key \notin off)
  <2>1. below = off /\ (g.expr = Whole => g.key \notin off)
    BY <1>7
  <2> HIDE DEF off, below, g
  <2> QED BY <1>1, <1>2, <1>3, <1>4, <2>1, AllGoOn DEF RightIn, g, below, os
<1>8. CASE g.expr = Whole /\ off = below \cup {g.key} /\ g.key \notin below
  <2>1. off = below \cup {g.key} /\ g.key \notin below
    BY <1>8
  <2>2. g.expr.op = "relation" /\ g = InRelation(g.key) /\ g.key \in Keys(snap)
    BY <1>1, <1>2, <1>8, GoalShape DEF Whole, InRelation
  <2>3. 1 \in DOMAIN os /\ os[1].goal = Goal(g.key, Rewrite(snap, g.key)) /\ os[1].negated = FALSE
    BY <2>2, OperandsOfRelation DEF Plain
  <2>4. RightIn(snap, subject, off, Goal(g.key, Rewrite(snap, g.key)), GoOn(g))
    BY <1>3, <2>3 DEF Answering
  <2> HIDE DEF off, below, g
  <2>5. RightIn(snap, subject, below, InRelation(g.key), GoOn(g))
    BY <1>2, <2>1, <2>2, <2>4, EnteredRight DEF RightIn
  <2> QED BY <2>2, <2>5 DEF g, below
<1> QED BY <1>6, <1>7, <1>8

(* The same when one operand ended it.                                     *)
LEMMA ShortCircuitRight ==
    ASSUME StackInv, AnswerRight, Returned, Said # GoOn(Top.goal)
    PROVE  RightIn(snap, subject, Off(memoOn, snap, subject, frames, Len(frames) - 1), Top.goal, Said)
<1> DEFINE n == Len(frames)
           g == Top.goal
           os == Operands(snap, g)
           i == First(Top.left)
           off == Off(memoOn, snap, subject, frames, n)
           below == Off(memoOn, snap, subject, frames, n - 1)
<1>0. answer # NoAnswer /\ frames # <<>> /\ Top.left # {}
  BY DEF Returned, StackInv, Stack, HasPending
<1>1. n \in Nat \ {0} /\ Top = frames[n] /\ g \in Goals(snap) /\ n \in 1..n /\ Top.left \in SUBSET Nat
  BY <1>0, TopCall DEF StackInv
<1>2. IsSnapshot(snap)
  BY <1>0, OnSnapshot DEF StackInv, Shaped, Stack, Chained
<1>3. i \in DOMAIN os
  BY <1>0, <1>1, FirstIn DEF StackInv, Stack, CallOK
<1>4. RightIn(snap, subject, off, os[i].goal, answer)
  BY <1>0 DEF AnswerRight, Pending, OperandOf
<1>5. g.key \in Key
  BY <1>1, <1>2, GoalShape, KeysFinite
<1>6. \/ below = off /\ (g.expr = Whole => g.key \notin off)
      \/ g.expr = Whole /\ off = below \cup {g.key} /\ g.key \notin below
  <2>1. g.expr = Whole =>
           CheckKeyOf(snap, subject, g.key, n) \notin ActiveTo(snap, subject, frames, n - 1)
    BY <1>1 DEF StackInv, Stack, Fresh
  <2>2. CASE memoOn
    BY <2>2 DEF Off
  <2>3. CASE ~memoOn
    <3>1. g = frames[n].goal
      BY <1>1
    <3>2. Off(memoOn, snap, subject, frames, n) = Off(FALSE, snap, subject, frames, n)
          /\ Off(memoOn, snap, subject, frames, n - 1) = Off(FALSE, snap, subject, frames, n - 1)
      BY <2>3 DEF Off
    <3> HIDE DEF n, g
    <3>3. /\ g.expr # Whole => Off(FALSE, snap, subject, frames, n) = Off(FALSE, snap, subject, frames, n - 1)
          /\ g.expr = Whole =>
                /\ g.key \notin Off(FALSE, snap, subject, frames, n - 1)
                /\ \/ Off(FALSE, snap, subject, frames, n) = Off(FALSE, snap, subject, frames, n - 1) \cup {g.key}
                   \/ Off(FALSE, snap, subject, frames, n) = Off(FALSE, snap, subject, frames, n - 1)
      BY <1>1, <1>5, <2>1, <3>1, OffNext
    <3> QED BY <3>2, <3>3
  <2> QED BY <2>2, <2>3
<1>a. Said = Answering(os[i], answer)
  BY DEF Said, Answering, OperandOf
<1>7. CASE below = off /\ (g.expr = Whole => g.key \notin off)
  <2>1. below = off /\ (g.expr = Whole => g.key \notin off)
    BY <1>7
  <2>2. Answering(os[i], answer) # GoOn(g)
    BY <1>a
  <2> HIDE DEF off, below, g, i
  <2>3. RightIn(snap, subject, off, g, Answering(os[i], answer))
    BY <1>1, <1>2, <1>3, <1>4, <2>1, <2>2, OneEnds DEF RightIn, os
  <2> QED BY <2>1, <2>3, <1>a DEF g, below
<1>8. CASE g.expr = Whole /\ off = below \cup {g.key} /\ g.key \notin below
  <2>1. off = below \cup {g.key} /\ g.key \notin below
    BY <1>8
  <2>2. g.expr.op = "relation" /\ g = InRelation(g.key) /\ g.key \in Keys(snap)
    BY <1>1, <1>2, <1>8, GoalShape DEF Whole, InRelation
  <2>3. i = 1 /\ os[1].goal = Goal(g.key, Rewrite(snap, g.key)) /\ os[1].negated = FALSE
    BY <1>3, <2>2, OperandsOfRelation DEF Plain
  <2>4. RightIn(snap, subject, off, Goal(g.key, Rewrite(snap, g.key)), answer) /\ Said = answer
    BY <1>4, <1>a, <2>3 DEF Answering
  <2> HIDE DEF off, below, g
  <2>5. RightIn(snap, subject, below, InRelation(g.key), answer)
    BY <1>2, <2>1, <2>2, <2>4, EnteredRight DEF RightIn
  <2> QED BY <2>2, <2>4, <2>5 DEF g, below
<1> QED BY <1>6, <1>7, <1>8

(* What memo_insert leaves to be read.                                     *)
LEMMA MemoInsertReads ==
    ASSUME NEW m, NEW k, NEW v, NEW need, NEW j \in DOMAIN MemoInsert(m, k, v, need)
    PROVE  LET r == MemoInsert(m, k, v, need)
           IN  (j = k /\ r[j].v = v) \/ (j \in DOMAIN m /\ r[j] = m[j])
BY DEF MemoInsert

(* A call that answers right leaves everything right.                      *)
LEMMA LeaveRight ==
    ASSUME StackInv, DoneRight, RecordedRight, frames # <<>>, NEW v, Leave(v),
           RightIn(snap, subject, Off(memoOn, snap, subject, frames, Len(frames) - 1), Top.goal, v)
    PROVE  DoneRight' /\ AnswerRight' /\ RecordedRight'
<1> DEFINE n == Len(frames)
<1>1. UNCHANGED <<snap, subject, limit, memoOn, todo, verdicts, cut>> /\ answer' = v
  BY DEF Leave, request
<1>2. todo # <<>> /\ IsSnapshot(snap) /\ snap # NoRequest
  BY OnSnapshot DEF StackInv, Stack, Chained, Shaped
<1>3. /\ n \in Nat \ {0} /\ n \in 1..n /\ Top = frames[n]
      /\ Top.goal \in Goals(snap) /\ Top.depth \in Nat /\ Top.low \in Nat
  BY TopCall DEF StackInv
<1>4. /\ Len(frames') = n - 1
      /\ \A i \in 1..(n - 1) : frames'[i].goal = frames[i].goal /\ frames'[i].left = frames[i].left
  <2>1. Len(Below(frames)) = n - 1 /\ (Len(Below(frames)) = 0 <=> n = 1)
    BY <1>3, BelowCalls
  <2>2. frames' = IF n = 1 THEN Below(frames)
                  ELSE [Below(frames) EXCEPT ![n - 1].low = Lower(@, Top.low)]
    BY <2>1 DEF Leave
  <2> QED BY <2>2, BelowCalls
<1>5. ASSUME NEW i \in 0..(n - 1) PROVE Off(memoOn, snap, subject, frames', i) = Off(memoOn, snap, subject, frames, i)
  <2>1. i \in Nat /\ \A j \in 1..i : frames'[j].goal = frames[j].goal
    BY <1>3, <1>4
  <2>2. ActiveTo(snap, subject, frames', i) = ActiveTo(snap, subject, frames, i)
    BY <2>1, ActiveToSame
  <2> QED BY <2>2 DEF Off
<1>6. DoneRight'
  <2> SUFFICES ASSUME NEW i \in 1..(n - 1),
                      NEW j \in DOMAIN Operands(snap, frames'[i].goal) \ frames'[i].left
               PROVE  LET o == Operands(snap, frames'[i].goal)[j]
                      IN  RightIn(snap, subject, Off(memoOn, snap, subject, frames', i), o.goal,
                                  Answering(o, GoOn(frames'[i].goal)))
    BY <1>1, <1>4 DEF DoneRight
  <2>1. i \in 1..n /\ i \in 0..(n - 1)
    BY <1>3
  <2>2. frames'[i].goal = frames[i].goal /\ frames'[i].left = frames[i].left
        /\ Off(memoOn, snap, subject, frames', i) = Off(memoOn, snap, subject, frames, i)
    BY <2>1, <1>4, <1>5
  <2> QED BY <2>1, <2>2 DEF DoneRight
<1>7. Pending.goal' = Top.goal
  <2>1. CASE n = 1
    <3>1. frames' = <<>>
      BY <2>1, <1>4, BelowCalls DEF Leave
    <3>2. Top.goal = InRelation(Head(todo))
      BY <2>1, <1>3 DEF StackInv, Stack, Chained
    <3> QED BY <3>1, <3>2, <1>1 DEF Pending, Operand
  <2>2. CASE n # 1
    <3>0. n \in Nat /\ n >= 2
      <4>1. n \in Nat \ {0} /\ n # 1
        BY <2>2, <1>3
      <4> HIDE DEF n
      <4> QED BY <4>1
    <3>1. n - 1 \in 1..(n - 1) /\ n \in 2..n
      BY <3>0
    <3>2. frames[n].goal = OperandOf(frames[n - 1]).goal
      BY <3>1 DEF StackInv, Stack, Chained
    <3>3. frames' # <<>>
      BY <3>1, <1>4
    <3>4. Pending.goal' = Operands(snap, frames'[n - 1].goal)[First(frames'[n - 1].left)].goal
      BY <3>3, <1>1, <1>4 DEF Pending, OperandOf, Top
    <3> QED BY <3>1, <3>2, <3>4, <1>3, <1>4 DEF OperandOf
  <2> QED BY <2>1, <2>2
<1>8. AnswerRight'
  <2>1. n - 1 \in 0..(n - 1)
    BY <1>3
  <2> QED BY <2>1, <1>1, <1>4, <1>5, <1>7 DEF AnswerRight
<1>9. RecordedRight'
  <2>1. \A i \in 1..Len(verdicts') :
            RightIn(snap, subject, {}, InRelation(verdicts'[i].key), verdicts'[i].v)
    BY <1>1, <1>2 DEF RecordedRight
  <2>2. ASSUME memoOn, NEW k \in DOMAIN memo' PROVE RightIn(snap, subject, {}, InRelation(k), memo'[k].v)
    <3>1. CASE Top.goal.expr = Whole /\ Eligible(Below(frames)) /\ v \in Answers
      <4> DEFINE key == Top.goal.key
                 need == Top.depth + 1 - Top.low
      <4>1. memo' = MemoInsert(memo, key, v, need) /\ v \in Answers
        BY <3>1 DEF Leave
      <4>2. key \in Key /\ Top.goal = InRelation(key)
        BY <1>2, <1>3, <3>1, GoalShape, KeysFinite DEF InRelation
      <4>3. Top.low <= Top.depth /\ Top.depth < limit /\ limit \in Nat
        BY <1>2, <1>3, OnSnapshot DEF StackInv, Shaped, Stack, CallOK
      <4>4. need \in 1..limit
        BY <1>3, <4>3
      <4>5. /\ DOMAIN memo \subseteq Key /\ Cardinality(DOMAIN memo) <= MemoCapacity
            /\ memo \in [DOMAIN memo -> [v : Answers, need : 1..limit]]
        BY DEF StackInv, Shaped, MemoOK
      <4> HIDE DEF key, need
      <4>a. \A j \in DOMAIN memo' : (j = key /\ memo'[j].v = v) \/ (j \in DOMAIN memo /\ memo'[j] = memo[j])
        BY <4>1, MemoInsertReads
      <4>6. (k = key /\ memo'[k].v = v) \/ (k \in DOMAIN memo /\ memo'[k] = memo[k])
        BY <4>a
      <4>7. RightIn(snap, subject, {}, InRelation(key), v)
        BY <2>2, <4>2 DEF Off
      <4> QED BY <2>2, <1>2, <4>6, <4>7 DEF RecordedRight
    <3>2. CASE ~(Top.goal.expr = Whole /\ Eligible(Below(frames)) /\ v \in Answers)
      <4>1. memo' = memo
        BY <3>2 DEF Leave
      <4> QED BY <4>1, <2>2, <1>2 DEF RecordedRight
    <3> QED BY <3>1, <3>2
  <2> QED BY <2>1, <2>2, <1>1 DEF RecordedRight
<1> QED BY <1>6, <1>8, <1>9

(* Every step keeps the answers right.                                     *)
LEMMA RightInvKept == StackInv /\ RightInv /\ [Next]_vars => RightInv'
<1> SUFFICES ASSUME StackInv, RightInv, [Next]_vars, (memoOn => ~cut)'
             PROVE  DoneRight' /\ AnswerRight' /\ RecordedRight'
  BY DEF RightInv
<1> USE DEF RightInv
<1>0. ASSUME UNCHANGED <<memoOn, cut>> PROVE DoneRight /\ AnswerRight /\ RecordedRight
  BY <1>0
<1>1. CASE UNCHANGED vars
  <2>1. DoneRight /\ AnswerRight /\ RecordedRight
    BY <1>1, <1>0 DEF vars
  <2> QED BY <2>1, <1>1 DEF vars, DoneRight, AnswerRight, RecordedRight, Pending, OperandOf, Top
<1>2. ASSUME NEW on, NEW roots, Begin(on, roots) PROVE DoneRight' /\ AnswerRight' /\ RecordedRight'
  <2>1. /\ frames' = <<>> /\ answer' = NoAnswer /\ verdicts' = <<>> /\ memo' = NoMemo
    BY <1>2, RequestAssumption DEF StackInv, Shaped, Requested, Begin
  <2> QED BY <2>1 DEF DoneRight, AnswerRight, RecordedRight, NoMemo
<1>3. CASE BeginCheck
  BY <1>2, <1>3 DEF BeginCheck
<1>4. CASE BeginLookup
  BY <1>2, <1>4 DEF BeginLookup
<1>5. ASSUME Evaluating PROVE HasPending /\ IsSnapshot(snap) /\ answer = NoAnswer
  <2>1. HasPending
    BY <1>5 DEF Evaluating, HasPending
  <2> QED BY <2>1, <1>5, HasTodo, OnSnapshot DEF StackInv, Shaped, Evaluating
<1>6. CASE FanoutExceeded
  <2>1. Evaluating /\ Answered("fanoutExceeded") /\ UNCHANGED <<memoOn, cut>>
    BY <1>6 DEF FanoutExceeded, Answered, request
  <2> QED BY <2>1, <1>0, ErrorsRight, AnsweredRight DEF Errors
<1>7. CASE Direct
  <2>1. Evaluating /\ Answered("allowed") /\ UNCHANGED <<memoOn, cut>>
        /\ NamesSubject(snap, subject, Pending.goal)
    BY <1>7 DEF Direct, Answered, request
  <2>2. Pending.goal.expr # Whole
    BY <2>1 DEF NamesSubject, Whole
  <2>3. Pending.goal \in Goals(snap)
    BY <2>1, <2>2, <1>5, PendingIsGoal DEF StackInv
  <2>4. RightIn(snap, subject, Off(memoOn, snap, subject, frames, Len(frames)), Pending.goal, "allowed")
    BY <2>1, <2>3, <1>5, NamedRight DEF RightIn
  <2> QED BY <2>1, <2>4, <1>0, AnsweredRight
<1>8. CASE Descend
  <2> DEFINE f == [goal |-> Pending.goal, left |-> DOMAIN Operands(snap, Pending.goal),
                   depth |-> Top.depth, low |-> Top.low]
  <2>1. Evaluating /\ frames' = Append(frames, f) /\ UNCHANGED <<request, todo, memo, verdicts, cut, answer>>
    BY <1>8 DEF Descend
  <2>2. UNCHANGED <<memoOn, cut>> /\ f.left = DOMAIN Operands(snap, f.goal)
    BY <2>1 DEF request
  <2> HIDE DEF f
  <2> QED BY <2>1, <2>2, <1>0, <1>5, PushRight
<1>9. CASE CutCycle
  <2>1. /\ Evaluating /\ Answered("denied") /\ cut' = TRUE /\ memoOn' = memoOn
        /\ Pending.goal.expr = Whole /\ PendingCheckKey \in Active(frames)
    BY <1>9 DEF CutCycle, CheckKey, PendingKey, IsActive, PendingCheckKey, Answered, request
  <2>2. ~memoOn
    BY <2>1
  <2>3. Pending.goal = InRelation(Pending.goal.key)
    BY <2>1, <1>5, PendingIsGoal DEF StackInv, InRelation
  <2>4. Pending.goal.key \in Off(memoOn, snap, subject, frames, Len(frames))
    <3>1. PendingCheckKey \in ActiveTo(snap, subject, frames, Len(frames))
      BY <2>1, ActiveIsTo
    <3>2. frames # <<>>
      BY <3>1, ActiveToNone
    <3>3. PendingCheckKey = CheckKeyOf(snap, subject, Pending.goal.key, 2)
      BY <3>2, CheckKeys DEF PendingCheckKey
    <3>4. Pending.goal.key \in Key
      BY <2>1, <1>5, PendingIsGoal DEF StackInv
    <3> QED BY <2>2, <3>1, <3>3, <3>4 DEF Off
  <2>5. RightIn(snap, subject, Off(memoOn, snap, subject, frames, Len(frames)), Pending.goal, "denied")
    BY <2>1, <2>3, <2>4, <1>5, CutRight DEF RightIn
  <2> QED BY <2>1, <2>2, <2>5, AnsweredRight
<1>10. CASE Recall
  <2>1. /\ Evaluating /\ Pending.goal.expr = Whole /\ memoOn /\ Pending.goal.key \in DOMAIN memo
        /\ Answered(memo[Pending.goal.key].v) /\ UNCHANGED <<memoOn, cut>>
    BY <1>10 DEF Recall, CheckKey, Remembered, Eligible, MemoHit, PendingKey, Answered, request
  <2>2. Pending.goal = InRelation(Pending.goal.key)
    BY <2>1, <1>5, PendingIsGoal DEF StackInv, InRelation
  <2>3. snap # NoRequest
    BY <2>1, <1>5, HasTodo, OnSnapshot DEF StackInv, Shaped
  <2>4. RightIn(snap, subject, {}, InRelation(Pending.goal.key), memo[Pending.goal.key].v)
    BY <2>1, <2>3, <1>0 DEF RecordedRight
  <2>5. RightIn(snap, subject, Off(memoOn, snap, subject, frames, Len(frames)), Pending.goal, memo[Pending.goal.key].v)
    BY <2>1, <2>2, <2>4 DEF Off
  <2> QED BY <2>1, <2>5, <1>0, AnsweredRight
<1>11. CASE DepthExceeded
  <2>1. Evaluating /\ Answered("depthExceeded") /\ UNCHANGED <<memoOn, cut>>
    BY <1>11 DEF DepthExceeded, Entering, CheckKey, Answered, request
  <2> QED BY <2>1, <1>0, ErrorsRight, AnsweredRight DEF Errors
<1>12. CASE RelationNotFound
  <2>1. Evaluating /\ Answered("relationNotFound") /\ UNCHANGED <<memoOn, cut>>
    BY <1>12 DEF RelationNotFound, Entering, CheckKey, Answered, request
  <2> QED BY <2>1, <1>0, ErrorsRight, AnsweredRight DEF Errors
<1>13. CASE Enter
  <2> DEFINE f == [goal |-> Pending.goal, left |-> DOMAIN Operands(snap, Pending.goal),
                   depth |-> Depth - 1, low |-> Depth - 1]
  <2>1. Evaluating /\ frames' = Append(frames, f) /\ UNCHANGED <<request, todo, memo, verdicts, cut, answer>>
    BY <1>13 DEF Enter, Entering, CheckKey
  <2>2. UNCHANGED <<memoOn, cut>> /\ f.left = DOMAIN Operands(snap, f.goal)
    BY <2>1 DEF request
  <2> HIDE DEF f
  <2> QED BY <2>1, <2>2, <1>0, <1>5, PushRight
<1>14. CASE NextOperand
  <2>1. UNCHANGED <<memoOn, cut>>
    BY <1>14 DEF NextOperand, request
  <2> QED BY <2>1, <1>0, <1>14, NextOperandRight
<1>15. CASE ShortCircuit
  <2>1. Returned /\ Said # GoOn(Top.goal) /\ Leave(Said) /\ frames # <<>> /\ UNCHANGED <<memoOn, cut>>
    BY <1>15 DEF ShortCircuit, Returned, Leave, request
  <2> QED BY <2>1, <1>0, ShortCircuitRight, LeaveRight
<1>16. CASE Exhausted
  <2>1. Top.left = {} /\ Leave(GoOn(Top.goal)) /\ frames # <<>> /\ UNCHANGED <<memoOn, cut>>
    BY <1>16 DEF Exhausted, Leave, request
  <2> QED BY <2>1, <1>0, ExhaustedRight, LeaveRight
<1>17. CASE RootDone
  <2>1. /\ UNCHANGED <<snap, subject, memoOn, memo, cut, frames>>
        /\ answer # NoAnswer /\ frames = <<>> /\ answer' = NoAnswer
        /\ verdicts' = Append(verdicts, [key |-> Head(todo), v |-> answer])
    BY <1>17 DEF RootDone, request
  <2>2. DoneRight /\ AnswerRight /\ RecordedRight
    BY <2>1, <1>0
  <2>3. Off(memoOn, snap, subject, frames, Len(frames)) = {}
    <3>1. Len(frames) = 0
      BY <2>1
    <3> QED BY <3>1, ActiveToNone DEF Off
  <2>4. RightIn(snap, subject, {}, InRelation(Head(todo)), answer)
    BY <2>1, <2>2, <2>3 DEF AnswerRight, Pending, Operand
  <2>5. snap # NoRequest
    BY <2>1, OnSnapshot DEF StackInv, Shaped, Stack, HasPending
  <2>6. \A i \in 1..Len(verdicts') : \/ i \in 1..Len(verdicts) /\ verdicts'[i] = verdicts[i]
                                     \/ verdicts'[i] = [key |-> Head(todo), v |-> answer]
    BY <2>1 DEF StackInv, Shaped
  <2>7. \A i \in 1..Len(verdicts') :
            RightIn(snap, subject, {}, InRelation(verdicts'[i].key), verdicts'[i].v)
    BY <2>2, <2>4, <2>5, <2>6 DEF RecordedRight
  <2>8. RecordedRight'
    BY <2>1, <2>2, <2>5, <2>7 DEF RecordedRight
  <2> QED BY <2>1, <2>8 DEF DoneRight, AnswerRight
<1>18. CASE Finish
  <2>1. frames = <<>> /\ answer = NoAnswer /\ snap' = NoRequest /\ UNCHANGED <<frames, answer>>
    BY <1>18 DEF Finish, StackInv, Stack, Chained, HasPending
  <2> QED BY <2>1 DEF DoneRight, AnswerRight, RecordedRight
<1> QED BY <1>1, <1>3, <1>4, <1>6, <1>7, <1>8, <1>9, <1>10, <1>11, <1>12, <1>13, <1>14, <1>15, <1>16,
           <1>17, <1>18 DEF Next, Walk

LEMMA RightInvariant == Spec => []RightInv
<1>1. Init => RightInv
  BY DEF Init, RightInv, DoneRight, AnswerRight, RecordedRight
<1> QED BY <1>1, RightInvKept, StackInvariant, PTL DEF Spec

(* What the invariant says between root checks.                            *)
LEMMA Recorded ==
    ASSUME StackInv, RightInv, BetweenRoots, memoOn => ~cut
    PROVE  LET sure == Sure(snap, subject, {})
               possible == Derived(snap, subject, {}, sure)
           IN  VerdictsRight(sure, possible) /\ (memoOn => MemoRight(sure, possible))
<1>1. snap # NoRequest
  BY RequestAssumption DEF StackInv, Shaped, Requested, BetweenRoots
<1>2. RecordedRight
  BY DEF RightInv
<1> QED BY <1>1, <1>2 DEF RecordedRight, RightIn, Possible, VerdictsRight, MemoRight

(* A check of any schema and relationships, cycles and exclusions included,*)
(* answers the well-founded meaning or an error: it allows only what may   *)
(* hold and denies only what is not sure (eval.rs evaluate_check_key and   *)
(* the eval_ functions).                                                   *)
THEOREM ChecksRight == Spec => []CheckExact
<1>1. StackInv /\ RightInv => CheckExact
  BY Recorded DEF CheckExact
<1> QED BY <1>1, StackInvariant, RightInvariant, PTL

(* As long as no cycle was cut, a lookup that keeps a memo between its root*)
(* checks gives right verdicts, and every entry of the memo is right       *)
(* (eval.rs RequestCheckMemo::insert, RequestCheckMemo::get).              *)
THEOREM MemoRightWithoutCycles == Spec => []MemoExactWithoutCycles
<1>1. StackInv /\ RightInv => MemoExactWithoutCycles
  BY Recorded DEF MemoExactWithoutCycles
<1> QED BY <1>1, StackInvariant, RightInvariant, PTL

=============================================================================
