------------------------------ MODULE Semantics ------------------------------
(***************************************************************************)
(* What a schema and its relationships mean, without depth, order, stacks  *)
(* or caches: the usersets an object's relation holds (the reference for   *)
(* src/src/eval.rs; specs/14 names the rewrite operations).                *)
(*                                                                         *)
(* A goal says that a subject is in a relation of an object, or that it    *)
(* satisfies one expression of that relation's rewrite.  Relations may     *)
(* depend on each other in cycles, so the meaning is a least fixed point;  *)
(* exclusion makes it the well-founded one: a goal surely holds when it is *)
(* derived with exclusions read against everything that may still hold.  A *)
(* snapshot whose cycles pass through an exclusion may leave goals that    *)
(* are possible and not sure.                                              *)
(***************************************************************************)
EXTENDS Naturals, Sequences, FiniteSets

CONSTANTS Objects,        \* objects [ns, id]
          RelationNames,
          NoRelation,     \* a subject that is an object, not a userset
          Parts           \* rewrite -> the expressions it is made of

(* A check key without its user: `object#relation`.                        *)
Key == [obj : Objects, rel : RelationNames]

Subject == [obj : Objects, rel : RelationNames \cup {NoRelation}]

Row == [res : Key, sub : Subject]

(* A compiled expression whose operands are among `parts`.                 *)
IsExpression(e, parts) ==
    \/ e.op = "this"
    \/ e.op = "computed" /\ e.rel \in RelationNames
    \/ e.op = "tupleToUserset" /\ e.tupleset \in RelationNames /\ e.rel \in RelationNames
    \/ e.op \in {"union", "intersection"} /\ e.args \in Seq(parts)
    \/ e.op = "exclusion" /\ e.base \in parts /\ e.exclude \in parts

ASSUME SemanticsAssumption ==
    /\ IsFiniteSet(Objects) /\ IsFiniteSet(RelationNames)
    /\ NoRelation \notin RelationNames
    /\ \A e \in DOMAIN Parts :
          /\ e \in Parts[e] /\ IsFiniteSet(Parts[e])
          /\ \A p \in Parts[e] : IsExpression(p, Parts[e])

(* The identifiers that a key or a subject is made of.                     *)
Symbols(k) == {k.obj.ns, k.obj.id} \cup ({k.rel} \ {NoRelation})

(* A snapshot: a schema and a view of the store.                           *)
(*   schema    namespace -> relation -> rewrite expression                 *)
(*   bare      the relations [ns, rel] declared without a rewrite: they    *)
(*             are evaluated as `this`                                     *)
(*   rows      in the order queries yield them: the delta's, then the      *)
(*             checkpoint's                                                *)
(*   inserted  how many of them are the delta's                            *)
(*   hidden    the places of the checkpoint's rows that a tombstone hides  *)
(*   delta     whether the view has a delta, were it empty                 *)
(*   symbols   the identifiers that the checkpoint has interned            *)
IsSnapshot(snap) ==
    /\ \A ns \in DOMAIN snap.schema :
          /\ DOMAIN snap.schema[ns] \subseteq RelationNames
          /\ \A r \in DOMAIN snap.schema[ns] : snap.schema[ns][r] \in DOMAIN Parts
    /\ \A b \in snap.bare : b.ns \in DOMAIN snap.schema /\ b.rel \in DOMAIN snap.schema[b.ns]
                              /\ snap.schema[b.ns][b.rel].op = "this"
    /\ snap.rows \in Seq(Row) /\ snap.inserted \in 0..Len(snap.rows)
    /\ snap.hidden \subseteq (snap.inserted + 1)..Len(snap.rows)
    /\ snap.delta \in BOOLEAN /\ (snap.inserted > 0 \/ snap.hidden # {} => snap.delta)
    /\ \A i \in (snap.inserted + 1)..Len(snap.rows) :
          Symbols(snap.rows[i].res) \cup Symbols(snap.rows[i].sub) \subseteq snap.symbols

Defined(snap, k) ==
    k.obj.ns \in DOMAIN snap.schema /\ k.rel \in DOMAIN snap.schema[k.obj.ns]

Rewrite(snap, k) == snap.schema[k.obj.ns][k.rel]

Keys(snap) == {k \in Key : Defined(snap, k)}

At(k, r) == [obj |-> k.obj, rel |-> r]

RowsOf(snap, k) == {i \in 1..Len(snap.rows) \ snap.hidden : snap.rows[i].res = k}

(* The rows of k that lead to another relation of another object.          *)
UsersetRows(snap, k) == {i \in RowsOf(snap, k) : snap.rows[i].sub.rel # NoRelation}

(* SubjectFilter without a relation matches any relation of the object.    *)
SubjectMatches(u, sub) ==
    sub.obj = u.obj /\ (u.rel = NoRelation \/ sub.rel = u.rel)

-----------------------------------------------------------------------------
(* Goals.                                                                  *)

Whole == [op |-> "relation"]

Goal(k, e) == [key |-> k, expr |-> e]
InRelation(k) == Goal(k, Whole)

Goals(snap) == UNION {{Goal(k, e) : e \in Parts[Rewrite(snap, k)] \cup {Whole}} : k \in Keys(snap)}

(* Does the goal follow in one step, when the goals in `pos` hold where it *)
(* asks for members and those in `neg` where it excludes, and the keys in  *)
(* `off` have no members?                                                  *)
Follows(snap, u, off, g, pos, neg) ==
    LET k == g.key
        e == g.expr
    IN  \/ e.op = "relation" /\ k \notin off /\ Goal(k, Rewrite(snap, k)) \in pos
        \/ /\ e.op = "this"
           /\ \/ \E i \in RowsOf(snap, k) : SubjectMatches(u, snap.rows[i].sub)
              \/ \E i \in UsersetRows(snap, k) : InRelation(snap.rows[i].sub) \in pos
        \/ e.op = "computed" /\ InRelation(At(k, e.rel)) \in pos
        \/ /\ e.op = "tupleToUserset"
           /\ \E i \in UsersetRows(snap, At(k, e.tupleset)) :
                 InRelation(At(snap.rows[i].sub, e.rel)) \in pos
        \/ e.op = "union" /\ \E i \in 1..Len(e.args) : Goal(k, e.args[i]) \in pos
        \/ e.op = "intersection" /\ \A i \in 1..Len(e.args) : Goal(k, e.args[i]) \in pos
        \/ e.op = "exclusion" /\ Goal(k, e.base) \in pos /\ Goal(k, e.exclude) \notin neg

-----------------------------------------------------------------------------
(* The least fixed point of a monotone function F on the subsets of a      *)
(* finite set G: what the empty set grows to.                              *)
Lfp(G, F) ==
    LET grown[n \in Nat] ==
            [X \in SUBSET G |->
                LET more == F[X] IN IF n = 0 \/ more = X THEN X ELSE grown[n - 1][more]]
    IN  grown[Cardinality(G) + 1][{}]

(* The goals that follow in some number of steps, exclusions read in `neg`.*)
Derived(snap, u, off, neg) ==
    LET G == Goals(snap)
    IN  Lfp(G, [X \in SUBSET G |-> {g \in G : Follows(snap, u, off, g, X, neg)}])

(* The goals that surely hold: the least set that is derived with          *)
(* exclusions read in all that this set leaves possible.                   *)
Sure(snap, u, off) ==
    Lfp(Goals(snap), [X \in SUBSET Goals(snap) |-> Derived(snap, u, off, Derived(snap, u, off, X))])

Possible(snap, u, off) == Derived(snap, u, off, Sure(snap, u, off))

(* What u is a member of, and whether nothing else is possible.            *)
Meaning(snap, u) ==
    LET S == Sure(snap, u, {})
    IN  [members |-> {k \in Keys(snap) : InRelation(k) \in S},
         decided |-> Derived(snap, u, {}, S) = S]

=============================================================================
