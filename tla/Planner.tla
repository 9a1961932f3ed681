------------------------------ MODULE Planner ------------------------------
(***************************************************************************)
(* What lookups read off the schema before and while they search           *)
(* (src/src/eval.rs): where the members of a userset may also be members,  *)
(* which relations of a resource make it a candidate, what is left to      *)
(* check of a candidate, and which subjects need a check.                  *)
(* Queries leave out the rows that a tombstone hides; two shortcuts do     *)
(* not, and a limited query counts them.                                   *)
(***************************************************************************)
EXTENDS Evaluator

Types(s) == DOMAIN s.schema
Relations(s, ns) == DOMAIN s.schema[ns]

-----------------------------------------------------------------------------
(* Queries of the view.                                                    *)

Rank(I, i) == Cardinality({j \in I : j <= i})

RowsAt(s, I) == [n \in 1..Cardinality(I) |-> s.rows[CHOOSE i \in I : Rank(I, i) = n]]

LiveRows(s) == RowsAt(s, (1..Len(s.rows)) \ s.hidden)

FirstOf(I, n) == {i \in I : Rank(I, i) <= n}

(* Mutant: the limit is the fanout itself, so no row is ever past it.      *)
QueryRowsFanout(s, k) == RowsAt(s, FirstOf(RowsOf(s, k), MaxFanout))

(* resource_relation(fanout_query_limit): the delta and the checkpoint     *)
(* each yield one row more than the fanout, and the view then hides those  *)
(* of the checkpoint that are tombstoned (StoreViewCompactIter).           *)
QueryRows(s, k) ==
    LET some(I) == FirstOf({i \in I : s.rows[i].res = k}, MaxFanout + 1)
    IN  RowsAt(s, (some(1..s.inserted) \cup some((s.inserted + 1)..Len(s.rows))) \ s.hidden)

-----------------------------------------------------------------------------
(* What the schema says about where a userset leads.                       *)

(* Can the expression, on one object, include the relation src?            *)
RECURSIVE Includes(_, _, _, _, _)
Includes(s, ns, e, src, visiting) ==
    CASE e.op = "computed" ->
            \/ e.rel = src
            \/ /\ e.rel \notin visiting
               /\ Includes(s, ns, s.schema[ns][e.rel], src, visiting \cup {e.rel})
      [] e.op \in {"union", "intersection"} ->
            \E i \in 1..Len(e.args) : Includes(s, ns, e.args[i], src, visiting)
      [] e.op = "exclusion" -> Includes(s, ns, e.base, src, visiting)
      [] OTHER -> FALSE

CanInclude(s, ns, rel, src) == Includes(s, ns, s.schema[ns][rel], src, {rel})

(* compute_same_object_relation_expansions.                                *)
SameObject(s, k) ==
    {r \in Relations(s, k.obj.ns) \ {k.rel} : CanInclude(s, k.obj.ns, r, k.rel)}

(* The tuple-to-userset rewrites that can grant what e grants.             *)
RECURSIVE TupleRewrites(_, _, _, _)
TupleRewrites(s, ns, e, visiting) ==
    CASE e.op = "tupleToUserset" -> {e}
      [] e.op = "computed" ->
            IF e.rel \in visiting THEN {}
            ELSE TupleRewrites(s, ns, s.schema[ns][e.rel], visiting \cup {e.rel})
      [] e.op \in {"union", "intersection"} ->
            UNION {TupleRewrites(s, ns, e.args[i], visiting) : i \in 1..Len(e.args)}
      [] e.op = "exclusion" -> TupleRewrites(s, ns, e.base, visiting)
      [] OTHER -> {}

IncludesByName(s, ns, rel, src) ==
    rel = src \/ (rel \in Relations(s, ns) /\ CanInclude(s, ns, rel, src))

(* compute_tuple_to_userset_relation_expansions: relations `target` of     *)
(* other objects that k's members may be in through a tupleset row.        *)
TupleTargets(s, k) ==
    UNION {UNION {
        {[type |-> ns, tupleset |-> e.tupleset, computed |-> e.rel, target |-> r] :
            e \in {t \in TupleRewrites(s, ns, s.schema[ns][r], {}) :
                      IncludesByName(s, k.obj.ns, t.rel, k.rel)}} :
        r \in Relations(s, ns)} : ns \in Types(s)}

(* has_reverse_subject_candidates does not look at tombstones.             *)
HasReverse(s, u) == \E r \in Range(s.rows) : SubjectMatches(u, r.sub)

-----------------------------------------------------------------------------
(* lookup_producer_plan: which relations of a resource make it a           *)
(* candidate, and what is left to check of a candidate that a direct row   *)
(* of the relation made.                                                   *)

FullRoot == [full |-> TRUE, checks |-> <<>>]
Proven == [full |-> FALSE, checks |-> <<>>]

(* Mutant: the residual checks of a rule are lost.                         *)
WithoutResidual(v, c) == v

WithResidual(v, c) == IF v.full THEN v ELSE [v EXCEPT !.checks = Append(@, c)]

UnionMerge(a, b) == IF Proven \in {a, b} THEN Proven ELSE IF a = b THEN a ELSE FullRoot

(* merge_lookup_verification_rules.                                        *)
Merge(rules) ==
    LET add(out, rule) ==
            LET at == SelectInSeq(out, LAMBDA x : x.rel = rule.rel)
            IN  IF at = 0 THEN Append(out, rule)
                ELSE [out EXCEPT ![at].ver = UnionMerge(@, rule.ver)]
    IN  FoldLeft(add, <<>>, rules)

NoRules == [ok |-> FALSE, rules |-> <<>>]
Rules(list) == [ok |-> TRUE, rules |-> list]

Residual(rel, e, allowed) == [rel |-> rel, expr |-> e, allowed |-> allowed]

(* The first child that needs no root check seeds; the others guard.       *)
Guarded(cur, args, parts) ==
    LET seeds == {i \in 1..Len(args) :
                     parts[i].ok /\ \A j \in 1..Len(parts[i].rules) : ~parts[i].rules[j].ver.full}
        seed == Min(seeds)
        guard(v, i) == IF i = seed THEN v ELSE WithResidual(v, Residual(cur, args[i], TRUE))
        rules == parts[seed].rules
    IN  IF seeds = {} THEN NoRules
        ELSE Rules([j \in 1..Len(rules) |->
                       [rules[j] EXCEPT !.ver = FoldLeftDomain(guard, @, args)]])

RECURSIVE RelationRules(_, _, _, _)
RECURSIVE ExpressionRules(_, _, _, _, _)

RelationRules(s, ns, rel, visiting) ==
    LET r == ExpressionRules(s, ns, rel, s.schema[ns][rel], visiting \cup {rel})
    IN  IF rel \in visiting \/ ~r.ok THEN NoRules ELSE Rules(Merge(r.rules))

ExpressionRules(s, ns, cur, e, visiting) ==
    CASE e.op = "this" -> Rules(<<[rel |-> cur, ver |-> Proven]>>)
      [] e.op = "computed" ->
            IF e.rel \in visiting THEN NoRules ELSE RelationRules(s, ns, e.rel, visiting)
      [] e.op = "tupleToUserset" -> Rules(<<[rel |-> e.tupleset, ver |-> FullRoot]>>)
      [] e.op = "union" ->
            LET add(all, a) ==
                    LET part == ExpressionRules(s, ns, cur, a, visiting)
                    IN  IF all.ok /\ part.ok THEN Rules(all.rules \o part.rules) ELSE NoRules
            IN  FoldLeft(add, Rules(<<>>), e.args)
      [] e.op = "intersection" ->
            LET part(all, a) == Append(all, ExpressionRules(s, ns, cur, a, visiting))
            IN  Guarded(cur, e.args, FoldLeft(part, <<>>, e.args))
      [] e.op = "exclusion" ->
            LET base == ExpressionRules(s, ns, cur, e.base, visiting)
            IN  IF ~base.ok THEN NoRules
                ELSE Rules([i \in 1..Len(base.rules) |->
                               [base.rules[i] EXCEPT
                                   !.ver = WithResidual(@, Residual(cur, e.exclude, FALSE))]])

Plan(s, ns, rel) == RelationRules(s, ns, rel, {}).rules

PlanAllows(plan, rel) == \E i \in 1..Len(plan) : plan[i].rel = rel

(* verification_for_relationship; proof is "direct" when the row itself    *)
(* puts the requested subject in the relation, one level deep.             *)
Verification(plan, rel, proof, depth) ==
    LET at == SelectInSeq(plan, LAMBDA x : x.rel = rel)
    IN  IF proof # "direct" \/ depth <= 1 \/ at = 0 THEN FullRoot ELSE plan[at].ver

(* Mutant: a member of one part of an intersection needs no check.         *)
NeedsVerificationNotBoth(s, ns, e, visiting) == e.op \in {"tupleToUserset", "exclusion"}

(* expression_requires_lookup_subject_verification.                        *)
RECURSIVE NeedsVerification(_, _, _, _)
NeedsVerification(s, ns, e, visiting) ==
    CASE e.op = "this" -> FALSE
      [] e.op = "computed" ->
            /\ s.schema[ns][e.rel].op # "this"
            /\ \/ e.rel \in visiting
               \/ NeedsVerification(s, ns, s.schema[ns][e.rel], visiting \cup {e.rel})
      [] e.op = "union" ->
            \E i \in 1..Len(e.args) : NeedsVerification(s, ns, e.args[i], visiting)
      [] OTHER -> TRUE

=============================================================================
