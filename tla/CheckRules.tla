----------------------------- MODULE CheckRules -----------------------------
(***************************************************************************)
(* What the two models of the check evaluator share (src/src/eval.rs): the *)
(* operands of each rewrite in the order they are evaluated, the answer    *)
(* that lets the evaluation go on to the next one, the fanout limit, and   *)
(* the request's memo.  Eval takes the evaluation step by step; Evaluator  *)
(* computes it at once, for the lookups that make many checks in a step.   *)
(***************************************************************************)
EXTENDS Semantics

CONSTANTS MaxFanout,     \* max_fanout_per_step
          MemoCapacity,  \* memo_capacity
          NoRequest

ASSUME LimitsAssumption == MaxFanout \in Nat /\ MemoCapacity \in Nat

-----------------------------------------------------------------------------
(* The memo: key -> [v, need].                                             *)

NoMemo == [k \in {} |-> NoRequest]

Lower(a, b) == IF a < b THEN a ELSE b

(* Mutant: the memo forgets which object the relation was checked on.      *)
MemoInsertByRelation(m, k, v, need) ==
    [j \in DOMAIN m \cup {i \in Key : i.rel = k.rel /\ i.obj.ns = k.obj.ns} |->
        IF j.rel = k.rel /\ j.obj.ns = k.obj.ns THEN [v |-> v, need |-> need] ELSE m[j]]

(* Mutant: the memo has no capacity.                                       *)
MemoInsertUncapped(m, k, v, need) ==
    [j \in DOMAIN m \cup {k} |-> IF j = k THEN [v |-> v, need |-> need] ELSE m[j]]

(* RequestCheckMemo::insert: an entry gives way to one that needs no more  *)
(* depth, a full memo takes no new key.                                    *)
MemoInsert(m, k, v, need) ==
    IF k \in DOMAIN m
    THEN IF need <= m[k].need THEN [m EXCEPT ![k] = [v |-> v, need |-> need]] ELSE m
    ELSE IF Cardinality(DOMAIN m) >= MemoCapacity THEN m
    ELSE [j \in DOMAIN m \cup {k} |-> IF j = k THEN [v |-> v, need |-> need] ELSE m[j]]

(* RequestCheckMemo::get: an entry serves where its depth is left.         *)
MemoHit(m, k, depth) == k \in DOMAIN m /\ m[k].need <= depth

-----------------------------------------------------------------------------
(* What the stack of active checks compares.  Interned keys need a view    *)
(* without a delta whose checkpoint knows every identifier of the check;   *)
(* else the key of a root check is made of the request's own names and     *)
(* that of a nested one of the schema's, and the two are never equal.      *)

(* store_check_key.                                                        *)
StoreKeyed(snap, u, k) == ~snap.delta /\ Symbols(k) \cup Symbols(u) \subseteq snap.symbols

(* The key of the call at a place of the walk: CheckKey::new makes the     *)
(* root's, the first, and CheckKey::from_relation_name all others.         *)
CheckKeyOf(snap, u, k, place) ==
    [key |-> k, form |-> IF StoreKeyed(snap, u, k) THEN "Store"
                         ELSE IF place = 1 THEN "Public" ELSE "PublicName"]

-----------------------------------------------------------------------------
(* Operands, by position: a goal, whether its answer is negated, and       *)
(* whether it is one too many (increment_fanout).                          *)

Operand(g) == [goal |-> g, negated |-> FALSE, over |-> FALSE]
Excluded(g) == [goal |-> g, negated |-> TRUE, over |-> FALSE]

(* Mutant: rows past the fanout limit are not read.                        *)
ChecksCapped(keys) ==
    [i \in {j \in DOMAIN keys : Cardinality({h \in DOMAIN keys : h <= j}) <= MaxFanout} |->
        Operand(InRelation(keys[i]))]

(* The checks of the keys that rows lead to, by the position of the row.   *)
Checks(keys) ==
    [i \in DOMAIN keys |->
        [goal |-> InRelation(keys[i]), negated |-> FALSE,
         over |-> Cardinality({j \in DOMAIN keys : j <= i}) > MaxFanout]]

(* An exclude branch that needs no rewrite is evaluated first; a relation  *)
(* whose rewrite is `this` has one.                                        *)
ShouldEvalExcludeFirst(snap, k, e) ==
    \/ e.op = "this"
    \/ e.op = "computed" /\ [ns |-> k.obj.ns, rel |-> e.rel] \in snap.bare

Operands(snap, g) ==
    LET k == g.key
        e == g.expr
    IN  CASE e.op = "relation"       -> <<Operand(Goal(k, Rewrite(snap, k)))>>
          [] e.op = "this"           -> Checks([i \in UsersetRows(snap, k) |-> snap.rows[i].sub])
          [] e.op = "computed"       -> <<Operand(InRelation(At(k, e.rel)))>>
          [] e.op = "tupleToUserset" ->
                Checks([i \in UsersetRows(snap, At(k, e.tupleset)) |-> At(snap.rows[i].sub, e.rel)])
          [] e.op \in {"union", "intersection"} ->
                [i \in 1..Len(e.args) |-> Operand(Goal(k, e.args[i]))]
          [] e.op = "exclusion" ->
                LET base == Operand(Goal(k, e.base))
                    exclude == Excluded(Goal(k, e.exclude))
                IN  IF ShouldEvalExcludeFirst(snap, k, e.exclude)
                    THEN <<exclude, base>> ELSE <<base, exclude>>

(* The answer of an operand after which the next one is evaluated; it is   *)
(* the answer of the goal when no operand is left.                         *)
GoOn(g) == IF g.expr.op \in {"intersection", "exclusion"} THEN "allowed" ELSE "denied"

Answers == {"allowed", "denied"}
Errors == {"depthExceeded", "fanoutExceeded", "relationNotFound"}

(* Membership::exclusion: an error stays one.                              *)
Negate(v) == IF v = "allowed" THEN "denied" ELSE IF v = "denied" THEN "allowed" ELSE v

(* eval_this asks for a row that names the subject before it follows any.  *)
NamesSubject(snap, u, g) ==
    g.expr.op = "this" /\ \E i \in RowsOf(snap, g.key) : SubjectMatches(u, snap.rows[i].sub)

First(I) == CHOOSE i \in I : \A j \in I : i <= j

=============================================================================
