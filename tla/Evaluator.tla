------------------------------ MODULE Evaluator ------------------------------
(***************************************************************************)
(* The check evaluator (src/src/eval.rs) as one recursive operator, for    *)
(* the lookups: a depth-first walk of the operands that a check reaches on *)
(* one immutable snapshot, with a recursion depth, a fanout limit, a stack *)
(* of active checks that cuts cycles, and, for requests that make many     *)
(* checks, a memo of completed nested checks that lives as long as the     *)
(* request.  Eval takes the same walk step by step.                        *)
(*                                                                         *)
(* The walk goes over a context                                            *)
(*   [depth   remaining_depth         stack  check_stack                   *)
(*    memoOn  check_memo is present   memo   its entries                   *)
(*    low     the frame's minimum_remaining_depth                          *)
(*    cut     history: a cycle was cut]                                    *)
(***************************************************************************)
EXTENDS CheckRules, SequencesExt

(* Verdicts: "allowed", "denied", or the error the request returns.        *)
Answer(ctx, v) == [v |-> v, memo |-> ctx.memo, low |-> ctx.low, cut |-> ctx.cut]

(* The context after a nested evaluation returned r.                       *)
Resume(ctx, r) == [ctx EXCEPT !.memo = r.memo, !.low = r.low, !.cut = r.cut]

RECURSIVE EvaluateCheckKey(_, _, _, _)
RECURSIVE EvaluateGoal(_, _, _, _)
RECURSIVE Through(_, _, _, _, _, _)

(* Evaluates the operands that are left while they answer `go`; the first  *)
(* other answer, an error included, ends the walk.                         *)
Through(s, u, operands, left, go, ctx) ==
    IF left = {} THEN Answer(ctx, go)
    ELSE LET o == operands[First(left)]
             r == IF o.over THEN Answer(ctx, "fanoutExceeded") ELSE EvaluateGoal(s, u, o.goal, ctx)
             v == IF o.negated THEN Negate(r.v) ELSE r.v
         IN  IF v = go THEN Through(s, u, operands, left \ {First(left)}, go, Resume(ctx, r))
             ELSE [r EXCEPT !.v = v]

(* eval_compiled_schema_expression and the eval_ functions it calls.       *)
EvaluateGoal(s, u, g, ctx) ==
    IF g.expr = Whole THEN EvaluateCheckKey(s, u, g.key, ctx)
    ELSE IF NamesSubject(s, u, g) THEN Answer(ctx, "allowed")
    ELSE LET operands == Operands(s, g)
         IN  Through(s, u, operands, DOMAIN operands, GoOn(g), ctx)

EvalExpression(s, u, k, e, ctx) == EvaluateGoal(s, u, Goal(k, e), ctx)

(* check_relation_name_entered: a relation the schema does not define is   *)
(* an error, not a denial.                                                 *)
CheckEntered(s, u, k, ctx) ==
    IF Defined(s, k) THEN EvalExpression(s, u, k, Rewrite(s, k), ctx)
    ELSE Answer(ctx, "relationNotFound")

(* evaluate_check_key.  The memo serves and keeps nested checks only.      *)
EvaluateCheckKey(s, u, k, ctx) ==
    LET eligible == ctx.memoOn /\ ctx.stack # <<>>
        key == CheckKeyOf(s, u, k, Len(ctx.stack) + 1)
        inner == CheckEntered(s, u, k, [ctx EXCEPT !.depth = @ - 1, !.low = ctx.depth - 1,
                                                   !.stack = Append(@, key)])
    IN  IF Contains(ctx.stack, key) THEN [Answer(ctx, "denied") EXCEPT !.cut = TRUE]
        ELSE IF eligible /\ MemoHit(ctx.memo, k, ctx.depth) THEN Answer(ctx, ctx.memo[k].v)
        ELSE IF ctx.depth = 0 THEN Answer(ctx, "depthExceeded")
        ELSE [v |-> inner.v,
              memo |-> IF eligible /\ inner.v \in Answers
                       THEN MemoInsert(inner.memo, k, inner.v, ctx.depth - inner.low)
                       ELSE inner.memo,
              low |-> Lower(ctx.low, inner.low),
              cut |-> inner.cut]

(* A root check of a fresh or reset context (reset_for_reuse keeps the     *)
(* memo and nothing else).                                                 *)
Root(s, u, k, depth, on, m) ==
    EvaluateCheckKey(s, u, k, [depth |-> depth, low |-> depth, stack |-> <<>>,
                               memoOn |-> on, memo |-> m, cut |-> FALSE])

=============================================================================
