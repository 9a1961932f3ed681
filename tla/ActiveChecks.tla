---------------------------- MODULE ActiveChecks ----------------------------
(***************************************************************************)
(* How an evaluation context finds out whether a check or an expansion is  *)
(* already active (src/src/eval.rs, EvaluationContext).  The stack of      *)
(* active keys says it, but scanning it is slow, so a context that is      *)
(* reused keeps, from a certain stack height on, a map from keys to visit  *)
(* marks.  A mark counts only if it carries the context's generation; a    *)
(* reset starts a new generation instead of clearing the map, until the    *)
(* generation number runs out.                                             *)
(*                                                                         *)
(* The walk is abstracted to its calls: it visits any keys in any order    *)
(* and returns from each.  Checks and expansions have a stack and a map    *)
(* each and share the depth and the generation.                            *)
(***************************************************************************)
EXTENDS Naturals, Sequences, Functions

CONSTANTS Keys,             \* CheckKey, ExpandKey
          Threshold,        \* ACTIVE_INDEX_THRESHOLD (8)
          MaxDepth,         \* limits.max_depth
          MaxGeneration     \* u32::MAX

Kinds == {"check", "expand"}

ASSUME ActiveConstants ==
    /\ Threshold \in Nat \ {0}
    /\ MaxDepth \in Nat \ {0}
    /\ MaxGeneration \in Nat \ {0}

VARIABLES stack,        \* check_stack, expand_stack
          marks,        \* active_checks, active_expands: key -> [gen, active]
          generation,
          useIndexes,   \* use_active_indexes
          remaining     \* remaining_depth

vars == <<stack, marks, generation, useIndexes, remaining>>

NoMarks == [k \in {} |-> [gen |-> 1, active |-> FALSE]]

Init ==
    /\ stack = [d \in Kinds |-> <<>>]
    /\ marks = [d \in Kinds |-> NoMarks]
    /\ generation = 1
    /\ useIndexes = FALSE
    /\ remaining = MaxDepth

(* is_check_active, is_expand_active.                                      *)
IsActive(d, k) ==
    IF ~useIndexes \/ Len(stack[d]) < Threshold
    THEN k \in Range(stack[d])
    ELSE k \in DOMAIN marks[d] /\ marks[d][k].gen = generation /\ marks[d][k].active

(* Inserts a current, active mark for every key of S.                      *)
Marked(m, S) ==
    [j \in DOMAIN m \cup S |-> IF j \in S THEN [gen |-> generation, active |-> TRUE] ELSE m[j]]

(* Mutant: the keys below the threshold are not entered in the map.        *)
PushedMarksNoRebuild(d, k) ==
    IF useIndexes /\ Len(stack[d]) + 1 >= Threshold THEN Marked(marks[d], {k}) ELSE marks[d]

(* push_check_key, push_expand_key: the map is filled from the stack when  *)
(* the stack gets to the threshold, also when it gets there again.         *)
PushedMarks(d, k) ==
    IF useIndexes /\ Len(stack[d]) + 1 >= Threshold
    THEN Marked(marks[d], {k} \cup (IF Len(stack[d]) + 1 = Threshold THEN Range(stack[d]) ELSE {}))
    ELSE marks[d]

(* The check or expansion of a key that is not active: depth, then stack.  *)
(* An active key and a spent depth change nothing.                         *)
Visit(d, k) ==
    /\ ~IsActive(d, k)
    /\ remaining > 0
    /\ remaining' = remaining - 1
    /\ marks' = [marks EXCEPT ![d] = PushedMarks(d, k)]
    /\ stack' = [stack EXCEPT ![d] = Append(@, k)]
    /\ UNCHANGED <<generation, useIndexes>>

(* deactivate_check_key, deactivate_expand_key.                            *)
Deactivated(m, k) ==
    IF k \in DOMAIN m /\ m[k].gen = generation THEN [m EXCEPT ![k].active = FALSE] ELSE m

(* It returns, with a result or an error: pop_check_key, leave.            *)
Return(d) ==
    /\ stack[d] # <<>>
    /\ marks' = [marks EXCEPT ![d] = Deactivated(@, stack[d][Len(stack[d])])]
    /\ stack' = [stack EXCEPT ![d] = SubSeq(@, 1, Len(@) - 1)]
    /\ remaining' = remaining + 1
    /\ UNCHANGED <<generation, useIndexes>>

(* Mutant: the generation starts over and the maps keep their marks.       *)
ResetKeepsMarks ==
    /\ remaining' = MaxDepth
    /\ useIndexes' = TRUE
    /\ stack' = [d \in Kinds |-> <<>>]
    /\ generation' = IF generation < MaxGeneration THEN generation + 1 ELSE 1
    /\ UNCHANGED marks

(* reset_for_reuse.  It clears whatever the stacks hold, so it is not      *)
(* assumed here that the previous walk has returned from all its keys.     *)
Reset ==
    /\ remaining' = MaxDepth
    /\ useIndexes' = TRUE
    /\ stack' = [d \in Kinds |-> <<>>]
    /\ IF generation < MaxGeneration
       THEN generation' = generation + 1 /\ UNCHANGED marks
       ELSE generation' = 1 /\ marks' = [d \in Kinds |-> NoMarks]

Next ==
    \/ \E d \in Kinds : Return(d) \/ \E k \in Keys : Visit(d, k)
    \/ Reset

Spec == Init /\ [][Next]_vars

-----------------------------------------------------------------------------
Mark == [gen : 1..MaxGeneration, active : BOOLEAN]

(* Types.                                                                  *)
TypeOK ==
    /\ stack \in [Kinds -> Seq(Keys)]
    /\ DOMAIN marks = Kinds
    /\ \A d \in Kinds : DOMAIN marks[d] \subseteq Keys /\ marks[d] \in [DOMAIN marks[d] -> Mark]
    /\ generation \in 1..MaxGeneration
    /\ useIndexes \in BOOLEAN
    /\ remaining \in 0..MaxDepth

(* The map answers what the stack would: a key is taken for active exactly *)
(* while its check or expansion is on the stack, however the stack crosses *)
(* the threshold, and whatever marks earlier walks have left, the ones     *)
(* from before the generation started over included.  A key wrongly taken  *)
(* for active is denied, one wrongly taken for inactive recurses (eval.rs  *)
(* is_check_active, is_expand_active).                                     *)
ActiveExact == \A d \in Kinds, k \in Keys : IsActive(d, k) <=> k \in Range(stack[d])

(* No key is twice on a stack, so a cyclic walk is no deeper than there    *)
(* are keys, and the depth left is what the stacks do not use (eval.rs     *)
(* enter, leave).                                                          *)
NoKeyTwice ==
    /\ \A d \in Kinds : IsInjective(stack[d])
    /\ remaining + Len(stack["check"]) + Len(stack["expand"]) = MaxDepth

=============================================================================
