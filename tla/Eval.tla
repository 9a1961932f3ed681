-------------------------------- MODULE Eval --------------------------------
(***************************************************************************)
(* Requests that check (src/src/api.rs check and lookup_permissions): a    *)
(* request resolves its snapshot once and makes root checks on it: one for *)
(* check, one per relation for lookup_permissions, which keep a memo       *)
(* between them.                                                           *)
(*                                                                         *)
(* A check is the recursive walk of src/src/eval.rs, here one step at a    *)
(* time.  `frames` is the stack of calls: each evaluates a goal, operand   *)
(* by operand, and the calls of evaluate_check_key among them are the      *)
(* context's check_stack.  `answer` is what the call that just returned    *)
(* answered.                                                               *)
(***************************************************************************)
EXTENDS CheckRules

CONSTANTS Snapshots,     \* snapshots a request may run on
          Subjects,      \* users and usersets it may ask about
          Roots,         \* sequences of root keys it may check
          Depths         \* max_depth

VARIABLES snap,       \* the snapshot the request resolved
          subject,    \* whom it asks about
          limit,      \* its max_depth
          memoOn,     \* it keeps a memo
          todo,       \* root checks it has yet to finish
          memo,       \* completed nested checks: key -> [v, need]
          verdicts,   \* its root checks so far: [key, v]
          cut,        \* history: an active cycle was cut
          frames,     \* calls: [goal, left, depth, low]
          answer      \* of the last call, or NoAnswer

vars == <<snap, subject, limit, memoOn, todo, memo, verdicts, cut, frames, answer>>

request == <<snap, subject, limit, memoOn>>

NoAnswer == "none"

ASSUME RequestAssumption ==
    /\ NoRequest \notin Snapshots /\ \A s \in Snapshots : IsSnapshot(s)
    /\ Subjects \subseteq Subject
    /\ \A roots \in Roots : roots \in Seq(Key) /\ roots # <<>>
    /\ Depths \subseteq Nat \ {0}

-----------------------------------------------------------------------------
Init ==
    /\ snap = NoRequest /\ subject = NoRequest /\ limit = 0 /\ memoOn = FALSE
    /\ todo = <<>> /\ memo = NoMemo /\ verdicts = <<>> /\ cut = FALSE
    /\ frames = <<>> /\ answer = NoAnswer

(* A request resolves its snapshot once and starts with an empty memo.     *)
Begin(on, roots) ==
    /\ snap = NoRequest
    /\ snap' \in Snapshots /\ subject' \in Subjects /\ limit' \in Depths
    /\ memoOn' = on /\ todo' = roots
    /\ UNCHANGED <<memo, verdicts, cut, frames, answer>>

BeginCheck == \E roots \in Roots : Begin(FALSE, <<Head(roots)>>)

BeginLookup == \E roots \in Roots : Begin(TRUE, roots)

-----------------------------------------------------------------------------
(* The walk.                                                               *)

Top == frames[Len(frames)]

(* What is evaluated next: the root, or the next operand of the last call. *)
OperandOf(f) == Operands(snap, f.goal)[First(f.left)]

Pending == IF frames = <<>> THEN Operand(InRelation(Head(todo))) ELSE OperandOf(Top)

Evaluating == answer = NoAnswer /\ IF frames = <<>> THEN todo # <<>> ELSE Top.left # {}

(* remaining_depth.                                                        *)
Depth == IF frames = <<>> THEN limit ELSE Top.depth

(* Mutant: no stack of active checks.                                      *)
ActiveNone(fs) == {}

(* check_stack.                                                            *)
Active(fs) ==
    {CheckKeyOf(snap, subject, fs[i].goal.key, i) :
        i \in {j \in 1..Len(fs) : fs[j].goal.expr = Whole}}

(* The memo serves and keeps nested checks only.                           *)
Eligible(fs) == memoOn /\ fs # <<>>

(* The operand is answered without a call.                                 *)
Answered(v) ==
    /\ answer' = v
    /\ UNCHANGED <<request, todo, memo, verdicts, frames>>

(* increment_fanout: a row past the limit.                                 *)
FanoutExceeded ==
    /\ Evaluating /\ Pending.over
    /\ Answered("fanoutExceeded") /\ UNCHANGED cut

(* eval_this: a row names the subject.                                     *)
Direct ==
    /\ Evaluating /\ ~Pending.over /\ NamesSubject(snap, subject, Pending.goal)
    /\ Answered("allowed") /\ UNCHANGED cut

(* A call of another expression.                                           *)
Descend ==
    /\ Evaluating /\ ~Pending.over
    /\ LET g == Pending.goal
       IN  /\ g.expr # Whole /\ ~NamesSubject(snap, subject, g)
           /\ frames' = Append(frames, [goal |-> g, left |-> DOMAIN Operands(snap, g),
                                        depth |-> Top.depth, low |-> Top.low])
    /\ UNCHANGED <<request, todo, memo, verdicts, cut, answer>>

(* evaluate_check_key, which answers by itself ...                         *)
PendingKey == Pending.goal.key
CheckKey == Evaluating /\ ~Pending.over /\ Pending.goal.expr = Whole

(* is_check_active.                                                        *)
IsActive == CheckKeyOf(snap, subject, PendingKey, Len(frames) + 1) \in Active(frames)

CutCycle ==
    /\ CheckKey /\ IsActive
    /\ Answered("denied") /\ cut' = TRUE

Remembered == Eligible(frames) /\ MemoHit(memo, PendingKey, Depth)

Recall ==
    /\ CheckKey /\ ~IsActive /\ Remembered
    /\ Answered(memo[PendingKey].v) /\ UNCHANGED cut

Entering == CheckKey /\ ~IsActive /\ ~Remembered

DepthExceeded ==
    /\ Entering /\ Depth = 0
    /\ Answered("depthExceeded") /\ UNCHANGED cut

RelationNotFound ==
    /\ Entering /\ Depth > 0 /\ ~Defined(snap, PendingKey)
    /\ Answered("relationNotFound") /\ UNCHANGED cut

(* ... or enters the key and evaluates its rewrite.                        *)
Enter ==
    /\ Entering /\ Depth > 0 /\ Defined(snap, PendingKey)
    /\ frames' = Append(frames, [goal |-> Pending.goal, left |-> DOMAIN Operands(snap, Pending.goal),
                                 depth |-> Depth - 1, low |-> Depth - 1])
    /\ UNCHANGED <<request, todo, memo, verdicts, cut, answer>>

Below(fs) == SubSeq(fs, 1, Len(fs) - 1)

(* Mutant: the depth that a call needed is not told to the one below it.   *)
LeaveForgetsDepth(v) ==
    /\ answer' = v /\ frames' = Below(frames)
    /\ memo' = IF Top.goal.expr = Whole /\ Eligible(Below(frames)) /\ v \in Answers
               THEN MemoInsert(memo, Top.goal.key, v, Top.depth + 1 - Top.low)
               ELSE memo
    /\ UNCHANGED <<request, todo, verdicts, cut>>

(* The last call answers v to the one below it: leave, and memo_insert     *)
(* where it was a nested check that did not fail.                          *)
Leave(v) ==
    LET below == Below(frames)
        n == Len(below)
    IN  /\ answer' = v
        /\ frames' = IF n = 0 THEN below ELSE [below EXCEPT ![n].low = Lower(@, Top.low)]
        /\ memo' = IF Top.goal.expr = Whole /\ Eligible(below) /\ v \in Answers
                   THEN MemoInsert(memo, Top.goal.key, v, Top.depth + 1 - Top.low)
                   ELSE memo
        /\ UNCHANGED <<request, todo, verdicts, cut>>

(* What the answer says of the operand.                                    *)
Said == IF OperandOf(Top).negated THEN Negate(answer) ELSE answer

Returned == answer # NoAnswer /\ frames # <<>>

(* An operand answered: go on to the next one, or answer the call.         *)
NextOperand ==
    /\ Returned /\ Said = GoOn(Top.goal)
    /\ frames' = [frames EXCEPT ![Len(frames)].left = @ \ {First(@)}]
    /\ answer' = NoAnswer
    /\ UNCHANGED <<request, todo, memo, verdicts, cut>>

ShortCircuit == Returned /\ Said # GoOn(Top.goal) /\ Leave(Said)

Exhausted ==
    /\ answer = NoAnswer /\ frames # <<>> /\ Top.left = {}
    /\ Leave(GoOn(Top.goal))

-----------------------------------------------------------------------------
(* A root check ends; an error ends the request.                           *)
RootDone ==
    /\ answer # NoAnswer /\ frames = <<>>
    /\ verdicts' = Append(verdicts, [key |-> Head(todo), v |-> answer])
    /\ todo' = IF answer \in Answers THEN Tail(todo) ELSE <<>>
    /\ answer' = NoAnswer
    /\ UNCHANGED <<request, memo, cut, frames>>

(* The request returns and its context, memo included, is dropped.         *)
Finish ==
    /\ snap # NoRequest /\ todo = <<>>
    /\ snap' = NoRequest /\ subject' = NoRequest /\ limit' = 0 /\ memoOn' = FALSE
    /\ memo' = NoMemo /\ verdicts' = <<>> /\ cut' = FALSE
    /\ UNCHANGED <<todo, frames, answer>>

Walk ==
    \/ FanoutExceeded \/ Direct \/ Descend
    \/ CutCycle \/ Recall \/ DepthExceeded \/ RelationNotFound \/ Enter
    \/ NextOperand \/ ShortCircuit \/ Exhausted

Next == BeginCheck \/ BeginLookup \/ Walk \/ RootDone \/ Finish

Spec == Init /\ [][Next]_vars

-----------------------------------------------------------------------------
(* Types.  The memo holds answers of keys, each with a depth that some     *)
(* check had, and no more of them than its capacity; a call's depth is     *)
(* within the limit, and what its check needed of it is recorded.          *)
Frame ==
    [goal : [key : Key, expr : (UNION {Parts[e] : e \in DOMAIN Parts}) \cup {Whole}],
     left : SUBSET Nat, depth : Nat, low : Nat]

TypeOK ==
    /\ snap = NoRequest \/ IsSnapshot(snap)
    /\ subject = NoRequest \/ subject \in Subjects
    /\ limit \in Depths \cup {0}
    /\ memoOn \in BOOLEAN /\ cut \in BOOLEAN
    /\ todo \in Seq(Key)
    /\ DOMAIN memo \subseteq Key /\ Cardinality(DOMAIN memo) <= MemoCapacity
    /\ memo \in [DOMAIN memo -> [v : Answers, need : 1..limit]]
    /\ verdicts \in Seq([key : Key, v : Answers \cup Errors])
    /\ frames \in Seq(Frame)
    /\ \A i \in 1..Len(frames) : frames[i].low <= frames[i].depth /\ frames[i].depth < limit
    /\ answer \in Answers \cup Errors \cup {NoAnswer}

(* A goal that is allowed may hold, and one that is denied is not sure to; *)
(* on a snapshot that leaves nothing undecided both are exact.             *)
Right(g, v, sure, possible) ==
    /\ v = "allowed" => g \in possible
    /\ v = "denied" => g \notin sure

VerdictsRight(sure, possible) ==
    \A i \in 1..Len(verdicts) : Right(InRelation(verdicts[i].key), verdicts[i].v, sure, possible)

MemoRight(sure, possible) ==
    \A k \in DOMAIN memo : Right(InRelation(k), memo[k].v, sure, possible)

BetweenRoots == verdicts # <<>> /\ frames = <<>> /\ answer = NoAnswer

(* A check that answers answers right: the depth-first walk, its cut       *)
(* cycles, its short circuits, its reordered exclusions and its limits     *)
(* give the well-founded meaning or an error, never a wrong verdict        *)
(* (eval.rs evaluate_check_key and the eval_ functions).                   *)
CheckExact ==
    BetweenRoots /\ ~memoOn =>
        LET sure == Sure(snap, subject, {})
        IN  VerdictsRight(sure, Derived(snap, subject, {}, sure))

(* Where no cycle was cut, the memo only ever holds right answers, and a   *)
(* lookup's later checks that read them answer right too (eval.rs          *)
(* RequestCheckMemo, evaluate_check_key).                                  *)
MemoExactWithoutCycles ==
    BetweenRoots /\ memoOn /\ ~cut =>
        LET sure == Sure(snap, subject, {})
            possible == Derived(snap, subject, {}, sure)
        IN  VerdictsRight(sure, possible) /\ MemoRight(sure, possible)

(* The checks that can be active at once: each key of the snapshot, and a  *)
(* root without a store key once more, as the nested checks do not see it. *)
MostActive == Cardinality(Keys(snap)) + IF StoreKeyed(snap, subject, Head(todo)) THEN 0 ELSE 1

(* Cyclic data costs no depth error: with more levels than checks can be   *)
(* active every check ends within its depth, the cycle back to a root that *)
(* is not cut the first time included (eval.rs CheckKey, is_check_active). *)
CyclesNeedNoDepth ==
    todo # <<>> /\ limit > MostActive => answer # "depthExceeded"

=============================================================================
