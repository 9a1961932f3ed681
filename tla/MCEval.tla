------------------------------- MODULE MCEval -------------------------------
(***************************************************************************)
(* Small snapshots.  Groups: four groups that may contain each other, in   *)
(* cycles too.  Folders: a document in a folder hierarchy, with usersets,  *)
(* inheritance, a union, an intersection and both orders of exclusion.     *)
(* Bans: a cycle through an exclusion.  The rows are every subset of a set *)
(* of rows: loaded as a checkpoint, or in reverse order as what is left of *)
(* one after the others were deleted.                                      *)
(***************************************************************************)
EXTENDS Eval, SequencesExt

Obj(n, i) == [ns |-> n, id |-> i]
alice == [obj |-> Obj("user", "alice"), rel |-> NoRelation]
Set(o, r) == [obj |-> o, rel |-> r]
Tuple(o, r, s) == [res |-> Set(o, r), sub |-> s]

This == [op |-> "this"]
Computed(r) == [op |-> "computed", rel |-> r]
Inherit(t, r) == [op |-> "tupleToUserset", tupleset |-> t, rel |-> r]
Union(a, b) == [op |-> "union", args |-> <<a, b>>]
Both(a, b) == [op |-> "intersection", args |-> <<a, b>>]
Minus(a, b) == [op |-> "exclusion", base |-> a, exclude |-> b]

RECURSIVE PartsOf(_)
PartsOf(e) ==
    {e} \cup CASE e.op \in {"union", "intersection"} -> UNION {PartsOf(e.args[i]) : i \in 1..Len(e.args)}
              [] e.op = "exclusion" -> PartsOf(e.base) \cup PartsOf(e.exclude)
              [] OTHER -> {}
Rewrites(schema) == UNION {{schema[ns][r] : r \in DOMAIN schema[ns]} : ns \in DOMAIN schema}

g1 == Obj("group", "1")
g2 == Obj("group", "2")
g3 == Obj("group", "3")
g4 == Obj("group", "4")
d1 == Obj("doc", "1")
f1 == Obj("folder", "1")
f2 == Obj("folder", "2")

GroupSchema == [group |-> [member |-> This]]

GroupRows == <<
    Tuple(g1, "member", Set(g2, "member")),
    Tuple(g1, "member", Set(g3, "member")),
    Tuple(g2, "member", Set(g1, "member")),
    Tuple(g3, "member", alice),
    Tuple(g4, "member", Set(g2, "member")),
    Tuple(g1, "member", Set(g4, "member"))>>

FolderSchema == [
    doc |-> [parent |-> This, banned |-> This,
             viewer |-> Union(This, Inherit("parent", "viewer")),
             can |-> Minus(Computed("viewer"), Computed("banned")),
             only |-> Minus(Computed("viewer"), Computed("can")),
             both |-> Both(Computed("can"), This)],
    folder |-> [parent |-> This, viewer |-> Union(This, Inherit("parent", "viewer"))],
    group |-> [member |-> This]]

FolderRows == <<
    Tuple(d1, "parent", Set(f1, "viewer")),
    Tuple(d1, "viewer", Set(f2, "viewer")),
    Tuple(f1, "parent", Set(f2, "viewer")),
    Tuple(f2, "parent", Set(f1, "viewer")),
    Tuple(f1, "viewer", alice),
    Tuple(d1, "banned", alice),
    Tuple(d1, "both", alice),
    Tuple(d1, "parent", Set(g1, "member"))>>

(* Members and the banned depend on each other through an exclusion: what  *)
(* such snapshots mean may be left undecided.                              *)
BanSchema == [group |-> [member |-> Minus(This, Computed("banned")),
                         banned |-> Union(This, Computed("member"))]]

BanRows == <<
    Tuple(g1, "member", Set(g2, "member")),
    Tuple(g1, "member", alice),
    Tuple(g1, "banned", Set(g2, "member")),
    Tuple(g2, "banned", Set(g1, "member")),
    Tuple(g2, "member", alice)>>

(* A relation that reaches itself, and then one that is not defined: the   *)
(* deepest check that one key allows.                                      *)
LoopSchema == [doc |-> [loop |-> Union(This, Inherit("loop", "missing"))]]

LoopRows == <<Tuple(d1, "loop", Set(d1, "loop")), Tuple(d1, "loop", alice)>>

Pick(all, I) == SelectSeq([i \in 1..Len(all) |-> [row |-> all[i], in |-> i \in I]],
                          LAMBDA p : p.in)
RowsIn(all, I) == LET p == Pick(all, I) IN [i \in 1..Len(p) |-> p[i].row]

(* The relations declared without a rewrite, and the identifiers of rows.  *)
Plain(schema) ==
    UNION {{[ns |-> ns, rel |-> r] : r \in {x \in DOMAIN schema[ns] : schema[ns][x] = This}}
              : ns \in DOMAIN schema}
Interned(rows) == UNION {Symbols(rows[i].res) \cup Symbols(rows[i].sub) : i \in 1..Len(rows)}

(* A store loaded from these rows: a checkpoint that interned nothing else.*)
Loaded(schema, rows) ==
    [schema |-> schema, bare |-> Plain(schema), rows |-> rows, inserted |-> 0, hidden |-> {},
     delta |-> FALSE, symbols |-> Interned(rows)]

(* The same rows left after the others were deleted from a checkpoint.     *)
Deleted(schema, all, I) ==
    [schema |-> schema, bare |-> {}, rows |-> all, inserted |-> 0, hidden |-> (1..Len(all)) \ I,
     delta |-> TRUE, symbols |-> Interned(all)]

Mirror(all, I) == {Len(all) + 1 - i : i \in I}

Over(schema, all) ==
    UNION {{Loaded(schema, RowsIn(all, I)), Deleted(schema, Reverse(all), Mirror(all, I))}
              : I \in SUBSET (1..Len(all))}

AllSnapshots == Over(GroupSchema, GroupRows) \cup Over(FolderSchema, FolderRows)
                    \cup Over(BanSchema, BanRows) \cup Over(LoopSchema, LoopRows)

MCParts ==
    [e \in UNION {Rewrites(s) : s \in {GroupSchema, FolderSchema, BanSchema, LoopSchema}} |-> PartsOf(e)]
MCObjects == {g1, g2, g3, g4, d1, f1, f2, alice.obj}
MCRelations == {"member", "parent", "banned", "viewer", "can", "only", "both", "loop", "missing"}
MCSubjects == {alice, Set(g1, "member")}

Member(g) == Set(g, "member")

(* lookup_permissions on d1 checks its relations in sorted order.          *)
Permissions == <<Set(d1, "banned"), Set(d1, "both"), Set(d1, "can"), Set(d1, "only"),
                 Set(d1, "parent"), Set(d1, "viewer")>>

(* lookup_resources checks the candidates its search meets.                *)
Candidates == {<<Member(g1), Member(g2), Member(g4)>>, <<Member(g4), Member(g1), Member(g3)>>}

AllRoots == {Permissions, <<Set(d1, "only")>>, <<Set(d1, "can")>>, <<Set(f1, "viewer")>>,
             <<Set(d1, "loop")>>}
                \cup Candidates
GroupSnapshots == {Loaded(GroupSchema, RowsIn(GroupRows, 1..5))}
Alice == {alice}

-----------------------------------------------------------------------------
(* The walk at once, as the lookups use it.                                *)
Walked == INSTANCE Evaluator

(* The request's root checks so far, each made at once.                    *)
Replayed ==
    LET check(r, x) ==
            LET done == Walked!Root(snap, subject, x.key, limit, memoOn, r.memo)
            IN  [memo |-> done.memo, cut |-> r.cut \/ done.cut,
                 verdicts |-> Append(r.verdicts, [key |-> x.key, v |-> done.v])]
    IN  FoldLeft(check, [memo |-> NoMemo, cut |-> FALSE, verdicts |-> <<>>], verdicts)

(* Step by step or at once, the walk gives the same verdicts, and leaves   *)
(* the same memo: what is proved of the steps holds of the checks that the *)
(* lookups make (eval.rs evaluate_check_key).                              *)
StepsAgree ==
    BetweenRoots => Replayed = [memo |-> memo, cut |-> cut, verdicts |-> verdicts]

(* "Caching both `Allowed` and `Denied` completed memberships is safe      *)
(* within one immutable snapshot when the depth requirement is satisfied"  *)
(* and "A memo hit must not bypass that error" (specs/26, DepthExceeded):  *)
(* a lookup's check answers what the same check answers alone, and runs    *)
(* out of depth where that one does.  A nested denial that rests on a cut  *)
(* cycle is cached like any other.                                         *)
MemoTransparent ==
    memoOn => \A i \in 1..Len(verdicts) :
        LET alone == Walked!Root(snap, subject, verdicts[i].key, limit, FALSE, NoMemo).v
        IN  /\ {alone, verdicts[i].v} # {"allowed", "denied"}
            /\ alone = "depthExceeded" => verdicts[i].v = "depthExceeded"

=============================================================================
