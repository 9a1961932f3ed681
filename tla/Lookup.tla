------------------------------- MODULE Lookup -------------------------------
(***************************************************************************)
(* lookup_resources, lookup_subjects and expand (src/src/eval.rs).         *)
(*                                                                         *)
(* lookup_resources searches from the subject along reversed rows, over a  *)
(* frontier of usersets.  Resources of the wanted type that it meets are   *)
(* candidates, each verified once: by a root check, by the residual checks *)
(* the plan leaves to do, or not at all.  lookup_subjects walks down from  *)
(* the resource and verifies the subjects it meets where the rewrites ask  *)
(* for it.  expand builds the tree of the rewrites.                        *)
(***************************************************************************)
EXTENDS Planner

CONSTANTS Snapshots,     \* snapshots a request may run on
          Requests,      \* [op, ...]: see BeginResources, LookupSubjects, Expand
          Users,         \* users an expansion is compared for
          Depths,        \* max_depth
          MaxResults,    \* max_lookup_results
          SampleSize,    \* LOOKUP_PLANNER_SAMPLE_RELATIONSHIPS
          MinPruned      \* rows of a sample that keep the pruning on

VARIABLES snap,      \* the snapshot the request resolved
          limit,     \* its max_depth
          req,       \* the request
          walk       \* its search (Searching), its collector, or its tree

vars == <<snap, limit, req, walk>>

-----------------------------------------------------------------------------
(* lookup_resources.  w.end is "" while the search runs, then "done",      *)
(* "limit" or the error the request returns.                               *)

Start(q, plan) ==
    [plan |-> plan, frontier |-> <<[subject |-> q.subject, proof |-> "root"]>>, visited |-> {q.subject},
     seen |-> {}, found |-> <<>>, memo |-> NoMemo, cut |-> FALSE, end |-> "",
     runtime |-> [enabled |-> plan # <<>>, sampled |-> 0, pruned |-> 0]]

(* record_sample: a first sample that pruned too little turns pruning off. *)
RecordSample(rt, prune) ==
    LET pruned == rt.pruned + IF prune THEN 1 ELSE 0
    IN  IF rt.sampled >= SampleSize THEN rt
        ELSE [enabled |-> rt.sampled + 1 < SampleSize \/ pruned >= MinPruned,
              sampled |-> rt.sampled + 1, pruned |-> pruned]

(* Mutant: a userset is put on the frontier each time it is met.           *)
FollowAgain(w, u, proof) ==
    [w EXCEPT !.visited = @ \cup {u}, !.frontier = Append(@, [subject |-> u, proof |-> proof])]

Follow(w, u, proof) ==
    IF u \in w.visited THEN w
    ELSE [w EXCEPT !.visited = @ \cup {u},
                   !.frontier = Append(@, [subject |-> u, proof |-> proof])]

(* Goes on to u unless the search has ended.                               *)
FollowIf(ok, w, u, proof) == IF w.end = "" /\ ok THEN Follow(w, u, proof) ELSE w

(* verify_lookup_residuals: under the root's key, made like a nested one,  *)
(* and one level down.                                                     *)
Expected(x, c) ==
    IF x.v \notin {"allowed", "denied"} THEN x
    ELSE [x EXCEPT !.v = IF (@ = "allowed") = c.allowed THEN "allowed" ELSE "denied"]

Residuals(k, checks, m) ==
    LET ctx == [depth |-> limit - 1, low |-> limit - 1,
                stack |-> <<CheckKeyOf(snap, req.subject, k, 2)>>, memoOn |-> TRUE, memo |-> m, cut |-> FALSE]
        check(r, c) ==
            IF r.v # "allowed" THEN r
            ELSE Expected(EvalExpression(snap, req.subject, At(k, c.rel), c.expr, Resume(ctx, r)), c)
    IN  FoldLeft(check, Answer(ctx, "allowed"), checks)

(* verify_lookup_resource_candidate.                                       *)
Verify(w, k, ver) ==
    IF ver.full THEN Root(snap, req.subject, k, limit, TRUE, w.memo)
    ELSE Residuals(k, ver.checks, w.memo)

Verified(w, obj, r) ==
    [w EXCEPT !.seen = @ \cup {obj}, !.memo = r.memo, !.cut = @ \/ r.cut,
              !.found = IF r.v = "allowed" THEN Append(@, obj) ELSE @,
              !.end = IF r.v \notin {"allowed", "denied"} THEN r.v
                      ELSE IF r.v = "allowed" /\ Len(w.found) + 1 >= MaxResults THEN "limit"
                      ELSE @]

(* Mutant: a candidate is verified each time it is met.                    *)
CandidateAgain(w, obj, ver) ==
    IF w.end # "" \/ obj.ns # req.type THEN w
    ELSE Verified(w, obj, Verify(w, [obj |-> obj, rel |-> req.rel], ver))

(* A resource of the wanted type is verified the first time it is met.     *)
Candidate(w, obj, ver) ==
    IF w.end # "" \/ obj.ns # req.type \/ obj \in w.seen THEN w
    ELSE Verified(w, obj, Verify(w, [obj |-> obj, rel |-> req.rel], ver))

(* pruned_relation_may_have_downstream: tombstones are not looked at.      *)
Downstream(rel) ==
    \E r \in Range(snap.rows) : r.sub.obj.ns = req.type /\ r.sub.rel = rel

Sampling(w, k) == k.obj.ns = req.type /\ w.runtime.enabled

(* should_prune, before and after it records its sample.                   *)
ShouldPrune(w, k) == Sampling(w, k) /\ ~PlanAllows(w.plan, k.rel)

Sampled(w, k) ==
    IF Sampling(w, k) THEN [w EXCEPT !.runtime = RecordSample(@, ShouldPrune(w, k))] ELSE w

(* lookup_relationship_proof.                                              *)
RowProof(entry, k) ==
    IF entry.proof = "root" /\ Rewrite(snap, k).op = "this" THEN "direct" ELSE "inexact"

(* process_lookup_resources_relationship, for a row of k.                  *)
ProcessRow(entry, w, k) ==
    IF w.end # "" THEN w
    ELSE IF ShouldPrune(w, k)
    THEN FollowIf(Downstream(k.rel) /\ HasReverse(snap, k), Sampled(w, k), k, RowProof(entry, k))
    ELSE FollowIf(TRUE,
                  Candidate(Sampled(w, k), k.obj,
                            Verification(w.plan, k.rel, RowProof(entry, k), limit)),
                  k, RowProof(entry, k))

(* Mutant: the relations that include a userset are not followed.          *)
SameObjectNone(w, u) == w

(* enqueue_same_object_relation_expansions.                                *)
EnqueueSameObject(w, u) ==
    LET push(x, r) == FollowIf(HasReverse(snap, At(u, r)), x, At(u, r), "inexact")
    IN  IF u.rel = NoRelation THEN w ELSE FoldLeft(push, w, SetToSeq(SameObject(snap, u)))

(* tuple_to_userset_broad_targets: where no row names u's object under the *)
(* inherited relation.                                                     *)
BroadTargets(u) == {t \in TupleTargets(snap, u) : ~HasReverse(snap, At(u, t.computed))}

(* The tupleset rows that name u's object under any relation, and for each *)
(* the relations of its resource that inherit through it.                  *)
BroadEdges(u, targets) ==
    LET leads(row) == SetToSeq({t.target : t \in {x \in targets :
                                   x.type = row.res.obj.ns /\ x.tupleset = row.res.rel}})
        edges(row) == [j \in 1..Len(leads(row)) |-> At(row.res, leads(row)[j])]
        rows == SelectSeq(LiveRows(snap), LAMBDA r : r.sub.obj = u.obj)
    IN  FlattenSeq([i \in 1..Len(rows) |-> edges(rows[i])])

(* process_tuple_to_userset_ignored_relation_edges.                        *)
TupleEdges(w, u) ==
    LET edge(x, k) ==
            FollowIf(HasReverse(snap, k), Candidate(x, k.obj, FullRoot), k, "inexact")
    IN  IF u.rel = NoRelation THEN w ELSE FoldLeft(edge, w, BroadEdges(u, BroadTargets(u)))

(* One frontier entry.                                                     *)
Visit(w, entry) ==
    LET row(x, r) == ProcessRow(entry, x, r.res)
        rows == SelectSeq(LiveRows(snap), LAMBDA r : SubjectMatches(entry.subject, r.sub))
    IN  TupleEdges(FoldLeft(row, EnqueueSameObject(w, entry.subject), rows), entry.subject)

-----------------------------------------------------------------------------
(* lookup_subjects: c is the collector and the walk's depth and stack; s   *)
(* and q are the request's snapshot and arguments, check the verdict of a  *)
(* root check of each subject it may ask about.                            *)

Collector(d) == [depth |-> d, stack |-> <<>>, seen |-> {}, sets |-> {}, found |-> <<>>, end |-> ""]

(* expanded_subject: requests and results name users and usersets; another *)
(* object that is a subject itself is an error.                            *)
Expandable(u) == u.obj.ns = "user" \/ u.rel # NoRelation

Named(s) == {u \in {r.sub : r \in Range(LiveRows(s))} : Expandable(u)}

RootChecks(s, d, q) ==
    [u \in Named(s) |-> Root(s, u, q.key, d, FALSE, NoMemo).v]

(* A subject of the wanted type is pushed the first time it is met, after  *)
(* a root check where one is needed.                                       *)
Push(q, check, c, u, verify) ==
    LET v == IF verify THEN check[u] ELSE "allowed"
        found == IF v = "allowed" THEN Append(c.found, u) ELSE c.found
    IN  IF u.obj.ns # q.type \/ u \in c.seen THEN c
        ELSE [c EXCEPT !.seen = @ \cup {u}, !.found = found,
                       !.end = IF v \notin {"allowed", "denied"} THEN v
                               ELSE IF Len(found) >= MaxResults THEN "limit" ELSE @]

RECURSIVE StreamRelation(_, _, _, _, _, _)
RECURSIVE StreamExpression(_, _, _, _, _, _, _)

(* collect_userset_candidate: a userset pushed without a check is walked   *)
(* and not marked, every other one is walked once.                         *)
CollectUserset(s, q, check, c, u, verify) ==
    LET pushed == Push(q, check, c, u, verify)
        unmarked == pushed # c /\ ~verify
        marked == [pushed EXCEPT !.sets = IF unmarked THEN @ ELSE @ \cup {u}]
    IN  IF pushed.end # "" \/ (~unmarked /\ u \in c.sets) THEN pushed
        ELSE StreamRelation(s, q, check, marked, u, verify)

(* Rows or usersets in order, the one past the fanout limit an error.      *)
Limited(items) ==
    [i \in 1..Lower(Len(items), MaxFanout + 1) |->
        [item |-> items[i], ok |-> i <= MaxFanout]]

Guard(c, x, next) ==
    IF c.end # "" THEN c ELSE IF x.ok THEN next ELSE [c EXCEPT !.end = "fanoutExceeded"]

(* stream_lookup_subjects_this.                                            *)
StreamThis(s, q, check, c, k, verify) ==
    LET step(y, x) ==
            Guard(y, x, IF x.item.sub.rel # NoRelation THEN CollectUserset(s, q, check, y, x.item.sub, verify)
                        ELSE IF Expandable(x.item.sub) THEN Push(q, check, y, x.item.sub, verify)
                        ELSE [y EXCEPT !.end = "storageError"])
    IN  FoldLeft(step, c, Limited(QueryRows(s, k)))

TupleUsersets(s, k) == RowsAt(s, UsersetRows(s, k))

StreamTuples(s, q, check, c, k, e) ==
    LET step(y, x) ==
            Guard(y, x, StreamRelation(s, q, check, y, [obj |-> x.item.sub.obj, rel |-> e.rel], TRUE))
    IN  FoldLeft(step, c, Limited(TupleUsersets(s, At(k, e.tupleset))))

StreamExpression(s, q, check, c, k, e, verify) ==
    LET part(y, x) == StreamExpression(s, q, check, y, k, x, verify)
    IN  IF c.end # "" THEN c
        ELSE CASE e.op = "this"           -> StreamThis(s, q, check, c, k, verify)
               [] e.op = "computed"       -> StreamRelation(s, q, check, c, At(k, e.rel), verify)
               [] e.op = "tupleToUserset" -> StreamTuples(s, q, check, c, k, e)
               [] e.op \in {"union", "intersection"} -> FoldLeft(part, c, e.args)
               [] e.op = "exclusion" -> StreamExpression(s, q, check, c, k, e.base, TRUE)

(* stream_lookup_subjects_relation.                                        *)
StreamRelation(s, q, check, c, k, verify) ==
    LET e == Rewrite(s, k)
        inner == StreamExpression(s, q, check, [c EXCEPT !.depth = @ - 1, !.stack = Append(@, k)], k, e,
                                  verify \/ NeedsVerification(s, k.obj.ns, e, {}))
    IN  IF c.end # "" \/ Contains(c.stack, k) THEN c
        ELSE IF c.depth = 0 THEN [c EXCEPT !.end = "depthExceeded"]
        ELSE IF ~Defined(s, k) THEN [c EXCEPT !.end = "relationNotFound"]
        ELSE [inner EXCEPT !.depth = c.depth, !.stack = c.stack]

-----------------------------------------------------------------------------
(* expand: a tree of [op, args] over leaves [op, subject]; an error, the   *)
(* first that the walk meets, takes the place of the tree.                 *)

Failed(v) == [op |-> "error", v |-> v]

Node(op, args) ==
    LET bad == SelectInSeq(args, LAMBDA t : t.op = "error")
    IN  IF bad = 0 THEN [op |-> op, args |-> args] ELSE args[bad]

RECURSIVE ExpandRelation(_, _, _, _)
RECURSIVE ExpandExpression(_, _, _, _, _)

ExpandThis(s, k) ==
    LET rows == Limited(QueryRows(s, k))
        leaf(x) == IF ~x.ok THEN Failed("fanoutExceeded")
                   ELSE IF Expandable(x.item.sub) THEN [op |-> "leaf", subject |-> x.item.sub]
                   ELSE Failed("storageError")
    IN  Node("union", [i \in 1..Len(rows) |-> leaf(rows[i])])

ExpandExpression(s, k, e, depth, stack) ==
    CASE e.op = "this"     -> ExpandThis(s, k)
      [] e.op = "computed" -> ExpandRelation(s, At(k, e.rel), depth, stack)
      [] e.op = "tupleToUserset" ->
            LET rows == Limited(TupleUsersets(s, At(k, e.tupleset)))
            IN  Node("union", [i \in 1..Len(rows) |->
                    IF rows[i].ok
                    THEN ExpandRelation(s, [obj |-> rows[i].item.sub.obj, rel |-> e.rel], depth, stack)
                    ELSE Failed("fanoutExceeded")])
      [] e.op \in {"union", "intersection"} ->
            Node(e.op, [i \in 1..Len(e.args) |-> ExpandExpression(s, k, e.args[i], depth, stack)])
      [] e.op = "exclusion" ->
            Node("exclusion", <<ExpandExpression(s, k, e.base, depth, stack),
                                ExpandExpression(s, k, e.exclude, depth, stack)>>)

(* expand_relation_name: an active relation is an empty union.             *)
ExpandRelation(s, k, depth, stack) ==
    IF Contains(stack, k) THEN Node("union", <<>>)
    ELSE IF depth = 0 THEN Failed("depthExceeded")
    ELSE IF ~Defined(s, k) THEN Failed("relationNotFound")
    ELSE ExpandExpression(s, k, Rewrite(s, k), depth - 1, Append(stack, k))

-----------------------------------------------------------------------------
Idle == snap = NoRequest

Init == snap = NoRequest /\ limit = 0 /\ req = NoRequest /\ walk = NoRequest

(* Each request resolves one snapshot and keeps it.  A permission that the *)
(* schema does not define is refused before the search.                    *)
Resolve(op) ==
    /\ Idle
    /\ limit' \in Depths
    /\ \E q \in Requests, s \in Snapshots : q.op = op /\ req' = q /\ snap' = s

BeginResources ==
    /\ Resolve("resources")
    /\ req'.type \in Types(snap') /\ req'.rel \in Relations(snap', req'.type)
    /\ walk' = Start(req', Plan(snap', req'.type, req'.rel))

SearchStep ==
    /\ ~Idle /\ req.op = "resources" /\ walk.end = "" /\ walk.frontier # <<>>
    /\ walk' = Visit([walk EXCEPT !.frontier = Tail(@)], Head(walk.frontier))
    /\ UNCHANGED <<snap, limit, req>>

SearchDone ==
    /\ ~Idle /\ req.op = "resources" /\ walk.end = "" /\ walk.frontier = <<>>
    /\ walk' = [walk EXCEPT !.end = "done"]
    /\ UNCHANGED <<snap, limit, req>>

LookupSubjects ==
    /\ Resolve("subjects")
    /\ Defined(snap', req'.key) /\ req'.type \in Types(snap') \cup {"user"}
    /\ LET check == RootChecks(snap', limit', req')
           c == StreamRelation(snap', req', check, Collector(limit'), req'.key, FALSE)
       IN  walk' = [c EXCEPT !.end = IF @ = "" THEN "done" ELSE @]

Expand ==
    /\ Resolve("expand")
    /\ LET t == ExpandRelation(snap', req'.key, limit', <<>>)
       IN  walk' = [tree |-> t, end |-> IF t.op = "error" THEN t.v ELSE "done"]

(* The request returns.                                                    *)
Return ==
    /\ ~Idle /\ walk.end # ""
    /\ snap' = NoRequest /\ limit' = 0 /\ req' = NoRequest /\ walk' = NoRequest

Next == Expand \/ LookupSubjects \/ BeginResources \/ SearchStep \/ SearchDone \/ Return

Spec == Init /\ [][Next]_vars

-----------------------------------------------------------------------------
Ends == {"", "done", "limit", "depthExceeded", "fanoutExceeded", "relationNotFound", "storageError"}

(* Types.  A frontier holds usersets that were visited once, and no lookup *)
(* returns a result twice or more results than its limit.                  *)
TypeOK ==
    \/ Idle /\ limit = 0 /\ req = NoRequest /\ walk = NoRequest
    \/ /\ ~Idle /\ req \in Requests /\ limit \in Depths /\ walk.end \in Ends
       /\ req.op = "resources" =>
            /\ walk.visited \subseteq Subject
            /\ \A i \in 1..Len(walk.frontier) : walk.frontier[i].subject \in walk.visited
            /\ Cardinality(DOMAIN walk.memo) <= MemoCapacity
       /\ req.op \in {"resources", "subjects"} =>
            /\ Range(walk.found) \subseteq walk.seen
            /\ Len(walk.found) = Cardinality(Range(walk.found))
            /\ Len(walk.found) <= MaxResults

Searching == ~Idle /\ req.op = "resources"

Granted(members) ==
    {o \in Objects : o.ns = req.type /\ [obj |-> o, rel |-> req.rel] \in members}

Excludes(s) ==
    \E ns \in Types(s) : \E r \in Relations(s, ns) : \E e \in Parts[s.schema[ns][r]] : e.op = "exclusion"

(* A resource is returned only if the subject is a member of it, whether   *)
(* it was checked, checked in part or taken from a row alone (eval.rs      *)
(* verify_lookup_resource_candidate).  Once a check of the request has cut *)
(* a cycle the memo may hold wrong denials: then it is said only of        *)
(* schemas without exclusions, which cannot turn one into a grant.         *)
ResourcesSound ==
    Searching /\ walk.found # <<>> /\ (walk.cut => ~Excludes(snap)) =>
        LET m == Meaning(snap, req.subject)
        IN  m.decided => Range(walk.found) \subseteq Granted(m.members)

(* Membership of u comes from rows and computed relations alone.           *)
TupleFree(s, u) ==
    Defined(s, u) => TupleRewrites(s, u.obj.ns, Rewrite(s, u), {}) = {}

(* The snapshots and requests for which the search loses nothing:          *)
(* - one verdict on a candidate is final: the plan has no residual checks, *)
(*   or the same ones for every relation;                                  *)
(* - what a tupleset leads to, or a row names, is not inherited itself;    *)
(* - an object that rows name under the inherited relation is named by     *)
(*   tupleset rows under no other;                                         *)
(* - relations the plan prunes lead nowhere by rewrites.                   *)
Lossless(s, q, plan) ==
    LET tuples == UNION {UNION {{[ns |-> ns, e |-> e] : e \in TupleRewrites(s, ns, s.schema[ns][r], {})} :
                                   r \in Relations(s, ns)} : ns \in Types(s)}
    IN  /\ \A i, j \in 1..Len(plan) : plan[i].ver.checks # <<>> => plan[j].ver = plan[i].ver
        /\ \A row \in Range(LiveRows(s)) :
              /\ TupleFree(s, row.sub)
              /\ \A t \in tuples : t.ns = row.res.obj.ns /\ t.e.tupleset = row.res.rel =>
                    /\ TupleFree(s, At(row.sub, t.e.rel))
                    /\ HasReverse(s, At(row.sub, t.e.rel)) => row.sub.rel = t.e.rel
        /\ \A row \in Range(LiveRows(s)) :
              plan # <<>> /\ row.res.obj.ns = q.type /\ ~PlanAllows(plan, row.res.rel) =>
                  SameObject(s, row.res) = {} /\ TupleTargets(s, row.res) = {}

(* On such snapshots, and while no check of the request has cut a cycle,   *)
(* every resource is returned: through usersets, computed relations and    *)
(* one level of inheritance, whatever the pruning and its sampling skip,   *)
(* and whatever tombstoned rows suggest (eval.rs                           *)
(* lookup_resources_with_snapshot).  After a cut a denial of the memo may  *)
(* lose a resource.                                                        *)
ResourcesComplete ==
    Searching /\ ~walk.cut /\ walk.end = "done" /\ Lossless(snap, req, walk.plan) =>
        LET m == Meaning(snap, req.subject)
        IN  m.decided => Granted(m.members) \subseteq Range(walk.found)

(* No tombstone uses up the limit of a query: where a relation has one,    *)
(* its rows of the checkpoint, hidden ones included, are within it.        *)
TombstonesFit(s) ==
    \A i \in s.hidden :
        Cardinality({j \in (s.inserted + 1)..Len(s.rows) : s.rows[j].res = s.rows[i].res}) <= MaxFanout + 1

(* lookup_subjects returns only subjects of the wanted type that are       *)
(* members, each checked or not; where tombstones fit the limit of its     *)
(* queries it returns all of them, or some up to the result limit, or an   *)
(* error (eval.rs stream_lookup_subjects_relation, LookupSubjectCollector).*)
(* Where they do not fit it may leave out members and report no error.     *)
SubjectsExact ==
    ~Idle /\ req.op = "subjects" =>
        \A u \in Named(snap) :
            LET m == Meaning(snap, u)
            IN  u.obj.ns = req.type /\ m.decided =>
                    /\ u \in Range(walk.found) => req.key \in m.members
                    /\ walk.end = "done" /\ TombstonesFit(snap) /\ req.key \in m.members =>
                          u \in Range(walk.found)

(* What a tree says of u: its leaves are users and usersets.               *)
RECURSIVE TreeHolds(_, _, _)
TreeHolds(t, u, M) ==
    CASE t.op = "leaf"         -> t.subject = u \/ t.subject \in M
      [] t.op = "union"        -> \E i \in 1..Len(t.args) : TreeHolds(t.args[i], u, M)
      [] t.op = "intersection" -> \A i \in 1..Len(t.args) : TreeHolds(t.args[i], u, M)
      [] t.op = "exclusion"    -> TreeHolds(t.args[1], u, M) /\ ~TreeHolds(t.args[2], u, M)

(* An expanded tree, read as sets, holds exactly the members where         *)
(* tombstones fit the limit of its queries: the relation cut where it is   *)
(* being expanded loses none, and a row past the limit is an error, not a  *)
(* smaller tree (eval.rs expand, expand_this).                             *)
ExpandExact ==
    ~Idle /\ req.op = "expand" /\ walk.end = "done" /\ TombstonesFit(snap) =>
        \A u \in Users :
            LET m == Meaning(snap, u)
            IN  m.decided => (TreeHolds(walk.tree, u, m.members) <=> req.key \in m.members)

(* Cyclic usersets do not keep a search going: a step ends the search,     *)
(* visits a subject it had not visited, or leaves fewer to visit, and      *)
(* there are finitely many (eval.rs visited_subjects).                     *)
SearchAdvances ==
    [][~Idle /\ req.op = "resources" /\ walk.end = "" =>
          \/ walk'.end # ""
          \/ Cardinality(walk'.visited) > Cardinality(walk.visited)
          \/ walk'.visited = walk.visited /\ Len(walk'.frontier) < Len(walk.frontier)]_vars

-----------------------------------------------------------------------------
(* What the planner's design says, and the search does not keep.           *)

(* "`TupleToUserset` enumerates every tupleset row and every exact         *)
(* intermediate computed member" (specs/31, No false negatives): a lookup  *)
(* that ends by itself returns every resource.  The search goes on from    *)
(* the tupleset relation of an object that inherits, not from the relation *)
(* that inherits, so a second level is never reached.                      *)
LookupComplete ==
    Searching /\ walk.end = "done" =>
        LET m == Meaning(snap, req.subject)
        IN  m.decided => Granted(m.members) \subseteq Range(walk.found)

=============================================================================
