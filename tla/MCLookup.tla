------------------------------ MODULE MCLookup ------------------------------
(***************************************************************************)
(* Small snapshots: documents with direct and nested grants, a folder they *)
(* inherit from, groups in a cycle, and the rewrites a plan treats apart.  *)
(* The rows are subsets of a pool.                                         *)
(***************************************************************************)
EXTENDS Lookup

Obj(n, i) == [ns |-> n, id |-> i]
alice == [obj |-> Obj("user", "alice"), rel |-> NoRelation]
bob == [obj |-> Obj("user", "bob"), rel |-> NoRelation]
Set(o, r) == [obj |-> o, rel |-> r]
Tuple(o, r, s) == [res |-> Set(o, r), sub |-> s]

This == [op |-> "this"]
Computed(r) == [op |-> "computed", rel |-> r]
Inherit(t, r) == [op |-> "tupleToUserset", tupleset |-> t, rel |-> r]
Union(a, b) == [op |-> "union", args |-> <<a, b>>]
Both(a, b) == [op |-> "intersection", args |-> <<a, b>>]
Minus(a, b) == [op |-> "exclusion", base |-> a, exclude |-> b]

RECURSIVE PartsOf(_)
PartsOf(e) ==
    {e} \cup CASE e.op \in {"union", "intersection"} -> UNION {PartsOf(e.args[i]) : i \in 1..Len(e.args)}
              [] e.op = "exclusion" -> PartsOf(e.base) \cup PartsOf(e.exclude)
              [] OTHER -> {}
Rewrites(schema) == UNION {{schema[ns][r] : r \in DOMAIN schema[ns]} : ns \in DOMAIN schema}

g1 == Obj("group", "1")
g2 == Obj("group", "2")
d1 == Obj("doc", "1")
d2 == Obj("doc", "2")
f1 == Obj("folder", "1")
f2 == Obj("folder", "2")

DocSchema == [
    doc |-> [parent |-> This, banned |-> This, editor |-> This,
             view |-> Union(Computed("editor"), Inherit("parent", "viewer")),
             can |-> Minus(Computed("editor"), Computed("banned")),
             flagged |-> Both(Computed("banned"), Computed("view")),
             loop |-> Union(Computed("loop"), Computed("can"))],
    folder |-> [owner |-> This, viewer |-> Union(This, Computed("owner"))],
    group |-> [member |-> This]]

DocRows == <<
    Tuple(d1, "editor", Set(g1, "member")),
    Tuple(d2, "editor", Set(d1, "editor")),
    Tuple(g1, "member", Set(g2, "member")),
    Tuple(g2, "member", Set(g1, "member")),
    Tuple(g2, "member", alice),
    Tuple(d1, "editor", alice),
    Tuple(d1, "banned", alice),
    Tuple(f1, "owner", alice),
    Tuple(d1, "parent", Set(f1, "viewer")),
    Tuple(d2, "parent", Set(f1, "owner")),
    Tuple(d1, "editor", bob)>>

Pick(all, I) == SelectSeq([i \in 1..Len(all) |-> [row |-> all[i], in |-> i \in I]],
                          LAMBDA p : p.in)
RowsIn(all, I) == LET p == Pick(all, I) IN [i \in 1..Len(p) |-> p[i].row]

(* The same without the exclusion.                                         *)
PlainSchema == [
    doc |-> [parent |-> This, banned |-> This, editor |-> This,
             view |-> Union(Computed("editor"), Inherit("parent", "viewer")),
             flagged |-> Both(Computed("banned"), Computed("view")),
             loop |-> Union(Computed("loop"), Computed("view"))],
    folder |-> DocSchema.folder,
    group |-> DocSchema.group]

(* The relations declared without a rewrite, and the identifiers of rows.  *)
Plain(schema) ==
    UNION {{[ns |-> ns, rel |-> r] : r \in {x \in DOMAIN schema[ns] : schema[ns][x] = This}}
              : ns \in DOMAIN schema}
Interned(rows) == UNION {Symbols(rows[i].res) \cup Symbols(rows[i].sub) : i \in 1..Len(rows)}

(* A store loaded from rows, and one of a delta's rows before a checkpoint *)
(* of gone rows and others.                                                *)
Loaded(schema, rows) ==
    [schema |-> schema, bare |-> Plain(schema), rows |-> rows, inserted |-> 0, hidden |-> {},
     delta |-> FALSE, symbols |-> Interned(rows)]

Layered(schema, new, gone, rows) ==
    [schema |-> schema, bare |-> {}, rows |-> new \o gone \o rows, inserted |-> Len(new),
     hidden |-> (Len(new) + 1)..(Len(new) + Len(gone)), delta |-> TRUE, symbols |-> Interned(gone \o rows)]

(* Up to MaxRows rows loaded, the last one only where it is the third      *)
(* editor of d1 and so exceeds the fanout.  A tombstone that matters to    *)
(* rows that inherit by another relation than it names.                    *)
MaxRows == 4
LoadedDocs == {Loaded(DocSchema, RowsIn(DocRows, I)) :
                  I \in {J \in SUBSET (1..Len(DocRows)) :
                            Cardinality(J) <= MaxRows /\ (11 \in J => {1, 6} \subseteq J)}}
GoneParent == <<Tuple(d1, "parent", Set(f1, "viewer"))>>
DeletedDocs == {Layered(DocSchema, <<>>, GoneParent, RowsIn(DocRows, I)) :
                  I \in {J \in SUBSET (1..Len(DocRows)) : 10 \in J /\ {9, 11} \cap J = {} /\ Cardinality(J) <= MaxRows}}

(* Tombstones of d1's editors, two or as many as a query's limit, before   *)
(* the checkpoint's rows and after the delta's.                            *)
GoneEditors == <<Tuple(d1, "editor", Set(f1, "viewer")), Tuple(d1, "editor", Set(f1, "owner")),
                 Tuple(d1, "editor", Set(f2, "owner"))>>
Churned == {Layered(DocSchema, RowsIn(DocRows, J), SubSeq(GoneEditors, 1, n), RowsIn(DocRows, I)) :
               n \in 2..3, J \in SUBSET {1, 11}, I \in SUBSET {5, 6, 7}}

(* Cycles without exclusions; an object that is a subject itself.          *)
Plainer == {Loaded(PlainSchema, RowsIn(DocRows, I \cup {3, 4})) : I \in SUBSET {1, 2, 5, 6, 8, 10}}
DirectGroup == Tuple(d1, "editor", Set(g2, NoRelation))
Direct == {Loaded(DocSchema, Append(RowsIn(DocRows, I), DirectGroup)) : I \in SUBSET {1, 5, 6, 11}}

(* A cycle that a check of d1 cuts, and what d2 takes from it.             *)
CycleRows == <<
    Tuple(d1, "editor", Set(g1, "member")),
    Tuple(g1, "member", Set(g2, "member")),
    Tuple(g1, "member", Set(f1, "owner")),
    Tuple(g2, "member", Set(g1, "member")),
    Tuple(f1, "owner", alice),
    Tuple(d2, "editor", Set(g2, "member")),
    Tuple(d2, "editor", Set(d1, "editor")),
    Tuple(d2, "banned", Set(g2, "member"))>>
Cyclic == {Loaded(schema, RowsIn(CycleRows, 1..5 \cup I)) : schema \in {DocSchema, PlainSchema},
                                                            I \in SUBSET (6..8)}

(* One snapshot for each way in which the search loses a resource, which   *)
(* Lossless leaves out: a document met first in the branch whose residual  *)
(* check fails; a folder named under the inherited relation, by a row or   *)
(* by a tombstone, and under another one; a pruned relation that another   *)
(* relation of the document includes; a row that names what is inherited.  *)
LossySchema == [
    doc |-> [parent |-> This, banned |-> This, owner |-> This,
             editor |-> This, viewer |-> Union(This, Computed("owner")),
             view |-> Union(Computed("editor"), Inherit("parent", "viewer")),
             can |-> Union(Minus(Computed("editor"), Computed("banned")),
                           Both(Computed("owner"), Computed("editor")))],
    folder |-> [owner |-> This, parent |-> This, viewer |-> Union(This, Inherit("parent", "owner"))],
    group |-> DocSchema.group]

Lossy ==
    {Loaded(LossySchema, rows) : rows \in {
        <<Tuple(d1, "editor", alice), Tuple(d1, "banned", alice), Tuple(d1, "owner", alice)>>,
        <<Tuple(d1, "owner", alice), Tuple(d2, "editor", Set(d1, "viewer"))>>,
        <<Tuple(f1, "owner", alice), Tuple(f2, "parent", Set(f1, "owner")),
          Tuple(d2, "editor", Set(f2, "viewer"))>>}}
    \cup LET grants == <<Tuple(f1, "viewer", alice), Tuple(d2, "parent", Set(f1, "owner"))>>
         IN {Loaded(DocSchema, GoneParent \o grants), Layered(DocSchema, <<>>, GoneParent, grants)}

DocSnapshots ==
    LoadedDocs \cup DeletedDocs \cup Churned \cup Plainer \cup Direct \cup Cyclic \cup Lossy

MCObjects == {g1, g2, d1, d2, f1, f2, alice.obj, bob.obj}
MCRelations == {"member", "parent", "banned", "editor", "owner", "viewer", "view", "can", "flagged", "loop"}
MCUsers == {alice, bob, Set(g1, "member")}

Resource(u, r, t) == [op |-> "resources", subject |-> u, rel |-> r, type |-> t]
SubjectsOf(k, t) == [op |-> "subjects", key |-> k, type |-> t]
Expansion(k) == [op |-> "expand", key |-> k]

DocRequests ==
    {Resource(alice, r, "doc") : r \in {"view", "can", "flagged", "loop"}}
        \cup {Resource(Set(g1, "member"), "view", "doc"), Resource(alice, "member", "group"),
              Resource(alice, "viewer", "folder")}
        \cup {SubjectsOf(Set(d1, r), "user") : r \in {"view", "can", "flagged"}}
        \cup {SubjectsOf(Set(d1, "editor"), "group"), SubjectsOf(Set(d2, "view"), "doc")}
        \cup {Expansion(Set(d1, r)) : r \in {"view", "loop", "flagged"}}

(* A document two folders below the one alice may view.                    *)
TreeSchema == [
    doc |-> [parent |-> This, view |-> Inherit("parent", "viewer")],
    folder |-> [parent |-> This, viewer |-> Union(This, Inherit("parent", "viewer"))]]

TreeSnapshots == {Loaded(TreeSchema, <<
    Tuple(f1, "viewer", alice),
    Tuple(f2, "parent", Set(f1, "viewer")),
    Tuple(d1, "parent", Set(f1, "viewer")),
    Tuple(d2, "parent", Set(f2, "viewer"))>>)}

MCParts ==
    [e \in UNION {Rewrites(s) : s \in {DocSchema, PlainSchema, LossySchema, TreeSchema}} |-> PartsOf(e)]

TreeRequests == {Resource(alice, "view", "doc")}

=============================================================================
