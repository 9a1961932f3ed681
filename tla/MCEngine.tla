------------------------------ MODULE MCEngine ------------------------------
(***************************************************************************)
(* Small instances of Engine.  Two namespaces, `doc` and `group`; rows     *)
(* grant a user or a group's members; the hash keeps only the namespace    *)
(* names, so different schemas collide.                                    *)
(***************************************************************************)
EXTENDS Engine

CONSTANTS c1, c2, c3

MCHash(configs) == DOMAIN configs
MCHashes == SUBSET Namespaces

Key(n, r) == [ns |-> n, rel |-> r]
Plain == [local |-> {}, targets |-> {}, empty |-> FALSE]

rowUser == [id |-> "d1@alice", resource |-> Key("doc", "viewer"), subject |-> Direct]
rowSet == [id |-> "d1@g1#member", resource |-> Key("doc", "viewer"),
           subject |-> Key("group", "member")]
MCRelationships == {rowUser, rowSet}

DocOnly == [doc |-> [viewer |-> Plain]]
GroupOnly == [group |-> [member |-> Plain]]
Both == [doc |-> [viewer |-> Plain], group |-> [member |-> Plain]]
(* doc.viewer follows tuples to `member`, which only `group` defines.      *)
Inherits == [Plain EXCEPT !.targets = {"member"}]
DocInherits == [doc |-> [viewer |-> Inherits]]
MCRewrites == {Plain, Inherits}

Create(r) == [op |-> "write", muts |-> <<[kind |-> "create", row |-> r]>>, pres |-> {}]
Delete(r) == [op |-> "write", muts |-> <<[kind |-> "delete", row |-> r]>>, pres |-> {}]
TouchIf(r, p) ==
    [op |-> "write", muts |-> <<[kind |-> "touch", row |-> r]>>,
     pres |-> {[kind |-> "mustMatch", rows |-> {p}, namespaces |-> {"doc"},
                keys |-> {Key("doc", "viewer")}]}]
Replace(text) == [op |-> "replaceSchema", text |-> text]
Apply(text) == [op |-> "applySchema", text |-> text]
Import(text, rows) == [op |-> "policy", text |-> text, rows |-> rows]

(* Every kind of command, by one client at a time.                         *)
AllCommands == {
    Create(rowUser), Delete(rowUser), TouchIf(rowSet, rowUser),
    Replace(Both), Apply(GroupOnly), Apply(DocInherits), Apply(Malformed),
    [op |-> "applyConfigs", configs |-> DocInherits],
    [op |-> "deleteNamespace", ns |-> "group"],
    [op |-> "deleteRelation", ns |-> "doc", rel |-> "viewer"],
    Import(DocOnly, <<rowUser>>), Import(DocOnly, <<rowSet>>)}

(* Enough to race: a schema, a row that comes and goes, an import of two   *)
(* batches.                                                                *)
RaceCommands == {Replace(Both), Create(rowUser), Import(Both, <<rowUser, rowSet>>)}

(* Enough to queue: three clients, one slot.                               *)
QueueCommands == {Replace(Both), Delete(rowUser)}
LatestOnly == [mode : {"latest"}]

AllRequests == Request
RaceRequests == [mode : {"latest"}] \cup
                [mode : {"exact"},
                 token : {t \in Token : t.own /\ t.hash = {"doc", "group"} /\ t.rev \in 1..2}]

SavedFile == [rev |-> 2, hash |-> MCHash(Both), configs |-> Both, rows |-> {rowUser}]
(* A file that loads although its schema does not know its row's subject.  *)
AlienFile == [rev |-> 2, hash |-> MCHash(DocOnly), configs |-> DocOnly, rows |-> {rowSet}]
NoFiles == {}
TwoFiles == {SavedFile, AlienFile}

=============================================================================
