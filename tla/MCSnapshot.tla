----------------------------- MODULE MCSnapshot -----------------------------
(***************************************************************************)
(* A small instance of SnapshotFiles: three snapshots, two savers of one   *)
(* process, and a load.                                                    *)
(***************************************************************************)
EXTENDS SnapshotFiles

(* Object and subject ids may be names that no type or relation may have.  *)
MCNames == {"doc", "d1", "viewer", "user", "alice", "group", "eng", "member"}
MCHashValue ==
    [n \in MCNames |-> CASE n \in {"doc", "alice"} -> 5 [] n \in {"user", "eng"} -> 1
                         [] n = "d1" -> 3 [] OTHER -> 4]
MCFieldNames == [f \in 1..6 |-> IF f \in {2, 5} THEN MCNames ELSE MCNames \ {"d1"}]

Direct == <<"doc", "d1", "viewer", "user", "alice", NoName>>
Member == <<"group", "eng", "member", "user", "alice", NoName>>
Userset == <<"doc", "d1", "viewer", "group", "eng", "member">>

Snap(revision, rels, large) ==
    [revision |-> revision, rels |-> rels, schema |-> "schema", large |-> large]
MCPublished == <<Snap(1, <<Direct>>, FALSE), Snap(2, <<Direct, Member, Userset>>, FALSE),
                 Snap(3, <<>>, TRUE)>>

SaveOption(p, c, i, n) == [profile |-> p, compression |-> c, indexes |-> i, level |-> n]
MCSaveOptions ==
    <<SaveOption("Full", "none", TRUE, 3), SaveOption("CheckOnly", "none", TRUE, 3),
      SaveOption("Full", "zstd", TRUE, 3),
      SaveOption("Full", "none", FALSE, 3), SaveOption("Full", "zstd", TRUE, 99)>>

Option(c, p, v, i, r, m) ==
    [compression |-> c, profile |-> p, validation |-> v, integrity |-> i, required |-> r, max |-> m]
MCLoadOptions ==
    {Option("none", "fast", "full", "checksum", "CheckOnly", 9),
     Option("none", "latency", "full", "checksum", "Full", 9),
     Option("none", "fast", "trusted", "checksum", "CheckOnly", 9),
     Option("none", "fast", "trusted", "external", "CheckAndObjectAudit", 9),
     Option("none", "latency", "trusted", "checksum", "CheckOnly", 9),
     Option("zstd", "fast", "full", "checksum", "CheckOnly", 2),
     Option("zstd", "fast", "full", "checksum", "CheckOnly", 9),
     Option("zstd", "fast", "trusted", "external", "CheckOnly", 9)}

-----------------------------------------------------------------------------
(* Files that nothing here saved: a saved file in which one number or one  *)
(* section is another, with a digest that fits.                            *)

File(n, p) == Encode(MCPublished[n].rels, MCPublished[n].revision, "schema", p, TRUE)
Wide == File(2, "Full")
WideChecks == File(2, "CheckOnly")
Narrow == File(1, "Full")
NarrowChecks == File(1, "CheckOnly")

With(a, field, value) == (field :> value) @@ a

(* Every other value of every byte of a section.                           *)
Others == ByteBase - 1
Changed(a, field) ==
    [i \in 1..(Len(a[field]) * Others) |->
        With(a, field, [a[field] EXCEPT ![((i - 1) \div Others) + 1] =
                                        (@ + 1 + ((i - 1) % Others)) % ByteBase])]

(* One more or one less in a number, in the k-th of a list of fields.      *)
Bumped(value, i) == IF i % 2 = 0 THEN value + 1 ELSE IF value = 0 THEN 2 ELSE value - 1
Counts == <<"rowCount", "symbolCount", "lookupWidth", "rowWidth", "keyCount", "postingCount">>
Recounted(a) ==
    [i \in 1..(2 * Len(Counts)) |->
        LET f == Counts[(i + 1) \div 2] IN With(a, f, Bumped(a[f], i))]
Relisted(a, list, fields) ==
    [i \in 1..(Len(a[list]) * 2 * Len(fields)) |->
        LET at == ((i - 1) \div (2 * Len(fields))) + 1
            f == fields[(((i - 1) % (2 * Len(fields))) \div 2) + 1]
        IN  With(a, list, [a[list] EXCEPT ![at] = With(@, f, Bumped(@[f], i))])]
Rehashed(a) ==
    [i \in 1..(2 * Len(a.hashes)) |->
        With(a, "hashes", [a.hashes EXCEPT ![(i + 1) \div 2] = Bumped(@, i)])]
Renamed(a) ==
    [i \in DOMAIN a.symbols |-> With(a, "symbols", [a.symbols EXCEPT ![i] = "alice"])]

(* A section of another file.                                              *)
Sections == <<"profile", "schemaHash", "symbols", "hashes", "lookup", "rows", "dir", "keys",
              "ranges", "postings">>
Mixed(a, b) == [i \in DOMAIN Sections |-> With(a, Sections[i], b[Sections[i]])]
Reindexed(a, b) ==
    <<With(With(With(With(With(With(a, "dir", b.dir), "keys", b.keys), "keyCount", b.keyCount),
                     "ranges", b.ranges), "postings", b.postings), "postingCount", b.postingCount)>>

Altered(a) ==
    Changed(a, "rows") \o Changed(a, "lookup") \o Changed(a, "keys") \o Changed(a, "postings")
    \o Recounted(a) \o Rehashed(a) \o Renamed(a)
    \o Relisted(a, "dir", <<"kind", "width", "keyStart", "keyCount", "rangeStart", "rangeCount">>)
    \o Relisted(a, "ranges", <<"first", "start", "len">>)

(* Rows of one snapshot under the indexes of one with fewer or other rows. *)
Older == Encode(<<Direct, Member>>, 2, "schema", "Full", TRUE)
MCForeign ==
    UNION {ToSet(Altered(a)) : a \in {Wide, NarrowChecks}}
    \cup UNION {ToSet(Mixed(p[1], p[2])) :
                  p \in {<<Wide, WideChecks>>, <<WideChecks, Wide>>, <<Wide, Older>>}}
    \cup ToSet(Reindexed(Wide, Older))
    \cup {With(Narrow, "schemaHash", "other"), With(Narrow, "revision", 0)}

MCProcessOf == [s \in {"s1", "s2"} |-> "p1"]

=============================================================================
