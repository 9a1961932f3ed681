---------------------------- MODULE MCStoreView ----------------------------
(***************************************************************************)
(* Small instances of StoreView: three rows, batches of up to two          *)
(* mutations (and one too long), overlays of up to three mutations.        *)
(***************************************************************************)
EXTENDS StoreView, TLC

CONSTANTS r1, r2, r3

Muts(n) == UNION {[1..k -> Mutation] : k \in 0..n}

(* Rows 1 and 2 share an object, rows 1 and 3 a subject, and all hash to   *)
(* one bucket of the identity index.                                       *)
MCKeysOf == r1 :> {"doc1", "alice"} @@ r2 :> {"doc1", "bob"} @@ r3 :> {"doc2", "alice"}
OneHash == [r \in Relationships |-> "hash"]

Wide == [key |-> "doc1", rows |-> {r1, r2}, limit |-> 2]
Narrow == [key |-> "doc2", rows |-> {r3}, limit |-> 1]
Alice == [key |-> "alice", rows |-> {r1, r3}, limit |-> 2]
OneSubject == [key |-> "doc1", rows |-> {r2}, limit |-> 1]
Limited == [key |-> "doc1", rows |-> {r1, r2}, limit |-> 1]

WideFilters == {Wide, Narrow, Alice, OneSubject}
LimitedFilters == {Limited}

Pre(k, f) == [kind |-> k, filter |-> f]
Pres == {<<>>, <<Pre("mustMatch", Wide)>>, <<Pre("mustNotMatch", Narrow)>>,
         <<Pre("mustMatch", Wide), Pre("mustMatch", Wide)>>}

Touch3 == <<[kind |-> "touch", row |-> r1], [kind |-> "touch", row |-> r2],
            [kind |-> "touch", row |-> r3]>>

AllBatches ==
    [muts : Muts(2), pres : {<<>>}] \cup [muts : Muts(1), pres : Pres]
        \cup {[muts |-> Touch3, pres |-> <<>>]}

GuardedBatches ==
    [muts : Muts(1), pres : {<<>>, <<Pre("mustNotMatch", Limited)>>}]

Loaded == {[rows |-> <<r1, r2>>, unique |-> "known"],
           [rows |-> <<r1, r1>>, unique |-> "untrusted"],
           [rows |-> <<r2, r1>>, unique |-> "untrusted"]}
Fresh == {}

=============================================================================
