------------------------------ MODULE EngineOps ------------------------------
(***************************************************************************)
(* What one write command does to the state the writer owns, and what one  *)
(* read request finds in a published engine state (src/src/lib.rs,         *)
(* policy.rs, schema/mod.rs, runtime.rs).  No threads here: Engine runs    *)
(* these operations behind the writer actor and LinearStore runs each of   *)
(* them in one atomic step.                                                *)
(*                                                                         *)
(* Schemas keep what the schema validator looks at: a rewrite is the set   *)
(* of same-namespace relations it names (computed usersets and tuplesets), *)
(* the set of tuple-to-userset targets, and whether it holds an operator   *)
(* without operands.  Relationships keep the relations they must find in   *)
(* the schema.  SchemaHash is any function of the schema: collisions are   *)
(* allowed.                                                                *)
(***************************************************************************)
EXTENDS Naturals, Sequences, FiniteSets

CONSTANTS Namespaces,        \* object types a schema may define
          RelationNames,     \* relation and permission names
          Rewrites,          \* userset rewrites
          Relationships,     \* rows `object#relation@subject`
          SchemaHash(_),     \* SchemaHash::for_schema
          Hashes,            \* its range
          Commands,          \* write commands clients may submit
          Requests,          \* read requests clients may make
          Files,             \* snapshot artifacts an engine may start from
          Retained,          \* builder's snapshot retention
          ImportBatch,       \* policy_import_batch_size (10_000 in the code)
          MaxRevision,       \* u64::MAX
          Malformed,         \* text that does not parse
          NoSnapshot,        \* nothing published yet
          Direct             \* a subject that is an object, not a userset

RelationKey == [ns : Namespaces, rel : RelationNames]

RelationDefs == UNION {[R -> Rewrites] : R \in SUBSET RelationNames}

Configs == UNION {[D -> RelationDefs] : D \in SUBSET Namespaces}

Mutation == [kind : {"create", "touch", "delete"}, row : Relationships]

(* A precondition's filter is the set of rows it selects and the relations  *)
(* it names; its limit is at least the number of rows it selects (StoreView *)
(* models smaller limits).                                                  *)
Precondition == [kind : {"mustMatch", "mustNotMatch"},
                 rows : SUBSET Relationships,
                 namespaces : SUBSET Namespaces,
                 keys : SUBSET RelationKey]

Command ==
    [op : {"write"}, muts : Seq(Mutation), pres : SUBSET Precondition]
        \cup [op : {"applySchema", "replaceSchema"}, text : Configs \cup {Malformed}]
        \cup [op : {"applyConfigs"}, configs : Configs]
        \cup [op : {"deleteNamespace"}, ns : Namespaces]
        \cup [op : {"deleteRelation"}, ns : Namespaces, rel : RelationNames]
        \cup [op : {"policy"}, text : Configs \cup {Malformed},
              rows : Seq(Relationships) \cup {Malformed}]

Candidate == [configs : Configs, rows : SUBSET Relationships]

Snapshot == [rev : 1..MaxRevision, hash : Hashes,
             configs : Configs, rows : SUBSET Relationships]

(* `own`: the token carries this engine's datastore id.                    *)
Token == [rev : 1..MaxRevision, hash : Hashes, own : BOOLEAN]

Request == [mode : {"latest"}] \cup [mode : {"exact"}, token : Token]

ASSUME EngineConstants ==
    /\ Retained \in Nat \ {0}
    /\ ImportBatch \in Nat \ {0}
    /\ MaxRevision \in Nat \ {0}
    /\ Rewrites \subseteq [local : SUBSET RelationNames, targets : SUBSET RelationNames,
                           empty : BOOLEAN]
    /\ Commands \subseteq Command
    /\ Requests \subseteq Request
    /\ Relationships \subseteq [id : STRING, resource : RelationKey,
                                subject : RelationKey \cup {Direct}]
    /\ Malformed \notin Configs
    /\ Malformed \notin Seq(Relationships)
    /\ Direct \notin RelationKey
    /\ NoSnapshot \notin Snapshot

ASSUME HashTotal == \A c \in Configs : SchemaHash(c) \in Hashes

-----------------------------------------------------------------------------
(* Schema compilation and row validation.                                  *)

Defines(configs, key) ==
    key.ns \in DOMAIN configs /\ key.rel \in DOMAIN configs[key.ns]

ValidateExpression(configs, ns, rw) ==
    /\ ~rw.empty
    /\ rw.local \subseteq DOMAIN configs[ns]
    /\ \A t \in rw.targets : \E n \in DOMAIN configs : t \in DOMAIN configs[n]

Compiles(configs) ==
    \A n \in DOMAIN configs : \A r \in DOMAIN configs[n] :
        ValidateExpression(configs, n, configs[n][r])

ValidateRelationship(configs, row) ==
    /\ Defines(configs, row.resource)
    /\ row.subject # Direct => Defines(configs, row.subject)

ValidatePrecondition(configs, pre) ==
    /\ pre.namespaces \subseteq DOMAIN configs
    /\ \A k \in pre.keys : Defines(configs, k)

WellFormed(snap) ==
    /\ Compiles(snap.configs)
    /\ \A r \in snap.rows : ValidateRelationship(snap.configs, r)

(* Well formed but for rows that came with `file` and whose schema is      *)
(* still the file's (NoSnapshot: no such rows).                            *)
WellFormedBut(snap, file) ==
    /\ Compiles(snap.configs)
    /\ \A r \in snap.rows :
          \/ ValidateRelationship(snap.configs, r)
          \/ file # NoSnapshot /\ file.configs = snap.configs /\ r \in file.rows

(* An artifact that loads has a schema section that compiles and matches   *)
(* the hash of its header.  Nobody compares its rows with that schema.     *)
ASSUME FilesLoad ==
    /\ Files \subseteq Snapshot
    /\ \A f \in Files : Compiles(f.configs) /\ f.hash = SchemaHash(f.configs)

-----------------------------------------------------------------------------
(* The writer's own state: configs, compiled schema present or not, rows,  *)
(* current snapshot, retained history, last revision (0: none), retention. *)
(* `origin` is a history field: the file the engine was loaded from.  No   *)
(* guard reads it.                                                         *)

Writer == [configs : Configs, schema : BOOLEAN, rows : SUBSET Relationships,
           current : Snapshot \cup {NoSnapshot}, history : Seq(Snapshot),
           last : 0..MaxRevision, retained : Nat \ {0},
           origin : Snapshot \cup {NoSnapshot}]

NewWriter == [configs |-> [n \in {} |-> {}], schema |-> FALSE, rows |-> {},
              current |-> NoSnapshot, history |-> <<>>, last |-> 0, retained |-> Retained,
              origin |-> NoSnapshot]

(* load_snapshot keeps the file's revision and retains a single snapshot.  *)
LoadedWriter(file) ==
    [configs |-> file.configs, schema |-> TRUE, rows |-> file.rows,
     current |-> file, history |-> <<file>>, last |-> file.rev, retained |-> 1,
     origin |-> file]

-----------------------------------------------------------------------------
(* Each write command yields the (configs, rows) pairs it would publish,   *)
(* in order; the empty sequence is a typed error.  Every command but       *)
(* policy import yields at most one.                                       *)

(* Mutant: a schema change keeps its rows without revalidating them.       *)
SchemaCandidateUnrevalidated(w, configs) ==
    IF Compiles(configs)
    THEN <<[configs |-> configs, rows |-> IF w.schema THEN w.rows ELSE {}]>> ELSE <<>>

(* Schema changes revalidate every stored row; a writer without a schema   *)
(* starts from an empty store.                                             *)
SchemaCandidate(w, configs) ==
    LET rows == IF w.schema THEN w.rows ELSE {}
        cand == [configs |-> configs, rows |-> rows]
    IN  IF WellFormed(cand) THEN <<cand>> ELSE <<>>

(* New namespaces replace old ones of the same name, the others stay.      *)
Merge(old, new) ==
    [n \in DOMAIN old \cup DOMAIN new |-> IF n \in DOMAIN new THEN new[n] ELSE old[n]]

ApplyNamespaceConfigs(w, configs) == SchemaCandidate(w, Merge(w.configs, configs))

(* add_dsl compiles the submitted text on its own before it merges it.     *)
AddDsl(w, text) ==
    IF text # Malformed /\ Compiles(text) THEN ApplyNamespaceConfigs(w, text) ELSE <<>>

ReplaceDsl(w, text) ==
    IF text # Malformed THEN SchemaCandidate(w, text) ELSE <<>>

DeleteNamespace(w, ns) ==
    IF ns \in DOMAIN w.configs
    THEN SchemaCandidate(w, [n \in DOMAIN w.configs \ {ns} |-> w.configs[n]])
    ELSE <<>>

DeleteRelation(w, ns, rel) ==
    IF Defines(w.configs, [ns |-> ns, rel |-> rel])
    THEN SchemaCandidate(w,
            [w.configs EXCEPT ![ns] = [r \in DOMAIN w.configs[ns] \ {rel} |-> w.configs[ns][r]]])
    ELSE <<>>

Rows(muts, kinds) == {muts[i].row : i \in {j \in 1..Len(muts) : muts[j].kind \in kinds}}

(* RelationshipStoreView::apply_mutations on the set of rows it stores.  A *)
(* batch names a row once, so its order does not matter.                   *)
MutationsApply(rows, muts, pres) ==
    /\ \A p \in pres : (p.kind = "mustMatch") <=> (p.rows \cap rows # {})
    /\ \A i, j \in 1..Len(muts) : muts[i].row = muts[j].row => i = j
    /\ Rows(muts, {"create"}) \cap rows = {}
    /\ Rows(muts, {"delete"}) \subseteq rows

ApplyRelationshipMutations(w, muts, pres) ==
    IF /\ w.schema
       /\ \A i \in 1..Len(muts) : ValidateRelationship(w.configs, muts[i].row)
       /\ \A p \in pres : ValidatePrecondition(w.configs, p)
       /\ MutationsApply(w.rows, muts, pres)
    THEN <<[configs |-> w.configs,
            rows |-> (w.rows \cup Rows(muts, {"create", "touch"})) \ Rows(muts, {"delete"})]>>
    ELSE <<>>

Batches(n) == (n + ImportBatch - 1) \div ImportBatch

(* Policy import builds the whole state on a private candidate: the schema *)
(* alone is its first revision, then one revision per batch of rows.       *)
ApplyPolicyText(text, rows) ==
    IF /\ text # Malformed /\ Compiles(text)
       /\ rows # Malformed
       /\ \A i \in 1..Len(rows) : ValidateRelationship(text, rows[i])
       /\ \A i, j \in 1..Len(rows) : rows[i] = rows[j] => i = j
    THEN [b \in 1..(Batches(Len(rows)) + 1) |->
            [configs |-> text,
             rows |-> {rows[i] : i \in {j \in 1..Len(rows) : j <= (b - 1) * ImportBatch}}]]
    ELSE <<>>

Candidates(w, cmd) ==
    CASE cmd.op = "write"           -> ApplyRelationshipMutations(w, cmd.muts, cmd.pres)
      [] cmd.op = "applySchema"     -> AddDsl(w, cmd.text)
      [] cmd.op = "replaceSchema"   -> ReplaceDsl(w, cmd.text)
      [] cmd.op = "applyConfigs"    -> ApplyNamespaceConfigs(w, cmd.configs)
      [] cmd.op = "deleteNamespace" -> DeleteNamespace(w, cmd.ns)
      [] cmd.op = "deleteRelation"  -> DeleteRelation(w, cmd.ns, cmd.rel)
      [] cmd.op = "policy"          -> ApplyPolicyText(cmd.text, cmd.rows)

-----------------------------------------------------------------------------
(* Publication: consecutive revisions, appended to the history (policy     *)
(* import starts a new one), oldest snapshots dropped.                     *)

(* Mutant: every command numbers its snapshots from 1.                     *)
SnapshotsFromOne(last, cands) ==
    [i \in 1..Len(cands) |->
        [rev |-> i, hash |-> SchemaHash(cands[i].configs),
         configs |-> cands[i].configs, rows |-> cands[i].rows]]

Snapshots(last, cands) ==
    [i \in 1..Len(cands) |->
        [rev |-> last + i, hash |-> SchemaHash(cands[i].configs),
         configs |-> cands[i].configs, rows |-> cands[i].rows]]

(* Mutant: eviction starts one snapshot too late.                          *)
RetainOneMore(history, n) ==
    IF Len(history) > n + 1 THEN SubSeq(history, Len(history) - n, Len(history)) ELSE history

Retain(history, n) ==
    IF Len(history) > n THEN SubSeq(history, Len(history) - n + 1, Len(history)) ELSE history

(* Mutant: the revision counter is incremented without a check.            *)
SucceedsUnchecked(w, cmd) == Candidates(w, cmd) # <<>>

(* next_revision fails before anything is assigned.                        *)
Succeeds(w, cmd) ==
    LET cands == Candidates(w, cmd)
    IN  cands # <<>> /\ w.last + Len(cands) <= MaxRevision

NextWriter(w, cmd) ==
    LET cands == Candidates(w, cmd)
        snaps == Snapshots(w.last, cands)
        final == snaps[Len(cands)]
        base  == IF cmd.op = "policy" THEN <<>> ELSE w.history
    IN  [w EXCEPT !.configs = final.configs, !.schema = TRUE, !.rows = final.rows,
                  !.current = final, !.history = Retain(base \o snaps, w.retained),
                  !.last = w.last + Len(cands)]

-----------------------------------------------------------------------------
(* The engine state readers load, and tokens.                              *)

State == [latest : Snapshot \cup {NoSnapshot}, history : Seq(Snapshot), last : 0..MaxRevision]

(* publish_current_engine_state; last = 0 stands for an empty ArcSwapOption. *)
EngineState(w) == [latest |-> w.current, history |-> w.history, last |-> w.last]

TokenOf(snap) == [rev |-> snap.rev, hash |-> snap.hash, own |-> TRUE]

(* What a call returns: a snapshot to evaluate on, a token, or an error.   *)
Ok(snap) == [kind |-> "snapshot", snap |-> snap]
Committed(token) == [kind |-> "token", token |-> token]
Error(e) == [kind |-> "error", error |-> e]

WriteErrors == {"Rejected", "WriterUnavailable"}
ReadErrors == {"SchemaRequired", "WrongDatastore", "RevisionUnavailable",
               "RevisionExpired", "SchemaHashMismatch"}

Result == [kind : {"snapshot"}, snap : Snapshot]
            \cup [kind : {"token"}, token : Token]
            \cup [kind : {"error"}, error : WriteErrors \cup ReadErrors]

(* Mutant: the oldest retained revision counts as expired.                 *)
ResolveTokenExpiresOldest(state, token) ==
    IF ~token.own THEN Error("WrongDatastore")
    ELSE IF token.rev <= state.history[1].rev THEN Error("RevisionExpired")
    ELSE LET found == {i \in 1..Len(state.history) : state.history[i].rev <= token.rev}
             snap == state.history[CHOOSE i \in found : \A j \in found : j <= i]
         IN  IF snap.hash # token.hash THEN Error("SchemaHashMismatch") ELSE Ok(snap)

(* snapshot_for_token.                                                     *)
ResolveToken(state, token) ==
    IF ~token.own THEN Error("WrongDatastore")
    ELSE IF token.rev > state.last THEN Error("RevisionUnavailable")
    ELSE IF token.rev < state.history[1].rev THEN Error("RevisionExpired")
    ELSE LET found == {i \in 1..Len(state.history) : state.history[i].rev = token.rev}
         IN  IF found = {} THEN Error("RevisionUnavailable")
             ELSE LET snap == state.history[CHOOSE i \in found : \A j \in found : i <= j]
                  IN  IF snap.hash # token.hash THEN Error("SchemaHashMismatch") ELSE Ok(snap)

(* snapshot_for_consistency, on the one state the request loaded.          *)
Resolve(state, request) ==
    IF state.last = 0 THEN Error("SchemaRequired")
    ELSE IF request.mode = "latest" THEN Ok(state.latest)
    ELSE ResolveToken(state, request.token)

=============================================================================
