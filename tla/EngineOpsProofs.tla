--------------------------- MODULE EngineOpsProofs ---------------------------
(***************************************************************************)
(* Lemmas about the operations of EngineOps for every set of commands,     *)
(* retention, import batch size and hash function: what a command would    *)
(* publish is well formed, publishing it keeps the history a window of     *)
(* consecutive revisions, and resolving a request on such a window finds   *)
(* the snapshot the request names.                                         *)
(***************************************************************************)
EXTENDS EngineOps, SequenceTheorems, TLAPS

-----------------------------------------------------------------------------
(* What commands do to the writer.                                         *)

(* A writer without a schema owns nothing; one with a schema owns a        *)
(* current snapshot at the end of its window, well formed but for rows of  *)
(* the file it was loaded from.                                            *)
WriterOK(w) ==
    IF w.schema
    THEN /\ w.last > 0
         /\ w.current \in Snapshot
         /\ w.current.configs = w.configs /\ w.current.rows = w.rows
         /\ w.history # <<>> /\ Len(w.history) <= w.retained
         /\ w.current = w.history[Len(w.history)]
         /\ \A i \in 1..Len(w.history) :
               /\ w.history[i].rev = w.last - Len(w.history) + i
               /\ WellFormedBut(w.history[i], w.origin)
               /\ w.history[i].hash = SchemaHash(w.history[i].configs)
    ELSE /\ w.last = 0 /\ w.rows = {} /\ w.history = <<>> /\ w.current = NoSnapshot

(* What is well formed needs no excuse.                                    *)
LEMMA WellFormedWithout ==
    ASSUME NEW snap, NEW file, WellFormed(snap)
    PROVE  WellFormedBut(snap, file)
BY DEF WellFormed, WellFormedBut

(* Everything a writer with a schema owns validates against that schema or *)
(* came with its file under the same schema.                               *)
LEMMA OwnedStateValid ==
    ASSUME NEW w \in Writer, WriterOK(w), w.schema
    PROVE  /\ Compiles(w.configs)
           /\ \A r \in w.rows :
                 \/ ValidateRelationship(w.configs, r)
                 \/ w.origin # NoSnapshot /\ w.origin.configs = w.configs /\ r \in w.origin.rows
<1>1. Len(w.history) \in 1..Len(w.history)
  BY DEF WriterOK, Writer
<1>2. WellFormedBut(w.current, w.origin)
  BY <1>1 DEF WriterOK
<1> QED
  BY <1>2 DEF WriterOK, WellFormedBut

(* A schema candidate is published only when it is well formed.            *)
LEMMA SchemaCandidateOK ==
    ASSUME NEW w \in Writer, NEW configs \in Configs
    PROVE  /\ SchemaCandidate(w, configs) \in Seq(Candidate)
           /\ \A i \in 1..Len(SchemaCandidate(w, configs)) :
                 WellFormed(SchemaCandidate(w, configs)[i])
<1> DEFINE cand == [configs |-> configs, rows |-> IF w.schema THEN w.rows ELSE {}]
<1>1. cand \in Candidate
  BY DEF Candidate, Writer
<1>2. CASE WellFormed(cand)
  <2>1. SchemaCandidate(w, configs) = <<cand>>
    BY <1>2 DEF SchemaCandidate
  <2> QED BY <1>1, <1>2, <2>1
<1>3. CASE ~WellFormed(cand)
  <2>1. SchemaCandidate(w, configs) = <<>>
    BY <1>3 DEF SchemaCandidate
  <2> QED BY <2>1
<1> QED BY <1>2, <1>3

(* Sub-functions and merges of configs are configs.                        *)
LEMMA ConfigsShape ==
    ASSUME NEW f
    PROVE  f \in Configs <=>
              /\ DOMAIN f \in SUBSET Namespaces
              /\ f \in [DOMAIN f -> RelationDefs]
BY DEF Configs

LEMMA RelationDefsShape ==
    ASSUME NEW f
    PROVE  f \in RelationDefs <=>
              /\ DOMAIN f \in SUBSET RelationNames
              /\ f \in [DOMAIN f -> Rewrites]
BY DEF RelationDefs

LEMMA MergeConfigs ==
    ASSUME NEW old \in Configs, NEW new \in Configs
    PROVE  Merge(old, new) \in Configs
<1>1. old \in [DOMAIN old -> RelationDefs] /\ DOMAIN old \in SUBSET Namespaces
  BY ConfigsShape
<1>2. new \in [DOMAIN new -> RelationDefs] /\ DOMAIN new \in SUBSET Namespaces
  BY ConfigsShape
<1>3. DOMAIN Merge(old, new) = DOMAIN old \cup DOMAIN new
  BY DEF Merge
<1>4. Merge(old, new) \in [DOMAIN old \cup DOMAIN new -> RelationDefs]
  BY <1>1, <1>2 DEF Merge
<1> QED BY <1>1, <1>2, <1>3, <1>4, ConfigsShape

LEMMA RemoveNamespaceConfigs ==
    ASSUME NEW configs \in Configs, NEW ns
    PROVE  [n \in DOMAIN configs \ {ns} |-> configs[n]] \in Configs
<1> DEFINE f == [n \in DOMAIN configs \ {ns} |-> configs[n]]
<1>1. configs \in [DOMAIN configs -> RelationDefs] /\ DOMAIN configs \in SUBSET Namespaces
  BY ConfigsShape
<1>2. DOMAIN f = DOMAIN configs \ {ns} /\ f \in [DOMAIN configs \ {ns} -> RelationDefs]
  BY <1>1
<1> QED BY <1>1, <1>2, ConfigsShape

LEMMA RemoveRelationConfigs ==
    ASSUME NEW configs \in Configs, NEW ns \in DOMAIN configs, NEW rel
    PROVE  [configs EXCEPT ![ns] = [r \in DOMAIN configs[ns] \ {rel} |-> configs[ns][r]]]
              \in Configs
<1> DEFINE d == [r \in DOMAIN configs[ns] \ {rel} |-> configs[ns][r]]
           f == [configs EXCEPT ![ns] = d]
<1>1. configs \in [DOMAIN configs -> RelationDefs] /\ DOMAIN configs \in SUBSET Namespaces
  BY ConfigsShape
<1>2. configs[ns] \in [DOMAIN configs[ns] -> Rewrites] /\ DOMAIN configs[ns] \in SUBSET RelationNames
  BY <1>1, RelationDefsShape
<1>3. DOMAIN d = DOMAIN configs[ns] \ {rel} /\ d \in [DOMAIN configs[ns] \ {rel} -> Rewrites]
  BY <1>2
<1>4. d \in RelationDefs
  BY <1>2, <1>3, RelationDefsShape
<1>5. DOMAIN f = DOMAIN configs /\ f \in [DOMAIN configs -> RelationDefs]
  BY <1>1, <1>4
<1> QED BY <1>1, <1>5, ConfigsShape

(* A relationship write keeps the schema and adds only validated rows.     *)
LEMMA WriteCandidateOK ==
    ASSUME NEW w \in Writer, WriterOK(w),
           NEW muts \in Seq(Mutation), NEW pres \in SUBSET Precondition
    PROVE  LET cands == ApplyRelationshipMutations(w, muts, pres)
           IN  /\ cands \in Seq(Candidate)
               /\ \A i \in 1..Len(cands) : WellFormedBut(cands[i], w.origin)
<1> DEFINE added == Rows(muts, {"create", "touch"})
           rows == (w.rows \cup added) \ Rows(muts, {"delete"})
           cand == [configs |-> w.configs, rows |-> rows]
           guard == /\ w.schema
                    /\ \A i \in 1..Len(muts) : ValidateRelationship(w.configs, muts[i].row)
                    /\ \A p \in pres : ValidatePrecondition(w.configs, p)
                    /\ MutationsApply(w.rows, muts, pres)
<1>1. CASE ~guard
  <2>1. ApplyRelationshipMutations(w, muts, pres) = <<>>
    BY <1>1 DEF ApplyRelationshipMutations
  <2> QED BY <2>1
<1>2. CASE guard
  <2>1. ApplyRelationshipMutations(w, muts, pres) = <<cand>>
    BY <1>2 DEF ApplyRelationshipMutations
  <2>2. added \subseteq Relationships
    <3>1. \A i \in 1..Len(muts) : muts[i] \in Mutation
      BY ElementOfSeq
    <3>2. \A i \in 1..Len(muts) : muts[i].row \in Relationships
      BY <3>1 DEF Mutation
    <3> QED BY <3>2 DEF Rows
  <2>3. cand \in Candidate
    BY <2>2 DEF Candidate, Writer
  <2>4. \A r \in added : ValidateRelationship(w.configs, r)
    BY <1>2 DEF Rows
  <2>5. WellFormedBut(cand, w.origin)
    BY <1>2, <2>4, OwnedStateValid DEF WellFormedBut
  <2> HIDE DEF cand
  <2> QED BY <2>1, <2>3, <2>5
<1> QED BY <1>1, <1>2

(* Every prefix of an accepted import is well formed.                      *)
LEMMA PolicyCandidatesOK ==
    ASSUME NEW text \in Configs \cup {Malformed},
           NEW rows \in Seq(Relationships) \cup {Malformed}
    PROVE  LET cands == ApplyPolicyText(text, rows)
           IN  cands \in Seq(Candidate) /\ \A i \in 1..Len(cands) : WellFormed(cands[i])
<1> DEFINE guard == /\ text # Malformed /\ Compiles(text)
                    /\ rows # Malformed
                    /\ \A i \in 1..Len(rows) : ValidateRelationship(text, rows[i])
                    /\ \A i, j \in 1..Len(rows) : rows[i] = rows[j] => i = j
<1>1. CASE ~guard
  <2>1. ApplyPolicyText(text, rows) = <<>>
    BY <1>1 DEF ApplyPolicyText
  <2> QED BY <2>1
<1>2. CASE guard
  <2> DEFINE n == Batches(Len(rows)) + 1
             prefix(b) == {rows[i] : i \in {j \in 1..Len(rows) : j <= (b - 1) * ImportBatch}}
             cand(b) == [configs |-> text, rows |-> prefix(b)]
             cands == [b \in 1..n |-> cand(b)]
  <2>1. rows \in Seq(Relationships) /\ text \in Configs
    BY <1>2
  <2>2. n \in Nat
    <3>1. Len(rows) \in Nat /\ ImportBatch \in Nat /\ ImportBatch > 0
      BY <2>1, EngineConstants
    <3>2. Len(rows) + ImportBatch - 1 \in Nat
      BY <3>1
    <3>3. Batches(Len(rows)) \in Nat
      BY <3>1, <3>2 DEF Batches
    <3> QED BY <3>3
  <2>3. ApplyPolicyText(text, rows) = cands
    BY <1>2 DEF ApplyPolicyText
  <2>4. \A b \in 1..n : prefix(b) \subseteq Relationships
    BY <2>1
  <2>5. \A b \in 1..n : cand(b) \in Candidate
    BY <2>1, <2>4 DEF Candidate
  <2>6. \A b \in 1..n : WellFormed(cand(b))
    BY <1>2 DEF WellFormed
  <2>7. cands \in Seq(Candidate) /\ Len(cands) = n
    <3> HIDE DEF cand, n
    <3> QED BY <2>2, <2>5
  <2>8. \A b \in 1..Len(cands) : cands[b] = cand(b)
    BY <2>7
  <2> HIDE DEF cands, n, cand
  <2> QED BY <2>3, <2>6, <2>7, <2>8
<1> QED BY <1>1, <1>2

(* Whatever a command would publish is well formed but for rows of the     *)
(* file.                                                                   *)
LEMMA CandidatesOK ==
    ASSUME NEW w \in Writer, WriterOK(w), NEW cmd \in Commands
    PROVE  LET cands == Candidates(w, cmd)
           IN  /\ cands \in Seq(Candidate)
               /\ \A i \in 1..Len(cands) : WellFormedBut(cands[i], w.origin)
<1> DEFINE Good(cands) ==
        cands \in Seq(Candidate) /\ \A i \in 1..Len(cands) : WellFormedBut(cands[i], w.origin)
<1>0. Good(<<>>)
  OBVIOUS
<1>c. cmd \in Command
  BY EngineConstants
<1>w. w.configs \in Configs
  BY DEF Writer
<1>s. \A configs \in Configs : Good(SchemaCandidate(w, configs))
  BY SchemaCandidateOK, WellFormedWithout
<1>m. \A configs \in Configs : Good(ApplyNamespaceConfigs(w, configs))
  BY <1>w, <1>s, MergeConfigs DEF ApplyNamespaceConfigs
<1> HIDE DEF Good
<1>1. CASE cmd.op = "write"
  <2>1. cmd.muts \in Seq(Mutation) /\ cmd.pres \in SUBSET Precondition
    BY <1>c, <1>1 DEF Command
  <2>2. Candidates(w, cmd) = ApplyRelationshipMutations(w, cmd.muts, cmd.pres)
    BY <1>1 DEF Candidates
  <2> QED BY <2>1, <2>2, WriteCandidateOK
<1>2. CASE cmd.op = "applySchema"
  <2>1. cmd.text \in Configs \cup {Malformed}
    BY <1>c, <1>2 DEF Command
  <2>2. Candidates(w, cmd) = AddDsl(w, cmd.text)
    BY <1>2 DEF Candidates
  <2>3. Good(AddDsl(w, cmd.text))
    BY <1>0, <1>m, <2>1 DEF AddDsl
  <2> QED BY <2>2, <2>3 DEF Good
<1>3. CASE cmd.op = "replaceSchema"
  <2>1. cmd.text \in Configs \cup {Malformed}
    BY <1>c, <1>3 DEF Command
  <2>2. Candidates(w, cmd) = ReplaceDsl(w, cmd.text)
    BY <1>3 DEF Candidates
  <2>3. Good(ReplaceDsl(w, cmd.text))
    BY <1>0, <1>s, <2>1 DEF ReplaceDsl
  <2> QED BY <2>2, <2>3 DEF Good
<1>4. CASE cmd.op = "applyConfigs"
  <2>1. cmd.configs \in Configs
    BY <1>c, <1>4 DEF Command
  <2>2. Candidates(w, cmd) = ApplyNamespaceConfigs(w, cmd.configs)
    BY <1>4 DEF Candidates
  <2> QED BY <1>m, <2>1, <2>2 DEF Good
<1>5. CASE cmd.op = "deleteNamespace"
  <2>1. Candidates(w, cmd) = DeleteNamespace(w, cmd.ns)
    BY <1>5 DEF Candidates
  <2>2. Good(DeleteNamespace(w, cmd.ns))
    BY <1>0, <1>w, <1>s, RemoveNamespaceConfigs DEF DeleteNamespace
  <2> QED BY <2>1, <2>2 DEF Good
<1>6. CASE cmd.op = "deleteRelation"
  <2>1. Candidates(w, cmd) = DeleteRelation(w, cmd.ns, cmd.rel)
    BY <1>6 DEF Candidates
  <2>2. Good(DeleteRelation(w, cmd.ns, cmd.rel))
    BY <1>0, <1>w, <1>s, RemoveRelationConfigs DEF DeleteRelation, Defines
  <2> QED BY <2>1, <2>2 DEF Good
<1>7. CASE cmd.op = "policy"
  <2>1. cmd.text \in Configs \cup {Malformed} /\ cmd.rows \in Seq(Relationships) \cup {Malformed}
    BY <1>c, <1>7 DEF Command
  <2>2. Candidates(w, cmd) = ApplyPolicyText(cmd.text, cmd.rows)
    BY <1>7 DEF Candidates
  <2> QED BY <2>1, <2>2, PolicyCandidatesOK, WellFormedWithout
<1> QED
  BY <1>c, <1>1, <1>2, <1>3, <1>4, <1>5, <1>6, <1>7 DEF Command

(* Candidates become snapshots with the next revisions.                    *)
LEMMA SnapshotsOK ==
    ASSUME NEW last \in 0..MaxRevision, NEW cands \in Seq(Candidate),
           last + Len(cands) <= MaxRevision
    PROVE  LET snaps == Snapshots(last, cands)
           IN  /\ snaps \in Seq(Snapshot)
               /\ Len(snaps) = Len(cands)
               /\ \A i \in 1..Len(cands) :
                     /\ snaps[i].rev = last + i
                     /\ snaps[i].hash = SchemaHash(snaps[i].configs)
                     /\ snaps[i].configs = cands[i].configs
                     /\ snaps[i].rows = cands[i].rows
<1> DEFINE n == Len(cands)
           snap(i) == [rev |-> last + i, hash |-> SchemaHash(cands[i].configs),
                       configs |-> cands[i].configs, rows |-> cands[i].rows]
           snaps == [i \in 1..n |-> snap(i)]
<1>1. n \in Nat /\ MaxRevision \in Nat
  BY EngineConstants
<1>2. \A i \in 1..n : cands[i] \in Candidate
  BY ElementOfSeq
<1>3. \A i \in 1..n : cands[i].configs \in Configs /\ cands[i].rows \in SUBSET Relationships
  BY <1>2 DEF Candidate
<1>4. \A i \in 1..n : SchemaHash(cands[i].configs) \in Hashes
  BY <1>3, HashTotal
<1>5. \A i \in 1..n : last + i \in 1..MaxRevision
  BY <1>1
<1>6. \A i \in 1..n : snap(i) \in Snapshot
  BY <1>3, <1>4, <1>5 DEF Snapshot
<1>7. snaps = Snapshots(last, cands)
  BY DEF Snapshots
<1>8. snaps \in Seq(Snapshot) /\ Len(snaps) = n
  <2> HIDE DEF snap, n
  <2> QED BY <1>1, <1>6
<1>9. \A i \in 1..n :
         /\ snaps[i].rev = last + i
         /\ snaps[i].hash = SchemaHash(cands[i].configs)
         /\ snaps[i].configs = cands[i].configs
         /\ snaps[i].rows = cands[i].rows
  OBVIOUS
<1> HIDE DEF snaps, snap
<1>10. \A i \in 1..n : snaps[i].hash = SchemaHash(snaps[i].configs)
  BY <1>9
<1> QED BY <1>7, <1>8, <1>9, <1>10

(* Dropping the oldest snapshots keeps the newest ones in order.           *)
LEMMA RetainOK ==
    ASSUME NEW h \in Seq(Snapshot), NEW n \in Nat \ {0}
    PROVE  LET r == Retain(h, n)
           IN  /\ r \in Seq(Snapshot)
               /\ Len(r) = IF Len(h) > n THEN n ELSE Len(h)
               /\ \A i \in 1..Len(r) : r[i] = h[Len(h) - Len(r) + i]
<1>1. CASE Len(h) > n
  <2> DEFINE r == SubSeq(h, Len(h) - n + 1, Len(h))
  <2>1. Retain(h, n) = r
    BY <1>1 DEF Retain
  <2>2. \A i \in (Len(h) - n + 1)..Len(h) : h[i] \in Snapshot
    BY <1>1
  <2>3. /\ r \in Seq(Snapshot)
        /\ Len(r) = n
        /\ \A i \in 1..n : r[i] = h[Len(h) - n + 1 + i - 1]
    BY <1>1, <2>2, SubSeqProperties
  <2> HIDE DEF r
  <2> QED BY <1>1, <2>1, <2>3
<1>2. CASE ~(Len(h) > n)
  <2>1. Retain(h, n) = h
    BY <1>2 DEF Retain
  <2> QED BY <1>2, <2>1
<1> QED BY <1>1, <1>2

(* A successful command leaves the writer's state in order, moves its last *)
(* revision forward, and keeps of the old revisions only ones it retained. *)
LEMMA NextWriterOK ==
    ASSUME NEW w \in Writer, WriterOK(w), NEW cmd \in Commands, Succeeds(w, cmd)
    PROVE  LET n == NextWriter(w, cmd)
           IN  /\ n \in Writer /\ WriterOK(n) /\ n.schema
               /\ n.retained = w.retained /\ n.origin = w.origin /\ n.last > w.last
               /\ \A i \in 1..Len(n.history) : n.history[i].rev <= w.last =>
                     \E j \in 1..Len(w.history) : n.history[i] = w.history[j]
<1> DEFINE cands == Candidates(w, cmd)
           k == Len(cands)
           snaps == Snapshots(w.last, cands)
           base == IF cmd.op = "policy" THEN <<>> ELSE w.history
           all == base \o snaps
           h == Retain(all, w.retained)
           n == NextWriter(w, cmd)
<1>1. /\ cands \in Seq(Candidate) /\ cands # <<>> /\ w.last + k <= MaxRevision
      /\ \A i \in 1..k : WellFormedBut(cands[i], w.origin)
  BY CandidatesOK DEF Succeeds
<1>2. k \in Nat /\ k > 0 /\ MaxRevision \in Nat
  BY <1>1, EngineConstants
<1>3. /\ w.last \in 0..MaxRevision /\ w.history \in Seq(Snapshot)
      /\ w.retained \in Nat \ {0}
  BY DEF Writer
<1>4. /\ snaps \in Seq(Snapshot) /\ Len(snaps) = k
      /\ \A i \in 1..k :
            /\ snaps[i].rev = w.last + i
            /\ snaps[i].hash = SchemaHash(snaps[i].configs)
            /\ snaps[i].configs = cands[i].configs
            /\ snaps[i].rows = cands[i].rows
  BY <1>1, <1>3, SnapshotsOK
<1>5. \A i \in 1..k : WellFormedBut(snaps[i], w.origin)
  BY <1>1, <1>4 DEF WellFormedBut
<1>6. /\ base \in Seq(Snapshot)
      /\ \A i \in 1..Len(base) :
            /\ base[i] = w.history[i] /\ i \in 1..Len(w.history)
            /\ base[i].rev = w.last - Len(base) + i
            /\ WellFormedBut(base[i], w.origin)
            /\ base[i].hash = SchemaHash(base[i].configs)
  BY <1>3 DEF WriterOK
<1> HIDE DEF cands, k, snaps, base
<1>7. /\ all \in Seq(Snapshot) /\ Len(all) = Len(base) + k
      /\ \A i \in 1..Len(base) : all[i] = base[i]
      /\ \A i \in 1..k : all[Len(base) + i] = snaps[i]
  <2>1. /\ all \in Seq(Snapshot)
        /\ Len(all) = Len(base) + Len(snaps)
        /\ \A i \in 1..(Len(base) + Len(snaps)) :
              all[i] = IF i <= Len(base) THEN base[i] ELSE snaps[i - Len(base)]
    BY <1>4, <1>6, ConcatProperties
  <2> HIDE DEF all
  <2>2. Len(base) \in Nat
    BY <1>6
  <2>3. ASSUME NEW i \in 1..k PROVE all[Len(base) + i] = snaps[i]
    <3>1. Len(base) + i \in 1..(Len(base) + Len(snaps)) /\ ~(Len(base) + i <= Len(base))
      BY <1>2, <1>4, <2>2
    <3>2. (Len(base) + i) - Len(base) = i
      BY <1>2, <2>2
    <3> QED BY <2>1, <3>1, <3>2
  <2> QED BY <1>2, <1>4, <2>1, <2>2, <2>3
<1>8. \A i \in 1..Len(all) :
         /\ all[i].rev = w.last + k - Len(all) + i
         /\ WellFormedBut(all[i], w.origin)
         /\ all[i].hash = SchemaHash(all[i].configs)
         /\ all[i].rev <= w.last => \E j \in 1..Len(w.history) : all[i] = w.history[j]
  <2> TAKE i \in 1..Len(all)
  <2>0. Len(base) \in Nat /\ Len(all) = Len(base) + k /\ w.last \in Nat
    BY <1>3, <1>6, <1>7, EngineConstants
  <2>1. CASE i \in 1..Len(base)
    <3>1. all[i] = base[i] /\ base[i].rev = w.last - Len(base) + i
      BY <1>6, <1>7, <2>1
    <3>2. all[i].rev = w.last + k - Len(all) + i
      BY <1>2, <2>0, <3>1
    <3> QED BY <1>6, <2>1, <3>1, <3>2
  <2>2. CASE i \notin 1..Len(base)
    <3>1. PICK j \in 1..k : i = Len(base) + j
      <4>1. i - Len(base) \in 1..k
        BY <1>2, <1>6, <1>7, <2>2
      <4> QED BY <4>1, <1>6, <1>7
    <3>2. all[i] = snaps[j]
      BY <1>7, <3>1
    <3>3. all[i].rev = w.last + j
      BY <1>4, <3>2
    <3>4. w.last + j = w.last + k - Len(all) + i /\ ~(w.last + j <= w.last)
      BY <1>2, <2>0, <3>1
    <3>5. WellFormedBut(all[i], w.origin) /\ all[i].hash = SchemaHash(all[i].configs)
      BY <1>4, <1>5, <3>2
    <3> QED BY <3>3, <3>4, <3>5
  <2> QED BY <2>1, <2>2
<1> HIDE DEF all
<1>9. /\ h \in Seq(Snapshot)
      /\ Len(h) = IF Len(all) > w.retained THEN w.retained ELSE Len(all)
      /\ \A i \in 1..Len(h) : h[i] = all[Len(all) - Len(h) + i]
  BY <1>3, <1>7, RetainOK
<1> HIDE DEF h
<1>10. Len(h) \in Nat /\ Len(h) > 0 /\ Len(h) <= w.retained /\ Len(h) <= Len(all)
  BY <1>2, <1>3, <1>6, <1>7, <1>9
<1>11. \A i \in 1..Len(h) :
         /\ h[i].rev = w.last + k - Len(h) + i
         /\ WellFormedBut(h[i], w.origin)
         /\ h[i].hash = SchemaHash(h[i].configs)
         /\ h[i].rev <= w.last => \E j \in 1..Len(w.history) : h[i] = w.history[j]
  <2> TAKE i \in 1..Len(h)
  <2>1. Len(all) - Len(h) + i \in 1..Len(all)
    BY <1>7, <1>10
  <2>2. h[i] = all[Len(all) - Len(h) + i]
    BY <1>9
  <2>3. w.last + k - Len(all) + (Len(all) - Len(h) + i) = w.last + k - Len(h) + i
    <3>1. w.last \in Int /\ k \in Int /\ Len(all) \in Int /\ Len(h) \in Int /\ i \in Int
      BY <1>2, <1>3, <1>7, <1>10
    <3> QED BY <3>1
  <2> QED BY <1>8, <2>1, <2>2, <2>3
<1>12. snaps[k] = h[Len(h)]
  <2>1. h[Len(h)] = all[Len(all)]
    BY <1>7, <1>9, <1>10
  <2>2. all[Len(all)] = snaps[k]
    BY <1>2, <1>7
  <2> QED BY <2>1, <2>2
<1>13. snaps[k] \in Snapshot
  BY <1>2, <1>4
<1>14. n = [w EXCEPT !.configs = snaps[k].configs, !.schema = TRUE, !.rows = snaps[k].rows,
                    !.current = snaps[k], !.history = h, !.last = w.last + k]
  BY DEF NextWriter, cands, k, snaps, base, all, h
<1> HIDE DEF n
<1>15. /\ n.configs = snaps[k].configs /\ n.schema = TRUE /\ n.rows = snaps[k].rows
       /\ n.current = snaps[k] /\ n.history = h /\ n.last = w.last + k
       /\ n.retained = w.retained /\ n.origin = w.origin
  BY <1>14 DEF Writer
<1>16. n \in Writer
  <2>1. snaps[k].configs \in Configs /\ snaps[k].rows \in SUBSET Relationships
    BY <1>13 DEF Snapshot
  <2>2. w.last + k \in 0..MaxRevision
    BY <1>1, <1>2, <1>3 DEF k
  <2> QED BY <1>9, <1>13, <1>14, <2>1, <2>2 DEF Writer
<1>17. WriterOK(n)
  <2>1. n.history # <<>> /\ Len(n.history) <= n.retained
    BY <1>10, <1>15
  <2>2. n.last > 0
    BY <1>2, <1>3, <1>15
  <2>3. \A i \in 1..Len(n.history) :
           /\ n.history[i].rev = n.last - Len(n.history) + i
           /\ WellFormedBut(n.history[i], n.origin)
           /\ n.history[i].hash = SchemaHash(n.history[i].configs)
    <3>1. \A i \in 1..Len(h) : h[i].rev = n.last - Len(h) + i
      <4>1. \A i \in 1..Len(h) : h[i].rev = w.last + k - Len(h) + i
        BY <1>11
      <4>2. n.last = w.last + k
        BY <1>15
      <4>3. w.last \in Nat /\ k \in Nat /\ Len(h) \in Nat
        BY <1>2, <1>3, <1>10
      <4> QED BY <4>1, <4>2, <4>3
    <3>2. \A i \in 1..Len(h) :
             WellFormedBut(h[i], w.origin) /\ h[i].hash = SchemaHash(h[i].configs)
      BY <1>11
    <3>3. n.history = h /\ n.origin = w.origin
      BY <1>15
    <3> QED BY <3>1, <3>2, <3>3, Zenon
  <2>4. n.current \in Snapshot /\ n.current = n.history[Len(n.history)]
    BY <1>12, <1>13, <1>15
  <2> QED BY <1>15, <2>1, <2>2, <2>3, <2>4 DEF WriterOK
<1>18. n.last > w.last
  BY <1>2, <1>3, <1>15
<1> QED BY <1>11, <1>15, <1>16, <1>17, <1>18 DEF n

-----------------------------------------------------------------------------
(* What readers may hold.                                                  *)

(* A snapshot that was published as the revision it names.                 *)
Genuine(snap, com) ==
    /\ snap.hash = SchemaHash(snap.configs)
    /\ snap.rev \in DOMAIN com /\ com[snap.rev] = snap

(* A state published when the last revision was at most `last`.            *)
StateOK(s, retained, last, com) ==
    /\ s.last <= last
    /\ IF s.last = 0
       THEN s.history = <<>> /\ s.latest = NoSnapshot
       ELSE /\ s.history # <<>> /\ Len(s.history) <= retained
            /\ \A i \in 1..Len(s.history) : s.history[i].rev = s.last - Len(s.history) + i
            /\ s.latest = s.history[Len(s.history)]
    /\ \A i \in 1..Len(s.history) : Genuine(s.history[i], com)

(* Every snapshot on record is well formed but for rows of the file.       *)
RecordOK(com, file) == \A r \in DOMAIN com : WellFormedBut(com[r], file)

ComType(com, last) ==
    /\ DOMAIN com \subseteq 1..last
    /\ com \in [DOMAIN com -> Snapshot]

Extends(com2, com) ==
    DOMAIN com \subseteq DOMAIN com2 /\ \A r \in DOMAIN com : com2[r] = com[r]

(* Later publications do not disturb a state a reader already holds.       *)
LEMMA StateStable ==
    ASSUME NEW s, NEW retained, NEW last \in Nat, NEW last2 \in Nat, NEW com, NEW com2,
           s.last \in Nat, StateOK(s, retained, last, com), last <= last2, Extends(com2, com)
    PROVE  StateOK(s, retained, last2, com2)
<1>1. s.last <= last2
  BY DEF StateOK
<1>2. \A i \in 1..Len(s.history) : Genuine(s.history[i], com2)
  BY DEF StateOK, Genuine, Extends
<1> QED BY <1>1, <1>2 DEF StateOK

(* What an orderly writer publishes is a state readers may hold.           *)
LEMMA WriterStateOK ==
    ASSUME NEW w \in Writer, WriterOK(w), NEW com,
           \A i \in 1..Len(w.history) : Genuine(w.history[i], com)
    PROVE  StateOK(EngineState(w), w.retained, w.last, com)
<1>1. w.last \in Nat
  BY EngineConstants DEF Writer
<1> DEFINE s == EngineState(w)
<1>e. s.latest = w.current /\ s.history = w.history /\ s.last = w.last
  BY DEF EngineState
<1> HIDE DEF s
<1>2. CASE w.schema
  <2>1. /\ w.last > 0 /\ w.history # <<>> /\ Len(w.history) <= w.retained
        /\ w.current = w.history[Len(w.history)]
    BY <1>2 DEF WriterOK
  <2>2. \A i \in 1..Len(w.history) : w.history[i].rev = w.last - Len(w.history) + i
    BY <1>2 DEF WriterOK
  <2>3. StateOK(s, w.retained, w.last, com)
    <3>1. s.last <= w.last /\ s.last # 0
      BY <1>1, <1>e, <2>1
    <3> QED BY <1>e, <2>1, <2>2, <3>1 DEF StateOK
  <2> QED BY <2>3 DEF s
<1>3. CASE ~w.schema
  BY <1>1, <1>3 DEF WriterOK, StateOK, EngineState
<1> QED BY <1>2, <1>3 DEF s

(* What resolving a request on a held state can return.                    *)
LEMMA ResolveOK ==
    ASSUME NEW s \in State, NEW retained, NEW last, NEW com,
           StateOK(s, retained, last, com), NEW request \in Request
    PROVE  LET result == Resolve(s, request)
           IN  /\ result \in Result /\ result.kind # "token"
               /\ result.kind = "snapshot" =>
                     result.snap.rev <= s.last /\ Genuine(result.snap, com)
               /\ request.mode = "exact" /\ s.last > 0 =>
                     LET t == request.token
                     IN  /\ result.kind = "snapshot" =>
                               /\ t.own /\ result.snap.rev = t.rev /\ result.snap.hash = t.hash
                         /\ /\ t.own /\ t.rev \in DOMAIN com /\ t.hash = com[t.rev].hash
                            /\ t.rev <= s.last
                            => result \in {Ok(com[t.rev]), Error("RevisionExpired")}
<1> DEFINE h == s.history
           result == Resolve(s, request)
<1>1. /\ s.last \in Nat /\ h \in Seq(Snapshot) /\ Len(h) \in Nat
  BY EngineConstants DEF State
<1>e. \A e \in ReadErrors : Error(e) \in Result /\ Error(e).kind = "error" /\ Error(e).error = e
  BY DEF Error, Result
<1>s. \A snap \in Snapshot :
         Ok(snap) \in Result /\ Ok(snap).kind = "snapshot" /\ Ok(snap).snap = snap
  BY DEF Ok, Result
<1>r. {"SchemaRequired", "WrongDatastore", "RevisionUnavailable", "RevisionExpired",
       "SchemaHashMismatch"} = ReadErrors
  BY DEF ReadErrors
<1>2. CASE s.last = 0
  <2>1. result = Error("SchemaRequired")
    BY <1>2 DEF Resolve
  <2> HIDE DEF result
  <2>2. result.kind = "error" /\ result \in Result
    BY <1>e, <1>r, <2>1
  <2> QED BY <1>1, <1>2, <2>2 DEF result
<1>3. CASE s.last # 0
  <2>1. /\ h # <<>> /\ Len(h) > 0
        /\ \A i \in 1..Len(h) : /\ h[i] \in Snapshot
                               /\ h[i].rev = s.last - Len(h) + i
                               /\ Genuine(h[i], com)
        /\ s.latest = h[Len(h)]
    BY <1>1, <1>3 DEF StateOK
  <2>2. CASE request.mode = "latest"
    <3>1. result = Ok(h[Len(h)])
      BY <1>3, <2>1, <2>2 DEF Resolve
    <3> HIDE DEF result
    <3>2. h[Len(h)] \in Snapshot /\ h[Len(h)].rev = s.last /\ Genuine(h[Len(h)], com)
      BY <1>1, <2>1
    <3>3. /\ result \in Result /\ result.kind = "snapshot" /\ result.snap = h[Len(h)]
      BY <1>s, <3>1, <3>2
    <3> QED BY <1>1, <2>2, <3>2, <3>3 DEF result
  <2>3. CASE request.mode = "exact"
    <3> DEFINE t == request.token
               found == {i \in 1..Len(h) : h[i].rev = t.rev}
               at == CHOOSE i \in found : \A j \in found : i <= j
    <3>1. t \in Token /\ t.rev \in Nat /\ result = ResolveToken(s, t)
      BY <1>3, <2>3, EngineConstants DEF Request, Resolve, Token
    <3>2. \A i, j \in found : i = j
      BY <1>1, <2>1
    <3>3. CASE ~t.own \/ t.rev > s.last \/ t.rev < h[1].rev
      <4>1. \/ ~t.own /\ result = Error("WrongDatastore")
            \/ t.rev > s.last /\ result = Error("RevisionUnavailable")
            \/ result = Error("RevisionExpired")
        BY <3>1, <3>3 DEF ResolveToken
      <4>2. result \in Result /\ result.kind = "error"
        <5> HIDE DEF result
        <5> QED BY <1>e, <1>r, <4>1
      <4>3. t.own /\ t.rev <= s.last => result = Error("RevisionExpired")
        BY <1>1, <3>1, <4>1
      <4> HIDE DEF result
      <4> QED BY <4>2, <4>3 DEF result
    <3>4. CASE t.own /\ ~(t.rev > s.last) /\ ~(t.rev < h[1].rev)
      <4> DEFINE k == t.rev - s.last + Len(h)
      <4>1. h[1].rev = s.last - Len(h) + 1 /\ t.rev <= s.last
        BY <1>1, <2>1, <3>1, <3>4
      <4>2. k \in 1..Len(h)
        BY <1>1, <2>1, <3>1, <3>4, <4>1
      <4>3. h[k].rev = t.rev
        <5>1. h[k].rev = s.last - Len(h) + k
          BY <2>1, <4>2
        <5>2. s.last - Len(h) + k = t.rev
          BY <1>1, <3>1
        <5> QED BY <5>1, <5>2
      <4>4. k \in found
        BY <4>2, <4>3
      <4>5. at = k
        <5>1. \A i \in found : i = k
          BY <3>2, <4>4
        <5> HIDE DEF found, k
        <5>2. k \in Nat
          BY <4>2
        <5>3. \A j \in found : k <= j
          BY <5>1, <5>2
        <5> QED BY <4>4, <5>1, <5>3
      <4>6. result = IF h[k].hash # t.hash THEN Error("SchemaHashMismatch") ELSE Ok(h[k])
        BY <3>1, <3>4, <4>4, <4>5 DEF ResolveToken
      <4> HIDE DEF result, k, found, at
      <4>7. h[k] \in Snapshot /\ Genuine(h[k], com) /\ com[t.rev] = h[k]
        BY <2>1, <4>2, <4>3 DEF Genuine
      <4>8. CASE h[k].hash # t.hash
        <5>1. result \in Result /\ result.kind = "error"
          BY <1>e, <1>r, <4>6, <4>8
        <5> QED BY <4>7, <4>8, <5>1 DEF result
      <4>9. CASE h[k].hash = t.hash
        <5>1. result = Ok(h[k]) /\ result \in Result /\ result.kind = "snapshot" /\ result.snap = h[k]
          BY <1>s, <4>6, <4>7, <4>9
        <5>2. result.snap.rev = t.rev /\ result.snap.hash = t.hash /\ Genuine(result.snap, com)
          BY <4>3, <4>7, <4>9, <5>1
        <5>3. result = Ok(com[t.rev])
          BY <4>7, <5>1
        <5> QED BY <3>4, <4>1, <5>1, <5>2, <5>3 DEF result
      <4> QED BY <4>8, <4>9
    <3> QED BY <3>3, <3>4
  <2> QED BY <2>2, <2>3 DEF Request
<1> QED BY <1>2, <1>3

=============================================================================
