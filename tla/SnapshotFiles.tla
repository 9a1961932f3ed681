---------------------------- MODULE SnapshotFiles ----------------------------
(***************************************************************************)
(* Saving and loading snapshot files (src/src/snapshot.rs) at one path.    *)
(*                                                                         *)
(* An uncompressed save writes a temporary file, named after its process   *)
(* and the revision it saves, and renames it over the path.  A compressed  *)
(* save writes the path itself.  A load samples the length of the file,    *)
(* reads it piece by piece and then checks what it has read.  Writes reach *)
(* the file in chunks: a head (header and section directory), the body,    *)
(* and a footer with the digest of all before it; a compressed file is one *)
(* frame in two chunks.  A process may crash between any two steps; its    *)
(* files stay as they are.                                                 *)
(***************************************************************************)
EXTENDS SnapshotFormat

CONSTANTS Savers, Loaders,
          ProcessOf,      \* the process of each saver
          Published,      \* a sequence of snapshots: revision, rels, schema, large
          Foreign,        \* files that something else wrote
          SaveOptions,    \* a sequence: profile, compression, indexes, level
          LoadOptions,    \* compression, profile, validation, integrity, required, max
          Levels,         \* zstd::compression_level_range
          Inodes,
          MaxSaves        \* bound: how many saves may begin

Processes == {ProcessOf[s] : s \in Savers}

(* What a save refuses before it writes anything.                          *)
Supported(snapshot, options) ==
    /\ options.indexes
    /\ options.compression = "zstd" => options.level \in Levels
    /\ ~snapshot.large

(* What a file may hold: a snapshot saved with options that support it, or *)
(* the one foreign file of a behaviour.                                    *)
SavedAs(n, o) == <<n, o>>
SnapshotOf(x) == Published[x[1]]
OptionsOf(x) == SaveOptions[x[2]]
SavedContents ==
    {x \in {SavedAs(n, o) : n \in DOMAIN Published, o \in DOMAIN SaveOptions} :
        Supported(SnapshotOf(x), OptionsOf(x))}
Saved(x) == x \in SavedContents
NoContent == <<0, 0>>
ForeignFile == <<0, 1>>
Unverified == <<0, 2>>
Contents == SavedContents \cup {ForeignFile}

(* What save_snapshot_file encodes.                                        *)
SavedArtifact(x) ==
    Encode(SnapshotOf(x).rels, SnapshotOf(x).revision, SnapshotOf(x).schema,
           OptionsOf(x).profile, OptionsOf(x).compression = "none")

Compression(x) == IF Saved(x) THEN OptionsOf(x).compression ELSE "none"

Validations == {"full", "trusted"}

(* The saved files, each with the validations that accept it.              *)
SaveReads == {<<x, v>> : x \in SavedContents, v \in Validations}
SavedDecodes == {r \in SaveReads : Decodes(SavedArtifact(r[1]), r[2])}

(* A file is a head, a body and a footer; compressed it is a frame of two. *)
PlainLen == 3
FileLen(x) == IF Compression(x) = "zstd" THEN 2 ELSE PlainLen

Piece(x, i) == [of |-> x, part |-> i]
FileOf(x) == [i \in 1..FileLen(x) |-> Piece(x, i)]
Hole == Piece(NoContent, 0)

NoFile == 0
NoOptions == [required |-> "none"]
Path == <<"path", 0>>
TmpNames == Processes \X {Published[n].revision : n \in DOMAIN Published}

(* Revisions start at 1, a snapshot has a relationship once, and one that  *)
(* is not too large numbers its rows and its symbols in four bytes.        *)
ASSUME SnapshotConstants ==
    /\ 0 \notin DOMAIN Published
    /\ \A n \in DOMAIN Published :
          /\ Published[n].revision \in Nat \ {0}
          /\ Published[n].rels \in Seq([1..6 -> Names \cup {NoName}])
          /\ IsInjective(Published[n].rels)
          /\ \A i \in DOMAIN Published[n].rels : IsRelationship(Published[n].rels[i])
          /\ Published[n].large
             \/ (Len(Published[n].rels) < Limit /\ Len(Symbols(Published[n].rels)) < Limit)
    /\ \A a \in Foreign : Raw(a)
    /\ \A o \in DOMAIN SaveOptions : /\ SaveOptions[o].compression \in {"none", "zstd"}
                                      /\ SaveOptions[o].profile \in Profiles
    /\ \A o \in LoadOptions : /\ o.compression \in {"none", "zstd"}
                              /\ o.validation \in Validations
                              /\ o.integrity \in {"checksum", "external"}
                              /\ o.max \in Nat
    /\ Inodes # {} /\ NoFile \notin Inodes
    /\ MaxSaves \in Nat

VARIABLES dir,      \* names to inodes
          data,     \* inodes to chunks
          saver,    \* save calls
          loader,   \* load calls
          foreign,  \* the foreign file, if there is one
          left,     \* how many more saves may begin
          torn      \* ghost: inodes that a save wrote where others could see it

vars == <<dir, data, saver, loader, foreign, left, torn>>

(* A saver without a file, which saves x.                                  *)
SaverOf(pc, x, outcome) == [pc |-> pc, of |-> x, inode |-> NoFile, at |-> 0, outcome |-> outcome]
IdleSaver == SaverOf("idle", NoContent, "none")

IdleLoader == [pc |-> "idle", opts |-> NoOptions, inode |-> NoFile, len |-> 0, got |-> <<>>,
               opened |-> NoContent, read |-> <<>>, result |-> "none", store |-> NoContent]

(* snapshot_tmp_path.                                                      *)
TmpOf(s) == <<ProcessOf[s], SnapshotOf(saver[s].of).revision>>
InPlace(s) == Compression(saver[s].of) = "zstd"
Target(s) == IF InPlace(s) THEN Path ELSE TmpOf(s)
Writing(s) == saver[s].pc = "write"

Used(d, sv, ld) ==
    {d[n] : n \in DOMAIN d} \cup {sv[s].inode : s \in Savers} \cup {ld[l].inode : l \in Loaders}

(* An inode that nothing refers to is freed.                               *)
Freed(d, c, sv, ld) == [i \in Inodes |-> IF i \in Used(d, sv, ld) THEN c[i] ELSE <<>>]

(* The inode of a name, a free one if the name is new.                     *)
Free == Inodes \ Used(dir, saver, loader)
InodeAt(name) == IF dir[name] = NoFile THEN CHOOSE i \in Free : TRUE ELSE dir[name]

(* The path is free, or holds a file that was saved before or a foreign    *)
(* one.  Saves begin on the free path and over one of the saved files.     *)
Init ==
    \E x \in Contents \cup {NoContent}, first \in {CHOOSE i \in Inodes : TRUE} :
        /\ dir = [n \in TmpNames \cup {Path} |->
                     IF n = Path /\ x # NoContent THEN first ELSE NoFile]
        /\ data = [i \in Inodes |-> IF i = first /\ x # NoContent THEN FileOf(x) ELSE <<>>]
        /\ saver = [s \in Savers |-> IdleSaver]
        /\ loader = [l \in Loaders |-> IdleLoader]
        /\ foreign \in IF x = ForeignFile THEN Foreign ELSE {NoContent}
        /\ left = IF x = SavedAs(1, 1) THEN MaxSaves ELSE IF x = NoContent THEN 1 ELSE 0
        /\ torn = {}

-----------------------------------------------------------------------------
(* save_snapshot_file.                                                     *)

(* Refused before anything is written.                                     *)
SaveRefused(s, n, o) ==
    /\ saver[s].pc = "idle" /\ left > 0
    /\ ~Supported(Published[n], SaveOptions[o])
    /\ left' = left - 1
    /\ saver' = [saver EXCEPT ![s].outcome = "err"]
    /\ UNCHANGED <<dir, data, loader, foreign, torn>>

BeginSave(s, n, o) ==
    /\ saver[s].pc = "idle" /\ left > 0
    /\ Supported(Published[n], SaveOptions[o])
    /\ left' = left - 1
    /\ saver' = [saver EXCEPT ![s] = SaverOf("create", SavedAs(n, o), "none")]
    /\ UNCHANGED <<dir, data, loader, foreign, torn>>

(* Ghost: a loader that has the file open no longer has what it opened.    *)
Disturbed(i) ==
    [l \in Loaders |-> IF loader[l].inode = i THEN [loader[l] EXCEPT !.opened = NoContent] ELSE loader[l]]

(* Another save writes a file of that name.                                *)
SharesTarget(s) == \E t \in Savers \ {s} : Writing(t) /\ Target(t) = Target(s)

(* Mutant: an uncompressed save creates the path itself.                   *)
CreateInPlace(s) ==
    /\ saver[s].pc = "create"
    /\ LET i == InodeAt(Path)
       IN  /\ dir' = [dir EXCEPT ![Path] = i]
           /\ data' = [data EXCEPT ![i] = <<>>]
           /\ saver' = [saver EXCEPT ![s].pc = "write", ![s].inode = i]
           /\ loader' = Disturbed(i)
    /\ UNCHANGED <<foreign, left, torn>>

(* File::create: a new file, or the one of that name cut to nothing.  If   *)
(* there is no room for a new one then the save fails.                     *)
Create(s) ==
    /\ saver[s].pc = "create"
    /\ dir[Target(s)] # NoFile \/ Free # {}
    /\ LET i == InodeAt(Target(s))
       IN  /\ dir' = [dir EXCEPT ![Target(s)] = i]
           /\ data' = [data EXCEPT ![i] = <<>>]
           /\ saver' = [saver EXCEPT ![s].pc = "write", ![s].inode = i]
           /\ loader' = Disturbed(i)
           /\ torn' = IF InPlace(s) \/ SharesTarget(s) THEN torn \cup {i} ELSE torn \ {i}
    /\ UNCHANGED <<foreign, left>>

(* A chunk at the saver's own offset; a gap before it reads as zeros.      *)
Put(chunks, at, chunk) ==
    [i \in 1..Max({at, Len(chunks)}) |->
        IF i = at THEN chunk ELSE IF i <= Len(chunks) THEN chunks[i] ELSE Hole]

(* write_uncompressed_snapshot_file_inner, fs::write.                      *)
Write(s) ==
    /\ Writing(s) /\ saver[s].at < FileLen(saver[s].of)
    /\ LET at == saver[s].at + 1
       IN  /\ data' = [data EXCEPT ![saver[s].inode] = Put(@, at, Piece(saver[s].of, at))]
           /\ saver' = [saver EXCEPT ![s].at = at]
    /\ loader' = Disturbed(saver[s].inode)
    /\ UNCHANGED <<dir, foreign, left, torn>>

Written(s) == Writing(s) /\ saver[s].at = FileLen(saver[s].of)

(* Mutant: the file stays open.                                            *)
ReturnOpen(s, outcome) ==
    saver' = [saver EXCEPT ![s] = [SaverOf("idle", NoContent, outcome) EXCEPT !.inode = saver[s].inode]]

Return(s, outcome) == saver' = [saver EXCEPT ![s] = SaverOf("idle", NoContent, outcome)]

(* fs::rename: the temporary name may have been taken away.                *)
Rename(s) ==
    /\ Written(s) /\ ~InPlace(s)
    /\ IF dir[TmpOf(s)] = NoFile
       THEN dir' = dir /\ Return(s, "err")
       ELSE dir' = [dir EXCEPT ![Path] = dir[TmpOf(s)], ![TmpOf(s)] = NoFile] /\ Return(s, "ok")
    /\ data' = Freed(dir', data, saver', loader)
    /\ UNCHANGED <<loader, foreign, left, torn>>

(* A compressed save is done when its last byte is written.                *)
FinishInPlace(s) ==
    /\ Written(s) /\ InPlace(s)
    /\ Return(s, "ok")
    /\ data' = Freed(dir, data, saver', loader)
    /\ UNCHANGED <<dir, loader, foreign, left, torn>>

(* An I/O error at any step.  The temporary name is removed, or removing   *)
(* it fails too and nobody is told; a compressed file stays as it is.      *)
SaveFails(s) ==
    /\ saver[s].pc \in {"create", "write"}
    /\ Return(s, "err")
    /\ dir' \in {dir} \cup (IF InPlace(s) THEN {} ELSE {[dir EXCEPT ![TmpOf(s)] = NoFile]})
    /\ data' = Freed(dir', data, saver', loader)
    /\ UNCHANGED <<loader, foreign, left, torn>>

(* A process dies in the middle of its saves.                              *)
Crash(p) ==
    /\ \E s \in Savers : ProcessOf[s] = p /\ saver[s].pc # "idle"
    /\ saver' = [s \in Savers |-> IF ProcessOf[s] = p THEN IdleSaver ELSE saver[s]]
    /\ data' = Freed(dir, data, saver', loader)
    /\ UNCHANGED <<dir, loader, foreign, left, torn>>

-----------------------------------------------------------------------------
(* load_snapshot_file.                                                     *)

(* validate_load_options.                                                  *)
OptionsOK(o) ==
    /\ o.validation = "trusted" => o.profile = "fast"
    /\ o.integrity = "external" => o.validation = "trusted"

(* open_capped_file.                                                       *)
OpenFails(o) ==
    \/ ~OptionsOK(o)
    \/ dir[Path] = NoFile
    \/ dir[Path] # NoFile /\ Len(data[dir[Path]]) > o.max

Finished(o, opened, read, result, x) ==
    [pc |-> "done", opts |-> o, inode |-> NoFile, len |-> 0, got |-> <<>>,
     opened |-> opened, read |-> read, result |-> result, store |-> x]

LoadRefused(l, o) ==
    /\ loader[l].pc = "idle"
    /\ OpenFails(o)
    /\ loader' = [loader EXCEPT ![l] = Finished(NoOptions, NoContent, <<>>, "refused", NoContent)]
    /\ UNCHANGED <<dir, data, saver, foreign, left, torn>>

(* The whole content that a sequence of chunks is, if it is one.           *)
WholeFile(chunks) ==
    IF chunks # <<>> /\ chunks[1] # Hole /\ chunks = FileOf(chunks[1].of)
    THEN chunks[1].of ELSE NoContent

Open(l, o) ==
    /\ loader[l].pc = "idle"
    /\ ~OpenFails(o)
    /\ LET i == dir[Path]
       IN  loader' = [loader EXCEPT ![l] =
               [pc |-> "read", opts |-> o, inode |-> i, len |-> Len(data[i]), got |-> <<>>,
                opened |-> WholeFile(data[i]), read |-> <<>>, result |-> "none", store |-> NoContent]]
    /\ UNCHANGED <<dir, data, saver, foreign, left, torn>>

AtEnd(l) == Len(loader[l].got) >= Min({loader[l].len, Len(data[loader[l].inode])})

(* File::take(len), read piece by piece.                                   *)
Read(l) ==
    /\ loader[l].pc = "read" /\ ~AtEnd(l)
    /\ loader' = [loader EXCEPT ![l].got = Append(@, data[loader[l].inode][Len(@) + 1])]
    /\ UNCHANGED <<dir, data, saver, foreign, left, torn>>

(* Mutant: the digest leaves out the last section.                         *)
DigestPartial(got) ==
    \E x \in {got[Len(got)].of} : /\ got[Len(got)] = Piece(x, PlainLen)
                                  /\ \A i \in 1..(Len(got) - 2) : got[i] = Piece(x, i)

(* validate_footer: the last chunk is the digest of all before it.         *)
DigestOK(got) ==
    \E x \in {got[Len(got)].of} : /\ got[Len(got)] = Piece(x, PlainLen)
                                  /\ \A i \in 1..(Len(got) - 1) : got[i] = Piece(x, i)

(* parse_header, validate_footer.  What an unverified mixture of contents  *)
(* parses to is not known.                                                 *)
ParsePlain(got, o) ==
    LET x == got[1].of
        whole == \A i \in 1..(Len(got) - 1) : got[i] = Piece(x, i)
    IN  IF got = <<>> \/ got[1] = Hole THEN {NoContent}
        ELSE IF got[1] # Piece(x, 1) \/ Compression(x) # "none" \/ Len(got) # PlainLen THEN {NoContent}
        ELSE IF o.integrity = "checksum" THEN IF DigestOK(got) THEN {x} ELSE {NoContent}
        ELSE IF whole THEN {x} ELSE {NoContent, Unverified}

(* decode_zstd_bounded: a whole frame gives the saved payload, anything    *)
(* else an error or a payload whose digest is wrong.                       *)
ParseZstd(got, o) ==
    LET x == WholeFile(got)
    IN  IF x # NoContent
        THEN IF Compression(x) = "zstd" /\ PlainLen <= o.max THEN {x} ELSE {NoContent}
        ELSE IF o.integrity = "external" THEN {NoContent, Unverified} ELSE {NoContent}

(* read_capped_file, which notices a file that shrank, and                 *)
(* read_decode_zstd_payload, which does not.                               *)
Parsed(got, len, o) ==
    IF o.compression = "zstd" THEN ParseZstd(got, o)
    ELSE IF Len(got) # len THEN {NoContent}
    ELSE ParsePlain(got, o)

(* parse_reader, and the decoders after it.                                *)
Loads(x, o) ==
    IF Saved(x) THEN Satisfies(OptionsOf(x).profile, o.required) /\ <<x, o.validation>> \in SavedDecodes
    ELSE Satisfies(foreign.profile, o.required) /\ Decodes(foreign, o.validation)

Done(l, result, x) ==
    [loader EXCEPT ![l] = Finished(loader[l].opts, loader[l].opened, loader[l].got, result, x)]

(* load_snapshot_file_inner, once the file is read.                        *)
Decode(l) ==
    /\ loader[l].pc = "read" /\ AtEnd(l)
    /\ \E x \in Parsed(loader[l].got, loader[l].len, loader[l].opts) :
          loader' = IF x = NoContent THEN Done(l, "refused", NoContent)
                    ELSE IF x = Unverified THEN Done(l, "unverified", NoContent)
                    ELSE IF Loads(x, loader[l].opts) THEN Done(l, "loaded", x)
                    ELSE Done(l, "refused", NoContent)
    /\ data' = Freed(dir, data, saver, loader')
    /\ UNCHANGED <<dir, saver, foreign, left, torn>>

Forget(l) ==
    /\ loader[l].pc = "done"
    /\ loader' = [loader EXCEPT ![l] = IdleLoader]
    /\ UNCHANGED <<dir, data, saver, foreign, left, torn>>

Next ==
    \/ \E s \in Savers, n \in DOMAIN Published, o \in DOMAIN SaveOptions :
          SaveRefused(s, n, o) \/ BeginSave(s, n, o)
    \/ \E s \in Savers : Create(s) \/ Write(s) \/ Rename(s) \/ FinishInPlace(s) \/ SaveFails(s)
    \/ \E p \in Processes : Crash(p)
    \/ \E l \in Loaders, o \in LoadOptions : LoadRefused(l, o) \/ Open(l, o)
    \/ \E l \in Loaders : Read(l) \/ Decode(l) \/ Forget(l)

Spec == Init /\ [][Next]_vars

-----------------------------------------------------------------------------
(* Properties.                                                             *)

(* Types, and how the calls relate to the files: a saver that writes has   *)
(* written a prefix, and an idle call holds no file.                       *)
TypeOK ==
    /\ dir \in [TmpNames \cup {Path} -> Inodes \cup {NoFile}]
    /\ \A i \in Inodes : \A j \in DOMAIN data[i] :
          data[i][j] = Hole \/ (data[i][j].of \in Contents /\ data[i][j].part = j)
    /\ \A s \in Savers :
          /\ saver[s].pc \in {"idle", "create", "write"}
          /\ saver[s].outcome \in {"none", "ok", "err"}
          /\ Writing(s) <=> saver[s].inode \in Inodes
          /\ ~Writing(s) => saver[s].inode = NoFile
          /\ saver[s].pc # "idle" => saver[s].at \in 0..FileLen(saver[s].of)
    /\ \A l \in Loaders :
          /\ loader[l].result \in {"none", "refused", "unverified", "loaded"}
          /\ loader[l].pc = "read" <=> loader[l].inode \in Inodes
          /\ Len(loader[l].got) <= loader[l].len
    /\ left \in Nat
    /\ torn \subseteq Inodes

(* A load that verified the digest returns the revision and the            *)
(* relationships of one snapshot that was saved, or one of the foreign     *)
(* files, whole.  It never returns a mixture, also when it read while      *)
(* savers wrote in place, shared a temporary file or crashed; and unless   *)
(* the very file it had open was written it returns what was at the path   *)
(* when it was opened, whatever was renamed over it since.                 *)
SameRelationships(store, snapshot) ==
    store.revision = snapshot.revision /\ RowNames(store) = snapshot.rels

ReadsBack ==
    {r \in SavedDecodes : SameRelationships(Loaded(SavedArtifact(r[1]), r[2]), SnapshotOf(r[1]))}

LoadedWasSaved ==
    \A l \in Loaders :
        loader[l].result = "loaded" /\ loader[l].opts.integrity = "checksum" =>
            /\ Saved(loader[l].store) => <<loader[l].store, loader[l].opts.validation>> \in ReadsBack
            /\ FileOf(loader[l].store) = loader[l].read
            /\ loader[l].opened # NoContent => loader[l].opened = loader[l].store

(* A saved file can be read: if the path held a complete saved file when   *)
(* it was opened and nobody wrote that file since, then a load whose       *)
(* options fit it succeeds, also if it is replaced meanwhile, and the      *)
(* loaded store answers every query as the saved snapshot would, with full *)
(* and with trusted validation, compressed or not.                         *)
Fits(o, x) ==
    /\ OptionsOK(o)
    /\ o.compression = Compression(x)
    /\ o.max >= PlainLen
    /\ Satisfies(OptionsOf(x).profile, o.required)

AnswersAsSaved ==
    {r \in SavedDecodes : AnswersExactly(Loaded(SavedArtifact(r[1]), r[2]), SnapshotOf(r[1]).rels)}

SavedLoads ==
    \A l \in Loaders :
        LET o == loader[l].opts x == loader[l].opened
        IN  loader[l].pc = "done" /\ Saved(x) /\ Fits(o, x) =>
              /\ loader[l].result = "loaded"
              /\ <<loader[l].store, o.validation>> \in AnswersAsSaved

(* What the format promises: each saved file decodes to the                *)
(* relationships that were saved, and answers as they do.                  *)
FormatReadsBack == SaveReads \subseteq ReadsBack \cap AnswersAsSaved

(* "Revalidate all semantic row/index invariants": a store that was loaded *)
(* with full validation holds each of its relationships once, and its      *)
(* indexes find exactly them, whoever wrote the file.                      *)
SelfConsistent(store) ==
    LET rels == RowNames(store)
    IN  IsInjective(rels) /\ AnswersExactly(store, rels)

SavedConsistent == {r \in SavedDecodes : SelfConsistent(Loaded(SavedArtifact(r[1]), r[2]))}

FullLoadExact ==
    \A l \in Loaders :
        loader[l].result = "loaded" /\ loader[l].opts.validation = "full" =>
            IF Saved(loader[l].store) THEN <<loader[l].store, "full">> \in SavedConsistent
            ELSE SelfConsistent(Loaded(foreign, "full"))

(* Uncompressed saves are atomic: unless a compressed save wrote the file  *)
(* at the path in place, or two saves wrote under one temporary name, the  *)
(* content of the path changes only to a complete saved file, also when    *)
(* savers fail or crash and leave temporary files behind; and the save     *)
(* that reports success has put its own file there.                        *)
Content(d, c) == IF d[Path] = NoFile THEN <<>> ELSE c[d[Path]]

SavesAreAtomic ==
    [][dir'[Path] \notin torn' =>
         /\ Content(dir', data') # Content(dir, data) =>
               Saved(WholeFile(Content(dir', data')))
         /\ \A s \in Savers :
               saver[s].pc # "idle" /\ ~InPlace(s) /\ saver'[s].outcome = "ok" =>
                   Content(dir', data') = FileOf(saver[s].of)]_vars

=============================================================================
