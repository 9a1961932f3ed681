------------------------ MODULE SnapshotFilesProofs ------------------------
(***************************************************************************)
(* What holds of saves and loads for any savers, loaders, processes, files *)
(* and options: types, the atomicity of uncompressed saves, that a load    *)
(* returns one whole file, that full validation makes the store exact, and *)
(* that a saved file decodes to what was saved.                            *)
(***************************************************************************)
EXTENDS SnapshotFiles, SequenceTheorems, FiniteSetTheorems, WellFoundedInduction, TLAPS

Files == TmpNames \cup {Path}
MaybeContents == Contents \cup {NoContent}
Pieces == [of : MaybeContents, part : Nat]

(* The first n chunks of a content.                                        *)
Prefix(x, n) == [j \in 1..n |-> Piece(x, j)]

(* Chunks stand where they were written; what nobody wrote is a hole.      *)
InPosition(chunks) ==
    /\ chunks \in Seq(Pieces)
    /\ \A j \in 1..Len(chunks) :
          chunks[j] = Hole \/ (chunks[j].of \in Contents /\ chunks[j].part = j)

SaverOK(v) ==
    /\ v \in [pc : {"idle", "create", "write"}, of : MaybeContents, inode : Inodes \cup {NoFile},
              at : Nat, outcome : {"none", "ok", "err"}]
    /\ v.pc # "write" => v.inode = NoFile
    /\ v.pc = "write" => v.inode \in Inodes
    /\ v.pc = "create" => v.at = 0
    /\ v.pc # "idle" => Saved(v.of) /\ v.outcome = "none" /\ v.at <= FileLen(v.of)

LoaderOK(v) ==
    /\ v \in [pc : {"idle", "read", "done"}, opts : LoadOptions \cup {NoOptions},
              inode : Inodes \cup {NoFile}, len : Nat, got : Seq(Pieces), opened : MaybeContents,
              read : Seq(Pieces), result : {"none", "refused", "unverified", "loaded"},
              store : MaybeContents]
    /\ v.pc # "read" => v.inode = NoFile
    /\ v.pc = "read" => v.inode \in Inodes /\ v.opts \in LoadOptions
    /\ v.pc # "done" => v.result = "none"
    /\ v.pc = "idle" => v = IdleLoader
    /\ InPosition(v.got)
    /\ Len(v.got) <= v.len

Typed ==
    /\ dir \in [Files -> Inodes \cup {NoFile}]
    /\ DOMAIN data = Inodes /\ \A i \in Inodes : InPosition(data[i])
    /\ DOMAIN saver = Savers /\ \A s \in Savers : SaverOK(saver[s])
    /\ DOMAIN loader = Loaders /\ \A l \in Loaders : LoaderOK(loader[l])
    /\ left \in Nat
    /\ torn \subseteq Inodes

(* An inode has at most one name.                                          *)
LinkedOnce == \A m, n \in Files : dir[m] = dir[n] /\ dir[m] # NoFile => m = n

(* An inode that is being written has the name it was created under, or    *)
(* another save of that name has renamed it.                               *)
NamedByTarget ==
    \A s \in Savers : Writing(s) =>
        \A n \in Files : dir[n] = saver[s].inode => n = Target(s) \/ n = Path

(* The ghost has the inodes that two savers write, ...                     *)
SharedIsTorn ==
    \A s, t \in Savers : s # t /\ Writing(s) /\ Writing(t) /\ saver[s].inode = saver[t].inode =>
        saver[s].inode \in torn

(* ... that one writes in place, and that one writes at the path.          *)
SeenIsTorn ==
    \A s \in Savers : Writing(s) /\ (InPlace(s) \/ dir[Path] = saver[s].inode) =>
        saver[s].inode \in torn

(* Any other inode holds what its saver has written so far, ...            *)
WrittenSoFar ==
    \A s \in Savers : Writing(s) /\ saver[s].inode \notin torn =>
        data[saver[s].inode] = Prefix(saver[s].of, saver[s].at)

(* ... and is the one its temporary name leads to, if it leads to one that *)
(* is not torn.                                                            *)
OwnTmp ==
    \A s \in Savers :
        Writing(s) /\ ~InPlace(s) /\ dir[TmpOf(s)] # NoFile /\ dir[TmpOf(s)] \notin torn =>
            saver[s].inode = dir[TmpOf(s)]

FilesInv == /\ LinkedOnce /\ NamedByTarget /\ SharedIsTorn /\ SeenIsTorn
            /\ WrittenSoFar /\ OwnTmp

(* A loader whose file nobody wrote since it opened it reads that file.    *)
Undisturbed(l) ==
    loader[l].pc = "read" /\ loader[l].opened # NoContent =>
        /\ data[loader[l].inode] = FileOf(loader[l].opened)
        /\ loader[l].len = FileLen(loader[l].opened)
        /\ loader[l].got = Prefix(loader[l].opened, Len(loader[l].got))

(* A store comes from a file that was read whole, ...                      *)
LoadedWhole(l) ==
    loader[l].result = "loaded" =>
        /\ loader[l].opts \in LoadOptions
        /\ loader[l].store \in Contents
        /\ Loads(loader[l].store, loader[l].opts)
        /\ loader[l].opts.integrity = "checksum" =>
              /\ FileOf(loader[l].store) = loader[l].read
              /\ loader[l].opened # NoContent => loader[l].opened = loader[l].store

(* ... and a saved file that decodes and was not disturbed gives one.      *)
UndisturbedLoads(l) ==
    loader[l].pc = "done" /\ Saved(loader[l].opened) =>
        /\ loader[l].opts \in LoadOptions
        /\ Fits(loader[l].opts, loader[l].opened) /\ Loads(loader[l].opened, loader[l].opts) =>
              loader[l].result = "loaded" /\ loader[l].store = loader[l].opened

LoadsInv == \A l \in Loaders : Undisturbed(l) /\ LoadedWhole(l) /\ UndisturbedLoads(l)

-----------------------------------------------------------------------------
(* Contents and files.                                                     *)

LEMMA ContentsDiffer ==
    /\ NoContent \notin Contents
    /\ Unverified \notin Contents
    /\ Unverified # NoContent
    /\ ~Saved(ForeignFile)
BY SnapshotConstants DEF Contents, SavedContents, SavedAs, Saved, NoContent, Unverified, ForeignFile

LEMMA FileLengths == ASSUME NEW x PROVE FileLen(x) \in Nat /\ FileLen(x) >= 2 /\ FileLen(x) <= PlainLen
BY DEF FileLen, PlainLen

LEMMA Compressions ==
    ASSUME NEW x \in Contents PROVE Compression(x) \in {"none", "zstd"}
BY SnapshotConstants DEF Compression, Saved, SavedContents, SavedAs, OptionsOf

LEMMA PathIsNoTmp == Path \notin TmpNames
BY SnapshotConstants DEF TmpNames, Path

LEMMA PrefixIsSeq ==
    ASSUME NEW x \in MaybeContents, NEW n \in Nat
    PROVE  /\ Prefix(x, n) \in Seq(Pieces)
           /\ Len(Prefix(x, n)) = n
           /\ DOMAIN Prefix(x, n) = 1..n
           /\ \A j \in 1..n : Prefix(x, n)[j] = Piece(x, j)
  <1>1. \A j \in 1..n : Piece(x, j) \in Pieces
    BY DEF Piece, Pieces
  <1> QED BY <1>1 DEF Prefix

LEMMA FileIsPrefix ==
    ASSUME NEW x PROVE FileOf(x) = Prefix(x, FileLen(x))
BY DEF FileOf, Prefix

LEMMA PrefixInPosition ==
    ASSUME NEW x \in Contents, NEW n \in Nat PROVE InPosition(Prefix(x, n))
  <1>1. x \in MaybeContents
    BY DEF MaybeContents
  <1>2. \A j \in 1..n : Prefix(x, n)[j].of = x /\ Prefix(x, n)[j].part = j
    <2>1. \A j : Piece(x, j).of = x /\ Piece(x, j).part = j
      BY DEF Piece
    <2> QED BY <1>1, <2>1, PrefixIsSeq
  <1> QED BY <1>1, <1>2, PrefixIsSeq DEF InPosition

LEMMA EmptyInPosition == InPosition(<<>>)
BY DEF InPosition

(* A chunk at the end extends a prefix, anywhere it keeps the positions.   *)
LEMMA PutsChunk ==
    ASSUME NEW chunks, InPosition(chunks), NEW x \in Contents, NEW at \in Nat, at >= 1
    PROVE  /\ InPosition(Put(chunks, at, Piece(x, at)))
           /\ chunks = Prefix(x, at - 1) => Put(chunks, at, Piece(x, at)) = Prefix(x, at)
  <1> DEFINE n == Max({at, Len(chunks)})
             new == Put(chunks, at, Piece(x, at))
  <1>1. chunks \in Seq(Pieces) /\ Len(chunks) \in Nat /\ DOMAIN chunks = 1..Len(chunks)
    BY DEF InPosition
  <1>2. n = IF at >= Len(chunks) THEN at ELSE Len(chunks)
    <2>1. \E z \in {at, Len(chunks)} : \A y \in {at, Len(chunks)} : z >= y
      BY <1>1
    <2>2. n \in {at, Len(chunks)} /\ \A y \in {at, Len(chunks)} : n >= y
      BY <2>1 DEF Max
    <2> QED BY <1>1, <2>2
  <1>3. n \in Nat
    BY <1>1, <1>2
  <1> HIDE DEF n
  <1>4. new = [i \in 1..n |-> IF i = at THEN Piece(x, at) ELSE IF i <= Len(chunks) THEN chunks[i] ELSE Hole]
    BY DEF Put, n
  <1> HIDE DEF new
  <1>5. \A i \in 1..n : /\ new[i] \in Pieces
                        /\ new[i] = Hole \/ (new[i].of \in Contents /\ new[i].part = i)
    <2>1. Piece(x, at) \in Pieces /\ Hole \in Pieces /\ Piece(x, at).of = x /\ Piece(x, at).part = at
      BY DEF Piece, Pieces, Hole, MaybeContents
    <2>2. \A i \in 1..Len(chunks) : chunks[i] \in Pieces
      BY <1>1
    <2>3. \A i \in 1..Len(chunks) : chunks[i] = Hole \/ (chunks[i].of \in Contents /\ chunks[i].part = i)
      BY DEF InPosition
    <2>4. \A i \in 1..n : i = at \/ i \in 1..Len(chunks) \/ (i # at /\ i > Len(chunks))
      BY <1>1, <1>3
    <2> SUFFICES ASSUME NEW i \in 1..n
                 PROVE  /\ new[i] \in Pieces
                        /\ new[i] = Hole \/ (new[i].of \in Contents /\ new[i].part = i)
      OBVIOUS
    <2>5. CASE i = at
      BY <1>4, <2>1, <2>5
    <2>6. CASE i # at /\ i \in 1..Len(chunks)
      <3>1. new[i] = chunks[i]
        BY <1>1, <1>4, <2>6
      <3> QED BY <2>2, <2>3, <2>6, <3>1
    <2>7. CASE i # at /\ i > Len(chunks)
      <3>1. new[i] = Hole
        BY <1>1, <1>4, <2>7
      <3> QED BY <2>1, <3>1
    <2> QED BY <1>1, <2>4, <2>5, <2>6, <2>7
  <1>6. new \in Seq(Pieces) /\ Len(new) = n
    BY <1>3, <1>4, <1>5
  <1>7. InPosition(new)
    BY <1>5, <1>6 DEF InPosition
  <1>8. ASSUME chunks = Prefix(x, at - 1)
        PROVE  new = Prefix(x, at)
    <2>1. Len(chunks) = at - 1 /\ \A j \in 1..(at - 1) : chunks[j] = Piece(x, j)
      BY <1>8, PrefixIsSeq, at - 1 \in Nat DEF MaybeContents
    <2>2. n = at
      BY <1>2, <2>1
    <2>3. \A j \in 1..at : new[j] = Piece(x, j)
      BY <1>4, <2>1, <2>2
    <2> QED BY <1>4, <2>2, <2>3 DEF Prefix
  <1> QED BY <1>7, <1>8 DEF new

LEMMA WholeFileIs ==
    ASSUME NEW chunks, InPosition(chunks)
    PROVE  /\ WholeFile(chunks) \in MaybeContents
           /\ WholeFile(chunks) # NoContent =>
                 WholeFile(chunks) \in Contents /\ chunks = FileOf(WholeFile(chunks))
  <1>1. chunks # <<>> => 1 \in 1..Len(chunks)
    BY DEF InPosition
  <1> QED BY <1>1 DEF WholeFile, InPosition, MaybeContents

LEMMA WholeFileOf ==
    ASSUME NEW x \in Contents PROVE WholeFile(FileOf(x)) = x /\ FileOf(x) # <<>>
  <1>1. Len(FileOf(x)) = FileLen(x) /\ FileOf(x)[1] = Piece(x, 1)
    BY FileLengths, FileIsPrefix, PrefixIsSeq DEF MaybeContents
  <1>2. FileOf(x) # <<>>
    BY <1>1, FileLengths
  <1>3. Piece(x, 1) # Hole /\ Piece(x, 1).of = x
    BY DEF Hole, Piece
  <1> QED BY <1>1, <1>2, <1>3 DEF WholeFile

LEMMA SameFile ==
    ASSUME NEW x \in Contents, NEW y \in Contents, FileOf(x) = FileOf(y) PROVE x = y
BY WholeFileOf

(* The names of a saver that has begun.                                    *)
LEMMA TmpNamesOfSavers ==
    ASSUME Typed, NEW s \in Savers, saver[s].pc # "idle"
    PROVE  /\ TmpOf(s) \in TmpNames /\ TmpOf(s) \in Files /\ TmpOf(s) # Path
           /\ Path \in Files /\ Target(s) \in Files
  <1>1. saver[s].of \in SavedContents
    BY DEF Typed, SaverOK, Saved
  <1>2. TmpOf(s) \in TmpNames
    BY <1>1 DEF TmpOf, TmpNames, Processes, SnapshotOf, SavedContents, SavedAs
  <1> QED BY <1>2, PathIsNoTmp DEF Files, Target

-----------------------------------------------------------------------------
(* Types.                                                                  *)

LEMMA IdleOK == SaverOK(IdleSaver) /\ LoaderOK(IdleLoader)
  <1>1. SaverOK(IdleSaver)
    BY DEF SaverOK, IdleSaver, SaverOf, MaybeContents
  <1>2. <<>> \in Seq(Pieces) /\ Len(<<>>) = 0
    OBVIOUS
  <1>3. LoaderOK(IdleLoader)
    BY <1>2, EmptyInPosition DEF LoaderOK, IdleLoader, MaybeContents
  <1> QED BY <1>1, <1>3

LEMMA InitTyped == Init => Typed
  <1> SUFFICES ASSUME Init PROVE Typed
    OBVIOUS
  <1>1. PICK x \in MaybeContents, first \in {CHOOSE i \in Inodes : TRUE} :
            /\ dir = [n \in TmpNames \cup {Path} |-> IF n = Path /\ x # NoContent THEN first ELSE NoFile]
            /\ data = [i \in Inodes |-> IF i = first /\ x # NoContent THEN FileOf(x) ELSE <<>>]
            /\ left = IF x = SavedAs(1, 1) THEN MaxSaves ELSE IF x = NoContent THEN 1 ELSE 0
    BY DEF Init, MaybeContents
  <1>2. first \in Inodes
    BY SnapshotConstants
  <1>3. dir \in [Files -> Inodes \cup {NoFile}]
    BY <1>1, <1>2 DEF Files
  <1>4. x # NoContent => InPosition(FileOf(x))
    BY FileIsPrefix, PrefixInPosition, FileLengths DEF MaybeContents
  <1>5. DOMAIN data = Inodes /\ \A i \in Inodes : InPosition(data[i])
    BY <1>1, <1>4, EmptyInPosition
  <1>6. left \in Nat
    BY <1>1, SnapshotConstants
  <1> QED BY <1>3, <1>5, <1>6, IdleOK DEF Typed, Init

(* A saver or a loader changes, and only that one.                         *)
LEMMA OneSaver ==
    ASSUME Typed, NEW s \in Savers, NEW v, SaverOK(v), saver' = [saver EXCEPT ![s] = v]
    PROVE  /\ DOMAIN saver' = Savers /\ \A t \in Savers : SaverOK(saver'[t])
           /\ saver'[s] = v /\ \A t \in Savers : t # s => saver'[t] = saver[t]
BY DEF Typed

LEMMA OneLoader ==
    ASSUME Typed, NEW l \in Loaders, NEW v, LoaderOK(v), loader' = [loader EXCEPT ![l] = v]
    PROVE  /\ DOMAIN loader' = Loaders /\ \A k \in Loaders : LoaderOK(loader'[k])
           /\ loader'[l] = v /\ \A k \in Loaders : k # l => loader'[k] = loader[k]
BY DEF Typed

LEMMA FreedInPosition ==
    ASSUME Typed, NEW d, NEW sv, NEW ld
    PROVE  LET c == Freed(d, data, sv, ld)
           IN  /\ DOMAIN c = Inodes
               /\ \A i \in Inodes : InPosition(c[i])
               /\ \A i \in Inodes : i \in Used(d, sv, ld) => c[i] = data[i]
BY EmptyInPosition DEF Typed, Freed

LEMMA ReturnOK ==
    ASSUME Typed, NEW s \in Savers, NEW outcome \in {"none", "ok", "err"}, Return(s, outcome)
    PROVE  /\ DOMAIN saver' = Savers /\ \A t \in Savers : SaverOK(saver'[t])
           /\ saver'[s].pc = "idle" /\ saver'[s].inode = NoFile /\ saver'[s].outcome = outcome
           /\ \A t \in Savers : t # s => saver'[t] = saver[t]
  <1> DEFINE v == [pc |-> "idle", of |-> NoContent, inode |-> NoFile, at |-> 0, outcome |-> outcome]
  <1>1. saver' = [saver EXCEPT ![s] = v]
    BY DEF Return, SaverOf
  <1>2. SaverOK(v)
    BY DEF SaverOK, MaybeContents
  <1>3. v.pc = "idle" /\ v.inode = NoFile /\ v.outcome = outcome
    OBVIOUS
  <1> HIDE DEF v
  <1> QED BY <1>1, <1>2, <1>3, OneSaver

(* The inode a save creates: the one of its name, or one nobody refers to. *)
LEMMA InodeIs ==
    ASSUME Typed, NEW name \in Files, dir[name] # NoFile \/ Free # {}
    PROVE  /\ InodeAt(name) \in Inodes
           /\ dir[name] = InodeAt(name)
              \/ (dir[name] = NoFile /\ InodeAt(name) \notin Used(dir, saver, loader))
  <1>1. CASE dir[name] = NoFile
    <2>1. (CHOOSE i \in Free : TRUE) \in Free
      BY <1>1
    <2> QED BY <1>1, <2>1 DEF InodeAt, Free
  <1>2. CASE dir[name] # NoFile
    BY <1>2 DEF InodeAt, Typed
  <1> QED BY <1>1, <1>2

LEMMA DisturbedOK ==
    ASSUME Typed, NEW i, loader' = Disturbed(i)
    PROVE  /\ DOMAIN loader' = Loaders /\ \A l \in Loaders : LoaderOK(loader'[l])
           /\ \A l \in Loaders :
                 /\ loader[l].inode # i => loader'[l] = loader[l]
                 /\ loader[l].inode = i => loader'[l] = [loader[l] EXCEPT !.opened = NoContent]
  <1>1. DOMAIN loader' = Loaders
    BY DEF Disturbed
  <1>2. ASSUME NEW l \in Loaders
        PROVE  /\ loader[l].inode # i => loader'[l] = loader[l]
               /\ loader[l].inode = i => loader'[l] = [loader[l] EXCEPT !.opened = NoContent]
    BY DEF Disturbed
  <1>3. ASSUME NEW l \in Loaders PROVE LoaderOK(loader'[l])
    <2>1. LoaderOK(loader[l])
      BY DEF Typed
    <2>2. LoaderOK([loader[l] EXCEPT !.opened = NoContent])
      BY <2>1 DEF LoaderOK, IdleLoader, MaybeContents
    <2> QED BY <1>2, <2>1, <2>2
  <1> QED BY <1>1, <1>2, <1>3

LEMMA CreateIs ==
    ASSUME Typed, NEW s \in Savers, Create(s), NEW i, i = InodeAt(Target(s))
    PROVE  /\ i \in Inodes
           /\ dir[Target(s)] = i \/ (dir[Target(s)] = NoFile /\ i \notin Used(dir, saver, loader))
           /\ DOMAIN dir' = Files /\ dir'[Target(s)] = i
           /\ \A n \in Files : n # Target(s) => dir'[n] = dir[n]
           /\ DOMAIN data' = Inodes /\ data'[i] = <<>>
           /\ \A j \in Inodes : j # i => data'[j] = data[j]
           /\ DOMAIN saver' = Savers /\ \A t \in Savers : SaverOK(saver'[t])
           /\ saver'[s].pc = "write" /\ saver'[s].of = saver[s].of /\ saver'[s].inode = i
           /\ saver'[s].at = 0 /\ saver'[s].outcome = "none"
           /\ \A t \in Savers : t # s => saver'[t] = saver[t]
           /\ loader' = Disturbed(i)
  <1>1. Target(s) \in Files
    BY TmpNamesOfSavers DEF Create
  <1>2. i \in Inodes
        /\ (dir[Target(s)] = i \/ (dir[Target(s)] = NoFile /\ i \notin Used(dir, saver, loader)))
    BY <1>1, InodeIs DEF Create
  <1>3. dir' = [dir EXCEPT ![Target(s)] = i] /\ data' = [data EXCEPT ![i] = <<>>] /\ loader' = Disturbed(i)
    BY DEF Create
  <1> DEFINE v == [pc |-> "write", of |-> saver[s].of, inode |-> i, at |-> saver[s].at,
                   outcome |-> saver[s].outcome]
  <1>4. SaverOK(saver[s]) /\ saver[s].pc = "create"
    BY DEF Typed, Create
  <1>5. saver' = [saver EXCEPT ![s].pc = "write", ![s].inode = i]
    BY DEF Create
  <1>6. saver' = [saver EXCEPT ![s] = v]
    <2>1. [saver[s] EXCEPT !.pc = "write", !.inode = i] = v
      <3>1. PICK w : w = saver[s]
        OBVIOUS
      <3>2. w = [pc |-> w.pc, of |-> w.of, inode |-> w.inode, at |-> w.at, outcome |-> w.outcome]
        BY <1>4, <3>1 DEF SaverOK
      <3>3. [w EXCEPT !.pc = "write"] =
                [pc |-> "write", of |-> w.of, inode |-> w.inode, at |-> w.at, outcome |-> w.outcome]
        BY <3>2
      <3>4. [[w EXCEPT !.pc = "write"] EXCEPT !.inode = i] =
                [pc |-> "write", of |-> w.of, inode |-> i, at |-> w.at, outcome |-> w.outcome]
        <4>1. PICK u : u = [w EXCEPT !.pc = "write"]
          OBVIOUS
        <4>2. u = [pc |-> "write", of |-> w.of, inode |-> w.inode, at |-> w.at, outcome |-> w.outcome]
          BY <3>3, <4>1
        <4>3. [u EXCEPT !.inode = i] =
                  [pc |-> "write", of |-> w.of, inode |-> i, at |-> w.at, outcome |-> w.outcome]
          BY <4>2
        <4> QED BY <4>1, <4>3, Zenon
      <3>5. [w EXCEPT !.pc = "write", !.inode = i] = [[w EXCEPT !.pc = "write"] EXCEPT !.inode = i]
        BY Zenon
      <3> QED BY <3>1, <3>4, <3>5
    <2>2. saver' = [saver EXCEPT ![s] = [saver[s] EXCEPT !.pc = "write", !.inode = i]]
      BY <1>5, Zenon
    <2> QED BY <2>1, <2>2
  <1>7. SaverOK(v)
    BY <1>2, <1>4 DEF SaverOK
  <1>8. v.pc = "write" /\ v.of = saver[s].of /\ v.inode = i /\ v.at = 0 /\ v.outcome = "none"
    BY <1>4 DEF SaverOK
  <1> HIDE DEF v
  <1>9. /\ DOMAIN saver' = Savers /\ \A t \in Savers : SaverOK(saver'[t])
        /\ saver'[s] = v /\ \A t \in Savers : t # s => saver'[t] = saver[t]
    BY <1>6, <1>7, OneSaver
  <1>10. DOMAIN dir = Files /\ DOMAIN data = Inodes
    BY DEF Typed
  <1> QED BY <1>1, <1>2, <1>3, <1>8, <1>9, <1>10

LEMMA WriteIs ==
    ASSUME Typed, NEW s \in Savers, Write(s), NEW i, i = saver[s].inode
    PROVE  /\ i \in Inodes /\ saver[s].of \in Contents
           /\ saver[s].at \in Nat /\ saver[s].at < FileLen(saver[s].of)
           /\ DOMAIN data' = Inodes
           /\ data'[i] = Put(data[i], saver[s].at + 1, Piece(saver[s].of, saver[s].at + 1))
           /\ \A j \in Inodes : j # i => data'[j] = data[j]
           /\ DOMAIN saver' = Savers /\ \A t \in Savers : SaverOK(saver'[t])
           /\ saver'[s].pc = "write" /\ saver'[s].of = saver[s].of /\ saver'[s].inode = i
           /\ saver'[s].at = saver[s].at + 1 /\ saver'[s].outcome = "none"
           /\ \A t \in Savers : t # s => saver'[t] = saver[t]
           /\ loader' = Disturbed(i)
  <1>1. SaverOK(saver[s]) /\ saver[s].pc = "write" /\ saver[s].at < FileLen(saver[s].of)
    BY DEF Typed, Write, Writing
  <1>2. i \in Inodes /\ saver[s].of \in Contents /\ saver[s].at \in Nat /\ Saved(saver[s].of)
    BY <1>1 DEF SaverOK, Saved, Contents
  <1>3. /\ data' = [data EXCEPT ![i] = Put(@, saver[s].at + 1, Piece(saver[s].of, saver[s].at + 1))]
        /\ saver' = [saver EXCEPT ![s].at = saver[s].at + 1]
        /\ loader' = Disturbed(i)
    BY DEF Write
  <1> DEFINE v == [pc |-> "write", of |-> saver[s].of, inode |-> i, at |-> saver[s].at + 1,
                   outcome |-> "none"]
  <1>4. saver' = [saver EXCEPT ![s] = v]
    <2>1. [saver[s] EXCEPT !.at = saver[s].at + 1] = v
      BY <1>1 DEF SaverOK
    <2> QED BY <1>3, <2>1
  <1>5. SaverOK(v)
    BY <1>1, <1>2, FileLengths DEF SaverOK
  <1>6. v.pc = "write" /\ v.of = saver[s].of /\ v.inode = i /\ v.at = saver[s].at + 1 /\ v.outcome = "none"
    OBVIOUS
  <1> HIDE DEF v
  <1>7. /\ DOMAIN saver' = Savers /\ \A t \in Savers : SaverOK(saver'[t])
        /\ saver'[s] = v /\ \A t \in Savers : t # s => saver'[t] = saver[t]
    BY <1>4, <1>5, OneSaver
  <1>8. DOMAIN data = Inodes
    BY DEF Typed
  <1> QED BY <1>1, <1>2, <1>3, <1>6, <1>7, <1>8

LEMMA BeginSaveIs ==
    ASSUME Typed, NEW s \in Savers, NEW n \in DOMAIN Published, NEW o \in DOMAIN SaveOptions,
           BeginSave(s, n, o)
    PROVE  /\ DOMAIN saver' = Savers /\ \A t \in Savers : SaverOK(saver'[t])
           /\ saver'[s].pc = "create" /\ saver'[s].outcome = "none"
           /\ \A t \in Savers : t # s => saver'[t] = saver[t]
  <1> DEFINE v == [pc |-> "create", of |-> SavedAs(n, o), inode |-> NoFile, at |-> 0, outcome |-> "none"]
  <1>2. saver' = [saver EXCEPT ![s] = v]
    BY DEF BeginSave, SaverOf
  <1>3. SavedAs(n, o) \in SavedContents
    <2>1. Supported(SnapshotOf(SavedAs(n, o)), OptionsOf(SavedAs(n, o)))
      BY DEF BeginSave, SnapshotOf, OptionsOf, SavedAs
    <2> QED BY <2>1 DEF SavedContents
  <1>4. SaverOK(v)
    BY <1>3, FileLengths DEF SaverOK, MaybeContents, Contents, Saved
  <1>5. v.pc = "create" /\ v.outcome = "none"
    OBVIOUS
  <1> HIDE DEF v
  <1> QED BY <1>2, <1>4, <1>5, OneSaver

LEMMA SaveRefusedIs ==
    ASSUME Typed, NEW s \in Savers, NEW n, NEW o, SaveRefused(s, n, o)
    PROVE  /\ DOMAIN saver' = Savers /\ \A t \in Savers : SaverOK(saver'[t])
           /\ saver'[s].pc = "idle"
           /\ \A t \in Savers : t # s => saver'[t] = saver[t]
  <1> DEFINE v == [saver[s] EXCEPT !.outcome = "err"]
  <1>1. SaverOK(saver[s]) /\ saver[s].pc = "idle"
    BY DEF Typed, SaveRefused
  <1>2. SaverOK(v) /\ v.pc = "idle"
    BY <1>1 DEF SaverOK
  <1>3. saver' = [saver EXCEPT ![s] = v]
    BY DEF SaveRefused
  <1> HIDE DEF v
  <1> QED BY <1>2, <1>3, OneSaver

(* A name moves to the path, or the name was gone.                         *)
LEMMA RenameIs ==
    ASSUME Typed, NEW s \in Savers, Rename(s)
    PROVE  /\ dir' \in [Files -> Inodes \cup {NoFile}]
           /\ TmpOf(s) \in Files /\ TmpOf(s) # Path /\ Path \in Files
           /\ DOMAIN saver' = Savers /\ \A t \in Savers : SaverOK(saver'[t])
           /\ saver'[s].pc = "idle" /\ \A t \in Savers : t # s => saver'[t] = saver[t]
           /\ \/ dir[TmpOf(s)] = NoFile /\ dir' = dir /\ saver'[s].outcome = "err"
              \/ /\ dir[TmpOf(s)] # NoFile
                 /\ dir'[Path] = dir[TmpOf(s)] /\ dir'[TmpOf(s)] = NoFile
                 /\ \A n \in Files : n # Path /\ n # TmpOf(s) => dir'[n] = dir[n]
  <1>1. saver[s].pc = "write"
    BY DEF Rename, Written, Writing
  <1>2. TmpOf(s) \in Files /\ TmpOf(s) # Path /\ Path \in Files
    BY <1>1, TmpNamesOfSavers
  <1>3. dir \in [Files -> Inodes \cup {NoFile}]
    BY DEF Typed
  <1>4. CASE dir[TmpOf(s)] = NoFile
    <2>1. dir' = dir /\ Return(s, "err")
      BY <1>4 DEF Rename
    <2> QED BY <1>2, <1>3, <1>4, <2>1, ReturnOK
  <1>5. CASE dir[TmpOf(s)] # NoFile
    <2>1. dir' = [dir EXCEPT ![Path] = dir[TmpOf(s)], ![TmpOf(s)] = NoFile] /\ Return(s, "ok")
      BY <1>5 DEF Rename
    <2>2. PICK p, q : p = TmpOf(s) /\ q = Path
      OBVIOUS
    <2>3. /\ dir' \in [Files -> Inodes \cup {NoFile}]
          /\ dir'[q] = dir[p] /\ dir'[p] = NoFile
          /\ \A n \in Files : n # q /\ n # p => dir'[n] = dir[n]
      BY <1>2, <1>3, <2>1, <2>2
    <2> QED BY <1>2, <1>5, <2>1, <2>2, <2>3, ReturnOK
  <1> QED BY <1>4, <1>5

LEMMA SaveFailsIs ==
    ASSUME Typed, NEW s \in Savers, SaveFails(s)
    PROVE  /\ dir' \in [Files -> Inodes \cup {NoFile}]
           /\ \A n \in Files : dir'[n] = dir[n] \/ (dir'[n] = NoFile /\ n # Path)
           /\ DOMAIN saver' = Savers /\ \A t \in Savers : SaverOK(saver'[t])
           /\ saver'[s].pc = "idle" /\ saver'[s].outcome = "err"
           /\ \A t \in Savers : t # s => saver'[t] = saver[t]
  <1>1. TmpOf(s) \in Files /\ TmpOf(s) # Path
    BY TmpNamesOfSavers DEF SaveFails
  <1>2. dir' = dir \/ dir' = [dir EXCEPT ![TmpOf(s)] = NoFile]
    BY DEF SaveFails
  <1>3. dir \in [Files -> Inodes \cup {NoFile}]
    BY DEF Typed
  <1>4. /\ dir' \in [Files -> Inodes \cup {NoFile}]
        /\ \A n \in Files : dir'[n] = dir[n] \/ (dir'[n] = NoFile /\ n # Path)
    BY <1>1, <1>2, <1>3
  <1> QED BY <1>4, ReturnOK DEF SaveFails

LEMMA CrashIs ==
    ASSUME Typed, NEW p, Crash(p)
    PROVE  /\ DOMAIN saver' = Savers /\ \A t \in Savers : SaverOK(saver'[t])
           /\ \A t \in Savers : saver'[t] = IdleSaver \/ saver'[t] = saver[t]
BY IdleOK DEF Typed, Crash

-----------------------------------------------------------------------------
(* What a loader makes of the chunks it has read.                          *)

LEMMA ParsedIs ==
    ASSUME NEW got, InPosition(got), NEW len \in Nat, NEW o \in LoadOptions,
           NEW x \in Parsed(got, len, o)
    PROVE  /\ x \in Contents \cup {NoContent, Unverified}
           /\ x \in Contents /\ o.integrity = "checksum" => got = FileOf(x)
  <1>1. CASE o.compression = "zstd"
    <2>1. x \in ParseZstd(got, o)
      BY <1>1 DEF Parsed
    <2>2. CASE WholeFile(got) # NoContent
      <3>1. x = WholeFile(got) \/ x = NoContent
        BY <2>1, <2>2 DEF ParseZstd
      <3> QED BY <2>2, <3>1, WholeFileIs, ContentsDiffer
    <2>3. CASE WholeFile(got) = NoContent
      <3>1. x \in {NoContent, Unverified}
        BY <2>1, <2>3 DEF ParseZstd
      <3> QED BY <3>1, ContentsDiffer
    <2> QED BY <2>2, <2>3
  <1>2. CASE o.compression # "zstd"
    <2>1. x = NoContent \/ x \in ParsePlain(got, o)
      BY <1>2 DEF Parsed
    <2>2. CASE x \in {NoContent, Unverified}
      BY <2>2, ContentsDiffer
    <2>3. CASE x \notin {NoContent, Unverified}
      <3>1. x \in ParsePlain(got, o)
        BY <2>1, <2>3
      <3>2. /\ got # <<>> /\ got[1] # Hole /\ x = got[1].of /\ got[1] = Piece(x, 1)
            /\ Compression(x) = "none" /\ Len(got) = PlainLen
            /\ o.integrity = "checksum" => DigestOK(got)
        BY <2>3, <3>1 DEF ParsePlain
      <3>3. got \in Seq(Pieces) /\ Len(got) = 3 /\ PlainLen = 3
        BY <3>2 DEF InPosition, PlainLen
      <3>4. x \in Contents
        <4>1. 1 \in 1..Len(got)
          BY <3>3
        <4>2. got[1] = Hole \/ got[1].of \in Contents
          BY <4>1 DEF InPosition
        <4> QED BY <3>2, <4>2
      <3>5. ASSUME o.integrity = "checksum" PROVE got = FileOf(x)
        <4>1. PICK y : got[3] = Piece(y, 3) /\ \A i \in 1..2 : got[i] = Piece(y, i)
          BY <3>2, <3>3, <3>5 DEF DigestOK
        <4>2. y = x
          <5>1. got[1] = Piece(y, 1) /\ got[1] = Piece(x, 1)
            <6>1. 1 \in 1..2
              OBVIOUS
            <6> QED BY <3>2, <4>1, <6>1, Zenon
          <5>2. Piece(x, 1).of = x /\ Piece(y, 1).of = y
            BY DEF Piece
          <5> QED BY <5>1, <5>2
        <4>3. \A i \in 1..3 : got[i] = Piece(x, i)
          BY <4>1, <4>2
        <4>4. FileLen(x) = 3
          BY <3>2 DEF FileLen, PlainLen
        <4>5. FileOf(x) = [i \in 1..3 |-> Piece(x, i)]
          BY <4>4 DEF FileOf
        <4> QED BY <3>3, <4>3, <4>5
      <3> QED BY <3>4, <3>5
    <2> QED BY <2>2, <2>3
  <1> QED BY <1>1, <1>2

(* A whole saved file is parsed to what was saved, if the options fit it.  *)
LEMMA WholeIsParsed ==
    ASSUME NEW x \in SavedContents, NEW o \in LoadOptions, Fits(o, x)
    PROVE  Parsed(FileOf(x), FileLen(x), o) = {x}
  <1>1. x \in Contents /\ x \in MaybeContents /\ Saved(x)
    BY DEF Contents, MaybeContents, Saved
  <1>2. x # NoContent
    BY <1>1, ContentsDiffer
  <1>3. o.max \in Nat /\ o.max >= PlainLen /\ o.compression = Compression(x)
    BY SnapshotConstants DEF Fits
  <1>4. /\ Len(FileOf(x)) = FileLen(x)
        /\ \A j \in 1..FileLen(x) : FileOf(x)[j] = Piece(x, j)
    BY <1>1, FileLengths, FileIsPrefix, PrefixIsSeq
  <1>5. CASE o.compression = "zstd"
    <2>1. WholeFile(FileOf(x)) = x
      BY <1>1, WholeFileOf
    <2>2. ParseZstd(FileOf(x), o) = {x}
      BY <1>2, <1>3, <1>5, <2>1 DEF ParseZstd, PlainLen
    <2> QED BY <1>5, <2>2 DEF Parsed
  <1>6. CASE o.compression # "zstd"
    <2>1. Compression(x) = "none" /\ FileLen(x) = 3 /\ PlainLen = 3
      BY <1>1, <1>3, <1>6, Compressions DEF FileLen, PlainLen
    <2>2. FileOf(x) # <<>> /\ FileOf(x)[1] = Piece(x, 1) /\ FileOf(x)[3] = Piece(x, 3)
      BY <1>1, <1>4, <2>1, WholeFileOf
    <2>3. Piece(x, 1) # Hole /\ Piece(x, 1).of = x /\ Piece(x, 3).of = x
      BY <1>2 DEF Hole, Piece
    <2>4. \A i \in 1..2 : FileOf(x)[i] = Piece(x, i)
      BY <1>4, <2>1
    <2>5. DigestOK(FileOf(x))
      BY <1>4, <2>1, <2>2, <2>3, <2>4 DEF DigestOK
    <2>6. ParsePlain(FileOf(x), o) = {x}
      BY <1>4, <2>1, <2>2, <2>3, <2>4, <2>5 DEF ParsePlain
    <2> QED BY <1>4, <1>6, <2>6 DEF Parsed
  <1> QED BY <1>5, <1>6

(* What a load has read, up to where the file and the sampled length go.   *)
LEMMA AtEndIs ==
    ASSUME Typed, NEW l \in Loaders, loader[l].pc = "read"
    PROVE  /\ Len(loader[l].got) \in Nat /\ loader[l].len \in Nat
           /\ Len(data[loader[l].inode]) \in Nat
           /\ AtEnd(l) <=> \/ Len(loader[l].got) >= loader[l].len
                           \/ Len(loader[l].got) >= Len(data[loader[l].inode])
  <1>1. LoaderOK(loader[l])
    BY DEF Typed
  <1>2. loader[l].inode \in Inodes
    BY <1>1 DEF LoaderOK
  <1>3. data[loader[l].inode] \in Seq(Pieces)
    BY <1>2 DEF Typed, InPosition
  <1>4. PICK a, b : a = loader[l].len /\ b = Len(data[loader[l].inode])
    OBVIOUS
  <1>5. a \in Nat /\ b \in Nat /\ Len(loader[l].got) \in Nat
    BY <1>1, <1>3, <1>4 DEF LoaderOK
  <1>6. Min({a, b}) \in {a, b} /\ \A y \in {a, b} : Min({a, b}) <= y
    <2>1. \E z \in {a, b} : \A y \in {a, b} : z <= y
      BY <1>5
    <2> QED BY <2>1 DEF Min
  <1>7. AtEnd(l) <=> Len(loader[l].got) >= Min({a, b})
    BY <1>4 DEF AtEnd
  <1> QED BY <1>4, <1>5, <1>6, <1>7

LEMMA LoadRefusedIs ==
    ASSUME Typed, NEW l \in Loaders, NEW o, LoadRefused(l, o)
    PROVE  /\ DOMAIN loader' = Loaders /\ \A k \in Loaders : LoaderOK(loader'[k])
           /\ loader'[l].pc = "done" /\ loader'[l].opened = NoContent /\ loader'[l].result = "refused"
           /\ \A k \in Loaders : k # l => loader'[k] = loader[k]
  <1> DEFINE v == Finished(NoOptions, NoContent, <<>>, "refused", NoContent)
  <1>1. loader' = [loader EXCEPT ![l] = v]
    BY DEF LoadRefused
  <1>2. <<>> \in Seq(Pieces) /\ Len(<<>>) = 0
    OBVIOUS
  <1>3. LoaderOK(v)
    BY <1>2, EmptyInPosition DEF LoaderOK, MaybeContents, Finished
  <1>4. v.pc = "done" /\ v.opened = NoContent /\ v.result = "refused"
    BY DEF Finished
  <1> HIDE DEF v
  <1> QED BY <1>1, <1>3, <1>4, OneLoader

LEMMA OpenIs ==
    ASSUME Typed, NEW l \in Loaders, NEW o \in LoadOptions, Open(l, o)
    PROVE  /\ dir[Path] \in Inodes
           /\ DOMAIN loader' = Loaders /\ \A k \in Loaders : LoaderOK(loader'[k])
           /\ loader'[l].pc = "read" /\ loader'[l].inode = dir[Path] /\ loader'[l].got = <<>>
           /\ loader'[l].len = Len(data[dir[Path]]) /\ loader'[l].result = "none"
           /\ loader'[l].opened = WholeFile(data[dir[Path]])
           /\ \A k \in Loaders : k # l => loader'[k] = loader[k]
  <1>1. PICK i : i = dir[Path]
    OBVIOUS
  <1>2. i \in Inodes
    BY <1>1 DEF Open, OpenFails, Typed, Files
  <1>3. PICK c : c = data[i]
    OBVIOUS
  <1>4. InPosition(c) /\ Len(c) \in Nat /\ WholeFile(c) \in MaybeContents
    BY <1>2, <1>3, WholeFileIs DEF Typed, InPosition
  <1> DEFINE v == [pc |-> "read", opts |-> o, inode |-> i, len |-> Len(c), got |-> <<>>,
                   opened |-> WholeFile(c), read |-> <<>>, result |-> "none", store |-> NoContent]
  <1>5. loader' = [loader EXCEPT ![l] = v]
    BY <1>1, <1>3 DEF Open
  <1>6. <<>> \in Seq(Pieces) /\ Len(<<>>) = 0
    OBVIOUS
  <1>7. LoaderOK(v)
    BY <1>2, <1>4, <1>6, EmptyInPosition DEF LoaderOK, MaybeContents
  <1>8. /\ v.pc = "read" /\ v.inode = i /\ v.got = <<>> /\ v.len = Len(c) /\ v.result = "none"
        /\ v.opened = WholeFile(c)
    OBVIOUS
  <1> HIDE DEF v
  <1> QED BY <1>1, <1>2, <1>3, <1>5, <1>7, <1>8, OneLoader

LEMMA ReadIs ==
    ASSUME Typed, NEW l \in Loaders, Read(l)
    PROVE  LET i == loader[l].inode got == loader[l].got
           IN  /\ i \in Inodes /\ Len(got) \in Nat
               /\ Len(got) < loader[l].len /\ Len(got) < Len(data[i])
               /\ DOMAIN loader' = Loaders /\ \A k \in Loaders : LoaderOK(loader'[k])
               /\ loader'[l].pc = "read" /\ loader'[l].inode = i /\ loader'[l].result = "none"
               /\ loader'[l].len = loader[l].len /\ loader'[l].opened = loader[l].opened
               /\ loader'[l].got = Append(got, data[i][Len(got) + 1])
               /\ \A k \in Loaders : k # l => loader'[k] = loader[k]
  <1>1. PICK i, c, got : i = loader[l].inode /\ c = data[i] /\ got = loader[l].got
    OBVIOUS
  <1>2. LoaderOK(loader[l]) /\ loader[l].pc = "read" /\ ~AtEnd(l)
    BY DEF Typed, Read
  <1>3. i \in Inodes /\ InPosition(c) /\ InPosition(got) /\ loader[l].len \in Nat
    BY <1>1, <1>2 DEF LoaderOK, Typed
  <1>4. /\ c \in Seq(Pieces) /\ got \in Seq(Pieces) /\ Len(c) \in Nat /\ Len(got) \in Nat
    BY <1>3 DEF InPosition
  <1>5. Len(got) < loader[l].len /\ Len(got) < Len(c)
    BY <1>1, <1>2, <1>3, <1>4, AtEndIs
  <1> DEFINE j == Len(got) + 1
             new == Append(got, c[j])
             v == [loader[l] EXCEPT !.got = new]
  <1>6. loader' = [loader EXCEPT ![l] = v]
    BY <1>1 DEF Read
  <1>7. j \in 1..Len(c) /\ c[j] \in Pieces
    BY <1>4, <1>5
  <1>8. c[j] = Hole \/ (c[j].of \in Contents /\ c[j].part = j)
    BY <1>3, <1>7 DEF InPosition
  <1>9. /\ new \in Seq(Pieces) /\ Len(new) = j /\ new[j] = c[j]
        /\ \A k \in 1..Len(got) : new[k] = got[k]
    BY <1>4, <1>7
  <1>10. InPosition(new)
    <2>1. \A k \in 1..Len(got) : got[k] = Hole \/ (got[k].of \in Contents /\ got[k].part = k)
      BY <1>3 DEF InPosition
    <2>2. \A k \in 1..Len(new) : k = j \/ k \in 1..Len(got)
      BY <1>4, <1>9
    <2>3. \A k \in 1..Len(new) : new[k] = Hole \/ (new[k].of \in Contents /\ new[k].part = k)
      BY <1>8, <1>9, <2>1, <2>2
    <2> QED BY <1>9, <2>3 DEF InPosition
  <1> HIDE DEF new
  <1>11. Len(new) <= loader[l].len
    BY <1>3, <1>4, <1>5, <1>9
  <1>12. LoaderOK(v)
    BY <1>2, <1>9, <1>10, <1>11 DEF LoaderOK
  <1>13. /\ v.pc = "read" /\ v.inode = i /\ v.len = loader[l].len /\ v.opened = loader[l].opened
         /\ v.got = new /\ v.result = "none"
    BY <1>1, <1>2 DEF LoaderOK
  <1> HIDE DEF v
  <1>14. /\ DOMAIN loader' = Loaders /\ \A k \in Loaders : LoaderOK(loader'[k])
         /\ loader'[l] = v /\ \A k \in Loaders : k # l => loader'[k] = loader[k]
    BY <1>6, <1>12, OneLoader
  <1> QED BY <1>1, <1>3, <1>4, <1>5, <1>13, <1>14 DEF new

LEMMA DecodeIs ==
    ASSUME Typed, NEW l \in Loaders, Decode(l)
    PROVE  /\ DOMAIN loader' = Loaders /\ \A k \in Loaders : LoaderOK(loader'[k])
           /\ \A k \in Loaders : k # l => loader'[k] = loader[k]
           /\ loader'[l].pc = "done" /\ loader'[l].inode = NoFile
           /\ loader'[l].opts = loader[l].opts /\ loader'[l].opened = loader[l].opened
           /\ loader'[l].read = loader[l].got
           /\ \E x \in Parsed(loader[l].got, loader[l].len, loader[l].opts) :
                 /\ loader'[l].result = "loaded" <=> x \in Contents /\ Loads(x, loader[l].opts)
                 /\ loader'[l].result = "loaded" => loader'[l].store = x
  <1>1. LoaderOK(loader[l]) /\ loader[l].pc = "read"
    BY DEF Typed, Decode
  <1>2. PICK got, len, o : got = loader[l].got /\ len = loader[l].len /\ o = loader[l].opts
    OBVIOUS
  <1>3. /\ InPosition(got) /\ got \in Seq(Pieces) /\ len \in Nat /\ o \in LoadOptions
        /\ loader[l].opened \in MaybeContents
    BY <1>1, <1>2 DEF LoaderOK
  <1>4. PICK x \in Parsed(got, len, o) :
            loader' = IF x = NoContent THEN Done(l, "refused", NoContent)
                      ELSE IF x = Unverified THEN Done(l, "unverified", NoContent)
                      ELSE IF Loads(x, o) THEN Done(l, "loaded", x)
                      ELSE Done(l, "refused", NoContent)
    BY <1>2 DEF Decode
  <1>5. x \in Contents \cup {NoContent, Unverified}
    BY <1>3, <1>4, ParsedIs
  <1>6. PICK r \in {"refused", "unverified", "loaded"}, y \in MaybeContents :
            /\ loader' = Done(l, r, y)
            /\ r = "loaded" <=> x \in Contents /\ Loads(x, o)
            /\ r = "loaded" => y = x
    BY <1>4, <1>5, ContentsDiffer DEF MaybeContents
  <1> DEFINE v == Finished(o, loader[l].opened, got, r, y)
  <1>7. loader' = [loader EXCEPT ![l] = v]
    BY <1>2, <1>6 DEF Done
  <1>8. <<>> \in Seq(Pieces) /\ Len(<<>>) = 0
    OBVIOUS
  <1>9. LoaderOK(v)
    BY <1>3, <1>8, EmptyInPosition DEF LoaderOK, Finished
  <1>10. /\ v.pc = "done" /\ v.inode = NoFile /\ v.opts = o /\ v.opened = loader[l].opened
         /\ v.read = got /\ v.result = r /\ v.store = y
    BY DEF Finished
  <1> HIDE DEF v
  <1>11. /\ DOMAIN loader' = Loaders /\ \A k \in Loaders : LoaderOK(loader'[k])
         /\ loader'[l] = v /\ \A k \in Loaders : k # l => loader'[k] = loader[k]
    BY <1>7, <1>9, OneLoader
  <1> QED BY <1>2, <1>4, <1>6, <1>10, <1>11

LEMMA NextTyped == Typed /\ [Next]_vars => Typed'
  <1> SUFFICES ASSUME Typed, [Next]_vars PROVE Typed'
    OBVIOUS
  <1>1. ASSUME NEW s \in Savers, NEW n \in DOMAIN Published, NEW o \in DOMAIN SaveOptions,
               SaveRefused(s, n, o)
        PROVE  Typed'
    <2>1. left' \in Nat
      BY <1>1 DEF Typed, SaveRefused
    <2>2. UNCHANGED <<dir, data, loader, torn>>
      BY <1>1 DEF SaveRefused
    <2> QED BY <1>1, <2>1, <2>2, SaveRefusedIs DEF Typed
  <1>2. ASSUME NEW s \in Savers, NEW n \in DOMAIN Published, NEW o \in DOMAIN SaveOptions,
               BeginSave(s, n, o)
        PROVE  Typed'
    <2>1. left' \in Nat
      BY <1>2 DEF Typed, BeginSave
    <2>2. UNCHANGED <<dir, data, loader, torn>>
      BY <1>2 DEF BeginSave
    <2> QED BY <1>2, <2>1, <2>2, BeginSaveIs DEF Typed
  <1>3. ASSUME NEW s \in Savers, Create(s) PROVE Typed'
    <2>1. PICK i : i = InodeAt(Target(s))
      OBVIOUS
    <2>2. Target(s) \in Files
      BY <1>3, TmpNamesOfSavers DEF Create
    <2>3. dir' \in [Files -> Inodes \cup {NoFile}]
      <3>1. dir' = [dir EXCEPT ![Target(s)] = i] /\ i \in Inodes
        BY <1>3, <2>1, CreateIs DEF Create
      <3> QED BY <2>2, <3>1 DEF Typed
    <2>4. DOMAIN data' = Inodes /\ \A j \in Inodes : InPosition(data'[j])
      BY <1>3, <2>1, CreateIs, EmptyInPosition DEF Typed
    <2>5. DOMAIN saver' = Savers /\ \A t \in Savers : SaverOK(saver'[t])
      BY <1>3, <2>1, CreateIs
    <2>6. DOMAIN loader' = Loaders /\ \A l \in Loaders : LoaderOK(loader'[l])
      BY <1>3, <2>1, CreateIs, DisturbedOK
    <2>7. torn' \subseteq Inodes /\ left' \in Nat
      <3>1. i \in Inodes
        BY <1>3, <2>1, CreateIs
      <3> QED BY <1>3, <2>1, <3>1 DEF Typed, Create
    <2> QED BY <2>3, <2>4, <2>5, <2>6, <2>7 DEF Typed
  <1>4. ASSUME NEW s \in Savers, Write(s) PROVE Typed'
    <2>1. PICK i : i = saver[s].inode
      OBVIOUS
    <2>2. i \in Inodes /\ InPosition(data[i]) /\ saver[s].at + 1 \in Nat /\ saver[s].at + 1 >= 1
      BY <1>4, <2>1, WriteIs DEF Typed
    <2>3. DOMAIN data' = Inodes /\ \A j \in Inodes : InPosition(data'[j])
      BY <1>4, <2>1, <2>2, WriteIs, PutsChunk DEF Typed
    <2>4. DOMAIN saver' = Savers /\ \A t \in Savers : SaverOK(saver'[t])
      BY <1>4, <2>1, WriteIs
    <2>5. DOMAIN loader' = Loaders /\ \A l \in Loaders : LoaderOK(loader'[l])
      BY <1>4, <2>1, WriteIs, DisturbedOK
    <2> QED BY <1>4, <2>3, <2>4, <2>5 DEF Typed, Write
  <1>5. ASSUME NEW s \in Savers, Rename(s) PROVE Typed'
    <2>1. DOMAIN data' = Inodes /\ \A i \in Inodes : InPosition(data'[i])
      BY <1>5, FreedInPosition DEF Rename
    <2> QED BY <1>5, <2>1, RenameIs DEF Typed, Rename
  <1>6. ASSUME NEW s \in Savers, FinishInPlace(s) PROVE Typed'
    <2>1. DOMAIN data' = Inodes /\ \A i \in Inodes : InPosition(data'[i])
      BY <1>6, FreedInPosition DEF FinishInPlace
    <2> QED BY <1>6, <2>1, ReturnOK DEF Typed, FinishInPlace
  <1>7. ASSUME NEW s \in Savers, SaveFails(s) PROVE Typed'
    <2>1. DOMAIN data' = Inodes /\ \A i \in Inodes : InPosition(data'[i])
      BY <1>7, FreedInPosition DEF SaveFails
    <2> QED BY <1>7, <2>1, SaveFailsIs DEF Typed, SaveFails
  <1>8. ASSUME NEW p \in Processes, Crash(p) PROVE Typed'
    <2>1. DOMAIN data' = Inodes /\ \A i \in Inodes : InPosition(data'[i])
      BY <1>8, FreedInPosition DEF Crash
    <2> QED BY <1>8, <2>1, CrashIs DEF Typed, Crash
  <1>9. ASSUME NEW l \in Loaders, NEW o \in LoadOptions, LoadRefused(l, o) PROVE Typed'
    BY <1>9, LoadRefusedIs DEF Typed, LoadRefused
  <1>10. ASSUME NEW l \in Loaders, NEW o \in LoadOptions, Open(l, o) PROVE Typed'
    BY <1>10, OpenIs DEF Typed, Open
  <1>11. ASSUME NEW l \in Loaders, Read(l) PROVE Typed'
    BY <1>11, ReadIs DEF Typed, Read
  <1>12. ASSUME NEW l \in Loaders, Decode(l) PROVE Typed'
    <2>1. DOMAIN data' = Inodes /\ \A i \in Inodes : InPosition(data'[i])
      BY <1>12, FreedInPosition DEF Decode
    <2> QED BY <1>12, <2>1, DecodeIs DEF Typed, Decode
  <1>13. ASSUME NEW l \in Loaders, Forget(l) PROVE Typed'
    BY <1>13, OneLoader, IdleOK DEF Typed, Forget
  <1>14. CASE UNCHANGED vars
    BY <1>14 DEF Typed, vars
  <1> QED BY <1>1, <1>2, <1>3, <1>4, <1>5, <1>6, <1>7, <1>8, <1>9, <1>10, <1>11, <1>12, <1>13,
            <1>14 DEF Next

LEMMA TypedInvariant == Spec => []Typed
BY InitTyped, NextTyped, PTL DEF Spec

LEMMA TypedIsTypeOK == Typed => TypeOK
  <1> SUFFICES ASSUME Typed PROVE TypeOK
    OBVIOUS
  <1>1. \A i \in Inodes : \A j \in DOMAIN data[i] :
            data[i][j] = Hole \/ (data[i][j].of \in Contents /\ data[i][j].part = j)
    BY DEF Typed, InPosition
  <1>2. ASSUME NEW s \in Savers
        PROVE  /\ saver[s].pc \in {"idle", "create", "write"}
               /\ saver[s].outcome \in {"none", "ok", "err"}
               /\ Writing(s) <=> saver[s].inode \in Inodes
               /\ ~Writing(s) => saver[s].inode = NoFile
               /\ saver[s].pc # "idle" => saver[s].at \in 0..FileLen(saver[s].of)
    <2>1. SaverOK(saver[s])
      BY DEF Typed
    <2> QED BY <2>1, FileLengths, SnapshotConstants DEF SaverOK, Writing
  <1>3. ASSUME NEW l \in Loaders
        PROVE  /\ loader[l].result \in {"none", "refused", "unverified", "loaded"}
               /\ loader[l].pc = "read" <=> loader[l].inode \in Inodes
               /\ Len(loader[l].got) <= loader[l].len
    <2>1. LoaderOK(loader[l])
      BY DEF Typed
    <2> QED BY <2>1, SnapshotConstants DEF LoaderOK
  <1> QED BY <1>1, <1>2, <1>3 DEF TypeOK, Typed, Files

(* The calls, the names and the chunks of every file keep their types, and *)
(* a call holds a file exactly while it writes or reads it, whatever fails *)
(* or crashes in save_snapshot_file and load_snapshot_file.                *)
THEOREM SnapshotTypes == Spec => []TypeOK
BY TypedInvariant, TypedIsTypeOK, PTL

-----------------------------------------------------------------------------
(* Names, inodes and what savers write.                                    *)

LEMMA InitFiles == Init => FilesInv
  <1> SUFFICES ASSUME Init PROVE FilesInv
    OBVIOUS
  <1>1. \A s \in Savers : ~Writing(s)
    BY DEF Init, Writing, IdleSaver, SaverOf
  <1>2. \A n \in Files : dir[n] # NoFile => n = Path
    BY DEF Init, Files
  <1>3. LinkedOnce
    BY <1>2 DEF LinkedOnce
  <1> QED BY <1>1, <1>3 DEF FilesInv, NamedByTarget, SharedIsTorn, SeenIsTorn, WrittenSoFar, OwnTmp

LEMMA SameTarget ==
    ASSUME NEW t \in Savers, saver'[t].of = saver[t].of
    PROVE  TmpOf(t)' = TmpOf(t) /\ InPlace(t)' = InPlace(t) /\ Target(t)' = Target(t)
BY DEF TmpOf, InPlace, Target

(* A step that writes no file, links no inode and starts no writer.        *)
LEMMA QuietKeepsFiles ==
    ASSUME Typed, Typed', FilesInv,
           \A t \in Savers : Writing(t)' => saver'[t] = saver[t],
           \A n \in Files : dir'[n] = dir[n] \/ dir'[n] = NoFile,
           \A t \in Savers : Writing(t)' => data'[saver'[t].inode] = data[saver'[t].inode],
           torn' = torn
    PROVE  FilesInv'
  <1>1. LinkedOnce'
    BY DEF FilesInv, LinkedOnce
  <1>2. \A t \in Savers : Writing(t)' =>
            /\ Writing(t) /\ saver'[t] = saver[t] /\ saver[t].inode \in Inodes /\ saver[t].inode # NoFile
            /\ TmpOf(t)' = TmpOf(t) /\ InPlace(t)' = InPlace(t) /\ Target(t)' = Target(t)
            /\ TmpOf(t) \in Files /\ Path \in Files
    <2> SUFFICES ASSUME NEW t \in Savers, Writing(t)'
                 PROVE  /\ Writing(t) /\ saver'[t] = saver[t]
                        /\ saver[t].inode \in Inodes /\ saver[t].inode # NoFile
                        /\ TmpOf(t)' = TmpOf(t) /\ InPlace(t)' = InPlace(t) /\ Target(t)' = Target(t)
                        /\ TmpOf(t) \in Files /\ Path \in Files
      OBVIOUS
    <2>1. saver'[t] = saver[t] /\ saver[t].pc = "write"
      BY DEF Writing
    <2>2. saver[t].inode \in Inodes
      BY <2>1 DEF Typed, SaverOK
    <2>3. saver[t].inode # NoFile
      BY <2>2, SnapshotConstants
    <2> QED BY <2>1, <2>2, <2>3, SameTarget, TmpNamesOfSavers DEF Writing
  <1>3. NamedByTarget'
    BY <1>2 DEF FilesInv, NamedByTarget
  <1>4. SharedIsTorn'
    BY <1>2 DEF FilesInv, SharedIsTorn
  <1>5. SeenIsTorn'
    BY <1>2 DEF FilesInv, SeenIsTorn
  <1>6. WrittenSoFar'
    BY <1>2 DEF FilesInv, WrittenSoFar
  <1>7. OwnTmp'
    BY <1>2 DEF FilesInv, OwnTmp
  <1> QED BY <1>1, <1>3, <1>4, <1>5, <1>6, <1>7 DEF FilesInv

LEMMA FreedKeepsWritten ==
    ASSUME Typed, Typed', NEW t \in Savers, Writing(t)', data' = Freed(dir', data, saver', loader')
    PROVE  data'[saver'[t].inode] = data[saver'[t].inode]
  <1>1. saver'[t].inode \in Inodes
    BY DEF Typed, SaverOK, Writing
  <1>2. saver'[t].inode \in Used(dir', saver', loader')
    BY DEF Used
  <1> QED BY <1>1, <1>2, FreedInPosition

LEMMA FreedKeepsPath ==
    ASSUME Typed, Typed', dir'[Path] # NoFile, data' = Freed(dir', data, saver', loader')
    PROVE  data'[dir'[Path]] = data[dir'[Path]]
  <1>1. dir'[Path] \in Inodes /\ Path \in DOMAIN dir'
    BY DEF Typed, Files
  <1>2. dir'[Path] \in Used(dir', saver', loader')
    BY <1>1 DEF Used
  <1> QED BY <1>1, <1>2, FreedInPosition

(* The inode that a rename puts at the path is not being written, unless   *)
(* it is torn.                                                             *)
LEMMA RenameKeepsFiles ==
    ASSUME Typed, Typed', FilesInv, NEW s \in Savers, Rename(s)
    PROVE  FilesInv'
  <1>1. /\ Writing(s) /\ ~InPlace(s) /\ torn' = torn
        /\ data' = Freed(dir', data, saver', loader')
    BY DEF Rename, Written
  <1>2. \A t \in Savers : Writing(t)' => t # s /\ saver'[t] = saver[t]
    BY RenameIs DEF Writing
  <1>3. \A t \in Savers : Writing(t)' => data'[saver'[t].inode] = data[saver'[t].inode]
    BY <1>1, FreedKeepsWritten
  <1>4. CASE dir' = dir
    BY <1>1, <1>2, <1>3, <1>4, QuietKeepsFiles
  <1>5. CASE dir' # dir
    <2>1. PICK T, i : T = TmpOf(s) /\ i = dir[T]
      OBVIOUS
    <2>2. /\ T \in Files /\ T # Path /\ Path \in Files /\ i # NoFile
          /\ dir'[Path] = i /\ dir'[T] = NoFile
          /\ \A n \in Files : n # Path /\ n # T => dir'[n] = dir[n]
      BY <1>5, <2>1, RenameIs
    <2>3. LinkedOnce'
      BY <2>1, <2>2 DEF FilesInv, LinkedOnce
    <2>4. \A t \in Savers : Writing(t)' =>
            /\ t # s /\ Writing(t) /\ saver'[t] = saver[t]
            /\ saver[t].inode \in Inodes /\ saver[t].inode # NoFile
            /\ TmpOf(t)' = TmpOf(t) /\ InPlace(t)' = InPlace(t) /\ Target(t)' = Target(t)
            /\ TmpOf(t) \in Files /\ TmpOf(t) # Path
      <3> SUFFICES ASSUME NEW t \in Savers, Writing(t)'
                   PROVE  /\ t # s /\ Writing(t) /\ saver'[t] = saver[t]
                          /\ saver[t].inode \in Inodes /\ saver[t].inode # NoFile
                          /\ TmpOf(t)' = TmpOf(t) /\ InPlace(t)' = InPlace(t) /\ Target(t)' = Target(t)
                          /\ TmpOf(t) \in Files /\ TmpOf(t) # Path
        OBVIOUS
      <3>1. t # s /\ saver'[t] = saver[t] /\ saver[t].pc = "write"
        BY <1>2 DEF Writing
      <3>2. saver[t].inode \in Inodes
        BY <3>1 DEF Typed, SaverOK
      <3>3. saver[t].inode # NoFile
        BY <3>2, SnapshotConstants
      <3> QED BY <3>1, <3>2, <3>3, SameTarget, TmpNamesOfSavers DEF Writing
    <2>5. NamedByTarget'
      BY <2>2, <2>4 DEF FilesInv, NamedByTarget
    <2>6. SharedIsTorn'
      BY <1>1, <2>4 DEF FilesInv, SharedIsTorn
    <2>7. ASSUME NEW t \in Savers, Writing(t)', saver[t].inode = i
          PROVE  i \in torn
      <3>1. T = Target(t)
        BY <2>1, <2>2, <2>4, <2>7 DEF FilesInv, NamedByTarget
      <3>2. ~InPlace(t) /\ TmpOf(t) = T
        BY <2>2, <3>1 DEF Target
      <3>3. i \notin torn => saver[s].inode = i
        BY <1>1, <2>1, <2>2 DEF FilesInv, OwnTmp
      <3> QED BY <1>1, <2>4, <2>7, <3>3 DEF FilesInv, SharedIsTorn
    <2>8. SeenIsTorn'
      BY <1>1, <2>2, <2>4, <2>7 DEF FilesInv, SeenIsTorn
    <2>9. WrittenSoFar'
      BY <1>1, <1>3, <2>4 DEF FilesInv, WrittenSoFar
    <2>10. OwnTmp'
      BY <1>1, <2>2, <2>4 DEF FilesInv, OwnTmp
    <2> QED BY <2>3, <2>5, <2>6, <2>8, <2>9, <2>10 DEF FilesInv
  <1> QED BY <1>4, <1>5

(* A writer is as it was before the step, or is the saver of the step.     *)
LEMMA WritersAre ==
    ASSUME Typed, NEW t \in Savers, Writing(t)
    PROVE  /\ saver[t].pc # "idle" /\ saver[t].inode \in Inodes /\ saver[t].inode # NoFile
           /\ saver[t].inode \in Used(dir, saver, loader)
           /\ TmpOf(t) \in Files /\ TmpOf(t) # Path /\ Path \in Files /\ Target(t) \in Files
           /\ Target(t) = Path <=> InPlace(t)
           /\ ~InPlace(t) => Target(t) = TmpOf(t)
  <1>1. saver[t].pc = "write" /\ saver[t].inode \in Inodes
    BY DEF Typed, SaverOK, Writing
  <1>2. saver[t].inode \in Used(dir, saver, loader)
    BY DEF Used
  <1> QED BY <1>1, <1>2, TmpNamesOfSavers, SnapshotConstants DEF Target

LEMMA CreateKeepsFiles ==
    ASSUME Typed, Typed', FilesInv, NEW s \in Savers, Create(s)
    PROVE  FilesInv'
  <1>1. PICK T, i : T = Target(s) /\ i = InodeAt(T)
    OBVIOUS
  <1>2. /\ saver[s].pc = "create" /\ saver[s].pc # "idle"
        /\ T \in Files /\ Path \in Files /\ (T = Path <=> InPlace(s)) /\ (~InPlace(s) => T = TmpOf(s))
    BY <1>1, TmpNamesOfSavers DEF Create, Target
  <1>3. /\ i \in Inodes /\ i # NoFile
        /\ dir[T] = i \/ i \notin Used(dir, saver, loader)
        /\ dir'[T] = i /\ \A n \in Files : n # T => dir'[n] = dir[n]
        /\ data'[i] = <<>> /\ \A j \in Inodes : j # i => data'[j] = data[j]
        /\ saver'[s].pc = "write" /\ saver'[s].of = saver[s].of /\ saver'[s].inode = i
        /\ saver'[s].at = 0
        /\ \A t \in Savers : t # s => saver'[t] = saver[t]
    BY <1>1, CreateIs, SnapshotConstants
  <1>4. /\ i \in torn' <=> InPlace(s) \/ SharesTarget(s)
        /\ \A j : j # i => (j \in torn' <=> j \in torn)
    BY <1>1 DEF Create
  <1>5. TmpOf(s)' = TmpOf(s) /\ InPlace(s)' = InPlace(s) /\ Target(s)' = T
    BY <1>1, <1>3, SameTarget
  <1>6. \A t \in Savers : t # s /\ Writing(t)' =>
            /\ Writing(t) /\ saver'[t] = saver[t]
            /\ TmpOf(t)' = TmpOf(t) /\ InPlace(t)' = InPlace(t) /\ Target(t)' = Target(t)
    BY <1>3, SameTarget DEF Writing
  <1>7. \A n \in Files : dir[n] \in Used(dir, saver, loader)
    BY DEF Used, Typed
  <1>8. LinkedOnce'
    BY <1>2, <1>3, <1>7 DEF FilesInv, LinkedOnce
  <1>9. ASSUME NEW t \in Savers, t # s, Writing(t), saver[t].inode = i
        PROVE  (T = Target(t) \/ T = Path) /\ i \in torn'
    <2>1. dir[T] = i
      BY <1>3, <1>9, WritersAre
    <2>2. T = Target(t) \/ T = Path
      BY <1>2, <1>9, <2>1 DEF FilesInv, NamedByTarget
    <2>3. T = Target(t) => SharesTarget(s)
      BY <1>1, <1>9 DEF SharesTarget
    <2> QED BY <1>2, <1>4, <2>2, <2>3
  <1>10. NamedByTarget'
    <2> SUFFICES ASSUME NEW t \in Savers, Writing(t)', NEW n \in Files, dir'[n] = saver'[t].inode
                 PROVE  n = Target(t)' \/ n = Path
      BY DEF NamedByTarget
    <2>1. CASE t = s
      BY <1>2, <1>3, <1>5, <1>8, <2>1 DEF LinkedOnce
    <2>2. CASE t # s /\ n # T
      BY <1>3, <1>6, <2>2 DEF FilesInv, NamedByTarget
    <2>3. CASE t # s /\ n = T
      BY <1>3, <1>6, <1>9, <2>3
    <2> QED BY <2>1, <2>2, <2>3
  <1>11. SharedIsTorn'
    <2> SUFFICES ASSUME NEW t \in Savers, NEW u \in Savers, t # u, Writing(t)', Writing(u)',
                        saver'[t].inode = saver'[u].inode
                 PROVE  saver'[t].inode \in torn'
      BY DEF SharedIsTorn
    <2>1. CASE saver'[t].inode = i
      BY <1>6, <1>9, <2>1
    <2>2. CASE saver'[t].inode # i
      BY <1>3, <1>4, <1>6, <2>2 DEF FilesInv, SharedIsTorn
    <2> QED BY <2>1, <2>2
  <1>12. SeenIsTorn'
    <2> SUFFICES ASSUME NEW t \in Savers, Writing(t)', InPlace(t)' \/ dir'[Path] = saver'[t].inode
                 PROVE  saver'[t].inode \in torn'
      BY DEF SeenIsTorn
    <2>1. CASE t = s
      <3>1. InPlace(s)
        BY <1>2, <1>3, <1>5, <1>8, <2>1 DEF LinkedOnce
      <3> QED BY <1>3, <1>4, <2>1, <3>1
    <2>2. CASE t # s /\ saver'[t].inode = i
      BY <1>6, <1>9, <2>2
    <2>3. CASE t # s /\ saver'[t].inode # i
      <3>1. InPlace(t) \/ dir[Path] = saver[t].inode
        BY <1>2, <1>3, <1>6, <2>3
      <3> QED BY <1>4, <1>6, <2>3, <3>1 DEF FilesInv, SeenIsTorn
    <2> QED BY <2>1, <2>2, <2>3
  <1>13. WrittenSoFar'
    <2> SUFFICES ASSUME NEW t \in Savers, Writing(t)', saver'[t].inode \notin torn'
                 PROVE  data'[saver'[t].inode] = Prefix(saver'[t].of, saver'[t].at)
      BY DEF WrittenSoFar
    <2>1. CASE t = s
      <3>1. Prefix(saver'[s].of, 0) = <<>>
        BY DEF Prefix
      <3> QED BY <1>3, <2>1, <3>1
    <2>2. CASE t # s
      <3>1. saver[t].inode # i
        BY <1>6, <1>9, <2>2
      <3> QED BY <1>3, <1>4, <1>6, <2>2, <3>1, WritersAre DEF FilesInv, WrittenSoFar
    <2> QED BY <2>1, <2>2
  <1>14. OwnTmp'
    <2> SUFFICES ASSUME NEW t \in Savers, Writing(t)', ~InPlace(t)', dir'[TmpOf(t)'] # NoFile,
                        dir'[TmpOf(t)'] \notin torn'
                 PROVE  saver'[t].inode = dir'[TmpOf(t)']
      BY DEF OwnTmp
    <2>1. CASE t = s
      BY <1>2, <1>3, <1>5, <2>1
    <2>2. CASE t # s /\ TmpOf(t) = T
      <3>1. SharesTarget(s)
        BY <1>1, <1>6, <2>2, WritersAre DEF SharesTarget
      <3> QED BY <1>3, <1>4, <1>6, <2>2, <3>1
    <2>3. CASE t # s /\ TmpOf(t) # T
      <3>1. Writing(t) /\ TmpOf(t) \in Files /\ ~InPlace(t) /\ dir'[TmpOf(t)] = dir[TmpOf(t)]
        BY <1>3, <1>6, <2>3, WritersAre
      <3>2. dir'[TmpOf(t)] # i
        BY <1>2, <1>3, <1>8, <2>3, <3>1 DEF LinkedOnce
      <3>3. dir[TmpOf(t)] # NoFile /\ dir[TmpOf(t)] \notin torn
        BY <1>4, <1>6, <2>3, <3>1, <3>2
      <3> QED BY <1>6, <2>3, <3>1, <3>3 DEF FilesInv, OwnTmp
    <2> QED BY <2>1, <2>2, <2>3
  <1> QED BY <1>8, <1>10, <1>11, <1>12, <1>13, <1>14 DEF FilesInv

LEMMA WriteKeepsFiles ==
    ASSUME Typed, Typed', FilesInv, NEW s \in Savers, Write(s)
    PROVE  FilesInv'
  <1>1. PICK i, x, at : i = saver[s].inode /\ x = saver[s].of /\ at = saver[s].at
    OBVIOUS
  <1>2. /\ i \in Inodes /\ x \in Contents /\ at \in Nat
        /\ data'[i] = Put(data[i], at + 1, Piece(x, at + 1))
        /\ \A j \in Inodes : j # i => data'[j] = data[j]
        /\ saver'[s].of = x /\ saver'[s].inode = i /\ saver'[s].at = at + 1
        /\ \A t \in Savers : t # s => saver'[t] = saver[t]
    BY <1>1, WriteIs
  <1>3. Writing(s) /\ dir' = dir /\ torn' = torn
    BY DEF Write
  <1>4. \A t \in Savers : Writing(t)' =>
            /\ Writing(t) /\ saver'[t].inode = saver[t].inode /\ saver'[t].of = saver[t].of
            /\ TmpOf(t)' = TmpOf(t) /\ InPlace(t)' = InPlace(t) /\ Target(t)' = Target(t)
    BY <1>1, <1>2, <1>3, SameTarget DEF Writing
  <1>5. LinkedOnce'
    BY <1>3 DEF FilesInv, LinkedOnce
  <1>6. NamedByTarget'
    BY <1>3, <1>4 DEF FilesInv, NamedByTarget
  <1>7. SharedIsTorn'
    BY <1>3, <1>4 DEF FilesInv, SharedIsTorn
  <1>8. SeenIsTorn'
    BY <1>3, <1>4 DEF FilesInv, SeenIsTorn
  <1>9. WrittenSoFar'
    <2> SUFFICES ASSUME NEW t \in Savers, Writing(t)', saver'[t].inode \notin torn'
                 PROVE  data'[saver'[t].inode] = Prefix(saver'[t].of, saver'[t].at)
      BY DEF WrittenSoFar
    <2>1. CASE t = s
      <3>1. data[i] = Prefix(x, at)
        BY <1>1, <1>2, <1>3, <2>1 DEF FilesInv, WrittenSoFar
      <3>2. InPosition(data[i]) /\ at + 1 \in Nat /\ at + 1 >= 1 /\ (at + 1) - 1 = at
        BY <1>2 DEF Typed
      <3>3. Put(data[i], at + 1, Piece(x, at + 1)) = Prefix(x, at + 1)
        BY <1>2, <3>1, <3>2, PutsChunk
      <3> QED BY <1>2, <2>1, <3>3
    <2>2. CASE t # s
      <3>1. saver[t].inode # i
        BY <1>1, <1>3, <1>4, <2>2 DEF FilesInv, SharedIsTorn
      <3> QED BY <1>2, <1>3, <1>4, <2>2, <3>1, WritersAre DEF FilesInv, WrittenSoFar
    <2> QED BY <2>1, <2>2
  <1>10. OwnTmp'
    BY <1>3, <1>4 DEF FilesInv, OwnTmp
  <1> QED BY <1>5, <1>6, <1>7, <1>8, <1>9, <1>10 DEF FilesInv

LEMMA NextFiles == Typed /\ FilesInv /\ [Next]_vars => FilesInv'
  <1> SUFFICES ASSUME Typed, FilesInv, [Next]_vars PROVE FilesInv'
    OBVIOUS
  <1>0. Typed'
    BY NextTyped
  <1>1. ASSUME NEW s \in Savers, NEW n \in DOMAIN Published, NEW o \in DOMAIN SaveOptions,
               SaveRefused(s, n, o) \/ BeginSave(s, n, o)
        PROVE  FilesInv'
    <2>1. \A t \in Savers : Writing(t)' => saver'[t] = saver[t]
      BY <1>1, SaveRefusedIs, BeginSaveIs DEF Writing
    <2>2. dir' = dir /\ data' = data /\ torn' = torn
      BY <1>1 DEF SaveRefused, BeginSave
    <2> QED BY <1>0, <2>1, <2>2, QuietKeepsFiles
  <1>2. ASSUME NEW s \in Savers, FinishInPlace(s) \/ SaveFails(s) PROVE FilesInv'
    <2>1. \A t \in Savers : Writing(t)' => saver'[t] = saver[t]
      BY <1>2, ReturnOK, SaveFailsIs DEF FinishInPlace, Writing
    <2>2. data' = Freed(dir', data, saver', loader') /\ torn' = torn
      BY <1>2 DEF FinishInPlace, SaveFails
    <2>3. \A n \in Files : dir'[n] = dir[n] \/ dir'[n] = NoFile
      BY <1>2, SaveFailsIs DEF FinishInPlace
    <2>4. \A t \in Savers : Writing(t)' => data'[saver'[t].inode] = data[saver'[t].inode]
      BY <1>0, <2>2, FreedKeepsWritten
    <2> QED BY <1>0, <2>1, <2>2, <2>3, <2>4, QuietKeepsFiles
  <1>3. ASSUME NEW p \in Processes, Crash(p) PROVE FilesInv'
    <2>1. \A t \in Savers : Writing(t)' => saver'[t] = saver[t]
      BY <1>3, CrashIs DEF Writing, IdleSaver, SaverOf
    <2>2. data' = Freed(dir', data, saver', loader') /\ torn' = torn /\ dir' = dir
      BY <1>3 DEF Crash
    <2>3. \A t \in Savers : Writing(t)' => data'[saver'[t].inode] = data[saver'[t].inode]
      BY <1>0, <2>2, FreedKeepsWritten
    <2> QED BY <1>0, <2>1, <2>2, <2>3, QuietKeepsFiles
  <1>4. ASSUME NEW l \in Loaders, Decode(l) PROVE FilesInv'
    <2>1. data' = Freed(dir', data, saver', loader') /\ torn' = torn /\ dir' = dir /\ saver' = saver
      BY <1>4 DEF Decode
    <2>2. \A t \in Savers : Writing(t)' => data'[saver'[t].inode] = data[saver'[t].inode]
      BY <1>0, <2>1, FreedKeepsWritten
    <2> QED BY <1>0, <2>1, <2>2, QuietKeepsFiles
  <1>5. ASSUME UNCHANGED <<dir, data, saver, torn>> PROVE FilesInv'
    BY <1>0, <1>5, QuietKeepsFiles
  <1>6. ASSUME NEW l \in Loaders, NEW o \in LoadOptions, LoadRefused(l, o) \/ Open(l, o)
        PROVE  FilesInv'
    BY <1>5, <1>6 DEF LoadRefused, Open
  <1>7. ASSUME NEW l \in Loaders, Read(l) \/ Forget(l) PROVE FilesInv'
    BY <1>5, <1>7 DEF Read, Forget
  <1>8. CASE UNCHANGED vars
    BY <1>5, <1>8 DEF vars
  <1> QED BY <1>0, <1>1, <1>2, <1>3, <1>4, <1>6, <1>7, <1>8, RenameKeepsFiles, CreateKeepsFiles,
            WriteKeepsFiles DEF Next

LEMMA FilesInvariant == Spec => []FilesInv
BY TypedInvariant, InitFiles, NextFiles, PTL DEF Spec

-----------------------------------------------------------------------------
(* Saves are atomic.                                                       *)

LEMMA SameContent ==
    ASSUME dir'[Path] = dir[Path], dir[Path] # NoFile => data'[dir[Path]] = data[dir[Path]]
    PROVE  Content(dir', data') = Content(dir, data)
BY DEF Content

(* The file that an uncompressed save renames is the one it has written.   *)
LEMMA RenameIsAtomic ==
    ASSUME Typed, Typed', FilesInv, NEW s \in Savers, Rename(s), dir'[Path] \notin torn'
    PROVE  /\ Content(dir', data') # Content(dir, data) => Saved(WholeFile(Content(dir', data')))
           /\ saver'[s].outcome = "ok" => Content(dir', data') = FileOf(saver[s].of)
  <1>1. /\ Writing(s) /\ ~InPlace(s) /\ saver[s].at = FileLen(saver[s].of) /\ torn' = torn
        /\ data' = Freed(dir', data, saver', loader')
    BY DEF Rename, Written
  <1>2. dir'[Path] # NoFile => data'[dir'[Path]] = data[dir'[Path]]
    BY <1>1, FreedKeepsPath
  <1>3. CASE dir' = dir /\ saver'[s].outcome = "err"
    BY <1>2, <1>3, SameContent
  <1>4. CASE dir[TmpOf(s)] # NoFile /\ dir'[Path] = dir[TmpOf(s)]
    <2>1. PICK i : i = dir[TmpOf(s)]
      OBVIOUS
    <2>2. i # NoFile /\ i \notin torn /\ dir'[Path] = i
      BY <1>1, <1>4, <2>1
    <2>3. saver[s].inode = i
      BY <1>1, <2>1, <2>2 DEF FilesInv, OwnTmp
    <2>4. data[i] = FileOf(saver[s].of)
      BY <1>1, <2>2, <2>3, FileIsPrefix DEF FilesInv, WrittenSoFar
    <2>5. Content(dir', data') = FileOf(saver[s].of)
      BY <1>2, <2>2, <2>4 DEF Content
    <2>6. Saved(saver[s].of) /\ saver[s].of \in Contents
      BY <1>1 DEF Typed, SaverOK, Writing, Saved, Contents
    <2> QED BY <2>5, <2>6, WholeFileOf
  <1> QED BY <1>3, <1>4, RenameIs

LEMMA StepIsAtomic ==
    ASSUME Typed, FilesInv, Next, dir'[Path] \notin torn'
    PROVE  /\ Content(dir', data') # Content(dir, data) => Saved(WholeFile(Content(dir', data')))
           /\ \A s \in Savers :
                 saver[s].pc # "idle" /\ ~InPlace(s) /\ saver'[s].outcome = "ok" =>
                     Content(dir', data') = FileOf(saver[s].of)
  <1> DEFINE Goal == /\ Content(dir', data') # Content(dir, data) => Saved(WholeFile(Content(dir', data')))
                     /\ \A s \in Savers :
                           saver[s].pc # "idle" /\ ~InPlace(s) /\ saver'[s].outcome = "ok" =>
                               Content(dir', data') = FileOf(saver[s].of)
  <1>0. Typed' /\ Path \in Files
    BY NextTyped DEF Files
  <1>1. \A s \in Savers : saver[s].pc # "idle" => saver[s].outcome = "none"
    BY DEF Typed, SaverOK
  <1>2. ASSUME Content(dir', data') = Content(dir, data),
               \A s \in Savers : saver[s].pc = "idle" \/ InPlace(s) \/ saver'[s].outcome # "ok"
        PROVE  Goal
    BY <1>2
  <1>3. ASSUME NEW s \in Savers, NEW n \in DOMAIN Published, NEW o \in DOMAIN SaveOptions,
               SaveRefused(s, n, o) \/ BeginSave(s, n, o)
        PROVE  Goal
    <2>1. saver[s].pc = "idle" /\ dir' = dir /\ data' = data
      BY <1>3 DEF SaveRefused, BeginSave
    <2>2. \A t \in Savers : t # s => saver'[t] = saver[t]
      BY <1>3, SaveRefusedIs, BeginSaveIs
    <2> QED BY <1>1, <1>2, <2>1, <2>2
  <1>4. ASSUME NEW s \in Savers, Create(s) PROVE Goal
    <2>1. PICK T, i : T = Target(s) /\ i = InodeAt(T)
      OBVIOUS
    <2>2. /\ i \in Inodes /\ (dir[T] = i \/ i \notin Used(dir, saver, loader))
          /\ dir'[T] = i /\ \A n \in Files : n # T => dir'[n] = dir[n]
          /\ \A j \in Inodes : j # i => data'[j] = data[j]
          /\ saver'[s].outcome = "none" /\ \A t \in Savers : t # s => saver'[t] = saver[t]
      BY <1>4, <2>1, CreateIs
    <2>3. T \in Files /\ (T = Path => InPlace(s))
      BY <1>4, <2>1, TmpNamesOfSavers DEF Create, Target
    <2>4. T # Path
      BY <1>4, <2>1, <2>2, <2>3 DEF Create
    <2>5. dir'[Path] = dir[Path] /\ dir[Path] # i
      <3>1. dir[Path] \in Used(dir, saver, loader)
        BY <1>0 DEF Used, Typed
      <3>2. i # NoFile
        BY <2>2, SnapshotConstants
      <3> QED BY <1>0, <2>2, <2>3, <2>4, <3>1, <3>2 DEF FilesInv, LinkedOnce
    <2>6. dir[Path] # NoFile => dir[Path] \in Inodes
      BY <1>0 DEF Typed
    <2>7. Content(dir', data') = Content(dir, data)
      BY <2>2, <2>5, <2>6, SameContent
    <2> QED BY <1>1, <1>2, <2>2, <2>7
  <1>5. ASSUME NEW s \in Savers, Write(s) PROVE Goal
    <2>1. PICK i : i = saver[s].inode
      OBVIOUS
    <2>2. /\ dir' = dir /\ torn' = torn /\ Writing(s)
          /\ \A j \in Inodes : j # i => data'[j] = data[j]
          /\ saver'[s].outcome = "none" /\ \A t \in Savers : t # s => saver'[t] = saver[t]
      BY <1>5, <2>1, WriteIs DEF Write
    <2>3. dir[Path] # i
      BY <2>1, <2>2 DEF FilesInv, SeenIsTorn
    <2>4. dir[Path] # NoFile => dir[Path] \in Inodes
      BY <1>0 DEF Typed
    <2>5. Content(dir', data') = Content(dir, data)
      BY <2>2, <2>3, <2>4, SameContent
    <2> QED BY <1>1, <1>2, <2>2, <2>5
  <1>6. ASSUME NEW s \in Savers, Rename(s) PROVE Goal
    <2>1. \A t \in Savers : t # s => saver'[t] = saver[t]
      BY <1>6, RenameIs
    <2> QED BY <1>0, <1>1, <1>6, <2>1, RenameIsAtomic
  <1>7. ASSUME dir'[Path] = dir[Path], data' = Freed(dir', data, saver', loader')
        PROVE  Content(dir', data') = Content(dir, data)
    BY <1>0, <1>7, FreedKeepsPath, SameContent
  <1>8. ASSUME NEW s \in Savers, FinishInPlace(s) PROVE Goal
    <2>1. \A t \in Savers : t # s => saver'[t] = saver[t]
      BY <1>8, ReturnOK DEF FinishInPlace
    <2>2. InPlace(s) /\ dir' = dir /\ data' = Freed(dir', data, saver', loader')
      BY <1>8 DEF FinishInPlace
    <2> QED BY <1>1, <1>2, <1>7, <2>1, <2>2
  <1>9. ASSUME NEW s \in Savers, SaveFails(s) PROVE Goal
    <2>1. dir'[Path] = dir[Path] /\ saver'[s].outcome = "err"
          /\ \A t \in Savers : t # s => saver'[t] = saver[t]
      BY <1>0, <1>9, SaveFailsIs
    <2>2. data' = Freed(dir', data, saver', loader')
      BY <1>9 DEF SaveFails
    <2> QED BY <1>1, <1>2, <1>7, <2>1, <2>2
  <1>10. ASSUME NEW p \in Processes, Crash(p) PROVE Goal
    <2>1. dir' = dir /\ data' = Freed(dir', data, saver', loader')
      BY <1>10 DEF Crash
    <2>2. \A t \in Savers : saver'[t].outcome = "none" \/ saver'[t] = saver[t]
      BY <1>10, CrashIs DEF IdleSaver, SaverOf
    <2> QED BY <1>1, <1>2, <1>7, <2>1, <2>2
  <1>11. ASSUME dir' = dir, saver' = saver, data' = data \/ data' = Freed(dir', data, saver', loader')
         PROVE  Goal
    BY <1>1, <1>2, <1>7, <1>11
  <1>12. ASSUME NEW l \in Loaders, NEW o \in LoadOptions, LoadRefused(l, o) \/ Open(l, o)
         PROVE  Goal
    BY <1>11, <1>12 DEF LoadRefused, Open
  <1>13. ASSUME NEW l \in Loaders, Read(l) \/ Forget(l) \/ Decode(l) PROVE Goal
    BY <1>11, <1>13 DEF Read, Forget, Decode
  <1> QED BY <1>3, <1>4, <1>5, <1>6, <1>8, <1>9, <1>10, <1>12, <1>13 DEF Next

(* write_uncompressed_snapshot_file is atomic for any number of savers and *)
(* processes that write, fail and crash at one path: unless a compressed   *)
(* save wrote that file in place or two saves shared its temporary name,   *)
(* the path changes only to a complete saved file, and a save that reports *)
(* success has put its own file there.                                     *)
THEOREM UncompressedSavesAreAtomic == Spec => SavesAreAtomic
  <1>1. Typed /\ FilesInv /\ [Next]_vars =>
            [dir'[Path] \notin torn' =>
                /\ Content(dir', data') # Content(dir, data) =>
                      Saved(WholeFile(Content(dir', data')))
                /\ \A s \in Savers :
                      saver[s].pc # "idle" /\ ~InPlace(s) /\ saver'[s].outcome = "ok" =>
                          Content(dir', data') = FileOf(saver[s].of)]_vars
    BY StepIsAtomic
  <1> QED BY <1>1, TypedInvariant, FilesInvariant, PTL DEF Spec, SavesAreAtomic

-----------------------------------------------------------------------------
(* Loads return whole files.                                               *)

LEMMA InitLoads == Init => LoadsInv
  <1> SUFFICES ASSUME Init, NEW l \in Loaders
               PROVE  Undisturbed(l) /\ LoadedWhole(l) /\ UndisturbedLoads(l)
    BY DEF LoadsInv
  <1>1. loader[l].pc = "idle" /\ loader[l].result = "none"
    BY DEF Init, IdleLoader
  <1> QED BY <1>1 DEF Undisturbed, LoadedWhole, UndisturbedLoads

(* A loader that is as it was, and so is the file it reads.                *)
LEMMA KeptLoader ==
    ASSUME Typed, LoadsInv, NEW l \in Loaders, foreign' = foreign, loader'[l] = loader[l],
           loader[l].pc = "read" => data'[loader[l].inode] = data[loader[l].inode]
    PROVE  Undisturbed(l)' /\ LoadedWhole(l)' /\ UndisturbedLoads(l)'
  <1>1. Undisturbed(l) /\ LoadedWhole(l) /\ UndisturbedLoads(l)
    BY DEF LoadsInv
  <1>2. Undisturbed(l)'
    BY <1>1 DEF Undisturbed
  <1>3. LoadedWhole(l)'
    BY <1>1 DEF LoadedWhole, Loads
  <1>4. UndisturbedLoads(l)'
    BY <1>1 DEF UndisturbedLoads, Loads
  <1> QED BY <1>2, <1>3, <1>4

(* A loader that reads and does not know what it opened, or that is idle.  *)
LEMMA LoaderWithoutFile ==
    ASSUME NEW l \in Loaders, loader'[l].result # "loaded", loader'[l].opened = NoContent
    PROVE  Undisturbed(l)' /\ LoadedWhole(l)' /\ UndisturbedLoads(l)'
  <1>1. ~Saved(NoContent)
    BY ContentsDiffer DEF Saved, Contents
  <1> QED BY <1>1 DEF Undisturbed, LoadedWhole, UndisturbedLoads

LEMMA FreedKeepsRead ==
    ASSUME Typed, Typed', NEW l \in Loaders, loader'[l] = loader[l], loader[l].pc = "read",
           data' = Freed(dir', data, saver', loader')
    PROVE  data'[loader[l].inode] = data[loader[l].inode]
  <1>1. loader[l].inode \in Inodes
    BY DEF Typed, LoaderOK
  <1>2. loader[l].inode \in Used(dir', saver', loader')
    BY DEF Used
  <1> QED BY <1>1, <1>2, FreedInPosition

(* A step that writes inode i disturbs the loaders that have it open.      *)
LEMMA WritingKeepsLoads ==
    ASSUME Typed, LoadsInv, foreign' = foreign, NEW i \in Inodes, loader' = Disturbed(i),
           \A j \in Inodes : j # i => data'[j] = data[j]
    PROVE  LoadsInv'
  <1> SUFFICES ASSUME NEW l \in Loaders
               PROVE  Undisturbed(l)' /\ LoadedWhole(l)' /\ UndisturbedLoads(l)'
    BY DEF LoadsInv
  <1>1. LoaderOK(loader[l])
    BY DEF Typed
  <1>2. CASE loader[l].inode # i
    <2>1. loader'[l] = loader[l]
      BY <1>2, DisturbedOK
    <2>2. loader[l].pc = "read" => loader[l].inode \in Inodes
      BY <1>1 DEF LoaderOK
    <2> QED BY <1>2, <2>1, <2>2, KeptLoader
  <1>3. CASE loader[l].inode = i
    <2>1. loader'[l] = [loader[l] EXCEPT !.opened = NoContent]
      BY <1>3, DisturbedOK
    <2>2. loader[l].pc = "read" /\ loader[l].result = "none"
      BY <1>1, <1>3, SnapshotConstants DEF LoaderOK
    <2>3. loader'[l].opened = NoContent /\ loader'[l].result = "none"
      BY <1>1, <2>1, <2>2 DEF LoaderOK
    <2> QED BY <2>3, LoaderWithoutFile
  <1> QED BY <1>2, <1>3

LEMMA OpenKeepsLoads ==
    ASSUME Typed, LoadsInv, NEW l \in Loaders, NEW o \in LoadOptions, Open(l, o)
    PROVE  Undisturbed(l)' /\ LoadedWhole(l)' /\ UndisturbedLoads(l)'
  <1>1. PICK i, c, x : i = dir[Path] /\ c = data[i] /\ x = WholeFile(c)
    OBVIOUS
  <1>2. /\ i \in Inodes /\ data' = data
        /\ loader'[l].pc = "read" /\ loader'[l].inode = i /\ loader'[l].got = <<>>
        /\ loader'[l].len = Len(c) /\ loader'[l].result = "none" /\ loader'[l].opened = x
    BY <1>1, OpenIs DEF Open
  <1>3. InPosition(c)
    BY <1>1, <1>2 DEF Typed
  <1>4. ASSUME x # NoContent PROVE x \in Contents /\ c = FileOf(x) /\ Len(c) = FileLen(x)
    <2>1. x \in Contents /\ c = FileOf(x)
      BY <1>1, <1>3, <1>4, WholeFileIs
    <2> QED BY <2>1, FileIsPrefix, FileLengths, PrefixIsSeq DEF MaybeContents
  <1>5. Len(<<>>) = 0 /\ Prefix(x, 0) = <<>>
    BY DEF Prefix
  <1>6. Undisturbed(l)'
    BY <1>1, <1>2, <1>4, <1>5 DEF Undisturbed
  <1> QED BY <1>2, <1>6 DEF LoadedWhole, UndisturbedLoads

LEMMA ReadKeepsLoads ==
    ASSUME Typed, LoadsInv, NEW l \in Loaders, Read(l)
    PROVE  Undisturbed(l)' /\ LoadedWhole(l)' /\ UndisturbedLoads(l)'
  <1>1. PICK i, got, x : i = loader[l].inode /\ got = loader[l].got /\ x = loader[l].opened
    OBVIOUS
  <1>2. /\ Len(got) \in Nat /\ Len(got) < loader[l].len /\ data' = data
        /\ loader'[l].pc = "read" /\ loader'[l].inode = i /\ loader'[l].len = loader[l].len
        /\ loader'[l].opened = x /\ loader'[l].got = Append(got, data[i][Len(got) + 1])
        /\ loader'[l].result = "none"
    BY <1>1, ReadIs DEF Read
  <1>3. LoaderOK(loader[l]) /\ loader[l].pc = "read"
    BY DEF Typed, Read
  <1>4. got \in Seq(Pieces) /\ x \in MaybeContents
    BY <1>1, <1>3 DEF LoaderOK
  <1>5. ASSUME x # NoContent
        PROVE  /\ data[i] = FileOf(x) /\ loader[l].len = FileLen(x)
               /\ Append(got, data[i][Len(got) + 1]) = Prefix(x, Len(got) + 1)
               /\ Len(Append(got, data[i][Len(got) + 1])) = Len(got) + 1
    <2>1. data[i] = FileOf(x) /\ loader[l].len = FileLen(x) /\ got = Prefix(x, Len(got))
      BY <1>1, <1>3, <1>5 DEF LoadsInv, Undisturbed
    <2>2. PICK n : n = Len(got)
      OBVIOUS
    <2>3. n \in Nat /\ n < FileLen(x) /\ n + 1 \in 1..FileLen(x)
      BY <1>2, <2>1, <2>2, FileLengths
    <2>4. data[i][n + 1] = Piece(x, n + 1) /\ Piece(x, n + 1) \in Pieces
      <3>1. data[i][n + 1] = Piece(x, n + 1)
        BY <1>4, <2>1, <2>3, FileIsPrefix, FileLengths, PrefixIsSeq
      <3>2. Piece(x, n + 1) \in Pieces
        BY <1>4, <2>3 DEF Piece, Pieces
      <3> QED BY <3>1, <3>2
    <2>5. \A j \in 1..n : got[j] = Piece(x, j)
      BY <1>4, <2>1, <2>2, <2>3, PrefixIsSeq
    <2>6. PICK e : e = Piece(x, n + 1)
      OBVIOUS
    <2>7. /\ Append(got, e) \in Seq(Pieces) /\ Len(Append(got, e)) = n + 1
          /\ Append(got, e)[n + 1] = e /\ \A j \in 1..n : Append(got, e)[j] = got[j]
      BY <1>4, <2>2, <2>3, <2>4, <2>6
    <2>8. \A j \in 1..(n + 1) : Append(got, e)[j] = Piece(x, j)
      <3>1. \A j \in 1..(n + 1) : j \in 1..n \/ j = n + 1
        BY <2>3
      <3> QED BY <2>5, <2>6, <2>7, <3>1
    <2>9. Append(got, e) = Prefix(x, n + 1)
      <3>1. PICK q : q = Append(got, e)
        OBVIOUS
      <3>2. q \in Seq(Pieces) /\ Len(q) = n + 1 /\ \A j \in 1..(n + 1) : q[j] = Piece(x, j)
        BY <2>7, <2>8, <3>1
      <3>3. q = [j \in 1..(n + 1) |-> q[j]]
        BY <2>3, <3>2
      <3> QED BY <3>1, <3>2, <3>3 DEF Prefix
    <2> QED BY <2>1, <2>2, <2>4, <2>6, <2>7, <2>9
  <1>6. Undisturbed(l)'
    BY <1>1, <1>2, <1>5 DEF Undisturbed
  <1> QED BY <1>2, <1>6 DEF LoadedWhole, UndisturbedLoads

(* Everything of the file that was opened has been read by the end.        *)
LEMMA DecodeKeepsLoads ==
    ASSUME Typed, LoadsInv, NEW l \in Loaders, Decode(l)
    PROVE  Undisturbed(l)' /\ LoadedWhole(l)' /\ UndisturbedLoads(l)'
  <1>1. PICK got, len, o, y : /\ got = loader[l].got /\ len = loader[l].len
                              /\ o = loader[l].opts /\ y = loader[l].opened
    OBVIOUS
  <1>2. LoaderOK(loader[l]) /\ loader[l].pc = "read" /\ AtEnd(l) /\ foreign' = foreign
    BY DEF Typed, Decode
  <1>3. InPosition(got) /\ len \in Nat /\ o \in LoadOptions /\ y \in MaybeContents /\ Len(got) <= len
    BY <1>1, <1>2 DEF LoaderOK
  <1>4. PICK x \in Parsed(got, len, o) :
            /\ loader'[l].result = "loaded" <=> x \in Contents /\ Loads(x, o)
            /\ loader'[l].result = "loaded" => loader'[l].store = x
    BY <1>1, DecodeIs
  <1>5. loader'[l].pc = "done" /\ loader'[l].opts = o /\ loader'[l].opened = y /\ loader'[l].read = got
    BY <1>1, DecodeIs
  <1>6. \A z : Loads(z, o)' <=> Loads(z, o)
    BY <1>2 DEF Loads
  <1>7. ASSUME y # NoContent PROVE y \in Contents /\ got = FileOf(y) /\ len = FileLen(y)
    <2>1. y \in Contents
      BY <1>3, <1>7 DEF MaybeContents
    <2>2. /\ data[loader[l].inode] = FileOf(y) /\ len = FileLen(y) /\ got = Prefix(y, Len(got))
      BY <1>1, <1>2, <1>7 DEF LoadsInv, Undisturbed
    <2>3. Len(data[loader[l].inode]) = FileLen(y)
      BY <2>1, <2>2, FileIsPrefix, FileLengths, PrefixIsSeq DEF MaybeContents
    <2>4. Len(got) = FileLen(y)
      <3>1. Len(got) \in Nat /\ (Len(got) >= len \/ Len(got) >= Len(data[loader[l].inode]))
        BY <1>1, <1>2, AtEndIs
      <3> QED BY <1>3, <2>2, <2>3, <3>1
    <2> QED BY <2>1, <2>2, <2>4, FileIsPrefix
  <1>8. Undisturbed(l)'
    BY <1>5 DEF Undisturbed
  <1>9. LoadedWhole(l)'
    <2> SUFFICES ASSUME loader'[l].result = "loaded"
                 PROVE  /\ o \in LoadOptions /\ x \in Contents /\ Loads(x, o)
                        /\ o.integrity = "checksum" => FileOf(x) = got /\ (y # NoContent => y = x)
      BY <1>4, <1>5, <1>6 DEF LoadedWhole
    <2>1. x \in Contents /\ Loads(x, o)
      BY <1>4
    <2>2. o.integrity = "checksum" => got = FileOf(x)
      BY <1>3, <1>4, <2>1, ParsedIs
    <2> QED BY <1>3, <1>7, <2>1, <2>2, SameFile
  <1>10. UndisturbedLoads(l)'
    <2> SUFFICES ASSUME Saved(y), Fits(o, y), Loads(y, o)
                 PROVE  loader'[l].result = "loaded" /\ loader'[l].store = y
      BY <1>3, <1>5, <1>6 DEF UndisturbedLoads
    <2>1. y \in SavedContents /\ y \in Contents /\ y # NoContent
      BY ContentsDiffer DEF Saved, Contents
    <2>2. Parsed(got, len, o) = {y}
      BY <1>3, <1>7, <2>1, WholeIsParsed
    <2>3. x = y
      BY <1>4, <2>2
    <2> QED BY <1>4, <2>1, <2>3
  <1> QED BY <1>8, <1>9, <1>10

LEMMA NextLoads == Typed /\ LoadsInv /\ [Next]_vars => LoadsInv'
  <1> SUFFICES ASSUME Typed, LoadsInv, [Next]_vars PROVE LoadsInv'
    OBVIOUS
  <1>0. Typed'
    BY NextTyped
  <1>1. ASSUME loader' = loader, foreign' = foreign,
               data' = data \/ data' = Freed(dir', data, saver', loader')
        PROVE  LoadsInv'
    BY <1>0, <1>1, KeptLoader, FreedKeepsRead DEF LoadsInv
  <1>2. ASSUME NEW s \in Savers, NEW n \in DOMAIN Published, NEW o \in DOMAIN SaveOptions,
               SaveRefused(s, n, o) \/ BeginSave(s, n, o)
        PROVE  LoadsInv'
    BY <1>1, <1>2 DEF SaveRefused, BeginSave
  <1>3. ASSUME NEW s \in Savers, Rename(s) \/ FinishInPlace(s) \/ SaveFails(s) PROVE LoadsInv'
    BY <1>1, <1>3 DEF Rename, FinishInPlace, SaveFails
  <1>4. ASSUME NEW p \in Processes, Crash(p) PROVE LoadsInv'
    BY <1>1, <1>4 DEF Crash
  <1>5. ASSUME NEW s \in Savers, Create(s) PROVE LoadsInv'
    <2>1. PICK i : i = InodeAt(Target(s))
      OBVIOUS
    <2>2. foreign' = foreign
      BY <1>5 DEF Create
    <2> QED BY <1>5, <2>1, <2>2, CreateIs, WritingKeepsLoads
  <1>6. ASSUME NEW s \in Savers, Write(s) PROVE LoadsInv'
    <2>1. PICK i : i = saver[s].inode
      OBVIOUS
    <2>2. foreign' = foreign
      BY <1>6 DEF Write
    <2> QED BY <1>6, <2>1, <2>2, WriteIs, WritingKeepsLoads
  <1>7. ASSUME NEW l \in Loaders, foreign' = foreign,
               \A k \in Loaders : k # l => loader'[k] = loader[k],
               Undisturbed(l)' /\ LoadedWhole(l)' /\ UndisturbedLoads(l)',
               data' = data \/ data' = Freed(dir', data, saver', loader')
        PROVE  LoadsInv'
    BY <1>0, <1>7, KeptLoader, FreedKeepsRead DEF LoadsInv
  <1>8. ASSUME NEW l \in Loaders, NEW o \in LoadOptions, LoadRefused(l, o) PROVE LoadsInv'
    <2>1. foreign' = foreign /\ data' = data
      BY <1>8 DEF LoadRefused
    <2>2. Undisturbed(l)' /\ LoadedWhole(l)' /\ UndisturbedLoads(l)'
      BY <1>8, LoadRefusedIs, LoaderWithoutFile
    <2>3. \A k \in Loaders : k # l => loader'[k] = loader[k]
      BY <1>8, LoadRefusedIs
    <2> QED BY <1>7, <2>1, <2>2, <2>3
  <1>9. ASSUME NEW l \in Loaders, NEW o \in LoadOptions, Open(l, o) PROVE LoadsInv'
    <2>1. foreign' = foreign /\ data' = data
      BY <1>9 DEF Open
    <2>2. \A k \in Loaders : k # l => loader'[k] = loader[k]
      BY <1>9, OpenIs
    <2> QED BY <1>7, <1>9, <2>1, <2>2, OpenKeepsLoads
  <1>10. ASSUME NEW l \in Loaders, Read(l) PROVE LoadsInv'
    <2>1. foreign' = foreign /\ data' = data
      BY <1>10 DEF Read
    <2>2. \A k \in Loaders : k # l => loader'[k] = loader[k]
      BY <1>10, ReadIs
    <2> QED BY <1>7, <1>10, <2>1, <2>2, ReadKeepsLoads
  <1>11. ASSUME NEW l \in Loaders, Decode(l) PROVE LoadsInv'
    <2>1. foreign' = foreign /\ data' = Freed(dir', data, saver', loader')
      BY <1>11 DEF Decode
    <2>2. \A k \in Loaders : k # l => loader'[k] = loader[k]
      BY <1>11, DecodeIs
    <2> QED BY <1>7, <1>11, <2>1, <2>2, DecodeKeepsLoads
  <1>12. ASSUME NEW l \in Loaders, Forget(l) PROVE LoadsInv'
    <2>1. foreign' = foreign /\ data' = data /\ loader' = [loader EXCEPT ![l] = IdleLoader]
      BY <1>12 DEF Forget
    <2>2. loader'[l] = IdleLoader /\ \A k \in Loaders : k # l => loader'[k] = loader[k]
      BY <2>1, IdleOK, OneLoader
    <2>3. loader'[l].result # "loaded" /\ loader'[l].opened = NoContent
      BY <2>2 DEF IdleLoader
    <2> QED BY <1>7, <2>1, <2>2, <2>3, LoaderWithoutFile
  <1>13. CASE UNCHANGED vars
    BY <1>1, <1>13 DEF vars
  <1> QED BY <1>2, <1>3, <1>4, <1>5, <1>6, <1>8, <1>9, <1>10, <1>11, <1>12, <1>13 DEF Next

LEMMA LoadsInvariant == Spec => []LoadsInv
BY TypedInvariant, InitLoads, NextLoads, PTL DEF Spec

(* load_snapshot_file, for any number of loads and saves at one path: a    *)
(* store comes from a complete file whose sections decode, never from a    *)
(* mixture if the digest is checked, and it is the file that was opened if *)
(* nobody wrote that very file; and a complete saved file that decodes is  *)
(* loaded, whatever is renamed over it or crashes meanwhile.               *)
THEOREM LoadsAreWhole == Spec => [](\A l \in Loaders : LoadedWhole(l) /\ UndisturbedLoads(l))
  <1>1. LoadsInv => \A l \in Loaders : LoadedWhole(l) /\ UndisturbedLoads(l)
    BY DEF LoadsInv
  <1> QED BY <1>1, LoadsInvariant, PTL

-----------------------------------------------------------------------------
(* What full validation accepts is consistent.                             *)

(* A non-empty set of numbers has a least one.                             *)
LEMMA LeastOf ==
    ASSUME NEW I \in SUBSET Nat, I # {}
    PROVE  \E n \in I : \A m \in I : n <= m
  <1> DEFINE R == OpToRel(<, Nat)
  <1>1. IsWellFoundedOn(R, Nat)
    BY NatLessThanWellFounded
  <1>2. \E n \in I : \A m \in I : ~ (<<m, n>> \in R)
    BY <1>1, WFMin
  <1>3. \A n, m \in Nat : <<m, n>> \in R <=> m < n
    BY DEF OpToRel
  <1>4. PICK n \in I : \A m \in I : ~ (<<m, n>> \in R)
    BY <1>2
  <1>5. \A m \in I : ~(m < n)
    BY <1>3, <1>4
  <1> HIDE DEF R
  <1> QED BY <1>5

(* The order of keys.                                                      *)
DiskKey == [1..3 -> Int]

LEMMA KeyOrder ==
    ASSUME NEW j \in DiskKey, NEW k \in DiskKey, NEW l \in DiskKey
    PROVE  /\ ~KeyLess(k, k)
           /\ KeyLess(j, k) /\ KeyLess(k, l) => KeyLess(j, l)
           /\ j = k \/ KeyLess(j, k) \/ KeyLess(k, j)
  <1>1. /\ j[1] \in Int /\ j[2] \in Int /\ j[3] \in Int
        /\ k[1] \in Int /\ k[2] \in Int /\ k[3] \in Int
        /\ l[1] \in Int /\ l[2] \in Int /\ l[3] \in Int
    BY DEF DiskKey
  <1>2. j[1] = k[1] /\ j[2] = k[2] /\ j[3] = k[3] => j = k
    BY DEF DiskKey
  <1> QED BY <1>1, <1>2 DEF KeyLess

(* Entries of which each is below the next have different keys.            *)
LEMMA SortedEntries ==
    ASSUME NEW n \in Nat, NEW entries, DOMAIN entries = 1..n,
           \A i \in 1..n : entries[i].key \in DiskKey,
           \A i \in 1..(n - 1) : KeyLess(entries[i].key, entries[i + 1].key)
    PROVE  \A i, j \in 1..n : entries[i].key = entries[j].key => i = j
  <1>1. \A i, j \in 1..n : i < j => KeyLess(entries[i].key, entries[j].key)
    <2> SUFFICES ASSUME NEW i \in 1..n, \E j \in 1..n : i < j /\ ~KeyLess(entries[i].key, entries[j].key)
                 PROVE  FALSE
      OBVIOUS
    <2> DEFINE bad == {j \in 1..n : i < j /\ ~KeyLess(entries[i].key, entries[j].key)}
    <2>0. bad # {} /\ bad \in SUBSET Nat
      OBVIOUS
    <2>1. PICK j \in bad : \A m \in bad : j <= m
      <3> HIDE DEF bad
      <3> QED BY <2>0, LeastOf
    <2>2. j \in 1..n /\ i < j /\ ~KeyLess(entries[i].key, entries[j].key)
      BY <2>1
    <2>3. j - 1 \in 1..n /\ j - 1 \in 1..(n - 1) /\ (j - 1) + 1 = j /\ i <= j - 1
      BY <2>2
    <2>4. KeyLess(entries[j - 1].key, entries[j].key)
      BY <2>3
    <2>5. j - 1 \notin bad
      BY <2>1, <2>3
    <2>6. i # j - 1
      BY <2>2, <2>4
    <2>7. KeyLess(entries[i].key, entries[j - 1].key)
      BY <2>3, <2>5, <2>6
    <2>8. entries[i].key \in DiskKey /\ entries[j].key \in DiskKey /\ entries[j - 1].key \in DiskKey
      BY <2>2, <2>3
    <2> QED BY <2>2, <2>4, <2>7, <2>8, KeyOrder
  <1> SUFFICES ASSUME NEW i \in 1..n, NEW j \in 1..n, entries[i].key = entries[j].key, i # j PROVE FALSE
    OBVIOUS
  <1>2. i < j \/ j < i
    OBVIOUS
  <1>3. entries[i].key \in DiskKey /\ entries[j].key \in DiskKey
    OBVIOUS
  <1> QED BY <1>1, <1>2, <1>3, KeyOrder

-----------------------------------------------------------------------------
(* What full validation establishes.                                       *)

RowShape(a, row) ==
    /\ row \in [1..6 -> 0..a.symbolCount]
    /\ \A f \in 1..5 : row[f] # 0

LEMMA FullRows ==
    ASSUME NEW a, Raw(a), RowsOK(a, "full")
    PROVE  /\ DOMAIN DiskRows(a) = 1..a.rowCount
           /\ \A i \in 1..a.rowCount : RowShape(a, DiskRows(a)[i])
           /\ \A i, j \in 1..a.rowCount : DiskRows(a)[i] = DiskRows(a)[j] => i = j
  <1>1. DOMAIN DiskRows(a) = 1..a.rowCount
    BY DEF DiskRows
  <1>2. ASSUME NEW i \in 1..a.rowCount PROVE RowShape(a, DiskRows(a)[i])
    <2> DEFINE row == DiskRows(a)[i]
    <2>1. \A f \in 1..6 : row[f] \in 1..a.symbolCount \/ (f = 6 /\ row[f] = 0)
      BY DEF RowsOK
    <2>2. DOMAIN row = 1..6 /\ row = [f \in 1..6 |-> row[f]]
      BY DEF DiskRows
    <2>3. a.symbolCount \in Nat
      BY DEF Raw
    <2>4. RowShape(a, row)
      <3> HIDE DEF row
      <3> QED BY <2>1, <2>2, <2>3 DEF RowShape
    <2> QED BY <2>4
  <1>3. ASSUME NEW i \in 1..a.rowCount, NEW j \in 1..(i - 1) PROVE DiskRows(a)[j] # DiskRows(a)[i]
    BY DEF RowsOK
  <1>4. ASSUME NEW i \in 1..a.rowCount, NEW j \in 1..a.rowCount, DiskRows(a)[i] = DiskRows(a)[j], i # j
        PROVE  FALSE
    <2>1. i \in 1..(j - 1) \/ j \in 1..(i - 1)
      BY <1>4
    <2> QED BY <1>3, <1>4, <2>1
  <1> QED BY <1>1, <1>2, <1>4

LEMMA FullSymbols ==
    ASSUME NEW a, Raw(a), SymbolsOK(a, "full")
    PROVE  /\ DOMAIN a.symbols = 1..a.symbolCount
           /\ \A i \in 1..a.symbolCount : a.symbols[i] \in Names /\ a.hashes[i] = HashValue[a.symbols[i]]
           /\ \A i, j \in 1..a.symbolCount : a.symbols[i] = a.symbols[j] => i = j
  <1>1. SymbolsIndexed(a) /\ Len(a.symbols) = a.symbolCount
    BY DEF SymbolsOK
  <1>2. DOMAIN a.symbols = 1..a.symbolCount /\ \A i \in 1..a.symbolCount : a.symbols[i] \in Names
    BY <1>1 DEF Raw
  <1>3. ASSUME NEW i \in 1..a.symbolCount, NEW j \in 1..(i - 1) PROVE a.symbols[j] # a.symbols[i]
    BY <1>1 DEF SymbolsIndexed
  <1>4. ASSUME NEW i \in 1..a.symbolCount, NEW j \in 1..a.symbolCount, a.symbols[i] = a.symbols[j], i # j
        PROVE  FALSE
    <2>1. i \in 1..(j - 1) \/ j \in 1..(i - 1)
      BY <1>4
    <2> QED BY <1>3, <1>4, <2>1
  <1> QED BY <1>1, <1>2, <1>4 DEF SymbolsIndexed

LEMMA LenDomain ==
    ASSUME NEW s, NEW n \in Nat, DOMAIN s = 1..n
    PROVE  Len(s) = n
  OBVIOUS

(* The entries of an index.                                                *)
EntryShape(a, x) ==
    /\ x.key \in DiskKey
    /\ \A n \in DOMAIN x.ids : x.ids[n] \in 1..a.rowCount

LEMMA PostingShape ==
    ASSUME NEW a, NEW r
    PROVE  \A n \in DOMAIN DecodePosting(a, r) : DecodePosting(a, r)[n] \in 1..a.rowCount
  BY DEF DecodePosting, ToSet

LEMMA KeyShape ==
    ASSUME NEW a, Raw(a), NEW e, NEW kind \in Kinds, e.kind = kind, NEW bytes, KeyOK(a, kind, DecodeKey(e, bytes))
    PROVE  DecodeKey(e, bytes) \in DiskKey
  <1> DEFINE key == DecodeKey(e, bytes)
  <1>1. DOMAIN key = 1..3 /\ key = [f \in 1..3 |-> key[f]]
    BY DEF DecodeKey
  <1>2. \A f \in 1..3 : f \in 1..KeyFieldCount[kind] \/ key[f] = 0
    BY DEF DecodeKey, Kinds, KeyFieldCount
  <1>3. \A f \in 1..KeyFieldCount[kind] : key[f] \in 1..a.symbolCount \/ key[f] = 0
    BY DEF KeyOK
  <1>4. a.symbolCount \in Nat
    BY DEF Raw
  <1>5. \A f \in 1..3 : key[f] \in Int
    <2> HIDE DEF key
    <2> QED BY <1>2, <1>3, <1>4
  <1>6. key \in DiskKey
    <2> HIDE DEF key
    <2> QED BY <1>1, <1>5 DEF DiskKey
  <1> QED BY <1>6

(* The directory has an entry for the kind, with as many keys as it says.  *)
LEMMA EntryOf ==
    ASSUME NEW a, Raw(a), IndexesOK(a, "full"), NEW kind \in Kinds
    PROVE  /\ Entry(a, kind).kind = kind
           /\ Entry(a, kind).rangeCount \in Nat /\ SingleCount(Entry(a, kind)) \in Nat
  <1>1. EntriesOK(a, kind)
    BY DEF IndexesOK
  <1>2. PICK i \in Kinds : a.dir[i].kind = kind
    BY <1>1 DEF EntriesOK
  <1>3. PICK j \in Kinds : a.dir[j].kind = kind /\ Entry(a, kind) = a.dir[j]
    BY <1>2 DEF Entry
  <1>4. a.dir[j].rangeCount <= a.dir[j].keyCount
    BY <1>3 DEF IndexesOK, LayoutOK
  <1>5. a.dir[j].rangeCount \in Nat /\ a.dir[j].keyCount \in Nat
    BY <1>3 DEF Raw
  <1> QED BY <1>3, <1>4, <1>5 DEF SingleCount

(* An index has one entry for a key, and lists row ids under it.           *)
LEMMA FullIndex ==
    ASSUME NEW a, Raw(a), IndexesOK(a, "full"), NEW kind \in Kinds
    PROVE  /\ \A x \in Merged(a, kind) : EntryShape(a, x)
           /\ \A x, y \in Merged(a, kind) : x.key = y.key => x = y
  <1> DEFINE e == Entry(a, kind)
             singles == Singles(a, e)
             multis == Multis(a, e)
  <1>1. e.kind = kind /\ e.rangeCount \in Nat /\ SingleCount(e) \in Nat
    BY EntryOf
  <1>2. DOMAIN singles = 1..SingleCount(e) /\ DOMAIN multis = 1..e.rangeCount
    BY DEF Singles, Multis
  <1>3. \A x \in Merged(a, kind) : KeyOK(a, kind, x.key)
    BY DEF IndexesOK, TrustedIndexOK
  <1>4. ASSUME NEW i \in 1..SingleCount(e) PROVE EntryShape(a, singles[i])
    <2>1. singles[i] \in Merged(a, kind)
      BY <1>2 DEF Merged, ToSet
    <2>2. PICK bytes, r : singles[i].key = DecodeKey(e, bytes) /\ singles[i].ids = DecodePosting(a, r)
      BY DEF Singles
    <2>3. singles[i].key \in DiskKey
      <3>1. KeyOK(a, kind, DecodeKey(e, bytes))
        BY <1>3, <2>1, <2>2
      <3> HIDE DEF e, singles
      <3> QED BY <1>1, <2>2, <3>1, KeyShape
    <2> QED BY <2>2, <2>3, PostingShape DEF EntryShape
  <1>5. ASSUME NEW i \in 1..e.rangeCount PROVE EntryShape(a, multis[i])
    <2>1. multis[i] \in Merged(a, kind)
      BY <1>2 DEF Merged, ToSet
    <2>2. PICK bytes, r : multis[i].key = DecodeKey(e, bytes) /\ multis[i].ids = DecodePosting(a, r)
      BY DEF Multis
    <2>3. multis[i].key \in DiskKey
      <3>1. KeyOK(a, kind, DecodeKey(e, bytes))
        BY <1>3, <2>1, <2>2
      <3> HIDE DEF e, multis
      <3> QED BY <1>1, <2>2, <3>1, KeyShape
    <2> QED BY <2>2, <2>3, PostingShape DEF EntryShape
  <1>6. \A x \in Merged(a, kind) :
            \/ \E i \in 1..SingleCount(e) : x = singles[i]
            \/ \E i \in 1..e.rangeCount : x = multis[i]
    BY <1>2 DEF Merged, ToSet
  <1>7. EntriesSorted(singles) /\ EntriesSorted(multis)
        /\ \A i \in DOMAIN singles, j \in DOMAIN multis : singles[i].key # multis[j].key
    BY DEF IndexesOK, EntriesOK
  <1>8. Len(singles) = SingleCount(e) /\ Len(multis) = e.rangeCount
    BY <1>1, <1>2, LenDomain
  <1> HIDE DEF e, singles, multis
  <1>9. \A i, j \in 1..SingleCount(e) : singles[i].key = singles[j].key => i = j
    <2>1. \A i \in 1..(SingleCount(e) - 1) : KeyLess(singles[i].key, singles[i + 1].key)
      BY <1>7, <1>8 DEF EntriesSorted
    <2> QED BY <1>1, <1>2, <1>4, <2>1, SortedEntries DEF EntryShape
  <1>10. \A i, j \in 1..e.rangeCount : multis[i].key = multis[j].key => i = j
    <2>1. \A i \in 1..(e.rangeCount - 1) : KeyLess(multis[i].key, multis[i + 1].key)
      BY <1>7, <1>8 DEF EntriesSorted
    <2> QED BY <1>1, <1>2, <1>5, <2>1, SortedEntries DEF EntryShape
  <1> QED BY <1>2, <1>4, <1>5, <1>6, <1>7, <1>9, <1>10

-----------------------------------------------------------------------------
(* Asking a store that was loaded with full validation.                    *)

LEMMA LoadedIs ==
    ASSUME NEW a
    PROVE  /\ Loaded(a, "full").rows = DiskRows(a) /\ Loaded(a, "full").symbols = a.symbols
           /\ Loaded(a, "full").hashes = a.hashes /\ Loaded(a, "full").lookup = <<>>
           /\ Loaded(a, "full").profile = a.profile
           /\ \A kind \in Kinds : Loaded(a, "full").index[kind] = Merged(a, kind)
  BY DEF Loaded

(* A name is found where it stands, or nowhere.                            *)
LEMMA FullLookup ==
    ASSUME NEW a, Raw(a), SymbolsOK(a, "full"), NEW name \in Names
    PROVE  LET id == Lookup(Loaded(a, "full"), name)
           IN  \/ id \in 1..a.symbolCount /\ a.symbols[id] = name
               \/ id = 0 /\ \A i \in 1..a.symbolCount : a.symbols[i] # name
  <1> DEFINE store == Loaded(a, "full")
             ids == [i \in DOMAIN a.symbols |-> i]
             I == {i \in 1..a.symbolCount : a.symbols[i] = name}
             at == IF I # {} THEN Min(I) ELSE 0
  <1>1. /\ DOMAIN a.symbols = 1..a.symbolCount /\ a.symbolCount \in Nat
        /\ \A i \in 1..a.symbolCount : a.symbols[i] \in Names /\ a.hashes[i] = HashValue[a.symbols[i]]
    BY FullSymbols DEF Raw
  <1>2. Len(ids) = a.symbolCount
    BY <1>1, LenDomain
  <1>3. {i \in 1..Len(ids) : store.hashes[ids[i]] = HashValue[name] /\ store.symbols[ids[i]] = name} = I
    BY <1>1, <1>2, LoadedIs
  <1>4. Lookup(store, name) = IF at = 0 THEN 0 ELSE ids[at]
    <2> DEFINE found == {i \in 1..Len(ids) : store.hashes[ids[i]] = HashValue[name]
                                            /\ store.symbols[ids[i]] = name}
    <2>1. store.lookup = <<>> /\ store.symbols = a.symbols
      BY LoadedIs
    <2>2. Lookup(store, name) = IF (IF found # {} THEN Min(found) ELSE 0) = 0 THEN 0
                                ELSE ids[IF found # {} THEN Min(found) ELSE 0]
      <3> HIDE DEF store
      <3> QED BY <2>1 DEF Lookup, SelectInSeq
    <2> QED BY <1>3, <2>2
  <1>5. I # {} => Min(I) \in I
    <2> SUFFICES ASSUME I # {} PROVE Min(I) \in I
      OBVIOUS
    <2>1. I \in SUBSET Nat
      BY <1>1
    <2> HIDE DEF I
    <2>2. \E n \in I : \A m \in I : n <= m
      BY <2>1, LeastOf
    <2> QED BY <2>2 DEF Min
  <1> QED BY <1>1, <1>4, <1>5

(* Different ids have different names, and no name is that of an absent    *)
(* relation.                                                               *)
LEMMA NamesDiffer ==
    ASSUME NEW a, Raw(a), SymbolsOK(a, "full"), NEW i \in 0..a.symbolCount, NEW j \in 0..a.symbolCount,
           NameOf(Loaded(a, "full"), i) = NameOf(Loaded(a, "full"), j)
    PROVE  i = j
  <1>1. NoName \notin Names
    BY FormatAssumption
  <1>2. a.symbolCount \in Nat
    BY DEF Raw
  <1> QED BY <1>1, <1>2, FullSymbols, LoadedIs DEF NameOf

LEMMA RowNamesAre ==
    ASSUME NEW a, Raw(a), RowsOK(a, "full")
    PROVE  /\ DOMAIN RowNames(Loaded(a, "full")) = 1..a.rowCount
           /\ \A i \in 1..a.rowCount :
                 /\ DOMAIN RowNames(Loaded(a, "full"))[i] = 1..6
                 /\ \A f \in 1..6 : RowNames(Loaded(a, "full"))[i][f]
                                       = NameOf(Loaded(a, "full"), DiskRows(a)[i][f])
  BY FullRows, LoadedIs DEF RowNames

LEMMA RowsDiffer ==
    ASSUME NEW a, Raw(a), SymbolsOK(a, "full"), RowsOK(a, "full")
    PROVE  IsInjective(RowNames(Loaded(a, "full")))
  <1> DEFINE names == RowNames(Loaded(a, "full"))
  <1> SUFFICES ASSUME NEW i \in 1..a.rowCount, NEW j \in 1..a.rowCount, names[i] = names[j]
               PROVE  i = j
    BY RowNamesAre DEF IsInjective
  <1>0. RowShape(a, DiskRows(a)[i]) /\ RowShape(a, DiskRows(a)[j])
    BY FullRows
  <1>1. ASSUME NEW f \in 1..6 PROVE DiskRows(a)[i][f] = DiskRows(a)[j][f]
    <2>1. NameOf(Loaded(a, "full"), DiskRows(a)[i][f]) = NameOf(Loaded(a, "full"), DiskRows(a)[j][f])
      BY RowNamesAre
    <2>2. DiskRows(a)[i][f] \in 0..a.symbolCount /\ DiskRows(a)[j][f] \in 0..a.symbolCount
      BY <1>0 DEF RowShape
    <2> QED BY <2>1, <2>2, NamesDiffer
  <1>2. DiskRows(a)[i] = DiskRows(a)[j]
    BY <1>0, <1>1 DEF RowShape
  <1> QED BY <1>2, FullRows

(* A filter asks for names; the row has them where it has the ids they are *)
(* interned as.                                                            *)
SideFields(side) == IF side = "resource" THEN <<1, 2, 3>> ELSE <<4, 5, 6>>

Known(store, f) == \A k \in 1..3 : f[k] # NoName => Interned(store, f)[k] # 0

LEMMA FilterShape ==
    ASSUME NEW f \in FilterNames
    PROVE  /\ f[1] \in Names /\ f[1] # NoName
           /\ \A k \in 1..3 : f[k] # NoName => f[k] \in Names
  BY FormatAssumption DEF FilterNames

LEMMA MatchesAre ==
    ASSUME NEW a, Raw(a), SymbolsOK(a, "full"), RowsOK(a, "full"), NEW i \in 1..a.rowCount,
           NEW side \in Sides, NEW f \in FilterNames
    PROVE  LET store == Loaded(a, "full")
           IN  MatchesNames(side, RowNames(store)[i], f)
                 <=> Known(store, f) /\ MatchesIds(side, DiskRows(a)[i], Interned(store, f))
  <1> DEFINE store == Loaded(a, "full")
             ids == Interned(store, f)
             at(k) == SideFields(side)[k]
             row == DiskRows(a)[i]
  <1>1. ASSUME NEW k \in 1..3
        PROVE  (f[k] = NoName \/ RowNames(store)[i][at(k)] = f[k])
                 <=> (f[k] # NoName => ids[k] # 0) /\ (ids[k] = 0 \/ row[at(k)] = ids[k])
    <2>1. at(k) \in 1..6
      BY DEF SideFields
    <2>2. RowNames(store)[i][at(k)] = NameOf(store, row[at(k)])
      BY <2>1, RowNamesAre
    <2>3. row[at(k)] \in 0..a.symbolCount /\ a.symbolCount \in Nat
      <3>1. a.symbolCount \in Nat
        BY DEF Raw
      <3>2. RowShape(a, DiskRows(a)[i])
        BY FullRows
      <3>3. row \in [1..6 -> 0..a.symbolCount]
        BY <3>2, Zenon DEF RowShape
      <3> HIDE DEF row, at
      <3> QED BY <2>1, <3>1, <3>3
    <2>4. CASE f[k] = NoName
      BY <2>4 DEF Interned
    <2>5. CASE f[k] # NoName
      <3>1. f[k] \in Names
        BY <2>5, FilterShape
      <3>2. ids[k] = Lookup(store, f[k])
        BY <2>5 DEF Interned
      <3>3. \/ ids[k] \in 1..a.symbolCount /\ a.symbols[ids[k]] = f[k]
            \/ ids[k] = 0 /\ \A j \in 1..a.symbolCount : a.symbols[j] # f[k]
        BY <3>1, <3>2, FullLookup
      <3>4. \A j \in 1..a.symbolCount : NameOf(store, j) = a.symbols[j]
        BY <2>3, LoadedIs DEF NameOf
      <3>5. NameOf(store, 0) = NoName
        BY DEF NameOf
      <3>6. CASE ids[k] = 0
        <4>1. \A j \in 1..a.symbolCount : a.symbols[j] # f[k]
          BY <2>3, <3>3, <3>6
        <4> HIDE DEF ids, row, store, at
        <4> QED BY <2>2, <2>3, <2>5, <3>4, <3>5, <3>6, <4>1
      <3>7. CASE ids[k] # 0
        <4>1. ids[k] \in 1..a.symbolCount /\ NameOf(store, ids[k]) = f[k]
          BY <3>3, <3>4, <3>7
        <4>2. NameOf(store, row[at(k)]) = f[k] => row[at(k)] = ids[k]
          <5>1. ids[k] \in 0..a.symbolCount
            BY <4>1, <2>3
          <5> HIDE DEF ids, row, at
          <5> QED BY <2>3, <4>1, <5>1, NamesDiffer
        <4> HIDE DEF ids, row, store, at
        <4> QED BY <2>2, <2>5, <3>7, <4>1, <4>2
      <3> QED BY <3>6, <3>7
    <2> QED BY <2>4, <2>5
  <1>2. MatchesNames(side, RowNames(store)[i], f)
          <=> \A k \in 1..3 : f[k] = NoName \/ RowNames(store)[i][at(k)] = f[k]
    BY DEF MatchesNames, SideFields
  <1>3. MatchesIds(side, row, ids) <=> \A k \in 1..3 : ids[k] = 0 \/ row[at(k)] = ids[k]
    BY DEF MatchesIds, SideFields
  <1>4. Known(store, f) <=> \A k \in 1..3 : f[k] # NoName => ids[k] # 0
    BY DEF Known
  <1> HIDE DEF store, ids, at, row
  <1>5. MatchesNames(side, RowNames(store)[i], f) <=> Known(store, f) /\ MatchesIds(side, row, ids)
    BY <1>1, <1>2, <1>3, <1>4
  <1> QED BY <1>5 DEF store, ids, row

(* The filter's key is one of the row's exactly where the row matches.     *)
LEMMA KeyIsMatch ==
    ASSUME NEW a, Raw(a), NEW row, RowShape(a, row), NEW side \in Sides, NEW f \in FilterNames,
           NEW ids \in [1..3 -> 0..a.symbolCount], \A k \in 1..3 : f[k] = NoName <=> ids[k] = 0
    PROVE  MatchesIds(side, row, ids) <=> KeyFor(KindFor(side, f), ids) \in RowKeys(row, KindFor(side, f))
  <1>1. f[1] # NoName /\ ids[1] # 0 /\ (f[2] = NoName <=> ids[2] = 0) /\ (f[3] = NoName <=> ids[3] = 0)
    BY FilterShape
  <1>2. \A x, y, z : ids = <<x, y, z>> <=> ids[1] = x /\ ids[2] = y /\ ids[3] = z
    OBVIOUS
  <1>3. \A x, y, u, v : <<x, y, 0>> = <<u, v, 0>> <=> x = u /\ y = v
    OBVIOUS
  <1>4. CASE side = "resource"
    <2>1. MatchesIds(side, row, ids) <=> /\ ids[1] = 0 \/ row[1] = ids[1]
                                         /\ ids[2] = 0 \/ row[2] = ids[2]
                                         /\ ids[3] = 0 \/ row[3] = ids[3]
      BY <1>4 DEF MatchesIds
    <2>2. CASE f[2] # NoName /\ f[3] # NoName
      <3>1. KindFor(side, f) = 1
        BY <1>4, <2>2 DEF KindFor
      <3> QED BY <1>1, <1>2, <2>1, <2>2, <3>1 DEF KeyFor, RowKeys
    <2>3. CASE f[2] # NoName /\ f[3] = NoName
      <3>1. KindFor(side, f) = 2
        BY <1>4, <2>3 DEF KindFor
      <3> QED BY <1>1, <1>2, <2>1, <2>3, <3>1 DEF KeyFor, RowKeys
    <2>4. CASE f[2] = NoName /\ f[3] # NoName
      <3>1. KindFor(side, f) = 3
        BY <1>4, <2>4 DEF KindFor
      <3> QED BY <1>1, <1>3, <2>1, <2>4, <3>1 DEF KeyFor, RowKeys
    <2>5. CASE f[2] = NoName /\ f[3] = NoName
      <3>1. KindFor(side, f) = 4
        BY <1>4, <2>5 DEF KindFor
      <3> QED BY <1>1, <1>2, <2>1, <2>5, <3>1 DEF KeyFor, RowKeys
    <2> QED BY <2>2, <2>3, <2>4, <2>5
  <1>5. CASE side = "subject"
    <2>1. MatchesIds(side, row, ids) <=> /\ ids[1] = 0 \/ row[4] = ids[1]
                                         /\ ids[2] = 0 \/ row[5] = ids[2]
                                         /\ ids[3] = 0 \/ row[6] = ids[3]
      BY <1>5 DEF MatchesIds
    <2>2. CASE f[2] # NoName
      <3>1. KindFor(side, f) = 5
        BY <1>5, <2>2 DEF KindFor
      <3> QED BY <1>1, <1>2, <2>1, <2>2, <3>1 DEF KeyFor, RowKeys
    <2>3. CASE f[2] = NoName /\ f[3] # NoName
      <3>1. KindFor(side, f) = 6
        BY <1>5, <2>3 DEF KindFor
      <3>2. KeyFor(6, ids) = <<ids[1], ids[3], 0>>
        BY DEF KeyFor
      <3>3. RowKeys(row, 6) = {<<row[4], relation, 0>> : relation \in {row[6]} \ {0}}
        BY DEF RowKeys
      <3> QED BY <1>1, <1>3, <2>1, <2>3, <3>1, <3>2, <3>3
    <2>4. CASE f[2] = NoName /\ f[3] = NoName
      <3>1. KindFor(side, f) = 7
        BY <1>5, <2>4 DEF KindFor
      <3> QED BY <1>1, <1>2, <2>1, <2>4, <3>1 DEF KeyFor, RowKeys
    <2> QED BY <2>2, <2>3, <2>4
  <1> QED BY <1>4, <1>5 DEF Sides

(* A row's keys of one kind have different bits, and those are expected.   *)
LEMMA BitsTellKeys ==
    ASSUME NEW a, NEW row, RowShape(a, row), NEW kind \in Kinds, NEW key \in RowKeys(row, kind)
    PROVE  /\ CoverageBit(kind, key) \in ExpectedBits(kind, row)
           /\ \A other \in RowKeys(row, kind) :
                 CoverageBit(kind, other) = CoverageBit(kind, key) => other = key
  <1>1. CASE kind = 5
    <2>1. RowKeys(row, kind) = {<<row[4], row[5], row[6]>>, <<row[4], row[5], 0>>}
      BY <1>1 DEF RowKeys
    <2>2. <<row[4], row[5], row[6]>>[3] = row[6] /\ <<row[4], row[5], 0>>[3] = 0
      OBVIOUS
    <2>3. ExpectedBits(kind, row) = IF row[6] = 0 THEN {1} ELSE {1, 2}
      BY <1>1 DEF ExpectedBits
    <2> QED BY <1>1, <2>1, <2>2, <2>3 DEF CoverageBit
  <1>2. CASE kind = 6
    <2>1. RowKeys(row, kind) = {<<row[4], relation, 0>> : relation \in {row[6]} \ {0}}
      BY <1>2 DEF RowKeys
    <2>2. ExpectedBits(kind, row) = IF row[6] = 0 THEN {} ELSE {1}
      BY <1>2 DEF ExpectedBits
    <2> QED BY <1>2, <2>1, <2>2 DEF CoverageBit
  <1>3. CASE kind \in {1, 2, 3, 4, 7}
    <2>1. CoverageBit(kind, key) = 1 /\ ExpectedBits(kind, row) = {1}
      BY <1>3 DEF CoverageBit, ExpectedBits
    <2>2. \A other \in RowKeys(row, kind) : other = key
      BY <1>3 DEF RowKeys
    <2> QED BY <2>1, <2>2
  <1> QED BY <1>1, <1>2, <1>3 DEF Kinds

(* A required index lists a row under each of its keys, once.              *)
LEMMA ListedUnder ==
    ASSUME NEW a, Raw(a), RowsOK(a, "full"), IndexesOK(a, "full"),
           NEW kind \in Kinds, RequiredByProfile(kind, a.profile),
           NEW i \in 1..a.rowCount, NEW key
    PROVE  key \in RowKeys(DiskRows(a)[i], kind)
             <=> \E x \in Merged(a, kind) : x.key = key /\ i \in ToSet(x.ids)
  <1> DEFINE rows == DiskRows(a) index == Merged(a, kind)
             bits == {CoverageBit(kind, x.key) : x \in {y \in index : i \in ToSet(y.ids)}}
  <1>1. IndexOK(a, kind, rows)
    BY DEF IndexesOK
  <1>2. RowShape(a, rows[i]) /\ i \in DOMAIN rows
    BY FullRows
  <1>3. \A x \in index : i \in ToSet(x.ids) => x.key \in RowKeys(rows[i], kind)
    BY <1>1 DEF IndexOK, RowMatches
  <1>4. bits = ExpectedBits(kind, rows[i])
    BY <1>1, <1>2 DEF IndexOK
  <1>5. ASSUME key \in RowKeys(rows[i], kind)
        PROVE  \E x \in index : x.key = key /\ i \in ToSet(x.ids)
    <2>1. CoverageBit(kind, key) \in bits
      BY <1>2, <1>4, <1>5, BitsTellKeys
    <2>2. PICK x \in index : i \in ToSet(x.ids) /\ CoverageBit(kind, key) = CoverageBit(kind, x.key)
      BY <2>1
    <2>3. x.key = key
      <3> HIDE DEF rows, index, bits
      <3> QED BY <1>2, <1>3, <1>5, <2>2, BitsTellKeys
    <2> QED BY <2>2, <2>3
  <1> QED BY <1>3, <1>5

(* No posting of an index lists a row twice.                               *)
LEMMA ListedOnce ==
    ASSUME NEW a, IndexesOK(a, "full"), NEW kind \in Kinds, NEW x \in Merged(a, kind)
    PROVE  IsInjective(x.ids)
  <1>1. IndexOK(a, kind, DiskRows(a))
    BY DEF IndexesOK
  <1> QED BY <1>1 DEF IndexOK, IsInjective

LEMMA KindIn == ASSUME NEW side \in Sides, NEW f \in FilterNames PROVE KindFor(side, f) \in Kinds
  BY DEF Sides, KindFor, Kinds

(* A filter's ids are numbers of the file, 0 where it leaves a field open. *)
LEMMA InternedIs ==
    ASSUME NEW a, Raw(a), SymbolsOK(a, "full"), NEW f \in FilterNames
    PROVE  LET ids == Interned(Loaded(a, "full"), f)
           IN  ids \in [1..3 -> 0..a.symbolCount] /\ \A k \in 1..3 : f[k] = NoName => ids[k] = 0
  <1> DEFINE store == Loaded(a, "full") ids == Interned(store, f)
  <1>1. ASSUME NEW k \in 1..3 PROVE ids[k] \in 0..a.symbolCount /\ (f[k] = NoName => ids[k] = 0)
    <2>1. CASE f[k] = NoName
      BY <2>1 DEF Interned, Raw
    <2>2. CASE f[k] # NoName
      <3>1. f[k] \in Names /\ ids[k] = Lookup(store, f[k])
        BY <2>2, FilterShape DEF Interned
      <3> QED BY <2>2, <3>1, FullLookup DEF Raw
    <2> QED BY <2>1, <2>2
  <1>2. ids = [k \in 1..3 |-> ids[k]]
    BY DEF Interned
  <1>3. ids \in [1..3 -> 0..a.symbolCount]
    <2> HIDE DEF ids
    <2> QED BY <1>1, <1>2
  <1> QED BY <1>1, <1>3

(* The rows that a query returns.                                          *)
LEMMA QueryIs ==
    ASSUME NEW a, Raw(a), SymbolsOK(a, "full"), RowsOK(a, "full"), IndexesOK(a, "full"),
           NEW side \in Sides, NEW f \in FilterNames, RequiredByProfile(KindFor(side, f), a.profile)
    PROVE  LET store == Loaded(a, "full") found == Query(store, side, f)
           IN  /\ IsInjective(found)
               /\ ToSet(found) = {i \in 1..a.rowCount : MatchesNames(side, RowNames(store)[i], f)}
  <1> DEFINE store == Loaded(a, "full")
             found == Query(store, side, f)
             ids == Interned(store, f)
             kind == KindFor(side, f)
             key == KeyFor(kind, ids)
             hit == {x \in Merged(a, kind) : x.key = key}
  <1>1. /\ kind \in Kinds /\ store.index[kind] = Merged(a, kind) /\ store.rows = DiskRows(a)
        /\ ids \in [1..3 -> 0..a.symbolCount] /\ \A k \in 1..3 : f[k] = NoName => ids[k] = 0
    BY KindIn, InternedIs, LoadedIs
  <1>2. Known(store, f) <=> ~ \E k \in 1..3 : f[k] # NoName /\ ids[k] = 0
    BY Zenon DEF Known
  <1>3. found = IF hit = {} \/ ~Known(store, f) THEN <<>>
                ELSE LET posting == (CHOOSE x \in hit : TRUE).ids
                     IN  [n \in {m \in DOMAIN posting : MatchesIds(side, DiskRows(a)[posting[m]], ids)} |->
                            posting[n]]
    <2> HIDE DEF Known
    <2> QED BY <1>1, <1>2 DEF Query
  <1>4. \A i \in 1..a.rowCount : MatchesNames(side, RowNames(store)[i], f)
                                   <=> Known(store, f) /\ MatchesIds(side, DiskRows(a)[i], ids)
    BY MatchesAre
  <1>5. CASE ~Known(store, f)
    <2>1. found = <<>>
      BY <1>3, <1>5
    <2> QED BY <1>4, <1>5, <2>1 DEF IsInjective, ToSet
  <1>6. CASE Known(store, f)
    <2>1. \A k \in 1..3 : f[k] = NoName <=> ids[k] = 0
      BY <1>1, <1>2, <1>6
    <2>2. ASSUME NEW i \in 1..a.rowCount
          PROVE  MatchesIds(side, DiskRows(a)[i], ids) <=> \E x \in hit : i \in ToSet(x.ids)
      <3>1. RowShape(a, DiskRows(a)[i])
        BY FullRows
      <3>2. MatchesIds(side, DiskRows(a)[i], ids) <=> key \in RowKeys(DiskRows(a)[i], kind)
        <4> HIDE DEF ids
        <4> QED BY <1>1, <2>1, <3>1, KeyIsMatch
      <3>3. key \in RowKeys(DiskRows(a)[i], kind) <=> \E x \in Merged(a, kind) : x.key = key /\ i \in ToSet(x.ids)
        <4> HIDE DEF key
        <4> QED BY <1>1, ListedUnder
      <3> QED BY <3>2, <3>3
    <2>3. CASE hit = {}
      <3>1. found = <<>>
        BY <1>3, <2>3
      <3> QED BY <1>4, <2>2, <2>3, <3>1 DEF IsInjective, ToSet
    <2>4. CASE hit # {}
      <3> DEFINE x == CHOOSE y \in hit : TRUE
      <3>1. x \in hit
        BY <2>4
      <3>2. \A y \in hit : y = x
        <4> HIDE DEF x, key, kind
        <4> QED BY <1>1, <3>1, FullIndex
      <3>3. EntryShape(a, x) /\ IsInjective(x.ids)
        <4> HIDE DEF x, key, kind
        <4> QED BY <1>1, <3>1, FullIndex, ListedOnce
      <3>4. found = [n \in {m \in DOMAIN x.ids : MatchesIds(side, DiskRows(a)[x.ids[m]], ids)} |-> x.ids[n]]
        BY <1>3, <1>6, <2>4
      <3> HIDE DEF x, found, ids, hit, store
      <3>5. \A m \in DOMAIN x.ids : MatchesIds(side, DiskRows(a)[x.ids[m]], ids)
        BY <2>2, <3>1, <3>3 DEF EntryShape, ToSet
      <3>6. found = [n \in DOMAIN x.ids |-> x.ids[n]]
        BY <3>4, <3>5
      <3>7. IsInjective(found)
        BY <3>3, <3>6 DEF IsInjective
      <3>8. ToSet(found) = {i \in 1..a.rowCount : MatchesIds(side, DiskRows(a)[i], ids)}
        <4>1. ToSet(found) = ToSet(x.ids)
          BY <3>6 DEF ToSet
        <4>2. \A i \in ToSet(x.ids) : i \in 1..a.rowCount
          BY <3>3 DEF EntryShape, ToSet
        <4> QED BY <2>2, <3>1, <3>2, <4>1, <4>2
      <3>9. ToSet(found) = {i \in 1..a.rowCount : MatchesNames(side, RowNames(store)[i], f)}
        BY <1>4, <1>6, <3>8
      <3> QED BY <3>7, <3>9 DEF found, store
    <2> QED BY <2>3, <2>4
  <1> QED BY <1>5, <1>6

(* What passes full validation is consistent, whoever wrote it.            *)
LEMMA FullIsConsistent ==
    ASSUME NEW a, Raw(a), Decodes(a, "full")
    PROVE  SelfConsistent(Loaded(a, "full"))
  <1> DEFINE store == Loaded(a, "full") rels == RowNames(store)
  <1>1. SymbolsOK(a, "full") /\ RowsOK(a, "full") /\ IndexesOK(a, "full")
    BY DEF Decodes
  <1>2. IsInjective(rels) /\ DOMAIN rels = 1..a.rowCount
    BY <1>1, RowsDiffer, RowNamesAre
  <1>3. ASSUME NEW side \in Sides, NEW f \in FilterNames,
               RequiredByProfile(KindFor(side, f), store.profile)
        PROVE  LET found == Query(store, side, f)
                   names == [n \in DOMAIN found |-> rels[found[n]]]
               IN  /\ ToSet(names) = {rel \in ToSet(rels) : MatchesNames(side, rel, f)}
                   /\ IsInjective(names)
    <2> DEFINE found == Query(store, side, f)
               names == [n \in DOMAIN found |-> rels[found[n]]]
    <2>1. store.profile = a.profile
      BY LoadedIs
    <2>2. /\ IsInjective(found)
          /\ ToSet(found) = {i \in 1..a.rowCount : MatchesNames(side, rels[i], f)}
      BY <1>1, <1>3, <2>1, QueryIs
    <2> HIDE DEF found, rels, store
    <2>3. ToSet(names) = {rel \in ToSet(rels) : MatchesNames(side, rel, f)}
      BY <1>2, <2>2 DEF ToSet
    <2>4. IsInjective(names)
      BY <1>2, <2>2 DEF IsInjective, ToSet
    <2> QED BY <2>3, <2>4 DEF found, rels, store
  <1>4. AnswersExactly(store, rels)
    BY <1>3 DEF AnswersExactly
  <1> QED BY <1>2, <1>4 DEF SelfConsistent

-----------------------------------------------------------------------------
(* What a save writes can be read.                                         *)

Orders(R, S) ==
    /\ \A x \in S : <<x, x>> \notin R
    /\ \A x, y, z \in S : <<x, y>> \in R /\ <<y, z>> \in R => <<x, z>> \in R
    /\ \A x, y \in S : x = y \/ <<x, y>> \in R \/ <<y, x>> \in R

(* A finite set in order has each of its elements at the place that counts *)
(* the ones before it.                                                     *)
LEMMA OrderedSet ==
    ASSUME NEW S, IsFiniteSet(S), NEW R, Orders(R, S)
    PROVE  LET n == Cardinality(S) q == InOrder(S, R)
           IN  /\ n \in Nat /\ DOMAIN q = 1..n /\ q \in Seq(S) /\ Len(q) = n
               /\ \A i \in 1..n : q[i] \in S
               /\ \A x \in S : \E i \in 1..n : q[i] = x
               /\ \A i, j \in 1..n : i < j => <<q[i], q[j]>> \in R
               /\ \A i, j \in 1..n : q[i] = q[j] => i = j
  <1> DEFINE n == Cardinality(S)
             q == InOrder(S, R)
             under(x) == {y \in S : <<y, x>> \in R}
             rank == [x \in S |-> Cardinality(under(x))]
  <1>1. n \in Nat
    BY FS_CardinalityType
  <1>2. ASSUME NEW x \in S
        PROVE  IsFiniteSet(under(x)) /\ rank[x] \in Nat /\ rank[x] < n
    <2>1. under(x) \in SUBSET S
      OBVIOUS
    <2>2. under(x) # S
      BY DEF Orders
    <2> HIDE DEF under
    <2>3. IsFiniteSet(under(x)) /\ Cardinality(under(x)) <= n /\ Cardinality(under(x)) # n
      BY <2>1, <2>2, FS_Subset
    <2>4. Cardinality(under(x)) \in Nat
      BY <2>3, FS_CardinalityType
    <2>5. rank[x] = Cardinality(under(x))
      OBVIOUS
    <2> QED BY <1>1, <2>3, <2>4, <2>5
  <1>3. ASSUME NEW x \in S, NEW y \in S, <<x, y>> \in R
        PROVE  rank[x] < rank[y]
    <2>1. under(x) \in SUBSET under(y)
      BY <1>3 DEF Orders
    <2>2. x \in under(y) /\ x \notin under(x)
      BY <1>3 DEF Orders
    <2>3. IsFiniteSet(under(y)) /\ rank[x] \in Nat /\ rank[y] \in Nat
      BY <1>2
    <2>4. rank[x] = Cardinality(under(x)) /\ rank[y] = Cardinality(under(y))
      OBVIOUS
    <2> HIDE DEF under, rank
    <2>5. Cardinality(under(x)) <= Cardinality(under(y)) /\ Cardinality(under(x)) # Cardinality(under(y))
      BY <2>1, <2>2, <2>3, FS_Subset
    <2> QED BY <2>3, <2>4, <2>5
  <1>4. rank \in [S -> 0..(n - 1)]
    <2>1. rank = [x \in S |-> rank[x]]
      OBVIOUS
    <2>2. \A x \in S : rank[x] \in 0..(n - 1)
      BY <1>1, <1>2
    <2> HIDE DEF rank, n
    <2> QED BY <2>1, <2>2
  <1>5. \A x, y \in S : rank[x] = rank[y] => x = y
    <2>1. \A x \in S : rank[x] \in Nat
      BY <1>2
    <2> HIDE DEF rank
    <2>2. ASSUME NEW x \in S, NEW y \in S, rank[x] = rank[y], x # y PROVE FALSE
      <3>1. <<x, y>> \in R \/ <<y, x>> \in R
        BY <2>2 DEF Orders
      <3>2. rank[x] < rank[y] \/ rank[y] < rank[x]
        BY <1>3, <3>1
      <3> QED BY <2>1, <2>2, <3>2
    <2> QED BY <2>2
  <1>6. rank \in Injection(S, 0..(n - 1))
    <2> HIDE DEF rank, n
    <2> QED BY <1>4, <1>5 DEF Injection, IsInjective
  <1>7. IsFiniteSet(0..(n - 1)) /\ Cardinality(0..(n - 1)) = n
    <2> HIDE DEF n
    <2> QED BY <1>1, FS_Interval
  <1>8. rank \in Surjection(S, 0..(n - 1))
    <2> HIDE DEF rank
    <2> QED BY <1>6, <1>7, FS_Injection
  <1>9. \A m \in 0..(n - 1) : \E x \in S : rank[x] = m
    <2> HIDE DEF rank, n
    <2> QED BY <1>8 DEF Surjection
  <1>10. q \in [1..n -> {q[i] : i \in 1..n}]
    <2> DEFINE e(i) == CHOOSE x \in S : Cardinality(under(x)) = i - 1
    <2>1. q = [i \in 1..n |-> e(i)]
      BY DEF InOrder
    <2> HIDE DEF e, q, n
    <2> QED BY <2>1
  <1>11. ASSUME NEW i \in 1..n PROVE q[i] \in S /\ rank[q[i]] = i - 1
    <2>1. q[i] = CHOOSE x \in S : Cardinality(under(x)) = i - 1
      BY DEF InOrder
    <2>2. \E x \in S : rank[x] = i - 1
      <3> HIDE DEF rank, n
      <3> QED BY <1>1, <1>9
    <2>3. \E x \in S : Cardinality(under(x)) = i - 1
      BY <2>2
    <2>4. q[i] \in S /\ Cardinality(under(q[i])) = i - 1
      <3> HIDE DEF q, under
      <3> QED BY <2>1, <2>3
    <2> HIDE DEF q, n
    <2> QED BY <2>4
  <1> HIDE DEF rank, n, q, under
  <1>12. \A x \in S : \E i \in 1..n : q[i] = x
    <2> SUFFICES ASSUME NEW x \in S PROVE \E i \in 1..n : q[i] = x
      OBVIOUS
    <2>1. rank[x] + 1 \in 1..n
      BY <1>1, <1>2
    <2>2. q[rank[x] + 1] \in S /\ rank[q[rank[x] + 1]] = (rank[x] + 1) - 1
      BY <1>11, <2>1
    <2>3. q[rank[x] + 1] = x
      BY <1>2, <1>5, <2>2
    <2> QED BY <2>1, <2>3
  <1>13. ASSUME NEW i \in 1..n, NEW j \in 1..n, i < j PROVE <<q[i], q[j]>> \in R
    <2>1. q[i] \in S /\ q[j] \in S /\ rank[q[i]] = i - 1 /\ rank[q[j]] = j - 1
      BY <1>11
    <2>2. q[i] # q[j]
      BY <1>1, <1>13, <2>1
    <2>3. <<q[j], q[i]>> \notin R
      BY <1>1, <1>3, <1>13, <2>1
    <2> QED BY <2>1, <2>2, <2>3 DEF Orders
  <1>14. ASSUME NEW i \in 1..n, NEW j \in 1..n, q[i] = q[j] PROVE i = j
    <2>1. i - 1 = j - 1
      BY <1>11, <1>14
    <2> QED BY <1>1, <2>1
  <1>15. q \in Seq(S) /\ Len(q) = n
    <2>1. q \in [1..n -> S]
      BY <1>10, <1>11
    <2> QED BY <1>1, <2>1
  <1> QED BY <1>1, <1>10, <1>11, <1>12, <1>13, <1>14, <1>15 DEF n, q

LEMMA AscendingIs ==
    ASSUME NEW I \in SUBSET Nat, IsFiniteSet(I)
    PROVE  LET n == Cardinality(I) q == Ascending(I)
           IN  /\ n \in Nat /\ DOMAIN q = 1..n /\ q \in Seq(I) /\ Len(q) = n
               /\ \A i \in 1..n : q[i] \in I
               /\ \A x \in I : \E i \in 1..n : q[i] = x
               /\ \A i, j \in 1..n : i < j => q[i] < q[j]
               /\ \A i, j \in 1..n : q[i] = q[j] => i = j
  <1> DEFINE R == {p \in I \X I : p[1] < p[2]}
  <1>1. \A x, y \in I : <<x, y>> \in R <=> x < y
    OBVIOUS
  <1>2. Ascending(I) = InOrder(I, R)
    BY DEF Ascending
  <1> HIDE DEF R
  <1>3. Orders(R, I)
    <2>1. \A x \in I : <<x, x>> \notin R
      BY <1>1
    <2>2. \A x, y, z \in I : <<x, y>> \in R /\ <<y, z>> \in R => <<x, z>> \in R
      BY <1>1
    <2>3. \A x, y \in I : x = y \/ <<x, y>> \in R \/ <<y, x>> \in R
      <3>1. \A x, y \in I : x = y \/ x < y \/ y < x
        OBVIOUS
      <3> QED BY <1>1, <3>1
    <2> QED BY <2>1, <2>2, <2>3 DEF Orders
  <1> DEFINE n == Cardinality(I) q == Ascending(I)
  <1>4. /\ n \in Nat /\ DOMAIN q = 1..n /\ q \in Seq(I) /\ Len(q) = n
        /\ \A i \in 1..n : q[i] \in I
        /\ \A x \in I : \E i \in 1..n : q[i] = x
        /\ \A i, j \in 1..n : i < j => <<q[i], q[j]>> \in R
        /\ \A i, j \in 1..n : q[i] = q[j] => i = j
    BY <1>2, <1>3, OrderedSet
  <1> HIDE DEF n, q
  <1>5. \A i, j \in 1..n : i < j => q[i] < q[j]
    BY <1>1, <1>4
  <1> QED BY <1>4, <1>5 DEF n, q

Rel == [1..6 -> Names \cup {NoName}]

(* The fields of rows, one row after another.                              *)
LEMMA FieldsInLine ==
    ASSUME NEW rels, NEW n \in Nat, DOMAIN rels = 1..n
    PROVE  /\ DOMAIN Joined(rels, 6) = 1..(n * 6)
           /\ \A p \in 1..(n * 6) : \E i \in 1..n, f \in 1..6 :
                 p = 6 * (i - 1) + f /\ Joined(rels, 6)[p] = rels[i][f]
           /\ \A i \in 1..n, f \in 1..6 :
                 6 * (i - 1) + f \in 1..(n * 6) /\ Joined(rels, 6)[6 * (i - 1) + f] = rels[i][f]
  <1>1. Len(rels) = n
    BY LenDomain
  <1>2. Joined(rels, 6) = [p \in 1..(n * 6) |-> rels[((p - 1) \div 6) + 1][((p - 1) % 6) + 1]]
    BY <1>1 DEF Joined
  <1>3. ASSUME NEW p \in 1..(n * 6)
        PROVE  /\ ((p - 1) \div 6) + 1 \in 1..n /\ ((p - 1) % 6) + 1 \in 1..6
               /\ p = 6 * ((((p - 1) \div 6) + 1) - 1) + (((p - 1) % 6) + 1)
    OBVIOUS
  <1>4. ASSUME NEW i \in 1..n, NEW f \in 1..6
        PROVE  /\ 6 * (i - 1) + f \in 1..(n * 6)
               /\ ((6 * (i - 1) + f - 1) \div 6) + 1 = i /\ ((6 * (i - 1) + f - 1) % 6) + 1 = f
    OBVIOUS
  <1>5. ASSUME NEW p \in 1..(n * 6)
        PROVE  \E i \in 1..n, f \in 1..6 : p = 6 * (i - 1) + f /\ Joined(rels, 6)[p] = rels[i][f]
    <2>1. PICK i, f : i = ((p - 1) \div 6) + 1 /\ f = ((p - 1) % 6) + 1
      OBVIOUS
    <2>2. i \in 1..n /\ f \in 1..6 /\ p = 6 * (i - 1) + f
      BY <1>3, <2>1
    <2>3. Joined(rels, 6)[p] = rels[i][f]
      BY <1>2, <2>1
    <2> QED BY <2>2, <2>3
  <1>6. ASSUME NEW i \in 1..n, NEW f \in 1..6
        PROVE  6 * (i - 1) + f \in 1..(n * 6) /\ Joined(rels, 6)[6 * (i - 1) + f] = rels[i][f]
    <2>1. PICK p : p = 6 * (i - 1) + f
      OBVIOUS
    <2>2. p \in 1..(n * 6) /\ ((p - 1) \div 6) + 1 = i /\ ((p - 1) % 6) + 1 = f
      BY <1>4, <2>1
    <2> QED BY <1>2, <2>1, <2>2
  <1>7. DOMAIN Joined(rels, 6) = 1..(n * 6)
    BY <1>2
  <1> QED BY <1>5, <1>6, <1>7

(* The place of one field.                                                 *)
LEMMA FieldInLine ==
    ASSUME NEW rels, NEW n \in Nat, DOMAIN rels = 1..n, NEW i \in 1..n, NEW f \in 1..6
    PROVE  6 * (i - 1) + f \in 1..(n * 6) /\ Joined(rels, 6)[6 * (i - 1) + f] = rels[i][f]
  <1>1. \A k \in 1..n, g \in 1..6 :
           6 * (k - 1) + g \in 1..(n * 6) /\ Joined(rels, 6)[6 * (k - 1) + g] = rels[k][g]
    BY FieldsInLine, ZenonT(60)
  <1> QED BY <1>1, Zenon

(* The symbols of relationships are their names, each of them once.        *)
LEMMA SymbolsAre ==
    ASSUME NEW rels \in Seq(Rel)
    PROVE  /\ Symbols(rels) \in Seq(Names)
           /\ \A i, j \in DOMAIN Symbols(rels) : Symbols(rels)[i] = Symbols(rels)[j] => i = j
           /\ \A i \in DOMAIN rels, f \in 1..6 :
                 rels[i][f] # NoName => \E k \in DOMAIN Symbols(rels) : Symbols(rels)[k] = rels[i][f]
  <1> DEFINE names == Joined(rels, 6)
             n == Len(rels) * 6
             I == {i \in DOMAIN names : names[i] # NoName /\ \A j \in 1..(i - 1) : names[j] # names[i]}
             first == Ascending(I)
             symbols == Symbols(rels)
  <1>1. n \in Nat /\ DOMAIN rels = 1..Len(rels) /\ Len(rels) \in Nat
    OBVIOUS
  <1>2. DOMAIN names = 1..n /\ \A p \in 1..n : names[p] \in Names \cup {NoName}
    <2>1. \A i \in 1..Len(rels), f \in 1..6 : rels[i][f] \in Names \cup {NoName}
      BY DEF Rel
    <2>2. DOMAIN names = 1..n /\ \A p \in 1..n : \E i \in 1..Len(rels), f \in 1..6 : names[p] = rels[i][f]
      <3>1. /\ DOMAIN Joined(rels, 6) = 1..(Len(rels) * 6)
            /\ \A p \in 1..(Len(rels) * 6) : \E i \in 1..Len(rels), f \in 1..6 :
                  p = 6 * (i - 1) + f /\ Joined(rels, 6)[p] = rels[i][f]
        BY <1>1, FieldsInLine, Zenon
      <3> QED BY <3>1, Zenon
    <2> QED BY <2>1, <2>2
  <1>3. I \in SUBSET Nat /\ IsFiniteSet(I)
    <2>1. I \in SUBSET (1..n)
      BY <1>2
    <2>2. n \in Int
      BY <1>1
    <2> HIDE DEF I, n
    <2>3. IsFiniteSet(1..n)
      BY <2>2, FS_Interval
    <2>4. I \in SUBSET Nat
      BY <2>1
    <2> QED BY <2>1, <2>3, <2>4, FS_Subset
  <1>4. PICK c \in Nat : /\ DOMAIN first = 1..c /\ \A k \in 1..c : first[k] \in I
                         /\ \A x \in I : \E k \in 1..c : first[k] = x
                         /\ \A j, k \in 1..c : first[j] = first[k] => j = k
    <2> HIDE DEF I
    <2> QED BY <1>3, AscendingIs
  <1>5. symbols = [k \in 1..c |-> names[first[k]]]
    BY <1>4 DEF Symbols
  <1>6. ASSUME NEW k \in 1..c PROVE names[first[k]] \in Names
    BY <1>2, <1>4
  <1>7. symbols \in Seq(Names) /\ DOMAIN symbols = 1..c
    <2> HIDE DEF symbols, names, first
    <2> QED BY <1>5, <1>6
  <1>8. ASSUME NEW x \in I, NEW y \in I, names[x] = names[y] PROVE x = y
    <2>1. x \in 1..n /\ y \in 1..n /\ (\A j \in 1..(x - 1) : names[j] # names[x])
          /\ \A j \in 1..(y - 1) : names[j] # names[y]
      BY <1>2
    <2>2. ~(x < y) /\ ~(y < x)
      <3> HIDE DEF names, n, I
      <3> QED BY <1>1, <1>8, <2>1
    <2> QED BY <1>1, <2>1, <2>2
  <1>9. ASSUME NEW j \in 1..c, NEW k \in 1..c, symbols[j] = symbols[k] PROVE j = k
    <2>1. names[first[j]] = names[first[k]]
      <3> HIDE DEF symbols, names, first
      <3> QED BY <1>5, <1>9
    <2> HIDE DEF I, names, first
    <2> QED BY <1>4, <1>8, <2>1
  <1>10. ASSUME NEW p \in 1..n, names[p] # NoName PROVE \E k \in 1..c : symbols[k] = names[p]
    <2> DEFINE P == {m \in 1..n : names[m] = names[p]}
    <2>1. P \in SUBSET Nat /\ P # {}
      BY <1>1
    <2>2. PICK x \in P : \A m \in P : x <= m
      <3> HIDE DEF P
      <3> QED BY <2>1, LeastOf
    <2>3. x \in 1..n /\ names[x] = names[p]
      BY <2>2
    <2>4. \A j \in 1..(x - 1) : names[j] # names[x]
      <3> SUFFICES ASSUME NEW j \in 1..(x - 1), names[j] = names[x] PROVE FALSE
        OBVIOUS
      <3>1. j \in 1..n /\ j < x
        BY <1>1, <2>3
      <3>2. j \in P
        BY <2>3, <3>1
      <3> HIDE DEF P
      <3> QED BY <1>1, <2>2, <2>3, <3>1, <3>2
    <2>5. x \in I
      BY <1>2, <1>10, <2>3, <2>4
    <2>6. PICK k \in 1..c : first[k] = x
      <3> HIDE DEF I
      <3> QED BY <1>4, <2>5
    <2> HIDE DEF symbols, names, first, P
    <2> QED BY <1>5, <2>3, <2>6
  <1>11. ASSUME NEW i \in DOMAIN rels, NEW f \in 1..6, rels[i][f] # NoName
         PROVE  \E k \in 1..c : symbols[k] = rels[i][f]
    <2>1. PICK p \in 1..n : names[p] = rels[i][f]
      <3>1. n = Len(rels) * 6 /\ names = Joined(rels, 6)
        OBVIOUS
      <3>2. i \in 1..Len(rels)
        BY <1>1
      <3>3. /\ 6 * (i - 1) + f \in 1..(Len(rels) * 6)
            /\ Joined(rels, 6)[6 * (i - 1) + f] = rels[i][f]
        BY <1>1, <3>2, FieldInLine, Zenon
      <3> HIDE DEF names, n
      <3> QED BY <3>1, <3>3
    <2> HIDE DEF names, symbols
    <2> QED BY <1>10, <1>11, <2>1
  <1> HIDE DEF symbols
  <1> QED BY <1>7, <1>9, <1>11 DEF symbols

(* Finitely many row ids have a key.                                       *)
LEMMA PostingIs ==
    ASSUME NEW rows, NEW n \in Nat, DOMAIN rows = 1..n, NEW kind, NEW key
    PROVE  LET I == {i \in 1..n : key \in RowKeys(rows[i], kind)} q == Posting(rows, kind, key)
           IN  /\ I \in SUBSET Nat /\ IsFiniteSet(I)
               /\ q \in Seq(I) /\ Len(q) = Cardinality(I) /\ DOMAIN q = 1..Cardinality(I)
               /\ \A i \in DOMAIN q : q[i] \in I
               /\ \A x \in I : \E i \in DOMAIN q : q[i] = x
               /\ \A i, j \in DOMAIN q : i < j => q[i] < q[j]
  <1> DEFINE I == {i \in 1..n : key \in RowKeys(rows[i], kind)}
             q == Posting(rows, kind, key)
  <1>1. q = Ascending(I)
    BY DEF Posting
  <1>2. I \in SUBSET (1..n)
    OBVIOUS
  <1> HIDE DEF I, q
  <1>3. I \in SUBSET Nat /\ IsFiniteSet(I)
    <2>1. IsFiniteSet(1..n) /\ I \in SUBSET Nat
      BY <1>2, FS_Interval
    <2> QED BY <1>2, <2>1, FS_Subset
  <1>4. /\ q \in Seq(I) /\ Len(q) = Cardinality(I) /\ DOMAIN q = 1..Cardinality(I)
        /\ \A i \in DOMAIN q : q[i] \in I
        /\ \A x \in I : \E i \in DOMAIN q : q[i] = x
        /\ \A i, j \in DOMAIN q : i < j => q[i] < q[j]
    <2>1. PICK A : A = Ascending(I)
      OBVIOUS
    <2>2. /\ A \in Seq(I) /\ Len(A) = Cardinality(I) /\ DOMAIN A = 1..Cardinality(I)
          /\ \A i \in 1..Cardinality(I) : A[i] \in I
          /\ \A x \in I : \E i \in 1..Cardinality(I) : A[i] = x
          /\ \A i, j \in 1..Cardinality(I) : i < j => A[i] < A[j]
      BY <1>3, <2>1, AscendingIs
    <2> QED BY <1>1, <2>1, <2>2
  <1> QED BY <1>3, <1>4 DEF I, q

LEMMA KeysOfRow ==
    ASSUME NEW row, NEW kind \in Kinds PROVE IsFiniteSet(RowKeys(row, kind))
  <1>1. CASE kind = 5
    <2>1. RowKeys(row, kind) = {<<row[4], row[5], row[6]>>} \cup {<<row[4], row[5], 0>>}
      BY <1>1 DEF RowKeys
    <2>2. IsFiniteSet({<<row[4], row[5], row[6]>>})
      BY FS_Singleton
    <2> QED BY <2>1, <2>2, FS_AddElement
  <1>2. CASE kind = 6
    <2>1. RowKeys(row, kind) = {<<row[4], relation, 0>> : relation \in {row[6]} \ {0}}
      BY <1>2 DEF RowKeys
    <2>2. RowKeys(row, kind) \in SUBSET {<<row[4], row[6], 0>>}
      BY <2>1
    <2>3. IsFiniteSet({<<row[4], row[6], 0>>})
      BY FS_Singleton
    <2> QED BY <2>2, <2>3, FS_Subset
  <1>3. CASE kind \in {1, 2, 3, 4, 7}
    <2>1. PICK key : RowKeys(row, kind) = {key}
      <3>1. kind = 1 => RowKeys(row, kind) = {<<row[1], row[2], row[3]>>}
        BY DEF RowKeys
      <3>2. kind = 2 => RowKeys(row, kind) = {<<row[1], row[2], 0>>}
        BY DEF RowKeys
      <3>3. kind = 3 => RowKeys(row, kind) = {<<row[1], row[3], 0>>}
        BY DEF RowKeys
      <3>4. kind = 4 => RowKeys(row, kind) = {<<row[1], 0, 0>>}
        BY DEF RowKeys
      <3>5. kind = 7 => RowKeys(row, kind) = {<<row[4], 0, 0>>}
        BY DEF RowKeys
      <3> QED BY <1>3, <3>1, <3>2, <3>3, <3>4, <3>5
    <2> QED BY <2>1, FS_Singleton
  <1> QED BY <1>1, <1>2, <1>3 DEF Kinds

LEMMA GroupKeysFinite ==
    ASSUME NEW rows, NEW n \in Nat, DOMAIN rows = 1..n, NEW kind \in Kinds, NEW profile
    PROVE  IsFiniteSet(GroupKeys(rows, kind, profile))
  <1> DEFINE Op(i) == RowKeys(rows[i], kind)
             K == {Op(i) : i \in 1..n}
  <1>1. IsFiniteSet(K)
    <2>1. IsFiniteSet(1..n)
      BY FS_Interval
    <2> DEFINE f == [i \in 1..n |-> Op(i)]
    <2>2. f \in Surjection(1..n, K)
      BY DEF Surjection
    <2> HIDE DEF f, K
    <2> QED BY <2>1, <2>2, FS_Surjection
  <1>2. \A T \in K : IsFiniteSet(T)
    BY KeysOfRow
  <1>3. UNION K = UNION {RowKeys(rows[i], kind) : i \in DOMAIN rows}
    OBVIOUS
  <1> HIDE DEF K
  <1>4. IsFiniteSet(UNION K)
    BY <1>1, <1>2, FS_UNION
  <1> QED BY <1>3, <1>4, FS_EmptySet DEF GroupKeys

LEMMA SavedIsRaw ==
    ASSUME NEW rels \in Seq(Rel), NEW revision, NEW schema, NEW profile, NEW compact
    PROVE  Raw(Encode(rels, revision, schema, profile, compact))
  <1> DEFINE a == Encode(rels, revision, schema, profile, compact)
             symbols == Symbols(rels)
             rows == [i \in DOMAIN rels |-> [f \in 1..6 |-> IdOf(symbols, rels[i][f])]]
             groups == [kind \in Kinds |-> Group(rows, kind, profile)]
  <1>1. /\ a.symbols = symbols /\ a.symbolCount = Len(symbols) /\ a.rowCount = Len(rels)
        /\ a.dir = EncodeIndexes(groups).dir
    BY DEF Encode
  <1>2. symbols \in Seq(Names) /\ Len(symbols) \in Nat /\ Len(rels) \in Nat
    BY SymbolsAre
  <1>3. DOMAIN rows = 1..Len(rels)
    OBVIOUS
  <1>4. ASSUME NEW k \in Kinds
        PROVE  EncodeIndexes(groups).dir[k].keyCount \in Nat /\ EncodeIndexes(groups).dir[k].rangeCount \in Nat
    <2>1. /\ EncodeIndexes(groups).dir[k].keyCount = groups[k].keyCount
          /\ EncodeIndexes(groups).dir[k].rangeCount = Len(groups[k].lists)
      <3> HIDE DEF groups
      <3> QED BY DEF EncodeIndexes
    <2>2. groups[k] = Group(rows, k, profile)
      OBVIOUS
    <2> DEFINE keys == GroupKeys(rows, k, profile)
               multis == SortedKeys({key \in keys : Len(Posting(rows, k, key)) > 1})
    <2>3. Group(rows, k, profile).keyCount = Cardinality(keys)
      BY DEF Group
    <2>4. DOMAIN Group(rows, k, profile).lists = DOMAIN multis
      BY DEF Group
    <2>5. IsFiniteSet(keys)
      <3> HIDE DEF rows
      <3> QED BY <1>2, <1>3, GroupKeysFinite
    <2>6. Cardinality(keys) \in Nat
      <3> HIDE DEF keys
      <3> QED BY <2>5, FS_CardinalityType
    <2>7. \E c \in Nat : DOMAIN multis = 1..c
      <3> DEFINE M == {key \in keys : Len(Posting(rows, k, key)) > 1}
      <3>1. M \in SUBSET keys
        OBVIOUS
      <3>2. DOMAIN multis = 1..Cardinality(M)
        BY DEF SortedKeys, InOrder
      <3> HIDE DEF keys, M, multis
      <3>3. Cardinality(M) \in Nat
        BY <2>5, <3>1, FS_Subset, FS_CardinalityType
      <3> QED BY <3>2, <3>3
    <2>8. Len(Group(rows, k, profile).lists) \in Nat
      <3> HIDE DEF rows, multis
      <3> QED BY <2>4, <2>7, LenDomain
    <2> HIDE DEF groups, rows, keys
    <2> QED BY <2>1, <2>2, <2>3, <2>6, <2>8
  <1> HIDE DEF a, symbols, groups
  <1>5. Raw(a)
    BY <1>1, <1>2, <1>4 DEF Raw
  <1> QED BY <1>5 DEF a

-----------------------------------------------------------------------------
(* What a recursion computes.                                              *)

-----------------------------------------------------------------------------
(* Recursive functions.                                                    *)

(* f follows a recursion up to n.                                          *)
Follows(f, n, start, step) ==
    /\ DOMAIN f = 0..n
    /\ f[0] = start
    /\ \A i \in 1..n : f[i] = step[i][f[i - 1]]

(* A recursion that stays in a set defines a function.                     *)
LEMMA RecursionDefines ==
    ASSUME NEW n \in Nat, NEW S, NEW start \in S, NEW step, \A i \in 1..n : step[i] \in [S -> S]
    PROVE  \E f \in [0..n -> S] : Follows(f, n, start, step)
  <1> DEFINE bad == {k \in 0..n : ~ \E f \in [0..k -> S] : Follows(f, k, start, step)}
  <1>1. SUFFICES ASSUME bad # {} PROVE FALSE
    <2>1. n \in 0..n
      OBVIOUS
    <2> QED BY <2>1
  <1>2. bad \in SUBSET Nat
    OBVIOUS
  <1>3. PICK k \in bad : \A m \in bad : k <= m
    <2> HIDE DEF bad
    <2> QED BY <1>1, <1>2, LeastOf
  <1>4. k # 0
    <2> DEFINE f == [i \in 0..0 |-> start]
    <2>1. f \in [0..0 -> S] /\ DOMAIN f = 0..0 /\ f[0] = start
      OBVIOUS
    <2>2. Follows(f, 0, start, step)
      <3> HIDE DEF f
      <3> QED BY <2>1 DEF Follows
    <2>3. 0 \notin bad
      <3> HIDE DEF f
      <3> QED BY <2>1, <2>2
    <2> QED BY <1>3, <2>3
  <1>5. k \in 1..n /\ k - 1 \in 0..n /\ k - 1 \notin bad
    BY <1>3, <1>4
  <1>6. PICK f \in [0..(k - 1) -> S] : Follows(f, k - 1, start, step)
    BY <1>5
  <1> DEFINE g == [i \in 0..k |-> IF i = k THEN step[k][f[k - 1]] ELSE f[i]]
  <1>7. \A i \in 0..(k - 1) : g[i] = f[i] /\ f[i] \in S
    BY <1>5
  <1>8. g[k] = step[k][f[k - 1]] /\ g[k] \in S
    BY <1>5
  <1>9. DOMAIN g = 0..k /\ g = [i \in 0..k |-> g[i]]
    OBVIOUS
  <1>10. \A i \in 0..k : i = k \/ i \in 0..(k - 1)
    BY <1>5
  <1> HIDE DEF g
  <1>11. g \in [0..k -> S]
    BY <1>7, <1>8, <1>9, <1>10
  <1>12. \A i \in 1..k : g[i] = step[i][g[i - 1]]
    <2> SUFFICES ASSUME NEW i \in 1..k PROVE g[i] = step[i][g[i - 1]]
      OBVIOUS
    <2>1. i - 1 \in 0..(k - 1) /\ (i = k \/ i \in 1..(k - 1))
      BY <1>5
    <2>2. i \in 1..(k - 1) => f[i] = step[i][f[i - 1]]
      BY <1>6 DEF Follows
    <2> QED BY <1>5, <1>7, <1>8, <2>1, <2>2
  <1>13. g[0] = start
    BY <1>5, <1>6, <1>7 DEF Follows
  <1>14. Follows(g, k, start, step)
    BY <1>9, <1>12, <1>13 DEF Follows
  <1> QED BY <1>3, <1>11, <1>14

(* Two functions that follow a recursion agree as far as both go.          *)
LEMMA RecursionUnique ==
    ASSUME NEW m \in Nat, NEW n \in Nat, m <= n, NEW start, NEW step, NEW f, NEW g,
           Follows(f, m, start, step), Follows(g, n, start, step)
    PROVE  \A i \in 0..m : f[i] = g[i]
  <1> DEFINE bad == {i \in 0..m : f[i] # g[i]}
  <1>1. SUFFICES ASSUME bad # {} PROVE FALSE
    OBVIOUS
  <1>2. bad \in SUBSET Nat
    OBVIOUS
  <1>3. PICK k \in bad : \A i \in bad : k <= i
    <2> HIDE DEF bad
    <2> QED BY <1>1, <1>2, LeastOf
  <1>4. k # 0
    BY <1>3 DEF Follows
  <1>5. k \in 1..m /\ k \in 1..n /\ k - 1 \in 0..m /\ k - 1 \notin bad
    BY <1>3, <1>4
  <1>6. f[k - 1] = g[k - 1]
    BY <1>5
  <1>7. f[k] = step[k][f[k - 1]] /\ g[k] = step[k][g[k - 1]]
    BY <1>5 DEF Follows
  <1> QED BY <1>3, <1>6, <1>7

(* Sums of natural numbers.                                                *)
LEMMA SumsAre ==
    ASSUME NEW numbers, NEW n \in Nat, DOMAIN numbers = 1..n, \A i \in 1..n : numbers[i] \in Nat
    PROVE  /\ Sums(numbers) \in [0..n -> Nat]
           /\ Sums(numbers)[0] = 0
           /\ \A i \in 1..n : Sums(numbers)[i] = Sums(numbers)[i - 1] + numbers[i]
           /\ Total(numbers) = Sums(numbers)[n]
  <1> DEFINE step == [i \in 1..n |-> [v \in Nat |-> v + numbers[i]]]
             D(f) == [i \in 0..n |-> IF i = 0 THEN 0 ELSE f[i - 1] + numbers[i]]
  <1>1. \A i \in 1..n : step[i] \in [Nat -> Nat] /\ \A v \in Nat : step[i][v] = v + numbers[i]
    OBVIOUS
  <1>2. PICK f \in [0..n -> Nat] : Follows(f, n, 0, step)
    <2> HIDE DEF step
    <2> QED BY <1>1, RecursionDefines
  <1>3. f[0] = 0 /\ \A i \in 1..n : f[i] = f[i - 1] + numbers[i]
    <2>1. \A i \in 1..n : i - 1 \in 0..n /\ f[i - 1] \in Nat
      OBVIOUS
    <2> HIDE DEF step
    <2> QED BY <1>1, <1>2, <2>1 DEF Follows
  <1>4. f = D(f)
    <2>1. \A i \in 0..n : f[i] = IF i = 0 THEN 0 ELSE f[i - 1] + numbers[i]
      BY <1>3
    <2> QED BY <2>1
  <1>5. Len(numbers) = n
    BY LenDomain
  <1>6. Sums(numbers) = CHOOSE g : g = D(g)
    BY <1>5 DEF Sums
  <1>7. Sums(numbers) = D(Sums(numbers))
    <2> HIDE DEF D
    <2> QED BY <1>4, <1>6
  <1> DEFINE s == Sums(numbers)
  <1>8. s[0] = 0 /\ \A i \in 1..n : s[i] = s[i - 1] + numbers[i]
    <2> HIDE DEF s
    <2>1. s = D(s)
      BY <1>7 DEF s
    <2>2. s = [i \in 0..n |-> IF i = 0 THEN 0 ELSE s[i - 1] + numbers[i]]
      BY <2>1
    <2> QED BY <2>2
  <1>9. s = [i \in 0..n |-> s[i]] /\ DOMAIN s = 0..n
    <2> HIDE DEF s
    <2>1. s = D(s)
      BY <1>7 DEF s
    <2>2. s = [i \in 0..n |-> IF i = 0 THEN 0 ELSE s[i - 1] + numbers[i]]
      BY <2>1
    <2> QED BY <2>2
  <1> DEFINE bad == {i \in 0..n : s[i] \notin Nat}
  <1>10. bad = {}
    <2> SUFFICES ASSUME bad # {} PROVE FALSE
      OBVIOUS
    <2>1. bad \in SUBSET Nat
      OBVIOUS
    <2>2. PICK k \in bad : \A m \in bad : k <= m
      <3> HIDE DEF bad
      <3> QED BY <2>1, LeastOf
    <2> HIDE DEF s
    <2>3. k # 0
      BY <1>8, <2>2
    <2>4. k \in 1..n /\ k - 1 \in 0..n /\ k - 1 \notin bad
      BY <2>2, <2>3
    <2>5. s[k] = s[k - 1] + numbers[k] /\ s[k - 1] \in Nat
      BY <1>8, <2>4
    <2> QED BY <2>2, <2>4, <2>5
  <1>11. s \in [0..n -> Nat]
    <2>1. \A i \in 0..n : s[i] \in Nat
      BY <1>10
    <2> HIDE DEF s
    <2> QED BY <1>9, <2>1
  <1>12. Total(numbers) = s[n]
    BY <1>5 DEF Total
  <1> QED BY <1>8, <1>11, <1>12

(* Sums grow.                                                              *)
LEMMA SumsGrow ==
    ASSUME NEW numbers, NEW n \in Nat, DOMAIN numbers = 1..n, \A i \in 1..n : numbers[i] \in Nat
    PROVE  \A i, j \in 0..n : i <= j => Sums(numbers)[i] <= Sums(numbers)[j]
  <1> DEFINE s == Sums(numbers)
  <1>0. s \in [0..n -> Nat] /\ \A i \in 1..n : s[i] = s[i - 1] + numbers[i]
    BY SumsAre, Zenon
  <1> HIDE DEF s
  <1>1. /\ \A i \in 0..n : s[i] \in Nat
        /\ \A i \in 1..n : s[i] = s[i - 1] + numbers[i]
    BY <1>0
  <1> SUFFICES ASSUME NEW i \in 0..n, \E j \in 0..n : i <= j /\ ~(s[i] <= s[j]) PROVE FALSE
    BY DEF s
  <1> DEFINE bad == {j \in 0..n : i <= j /\ ~(s[i] <= s[j])}
  <1>2. bad # {} /\ bad \in SUBSET Nat
    OBVIOUS
  <1>3. PICK k \in bad : \A m \in bad : k <= m
    <2> HIDE DEF bad
    <2> QED BY <1>2, LeastOf
  <1>4. k # i /\ k > i /\ k \in 1..n
    BY <1>1, <1>3
  <1>5. k - 1 \in 0..n /\ i <= k - 1 /\ k - 1 \notin bad
    BY <1>3, <1>4
  <1>6. s[i] <= s[k - 1] /\ s[k] = s[k - 1] + numbers[k]
    BY <1>1, <1>4, <1>5
  <1>7. s[i] \in Nat /\ s[k - 1] \in Nat /\ s[k] \in Nat /\ numbers[k] \in Nat
    BY <1>1, <1>4, <1>5
  <1>8. s[i] <= s[k]
    <2>1. \A x, y, z \in Nat : x <= y => x <= y + z
      OBVIOUS
    <2> QED BY <1>6, <1>7, <2>1, Zenon
  <1> QED BY <1>3, <1>8

(* Powers.                                                                 *)
LEMMA PowerFunction ==
    ASSUME NEW base \in Nat, NEW n \in Nat
    PROVE  \E f \in [0..n -> Nat] :
              /\ Follows(f, n, 1, [i \in Nat |-> [v \in Nat |-> base * v]])
              /\ f[n] = Power(base, n)
  <1> DEFINE step == [i \in Nat |-> [v \in Nat |-> base * v]]
             D(f) == [i \in 0..n |-> IF i = 0 THEN 1 ELSE base * f[i - 1]]
             s == CHOOSE g : g = D(g)
  <1>1. \A i \in Nat : step[i] \in [Nat -> Nat] /\ \A v \in Nat : step[i][v] = base * v
    OBVIOUS
  <1>2. PICK f \in [0..n -> Nat] : Follows(f, n, 1, step)
    <2> HIDE DEF step
    <2>1. \A i \in 1..n : i \in Nat
      OBVIOUS
    <2>2. \A i \in 1..n : step[i] \in [Nat -> Nat]
      BY <1>1, <2>1
    <2> QED BY <2>2, RecursionDefines
  <1>3. f[0] = 1 /\ \A i \in 1..n : f[i] = base * f[i - 1]
    <2>1. \A i \in 1..n : i \in Nat /\ i - 1 \in 0..n /\ f[i - 1] \in Nat
      OBVIOUS
    <2> HIDE DEF step
    <2> QED BY <1>1, <1>2, <2>1 DEF Follows
  <1>4. f = D(f)
    <2>1. \A i \in 0..n : f[i] = IF i = 0 THEN 1 ELSE base * f[i - 1]
      BY <1>3
    <2> QED BY <2>1
  <1>5. s = D(s)
    <2> HIDE DEF D
    <2> QED BY <1>4
  <1> HIDE DEF s
  <1>6. s = [i \in 0..n |-> IF i = 0 THEN 1 ELSE base * s[i - 1]]
    BY <1>5
  <1>7. DOMAIN s = 0..n /\ s[0] = 1 /\ \A i \in 1..n : s[i] = base * s[i - 1]
    BY <1>6
  <1> DEFINE bad == {i \in 0..n : s[i] # f[i]}
  <1>8. bad = {}
    <2> SUFFICES ASSUME bad # {} PROVE FALSE
      OBVIOUS
    <2>1. bad \in SUBSET Nat
      OBVIOUS
    <2>2. PICK k \in bad : \A m \in bad : k <= m
      <3> HIDE DEF bad
      <3> QED BY <2>1, LeastOf
    <2>3. k # 0
      BY <1>3, <1>7, <2>2
    <2>4. k \in 1..n /\ k - 1 \in 0..n /\ k - 1 \notin bad
      BY <2>2, <2>3
    <2>5. s[k] = base * s[k - 1] /\ f[k] = base * f[k - 1] /\ s[k - 1] = f[k - 1]
      BY <1>3, <1>7, <2>4
    <2> QED BY <2>2, <2>5
  <1>9. s[n] = f[n]
    <2>1. n \in 0..n
      OBVIOUS
    <2> QED BY <1>8, <2>1
  <1>10. Power(base, n) = s[n]
    BY DEF Power, s
  <1> HIDE DEF step
  <1>11. f[n] = Power(base, n)
    BY <1>9, <1>10
  <1> QED BY <1>2, <1>11 DEF step

(* Powers, as their recursion gives them.                                  *)
LEMMA PowerIs ==
    ASSUME NEW base \in Nat
    PROVE  /\ Power(base, 0) = 1
           /\ \A n \in Nat : Power(base, n) \in Nat /\ Power(base, n + 1) = base * Power(base, n)
  <1> DEFINE step == [i \in Nat |-> [v \in Nat |-> base * v]]
  <1>1. ASSUME NEW n \in Nat
        PROVE  \E f \in [0..n -> Nat] : Follows(f, n, 1, step) /\ f[n] = Power(base, n)
    BY PowerFunction
  <1>2. \A i \in Nat, v \in Nat : step[i][v] = base * v
    OBVIOUS
  <1> HIDE DEF step
  <1>3. Power(base, 0) = 1
    <2>1. 0 \in Nat
      OBVIOUS
    <2> QED BY <1>1, <2>1 DEF Follows
  <1>4. ASSUME NEW n \in Nat PROVE Power(base, n) \in Nat /\ Power(base, n + 1) = base * Power(base, n)
    <2>1. PICK f \in [0..n -> Nat] : Follows(f, n, 1, step) /\ f[n] = Power(base, n)
      BY <1>1
    <2>2. n + 1 \in Nat /\ n + 1 \in 1..(n + 1) /\ n <= n + 1 /\ n \in 0..n /\ (n + 1) - 1 = n
      OBVIOUS
    <2>3. PICK g \in [0..(n + 1) -> Nat] : Follows(g, n + 1, 1, step) /\ g[n + 1] = Power(base, n + 1)
      BY <1>1, <2>2
    <2>4. g[n] = f[n]
      <3>1. Follows(f, n, 1, step) /\ Follows(g, n + 1, 1, step) /\ n + 1 \in Nat /\ n <= n + 1
        BY <2>1, <2>2, <2>3
      <3>2. \A i \in 0..n : f[i] = g[i]
        BY <3>1, RecursionUnique, SMTT(30)
      <3> QED BY <2>2, <3>2, Zenon
    <2>5. g[n + 1] = step[n + 1][g[n]]
      BY <2>2, <2>3 DEF Follows
    <2>6. g[n] \in Nat
      OBVIOUS
    <2>7. step[n + 1][g[n]] = base * g[n]
      BY <1>2, <2>2, <2>6, Zenon
    <2> QED BY <2>1, <2>3, <2>4, <2>5, <2>6, <2>7, Zenon
  <1> QED BY <1>3, <1>4

(* Powers of a positive base are positive.                                 *)
LEMMA PowerPositive ==
    ASSUME NEW base \in Nat \ {0}, NEW n \in Nat
    PROVE  Power(base, n) \in Nat \ {0}
  <1> DEFINE bad == {i \in Nat : Power(base, i) = 0}
  <1>1. bad = {}
    <2> SUFFICES ASSUME bad # {} PROVE FALSE
      OBVIOUS
    <2>1. bad \in SUBSET Nat
      OBVIOUS
    <2>2. PICK k \in bad : \A m \in bad : k <= m
      <3> HIDE DEF bad
      <3> QED BY <2>1, LeastOf
    <2>3. k # 0
      BY <2>2, PowerIs
    <2>4. k - 1 \in Nat /\ k - 1 \notin bad
      BY <2>2, <2>3
    <2>5. Power(base, k - 1) \in Nat /\ Power(base, (k - 1) + 1) = base * Power(base, k - 1)
      BY <2>4, PowerIs
    <2>6. (k - 1) + 1 = k
      BY <2>2
    <2>7. Power(base, k - 1) # 0
      BY <2>4
    <2>8. \A p, b \in Nat \ {0} : b * p # 0
      OBVIOUS
    <2> QED BY <2>2, <2>5, <2>6, <2>7, <2>8
  <1>2. Power(base, n) \in Nat
    BY PowerIs
  <1> QED BY <1>1, <1>2

(* Division.                                                               *)
LEMMA DivideIs ==
    ASSUME NEW b \in Nat \ {0}, NEW q \in Nat, NEW r \in Nat, r < b
    PROVE  (b * q + r) \div b = q /\ (b * q + r) % b = r
  OBVIOUS

(* A number is its quotient and its remainder.                             *)
LEMMA DivideInto ==
    ASSUME NEW b \in Nat \ {0}, NEW v \in Nat
    PROVE  /\ v \div b \in Nat /\ v % b \in Nat /\ v % b < b
           /\ v = b * (v \div b) + (v % b)
  OBVIOUS

(* Dividing twice.                                                         *)
LEMMA DivideTwice ==
    ASSUME NEW b \in Nat \ {0}, NEW p \in Nat \ {0}, NEW v \in Nat
    PROVE  /\ b * p \in Nat \ {0}
           /\ v \div (b * p) = (v \div p) \div b
  <1> DEFINE q == v \div p r == v % p
  <1>1. q \in Nat /\ r \in Nat /\ r < p /\ v = p * q + r
    BY DivideInto
  <1> HIDE DEF q, r
  <1> DEFINE c == q \div b d == q % b
  <1>2. c \in Nat /\ d \in Nat /\ d < b /\ q = b * c + d
    BY <1>1, DivideInto
  <1> HIDE DEF c, d
  <1>3. b * p \in Nat \ {0}
    <2>1. \A x, y \in Nat \ {0} : x * y \in Nat \ {0}
      OBVIOUS
    <2> QED BY <2>1
  <1>4. v = (b * p) * c + (p * d + r)
    BY <1>1, <1>2
  <1>5. p * d + r \in Nat /\ p * d + r < b * p
    <2>1. p * d \in Nat
      BY <1>2
    <2>2. p * d <= p * (b - 1)
      <3>1. d <= b - 1 /\ b - 1 \in Nat
        BY <1>2
      <3>2. \A x, y, z \in Nat : x <= y => z * x <= z * y
        OBVIOUS
      <3> QED BY <1>2, <3>1, <3>2
    <2>3. p * (b - 1) = b * p - p
      OBVIOUS
    <2>4. b * p \in Nat
      OBVIOUS
    <2> QED BY <1>1, <2>1, <2>2, <2>3, <2>4
  <1>6. v \div (b * p) = c
    <2> DEFINE B == b * p R == p * d + r
    <2>1. B \in Nat \ {0} /\ R \in Nat /\ R < B /\ v = B * c + R
      BY <1>3, <1>4, <1>5
    <2> HIDE DEF B, R
    <2>2. v \div B = c
      BY <1>2, <2>1, DivideIs
    <2> QED BY <2>2 DEF B
  <1> QED BY <1>3, <1>6 DEF c, q

(* The digits of a value give it back if there are enough of them.         *)
LEMMA DigitsRead ==
    ASSUME NEW base \in Nat \ {0}, NEW n \in Nat, NEW v \in Nat
    PROVE  /\ DOMAIN Digits(v, base, n) = 1..n /\ Len(Digits(v, base, n)) = n
           /\ Digits(v, base, n) \in Seq(Nat)
           /\ \A i \in 1..n : Digits(v, base, n)[i] \in Nat /\ Digits(v, base, n)[i] < base
           /\ v < Power(base, n) => ValueOf(Digits(v, base, n), base) = v
  <1> DEFINE P(i) == Power(base, i)
             d == Digits(v, base, n)
             numbers == [i \in 1..n |-> d[i] * P(i - 1)]
             s == Sums(numbers)
  <1>1. \A i \in Nat : P(i) \in Nat \ {0} /\ P(i + 1) = base * P(i)
    <2>1. \A i \in Nat : P(i + 1) = base * P(i)
      BY PowerIs
    <2> QED BY <2>1, PowerPositive
  <1>2. P(0) = 1
    BY PowerIs
  <1>3. d = [i \in 1..n |-> (v \div P(i - 1)) % base]
    BY DEF Digits
  <1> HIDE DEF P, d
  <1>4. DOMAIN d = 1..n
    BY <1>3
  <1>5. ASSUME NEW i \in 1..n
        PROVE  /\ i - 1 \in Nat /\ P(i - 1) \in Nat \ {0} /\ v \div P(i - 1) \in Nat
               /\ d[i] = (v \div P(i - 1)) % base /\ d[i] \in Nat /\ d[i] < base
    <2>1. i - 1 \in Nat
      OBVIOUS
    <2>2. P(i - 1) \in Nat \ {0}
      BY <1>1, <2>1
    <2>3. v \div P(i - 1) \in Nat
      BY <2>2, DivideInto
    <2>4. d[i] = (v \div P(i - 1)) % base
      BY <1>3
    <2>5. d[i] \in Nat /\ d[i] < base
      BY <2>3, <2>4, DivideInto
    <2> QED BY <2>1, <2>2, <2>3, <2>4, <2>5
  <1>6. \A i \in 1..n : numbers[i] = d[i] * P(i - 1) /\ numbers[i] \in Nat
    <2>1. \A x, y \in Nat : x * y \in Nat
      OBVIOUS
    <2> QED BY <1>5, <2>1
  <1>7. DOMAIN numbers = 1..n
    OBVIOUS
  <1>8. ValueOf(d, base) = Total(numbers)
    BY <1>4 DEF ValueOf, P
  <1> HIDE DEF numbers
  <1>8a. /\ s \in [0..n -> Nat]
         /\ s[0] = 0
         /\ \A i \in 1..n : s[i] = s[i - 1] + numbers[i]
         /\ Total(numbers) = s[n]
    <2>1. \A i \in 1..n : numbers[i] \in Nat
      BY <1>6, Zenon
    <2> QED BY <1>7, <2>1, SumsAre, Zenon
  <1> HIDE DEF s
  <1>9. /\ \A i \in 0..n : s[i] \in Nat
        /\ s[0] = 0
        /\ \A i \in 1..n : s[i] = s[i - 1] + numbers[i]
        /\ Total(numbers) = s[n]
    BY <1>8a
  <1> DEFINE bad == {i \in 0..n : s[i] + P(i) * (v \div P(i)) # v}
  <1>10. bad = {}
    <2> SUFFICES ASSUME bad # {} PROVE FALSE
      OBVIOUS
    <2>1. bad \in SUBSET Nat
      OBVIOUS
    <2>2. PICK k \in bad : \A m \in bad : k <= m
      <3> HIDE DEF bad
      <3> QED BY <2>1, LeastOf
    <2>3. k # 0
      <3>1. v \div 1 = v
        OBVIOUS
      <3> QED BY <1>2, <1>9, <2>2, <3>1
    <2>4. k \in 1..n /\ k - 1 \in 0..n /\ k - 1 \notin bad /\ (k - 1) + 1 = k
      BY <2>2, <2>3
    <2> DEFINE p == P(k - 1) q == v \div p c == q \div base
    <2>5. p \in Nat \ {0} /\ q \in Nat /\ d[k] = q % base /\ P(k) = base * p
      BY <1>1, <1>5, <2>4
    <2>6. s[k - 1] + p * q = v
      BY <2>4
    <2>7. s[k] = s[k - 1] + d[k] * p
      BY <1>6, <1>9, <2>4
    <2>8. s[k] + P(k) * (v \div P(k)) # v
      BY <2>2
    <2> HIDE DEF p
    <2>9. v \div P(k) = c
      BY <2>5, DivideTwice
    <2> HIDE DEF q
    <2>10. c \in Nat /\ d[k] \in Nat /\ q = base * c + d[k]
      BY <2>5, DivideInto
    <2> HIDE DEF c
    <2>11. s[k] + P(k) * c = v
      <3>1. s[k - 1] \in Nat
        BY <1>9, <2>4
      <3>2. s[k] + P(k) * c = s[k - 1] + d[k] * p + (base * p) * c
        BY <2>5, <2>7
      <3>3. p * q = p * (base * c + d[k])
        BY <2>10
      <3>4. p * (base * c + d[k]) = d[k] * p + (base * p) * c
        BY <2>5, <2>10
      <3>5. p * q \in Nat /\ d[k] * p \in Nat /\ (base * p) * c \in Nat
        BY <2>5, <2>10
      <3> QED BY <2>6, <3>1, <3>2, <3>3, <3>4, <3>5
    <2> QED BY <2>8, <2>9, <2>11
  <1>11. ASSUME v < P(n) PROVE ValueOf(d, base) = v
    <2>1. n \in 0..n /\ P(n) \in Nat \ {0}
      BY <1>1
    <2>2. s[n] + P(n) * (v \div P(n)) = v
      BY <1>10, <2>1
    <2>3. v \div P(n) = 0
      <3>1. \A b \in Nat \ {0} : v < b => v \div b = 0
        OBVIOUS
      <3> QED BY <1>11, <2>1, <3>1
    <2>4. s[n] \in Nat
      BY <1>9, <2>1
    <2>5. P(n) * 0 = 0
      BY <2>1
    <2>6. s[n] = v
      BY <2>2, <2>3, <2>4, <2>5
    <2> QED BY <1>8, <1>9, <2>6
  <1>12. Len(d) = n /\ d \in Seq(Nat)
    <2>1. d = [i \in 1..n |-> d[i]]
      BY <1>3
    <2>2. d \in [1..n -> Nat]
      BY <1>5, <2>1
    <2> QED BY <1>4, <2>2
  <1> QED BY <1>4, <1>5, <1>11, <1>12 DEF d, P

(* A place in a row of sequences is in one of them.                        *)
LEMMA SumsCover ==
    ASSUME NEW numbers, NEW n \in Nat, DOMAIN numbers = 1..n, \A i \in 1..n : numbers[i] \in Nat,
           NEW p \in Nat, p >= 1, p <= Sums(numbers)[n]
    PROVE  \E k \in 1..n : \E j \in 1..numbers[k] : p = Sums(numbers)[k - 1] + j
  <1> DEFINE s == Sums(numbers)
  <1>a. /\ s \in [0..n -> Nat] /\ s[0] = 0
        /\ \A i \in 1..n : s[i] = s[i - 1] + numbers[i]
    BY SumsAre, Zenon
  <1>0. p <= s[n]
    OBVIOUS
  <1> HIDE DEF s
  <1>1. /\ \A i \in 0..n : s[i] \in Nat
        /\ s[0] = 0
        /\ \A i \in 1..n : s[i] = s[i - 1] + numbers[i]
    BY <1>a
  <1> DEFINE I == {i \in 0..n : p <= s[i]}
  <1>2. I \in SUBSET Nat /\ n \in I
    BY <1>0
  <1>3. PICK k \in I : \A m \in I : k <= m
    <2> HIDE DEF I
    <2> QED BY <1>2, LeastOf
  <1>4. k # 0
    BY <1>1, <1>3
  <1>5. k \in 1..n /\ k - 1 \in 0..n /\ k - 1 \notin I
    BY <1>3, <1>4
  <1>6. s[k - 1] < p /\ p <= s[k] /\ s[k] = s[k - 1] + numbers[k] /\ s[k - 1] \in Nat
    BY <1>1, <1>3, <1>5
  <1>7. p - s[k - 1] \in 1..numbers[k] /\ p = s[k - 1] + (p - s[k - 1])
    BY <1>5, <1>6
  <1> QED BY <1>5, <1>7 DEF s

(* Sequences one after another: each is found after the end of the one     *)
(* before it.                                                              *)
EndToEnd(flat, ends, T, n, seqs) ==
    /\ flat \in Seq(T) /\ Len(flat) = ends[n]
    /\ ends \in [0..n -> Nat] /\ ends[0] = 0
    /\ \A i \in 1..n : ends[i] = ends[i - 1] + Len(seqs[i])
    /\ \A i, j \in 0..n : i <= j => ends[i] <= ends[j]
    /\ \A i \in 1..n : \A j \in 1..Len(seqs[i]) : flat[ends[i - 1] + j] = seqs[i][j]
    /\ \A p \in 1..ends[n] : \E i \in 1..n : \E j \in 1..Len(seqs[i]) : p = ends[i - 1] + j

(* FlattenSeq writes sequences end to end, and Ends says where.            *)
LEMMA FlatIs ==
    ASSUME NEW T, NEW n \in Nat, NEW seqs \in [1..n -> Seq(T)]
    PROVE  EndToEnd(FlattenSeq(seqs), Ends(seqs), T, n, seqs)
  <1> DEFINE numbers == [i \in 1..n |-> Len(seqs[i])]
             ends == Ends(seqs)
             flat == FlattenSeq(seqs)
  <1>1. ends = Sums(numbers)
    BY DEF Ends
  <1>2. DOMAIN numbers = 1..n /\ \A i \in 1..n : numbers[i] = Len(seqs[i]) /\ numbers[i] \in Nat
    OBVIOUS
  <1> HIDE DEF numbers, ends
  <1>3. /\ ends \in [0..n -> Nat] /\ ends[0] = 0
        /\ \A i \in 1..n : ends[i] = ends[i - 1] + Len(seqs[i])
    <2>1. /\ ends \in [0..n -> Nat] /\ ends[0] = 0
          /\ \A i \in 1..n : ends[i] = ends[i - 1] + numbers[i]
      BY <1>1, <1>2, SumsAre
    <2> QED BY <1>2, <2>1
  <1>4. \A i, j \in 0..n : i <= j => ends[i] <= ends[j]
    BY <1>1, <1>2, SumsGrow
  <1>5. ASSUME NEW p \in 1..ends[n]
        PROVE  \E i \in 1..n : \E j \in 1..Len(seqs[i]) : p = ends[i - 1] + j
    <2>1. p \in Nat /\ p >= 1 /\ p <= ends[n]
      BY <1>3
    <2>2. \E i \in 1..n : \E j \in 1..numbers[i] : p = Sums(numbers)[i - 1] + j
      BY <1>1, <1>2, <2>1, SumsCover
    <2> QED BY <1>1, <1>2, <2>2
  <1> DEFINE step == [i \in 1..n |-> [v \in Seq(T) |-> v \o seqs[i]]]
  <1>6. \A i \in 1..n : step[i] \in [Seq(T) -> Seq(T)] /\ \A v \in Seq(T) : step[i][v] = v \o seqs[i]
    OBVIOUS
  <1>7. PICK g \in [0..n -> Seq(T)] : Follows(g, n, <<>>, step)
    <2>1. <<>> \in Seq(T)
      OBVIOUS
    <2> HIDE DEF step
    <2> QED BY <1>6, <2>1, RecursionDefines
  <1>8. g[0] = <<>> /\ \A i \in 1..n : g[i - 1] \in Seq(T) /\ g[i] = g[i - 1] \o seqs[i]
    <2>1. \A i \in 1..n : i - 1 \in 0..n /\ g[i - 1] \in Seq(T)
      OBVIOUS
    <2> HIDE DEF step
    <2> QED BY <1>6, <1>7, <2>1 DEF Follows
  <1>9. flat = g[n]
    <2>1. Len(seqs) = n
      OBVIOUS
    <2>2. CASE n = 0
      <3>1. seqs = <<>>
        BY <2>2
      <3> QED BY <1>8, <2>1, <2>2, <3>1 DEF FlattenSeq
    <2>3. CASE n # 0
      <3> DEFINE D(f) == [i \in 1..n |-> IF i = 1 THEN seqs[i] ELSE f[i - 1] \o seqs[i]]
                 s == CHOOSE f : f = D(f)
                 f == [i \in 1..n |-> g[i]]
      <3>1. flat = s[n]
        BY <2>1, <2>3 DEF FlattenSeq
      <3>2. \A i \in 1..n : f[i] = g[i]
        OBVIOUS
      <3>3. f = D(f)
        <4>1. \A i \in 1..n : g[i] = IF i = 1 THEN seqs[i] ELSE f[i - 1] \o seqs[i]
          <5> SUFFICES ASSUME NEW i \in 1..n
                       PROVE  g[i] = IF i = 1 THEN seqs[i] ELSE f[i - 1] \o seqs[i]
            OBVIOUS
          <5>1. g[i] = g[i - 1] \o seqs[i]
            BY <1>8
          <5>2. i = 1 => g[i - 1] = <<>>
            BY <1>8
          <5>3. <<>> \o seqs[i] = seqs[i]
            OBVIOUS
          <5>4. i # 1 => i - 1 \in 1..n
            OBVIOUS
          <5>5. i # 1 => f[i - 1] = g[i - 1]
            BY <3>2, <5>4
          <5> HIDE DEF f
          <5> QED BY <5>1, <5>2, <5>3, <5>5
        <4> QED BY <4>1
      <3>4. s = D(s)
        <4> HIDE DEF D, f
        <4> QED BY <3>3
      <3> HIDE DEF s, f
      <3>5. \A i \in 1..n : s[i] = IF i = 1 THEN seqs[i] ELSE s[i - 1] \o seqs[i]
        <4>1. s = [i \in 1..n |-> IF i = 1 THEN seqs[i] ELSE s[i - 1] \o seqs[i]]
          BY <3>4
        <4> QED BY <4>1
      <3>6. \A i \in 1..n : f[i] = IF i = 1 THEN seqs[i] ELSE f[i - 1] \o seqs[i]
        <4>1. f = [i \in 1..n |-> IF i = 1 THEN seqs[i] ELSE f[i - 1] \o seqs[i]]
          BY <3>3
        <4> QED BY <4>1
      <3> DEFINE bad == {i \in 1..n : s[i] # f[i]}
      <3>7. bad = {}
        <4> SUFFICES ASSUME bad # {} PROVE FALSE
          OBVIOUS
        <4>1. bad \in SUBSET Nat
          OBVIOUS
        <4>2. PICK k \in bad : \A m \in bad : k <= m
          <5> HIDE DEF bad
          <5> QED BY <4>1, LeastOf
        <4>3. k # 1
          BY <3>5, <3>6, <4>2
        <4>4. k \in 1..n /\ k - 1 \in 1..n /\ k - 1 \notin bad
          BY <4>2, <4>3
        <4>5. s[k - 1] = f[k - 1]
          BY <4>4
        <4> QED BY <3>5, <3>6, <4>2, <4>3, <4>5
      <3>8. n \in 1..n
        BY <2>3
      <3> QED BY <3>1, <3>2, <3>7, <3>8
    <2> QED BY <2>2, <2>3
  <1> HIDE DEF step, flat
  <1> DEFINE Good(i) == /\ Len(g[i]) = ends[i]
                        /\ \A k \in 1..i : \A j \in 1..Len(seqs[k]) : g[i][ends[k - 1] + j] = seqs[k][j]
             bad == {i \in 0..n : ~Good(i)}
  <1>10. bad = {}
    <2> SUFFICES ASSUME bad # {} PROVE FALSE
      OBVIOUS
    <2>1. bad \in SUBSET Nat
      OBVIOUS
    <2>2. PICK m \in bad : \A i \in bad : m <= i
      <3> HIDE DEF bad
      <3> QED BY <2>1, LeastOf
    <2>3. m # 0
      <3>1. Good(0)
        BY <1>3, <1>8
      <3> QED BY <2>2, <3>1
    <2>4. m \in 1..n /\ m - 1 \in 0..n /\ m - 1 \notin bad
      <3> HIDE DEF Good
      <3> QED BY <2>2, <2>3
    <2>5. /\ Len(g[m - 1]) = ends[m - 1]
          /\ \A k \in 1..(m - 1) : \A j \in 1..Len(seqs[k]) : g[m - 1][ends[k - 1] + j] = seqs[k][j]
      BY <2>4
    <2>6. g[m] = g[m - 1] \o seqs[m] /\ g[m - 1] \in Seq(T) /\ seqs[m] \in Seq(T)
      BY <1>8, <2>4
    <2>7. Len(g[m]) = ends[m]
      <3>1. Len(g[m]) = Len(g[m - 1]) + Len(seqs[m])
        BY <2>6
      <3> QED BY <1>3, <2>4, <2>5, <3>1
    <2>8. ASSUME NEW k \in 1..m, NEW j \in 1..Len(seqs[k]) PROVE g[m][ends[k - 1] + j] = seqs[k][j]
      <3>1. k \in 1..n /\ k - 1 \in 0..n /\ ends[k - 1] \in Nat /\ ends[k] = ends[k - 1] + Len(seqs[k])
        <4> HIDE DEF bad, Good
        <4>1. k \in 1..n /\ k - 1 \in 0..n
          BY <2>4
        <4> QED BY <1>3, <4>1
      <3>2. CASE k = m
        <4>1. Len(g[m - 1]) = ends[k - 1]
          BY <2>5, <3>2
        <4>2. \A u, w \in Seq(T) : \A x \in 1..Len(w) : (u \o w)[Len(u) + x] = w[x]
          OBVIOUS
        <4> HIDE DEF bad, Good
        <4>3. j \in 1..Len(seqs[m])
          BY <3>2
        <4>4. (g[m - 1] \o seqs[m])[Len(g[m - 1]) + j] = seqs[m][j]
          BY <2>6, <4>2, <4>3, Zenon
        <4> QED BY <2>6, <3>2, <4>1, <4>4, Zenon
      <3>3. CASE k # m
        <4>1. k \in 1..(m - 1) /\ ends[k] <= ends[m - 1] /\ ends[m - 1] \in Nat
          BY <1>3, <1>4, <2>4, <3>1, <3>3
        <4>2. g[m - 1][ends[k - 1] + j] = seqs[k][j]
          BY <2>5, <4>1
        <4>3. ends[k - 1] + j \in 1..Len(g[m - 1])
          <5> HIDE DEF bad, Good
          <5>1. Len(seqs[k]) \in Nat /\ j \in Nat /\ j >= 1 /\ j <= Len(seqs[k])
            BY <3>1
          <5>2. ends[k - 1] + j <= ends[k]
            BY <3>1, <5>1
          <5>3. ends[k] \in Nat /\ Len(g[m - 1]) = ends[m - 1]
            BY <1>3, <2>5, <3>1
          <5>4. ends[k - 1] + j \in Nat /\ ends[k - 1] + j >= 1 /\ ends[k - 1] + j <= ends[m - 1]
            <6>1. \A a, b, c \in Nat : a <= b /\ b <= c => a <= c
              OBVIOUS
            <6>2. ends[k - 1] + j \in Nat /\ ends[k - 1] + j >= 1
              <7>1. \A x, y \in Nat : y >= 1 => x + y \in Nat /\ x + y >= 1
                OBVIOUS
              <7> QED BY <3>1, <5>1, <7>1
            <6> QED BY <4>1, <5>2, <5>3, <6>1, <6>2
          <5> QED BY <4>1, <5>3, <5>4
        <4>4. \A u, w \in Seq(T) : \A x \in 1..Len(u) : (u \o w)[x] = u[x]
          OBVIOUS
        <4> HIDE DEF bad, Good
        <4>5. (g[m - 1] \o seqs[m])[ends[k - 1] + j] = g[m - 1][ends[k - 1] + j]
          BY <2>6, <4>3, <4>4, Zenon
        <4> QED BY <2>6, <4>2, <4>5, Zenon
      <3> QED BY <3>2, <3>3
    <2>9. Good(m)
      BY <2>7, <2>8
    <2> QED BY <2>2, <2>9
  <1>11. Good(n)
    <2>1. n \in 0..n
      OBVIOUS
    <2> QED BY <1>10, <2>1
  <1>12. flat \in Seq(T)
    BY <1>9
  <1>13. EndToEnd(flat, ends, T, n, seqs)
    BY <1>3, <1>4, <1>5, <1>9, <1>11, <1>12 DEF EndToEnd
  <1> QED BY <1>13 DEF flat, ends

(* A position before the end of n parts of length w is in one of them.     *)
LEMMA Quotient ==
    ASSUME NEW w \in Nat \ {0}, NEW n \in Nat, NEW v \in Nat, v < n * w
    PROVE  v \div w \in Nat /\ v \div w < n
  <1> DEFINE q == v \div w r == v % w
  <1>1. q \in Nat /\ r \in Nat /\ v = w * q + r
    BY DivideInto
  <1> HIDE DEF q, r
  <1>2. CASE q < n
    BY <1>1, <1>2 DEF q
  <1>3. CASE n <= q
    <2>1. \A x, y, z \in Nat : x <= y => x * z <= z * y
      OBVIOUS
    <2>2. n * w <= w * q /\ n * w \in Nat /\ w * q \in Nat
      BY <1>1, <1>3, <2>1
    <2> QED BY <1>1, <2>2
  <1> QED BY <1>1, <1>2, <1>3

(* Sequences of one length: the i-th starts after i - 1 of them.           *)
InRow(J, T, seqs, n, w) ==
    /\ J \in Seq(T) /\ Len(J) = n * w /\ n * w \in Nat
    /\ \A i \in 1..n, j \in 1..w : /\ (i - 1) * w + j \in 1..(n * w)
                                   /\ J[(i - 1) * w + j] = seqs[i][j]

(* Joined writes sequences of one length in a row.                         *)
LEMMA JoinedIs ==
    ASSUME NEW T, NEW w \in Nat \ {0}, NEW n \in Nat, NEW seqs, DOMAIN seqs = 1..n,
           \A i \in 1..n : seqs[i] \in Seq(T) /\ Len(seqs[i]) = w
    PROVE  InRow(Joined(seqs, w), T, seqs, n, w)
  <1> DEFINE J == Joined(seqs, w)
  <1>1. Len(seqs) = n
    BY LenDomain
  <1>2. J = [p \in 1..(n * w) |-> seqs[((p - 1) \div w) + 1][((p - 1) % w) + 1]]
    BY <1>1 DEF Joined
  <1> HIDE DEF J
  <1>3. n * w \in Nat
    OBVIOUS
  <1>4. ASSUME NEW p \in 1..(n * w)
        PROVE  ((p - 1) \div w) + 1 \in 1..n /\ ((p - 1) % w) + 1 \in 1..w
    <2>1. p - 1 \in Nat /\ p - 1 < n * w
      BY <1>3
    <2>2. (p - 1) \div w \in Nat /\ (p - 1) \div w < n
      BY <2>1, Quotient
    <2>3. (p - 1) % w \in Nat /\ (p - 1) % w < w
      BY <2>1, DivideInto
    <2> QED BY <2>2, <2>3
  <1>5. \A i \in 1..n, j \in 1..w : seqs[i][j] \in T
    OBVIOUS
  <1>6. \A p \in 1..(n * w) : J[p] \in T
    BY <1>2, <1>4, <1>5
  <1>7. J \in [1..(n * w) -> T]
    BY <1>2, <1>6
  <1>8. J \in Seq(T) /\ Len(J) = n * w
    BY <1>3, <1>7
  <1>9. ASSUME NEW i \in 1..n, NEW j \in 1..w
        PROVE  (i - 1) * w + j \in 1..(n * w) /\ J[(i - 1) * w + j] = seqs[i][j]
    <2> DEFINE p == (i - 1) * w + j
    <2>1. i - 1 \in Nat /\ j - 1 \in Nat /\ j - 1 < w
      OBVIOUS
    <2>2. (i - 1) * w \in Nat /\ (i - 1) * w + w <= n * w
      <3>1. (i - 1) * w \in Nat
        BY <2>1
      <3>2. (i - 1) * w + w = i * w
        OBVIOUS
      <3>3. \A x, y, z \in Nat : x <= y => x * z <= y * z
        OBVIOUS
      <3>4. i * w <= n * w
        BY <3>3
      <3> QED BY <3>1, <3>2, <3>4
    <2>3. p \in 1..(n * w)
      <3> DEFINE x == (i - 1) * w y == n * w
      <3>1. x \in Nat /\ y \in Nat /\ x + w <= y
        BY <1>3, <2>2
      <3> HIDE DEF x, y
      <3>2. x + j \in 1..y
        BY <3>1
      <3> QED BY <3>2 DEF x, y
    <2>4. p - 1 = w * (i - 1) + (j - 1)
      OBVIOUS
    <2> HIDE DEF p
    <2>5. (p - 1) \div w = i - 1 /\ (p - 1) % w = j - 1
      <3>1. \A q, r \in Nat : r < w => (w * q + r) \div w = q /\ (w * q + r) % w = r
        BY DivideIs
      <3>2. (w * (i - 1) + (j - 1)) \div w = i - 1 /\ (w * (i - 1) + (j - 1)) % w = j - 1
        BY <2>1, <3>1
      <3> QED BY <2>4, <3>2
    <2>6. J[p] = seqs[((p - 1) \div w) + 1][((p - 1) % w) + 1]
      BY <1>2, <2>3
    <2>7. ((p - 1) \div w) + 1 = i /\ ((p - 1) % w) + 1 = j
      BY <2>5
    <2> QED BY <2>3, <2>6, <2>7 DEF p
  <1>10. InRow(J, T, seqs, n, w)
    BY <1>3, <1>8, <1>9 DEF InRow
  <1> QED BY <1>10 DEF J

(* A part of a sequence.                                                   *)
LEMMA PartIs ==
    ASSUME NEW T, NEW s \in Seq(T), NEW part \in Seq(T), NEW from \in Nat,
           from + Len(part) <= Len(s), \A j \in 1..Len(part) : s[from + j] = part[j]
    PROVE  SubSeq(s, from + 1, from + Len(part)) = part
  <1> DEFINE n == Len(part) q == SubSeq(s, from + 1, from + n)
  <1>1. n \in Nat /\ Len(s) \in Nat
    OBVIOUS
  <1>2. q \in Seq(T) /\ Len(q) = n /\ \A j \in 1..n : q[j] = s[from + j]
    <2>1. q = [j \in 1..n |-> s[from + j]]
      <3>1. q = [j \in 1..((from + n) - (from + 1) + 1) |-> s[(from + 1) + j - 1]]
        OBVIOUS
      <3>2. (from + n) - (from + 1) + 1 = n
        BY <1>1
      <3>3. \A j \in 1..n : (from + 1) + j - 1 = from + j
        BY <1>1
      <3> HIDE DEF n, q
      <3> QED BY <3>1, <3>2, <3>3
    <2>2. \A j \in 1..n : from + j \in 1..Len(s)
      BY <1>1
    <2>3. \A j \in 1..n : s[from + j] \in T
      BY <2>2
    <2> HIDE DEF n, q
    <2> QED BY <1>1, <2>1, <2>3
  <1> HIDE DEF q
  <1>3. q = part
    BY <1>2
  <1> QED BY <1>3 DEF q

BaseOK == ByteBase \in Nat \ {0} /\ Half \in Nat /\ Half >= 2 /\ ByteBase = 2 * Half

(* A byte has twice as many values as a byte of a delta.                   *)
LEMMA BaseIs == BaseOK
  BY FormatAssumption DEF BaseOK, Half

(* Bytes give back a value that fits.                                      *)
LEMMA BytesRead ==
    ASSUME NEW v \in Nat, NEW w \in Nat
    PROVE  /\ Bytes(v, w) \in Seq(Nat) /\ Len(Bytes(v, w)) = w
           /\ v < Power(ByteBase, w) => Value(Bytes(v, w)) = v
  BY BaseIs, DigitsRead DEF BaseOK, Bytes, Value

(* Numbers written at one width.                                           *)
HoldsNumbers(bytes, w, n, numbers) ==
    /\ bytes \in Seq(Nat) /\ Len(bytes) = n * w
    /\ \A i \in 1..n : Number(bytes, w, i) = numbers[i]

(* Numbers that fit are read as they were written.                         *)
LEMMA NumbersRead ==
    ASSUME NEW w \in Nat \ {0}, NEW n \in Nat, NEW numbers, DOMAIN numbers = 1..n,
           \A i \in 1..n : numbers[i] \in Nat /\ numbers[i] < Power(ByteBase, w)
    PROVE  HoldsNumbers(EncodeNumbers(numbers, w), w, n, numbers)
  <1> DEFINE seqs == [i \in 1..n |-> Bytes(numbers[i], w)]
             J == Joined(seqs, w)
  <1>1. EncodeNumbers(numbers, w) = J
    BY DEF EncodeNumbers
  <1>2. DOMAIN seqs = 1..n /\ \A i \in 1..n : seqs[i] = Bytes(numbers[i], w)
    OBVIOUS
  <1>3. \A i \in 1..n : seqs[i] \in Seq(Nat) /\ Len(seqs[i]) = w /\ Value(seqs[i]) = numbers[i]
    BY <1>2, BytesRead
  <1> HIDE DEF seqs
  <1>4. /\ J \in Seq(Nat) /\ Len(J) = n * w /\ n * w \in Nat
        /\ \A i \in 1..n, j \in 1..w : /\ (i - 1) * w + j \in 1..(n * w)
                                       /\ J[(i - 1) * w + j] = seqs[i][j]
    <2>1. \A i \in 1..n : seqs[i] \in Seq(Nat) /\ Len(seqs[i]) = w
      BY <1>3
    <2>2. InRow(J, Nat, seqs, n, w)
      BY <1>2, <2>1, JoinedIs
    <2> HIDE DEF J
    <2> QED BY <2>2 DEF InRow
  <1> HIDE DEF J
  <1>5. ASSUME NEW i \in 1..n PROVE Number(J, w, i) = numbers[i]
    <2>1. (i - 1) * w \in Nat /\ (i - 1) * w + w = i * w
      <3>1. i - 1 \in Nat
        OBVIOUS
      <3> QED BY <3>1
    <2>2. i * w \in Nat /\ i * w <= n * w
      <3>1. w \in 1..w
        OBVIOUS
      <3>2. (i - 1) * w + w \in 1..(n * w)
        BY <1>4, <3>1
      <3> QED BY <1>4, <2>1, <3>2
    <2> DEFINE from == (i - 1) * w
    <2>3. from \in Nat /\ from + Len(seqs[i]) <= Len(J) /\ \A j \in 1..Len(seqs[i]) : J[from + j] = seqs[i][j]
      BY <1>3, <1>4, <2>1, <2>2
    <2>4. i * w = from + Len(seqs[i])
      BY <1>3, <2>1
    <2> HIDE DEF from
    <2>5. SubSeq(J, from + 1, from + Len(seqs[i])) = seqs[i]
      BY <1>3, <1>4, <2>3, PartIs
    <2>6. SubSeq(J, from + 1, i * w) = seqs[i]
      BY <2>4, <2>5
    <2> QED BY <1>3, <2>6 DEF Number, from
  <1> QED BY <1>1, <1>4, <1>5 DEF HoldsNumbers

(* A width that is chosen for a value is wide enough.                      *)
LEMMA WidthFits ==
    ASSUME NEW max \in Nat, max < Limit
    PROVE  WidthFor(max) \in Widths /\ max < Power(ByteBase, WidthFor(max))
  <1> DEFINE W == {w \in Widths : max < Power(ByteBase, w) \/ w = 4}
  <1>1. W \in SUBSET Nat /\ 4 \in W
    BY DEF Widths
  <1>2. \E w \in W : \A y \in W : w <= y
    <2> HIDE DEF W
    <2> QED BY <1>1, LeastOf
  <1>3. WidthFor(max) \in W
    <2>1. WidthFor(max) = CHOOSE w \in W : \A y \in W : w <= y
      BY DEF WidthFor, Min
    <2> HIDE DEF W
    <2> QED BY <1>2, <2>1
  <1> QED BY <1>3 DEF Limit

-----------------------------------------------------------------------------
(* A saved file is accepted, and holds what was saved.                     *)

RowsOf(rels) == [i \in DOMAIN rels |-> [f \in 1..6 |-> IdOf(Symbols(rels), rels[i][f])]]
HashesOf(rels) == [i \in DOMAIN Symbols(rels) |-> HashValue[Symbols(rels)[i]]]
GroupsOf(rels, profile) == [kind \in Kinds |-> Group(RowsOf(rels), kind, profile)]

(* Relationships that can be saved.                                        *)
Savable(rels) ==
    /\ rels \in Seq(Rel)
    /\ IsInjective(rels)
    /\ \A i \in DOMAIN rels : IsRelationship(rels[i])
    /\ Len(rels) < Limit /\ Len(Symbols(rels)) < Limit

(* A file that a save has written for them.                                *)
IsFile(a, rels, profile, width) ==
    /\ Savable(rels) /\ profile \in Profiles
    /\ width \in Widths /\ Len(Symbols(rels)) < Power(ByteBase, width)
    /\ a.revision \in Nat \ {0} /\ a.schemaHash = a.schema /\ a.profile = profile
    /\ a.rowCount = Len(rels) /\ a.symbolCount = Len(Symbols(rels))
    /\ a.symbols = Symbols(rels) /\ a.hashes = HashesOf(rels)
    /\ a.lookup = EncodeNumbers(SortedIds(HashesOf(rels)), width) /\ a.lookupWidth = width
    /\ a.rows = EncodeNumbers(Joined(RowsOf(rels), 6), width) /\ a.rowWidth = width
    /\ a.dir = EncodeIndexes(GroupsOf(rels, profile)).dir
    /\ a.keys = EncodeIndexes(GroupsOf(rels, profile)).keys
    /\ a.keyCount = EncodeIndexes(GroupsOf(rels, profile)).keyCount
    /\ a.ranges = EncodeIndexes(GroupsOf(rels, profile)).ranges
    /\ a.postings = EncodeIndexes(GroupsOf(rels, profile)).postings
    /\ a.postingCount = EncodeIndexes(GroupsOf(rels, profile)).postingCount

(* Encode writes such a file.                                              *)
LEMMA EncodedIsFile ==
    ASSUME NEW rels, Savable(rels), NEW revision \in Nat \ {0}, NEW schema, NEW profile \in Profiles, NEW compact
    PROVE  IsFile(Encode(rels, revision, schema, profile, compact), rels, profile,
                  SymbolWidth(Len(Symbols(rels)), compact))
  <1> DEFINE a == Encode(rels, revision, schema, profile, compact)
             width == SymbolWidth(Len(Symbols(rels)), compact)
  <1>1. width \in Widths /\ Len(Symbols(rels)) < Power(ByteBase, width)
    <2>1. Len(Symbols(rels)) \in Nat /\ Len(Symbols(rels)) < Limit
      BY SymbolsAre DEF Savable
    <2> QED BY <2>1, WidthFits DEF SymbolWidth, Limit, Widths
  <1>2. /\ a.revision = revision /\ a.schemaHash = schema /\ a.schema = schema /\ a.profile = profile
        /\ a.rowCount = Len(rels) /\ a.symbolCount = Len(Symbols(rels)) /\ a.symbols = Symbols(rels)
        /\ a.lookupWidth = width /\ a.rowWidth = width
    BY DEF Encode
  <1>3. a.hashes = HashesOf(rels) /\ a.lookup = EncodeNumbers(SortedIds(HashesOf(rels)), width)
    BY DEF Encode, HashesOf
  <1>4. a.rows = EncodeNumbers(Joined(RowsOf(rels), 6), width)
    BY DEF Encode, RowsOf
  <1>5. /\ a.dir = EncodeIndexes(GroupsOf(rels, profile)).dir
        /\ a.keys = EncodeIndexes(GroupsOf(rels, profile)).keys
        /\ a.keyCount = EncodeIndexes(GroupsOf(rels, profile)).keyCount
        /\ a.ranges = EncodeIndexes(GroupsOf(rels, profile)).ranges
        /\ a.postings = EncodeIndexes(GroupsOf(rels, profile)).postings
        /\ a.postingCount = EncodeIndexes(GroupsOf(rels, profile)).postingCount
    BY DEF Encode, GroupsOf, RowsOf
  <1> HIDE DEF a, width
  <1>6. IsFile(a, rels, profile, width)
    BY <1>1, <1>2, <1>3, <1>4, <1>5 DEF IsFile
  <1> QED BY <1>6 DEF a, width

(* The ids of a row are those of its names.                                *)
LEMMA RowsOfAre ==
    ASSUME NEW rels, Savable(rels)
    PROVE  /\ DOMAIN RowsOf(rels) = 1..Len(rels) /\ Len(rels) \in Nat /\ Len(Symbols(rels)) \in Nat
           /\ DOMAIN rels = 1..Len(rels)
           /\ \A i \in 1..Len(rels) : RowsOf(rels)[i] \in [1..6 -> 0..Len(Symbols(rels))]
           /\ \A i \in 1..Len(rels), f \in 1..6 :
                 LET id == RowsOf(rels)[i][f]
                 IN  \/ id \in 1..Len(Symbols(rels)) /\ Symbols(rels)[id] = rels[i][f] /\ rels[i][f] \in FieldNames[f]
                     \/ id = 0 /\ f = 6 /\ rels[i][f] = NoName
  <1> DEFINE symbols == Symbols(rels) rows == RowsOf(rels)
  <1>1. rels \in Seq(Rel) /\ \A i \in DOMAIN rels : IsRelationship(rels[i])
    BY DEF Savable
  <1>2. /\ symbols \in Seq(Names)
        /\ \A i \in DOMAIN rels, f \in 1..6 :
              rels[i][f] # NoName => \E k \in DOMAIN symbols : symbols[k] = rels[i][f]
    BY <1>1, SymbolsAre
  <1>3. DOMAIN rels = 1..Len(rels) /\ Len(rels) \in Nat /\ DOMAIN rows = DOMAIN rels
    BY <1>1 DEF RowsOf
  <1> HIDE DEF symbols
  <1>4. Len(symbols) \in Nat /\ DOMAIN symbols = 1..Len(symbols)
    BY <1>2
  <1>5. ASSUME NEW i \in 1..Len(rels)
        PROVE  rows[i] = [f \in 1..6 |-> IdOf(symbols, rels[i][f])]
    BY <1>3 DEF RowsOf, symbols
  <1> HIDE DEF rows
  <1>6. ASSUME NEW i \in 1..Len(rels), NEW f \in 1..6
        PROVE  \/ /\ rows[i][f] \in 1..Len(symbols) /\ symbols[rows[i][f]] = rels[i][f]
                  /\ rels[i][f] \in FieldNames[f]
               \/ rows[i][f] = 0 /\ f = 6 /\ rels[i][f] = NoName
    <2>1. rows[i][f] = IdOf(symbols, rels[i][f])
      BY <1>5
    <2>2. rels[i][f] \in FieldNames[f] \/ (f = 6 /\ rels[i][f] = NoName)
      BY <1>1, <1>3 DEF IsRelationship
    <2>3. CASE rels[i][f] = NoName
      <3>1. FieldNames[f] \subseteq Names /\ NoName \notin Names
        BY FormatAssumption
      <3> QED BY <2>1, <2>2, <2>3, <3>1 DEF IdOf
    <2>4. CASE rels[i][f] # NoName
      <3>1. \E k \in DOMAIN symbols : symbols[k] = rels[i][f]
        BY <1>2, <1>3, <2>4
      <3>2. rows[i][f] = CHOOSE k \in DOMAIN symbols : symbols[k] = rels[i][f]
        BY <2>1, <2>4 DEF IdOf
      <3>3. rows[i][f] \in DOMAIN symbols /\ symbols[rows[i][f]] = rels[i][f]
        BY <3>1, <3>2
      <3> QED BY <1>4, <2>2, <2>4, <3>3
    <2> QED BY <2>3, <2>4
  <1>7. ASSUME NEW i \in 1..Len(rels) PROVE rows[i] \in [1..6 -> 0..Len(symbols)]
    <2>1. \A f \in 1..6 : rows[i][f] \in 0..Len(symbols)
      <3>1. \A x \in 1..Len(symbols) : x \in 0..Len(symbols)
        BY <1>4
      <3>2. 0 \in 0..Len(symbols)
        BY <1>4
      <3> QED BY <1>6, <3>1, <3>2, Zenon
    <2>2. rows[i] = [f \in 1..6 |-> rows[i][f]]
      BY <1>5
    <2> QED BY <2>1, <2>2
  <1> QED BY <1>3, <1>4, <1>6, <1>7 DEF rows, symbols

(* The rows of a file are the rows that were saved.                        *)
LEMMA RowsRead ==
    ASSUME NEW a, NEW rels, NEW profile, NEW width, IsFile(a, rels, profile, width)
    PROVE  /\ DiskRows(a) = RowsOf(rels)
           /\ Len(a.rows) = a.rowCount * 6 * a.rowWidth
  <1> DEFINE n == Len(rels) rows == RowsOf(rels) line == Joined(rows, 6) c == Len(Symbols(rels))
  <1>1. Savable(rels) /\ width \in Widths /\ c < Power(ByteBase, width)
        /\ a.rowCount = n /\ a.rowWidth = width /\ a.rows = EncodeNumbers(line, width)
    BY DEF IsFile
  <1>2. /\ DOMAIN rows = 1..n /\ n \in Nat /\ c \in Nat
        /\ \A i \in 1..n : rows[i] \in [1..6 -> 0..c]
    BY <1>1, RowsOfAre
  <1> HIDE DEF n, rows, c
  <1>3. PICK m : m = n * 6
    OBVIOUS
  <1>4. /\ m \in Nat /\ DOMAIN line = 1..m
        /\ \A p \in 1..m : \E i \in 1..n, f \in 1..6 : line[p] = rows[i][f]
        /\ \A i \in 1..n, f \in 1..6 : 6 * (i - 1) + f \in 1..m /\ line[6 * (i - 1) + f] = rows[i][f]
    <2>0. /\ DOMAIN line = 1..(n * 6)
          /\ \A p \in 1..(n * 6) : \E i \in 1..n, f \in 1..6 :
                p = 6 * (i - 1) + f /\ line[p] = rows[i][f]
          /\ \A i \in 1..n, f \in 1..6 :
                6 * (i - 1) + f \in 1..(n * 6) /\ line[6 * (i - 1) + f] = rows[i][f]
      BY <1>2, FieldsInLine, Zenon
    <2>1. DOMAIN line = 1..m
      BY <2>0, <1>3, Zenon
    <2>2. \A p \in 1..m : \E i \in 1..n, f \in 1..6 : p = 6 * (i - 1) + f /\ line[p] = rows[i][f]
      BY <2>0, <1>3, Zenon
    <2>3. ASSUME NEW i \in 1..n, NEW f \in 1..6
          PROVE  6 * (i - 1) + f \in 1..m /\ line[6 * (i - 1) + f] = rows[i][f]
      BY <2>0, <1>3, Zenon
    <2>4. \A p \in 1..m : \E i \in 1..n, f \in 1..6 : line[p] = rows[i][f]
      BY <2>2
    <2>5. m \in Nat
      BY <1>2, <1>3
    <2> HIDE DEF line
    <2> QED BY <2>1, <2>3, <2>4, <2>5
  <1> HIDE DEF line
  <1>5. width \in Nat \ {0} /\ Power(ByteBase, width) \in Nat
    <2>1. width \in Nat \ {0} /\ ByteBase \in Nat
      BY <1>1, BaseIs DEF Widths, BaseOK
    <2> QED BY <2>1, PowerIs
  <1>6. \A p \in 1..m : line[p] \in Nat /\ line[p] < Power(ByteBase, width)
    <2>1. ASSUME NEW i \in 1..n, NEW f \in 1..6
          PROVE  rows[i][f] \in Nat /\ rows[i][f] < Power(ByteBase, width)
      <3>1. rows[i][f] \in 0..c
        BY <1>2
      <3>2. c < Power(ByteBase, width)
        BY <1>1
      <3>3. \A x, y, z \in Nat : x <= y /\ y < z => x < z
        OBVIOUS
      <3>4. rows[i][f] \in Nat /\ rows[i][f] <= c /\ c \in Nat
        BY <1>2, <3>1
      <3> QED BY <1>5, <3>2, <3>3, <3>4
    <2> QED BY <1>4, <2>1
  <1>7. /\ Len(a.rows) = m * width
        /\ \A p \in 1..m : Number(a.rows, width, p) = line[p]
    <2>1. HoldsNumbers(EncodeNumbers(line, width), width, m, line)
      BY <1>4, <1>5, <1>6, NumbersRead
    <2> QED BY <1>1, <2>1 DEF HoldsNumbers
  <1>8. ASSUME NEW i \in 1..n, NEW f \in 1..6
        PROVE  Number(a.rows, a.rowWidth, 6 * (i - 1) + f) = rows[i][f]
    <2>1. PICK p \in 1..m : p = 6 * (i - 1) + f /\ line[p] = rows[i][f]
      BY <1>4
    <2> QED BY <1>1, <1>7, <2>1
  <1>9. DiskRows(a) = [i \in 1..n |-> [f \in 1..6 |-> rows[i][f]]]
    BY <1>1, <1>8 DEF DiskRows
  <1>10. rows = [i \in 1..n |-> [f \in 1..6 |-> rows[i][f]]]
    <2>1. \A i \in 1..n : rows[i] = [f \in 1..6 |-> rows[i][f]]
      BY <1>2
    <2>2. rows = [i \in 1..n |-> rows[i]]
      BY <1>2 DEF rows, RowsOf
    <2> QED BY <2>1, <2>2
  <1>11. Len(a.rows) = a.rowCount * 6 * a.rowWidth
    BY <1>1, <1>3, <1>7
  <1> QED BY <1>9, <1>10, <1>11 DEF rows

(* So its relationships are the ones that were saved.                      *)
LEMMA NamesRead ==
    ASSUME NEW a, NEW rels, NEW profile, NEW width, IsFile(a, rels, profile, width), NEW validation
    PROVE  RowNames(Loaded(a, validation)) = rels
  <1> DEFINE store == Loaded(a, validation) n == Len(rels) rows == RowsOf(rels) symbols == Symbols(rels)
  <1>1. store.rows = rows /\ store.symbols = symbols
    BY RowsRead DEF Loaded, IsFile
  <1>2. Savable(rels) /\ rels \in Seq(Rel)
    BY DEF IsFile, Savable
  <1>3. /\ DOMAIN rows = 1..n /\ DOMAIN rels = 1..n
        /\ \A i \in 1..n, f \in 1..6 :
              \/ rows[i][f] \in 1..Len(symbols) /\ symbols[rows[i][f]] = rels[i][f]
              \/ rows[i][f] = 0 /\ rels[i][f] = NoName
    BY <1>2, RowsOfAre
  <1> HIDE DEF store, rows, symbols, n
  <1>4. \A i \in 1..n, f \in 1..6 : NameOf(store, store.rows[i][f]) = rels[i][f]
    BY <1>1, <1>3 DEF NameOf
  <1>5. \A i \in 1..n : rels[i] = [f \in 1..6 |-> rels[i][f]]
    <2>1. ASSUME NEW i \in 1..n PROVE rels[i] \in Rel
      <3>1. i \in DOMAIN rels
        BY <1>3
      <3> QED BY <1>2, <3>1
    <2> QED BY <2>1 DEF Rel
  <1>6. rels = [i \in 1..n |-> rels[i]]
    BY <1>2, <1>3
  <1>7. RowNames(store) = [i \in 1..n |-> [f \in 1..6 |-> rels[i][f]]]
    BY <1>1, <1>3, <1>4 DEF RowNames
  <1>8. RowNames(store) = rels
    BY <1>5, <1>6, <1>7
  <1> QED BY <1>8 DEF store

(* The ids in the order of their hashes.                                   *)
LEMMA SortedIdsAre ==
    ASSUME NEW c \in Nat, NEW hashes \in [1..c -> Nat]
    PROVE  LET ids == SortedIds(hashes)
           IN  /\ ids \in Seq(1..c) /\ Len(ids) = c /\ DOMAIN ids = 1..c
               /\ \A i \in 1..c : ids[i] \in 1..c
               /\ \A x \in 1..c : \E i \in 1..c : ids[i] = x
               /\ \A i, j \in 1..c : i < j => \/ hashes[ids[i]] < hashes[ids[j]]
                                              \/ hashes[ids[i]] = hashes[ids[j]] /\ ids[i] < ids[j]
  <1> DEFINE S == 1..c
             R == {p \in S \X S : \/ hashes[p[1]] < hashes[p[2]]
                                  \/ hashes[p[1]] = hashes[p[2]] /\ p[1] < p[2]}
             q == SortedIds(hashes)
  <1>1. q = InOrder(S, R)
    BY DEF SortedIds
  <1>2. IsFiniteSet(S) /\ Cardinality(S) = c
    BY FS_Interval
  <1>3. \A x, y \in S : <<x, y>> \in R <=> hashes[x] < hashes[y] \/ (hashes[x] = hashes[y] /\ x < y)
    OBVIOUS
  <1>4. \A x \in S : hashes[x] \in Nat /\ x \in Nat
    OBVIOUS
  <1> HIDE DEF S, R, q
  <1>5. Orders(R, S)
    <2>1. ASSUME NEW x \in S PROVE <<x, x>> \notin R
      BY <1>3, <1>4
    <2>2. ASSUME NEW x \in S, NEW y \in S, NEW z \in S, <<x, y>> \in R, <<y, z>> \in R
          PROVE  <<x, z>> \in R
      <3>1. \/ hashes[x] < hashes[y] \/ (hashes[x] = hashes[y] /\ x < y)
        BY <1>3, <2>2
      <3>2. \/ hashes[y] < hashes[z] \/ (hashes[y] = hashes[z] /\ y < z)
        BY <1>3, <2>2
      <3>3. /\ hashes[x] \in Nat /\ hashes[y] \in Nat /\ hashes[z] \in Nat
            /\ x \in Nat /\ y \in Nat /\ z \in Nat
        BY <1>4
      <3>4. hashes[x] < hashes[z] \/ (hashes[x] = hashes[z] /\ x < z)
        BY <3>1, <3>2, <3>3
      <3> QED BY <1>3, <3>4
    <2>3. ASSUME NEW x \in S, NEW y \in S PROVE x = y \/ <<x, y>> \in R \/ <<y, x>> \in R
      <3>1. hashes[x] < hashes[y] \/ hashes[y] < hashes[x] \/ hashes[x] = hashes[y]
        BY <1>4
      <3>2. x < y \/ y < x \/ x = y
        BY <1>4
      <3> QED BY <1>3, <3>1, <3>2
    <2> QED BY <2>1, <2>2, <2>3 DEF Orders
  <1>6. /\ DOMAIN q = 1..c /\ q \in Seq(S) /\ Len(q) = c
        /\ \A i \in 1..c : q[i] \in S
        /\ \A x \in S : \E i \in 1..c : q[i] = x
        /\ \A i, j \in 1..c : i < j => <<q[i], q[j]>> \in R
    <2> DEFINE n == Cardinality(S) o == InOrder(S, R)
    <2>1. /\ n \in Nat /\ DOMAIN o = 1..n /\ o \in Seq(S) /\ Len(o) = n
          /\ \A i \in 1..n : o[i] \in S
          /\ \A x \in S : \E i \in 1..n : o[i] = x
          /\ \A i, j \in 1..n : i < j => <<o[i], o[j]>> \in R
          /\ \A i, j \in 1..n : o[i] = o[j] => i = j
      BY <1>2, <1>5, OrderedSet
    <2>2. n = c /\ o = q
      BY <1>1, <1>2
    <2> HIDE DEF n, o
    <2> QED BY <2>1, <2>2
  <1>7. \A i, j \in 1..c : i < j => \/ hashes[q[i]] < hashes[q[j]]
                                    \/ hashes[q[i]] = hashes[q[j]] /\ q[i] < q[j]
    BY <1>3, <1>6
  <1> QED BY <1>6, <1>7 DEF q, S

(* Each symbol has its hash.                                               *)
LEMMA HashesAre ==
    ASSUME NEW rels, Savable(rels)
    PROVE  /\ Len(Symbols(rels)) \in Nat /\ DOMAIN Symbols(rels) = 1..Len(Symbols(rels))
           /\ HashesOf(rels) \in [1..Len(Symbols(rels)) -> Nat]
           /\ \A i \in 1..Len(Symbols(rels)) : /\ Symbols(rels)[i] \in Names
                                               /\ HashesOf(rels)[i] = HashValue[Symbols(rels)[i]]
  <1> DEFINE symbols == Symbols(rels)
  <1>1. symbols \in Seq(Names)
    BY SymbolsAre DEF Savable
  <1>2. HashesOf(rels) = [i \in DOMAIN symbols |-> HashValue[symbols[i]]]
    BY DEF HashesOf
  <1> HIDE DEF symbols
  <1>3. Len(symbols) \in Nat /\ DOMAIN symbols = 1..Len(symbols) /\ \A i \in 1..Len(symbols) : symbols[i] \in Names
    BY <1>1
  <1>4. \A i \in 1..Len(symbols) : HashValue[symbols[i]] \in Nat
    BY <1>3, FormatAssumption
  <1>5. HashesOf(rels) \in [1..Len(symbols) -> Nat]
    BY <1>2, <1>3, <1>4
  <1> QED BY <1>2, <1>3, <1>5 DEF symbols

(* The lookup section holds the sorted ids.                                *)
LEMMA LookupRead ==
    ASSUME NEW a, NEW rels, NEW profile, NEW width, IsFile(a, rels, profile, width)
    PROVE  /\ LookupIds(a) = SortedIds(HashesOf(rels))
           /\ Len(a.lookup) = a.symbolCount * a.lookupWidth
  <1> DEFINE c == Len(Symbols(rels)) ids == SortedIds(HashesOf(rels))
  <1>1. Savable(rels) /\ width \in Widths /\ c < Power(ByteBase, width)
        /\ a.symbolCount = c /\ a.lookupWidth = width /\ a.lookup = EncodeNumbers(ids, width)
    BY DEF IsFile
  <1>2. c \in Nat /\ HashesOf(rels) \in [1..c -> Nat]
    BY <1>1, HashesAre
  <1> HIDE DEF c
  <1>3. ids \in Seq(1..c) /\ Len(ids) = c /\ DOMAIN ids = 1..c /\ \A i \in 1..c : ids[i] \in 1..c
    BY <1>2, SortedIdsAre
  <1> HIDE DEF ids
  <1>4. width \in Nat \ {0} /\ Power(ByteBase, width) \in Nat
    <2>1. width \in Nat \ {0} /\ ByteBase \in Nat
      BY <1>1, BaseIs DEF Widths, BaseOK
    <2> QED BY <2>1, PowerIs
  <1>5. \A i \in 1..c : ids[i] \in Nat /\ ids[i] < Power(ByteBase, width)
    <2> SUFFICES ASSUME NEW i \in 1..c PROVE ids[i] \in Nat /\ ids[i] < Power(ByteBase, width)
      OBVIOUS
    <2>1. ids[i] \in Nat /\ ids[i] <= c
      BY <1>2, <1>3
    <2>2. c < Power(ByteBase, width)
      BY <1>1
    <2>3. \A x, y, z \in Nat : x <= y /\ y < z => x < z
      OBVIOUS
    <2> QED BY <1>2, <1>4, <2>1, <2>2, <2>3
  <1>6. HoldsNumbers(EncodeNumbers(ids, width), width, c, ids)
    BY <1>2, <1>3, <1>4, <1>5, NumbersRead
  <1>7. Len(a.lookup) = c * width /\ \A i \in 1..c : Number(a.lookup, width, i) = ids[i]
    BY <1>1, <1>6 DEF HoldsNumbers
  <1>8. LookupIds(a) = [i \in 1..c |-> ids[i]]
    BY <1>1, <1>7 DEF LookupIds
  <1>9. ids = [i \in 1..c |-> ids[i]]
    BY <1>3
  <1> QED BY <1>1, <1>7, <1>8, <1>9 DEF ids

(* The symbols of a saved file pass both validations.                      *)
LEMMA SymbolsAccepted ==
    ASSUME NEW a, NEW rels, NEW profile, NEW width, IsFile(a, rels, profile, width), NEW validation
    PROVE  SymbolsOK(a, validation)
  <1> DEFINE c == Len(Symbols(rels)) hashes == HashesOf(rels) ids == SortedIds(hashes)
  <1>1. Savable(rels) /\ width \in Widths /\ a.symbols = Symbols(rels)
        /\ a.symbolCount = c /\ a.lookupWidth = width /\ a.hashes = hashes
    BY DEF IsFile
  <1>2. /\ c \in Nat /\ hashes \in [1..c -> Nat] /\ Len(hashes) = c
        /\ \A i \in 1..c : hashes[i] = HashValue[Symbols(rels)[i]]
    BY <1>1, HashesAre
  <1>3. /\ Len(ids) = c /\ \A i \in 1..c : ids[i] \in 1..c
        /\ \A i, j \in 1..c : i < j => \/ hashes[ids[i]] < hashes[ids[j]]
                                       \/ hashes[ids[i]] = hashes[ids[j]] /\ ids[i] < ids[j]
    BY <1>2, SortedIdsAre
  <1>4. LookupIds(a) = ids /\ Len(a.lookup) = a.symbolCount * a.lookupWidth
    BY LookupRead
  <1>5. \A i, j \in 1..c : Symbols(rels)[i] = Symbols(rels)[j] => i = j
    <2>1. DOMAIN Symbols(rels) = 1..c
      BY <1>1, HashesAre
    <2> QED BY <1>1, <2>1, SymbolsAre DEF Savable
  <1> HIDE DEF c, hashes, ids
  <1>6. LookupSorted(a.hashes, LookupIds(a))
    <2>1. \A i \in 1..(c - 1) : i \in 1..c /\ i + 1 \in 1..c /\ i < i + 1
      BY <1>2
    <2>2. \A i \in 1..(c - 1) : \/ hashes[ids[i]] < hashes[ids[i + 1]]
                                \/ hashes[ids[i]] = hashes[ids[i + 1]] /\ ids[i] < ids[i + 1]
      BY <1>3, <2>1
    <2> QED BY <1>1, <1>3, <1>4, <2>2 DEF LookupSorted
  <1>7. SymbolsIndexed(a)
    <2>1. \A i \in 1..c : \A j \in 1..(i - 1) : j \in 1..c /\ j # i
      BY <1>2
    <2> QED BY <1>1, <1>2, <1>5, <2>1 DEF SymbolsIndexed
  <1> QED BY <1>1, <1>2, <1>3, <1>4, <1>6, <1>7 DEF SymbolsOK, c

(* The rows of a saved file pass both validations.                         *)
LEMMA RowsAccepted ==
    ASSUME NEW a, NEW rels, NEW profile, NEW width, IsFile(a, rels, profile, width), NEW validation
    PROVE  RowsOK(a, validation)
  <1> DEFINE n == Len(rels) rows == RowsOf(rels) symbols == Symbols(rels) c == Len(symbols)
  <1>1. Savable(rels) /\ width \in Widths /\ a.symbols = symbols
        /\ a.symbolCount = c /\ a.rowWidth = width /\ a.rowCount = n
    BY DEF IsFile
  <1>2. DiskRows(a) = rows /\ Len(a.rows) = a.rowCount * 6 * a.rowWidth
    BY RowsRead
  <1>3. /\ DOMAIN rows = 1..n /\ DOMAIN rels = 1..n /\ n \in Nat /\ c \in Nat
        /\ \A i \in 1..n, f \in 1..6 :
              \/ rows[i][f] \in 1..c /\ symbols[rows[i][f]] = rels[i][f] /\ rels[i][f] \in FieldNames[f]
              \/ rows[i][f] = 0 /\ f = 6 /\ rels[i][f] = NoName
    BY <1>1, RowsOfAre
  <1>4. \A i, j \in 1..n : rels[i] = rels[j] => i = j
    BY <1>1, <1>3 DEF Savable, IsInjective
  <1>5. \A i \in 1..n : rels[i] \in Rel
    <2> SUFFICES ASSUME NEW i \in 1..n PROVE rels[i] \in Rel
      OBVIOUS
    <2>1. i \in DOMAIN rels /\ rels \in Seq(Rel)
      BY <1>1, <1>3 DEF Savable
    <2> QED BY <2>1
  <1> HIDE DEF n, rows, symbols, c
  <1>6. ASSUME NEW i \in 1..n, NEW j \in 1..n, rows[i] = rows[j] PROVE i = j
    <2>1. ASSUME NEW f \in 1..6 PROVE rels[i][f] = rels[j][f]
      <3>1. rows[i][f] = rows[j][f]
        BY <1>6
      <3>2. /\ (rows[i][f] \in 1..c /\ symbols[rows[i][f]] = rels[i][f]) \/ (rows[i][f] = 0 /\ rels[i][f] = NoName)
            /\ (rows[j][f] \in 1..c /\ symbols[rows[j][f]] = rels[j][f]) \/ (rows[j][f] = 0 /\ rels[j][f] = NoName)
        BY <1>3
      <3> QED BY <1>3, <3>1, <3>2
    <2>2. rels[i] = rels[j]
      <3>1. rels[i] \in Rel /\ rels[j] \in Rel
        BY <1>5
      <3> QED BY <2>1, <3>1 DEF Rel
    <2> QED BY <1>4, <2>2
  <1>7. ASSUME NEW i \in 1..n
        PROVE  /\ \A f \in 1..6 : rows[i][f] \in 1..c \/ (f = 6 /\ rows[i][f] = 0)
               /\ DomainsOK(a, rows[i])
               /\ \A j \in 1..(i - 1) : rows[j] # rows[i]
    <2>1. \A f \in 1..6 : rows[i][f] \in 1..c \/ (f = 6 /\ rows[i][f] = 0)
      BY <1>3
    <2>2. DomainsOK(a, rows[i])
      BY <1>1, <1>3 DEF DomainsOK
    <2>3. \A j \in 1..(i - 1) : j \in 1..n /\ j # i
      BY <1>3
    <2> QED BY <1>6, <2>1, <2>2, <2>3
  <1> QED BY <1>1, <1>2, <1>7 DEF RowsOK

(* There is one way to put a set in order.                                 *)
LEMMA OrderedOnce ==
    ASSUME NEW S, NEW R, Orders(R, S), NEW m \in Nat, NEW e \in [1..m -> S],
           \A x \in S : \E i \in 1..m : e[i] = x,
           \A i, j \in 1..m : i < j => <<e[i], e[j]>> \in R
    PROVE  IsFiniteSet(S) /\ Cardinality(S) = m /\ InOrder(S, R) = e
  <1>1. \A i, j \in 1..m : e[i] = e[j] => i = j
    <2> SUFFICES ASSUME NEW i \in 1..m, NEW j \in 1..m, e[i] = e[j], i # j PROVE FALSE
      OBVIOUS
    <2>1. i < j \/ j < i
      OBVIOUS
    <2>2. <<e[i], e[i]>> \in R
      BY <2>1
    <2> QED BY <2>2 DEF Orders
  <1>2. e \in Bijection(1..m, S)
    BY <1>1 DEF Bijection, Injection, Surjection, IsInjective
  <1>3. IsFiniteSet(1..m) /\ Cardinality(1..m) = m
    BY FS_Interval
  <1>4. IsFiniteSet(S) /\ Cardinality(S) = m
    BY <1>2, <1>3, FS_Bijection DEF ExistsBijection
  <1> DEFINE q == InOrder(S, R)
  <1>5. /\ DOMAIN q = 1..m /\ q \in Seq(S)
        /\ \A i \in 1..m : q[i] \in S
        /\ \A x \in S : \E i \in 1..m : q[i] = x
        /\ \A i, j \in 1..m : i < j => <<q[i], q[j]>> \in R
        /\ \A i, j \in 1..m : q[i] = q[j] => i = j
    <2> DEFINE n == Cardinality(S)
    <2>1. /\ n \in Nat /\ DOMAIN q = 1..n /\ q \in Seq(S) /\ Len(q) = n
          /\ \A i \in 1..n : q[i] \in S
          /\ \A x \in S : \E i \in 1..n : q[i] = x
          /\ \A i, j \in 1..n : i < j => <<q[i], q[j]>> \in R
          /\ \A i, j \in 1..n : q[i] = q[j] => i = j
      BY <1>4, OrderedSet
    <2> HIDE DEF q
    <2> QED BY <1>4, <2>1
  <1> HIDE DEF q
  <1>6. ASSUME NEW i \in 1..m, q[i] # e[i], \A j \in 1..m : j < i => q[j] = e[j] PROVE FALSE
    <2>1. PICK k \in 1..m : q[i] = e[k]
      BY <1>5
    <2>2. PICK l \in 1..m : e[i] = q[l]
      BY <1>5
    <2>3. k > i
      <3>1. ~(k < i)
        BY <1>5, <1>6, <2>1
      <3>2. k # i
        BY <1>6, <2>1
      <3> QED BY <3>1, <3>2
    <2>4. l > i
      <3>1. ~(l < i)
        BY <1>1, <1>6, <2>2
      <3>2. l # i
        BY <1>6, <2>2
      <3> QED BY <3>1, <3>2
    <2>5. <<e[i], q[i]>> \in R
      BY <2>1, <2>3
    <2>6. <<q[i], e[i]>> \in R
      BY <1>5, <2>2, <2>4
    <2> QED BY <1>5, <2>5, <2>6 DEF Orders
  <1> DEFINE bad == {i \in 1..m : q[i] # e[i]}
  <1>7. bad = {}
    <2> SUFFICES ASSUME bad # {} PROVE FALSE
      OBVIOUS
    <2>1. bad \in SUBSET Nat
      OBVIOUS
    <2>2. PICK i \in bad : \A j \in bad : i <= j
      <3> HIDE DEF bad
      <3> QED BY <2>1, LeastOf
    <2>3. i \in 1..m /\ q[i] # e[i]
      BY <2>2
    <2>4. ASSUME NEW j \in 1..m, j < i PROVE q[j] = e[j]
      <3>1. j \notin bad
        <4> HIDE DEF bad
        <4> QED BY <2>2, <2>3, <2>4
      <3> QED BY <3>1
    <2> QED BY <1>6, <2>3, <2>4
  <1>8. q = e
    <2>1. \A i \in 1..m : q[i] = e[i]
      BY <1>7
    <2>2. q = [i \in 1..m |-> q[i]]
      BY <1>5
    <2> QED BY <2>1, <2>2
  <1> QED BY <1>4, <1>8 DEF q

(* An ascending enumeration of a set is Ascending.                         *)
LEMMA AscendingOnce ==
    ASSUME NEW I \in SUBSET Nat, NEW m \in Nat, NEW e \in [1..m -> I],
           \A x \in I : \E i \in 1..m : e[i] = x,
           \A i, j \in 1..m : i < j => e[i] < e[j]
    PROVE  IsFiniteSet(I) /\ Cardinality(I) = m /\ Ascending(I) = e
  <1> DEFINE R == {p \in I \X I : p[1] < p[2]}
  <1>1. \A x, y \in I : <<x, y>> \in R <=> x < y
    OBVIOUS
  <1>2. Ascending(I) = InOrder(I, R)
    BY DEF Ascending
  <1> HIDE DEF R
  <1>3. Orders(R, I)
    <2>1. \A x \in I : <<x, x>> \notin R
      BY <1>1
    <2>2. \A x, y, z \in I : <<x, y>> \in R /\ <<y, z>> \in R => <<x, z>> \in R
      BY <1>1
    <2>3. \A x, y \in I : x = y \/ <<x, y>> \in R \/ <<y, x>> \in R
      <3>1. \A x, y \in I : x = y \/ x < y \/ y < x
        OBVIOUS
      <3> QED BY <1>1, <3>1
    <2> QED BY <2>1, <2>2, <2>3 DEF Orders
  <1>4. \A i, j \in 1..m : i < j => <<e[i], e[j]>> \in R
    BY <1>1
  <1>5. \A x \in I : \E i \in 1..m : e[i] = x
    OBVIOUS
  <1>6. IsFiniteSet(I) /\ Cardinality(I) = m /\ InOrder(I, R) = e
    BY <1>3, <1>4, <1>5, OrderedOnce, ZenonT(30)
  <1> QED BY <1>2, <1>6, Zenon

-----------------------------------------------------------------------------
(* Posting deltas.                                                         *)

LEMMA VarintLenIs ==
    VarintLen \in 1..8 /\ Limit \in Nat /\ Power(Half, VarintLen) \in Nat /\ Limit <= Power(Half, VarintLen)
  <1> DEFINE h == Half B == ByteBase P(i) == Power(h, i) Q(i) == Power(B, i)
  <1>1. h \in Nat \ {0} /\ h >= 2 /\ B \in Nat \ {0} /\ B = 2 * h
    BY BaseIs DEF BaseOK
  <1> HIDE DEF h, B
  <1>2. B <= h * h /\ h * h \in Nat
    <2>1. \A x, y, z \in Nat : x <= y => x * z <= y * z
      OBVIOUS
    <2>2. 2 * h <= h * h
      BY <1>1, <2>1
    <2> QED BY <1>1, <2>2
  <1>3. \A i \in Nat : P(i) \in Nat /\ Q(i) \in Nat /\ P(i + 1) = h * P(i) /\ Q(i + 1) = B * Q(i)
    BY <1>1, PowerIs
  <1>4. P(0) = 1 /\ Q(0) = 1
    BY <1>1, PowerIs
  <1> HIDE DEF P, Q
  <1>5. ASSUME NEW i \in Nat, NEW j \in Nat, Q(i) <= P(j) PROVE Q(i + 1) <= P(j + 2)
    <2> DEFINE x == Q(i) y == P(j)
    <2>1. x \in Nat /\ y \in Nat /\ x <= y /\ Q(i + 1) = B * x
      BY <1>3, <1>5
    <2>2. P(j + 2) = (h * h) * y
      <3>1. j + 1 \in Nat /\ (j + 1) + 1 = j + 2
        OBVIOUS
      <3>2. P(j + 1) = h * y /\ P((j + 1) + 1) = h * P(j + 1)
        BY <1>3, <3>1
      <3>3. h * (h * y) = (h * h) * y
        BY <1>1, <2>1
      <3> QED BY <3>1, <3>2, <3>3
    <2> HIDE DEF x, y
    <2>3. \A s, t, u, v \in Nat : s <= t /\ u <= v => s * u <= t * v
      <3> SUFFICES ASSUME NEW s \in Nat, NEW t \in Nat, NEW u \in Nat, NEW v \in Nat, s <= t, u <= v
                   PROVE  s * u <= t * v
        OBVIOUS
      <3>1. s * u <= t * u
        OBVIOUS
      <3>2. t * u <= t * v
        OBVIOUS
      <3>3. s * u \in Nat /\ t * u \in Nat /\ t * v \in Nat
        OBVIOUS
      <3> QED BY <3>1, <3>2, <3>3
    <2>4. B * x <= (h * h) * y
      BY <1>1, <1>2, <2>1, <2>3
    <2> QED BY <2>1, <2>2, <2>4
  <1>6. Q(0) <= P(0)
    BY <1>4
  <1>7. Q(1) <= P(2)
    BY <1>5, <1>6
  <1>8. Q(2) <= P(4)
    BY <1>5, <1>7
  <1>9. Q(3) <= P(6)
    BY <1>5, <1>8
  <1>10. Q(4) <= P(8)
    BY <1>5, <1>9
  <1>11. Limit = Q(4) /\ Limit \in Nat
    BY <1>3 DEF Limit, Q, B
  <1> DEFINE N == {n \in 1..8 : P(n) >= Limit}
  <1>12. 8 \in N /\ N \in SUBSET Nat
    BY <1>3, <1>10, <1>11
  <1>13. VarintLen = CHOOSE n \in N : \A y \in N : n <= y
    BY DEF VarintLen, Min, P, h
  <1>14. VarintLen \in N
    <2> HIDE DEF N
    <2>1. \E n \in N : \A y \in N : n <= y
      BY <1>12, LeastOf
    <2> QED BY <1>13, <2>1
  <1>15. VarintLen \in 1..8 /\ P(VarintLen) >= Limit
    BY <1>14
  <1>16. P(VarintLen) \in Nat
    BY <1>3, <1>15
  <1> QED BY <1>11, <1>15, <1>16 DEF P, h

(* A delta is written so that only its last byte says that it ends.        *)
LEMMA VarintIs ==
    ASSUME NEW delta \in Nat, delta < Limit
    PROVE  /\ Varint(delta) \in Seq(Nat) /\ Len(Varint(delta)) \in 1..VarintLen
           /\ \A i \in 1..Len(Varint(delta)) : Varint(delta)[i] < Half <=> i = Len(Varint(delta))
           /\ ValueOf([i \in 1..Len(Varint(delta)) |-> Varint(delta)[i] % Half], Half) = delta
  <1> DEFINE v == Varint(delta)
             N == {k \in 1..VarintLen : delta < Power(Half, k)}
             n == Min(N)
             d == Digits(delta, Half, n)
  <1>1. VarintLen \in N /\ N \in SUBSET Nat
    BY VarintLenIs
  <1>2. n \in N
    <2>1. n = CHOOSE k \in N : \A y \in N : k <= y
      BY DEF Min
    <2> HIDE DEF N, n
    <2>2. \E k \in N : \A y \in N : k <= y
      BY <1>1, LeastOf
    <2> QED BY <2>1, <2>2
  <1>3. v = [i \in 1..n |-> d[i] + IF i < n THEN Half ELSE 0]
    BY DEF Varint
  <1>4. n \in 1..VarintLen /\ n \in Nat /\ n >= 1 /\ delta < Power(Half, n)
    BY <1>2, VarintLenIs
  <1> HIDE DEF n, v
  <1>5. Half \in Nat \ {0} /\ Half >= 2
    BY BaseIs DEF BaseOK
  <1>6. /\ DOMAIN d = 1..n /\ d \in Seq(Nat) /\ \A i \in 1..n : d[i] \in Nat /\ d[i] < Half
        /\ ValueOf(d, Half) = delta
    BY <1>4, <1>5, DigitsRead
  <1> HIDE DEF d
  <1>7. \A i \in 1..n : v[i] = d[i] + IF i < n THEN Half ELSE 0
    BY <1>3
  <1>8. \A i \in 1..n : v[i] \in Nat /\ (v[i] < Half <=> i = n)
    BY <1>4, <1>5, <1>6, <1>7
  <1>9. v \in Seq(Nat) /\ Len(v) = n
    <2>1. v \in [1..n -> Nat]
      BY <1>3, <1>8
    <2> QED BY <1>4, <2>1
  <1>10. \A i \in 1..n : v[i] % Half = d[i]
    <2> SUFFICES ASSUME NEW i \in 1..n PROVE v[i] % Half = d[i]
      OBVIOUS
    <2>1. d[i] \in Nat /\ d[i] < Half
      BY <1>6
    <2>2. (Half * 1 + d[i]) % Half = d[i] /\ (Half * 0 + d[i]) % Half = d[i]
      BY <1>5, <2>1, DivideIs
    <2>3. v[i] = Half * 1 + d[i] \/ v[i] = Half * 0 + d[i]
      BY <1>5, <1>7, <2>1
    <2> QED BY <2>2, <2>3
  <1>11. [i \in 1..n |-> v[i] % Half] = d
    <2>1. d = [i \in 1..n |-> d[i]]
      BY <1>6
    <2> QED BY <1>10, <2>1
  <1> QED BY <1>4, <1>6, <1>8, <1>9, <1>11 DEF v

(* Deltas that were written one after another are read one after another.  *)
LEMMA DeltasRead ==
    ASSUME NEW m \in Nat, NEW ds \in [1..m -> 1..(Limit - 1)]
    PROVE  LET bytes == FlattenSeq([i \in 1..m |-> Varint(ds[i])])
           IN  /\ bytes \in Seq(Nat) /\ (m >= 1 => Len(bytes) >= 1)
               /\ Deltas(bytes) = ds /\ DeltasOK(bytes)
  <1> DEFINE vs == [i \in 1..m |-> Varint(ds[i])]
             bytes == FlattenSeq(vs)
             ends == Ends(vs)
             I == {p \in DOMAIN bytes : bytes[p] < Half}
             e == [k \in 1..m |-> ends[k]]
  <1>1. Limit \in Nat /\ VarintLen \in Nat /\ VarintLen >= 1 /\ Half \in Nat
    BY VarintLenIs, BaseIs DEF BaseOK
  <1>2. ASSUME NEW i \in 1..m
        PROVE  /\ vs[i] = Varint(ds[i]) /\ ds[i] \in Nat /\ ds[i] < Limit /\ ds[i] >= 1
               /\ vs[i] \in Seq(Nat) /\ Len(vs[i]) \in 1..VarintLen
               /\ \A j \in 1..Len(vs[i]) : vs[i][j] < Half <=> j = Len(vs[i])
               /\ ValueOf([j \in 1..Len(vs[i]) |-> vs[i][j] % Half], Half) = ds[i]
    <2>1. vs[i] = Varint(ds[i])
      OBVIOUS
    <2>2. ds[i] \in Nat /\ ds[i] < Limit /\ ds[i] >= 1
      BY <1>1
    <2> HIDE DEF vs
    <2> QED BY <2>1, <2>2, VarintIs
  <1>3. vs \in [1..m -> Seq(Nat)]
    <2>1. \A i \in 1..m : vs[i] \in Seq(Nat)
      BY <1>2
    <2>2. vs = [i \in 1..m |-> vs[i]]
      OBVIOUS
    <2> HIDE DEF vs
    <2> QED BY <2>1, <2>2
  <1> HIDE DEF vs
  <1>4. /\ bytes \in Seq(Nat) /\ Len(bytes) = ends[m]
        /\ ends \in [0..m -> Nat] /\ ends[0] = 0
        /\ \A i \in 1..m : ends[i] = ends[i - 1] + Len(vs[i])
        /\ \A i, j \in 0..m : i <= j => ends[i] <= ends[j]
        /\ \A i \in 1..m : \A j \in 1..Len(vs[i]) : bytes[ends[i - 1] + j] = vs[i][j]
        /\ \A p \in 1..ends[m] : \E i \in 1..m : \E j \in 1..Len(vs[i]) : p = ends[i - 1] + j
    <2>1. EndToEnd(bytes, ends, Nat, m, vs)
      BY <1>3, FlatIs
    <2> HIDE DEF bytes, ends
    <2> QED BY <2>1 DEF EndToEnd
  <1> HIDE DEF bytes, ends
  <1>5. DOMAIN bytes = 1..ends[m] /\ ends[m] \in Nat
    BY <1>4
  <1>6. ASSUME NEW k \in 1..m
        PROVE  /\ k - 1 \in 0..m /\ ends[k - 1] \in Nat /\ ends[k] \in Nat /\ ends[k - 1] < ends[k]
               /\ ends[k] <= ends[m] /\ ends[k] \in 1..ends[m]
               /\ Len(vs[k]) \in Nat /\ Len(vs[k]) >= 1 /\ Len(vs[k]) <= VarintLen
               /\ ends[k] = ends[k - 1] + Len(vs[k])
               /\ bytes[ends[k]] < Half
    <2>1. k - 1 \in 0..m /\ k \in 0..m /\ m \in 0..m /\ k <= m
      OBVIOUS
    <2>2. ends[k - 1] \in Nat /\ ends[k] \in Nat /\ ends[k] <= ends[m]
      BY <1>4, <2>1
    <2>3. Len(vs[k]) \in Nat /\ Len(vs[k]) >= 1 /\ Len(vs[k]) <= VarintLen /\ Len(vs[k]) \in 1..Len(vs[k])
      <3>1. Len(vs[k]) \in 1..VarintLen
        BY <1>2
      <3> QED BY <1>1, <3>1
    <2>4. ends[k] = ends[k - 1] + Len(vs[k])
      BY <1>4
    <2>5. ends[k - 1] < ends[k] /\ ends[k] \in 1..ends[m]
      BY <1>5, <2>2, <2>3, <2>4
    <2>6. bytes[ends[k]] = vs[k][Len(vs[k])]
      BY <1>4, <2>3, <2>4
    <2>7. vs[k][Len(vs[k])] < Half
      BY <1>2, <2>3
    <2> QED BY <2>1, <2>2, <2>3, <2>4, <2>5, <2>6, <2>7
  <1>7. \A p \in I : \E k \in 1..m : e[k] = p
    <2> SUFFICES ASSUME NEW p \in I PROVE \E k \in 1..m : e[k] = p
      OBVIOUS
    <2>1. p \in 1..ends[m] /\ bytes[p] < Half
      BY <1>5
    <2>0. PICK i \in 1..m : \E j \in 1..Len(vs[i]) : p = ends[i - 1] + j
      BY <1>4, <2>1
    <2>2. PICK j \in 1..Len(vs[i]) : p = ends[i - 1] + j
      BY <2>0
    <2>3. bytes[p] = vs[i][j]
      BY <1>4, <2>2
    <2>4. j = Len(vs[i])
      BY <1>2, <2>1, <2>3
    <2>5. p = ends[i]
      BY <1>6, <2>2, <2>4
    <2> QED BY <2>5
  <1>8. \A k \in 1..m : e[k] = ends[k] /\ e[k] \in I
    BY <1>5, <1>6
  <1>9. e \in [1..m -> I]
    <2>1. e = [k \in 1..m |-> e[k]]
      OBVIOUS
    <2> HIDE DEF e, I
    <2> QED BY <1>8, <2>1
  <1>10. ASSUME NEW i \in 1..m, NEW j \in 1..m, i < j PROVE e[i] < e[j]
    <2>1. ends[i] <= ends[j - 1]
      <3>1. i \in 0..m /\ j - 1 \in 0..m /\ i <= j - 1
        BY <1>10
      <3> QED BY <1>4, <3>1
    <2>2. ends[j - 1] < ends[j] /\ ends[i] \in Nat /\ ends[j - 1] \in Nat /\ ends[j] \in Nat
      BY <1>6
    <2>3. ends[i] < ends[j]
      BY <2>1, <2>2
    <2> HIDE DEF e
    <2> QED BY <1>8, <2>3
  <1>11. I \in SUBSET Nat
    BY <1>5
  <1> HIDE DEF I, e
  <1>12. DeltaEnds(bytes) = e
    <2>1. Ascending(I) = e
      BY <1>7, <1>9, <1>10, <1>11, AscendingOnce
    <2> QED BY <2>1 DEF DeltaEnds, I
  <1>13. DOMAIN e = 1..m
    BY <1>9
  <1> DEFINE from(k) == IF k = 1 THEN 1 ELSE e[k - 1] + 1
             D(k) == ValueOf([i \in 1..(e[k] - from(k) + 1) |-> bytes[from(k) + i - 1] % Half], Half)
  <1>14. Deltas(bytes) = [k \in 1..m |-> D(k)]
    BY <1>12, <1>13 DEF Deltas
  <1>15. ASSUME NEW k \in 1..m PROVE from(k) = ends[k - 1] + 1
    <2>1. k = 1 => ends[k - 1] + 1 = 1
      BY <1>4
    <2>2. k # 1 => k - 1 \in 1..m
      OBVIOUS
    <2>3. k # 1 => e[k - 1] = ends[k - 1]
      BY <1>8, <2>2
    <2> QED BY <2>1, <2>3
  <1>16. ASSUME NEW k \in 1..m PROVE D(k) = ds[k]
    <2> DEFINE l == Len(vs[k]) o == ends[k - 1]
    <2>1. o \in Nat /\ l \in Nat /\ ends[k] = o + l
      BY <1>6
    <2>2. from(k) = o + 1 /\ e[k] = o + l
      BY <1>8, <1>15, <2>1
    <2>3. \A i \in 1..l : bytes[o + i] = vs[k][i]
      BY <1>4
    <2>4. ValueOf([i \in 1..l |-> vs[k][i] % Half], Half) = ds[k]
      BY <1>2
    <2> HIDE DEF from, l, o
    <2>5. e[k] - from(k) + 1 = l /\ \A i \in 1..l : from(k) + i - 1 = o + i
      BY <2>1, <2>2
    <2>6. [i \in 1..(e[k] - from(k) + 1) |-> bytes[from(k) + i - 1] % Half] = [i \in 1..l |-> vs[k][i] % Half]
      BY <2>3, <2>5
    <2> QED BY <2>4, <2>6
  <1> HIDE DEF D
  <1>17. Deltas(bytes) = ds
    <2>1. [k \in 1..m |-> D(k)] = ds
      <3>1. ds = [k \in 1..m |-> ds[k]]
        OBVIOUS
      <3> QED BY <1>16, <3>1
    <2> QED BY <1>14, <2>1
  <1>18. bytes # <<>> => Last(bytes) < Half
    <2> SUFFICES ASSUME bytes # <<>> PROVE Last(bytes) < Half
      OBVIOUS
    <2>1. ends[m] # 0
      BY <1>4
    <2>2. m \in 1..m
      BY <1>4, <2>1
    <2>3. bytes[ends[m]] < Half
      BY <1>6, <2>2
    <2> QED BY <1>4, <2>3 DEF Last
  <1>19. ASSUME NEW p \in 1..(Len(bytes) - VarintLen + 1)
         PROVE  \E j \in p..(p + VarintLen - 1) : bytes[j] < Half
    <2>1. p \in 1..ends[m]
      BY <1>1, <1>4, <1>5
    <2>0. PICK i \in 1..m : \E j \in 1..Len(vs[i]) : p = ends[i - 1] + j
      BY <1>4, <2>1
    <2>2. PICK j \in 1..Len(vs[i]) : p = ends[i - 1] + j
      BY <2>0
    <2>3. ends[i] \in p..(p + VarintLen - 1)
      <3>1. /\ ends[i - 1] \in Nat /\ Len(vs[i]) \in Nat /\ Len(vs[i]) <= VarintLen
            /\ ends[i] = ends[i - 1] + Len(vs[i])
        BY <1>6
      <3>2. j \in Nat /\ j >= 1 /\ j <= Len(vs[i])
        BY <3>1
      <3>3. \A x, y, z, v \in Nat : z >= 1 /\ z <= y /\ y <= v => x + y \in (x + z)..(x + z + v - 1)
        OBVIOUS
      <3>4. ends[i - 1] + Len(vs[i]) \in (ends[i - 1] + j)..(ends[i - 1] + j + VarintLen - 1)
        BY <1>1, <3>1, <3>2, <3>3
      <3> QED BY <2>2, <3>1, <3>4
    <2>4. bytes[ends[i]] < Half
      BY <1>6
    <2> QED BY <2>3, <2>4
  <1>20. DeltasOK(bytes)
    <2>1. \A k \in DOMAIN ds : ds[k] \in 1..(Limit - 1)
      OBVIOUS
    <2> QED BY <1>17, <1>18, <1>19, <2>1 DEF DeltasOK
  <1>21. m >= 1 => Len(bytes) >= 1
    <2>1. m >= 1 => m \in 1..m
      OBVIOUS
    <2>2. m >= 1 => ends[m] >= 1
      BY <1>6, <2>1
    <2> QED BY <1>4, <2>2
  <1> QED BY <1>4, <1>17, <1>20, <1>21 DEF bytes, vs

(* An increasing sequence of row ids.                                      *)
IsPosting(ids, rowCount) ==
    /\ ids \in Seq(1..rowCount) /\ Len(ids) >= 1
    /\ \A i, j \in 1..Len(ids) : i < j => ids[i] < ids[j]

(* A posting is its first row id and the sums of its deltas.               *)
LEMMA OverflowRead ==
    ASSUME NEW rowCount \in Nat, rowCount < Limit, NEW ids, IsPosting(ids, rowCount)
    PROVE  /\ EncodeOverflow(ids) \in Seq(Nat) /\ (Len(ids) > 1 => Len(EncodeOverflow(ids)) >= 1)
           /\ DeltasOK(EncodeOverflow(ids))
           /\ Len(Deltas(EncodeOverflow(ids))) = Len(ids) - 1
           /\ ids = [i \in 1..Len(ids) |-> ids[1] + Sums(Deltas(EncodeOverflow(ids)))[i - 1]]
  <1> DEFINE m == Len(ids) - 1
             ds == [i \in 1..m |-> ids[i + 1] - ids[i]]
             bytes == EncodeOverflow(ids)
             s == Sums(ds)
  <1>1. Len(ids) \in Nat /\ m \in Nat /\ Limit \in Nat /\ \A i \in 1..Len(ids) : ids[i] \in 1..rowCount
    BY VarintLenIs DEF IsPosting
  <1>2. \A i \in 1..m : i \in 1..Len(ids) /\ i + 1 \in 1..Len(ids) /\ i < i + 1
    BY <1>1
  <1>3. \A i \in 1..m : ids[i] \in Nat /\ ids[i + 1] \in Nat /\ ids[i] < ids[i + 1] /\ ids[i + 1] <= rowCount /\ ids[i] >= 1
    BY <1>1, <1>2 DEF IsPosting
  <1> HIDE DEF m
  <1>4. \A i \in 1..m : ids[i + 1] - ids[i] \in 1..(Limit - 1)
    BY <1>1, <1>3
  <1>5. ds \in [1..m -> 1..(Limit - 1)] /\ \A i \in 1..m : ds[i] = ids[i + 1] - ids[i]
    BY <1>4
  <1>6. bytes = FlattenSeq([i \in 1..m |-> Varint(ds[i])])
    <2>1. [i \in 1..m |-> Varint(ds[i])] = [i \in 1..m |-> Varint(ids[i + 1] - ids[i])]
      OBVIOUS
    <2> HIDE DEF ds
    <2> QED BY <2>1 DEF EncodeOverflow, m
  <1> HIDE DEF ds, bytes
  <1>7. /\ bytes \in Seq(Nat) /\ (m >= 1 => Len(bytes) >= 1)
        /\ Deltas(bytes) = ds /\ DeltasOK(bytes)
    BY <1>1, <1>5, <1>6, DeltasRead
  <1>8. Len(ds) = m /\ DOMAIN ds = 1..m
    BY <1>1, <1>5
  <1>9. \A i \in 1..m : ds[i] \in Nat
    BY <1>1, <1>5
  <1>10. s[0] = 0 /\ \A i \in 1..m : s[i] = s[i - 1] + ds[i]
    BY <1>1, <1>8, <1>9, SumsAre
  <1>11. \A i \in 0..m : s[i] \in Nat
    BY <1>1, <1>8, <1>9, SumsAre
  <1> HIDE DEF s
  <1> DEFINE bad == {i \in 0..m : ids[1] + s[i] # ids[i + 1]}
  <1>12. bad = {}
    <2> SUFFICES ASSUME bad # {} PROVE FALSE
      OBVIOUS
    <2>1. bad \in SUBSET Nat
      OBVIOUS
    <2>2. PICK k \in bad : \A i \in bad : k <= i
      <3> HIDE DEF bad
      <3> QED BY <2>1, LeastOf
    <2>3. ids[1] \in Nat
      <3>1. 1 \in 1..Len(ids)
        BY <1>1 DEF IsPosting
      <3> QED BY <1>1, <3>1
    <2>4. k # 0
      BY <1>10, <2>2, <2>3
    <2>5. k \in 1..m /\ k - 1 \in 0..m /\ k - 1 \notin bad /\ (k - 1) + 1 = k
      <3>1. k \in 0..m
        BY <2>2
      <3>2. k \in 1..m /\ k - 1 \in 0..m /\ (k - 1) + 1 = k /\ ~(k <= k - 1)
        BY <1>1, <2>4, <3>1
      <3> HIDE DEF bad
      <3> QED BY <2>2, <3>2
    <2>6. ids[1] + s[k - 1] = ids[k]
      BY <2>5
    <2>7. s[k] = s[k - 1] + ds[k] /\ ds[k] = ids[k + 1] - ids[k]
      BY <1>5, <1>10, <2>5
    <2>8. s[k - 1] \in Nat /\ ids[k] \in Nat /\ ids[k + 1] \in Nat
      BY <1>3, <1>11, <2>5
    <2>9. ids[1] + s[k] = ids[k + 1]
      BY <2>3, <2>6, <2>7, <2>8
    <2> QED BY <2>2, <2>9
  <1>13. ids = [i \in 1..Len(ids) |-> ids[1] + s[i - 1]]
    <2>1. ASSUME NEW i \in 1..Len(ids) PROVE ids[i] = ids[1] + s[i - 1]
      <3>1. i - 1 \in 0..m /\ (i - 1) + 1 = i
        BY <1>1 DEF m
      <3> QED BY <1>12, <3>1
    <2>2. ids = [i \in 1..Len(ids) |-> ids[i]]
      BY DEF IsPosting
    <2> QED BY <2>1, <2>2
  <1>14. Len(ids) > 1 => m >= 1
    BY <1>1 DEF m
  <1> QED BY <1>7, <1>8, <1>13, <1>14 DEF bytes, s, m

-----------------------------------------------------------------------------
(* The groups of a saved file.                                             *)

LEMMA FunctionIsSeq ==
    ASSUME NEW T, NEW m \in Nat, NEW s \in [1..m -> T]
    PROVE  s \in Seq(T) /\ Len(s) = m
  OBVIOUS

(* A key of a kind over c symbols.                                         *)
KeyOfKind(key, kind, c) ==
    /\ key \in [1..3 -> 0..c]
    /\ \A f \in 1..3 : f > KeyFieldCount[kind] => key[f] = 0
    /\ \A f \in 1..KeyFieldCount[kind] : key[f] \in 1..c \/ (kind = 5 /\ f = 3 /\ key[f] = 0)

(* A triple of symbol ids.                                                 *)
LEMMA TripleIs ==
    ASSUME NEW c \in Nat, NEW x \in 0..c, NEW y \in 0..c, NEW z \in 0..c
    PROVE  <<x, y, z>> \in [1..3 -> 0..c]
  <1> DEFINE t == <<x, y, z>>
  <1>1. DOMAIN t = 1..3 /\ t[1] = x /\ t[2] = y /\ t[3] = z
    OBVIOUS
  <1>2. t = [f \in 1..3 |-> t[f]]
    OBVIOUS
  <1> HIDE DEF t
  <1>3. \A f \in 1..3 : t[f] \in 0..c
    BY <1>1
  <1>4. t \in [1..3 -> 0..c]
    BY <1>2, <1>3
  <1> QED BY <1>4 DEF t

(* A row is posted under keys of the kind.                                 *)
LEMMA RowKeyIs ==
    ASSUME NEW c \in Nat, NEW row \in [1..6 -> 0..c], \A f \in 1..5 : row[f] # 0,
           NEW kind \in Kinds, NEW key \in RowKeys(row, kind)
    PROVE  KeyOfKind(key, kind, c)
  <1>1. 0 \in 0..c /\ \A f \in 1..6 : row[f] \in 0..c
    OBVIOUS
  <1>2. \A f \in 1..5 : row[f] \in 1..c
    BY <1>1
  <1>3. CASE kind = 1
    <2>1. key = <<row[1], row[2], row[3]>>
      BY <1>3 DEF RowKeys
    <2>2. KeyFieldCount[kind] = 3
      BY <1>3 DEF KeyFieldCount
    <2>3. key \in [1..3 -> 0..c]
      BY <1>1, <2>1, TripleIs
    <2>4. key[1] = row[1] /\ key[2] = row[2] /\ key[3] = row[3]
      BY <2>1
    <2> QED BY <1>2, <2>2, <2>3, <2>4 DEF KeyOfKind
  <1>4. CASE kind = 2
    <2>1. key = <<row[1], row[2], 0>>
      BY <1>4 DEF RowKeys
    <2>2. KeyFieldCount[kind] = 2
      BY <1>4 DEF KeyFieldCount
    <2>3. key \in [1..3 -> 0..c]
      BY <1>1, <2>1, TripleIs
    <2>4. key[1] = row[1] /\ key[2] = row[2] /\ key[3] = 0
      BY <2>1
    <2> QED BY <1>2, <2>2, <2>3, <2>4 DEF KeyOfKind
  <1>5. CASE kind = 3
    <2>1. key = <<row[1], row[3], 0>>
      BY <1>5 DEF RowKeys
    <2>2. KeyFieldCount[kind] = 2
      BY <1>5 DEF KeyFieldCount
    <2>3. key \in [1..3 -> 0..c]
      BY <1>1, <2>1, TripleIs
    <2>4. key[1] = row[1] /\ key[2] = row[3] /\ key[3] = 0
      BY <2>1
    <2> QED BY <1>2, <2>2, <2>3, <2>4 DEF KeyOfKind
  <1>6. CASE kind = 4
    <2>1. key = <<row[1], 0, 0>>
      BY <1>6 DEF RowKeys
    <2>2. KeyFieldCount[kind] = 1
      BY <1>6 DEF KeyFieldCount
    <2>3. key \in [1..3 -> 0..c]
      BY <1>1, <2>1, TripleIs
    <2>4. key[1] = row[1] /\ key[2] = 0 /\ key[3] = 0
      BY <2>1
    <2> QED BY <1>2, <2>2, <2>3, <2>4 DEF KeyOfKind
  <1>7. CASE kind = 5
    <2>1. key = <<row[4], row[5], row[6]>> \/ key = <<row[4], row[5], 0>>
      BY <1>7 DEF RowKeys
    <2>2. KeyFieldCount[kind] = 3
      BY <1>7 DEF KeyFieldCount
    <2>3. key \in [1..3 -> 0..c]
      BY <1>1, <2>1, TripleIs
    <2>4. key[1] = row[4] /\ key[2] = row[5] /\ (key[3] = 0 \/ key[3] = row[6])
      BY <2>1
    <2>5. key[3] \in 0..c
      BY <2>3
    <2> QED BY <1>2, <1>7, <2>2, <2>3, <2>4, <2>5 DEF KeyOfKind
  <1>8. CASE kind = 6
    <2>1. key = <<row[4], row[6], 0>> /\ row[6] # 0
      BY <1>8 DEF RowKeys
    <2>2. KeyFieldCount[kind] = 2
      BY <1>8 DEF KeyFieldCount
    <2>3. key \in [1..3 -> 0..c]
      BY <1>1, <2>1, TripleIs
    <2>4. key[1] = row[4] /\ key[2] = row[6] /\ key[3] = 0 /\ row[6] \in 1..c
      BY <1>1, <2>1
    <2> QED BY <1>2, <2>2, <2>3, <2>4 DEF KeyOfKind
  <1>9. CASE kind = 7
    <2>1. key = <<row[4], 0, 0>>
      BY <1>9 DEF RowKeys
    <2>2. KeyFieldCount[kind] = 1
      BY <1>9 DEF KeyFieldCount
    <2>3. key \in [1..3 -> 0..c]
      BY <1>1, <2>1, TripleIs
    <2>4. key[1] = row[4] /\ key[2] = 0 /\ key[3] = 0
      BY <2>1
    <2> QED BY <1>2, <2>2, <2>3, <2>4 DEF KeyOfKind
  <1> QED BY <1>3, <1>4, <1>5, <1>6, <1>7, <1>8, <1>9 DEF Kinds

(* Keys are finitely many, and each has a row.                             *)
LEMMA KeysAre ==
    ASSUME NEW rels, Savable(rels), NEW kind \in Kinds, NEW profile
    PROVE  LET keys == GroupKeys(RowsOf(rels), kind, profile)
           IN  /\ IsFiniteSet(keys)
               /\ \A key \in keys : /\ KeyOfKind(key, kind, Len(Symbols(rels)))
                                    /\ IsPosting(Posting(RowsOf(rels), kind, key), Len(rels))
  <1> DEFINE rows == RowsOf(rels) n == Len(rels) c == Len(Symbols(rels))
             keys == GroupKeys(rows, kind, profile)
  <1>1. /\ DOMAIN rows = 1..n /\ n \in Nat /\ c \in Nat
        /\ \A i \in 1..n : rows[i] \in [1..6 -> 0..c]
        /\ \A i \in 1..n, f \in 1..5 : rows[i][f] # 0
    <2>1. /\ DOMAIN rows = 1..n /\ n \in Nat /\ c \in Nat
          /\ \A i \in 1..n : rows[i] \in [1..6 -> 0..c]
          /\ \A i \in 1..n, f \in 1..6 : rows[i][f] \in 1..c \/ f = 6
      BY RowsOfAre
    <2>2. \A f \in 1..5 : f \in 1..6 /\ f # 6
      OBVIOUS
    <2>3. 0 \notin 1..c
      BY <2>1
    <2> HIDE DEF rows, n, c
    <2> QED BY <2>1, <2>2, <2>3
  <1> HIDE DEF rows, n, c
  <1>2. IsFiniteSet(keys)
    BY <1>1, GroupKeysFinite
  <1>3. ASSUME NEW key \in keys
        PROVE  KeyOfKind(key, kind, c) /\ IsPosting(Posting(rows, kind, key), n)
    <2>1. PICK i \in 1..n : key \in RowKeys(rows[i], kind)
      BY <1>1 DEF GroupKeys
    <2>2. rows[i] \in [1..6 -> 0..c] /\ \A f \in 1..5 : rows[i][f] # 0
      BY <1>1
    <2>3. KeyOfKind(key, kind, c)
      BY <1>1, <2>1, <2>2, RowKeyIs
    <2> DEFINE I == {j \in 1..n : key \in RowKeys(rows[j], kind)}
               q == Posting(rows, kind, key)
    <2>4. /\ I \in SUBSET Nat /\ IsFiniteSet(I)
          /\ q \in Seq(I) /\ Len(q) = Cardinality(I) /\ DOMAIN q = 1..Cardinality(I)
          /\ \A j \in DOMAIN q : q[j] \in I
          /\ \A x \in I : \E j \in DOMAIN q : q[j] = x
          /\ \A j, k \in DOMAIN q : j < k => q[j] < q[k]
      BY <1>1, PostingIs
    <2>5. i \in I /\ I \subseteq 1..n
      BY <2>1
    <2> HIDE DEF I, q
    <2>6. q \in Seq(1..n) /\ DOMAIN q = 1..Len(q) /\ Len(q) \in Nat
      <3>1. DOMAIN q = 1..Len(q) /\ Len(q) \in Nat
        BY <2>4
      <3>2. q = [j \in 1..Len(q) |-> q[j]]
        BY <2>4
      <3>3. \A j \in 1..Len(q) : q[j] \in 1..n
        BY <2>4, <2>5, <3>1
      <3>4. q \in [1..Len(q) -> 1..n]
        BY <3>2, <3>3
      <3>5. q \in Seq(1..n)
        BY <3>1, <3>4, FunctionIsSeq
      <3> QED BY <3>1, <3>5
    <2>7. Len(q) >= 1
      BY <2>4, <2>5, <2>6
    <2>8. IsPosting(q, n)
      BY <2>4, <2>6, <2>7 DEF IsPosting
    <2> QED BY <2>3, <2>8 DEF q
  <1> QED BY <1>2, <1>3 DEF keys, rows, n, c

(* Keys in order.                                                          *)
LEMMA SortedKeysAre ==
    ASSUME NEW S, IsFiniteSet(S), S \subseteq DiskKey
    PROVE  LET n == Cardinality(S) q == SortedKeys(S)
           IN  /\ n \in Nat /\ DOMAIN q = 1..n /\ q \in Seq(S) /\ Len(q) = n
               /\ \A i \in 1..n : q[i] \in S
               /\ \A x \in S : \E i \in 1..n : q[i] = x
               /\ \A i, j \in 1..n : i < j => KeyLess(q[i], q[j])
  <1> DEFINE R == {p \in S \X S : KeyLess(p[1], p[2])}
  <1>1. \A x, y \in S : <<x, y>> \in R <=> KeyLess(x, y)
    OBVIOUS
  <1>2. SortedKeys(S) = InOrder(S, R)
    BY DEF SortedKeys
  <1> HIDE DEF R
  <1>3. Orders(R, S)
    <2>1. \A x \in S : <<x, x>> \notin R
      BY <1>1, KeyOrder
    <2>2. \A x, y, z \in S : <<x, y>> \in R /\ <<y, z>> \in R => <<x, z>> \in R
      BY <1>1, KeyOrder
    <2>3. \A x, y \in S : x = y \/ <<x, y>> \in R \/ <<y, x>> \in R
      BY <1>1, KeyOrder
    <2> QED BY <2>1, <2>2, <2>3 DEF Orders
  <1> DEFINE n == Cardinality(S) q == SortedKeys(S)
  <1>4. /\ n \in Nat /\ DOMAIN q = 1..n /\ q \in Seq(S) /\ Len(q) = n
        /\ \A i \in 1..n : q[i] \in S
        /\ \A x \in S : \E i \in 1..n : q[i] = x
        /\ \A i, j \in 1..n : i < j => <<q[i], q[j]>> \in R
        /\ \A i, j \in 1..n : q[i] = q[j] => i = j
    BY <1>2, <1>3, OrderedSet
  <1> HIDE DEF n, q
  <1>5. \A i, j \in 1..n : i < j => KeyLess(q[i], q[j])
    BY <1>1, <1>4
  <1> QED BY <1>4, <1>5 DEF n, q

(* The width of a group fits all its keys.                                 *)
LEMMA KeyWidthFits ==
    ASSUME NEW c \in Nat, c < Limit, NEW keys, \A key \in keys : key \in [1..3 -> 0..c]
    PROVE  /\ KeyWidth(keys) \in Widths
           /\ \A key \in keys, f \in 1..3 : key[f] < Power(ByteBase, KeyWidth(keys))
  <1> DEFINE V == {0} \cup {k[f] : k \in keys, f \in 1..3}
             W == {x \in Nat : \A y \in V : y <= x}
  <1>1. V \subseteq 0..c
    OBVIOUS
  <1>2. 0 \in V /\ \A key \in keys, f \in 1..3 : key[f] \in V
    OBVIOUS
  <1> HIDE DEF V
  <1>3. W \in SUBSET Nat /\ c \in W
    BY <1>1
  <1>4. PICK b \in W : \A x \in W : b <= x
    <2> HIDE DEF W
    <2> QED BY <1>3, LeastOf
  <1>5. b \in Nat /\ b <= c /\ \A y \in V : y <= b
    BY <1>3, <1>4
  <1>6. b \in V
    <2> SUFFICES ASSUME b \notin V PROVE FALSE
      OBVIOUS
    <2>1. b # 0
      BY <1>2
    <2>2. b - 1 \in Nat
      BY <1>5, <2>1
    <2>3. \A y \in V : y <= b - 1
      BY <1>1, <1>5
    <2>4. b - 1 \in W
      BY <2>2, <2>3
    <2>5. b <= b - 1
      <3> HIDE DEF W
      <3> QED BY <1>4, <2>4
    <2> QED BY <1>5, <2>5
  <1>7. Max(V) \in V /\ \A y \in V : y <= Max(V)
    <2>1. Max(V) = CHOOSE x \in V : \A y \in V : x >= y
      BY DEF Max
    <2>2. \A y \in V : b >= y
      BY <1>1, <1>5
    <2>3. Max(V) \in V /\ \A y \in V : Max(V) >= y
      BY <1>6, <2>1, <2>2
    <2> QED BY <1>1, <2>3
  <1>8. Max(V) \in Nat /\ Max(V) < Limit /\ Limit \in Nat
    <2>1. Limit \in Nat
      BY VarintLenIs
    <2>2. Max(V) \in 0..c
      BY <1>1, <1>7
    <2>3. \A m \in 0..c : m \in Nat /\ m <= c
      OBVIOUS
    <2>4. \A x, y, z \in Nat : x <= y /\ y < z => x < z
      OBVIOUS
    <2>5. Max(V) \in Nat /\ Max(V) <= c
      BY <2>2, <2>3
    <2> QED BY <2>1, <2>4, <2>5
  <1>9. KeyWidth(keys) = WidthFor(Max(V))
    BY DEF KeyWidth, V
  <1>10. KeyWidth(keys) \in Widths /\ Max(V) < Power(ByteBase, KeyWidth(keys))
    BY <1>8, <1>9, WidthFits
  <1>11. Power(ByteBase, KeyWidth(keys)) \in Nat
    <2>1. KeyWidth(keys) \in Nat /\ ByteBase \in Nat
      BY <1>10, BaseIs DEF Widths, BaseOK
    <2> QED BY <2>1, PowerIs
  <1>12. ASSUME NEW key \in keys, NEW f \in 1..3 PROVE key[f] < Power(ByteBase, KeyWidth(keys))
    <2>1. key[f] \in Nat /\ key[f] <= Max(V)
      BY <1>1, <1>2, <1>7
    <2>2. \A x, y, z \in Nat : x <= y /\ y < z => x < z
      OBVIOUS
    <2> QED BY <1>8, <1>10, <1>11, <2>1, <2>2
  <1> QED BY <1>10, <1>12

(* A key that was written is read.                                         *)
LEMMA KeyRead ==
    ASSUME NEW c \in Nat, NEW kind \in Kinds, NEW key, KeyOfKind(key, kind, c), NEW width \in Widths,
           \A f \in 1..3 : key[f] < Power(ByteBase, width),
           NEW e, e.kind = kind, e.width = width
    PROVE  /\ EncodeKey(kind, width, key) \in Seq(Nat)
           /\ Len(EncodeKey(kind, width, key)) = KeyFieldCount[kind] * width
           /\ DecodeKey(e, EncodeKey(kind, width, key)) = key
  <1> DEFINE k == KeyFieldCount[kind] numbers == [f \in 1..k |-> key[f]]
             bytes == EncodeKey(kind, width, key)
  <1>1. k \in 1..3
    BY DEF Kinds, KeyFieldCount
  <1>2. \A f \in 1..3 : key[f] \in Nat
    BY DEF KeyOfKind
  <1>3. bytes = EncodeNumbers(numbers, width)
    BY DEF EncodeKey, EncodeNumbers
  <1>4. DOMAIN numbers = 1..k /\ \A f \in 1..k : numbers[f] = key[f]
    OBVIOUS
  <1> HIDE DEF numbers, bytes, k
  <1>5. \A f \in 1..k : f \in 1..3
    BY <1>1
  <1>6. \A f \in 1..k : numbers[f] \in Nat /\ numbers[f] < Power(ByteBase, width)
    BY <1>2, <1>4, <1>5
  <1>7. width \in Nat \ {0} /\ k \in Nat
    BY <1>1 DEF Widths
  <1>8. HoldsNumbers(bytes, width, k, numbers)
    BY <1>3, <1>4, <1>6, <1>7, NumbersRead
  <1>9. \A f \in 1..k : Number(bytes, width, f) = key[f]
    BY <1>4, <1>8 DEF HoldsNumbers
  <1>10. \A f \in 1..3 : ~(f <= k) => key[f] = 0
    BY <1>1 DEF KeyOfKind, k
  <1>11. DecodeKey(e, bytes) = [f \in 1..3 |-> key[f]]
    <2>1. DecodeKey(e, bytes) = [f \in 1..3 |-> IF f <= k THEN Number(bytes, width, f) ELSE 0]
      BY DEF DecodeKey, k
    <2>2. \A f \in 1..3 : f <= k => f \in 1..k
      BY <1>1
    <2> QED BY <1>9, <1>10, <2>1, <2>2
  <1>12. key = [f \in 1..3 |-> key[f]]
    BY DEF KeyOfKind
  <1>13. bytes \in Seq(Nat) /\ Len(bytes) = k * width
    BY <1>8 DEF HoldsNumbers
  <1>14. DecodeKey(e, bytes) = key
    BY <1>11, <1>12
  <1> QED BY <1>13, <1>14 DEF bytes, k

(* A sequence that has another one in it, after its first `from`.          *)
HoldsAt(s, from, part) ==
    /\ s \in Seq(Nat) /\ part \in Seq(Nat) /\ from \in Nat
    /\ from + Len(part) <= Len(s)
    /\ \A j \in 1..Len(part) : s[from + j] = part[j]

(* What is held is read.                                                   *)
LEMMA HoldsRead ==
    ASSUME NEW s, NEW from, NEW part, HoldsAt(s, from, part)
    PROVE  SubSeq(s, from + 1, from + Len(part)) = part
  BY PartIs DEF HoldsAt

(* A part of a part is a part.                                             *)
LEMMA HoldsWithin ==
    ASSUME NEW s, NEW x, NEW p, HoldsAt(s, x, p), NEW y, NEW q, HoldsAt(p, y, q)
    PROVE  HoldsAt(s, x + y, q)
  <1>1. /\ s \in Seq(Nat) /\ p \in Seq(Nat) /\ x \in Nat /\ x + Len(p) <= Len(s)
        /\ \A j \in 1..Len(p) : s[x + j] = p[j]
    BY DEF HoldsAt
  <1>2. /\ q \in Seq(Nat) /\ y \in Nat /\ y + Len(q) <= Len(p)
        /\ \A j \in 1..Len(q) : p[y + j] = q[j]
    BY DEF HoldsAt
  <1>3. Len(s) \in Nat /\ Len(p) \in Nat /\ Len(q) \in Nat
    BY <1>1, <1>2
  <1>4. x + y \in Nat /\ (x + y) + Len(q) <= Len(s)
    BY <1>1, <1>2, <1>3
  <1>5. ASSUME NEW j \in 1..Len(q) PROVE s[(x + y) + j] = q[j]
    <2>1. y + j \in 1..Len(p) /\ (x + y) + j = x + (y + j)
      BY <1>1, <1>2, <1>3
    <2>2. s[x + (y + j)] = p[y + j]
      BY <1>1, <2>1
    <2>3. p[y + j] = q[j]
      BY <1>2
    <2> QED BY <2>1, <2>2, <2>3
  <1> QED BY <1>1, <1>2, <1>4, <1>5 DEF HoldsAt

(* A concatenation holds its operands.                                     *)
LEMMA ConcatHolds ==
    ASSUME NEW p \in Seq(Nat), NEW q \in Seq(Nat)
    PROVE  /\ p \o q \in Seq(Nat) /\ Len(p \o q) = Len(p) + Len(q)
           /\ HoldsAt(p \o q, 0, p) /\ HoldsAt(p \o q, Len(p), q)
  <1>1. /\ p \o q \in Seq(Nat) /\ Len(p \o q) = Len(p) + Len(q)
        /\ Len(p) \in Nat /\ Len(q) \in Nat
    OBVIOUS
  <1>2. \A j \in 1..Len(p) : (p \o q)[0 + j] = p[j]
    OBVIOUS
  <1>3. \A j \in 1..Len(q) : (p \o q)[Len(p) + j] = q[j]
    OBVIOUS
  <1> QED BY <1>1, <1>2, <1>3 DEF HoldsAt

(* Sequences joined at one length are held, each at its place.             *)
LEMMA RowHolds ==
    ASSUME NEW w \in Nat \ {0}, NEW n \in Nat, NEW seqs, DOMAIN seqs = 1..n,
           \A i \in 1..n : seqs[i] \in Seq(Nat) /\ Len(seqs[i]) = w
    PROVE  /\ Joined(seqs, w) \in Seq(Nat) /\ Len(Joined(seqs, w)) = n * w /\ n * w \in Nat
           /\ \A i \in 1..n : HoldsAt(Joined(seqs, w), (i - 1) * w, seqs[i])
  <1> DEFINE J == Joined(seqs, w)
  <1>1. InRow(J, Nat, seqs, n, w)
    BY JoinedIs
  <1> HIDE DEF J
  <1>2. J \in Seq(Nat) /\ Len(J) = n * w /\ n * w \in Nat
    BY <1>1 DEF InRow
  <1>3. ASSUME NEW i \in 1..n PROVE HoldsAt(J, (i - 1) * w, seqs[i])
    <2>1. \A j \in 1..w : (i - 1) * w + j \in 1..(n * w) /\ J[(i - 1) * w + j] = seqs[i][j]
      BY <1>1 DEF InRow
    <2>2. (i - 1) * w \in Nat
      <3>1. i - 1 \in Nat
        OBVIOUS
      <3> QED BY <3>1
    <2> DEFINE x == (i - 1) * w  m == n * w
    <2>3. \A j \in 1..w : x + j \in 1..m /\ J[x + j] = seqs[i][j]
      BY <2>1
    <2>4. x \in Nat /\ m \in Nat /\ Len(J) = m
      BY <1>2, <2>2
    <2> HIDE DEF x, m
    <2>5. w \in 1..w
      OBVIOUS
    <2>6. x + w <= m
      BY <2>3, <2>4, <2>5
    <2>7. HoldsAt(J, x, seqs[i])
      BY <1>2, <2>3, <2>4, <2>6 DEF HoldsAt
    <2> QED BY <2>7 DEF x
  <1> QED BY <1>2, <1>3 DEF J

(* Sequences written end to end are held, each where the last one ended.   *)
LEMMA FlatHolds ==
    ASSUME NEW flat, NEW ends, NEW n \in Nat, NEW seqs \in [1..n -> Seq(Nat)],
           EndToEnd(flat, ends, Nat, n, seqs), NEW i \in 1..n
    PROVE  HoldsAt(flat, ends[i - 1], seqs[i])
  <1>1. i - 1 \in 0..n /\ i \in 0..n /\ n \in 0..n /\ i <= n
    OBVIOUS
  <1>2. flat \in Seq(Nat) /\ seqs[i] \in Seq(Nat) /\ ends[i - 1] \in Nat
    BY <1>1 DEF EndToEnd
  <1>3. ends[i - 1] + Len(seqs[i]) <= Len(flat)
    <2>1. ends[i] = ends[i - 1] + Len(seqs[i])
      BY DEF EndToEnd
    <2>2. ends[i] <= ends[n]
      BY <1>1 DEF EndToEnd
    <2>3. Len(flat) = ends[n]
      BY DEF EndToEnd
    <2> QED BY <2>1, <2>2, <2>3
  <1>4. \A j \in 1..Len(seqs[i]) : flat[ends[i - 1] + j] = seqs[i][j]
    BY DEF EndToEnd
  <1> QED BY <1>2, <1>3, <1>4 DEF HoldsAt

(* The keys of a group with one row, and those with more, in order.        *)
SinglesOf(rows, kind, K) == SortedKeys({k \in K : Len(Posting(rows, kind, k)) = 1})
MultisOf(rows, kind, K) == SortedKeys({k \in K : Len(Posting(rows, kind, k)) > 1})

SplitKeys(rows, kind, K, sk, mk) ==
    /\ sk \in Seq(K) /\ mk \in Seq(K)
    /\ Cardinality(K) = Len(sk) + Len(mk)
    /\ \A i \in 1..Len(sk) : sk[i] \in K /\ Len(Posting(rows, kind, sk[i])) = 1
    /\ \A i \in 1..Len(mk) : mk[i] \in K /\ Len(Posting(rows, kind, mk[i])) > 1
    /\ \A k \in K : (\E i \in 1..Len(sk) : sk[i] = k) \/ (\E i \in 1..Len(mk) : mk[i] = k)
    /\ \A i, j \in 1..Len(sk) : i < j => KeyLess(sk[i], sk[j])
    /\ \A i, j \in 1..Len(mk) : i < j => KeyLess(mk[i], mk[j])

(* Each key has one row or several, and the two lists have each once.      *)
LEMMA KeysSplit ==
    ASSUME NEW rows, NEW kind, NEW K, IsFiniteSet(K), K \subseteq DiskKey,
           \A k \in K : Len(Posting(rows, kind, k)) \in Nat /\ Len(Posting(rows, kind, k)) >= 1
    PROVE  SplitKeys(rows, kind, K, SinglesOf(rows, kind, K), MultisOf(rows, kind, K))
  <1> DEFINE A == {k \in K : Len(Posting(rows, kind, k)) = 1}
             B == {k \in K : Len(Posting(rows, kind, k)) > 1}
             sk == SinglesOf(rows, kind, K) mk == MultisOf(rows, kind, K)
  <1>1. A \subseteq K /\ B \subseteq K /\ A \cap B = {} /\ A \cup B = K
    <2>1. \A x \in Nat : x >= 1 => x = 1 \/ x > 1
      OBVIOUS
    <2>2. ~(1 > 1)
      OBVIOUS
    <2>3. A \cup B = K
      BY <2>1
    <2> QED BY <2>2, <2>3
  <1>2. sk = SortedKeys(A) /\ mk = SortedKeys(B)
    BY DEF SinglesOf, MultisOf
  <1>3. /\ \A k \in A : Len(Posting(rows, kind, k)) = 1
        /\ \A k \in B : Len(Posting(rows, kind, k)) > 1
    OBVIOUS
  <1> HIDE DEF A, B, sk, mk
  <1>4. IsFiniteSet(A) /\ IsFiniteSet(B) /\ A \subseteq DiskKey /\ B \subseteq DiskKey
    BY <1>1, FS_Subset
  <1>5. /\ Cardinality(A) \in Nat /\ DOMAIN sk = 1..Cardinality(A) /\ sk \in Seq(A) /\ Len(sk) = Cardinality(A)
        /\ \A i \in 1..Cardinality(A) : sk[i] \in A
        /\ \A x \in A : \E i \in 1..Cardinality(A) : sk[i] = x
        /\ \A i, j \in 1..Cardinality(A) : i < j => KeyLess(sk[i], sk[j])
    BY <1>2, <1>4, SortedKeysAre
  <1>6. /\ Cardinality(B) \in Nat /\ DOMAIN mk = 1..Cardinality(B) /\ mk \in Seq(B) /\ Len(mk) = Cardinality(B)
        /\ \A i \in 1..Cardinality(B) : mk[i] \in B
        /\ \A x \in B : \E i \in 1..Cardinality(B) : mk[i] = x
        /\ \A i, j \in 1..Cardinality(B) : i < j => KeyLess(mk[i], mk[j])
    BY <1>2, <1>4, SortedKeysAre
  <1>7. Cardinality(K) = Len(sk) + Len(mk)
    <2>1. Cardinality(A \cup B) = Cardinality(A) + Cardinality(B) - Cardinality(A \cap B)
      BY <1>4, FS_Union
    <2>2. Cardinality(A \cap B) = 0
      BY <1>1, FS_EmptySet
    <2>3. \A x, y \in Nat : x + y - 0 = x + y
      OBVIOUS
    <2>4. Cardinality(A \cup B) = Cardinality(A) + Cardinality(B)
      BY <1>5, <1>6, <2>1, <2>2, <2>3
    <2> QED BY <1>1, <1>5, <1>6, <2>4
  <1>8. sk \in Seq(K) /\ mk \in Seq(K)
    <2>1. sk \in [1..Cardinality(A) -> K]
      <3>1. sk = [i \in 1..Cardinality(A) |-> sk[i]]
        BY <1>5
      <3>2. \A i \in 1..Cardinality(A) : sk[i] \in K
        BY <1>1, <1>5
      <3> QED BY <3>1, <3>2
    <2>2. mk \in [1..Cardinality(B) -> K]
      <3>1. mk = [i \in 1..Cardinality(B) |-> mk[i]]
        BY <1>6
      <3>2. \A i \in 1..Cardinality(B) : mk[i] \in K
        BY <1>1, <1>6
      <3> QED BY <3>1, <3>2
    <2>3. sk \in Seq(K)
      BY <1>5, <2>1, FunctionIsSeq
    <2>4. mk \in Seq(K)
      BY <1>6, <2>2, FunctionIsSeq
    <2> QED BY <2>3, <2>4
  <1>9. /\ \A i \in 1..Len(sk) : sk[i] \in K /\ Len(Posting(rows, kind, sk[i])) = 1
        /\ \A i \in 1..Len(mk) : mk[i] \in K /\ Len(Posting(rows, kind, mk[i])) > 1
    BY <1>1, <1>3, <1>5, <1>6
  <1>10. \A k \in K : (\E i \in 1..Len(sk) : sk[i] = k) \/ (\E i \in 1..Len(mk) : mk[i] = k)
    BY <1>1, <1>5, <1>6
  <1>11. SplitKeys(rows, kind, K, sk, mk)
    BY <1>5, <1>6, <1>7, <1>8, <1>9, <1>10 DEF SplitKeys
  <1> QED BY <1>11 DEF sk, mk

(* The sections of one group: L is the length of a key.                    *)
GroupLaid(g, rows, kind, sk, mk, L) ==
    /\ g.kind = kind /\ g.width \in Widths
    /\ Len(sk) \in Nat /\ Len(mk) \in Nat
    /\ g.keyCount = Len(sk) + Len(mk)
    /\ g.lists = [i \in 1..Len(mk) |-> Posting(rows, kind, mk[i])]
    /\ g.keys \in Seq(Nat)
    /\ Len(g.keys) = Len(sk) * (L + RowIdWidth) + Len(mk) * L
    /\ \A i \in 1..Len(sk) :
          /\ HoldsAt(g.keys, (i - 1) * (L + RowIdWidth), EncodeKey(kind, g.width, sk[i]))
          /\ HoldsAt(g.keys, (i - 1) * (L + RowIdWidth) + L, Bytes(Posting(rows, kind, sk[i])[1], RowIdWidth))
    /\ \A i \in 1..Len(mk) :
          HoldsAt(g.keys, Len(sk) * (L + RowIdWidth) + (i - 1) * L, EncodeKey(kind, g.width, mk[i]))

(* Entries with their row ids, and then keys alone.                        *)
EntriesAt(J, L, r, s, t, key, id, other) ==
    /\ J \in Seq(Nat) /\ Len(J) = s * (L + r) + t * L
    /\ \A i \in 1..s : /\ HoldsAt(J, (i - 1) * (L + r), key[i])
                       /\ HoldsAt(J, (i - 1) * (L + r) + L, id[i])
    /\ \A i \in 1..t : HoldsAt(J, s * (L + r) + (i - 1) * L, other[i])

LEMMA EntriesLaid ==
    ASSUME NEW L \in Nat \ {0}, NEW r \in Nat \ {0}, NEW s \in Nat, NEW t \in Nat,
           NEW key, NEW id, NEW other,
           DOMAIN key = 1..s, DOMAIN id = 1..s, DOMAIN other = 1..t,
           \A i \in 1..s : key[i] \in Seq(Nat) /\ Len(key[i]) = L /\ id[i] \in Seq(Nat) /\ Len(id[i]) = r,
           \A i \in 1..t : other[i] \in Seq(Nat) /\ Len(other[i]) = L
    PROVE  EntriesAt(Joined([i \in 1..s |-> key[i] \o id[i]], L + r) \o Joined(other, L),
                     L, r, s, t, key, id, other)
  <1> DEFINE both == [i \in 1..s |-> key[i] \o id[i]]
             P == Joined(both, L + r) Q == Joined(other, L) J == P \o Q
  <1>1. \A i \in 1..s : /\ key[i] \o id[i] \in Seq(Nat) /\ Len(key[i] \o id[i]) = L + r
                        /\ HoldsAt(key[i] \o id[i], 0, key[i]) /\ HoldsAt(key[i] \o id[i], L, id[i])
    <2> TAKE i \in 1..s
    <2> DEFINE p == key[i] q == id[i]
    <2>1. p \in Seq(Nat) /\ Len(p) = L /\ q \in Seq(Nat) /\ Len(q) = r
      OBVIOUS
    <2> HIDE DEF p, q
    <2>2. /\ p \o q \in Seq(Nat) /\ Len(p \o q) = Len(p) + Len(q)
          /\ HoldsAt(p \o q, 0, p) /\ HoldsAt(p \o q, Len(p), q)
      BY <2>1, ConcatHolds
    <2>3. p \o q \in Seq(Nat) /\ Len(p \o q) = L + r /\ HoldsAt(p \o q, 0, p) /\ HoldsAt(p \o q, L, q)
      BY <2>1, <2>2
    <2> QED BY <2>3 DEF p, q
  <1>2. DOMAIN both = 1..s /\ \A i \in 1..s : both[i] = key[i] \o id[i]
    OBVIOUS
  <1> HIDE DEF both
  <1>3. L + r \in Nat \ {0}
    OBVIOUS
  <1>4. /\ P \in Seq(Nat) /\ Len(P) = s * (L + r) /\ s * (L + r) \in Nat
        /\ \A i \in 1..s : HoldsAt(P, (i - 1) * (L + r), both[i])
    <2> DEFINE w == L + r
    <2>1. w \in Nat \ {0} /\ \A i \in 1..s : both[i] \in Seq(Nat) /\ Len(both[i]) = w
      BY <1>1, <1>2, <1>3
    <2> HIDE DEF w
    <2>2. /\ Joined(both, w) \in Seq(Nat) /\ Len(Joined(both, w)) = s * w /\ s * w \in Nat
          /\ \A i \in 1..s : HoldsAt(Joined(both, w), (i - 1) * w, both[i])
      BY <1>2, <2>1, RowHolds
    <2> QED BY <2>2 DEF w
  <1>5. /\ Q \in Seq(Nat) /\ Len(Q) = t * L /\ t * L \in Nat
        /\ \A i \in 1..t : HoldsAt(Q, (i - 1) * L, other[i])
    BY RowHolds
  <1> HIDE DEF P, Q
  <1>6. /\ J \in Seq(Nat) /\ Len(J) = Len(P) + Len(Q)
        /\ HoldsAt(J, 0, P) /\ HoldsAt(J, Len(P), Q)
    BY <1>4, <1>5, ConcatHolds
  <1>7. Len(J) = s * (L + r) + t * L
    BY <1>4, <1>5, <1>6
  <1> HIDE DEF J
  <1>8. \A x \in Nat : 0 + x = x /\ x + 0 = x
    OBVIOUS
  <1>9. ASSUME NEW i \in 1..s
        PROVE  HoldsAt(J, (i - 1) * (L + r), key[i]) /\ HoldsAt(J, (i - 1) * (L + r) + L, id[i])
    <2> DEFINE x == (i - 1) * (L + r)
    <2>1. HoldsAt(P, x, both[i])
      BY <1>4
    <2> HIDE DEF x
    <2>2. x \in Nat
      BY <2>1 DEF HoldsAt
    <2>3. HoldsAt(J, 0 + x, both[i])
      BY <1>6, <2>1, HoldsWithin
    <2>4. HoldsAt(J, x, both[i])
      BY <1>8, <2>2, <2>3
    <2>5. HoldsAt(both[i], 0, key[i]) /\ HoldsAt(both[i], L, id[i])
      BY <1>1, <1>2
    <2>6. HoldsAt(J, x + 0, key[i]) /\ HoldsAt(J, x + L, id[i])
      BY <2>4, <2>5, HoldsWithin
    <2>7. HoldsAt(J, x, key[i])
      BY <1>8, <2>2, <2>6
    <2> QED BY <2>6, <2>7 DEF x
  <1>10. ASSUME NEW i \in 1..t PROVE HoldsAt(J, s * (L + r) + (i - 1) * L, other[i])
    <2>1. HoldsAt(Q, (i - 1) * L, other[i])
      BY <1>5
    <2>2. HoldsAt(J, Len(P) + (i - 1) * L, other[i])
      BY <1>6, <2>1, HoldsWithin
    <2> QED BY <1>4, <2>2
  <1>11. EntriesAt(J, L, r, s, t, key, id, other)
    BY <1>6, <1>7, <1>9, <1>10 DEF EntriesAt
  <1> QED BY <1>11 DEF J, P, Q, both

(* What a save writes for one kind.                                        *)
KeysOf(rels, kind, profile) == GroupKeys(RowsOf(rels), kind, profile)
SinglesIn(rels, kind, profile) == SinglesOf(RowsOf(rels), kind, KeysOf(rels, kind, profile))
MultisIn(rels, kind, profile) == MultisOf(RowsOf(rels), kind, KeysOf(rels, kind, profile))

KeysGood(rels, kind, K, width) ==
    \A key \in K : /\ KeyOfKind(key, kind, Len(Symbols(rels)))
                   /\ IsPosting(Posting(RowsOf(rels), kind, key), Len(rels))
                   /\ \A f \in 1..3 : key[f] < Power(ByteBase, width)

(* The keys of a group fit its width and have postings.                    *)
LEMMA GroupKeysGood ==
    ASSUME NEW rels, Savable(rels), NEW kind \in Kinds, NEW profile
    PROVE  LET K == KeysOf(rels, kind, profile)
           IN  /\ KeyWidth(K) \in Widths /\ IsFiniteSet(K) /\ KeysGood(rels, kind, K, KeyWidth(K))
               /\ SplitKeys(RowsOf(rels), kind, K, SinglesIn(rels, kind, profile), MultisIn(rels, kind, profile))
  <1> DEFINE K == KeysOf(rels, kind, profile) rows == RowsOf(rels) c == Len(Symbols(rels))
  <1>1. /\ IsFiniteSet(K)
        /\ \A key \in K : KeyOfKind(key, kind, c) /\ IsPosting(Posting(rows, kind, key), Len(rels))
    <2>1. K = GroupKeys(RowsOf(rels), kind, profile)
      BY DEF KeysOf
    <2> QED BY <2>1, KeysAre
  <1>2. c \in Nat /\ Len(rels) \in Nat
    BY RowsOfAre
  <1>3. c < Limit
    BY DEF Savable
  <1> HIDE DEF K, rows, c
  <1>4. \A key \in K : key \in [1..3 -> 0..c]
    BY <1>1 DEF KeyOfKind
  <1>5. /\ KeyWidth(K) \in Widths
        /\ \A key \in K, f \in 1..3 : key[f] < Power(ByteBase, KeyWidth(K))
    BY <1>2, <1>3, <1>4, KeyWidthFits
  <1>6. KeysGood(rels, kind, K, KeyWidth(K))
    BY <1>1, <1>5 DEF KeysGood, c, rows
  <1>7. K \subseteq DiskKey
    BY <1>2, <1>4 DEF DiskKey
  <1>8. \A key \in K : Len(Posting(rows, kind, key)) \in Nat /\ Len(Posting(rows, kind, key)) >= 1
    BY <1>1 DEF IsPosting
  <1>9. SplitKeys(rows, kind, K, SinglesOf(rows, kind, K), MultisOf(rows, kind, K))
    BY <1>1, <1>7, <1>8, KeysSplit
  <1>10. SplitKeys(rows, kind, K, SinglesIn(rels, kind, profile), MultisIn(rels, kind, profile))
    BY <1>9 DEF SinglesIn, MultisIn, K, rows
  <1> QED BY <1>1, <1>5, <1>6, <1>10 DEF K, rows

(* A group is laid out as its entry says.                                  *)
LEMMA GroupIs ==
    ASSUME NEW rels, Savable(rels), NEW kind \in Kinds, NEW profile
    PROVE  LET g == Group(RowsOf(rels), kind, profile)
           IN  /\ GroupLaid(g, RowsOf(rels), kind, SinglesIn(rels, kind, profile), MultisIn(rels, kind, profile),
                            KeyFieldCount[kind] * g.width)
               /\ KeysGood(rels, kind, KeysOf(rels, kind, profile), g.width)
  <1> DEFINE rows == RowsOf(rels) K == KeysOf(rels, kind, profile)
             sk == SinglesIn(rels, kind, profile) mk == MultisIn(rels, kind, profile)
             g == Group(rows, kind, profile) w == KeyWidth(K) L == KeyFieldCount[kind] * w
             key == [i \in 1..Len(sk) |-> EncodeKey(kind, w, sk[i])]
             id == [i \in 1..Len(sk) |-> Bytes(Posting(rows, kind, sk[i])[1], RowIdWidth)]
             other == [i \in 1..Len(mk) |-> EncodeKey(kind, w, mk[i])]
  <1>1. /\ w \in Widths /\ IsFiniteSet(K) /\ KeysGood(rels, kind, K, w)
        /\ SplitKeys(rows, kind, K, sk, mk)
    BY GroupKeysGood
  <1>2. /\ sk \in Seq(K) /\ mk \in Seq(K) /\ Cardinality(K) = Len(sk) + Len(mk)
        /\ \A i \in 1..Len(sk) : sk[i] \in K
        /\ \A i \in 1..Len(mk) : mk[i] \in K
    BY <1>1 DEF SplitKeys
  <1>3. /\ Len(sk) \in Nat /\ Len(mk) \in Nat /\ DOMAIN sk = 1..Len(sk) /\ DOMAIN mk = 1..Len(mk)
    <2> HIDE DEF sk, mk, K
    <2> QED BY <1>2
  <1>4. /\ g.kind = kind /\ g.width = w /\ g.keyCount = Cardinality(K)
        /\ g.lists = [i \in DOMAIN mk |-> Posting(rows, kind, mk[i])]
        /\ g.keys = Joined([i \in DOMAIN sk |-> EncodeKey(kind, w, sk[i])
                                                \o Bytes(Posting(rows, kind, sk[i])[1], RowIdWidth)],
                           KeyFieldCount[kind] * w + RowIdWidth)
                    \o Joined([i \in DOMAIN mk |-> EncodeKey(kind, w, mk[i])], KeyFieldCount[kind] * w)
    BY DEF Group, KeysOf, SinglesIn, MultisIn, SinglesOf, MultisOf
  <1> DEFINE c == Len(Symbols(rels))
  <1>5. c \in Nat /\ Len(rels) \in Nat
    BY RowsOfAre
  <1> HIDE DEF sk, mk, K, g, rows, w, c
  <1>6. ASSUME NEW k \in K
        PROVE  /\ EncodeKey(kind, w, k) \in Seq(Nat) /\ Len(EncodeKey(kind, w, k)) = L
               /\ Bytes(Posting(rows, kind, k)[1], RowIdWidth) \in Seq(Nat)
               /\ Len(Bytes(Posting(rows, kind, k)[1], RowIdWidth)) = RowIdWidth
    <2>1. /\ KeyOfKind(k, kind, c) /\ IsPosting(Posting(rows, kind, k), Len(rels))
          /\ \A f \in 1..3 : k[f] < Power(ByteBase, w)
      BY <1>1 DEF KeysGood, c, rows
    <2>2. /\ EncodeKey(kind, w, k) \in Seq(Nat) /\ Len(EncodeKey(kind, w, k)) = L
      <3> DEFINE e == [kind |-> kind, width |-> w]
      <3>1. e.kind = kind /\ e.width = w
        OBVIOUS
      <3> HIDE DEF e
      <3> QED BY <1>1, <1>5, <2>1, <3>1, KeyRead
    <2> DEFINE q == Posting(rows, kind, k)
    <2>3. q[1] \in Nat
      <3> HIDE DEF q
      <3>1. q \in Seq(1..Len(rels)) /\ Len(q) >= 1
        BY <2>1 DEF IsPosting, q
      <3>2. 1 \in DOMAIN q
        BY <3>1
      <3>3. q[1] \in 1..Len(rels)
        BY <3>1, <3>2
      <3> QED BY <1>5, <3>3
    <2>4. RowIdWidth \in Nat
      BY DEF RowIdWidth
    <2> QED BY <2>2, <2>3, <2>4, BytesRead
  <1>7. L \in Nat \ {0}
    <2>1. KeyFieldCount[kind] \in {1, 2, 3}
      BY DEF Kinds, KeyFieldCount
    <2> QED BY <1>1, <2>1 DEF Widths
  <1>8. RowIdWidth \in Nat \ {0}
    BY DEF RowIdWidth
  <1>9. /\ DOMAIN key = 1..Len(sk) /\ DOMAIN id = 1..Len(sk) /\ DOMAIN other = 1..Len(mk)
        /\ \A i \in 1..Len(sk) : /\ key[i] = EncodeKey(kind, w, sk[i])
                                 /\ id[i] = Bytes(Posting(rows, kind, sk[i])[1], RowIdWidth)
        /\ \A i \in 1..Len(mk) : other[i] = EncodeKey(kind, w, mk[i])
    OBVIOUS
  <1>10. g.keys = Joined([i \in 1..Len(sk) |-> key[i] \o id[i]], L + RowIdWidth) \o Joined(other, L)
    BY <1>3, <1>4
  <1> HIDE DEF L, key, id, other
  <1>11. /\ \A i \in 1..Len(sk) : key[i] \in Seq(Nat) /\ Len(key[i]) = L /\ id[i] \in Seq(Nat) /\ Len(id[i]) = RowIdWidth
         /\ \A i \in 1..Len(mk) : other[i] \in Seq(Nat) /\ Len(other[i]) = L
    <2>1. ASSUME NEW i \in 1..Len(sk)
          PROVE  key[i] \in Seq(Nat) /\ Len(key[i]) = L /\ id[i] \in Seq(Nat) /\ Len(id[i]) = RowIdWidth
      <3>1. sk[i] \in K
        BY <1>2
      <3>2. key[i] = EncodeKey(kind, w, sk[i]) /\ id[i] = Bytes(Posting(rows, kind, sk[i])[1], RowIdWidth)
        BY <1>9
      <3> QED BY <1>6, <3>1, <3>2
    <2>2. ASSUME NEW i \in 1..Len(mk) PROVE other[i] \in Seq(Nat) /\ Len(other[i]) = L
      <3>1. mk[i] \in K
        BY <1>2
      <3>2. other[i] = EncodeKey(kind, w, mk[i])
        BY <1>9
      <3> QED BY <1>6, <3>1, <3>2
    <2> QED BY <2>1, <2>2
  <1> DEFINE J == Joined([i \in 1..Len(sk) |-> key[i] \o id[i]], L + RowIdWidth) \o Joined(other, L)
  <1>12. /\ J \in Seq(Nat) /\ Len(J) = Len(sk) * (L + RowIdWidth) + Len(mk) * L
         /\ \A i \in 1..Len(sk) : /\ HoldsAt(J, (i - 1) * (L + RowIdWidth), key[i])
                                  /\ HoldsAt(J, (i - 1) * (L + RowIdWidth) + L, id[i])
         /\ \A i \in 1..Len(mk) : HoldsAt(J, Len(sk) * (L + RowIdWidth) + (i - 1) * L, other[i])
    <2> DEFINE s == Len(sk) t == Len(mk) r == RowIdWidth
    <2>1. s \in Nat /\ t \in Nat /\ r \in Nat \ {0} /\ DOMAIN key = 1..s /\ DOMAIN id = 1..s /\ DOMAIN other = 1..t
      BY <1>3, <1>8, <1>9
    <2>2. /\ \A i \in 1..s : key[i] \in Seq(Nat) /\ Len(key[i]) = L /\ id[i] \in Seq(Nat) /\ Len(id[i]) = r
          /\ \A i \in 1..t : other[i] \in Seq(Nat) /\ Len(other[i]) = L
      BY <1>11
    <2>3. J = Joined([i \in 1..s |-> key[i] \o id[i]], L + r) \o Joined(other, L)
      OBVIOUS
    <2> HIDE DEF s, t, r, J
    <2>4. EntriesAt(Joined([i \in 1..s |-> key[i] \o id[i]], L + r) \o Joined(other, L),
                    L, r, s, t, key, id, other)
      BY <1>7, <2>1, <2>2, EntriesLaid
    <2>5. EntriesAt(J, L, r, s, t, key, id, other)
      BY <2>3, <2>4
    <2> QED BY <2>5 DEF EntriesAt, s, t, r
  <1>13. g.keys = J
    BY <1>10
  <1> HIDE DEF J
  <1>14. GroupLaid(g, rows, kind, sk, mk, L)
    <2>1. g.kind = kind /\ g.width = w /\ w \in Widths
      BY <1>1, <1>4
    <2>2. g.keyCount = Len(sk) + Len(mk)
      BY <1>2, <1>4
    <2>3. g.lists = [i \in 1..Len(mk) |-> Posting(rows, kind, mk[i])]
      BY <1>3, <1>4
    <2>4. g.keys \in Seq(Nat) /\ Len(g.keys) = Len(sk) * (L + RowIdWidth) + Len(mk) * L
      BY <1>12, <1>13
    <2>5. \A i \in 1..Len(sk) :
             /\ HoldsAt(g.keys, (i - 1) * (L + RowIdWidth), EncodeKey(kind, g.width, sk[i]))
             /\ HoldsAt(g.keys, (i - 1) * (L + RowIdWidth) + L, Bytes(Posting(rows, kind, sk[i])[1], RowIdWidth))
      BY <1>9, <1>12, <1>13, <2>1
    <2>6. \A i \in 1..Len(mk) :
             HoldsAt(g.keys, Len(sk) * (L + RowIdWidth) + (i - 1) * L, EncodeKey(kind, g.width, mk[i]))
      BY <1>9, <1>12, <1>13, <2>1
    <2> QED BY <1>3, <2>1, <2>2, <2>3, <2>4, <2>5, <2>6 DEF GroupLaid
  <1>15. GroupLaid(g, rows, kind, sk, mk, KeyFieldCount[kind] * g.width)
    BY <1>4, <1>14 DEF L
  <1>16. KeysGood(rels, kind, K, g.width)
    BY <1>1, <1>4
  <1> QED BY <1>15, <1>16 DEF g, rows, K, sk, mk

(* The sections of a saved file, and their parts.                          *)
KeyParts(rels, profile) == [k \in Kinds |-> GroupsOf(rels, profile)[k].keys]
ListParts(rels, profile) == [k \in Kinds |-> GroupsOf(rels, profile)[k].lists]
Lists(rels, profile) == FlattenSeq(ListParts(rels, profile))
Overflows(rels, profile) == [i \in DOMAIN Lists(rels, profile) |-> EncodeOverflow(Lists(rels, profile)[i])]

LongPostings(rowCount) == {ids \in Seq(1..rowCount) : IsPosting(ids, rowCount) /\ Len(ids) > 1}

(* A directory entry.                                                      *)
EntryIs(a, rels, profile, k) ==
    LET g == GroupsOf(rels, profile)[k] e == a.dir[k]
    IN  /\ e.kind = k /\ e.width = g.width /\ e.keyCount = g.keyCount
        /\ e.keyStart = Ends(KeyParts(rels, profile))[k - 1]
        /\ e.rangeStart = Ends(ListParts(rels, profile))[k - 1]
        /\ e.rangeCount = Len(ListParts(rels, profile)[k])

RangeIs(a, rels, profile, i) ==
    /\ a.ranges[i].first = Lists(rels, profile)[i][1]
    /\ a.ranges[i].start = Ends(Overflows(rels, profile))[i - 1]
    /\ a.ranges[i].len = Len(Overflows(rels, profile)[i])

FieldsAre(a, rels, profile) ==
    /\ a.keys = FlattenSeq(KeyParts(rels, profile))
    /\ a.keyCount = Total([k \in Kinds |-> GroupsOf(rels, profile)[k].keyCount])
    /\ DOMAIN a.ranges = DOMAIN Lists(rels, profile)
    /\ a.ranges = [i \in DOMAIN a.ranges |-> a.ranges[i]]
    /\ a.postings = FlattenSeq(Overflows(rels, profile))
    /\ a.postingCount = Total([k \in Kinds |->
          Total([i \in DOMAIN ListParts(rels, profile)[k] |-> Len(ListParts(rels, profile)[k][i]) - 1])])

(* A saved file has these fields.                                          *)
LEMMA FileFields ==
    ASSUME NEW a, NEW rels, NEW profile, NEW width, IsFile(a, rels, profile, width)
    PROVE  /\ \A k \in Kinds : EntryIs(a, rels, profile, k)
           /\ \A i \in DOMAIN a.ranges : RangeIs(a, rels, profile, i)
           /\ FieldsAre(a, rels, profile)
  <1> DEFINE G == GroupsOf(rels, profile) x == EncodeIndexes(G)
  <1>1. /\ a.dir = x.dir /\ a.keys = x.keys /\ a.keyCount = x.keyCount
        /\ a.ranges = x.ranges /\ a.postings = x.postings /\ a.postingCount = x.postingCount
    BY DEF IsFile
  <1>2. \A k \in Kinds : EntryIs(a, rels, profile, k)
    <2>1. x.dir = [k \in Kinds |->
                    [kind |-> k, width |-> G[k].width,
                     keyStart |-> Ends(KeyParts(rels, profile))[k - 1], keyCount |-> G[k].keyCount,
                     rangeStart |-> Ends(ListParts(rels, profile))[k - 1],
                     rangeCount |-> Len(ListParts(rels, profile)[k])]]
      BY DEF EncodeIndexes, KeyParts, ListParts
    <2> TAKE k \in Kinds
    <2>2. x.dir[k] = [kind |-> k, width |-> G[k].width,
                     keyStart |-> Ends(KeyParts(rels, profile))[k - 1], keyCount |-> G[k].keyCount,
                     rangeStart |-> Ends(ListParts(rels, profile))[k - 1],
                     rangeCount |-> Len(ListParts(rels, profile)[k])]
      <3> HIDE DEF x, G
      <3> QED BY <2>1
    <2> HIDE DEF x, G
    <2> QED BY <1>1, <2>2 DEF EntryIs, G
  <1>3. x.keys = FlattenSeq(KeyParts(rels, profile))
    BY DEF EncodeIndexes, KeyParts
  <1>4. x.keyCount = Total([k \in Kinds |-> G[k].keyCount])
    BY DEF EncodeIndexes
  <1>5. x.ranges = [i \in DOMAIN Lists(rels, profile) |->
                      [first |-> Lists(rels, profile)[i][1], start |-> Ends(Overflows(rels, profile))[i - 1],
                       len |-> Len(Overflows(rels, profile)[i])]]
    BY DEF EncodeIndexes, ListParts, Lists, Overflows
  <1>6. x.postings = FlattenSeq(Overflows(rels, profile))
    BY DEF EncodeIndexes, ListParts, Lists, Overflows
  <1>7. x.postingCount = Total([k \in Kinds |->
                 Total([i \in DOMAIN ListParts(rels, profile)[k] |-> Len(ListParts(rels, profile)[k][i]) - 1])])
    BY DEF EncodeIndexes, ListParts
  <1> HIDE DEF x
  <1>8. /\ DOMAIN a.ranges = DOMAIN Lists(rels, profile)
        /\ a.ranges = [i \in DOMAIN a.ranges |-> a.ranges[i]]
        /\ \A i \in DOMAIN a.ranges : RangeIs(a, rels, profile, i)
    BY <1>1, <1>5 DEF RangeIs
  <1>9. FieldsAre(a, rels, profile)
    BY <1>1, <1>3, <1>4, <1>6, <1>7, <1>8 DEF FieldsAre, G
  <1> QED BY <1>2, <1>8, <1>9

(* The parts lie end to end.                                               *)
Placed(a, rels, profile) ==
    /\ KeyParts(rels, profile) \in [1..7 -> Seq(Nat)]
    /\ EndToEnd(a.keys, Ends(KeyParts(rels, profile)), Nat, 7, KeyParts(rels, profile))
    /\ ListParts(rels, profile) \in [1..7 -> Seq(LongPostings(Len(rels)))]
    /\ EndToEnd(Lists(rels, profile), Ends(ListParts(rels, profile)), LongPostings(Len(rels)), 7,
                ListParts(rels, profile))
    /\ Overflows(rels, profile) \in [1..Len(Lists(rels, profile)) -> Seq(Nat)]
    /\ EndToEnd(a.postings, Ends(Overflows(rels, profile)), Nat, Len(Lists(rels, profile)),
                Overflows(rels, profile))
    /\ \A i \in 1..Len(Lists(rels, profile)) :
          /\ Overflows(rels, profile)[i] = EncodeOverflow(Lists(rels, profile)[i])
          /\ Len(Overflows(rels, profile)[i]) >= 1

(* The parts of a saved file lie end to end.                               *)
LEMMA PartsPlaced ==
    ASSUME NEW a, NEW rels, NEW profile, NEW width, IsFile(a, rels, profile, width)
    PROVE  Placed(a, rels, profile)
  <1> DEFINE KP == KeyParts(rels, profile) LP == ListParts(rels, profile)
             all == Lists(rels, profile) OV == Overflows(rels, profile) n == Len(rels)
  <1>1. Savable(rels) /\ a.keys = FlattenSeq(KP) /\ a.postings = FlattenSeq(OV)
    <2>1. Savable(rels)
      BY DEF IsFile
    <2>2. a.keys = FlattenSeq(KeyParts(rels, profile)) /\ a.postings = FlattenSeq(Overflows(rels, profile))
      <3>1. FieldsAre(a, rels, profile)
        BY FileFields
      <3> QED BY <3>1 DEF FieldsAre
    <2> QED BY <2>1, <2>2
  <1>2. n \in Nat /\ n < Limit
    BY <1>1, RowsOfAre DEF Savable
  <1>3. Kinds = 1..7
    BY DEF Kinds
  <1>4. DOMAIN KP = 1..7 /\ DOMAIN LP = 1..7 /\ KP = [k \in 1..7 |-> KP[k]] /\ LP = [k \in 1..7 |-> LP[k]]
    BY <1>3 DEF KeyParts, ListParts
  <1>5. ASSUME NEW k \in 1..7
        PROVE  KP[k] \in Seq(Nat) /\ LP[k] \in Seq(LongPostings(n))
    <2> DEFINE g == Group(RowsOf(rels), k, profile) K == KeysOf(rels, k, profile)
               sk == SinglesIn(rels, k, profile) mk == MultisIn(rels, k, profile)
    <2>1. KP[k] = g.keys /\ LP[k] = g.lists
      BY <1>3 DEF KeyParts, ListParts, GroupsOf
    <2>2. GroupLaid(g, RowsOf(rels), k, sk, mk, KeyFieldCount[k] * g.width) /\ KeysGood(rels, k, K, g.width)
      BY <1>1, <1>3, GroupIs
    <2>3. SplitKeys(RowsOf(rels), k, K, sk, mk)
      BY <1>1, <1>3, GroupKeysGood
    <2> HIDE DEF g, K, sk, mk
    <2>4. g.keys \in Seq(Nat) /\ Len(mk) \in Nat /\ g.lists = [i \in 1..Len(mk) |-> Posting(RowsOf(rels), k, mk[i])]
      BY <2>2 DEF GroupLaid
    <2>5. ASSUME NEW i \in 1..Len(mk) PROVE Posting(RowsOf(rels), k, mk[i]) \in LongPostings(n)
      <3>1. mk[i] \in K /\ Len(Posting(RowsOf(rels), k, mk[i])) > 1
        BY <2>3 DEF SplitKeys
      <3>2. IsPosting(Posting(RowsOf(rels), k, mk[i]), n)
        BY <2>2, <3>1 DEF KeysGood
      <3>3. Posting(RowsOf(rels), k, mk[i]) \in Seq(1..n)
        BY <3>2 DEF IsPosting
      <3> QED BY <3>1, <3>2, <3>3 DEF LongPostings
    <2>6. g.lists \in [1..Len(mk) -> LongPostings(n)]
      BY <2>4, <2>5
    <2>7. g.lists \in Seq(LongPostings(n))
      BY <2>4, <2>6, FunctionIsSeq
    <2> QED BY <2>1, <2>4, <2>7
  <1> HIDE DEF KP, LP, n
  <1>6. KP \in [1..7 -> Seq(Nat)] /\ LP \in [1..7 -> Seq(LongPostings(n))]
    BY <1>4, <1>5
  <1>7. EndToEnd(FlattenSeq(KP), Ends(KP), Nat, 7, KP)
    BY <1>6, FlatIs
  <1>8. EndToEnd(FlattenSeq(LP), Ends(LP), LongPostings(n), 7, LP)
    BY <1>6, FlatIs
  <1>9. all = FlattenSeq(LP)
    BY DEF Lists, LP
  <1>10. all \in Seq(LongPostings(n))
    BY <1>8, <1>9 DEF EndToEnd
  <1>11. OV = [i \in DOMAIN all |-> EncodeOverflow(all[i])]
    BY DEF Overflows
  <1> HIDE DEF all, OV
  <1>12. DOMAIN all = 1..Len(all) /\ Len(all) \in Nat
    BY <1>10
  <1>13. ASSUME NEW i \in 1..Len(all)
         PROVE  OV[i] = EncodeOverflow(all[i]) /\ OV[i] \in Seq(Nat) /\ Len(OV[i]) >= 1
    <2>1. all[i] \in LongPostings(n)
      BY <1>10, <1>12
    <2>2. IsPosting(all[i], n) /\ Len(all[i]) > 1
      BY <2>1 DEF LongPostings
    <2>3. OV[i] = EncodeOverflow(all[i])
      BY <1>11, <1>12
    <2>4. EncodeOverflow(all[i]) \in Seq(Nat) /\ Len(EncodeOverflow(all[i])) >= 1
      BY <1>2, <2>2, OverflowRead
    <2> QED BY <2>3, <2>4
  <1>14. OV \in [1..Len(all) -> Seq(Nat)]
    <2>1. OV = [i \in 1..Len(all) |-> OV[i]]
      BY <1>11, <1>12
    <2> QED BY <1>13, <2>1
  <1>15. EndToEnd(FlattenSeq(OV), Ends(OV), Nat, Len(all), OV)
    BY <1>12, <1>14, FlatIs
  <1>16. /\ EndToEnd(a.keys, Ends(KP), Nat, 7, KP)
         /\ EndToEnd(all, Ends(LP), LongPostings(n), 7, LP)
         /\ EndToEnd(a.postings, Ends(OV), Nat, Len(all), OV)
    BY <1>1, <1>7, <1>8, <1>9, <1>15
  <1> QED BY <1>6, <1>13, <1>14, <1>16 DEF Placed, KP, LP, all, OV, n

(* The numbers to n in their order.                                        *)
LEMMA NumbersInOrder ==
    ASSUME NEW n \in Nat, NEW S, S = 1..n, NEW R, \A i, j \in S : <<i, j>> \in R <=> i < j
    PROVE  InOrder(S, R) = [i \in 1..n |-> i]
  <1>1. PICK e \in [1..n -> S] : \A i \in 1..n : e[i] = i
    <2> WITNESS [i \in 1..n |-> i] \in [1..n -> S]
    <2> QED OBVIOUS
  <1>2. Orders(R, S)
    <2>1. \A i \in S : i \in Nat
      OBVIOUS
    <2> QED BY <2>1 DEF Orders
  <1>3. \A x \in S : \E i \in 1..n : e[i] = x
    BY <1>1
  <1>4. \A i, j \in 1..n : i < j => <<e[i], e[j]>> \in R
    BY <1>1
  <1>5. IsFiniteSet(S) /\ Cardinality(S) = n /\ InOrder(S, R) = e
    BY <1>2, <1>3, <1>4, OrderedOnce, ZenonT(30)
  <1>6. e = [i \in 1..n |-> i]
    BY <1>1
  <1> QED BY <1>5, <1>6

(* Spans that lie end to end cover.                                        *)
LEMMA SpansCover ==
    ASSUME NEW n \in Nat, NEW E \in [0..n -> Nat], E[0] = 0, \A i, j \in 0..n : i <= j => E[i] <= E[j],
           NEW spans, DOMAIN spans = 1..n, \A i \in 1..n : spans[i].from = E[i - 1] /\ spans[i].to = E[i]
    PROVE  Covers(spans, E[n])
  <1> DEFINE I == 1..n
             Before(s, t, i, j) ==
                s.from < t.from \/ (s.from = t.from /\ (s.to < t.to \/ (s.to = t.to /\ i < j)))
             R == {p \in I \X I : LET s == spans[p[1]] t == spans[p[2]]
                                  IN  s.from < t.from \/ (s.from = t.from /\ (s.to < t.to \/ (s.to = t.to /\ p[1] < p[2])))}
             e == [i \in 1..n |-> i]
  <1>1. \A i, j \in I : <<i, j>> \in R <=> Before(spans[i], spans[j], i, j)
    OBVIOUS
  <1>2. \A i \in I : i - 1 \in 0..n /\ i \in 0..n /\ i \in Nat
    OBVIOUS
  <1>3. \A i \in I : spans[i].from \in Nat /\ spans[i].to \in Nat
    BY <1>2
  <1>4. \A i, j \in I : Before(spans[i], spans[j], i, j) <=> i < j
    <2> TAKE i, j \in I
    <2>1. /\ i < j => E[i - 1] <= E[j - 1] /\ E[i] <= E[j]
          /\ j <= i => E[j - 1] <= E[i - 1] /\ E[j] <= E[i]
      <3>1. i < j => i <= j /\ i - 1 <= j - 1
        BY <1>2
      <3>2. j <= i => j - 1 <= i - 1
        BY <1>2
      <3> QED BY <1>2, <3>1, <3>2
    <2> DEFINE x == E[i - 1] y == E[j - 1] u == E[i] v == E[j]
    <2>2. x \in Nat /\ y \in Nat /\ u \in Nat /\ v \in Nat /\ i \in Nat /\ j \in Nat
      BY <1>2
    <2>3. spans[i].from = x /\ spans[j].from = y /\ spans[i].to = u /\ spans[j].to = v
      OBVIOUS
    <2> HIDE DEF x, y, u, v
    <2>4. x < y \/ (x = y /\ (u < v \/ (u = v /\ i < j))) <=> i < j
      <3>1. (i < j => x <= y /\ u <= v) /\ (j <= i => y <= x /\ v <= u)
        BY <2>1, Zenon DEF x, y, u, v
      <3> QED BY <2>2, <3>1
    <2> QED BY <2>3, <2>4
  <1> HIDE DEF R
  <1>4a. \A i, j \in I : <<i, j>> \in R <=> i < j
    <2> HIDE DEF Before
    <2> QED BY <1>1, <1>4, Zenon
  <1>6. \A i \in 1..n : e[i] = i
    OBVIOUS
  <1>9. InOrder(I, R) = e
    BY <1>4a, NumbersInOrder
  <1>10. Len(e) = n
    <2>1. DOMAIN e = 1..n
      OBVIOUS
    <2> QED BY <2>1, LenDomain
  <1> HIDE DEF e, I
  <1> DEFINE end(i) == IF i = 0 THEN 0 ELSE spans[e[i]].to
  <1>11. \A i \in 0..n : end(i) = E[i]
    BY <1>6
  <1>12. \A i \in 1..n : spans[e[i]].from = end(i - 1)
    <2> TAKE i \in 1..n
    <2>1. i - 1 \in 0..n
      OBVIOUS
    <2>2. end(i - 1) = E[i - 1]
      BY <1>11, <2>1
    <2>3. spans[e[i]].from = E[i - 1]
      BY <1>6
    <2> QED BY <2>2, <2>3
  <1>13. end(n) = E[n]
    BY <1>11
  <1>14. Covers(spans, E[n]) <=> /\ \A i \in 1..Len(e) : spans[e[i]].from = end(i - 1)
                                 /\ end(Len(e)) = E[n]
    <2>1. DOMAIN spans = I
      BY DEF I
    <2> DEFINE J == DOMAIN spans
               earlier == {p \in J \X J :
                      LET s == spans[p[1]] t == spans[p[2]]
                      IN  s.from < t.from \/ (s.from = t.from /\ (s.to < t.to \/ (s.to = t.to /\ p[1] < p[2])))}
               order == InOrder(J, earlier)
               endo(i) == IF i = 0 THEN 0 ELSE spans[order[i]].to
    <2>2. earlier = R
      BY <2>1 DEF R
    <2>3. order = e
      <3> HIDE DEF earlier
      <3> QED BY <1>9, <2>1, <2>2
    <2>4. Covers(spans, E[n]) <=> /\ \A i \in 1..Len(order) : spans[order[i]].from = endo(i - 1)
                                  /\ endo(Len(order)) = E[n]
      BY DEF Covers
    <2> HIDE DEF order
    <2> QED BY <2>3, <2>4
  <1> HIDE DEF end
  <1> QED BY <1>10, <1>12, <1>13, <1>14

(* A directory entry of a saved file.                                      *)
EntryPlaced(a, rels, profile, k, sk, mk) ==
    LET e == a.dir[k]
    IN  /\ e.kind = k /\ e.width \in Widths
        /\ KeyLen(e) = KeyFieldCount[k] * e.width /\ KeyLen(e) \in Nat \ {0}
        /\ Len(sk) \in Nat /\ Len(mk) \in Nat
        /\ SingleCount(e) = Len(sk) /\ e.rangeCount = Len(mk) /\ e.keyCount = Len(sk) + Len(mk)
        /\ e.keyStart = Ends(KeyParts(rels, profile))[k - 1]
        /\ KeySpan(e).from = Ends(KeyParts(rels, profile))[k - 1]
        /\ KeySpan(e).to = Ends(KeyParts(rels, profile))[k]
        /\ e.rangeStart = Ends(ListParts(rels, profile))[k - 1]
        /\ RangeSpan(e).from = Ends(ListParts(rels, profile))[k - 1]
        /\ RangeSpan(e).to = Ends(ListParts(rels, profile))[k]
        /\ ListParts(rels, profile)[k] = [i \in 1..Len(mk) |-> Posting(RowsOf(rels), k, mk[i])]
        /\ KeyParts(rels, profile)[k] = <<>> => e.keyCount = 0
        /\ GroupLaid(GroupsOf(rels, profile)[k], RowsOf(rels), k, sk, mk, KeyLen(e))
        /\ GroupsOf(rels, profile)[k].width = e.width

(* The directory says where each group is.                                 *)
LEMMA EntriesPlaced ==
    ASSUME NEW a, NEW rels, NEW profile, NEW width, IsFile(a, rels, profile, width), NEW k \in Kinds
    PROVE  EntryPlaced(a, rels, profile, k, SinglesIn(rels, k, profile), MultisIn(rels, k, profile))
  <1> DEFINE KP == KeyParts(rels, profile) LP == ListParts(rels, profile)
             g == GroupsOf(rels, profile)[k] e == a.dir[k]
             sk == SinglesIn(rels, k, profile) mk == MultisIn(rels, k, profile)
             L == KeyFieldCount[k] * g.width
  <1>1. EntryIs(a, rels, profile, k)
    BY FileFields
  <1>2. /\ e.kind = k /\ e.width = g.width /\ e.keyCount = g.keyCount
        /\ e.keyStart = Ends(KP)[k - 1] /\ e.rangeStart = Ends(LP)[k - 1]
        /\ e.rangeCount = Len(LP[k])
    BY <1>1 DEF EntryIs
  <1>3. Savable(rels)
    BY DEF IsFile
  <1>4. g = Group(RowsOf(rels), k, profile)
    BY DEF GroupsOf
  <1>5. GroupLaid(g, RowsOf(rels), k, sk, mk, L)
    BY <1>3, <1>4, GroupIs
  <1>6. KP[k] = g.keys /\ LP[k] = g.lists
    BY DEF KeyParts, ListParts
  <1>7. Placed(a, rels, profile)
    BY PartsPlaced
  <1>8. k \in 1..7 /\ k - 1 \in 0..7 /\ k \in 0..7
    BY DEF Kinds
  <1>9. /\ Ends(KP)[k] = Ends(KP)[k - 1] + Len(KP[k]) /\ Ends(KP) \in [0..7 -> Nat]
        /\ Ends(LP)[k] = Ends(LP)[k - 1] + Len(LP[k]) /\ Ends(LP) \in [0..7 -> Nat]
    BY <1>7, <1>8 DEF Placed, EndToEnd
  <1> HIDE DEF KP, LP, g, e, sk, mk
  <1>10. /\ g.width \in Widths /\ Len(sk) \in Nat /\ Len(mk) \in Nat /\ g.keyCount = Len(sk) + Len(mk)
         /\ g.lists = [i \in 1..Len(mk) |-> Posting(RowsOf(rels), k, mk[i])]
         /\ g.keys \in Seq(Nat)
         /\ Len(g.keys) = Len(sk) * (L + RowIdWidth) + Len(mk) * L
    BY <1>5 DEF GroupLaid
  <1>11. L \in Nat \ {0}
    <2>1. KeyFieldCount[k] \in {1, 2, 3}
      BY DEF Kinds, KeyFieldCount
    <2> QED BY <1>10, <2>1 DEF Widths
  <1>12. KeyLen(e) = L
    BY <1>2 DEF KeyLen
  <1> HIDE DEF L
  <1>13. Len(LP[k]) = Len(mk)
    <2>1. DOMAIN g.lists = 1..Len(mk)
      BY <1>10
    <2> QED BY <1>6, <1>10, <2>1, LenDomain
  <1>14. SingleCount(e) = Len(sk) /\ e.rangeCount = Len(mk) /\ e.keyCount = Len(sk) + Len(mk)
    <2>1. \A x, y \in Nat : (x + y) - y = x
      OBVIOUS
    <2>2. SingleCount(e) = (Len(sk) + Len(mk)) - Len(mk)
      BY <1>2, <1>10, <1>13 DEF SingleCount
    <2> QED BY <1>2, <1>10, <1>13, <2>1, <2>2
  <1>15. KeySpan(e).from = Ends(KP)[k - 1] /\ KeySpan(e).to = Ends(KP)[k]
    <2>1. KeySpan(e).from = e.keyStart
      BY DEF KeySpan, Span
    <2>2. KeySpan(e).to = e.keyStart + (SingleCount(e) * (KeyLen(e) + RowIdWidth) + e.rangeCount * KeyLen(e))
      BY DEF KeySpan, Span
    <2>3. KeySpan(e).to = e.keyStart + Len(g.keys)
      BY <1>10, <1>12, <1>14, <2>2
    <2> QED BY <1>2, <1>6, <1>9, <2>1, <2>3
  <1>16. RangeSpan(e).from = Ends(LP)[k - 1] /\ RangeSpan(e).to = Ends(LP)[k]
    <2>1. RangeSpan(e).from = e.rangeStart /\ RangeSpan(e).to = e.rangeStart + e.rangeCount
      BY DEF RangeSpan, Span
    <2> QED BY <1>2, <1>9, <2>1
  <1>17. KP[k] = <<>> => e.keyCount = 0
    <2> HAVE KP[k] = <<>>
    <2> DEFINE s == Len(sk) t == Len(mk) r == RowIdWidth
    <2>1. Len(g.keys) = 0
      BY <1>6
    <2>2. s * (L + r) + t * L = 0
      BY <1>10, <2>1
    <2>3. s \in Nat /\ t \in Nat /\ r \in Nat
      BY <1>10 DEF RowIdWidth
    <2> HIDE DEF s, t, r
    <2>4. \A x, y \in Nat : y # 0 => (x * y \in Nat /\ (x * y = 0 => x = 0))
      OBVIOUS
    <2> DEFINE x == s * (L + r) y == t * L
    <2>5. L + r \in Nat /\ L + r # 0
      BY <1>11, <2>3
    <2>6. x \in Nat /\ y \in Nat /\ (x = 0 => s = 0) /\ (y = 0 => t = 0)
      BY <1>11, <2>3, <2>4, <2>5
    <2>7. x + y = 0
      BY <2>2
    <2> HIDE DEF x, y
    <2>8. s = 0 /\ t = 0
      BY <2>6, <2>7
    <2>9. e.keyCount = s + t
      BY <1>14 DEF s, t
    <2> QED BY <2>8, <2>9
  <1>18. GroupLaid(g, RowsOf(rels), k, sk, mk, KeyLen(e))
    BY <1>5, <1>12
  <1>19. KeyLen(e) = KeyFieldCount[k] * e.width
    BY <1>2 DEF KeyLen
  <1>20. LP[k] = [i \in 1..Len(mk) |-> Posting(RowsOf(rels), k, mk[i])]
    BY <1>6, <1>10
  <1>21. e.kind = k /\ e.width \in Widths /\ KeyLen(e) \in Nat \ {0}
    BY <1>2, <1>10, <1>11, <1>12
  <1> QED BY <1>2, <1>10, <1>14, <1>15, <1>16, <1>17, <1>18, <1>19, <1>20, <1>21
          DEF EntryPlaced, KP, LP, g, e, sk, mk

(* An element of a sequence.                                               *)
LEMMA ElementOf ==
    ASSUME NEW T, NEW s \in Seq(T), NEW i \in DOMAIN s
    PROVE  s[i] \in T
  OBVIOUS

(* The directory of a saved file is accepted.                              *)
LEMMA DirectoryAccepted ==
    ASSUME NEW a, NEW rels, NEW profile, NEW width, IsFile(a, rels, profile, width)
    PROVE  DirectoryOK(a)
  <1>1. \A k \in Kinds : a.dir[k].kind = k /\ a.dir[k].width \in Widths
    <2> TAKE k \in Kinds
    <2>1. EntryPlaced(a, rels, profile, k, SinglesIn(rels, k, profile), MultisIn(rels, k, profile))
      BY EntriesPlaced
    <2> QED BY <2>1 DEF EntryPlaced
  <1> QED BY <1>1 DEF DirectoryOK

(* A saved file has one range for each posting of several rows.            *)
LEMMA RangesAre ==
    ASSUME NEW a, NEW rels, NEW profile, NEW width, IsFile(a, rels, profile, width)
    PROVE  LET m == Len(Lists(rels, profile))
           IN  /\ m \in Nat /\ DOMAIN a.ranges = 1..m /\ Len(a.ranges) = m
               /\ m = Ends(ListParts(rels, profile))[7]
               /\ \A i \in 1..m : Lists(rels, profile)[i] \in LongPostings(Len(rels))
  <1> DEFINE all == Lists(rels, profile) m == Len(all)
  <1>1. Placed(a, rels, profile) /\ FieldsAre(a, rels, profile)
    BY PartsPlaced, FileFields
  <1>2. all \in Seq(LongPostings(Len(rels))) /\ Len(all) = Ends(ListParts(rels, profile))[7]
    BY <1>1 DEF Placed, EndToEnd
  <1>3. DOMAIN a.ranges = DOMAIN all
    BY <1>1 DEF FieldsAre
  <1> HIDE DEF all
  <1>4. m \in Nat /\ DOMAIN all = 1..m /\ \A i \in 1..m : all[i] \in LongPostings(Len(rels))
    BY <1>2
  <1>5. Len(a.ranges) = m
    BY <1>3, <1>4, LenDomain
  <1> QED BY <1>2, <1>3, <1>4, <1>5 DEF all

(* The overflows of a saved file cover its posting section.                *)
LEMMA PostingSpansAccepted ==
    ASSUME NEW a, NEW rels, NEW profile, NEW width, IsFile(a, rels, profile, width)
    PROVE  PostingSpansOK(a)
  <1> DEFINE all == Lists(rels, profile) m == Len(all) OV == Overflows(rels, profile) E == Ends(OV)
             n == Len(rels)
             span(i) == Span(a.ranges[i].start, a.ranges[i].len)
             I == {j \in DOMAIN a.ranges : a.ranges[j].len > 0}
             spans == [i \in I |-> span(i)]
  <1>1. /\ m \in Nat /\ DOMAIN a.ranges = 1..m /\ Len(a.ranges) = m
        /\ m = Ends(ListParts(rels, profile))[7]
        /\ \A i \in 1..m : all[i] \in LongPostings(n)
    BY RangesAre
  <1>2. Placed(a, rels, profile)
    BY PartsPlaced
  <1>3. /\ EndToEnd(a.postings, E, Nat, m, OV) /\ OV \in [1..m -> Seq(Nat)]
        /\ \A i \in 1..m : Len(OV[i]) >= 1
    BY <1>2 DEF Placed
  <1>4. /\ Len(a.postings) = E[m] /\ E \in [0..m -> Nat] /\ E[0] = 0
        /\ \A i \in 1..m : E[i] = E[i - 1] + Len(OV[i])
        /\ \A i, j \in 0..m : i <= j => E[i] <= E[j]
    BY <1>3 DEF EndToEnd
  <1>5. \A i \in 1..m : RangeIs(a, rels, profile, i)
    BY <1>1, FileFields
  <1>6. \A i \in 1..m : /\ a.ranges[i].first = all[i][1] /\ a.ranges[i].start = E[i - 1]
                        /\ a.ranges[i].len = Len(OV[i])
    BY <1>5 DEF RangeIs
  <1>7. a.rowCount = n /\ n \in Nat
    <2>1. Savable(rels) /\ a.rowCount = n
      BY DEF IsFile
    <2> QED BY <2>1, RowsOfAre
  <1> HIDE DEF all, m, OV, E, n
  <1>8. I = 1..m
    <2>1. \A i \in 1..m : Len(OV[i]) \in Nat
      BY <1>3
    <2>2. \A i \in 1..m : a.ranges[i].len > 0
      BY <1>3, <1>6, <2>1
    <2> QED BY <1>1, <2>2
  <1>9. \A i \in 1..m : span(i).from = E[i - 1] /\ span(i).to = E[i]
    <2> TAKE i \in 1..m
    <2>1. span(i).from = a.ranges[i].start /\ span(i).to = a.ranges[i].start + a.ranges[i].len
      BY DEF Span
    <2> QED BY <1>4, <1>6, <2>1
  <1>10. Covers(spans, E[m])
    <2>1. DOMAIN spans = 1..m /\ \A i \in 1..m : spans[i].from = E[i - 1] /\ spans[i].to = E[i]
      BY <1>8, <1>9
    <2> HIDE DEF spans
    <2> QED BY <1>1, <1>4, <2>1, SpansCover
  <1>11. ASSUME NEW i \in DOMAIN a.ranges
         PROVE  a.ranges[i].first \in 1..a.rowCount /\ span(i).to <= Len(a.postings)
    <2>1. i \in 1..m
      BY <1>1
    <2>2. all[i] \in LongPostings(n)
      BY <1>1, <2>1
    <2> DEFINE q == all[i]
    <2>3. q \in Seq(1..n) /\ Len(q) > 1
      BY <2>2 DEF LongPostings
    <2> HIDE DEF q
    <2>4. q[1] \in 1..n
      <3>1. 1 \in DOMAIN q
        BY <2>3
      <3> QED BY <2>3, <3>1, ElementOf
    <2>5. a.ranges[i].first \in 1..a.rowCount
      BY <1>6, <1>7, <2>1, <2>4 DEF q
    <2>6. i \in 0..m /\ m \in 0..m /\ i <= m
      BY <1>1, <2>1
    <2>7. E[i] <= E[m]
      BY <1>4, <2>6
    <2>8. span(i).to = E[i]
      BY <1>9, <2>1
    <2> HIDE DEF span
    <2> QED BY <1>4, <2>5, <2>7, <2>8
  <1> HIDE DEF spans
  <1>12. Covers(spans, Len(a.postings))
    BY <1>4, <1>10
  <1> QED BY <1>11, <1>12 DEF PostingSpansOK, spans, I

(* The sum of counts that are all 0.                                       *)
LEMMA NothingCounted ==
    ASSUME NEW numbers, DOMAIN numbers = 1..7, \A i \in 1..7 : numbers[i] = 0
    PROVE  Total(numbers) = 0
  <1>1. /\ Sums(numbers)[0] = 0 /\ Total(numbers) = Sums(numbers)[7]
        /\ \A i \in 1..7 : Sums(numbers)[i] = Sums(numbers)[i - 1] + numbers[i]
    <2>1. 7 \in Nat /\ \A i \in 1..7 : numbers[i] \in Nat
      OBVIOUS
    <2> QED BY <2>1, SumsAre
  <1>2. \A i \in 1..7 : Sums(numbers)[i - 1] = 0 => Sums(numbers)[i] = 0
    BY <1>1
  <1> DEFINE S(i) == Sums(numbers)[i]
  <1>3. \A i \in 1..7 : S(i - 1) = 0 => S(i) = 0
    BY <1>2
  <1>4. S(0) = 0
    BY <1>1
  <1> HIDE DEF S
  <1>5. S(1) = 0
    BY <1>3, <1>4
  <1>6. S(2) = 0
    BY <1>3, <1>5
  <1>7. S(3) = 0
    BY <1>3, <1>6
  <1>8. S(4) = 0
    BY <1>3, <1>7
  <1>9. S(5) = 0
    BY <1>3, <1>8
  <1>10. S(6) = 0
    BY <1>3, <1>9
  <1>11. S(7) = 0
    BY <1>3, <1>10
  <1> QED BY <1>1, <1>11 DEF S

(* The sections of a saved file are covered, and its counts agree.         *)
LEMMA LayoutAccepted ==
    ASSUME NEW a, NEW rels, NEW profile, NEW width, IsFile(a, rels, profile, width)
    PROVE  LayoutOK(a) /\ (a.keys = <<>> => a.keyCount = 0)
  <1> DEFINE KP == KeyParts(rels, profile) LP == ListParts(rels, profile) EK == Ends(KP) EL == Ends(LP)
             sk(k) == SinglesIn(rels, k, profile) mk(k) == MultisIn(rels, k, profile)
  <1>1. \A k \in Kinds : EntryPlaced(a, rels, profile, k, sk(k), mk(k))
    BY EntriesPlaced
  <1>2. Placed(a, rels, profile) /\ FieldsAre(a, rels, profile)
    BY PartsPlaced, FileFields
  <1>3. /\ Len(a.keys) = EK[7] /\ EK \in [0..7 -> Nat] /\ EK[0] = 0
        /\ \A i, j \in 0..7 : i <= j => EK[i] <= EK[j]
        /\ \A i \in 1..7 : EK[i] = EK[i - 1] + Len(KP[i])
    BY <1>2 DEF Placed, EndToEnd
  <1>4. /\ Len(a.ranges) = EL[7] /\ EL \in [0..7 -> Nat] /\ EL[0] = 0
        /\ \A i, j \in 0..7 : i <= j => EL[i] <= EL[j]
    <2>1. Len(a.ranges) = EL[7]
      BY RangesAre
    <2>2. /\ EL \in [0..7 -> Nat] /\ EL[0] = 0
          /\ \A i, j \in 0..7 : i <= j => EL[i] <= EL[j]
      BY <1>2 DEF Placed, EndToEnd
    <2> QED BY <2>1, <2>2
  <1>5. KP \in [1..7 -> Seq(Nat)] /\ DOMAIN LP = 1..7
    BY <1>2 DEF Placed
  <1>6. Kinds = 1..7
    BY DEF Kinds
  <1>7. a.keyCount = Total([k \in Kinds |-> GroupsOf(rels, profile)[k].keyCount])
    BY <1>2 DEF FieldsAre
  <1>8. PostingSpansOK(a)
    BY PostingSpansAccepted
  <1>9. ASSUME NEW k \in Kinds
        PROVE  /\ a.dir[k].rangeCount <= a.dir[k].keyCount
               /\ a.dir[k].rangeCount = Len(LP[k])
               /\ a.dir[k].keyCount = GroupsOf(rels, profile)[k].keyCount /\ a.dir[k].keyCount \in Nat
               /\ KeySpan(a.dir[k]).from = EK[k - 1] /\ KeySpan(a.dir[k]).to = EK[k]
               /\ RangeSpan(a.dir[k]).from = EL[k - 1] /\ RangeSpan(a.dir[k]).to = EL[k]
               /\ KP[k] = <<>> => a.dir[k].keyCount = 0
    <2> DEFINE e == a.dir[k] s == Len(sk(k)) t == Len(mk(k))
    <2>1. EntryPlaced(a, rels, profile, k, sk(k), mk(k))
      BY <1>1
    <2>2. /\ s \in Nat /\ t \in Nat /\ e.rangeCount = t /\ e.keyCount = s + t
          /\ KeySpan(e).from = EK[k - 1] /\ KeySpan(e).to = EK[k]
          /\ RangeSpan(e).from = EL[k - 1] /\ RangeSpan(e).to = EL[k]
          /\ KP[k] = <<>> => e.keyCount = 0
      BY <2>1 DEF EntryPlaced
    <2>3. EntryIs(a, rels, profile, k)
      BY FileFields
    <2>4. e.rangeCount = Len(LP[k]) /\ e.keyCount = GroupsOf(rels, profile)[k].keyCount
      BY <2>3 DEF EntryIs
    <2> HIDE DEF s, t, e, sk, mk, KP, LP, EK, EL
    <2>5. e.rangeCount <= e.keyCount /\ e.keyCount \in Nat
      BY <2>2
    <2> QED BY <2>2, <2>4, <2>5 DEF e
  <1>10. EL = Sums([i \in DOMAIN LP |-> Len(LP[i])])
    BY DEF Ends
  <1> HIDE DEF KP, LP, EK, EL
  <1>11. \A k \in Kinds : KeySpan(a.dir[k]).to <= Len(a.keys) /\ RangeSpan(a.dir[k]).to <= Len(a.ranges)
    <2> TAKE k \in Kinds
    <2>1. k \in 0..7 /\ 7 \in 0..7 /\ k <= 7
      BY <1>6
    <2>2. EK[k] <= EK[7] /\ EL[k] <= EL[7]
      BY <1>3, <1>4, <2>1
    <2> QED BY <1>3, <1>4, <1>9, <2>2
  <1>12. Total([i \in Kinds |-> a.dir[i].keyCount]) = a.keyCount
    <2>1. [i \in Kinds |-> a.dir[i].keyCount] = [k \in Kinds |-> GroupsOf(rels, profile)[k].keyCount]
      BY <1>9
    <2> QED BY <1>7, <2>1
  <1>13. Total([i \in Kinds |-> a.dir[i].rangeCount]) = Len(a.ranges)
    <2> DEFINE f == [i \in Kinds |-> a.dir[i].rangeCount]
    <2>1. f = [i \in DOMAIN LP |-> Len(LP[i])]
      BY <1>5, <1>6, <1>9
    <2>2. DOMAIN f = 1..7
      BY <1>6
    <2> HIDE DEF f
    <2>3. Len(f) = 7
      BY <2>2, LenDomain
    <2>4. Total(f) = EL[7]
      BY <1>10, <2>1, <2>3 DEF Total
    <2> QED BY <1>4, <2>4 DEF f
  <1>14. Covers([i \in Kinds |-> KeySpan(a.dir[i])], Len(a.keys))
    <2> DEFINE spans == [i \in Kinds |-> KeySpan(a.dir[i])]
    <2>1. DOMAIN spans = 1..7 /\ \A i \in 1..7 : spans[i].from = EK[i - 1] /\ spans[i].to = EK[i]
      BY <1>6, <1>9
    <2> HIDE DEF spans
    <2>2. Covers(spans, EK[7])
      BY <1>3, <2>1, SpansCover
    <2> QED BY <1>3, <2>2 DEF spans
  <1>15. Covers([i \in Kinds |-> RangeSpan(a.dir[i])], Len(a.ranges))
    <2> DEFINE spans == [i \in Kinds |-> RangeSpan(a.dir[i])]
    <2>1. DOMAIN spans = 1..7 /\ \A i \in 1..7 : spans[i].from = EL[i - 1] /\ spans[i].to = EL[i]
      BY <1>6, <1>9
    <2> HIDE DEF spans
    <2>2. Covers(spans, EL[7])
      BY <1>4, <2>1, SpansCover
    <2> QED BY <1>4, <2>2 DEF spans
  <1>16. LayoutOK(a)
    BY <1>8, <1>9, <1>11, <1>12, <1>13, <1>14, <1>15 DEF LayoutOK
  <1>17. a.keys = <<>> => a.keyCount = 0
    <2> HAVE a.keys = <<>>
    <2>1. EK[7] = 0
      BY <1>3
    <2>2. ASSUME NEW k \in 1..7 PROVE KP[k] = <<>>
      <3>1. k \in 0..7 /\ k - 1 \in 0..7 /\ 7 \in 0..7 /\ k <= 7
        OBVIOUS
      <3>2. EK[k] <= EK[7] /\ EK[k] = EK[k - 1] + Len(KP[k]) /\ EK[k] \in Nat /\ EK[k - 1] \in Nat
        BY <1>3, <3>1
      <3> DEFINE q == KP[k]
      <3>3. q \in Seq(Nat)
        BY <1>5
      <3>4. EK[k] = EK[k - 1] + Len(q)
        BY <3>2
      <3> HIDE DEF q
      <3>5. Len(q) \in Nat
        BY <3>3
      <3>6. Len(q) = 0
        BY <2>1, <3>2, <3>4, <3>5
      <3>7. q = <<>>
        BY <3>3, <3>6
      <3> QED BY <3>7 DEF q
    <2> DEFINE f == [i \in Kinds |-> a.dir[i].keyCount]
    <2>3. DOMAIN f = 1..7 /\ \A i \in 1..7 : f[i] = 0
      BY <1>6, <1>9, <2>2
    <2> HIDE DEF f
    <2>4. Total(f) = 0
      BY <2>3, NothingCounted
    <2> QED BY <1>12, <2>4 DEF f
  <1> QED BY <1>16, <1>17

(* A posting is read from its first row id and its overflow.               *)
LEMMA PostingRead ==
    ASSUME NEW a, NEW n \in Nat, n < Limit, a.rowCount = n, NEW ids, IsPosting(ids, n),
           NEW r, r.first = ids[1], PostingBytes(a, r) = EncodeOverflow(ids)
    PROVE  DecodePosting(a, r) = ids
  <1> DEFINE bytes == EncodeOverflow(ids) deltas == Deltas(bytes)
  <1>1. /\ EncodeOverflow(ids) \in Seq(Nat) /\ (Len(ids) > 1 => Len(EncodeOverflow(ids)) >= 1)
        /\ DeltasOK(EncodeOverflow(ids))
        /\ Len(Deltas(EncodeOverflow(ids))) = Len(ids) - 1
        /\ ids = [i \in 1..Len(ids) |-> ids[1] + Sums(Deltas(EncodeOverflow(ids)))[i - 1]]
    BY OverflowRead
  <1>2. DeltasOK(bytes) /\ Len(deltas) = Len(ids) - 1 /\ ids = [i \in 1..Len(ids) |-> ids[1] + Sums(deltas)[i - 1]]
    BY <1>1
  <1>3. ids \in Seq(1..n) /\ Len(ids) \in Nat /\ DOMAIN ids = 1..Len(ids)
    BY DEF IsPosting
  <1>4. PostingIds(a, r) = [i \in 1..(Len(deltas) + 1) |-> r.first + Sums(deltas)[i - 1]]
    BY DEF PostingIds
  <1> HIDE DEF bytes, deltas
  <1>5. Len(deltas) + 1 = Len(ids)
    BY <1>2, <1>3
  <1>6. PostingIds(a, r) = ids
    BY <1>2, <1>4, <1>5
  <1>7. ToSet(ids) \subseteq 1..n
    <2>1. \A i \in DOMAIN ids : ids[i] \in 1..n
      BY <1>3, ElementOf
    <2> QED BY <2>1 DEF ToSet
  <1>8. DeltasOK(PostingBytes(a, r))
    BY <1>2 DEF bytes
  <1> QED BY <1>6, <1>7, <1>8 DEF DecodePosting

(* One row id has no overflow.                                             *)
LEMMA SingleRead ==
    ASSUME NEW a, NEW n \in Nat, n < Limit, a.rowCount = n, a.postings \in Seq(Nat),
           NEW ids, IsPosting(ids, n), Len(ids) = 1
    PROVE  DecodePosting(a, [first |-> ids[1], start |-> 0, len |-> 0]) = ids
  <1> DEFINE r == [first |-> ids[1], start |-> 0, len |-> 0]
             none == [i \in 1..0 |-> Varint(ids[i + 1] - ids[i])]
  <1>1. EncodeOverflow(ids) = FlattenSeq(none)
    <2>1. Len(ids) - 1 = 0
      OBVIOUS
    <2> QED BY <2>1 DEF EncodeOverflow
  <1>2. none \in [1..0 -> Seq(Nat)]
    OBVIOUS
  <1> HIDE DEF none
  <1>3. EndToEnd(FlattenSeq(none), Ends(none), Nat, 0, none)
    BY <1>2, FlatIs
  <1>4. FlattenSeq(none) \in Seq(Nat) /\ Len(FlattenSeq(none)) = 0
    BY <1>3 DEF EndToEnd
  <1>5. FlattenSeq(none) = <<>>
    BY <1>4
  <1>6. PostingBytes(a, r) = SubSeq(a.postings, 1, 0)
    BY DEF PostingBytes
  <1>7. SubSeq(a.postings, 1, 0) = <<>>
    OBVIOUS
  <1>8. r.first = ids[1]
    OBVIOUS
  <1> HIDE DEF r
  <1>9. DecodePosting(a, r) = ids
    BY <1>1, <1>5, <1>6, <1>7, <1>8, PostingRead
  <1> QED BY <1>9 DEF r

(* The entry of a kind is found at its own place.                          *)
LEMMA EntryIsOwn ==
    ASSUME NEW a, \A k \in Kinds : a.dir[k].kind = k, NEW kind \in Kinds
    PROVE  Entry(a, kind) = a.dir[kind]
  <1>1. \E i \in Kinds : a.dir[i].kind = kind
    OBVIOUS
  <1>2. (CHOOSE i \in Kinds : a.dir[i].kind = kind) = kind
    BY <1>1
  <1> QED BY <1>2 DEF Entry

(* The entries of a saved file's index of one kind.                        *)
EntryList(rels, kind, keys) == [i \in 1..Len(keys) |-> [key |-> keys[i], ids |-> Posting(RowsOf(rels), kind, keys[i])]]

(* The keys with one row are read as they were written.                    *)
LEMMA SinglesRead ==
    ASSUME NEW a, NEW rels, NEW profile, NEW width, IsFile(a, rels, profile, width), NEW k \in Kinds
    PROVE  Singles(a, a.dir[k]) = EntryList(rels, k, SinglesIn(rels, k, profile))
  <1> DEFINE KP == KeyParts(rels, profile) e == a.dir[k] n == Len(rels) c == Len(Symbols(rels))
             sk == SinglesIn(rels, k, profile) mk == MultisIn(rels, k, profile)
             K == KeysOf(rels, k, profile) rows == RowsOf(rels) g == GroupsOf(rels, profile)[k]
             L == KeyLen(e) r == RowIdWidth
             at(i) == e.keyStart + (i - 1) * (L + r)
             id(i) == Value(SubSeq(a.keys, at(i) + L + 1, at(i) + L + r))
             entry(i) == [key |-> DecodeKey(e, SubSeq(a.keys, at(i) + 1, at(i) + L)),
                          ids |-> DecodePosting(a, [first |-> id(i), start |-> 0, len |-> 0])]
  <1>1. EntryPlaced(a, rels, profile, k, sk, mk)
    BY EntriesPlaced
  <1>2. Placed(a, rels, profile)
    BY PartsPlaced
  <1>3. /\ Savable(rels) /\ a.rowCount = n
    BY DEF IsFile
  <1>4. n \in Nat /\ n < Limit /\ c \in Nat
    BY <1>3, RowsOfAre DEF Savable
  <1>5. g = Group(rows, k, profile) /\ KP[k] = g.keys
    BY DEF GroupsOf, KeyParts
  <1>6. KeysGood(rels, k, K, g.width)
    BY <1>3, <1>5, GroupIs
  <1>7. SplitKeys(rows, k, K, sk, mk)
    BY <1>3, GroupKeysGood
  <1>8. /\ e.kind = k /\ e.width \in Widths /\ g.width = e.width
        /\ L = KeyFieldCount[k] * e.width /\ L \in Nat \ {0}
        /\ Len(sk) \in Nat /\ SingleCount(e) = Len(sk)
        /\ e.keyStart = Ends(KP)[k - 1] /\ GroupLaid(g, rows, k, sk, mk, L)
    BY <1>1 DEF EntryPlaced
  <1>9. HoldsAt(a.keys, e.keyStart, KP[k])
    <2>1. k \in 1..7
      BY DEF Kinds
    <2>2. HoldsAt(a.keys, Ends(KP)[k - 1], KP[k])
      BY <1>2, <2>1, FlatHolds DEF Placed
    <2> QED BY <1>8, <2>2
  <1>10. a.postings \in Seq(Nat)
    BY <1>2 DEF Placed, EndToEnd
  <1>11. Singles(a, e) = [i \in 1..Len(sk) |-> entry(i)]
    BY <1>8 DEF Singles
  <1>12. r \in Nat /\ r = 4
    BY DEF RowIdWidth
  <1> HIDE DEF KP, e, n, c, sk, mk, K, rows, g, L, r
  <1>13. ASSUME NEW i \in 1..Len(sk)
         PROVE  entry(i) = [key |-> sk[i], ids |-> Posting(rows, k, sk[i])]
    <2> DEFINE q == Posting(rows, k, sk[i]) x == (i - 1) * (L + r) key == EncodeKey(k, e.width, sk[i])
               bytes == Bytes(q[1], r)
    <2>1. HoldsAt(g.keys, x, EncodeKey(k, g.width, sk[i])) /\ HoldsAt(g.keys, x + L, bytes)
      BY <1>8 DEF GroupLaid, r
    <2>2. HoldsAt(KP[k], x, key) /\ HoldsAt(KP[k], x + L, bytes)
      BY <1>5, <1>8, <2>1
    <2>3. HoldsAt(a.keys, e.keyStart + x, key)
      BY <1>9, <2>2, HoldsWithin
    <2>4. HoldsAt(a.keys, e.keyStart + (x + L), bytes)
      BY <1>9, <2>2, HoldsWithin
    <2>5. sk[i] \in K /\ Len(q) = 1
      BY <1>7 DEF SplitKeys
    <2>6. KeyOfKind(sk[i], k, c) /\ IsPosting(q, n) /\ \A f \in 1..3 : sk[i][f] < Power(ByteBase, e.width)
      BY <1>6, <1>8, <2>5 DEF KeysGood, c, rows, n
    <2>7. Len(key) = L /\ DecodeKey(e, key) = sk[i]
      BY <1>4, <1>8, <2>6, KeyRead
    <2>8. q[1] \in 1..n
      <3>1. q \in Seq(1..n)
        BY <2>6 DEF IsPosting
      <3> HIDE DEF q
      <3>2. 1 \in DOMAIN q
        BY <2>5, <3>1
      <3> QED BY <3>1, <3>2, ElementOf
    <2>9. q[1] \in Nat /\ q[1] < Limit
      <3> DEFINE z == q[1]
      <3>1. z \in 1..n
        BY <2>8
      <3>2. Limit \in Nat
        BY VarintLenIs
      <3> HIDE DEF z
      <3>3. z \in Nat /\ z < Limit
        BY <1>4, <3>1, <3>2
      <3> QED BY <3>3 DEF z
    <2>10. Limit = Power(ByteBase, r)
      BY <1>12 DEF Limit
    <2>11. Len(bytes) = r /\ Value(bytes) = q[1]
      BY <1>12, <2>9, <2>10, BytesRead
    <2>12. at(i) = e.keyStart + x
      OBVIOUS
    <2>13. e.keyStart + (x + L) = at(i) + L
      <3>1. x \in Nat
        BY <2>1 DEF HoldsAt
      <3>2. e.keyStart \in Nat
        BY <1>9 DEF HoldsAt
      <3> HIDE DEF x
      <3> QED BY <1>8, <2>12, <3>1, <3>2
    <2> HIDE DEF q, x, key, bytes, at
    <2>14. SubSeq(a.keys, at(i) + 1, at(i) + L) = key
      BY <2>3, <2>7, <2>12, HoldsRead
    <2>15. SubSeq(a.keys, at(i) + L + 1, at(i) + L + r) = bytes
      <3>1. HoldsAt(a.keys, at(i) + L, bytes)
        BY <2>4, <2>13
      <3> QED BY <2>11, <3>1, HoldsRead
    <2>16. id(i) = q[1]
      BY <2>11, <2>15
    <2>17. DecodePosting(a, [first |-> q[1], start |-> 0, len |-> 0]) = q
      BY <1>3, <1>4, <1>10, <2>5, <2>6, SingleRead DEF q
    <2> HIDE DEF id
    <2> QED BY <2>7, <2>14, <2>16, <2>17 DEF q
  <1> HIDE DEF entry
  <1>14. Singles(a, e) = [i \in 1..Len(sk) |-> [key |-> sk[i], ids |-> Posting(rows, k, sk[i])]]
    BY <1>11, <1>13
  <1> QED BY <1>14 DEF EntryList, e, sk, rows

(* A range of a saved file holds a posting.                                *)
LEMMA RangeRead ==
    ASSUME NEW a, NEW rels, NEW profile, NEW width, IsFile(a, rels, profile, width),
           NEW p \in 1..Len(Lists(rels, profile))
    PROVE  DecodePosting(a, a.ranges[p]) = Lists(rels, profile)[p]
  <1> DEFINE all == Lists(rels, profile) m == Len(all) OV == Overflows(rels, profile) E == Ends(OV)
             n == Len(rels) ids == all[p] r == a.ranges[p]
  <1>1. /\ m \in Nat /\ DOMAIN a.ranges = 1..m /\ Len(a.ranges) = m
        /\ m = Ends(ListParts(rels, profile))[7]
        /\ \A i \in 1..m : all[i] \in LongPostings(n)
    BY RangesAre
  <1>2. Placed(a, rels, profile)
    BY PartsPlaced
  <1>3. EndToEnd(a.postings, E, Nat, m, OV) /\ OV \in [1..m -> Seq(Nat)] /\ OV[p] = EncodeOverflow(ids)
    BY <1>2 DEF Placed
  <1>4. RangeIs(a, rels, profile, p)
    BY <1>1, FileFields
  <1>5. r.first = ids[1] /\ r.start = E[p - 1] /\ r.len = Len(OV[p])
    BY <1>4 DEF RangeIs
  <1>6. HoldsAt(a.postings, E[p - 1], OV[p])
    BY <1>1, <1>3, FlatHolds
  <1>7. PostingBytes(a, r) = EncodeOverflow(ids)
    BY <1>3, <1>5, <1>6, HoldsRead DEF PostingBytes
  <1>8. ids \in LongPostings(n)
    BY <1>1
  <1>9. IsPosting(ids, n)
    BY <1>8 DEF LongPostings
  <1>10. Savable(rels) /\ a.rowCount = n
    BY DEF IsFile
  <1>11. n \in Nat /\ n < Limit
    BY <1>10, RowsOfAre DEF Savable
  <1> HIDE DEF n, ids, r
  <1>12. DecodePosting(a, r) = ids
    BY <1>5, <1>7, <1>9, <1>10, <1>11, PostingRead
  <1> QED BY <1>12 DEF ids, r

(* The keys with several rows are read as they were written.               *)
LEMMA MultisRead ==
    ASSUME NEW a, NEW rels, NEW profile, NEW width, IsFile(a, rels, profile, width), NEW k \in Kinds
    PROVE  Multis(a, a.dir[k]) = EntryList(rels, k, MultisIn(rels, k, profile))
  <1> DEFINE KP == KeyParts(rels, profile) LP == ListParts(rels, profile)
             e == a.dir[k] n == Len(rels) c == Len(Symbols(rels))
             sk == SinglesIn(rels, k, profile) mk == MultisIn(rels, k, profile) all == Lists(rels, profile)
             K == KeysOf(rels, k, profile) rows == RowsOf(rels) g == GroupsOf(rels, profile)[k]
             L == KeyLen(e) r == RowIdWidth
             S == SingleCount(e) * (L + r)
             at(i) == e.keyStart + S + (i - 1) * L
             entry(i) == [key |-> DecodeKey(e, SubSeq(a.keys, at(i) + 1, at(i) + L)),
                          ids |-> DecodePosting(a, a.ranges[e.rangeStart + i])]
  <1>1. EntryPlaced(a, rels, profile, k, sk, mk)
    BY EntriesPlaced
  <1>2. Placed(a, rels, profile)
    BY PartsPlaced
  <1>3. Savable(rels)
    BY DEF IsFile
  <1>4. c \in Nat
    BY <1>3, RowsOfAre
  <1>5. g = Group(rows, k, profile) /\ KP[k] = g.keys
    BY DEF GroupsOf, KeyParts
  <1>6. KeysGood(rels, k, K, g.width)
    BY <1>3, <1>5, GroupIs
  <1>7. SplitKeys(rows, k, K, sk, mk)
    BY <1>3, GroupKeysGood
  <1>8. /\ e.kind = k /\ e.width \in Widths /\ g.width = e.width
        /\ L = KeyFieldCount[k] * e.width /\ L \in Nat \ {0}
        /\ Len(mk) \in Nat /\ SingleCount(e) = Len(sk) /\ e.rangeCount = Len(mk)
        /\ e.keyStart = Ends(KP)[k - 1] /\ e.rangeStart = Ends(LP)[k - 1]
        /\ GroupLaid(g, rows, k, sk, mk, L)
    BY <1>1 DEF EntryPlaced
  <1>9. LP[k] = [i \in 1..Len(mk) |-> Posting(rows, k, mk[i])]
    BY <1>1 DEF EntryPlaced
  <1>10. k \in 1..7
    BY DEF Kinds
  <1>11. HoldsAt(a.keys, e.keyStart, KP[k])
    <2>2. HoldsAt(a.keys, Ends(KP)[k - 1], KP[k])
      BY <1>2, <1>10, FlatHolds DEF Placed
    <2> QED BY <1>8, <2>2
  <1>12. Multis(a, e) = [i \in 1..Len(mk) |-> entry(i)]
    BY <1>8 DEF Multis
  <1>13. EndToEnd(all, Ends(LP), LongPostings(n), 7, LP)
    BY <1>2 DEF Placed
  <1>14. \A p \in 1..Len(all) : DecodePosting(a, a.ranges[p]) = all[p]
    BY RangeRead
  <1> HIDE DEF KP, LP, e, n, c, sk, mk, K, rows, g, L, r, all
  <1>15. Len(LP[k]) = Len(mk)
    <2>1. DOMAIN LP[k] = 1..Len(mk)
      BY <1>9
    <2> QED BY <1>8, <2>1, LenDomain
  <1>16. ASSUME NEW i \in 1..Len(mk)
         PROVE  DecodePosting(a, a.ranges[e.rangeStart + i]) = Posting(rows, k, mk[i])
    <2> DEFINE E == Ends(LP) p == E[k - 1] + i
    <2>1. /\ E \in [0..7 -> Nat] /\ E[k] = E[k - 1] + Len(LP[k]) /\ Len(all) = E[7]
          /\ \A x, y \in 0..7 : x <= y => E[x] <= E[y]
      BY <1>10, <1>13 DEF EndToEnd
    <2>2. all[p] = LP[k][i]
      BY <1>10, <1>13, <1>15 DEF EndToEnd
    <2> HIDE DEF E
    <2>3. k - 1 \in 0..7 /\ k \in 0..7 /\ 7 \in 0..7 /\ k <= 7
      BY <1>10
    <2>4. E[k] <= E[7] /\ E[k - 1] \in Nat /\ E[k] \in Nat /\ E[7] \in Nat
      BY <2>1, <2>3
    <2>5. E[k] = E[k - 1] + Len(mk)
      BY <1>15, <2>1
    <2>6. p \in 1..Len(all)
      <3> DEFINE u == E[k - 1] v == E[k] z == Len(mk)
      <3>1. u \in Nat /\ v \in Nat /\ z \in Nat /\ v = u + z /\ v <= Len(all) /\ Len(all) \in Nat
        BY <1>8, <2>1, <2>4, <2>5
      <3>2. i \in 1..z /\ p = u + i
        OBVIOUS
      <3> HIDE DEF u, v, z, p
      <3> QED BY <3>1, <3>2
    <2>7. e.rangeStart + i = p
      BY <1>8 DEF E
    <2> HIDE DEF p
    <2>8. LP[k][i] = Posting(rows, k, mk[i])
      BY <1>9
    <2> QED BY <1>14, <2>2, <2>6, <2>7, <2>8
  <1>17. ASSUME NEW i \in 1..Len(mk)
         PROVE  entry(i) = [key |-> mk[i], ids |-> Posting(rows, k, mk[i])]
    <2> DEFINE x == (i - 1) * L y == Len(sk) * (L + r) key == EncodeKey(k, e.width, mk[i])
    <2>1. HoldsAt(g.keys, y + x, EncodeKey(k, g.width, mk[i]))
      BY <1>8 DEF GroupLaid, r
    <2>2. HoldsAt(KP[k], y + x, key)
      BY <1>5, <1>8, <2>1
    <2>3. HoldsAt(a.keys, e.keyStart + (y + x), key)
      BY <1>11, <2>2, HoldsWithin
    <2>4. mk[i] \in K
      BY <1>7 DEF SplitKeys
    <2>5. KeyOfKind(mk[i], k, c) /\ \A f \in 1..3 : mk[i][f] < Power(ByteBase, e.width)
      BY <1>6, <1>8, <2>4 DEF KeysGood, c
    <2>6. Len(key) = L /\ DecodeKey(e, key) = mk[i]
      BY <1>4, <1>8, <2>5, KeyRead
    <2>7. at(i) = e.keyStart + y + x
      BY <1>8
    <2>8. e.keyStart + (y + x) = at(i)
      <3>1. x \in Nat
        <4>1. i - 1 \in Nat
          OBVIOUS
        <4> QED BY <1>8, <4>1
      <3>2. y \in Nat
        <4>1. Len(sk) \in Nat /\ L + r \in Nat
          <5>1. Len(sk) \in Nat
            BY <1>8 DEF GroupLaid
          <5>2. r \in Nat
            BY DEF RowIdWidth, r
          <5>3. \A u, v \in Nat : u + v \in Nat
            OBVIOUS
          <5> QED BY <1>8, <5>1, <5>2, <5>3
        <4> QED BY <4>1
      <3>3. e.keyStart \in Nat
        BY <1>11 DEF HoldsAt
      <3> HIDE DEF x, y, at
      <3> QED BY <2>7, <3>1, <3>2, <3>3
    <2> HIDE DEF x, y, key, at
    <2>9. SubSeq(a.keys, at(i) + 1, at(i) + L) = key
      BY <2>3, <2>6, <2>8, HoldsRead
    <2> QED BY <1>16, <2>6, <2>9
  <1> HIDE DEF entry
  <1>18. Multis(a, e) = [i \in 1..Len(mk) |-> [key |-> mk[i], ids |-> Posting(rows, k, mk[i])]]
    BY <1>12, <1>17
  <1> QED BY <1>18 DEF EntryList, e, mk, rows

EntryFor(rels, kind, key) == [key |-> key, ids |-> Posting(RowsOf(rels), kind, key)]

(* A list of entries, and the set of them.                                 *)
LEMMA EntryListIs ==
    ASSUME NEW rels, NEW kind, NEW keys, Len(keys) \in Nat
    PROVE  /\ DOMAIN EntryList(rels, kind, keys) = 1..Len(keys) /\ Len(EntryList(rels, kind, keys)) = Len(keys)
           /\ \A i \in 1..Len(keys) : EntryList(rels, kind, keys)[i] = EntryFor(rels, kind, keys[i])
           /\ ToSet(EntryList(rels, kind, keys)) = {EntryFor(rels, kind, keys[i]) : i \in 1..Len(keys)}
  <1> DEFINE n == Len(keys) q == EntryList(rels, kind, keys)
  <1>1. DOMAIN q = 1..n /\ \A i \in 1..n : q[i] = EntryFor(rels, kind, keys[i])
    BY DEF EntryList, EntryFor
  <1> HIDE DEF q
  <1>2. Len(q) = n
    BY <1>1, LenDomain
  <1>3. ToSet(q) = {EntryFor(rels, kind, keys[i]) : i \in 1..n}
    BY <1>1 DEF ToSet
  <1> QED BY <1>1, <1>2, <1>3 DEF q

(* What the index of one kind decodes to.                                  *)
LEMMA OwnEntries ==
    ASSUME NEW a, NEW rels, NEW profile, NEW width, IsFile(a, rels, profile, width), NEW kind \in Kinds
    PROVE  /\ Entry(a, kind) = a.dir[kind]
           /\ Singles(a, Entry(a, kind)) = EntryList(rels, kind, SinglesIn(rels, kind, profile))
           /\ Multis(a, Entry(a, kind)) = EntryList(rels, kind, MultisIn(rels, kind, profile))
           /\ SplitKeys(RowsOf(rels), kind, KeysOf(rels, kind, profile),
                        SinglesIn(rels, kind, profile), MultisIn(rels, kind, profile))
           /\ Len(SinglesIn(rels, kind, profile)) \in Nat /\ Len(MultisIn(rels, kind, profile)) \in Nat
           /\ a.dir[kind].kind = kind
  <1>1. \A k \in Kinds : a.dir[k].kind = k
    <2> TAKE k \in Kinds
    <2>1. EntryPlaced(a, rels, profile, k, SinglesIn(rels, k, profile), MultisIn(rels, k, profile))
      BY EntriesPlaced
    <2> QED BY <2>1 DEF EntryPlaced
  <1>2. Entry(a, kind) = a.dir[kind]
    BY <1>1, EntryIsOwn
  <1>3. Singles(a, a.dir[kind]) = EntryList(rels, kind, SinglesIn(rels, kind, profile))
    BY SinglesRead
  <1>4. Multis(a, a.dir[kind]) = EntryList(rels, kind, MultisIn(rels, kind, profile))
    BY MultisRead
  <1>5. EntryPlaced(a, rels, profile, kind, SinglesIn(rels, kind, profile), MultisIn(rels, kind, profile))
    BY EntriesPlaced
  <1>6. Len(SinglesIn(rels, kind, profile)) \in Nat /\ Len(MultisIn(rels, kind, profile)) \in Nat
    BY <1>5 DEF EntryPlaced
  <1>7. Savable(rels)
    BY DEF IsFile
  <1>8. SplitKeys(RowsOf(rels), kind, KeysOf(rels, kind, profile),
                  SinglesIn(rels, kind, profile), MultisIn(rels, kind, profile))
    BY <1>7, GroupKeysGood
  <1> QED BY <1>1, <1>2, <1>3, <1>4, <1>6, <1>8

(* An index of a saved file has an entry for each key.                     *)
LEMMA MergedIs ==
    ASSUME NEW a, NEW rels, NEW profile, NEW width, IsFile(a, rels, profile, width), NEW kind \in Kinds
    PROVE  Merged(a, kind) = {EntryFor(rels, kind, key) : key \in KeysOf(rels, kind, profile)}
  <1> DEFINE sk == SinglesIn(rels, kind, profile) mk == MultisIn(rels, kind, profile)
             K == KeysOf(rels, kind, profile) F(key) == EntryFor(rels, kind, key)
  <1>1. /\ Singles(a, Entry(a, kind)) = EntryList(rels, kind, sk)
        /\ Multis(a, Entry(a, kind)) = EntryList(rels, kind, mk)
        /\ SplitKeys(RowsOf(rels), kind, K, sk, mk) /\ Len(sk) \in Nat /\ Len(mk) \in Nat
    BY OwnEntries
  <1>2. Merged(a, kind) = ToSet(EntryList(rels, kind, sk)) \cup ToSet(EntryList(rels, kind, mk))
    BY <1>1 DEF Merged
  <1>3. /\ ToSet(EntryList(rels, kind, sk)) = {F(sk[i]) : i \in 1..Len(sk)}
        /\ ToSet(EntryList(rels, kind, mk)) = {F(mk[i]) : i \in 1..Len(mk)}
    BY <1>1, EntryListIs
  <1>4. /\ \A i \in 1..Len(sk) : sk[i] \in K
        /\ \A i \in 1..Len(mk) : mk[i] \in K
        /\ \A k \in K : (\E i \in 1..Len(sk) : sk[i] = k) \/ (\E i \in 1..Len(mk) : mk[i] = k)
    BY <1>1 DEF SplitKeys
  <1> HIDE DEF sk, mk, K, F
  <1>5. Merged(a, kind) = {F(key) : key \in K}
    BY <1>2, <1>3, <1>4
  <1> QED BY <1>5 DEF F, K

(* The entries of a saved file are in order, and no key is in both lists.  *)
LEMMA EntriesAccepted ==
    ASSUME NEW a, NEW rels, NEW profile, NEW width, IsFile(a, rels, profile, width), NEW kind \in Kinds
    PROVE  EntriesOK(a, kind)
  <1> DEFINE sk == SinglesIn(rels, kind, profile) mk == MultisIn(rels, kind, profile)
             K == KeysOf(rels, kind, profile) rows == RowsOf(rels)
             singles == Singles(a, Entry(a, kind)) multis == Multis(a, Entry(a, kind))
  <1>1. /\ singles = EntryList(rels, kind, sk) /\ multis = EntryList(rels, kind, mk)
        /\ SplitKeys(rows, kind, K, sk, mk) /\ Len(sk) \in Nat /\ Len(mk) \in Nat
        /\ a.dir[kind].kind = kind
    BY OwnEntries
  <1>2. /\ \A i \in 1..Len(sk) : Len(Posting(rows, kind, sk[i])) = 1
        /\ \A i \in 1..Len(mk) : Len(Posting(rows, kind, mk[i])) > 1
        /\ \A i, j \in 1..Len(sk) : i < j => KeyLess(sk[i], sk[j])
        /\ \A i, j \in 1..Len(mk) : i < j => KeyLess(mk[i], mk[j])
    BY <1>1 DEF SplitKeys
  <1>3. /\ DOMAIN singles = 1..Len(sk) /\ Len(singles) = Len(sk)
        /\ \A i \in 1..Len(sk) : singles[i] = EntryFor(rels, kind, sk[i])
    BY <1>1, EntryListIs
  <1>4. /\ DOMAIN multis = 1..Len(mk) /\ Len(multis) = Len(mk)
        /\ \A i \in 1..Len(mk) : multis[i] = EntryFor(rels, kind, mk[i])
    BY <1>1, EntryListIs
  <1>5. \A key : EntryFor(rels, kind, key).key = key
    BY DEF EntryFor
  <1> HIDE DEF sk, mk, K, rows, singles, multis
  <1>6. \A n \in Nat : \A i \in 1..(n - 1) : i \in 1..n /\ i + 1 \in 1..n /\ i < i + 1
    OBVIOUS
  <1>7. EntriesSorted(singles)
    BY <1>1, <1>2, <1>3, <1>5, <1>6 DEF EntriesSorted
  <1>8. EntriesSorted(multis)
    BY <1>1, <1>2, <1>4, <1>5, <1>6 DEF EntriesSorted
  <1>9. \A i \in DOMAIN singles, j \in DOMAIN multis : singles[i].key # multis[j].key
    <2> TAKE i \in DOMAIN singles, j \in DOMAIN multis
    <2>1. singles[i].key = sk[i] /\ multis[j].key = mk[j]
      BY <1>3, <1>4, <1>5
    <2>2. Len(Posting(rows, kind, sk[i])) = 1 /\ Len(Posting(rows, kind, mk[j])) > 1
      BY <1>2, <1>3, <1>4
    <2>3. sk[i] # mk[j]
      <3>1. ~(1 > 1)
        OBVIOUS
      <3> SUFFICES ASSUME sk[i] = mk[j] PROVE FALSE
        OBVIOUS
      <3>2. Len(Posting(rows, kind, mk[j])) = 1
        BY <2>2, Zenon
      <3>3. 1 > 1
        BY <2>2, <3>2, Zenon
      <3> QED BY <3>1, <3>3
    <2> QED BY <2>1, <2>3
  <1> QED BY <1>1, <1>7, <1>8, <1>9 DEF EntriesOK, singles, multis

(* A saved file passes the checks that trusted validation makes.           *)
LEMMA TrustedAccepted ==
    ASSUME NEW a, NEW rels, NEW profile, NEW width, IsFile(a, rels, profile, width), NEW kind \in Kinds
    PROVE  TrustedIndexOK(a, kind)
  <1> DEFINE K == KeysOf(rels, kind, profile) c == Len(Symbols(rels))
  <1>1. Merged(a, kind) = {EntryFor(rels, kind, key) : key \in K}
    BY MergedIs
  <1>2. Savable(rels) /\ a.symbolCount = c
    BY DEF IsFile
  <1>3. KeysGood(rels, kind, K, KeyWidth(K))
    BY <1>2, GroupKeysGood
  <1>4. ASSUME NEW key \in K
        PROVE  KeyOK(a, kind, EntryFor(rels, kind, key).key) /\ EntryFor(rels, kind, key).ids # <<>>
    <2>1. KeyOfKind(key, kind, c) /\ IsPosting(Posting(RowsOf(rels), kind, key), Len(rels))
      BY <1>3 DEF KeysGood
    <2>2. KeyOK(a, kind, key)
      BY <1>2, <2>1 DEF KeyOfKind, KeyOK
    <2>3. Posting(RowsOf(rels), kind, key) # <<>>
      BY <2>1 DEF IsPosting
    <2>4. EntryFor(rels, kind, key).key = key /\ EntryFor(rels, kind, key).ids = Posting(RowsOf(rels), kind, key)
      BY DEF EntryFor
    <2> QED BY <2>2, <2>3, <2>4
  <1> HIDE DEF K, c
  <1> QED BY <1>1, <1>4 DEF TrustedIndexOK

(* Each bit that a row is expected to have belongs to a key of it.         *)
LEMMA BitsHaveKeys ==
    ASSUME NEW row, NEW kind \in Kinds, NEW bit \in ExpectedBits(kind, row)
    PROVE  \E key \in RowKeys(row, kind) : CoverageBit(kind, key) = bit
  <1>1. CASE kind = 5
    <2>1. RowKeys(row, kind) = {<<row[4], row[5], row[6]>>, <<row[4], row[5], 0>>}
      BY <1>1 DEF RowKeys
    <2>2. <<row[4], row[5], row[6]>>[3] = row[6] /\ <<row[4], row[5], 0>>[3] = 0
      OBVIOUS
    <2>3. ExpectedBits(kind, row) = IF row[6] = 0 THEN {1} ELSE {1, 2}
      BY <1>1 DEF ExpectedBits
    <2>4. CoverageBit(kind, <<row[4], row[5], 0>>) = 1
      BY <2>2 DEF CoverageBit
    <2>5. row[6] # 0 => CoverageBit(kind, <<row[4], row[5], row[6]>>) = 2
      BY <1>1, <2>2 DEF CoverageBit
    <2>6. bit = 1 \/ (bit = 2 /\ row[6] # 0)
      BY <2>3
    <2> QED BY <2>1, <2>4, <2>5, <2>6
  <1>2. CASE kind = 6
    <2>1. RowKeys(row, kind) = {<<row[4], relation, 0>> : relation \in {row[6]} \ {0}}
      BY <1>2 DEF RowKeys
    <2>2. ExpectedBits(kind, row) = IF row[6] = 0 THEN {} ELSE {1}
      BY <1>2 DEF ExpectedBits
    <2>3. bit = 1 /\ row[6] # 0
      BY <2>2
    <2>4. <<row[4], row[6], 0>> \in RowKeys(row, kind)
      BY <2>1, <2>3
    <2>5. CoverageBit(kind, <<row[4], row[6], 0>>) = 1
      BY <1>2 DEF CoverageBit
    <2> QED BY <2>3, <2>4, <2>5
  <1>3. CASE kind \in {1, 2, 3, 4, 7}
    <2>1. \A key : CoverageBit(kind, key) = 1
      BY <1>3 DEF CoverageBit
    <2>2. bit = 1
      BY <1>3 DEF ExpectedBits
    <2>3. \E key : key \in RowKeys(row, kind)
      <3>1. kind = 1 => RowKeys(row, kind) = {<<row[1], row[2], row[3]>>}
        BY DEF RowKeys
      <3>2. kind = 2 => RowKeys(row, kind) = {<<row[1], row[2], 0>>}
        BY DEF RowKeys
      <3>3. kind = 3 => RowKeys(row, kind) = {<<row[1], row[3], 0>>}
        BY DEF RowKeys
      <3>4. kind = 4 => RowKeys(row, kind) = {<<row[1], 0, 0>>}
        BY DEF RowKeys
      <3>5. kind = 7 => RowKeys(row, kind) = {<<row[4], 0, 0>>}
        BY DEF RowKeys
      <3> QED BY <1>3, <3>1, <3>2, <3>3, <3>4, <3>5
    <2> QED BY <2>1, <2>2, <2>3
  <1> QED BY <1>1, <1>2, <1>3 DEF Kinds

(* A saved file passes the checks that full validation makes.              *)
LEMMA IndexAccepted ==
    ASSUME NEW a, NEW rels, NEW profile, NEW width, IsFile(a, rels, profile, width), NEW kind \in Kinds
    PROVE  IndexOK(a, kind, DiskRows(a))
  <1> DEFINE K == KeysOf(rels, kind, profile) c == Len(Symbols(rels)) n == Len(rels) rows == RowsOf(rels)
             index == Merged(a, kind) P(key) == Posting(rows, kind, key) F(key) == EntryFor(rels, kind, key)
             bits(i) == {CoverageBit(kind, x.key) : x \in {y \in index : i \in ToSet(y.ids)}}
  <1>1. index = {F(key) : key \in K}
    BY MergedIs
  <1>2. Savable(rels) /\ a.symbolCount = c /\ a.profile = profile
    BY DEF IsFile
  <1>3. DiskRows(a) = rows
    BY RowsRead
  <1>4. DOMAIN rows = 1..n /\ n \in Nat /\ c \in Nat /\ \A i \in 1..n : RowShape(a, rows[i])
    <2>1. /\ DOMAIN rows = 1..n /\ n \in Nat /\ c \in Nat
          /\ \A i \in 1..n : rows[i] \in [1..6 -> 0..c]
          /\ \A i \in 1..n, f \in 1..6 : rows[i][f] \in 1..c \/ f = 6
      BY <1>2, RowsOfAre
    <2>2. \A f \in 1..5 : f \in 1..6 /\ f # 6
      OBVIOUS
    <2>3. 0 \notin 1..c
      BY <2>1
    <2> HIDE DEF rows, n, c
    <2>4. \A i \in 1..n : \A f \in 1..5 : rows[i][f] # 0
      BY <2>1, <2>2, <2>3
    <2> QED BY <1>2, <2>1, <2>4 DEF RowShape
  <1>5. \A key : F(key).key = key /\ F(key).ids = P(key)
    BY DEF EntryFor
  <1> HIDE DEF K, c, n, rows, index, P, F
  <1>6. \A key : /\ P(key) \in Seq(1..n) /\ DOMAIN P(key) \subseteq Nat
                 /\ \A j \in DOMAIN P(key) : P(key)[j] \in 1..n /\ key \in RowKeys(rows[P(key)[j]], kind)
                 /\ \A x \in 1..n : key \in RowKeys(rows[x], kind) => \E j \in DOMAIN P(key) : P(key)[j] = x
                 /\ \A i, j \in DOMAIN P(key) : i < j => P(key)[i] < P(key)[j]
    <2> TAKE key
    <2> DEFINE I == {j \in 1..n : key \in RowKeys(rows[j], kind)} q == Posting(rows, kind, key)
    <2>1. /\ I \in SUBSET Nat /\ IsFiniteSet(I)
          /\ q \in Seq(I) /\ Len(q) = Cardinality(I) /\ DOMAIN q = 1..Cardinality(I)
          /\ \A j \in DOMAIN q : q[j] \in I
          /\ \A x \in I : \E j \in DOMAIN q : q[j] = x
          /\ \A j, k \in DOMAIN q : j < k => q[j] < q[k]
      BY <1>4, PostingIs
    <2>2. \A x : x \in I <=> x \in 1..n /\ key \in RowKeys(rows[x], kind)
      OBVIOUS
    <2> HIDE DEF I, q
    <2>3. Len(q) \in Nat /\ DOMAIN q = 1..Len(q)
      BY <2>1
    <2>4. q \in [1..Len(q) -> 1..n]
      <3>1. q = [j \in 1..Len(q) |-> q[j]]
        BY <2>1
      <3>2. \A j \in 1..Len(q) : q[j] \in 1..n
        BY <2>1, <2>2, <2>3
      <3> QED BY <3>1, <3>2
    <2>5. q \in Seq(1..n) /\ DOMAIN q \subseteq Nat
      <3>1. q \in Seq(1..n)
        BY <2>3, <2>4, FunctionIsSeq
      <3> QED BY <2>3, <3>1
    <2>6. P(key) = q
      BY DEF P, q
    <2> QED BY <2>1, <2>2, <2>5, <2>6
  <1>7. \A i, key : i \in ToSet(P(key)) <=> i \in 1..n /\ key \in RowKeys(rows[i], kind)
    BY <1>6 DEF ToSet
  <1>8. \A x \in index : \A i \in ToSet(x.ids) : RowMatches(rows[i], kind, x.key)
    <2> TAKE x \in index
    <2>1. PICK key \in K : x = F(key)
      BY <1>1
    <2> QED BY <1>5, <1>7, <2>1 DEF RowMatches
  <1>9. \A x, y \in index : \A i \in DOMAIN x.ids, j \in DOMAIN y.ids :
           x.ids[i] = y.ids[j] /\ CoverageBit(kind, x.key) = CoverageBit(kind, y.key) => x = y /\ i = j
    <2> SUFFICES ASSUME NEW x \in index, NEW y \in index, NEW i \in DOMAIN x.ids, NEW j \in DOMAIN y.ids,
                        x.ids[i] = y.ids[j], CoverageBit(kind, x.key) = CoverageBit(kind, y.key)
                 PROVE  x = y /\ i = j
      OBVIOUS
    <2>1. PICK s \in K : x = F(s)
      BY <1>1
    <2>2. PICK t \in K : y = F(t)
      BY <1>1
    <2>3. /\ i \in DOMAIN P(s) /\ j \in DOMAIN P(t) /\ P(s)[i] = P(t)[j]
          /\ CoverageBit(kind, s) = CoverageBit(kind, t)
      BY <1>5, <2>1, <2>2
    <2> DEFINE z == P(s)[i]
    <2>4. z \in 1..n /\ s \in RowKeys(rows[z], kind) /\ t \in RowKeys(rows[z], kind)
      BY <1>6, <2>3
    <2>5. RowShape(a, rows[z])
      BY <1>4, <2>4
    <2> HIDE DEF z
    <2>6. s = t
      BY <2>3, <2>4, <2>5, BitsTellKeys
    <2>7. i = j
      <3>1. i \in DOMAIN P(s) /\ j \in DOMAIN P(s) /\ P(s)[i] = P(s)[j]
        BY <2>3, <2>6
      <3>2. i \in Nat /\ j \in Nat /\ P(s)[i] \in 1..n /\ P(s)[j] \in 1..n
        BY <1>6, <3>1
      <3>3. ~(i < j) /\ ~(j < i)
        <4>1. ~(P(s)[i] < P(s)[j]) /\ ~(P(s)[j] < P(s)[i])
          BY <3>1, <3>2
        <4> QED BY <1>6, <3>1, <4>1
      <3> QED BY <3>2, <3>3
    <2> QED BY <2>1, <2>2, <2>6, <2>7
  <1>10. ASSUME NEW i \in 1..n
         PROVE  bits(i) = IF RequiredByProfile(kind, profile) THEN ExpectedBits(kind, rows[i]) ELSE {}
    <2>1. CASE ~RequiredByProfile(kind, profile)
      <3>1. K = {}
        BY <2>1 DEF K, KeysOf, GroupKeys
      <3>2. index = {}
        BY <1>1, <3>1
      <3> QED BY <2>1, <3>2
    <2>2. CASE RequiredByProfile(kind, profile)
      <3>1. \A key \in RowKeys(rows[i], kind) : key \in K
        BY <1>4, <2>2 DEF K, KeysOf, GroupKeys, rows
      <3>2. bits(i) \subseteq ExpectedBits(kind, rows[i])
        <4> SUFFICES ASSUME NEW x \in index, i \in ToSet(x.ids)
                     PROVE  CoverageBit(kind, x.key) \in ExpectedBits(kind, rows[i])
          OBVIOUS
        <4>1. PICK key \in K : x = F(key)
          BY <1>1
        <4>2. key \in RowKeys(rows[i], kind) /\ x.key = key
          BY <1>5, <1>7, <4>1
        <4>3. RowShape(a, rows[i])
          BY <1>4
        <4> QED BY <4>2, <4>3, BitsTellKeys
      <3>3. ASSUME NEW bit \in ExpectedBits(kind, rows[i]) PROVE bit \in bits(i)
        <4>1. PICK key \in RowKeys(rows[i], kind) : CoverageBit(kind, key) = bit
          BY BitsHaveKeys
        <4>2. F(key) \in index /\ F(key).key = key /\ i \in ToSet(F(key).ids)
          BY <1>1, <1>5, <1>7, <3>1, <4>1
        <4> QED BY <4>1, <4>2
      <3> QED BY <2>2, <3>2, <3>3
    <2> QED BY <2>1, <2>2
  <1>11. \A i \in DOMAIN rows :
            bits(i) = IF RequiredByProfile(kind, a.profile) THEN ExpectedBits(kind, rows[i]) ELSE {}
    BY <1>2, <1>4, <1>10
  <1>12. IndexOK(a, kind, rows)
    BY <1>8, <1>9, <1>11 DEF IndexOK, index
  <1> QED BY <1>3, <1>12

(* As many row ids overflow as the header counts.                          *)
LEMMA OverflowCounted ==
    ASSUME NEW a, NEW rels, NEW profile, NEW width, IsFile(a, rels, profile, width)
    PROVE  OverflowIds(a) = a.postingCount
  <1> DEFINE LP == ListParts(rels, profile)
             read(k) == [i \in DOMAIN Multis(a, Entry(a, k)) |-> Len(Multis(a, Entry(a, k))[i].ids) - 1]
             written(k) == [i \in DOMAIN LP[k] |-> Len(LP[k][i]) - 1]
  <1>1. ASSUME NEW k \in Kinds PROVE read(k) = written(k)
    <2> DEFINE mk == MultisIn(rels, k, profile) sk == SinglesIn(rels, k, profile)
               multis == Multis(a, Entry(a, k)) rows == RowsOf(rels)
    <2>1. multis = EntryList(rels, k, mk) /\ Len(mk) \in Nat
      BY OwnEntries
    <2>2. /\ DOMAIN multis = 1..Len(mk) /\ Len(multis) = Len(mk)
          /\ \A i \in 1..Len(mk) : multis[i] = EntryFor(rels, k, mk[i])
      BY <2>1, EntryListIs
    <2>3. EntryPlaced(a, rels, profile, k, sk, mk)
      BY EntriesPlaced
    <2>4. LP[k] = [i \in 1..Len(mk) |-> Posting(rows, k, mk[i])]
      BY <2>3 DEF EntryPlaced
    <2>5. \A i \in 1..Len(mk) : multis[i].ids = Posting(rows, k, mk[i])
      BY <2>2 DEF EntryFor
    <2>6. read(k) = [i \in DOMAIN multis |-> Len(multis[i].ids) - 1]
      OBVIOUS
    <2> HIDE DEF multis, mk, LP, rows, read
    <2>7. DOMAIN LP[k] = 1..Len(mk) /\ \A i \in 1..Len(mk) : LP[k][i] = multis[i].ids
      BY <2>4, <2>5
    <2> QED BY <2>2, <2>6, <2>7
  <1>2. FieldsAre(a, rels, profile)
    BY FileFields
  <1>3. a.postingCount = Total([k \in Kinds |-> Total(written(k))])
    BY <1>2 DEF FieldsAre
  <1>4. OverflowIds(a) = Total([k \in Kinds |-> Total(read(k))])
    BY DEF OverflowIds
  <1> HIDE DEF read, written
  <1>5. [k \in Kinds |-> Total(read(k))] = [k \in Kinds |-> Total(written(k))]
    BY <1>1
  <1> QED BY <1>3, <1>4, <1>5

(* What a save has written decodes.                                        *)
LEMMA FileDecodes ==
    ASSUME NEW a, NEW rels, NEW profile, NEW width, IsFile(a, rels, profile, width), NEW validation
    PROVE  Decodes(a, validation)
  <1>1. HeaderOK(a) /\ SchemaOK(a)
    BY DEF HeaderOK, SchemaOK, IsFile
  <1>2. SymbolsOK(a, validation) /\ RowsOK(a, validation)
    BY SymbolsAccepted, RowsAccepted
  <1>3. IndexesOK(a, validation)
    <2>1. DirectoryOK(a)
      BY DirectoryAccepted
    <2>2. LayoutOK(a) /\ (a.keys = <<>> => a.keyCount = 0)
      BY LayoutAccepted
    <2>3. \A kind \in Kinds : EntriesOK(a, kind) /\ TrustedIndexOK(a, kind) /\ IndexOK(a, kind, DiskRows(a))
      BY EntriesAccepted, TrustedAccepted, IndexAccepted
    <2>4. OverflowIds(a) = a.postingCount
      BY OverflowCounted
    <2> QED BY <2>1, <2>2, <2>3, <2>4 DEF IndexesOK
  <1> QED BY <1>1, <1>2, <1>3 DEF Decodes

(* A trusted store finds a name where a fully validated one finds it.      *)
LEMMA TrustedLookup ==
    ASSUME NEW a, NEW rels, NEW profile, NEW width, IsFile(a, rels, profile, width), Raw(a),
           NEW name \in Names
    PROVE  Lookup(Loaded(a, "trusted"), name) = Lookup(Loaded(a, "full"), name)
  <1> DEFINE store == Loaded(a, "trusted") c == a.symbolCount
             ids == LookupIds(a)
             I == {i \in 1..c : a.symbols[ids[i]] = name}
             at == IF I # {} THEN Min(I) ELSE 0
             id == Lookup(Loaded(a, "full"), name)
  <1>1. SymbolsOK(a, "full") /\ SymbolsOK(a, "trusted")
    BY SymbolsAccepted
  <1>2. /\ DOMAIN a.symbols = 1..c
        /\ \A i \in 1..c : a.symbols[i] \in Names /\ a.hashes[i] = HashValue[a.symbols[i]]
        /\ \A i, j \in 1..c : a.symbols[i] = a.symbols[j] => i = j
    BY <1>1, FullSymbols
  <1>3. c \in Nat
    BY DEF Raw
  <1>4. \/ id \in 1..c /\ a.symbols[id] = name
        \/ id = 0 /\ \A i \in 1..c : a.symbols[i] # name
    BY <1>1, FullLookup
  <1>5. /\ ids \in Seq(1..c) /\ Len(ids) = c /\ DOMAIN ids = 1..c
        /\ \A i \in 1..c : ids[i] \in 1..c
        /\ \A x \in 1..c : \E i \in 1..c : ids[i] = x
    <2> DEFINE h == HashesOf(rels) q == SortedIds(h) n == Len(Symbols(rels))
    <2>1. Savable(rels) /\ c = n
      BY DEF IsFile
    <2>2. n \in Nat /\ h \in [1..n -> Nat]
      BY <2>1, HashesAre
    <2>3. ids = q
      BY LookupRead
    <2> HIDE DEF h, n, ids
    <2>4. /\ q \in Seq(1..n) /\ Len(q) = n /\ DOMAIN q = 1..n
          /\ \A i \in 1..n : q[i] \in 1..n
          /\ \A x \in 1..n : \E i \in 1..n : q[i] = x
          /\ \A i, j \in 1..n : i < j => \/ h[q[i]] < h[q[j]]
                                         \/ h[q[i]] = h[q[j]] /\ q[i] < q[j]
      BY <2>2, SortedIdsAre
    <2> HIDE DEF q
    <2> QED BY <2>1, <2>3, <2>4
  <1>6. store.symbols = a.symbols /\ store.hashes = a.hashes /\ store.lookup = ids
    BY DEF Loaded
  <1> HIDE DEF store, ids, id, c
  <1>7. CASE ids = <<>>
    <2>1. Lookup(store, name) = id
      <3>1. store.lookup = <<>> /\ Loaded(a, "full").lookup = <<>>
        BY <1>6, <1>7, LoadedIs
      <3>2. store.symbols = Loaded(a, "full").symbols /\ store.hashes = Loaded(a, "full").hashes
        BY <1>6, LoadedIs
      <3> QED BY <3>1, <3>2 DEF Lookup, id
    <2> QED BY <2>1 DEF store, id
  <1>8. CASE ids # <<>>
    <2>1. {i \in 1..Len(ids) : store.hashes[ids[i]] = HashValue[name] /\ store.symbols[ids[i]] = name} = I
      <3>1. \A i \in 1..c : a.symbols[ids[i]] = name => a.hashes[ids[i]] = HashValue[name]
        <4> TAKE i \in 1..c
        <4> DEFINE x == ids[i]
        <4>1. x \in 1..c
          BY <1>5
        <4> HIDE DEF x
        <4>2. a.hashes[x] = HashValue[a.symbols[x]]
          BY <1>2, <4>1
        <4>3. a.symbols[x] = name => a.hashes[x] = HashValue[name]
          BY <4>2
        <4> QED BY <4>3 DEF x
      <3>2. \A i \in 1..c : (store.hashes[ids[i]] = HashValue[name] /\ store.symbols[ids[i]] = name)
                            <=> a.symbols[ids[i]] = name
        BY <1>6, <3>1
      <3>3. Len(ids) = c
        BY <1>5
      <3> QED BY <3>2, <3>3
    <2>2. Lookup(store, name) = IF at = 0 THEN 0 ELSE ids[at]
      <3> DEFINE found == {i \in 1..Len(ids) : store.hashes[ids[i]] = HashValue[name]
                                              /\ store.symbols[ids[i]] = name}
      <3>1. store.lookup = ids /\ store.lookup # <<>>
        BY <1>6, <1>8
      <3>2. Lookup(store, name) = IF (IF found # {} THEN Min(found) ELSE 0) = 0 THEN 0
                                  ELSE ids[IF found # {} THEN Min(found) ELSE 0]
        BY <3>1 DEF Lookup, SelectInSeq
      <3> QED BY <2>1, <3>2
    <2>3. I # {} => Min(I) \in I
      <3> SUFFICES ASSUME I # {} PROVE Min(I) \in I
        OBVIOUS
      <3>1. I \in SUBSET Nat
        OBVIOUS
      <3> HIDE DEF I
      <3>2. \E n \in I : \A m \in I : n <= m
        BY <3>1, LeastOf
      <3> QED BY <3>2 DEF Min
    <2>4. CASE I # {}
      <3> DEFINE p == Min(I)
      <3>1. p \in 1..c /\ a.symbols[ids[p]] = name
        BY <2>3, <2>4
      <3>2. Lookup(store, name) = ids[p]
        BY <2>2, <2>4, <3>1
      <3> HIDE DEF p
      <3>3. ids[p] \in 1..c
        BY <1>5, <3>1
      <3>4. id = ids[p]
        BY <1>2, <1>4, <3>1, <3>3
      <3> QED BY <3>2, <3>4 DEF store, id
    <2>5. CASE I = {}
      <3>1. Lookup(store, name) = 0
        BY <2>2, <2>5
      <3>2. \A x \in 1..c : a.symbols[x] # name
        BY <1>5, <2>5
      <3>3. id = 0
        BY <1>4, <3>2
      <3> QED BY <3>1, <3>3 DEF store, id
    <2> QED BY <2>4, <2>5
  <1> QED BY <1>7, <1>8

(* With trusted validation a saved file answers as with full.              *)
LEMMA SameAnswers ==
    ASSUME NEW a, NEW rels, NEW profile, NEW width, IsFile(a, rels, profile, width), Raw(a),
           AnswersExactly(Loaded(a, "full"), rels)
    PROVE  AnswersExactly(Loaded(a, "trusted"), rels)
  <1> DEFINE t == Loaded(a, "trusted") u == Loaded(a, "full")
  <1>1. /\ t.rows = u.rows /\ t.symbols = u.symbols /\ t.profile = u.profile /\ t.index = u.index
    BY DEF Loaded
  <1>2. \A name \in Names : Lookup(t, name) = Lookup(u, name)
    BY TrustedLookup
  <1>3. AnswersExactly(u, rels)
    OBVIOUS
  <1> HIDE DEF t, u
  <1>4. RowNames(t) = RowNames(u)
    BY <1>1 DEF RowNames, NameOf
  <1>5. ASSUME NEW side \in Sides, NEW f \in FilterNames PROVE Query(t, side, f) = Query(u, side, f)
    <2>1. \A i \in 1..3 : f[i] # NoName => f[i] \in Names
      BY FilterShape
    <2>2. Interned(t, f) = Interned(u, f)
      BY <1>2, <2>1 DEF Interned
    <2> QED BY <1>1, <2>2 DEF Query
  <1>6. AnswersExactly(t, rels)
    BY <1>1, <1>3, <1>4, <1>5 DEF AnswersExactly
  <1> QED BY <1>6 DEF t

(* The file format reads back what a save writes: each saved snapshot      *)
(* decodes with either validation to the revision and the relationships    *)
(* that were saved, and the loaded store answers every query as they do.   *)
THEOREM SavesReadBack == FormatReadsBack
  <1> SUFFICES ASSUME NEW x \in SavedContents, NEW v \in Validations
               PROVE  <<x, v>> \in ReadsBack /\ <<x, v>> \in AnswersAsSaved
    BY DEF FormatReadsBack, SaveReads
  <1> DEFINE s == SnapshotOf(x) o == OptionsOf(x) rels == s.rels a == SavedArtifact(x)
             compact == (o.compression = "none") width == SymbolWidth(Len(Symbols(rels)), compact)
  <1>1. PICK n \in DOMAIN Published, m \in DOMAIN SaveOptions :
           /\ s = Published[n] /\ o = SaveOptions[m] /\ Supported(s, o)
    BY DEF SavedContents, SavedAs, SnapshotOf, OptionsOf
  <1>2. /\ s.revision \in Nat \ {0} /\ rels \in Seq(Rel) /\ IsInjective(rels)
        /\ \A i \in DOMAIN rels : IsRelationship(rels[i])
        /\ s.large \/ (Len(rels) < Limit /\ Len(Symbols(rels)) < Limit)
        /\ o.profile \in Profiles
    BY <1>1, SnapshotConstants DEF Rel
  <1>3. Savable(rels)
    BY <1>1, <1>2 DEF Supported, Savable
  <1>4. a = Encode(rels, s.revision, s.schema, o.profile, compact)
    BY DEF SavedArtifact
  <1> HIDE DEF a, s, o, compact
  <1>5. IsFile(a, rels, o.profile, width)
    BY <1>2, <1>3, <1>4, EncodedIsFile
  <1>6. Raw(a)
    BY <1>2, <1>4, SavedIsRaw
  <1>7. Decodes(a, "full") /\ Decodes(a, v)
    BY <1>5, FileDecodes
  <1>8. RowNames(Loaded(a, "full")) = rels /\ RowNames(Loaded(a, v)) = rels
    BY <1>5, NamesRead
  <1>9. AnswersExactly(Loaded(a, "full"), rels)
    <2>1. SelfConsistent(Loaded(a, "full"))
      BY <1>6, <1>7, FullIsConsistent
    <2> QED BY <1>8, <2>1 DEF SelfConsistent
  <1>10. AnswersExactly(Loaded(a, v), rels)
    <2>1. AnswersExactly(Loaded(a, "trusted"), rels)
      BY <1>5, <1>6, <1>9, SameAnswers
    <2> QED BY <1>9, <2>1 DEF Validations
  <1>11. Loaded(a, v).revision = s.revision
    <2>1. a.revision = s.revision
      BY <1>4 DEF Encode
    <2> QED BY <2>1 DEF Loaded
  <1>12. <<x, v>> \in SavedDecodes
    BY <1>7 DEF SavedDecodes, SaveReads, a
  <1>13. SameRelationships(Loaded(a, v), s)
    BY <1>8, <1>11 DEF SameRelationships
  <1>14. <<x, v>> \in ReadsBack
    BY <1>12, <1>13 DEF ReadsBack, a, s
  <1>15. <<x, v>> \in AnswersAsSaved
    BY <1>10, <1>12 DEF AnswersAsSaved, a, s
  <1> QED BY <1>14, <1>15

-----------------------------------------------------------------------------
(* Loads with full validation.                                             *)

(* Chunks of the foreign file are found only where there is one.           *)
Saves(chunks) == \A j \in 1..Len(chunks) : chunks[j].of # ForeignFile

ForeignKnown ==
    foreign \notin Foreign =>
        /\ \A i \in Inodes : Saves(data[i])
        /\ \A l \in Loaders : /\ Saves(loader[l].got)
                              /\ loader[l].result = "loaded" => loader[l].store # ForeignFile

LEMMA NothingForeign == Saves(<<>>) /\ NoContent # ForeignFile /\ ForeignFile \notin SavedContents
  <1>1. Saves(<<>>)
    BY DEF Saves
  <1> QED BY <1>1, ContentsDiffer DEF NoContent, ForeignFile, Saved

LEMMA InitForeign == Init => ForeignKnown
  <1> SUFFICES ASSUME Init, foreign \notin Foreign
               PROVE  /\ \A i \in Inodes : Saves(data[i])
                      /\ \A l \in Loaders : /\ Saves(loader[l].got)
                                            /\ loader[l].result = "loaded" => loader[l].store # ForeignFile
    BY DEF ForeignKnown
  <1>1. PICK x \in MaybeContents, first \in Inodes \cup {CHOOSE i \in Inodes : TRUE} :
            /\ data = [i \in Inodes |-> IF i = first /\ x # NoContent THEN FileOf(x) ELSE <<>>]
            /\ loader = [l \in Loaders |-> IdleLoader]
            /\ foreign \in IF x = ForeignFile THEN Foreign ELSE {NoContent}
    BY DEF Init, MaybeContents
  <1>2. x # ForeignFile
    BY <1>1
  <1>3. Saves(FileOf(x))
    <2>1. Len(FileOf(x)) = FileLen(x) /\ \A j \in 1..FileLen(x) : FileOf(x)[j] = Piece(x, j)
      BY FileIsPrefix, FileLengths, PrefixIsSeq
    <2> QED BY <1>2, <2>1 DEF Saves, Piece
  <1>4. \A i \in Inodes : Saves(data[i])
    BY <1>1, <1>3, NothingForeign
  <1>5. \A l \in Loaders : loader[l].got = <<>> /\ loader[l].result = "none"
    BY <1>1 DEF IdleLoader
  <1> QED BY <1>4, <1>5, NothingForeign

LEMMA PutSaves ==
    ASSUME NEW chunks, InPosition(chunks), Saves(chunks), NEW x \in SavedContents, NEW at \in Nat, at >= 1
    PROVE  Saves(Put(chunks, at, Piece(x, at)))
  <1> DEFINE new == Put(chunks, at, Piece(x, at)) n == Max({at, Len(chunks)})
  <1>1. new = [i \in 1..n |-> IF i = at THEN Piece(x, at) ELSE IF i <= Len(chunks) THEN chunks[i] ELSE Hole]
    BY DEF Put
  <1>2. Len(new) \in Nat /\ DOMAIN new = 1..Len(new)
    <2>1. InPosition(new)
      BY PutsChunk DEF Contents
    <2> HIDE DEF new
    <2> QED BY <2>1 DEF InPosition
  <1>3. Piece(x, at).of # ForeignFile /\ Hole.of # ForeignFile
    BY NothingForeign DEF Piece, Hole
  <1>4. Len(chunks) \in Nat
    BY DEF InPosition
  <1>5. ASSUME NEW j \in 1..Len(new) PROVE new[j].of # ForeignFile
    <2>0. DOMAIN new = 1..n
      BY <1>1
    <2>1. j \in Nat /\ j >= 1 /\ j \in 1..n
      <3> HIDE DEF new, n
      <3>1. j \in 1..n
        BY <1>2, <2>0
      <3>2. j \in Nat /\ j >= 1
        BY <1>2
      <3> QED BY <3>1, <3>2
    <2>2. new[j] = IF j = at THEN Piece(x, at) ELSE IF j <= Len(chunks) THEN chunks[j] ELSE Hole
      <3> HIDE DEF new, n
      <3> QED BY <1>1, <2>1
    <2>3. j <= Len(chunks) => chunks[j].of # ForeignFile
      BY <1>4, <2>1 DEF Saves
    <2> HIDE DEF new, n
    <2> QED BY <1>3, <2>2, <2>3
  <1> QED BY <1>5 DEF Saves

LEMMA AppendSaves ==
    ASSUME NEW got \in Seq(Pieces), Saves(got), NEW e \in Pieces, e.of # ForeignFile
    PROVE  Saves(Append(got, e))
  <1>1. /\ Len(Append(got, e)) = Len(got) + 1 /\ Append(got, e)[Len(got) + 1] = e
        /\ \A j \in 1..Len(got) : Append(got, e)[j] = got[j]
    OBVIOUS
  <1>2. \A j \in 1..(Len(got) + 1) : j \in 1..Len(got) \/ j = Len(got) + 1
    OBVIOUS
  <1> QED BY <1>1, <1>2 DEF Saves

(* What a file parses to is a content of one of its chunks.                *)
LEMMA ParsedSaves ==
    ASSUME NEW got, InPosition(got), Saves(got), NEW len, NEW o, NEW x \in Parsed(got, len, o)
    PROVE  x # ForeignFile
  <1>1. Unverified # ForeignFile /\ NoContent # ForeignFile
    BY DEF Unverified, NoContent, ForeignFile
  <1>2. got # <<>> => got[1].of # ForeignFile
    <2>1. got # <<>> => 1 \in 1..Len(got)
      BY DEF InPosition
    <2> QED BY <2>1 DEF Saves
  <1>3. x \in {NoContent, Unverified} \/ (got # <<>> /\ x = got[1].of)
    <2>1. WholeFile(got) = NoContent \/ (got # <<>> /\ WholeFile(got) = got[1].of)
      BY DEF WholeFile
    <2>2. CASE x \in ParseZstd(got, o)
      BY <2>1, <2>2 DEF ParseZstd
    <2>3. CASE x \in ParsePlain(got, o)
      BY <2>3 DEF ParsePlain
    <2> QED BY <2>2, <2>3 DEF Parsed
  <1> QED BY <1>1, <1>2, <1>3

LEMMA NextForeign == Typed /\ ForeignKnown /\ [Next]_vars => ForeignKnown'
  <1> SUFFICES ASSUME Typed, ForeignKnown, [Next]_vars, foreign' \notin Foreign
               PROVE  /\ \A i \in Inodes : Saves(data'[i])
                      /\ \A l \in Loaders : /\ Saves(loader'[l].got)
                                            /\ loader'[l].result = "loaded" => loader'[l].store # ForeignFile
    BY DEF ForeignKnown, Saves
  <1> DEFINE Files1 == \A i \in Inodes : Saves(data'[i])
             Of(l) == /\ Saves(loader'[l].got)
                      /\ loader'[l].result = "loaded" => loader'[l].store # ForeignFile
  <1>1. foreign' = foreign
    BY DEF Next, vars, SaveRefused, BeginSave, Create, Write, Rename, FinishInPlace, SaveFails, Crash,
           LoadRefused, Open, Read, Decode, Forget
  <1>2. /\ \A i \in Inodes : Saves(data[i])
        /\ \A l \in Loaders : /\ Saves(loader[l].got)
                              /\ loader[l].result = "loaded" => loader[l].store # ForeignFile
    BY <1>1 DEF ForeignKnown
  <1>3. (data' = data \/ \E d, sv, ld : data' = Freed(d, data, sv, ld)) => Files1
    BY <1>2, NothingForeign DEF Freed
  <1>4. loader' = loader => \A l \in Loaders : Of(l)
    BY <1>2
  <1>5. ASSUME NEW l \in Loaders, \A k \in Loaders : k # l => loader'[k] = loader[k], Of(l)
        PROVE  \A k \in Loaders : Of(k)
    BY <1>2, <1>5
  <1>6. ASSUME NEW i, loader' = Disturbed(i) PROVE \A l \in Loaders : Of(l)
    <2> SUFFICES ASSUME NEW l \in Loaders PROVE Of(l)
      OBVIOUS
    <2>1. LoaderOK(loader[l])
      BY DEF Typed
    <2>2. loader'[l].got = loader[l].got /\ loader'[l].result = loader[l].result
          /\ loader'[l].store = loader[l].store
      <3>1. loader'[l] \in {loader[l], [loader[l] EXCEPT !.opened = NoContent]}
        BY <1>6, DisturbedOK
      <3> QED BY <2>1, <3>1 DEF LoaderOK
    <2> QED BY <1>2, <2>2
  <1>7. ASSUME NEW s \in Savers, Create(s) PROVE Files1 /\ \A l \in Loaders : Of(l)
    <2>1. PICK i : i = InodeAt(Target(s))
      OBVIOUS
    <2>2. /\ i \in Inodes /\ data'[i] = <<>> /\ \A j \in Inodes : j # i => data'[j] = data[j]
          /\ loader' = Disturbed(i)
      BY <1>7, <2>1, CreateIs
    <2>3. Files1
      BY <1>2, <2>2, NothingForeign
    <2> QED BY <1>6, <2>2, <2>3
  <1>8. ASSUME NEW s \in Savers, Write(s) PROVE Files1 /\ \A l \in Loaders : Of(l)
    <2>1. PICK i, at, x : i = saver[s].inode /\ at = saver[s].at + 1 /\ x = saver[s].of
      OBVIOUS
    <2>2. /\ i \in Inodes /\ at \in Nat /\ at >= 1 /\ data'[i] = Put(data[i], at, Piece(x, at))
          /\ \A j \in Inodes : j # i => data'[j] = data[j]
          /\ loader' = Disturbed(i)
      BY <1>8, <2>1, WriteIs
    <2>3. x \in SavedContents
      BY <1>8, <2>1 DEF Typed, SaverOK, Saved, Write, Writing
    <2>4. Saves(data'[i])
      <3>1. InPosition(data[i]) /\ Saves(data[i])
        BY <1>2, <2>2 DEF Typed
      <3> QED BY <2>2, <2>3, <3>1, PutSaves
    <2>5. Files1
      BY <1>2, <2>2, <2>4
    <2> QED BY <1>6, <2>2, <2>5
  <1>9. ASSUME NEW l \in Loaders, Read(l) PROVE Files1 /\ \A k \in Loaders : Of(k)
    <2>1. PICK i, got, e : i = loader[l].inode /\ got = loader[l].got /\ e = data[i][Len(got) + 1]
      OBVIOUS
    <2>2. /\ i \in Inodes /\ Len(got) \in Nat /\ Len(got) < Len(data[i])
          /\ loader'[l].got = Append(got, e) /\ loader'[l].result = "none"
          /\ \A k \in Loaders : k # l => loader'[k] = loader[k]
      BY <1>9, <2>1, ReadIs
    <2>3. data[i] \in Seq(Pieces) /\ got \in Seq(Pieces)
      BY <2>1, <2>2 DEF Typed, InPosition, LoaderOK
    <2>4. Len(got) + 1 \in 1..Len(data[i])
      BY <2>2, <2>3
    <2>5. e \in Pieces /\ e.of # ForeignFile
      BY <1>2, <2>1, <2>2, <2>3, <2>4 DEF Saves
    <2>6. Saves(Append(got, e))
      BY <1>2, <2>1, <2>3, <2>5, AppendSaves
    <2>7. data' = data
      BY <1>9 DEF Read
    <2> QED BY <1>3, <1>5, <2>2, <2>6, <2>7
  <1>10. ASSUME NEW l \in Loaders, Decode(l) PROVE Files1 /\ \A k \in Loaders : Of(k)
    <2>1. PICK got, len, o : got = loader[l].got /\ len = loader[l].len /\ o = loader[l].opts
      OBVIOUS
    <2>2. PICK x \in Parsed(got, len, o) : loader'[l].result = "loaded" => loader'[l].store = x
      BY <1>10, <2>1, DecodeIs
    <2>3. InPosition(got)
      BY <2>1 DEF Typed, LoaderOK
    <2>4. x # ForeignFile
      BY <1>2, <2>1, <2>3, ParsedSaves
    <2>5. Saves(loader'[l].got)
      <3>1. loader'[l].got = <<>>
        BY <1>10 DEF Decode, Done, Finished, Typed
      <3> QED BY <3>1, NothingForeign
    <2>6. data' = Freed(dir, data, saver, loader')
      BY <1>10 DEF Decode
    <2>7. \A k \in Loaders : k # l => loader'[k] = loader[k]
      BY <1>10, DecodeIs
    <2>8. Files1
      BY <1>3, <2>6
    <2> QED BY <1>5, <2>2, <2>4, <2>5, <2>7, <2>8
  <1>11. ASSUME NEW l \in Loaders, NEW o \in LoadOptions, LoadRefused(l, o) \/ Open(l, o)
         PROVE  Files1 /\ \A k \in Loaders : Of(k)
    <2>1. data' = data /\ \A k \in Loaders : k # l => loader'[k] = loader[k]
      BY <1>11, LoadRefusedIs, OpenIs DEF LoadRefused, Open
    <2>2. loader'[l].got = <<>> /\ loader'[l].result # "loaded"
      BY <1>11, OpenIs DEF LoadRefused, Finished, Typed
    <2> QED BY <1>3, <1>5, <2>1, <2>2, NothingForeign
  <1>12. ASSUME NEW l \in Loaders, Forget(l) PROVE Files1 /\ \A k \in Loaders : Of(k)
    <2>1. data' = data /\ loader' = [loader EXCEPT ![l] = IdleLoader]
      BY <1>12 DEF Forget
    <2>2. loader'[l] = IdleLoader /\ \A k \in Loaders : k # l => loader'[k] = loader[k]
      BY <2>1, IdleOK, OneLoader
    <2>3. loader'[l].got = <<>> /\ loader'[l].result = "none"
      BY <2>2 DEF IdleLoader
    <2> QED BY <1>3, <1>5, <2>1, <2>2, <2>3, NothingForeign
  <1>13. ASSUME loader' = loader, data' = data \/ \E d, sv, ld : data' = Freed(d, data, sv, ld)
         PROVE  Files1 /\ \A l \in Loaders : Of(l)
    BY <1>3, <1>4, <1>13
  <1>14. ASSUME NEW s \in Savers, NEW n \in DOMAIN Published, NEW o \in DOMAIN SaveOptions,
                SaveRefused(s, n, o) \/ BeginSave(s, n, o)
         PROVE  Files1 /\ \A l \in Loaders : Of(l)
    BY <1>13, <1>14 DEF SaveRefused, BeginSave
  <1>15. ASSUME NEW s \in Savers, Rename(s) \/ FinishInPlace(s) \/ SaveFails(s)
         PROVE  Files1 /\ \A l \in Loaders : Of(l)
    BY <1>13, <1>15 DEF Rename, FinishInPlace, SaveFails
  <1>16. ASSUME NEW p \in Processes, Crash(p) PROVE Files1 /\ \A l \in Loaders : Of(l)
    BY <1>13, <1>16 DEF Crash
  <1>17. CASE UNCHANGED vars
    BY <1>13, <1>17 DEF vars
  <1> QED BY <1>7, <1>8, <1>9, <1>10, <1>11, <1>12, <1>14, <1>15, <1>16, <1>17 DEF Next

LEMMA ForeignInvariant == Spec => []ForeignKnown
BY TypedInvariant, InitForeign, NextForeign, PTL DEF Spec

(* LoadValidation::Full, for any savers, loaders, saved snapshots and      *)
(* foreign files: a store that full validation accepts has each of its     *)
(* relationships once, and every query that its profile has an index for   *)
(* finds the ones that match, each of them once.                           *)
THEOREM FullLoadsAreExact == Spec => []FullLoadExact
  <1>1. ASSUME NEW x \in SavedContents PROVE Raw(SavedArtifact(x))
    <2>1. SnapshotOf(x).rels \in Seq(Rel)
      BY SnapshotConstants DEF SavedContents, SavedAs, SnapshotOf, Rel
    <2> QED BY <2>1, SavedIsRaw DEF SavedArtifact
  <1>2. LoadsInv /\ ForeignKnown => FullLoadExact
    <2> SUFFICES ASSUME LoadsInv, ForeignKnown, NEW l \in Loaders, loader[l].result = "loaded",
                        loader[l].opts.validation = "full"
                 PROVE  IF Saved(loader[l].store) THEN <<loader[l].store, "full">> \in SavedConsistent
                        ELSE SelfConsistent(Loaded(foreign, "full"))
      BY DEF FullLoadExact
    <2>1. loader[l].store \in Contents /\ Loads(loader[l].store, loader[l].opts)
      BY DEF LoadsInv, LoadedWhole
    <2>2. CASE Saved(loader[l].store)
      <3>1. PICK x \in SavedContents : x = loader[l].store /\ <<x, "full">> \in SavedDecodes
        BY <2>1, <2>2 DEF Loads, Saved
      <3>2. Decodes(SavedArtifact(x), "full")
        BY <3>1 DEF SavedDecodes
      <3>3. SelfConsistent(Loaded(SavedArtifact(x), "full"))
        BY <1>1, <3>2, FullIsConsistent
      <3> QED BY <2>2, <3>1, <3>3 DEF SavedConsistent
    <2>3. CASE ~Saved(loader[l].store)
      <3>1. loader[l].store = ForeignFile
        BY <2>1, <2>3 DEF Contents, Saved
      <3>2. foreign \in Foreign /\ Decodes(foreign, "full")
        BY <2>1, <2>3, <3>1 DEF ForeignKnown, Loads
      <3>3. Raw(foreign)
        BY <3>2, SnapshotConstants
      <3> QED BY <2>3, <3>2, <3>3, FullIsConsistent
    <2> QED BY <2>2, <2>3
  <1> QED BY <1>2, LoadsInvariant, ForeignInvariant, PTL

-----------------------------------------------------------------------------
(* Loads of saved files.                                                   *)

(* A load that checks the digest returns the revision and the              *)
(* relationships of a snapshot that was saved, or a foreign file, whole.   *)
THEOREM LoadsReturnWhatWasSaved == Spec => []LoadedWasSaved
  <1>1. LoadsInv => LoadedWasSaved
    <2> SUFFICES ASSUME LoadsInv, NEW l \in Loaders, loader[l].result = "loaded",
                        loader[l].opts.integrity = "checksum"
                 PROVE  /\ Saved(loader[l].store) =>
                              <<loader[l].store, loader[l].opts.validation>> \in ReadsBack
                        /\ FileOf(loader[l].store) = loader[l].read
                        /\ loader[l].opened # NoContent => loader[l].opened = loader[l].store
      BY DEF LoadedWasSaved
    <2>1. LoadedWhole(l)
      BY DEF LoadsInv
    <2>2. loader[l].opts.validation \in Validations
      BY <2>1, SnapshotConstants DEF LoadedWhole
    <2>3. Saved(loader[l].store) =>
              <<loader[l].store, loader[l].opts.validation>> \in ReadsBack
      BY <2>2, SavesReadBack DEF FormatReadsBack, SaveReads, Saved
    <2> QED BY <2>1, <2>3 DEF LoadedWhole
  <1> QED BY <1>1, LoadsInvariant, PTL

(* A load of a complete saved file, with options that fit it, succeeds     *)
(* whatever is saved over it meanwhile, and its store answers as what was  *)
(* saved.                                                                  *)
THEOREM SavedFilesLoad == Spec => []SavedLoads
  <1>1. ASSUME NEW x \in SavedContents, NEW v \in Validations
        PROVE  <<x, v>> \in SavedDecodes /\ <<x, v>> \in AnswersAsSaved
    BY SavesReadBack DEF FormatReadsBack, SaveReads, ReadsBack
  <1>2. LoadsInv => SavedLoads
    <2> SUFFICES ASSUME LoadsInv, NEW l \in Loaders, loader[l].pc = "done", Saved(loader[l].opened),
                        Fits(loader[l].opts, loader[l].opened)
                 PROVE  /\ loader[l].result = "loaded"
                        /\ <<loader[l].store, loader[l].opts.validation>> \in AnswersAsSaved
      BY DEF SavedLoads
    <2>1. UndisturbedLoads(l)
      BY DEF LoadsInv
    <2>2. loader[l].opts \in LoadOptions /\ loader[l].opts.validation \in Validations
      BY <2>1, SnapshotConstants DEF UndisturbedLoads
    <2>3. Loads(loader[l].opened, loader[l].opts)
      BY <1>1, <2>2 DEF Loads, Fits, Saved
    <2>4. loader[l].result = "loaded" /\ loader[l].store = loader[l].opened
      BY <2>1, <2>3 DEF UndisturbedLoads
    <2> QED BY <1>1, <2>2, <2>4 DEF Saved
  <1> QED BY <1>2, LoadsInvariant, PTL

=============================================================================
