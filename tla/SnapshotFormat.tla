--------------------------- MODULE SnapshotFormat ---------------------------
(***************************************************************************)
(* The sections of a snapshot file (src/src/relationship.rs): how a store  *)
(* is written as symbols, rows, and seven posting indexes, and how the     *)
(* sections are checked and turned back into a store.                      *)
(*                                                                         *)
(* A relationship is a tuple of six names; a file numbers its symbols from *)
(* 1 and writes 0 where a subject has no relation.  Numbers are written in *)
(* little-endian bytes, as many as the largest one needs, so a number that *)
(* is too large for its width loses its high bytes.  ByteBase is 256 in    *)
(* the code; a small base reaches every width with few symbols.            *)
(***************************************************************************)
EXTENDS Integers, SequencesExt

CONSTANTS Names,          \* strings that the interner holds
          NoName,         \* a subject without a relation, a filter's open field
          HashValue,      \* hash_value of each name
          FieldNames,     \* the names each of a row's six fields may have
          ByteBase        \* values of a byte

(* Relationship: a name of its domain in each field, but a subject may     *)
(* have no relation.                                                       *)
IsRelationship(rel) ==
    /\ rel \in [1..6 -> Names \cup {NoName}]
    /\ \A f \in 1..6 : rel[f] \in FieldNames[f] \/ (f = 6 /\ rel[f] = NoName)

ASSUME FormatAssumption ==
    /\ NoName \notin Names
    /\ HashValue \in [Names -> Nat]
    /\ FieldNames \in [1..6 -> SUBSET Names]
    /\ ByteBase \in Nat /\ ByteBase % 2 = 0 /\ ByteBase >= 4

Profiles == {"Full", "CheckOnly", "CheckAndObjectAudit"}

(* supports_broad_resource_indexes, supports_subject_reverse_lookup.       *)
Broad(profile) == profile = "Full"

Satisfies(profile, required) ==
    profile = "Full" \/ required = "CheckOnly" \/ profile = required

-----------------------------------------------------------------------------
(* Numbers.                                                                *)

(* The sum of the first n of a sequence of numbers, for each n.            *)
Sums(numbers) ==
    LET sum[n \in 0..Len(numbers)] == IF n = 0 THEN 0 ELSE sum[n - 1] + numbers[n]
    IN  sum

Total(numbers) == Sums(numbers)[Len(numbers)]

(* Where each of several sequences ends if they are written in a row.      *)
Ends(seqs) == Sums([i \in DOMAIN seqs |-> Len(seqs[i])])

(* Sequences of one length, one after another.                             *)
Joined(seqs, width) ==
    [p \in 1..(Len(seqs) * width) |-> seqs[((p - 1) \div width) + 1][((p - 1) % width) + 1]]

Power(base, n) ==
    LET power[i \in 0..n] == IF i = 0 THEN 1 ELSE base * power[i - 1]
    IN  power[n]

(* The n low digits of a value, and the value of digits.                   *)
Digits(value, base, n) == [i \in 1..n |-> (value \div Power(base, i - 1)) % base]
ValueOf(digits, base) == Total([i \in DOMAIN digits |-> digits[i] * Power(base, i - 1)])

Widths == 1..4
RowIdWidth == 4
Limit == Power(ByteBase, 4)    \* u32::MAX is Limit - 1

(* SnapshotKeyWidth::encode_value: the low `width` bytes.                  *)
Bytes(value, width) == Digits(value, ByteBase, width)

(* SnapshotKeyWidth::read_value.                                           *)
Value(bytes) == ValueOf(bytes, ByteBase)

(* SnapshotKeyWidth::for_max.                                              *)
WidthFor(max) == Min({w \in Widths : max < Power(ByteBase, w) \/ w = 4})

(* The j-th of the numbers that `bytes` holds at one width.                *)
Number(bytes, width, j) == Value(SubSeq(bytes, (j - 1) * width + 1, j * width))

(* A posting delta: half of a byte's values say that more bytes follow.    *)
Half == ByteBase \div 2
VarintLen == Min({n \in 1..8 : Power(Half, n) >= Limit})

Varint(delta) ==
    LET n == Min({k \in 1..VarintLen : delta < Power(Half, k)})
    IN  [i \in 1..n |-> Digits(delta, Half, n)[i] + IF i < n THEN Half ELSE 0]

-----------------------------------------------------------------------------
(* The indexes.                                                            *)

Kinds == 1..7    \* Resource, ResourceObject, ResourceTypeRelation, ResourceType,
                 \* Subject, SubjectTypeRelation, SubjectType

KeyFieldCount == <<3, 2, 2, 1, 3, 2, 1>>

(* SnapshotIndexGroups::insert_row: the keys of one kind that a row of     *)
(* symbol ids is posted under.                                             *)
RowKeys(row, kind) ==
    CASE kind = 1 -> {<<row[1], row[2], row[3]>>}
      [] kind = 2 -> {<<row[1], row[2], 0>>}
      [] kind = 3 -> {<<row[1], row[3], 0>>}
      [] kind = 4 -> {<<row[1], 0, 0>>}
      [] kind = 5 -> {<<row[4], row[5], row[6]>>, <<row[4], row[5], 0>>}
      [] kind = 6 -> {<<row[4], relation, 0>> : relation \in {row[6]} \ {0}}
      [] kind = 7 -> {<<row[4], 0, 0>>}

RequiredByProfile(kind, profile) == kind = 1 \/ Broad(profile)

(* The order of DiskIndexKey.                                              *)
KeyLess(j, k) ==
    \/ j[1] < k[1]
    \/ j[1] = k[1] /\ j[2] < k[2]
    \/ j[1] = k[1] /\ j[2] = k[2] /\ j[3] < k[3]

(* A finite set in the order of a relation on it.                          *)
InOrder(S, R) ==
    [n \in 1..Cardinality(S) |-> CHOOSE x \in S : Cardinality({y \in S : <<y, x>> \in R}) = n - 1]

Ascending(I) == InOrder(I, {p \in I \X I : p[1] < p[2]})
SortedKeys(keys) == InOrder(keys, {p \in keys \X keys : KeyLess(p[1], p[2])})

(* The ids of the rows that a key of one kind lists, in order.             *)
Posting(rows, kind, key) == Ascending({i \in DOMAIN rows : key \in RowKeys(rows[i], kind)})

GroupKeys(rows, kind, profile) ==
    IF RequiredByProfile(kind, profile)
    THEN UNION {RowKeys(rows[i], kind) : i \in DOMAIN rows} ELSE {}

(* Mutant: the width of a group is that of its smallest key.               *)
KeyWidthOfFirst(keys) ==
    WidthFor(Max({0} \cup {k[f] : k \in {j \in keys : \A i \in keys \ {j} : KeyLess(j, i)}, f \in 1..3}))

(* snapshot_key_width: fields that a kind does not have are 0.             *)
KeyWidth(keys) == WidthFor(Max({0} \cup {k[f] : k \in keys, f \in 1..3}))

(* encode_v3_key.                                                          *)
EncodeKey(kind, width, key) ==
    Joined([f \in 1..KeyFieldCount[kind] |-> Bytes(key[f], width)], width)

(* encode_v3_posting_range: the row ids after the first, as deltas.        *)
EncodeOverflow(ids) == FlattenSeq([i \in 1..(Len(ids) - 1) |-> Varint(ids[i + 1] - ids[i])])

(* encode_v3_index_group: first the keys with one row, each with its row   *)
(* id, then the keys with several, each with a list.                       *)
Group(rows, kind, profile) ==
    LET keys == GroupKeys(rows, kind, profile)
        width == KeyWidth(keys)
        ids(key) == Posting(rows, kind, key)
        singles == SortedKeys({k \in keys : Len(ids(k)) = 1})
        multis == SortedKeys({k \in keys : Len(ids(k)) > 1})
    IN  [kind |-> kind, width |-> width, keyCount |-> Cardinality(keys),
         keys |-> Joined([i \in DOMAIN singles |->
                             EncodeKey(kind, width, singles[i]) \o Bytes(ids(singles[i])[1], RowIdWidth)],
                         KeyFieldCount[kind] * width + RowIdWidth)
                  \o Joined([i \in DOMAIN multis |-> EncodeKey(kind, width, multis[i])],
                            KeyFieldCount[kind] * width),
         lists |-> [i \in DOMAIN multis |-> ids(multis[i])]]

(* EncodedSnapshotIndexes::from_rows: the groups one after another.        *)
EncodeIndexes(groups) ==
    LET keys == [k \in Kinds |-> groups[k].keys]
        lists == [k \in Kinds |-> groups[k].lists]
        all == FlattenSeq(lists)
        overflows == [i \in DOMAIN all |-> EncodeOverflow(all[i])]
        start == Ends(overflows)
    IN  [dir |-> [k \in Kinds |->
                    [kind |-> k, width |-> groups[k].width,
                     keyStart |-> Ends(keys)[k - 1], keyCount |-> groups[k].keyCount,
                     rangeStart |-> Ends(lists)[k - 1], rangeCount |-> Len(lists[k])]],
         keys |-> FlattenSeq(keys),
         keyCount |-> Total([k \in Kinds |-> groups[k].keyCount]),
         ranges |-> [i \in DOMAIN all |-> [first |-> all[i][1], start |-> start[i - 1],
                                            len |-> Len(overflows[i])]],
         postings |-> FlattenSeq(overflows),
         postingCount |-> Total([k \in Kinds |-> Total([i \in DOMAIN lists[k] |-> Len(lists[k][i]) - 1])])]

-----------------------------------------------------------------------------
(* A file.                                                                 *)

(* IdentifierInterner::intern, over the fields of the rows in order: each  *)
(* name where it first occurs.                                             *)
Symbols(rels) ==
    LET names == Joined(rels, 6)
        first == Ascending({i \in DOMAIN names :
                              names[i] # NoName /\ \A j \in 1..(i - 1) : names[j] # names[i]})
    IN  [i \in DOMAIN first |-> names[first[i]]]

IdOf(symbols, name) ==
    IF name = NoName THEN 0 ELSE CHOOSE i \in DOMAIN symbols : symbols[i] = name

(* SnapshotEncodingLayout: compressed files keep numbers four bytes wide.  *)
SymbolWidth(count, compact) == IF compact THEN WidthFor(count) ELSE 4

(* The ids in the order of (hash, id).                                     *)
SortedIds(hashes) ==
    LET ids == DOMAIN hashes
    IN  InOrder(ids, {p \in ids \X ids : \/ hashes[p[1]] < hashes[p[2]]
                                         \/ hashes[p[1]] = hashes[p[2]] /\ p[1] < p[2]})

EncodeNumbers(numbers, width) == Joined([i \in DOMAIN numbers |-> Bytes(numbers[i], width)], width)

(* encode_snapshot_sections, write_header.  The canonical store of the     *)
(* view has one live row for each of rels, in that order.                  *)
Encode(rels, revision, schema, profile, compact) ==
    LET symbols == Symbols(rels)
        hashes == [i \in DOMAIN symbols |-> HashValue[symbols[i]]]
        rows == [i \in DOMAIN rels |-> [f \in 1..6 |-> IdOf(symbols, rels[i][f])]]
        width == SymbolWidth(Len(symbols), compact)
        indexes == EncodeIndexes([kind \in Kinds |-> Group(rows, kind, profile)])
    IN  [revision |-> revision, profile |-> profile, schema |-> schema, schemaHash |-> schema,
         rowCount |-> Len(rels), symbolCount |-> Len(symbols),
         symbols |-> symbols, hashes |-> hashes,
         lookup |-> EncodeNumbers(SortedIds(hashes), width), lookupWidth |-> width,
         rows |-> EncodeNumbers(Joined(rows, 6), width), rowWidth |-> width,
         dir |-> indexes.dir, keys |-> indexes.keys, keyCount |-> indexes.keyCount,
         ranges |-> indexes.ranges, postings |-> indexes.postings,
         postingCount |-> indexes.postingCount]

-----------------------------------------------------------------------------
(* Reading a file.  "full" validation checks what "trusted" assumes.       *)

(* What any file parses to: symbols are strings, and counts unsigned       *)
(* numbers.                                                                *)
Raw(a) ==
    /\ a.symbols \in Seq(Names)
    /\ a.symbolCount \in Nat /\ a.rowCount \in Nat
    /\ \A i \in Kinds : a.dir[i].keyCount \in Nat /\ a.dir[i].rangeCount \in Nat

LookupIds(a) == [i \in 1..a.symbolCount |-> Number(a.lookup, a.lookupWidth, i)]

DiskRows(a) ==
    [i \in 1..a.rowCount |-> [f \in 1..6 |-> Number(a.rows, a.rowWidth, 6 * (i - 1) + f)]]

(* symbol_lookup_key: a hash may be followed by a larger one, or by itself *)
(* with a larger id.                                                       *)
LookupSorted(hashes, ids) ==
    \A i \in 1..(Len(ids) - 1) :
        LET h == hashes[ids[i]] g == hashes[ids[i + 1]]
        IN  h < g \/ (h = g /\ ids[i] < ids[i + 1])

(* index_full_symbol_lookup: the hashes are those of the symbols, and no   *)
(* symbol occurs twice.                                                    *)
SymbolsIndexed(a) ==
    \A i \in 1..a.symbolCount : /\ a.hashes[i] = HashValue[a.symbols[i]]
                                /\ \A j \in 1..(i - 1) : a.symbols[j] # a.symbols[i]

(* IdentifierInterner::decode_snapshot_sections.                           *)
SymbolsOK(a, validation) ==
    /\ Len(a.symbols) = a.symbolCount
    /\ Len(a.hashes) = a.symbolCount
    /\ a.lookupWidth \in Widths
    /\ Len(a.lookup) = a.symbolCount * a.lookupWidth
    /\ \A i \in 1..a.symbolCount : LookupIds(a)[i] \in 1..a.symbolCount
    /\ LookupSorted(a.hashes, LookupIds(a))
    /\ validation = "full" => SymbolsIndexed(a)

(* validate_row_domains.                                                   *)
DomainsOK(a, row) == \A f \in 1..6 : row[f] # 0 => a.symbols[row[f]] \in FieldNames[f]

(* decode_snapshot_rows.                                                   *)
RowsOK(a, validation) ==
    /\ a.rowWidth \in Widths
    /\ Len(a.rows) = a.rowCount * 6 * a.rowWidth
    /\ \A i \in 1..a.rowCount :
          LET row == DiskRows(a)[i]
          IN  /\ \A f \in 1..6 : row[f] \in 1..a.symbolCount \/ (f = 6 /\ row[f] = 0)
              /\ validation = "full" => /\ DomainsOK(a, row)
                                        /\ \A j \in 1..(i - 1) : DiskRows(a)[j] # row

(* compact_index_key_span, index_range_span.                               *)
KeyLen(e) == KeyFieldCount[e.kind] * e.width
SingleCount(e) == e.keyCount - e.rangeCount
Span(from, len) == [from |-> from, to |-> from + len]
KeySpan(e) ==
    Span(e.keyStart, SingleCount(e) * (KeyLen(e) + RowIdWidth) + e.rangeCount * KeyLen(e))
RangeSpan(e) == Span(e.rangeStart, e.rangeCount)

(* validate_spans_cover: end to end from 0 to total, in some order.        *)
Covers(spans, total) ==
    LET I == DOMAIN spans
        earlier == {p \in I \X I :
                      LET s == spans[p[1]] t == spans[p[2]]
                      IN  s.from < t.from \/ (s.from = t.from /\ (s.to < t.to \/ (s.to = t.to /\ p[1] < p[2])))}
        order == InOrder(I, earlier)
        end(i) == IF i = 0 THEN 0 ELSE spans[order[i]].to
    IN  /\ \A i \in 1..Len(order) : spans[order[i]].from = end(i - 1)
        /\ end(Len(order)) = total

(* decode_index_directory.                                                 *)
DirectoryOK(a) ==
    /\ \A i \in Kinds : a.dir[i].kind \in Kinds /\ a.dir[i].width \in Widths
    /\ \A i, j \in Kinds : a.dir[i].kind = a.dir[j].kind => i = j

(* validate_v3_posting_row_id_spans.                                       *)
PostingSpansOK(a) ==
    LET span(i) == Span(a.ranges[i].start, a.ranges[i].len)
    IN  /\ \A i \in DOMAIN a.ranges : a.ranges[i].first \in 1..a.rowCount /\ span(i).to <= Len(a.postings)
        /\ Covers([i \in {j \in DOMAIN a.ranges : a.ranges[j].len > 0} |-> span(i)], Len(a.postings))

(* validate_v3_compact_index_sections.                                     *)
LayoutOK(a) ==
    /\ \A i \in Kinds : /\ a.dir[i].rangeCount <= a.dir[i].keyCount
                        /\ KeySpan(a.dir[i]).to <= Len(a.keys)
                        /\ RangeSpan(a.dir[i]).to <= Len(a.ranges)
    /\ Total([i \in Kinds |-> a.dir[i].keyCount]) = a.keyCount
    /\ Total([i \in Kinds |-> a.dir[i].rangeCount]) = Len(a.ranges)
    /\ Covers([i \in Kinds |-> KeySpan(a.dir[i])], Len(a.keys))
    /\ Covers([i \in Kinds |-> RangeSpan(a.dir[i])], Len(a.ranges))
    /\ PostingSpansOK(a)

(* decode_compact_key.                                                     *)
DecodeKey(e, bytes) ==
    [f \in 1..3 |-> IF f <= KeyFieldCount[e.kind] THEN Number(bytes, e.width, f) ELSE 0]

(* decode_posting_delta_varint: the deltas that bytes hold, each up to a   *)
(* byte that says no more bytes follow.                                    *)
DeltaEnds(bytes) == Ascending({i \in DOMAIN bytes : bytes[i] < Half})

Deltas(bytes) ==
    LET ends == DeltaEnds(bytes)
        from(k) == IF k = 1 THEN 1 ELSE ends[k - 1] + 1
    IN  [k \in DOMAIN ends |->
            ValueOf([i \in 1..(ends[k] - from(k) + 1) |-> bytes[from(k) + i - 1] % Half], Half)]

(* Truncated, too long, zero or too large deltas are refused.              *)
DeltasOK(bytes) ==
    /\ bytes # <<>> => Last(bytes) < Half
    /\ \A i \in 1..(Len(bytes) - VarintLen + 1) : \E j \in i..(i + VarintLen - 1) : bytes[j] < Half
    /\ \A k \in DOMAIN Deltas(bytes) : Deltas(bytes)[k] \in 1..(Limit - 1)

(* next_delta_row_id: each row id is the one before it and a delta.        *)
PostingBytes(a, r) == SubSeq(a.postings, r.start + 1, r.start + r.len)

PostingIds(a, r) ==
    LET deltas == Deltas(PostingBytes(a, r))
    IN  [i \in 1..(Len(deltas) + 1) |-> r.first + Sums(deltas)[i - 1]]

(* posting_row_id_iter: the row ids of a range, none if they are refused.  *)
DecodePosting(a, r) ==
    IF DeltasOK(PostingBytes(a, r)) /\ ToSet(PostingIds(a, r)) \subseteq 1..a.rowCount
    THEN PostingIds(a, r) ELSE <<>>

Entry(a, kind) == a.dir[CHOOSE i \in Kinds : a.dir[i].kind = kind]

(* decode_compact_singletons.                                              *)
Singles(a, e) ==
    [i \in 1..SingleCount(e) |->
        LET at == e.keyStart + (i - 1) * (KeyLen(e) + RowIdWidth)
            id == Value(SubSeq(a.keys, at + KeyLen(e) + 1, at + KeyLen(e) + RowIdWidth))
        IN  [key |-> DecodeKey(e, SubSeq(a.keys, at + 1, at + KeyLen(e))),
             ids |-> DecodePosting(a, [first |-> id, start |-> 0, len |-> 0])]]

(* decode_compact_multi_entries.                                           *)
Multis(a, e) ==
    [i \in 1..e.rangeCount |->
        LET at == e.keyStart + SingleCount(e) * (KeyLen(e) + RowIdWidth) + (i - 1) * KeyLen(e)
        IN  [key |-> DecodeKey(e, SubSeq(a.keys, at + 1, at + KeyLen(e))),
             ids |-> DecodePosting(a, a.ranges[e.rangeStart + i])]]

(* validate_sorted_entries.                                                *)
EntriesSorted(entries) ==
    \A i \in 1..(Len(entries) - 1) : KeyLess(entries[i].key, entries[i + 1].key)

(* resource_key_from_disk and the others: a symbol in each field a kind    *)
(* has; a subject's relation may be absent.                                *)
KeyOK(a, kind, key) ==
    \A f \in 1..KeyFieldCount[kind] :
        key[f] \in 1..a.symbolCount \/ (kind = 5 /\ f = 3 /\ key[f] = 0)

(* merge_compact_entries: the entries of one index, in no order.           *)
Merged(a, kind) == ToSet(Singles(a, Entry(a, kind))) \cup ToSet(Multis(a, Entry(a, kind)))

(* snapshot_index_entries, compact_snapshot_index_entries.                 *)
EntriesOK(a, kind) ==
    LET singles == Singles(a, Entry(a, kind)) multis == Multis(a, Entry(a, kind))
    IN  /\ \E i \in Kinds : a.dir[i].kind = kind
        /\ EntriesSorted(singles) /\ EntriesSorted(multis)
        /\ \A i \in DOMAIN singles, j \in DOMAIN multis : singles[i].key # multis[j].key

(* decode_trusted_fast_index, and decode_index makes these checks too.     *)
TrustedIndexOK(a, kind) == \A x \in Merged(a, kind) : KeyOK(a, kind, x.key) /\ x.ids # <<>>

(* row_matches_resource_key and the others: a row matches the keys that it *)
(* is posted under.                                                        *)
RowMatches(row, kind, key) == key \in RowKeys(row, kind)

(* subject_index_coverage_bit; simple_index_coverage_bit for the others.   *)
CoverageBit(kind, key) == IF kind = 5 /\ key[3] # 0 THEN 2 ELSE 1

(* expected_mask, as the set of its bits.                                  *)
ExpectedBits(kind, row) ==
    CASE kind = 5 -> IF row[6] = 0 THEN {1} ELSE {1, 2}
      [] kind = 6 -> IF row[6] = 0 THEN {} ELSE {1}
      [] OTHER -> {1}

(* Mutant: rows that an index leaves out are not noticed.                  *)
IndexMatchesRows(a, kind, rows) ==
    \A x \in Merged(a, kind) : \A i \in ToSet(x.ids) : RowMatches(rows[i], kind, x.key)

(* decode_index: each listed row has the key, no row is listed twice for   *)
(* one bit, and every row has the bits that the profile requires.          *)
IndexOK(a, kind, rows) ==
    LET index == Merged(a, kind)
        bits(i) == {CoverageBit(kind, x.key) : x \in {y \in index : i \in ToSet(y.ids)}}
    IN  /\ \A x \in index : \A i \in ToSet(x.ids) : RowMatches(rows[i], kind, x.key)
        /\ \A x, y \in index : \A i \in DOMAIN x.ids, j \in DOMAIN y.ids :
              x.ids[i] = y.ids[j] /\ CoverageBit(kind, x.key) = CoverageBit(kind, y.key) => x = y /\ i = j
        /\ \A i \in DOMAIN rows :
              bits(i) = IF RequiredByProfile(kind, a.profile) THEN ExpectedBits(kind, rows[i]) ELSE {}

(* validate_decoded_posting_row_id_count.                                  *)
OverflowIds(a) ==
    Total([kind \in Kinds |->
              LET multis == Multis(a, Entry(a, kind))
              IN  Total([i \in DOMAIN multis |-> Len(multis[i].ids) - 1])])

(* DecodedSnapshotIndexes::decode.                                         *)
IndexesOK(a, validation) ==
    /\ DirectoryOK(a)
    /\ a.keys = <<>> => a.keyCount = 0
    /\ LayoutOK(a)
    /\ \A kind \in Kinds : EntriesOK(a, kind) /\ TrustedIndexOK(a, kind)
    /\ validation = "full" => \A kind \in Kinds : IndexOK(a, kind, DiskRows(a))
    /\ OverflowIds(a) = a.postingCount

(* parse_header.                                                           *)
HeaderOK(a) == a.revision > 0 /\ a.profile \in Profiles

(* compile_snapshot_schema: a schema stands for its own hash.              *)
SchemaOK(a) == a.schemaHash = a.schema

(* load_snapshot_file_inner, once the file is read.                        *)
Decodes(a, validation) ==
    /\ HeaderOK(a)
    /\ SchemaOK(a)
    /\ SymbolsOK(a, validation)
    /\ RowsOK(a, validation)
    /\ IndexesOK(a, validation)

(* The loaded store.  Only a trusted one keeps the file's hashes and its   *)
(* sorted lookup; the other one indexes the names it has hashed.           *)
Loaded(a, validation) ==
    [revision |-> a.revision, schema |-> a.schema, profile |-> a.profile,
     symbols |-> a.symbols, hashes |-> a.hashes,
     lookup |-> IF validation = "full" THEN <<>> ELSE LookupIds(a),
     rows |-> DiskRows(a),
     unique |-> IF validation = "full" THEN "known" ELSE "untrusted",
     index |-> [kind \in Kinds |-> Merged(a, kind)]]

-----------------------------------------------------------------------------
(* Asking a loaded store.                                                  *)

(* IdentifierInterner::lookup: the first id of the name's hash that has    *)
(* the name, 0 if there is none.                                           *)
Lookup(store, name) ==
    LET ids == IF store.lookup = <<>> THEN [i \in DOMAIN store.symbols |-> i] ELSE store.lookup
        at == SelectInSeq(ids, LAMBDA id : store.hashes[id] = HashValue[name]
                                           /\ store.symbols[id] = name)
    IN  IF at = 0 THEN 0 ELSE ids[at]

NameOf(store, id) == IF id = 0 THEN NoName ELSE store.symbols[id]

(* The relationships of a store.                                           *)
RowNames(store) == [i \in DOMAIN store.rows |-> [f \in 1..6 |-> NameOf(store, store.rows[i][f])]]

(* A filter names a type, and may name an id and a relation, on either     *)
(* side of a relationship.                                                 *)
Sides == {"resource", "subject"}
FilterNames == Names \X (Names \cup {NoName}) \X (Names \cup {NoName})

(* resource_candidate_row_ids, subject_candidate_row_ids: the index.       *)
KindFor(side, f) ==
    CASE side = "resource" /\ f[2] # NoName /\ f[3] # NoName -> 1
      [] side = "resource" /\ f[2] # NoName /\ f[3] = NoName -> 2
      [] side = "resource" /\ f[2] = NoName /\ f[3] # NoName -> 3
      [] side = "resource" /\ f[2] = NoName /\ f[3] = NoName -> 4
      [] side = "subject" /\ f[2] # NoName -> 5
      [] side = "subject" /\ f[2] = NoName /\ f[3] # NoName -> 6
      [] side = "subject" /\ f[2] = NoName /\ f[3] = NoName -> 7

(* The key of a filter's symbol ids.                                       *)
KeyFor(kind, ids) == IF kind \in {3, 6} THEN <<ids[1], ids[3], 0>> ELSE ids

(* resource_matcher, subject_matcher: a name that was never interned       *)
(* matches nothing.                                                        *)
Interned(store, f) == [i \in 1..3 |-> IF f[i] = NoName THEN 0 ELSE Lookup(store, f[i])]

(* matches_resource, matches_subject.                                      *)
MatchesIds(side, row, ids) ==
    LET fields == IF side = "resource" THEN <<1, 2, 3>> ELSE <<4, 5, 6>>
    IN  \A i \in 1..3 : ids[i] = 0 \/ row[fields[i]] = ids[i]

(* query_compact_relationships, reverse_query_compact_relationships: the   *)
(* ids of the rows that are returned, by their places in the posting.      *)
Query(store, side, f) ==
    LET ids == Interned(store, f)
        kind == KindFor(side, f)
        hit == {x \in store.index[kind] : x.key = KeyFor(kind, ids)}
    IN  IF hit = {} \/ \E i \in 1..3 : f[i] # NoName /\ ids[i] = 0 THEN <<>>
        ELSE LET posting == (CHOOSE x \in hit : TRUE).ids
             IN  [n \in {m \in DOMAIN posting : MatchesIds(side, store.rows[posting[m]], ids)} |->
                    posting[n]]

(* The relationships of a set that a filter describes.                     *)
MatchesNames(side, rel, f) ==
    LET fields == IF side = "resource" THEN <<1, 2, 3>> ELSE <<4, 5, 6>>
    IN  \A i \in 1..3 : f[i] = NoName \/ rel[fields[i]] = f[i]

(* Every query that the profile of a store has an index for returns the    *)
(* relationships that match, each of them once.                            *)
AnswersExactly(store, rels) ==
    \A side \in Sides, f \in FilterNames :
        RequiredByProfile(KindFor(side, f), store.profile) =>
            LET found == Query(store, side, f)
                names == [i \in DOMAIN found |-> RowNames(store)[found[i]]]
            IN  /\ ToSet(names) = {rel \in ToSet(rels) : MatchesNames(side, rel, f)}
                /\ IsInjective(names)

=============================================================================
