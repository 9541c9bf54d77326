------------------------- MODULE ArtifactBlobLayout -------------------------
(***************************************************************************)
(* The bytes of a dependency artifact: how a graph is cut into sections,   *)
(* how they are placed behind a table of contents (TOC), and what a reader *)
(* makes of a section of a payload that may be damaged.                    *)
(*                                                                         *)
(* A graph is a sequence of snapshots, and a declaration's ordinal counts  *)
(* from 0 through all of them.  A checksum is what it is taken of: the     *)
(* kind and the first ordinal of a section.  A read that can fail is the   *)
(* set of what it returns, empty when it returns an error.  An option is a *)
(* sequence of at most one value.                                          *)
(***************************************************************************)
EXTENDS Naturals, SequencesExt

CONSTANTS
    Capacity,      \* SYMBOL_DETAIL_BLOCK_ENTRY_CAPACITY
    Occurrences,   \* STRING_INTERN_MIN_OCCURRENCES
    LongStrings,   \* the strings of STRING_INTERN_MIN_BYTES and more
    HeaderSize,    \* HEADER_SIZE
    EntryBytes,    \* for each kind of section, the bytes of one entry
    VarintBase     \* the first number whose varint has two bytes

Kinds == {"dictionary", "hierarchy", "directory", "detail", "facts"}

ASSUME LayoutAssumption ==
    /\ Capacity \in Nat \ {0}
    /\ Occurrences \in Nat \ {0}
    /\ HeaderSize \in Nat
    /\ EntryBytes \in [Kinds -> Nat \ {0}]
    /\ VarintBase \in Nat

\* What a worker may hand over.  An owner and a qualified name are options, and
\* a provenance is the index of one that its snapshot has.
Declarations ==
    [id : STRING, kind : STRING, qualified : Seq(STRING), owner : Seq(STRING),
     modifiers : Seq(STRING), language : STRING, provenance : Nat]
Snapshots ==
    [unit : STRING, provenances : Seq(STRING), symbols : Seq(Declarations),
     hierarchy : Seq([subtype : STRING, supertype : STRING])]
IsGraph(graph) ==
    /\ graph \in Seq(Snapshots)
    /\ \A n \in DOMAIN graph : \A s \in ToSet(graph[n].symbols) :
        /\ Len(s.qualified) <= 1 /\ Len(s.owner) <= 1
        /\ s.provenance < Len(graph[n].provenances)

Option(condition, value) == IF condition THEN <<value>> ELSE << >>
Or(option, default) == IF option = << >> THEN default ELSE option[1]

-----------------------------------------------------------------------------
(* The graph a worker hands over, and its form in a GraphFacts section.     *)

Symbols(graph) == FlattenSeq([i \in DOMAIN graph |-> graph[i].symbols])
Edges(graph) == FlattenSeq([i \in DOMAIN graph |-> graph[i].hierarchy])
Ids(graph) == {Symbols(graph)[i].id : i \in DOMAIN Symbols(graph)}
FirstOrdinal(graph, i) == Len(Symbols(SubSeq(graph, 1, i - 1)))
OrdinalOf(graph, id) == SelectInSeq(Symbols(graph), LAMBDA s : s.id = id) - 1

\* A reference to a declaration: by ordinal when it is local, else by ID.
Reference(graph, ordinalized, id) ==
    IF ordinalized /\ id \in Ids(graph)
    THEN [id |-> "", ordinal |-> <<OrdinalOf(graph, id)>>]
    ELSE [id |-> id, ordinal |-> << >>]

\* A fact's provenance is left out when it is its snapshot's, the first one.
InheritedProvenanceIndex(index) == Option(index # 0, index)

EncodedSymbol(graph, ordinalized, symbol) ==
    [symbol EXCEPT
        !.owner = [o \in DOMAIN symbol.owner |-> Reference(graph, ordinalized, symbol.owner[o])],
        !.provenance = InheritedProvenanceIndex(symbol.provenance)]

EncodedEdge(graph, ordinalized, edge) ==
    [subtype |-> Reference(graph, ordinalized, edge.subtype),
     supertype |-> Reference(graph, ordinalized, edge.supertype)]

EncodedSnapshot(graph, ordinalized, s) ==
    [s EXCEPT
        !.symbols = [i \in DOMAIN s.symbols |-> EncodedSymbol(graph, ordinalized, s.symbols[i])],
        !.hierarchy = [i \in DOMAIN s.hierarchy |-> EncodedEdge(graph, ordinalized, s.hierarchy[i])]]

EncodedGraph(graph, ordinalized) ==
    [i \in DOMAIN graph |-> EncodedSnapshot(graph, ordinalized, graph[i])]

\* local_id, local_optional
LocalId(reference, ids) ==
    IF reference.ordinal # << >> /\ reference.ordinal[1] < Len(ids)
    THEN ids[reference.ordinal[1] + 1] ELSE reference.id

\* One declaration as the rest of Core sees it.
Declaration(symbol, owner, provenance, unit) ==
    [id |-> symbol.id, kind |-> symbol.kind, qualified |-> symbol.qualified, owner |-> owner,
     modifiers |-> symbol.modifiers, language |-> symbol.language, provenance |-> provenance,
     unit |-> unit]

DecodedSymbol(symbol, snapshot, ids) ==
    Declaration(symbol,
                [o \in DOMAIN symbol.owner |-> LocalId(symbol.owner[o], ids)],
                snapshot.provenances[Or(symbol.provenance, 0) + 1], snapshot.unit)

DecodedEdge(edge, ids) ==
    [subtype |-> LocalId(edge.subtype, ids), supertype |-> LocalId(edge.supertype, ids)]

DecodedGraph(graph) ==
    LET ids == [i \in DOMAIN Symbols(graph) |-> Symbols(graph)[i].id]
    IN  [symbols |-> UNION {{DecodedSymbol(s.symbols[i], s, ids) : i \in DOMAIN s.symbols} :
                              s \in ToSet(graph)},
         hierarchy |-> {DecodedEdge(Edges(graph)[i], ids) : i \in DOMAIN Edges(graph)}]

-----------------------------------------------------------------------------
(* A detail block: declarations of one snapshot, with what they share.      *)

CommonField(values) ==
    IF values # << >> /\ \A i \in DOMAIN values : values[i] = values[1] THEN values[1] ELSE ""
CommonOption(values) ==
    IF values # << >> /\ \A i \in DOMAIN values : values[i] = values[1] THEN values[1] ELSE << >>

StringsOf(symbol) ==
    <<symbol.kind>> \o symbol.qualified
        \o [o \in DOMAIN symbol.owner |-> symbol.owner[o].id] \o symbol.modifiers

\* StringTable::from_symbols
StringTable(symbols) ==
    LET all == FlattenSeq([i \in DOMAIN symbols |-> StringsOf(symbols[i])])
    IN  SetToSeq({v \in LongStrings : Cardinality({i \in DOMAIN all : all[i] = v}) >= Occurrences})

\* A string of a block: its place in the table, counted from 0, or itself.
Inline(table, value) ==
    IF value \in ToSet(table)
    THEN [inline |-> "", index |-> <<SelectInSeq(table, LAMBDA v : v = value) - 1>>]
    ELSE [inline |-> value, index |-> << >>]

\* Several strings are all in the table or all inline.
InlineMany(table, values) ==
    IF values # << >> /\ ToSet(values) \subseteq ToSet(table)
    THEN [inline |-> << >>, indexes |-> [i \in DOMAIN values |-> Inline(table, values[i]).index[1]]]
    ELSE [inline |-> values, indexes |-> << >>]

SnapshotDefaults(snapshot, symbols, table) ==
    [unit |-> snapshot.unit, provenances |-> snapshot.provenances,
     language |-> CommonField([i \in DOMAIN symbols |-> symbols[i].language]),
     provenance |-> CommonOption([i \in DOMAIN symbols |-> symbols[i].provenance]),
     strings |-> table]

\* The ordinal of an owner has no field in a detail, so a local owner is left out.
SymbolDetail(symbol, defaults) ==
    LET inline(option) == [i \in DOMAIN option |-> Inline(defaults.strings, option[i])]
        foreign == IF \E o \in ToSet(symbol.owner) : o.ordinal # << >>
                   THEN << >> ELSE symbol.owner
    IN  [id |-> symbol.id,
         kind |-> Inline(defaults.strings, symbol.kind),
         qualified |-> inline(symbol.qualified),
         owner |-> inline([o \in DOMAIN foreign |-> foreign[o].id]),
         modifiers |-> InlineMany(defaults.strings, symbol.modifiers),
         language |-> Option(symbol.language # defaults.language, symbol.language),
         provenance |-> IF symbol.provenance # defaults.provenance THEN symbol.provenance ELSE << >>]

DetailBlock(snapshot, first, symbols, interned) ==
    LET table == IF interned THEN StringTable(symbols) ELSE << >>
        defaults == SnapshotDefaults(snapshot, symbols, table)
    IN  [first |-> first, defaults |-> defaults,
         entries |-> [i \in DOMAIN symbols |-> SymbolDetail(symbols[i], defaults)]]

\* Blocks hold at most Capacity declarations and never those of two snapshots.
DetailBlocks(graph, interned) ==
    FlattenSeq([n \in DOMAIN graph |->
        LET symbols == graph[n].symbols
            chunks == (Len(symbols) + Capacity - 1) \div Capacity
        IN  [c \in 1..chunks |->
                LET from == (c - 1) * Capacity
                    to == IF from + Capacity < Len(symbols) THEN from + Capacity ELSE Len(symbols)
                IN  DetailBlock(graph[n], FirstOrdinal(graph, n) + from,
                                SubSeq(symbols, from + 1, to), interned)]])

\* decode_symbol_detail
TextOf(string, table) ==
    IF string.index = << >> THEN string.inline ELSE table[string.index[1] + 1]

DecodedDetail(block, detail) ==
    LET text(option) == [i \in DOMAIN option |-> TextOf(option[i], block.defaults.strings)]
        many == detail.modifiers
    IN  [id |-> detail.id,
         kind |-> TextOf(detail.kind, block.defaults.strings),
         qualified |-> text(detail.qualified),
         owner |-> text(detail.owner),
         modifiers |-> IF many.indexes = << >> THEN many.inline
                       ELSE [i \in DOMAIN many.indexes |->
                                block.defaults.strings[many.indexes[i] + 1]],
         language |-> Or(detail.language, block.defaults.language),
         provenance |->
            block.defaults.provenances[Or(detail.provenance, Or(block.defaults.provenance, 0)) + 1],
         unit |-> block.defaults.unit]

\* Faulty variant of the next definition: every block is taken for a full one.
DecodeByCapacity(block, ordinal) ==
    {DecodedDetail(block, block.entries[i]) :
        i \in {j \in DOMAIN block.entries : j = (ordinal % Capacity) + 1}}

DecodeSymbolDetail(block, ordinal) ==
    {DecodedDetail(block, block.entries[i]) :
        i \in {j \in DOMAIN block.entries : block.first + j = ordinal + 1}}

-----------------------------------------------------------------------------
(* The sections of a payload and their places.                              *)

\* A writer makes local references ordinals or not, interns strings or not,
\* and writes hierarchy postings or is too old to.
Section(kind, entries, compression, start, end) ==
    [kind |-> kind, entries |-> entries, compression |-> compression, start |-> start, end |-> end,
     length |-> EntryBytes[kind] * Len(entries),
     sha |-> IF entries = << >> THEN <<"nothing", 0>> ELSE <<kind, start>>]

DirectoryEntries(graph) ==
    FlattenSeq([i \in DOMAIN Symbols(graph) |->
        LET named == Symbols(graph)[i].qualified
        IN  [n \in DOMAIN named |-> [qualified |-> named[n], ordinal |-> i - 1]]])

Sections(given, writer) ==
    LET graph == EncodedGraph(given, writer.ordinalized)
        details == DetailBlocks(graph, writer.interned)
        count(block) == Len(block.entries)
        blocks == [i \in DOMAIN details |->
                      Section("detail", <<details[i]>>, 0, details[i].first,
                              details[i].first + count(details[i]))]
        facts == <<Section("facts", <<graph>>, 1, 0, 0)>>
        ids == [i \in DOMAIN Symbols(graph) |-> Symbols(graph)[i].id]
    IN  <<Section("dictionary", ids, 0, 0, 0)>>
            \o (IF writer.postings THEN <<Section("hierarchy", Edges(given), 0, 0, 0)>> ELSE << >>)
            \o <<Section("directory", DirectoryEntries(graph), 0, 0, 0)>>
            \o (IF writer.interned THEN facts \o blocks ELSE blocks \o facts)

VarintBytes(n) ==
    IF n < VarintBase THEN 1 ELSE IF n < VarintBase * VarintBase THEN 2 ELSE 3
SumOf(lengths) ==
    LET sum[i \in 0..Len(lengths)] == IF i = 0 THEN 0 ELSE sum[i - 1] + lengths[i]
    IN  sum[Len(lengths)]
TocLength(toc) ==
    SumOf([i \in DOMAIN toc |-> VarintBytes(toc[i].offset) + VarintBytes(toc[i].length)])

\* One round of the loop that places the sections: the TOC's own length, which
\* depends on the offsets, is taken from the round before.
Placed(sections, toc) ==
    [i \in DOMAIN sections |->
        [kind |-> sections[i].kind, length |-> sections[i].length, sha |-> sections[i].sha,
         compression |-> sections[i].compression, start |-> sections[i].start,
         end |-> sections[i].end,
         offset |-> HeaderSize + TocLength(toc)
                        + SumOf([j \in 1..(i - 1) |-> sections[j].length])]]

\* What is written: header, TOC, and the sections one after another.
Payload(sections, toc) ==
    [header |-> "valid", tocEnd |-> HeaderSize + TocLength(toc), toc |-> toc,
     parts |-> [i \in DOMAIN sections |->
        [offset |-> HeaderSize + TocLength(toc) + SumOf([j \in 1..(i - 1) |-> sections[j].length]),
         length |-> sections[i].length, sha |-> sections[i].sha, entries |-> sections[i].entries]],
     length |-> HeaderSize + TocLength(toc)
                    + SumOf([j \in DOMAIN sections |-> sections[j].length])]

-----------------------------------------------------------------------------
(* Reading.                                                                 *)

\* toc_location and parse_toc
Opens(payload) ==
    /\ payload.header = "valid"
    /\ payload.tocEnd <= payload.length
    /\ \A i \in DOMAIN payload.toc :
        /\ payload.toc[i].offset >= payload.tocEnd
        /\ payload.toc[i].offset + payload.toc[i].length <= payload.length

\* The bytes of a range are those of a section only where one begins and ends.
ReadRange(payload, offset, length) ==
    IF length = 0 THEN {[sha |-> <<"nothing", 0>>, entries |-> << >>]}
    ELSE {[sha |-> p.sha, entries |-> p.entries] :
            p \in {q \in ToSet(payload.parts) : q.offset = offset /\ q.length = length}}

\* decompress_section: only GraphFacts are compressed when they are written.
Decompresses(section, bytes) ==
    \/ section.compression = 0 /\ bytes.sha[1] # "facts"
    \/ section.compression = 1 /\ bytes.sha[1] = "facts"

SectionBytes(payload, section) ==
    {bytes.entries : bytes \in {b \in ReadRange(payload, section.offset, section.length) :
                                  section.sha = b.sha /\ Decompresses(section, b)}}

SectionOf(payload, kind) == SelectInSeq(payload.toc, LAMBDA s : s.kind = kind)
HasSection(payload, kind) == SectionOf(payload, kind) # 0
ReadSection(payload, kind) ==
    IF HasSection(payload, kind)
    THEN SectionBytes(payload, payload.toc[SectionOf(payload, kind)]) ELSE {}

\* detail_section: the first block whose interval of ordinals holds this one.
DetailSection(payload, ordinal) ==
    SelectInSeq(payload.toc,
                LAMBDA s : s.kind = "detail" /\ s.start <= ordinal /\ ordinal < s.end)
SymbolDetailBlockStart(payload, ordinal) == payload.toc[DetailSection(payload, ordinal)].start
SymbolDetailBlock(payload, ordinal) ==
    IF DetailSection(payload, ordinal) = 0 THEN {}
    ELSE {entries[1] : entries \in SectionBytes(payload, payload.toc[DetailSection(payload, ordinal)])}
GraphFacts(payload) == {entries[1] : entries \in ReadSection(payload, "facts")}
=============================================================================
