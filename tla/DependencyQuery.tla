--------------------------- MODULE DependencyQuery ---------------------------
(***************************************************************************)
(* Queries over cached dependency artifacts: a worker encodes and publishes*)
(* the payload of an artifact, the file may be damaged or removed, and a   *)
(* query walks the artifacts whose catalog names what it asks for, reading *)
(* each payload section by section.  The catalog is the project index's    *)
(* and does not change here; ArtifactCache has the races of publication.   *)
(***************************************************************************)
EXTENDS ArtifactBlobLayout

CONSTANTS
    Artifacts,
    Graph,        \* the graph of each artifact
    Catalog,      \* the [name, id] an artifact's catalog advertises
    Writers,      \* the ways a payload is encoded
    Names, Supertypes,
    MaxFaults     \* how often a payload is damaged

ASSUME GraphAssumption ==
    /\ \A a \in Artifacts : IsGraph(Graph[a])
    /\ Writers \subseteq [ordinalized : BOOLEAN, interned : BOOLEAN, postings : BOOLEAN]

NoBlob == [present |-> FALSE]

VARIABLES
    cache,     \* the payload of each artifact, and whether it was damaged
    writing,   \* for each artifact, the sections being placed and the TOC so far
    faults,
    query      \* the query in flight
dqvars == <<cache, writing, faults, query>>

Idle == [pc |-> "idle", sections |-> << >>, toc |-> << >>]
NoQuery ==
    [pc |-> "none", kind |-> "name", asked |-> "", pending |-> {}, opened |-> {}, damaged |-> FALSE,
     artifact |-> "", payload |-> << >>, subtypes |-> {}, ordinals |-> {}, answers |-> {}]

DQInit ==
    /\ cache = [a \in Artifacts |-> NoBlob]
    /\ writing = [a \in Artifacts |-> Idle]
    /\ faults = 0
    /\ query = NoQuery

-----------------------------------------------------------------------------
(* The worker that encodes a payload, and what befalls the file.            *)

\* A payload is invisible until it is published and immutable once opened, and
\* a query opens an artifact once: what befalls a file before that may count as
\* done before the query, and the rest as done after it.
NobodyReads == query.pc = "none"
NobodyEncodes == \A a \in Artifacts : writing[a].pc = "idle"

BeginEncoding(a, w) ==
    /\ NobodyReads /\ NobodyEncodes
    /\ ~cache[a].present
    /\ writing' = [writing EXCEPT ![a] =
                    [pc |-> "placing", sections |-> Sections(Graph[a], w), toc |-> << >>]]
    /\ UNCHANGED <<cache, faults, query>>

\* Faulty variant of the next definition: the TOC that is compared with is never replaced.
PlaceOnce(a) ==
    LET next == Placed(writing[a].sections, << >>)
    IN  /\ writing[a].pc = "placing"
        /\ next # writing[a].toc
        /\ UNCHANGED dqvars

PlaceSections(a) ==
    LET next == Placed(writing[a].sections, writing[a].toc)
    IN  /\ writing[a].pc = "placing"
        /\ next # writing[a].toc
        /\ writing' = [writing EXCEPT ![a].toc = next]
        /\ UNCHANGED <<cache, faults, query>>

\* The first payload of an artifact stays, ArtifactBlobCache::publish.
PublishPayload(a) ==
    /\ writing[a].pc = "placing"
    /\ Placed(writing[a].sections, writing[a].toc) = writing[a].toc
    /\ writing' = [writing EXCEPT ![a] = Idle]
    /\ cache' = [cache EXCEPT ![a] =
                    [present |-> TRUE, damaged |-> FALSE,
                     payload |-> Payload(writing[a].sections, writing[a].toc)]]
    /\ UNCHANGED <<faults, query>>

\* Every part of a payload a bad write can reach, one at a time; what is left
\* out is the kind of a section turned into another known kind.  A damaged part
\* has a checksum that no entry of a TOC names, and a damaged checksum is that
\* of no part.
DamagedPayloads(p) ==
    LET at(i, field, values) == {[p EXCEPT !.toc[i][field] = v] : v \in values}
        other(i) == p.parts[(i % Len(p.parts)) + 1]
        near(n) == {n + 1} \cup (IF n = 0 THEN {} ELSE {n - 1})
    IN  {[p EXCEPT !.header = "invalid"]}
        \cup {[p EXCEPT !.toc = SubSeq(p.toc, 1, n),
                        !.tocEnd = HeaderSize + TocLength(SubSeq(p.toc, 1, n))] :
                  n \in 0..(Len(p.toc) - 1)}
        \cup {[p EXCEPT !.parts[i].sha = <<"damaged", 0>>] : i \in DOMAIN p.parts}
        \cup UNION {UNION {at(i, "offset", {other(i).offset, HeaderSize, p.length}),
                           at(i, "length", {other(i).length, p.length}),
                           at(i, "sha", {<<"other", 0>>}), at(i, "kind", {"unknown"}),
                           at(i, "compression", {0, 1, 2}),
                           at(i, "start", near(p.toc[i].start)),
                           at(i, "end", near(p.toc[i].end))} : i \in DOMAIN p.toc}

DamagePayload(a) ==
    /\ NobodyReads /\ NobodyEncodes
    /\ cache[a].present
    /\ faults < MaxFaults
    /\ faults' = faults + 1
    /\ \E p \in DamagedPayloads(cache[a].payload) \ {cache[a].payload} :
        cache' = [cache EXCEPT ![a] = [present |-> TRUE, damaged |-> TRUE, payload |-> p]]
    /\ UNCHANGED <<writing, query>>

DropBlob(a) ==
    /\ NobodyReads /\ NobodyEncodes
    /\ cache[a].present
    /\ cache' = [cache EXCEPT ![a] = NoBlob]
    /\ UNCHANGED <<writing, faults, query>>

-----------------------------------------------------------------------------
(* The query: the artifacts the catalog selects are answered in turn.       *)

\* artifact_candidates_with_qualified_name, artifact_candidates_with_symbol
CandidatesWithQualifiedName(name) == {a \in Artifacts : \E l \in Catalog[a] : l.name = name}
CandidatesWithSymbol(id) == {a \in Artifacts : \E l \in Catalog[a] : l.id = id}

Ask(kind, asked, candidates) ==
    /\ NobodyReads /\ NobodyEncodes
    /\ query' = [NoQuery EXCEPT !.pc = "open", !.kind = kind, !.asked = asked,
                                !.pending = candidates]
    /\ UNCHANGED <<cache, writing, faults>>

AskName(name) == Ask("name", name, CandidatesWithQualifiedName(name))
AskImplementations(id) == Ask("implementations", id, CandidatesWithSymbol(id))
AskGraph(a) == Ask("graph", "", {a})

Continue(changed) == NobodyEncodes /\ query' = changed /\ UNCHANGED <<cache, writing, faults>>
FailQuery == Continue([query EXCEPT !.pc = "failed", !.payload = << >>])
NextArtifact(q) ==
    [q EXCEPT !.pc = "open", !.artifact = "", !.payload = << >>, !.subtypes = {}, !.ordinals = {}]

\* open_blob and ArtifactBlobSections::open; an absent blob has no symbols.
OpenBlob(a) ==
    /\ query.pc = "open"
    /\ a \in query.pending
    /\ LET q == [query EXCEPT !.pending = @ \ {a}]
           first == CASE q.kind = "name" -> "directory"
                      [] q.kind = "implementations" -> "hierarchy"
                      [] q.kind = "graph" -> "facts"
           reading == [q EXCEPT !.pc = first, !.artifact = a, !.payload = cache[a].payload,
                                !.opened = @ \cup {a}, !.damaged = @ \/ cache[a].damaged]
       IN  CASE ~cache[a].present -> Continue(q)
             [] cache[a].present /\ Opens(cache[a].payload) -> Continue(reading)
             [] OTHER -> Continue([reading EXCEPT !.pc = "failed", !.payload = << >>])

Answer ==
    /\ query.pc = "open"
    /\ query.pending = {}
    /\ Continue([query EXCEPT !.pc = "answered"])

ReadDirectory ==
    /\ query.pc = "directory"
    /\ LET found == ReadSection(query.payload, "directory")
       IN  \/ found = {} /\ FailQuery
           \/ \E entries \in found :
                Continue([query EXCEPT
                    !.pc = "details",
                    !.ordinals = {e.ordinal : e \in {f \in ToSet(entries) :
                                                        f.qualified = query.asked}}])

\* Blobs older than hierarchy postings are read through their GraphFacts.
ReadHierarchy ==
    /\ query.pc = "hierarchy"
    /\ LET found == ReadSection(query.payload, "hierarchy")
           subtypes(entries) == {e.subtype : e \in {f \in ToSet(entries) :
                                                        f.supertype = query.asked}}
       IN  \/ ~HasSection(query.payload, "hierarchy")
              /\ Continue([query EXCEPT !.pc = "facts"])
           \/ HasSection(query.payload, "hierarchy") /\ found = {} /\ FailQuery
           \/ \E entries \in found :
                Continue(IF subtypes(entries) = {} THEN NextArtifact(query)
                         ELSE [query EXCEPT !.pc = "dictionary", !.subtypes = subtypes(entries)])

ReadDictionary ==
    /\ query.pc = "dictionary"
    /\ LET found == ReadSection(query.payload, "dictionary")
           ordinals(ids) == {i - 1 : i \in {j \in DOMAIN ids : ids[j] \in query.subtypes}}
           blocked(ids) == \A o \in ordinals(ids) : DetailSection(query.payload, o) # 0
       IN  \/ found = {} /\ FailQuery
           \/ \E ids \in found :
                IF blocked(ids)
                THEN Continue([query EXCEPT !.pc = "details", !.ordinals = ordinals(ids)])
                ELSE FailQuery

\* One block: every ordinal wanted of it (implementations), or one (a name).
Grouped(ordinal) ==
    IF query.kind = "name" THEN {ordinal}
    ELSE {o \in query.ordinals : SymbolDetailBlockStart(query.payload, o)
                                    = SymbolDetailBlockStart(query.payload, ordinal)}

ReadDetails ==
    /\ query.pc = "details"
    /\ IF query.ordinals = {} THEN Continue(NextArtifact(query))
       ELSE LET ordinals == Grouped(Min(query.ordinals))
                found == SymbolDetailBlock(query.payload, Min(ordinals))
            IN  IF \E block \in found : \A o \in ordinals : DecodeSymbolDetail(block, o) # {}
                THEN Continue([query EXCEPT
                        !.ordinals = @ \ ordinals,
                        !.answers = @ \cup UNION {DecodeSymbolDetail(block, o) :
                                                    block \in found, o \in ordinals}])
                ELSE FailQuery

\* read_all, validate, graph_facts and decode_graph_artifact
ReadFacts ==
    /\ query.pc = "facts"
    /\ LET found == GraphFacts(query.payload)
           wanted(g) == IF query.kind = "graph" THEN g.symbols
                        ELSE {s \in g.symbols : [subtype |-> s.id, supertype |-> query.asked]
                                                    \in g.hierarchy}
       IN  \/ found = {} /\ FailQuery
           \/ \E graph \in found :
                Continue(NextArtifact([query EXCEPT
                            !.answers = @ \cup wanted(DecodedGraph(graph))]))

Finish ==
    /\ query.pc \in {"answered", "failed"}
    /\ Continue(NoQuery)

-----------------------------------------------------------------------------
DQNext ==
    \/ \E a \in Artifacts :
        \/ \E w \in Writers : BeginEncoding(a, w)
        \/ PlaceSections(a) \/ PublishPayload(a) \/ DamagePayload(a) \/ DropBlob(a)
        \/ AskGraph(a) \/ OpenBlob(a)
    \/ \E name \in Names : AskName(name)
    \/ \E id \in Supertypes : AskImplementations(id)
    \/ Answer \/ ReadDirectory \/ ReadHierarchy \/ ReadDictionary \/ ReadDetails \/ ReadFacts
    \/ Finish

DQSpec == DQInit /\ [][DQNext]_dqvars

\* The encoder is one synchronous call: once it runs, it takes its next step.
DQFairSpec == DQSpec /\ \A a \in Artifacts : WF_dqvars(PlaceSections(a) \/ PublishPayload(a))

-----------------------------------------------------------------------------
(* What the graphs themselves say.                                          *)

Declared(a) ==
    UNION {{Declaration(s.symbols[i], s.symbols[i].owner,
                        s.provenances[s.symbols[i].provenance + 1], s.unit) :
              i \in DOMAIN s.symbols} : s \in ToSet(Graph[a])}
Expected(a) ==
    CASE query.kind = "name" -> {d \in Declared(a) : d.qualified = <<query.asked>>}
      [] query.kind = "implementations" ->
            {d \in Declared(a) : [subtype |-> d.id, supertype |-> query.asked]
                                    \in ToSet(Edges(Graph[a]))}
      [] query.kind = "graph" -> Declared(a)

\* A detail block does not say which local declaration owns a declaration.
Comparable(d) ==
    IF query.kind = "graph" THEN d
    ELSE [d EXCEPT !.owner =
            IF \E a \in Artifacts, o \in ToSet(@) : {o, d.id} \subseteq Ids(Graph[a])
            THEN << >> ELSE @]

(* A query that ends without an error has found exactly what the graphs of  *)
(* the artifacts it opened declare, however the payload was cut into        *)
(* sections and blocks and whichever part of it was damaged since; and it   *)
(* fails only where a payload was damaged (artifact_query.rs, the checks of *)
(* parse_toc, the section checksums and decode_symbol_detail).              *)
AnswersAreExact ==
    /\ query.pc = "answered" =>
        {Comparable(d) : d \in query.answers}
            = {Comparable(d) : d \in UNION {Expected(a) : a \in query.opened}}
    /\ query.pc = "failed" => query.damaged

(* The loop that places the sections, each round of which moves them by the *)
(* length of the TOC that describes the round before, comes to an end       *)
(* (ArtifactBlobLayout::encode).                                            *)
EncodingEnds == \A a \in Artifacts : writing[a].pc = "placing" ~> writing[a].pc = "idle"
=============================================================================
