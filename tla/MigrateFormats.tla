---------------------------- MODULE MigrateFormats ----------------------------
(***************************************************************************)
(* The migrators of packages/donto-migrate: what they make of a genealogy  *)
(* research.db.  A database is its tables, a table its columns and rows, a *)
(* value [text], [int], [real], [blob] or [null].  Years and days are      *)
(* numbers: the first day of year y is 10 * y.                             *)
(***************************************************************************)
EXTENDS LingFormats

CONSTANTS
  DateOf,   \* the day of every text that is a date
  StampOf,  \* the day of every text that only begins with one
  ChunkMax, \* CHUNK_TEXT_MAX
  SpanMax,  \* TEXT_SPAN_MAX
  Flush     \* BATCH: how many statements are sent together

Ellipsis == 3 \* bytes, where a character is one

T(s) == [text |-> s]
TextOf(v) == IF "text" \in DOMAIN v THEN v.text ELSE None
IntOf(v) == IF "int" \in DOMAIN v THEN v.int ELSE None

\* stringify_value
Spelled(v) ==
  CASE "text" \in DOMAIN v -> v.text
    [] "int" \in DOMAIN v -> <<"int", v.int>>
    [] "real" \in DOMAIN v -> <<"real", v.real>>
    [] "blob" \in DOMAIN v -> <<"blob:", v.blob>>
    [] "null" \in DOMAIN v -> <<>>

Valid(x, lo, hi) == [x EXCEPT !.valid = <<lo, hi>>]
SaysText(c, s, p, v) == IF v = None THEN <<>> ELSE <<In(c, s, p, String(v))>>

\* has_table, and a query that names a column the table has not fails.
HasTable(db, t) == t \in DOMAIN db
Lacks(db, t, cols) == HasTable(db, t) /\ ~(cols \subseteq db[t].columns)
RowsIn(db, t) == IF HasTable(db, t) THEN db[t].rows ELSE <<>>

Jan1(y) == IF y = None THEN None ELSE 10 * y

-----------------------------------------------------------------------------
(* genealogy: everything is read first.                                     *)

Needs == [sources |-> {"id", "name", "kind", "citation"}, entities |-> {"id", "kind", "label", "source_id"},
  claims |-> {"subject_id", "predicate", "object", "source_id", "confidence"},
  events |-> {"id", "kind", "date", "place", "source_id"}, participants |-> {"event_id", "entity_id", "role"},
  relationships |-> {"left_id", "right_id", "kind", "confidence"},
  aliases |-> {"entity_id", "name", "year_start", "year_end", "location"},
  discrepancies |-> {"id", "summary", "kind"}, hypotheses |-> {"id", "statement", "status"}, ingestion_log |-> {}]

\* A row without a source is of the source that has no name.
SourceContext(root, v) == root \o <<"/source/">> \o Spelled(v)
EntityOf(root, v) == root \o <<"/iri/">> \o Spelled(v)
Trusted(v) == IF TextOf(v) \in {<<"strong">>, <<"moderate">>} THEN 1 ELSE 0

Source(root, r) ==
  LET s == SourceContext(root, r.id)
  IN SaysText(root, s, <<"rdfs:label">>, TextOf(r.name)) \o SaysText(root, s, <<"donto:citation">>, TextOf(r.citation))

Kind(c, s, v) == IF TextOf(v) = None THEN <<>> ELSE <<In(c, s, RdfType, Iri(<<"ex:">> \o TextOf(v)))>>

Entity(root, r) ==
  LET c == SourceContext(root, r.source_id)
  IN Kind(c, EntityOf(root, r.id), r.kind) \o SaysText(c, EntityOf(root, r.id), <<"rdfs:label">>, TextOf(r.label))

\* Text that begins like an IRI is one; a null or a blob is no claim.
ClaimObject(v) ==
  IF TextOf(v) # None THEN (IF TextOf(v) # <<>> /\ Head(TextOf(v)) \in {"urn:", "ex:", "http"} THEN Iri(TextOf(v)) ELSE String(TextOf(v)))
  ELSE IF IntOf(v) # None THEN Num(IntOf(v))
  ELSE IF "real" \in DOMAIN v THEN [dec |-> v.real, dt |-> "xsd:decimal"] ELSE None
Claim(root, r) ==
  IF ClaimObject(r.object) = None THEN <<>>
  ELSE <<[In(SourceContext(root, r.source_id), EntityOf(root, r.subject_id), r.predicate.text, ClaimObject(r.object))
            EXCEPT !.maturity = Trusted(r.confidence)]>>

Event(root, r) ==
  LET c == SourceContext(root, r.source_id)
      s == root \o <<"/event/">> \o Spelled(r.id)
      d == TextOf(r.date)
  IN Kind(c, s, r.kind)
     \o (IF d = None THEN <<>>
         ELSE IF d \in DOMAIN DateOf THEN <<In(c, s, <<"ex:when">>, [day |-> DateOf[d], dt |-> "xsd:date"])>>
         ELSE <<In(c, s, <<"ex:whenText">>, String(d))>>)
     \o SaysText(c, s, <<"ex:place">>, TextOf(r.place))

Participant(root, r) ==
  <<In(root, root \o <<"/event/">> \o Spelled(r.event_id),
          IF TextOf(r.role) = None THEN <<"ex:participant">> ELSE <<"ex:role/">> \o TextOf(r.role),
          Iri(EntityOf(root, r.entity_id)))>>

Relationship(root, r) ==
  <<[In(root, EntityOf(root, r.left_id),
           IF r.kind.text \in {<<"sameAs">>, <<"possiblySame">>, <<"differentFrom">>}
           THEN <<"donto:">> \o r.kind.text ELSE <<"ex:rel/">> \o r.kind.text,
           Iri(EntityOf(root, r.right_id))) EXCEPT !.maturity = Trusted(r.confidence)]>>

Alias(root, r) ==
  LET known == SaysText(root, EntityOf(root, r.entity_id), <<"ex:knownAs">>, TextOf(r.name))
               \o SaysText(root, EntityOf(root, r.entity_id), <<"ex:knownAsLocation">>, TextOf(r.location))
  IN [i \in DOMAIN known |-> Valid(known[i], Jan1(IntOf(r.year_start)), Jan1(IntOf(r.year_end)))]

Discrepancy(root, r) ==
  LET s == root \o <<"/discrepancy/">> \o Spelled(r.id)
  IN <<In(root, s, RdfType, Iri(<<"donto:Discrepancy">>))>>
     \o SaysText(root, s, <<"rdfs:comment">>, TextOf(r.summary)) \o SaysText(root, s, <<"ex:discrepancyKind">>, TextOf(r.kind))

Hypothesis(root, r) ==
  LET s == root \o <<"/hypothesis/">> \o Spelled(r.id)
  IN <<In(root, s, RdfType, Iri(<<"donto:Hypothesis">>))>>
     \o SaysText(root, s, <<"donto:statement">>, TextOf(r.statement))
     \o (IF TextOf(r.status) = None THEN <<>>
         ELSE <<In(root, s, <<"donto:status">>, Iri(<<"donto:">> \o TextOf(r.status)))>>)

\* A claim's predicate, a relationship's kind and an alias's name must be texts.
Unreadable(db) ==
  \/ \E t \in DOMAIN Needs : Lacks(db, t, Needs[t])
  \/ \E r \in Range(RowsIn(db, "claims")) : TextOf(r.predicate) = None
  \/ \E r \in Range(RowsIn(db, "relationships")) : TextOf(r.kind) = None
  \/ \E r \in Range(RowsIn(db, "aliases")) : TextOf(r.name) = None

ReadGenealogy(db, root) ==
  LET of(t, F(_, _)) == ForEach(RowsIn(db, t), LAMBDA r : F(root, r))
  IN IF Unreadable(db) THEN Refused
     ELSE Read(of("sources", Source) \o of("entities", Entity) \o of("claims", Claim) \o of("events", Event)
                 \o of("participants", Participant) \o of("relationships", Relationship) \o of("aliases", Alias)
                 \o of("discrepancies", Discrepancy) \o of("hypotheses", Hypothesis), <<>>)

-----------------------------------------------------------------------------
(* genealogy-relink: one table after the other, a statement for a column.   *)
(* A column says its predicate, how its value is read, and whether a row    *)
(* that has no such value is the end of the migration.                      *)

Needed(col, p, as) == [col |-> col, p |-> p, as |-> as, needed |-> TRUE]
Maybe(col, p, as) == [col |-> col, p |-> p, as |-> as, needed |-> FALSE]

Table(name, under, type, valid, columns) ==
  [name |-> name, under |-> under, type |-> type, valid |-> valid, columns |-> columns]
Class(c) == [class |-> c]
TypedBy(col, prefix) == [col |-> col, prefix |-> prefix]
Tables ==
  << Table("documents", "/document/", Class("ex:Document"), Always,
       <<Needed("path", "donto:path", "text"), Maybe("title", "rdfs:label", "text"), Maybe("doc_type", "donto:docType", "text"),
         Maybe("created", "donto:created", "since"), Maybe("content_hash", "donto:contentHash", "text"),
         Maybe("tags", "donto:tags", "tags")>>),
     Table("chunks", "/chunk/", Class("ex:Chunk"), Always,
       <<Needed("document_id", "donto:document", "/document/"), Needed("chunk_index", "donto:chunkIndex", "int"),
         Needed("content", "donto:content", "content")>>),
     Table("claims", "/claim/", Class("ex:Claim"), <<"valid_from", "valid_until">>,
       <<Needed("subject_id", "donto:claimSubject", "/iri/"), Needed("predicate", "donto:claimPredicate", "text"),
         Maybe("object_value", "donto:claimObjectValue", "text"), Maybe("object_entity_id", "donto:claimObjectEntity", "/iri/"),
         Needed("source_id", "donto:sourceContext", "/source/"), Maybe("chunk_id", "donto:evidenceChunk", "/chunk/"),
         Maybe("text_span", "donto:textSpan", "span"), Needed("confidence", "donto:confidence", "text"),
         Maybe("extraction_model", "donto:extractedBy", "text"), Maybe("extraction_timestamp", "donto:extractedAt", "text"),
         Maybe("superseded_by", "donto:supersededBy", "/claim/")>>),
     Table("discrepancies", "/discrepancy/", Class("donto:Discrepancy"), Always,
       <<Needed("claim_a_id", "donto:claimA", "/claim/"), Needed("claim_b_id", "donto:claimB", "/claim/"),
         Needed("subject_id", "donto:onSubject", "/iri/"), Needed("predicate", "donto:onPredicate", "text"),
         Needed("status", "donto:status", "text"), Maybe("resolution", "donto:resolution", "text"),
         Maybe("resolution_rule", "donto:resolutionRule", "text"),
         Maybe("preferred_claim_id", "donto:preferredClaim", "/claim/"), Maybe("created_at", "donto:createdAt", "text")>>),
     Table("hypotheses", "/hypothesis-full/", Class("donto:Hypothesis"), Always,
       <<Needed("statement", "donto:statement", "text"), Needed("status", "donto:status", "text"),
         Maybe("evidence_for", "donto:evidenceFor", "text"), Maybe("evidence_against", "donto:evidenceAgainst", "text"),
         Maybe("decisive_record", "donto:decisiveRecord", "text"), Maybe("resolved_date", "donto:resolvedDate", "since")>>),
     Table("relationships", "/relationship/", TypedBy("type", "ex:rel/"), <<"valid_from", "valid_until">>,
       <<Needed("entity_a_id", "donto:entityA", "/iri/"), Needed("entity_b_id", "donto:entityB", "/iri/"),
         Maybe("source_id", "donto:sourceContext", "/source/"), Maybe("confidence", "donto:confidence", "text"),
         Maybe("created_at", "donto:createdAt", "text")>>),
     Table("events", "/event-full/", TypedBy("type", "ex:"), <<"date_value">>,
       <<Maybe("date_value", "donto:dateValue", "text"), Maybe("date_precision", "donto:datePrecision", "text"),
         Maybe("location_id", "donto:location", "/iri/"), Maybe("description", "donto:description", "text"),
         Maybe("source_id", "donto:sourceContext", "/source/"), Maybe("created_at", "donto:createdAt", "text")>>),
     Table("aliases", "/alias/", Class("ex:Alias"), <<"year">>,
       <<Needed("entity_id", "donto:entity", "/iri/"), Needed("name_form", "donto:nameForm", "text"),
         Maybe("location", "donto:location", "text"), Maybe("source_id", "donto:sourceContext", "/source/")>>),
     Table("token_usage", "/extraction-cost/", Class("ex:ExtractionCost"), Always,
       <<Needed("file_path", "donto:filePath", "text"), Needed("model", "donto:model", "text"), Needed("chunks", "donto:chunks", "int"),
         Needed("input_tokens", "donto:inputTokens", "int"), Needed("output_tokens", "donto:outputTokens", "int"),
         Needed("total_tokens", "donto:totalTokens", "int"), Needed("cost_usd", "donto:costUsd", "decimal"),
         Maybe("created_at", "donto:createdAt", "text")>>),
     Table("ingestion_log", "/ingestion/", Class("ex:IngestionRun"), Always,
       <<Needed("file_path", "donto:filePath", "text"), Needed("file_hash", "donto:fileHash", "text"),
         Needed("timestamp", "donto:timestamp", "text"), Needed("entities_extracted", "donto:entitiesExtracted", "int"),
         Needed("events_extracted", "donto:eventsExtracted", "int"), Needed("claims_extracted", "donto:claimsExtracted", "int"),
         Needed("relationships_extracted", "donto:relationshipsExtracted", "int"),
         Maybe("status", "donto:status", "text"), Maybe("notes", "donto:notes", "text")>>),
     Table("persons", "/person/", Class("ex:Person"), Always,
       <<Needed("name", "rdfs:label", "text"), Maybe("confidence", "donto:confidence", "text"),
         Maybe("birth_year_est", "donto:birthYearEst", "int"), Maybe("death_year_est", "donto:deathYearEst", "int"),
         Maybe("notes", "donto:notes", "text")>>) >>

Numbered == {"documents", "chunks", "aliases", "token_usage", "ingestion_log"}
DayOf(t) == IF t \in DOMAIN DateOf THEN DateOf[t] ELSE IF t \in DOMAIN StampOf THEN StampOf[t] ELSE None

\* scrub: a text without the character the database refuses.
Scrub(t) == SelectSeq(t, LAMBDA x : x # Nul)
Clean(t) == String(Scrub(t))

\* truncate: a character is an element.
Truncate(t, max) == IF Len(t) <= max THEN t ELSE Append(SubSeq(t, 1, max), "...")

\* That it was cut is told by its length in bytes, and the ellipsis has some.
Cut(t, max) == Len(t) > max + Ellipsis

References == {"/iri/", "/document/", "/chunk/", "/claim/", "/source/"}

\* What rusqlite reads of the value: nothing when it is of another type.
Got(v, as, col) ==
  IF as = "int" \/ col \in {"document_id", "chunk_id"} THEN IntOf(v)
  ELSE IF as = "decimal" THEN (IF "real" \in DOMAIN v THEN v.real ELSE IntOf(v)) ELSE TextOf(v)

\* The validity of a row's statements.
RowValid(tb, r) ==
  LET day(col) == IF TextOf(r[col]) = None THEN None ELSE DayOf(TextOf(r[col]))
  IN IF tb.valid = Always THEN Always
     ELSE IF tb.valid = <<"year">>
     THEN LET y == IntOf(r.year) IN <<Jan1(y), IF y = None THEN None ELSE Jan1(y + 1)>>
     ELSE <<day(tb.valid[1]), IF Len(tb.valid) = 1 THEN None ELSE day(tb.valid[2])>>

ColumnSays(root, s, valid, k, v) ==
  LET says(o) == <<[In(root, s, <<k.p>>, o) EXCEPT !.valid = valid]>>
  IN IF v = None THEN <<>>
     ELSE CASE k.as \in References -> says(Iri(root \o <<k.as>> \o (IF k.col \in {"document_id", "chunk_id"} THEN <<"int", v>> ELSE v)))
            [] k.as = "int" -> says(Num(v))
            [] k.as = "decimal" -> says([dec |-> v, dt |-> "xsd:decimal"])
            [] k.as = "since" -> <<[In(root, s, <<k.p>>, Clean(v)) EXCEPT !.valid = <<DayOf(v), None>>]>>
            [] k.as = "tags" -> IF v \in {<<>>, <<"[]">>} THEN <<>> ELSE says(Clean(v))
            [] k.as = "span" -> says(Clean(Truncate(v, SpanMax)))
            [] k.as = "content" ->
                 says(Clean(Truncate(v, ChunkMax)))
                 \o (IF Cut(v, ChunkMax) THEN <<In(root, s, <<"donto:contentTruncated">>, Num(Len(v)))>> ELSE <<>>)
            [] k.as = "text" -> says(Clean(v))

IdOf(tb, r) == IF tb.name \in Numbered THEN IntOf(r.id) ELSE TextOf(r.id)

\* The row has no such column, or needs a value it has not.
BadRow(tb, r) ==
  \/ IdOf(tb, r) = None
  \/ "col" \in DOMAIN tb.type /\ TextOf(r[tb.type.col]) = None
  \/ \E k \in Range(tb.columns) : k.needed /\ Got(r[k.col], k.as, k.col) = None

RelinkRow(root, tb, r) ==
  LET s == root \o <<tb.under>> \o (IF tb.name \in Numbered THEN <<"int", r.id.int>> ELSE r.id.text)
      valid == RowValid(tb, r)
      type == IF "class" \in DOMAIN tb.type THEN <<tb.type.class>> ELSE <<tb.type.prefix>> \o r[tb.type.col].text
  IN <<[In(root, s, RdfType, Iri(type)) EXCEPT !.valid = valid]>>
     \o ForEach(tb.columns, LAMBDA k : ColumnSays(root, s, valid, k, Got(r[k.col], k.as, k.col)))

ColumnsOf(tb) ==
  {k.col : k \in Range(tb.columns)} \cup {"id"} \cup (IF "col" \in DOMAIN tb.type THEN {tb.type.col} ELSE {})
  \cup (Range(tb.valid) \ {None})

\* What waits is sent when it is enough, and when the table ends.
Send(st) == IF st.waits = <<>> THEN st ELSE [st EXCEPT !.sent = Append(@, st.waits), !.waits = <<>>]
RelinkTable(db, root, st, tb) ==
  LET row(x, r) ==
        IF x.fails THEN x
        ELSE IF BadRow(tb, r) THEN [x EXCEPT !.fails = TRUE]
        ELSE LET y == [x EXCEPT !.waits = @ \o RelinkRow(root, tb, r)]
             IN IF Len(y.waits) >= Flush THEN Send(y) ELSE y
      end == FoldLeft(row, st, RowsIn(db, tb.name))
  IN IF st.fails \/ ~HasTable(db, tb.name) THEN st
     ELSE IF Lacks(db, tb.name, ColumnsOf(tb)) THEN [st EXCEPT !.fails = TRUE]
     ELSE IF end.fails THEN end ELSE Send(end)

\* The batches that are sent, and whether the migration breaks off after them.
RelinkBatches(db, root) ==
  FoldLeft(LAMBDA st, tb : RelinkTable(db, root, st, tb), [sent |-> <<>>, waits |-> <<>>, fails |-> FALSE], Tables)
=============================================================================
