---------------------------- MODULE FixtureRegistry ----------------------------
(***************************************************************************)
(* The histories beside an audit (src/paper_radar/fixture_audit: service,    *)
(* models, pdf_service, pdf_records, interpretation_service): declarations    *)
(* of samples, each replacing the current one of its scope; the PDFs given    *)
(* for a sample and what a backend is to make of them; and what later parsers *)
(* make of a complete audit.  All of them only grow, and every reader loads   *)
(* them whole before it believes a row.                                      *)
(*                                                                         *)
(* A digest is what it is a digest of: a declaration is its document, a        *)
(* record its declaration and scope, a PDF its request and bytes.              *)
(***************************************************************************)
EXTENDS Integers, FiniteSets, SequencesExt

CONSTANTS
  Registrars,       \* processes that call the service
  Journals,         \* the journals of an audit
  Documents,        \* declaration files: key, version and entries by scope
  Summaries,        \* what a complete audit can have come to
  PdfRequests, PdfFiles, BackendRequests,
  Plans, Places,    \* audits, and the routes of the members each has selected
  Contents,         \* materials an execution may have kept
  MaterialParsers,  \* version, implementation, and what each makes of a material
  PublishedParsers, \* versions that are the program's own
  NoBytes,          \* what an empty file holds
  RequestKeys,
  Baselines,        \* what the audit itself made of a place's material, or of none
  MaxRows           \* bound on the rows of one audit

\* The entries of a file are a sequence of its entries.
ASSUME DocumentsAssumption ==
  \A d \in DOMAIN Documents : Documents[d].entries \in Seq(ToSet(Documents[d].entries))

VARIABLES
  registry,         \* declarations, records, PDFs, expectations, summaries
  interpreted,      \* the audits' rows, the parsers declared, the interpretations
  registrars        \* the Python frame of each process, with its last answer

registryVars == <<registry, interpreted, registrars>>

-------------------------------------------------------------------------------
(* Frames *)

\* An answer is forgotten, unless it calls the archive damaged: then the samples it
\* went by are kept too, as none or one set.
Answered(answer) ==
  [at |-> "idle", damaged |-> answer = "corrupt_reference", wentBy |-> {}]
Replies(c, answer) == registrars' = [registrars EXCEPT ![c] = Answered(answer)]
Proceeds(c, frame) == registrars' = [registrars EXCEPT ![c] = frame]
AtHome(c) == registrars[c].at = "idle"

-------------------------------------------------------------------------------
(* Declarations.  A scope is <<purpose, journals, key>>, with no or one journal. *)
(* Options of an entry, and what it replaces, are sets of none or one.          *)

EntriesOf(d) == Documents[d].entries
Entry(record) == EntriesOf(record[1])[record[2]]
ScopeOf(record) == Entry(record).scope

\* FixtureEntry.validate_relationships
EntryIsValid(entry) ==
  /\ (entry.scope[1] = "abstract_audit") <=> (entry.scope[2] = {})
  /\ entry.reference # {} =>
       entry.scope[1] \in {"feed", "abstract_audit"} /\ entry.basis = "acquired"
  /\ entry.headers # {} => entry.basis = "acquired"
\* parse_declaration
Parses(d) ==
  /\ \A n \in DOMAIN EntriesOf(d) : EntryIsValid(EntriesOf(d)[n])
  /\ \A m, n \in DOMAIN EntriesOf(d) :
       EntriesOf(d)[m].scope = EntriesOf(d)[n].scope => m = n

Acquired(d) == {e \in ToSet(EntriesOf(d)) : e.basis = "acquired"}
References(d) == UNION {e.reference : e \in Acquired(d)}

\* _validate_audit_references, for an entry and the summary it refers to.
ReferenceHolds(entry, reference) ==
  LET summary == Summaries[reference.summary]
      scope == entry.scope
      ofScope == {j \in Journals : scope[2] \in {{}, {j}}}
  IN /\ entry.parser \subseteq {summary.parser}
     /\ \A headers \in entry.headers : \E j \in scope[2] : headers = summary.headers[j]
     /\ DOMAIN summary.snapshots = Journals
     /\ \/ /\ scope[1] = "feed" /\ reference.snapshots = {}
           /\ \A j \in scope[2] : reference.feed = {summary.snapshots[j]}
        \/ /\ scope[1] = "abstract_audit" /\ reference.feed = {}
           /\ reference.snapshots = {summary.snapshots}
     /\ entry.members \subseteq UNION {summary.members[j] : j \in ofScope}
ReferencesHold(d, known) ==
  \A entry \in Acquired(d) :
    /\ entry.reference # {}
    /\ \A r \in entry.reference : r.summary \in known /\ ReferenceHolds(entry, r)

\* The record of a scope nobody has replaced: the last one; none or one.
OfScope(records, s) == {n \in DOMAIN records : ScopeOf(records[n]) = s}
NewestOf(rows, S) == {rows[n] : n \in {k \in S : \A m \in S : m <= k}}
CurrentRecord(records, s) == NewestOf(records, OfScope(records, s))

\* _load_records
RecordAccepted(r, n) ==
  LET record == r.records[n]
  IN /\ record[1] \in r.declarations /\ record[2] \in DOMAIN EntriesOf(record[1])
     /\ Entry(record).replaces =
          CurrentRecord(SubSeq(r.records, 1, n - 1), ScopeOf(record))
RecordsLoad(r) ==
  /\ \A d \in r.declarations : Parses(d) /\ ReferencesHold(d, r.summaries)
  /\ \A n \in DOMAIN r.records : RecordAccepted(r, n)
  /\ \A d \in r.declarations : \A n \in DOMAIN EntriesOf(d) : <<d, n>> \in ToSet(r.records)

SameVersion(r, d) ==
  {e \in r.declarations : /\ Documents[e].key = Documents[d].key
                          /\ Documents[e].version = Documents[d].version}
WithDeclaration(r, d) ==
  [r EXCEPT !.declarations = @ \cup {d},
            !.records = @ \o [n \in DOMAIN EntriesOf(d) |-> <<d, n>>],
            !.summaries = @ \cup {x.summary : x \in References(d)}]

\* The audit comes to a summary, or to another one (FixtureAudit): the ones that
\* declarations have stored still load, the others cannot be referred to any more.
CompleteAudit(summary) ==
  /\ summary \notin registry.complete \cup registry.summaries
  /\ registry' = [registry EXCEPT !.complete = {summary}]
  /\ UNCHANGED <<interpreted, registrars>>

\* register up to its transaction: parse, and _capture_references in a snapshot.
StartDeclaration(c, d) ==
  /\ AtHome(c)
  /\ IF ~Parses(d) THEN Replies(c, "invalid_declaration")
     ELSE IF \E e \in Acquired(d) : e.reference = {} THEN Replies(c, "evidence_required")
     ELSE IF ~ReferencesHold(d, registry.summaries \cup registry.complete)
     THEN Replies(c, "invalid_reference")
     ELSE Proceeds(c, [at |-> "declaring", document |-> d,
                   captured |-> IF Acquired(d) = {} THEN {} ELSE registry.complete])
  /\ UNCHANGED <<registry, interpreted>>

\* The transaction of register.
Declaration(r, d, captured) ==
  CASE ~RecordsLoad(r) -> "corrupt_reference"
    [] RecordsLoad(r) /\ ~ReferencesHold(d, r.summaries \cup captured) -> "invalid_reference"
    [] OTHER ->
       IF SameVersion(r, d) # {}
       THEN IF d \in SameVersion(r, d) THEN "returned" ELSE "declaration_conflict"
       ELSE IF \E e \in ToSet(EntriesOf(d)) : e.replaces # CurrentRecord(r.records, e.scope)
       THEN "invalid_reference"
       ELSE IF ~RecordsLoad(WithDeclaration(r, d)) THEN "corrupt_reference"
       ELSE "registered"
RegisterFixtures(c) ==
  /\ registrars[c].at = "declaring"
  /\ LET d == registrars[c].document
         answer == Declaration(registry, d, registrars[c].captured)
     IN /\ registry' = IF answer = "registered" THEN WithDeclaration(registry, d)
                       ELSE registry
        /\ Replies(c, answer)
  /\ UNCHANGED interpreted

\* check, of a file that holds a document.
DeclarationCheck(r, d) ==
  IF SameVersion(r, d) = {} THEN "unregistered"
  ELSE IF SameVersion(r, d) = {d} THEN "byte_verified" ELSE "drift"

-------------------------------------------------------------------------------
(* PDFs and backends.  A PDF is its request and bytes. *)

\* load_pdf_states, with the scopes of the samples the caller knows.
PdfScope(pdf) == ScopeOf(pdf.request.sample)
OfSample(pdfs, s) == {n \in DOMAIN pdfs : PdfScope(pdfs[n]) = s}
CurrentPdf(pdfs, s) == NewestOf(pdfs, OfSample(pdfs, s))
MayHavePdf(samples, record) == record \in samples /\ ScopeOf(record)[1] = "pdf"
PdfsLoad(r, samples) ==
  /\ \A n \in DOMAIN r.pdfs :
       LET pdf == r.pdfs[n]
       IN /\ MayHavePdf(samples, pdf.request.sample)
          /\ pdf.request.replaces = CurrentPdf(SubSeq(r.pdfs, 1, n - 1), PdfScope(pdf))
          /\ pdf.bytes \in r.published
  /\ \A b \in r.expectations :
       /\ b.pdf \in ToSet(r.pdfs) /\ b.bytes = b.pdf.bytes
       /\ \A other \in r.expectations \ {b} :
            other.pdf = b.pdf => other.key # b.key /\ other.backend # b.backend

\* list(history=True), in a transaction of its own: what the write will go by.
Samples(r) == ToSet(r.records)
ListsSamples(c, frame) ==
  /\ AtHome(c)
  /\ IF RecordsLoad(registry) /\ PdfsLoad(registry, Samples(registry))
     THEN Proceeds(c, frame) ELSE Replies(c, "corrupt_reference")
  /\ UNCHANGED <<registry, interpreted>>
StartPdf(c, q) ==
  ListsSamples(c, IF MayHavePdf(Samples(registry), q.sample)
           THEN [at |-> "publishing", request |-> q, samples |-> Samples(registry)]
           ELSE Answered("invalid_reference"))

\* publish_single, of what the source file now holds; an empty one too.
PublishPdf(c, bytes) ==
  LET x == registrars[c]
  IN /\ registrars[c].at = "publishing"
     /\ IF x.request.expected \subseteq {bytes}
        THEN /\ registry' = [registry EXCEPT !.published = @ \cup {bytes}]
             /\ IF bytes = NoBytes THEN Replies(c, "invalid_declaration")
                ELSE Proceeds(c, [at |-> "giving", samples |-> x.samples,
                              pdf |-> [request |-> x.request, bytes |-> bytes]])
        ELSE Replies(c, "hash_mismatch") /\ UNCHANGED registry
     /\ UNCHANGED interpreted

Concludes(c, answer) ==
  LET x == Answered(answer)
  IN Proceeds(c, IF x.damaged THEN [x EXCEPT !.wentBy = {registrars[c].samples}] ELSE x)

\* The transaction of register_pdf.
PriorPdf(r, q) ==
  {pdf \in ToSet(r.pdfs) : pdf.request.sample = q.sample /\ pdf.request.key = q.key}
ReplacesCurrent(r, q) == q.replaces = CurrentPdf(r.pdfs, ScopeOf(q.sample))
PdfAnswer(r, pdf, samples) ==
  IF ~PdfsLoad(r, samples) THEN "corrupt_reference"
  ELSE IF PriorPdf(r, pdf.request) # {}
  THEN IF pdf \in PriorPdf(r, pdf.request) THEN "returned" ELSE "declaration_conflict"
  ELSE IF ReplacesCurrent(r, pdf.request) THEN "registered" ELSE "invalid_reference"
RegisterPdf(c) ==
  /\ registrars[c].at = "giving"
  /\ LET pdf == registrars[c].pdf
         answer == PdfAnswer(registry, pdf, registrars[c].samples)
     IN /\ registry' = IF answer = "registered"
                       THEN [registry EXCEPT !.pdfs = Append(@, pdf)] ELSE registry
        /\ Concludes(c, answer)
  /\ UNCHANGED interpreted

\* register_pdf_backend: nothing is published, and a backend is told apart by what
\* it is and not by what it is to find.
StartBackend(c, b) ==
  ListsSamples(c, [at |-> "expecting", expectation |-> b, samples |-> Samples(registry)])
BackendAnswer(r, b, samples) ==
  LET ofPdf == {e \in r.expectations : e.pdf = b.pdf}
      prior == {e \in ofPdf : e.key = b.key}
  IN IF ~PdfsLoad(r, samples) THEN "corrupt_reference"
     ELSE IF b.pdf \notin ToSet(r.pdfs) \/ b.bytes # b.pdf.bytes THEN "invalid_reference"
     ELSE IF prior # {} THEN IF b \in prior THEN "returned" ELSE "declaration_conflict"
     ELSE IF \E e \in ofPdf : e.backend = b.backend THEN "declaration_conflict"
     ELSE "registered"
RegisterBackend(c) ==
  /\ registrars[c].at = "expecting"
  /\ LET b == registrars[c].expectation
         answer == BackendAnswer(registry, b, registrars[c].samples)
     IN /\ registry' = IF answer = "registered"
                       THEN [registry EXCEPT !.expectations = @ \cup {b}] ELSE registry
        /\ Concludes(c, answer)
  /\ UNCHANGED interpreted

\* check_pdf, of a record.
PdfCheck(r, record) ==
  IF record \notin Samples(r) THEN "record_not_found"
  ELSE IF ScopeOf(record)[1] # "pdf" THEN "invalid_reference"
  ELSE IF CurrentPdf(r.pdfs, ScopeOf(record)) = {} THEN "not_registered"
  ELSE "byte_verified"

-------------------------------------------------------------------------------
(* Interpretations: what a later parser makes of the rows of a complete audit.  *)
(* A row keeps a material, or none (contents are sets of none or one), and what *)
(* the program itself made of it: its baseline.                                *)

RowsFor(p) == interpreted.rows[p]
Given(p) == interpreted.given[p]
LastRows(p, f) ==
  {n \in DOMAIN RowsFor(p) : RowsFor(p)[n].place = f /\ \A m \in DOMAIN RowsFor(p) :
                            RowsFor(p)[m].place = f => m <= n}
AuditIsComplete(p) ==
  \A f \in Places : LastRows(p, f) # {} /\ <<p, f>> \notin interpreted.open
\* The matrix: of every place, its last row.
LatestBasis(p) == [f \in Places |-> CHOOSE n \in LastRows(p, f) : TRUE]

\* A resumed audit, under the lock of its plan, fetches again for a place that may
\* be continued, and then appends the row of that; or it appends a first row.
PlanIsBusy(p) == \E c \in Registrars : registrars[c].at = "appending" /\ registrars[c].plan = p
ContinueRow(p, f) ==
  /\ ~PlanIsBusy(p) /\ <<p, f>> \notin interpreted.open /\ Len(RowsFor(p)) < MaxRows
  /\ \A n \in LastRows(p, f) : RowsFor(p)[n].content = {} /\ RowsFor(p)[n].continuable
  /\ interpreted' = [interpreted EXCEPT !.open = @ \cup {<<p, f>>}]
  /\ UNCHANGED <<registry, registrars>>
AppendRow(p, f, content, continuable) ==
  /\ ~PlanIsBusy(p) /\ <<p, f>> \in interpreted.open
  /\ continuable => content = {}
  /\ interpreted' = [interpreted EXCEPT
       !.open = @ \ {<<p, f>>},
       !.rows[p] = Append(@, [place |-> f, content |-> content,
                              continuable |-> continuable])]
  /\ UNCHANGED <<registry, registrars>>

\* previous_fields, row_projection: fields are functions on their names.
Baseline(row) == Baselines[row.place, row.content]
PreviousFields(w, p, previous, n) ==
  IF previous = 0 THEN Baseline(w.rows[p][n])
  ELSE w.given[p][previous].rows[w.rows[p][n].place].fields
RowProjection(row, n, old, new) ==
  [base |-> n, fields |-> new,
   added |-> DOMAIN new \ DOMAIN old, removed |-> DOMAIN old \ DOMAIN new,
   changed |-> {x \in DOMAIN old \cap DOMAIN new : old[x] # new[x]},
   proof |-> IF row.content # {} THEN "material_reparsed"
             ELSE "execution_facts_only"]

\* _rows: a parser that fails on a material it is given fails the request.
Reads(p, n, parser) ==
  IF RowsFor(p)[n].content = {} THEN {Baseline(RowsFor(p)[n])}
  ELSE UNION {parser.reads[x] : x \in RowsFor(p)[n].content}
ReadsAll(p, basis, parser) == \A f \in Places : Reads(p, basis[f], parser) # {}
RowsOf(p, basis, parser, previous) ==
  [f \in Places |->
     RowProjection(RowsFor(p)[basis[f]], basis[f],
                   PreviousFields(interpreted, p, previous, basis[f]),
                   CHOOSE fields \in Reads(p, basis[f], parser) : TRUE)]
BasisOf(rows) == [f \in Places |-> rows[f].base]

DeclarationOf(parser) == [version |-> parser.version, implementation |-> parser.implementation]
\* load_interpretations
InterpretationAccepted(w, p, k) ==
  LET value == w.given[p][k]
  IN /\ value.declared \in w.parsers /\ value.previous = k - 1
     /\ \A f \in Places :
          LET item == value.rows[f]
              row == w.rows[p][item.base]
          IN /\ item.base \in DOMAIN w.rows[p] /\ row.place = f
             /\ item = RowProjection(row, item.base,
                                     PreviousFields(w, p, k - 1, item.base), item.fields)
             /\ row.content = {} => item.fields = Baseline(row)
InterpretationsLoad(w) ==
  /\ \A p \in Plans : \A k \in DOMAIN w.given[p] : InterpretationAccepted(w, p, k)
  /\ w.parsers = {v.declared : v \in UNION {ToSet(w.given[p]) : p \in Plans}}

\* append, up to its transaction: a request of before is computed again on the rows
\* it was given for, and against what preceded it.
OfKey(p, key) == {k \in DOMAIN Given(p) : Given(p)[k].key = key}
BasisFor(p, key) ==
  IF OfKey(p, key) = {} THEN LatestBasis(p)
  ELSE BasisOf(Given(p)[CHOOSE k \in OfKey(p, key) : TRUE].rows)
PrecededByNewest(p, key) == Len(Given(p))
PrecededBy(p, key) ==
  IF OfKey(p, key) = {} THEN Len(Given(p))
  ELSE Given(p)[CHOOSE k \in OfKey(p, key) : TRUE].previous
NewInterpretation(p, parser, key) ==
  [key |-> key, declared |-> DeclarationOf(parser), previous |-> PrecededBy(p, key),
   rows |-> RowsOf(p, BasisFor(p, key), parser, PrecededBy(p, key))]
BeginAppend(c, p, parser, key) ==
  /\ AtHome(c)
  /\ IF parser.version \in PublishedParsers THEN Replies(c, "invalid_request")
     ELSE IF PlanIsBusy(p) THEN Replies(c, "execution_busy")
     ELSE IF ~AuditIsComplete(p) THEN Replies(c, "execution_incomplete")
     ELSE IF ~InterpretationsLoad(interpreted) THEN Replies(c, "corrupt_reference")
     ELSE IF ~ReadsAll(p, BasisFor(p, key), parser) THEN Replies(c, "invalid_request")
     ELSE IF OfKey(p, key) = {}
     THEN Proceeds(c, [at |-> "appending", plan |-> p, value |-> NewInterpretation(p, parser, key)])
     ELSE Replies(c, IF NewInterpretation(p, parser, key) \in ToSet(Given(p)) THEN "returned"
                     ELSE "result_conflict")
  /\ UNCHANGED <<registry, interpreted>>

\* The transaction of append.
WithInterpretation(p, value) ==
  [interpreted EXCEPT !.parsers = @ \cup {value.declared}, !.given[p] = Append(@, value)]
CommitAppend(c) ==
  /\ registrars[c].at = "appending"
  /\ LET value == registrars[c].value
         after == WithInterpretation(registrars[c].plan, value)
         known == {d \in interpreted.parsers : d.version = value.declared.version}
     IN IF ~(known \subseteq {value.declared})
        THEN Replies(c, "request_conflict") /\ UNCHANGED interpreted
        ELSE IF InterpretationsLoad(after)
        THEN Replies(c, "appended") /\ interpreted' = after
        ELSE Replies(c, "corrupt_reference") /\ UNCHANGED interpreted
  /\ UNCHANGED registry

\* replay
ReplayInterpretation(p, k, parser) ==
  LET value == Given(p)[k]
      basis == BasisOf(value.rows)
  IN IF parser.version \in PublishedParsers \/ DeclarationOf(parser) # value.declared
     THEN "unsupported_history"
     ELSE IF ~ReadsAll(p, basis, parser) THEN "invalid_request"
     ELSE IF RowsOf(p, basis, parser, value.previous) = value.rows THEN "verified"
     ELSE "corrupt_reference"

\* A process that is killed leaves nothing but what it had published.
StopRegistrar(c) ==
  /\ ~AtHome(c) /\ Replies(c, "stopped")
  /\ UNCHANGED <<registry, interpreted>>

-------------------------------------------------------------------------------
RegistryInit ==
  /\ registry = [declarations |-> {}, records |-> <<>>, summaries |-> {}, complete |-> {},
                 pdfs |-> <<>>, published |-> {}, expectations |-> {}]
  /\ interpreted = [rows |-> [p \in Plans |-> <<>>], open |-> {}, parsers |-> {},
                    given |-> [p \in Plans |-> <<>>]]
  /\ registrars = [c \in Registrars |-> Answered("none")]
RegistryNext ==
  \/ \E s \in DOMAIN Summaries : CompleteAudit(s)
  \/ \E c \in Registrars :
       \/ \E d \in DOMAIN Documents : StartDeclaration(c, d)
       \/ \E q \in PdfRequests : StartPdf(c, q)
       \/ \E bytes \in PdfFiles : PublishPdf(c, bytes)
       \/ \E b \in BackendRequests : StartBackend(c, b)
       \/ RegisterFixtures(c) \/ RegisterPdf(c) \/ RegisterBackend(c) \/ StopRegistrar(c)
InterpretationNext ==
  \/ \E p \in Plans, f \in Places :
       \/ ContinueRow(p, f)
       \/ \E content \in {{}} \cup {{x} : x \in Contents}, continuable \in BOOLEAN :
            AppendRow(p, f, content, continuable)
  \/ \E c \in Registrars :
       \/ \E p \in Plans, parser \in MaterialParsers, key \in RequestKeys :
            BeginAppend(c, p, parser, key)
       \/ CommitAppend(c) \/ StopRegistrar(c)
RegistrySpec ==
  RegistryInit /\ [][RegistryNext \/ InterpretationNext]_registryVars

-------------------------------------------------------------------------------
(* Correctness *)

\* Whatever was recorded can be read and computed again: every history loads; a
\* registered file or PDF is verified; an interpretation that was given is reached again
\* by a parser of its declaration, both by replay and by repeating its request,
\* though the audit has been continued since.  The archive is called damaged only
\* to a process that read the samples before another one declared and gave a PDF
\* for one more (register_pdf, register_pdf_backend).
HistoriesAreAccepted ==
  /\ RecordsLoad(registry) /\ PdfsLoad(registry, Samples(registry))
  /\ \A d \in registry.declarations : DeclarationCheck(registry, d) = "byte_verified"
  /\ \A pdf \in ToSet(registry.pdfs) : PdfCheck(registry, pdf.request.sample) = "byte_verified"
  /\ InterpretationsLoad(interpreted)
  /\ \A p \in Plans : \A k \in DOMAIN Given(p) : \E parser \in MaterialParsers :
       /\ ReplayInterpretation(p, k, parser) = "verified"
       /\ NewInterpretation(p, parser, Given(p)[k].key) = Given(p)[k]
  /\ \A c \in Registrars :
       registrars[c].at = "idle" /\ registrars[c].damaged =>
         \E known \in registrars[c].wentBy : \E pdf \in ToSet(registry.pdfs) :
           pdf.request.sample \notin known
===============================================================================
