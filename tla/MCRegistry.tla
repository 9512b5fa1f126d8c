------------------------------ MODULE MCRegistry ------------------------------
(***************************************************************************)
(* A small instance of the histories beside an audit: eight declaration files *)
(* of one journal, of which some cannot stand together, requests for the PDFs *)
(* of two samples, and two audits of two places with five parsers.            *)
(***************************************************************************)
EXTENDS FixtureRegistry

MCJournals == {"j"}
MCSummary(feed) ==
  [parser |-> 1, headers |-> [j \in MCJournals |-> "h"],
   snapshots |-> [j \in MCJournals |-> feed], members |-> [j \in MCJournals |-> {"m"}]]
MCSummaries == [s \in {"s1", "s2"} |-> IF s = "s1" THEN MCSummary("f1") ELSE MCSummary("f2")]

\* Entries: a PDF's sample, made up; a feed and a whole audit, acquired.
Sample(key, replaces) ==
  [scope |-> <<"pdf", MCJournals, key>>, basis |-> "synthetic", replaces |-> replaces,
   reference |-> {}, parser |-> {}, headers |-> {}, members |-> {}]
FeedEntry(summary, feed) ==
  [scope |-> <<"feed", MCJournals, "x">>, basis |-> "acquired", replaces |-> {},
   reference |-> {[summary |-> summary, feed |-> {feed}, snapshots |-> {}]},
   parser |-> {1}, headers |-> {"h"}, members |-> {"m"}]
AuditEntry(summary) ==
  [scope |-> <<"abstract_audit", {}, "y">>, basis |-> "acquired", replaces |-> {},
   reference |-> {[summary |-> summary, feed |-> {},
                   snapshots |-> {MCSummaries[summary].snapshots}]},
   parser |-> {}, headers |-> {}, members |-> {"m"}]
Document(key, version, entries) == [key |-> key, version |-> version, entries |-> entries]
MCDocuments ==
  [d \in {"first", "second", "other", "twice", "feed", "audit", "wrong", "bare"} |->
     CASE d = "first"  -> Document("k", 1, <<Sample("a", {})>>)
       [] d = "second" -> Document("k", 2, <<Sample("a", {<<"first", 1>>}), Sample("b", {})>>)
       [] d = "other"  -> Document("k", 2, <<Sample("a", {})>>)
       [] d = "twice"  -> Document("l", 1, <<Sample("b", {}), Sample("b", {})>>)
       [] d = "feed"   -> Document("l", 1, <<FeedEntry("s1", "f1")>>)
       [] d = "audit"  -> Document("l", 2, <<AuditEntry("s2")>>)
       [] d = "wrong"  -> Document("l", 3, <<FeedEntry("s2", "f1")>>)
       [] d = "bare"   -> Document("l", 4, <<[FeedEntry("s1", "f1") EXCEPT !.reference = {}]>>)]

\* PDFs: of the first sample; of the one that replaced it, replacing that PDF or
\* not; and of the other sample, with the bytes it must have.
PdfOf(key, sample, replaces, expected) ==
  [key |-> key, sample |-> sample, replaces |-> replaces, expected |-> expected]
FirstPdf == PdfOf("x", <<"first", 1>>, {}, {})
Given1(bytes) == [request |-> FirstPdf, bytes |-> bytes]
MCPdfRequests ==
  {FirstPdf, PdfOf("x", <<"second", 1>>, {Given1("f")}, {}),
   PdfOf("z", <<"second", 1>>, {}, {}), PdfOf("x", <<"second", 2>>, {}, {"f"})}
Expectation(key, backend, bytes) ==
  [pdf |-> Given1("f"), key |-> key, backend |-> backend, bytes |-> bytes]
MCBackendRequests ==
  {Expectation("x", "b1", "f"), Expectation("x", "b2", "f"), Expectation("y", "b1", "f"),
   Expectation("z", "b3", "g")}

\* Parsers: of one version twice; one that is published; one that fails on a
\* material; and one that does not read what another of its declaration reads.
Fields(value) == [x \in {"title", "abstract"} |-> value]
Parser(version, implementation, m, n) ==
  [version |-> version, implementation |-> implementation,
   reads |-> [x \in {"m", "n"} |-> IF x = "m" THEN m ELSE n]]
MCParsers ==
  {Parser("p2", "i", {Fields("1")}, {Fields("2")}),
   Parser("p2", "k", {Fields("1")}, {Fields("1")}),
   Parser("p3", "i", {[x \in {"title"} |-> "1"]}, {}),
   Parser("p3", "i", {Fields("3")}, {}),
   Parser("audit-abstract-v1", "i", {Fields("1")}, {Fields("1")})}
MCBaselines ==
  [x \in {"feed", "doi_ra"} \X {{}, {"m"}, {"n"}} |->
     IF x[2] = {} THEN [y \in {"category"} |-> x[1]] ELSE [y \in {"title"} |-> "1"]]

\* Bounds: at most two files and two PDFs, and the bytes of two; an audit is complete
\* where nothing is published; a backend is declared when there is a PDF.  One
\* audit's feed is continued once and the audit interpreted twice, the other is
\* interpreted once, by one key; what is not the first audit's feed has a material.
RegistryBounds ==
  /\ Cardinality(registry'.declarations) <= 2
  /\ Len(registry'.pdfs) <= 2 /\ Cardinality(registry'.expectations) <= 1
  /\ registry'.complete = {} \/ registry'.published = {}
  /\ Cardinality(registry'.published) <= 2
  /\ \A c \in Registrars : registrars'[c].at = "expecting" => registry'.pdfs # <<>>
InterpretationBounds ==
  /\ Len(interpreted'.given["a1"]) <= 2 /\ Len(interpreted'.given["a2"]) <= 1
  /\ Cardinality(interpreted'.open) <= 1
  /\ \A c \in Registrars : registrars'[c].at = "appending" /\ registrars'[c].plan = "a2" =>
       registrars'[c].value.key = "x"
  /\ \A p \in Plans : \A n \in DOMAIN interpreted'.rows[p] :
       /\ (interpreted'.rows[p][n].place = "doi_ra") <=> (n = 2)
       /\ p = "a2" \/ n = 2 => interpreted'.rows[p][n].content = {"m"}
===============================================================================
