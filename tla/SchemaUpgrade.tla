----------------------------- MODULE SchemaUpgrade -----------------------------
(***************************************************************************)
(* The archive's schema and its upgrade (src/paper_radar/storage: database, *)
(* schema, migrations; the tables every package declares).                  *)
(*                                                                         *)
(* A table is what the other tables see of it: the tables its rows always    *)
(* refer to, those they may refer to, the values of its checked column, the  *)
(* columns a migration added.  Its rows are one: there, or not; with the      *)
(* optional references and checked values some row of it has.                *)
(***************************************************************************)
EXTENDS Naturals, FiniteSets, SequencesExt

CONSTANTS
  Upgraders,    \* processes that run upgrade_database
  Services      \* processes that open the archive and write to it

VARIABLES
  archive,      \* the database file
  upgrades,     \* how far each upgrade has come, and what it reported
  services      \* the same of each service
schemaVars == <<archive, upgrades, services>>

-------------------------------------------------------------------------------
(* Tables, and what a migration says of them *)

Refs(T) == [to |-> T, maybe |-> {}, allows |-> {}, columns |-> {}]
Alone == Refs({})
MayRefer(T) == [Alone EXCEPT !.maybe = T]
Allows(V) == [Alone EXCEPT !.allows = V]
Column(C) == [Alone EXCEPT !.columns = C]
And(d, e) ==
  [to |-> d.to \cup e.to, maybe |-> d.maybe \cup e.maybe,
   allows |-> d.allows \cup e.allows, columns |-> d.columns \cup e.columns]

Creates(tables) ==
  [creates |-> tables,
   alters |-> <<>>,      \* what it adds to tables that exist
   rebuilds |-> <<>>,    \* tables saved, dropped, created again, filled again
   cuts |-> {},          \* links set to NULL while it rebuilds
   seeds |-> {},         \* rows it inserts
   copies |-> {}]        \* <<from, to>>: rows of one table that go to another

-------------------------------------------------------------------------------
(* The migrations *)

a201_profile_snapshot == Creates(
  [config_versions |-> Alone, runtime_config_snapshots |-> Alone,
   snapshot_version_refs |-> Refs({"config_versions", "runtime_config_snapshots"})])
a302_artifact_store == Creates(
  [content_objects |-> Alone, artifacts |-> Alone,
   artifact_members |-> Refs({"artifacts", "content_objects"})])
a401_pi_supply == Creates(
  [pi_supply_database |-> Alone, pi_supply_roots |-> Alone, pi_supplies |-> Alone,
   pi_supply_materials |-> Refs({"pi_supplies"}),
   pi_install_instances |-> Refs({"pi_supplies", "pi_supply_roots"}),
   pi_install_checks |-> Refs({"pi_install_instances"})])
a402_pi_rebuild_failures == Creates([pi_rebuild_failures |-> Refs({"pi_supplies"})])
a403_pi_activation == Creates(
  [pi_activation_events |-> Refs({"pi_install_instances", "pi_supplies",
                                  "pi_supply_roots", "runtime_config_snapshots"}),
   pi_current_selection |-> Refs({"pi_activation_events"})])
a404_pi_cleanup_plans == Creates(
  [pi_cleanup_plans |-> Alone,
   pi_install_retirements |-> Refs({"pi_cleanup_plans", "pi_install_instances"})])
a405_pi_cleanup_execution == Creates(
  [pi_cleanup_executions |-> Refs({"pi_cleanup_plans"}),
   pi_cleanup_progress |-> Refs({"pi_cleanup_executions", "pi_install_instances"})])

a601_sources ==
  [papers |-> Alone, paper_versions |-> Refs({"papers"}),
   external_identifiers |-> Refs({"paper_versions"}),
   paper_observations |->
     And(Refs({"artifacts", "paper_versions"}), Allows({"publisher"})),
   paper_source_acquisitions |->
     And(MayRefer({"paper_observations", "paper_versions"}), Allows({"publisher"}))]
a601_facts ==
  [paper_field_candidates |-> Refs({"paper_observations"}),
   paper_candidate_authors |-> Refs({"paper_field_candidates"}),
   paper_version_revisions |-> Refs({"paper_source_acquisitions", "paper_versions"}),
   paper_revision_fields |-> Refs({"paper_field_candidates", "paper_source_acquisitions",
                                   "paper_version_revisions"}),
   paper_selection_events |-> And(Refs({"paper_versions"}), Allows({"initial"}))]
a601_paper_facts == Creates(a601_sources @@ a601_facts)

\* SQLite cannot widen a CHECK in place: the tables are saved, dropped, filled again.
SourceTables == <<"paper_observations", "paper_source_acquisitions",
  "paper_field_candidates", "paper_candidate_authors", "paper_version_revisions",
  "paper_revision_fields">>
a602_sources ==
  [paper_observations |-> Allows({"feed"}),
   paper_source_acquisitions |-> And(Allows({"feed"}), Column({"raw_doi"}))]
a602_feed_discovery ==
  [Creates([feeds |-> Alone, feed_entries |-> Refs({"feeds", "paper_versions"}),
            feed_discoveries |-> Refs({"artifacts", "feed_entries"}),
            feed_interpretations |->
              Refs({"feed_discoveries", "paper_source_acquisitions"})])
   EXCEPT !.rebuilds = SourceTables, !.alters = a602_sources]
a603_source_arbitration ==
  [Creates([paper_manual_corrections |->
              Refs({"paper_source_acquisitions", "paper_versions"})])
   EXCEPT !.rebuilds = Append(SourceTables, "feed_interpretations"),
          !.alters = [t \in {"paper_observations", "paper_source_acquisitions"} |->
                        Allows({"manual", "registry"})]]
a604_version_relations ==
  [Creates([paper_version_relations |-> Refs({"artifacts", "paper_source_acquisitions"}),
            paper_relation_references |->
              Refs({"paper_source_acquisitions", "paper_version_relations"})])
   EXCEPT !.rebuilds = <<"paper_selection_events">>,
          !.alters = [paper_source_acquisitions |-> Column({"result_reason"}),
                      paper_selection_events |->
                        And(Column({"event_no"}), Allows({"journal_upgrade"}))]]

a701_screening_registration == Creates(
  [screening_inputs |-> Alone,
   screening_budgets |->
     And(Refs({"paper_version_revisions", "paper_versions", "papers",
               "runtime_config_snapshots", "screening_inputs"}),
         MayRefer({"paper_selection_events"})),
   screening_tasks |-> Refs({"screening_budgets"}),
   screening_requests |->
     And(Refs({"paper_version_revisions", "runtime_config_snapshots", "screening_tasks"}),
         And(MayRefer({"paper_selection_events"}), Allows({"scheduled", "manual"})))])
a702_screening_attempts == Creates(
  [screening_attempts |->
     And(Refs({"paper_version_revisions", "screening_requests", "screening_tasks"}),
         MayRefer({"paper_selection_events"})),
   screening_leases |-> Refs({"screening_attempts"}),
   screening_failures |-> Refs({"screening_attempts"})])
a703_screening_success ==
  [Creates([screening_successes |->
              Refs({"artifacts", "screening_attempts", "screening_budgets"})])
   EXCEPT !.alters =
     [screening_requests |->
        And(MayRefer({"screening_successes"}), Column({"cached_success_id"})),
      screening_failures |-> Column({"issues_json", "submission_sha256", "audit_json"})]]
\* Requests, successes and attempts refer to each other in a circle.
a704_screening_retry ==
  [Creates(<<>>) EXCEPT
     !.rebuilds = <<"screening_requests", "screening_attempts", "screening_leases",
                    "screening_failures", "screening_successes">>,
     !.cuts = {<<"screening_requests", "screening_successes">>},
     !.alters = [screening_requests |-> Allows({"retry"}),
                 screening_tasks |->
                   And(MayRefer({"screening_tasks"}), Column({"parent_task_id"}))]]

a1001_fixtures ==
  [fixture_declarations |-> Alone,
   fixture_records |-> And(Refs({"fixture_declarations"}), MayRefer({"fixture_records"})),
   fixture_pdf_acquisitions |->
     And(Refs({"artifacts", "fixture_records"}), MayRefer({"fixture_pdf_acquisitions"})),
   fixture_pdf_expectations |-> Refs({"fixture_pdf_acquisitions"})]
a1001_audits ==
  [audit_plans |-> Alone,
   audit_route_starts |-> And(Refs({"audit_plans"}), MayRefer({"audit_route_starts"})),
   audit_route_settlements |->
     And(Refs({"audit_route_starts"}), MayRefer({"artifacts"})),
   audit_sampling_feeds |-> Refs({"artifacts", "audit_plans", "audit_route_starts"}),
   audit_sampling_events |->
     And(Refs({"audit_plans"}), MayRefer({"audit_sampling_events"})),
   audit_abstract_rows |-> And(Refs({"audit_plans", "audit_route_starts"}),
                               MayRefer({"audit_abstract_rows"})),
   audit_parser_declarations |-> Alone,
   audit_interpretations |-> And(Refs({"audit_parser_declarations", "audit_plans"}),
                                 MayRefer({"audit_interpretations"})),
   audit_summaries |-> Refs({"audit_plans"})]
a1001_fixture_audit == Creates(a1001_fixtures @@ a1001_audits)

feed01_identity_conflicts == Creates([paper_identity_conflicts |-> Refs({"artifacts"})])
feed02_title_language ==
  [Creates([title_language_policies |-> Alone, feed_journal_bindings |-> Refs({"feeds"}),
            title_language_resolutions |-> Refs({"papers", "title_language_policies"}),
            screening_language_basis |->
              Refs({"screening_budgets", "title_language_resolutions"})])
   EXCEPT !.seeds = {"title_language_policies"}]
feed03_feed_acquisition == Creates(
  [feed_production_checks |->
     And(Refs({"feeds"}), MayRefer({"artifacts", "feed_production_checks"})),
   feed_production_items |-> Refs({"feed_production_checks"})])
feed04_metadata == Creates(
  [feed_metadata_requests |-> Refs({"papers"}),
   feed_metadata_routes |-> And(Refs({"feed_metadata_requests"}),
                                MayRefer({"artifacts", "paper_source_acquisitions"}))])
feed05_composition == Creates([feed_value_registrations |-> Refs({"screening_requests"})])
\* Every budget that has a language basis is one that needs it.
feed06_language_provenance ==
  [Creates([screening_language_requirements |-> Refs({"screening_budgets"})])
   EXCEPT !.copies = {<<"screening_language_basis", "screening_language_requirements">>}]
feed07_parser_versions ==
  [Creates(<<>>) EXCEPT !.alters = [feed_production_checks |-> Column({"parser_version"})]]

body01_persistence == Creates(
  [body_root |-> Alone,
   body_decisions |-> Refs({"paper_version_revisions", "paper_versions", "papers"}),
   body_decision_screenings |-> Refs({"body_decisions", "screening_successes"}),
   body_pdfs |-> Refs({"artifacts", "paper_versions", "papers"}),
   body_samples |-> Refs({"feeds", "paper_versions", "papers"}),
   body_extraction_inputs |-> Refs({"runtime_config_snapshots"}),
   body_extraction_attempts |-> Refs({"body_extraction_inputs"}),
   body_extraction_outcomes |->
     And(Refs({"body_extraction_attempts"}), MayRefer({"artifacts"})),
   body_extraction_successes |->
     Refs({"body_extraction_inputs", "body_extraction_outcomes"}),
   body_layout_reviews |-> Refs({"body_extraction_successes"})])
body02_read_tasks ==
  [Creates([read_budgets |-> Refs({"artifacts", "body_extraction_inputs", "papers",
                                   "runtime_config_snapshots"}),
            read_tasks |-> And(Refs({"read_budgets"}), MayRefer({"read_tasks"})),
            read_registrations |-> Refs({"read_tasks", "runtime_config_snapshots"}),
            read_attempts |-> Refs({"read_tasks"}),
            read_renewals |-> Refs({"read_attempts"}),
            read_outcomes |-> Refs({"read_attempts"}),
            read_analyses |-> Refs({"artifacts", "read_outcomes", "read_tasks"}),
            read_evidence |-> Refs({"artifacts", "read_analyses"})])
   EXCEPT !.alters = [body_extraction_attempts |-> Column({"executor_audit_json"})]]

\* walk_revisions, from the first down_revision to the head.
Migrations == <<
  a201_profile_snapshot, a302_artifact_store, a401_pi_supply, a402_pi_rebuild_failures,
  a403_pi_activation, a404_pi_cleanup_plans, a405_pi_cleanup_execution, a601_paper_facts,
  a602_feed_discovery, a603_source_arbitration, a604_version_relations,
  a701_screening_registration, a702_screening_attempts, a703_screening_success,
  a704_screening_retry, a1001_fixture_audit, feed01_identity_conflicts,
  feed02_title_language, feed03_feed_acquisition, feed04_metadata, feed05_composition,
  feed06_language_provenance, feed07_parser_versions, body01_persistence,
  body02_read_tasks>>
current_revision == Len(Migrations)

-------------------------------------------------------------------------------
(* What a migration does, statement by statement, to tables and rows *)

Empty == [tables |-> <<>>, rows |-> {}, links |-> {}, values |-> {}, broken |-> FALSE]

\* The rows that keep a table from being dropped: foreign_keys is ON.
Referrers(db, t) ==
  {u \in db.rows \ {t} : t \in db.tables[u].to \/ <<u, t>> \in db.links}
Of(pairs, t) == {p \in pairs : p[1] = t}
DropTable(db, t) ==
  [db EXCEPT !.rows = @ \ {t}, !.links = @ \ Of(@, t), !.values = @ \ Of(@, t),
             !.broken = @ \/ Referrers(db, t) # {}]

\* INSERT INTO t SELECT .. FROM saved_t: its references and checks are checked.
Insert(db, saved, t) ==
  LET targets == db.tables[t].to \cup {l[2] : l \in Of(saved.links, t)}
      values == {v[2] : v \in Of(saved.values, t)}
  IN IF t \notin saved.rows THEN db
     ELSE [db EXCEPT !.rows = @ \cup {t}, !.links = @ \cup Of(saved.links, t),
                     !.values = @ \cup Of(saved.values, t),
                     !.broken = \/ @ \/ ~ targets \subseteq db.rows \cup {t}
                                \/ ~ values \subseteq db.tables[t].allows]

Altered(tables, m) ==
  [t \in DOMAIN tables |->
     IF t \in DOMAIN m.alters THEN And(tables[t], m.alters[t]) ELSE tables[t]]
\* The links that were cut are those that were saved.
RelinkedNot(saved, db, cuts) == db
Relinked(saved, db, cuts) == [db EXCEPT !.links = @ \cup (saved.links \cap cuts)]
\* Saved, cut, dropped from the last to the first, created again wider, filled again.
TablesRebuilt(db, m) ==
  LET cut == [db EXCEPT !.links = @ \ m.cuts]
      dropped == FoldLeft(DropTable, cut, Reverse(m.rebuilds))
      made == [dropped EXCEPT !.tables = Altered(db.tables, m)]
      filled == FoldLeft(LAMBDA d, t : Insert(d, cut, t), made, m.rebuilds)
  IN Relinked(db, filled, m.cuts)
Migrate(db, m) ==
  LET made == [TablesRebuilt(db, m) EXCEPT !.tables = @ @@ m.creates]
      copied == {c \in m.copies : c[1] \in made.rows}
  IN [made EXCEPT !.rows = @ \cup m.seeds \cup {c[2] : c \in copied}]

\* command.upgrade: the migrations the archive has not had.
Upgraded(db, revision) ==
  FoldLeft(Migrate, db, SubSeq(Migrations, revision + 1, current_revision))

-------------------------------------------------------------------------------
(* The tables the packages declare, and write to *)

StoreTables ==
  [config_versions |-> Alone, runtime_config_snapshots |-> Alone,
   snapshot_version_refs |-> Refs({"runtime_config_snapshots", "config_versions"}),
   content_objects |-> Alone, artifacts |-> Alone,
   artifact_members |-> Refs({"artifacts", "content_objects"})]
BodyTables ==
  [body_root |-> Alone,
   body_decisions |-> Refs({"papers", "paper_versions", "paper_version_revisions"}),
   body_decision_screenings |-> Refs({"body_decisions", "screening_successes"}),
   body_pdfs |-> Refs({"papers", "paper_versions", "artifacts"}),
   body_samples |-> Refs({"feeds", "papers", "paper_versions"})]
ExtractionTables ==
  [body_extraction_inputs |-> Refs({"runtime_config_snapshots"}),
   body_extraction_attempts |->
     And(Refs({"body_extraction_inputs"}), Column({"executor_audit_json"})),
   body_extraction_outcomes |->
     And(Refs({"body_extraction_attempts"}), MayRefer({"artifacts"})),
   body_extraction_successes |->
     Refs({"body_extraction_inputs", "body_extraction_outcomes"}),
   body_layout_reviews |-> Refs({"body_extraction_successes"})]
ReadTables ==
  [read_budgets |-> Refs({"papers", "runtime_config_snapshots", "body_extraction_inputs",
                          "artifacts"}),
   read_tasks |-> And(Refs({"read_budgets"}), MayRefer({"read_tasks"})),
   read_registrations |-> Refs({"read_tasks", "runtime_config_snapshots"}),
   read_attempts |-> Refs({"read_tasks"}), read_renewals |-> Refs({"read_attempts"}),
   read_outcomes |-> Refs({"read_attempts"}),
   read_analyses |-> Refs({"read_tasks", "read_outcomes", "artifacts"}),
   read_evidence |-> Refs({"read_analyses", "artifacts"})]

SourceKinds == {"publisher", "feed", "manual", "registry"}
ObservedTables ==
  [papers |-> Alone, paper_versions |-> Refs({"papers"}),
   external_identifiers |-> Refs({"paper_versions"}),
   paper_observations |-> And(Refs({"paper_versions", "artifacts"}), Allows(SourceKinds)),
   paper_source_acquisitions |->
     And(And(MayRefer({"paper_versions", "paper_observations"}), Allows(SourceKinds)),
         Column({"raw_doi", "result_reason"}))]
FactTables ==
  [paper_field_candidates |-> Refs({"paper_observations"}),
   paper_candidate_authors |-> Refs({"paper_field_candidates"}),
   paper_version_revisions |-> Refs({"paper_versions", "paper_source_acquisitions"}),
   paper_revision_fields |-> Refs({"paper_field_candidates", "paper_source_acquisitions",
                                   "paper_version_revisions"}),
   paper_selection_events |-> And(And(Refs({"paper_versions"}), Column({"event_no"})),
                                  Allows({"initial", "journal_upgrade"}))]
FeedTables ==
  [feeds |-> Alone, feed_entries |-> Refs({"feeds", "paper_versions"}),
   feed_discoveries |-> Refs({"artifacts", "feed_entries"}),
   feed_interpretations |-> Refs({"feed_discoveries", "paper_source_acquisitions"}),
   paper_manual_corrections |-> Refs({"paper_versions", "paper_source_acquisitions"}),
   paper_version_relations |-> Refs({"paper_source_acquisitions", "artifacts"}),
   paper_relation_references |->
     Refs({"paper_source_acquisitions", "paper_version_relations"})]
ConflictTables == [paper_identity_conflicts |-> Refs({"artifacts"})]
CheckTables ==
  [feed_production_checks |-> And(And(Refs({"feeds"}), Column({"parser_version"})),
                                  MayRefer({"feed_production_checks", "artifacts"})),
   feed_production_items |-> Refs({"feed_production_checks"})]
MetadataTables ==
  [feed_metadata_requests |-> Refs({"papers"}),
   feed_metadata_routes |-> And(Refs({"feed_metadata_requests"}),
                                MayRefer({"paper_source_acquisitions", "artifacts"}))]

PiTables ==
  [pi_supply_database |-> Alone, pi_supply_roots |-> Alone, pi_supplies |-> Alone,
   pi_supply_materials |-> Refs({"pi_supplies"}),
   pi_install_instances |-> Refs({"pi_supplies", "pi_supply_roots"}),
   pi_install_checks |-> Refs({"pi_install_instances"}),
   pi_rebuild_failures |-> Refs({"pi_supplies"}),
   pi_activation_events |-> Refs({"pi_supply_roots", "pi_install_instances",
                                  "pi_supplies", "runtime_config_snapshots"}),
   pi_current_selection |-> Refs({"pi_activation_events"}),
   pi_cleanup_plans |-> Alone,
   pi_install_retirements |-> Refs({"pi_install_instances", "pi_cleanup_plans"}),
   pi_cleanup_executions |-> Refs({"pi_cleanup_plans"}),
   pi_cleanup_progress |-> Refs({"pi_cleanup_executions", "pi_install_instances"})]

RegistrationTables ==
  [screening_inputs |-> Alone,
   screening_budgets |->
     And(Refs({"papers", "paper_versions", "paper_version_revisions", "screening_inputs",
               "runtime_config_snapshots"}), MayRefer({"paper_selection_events"})),
   screening_tasks |-> And(And(Refs({"screening_budgets"}), Column({"parent_task_id"})),
                           MayRefer({"screening_tasks"})),
   screening_requests |->
     And(And(Refs({"screening_tasks", "paper_version_revisions",
                   "runtime_config_snapshots"}),
             MayRefer({"paper_selection_events", "screening_successes"})),
         And(Allows({"scheduled", "manual", "retry"}), Column({"cached_success_id"})))]
AttemptTables ==
  [screening_attempts |->
     And(Refs({"screening_tasks", "screening_requests", "paper_version_revisions"}),
         MayRefer({"paper_selection_events"})),
   screening_leases |-> Refs({"screening_attempts"}),
   screening_failures |-> And(Refs({"screening_attempts"}),
                              Column({"issues_json", "submission_sha256", "audit_json"})),
   screening_successes |-> Refs({"screening_attempts", "screening_budgets", "artifacts"})]
LanguageTables ==
  [title_language_policies |-> Alone, feed_journal_bindings |-> Refs({"feeds"}),
   title_language_resolutions |-> Refs({"papers", "title_language_policies"}),
   screening_language_basis |->
     Refs({"screening_budgets", "title_language_resolutions"}),
   screening_language_requirements |-> Refs({"screening_budgets"})]
GateTables == [feed_value_registrations |-> Refs({"screening_requests"})]

FixtureTables ==
  [fixture_declarations |-> Alone,
   fixture_records |-> And(Refs({"fixture_declarations"}), MayRefer({"fixture_records"}))]
PdfTables ==
  [fixture_pdf_acquisitions |->
     And(Refs({"fixture_records", "artifacts"}), MayRefer({"fixture_pdf_acquisitions"})),
   fixture_pdf_expectations |-> Refs({"fixture_pdf_acquisitions"})]
RouteTables ==
  [audit_plans |-> Alone,
   audit_route_starts |-> And(Refs({"audit_plans"}), MayRefer({"audit_route_starts"})),
   audit_route_settlements |->
     And(Refs({"audit_route_starts"}), MayRefer({"artifacts"}))]
SamplingTables ==
  [audit_sampling_feeds |-> Refs({"audit_plans", "audit_route_starts", "artifacts"}),
   audit_sampling_events |->
     And(Refs({"audit_plans"}), MayRefer({"audit_sampling_events"}))]
AbstractTables ==
  [audit_abstract_rows |->
     And(Refs({"audit_plans", "audit_route_starts"}), MayRefer({"audit_abstract_rows"}))]
InterpretationTables ==
  [audit_parser_declarations |-> Alone,
   audit_interpretations |-> And(Refs({"audit_plans", "audit_parser_declarations"}),
                                 MayRefer({"audit_interpretations"}))]
SummaryTables == [audit_summaries |-> Refs({"audit_plans"})]

Declared ==
  StoreTables @@ BodyTables @@ ExtractionTables @@ ReadTables @@ ObservedTables
  @@ FactTables @@ FeedTables @@ ConflictTables @@ CheckTables @@ MetadataTables
  @@ PiTables @@ RegistrationTables @@ AttemptTables @@ LanguageTables @@ GateTables
  @@ FixtureTables @@ PdfTables @@ RouteTables @@ SamplingTables @@ AbstractTables
  @@ InterpretationTables @@ SummaryTables

-------------------------------------------------------------------------------
(* Archives *)

\* What an archive of a revision holds, if no row was ever written to it.
Fresh == [r \in 0..current_revision |-> FoldLeft(Migrate, Empty, SubSeq(Migrations, 1, r))]

RECURSIVE Closed(_, _)
Closed(tables, T) ==
  LET needed == T \cup UNION {tables[t].to : t \in T}
  IN IF needed = T THEN T ELSE Closed(tables, needed)

\* register writes a budget's basis and its requirement together.
Basis == {"screening_language_basis", "screening_language_requirements"}
Retained(tables, T) == IF T \cap Basis = {} THEN T ELSE T \cup (Basis \cap DOMAIN tables)

\* Rows of the tables T, with these links and values, and all they refer to.
Rows(tables, T, links, values) ==
  [rows |-> Closed(tables, Retained(tables, T \cup {l[2] : l \in links})),
   links |-> links, values |-> values]
LinksOf(tables) == UNION {{t} \X tables[t].maybe : t \in DOMAIN tables}
ValuesOf(tables) == UNION {{t} \X tables[t].allows : t \in DOMAIN tables}

\* One fact: a row, or one with an optional reference, or with a checked value.
OneFact(tables) ==
  {Rows(tables, {t}, {}, {}) : t \in DOMAIN tables}
  \cup {Rows(tables, {l[1]}, {l}, {}) : l \in LinksOf(tables)}
  \cup {Rows(tables, {v[1]}, {}, {v}) : v \in ValuesOf(tables)}
Everything(tables) ==
  Rows(tables, DOMAIN tables, LinksOf(tables), ValuesOf(tables))

Adding(db, more) ==
  [db EXCEPT !.rows = @ \cup more.rows, !.links = @ \cup more.links,
             !.values = @ \cup more.values]

NoArchive == [file |-> FALSE, revision |-> 0, db |-> Empty, wal |-> FALSE, lock |-> "nobody"]
EmptyArchive == [NoArchive EXCEPT !.file = TRUE]
Newer == current_revision + 1     \* of a version of the program we do not know
\* Left by an upgrade to r; or restored from a backup of it, which is not in WAL mode.
\* A statement is refused for a row and what it refers to: one fact shows it.
ArchiveOf(r, content, wal) ==
  [file |-> TRUE, revision |-> r, db |-> Adding(Fresh[r], content), wal |-> wal,
   lock |-> "nobody"]
ArchivesOf(r) ==
  {ArchiveOf(r, content, TRUE) : content \in OneFact(Fresh[r].tables)}
  \cup {ArchiveOf(r, Everything(Fresh[r].tables), wal) : wal \in BOOLEAN}

NotStarted == [at |-> "start", result |-> "none"]
SchemaInit ==
  /\ archive \in {NoArchive, EmptyArchive, [EmptyArchive EXCEPT !.revision = Newer]}
                 \cup UNION {ArchivesOf(r) : r \in 1..current_revision}
  /\ upgrades = [u \in Upgraders |-> NotStarted]
  /\ services = [s \in Services |-> NotStarted]

-------------------------------------------------------------------------------
(* upgrade_database.  "busy" and "broken" are both upgrade_failed to its caller. *)

Finished(result) == [at |-> "end", result |-> result]

\* CREATE makes the file; an unknown revision is refused.
ReadRevision(u) ==
  /\ upgrades[u].at = "start"
  /\ archive' = [archive EXCEPT !.file = TRUE]
  /\ upgrades' = [upgrades EXCEPT ![u] =
       IF archive.revision = Newer THEN Finished("unknown_revision")
       ELSE [@ EXCEPT !.at = "read"]]
  /\ UNCHANGED services

\* BEGIN IMMEDIATE, before the revision is read again; somebody else may hold it.
BeginUpgrade(u) ==
  /\ upgrades[u].at = "read"
  /\ IF archive.lock = "nobody"
     THEN /\ archive' = [archive EXCEPT !.lock = u]
          /\ upgrades' = [upgrades EXCEPT ![u].at = "begun"]
     ELSE /\ upgrades' = [upgrades EXCEPT ![u] = Finished("busy")]
          /\ UNCHANGED archive
  /\ UNCHANGED services

\* env.run_migrations_online, and one commit for all of them, or none.
CommitUpgrade(u) ==
  LET db == Upgraded(archive.db, archive.revision)
  IN /\ upgrades[u].at = "begun"
     /\ IF db.broken
        THEN /\ archive' = [archive EXCEPT !.lock = "nobody"]
             /\ upgrades' = [upgrades EXCEPT ![u] = Finished("broken")]
        ELSE /\ archive' = [archive EXCEPT !.db = db, !.lock = "nobody",
                                           !.revision = current_revision]
             /\ upgrades' = [upgrades EXCEPT ![u].at = "committed"]
     /\ UNCHANGED services

\* PRAGMA journal_mode=WAL, outside the transaction: the storage may refuse it,
\* or another connection that is writing.
SetWal(u) ==
  /\ upgrades[u].at = "committed"
  /\ \/ /\ archive.wal \/ archive.lock = "nobody"
        /\ archive' = [archive EXCEPT !.wal = TRUE]
        /\ upgrades' = [upgrades EXCEPT ![u] = Finished("upgraded")]
     \/ /\ ~ archive.wal
        /\ upgrades' = [upgrades EXCEPT ![u] =
             Finished(IF archive.lock = "nobody" THEN "wal_unavailable" ELSE "busy")]
        /\ UNCHANGED archive
  /\ UNCHANGED services

\* A process dies: SQLite rolls its transaction back.
KillUpgrade(u) ==
  /\ upgrades[u].at \in {"read", "begun", "committed"}
  /\ archive' = IF archive.lock = u THEN [archive EXCEPT !.lock = "nobody"] ELSE archive
  /\ upgrades' = [upgrades EXCEPT ![u] = Finished("killed")]
  /\ UNCHANGED services

-------------------------------------------------------------------------------
(* open_database and require_current_revision, then a service's transaction *)

Refusal ==
  CASE ~ archive.file -> "database_missing"
    [] archive.file /\ archive.revision = 0 -> "database_uninitialized"
    [] archive.revision = Newer -> "unknown_revision"
    [] archive.revision \in 1..(current_revision - 1) -> "upgrade_required"
    [] OTHER -> "none"
OpenService(s) ==
  /\ services[s].at = "start"
  /\ services' = [services EXCEPT ![s] =
       IF Refusal = "none" THEN [@ EXCEPT !.at = "open"]
       ELSE Finished(Refusal)]
  /\ UNCHANGED <<archive, upgrades>>

\* Rows of every declared table, written as one; the archive takes them or not.
Takes(db, more) ==
  /\ more.rows \subseteq DOMAIN db.tables
  /\ \A t \in more.rows :
       /\ Declared[t].columns \subseteq db.tables[t].columns
       /\ db.tables[t].to \subseteq more.rows \cup db.rows
  /\ \A l \in more.links : l[2] \in db.tables[l[1]].maybe
  /\ \A v \in more.values : v[2] \in db.tables[v[1]].allows
WriteRows(s) ==
  LET more == Everything(Declared)
  IN /\ services[s].at = "open"
     /\ archive.lock = "nobody"
     /\ IF Takes(archive.db, more)
        THEN /\ archive' = [archive EXCEPT !.db = Adding(@, more)]
             /\ services' = [services EXCEPT ![s] = Finished("written")]
        ELSE /\ services' = [services EXCEPT ![s] = Finished("storage_failed")]
             /\ UNCHANGED archive
     /\ UNCHANGED upgrades

SchemaNext ==
  \/ \E u \in Upgraders :
       ReadRevision(u) \/ BeginUpgrade(u) \/ CommitUpgrade(u) \/ SetWal(u) \/ KillUpgrade(u)
  \/ \E s \in Services : OpenService(s) \/ WriteRows(s)
SchemaSpec == SchemaInit /\ [][SchemaNext]_schemaVars

-------------------------------------------------------------------------------

\* foreign_key_check and the checks, of every row there is.
Sound(db) ==
  /\ ~ db.broken
  /\ \A t \in db.rows : db.tables[t].to \subseteq db.rows
  /\ \A l \in db.links : {l[1], l[2]} \subseteq db.rows /\ l[2] \in db.tables[l[1]].maybe
  /\ \A v \in db.values : v[1] \in db.rows /\ v[2] \in db.tables[v[1]].allows
Recorded(db, t, u) == (t \in db.rows) = (u \in db.rows)

\* Whatever archive an upgrade finds, it brings it to the tables this program
\* declares, every reference kept and every budget's language basis required;
\* no archive of a known revision is one it cannot upgrade, and no service that
\* was let in is refused by a table.
ArchiveFits ==
  /\ Sound(archive.db)
  /\ archive.revision = current_revision =>
       /\ archive.db.tables = Declared
       /\ "title_language_policies" \in archive.db.rows
       /\ Recorded(archive.db, "screening_language_basis", "screening_language_requirements")
  /\ \A u \in Upgraders :
       /\ upgrades[u].result # "broken"
       /\ upgrades[u].result = "upgraded" =>
            archive.wal /\ archive.revision = current_revision
  /\ \A s \in Services : services[s].result # "storage_failed"

\* No upgrade, finished, killed or refused, loses a row, a link or a value.
FactsStay ==
  /\ archive.db.rows \subseteq archive'.db.rows
  /\ archive.db.links \subseteq archive'.db.links
  /\ archive.db.values \subseteq archive'.db.values
  /\ archive.revision <= archive'.revision
  /\ archive.wal => archive'.wal

UpgradeKeepsFacts == []ArchiveFits /\ [][FactsStay]_schemaVars
===============================================================================
