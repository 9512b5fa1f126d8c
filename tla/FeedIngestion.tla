----------------------------- MODULE FeedIngestion -----------------------------
(***************************************************************************)
(* Production checks of the feed (src/paper_radar/feed_ingestion) on top   *)
(* of the paper facts: a check is registered, fetched, settled and its     *)
(* items are submitted one by one; any process may resume an unfinished    *)
(* check, also beside one that is still running it.                        *)
(***************************************************************************)
EXTENDS Papers

CONSTANTS
  Resumers,     \* processes that check or resume
  CheckIds,     \* request ids of checks; bounds the number of checks
  Parsers,      \* parser versions
  Bodies,       \* the feed as the server publishes it, one body after the other
  Parsed        \* Parsed[payload][parser]: what the parser makes of an item

\* An item of a body has an entry id and its bytes.
ASSUME BodyAssumption ==
  /\ Parsers \subseteq Nat \ {0}
  /\ \A b \in DOMAIN Bodies : \A i \in DOMAIN Bodies[b] :
       Bodies[b][i].entry \in Entries /\ Bodies[b][i].payload \in DOMAIN Parsed

VARIABLES
  checks,      \* feed_production_checks and feed_production_items
  served,      \* the body the server has now
  resumers     \* the Python frame of each _check or _resume

feedVars == <<checks, served, resumers>>

Unsettled == [reason |-> "outcome_unknown", status |-> 0, artifact |-> 0, etag |-> 0]
\* An artifact is the number of its body, and so is its etag.
Settlement(reason, status, artifact, etag) ==
  [reason |-> reason, status |-> status, artifact |-> artifact, etag |-> etag]

CheckOf(id) == {n \in DOMAIN checks : checks[n].id = id}
\* read_check: the items of a check, complete when nothing is left to do.
ItemsOf(n) == Bodies[checks[n].settlement.artifact]
Complete(n) ==
  LET s == checks[n].settlement
  IN /\ s # Unsettled
     /\ s.artifact # 0 => s.status = 304 \/ DOMAIN checks[n].items = DOMAIN ItemsOf(n)

Frame(at, n) == [at |-> at, check |-> n]
\* _resume after it has read the check again.
Resumed(n) ==
  IF Complete(n) THEN Idle
  ELSE IF checks[n].settlement = Unsettled THEN Frame("fetching", n)
  ELSE [at |-> "items", check |-> n, artifact |-> checks[n].settlement.artifact,
        left |-> DOMAIN ItemsOf(n) \ DOMAIN checks[n].items]

\* The headers of a new check: of the latest check with an artifact, if the
\* same parser read it.
LatestKept == {n \in DOMAIN checks : checks[n].settlement.artifact # 0}
NewCheck(id, parser) ==
  LET prior == IF LatestKept = {} THEN 0 ELSE Max(LatestKept)
      usable == prior # 0 /\ checks[prior].parser = parser
  IN [id |-> id, parser |-> parser, prior |-> prior,
      condition |-> IF usable THEN checks[prior].settlement.etag ELSE 0,
      settlement |-> Unsettled, items |-> <<>>]

\* check: a known request id returns to its check, unless it names another parser.
RegisterCheck(c, id, parser) ==
  /\ resumers[c] = Idle /\ archive.registered
  /\ \/ /\ CheckOf(id) = {}
        /\ checks' = Append(checks, NewCheck(id, parser))
        /\ resumers' = [resumers EXCEPT ![c] = Frame("registered", Len(checks) + 1)]
     \/ \E n \in CheckOf(id) :
          /\ parser = checks[n].parser
          /\ resumers' = [resumers EXCEPT ![c] = Frame("registered", n)]
          /\ UNCHANGED checks
  /\ UNCHANGED <<paperVars, served>>

Resume(c, n) ==
  /\ resumers[c] \in {Idle, Frame("registered", n)} /\ n \in DOMAIN checks
  /\ resumers' = [resumers EXCEPT ![c] = Resumed(n)]
  /\ UNCHANGED <<paperVars, checks, served>>

\* The request goes out again for every resumer of an unsettled check.
Fetch(c) ==
  LET n == resumers[c].check
      condition == checks[n].condition
      Answered(s) == resumers' = [resumers EXCEPT ![c] =
                       [at |-> "fetched", check |-> n, settlement |-> s]]
  IN /\ resumers[c].at = "fetching"
     /\ \/ \E etag \in {0, served} : Answered(Settlement("acquired", 200, served, etag))
        \/ condition = served /\ Answered(Settlement("acquired", 304, condition, condition))
        \/ Answered(Settlement("transient_error", 503, 0, 0))
     /\ UNCHANGED <<paperVars, checks, served>>

SettleAnew(c) ==
  LET n == resumers[c].check
  IN /\ resumers[c].at = "fetched"
     /\ checks' = [checks EXCEPT ![n].settlement = resumers[c].settlement]
     /\ resumers' = [resumers EXCEPT ![c] = Frame("registered", n)]
     /\ UNCHANGED <<paperVars, served>>

\* Only the first settlement counts, also for the one that comes second.
Settle(c) ==
  LET n == resumers[c].check
  IN /\ resumers[c].at = "fetched"
     /\ checks' = IF checks[n].settlement = Unsettled
                  THEN [checks EXCEPT ![n].settlement = resumers[c].settlement] ELSE checks
     /\ resumers' = [resumers EXCEPT ![c] = Frame("registered", n)]
     /\ UNCHANGED <<paperVars, served>>

\* The observation of an item; its time is the one of the check.
Submission(n, artifact, position) ==
  LET item == Bodies[artifact][position]
      parsed == Parsed[item.payload][checks[n].parser]
  IN [source |-> "feed", stream |-> item.entry, doi |-> parsed.doi, kind |-> "journal",
      at |-> n, payload |-> item.payload, parser |-> checks[n].parser,
      fields |-> parsed.fields, relations |-> {}, target |-> [paper |-> 0, version |-> 0]]
Invalid(n, artifact, position) ==
  Parsed[Bodies[artifact][position].payload][checks[n].parser].invalid

SubmitNext(c) ==
  LET n == resumers[c].check
      artifact == resumers[c].artifact
      position == Min(resumers[c].left)
      Holding(answer) == resumers' = [resumers EXCEPT ![c] =
        [at |-> "submitted", check |-> n, artifact |-> artifact,
         left |-> resumers[c].left \ {position}, position |-> position, answer |-> answer]]
  IN /\ resumers[c].at = "items" /\ resumers[c].left # {}
     /\ \/ /\ Invalid(n, artifact, position)
           /\ Holding(Rejected("invalid_item")) /\ UNCHANGED archive
        \/ /\ ~Invalid(n, artifact, position)
           /\ \E outcome \in {ItemOutcome(archive, Submission(n, artifact, position))} :
                /\ Within(outcome.archive)
                /\ Holding(outcome.answer) /\ archive' = outcome.archive
     /\ UNCHANGED <<submitters, answers, checks, served>>

\* The outcome of an item is stored once; whoever comes second must agree.
StoreItem(c) ==
  LET n == resumers[c].check
      position == resumers[c].position
      answer == resumers[c].answer
      known == position \in DOMAIN checks[n].items
      Continue == resumers' = [resumers EXCEPT ![c] =
        IF resumers[c].left = {} THEN Idle
        ELSE [at |-> "items", check |-> n, artifact |-> resumers[c].artifact,
              left |-> resumers[c].left]]
  IN /\ resumers[c].at = "submitted"
     /\ \/ /\ ~known
           /\ checks' = [checks EXCEPT ![n].items =
                [i \in DOMAIN @ \cup {position} |-> IF i = position THEN answer ELSE @[i]]]
           /\ Continue
        \/ /\ known /\ checks[n].items[position] = answer
           /\ Continue /\ UNCHANGED checks
        \/ /\ known /\ checks[n].items[position] # answer
           /\ resumers' = [resumers EXCEPT ![c] = Frame("corrupt", n)] /\ UNCHANGED checks
     /\ UNCHANGED <<paperVars, served>>

\* The process ends, by a kill or with the error it raised.
Stop(c) ==
  /\ resumers[c] # Idle
  /\ resumers' = [resumers EXCEPT ![c] = Idle]
  /\ UNCHANGED <<paperVars, checks, served>>

ServerMovesOn ==
  /\ served < Len(Bodies)
  /\ served' = served + 1
  /\ UNCHANGED <<paperVars, checks, resumers>>

FeedInit ==
  /\ checks = <<>> /\ served = 1
  /\ resumers = [c \in Resumers |-> Idle]

FeedNext ==
  \/ \E c \in Resumers :
       \/ \E id \in CheckIds, parser \in Parsers : RegisterCheck(c, id, parser)
       \/ \E n \in DOMAIN checks : Resume(c, n)
       \/ Fetch(c) \/ Settle(c) \/ SubmitNext(c) \/ StoreItem(c) \/ Stop(c)
  \/ ServerMovesOn
  \/ RegisterFeed /\ UNCHANGED feedVars

-------------------------------------------------------------------------------
(* Properties *)

\* What read_check accepts of a stored outcome: its receipt is the one the
\* paper facts would replay, for this item and this parser.
OutcomeAccepted(n, position) ==
  LET answer == checks[n].items[position]
      r == Submission(n, checks[n].settlement.artifact, position)
  IN answer.status # "rejected" =>
       LET q == archive.acquisitions[answer.acquisition]
       IN /\ answer = SavedResult(archive, answer.acquisition)
          /\ <<q.request.source, q.request.stream, q.request.payload, q.request.parser>> =
             <<r.source, r.stream, r.payload, r.parser>>

\* Every check passes read_check (feed_ingestion/repository.py:81), also one that
\* several processes have fetched, settled and submitted in turns: a conditional
\* answer refers to the settled artifact and etag of an earlier check, and
\* every stored receipt is still what the paper facts replay.
CheckHistoryIsAccepted ==
  \A n \in DOMAIN checks :
    LET s == checks[n].settlement  p == checks[n].prior
    IN /\ s.artifact = 0 => DOMAIN checks[n].items = {}
       /\ s.artifact # 0 => /\ s.reason = "acquired"
                            /\ DOMAIN checks[n].items \subseteq DOMAIN ItemsOf(n)
       /\ checks[n].condition # 0 =>
            p \in 1..(n - 1) /\ checks[p].settlement.etag = checks[n].condition
       /\ s.status = 304 =>
            /\ DOMAIN checks[n].items = {} /\ p \in 1..(n - 1)
            /\ checks[p].settlement.artifact = s.artifact
       /\ \A i \in DOMAIN checks[n].items : OutcomeAccepted(n, i)
=============================================================================
