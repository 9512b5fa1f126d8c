---------------------------- MODULE ReadAcceptance -----------------------------
(***************************************************************************)
(* What a Read attempt's answer is worth: validate_read_output_v2 of          *)
(* src/paper_radar/reading/acceptance_v2, with the context of                 *)
(* reading/context.py and the numbers of reading/numbers.py. The first         *)
(* attempt of a generation is accepted as a whole or not at all; the final     *)
(* one may lose items whose evidence is bad. ReadTasks only uses the verdict   *)
(* (its Sound and Degradable candidates).                                     *)
(*                                                                         *)
(* A candidate's items are a function from places <<list, n>>; a text is       *)
(* whether it means something and the numbers in it.                          *)
(***************************************************************************)
EXTENDS Integers, Sequences

CONSTANTS
  ReadContexts,     \* contexts a caller may give
  ReadCandidates,   \* parsed answers
  ValidIds          \* well-formed evidence ids

\* The fields of a parsed answer, whatever is in them.
IsAnalysis(c) ==
  c = [items |-> c.items, language |-> c.language, value |-> c.value, types |-> c.types]
ASSUME CandidateAssumption == \A c \in ReadCandidates : IsAnalysis(c)

VARIABLES
  acceptance        \* the last call: its arguments and its result

SubjectLists == {"main_findings", "reusable_points"}
ListFields == SubjectLists \cup {"key_limitations"}

\* The places of a candidate that belong to a list; the two reasons do not.
InLists(c) == {p \in DOMAIN c.items : p[1] \in ListFields}
Subject(c) == {p \in DOMAIN c.items : p[1] \in SubjectLists}
Without(c, places) == [c EXCEPT !.items = [p \in DOMAIN c.items \ places |-> c.items[p]]]

-------------------------------------------------------------------------------
(* Context *)

Known(ctx) == DOMAIN ctx.evidence
Allowed(ctx) == IF ctx.mode = "reduce" THEN ctx.allowed ELSE Known(ctx)
\* Evidence rests on at least one slice of a source, and what is allowed is known.
ValidContext(ctx) ==
  /\ Known(ctx) \subseteq ValidIds
  /\ \A e \in Known(ctx) : ctx.evidence[e] # {}
  /\ IF ctx.mode = "reduce" THEN ctx.allowed \subseteq Known(ctx) ELSE ctx.allowed = {}

-------------------------------------------------------------------------------
(* Numbers *)

Recognized(literal) == \A n \in DOMAIN literal.values : literal.values[n] # "?"
UnitOf(literal, n) ==
  IF literal.units[n] # "none" THEN literal.units[n] ELSE literal.units[Len(literal.units)]
\* Every end of the literal is a number of this one slice.
SupportedBy(slice, literal, withUnit) ==
  /\ Recognized(literal)
  /\ \A n \in DOMAIN literal.values :
       \E l \in slice.numbers : Recognized(l) /\
         \E k \in DOMAIN l.values :
           /\ l.values[k] = literal.values[n]
           /\ withUnit =>
                \/ UnitOf(literal, n) \in {"none", UnitOf(l, k)}
                \/ n < Len(literal.values) /\ UnitOf(l, k) = "none"
Restricted(slice) == slice.kind # "text" \/ slice.unreliable
NumberReason(slices, literal) ==
  LET supporting == {s \in slices : SupportedBy(s, literal, TRUE)}
  IN IF ~Recognized(literal) THEN "unrecognized_numeric_form"
     ELSE IF supporting # {}
     THEN IF \A s \in supporting : Restricted(s) THEN "restricted_numeric_support" ELSE "none"
     ELSE IF /\ \E n \in DOMAIN literal.units : literal.units[n] # "none"
             /\ \E s \in slices : SupportedBy(s, literal, FALSE)
     THEN "unit_not_supported"
     ELSE IF Len(literal.values) = 2 THEN "range_not_supported"
     ELSE "number_not_supported"

-------------------------------------------------------------------------------
(* A candidate *)

\* What is wrong with the candidate as a whole, its bad items included.
WholeIssues(c, ctx) ==
  (IF \E p \in DOMAIN c.items : ~c.items[p].meaningful THEN {"invalid_text"} ELSE {})
  \cup (IF c.language # ctx.language THEN {"language_mismatch"} ELSE {})
  \cup (IF c.value >= 3 /\ c.types = <<>> THEN {"value_types_required"} ELSE {})
  \cup (IF \E i, j \in DOMAIN c.types : i < j /\ c.types[i] = c.types[j]
        THEN {"duplicate_value_type"} ELSE {})

PointerIssue(refs, n, ctx) ==
  IF refs[n] \notin ValidIds THEN "invalid_evidence_id"
  ELSE IF \E m \in 1..(n - 1) : refs[m] = refs[n] THEN "duplicate_evidence"
  ELSE IF refs[n] \notin Known(ctx) THEN "unknown_evidence"
  ELSE IF refs[n] \notin Allowed(ctx) THEN "evidence_not_allowed"
  ELSE "none"
BadPointers(refs, ctx) == {n \in DOMAIN refs : PointerIssue(refs, n, ctx) # "none"}
BadItem(item, ctx) ==
  \/ BadPointers(item.refs, ctx) # {}
  \/ ctx.mode = "reduce" /\ \A n \in DOMAIN item.refs : item.refs[n] \notin Allowed(ctx)
BadPlaces(c, ctx) == {p \in DOMAIN c.items : BadItem(c.items[p], ctx)}

\* A wrong variant: any item of the lists is given up when one is bad.
GivenUpByList(c, ctx, ordinal) ==
  IF ordinal = 2
  THEN {p \in InLists(c) : \E q \in BadPlaces(c, ctx) \cap InLists(c) : q[1] = p[1]} ELSE {}
\* The final attempt gives up the bad items of the lists.
GivenUp(c, ctx, ordinal) == IF ordinal = 2 THEN BadPlaces(c, ctx) \cap InLists(c) ELSE {}

Discard(p, item, ctx) ==
  LET faulty == BadPointers(item.refs, ctx)
  IN [at |-> p,
      reason |-> IF faulty = {} THEN "evidence_required"
                 ELSE PointerIssue(item.refs, CHOOSE n \in faulty : \A m \in faulty : n <= m, ctx),
      positions |-> UNION {ctx.evidence[e] : e \in {item.refs[n] : n \in faulty} \cap Known(ctx)}]

\* What the user is told of an item that stays.
Slices(item, ctx) ==
  UNION {ctx.evidence[e] : e \in {item.refs[n] : n \in DOMAIN item.refs} \cap Known(ctx)}
Diagnostics(p, item, ctx) ==
  {[at |-> p, reason |-> r] :
     r \in (IF \E s \in Slices(item, ctx) : s.kind = "formula" \/ s.unreliable
            THEN {"restricted_source_reference"} ELSE {})
           \cup ({NumberReason(Slices(item, ctx), l) : l \in item.numbers} \ {"none"})}

ContextError == [verdict |-> "context_error"]
Rejection(issues) == [verdict |-> "rejected", issues |-> issues]
AfterDropping(c, ctx, dropped) ==
  LET rest == Without(c, dropped)
  IN IF BadPlaces(rest, ctx) # {} THEN Rejection({"bad_evidence"})
     ELSE IF Subject(c) # {} /\ Subject(rest) = {} THEN Rejection({"output_without_support"})
     ELSE [verdict |-> "accepted", analysis |-> rest,
           discards |-> {Discard(p, c.items[p], ctx) : p \in dropped},
           diagnostics |-> UNION {Diagnostics(p, rest.items[p], ctx) : p \in DOMAIN rest.items}]
Validation(c, ctx, ordinal) ==
  IF ~ValidContext(ctx) THEN ContextError
  ELSE IF WholeIssues(c, ctx) # {} THEN Rejection(WholeIssues(c, ctx))
  ELSE AfterDropping(c, ctx, GivenUp(c, ctx, ordinal))

-------------------------------------------------------------------------------
(* Calls *)

NoCall == [ordinal |-> 0]
AcceptanceInit == acceptance = NoCall
Validate ==
  /\ acceptance = NoCall
  /\ \E c \in ReadCandidates, ctx \in ReadContexts, ordinal \in 1..2 :
       acceptance' = [ordinal |-> ordinal, candidate |-> c, context |-> ctx,
                      result |-> Validation(c, ctx, ordinal)]
AcceptanceSpec == AcceptanceInit /\ [][Validate]_acceptance

-------------------------------------------------------------------------------
(* What must hold *)

IsAccepted(c, ctx, ordinal) == Validation(c, ctx, ordinal).verdict = "accepted"

\* What the final attempt may accept, said without dropping: some of the lists'
\* items are left that the first attempt would accept, and the result is the
\* largest such rest.
Rests(c, ctx) ==
  {rest \in {Without(c, places) : places \in SUBSET InLists(c)} :
     /\ IsAccepted(rest, ctx, 1)
     /\ Subject(c) # {} => Subject(rest) # {}}
\* Nothing of what is kept says a number without a reliable slice that has it,
\* unless the user is told so.
IsSupported(item, ctx) ==
  \A l \in item.numbers :
    \E s \in Slices(item, ctx) : ~Restricted(s) /\ SupportedBy(s, l, TRUE)

\* The final attempt forgives bad evidence in the lists and nothing else: what it
\* accepts is the largest rest the first would accept, it changes nothing of an
\* answer that was sound, every item that goes is reported with its reason, and
\* what stays is supported or marked (reading/acceptance_v2/__init__.py:442).
AcceptanceIsSound ==
  acceptance # NoCall =>
    LET c == acceptance.candidate
        ctx == acceptance.context
        result == acceptance.result
    IN /\ result.verdict = "context_error" <=> ~ValidContext(ctx)
       /\ result.verdict = "accepted" =>
            /\ result.analysis \in Rests(c, ctx)
            /\ \A rest \in Rests(c, ctx) :
                 DOMAIN rest.items \subseteq DOMAIN result.analysis.items
            /\ {d.at : d \in result.discards} =
                 DOMAIN c.items \ DOMAIN result.analysis.items
            /\ IsAccepted(c, ctx, 1) => result.discards = {}
            /\ \A p \in DOMAIN result.analysis.items :
                 \/ IsSupported(c.items[p], ctx)
                 \/ \E d \in result.diagnostics : d.at = p
       /\ (result.verdict = "rejected" /\ acceptance.ordinal = 2
           /\ WholeIssues(c, ctx) = {}) => Rests(c, ctx) = {}
=============================================================================
