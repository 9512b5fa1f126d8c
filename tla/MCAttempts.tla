------------------------------ MODULE MCAttempts ------------------------------
(***************************************************************************)
(* An attempt from its task to the process that makes it, with what it is    *)
(* given and what its answer is worth, the log of all of them, the schema of   *)
(* the archive they write to, and the histories beside an audit in it: small   *)
(* instances of the modules, checked one beside the other. A behaviour is one  *)
(* of the parts, chosen at the start.                                        *)
(***************************************************************************)
EXTENDS
  ScreeningTasks, PiExecution, RpcCall, RuntimeLog, MCInputs, SchemaUpgrade, MCRegistry

CONSTANTS p1, p2, q1, q2, A, B, good, bad

VARIABLE part
inputVars == <<acceptance, configVars, judged>>
attemptParts == <<vars, executionVars, rpcVars, logVars, inputVars, schemaVars, registryVars,
                 part>>

\* Tasks: the text changes, then returns, and its first budget applies again.
MCReturning == <<A, B, A>>
MCGoodBad == (good :> "accept") @@ (bad :> "output_invalid")
MCReports == {"executor_error"}

\* An executor reports a failure once; what it answers is judged every time.  Of the
\* four attempts that the two tasks may have, three are made.
Reported == {<<t, n>> \in TaskIds \X {1, 2} :
               n <= Len(attempts'[t]) /\ attempts'[t][n].kind \in Reports}
TaskBounds ==
  Cardinality(Reported) <= 1 /\ Len(attempts'[p1]) + Len(attempts'[p2]) <= 3

\* One call of Pi: one thing goes wrong, or two if one is a cancellation.
Troubles ==
  Cardinality(expired' \ {"terminate"}) + (IF pi'.odd THEN 1 ELSE 0)
  + (IF call'.result = "interrupted" THEN 1 ELSE 0)
CallBounds ==
  Troubles <= (IF "cancelled" \in expired' THEN 2 ELSE 1) /\ call.at # "returned"

\* Executions and groups left behind: two at a time, of one of the two tasks.
ExecutionBounds ==
  /\ Cardinality({c \in Executors : executors'[c] # AtRestNow}) + Cardinality(orphans') <= 2
  /\ Cardinality({kind \in DOMAIN budgets' : budgets'[kind] # <<>>}) <= 1

\* Two worlds: few files, edited twice, and three calls; all files, where only
\* the settings are edited, once between two compilations.
FewWorld == AdapterKey("3") \notin DOMAIN files
ConfigBounds ==
  /\ edits' # edits => {compilers[c].at : c \in ConfigCallers} \cap {"rows", "count"} = {}
  /\ IF FewWorld
     THEN /\ compilers'[p1].calls + compilers'[p2].calls <= 3
          /\ files'[SettingsFile] \in {Settings("1"), Settings("2")}
     ELSE /\ compilers'[p1].calls + compilers'[p2].calls <= 2
          /\ files' # files => edits = 0 /\ files'[SettingsFile] # files[SettingsFile]
          /\ Cardinality({c \in ConfigCallers : compilers'[c].at = "reading"}) <= 1

MCInit ==
  /\ part \in {"tasks", "execution", "rpc", "log", "acceptance", "config",
              "eligibility", "schema", "registry", "interpretations"}
  /\ Init /\ ExecutionInit /\ RpcInit /\ LogInit
  /\ AcceptanceInit /\ ConfigInit /\ EligibilityInit /\ SchemaInit /\ RegistryInit
  /\ part = "config" <=> files # <<>>
  /\ selected \in Evidenced
  /\ part = "schema" \/ archive = NoArchive
AttemptPart ==
  \/ /\ part = "tasks" /\ Next /\ TaskBounds
     /\ UNCHANGED <<executionVars, rpcVars, logVars>>
  \/ /\ part = "execution" /\ ExecutionNext /\ ExecutionBounds
     /\ UNCHANGED <<vars, rpcVars, logVars>>
  \/ /\ part = "rpc" /\ RpcNext /\ CallBounds
     /\ UNCHANGED <<vars, executionVars, logVars>>
  \/ /\ part = "log" /\ LogNext
     /\ UNCHANGED <<vars, executionVars, rpcVars>>
InputPart ==
  \/ /\ part = "acceptance" /\ Validate
     /\ UNCHANGED <<configVars, judged>>
  \/ /\ part = "config" /\ ConfigNext /\ ConfigBounds
     /\ UNCHANGED <<acceptance, judged>>
  \/ /\ part = "eligibility" /\ EvaluatePaper
     /\ UNCHANGED <<acceptance, configVars>>
ArchivePart ==
  \/ /\ part = "schema" /\ SchemaNext
     /\ UNCHANGED registryVars
  \/ /\ part = "registry" /\ RegistryNext /\ RegistryBounds
     /\ UNCHANGED schemaVars
  \/ /\ part = "interpretations" /\ InterpretationNext /\ InterpretationBounds
     /\ UNCHANGED schemaVars
MCNext ==
  /\ UNCHANGED part
  /\ \/ AttemptPart /\ UNCHANGED <<inputVars, schemaVars, registryVars>>
     \/ /\ InputPart
        /\ UNCHANGED <<vars, executionVars, rpcVars, logVars, schemaVars, registryVars>>
     \/ /\ ArchivePart
        /\ UNCHANGED <<vars, executionVars, rpcVars, logVars, inputVars>>
MCSpec == MCInit /\ [][MCNext]_attemptParts

\* One exchange: the tasks, the readers and the log writers, with the screeners.
Symmetry ==
  {f \in Permutations({p1, p2, q1, q2}) :
     {f[p1], f[p2]} = {p1, p2} /\ (f[p1] = p1 <=> f[q1] = q1)}
===============================================================================
