------------------------------- MODULE Tables -------------------------------
(***************************************************************************)
(* A backend that does one thing at a time with its foreign tables: it     *)
(* changes the catalog or describes a table, plans a statement and begins  *)
(* it, fetches a LOB, or analyzes a table it has described.                *)
(***************************************************************************)
EXTENDS ForeignTable, PlanData, Lob, Analyze

vars == <<tableVars, planVars, lobVars, analyzeVars>>

Init == TableInit /\ PlanInit /\ LobInit /\ AnalyzeInit

PlanRests == planState = NoState
LobRests == lobCall = "idle"
AnalyzeRests == sampling = "idle"

\* An entry of each column DB2 can name must have a type it can be read with;
\* an empty one ends the backend.
Analyzable(cols) ==
  \A k \in DOMAIN cols : cols[k] # NoEntry /\ checkDataType(cols[k].colType, cols[k].colScale, cols[k].pgtype)

AnalyzeStarts == AnalyzeRests => \E n \in DOMAIN desc : Analyzable(desc[n])

\* A plan's data and a LOB are not of any of these tables: it makes no
\* difference when they are handled, so it is before the first import.
Next ==
  \/ PlanRests /\ LobRests /\ AnalyzeRests /\ TableNext /\ UNCHANGED <<planVars, lobVars, analyzeVars>>
  \/ LobRests /\ mapping # {} /\ imports = 0 /\ PlanDataNext /\ UNCHANGED <<tableVars, lobVars, analyzeVars>>
  \/ PlanRests /\ mapping # {} /\ imports = 0 /\ LobNext /\ UNCHANGED <<tableVars, planVars, analyzeVars>>
  \/ PlanRests /\ LobRests /\ AnalyzeStarts /\ AnalyzeNext /\ UNCHANGED <<tableVars, planVars, lobVars>>

Spec == Init /\ [][Next]_vars
=============================================================================
