---------------------------- MODULE GuardInputs ----------------------------
(***************************************************************************)
(* The pure functions the rest trusts, over all the small inputs their     *)
(* modules name: beside those of the plans, the scanner of SQL texts, the  *)
(* proof that a statement only reads, the registries of statements.        *)
(***************************************************************************)
EXTENDS PlanInputs

Scanner == INSTANCE SqlTokens
Guard == INSTANCE ReadonlyGuard
Messages == INSTANCE SqlMessages

GuardInit ==
    \/ kind = "text" /\ input \in Scanner!Raws
    \/ kind = "statement" /\ input \in Guard!Statements
    \/ /\ kind = "sentence"
       /\ \E s \in Messages!READONLY_STATEMENTS : \E x \in Messages!Sentences(s.pattern) :
            input = [listed |-> s, sentence |-> x]
    \/ PlanInit
GuardRests == kind = "none" /\ input = "none"

\* SQL is taken for what a server would take it for: a text is cut at the boundaries the
\* server sees (sql_tokens), a statement proven read-only reads no relation that is not
\* named in it and allowed, however names are shadowed (sqlguard), the list of read-only
\* statements reads each sentence as one statement and one target (readonly_statements),
\* and every listed statement is recognised as SQL before a model could see it
\* (sql_statements, sql_message).
SqlIsReadAsTheServerReadsIt ==
    CASE kind = "text" -> Scanner!ScansOneStatement(input)
      [] kind = "statement" -> Guard!ProvenStatementsOnlyRead(input)
      [] kind = "sentence" -> /\ Messages!ReadsAs(input.listed, input.sentence)
                              /\ Messages!Reads(input.listed, input.sentence)
                              /\ Messages!_check_target_rule(input.listed)
                              /\ Messages!ListedStatementsAreRecognised(input.sentence)
      [] OTHER -> TRUE
=============================================================================
