----------------------------- MODULE SlowQuery -----------------------------
(***************************************************************************)
(* The slow-query capability: its parameters                               *)
(* (planning/starrocks/params.py), the compiler of its two templates       *)
(* (compiler.py) and the guard that admits their SQL (verify_sql,          *)
(* governance/sqlguard.py).                                                *)
(*                                                                         *)
(* An SQL text is the tree it parses to, as a record; two texts are equal  *)
(* when the records are.  Time counts half seconds, so that an SQL         *)
(* timestamp, which has whole seconds, can lose something; a minute is     *)
(* four of them.                                                           *)
(***************************************************************************)
EXTENDS Integers, Sequences, FiniteSets

Minute == 4
MAX_WINDOW_MINUTES == 2
MAX_ROW_LIMIT == 2
DEFAULT_MIN_QUERY_TIME_MS == 1
COUNT_ROW_LIMIT == 1
NoFilter == "none"

LIST_V1 == "list"
COUNT_V1 == "count"
TEMPLATE_IDS == {LIST_V1, COUNT_V1}
surface == [dialect |-> "starrocks", tables |-> {"audit"}, columns |-> {"timestamp", "queryTime", "db", "user"},
            aliases |-> {"query_count"}, time_column |-> "timestamp"]

-----------------------------------------------------------------------------
\* Parameters.

\* SlowQueryParams: the model validator included.
Valid(params) ==
    /\ params.window_end > params.window_start
    /\ params.window_end - params.window_start <= MAX_WINDOW_MINUTES * Minute
    /\ params.row_limit \in 1 .. MAX_ROW_LIMIT

\* The end of a window is the request's time down to the minute.
normalise_window(as_of, minutes) ==
    LET end == Minute * (as_of \div Minute) IN <<end - minutes * Minute, end>>

\* The keys a template consumes.
ScopeKeys == {"window_start", "window_end", "database", "user_name"}

TEMPLATE_PARAM_KEYS(template) ==
    IF template = LIST_V1 THEN ScopeKeys \cup {"min_query_time_ms", "row_limit"}
    ELSE ScopeKeys \cup {"row_limit"}

\* to_typed_arguments cut to a template's keys, and back: a key that is not
\* carried takes its default.
to_typed_arguments(params, template) == [key \in TEMPLATE_PARAM_KEYS(template) |-> params[key]]
from_typed_arguments(arguments) ==
    [window_start |-> arguments["window_start"],
     window_end |-> arguments["window_end"],
     row_limit |-> arguments["row_limit"],
     database |-> IF "database" \in DOMAIN arguments THEN arguments["database"] ELSE NoFilter,
     user_name |-> IF "user_name" \in DOMAIN arguments THEN arguments["user_name"] ELSE NoFilter,
     min_query_time_ms |-> IF "min_query_time_ms" \in DOMAIN arguments
                           THEN arguments["min_query_time_ms"] ELSE DEFAULT_MIN_QUERY_TIME_MS]

-----------------------------------------------------------------------------
\* Compilation.

\* A literal has whole seconds.
_timestamp_literal(time) == 2 * (time \div 2)

Predicate(op, column, value) == [op |-> op, column |-> column, value |-> value]

\* The third filter of the same loop, query_id, takes the way of these two and is left out.
ScopeFilters == {[slot |-> "database", column |-> "db"], [slot |-> "user_name", column |-> "user"]}
_scope_predicates(params) ==
    {Predicate("GTE", surface.time_column, [at |-> _timestamp_literal(params.window_start)]),
     Predicate("LT", surface.time_column, [at |-> _timestamp_literal(params.window_end)])}
    \cup {Predicate("EQ", filter.column, [is |-> params[filter.slot]]) :
            filter \in {f \in ScopeFilters : params[f.slot] # NoFilter}}

Select(columns, aliases, star, where, limit) ==
    [root |-> "Select", statements |-> 1, odd_character |-> FALSE, comment |-> FALSE,
     odd_node |-> FALSE, table |-> "audit", columns |-> columns, aliases |-> aliases,
     star |-> star, where |-> where, limit |-> limit]

_compile_list(params) ==
    Select(surface.columns, {}, "none",
           _scope_predicates(params)
             \cup {Predicate("GTE", "queryTime", [number |-> params.min_query_time_ms])},
           params.row_limit)

_compile_count(params) ==
    Select({}, {"query_count"}, "count", _scope_predicates(params), COUNT_ROW_LIMIT)

compile_sql(template, params) ==
    IF template = LIST_V1 THEN _compile_list(params) ELSE _compile_count(params)

\* _step_arguments and compile_plan: one step per template.
Step(template, params) ==
    [sql |-> compile_sql(template, params), sql_template_id |-> template,
     arguments |-> to_typed_arguments(params, template)]

-----------------------------------------------------------------------------
\* Admission.

\* Rules over the nodes of the tree, in the order they are looked at.
_check_nodes(sql) ==
    CASE sql.comment -> "COMMENT_PRESENT"
      [] ~sql.comment /\ sql.odd_node -> "FORBIDDEN_NODE"
      [] ~sql.comment /\ ~sql.odd_node ->
           IF sql.star = "bare" THEN "STAR_NOT_ALLOWED"
           ELSE IF sql.table \notin surface.tables THEN "TABLE_NOT_ALLOWED"
           ELSE IF ~(sql.columns \cup {p.column : p \in sql.where} \subseteq surface.columns)
                   \/ ~(sql.aliases \subseteq surface.aliases)
           THEN "COLUMN_NOT_ALLOWED" ELSE "none"

_check_limit(sql) ==
    IF sql.limit = 0 THEN "LIMIT_MISSING"
    ELSE IF sql.limit \notin 1 .. MAX_ROW_LIMIT THEN "LIMIT_EXCEEDED" ELSE "none"

\* The literals a bound of the window is read from; a text here has at most one
\* per bound.
_window_literal(sql, op) ==
    {p.value.at : p \in {q \in sql.where : q.op = op /\ q.column = surface.time_column}}

_check_window(sql, params) ==
    LET lower == _window_literal(sql, "GTE")
        upper == _window_literal(sql, "LT")
    IN IF lower = {} \/ upper = {} THEN "WINDOW_UNBOUNDED"
       ELSE IF lower # {params.window_start} \/ upper # {params.window_end} THEN "WINDOW_MISMATCH"
       ELSE IF \E l \in lower, u \in upper : u - l > MAX_WINDOW_MINUTES * Minute
       THEN "WINDOW_TOO_WIDE" ELSE "none"

_parse_single_statement(sql) ==
    IF sql.statements = 0 THEN "UNPARSABLE"
    ELSE IF sql.statements > 1 THEN "MULTIPLE_STATEMENTS"
    ELSE IF sql.root # "Select" THEN "NON_SELECT" ELSE "none"

\* The first rule that refuses names the reason; comparing with the
\* recompiled text comes last.
verify_sql(sql, params, template) ==
    LET rules == <<IF template \notin TEMPLATE_IDS THEN "UNKNOWN_TEMPLATE" ELSE "none",
                   IF sql.odd_character THEN "AMBIGUOUS_CHARACTER" ELSE "none",
                   _parse_single_statement(sql), _check_nodes(sql), _check_limit(sql),
                   _check_window(sql, params),
                   IF template \in TEMPLATE_IDS /\ sql = compile_sql(template, params)
                   THEN "none" ELSE "RECOMPILE_MISMATCH">>
        refusing == {i \in DOMAIN rules : rules[i] # "none"}
    IN IF refusing = {} THEN "none" ELSE rules[CHOOSE i \in refusing : \A j \in refusing : i <= j]

-----------------------------------------------------------------------------
(***************************************************************************)
(* The references: what a text selects from a table of rows, and the edits *)
(* a text may have suffered.                                               *)
(***************************************************************************)

Row(at, slow, db, user) == [at |-> at, slow |-> slow, db |-> db, user |-> user]
Rows == [at : {2, 5, 8}, slow : 0 .. 2, db : {"d1", "d2"}, user : {"u1", "u2"}]
Matches(row, p) ==
    CASE p.op = "GTE" /\ p.column = "timestamp" -> row.at >= p.value.at
      [] p.op = "LT" -> row.at < p.value.at
      [] p.op = "GTE" /\ p.column = "queryTime" -> row.slow >= p.value.number
      [] p.op = "EQ" /\ p.column = "db" -> row.db = p.value.is
      [] p.op = "EQ" /\ p.column = "user" -> row.user = p.value.is
SelectedRows(sql) == {row \in Rows : \A p \in sql.where : Matches(row, p)}

\* One edit, and the reason that names it.
Edits ==
    {[what |-> "odd_character", why |-> "AMBIGUOUS_CHARACTER"],
     [what |-> "comment", why |-> "COMMENT_PRESENT"], [what |-> "odd_node", why |-> "FORBIDDEN_NODE"],
     [what |-> "second", why |-> "MULTIPLE_STATEMENTS"], [what |-> "write", why |-> "NON_SELECT"],
     [what |-> "star", why |-> "STAR_NOT_ALLOWED"], [what |-> "table", why |-> "TABLE_NOT_ALLOWED"],
     [what |-> "column", why |-> "COLUMN_NOT_ALLOWED"], [what |-> "alias", why |-> "COLUMN_NOT_ALLOWED"],
     [what |-> "no_limit", why |-> "LIMIT_MISSING"], [what |-> "more", why |-> "LIMIT_EXCEEDED"],
     [what |-> "no_lower", why |-> "WINDOW_UNBOUNDED"], [what |-> "earlier", why |-> "WINDOW_MISMATCH"],
     [what |-> "no_filter", why |-> "RECOMPILE_MISMATCH"]}
Edited(sql, edit) ==
    CASE edit.what = "odd_character" -> [sql EXCEPT !.odd_character = TRUE]
      [] edit.what = "comment" -> [sql EXCEPT !.comment = TRUE]
      [] edit.what = "odd_node" -> [sql EXCEPT !.odd_node = TRUE]
      [] edit.what = "second" -> [sql EXCEPT !.statements = 2]
      [] edit.what = "write" -> [sql EXCEPT !.root = "Insert"]
      [] edit.what = "star" -> [sql EXCEPT !.star = "bare"]
      [] edit.what = "table" -> [sql EXCEPT !.table = "other"]
      [] edit.what = "column" -> [sql EXCEPT !.columns = @ \cup {"other_column"}]
      [] edit.what = "alias" -> [sql EXCEPT !.aliases = @ \cup {"other"}]
      [] edit.what = "no_limit" -> [sql EXCEPT !.limit = 0]
      [] edit.what = "more" -> [sql EXCEPT !.limit = MAX_ROW_LIMIT + 1]
      [] edit.what = "no_lower" -> [sql EXCEPT !.where = {p \in @ : p.op # "GTE"}]
      [] edit.what = "earlier" ->
           [sql EXCEPT !.where = {IF p.op = "GTE" /\ p.column = "timestamp"
                                  THEN [p EXCEPT !.value = [at |-> @.at - 2]] ELSE p : p \in @}]
      [] edit.what = "no_filter" -> [sql EXCEPT !.where = {p \in @ : p.op # "EQ"}]

\* A request: its time, the window it asks for and its filters.
Requests == [as_of : 8 .. 12, minutes : 1 .. MAX_WINDOW_MINUTES, row_limit : 1 .. MAX_ROW_LIMIT,
             min_query_time_ms : 0 .. 2, database : {NoFilter, "d1"}, user_name : {NoFilter, "u1"}]
Params(request) ==
    LET window == normalise_window(request.as_of, request.minutes) IN
    [window_start |-> window[1], window_end |-> window[2], row_limit |-> request.row_limit,
     min_query_time_ms |-> request.min_query_time_ms, database |-> request.database,
     user_name |-> request.user_name]

\* What compile_plan writes for a request, verify_sql admits from the step's own
\* arguments; a text one edit away is refused for that edit; and the counting
\* step looks at exactly the rows the listing step looks at before its
\* threshold, so an empty count means that the scope holds no query at all.
CompiledPlansAreAdmitted(request) ==
    LET params == Params(request)
        Of(template) == Step(template, params)
        Restored(template) == from_typed_arguments(Of(template).arguments)
    IN /\ Valid(params)
       /\ \A template \in TEMPLATE_IDS :
            /\ verify_sql(Of(template).sql, Restored(template), template) = "none"
            /\ \A edit \in Edits :
                 LET sql == Edited(Of(template).sql, edit) IN
                 sql # Of(template).sql =>
                     verify_sql(sql, Restored(template), template) = edit.why
       /\ LET listed == SelectedRows(Of(LIST_V1).sql)
              counted == SelectedRows(Of(COUNT_V1).sql)
          IN /\ listed = {row \in counted : row.slow >= params.min_query_time_ms}
             /\ \A row \in counted :
                  /\ params.database \in {NoFilter, row.db}
                  /\ params.user_name \in {NoFilter, row.user}
=============================================================================
