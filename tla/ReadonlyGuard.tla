--------------------------- MODULE ReadonlyGuard ---------------------------
(***************************************************************************)
(* The proof that a submitted statement only reads                         *)
(* (verify_confirmed_readonly, governance/sqlguard.py): hash, token scan,  *)
(* parse, the syntax-tree path or the statement list, and the blocked      *)
(* relations of the target.                                                *)
(*                                                                         *)
(* The parser is external: a statement is what it reports.  A query is a   *)
(* tree of the shape                                                       *)
(*                                                                         *)
(*   WITH [RECURSIVE] c3 AS (WITH [RECURSIVE] c11 AS (SELECT FROM t13)     *)
(*                           SELECT FROM t8),                              *)
(*                    c4 AS (SELECT FROM t9)                               *)
(*   SELECT FROM t7                                                        *)
(*                                                                         *)
(* with names chosen from a set that makes every table a possible          *)
(* reference to every common table expression, or a table of that name.    *)
(***************************************************************************)
EXTENDS Naturals, Sequences, FiniteSets

\* The nodes of a query and their parents.
Nodes == 1 .. 13
parent == <<0, 1, 2, 2, 3, 4, 1, 5, 6, 5, 10, 11, 12>>
Withs == {2, 10}
Tables == {7, 8, 9, 13}
expressions(with) == IF with = 2 THEN <<3, 4>> ELSE <<11>>
with_(node) == CASE node = 1 -> 2 [] node = 5 -> 10 [] OTHER -> 0

\* A table name: qualified with the default database, with an external
\* catalog, or bare.
Qualifiers == {"none", "db", "external"}
Queries == [alias : [{3, 4, 11} -> {"x", "y"}],
            recursive : [Withs -> BOOLEAN],
            name : [Tables -> {"x", "y"}],
            qualifier : [Tables -> {"none", "db"}],
            node : {"plain"}]

\* Nodes that decide on their own, wherever they stand in a tree.
Sides == {"plain", "write", "unnest", "lateral_function", "qualified_function",
          "external_column", "table_function"}
Simple(node, qualifier, name) ==
    [alias |-> [c \in {3, 4, 11} |-> "z"], recursive |-> [w \in Withs |-> FALSE],
     name |-> [t \in Tables |-> name], qualifier |-> [t \in Tables |-> qualifier],
     node |-> node]

Accept(value) == [ok |-> TRUE, relations |-> value, family |-> "none", why |-> "none"]
_reject(why) == [ok |-> FALSE, relations |-> {}, family |-> "none", why |-> why]
Unproven == [ok |-> TRUE, relations |-> {}, family |-> "unproven", why |-> "none"]
Family(family, verdict) == [verdict EXCEPT !.family = family]

\* ReadonlyPolicy: the blocked relations are in the default database.
default_database == "db"
blocked_relation_names == {<<"db", "x">>}

-----------------------------------------------------------------------------
\* The steps of the walk from a table to the root: each node with its parent.
Steps(table) ==
    LET up[n \in Nodes] == IF n = 1 THEN {} ELSE {<<n, parent[n]>>} \cup up[parent[n]]
    IN up[table]

CtesBefore(query, with, child) ==
    LET ctes == expressions(with)
        index == CHOOSE i \in DOMAIN ctes : ctes[i] = child
    IN {ctes[i] : i \in 1 .. (IF query.recursive[with] THEN index ELSE index - 1)}

\* Fault: a WITH is in scope of its own common table expressions.
_visible_ctes_WholeWith(query, table) ==
    {query.alias[c] : c \in
        UNION {LET with == with_(step[2]) IN
               IF with = 0 THEN {} ELSE {expressions(with)[i] : i \in DOMAIN expressions(with)} :
                 step \in Steps(table)}}

\* Each step yields the names its parent puts in scope of its child.
_visible_ctes(query, table) ==
    {query.alias[c] : c \in
        UNION {LET child == step[1]
                   with == with_(step[2])
               IN IF step[2] \in Withs THEN CtesBefore(query, step[2], child)
                  ELSE IF with \notin {0, child}
                  THEN {expressions(with)[i] : i \in DOMAIN expressions(with)}
                  ELSE {} :
                 step \in Steps(table)}}

_is_cte_reference(query, table) ==
    /\ query.qualifier[table] = "none"
    /\ query.name[table] \in _visible_ctes(query, table)

\* A relation with no database is one of the default database.
_relation(name) == <<default_database, name>>

\* The walk visits the side node with the rest of the tree; a tree with an
\* object of an external catalog is refused.
_collect_relations(query) ==
    LET based == {t \in Tables : ~_is_cte_reference(query, t)} IN
    CASE query.node = "write" -> _reject("NOT_READONLY")
      [] query.node \in {"unnest", "lateral_function", "table_function"} ->
           _reject("TABLE_FUNCTION")
      [] query.node = "qualified_function" -> _reject("QUALIFIED_FUNCTION")
      [] query.node = "external_column" -> _reject("EXTERNAL_CATALOG")
      [] query.node = "plain" ->
           IF \E t \in based : query.qualifier[t] = "external" THEN _reject("EXTERNAL_CATALOG")
           ELSE Accept({_relation(query.name[t]) : t \in based})

-----------------------------------------------------------------------------
(***************************************************************************)
(* A statement: whether its bytes are the confirmed ones, what the scanner *)
(* says (SqlTokens), what the parser makes of it, its first keyword, and   *)
(* what the statement list would match it as (ReadonlyStatements).         *)
(***************************************************************************)
ShowKinds == {"DATABASES", "TABLES", "COLUMNS", "OTHER"}
Listed == {"no", "x", "y", "external", "query", "write", "other"}

Statement(parsed, root, keyword, query, listed) ==
    [hash |-> TRUE, scan |-> "none", parsed |-> parsed, root |-> root, keyword |-> keyword,
     query |-> query, show |-> "TABLES", database |-> "none", target |-> "y",
     inner |-> "Query", style |-> "none", extras |-> FALSE, listed |-> listed]

_TOKEN_REJECTIONS(reason) ==
    CASE reason \in {"EMPTY", "TOO_LONG", "UNTERMINATED"} -> "UNPARSABLE"
      [] reason \in {"INVALID_UTF8", "BOM", "CONTROL_CHARACTER", "AMBIGUOUS_PUNCTUATION"} ->
           "AMBIGUOUS_CHARACTER"
      [] reason = "HINT_COMMENT" -> "HINT_PRESENT"
      [] reason = "MULTI_STATEMENT" -> "MULTIPLE_STATEMENTS"
      [] reason = "INTO_OUTFILE" -> "NOT_READONLY"

\* SHOW: listings name no object; the others read the object they name.
_prove_show(s) ==
    LET collected == _collect_relations(s.query) IN
    IF ~collected.ok THEN collected
    ELSE CASE s.show = "DATABASES" ->
                IF s.database = "external" THEN _reject("EXTERNAL_CATALOG")
                ELSE Family("show", collected)
           [] s.show = "TABLES" -> Family("show", collected)
           [] s.show = "COLUMNS" ->
                IF s.target = "none" THEN Unproven
                ELSE Family("show", [collected EXCEPT !.relations = @ \cup {_relation(s.target)}])
           [] s.show = "OTHER" -> Unproven

\* DESC describes one table; EXPLAIN wraps a query, and under ANALYZE runs it.
_prove_describe(s) ==
    CASE s.keyword = "DESC" /\ s.inner = "Table" ->
           IF s.style # "none" \/ s.extras THEN Unproven
           ELSE Family("describe", _collect_relations(s.query))
      [] s.keyword # "EXPLAIN" /\ ~(s.keyword = "DESC" /\ s.inner = "Table") -> Unproven
      [] s.keyword = "EXPLAIN" ->
           CASE s.inner = "Write" -> _reject("NOT_READONLY")
             [] s.inner = "Query" /\ s.style \in {"none", "ANALYZE"} ->
                  Family("explain", _collect_relations(s.query))
             [] s.inner = "Query" /\ s.style \notin {"none", "ANALYZE"} -> Unproven
             [] s.inner \in {"Table", "Other"} -> Unproven

_prove_ast(s) ==
    CASE s.root = "Query" -> Family("query", _collect_relations(s.query))
      [] s.root = "Show" -> _prove_show(s)
      [] s.root = "Describe" -> _prove_describe(s)
      [] s.root \in {"Write", "Command", "Other"} -> Unproven

\* A listed statement names its objects, or carries a query of its own.
_prove_statement_list(s) ==
    CASE s.listed \in {"x", "y"} -> Accept({_relation(s.listed)})
      [] s.listed = "external" -> _reject("EXTERNAL_CATALOG")
      [] s.listed = "query" -> _collect_relations(s.query)
      [] s.listed = "write" -> _reject("NOT_READONLY")
      [] s.listed = "other" -> _reject("READONLY_STATEMENT_NOT_SUPPORTED")

Listing(s) ==
    IF s.listed = "no"
    THEN _reject(IF s.parsed = "one" /\ s.root = "Write" THEN "NOT_READONLY"
                 ELSE "READONLY_STATEMENT_NOT_SUPPORTED")
    ELSE Family("list", _prove_statement_list(s))

\* The order of the refusals is the order below.
verify_confirmed_readonly(s) ==
    LET ast == IF s.parsed = "one" THEN _prove_ast(s) ELSE Unproven
        proven == IF ast = Unproven THEN Listing(s) ELSE ast
    IN IF ~s.hash THEN _reject("HASH_MISMATCH")
       ELSE IF s.scan # "none" THEN _reject(_TOKEN_REJECTIONS(s.scan))
       ELSE IF s.parsed = "fails" THEN _reject("UNPARSABLE")
       ELSE IF s.parsed = "several" THEN _reject("MULTIPLE_STATEMENTS")
       ELSE IF ~proven.ok THEN proven
       ELSE IF proven.relations \cap blocked_relation_names # {} THEN _reject("BLOCKED_RELATION")
       ELSE proven

-----------------------------------------------------------------------------
(***************************************************************************)
(* The reference: what a server does with a statement, scopes read from    *)
(* the outside in.                                                         *)
(***************************************************************************)

\* The names in scope of each table: a WITH's expressions for the query it
\* belongs to; for an expression's body, the earlier ones, itself when
\* recursive, and everything in scope of the query around it.
InScope(query, table) ==
    LET own3 == IF query.recursive[2] THEN {query.alias[3]} ELSE {}
        own4 == IF query.recursive[2] THEN {query.alias[4]} ELSE {}
        own11 == IF query.recursive[10] THEN {query.alias[11]} ELSE {}
    IN CASE table = 7 -> {query.alias[3], query.alias[4]}
         [] table = 8 -> own3 \cup {query.alias[11]}
         [] table = 13 -> own3 \cup own11
         [] table = 9 -> {query.alias[3]} \cup own4

TablesRead(query) ==
    {t \in Tables : query.qualifier[t] # "none" \/ query.name[t] \notin InScope(query, t)}

\* The objects a statement reads, and the tree it runs, when a server takes it.
\* A statement the parser has no tree for is what the list says it is.
Understood(s) == s.parsed = "one" /\ s.root \in {"Query", "Show", "Describe"}
Runs(s) ==
    \/ Understood(s) /\ s.root = "Query"
    \/ Understood(s) /\ s.root = "Describe" /\ s.inner \in {"Query", "Table"}
    \/ ~Understood(s) /\ s.listed = "query"
Names(s) ==
    CASE Understood(s) /\ s.root = "Show" /\ s.show = "COLUMNS" -> {s.target}
      [] ~Understood(s) /\ s.listed \in {"x", "y"} -> {s.listed}
      [] OTHER -> {}
Harmless(s) ==
    /\ s.hash /\ s.scan = "none" /\ s.parsed \in {"one", "unknown"}
    /\ ~(s.parsed = "one" /\ s.root = "Write" /\ s.listed = "no")
    /\ ~(Understood(s) /\ s.root = "Describe" /\ s.inner = "Write")
    /\ ~(Understood(s) /\ s.root = "Show" /\ s.show = "DATABASES" /\ s.database = "external")
    /\ ~Understood(s) => s.listed \notin {"no", "write", "external", "other"}
    /\ Runs(s) => /\ s.query.node = "plain"
                  /\ \A t \in TablesRead(s.query) :
                       /\ s.query.qualifier[t] # "external"
                       /\ _relation(s.query.name[t]) \notin blocked_relation_names
    /\ \A name \in Names(s) : _relation(name) \notin blocked_relation_names

\* A statement that is let through (verify_confirmed_readonly) writes nothing,
\* calls no table function, leaves the internal catalog in no place and reads
\* no blocked relation, whatever its common table expressions are called; and
\* the relations of the proof are the ones a server would read.
ProvenStatementsOnlyRead(s) ==
    LET proof == verify_confirmed_readonly(s) IN
    proof.ok =>
        /\ Harmless(s)
        /\ proof.family = "query" =>
             proof.relations = {_relation(s.query.name[t]) : t \in TablesRead(s.query)}

\* The statements examined: every query of the shape, and SHOW, DESC and
\* EXPLAIN, listed and unknown statements around a simple one.
Statements ==
    {Statement("one", "Query", "SELECT", q, "no") : q \in Queries}
    \cup {[Statement("one", "Show", "SHOW", Simple(node, "none", "y"), listed) EXCEPT
             !.show = show, !.database = database, !.target = target] :
           node \in {"plain", "write"}, listed \in {"no", "x", "y"}, show \in ShowKinds,
           database \in {"none", "external"}, target \in {"none", "x", "y"}}
    \cup {[Statement("one", "Describe", keyword, Simple(node, "none", name), listed) EXCEPT
             !.inner = inner, !.style = style, !.extras = extras] :
           keyword \in {"DESC", "EXPLAIN", "OTHER"}, node \in {"plain", "write", "unnest"},
           name \in {"x", "y"}, listed \in {"no", "x"},
           inner \in {"Table", "Query", "Write", "Other"},
           style \in {"none", "ANALYZE", "FORMATTED"}, extras \in BOOLEAN}
    \cup {[Statement(parsed, root, "OTHER", Simple(node, qualifier, "y"), listed) EXCEPT
             !.hash = hash, !.scan = scan] :
           parsed \in {"one", "unknown", "fails", "several"}, root \in {"Write", "Command", "Other"},
           node \in Sides, qualifier \in Qualifiers, listed \in Listed, hash \in BOOLEAN,
           scan \in {"none", "EMPTY", "BOM", "HINT_COMMENT", "MULTI_STATEMENT", "INTO_OUTFILE"}}
=============================================================================
