------------------------- MODULE ReadonlyStatements -------------------------
(***************************************************************************)
(* The list of read-only statements the SQL parser does not know           *)
(* (governance/readonly_statements.py): its patterns, the backtracking     *)
(* matcher, and the objects a match names.                                 *)
(*                                                                         *)
(* A token keeps its kind and its text; a keyword is a word.  A capture is *)
(* a name with what was matched under it; of an inner query only that it   *)
(* is there.                                                               *)
(***************************************************************************)
EXTENDS Naturals, Sequences, FiniteSets

\* Tokens.
Word(text) == [kind |-> "WORD", text |-> text]
Quoted(text) == [kind |-> "QUOTED_IDENTIFIER", text |-> text]
String(text) == [kind |-> "STRING", text |-> text]
Symbol(text) == [kind |-> "SYMBOL", text |-> text]
Number == Word("7")

\* Elements of a pattern.
Kw(words) == [is |-> "kw", words |-> words]
Sym(symbol) == [is |-> "sym", symbol |-> symbol]
Name(capture, min, max) == [is |-> "name", capture |-> capture, min |-> min, max |-> max]
Str(capture) == [is |-> "str", capture |-> capture]
Int == [is |-> "int"]
Column(allowed) == [is |-> "column", allowed |-> allowed]
Rest(capture) == [is |-> "rest", capture |-> capture]
Opt(elements) == [is |-> "opt", elements |-> elements]
OneOf(alternatives) == [is |-> "oneof", alternatives |-> alternatives]
Many(elements) == [is |-> "many", elements |-> elements]

Unnamed == "unnamed"
Capture(name, parts) == [name |-> name, parts |-> parts]

-----------------------------------------------------------------------------
\* Matching.

\* _Input: the kinds a position may be read as.
word(tokens, pos) == pos <= Len(tokens) /\ tokens[pos].kind = "WORD"
identifier(tokens, pos) == pos <= Len(tokens) /\ tokens[pos].kind \in {"WORD", "QUOTED_IDENTIFIER"}
symbol(tokens, pos, text) == pos <= Len(tokens) /\ tokens[pos] = Symbol(text)

\* Name.match: n parts need n identifiers with dots between them.
NameEnds(element, tokens, pos) ==
    {n \in element.min .. element.max :
        /\ \A i \in 1 .. n : identifier(tokens, pos + 2 * (i - 1))
        /\ \A i \in 1 .. n - 1 : symbol(tokens, pos + 2 * i - 1, ".")}

RECURSIVE _match_sequence(_, _, _, _), match(_, _, _, _), Reach(_, _, _)

\* Where an element may end from a position, with what it captured on the way.
match(element, tokens, pos, captures) ==
    CASE element.is = "kw" ->
           IF \A i \in DOMAIN element.words :
                word(tokens, pos + i - 1) /\ tokens[pos + i - 1].text = element.words[i]
           THEN {<<pos + Len(element.words), captures>>} ELSE {}
      [] element.is = "sym" ->
           IF symbol(tokens, pos, element.symbol) THEN {<<pos + 1, captures>>} ELSE {}
      [] element.is = "name" ->
           {<<pos + 2 * n - 1,
              captures \cup {Capture(element.capture,
                                     [i \in 1 .. n |-> tokens[pos + 2 * (i - 1)].text])}>> :
              n \in NameEnds(element, tokens, pos)}
      [] element.is = "str" ->
           IF pos <= Len(tokens) /\ tokens[pos].kind = "STRING" /\ tokens[pos].text # "escaped"
           THEN {<<pos + 1, IF element.capture = Unnamed THEN captures
                            ELSE captures \cup {Capture(element.capture, <<tokens[pos].text>>)}>>}
           ELSE {}
      [] element.is = "int" ->
           IF pos <= Len(tokens) /\ tokens[pos] = Number THEN {<<pos + 1, captures>>} ELSE {}
      [] element.is = "column" ->
           IF identifier(tokens, pos) /\ tokens[pos].text \in element.allowed
           THEN {<<pos + 1, captures>>} ELSE {}
      [] element.is = "rest" ->
           IF pos <= Len(tokens)
           THEN {<<Len(tokens) + 1, captures \cup {Capture(element.capture, <<>>)}>>} ELSE {}
      [] element.is = "opt" ->
           {<<pos, captures>>} \cup _match_sequence(element.elements, tokens, pos, captures)
      [] element.is = "oneof" ->
           UNION {_match_sequence(element.alternatives[i], tokens, pos, captures) :
                    i \in DOMAIN element.alternatives}
      [] element.is = "many" -> {<<p, captures>> : p \in Reach(element, tokens, {pos})}

\* Many.match: the positions that repetitions reach, found once each.
Reach(element, tokens, seen) ==
    LET next == UNION {{m[1] : m \in _match_sequence(element.elements, tokens, p, {})} : p \in seen}
    IN  IF next \subseteq seen THEN seen ELSE Reach(element, tokens, seen \cup next)

_match_sequence(elements, tokens, pos, captures) ==
    IF elements = <<>> THEN {<<pos, captures>>}
    ELSE UNION {_match_sequence(Tail(elements), tokens, m[1], m[2]) :
                  m \in match(Head(elements), tokens, pos, captures)}

-----------------------------------------------------------------------------
\* The registered statements.

FromOrIn == OneOf(<< <<Kw(<<"FROM">>)>>, <<Kw(<<"IN">>)>> >>)
OptDb == Opt(<<FromOrIn, Name("database", 1, 1)>>)
OptFromDb == Opt(<<Kw(<<"FROM">>), Name("database", 1, 1)>>)
Relation == Name("relation", 1, 3)
_where_registered(columns) ==
    LET predicate == <<Column(columns), Sym("="), OneOf(<< <<Str(Unnamed)>>, <<Int>> >>)>>
    IN  Opt(<<Kw(<<"WHERE">>)>> \o predicate \o <<Many(<<Kw(<<"AND">>)>> \o predicate)>>)

Statement(family, pattern, target) == [family |-> family, pattern |-> pattern, target |-> target]
Listing(family, words) == Statement(family, <<Kw(words)>>, "NONE")
DbListing(family, words) == Statement(family, <<Kw(words), OptFromDb>>, "NONE")

READONLY_STATEMENTS ==
    {Statement("show.create_materialized_view",
               <<Kw(<<"SHOW", "CREATE", "MATERIALIZED", "VIEW">>), Relation>>, "RELATION"),
     Statement("show.materialized_views",
               <<Kw(<<"SHOW", "MATERIALIZED", "VIEWS">>), OptDb,
                 Opt(<<OneOf(<< <<Kw(<<"LIKE">>), Str(Unnamed)>>,
                                <<Kw(<<"WHERE", "NAME">>), Sym("="), Str("relation_name")>>,
                                <<Kw(<<"WHERE", "NAME", "LIKE">>), Str(Unnamed)>> >>)>>)>>,
               "OPTIONAL_RELATION"),
     Statement("show.partitions",
               <<Kw(<<"SHOW">>), Opt(<<Kw(<<"TEMPORARY">>)>>), Kw(<<"PARTITIONS", "FROM">>),
                 Relation>>, "RELATION"),
     Statement("show.tablet", <<Kw(<<"SHOW", "TABLET", "FROM">>), Relation>>, "RELATION"),
     Statement("show.tablet_id", <<Kw(<<"SHOW", "TABLET">>), Int>>, "NONE"),
     Statement("show.data",
               <<Kw(<<"SHOW", "DATA">>),
                 Opt(<<Kw(<<"FROM">>), OneOf(<< <<Name("database", 1, 1)>>,
                                                <<Name("relation", 2, 2)>> >>)>>)>>,
               "OPTIONAL_RELATION"),
     DbListing("show.load", <<"SHOW", "LOAD">>),
     DbListing("show.routine_load", <<"SHOW", "ROUTINE", "LOAD">>),
     Statement("show.functions",
               <<Kw(<<"SHOW">>), Opt(<<Kw(<<"FULL">>)>>), Kw(<<"FUNCTIONS">>), OptDb,
                 Opt(<<Kw(<<"LIKE">>), Str(Unnamed)>>)>>, "NONE"),
     Listing("show.catalogs", <<"SHOW", "CATALOGS">>),
     Listing("show.frontends", <<"SHOW", "FRONTENDS">>),
     Listing("show.backends", <<"SHOW", "BACKENDS">>),
     Listing("show.resource_groups", <<"SHOW", "RESOURCE", "GROUPS">>),
     Statement("show.proc", <<Kw(<<"SHOW", "PROC">>), Str(Unnamed)>>, "NONE"),
     Statement("show.profilelist",
               <<Kw(<<"SHOW", "PROFILELIST">>), Opt(<<Kw(<<"LIMIT">>), Int>>)>>, "NONE"),
     Statement("show.alter_table",
               <<Kw(<<"SHOW", "ALTER", "TABLE">>),
                 OneOf(<< <<Kw(<<"COLUMN">>)>>, <<Kw(<<"ROLLUP">>)>>,
                          <<Kw(<<"MATERIALIZED", "VIEW">>)>> >>),
                 OptDb, Opt(<<Kw(<<"WHERE", "TABLENAME">>), Sym("="), Str("relation_name")>>)>>,
               "OPTIONAL_RELATION"),
     Statement("admin.show_replica_status",
               <<Kw(<<"ADMIN", "SHOW", "REPLICA", "STATUS", "FROM">>), Relation>>, "RELATION"),
     Statement("admin.show_replica_distribution",
               <<Kw(<<"ADMIN", "SHOW", "REPLICA", "DISTRIBUTION", "FROM">>), Relation>>,
               "RELATION"),
     Statement("analyze.profile", <<Kw(<<"ANALYZE", "PROFILE", "FROM">>), Str(Unnamed)>>, "NONE"),
     Statement("explain.modifier",
               <<Kw(<<"EXPLAIN">>), OneOf(<< <<Kw(<<"LOGICAL">>)>>, <<Kw(<<"VERBOSE">>)>>,
                                             <<Kw(<<"COSTS">>)>> >>), Rest("inner_query")>>,
               "INNER_QUERY"),
     Listing("show.running_queries", <<"SHOW", "RUNNING", "QUERIES">>),
     Statement("show.analyze_status",
               <<Kw(<<"SHOW", "ANALYZE", "STATUS">>),
                 _where_registered({"ID", "DATABASE", "TABLE", "TYPE", "STATUS"})>>, "NONE"),
     Statement("show.stats_meta",
               <<Kw(<<"SHOW", "STATS", "META">>),
                 _where_registered({"DATABASE", "TABLE", "TYPE"})>>, "NONE"),
     Statement("show.dynamic_partition_tables",
               <<Kw(<<"SHOW", "DYNAMIC", "PARTITION", "TABLES">>), OptDb>>, "NONE"),
     DbListing("show.delete", <<"SHOW", "DELETE">>),
     DbListing("show.export", <<"SHOW", "EXPORT">>),
     Statement("show.transaction",
               <<Kw(<<"SHOW", "TRANSACTION">>), OptFromDb, Kw(<<"WHERE", "ID">>), Sym("="), Int>>,
               "NONE"),
     Listing("show.compute_nodes", <<"SHOW", "COMPUTE", "NODES">>),
     Listing("show.roles", <<"SHOW", "ROLES">>),
     Statement("show.create_routine_load",
               <<Kw(<<"SHOW", "CREATE", "ROUTINE", "LOAD">>), Name("job", 1, 2)>>, "NONE"),
     Statement("describe.all",
               <<OneOf(<< <<Kw(<<"DESC">>)>>, <<Kw(<<"DESCRIBE">>)>> >>), Relation, Kw(<<"ALL">>)>>,
               "RELATION")}

-----------------------------------------------------------------------------
\* What a match names.

ValuesOf(captures, name) == {c.parts : c \in {x \in captures : x.name = name}}

\* _relation_ref: one, two or three parts fill name, database and catalog from the right.
_relation_ref(parts) ==
    LET n == Len(parts) IN
    [catalog |-> IF n = 3 THEN parts[1] ELSE "", name |-> parts[n],
     database |-> IF n >= 2 THEN parts[n - 1] ELSE ""]

_to_match(statement, captures) ==
    [family |-> statement.family,
     relations |-> {_relation_ref(p) : p \in ValuesOf(captures, "relation")}
         \cup {[catalog |-> "", name |-> p[1],
                database |-> IF ValuesOf(captures, "database") = {} THEN ""
                             ELSE (CHOOSE d \in ValuesOf(captures, "database") : TRUE)[1]] :
                 p \in ValuesOf(captures, "relation_name")},
     inner |-> ValuesOf(captures, "inner_query") # {}]

\* match_statement: all whole matches; none and more than one different are no match.
match_statement(tokens) ==
    LET whole(s) == {m \in _match_sequence(s.pattern, tokens, 1, {}) : m[1] = Len(tokens) + 1}
        found == UNION {{_to_match(s, m[2]) : m \in whole(s)} : s \in READONLY_STATEMENTS}
    IN  IF Cardinality(found) = 1 THEN found ELSE {}

RECURSIVE capture_names(_)
\* capture_names: the captures of a pattern, and whether each is always there.
capture_names(elements) ==
    UNION {LET e == elements[i] IN
           CASE e.is \in {"name", "rest"} -> {<<e.capture, TRUE>>}
             [] e.is = "str" /\ e.capture # Unnamed -> {<<e.capture, TRUE>>}
             [] e.is = "opt" -> {<<c[1], FALSE>> : c \in capture_names(e.elements)}
             [] e.is = "oneof" ->
                  {<<c[1], FALSE>> :
                     c \in UNION {capture_names(e.alternatives[j]) : j \in DOMAIN e.alternatives}}
             [] OTHER -> {} : i \in DOMAIN elements}

\* _check_target_rule, which the module applies to every statement when it is loaded.
_check_target_rule(s) ==
    LET names == capture_names(s.pattern)
        relations == {c \in names : c[1] \in {"relation", "relation_name"}}
        inner == \E c \in names : c[1] = "inner_query"
    IN  CASE s.target = "NONE" -> relations = {} /\ ~inner
          [] s.target = "RELATION" -> relations = {<<"relation", TRUE>>} /\ ~inner
          [] s.target = "OPTIONAL_RELATION" ->
               relations # {} /\ (\A c \in relations : ~c[2]) /\ ~inner
          [] s.target = "INNER_QUERY" -> names = {<<"inner_query", TRUE>>}

-----------------------------------------------------------------------------
\* The sentences of a pattern, written from its own words, with the objects their writer
\* means.  Names may also be words that a statement uses itself.
Sentence(tokens, names) == [tokens |-> tokens, names |-> names]
NameTokens(parts) ==
    CASE Len(parts) = 1 -> <<parts[1]>>
      [] Len(parts) = 2 -> <<parts[1], Symbol("."), parts[2]>>
      [] Len(parts) = 3 -> <<parts[1], Symbol("."), parts[2], Symbol("."), parts[3]>>
Identifiers == {Word("t"), Quoted("t"), Word("ALL"), Word("WHERE")}
NamesOf(n) == IF n = 1 THEN {<<i>> : i \in Identifiers}
              ELSE IF n = 2 THEN {<<Word("d"), i>> : i \in Identifiers}
              ELSE {<<Word("c"), Word("d"), i>> : i \in Identifiers}
Texts(parts) == [i \in DOMAIN parts |-> parts[i].text]

RECURSIVE Sentences(_), Written(_)
Written(e) ==
    CASE e.is = "kw" -> {Sentence([i \in DOMAIN e.words |-> Word(e.words[i])], {})}
      [] e.is = "sym" -> {Sentence(<<Symbol(e.symbol)>>, {})}
      [] e.is = "name" ->
           UNION {{Sentence(NameTokens(p), {Capture(e.capture, Texts(p))}) : p \in NamesOf(n)} :
                    n \in e.min .. e.max}
      [] e.is = "str" -> {Sentence(<<String("s")>>,
                                   IF e.capture = Unnamed THEN {} ELSE {Capture(e.capture, <<"s">>)})}
      [] e.is = "int" -> {Sentence(<<Number>>, {})}
      [] e.is = "column" -> {Sentence(<<Word(c)>>, {}) : c \in e.allowed}
      [] e.is = "rest" -> {Sentence(<<Word("SELECT"), Number>>, {Capture(e.capture, <<>>)})}
      [] e.is = "opt" -> {Sentence(<<>>, {})} \cup Sentences(e.elements)
      [] e.is = "oneof" -> UNION {Sentences(e.alternatives[i]) : i \in DOMAIN e.alternatives}
      [] e.is = "many" -> {Sentence(<<>>, {})} \cup Sentences(e.elements)
Sentences(elements) ==
    IF elements = <<>> THEN {Sentence(<<>>, {})}
    ELSE {Sentence(h.tokens \o r.tokens, h.names \cup r.names) :
            h \in Written(Head(elements)), r \in Sentences(Tail(elements))}

\* A statement of the list is read as its own family with exactly the objects it names, or
\* not at all; it is never taken for another statement or for one about other objects.
ReadsAs(s, sentence) ==
    match_statement(sentence.tokens) \subseteq {_to_match(s, sentence.names)}
Reads(s, sentence) == match_statement(sentence.tokens) # {}
=============================================================================
