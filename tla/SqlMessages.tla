---------------------------- MODULE SqlMessages ----------------------------
(***************************************************************************)
(* Whether a message is SQL or conversation (governance/sql_message.py),   *)
(* from the registry of statement openings (governance/sql_statements.py). *)
(* A message that is SQL is stored as an artifact and never shown to a     *)
(* model; what may run is decided later, by the guard.                     *)
(*                                                                         *)
(* A message is its fence, its tokens, what the scanner says of it and     *)
(* whether the parser (external) takes its first statement for a query.    *)
(* Numbers are words of one digit; the guard's list gives the statements.  *)
(***************************************************************************)
EXTENDS ReadonlyStatements

\* Slots of a signature: words, a name, a literal, a symbol.
Words(ws) == [slot |-> "words", of |-> ws]
NameSlot == [slot |-> "name", of |-> {}]
StrSlot == [slot |-> "str", of |-> {}]
NumSlot == [slot |-> "num", of |-> {}]
NameOrStr == [slot |-> "name_or_str", of |-> {}]
SymbolSlot(s) == [slot |-> "symbol", of |-> {s}]

IsNumber(token) == token = Number
_slot_matches(slot, token) ==
    CASE slot.slot = "words" -> token.kind = "WORD" /\ token.text \in slot.of
      [] slot.slot = "name" -> token.kind \in {"WORD", "QUOTED_IDENTIFIER"} /\ ~IsNumber(token)
      [] slot.slot = "str" -> token.kind = "STRING"
      [] slot.slot = "num" -> IsNumber(token)
      [] slot.slot = "name_or_str" -> ~IsNumber(token) /\ token.kind # "SYMBOL"
      [] slot.slot = "symbol" -> token.kind = "SYMBOL" /\ token.text \in slot.of

signature_matches(signature, tokens) ==
    /\ Len(tokens) >= Len(signature)
    /\ \A i \in DOMAIN signature : _slot_matches(signature[i], tokens[i])

-----------------------------------------------------------------------------
\* Signatures that are no fixed opening.

_has_word_after(first, words, tokens) ==
    \E i \in first + 1 .. Len(tokens) : tokens[i].kind = "WORD" /\ tokens[i].text \in words
_alone(keyword, tails, tokens) ==
    LET texts == IF tokens # <<>> /\ tokens[Len(tokens)] = Symbol(";")
                 THEN SubSeq(tokens, 1, Len(tokens) - 1) ELSE tokens
    IN /\ texts # <<>> /\ texts[1] = Word(keyword)
       /\ Len(texts) = 1 \/ (Len(texts) = 2 /\ texts[2].text \in tails)
_select_signature(tokens) ==
    /\ Len(tokens) >= 2 /\ tokens[1] = Word("SELECT")
    /\ \/ \E i \in 2 .. Len(tokens) : tokens[i].kind = "STRING"
       \/ IsNumber(tokens[2]) \/ tokens[2].kind = "QUOTED_IDENTIFIER"
       \/ tokens[2].text \in {"*", "(", "@", "DISTINCT", "ALL"}
       \/ Len(tokens) >= 3 /\ tokens[2].kind = "WORD" /\ tokens[3].text \in {",", ".", "("}
       \/ _has_word_after(2, {"FROM"}, tokens)
_with_signature(tokens) ==
    /\ tokens # <<>> /\ tokens[1] = Word("WITH")
    /\ \E i \in 3 .. Len(tokens) - 1 : tokens[i].text = "AS" /\ tokens[i + 1].text = "("
_PRIVILEGES == {"ALL", "SELECT", "INSERT", "UPDATE", "DELETE", "USAGE", "CREATE", "DROP", "ALTER",
                "OPERATE", "NODE", "GRANT", "IMPERSONATE", "REFRESH", "EXPORT", "REPOSITORY", "BLACKLIST",
                "FILE", "PLUGIN", "APPLY", "SECURITY"}
_grant_signature(keyword, target, tokens) ==
    /\ Len(tokens) >= 3 /\ tokens[1] = Word(keyword)
    /\ \/ tokens[2].kind = "WORD" /\ tokens[2].text \in _PRIVILEGES
       \/ tokens[2].kind # "SYMBOL" /\ ~IsNumber(tokens[2]) /\ tokens[3].text \in {",", target}

-----------------------------------------------------------------------------
\* The registry.  Opening: the first two words; Opening3: the first three.

Opening(keyword, seconds) == {<<Words({keyword}), Words(seconds)>>}
Opening3(keyword, second, thirds) == {<<Words({keyword}), Words({second}), Words(thirds)>>}

ShowForms ==
    Opening("SHOW", {"ALTER", "ANALYZE", "ALL", "AUTHENTICATION", "BACKENDS", "BACKEND", "COMPUTE",
                     "BACKUP", "BROKER", "CATALOGS", "CREATE", "DATA", "DATABASES", "DELETE",
                     "DICTIONARY", "EXPORT", "FILE", "FRONTENDS", "FULL", "COLUMNS", "FIELDS",
                     "BUILTIN", "FUNCTIONS", "PROCESSLIST", "GRANTS", "INDEX", "INDEXES", "KEY",
                     "KEYS", "LOAD", "TEMPORARY", "PARTITIONS", "PIPES", "PLUGINS", "PROC",
                     "PROFILELIST", "PROPERTY", "REPOSITORIES", "RESOURCES", "RESOURCE", "RESTORE",
                     "ROLES", "ROUTINE", "SNAPSHOT", "SQLBLACKLIST", "TABLES", "TABLET",
                     "TRANSACTION", "USERS", "GLOBAL", "SESSION", "VARIABLES", "WARNINGS", "ERRORS"})
    \cup Opening3("SHOW", "AI", {"PROVIDERS"}) \cup Opening3("SHOW", "COMPUTE", {"NODES"})
    \cup Opening3("SHOW", "MATERIALIZED", {"VIEWS"}) \cup Opening3("SHOW", "STATS", {"META"})
    \cup Opening3("SHOW", "RUNNING", {"QUERIES"}) \cup Opening3("SHOW", "STORAGE", {"VOLUMES"})
    \cup Opening3("SHOW", "TABLE", {"STATUS"})
    \cup {<<Words({"SHOW"}), Words({"DYNAMIC"}), Words({"PARTITION"}), Words({"TABLES"})>>,
          <<Words({"SHOW"}), Words({"USAGE"}), Words({"RESOURCE"}), Words({"GROUPS"})>>}

AdminForms ==
    Opening("ADD", {"BACKEND", "COMPUTE", "SQLBLACKLIST"})
    \cup Opening("DELETE", {"BACKEND", "COMPUTE", "SQLBLACKLIST", "FROM"})
    \cup Opening3("ADMIN", "CANCEL", {"REPAIR"}) \cup Opening3("ADMIN", "CHECK", {"TABLET"})
    \cup Opening3("ADMIN", "REPAIR", {"TABLE"}) \cup Opening3("ADMIN", "SKIP", {"COMMITTED"})
    \cup Opening3("ADMIN", "SET", {"FRONTEND", "TABLE", "REPLICA"})
    \cup Opening3("ADMIN", "SHOW", {"FRONTEND", "REPLICA", "TABLET"})

\* The openings CREATE, ALTER and DROP share, over objects named by two words.
TwoWordObjects(k) ==
    Opening3(k, "AI", {"PROVIDER"}) \cup Opening3(k, "MATERIALIZED", {"VIEW"})
    \cup Opening3(k, "STORAGE", {"VOLUME"})
AlterForms ==
    TwoWordObjects("ALTER") \cup {<<Words({"ALTER"}), Words({"RESOURCE"}), NameOrStr>>}
    \cup Opening("ALTER", {"DATABASE", "PIPE", "SYSTEM", "TABLE", "TASK", "USER", "VIEW"})
    \cup Opening3("ALTER", "LOAD", {"FOR"}) \cup Opening3("ALTER", "ROUTINE", {"LOAD"})
    \cup Opening("ANALYZE", {"PROFILE", "TABLE", "FULL", "SAMPLE"})
    \cup UNION {Opening(k, {"SNAPSHOT", "DATABASE", "ALL"}) : k \in {"BACKUP", "RESTORE"}}
    \cup Opening("LOAD", {"LABEL"}) \cup Opening3("LOAD", "DATA", {"INFILE", "LOCAL"})
    \cup Opening3("CANCEL", "ALTER", {"TABLE"})
    \cup Opening("CANCEL", {"BACKUP", "RESTORE", "DECOMMISSION", "EXPORT", "LOAD", "REFRESH"})

CreateForms ==
    TwoWordObjects("CREATE") \cup Opening3("CREATE", "ROUTINE", {"LOAD"})
    \cup Opening("CREATE", {"ANALYZE", "DATABASE", "SCHEMA", "DICTIONARY", "FILE", "OR", "GLOBAL",
                            "AGGREGATE", "FUNCTION", "INDEX", "PIPE", "READ", "REPOSITORY",
                            "EXTERNAL", "RESOURCE", "ROLE", "TABLE", "TEMPORARY", "USER", "VIEW"})

DropForms ==
    TwoWordObjects("DROP") \cup {<<Words({"DROP"}), Words({"RESOURCE"}), NameOrStr>>}
    \cup {<<Words({k}), NameSlot>> : k \in {"DESC", "DESCRIBE"}}
    \cup Opening("DROP", {"ANALYZE", "CATALOG", "DATABASE", "SCHEMA", "DICTIONARY", "FILE", "GLOBAL",
                          "FUNCTION", "INDEX", "PIPE", "PREPARE", "REPOSITORY", "ROLE", "SNAPSHOT",
                          "STATS", "TABLE", "TEMPORARY", "TASK", "USER", "VIEW"})

WriteForms ==
    {<<Words({k}), NameSlot>> : k \in {"PREPARE", "EXECUTE"}}
    \cup Opening("DEALLOCATE", {"PREPARE"})
    \cup Opening("EXPLAIN", {"LOGICAL", "VERBOSE", "COSTS", "ANALYZE", "SELECT", "WITH", "INSERT",
                             "UPDATE", "DELETE"})
    \cup Opening("EXPORT", {"TABLE"}) \cup Opening("TRANSLATE", {"TRINO"})
    \cup Opening("INSERT", {"INTO", "OVERWRITE"}) \cup Opening("REPLACE", {"INTO"})
    \cup Opening("UPSERT", {"INTO"}) \cup Opening("MERGE", {"INTO"})
    \cup Opening("RENAME", {"TABLE", "USER"}) \cup Opening("TRUNCATE", {"TABLE"})
    \cup Opening("LOCK", {"TABLES", "TABLE"}) \cup Opening("START", {"TRANSACTION"})
    \cup {<<Words({"CALL"}), NameSlot, SymbolSlot("(")>>}

ServerForms ==
    UNION {Opening(k, {"PLUGIN"}) : k \in {"INSTALL", "UNINSTALL"}}
    \cup Opening("KILL", {"CONNECTION", "QUERY", "ANALYZE"})
    \cup {<<Words({"KILL"}), NumSlot>>, <<Words({"KILL"}), StrSlot>>}
    \cup UNION {Opening3(k, "ROUTINE", {"LOAD"}) : k \in {"PAUSE", "RESUME", "STOP"}}
    \cup Opening("RECOVER", {"DATABASE", "TABLE", "PARTITION"})
    \cup Opening("REFRESH", {"CONNECTIONS", "DICTIONARY"}) \cup Opening3("REFRESH", "EXTERNAL", {"TABLE"})
    \cup Opening3("REFRESH", "MATERIALIZED", {"VIEW"})

SetForms ==
    Opening("SET", {"CATALOG", "PASSWORD", "ROLE", "GLOBAL", "SESSION"})
    \cup Opening3("SET", "DEFAULT", {"ROLE"})
    \cup {<<Words({"SET"}), NameSlot, SymbolSlot("=")>>, <<Words({"SET"}), SymbolSlot("@")>>,
          <<Words({"SET"}), NameSlot, Words({"AS"}), Words({"DEFAULT"})>>}

LastForms == Opening("SUBMIT", {"TASK"}) \cup {<<Words({"USE"}), NameSlot>>}

SQL_STATEMENT_FORMS ==
    ShowForms \cup AdminForms \cup AlterForms \cup CreateForms \cup DropForms \cup WriteForms
    \cup ServerForms \cup SetForms \cup LastForms

IsStatement(tokens) ==
    \/ \E form \in SQL_STATEMENT_FORMS : signature_matches(form, tokens)
    \/ _select_signature(tokens) \/ _with_signature(tokens)
    \/ _grant_signature("GRANT", "TO", tokens) \/ _grant_signature("REVOKE", "FROM", tokens)
    \/ tokens[1] = Word("UPDATE") /\ _has_word_after(2, {"SET"}, tokens)
    \/ _alone("UNLOCK", {"TABLES"}, tokens) \/ _alone("SYNC", {}, tokens)
    \/ \E k \in {"BEGIN", "COMMIT", "ROLLBACK"} : _alone(k, {"WORK"}, tokens)

-----------------------------------------------------------------------------
\* Recognition.

\* fence: none, a block marked sql, another block, or blocks inside a block;
\* mixed: there is text of another script outside strings and comments.
Message(tokens) == [fence |-> "none", tokens |-> tokens, mixed |-> FALSE, query |-> FALSE, long |-> FALSE]

\* The tokens up to the first boundary.
_first_statement(tokens) ==
    LET ends == {i \in DOMAIN tokens : tokens[i] = Symbol(";")}
    IN IF ends = {} THEN tokens
       ELSE SubSeq(tokens, 1, (CHOOSE i \in ends : \A j \in ends : i <= j) - 1)

\* Several statements are judged by the first, when it is shorter; text of
\* another script outside strings is conversation.
_is_sql(message) ==
    LET first == _first_statement(message.tokens)
        several == \E i \in DOMAIN message.tokens :
                      message.tokens[i] = Symbol(";") /\ i < Len(message.tokens)
    IN /\ message.tokens # <<>>
       /\ ~message.mixed
       /\ IF several THEN first # <<>> /\ (IsStatement(first) \/ message.query)
          ELSE IsStatement(message.tokens) \/ message.query

\* A block marked sql is SQL whatever it holds; a block inside a block is none.
recognize_sql_message(message) ==
    /\ message.fence # "nested" /\ ~message.long
    /\ message.tokens # <<>>
    /\ message.fence = "sql" \/ _is_sql(message)

-----------------------------------------------------------------------------
(***************************************************************************)
(* What the two registries owe each other.                                 *)
(***************************************************************************)

Prose == {<<Word("SHOW"), Word("ME"), Word("THE"), Word("QUERIES")>>, <<Word("CREATE"), Word("A"), Word("DASHBOARD")>>,
          <<Word("ANALYZE"), Word("THIS")>>, <<Word("SELECT"), Word("TODAY")>>, <<Word("KILL"), Word("IT")>>,
          <<Word("HELLO")>>, <<Symbol("("), Word("HELLO"), Symbol(")")>>}

\* Every statement the guard's list would let run is recognised as SQL by the message
\* registry, alone, with a boundary after it and before another statement, fenced or
\* not; prose that begins with a keyword is not, unless it is fenced as SQL.
ListedStatementsAreRecognised(sentence) ==
    LET message == Message(sentence.tokens)
        More == <<Symbol(";"), Word("DROP"), Word("TABLE"), Word("t")>>
    IN /\ recognize_sql_message(message)
       /\ recognize_sql_message([message EXCEPT !.tokens = @ \o <<Symbol(";")>>])
       /\ recognize_sql_message([message EXCEPT !.tokens = @ \o More, !.fence = "other"])
       /\ ~recognize_sql_message([message EXCEPT !.mixed = TRUE])
       /\ \A prose \in Prose :
            /\ ~recognize_sql_message(Message(prose))
            /\ recognize_sql_message([Message(prose) EXCEPT !.fence = "sql"])
=============================================================================
