----------------------------- MODULE SqlTokens -----------------------------
(***************************************************************************)
(* The scanner that reads a submitted SQL text before any parser does      *)
(* (governance/sql_tokens.py): strings, quoted identifiers, comments and   *)
(* the one statement boundary.                                             *)
(*                                                                         *)
(* A text is a sequence of characters.  "a" is any word character, "SQ",   *)
(* "DQ" and "BT" are the quotes ' " and the backtick, "BS" the backslash,  *)
(* "NL" a line end, "ZW" an invisible or control character, "FW" a         *)
(* printable one outside ASCII; "I" and "O" stand for the words INTO and   *)
(* OUTFILE when they stand alone.  Size, encoding and the byte order mark  *)
(* are facts of the raw bytes.                                             *)
(***************************************************************************)
EXTENDS Naturals, Sequences, FiniteSets

Whitespace == {" ", "NL"}
_is_word_char(char) == char \in {"a", "I", "O"}

\* Peek: the character at a position, none past the end.
_peek(text, pos) == IF pos \in DOMAIN text THEN text[pos] ELSE "END"

\* _check_char, over the characters a token consumed.
_check_char(text, from, upto) ==
    \A i \in from .. upto - 1 : i \in DOMAIN text => text[i] # "ZW"

SqlToken(kind, start, end) == [kind |-> kind, start |-> start, end |-> end]
TokenScanError(reason) == [reason |-> reason, tokens |-> <<>>]

FirstOf(S, otherwise) == IF S = {} THEN otherwise ELSE CHOOSE i \in S : \A j \in S : i <= j

_line_comment(text, pos) ==
    FirstOf({i \in pos .. Len(text) : text[i] = "NL"}, Len(text) + 1)

\* 0: the comment never closes.
_block_comment(text, pos) ==
    LET closes == {i \in pos + 2 .. Len(text) - 1 : text[i] = "*" /\ text[i + 1] = "/"}
    IN IF closes = {} THEN 0 ELSE FirstOf(closes, 0) + 2

RECURSIVE _quoted_from(_, _, _, _), run(_, _, _)

\* The rest of a quoted token, from a position inside it; 0: never closed.
_quoted_from(text, pos, quote, backslash) ==
    IF pos > Len(text) THEN 0
    ELSE IF backslash /\ text[pos] = "BS" THEN _quoted_from(text, pos + 2, quote, backslash)
    ELSE IF text[pos] # quote THEN _quoted_from(text, pos + 1, quote, backslash)
    ELSE IF _peek(text, pos + 1) = quote THEN _quoted_from(text, pos + 2, quote, backslash)
    ELSE pos + 1

_quoted(text, pos, quote, backslash) == _quoted_from(text, pos + 1, quote, backslash)

WordEnd(text, pos) ==
    FirstOf({i \in pos .. Len(text) : ~_is_word_char(text[i])}, Len(text) + 1)

run(text, pos, tokens) ==
    LET char == _peek(text, pos)
        token == CASE char = "#" \/ (char = "-" /\ _peek(text, pos + 1) = "-") ->
                          SqlToken("COMMENT", pos, _line_comment(text, pos))
                   [] char = "/" /\ _peek(text, pos + 1) = "*" ->
                          SqlToken("COMMENT", pos, _block_comment(text, pos))
                   [] char \in {"SQ", "DQ"} ->
                          SqlToken("STRING", pos, _quoted(text, pos, char, TRUE))
                   [] char = "BT" ->
                          SqlToken("QUOTED_IDENTIFIER", pos, _quoted(text, pos, char, FALSE))
                   [] _is_word_char(char) -> SqlToken("WORD", pos, WordEnd(text, pos))
                   [] OTHER -> SqlToken("SYMBOL", pos, pos + 1)
        consumed == IF token.end = 0 THEN Len(text) + 1 ELSE token.end
    IN IF pos > Len(text) THEN [reason |-> "none", tokens |-> tokens]
       ELSE IF char \in Whitespace THEN run(text, pos + 1, tokens)
       ELSE IF /\ char = "/"
               /\ _peek(text, pos + 1) = "*"
               /\ _peek(text, pos + 2) \in {"+", "!"}
       THEN TokenScanError("HINT_COMMENT")
       ELSE IF ~_check_char(text, pos, consumed) THEN TokenScanError("CONTROL_CHARACTER")
       ELSE IF char = "FW" THEN TokenScanError("AMBIGUOUS_PUNCTUATION")
       ELSE IF token.end = 0 THEN TokenScanError("UNTERMINATED")
       ELSE run(text, consumed, Append(tokens, token))

Significant(scan) == SelectSeq(scan.tokens, LAMBDA t : t.kind # "COMMENT")
_is_semicolon(text, token) == token.kind = "SYMBOL" /\ text[token.start] = ";"
statement_tokens(text, scan) ==
    LET significant == Significant(scan) IN
    IF significant # <<>> /\ _is_semicolon(text, significant[Len(significant)])
    THEN SubSeq(significant, 1, Len(significant) - 1)
    ELSE significant
IsWord(text, token, letter) ==
    token.kind = "WORD" /\ SubSeq(text, token.start, token.end - 1) = <<letter>>

scan_sql(raw) ==
    LET scan == run(raw.text, 1, <<>>)
        significant == Significant(scan)
        Last == Len(significant)
    IN CASE raw.bytes = "TOO_LONG" -> TokenScanError("TOO_LONG")
         [] raw.bytes = "INVALID_UTF8" -> TokenScanError("INVALID_UTF8")
         [] raw.bytes = "BOM" -> TokenScanError("BOM")
         [] raw.bytes = "plain" /\ scan.reason # "none" -> scan
         [] raw.bytes = "plain" /\ scan.reason = "none" ->
              IF \E i \in 1 .. Last - 1 : _is_semicolon(raw.text, significant[i])
              THEN TokenScanError("MULTI_STATEMENT")
              ELSE IF \E i \in 1 .. Last - 1 :
                        /\ IsWord(raw.text, significant[i], "I")
                        /\ IsWord(raw.text, significant[i + 1], "O")
              THEN TokenScanError("INTO_OUTFILE")
              ELSE IF statement_tokens(raw.text, scan) = <<>> THEN TokenScanError("EMPTY")
              ELSE scan

-----------------------------------------------------------------------------
(***************************************************************************)
(* The reference: what each character is part of, read one character at a  *)
(* time.  A server that reads a text so sees one statement exactly when    *)
(* the scanner lets it through.                                            *)
(***************************************************************************)

\* in: what the character is part of; next: what follows it; skip: the next
\* character belongs to the same thing whatever it is.
Lexed(text) ==
    LET lexed[i \in 0 .. Len(text)] ==
          IF i = 0 THEN [in |-> "code", next |-> "code", skip |-> FALSE]
          ELSE LET before == lexed[i - 1]
                   char == text[i]
                   peek == _peek(text, i + 1)
                   mode == before.next
                   Stay(m) == [in |-> m, next |-> m, skip |-> FALSE]
               IN CASE before.skip -> [in |-> before.in, next |-> mode, skip |-> FALSE]
                    [] ~before.skip /\ mode = "code" ->
                         CASE char = "#" \/ (char = "-" /\ peek = "-") -> Stay("line")
                           [] char = "/" /\ peek = "*" ->
                                [in |-> "block", next |-> "block", skip |-> TRUE]
                           [] char \in {"SQ", "DQ", "BT"} -> Stay(char)
                           [] OTHER -> Stay("code")
                    [] ~before.skip /\ mode = "line" ->
                         IF char = "NL" THEN Stay("code") ELSE Stay("line")
                    [] ~before.skip /\ mode = "block" ->
                         IF char = "*" /\ peek = "/"
                         THEN [in |-> "block", next |-> "code", skip |-> TRUE]
                         ELSE Stay("block")
                    [] ~before.skip /\ mode \in {"SQ", "DQ", "BT"} ->
                         CASE char = "BS" /\ mode # "BT" -> [Stay(mode) EXCEPT !.skip = TRUE]
                           [] char = mode /\ peek = mode -> [Stay(mode) EXCEPT !.skip = TRUE]
                           [] char = mode /\ peek # mode -> [Stay(mode) EXCEPT !.next = "code"]
                           [] OTHER -> Stay(mode)
    IN lexed

\* The characters that are neither blank nor in a comment.
Matter(text, lexed) ==
    {i \in DOMAIN text : /\ lexed[i].in \notin {"line", "block"}
                         /\ lexed[i].in = "code" => text[i] \notin Whitespace}

OneStatement(text) ==
    LET lexed == Lexed(text)
        matter == Matter(text, lexed)
        Code(i) == lexed[i].in = "code"
        Boundary(i) == Code(i) /\ text[i] = ";"
        Alone(i) == /\ Code(i)
                    /\ i > 1 /\ Code(i - 1) => ~_is_word_char(text[i - 1])
                    /\ i < Len(text) /\ Code(i + 1) => ~_is_word_char(text[i + 1])
    IN /\ \A i \in DOMAIN text : text[i] # "ZW"
       /\ \A i \in DOMAIN text : text[i] = "FW" => ~Code(i)
       /\ lexed[Len(text)].next \in {"code", "line"}
       /\ \A i \in DOMAIN text :
            /\ lexed[i].in = "block"
            /\ i = 1 \/ lexed[i - 1].next # "block"
            /\ ~lexed[i - 1].skip
            => _peek(text, i + 2) \notin {"+", "!"}
       /\ \A i, j \in matter : Boundary(i) => j <= i
       /\ ~\E i, j \in matter :
            /\ i < j
            /\ Alone(i) /\ text[i] = "I"
            /\ Alone(j) /\ text[j] = "O"
            /\ \A k \in matter : k <= i \/ j <= k
       /\ \E i \in matter : ~Boundary(i)

\* The scanner (scan_sql) lets a text through exactly when it is one statement
\* for a reader that takes it character by character: no boundary, file target
\* or hint outside strings and comments, and no string or comment left open.
ScansOneStatement(raw) ==
    (scan_sql(raw).reason = "none") <=> (raw.bytes = "plain" /\ OneStatement(raw.text))

\* The texts examined: every short one over alphabets in which strings, block
\* comments, line comments and words meet the boundary.
Texts(alphabet, length) == UNION {[1 .. n -> alphabet] : n \in 0 .. length}
Plain(text) == [bytes |-> "plain", text |-> text]
Raws == {Plain(text) : text \in
            Texts({"a", "SQ", "BS", ";", "BT"}, 5) \cup Texts({"/", "*", "+", ";", "SQ"}, 5)
            \cup Texts({"-", "#", "NL", ";", "DQ"}, 5) \cup Texts({"I", "O", " ", "ZW", "FW", "SQ"}, 4)}
        \cup [bytes : {"TOO_LONG", "INVALID_UTF8", "BOM"}, text : {<<"a">>}]
=============================================================================
