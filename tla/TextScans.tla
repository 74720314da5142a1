----------------------------- MODULE TextScans -----------------------------
(***************************************************************************)
(* What the server reads off the text around a cursor, without a parser:   *)
(* positions (crates/bg3-ls/src/server.rs, LineMap of bg3-index) and the   *)
(* scanners of crates/bg3-ide/src/language.rs for completion, signature    *)
(* help and hover.                                                         *)
(*                                                                         *)
(* A text is a sequence of characters; a keyword or a name that a scanner  *)
(* looks for stands as one of them.  "wide" is a character of two bytes,   *)
(* "pair" one of four bytes and two UTF-16 units.  Positions are           *)
(* zero-based, as in the code; what is absent is None.                     *)
(***************************************************************************)
EXTENDS Naturals, Sequences, SequencesExt, FiniteSetsExt, Functions

CONSTANT None

Keywords == {"IF", "PROC", "QRY", "AND", "THEN", "NOT"}
Sections == {"INITSECTION", "KBSECTION", "EXITSECTION", "ENDEXITSECTION"}
Names == {"data", "type", "using", "id", "value"}
Word == {"a", "b", "ParentTargetEdge"} \cup Keywords \cup Sections \cup Names
White == {" ", "\n", "\r"}

Prefix(s, n) == SubSeq(s, 1, n)
From(s, n) == SubSeq(s, n, Len(s))
Total(f) == FoldFunction(+, 0, f)

TrimStart(s) == From(s, Max({1} \cup {n + 1 : n \in {n \in DOMAIN s : \A i \in 1 .. n : s[i] \in White}}))
TrimEnd(s) == Reverse(TrimStart(Reverse(s)))
Trim(s) == TrimEnd(TrimStart(s))
Blank(s) == \A i \in DOMAIN s : s[i] \in White

(* The longest end of a text that holds only such characters.              *)
Ending(s, C) == From(s, Min({n \in 1 .. Len(s) + 1 : \A i \in n .. Len(s) : s[i] \in C}))

IdentifierPrefix(s) == Ending(s, Word)

-----------------------------------------------------------------------------
(* Positions.                                                              *)

Bytes(s) == Total([i \in DOMAIN s |-> CASE s[i] = "wide" -> 2 [] s[i] = "pair" -> 4 [] OTHER -> 1])
Units(s) == Total([i \in DOMAIN s |-> IF s[i] = "pair" THEN 2 ELSE 1])

Lines(text) ==
  FoldLeft(LAMBDA lines, c : IF c = "\n" THEN Append(lines, <<>>)
                             ELSE [lines EXCEPT ![Len(lines)] = Append(@, c)], <<<<>>>>, text)

Position(line, character) == [line |-> line, character |-> character]

Boundaries(line) == {Bytes(Prefix(line, n)) : n \in 0 .. Len(line)}
FloorOf(line, column) == Max({b \in Boundaries(line) : b <= column})
Cut(line, column) == Prefix(line, Max({n \in 0 .. Len(line) : Bytes(Prefix(line, n)) <= column}))

(* LineMap::position                                                       *)
LinePosition(text, offset) ==
  LET starts == {0} \cup {Bytes(Prefix(text, i)) : i \in {i \in DOMAIN text : text[i] = "\n"}}
      passed == {s \in starts : s <= offset}
  IN  Position(Cardinality(passed) - 1, offset - Max(passed))

ClampLine(text, line) == Min({line, Len(Lines(text)) - 1})

(* to_lsp_position                                                         *)
ToLspPosition(p, text, encoding) ==
  LET line == Lines(text)[ClampLine(text, p.line) + 1]
      byte == FloorOf(line, p.character)
  IN  Position(ClampLine(text, p.line),
               IF encoding = "utf8" THEN byte ELSE Units(Cut(line, byte)))

ToBg3Past(p, text, encoding) ==
  LET line == Lines(text)[ClampLine(text, p.line) + 1]
      n == IF encoding = "utf8" THEN Len(Cut(line, p.character))
           ELSE Min({Len(line)} \cup {n \in 0 .. Len(line) : Units(Prefix(line, n)) >= p.character})
  IN  Position(ClampLine(text, p.line), Bytes(Prefix(line, n)))

(* to_bg3_position: a position within a surrogate pair is the pair's start. *)
ToBg3Position(p, text, encoding) ==
  LET line == Lines(text)[ClampLine(text, p.line) + 1]
      n == IF encoding = "utf8" THEN Len(Cut(line, p.character))
           ELSE Max({n \in 0 .. Len(line) : Units(Prefix(line, n)) <= p.character})
  IN  Position(ClampLine(text, p.line), Bytes(Prefix(line, n)))

(* source_prefix                                                           *)
SourcePrefix(text, p) ==
  LET lines == Lines(text)
      before == Total([i \in 1 .. p.line |-> Len(lines[i]) + 1])
  IN  IF p.line >= Len(lines) THEN None
      ELSE Prefix(text, before + Len(Cut(lines[p.line + 1], p.character)))

-----------------------------------------------------------------------------
(* Calls.  Every scanner keeps the quote it is in, and whether the last    *)
(* character there was a backslash.                                        *)

Quote(s, c) ==
  IF s.escaped THEN [s EXCEPT !.escaped = FALSE]
  ELSE IF c = "\\" THEN [s EXCEPT !.escaped = TRUE]
  ELSE IF c = s.quote THEN [s EXCEPT !.quote = None]
  ELSE s

Open(s, c) == [s EXCEPT !.quote = c]

At(s, i) == IF i <= Len(s) THEN s[i] ELSE None

Group == [function |-> <<>>, argument |-> 0, start |-> 0]

(* One character of call_context.  A comment's second character is skipped *)
(* with its first; a name stays the previous one through space and         *)
(* comments.                                                               *)
CallStep(text, s, i) ==
  LET c == text[i]
      pair == <<c, At(text, i + 1)>>
      top == s.stack[Len(s.stack)]
      Call == [function |-> SubSeq(text, s.previous[1], s.previous[2]), argument |-> 0, start |-> i + 1]
      continues == s.previous # <<>> /\ s.previous[2] = i - 1
      forgotten == [s EXCEPT !.previous = <<>>]
  IN  CASE s.skip -> [s EXCEPT !.skip = FALSE]
        [] s.comment = "line" /\ ~s.skip -> IF c = "\n" THEN [s EXCEPT !.comment = "none"] ELSE s
        [] s.comment = "block" /\ ~s.skip ->
             IF pair = <<"*", "/">> THEN [s EXCEPT !.comment = "none", !.skip = TRUE] ELSE s
        [] s.quote # None -> Quote(s, c)
        [] OTHER ->
             CASE pair = <<"/", "/">> -> [s EXCEPT !.comment = "line", !.skip = TRUE]
               [] pair = <<"/", "*">> -> [s EXCEPT !.comment = "block", !.skip = TRUE]
               [] c \in {"'", "\""} -> Open(forgotten, c)
               [] c = "(" -> [forgotten EXCEPT !.stack = Append(@, IF s.previous = <<>> THEN Group ELSE Call)]
               [] c = "," -> IF s.stack = <<>> \/ top = Group THEN forgotten
                             ELSE [forgotten EXCEPT !.stack[Len(s.stack)].argument = @ + 1]
               [] c = ")" -> [forgotten EXCEPT !.stack = IF @ = <<>> THEN @ ELSE Front(@)]
               [] c \in Word -> [s EXCEPT !.previous = <<IF continues THEN @[1] ELSE i, i>>]
               [] c \in White -> s
               [] OTHER -> forgotten

CallScan(text) ==
  LET scan[i \in 0 .. Len(text)] ==
        IF i = 0 THEN [skip |-> FALSE, comment |-> "none", quote |-> None, escaped |-> FALSE,
                       previous |-> <<>>, stack |-> <<>>]
        ELSE CallStep(text, scan[i - 1], i)
  IN  scan[Len(text)]

(* One character of first_call_argument, which looks at each.              *)
ArgumentStep(text, s, i) ==
  LET c == text[i]
      pair == <<c, At(text, i + 1)>>
  IN  CASE s.end # 0 -> s
        [] s.comment = "line" -> IF c = "\n" THEN [s EXCEPT !.comment = "none"] ELSE s
        [] s.comment = "block" -> IF pair = <<"*", "/">> THEN [s EXCEPT !.comment = "none"] ELSE s
        [] s.end = 0 /\ s.quote # None -> Quote(s, c)
        [] OTHER ->
             CASE pair = <<"/", "/">> -> [s EXCEPT !.comment = "line"]
               [] pair = <<"/", "*">> -> [s EXCEPT !.comment = "block"]
               [] c \in {"'", "\""} -> Open(s, c)
               [] c = "(" -> [s EXCEPT !.depth = @ + 1]
               [] c = ")" /\ s.depth > 0 -> [s EXCEPT !.depth = @ - 1]
               [] c \in {",", ")"} /\ s.depth = 0 -> [s EXCEPT !.end = i]
               [] OTHER -> s

(* first_call_argument                                                     *)
FirstCallArgument(arguments) ==
  LET scan[i \in 0 .. Len(arguments)] ==
        IF i = 0 THEN [comment |-> "none", quote |-> None, escaped |-> FALSE, depth |-> 0, end |-> 0]
        ELSE ArgumentStep(arguments, scan[i - 1], i)
      end == scan[Len(arguments)].end
  IN  Trim(IF end = 0 THEN arguments ELSE Prefix(arguments, end - 1))

NoCall == [function |-> <<>>, argument |-> 0, first |-> <<>>]

(* call_context: the innermost call that is open at the end, unless that   *)
(* is in a comment.                                                        *)
CallContext(text) ==
  LET scan == CallScan(text)
      calls == {i \in DOMAIN scan.stack : scan.stack[i] # Group}
      call == scan.stack[Max(calls)]
  IN  IF scan.comment # "none" \/ calls = {} THEN NoCall
      ELSE [function |-> call.function, argument |-> call.argument,
            first |-> FirstCallArgument(From(text, call.start))]
-----------------------------------------------------------------------------
(* Osiris statements.                                                      *)

(* One character of strip_osiris_comments; quotes end with the line.       *)
StripStep(line, s, i) ==
  LET c == line[i]
      pair == <<c, At(line, i + 1)>>
  IN  CASE s.done -> s
        [] s.skip -> [s EXCEPT !.skip = FALSE]
        [] s.block /\ ~s.skip -> IF pair = <<"*", "/">> THEN [s EXCEPT !.block = FALSE, !.skip = TRUE] ELSE s
        [] s.quote # None -> [Quote(s, c) EXCEPT !.code = Append(@, c)]
        [] OTHER ->
             CASE c = "\"" -> [Open(s, c) EXCEPT !.code = Append(@, c)]
               [] pair = <<"/", "/">> -> [s EXCEPT !.done = TRUE]
               [] pair = <<"/", "*">> -> [s EXCEPT !.block = TRUE, !.skip = TRUE]
               [] OTHER -> [s EXCEPT !.code = Append(@, c)]

StripComments(line, block) ==
  LET scan[i \in 0 .. Len(line)] ==
        IF i = 0 THEN [done |-> FALSE, skip |-> FALSE, block |-> block, quote |-> None,
                       escaped |-> FALSE, code |-> <<>>]
        ELSE StripStep(line, scan[i - 1], i)
  IN  [code |-> scan[Len(line)].code, block |-> scan[Len(line)].block]

(* The first `n' lines without their comments, and whether a block comment *)
(* is open after them.                                                     *)
Stripped(document, n) ==
  FoldLeft(LAMBDA s, line : LET t == StripComments(line, s.block)
                            IN  [codes |-> Append(s.codes, t.code), block |-> t.block],
           [codes |-> <<>>, block |-> FALSE],
           Prefix(Lines(document), Min({n, Len(Lines(document))})))

(* osiris_prefix_is_in_comment                                             *)
InComment(document, n, before) == StripComments(before, Stripped(document, n).block).block

Role(keyword) ==
  CASE keyword = "IF" -> "head"
    [] keyword \in {"PROC", "QRY"} -> "declaration"
    [] keyword = "AND" -> "condition"
    [] keyword = "THEN" -> "action"

(* inside_osiris_statement_section                                         *)
InsideSection(document, n) ==
  FoldLeft(LAMBDA inside, code :
             CASE Trim(code) \in {<<"INITSECTION">>, <<"KBSECTION">>, <<"EXITSECTION">>} -> TRUE
               [] Trim(code) = <<"ENDEXITSECTION">> -> FALSE
               [] OTHER -> inside,
           FALSE, Stripped(document, n).codes)

(* osiris_completion_position_before: the role that the lines above give.  *)
PositionBefore(document, n) ==
  FoldLeft(LAMBDA role, code :
             LET line == Trim(code) IN
             CASE \E k \in Keywords \ {"NOT"} : line = <<k>> -> Role(line[1])
               [] line \in {<<"INITSECTION">>, <<"EXITSECTION">>} -> "action"
               [] line = <<"KBSECTION">> -> "head"
               [] line = <<"ENDEXITSECTION">> -> None
               [] OTHER -> role,
           None, Stripped(document, n).codes)

(* The keywords that lead a line, taken off one by one.                    *)
TakeKeywords(line) ==
  LET Step(s) ==
        IF s.call # <<>> /\ s.call[1] \in Keywords /\ (Len(s.call) = 1 \/ s.call[2] \in White)
        THEN [call |-> TrimStart(From(s.call, 2)),
              role |-> IF s.call[1] = "NOT" THEN s.role ELSE Role(s.call[1])]
        ELSE s
      scan[i \in 0 .. Len(line)] ==
        IF i = 0 THEN [call |-> line, role |-> None] ELSE Step(scan[i - 1])
  IN  scan[Len(line)]

(* osiris_completion_context                                               *)
OsirisContext(document, line, n) ==
  LET trimmed == TrimStart(line)
      edge == TrimStart(From(trimmed, 2))
      taken == TakeKeywords(trimmed)
      role == IF taken.role # None THEN taken.role ELSE PositionBefore(document, n)
  IN  CASE InComment(document, n, line) -> None
        [] At(trimmed, 1) = "ParentTargetEdge" /\ ~InComment(document, n, line) ->
             IF At(edge, 1) = "\"" /\ "\"" \notin ToSet(From(edge, 2))
             THEN [prefix |-> From(edge, 2), goals |-> TRUE, role |-> "declaration"] ELSE None
        [] OTHER ->
             IF InsideSection(document, n) /\ ToSet(taken.call) \subseteq Word /\ role # None
             THEN [prefix |-> taken.call, goals |-> FALSE, role |-> role] ELSE None

-----------------------------------------------------------------------------
(* Words at a column and members.                                          *)

Leading(s, C) == Prefix(s, Max({n \in 0 .. Len(s) : \A i \in 1 .. n : s[i] \in C}))

Around(line, column, C) ==
  [before |-> Ending(Prefix(line, column), C), after |-> Leading(From(line, column + 1), C)]

(* word_at; lexical_hover_range, with more characters, is Around too.      *)
WordAt(line, column) == Around(line, column, Word).before \o Around(line, column, Word).after

LexicalRange(line, column) ==
  LET token == Around(line, column, Word \cup {"wide", "-"}) IN
  IF token.before \o token.after = <<>> THEN None
  ELSE <<column - Len(token.before), column + Len(token.after)>>

ObjectOf(s) ==
  IF s = <<>> \/ Last(s) # "." \/ Ending(Front(s), Word) = <<>> THEN None
  ELSE Ending(Front(s), Word)

(* member_word_context                                                     *)
MemberWord(line, column) ==
  LET word == Around(line, column, Word)
      start == column - Len(word.before)
      end == column + Len(word.after)
  IN  IF start >= end THEN None
      ELSE [object |-> ObjectOf(Prefix(line, start)), inObject |-> At(line, end + 1) = "."]

(* member_object_before_partial: quotes may stand in the partial word.     *)
ObjectBeforePartial(value) ==
  ObjectOf(Prefix(value, Len(value) - Len(Ending(value, Word \cup {"\"", "'"}))))

-----------------------------------------------------------------------------
(* Functor statements: split at semicolons outside quotes.                 *)

Statements(value) ==
  LET Step(s, i) ==
        LET c == value[i] IN
        CASE s.quote # None -> Quote(s, c)
          [] s.quote = None /\ c \in {"'", "\""} -> Open(s, c)
          [] s.quote = None /\ c = ";" -> [s EXCEPT !.start = i + 1, !.ends = Append(@, i)]
          [] OTHER -> s
      scan[i \in 0 .. Len(value)] ==
        IF i = 0 THEN [quote |-> None, escaped |-> FALSE, start |-> 1, ends |-> <<>>]
        ELSE Step(scan[i - 1], i)
      s == scan[Len(value)]
      begins == <<1>> \o [i \in DOMAIN s.ends |-> s.ends[i] + 1]
      stops == Append(s.ends, Len(value) + 1)
  IN  [i \in DOMAIN stops |-> SubSeq(value, begins[i], stops[i] - 1)]

(* format_value_preview: the statements, a line each.                      *)
Preview(value) ==
  SelectSeq([i \in DOMAIN Statements(value) |-> Trim(Statements(value)[i])], LAMBDA s : s # <<>>)

IsStatementHeadUnquoted(head) ==
  LET ends == {0} \cup {i \in DOMAIN head : head[i] = ";"} IN Blank(From(head, Max(ends) + 1))

(* is_functor_statement_head                                               *)
IsStatementHead(head) == Blank(Last(Statements(head)))

-----------------------------------------------------------------------------
(* Incomplete clauses and attributes on the line before the cursor.        *)

InName(prefix) == [field |-> <<>>, prefix |-> prefix, value |-> <<>>, inName |-> TRUE]
InValue(field, value) ==
  [field |-> field, prefix |-> Ending(value, Word), value |-> value, inName |-> FALSE]

Unquoted(s) == IF At(s, 1) = "\"" THEN From(s, 2) ELSE None
First(s, c) == Min({Len(s) + 1} \cup {i \in DOMAIN s : s[i] = c})

(* quoted_clause_prefix                                                    *)
QuotedClausePrefix(line, clause) ==
  LET trimmed == TrimStart(line)
      rest == TrimStart(From(trimmed, 2))
  IN  IF At(trimmed, 1) = clause /\ At(rest, 1) = "\"" /\ "\"" \notin ToSet(From(rest, 2))
      THEN From(rest, 2) ELSE None

(* data_context                                                            *)
DataContext(line) ==
  LET trimmed == TrimStart(line)
      rest == Unquoted(TrimStart(From(trimmed, 2)))
      end == First(rest, "\"")
      value == Unquoted(TrimStart(From(rest, end + 1)))
  IN  IF At(trimmed, 1) # "data" \/ rest = None THEN None
      ELSE IF end > Len(rest) THEN InName(rest)
      ELSE IF value = None THEN None
      ELSE InValue(Prefix(rest, end - 1), value)

(* xml_attribute_start: from the opening quote of the first attribute of   *)
(* the name, wherever that stands.                                         *)
AttributeStart(element, name) ==
  LET at == {i \in DOMAIN element : /\ element[i] = name
                                    /\ i = 1 \/ element[i - 1] \in White
                                    /\ At(element, i + 1) = "="
                                    /\ At(element, i + 2) \in {"'", "\""}}
  IN  IF at = {} THEN None ELSE From(element, Min(at) + 2)

(* closed_xml_attribute and open_xml_attribute                             *)
ClosedAttribute(element, name) ==
  LET start == AttributeStart(element, name)
      end == First(From(start, 2), start[1])
  IN  IF start = None \/ end >= Len(start) THEN None ELSE SubSeq(start, 2, end)

OpenAttribute(element, name) ==
  LET start == AttributeStart(element, name) IN
  IF start = None \/ start[1] \in ToSet(From(start, 2)) THEN None ELSE From(start, 2)

LastElement(line) ==
  LET at == {i \in DOMAIN line : line[i] = "<attribute"} IN
  IF at = {} THEN None ELSE From(line, Max(at) + 1)

(* lsx_value_context; `valueFields' are those is_lsx_value_field knows.    *)
LsxValueContext(line, valueFields) ==
  LET element == LastElement(line)
      field == ClosedAttribute(element, "id")
      value == OpenAttribute(element, "value")
  IN  IF element = None \/ field = None \/ field \notin valueFields \/ value = None THEN None
      ELSE InValue(field, value)

(* value_context                                                           *)
ValueContext(line, valueFields) ==
  IF DataContext(line) # None THEN DataContext(line) ELSE LsxValueContext(line, valueFields)

Panic == [tag |-> "panic"]

(* data_clause_spans.  With no closing quote, the value is taken from one  *)
(* past the end of the line, which no slice may start at.                  *)
DataClause(line, column) ==
  LET trimmed == TrimStart(line)
      open == First(line, "\"")
      close == open + First(From(line, open + 1), "\"")
      value == Unquoted(TrimStart(From(line, close + 1)))
  IN  IF \/ At(trimmed, 1) # "data"
         \/ At(trimmed, 2) \notin White
         \/ open > Len(line)
         \/ column < open
         \/ column >= close THEN None
      ELSE IF close > Len(line) THEN Panic
      ELSE [tag |-> "clause", name |-> SubSeq(line, open + 1, close - 1),
            value |-> IF value = None THEN None ELSE Prefix(value, First(value, "\"") - 1)]

-----------------------------------------------------------------------------
(* Properties.                                                             *)

(* A place in the text survives the way to the client and back, and is     *)
(* where signature help cuts the text; whatever place the client names     *)
(* becomes a character boundary, at or before it, that stays.              *)
PositionsAgree(text, lines, characters) ==
  \A encoding \in {"utf8", "utf16"} :
    /\ \A n \in 0 .. Len(text) :
         LET p == LinePosition(text, Bytes(Prefix(text, n))) IN
         /\ ToBg3Position(ToLspPosition(p, text, encoding), text, encoding) = p
         /\ SourcePrefix(text, p) = Prefix(text, n)
    /\ \A line \in lines, character \in characters :
         LET q == Position(line, character)
             p == ToBg3Position(q, text, encoding)
             back == ToLspPosition(p, text, encoding)
         IN  /\ p.character \in Boundaries(Lines(text)[p.line + 1])
             /\ back.line <= line /\ back.character <= character
             /\ ToBg3Position(back, text, encoding) = p

HasPart(s, part) ==
  \E i \in 1 .. (Len(s) + 1) - Len(part) : SubSeq(s, i, (i + Len(part)) - 1) = part

(* The scan of calls, the scan of a call's first argument and the one that *)
(* strips comments follow quotes and comments alike: they agree on whether *)
(* the end lies in a comment and on whether the first argument has ended.  *)
(* Excepted are comments that close on their own star or that a slash or a *)
(* star follows, and quotes over several lines (see the README).           *)
CallScansAgree(text) ==
  LET scan == CallScan(text)
      calls == {i \in DOMAIN scan.stack : scan.stack[i] # Group}
      lines == Lines(text)
      arguments == From(text, scan.stack[Max(calls)].start)
      odd == \E part \in {<<"/", "*", "/">>, <<"*", "/", "/">>, <<"*", "/", "*">>} : HasPart(text, part)
  IN  /\ "\n" \notin ToSet(text) \/ "\"" \notin ToSet(text) =>
           (scan.comment = "block" <=> InComment(text, Len(lines) - 1, Last(lines)))
      /\ CallContext(text) # NoCall /\ ~odd =>
           (CallContext(text).argument = 0 <=> CallContext(text).first = Trim(arguments))

(* The scans of a Stats value agree: a functor may begin exactly where the *)
(* preview would begin a statement, and completion and hover see the same  *)
(* word and the same object before it.                                     *)
ValueScansAgree(line) ==
  /\ IsStatementHead(line) <=> Preview(line \o <<"a">>) = Append(Preview(line), <<"a">>)
  /\ \A column \in 0 .. Len(line) :
       LET before == Prefix(line, column)
           word == WordAt(line, column)
           member == MemberWord(line, column)
       IN  /\ IsPrefix(IdentifierPrefix(before), word)
           /\ word = <<>> <=> member = None
           /\ member # None /\ "\"" \notin ToSet(before) =>
                member.object = ObjectBeforePartial(before)
           /\ "-" \notin ToSet(line) =>
                LexicalRange(line, column) =
                  IF word = <<>> THEN None
                  ELSE <<column - Len(IdentifierPrefix(before)),
                         column - Len(IdentifierPrefix(before)) + Len(word)>>

(* Where completion replaces a property's name, hover reads that name, and *)
(* the scanners of an open quote find the same.                            *)
ClausesAgree(line) ==
  At(TrimStart(line), 2) \in White /\ Blank(SubSeq(TrimStart(line), 2, First(TrimStart(line), "\"") - 1)) =>
    \A column \in 0 .. Len(line) :
      LET typed == ValueContext(Prefix(line, column), {})
          clause == DataClause(line, column)
          open == QuotedClausePrefix(Prefix(line, column), "data")
      IN  /\ open # None <=> typed # None /\ typed.inName
          /\ open # None => open = typed.prefix
          /\ clause # Panic =>
               /\ clause # None <=> typed # None /\ typed.inName
               /\ clause # None => IsPrefix(typed.prefix, clause.name)

(* An attribute whose element is still open is completed as what its       *)
(* attributes say, in whatever order they stand.                           *)
AttributesAreRead(attributes, open) ==
  LET Text(a) == <<" ", a.name, "=", "\"">> \o a.value
      line == <<"<attribute">> \o FlattenSeq([i \in DOMAIN attributes |-> Append(Text(attributes[i]), "\"")])
                \o Text(open)
      ids == SelectSeq(attributes, LAMBDA a : a.name = "id")
      values == SelectSeq(attributes, LAMBDA a : a.name = "value")
  IN  ValueContext(line, {<<"a">>}) =
        IF ids # <<>> /\ ids[1].value = <<"a">> /\ open.name = "value" /\ values = <<>>
        THEN InValue(<<"a">>, open.value) ELSE None

(* "The closing quote may be absent while the name is still being typed"   *)
(* (language.rs, data_clause_spans).                                       *)
UnclosedNamesAreRead(line) == \A column \in 0 .. Len(line) : DataClause(line, column) # Panic

(* "Osiris commonly puts each rule keyword on its own line": what follows  *)
(* a keyword is completed the same on its line and on the next, whatever   *)
(* comment stands between.                                                 *)
LayoutDoesNotDecide(above, keyword, comment, rest) ==
  LET document == FlattenSeq([i \in DOMAIN above |-> Append(above[i], "\n")])
      n == Len(above)
      broken == document \o <<keyword>> \o comment \o <<"\n">>
  IN  At(TrimStart(rest), 1) # "ParentTargetEdge" /\ ~InComment(document, n, <<>>) =>
        OsirisContext(document, <<keyword, " ">> \o rest, n) = OsirisContext(broken, rest, n + 1)

=============================================================================
