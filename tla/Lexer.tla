-------------------------------- MODULE Lexer --------------------------------
(***************************************************************************)
(* command_lexer.go: Lex cuts a line into tokens.  It applies nine rules   *)
(* in turn, each to what the one before has left, until the input is empty.*)
(* A rule that applies takes bytes one at a time, an escape being two.     *)
(*                                                                         *)
(* A byte is a member of Bytes that stands for its class.  "BC" is one of  *)
(* those that unicode takes for a number and not for a digit (B2, B3, B9,  *)
(* BC, BD, BE), "A0" one that it takes for a space (also 85), "C3" a       *)
(* letter that begins the UTF-8 of most accented ones; "=" stands for all  *)
(* punctuation that no rule names, and the names of commands do too.       *)
(***************************************************************************)
EXTENDS Integers, Sequences, SequencesExt

CONSTANT Texts   \* the lines that are given to Lex

Spaces == {" ", "LF", "A0"}
Letters == {"a", "b", "s", "C3"}
Commands == {"cd", "!label", "!new", "!set"}
Digits == {"1"}
Fractions == {"BC"}
Numbers == Digits \cup Fractions
Operators == {"|", ">", "<"}
Braces == {"{", "}"}
NoGlobStart == {"/", "\\", "~", "."}   \* mutant of PathStarts
PathStarts == {"/", "\\", "~", ".", "*"}
PathBytes == Letters \cup Digits \cup {"/", "\\", ".", "~", "*"}
Escapable == Operators \cup Braces \cup {"$", "#", "\\"}

Bytes == Spaces \cup Letters \cup Numbers \cup Operators \cup Braces \cup PathBytes
         \cup Commands \cup {"\"", "$", "#", ";", "="}

ASSUME TextsAssumption == Texts \subseteq Seq(Bytes)

VARIABLES
  text,     \* the line
  input,    \* what is left of it
  rule,     \* the rule that is applied, "done" at the end
  inside,   \* whether it has begun to take bytes
  word,     \* its builder
  kind,     \* the type of the token that lexNumber builds
  tokens,   \* those added so far
  start     \* how much was left when the pass over the rules began

lexVars == <<text, input, rule, inside, word, kind, tokens, start>>

Rules == {"space", "operator", "brace", "path", "identifier", "number", "string",
          "variable", "comment"}
Types == {"Identifier", "String", "Number", "Path", "Symbol", "Varname", "Brace", "Operator"}

After(r) ==
  CASE r = "space" -> "operator"
    [] r = "operator" -> "brace"
    [] r = "brace" -> "path"
    [] r = "path" -> "identifier"
    [] r = "identifier" -> "number"
    [] r = "number" -> "string"
    [] r = "string" -> "variable"
    [] r = "variable" -> "comment"

-----------------------------------------------------------------------------

Drop(s, n) == SubSeq(s, n + 1, Len(s))
Second(s, set) == Len(s) > 1 /\ s[2] \in set

\* A backslash that stands for the byte after it, in a path or an identifier.
EscapesShell(s) == s[1] = "\\" /\ Second(s, Escapable)
EscapesNoBlank(s) == EscapesShell(s)   \* mutant of Escapes
Escapes(s) == EscapesShell(s) \/ (s[1] = "\\" /\ Second(s, {" "}))

\* Whether a rule has something to do with what begins the input.
Applies(r, s) ==
  /\ s # <<>>
  /\ CASE r = "space"      -> s[1] \in Spaces
       [] r = "operator"   -> s[1] \in Operators
       [] r = "brace"      -> s[1] \in Braces
       [] r = "path"       -> s[1] \in PathStarts /\ ~EscapesShell(s)
       [] r = "identifier" -> s[1] \notin {"#", "$", "{", "}", "*", "\""} \cup Spaces \cup Numbers
       [] r = "number"     -> s[1] \in Digits
       [] r = "string"     -> s[1] = "\""
       [] r = "variable"   -> s[1] = "$"
       [] r = "comment"    -> s[1] = "#"

\* Whether a rule that is taking bytes takes the next one.
Takes(r, s) ==
  /\ s # <<>>
  /\ CASE r = "path"       -> Escapes(s) \/ s[1] \in PathBytes
       [] r = "identifier" -> Escapes(s) \/ s[1] \notin Spaces \cup Braces \cup Operators
       [] r = "number"     -> s[1] \in Letters \cup Digits \cup {";"}
       [] r = "string"     -> s[1] # "\""
       [] r = "variable"   -> s[1] \notin Spaces \cup {"}"}
       [] OTHER            -> FALSE

Token(type, value) == [type |-> type, value |-> value]
Add(type, value) == tokens' = Append(tokens, Token(type, value))

TypeOf(r) ==
  CASE r = "path" -> "Path" [] r = "identifier" -> "Identifier" [] r = "number" -> kind
    [] r = "string" -> "String" [] r = "variable" -> "Varname"

-----------------------------------------------------------------------------

LexStart(s) ==
  /\ text = s /\ input = s
  /\ rule = IF s = <<>> THEN "done" ELSE "space"
  /\ inside = FALSE /\ word = <<>> /\ kind = "Number" /\ tokens = <<>>
  /\ start = Len(s)

LexInit == \E s \in Texts : LexStart(s)

\* On to the next rule, from the last one to a new pass if something is left.
LeaveForGood(left) ==   \* mutant of Leave
  /\ inside' = FALSE
  /\ rule' = IF rule = "comment" THEN "done" ELSE After(rule)
  /\ UNCHANGED start
Leave(left) ==
  /\ inside' = FALSE
  /\ IF rule = "comment"
       THEN /\ rule' = IF left = <<>> THEN "done" ELSE "space"
            /\ start' = Len(left)
       ELSE rule' = After(rule) /\ UNCHANGED start

Pass ==
  /\ rule # "done" /\ ~inside /\ ~Applies(rule, input)
  /\ Leave(input)
  /\ UNCHANGED <<text, input, word, kind, tokens>>

skipLexWhitespace ==
  /\ rule = "space" /\ Applies(rule, input)
  /\ input' = Tail(input)
  /\ UNCHANGED <<text, rule, inside, word, kind, tokens, start>>

lexSymbol ==
  /\ rule \in {"operator", "brace"} /\ Applies(rule, input)
  /\ LET n == IF input[1] = ">" /\ Second(input, {">"}) THEN 2 ELSE 1
     IN /\ Add(IF rule = "brace" THEN "Brace" ELSE "Operator", SubSeq(input, 1, n))
        /\ input' = Drop(input, n)
        /\ Leave(Drop(input, n))
  /\ UNCHANGED <<text, word, kind>>

\* A word begins; strings and variables without the byte that announces them.
BeginWord ==
  /\ rule \in {"path", "identifier", "number", "string", "variable"}
  /\ ~inside /\ Applies(rule, input)
  /\ inside' = TRUE /\ word' = <<>> /\ kind' = "Number"
  /\ input' = IF rule \in {"string", "variable"} THEN Tail(input) ELSE input
  /\ UNCHANGED <<text, rule, tokens, start>>

TakeByte ==
  /\ inside /\ rule # "comment" /\ Takes(rule, input)
  /\ LET n == IF rule \in {"path", "identifier"} /\ Escapes(input) THEN 2 ELSE 1
     IN /\ word' = Append(word, input[n])
        /\ input' = Drop(input, n)
  /\ kind' = IF rule = "number" /\ input[1] \in Letters THEN "Identifier" ELSE kind
  /\ UNCHANGED <<text, rule, inside, tokens, start>>

EndWord ==
  /\ inside /\ rule # "comment" /\ ~Takes(rule, input)
  /\ Add(TypeOf(rule), word)
  /\ LET left == IF rule = "string" /\ input # <<>> THEN Tail(input) ELSE input
     IN input' = left /\ Leave(left)
  /\ UNCHANGED <<text, word, kind>>

\* One "#" is a token; two begin a comment, which two more end.
lexComment ==
  /\ rule = "comment" /\ ~inside /\ Applies(rule, input)
  /\ IF Second(input, {"#"})
       THEN /\ inside' = TRUE /\ input' = Drop(input, 2)
            /\ UNCHANGED <<rule, tokens, start>>
       ELSE /\ Add("Symbol", <<"#">>)
            /\ input' = Tail(input)
            /\ Leave(Tail(input))
  /\ UNCHANGED <<text, word, kind>>

InComment ==
  /\ rule = "comment" /\ inside
  /\ IF Len(input) >= 2 /\ ~(input[1] = "#" /\ input[2] = "#")
       THEN input' = Tail(input) /\ UNCHANGED <<rule, inside, start>>
       ELSE LET left == IF Len(input) >= 2 THEN Drop(input, 2) ELSE <<>>
            IN input' = left /\ Leave(left)
  /\ UNCHANGED <<text, word, kind, tokens>>

LexStep ==
  \/ Pass \/ skipLexWhitespace \/ lexSymbol
  \/ BeginWord \/ TakeByte \/ EndWord \/ lexComment \/ InComment

LexDone == rule = "done" /\ UNCHANGED lexVars

LexNext == LexStep \/ LexDone
LexSpec == LexInit /\ [][LexNext]_lexVars /\ WF_lexVars(LexStep)

-----------------------------------------------------------------------------
(* Properties. *)

\* Every variable has its type, the input is what the text ends in, and a rule
\* is never left with an input that it would have emptied without noticing.
LexTypeOK ==
  /\ text \in Seq(Bytes) /\ input \in Seq(Bytes) /\ word \in Seq(Bytes)
  /\ rule \in Rules \cup {"done"}
  /\ inside \in BOOLEAN
  /\ inside => rule \in {"path", "identifier", "number", "string", "variable", "comment"}
  /\ kind \in {"Number", "Identifier"}
  /\ tokens \in Seq([type : Types, value : Seq(Bytes)])
  /\ start \in Nat /\ Len(input) <= start
  /\ rule = "done" => input = <<>>

\* A pass over the rules that consumes nothing has met a number that is not a
\* digit: every other byte has a rule.
LexProgress ==
  [][rule = "comment" /\ rule' = "space" /\ Len(input') = start
       => input'[1] \in Fractions]_lexVars

\* A line without such a byte is cut into tokens in the end.
LexEnds == (\A k \in DOMAIN text : text[k] \notin Fractions) ~> (rule = "done")

\* Every line is: "Pasted complete lines are queued and executed one at a time."
\* (SHELL_OPERATORS.md:12), which needs the lexing of each to end.
LexAlwaysEnds == <>(rule = "done")

\* The words of a line as one would read it: between blanks, operators and
\* quotes, an escape standing for the byte after it.  A line is odd if it has
\* what no document says how to read, or what other rules are for: a quote, a
\* "#" or a "$" within a word (the code takes them for bytes of it, so x="a|b"
\* is cut between its quotes), a word right after a quote, one that begins with
\* neither a letter, a command nor an escape, a brace, a backslash that escapes
\* nothing, operators side by side.
\* The reader is in a gap, a word or a string, or has just read a quote that
\* ends one ("closed"), a backslash, a ">" ("angle") or another operator.
Unread == [mode |-> "gap", word |-> <<>>, out |-> <<>>, odd |-> FALSE]
Now(acc, m, w, o) == [mode |-> m, word |-> w, out |-> o, odd |-> acc.odd]
Odd(acc) == [acc EXCEPT !.odd = TRUE]
AfterToken(type) == IF type = "String" THEN "closed" ELSE "gap"
Ended(acc, type) == Now(acc, AfterToken(type), <<>>, Append(acc.out, Token(type, acc.word)))
Gap(acc) ==
  IF acc.mode = "word" THEN Ended(acc, "Identifier") ELSE Now(acc, "gap", acc.word, acc.out)
InWord(acc, c) == Now(acc, "word", Append(acc.word, c), acc.out)

ReadOperator(acc, c) ==
  CASE acc.mode = "angle" /\ c = ">" ->
         Now(acc, "operator", <<>>, Append(Front(acc.out), Token("Operator", <<c, c>>)))
    [] acc.mode = "operator" \/ (acc.mode = "angle" /\ c # ">") -> Odd(acc)
    [] OTHER -> Now(acc, IF c = ">" THEN "angle" ELSE "operator", <<>>,
                    Append(Gap(acc).out, Token("Operator", <<c>>)))

ReadOutside(acc, c) ==
  CASE c \in Spaces -> Gap(acc)
    [] c \in Operators -> ReadOperator(acc, c)
    [] c = "\\" /\ acc.mode # "closed" -> Now(acc, "escape", acc.word, acc.out)
    [] c = "\"" /\ acc.mode \notin {"word", "closed"} -> Now(acc, "string", acc.word, acc.out)
    [] c \notin Spaces \cup Operators \cup Braces \cup {"\\", "\"", "#", "$"}
         /\ (acc.mode = "word" \/ (acc.mode # "closed" /\ c \in Letters \cup Commands)) ->
         InWord(acc, c)
    [] OTHER -> Odd(acc)

ReadByte(acc, c) ==
  CASE acc.mode = "string" ->
         IF c = "\"" THEN Ended(acc, "String") ELSE Now(acc, "string", Append(acc.word, c), acc.out)
    [] acc.mode = "escape" ->
         IF c \in Escapable \/ (c = " " /\ acc.word # <<>>) THEN InWord(acc, c) ELSE Odd(acc)
    [] OTHER -> ReadOutside(acc, c)

Reads(s) ==
  LET read[k \in 0..Len(s)] == IF k = 0 THEN Unread ELSE ReadByte(read[k - 1], s[k])
  IN read

Closed(acc) ==
  CASE acc.mode = "escape" -> Odd(acc)
    [] acc.mode = "string" -> Ended(acc, "String")
    [] OTHER -> Gap(acc)

Split(s) == Closed(Reads(s)[Len(s)])

\* The tokens of a line that is not odd are its words.
SplitsAsRead ==
  rule = "done" /\ ~Split(text).odd => tokens = Split(text).out

=============================================================================
