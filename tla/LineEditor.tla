----------------------------- MODULE LineEditor -----------------------------
(***************************************************************************)
(* The prompt in raw mode: readRawInputFrom of terminal_helpers.go, which  *)
(* turns bytes into lines, HandleAutocomplete and updateGhostSuggestion,   *)
(* and the main loop that runs the lines.  The terminal gives the bytes of *)
(* `input' in reads of any size and is then closed; one read may fail.     *)
(*                                                                         *)
(* Indices are the code's: cursor and historyIdx count what is before      *)
(* them.  The names that complete a word stand for commands, variables and *)
(* directory entries alike.                                                *)
(***************************************************************************)
EXTENDS Integers, Sequences, FiniteSets, SequencesExt, FiniteSetsExt

CONSTANTS
  Inputs,     \* what may be typed or pasted before the terminal is closed
  Histories,  \* what may be in the history when the prompt is first shown
  Names,      \* what a word can be completed to, in the order of the listing
  BufSize     \* bytes of one read: 1024 in the code

ASSUME BufSizeAssumption == BufSize \in Nat \ {0}

VARIABLES
  input,            \* the bytes that the terminal gives, and those of them
  unread,           \* that it has not given yet
  chunk,            \* what is left of b[:n], the bytes last read
  pendingInput,     \* bytes kept for the next prompt
  skipNextInputLF,
  buffer, cursor,   \* the line and the place in it
  commandPrefix,    \* the lines that it continues
  history, historyIdx,
  ghostSuggestion,
  lastWasTab, autoCompleteMatches, autoCompleteIndex, lastAddedLen,
  command,          \* what the prompt last returned
  phase,            \* "reading", "returned" or "exited"
  ran,              \* the commands run so far
  failed            \* whether a read has failed

reads == <<input, unread, chunk, pendingInput, skipNextInputLF>>
line == <<buffer, cursor, commandPrefix>>
recall == <<history, historyIdx>>
completion == <<lastWasTab, autoCompleteMatches, autoCompleteIndex, lastAddedLen>>
main == <<command, phase, ran, failed>>
vars == <<reads, line, recall, ghostSuggestion, completion, main>>

Letters == {"A", "B", "C", "D", "a", "b", "d", "e", "i", "t", "x"}
Digits == {"1", "2", "3", "5", "7"}
Blanks == {" ", "LF"}
Newlines == {"CR", "LF"}
Keys == {"BS", "^W", "TAB", "^C", "^D", "ESC"}
Bytes == Letters \cup Digits \cup Blanks \cup Newlines \cup Keys
         \cup {"[", ";", "~", "{", "}", "\\", "\"", "other"}
Printable(c) == c \notin Newlines \cup Keys \cup {"other"}
Plain == {c \in Bytes : Printable(c) /\ c # "{"}
Exit == <<"e", "x", "i", "t">>

ASSUME TextAssumption ==
  /\ \A s \in Inputs : s \in Seq(Bytes)
  /\ \A h \in Histories : h \in Seq(Seq(Bytes))
  /\ Names \in Seq(Seq(Bytes))

From(s, n) == SubSeq(s, n, Len(s))
Least(S, otherwise) == IF S = {} THEN otherwise ELSE Min(S)
Greatest(S, otherwise) == IF S = {} THEN otherwise ELSE Max(S)

TrimSpace(s) ==
  LET text == {k \in DOMAIN s : s[k] \notin Blanks}
  IN SubSeq(s, Least(text, 1), Greatest(text, 0))

-----------------------------------------------------------------------------
(* Words of the line, and what they can be completed to. *)

Alnum(c) == c \in Letters \cup Digits
Other(c, d) == c \in Blanks \/ Alnum(c) # Alnum(d)

findWordBoundaryLeft(s, c) ==
  LET p == Greatest({k \in 1..c : s[k] \notin Blanks}, 0)
  IN Greatest({k \in 1..p : Other(s[k], s[p])}, 0)

findWordBoundaryRight(s, c) ==
  LET p == Least({k \in (c + 1)..Len(s) : s[k] \notin Blanks}, Len(s) + 1)
  IN Least({k \in p..Len(s) : Other(s[k], s[p])}, Len(s) + 1) - 1

LastWord(s) ==
  From(s, Greatest({k \in DOMAIN s : s[k] \in Blanks \cup {"\"", "{", "}", "\\"}}, 0) + 1)

Extends(t, s) == IsPrefix(s, t) /\ s # t
Rest(t, s) == From(t, Len(s) + 1)

\* Whether a command of the history may be suggested for the line.
Prefixed(h, s) == Extends(h, s)   \* mutant of Offered
Offered(h, s) == "LF" \notin Range(h) /\ Extends(h, s)

\* The newest line of the history that goes on from this one, else the first
\* name that goes on from its last word.
Suggestion(s) ==
  LET word == LastWord(s)
      newest == Greatest({k \in DOMAIN history : Offered(history[k], s)}, 0)
      first == Least({k \in DOMAIN Names : Extends(Names[k], word)}, 0)
  IN CASE s = <<>> -> <<>>
       [] s # <<>> /\ newest # 0 -> Rest(history[newest], s)
       [] s # <<>> /\ newest = 0 /\ word # <<>> /\ first # 0 ->
            Append(Rest(Names[first], word), " ")
       [] OTHER -> <<>>

updateGhostSuggestion(s) == ghostSuggestion' = Suggestion(s)

\* The argument before the cursor, without its quotes and escapes: what the
\* loop over the first k bytes has read, then over all of them.
Unquoted(arg, c) ==
  CASE arg.escaped -> [arg EXCEPT !.text = Append(@, c), !.escaped = FALSE]
    [] ~arg.escaped /\ c = "\\" -> [arg EXCEPT !.escaped = TRUE]
    [] ~arg.escaped /\ c = "\"" -> [arg EXCEPT !.quoted = ~@]
    [] ~arg.escaped /\ c = " " /\ ~arg.quoted -> [arg EXCEPT !.text = <<>>]
    [] OTHER -> [arg EXCEPT !.text = Append(@, c)]

Argument(s) ==
  LET read[k \in 0..Len(s)] ==
        IF k = 0 THEN [text |-> <<>>, quoted |-> FALSE, escaped |-> FALSE]
                 ELSE Unquoted(read[k - 1], s[k])
  IN read[Len(s)]

\* What would complete the argument, of the first k names, then of all of them.
Matches(s) ==
  LET word == Argument(s)
      end == IF word.quoted THEN <<"\"", " ">> ELSE <<" ">>
      found[k \in 0..Len(Names)] ==
        IF k = 0 THEN <<>>
        ELSE IF IsPrefix(word.text, Names[k])
               THEN Append(found[k - 1], Rest(Names[k], word.text) \o end)
               ELSE found[k - 1]
  IN found[Len(Names)]

-----------------------------------------------------------------------------
(* What a key changes, in parts. *)

StartsWithLF(s) == s # <<>> /\ s[1] = "LF"

\* The next byte of the read, unless it is the line feed of a newline done.
Pressed(c) ==
  /\ phase = "reading" /\ chunk # <<>> /\ c = chunk[1]
  /\ ~(skipNextInputLF /\ c = "LF")

Consume(n) ==
  /\ chunk' = From(chunk, n + 1)
  /\ skipNextInputLF' = FALSE
  /\ UNCHANGED <<input, unread, pendingInput>>

StillTab == UNCHANGED completion   \* mutant of NotTab
NotTab ==
  /\ lastWasTab' = FALSE
  /\ UNCHANGED <<autoCompleteMatches, autoCompleteIndex, lastAddedLen>>

\* A key that takes n bytes, is not Tab and does not end the line.
Edits(c, n) == Pressed(c) /\ Consume(n) /\ NotTab /\ UNCHANGED <<commandPrefix, main>>

Insert(text) == buffer' = SubSeq(buffer, 1, cursor) \o text \o From(buffer, cursor + 1)

Cut(from, to) ==
  /\ buffer' = SubSeq(buffer, 1, from) \o From(buffer, to + 1)
  /\ cursor' = from

Return(result) ==
  /\ command' = result /\ phase' = "returned"
  /\ buffer' = <<>> /\ cursor' = 0 /\ commandPrefix' = <<>>
  /\ UNCHANGED ran

-----------------------------------------------------------------------------
(* Reads. *)

Init ==
  /\ input \in Inputs /\ unread = input
  /\ chunk = <<>> /\ pendingInput = <<>> /\ skipNextInputLF = FALSE
  /\ buffer = <<>> /\ cursor = 0 /\ commandPrefix = <<>>
  /\ history \in Histories /\ historyIdx = Len(history)
  /\ ghostSuggestion = <<>>
  /\ lastWasTab = FALSE /\ autoCompleteMatches = <<>> /\ autoCompleteIndex = 0 /\ lastAddedLen = 0
  /\ command = <<>> /\ phase = "reading" /\ ran = <<>> /\ failed = FALSE

Idle == phase = "reading" /\ chunk = <<>>

ReadPending ==
  /\ Idle /\ pendingInput # <<>>
  /\ LET n == Min({BufSize, Len(pendingInput)})
     IN /\ chunk' = SubSeq(pendingInput, 1, n)
        /\ pendingInput' = From(pendingInput, n + 1)
  /\ UNCHANGED <<input, unread, skipNextInputLF, line, recall, ghostSuggestion, completion, main>>

Read ==
  /\ Idle /\ pendingInput = <<>>
  /\ \E n \in 1..Min({BufSize, Len(unread)}) :
       /\ chunk' = SubSeq(unread, 1, n)
       /\ unread' = From(unread, n + 1)
  /\ UNCHANGED <<input, pendingInput, skipNextInputLF, line, recall, ghostSuggestion, completion,
                 main>>

EndOfInput ==
  /\ Idle /\ pendingInput = <<>> /\ unread = <<>>
  /\ Return(Exit)
  /\ historyIdx' = Len(history)
  /\ UNCHANGED <<reads, history, ghostSuggestion, completion, failed>>

\* Any read may fail; in the model one does.
ReadFails ==
  /\ Idle /\ pendingInput = <<>> /\ ~failed
  /\ Return(<<>>)
  /\ historyIdx' = Len(history) /\ failed' = TRUE
  /\ UNCHANGED <<reads, history, ghostSuggestion, completion>>

SkipLF ==
  /\ phase = "reading" /\ skipNextInputLF /\ StartsWithLF(chunk)
  /\ Consume(1)
  /\ UNCHANGED <<line, recall, ghostSuggestion, completion, main>>

-----------------------------------------------------------------------------
(* Newlines and what else leaves the prompt. *)

Continues == cursor = Len(buffer) /\ cursor > 0 /\ Last(buffer) = "\\"

\* The line before a continued one loses its backslash.
JoinedWithMarker == Append(commandPrefix \o buffer, "LF")   \* mutant of Joined
Joined == Append(commandPrefix \o Front(buffer), "LF")

Continue ==
  /\ \E c \in Newlines : Pressed(c)
  /\ Continues
  /\ LET cr == chunk[1] = "CR"
         rest == Tail(chunk)
         pair == cr /\ StartsWithLF(rest)
         kept == cr /\ rest = <<>> /\ StartsWithLF(pendingInput)
     IN /\ chunk' = IF pair THEN Tail(rest) ELSE rest
        /\ pendingInput' = IF kept THEN Tail(pendingInput) ELSE pendingInput
        /\ skipNextInputLF' = (cr /\ rest = <<>> /\ pendingInput = <<>>)
  /\ commandPrefix' = Joined
  /\ buffer' = <<>> /\ cursor' = 0 /\ ghostSuggestion' = <<>>
  /\ NotTab
  /\ UNCHANGED <<input, unread, recall, main>>

\* The history gets a command once when it is given several times in a row.
Recorded(c) ==
  IF c = <<>> \/ (history # <<>> /\ Last(history) = c) THEN history ELSE Append(history, c)

\* The bytes after a newline or ^C are kept for the next prompt.
KeepNothing(rest) ==   \* mutant of Keep
  /\ chunk' = <<>> /\ pendingInput' = <<>>
  /\ UNCHANGED <<input, unread>>
Keep(rest) ==
  /\ chunk' = <<>> /\ pendingInput' = rest
  /\ UNCHANGED <<input, unread>>

Enter ==
  /\ \E c \in Newlines : Pressed(c)
  /\ ~Continues
  /\ LET cr == chunk[1] = "CR"
         rest == Tail(chunk) \o pendingInput
     IN /\ Keep(IF cr /\ StartsWithLF(rest) THEN Tail(rest) ELSE rest)
        /\ skipNextInputLF' = (cr /\ rest = <<>>)
  /\ Return(TrimSpace(commandPrefix \o buffer))
  /\ history' = Recorded(command')
  /\ historyIdx' = Len(history')
  /\ NotTab
  /\ UNCHANGED <<ghostSuggestion, failed>>

Interrupt ==
  /\ Pressed("^C")
  /\ Keep(Tail(chunk) \o pendingInput)
  /\ skipNextInputLF' = FALSE
  /\ Return(<<>>)
  /\ historyIdx' = Len(history)
  /\ NotTab
  /\ UNCHANGED <<history, ghostSuggestion, failed>>

EndOfFile ==
  /\ Pressed("^D")
  /\ Keep(pendingInput)
  /\ skipNextInputLF' = FALSE
  /\ Return(Exit)
  /\ historyIdx' = Len(history)
  /\ NotTab
  /\ UNCHANGED <<history, ghostSuggestion, failed>>

\* The main loop: "exit" ends the shell, a blank line is passed over.
Dispatch ==
  /\ phase = "returned"
  /\ phase' = IF command = Exit THEN "exited" ELSE "reading"
  /\ ran' = IF command \in {Exit, <<>>} THEN ran ELSE Append(ran, command)
  /\ UNCHANGED <<reads, line, recall, ghostSuggestion, completion, command, failed>>

-----------------------------------------------------------------------------
(* Keys of one byte. *)

ClosesBrace == (cursor < Len(buffer)) => (buffer[cursor + 1] # "}")

Type ==
  \E c \in Bytes :
    /\ Printable(c) /\ ~(c = "{" /\ ClosesBrace)
    /\ Edits(c, 1)
    /\ Insert(<<c>>) /\ cursor' = cursor + 1
    /\ updateGhostSuggestion(buffer')
    /\ UNCHANGED recall

\* An opening brace brings the closing one, pasted or typed: a pasted {a} is run
\* as {a}}.
OpenBrace ==
  /\ Edits("{", 1) /\ ClosesBrace
  /\ Insert(<<"{", "}">>) /\ cursor' = cursor + 1
  /\ UNCHANGED <<recall, ghostSuggestion>>

Ignore ==
  /\ Edits("other", 1)
  /\ UNCHANGED <<buffer, cursor, recall, ghostSuggestion>>

\* Backspace, and ^W, which removes a word.
Backspace ==
  \E c \in {"BS", "^W"} :
    /\ Edits(c, 1)
    /\ IF cursor = 0
         THEN UNCHANGED <<buffer, cursor, ghostSuggestion>>
         ELSE /\ Cut(IF c = "BS" THEN cursor - 1 ELSE findWordBoundaryLeft(buffer, cursor), cursor)
              /\ updateGhostSuggestion(buffer')
    /\ UNCHANGED recall

\* Tab again, which puts the next match in the place of the last one.
Again == lastWasTab /\ autoCompleteMatches # <<>>

\* Where the match goes: the last one is taken out first.
AfterLast == cursor   \* mutant of MatchStart
MatchStart == IF Again THEN cursor - lastAddedLen ELSE cursor

HandleAutocomplete ==
  /\ Pressed("TAB") /\ Consume(1)
  /\ Again => lastAddedLen <= cursor
  /\ LET at == MatchStart
         before == SubSeq(buffer, 1, at)
         matches == IF Again THEN autoCompleteMatches ELSE Matches(before)
         index == IF Again THEN (autoCompleteIndex + 1) % Len(matches) ELSE 0
         added == IF matches = <<>> THEN <<>> ELSE matches[index + 1]
     IN /\ buffer' = before \o added \o From(buffer, cursor + 1)
        /\ cursor' = at + Len(added)
        /\ autoCompleteMatches' = matches
        /\ autoCompleteIndex' = index
        /\ lastAddedLen' = Len(added)
  /\ lastWasTab' = TRUE
  /\ UNCHANGED <<commandPrefix, recall, ghostSuggestion, main>>

\* The slice of the buffer up to cursor - lastAddedLen is out of range.
Panic ==
  /\ Pressed("TAB") /\ Again /\ lastAddedLen > cursor
  /\ phase' = "exited"
  /\ UNCHANGED <<reads, line, recall, ghostSuggestion, completion, command, ran, failed>>

-----------------------------------------------------------------------------
(* Escape sequences.  One that a read cuts off is not recognised: the bytes *)
(* after the escape are then keys of their own.                             *)

\* What the bytes after the escape mean, and how many of them belong to it.
Means(name, n) == [name |-> name, takes |-> n]
At(r, k, set) == k <= Len(r) /\ r[k] \in set
WordMove(c) == CASE c = "C" -> "wordRight" [] c = "D" -> "wordLeft" [] OTHER -> "none"

\* The same of those that begin with "[" and have a second byte.
ControlSequence(r) ==
  LET ctrl == At(r, 3, {";"}) /\ At(r, 4, {"5"})
      long == Len(r) >= 7 /\ r[3] = "2" /\ r[4] = "7" /\ r[5] = ";"
  IN CASE r[2] = "A" -> Means("up", 2)
       [] r[2] = "B" -> Means("down", 2)
       [] r[2] = "D" -> IF ctrl /\ Len(r) >= 5 THEN Means("wordLeft", 5) ELSE Means("left", 2)
       [] r[2] = "C" -> Means("right", 2)
       [] r[2] = "5" /\ Len(r) >= 3 -> Means(WordMove(r[3]), 3)
       [] r[2] = "3" /\ ctrl /\ At(r, 5, {"~", "D", "d"}) -> Means("killRight", 5)
       [] r[2] = "3" /\ At(r, 3, {"~"}) -> Means("delete", 3)
       [] r[2] = "1" /\ long -> Means("killLeft", 7)
       [] r[2] = "1" /\ ctrl /\ Len(r) >= 5 -> Means(WordMove(r[5]), 5)
       [] OTHER -> Means("none", Least({k \in DOMAIN r : r[k] \in Letters \cup {"~"}}, 0))

Sequence(r) ==
  CASE At(r, 1, {"d", "D"}) -> Means("killRight", 1)
    [] At(r, 1, {"BS"}) -> Means("killLeft", 1)
    [] At(r, 1, {"["}) /\ Len(r) >= 2 -> ControlSequence(r)
    [] OTHER -> Means("none", 0)

Escape(names) ==
  /\ Edits("ESC", 1 + Sequence(Tail(chunk)).takes)
  /\ Sequence(Tail(chunk)).name \in names

EscapeNothing ==
  /\ Escape({"none"})
  /\ UNCHANGED <<buffer, cursor, recall, ghostSuggestion>>

Kill ==
  /\ \/ Escape({"killRight"}) /\ Cut(cursor, findWordBoundaryRight(buffer, cursor))
     \/ Escape({"killLeft"}) /\ Cut(findWordBoundaryLeft(buffer, cursor), cursor)
     \/ Escape({"delete"}) /\ Cut(cursor, Min({cursor + 1, Len(buffer)}))
  /\ UNCHANGED <<recall, ghostSuggestion>>

\* Move, without the right arrow at the end of the line.
Move ==
  /\ \/ Escape({"wordRight"}) /\ cursor' = findWordBoundaryRight(buffer, cursor)
     \/ Escape({"wordLeft"}) /\ cursor' = findWordBoundaryLeft(buffer, cursor)
     \/ Escape({"left"}) /\ cursor' = Max({cursor - 1, 0})
     \/ Escape({"right"}) /\ cursor < Len(buffer) /\ cursor' = cursor + 1
  /\ UNCHANGED <<buffer, recall, ghostSuggestion>>

AcceptGhost ==
  /\ Escape({"right"}) /\ cursor = Len(buffer)
  /\ buffer' = buffer \o ghostSuggestion
  /\ cursor' = Len(buffer')
  /\ ghostSuggestion' = <<>>
  /\ UNCHANGED recall

RecallInPlace(idx, text) ==   \* mutant of Recall
  /\ historyIdx' = idx
  /\ buffer' = text /\ cursor' = cursor
Recall(idx, text) ==
  /\ historyIdx' = idx
  /\ buffer' = text /\ cursor' = Len(text)

Up ==
  /\ Escape({"up"})
  /\ IF historyIdx > 0
       THEN Recall(historyIdx - 1, history[historyIdx])
       ELSE UNCHANGED <<historyIdx, buffer, cursor>>
  /\ UNCHANGED <<history, ghostSuggestion>>

Down ==
  /\ Escape({"down"})
  /\ CASE historyIdx < Len(history) - 1 -> Recall(historyIdx + 1, history[historyIdx + 2])
       [] historyIdx = Len(history) - 1 -> Recall(historyIdx + 1, <<>>)
       [] OTHER -> UNCHANGED <<historyIdx, buffer, cursor>>
  /\ UNCHANGED <<history, ghostSuggestion>>

-----------------------------------------------------------------------------

Exited == phase = "exited" /\ UNCHANGED vars

Next ==
  \/ ReadPending \/ Read \/ EndOfInput \/ ReadFails \/ SkipLF
  \/ Continue \/ Enter \/ Interrupt \/ EndOfFile \/ Dispatch
  \/ Type \/ OpenBrace \/ Ignore \/ Backspace \/ HandleAutocomplete \/ Panic
  \/ EscapeNothing \/ Kill \/ Move \/ AcceptGhost \/ Up \/ Down
  \/ Exited

Spec == Init /\ [][Next]_vars /\ WF_vars(Next)

-----------------------------------------------------------------------------
(* The shell without a terminal, for comparison: runNonInteractive. *)

EndLine(acc) ==
  LET text == IF acc.text # <<>> /\ Last(acc.text) = "CR" THEN Front(acc.text) ELSE acc.text
      continued == text # <<>> /\ Last(text) = "\\"
      joined == acc.joined \o (IF continued THEN Append(Front(text), " ") ELSE text)
      result == TrimSpace(joined)
  IN [ text |-> <<>>,
       joined |-> IF continued THEN joined ELSE <<>>,
       ended |-> acc.ended \/ (~continued /\ result = Exit),
       commands |-> IF acc.ended \/ continued \/ result \in {Exit, <<>>}
                      THEN acc.commands ELSE Append(acc.commands, result) ]

Nothing == [text |-> <<>>, joined |-> <<>>, ended |-> FALSE, commands |-> <<>>]
ScanByte(acc, c) == IF c = "LF" THEN EndLine(acc) ELSE [acc EXCEPT !.text = Append(@, c)]

\* What it has read after each number of bytes of an input.
BatchReads(s) ==
  LET read[k \in 0..Len(s)] == IF k = 0 THEN Nothing ELSE ScanByte(read[k - 1], s[k])
  IN read

\* The commands it runs of an input.
BatchCommands(s) ==
  LET scanned == BatchReads(s)[Len(s)]
  IN IF scanned.text = <<>> THEN scanned.commands ELSE EndLine(scanned).commands

-----------------------------------------------------------------------------
(* Properties. *)

\* Every variable has its type, and the indices are in range: the cursor in the
\* line, the place in the history, the match that Tab inserted.  What is kept
\* for the next prompt is less than one read.
TypeOK ==
  /\ {unread, chunk, pendingInput, buffer, commandPrefix, command, ghostSuggestion}
       \subseteq Seq(Bytes)
  /\ {skipNextInputLF, lastWasTab, failed} \subseteq BOOLEAN
  /\ phase \in {"reading", "returned", "exited"}
  /\ cursor \in 0..Len(buffer)
  /\ historyIdx \in 0..Len(history)
  /\ Len(chunk) + Len(pendingInput) <= BufSize
  /\ autoCompleteMatches # <<>> => autoCompleteIndex \in 0..(Len(autoCompleteMatches) - 1)

\* The bytes to come.
Ahead ==
  LET bytes == chunk \o pendingInput \o unread
  IN IF skipNextInputLF /\ StartsWithLF(bytes) THEN Tail(bytes) ELSE bytes

Lines == INSTANCE LineInput WITH
  ahead <- Ahead, done <- commandPrefix, current <- buffer, atEnd <- (cursor = Len(buffer)),
  Plain <- Plain

\* However the input is cut into reads, the prompt takes it for one stream of
\* lines: none is lost, repeated, joined or split, and all of it is read.
KeepsLines == Lines!LineSpec

Spaced(s) == [k \in DOMAIN s |-> IF s[k] = "LF" THEN " " ELSE s[k]]

\* Plain lines that are pasted are run as they are when they are piped into the
\* shell, up to how the parts of a continued line are joined.  (With braces they
\* are not: see OpenBrace.)
Pasteable ==
  /\ Range(input) \subseteq Plain \cup Newlines
  /\ \A k \in DOMAIN input : input[k] = "CR" => k < Len(input) /\ input[k + 1] = "LF"

PasteLikeBatch ==
  LET Complete == SubSeq(input, 1, Greatest({k \in DOMAIN input : input[k] = "LF"}, 0))
  IN phase = "exited" /\ ~failed /\ Pasteable
       => [k \in DOMAIN ran |-> Spaced(ran[k])] = BatchCommands(Complete)

\* Between two presses of Tab the text before the cursor is the match that the
\* first one inserted: every other key has made the code forget it.  After a
\* failed read that is not so, see Panic.
CompletionInRange ==
  ~failed /\ phase = "reading" /\ Again =>
    /\ lastAddedLen <= cursor
    /\ SubSeq(buffer, cursor - lastAddedLen + 1, cursor)
         = autoCompleteMatches[autoCompleteIndex + 1]

\* Pressing Tab again changes the text that Tab inserted and nothing else of the
\* line.
TabKeepsText ==
  [][ (~failed /\ Again /\ lastWasTab' /\ phase' = "reading") =>
        /\ SubSeq(buffer', 1, cursor' - lastAddedLen') = SubSeq(buffer, 1, cursor - lastAddedLen)
        /\ From(buffer', cursor' + 1) = From(buffer, cursor + 1) ]_vars

\* A suggestion never holds a newline, though the history does: the line would
\* be drawn over several rows and run as several.
GhostSingleLine == "LF" \notin Range(ghostSuggestion)

=============================================================================
