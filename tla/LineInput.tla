------------------------------ MODULE LineInput ------------------------------
(***************************************************************************)
(* What the prompt promises of the bytes that come from the terminal: they *)
(* are one stream, however it is cut into reads, and the stream is a       *)
(* sequence of lines.  A line that ends in a backslash goes on in the      *)
(* next; Ctrl+C gives up the line and nothing else; a byte that edits the  *)
(* line leaves the lines it goes on from alone.  What an editing byte does *)
(* to the line is not said here.  LineEditor implements this.              *)
(***************************************************************************)
EXTENDS Sequences, SequencesExt, Integers

CONSTANT Plain   \* bytes that stand for themselves wherever they come

VARIABLES
  ahead,    \* the bytes to come
  done,     \* the lines that the current one goes on from, joined
  current,  \* the line
  atEnd,    \* whether the cursor is at its end
  command,  \* what the prompt last returned
  phase,    \* "reading", "returned", or "exited"
  failed    \* whether a read has failed

lineVars == <<ahead, done, current, atEnd, command, phase, failed>>

Newlines == {"CR", "LF"}
Blanks == {" ", "LF"}
Exit == <<"e", "x", "i", "t">>

StartsIn(s, set) == s # <<>> /\ s[1] \in set
EndsIn(s, set) == s # <<>> /\ Last(s) \in set

\* A carriage return and the line feed after it are one newline.
AfterNewline(s) ==
  IF s[1] = "CR" /\ StartsIn(Tail(s), {"LF"}) THEN Tail(Tail(s)) ELSE Tail(s)

\* Without the blanks at either end (strings.TrimSpace).
Trim(s) ==
  LET text == {k \in DOMAIN s : s[k] \notin Blanks}
      from == CHOOSE k \in text : \A l \in text : k <= l
      to == CHOOSE k \in text : \A l \in text : k >= l
  IN IF text = {} THEN <<>> ELSE SubSeq(s, from, to)

Reading(set) == phase = "reading" /\ StartsIn(ahead, set)

Return(line) ==
  /\ command' = line
  /\ phase' = "returned"
  /\ done' = <<>> /\ current' = <<>> /\ atEnd' = TRUE

-----------------------------------------------------------------------------

LineInit ==
  /\ done = <<>> /\ current = <<>> /\ atEnd = TRUE
  /\ command = <<>> /\ phase = "reading" /\ failed = FALSE

Type ==
  /\ Reading(Plain) /\ atEnd
  /\ ahead' = Tail(ahead)
  /\ current' = Append(current, ahead[1])
  /\ UNCHANGED <<done, atEnd, command, phase, failed>>

Edit ==
  /\ phase = "reading" /\ ahead # <<>>
  /\ ~StartsIn(ahead, Newlines \cup {"^C", "^D"})
  /\ atEnd => ~StartsIn(ahead, Plain)
  /\ \E n \in 1..Len(ahead) :
       /\ n = 1 \/ ahead[1] = "ESC"
       /\ ahead' = SubSeq(ahead, n + 1, Len(ahead))
  /\ UNCHANGED <<done, command, phase, failed>>

Continue ==
  /\ Reading(Newlines) /\ atEnd /\ EndsIn(current, {"\\"})
  /\ done' = Append(done \o Front(current), "LF")
  /\ current' = <<>>
  /\ ahead' = AfterNewline(ahead)
  /\ UNCHANGED <<atEnd, command, phase, failed>>

Deliver ==
  /\ Reading(Newlines) /\ ~(atEnd /\ EndsIn(current, {"\\"}))
  /\ Return(Trim(done \o current))
  /\ ahead' = AfterNewline(ahead) /\ failed' = failed

Cancel ==
  /\ Reading({"^C"})
  /\ Return(<<>>)
  /\ ahead' = Tail(ahead) /\ failed' = failed

\* Ctrl+D, or the end of the input.  What was read with it is lost.
Quit ==
  /\ phase = "reading" /\ (ahead # <<>> => ahead[1] = "^D")
  /\ Return(Exit)
  /\ \E n \in 0..Len(ahead) : ahead' = SubSeq(ahead, n + 1, Len(ahead))
  /\ failed' = failed

\* A read fails: the line is given up and the prompt shown again, but no byte
\* that was to come is lost.
GiveUp ==
  /\ phase = "reading"
  /\ Return(<<>>)
  /\ ahead' = ahead /\ failed' = TRUE

\* All that can be said after that: the shell may also end.
Crash ==
  /\ failed /\ phase = "reading"
  /\ phase' = "exited"
  /\ UNCHANGED <<ahead, done, current, atEnd, command, failed>>

Run ==
  /\ phase = "returned"
  /\ phase' = IF command = Exit THEN "exited" ELSE "reading"
  /\ UNCHANGED <<ahead, done, current, atEnd, command, failed>>

LineNext ==
  Type \/ Edit \/ Continue \/ Deliver \/ Cancel \/ Quit \/ GiveUp \/ Run \/ Crash

LineSafety == LineInit /\ [][LineNext]_lineVars

\* The whole input is read, and every line of it returned.
LineSpec == LineSafety /\ <>(phase = "exited")

=============================================================================
