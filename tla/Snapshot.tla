------------------------------ MODULE Snapshot ------------------------------
(***************************************************************************)
(* A workspace or its newest scope that !snapshot-ws or !snapshot writes   *)
(* to a file and !wear reads back: Encode of workspace.go, and the lines   *)
(* it gives through Lex, processTokens and the commands they are.  Scope   *)
(* names are written as they are and all other texts are quoted by         *)
(* strconv.Quote, but Lex knows no escapes in strings.                     *)
(*                                                                         *)
(* A line may be more than one command then, or a command of other words:  *)
(* a brace group is run while the line is parsed, operators cut it, and    *)
(* variables and some paths are replaced.  Any command may be in a group,  *)
(* so the model ends at such a line.                                       *)
(***************************************************************************)
EXTENDS Lexer

CONSTANTS
  Saved,  \* the workspaces that are written
  Worn,   \* those in which the file is worn
  Dirs    \* the directories that exist, by their absolute names

VARIABLES
  saved,   \* the workspace that was written
  whole,   \* whether all of it was
  lines,   \* of the file, those not run yet
  before,  \* the workspace that wears the file, before
  after,   \* and now
  wearing  \* whether a line is being run

\* A scope is a record and its overrides a map; a workspace has a list of them.
\* A name with a line feed would be two lines of the file.
IsScope(s) ==
  /\ s \in [name : Seq(Bytes \ {"LF"}), overrides : [DOMAIN s.overrides -> Seq(Bytes)]]
  /\ DOMAIN s.overrides \in SUBSET Seq(Bytes) /\ IsFiniteSet(DOMAIN s.overrides)
IsWorkspace(ws) ==
  /\ ws \in [path : Seq(Bytes), label : Seq(Bytes), scopes : Seq(Range(ws.scopes))]
  /\ \A k \in DOMAIN ws.scopes : IsScope(ws.scopes[k])

ASSUME SnapshotAssumption == \A ws \in Saved \cup Worn : IsWorkspace(ws)

snapshotVars == <<saved, whole, lines, before, after, wearing>>

NoOverrides == [k \in {} |-> <<>>]

-----------------------------------------------------------------------------

\* The two bytes of an accented letter, C3 and one that Lex takes for a number
\* or a space.
Accents == {"BC", "A0"}
IsAccented(s, k) ==
  \/ s[k] = "C3" /\ k < Len(s) /\ s[k + 1] \in Accents
  \/ s[k] \in Accents /\ k > 1 /\ s[k - 1] = "C3"

\* A byte as strconv.Quote writes it: \n for a line feed, \x and two hexadecimal
\* digits for what is no letter.
Escaped(s, k) ==
  CASE s[k] \in {"\"", "\\"} -> <<"\\", s[k]>>
    [] s[k] = "LF" -> <<"\\", "b">>
    [] s[k] \in Accents \cup {"C3"} /\ ~IsAccented(s, k) -> <<"\\", "b", "b", "1">>
    [] OTHER -> <<s[k]>>

Unquoted(s) == s   \* mutant of Quote
Quoted(s) ==   \* its first bytes, for any number of them
  LET quoted[k \in 0..Len(s)] ==
        IF k = 0 THEN <<"\"">> ELSE quoted[k - 1] \o Escaped(s, k)
  IN quoted
Quote(s) == Append(Quoted(s)[Len(s)], "\"")

NewCommand(scope) == <<"!new", " ", "s", " ">> \o scope.name
SetCommand(scope, key) ==
  <<"!set", " ">> \o Quote(key) \o <<" ">> \o Quote(scope.overrides[key])

\* A scope, its keys in some order.
Encode(scope, keys) ==
  <<NewCommand(scope)>> \o [k \in DOMAIN keys |-> SetCommand(scope, keys[k])]

\* The last k scopes, for every k.
EncodeLast(scopes, orders) ==
  LET n == Len(scopes)
      last[k \in 0..n] ==
        IF k = 0 THEN <<>> ELSE Encode(scopes[n - k + 1], orders[n - k + 1]) \o last[k - 1]
  IN last

TextCommand(command, s) == <<command, " ">> \o Quote(s)
EncodeWorkspace(ws, orders) ==
  <<TextCommand("cd", ws.path), TextCommand("!label", ws.label)>>
    \o EncodeLast(ws.scopes, orders)[Len(ws.scopes)]

\* The keys of each scope, in the order in which its map gives them.
Orders(scopes) ==
  LET OrdersOf(k) == SetToSeqs(DOMAIN scopes[k].overrides)
  IN {o \in [DOMAIN scopes -> UNION {OrdersOf(k) : k \in DOMAIN scopes}] :
        \A k \in DOMAIN scopes : o[k] \in OrdersOf(k)}

SnapshotInit ==
  /\ saved \in Saved
  /\ \E orders \in Orders(saved.scopes) :
       \/ whole = TRUE /\ lines = EncodeWorkspace(saved, orders)
       \/ /\ whole = FALSE /\ saved.scopes # <<>>
          /\ lines = Encode(Last(saved.scopes), Last(orders))
  /\ before \in Worn /\ after = before
  /\ wearing = FALSE
  /\ LexStart(<<>>)

\* RunStringFromSource: the next line goes to Lex.
NextLine ==
  /\ lines # <<>> /\ ~wearing
  /\ wearing' = TRUE
  /\ text' = lines[1] /\ input' = lines[1]
  /\ rule' = "space"
  /\ inside' = FALSE /\ word' = <<>> /\ kind' = "Number" /\ tokens' = <<>>
  /\ start' = Len(lines[1])
  /\ UNCHANGED <<saved, whole, lines, before, after>>

LexLine == wearing /\ LexStep /\ UNCHANGED snapshotVars

Words == [k \in DOMAIN tokens |-> tokens[k].value]
Says(command, n) == Words[1] = <<command>> /\ Len(Words) >= n

Overriding(f, key, value) ==
  [k \in DOMAIN f \cup {key} |-> IF k = key THEN value ELSE f[k]]
SetLast(scopes, key, value) ==
  [scopes EXCEPT ![Len(scopes)].overrides = Overriding(@, key, value)]

\* The line is one command and processTokens takes its words as they are.
OneCommand ==
  \A k \in DOMAIN tokens :
    \/ tokens[k].type \in {"Identifier", "String", "Number", "Symbol"}
    \/ tokens[k].type = "Path" /\ {"~", "*"} \cap Range(tokens[k].value) = {}

\* What the command does.  A word short, !set without a scope and cd to no
\* directory are errors that do nothing.
RunLine ==
  /\ wearing /\ rule = "done" /\ OneCommand
  /\ wearing' = FALSE
  /\ lines' = Tail(lines)
  /\ after' =
       CASE Says("cd", 2) /\ Words[2] \in Dirs -> [after EXCEPT !.path = Words[2]]
         [] Says("!label", 2) -> [after EXCEPT !.label = Words[2]]
         [] Says("!new", 3) ->
              [after EXCEPT !.scopes = Append(@, [name |-> Words[3], overrides |-> NoOverrides])]
         [] Says("!set", 3) /\ after.scopes # <<>> ->
              [after EXCEPT !.scopes = SetLast(@, Words[2], Words[3])]
         [] OTHER -> after
  /\ UNCHANGED <<lexVars, saved, whole, before>>

SnapshotStep == NextLine \/ LexLine \/ RunLine
Stopped == wearing /\ rule = "done" /\ ~OneCommand
SnapshotDone == (lines = <<>> \/ Stopped) /\ UNCHANGED <<lexVars, snapshotVars>>
SnapshotNext == SnapshotStep \/ SnapshotDone
SnapshotSpec == SnapshotInit /\ [][SnapshotNext]_<<lexVars, snapshotVars>>

-----------------------------------------------------------------------------
(* Properties. *)

\* A name that is one word, and a text that strconv.Quote leaves alone.
OneWord(s) ==
  LET split == Split(s) IN ~split.odd /\ split.out = <<Token("Identifier", s)>>
Unescaped(s) == \A k \in DOMAIN s : Escaped(s, k) = <<s[k]>>

Plain(scope) ==
  /\ OneWord(scope.name)
  /\ \A k \in DOMAIN scope.overrides : Unescaped(k) /\ Unescaped(scope.overrides[k])

\* The scopes that were written.
Written == IF whole THEN saved.scopes ELSE <<Last(saved.scopes)>>

AllPlain ==
  /\ \A k \in DOMAIN Written : Plain(Written[k])
  /\ whole => Unescaped(saved.path) /\ Unescaped(saved.label)

\* Each line of a snapshot of plain names and texts is one command.  If each line
\* is one, wearing it gives back the directory if it is still there, the label
\* and, on top of the scopes there were, the scopes, if they are plain.  If each
\* line is one command and each name begins with a letter, the scopes below stay as
\* they were whatever the texts are.  (Without a name !new s fails, and the
\* overrides go to the newest scope that there was.)
SnapshotRestores ==
  /\ AllPlain => ~Stopped
  /\ lines = <<>> =>
       /\ (\A k \in DOMAIN Written : Plain(Written[k]))
            => after.scopes = before.scopes \o Written
       /\ (\A k \in DOMAIN Written : Written[k].name # <<>> /\ Written[k].name[1] \in Letters)
            => IsPrefix(before.scopes, after.scopes)
       /\ whole /\ Unescaped(saved.path) /\ saved.path \in Dirs => after.path = saved.path
       /\ whole /\ Unescaped(saved.label) => after.label = saved.label
       /\ ~whole => after.path = before.path /\ after.label = before.label

=============================================================================
