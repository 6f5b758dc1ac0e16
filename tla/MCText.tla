------------------------------- MODULE MCText -------------------------------
(***************************************************************************)
(* Small instances of Lexer, Snapshot and Diff, one of them in each        *)
(* behaviour: the other two have nothing to do.                            *)
(***************************************************************************)
EXTENDS Snapshot, Diff

CONSTANT Length   \* of the lines that Lex is given

VARIABLE mode

allVars == <<lexVars, snapshotVars, diffVars, mode>>

UpTo(set, n) == UNION {[1..k -> set] : k \in 0..n}

\* Words, operators, escapes and strings; and everything, in shorter lines.
WordTexts == UpTo({"a", " ", "|", ">", "\\", "\""}, Length)
AllTexts == WordTexts \cup UpTo({"a", "1", "/", "$", "{", "}", "#", ";", "=", "*", "BC"}, 3)
              \cup {<<"#", "#">> \o s : s \in UpTo({"a", "#"}, 4)}
\* File names with an accented letter, which is two bytes.
Accented == {FlattenSeq(s) : s \in UpTo({<<"a">>, <<"/">>, <<"C3", "BC">>}, 3)}

\* Names and texts with quotes, escapes, braces, operators and accented letters.
MCNames == UpTo({"a", "/", "1", " ", "\\"}, 2) \cup UpTo({"a", "{", "|", "~"}, 2)
MCValues == UpTo({"a", " ", "\"", "\\"}, 2) \cup UpTo({"\"", "|", "$", "{", "#", "~"}, 2)
              \cup UpTo({"C3", "BC", "A0", "LF"}, 2)
MCDirs == {<<"/">>, <<"/", "a", " ", "b">>, <<"/", "\"">>}
ScopeOf(name, value) == [name |-> name, overrides |-> <<"a">> :> value]
TwoKeys == [name |-> <<"a">>, overrides |-> <<"a">> :> <<"$">> @@ <<"b">> :> <<>>]
MCSaved ==
  { [path |-> <<"/">>, label |-> v, scopes |-> <<ScopeOf(<<"a">>, v)>>] : v \in MCValues }
  \cup { [path |-> <<"/">>, label |-> <<>>, scopes |-> <<ScopeOf(n, <<"b">>)>>] : n \in MCNames }
  \cup { [path |-> d, label |-> <<"b">>, scopes |-> s] : d \in MCDirs,
           s \in {<<>>, <<TwoKeys>>, <<TwoKeys, ScopeOf(<<"b">>, <<"a">>)>>,
                 <<ScopeOf(<<"a">>, <<"\"">>), TwoKeys>>} }
MCWorn ==
  { [path |-> <<"/", "a", " ", "b">>, label |-> <<"a">>, scopes |-> s] :
      s \in {<<>>, <<ScopeOf(<<"b">>, <<"a">>)>>} }

MCLine == {"x", "y", "1", "2", "3", "4", "5", "6"}
Six == <<"1", "2", "3", "4", "5", "6">>
ShortFiles == UpTo({"x", "y"}, 4) \ {<<>>}
MCChanges ==
  (ShortFiles \X ShortFiles)
  \cup {<<Six, [Six EXCEPT ![k] = "x"]>> : k \in DOMAIN Six}
  \cup {<<Six, Six>>, <<Six, <<"x">> \o Six \o <<"y">>>>, <<Tail(Six) \o <<"x">>, Six>>}

-----------------------------------------------------------------------------

Nothing == [path |-> <<"/">>, label |-> <<>>, scopes |-> <<>>]
NoSnapshot ==
  /\ saved = Nothing /\ whole = TRUE /\ lines = <<>>
  /\ before = Nothing /\ after = Nothing /\ wearing = FALSE

NoDiff ==
  /\ oldLines = <<"x">> /\ newLines = <<"x">>
  /\ dp = [c \in (0..1) \X (0..1) |-> 0]
  /\ i = 0 /\ j = 0
  /\ stage = "shown" /\ diff = <<[kind |-> " ", text |-> "x"]>>
  /\ inSkippedBlock = FALSE /\ at = 1 /\ out = <<>>

TextInit ==
  \/ mode = "lex" /\ LexInit /\ NoSnapshot /\ NoDiff
  \/ mode = "snapshot" /\ SnapshotInit /\ NoDiff
  \/ mode = "diff" /\ DiffInit /\ LexStart(<<>>) /\ NoSnapshot

TextStep ==
  \/ mode = "lex" /\ LexStep /\ UNCHANGED <<snapshotVars, diffVars, mode>>
  \/ mode = "snapshot" /\ SnapshotStep /\ UNCHANGED <<diffVars, mode>>
  \/ mode = "diff" /\ DiffStep /\ UNCHANGED <<lexVars, snapshotVars, mode>>

TextDone == rule = "done" /\ (lines = <<>> \/ Stopped) /\ stage = "shown" /\ UNCHANGED allVars

TextNext == TextStep \/ TextDone
TextSpec == TextInit /\ [][TextNext]_allVars /\ WF_allVars(TextStep)
=============================================================================
