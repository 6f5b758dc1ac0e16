-------------------------------- MODULE Diff --------------------------------
(***************************************************************************)
(* PrintGitStyleDiff of protect_default.go: what the user is shown of a    *)
(* change of the configuration before the question whether to keep it.  A  *)
(* table of longest common subsequences is filled, a walk back through it  *)
(* gives the lines, and those far from any change are left out.            *)
(***************************************************************************)
EXTENDS Integers, Sequences, SequencesExt, FiniteSetsExt

CONSTANTS
  Line,    \* the lines of a file
  Changes  \* pairs of files; strings.Split gives each a line at least

ASSUME ChangesAssumption ==
  Changes \subseteq (Seq(Line) \ {<<>>}) \X (Seq(Line) \ {<<>>})

VARIABLES
  oldLines, newLines,
  dp,             \* the table, at <<i, j>> for the first i and the first j lines
  i, j,           \* the cell that is filled, then the place of the walk
  stage,          \* "fill", "walk", "show" or "shown"
  diff,           \* the lines with their kinds
  inSkippedBlock,
  at,             \* the line that comes next
  out             \* what is printed: places in diff, or Marker

diffVars == <<oldLines, newLines, dp, i, j, stage, diff, inSkippedBlock, at, out>>

Marker == 0   \* @@ ... @@
ContextRadius == 2
Kinds == {" ", "+", "-"}

M == Len(oldLines)
N == Len(newLines)

-----------------------------------------------------------------------------

DiffInit ==
  /\ \E c \in Changes : oldLines = c[1] /\ newLines = c[2]
  /\ dp = [c \in (0..M) \X (0..N) |-> 0]
  /\ i = 0 /\ j = 0
  /\ stage = "fill" /\ diff = <<>>
  /\ inSkippedBlock = FALSE /\ at = 1 /\ out = <<>>

CellOfLess ==   \* mutant of Cell
  CASE oldLines[i + 1] = newLines[j + 1] -> dp[<<i, j>>] + 1
    [] oldLines[i + 1] # newLines[j + 1] /\ dp[<<i + 1, j>>] <= dp[<<i, j + 1>>] -> dp[<<i + 1, j>>]
    [] OTHER -> dp[<<i, j + 1>>]
Cell ==
  CASE oldLines[i + 1] = newLines[j + 1] -> dp[<<i, j>>] + 1
    [] oldLines[i + 1] # newLines[j + 1] /\ dp[<<i + 1, j>>] >= dp[<<i, j + 1>>] -> dp[<<i + 1, j>>]
    [] OTHER -> dp[<<i, j + 1>>]

FillCell ==
  /\ stage = "fill" /\ i < M
  /\ dp' = [dp EXCEPT ![<<i + 1, j + 1>>] = Cell]
  /\ IF j + 1 < N THEN j' = j + 1 /\ i' = i ELSE j' = 0 /\ i' = i + 1
  /\ UNCHANGED <<oldLines, newLines, stage, diff, inSkippedBlock, at, out>>

StartWalk ==
  /\ stage = "fill" /\ i = M
  /\ stage' = "walk" /\ i' = M /\ j' = N
  /\ UNCHANGED <<oldLines, newLines, dp, diff, inSkippedBlock, at, out>>

-----------------------------------------------------------------------------
(* The walk, from the last lines to the first. *)

IsSame == i > 0 /\ j > 0 /\ oldLines[i] = newLines[j]
LeansAdded == dp[<<i, j - 1>>] > dp[<<i - 1, j>>]   \* mutant of PrefersAdded
PrefersAdded == dp[<<i, j - 1>>] >= dp[<<i - 1, j>>]
IsAdded == ~IsSame /\ j > 0 /\ (i > 0 => PrefersAdded)
PrefersRemoved == dp[<<i, j - 1>>] < dp[<<i - 1, j>>]
IsRemoved == ~IsSame /\ ~IsAdded /\ i > 0 /\ (j > 0 => PrefersRemoved)

Note(kind, text) == diff' = Append(diff, [kind |-> kind, text |-> text])

Walk ==
  /\ stage = "walk"
  /\ \/ IsSame /\ Note(" ", oldLines[i]) /\ i' = i - 1 /\ j' = j - 1
     \/ IsAdded /\ Note("+", newLines[j]) /\ i' = i /\ j' = j - 1
     \/ IsRemoved /\ Note("-", oldLines[i]) /\ i' = i - 1 /\ j' = j
  /\ UNCHANGED <<oldLines, newLines, dp, stage, inSkippedBlock, at, out>>

\* The lines were noted backwards.
Turn ==
  /\ stage = "walk" /\ i = 0 /\ j = 0
  /\ diff' = Reverse(diff)
  /\ stage' = "show"
  /\ UNCHANGED <<oldLines, newLines, dp, i, j, inSkippedBlock, at, out>>

-----------------------------------------------------------------------------

ShownBefore(k) ==   \* mutant of Shown
  \E c \in DOMAIN diff : diff[c].kind # " " /\ c \in k..(k + ContextRadius)
Shown(k) == \E c \in DOMAIN diff : diff[c].kind # " " /\ c \in (k - ContextRadius)..(k + ContextRadius)

OneMore == at <= Len(diff) + 1   \* mutant of MoreLines
MoreLines == at <= Len(diff)

ShowLine ==
  /\ stage = "show" /\ MoreLines
  /\ out' = CASE Shown(at) -> Append(out, at)
              [] ~Shown(at) /\ ~inSkippedBlock -> Append(out, Marker)
              [] OTHER -> out
  /\ inSkippedBlock' = ~Shown(at)
  /\ at' = at + 1
  /\ UNCHANGED <<oldLines, newLines, dp, i, j, stage, diff>>

EndShow ==
  /\ stage = "show" /\ ~MoreLines
  /\ stage' = "shown"
  /\ UNCHANGED <<oldLines, newLines, dp, i, j, diff, inSkippedBlock, at, out>>

DiffStep == FillCell \/ StartWalk \/ Walk \/ Turn \/ ShowLine \/ EndShow
DiffDone == stage = "shown" /\ UNCHANGED diffVars
DiffNext == DiffStep \/ DiffDone
DiffSpec == DiffInit /\ [][DiffNext]_diffVars /\ WF_diffVars(DiffStep)

-----------------------------------------------------------------------------
(* Properties. *)

\* Every variable has its type; no index leaves the table or the files.
DiffTypeOK ==
  /\ oldLines \in Seq(Line) \ {<<>>} /\ newLines \in Seq(Line) \ {<<>>}
  /\ dp \in [(0..M) \X (0..N) -> Nat]
  /\ i \in 0..M /\ j \in 0..N
  /\ stage = "fill" => j < N
  /\ stage \in {"fill", "walk", "show", "shown"}
  /\ diff \in Seq([kind : Kinds, text : Line])
  /\ inSkippedBlock \in BOOLEAN
  /\ at \in 1..(Len(diff) + 1)
  /\ out \in Seq(Nat)

\* The walk is never stuck before the first lines: the two comparisons of the
\* table leave no case out.
WalkGoesOn == stage = "walk" => (i = 0 /\ j = 0) \/ IsSame \/ IsAdded \/ IsRemoved

\* The user is shown the difference in the end.
DiffEnds == <>(stage = "shown")

\* The lines of these kinds, in their order.
LinesOf(kinds) ==
  LET upto[k \in 0..Len(diff)] ==
        IF k = 0 THEN <<>>
        ELSE IF diff[k].kind \in kinds THEN Append(upto[k - 1], diff[k].text)
        ELSE upto[k - 1]
  IN upto[Len(diff)]

\* Some lines of the old file and the places in the new one where they come in
\* the same order.
IsCommon(f) ==
  \A k \in DOMAIN f :
    oldLines[k] = newLines[f[k]] /\ \A l \in DOMAIN f : k < l => f[k] < f[l]

\* The lines that are not added are the old file, those that are not removed the
\* new one, each in order, and no diff of the two keeps more lines.
DiffIsMinimal ==
  stage = "shown" =>
    /\ LinesOf({" ", "-"}) = oldLines
    /\ LinesOf({" ", "+"}) = newLines
    /\ \A places \in SUBSET DOMAIN oldLines :
         Cardinality(places) > Len(LinesOf({" "}))
           => \A f \in [places -> DOMAIN newLines] : ~IsCommon(f)

\* No change is left out, nor the two lines around it, and where something is
\* left out there is one mark.
ChangesAreShown ==
  stage = "shown" =>
    /\ \A k \in DOMAIN diff : diff[k].kind # " " =>
         {c \in DOMAIN diff : c \in (k - ContextRadius)..(k + ContextRadius)} \subseteq Range(out)
    /\ \A k \in 1..(Len(out) - 1) :
         out[k] # Marker /\ out[k + 1] # Marker => out[k + 1] = out[k] + 1
    /\ \A k \in DOMAIN out : out[k] = Marker =>
         LET before == IF k = 1 THEN 0 ELSE out[k - 1]
             after == IF k = Len(out) THEN Len(diff) + 1 ELSE out[k + 1]
         IN after > before + 1

=============================================================================
