----------------------------- MODULE Diff_proofs -----------------------------
(***************************************************************************)
(* Theorems about Diff, for any two files: its type invariant, that the    *)
(* walk always has a step to take, that what is printed leaves no change   *)
(* out, and that no other difference of the files keeps more lines.        *)
(***************************************************************************)
EXTENDS Diff, ListLemmas, FiniteSetTheorems

Entries == [kind : Kinds, text : Line]

\* Reversing a sequence keeps its length and its members.
LEMMA ReverseTyped ==
  ASSUME NEW S, NEW s \in Seq(S)
  PROVE  Reverse(s) \in Seq(S) /\ Len(Reverse(s)) = Len(s)
BY DEF Reverse

\* The table's cells are numbers.
LEMMA CellTyped ==
  ASSUME DiffTypeOK, i < M, j < N
  PROVE  Cell \in Nat /\ <<i + 1, j + 1>> \in (0..M) \X (0..N)
<1>1. M \in Nat /\ N \in Nat /\ i \in Nat /\ j \in Nat
  BY DEF DiffTypeOK, M, N
<1>2. /\ <<i, j>> \in (0..M) \X (0..N) /\ <<i + 1, j>> \in (0..M) \X (0..N)
      /\ <<i, j + 1>> \in (0..M) \X (0..N) /\ <<i + 1, j + 1>> \in (0..M) \X (0..N)
  BY <1>1
<1>3. dp[<<i, j>>] \in Nat /\ dp[<<i + 1, j>>] \in Nat /\ dp[<<i, j + 1>>] \in Nat
  BY <1>2 DEF DiffTypeOK
<1> QED
  BY <1>2, <1>3 DEF Cell

-----------------------------------------------------------------------------
(* Types. *)

LEMMA Sizes ==
  ASSUME DiffTypeOK
  PROVE  /\ oldLines \in Seq(Line) /\ newLines \in Seq(Line) /\ diff \in Seq(Entries)
         /\ M \in Nat \ {0} /\ N \in Nat \ {0} /\ Len(diff) \in Nat
         /\ i \in 0..M /\ j \in 0..N /\ at \in 1..(Len(diff) + 1)
         /\ (0 < i => oldLines[i] \in Line) /\ (0 < j => newLines[j] \in Line)
<1>1. /\ oldLines \in Seq(Line) \ {<<>>} /\ newLines \in Seq(Line) \ {<<>>}
      /\ diff \in Seq(Entries)
  BY DEF DiffTypeOK, Entries
<1>2. i \in 0..M /\ j \in 0..N /\ at \in 1..(Len(diff) + 1)
  BY DEF DiffTypeOK
<1>3. M \in Nat \ {0} /\ N \in Nat \ {0} /\ Len(diff) \in Nat
  BY <1>1 DEF M, N
<1>4. (0 < i => oldLines[i] \in Line) /\ (0 < j => newLines[j] \in Line)
  BY <1>1, <1>2, <1>3 DEF M, N
<1> QED
  BY <1>1, <1>2, <1>3, <1>4

LEMMA InitTyped == DiffInit => DiffTypeOK
<1> SUFFICES ASSUME DiffInit PROVE DiffTypeOK
  OBVIOUS
<1>1. oldLines \in Seq(Line) \ {<<>>} /\ newLines \in Seq(Line) \ {<<>>}
  <2>1. PICK c \in Changes : oldLines = c[1] /\ newLines = c[2]
    BY DEF DiffInit
  <2> QED
    BY <2>1, ChangesAssumption
<1>2. M \in Nat \ {0} /\ N \in Nat \ {0}
  BY <1>1 DEF M, N
<1>3. dp \in [(0..M) \X (0..N) -> Nat]
  BY DEF DiffInit
<1>4. diff = <<>> /\ out = <<>> /\ at = 1 /\ i = 0 /\ j = 0
  BY DEF DiffInit
<1>5. diff \in Seq([kind : Kinds, text : Line]) /\ out \in Seq(Nat) /\ at \in 1..(Len(diff) + 1)
  BY <1>4
<1>6. i \in 0..M /\ j \in 0..N /\ j < N
  BY <1>2, <1>4
<1>7. stage \in {"fill", "walk", "show", "shown"} /\ inSkippedBlock \in BOOLEAN
  BY DEF DiffInit
<1> QED
  BY <1>1, <1>3, <1>5, <1>6, <1>7 DEF DiffTypeOK

LEMMA FillTyped == ASSUME DiffTypeOK, FillCell PROVE DiffTypeOK'
<1>1. M' = M /\ N' = N /\ i < M /\ j < N
  BY DEF DiffTypeOK, FillCell, M, N
<1>2. dp' \in [(0..M) \X (0..N) -> Nat]
  <2>1. dp' = [dp EXCEPT ![<<i + 1, j + 1>>] = Cell] /\ dp \in [(0..M) \X (0..N) -> Nat]
    BY DEF FillCell, DiffTypeOK
  <2>2. Cell \in Nat
    BY <1>1, CellTyped
  <2> QED
    BY <2>1, <2>2
<1>3. i' \in 0..M /\ j' \in 0..N /\ j' < N
  <2>1. IF j + 1 < N THEN j' = j + 1 /\ i' = i ELSE j' = 0 /\ i' = i + 1
    BY DEF FillCell
  <2> QED
    BY <1>1, <2>1, Sizes
<1>4. UNCHANGED <<oldLines, newLines, stage, diff, inSkippedBlock, at, out>>
  BY DEF FillCell
<1> QED
  BY <1>1, <1>2, <1>3, <1>4 DEF DiffTypeOK

LEMMA WalkTyped == ASSUME DiffTypeOK, Walk PROVE DiffTypeOK'
<1>1. UNCHANGED <<oldLines, newLines, dp, stage, inSkippedBlock, at, out>> /\ M' = M /\ N' = N
  BY DEF Walk, M, N
<1>2. /\ i' \in 0..M /\ j' \in 0..N
      /\ \E e \in Entries : diff' = Append(diff, e)
  <2>1. CASE IsSame /\ Note(" ", oldLines[i]) /\ i' = i - 1 /\ j' = j - 1
    <3>1. 0 < i /\ 0 < j
      BY <2>1, Sizes DEF IsSame
    <3>2. [kind |-> " ", text |-> oldLines[i]] \in Entries
      BY <3>1, Sizes DEF Entries, Kinds
    <3>3. i' \in 0..M /\ j' \in 0..N
      <4>1. i \in 1..M /\ j \in 1..N /\ M \in Nat /\ N \in Nat
        BY <3>1, Sizes
      <4>2. i' = i - 1 /\ j' = j - 1
        BY <2>1
      <4> QED
        BY <4>1, <4>2
    <3> QED
      BY <2>1, <3>2, <3>3 DEF Note
  <2>2. CASE IsAdded /\ Note("+", newLines[j]) /\ i' = i /\ j' = j - 1
    <3>1. 0 < j
      BY <2>2, Sizes DEF IsAdded
    <3>2. [kind |-> "+", text |-> newLines[j]] \in Entries
      BY <3>1, Sizes DEF Entries, Kinds
    <3> QED
      BY <2>2, <3>1, <3>2, Sizes DEF Note
  <2>3. CASE IsRemoved /\ Note("-", oldLines[i]) /\ i' = i - 1 /\ j' = j
    <3>1. 0 < i
      BY <2>3, Sizes DEF IsRemoved
    <3>2. [kind |-> "-", text |-> oldLines[i]] \in Entries
      BY <3>1, Sizes DEF Entries, Kinds
    <3> QED
      BY <2>3, <3>1, <3>2, Sizes DEF Note
  <2> QED
    BY <2>1, <2>2, <2>3 DEF Walk
<1>3. diff' \in Seq(Entries) /\ at \in 1..(Len(diff') + 1)
  BY <1>2, Sizes
<1>4. stage' # "fill"
  BY DEF Walk
<1> QED
  BY <1>1, <1>2, <1>3, <1>4 DEF DiffTypeOK, Entries

LEMMA TurnTyped == ASSUME DiffTypeOK, Turn PROVE DiffTypeOK'
<1>1. /\ UNCHANGED <<oldLines, newLines, dp, i, j, inSkippedBlock, at, out>>
      /\ M' = M /\ N' = N /\ stage' = "show"
  BY DEF Turn, M, N
<1>2. diff' \in Seq(Entries) /\ Len(diff') = Len(diff)
  BY Sizes, ReverseTyped DEF Turn
<1> QED
  BY <1>1, <1>2 DEF DiffTypeOK, Entries

LEMMA ShowTyped == ASSUME DiffTypeOK, ShowLine PROVE DiffTypeOK'
<1>1. UNCHANGED <<oldLines, newLines, dp, i, j, stage, diff>> /\ M' = M /\ N' = N
  BY DEF ShowLine, M, N
<1>2. at' \in 1..(Len(diff) + 1)
  BY Sizes DEF ShowLine, MoreLines
<1>3. out' \in Seq(Nat)
  <2>1. at \in Nat /\ Marker \in Nat /\ out \in Seq(Nat)
    BY Sizes DEF DiffTypeOK, Marker
  <2>2. out' \in {Append(out, at), Append(out, Marker), out}
    BY DEF ShowLine
  <2>3. Append(out, at) \in Seq(Nat) /\ Append(out, Marker) \in Seq(Nat)
    BY <2>1
  <2> QED
    BY <2>1, <2>2, <2>3
<1>4. inSkippedBlock' \in BOOLEAN
  BY DEF ShowLine
<1> QED
  BY <1>1, <1>2, <1>3, <1>4 DEF DiffTypeOK

LEMMA StepTyped == ASSUME DiffTypeOK, [DiffNext]_diffVars PROVE DiffTypeOK'
<1>1. CASE UNCHANGED diffVars
  BY <1>1 DEF DiffTypeOK, diffVars, M, N
<1>2. CASE StartWalk
  <2>1. /\ UNCHANGED <<oldLines, newLines, dp, diff, inSkippedBlock, at, out>>
        /\ M' = M /\ N' = N /\ stage' = "walk" /\ i' = M /\ j' = N
    BY <1>2 DEF StartWalk, M, N
  <2>2. i' \in 0..M /\ j' \in 0..N
    BY <2>1, Sizes
  <2> QED
    BY <2>1, <2>2 DEF DiffTypeOK
<1>3. CASE EndShow
  BY <1>3 DEF EndShow, DiffTypeOK, M, N
<1> QED
  BY <1>1, <1>2, <1>3, FillTyped, WalkTyped, TurnTyped, ShowTyped
     DEF DiffNext, DiffStep, DiffDone

(***************************************************************************)
(* PrintGitStyleDiff never takes an index outside of the table or of the   *)
(* files, whatever the two files are.                                      *)
(***************************************************************************)
THEOREM DiffTypeCorrect == DiffSpec => []DiffTypeOK
BY InitTyped, StepTyped, PTL DEF DiffSpec

(***************************************************************************)
(* The walk back through the table has a step to take until it reaches the *)
(* beginning of both files: the comparisons leave no case out.             *)
(***************************************************************************)
THEOREM WalkNeverStuck == DiffSpec => []WalkGoesOn
<1>1. DiffTypeOK => WalkGoesOn
  <2> SUFFICES ASSUME DiffTypeOK, stage = "walk", ~(i = 0 /\ j = 0), ~IsSame, ~IsAdded
               PROVE  IsRemoved
    BY DEF WalkGoesOn
  <2>1. M \in Nat /\ N \in Nat /\ i \in 0..M /\ j \in 0..N
    BY Sizes
  <2>2. i > 0
    BY <2>1 DEF IsAdded
  <2>3. j > 0 => dp[<<i, j - 1>>] \in Nat /\ dp[<<i - 1, j>>] \in Nat
    <3>1. j > 0 => <<i, j - 1>> \in (0..M) \X (0..N) /\ <<i - 1, j>> \in (0..M) \X (0..N)
      BY <2>1, <2>2
    <3> QED
      BY <3>1 DEF DiffTypeOK
  <2>4. j > 0 => PrefersRemoved
    BY <2>2, <2>3 DEF IsAdded, PrefersAdded, PrefersRemoved
  <2> QED
    BY <2>2, <2>4 DEF IsRemoved
<1> QED
  BY <1>1, DiffTypeCorrect, PTL

-----------------------------------------------------------------------------
(***************************************************************************)
(* What is printed.  The inductive invariant: every line passed that is    *)
(* near a change is listed, neighbours in the list are neighbours in the   *)
(* diff, a mark stands where lines were passed over, and the end of the    *)
(* list tells what the last line passed was.                               *)
(***************************************************************************)
Quiet == stage \in {"fill", "walk"} => at = 1
Ended == stage = "shown" => at = Len(diff) + 1
Listed == \A k \in 1..(at - 1) : Shown(k) => \E q \in DOMAIN out : out[q] = k
Latest ==
  /\ at = 1 => out = <<>> /\ ~inSkippedBlock
  /\ at > 1 => out # <<>> /\ out[Len(out)] = (IF inSkippedBlock THEN Marker ELSE at - 1)
Runs ==
  \A k \in 1..(Len(out) - 1) :
    out[k] # Marker /\ out[k + 1] # Marker => out[k + 1] = out[k] + 1
Gap(s, next, k) ==
  LET before == IF k = 1 THEN 0 ELSE s[k - 1]
      after == IF k = Len(s) THEN next ELSE s[k + 1]
  IN after > before + 1
Gaps == \A k \in DOMAIN out : out[k] = Marker => Gap(out, at, k)

ShowInv == DiffTypeOK /\ Quiet /\ Ended /\ Listed /\ Latest /\ Runs /\ Gaps

\* Nothing is listed before the first line is passed.
LEMMA NothingListed ==
  ASSUME at = 1, out = <<>>, ~inSkippedBlock
  PROVE  Listed /\ Latest /\ Runs /\ Gaps
BY DEF Listed, Latest, Runs, Gaps

\* A line is appended to the list.
LEMMA Appended ==
  ASSUME NEW s \in Seq(Nat), NEW x \in Nat
  PROVE  /\ Append(s, x) \in Seq(Nat) /\ Len(Append(s, x)) = Len(s) + 1
         /\ Append(s, x)[Len(s) + 1] = x
         /\ \A k \in 1..Len(s) : Append(s, x)[k] = s[k]
         /\ Len(s) \in Nat /\ DOMAIN s = 1..Len(s) /\ DOMAIN Append(s, x) = 1..(Len(s) + 1)
OBVIOUS

\* What a mark says of its neighbours stays true when a line is appended.
LEMMA GapKept ==
  ASSUME NEW s \in Seq(Nat), NEW x \in Nat, NEW next \in Nat, NEW later,
         NEW k \in 1..Len(s), k = Len(s) => next = x, Gap(s, next, k)
  PROVE  Gap(Append(s, x), later, k)
<1> DEFINE t == Append(s, x)
<1>1. /\ Len(t) = Len(s) + 1 /\ Len(s) \in Nat
      /\ \A q \in 1..Len(s) : t[q] = s[q]
  BY Appended
<1>2. k # Len(t) /\ (k # 1 => t[k - 1] = s[k - 1])
  BY <1>1
<1>3. t[k + 1] = (IF k = Len(s) THEN next ELSE s[k + 1])
  <2>1. CASE k = Len(s)
    BY <2>1, Appended
  <2>2. CASE k # Len(s)
    <3>1. k + 1 \in 1..Len(s)
      BY <1>1, <2>2
    <3> QED
      BY <1>1, <2>2, <3>1
  <2> QED
    BY <2>1, <2>2
<1> QED
  BY <1>2, <1>3 DEF Gap

\* What has to be shown when a line is passed.
LEMMA ListedAfter ==
  ASSUME at \in Nat, at' = at + 1, diff' = diff,
         \A k \in 1..at : Shown(k) => \E q \in DOMAIN out' : out'[q] = k
  PROVE  Listed'
<1>1. 1..(at' - 1) = 1..at
  OBVIOUS
<1>2. \A k : Shown(k)' <=> Shown(k)
  BY DEF Shown
<1> QED
  BY <1>1, <1>2 DEF Listed

\* The line that comes next is near a change.
LEMMA ListLine ==
  ASSUME ShowInv, ShowLine, Shown(at)
  PROVE  Listed' /\ Latest' /\ Runs' /\ Gaps'
<1>1. out' = Append(out, at) /\ at' = at + 1 /\ ~inSkippedBlock' /\ diff' = diff
  BY DEF ShowLine
<1>2. out \in Seq(Nat) /\ at \in Nat \ {0}
  BY Sizes DEF ShowInv, DiffTypeOK
<1>3. /\ Len(out') = Len(out) + 1 /\ out'[Len(out) + 1] = at /\ Len(out) \in Nat
      /\ \A k \in 1..Len(out) : out'[k] = out[k]
      /\ DOMAIN out = 1..Len(out) /\ DOMAIN out' = 1..(Len(out) + 1) /\ out' # <<>>
  BY <1>1, <1>2, Appended
<1>4. \A k \in 1..Len(out) : out[k] \in Nat
  BY <1>2
<1>5. Listed'
  <2> SUFFICES ASSUME NEW k \in 1..at, Shown(k)
               PROVE  \E q \in DOMAIN out' : out'[q] = k
    BY <1>1, <1>2, ListedAfter
  <2>1. CASE k = at
    BY <1>3, <2>1
  <2>2. CASE k # at
    <3>1. k \in 1..(at - 1)
      BY <1>2, <2>2
    <3>2. PICK q \in DOMAIN out : out[q] = k
      BY <3>1 DEF ShowInv, Listed
    <3> QED
      BY <1>3, <3>2
  <2> QED
    BY <2>1, <2>2
<1>6. Latest'
  BY <1>1, <1>2, <1>3 DEF Latest
<1>7. Len(out) > 0 => out[Len(out)] = Marker \/ out[Len(out)] = at - 1
  BY <1>2 DEF ShowInv, Latest
<1>8. Runs'
  <2> SUFFICES ASSUME NEW k \in 1..Len(out), out'[k] # Marker, out'[k + 1] # Marker
               PROVE  out'[k + 1] = out'[k] + 1
    BY <1>3 DEF Runs
  <2>1. CASE k = Len(out)
    <3>1. out'[k] = out[k] /\ out'[k + 1] = at /\ Len(out) > 0
      BY <1>3, <2>1
    <3> QED
      BY <1>2, <1>7, <2>1, <3>1
  <2>2. CASE k # Len(out)
    <3>1. k \in 1..(Len(out) - 1) /\ k + 1 \in 1..Len(out)
      <4>1. Len(out) \in Nat
        BY <1>2
      <4> QED
        BY <2>2, <4>1
    <3>2. out'[k] = out[k] /\ out'[k + 1] = out[k + 1]
      BY <1>3, <3>1
    <3> QED
      BY <3>1, <3>2 DEF ShowInv, Runs
  <2> QED
    BY <2>1, <2>2
<1>9. Gaps'
  <2> SUFFICES ASSUME NEW k \in 1..(Len(out) + 1), out'[k] = Marker
               PROVE  Gap(out', at', k)
    BY <1>3 DEF Gaps
  <2>1. k \in 1..Len(out) /\ out[k] = Marker
    BY <1>2, <1>3 DEF Marker
  <2>2. Gap(out, at, k)
    BY <1>3, <2>1 DEF ShowInv, Gaps
  <2> QED
    BY <1>1, <1>2, <2>1, <2>2, GapKept
<1> QED
  BY <1>5, <1>6, <1>8, <1>9

\* The line that comes next is the first of those left out.
LEMMA ListMarker ==
  ASSUME ShowInv, ShowLine, ~Shown(at), ~inSkippedBlock
  PROVE  Listed' /\ Latest' /\ Runs' /\ Gaps'
<1>1. out' = Append(out, Marker) /\ at' = at + 1 /\ inSkippedBlock' /\ diff' = diff
  BY DEF ShowLine
<1>2. out \in Seq(Nat) /\ at \in Nat \ {0} /\ Marker \in Nat
  BY Sizes DEF ShowInv, DiffTypeOK, Marker
<1>3. /\ Len(out') = Len(out) + 1 /\ out'[Len(out) + 1] = Marker /\ Len(out) \in Nat
      /\ \A k \in 1..Len(out) : out'[k] = out[k]
      /\ DOMAIN out = 1..Len(out) /\ DOMAIN out' = 1..(Len(out) + 1) /\ out' # <<>>
  BY <1>1, <1>2, Appended
<1>4. \A k \in 1..Len(out) : out[k] \in Nat
  BY <1>2
<1>5. Listed'
  <2> SUFFICES ASSUME NEW k \in 1..at, Shown(k)
               PROVE  \E q \in DOMAIN out' : out'[q] = k
    BY <1>1, <1>2, ListedAfter
  <2>1. k \in 1..(at - 1)
    BY <1>2
  <2>2. PICK q \in DOMAIN out : out[q] = k
    BY <2>1 DEF ShowInv, Listed
  <2> QED
    BY <1>3, <2>2
<1>6. Latest'
  BY <1>1, <1>2, <1>3 DEF Latest
<1>7. (Len(out) > 0 => out[Len(out)] = at - 1 /\ at > 1) /\ (Len(out) = 0 => at = 1)
  BY <1>2 DEF ShowInv, Latest
<1>8. Runs'
  <2> SUFFICES ASSUME NEW k \in 1..Len(out), out'[k] # Marker, out'[k + 1] # Marker
               PROVE  out'[k + 1] = out'[k] + 1
    BY <1>3 DEF Runs
  <2>1. k \in 1..(Len(out) - 1) /\ out'[k] = out[k] /\ out'[k + 1] = out[k + 1]
    BY <1>3
  <2> QED
    BY <2>1 DEF ShowInv, Runs
<1>9. Gaps'
  <2> SUFFICES ASSUME NEW k \in 1..(Len(out) + 1), out'[k] = Marker
               PROVE  Gap(out', at', k)
    BY <1>3 DEF Gaps
  <2>1. CASE k = Len(out) + 1
    <3>1. k # 1 => out'[k - 1] = at - 1
      BY <1>3, <1>7, <2>1
    <3>2. k = 1 => at = 1
      BY <1>3, <1>7, <2>1
    <3>3. (IF k = 1 THEN 0 ELSE out'[k - 1]) = at - 1
      BY <1>2, <3>1, <3>2
    <3>4. k = Len(out') /\ at' = at + 1
      BY <1>1, <1>3, <2>1
    <3> QED
      BY <1>2, <3>3, <3>4 DEF Gap
  <2>2. CASE k # Len(out) + 1
    <3>1. k \in 1..(Len(out) - 1) /\ out[k] = Marker
      BY <1>2, <1>3, <1>7, <2>2 DEF Marker
    <3>2. Gap(out, at, k)
      BY <1>3, <3>1 DEF ShowInv, Gaps
    <3> QED
      BY <1>1, <1>2, <1>3, <3>1, <3>2, GapKept
  <2> QED
    BY <2>1, <2>2
<1> QED
  BY <1>5, <1>6, <1>8, <1>9

\* The line that comes next is left out, like the one before.
LEMMA PassLine ==
  ASSUME ShowInv, ShowLine, ~Shown(at), inSkippedBlock
  PROVE  Listed' /\ Latest' /\ Runs' /\ Gaps'
<1>1. out' = out /\ at' = at + 1 /\ inSkippedBlock' /\ diff' = diff
  BY DEF ShowLine
<1>2. out \in Seq(Nat) /\ at \in Nat \ {0}
  BY Sizes DEF ShowInv, DiffTypeOK
<1>3. Listed'
  <2> SUFFICES ASSUME NEW k \in 1..at, Shown(k)
               PROVE  \E q \in DOMAIN out : out[q] = k
    BY <1>1, <1>2, ListedAfter
  <2>1. k \in 1..(at - 1)
    BY <1>2
  <2> QED
    BY <2>1 DEF ShowInv, Listed
<1>4. Latest' /\ Runs'
  BY <1>1, <1>2 DEF ShowInv, Latest, Runs
<1>5. Gaps'
  <2> SUFFICES ASSUME NEW k \in DOMAIN out, out[k] = Marker
               PROVE  Gap(out, at + 1, k)
    BY <1>1 DEF Gaps
  <2>1. Gap(out, at, k)
    BY DEF ShowInv, Gaps
  <2>2. k \in 1..Len(out) /\ (k # 1 => out[k - 1] \in Nat)
    BY <1>2
  <2> QED
    BY <1>2, <2>1, <2>2 DEF Gap
<1> QED
  BY <1>3, <1>4, <1>5

LEMMA ShowInvInit == DiffInit => ShowInv
<1> SUFFICES ASSUME DiffInit PROVE ShowInv
  OBVIOUS
<1>1. at = 1 /\ out = <<>> /\ ~inSkippedBlock /\ stage = "fill"
  BY DEF DiffInit
<1> QED
  BY <1>1, InitTyped, NothingListed DEF ShowInv, Quiet, Ended

LEMMA ShowInvStep == ASSUME ShowInv, [DiffNext]_diffVars PROVE ShowInv'
<1>1. DiffTypeOK'
  BY StepTyped DEF ShowInv
<1>2. CASE FillCell \/ StartWalk \/ Walk \/ Turn
  <2>1. stage \in {"fill", "walk"} /\ UNCHANGED <<at, out, inSkippedBlock>> /\ stage' # "shown"
    BY <1>2 DEF FillCell, StartWalk, Walk, Turn
  <2>2. at = 1 /\ out = <<>> /\ ~inSkippedBlock
    BY <2>1 DEF ShowInv, Quiet, Latest
  <2>3. Listed' /\ Latest' /\ Runs' /\ Gaps'
    BY <2>1, <2>2 DEF Listed, Latest, Runs, Gaps
  <2> QED
    BY <1>1, <2>1, <2>2, <2>3 DEF ShowInv, Quiet, Ended
<1>3. CASE ShowLine
  <2>1. stage' = "show"
    BY <1>3 DEF ShowLine
  <2> QED
    BY <1>1, <1>3, <2>1, ListLine, ListMarker, PassLine DEF ShowInv, Quiet, Ended
<1>4. CASE EndShow
  <2>1. UNCHANGED <<diff, inSkippedBlock, at, out>> /\ stage' = "shown" /\ ~MoreLines
    BY <1>4 DEF EndShow
  <2>2. at = Len(diff) + 1
    BY <2>1, Sizes DEF MoreLines, ShowInv
  <2>3. Listed' /\ Latest' /\ Runs' /\ Gaps'
    BY <2>1 DEF ShowInv, Listed, Latest, Runs, Gaps, Shown
  <2> QED
    BY <1>1, <2>1, <2>2, <2>3 DEF ShowInv, Quiet, Ended
<1>5. CASE UNCHANGED diffVars
  BY <1>1, <1>5 DEF ShowInv, Quiet, Ended, Listed, Latest, Runs, Gaps, Shown, diffVars
<1> QED
  BY <1>2, <1>3, <1>4, <1>5 DEF DiffNext, DiffStep, DiffDone

(***************************************************************************)
(* What PrintGitStyleDiff prints leaves no change out nor the two lines on *)
(* either side of one, and says where it leaves lines out, for any files.  *)
(***************************************************************************)
THEOREM NoChangeHidden == DiffSpec => []ChangesAreShown
<1>1. ShowInv => ChangesAreShown
  <2> SUFFICES ASSUME ShowInv, stage = "shown" PROVE ChangesAreShown
    BY DEF ChangesAreShown
  <2>1. /\ at = Len(diff) + 1 /\ Len(diff) \in Nat /\ DOMAIN diff = 1..Len(diff)
        /\ DOMAIN out = 1..Len(out)
    BY Sizes DEF ShowInv, Ended, DiffTypeOK
  <2>2. ASSUME NEW k \in DOMAIN diff, diff[k].kind # " ",
               NEW c \in DOMAIN diff, c \in (k - ContextRadius)..(k + ContextRadius)
        PROVE  c \in Range(out)
    <3>1. k \in (c - ContextRadius)..(c + ContextRadius)
      <4>1. k \in Int /\ c \in Int
        BY <2>1
      <4>2. c \in (k - ContextRadius)..(k + ContextRadius) /\ ContextRadius \in Nat
        BY <2>2 DEF ContextRadius
      <4> QED
        BY <4>1, <4>2
    <3>2. Shown(c)
      BY <2>2, <3>1 DEF Shown
    <3>3. PICK q \in DOMAIN out : out[q] = c
      BY <2>1, <3>2 DEF ShowInv, Listed
    <3> QED
      BY <3>3 DEF Range
  <2>3. \A k \in 1..(Len(out) - 1) :
          out[k] # Marker /\ out[k + 1] # Marker => out[k + 1] = out[k] + 1
    BY DEF ShowInv, Runs
  <2>4. \A k \in DOMAIN out : out[k] = Marker => Gap(out, Len(diff) + 1, k)
    BY <2>1 DEF ShowInv, Gaps
  <2> QED
    BY <2>2, <2>3, <2>4 DEF ChangesAreShown, Gap
<1> QED
  BY <1>1, ShowInvInit, ShowInvStep, PTL DEF DiffSpec

-----------------------------------------------------------------------------
(***************************************************************************)
(* The table.  Whatever is kept of two beginnings of the files, a cell     *)
(* that has been filled bounds it, and is made of the cells before it.     *)
(***************************************************************************)

Bounded(a, b, v) ==
  \A places \in SUBSET (1..a) : \A f \in [places -> 1..b] :
    IsCommon(f) => Cardinality(places) <= v

\* Common lines but one.
Without(f, m) == [k \in DOMAIN f \ {m} |-> f[k]]

IsLast(places, f, m) ==
  /\ places \ {m} \in SUBSET (1..(m - 1))
  /\ Without(f, m) \in [places \ {m} -> 1..(f[m] - 1)]
  /\ IsCommon(Without(f, m))
  /\ Cardinality(places \ {m}) \in Nat
  /\ Cardinality(places) = Cardinality(places \ {m}) + 1

\* Common lines without the last of them: all come before it in both files.
LEMMA WithoutLast ==
  ASSUME NEW a \in Nat, NEW b \in Nat, NEW places \in SUBSET (1..a), places # {},
         NEW f \in [places -> 1..b], IsCommon(f)
  PROVE  \E m \in places : IsLast(places, f, m)
<1>1. PICK m \in places : \A k \in places : k <= m
  <2>1. places \in SUBSET (0..a) /\ \A k \in places : k \in 0..a
    OBVIOUS
  <2>2. Max(places) \in places /\ \A k \in places : k <= Max(places)
    BY <2>1, MaxInSet
  <2> QED BY <2>2
<1> DEFINE before == places \ {m}
           g == Without(f, m)
<1>2. \A k \in before : k \in 1..(m - 1) /\ k \in places /\ k < m
  <2>1. \A k \in places : k \in Nat /\ k >= 1
    OBVIOUS
  <2> QED BY <1>1, <2>1
<1>3. \A k \in before : f[k] \in 1..(f[m] - 1)
  <2>1. \A k \in before : f[k] < f[m]
    BY <1>2 DEF IsCommon
  <2>2. f[m] \in 1..b /\ \A k \in before : f[k] \in 1..b
    BY <1>2
  <2> QED BY <2>1, <2>2
<1>4. IsCommon(g)
  <2>1. DOMAIN g = before /\ DOMAIN f = places /\ \A k \in before : g[k] = f[k] /\ k \in places
    BY DEF Without
  <2> HIDE DEF g, before
  <2> QED BY <2>1 DEF IsCommon
<1>5. IsFiniteSet(places)
  <2>1. IsFiniteSet(1..a)
    BY FS_Interval
  <2> QED BY <2>1, FS_Subset
<1>6. /\ Cardinality(places) \in Nat /\ Cardinality(before) = Cardinality(places) - 1
      /\ IsFiniteSet(before)
  BY <1>5, FS_CardinalityType, FS_RemoveElement
<1>7. Cardinality(before) \in Nat
  BY <1>6, FS_CardinalityType
<1>8. before \in SUBSET (1..(m - 1)) /\ g \in [before -> 1..(f[m] - 1)]
  BY <1>2, <1>3 DEF Without
<1> QED BY <1>4, <1>6, <1>7, <1>8 DEF IsLast

\* Of nothing, nothing is common.
LEMMA NoneCommon ==
  ASSUME NEW a \in Nat, NEW b \in Nat, a = 0 \/ b = 0
  PROVE  Bounded(a, b, 0)
<1> SUFFICES ASSUME NEW places \in SUBSET (1..a), NEW f \in [places -> 1..b], IsCommon(f)
             PROVE  Cardinality(places) <= 0
  BY DEF Bounded
<1>1. places = {}
  OBVIOUS
<1> QED BY <1>1, FS_EmptySet

\* Where the last lines are the same, one more line is common at most.
LEMMA SameBounds ==
  ASSUME NEW a \in Nat \ {0}, NEW b \in Nat \ {0}, NEW v \in Nat,
         Bounded(a - 1, b - 1, v)
  PROVE  Bounded(a, b, v + 1)
<1> SUFFICES ASSUME NEW places \in SUBSET (1..a), NEW f \in [places -> 1..b], IsCommon(f)
             PROVE  Cardinality(places) <= v + 1
  BY DEF Bounded
<1>1. CASE places = {}
  BY <1>1, FS_EmptySet
<1>2. CASE places # {}
  <2>1. PICK m \in places : IsLast(places, f, m)
    <3>1. /\ a \in Nat /\ b \in Nat /\ places \in SUBSET (1..a) /\ places # {}
          /\ f \in [places -> 1..b] /\ IsCommon(f)
      BY <1>2
    <3> QED BY <3>1, WithoutLast, Zenon
  <2> DEFINE before == places \ {m}
             g == Without(f, m)
  <2>2. /\ before \in SUBSET (1..(m - 1))
        /\ g \in [before -> 1..(f[m] - 1)] /\ IsCommon(g)
        /\ Cardinality(before) \in Nat
        /\ Cardinality(places) = Cardinality(before) + 1
    BY <2>1 DEF IsLast
  <2>3. m \in 1..a /\ f[m] \in 1..b
    OBVIOUS
  <2> HIDE DEF before, g
  <2>4. before \in SUBSET (1..(a - 1)) /\ g \in [before -> 1..(b - 1)]
    BY <2>2, <2>3
  <2>5. Cardinality(before) <= v
    BY <2>2, <2>4 DEF Bounded
  <2> QED BY <2>2, <2>5
<1> QED BY <1>1, <1>2

\* Where they are not, one of them is not common.
LEMMA OtherBounds ==
  ASSUME NEW a \in Nat \ {0}, NEW b \in Nat \ {0}, oldLines[a] # newLines[b],
         NEW u \in Nat, NEW v \in Nat, NEW w \in Nat, w >= u, w >= v,
         Bounded(a - 1, b, u), Bounded(a, b - 1, v)
  PROVE  Bounded(a, b, w)
<1> SUFFICES ASSUME NEW places \in SUBSET (1..a), NEW f \in [places -> 1..b], IsCommon(f)
             PROVE  Cardinality(places) <= w
  BY DEF Bounded
<1>1. Cardinality(places) \in Nat
  <2>1. IsFiniteSet(1..a)
    BY FS_Interval
  <2>2. IsFiniteSet(places)
    BY <2>1, FS_Subset
  <2> QED BY <2>2, FS_CardinalityType
<1>2. CASE a \notin places
  <2>1. places \in SUBSET (1..(a - 1))
    BY <1>2
  <2>2. Cardinality(places) <= u
    BY <2>1 DEF Bounded
  <2> QED BY <1>1, <2>2
<1>3. CASE a \in places
  <2>1. f[a] \in 1..b /\ f[a] # b
    BY <1>3 DEF IsCommon
  <2>2. \A k \in places : f[k] \in 1..(b - 1)
    <3>1. \A k \in places : k \in 1..a /\ f[k] \in 1..b
      OBVIOUS
    <3>2. \A k \in places : k < a => f[k] < f[a]
      BY <1>3 DEF IsCommon
    <3> QED BY <2>1, <3>1, <3>2
  <2>3. f \in [places -> 1..(b - 1)]
    BY <2>2
  <2>4. Cardinality(places) <= v
    BY <2>3 DEF Bounded
  <2> QED BY <1>1, <2>4
<1> QED BY <1>2, <1>3

Filled(a, b) ==
  a = 0 \/ b = 0 \/ stage # "fill" \/ a <= i \/ (a = i + 1 /\ b <= j)

Recurs(a, b) ==
  /\ a = 0 \/ b = 0 => dp[<<a, b>>] = 0
  /\ a > 0 /\ b > 0 =>
       dp[<<a, b>>] = IF oldLines[a] = newLines[b] THEN dp[<<a - 1, b - 1>>] + 1
                      ELSE IF dp[<<a, b - 1>>] >= dp[<<a - 1, b>>] THEN dp[<<a, b - 1>>]
                      ELSE dp[<<a - 1, b>>]

TableRight ==
  \A a \in 0..M, b \in 0..N :
    Filled(a, b) => Recurs(a, b) /\ Bounded(a, b, dp[<<a, b>>])

\* The cells at the borders are right from the beginning.
LEMMA InitRight == DiffInit => TableRight
<1> SUFFICES ASSUME DiffInit, NEW a \in 0..M, NEW b \in 0..N, Filled(a, b)
             PROVE  Recurs(a, b) /\ Bounded(a, b, dp[<<a, b>>])
  BY DEF TableRight
<1>1. M \in Nat /\ N \in Nat
  BY InitTyped, Sizes
<1>2. dp[<<a, b>>] = 0
  BY DEF DiffInit
<1>3. i = 0 /\ j = 0 /\ stage = "fill"
  BY DEF DiffInit
<1>4. a \in Nat /\ b \in Nat /\ (a = 0 \/ b = 0)
  BY <1>1, <1>3 DEF Filled
<1>5. Bounded(a, b, 0)
  BY <1>4, NoneCommon
<1> QED
  BY <1>2, <1>4, <1>5 DEF Recurs

\* A step that leaves the table and the files as they are, and fills no cell.
LEMMA KeptRight ==
  ASSUME TableRight, UNCHANGED <<oldLines, newLines, dp>>,
         \A a \in 0..M, b \in 0..N : Filled(a, b)' => Filled(a, b)
  PROVE  TableRight'
<1>1. M' = M /\ N' = N
  BY DEF M, N
<1>2. ASSUME NEW a \in 0..M, NEW b \in 0..N, Filled(a, b)'
      PROVE  Recurs(a, b)' /\ Bounded(a, b, dp[<<a, b>>])'
  <2>1. Recurs(a, b) /\ Bounded(a, b, dp[<<a, b>>])
    BY <1>2 DEF TableRight
  <2>2. Recurs(a, b)'
    BY <2>1 DEF Recurs
  <2>3. Bounded(a, b, dp[<<a, b>>])'
    BY <2>1 DEF Bounded, IsCommon
  <2> QED BY <2>2, <2>3
<1> QED
  BY <1>1, <1>2 DEF TableRight

\* A cell that is filled bounds what is common, and the others stay.
LEMMA FillRight == ASSUME DiffTypeOK, TableRight, FillCell PROVE TableRight'
<1>0. PICK x \in 1..M, y \in 1..N : x = i + 1 /\ y = j + 1
  <2>1. i + 1 \in 1..M /\ j + 1 \in 1..N
    BY Sizes DEF FillCell, DiffTypeOK
  <2> QED BY <2>1
<1> DEFINE cell == <<x, y>>
<1>1. /\ UNCHANGED <<oldLines, newLines, stage>> /\ M' = M /\ N' = N
      /\ stage = "fill" /\ i < M /\ j < N
      /\ dp' = [dp EXCEPT ![cell] = Cell]
  BY <1>0 DEF FillCell, DiffTypeOK, M, N
<1>2. /\ M \in Nat /\ N \in Nat /\ i \in 0..M /\ j \in 0..N
      /\ x \in 1..M /\ y \in 1..N /\ x - 1 = i /\ y - 1 = j
      /\ x = i + 1 /\ y = j + 1
  <2>1. M \in Nat /\ N \in Nat /\ i \in 0..M /\ j \in 0..N
    BY Sizes
  <2> QED BY <1>0, <2>1
<1>3. /\ dp \in [(0..M) \X (0..N) -> Nat] /\ Cell \in Nat /\ cell \in (0..M) \X (0..N)
      /\ dp'[cell] = Cell
  <2>1. dp \in [(0..M) \X (0..N) -> Nat] /\ Cell \in Nat /\ cell \in (0..M) \X (0..N)
    BY <1>1, <1>2, CellTyped DEF DiffTypeOK
  <2> HIDE DEF cell
  <2> QED BY <1>1, <2>1
<1>4. \A a \in 0..M, b \in 0..N : a # x \/ b # y => dp'[<<a, b>>] = dp[<<a, b>>]
  <2> TAKE a \in 0..M, b \in 0..N
  <2>1. a # x \/ b # y => <<a, b>> # cell
    OBVIOUS
  <2>2. <<a, b>> \in (0..M) \X (0..N)
    OBVIOUS
  <2> HIDE DEF cell
  <2> QED BY <1>1, <1>3, <2>1, <2>2
<1>5. \A a \in 0..M, b \in 0..N : Filled(a, b)' => Filled(a, b) \/ (a = x /\ b = y)
  <2> TAKE a \in 0..M, b \in 0..N
  <2>1. \/ j + 1 < N /\ j' = j + 1 /\ i' = i
        \/ j + 1 >= N /\ j' = 0 /\ i' = i + 1
    BY <1>2 DEF FillCell
  <2>2. a \in Int /\ b \in Int /\ b <= N
    BY <1>2
  <2> QED BY <1>1, <1>2, <2>1, <2>2 DEF Filled
<1>6. ASSUME NEW a \in 0..M, NEW b \in 0..N, Filled(a, b), a # x \/ b # y
      PROVE  Recurs(a, b)' /\ Bounded(a, b, dp[<<a, b>>])'
  <2>1. Recurs(a, b) /\ Bounded(a, b, dp[<<a, b>>])
    BY <1>6 DEF TableRight
  <2>2. dp'[<<a, b>>] = dp[<<a, b>>]
    BY <1>4, <1>6
  <2>3. a > 0 /\ b > 0 =>
          /\ dp'[<<a - 1, b - 1>>] = dp[<<a - 1, b - 1>>]
          /\ dp'[<<a, b - 1>>] = dp[<<a, b - 1>>]
          /\ dp'[<<a - 1, b>>] = dp[<<a - 1, b>>]
    <3> SUFFICES ASSUME a > 0, b > 0
                 PROVE  /\ dp'[<<a - 1, b - 1>>] = dp[<<a - 1, b - 1>>]
                        /\ dp'[<<a, b - 1>>] = dp[<<a, b - 1>>]
                        /\ dp'[<<a - 1, b>>] = dp[<<a - 1, b>>]
      OBVIOUS
    <3>1. a \in 1..M /\ b \in 1..N /\ (a <= i \/ (a = i + 1 /\ b <= j))
      BY <1>1, <1>2, <1>6 DEF Filled
    <3>2. /\ a - 1 \in 0..M /\ b - 1 \in 0..N
          /\ a - 1 # x /\ (a # x \/ b - 1 # y)
      BY <1>2, <3>1
    <3> QED BY <1>4, <3>1, <3>2
  <2>4. Recurs(a, b)'
    BY <1>1, <2>1, <2>2, <2>3 DEF Recurs
  <2>5. Bounded(a, b, dp[<<a, b>>])'
    BY <1>1, <2>1, <2>2 DEF Bounded, IsCommon
  <2> QED BY <2>4, <2>5
<1>7. /\ <<i, j>> \in (0..M) \X (0..N) /\ <<i + 1, j>> \in (0..M) \X (0..N)
      /\ <<i, j + 1>> \in (0..M) \X (0..N)
      /\ dp[<<i, j>>] \in Nat /\ dp[<<i + 1, j>>] \in Nat /\ dp[<<i, j + 1>>] \in Nat
  <2>1. /\ <<i, j>> \in (0..M) \X (0..N) /\ <<i + 1, j>> \in (0..M) \X (0..N)
        /\ <<i, j + 1>> \in (0..M) \X (0..N)
    BY <1>2
  <2> QED BY <1>3, <2>1
<1>8. Bounded(i, j, dp[<<i, j>>]) /\ Bounded(x, j, dp[<<x, j>>]) /\ Bounded(i, y, dp[<<i, y>>])
  <2>1. Filled(i, j) /\ Filled(x, j) /\ Filled(i, y)
    BY <1>2 DEF Filled
  <2>2. x \in 0..M /\ y \in 0..N
    BY <1>2
  <2> QED BY <1>2, <2>1, <2>2 DEF TableRight
<1>9. Bounded(x, y, Cell)
  <2>1. CASE oldLines[x] = newLines[y]
    <3>1. Cell = dp[<<i, j>>] + 1
      BY <1>2, <2>1 DEF Cell
    <3>2. Bounded(x - 1, y - 1, dp[<<i, j>>])
      BY <1>2, <1>8
    <3>3. x \in Nat \ {0} /\ y \in Nat \ {0}
      BY <1>2
    <3> QED BY <1>7, <3>1, <3>2, <3>3, SameBounds
  <2>2. CASE oldLines[x] # newLines[y]
    <3>1. Cell >= dp[<<i, y>>] /\ Cell >= dp[<<x, j>>] /\ Cell \in Nat
      BY <1>2, <1>7, <2>2 DEF Cell
    <3>2. Bounded(x - 1, y, dp[<<i, y>>]) /\ Bounded(x, y - 1, dp[<<x, j>>])
      BY <1>2, <1>8
    <3>3. /\ x \in Nat \ {0} /\ y \in Nat \ {0}
          /\ dp[<<i, y>>] \in Nat /\ dp[<<x, j>>] \in Nat
      BY <1>2, <1>7
    <3> QED BY <2>2, <3>1, <3>2, <3>3, OtherBounds
  <2> QED BY <2>1, <2>2
<1>10. Recurs(x, y)' /\ Bounded(x, y, dp[<<x, y>>])'
  <2>1. Bounded(x, y, dp[<<x, y>>])'
    BY <1>1, <1>3, <1>9 DEF Bounded, IsCommon
  <2>2. /\ dp'[<<x - 1, y - 1>>] = dp[<<i, j>>]
        /\ dp'[<<x, y - 1>>] = dp[<<i + 1, j>>]
        /\ dp'[<<x - 1, y>>] = dp[<<i, j + 1>>]
    <3>1. x - 1 # x /\ y - 1 # y /\ x \in 0..M /\ y \in 0..N /\ i \in 0..M /\ j \in 0..N
      BY <1>2
    <3>2. x - 1 = i /\ y - 1 = j /\ x = i + 1 /\ y = j + 1
      BY <1>2
    <3> QED BY <1>4, <3>1, <3>2
  <2>3. x > 0 /\ y > 0 /\ x # 0 /\ y # 0
    BY <1>2
  <2>4. Cell = IF oldLines[x] = newLines[y] THEN dp[<<i, j>>] + 1
               ELSE IF dp[<<i + 1, j>>] >= dp[<<i, j + 1>>] THEN dp[<<i + 1, j>>]
               ELSE dp[<<i, j + 1>>]
    BY <1>2 DEF Cell
  <2>5. Recurs(x, y)'
    <3> QED BY <1>1, <1>3, <2>2, <2>3, <2>4 DEF Recurs, cell
  <2> QED BY <2>1, <2>5
<1>11. ASSUME NEW a \in 0..M, NEW b \in 0..N, Filled(a, b)'
       PROVE  Recurs(a, b)' /\ Bounded(a, b, dp[<<a, b>>])'
  <2>1. CASE a = x /\ b = y
    BY <1>10, <2>1
  <2>2. CASE a # x \/ b # y
    BY <1>5, <1>6, <1>11, <2>2
  <2> QED BY <2>1, <2>2
<1> QED
  BY <1>1, <1>11 DEF TableRight

\* So the table is right, as far as it has been filled.
LEMMA StepRight == ASSUME DiffTypeOK, TableRight, [DiffNext]_diffVars PROVE TableRight'
<1>1. CASE FillCell
  BY <1>1, FillRight
<1>2. CASE UNCHANGED <<oldLines, newLines, dp, i, j, stage>>
  BY <1>2, KeptRight DEF Filled
<1>3. CASE stage # "fill" /\ UNCHANGED <<oldLines, newLines, dp>>
  BY <1>3, KeptRight DEF Filled
<1>4. CASE StartWalk
  <2>1. i = M /\ M \in Nat /\ UNCHANGED <<oldLines, newLines, dp>>
    BY <1>4, Sizes DEF StartWalk
  <2>2. \A a \in 0..M, b \in 0..N : Filled(a, b)
    BY <2>1 DEF Filled
  <2> QED BY <2>1, <2>2, KeptRight
<1> QED
  BY <1>1, <1>2, <1>3, <1>4
     DEF DiffNext, DiffStep, DiffDone, diffVars, Walk, Turn, ShowLine, EndShow

-----------------------------------------------------------------------------
(* The lines noted. *)

Texts(d, kinds) ==
  LET upto[k \in 0..Len(d)] ==
        IF k = 0 THEN <<>>
        ELSE IF d[k].kind \in kinds THEN Append(upto[k - 1], d[k].text)
        ELSE upto[k - 1]
  IN upto[Len(d)]

\* What the property says of the diff is said of any list of noted lines.
LEMMA LinesAreTexts == \A kinds : LinesOf(kinds) = Texts(diff, kinds)
BY DEF LinesOf, Texts

Lists == Seq(Line)

Pushed(s, e, kinds) == IF e.kind \in kinds THEN Append(s, e.text) ELSE s

\* One more line of text.
LEMMA PushedTyped ==
  ASSUME NEW s \in Seq(Line), NEW e \in Entries, NEW kinds
  PROVE  Pushed(s, e, kinds) \in Seq(Line)
<1>1. e.text \in Line
  BY DEF Entries
<1> QED BY <1>1 DEF Pushed

\* A loop over a list of lines.
LEMMA LoopOfLists ==
  \A m \in Nat : \A B \in Lists, st \in [1..m -> [Lists -> Lists]] :
    \E f \in [0..m -> Lists] :
      f[0] = B /\ \A k \in 1..m : f[k] = st[k][f[k - 1]]
BY LoopExists

\* The lines of some kinds are those before the last, and the last if it is of them.
IsTexts(d, kinds, f) ==
  /\ f \in [0..Len(d) -> Seq(Line)] /\ f[0] = <<>>
  /\ \A k \in 1..Len(d) : f[k] = Pushed(f[k - 1], d[k], kinds)

\* They are what a loop over the noted lines makes.
LEMMA TextsExist ==
  ASSUME NEW d \in Seq(Entries), NEW kinds
  PROVE  \E f : IsTexts(d, kinds, f) /\ Texts(d, kinds) = f[Len(d)]
<1> DEFINE n == Len(d)
           Reads(f) == f = [k \in 0..n |-> IF k = 0 THEN <<>> ELSE Pushed(f[k - 1], d[k], kinds)]
           step == [k \in 1..n |-> [s \in Lists |-> Pushed(s, d[k], kinds)]]
<1>1. n \in Nat /\ <<>> \in Lists /\ \A k \in 1..n : d[k] \in Entries
  BY DEF Lists
<1>2. \A k \in 1..n : \A s \in Lists : Pushed(s, d[k], kinds) \in Lists
  BY <1>1, PushedTyped DEF Lists
<1>3. step \in [1..n -> [Lists -> Lists]]
  <2> HIDE DEF n
  <2> QED BY <1>2
<1>4. PICK f \in [0..n -> Lists] :
        f[0] = <<>> /\ \A k \in 1..n : f[k] = step[k][f[k - 1]]
  <2> DEFINE b == <<>>
  <2>1. n \in Nat /\ b \in Lists
    BY <1>1
  <2>2. \A m \in Nat : \A B \in Lists, st \in [1..m -> [Lists -> Lists]] :
          \E f \in [0..m -> Lists] :
            f[0] = B /\ \A k \in 1..m : f[k] = st[k][f[k - 1]]
    BY LoopOfLists
  <2>3. \E f \in [0..n -> Lists] : f[0] = b /\ \A k \in 1..n : f[k] = step[k][f[k - 1]]
    <3> HIDE DEF n, step, b
    <3> QED BY <1>3, <2>1, <2>2, Zenon
  <2> QED BY <2>3
<1>5. Reads(f)
  <2>1. ASSUME NEW k \in 1..n PROVE f[k] = Pushed(f[k - 1], d[k], kinds)
    <3>1. f[k - 1] \in Lists
      BY <1>1, <1>4
    <3>2. f[k] = step[k][f[k - 1]]
      BY <1>4
    <3> HIDE DEF n
    <3> QED BY <3>1, <3>2
  <2> QED BY <1>1, <1>4, <2>1
<1> DEFINE g == CHOOSE h : Reads(h)
<1>6. Reads(g)
  BY <1>5
<1>7. g[0] = <<>> /\ \A k \in 1..n : g[k] = Pushed(g[k - 1], d[k], kinds)
  <2> HIDE DEF g
  <2> QED BY <1>1, <1>6
<1>8. g \in [0..n -> Lists]
  <2>1. g[0] \in Lists /\ \A k \in 1..n : g[k - 1] \in Lists => g[k] \in Lists
    <3> HIDE DEF g, n
    <3> QED BY <1>1, <1>2, <1>7
  <2>2. \A k \in 0..n : g[k] \in Lists
    <3> HIDE DEF g, n
    <3> QED BY <1>1, <2>1, LoopKeeps, Zenon
  <2> HIDE DEF g
  <2> QED BY <1>6, <2>2
<1>9. Texts(d, kinds) = g[n]
  BY DEF Texts, Pushed
<1> QED
  <2> HIDE DEF g
  <2> QED BY <1>7, <1>8, <1>9 DEF IsTexts, Lists

\* Hence lines.
LEMMA TextsTyped ==
  ASSUME NEW d \in Seq(Entries), NEW kinds
  PROVE  Texts(d, kinds) \in Seq(Line)
<1>1. PICK f : IsTexts(d, kinds, f) /\ Texts(d, kinds) = f[Len(d)]
  BY TextsExist
<1>2. Len(d) \in 0..Len(d)
  OBVIOUS
<1> QED BY <1>1, <1>2 DEF IsTexts

Mark(e, kinds) == IF e.kind \in kinds THEN <<e.text>> ELSE <<>>

\* A line put before the others comes first, if it is of these kinds.
LEMMA TextsAfter ==
  ASSUME NEW d \in Seq(Entries), NEW e \in Entries, NEW kinds
  PROVE  /\ Texts(d, kinds) \in Seq(Line)
         /\ <<e>> \o d \in Seq(Entries)
         /\ Texts(<<e>> \o d, kinds)
              = Mark(e, kinds) \o Texts(d, kinds)
<1> DEFINE n == Len(d)
           t == <<e>> \o d
           p == Pushed(<<>>, e, kinds)
<1>1. /\ n \in Nat /\ t \in Seq(Entries) /\ Len(t) = n + 1
      /\ t[1] = e /\ \A k \in 1..n : t[k + 1] = d[k] /\ d[k] \in Entries
  <2>1. n \in Nat /\ <<e>> \in Seq(Entries) /\ Len(<<e>>) = 1 /\ <<e>>[1] = e
    OBVIOUS
  <2>2. /\ t \in Seq(Entries) /\ Len(t) = n + 1
        /\ \A k \in 1..(1 + n) : t[k] = IF k <= 1 THEN <<e>>[k] ELSE d[k - 1]
    BY <2>1, ConcatProperties
  <2>3. ASSUME NEW k \in 1..n PROVE t[k + 1] = d[k] /\ d[k] \in Entries
    <3>1. k + 1 \in 1..(1 + n) /\ ~(k + 1 <= 1) /\ (k + 1) - 1 = k
      BY <2>1
    <3>2. t[k + 1] = d[(k + 1) - 1]
      BY <2>2, <3>1
    <3> QED BY <3>1, <3>2
  <2>4. t[1] = e
    <3>1. 1 \in 1..(1 + n)
      BY <2>1
    <3> QED BY <2>1, <2>2, <3>1
  <2> HIDE DEF t, n
  <2> QED BY <2>1, <2>2, <2>3, <2>4
<1>2. p \in Seq(Line) /\ p = Mark(e, kinds)
  <2>1. e.text \in Line
    BY DEF Entries
  <2>2. <<>> \in Seq(Line) /\ Append(<<>>, e.text) = <<e.text>>
    BY <2>1
  <2> QED BY <2>2, PushedTyped DEF Pushed, Mark
<1>3. PICK f : IsTexts(d, kinds, f) /\ Texts(d, kinds) = f[n]
  BY TextsExist
<1> HIDE DEF t
<1>4. PICK g : IsTexts(t, kinds, g) /\ Texts(t, kinds) = g[n + 1]
  BY <1>1, TextsExist
<1> HIDE DEF n
<1>5. /\ f \in [0..n -> Seq(Line)] /\ f[0] = <<>>
      /\ \A k \in 1..n : f[k] = Pushed(f[k - 1], d[k], kinds)
  BY <1>3 DEF IsTexts, n
<1>6. g[0] = <<>> /\ \A k \in 1..n + 1 : g[k] = Pushed(g[k - 1], t[k], kinds)
  BY <1>1, <1>4 DEF IsTexts
<1>7. g[1] = p
  <2>1. 1 \in 1..n + 1 /\ 1 - 1 = 0
    BY <1>1
  <2>2. g[1] = Pushed(g[0], t[1], kinds)
    BY <1>6, <2>1
  <2> QED BY <1>1, <1>6, <2>2
<1> HIDE DEF p
<1> DEFINE Same(k) == g[k + 1] = p \o f[k]
<1>8. Same(0)
  BY <1>2, <1>5, <1>7, ConcatEmptySeq
<1>9. ASSUME NEW k \in 1..n, Same(k - 1)
      PROVE  Same(k)
  <2>1. g[k] = p \o f[k - 1] /\ f[k - 1] \in Seq(Line) /\ d[k] \in Entries
    <3>1. (k - 1) + 1 = k /\ k - 1 \in 0..n
      BY <1>1
    <3> QED BY <1>1, <1>5, <1>9, <3>1
  <2>2. g[k + 1] = Pushed(g[k], d[k], kinds)
    <3>1. k + 1 \in 1..n + 1 /\ (k + 1) - 1 = k
      BY <1>1
    <3> QED BY <1>1, <1>6, <3>1
  <2>3. f[k] = Pushed(f[k - 1], d[k], kinds)
    BY <1>5
  <2>4. Pushed(p \o f[k - 1], d[k], kinds) = p \o Pushed(f[k - 1], d[k], kinds)
    <3>1. d[k].text \in Line
      BY <2>1 DEF Entries
    <3> DEFINE x == f[k - 1]
               l == d[k].text
    <3>2. x \in Seq(Line) /\ l \in Line
      BY <2>1, <3>1
    <3> HIDE DEF x, l
    <3>3. Append(p \o x, l) = p \o Append(x, l)
      <4>1. p \in Seq(Line) /\ p \o x \in Seq(Line) /\ <<l>> \in Seq(Line)
        BY <1>2, <3>2, ConcatProperties
      <4>2. Append(p \o x, l) = (p \o x) \o <<l>>
        BY <3>2, <4>1, AppendIsConcat
      <4>3. Append(x, l) = x \o <<l>>
        BY <3>2, AppendIsConcat
      <4>4. (p \o x) \o <<l>> = p \o (x \o <<l>>)
        BY <3>2, <4>1, ConcatAssociative
      <4> QED BY <4>2, <4>3, <4>4
    <3> QED BY <3>3 DEF Pushed, x, l
  <2> QED BY <2>1, <2>2, <2>3, <2>4
<1> DEFINE Differ == {k \in 0..n : ~Same(k)}
<1>10. Differ = {}
  <2> SUFFICES ASSUME Differ # {} PROVE FALSE
    OBVIOUS
  <2>1. Differ \in SUBSET Nat
    OBVIOUS
  <2>2. PICK k \in Differ : \A m \in Differ : k <= m
    <3> HIDE DEF Differ
    <3> QED BY <2>1, MinInSet
  <2>3. k \in 0..n /\ ~Same(k)
    OBVIOUS
  <2>4. k \in 1..n
    <3> HIDE DEF Same
    <3>1. k # 0
      BY <1>8, <2>3
    <3> QED BY <1>1, <2>3, <3>1
  <2>5. k - 1 \in 0..n /\ ~(k <= k - 1)
    <3> HIDE DEF Differ, Same
    <3> QED BY <1>1, <2>4
  <2>6. Same(k - 1)
    <3> HIDE DEF Same
    <3> QED BY <2>2, <2>5
  <2> HIDE DEF Same
  <2> QED BY <1>9, <2>3, <2>4, <2>6
<1>11. Same(n)
  <2>1. n \in 0..n
    BY <1>1
  <2> HIDE DEF Same
  <2> QED BY <1>10, <2>1
<1>12. f[n] \in Seq(Line)
  BY <1>1, <1>5
<1> QED
  BY <1>1, <1>2, <1>3, <1>4, <1>11, <1>12 DEF t

\* The line noted last comes first when they are turned.
LEMMA ReverseAppend ==
  ASSUME NEW d \in Seq(Entries), NEW e \in Entries
  PROVE  Reverse(d) \in Seq(Entries) /\ Reverse(Append(d, e)) = <<e>> \o Reverse(d)
<1> DEFINE r == Reverse(d)
           l == Reverse(Append(d, e))
           n == Len(d)
<1>1. /\ n \in Nat /\ r \in Seq(Entries) /\ Len(r) = n
      /\ \A k \in 1..n : r[k] = d[(n - k) + 1]
  BY ReverseTyped DEF Reverse
<1>2. /\ Append(d, e) \in Seq(Entries) /\ Len(Append(d, e)) = n + 1
      /\ Append(d, e)[n + 1] = e /\ \A k \in 1..n : Append(d, e)[k] = d[k]
  OBVIOUS
<1>3. /\ l \in Seq(Entries) /\ Len(l) = n + 1
      /\ \A k \in 1..n + 1 : l[k] = Append(d, e)[((n + 1) - k) + 1]
  BY <1>2, ReverseTyped DEF Reverse
<1> HIDE DEF r, l, n
<1>4. \A k \in 1..n + 1 : l[k] = (<<e>> \o r)[k]
  <2> TAKE k \in 1..n + 1
  <2>1. CASE k = 1
    <3>1. ((n + 1) - 1) + 1 = n + 1
      BY <1>1
    <3>2. (<<e>> \o r)[1] = e
      BY <1>1
    <3> QED BY <1>2, <1>3, <2>1, <3>1, <3>2
  <2>2. CASE k # 1
    <3>1. k - 1 \in 1..n /\ ((n + 1) - k) + 1 = (n - (k - 1)) + 1 /\ (n - (k - 1)) + 1 \in 1..n
      BY <1>1, <2>2
    <3>2. (<<e>> \o r)[k] = r[k - 1]
      BY <1>1, <3>1
    <3>3. l[k] = Append(d, e)[(n - (k - 1)) + 1]
      BY <1>3, <3>1
    <3> QED BY <1>1, <1>2, <3>1, <3>2, <3>3
  <2> QED BY <2>1, <2>2
<1>5. <<e>> \o r \in Seq(Entries) /\ Len(<<e>> \o r) = n + 1
  BY <1>1
<1> QED
  <2>1. l = <<e>> \o r
    BY <1>3, <1>4, <1>5, SeqEqual
  <2> QED BY <1>1, <2>1 DEF l, r

-----------------------------------------------------------------------------
(***************************************************************************)
(* The walk.  The lines noted are, from the last to the first, the rest of *)
(* each file after the place of the walk, and as many are kept as the cell *)
(* at the last lines says more than the one at that place.                 *)
(***************************************************************************)

Kept == Len(Texts(Reverse(diff), {" "}))

Walked ==
  /\ stage = "fill" => diff = <<>>
  /\ stage = "walk" =>
       /\ Texts(Reverse(diff), {" ", "-"}) = SubSeq(oldLines, i + 1, M)
       /\ Texts(Reverse(diff), {" ", "+"}) = SubSeq(newLines, j + 1, N)
       /\ Kept + dp[<<i, j>>] = dp[<<M, N>>]
  /\ stage \in {"show", "shown"} =>
       /\ Texts(diff, {" ", "-"}) = oldLines
       /\ Texts(diff, {" ", "+"}) = newLines
       /\ Len(Texts(diff, {" "})) = dp[<<M, N>>]

\* One more line is noted.
LEMMA Noted ==
  ASSUME diff \in Seq(Entries), NEW e \in Entries, diff' = Append(diff, e), NEW kinds
  PROVE  Texts(Reverse(diff), kinds)'
           = Mark(e, kinds) \o Texts(Reverse(diff), kinds)
         /\ Texts(Reverse(diff), kinds) \in Seq(Line)
<1>1. Reverse(diff)' = <<e>> \o Reverse(diff) /\ Reverse(diff) \in Seq(Entries)
  BY ReverseAppend
<1>2. Texts(Reverse(diff), kinds)' = Texts(Reverse(diff)', kinds)
  BY DEF Texts
<1>3. \A d \in Seq(Entries) :
        /\ Texts(d, kinds) \in Seq(Line)
        /\ Texts(<<e>> \o d, kinds)
             = Mark(e, kinds) \o Texts(d, kinds)
  <2> TAKE d \in Seq(Entries)
  <2> QED BY TextsAfter, Zenon
<1> QED
  BY <1>1, <1>2, <1>3, Zenon

\* The part of a file from one line on is that line and the part after it.
LEMMA OneMoreLine ==
  ASSUME NEW s \in Seq(Line), NEW k \in 1..Len(s)
  PROVE  <<s[k]>> \o SubSeq(s, k + 1, Len(s)) = SubSeq(s, (k - 1) + 1, Len(s))
<1> DEFINE n == Len(s)
           a == SubSeq(s, k + 1, n)
           b == SubSeq(s, k, n)
<1>1. n \in Nat /\ k \in 1..n /\ s[k] \in Line
  OBVIOUS
<1>2. /\ a \in Seq(Line) /\ Len(a) = n - k
      /\ \A m \in 1..n - k : a[m] = s[k + m]
  <2>1. k + 1 \in Int /\ n \in Int /\ \A m \in (k + 1)..n : s[m] \in Line
    BY <1>1
  <2>2. /\ a \in Seq(Line) /\ Len(a) = IF k + 1 <= n THEN n - (k + 1) + 1 ELSE 0
        /\ \A m \in 1..n - (k + 1) + 1 : a[m] = s[(k + 1) + m - 1]
    BY <2>1, SubSeqProperties
  <2> HIDE DEF a, n
  <2> QED BY <1>1, <2>2
<1>3. /\ b \in Seq(Line) /\ Len(b) = (n - k) + 1
      /\ \A m \in 1..(n - k) + 1 : b[m] = s[(k + m) - 1]
  <2>1. k \in Int /\ n \in Int /\ \A m \in k..n : s[m] \in Line
    BY <1>1
  <2>2. /\ b \in Seq(Line) /\ Len(b) = IF k <= n THEN n - k + 1 ELSE 0
        /\ \A m \in 1..n - k + 1 : b[m] = s[k + m - 1]
    BY <2>1, SubSeqProperties
  <2> HIDE DEF b, n
  <2> QED BY <1>1, <2>2
<1> HIDE DEF a, b, n
<1> DEFINE e == s[k]
<1>4. e \in Line
  BY <1>1
<1> HIDE DEF e
<1>5. /\ <<e>> \o a \in Seq(Line) /\ Len(<<e>> \o a) = (n - k) + 1
      /\ \A m \in 1..(n - k) + 1 : (<<e>> \o a)[m] = b[m]
  <2>1. <<e>> \o a \in Seq(Line) /\ Len(<<e>> \o a) = (n - k) + 1
    BY <1>1, <1>2, <1>4
  <2> SUFFICES ASSUME NEW m \in 1..(n - k) + 1 PROVE (<<e>> \o a)[m] = b[m]
    BY <2>1
  <2>2. CASE m = 1
    <3>1. (k + 1) - 1 = k /\ (<<e>> \o a)[1] = e
      BY <1>1, <1>2, <1>4
    <3> QED BY <1>3, <2>2, <3>1 DEF e
  <2>3. CASE m # 1
    <3>1. m - 1 \in 1..n - k /\ k + (m - 1) = (k + m) - 1
      BY <1>1, <2>3
    <3>2. (<<e>> \o a)[m] = a[m - 1]
      BY <1>1, <1>2, <1>4, <3>1
    <3> QED BY <1>2, <1>3, <3>1, <3>2
  <2> QED BY <2>2, <2>3
<1>6. <<e>> \o a = b
  BY <1>3, <1>5, SeqEqual
<1>7. (k - 1) + 1 = k
  BY <1>1
<1> QED BY <1>6, <1>7 DEF a, b, n, e

\* Nothing is noted at first,
LEMMA InitWalked == DiffInit => Walked
BY DEF DiffInit, Walked

\* nor when the walk begins, at the last lines of both files.
LEMMA StartWalked == ASSUME DiffTypeOK, Walked, StartWalk PROVE Walked'
<1>1. /\ diff' = <<>> /\ oldLines' = oldLines /\ newLines' = newLines /\ dp' = dp
      /\ M' = M /\ N' = N /\ i' = M /\ j' = N /\ stage' = "walk"
  BY DEF StartWalk, Walked, M, N
<1>2. M \in Nat /\ N \in Nat /\ dp[<<M, N>>] \in Nat
  <2>1. M \in Nat /\ N \in Nat
    BY Sizes
  <2>2. <<M, N>> \in (0..M) \X (0..N)
    BY <2>1
  <2> QED BY <2>1, <2>2 DEF DiffTypeOK
<1>3. Reverse(<<>>) = <<>>
  BY DEF Reverse
<1>4. \A kinds : Texts(<<>>, kinds) = <<>>
  <2> TAKE kinds
  <2>1. <<>> \in Seq(Entries) /\ Len(<<>>) = 0
    OBVIOUS
  <2>2. PICK f : IsTexts(<<>>, kinds, f) /\ Texts(<<>>, kinds) = f[Len(<<>>)]
    BY <2>1, TextsExist
  <2> QED BY <2>1, <2>2 DEF IsTexts
<1>5. SubSeq(oldLines, M + 1, M) = <<>> /\ SubSeq(newLines, N + 1, N) = <<>>
  BY <1>2, SubSeqEmpty
<1>6. \A kinds : Texts(Reverse(diff), kinds)' = <<>>
  <2>1. Reverse(diff)' = <<>>
    BY <1>1, <1>3 DEF Reverse
  <2>2. \A kinds : Texts(Reverse(diff), kinds)' = Texts(Reverse(diff)', kinds)
    BY DEF Texts
  <2> QED BY <1>4, <2>1, <2>2
<1>7. Kept' = 0
  <2>1. Texts(Reverse(diff), {" "})' = <<>>
    BY <1>6, Zenon
  <2>2. Len(<<>>) = 0
    OBVIOUS
  <2> QED BY <2>1, <2>2, Zenon DEF Kept
<1>8. /\ Texts(Reverse(diff), {" ", "-"})' = <<>>
      /\ Texts(Reverse(diff), {" ", "+"})' = <<>>
  BY <1>6, Zenon
<1>9. dp'[<<i', j'>>] = dp'[<<M', N'>>] /\ Kept' + dp'[<<i', j'>>] = dp'[<<M', N'>>]
  BY <1>1, <1>2, <1>7
<1>10. /\ SubSeq(oldLines, i + 1, M)' = <<>> /\ SubSeq(newLines, j + 1, N)' = <<>>
  BY <1>1, <1>5
<1> QED
  BY <1>1, <1>8, <1>9, <1>10, Zenon DEF Walked

\* A step of the walk goes to a cell that says what is left to keep.
LEMMA NextCell ==
  ASSUME DiffTypeOK, TableRight, stage = "walk"
  PROVE  /\ dp[<<i, j>>] \in Nat
         /\ IsSame => dp[<<i - 1, j - 1>>] \in Nat /\ dp[<<i, j>>] = dp[<<i - 1, j - 1>>] + 1
         /\ IsAdded => dp[<<i, j>>] = dp[<<i, j - 1>>]
         /\ IsRemoved => dp[<<i, j>>] = dp[<<i - 1, j>>]
<1>1. /\ M \in Nat /\ N \in Nat /\ i \in 0..M /\ j \in 0..N
      /\ dp \in [(0..M) \X (0..N) -> Nat]
  BY Sizes DEF DiffTypeOK
<1>2. \A a \in 0..M, b \in 0..N : Recurs(a, b) /\ dp[<<a, b>>] \in Nat
  BY <1>1 DEF TableRight, Filled
<1>3. Recurs(i, j) /\ dp[<<i, j>>] \in Nat
  BY <1>1, <1>2
<1>4. CASE IsSame
  <2>1. i > 0 /\ j > 0 /\ i - 1 \in 0..M /\ j - 1 \in 0..N
    BY <1>1, <1>4 DEF IsSame
  <2>2. dp[<<i - 1, j - 1>>] \in Nat
    BY <1>2, <2>1
  <2> QED BY <1>3, <1>4, <2>1, <2>2 DEF Recurs, IsSame, IsAdded, IsRemoved
<1>5. CASE IsAdded
  <2>1. j > 0 /\ j - 1 \in 0..N /\ ~IsSame
    BY <1>1, <1>5 DEF IsAdded
  <2>2. Recurs(i, j - 1)
    BY <1>1, <1>2, <2>1
  <2>3. CASE i = 0
    BY <1>3, <1>5, <2>1, <2>2, <2>3 DEF Recurs, IsRemoved
  <2>4. CASE i > 0
    <3>1. oldLines[i] # newLines[j] /\ dp[<<i, j - 1>>] >= dp[<<i - 1, j>>]
      BY <1>5, <2>1, <2>4 DEF IsSame, IsAdded, PrefersAdded
    <3> QED BY <1>3, <1>5, <2>1, <2>4, <3>1 DEF Recurs, IsRemoved
  <2> QED BY <1>1, <2>3, <2>4
<1>6. CASE IsRemoved
  <2>1. i > 0 /\ i - 1 \in 0..M /\ ~IsSame /\ ~IsAdded
    BY <1>1, <1>6 DEF IsRemoved
  <2>2. Recurs(i - 1, j)
    BY <1>1, <1>2, <2>1
  <2>3. CASE j = 0
    BY <1>3, <2>1, <2>2, <2>3 DEF Recurs
  <2>4. CASE j > 0
    <3>1. oldLines[i] # newLines[j] /\ ~(dp[<<i, j - 1>>] >= dp[<<i - 1, j>>])
      BY <2>1, <2>4 DEF IsSame, IsAdded, PrefersAdded
    <3> QED BY <1>3, <2>1, <2>4, <3>1 DEF Recurs
  <2> QED BY <1>1, <2>1, <2>3, <2>4
<1> QED BY <1>3, <1>4, <1>5, <1>6

\* A step notes a line, and what was noted stays the rest of each file.
LEMMA WalkWalked == ASSUME DiffTypeOK, TableRight, Walked, Walk PROVE Walked'
<1> DEFINE rest == SubSeq(oldLines, i + 1, M)
           more == SubSeq(newLines, j + 1, N)
           texts(kinds) == Texts(Reverse(diff), kinds)
<1>1. /\ oldLines' = oldLines /\ newLines' = newLines /\ dp' = dp
      /\ M' = M /\ N' = N /\ stage = "walk" /\ stage' = "walk"
  BY DEF Walk, M, N
<1>2. /\ M \in Nat /\ N \in Nat /\ i \in 0..M /\ j \in 0..N
      /\ oldLines \in Seq(Line) /\ newLines \in Seq(Line) /\ diff \in Seq(Entries)
      /\ (0 < i => oldLines[i] \in Line) /\ (0 < j => newLines[j] \in Line)
      /\ M = Len(oldLines) /\ N = Len(newLines)
  BY Sizes DEF M, N
<1>3. /\ texts({" ", "-"}) = rest /\ texts({" ", "+"}) = more
      /\ Len(texts({" "})) + dp[<<i, j>>] = dp[<<M, N>>]
  BY <1>1 DEF Walked, Kept
<1>4. \A e \in Entries : diff' = Append(diff, e) =>
        \A kinds : /\ Texts(Reverse(diff), kinds)' = Mark(e, kinds) \o texts(kinds)
                   /\ texts(kinds) \in Seq(Line)
  BY <1>2, Noted
<1>5. /\ i > 0 => <<oldLines[i]>> \o rest = SubSeq(oldLines, (i - 1) + 1, M)
      /\ j > 0 => <<newLines[j]>> \o more = SubSeq(newLines, (j - 1) + 1, N)
  <2>1. i > 0 => i \in 1..M
    BY <1>2
  <2>2. j > 0 => j \in 1..N
    BY <1>2
  <2> QED BY <1>2, <2>1, <2>2, OneMoreLine
<1>6. rest \in Seq(Line) /\ more \in Seq(Line) /\ texts({" "}) \in Seq(Line)
  <2>1. Reverse(diff) \in Seq(Entries)
    BY <1>2, ReverseTyped
  <2>2. \A kinds : texts(kinds) \in Seq(Line)
    BY <2>1, TextsTyped
  <2> HIDE DEF texts, rest, more
  <2> QED BY <1>3, <2>2
<1>7. ASSUME /\ texts({" ", "-"})' = SubSeq(oldLines, i' + 1, M)
             /\ texts({" ", "+"})' = SubSeq(newLines, j' + 1, N)
             /\ Len(texts({" "}))' + dp[<<i', j'>>] = dp[<<M, N>>]
      PROVE  Walked'
  <2>1. Kept' + dp'[<<i', j'>>] = dp'[<<M', N'>>]
    BY <1>1, <1>7 DEF Kept
  <2>2. /\ SubSeq(oldLines, i + 1, M)' = SubSeq(oldLines, i' + 1, M)
        /\ SubSeq(newLines, j + 1, N)' = SubSeq(newLines, j' + 1, N)
    BY <1>1
  <2>3. /\ Texts(Reverse(diff), {" ", "-"})' = SubSeq(oldLines, i + 1, M)'
        /\ Texts(Reverse(diff), {" ", "+"})' = SubSeq(newLines, j + 1, N)'
    BY <1>7, <2>2, Zenon
  <2> QED BY <1>1, <2>1, <2>3, Zenon DEF Walked
<1>8. CASE IsSame /\ Note(" ", oldLines[i]) /\ i' = i - 1 /\ j' = j - 1
  <2> DEFINE l == oldLines[i]
             e == [kind |-> " ", text |-> l]
  <2>1. i > 0 /\ j > 0 /\ l \in Line /\ l = newLines[j]
    BY <1>2, <1>8 DEF IsSame
  <2>2. e \in Entries /\ diff' = Append(diff, e)
    BY <1>8, <2>1 DEF Entries, Kinds, Note
  <2>3. \A kinds : texts(kinds)' = Mark(e, kinds) \o texts(kinds)
    BY <1>4, <2>2
  <2>4. texts({" ", "-"})' = <<l>> \o rest /\ texts({" ", "+"})' = <<l>> \o more
        /\ texts({" "})' = <<l>> \o texts({" "})
    <3>1. Mark(e, {" ", "-"}) = <<l>> /\ Mark(e, {" ", "+"}) = <<l>> /\ Mark(e, {" "}) = <<l>>
      BY DEF Mark
    <3> HIDE DEF e, l, texts, rest, more
    <3> QED BY <1>3, <2>3, <3>1
  <2>5. /\ texts({" ", "-"})' = SubSeq(oldLines, i' + 1, M)
        /\ texts({" ", "+"})' = SubSeq(newLines, j' + 1, N)
    <3> HIDE DEF texts, rest, more
    <3> QED BY <1>5, <1>8, <2>1, <2>4
  <2>6. Len(texts({" "}))' + dp[<<i', j'>>] = dp[<<M, N>>]
    <3>1. /\ dp[<<i, j>>] = dp[<<i - 1, j - 1>>] + 1 /\ dp[<<i - 1, j - 1>>] \in Nat
          /\ i' = i - 1 /\ j' = j - 1
      BY <1>1, <1>8, NextCell
    <3>2. Len(texts({" "}))' = 1 + Len(texts({" "})) /\ Len(texts({" "})) \in Nat
      <4> DEFINE k == texts({" "})
      <4>1. k \in Seq(Line)
        BY <1>6
      <4>2. texts({" "})' = <<l>> \o k
        BY <2>4
      <4> HIDE DEF texts, k
      <4>3. Len(<<l>> \o k) = 1 + Len(k) /\ Len(k) \in Nat
        BY <2>1, <4>1
      <4>4. Len(texts({" "}))' = Len(<<l>> \o k)
        BY <4>2
      <4> QED BY <4>3, <4>4 DEF k
    <3>3. dp[<<i', j'>>] = dp[<<i - 1, j - 1>>]
      BY <3>1
    <3> DEFINE x == Len(texts({" "}))
               y == dp[<<i - 1, j - 1>>]
    <3>4. x \in Nat /\ y \in Nat /\ x + (y + 1) = dp[<<M, N>>]
      BY <1>3, <3>1, <3>2
    <3>5. Len(texts({" "}))' = 1 + x
      BY <3>2
    <3> HIDE DEF texts, x, y
    <3>6. (1 + x) + y = dp[<<M, N>>]
      BY <3>4
    <3> QED BY <3>3, <3>5, <3>6, Zenon DEF y
  <2> HIDE DEF texts
  <2> QED BY <1>7, <2>5, <2>6
<1>9. CASE IsAdded /\ Note("+", newLines[j]) /\ i' = i /\ j' = j - 1
  <2> DEFINE l == newLines[j]
             e == [kind |-> "+", text |-> l]
  <2>1. j > 0 /\ l \in Line
    BY <1>2, <1>9 DEF IsAdded
  <2>2. e \in Entries /\ diff' = Append(diff, e)
    BY <1>9, <2>1 DEF Entries, Kinds, Note
  <2>3. \A kinds : texts(kinds)' = Mark(e, kinds) \o texts(kinds)
    BY <1>4, <2>2
  <2>4. texts({" ", "-"})' = rest /\ texts({" ", "+"})' = <<l>> \o more
        /\ texts({" "})' = texts({" "})
    <3>1. Mark(e, {" ", "-"}) = <<>> /\ Mark(e, {" ", "+"}) = <<l>> /\ Mark(e, {" "}) = <<>>
      BY DEF Mark
    <3> DEFINE k == texts({" "})
    <3>2. texts({" ", "-"})' = <<>> \o rest /\ texts({" ", "+"})' = <<l>> \o more
          /\ texts({" "})' = <<>> \o k
      <4> HIDE DEF e, l, texts, rest, more
      <4> QED BY <1>3, <2>3, <3>1
    <3>3. <<>> \o rest = rest /\ <<>> \o k = k
      BY <1>6, ConcatEmptySeq
    <3> HIDE DEF e, l, texts, rest, more
    <3> QED BY <3>2, <3>3
  <2>5. /\ texts({" ", "-"})' = SubSeq(oldLines, i' + 1, M)
        /\ texts({" ", "+"})' = SubSeq(newLines, j' + 1, N)
    <3>1. rest = SubSeq(oldLines, i' + 1, M)
      BY <1>9
    <3> HIDE DEF texts, rest, more
    <3> QED BY <1>5, <1>9, <2>1, <2>4, <3>1
  <2>6. Len(texts({" "}))' + dp[<<i', j'>>] = dp[<<M, N>>]
    <3>1. dp[<<i, j>>] = dp[<<i, j - 1>>] /\ i' = i /\ j' = j - 1
      BY <1>1, <1>9, NextCell
    <3> HIDE DEF texts
    <3> QED BY <1>3, <2>4, <3>1
  <2> HIDE DEF texts
  <2> QED BY <1>7, <2>5, <2>6
<1>10. CASE IsRemoved /\ Note("-", oldLines[i]) /\ i' = i - 1 /\ j' = j
  <2> DEFINE l == oldLines[i]
             e == [kind |-> "-", text |-> l]
  <2>1. i > 0 /\ l \in Line
    BY <1>2, <1>10 DEF IsRemoved
  <2>2. e \in Entries /\ diff' = Append(diff, e)
    BY <1>10, <2>1 DEF Entries, Kinds, Note
  <2>3. \A kinds : texts(kinds)' = Mark(e, kinds) \o texts(kinds)
    BY <1>4, <2>2
  <2>4. texts({" ", "-"})' = <<l>> \o rest /\ texts({" ", "+"})' = more
        /\ texts({" "})' = texts({" "})
    <3>1. Mark(e, {" ", "-"}) = <<l>> /\ Mark(e, {" ", "+"}) = <<>> /\ Mark(e, {" "}) = <<>>
      BY DEF Mark
    <3> DEFINE k == texts({" "})
    <3>2. texts({" ", "-"})' = <<l>> \o rest /\ texts({" ", "+"})' = <<>> \o more
          /\ texts({" "})' = <<>> \o k
      <4> HIDE DEF e, l, texts, rest, more
      <4> QED BY <1>3, <2>3, <3>1
    <3>3. <<>> \o more = more /\ <<>> \o k = k
      BY <1>6, ConcatEmptySeq
    <3> HIDE DEF e, l, texts, rest, more
    <3> QED BY <3>2, <3>3
  <2>5. /\ texts({" ", "-"})' = SubSeq(oldLines, i' + 1, M)
        /\ texts({" ", "+"})' = SubSeq(newLines, j' + 1, N)
    <3>1. more = SubSeq(newLines, j' + 1, N)
      BY <1>10
    <3> HIDE DEF texts, rest, more
    <3> QED BY <1>5, <1>10, <2>1, <2>4, <3>1
  <2>6. Len(texts({" "}))' + dp[<<i', j'>>] = dp[<<M, N>>]
    <3>1. dp[<<i, j>>] = dp[<<i - 1, j>>] /\ i' = i - 1 /\ j' = j
      BY <1>1, <1>10, NextCell
    <3> HIDE DEF texts
    <3> QED BY <1>3, <2>4, <3>1
  <2> HIDE DEF texts
  <2> QED BY <1>7, <2>5, <2>6
<1> QED
  BY <1>8, <1>9, <1>10 DEF Walk

\* At the end of the walk the rest of each file is all of it.
LEMMA TurnWalked == ASSUME DiffTypeOK, TableRight, Walked, Turn PROVE Walked'
<1>1. /\ oldLines' = oldLines /\ newLines' = newLines /\ dp' = dp /\ M' = M /\ N' = N
      /\ stage = "walk" /\ stage' = "show" /\ i = 0 /\ j = 0 /\ diff' = Reverse(diff)
  BY DEF Turn, M, N
<1>2. /\ M \in Nat /\ N \in Nat /\ dp[<<M, N>>] \in Nat
      /\ oldLines \in Seq(Line) /\ newLines \in Seq(Line)
      /\ M = Len(oldLines) /\ N = Len(newLines)
  <2>1. <<M, N>> \in (0..M) \X (0..N)
    BY Sizes
  <2> QED BY <2>1, Sizes DEF DiffTypeOK, M, N
<1>3. dp[<<0, 0>>] = 0
  <2>1. 0 \in 0..M /\ 0 \in 0..N
    BY <1>2
  <2>2. Recurs(0, 0)
    BY <2>1 DEF TableRight, Filled
  <2> QED BY <2>2 DEF Recurs
<1>4. SubSeq(oldLines, 0 + 1, M) = oldLines /\ SubSeq(newLines, 0 + 1, N) = newLines
  <2>1. 0 + 1 = 1
    OBVIOUS
  <2> QED BY <1>2, <2>1, SubSeqFull
<1>5. /\ Texts(Reverse(diff), {" ", "-"}) = oldLines
      /\ Texts(Reverse(diff), {" ", "+"}) = newLines
      /\ Kept + 0 = dp[<<M, N>>]
  BY <1>1, <1>3, <1>4 DEF Walked
<1>6. Len(Texts(Reverse(diff), {" "})) = dp[<<M, N>>]
  <2>1. Kept \in Nat
    <3>1. Reverse(diff) \in Seq(Entries)
      BY Sizes, ReverseTyped
    <3> DEFINE t == Texts(Reverse(diff), {" "})
    <3>2. t \in Seq(Line)
      BY <3>1, TextsTyped
    <3>3. Len(t) \in Nat
      <4> HIDE DEF t
      <4> QED BY <3>2
    <3> QED BY <3>3, Zenon DEF Kept
  <2>2. Kept + 0 = Kept
    BY <2>1
  <2>3. Kept = dp[<<M, N>>]
    BY <1>5, <2>2
  <2> QED BY <2>3 DEF Kept
<1>7. /\ Texts(diff, {" ", "-"})' = oldLines' /\ Texts(diff, {" ", "+"})' = newLines'
      /\ Len(Texts(diff, {" "}))' = dp'[<<M', N'>>]
  BY <1>1, <1>5, <1>6, Zenon
<1> QED
  BY <1>1, <1>7 DEF Walked

\* So the lines noted are the two files throughout.
LEMMA StepWalked == ASSUME DiffTypeOK, TableRight, Walked, [DiffNext]_diffVars PROVE Walked'
<1>1. CASE FillCell
  BY <1>1 DEF FillCell, Walked
<1>2. CASE stage \in {"show", "shown"} /\ stage' \in {"show", "shown"}
           /\ UNCHANGED <<oldLines, newLines, dp, diff>>
  <2>1. M' = M /\ N' = N
    BY <1>2 DEF M, N
  <2>2. /\ Texts(diff, {" ", "-"})' = oldLines' /\ Texts(diff, {" ", "+"})' = newLines'
        /\ Len(Texts(diff, {" "}))' = dp'[<<M', N'>>]
    BY <1>2, <2>1 DEF Walked
  <2> QED BY <1>2, <2>2 DEF Walked
<1>3. CASE UNCHANGED diffVars
  BY <1>3 DEF diffVars, Walked, Kept, M, N
<1>4. CASE ShowLine \/ EndShow
  BY <1>2, <1>4 DEF ShowLine, EndShow
<1> QED
  BY <1>1, <1>3, <1>4, StartWalked, WalkWalked, TurnWalked DEF DiffNext, DiffStep, DiffDone

(***************************************************************************)
(* What PrintGitStyleDiff shows is a difference of the two files, whatever *)
(* they are: without what it adds it is the old file, without what it      *)
(* removes the new one, and no other keeps more of the lines.              *)
(***************************************************************************)
THEOREM FewestChanges == DiffSpec => []DiffIsMinimal
<1>1. DiffInit => DiffTypeOK /\ TableRight /\ Walked
  BY InitTyped, InitRight, InitWalked
<1>2. DiffTypeOK /\ TableRight /\ Walked /\ [DiffNext]_diffVars
        => (DiffTypeOK /\ TableRight /\ Walked)'
  BY StepTyped, StepRight, StepWalked
<1>3. DiffTypeOK /\ TableRight /\ Walked => DiffIsMinimal
  <2> SUFFICES ASSUME DiffTypeOK, TableRight, Walked, stage = "shown"
               PROVE  DiffIsMinimal
    BY DEF DiffIsMinimal
  <2>1. M \in Nat /\ N \in Nat /\ DOMAIN oldLines = 1..M /\ DOMAIN newLines = 1..N
    BY Sizes DEF M, N
  <2>2. dp[<<M, N>>] \in Nat /\ Bounded(M, N, dp[<<M, N>>])
    <3>1. M \in 0..M /\ N \in 0..N /\ Filled(M, N)
      BY <2>1 DEF Filled
    <3> QED BY <3>1 DEF TableRight, DiffTypeOK
  <2>3. /\ LinesOf({" ", "-"}) = oldLines /\ LinesOf({" ", "+"}) = newLines
        /\ Len(LinesOf({" "})) = dp[<<M, N>>]
    <3>1. /\ Texts(diff, {" ", "-"}) = oldLines /\ Texts(diff, {" ", "+"}) = newLines
          /\ Len(Texts(diff, {" "})) = dp[<<M, N>>]
      BY DEF Walked
    <3>2. /\ LinesOf({" ", "-"}) = Texts(diff, {" ", "-"})
          /\ LinesOf({" ", "+"}) = Texts(diff, {" ", "+"})
          /\ LinesOf({" "}) = Texts(diff, {" "})
      BY LinesAreTexts, Zenon
    <3> QED BY <3>1, <3>2
  <2>4. ASSUME NEW places \in SUBSET DOMAIN oldLines,
               Cardinality(places) > Len(LinesOf({" "})),
               NEW f \in [places -> DOMAIN newLines], IsCommon(f)
        PROVE  FALSE
    <3>1. places \in SUBSET (1..M) /\ f \in [places -> 1..N]
      BY <2>1
    <3>2. Cardinality(places) <= dp[<<M, N>>]
      BY <2>2, <2>4, <3>1 DEF Bounded
    <3>3. Cardinality(places) \in Nat
      <4>1. IsFiniteSet(1..M)
        BY <2>1, FS_Interval
      <4>2. IsFiniteSet(places)
        BY <3>1, <4>1, FS_Subset
      <4> QED BY <4>2, FS_CardinalityType
    <3> DEFINE kept == Len(LinesOf({" "}))
    <3>4. kept = dp[<<M, N>>] /\ Cardinality(places) > kept
      BY <2>3, <2>4, Zenon
    <3> HIDE DEF kept
    <3> QED BY <2>2, <3>2, <3>3, <3>4
  <2>5. \A places \in SUBSET DOMAIN oldLines :
          Cardinality(places) > Len(LinesOf({" "}))
            => \A f \in [places -> DOMAIN newLines] : ~IsCommon(f)
    BY <2>4
  <2> QED BY <2>3, <2>5, Zenon DEF DiffIsMinimal
<1> QED
  BY <1>1, <1>2, <1>3, PTL DEF DiffSpec

=============================================================================
