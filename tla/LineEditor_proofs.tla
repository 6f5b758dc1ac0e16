-------------------------- MODULE LineEditor_proofs --------------------------
(***************************************************************************)
(* Theorems about LineEditor, for every input however the reads cut it,    *)
(* and every history, list of names and size of a read.                    *)
(***************************************************************************)
EXTENDS LineEditor, ListLemmas

(* Parts of a line. *)

\* The part of a list from a place on.
LEMMA FromTyped ==
  ASSUME NEW S, NEW s \in Seq(S), NEW n \in Nat \ {0}
  PROVE  /\ From(s, n) \in Seq(S)
         /\ Len(From(s, n)) = IF n <= Len(s) THEN Len(s) - n + 1 ELSE 0
         /\ \A i \in 1 .. Len(s) - n + 1 : From(s, n)[i] = s[n + i - 1]
<1>1. Len(s) \in Nat /\ \A i \in n .. Len(s) : s[i] \in S
  OBVIOUS
<1> QED BY <1>1, SubSeqProperties DEF From

\* The part after the first n elements.
LEMMA AfterTyped ==
  ASSUME NEW S, NEW s \in Seq(S), NEW n \in 0 .. Len(s)
  PROVE  /\ From(s, n + 1) \in Seq(S)
         /\ Len(From(s, n + 1)) = Len(s) - n
         /\ \A i \in 1 .. Len(s) - n : From(s, n + 1)[i] = s[n + i]
<1>1. Len(s) \in Nat /\ n \in Nat /\ n + 1 \in Nat \ {0}
  OBVIOUS
<1>2. /\ From(s, n + 1) \in Seq(S)
      /\ Len(From(s, n + 1)) = IF n + 1 <= Len(s) THEN Len(s) - (n + 1) + 1 ELSE 0
      /\ \A i \in 1 .. Len(s) - (n + 1) + 1 : From(s, n + 1)[i] = s[(n + 1) + i - 1]
  BY <1>1, FromTyped
<1>3. Len(From(s, n + 1)) = Len(s) - n
  BY <1>1, <1>2
<1>4. ASSUME NEW i \in 1 .. Len(s) - n PROVE From(s, n + 1)[i] = s[n + i]
  <2>1. i \in 1 .. Len(s) - (n + 1) + 1 /\ (n + 1) + i - 1 = n + i
    BY <1>1
  <2> QED BY <1>2, <2>1
<1> QED BY <1>2, <1>3, <1>4

\* The first n elements.
LEMMA UptoTyped ==
  ASSUME NEW S, NEW s \in Seq(S), NEW n \in 0 .. Len(s)
  PROVE  /\ SubSeq(s, 1, n) \in Seq(S)
         /\ Len(SubSeq(s, 1, n)) = n
         /\ \A i \in 1 .. n : SubSeq(s, 1, n)[i] = s[i]
<1>1. Len(s) \in Nat /\ \A i \in 1 .. n : s[i] \in S
  OBVIOUS
<1> QED BY <1>1, SubSeqProperties

\* The least of a set of numbers, where it has one.
LEMMA LeastIn ==
  ASSUME NEW S, \A k \in S : k \in Nat, NEW other
  PROVE  /\ S = {} => Least(S, other) = other
         /\ S # {} => Least(S, other) \in S /\ \A k \in S : Least(S, other) <= k
BY MinInSet DEF Least

\* The greatest of a set of numbers up to n, where it has one.
LEMMA GreatestIn ==
  ASSUME NEW n \in Nat, NEW S, \A k \in S : k \in 0 .. n, NEW other
  PROVE  /\ S = {} => Greatest(S, other) = other
         /\ S # {} => Greatest(S, other) \in S /\ \A k \in S : k <= Greatest(S, other)
BY MaxInSet DEF Greatest

\* The same for a set of places of a list.
LEMMA Places ==
  ASSUME NEW n \in Nat, NEW S, \A k \in S : k \in 1 .. n
  PROVE  /\ Least(S, 0) \in 0 .. n /\ (Least(S, 0) # 0 => Least(S, 0) \in 1 .. n)
         /\ Least(S, 1) \in 1 .. n + 1
         /\ Greatest(S, 0) \in 0 .. n /\ (Greatest(S, 0) # 0 => Greatest(S, 0) \in 1 .. n)
<1>1. \A k \in S : k \in Nat /\ k \in 0 .. n /\ k \in 1 .. n
  OBVIOUS
<1>2. /\ Least(S, 0) \in 0 .. n /\ (Least(S, 0) # 0 => Least(S, 0) \in 1 .. n)
      /\ Least(S, 1) \in 1 .. n + 1
  BY <1>1, LeastIn
<1>3. Greatest(S, 0) \in 0 .. n /\ (Greatest(S, 0) # 0 => Greatest(S, 0) \in 1 .. n)
  BY <1>1, GreatestIn
<1> QED BY <1>2, <1>3

\* A line without the blanks around it is a line.
LEMMA TrimTyped ==
  ASSUME NEW s \in Seq(Bytes)
  PROVE  TrimSpace(s) \in Seq(Bytes)
<1> DEFINE text == {k \in DOMAIN s : s[k] \notin Blanks}
<1>1. Len(s) \in Nat /\ DOMAIN s = 1 .. Len(s) /\ \A i \in 1 .. Len(s) : s[i] \in Bytes
  OBVIOUS
<1>2. Len(s) \in Nat /\ \A k \in text : k \in 1 .. Len(s)
  BY <1>1
<1> HIDE DEF text
<1>3. Least(text, 1) \in 1 .. Len(s) + 1 /\ Greatest(text, 0) \in 0 .. Len(s)
  BY <1>2, Places, Zenon
<1>4. SubSeq(s, Least(text, 1), Greatest(text, 0)) \in Seq(Bytes)
  BY <1>1, <1>3, SubSeqProperties
<1> QED BY <1>4 DEF TrimSpace, text

\* A movement by words stays in the line, on its side of the cursor.
LEMMA WordBoundaries ==
  ASSUME NEW s \in Seq(Bytes), NEW c \in 0 .. Len(s)
  PROVE  /\ findWordBoundaryLeft(s, c) \in 0 .. c
         /\ findWordBoundaryRight(s, c) \in c .. Len(s)
<1>1. Len(s) \in Nat /\ c \in Nat
  OBVIOUS
<1>2. findWordBoundaryLeft(s, c) \in 0 .. c
  <2> DEFINE S == {k \in 1 .. c : s[k] \notin Blanks}
             p == Greatest(S, 0)
             T == {k \in 1 .. p : Other(s[k], s[p])}
  <2>1. p \in 0 .. c
    <3>1. \A k \in S : k \in 0 .. c
      BY <1>1
    <3> HIDE DEF S
    <3> QED BY <1>1, <3>1, GreatestIn
  <2> HIDE DEF p
  <2>2. \A k \in T : k \in 0 .. c
    BY <1>1, <2>1
  <2>3. Greatest(T, 0) \in 0 .. c
    <3> HIDE DEF T
    <3> QED BY <1>1, <2>2, GreatestIn
  <2> QED BY <2>3 DEF findWordBoundaryLeft, p
<1>3. findWordBoundaryRight(s, c) \in c .. Len(s)
  <2> DEFINE S == {k \in (c + 1) .. Len(s) : s[k] \notin Blanks}
             p == Least(S, Len(s) + 1)
             T == {k \in p .. Len(s) : Other(s[k], s[p])}
  <2>1. p \in c + 1 .. Len(s) + 1
    <3>1. \A k \in S : k \in c + 1 .. Len(s) + 1
      BY <1>1
    <3> HIDE DEF S
    <3> QED BY <1>1, <3>1, LeastIn
  <2> HIDE DEF p
  <2>2. \A k \in T : k \in c + 1 .. Len(s)
    BY <1>1, <2>1
  <2>3. Least(T, Len(s) + 1) \in c + 1 .. Len(s) + 1
    <3> HIDE DEF T
    <3> QED BY <1>1, <2>2, LeastIn
  <2> QED BY <1>1, <2>3 DEF findWordBoundaryRight, p
<1> QED BY <1>2, <1>3

\* An escape sequence takes no more bytes than are at hand.
LEMMA SequenceTakes ==
  ASSUME NEW r \in Seq(Bytes)
  PROVE  Sequence(r).takes \in 0 .. Len(r)
<1> DEFINE S == {k \in DOMAIN r : r[k] \in Letters \cup {"~"}}
<1>1. Len(r) \in Nat /\ DOMAIN r = 1 .. Len(r)
  OBVIOUS
<1>2. Least(S, 0) \in 0 .. Len(r)
  <2>1. Len(r) \in Nat /\ \A k \in S : k \in 1 .. Len(r)
    BY <1>1
  <2> HIDE DEF S
  <2> QED BY <2>1, Places, Zenon
<1> HIDE DEF S
<1>3. CASE At(r, 1, {"["}) /\ Len(r) >= 2
  <2>1. \A name, n : Means(name, n).takes = n
    BY DEF Means
  <2>2. ControlSequence(r).takes \in 0 .. Len(r)
    <3>1. CASE r[2] \in {"A", "B", "C"}
      <4>1. \E name : ControlSequence(r) = Means(name, 2)
        BY <3>1 DEF ControlSequence
      <4> QED BY <1>1, <1>3, <2>1, <4>1
    <3>2. CASE r[2] = "D"
      <4>1. \/ Len(r) >= 5 /\ ControlSequence(r) = Means("wordLeft", 5)
            \/ ControlSequence(r) = Means("left", 2)
        BY <3>2 DEF ControlSequence
      <4> QED BY <1>1, <1>3, <2>1, <4>1
    <3>3. CASE r[2] = "5"
      <4>1. \/ Len(r) >= 3 /\ ControlSequence(r) = Means(WordMove(r[3]), 3)
            \/ ControlSequence(r) = Means("none", Least(S, 0))
        BY <3>3 DEF ControlSequence, S
      <4> QED BY <1>1, <1>2, <2>1, <4>1
    <3>4. CASE r[2] = "3"
      <4>1. \/ At(r, 5, {"~", "D", "d"}) /\ ControlSequence(r) = Means("killRight", 5)
            \/ At(r, 3, {"~"}) /\ ControlSequence(r) = Means("delete", 3)
            \/ ControlSequence(r) = Means("none", Least(S, 0))
        BY <3>4 DEF ControlSequence, S, At
      <4> QED BY <1>1, <1>2, <2>1, <4>1 DEF At
    <3>5. CASE r[2] = "1"
      <4>1. \/ Len(r) >= 7 /\ ControlSequence(r) = Means("killLeft", 7)
            \/ Len(r) >= 5 /\ ControlSequence(r) = Means(WordMove(r[5]), 5)
            \/ ControlSequence(r) = Means("none", Least(S, 0))
        BY <3>5 DEF ControlSequence, S, At
      <4> QED BY <1>1, <1>2, <2>1, <4>1
    <3>6. CASE r[2] \notin {"A", "B", "C", "D", "5", "3", "1"}
      <4>1. ControlSequence(r) = Means("none", Least(S, 0))
        BY <3>6 DEF ControlSequence, S
      <4> QED BY <1>2, <2>1, <4>1
    <3> QED BY <3>1, <3>2, <3>3, <3>4, <3>5, <3>6
  <2> QED BY <1>3, <2>2 DEF Sequence, At
<1>4. CASE ~(At(r, 1, {"["}) /\ Len(r) >= 2)
  BY <1>1, <1>4 DEF Sequence, At, Means
<1> QED BY <1>3, <1>4

-----------------------------------------------------------------------------
(* What a word can be completed to. *)

Arguments == [text : Seq(Bytes), quoted : BOOLEAN, escaped : BOOLEAN]

\* The bytes that the prompt itself writes are bytes.
LEMMA OwnBytes ==
  /\ {" ", "LF", "CR", "\\", "\"", "{", "}", "TAB", "^C", "^D", "ESC", "other"} \subseteq Bytes
  /\ Exit \in Seq(Bytes)
BY DEF Bytes, Letters, Digits, Blanks, Newlines, Keys, Exit

\* Lists of one and of two elements.
LEMMA FewBytes ==
  ASSUME NEW S, NEW a \in S, NEW b \in S
  PROVE  <<a>> \in Seq(S) /\ <<a, b>> \in Seq(S) /\ Len(<<a>>) = 1 /\ Len(<<a, b>>) = 2
OBVIOUS

\* One byte of the command line, read into the argument.
LEMMA UnquotedTyped ==
  ASSUME NEW arg \in Arguments, NEW c \in Bytes
  PROVE  Unquoted(arg, c) \in Arguments
<1>1. /\ arg = [text |-> arg.text, quoted |-> arg.quoted, escaped |-> arg.escaped]
      /\ arg.text \in Seq(Bytes) /\ arg.quoted \in BOOLEAN /\ arg.escaped \in BOOLEAN
  BY DEF Arguments
<1>2. Append(arg.text, c) \in Seq(Bytes) /\ <<>> \in Seq(Bytes)
  BY <1>1, AppendProperties
<1>3. \A t \in Seq(Bytes), q \in BOOLEAN, e \in BOOLEAN :
        [text |-> t, quoted |-> q, escaped |-> e] \in Arguments
  BY DEF Arguments
<1> QED
  BY <1>1, <1>2, <1>3 DEF Unquoted

\* The argument that is completed is a list of bytes.
LEMMA ArgumentTyped ==
  ASSUME NEW s \in Seq(Bytes)
  PROVE  Argument(s) \in Arguments
<1> DEFINE n == Len(s)
           b == [text |-> <<>>, quoted |-> FALSE, escaped |-> FALSE]
           Reads(f) == f = [k \in 0 .. n |-> IF k = 0 THEN b ELSE Unquoted(f[k - 1], s[k])]
           step == [k \in 1 .. n |-> [arg \in Arguments |-> Unquoted(arg, s[k])]]
<1>1. n \in Nat /\ b \in Arguments /\ \A k \in 1 .. n : s[k] \in Bytes
  BY DEF Arguments
<1>2. step \in [1 .. n -> [Arguments -> Arguments]]
  BY <1>1, UnquotedTyped
<1>3. PICK f \in [0 .. n -> Arguments] :
        f[0] = b /\ \A k \in 1 .. n : f[k] = step[k][f[k - 1]]
  <2>1. n \in Nat /\ b \in Arguments
    BY <1>1
  <2>2. \A m \in Nat : \A B \in Arguments, st \in [1 .. m -> [Arguments -> Arguments]] :
          \E f \in [0 .. m -> Arguments] :
            f[0] = B /\ \A k \in 1 .. m : f[k] = st[k][f[k - 1]]
    BY LoopExists
  <2> HIDE DEF n, b, step
  <2> QED BY <2>1, <1>2, <2>2, Zenon
<1>4. Reads(f)
  <2>1. ASSUME NEW k \in 1 .. n PROVE f[k] = Unquoted(f[k - 1], s[k])
    <3>1. f[k - 1] \in Arguments
      BY <1>1, <1>3
    <3>2. f[k] = step[k][f[k - 1]]
      BY <1>3
    <3> QED BY <3>1, <3>2
  <2> QED BY <1>1, <1>3, <2>1
<1> DEFINE g == CHOOSE h : Reads(h)
<1>5. Reads(g)
  BY <1>4
<1>6. g[n] \in Arguments
  <2>1. g[0] \in Arguments /\ \A k \in 1 .. n : g[k - 1] \in Arguments => g[k] \in Arguments
    <3> HIDE DEF g, b
    <3> QED BY <1>1, <1>5, UnquotedTyped
  <2> HIDE DEF g, n
  <2>2. \A k \in 0 .. n : g[k] \in Arguments
    BY <1>1, <2>1, LoopKeeps, Zenon
  <2> QED BY <1>1, <2>2
<1>7. Argument(s) = g[n]
  BY DEF Argument
<1> QED
  BY <1>6, <1>7

\* What is left of a candidate after what was typed.
LEMMA RestTyped ==
  ASSUME NEW s \in Seq(Bytes), NEW t \in Seq(Bytes)
  PROVE  Rest(t, s) \in Seq(Bytes)
BY FromTyped DEF Rest

Lists == Seq(Seq(Bytes))

\* The matches are lists of bytes.
LEMMA MatchesTyped ==
  ASSUME NEW s \in Seq(Bytes)
  PROVE  Matches(s) \in Seq(Seq(Bytes))
<1> DEFINE n == Len(Names)
           word == Argument(s)
           end == IF word.quoted THEN <<"\"", " ">> ELSE <<" ">>
           Found(seen, k) == IF IsPrefix(word.text, Names[k])
                               THEN Append(seen, Rest(Names[k], word.text) \o end)
                               ELSE seen
           Finds(f) == f = [k \in 0 .. n |-> IF k = 0 THEN <<>> ELSE Found(f[k - 1], k)]
           step == [k \in 1 .. n |-> [seen \in Lists |-> Found(seen, k)]]
<1>1. n \in Nat /\ <<>> \in Lists /\ \A k \in 1 .. n : Names[k] \in Seq(Bytes)
  BY TextAssumption DEF Lists
<1>2. word.text \in Seq(Bytes) /\ end \in Seq(Bytes)
  <2>1. word \in Arguments
    BY ArgumentTyped
  <2>2. <<"\"", " ">> \in Seq(Bytes) /\ <<" ">> \in Seq(Bytes)
    BY OwnBytes, FewBytes
  <2>3. end \in Seq(Bytes)
    <3> HIDE DEF word
    <3> QED BY <2>2
  <2> HIDE DEF word
  <2> QED BY <2>1, <2>3 DEF Arguments
<1>3. ASSUME NEW k \in 1 .. n, NEW seen \in Lists PROVE Found(seen, k) \in Lists
  <2> HIDE DEF word, end
  <2>1. Rest(Names[k], word.text) \in Seq(Bytes)
    BY <1>1, <1>2, RestTyped
  <2>2. Rest(Names[k], word.text) \o end \in Seq(Bytes)
    BY <1>2, <2>1, ConcatProperties
  <2>3. Append(seen, Rest(Names[k], word.text) \o end) \in Lists
    BY <2>2, AppendProperties DEF Lists
  <2> QED BY <2>3
<1>4. step \in [1 .. n -> [Lists -> Lists]]
  <2> HIDE DEF Found
  <2> QED BY <1>3
<1>5. PICK f \in [0 .. n -> Lists] :
        f[0] = <<>> /\ \A k \in 1 .. n : f[k] = step[k][f[k - 1]]
  <2>1. n \in Nat /\ <<>> \in Lists
    BY <1>1
  <2>2. \A m \in Nat : \A B \in Lists, st \in [1 .. m -> [Lists -> Lists]] :
          \E f \in [0 .. m -> Lists] :
            f[0] = B /\ \A k \in 1 .. m : f[k] = st[k][f[k - 1]]
    BY LoopExists
  <2> HIDE DEF n, step
  <2> QED BY <2>1, <1>4, <2>2, Zenon
<1>6. Finds(f)
  <2>1. ASSUME NEW k \in 1 .. n PROVE f[k] = Found(f[k - 1], k)
    <3> HIDE DEF Found
    <3>1. f[k - 1] \in Lists
      BY <1>1, <1>5
    <3>2. f[k] = step[k][f[k - 1]]
      BY <1>5
    <3> QED BY <3>1, <3>2
  <2> HIDE DEF Found
  <2> QED BY <1>1, <1>5, <2>1
<1> DEFINE g == CHOOSE h : Finds(h)
<1>7. Finds(g)
  BY <1>6
<1>8. g[n] \in Lists
  <2>3. ASSUME NEW k \in 1 .. n PROVE g[k] = Found(g[k - 1], k)
    <3>1. k \in 0 .. n /\ k # 0
      BY <1>1
    <3> HIDE DEF g, Found, n
    <3> QED BY <1>7, <3>1, Zenon
  <2>1. ASSUME NEW k \in 1 .. n, g[k - 1] \in Lists PROVE g[k] \in Lists
    <3> HIDE DEF g, Found
    <3> QED BY <1>3, <2>1, <2>3
  <2>2. g[0] \in Lists
    <3> HIDE DEF g, Found
    <3> QED BY <1>1, <1>7
  <2> HIDE DEF g, n
  <2>4. \A k \in 0 .. n : g[k] \in Lists
    BY <1>1, <2>1, <2>2, LoopKeeps, Zenon
  <2> QED BY <1>1, <2>4
<1>9. Matches(s) = g[n]
  BY DEF Matches
<1> QED
  BY <1>8, <1>9 DEF Lists

\* A suggestion goes on from a command of the history that may be offered, or
\* from a name.
LEMMA SuggestionParts ==
  ASSUME NEW s \in Seq(Bytes), history \in Seq(Seq(Bytes))
  PROVE  /\ LastWord(s) \in Seq(Bytes)
         /\ \/ Suggestion(s) = <<>>
            \/ \E k \in 1 .. Len(history) :
                 Offered(history[k], s) /\ Suggestion(s) = Rest(history[k], s)
            \/ \E k \in 1 .. Len(Names) :
                 Suggestion(s) = Append(Rest(Names[k], LastWord(s)), " ")
<1> DEFINE word == LastWord(s)
           H == {k \in DOMAIN history : Offered(history[k], s)}
           N == {k \in DOMAIN Names : Extends(Names[k], word)}
           newest == Greatest(H, 0)
           first == Least(N, 0)
<1>1. /\ Len(history) \in Nat /\ DOMAIN history = 1 .. Len(history)
      /\ Len(Names) \in Nat /\ DOMAIN Names = 1 .. Len(Names)
      /\ \A k \in 1 .. Len(history) : history[k] \in Seq(Bytes)
      /\ \A k \in 1 .. Len(Names) : Names[k] \in Seq(Bytes)
  BY TextAssumption
<1>2. newest # 0 => newest \in 1 .. Len(history) /\ Offered(history[newest], s)
  <2>1. Len(history) \in Nat /\ \A k \in H : k \in 1 .. Len(history)
    BY <1>1
  <2>2. newest # 0 => newest \in H
    <3>1. \A k \in H : k \in 0 .. Len(history)
      BY <1>1
    <3> HIDE DEF H
    <3> QED BY <1>1, <3>1, GreatestIn
  <2> QED BY <2>1, <2>2
<1>3. first # 0 => first \in 1 .. Len(Names)
  <2>1. Len(Names) \in Nat /\ \A k \in N : k \in 1 .. Len(Names)
    BY <1>1
  <2> HIDE DEF N
  <2> QED BY <2>1, Places, Zenon
<1>4. word \in Seq(Bytes)
  <2> DEFINE B == {k \in DOMAIN s : s[k] \in Blanks \cup {"\"", "{", "}", "\\"}}
  <2>1. Greatest(B, 0) \in 0 .. Len(s)
    <3>1. Len(s) \in Nat /\ DOMAIN s = 1 .. Len(s)
      OBVIOUS
    <3>2. \A k \in B : k \in 1 .. Len(s)
      BY <3>1
    <3> HIDE DEF B
    <3> QED BY <3>1, <3>2, Places, Zenon
  <2>2. Greatest(B, 0) + 1 \in Nat \ {0}
    <3> HIDE DEF B
    <3> QED BY <2>1
  <2> HIDE DEF B
  <2>3. From(s, Greatest(B, 0) + 1) \in Seq(Bytes)
    BY <2>2, FromTyped
  <2> QED BY <2>3 DEF LastWord, B
<1> HIDE DEF word, H, N, newest, first
<1>5. \/ Suggestion(s) = <<>>
      \/ newest # 0 /\ Suggestion(s) = Rest(history[newest], s)
      \/ first # 0 /\ Suggestion(s) = Append(Rest(Names[first], word), " ")
  BY DEF Suggestion, word, newest, first, H, N
<1> QED
  BY <1>2, <1>3, <1>4, <1>5 DEF word

\* A suggestion is a list of bytes.
LEMMA SuggestionTyped ==
  ASSUME NEW s \in Seq(Bytes), history \in Seq(Seq(Bytes))
  PROVE  Suggestion(s) \in Seq(Bytes)
<1>1. \A k \in 1 .. Len(history) : Rest(history[k], s) \in Seq(Bytes)
  BY RestTyped
<1>2. LastWord(s) \in Seq(Bytes)
  BY SuggestionParts
<1>3. \A k \in 1 .. Len(Names) : Append(Rest(Names[k], LastWord(s)), " ") \in Seq(Bytes)
  <2>1. \A k \in 1 .. Len(Names) : Rest(Names[k], LastWord(s)) \in Seq(Bytes)
    BY <1>2, TextAssumption, RestTyped
  <2> QED BY <2>1, OwnBytes, AppendProperties
<1>4. <<>> \in Seq(Bytes)
  OBVIOUS
<1> QED
  BY <1>1, <1>3, <1>4, SuggestionParts, Zenon

-----------------------------------------------------------------------------
(***************************************************************************)
(* Types, by the groups of variables that the parts of a key change.       *)
(***************************************************************************)
ReadsTyped ==
  /\ unread \in Seq(Bytes) /\ chunk \in Seq(Bytes) /\ pendingInput \in Seq(Bytes)
  /\ skipNextInputLF \in BOOLEAN
  /\ Len(chunk) + Len(pendingInput) <= BufSize
LineTyped ==
  /\ buffer \in Seq(Bytes) /\ commandPrefix \in Seq(Bytes)
  /\ cursor \in 0 .. Len(buffer)
RecallTyped ==
  /\ history \in Seq(Seq(Bytes))
  /\ historyIdx \in 0 .. Len(history)
GhostTyped == ghostSuggestion \in Seq(Bytes)
CompletionTyped ==
  /\ lastWasTab \in BOOLEAN /\ lastAddedLen \in Nat
  /\ autoCompleteMatches \in Lists
  /\ autoCompleteMatches # <<>> => autoCompleteIndex \in 0 .. (Len(autoCompleteMatches) - 1)
MainTyped ==
  /\ command \in Seq(Bytes) /\ failed \in BOOLEAN
  /\ phase \in {"reading", "returned", "exited"}

Typed ==
  /\ ReadsTyped /\ LineTyped /\ RecallTyped /\ GhostTyped /\ CompletionTyped /\ MainTyped

\* The groups of variables together are the type invariant.
LEMMA TypedTypeOK == Typed => TypeOK
BY DEF Typed, TypeOK, ReadsTyped, LineTyped, RecallTyped, GhostTyped, CompletionTyped, MainTyped

\* The prompt starts in its types.
LEMMA InitTyped == Init => Typed
<1> SUFFICES ASSUME Init PROVE Typed
  OBVIOUS
<1>1. input \in Seq(Bytes) /\ history \in Seq(Seq(Bytes)) /\ Len(history) \in Nat
  BY TextAssumption DEF Init
<1>2. <<>> \in Seq(Bytes) /\ <<>> \in Lists /\ Len(<<>>) = 0
  BY DEF Lists
<1>3. ReadsTyped
  <2>1. /\ unread = input /\ chunk = <<>> /\ pendingInput = <<>>
        /\ skipNextInputLF = FALSE
    BY DEF Init
  <2>2. Len(chunk) = 0 /\ Len(pendingInput) = 0 /\ BufSize \in Nat
    BY <1>2, <2>1, BufSizeAssumption
  <2>3. Len(chunk) + Len(pendingInput) <= BufSize
    BY <2>2
  <2> QED BY <1>1, <1>2, <2>1, <2>3 DEF ReadsTyped
<1>4. LineTyped
  BY <1>2 DEF Init, LineTyped
<1>5. RecallTyped
  BY <1>1 DEF Init, RecallTyped
<1>6. GhostTyped /\ CompletionTyped /\ MainTyped
  BY <1>2 DEF Init, GhostTyped, CompletionTyped, MainTyped
<1> QED
  BY <1>3, <1>4, <1>5, <1>6 DEF Typed

\* What a part of a step leaves in its types.
LEMMA ConsumeTyped ==
  ASSUME ReadsTyped, NEW n \in 0 .. Len(chunk), Consume(n)
  PROVE  ReadsTyped'
<1>1. Len(chunk) \in Nat /\ Len(pendingInput) \in Nat /\ BufSize \in Nat
  BY BufSizeAssumption DEF ReadsTyped
<1>3. From(chunk, n + 1) \in Seq(Bytes) /\ Len(From(chunk, n + 1)) = Len(chunk) - n
  BY AfterTyped DEF ReadsTyped
<1>4. Len(chunk') + Len(pendingInput') <= BufSize
  BY <1>1, <1>3 DEF ReadsTyped, Consume
<1> QED
  BY <1>3, <1>4 DEF ReadsTyped, Consume

\* Forgetting the completion.
LEMMA NotTabTyped ==
  ASSUME CompletionTyped, NotTab
  PROVE  CompletionTyped'
BY DEF CompletionTyped, NotTab

\* The main loop, where it is left alone.
LEMMA MainUnchanged == MainTyped /\ UNCHANGED main => MainTyped'
BY DEF MainTyped, main

\* A key is one of the bytes at hand.
LEMMA PressedByte ==
  ASSUME ReadsTyped, NEW c, Pressed(c)
  PROVE  Len(chunk) \in Nat /\ 1 \in 1 .. Len(chunk) /\ c \in Bytes
BY DEF ReadsTyped, Pressed

\* A part of the line taken out, the cursor where it was.
LEMMA CutTyped ==
  ASSUME LineTyped, NEW to \in 0 .. Len(buffer), NEW from \in 0 .. to,
         Cut(from, to), UNCHANGED commandPrefix
  PROVE  LineTyped'
<1>1. Len(buffer) \in Nat /\ buffer \in Seq(Bytes) /\ from \in 0 .. Len(buffer)
  BY DEF LineTyped
<1>2. SubSeq(buffer, 1, from) \in Seq(Bytes) /\ Len(SubSeq(buffer, 1, from)) = from
  BY <1>1, UptoTyped
<1>3. From(buffer, to + 1) \in Seq(Bytes) /\ Len(From(buffer, to + 1)) \in Nat
  BY <1>1, AfterTyped
<1>4. /\ SubSeq(buffer, 1, from) \o From(buffer, to + 1) \in Seq(Bytes)
      /\ Len(SubSeq(buffer, 1, from) \o From(buffer, to + 1))
           = from + Len(From(buffer, to + 1))
  BY <1>2, <1>3, ConcatProperties
<1> QED
  BY <1>1, <1>3, <1>4 DEF LineTyped, Cut

\* Bytes put in at the cursor.
LEMMA InsertTyped ==
  ASSUME LineTyped, NEW text \in Seq(Bytes), Insert(text)
  PROVE  buffer' \in Seq(Bytes) /\ Len(buffer') = Len(buffer) + Len(text)
<1>1. Len(buffer) \in Nat /\ buffer \in Seq(Bytes) /\ cursor \in 0 .. Len(buffer)
      /\ cursor + 1 \in Nat \ {0} /\ Len(text) \in Nat
  BY DEF LineTyped
<1> DEFINE before == SubSeq(buffer, 1, cursor)
           after == From(buffer, cursor + 1)
<1>2. before \in Seq(Bytes) /\ Len(before) = cursor
  BY <1>1, UptoTyped
<1>3. after \in Seq(Bytes) /\ Len(after) = Len(buffer) - cursor
  BY <1>1, AfterTyped
<1>4. buffer' = (before \o text) \o after
  BY DEF Insert
<1> HIDE DEF before, after
<1>5. before \o text \in Seq(Bytes) /\ Len(before \o text) = cursor + Len(text)
  BY <1>1, <1>2, ConcatProperties
<1>6. (before \o text) \o after \in Seq(Bytes)
      /\ Len((before \o text) \o after) = Len(before \o text) + Len(after)
  BY <1>3, <1>5, ConcatProperties
<1> QED
  BY <1>1, <1>3, <1>4, <1>5, <1>6

\* What the prompt returns.
LEMMA ReturnTyped ==
  ASSUME NEW result \in Seq(Bytes), Return(result), failed' \in BOOLEAN
  PROVE  LineTyped' /\ MainTyped'
BY DEF Return, LineTyped, MainTyped

\* What is kept for the next prompt is no more than was read.
LEMMA KeepTyped ==
  ASSUME ReadsTyped, NEW rest \in Seq(Bytes), Len(rest) <= Len(chunk) + Len(pendingInput),
         Keep(rest), skipNextInputLF' \in BOOLEAN
  PROVE  ReadsTyped'
<1>1. Len(chunk) \in Nat /\ Len(pendingInput) \in Nat /\ BufSize \in Nat /\ Len(rest) \in Nat
      /\ <<>> \in Seq(Bytes) /\ Len(<<>>) = 0
  BY BufSizeAssumption DEF ReadsTyped
<1> QED
  BY <1>1 DEF ReadsTyped, Keep

\* The smaller and the greater of two numbers.
LEMMA TwoNumbers ==
  ASSUME NEW a \in Int, NEW b \in Int
  PROVE  /\ Min({a, b}) = IF a <= b THEN a ELSE b
         /\ Max({a, b}) = IF a >= b THEN a ELSE b
<1>1. CASE a <= b
  <2>1. \A x \in {a, b} : (\A y \in {a, b} : x <= y) => x = a
    BY <1>1
  <2>2. a \in {a, b} /\ \A y \in {a, b} : a <= y
    BY <1>1
  <2>3. Min({a, b}) = a
    BY <2>1, <2>2 DEF Min
  <2>4. \A x \in {a, b} : (\A y \in {a, b} : x >= y) => x = b
    BY <1>1
  <2>5. b \in {a, b} /\ \A y \in {a, b} : b >= y
    BY <1>1
  <2>6. Max({a, b}) = b
    BY <2>4, <2>5 DEF Max
  <2> QED BY <1>1, <2>3, <2>6
<1>2. CASE ~(a <= b)
  <2>1. \A x \in {a, b} : (\A y \in {a, b} : x <= y) => x = b
    BY <1>2
  <2>2. b \in {a, b} /\ \A y \in {a, b} : b <= y
    BY <1>2
  <2>3. Min({a, b}) = b
    BY <2>1, <2>2 DEF Min
  <2>4. \A x \in {a, b} : (\A y \in {a, b} : x >= y) => x = a
    BY <1>2
  <2>5. a \in {a, b} /\ \A y \in {a, b} : a >= y
    BY <1>2
  <2>6. Max({a, b}) = a
    BY <2>4, <2>5 DEF Max
  <2> QED BY <1>2, <2>3, <2>6
<1> QED BY <1>1, <1>2

\* A key that edits leaves the bytes, the completion and the main loop in their
\* types, and the lines before alone.
LEMMA EditsTyped ==
  ASSUME Typed, NEW c, NEW n \in 0 .. Len(chunk), Edits(c, n)
  PROVE  /\ ReadsTyped' /\ CompletionTyped' /\ MainTyped'
         /\ UNCHANGED commandPrefix
BY ConsumeTyped, NotTabTyped, MainUnchanged DEF Edits, Typed

\* The same of a key of one byte.
LEMMA KeyTyped ==
  ASSUME Typed, NEW c, Edits(c, 1)
  PROVE  /\ ReadsTyped' /\ CompletionTyped' /\ MainTyped'
         /\ UNCHANGED commandPrefix
<1>1. 1 \in 0 .. Len(chunk)
  BY PressedByte DEF Edits, Typed
<1> QED
  BY <1>1, EditsTyped

\* The same of an escape sequence.
LEMMA EscapeTyped ==
  ASSUME Typed, NEW names, Escape(names)
  PROVE  /\ ReadsTyped' /\ CompletionTyped' /\ MainTyped'
         /\ UNCHANGED commandPrefix
<1>1. Len(chunk) \in Nat /\ chunk \in Seq(Bytes) /\ chunk # <<>>
  BY DEF Escape, Edits, Pressed, Typed, ReadsTyped
<1>2. Tail(chunk) \in Seq(Bytes) /\ Len(Tail(chunk)) = Len(chunk) - 1
  BY <1>1, HeadTailProperties
<1>3. Sequence(Tail(chunk)).takes \in 0 .. Len(chunk) - 1
  BY <1>2, SequenceTakes
<1>4. 1 + Sequence(Tail(chunk)).takes \in 0 .. Len(chunk)
  BY <1>1, <1>3
<1> QED
  BY <1>4, EditsTyped DEF Escape

\* What Tab makes of the line: the text before, the match, and the text after.
Completes(before, added, after) ==
  /\ buffer' = (before \o added) \o after
  /\ before = SubSeq(buffer, 1, MatchStart) /\ Len(before) = MatchStart
  /\ MatchStart \in 0 .. cursor
  /\ after = From(buffer, cursor + 1) /\ Len(after) = Len(buffer) - cursor
  /\ lastAddedLen' = Len(added)
  /\ cursor' = Len(before) + Len(added)
  /\ autoCompleteMatches' # <<>> => added = autoCompleteMatches'[autoCompleteIndex' + 1]

\* Tab puts a match between what is before the argument and what is after the cursor.
LEMMA AutocompleteParts ==
  ASSUME Typed, HandleAutocomplete
  PROVE  /\ \E before, added, after \in Seq(Bytes) : Completes(before, added, after)
         /\ CompletionTyped'
<1> DEFINE at == MatchStart
           before == SubSeq(buffer, 1, at)
           matches == IF Again THEN autoCompleteMatches ELSE Matches(before)
           index == IF Again THEN (autoCompleteIndex + 1) % Len(matches) ELSE 0
           added == IF matches = <<>> THEN <<>> ELSE matches[index + 1]
           after == From(buffer, cursor + 1)
<1>1. /\ Pressed("TAB") /\ Consume(1) /\ lastWasTab' = TRUE
      /\ Again => lastAddedLen <= cursor
      /\ buffer' = before \o added \o after
      /\ cursor' = at + Len(added)
      /\ autoCompleteMatches' = matches /\ autoCompleteIndex' = index
      /\ lastAddedLen' = Len(added)
      /\ UNCHANGED <<commandPrefix, recall, ghostSuggestion, main>>
  BY DEF HandleAutocomplete
<1>2. /\ Len(buffer) \in Nat /\ buffer \in Seq(Bytes) /\ cursor \in 0 .. Len(buffer)
      /\ lastAddedLen \in Nat
  BY DEF Typed, LineTyped, CompletionTyped
<1>3. at \in 0 .. cursor /\ at \in 0 .. Len(buffer)
  BY <1>1, <1>2 DEF MatchStart
<1> HIDE DEF at
<1>4. before \in Seq(Bytes) /\ Len(before) = at
  BY <1>2, <1>3, UptoTyped
<1> HIDE DEF before
<1>5. matches \in Lists
  BY <1>4, MatchesTyped DEF Typed, CompletionTyped, Lists
<1>6. matches # <<>> => index \in 0 .. Len(matches) - 1
  <2>1. Len(matches) \in Nat /\ (matches # <<>> => Len(matches) > 0)
    BY <1>5 DEF Lists
  <2>2. CASE Again
    <3>1. autoCompleteIndex + 1 \in Int /\ Len(matches) > 0
      BY <2>1, <2>2 DEF Again, Typed, CompletionTyped, Lists
    <3>2. index = (autoCompleteIndex + 1) % Len(matches)
      BY <2>2
    <3> HIDE DEF matches, index
    <3> QED BY <2>1, <3>1, <3>2
  <2>3. CASE ~Again
    <3>1. index = 0
      BY <2>3
    <3> HIDE DEF matches, index
    <3> QED BY <2>1, <3>1
  <2> QED BY <2>2, <2>3
<1> HIDE DEF matches, index
<1>7. added \in Seq(Bytes) /\ Len(added) \in Nat
  <2>1. CASE matches = <<>>
    BY <2>1
  <2>2. CASE matches # <<>>
    <3>1. Len(matches) \in Nat /\ index + 1 \in 1 .. Len(matches)
      BY <1>5, <1>6, <2>2 DEF Lists
    <3>2. matches[index + 1] \in Seq(Bytes)
      BY <1>5, <3>1 DEF Lists
    <3> QED BY <2>2, <3>2
  <2> QED BY <2>1, <2>2
<1>8. after \in Seq(Bytes) /\ Len(after) = Len(buffer) - cursor
  BY <1>2, AfterTyped
<1> HIDE DEF added, after
<1>9. CompletionTyped'
  BY <1>1, <1>5, <1>6, <1>7 DEF CompletionTyped
<1>10. Completes(before, added, after)
  <2>1. autoCompleteMatches' # <<>> => added = autoCompleteMatches'[autoCompleteIndex' + 1]
    BY <1>1 DEF added
  <2> QED BY <1>1, <1>3, <1>4, <1>8, <2>1 DEF Completes, at, before, after
<1> QED
  BY <1>4, <1>7, <1>8, <1>9, <1>10

\* So Tab leaves the cursor in the line, after the match.
LEMMA AutocompleteTyped ==
  ASSUME Typed, HandleAutocomplete
  PROVE  Typed'
<1>1. PICK before, added, after \in Seq(Bytes) : Completes(before, added, after)
  BY AutocompleteParts
<1>2. /\ Pressed("TAB") /\ Consume(1)
      /\ UNCHANGED <<commandPrefix, recall, ghostSuggestion, main>>
  BY DEF HandleAutocomplete
<1>3. Len(before) \in Nat /\ Len(added) \in Nat /\ Len(after) \in Nat
  OBVIOUS
<1>4. before \o added \in Seq(Bytes) /\ Len(before \o added) = Len(before) + Len(added)
  BY ConcatProperties
<1>5. /\ (before \o added) \o after \in Seq(Bytes)
      /\ Len((before \o added) \o after) = Len(before \o added) + Len(after)
  BY <1>4, ConcatProperties
<1>6. LineTyped'
  <2>1. buffer' = (before \o added) \o after /\ cursor' = Len(before) + Len(added)
    BY <1>1, Zenon DEF Completes
  <2>2. buffer' \in Seq(Bytes) /\ Len(buffer') = Len(before) + Len(added) + Len(after)
    BY <1>4, <1>5, <2>1
  <2>3. cursor' \in 0 .. Len(buffer')
    BY <1>3, <2>1, <2>2
  <2> QED BY <1>2, <2>2, <2>3 DEF LineTyped, Typed
<1>7. ReadsTyped'
  <2>1. 1 \in 0 .. Len(chunk)
    BY <1>2, PressedByte DEF Typed
  <2> QED BY <1>2, <2>1, ConsumeTyped DEF Typed
<1>8. RecallTyped' /\ GhostTyped' /\ MainTyped'
  BY <1>2, MainUnchanged DEF Typed, RecallTyped, recall, GhostTyped
<1> QED
  BY <1>6, <1>7, <1>8, AutocompleteParts DEF Typed

\* The steps that read.
LEMMA ReadingTyped ==
  ASSUME Typed, ReadPending \/ Read \/ EndOfInput \/ ReadFails \/ SkipLF
  PROVE  Typed'
<1>1. /\ Len(chunk) \in Nat /\ Len(pendingInput) \in Nat /\ Len(unread) \in Nat
      /\ BufSize \in Nat \ {0}
      /\ chunk \in Seq(Bytes) /\ pendingInput \in Seq(Bytes) /\ unread \in Seq(Bytes)
  BY BufSizeAssumption DEF Typed, ReadsTyped
<1>2. CASE ReadPending
  <2> DEFINE n == Min({BufSize, Len(pendingInput)})
  <2>1. n \in 0 .. Len(pendingInput) /\ n <= BufSize
    <3>1. BufSize \in Int /\ Len(pendingInput) \in Int
      BY <1>1
    <3>2. n = IF BufSize <= Len(pendingInput) THEN BufSize ELSE Len(pendingInput)
      BY <3>1, TwoNumbers, Zenon
    <3> HIDE DEF n
    <3> QED BY <1>1, <3>2
  <2>2. /\ chunk' = SubSeq(pendingInput, 1, n) /\ pendingInput' = From(pendingInput, n + 1)
        /\ chunk = <<>>
        /\ UNCHANGED <<unread, skipNextInputLF, line, recall, ghostSuggestion, completion, main>>
    BY <1>2 DEF ReadPending, Idle
  <2> HIDE DEF n
  <2>3. chunk' \in Seq(Bytes) /\ Len(chunk') = n
    BY <1>1, <2>1, <2>2, UptoTyped
  <2>4. pendingInput' \in Seq(Bytes) /\ Len(pendingInput') = Len(pendingInput) - n
    BY <1>1, <2>1, <2>2, AfterTyped
  <2>5. Len(chunk') + Len(pendingInput') <= BufSize
    <3>1. Len(chunk) + Len(pendingInput) <= BufSize /\ Len(chunk) = 0
      BY <2>2 DEF Typed, ReadsTyped
    <3> QED BY <1>1, <2>1, <2>3, <2>4, <3>1
  <2>6. ReadsTyped'
    BY <2>2, <2>3, <2>4, <2>5 DEF ReadsTyped, Typed
  <2> QED
    BY <2>2, <2>6 DEF Typed, LineTyped, RecallTyped, GhostTyped, CompletionTyped, MainTyped,
                      line, recall, completion, main
<1>3. CASE Read
  <2>1. PICK n \in 1 .. Min({BufSize, Len(unread)}) :
          chunk' = SubSeq(unread, 1, n) /\ unread' = From(unread, n + 1)
    BY <1>3 DEF Read
  <2>2. /\ pendingInput = <<>>
        /\ UNCHANGED <<pendingInput, skipNextInputLF, line, recall, ghostSuggestion, completion,
                       main>>
    BY <1>3 DEF Read
  <2>3. n \in 0 .. Len(unread) /\ n <= BufSize
    <3>1. BufSize \in Int /\ Len(unread) \in Int
      BY <1>1
    <3>2. Min({BufSize, Len(unread)}) = IF BufSize <= Len(unread) THEN BufSize ELSE Len(unread)
      BY <3>1, TwoNumbers, Zenon
    <3> QED BY <1>1, <3>2
  <2>4. chunk' \in Seq(Bytes) /\ Len(chunk') = n
    BY <1>1, <2>1, <2>3, UptoTyped
  <2>5. unread' \in Seq(Bytes)
    BY <1>1, <2>1, <2>3, AfterTyped
  <2>6. Len(pendingInput') = 0
    BY <2>2
  <2>7. Len(chunk') + Len(pendingInput') <= BufSize
    BY <1>1, <2>3, <2>4, <2>6
  <2>8. ReadsTyped'
    BY <2>2, <2>4, <2>5, <2>7 DEF ReadsTyped, Typed
  <2> QED
    BY <2>2, <2>8 DEF Typed, LineTyped, RecallTyped, GhostTyped, CompletionTyped, MainTyped,
                      line, recall, completion, main
<1>4. CASE EndOfInput \/ ReadFails
  <2>1. \E result \in Seq(Bytes) : Return(result)
    <3>1. Return(Exit) \/ Return(<<>>)
      BY <1>4 DEF EndOfInput, ReadFails
    <3>2. Exit \in Seq(Bytes)
      BY OwnBytes
    <3>3. <<>> \in Seq(Bytes)
      OBVIOUS
    <3> QED BY <3>1, <3>2, <3>3, Zenon
  <2>2. /\ UNCHANGED <<reads, history, ghostSuggestion, completion>>
        /\ historyIdx' = Len(history) /\ failed' \in BOOLEAN
    BY <1>4 DEF EndOfInput, ReadFails, Typed, MainTyped
  <2>3. LineTyped' /\ MainTyped'
    BY <2>1, <2>2, ReturnTyped
  <2>4. RecallTyped'
    <3>1. Len(history) \in Nat
      BY DEF Typed, RecallTyped
    <3> QED BY <2>2, <3>1 DEF Typed, RecallTyped
  <2> QED
    BY <2>2, <2>3, <2>4 DEF Typed, ReadsTyped, GhostTyped, CompletionTyped, reads, completion
<1>5. CASE SkipLF
  <2>1. 1 \in 0 .. Len(chunk)
    BY <1>1, <1>5 DEF SkipLF, StartsWithLF
  <2>2. ReadsTyped'
    BY <1>5, <2>1, ConsumeTyped DEF SkipLF, Typed
  <2> QED
    BY <1>5, <2>2 DEF SkipLF, Typed, LineTyped, RecallTyped, GhostTyped, CompletionTyped,
                      MainTyped, line, recall, completion, main
<1> QED BY <1>2, <1>3, <1>4, <1>5

\* What is kept of the bytes at hand after the one pressed.
LEMMA RestOfRead ==
  ASSUME Typed, NEW c, Pressed(c)
  PROVE  /\ Tail(chunk) \o pendingInput \in Seq(Bytes)
         /\ Len(Tail(chunk) \o pendingInput) = Len(chunk) - 1 + Len(pendingInput)
         /\ Len(chunk) \in Nat \ {0} /\ Len(pendingInput) \in Nat
<1>1. /\ chunk \in Seq(Bytes) /\ chunk # <<>> /\ pendingInput \in Seq(Bytes)
      /\ Len(chunk) \in Nat \ {0} /\ Len(pendingInput) \in Nat
  BY DEF Typed, ReadsTyped, Pressed
<1>2. Tail(chunk) \in Seq(Bytes) /\ Len(Tail(chunk)) = Len(chunk) - 1
  BY <1>1, HeadTailProperties
<1>3. /\ Tail(chunk) \o pendingInput \in Seq(Bytes)
      /\ Len(Tail(chunk) \o pendingInput) = Len(Tail(chunk)) + Len(pendingInput)
  BY <1>1, <1>2, ConcatProperties
<1> QED BY <1>1, <1>2, <1>3

\* Enter after a backslash.
LEMMA ContinueTyped ==
  ASSUME Typed, Continue
  PROVE  Typed'
<1> DEFINE rest == Tail(chunk)
<1>1. /\ chunk \in Seq(Bytes) /\ chunk # <<>> /\ pendingInput \in Seq(Bytes)
      /\ Len(chunk) \in Nat \ {0} /\ Len(pendingInput) \in Nat /\ BufSize \in Nat
      /\ Len(chunk) + Len(pendingInput) <= BufSize
  BY BufSizeAssumption DEF Typed, ReadsTyped, Continue, Pressed
<1>2. rest \in Seq(Bytes) /\ Len(rest) = Len(chunk) - 1
  BY <1>1, HeadTailProperties
<1>3. /\ chunk' = rest \/ (StartsWithLF(rest) /\ chunk' = Tail(rest))
      /\ pendingInput' = pendingInput
         \/ (StartsWithLF(pendingInput) /\ pendingInput' = Tail(pendingInput))
      /\ skipNextInputLF' \in BOOLEAN
  BY DEF Continue
<1> HIDE DEF rest
<1>4. chunk' \in Seq(Bytes) /\ Len(chunk') \in Nat /\ Len(chunk') <= Len(chunk)
  <2>1. Len(rest) \in Nat /\ Len(rest) <= Len(chunk)
    BY <1>1, <1>2
  <2>2. rest # <<>> => Tail(rest) \in Seq(Bytes) /\ Len(Tail(rest)) = Len(rest) - 1
                        /\ Len(rest) \in Nat \ {0}
    <3>1. rest # <<>> => Tail(rest) \in Seq(Bytes) /\ Len(Tail(rest)) = Len(rest) - 1
      BY <1>2, HeadTailProperties, Zenon
    <3>2. rest # <<>> => Len(rest) \in Nat \ {0}
      BY <1>2, EmptySeq
    <3> QED BY <3>1, <3>2
  <2>3. CASE chunk' = rest
    BY <1>2, <2>1, <2>3
  <2>4. CASE rest # <<>> /\ chunk' = Tail(rest)
    BY <1>1, <2>1, <2>2, <2>4
  <2> QED BY <1>3, <2>3, <2>4 DEF StartsWithLF
<1>5. pendingInput' \in Seq(Bytes) /\ Len(pendingInput') \in Nat
      /\ Len(pendingInput') <= Len(pendingInput)
  BY <1>1, <1>3, HeadTailProperties DEF StartsWithLF
<1>6. Len(chunk') + Len(pendingInput') <= BufSize
  BY <1>1, <1>4, <1>5
<1>7. /\ commandPrefix' = Joined /\ buffer' = <<>> /\ cursor' = 0 /\ ghostSuggestion' = <<>>
      /\ NotTab /\ UNCHANGED <<input, unread, recall, main>> /\ Continues
  BY DEF Continue
<1>8. ReadsTyped'
  BY <1>3, <1>4, <1>5, <1>6, <1>7 DEF ReadsTyped, Typed
<1>9. Joined \in Seq(Bytes)
  <2>1. /\ buffer \in Seq(Bytes) /\ commandPrefix \in Seq(Bytes)
        /\ Len(buffer) - 1 \in 0 .. Len(buffer)
    BY <1>7 DEF Typed, LineTyped, Continues
  <2>2. Front(buffer) \in Seq(Bytes)
    BY <2>1, UptoTyped DEF Front
  <2>3. commandPrefix \o Front(buffer) \in Seq(Bytes)
    BY <2>1, <2>2, ConcatProperties
  <2> QED BY <2>3, OwnBytes, AppendProperties DEF Joined
<1>10. LineTyped'
  BY <1>7, <1>9 DEF LineTyped
<1>11. RecallTyped' /\ GhostTyped' /\ MainTyped' /\ CompletionTyped'
  BY <1>7, NotTabTyped, MainUnchanged DEF Typed, RecallTyped, recall, GhostTyped
<1> QED
  BY <1>8, <1>10, <1>11 DEF Typed

\* The ways out of the prompt.
LEMMA LeavingTyped ==
  ASSUME Typed, Enter \/ Interrupt \/ EndOfFile
  PROVE  Typed'
<1>1. /\ buffer \in Seq(Bytes) /\ commandPrefix \in Seq(Bytes)
      /\ history \in Seq(Seq(Bytes)) /\ Len(history) \in Nat
      /\ pendingInput \in Seq(Bytes) /\ <<>> \in Seq(Bytes)
  BY DEF Typed, LineTyped, RecallTyped, ReadsTyped
<1>2. CASE Enter
  <2> DEFINE rest == Tail(chunk) \o pendingInput
             result == TrimSpace(commandPrefix \o buffer)
  <2>1. PICK kept \in {rest, Tail(rest)} :
          /\ Keep(kept) /\ skipNextInputLF' \in BOOLEAN
          /\ kept = Tail(rest) => StartsWithLF(rest) \/ kept = rest
    BY <1>2 DEF Enter
  <2>2. /\ \E c \in Newlines : Pressed(c)
        /\ Return(result) /\ history' = Recorded(command') /\ historyIdx' = Len(history')
        /\ NotTab /\ UNCHANGED <<ghostSuggestion, failed>>
    BY <1>2 DEF Enter
  <2>3. /\ rest \in Seq(Bytes) /\ Len(rest) \in Nat
        /\ Len(rest) <= Len(chunk) + Len(pendingInput)
    BY <2>2, RestOfRead
  <2>4. result \in Seq(Bytes)
    BY <1>1, ConcatProperties, TrimTyped
  <2> HIDE DEF rest, result
  <2>5. kept \in Seq(Bytes) /\ Len(kept) \in Nat /\ Len(kept) <= Len(rest)
    BY <2>1, <2>3, HeadTailProperties DEF StartsWithLF
  <2>6. Len(kept) <= Len(chunk) + Len(pendingInput)
    <3>1. Len(chunk) \in Nat /\ Len(pendingInput) \in Nat
      BY DEF Typed, ReadsTyped
    <3> QED BY <2>3, <2>5, <3>1
  <2>7. ReadsTyped'
    BY <2>1, <2>5, <2>6, KeepTyped DEF Typed
  <2>8. LineTyped' /\ MainTyped'
    BY <2>2, <2>4, ReturnTyped DEF Typed, MainTyped
  <2>9. Recorded(command') \in Seq(Seq(Bytes))
    <3>1. command' \in Seq(Bytes)
      BY <2>2, <2>4 DEF Return
    <3>2. Append(history, command') \in Seq(Seq(Bytes))
      BY <1>1, <3>1, AppendProperties
    <3> QED BY <1>1, <3>2 DEF Recorded
  <2>10. RecallTyped'
    <3>1. history' \in Seq(Seq(Bytes)) /\ Len(history') \in Nat
      BY <2>2, <2>9
    <3> QED BY <2>2, <3>1 DEF RecallTyped
  <2>11. GhostTyped' /\ CompletionTyped'
    BY <2>2, NotTabTyped DEF Typed, GhostTyped
  <2> QED
    BY <2>7, <2>8, <2>10, <2>11 DEF Typed
<1>3. CASE Interrupt \/ EndOfFile
  <2>1. PICK kept \in {Tail(chunk) \o pendingInput, pendingInput} :
          Keep(kept) /\ skipNextInputLF' \in BOOLEAN
    BY <1>3 DEF Interrupt, EndOfFile
  <2>2. /\ \E c : Pressed(c)
        /\ \E result \in Seq(Bytes) : Return(result)
        /\ historyIdx' = Len(history) /\ NotTab
        /\ UNCHANGED <<history, ghostSuggestion, failed>>
    BY <1>1, <1>3, OwnBytes DEF Interrupt, EndOfFile
  <2>3. kept \in Seq(Bytes) /\ Len(kept) <= Len(chunk) + Len(pendingInput)
    <3>1. /\ Tail(chunk) \o pendingInput \in Seq(Bytes)
          /\ Len(Tail(chunk) \o pendingInput) = Len(chunk) - 1 + Len(pendingInput)
          /\ Len(chunk) \in Nat \ {0} /\ Len(pendingInput) \in Nat
      BY <2>2, RestOfRead
    <3>2. CASE kept = pendingInput
      BY <1>1, <3>1, <3>2
    <3>3. CASE kept = Tail(chunk) \o pendingInput
      BY <3>1, <3>3
    <3> QED BY <2>1, <3>2, <3>3
  <2>4. ReadsTyped'
    BY <2>1, <2>3, KeepTyped DEF Typed
  <2>5. LineTyped' /\ MainTyped'
    BY <2>2, ReturnTyped DEF Typed, MainTyped
  <2>6. RecallTyped'
    BY <1>1, <2>2 DEF RecallTyped
  <2>7. GhostTyped' /\ CompletionTyped'
    BY <2>2, NotTabTyped DEF Typed, GhostTyped
  <2> QED
    BY <2>4, <2>5, <2>6, <2>7 DEF Typed
<1> QED BY <1>2, <1>3

\* The keys that put bytes in.
LEMMA TypeTyped ==
  ASSUME Typed, Type \/ OpenBrace
  PROVE  Typed'
<1>1. PICK text \in Seq(Bytes) :
        /\ \E c : Edits(c, 1)
        /\ Insert(text) /\ Len(text) \in {1, 2} /\ cursor' = cursor + 1
        /\ ghostSuggestion' = ghostSuggestion \/ ghostSuggestion' = Suggestion(buffer')
        /\ UNCHANGED recall
  <2>1. CASE Type
    <3>1. PICK c \in Bytes :
            /\ Edits(c, 1) /\ Insert(<<c>>) /\ cursor' = cursor + 1
            /\ ghostSuggestion' = Suggestion(buffer') /\ UNCHANGED recall
      BY <2>1 DEF Type, updateGhostSuggestion
    <3>2. <<c>> \in Seq(Bytes) /\ Len(<<c>>) = 1
      OBVIOUS
    <3> QED BY <3>1, <3>2
  <2>2. CASE OpenBrace
    <3>1. <<"{", "}">> \in Seq(Bytes) /\ Len(<<"{", "}">>) = 2
      BY FewBytes, OwnBytes
    <3> QED BY <2>2, <3>1 DEF OpenBrace
  <2> QED BY <2>1, <2>2
<1>2. Len(text) \in Nat /\ Len(text) >= 1
  <2>1. Len(text) \in {1, 2}
    BY <1>1, Zenon
  <2> QED BY <2>1
<1>3. /\ ReadsTyped' /\ CompletionTyped' /\ MainTyped' /\ UNCHANGED commandPrefix
  BY <1>1, KeyTyped
<1>4. buffer' \in Seq(Bytes) /\ Len(buffer') = Len(buffer) + Len(text)
  BY <1>1, <1>2, InsertTyped DEF Typed
<1>5. /\ Len(buffer) \in Nat /\ cursor \in 0 .. Len(buffer)
      /\ history \in Seq(Seq(Bytes)) /\ commandPrefix \in Seq(Bytes)
  BY DEF Typed, LineTyped, RecallTyped
<1>6. cursor' \in 0 .. Len(buffer')
  BY <1>1, <1>2, <1>4, <1>5
<1>7. LineTyped'
  BY <1>3, <1>4, <1>5, <1>6 DEF LineTyped
<1>8. GhostTyped'
  BY <1>1, <1>4, <1>5, SuggestionTyped DEF Typed, GhostTyped
<1>9. RecallTyped'
  BY <1>1 DEF Typed, RecallTyped, recall
<1> QED
  BY <1>3, <1>7, <1>8, <1>9 DEF Typed

\* The keys that take a byte out.
LEMMA BackspaceTyped ==
  ASSUME Typed, Backspace
  PROVE  Typed'
<1>1. PICK c \in {"BS", "^W"} :
        /\ Edits(c, 1) /\ UNCHANGED recall
        /\ \/ cursor = 0 /\ UNCHANGED <<buffer, cursor, ghostSuggestion>>
           \/ /\ cursor # 0
              /\ Cut(IF c = "BS" THEN cursor - 1 ELSE findWordBoundaryLeft(buffer, cursor), cursor)
              /\ ghostSuggestion' = Suggestion(buffer')
  BY DEF Backspace, updateGhostSuggestion
<1>2. /\ ReadsTyped' /\ CompletionTyped' /\ MainTyped' /\ UNCHANGED commandPrefix
  BY <1>1, KeyTyped
<1>3. /\ Len(buffer) \in Nat /\ cursor \in 0 .. Len(buffer) /\ buffer \in Seq(Bytes)
      /\ history \in Seq(Seq(Bytes))
  BY DEF Typed, LineTyped, RecallTyped
<1>4. RecallTyped'
  BY <1>1 DEF Typed, RecallTyped, recall
<1>5. CASE cursor = 0 /\ UNCHANGED <<buffer, cursor, ghostSuggestion>>
  BY <1>2, <1>4, <1>5 DEF Typed, LineTyped, GhostTyped
<1>6. CASE /\ cursor # 0
           /\ Cut(IF c = "BS" THEN cursor - 1 ELSE findWordBoundaryLeft(buffer, cursor), cursor)
           /\ ghostSuggestion' = Suggestion(buffer')
  <2> DEFINE from == IF c = "BS" THEN cursor - 1 ELSE findWordBoundaryLeft(buffer, cursor)
  <2>1. from \in 0 .. cursor
    BY <1>3, <1>6, WordBoundaries
  <2> HIDE DEF from
  <2>2. Cut(from, cursor)
    BY <1>6 DEF from
  <2>3. LineTyped'
    BY <1>2, <1>3, <2>1, <2>2, CutTyped DEF Typed
  <2>4. GhostTyped'
    <3>1. buffer' \in Seq(Bytes)
      BY <2>3 DEF LineTyped
    <3> QED BY <1>3, <1>6, <3>1, SuggestionTyped DEF GhostTyped
  <2> QED BY <1>2, <1>4, <2>3, <2>4 DEF Typed
<1> QED BY <1>1, <1>5, <1>6

\* The escape sequences, and the history.
LEMMA MovingTyped ==
  ASSUME Typed, EscapeNothing \/ Kill \/ Move \/ AcceptGhost \/ Up \/ Down
  PROVE  Typed'
<1>1. \E names : Escape(names)
  BY DEF EscapeNothing, Kill, Move, AcceptGhost, Up, Down
<1>2. /\ ReadsTyped' /\ CompletionTyped' /\ MainTyped' /\ UNCHANGED commandPrefix
  BY <1>1, EscapeTyped
<1>3. /\ Len(buffer) \in Nat /\ cursor \in 0 .. Len(buffer) /\ buffer \in Seq(Bytes)
      /\ commandPrefix \in Seq(Bytes) /\ ghostSuggestion \in Seq(Bytes)
      /\ history \in Seq(Seq(Bytes)) /\ Len(history) \in Nat /\ historyIdx \in 0 .. Len(history)
  BY DEF Typed, LineTyped, RecallTyped, GhostTyped
<1>4. /\ findWordBoundaryLeft(buffer, cursor) \in 0 .. cursor
      /\ findWordBoundaryRight(buffer, cursor) \in cursor .. Len(buffer)
  BY <1>3, WordBoundaries
<1>5. CASE EscapeNothing
  BY <1>2, <1>5 DEF EscapeNothing, Typed, LineTyped, RecallTyped, recall, GhostTyped
<1>6. CASE Kill
  <2>1. /\ \/ Cut(cursor, findWordBoundaryRight(buffer, cursor))
           \/ Cut(findWordBoundaryLeft(buffer, cursor), cursor)
           \/ Cut(cursor, Min({cursor + 1, Len(buffer)}))
        /\ UNCHANGED <<recall, ghostSuggestion>>
    BY <1>6 DEF Kill
  <2>2. Min({cursor + 1, Len(buffer)}) \in cursor .. Len(buffer)
    <3>1. cursor + 1 \in Int /\ Len(buffer) \in Int
      BY <1>3
    <3>2. Min({cursor + 1, Len(buffer)}) = IF cursor + 1 <= Len(buffer) THEN cursor + 1
                                                                        ELSE Len(buffer)
      BY <3>1, TwoNumbers
    <3> QED BY <1>3, <3>2
  <2>3. \E to \in 0 .. Len(buffer) : \E from \in 0 .. to : Cut(from, to)
    BY <1>3, <1>4, <2>1, <2>2
  <2>4. LineTyped'
    BY <1>2, <2>3, CutTyped DEF Typed
  <2> QED BY <1>2, <2>1, <2>4 DEF Typed, RecallTyped, recall, GhostTyped
<1>7. CASE Move
  <2>1. /\ \/ cursor' = findWordBoundaryRight(buffer, cursor)
           \/ cursor' = findWordBoundaryLeft(buffer, cursor)
           \/ cursor' = Max({cursor - 1, 0})
           \/ cursor < Len(buffer) /\ cursor' = cursor + 1
        /\ UNCHANGED <<buffer, recall, ghostSuggestion>>
    BY <1>7 DEF Move
  <2>2. Max({cursor - 1, 0}) \in 0 .. Len(buffer)
    <3>1. cursor - 1 \in Int /\ 0 \in Int
      BY <1>3
    <3>2. Max({cursor - 1, 0}) = IF cursor - 1 >= 0 THEN cursor - 1 ELSE 0
      BY <3>1, TwoNumbers
    <3> QED BY <1>3, <3>2
  <2>3. cursor' \in 0 .. Len(buffer)
    BY <1>3, <1>4, <2>1, <2>2
  <2> QED BY <1>2, <2>1, <2>3 DEF Typed, LineTyped, RecallTyped, recall, GhostTyped
<1>8. CASE AcceptGhost
  <2>1. /\ buffer' = buffer \o ghostSuggestion /\ cursor' = Len(buffer')
        /\ ghostSuggestion' = <<>> /\ UNCHANGED recall
    BY <1>8 DEF AcceptGhost
  <2>2. buffer' \in Seq(Bytes)
    BY <1>3, <2>1, ConcatProperties
  <2>3. cursor' \in 0 .. Len(buffer')
    BY <2>1, <2>2
  <2> QED
    BY <1>2, <1>3, <2>1, <2>2, <2>3 DEF Typed, LineTyped, RecallTyped, recall, GhostTyped
<1>9. CASE Up \/ Down
  <2>1. /\ \/ \E idx \in 0 .. Len(history) : \E text \in Seq(Bytes) : Recall(idx, text)
           \/ UNCHANGED <<historyIdx, buffer, cursor>>
        /\ UNCHANGED <<history, ghostSuggestion>>
    <3>1. CASE Up
      <4>1. historyIdx > 0 => historyIdx - 1 \in 0 .. Len(history)
                              /\ history[historyIdx] \in Seq(Bytes)
        BY <1>3
      <4> QED BY <3>1, <4>1 DEF Up
    <3>2. CASE Down
      <4>1. historyIdx < Len(history) - 1 => historyIdx + 1 \in 0 .. Len(history)
                                             /\ history[historyIdx + 2] \in Seq(Bytes)
        BY <1>3
      <4>2. historyIdx = Len(history) - 1 => historyIdx + 1 \in 0 .. Len(history)
        BY <1>3
      <4>3. <<>> \in Seq(Bytes)
        OBVIOUS
      <4> QED BY <3>2, <4>1, <4>2, <4>3 DEF Down
    <3> QED BY <1>9, <3>1, <3>2
  <2>2. CASE \E idx \in 0 .. Len(history) : \E text \in Seq(Bytes) : Recall(idx, text)
    <3>1. /\ historyIdx' \in 0 .. Len(history) /\ buffer' \in Seq(Bytes)
          /\ cursor' = Len(buffer')
      BY <2>2 DEF Recall
    <3>2. cursor' \in 0 .. Len(buffer')
      BY <3>1
    <3> QED BY <1>2, <1>3, <2>1, <3>1, <3>2 DEF Typed, LineTyped, RecallTyped, GhostTyped
  <2>3. CASE UNCHANGED <<historyIdx, buffer, cursor>>
    BY <1>2, <2>1, <2>3 DEF Typed, LineTyped, RecallTyped, GhostTyped
  <2> QED BY <2>1, <2>2, <2>3
<1> QED BY <1>5, <1>6, <1>7, <1>8, <1>9

\* Every step keeps the types.
LEMMA StepTyped == Typed /\ [Next]_vars => Typed'
<1> SUFFICES ASSUME Typed, [Next]_vars PROVE Typed'
  OBVIOUS
<1>1. CASE ReadPending \/ Read \/ EndOfInput \/ ReadFails \/ SkipLF
  BY <1>1, ReadingTyped
<1>2. CASE Continue
  BY <1>2, ContinueTyped
<1>3. CASE Enter \/ Interrupt \/ EndOfFile
  BY <1>3, LeavingTyped
<1>4. CASE Dispatch
  <2>1. /\ phase' \in {"exited", "reading"}
        /\ UNCHANGED <<reads, line, recall, ghostSuggestion, completion, command, failed>>
    BY <1>4 DEF Dispatch
  <2> QED
    BY <2>1 DEF Typed, ReadsTyped, LineTyped, RecallTyped, GhostTyped, CompletionTyped,
                MainTyped, reads, line, recall, completion
<1>5. CASE Type \/ OpenBrace
  BY <1>5, TypeTyped
<1>6. CASE Ignore
  <2>1. /\ ReadsTyped' /\ CompletionTyped' /\ MainTyped' /\ UNCHANGED commandPrefix
    BY <1>6, KeyTyped DEF Ignore
  <2> QED
    BY <1>6, <2>1 DEF Ignore, Typed, LineTyped, RecallTyped, recall, GhostTyped
<1>7. CASE Backspace
  BY <1>7, BackspaceTyped
<1>8. CASE HandleAutocomplete
  BY <1>8, AutocompleteTyped
<1>9. CASE Panic
  <2>1. /\ phase' = "exited"
        /\ UNCHANGED <<reads, line, recall, ghostSuggestion, completion, command, ran, failed>>
    BY <1>9 DEF Panic
  <2> QED
    BY <2>1 DEF Typed, ReadsTyped, LineTyped, RecallTyped, GhostTyped, CompletionTyped,
                MainTyped, reads, line, recall, completion
<1>10. CASE EscapeNothing \/ Kill \/ Move \/ AcceptGhost \/ Up \/ Down
  BY <1>10, MovingTyped
<1>11. CASE UNCHANGED vars
  BY <1>11 DEF Typed, ReadsTyped, LineTyped, RecallTyped, GhostTyped, CompletionTyped,
               MainTyped, vars, reads, line, recall, completion, main
<1> QED
  BY <1>1, <1>2, <1>3, <1>4, <1>5, <1>6, <1>7, <1>8, <1>9, <1>10, <1>11 DEF Next, Exited

\* Hence they hold throughout.
LEMMA TypedInvariance == Spec => []Typed
BY InitTyped, StepTyped, PTL DEF Spec

(* Whatever is typed or pasted and however it is cut into reads, every     *)
(* variable of the prompt has its type: the cursor stays in the line, the  *)
(* place in the history in the history, and what is kept for the next      *)
(* prompt is less than one read.                                           *)
THEOREM TypeCorrect == Spec => []TypeOK
BY TypedInvariance, TypedTypeOK, PTL

-----------------------------------------------------------------------------
(***************************************************************************)
(* Completion.  While Tab may be pressed again the last match is still     *)
(* what it was put as, at the end of the text before the cursor.  Only the *)
(* end of the input leaves the prompt with a Tab remembered, and after it  *)
(* there is no other prompt; a failed read is the other way, see Panic.    *)
(***************************************************************************)
Completed ==
  ~failed /\ Again =>
    \/ /\ phase = "reading" /\ lastAddedLen <= cursor
       /\ SubSeq(buffer, cursor - lastAddedLen + 1, cursor)
            = autoCompleteMatches[autoCompleteIndex + 1]
    \/ phase = "returned" /\ command = Exit
    \/ phase = "exited"

\* The parts of a line put together of three.
LEMMA ThreeParts ==
  ASSUME NEW S, NEW a \in Seq(S), NEW b \in Seq(S), NEW c \in Seq(S)
  PROVE  /\ SubSeq((a \o b) \o c, 1, Len(a)) = a
         /\ SubSeq((a \o b) \o c, Len(a) + 1, Len(a) + Len(b)) = b
         /\ From((a \o b) \o c, Len(a) + Len(b) + 1) = c
<1> DEFINE s == (a \o b) \o c
<1>1. Len(a) \in Nat /\ Len(b) \in Nat /\ Len(c) \in Nat
  OBVIOUS
<1>2. /\ a \o b \in Seq(S) /\ Len(a \o b) = Len(a) + Len(b)
      /\ \A i \in 1 .. Len(a) + Len(b) :
           (a \o b)[i] = IF i <= Len(a) THEN a[i] ELSE b[i - Len(a)]
  BY ConcatProperties
<1>3. /\ s \in Seq(S) /\ Len(s) = Len(a \o b) + Len(c)
      /\ \A i \in 1 .. Len(a \o b) + Len(c) :
           s[i] = IF i <= Len(a \o b) THEN (a \o b)[i] ELSE c[i - Len(a \o b)]
  BY <1>2, ConcatProperties
<1> HIDE DEF s
<1>4. /\ \A i \in 1 .. Len(a) : s[i] = a[i]
      /\ \A i \in 1 .. Len(b) : s[Len(a) + i] = b[i]
      /\ \A i \in 1 .. Len(c) : s[Len(a) + Len(b) + i] = c[i]
      /\ Len(s) = Len(a) + Len(b) + Len(c)
      /\ \A i \in 1 .. Len(s) : s[i] \in S
  <2>1. ASSUME NEW i \in 1 .. Len(a) PROVE s[i] = a[i]
    BY <1>1, <1>2, <1>3
  <2>2. ASSUME NEW i \in 1 .. Len(b) PROVE s[Len(a) + i] = b[i]
    <3>1. Len(a) + i \in 1 .. Len(a) + Len(b) /\ ~(Len(a) + i <= Len(a))
          /\ Len(a) + i - Len(a) = i
      BY <1>1
    <3> QED BY <1>1, <1>2, <1>3, <3>1
  <2>3. ASSUME NEW i \in 1 .. Len(c) PROVE s[Len(a) + Len(b) + i] = c[i]
    <3> DEFINE j == Len(a) + Len(b) + i
    <3>1. j \in 1 .. Len(a \o b) + Len(c) /\ ~(j <= Len(a \o b)) /\ j - Len(a \o b) = i
      BY <1>1, <1>2
    <3> HIDE DEF j
    <3>2. s[j] = c[i]
      BY <1>3, <3>1
    <3> QED BY <3>2 DEF j
  <2> QED BY <1>1, <1>2, <1>3, <2>1, <2>2, <2>3
<1>5. SubSeq(s, 1, Len(a)) = a
  <2>1. Len(a) \in 0 .. Len(s)
    BY <1>1, <1>4
  <2>2. /\ SubSeq(s, 1, Len(a)) \in Seq(S) /\ Len(SubSeq(s, 1, Len(a))) = Len(a)
        /\ \A i \in 1 .. Len(a) : SubSeq(s, 1, Len(a))[i] = s[i]
    BY <1>3, <2>1, UptoTyped
  <2> QED BY <1>4, <2>2, SeqEqual
<1>6. SubSeq(s, Len(a) + 1, Len(a) + Len(b)) = b
  <2> DEFINE t == SubSeq(s, Len(a) + 1, Len(a) + Len(b))
  <2>1. \A i \in Len(a) + 1 .. Len(a) + Len(b) : s[i] \in S
    BY <1>1, <1>4
  <2>2. /\ t \in Seq(S)
        /\ Len(t) = IF Len(a) + 1 <= Len(a) + Len(b)
                      THEN (Len(a) + Len(b)) - (Len(a) + 1) + 1 ELSE 0
        /\ \A i \in 1 .. (Len(a) + Len(b)) - (Len(a) + 1) + 1 : t[i] = s[(Len(a) + 1) + i - 1]
    <3>1. Len(a) + 1 \in Int /\ Len(a) + Len(b) \in Int
      BY <1>1
    <3> QED BY <2>1, <3>1, SubSeqProperties
  <2> HIDE DEF t
  <2>3. Len(t) = Len(b)
    BY <1>1, <2>2
  <2>4. ASSUME NEW i \in 1 .. Len(b) PROVE t[i] = b[i]
    <3>1. i \in 1 .. (Len(a) + Len(b)) - (Len(a) + 1) + 1 /\ (Len(a) + 1) + i - 1 = Len(a) + i
      BY <1>1
    <3> QED BY <1>4, <2>2, <3>1
  <2>5. t = b
    BY <2>2, <2>3, <2>4, SeqEqual
  <2> QED BY <2>5 DEF t
<1>7. From(s, Len(a) + Len(b) + 1) = c
  <2> DEFINE n == Len(a) + Len(b)
             t == From(s, n + 1)
  <2>1. n \in 0 .. Len(s) /\ Len(s) - n = Len(c)
    BY <1>1, <1>4
  <2>2. /\ t \in Seq(S) /\ Len(t) = Len(s) - n
        /\ \A i \in 1 .. Len(s) - n : t[i] = s[n + i]
    BY <1>3, <2>1, AfterTyped
  <2> HIDE DEF t
  <2>3. \A i \in 1 .. Len(c) : t[i] = c[i]
    BY <1>4, <2>1, <2>2
  <2>4. t = c
    BY <2>1, <2>2, <2>3, SeqEqual
  <2> QED BY <2>4 DEF t
<1> QED BY <1>5, <1>6, <1>7 DEF s

\* After Tab the match is before the cursor, and around it is what was there.
LEMMA AutocompleteCompletes ==
  ASSUME Typed, HandleAutocomplete
  PROVE  /\ lastAddedLen' <= cursor'
         /\ SubSeq(buffer', 1, cursor' - lastAddedLen') = SubSeq(buffer, 1, MatchStart)
         /\ From(buffer', cursor' + 1) = From(buffer, cursor + 1)
         /\ autoCompleteMatches' # <<>> =>
              SubSeq(buffer', cursor' - lastAddedLen' + 1, cursor')
                = autoCompleteMatches'[autoCompleteIndex' + 1]
<1>1. PICK before, added, after \in Seq(Bytes) : Completes(before, added, after)
  BY AutocompleteParts
<1>0. Len(before) \in Nat /\ Len(added) \in Nat
  OBVIOUS
<1>2. /\ buffer' = (before \o added) \o after
      /\ lastAddedLen' = Len(added) /\ cursor' = Len(before) + Len(added)
      /\ before = SubSeq(buffer, 1, MatchStart) /\ after = From(buffer, cursor + 1)
      /\ autoCompleteMatches' # <<>> => added = autoCompleteMatches'[autoCompleteIndex' + 1]
  BY <1>1, Zenon DEF Completes
<1>3. lastAddedLen' <= cursor' /\ cursor' - lastAddedLen' = Len(before)
  BY <1>0, <1>2
<1> DEFINE s == (before \o added) \o after
<1>4. /\ SubSeq(s, 1, Len(before)) = before
      /\ SubSeq(s, Len(before) + 1, Len(before) + Len(added)) = added
      /\ From(s, Len(before) + Len(added) + 1) = after
  BY ThreeParts, Zenon
<1>5. s = buffer'
  BY <1>2
<1> HIDE DEF s
<1> QED
  BY <1>2, <1>3, <1>4, <1>5

\* What a step does to the completion, unless it is Tab.
LEMMA OtherSteps ==
  ASSUME [Next]_vars, ~HandleAutocomplete
  PROVE  \/ lastWasTab' = FALSE
         \/ failed' = TRUE /\ phase' = "returned"
         \/ UNCHANGED <<line, completion, main>>
         \/ UNCHANGED completion /\ phase' = "returned" /\ command' = Exit
         \/ phase' = "exited"
         \/ /\ UNCHANGED <<line, completion, command, failed>>
            /\ phase = "returned" /\ command # Exit /\ phase' = "reading"
<1>1. CASE ReadPending \/ Read \/ SkipLF
  BY <1>1 DEF ReadPending, Read, SkipLF
<1>2. CASE EndOfInput
  BY <1>2 DEF EndOfInput, Return
<1>3. CASE ReadFails
  BY <1>3 DEF ReadFails, Return
<1>4. CASE Continue \/ Enter \/ Interrupt \/ EndOfFile
  BY <1>4 DEF Continue, Enter, Interrupt, EndOfFile, NotTab
<1>5. CASE Dispatch
  BY <1>5 DEF Dispatch
<1>6. CASE Type \/ OpenBrace \/ Ignore \/ Backspace
  BY <1>6 DEF Type, OpenBrace, Ignore, Backspace, Edits, NotTab
<1>7. CASE Panic
  BY <1>7 DEF Panic
<1>8. CASE EscapeNothing \/ Kill \/ Move \/ AcceptGhost \/ Up \/ Down
  BY <1>8 DEF EscapeNothing, Kill, Move, AcceptGhost, Up, Down, Escape, Edits, NotTab
<1>9. CASE UNCHANGED vars
  BY <1>9 DEF vars
<1> QED
  BY <1>1, <1>2, <1>3, <1>4, <1>5, <1>6, <1>7, <1>8, <1>9 DEF Next, Exited

\* Every step keeps the match where Tab left it, or forgets it.
LEMMA StepCompleted == Typed /\ Completed /\ [Next]_vars => Completed'
<1> SUFFICES ASSUME Typed, Completed, [Next]_vars PROVE Completed'
  OBVIOUS
<1>1. CASE HandleAutocomplete
  <2>1. phase' = "reading"
    BY <1>1 DEF HandleAutocomplete, Pressed, main
  <2>2. /\ lastAddedLen' <= cursor'
        /\ autoCompleteMatches' # <<>> =>
             SubSeq(buffer', cursor' - lastAddedLen' + 1, cursor')
               = autoCompleteMatches'[autoCompleteIndex' + 1]
    BY <1>1, AutocompleteCompletes
  <2> QED BY <2>1, <2>2, Zenon DEF Completed, Again
<1>2. CASE ~HandleAutocomplete
  <2>1. CASE UNCHANGED <<line, completion, main>>
    BY <2>1 DEF Completed, Again, line, completion, main
  <2>2. CASE /\ UNCHANGED <<line, completion, command, failed>>
             /\ phase = "returned" /\ command # Exit /\ phase' = "reading"
    BY <2>2 DEF Completed, Again, line, completion
  <2>3. CASE lastWasTab' = FALSE
    BY <2>3 DEF Completed, Again
  <2>4. CASE failed' = TRUE /\ phase' = "returned"
    BY <2>4 DEF Completed, Again
  <2>5. CASE UNCHANGED completion /\ phase' = "returned" /\ command' = Exit
    BY <2>5 DEF Completed, Again
  <2>6. CASE phase' = "exited"
    BY <2>6 DEF Completed, Again
  <2> HIDE DEF Completed
  <2> QED BY <1>2, <2>1, <2>2, <2>3, <2>4, <2>5, <2>6, OtherSteps, Zenon
<1> QED BY <1>1, <1>2

\* Hence it is there throughout.
LEMMA CompletedInvariance == Spec => []Completed
<1>1. Init => Completed
  BY DEF Init, Completed, Again
<1> QED BY <1>1, TypedInvariance, StepCompleted, PTL DEF Spec

(* As long as no read fails, Tab pressed again finds the match that it put *)
(* into the line still before the cursor, so the slice that takes it out   *)
(* is in range: every other key, and every way out of the prompt, has made *)
(* the code forget it.                                                     *)
THEOREM MatchStillThere == Spec => []CompletionInRange
<1>1. Completed => CompletionInRange
  BY DEF Completed, CompletionInRange
<1> QED BY <1>1, CompletedInvariance, PTL

(* Tab pressed again changes the match and nothing else of the line, of    *)
(* whatever length the matches and the line are.                           *)
THEOREM TextKept == Spec => TabKeepsText
<1> DEFINE Kept ==
      (~failed /\ Again /\ lastWasTab' /\ phase' = "reading") =>
        /\ SubSeq(buffer', 1, cursor' - lastAddedLen') = SubSeq(buffer, 1, cursor - lastAddedLen)
        /\ From(buffer', cursor' + 1) = From(buffer, cursor + 1)
<1>1. Typed /\ [Next]_vars => Kept
  <2> SUFFICES ASSUME Typed, [Next]_vars, ~failed, Again, lastWasTab', phase' = "reading"
               PROVE  /\ SubSeq(buffer', 1, cursor' - lastAddedLen')
                           = SubSeq(buffer, 1, cursor - lastAddedLen)
                      /\ From(buffer', cursor' + 1) = From(buffer, cursor + 1)
    OBVIOUS
  <2>1. CASE HandleAutocomplete
    BY <2>1, AutocompleteCompletes DEF MatchStart
  <2>2. CASE ~HandleAutocomplete
    <3>1. UNCHANGED <<line, completion>>
      BY <2>2, OtherSteps
    <3> QED BY <3>1 DEF line, completion
  <2> QED BY <2>1, <2>2
<1>2. Typed /\ [Next]_vars => [Kept]_vars
  BY <1>1
<1> QED BY <1>2, TypedInvariance, PTL DEF Spec, TabKeepsText

-----------------------------------------------------------------------------
(***************************************************************************)
(* Suggestions.  The history holds commands of several lines, and only a   *)
(* command of one is offered.  The code looks at no name for a newline, so *)
(* that none has one is assumed: a directory entry could.                  *)
(***************************************************************************)
OneLine(s) == "LF" \notin Range(s)
NamesOfOneLine == \A k \in DOMAIN Names : OneLine(Names[k])

\* A part of one line is of one line.
LEMMA RestOfOneLine ==
  ASSUME NEW s \in Seq(Bytes), NEW t \in Seq(Bytes), OneLine(t)
  PROVE  OneLine(Rest(t, s))
<1> DEFINE n == Len(s) + 1
           r == From(t, n)
<1>1. n \in Nat \ {0} /\ Len(t) \in Nat /\ DOMAIN t = 1 .. Len(t)
  OBVIOUS
<1>2. /\ r \in Seq(Bytes)
      /\ Len(r) = IF n <= Len(t) THEN Len(t) - n + 1 ELSE 0
      /\ \A i \in 1 .. Len(t) - n + 1 : r[i] = t[n + i - 1]
  <2> HIDE DEF n
  <2> QED BY <1>1, FromTyped
<1>3. Rest(t, s) = r
  BY DEF Rest
<1> HIDE DEF n, r
<1>4. ASSUME NEW i \in DOMAIN r PROVE r[i] # "LF"
  <2>1. n <= Len(t) /\ i \in 1 .. Len(t) - n + 1
    BY <1>1, <1>2
  <2>2. n + i - 1 \in DOMAIN t
    BY <1>1, <2>1
  <2> QED BY <1>2, <2>1, <2>2 DEF OneLine, Range
<1> QED BY <1>3, <1>4 DEF OneLine, Range

\* A command of the history that has several lines is not offered.
LEMMA SuggestionOfOneLine ==
  ASSUME NamesOfOneLine, NEW s \in Seq(Bytes), history \in Seq(Seq(Bytes))
  PROVE  OneLine(Suggestion(s))
<1>1. CASE Suggestion(s) = <<>>
  BY <1>1 DEF OneLine, Range
<1>2. CASE \E k \in 1 .. Len(history) :
             Offered(history[k], s) /\ Suggestion(s) = Rest(history[k], s)
  BY <1>2, RestOfOneLine DEF Offered, OneLine
<1>3. CASE \E k \in 1 .. Len(Names) :
             Suggestion(s) = Append(Rest(Names[k], LastWord(s)), " ")
  <2>1. PICK k \in 1 .. Len(Names) :
          Suggestion(s) = Append(Rest(Names[k], LastWord(s)), " ")
    BY <1>3
  <2> DEFINE r == Rest(Names[k], LastWord(s))
  <2>2. r \in Seq(Bytes) /\ OneLine(r)
    <3>1. LastWord(s) \in Seq(Bytes)
      BY SuggestionParts
    <3>2. Names[k] \in Seq(Bytes) /\ OneLine(Names[k])
      BY TextAssumption DEF NamesOfOneLine
    <3> QED BY <3>1, <3>2, RestTyped, RestOfOneLine
  <2> HIDE DEF r
  <2>3. \A i \in DOMAIN Append(r, " ") : Append(r, " ")[i] # "LF"
    BY <2>2, AppendProperties DEF OneLine, Range
  <2>4. Suggestion(s) = Append(r, " ")
    BY <2>1 DEF r
  <2> QED BY <2>3, <2>4 DEF OneLine, Range
<1> QED BY <1>1, <1>2, <1>3, SuggestionParts, Zenon

\* What a step does to the suggestion.
LEMMA GhostSteps ==
  ASSUME [Next]_vars
  PROVE  ghostSuggestion' \in {ghostSuggestion, <<>>, Suggestion(buffer')}
<1>1. CASE ReadPending \/ Read \/ SkipLF \/ EndOfInput \/ ReadFails
  BY <1>1 DEF ReadPending, Read, SkipLF, EndOfInput, ReadFails
<1>2. CASE Continue \/ Enter \/ Interrupt \/ EndOfFile \/ Dispatch \/ Panic
  BY <1>2 DEF Continue, Enter, Interrupt, EndOfFile, Dispatch, Panic
<1>3. CASE Type \/ OpenBrace \/ Ignore \/ Backspace \/ HandleAutocomplete
  BY <1>3 DEF Type, OpenBrace, Ignore, Backspace, HandleAutocomplete, updateGhostSuggestion
<1>4. CASE EscapeNothing \/ Kill \/ Move \/ AcceptGhost \/ Up \/ Down
  BY <1>4 DEF EscapeNothing, Kill, Move, AcceptGhost, Up, Down
<1>5. CASE UNCHANGED vars
  BY <1>5 DEF vars
<1> QED BY <1>1, <1>2, <1>3, <1>4, <1>5 DEF Next, Exited

(* Where no name has a newline, no suggestion has one, whatever commands of *)
(* several lines the history holds.                                        *)
THEOREM GhostOfOneLine ==
  ASSUME NamesOfOneLine
  PROVE  Spec => []GhostSingleLine
<1>1. Init => GhostSingleLine
  BY DEF Init, GhostSingleLine, Range
<1>2. Typed /\ Typed' /\ GhostSingleLine /\ [Next]_vars => GhostSingleLine'
  <2> SUFFICES ASSUME Typed, Typed', GhostSingleLine, [Next]_vars PROVE GhostSingleLine'
    OBVIOUS
  <2>1. history \in Seq(Seq(Bytes)) /\ buffer' \in Seq(Bytes)
    BY DEF Typed, RecallTyped, LineTyped
  <2>2. OneLine(Suggestion(buffer'))
    BY <2>1, SuggestionOfOneLine
  <2>3. OneLine(<<>>) /\ OneLine(ghostSuggestion)
    BY DEF OneLine, Range, GhostSingleLine
  <2>4. OneLine(ghostSuggestion')
    BY <2>2, <2>3, GhostSteps
  <2> QED BY <2>4 DEF OneLine, GhostSingleLine
<1> QED BY <1>1, <1>2, TypedInvariance, PTL DEF Spec

-----------------------------------------------------------------------------
(***************************************************************************)
(* The stream of lines.  The bytes to come are those of the read, those    *)
(* kept from the last prompt and those that the terminal has not given     *)
(* yet, and every step takes from the front of them what the same step of  *)
(* LineInput takes.                                                        *)
(***************************************************************************)
Stream == (chunk \o pendingInput) \o unread
Skipped(on, s) == IF on /\ StartsWithLF(s) THEN Tail(s) ELSE s

\* What is to come, as it is and after a step.
LEMMA AheadIs ==
  /\ Ahead = Skipped(skipNextInputLF, Stream)
  /\ Ahead' = Skipped(skipNextInputLF', Stream')
BY DEF Ahead, Skipped, Stream, StartsWithLF

\* A list is its first part and the rest.
LEMMA CutInTwo ==
  ASSUME NEW S, NEW s \in Seq(S), NEW n \in 0 .. Len(s)
  PROVE  SubSeq(s, 1, n) \o From(s, n + 1) = s
<1>1. 1 \in 1 .. Len(s) + 1 /\ n \in 1 - 1 .. Len(s) /\ Len(s) \in n .. Len(s)
  OBVIOUS
<1> QED
  BY <1>1, ConcatAdjacentSubSeq, SubSeqFull DEF From

\* The rest of two lists, when the place is in the first.
LEMMA FromConcat ==
  ASSUME NEW S, NEW a \in Seq(S), NEW b \in Seq(S), NEW n \in 0 .. Len(a)
  PROVE  From(a \o b, n + 1) = From(a, n + 1) \o b
<1>1. Len(a) \in Nat /\ Len(b) \in Nat
  OBVIOUS
<1> DEFINE ab == a \o b
           r == From(a, n + 1)
           l == From(ab, n + 1)
           rb == r \o b
<1>2. /\ ab \in Seq(S) /\ Len(ab) = Len(a) + Len(b)
      /\ \A i \in 1 .. Len(a) + Len(b) : ab[i] = IF i <= Len(a) THEN a[i] ELSE b[i - Len(a)]
  BY ConcatProperties
<1>3. r \in Seq(S) /\ Len(r) = Len(a) - n /\ \A i \in 1 .. Len(a) - n : r[i] = a[n + i]
  BY AfterTyped
<1> HIDE DEF ab, r
<1>4. n \in 0 .. Len(ab)
  BY <1>1, <1>2
<1>5. l \in Seq(S) /\ Len(l) = Len(ab) - n /\ \A i \in 1 .. Len(ab) - n : l[i] = ab[n + i]
  <2>1. ab \in Seq(S) /\ n \in 0 .. Len(ab)
    BY <1>2, <1>4
  <2> QED BY <2>1, AfterTyped
<1>6. /\ rb \in Seq(S) /\ Len(rb) = Len(r) + Len(b)
      /\ \A i \in 1 .. Len(r) + Len(b) : rb[i] = IF i <= Len(r) THEN r[i] ELSE b[i - Len(r)]
  BY <1>3, ConcatProperties
<1> HIDE DEF l, rb
<1>7. Len(l) = Len(rb)
  BY <1>1, <1>2, <1>3, <1>5, <1>6
<1>8. ASSUME NEW i \in 1 .. Len(l) PROVE l[i] = rb[i]
  <2>1. n + i \in 1 .. Len(a) + Len(b) /\ l[i] = ab[n + i]
    BY <1>1, <1>2, <1>5
  <2>2. i \in 1 .. Len(r) + Len(b)
    BY <1>1, <1>6, <1>7
  <2>3. CASE i <= Len(r)
    <3>1. n + i <= Len(a) /\ i \in 1 .. Len(a) - n
      BY <1>1, <1>3, <2>3
    <3> QED BY <1>2, <1>3, <1>6, <2>1, <2>2, <2>3, <3>1
  <2>4. CASE ~(i <= Len(r))
    <3>1. ~(n + i <= Len(a)) /\ n + i - Len(a) = i - Len(r)
      BY <1>1, <1>3, <2>4
    <3>2. ab[n + i] = b[n + i - Len(a)]
      BY <1>2, <2>1, <3>1
    <3>3. rb[i] = b[i - Len(r)]
      BY <1>6, <2>2, <2>4
    <3> QED BY <2>1, <3>1, <3>2, <3>3
  <2> QED BY <2>3, <2>4
<1>9. l = rb
  BY <1>5, <1>6, <1>7, <1>8, SeqEqual
<1> QED BY <1>9 DEF l, rb, ab, r

\* The same of the first element.
LEMMA TailConcat ==
  ASSUME NEW S, NEW a \in Seq(S), NEW b \in Seq(S), a # <<>>
  PROVE  /\ a \o b \in Seq(S) /\ a \o b # <<>> /\ (a \o b)[1] = a[1]
         /\ Tail(a \o b) = Tail(a) \o b
<1>1. Len(a) \in Nat \ {0} /\ Len(b) \in Nat
  OBVIOUS
<1>2. a \o b \in Seq(S) /\ a \o b # <<>> /\ (a \o b)[1] = a[1]
  <2>1. /\ a \o b \in Seq(S) /\ Len(a \o b) = Len(a) + Len(b)
        /\ \A i \in 1 .. Len(a) + Len(b) :
             (a \o b)[i] = IF i <= Len(a) THEN a[i] ELSE b[i - Len(a)]
    BY ConcatProperties
  <2> DEFINE ab == a \o b
  <2> HIDE DEF ab
  <2>2. ab \in Seq(S) /\ Len(ab) \in Nat \ {0} => ab # <<>>
    OBVIOUS
  <2>3. 1 \in 1 .. Len(a) + Len(b) /\ 1 <= Len(a) /\ Len(a) + Len(b) \in Nat \ {0}
    BY <1>1
  <2> QED BY <2>1, <2>2, <2>3 DEF ab
<1>3. Tail(a) = From(a, 1 + 1) /\ Tail(a \o b) = From(a \o b, 1 + 1)
  <2>1. Tail(a) = SubSeq(a, 2, Len(a)) /\ Tail(a \o b) = SubSeq(a \o b, 2, Len(a \o b))
    BY <1>2, TailIsSubSeq
  <2>2. 1 + 1 = 2
    OBVIOUS
  <2> QED BY <2>1, <2>2, Zenon DEF From
<1>4. 1 \in 0 .. Len(a)
  BY <1>1
<1> QED BY <1>2, <1>3, <1>4, FromConcat

\* The bytes to come are bytes.
LEMMA StreamTyped ==
  ASSUME Typed
  PROVE  /\ chunk \in Seq(Bytes) /\ pendingInput \in Seq(Bytes) /\ unread \in Seq(Bytes)
         /\ chunk \o pendingInput \in Seq(Bytes) /\ Stream \in Seq(Bytes)
         /\ skipNextInputLF \in BOOLEAN
BY ConcatProperties DEF Typed, ReadsTyped, Stream

\* The bytes at hand are the first of those to come.
LEMMA FrontOfStream ==
  ASSUME Typed
  PROVE  /\ Len(chunk) \in Nat /\ Len(Stream) \in Nat /\ Len(chunk) <= Len(Stream)
         /\ \A n \in 0 .. Len(chunk) :
              From(Stream, n + 1) = (From(chunk, n + 1) \o pendingInput) \o unread
         /\ chunk # <<>> => /\ Stream # <<>> /\ Stream[1] = chunk[1]
                            /\ Tail(Stream) = (Tail(chunk) \o pendingInput) \o unread
<1> DEFINE ab == chunk \o pendingInput
<1>1. /\ chunk \in Seq(Bytes) /\ pendingInput \in Seq(Bytes) /\ unread \in Seq(Bytes)
      /\ Len(chunk) \in Nat /\ Len(pendingInput) \in Nat /\ Len(unread) \in Nat
  <2>1. chunk \in Seq(Bytes) /\ pendingInput \in Seq(Bytes) /\ unread \in Seq(Bytes)
    BY StreamTyped
  <2> QED BY <2>1
<1>2. ab \in Seq(Bytes) /\ Len(ab) = Len(chunk) + Len(pendingInput)
  BY <1>1, ConcatProperties
<1>3. \A n \in 0 .. Len(chunk) : From(ab, n + 1) = From(chunk, n + 1) \o pendingInput
  BY <1>1, FromConcat
<1>4. chunk # <<>> => ab # <<>> /\ ab[1] = chunk[1] /\ Tail(ab) = Tail(chunk) \o pendingInput
  BY <1>1, TailConcat
<1> HIDE DEF ab
<1>5. ab \o unread \in Seq(Bytes) /\ Len(ab \o unread) = Len(ab) + Len(unread)
  BY <1>1, <1>2, ConcatProperties
<1>6. \A n \in 0 .. Len(ab) : From(ab \o unread, n + 1) = From(ab, n + 1) \o unread
  BY <1>1, <1>2, FromConcat
<1>7. ab # <<>> => /\ ab \o unread # <<>> /\ (ab \o unread)[1] = ab[1]
                   /\ Tail(ab \o unread) = Tail(ab) \o unread
  BY <1>1, <1>2, TailConcat
<1>8. Stream = ab \o unread
  BY DEF Stream, ab
<1> HIDE DEF Stream
<1>9. Len(Stream) \in Nat /\ Len(chunk) <= Len(Stream)
  <2>1. Len(Stream) = Len(ab) + Len(unread)
    BY <1>5, <1>8
  <2> QED BY <1>1, <1>2, <2>1
<1>10. ASSUME NEW n \in 0 .. Len(chunk)
       PROVE  From(Stream, n + 1) = (From(chunk, n + 1) \o pendingInput) \o unread
  <2>1. n \in 0 .. Len(ab)
    BY <1>1, <1>2
  <2> QED BY <1>3, <1>6, <1>8, <2>1, Zenon
<1>11. ASSUME chunk # <<>>
       PROVE  /\ Stream # <<>> /\ Stream[1] = chunk[1]
              /\ Tail(Stream) = (Tail(chunk) \o pendingInput) \o unread
  BY <1>4, <1>7, <1>8, <1>11, Zenon
<1> QED BY <1>1, <1>9, <1>10, <1>11

\* A read moves the bytes from one place to the next.
LEMMA ReadsStutter ==
  ASSUME Typed, ReadPending \/ Read \/ SkipLF
  PROVE  UNCHANGED Lines!lineVars
<1>1. UNCHANGED <<line, main>>
  BY DEF ReadPending, Read, SkipLF
<1>2. Ahead' = Ahead
  <2>1. CASE ReadPending
    <3> DEFINE n == Min({BufSize, Len(pendingInput)})
    <3>1. /\ chunk = <<>> /\ chunk' = SubSeq(pendingInput, 1, n)
          /\ pendingInput' = From(pendingInput, n + 1)
          /\ UNCHANGED <<unread, skipNextInputLF>>
      BY <2>1 DEF ReadPending, Idle
    <3>2. n \in 0 .. Len(pendingInput)
      <4>1. BufSize \in Int /\ BufSize >= 0 /\ Len(pendingInput) \in Nat
        BY StreamTyped, BufSizeAssumption
      <4> QED BY <4>1, TwoNumbers
    <3> HIDE DEF n
    <3>3. chunk' \o pendingInput' = pendingInput
      BY <3>1, <3>2, StreamTyped, CutInTwo
    <3>4. chunk \o pendingInput = pendingInput
      BY <3>1, StreamTyped, ConcatEmptySeq
    <3>5. Stream' = Stream
      BY <3>1, <3>3, <3>4, Zenon DEF Stream
    <3> QED BY <3>1, <3>5, AheadIs
  <2>2. CASE Read
    <3>1. PICK n \in 1 .. Min({BufSize, Len(unread)}) :
            chunk' = SubSeq(unread, 1, n) /\ unread' = From(unread, n + 1)
      BY <2>2 DEF Read
    <3>2. chunk = <<>> /\ pendingInput = <<>> /\ UNCHANGED <<pendingInput, skipNextInputLF>>
      BY <2>2 DEF Read, Idle
    <3>3. n \in 0 .. Len(unread)
      <4>1. BufSize \in Int /\ BufSize >= 0 /\ Len(unread) \in Nat
        BY StreamTyped, BufSizeAssumption
      <4> QED BY <3>1, <4>1, TwoNumbers
    <3>4. chunk' \in Seq(Bytes) /\ chunk' \o unread' = unread
      BY <3>1, <3>3, StreamTyped, UptoTyped, CutInTwo
    <3>5. chunk' \o pendingInput' = chunk'
      BY <3>2, <3>4, ConcatEmptySeq
    <3>6. chunk \o pendingInput = <<>> /\ <<>> \o unread = unread
      BY <3>2, StreamTyped, ConcatEmptySeq
    <3>7. Stream' = Stream
      BY <3>4, <3>5, <3>6, Zenon DEF Stream
    <3> QED BY <3>2, <3>7, AheadIs
  <2>3. CASE SkipLF
    <3>1. /\ skipNextInputLF = TRUE /\ skipNextInputLF' = FALSE
          /\ chunk # <<>> /\ chunk[1] = "LF"
          /\ chunk' = From(chunk, 1 + 1) /\ UNCHANGED <<unread, pendingInput>>
      BY <2>3, StreamTyped DEF SkipLF, StartsWithLF, Consume
    <3>2. chunk' = Tail(chunk)
      <4>1. Tail(chunk) = SubSeq(chunk, 2, Len(chunk)) /\ 1 + 1 = 2
        BY <3>1, StreamTyped, TailIsSubSeq
      <4> QED BY <3>1, <4>1, Zenon DEF From
    <3>4. /\ Stream # <<>> /\ Stream[1] = "LF"
          /\ Tail(Stream) = (Tail(chunk) \o pendingInput) \o unread
      BY <3>1, StreamTyped, FrontOfStream
    <3>5. Stream' = Tail(Stream)
      BY <3>1, <3>2, <3>4, Zenon DEF Stream
    <3> QED BY <3>1, <3>4, <3>5, AheadIs DEF Skipped, StartsWithLF
  <2> QED BY <2>1, <2>2, <2>3
<1> QED BY <1>1, <1>2 DEF Lines!lineVars, line, main

\* A key is the first of the bytes to come, and those it takes go from the front.
LEMMA PressedAhead ==
  ASSUME Typed, NEW c, Pressed(c)
  PROVE  /\ Ahead = Stream /\ Ahead # <<>> /\ Ahead[1] = c
         /\ c \in Bytes /\ phase = "reading" /\ Len(chunk) \in Nat \ {0}
<1>1. c \in Bytes /\ Len(chunk) \in Nat \ {0}
  BY PressedByte DEF Typed
<1>2. chunk # <<>> /\ c = chunk[1] /\ phase = "reading" /\ ~(skipNextInputLF /\ c = "LF")
  BY DEF Pressed
<1>3. Stream # <<>> /\ Stream[1] = c
  BY <1>2, FrontOfStream
<1>4. Ahead = Stream
  BY <1>2, <1>3, AheadIs DEF Skipped, StartsWithLF
<1> QED BY <1>1, <1>2, <1>3, <1>4

\* What a key takes is taken from what is to come.
LEMMA ConsumedAhead ==
  ASSUME Typed, NEW c, Pressed(c), NEW n \in 1 .. Len(chunk), Consume(n)
  PROVE  Ahead' = From(Ahead, n + 1) /\ n \in 1 .. Len(Ahead)
<1>1. Ahead = Stream
  BY PressedAhead
<1>2. n \in 0 .. Len(chunk) /\ n \in 1 .. Len(Stream)
  BY FrontOfStream
<1>3. Stream' = From(Stream, n + 1)
  BY <1>2, FrontOfStream, Zenon DEF Consume, Stream
<1>4. Ahead' = Stream'
  BY AheadIs DEF Consume, Skipped
<1> QED BY <1>1, <1>2, <1>3, <1>4

\* A key that neither ends the line nor goes to its end is an edit.
LEMMA KeyEdits ==
  ASSUME Typed, NEW c, NEW n \in 1 .. Len(chunk), Edits(c, n),
         c \notin Newlines \cup {"^C", "^D"}, n = 1 \/ c = "ESC",
         cursor = Len(buffer) => c \notin Plain
  PROVE  Lines!Edit
<1>1. Ahead # <<>> /\ Ahead[1] = c /\ phase = "reading"
  BY PressedAhead DEF Edits
<1>2. n \in 1 .. Len(Ahead) /\ Ahead' = SubSeq(Ahead, n + 1, Len(Ahead))
  BY ConsumedAhead DEF Edits, From
<1>3. UNCHANGED <<commandPrefix, command, phase, failed>>
  BY DEF Edits, main
<1> HIDE DEF Ahead
<1> QED
  BY <1>1, <1>2, <1>3 DEF Lines!Edit, Lines!StartsIn, Lines!Newlines, Newlines

\* At the end of the line a byte is appended; elsewhere it is an edit.
LEMMA TypeImplements ==
  ASSUME Typed, Type
  PROVE  Lines!Type \/ Lines!Edit
<1>1. PICK c \in Bytes :
        Printable(c) /\ Edits(c, 1) /\ Insert(<<c>>) /\ cursor' = cursor + 1
  BY DEF Type
<1>2. c \notin Newlines \cup {"^C", "^D"}
  BY <1>1 DEF Printable, Keys
<1>3. 1 \in 1 .. Len(chunk)
  BY <1>1, PressedAhead DEF Edits
<1>4. CASE cursor = Len(buffer) => c \notin Plain
  BY <1>1, <1>2, <1>3, <1>4, KeyEdits
<1>5. CASE cursor = Len(buffer) /\ c \in Plain
  <2>1. Ahead # <<>> /\ Ahead[1] = c /\ phase = "reading" /\ Ahead \in Seq(Bytes)
    BY <1>1, PressedAhead, StreamTyped DEF Edits
  <2>2. Ahead' = From(Ahead, 1 + 1)
    BY <1>1, <1>3, ConsumedAhead DEF Edits
  <2>3. Ahead' = Tail(Ahead)
    <3>1. Tail(Ahead) = SubSeq(Ahead, 2, Len(Ahead)) /\ 1 + 1 = 2
      BY <2>1, TailIsSubSeq
    <3> QED BY <2>2, <3>1, Zenon DEF From
  <2>4. buffer \in Seq(Bytes) /\ Len(buffer) \in Nat
    BY DEF Typed, LineTyped
  <2>5. buffer' = Append(buffer, c)
    <3>1. SubSeq(buffer, 1, cursor) = buffer
      BY <1>5, <2>4, SubSeqFull
    <3>2. From(buffer, cursor + 1) = <<>>
      BY <1>5, <2>4, SubSeqEmpty DEF From
    <3>3. <<c>> \in Seq(Bytes) /\ buffer \o <<c>> = Append(buffer, c)
      BY <2>4
    <3>4. buffer \o <<c>> \in Seq(Bytes)
      BY <2>4, <3>3, ConcatProperties
    <3>5. (buffer \o <<c>>) \o <<>> = buffer \o <<c>>
      BY <3>4, ConcatEmptySeq
    <3> QED BY <1>1, <3>1, <3>2, <3>3, <3>5, Zenon DEF Insert
  <2>6. Len(buffer') = Len(buffer) + 1
    BY <2>4, <2>5, AppendProperties
  <2>7. cursor' = Len(buffer')
    BY <1>1, <1>5, <2>6
  <2>8. UNCHANGED <<commandPrefix, command, phase, failed>>
    BY <1>1 DEF Edits, main
  <2> HIDE DEF Ahead
  <2> QED
    BY <1>5, <2>1, <2>3, <2>5, <2>7, <2>8 DEF Lines!Type, Lines!Reading, Lines!StartsIn
<1> QED BY <1>4, <1>5

\* The other keys of one byte are edits.
LEMMA OtherKeysImplement ==
  ASSUME Typed, OpenBrace \/ Ignore \/ Backspace \/ HandleAutocomplete
  PROVE  Lines!Edit
<1>0. \A c : Pressed(c) => 1 \in 1 .. Len(chunk)
  BY PressedAhead
<1>1. CASE OpenBrace \/ Ignore \/ Backspace
  <2>1. PICK c \in {"{", "other", "BS", "^W"} : Edits(c, 1)
    BY <1>1 DEF OpenBrace, Ignore, Backspace
  <2>2. c \notin Newlines \cup {"^C", "^D"} /\ c \notin Plain
    BY DEF Newlines, Plain, Printable, Keys
  <2>3. 1 \in 1 .. Len(chunk)
    BY <1>0, <2>1, Zenon DEF Edits
  <2> QED BY <2>1, <2>2, <2>3, KeyEdits
<1>2. CASE HandleAutocomplete
  <2>1. Pressed("TAB") /\ Consume(1) /\ UNCHANGED <<commandPrefix, main>>
    BY <1>2 DEF HandleAutocomplete
  <2>2. 1 \in 1 .. Len(chunk)
    BY <2>1, PressedAhead
  <2>3. Ahead # <<>> /\ Ahead[1] = "TAB" /\ phase = "reading"
    BY <2>1, PressedAhead
  <2>4. 1 \in 1 .. Len(Ahead) /\ Ahead' = SubSeq(Ahead, 1 + 1, Len(Ahead))
    BY <2>1, <2>2, ConsumedAhead DEF From
  <2>5. "TAB" \notin Plain /\ "TAB" \notin Newlines \cup {"^C", "^D"}
    BY DEF Plain, Printable, Keys, Newlines
  <2>6. UNCHANGED <<commandPrefix, command, phase, failed>>
    BY <2>1 DEF main
  <2> HIDE DEF Ahead
  <2> QED
    BY <2>3, <2>4, <2>5, <2>6 DEF Lines!Edit, Lines!StartsIn, Lines!Newlines, Newlines
<1> QED BY <1>1, <1>2

\* Escape sequences are edits, whatever they do.
LEMMA EscapesImplement ==
  ASSUME Typed, EscapeNothing \/ Kill \/ Move \/ AcceptGhost \/ Up \/ Down
  PROVE  Lines!Edit
<1>1. PICK names : Escape(names)
  BY DEF EscapeNothing, Kill, Move, AcceptGhost, Up, Down
<1> DEFINE n == 1 + Sequence(Tail(chunk)).takes
<1>2. Edits("ESC", n)
  BY <1>1 DEF Escape
<1>3. n \in 1 .. Len(chunk)
  <2>1. Len(chunk) \in Nat /\ chunk \in Seq(Bytes) /\ chunk # <<>>
    BY <1>2 DEF Edits, Pressed, Typed, ReadsTyped
  <2>2. Tail(chunk) \in Seq(Bytes) /\ Len(Tail(chunk)) = Len(chunk) - 1
    BY <2>1, HeadTailProperties
  <2>3. Sequence(Tail(chunk)).takes \in 0 .. Len(chunk) - 1
    BY <2>2, SequenceTakes
  <2> QED BY <2>1, <2>3
<1>4. "ESC" \notin Plain /\ "ESC" \notin Newlines \cup {"^C", "^D"}
  BY DEF Plain, Printable, Keys, Newlines
<1> HIDE DEF n
<1> QED BY <1>2, <1>3, <1>4, KeyEdits

\* Leaving the prompt, with what it returns.
LEMMA ReturnImplements ==
  ASSUME NEW result, Return(result)
  PROVE  Lines!Return(result)
BY DEF Return, Lines!Return

\* A line feed after a carriage return is skipped, in the bytes that are there
\* or, when there are none, in those to come.
LEMMA NewlineDone ==
  ASSUME NEW on \in BOOLEAN, NEW r \in Seq(Bytes), NEW u \in Seq(Bytes)
  PROVE  Skipped(on /\ r = <<>>, Skipped(on, r) \o u) = Skipped(on, r \o u)
<1>1. CASE r = <<>>
  <2>1. Skipped(on, r) = <<>>
    BY <1>1 DEF Skipped, StartsWithLF
  <2>2. <<>> \o u = u
    BY ConcatEmptySeq
  <2> QED BY <1>1, <2>1, <2>2
<1>2. CASE r # <<>>
  <2>1. r \o u # <<>> /\ (r \o u)[1] = r[1] /\ Tail(r \o u) = Tail(r) \o u
    BY <1>2, TailConcat
  <2>2. Skipped(on /\ r = <<>>, Skipped(on, r) \o u) = Skipped(on, r) \o u
    BY <1>2 DEF Skipped
  <2>3. StartsWithLF(r \o u) <=> StartsWithLF(r)
    BY <1>2, <2>1 DEF StartsWithLF
  <2>4. Skipped(on, r \o u) = Skipped(on, r) \o u
    BY <2>1, <2>3 DEF Skipped
  <2> QED BY <2>2, <2>4
<1> QED BY <1>1, <1>2

\* Of a newline both parts are taken, whether they come in one read or not.
LEMMA NewlineTaken ==
  ASSUME Typed, NEW c \in Newlines, Pressed(c),
         chunk' \o pendingInput' = Skipped(c = "CR", Tail(chunk) \o pendingInput),
         skipNextInputLF' = (c = "CR" /\ Tail(chunk) \o pendingInput = <<>>),
         UNCHANGED unread
  PROVE  Ahead' = Lines!AfterNewline(Ahead)
<1> DEFINE r == Tail(chunk) \o pendingInput
<1>1. r \in Seq(Bytes) /\ unread \in Seq(Bytes)
  BY RestOfRead, StreamTyped
<1>2. Ahead = Stream /\ Ahead # <<>> /\ Ahead[1] = c /\ Tail(Ahead) = r \o unread
  <2>1. chunk # <<>>
    BY DEF Pressed
  <2> QED BY <2>1, PressedAhead, FrontOfStream
<1>3. Stream' = Skipped(c = "CR", r) \o unread
  BY Zenon DEF Stream
<1>4. Ahead' = Skipped(c = "CR" /\ r = <<>>, Skipped(c = "CR", r) \o unread)
  BY <1>3, AheadIs, Zenon
<1> HIDE DEF r, Ahead
<1>5. Ahead' = Skipped(c = "CR", r \o unread)
  BY <1>1, <1>4, NewlineDone
<1>6. Lines!AfterNewline(Ahead) = Skipped(c = "CR", Tail(Ahead))
  BY <1>2 DEF Lines!AfterNewline, Lines!StartsIn, Skipped, StartsWithLF
<1> QED BY <1>2, <1>5, <1>6

\* Whether the line goes on, as the code and as the promise ask it.
LEMMA ContinuesIs ==
  ASSUME Typed
  PROVE  Continues <=> (cursor = Len(buffer)) /\ Lines!EndsIn(buffer, {"\\"})
<1>1. buffer \in Seq(Bytes) /\ Len(buffer) \in Nat
  BY DEF Typed, LineTyped
<1>2. cursor = Len(buffer) => (cursor > 0 <=> buffer # <<>>)
  BY <1>1
<1>3. Continues <=> cursor = Len(buffer) /\ cursor > 0 /\ buffer[Len(buffer)] = "\\"
  BY DEF Continues, Last
<1>4. Lines!EndsIn(buffer, {"\\"}) <=> buffer # <<>> /\ buffer[Len(buffer)] = "\\"
  BY DEF Lines!EndsIn, Lines!Last
<1> QED BY <1>2, <1>3, <1>4

\* Enter after a backslash goes on with the line.
LEMMA ContinueImplements ==
  ASSUME Typed, Continue
  PROVE  Lines!Continue
<1>1. PICK c \in Newlines : Pressed(c)
  BY DEF Continue
<1> DEFINE rest == Tail(chunk)
           cr == c = "CR"
           r == rest \o pendingInput
<1>2. /\ chunk' = IF cr /\ StartsWithLF(rest) THEN Tail(rest) ELSE rest
      /\ pendingInput' = IF cr /\ rest = <<>> /\ StartsWithLF(pendingInput)
                            THEN Tail(pendingInput) ELSE pendingInput
      /\ skipNextInputLF' = (cr /\ rest = <<>> /\ pendingInput = <<>>)
      /\ UNCHANGED unread
  BY <1>1 DEF Continue, Pressed
<1>3. rest \in Seq(Bytes) /\ pendingInput \in Seq(Bytes)
  BY <1>1, StreamTyped, HeadTailProperties DEF Pressed
<1> HIDE DEF rest, cr
<1>4. r = <<>> <=> rest = <<>> /\ pendingInput = <<>>
  BY <1>3, ConcatEqualIffEmpty
<1>5. rest = <<>> => r = pendingInput
  BY <1>3, ConcatEmptySeq
<1>6. rest # <<>> => r # <<>> /\ r[1] = rest[1] /\ Tail(r) = Tail(rest) \o pendingInput
  BY <1>3, TailConcat
<1>7. chunk' \o pendingInput' = Skipped(cr, r)
  <2>1. CASE rest = <<>>
    <3>1. chunk' = <<>> /\ pendingInput' = Skipped(cr, pendingInput)
      BY <1>2, <2>1 DEF StartsWithLF, Skipped
    <3>2. pendingInput' \in Seq(Bytes)
      BY <1>3, <3>1, HeadTailProperties DEF Skipped, StartsWithLF
    <3>3. <<>> \o pendingInput' = pendingInput'
      BY <3>2, ConcatEmptySeq
    <3> HIDE DEF r
    <3> QED BY <1>5, <2>1, <3>1, <3>3
  <2>2. CASE rest # <<>> /\ cr /\ StartsWithLF(rest)
    <3>1. chunk' = Tail(rest) /\ pendingInput' = pendingInput
      BY <1>2, <2>2
    <3> HIDE DEF r
    <3>2. Skipped(cr, r) = Tail(rest) \o pendingInput
      BY <1>6, <2>2 DEF Skipped, StartsWithLF
    <3> QED BY <3>1, <3>2
  <2>3. CASE rest # <<>> /\ ~(cr /\ StartsWithLF(rest))
    <3>1. chunk' = rest /\ pendingInput' = pendingInput
      BY <1>2, <2>3
    <3>2. Skipped(cr, r) = r
      <4> HIDE DEF r
      <4> QED BY <1>6, <2>3 DEF Skipped, StartsWithLF
    <3> QED BY <3>1, <3>2
  <2> QED BY <2>1, <2>2, <2>3
<1>8. skipNextInputLF' = (cr /\ r = <<>>)
  <2> HIDE DEF r
  <2> QED BY <1>2, <1>4
<1>9. Ahead' = Lines!AfterNewline(Ahead)
  BY <1>1, <1>2, <1>7, <1>8, NewlineTaken DEF rest, cr
<1>10. Ahead # <<>> /\ Ahead[1] \in Newlines /\ phase = "reading"
  BY <1>1, PressedAhead
<1>11. (cursor = Len(buffer)) /\ Lines!EndsIn(buffer, {"\\"})
  BY ContinuesIs DEF Continue
<1>12. /\ commandPrefix' = Append(commandPrefix \o Lines!Front(buffer), "LF")
       /\ buffer' = <<>> /\ cursor' = 0
       /\ UNCHANGED <<command, phase, failed>>
  BY DEF Continue, Joined, Front, Lines!Front, main
<1>13. Len(<<>>) = 0
  OBVIOUS
<1> HIDE DEF Ahead
<1> QED
  BY <1>9, <1>10, <1>11, <1>12, <1>13
     DEF Lines!Continue, Lines!Reading, Lines!StartsIn, Lines!Newlines, Newlines

\* Trimming, as the code does it and as the promise says it.
LEMMA TrimIs ==
  ASSUME NEW s \in Seq(Bytes)
  PROVE  TrimSpace(s) = Lines!Trim(s)
<1> DEFINE text == {k \in DOMAIN s : s[k] \notin Blanks}
<1>1. TrimSpace(s) = SubSeq(s, Least(text, 1), Greatest(text, 0))
  BY DEF TrimSpace
<1>2. Lines!Trim(s) = IF text = {} THEN <<>> ELSE SubSeq(s, Min(text), Max(text))
  BY Zenon DEF Lines!Trim, Lines!Blanks, Blanks, Min, Max
<1>3. SubSeq(s, 1, 0) = <<>>
  BY SubSeqEmpty
<1> HIDE DEF text
<1>4. CASE text = {}
  <2>1. Least(text, 1) = 1 /\ Greatest(text, 0) = 0
    BY <1>4 DEF Least, Greatest
  <2> QED BY <1>1, <1>2, <1>3, <1>4, <2>1
<1>5. CASE text # {}
  <2>1. Least(text, 1) = Min(text) /\ Greatest(text, 0) = Max(text)
    BY <1>5, Zenon DEF Least, Greatest
  <2> QED BY <1>1, <1>2, <1>5, <2>1
<1> QED BY <1>4, <1>5

\* Enter delivers the line as it was typed.
LEMMA EnterImplements ==
  ASSUME Typed, Enter
  PROVE  Lines!Deliver
<1>1. PICK c \in Newlines : Pressed(c)
  BY DEF Enter
<1> DEFINE r == Tail(chunk) \o pendingInput
           cr == c = "CR"
<1>2. /\ chunk' = <<>> /\ pendingInput' = Skipped(cr, r)
      /\ skipNextInputLF' = (cr /\ r = <<>>)
      /\ UNCHANGED unread
  BY <1>1 DEF Enter, Pressed, Keep, Skipped
<1>3. r \in Seq(Bytes)
  BY <1>1, RestOfRead
<1>4. pendingInput' \in Seq(Bytes)
  <2> HIDE DEF r
  <2> QED BY <1>2, <1>3, HeadTailProperties DEF Skipped, StartsWithLF
<1>5. chunk' \o pendingInput' = Skipped(cr, r)
  BY <1>2, <1>4, ConcatEmptySeq
<1>6. Ahead' = Lines!AfterNewline(Ahead)
  BY <1>1, <1>2, <1>5, NewlineTaken
<1>7. Ahead # <<>> /\ Ahead[1] \in Newlines /\ phase = "reading"
  BY <1>1, PressedAhead
<1>8. ~((cursor = Len(buffer)) /\ Lines!EndsIn(buffer, {"\\"}))
  BY ContinuesIs DEF Enter
<1>9. Lines!Return(Lines!Trim(commandPrefix \o buffer)) /\ failed' = failed
  <2>1. commandPrefix \o buffer \in Seq(Bytes)
    BY ConcatProperties DEF Typed, LineTyped
  <2>2. Return(TrimSpace(commandPrefix \o buffer)) /\ failed' = failed
    BY DEF Enter
  <2> QED BY <2>1, <2>2, TrimIs, ReturnImplements
<1> HIDE DEF Ahead
<1> QED
  BY <1>6, <1>7, <1>8, <1>9
     DEF Lines!Deliver, Lines!Reading, Lines!StartsIn, Lines!Newlines, Newlines

\* The bytes after Ctrl+C are kept, and those read with Ctrl+D lost.
LEMMA LeavingImplements ==
  ASSUME Typed, Interrupt \/ EndOfFile
  PROVE  Lines!Cancel \/ Lines!Quit
<1>1. CASE Interrupt
  <2> DEFINE r == Tail(chunk) \o pendingInput
  <2>1. /\ Pressed("^C") /\ chunk' = <<>> /\ pendingInput' = r
        /\ skipNextInputLF' = FALSE /\ UNCHANGED unread /\ failed' = failed
        /\ Return(<<>>)
    BY <1>1 DEF Interrupt, Keep
  <2>2. Ahead # <<>> /\ Ahead[1] = "^C" /\ Ahead = Stream /\ phase = "reading"
    BY <2>1, PressedAhead
  <2>3. r \in Seq(Bytes) /\ Tail(Stream) = r \o unread
    BY <2>1, RestOfRead, FrontOfStream DEF Pressed
  <2>4. <<>> \o r = r
    BY <2>3, ConcatEmptySeq
  <2>5. Stream' = Tail(Stream)
    BY <2>1, <2>3, <2>4, Zenon DEF Stream
  <2>6. Ahead' = Tail(Ahead)
    BY <2>1, <2>2, <2>5, AheadIs DEF Skipped
  <2>7. Lines!Return(<<>>)
    BY <2>1, ReturnImplements
  <2> HIDE DEF Ahead
  <2> QED BY <2>1, <2>2, <2>6, <2>7 DEF Lines!Cancel, Lines!Reading, Lines!StartsIn
<1>2. CASE EndOfFile
  <2>1. /\ Pressed("^D") /\ chunk' = <<>> /\ UNCHANGED <<pendingInput, unread>>
        /\ skipNextInputLF' = FALSE /\ failed' = failed
        /\ Return(Exit)
    BY <1>2 DEF EndOfFile, Keep
  <2>2. Ahead # <<>> /\ Ahead[1] = "^D" /\ Ahead = Stream /\ phase = "reading"
    BY <2>1, PressedAhead
  <2> DEFINE n == Len(chunk)
  <2>3. n \in Nat /\ n \in 0 .. Len(chunk) /\ n \in 0 .. Len(Stream)
    <3>1. Len(chunk) \in Nat /\ Len(Stream) \in Nat /\ Len(chunk) <= Len(Stream)
      BY FrontOfStream
    <3> QED BY <3>1
  <2>4. From(chunk, n + 1) = <<>>
    BY <2>3, SubSeqEmpty DEF From
  <2>5. Stream' = From(Stream, n + 1)
    BY <2>1, <2>3, <2>4, FrontOfStream, Zenon DEF Stream
  <2>6. Ahead' = SubSeq(Ahead, n + 1, Len(Ahead))
    BY <2>1, <2>2, <2>5, AheadIs DEF Skipped, From
  <2>7. Lines!Return(Lines!Exit)
    BY <2>1, ReturnImplements DEF Lines!Exit, Exit
  <2> HIDE DEF Ahead, n
  <2> QED BY <2>1, <2>2, <2>3, <2>6, <2>7 DEF Lines!Quit
<1> QED BY <1>1, <1>2

\* The end of the input quits, and a failed read gives the line up.
LEMMA ReadEndsImplement ==
  ASSUME Typed, EndOfInput \/ ReadFails
  PROVE  Lines!Quit \/ Lines!GiveUp
<1>1. UNCHANGED <<unread, chunk, pendingInput, skipNextInputLF>> /\ phase = "reading"
  BY DEF EndOfInput, ReadFails, reads, Idle
<1>2. Ahead' = Ahead
  BY <1>1 DEF Ahead
<1>3. CASE EndOfInput
  <2>1. chunk = <<>> /\ pendingInput = <<>> /\ unread = <<>> /\ Return(Exit) /\ failed' = failed
    BY <1>3 DEF EndOfInput, Idle
  <2>2. <<>> \o <<>> = <<>>
    BY ConcatEmptySeq
  <2>3. Ahead = <<>>
    BY <2>1, <2>2 DEF Ahead, StartsWithLF
  <2>4. Lines!Return(Lines!Exit)
    BY <2>1, ReturnImplements DEF Lines!Exit, Exit
  <2>5. Ahead' = SubSeq(Ahead, 0 + 1, Len(Ahead)) /\ 0 \in 0 .. Len(Ahead)
    <3>1. Len(<<>>) = 0 /\ SubSeq(<<>>, 1, 0) = <<>>
      BY SubSeqEmpty
    <3> HIDE DEF Ahead
    <3> QED BY <1>2, <2>3, <3>1
  <2> HIDE DEF Ahead
  <2> QED BY <1>1, <2>1, <2>3, <2>4, <2>5 DEF Lines!Quit
<1>4. CASE ReadFails
  <2>1. Return(<<>>) /\ failed' = TRUE
    BY <1>4 DEF ReadFails
  <2>2. Lines!Return(<<>>)
    BY <2>1, ReturnImplements
  <2> HIDE DEF Ahead
  <2> QED BY <1>1, <1>2, <2>1, <2>2 DEF Lines!GiveUp
<1> QED BY <1>3, <1>4

\* The main loop, and the slice that is out of range: after a failed read only.
LEMMA LoopImplements ==
  ASSUME Typed, Completed, Dispatch \/ Panic
  PROVE  Lines!Run \/ Lines!Crash
<1>1. UNCHANGED <<reads, line, command, failed>>
  BY DEF Dispatch, Panic
<1>2. UNCHANGED <<Ahead, commandPrefix, buffer, cursor, command, failed>>
  BY <1>1 DEF Ahead, reads, line
<1>3. CASE Dispatch
  BY <1>2, <1>3 DEF Dispatch, Lines!Run, Lines!Exit, Exit
<1>4. CASE Panic
  <2>1. phase = "reading" /\ Again /\ lastAddedLen > cursor /\ phase' = "exited"
    BY <1>4 DEF Panic, Pressed
  <2>2. lastAddedLen \in Nat /\ cursor \in Nat /\ failed \in BOOLEAN
    BY DEF Typed, CompletionTyped, LineTyped, MainTyped
  <2>3. failed
    BY <2>1, <2>2 DEF Completed
  <2> QED BY <1>2, <2>1, <2>3 DEF Lines!Crash
<1> QED BY <1>3, <1>4

\* The prompt starts where the promise does.
LEMMA InitImplements == Init => Lines!LineInit
<1>1. Len(<<>>) = 0
  OBVIOUS
<1> QED BY <1>1 DEF Init, Lines!LineInit

\* Each step of the prompt is one of the promise or changes nothing of it.
LEMMA StepImplements == Typed /\ Completed /\ [Next]_vars => [Lines!LineNext]_Lines!lineVars
<1> SUFFICES ASSUME Typed, Completed, [Next]_vars PROVE [Lines!LineNext]_Lines!lineVars
  OBVIOUS
<1>1. CASE ReadPending \/ Read \/ SkipLF
  BY <1>1, ReadsStutter
<1>2. CASE EndOfInput \/ ReadFails
  BY <1>2, ReadEndsImplement DEF Lines!LineNext
<1>3. CASE Continue
  BY <1>3, ContinueImplements DEF Lines!LineNext
<1>4. CASE Enter
  BY <1>4, EnterImplements DEF Lines!LineNext
<1>5. CASE Interrupt \/ EndOfFile
  BY <1>5, LeavingImplements DEF Lines!LineNext
<1>6. CASE Dispatch \/ Panic
  BY <1>6, LoopImplements DEF Lines!LineNext
<1>7. CASE Type
  BY <1>7, TypeImplements DEF Lines!LineNext
<1>8. CASE OpenBrace \/ Ignore \/ Backspace \/ HandleAutocomplete
  BY <1>8, OtherKeysImplement DEF Lines!LineNext
<1>9. CASE EscapeNothing \/ Kill \/ Move \/ AcceptGhost \/ Up \/ Down
  BY <1>9, EscapesImplement DEF Lines!LineNext
<1>10. CASE UNCHANGED vars
  BY <1>10 DEF vars, reads, line, main, Ahead, Lines!lineVars
<1> QED
  BY <1>1, <1>2, <1>3, <1>4, <1>5, <1>6, <1>7, <1>8, <1>9, <1>10 DEF Next, Exited

(* Every step of the prompt is a step of LineInput, or none that it sees:  *)
(* whatever the bytes and wherever the reads cut them, no line is lost,    *)
(* repeated, joined or split, and the prompt returns each as it was typed. *)
(* That all of the input is read (the rest of KeepsLines) is TLC's.        *)
THEOREM Implements == Spec => Lines!LineSafety
BY InitImplements, StepImplements, TypedInvariance, CompletedInvariance, PTL
   DEF Spec, Lines!LineSafety

-----------------------------------------------------------------------------
(***************************************************************************)
(* A paste, compared with what runNonInteractive makes of the same bytes.  *)
(* The two meet at every place in the input that the prompt has come to:   *)
(* what the scanner has read up to there is what the prompt holds, with    *)
(* spaces for the newlines in a continued line.                            *)
(***************************************************************************)
Scanned == [text : Seq(Bytes), joined : Seq(Bytes), ended : BOOLEAN, commands : Seq(Seq(Bytes))]
SpacedAll(l) == [k \in DOMAIN l |-> Spaced(l[k])]
Run(l, c) == IF c \in {Exit, <<>>} THEN l ELSE Append(l, c)

AtLineEnd(q) == q > 0 /\ input[q] = "LF"

InLine(s) ==
  /\ cursor = Len(buffer) /\ buffer \in Seq(Plain)
  /\ s.text = buffer /\ s.joined = Spaced(commandPrefix)
  /\ s.commands = SpacedAll(ran) /\ s.ended = FALSE

Given(s) ==
  /\ s.text = <<>> /\ s.joined = <<>>
  /\ s.ended = (command = Exit)
  /\ s.commands = SpacedAll(Run(ran, command))

Agree(q, s) ==
  /\ Ahead = From(input, q + 1)
  /\ phase = "reading" => InLine(s)
  /\ phase = "returned" =>
       /\ buffer = <<>> /\ commandPrefix = <<>> /\ cursor = 0
       /\ \/ AtLineEnd(q) /\ Given(s)
          \/ q = Len(input) /\ command = Exit /\ s.commands = SpacedAll(ran)
  /\ phase = "exited" =>
       /\ s.commands = SpacedAll(ran)
       /\ (AtLineEnd(q) /\ s.ended = TRUE) \/ q = Len(input)

SameSoFar ==
  Pasteable /\ ~failed =>
    \E q \in 0 .. Len(input) : Agree(q, BatchReads(input)[q])

Space(c) == IF c = "LF" THEN " " ELSE c

\* A space for every newline: the blanks stay where they are.
LEMMA SpacedIs ==
  ASSUME NEW s \in Seq(Bytes)
  PROVE  /\ Spaced(s) \in Seq(Bytes) /\ Len(Spaced(s)) = Len(s)
         /\ \A k \in 1 .. Len(s) :
              /\ Spaced(s)[k] = Space(s[k])
              /\ Spaced(s)[k] \in Blanks <=> s[k] \in Blanks
<1>1. Len(s) \in Nat /\ DOMAIN s = 1 .. Len(s) /\ \A k \in 1 .. Len(s) : s[k] \in Bytes
  OBVIOUS
<1>2. " " \in Bytes
  BY DEF Bytes, Blanks
<1>3. Spaced(s) \in [1 .. Len(s) -> Bytes]
  BY <1>1, <1>2 DEF Spaced
<1>4. Spaced(s) \in Seq(Bytes) /\ Len(Spaced(s)) = Len(s)
  BY <1>1, <1>3
<1>5. ASSUME NEW k \in 1 .. Len(s)
      PROVE  /\ Spaced(s)[k] = Space(s[k])
             /\ Spaced(s)[k] \in Blanks <=> s[k] \in Blanks
  BY <1>1 DEF Spaced, Space, Blanks
<1> QED BY <1>4, <1>5

\* A text without newlines is left alone.
LEMMA SpacedPlain ==
  ASSUME NEW s \in Seq(Plain)
  PROVE  s \in Seq(Bytes) /\ Spaced(s) = s
<1>1. \A c \in Plain : c \in Bytes /\ c # "LF"
  BY DEF Plain, Printable, Newlines
<1>2. s \in Seq(Bytes) /\ \A k \in 1 .. Len(s) : s[k] \in Plain
  BY <1>1
<1>3. \A k \in 1 .. Len(s) : Spaced(s)[k] = s[k]
  BY <1>1, <1>2, SpacedIs DEF Space
<1>4. Spaced(s) \in Seq(Bytes) /\ Len(Spaced(s)) = Len(s)
  BY <1>2, SpacedIs
<1> HIDE DEF Spaced
<1> QED BY <1>2, <1>3, <1>4, SeqEqual

\* Of two texts in a row, each.
LEMMA SpacedConcat ==
  ASSUME NEW a \in Seq(Bytes), NEW b \in Seq(Bytes)
  PROVE  a \o b \in Seq(Bytes) /\ Spaced(a \o b) = Spaced(a) \o Spaced(b)
<1> DEFINE ab == a \o b
           sa == Spaced(a)
           sb == Spaced(b)
           sab == Spaced(ab)
           cat == sa \o sb
<1>1. /\ ab \in Seq(Bytes) /\ Len(ab) = Len(a) + Len(b)
      /\ \A i \in 1 .. Len(a) + Len(b) : ab[i] = IF i <= Len(a) THEN a[i] ELSE b[i - Len(a)]
  BY ConcatProperties
<1> HIDE DEF ab
<1>2. /\ sab \in Seq(Bytes) /\ Len(sab) = Len(ab)
      /\ \A k \in 1 .. Len(ab) : sab[k] = Space(ab[k])
  BY <1>1, SpacedIs
<1>3. /\ sa \in Seq(Bytes) /\ Len(sa) = Len(a)
      /\ \A k \in 1 .. Len(a) : sa[k] = Space(a[k])
  BY SpacedIs
<1>4. /\ sb \in Seq(Bytes) /\ Len(sb) = Len(b)
      /\ \A k \in 1 .. Len(b) : sb[k] = Space(b[k])
  BY SpacedIs
<1> HIDE DEF sab, sa, sb
<1>5. /\ cat \in Seq(Bytes) /\ Len(cat) = Len(sa) + Len(sb)
      /\ \A i \in 1 .. Len(sa) + Len(sb) :
           cat[i] = IF i <= Len(sa) THEN sa[i] ELSE sb[i - Len(sa)]
  <2>1. sa \in Seq(Bytes) /\ sb \in Seq(Bytes)
    BY <1>3, <1>4
  <2> QED BY <2>1, ConcatProperties
<1> HIDE DEF cat
<1>6. Len(a) \in Nat /\ Len(b) \in Nat /\ Len(cat) = Len(sab)
  BY <1>1, <1>2, <1>3, <1>4, <1>5
<1>7. ASSUME NEW i \in 1 .. Len(cat) PROVE cat[i] = sab[i]
  <2>1. i \in 1 .. Len(a) + Len(b) /\ i \in 1 .. Len(ab)
    BY <1>1, <1>2, <1>6
  <2>2. CASE i <= Len(a)
    <3>1. i \in 1 .. Len(a) /\ ab[i] = a[i] /\ cat[i] = sa[i]
      BY <1>1, <1>3, <1>4, <1>5, <1>6, <2>1, <2>2
    <3> QED BY <1>2, <1>3, <2>1, <3>1
  <2>3. CASE ~(i <= Len(a))
    <3>1. i - Len(a) \in 1 .. Len(b) /\ ab[i] = b[i - Len(a)] /\ cat[i] = sb[i - Len(a)]
      BY <1>1, <1>3, <1>4, <1>5, <1>6, <2>1, <2>3
    <3> QED BY <1>2, <1>4, <2>1, <3>1
  <2> QED BY <2>2, <2>3
<1>8. cat = sab
  BY <1>2, <1>5, <1>6, <1>7, SeqEqual
<1> QED BY <1>1, <1>8 DEF ab, sab, sa, sb, cat

\* Of a text with a byte more.
LEMMA SpacedAppend ==
  ASSUME NEW s \in Seq(Bytes), NEW c \in Bytes
  PROVE  /\ Append(s, c) \in Seq(Bytes)
         /\ Spaced(Append(s, c)) = Append(Spaced(s), Space(c))
<1> DEFINE a == Append(s, c)
           sa == Spaced(a)
           ss == Spaced(s)
           d == Space(c)
           as == Append(ss, d)
<1>1. d \in Bytes
  BY DEF Bytes, Blanks, Space
<1> HIDE DEF d
<1>2. /\ a \in Seq(Bytes) /\ Len(a) = Len(s) + 1 /\ a[Len(s) + 1] = c
      /\ \A i \in 1 .. Len(s) : a[i] = s[i]
  BY AppendProperties
<1> HIDE DEF a
<1>4. /\ sa \in Seq(Bytes) /\ Len(sa) = Len(a)
      /\ \A k \in 1 .. Len(a) : sa[k] = Space(a[k])
  BY <1>2, SpacedIs
<1>5. /\ ss \in Seq(Bytes) /\ Len(ss) = Len(s)
      /\ \A k \in 1 .. Len(s) : ss[k] = Space(s[k])
  BY SpacedIs
<1> HIDE DEF sa, ss
<1>6. /\ as \in Seq(Bytes) /\ Len(as) = Len(ss) + 1 /\ as[Len(ss) + 1] = d
      /\ \A i \in 1 .. Len(ss) : as[i] = ss[i]
  BY <1>1, <1>5, AppendProperties
<1> HIDE DEF as
<1>7. Len(s) \in Nat /\ Len(sa) = Len(as)
  BY <1>2, <1>4, <1>5, <1>6
<1>8. ASSUME NEW i \in 1 .. Len(sa) PROVE sa[i] = as[i]
  <2>1. i \in 1 .. Len(s) \/ i = Len(s) + 1
    BY <1>2, <1>4, <1>7
  <2> QED BY <1>2, <1>4, <1>5, <1>6, <1>7, <2>1 DEF d
<1>9. sa = as
  BY <1>4, <1>6, <1>7, <1>8, SeqEqual
<1> QED BY <1>2, <1>9 DEF a, sa, ss, as, d

\* Trimming comes to the same before and after.
LEMMA SpacedTrim ==
  ASSUME NEW s \in Seq(Bytes)
  PROVE  TrimSpace(Spaced(s)) = Spaced(TrimSpace(s))
<1> DEFINE t == Spaced(s)
           places == {k \in DOMAIN s : s[k] \notin Blanks}
           from == Least(places, 1)
           to == Greatest(places, 0)
           part == SubSeq(s, from, to)
           tpart == SubSeq(t, from, to)
           spart == Spaced(part)
<1>1. Len(s) \in Nat /\ DOMAIN s = 1 .. Len(s)
  OBVIOUS
<1>2. /\ t \in Seq(Bytes) /\ Len(t) = Len(s)
      /\ \A k \in 1 .. Len(s) :
              /\ t[k] = Space(s[k])
              /\ t[k] \in Blanks <=> s[k] \in Blanks
  BY SpacedIs
<1> HIDE DEF t
<1>3. DOMAIN t = 1 .. Len(s)
  BY <1>2
<1>4. {k \in DOMAIN t : t[k] \notin Blanks} = places
  BY <1>1, <1>2, <1>3
<1>5. TrimSpace(t) = tpart /\ TrimSpace(s) = part
  BY <1>4, Zenon DEF TrimSpace
<1>6. Len(s) \in Nat /\ \A k \in places : k \in 1 .. Len(s)
  BY <1>1
<1> HIDE DEF places
<1>7. from \in 1 .. Len(s) + 1 /\ to \in 0 .. Len(s)
  BY <1>6, Places, Zenon
<1> HIDE DEF from, to
<1> DEFINE n == IF from <= to THEN to - from + 1 ELSE 0
<1>8. n \in Nat /\ \A i \in 1 .. n : from + i - 1 \in 1 .. Len(s)
  BY <1>6, <1>7
<1>9. /\ part \in Seq(Bytes) /\ Len(part) = n
      /\ \A i \in 1 .. n : part[i] = s[from + i - 1]
  BY <1>1, <1>7, SubSeqProperties
<1>10. /\ tpart \in Seq(Bytes) /\ Len(tpart) = n
       /\ \A i \in 1 .. n : tpart[i] = t[from + i - 1]
  BY <1>1, <1>2, <1>7, SubSeqProperties
<1> HIDE DEF part, tpart, n
<1>11. /\ spart \in Seq(Bytes) /\ Len(spart) = n
       /\ \A i \in 1 .. n : spart[i] = Space(part[i])
  BY <1>9, SpacedIs
<1> HIDE DEF spart
<1>12. \A i \in 1 .. n : spart[i] = tpart[i]
  BY <1>2, <1>8, <1>9, <1>10, <1>11
<1>13. spart = tpart
  BY <1>10, <1>11, <1>12, SeqEqual
<1> QED BY <1>5, <1>13 DEF spart, tpart, part, t

\* No other text becomes "exit", or nothing.
LEMMA SpacedExit ==
  ASSUME NEW s \in Seq(Bytes)
  PROVE  (Spaced(s) = Exit <=> s = Exit) /\ (Spaced(s) = <<>> <=> s = <<>>)
<1>1. /\ Spaced(s) \in Seq(Bytes) /\ Len(Spaced(s)) = Len(s)
      /\ \A k \in 1 .. Len(s) : Spaced(s)[k] = Space(s[k])
  BY SpacedIs
<1>2. /\ Exit \in Seq(Plain) /\ Len(Exit) = 4
      /\ \A k \in 1 .. 4 : Exit[k] # " " /\ Exit[k] # "LF"
  <2>1. "e" \in Plain /\ "x" \in Plain /\ "i" \in Plain /\ "t" \in Plain
    BY DEF Plain, Bytes, Letters, Printable, Newlines, Keys
  <2>2. <<"e", "x", "i", "t">> \in Seq(Plain)
    BY <2>1
  <2>3. Len(Exit) = 4 /\ \A k \in 1 .. 4 : Exit[k] \in {"e", "x", "i", "t"}
    BY DEF Exit
  <2> QED BY <2>2, <2>3 DEF Exit
<1> HIDE DEF Exit
<1>3. Spaced(Exit) = Exit
  BY <1>2, SpacedPlain
<1>4. ASSUME Spaced(s) = Exit PROVE s = Exit
  <2>1. Len(s) = 4
    BY <1>1, <1>2, <1>4
  <2>2. \A k \in 1 .. 4 : s[k] = Exit[k]
    BY <1>1, <1>2, <1>4, <2>1 DEF Space
  <2>3. Exit \in Seq(Bytes)
    BY <1>2, SpacedPlain
  <2> QED BY <1>2, <2>1, <2>2, <2>3, SeqEqual
<1>5. Spaced(s) = <<>> <=> s = <<>>
  <2> DEFINE t == Spaced(s)
  <2> HIDE DEF t
  <2>1. t \in Seq(Bytes) /\ Len(t) = Len(s)
    BY <1>1 DEF t
  <2>2. t = <<>> <=> s = <<>>
    BY <2>1
  <2> QED BY <2>2 DEF t
<1> QED BY <1>3, <1>4, <1>5

\* What the end of a line makes of its text, without the carriage return.
Chopped(t) == IF t # <<>> /\ Last(t) = "CR" THEN Front(t) ELSE t
GoesOn(t) == t # <<>> /\ Last(t) = "\\"
Part(t) == IF GoesOn(t) THEN Append(Front(t), " ") ELSE t
Ended(acc, t, result) ==
  [ text |-> <<>>,
    joined |-> IF GoesOn(t) THEN acc.joined \o Part(t) ELSE <<>>,
    ended |-> acc.ended \/ (~GoesOn(t) /\ result = Exit),
    commands |-> IF acc.ended \/ GoesOn(t) \/ result \in {Exit, <<>>}
                   THEN acc.commands ELSE Append(acc.commands, result) ]

\* The end of a line, in these parts.
LEMMA EndLineIs ==
  ASSUME NEW acc
  PROVE  EndLine(acc) = Ended(acc, Chopped(acc.text),
                              TrimSpace(acc.joined \o Part(Chopped(acc.text))))
BY DEF EndLine, Ended, Chopped, GoesOn, Part

\* A list without its last element.
LEMMA FrontTyped ==
  ASSUME NEW S, NEW s \in Seq(S), s # <<>>
  PROVE  /\ Front(s) \in Seq(S) /\ Len(Front(s)) = Len(s) - 1
         /\ \A i \in 1 .. Len(s) - 1 : Front(s)[i] = s[i]
         /\ Last(s) \in S /\ Last(s) = s[Len(s)]
<1>1. Len(s) \in Nat \ {0} /\ Len(s) - 1 \in 0 .. Len(s) /\ Len(s) \in 1 .. Len(s)
  OBVIOUS
<1>2. Front(s) = SubSeq(s, 1, Len(s) - 1) /\ Last(s) = s[Len(s)]
  BY DEF Front, Last
<1>3. s[Len(s)] \in S
  BY <1>1
<1>4. LET m == Len(s) - 1
      IN /\ SubSeq(s, 1, m) \in Seq(S) /\ Len(SubSeq(s, 1, m)) = m
         /\ \A i \in 1 .. m : SubSeq(s, 1, m)[i] = s[i]
  BY <1>1, UptoTyped
<1> QED BY <1>2, <1>3, <1>4

\* The same of a list that has just got one.
LEMMA FrontOfAppend ==
  ASSUME NEW S, NEW s \in Seq(S), NEW c \in S
  PROVE  Front(Append(s, c)) = s /\ Last(Append(s, c)) = c /\ Append(s, c) # <<>>
<1> DEFINE a == Append(s, c)
           f == Front(a)
<1>1. /\ a \in Seq(S) /\ Len(a) = Len(s) + 1 /\ a[Len(s) + 1] = c
      /\ \A i \in 1 .. Len(s) : a[i] = s[i]
  BY AppendProperties
<1> HIDE DEF a
<1>2. Len(s) \in Nat /\ a # <<>>
  BY <1>1
<1>3. /\ f \in Seq(S) /\ Len(f) = Len(a) - 1
      /\ \A i \in 1 .. Len(a) - 1 : f[i] = a[i]
      /\ Last(a) = a[Len(a)]
  BY <1>1, <1>2, FrontTyped
<1> HIDE DEF f
<1>4. Len(f) = Len(s) /\ \A i \in 1 .. Len(s) : f[i] = s[i]
  BY <1>1, <1>2, <1>3
<1>5. f = s
  BY <1>3, <1>4, SeqEqual
<1> QED BY <1>1, <1>2, <1>3, <1>5 DEF a, f

\* The end of a line leaves what the scanner has read in its type.
LEMMA EndLineTyped ==
  ASSUME NEW acc \in Scanned
  PROVE  EndLine(acc) \in Scanned
<1> DEFINE t == Chopped(acc.text)
           j == acc.joined \o Part(t)
           r == TrimSpace(j)
<1>1. /\ acc.text \in Seq(Bytes) /\ acc.joined \in Seq(Bytes) /\ acc.ended \in BOOLEAN
      /\ acc.commands \in Seq(Seq(Bytes))
  BY DEF Scanned
<1>2. t \in Seq(Bytes)
  BY <1>1, FrontTyped DEF Chopped
<1> HIDE DEF t
<1>3. Part(t) \in Seq(Bytes)
  <2>1. CASE GoesOn(t)
    <3>1. Front(t) \in Seq(Bytes) /\ " " \in Bytes
      BY <1>2, <2>1, FrontTyped DEF GoesOn, Bytes, Blanks
    <3> QED BY <2>1, <3>1, AppendProperties DEF Part
  <2>2. CASE ~GoesOn(t)
    BY <1>2, <2>2 DEF Part
  <2> QED BY <2>1, <2>2
<1>4. j \in Seq(Bytes)
  BY <1>1, <1>3, ConcatProperties
<1>5. r \in Seq(Bytes)
  BY <1>4, TrimTyped
<1> HIDE DEF r
<1>6. Append(acc.commands, r) \in Seq(Seq(Bytes)) /\ <<>> \in Seq(Bytes)
  BY <1>1, <1>5, AppendProperties
<1>7. Ended(acc, t, r) \in Scanned
  <2>1. (IF GoesOn(t) THEN acc.joined \o Part(t) ELSE <<>>) \in Seq(Bytes)
    BY <1>4, <1>6
  <2>2. (acc.ended \/ (~GoesOn(t) /\ r = Exit)) \in BOOLEAN
    OBVIOUS
  <2>3. (IF acc.ended \/ GoesOn(t) \/ r \in {Exit, <<>>}
           THEN acc.commands ELSE Append(acc.commands, r)) \in Seq(Seq(Bytes))
    BY <1>1, <1>6
  <2> QED BY <1>6, <2>1, <2>2, <2>3, Zenon DEF Ended, Scanned
<1> QED BY <1>7, EndLineIs DEF t, r

\* So does any byte.
LEMMA ScanByteTyped ==
  ASSUME NEW acc \in Scanned, NEW c \in Bytes
  PROVE  ScanByte(acc, c) \in Scanned
<1>1. CASE c = "LF"
  BY <1>1, EndLineTyped DEF ScanByte
<1>2. CASE c # "LF"
  <2>1. acc = [text |-> acc.text, joined |-> acc.joined, ended |-> acc.ended,
               commands |-> acc.commands] /\ acc.text \in Seq(Bytes)
    BY DEF Scanned
  <2>2. Append(acc.text, c) \in Seq(Bytes)
    BY <2>1, AppendProperties
  <2> QED BY <1>2, <2>1, <2>2 DEF ScanByte, Scanned
<1> QED BY <1>1, <1>2

\* The scanner reads byte by byte.
LEMMA BatchReadsIs ==
  ASSUME NEW s \in Seq(Bytes)
  PROVE  /\ BatchReads(s)[0] = Nothing
         /\ \A k \in 0 .. Len(s) : BatchReads(s)[k] \in Scanned
         /\ \A k \in 1 .. Len(s) : BatchReads(s)[k] = ScanByte(BatchReads(s)[k - 1], s[k])
<1> DEFINE n == Len(s)
           Reads(f) == f = [k \in 0 .. n |-> IF k = 0 THEN Nothing ELSE ScanByte(f[k - 1], s[k])]
           step == [k \in 1 .. n |-> [acc \in Scanned |-> ScanByte(acc, s[k])]]
<1>1. n \in Nat /\ \A k \in 1 .. n : s[k] \in Bytes
  OBVIOUS
<1>2. Nothing \in Scanned
  BY DEF Nothing, Scanned
<1>3. step \in [1 .. n -> [Scanned -> Scanned]]
  BY <1>1, ScanByteTyped
<1>4. PICK f \in [0 .. n -> Scanned] :
        f[0] = Nothing /\ \A k \in 1 .. n : f[k] = step[k][f[k - 1]]
  <2>1. n \in Nat
    BY <1>1
  <2>2. \A m \in Nat : \A b \in Scanned, st \in [1 .. m -> [Scanned -> Scanned]] :
          \E f \in [0 .. m -> Scanned] :
            f[0] = b /\ \A k \in 1 .. m : f[k] = st[k][f[k - 1]]
    BY LoopExists
  <2> HIDE DEF n, step
  <2> QED BY <2>1, <1>2, <1>3, <2>2, Zenon
<1>5. Reads(f)
  <2>1. ASSUME NEW k \in 1 .. n PROVE f[k] = ScanByte(f[k - 1], s[k])
    <3>1. f[k - 1] \in Scanned
      BY <1>1, <1>4
    <3>2. f[k] = step[k][f[k - 1]]
      BY <1>4
    <3> QED BY <3>1, <3>2
  <2> QED BY <1>1, <1>4, <2>1
<1> DEFINE g == CHOOSE h : Reads(h)
<1>6. Reads(g)
  BY <1>5
<1>7. BatchReads(s) = g
  BY DEF BatchReads
<1> HIDE DEF g
<1>8. g[0] = Nothing /\ \A k \in 1 .. n : g[k] = ScanByte(g[k - 1], s[k])
  BY <1>1, <1>6
<1>9. \A k \in 0 .. n : g[k] \in Scanned
  <2>1. g[0] \in Scanned /\ \A k \in 1 .. n : g[k - 1] \in Scanned => g[k] \in Scanned
    BY <1>1, <1>2, <1>8, ScanByteTyped
  <2> HIDE DEF n
  <2> QED BY <1>1, <2>1, LoopKeeps, Zenon
<1> QED BY <1>7, <1>8, <1>9

\* Plain bytes are bytes that end no line.
LEMMA PlainBytes == \A c \in Plain : c \in Bytes /\ c # "LF" /\ c # "CR"
BY DEF Plain, Printable, Newlines

\* A carriage return before the line feed makes no difference.
LEMMA ReturnIgnored ==
  ASSUME NEW acc \in Scanned, acc.text \in Seq(Plain)
  PROVE  EndLine(ScanByte(acc, "CR")) = EndLine(acc)
<1> DEFINE t == acc.text
           a == Append(t, "CR")
           b == ScanByte(acc, "CR")
<1>1. t \in Seq(Bytes) /\ "CR" \in Bytes /\ t \in Seq(Plain)
  BY DEF Scanned, Bytes, Newlines
<1>2. b.text = a /\ b.joined = acc.joined /\ b.ended = acc.ended /\ b.commands = acc.commands
  BY DEF ScanByte, Scanned
<1> HIDE DEF b, t
<1>3. Front(a) = t /\ Last(a) = "CR" /\ a # <<>>
  BY <1>1, FrontOfAppend
<1> HIDE DEF a
<1>4. Chopped(a) = t
  BY <1>3 DEF Chopped
<1>5. Chopped(t) = t
  <2>1. CASE t = <<>>
    BY <2>1 DEF Chopped
  <2>2. CASE t # <<>>
    <3>1. Last(t) \in Plain
      BY <1>1, <2>2, FrontTyped
    <3> QED BY <3>1, PlainBytes DEF Chopped
  <2> QED BY <2>1, <2>2
<1>6. \A r : Ended(b, t, r) = Ended(acc, t, r)
  BY <1>2 DEF Ended
<1>7. EndLine(b) = Ended(b, t, TrimSpace(acc.joined \o Part(t)))
  BY <1>2, <1>4, EndLineIs
<1>8. EndLine(acc) = Ended(acc, t, TrimSpace(acc.joined \o Part(t)))
  BY <1>5, EndLineIs DEF t
<1> QED BY <1>6, <1>7, <1>8 DEF b

\* The first of what comes after a place, and what comes after that.
LEMMA NextAfter ==
  ASSUME NEW S, NEW s \in Seq(S), NEW q \in 0 .. Len(s), From(s, q + 1) # <<>>
  PROVE  /\ q + 1 \in 1 .. Len(s)
         /\ From(s, q + 1)[1] = s[q + 1]
         /\ Tail(From(s, q + 1)) = From(s, (q + 1) + 1)
<1> DEFINE f == From(s, q + 1)
           t == Tail(f)
           g == From(s, (q + 1) + 1)
<1>1. Len(s) \in Nat
  OBVIOUS
<1>2. f \in Seq(S) /\ Len(f) = Len(s) - q /\ \A i \in 1 .. Len(s) - q : f[i] = s[q + i]
  BY AfterTyped
<1> HIDE DEF f
<1>3. Len(f) \in Nat \ {0}
  <2>1. f # <<>>
    BY DEF f
  <2> QED BY <1>2, <2>1
<1>4. q + 1 \in 1 .. Len(s) /\ q + 1 \in 0 .. Len(s) /\ f[1] = s[q + 1]
  BY <1>1, <1>2, <1>3
<1>5. t \in Seq(S) /\ Len(t) = Len(f) - 1 /\ \A i \in 1 .. Len(f) - 1 : t[i] = f[i + 1]
  BY <1>2, <1>3, HeadTailProperties
<1> DEFINE p == q + 1
<1>6. g \in Seq(S) /\ Len(g) = Len(s) - p /\ \A i \in 1 .. Len(s) - p : g[i] = s[p + i]
  BY <1>4, AfterTyped
<1> HIDE DEF g, t
<1>7. Len(t) = Len(g)
  BY <1>1, <1>2, <1>3, <1>5, <1>6
<1>9. ASSUME NEW i \in 1 .. Len(t) PROVE t[i] = g[i]
  <2>1. i \in 1 .. Len(f) - 1 /\ i + 1 \in 1 .. Len(s) - q /\ q + (i + 1) = p + i
        /\ i \in 1 .. Len(s) - p
    BY <1>1, <1>2, <1>3, <1>5, <1>6
  <2>2. t[i] = f[i + 1] /\ f[i + 1] = s[q + (i + 1)] /\ g[i] = s[p + i]
    BY <1>2, <1>5, <1>6, <2>1
  <2> QED BY <2>1, <2>2
<1>8. t = g
  BY <1>5, <1>6, <1>7, <1>9, SeqEqual
<1> QED BY <1>4, <1>8 DEF f, g, t

\* Where a newline comes, in one byte or two, the scanner ends its line.
LEMMA NewlineRead ==
  ASSUME input \in Seq(Bytes), Pasteable, NEW q \in 0 .. Len(input),
         From(input, q + 1) # <<>>, From(input, q + 1)[1] \in Newlines,
         BatchReads(input)[q].text \in Seq(Plain)
  PROVE  \E n \in 0 .. Len(input) :
           /\ AtLineEnd(n)
           /\ Lines!AfterNewline(From(input, q + 1)) = From(input, n + 1)
           /\ BatchReads(input)[n] = EndLine(BatchReads(input)[q])
<1> DEFINE f == From(input, q + 1)
           acc == BatchReads(input)[q]
           p == q + 1
<1>1. Len(input) \in Nat /\ p \in 1 .. Len(input) /\ f[1] = input[p] /\ Tail(f) = From(input, p + 1)
  BY NextAfter
<1>2. acc \in Scanned /\ BatchReads(input)[p] = ScanByte(acc, input[p])
  <2>1. p - 1 = q
    OBVIOUS
  <2> QED BY <1>1, <2>1, BatchReadsIs
<1>3. DOMAIN input = 1 .. Len(input)
  OBVIOUS
<1> HIDE DEF f, acc
<1>4. CASE input[p] = "LF"
  <2>1. Lines!AfterNewline(f) = Tail(f)
    BY <1>1, <1>4 DEF Lines!AfterNewline
  <2>2. BatchReads(input)[p] = EndLine(acc)
    BY <1>2, <1>4 DEF ScanByte
  <2>3. AtLineEnd(p) /\ p \in 0 .. Len(input)
    BY <1>1, <1>4 DEF AtLineEnd
  <2> QED BY <1>1, <2>1, <2>2, <2>3 DEF f, acc
<1>5. CASE input[p] = "CR"
  <2>1. p < Len(input) /\ input[p + 1] = "LF"
    BY <1>1, <1>3, <1>5 DEF Pasteable
  <2> DEFINE m == p + 1
             g == From(input, m)
  <2>2. m \in 1 .. Len(input) /\ p \in 0 .. Len(input)
    BY <1>1, <2>1
  <2>3. g # <<>>
    <3>1. g \in Seq(Bytes) /\ Len(g) = Len(input) - p
      BY <2>2, AfterTyped
    <3> HIDE DEF g
    <3>2. Len(g) # 0
      BY <1>1, <2>1, <3>1
    <3> QED BY <3>1, <3>2
  <2>4. g[1] = input[m] /\ Tail(g) = From(input, m + 1)
    BY <2>2, <2>3, NextAfter
  <2> HIDE DEF g
  <2>5. Lines!AfterNewline(f) = From(input, m + 1)
    <3>1. f[1] = "CR" /\ Tail(f) = g
      BY <1>1, <1>5 DEF g
    <3> QED BY <2>1, <2>3, <2>4, <3>1 DEF Lines!AfterNewline, Lines!StartsIn
  <2>6. BatchReads(input)[m] = ScanByte(ScanByte(acc, "CR"), "LF")
    <3>1. m - 1 = p
      BY <1>1
    <3>2. BatchReads(input)[m] = ScanByte(BatchReads(input)[m - 1], input[m])
      BY <2>2, BatchReadsIs
    <3> QED BY <1>2, <1>5, <2>1, <3>1, <3>2
  <2>7. ScanByte(ScanByte(acc, "CR"), "LF") = EndLine(acc)
    <3>1. acc.text \in Seq(Plain)
      BY DEF acc
    <3>2. EndLine(ScanByte(acc, "CR")) = EndLine(acc)
      BY <1>2, <3>1, ReturnIgnored
    <3>3. \A x : ScanByte(x, "LF") = EndLine(x)
      BY DEF ScanByte
    <3> QED BY <3>2, <3>3
  <2>8. AtLineEnd(m) /\ m \in 0 .. Len(input)
    BY <1>1, <2>1, <2>2 DEF AtLineEnd
  <2> QED BY <2>5, <2>6, <2>7, <2>8 DEF f, acc
<1>6. input[p] = "LF" \/ input[p] = "CR"
  BY <1>1 DEF Newlines, f
<1> QED BY <1>4, <1>5, <1>6

\* One more command, in a list of them.
LEMMA SpacedAllAppend ==
  ASSUME NEW l \in Seq(Seq(Bytes)), NEW c \in Seq(Bytes)
  PROVE  SpacedAll(Append(l, c)) = Append(SpacedAll(l), Spaced(c))
<1> DEFINE S == Seq(Bytes)
           a == Append(l, c)
           d == Spaced(c)
           sl == SpacedAll(l)
           sa == SpacedAll(a)
           al == Append(sl, d)
<1>1. d \in S /\ c \in S /\ \A t \in S : Spaced(t) \in S
  BY SpacedIs
<1>2. /\ a \in Seq(S) /\ Len(a) = Len(l) + 1 /\ a[Len(l) + 1] = c
      /\ \A i \in 1 .. Len(l) : a[i] = l[i]
  BY <1>1, AppendProperties
<1> HIDE DEF a, S
<1>3. \A x \in Seq(S) : /\ SpacedAll(x) \in Seq(S) /\ Len(SpacedAll(x)) = Len(x)
                        /\ \A i \in 1 .. Len(x) : SpacedAll(x)[i] = Spaced(x[i])
  <2> SUFFICES ASSUME NEW x \in Seq(S)
               PROVE  /\ SpacedAll(x) \in Seq(S) /\ Len(SpacedAll(x)) = Len(x)
                      /\ \A i \in 1 .. Len(x) : SpacedAll(x)[i] = Spaced(x[i])
    OBVIOUS
  <2>1. Len(x) \in Nat /\ DOMAIN x = 1 .. Len(x) /\ \A i \in 1 .. Len(x) : x[i] \in S
    OBVIOUS
  <2> HIDE DEF Spaced
  <2>2. /\ SpacedAll(x) \in [1 .. Len(x) -> S]
        /\ \A i \in 1 .. Len(x) : SpacedAll(x)[i] = Spaced(x[i])
    <3>1. SpacedAll(x) = [i \in 1 .. Len(x) |-> Spaced(x[i])]
      BY <2>1, Zenon DEF SpacedAll
    <3>2. \A i \in 1 .. Len(x) : Spaced(x[i]) \in S
      BY <1>1, <2>1, Zenon
    <3> DEFINE domain == 1 .. Len(x)
    <3> HIDE DEF domain
    <3>3. SpacedAll(x) = [i \in domain |-> Spaced(x[i])] /\ \A i \in domain : Spaced(x[i]) \in S
      BY <3>1, <3>2 DEF domain
    <3>4. SpacedAll(x) \in [domain -> S]
      BY <3>3
    <3>5. \A i \in domain : SpacedAll(x)[i] = Spaced(x[i])
      BY <3>3
    <3> QED BY <3>4, <3>5 DEF domain
  <2>3. \A n \in Nat : \A f \in [1 .. n -> S] : f \in Seq(S) /\ Len(f) = n
    OBVIOUS
  <2>4. SpacedAll(x) \in Seq(S) /\ Len(SpacedAll(x)) = Len(x)
    BY <2>1, <2>2, <2>3, Zenon
  <2> QED BY <2>2, <2>4
<1>4. l \in Seq(S)
  BY DEF S
<1>5. /\ sl \in Seq(S) /\ Len(sl) = Len(l) /\ \A i \in 1 .. Len(l) : sl[i] = Spaced(l[i])
  BY <1>3, <1>4
<1>6. /\ sa \in Seq(S) /\ Len(sa) = Len(a) /\ \A i \in 1 .. Len(a) : sa[i] = Spaced(a[i])
  BY <1>2, <1>3
<1> HIDE DEF sl, sa
<1>7. /\ al \in Seq(S) /\ Len(al) = Len(sl) + 1 /\ al[Len(sl) + 1] = d
      /\ \A i \in 1 .. Len(sl) : al[i] = sl[i]
  <2> HIDE DEF d
  <2>1. sl \in Seq(S) /\ d \in S
    BY <1>1, <1>5
  <2> QED BY <2>1, AppendProperties
<1> HIDE DEF al
<1>8. Len(l) \in Nat /\ Len(sa) = Len(al)
  BY <1>2, <1>4, <1>5, <1>6, <1>7
<1>9. ASSUME NEW i \in 1 .. Len(sa) PROVE sa[i] = al[i]
  <2>1. i \in 1 .. Len(l) \/ i = Len(l) + 1
    BY <1>2, <1>6, <1>8
  <2>2. CASE i \in 1 .. Len(l)
    BY <1>2, <1>5, <1>6, <1>7, <2>2
  <2>3. CASE i = Len(l) + 1
    BY <1>2, <1>5, <1>6, <1>7, <2>3 DEF d
  <2> QED BY <2>1, <2>2, <2>3
<1>10. sa = al
  BY <1>6, <1>7, <1>8, <1>9, SeqEqual
<1> QED BY <1>10 DEF a, d, sl, sa, al

LineCommand == TrimSpace(commandPrefix \o buffer)

\* A line that goes on leaves the same to the scanner and to the prompt.
LEMMA LineGoesOn ==
  ASSUME Typed, NEW acc \in Scanned, InLine(acc), GoesOn(buffer)
  PROVE  LET e == EndLine(acc) IN
         /\ e.text = <<>>
         /\ e.joined = Spaced(Append(commandPrefix \o Front(buffer), "LF"))
         /\ e.commands = acc.commands /\ e.ended = FALSE
<1> DEFINE t == acc.text
           f == Front(buffer)
           p == commandPrefix
           pf == p \o f
           r == TrimSpace(acc.joined \o Part(Chopped(t)))
<1>1. /\ t = buffer /\ acc.joined = Spaced(p) /\ acc.ended = FALSE
      /\ p \in Seq(Bytes) /\ buffer \in Seq(Plain)
  BY DEF InLine, Typed, LineTyped
<1>2. Last(buffer) = "\\" /\ buffer # <<>>
  BY DEF GoesOn
<1>3. Chopped(t) = buffer /\ Part(buffer) = Append(f, " ")
  BY <1>1, <1>2 DEF Chopped, Part, GoesOn
<1>4. f \in Seq(Plain)
  BY <1>1, <1>2, FrontTyped
<1>5. f \in Seq(Bytes) /\ Spaced(f) = f
  BY <1>4, SpacedPlain
<1> HIDE DEF f, t
<1>6. pf \in Seq(Bytes) /\ Spaced(pf) = Spaced(p) \o f
  BY <1>1, <1>5, SpacedConcat
<1> HIDE DEF pf
<1>7. Spaced(Append(pf, "LF")) = Append(Spaced(p) \o f, " ")
  <2>1. "LF" \in Bytes /\ Space("LF") = " "
    BY DEF Bytes, Blanks, Space
  <2>2. Spaced(Append(pf, "LF")) = Append(Spaced(pf), Space("LF"))
    BY <1>6, <2>1, SpacedAppend
  <2> QED BY <1>6, <2>1, <2>2
<1>8. Append(Spaced(p) \o f, " ") = Spaced(p) \o Append(f, " ")
  <2>1. Spaced(p) \in Seq(Bytes) /\ " " \in Bytes
    BY <1>1, SpacedIs DEF Bytes, Blanks
  <2> DEFINE sp == Spaced(p)
             blank == " "
  <2>2. sp \in Seq(Bytes) /\ blank \in Bytes /\ f \in Seq(Bytes)
    BY <1>5, <2>1, Zenon
  <2> HIDE DEF sp, blank
  <2>3. Append(sp \o f, blank) = sp \o Append(f, blank)
    <3> DEFINE one == <<blank>>
    <3>1. sp \o f \in Seq(Bytes) /\ one \in Seq(Bytes)
      BY <2>2, ConcatProperties
    <3>2. Append(sp \o f, blank) = (sp \o f) \o one /\ Append(f, blank) = f \o one
      BY <2>2, <3>1, AppendIsConcat
    <3> HIDE DEF one
    <3>3. (sp \o f) \o one = sp \o (f \o one)
      BY <2>2, <3>1, ConcatAssociative
    <3> QED BY <3>2, <3>3, Zenon
  <2> QED BY <2>3 DEF sp, blank
<1>9. EndLine(acc) = Ended(acc, buffer, r)
  BY <1>3, EndLineIs DEF t
<1> HIDE DEF r
<1>10. /\ Ended(acc, buffer, r).text = <<>>
       /\ Ended(acc, buffer, r).joined = acc.joined \o Part(buffer)
       /\ Ended(acc, buffer, r).commands = acc.commands
  BY DEF Ended
<1>11. Ended(acc, buffer, r).ended = FALSE
  BY <1>1 DEF Ended
<1> QED BY <1>1, <1>3, <1>7, <1>8, <1>9, <1>10, <1>11 DEF f, pf

\* One that ends gives both the same command.
LEMMA LineEnds ==
  ASSUME Typed, ran \in Seq(Seq(Bytes)), NEW acc \in Scanned, InLine(acc), ~GoesOn(buffer)
  PROVE  LET e == EndLine(acc) IN
         /\ e.text = <<>> /\ e.joined = <<>>
         /\ e.ended = (LineCommand = Exit)
         /\ e.commands = SpacedAll(Run(ran, LineCommand))
<1> DEFINE t == acc.text
           p == commandPrefix
           pb == p \o buffer
           r == TrimSpace(acc.joined \o Part(Chopped(t)))
           c == LineCommand
<1>1. /\ t = buffer /\ acc.joined = Spaced(p) /\ acc.ended = FALSE
      /\ p \in Seq(Bytes) /\ buffer \in Seq(Plain) /\ acc.commands = SpacedAll(ran)
  BY DEF InLine, Typed, LineTyped
<1>2. buffer # <<>> => Last(buffer) \in Plain
  BY <1>1, FrontTyped
<1>3. Chopped(t) = buffer /\ Part(buffer) = buffer
  BY <1>1, <1>2, PlainBytes DEF Chopped, Part
<1>4. buffer \in Seq(Bytes) /\ Spaced(buffer) = buffer
  BY <1>1, SpacedPlain
<1>5. pb \in Seq(Bytes) /\ Spaced(pb) = Spaced(p) \o buffer
  BY <1>1, <1>4, SpacedConcat
<1>6. r = TrimSpace(Spaced(pb))
  BY <1>1, <1>3, <1>5, Zenon
<1> HIDE DEF pb
<1>7. c = TrimSpace(pb)
  BY DEF LineCommand, pb
<1>8. c \in Seq(Bytes) /\ r = Spaced(c)
  BY <1>5, <1>6, <1>7, TrimTyped, SpacedTrim
<1>9. (r = Exit <=> c = Exit) /\ (r = <<>> <=> c = <<>>)
  BY <1>8, SpacedExit
<1>10. EndLine(acc) = Ended(acc, buffer, r)
  BY <1>3, EndLineIs
<1>11. SpacedAll(Append(ran, c)) = Append(SpacedAll(ran), r)
  BY <1>8, SpacedAllAppend
<1> HIDE DEF r, c, t
<1>12. Ended(acc, buffer, r).text = <<>> /\ Ended(acc, buffer, r).joined = <<>>
  BY DEF Ended
<1>13. Ended(acc, buffer, r).ended = (c = Exit)
  BY <1>1, <1>9 DEF Ended
<1> DEFINE longer == Append(SpacedAll(ran), r)
<1>14. Ended(acc, buffer, r).commands = IF r \in {Exit, <<>>} THEN SpacedAll(ran) ELSE longer
  BY <1>1 DEF Ended
<1>15. SpacedAll(Run(ran, c)) = IF c \in {Exit, <<>>} THEN SpacedAll(ran) ELSE longer
  BY <1>11 DEF Run
<1>16. r \in {Exit, <<>>} <=> c \in {Exit, <<>>}
  BY <1>9
<1> QED BY <1>10, <1>12, <1>13, <1>14, <1>15, <1>16, Zenon DEF c

InputAndRan == input \in Seq(Bytes) /\ ran \in Seq(Seq(Bytes))

\* The input stays, and only the main loop adds to what has been run.
LEMMA RanSteps ==
  ASSUME [Next]_vars
  PROVE  /\ input' = input
         /\ Dispatch \/ (ran' = ran /\ (phase = "returned" => phase' = phase))
<1>1. CASE ReadPending \/ Read \/ SkipLF
  BY <1>1 DEF ReadPending, Read, SkipLF, Idle, Consume, main
<1>2. CASE EndOfInput \/ ReadFails
  BY <1>2 DEF EndOfInput, ReadFails, Idle, Return, reads
<1>3. CASE Continue
  BY <1>3 DEF Continue, Pressed, main
<1>4. CASE Enter \/ Interrupt \/ EndOfFile
  BY <1>4 DEF Enter, Interrupt, EndOfFile, Keep, Return, Pressed
<1>5. CASE Dispatch
  BY <1>5 DEF Dispatch, reads
<1>6. CASE Type \/ OpenBrace \/ Ignore \/ Backspace
  BY <1>6 DEF Type, OpenBrace, Ignore, Backspace, Edits, Pressed, Consume, main
<1>7. CASE HandleAutocomplete
  BY <1>7 DEF HandleAutocomplete, Pressed, Consume, main
<1>8. CASE Panic
  BY <1>8 DEF Panic, Pressed, reads
<1>9. CASE EscapeNothing \/ Kill \/ Move \/ AcceptGhost \/ Up \/ Down
  <2>1. PICK names : Escape(names)
    BY <1>9 DEF EscapeNothing, Kill, Move, AcceptGhost, Up, Down
  <2>2. PICK n : Edits("ESC", n)
    BY <2>1 DEF Escape
  <2> QED BY <2>2 DEF Edits, Pressed, Consume, main
<1>10. CASE UNCHANGED vars
  BY <1>10 DEF vars, reads, main
<1> QED
  BY <1>1, <1>2, <1>3, <1>4, <1>5, <1>6, <1>7, <1>8, <1>9, <1>10 DEF Next, Exited

\* They have their types throughout.
LEMMA InputAndRanInvariance == Spec => []InputAndRan
<1>1. Init => InputAndRan
  BY TextAssumption DEF Init, InputAndRan
<1>2. Typed /\ InputAndRan /\ [Next]_vars => InputAndRan'
  <2> SUFFICES ASSUME Typed, InputAndRan, [Next]_vars PROVE InputAndRan'
    OBVIOUS
  <2>1. input' = input /\ (Dispatch \/ ran' = ran)
    BY RanSteps
  <2>2. command \in Seq(Bytes) /\ ran \in Seq(Seq(Bytes)) /\ input \in Seq(Bytes)
    BY DEF Typed, MainTyped, InputAndRan
  <2>3. Append(ran, command) \in Seq(Seq(Bytes))
    BY <2>2, AppendProperties
  <2>4. ran' \in Seq(Seq(Bytes))
    BY <2>1, <2>2, <2>3 DEF Dispatch
  <2> QED BY <2>1, <2>2, <2>4 DEF InputAndRan
<1> QED BY <1>1, <1>2, TypedInvariance, PTL DEF Spec

\* What the two have to agree on after a step.
LEMMA AgreeNext ==
  ASSUME input' = input, NEW q \in 0 .. Len(input), NEW s, s = BatchReads(input)[q],
         Ahead' = From(input, q + 1),
         phase' = "reading" =>
           /\ cursor' = Len(buffer') /\ buffer' \in Seq(Plain)
           /\ s.text = buffer' /\ s.joined = Spaced(commandPrefix')
           /\ s.commands = SpacedAll(ran') /\ s.ended = FALSE,
         phase' = "returned" =>
           /\ buffer' = <<>> /\ commandPrefix' = <<>> /\ cursor' = 0
           /\ \/ /\ AtLineEnd(q)
                 /\ s.text = <<>> /\ s.joined = <<>> /\ s.ended = (command' = Exit)
                 /\ s.commands = SpacedAll(Run(ran', command'))
              \/ q = Len(input) /\ command' = Exit /\ s.commands = SpacedAll(ran'),
         phase' = "exited" =>
           /\ s.commands = SpacedAll(ran')
           /\ (AtLineEnd(q) /\ s.ended = TRUE) \/ q = Len(input)
  PROVE  SameSoFar'
<1>1. Agree(q, s)'
  BY Zenon DEF Agree, InLine, Given, AtLineEnd
<1>2. s = BatchReads(input')[q] /\ q \in 0 .. Len(input')
  OBVIOUS
<1>3. (\E k \in 0 .. Len(input) : Agree(k, BatchReads(input)[k]))'
  BY <1>1, <1>2, Zenon DEF Agree, InLine, Given, AtLineEnd
<1> QED BY <1>3, Zenon DEF SameSoFar

\* What the step finds: the two agree at a place.
Meet(q, s) ==
  /\ Typed /\ InputAndRan /\ Pasteable /\ failed = FALSE
  /\ q \in 0 .. Len(input) /\ s = BatchReads(input)[q] /\ s \in Scanned
  /\ Agree(q, s)

\* The next byte, if there is one, is plain or begins a newline.
LEMMA NextByte ==
  ASSUME NEW q, NEW s, Meet(q, s), Ahead # <<>>
  PROVE  /\ Len(input) \in Nat /\ q + 1 \in 1 .. Len(input)
         /\ Ahead[1] = input[q + 1] /\ Ahead[1] \in Plain \cup Newlines
         /\ Tail(Ahead) = From(input, (q + 1) + 1)
<1>1. input \in Seq(Bytes) /\ q \in 0 .. Len(input) /\ Ahead = From(input, q + 1)
  BY DEF Meet, InputAndRan, Agree
<1> HIDE DEF Ahead
<1>2. /\ q + 1 \in 1 .. Len(input) /\ Ahead[1] = input[q + 1]
      /\ Tail(Ahead) = From(input, (q + 1) + 1)
  BY <1>1, NextAfter
<1>3. DOMAIN input = 1 .. Len(input) /\ Len(input) \in Nat
  BY <1>1
<1>4. input[q + 1] \in Plain \cup Newlines
  BY <1>2, <1>3 DEF Meet, Pasteable, Range
<1> QED BY <1>2, <1>3, <1>4

\* A plain byte goes to the end of the line of both.
LEMMA TypeAgrees ==
  ASSUME NEW q, NEW s, Meet(q, s), input' = input, ran' = ran, Lines!Type
  PROVE  SameSoFar'
<1>1. /\ phase = "reading" /\ phase' = "reading" /\ Ahead # <<>> /\ Ahead[1] \in Plain
      /\ Ahead' = Tail(Ahead) /\ buffer' = Append(buffer, Ahead[1])
      /\ commandPrefix' = commandPrefix /\ cursor = Len(buffer)
      /\ (cursor' = Len(buffer')) = (cursor = Len(buffer))
  BY DEF Lines!Type, Lines!Reading, Lines!StartsIn
<1>2. PICK c : c = Ahead[1]
  OBVIOUS
<1> DEFINE p == q + 1
<1>3. /\ Len(input) \in Nat /\ p \in 1 .. Len(input) /\ c = input[p]
      /\ Ahead' = From(input, p + 1)
  BY <1>1, <1>2, NextByte
<1>4. /\ q \in 0 .. Len(input) /\ input \in Seq(Bytes)
      /\ s = BatchReads(input)[q] /\ s \in Scanned
  BY DEF Meet, InputAndRan
<1>5. /\ buffer \in Seq(Plain) /\ s.text = buffer /\ s.joined = Spaced(commandPrefix)
      /\ s.commands = SpacedAll(ran) /\ s.ended = FALSE
  BY <1>1 DEF Meet, Agree, InLine
<1>6. PICK e : e = ScanByte(s, c)
  OBVIOUS
<1>7. e = BatchReads(input)[p]
  <2>1. p - 1 = q
    BY <1>4
  <2>2. BatchReads(input)[p] = ScanByte(BatchReads(input)[p - 1], input[p])
    BY <1>3, <1>4, BatchReadsIs
  <2> QED BY <1>3, <1>4, <1>6, <2>1, <2>2
<1>8. c # "LF" /\ c \in Plain
  BY <1>1, <1>2, PlainBytes
<1>9. /\ e.text = Append(buffer, c) /\ e.joined = s.joined /\ e.commands = s.commands
      /\ e.ended = s.ended
  BY <1>4, <1>5, <1>6, <1>8 DEF ScanByte, Scanned
<1>10. Append(buffer, c) \in Seq(Plain)
  BY <1>5, <1>8, AppendProperties
<1>11. /\ cursor' = Len(buffer') /\ buffer' \in Seq(Plain)
       /\ e.text = buffer' /\ e.joined = Spaced(commandPrefix')
       /\ e.commands = SpacedAll(ran') /\ e.ended = FALSE
  BY <1>1, <1>2, <1>5, <1>9, <1>10
<1>12. p \in 0 .. Len(input)
  BY <1>3
<1> HIDE DEF Ahead, p
<1> QED BY <1>1, <1>3, <1>7, <1>11, <1>12, AgreeNext

\* A newline after a backslash.
LEMMA ContinueAgrees ==
  ASSUME NEW q, NEW s, Meet(q, s), input' = input, ran' = ran, Lines!Continue
  PROVE  SameSoFar'
<1>1. /\ phase = "reading" /\ phase' = "reading" /\ Ahead # <<>> /\ Ahead[1] \in Newlines
      /\ Ahead' = Lines!AfterNewline(Ahead) /\ buffer' = <<>>
      /\ commandPrefix' = Append(commandPrefix \o Front(buffer), "LF")
      /\ cursor = Len(buffer) /\ GoesOn(buffer)
      /\ (cursor' = Len(buffer')) = (cursor = Len(buffer))
  BY DEF Lines!Continue, Lines!Reading, Lines!StartsIn, Lines!EndsIn, GoesOn, Newlines,
         Lines!Newlines, Lines!Front, Front, Lines!Last, Last
<1>2. /\ q \in 0 .. Len(input) /\ input \in Seq(Bytes) /\ Typed /\ Pasteable
      /\ s = BatchReads(input)[q] /\ s \in Scanned /\ Ahead = From(input, q + 1)
  BY DEF Meet, InputAndRan, Agree
<1>3. InLine(s)
  BY <1>1 DEF Meet, Agree
<1>4. s.text \in Seq(Plain) /\ s.commands = SpacedAll(ran)
  BY <1>3 DEF InLine
<1> HIDE DEF Ahead
<1>5. \E n \in 0 .. Len(input) :
         /\ AtLineEnd(n)
         /\ Lines!AfterNewline(From(input, q + 1)) = From(input, n + 1)
         /\ BatchReads(input)[n] = EndLine(BatchReads(input)[q])
  BY <1>1, <1>2, <1>4, NewlineRead
<1>6. PICK n \in 0 .. Len(input) :
         AtLineEnd(n) /\ Ahead' = From(input, n + 1) /\ BatchReads(input)[n] = EndLine(s)
  BY <1>1, <1>2, <1>5
<1>7. PICK e : e = EndLine(s)
  OBVIOUS
<1>8. /\ e.text = <<>> /\ e.joined = Spaced(Append(commandPrefix \o Front(buffer), "LF"))
      /\ e.commands = s.commands /\ e.ended = FALSE
  BY <1>1, <1>2, <1>3, <1>7, LineGoesOn
<1>9. /\ cursor' = Len(buffer') /\ buffer' \in Seq(Plain)
      /\ e.text = buffer' /\ e.joined = Spaced(commandPrefix')
      /\ e.commands = SpacedAll(ran') /\ e.ended = FALSE
  BY <1>1, <1>4, <1>8
<1>10. e = BatchReads(input)[n]
  BY <1>6, <1>7
<1> QED BY <1>1, <1>6, <1>9, <1>10, AgreeNext

\* One that ends the line.
LEMMA DeliverAgrees ==
  ASSUME NEW q, NEW s, Meet(q, s), input' = input, ran' = ran, Lines!Deliver
  PROVE  SameSoFar'
<1>1. /\ phase = "reading" /\ phase' = "returned" /\ Ahead # <<>> /\ Ahead[1] \in Newlines
      /\ Ahead' = Lines!AfterNewline(Ahead) /\ buffer' = <<>> /\ commandPrefix' = <<>>
      /\ cursor' = Len(buffer')
      /\ command' = Lines!Trim(commandPrefix \o buffer)
      /\ ~(cursor = Len(buffer) /\ GoesOn(buffer))
  BY DEF Lines!Deliver, Lines!Reading, Lines!StartsIn, Lines!EndsIn, GoesOn, Newlines,
         Lines!Newlines, Lines!Return, Lines!Last, Last
<1>2. /\ q \in 0 .. Len(input) /\ input \in Seq(Bytes) /\ Typed /\ Pasteable
      /\ s = BatchReads(input)[q] /\ s \in Scanned /\ Ahead = From(input, q + 1)
      /\ ran \in Seq(Seq(Bytes))
  BY DEF Meet, InputAndRan, Agree
<1>3. InLine(s) /\ ~GoesOn(buffer)
  BY <1>1 DEF Meet, Agree, InLine
<1>4. s.text \in Seq(Plain)
  BY <1>3 DEF InLine
<1> HIDE DEF Ahead
<1>5. \E n \in 0 .. Len(input) :
         /\ AtLineEnd(n)
         /\ Lines!AfterNewline(From(input, q + 1)) = From(input, n + 1)
         /\ BatchReads(input)[n] = EndLine(BatchReads(input)[q])
  BY <1>1, <1>2, <1>4, NewlineRead
<1>6. PICK n \in 0 .. Len(input) :
         AtLineEnd(n) /\ Ahead' = From(input, n + 1) /\ BatchReads(input)[n] = EndLine(s)
  BY <1>1, <1>2, <1>5
<1>7. PICK e : e = EndLine(s)
  OBVIOUS
<1>8. /\ e.text = <<>> /\ e.joined = <<>> /\ e.ended = (LineCommand = Exit)
      /\ e.commands = SpacedAll(Run(ran, LineCommand))
  BY <1>2, <1>3, <1>7, LineEnds
<1>9. command' = LineCommand
  <2>1. commandPrefix \o buffer \in Seq(Bytes)
    BY <1>2, ConcatProperties DEF Typed, LineTyped
  <2> QED BY <1>1, <2>1, TrimIs DEF LineCommand
<1>10. cursor' = 0
  <2>1. Len(<<>>) = 0
    OBVIOUS
  <2> QED BY <1>1, <2>1, Zenon
<1>11. e = BatchReads(input)[n]
  BY <1>6, <1>7
<1>12. /\ e.text = <<>> /\ e.joined = <<>> /\ e.ended = (command' = Exit)
       /\ e.commands = SpacedAll(Run(ran', command'))
  BY <1>8, <1>9, Zenon
<1> HIDE DEF Exit
<1> QED BY <1>1, <1>6, <1>10, <1>11, <1>12, AgreeNext

\* The end of the input, where nothing is left of it.
LEMMA QuitAgrees ==
  ASSUME NEW q, NEW s, Meet(q, s), input' = input, ran' = ran, Lines!Quit
  PROVE  SameSoFar'
<1>1. /\ phase = "reading" /\ phase' = "returned" /\ command' = Exit
      /\ buffer' = <<>> /\ commandPrefix' = <<>> /\ cursor' = Len(buffer')
      /\ Ahead # <<>> => Ahead[1] = "^D"
  BY DEF Lines!Quit, Lines!Return, Lines!Exit, Exit
<1>2. PICK n \in 0 .. Len(Ahead) : Ahead' = SubSeq(Ahead, n + 1, Len(Ahead))
  BY DEF Lines!Quit
<1>3. Ahead = <<>>
  <2>1. "^D" \notin Plain \cup Newlines
    BY DEF Plain, Printable, Keys, Newlines
  <2> HIDE DEF Ahead
  <2> QED BY <1>1, <2>1, NextByte
<1>4. /\ q \in 0 .. Len(input) /\ input \in Seq(Bytes) /\ Ahead = From(input, q + 1)
      /\ s = BatchReads(input)[q] /\ s.commands = SpacedAll(ran)
  BY <1>1 DEF Meet, InputAndRan, Agree, InLine
<1> HIDE DEF Ahead
<1>5. q = Len(input)
  <2>1. Len(From(input, q + 1)) = Len(input) - q
    BY <1>4, AfterTyped
  <2>2. Len(Ahead) = 0 /\ Len(input) \in Nat
    BY <1>3, <1>4
  <2> QED BY <1>4, <2>1, <2>2
<1>6. Ahead' = Ahead
  <2>1. n = 0 /\ Len(Ahead) = 0
    BY <1>3
  <2>2. SubSeq(<<>>, 1, 0) = <<>>
    OBVIOUS
  <2> QED BY <1>2, <1>3, <2>1, <2>2
<1>7. cursor' = 0
  <2>1. Len(<<>>) = 0
    OBVIOUS
  <2> QED BY <1>1, <2>1, Zenon
<1> HIDE DEF Exit
<1> QED BY <1>1, <1>4, <1>5, <1>6, <1>7, AgreeNext

\* The main loop runs what the scanner has run.
LEMMA RunAgrees ==
  ASSUME NEW q, NEW s, Meet(q, s), input' = input, Dispatch, Ahead' = Ahead
  PROVE  SameSoFar'
<1>1. /\ phase = "returned" /\ phase' = (IF command = Exit THEN "exited" ELSE "reading")
      /\ ran' = Run(ran, command)
      /\ UNCHANGED <<buffer, cursor, commandPrefix, command>>
  BY DEF Dispatch, Run, line
<1>2. /\ q \in 0 .. Len(input) /\ s = BatchReads(input)[q] /\ Ahead' = From(input, q + 1)
      /\ buffer = <<>> /\ commandPrefix = <<>> /\ cursor = 0
      /\ \/ AtLineEnd(q) /\ Given(s)
         \/ q = Len(input) /\ command = Exit /\ s.commands = SpacedAll(ran)
  BY <1>1 DEF Meet, Agree
<1> HIDE DEF Ahead
<1>3. <<>> \in Seq(Plain) /\ Len(<<>>) = 0
  OBVIOUS
<1>4. Spaced(<<>>) = <<>>
  BY <1>3, SpacedPlain
<1>5. CASE command = Exit
  <2>1. phase' = "exited" /\ ran' = ran
    BY <1>1, <1>5 DEF Run
  <2>2. s.commands = SpacedAll(ran') /\ ((AtLineEnd(q) /\ s.ended = TRUE) \/ q = Len(input))
    BY <1>2, <1>5, <2>1 DEF Given, Run
  <2> QED BY <1>2, <2>1, <2>2, AgreeNext
<1>6. CASE command # Exit
  <2>1. phase' = "reading" /\ Given(s)
    BY <1>1, <1>2, <1>6
  <2>2. s.text = <<>> /\ s.joined = <<>> /\ s.commands = SpacedAll(ran')
    BY <1>1, <2>1 DEF Given
  <2>3. s.ended = FALSE
    BY <1>6, <2>1 DEF Given
  <2>4. /\ cursor' = Len(buffer') /\ buffer' \in Seq(Plain)
        /\ s.text = buffer' /\ s.joined = Spaced(commandPrefix')
        /\ s.commands = SpacedAll(ran') /\ s.ended = FALSE
    <3>1. buffer' = <<>> /\ commandPrefix' = <<>> /\ cursor' = 0
      BY <1>1, <1>2
    <3> QED BY <1>3, <1>4, <2>2, <2>3, <3>1, Zenon
  <2> QED BY <1>2, <2>1, <2>4, AgreeNext
<1> QED BY <1>5, <1>6

\* A step that the lines do not see.
LEMMA UnseenAgrees ==
  ASSUME NEW q, NEW s, Meet(q, s), input' = input, ran' = ran, UNCHANGED Lines!lineVars
  PROVE  SameSoFar'
<1>1. /\ UNCHANGED <<Ahead, commandPrefix, buffer, command, phase>>
      /\ (cursor' = Len(buffer')) = (cursor = Len(buffer))
  BY DEF Lines!lineVars
<1>2. q \in 0 .. Len(input) /\ s = BatchReads(input)[q] /\ Agree(q, s)
  BY DEF Meet
<1> HIDE DEF Ahead
<1>3. phase' = "returned" => cursor' = 0
  <2>1. Len(<<>>) = 0
    OBVIOUS
  <2> QED BY <1>1, <1>2, <2>1 DEF Agree
<1>4. phase' = "reading" =>
        /\ cursor' = Len(buffer') /\ buffer' \in Seq(Plain)
        /\ s.text = buffer' /\ s.joined = Spaced(commandPrefix')
        /\ s.commands = SpacedAll(ran') /\ s.ended = FALSE
  BY <1>1, <1>2 DEF Agree, InLine
<1>5. phase' = "returned" =>
        /\ buffer' = <<>> /\ commandPrefix' = <<>> /\ cursor' = 0
        /\ \/ /\ AtLineEnd(q)
              /\ s.text = <<>> /\ s.joined = <<>> /\ s.ended = (command' = Exit)
              /\ s.commands = SpacedAll(Run(ran', command'))
           \/ q = Len(input) /\ command' = Exit /\ s.commands = SpacedAll(ran')
  BY <1>1, <1>2, <1>3, Zenon DEF Agree, Given
<1>6. phase' = "exited" =>
        /\ s.commands = SpacedAll(ran')
        /\ (AtLineEnd(q) /\ s.ended = TRUE) \/ q = Len(input)
  BY <1>1, <1>2 DEF Agree
<1>7. Ahead' = From(input, q + 1)
  BY <1>1, <1>2 DEF Agree
<1> HIDE DEF Exit
<1> QED BY <1>2, <1>4, <1>5, <1>6, <1>7, AgreeNext

\* Every step keeps the two together, of a paste of plain lines.
LEMMA StepAgrees ==
  Typed /\ Completed /\ InputAndRan /\ SameSoFar /\ [Next]_vars => SameSoFar'
<1> SUFFICES ASSUME Typed, Completed, InputAndRan, SameSoFar, [Next]_vars PROVE SameSoFar'
  OBVIOUS
<1> SUFFICES ASSUME Pasteable, ~failed' PROVE SameSoFar'
  <2>1. (Pasteable)' => Pasteable
    BY RanSteps DEF Pasteable
  <2> QED BY <2>1, Zenon DEF SameSoFar
<1>1. [Lines!LineNext]_Lines!lineVars
  BY StepImplements
<1>2. input' = input /\ (Dispatch \/ (ran' = ran /\ (phase = "returned" => phase' = phase)))
  BY RanSteps
<1>3. failed = FALSE
  <2>1. failed \in BOOLEAN
    BY DEF Typed, MainTyped
  <2>2. failed' = failed \/ failed' = TRUE
    <3>1. failed' = failed \/ Lines!GiveUp
      BY <1>1, Zenon DEF Lines!LineNext, Lines!lineVars, Lines!Type, Lines!Edit, Lines!Continue,
            Lines!Deliver, Lines!Cancel, Lines!Quit, Lines!Crash, Lines!Run
    <3> QED BY <3>1 DEF Lines!GiveUp
  <2> QED BY <2>1, <2>2
<1>4. PICK q \in 0 .. Len(input) : Agree(q, BatchReads(input)[q])
  BY <1>3 DEF SameSoFar
<1>5. PICK s : s = BatchReads(input)[q]
  OBVIOUS
<1>6. Meet(q, s)
  <2>1. input \in Seq(Bytes)
    BY DEF InputAndRan
  <2>2. s \in Scanned
    BY <1>5, <2>1, BatchReadsIs
  <2> QED BY <1>3, <1>4, <1>5, <2>2 DEF Meet
<1>7. CASE Dispatch
  <2>1. Ahead' = Ahead
    BY <1>7 DEF Dispatch, reads, Ahead
  <2> QED BY <1>2, <1>6, <1>7, <2>1, RunAgrees
<1>8. CASE ran' = ran /\ (phase = "returned" => phase' = phase)
  <2>1. CASE Lines!Type
    BY <1>2, <1>6, <1>8, <2>1, TypeAgrees
  <2>2. CASE Lines!Continue
    BY <1>2, <1>6, <1>8, <2>2, ContinueAgrees
  <2>3. CASE Lines!Deliver
    BY <1>2, <1>6, <1>8, <2>3, DeliverAgrees
  <2>4. CASE Lines!Quit
    BY <1>2, <1>6, <1>8, <2>4, QuitAgrees
  <2>5. CASE UNCHANGED Lines!lineVars
    BY <1>2, <1>6, <1>8, <2>5, UnseenAgrees
  <2>6. CASE Lines!Edit
    <3>1. /\ phase = "reading" /\ Ahead # <<>> /\ Ahead[1] \notin Newlines
          /\ cursor = Len(buffer) => Ahead[1] \notin Plain
      BY <2>6 DEF Lines!Edit, Lines!StartsIn, Lines!Newlines, Newlines
    <3>2. cursor = Len(buffer)
      BY <1>6, <3>1 DEF Meet, Agree, InLine
    <3>3. Ahead[1] \in Plain \cup Newlines
      BY <1>6, <3>1, NextByte
    <3> QED BY <3>1, <3>2, <3>3
  <2>7. CASE Lines!Cancel
    <3>1. Ahead # <<>> /\ Ahead[1] = "^C"
      BY <2>7 DEF Lines!Cancel, Lines!Reading, Lines!StartsIn
    <3>2. "^C" \notin Plain \cup Newlines
      BY DEF Plain, Printable, Keys, Newlines
    <3>3. Ahead[1] \in Plain \cup Newlines
      BY <1>6, <3>1, NextByte
    <3> HIDE DEF Ahead
    <3> QED BY <3>1, <3>2, <3>3
  <2>8. CASE Lines!GiveUp
    BY <2>8 DEF Lines!GiveUp
  <2>9. CASE Lines!Crash
    BY <1>3, <2>9 DEF Lines!Crash
  <2>10. CASE Lines!Run
    BY <1>8, <2>10 DEF Lines!Run
  <2> QED
    BY <1>1, <2>1, <2>2, <2>3, <2>4, <2>5, <2>6, <2>7, <2>8, <2>9, <2>10 DEF Lines!LineNext
<1> QED BY <1>2, <1>7, <1>8

\* The two begin with nothing.
LEMMA InitAgrees == Init => SameSoFar
<1> SUFFICES ASSUME Init, Pasteable
             PROVE  \E q \in 0 .. Len(input) : Agree(q, BatchReads(input)[q])
  BY DEF SameSoFar
<1>1. input \in Seq(Bytes) /\ Len(input) \in Nat
  BY TextAssumption DEF Init
<1>2. /\ chunk = <<>> /\ pendingInput = <<>> /\ unread = input /\ skipNextInputLF = FALSE
      /\ phase = "reading" /\ buffer = <<>> /\ cursor = 0 /\ commandPrefix = <<>> /\ ran = <<>>
  BY DEF Init
<1>3. Ahead = input
  <2>1. <<>> \o <<>> = <<>> /\ <<>> \o input = input
    BY <1>1, ConcatEmptySeq
  <2>2. Stream = input
    BY <1>2, <2>1, Zenon DEF Stream
  <2> QED BY <1>2, <2>2, AheadIs DEF Skipped
<1>4. From(input, 0 + 1) = input
  BY <1>1, SubSeqFull DEF From
<1>5. BatchReads(input)[0] = Nothing
  BY <1>1, BatchReadsIs
<1>6. Spaced(<<>>) = <<>> /\ <<>> \in Seq(Plain) /\ Len(<<>>) = 0
  <2>1. <<>> \in Seq(Plain)
    OBVIOUS
  <2> QED BY <2>1, SpacedPlain
<1>7. SpacedAll(<<>>) = <<>>
  BY DEF SpacedAll
<1>8. InLine(Nothing)
  BY <1>2, <1>6, <1>7 DEF InLine, Nothing
<1> HIDE DEF Ahead
<1>9. Agree(0, Nothing)
  BY <1>2, <1>3, <1>4, <1>8 DEF Agree
<1>10. 0 \in 0 .. Len(input)
  BY <1>1
<1> QED BY <1>5, <1>9, <1>10

\* They agree throughout.
LEMMA SameSoFarInvariance == Spec => []SameSoFar
BY InitAgrees, StepAgrees, TypedInvariance, CompletedInvariance, InputAndRanInvariance, PTL
   DEF Spec

\* Of the first m bytes the scanner reads what it has read of the whole by then.
LEMMA ReadsOfPrefix ==
  ASSUME NEW s \in Seq(Bytes), NEW m \in 0 .. Len(s)
  PROVE  BatchReads(SubSeq(s, 1, m))[m] = BatchReads(s)[m]
<1> DEFINE t == SubSeq(s, 1, m)
           a == BatchReads(t)
           b == BatchReads(s)
           Same == {x \in 0 .. m : a[x] = b[x]}
           each == [k \in 0 .. m |-> k]
<1>1. m \in Nat /\ Len(s) \in Nat /\ m <= Len(s)
  OBVIOUS
<1>2. t \in Seq(Bytes) /\ Len(t) = m /\ \A i \in 1 .. m : t[i] = s[i]
  BY UptoTyped
<1> HIDE DEF t
<1>3. a[0] = Nothing /\ \A k \in 1 .. m : a[k] = ScanByte(a[k - 1], t[k])
  BY <1>2, BatchReadsIs
<1>4. b[0] = Nothing /\ \A k \in 1 .. m : b[k] = ScanByte(b[k - 1], s[k])
  BY <1>1, BatchReadsIs
<1> HIDE DEF a, b
<1>5. each[0] \in Same /\ \A k \in 1 .. m : each[k - 1] \in Same => each[k] \in Same
  <2>1. each[0] \in Same
    BY <1>1, <1>3, <1>4
  <2>2. ASSUME NEW k \in 1 .. m, each[k - 1] \in Same PROVE each[k] \in Same
    <3>1. k - 1 \in 0 .. m /\ k \in 0 .. m
      BY <1>1
    <3>2. a[k - 1] = b[k - 1]
      BY <2>2, <3>1
    <3>3. a[k] = b[k]
      BY <1>2, <1>3, <1>4, <3>2
    <3> QED BY <3>1, <3>3
  <2> QED BY <2>1, <2>2
<1>6. \A k \in 0 .. m : each[k] \in Same
  <2> HIDE DEF each, Same
  <2> QED BY <1>1, <1>5, LoopKeeps, Zenon
<1>7. a[m] = b[m]
  <2>1. m \in 0 .. m
    BY <1>1
  <2> QED BY <1>6, <2>1
<1> QED BY <1>7 DEF a, b, t

Stays(acc, frozen, commands) == acc.commands = commands /\ (frozen => acc.ended = TRUE)

\* After "exit", and where no line ends, no command is run.
LEMMA ByteRunsNothing ==
  ASSUME NEW acc \in Scanned, NEW c \in Bytes, NEW frozen \in BOOLEAN, NEW commands,
         Stays(acc, frozen, commands), ~frozen => c # "LF"
  PROVE  Stays(ScanByte(acc, c), frozen, commands)
<1>1. CASE c # "LF"
  BY <1>1 DEF ScanByte, Scanned, Stays
<1>2. CASE c = "LF"
  <2>1. acc.ended = TRUE /\ acc.commands = commands
    BY <1>2 DEF Stays
  <2>2. \A t, r : Ended(acc, t, r).commands = commands /\ Ended(acc, t, r).ended = TRUE
    BY <2>1 DEF Ended
  <2> QED BY <1>2, <2>2, EndLineIs DEF ScanByte, Stays
<1> QED BY <1>1, <1>2

\* So what has been run by then is all.
LEMMA NothingMoreRun ==
  ASSUME NEW s \in Seq(Bytes), NEW q \in 0 .. Len(s), NEW m \in q .. Len(s),
         BatchReads(s)[q].ended = TRUE \/ \A k \in q + 1 .. Len(s) : s[k] # "LF"
  PROVE  BatchReads(s)[m].commands = BatchReads(s)[q].commands
<1> DEFINE b == BatchReads(s)
           frozen == b[q].ended = TRUE
           commands == b[q].commands
           n == Len(s) - q
           f == [i \in 0 .. n |-> b[q + i]]
           T == {acc \in Scanned : Stays(acc, frozen, commands)}
<1>1. Len(s) \in Nat /\ n \in Nat /\ q \in Nat /\ m \in Nat /\ m - q \in 0 .. n
      /\ q + (m - q) = m /\ q + 0 = q
  OBVIOUS
<1>2. /\ \A k \in 0 .. Len(s) : b[k] \in Scanned
      /\ \A k \in 1 .. Len(s) : b[k] = ScanByte(b[k - 1], s[k])
  BY BatchReadsIs
<1> HIDE DEF b
<1>3. f[0] \in T
  BY <1>1, <1>2 DEF Stays
<1>4. ASSUME NEW i \in 1 .. n, f[i - 1] \in T PROVE f[i] \in T
  <2> DEFINE k == q + i
  <2>1. k \in 1 .. Len(s) /\ k \in q + 1 .. Len(s) /\ k - 1 = q + (i - 1)
        /\ i \in 0 .. n /\ i - 1 \in 0 .. n
    BY <1>1
  <2>2. f[i] = b[k] /\ f[i - 1] = b[k - 1]
    BY <2>1
  <2>3. s[k] \in Bytes /\ frozen \in BOOLEAN /\ (~frozen => s[k] # "LF")
    BY <2>1 DEF b
  <2>4. b[k - 1] \in Scanned /\ Stays(b[k - 1], frozen, commands) /\ b[k] = ScanByte(b[k - 1], s[k])
    BY <1>2, <1>4, <2>1, <2>2
  <2> HIDE DEF frozen, commands, f, k
  <2>5. Stays(b[k], frozen, commands)
    BY <2>3, <2>4, ByteRunsNothing
  <2>6. b[k] \in Scanned
    BY <1>1, <1>2, <2>1 DEF k
  <2> QED BY <2>2, <2>5, <2>6
<1>5. \A i \in 0 .. n : f[i] \in T
  <2> HIDE DEF n, f, T
  <2> QED BY <1>1, <1>3, <1>4, LoopKeeps, Zenon
<1>6. f[m - q] = b[m] /\ f[m - q] \in T
  BY <1>1, <1>5
<1>7. b[m].commands = commands
  BY <1>6 DEF Stays
<1> QED BY <1>7 DEF b

(* A paste of plain lines runs the commands that the same bytes run when   *)
(* they are piped into the shell, whatever the lines and however the reads *)
(* cut them: readRawInputFrom and runNonInteractive agree on where a line  *)
(* ends, on which go on in the next and on when "exit" ends the shell.     *)
THEOREM PastedLikeBatch == Spec => []PasteLikeBatch
<1>1. InputAndRan /\ SameSoFar => PasteLikeBatch
  <2> SUFFICES ASSUME InputAndRan, SameSoFar, phase = "exited", ~failed, Pasteable
               PROVE  LET Complete ==
                            SubSeq(input, 1, Greatest({k \in DOMAIN input : input[k] = "LF"}, 0))
                      IN  SpacedAll(ran) = BatchCommands(Complete)
    BY Zenon DEF PasteLikeBatch, SpacedAll
  <2> DEFINE ends == {k \in DOMAIN input : input[k] = "LF"}
             m == Greatest(ends, 0)
             t == SubSeq(input, 1, m)
             b == BatchReads(input)
  <2>1. input \in Seq(Bytes) /\ Len(input) \in Nat /\ DOMAIN input = 1 .. Len(input)
    BY DEF InputAndRan
  <2>2. /\ Len(input) \in Nat
        /\ \A k : k \in ends <=> k \in 1 .. Len(input) /\ input[k] = "LF"
        /\ \A k \in ends : k \in 0 .. Len(input)
    BY <2>1
  <2> HIDE DEF ends
  <2>3. /\ ends = {} => m = 0
        /\ ends # {} => m \in ends /\ \A k \in ends : k <= m
    BY <2>2, GreatestIn
  <2> HIDE DEF m
  <2>4. m \in 0 .. Len(input) /\ \A k \in m + 1 .. Len(input) : input[k] # "LF"
    BY <2>2, <2>3
  <2>5. b[m].text = <<>>
    <3>1. CASE m = 0
      BY <2>1, <3>1, BatchReadsIs DEF Nothing
    <3>2. CASE m # 0
      <4>1. m \in 1 .. Len(input) /\ input[m] = "LF"
        BY <2>2, <2>3, <3>2
      <4>2. b[m] = EndLine(b[m - 1])
        BY <2>1, <4>1, BatchReadsIs DEF ScanByte
      <4>3. \A acc : EndLine(acc).text = <<>>
        BY DEF EndLine
      <4> QED BY <4>2, <4>3
    <3> QED BY <3>1, <3>2
  <2>6. BatchCommands(t) = b[m].commands
    <3>1. Len(t) = m
      BY <2>1, <2>4, UptoTyped
    <3>2. BatchReads(t)[m] = b[m]
      BY <2>1, <2>4, ReadsOfPrefix
    <3> HIDE DEF t, b
    <3> QED BY <2>5, <3>1, <3>2 DEF BatchCommands
  <2>7. PICK q \in 0 .. Len(input) : Agree(q, b[q])
    BY DEF SameSoFar
  <2>8. /\ b[q].commands = SpacedAll(ran)
        /\ (AtLineEnd(q) /\ b[q].ended = TRUE) \/ q = Len(input)
    BY <2>7 DEF Agree
  <2> HIDE DEF b
  <2>9. b[m].commands = b[q].commands
    <3>1. CASE AtLineEnd(q) /\ b[q].ended = TRUE
      <4>1. q \in ends
        BY <2>2, <3>1 DEF AtLineEnd
      <4>2. m \in q .. Len(input)
        BY <2>3, <2>4, <4>1
      <4> QED BY <2>1, <3>1, <4>2, NothingMoreRun DEF b
    <3>2. CASE q = Len(input)
      <4>1. q \in m .. Len(input)
        BY <2>1, <2>4, <3>2
      <4> QED BY <2>1, <2>4, <4>1, NothingMoreRun DEF b
    <3> QED BY <2>8, <3>1, <3>2
  <2> QED BY <2>6, <2>8, <2>9 DEF t, m, ends
<1> QED BY <1>1, InputAndRanInvariance, SameSoFarInvariance, PTL

=============================================================================
