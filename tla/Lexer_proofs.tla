---------------------------- MODULE Lexer_proofs ----------------------------
(***************************************************************************)
(* Theorems about Lexer, for every set of lines: its type invariant, that  *)
(* a pass over the rules consumes something unless it meets a number that  *)
(* is not a digit, and that the tokens of a line are the words that one    *)
(* reads in it.  Theorem about Snapshot, which gives its lines to Lex: a   *)
(* snapshot that is worn gives back what was written.                      *)
(***************************************************************************)
EXTENDS Snapshot, ListLemmas, FiniteSetTheorems, TLAPS

\* The rules that have been applied in this pass.
Earlier ==
  CASE rule = "operator"   -> {"space"}
    [] rule = "brace"      -> {"space", "operator"}
    [] rule = "path"       -> {"space", "operator", "brace"}
    [] rule = "identifier" -> {"space", "operator", "brace", "path"}
    [] rule = "number"     -> {"space", "operator", "brace", "path", "identifier"}
    [] rule = "string"     -> {"space", "operator", "brace", "path", "identifier", "number"}
    [] rule = "variable"   -> {"space", "operator", "brace", "path", "identifier", "number",
                               "string"}
    [] rule = "comment"    -> {"space", "operator", "brace", "path", "identifier", "number",
                               "string", "variable"}
    [] OTHER               -> {}

\* Nothing has been consumed in this pass.
Untouched == Len(input) = start /\ input # <<>>

(***************************************************************************)
(* The inductive invariant: as long as nothing is consumed, no rule passed *)
(* applies, and a rule that has begun will take the next byte.             *)
(***************************************************************************)
Passed == Untouched /\ ~inside => \A r \in Earlier : ~Applies(r, input)
Begun == Untouched /\ inside => rule \in {"path", "identifier", "number"} /\ Takes(rule, input)

IInv == LexTypeOK /\ Passed /\ Begun

-----------------------------------------------------------------------------

\* What is left of a line after its first bytes.
LEMMA DropTyped ==
  ASSUME NEW s \in Seq(Bytes), NEW n \in 0..Len(s)
  PROVE  Drop(s, n) \in Seq(Bytes) /\ Len(Drop(s, n)) = Len(s) - n
BY DEF Drop

\* The rest of a line that is not empty.
LEMMA TailTyped ==
  ASSUME NEW s \in Seq(Bytes), s # <<>>
  PROVE  Tail(s) \in Seq(Bytes) /\ Len(Tail(s)) = Len(s) - 1 /\ Len(s) \in Nat \ {0}
OBVIOUS

\* A line has a first byte unless it is empty, and an escape is two.
LEMMA BytesTyped ==
  ASSUME NEW s \in Seq(Bytes), s # <<>>
  PROVE  /\ Len(s) \in Nat \ {0} /\ s[1] \in Bytes
         /\ Len(s) >= 2 => s[2] \in Bytes
         /\ Escapes(s) => Len(s) >= 2
<1>1. Len(s) \in Nat \ {0}
  OBVIOUS
<1>2. s[1] \in Bytes /\ (Len(s) >= 2 => s[2] \in Bytes)
  BY <1>1
<1>3. Escapes(s) => Len(s) > 1
  BY DEF Second, Escapes, EscapesShell
<1> QED
  BY <1>1, <1>2, <1>3

\* A byte that no rule takes is a number without being a digit.
LEMMA SomeRuleApplies ==
  ASSUME NEW s \in Seq(Bytes), s # <<>>,
         \A r \in Rules : ~Applies(r, s)
  PROVE  s[1] \in Fractions
<1>1. s[1] \in Bytes
  BY BytesTyped
<1>2. /\ s[1] \notin Spaces \cup Operators \cup Braces \cup Digits
      /\ s[1] \notin {"\"", "$", "#"}
  BY DEF Applies, Rules
<1>3. s[1] # "*"
  BY DEF Applies, Rules, PathStarts, EscapesShell
<1>4. s[1] \in {"#", "$", "{", "}", "*", "\""} \cup Spaces \cup Numbers
  BY DEF Applies, Rules
<1> QED
  BY <1>2, <1>3, <1>4 DEF Numbers, Braces

\* A word's first byte is taken if no rule before has applied.
LEMMA FirstByteTaken ==
  ASSUME NEW s \in Seq(Bytes), s # <<>>,
         NEW r \in {"path", "identifier", "number"}, Applies(r, s),
         r = "identifier" => ~Applies("operator", s) /\ ~Applies("brace", s)
  PROVE  Takes(r, s)
<1>1. CASE r = "path"
  BY <1>1 DEF Applies, Takes, PathStarts, PathBytes
<1>2. CASE r = "identifier"
  <2>1. s[1] \notin Operators \cup Braces \cup Spaces
    BY <1>2 DEF Applies
  <2> QED
    BY <1>2, <2>1 DEF Takes
<1>3. CASE r = "number"
  BY <1>3 DEF Applies, Takes
<1> QED
  BY <1>1, <1>2, <1>3

-----------------------------------------------------------------------------

\* A line that is given to Lex is untouched, and no rule has been passed.
LEMMA StartInvariant == \A s \in Seq(Bytes) : LexStart(s) => IInv
<1> SUFFICES ASSUME NEW s \in Seq(Bytes), LexStart(s) PROVE IInv
  OBVIOUS
<1>1. s \in Seq(Bytes)
  OBVIOUS
<1>2. LexTypeOK
  <2>1. <<>> \in Seq(Bytes) /\ <<>> \in Seq([type : Types, value : Seq(Bytes)])
    OBVIOUS
  <2>2. Len(s) \in Nat /\ (s # <<>> => rule = "space") /\ (s = <<>> => rule = "done")
    BY <1>1 DEF LexStart
  <2>3. /\ text = s /\ input = s /\ word = <<>> /\ tokens = <<>> /\ start = Len(s)
        /\ inside = FALSE /\ kind = "Number"
    BY DEF LexStart
  <2>4. rule \in Rules \cup {"done"} /\ (rule = "done" => input = <<>>)
    BY <2>2, <2>3 DEF Rules
  <2> QED
    <3>1. text \in Seq(Bytes) /\ input \in Seq(Bytes) /\ word \in Seq(Bytes)
          /\ tokens \in Seq([type : Types, value : Seq(Bytes)])
      BY <1>1, <2>1, <2>3
    <3>2. start \in Nat /\ Len(input) <= start
      BY <2>2, <2>3
    <3> QED
      BY <2>3, <2>4, <3>1, <3>2 DEF LexTypeOK
<1>3. Passed /\ Begun
  BY DEF LexStart, Passed, Begun, Earlier
<1> QED
  BY <1>2, <1>3 DEF IInv

\* The lines that Lex is given are of bytes.
LEMMA InitInvariant == LexInit => IInv
BY StartInvariant, TextsAssumption DEF LexInit

\* Going on to the next rule with what is left.
LEMMA LeaveTyped ==
  ASSUME LexTypeOK, rule # "done", NEW left \in Seq(Bytes), Len(left) <= start,
         input' = left, Leave(left)
  PROVE  /\ inside' = FALSE
         /\ rule' \in Rules \cup {"done"}
         /\ start' \in Nat /\ Len(input') <= start'
         /\ rule' = "done" => input' = <<>>
<1>1. CASE rule = "comment"
  BY <1>1 DEF Leave, Rules
<1>2. CASE rule # "comment"
  <2>1. rule \in Rules
    BY DEF LexTypeOK
  <2>2. After(rule) \in Rules
    BY <1>2, <2>1 DEF After, Rules
  <2> QED
    BY <1>2, <2>2 DEF Leave, LexTypeOK, Rules
<1> QED
  BY <1>1, <1>2

\* The first rule of a pass has no earlier one, and a touched input needs none.
LEMMA LeaveTouched ==
  ASSUME LexTypeOK, rule # "done", NEW left \in Seq(Bytes), Len(left) < start,
         input' = left, Leave(left)
  PROVE  Passed' /\ Begun'
<1>1. CASE rule = "comment"
  BY <1>1 DEF Leave, Passed, Begun, Earlier
<1>2. CASE rule # "comment"
  BY <1>2 DEF Leave, Passed, Begun, Untouched, LexTypeOK
<1> QED
  BY <1>1, <1>2

\* A rule that does not apply joins those passed.
LEMMA PassInvariant == ASSUME IInv, Pass PROVE IInv'
<1> USE DEF IInv
<1>1. LexTypeOK'
  <2>1. input \in Seq(Bytes) /\ Len(input) <= start
    BY DEF LexTypeOK
  <2> QED
    BY <2>1, LeaveTyped DEF Pass, LexTypeOK
<1>2. Begun'
  BY DEF Pass, Leave, Begun
<1>3. Passed'
  <2>1. CASE rule = "comment"
    BY <2>1 DEF Pass, Leave, Passed, Earlier
  <2>2. CASE rule # "comment"
    <3>1. /\ input' = input /\ start' = start /\ ~inside /\ rule' = After(rule)
          /\ ~Applies(rule, input) /\ rule \in Rules
      BY <2>2 DEF Pass, Leave, LexTypeOK
    <3>2. Earlier' = Earlier \cup {rule}
      BY <2>2, <3>1 DEF Earlier, After, Rules
    <3> QED
      BY <3>1, <3>2 DEF Passed, Untouched
  <2> QED
    BY <2>1, <2>2
<1> QED
  BY <1>1, <1>2, <1>3

\* A blank that is skipped touches the input.
LEMMA SpaceInvariant == ASSUME IInv, skipLexWhitespace PROVE IInv'
<1>1. input \in Seq(Bytes) /\ input # <<>> /\ Len(input) <= start /\ start \in Nat
  BY DEF IInv, skipLexWhitespace, Applies, LexTypeOK
<1>2. Tail(input) \in Seq(Bytes) /\ Len(Tail(input)) < start
  BY <1>1, TailTyped
<1>3. LexTypeOK'
  BY <1>2 DEF IInv, LexTypeOK, skipLexWhitespace
<1>4. Passed' /\ Begun'
  BY <1>2 DEF skipLexWhitespace, Passed, Begun, Untouched
<1> QED
  BY <1>3, <1>4 DEF IInv

\* So does an operator or a brace.
LEMMA SymbolInvariant == ASSUME IInv, lexSymbol PROVE IInv'
<1> DEFINE n == IF input[1] = ">" /\ Second(input, {">"}) THEN 2 ELSE 1
<1>1. input \in Seq(Bytes) /\ input # <<>> /\ Len(input) <= start /\ start \in Nat
  BY DEF IInv, lexSymbol, Applies, LexTypeOK
<1>2. n \in 1..Len(input)
  BY <1>1 DEF Second
<1>3. /\ Drop(input, n) \in Seq(Bytes) /\ Len(Drop(input, n)) < start
      /\ SubSeq(input, 1, n) \in Seq(Bytes)
  BY <1>1, <1>2, DropTyped
<1>4. input' = Drop(input, n) /\ Leave(Drop(input, n)) /\ rule # "done"
  BY DEF lexSymbol
<1>5. tokens' \in Seq([type : Types, value : Seq(Bytes)])
  BY <1>3 DEF IInv, LexTypeOK, lexSymbol, Add, Token, Types
<1>6. LexTypeOK'
  <2>1. /\ inside' = FALSE /\ rule' \in Rules \cup {"done"}
        /\ start' \in Nat /\ Len(input') <= start' /\ (rule' = "done" => input' = <<>>)
    <3>1. Len(Drop(input, n)) <= start
      BY <1>1, <1>3
    <3> QED
      BY <1>3, <1>4, <3>1, LeaveTyped DEF IInv
  <2>2. UNCHANGED <<text, word, kind>>
    BY DEF lexSymbol
  <2> QED
    BY <1>3, <1>4, <1>5, <2>1, <2>2 DEF IInv, LexTypeOK
<1>7. Passed' /\ Begun'
  BY <1>3, <1>4, LeaveTouched DEF IInv
<1> QED
  BY <1>6, <1>7 DEF IInv

\* A word begins where its rule takes the first byte.
LEMMA BeginInvariant == ASSUME IInv, BeginWord PROVE IInv'
<1>1. input \in Seq(Bytes) /\ input # <<>> /\ Len(input) <= start /\ start \in Nat
  BY DEF IInv, BeginWord, Applies, LexTypeOK
<1>2. Tail(input) \in Seq(Bytes) /\ Len(Tail(input)) < start
  BY <1>1, TailTyped
<1>3. LexTypeOK'
  <2>1. <<>> \in Seq(Bytes)
    OBVIOUS
  <2> QED
    BY <1>1, <1>2, <2>1 DEF IInv, LexTypeOK, BeginWord, Rules
<1>4. Passed'
  BY DEF BeginWord, Passed
<1>5. Begun'
  <2>1. CASE rule \in {"string", "variable"}
    BY <1>2, <2>1 DEF BeginWord, Begun, Untouched
  <2>2. CASE rule \in {"path", "identifier", "number"}
    <3>1. input' = input /\ rule' = rule /\ start' = start /\ Applies(rule, input) /\ ~inside
      BY <2>2 DEF BeginWord
    <3>2. ASSUME Untouched PROVE Takes(rule, input)
      <4>1. rule = "identifier" => ~Applies("operator", input) /\ ~Applies("brace", input)
        BY <3>1, <3>2 DEF IInv, Passed, Earlier
      <4> QED
        BY <1>1, <2>2, <3>1, <4>1, FirstByteTaken
    <3> QED
      BY <2>2, <3>1, <3>2 DEF Begun, Untouched
  <2> QED
    BY <2>1, <2>2 DEF BeginWord
<1> QED
  BY <1>3, <1>4, <1>5 DEF IInv

\* A byte taken touches the input.
LEMMA TakeInvariant == ASSUME IInv, TakeByte PROVE IInv'
<1> DEFINE n == IF rule \in {"path", "identifier"} /\ Escapes(input) THEN 2 ELSE 1
<1>1. input \in Seq(Bytes) /\ input # <<>> /\ Len(input) <= start /\ start \in Nat
  BY DEF IInv, TakeByte, Takes, LexTypeOK
<1>2. n \in 1..Len(input) /\ n \in Nat /\ input[n] \in Bytes
  BY <1>1, BytesTyped
<1>3. Drop(input, n) \in Seq(Bytes) /\ Len(Drop(input, n)) < start
  BY <1>1, <1>2, DropTyped
<1>4. input' = Drop(input, n) /\ word' = Append(word, input[n]) /\ start' = start
  BY DEF TakeByte
<1>5. word' \in Seq(Bytes)
  BY <1>2, <1>4 DEF IInv, LexTypeOK
<1>6. LexTypeOK'
  BY <1>3, <1>4, <1>5 DEF IInv, LexTypeOK, TakeByte
<1>7. Passed' /\ Begun'
  BY <1>3, <1>4 DEF Passed, Begun, Untouched
<1> QED
  BY <1>6, <1>7 DEF IInv

\* A word that ends has taken something, or is a string or variable without bytes.
LEMMA EndInvariant == ASSUME IInv, EndWord PROVE IInv'
<1> DEFINE left == IF rule = "string" /\ input # <<>> THEN Tail(input) ELSE input
<1>1. input \in Seq(Bytes) /\ Len(input) <= start /\ start \in Nat /\ rule # "done"
  BY DEF IInv, EndWord, LexTypeOK
<1>2. left \in Seq(Bytes) /\ Len(left) <= Len(input) /\ (left # <<>> => input # <<>>)
  BY <1>1, TailTyped
<1>3. input' = left /\ Leave(left) /\ start' = start
  BY DEF EndWord, Leave
<1>4. tokens' \in Seq([type : Types, value : Seq(Bytes)])
  <2>1. rule \in {"path", "identifier", "number", "string", "variable"}
    BY DEF IInv, LexTypeOK, EndWord
  <2>2. TypeOf(rule) \in Types
    BY <2>1 DEF TypeOf, Types, IInv, LexTypeOK
  <2> QED
    BY <2>2 DEF IInv, LexTypeOK, EndWord, Add, Token
<1>5. LexTypeOK'
  <2>1. /\ inside' = FALSE /\ rule' \in Rules \cup {"done"}
        /\ start' \in Nat /\ Len(input') <= start' /\ (rule' = "done" => input' = <<>>)
    <3>1. Len(left) <= start
      BY <1>1, <1>2
    <3> QED
      BY <1>1, <1>2, <1>3, <3>1, LeaveTyped DEF IInv
  <2>2. UNCHANGED <<text, word, kind>>
    BY DEF EndWord
  <2> QED
    BY <1>2, <1>3, <1>4, <2>1, <2>2 DEF IInv, LexTypeOK
<1>6. ~Untouched'
  BY <1>1, <1>2, <1>3 DEF IInv, EndWord, Begun, Untouched
<1> QED
  BY <1>5, <1>6 DEF IInv, Passed, Begun

\* A "#" is consumed, with its comment or alone.
LEMMA CommentInvariant == ASSUME IInv, lexComment PROVE IInv'
<1>1. input \in Seq(Bytes) /\ input # <<>> /\ Len(input) <= start /\ start \in Nat
      /\ rule = "comment"
  BY DEF IInv, lexComment, Applies, LexTypeOK
<1>2. Tail(input) \in Seq(Bytes) /\ Len(Tail(input)) < start
  BY <1>1, TailTyped
<1>3. CASE Second(input, {"#"})
  <2>1. 2 \in 0..Len(input)
    BY <1>1, <1>3 DEF Second
  <2>2. Drop(input, 2) \in Seq(Bytes) /\ Len(Drop(input, 2)) < start
    BY <1>1, <2>1, DropTyped
  <2>3. /\ inside' = TRUE /\ input' = Drop(input, 2)
        /\ UNCHANGED <<rule, tokens, start, text, word, kind>>
    BY <1>3 DEF lexComment
  <2>4. LexTypeOK'
    BY <1>1, <2>2, <2>3 DEF IInv, LexTypeOK
  <2> QED
    BY <2>2, <2>3, <2>4 DEF IInv, Passed, Begun, Untouched
<1>4. CASE ~Second(input, {"#"})
  <2>1. input' = Tail(input) /\ Leave(Tail(input)) /\ Add("Symbol", <<"#">>)
    BY <1>4 DEF lexComment
  <2>2. tokens' \in Seq([type : Types, value : Seq(Bytes)])
    <3>1. <<"#">> \in Seq(Bytes)
      BY DEF Bytes
    <3> QED
      BY <2>1, <3>1 DEF IInv, LexTypeOK, Add, Token, Types
  <2>3. LexTypeOK'
    <3>1. /\ inside' = FALSE /\ rule' \in Rules \cup {"done"}
          /\ start' \in Nat /\ Len(input') <= start' /\ (rule' = "done" => input' = <<>>)
      <4>1. Len(Tail(input)) <= start
        BY <1>1, <1>2
      <4> QED
        BY <1>1, <1>2, <2>1, <4>1, LeaveTyped DEF IInv
    <3>2. UNCHANGED <<text, word, kind>>
      BY DEF lexComment
    <3> QED
      BY <1>2, <2>1, <2>2, <3>1, <3>2 DEF IInv, LexTypeOK
  <2>4. Passed' /\ Begun'
    BY <1>1, <1>2, <2>1, LeaveTouched DEF IInv
  <2> QED
    BY <2>3, <2>4 DEF IInv
<1> QED
  BY <1>3, <1>4

\* A comment has consumed what announced it.
LEMMA InCommentInvariant == ASSUME IInv, InComment PROVE IInv'
<1>1. input \in Seq(Bytes) /\ Len(input) <= start /\ start \in Nat /\ inside
      /\ rule = "comment" /\ (input # <<>> => Len(input) < start)
  BY DEF IInv, InComment, LexTypeOK, Begun, Untouched
<1>2. CASE Len(input) >= 2 /\ ~(input[1] = "#" /\ input[2] = "#")
  <2>1. Tail(input) \in Seq(Bytes) /\ Len(Tail(input)) < start
    BY <1>1, <1>2, TailTyped
  <2>2. input' = Tail(input) /\ UNCHANGED <<rule, inside, start, text, word, kind, tokens>>
    BY <1>2 DEF InComment
  <2>3. LexTypeOK'
    BY <1>1, <2>1, <2>2 DEF IInv, LexTypeOK
  <2> QED
    BY <1>1, <2>1, <2>2, <2>3 DEF IInv, Passed, Begun, Untouched
<1>3. CASE ~(Len(input) >= 2 /\ ~(input[1] = "#" /\ input[2] = "#"))
  <2> DEFINE left == IF Len(input) >= 2 THEN Drop(input, 2) ELSE <<>>
  <2>1. left \in Seq(Bytes) /\ Len(left) <= start
    <3>1. CASE Len(input) >= 2
      BY <1>1, <3>1, DropTyped
    <3>2. CASE ~(Len(input) >= 2)
      BY <1>1, <3>2
    <3> QED
      BY <3>1, <3>2
  <2>2. input' = left /\ Leave(left) /\ UNCHANGED <<text, word, kind, tokens>>
    BY <1>3 DEF InComment
  <2>3. LexTypeOK'
    BY <1>1, <2>1, <2>2, LeaveTyped DEF IInv, LexTypeOK
  <2>4. Passed' /\ Begun'
    BY <1>1, <2>2 DEF Leave, Passed, Begun, Earlier
  <2> QED
    BY <2>3, <2>4 DEF IInv
<1> QED
  BY <1>2, <1>3

\* Every step keeps the invariant.
LEMMA StepInvariant == ASSUME IInv, [LexNext]_lexVars PROVE IInv'
<1>1. CASE UNCHANGED lexVars
  BY <1>1 DEF IInv, LexTypeOK, Passed, Begun, Untouched, Earlier, lexVars
<1>2. CASE LexStep
  BY <1>2, PassInvariant, SpaceInvariant, SymbolInvariant, BeginInvariant, TakeInvariant,
     EndInvariant, CommentInvariant, InCommentInvariant DEF LexStep
<1> QED
  BY <1>1, <1>2 DEF LexNext, LexDone

\* So it holds throughout.
LEMMA Invariance == LexSpec => []IInv
BY InitInvariant, StepInvariant, PTL DEF LexSpec

(***************************************************************************)
(* Every variable of Lex has its type, and Lex ends only with nothing left,*)
(* for any set of lines.                                                   *)
(***************************************************************************)
THEOREM LexTypeCorrect == LexSpec => []LexTypeOK
BY Invariance, PTL DEF IInv

(***************************************************************************)
(* A pass over the nine rules that consumes nothing has met a number that  *)
(* is not a digit.  So Lex does not loop on any other line.                *)
(***************************************************************************)
THEOREM LexNeverIdle == LexSpec => LexProgress
<1>1. ASSUME IInv, [LexNext]_lexVars, rule = "comment", rule' = "space", Len(input') = start
      PROVE  input'[1] \in Fractions
  <2>1. input \in Seq(Bytes) /\ Len(input) <= start /\ start \in Nat
    BY <1>1 DEF IInv, LexTypeOK
  <2>2. Pass \/ lexComment \/ InComment
    BY <1>1 DEF LexNext, LexStep, LexDone, lexVars, skipLexWhitespace, lexSymbol, BeginWord,
                TakeByte, EndWord
  <2>3. CASE Pass
    <3>1. input' = input /\ input # <<>> /\ ~inside /\ ~Applies("comment", input)
      BY <1>1, <2>3 DEF Pass, Leave
    <3>2. \A r \in Rules : ~Applies(r, input)
      BY <1>1, <3>1 DEF IInv, Passed, Untouched, Earlier, Rules
    <3> QED
      BY <2>1, <3>1, <3>2, SomeRuleApplies
  <2>4. CASE lexComment
    <3>1. input # <<>> /\ ~Second(input, {"#"}) /\ input' = Tail(input)
      BY <1>1, <2>4 DEF lexComment, Applies
    <3> QED
      BY <1>1, <2>1, <3>1, TailTyped
  <2>5. CASE InComment
    <3>1. inside /\ (input # <<>> => Len(input) < start)
      BY <1>1, <2>1, <2>5 DEF InComment, IInv, Begun, Untouched
    <3>2. Len(input) >= 2 /\ input' = Drop(input, 2)
      BY <1>1, <2>1, <2>5 DEF InComment, Leave
    <3> QED
      BY <1>1, <2>1, <3>1, <3>2, DropTyped
  <2> QED
    BY <2>2, <2>3, <2>4, <2>5
<1>2. IInv /\ [LexNext]_lexVars =>
        [rule = "comment" /\ rule' = "space" /\ Len(input') = start
           => input'[1] \in Fractions]_lexVars
  BY <1>1
<1> QED
  BY <1>2, Invariance, PTL DEF LexSpec, LexProgress

-----------------------------------------------------------------------------

\* What the reader of a line is like after any number of bytes: between words
\* it holds no byte of one, in a word at least one.
Modes == {"gap", "closed", "word", "string", "escape", "angle", "operator"}
Between == {"gap", "closed", "angle", "operator"}
TokenSet == [type : Types, value : Seq(Bytes)]
Reader ==
  {acc \in [mode : Modes, word : Seq(Bytes), out : Seq(TokenSet), odd : BOOLEAN] :
     /\ acc.mode \in Between => acc.word = <<>>
     /\ acc.mode = "word" => acc.word # <<>>}

\* A reader is the record of its fields, and they have their types.
LEMMA ReaderIs ==
  ASSUME NEW acc \in Reader
  PROVE  /\ acc = [mode |-> acc.mode, word |-> acc.word, out |-> acc.out, odd |-> acc.odd]
         /\ acc.mode \in Modes /\ acc.word \in Seq(Bytes) /\ acc.out \in Seq(TokenSet)
         /\ acc.odd \in BOOLEAN
         /\ acc.mode \in Between => acc.word = <<>>
         /\ acc.mode = "word" => acc.word # <<>>
BY DEF Reader

\* A reader that goes on.
LEMMA NowTyped ==
  ASSUME NEW acc \in Reader, NEW m \in Modes, NEW w \in Seq(Bytes), NEW o \in Seq(TokenSet),
         m \in Between => w = <<>>, m = "word" => w # <<>>
  PROVE  /\ Now(acc, m, w, o) \in Reader
         /\ Now(acc, m, w, o).mode = m /\ Now(acc, m, w, o).word = w
         /\ Now(acc, m, w, o).out = o /\ Now(acc, m, w, o).odd = acc.odd
BY ReaderIs DEF Now, Reader

\* So it is typed whatever it goes on to: in a word it must hold a byte of it,
\* between words none.
Goes(acc, r, m, w, o) == r \in Reader /\ r.mode = m /\ r.word = w /\ r.out = o /\ r.odd = acc.odd

\* In every mode that a reader goes on to.
LEMMA NowGoes ==
  ASSUME NEW acc \in Reader
  PROVE  \A w \in Seq(Bytes), o \in Seq(TokenSet) :
           /\ \A m \in {"string", "escape"} : Goes(acc, Now(acc, m, w, o), m, w, o)
           /\ w # <<>> => Goes(acc, Now(acc, "word", w, o), "word", w, o)
           /\ w = <<>> => \A m \in Between : Goes(acc, Now(acc, m, w, o), m, w, o)
<1> TAKE w \in Seq(Bytes), o \in Seq(TokenSet)
<1>1. /\ {"string", "escape", "word"} \cup Between \subseteq Modes
      /\ {"string", "escape", "word"} \cap Between = {}
  BY DEF Modes, Between
<1>2. ASSUME NEW m \in Modes, m \in Between => w = <<>>, m = "word" => w # <<>>
      PROVE  Goes(acc, Now(acc, m, w, o), m, w, o)
  <2> DEFINE r == Now(acc, m, w, o)
  <2>1. r \in Reader /\ r.mode = m /\ r.word = w /\ r.out = o /\ r.odd = acc.odd
    BY <1>2, NowTyped
  <2> HIDE DEF r
  <2>2. Goes(acc, r, m, w, o)
    BY <2>1, Zenon DEF Goes
  <2> QED BY <2>2 DEF r
<1>3. \A m \in {"string", "escape"} : m \in Modes /\ m \notin Between /\ m # "word"
  BY <1>1
<1>4. "word" \in Modes /\ "word" \notin Between
  BY <1>1
<1>5. \A m \in Between : m \in Modes /\ m # "word"
  BY <1>1
<1> QED BY <1>2, <1>3, <1>4, <1>5

\* Sequences grow by one, and lose their last.
LEMMA Grown ==
  ASSUME NEW S, NEW s \in Seq(S), NEW e \in S
  PROVE  Append(s, e) \in Seq(S) /\ Append(s, e) # <<>> /\ Front(Append(s, e)) = s
<1>1. Append(s, e) \in Seq(S) /\ Len(Append(s, e)) = Len(s) + 1 /\ Len(s) \in Nat
      /\ \A k \in 1..Len(s) : Append(s, e)[k] = s[k]
  OBVIOUS
<1>2. Append(s, e) # <<>>
  BY <1>1
<1>3. Front(Append(s, e)) = s
  BY <1>1 DEF Front
<1> QED BY <1>1, <1>2, <1>3

\* What a sequence has before its last is a sequence of the same.
LEMMA FrontInSeq ==
  ASSUME NEW S, NEW s \in Seq(S)
  PROVE  Front(s) \in Seq(S)
<1>1. CASE s = <<>>
  <2>1. Front(s) = <<>>
    BY <1>1 DEF Front
  <2> QED BY <2>1
<1>2. CASE s # <<>>
  <2>1. Len(s) \in Nat \ {0}
    BY <1>2
  <2> QED BY <2>1 DEF Front
<1> QED BY <1>1, <1>2

\* The tokens of a line are tokens.
LEMMA TokenTyped ==
  ASSUME NEW type \in Types, NEW w \in Seq(Bytes)
  PROVE  Token(type, w) \in TokenSet
BY DEF Token, TokenSet

\* A reader whose word has ended.
LEMMA EndedTyped ==
  ASSUME NEW acc \in Reader, NEW type \in Types
  PROVE  Goes(acc, Ended(acc, type), AfterToken(type), <<>>,
              Append(acc.out, Token(type, acc.word)))
<1>1. Append(acc.out, Token(type, acc.word)) \in Seq(TokenSet)
  BY ReaderIs, TokenTyped, Grown
<1>2. <<>> \in Seq(Bytes) /\ AfterToken(type) \in Between
  BY DEF Between, AfterToken
<1> QED BY <1>1, <1>2, NowGoes, Zenon DEF Ended

\* A reader that meets a blank.
LEMMA GapTyped ==
  ASSUME NEW acc \in Reader, acc.mode \in Between \cup {"word"}
  PROVE  /\ acc.mode = "word" =>
              Goes(acc, Gap(acc), "gap", <<>>, Append(acc.out, Token("Identifier", acc.word)))
         /\ acc.mode # "word" => Goes(acc, Gap(acc), "gap", <<>>, acc.out)
<1>1. CASE acc.mode = "word"
  <2>1. "Identifier" \in Types /\ AfterToken("Identifier") = "gap"
    BY DEF Types, AfterToken
  <2>2. Goes(acc, Ended(acc, "Identifier"), "gap", <<>>,
             Append(acc.out, Token("Identifier", acc.word)))
    BY <2>1, EndedTyped
  <2> QED BY <1>1, <2>2, Zenon DEF Gap
<1>2. CASE acc.mode # "word"
  <2>1. acc.word \in Seq(Bytes) /\ acc.out \in Seq(TokenSet) /\ acc.word = <<>>
    BY <1>2, ReaderIs
  <2>2. "gap" \in Between
    BY DEF Between
  <2> QED BY <1>2, <2>1, <2>2, NowGoes, Zenon DEF Gap
<1> QED BY <1>1, <1>2

\* A reader whose word grows.
LEMMA InWordTyped ==
  ASSUME NEW acc \in Reader, NEW c \in Bytes
  PROVE  Goes(acc, InWord(acc, c), "word", Append(acc.word, c), acc.out)
<1>1. Append(acc.word, c) \in Seq(Bytes) /\ Append(acc.word, c) # <<>>
  BY ReaderIs, Grown
<1>2. acc.out \in Seq(TokenSet)
  BY ReaderIs
<1> QED BY <1>1, <1>2, NowGoes, Zenon DEF InWord

\* A reader that finds the line odd.
LEMMA OddTyped ==
  ASSUME NEW acc \in Reader
  PROVE  Odd(acc) \in Reader /\ Odd(acc).odd = TRUE /\ Odd(acc).mode = acc.mode
BY ReaderIs DEF Odd, Reader

\* An operator, alone or the second ">" of two.
LEMMA ReadOperatorIs ==
  ASSUME NEW acc \in Reader, acc.mode \in Between \cup {"word"}, NEW c \in Operators
  PROVE  /\ acc.mode \in {"gap", "closed", "word"} =>
              \E m \in {"angle", "operator"} :
                /\ m = "angle" <=> c = ">"
                /\ Goes(acc, ReadOperator(acc, c), m, <<>>,
                        Append(Gap(acc).out, Token("Operator", <<c>>)))
         /\ acc.mode = "angle" /\ c = ">" =>
              Goes(acc, ReadOperator(acc, c), "operator", <<>>,
                   Append(Front(acc.out), Token("Operator", <<c, c>>)))
         /\ acc.mode = "operator" \/ (acc.mode = "angle" /\ c # ">") =>
              ReadOperator(acc, c) = Odd(acc)
<1>1. /\ c \in Bytes /\ <<>> \in Seq(Bytes) /\ "Operator" \in Types
      /\ {"angle", "operator"} \subseteq Between /\ acc.out \in Seq(TokenSet)
  <2>1. acc.out \in Seq(TokenSet) /\ <<>> \in Seq(Bytes)
    BY ReaderIs
  <2>2. c \in Bytes /\ "Operator" \in Types /\ {"angle", "operator"} \subseteq Between
    BY DEF Bytes, Types, Between
  <2> QED BY <2>1, <2>2
<1>2. <<c>> \in Seq(Bytes) /\ <<c, c>> \in Seq(Bytes)
  BY <1>1
<1>3. ASSUME acc.mode \in {"gap", "closed", "word"}
      PROVE  \E m \in {"angle", "operator"} :
                /\ m = "angle" <=> c = ">"
                /\ Goes(acc, ReadOperator(acc, c), m, <<>>,
                        Append(Gap(acc).out, Token("Operator", <<c>>)))
  <2> DEFINE m == IF c = ">" THEN "angle" ELSE "operator"
             o == Append(Gap(acc).out, Token("Operator", <<c>>))
  <2>1. Gap(acc) \in Reader
    BY <1>3, GapTyped, Zenon DEF Goes
  <2>2. o \in Seq(TokenSet)
    <3>1. Gap(acc).out \in Seq(TokenSet)
      BY <2>1, ReaderIs
    <3>2. Token("Operator", <<c>>) \in TokenSet
      BY <1>1, <1>2, TokenTyped
    <3> QED BY <3>1, <3>2, Grown
  <2>3. m \in {"angle", "operator"} /\ m \in Between /\ (m = "angle" <=> c = ">")
    BY <1>1
  <2>4. ReadOperator(acc, c) = Now(acc, m, <<>>, o)
    BY <1>3 DEF ReadOperator
  <2> HIDE DEF m, o
  <2>5. Goes(acc, ReadOperator(acc, c), m, <<>>, o)
    BY <1>1, <2>2, <2>3, <2>4, NowGoes, Zenon
  <2> QED BY <2>3, <2>5 DEF o
<1>4. ASSUME acc.mode = "angle", c = ">"
      PROVE  Goes(acc, ReadOperator(acc, c), "operator", <<>>,
                   Append(Front(acc.out), Token("Operator", <<c, c>>)))
  <2> DEFINE o == Append(Front(acc.out), Token("Operator", <<c, c>>))
  <2>1. o \in Seq(TokenSet)
    <3>1. Front(acc.out) \in Seq(TokenSet)
      BY <1>1, FrontInSeq
    <3>2. Token("Operator", <<c, c>>) \in TokenSet
      BY <1>1, <1>2, TokenTyped
    <3> QED BY <3>1, <3>2, Grown
  <2>2. ReadOperator(acc, c) = Now(acc, "operator", <<>>, o)
    BY <1>4 DEF ReadOperator
  <2>3. "operator" \in Between
    BY DEF Between
  <2> HIDE DEF o
  <2>4. Goes(acc, ReadOperator(acc, c), "operator", <<>>, o)
    BY <1>1, <2>1, <2>2, <2>3, NowGoes, Zenon
  <2> QED BY <2>4 DEF o
<1>5. acc.mode = "operator" \/ (acc.mode = "angle" /\ c # ">") => ReadOperator(acc, c) = Odd(acc)
  BY DEF ReadOperator
<1> QED BY <1>3, <1>4, <1>5

\* The bytes that the reader tells apart.
LEMMA Classes ==
  /\ Spaces \cap Operators = {} /\ "\\" \notin Spaces \cup Operators
  /\ "\"" \notin Spaces \cup Operators \cup Braces \cup {"\\"} \cup Letters \cup Commands
BY DEF Spaces, Operators, Braces, Letters, Commands

\* A byte that begins a word or continues one.
InsideWord(acc, c) ==
  /\ c \notin Spaces \cup Operators \cup Braces \cup {"\\", "\"", "#", "$"}
  /\ acc.mode = "word" \/ (acc.mode # "closed" /\ c \in Letters \cup Commands)

\* What a byte outside a string is, unless the line is odd.
LEMMA OutsideReads ==
  ASSUME NEW acc \in Reader, acc.mode \in Between \cup {"word"}, NEW c \in Bytes
  PROVE  \/ c \in Spaces /\ ReadByte(acc, c) = Gap(acc)
         \/ c \in Operators /\ ReadByte(acc, c) = ReadOperator(acc, c)
         \/ /\ c = "\\" /\ acc.mode # "closed"
            /\ Goes(acc, ReadByte(acc, c), "escape", acc.word, acc.out)
         \/ /\ c = "\"" /\ acc.mode \notin {"word", "closed"}
            /\ Goes(acc, ReadByte(acc, c), "string", acc.word, acc.out)
         \/ /\ InsideWord(acc, c)
            /\ ReadByte(acc, c) = InWord(acc, c)
         \/ ReadByte(acc, c) = Odd(acc)
<1>1. ReadByte(acc, c) = ReadOutside(acc, c)
  BY DEF ReadByte, Between
<1>2. acc.word \in Seq(Bytes) /\ acc.out \in Seq(TokenSet)
  BY ReaderIs
<1>3. CASE c \in Spaces
  BY <1>1, <1>3, Classes DEF ReadOutside
<1>4. CASE c \in Operators
  BY <1>1, <1>4, Classes DEF ReadOutside
<1>5. CASE c = "\\" /\ acc.mode # "closed"
  <2>1. ReadOutside(acc, c) = Now(acc, "escape", acc.word, acc.out)
    BY <1>5, Classes DEF ReadOutside
  <2> QED BY <1>1, <1>2, <1>5, <2>1, NowGoes, Zenon
<1>6. CASE c = "\"" /\ acc.mode \notin {"word", "closed"}
  <2>1. ReadOutside(acc, c) = Now(acc, "string", acc.word, acc.out)
    BY <1>6, Classes DEF ReadOutside
  <2> QED BY <1>1, <1>2, <1>6, <2>1, NowGoes, Zenon
<1>7. CASE InsideWord(acc, c)
  <2>1. ReadOutside(acc, c) = InWord(acc, c)
    BY <1>7, Classes DEF ReadOutside, InsideWord
  <2> QED BY <1>1, <1>7, <2>1
<1>8. CASE /\ c \notin Spaces /\ c \notin Operators /\ ~(c = "\\" /\ acc.mode # "closed")
           /\ ~(c = "\"" /\ acc.mode \notin {"word", "closed"})
           /\ ~InsideWord(acc, c)
  BY <1>1, <1>8 DEF ReadOutside, InsideWord
<1> QED BY <1>3, <1>4, <1>5, <1>6, <1>7, <1>8

\* After a backslash.
LEMMA EscapeReads ==
  ASSUME NEW acc \in Reader, acc.mode = "escape", NEW c \in Bytes
  PROVE  \/ /\ c \in Escapable \/ (c = " " /\ acc.word # <<>>)
            /\ ReadByte(acc, c) = InWord(acc, c)
         \/ ReadByte(acc, c) = Odd(acc)
BY DEF ReadByte

\* In a string.
LEMMA StringReads ==
  ASSUME NEW acc \in Reader, acc.mode = "string", NEW c \in Bytes
  PROVE  /\ c = "\"" => ReadByte(acc, c) = Ended(acc, "String")
         /\ c # "\"" => Goes(acc, ReadByte(acc, c), "string", Append(acc.word, c), acc.out)
<1>1. c = "\"" => ReadByte(acc, c) = Ended(acc, "String")
  BY DEF ReadByte
<1>2. c # "\"" => ReadByte(acc, c) = Now(acc, "string", Append(acc.word, c), acc.out)
  BY DEF ReadByte
<1>3. Append(acc.word, c) \in Seq(Bytes) /\ acc.out \in Seq(TokenSet)
  BY ReaderIs, Grown
<1> QED BY <1>1, <1>2, <1>3, NowGoes, Zenon

\* A reader stays one, and a line that was odd stays odd.
LEMMA ReadByteTyped ==
  ASSUME NEW acc \in Reader, NEW c \in Bytes
  PROVE  ReadByte(acc, c) \in Reader /\ (acc.odd = TRUE => ReadByte(acc, c).odd = TRUE)
<1> DEFINE r == ReadByte(acc, c)
<1>1. acc.mode \in Modes
  BY ReaderIs
<1>2. Odd(acc) \in Reader /\ Odd(acc).odd = TRUE
  BY OddTyped
<1>3. InWord(acc, c) \in Reader /\ InWord(acc, c).odd = acc.odd
  BY InWordTyped, Zenon DEF Goes
<1>4. CASE acc.mode = "string"
  <2>1. Ended(acc, "String") \in Reader /\ Ended(acc, "String").odd = acc.odd
    <3>1. "String" \in Types
      BY DEF Types
    <3> QED BY <3>1, EndedTyped, Zenon DEF Goes
  <2>2. c # "\"" => r \in Reader /\ r.odd = acc.odd
    BY <1>4, StringReads DEF Goes
  <2>3. c = "\"" => r = Ended(acc, "String")
    BY <1>4, StringReads
  <2> QED BY <2>1, <2>2, <2>3
<1>5. CASE acc.mode = "escape"
  BY <1>2, <1>3, <1>5, EscapeReads
<1>6. CASE acc.mode \in Between \cup {"word"}
  <2>1. Gap(acc) \in Reader /\ Gap(acc).odd = acc.odd
    BY <1>6, GapTyped DEF Goes
  <2>2. ASSUME c \in Operators, r = ReadOperator(acc, c)
        PROVE  r \in Reader /\ (acc.odd = TRUE => r.odd = TRUE)
    <3>1. CASE acc.mode \in {"gap", "closed", "word"}
      <4>1. PICK m \in {"angle", "operator"} :
              Goes(acc, ReadOperator(acc, c), m, <<>>,
                   Append(Gap(acc).out, Token("Operator", <<c>>)))
        BY <1>6, <2>2, <3>1, ReadOperatorIs, Zenon
      <4> QED BY <2>2, <4>1, Zenon DEF Goes
    <3>2. CASE acc.mode = "angle" /\ c = ">"
      BY <1>6, <2>2, <3>2, ReadOperatorIs, Zenon DEF Goes
    <3>3. CASE acc.mode = "operator" \/ (acc.mode = "angle" /\ c # ">")
      BY <1>2, <1>6, <2>2, <3>3, ReadOperatorIs, Zenon
    <3> QED BY <1>6, <3>1, <3>2, <3>3 DEF Between
  <2>3. \A m, w, o : Goes(acc, r, m, w, o) => r \in Reader /\ r.odd = acc.odd
    BY Zenon DEF Goes
  <2> HIDE DEF r
  <2>4. \/ r = Gap(acc) \/ (c \in Operators /\ r = ReadOperator(acc, c))
        \/ Goes(acc, r, "escape", acc.word, acc.out)
        \/ Goes(acc, r, "string", acc.word, acc.out)
        \/ r = InWord(acc, c) \/ r = Odd(acc)
    BY <1>6, OutsideReads, Zenon DEF r
  <2>5. r \in Reader /\ (acc.odd = TRUE => r.odd = TRUE)
    BY <1>2, <1>3, <2>1, <2>2, <2>3, <2>4
  <2> QED BY <2>5 DEF r
<1> QED BY <1>1, <1>4, <1>5, <1>6 DEF Modes, Between

\* Reading byte by byte is a loop (LoopExists), from reader to reader.
LEMMA ReaderLoop ==
  \A m \in Nat : \A b \in Reader, st \in [1..m -> [Reader -> Reader]] :
    \E f \in [0..m -> Reader] :
      f[0] = b /\ \A k \in 1..m : f[k] = st[k][f[k - 1]]
BY LoopExists

\* The reader reads byte by byte.
LEMMA ReadsIs ==
  ASSUME NEW s \in Seq(Bytes)
  PROVE  /\ Reads(s)[0] = Unread
         /\ \A k \in 0..Len(s) : Reads(s)[k] \in Reader
         /\ \A k \in 1..Len(s) : Reads(s)[k] = ReadByte(Reads(s)[k - 1], s[k])
<1> DEFINE n == Len(s)
           Solves(f) == f = [k \in 0..n |-> IF k = 0 THEN Unread ELSE ReadByte(f[k - 1], s[k])]
           step == [k \in 1..n |-> [acc \in Reader |-> ReadByte(acc, s[k])]]
<1>1. n \in Nat /\ \A k \in 1..n : s[k] \in Bytes
  OBVIOUS
<1>2. Unread \in Reader
  <2>1. <<>> \in Seq(Bytes) /\ <<>> \in Seq(TokenSet) /\ "gap" \in Modes /\ "gap" # "word"
    BY DEF Modes
  <2> QED BY <2>1 DEF Unread, Reader
<1>3. step \in [1..n -> [Reader -> Reader]]
  <2>1. \A k \in 1..n : \A acc \in Reader : ReadByte(acc, s[k]) \in Reader
    <3> TAKE k \in 1..n
    <3> TAKE acc \in Reader
    <3>1. s[k] \in Bytes
      BY <1>1
    <3> QED BY <3>1, ReadByteTyped
  <2> QED BY <2>1
<1>4. PICK f \in [0..n -> Reader] :
        f[0] = Unread /\ \A k \in 1..n : f[k] = step[k][f[k - 1]]
  <2>1. n \in Nat
    BY <1>1
  <2> HIDE DEF n, step
  <2> QED BY <2>1, <1>2, <1>3, ReaderLoop, Zenon
<1>5. Solves(f)
  <2>1. ASSUME NEW k \in 1..n PROVE f[k] = ReadByte(f[k - 1], s[k])
    <3>1. f[k - 1] \in Reader
      BY <1>1, <1>4
    <3>2. f[k] = step[k][f[k - 1]]
      BY <1>4
    <3> QED BY <3>1, <3>2
  <2> QED BY <1>1, <1>4, <2>1
<1> DEFINE g == CHOOSE h : Solves(h)
<1>6. Solves(g)
  BY <1>5
<1>7. Reads(s) = g
  BY DEF Reads
<1> HIDE DEF g
<1>8. g[0] = Unread /\ \A k \in 1..n : g[k] = ReadByte(g[k - 1], s[k])
  BY <1>1, <1>6
<1>9. \A k \in 0..n : g[k] \in Reader
  <2>1. g[0] \in Reader /\ \A k \in 1..n : g[k - 1] \in Reader => g[k] \in Reader
    BY <1>1, <1>2, <1>8, ReadByteTyped
  <2> HIDE DEF n
  <2> QED BY <1>1, <2>1, LoopKeeps, Zenon
<1> QED BY <1>7, <1>8, <1>9

\* A line that is odd up to some byte is odd.
LEMMA OddForGood ==
  ASSUME NEW s \in Seq(Bytes), NEW q \in 0..Len(s), Reads(s)[q].odd = TRUE
  PROVE  Reads(s)[Len(s)].odd = TRUE
<1> DEFINE b == Reads(s)
           n == Len(s) - q
           f == [i \in 0..n |-> b[q + i]]
           T == {acc \in Reader : acc.odd = TRUE}
<1>1. Len(s) \in Nat /\ n \in Nat /\ q \in Nat /\ n \in 0..n /\ q + n = Len(s) /\ q + 0 = q
  OBVIOUS
<1>2. /\ \A k \in 0..Len(s) : b[k] \in Reader
      /\ \A k \in 1..Len(s) : b[k] = ReadByte(b[k - 1], s[k])
  BY ReadsIs
<1>3. b[q].odd = TRUE
  OBVIOUS
<1> HIDE DEF b
<1>4. f[0] \in T
  BY <1>1, <1>2, <1>3
<1>5. ASSUME NEW i \in 1..n, f[i - 1] \in T PROVE f[i] \in T
  <2> DEFINE k == q + i
  <2>1. k \in 1..Len(s) /\ k - 1 = q + (i - 1) /\ i \in 0..n /\ i - 1 \in 0..n
    BY <1>1
  <2>2. f[i] = b[k] /\ f[i - 1] = b[k - 1]
    BY <2>1
  <2>3. s[k] \in Bytes
    BY <2>1
  <2>4. b[k - 1] \in Reader /\ b[k - 1].odd = TRUE /\ b[k] = ReadByte(b[k - 1], s[k])
    BY <1>2, <1>5, <2>1, <2>2
  <2> HIDE DEF f, k
  <2>5. b[k] \in T
    BY <2>3, <2>4, ReadByteTyped
  <2> QED BY <2>2, <2>5
<1>6. \A i \in 0..n : f[i] \in T
  <2> HIDE DEF n, f, T
  <2> QED BY <1>1, <1>4, <1>5, LoopKeeps, Zenon
<1>7. f[n] = b[Len(s)] /\ f[n] \in T
  BY <1>1, <1>6
<1>8. b[Len(s)].odd = TRUE
  BY <1>7
<1> QED BY <1>8 DEF b

\* A line that is not odd has never been, and does not end in a backslash.
LEMMA NeverOdd ==
  ASSUME NEW s \in Seq(Bytes), ~Split(s).odd
  PROVE  /\ Reads(s)[Len(s)].mode # "escape"
         /\ \A q \in 0..Len(s) : Reads(s)[q].odd = FALSE
<1> DEFINE r == Reads(s)[Len(s)]
<1>1. Len(s) \in 0..Len(s) /\ \A q \in 0..Len(s) : Reads(s)[q] \in Reader
  BY ReadsIs
<1>2. r \in Reader
  BY <1>1
<1> HIDE DEF r
<1>3. ~Closed(r).odd
  BY DEF Split, r
<1>4. r.mode # "escape"
  BY <1>2, <1>3, OddTyped DEF Closed
<1>5. r.odd = FALSE
  <2>1. CASE r.mode = "string"
    <3>1. Closed(r) = Ended(r, "String") /\ "String" \in Types
      BY <2>1 DEF Closed, Types
    <3>2. Closed(r).odd = r.odd
      BY <1>2, <3>1, EndedTyped, Zenon DEF Goes
    <3> QED BY <1>2, <1>3, <3>2, ReaderIs
  <2>2. CASE r.mode \in Between \cup {"word"}
    <3>1. Closed(r) = Gap(r)
      BY <2>2 DEF Closed, Between
    <3>2. Closed(r).odd = r.odd
      BY <1>2, <2>2, <3>1, GapTyped, Zenon DEF Goes
    <3> QED BY <1>2, <1>3, <3>2, ReaderIs
  <2> QED BY <1>2, <1>4, <2>1, <2>2, ReaderIs DEF Modes, Between
<1>6. ASSUME NEW q \in 0..Len(s) PROVE Reads(s)[q].odd = FALSE
  <2>1. Reads(s)[q].odd # TRUE
    BY <1>5, OddForGood DEF r
  <2>2. Reads(s)[q] \in Reader
    BY <1>1
  <2> QED BY <2>1, <2>2, ReaderIs
<1> QED BY <1>4, <1>6 DEF r

-----------------------------------------------------------------------------

\* How much of the line has been consumed, and where a reader would be then.
Place == Len(text) - Len(input)
Here == Reads(text)[Place]

\* What is left is what the line ends in.
Suffix == Len(input) <= Len(text) /\ \A k \in 1..Len(input) : input[k] = text[Place + k]

Starts(set) == input # <<>> /\ input[1] \in set

\* Between the tokens that the rules take: the reader has the same ones, and is
\* in a word only where it ends.  Nothing is left for the rules that may follow
\* an operator.
Outside(acc) ==
  /\ Closed(acc).out = tokens
  /\ \/ acc.mode \in Between
     \/ acc.mode = "word" /\ (input = <<>> \/ Starts(Spaces \cup Operators \cup Braces))
     \/ acc.mode = "string" /\ input = <<>>
  /\ acc.mode \in {"angle", "operator"} => ~Starts(Operators)
  /\ rule \in {"brace", "path", "identifier"} => ~Starts(Operators)

\* In a token it is in the same one.
Inside(acc) ==
  /\ acc.out = tokens /\ acc.word = word
  /\ \/ rule = "string" /\ acc.mode = "string"
     \/ rule = "identifier" /\ acc.mode = "word"
     \/ /\ rule = "identifier" /\ acc.mode \in Between
        /\ Takes(rule, input) /\ input[1] # "\""

AsRead(acc) == IF inside THEN Inside(acc) ELSE Outside(acc)

Reading == Suffix /\ (~Split(text).odd => AsRead(Here))

\* The places of the next two bytes.
NextPlaces(n, m, q) ==
  /\ m > 0 => q + 1 \in 1..n /\ q + 1 \in 0..n /\ (q + 1) - 1 = q
  /\ m = 1 => q + 1 = n
  /\ m > 1 => q + 2 \in 1..n /\ q + 2 \in 0..n /\ (q + 2) - 1 = q + 1

\* There are such places in every line.
LEMMA Places ==
  ASSUME NEW n \in Nat, NEW m \in Nat, m <= n, NEW q, q = n - m
  PROVE  NextPlaces(n, m, q)
BY DEF NextPlaces

\* What the reader does with the byte that comes next.
LEMMA Ahead ==
  ASSUME LexTypeOK, Suffix, ~Split(text).odd
  PROVE  /\ Len(text) \in Nat /\ Len(input) \in Nat /\ Place \in 0..Len(text)
         /\ Here \in Reader /\ Here.odd = FALSE
         /\ input # <<>> =>
              /\ input[1] \in Bytes
              /\ Reads(text)[Place + 1] = ReadByte(Here, input[1])
              /\ ReadByte(Here, input[1]) \in Reader /\ ReadByte(Here, input[1]).odd = FALSE
              /\ ReadByte(Here, input[1]).mode = "escape" => Len(input) > 1
         /\ Len(input) > 1 =>
              /\ input[2] \in Bytes
              /\ Reads(text)[Place + 2] = ReadByte(ReadByte(Here, input[1]), input[2])
              /\ ReadByte(ReadByte(Here, input[1]), input[2]) \in Reader
              /\ ReadByte(ReadByte(Here, input[1]), input[2]).odd = FALSE
<1> PICK q : q = Place
  OBVIOUS
<1> DEFINE R == Reads(text)
<1>1. text \in Seq(Bytes) /\ input \in Seq(Bytes) /\ Len(text) \in Nat /\ Len(input) \in Nat
      /\ Len(input) <= Len(text)
  BY DEF LexTypeOK, Suffix
<1>2. /\ \A k \in 0..Len(text) : R[k] \in Reader
      /\ \A k \in 1..Len(text) : R[k] = ReadByte(R[k - 1], text[k])
  BY <1>1, ReadsIs
<1>3. R[Len(text)].mode # "escape" /\ \A k \in 0..Len(text) : R[k].odd = FALSE
  <2>1. ~Split(text).odd
    OBVIOUS
  <2>2. \A s \in Seq(Bytes) : ~Split(s).odd =>
          /\ Reads(s)[Len(s)].mode # "escape"
          /\ \A k \in 0..Len(s) : Reads(s)[k].odd = FALSE
    BY NeverOdd
  <2> QED BY <1>1, <2>1, <2>2, Zenon
<1>4. \A k \in 1..Len(input) : input[k] = text[q + k] /\ input[k] \in Bytes
  <2>1. \A k \in 1..Len(input) : input[k] \in Bytes
    BY <1>1
  <2> QED BY <2>1 DEF Suffix
<1>5. q = Len(text) - Len(input) /\ q \in 0..Len(text) /\ Here = R[q]
  BY <1>1 DEF Place, Here
<1> HIDE DEF R
<1>9. /\ Len(input) > 0 => q + 1 \in 1..Len(text) /\ q + 1 \in 0..Len(text) /\ (q + 1) - 1 = q
      /\ Len(input) = 1 => q + 1 = Len(text)
      /\ Len(input) > 1 => q + 2 \in 1..Len(text) /\ q + 2 \in 0..Len(text)
                          /\ (q + 2) - 1 = q + 1
  <2>1. \A n, m \in Nat : \A p : m <= n /\ p = n - m => NextPlaces(n, m, p)
    BY Places
  <2>2. NextPlaces(Len(text), Len(input), q)
    BY <1>1, <1>5, <2>1, Zenon
  <2> QED BY <2>2 DEF NextPlaces
<1>6. ASSUME input # <<>>
      PROVE  /\ q + 1 \in 0..Len(text) /\ input[1] \in Bytes
             /\ R[q + 1] = ReadByte(R[q], input[1])
             /\ R[q + 1].mode = "escape" => Len(input) > 1
  <2>1. 1 \in 1..Len(input) /\ Len(input) > 0 /\ (Len(input) # 1 => Len(input) > 1)
    <3>1. Len(input) \in Nat \ {0}
      BY <1>1, <1>6, BytesTyped
    <3> QED BY <3>1
  <2>2. q + 1 \in 1..Len(text) /\ q + 1 \in 0..Len(text) /\ (q + 1) - 1 = q
    BY <1>9, <2>1
  <2>3. R[q + 1] = ReadByte(R[(q + 1) - 1], text[q + 1])
    BY <1>2, <2>2
  <2>4. input[1] = text[q + 1] /\ input[1] \in Bytes
    BY <1>4, <2>1
  <2>5. R[q + 1].mode = "escape" => Len(input) > 1
    BY <1>3, <1>9, <2>1
  <2> QED BY <2>2, <2>3, <2>4, <2>5
<1>7. ASSUME Len(input) > 1
      PROVE  /\ q + 2 \in 0..Len(text) /\ input[2] \in Bytes
             /\ R[q + 2] = ReadByte(R[q + 1], input[2])
  <2>1. 2 \in 1..Len(input)
    BY <1>1, <1>7
  <2>2. q + 2 \in 1..Len(text) /\ q + 2 \in 0..Len(text) /\ (q + 2) - 1 = q + 1
    BY <1>7, <1>9
  <2>3. R[q + 2] = ReadByte(R[(q + 2) - 1], text[q + 2])
    BY <1>2, <2>2
  <2> QED BY <1>4, <2>1, <2>2, <2>3
<1>8. Len(input) > 1 => input # <<>>
  BY <1>1
<1> QED BY <1>1, <1>2, <1>3, <1>5, <1>6, <1>7, <1>8 DEF R

\* Consuming bytes moves the place.
LEMMA Consumed ==
  ASSUME LexTypeOK, Suffix, text' = text,
         NEW n \in 0..Len(input), input' = Drop(input, n),
         NEW acc, acc = Reads(text)[Place + n], ~Split(text).odd => AsRead(acc)'
  PROVE  Reading'
<1>1. text \in Seq(Bytes) /\ input \in Seq(Bytes) /\ Len(text) \in Nat /\ Len(input) \in Nat
      /\ Len(input) <= Len(text)
  BY DEF LexTypeOK, Suffix
<1>2. Len(input') = Len(input) - n
  BY <1>1, DropTyped
<1>3. Place' = Place + n /\ Len(input') <= Len(text')
  BY <1>1, <1>2 DEF Place
<1>4. ASSUME NEW k \in 1..Len(input') PROVE input'[k] = text'[Place' + k]
  <2>1. n + k \in 1..Len(input) /\ k \in 1..(Len(input) - n) /\ (Place + n) + k = Place + (n + k)
    BY <1>1, <1>2 DEF Place
  <2>2. input'[k] = input[n + k]
    BY <1>1, <2>1 DEF Drop
  <2>3. input[n + k] = text[Place + (n + k)]
    BY <2>1 DEF Suffix
  <2> QED BY <1>3, <2>1, <2>2, <2>3
<1>5. Suffix'
  BY <1>3, <1>4 DEF Suffix
<1>6. Here' = acc
  BY <1>3 DEF Here
<1>7. Split(text').odd = Split(text).odd
  OBVIOUS
<1>8. ~Split(text').odd => AsRead(Here)'
  <2>1. AsRead(acc)' => AsRead(Here)'
    BY <1>6, Zenon DEF AsRead, Inside, Outside
  <2> QED BY <1>7, <2>1
<1> QED BY <1>5, <1>8 DEF Reading

\* The tail of what is left, and all of it.
LEMMA DropOne ==
  ASSUME NEW s \in Seq(Bytes)
  PROVE  /\ Drop(s, 0) = s
         /\ s # <<>> => Tail(s) = Drop(s, 1) /\ 1 \in 0..Len(s)
<1>1. Drop(s, 0) = s
  BY DEF Drop
<1>2. ASSUME s # <<>> PROVE Tail(s) = Drop(s, 1) /\ 1 \in 0..Len(s)
  BY <1>2 DEF Drop
<1> QED BY <1>1, <1>2

\* At the beginning nothing is read, and there are no tokens.
LEMMA StartReading == \A s \in Seq(Bytes) : LexStart(s) => Reading
<1> SUFFICES ASSUME NEW s \in Seq(Bytes), LexStart(s) PROVE Reading
  OBVIOUS
<1>1. s \in Seq(Bytes) /\ Len(s) \in Nat
  OBVIOUS
<1>2. /\ text = s /\ input = s /\ inside = FALSE /\ tokens = <<>>
      /\ rule \in {"space", "done"}
  BY DEF LexStart
<1>3. Place = 0
  BY <1>1, <1>2 DEF Place
<1>4. Suffix
  BY <1>1, <1>2, <1>3 DEF Suffix
<1>5. Here = Unread
  BY <1>1, <1>2, <1>3, ReadsIs DEF Here
<1>6. Closed(Unread).out = <<>> /\ Unread.mode = "gap"
  BY DEF Unread, Closed, Gap, Now
<1>7. Outside(Here)
  BY <1>2, <1>5, <1>6 DEF Outside, Between
<1> QED BY <1>2, <1>4, <1>7 DEF Reading, AsRead

\* So it is at the beginning of every behaviour.
LEMMA ReadingInit == LexInit => Reading
BY StartReading, TextsAssumption DEF LexInit

\* The tokens of a reader that stops.
LEMMA ClosedOut ==
  ASSUME NEW acc \in Reader
  PROVE  /\ acc.mode \in Between => Closed(acc).out = acc.out
         /\ acc.mode = "word" =>
              Closed(acc).out = Append(acc.out, Token("Identifier", acc.word))
         /\ acc.mode = "string" => Closed(acc).out = Append(acc.out, Token("String", acc.word))
         /\ acc.mode \in Between \cup {"word"} => Closed(acc).out = Gap(acc).out
<1>1. ASSUME acc.mode \in Between \cup {"word"} PROVE Closed(acc) = Gap(acc)
  BY <1>1 DEF Closed, Between
<1>2. CASE acc.mode \in Between
  <2>1. acc.mode # "word" /\ acc.mode # "string"
    BY <1>2 DEF Between
  <2>2. Gap(acc).out = acc.out
    BY <1>2, <2>1, GapTyped, Zenon DEF Goes
  <2> QED BY <1>1, <1>2, <2>1, <2>2
<1>3. CASE acc.mode = "word"
  <2>1. acc.mode \notin Between
    BY <1>3 DEF Between
  <2>2. Gap(acc).out = Append(acc.out, Token("Identifier", acc.word))
    BY <1>3, GapTyped DEF Goes
  <2> QED BY <1>1, <1>3, <2>1, <2>2
<1>4. CASE acc.mode = "string"
  <2>1. acc.mode \notin Between
    BY <1>4 DEF Between
  <2>2. Closed(acc) = Ended(acc, "String") /\ "String" \in Types
    BY <1>4 DEF Closed, Types
  <2>3. Ended(acc, "String").out = Append(acc.out, Token("String", acc.word))
    BY <2>2, EndedTyped, Zenon DEF Goes
  <2> QED BY <1>4, <2>1, <2>2, <2>3
<1>5. CASE acc.mode \notin Between \cup {"word", "string"}
  BY <1>5
<1> QED BY <1>2, <1>3, <1>4, <1>5

\* A backslash that the reader meets is an escape.
LEMMA BackslashEscapes ==
  ASSUME LexTypeOK, Suffix, ~Split(text).odd, input # <<>>,
         Here.mode \in Between \cup {"word"}, input[1] = "\\"
  PROVE  /\ Len(input) > 1
         /\ Escapes(input) /\ (Here.mode \in Between => EscapesShell(input))
         /\ Goes(Here, Reads(text)[Place + 2], "word", Append(Here.word, input[2]), Here.out)
<1> DEFINE acc == Here
           r == ReadByte(acc, input[1])
<1>1. acc \in Reader /\ acc.odd = FALSE /\ input[1] \in Bytes /\ r \in Reader /\ r.odd = FALSE
      /\ (r.mode = "escape" => Len(input) > 1)
  BY Ahead
<1>2. Goes(acc, r, "escape", acc.word, acc.out)
  <2>1. Odd(acc).odd # FALSE
    BY <1>1, OddTyped
  <2>2. input[1] \notin Spaces /\ input[1] \notin Operators /\ input[1] # "\""
    BY Classes
  <2> HIDE DEF acc
  <2> QED BY <1>1, <2>1, <2>2, OutsideReads DEF acc, InsideWord
<1>3. r.mode = "escape" /\ r.word = acc.word /\ r.out = acc.out
  BY <1>2, Zenon DEF Goes
<1>4. Len(input) > 1
  BY <1>1, <1>3
<1> DEFINE c == input[2]
           t == ReadByte(r, c)
<1>5. c \in Bytes /\ Reads(text)[Place + 2] = t /\ t.odd = FALSE
  BY <1>4, Ahead
<1> HIDE DEF t
<1>6. /\ c \in Escapable \/ (c = " " /\ r.word # <<>>)
      /\ t = InWord(r, c)
  <2>1. Odd(r).odd # FALSE
    BY <1>1, OddTyped
  <2> HIDE DEF r, c
  <2> QED BY <1>1, <1>3, <1>5, <2>1, EscapeReads DEF t
<1>7. Goes(acc, t, "word", Append(acc.word, c), acc.out)
  <2>1. Goes(r, t, "word", Append(r.word, c), r.out)
    BY <1>1, <1>5, <1>6, InWordTyped, Zenon
  <2>2. r.odd = acc.odd
    BY <1>1
  <2> HIDE DEF r, c, acc
  <2> QED BY <1>3, <2>1, <2>2, Zenon DEF Goes
<1>8. Escapes(input)
  BY <1>4, <1>6 DEF Escapes, EscapesShell, Second
<1>9. acc.mode \in Between => EscapesShell(input)
  <2>1. acc.mode \in Between => acc.word = <<>>
    BY <1>1, ReaderIs
  <2> QED BY <1>3, <1>4, <1>6, <2>1 DEF EscapesShell, Second
<1> QED BY <1>4, <1>5, <1>7, <1>8, <1>9

\* What is left between two tokens begins with what is read there.
LEMMA NextIs ==
  ASSUME LexTypeOK, Suffix, ~Split(text).odd, Outside(Here), input # <<>>
  PROVE  /\ Here.mode \in Between \cup {"word"}
         /\ input[1] \in Spaces \cup Operators
              \/ (Here.mode \in Between /\ input[1] \in Letters \cup Commands \cup {"\\", "\""})
<1> DEFINE acc == Here
           c == input[1]
<1>1. acc \in Reader /\ acc.odd = FALSE /\ c \in Bytes /\ ReadByte(acc, c).odd = FALSE
  BY Ahead
<1>2. /\ acc.mode \in Between \cup {"word"}
      /\ acc.mode = "word" => c \in Spaces \cup Operators \cup Braces
  BY DEF Outside, Starts, Between
<1> HIDE DEF acc, c
<1>3. ReadByte(acc, c) # Odd(acc)
  BY <1>1, OddTyped
<1>4. \/ c \in Spaces \/ c \in Operators \/ c = "\\" \/ (c = "\"" /\ acc.mode # "word")
      \/ (c \notin Spaces \cup Operators \cup Braces
            /\ (acc.mode = "word" \/ c \in Letters \cup Commands))
  BY <1>1, <1>2, <1>3, OutsideReads DEF InsideWord
<1>5. "\\" \notin Spaces \cup Operators \cup Braces
  BY DEF Spaces, Operators, Braces
<1>6. \/ c \in Spaces \cup Operators
      \/ (acc.mode \in Between /\ c \in Letters \cup Commands \cup {"\\", "\""})
  BY <1>2, <1>4, <1>5
<1> QED BY <1>2, <1>6 DEF acc, c

\* No operator follows another, except ">" a single ">".
LEMMA OperatorLast ==
  ASSUME NEW s \in Seq(Bytes), ~Split(s).odd, NEW k \in 1..Len(s),
         NEW acc, acc = Reads(s)[k - 1],
         acc.mode = "operator" \/ (acc.mode = "angle" /\ s[k] # ">")
  PROVE  s[k] \notin Operators
<1>1. Len(s) \in Nat /\ k - 1 \in 0..Len(s) /\ k \in 0..Len(s) /\ s[k] \in Bytes
  OBVIOUS
<1>2. acc \in Reader /\ Reads(s)[k] = ReadByte(acc, s[k])
  BY <1>1, ReadsIs
<1>3. Reads(s)[k].odd = FALSE
  BY <1>1, NeverOdd
<1>4. Odd(acc).odd = TRUE /\ ReadByte(acc, s[k]) # Odd(acc)
  BY <1>2, <1>3, OddTyped
<1>5. ASSUME s[k] \in Operators PROVE FALSE
  <2>1. ReadByte(acc, s[k]) = ReadOutside(acc, s[k])
    BY DEF ReadByte
  <2>2. ReadOutside(acc, s[k]) = ReadOperator(acc, s[k])
    BY <1>5, Classes DEF ReadOutside
  <2>3. acc.mode \in Between \cup {"word"}
    BY DEF Between
  <2>4. ReadOperator(acc, s[k]) = Odd(acc)
    BY <1>2, <1>5, <2>3, ReadOperatorIs
  <2> QED BY <1>4, <2>1, <2>2, <2>4
<1> QED BY <1>5

-----------------------------------------------------------------------------

\* A rule that is passed reads nothing.
LEMMA PassReads == ASSUME IInv, Reading, Pass PROVE Reading'
<1>1. LexTypeOK /\ Suffix /\ input \in Seq(Bytes) /\ Len(input) \in Nat
  BY DEF IInv, Reading, LexTypeOK
<1>2. /\ text' = text /\ input' = input /\ tokens' = tokens /\ ~inside /\ inside' = FALSE
      /\ ~Applies(rule, input)
      /\ rule' \in {"brace", "path", "identifier"} => rule \in {"operator", "brace", "path"}
  BY DEF Pass, Leave, After, IInv, LexTypeOK, Rules
<1>3. 0 \in 0..Len(input) /\ input' = Drop(input, 0)
  BY <1>1, <1>2, DropOne
<1>4. PICK acc : acc = Reads(text)[Place + 0]
  OBVIOUS
<1>5. ASSUME ~Split(text).odd PROVE AsRead(acc)'
  <2>1. Place \in 0..Len(text) /\ Len(text) \in Nat
    BY <1>1, <1>5, Ahead
  <2>2. Place + 0 = Place
    BY <2>1
  <2>3. acc = Here
    BY <1>4, <2>2 DEF Here
  <2>4. Outside(acc)
    BY <1>2, <1>5, <2>3 DEF Reading, AsRead
  <2>5. rule = "operator" => ~Starts(Operators)
    BY <1>2 DEF Applies, Starts
  <2>6. rule' \in {"brace", "path", "identifier"} => ~Starts(Operators)
    BY <1>2, <2>4, <2>5 DEF Outside
  <2>7. Outside(acc)'
    BY <1>2, <2>4, <2>6 DEF Outside, Starts
  <2> QED BY <1>2, <2>7 DEF AsRead
<1> QED BY <1>1, <1>2, <1>3, <1>4, <1>5, Consumed

\* A blank ends a word, or continues a gap.
LEMMA SpaceReads == ASSUME IInv, Reading, skipLexWhitespace PROVE Reading'
<1>1. LexTypeOK /\ Suffix /\ input \in Seq(Bytes) /\ input # <<>> /\ ~inside
  BY DEF IInv, Reading, LexTypeOK, skipLexWhitespace, Applies
<1>2. /\ text' = text /\ input' = Tail(input) /\ tokens' = tokens /\ inside' = inside
      /\ rule = "space" /\ rule' = rule /\ input[1] \in Spaces
  BY DEF skipLexWhitespace, Applies
<1>3. 1 \in 0..Len(input) /\ input' = Drop(input, 1)
  BY <1>1, <1>2, DropOne
<1>4. PICK acc : acc = Reads(text)[Place + 1]
  OBVIOUS
<1>5. ASSUME ~Split(text).odd PROVE AsRead(acc)'
  <2>1. Outside(Here)
    BY <1>1, <1>5 DEF Reading, AsRead
  <2>2. Here.mode \in Between \cup {"word"}
    BY <1>1, <1>5, <2>1, NextIs
  <2>3. /\ Here \in Reader /\ input[1] \in Bytes /\ acc = ReadByte(Here, input[1])
        /\ acc.odd = FALSE /\ acc \in Reader
    BY <1>1, <1>4, <1>5, Ahead
  <2>4. acc = Gap(Here)
    <3>1. ReadByte(Here, input[1]) = ReadOutside(Here, input[1])
      BY <2>2 DEF ReadByte, Between
    <3> QED BY <1>2, <2>3, <3>1, Classes DEF ReadOutside
  <2>5. acc.mode = "gap"
    BY <2>2, <2>3, <2>4, GapTyped, Zenon DEF Goes
  <2>6. Closed(acc).out = tokens
    <3>1. Closed(acc).out = acc.out
      BY <2>3, <2>5, ClosedOut DEF Between
    <3>2. Closed(Here).out = Gap(Here).out
      BY <2>2, <2>3, ClosedOut
    <3> QED BY <2>1, <2>4, <3>1, <3>2 DEF Outside
  <2>7. Outside(acc)'
    BY <1>2, <2>5, <2>6 DEF Outside, Between
  <2> QED BY <1>1, <1>2, <2>7 DEF AsRead
<1> QED BY <1>1, <1>2, <1>3, <1>4, <1>5, Consumed

\* An operator is read as one token, and a brace makes the line odd.
LEMMA SymbolReads == ASSUME IInv, Reading, lexSymbol PROVE Reading'
<1> DEFINE c == input[1]
           n == IF c = ">" /\ Second(input, {">"}) THEN 2 ELSE 1
<1>1. LexTypeOK /\ Suffix /\ input \in Seq(Bytes) /\ input # <<>> /\ ~inside
      /\ text \in Seq(Bytes)
  BY DEF IInv, Reading, LexTypeOK, lexSymbol, Applies
<1>2. /\ text' = text /\ input' = Drop(input, n) /\ inside' = FALSE
      /\ rule = "brace" => c \in Braces
      /\ rule = "operator" => /\ c \in Operators /\ rule' = "brace"
                              /\ tokens' = Append(tokens, Token("Operator", SubSeq(input, 1, n)))
      /\ rule \in {"operator", "brace"}
  BY DEF lexSymbol, Leave, After, Applies, Add
<1>3. Len(input) \in Nat \ {0} /\ n \in 0..Len(input) /\ (n = 1 \/ (n = 2 /\ Len(input) > 1))
  BY <1>1 DEF Second
<1>4. PICK acc : acc = Reads(text)[Place + n]
  OBVIOUS
<1>5. ASSUME ~Split(text).odd PROVE AsRead(acc)'
  <2> DEFINE here == Here
             r == ReadByte(here, c)
  <2>1. Outside(here)
    BY <1>1, <1>5 DEF Reading, AsRead
  <2>2. here.mode \in Between \cup {"word"}
        /\ (c \in Spaces \cup Operators \/ c \in Letters \cup Commands \cup {"\\", "\""})
    BY <1>1, <1>5, <2>1, NextIs
  <2>3. rule = "operator" /\ c \in Operators
    BY <1>2, <2>2 DEF Braces, Spaces, Operators, Letters, Commands
  <2>4. here.mode \in {"gap", "closed", "word"}
    BY <1>1, <2>1, <2>2, <2>3 DEF Outside, Starts, Between
  <2>5. /\ Len(text) \in Nat /\ Len(input) \in Nat /\ Place \in 0..Len(text) /\ here \in Reader
        /\ Reads(text)[Place + 1] = r /\ r \in Reader /\ r.odd = FALSE
        /\ Len(input) > 1 => Reads(text)[Place + 2] = ReadByte(r, input[2])
    BY <1>1, <1>5, Ahead
  <2>6. r = ReadOperator(here, c)
    <3>1. r = ReadOutside(here, c)
      BY <2>4 DEF ReadByte
    <3> QED BY <2>3, <3>1, Classes DEF ReadOutside
  <2> DEFINE one == Token("Operator", <<c>>)
  <2>7. PICK m \in {"angle", "operator"} :
          (m = "angle" <=> c = ">") /\ Goes(here, r, m, <<>>, Append(Gap(here).out, one))
    BY <2>2, <2>3, <2>4, <2>5, <2>6, ReadOperatorIs
  <2>8. Gap(here).out = tokens /\ tokens \in Seq(TokenSet)
    <3>1. Closed(here).out = Gap(here).out
      BY <2>2, <2>5, ClosedOut
    <3>2. tokens \in Seq(TokenSet)
      BY <1>1 DEF LexTypeOK, TokenSet
    <3> QED BY <2>1, <3>1, <3>2 DEF Outside
  <2> HIDE DEF here, r, one
  <2>9. r.mode = m /\ r.out = Append(tokens, one)
    BY <2>7, <2>8, Zenon DEF Goes
  <2>10. /\ acc.mode \in {"angle", "operator"} /\ acc \in Reader
         /\ acc.out = tokens'
         /\ acc.mode = "angle" => n = 1 /\ c = ">"
    <3>1. CASE n = 1
      <4>1. acc = r
        BY <1>4, <2>5, <3>1
      <4>2. SubSeq(input, 1, n) = <<c>>
        <5> DEFINE s == SubSeq(input, 1, 1)
        <5>1. s \in Seq(Bytes) /\ Len(s) = 1 /\ s[1] = input[1]
          BY <1>1, <1>3
        <5> HIDE DEF s, n
        <5>2. s = <<s[1]>>
          BY <5>1
        <5> QED BY <3>1, <5>1, <5>2 DEF s
      <4>3. tokens' = Append(tokens, one)
        <5>1. tokens' = Append(tokens, Token("Operator", SubSeq(input, 1, n)))
          BY <1>2, <2>3
        <5> HIDE DEF n
        <5> QED BY <4>2, <5>1, Zenon DEF one
      <4> QED BY <2>5, <2>7, <2>9, <3>1, <4>1, <4>3
    <3>2. CASE n = 2
      <4>1. c = ">" /\ input[2] = c /\ Len(input) > 1
        BY <3>2 DEF Second
      <4>2. acc = ReadByte(r, c) /\ r.mode = "angle"
        BY <1>4, <2>5, <2>7, <2>9, <3>2, <4>1
      <4>3. acc = ReadOperator(r, c)
        <5>1. acc = ReadOutside(r, c)
          BY <4>2 DEF ReadByte
        <5> QED BY <2>3, <5>1, Classes DEF ReadOutside
      <4>4. Goes(r, acc, "operator", <<>>, Append(Front(r.out), Token("Operator", <<c, c>>)))
        BY <2>3, <2>5, <4>1, <4>2, <4>3, ReadOperatorIs DEF Between
      <4>5. one \in TokenSet
        <5>1. c \in Bytes /\ "Operator" \in Types
          BY <2>3 DEF Bytes, Types
        <5>2. <<c>> \in Seq(Bytes)
          BY <5>1
        <5> QED BY <5>1, <5>2, TokenTyped DEF one
      <4>6. Front(r.out) = tokens
        BY <2>8, <2>9, <4>5, Grown
      <4>7. SubSeq(input, 1, n) = <<c, c>>
        <5> DEFINE s == SubSeq(input, 1, 2)
        <5>1. s \in Seq(Bytes) /\ Len(s) = 2 /\ s[1] = input[1] /\ s[2] = input[2]
          BY <1>1, <1>3, <4>1
        <5> HIDE DEF s, n
        <5>2. s = <<s[1], s[2]>>
          BY <5>1
        <5> QED BY <3>2, <4>1, <5>1, <5>2 DEF s
      <4>8. acc.out = tokens'
        BY <1>2, <2>3, <4>4, <4>6, <4>7 DEF Goes
      <4>9. acc.mode = "operator" /\ acc \in Reader
        BY <4>4, Zenon DEF Goes
      <4> QED BY <4>8, <4>9
    <3> QED BY <1>3, <3>1, <3>2
  <2>11. ~Starts(Operators)'
    <3> SUFFICES ASSUME input' # <<>>, input'[1] \in Operators PROVE FALSE
      BY DEF Starts
    <3> PICK k : k = (Place + n) + 1
      OBVIOUS
    <3>1. Len(input') = Len(input) - n /\ input' \in Seq(Bytes)
      BY <1>1, <1>2, <1>3, DropTyped
    <3>2. Len(input') \in Nat \ {0}
      <4>1. input' \in Seq(Bytes) /\ input' # <<>>
        BY <3>1
      <4> QED BY <4>1, BytesTyped
    <3>3. n + 1 \in 1..Len(input) /\ input'[1] = input[n + 1]
      <4>1. n + 1 \in 1..Len(input)
        BY <1>3, <3>1, <3>2
      <4> QED BY <1>1, <1>2, <1>3, <4>1 DEF Drop
    <3>4. input[n + 1] = text[Place + (n + 1)]
      BY <3>3 DEF Suffix, Reading
    <3>5. k \in 1..Len(text) /\ k - 1 = Place + n /\ k = Place + (n + 1)
      BY <1>3, <2>5, <3>3 DEF Place
    <3>6. acc.mode = "operator" \/ (acc.mode = "angle" /\ text[k] # ">")
      <4>1. ASSUME acc.mode = "angle", text[k] = ">" PROVE FALSE
        <5>1. n = 1 /\ c = ">" /\ input[2] = ">"
          BY <2>10, <3>3, <3>4, <3>5, <4>1
        <5> QED BY <1>3, <3>3, <5>1 DEF Second
      <4> QED BY <2>10, <4>1
    <3>7. text[k] \notin Operators
      BY <1>1, <1>4, <1>5, <3>5, <3>6, OperatorLast
    <3> QED BY <3>3, <3>4, <3>5, <3>7
  <2>12. Closed(acc).out = tokens'
    BY <2>10, ClosedOut DEF Between
  <2>13. Outside(acc)'
    BY <2>10, <2>11, <2>12 DEF Outside, Between
  <2> QED BY <1>2, <2>13 DEF AsRead
<1> QED BY <1>1, <1>2, <1>3, <1>4, <1>5, Consumed

\* A word or a string begins; all other rules begin with what makes the line odd.
LEMMA BeginReads == ASSUME IInv, Reading, BeginWord PROVE Reading'
<1> DEFINE c == input[1]
           n == IF rule \in {"string", "variable"} THEN 1 ELSE 0
<1>1. LexTypeOK /\ Suffix /\ input \in Seq(Bytes) /\ input # <<>> /\ ~inside
  BY DEF IInv, Reading, LexTypeOK, BeginWord, Applies
<1>2. /\ text' = text /\ inside' = TRUE /\ word' = <<>> /\ tokens' = tokens /\ rule' = rule
      /\ input' = IF rule \in {"string", "variable"} THEN Tail(input) ELSE input
      /\ Applies(rule, input) /\ rule \in {"path", "identifier", "number", "string", "variable"}
  BY DEF BeginWord
<1>3. n \in 0..Len(input) /\ input' = Drop(input, n)
  <2>1. Len(input) \in Nat \ {0}
    BY <1>1, BytesTyped
  <2>2. Drop(input, 0) = input /\ 0 \in 0..Len(input)
        /\ (input # <<>> => Tail(input) = Drop(input, 1) /\ 1 \in 0..Len(input))
    BY <1>1, <2>1, DropOne
  <2> QED BY <1>1, <1>2, <2>2
<1>4. PICK acc : acc = Reads(text)[Place + n]
  OBVIOUS
<1>5. ASSUME ~Split(text).odd PROVE AsRead(acc)'
  <2>1. Outside(Here)
    BY <1>1, <1>5 DEF Reading, AsRead
  <2>2. /\ Here.mode \in Between \cup {"word"}
        /\ \/ c \in Spaces \cup Operators
           \/ Here.mode \in Between /\ c \in Letters \cup Commands \cup {"\\", "\""}
    BY <1>1, <1>5, <2>1, NextIs
  <2>3. /\ Len(text) \in Nat /\ Place \in 0..Len(text) /\ Here \in Reader
        /\ Reads(text)[Place + 1] = ReadByte(Here, c)
        /\ ReadByte(Here, c).odd = FALSE /\ c \in Bytes
    BY <1>1, <1>5, Ahead
  <2>4. rule = "identifier" => c \notin Operators
    BY <1>1, <2>1 DEF Outside, Starts
  <2>5. /\ c \notin Spaces \cup Operators
        /\ Here.mode \in Between /\ c \in Letters \cup Commands \cup {"\\", "\""}
    <3>1. rule = "path" => c \notin Spaces \cup Operators
      BY <1>2 DEF Applies, PathStarts, Spaces, Operators
    <3>2. rule = "identifier" => c \notin Spaces \cup Operators
      BY <1>2, <2>4 DEF Applies
    <3>3. rule \in {"number", "string", "variable"} => c \notin Spaces \cup Operators
      BY <1>2 DEF Applies, Digits, Spaces, Operators
    <3> QED BY <1>2, <2>2, <3>1, <3>2, <3>3
  <2>6. Here.word = <<>> /\ Here.out = tokens
    <3>1. Closed(Here).out = Here.out
      BY <2>3, <2>5, ClosedOut
    <3> QED BY <2>1, <2>3, <2>5, <3>1, ReaderIs DEF Outside
  <2>7. rule \in {"identifier", "string"}
    <3>1. ASSUME rule = "path" PROVE FALSE
      <4>1. c \in PathStarts /\ ~EscapesShell(input)
        BY <1>2, <3>1 DEF Applies
      <4>2. c = "\\"
        BY <2>5, <4>1 DEF PathStarts, Letters, Commands
      <4>3. EscapesShell(input)
        BY <1>1, <1>5, <2>5, <4>2, BackslashEscapes
      <4> QED BY <4>1, <4>3
    <3>2. rule \notin {"number", "variable"}
      BY <1>2, <2>5 DEF Applies, Digits, Letters, Commands
    <3> QED BY <1>2, <3>1, <3>2
  <2>8. CASE rule = "identifier"
    <3>1. n = 0 /\ Place + 0 = Place /\ input' = input
      BY <1>2, <2>3, <2>8
    <3>2. acc = Here
      BY <1>4, <3>1 DEF Here
    <3>3. c # "\"" /\ c \notin Braces
      BY <1>2, <2>8 DEF Applies, Braces
    <3>4. Takes("identifier", input)
      BY <1>1, <2>5, <3>3 DEF Takes
    <3>5. Inside(acc)'
      BY <1>2, <2>5, <2>6, <2>8, <3>1, <3>2, <3>3, <3>4 DEF Inside
    <3> QED BY <1>2, <3>5 DEF AsRead
  <2>9. CASE rule = "string"
    <3>1. n = 1 /\ c = "\""
      BY <1>2, <2>9 DEF Applies
    <3>2. acc = ReadByte(Here, c)
      BY <1>4, <2>3, <3>1
    <3>3. Goes(Here, acc, "string", Here.word, Here.out)
      <4>1. ReadByte(Here, c) # Odd(Here)
        BY <2>3, OddTyped
      <4>2. Here.mode # "word"
        BY <2>5 DEF Between
      <4> QED BY <2>2, <2>3, <2>5, <3>1, <3>2, <4>1, <4>2, Classes, OutsideReads DEF InsideWord
    <3>4. acc.mode = "string" /\ acc.word = <<>> /\ acc.out = tokens
      BY <2>6, <3>3 DEF Goes
    <3>5. Inside(acc)'
      BY <1>2, <2>9, <3>4 DEF Inside
    <3> QED BY <1>2, <3>5 DEF AsRead
  <2> QED BY <2>7, <2>8, <2>9
<1> QED BY <1>1, <1>2, <1>3, <1>4, <1>5, Consumed

\* A byte taken by a rule is read into the reader's word, unless the line is odd.
LEMMA TakeReads == ASSUME IInv, Reading, TakeByte PROVE Reading'
<1> DEFINE c == input[1]
           n == IF rule \in {"path", "identifier"} /\ Escapes(input) THEN 2 ELSE 1
<1>1. LexTypeOK /\ Suffix /\ input \in Seq(Bytes) /\ input # <<>> /\ inside
  BY DEF IInv, Reading, LexTypeOK, TakeByte, Takes
<1>2. /\ text' = text /\ inside' = TRUE /\ word' = Append(word, input[n]) /\ tokens' = tokens
      /\ rule' = rule /\ input' = Drop(input, n) /\ Takes(rule, input)
  BY <1>1 DEF TakeByte
<1>3. n \in 0..Len(input)
  BY <1>1, BytesTyped
<1>4. PICK acc : acc = Reads(text)[Place + n]
  OBVIOUS
<1>5. ASSUME ~Split(text).odd PROVE AsRead(acc)'
  <2>1. Inside(Here) /\ Here.out = tokens /\ Here.word = word
    BY <1>1, <1>5 DEF Reading, AsRead, Inside
  <2>2. /\ Here \in Reader /\ Reads(text)[Place + 1] = ReadByte(Here, c)
        /\ ReadByte(Here, c).odd = FALSE /\ c \in Bytes
    BY <1>1, <1>5, Ahead
  <2>3. ASSUME NEW m, Goes(Here, acc, m, Append(word, input[n]), tokens),
               (rule = "string" /\ m = "string") \/ (rule = "identifier" /\ m = "word")
        PROVE  AsRead(acc)'
    <3>1. acc.mode = m /\ acc.word = word' /\ acc.out = tokens'
      <4>1. acc.mode = m /\ acc.word = Append(word, input[n]) /\ acc.out = tokens
        BY <2>3, Zenon DEF Goes
      <4> HIDE DEF n
      <4> QED BY <1>2, <4>1
    <3>2. Inside(acc)'
      BY <1>2, <2>3, <3>1 DEF Inside
    <3> QED BY <1>2, <3>2 DEF AsRead
  <2>4. CASE rule = "string"
    <3>1. Here.mode = "string" /\ c # "\"" /\ n = 1
      BY <1>2, <2>1, <2>4 DEF Inside, Takes
    <3>2. acc = ReadByte(Here, c)
      BY <1>4, <2>2, <3>1
    <3>3. Goes(Here, acc, "string", Append(Here.word, c), Here.out)
      BY <2>2, <3>1, <3>2, StringReads
    <3>4. Goes(Here, acc, "string", Append(word, input[n]), tokens)
      <4> HIDE DEF n
      <4> QED BY <2>1, <3>1, <3>3
    <3> QED BY <2>3, <2>4, <3>4
  <2>5. CASE rule = "identifier"
    <3>1. Here.mode \in Between \cup {"word"} /\ (Here.mode # "word" => c # "\"")
      BY <2>1, <2>5 DEF Inside
    <3>2. CASE Escapes(input)
      <4>1. n = 2 /\ c = "\\"
        BY <2>5, <3>2 DEF Escapes, EscapesShell
      <4>2. Goes(Here, Reads(text)[Place + 2], "word", Append(Here.word, input[2]), Here.out)
        BY <1>1, <1>5, <3>1, <4>1, BackslashEscapes
      <4>3. Goes(Here, acc, "word", Append(word, input[n]), tokens)
        <5> HIDE DEF n
        <5> QED BY <1>4, <2>1, <4>1, <4>2
      <4> QED BY <2>3, <2>5, <4>3
    <3>3. CASE ~Escapes(input)
      <4>1. n = 1 /\ c \notin Spaces \cup Braces \cup Operators
        BY <1>2, <2>5, <3>3 DEF Takes
      <4>2. c # "\\"
        BY <1>1, <1>5, <3>1, <3>3, BackslashEscapes
      <4>3. acc = InWord(Here, c)
        <5>1. ReadByte(Here, c) # Odd(Here)
          BY <2>2, OddTyped
        <5>2. acc = ReadByte(Here, c)
          BY <1>4, <2>2, <4>1
        <5> QED BY <2>2, <3>1, <4>1, <4>2, <5>1, <5>2, OutsideReads
      <4>4. Goes(Here, acc, "word", Append(Here.word, c), Here.out)
        BY <2>2, <4>3, InWordTyped
      <4>5. Goes(Here, acc, "word", Append(word, input[n]), tokens)
        <5> HIDE DEF n
        <5> QED BY <2>1, <4>1, <4>4
      <4> QED BY <2>3, <2>5, <4>5
    <3> QED BY <3>2, <3>3
  <2> QED BY <2>1, <2>4, <2>5 DEF Inside
<1> QED BY <1>1, <1>2, <1>3, <1>4, <1>5, Consumed

\* A word that ends is the token that the reader is about to add.
LEMMA EndReads == ASSUME IInv, Reading, EndWord PROVE Reading'
<1> DEFINE c == input[1]
           n == IF rule = "string" /\ input # <<>> THEN 1 ELSE 0
           token == Token(TypeOf(rule), word)
<1>1. LexTypeOK /\ Suffix /\ input \in Seq(Bytes) /\ inside
  BY DEF IInv, Reading, LexTypeOK, EndWord
<1>2. /\ text' = text /\ inside' = FALSE /\ tokens' = Append(tokens, token)
      /\ rule # "comment" /\ rule' = After(rule) /\ ~Takes(rule, input)
      /\ input' = IF rule = "string" /\ input # <<>> THEN Tail(input) ELSE input
  BY DEF EndWord, Leave, Add
<1>3. n \in 0..Len(input) /\ input' = Drop(input, n)
  <2>1. Len(input) \in Nat
    BY <1>1
  <2>2. Drop(input, 0) = input /\ 0 \in 0..Len(input)
        /\ (input # <<>> => Tail(input) = Drop(input, 1) /\ 1 \in 0..Len(input))
    BY <1>1, <2>1, DropOne
  <2> QED BY <1>1, <1>2, <2>2
<1>4. PICK acc : acc = Reads(text)[Place + n]
  OBVIOUS
<1>5. ASSUME ~Split(text).odd PROVE AsRead(acc)'
  <2>1. Inside(Here) /\ Here.out = tokens /\ Here.word = word
    BY <1>1, <1>5 DEF Reading, AsRead, Inside
  <2>2. /\ Len(text) \in Nat /\ Place \in 0..Len(text) /\ Here \in Reader
        /\ input # <<>> => /\ Reads(text)[Place + 1] = ReadByte(Here, c)
                           /\ ReadByte(Here, c) \in Reader /\ c \in Bytes
    BY <1>1, <1>5, Ahead
  <2>3. n = 0 => acc = Here
    <3>1. Place + 0 = Place
      BY <2>2
    <3> QED BY <1>4, <3>1 DEF Here
  <2>4. rule = "string" => rule' = "variable" /\ token = Token("String", word)
    BY <1>2 DEF After, TypeOf
  <2>5. rule = "identifier" => rule' = "number" /\ token = Token("Identifier", word)
    BY <1>2 DEF After, TypeOf
  <2>6. CASE rule = "string" /\ input # <<>>
    <3>1. n = 1 /\ c = "\"" /\ Here.mode = "string"
      BY <1>2, <2>1, <2>6 DEF Takes, Inside
    <3>2. acc = Ended(Here, "String") /\ acc \in Reader
      <4>1. acc = ReadByte(Here, c) /\ c \in Bytes /\ acc \in Reader
        BY <1>4, <2>2, <2>6, <3>1
      <4>2. ReadByte(Here, c) = Ended(Here, "String")
        BY <2>2, <3>1, <4>1, StringReads
      <4> QED BY <4>1, <4>2
    <3>3. Goes(Here, acc, "closed", <<>>, Append(tokens, Token("String", word)))
      <4>1. "String" \in Types /\ AfterToken("String") = "closed"
        BY DEF Types, AfterToken
      <4> QED BY <2>1, <2>2, <3>2, <4>1, EndedTyped
    <3>4. acc.mode = "closed" /\ acc.out = Append(tokens, Token("String", word))
      BY <3>3, Zenon DEF Goes
    <3>5. Closed(acc).out = acc.out
      BY <3>2, <3>4, ClosedOut DEF Between
    <3>6. Closed(acc).out = tokens'
      BY <1>2, <2>4, <2>6, <3>4, <3>5
    <3>7. Outside(acc)'
      BY <2>4, <2>6, <3>4, <3>6 DEF Outside, Between
    <3> QED BY <1>2, <3>7 DEF AsRead
  <2>7. CASE rule = "string" /\ input = <<>>
    <3>1. acc = Here /\ input' = <<>> /\ acc.mode = "string"
      BY <1>2, <2>1, <2>3, <2>7 DEF Inside
    <3>2. Closed(acc).out = Append(acc.out, Token("String", acc.word))
      BY <2>2, <3>1, ClosedOut
    <3>3. Closed(acc).out = tokens'
      BY <1>2, <2>1, <2>4, <2>7, <3>1, <3>2
    <3>4. Outside(acc)'
      BY <2>4, <2>7, <3>1, <3>3 DEF Outside
    <3> QED BY <1>2, <3>4 DEF AsRead
  <2>8. CASE rule = "identifier"
    <3>1. acc = Here /\ input' = input /\ acc.mode = "word"
      BY <1>2, <2>1, <2>3, <2>8 DEF Inside
    <3>2. input = <<>> \/ Starts(Spaces \cup Operators \cup Braces)
      BY <1>2, <2>8 DEF Takes, Starts
    <3>3. Closed(acc).out = Append(acc.out, Token("Identifier", acc.word))
      BY <2>2, <3>1, ClosedOut
    <3>4. Closed(acc).out = tokens'
      BY <1>2, <2>1, <2>5, <2>8, <3>1, <3>3
    <3>5. Outside(acc)'
      BY <2>5, <2>8, <3>1, <3>2, <3>4 DEF Outside, Starts
    <3> QED BY <1>2, <3>5 DEF AsRead
  <2> QED BY <2>1, <2>6, <2>7, <2>8 DEF Inside
<1> QED BY <1>1, <1>2, <1>3, <1>4, <1>5, Consumed

\* A "#" makes the line odd.
LEMMA CommentReads == ASSUME IInv, Reading, lexComment PROVE Reading'
<1> DEFINE n == IF Second(input, {"#"}) THEN 2 ELSE 1
<1>1. LexTypeOK /\ Suffix /\ input \in Seq(Bytes) /\ input # <<>> /\ ~inside
  BY DEF IInv, Reading, LexTypeOK, lexComment, Applies
<1>2. text' = text /\ input[1] = "#"
      /\ input' = IF Second(input, {"#"}) THEN Drop(input, 2) ELSE Tail(input)
  BY DEF lexComment, Applies
<1>3. n \in 0..Len(input) /\ input' = Drop(input, n)
  <2>1. Len(input) \in Nat \ {0}
    BY <1>1, BytesTyped
  <2>2. Drop(input, 0) = input /\ 0 \in 0..Len(input)
        /\ (input # <<>> => Tail(input) = Drop(input, 1) /\ 1 \in 0..Len(input))
    BY <1>1, <2>1, DropOne
  <2>3. Second(input, {"#"}) => 2 \in 0..Len(input)
    BY <2>1 DEF Second
  <2> QED BY <1>1, <1>2, <2>2, <2>3
<1>4. PICK acc : acc = Reads(text)[Place + n]
  OBVIOUS
<1>5. ASSUME ~Split(text).odd PROVE FALSE
  <2>1. Outside(Here)
    BY <1>1, <1>5 DEF Reading, AsRead
  <2>2. input[1] \in Spaces \cup Operators \cup Letters \cup Commands \cup {"\\", "\""}
    BY <1>1, <1>5, <2>1, NextIs
  <2> QED BY <1>2, <2>2 DEF Spaces, Operators, Letters, Commands
<1> QED BY <1>1, <1>2, <1>3, <1>4, <1>5, Consumed

\* A line with a comment is odd.
LEMMA InCommentReads == ASSUME IInv, Reading, InComment PROVE Reading'
<1>1. /\ LexTypeOK /\ Suffix /\ input \in Seq(Bytes) /\ Len(input) \in Nat
      /\ inside /\ rule = "comment"
  BY DEF IInv, Reading, LexTypeOK, InComment
<1>2. PICK n \in 0..Len(input) : input' = Drop(input, n)
  <2>1. CASE Len(input) >= 2 /\ ~(input[1] = "#" /\ input[2] = "#")
    <3>1. input # <<>> /\ input' = Tail(input)
      BY <1>1, <2>1 DEF InComment
    <3> QED BY <1>1, <3>1, DropOne
  <2>2. CASE Len(input) >= 2 /\ input[1] = "#" /\ input[2] = "#"
    <3>1. 2 \in 0..Len(input) /\ input' = Drop(input, 2)
      BY <1>1, <2>2 DEF InComment
    <3> QED BY <3>1
  <2>3. CASE ~(Len(input) >= 2)
    <3>1. input' = <<>>
      BY <2>3 DEF InComment
    <3>2. Len(input) \in 0..Len(input) /\ Drop(input, Len(input)) = <<>>
      BY <1>1 DEF Drop
    <3> QED BY <3>1, <3>2
  <2> QED BY <2>1, <2>2, <2>3
<1>3. PICK acc : acc = Reads(text)[Place + n]
  OBVIOUS
<1>4. text' = text
  BY DEF InComment
<1>5. Split(text).odd
  BY <1>1 DEF Reading, AsRead, Inside
<1> QED BY <1>1, <1>2, <1>3, <1>4, <1>5, Consumed

\* Every step keeps the reading.
LEMMA StepReads == ASSUME IInv, Reading, [LexNext]_lexVars PROVE Reading'
<1>1. CASE UNCHANGED lexVars
  BY <1>1 DEF Reading, Suffix, Place, Here, AsRead, Inside, Outside, Starts, lexVars
<1>2. CASE LexStep
  BY <1>2, PassReads, SpaceReads, SymbolReads, BeginReads, TakeReads, EndReads, CommentReads,
     InCommentReads DEF LexStep
<1> QED BY <1>1, <1>2 DEF LexNext, LexDone

\* At the end of the line the reader has read it all.
LEMMA ReadAtEnd == ASSUME IInv, Reading PROVE SplitsAsRead
<1> SUFFICES ASSUME rule = "done", ~Split(text).odd PROVE tokens = Split(text).out
  BY DEF SplitsAsRead
<1>1. input = <<>> /\ ~inside /\ text \in Seq(Bytes)
  BY DEF IInv, LexTypeOK
<1>2. Here = Reads(text)[Len(text)]
  <2>1. Place = Len(text)
    BY <1>1 DEF Place
  <2> QED BY <2>1 DEF Here
<1>3. Closed(Here).out = tokens
  BY <1>1 DEF Reading, AsRead, Outside
<1> QED BY <1>2, <1>3 DEF Split

(***************************************************************************)
(* The nine rules, in whatever order they meet the bytes, cut a line that  *)
(* only has words, operators, escapes and strings into what one reads in   *)
(* it from left to right, whatever the line.                               *)
(***************************************************************************)
THEOREM WordsAsRead == LexSpec => []SplitsAsRead
<1>1. LexInit => IInv /\ Reading
  BY InitInvariant, ReadingInit
<1>2. IInv /\ Reading /\ [LexNext]_lexVars => (IInv /\ Reading)'
  BY StepInvariant, StepReads
<1>3. LexSpec => [](IInv /\ Reading)
  BY <1>1, <1>2, PTL DEF LexSpec
<1>4. IInv /\ Reading => SplitsAsRead
  BY ReadAtEnd
<1> QED BY <1>3, <1>4, PTL

-----------------------------------------------------------------------------
(* Snapshot. The tokens of a line whose first bytes are known, and what a  *)
(* reader has read after the pieces that a line is put together from.      *)

\* A line that begins with words of one byte, each but the last with a blank after it.
Solid == Letters \cup Commands
Known(k) ==
  /\ k <= Len(text)
  /\ \A n \in Nat : 2 * n + 1 <= k => text[2 * n + 1] \in Solid
  /\ \A n \in Nat : n > 0 /\ 2 * n <= k => text[2 * n] = " "

\* As many words as the blanks have ended are tokens, and the last may be one that is
\* being taken.
Counted(k) ==
  /\ Place < k =>
       /\ inside => rule = "identifier" /\ Place \in {2 * Len(tokens), 2 * Len(tokens) + 1}
       /\ ~inside => Place \in {2 * Len(tokens), 2 * Len(tokens) - 1}
  /\ Place >= k =>
       \/ 2 * Len(tokens) >= k
       \/ 2 * Len(tokens) + 1 >= k /\ inside /\ rule # "comment"

\* A byte that can only begin or continue a word.
LEMMA AtSolid ==
  ASSUME NEW s, s # <<>>, s[1] \in Solid
  PROVE  /\ \A r \in Rules \ {"identifier"} : ~Applies(r, s)
         /\ Takes("identifier", s) /\ ~Escapes(s)
<1>1. /\ s[1] \notin Spaces \cup Operators \cup Braces \cup PathStarts \cup Digits
      /\ s[1] \notin {"\"", "$", "#", "\\"}
  BY DEF Solid, Letters, Commands, Spaces, Operators, Braces, PathStarts, Digits
<1>2. ~Escapes(s)
  BY <1>1 DEF Escapes, EscapesShell
<1>3. Takes("identifier", s)
  BY <1>1 DEF Takes
<1>4. ASSUME NEW r \in Rules \ {"identifier"} PROVE ~Applies(r, s)
  BY <1>1 DEF Applies, Rules
<1> QED BY <1>2, <1>3, <1>4

\* A blank only ends a word.
LEMMA AtBlank ==
  ASSUME NEW s, s # <<>>, s[1] = " "
  PROVE  /\ \A r \in Rules \ {"space"} : ~Applies(r, s)
         /\ ~Takes("identifier", s)
<1>1. /\ s[1] \in Spaces
      /\ s[1] \notin Operators \cup Braces \cup PathStarts \cup Digits
      /\ s[1] \notin {"\"", "$", "#", "\\"}
  BY DEF Spaces, Operators, Braces, PathStarts, Digits
<1>2. ~Escapes(s)
  BY <1>1 DEF Escapes, EscapesShell
<1>3. ~Takes("identifier", s)
  BY <1>1, <1>2 DEF Takes
<1>4. ASSUME NEW r \in Rules \ {"space"} PROVE ~Applies(r, s)
  BY <1>1 DEF Applies, Rules
<1> QED BY <1>3, <1>4

\* What a step does at a byte that only a word takes, and at a blank.
LEMMA StepAtSolid ==
  ASSUME LexTypeOK, input # <<>>, input[1] \in Solid, LexStep,
         inside => rule = "identifier"
  PROVE  /\ text' = text /\ tokens' = tokens
         /\ ~inside => /\ input' = input
                       /\ inside' => rule' = "identifier" /\ word' = <<>>
         /\ inside => /\ input' = Tail(input) /\ inside' = TRUE /\ rule' = rule
                      /\ word' = Append(word, input[1])
<1>1. /\ \A r \in Rules \ {"identifier"} : ~Applies(r, input)
      /\ Takes("identifier", input) /\ ~Escapes(input)
  BY AtSolid
<1>2. input \in Seq(Bytes) /\ Drop(input, 1) = Tail(input)
  BY DropOne DEF LexTypeOK
<1>3. CASE Pass
  BY <1>3 DEF Pass, Leave
<1>4. ~skipLexWhitespace /\ ~lexSymbol /\ ~lexComment
  BY <1>1 DEF skipLexWhitespace, lexSymbol, lexComment, Rules
<1>5. ~EndWord /\ ~InComment
  BY <1>1 DEF EndWord, InComment
<1>6. CASE BeginWord
  BY <1>1, <1>6 DEF BeginWord, Rules
<1>7. CASE TakeByte
  BY <1>1, <1>2, <1>7 DEF TakeByte
<1> QED BY <1>3, <1>4, <1>5, <1>6, <1>7 DEF LexStep

\* A blank is skipped, or ends the word that is being taken.
LEMMA StepAtBlank ==
  ASSUME LexTypeOK, input # <<>>, input[1] = " ", LexStep,
         inside => rule = "identifier"
  PROVE  /\ text' = text
         /\ ~inside => /\ input' \in {input, Tail(input)} /\ inside' = FALSE /\ tokens' = tokens
         /\ inside => /\ input' = input /\ inside' = FALSE
                      /\ tokens' = Append(tokens, Token("Identifier", word))
<1>1. /\ \A r \in Rules \ {"space"} : ~Applies(r, input)
      /\ ~Takes("identifier", input)
  BY AtBlank
<1>2. CASE Pass
  BY <1>2 DEF Pass, Leave
<1>3. ~lexSymbol /\ ~lexComment /\ ~BeginWord
  BY <1>1 DEF BeginWord, lexSymbol, lexComment, Rules
<1>4. ~TakeByte /\ ~InComment
  BY <1>1 DEF TakeByte, InComment
<1>5. CASE skipLexWhitespace
  BY <1>5 DEF skipLexWhitespace, LexTypeOK
<1>6. CASE EndWord
  BY <1>6 DEF EndWord, Add, TypeOf, Leave
<1> QED BY <1>2, <1>3, <1>4, <1>5, <1>6 DEF LexStep

\* Bytes are consumed and tokens are added; one that is being taken will be.
LEMMA StepGrows ==
  ASSUME LexTypeOK, LexStep
  PROVE  /\ text' = text
         /\ Len(input') <= Len(input)
         /\ tokens' = tokens \/ \E t : tokens' = Append(tokens, t)
         /\ inside /\ rule # "comment" =>
              \/ inside' /\ rule' = rule
              \/ \E t : tokens' = Append(tokens, t)
<1>1. input \in Seq(Bytes) /\ Len(input) \in Nat
  BY DEF LexTypeOK
<1>2. \A n \in 0..Len(input) : Len(Drop(input, n)) <= Len(input)
  BY <1>1, DropTyped
<1>3. input # <<>> => Len(Tail(input)) <= Len(input) /\ 1 \in 0..Len(input)
  BY <1>1, TailTyped
<1>4. CASE Pass
  BY <1>1, <1>4 DEF Pass
<1>5. CASE skipLexWhitespace
  BY <1>3, <1>5 DEF skipLexWhitespace, Applies, LexTypeOK
<1>6. CASE lexSymbol
  <2>1. input # <<>> /\ rule \in {"operator", "brace"} /\ text' = text
    BY <1>6 DEF lexSymbol, Applies
  <2>2. PICK n \in {1, 2} : input' = Drop(input, n) /\ (n = 2 => Len(input) > 1)
    BY <1>6 DEF lexSymbol, Second
  <2>3. n \in 0..Len(input)
    BY <1>1, <1>3, <2>1, <2>2
  <2>4. \E t : tokens' = Append(tokens, t)
    BY <1>6 DEF lexSymbol, Add
  <2>5. ~inside
    BY <2>1 DEF LexTypeOK
  <2> QED BY <1>2, <2>1, <2>2, <2>3, <2>4, <2>5
<1>7. CASE BeginWord
  <2>1. /\ input # <<>> /\ text' = text /\ tokens' = tokens /\ ~inside
        /\ input' \in {input, Tail(input)}
    BY <1>7 DEF BeginWord, Applies
  <2> QED BY <1>1, <1>3, <2>1
<1>8. CASE TakeByte
  <2>1. input # <<>> /\ tokens' = tokens /\ text' = text /\ inside' = inside /\ rule' = rule
    BY <1>8 DEF TakeByte, Takes
  <2>2. PICK n \in {1, 2} : input' = Drop(input, n) /\ (n = 2 => Len(input) > 1)
    <3>1. Escapes(input) => Len(input) > 1
      BY DEF Second, Escapes, EscapesShell
    <3> QED BY <1>8, <3>1 DEF TakeByte
  <2>3. n \in 0..Len(input)
    BY <1>1, <1>3, <2>1, <2>2
  <2> QED BY <1>2, <2>1, <2>2, <2>3
<1>9. CASE EndWord
  BY <1>1, <1>3, <1>9 DEF EndWord, Add
<1>10. CASE lexComment
  <2>1. input # <<>> /\ rule = "comment" /\ text' = text
    BY <1>10 DEF lexComment, Applies
  <2>2. tokens' = tokens \/ \E t : tokens' = Append(tokens, t)
    BY <1>10 DEF lexComment, Add
  <2>3. input' = Tail(input) \/ (Len(input) > 1 /\ input' = Drop(input, 2))
    BY <1>10 DEF lexComment, Second
  <2>4. Len(input) > 1 => 2 \in 0..Len(input)
    BY <1>1
  <2>5. Len(input') <= Len(input)
    BY <1>1, <1>2, <1>3, <2>1, <2>3, <2>4
  <2>6. ~(inside /\ rule # "comment")
    BY <2>1
  <2> QED BY <2>1, <2>2, <2>5, <2>6
<1>11. CASE InComment
  <2>1. text' = text /\ tokens' = tokens /\ rule = "comment"
    BY <1>11 DEF InComment
  <2>2. \/ Len(input) >= 2 /\ (input' = Tail(input) \/ input' = Drop(input, 2))
        \/ input' = <<>>
    BY <1>11 DEF InComment
  <2>3. Len(input) >= 2 => input # <<>> /\ 2 \in 0..Len(input)
    BY <1>1
  <2>4. Len(<<>>) <= Len(input)
    BY <1>1
  <2>5. Len(input') <= Len(input)
    BY <1>2, <1>3, <2>2, <2>3, <2>4
  <2> QED BY <2>1, <2>5
<1> QED
  BY <1>4, <1>5, <1>6, <1>7, <1>8, <1>9, <1>10, <1>11 DEF LexStep

\* The byte that comes next among those known.
LEMMA NextKnown ==
  ASSUME LexTypeOK, Suffix, NEW k \in Nat, Known(k), Place < k, NEW c \in Nat
  PROVE  /\ input # <<>> /\ Len(input) \in Nat /\ Len(text) \in Nat /\ Place \in Nat
         /\ Place = 2 * c => input[1] \in Solid
         /\ Place = 2 * c - 1 \/ Place = 2 * c + 1 => input[1] = " "
<1>1. text \in Seq(Bytes) /\ input \in Seq(Bytes) /\ Len(input) \in Nat /\ Len(text) \in Nat
  BY DEF LexTypeOK
<1>2. Place \in Nat /\ Len(input) # 0 /\ Len(input) >= 1
  <2>1. Len(input) <= Len(text) /\ k <= Len(text)
    BY DEF Suffix, Known
  <2> QED BY <1>1, <2>1 DEF Place
<1>3. input # <<>> /\ input[1] = text[Place + 1]
  BY <1>1, <1>2 DEF Suffix
<1>4. ASSUME Place = 2 * c PROVE input[1] \in Solid
  <2>1. 2 * c + 1 <= k /\ Place + 1 = 2 * c + 1
    BY <1>2, <1>4
  <2>2. text[2 * c + 1] \in Solid
    BY <2>1 DEF Known
  <2> QED BY <1>3, <2>1, <2>2
<1>5. ASSUME Place = 2 * c - 1 PROVE input[1] = " "
  <2>1. c > 0 /\ 2 * c <= k /\ Place + 1 = 2 * c
    BY <1>2, <1>5
  <2> QED BY <1>3, <2>1 DEF Known
<1>6. ASSUME Place = 2 * c + 1 PROVE input[1] = " "
  <2>1. c + 1 \in Nat /\ c + 1 > 0 /\ 2 * (c + 1) <= k /\ Place + 1 = 2 * (c + 1)
    BY <1>2, <1>6
  <2> QED BY <1>3, <2>1 DEF Known
<1> QED BY <1>1, <1>2, <1>3, <1>4, <1>5, <1>6

\* Tokens are counted as the known bytes are passed, whatever comes after them.
LEMMA StepCounted ==
  ASSUME IInv, IInv', Suffix, NEW k \in Nat, Known(k), Counted(k), LexStep
  PROVE  Counted(k)'
<1> DEFINE c == Len(tokens)
<1>1. LexTypeOK /\ LexTypeOK' /\ c \in Nat /\ c' \in Nat /\ Len(input) \in Nat
      /\ Len(input') \in Nat /\ input \in Seq(Bytes) /\ Len(text) \in Nat
  BY DEF IInv, LexTypeOK
<1>2. Place = Len(text) - Len(input) /\ Place' = Len(text) - Len(input')
  <2>1. text' = text
    BY <1>1, StepGrows
  <2> QED BY <2>1 DEF Place
<1>3. ASSUME NEW t, tokens' = Append(tokens, t) PROVE c' = c + 1
  <2>1. tokens \in Seq([type : Types, value : Seq(Bytes)])
    BY <1>1 DEF LexTypeOK
  <2> QED BY <1>3, <2>1
<1>4. CASE Place < k /\ Place = 2 * c
  <2>1. input # <<>> /\ input[1] \in Solid /\ (inside => rule = "identifier")
    BY <1>1, <1>4, NextKnown DEF Counted
  <2>2. c' = c /\ Len(Tail(input)) = Len(input) - 1
    BY <1>1, <2>1, StepAtSolid, TailTyped
  <2>3. CASE inside
    <3>1. Place' = Place + 1 /\ inside' = TRUE /\ rule' = "identifier"
      <4>1. input' = Tail(input) /\ inside' = TRUE /\ rule' = rule
        BY <1>1, <2>1, <2>3, StepAtSolid
      <4> QED BY <1>1, <1>2, <2>1, <2>2, <2>3, <4>1
    <3> QED BY <1>1, <1>4, <2>2, <3>1 DEF Counted
  <2>4. CASE ~inside
    <3>1. Place' = Place /\ (inside' => rule' = "identifier")
      <4>1. input' = input /\ (inside' => rule' = "identifier")
        BY <1>1, <2>1, <2>4, StepAtSolid
      <4> QED BY <1>2, <4>1
    <3> QED BY <1>1, <1>4, <2>2, <3>1 DEF Counted
  <2> QED BY <2>3, <2>4
<1>5. CASE Place < k /\ inside /\ Place = 2 * c + 1
  <2>1. input # <<>> /\ input[1] = " " /\ rule = "identifier"
    BY <1>1, <1>5, NextKnown DEF Counted
  <2>2. input' = input /\ ~inside' /\ c' = c + 1
    BY <1>1, <1>3, <1>5, <2>1, StepAtBlank
  <2>3. Place' = Place
    BY <1>2, <2>2
  <2> QED BY <1>1, <1>5, <2>2, <2>3 DEF Counted
<1>6. CASE Place < k /\ ~inside /\ Place = 2 * c - 1
  <2>1. input # <<>> /\ input[1] = " "
    BY <1>1, <1>6, NextKnown
  <2>2. input' \in {input, Tail(input)} /\ ~inside' /\ c' = c
    BY <1>1, <1>6, <2>1, StepAtBlank
  <2>3. Place' = Place \/ Place' = Place + 1
    <3>1. Len(Tail(input)) = Len(input) - 1
      BY <1>1, <2>1, TailTyped
    <3>2. input' = input \/ input' = Tail(input)
      BY <2>2
    <3>3. CASE input' = input
      BY <1>2, <3>3
    <3>4. CASE input' = Tail(input)
      <4>1. Len(input') = Len(input) - 1
        BY <3>1, <3>4
      <4>2. Len(input) \in Int /\ Len(text) \in Int
        BY <1>1
      <4> QED BY <1>2, <4>1, <4>2
    <3> QED BY <3>2, <3>3, <3>4
  <2> QED BY <1>1, <1>6, <2>2, <2>3 DEF Counted
<1>7. CASE Place >= k
  <2>1. Place' >= k /\ Place' \in Int
    <3>1. Len(input') <= Len(input)
      BY <1>1, StepGrows
    <3> QED BY <1>1, <1>2, <1>7, <3>1
  <2>2. c' >= c
    <3>1. tokens' = tokens \/ \E t : tokens' = Append(tokens, t)
      BY <1>1, StepGrows
    <3> QED BY <1>1, <1>3, <3>1
  <2>3. CASE 2 * c >= k
    BY <1>1, <2>1, <2>2, <2>3 DEF Counted
  <2>4. CASE 2 * c + 1 >= k /\ inside /\ rule # "comment"
    <3>1. (inside' /\ rule' = rule) \/ c' = c + 1
      <4>1. (inside' /\ rule' = rule) \/ \E t : tokens' = Append(tokens, t)
        BY <1>1, <2>4, StepGrows
      <4> QED BY <1>3, <4>1
    <3> QED BY <1>1, <2>1, <2>2, <2>4, <3>1 DEF Counted
  <2> QED BY <1>7, <2>3, <2>4 DEF Counted
<1>8. Place \in Int
  BY <1>1 DEF Place
<1> QED BY <1>1, <1>4, <1>5, <1>6, <1>7, <1>8 DEF Counted

\* The first of them is the first token.
FirstWord ==
  /\ tokens # <<>> => tokens[1].value = <<text[1]>>
  /\ inside /\ tokens = <<>> => word = IF Place = 0 THEN <<>> ELSE <<text[1]>>

\* No step of Lex adds another first token.
LEMMA StepFirstWord ==
  ASSUME IInv, IInv', Suffix, Known(2), Counted(2), FirstWord, LexStep
  PROVE  FirstWord'
<1> DEFINE c == Len(tokens)
<1>1. /\ LexTypeOK /\ Len(input) \in Nat /\ input \in Seq(Bytes) /\ Len(text) \in Nat
      /\ tokens \in Seq([type : Types, value : Seq(Bytes)]) /\ c \in Nat
      /\ text' = text
  BY StepGrows DEF IInv, LexTypeOK
<1>2. Place = Len(text) - Len(input) /\ Place' = Len(text) - Len(input')
  BY <1>1 DEF Place
<1>3. CASE tokens # <<>>
  <2>1. tokens' # <<>> /\ tokens'[1] = tokens[1]
    <3>1. tokens' = tokens \/ \E t : tokens' = Append(tokens, t)
      BY <1>1, StepGrows
    <3>2. ASSUME NEW t PROVE Append(tokens, t) # <<>> /\ Append(tokens, t)[1] = tokens[1]
      <4> DEFINE S == {tokens[k] : k \in DOMAIN tokens} \cup {t}
      <4>1. tokens \in Seq(S) /\ t \in S /\ Len(tokens) >= 1
        BY <1>1, <1>3
      <4> HIDE DEF S
      <4> QED BY <4>1
    <3> QED BY <1>3, <3>1, <3>2
  <2> QED BY <1>1, <1>3, <2>1 DEF FirstWord
<1>4. CASE tokens = <<>>
  <2>1. c = 0 /\ Place < 2 /\ (inside => rule = "identifier")
        /\ (Place = 0 \/ (inside /\ Place = 1))
    <3>1. c = 0 /\ Place \in Int
      BY <1>1, <1>2, <1>4
    <3>2. Place \in Nat
      BY <1>1, <1>2 DEF Suffix
    <3>3. Place < 2
      BY <3>1, <3>2 DEF Counted
    <3> QED BY <3>1, <3>2, <3>3 DEF Counted
  <2>2. CASE Place = 0
    <3>1. input # <<>> /\ input[1] \in Solid /\ input[1] = text[1]
      <4>1. input # <<>> /\ input[1] \in Solid
        <5>1. 2 \in Nat /\ 0 \in Nat /\ Place < 2 /\ Place = 2 * 0
          BY <2>1, <2>2
        <5>2. \A n \in Nat : Place = 2 * n => input # <<>> /\ input[1] \in Solid
          BY <1>1, <5>1, NextKnown
        <5> QED BY <5>1, <5>2
      <4>2. input[1] = text[Place + 1]
        BY <1>1, <4>1 DEF Suffix
      <4> QED BY <2>2, <4>1, <4>2
    <3>2. tokens' = <<>> /\ Len(Tail(input)) = Len(input) - 1
      BY <1>1, <1>4, <2>1, <3>1, StepAtSolid, TailTyped
    <3>3. CASE inside
      <4>1. Place' = 1 /\ word' = Append(word, text[1]) /\ word = <<>>
        <5>1. input' = Tail(input) /\ word' = Append(word, text[1])
          BY <1>1, <2>1, <3>1, <3>3, StepAtSolid
        <5>2. Place' = 1
          <6>1. Len(input') = Len(input) - 1 /\ Len(input) \in Int /\ Len(text) \in Int
            BY <1>1, <3>2, <5>1
          <6> QED BY <1>2, <2>2, <6>1
        <5> QED BY <1>4, <2>2, <3>3, <5>1, <5>2 DEF FirstWord
      <4>2. Append(<<>>, text[1]) = <<text[1]>>
        OBVIOUS
      <4> QED BY <1>1, <3>2, <4>1, <4>2 DEF FirstWord
    <3>4. CASE ~inside
      <4>1. Place' = 0 /\ (inside' => word' = <<>>)
        <5>1. input' = input /\ (inside' => word' = <<>>)
          BY <1>1, <2>1, <3>1, <3>4, StepAtSolid
        <5> QED BY <1>2, <2>2, <5>1
      <4> QED BY <3>2, <4>1 DEF FirstWord
    <3> QED BY <3>3, <3>4
  <2>3. CASE inside /\ Place = 1
    <3>1. input # <<>> /\ input[1] = " " /\ word = <<text[1]>>
      <4>1. input # <<>> /\ input[1] = " "
        <5>1. 2 \in Nat /\ 0 \in Nat /\ Place < 2 /\ Place = 2 * 0 + 1
          BY <2>1, <2>3
        <5> QED BY <1>1, <5>1, NextKnown
      <4>2. Place # 0
        BY <2>3
      <4> QED BY <1>4, <2>3, <4>1, <4>2 DEF FirstWord
    <3>2. tokens' = Append(tokens, Token("Identifier", word))
      BY <1>1, <2>1, <2>3, <3>1, StepAtBlank
    <3>3. tokens' # <<>> /\ tokens'[1].value = word
      BY <1>1, <1>4, <3>2 DEF Token
    <3> QED BY <1>1, <3>1, <3>3 DEF FirstWord
  <2> QED BY <2>1, <2>2, <2>3
<1> QED BY <1>3, <1>4

-----------------------------------------------------------------------------
\* What is known of a line while Lex works on it, whichever line it is.
LexInv ==
  /\ IInv /\ Reading
  /\ \A k \in Nat : Known(k) => Counted(k)
  /\ Known(2) => FirstWord

\* It holds when a line is given to Lex, now or in the next state.
LEMMA StartLexInv == \A s \in Seq(Bytes) : LexStart(s) => LexInv
<1> SUFFICES ASSUME NEW s \in Seq(Bytes), LexStart(s) PROVE LexInv
  OBVIOUS
<1>1. IInv /\ Reading
  BY StartInvariant, StartReading
<1>2. /\ text = s /\ input = s /\ inside = FALSE /\ tokens = <<>> /\ Len(s) \in Nat
      /\ Len(tokens) = 0
  BY DEF LexStart
<1>3. Place = 0
  BY <1>2 DEF Place
<1>4. \A k \in Nat : Counted(k)
  BY <1>2, <1>3 DEF Counted
<1>5. FirstWord
  BY <1>2 DEF FirstWord
<1> QED BY <1>1, <1>4, <1>5 DEF LexInv

\* The same of the next state, for the step that gives Lex a line.
LEMMA StartLexInvPrimed == (\A s \in Seq(Bytes) : LexStart(s) => LexInv)'
BY StartLexInv, PTL

\* Every step of Lex keeps what is known of the line.
LEMMA StepLexInv ==
  ASSUME LexInv, LexStep
  PROVE  LexInv'
<1>1. IInv' /\ Reading' /\ Suffix /\ text' = text
  <2>1. IInv /\ Reading /\ [LexNext]_lexVars
    BY DEF LexInv, LexNext
  <2>2. IInv' /\ Reading' /\ Suffix
    BY <2>1, StepInvariant, StepReads DEF Reading
  <2>3. text' = text
    BY <2>1, StepGrows DEF IInv
  <2> QED BY <2>2, <2>3
<1>2. \A k \in Nat : Known(k)' => Known(k)
  BY <1>1 DEF Known
<1>3. ASSUME NEW k \in Nat, Known(k)' PROVE Counted(k)'
  BY <1>1, <1>2, <1>3, StepCounted DEF LexInv
<1>4. ASSUME Known(2)' PROVE FirstWord'
  BY <1>1, <1>2, <1>4, StepFirstWord DEF LexInv
<1> QED BY <1>1, <1>3, <1>4 DEF LexInv

\* What is known stays known while Lex does nothing.
LEMMA StutterLexInv ==
  ASSUME LexInv, UNCHANGED lexVars
  PROVE  LexInv'
<1>1. IInv' /\ Reading'
  BY StepInvariant, StepReads DEF LexInv
<1>2. UNCHANGED <<text, input, rule, inside, word, tokens>>
  BY DEF lexVars
<1>3. \A k \in Nat : Known(k)' => Counted(k)'
  BY <1>2 DEF LexInv, Known, Counted, Place
<1>4. Known(2)' => FirstWord'
  BY <1>2 DEF LexInv, Known, FirstWord, Place
<1> QED BY <1>1, <1>3, <1>4 DEF LexInv

\* So when Lex is done with a line whose first bytes are known, the words among them
\* are tokens, and the first is the first.
LEMMA WordsOfKnown ==
  ASSUME LexInv, rule = "done", NEW k \in Nat, Known(k)
  PROVE  /\ 2 * Len(tokens) >= k /\ tokens \in Seq(TokenSet)
         /\ k = 2 => tokens # <<>> /\ tokens[1].value = <<text[1]>>
<1>1. input = <<>> /\ inside = FALSE /\ Len(text) \in Nat /\ tokens \in Seq(TokenSet)
  BY DEF LexInv, IInv, LexTypeOK, TokenSet
<1>2. Place >= k /\ Place \in Int
  <2>1. k <= Len(text) /\ Len(input) = 0
    BY <1>1 DEF Known
  <2> QED BY <1>1, <2>1 DEF Place
<1>3. 2 * Len(tokens) >= k
  BY <1>1, <1>2 DEF LexInv, Counted
<1>4. ASSUME k = 2 PROVE tokens # <<>> /\ FirstWord
  BY <1>1, <1>3, <1>4 DEF LexInv
<1> QED BY <1>1, <1>3, <1>4 DEF FirstWord

-----------------------------------------------------------------------------
\* A reader that has read some bytes, from where another was.
ReadsFrom(f, s) ==
  /\ f \in [0..Len(s) -> Reader]
  /\ \A k \in 1..Len(s) : f[k] = ReadByte(f[k - 1], s[k])
Reaches(a, s, r) == \E f : ReadsFrom(f, s) /\ f[0] = a /\ f[Len(s)] = r

\* One byte.
LEMMA ReachesByte ==
  ASSUME NEW a \in Reader, NEW c \in Bytes
  PROVE  Reaches(a, <<c>>, ReadByte(a, c))
<1> DEFINE s == <<c>>
           f == [k \in 0..1 |-> IF k = 0 THEN a ELSE ReadByte(a, c)]
<1>1. Len(s) = 1 /\ s[1] = c
  OBVIOUS
<1>2. ReadByte(a, c) \in Reader
  BY ReadByteTyped
<1>3. f \in [0..1 -> Reader] /\ f[0] = a /\ f[1] = ReadByte(a, c)
  BY <1>2
<1> HIDE DEF f, s
<1>4. ASSUME NEW k \in 1..1 PROVE f[k] = ReadByte(f[k - 1], s[k])
  <2>1. k = 1 /\ k - 1 = 0
    OBVIOUS
  <2> QED BY <1>1, <1>3, <2>1
<1>5. ReadsFrom(f, s) /\ f[0] = a /\ f[Len(s)] = ReadByte(a, c)
  BY <1>1, <1>3, <1>4 DEF ReadsFrom
<1>6. Reaches(a, s, ReadByte(a, c))
  BY <1>5, Zenon DEF Reaches
<1> QED BY <1>6 DEF s

\* Some bytes and then some more.
LEMMA ReachesMore ==
  ASSUME NEW s \in Seq(Bytes), NEW t \in Seq(Bytes), NEW a, NEW b, NEW r,
         Reaches(a, s, b), Reaches(b, t, r)
  PROVE  Reaches(a, s \o t, r)
<1>1. PICK f : ReadsFrom(f, s) /\ f[0] = a /\ f[Len(s)] = b
  BY Zenon DEF Reaches
<1>2. PICK g : ReadsFrom(g, t) /\ g[0] = b /\ g[Len(t)] = r
  BY Zenon DEF Reaches
<1> DEFINE n == Len(s)
           m == Len(t)
           w == s \o t
           h == [k \in 0..n + m |-> IF k <= n THEN f[k] ELSE g[k - n]]
<1>3. /\ n \in Nat /\ m \in Nat /\ w \in Seq(Bytes) /\ Len(w) = n + m
      /\ \A k \in 1..n + m : w[k] = IF k <= n THEN s[k] ELSE t[k - n]
  BY ConcatProperties
<1>4. /\ \A k \in 0..n : f[k] \in Reader
      /\ \A k \in 0..m : g[k] \in Reader
      /\ \A k \in 1..n : f[k] = ReadByte(f[k - 1], s[k])
      /\ \A k \in 1..m : g[k] = ReadByte(g[k - 1], t[k])
      /\ f[n] = b /\ g[0] = b
  BY <1>1, <1>2 DEF ReadsFrom
<1> HIDE DEF n, m, w
<1>5. ASSUME NEW k \in 0..n + m PROVE h[k] \in Reader
  <2>1. k <= n => k \in 0..n
    BY <1>3
  <2>2. ~(k <= n) => k - n \in 0..m
    BY <1>3
  <2> QED BY <1>4, <2>1, <2>2
<1>6. ASSUME NEW k \in 1..n + m PROVE h[k] = ReadByte(h[k - 1], w[k])
  <2>1. k \in 0..n + m /\ k - 1 \in 0..n + m
    BY <1>3
  <2>2. CASE k <= n
    <3>1. k \in 1..n /\ k - 1 <= n
      BY <1>3, <2>2
    <3>2. h[k] = f[k] /\ h[k - 1] = f[k - 1] /\ w[k] = s[k]
      BY <1>3, <2>1, <2>2, <3>1
    <3> QED BY <1>4, <3>1, <3>2
  <2>3. CASE ~(k <= n)
    <3>1. k - n \in 1..m
      BY <1>3, <2>3
    <3>2. h[k] = g[k - n] /\ w[k] = t[k - n]
      BY <1>3, <2>1, <2>3
    <3>3. h[k - 1] = g[k - n - 1]
      <4>1. CASE k - 1 <= n
        <5>1. k - 1 = n /\ k - n - 1 = 0
          BY <1>3, <2>3, <4>1
        <5> QED BY <1>4, <2>1, <5>1
      <4>2. CASE ~(k - 1 <= n)
        <5>1. (k - 1) - n = k - n - 1
          BY <1>3
        <5> QED BY <2>1, <4>2, <5>1
      <4> QED BY <4>1, <4>2
    <3>4. g[k - n] = ReadByte(g[k - n - 1], t[k - n])
      BY <1>4, <3>1
    <3> QED BY <3>2, <3>3, <3>4
  <2> QED BY <2>2, <2>3
<1>7. h[0] = a
  BY <1>1, <1>3
<1>8. h[n + m] = r
  <2>1. n + m \in 0..n + m /\ (n + m <= n => m = 0 /\ n + m = n) /\ (n + m) - n = m
    BY <1>3
  <2>2. g[m] = r
    BY <1>2 DEF m
  <2>3. CASE n + m <= n
    <3>1. h[n + m] = f[n + m]
      BY <2>1, <2>3
    <3> QED BY <1>4, <2>1, <2>2, <2>3, <3>1
  <2>4. CASE ~(n + m <= n)
    BY <2>1, <2>2, <2>4
  <2> QED BY <2>3, <2>4
<1>9. h \in [0..n + m -> Reader]
  BY <1>5
<1> HIDE DEF h
<1>10. ReadsFrom(h, w) /\ h[0] = a /\ h[Len(w)] = r
  BY <1>3, <1>6, <1>7, <1>8, <1>9 DEF ReadsFrom
<1> QED BY <1>10, Zenon DEF Reaches, w

\* A reader of a line gets where it can.
LEMMA ReachesReads ==
  ASSUME NEW s \in Seq(Bytes)
  PROVE  /\ Reaches(Unread, s, Reads(s)[Len(s)])
         /\ \A r : Reaches(Unread, s, r) => r = Reads(s)[Len(s)]
<1> DEFINE R == Reads(s)
           n == Len(s)
<1>1. /\ n \in Nat /\ R[0] = Unread
      /\ \A k \in 0..n : R[k] \in Reader
      /\ \A k \in 1..n : R[k] = ReadByte(R[k - 1], s[k])
  BY ReadsIs
<1>2. Reaches(Unread, s, R[n])
  <2> DEFINE f == [k \in 0..n |-> R[k]]
  <2> HIDE DEF R
  <2>1. f \in [0..n -> Reader]
    BY <1>1
  <2>2. \A k \in 0..n : f[k] = R[k]
    OBVIOUS
  <2>3. ASSUME NEW k \in 1..n PROVE f[k] = ReadByte(f[k - 1], s[k])
    <3>1. k \in 0..n /\ k - 1 \in 0..n
      BY <1>1
    <3> QED BY <1>1, <2>2, <3>1
  <2>4. f[0] = Unread /\ f[n] = R[n]
    BY <1>1, <2>2
  <2> HIDE DEF f
  <2>5. ReadsFrom(f, s) /\ f[0] = Unread /\ f[Len(s)] = R[n]
    BY <2>1, <2>3, <2>4 DEF ReadsFrom
  <2> QED BY <2>5, Zenon DEF Reaches
<1>3. ASSUME NEW r, Reaches(Unread, s, r) PROVE r = R[n]
  <2>1. PICK f : ReadsFrom(f, s) /\ f[0] = Unread /\ f[n] = r
    BY <1>3, Zenon DEF Reaches
  <2> DEFINE same == [k \in 0..n |-> IF f[k] = R[k] THEN 1 ELSE 0]
           T == {1}
  <2> HIDE DEF R
  <2>2. 0 \in 0..n /\ n \in 0..n
    BY <1>1
  <2>3. same[0] \in T
    BY <1>1, <2>1, <2>2
  <2>4. ASSUME NEW k \in 1..n, same[k - 1] \in T PROVE same[k] \in T
    <3>1. k \in 0..n /\ k - 1 \in 0..n
      BY <1>1
    <3>2. f[k - 1] = R[k - 1]
      BY <2>4, <3>1
    <3>3. f[k] = R[k]
      BY <1>1, <2>1, <3>2 DEF ReadsFrom
    <3> QED BY <3>1, <3>3
  <2>5. same[n] \in T
    <3> HIDE DEF same, n, T
    <3>1. \A k \in 1..n : same[k - 1] \in T => same[k] \in T
      BY <2>4
    <3>2. \A k \in 0..n : same[k] \in T
      BY <1>1, <2>3, <3>1, LoopKeeps, Zenon
    <3> QED BY <2>2, <3>2
  <2>6. f[n] = R[n]
    BY <2>2, <2>5
  <2> QED BY <2>1, <2>6
<1> QED BY <1>2, <1>3

-----------------------------------------------------------------------------
\* LoopExists for every beginning and number of turns.
Loops(T) ==
  \A m \in Nat : \A b \in T, st \in [1..m -> [T -> T]] :
    \E f \in [0..m -> T] : f[0] = b /\ \A k \in 1..m : f[k] = st[k][f[k - 1]]

\* The loops of ListLemmas, in that form.
LEMMA LoopFor == ASSUME NEW T PROVE Loops(T)
BY LoopExists DEF Loops

\* Texts put one after the other.
LEMMA Joined ==
  \A a \in Seq(Bytes), b \in Seq(Bytes), c \in Seq(Bytes) :
    a \o b \in Seq(Bytes) /\ (a \o b) \o c = a \o (b \o c)
BY ConcatProperties, ConcatAssociative

\* A list that grows by pieces exists, and is a list at every turn.
Closes(T) == \A a \in T, c \in T : a \o c \in T
Grows(T, n, b, piece) ==
  /\ \E f \in [0..n -> T] : f[0] = b /\ \A k \in 1..n : f[k] = f[k - 1] \o piece[k]
  /\ \A f : f[0] = b /\ (\A k \in 1..n : f[k] = f[k - 1] \o piece[k])
       => \A k \in 0..n : f[k] \in T

\* A text put together from pieces is a text, and grows with them.
LEMMA Pieces ==
  ASSUME NEW T, Closes(T), NEW n \in Nat, NEW b \in T, NEW piece \in [1..n -> T]
  PROVE  Grows(T, n, b, piece)
<1> DEFINE step == [k \in 1..n |-> [acc \in T |-> acc \o piece[k]]]
<1>1. \A k \in 1..n : \A acc \in T : acc \o piece[k] \in T
  BY DEF Closes
<1>2. step \in [1..n -> [T -> T]]
  BY <1>1
<1>3. PICK f \in [0..n -> T] : f[0] = b /\ \A k \in 1..n : f[k] = step[k][f[k - 1]]
  <2> HIDE DEF step
  <2>1. Loops(T)
    BY LoopFor
  <2> QED BY <1>2, <2>1, Zenon DEF Loops
<1>4. \A k \in 1..n : f[k] = f[k - 1] \o piece[k]
  <2> TAKE k \in 1..n
  <2>1. f[k - 1] \in T
    BY <1>3
  <2> QED BY <1>3, <2>1
<1>5. ASSUME NEW h, h[0] = b, \A k \in 1..n : h[k] = h[k - 1] \o piece[k]
      PROVE  \A k \in 0..n : h[k] \in T
  <2>1. h[0] \in T
    BY <1>5
  <2>2. \A k \in 1..n : h[k - 1] \in T => h[k] \in T
    BY <1>1, <1>5
  <2> QED BY <2>1, <2>2, LoopKeeps, Zenon
<1> QED BY <1>3, <1>4, <1>5, Zenon DEF Grows

\* Texts of a few bytes.
LEMMA ShortTexts ==
  ASSUME NEW S
  PROVE  /\ \A a \in S, c \in S : <<a, c>> \in Seq(S) /\ <<c>> \in Seq(S)
         /\ \A a \in S, c \in S, d \in S : <<a, c, c, d>> \in Seq(S)
OBVIOUS

\* A byte is written as a text.
LEMMA EscapedTyped ==
  ASSUME NEW s \in Seq(Bytes), NEW k \in 1..Len(s)
  PROVE  Escaped(s, k) \in Seq(Bytes)
<1>1. "\\" \in Bytes /\ "b" \in Bytes /\ "1" \in Bytes
  BY DEF Bytes, PathBytes, Letters, Digits
<1>2. s[k] \in Bytes
  OBVIOUS
<1>3. /\ <<"\\", s[k]>> \in Seq(Bytes) /\ <<"\\", "b">> \in Seq(Bytes)
      /\ <<"\\", "b", "b", "1">> \in Seq(Bytes) /\ <<s[k]>> \in Seq(Bytes)
  BY <1>1, <1>2, ShortTexts, Zenon
<1> QED BY <1>3, Zenon DEF Escaped

\* What strconv.Quote writes is a text again.
LEMMA QuotedIs ==
  ASSUME NEW s \in Seq(Bytes)
  PROVE  /\ Quoted(s)[0] = <<"\"">>
         /\ \A k \in 0..Len(s) : Quoted(s)[k] \in Seq(Bytes)
         /\ \A k \in 1..Len(s) : Quoted(s)[k] = Quoted(s)[k - 1] \o Escaped(s, k)
<1> DEFINE n == Len(s)
           q == <<"\"">>
           piece == [k \in 1..n |-> Escaped(s, k)]
           Solves(f) == f = [k \in 0..n |-> IF k = 0 THEN q ELSE f[k - 1] \o Escaped(s, k)]
           T == Seq(Bytes)
<1>1. n \in Nat /\ \A k \in 1..n : s[k] \in Bytes
  OBVIOUS
<1>2. "\"" \in Bytes /\ "\\" \in Bytes
  BY DEF Bytes, PathBytes
<1>3. q \in Seq(Bytes)
  BY <1>2, ShortTexts, Zenon
<1>4. \A k \in 1..n : Escaped(s, k) \in Seq(Bytes)
  BY EscapedTyped
<1>5. piece \in [1..n -> Seq(Bytes)]
  BY <1>4
<1> DEFINE g == CHOOSE h : Solves(h)
<1>6. Quoted(s) = g
  BY DEF Quoted
<1> HIDE DEF q, n
<1>7. Grows(T, n, q, piece)
  <2>1. Closes(T)
    BY ConcatProperties DEF Closes
  <2>2. n \in Nat /\ q \in T /\ piece \in [1..n -> T]
    BY <1>1, <1>3, <1>5
  <2> HIDE DEF piece, T
  <2> QED BY <2>1, <2>2, Pieces
<1>8. PICK f \in [0..n -> T] : f[0] = q /\ \A k \in 1..n : f[k] = f[k - 1] \o piece[k]
  BY <1>7, Zenon DEF Grows
<1>9. Solves(f)
  <2>1. \A k \in 1..n : f[k] = f[k - 1] \o Escaped(s, k)
    BY <1>8
  <2> HIDE DEF T, piece
  <2>2. \A k \in 0..n : k = 0 \/ k \in 1..n
    BY <1>1
  <2>3. f[0] = q
    BY <1>8
  <2>4. \A k \in 0..n : f[k] = IF k = 0 THEN q ELSE f[k - 1] \o Escaped(s, k)
    BY <2>1, <2>2, <2>3, Zenon
  <2>5. f = [k \in 0..n |-> f[k]]
    BY Zenon
  <2> HIDE DEF Solves
  <2>6. f = [k \in 0..n |-> IF k = 0 THEN q ELSE f[k - 1] \o Escaped(s, k)]
    BY <2>4, <2>5, Zenon
  <2> QED BY <2>6, Zenon DEF Solves
<1>10. Solves(g)
  BY <1>9
<1> HIDE DEF g
<1>11. g[0] = q /\ \A k \in 1..n : g[k] = g[k - 1] \o Escaped(s, k)
  <2>1. 0 \in 0..n /\ \A k \in 1..n : k \in 0..n /\ k # 0
    BY <1>1
  <2>2. \A k \in 0..n : g[k] = IF k = 0 THEN q ELSE g[k - 1] \o Escaped(s, k)
    BY <1>10
  <2> QED BY <2>1, <2>2
<1>12. \A k \in 0..n : g[k] \in Seq(Bytes)
  <2>1. \A k \in 1..n : g[k] = g[k - 1] \o piece[k]
    BY <1>11
  <2> HIDE DEF piece
  <2> QED BY <1>7, <1>11, <2>1, Zenon DEF Grows
<1> QED BY <1>6, <1>11, <1>12, Zenon DEF n, q

\* Texts are put together in any order.
LEMMA JoinedTexts ==
  ASSUME NEW a \in Seq(Bytes), NEW b \in Seq(Bytes), NEW c \in Seq(Bytes)
  PROVE  (a \o b) \o c = a \o (b \o c)
BY ConcatAssociative

\* A text up to one more byte.
LEMMA OneMore ==
  ASSUME NEW q \in Seq(Bytes), NEW s \in Seq(Bytes), NEW k \in 1..Len(s)
  PROVE  q \o SubSeq(s, 1, k) = (q \o SubSeq(s, 1, k - 1)) \o <<s[k]>>
<1> DEFINE u == SubSeq(s, 1, k - 1)
           v == <<s[k]>>
           w == SubSeq(s, 1, k)
<1>1. u \in Seq(Bytes) /\ v \in Seq(Bytes) /\ w \in Seq(Bytes) /\ Len(w) = k /\ Len(u) = k - 1
  OBVIOUS
<1>2. w = u \o v
  <2>1. Len(u \o v) = k /\ u \o v \in Seq(Bytes)
    BY <1>1
  <2>2. \A x \in 1..k : w[x] = (u \o v)[x]
    BY <1>1
  <2> HIDE DEF u, v, w
  <2> QED BY <1>1, <2>1, <2>2
<1> HIDE DEF u, v, w
<1>3. (q \o u) \o v = q \o (u \o v)
  <2>1. u \in Seq(Bytes) /\ v \in Seq(Bytes)
    BY <1>1
  <2> QED BY <2>1, JoinedTexts, Zenon
<1> QED BY <1>2, <1>3, Zenon DEF u, v, w

\* A text that has neither quotes nor backslashes is put between quotes.
LEMMA QuoteIs ==
  ASSUME NEW s \in Seq(Bytes)
  PROVE  /\ Quote(s) \in Seq(Bytes)
         /\ Unescaped(s) => Quote(s) = (<<"\"">> \o s) \o <<"\"">>
<1> DEFINE n == Len(s)
           m == "\""
           q == <<m>>
           g == Quoted(s)
<1>0. m \in Bytes
  BY DEF Bytes
<1> HIDE DEF m
<1>1. n \in Nat /\ m \in Bytes
  BY <1>0
<1>2. /\ g[0] = q
      /\ \A k \in 0..n : g[k] \in Seq(Bytes)
      /\ \A k \in 1..n : g[k] = g[k - 1] \o Escaped(s, k)
  BY QuotedIs, Zenon DEF m
<1>3. Quote(s) = Append(g[n], m)
  BY Zenon DEF Quote, m
<1>4. q \in Seq(Bytes) /\ g[n] \in Seq(Bytes)
  BY <1>1, <1>2
<1> HIDE DEF q
<1>5. ASSUME Unescaped(s) PROVE g[n] = q \o s
  <2> DEFINE T == {1}
             same == [k \in 0..n |-> IF g[k] = q \o SubSeq(s, 1, k) THEN 1 ELSE 0]
  <2>1. ASSUME NEW k \in 1..n PROVE Escaped(s, k) = <<s[k]>>
    <3>1. k \in DOMAIN s
      OBVIOUS
    <3> QED BY <1>5, <3>1, Zenon DEF Unescaped
  <2>2. 0 \in 0..n /\ n \in 0..n
    BY <1>1
  <2> HIDE DEF g
  <2>3. same[0] \in T
    <3>1. SubSeq(s, 1, 0) = <<>> /\ q \o <<>> = q
      BY <1>4, ConcatEmptySeq
    <3> QED BY <1>2, <2>2, <3>1
  <2>4. ASSUME NEW k \in 1..n, same[k - 1] \in T PROVE same[k] \in T
    <3>1. k \in 0..n /\ k - 1 \in 0..n
      BY <1>1
    <3>2. g[k - 1] = q \o SubSeq(s, 1, k - 1)
      BY <2>4, <3>1
    <3>3. g[k] = (q \o SubSeq(s, 1, k - 1)) \o <<s[k]>>
      BY <1>2, <2>1, <3>2
    <3>4. g[k] = q \o SubSeq(s, 1, k)
      <4>1. k \in 1..Len(s) /\ s \in Seq(Bytes) /\ q \in Seq(Bytes)
        BY <1>4
      <4>2. q \o SubSeq(s, 1, k) = (q \o SubSeq(s, 1, k - 1)) \o <<s[k]>>
        BY <4>1, OneMore, Zenon
      <4> QED BY <3>3, <4>2, Zenon
    <3> QED BY <3>1, <3>4
  <2>5. same[n] \in T
    <3> HIDE DEF same, n, T
    <3>1. \A k \in 1..n : same[k - 1] \in T => same[k] \in T
      BY <2>4
    <3>2. \A k \in 0..n : same[k] \in T
      BY <1>1, <2>3, <3>1, LoopKeeps, Zenon
    <3> QED BY <2>2, <3>2
  <2>6. g[n] = q \o SubSeq(s, 1, n)
    BY <2>2, <2>5
  <2>7. SubSeq(s, 1, n) = s
    OBVIOUS
  <2> QED BY <2>6, <2>7
<1> HIDE DEF g
<1>6. Append(g[n], m) \in Seq(Bytes) /\ Append(g[n], m) = g[n] \o q
  BY <1>1, <1>4, AppendIsConcat DEF q
<1> QED BY <1>3, <1>5, <1>6 DEF q, m

\* A reader that is ready for a word.
At(o) == [mode |-> "gap", word |-> <<>>, out |-> o, odd |-> FALSE]

\* A reader between two words is a reader.
LEMMA AtTyped ==
  ASSUME NEW o \in Seq(TokenSet)
  PROVE  /\ At(o) \in Reader
         /\ At(o).mode = "gap" /\ At(o).word = <<>> /\ At(o).out = o /\ At(o).odd = FALSE
<1>1. "gap" \in Modes /\ "gap" # "word" /\ <<>> \in Seq(Bytes)
  BY DEF Modes
<1> QED BY <1>1 DEF At, Reader

\* A reader that has just read a string.
AtQuote(o) == [mode |-> "closed", word |-> <<>>, out |-> o, odd |-> FALSE]

\* It is a reader too.
LEMMA AtQuoteTyped ==
  ASSUME NEW o \in Seq(TokenSet)
  PROVE  /\ AtQuote(o) \in Reader
         /\ AtQuote(o).mode = "closed" /\ AtQuote(o).word = <<>> /\ AtQuote(o).out = o
         /\ AtQuote(o).odd = FALSE
<1>1. "closed" \in Modes /\ "closed" # "word" /\ <<>> \in Seq(Bytes)
  BY DEF Modes
<1> QED BY <1>1 DEF AtQuote, Reader

\* A reader that went on is what it went on to.
LEMMA GoesIs ==
  ASSUME NEW acc, NEW r, NEW m, NEW w, NEW o, Goes(acc, r, m, w, o)
  PROVE  r \in Reader /\ r = [mode |-> m, word |-> w, out |-> o, odd |-> acc.odd]
<1>1. r \in Reader /\ r.mode = m /\ r.word = w /\ r.out = o /\ r.odd = acc.odd
  BY Zenon DEF Goes
<1>2. r = [mode |-> r.mode, word |-> r.word, out |-> r.out, odd |-> r.odd]
  BY <1>1, ReaderIs, Zenon
<1> QED BY <1>1, <1>2, Zenon

\* Lists with the same elements are the same.
LEMMA SameList ==
  ASSUME NEW S, NEW s \in Seq(S), NEW t \in Seq(S), Len(s) = Len(t),
         \A k \in 1..Len(s) : s[k] = t[k]
  PROVE  s = t
OBVIOUS

\* Two texts of one byte.
LEMMA Pair == ASSUME NEW S, NEW a \in S, NEW c \in S PROVE <<a>> \o <<c>> = <<a, c>>
<1> DEFINE s == <<a>>
           t == <<a, c>>
           u == Append(s, c)
<1>1. s \in Seq(S) /\ Len(s) = 1
  OBVIOUS
<1>2. t \in Seq(S) /\ Len(t) = 2
  OBVIOUS
<1>3. u \in Seq(S) /\ Len(u) = Len(s) + 1
  <2> HIDE DEF s
  <2> QED BY <1>1, AppendProperties
<1>4. \A k \in 1..2 : u[k] = t[k]
  OBVIOUS
<1>5. u = s \o <<c>>
  <2> HIDE DEF s
  <2> QED BY <1>1, AppendIsConcat
<1> HIDE DEF s, t, u
<1>6. u = t
  BY <1>1, <1>2, <1>3, <1>4, SameList
<1> QED BY <1>5, <1>6 DEF s, t

\* A word of one byte and a blank are read as a token.
LEMMA ReachesWord ==
  ASSUME NEW o \in Seq(TokenSet), NEW c \in Solid
  PROVE  /\ <<c, " ">> \in Seq(Bytes)
         /\ Append(o, Token("Identifier", <<c>>)) \in Seq(TokenSet)
         /\ Reaches(At(o), <<c, " ">>, At(Append(o, Token("Identifier", <<c>>))))
<1> DEFINE a == At(o)
           b == ReadByte(a, c)
           p == Append(o, Token("Identifier", <<c>>))
<1>1. /\ c \in Letters \cup Commands
      /\ c \notin Spaces \cup Operators \cup Braces \cup {"\\", "\""}
  BY DEF Solid, Letters, Commands, Spaces, Operators, Braces
<1>2. c \in Bytes /\ " " \in Bytes /\ " " \in Spaces
  BY <1>1 DEF Bytes, Spaces
<1>3. a \in Reader /\ a.mode = "gap" /\ a.word = <<>> /\ a.out = o /\ a.odd = FALSE
  BY AtTyped
<1> HIDE DEF a
<1>4. b = InWord(a, c)
  <2>1. c \notin {"#", "$"}
    BY DEF Solid, Letters, Commands
  <2> QED BY <1>1, <1>3, <2>1 DEF ReadByte, ReadOutside
<1>5. Goes(a, b, "word", <<c>>, o)
  <2>1. Goes(a, InWord(a, c), "word", Append(a.word, c), a.out)
    BY <1>2, <1>3, InWordTyped
  <2>2. Append(<<>>, c) = <<c>>
    OBVIOUS
  <2> QED BY <1>3, <1>4, <2>1, <2>2, Zenon
<1>6. b \in Reader /\ b.mode = "word" /\ b.word = <<c>> /\ b.out = o /\ b.odd = FALSE
  BY <1>3, <1>5, Zenon DEF Goes
<1> HIDE DEF b
<1>7. ReadByte(b, " ") = Ended(b, "Identifier")
  <2>1. " " \in Spaces
    BY <1>2
  <2> DEFINE d == " "
  <2> HIDE DEF d
  <2>2. d \in Spaces => ReadByte(b, d) = Ended(b, "Identifier")
    BY <1>6, Classes DEF ReadByte, ReadOutside, Gap
  <2> QED BY <2>1, <2>2 DEF d
<1>8. "Identifier" \in Types
  BY DEF Types
<1>9. ReadByte(b, " ") = At(p) /\ At(p) \in Reader
  <2>1. Goes(b, Ended(b, "Identifier"), "gap", <<>>, p)
    <3>1. AfterToken("Identifier") = "gap"
      BY DEF AfterToken
    <3> QED BY <1>6, <1>8, <3>1, EndedTyped
  <2> HIDE DEF p
  <2>2. Ended(b, "Identifier") \in Reader /\ Ended(b, "Identifier") = At(p)
    <3> DEFINE r == Ended(b, "Identifier")
    <3>1. Goes(b, r, "gap", <<>>, p)
      BY <2>1
    <3> HIDE DEF r
    <3>2. r \in Reader /\ r = [mode |-> "gap", word |-> <<>>, out |-> p, odd |-> b.odd]
      BY <3>1, GoesIs
    <3>3. r = At(p)
      BY <1>6, <3>2, Zenon DEF At
    <3> QED BY <3>2, <3>3 DEF r
  <2> QED BY <1>7, <2>2
<1>10. p \in Seq(TokenSet)
  <2>1. At(p).out = p
    BY DEF At
  <2> QED BY <1>9, <2>1, ReaderIs, Zenon
<1> HIDE DEF p
<1>11. Reaches(a, <<c>>, b) /\ Reaches(b, <<" ">>, At(p))
  <2>1. Reaches(a, <<c>>, ReadByte(a, c)) /\ Reaches(b, <<" ">>, ReadByte(b, " "))
    BY <1>2, <1>3, <1>6, ReachesByte
  <2> QED BY <1>9, <2>1, Zenon DEF b
<1>12. <<c>> \in Seq(Bytes) /\ <<" ">> \in Seq(Bytes) /\ <<c, " ">> \in Seq(Bytes)
  BY <1>2, ShortTexts, Zenon
<1>13. <<c>> \o <<" ">> = <<c, " ">>
  BY <1>2, Pair, Zenon
<1>14. Reaches(a, <<c, " ">>, At(p))
  BY <1>11, <1>12, <1>13, ReachesMore, Zenon
<1> QED BY <1>10, <1>12, <1>14 DEF a, p

\* A blank after a string is read as nothing.
LEMMA ReachesBlank ==
  ASSUME NEW o \in Seq(TokenSet)
  PROVE  <<" ">> \in Seq(Bytes) /\ Reaches(AtQuote(o), <<" ">>, At(o))
<1> DEFINE a == AtQuote(o)
<1>1. a \in Reader /\ a.mode = "closed" /\ a.word = <<>> /\ a.out = o /\ a.odd = FALSE
  BY AtQuoteTyped
<1>2. " " \in Bytes /\ " " \in Spaces
  BY DEF Bytes, Spaces
<1>3. ReadByte(a, " ") = At(o)
  <2> DEFINE d == " "
  <2>1. At(o) = Now(a, "gap", a.word, a.out)
    BY DEF Now, At, AtQuote
  <2> HIDE DEF d, a
  <2>2. d \in Spaces => ReadByte(a, d) = At(o)
    BY <1>1, <2>1, Classes DEF ReadByte, ReadOutside, Gap
  <2> QED BY <1>2, <2>2 DEF d
<1> HIDE DEF a
<1>4. Reaches(a, <<" ">>, ReadByte(a, " "))
  BY <1>1, <1>2, ReachesByte
<1>5. <<" ">> \in Seq(Bytes)
  BY <1>2, ShortTexts, Zenon
<1> QED BY <1>3, <1>4, <1>5, Zenon DEF a

\* A text grows byte by byte.
Spelled(s) ==
  /\ Len(s) \in Nat /\ 0 \in 0..Len(s) /\ Len(s) \in 0..Len(s)
  /\ SubSeq(s, 1, 0) = <<>> /\ SubSeq(s, 1, Len(s)) = s
  /\ \A k \in 0..Len(s) : SubSeq(s, 1, k) \in Seq(Bytes)
  /\ \A k \in 1..Len(s) :
       /\ k \in 0..Len(s) /\ k - 1 \in 0..Len(s) /\ s[k] \in Bytes
       /\ SubSeq(s, 1, k) = Append(SubSeq(s, 1, k - 1), s[k])

\* Every text is the bytes that make it, one after the other.
LEMMA SpelledOut == ASSUME NEW s \in Seq(Bytes) PROVE Spelled(s)
<1>1. Len(s) \in Nat
  OBVIOUS
<1>2. SubSeq(s, 1, 0) = <<>> /\ SubSeq(s, 1, Len(s)) = s
  OBVIOUS
<1>3. \A k \in 0..Len(s) : SubSeq(s, 1, k) \in Seq(Bytes)
  OBVIOUS
<1>4. ASSUME NEW k \in 1..Len(s)
      PROVE  /\ k \in 0..Len(s) /\ k - 1 \in 0..Len(s) /\ s[k] \in Bytes
             /\ SubSeq(s, 1, k) = Append(SubSeq(s, 1, k - 1), s[k])
  OBVIOUS
<1> QED BY <1>1, <1>2, <1>3, <1>4 DEF Spelled

\* What a text has that strconv.Quote leaves alone.
LEMMA UnescapedBytes ==
  ASSUME NEW s \in Seq(Bytes), Unescaped(s), NEW k \in 1..Len(s)
  PROVE  s[k] # "\"" /\ s[k] # "\\"
<1>1. k \in DOMAIN s
  OBVIOUS
<1>2. Escaped(s, k) = <<s[k]>>
  BY <1>1, Zenon DEF Unescaped
<1>3. s[k] \in {"\"", "\\"} => Escaped(s, k) = <<"\\", s[k]>>
  BY DEF Escaped, Accents
<1>4. \A a, c : <<a, c>> # <<c>>
  OBVIOUS
<1>5. s[k] \notin {"\"", "\\"}
  BY <1>2, <1>3, <1>4, Zenon
<1> QED BY <1>5

\* A reader in a string.
Within(w, o) == [mode |-> "string", word |-> w, out |-> o, odd |-> FALSE]

\* Any byte but a quote is one more of the string.
LEMMA WithinReads ==
  ASSUME NEW w \in Seq(Bytes), NEW o \in Seq(TokenSet), NEW c \in Bytes
  PROVE  /\ Within(w, o) \in Reader
         /\ c # "\"" => ReadByte(Within(w, o), c) = Within(Append(w, c), o)
         /\ ReadByte(Within(w, o), "\"") = AtQuote(Append(o, Token("String", w)))
         /\ ReadByte(At(o), "\"") = Within(<<>>, o)
<1> DEFINE a == Within(w, o)
<1>1. "string" \in Modes \ Between /\ "string" # "word"
  BY DEF Modes, Between
<1>2. a \in Reader
  BY <1>1 DEF Within, Reader
<1>3. a.mode = "string" /\ a.word = w /\ a.out = o /\ a.odd = FALSE
  BY DEF Within
<1>4. Now(a, "string", Append(w, c), o) = Within(Append(w, c), o)
  BY DEF Within, Now
<1>5. Ended(a, "String") = AtQuote(Append(o, Token("String", w)))
  BY DEF Within, Now, Ended, AfterToken, AtQuote
<1>6. Now(At(o), "string", <<>>, o) = Within(<<>>, o)
  BY DEF Within, Now, At
<1> HIDE DEF a
<1>7. c # "\"" => ReadByte(a, c) = Within(Append(w, c), o)
  BY <1>3, <1>4 DEF ReadByte
<1>8. ReadByte(a, "\"") = AtQuote(Append(o, Token("String", w)))
  BY <1>3, <1>5 DEF ReadByte
<1>9. ReadByte(At(o), "\"") = Within(<<>>, o)
  <2>1. At(o).mode = "gap" /\ At(o).word = <<>> /\ At(o).out = o
    BY AtTyped
  <2> DEFINE b == At(o)
  <2> HIDE DEF b
  <2>2. ReadByte(b, "\"") = Now(b, "string", b.word, b.out)
    BY <2>1, Classes DEF ReadByte, ReadOutside, b
  <2> QED BY <1>6, <2>1, <2>2 DEF b
<1> QED BY <1>2, <1>7, <1>8, <1>9 DEF a

\* The bytes of a string, none of which ends it.
LEMMA ReachesInside ==
  ASSUME NEW s \in Seq(Bytes), Unescaped(s), NEW o \in Seq(TokenSet)
  PROVE  Reaches(Within(<<>>, o), s, Within(s, o))
<1> DEFINE n == Len(s)
           f == [k \in 0..n |-> Within(SubSeq(s, 1, k), o)]
<1>0. /\ 0 \in 0..n /\ n \in 0..n /\ SubSeq(s, 1, 0) = <<>> /\ SubSeq(s, 1, n) = s
      /\ \A k \in 0..n : SubSeq(s, 1, k) \in Seq(Bytes)
      /\ \A k \in 1..n :
              /\ k \in 0..n /\ k - 1 \in 0..n /\ s[k] \in Bytes
              /\ SubSeq(s, 1, k) = Append(SubSeq(s, 1, k - 1), s[k])
  <2>1. Spelled(s)
    BY SpelledOut
  <2> QED BY <2>1 DEF Spelled
<1>1. f[0] = Within(<<>>, o) /\ f[n] = Within(s, o)
  BY <1>0
<1>2. f \in [0..n -> Reader]
  <2>1. \A k \in 0..n : SubSeq(s, 1, k) \in Seq(Bytes)
    BY <1>0
  <2>2. "a" \in Bytes
    BY DEF Bytes, Letters
  <2>3. \A k \in 0..n : Within(SubSeq(s, 1, k), o) \in Reader
    BY <2>1, <2>2, WithinReads
  <2> QED BY <2>3
<1>3. ASSUME NEW k \in 1..n PROVE f[k] = ReadByte(f[k - 1], s[k])
  <2> DEFINE w == SubSeq(s, 1, k - 1)
             c == s[k]
  <2>1. /\ k \in 0..n /\ k - 1 \in 0..n /\ c \in Bytes /\ w \in Seq(Bytes)
        /\ SubSeq(s, 1, k) = Append(w, c)
    BY <1>0
  <2>2. f[k] = Within(SubSeq(s, 1, k), o) /\ f[k - 1] = Within(w, o)
    BY <2>1
  <2>3. c # "\""
    BY UnescapedBytes
  <2> HIDE DEF w, c, f
  <2>4. ReadByte(Within(w, o), c) = Within(Append(w, c), o)
    BY <2>1, <2>3, WithinReads
  <2> QED BY <2>1, <2>2, <2>4 DEF c
<1> HIDE DEF f
<1>4. ReadsFrom(f, s)
  BY <1>2, <1>3 DEF ReadsFrom
<1> QED BY <1>1, <1>4, Zenon DEF Reaches

\* A text in quotes is read as a string.
LEMMA ReachesQuote ==
  ASSUME NEW s \in Seq(Bytes), Unescaped(s), NEW o \in Seq(TokenSet)
  PROVE  /\ Append(o, Token("String", s)) \in Seq(TokenSet)
         /\ Reaches(At(o), Quote(s), AtQuote(Append(o, Token("String", s))))
<1> DEFINE m == "\""
           p == Append(o, Token("String", s))
<1>0. m \in Bytes
  BY DEF Bytes
<1> HIDE DEF m
<1>1. m \in Bytes /\ <<>> \in Seq(Bytes)
  BY <1>0
<1>2. Within(<<>>, o) \in Reader /\ Within(s, o) \in Reader /\ At(o) \in Reader
  BY <1>1, WithinReads, AtTyped
<1>3. ReadByte(At(o), m) = Within(<<>>, o) /\ ReadByte(Within(s, o), m) = AtQuote(p)
  BY <1>1, WithinReads DEF m
<1>4. p \in Seq(TokenSet)
  <2>1. "String" \in Types
    BY DEF Types
  <2> QED BY <2>1, TokenTyped, Grown
<1>5. Quote(s) = (<<m>> \o s) \o <<m>>
  BY QuoteIs DEF m
<1> HIDE DEF p
<1>6. Reaches(At(o), <<m>>, Within(<<>>, o)) /\ Reaches(Within(s, o), <<m>>, AtQuote(p))
  <2>1. /\ Reaches(At(o), <<m>>, ReadByte(At(o), m))
        /\ Reaches(Within(s, o), <<m>>, ReadByte(Within(s, o), m))
    BY <1>1, <1>2, ReachesByte
  <2> QED BY <1>3, <2>1, Zenon
<1>7. Reaches(Within(<<>>, o), s, Within(s, o))
  BY ReachesInside
<1>8. <<m>> \in Seq(Bytes) /\ <<m>> \o s \in Seq(Bytes)
  <2>1. <<m>> \in Seq(Bytes)
    BY <1>1
  <2> QED BY <2>1, ConcatProperties
<1>9. Reaches(At(o), <<m>> \o s, Within(s, o))
  BY <1>6, <1>7, <1>8, ReachesMore, Zenon
<1>10. Reaches(At(o), (<<m>> \o s) \o <<m>>, AtQuote(p))
  BY <1>6, <1>8, <1>9, ReachesMore, Zenon
<1> QED BY <1>4, <1>5, <1>10, Zenon DEF p

-----------------------------------------------------------------------------
(* A reader that begins with words behind it reads on as one that has      *)
(* none.                                                                   *)

\* A reader that had read some tokens before.
Shift(o, acc) ==
  [mode |-> acc.mode, word |-> acc.word, out |-> o \o acc.out, odd |-> acc.odd]

\* A list that is not empty has a last element, and those before it.
LEMMA Parted ==
  ASSUME NEW p \in Seq(TokenSet), Len(p) > 0
  PROVE  Front(p) \in Seq(TokenSet) /\ p[Len(p)] \in TokenSet /\ p = Append(Front(p), p[Len(p)])
<1> DEFINE f == Front(p)
           x == p[Len(p)]
<1>1. Len(p) \in 1..Len(p) /\ 1 \in 1..Len(p) /\ x \in TokenSet
  OBVIOUS
<1>2. f \in Seq(TokenSet)
  BY FrontInSeq
<1>3. p = SubSeq(p, 1, Len(p)) /\ f = SubSeq(p, 1, Len(p) - 1)
  BY SubSeqFull DEF Front
<1>4. SubSeq(p, 1, Len(p)) = SubSeq(p, 1, Len(p) - 1) \o <<x>>
  BY <1>1, SubSeqRecursiveSecond
<1> HIDE DEF f, x
<1>5. Append(f, x) = f \o <<x>>
  BY <1>1, <1>2, AppendIsConcat
<1>6. p = Append(f, x)
  BY <1>3, <1>4, <1>5
<1> QED BY <1>1, <1>2, <1>6 DEF x, f

\* What comes after a list is put after it.
LEMMA ConcatAppend ==
  ASSUME NEW o \in Seq(TokenSet), NEW p \in Seq(TokenSet), NEW t \in TokenSet
  PROVE  /\ o \o p \in Seq(TokenSet) /\ o \o Append(p, t) = Append(o \o p, t)
         /\ p # <<>> => Front(o \o p) = o \o Front(p)
<1>1. o \o p \in Seq(TokenSet) /\ <<t>> \in Seq(TokenSet)
  BY ConcatProperties
<1>2. Append(p, t) = p \o <<t>> /\ Append(o \o p, t) = (o \o p) \o <<t>>
  BY <1>1, AppendIsConcat
<1>3. (o \o p) \o <<t>> = o \o (p \o <<t>>)
  BY <1>1, ConcatAssociative
<1>4. ASSUME p # <<>> PROVE Front(o \o p) = o \o Front(p)
  <2> DEFINE f == Front(p)
             x == p[Len(p)]
  <2>1. f \in Seq(TokenSet) /\ p = Append(f, x) /\ x \in TokenSet
    <3>1. Len(p) > 0
      BY <1>4
    <3> QED BY <3>1, Parted
  <2> HIDE DEF f, x
  <2>2. o \o f \in Seq(TokenSet) /\ <<x>> \in Seq(TokenSet) /\ f \o <<x>> = Append(f, x)
    BY <2>1, ConcatProperties, AppendIsConcat
  <2>3. o \o (f \o <<x>>) = (o \o f) \o <<x>>
    BY <2>1, <2>2, ConcatAssociative
  <2>4. (o \o f) \o <<x>> = Append(o \o f, x)
    BY <2>1, <2>2, AppendIsConcat
  <2>5. Front(Append(o \o f, x)) = o \o f
    BY <2>1, <2>2, Grown
  <2>6. o \o p = Append(o \o f, x)
    BY <2>1, <2>2, <2>3, <2>4
  <2>7. Front(o \o p) = o \o f
    BY <2>5, <2>6
  <2> QED BY <2>7 DEF f
<1> QED BY <1>1, <1>2, <1>3, <1>4

\* What was read before does not make it less of a reader.
LEMMA ShiftTyped ==
  ASSUME NEW o \in Seq(TokenSet), NEW acc \in Reader
  PROVE  /\ Shift(o, acc) \in Reader
         /\ Shift(o, acc).mode = acc.mode /\ Shift(o, acc).word = acc.word
         /\ Shift(o, acc).out = o \o acc.out /\ Shift(o, acc).odd = acc.odd
<1> DEFINE p == o \o acc.out
<1>1. p \in Seq(TokenSet)
  BY ReaderIs, ConcatProperties
<1> HIDE DEF p
<1>2. [mode |-> acc.mode, word |-> acc.word, out |-> p, odd |-> acc.odd] \in Reader
  BY <1>1, ReaderIs DEF Reader
<1> QED BY <1>2 DEF Shift, p

\* It goes on in the same way.
LEMMA ShiftNow ==
  ASSUME NEW o, NEW acc, NEW m, NEW w, NEW p
  PROVE  Now(Shift(o, acc), m, w, o \o p) = Shift(o, Now(acc, m, w, p))
BY DEF Now, Shift

\* A reader of an odd line is the same but for that.
LEMMA OddIs ==
  ASSUME NEW acc \in Reader
  PROVE  Odd(acc) = [mode |-> acc.mode, word |-> acc.word, out |-> acc.out, odd |-> TRUE]
<1>1. /\ Odd(acc) \in Reader /\ Odd(acc).mode = acc.mode /\ Odd(acc).word = acc.word
      /\ Odd(acc).out = acc.out /\ Odd(acc).odd = TRUE
  BY ReaderIs DEF Odd, Reader
<1> QED BY <1>1, ReaderIs

\* The reader that has more behind it takes each step as the one that has not.
LEMMA ShiftOdd ==
  ASSUME NEW o \in Seq(TokenSet), NEW acc \in Reader
  PROVE  Odd(Shift(o, acc)) = Shift(o, Odd(acc))
<1>1. Odd(acc) = [mode |-> acc.mode, word |-> acc.word, out |-> acc.out, odd |-> TRUE]
  BY OddIs
<1>2. /\ Shift(o, acc) \in Reader
      /\ Shift(o, acc).mode = acc.mode /\ Shift(o, acc).word = acc.word
      /\ Shift(o, acc).out = o \o acc.out
  BY ShiftTyped
<1>3. Odd(Shift(o, acc))
        = [mode |-> acc.mode, word |-> acc.word, out |-> o \o acc.out, odd |-> TRUE]
  BY <1>2, OddIs
<1> QED BY <1>1, <1>3 DEF Shift

\* It ends a word alike,
LEMMA ShiftEnded ==
  ASSUME NEW o \in Seq(TokenSet), NEW acc \in Reader, NEW type \in Types
  PROVE  Ended(Shift(o, acc), type) = Shift(o, Ended(acc, type))
<1> DEFINE b == Shift(o, acc)
           t == Token(type, acc.word)
<1>1. b.word = acc.word /\ b.out = o \o acc.out
  BY ShiftTyped
<1>2. acc.out \in Seq(TokenSet) /\ t \in TokenSet
  BY ReaderIs, TokenTyped
<1> HIDE DEF t
<1>3. Append(o \o acc.out, t) = o \o Append(acc.out, t)
  BY <1>2, ConcatAppend
<1>4. Ended(b, type) = Now(b, AfterToken(type), <<>>, o \o Append(acc.out, t))
  BY <1>1, <1>3 DEF Ended, t
<1>5. Ended(acc, type) = Now(acc, AfterToken(type), <<>>, Append(acc.out, t))
  BY DEF Ended, t
<1> QED BY <1>4, <1>5, ShiftNow

\* comes to a gap alike,
LEMMA ShiftGap ==
  ASSUME NEW o \in Seq(TokenSet), NEW acc \in Reader
  PROVE  Gap(Shift(o, acc)) = Shift(o, Gap(acc))
<1>1. /\ Shift(o, acc).mode = acc.mode /\ Shift(o, acc).word = acc.word
      /\ Shift(o, acc).out = o \o acc.out
  BY ShiftTyped
<1>2. "Identifier" \in Types
  BY DEF Types
<1>3. Ended(Shift(o, acc), "Identifier") = Shift(o, Ended(acc, "Identifier"))
  BY <1>2, ShiftEnded
<1>4. Now(Shift(o, acc), "gap", acc.word, o \o acc.out)
        = Shift(o, Now(acc, "gap", acc.word, acc.out))
  BY ShiftNow
<1> QED BY <1>1, <1>3, <1>4 DEF Gap

\* reads an operator alike,
LEMMA ShiftOperator ==
  ASSUME NEW o \in Seq(TokenSet), NEW acc \in Reader, acc.mode = "angle" => acc.out # <<>>,
         acc.mode \in Between \cup {"word"}, NEW c \in Operators
  PROVE  /\ ReadOperator(Shift(o, acc), c) = Shift(o, ReadOperator(acc, c))
         /\ ReadOperator(acc, c).mode = "angle" => ReadOperator(acc, c).out # <<>>
<1> DEFINE b == Shift(o, acc)
           m == IF c = ">" THEN "angle" ELSE "operator"
           one == Token("Operator", <<c>>)
           two == Token("Operator", <<c, c>>)
<1>1. b \in Reader /\ b.mode = acc.mode /\ b.word = acc.word /\ b.out = o \o acc.out
  BY ShiftTyped
<1>2. one \in TokenSet /\ two \in TokenSet
  <2>1. c \in Bytes /\ "Operator" \in Types
    BY DEF Bytes, Types
  <2>2. <<c>> \in Seq(Bytes) /\ <<c, c>> \in Seq(Bytes)
    BY <2>1, ShortTexts, Zenon
  <2> QED BY <2>1, <2>2, TokenTyped
<1>3. acc.out \in Seq(TokenSet)
  BY ReaderIs
<1>4. Gap(acc) \in Reader /\ Gap(acc).out \in Seq(TokenSet)
  <2>1. Gap(acc) \in Reader
    BY GapTyped, Zenon DEF Goes
  <2> QED BY <2>1, ReaderIs
<1>5. Gap(b).out = o \o Gap(acc).out
  <2>1. Gap(b) = Shift(o, Gap(acc))
    BY ShiftGap, Zenon
  <2>2. Shift(o, Gap(acc)).out = o \o Gap(acc).out
    BY <1>4, ShiftTyped, Zenon
  <2> QED BY <2>1, <2>2, Zenon
<1> HIDE DEF m, b, one, two
<1>6. CASE acc.mode = "angle" /\ c = ">"
  <2>1. Front(o \o acc.out) = o \o Front(acc.out)
    BY <1>3, <1>6, ConcatAppend
  <2>2. Front(acc.out) \in Seq(TokenSet)
    BY <1>3, FrontInSeq
  <2>3. Append(o \o Front(acc.out), two) = o \o Append(Front(acc.out), two)
    BY <1>2, <2>2, ConcatAppend
  <2>4. ReadOperator(b, c) = Now(b, "operator", <<>>, o \o Append(Front(acc.out), two))
    BY <1>1, <1>6, <2>1, <2>3 DEF ReadOperator, two
  <2>5. ReadOperator(acc, c) = Now(acc, "operator", <<>>, Append(Front(acc.out), two))
    BY <1>6 DEF ReadOperator, two
  <2>6. ReadOperator(acc, c).mode # "angle"
    BY <2>5 DEF Now
  <2> QED BY <2>4, <2>5, <2>6, ShiftNow DEF b
<1>7. CASE acc.mode = "operator" \/ (acc.mode = "angle" /\ c # ">")
  <2>1. ReadOperator(b, c) = Odd(b) /\ ReadOperator(acc, c) = Odd(acc)
    BY <1>1, <1>7 DEF ReadOperator
  <2>2. Odd(acc).mode = acc.mode /\ Odd(acc).out = acc.out
    BY OddIs
  <2> QED BY <2>1, <2>2, ShiftOdd DEF b
<1>8. CASE acc.mode \in {"gap", "closed", "word"}
  <2>1. ReadOperator(b, c) = Now(b, m, <<>>, Append(Gap(b).out, one))
    BY <1>1, <1>8 DEF ReadOperator, one, m
  <2>2. ReadOperator(acc, c) = Now(acc, m, <<>>, Append(Gap(acc).out, one))
    BY <1>8 DEF ReadOperator, one, m
  <2>3. Append(o \o Gap(acc).out, one) = o \o Append(Gap(acc).out, one)
    BY <1>2, <1>4, ConcatAppend
  <2>4. Append(Gap(acc).out, one) # <<>>
    BY <1>2, <1>4, Grown
  <2>5. ReadOperator(acc, c).out = Append(Gap(acc).out, one)
    BY <2>2 DEF Now
  <2>6. Now(b, m, <<>>, o \o Append(Gap(acc).out, one))
          = Shift(o, Now(acc, m, <<>>, Append(Gap(acc).out, one)))
    BY ShiftNow DEF b
  <2> QED BY <1>5, <2>1, <2>2, <2>3, <2>4, <2>5, <2>6 DEF b
<1> QED BY <1>6, <1>7, <1>8 DEF Between

\* So it reads on in the same way, unless it waits for a second ">" after a first that
\* it has not read.
Anchored(acc) == acc.mode = "angle" => acc.out # <<>>
Shifted(o, r, acc) == r = Shift(o, acc) /\ Anchored(acc)

\* and any byte, if it looks back no further than it has read.
LEMMA ShiftReads ==
  ASSUME NEW o \in Seq(TokenSet), NEW acc \in Reader, Anchored(acc), NEW c \in Bytes
  PROVE  Shifted(o, ReadByte(Shift(o, acc), c), ReadByte(acc, c))
<1> DEFINE b == Shift(o, acc)
           r == ReadByte(acc, c)
           s == ReadByte(b, c)
<1>1. b \in Reader /\ b.mode = acc.mode /\ b.word = acc.word /\ b.out = o \o acc.out
  BY ShiftTyped
<1>2. ASSUME NEW m, NEW w, m # "angle"
      PROVE  Shifted(o, Now(b, m, w, b.out), Now(acc, m, w, acc.out))
  <2>1. Now(b, m, w, o \o acc.out) = Shift(o, Now(acc, m, w, acc.out))
    BY ShiftNow
  <2>2. Now(acc, m, w, acc.out).mode # "angle"
    BY <1>2 DEF Now
  <2> HIDE DEF b
  <2> QED BY <1>1, <2>1, <2>2 DEF Shifted, Anchored
<1>3. Shifted(o, InWord(b, c), InWord(acc, c))
  <2> HIDE DEF b
  <2> QED BY <1>1, <1>2 DEF InWord
<1>4. Shifted(o, Odd(b), Odd(acc))
  <2>1. Odd(b) = Shift(o, Odd(acc)) /\ Odd(acc).mode = acc.mode /\ Odd(acc).out = acc.out
    BY ShiftOdd, OddIs
  <2> QED BY <2>1 DEF Shifted, Anchored
<1>5. Shifted(o, Ended(b, "String"), Ended(acc, "String"))
  <2>1. "String" \in Types
    BY DEF Types
  <2>2. Ended(b, "String") = Shift(o, Ended(acc, "String"))
    BY <2>1, ShiftEnded
  <2>3. Ended(acc, "String").mode = "closed"
    BY DEF Ended, AfterToken, Now
  <2> QED BY <2>2, <2>3 DEF Shifted, Anchored
<1>6. Shifted(o, Gap(b), Gap(acc))
  <2>1. Gap(b) = Shift(o, Gap(acc))
    BY ShiftGap
  <2>2. Gap(acc).mode = "gap"
    BY DEF Gap, Ended, AfterToken, Now
  <2> QED BY <2>1, <2>2 DEF Shifted, Anchored
<1> HIDE DEF b
<1>7. CASE acc.mode = "string"
  <2>1. \/ s = Ended(b, "String") /\ r = Ended(acc, "String")
        \/ s = Now(b, "string", Append(b.word, c), b.out)
             /\ r = Now(acc, "string", Append(acc.word, c), acc.out)
    BY <1>1, <1>7 DEF ReadByte
  <2> HIDE DEF r, s
  <2>2. Shifted(o, s, r)
    BY <1>1, <1>2, <1>5, <2>1
  <2> QED BY <2>2 DEF r, s, b
<1>8. CASE acc.mode = "escape"
  <2>1. (s = InWord(b, c) /\ r = InWord(acc, c)) \/ (s = Odd(b) /\ r = Odd(acc))
    BY <1>1, <1>8 DEF ReadByte
  <2> HIDE DEF r, s
  <2>2. Shifted(o, s, r)
    BY <1>3, <1>4, <2>1
  <2> QED BY <2>2 DEF r, s, b
<1>9. CASE acc.mode \in Between \cup {"word"}
  <2>1. s = ReadOutside(b, c) /\ r = ReadOutside(acc, c)
    BY <1>1, <1>9 DEF ReadByte, Between
  <2> HIDE DEF r, s
  <2>2. CASE c \in Spaces
    <3>1. s = Gap(b) /\ r = Gap(acc)
      BY <2>1, <2>2, Classes DEF ReadOutside
    <3> QED BY <1>6, <3>1 DEF r, s, b
  <2>3. CASE c \in Operators
    <3>1. s = ReadOperator(b, c) /\ r = ReadOperator(acc, c)
      BY <2>1, <2>3, Classes DEF ReadOutside
    <3>2. /\ ReadOperator(b, c) = Shift(o, ReadOperator(acc, c))
          /\ ReadOperator(acc, c).mode = "angle" => ReadOperator(acc, c).out # <<>>
      BY <1>9, <2>3, ShiftOperator DEF Anchored, b
    <3>3. Shifted(o, s, r)
      BY <3>1, <3>2 DEF Shifted, Anchored
    <3> QED BY <3>3 DEF r, s, b
  <2>4. CASE c \notin Spaces /\ c \notin Operators
    <3> DEFINE Escape == c = "\\" /\ acc.mode # "closed"
               Opening == c = "\"" /\ acc.mode \notin {"word", "closed"}
    <3>1. \/ s = InWord(b, c) /\ r = InWord(acc, c)
          \/ s = Odd(b) /\ r = Odd(acc)
          \/ s = Now(b, "escape", b.word, b.out) /\ r = Now(acc, "escape", acc.word, acc.out)
          \/ s = Now(b, "string", b.word, b.out) /\ r = Now(acc, "string", acc.word, acc.out)
      <4>1. CASE Escape
        BY <1>1, <2>1, <2>4, <4>1 DEF ReadOutside
      <4>2. CASE Opening
        BY <1>1, <2>1, <2>4, <4>2, Classes DEF ReadOutside
      <4>3. CASE ~Escape /\ ~Opening /\ InsideWord(acc, c)
        BY <1>1, <2>1, <2>4, <4>3 DEF ReadOutside, InsideWord
      <4>4. CASE ~Escape /\ ~Opening /\ ~InsideWord(acc, c)
        BY <1>1, <2>1, <2>4, <4>4 DEF ReadOutside, InsideWord
      <4> QED BY <4>1, <4>2, <4>3, <4>4
    <3>2. Shifted(o, s, r)
      BY <1>1, <1>2, <1>3, <1>4, <3>1
    <3> QED BY <3>2 DEF r, s, b
  <2> QED BY <2>2, <2>3, <2>4
<1>10. acc.mode \in Modes
  BY ReaderIs
<1> QED BY <1>7, <1>8, <1>9, <1>10 DEF Modes, Between

\* At the end of the text it has the same words, after those there were.
LEMMA ShiftClosed ==
  ASSUME NEW o \in Seq(TokenSet), NEW acc \in Reader
  PROVE  Closed(Shift(o, acc)) = Shift(o, Closed(acc))
<1> DEFINE b == Shift(o, acc)
<1>1. b.mode = acc.mode
  BY ShiftTyped
<1>2. Odd(b) = Shift(o, Odd(acc)) /\ Gap(b) = Shift(o, Gap(acc))
  BY ShiftOdd, ShiftGap
<1>3. Ended(b, "String") = Shift(o, Ended(acc, "String"))
  <2>1. "String" \in Types
    BY DEF Types
  <2> QED BY <2>1, ShiftEnded
<1> HIDE DEF b
<1>4. CASE acc.mode = "escape"
  BY <1>1, <1>2, <1>4 DEF Closed, b
<1>5. CASE acc.mode = "string"
  BY <1>1, <1>3, <1>5 DEF Closed, b
<1>6. CASE acc.mode # "escape" /\ acc.mode # "string"
  BY <1>1, <1>2, <1>6 DEF Closed, b
<1> QED BY <1>4, <1>5, <1>6

\* So a text is read after others as it is read alone.
LEMMA ReachesShift ==
  ASSUME NEW o \in Seq(TokenSet), NEW a \in Reader, Anchored(a), NEW s \in Seq(Bytes), NEW r,
         Reaches(a, s, r)
  PROVE  Reaches(Shift(o, a), s, Shift(o, r)) /\ r \in Reader
<1>1. PICK f : ReadsFrom(f, s) /\ f[0] = a /\ f[Len(s)] = r
  BY Zenon DEF Reaches
<1> DEFINE n == Len(s)
           T == {acc \in Reader : Anchored(acc)}
           g == [k \in 0..n |-> Shift(o, f[k])]
<1>2. n \in Nat /\ 0 \in 0..n /\ n \in 0..n
      /\ \A k \in 1..n : k \in 0..n /\ k - 1 \in 0..n /\ s[k] \in Bytes
  <2>1. Spelled(s)
    BY SpelledOut
  <2> QED BY <2>1 DEF Spelled
<1>3. /\ f \in [0..n -> Reader]
      /\ \A k \in 1..n : f[k] = ReadByte(f[k - 1], s[k])
  BY <1>1 DEF ReadsFrom
<1>4. ASSUME NEW k \in 1..n, f[k - 1] \in T
      PROVE  f[k] \in T /\ ReadByte(Shift(o, f[k - 1]), s[k]) = Shift(o, f[k])
  <2>1. f[k - 1] \in Reader /\ Anchored(f[k - 1]) /\ s[k] \in Bytes /\ f[k] \in Reader
    BY <1>2, <1>3, <1>4
  <2> DEFINE b == f[k - 1]
             c == s[k]
  <2> HIDE DEF b, c
  <2>2. Shifted(o, ReadByte(Shift(o, b), c), ReadByte(b, c))
    BY <2>1, ShiftReads DEF b, c
  <2>3. ReadByte(Shift(o, b), c) = Shift(o, ReadByte(b, c)) /\ Anchored(ReadByte(b, c))
    BY <2>2 DEF Shifted
  <2>4. ReadByte(b, c) = f[k]
    BY <1>3 DEF b, c
  <2> QED BY <2>1, <2>3, <2>4 DEF b, c
<1>5. \A k \in 0..n : f[k] \in T
  <2>1. f[0] \in T
    BY <1>1
  <2>2. \A k \in 1..n : f[k - 1] \in T => f[k] \in T
    BY <1>4
  <2> HIDE DEF n, T
  <2> QED BY <1>2, <2>1, <2>2, LoopKeeps, Zenon
<1>6. g \in [0..n -> Reader]
  <2>1. \A k \in 0..n : Shift(o, f[k]) \in Reader
    BY <1>3, ShiftTyped
  <2> QED BY <2>1
<1>7. ASSUME NEW k \in 1..n PROVE g[k] = ReadByte(g[k - 1], s[k])
  <2>1. f[k - 1] \in T
    BY <1>2, <1>5
  <2>2. g[k] = Shift(o, f[k]) /\ g[k - 1] = Shift(o, f[k - 1])
    BY <1>2
  <2> HIDE DEF T, g
  <2> QED BY <1>4, <2>1, <2>2
<1>8. g[0] = Shift(o, a) /\ g[n] = Shift(o, r) /\ r \in Reader
  BY <1>1, <1>2, <1>3
<1> HIDE DEF g
<1>9. ReadsFrom(g, s)
  BY <1>6, <1>7 DEF ReadsFrom
<1> QED BY <1>8, <1>9, Zenon DEF Reaches

\* A name that is one word is one after whatever was read before.
Read(r, out) == r \in Reader /\ ~Closed(r).odd /\ Closed(r).out = out

\* A name that is one word is that word wherever a gap is before it.
LEMMA ReachesName ==
  ASSUME NEW s \in Seq(Bytes), OneWord(s), NEW o \in Seq(TokenSet)
  PROVE  \E r : Reaches(At(o), s, r) /\ Read(r, Append(o, Token("Identifier", s)))
<1> DEFINE a == At(<<>>)
           p == Reads(s)[Len(s)]
           t == Token("Identifier", s)
           r == Shift(o, p)
<1>1. a \in Reader /\ a.mode = "gap" /\ a.out = <<>> /\ a.odd = FALSE /\ a.word = <<>>
  <2>1. <<>> \in Seq(TokenSet)
    OBVIOUS
  <2> QED BY <2>1, AtTyped
<1>2. Shift(o, a) = At(o)
  <2>1. o \o <<>> = o
    BY ConcatEmptySeq
  <2> HIDE DEF a
  <2> QED BY <1>1, <2>1 DEF Shift, At
<1>3. a = Unread
  BY DEF At, Unread
<1>4. Anchored(a)
  BY <1>1 DEF Anchored
<1>5. Reaches(a, s, p)
  BY <1>3, ReachesReads
<1> HIDE DEF a
<1>6. p \in Reader /\ Reaches(Shift(o, a), s, Shift(o, p))
  <2> HIDE DEF p
  <2> QED BY <1>1, <1>4, <1>5, ReachesShift
<1>7. ~Closed(p).odd /\ Closed(p).out = <<t>>
  BY DEF OneWord, Split
<1> HIDE DEF p
<1>8. Closed(r) = Shift(o, Closed(p))
  BY <1>6, ShiftClosed
<1>9. Closed(r).odd = Closed(p).odd /\ Closed(r).out = o \o <<t>>
  <2> DEFINE x == Closed(r)
             y == Closed(p)
             l == <<t>>
  <2>1. x = Shift(o, y) /\ y.out = l
    BY <1>7, <1>8
  <2> HIDE DEF x, y, l
  <2>2. x.odd = y.odd /\ x.out = o \o l
    BY <2>1 DEF Shift
  <2> QED BY <2>2 DEF x, y, l
<1>10. t \in TokenSet
  <2>1. "Identifier" \in Types
    BY DEF Types
  <2> QED BY <2>1, TokenTyped
<1> HIDE DEF t
<1>11. o \o <<t>> = Append(o, t)
  BY <1>10, AppendIsConcat
<1>12. r \in Reader
  BY <1>6, ShiftTyped
<1> HIDE DEF r
<1>13. Read(r, Append(o, t))
  BY <1>7, <1>9, <1>11, <1>12 DEF Read
<1>14. Reaches(At(o), s, r)
  BY <1>2, <1>6 DEF r
<1> QED BY <1>13, <1>14 DEF t

\* A reader that has just read a string has read what it has.
LEMMA AtRead == ASSUME NEW o \in Seq(TokenSet) PROVE Read(AtQuote(o), o)
<1>1. /\ AtQuote(o) \in Reader /\ AtQuote(o).mode = "closed" /\ AtQuote(o).out = o
      /\ AtQuote(o).odd = FALSE
  BY AtQuoteTyped
<1> DEFINE a == AtQuote(o)
<1> HIDE DEF a
<1>2. Closed(a) = Now(a, "gap", a.word, a.out)
  BY <1>1 DEF Closed, Gap, a
<1>3. Closed(a).odd = FALSE /\ Closed(a).out = o
  BY <1>1, <1>2 DEF Now, a
<1> QED BY <1>1, <1>3 DEF Read, a

-----------------------------------------------------------------------------
(* What the lines of a snapshot give.                                      *)

\* A line is split into what a reader of it has read.
Gives(s, out) == ~Split(s).odd /\ Split(s).out = out

\* What a line gives, from what its reader has reached.
LEMMA GivesRead ==
  ASSUME NEW s \in Seq(Bytes), NEW r, Reaches(At(<<>>), s, r), NEW out, Read(r, out)
  PROVE  Gives(s, out)
<1>1. At(<<>>) = Unread
  BY DEF At, Unread
<1>2. r = Reads(s)[Len(s)]
  BY <1>1, ReachesReads
<1>3. Split(s) = Closed(r)
  BY <1>2 DEF Split
<1> QED BY <1>3 DEF Read, Gives

\* Two lists of two, and lists of words.
LEMMA TwoPairs ==
  ASSUME NEW S, NEW a \in S, NEW b \in S, NEW c \in S, NEW d \in S
  PROVE  <<a, b>> \o <<c, d>> = <<a, b, c, d>>
<1> DEFINE s == <<a, b>>
           t == <<c, d>>
           u == <<a, b, c, d>>
           v == s \o t
<1>1. s \in Seq(S) /\ t \in Seq(S) /\ Len(s) = 2 /\ Len(t) = 2
  OBVIOUS
<1>2. u \in Seq(S) /\ Len(u) = 4
  OBVIOUS
<1>3. v \in Seq(S) /\ Len(v) = Len(s) + Len(t)
  <2> HIDE DEF s, t
  <2> QED BY <1>1, ConcatProperties
<1>4. \A k \in 1..4 : v[k] = u[k]
  OBVIOUS
<1> HIDE DEF s, t, u, v
<1>5. v = u
  BY <1>1, <1>2, <1>3, <1>4, SameList
<1> QED BY <1>5 DEF s, t, u, v

\* A list and one that has one more.
Longer(s, e, t) ==
  /\ t \in Seq(TokenSet) /\ Len(t) = Len(s) + 1 /\ t[Len(s) + 1] = e
  /\ \A k \in 1..Len(s) : t[k] = s[k]

\* Append makes it.
LEMMA AppendedIs ==
  ASSUME NEW s \in Seq(TokenSet), NEW e \in TokenSet
  PROVE  Longer(s, e, Append(s, e))
BY AppendProperties DEF Longer

Listed2(a, b) == Append(Append(<<>>, a), b)
Listed3(a, b, c) == Append(Listed2(a, b), c)

\* Their entries.
LEMMA Listed ==
  ASSUME NEW a \in TokenSet, NEW b \in TokenSet, NEW c \in TokenSet
  PROVE  /\ Append(<<>>, a) \in Seq(TokenSet)
         /\ Listed2(a, b) \in Seq(TokenSet) /\ Len(Listed2(a, b)) = 2
         /\ Listed2(a, b)[1] = a /\ Listed2(a, b)[2] = b
         /\ Listed3(a, b, c) \in Seq(TokenSet) /\ Len(Listed3(a, b, c)) = 3
         /\ Listed3(a, b, c)[1] = a /\ Listed3(a, b, c)[2] = b /\ Listed3(a, b, c)[3] = c
<1> DEFINE o == Append(<<>>, a)
           p == Listed2(a, b)
           q == Listed3(a, b, c)
<1>0. <<>> \in Seq(TokenSet) /\ Len(<<>>) = 0
  OBVIOUS
<1>1. o \in Seq(TokenSet) /\ Len(o) = 1 /\ o[1] = a
  <2>1. o \in Seq(TokenSet) /\ Len(o) = Len(<<>>) + 1 /\ o[Len(<<>>) + 1] = a
    BY <1>0, AppendProperties
  <2> QED BY <1>0, <2>1
<1>2. p = Append(o, b)
  BY DEF Listed2
<1> HIDE DEF o
<1>3. p \in Seq(TokenSet) /\ Len(p) = 2 /\ p[1] = a /\ p[2] = b
  <2> HIDE DEF p
  <2>1. Longer(o, b, p)
    BY <1>1, <1>2, AppendedIs
  <2> QED BY <1>1, <2>1 DEF Longer
<1>4. q = Append(p, c)
  BY DEF Listed3
<1> HIDE DEF p
<1>5. q \in Seq(TokenSet) /\ Len(q) = 3 /\ q[1] = a /\ q[2] = b /\ q[3] = c
  <2> HIDE DEF q
  <2>1. Longer(p, c, q)
    BY <1>3, <1>4, AppendedIs
  <2> QED BY <1>3, <2>1 DEF Longer
<1> QED BY <1>1, <1>3, <1>5 DEF o, p

\* A command of one word, or two of one byte, and what follows.
Ident(c) == Token("Identifier", <<c>>)
Str(s) == Token("String", s)

\* They are tokens.
LEMMA TokensTyped ==
  /\ \A c \in Solid : Ident(c) \in TokenSet
  /\ \A s \in Seq(Bytes) : Str(s) \in TokenSet /\ Token("Identifier", s) \in TokenSet
<1>1. "Identifier" \in Types /\ "String" \in Types
  BY DEF Types
<1>2. \A c \in Solid : <<c>> \in Seq(Bytes)
  <2>1. Solid \subseteq Bytes
    BY DEF Solid, Bytes
  <2> QED BY <2>1, ShortTexts, Zenon
<1>3. \A s \in Seq(Bytes) : Token("Identifier", s) \in TokenSet /\ Token("String", s) \in TokenSet
  BY <1>1, TokenTyped
<1> QED BY <1>2, <1>3, Zenon DEF Ident, Str

\* The line of a directory or a label gives its command and the text.
LEMMA TextLine ==
  ASSUME NEW c \in Commands, NEW s \in Seq(Bytes)
  PROVE  /\ TextCommand(c, s) \in Seq(Bytes)
         /\ Unescaped(s) => Gives(TextCommand(c, s), Listed2(Ident(c), Str(s)))
<1> DEFINE h == <<c, " ">>
           q == Quote(s)
           o == Append(<<>>, Ident(c))
<1>1. <<>> \in Seq(TokenSet) /\ c \in Solid
  BY DEF Solid
<1>2. h \in Seq(Bytes) /\ o \in Seq(TokenSet) /\ Reaches(At(<<>>), h, At(o))
  BY <1>1, ReachesWord DEF Ident
<1>3. q \in Seq(Bytes)
  BY QuoteIs
<1>4. TextCommand(c, s) = h \o q
  BY DEF TextCommand
<1> HIDE DEF h, q, o
<1>5. h \o q \in Seq(Bytes)
  BY <1>2, <1>3, ConcatProperties
<1>6. ASSUME Unescaped(s) PROVE Gives(h \o q, Listed2(Ident(c), Str(s)))
  <2> DEFINE p == Append(o, Str(s))
  <2>1. p \in Seq(TokenSet) /\ Reaches(At(o), q, AtQuote(p))
    BY <1>2, <1>6, ReachesQuote DEF q, Str
  <2>2. p = Listed2(Ident(c), Str(s))
    BY DEF Listed2, o
  <2> HIDE DEF p
  <2>3. Reaches(At(<<>>), h \o q, AtQuote(p))
    BY <1>2, <1>3, <2>1, ReachesMore, Zenon
  <2>4. Read(AtQuote(p), p)
    BY <2>1, AtRead
  <2>5. Gives(h \o q, p)
    BY <1>5, <2>3, <2>4, GivesRead
  <2> QED BY <2>2, <2>5
<1> QED BY <1>4, <1>5, <1>6

\* The line of a scope gives its command and the name.
LEMMA NewLine ==
  ASSUME NEW scope, scope.name \in Seq(Bytes)
  PROVE  /\ NewCommand(scope) \in Seq(Bytes)
         /\ OneWord(scope.name) =>
              Gives(NewCommand(scope),
                    Listed3(Ident("!new"), Ident("s"), Token("Identifier", scope.name)))
<1> DEFINE n == "!new"
           m == "s"
           x == " "
           h == <<n, x>>
           g == <<m, x>>
           o == Append(<<>>, Ident(n))
           p == Append(o, Ident(m))
           s == scope.name
<1>1. <<>> \in Seq(TokenSet) /\ n \in Solid /\ m \in Solid
  <2>1. n \in Solid /\ m \in Solid
    BY DEF Solid, Letters, Commands
  <2> QED BY <2>1
<1>2. n \in Bytes /\ m \in Bytes /\ x \in Bytes
  BY DEF Bytes, Letters, Commands, Spaces
<1>3. NewCommand(scope) = (h \o g) \o s
  <2>1. NewCommand(scope) = <<n, x, m, x>> \o s
    BY DEF NewCommand
  <2> HIDE DEF n, m, x, s
  <2>2. h \o g = <<n, x, m, x>>
    BY <1>2, TwoPairs
  <2> QED BY <2>1, <2>2
<1>4. h \in Seq(Bytes) /\ o \in Seq(TokenSet) /\ Reaches(At(<<>>), h, At(o))
  BY <1>1, ReachesWord DEF Ident
<1> HIDE DEF n, m, s, o
<1>5. g \in Seq(Bytes) /\ p \in Seq(TokenSet) /\ Reaches(At(o), g, At(p))
  BY <1>1, <1>4, ReachesWord DEF Ident
<1> HIDE DEF x, h, g, p
<1>6. h \o g \in Seq(Bytes) /\ (h \o g) \o s \in Seq(Bytes)
  <2>1. s \in Seq(Bytes)
    BY DEF s
  <2> QED BY <1>4, <1>5, <2>1, ConcatProperties
<1>7. ASSUME OneWord(s) PROVE Gives((h \o g) \o s, Append(p, Token("Identifier", s)))
  <2>1. s \in Seq(Bytes)
    BY DEF s
  <2>2. PICK r : Reaches(At(p), s, r) /\ Read(r, Append(p, Token("Identifier", s)))
    BY <1>5, <1>7, <2>1, ReachesName
  <2>3. Reaches(At(<<>>), h \o g, At(p))
    BY <1>4, <1>5, ReachesMore, Zenon
  <2>4. Reaches(At(<<>>), (h \o g) \o s, r)
    BY <1>6, <2>1, <2>2, <2>3, ReachesMore, Zenon
  <2> QED BY <1>6, <2>2, <2>4, GivesRead
<1>8. Append(p, Token("Identifier", s)) = Listed3(Ident(n), Ident(m), Token("Identifier", s))
  BY DEF Listed3, Listed2, o, p
<1> QED BY <1>3, <1>6, <1>7, <1>8 DEF n, m, s

\* The line of an override gives its command, the key and the value.
LEMMA SetLine ==
  ASSUME NEW scope, NEW key \in Seq(Bytes), scope.overrides[key] \in Seq(Bytes)
  PROVE  /\ SetCommand(scope, key) \in Seq(Bytes)
         /\ Unescaped(key) /\ Unescaped(scope.overrides[key]) =>
              Gives(SetCommand(scope, key),
                    Listed3(Ident("!set"), Str(key), Str(scope.overrides[key])))
<1> DEFINE n == "!set"
           x == " "
           h == <<n, x>>
           g == <<x>>
           v == scope.overrides[key]
           a == Quote(key)
           b == Quote(v)
           o == Append(<<>>, Ident(n))
           p == Append(o, Str(key))
           q == Append(p, Str(v))
<1>1. <<>> \in Seq(TokenSet) /\ n \in Solid
  <2>1. n \in Solid
    BY DEF Solid, Letters, Commands
  <2> QED BY <2>1
<1>2. SetCommand(scope, key) = ((h \o a) \o g) \o b
  BY DEF SetCommand
<1>3. h \in Seq(Bytes) /\ o \in Seq(TokenSet) /\ Reaches(At(<<>>), h, At(o))
  BY <1>1, ReachesWord DEF Ident
<1>4. q = Listed3(Ident(n), Str(key), Str(v))
  BY DEF Listed3, Listed2
<1>5. a \in Seq(Bytes) /\ b \in Seq(Bytes) /\ v \in Seq(Bytes)
  BY QuoteIs
<1>6. g \in Seq(Bytes)
  BY <1>3, ReachesBlank
<1> HIDE DEF n, h, v, a, b, o
<1>7. /\ h \o a \in Seq(Bytes) /\ (h \o a) \o g \in Seq(Bytes)
      /\ ((h \o a) \o g) \o b \in Seq(Bytes)
  <2> HIDE DEF g
  <2>1. h \o a \in Seq(Bytes)
    BY <1>3, <1>5, ConcatProperties
  <2>2. (h \o a) \o g \in Seq(Bytes)
    BY <1>6, <2>1, ConcatProperties
  <2> QED BY <1>5, <2>1, <2>2, ConcatProperties
<1>8. ASSUME Unescaped(key), Unescaped(v) PROVE Gives(((h \o a) \o g) \o b, q)
  <2>1. p \in Seq(TokenSet) /\ Reaches(At(o), a, AtQuote(p))
    BY <1>3, <1>8, ReachesQuote DEF a, Str
  <2> HIDE DEF p
  <2>2. Reaches(AtQuote(p), g, At(p))
    BY <2>1, ReachesBlank
  <2> HIDE DEF x, g
  <2>3. q \in Seq(TokenSet) /\ Reaches(At(p), b, AtQuote(q))
    BY <1>5, <1>8, <2>1, ReachesQuote DEF b, Str
  <2> HIDE DEF q
  <2>4. Reaches(At(<<>>), h \o a, AtQuote(p))
    BY <1>3, <1>5, <2>1, ReachesMore, Zenon
  <2>5. Reaches(At(<<>>), (h \o a) \o g, At(p))
    BY <1>6, <1>7, <2>2, <2>4, ReachesMore, Zenon
  <2>6. Reaches(At(<<>>), ((h \o a) \o g) \o b, AtQuote(q))
    BY <1>5, <1>7, <2>3, <2>5, ReachesMore, Zenon
  <2>7. Read(AtQuote(q), q)
    BY <2>3, AtRead
  <2> QED BY <1>7, <2>6, <2>7, GivesRead
<1> QED BY <1>2, <1>4, <1>7, <1>8 DEF n, v

-----------------------------------------------------------------------------
(* The lines of a file, and those that are left of it.                     *)

\* The lines of a file are a list of texts, of which there is a first.
Lines == Seq(Seq(Bytes))

\* The first of them and the others.
LEMMA FirstLine ==
  ASSUME NEW x \in Seq(Bytes), NEW rest \in Lines
  PROVE  /\ <<x>> \o rest \in Lines /\ <<x>> \o rest # <<>>
         /\ (<<x>> \o rest)[1] = x /\ Tail(<<x>> \o rest) = rest
<1> DEFINE T == Seq(Bytes)
           l == <<x>> \o rest
<1>1. x \in T /\ rest \in Seq(T)
  BY DEF Lines
<1> HIDE DEF T
<1>2. <<x>> \in Seq(T) /\ Len(<<x>>) = 1 /\ <<x>>[1] = x
  BY <1>1
<1>3. l \in Seq(T) /\ Len(l) = 1 + Len(rest) /\ Len(rest) \in Nat
  BY <1>1, <1>2, ConcatProperties
<1>4. l[1] = x /\ Tail(l) = rest
  BY <1>1
<1> HIDE DEF l
<1>5. l # <<>>
  BY <1>3
<1> QED BY <1>3, <1>4, <1>5 DEF T, l, Lines

\* Lists of lines that are joined.
LEMMA LinesJoined ==
  ASSUME NEW a \in Lines, NEW b \in Lines, NEW c \in Lines
  PROVE  a \o b \in Lines /\ (a \o b) \o c = a \o (b \o c)
<1> DEFINE T == Seq(Bytes)
<1>1. a \in Seq(T) /\ b \in Seq(T) /\ c \in Seq(T)
  BY DEF Lines
<1> HIDE DEF T
<1>2. a \o b \in Seq(T) /\ (a \o b) \o c = a \o (b \o c)
  BY <1>1, ConcatProperties, ConcatAssociative
<1> QED BY <1>2 DEF T, Lines

\* A list of some is a list.
LEMMA SomeList ==
  ASSUME NEW S, NEW R, R \subseteq S
  PROVE  Seq(R) \subseteq Seq(S)
OBVIOUS

\* So is a text.
LEMMA SomeText == ASSUME NEW c PROVE Seq(Bytes \ {c}) \subseteq Seq(Bytes)
<1>1. Bytes \ {c} \subseteq Bytes
  OBVIOUS
<1> QED BY <1>1, SomeList

\* A scope has the parts of one.
LEMMA ScopeIs ==
  ASSUME NEW s, IsScope(s)
  PROVE  /\ s = [name |-> s.name, overrides |-> s.overrides]
         /\ s.name \in Seq(Bytes) /\ IsFiniteSet(DOMAIN s.overrides)
         /\ s.overrides = [k \in DOMAIN s.overrides |-> s.overrides[k]]
         /\ \A k \in DOMAIN s.overrides : k \in Seq(Bytes) /\ s.overrides[k] \in Seq(Bytes)
<1> DEFINE D == DOMAIN s.overrides
           T == Seq(Bytes)
           N == Seq(Bytes \ {"LF"})
<1>1. /\ s \in [name : N, overrides : [D -> T]] /\ D \in SUBSET T /\ IsFiniteSet(D)
      /\ N \subseteq T
  BY SomeText DEF IsScope
<1> HIDE DEF T, D, N
<1>2. s = [name |-> s.name, overrides |-> s.overrides] /\ s.name \in T /\ s.overrides \in [D -> T]
  BY <1>1
<1>3. s.overrides = [k \in D |-> s.overrides[k]] /\ \A k \in D : k \in T /\ s.overrides[k] \in T
  BY <1>1, <1>2
<1> QED BY <1>1, <1>2, <1>3 DEF T, D

\* The overrides of a scope, in some order.
Sets(scope, keys) == [k \in DOMAIN keys |-> SetCommand(scope, keys[k])]
KeysOf(scope) == Seq(DOMAIN scope.overrides)

\* They are lines.
LEMMA SetsTyped ==
  ASSUME NEW scope, IsScope(scope), NEW keys \in KeysOf(scope)
  PROVE  Sets(scope, keys) \in Lines
<1> DEFINE D == DOMAIN scope.overrides
           T == Seq(Bytes)
           S == Sets(scope, keys)
<1>1. keys \in Seq(D) /\ \A k \in D : SetCommand(scope, k) \in T
  BY ScopeIs, SetLine DEF KeysOf
<1> HIDE DEF T, D
<1>2. Len(keys) \in Nat /\ S = [k \in 1..Len(keys) |-> SetCommand(scope, keys[k])]
  BY <1>1 DEF Sets
<1>3. \A k \in 1..Len(keys) : SetCommand(scope, keys[k]) \in T
  BY <1>1
<1>4. S \in Seq(T)
  <2> HIDE DEF S
  <2> QED BY <1>2, <1>3
<1> QED BY <1>4 DEF T, Lines

\* The first of them and the others, by their keys.
LEMMA SetsFirst ==
  ASSUME NEW scope, IsScope(scope), NEW keys \in KeysOf(scope), keys # <<>>
  PROVE  /\ keys[1] \in DOMAIN scope.overrides /\ Tail(keys) \in KeysOf(scope)
         /\ Range(keys) = {keys[1]} \cup Range(Tail(keys))
         /\ Sets(scope, keys) = <<SetCommand(scope, keys[1])>> \o Sets(scope, Tail(keys))
<1> DEFINE D == DOMAIN scope.overrides
           T == Seq(Bytes)
           n == Len(keys)
           u == Tail(keys)
           x == SetCommand(scope, keys[1])
           S == Sets(scope, keys)
           R == Sets(scope, u)
<1>1. keys \in Seq(D)
  BY DEF KeysOf
<1> HIDE DEF T, D
<1>2. n \in Nat /\ n > 0 /\ keys[1] \in D /\ u \in Seq(D) /\ Len(u) = n - 1
      /\ \A k \in 1..n - 1 : u[k] = keys[k + 1]
  BY <1>1, HeadTailProperties
<1>3. Range(keys) = {keys[1]} \cup Range(u)
  <2>1. DOMAIN keys = 1..n /\ DOMAIN u = 1..n - 1
    BY <1>1, <1>2
  <2>2. \A k \in 1..n : k = 1 \/ (k - 1 \in 1..n - 1 /\ u[k - 1] = keys[k])
    BY <1>2
  <2>3. \A k \in 1..n - 1 : k + 1 \in 1..n /\ u[k] = keys[k + 1]
    BY <1>2
  <2>4. 1 \in 1..n
    BY <1>2
  <2> HIDE DEF n, u
  <2>5. ASSUME NEW y \in Range(keys) PROVE y = keys[1] \/ y \in Range(u)
    <3>1. PICK k \in 1..n : y = keys[k]
      BY <2>1, <2>5 DEF Range
    <3> QED BY <2>1, <2>2, <3>1 DEF Range
  <2>6. ASSUME NEW y \in Range(u) PROVE y \in Range(keys)
    <3>1. PICK k \in 1..n - 1 : y = u[k]
      BY <2>1, <2>6 DEF Range
    <3> QED BY <2>1, <2>3, <3>1 DEF Range
  <2>7. keys[1] \in Range(keys)
    BY <2>1, <2>4 DEF Range
  <2> QED BY <2>5, <2>6, <2>7
<1>4. S = [k \in 1..n |-> SetCommand(scope, keys[k])]
      /\ R = [k \in 1..n - 1 |-> SetCommand(scope, u[k])]
  BY <1>1, <1>2 DEF Sets
<1>5. S \in Seq(T) /\ R \in Seq(T) /\ x \in T /\ u \in KeysOf(scope)
  <2>1. u \in KeysOf(scope)
    BY <1>2 DEF KeysOf, D
  <2>2. S \in Lines /\ R \in Lines
    <3> HIDE DEF u
    <3> QED BY <2>1, SetsTyped
  <2>3. x \in T
    BY <1>2, ScopeIs, SetLine DEF D, T
  <2> QED BY <2>1, <2>2, <2>3 DEF Lines, T
<1>6. \A k \in 1..n - 1 : S[k + 1] = R[k]
  <2> TAKE k \in 1..n - 1
  <2>1. k + 1 \in 1..n /\ u[k] = keys[k + 1]
    BY <1>2
  <2> QED BY <1>4, <2>1
<1>7. S[1] = x /\ Len(S) = n /\ Len(R) = n - 1
  <2> HIDE DEF S, R, n, u
  <2>1. 1 \in 1..n /\ n - 1 \in Nat
    BY <1>2
  <2>2. S[1] = x
    BY <1>4, <2>1
  <2>3. DOMAIN S = 1..n /\ DOMAIN R = 1..n - 1
    BY <1>4
  <2> QED BY <1>2, <1>5, <2>1, <2>2, <2>3
<1> HIDE DEF S, R, x, n, u
<1>8. S = <<x>> \o R
  <2>1. <<x>> \in Seq(T) /\ Len(<<x>>) = 1 /\ <<x>>[1] = x
    BY <1>5
  <2> DEFINE l == <<x>>
  <2> HIDE DEF l
  <2>2. /\ l \o R \in Seq(T) /\ Len(l \o R) = Len(l) + Len(R)
        /\ \A k \in 1..Len(l) + Len(R) : (l \o R)[k] = IF k <= Len(l) THEN l[k] ELSE R[k - Len(l)]
    BY <1>5, <2>1, ConcatProperties DEF l
  <2> DEFINE j == l \o R
  <2> HIDE DEF j
  <2>3. j \in Seq(T) /\ Len(j) = n /\ \A k \in 1..n : j[k] = IF k <= 1 THEN l[k] ELSE R[k - 1]
    BY <1>2, <1>7, <2>1, <2>2 DEF l, j
  <2>4. \A k \in 1..n : S[k] = j[k]
    <3> TAKE k \in 1..n
    <3>1. CASE k = 1
      BY <1>7, <2>1, <2>3, <3>1 DEF l
    <3>2. CASE k > 1
      <4>1. k - 1 \in 1..n - 1 /\ (k - 1) + 1 = k
        BY <1>2, <3>2
      <4>2. S[k] = R[k - 1]
        BY <1>6, <4>1
      <4> QED BY <1>2, <2>3, <3>2, <4>2
    <3> QED BY <1>2, <3>1, <3>2
  <2>5. S = j
    BY <1>5, <1>7, <2>3, <2>4, SameList
  <2> QED BY <2>5 DEF j, l
<1> QED BY <1>2, <1>3, <1>5, <1>8 DEF S, R, x, u, D

\* A map gives each of its keys in whatever order.
LEMMA OrdersAll ==
  ASSUME NEW D, IsFiniteSet(D), NEW f \in SetToSeqs(D)
  PROVE  f \in Seq(D) /\ Range(f) = D
<1> DEFINE n == Cardinality(D)
           I == 1..n
<1>1. f \in [I -> D] /\ (\A i, j \in I : i # j => f[i] # f[j])
  BY DEF SetToSeqs
<1>2. n \in Nat
  BY FS_CardinalityType
<1>3. IsFiniteSet(I) /\ Cardinality(I) = n
  <2>1. Cardinality(1..n) = IF 1 > n THEN 0 ELSE n - 1 + 1
    BY <1>2, FS_Interval
  <2>2. IsFiniteSet(1..n)
    BY <1>2, FS_Interval
  <2>3. Cardinality(1..n) = n
    <3> DEFINE c == Cardinality(1..n)
    <3>1. c = IF 1 > n THEN 0 ELSE n - 1 + 1
      BY <2>1
    <3> HIDE DEF c, n
    <3>2. c = n
      BY <1>2, <3>1
    <3> QED BY <3>2 DEF c, n
  <2> QED BY <2>2, <2>3
<1> HIDE DEF n, I
<1>4. f \in Injection(I, D)
  <2>1. DOMAIN f = I
    BY <1>1
  <2>2. IsInjective(f)
    BY <1>1, <2>1 DEF IsInjective
  <2> QED BY <1>1, <2>2 DEF Injection
<1>5. f \in Surjection(I, D)
  BY <1>3, <1>4, FS_Injection DEF n
<1>6. \A t \in D : \E s \in I : f[s] = t
  BY <1>5 DEF Surjection
<1>7. f \in Seq(D)
  BY <1>1, <1>2 DEF I
<1> QED BY <1>1, <1>6, <1>7 DEF Range

\* Scopes, and an order of the keys of each.
IsScopes(W) == /\ Len(W) \in Nat /\ DOMAIN W = 1..Len(W) /\ W \in Seq(Range(W))
               /\ \A k \in 1..Len(W) : IsScope(W[k])
KeyOrders(W, o) ==
  \A k \in 1..Len(W) : o[k] \in KeysOf(W[k]) /\ Range(o[k]) = DOMAIN W[k].overrides

\* Orders gives each scope such an order.
LEMMA OrdersAre ==
  ASSUME NEW W, IsScopes(W), NEW o \in Orders(W)
  PROVE  KeyOrders(W, o) /\ o \in [1..Len(W) -> Range(o)]
<1>1. /\ DOMAIN o = DOMAIN W
      /\ \A k \in DOMAIN W : o[k] \in SetToSeqs(DOMAIN W[k].overrides)
  BY DEF Orders
<1>2. o \in [DOMAIN W -> Range(o)]
  <2>1. o = [k \in DOMAIN W |-> o[k]]
    BY DEF Orders
  <2>2. \A k \in DOMAIN W : o[k] \in Range(o)
    BY <1>1 DEF Range
  <2> QED BY <2>1, <2>2
<1>3. ASSUME NEW k \in 1..Len(W)
      PROVE  o[k] \in KeysOf(W[k]) /\ Range(o[k]) = DOMAIN W[k].overrides
  <2> DEFINE D == DOMAIN W[k].overrides
             f == o[k]
  <2>1. IsScope(W[k]) /\ k \in DOMAIN W
    BY DEF IsScopes
  <2>2. IsFiniteSet(D)
    BY <2>1, ScopeIs
  <2>3. f \in SetToSeqs(D)
    BY <1>1, <2>1
  <2> HIDE DEF D, f
  <2>4. f \in Seq(D) /\ Range(f) = D
    BY <2>2, <2>3, OrdersAll
  <2> QED BY <2>4 DEF D, f, KeysOf
<1> QED BY <1>2, <1>3 DEF KeyOrders, IsScopes

\* A scope is the line of its name and those of its overrides.
LEMMA EncodeIs ==
  ASSUME NEW scope, IsScope(scope), NEW keys \in KeysOf(scope)
  PROVE  /\ Encode(scope, keys) = <<NewCommand(scope)>> \o Sets(scope, keys)
         /\ Encode(scope, keys) \in Lines /\ <<NewCommand(scope)>> \in Lines
<1> DEFINE x == NewCommand(scope)
           S == Sets(scope, keys)
<1>1. x \in Seq(Bytes)
  BY ScopeIs, NewLine
<1>2. S \in Lines
  BY SetsTyped
<1>3. Encode(scope, keys) = <<x>> \o S
  BY DEF Encode, Sets
<1> HIDE DEF x, S
<1>4. <<x>> \o S \in Lines
  BY <1>1, <1>2, FirstLine
<1>5. <<x>> \in Lines
  <2> DEFINE T == Seq(Bytes)
  <2>1. x \in T
    BY <1>1
  <2> HIDE DEF T
  <2>2. <<x>> \in Seq(T)
    BY <2>1
  <2> QED BY <2>2 DEF Lines, T
<1> QED BY <1>3, <1>4, <1>5 DEF x, S

\* What is left to write after some of the scopes.
Remaining(W, o, i) == EncodeLast(W, o)[Len(W) - i]

\* The equations of the loop over the scopes.
LEMMA EncodeLastIs ==
  ASSUME NEW W, IsScopes(W), NEW o, KeyOrders(W, o)
  PROVE  /\ EncodeLast(W, o)[0] = <<>>
         /\ \A k \in 0..Len(W) : EncodeLast(W, o)[k] \in Lines
         /\ \A k \in 1..Len(W) : EncodeLast(W, o)[k]
              = Encode(W[Len(W) - k + 1], o[Len(W) - k + 1]) \o EncodeLast(W, o)[k - 1]
<1> DEFINE n == Len(W)
           P(k) == Encode(W[n - k + 1], o[n - k + 1])
           step == [k \in 1..n |-> [acc \in Lines |-> P(k) \o acc]]
           Solves(f) == f = [k \in 0..n |-> IF k = 0 THEN <<>> ELSE P(k) \o f[k - 1]]
           g == CHOOSE h : Solves(h)
<1>1. EncodeLast(W, o) = g
  BY DEF EncodeLast
<1>2. n \in Nat
  BY DEF IsScopes
<1>3. \A k \in 1..n : P(k) \in Lines
  <2> TAKE k \in 1..n
  <2> DEFINE j == n - k + 1
  <2>1. j \in 1..n
    BY <1>2
  <2> HIDE DEF j
  <2>2. IsScope(W[j]) /\ o[j] \in KeysOf(W[j])
    BY <2>1 DEF IsScopes, KeyOrders
  <2>3. Encode(W[j], o[j]) \in Lines
    BY <2>2, EncodeIs
  <2> QED BY <2>3 DEF j
<1> HIDE DEF n, P
<1>4. \A k \in 1..n : \A acc \in Lines : P(k) \o acc \in Lines
  BY <1>3, LinesJoined
<1>5. step \in [1..n -> [Lines -> Lines]] /\ <<>> \in Lines
  <2>1. <<>> \in Lines
    BY DEF Lines
  <2> QED BY <1>4, <2>1
<1>6. PICK f \in [0..n -> Lines] : f[0] = <<>> /\ \A k \in 1..n : f[k] = step[k][f[k - 1]]
  <2> HIDE DEF step
  <2>1. Loops(Lines)
    BY LoopFor
  <2> QED BY <1>2, <1>5, <2>1, Zenon DEF Loops
<1>7. \A k \in 1..n : f[k] = P(k) \o f[k - 1]
  <2> TAKE k \in 1..n
  <2>1. k - 1 \in 0..n
    BY <1>2
  <2>2. f[k - 1] \in Lines
    BY <1>6, <2>1
  <2> QED BY <1>6, <2>2
<1>8. Solves(f)
  <2>1. \A k \in 0..n : f[k] = IF k = 0 THEN <<>> ELSE P(k) \o f[k - 1]
    BY <1>2, <1>6, <1>7
  <2> QED BY <1>6, <2>1
<1>9. Solves(g)
  BY <1>8
<1> HIDE DEF g
<1>10. g[0] = <<>> /\ \A k \in 1..n : g[k] = P(k) \o g[k - 1]
  <2>1. 0 \in 0..n /\ \A k \in 1..n : k \in 0..n /\ k # 0
    BY <1>2
  <2> QED BY <1>9, <2>1
<1>11. \A k \in 0..n : g[k] \in Lines
  <2>1. g[0] \in Lines
    BY <1>5, <1>10
  <2>2. \A k \in 1..n : g[k - 1] \in Lines => g[k] \in Lines
    BY <1>4, <1>10
  <2> QED BY <1>2, <2>1, <2>2, LoopKeeps, Zenon
<1> QED BY <1>1, <1>10, <1>11 DEF n, P

\* The next scope, and what is left after it.
LEMMA RemainingIs ==
  ASSUME NEW W, IsScopes(W), NEW o, KeyOrders(W, o)
  PROVE  /\ Remaining(W, o, Len(W)) = <<>>
         /\ \A i \in 0..Len(W) : Remaining(W, o, i) \in Lines
         /\ \A i \in 0..Len(W) - 1 :
              /\ i + 1 \in 1..Len(W) /\ IsScope(W[i + 1]) /\ o[i + 1] \in KeysOf(W[i + 1])
              /\ Range(o[i + 1]) = DOMAIN W[i + 1].overrides
              /\ Remaining(W, o, i) = <<NewCommand(W[i + 1])>>
                    \o (Sets(W[i + 1], o[i + 1]) \o Remaining(W, o, i + 1))
<1> DEFINE n == Len(W)
           g == EncodeLast(W, o)
<1>1. n \in Nat
  BY DEF IsScopes
<1>2. /\ g[0] = <<>> /\ \A k \in 0..n : g[k] \in Lines
      /\ \A k \in 1..n : g[k] = Encode(W[n - k + 1], o[n - k + 1]) \o g[k - 1]
  BY EncodeLastIs
<1> HIDE DEF g
<1>3. Remaining(W, o, n) = <<>>
  <2>1. n - n = 0
    BY <1>1
  <2> QED BY <1>2, <2>1 DEF Remaining, g
<1>4. \A i \in 0..n : Remaining(W, o, i) \in Lines
  <2> TAKE i \in 0..n
  <2>1. n - i \in 0..n
    BY <1>1
  <2> QED BY <1>2, <2>1 DEF Remaining, g
<1>5. ASSUME NEW i \in 0..n - 1
      PROVE  /\ i + 1 \in 1..n /\ IsScope(W[i + 1]) /\ o[i + 1] \in KeysOf(W[i + 1])
             /\ Range(o[i + 1]) = DOMAIN W[i + 1].overrides
             /\ Remaining(W, o, i)
                  = <<NewCommand(W[i + 1])>> \o (Sets(W[i + 1], o[i + 1]) \o Remaining(W, o, i + 1))
  <2> DEFINE j == i + 1
             k == n - i
  <2>1. j \in 1..n /\ k \in 1..n /\ n - k + 1 = j /\ k - 1 = n - j /\ n - j \in 0..n /\ j \in 0..n
    BY <1>1
  <2>2. Remaining(W, o, i) = g[k] /\ Remaining(W, o, j) = g[n - j]
    BY DEF Remaining, g
  <2> HIDE DEF j, k
  <2>3. /\ IsScope(W[j]) /\ o[j] \in KeysOf(W[j]) /\ Range(o[j]) = DOMAIN W[j].overrides
    BY <2>1 DEF IsScopes, KeyOrders
  <2>4. g[k] = Encode(W[j], o[j]) \o g[n - j]
    BY <1>2, <2>1
  <2> DEFINE x == <<NewCommand(W[j])>>
             S == Sets(W[j], o[j])
             R == Remaining(W, o, j)
  <2>5. Encode(W[j], o[j]) = x \o S /\ x \in Lines /\ S \in Lines
    BY <2>3, EncodeIs, SetsTyped
  <2>6. R \in Lines
    BY <1>4, <2>1
  <2> HIDE DEF x, S, R
  <2>7. (x \o S) \o R = x \o (S \o R)
    <3>1. x \in Lines /\ S \in Lines /\ R \in Lines
      BY <2>5, <2>6
    <3>2. \A a \in Lines, d \in Lines, e \in Lines : (a \o d) \o e = a \o (d \o e)
      BY LinesJoined, Zenon
    <3>3. \A d \in Lines, e \in Lines : (x \o d) \o e = x \o (d \o e)
      BY <3>1, <3>2, Zenon
    <3>4. \A e \in Lines : (x \o S) \o e = x \o (S \o e)
      BY <3>1, <3>3, Zenon
    <3> QED BY <3>1, <3>4, Zenon
  <2>8. Remaining(W, o, i) = x \o (S \o R)
    BY <2>2, <2>4, <2>5, <2>7 DEF R
  <2> QED BY <2>1, <2>3, <2>8 DEF x, S, R, j
<1> QED BY <1>3, <1>4, <1>5

-----------------------------------------------------------------------------
(* Lists of scopes, and what there is again of them after some lines.      *)

\* A list, of whatever it has.
IsList(s) == s \in Seq(Range(s))

\* It is the function of its entries.
LEMMA ListIs ==
  ASSUME NEW s, IsList(s)
  PROVE  Len(s) \in Nat /\ DOMAIN s = 1..Len(s) /\ s = [k \in 1..Len(s) |-> s[k]]
<1> DEFINE R == Range(s)
<1>1. s \in Seq(R)
  BY DEF IsList
<1> HIDE DEF R
<1> QED BY <1>1

\* Two lists with the same entries are one.
LEMMA ListSame ==
  ASSUME NEW s, NEW t, IsList(s), IsList(t), Len(s) = Len(t), \A k \in 1..Len(s) : s[k] = t[k]
  PROVE  s = t
<1>1. s = [k \in 1..Len(s) |-> s[k]] /\ t = [k \in 1..Len(s) |-> t[k]]
  BY ListIs
<1> QED BY <1>1

\* A function on the first numbers is a list.
LEMMA ListOf ==
  ASSUME NEW s, NEW n \in Nat, s = [k \in 1..n |-> s[k]]
  PROVE  IsList(s) /\ Len(s) = n
<1> DEFINE R == Range(s)
<1>1. DOMAIN s = 1..n
  OBVIOUS
<1>2. \A k \in 1..n : s[k] \in R
  BY <1>1 DEF Range
<1> HIDE DEF R
<1>3. s \in Seq(R)
  BY <1>2
<1>4. Len(s) = n
  BY <1>1, <1>3
<1> QED BY <1>3, <1>4 DEF IsList, R

\* Lists joined and grown.
LEMMA ListJoined ==
  ASSUME NEW s, NEW t, IsList(s), IsList(t)
  PROVE  /\ IsList(s \o t) /\ Len(s \o t) = Len(s) + Len(t)
         /\ \A k \in 1..Len(s) + Len(t) : (s \o t)[k] = IF k <= Len(s) THEN s[k] ELSE t[k - Len(s)]
<1> DEFINE R == Range(s) \cup Range(t)
           l == s \o t
           n == Len(s) + Len(t)
<1>1. s \in Seq(R) /\ t \in Seq(R)
  <2>1. s \in Seq(Range(s)) /\ t \in Seq(Range(t))
    BY DEF IsList
  <2>2. \A A, B : A \subseteq B => \A x : x \in Seq(A) => x \in Seq(B)
    OBVIOUS
  <2>3. Range(s) \subseteq R /\ Range(t) \subseteq R
    OBVIOUS
  <2> HIDE DEF R
  <2> QED BY <2>1, <2>2, <2>3
<1> HIDE DEF R
<1>2. /\ l \in Seq(R) /\ Len(l) = n /\ n \in Nat
      /\ \A k \in 1..n : l[k] = IF k <= Len(s) THEN s[k] ELSE t[k - Len(s)]
  BY <1>1, ConcatProperties
<1>3. IsList(l)
  <2> HIDE DEF l
  <2>1. l = [k \in 1..n |-> l[k]]
    BY <1>2
  <2> QED BY <1>2, <2>1, ListOf
<1> QED BY <1>2, <1>3

\* One entry more.
LEMMA ListGrown ==
  ASSUME NEW s, NEW x, IsList(s)
  PROVE  /\ IsList(Append(s, x)) /\ Len(Append(s, x)) = Len(s) + 1
         /\ \A k \in 1..Len(s) + 1 : Append(s, x)[k] = IF k <= Len(s) THEN s[k] ELSE x
<1> DEFINE R == Range(s) \cup {x}
           l == Append(s, x)
           n == Len(s) + 1
<1>1. s \in Seq(R) /\ x \in R
  <2>1. s \in Seq(Range(s))
    BY DEF IsList
  <2>2. \A A, B : A \subseteq B => \A y : y \in Seq(A) => y \in Seq(B)
    OBVIOUS
  <2>3. Range(s) \subseteq R /\ x \in R
    OBVIOUS
  <2> HIDE DEF R
  <2> QED BY <2>1, <2>2, <2>3
<1> HIDE DEF R
<1>2. /\ l \in Seq(R) /\ Len(l) = n /\ Len(s) \in Nat /\ l[n] = x
      /\ \A k \in 1..Len(s) : l[k] = s[k]
  BY <1>1, AppendProperties
<1>3. IsList(l)
  <2> HIDE DEF l
  <2>1. n \in Nat /\ l = [k \in 1..n |-> l[k]]
    BY <1>2
  <2> QED BY <1>2, <2>1, ListOf
<1>4. \A k \in 1..n : k <= Len(s) \/ k = n
  BY <1>2
<1>5. \A k \in 1..n : l[k] = IF k <= Len(s) THEN s[k] ELSE x
  <2> TAKE k \in 1..n
  <2>1. k <= Len(s) => k \in 1..Len(s)
    BY <1>2
  <2>2. ~(k <= Len(s)) => k = n
    BY <1>4
  <2> HIDE DEF l
  <2> QED BY <1>2, <2>1, <2>2
<1> QED BY <1>2, <1>3, <1>5

\* The last scope is changed.
LEMMA LastSet ==
  ASSUME NEW s, IsList(s), s # <<>>, NEW x, NEW v
  PROVE  /\ IsList(SetLast(s, x, v)) /\ Len(SetLast(s, x, v)) = Len(s) /\ Len(s) > 0
         /\ \A k \in 1..Len(s) : SetLast(s, x, v)[k] =
              IF k = Len(s) THEN [s[k] EXCEPT !.overrides = Overriding(@, x, v)] ELSE s[k]
<1> DEFINE n == Len(s)
           e == [s[n] EXCEPT !.overrides = Overriding(@, x, v)]
           l == [s EXCEPT ![n] = e]
<1>1. n \in Nat /\ DOMAIN s = 1..n /\ IsList(s)
  BY ListIs
<1>2. n > 0
  <2>1. n = 0 => s = <<>>
    BY <1>1 DEF IsList
  <2> QED BY <1>1, <2>1
<1>3. SetLast(s, x, v) = l
  BY DEF SetLast
<1> HIDE DEF n, e
<1>4. l = [k \in 1..n |-> IF k = n THEN e ELSE s[k]]
  BY <1>1
<1>5. \A k \in 1..n : l[k] = IF k = n THEN e ELSE s[k]
  BY <1>4
<1>6. l = [k \in 1..n |-> l[k]]
  BY <1>4
<1> HIDE DEF l
<1>7. IsList(l) /\ Len(l) = n
  BY <1>1, <1>6, ListOf
<1>8. \A k \in 1..n : l[k] = IF k = n THEN [s[k] EXCEPT !.overrides = Overriding(@, x, v)] ELSE s[k]
  BY <1>5 DEF e
<1> QED BY <1>2, <1>3, <1>7, <1>8 DEF n

\* The scopes that there are again after some lines: the last one with some keys.
Part(scope, D) == [name |-> scope.name, overrides |-> [k \in D |-> scope.overrides[k]]]
Restored(W, i, D) == [k \in 1..i |-> IF k < i THEN W[k] ELSE Part(W[i], D)]

\* Their number and each of them.
LEMMA RestoredIs ==
  ASSUME NEW W, NEW i \in Nat, NEW D
  PROVE  /\ IsList(Restored(W, i, D)) /\ Len(Restored(W, i, D)) = i
         /\ \A k \in 1..i : Restored(W, i, D)[k] = IF k < i THEN W[k] ELSE Part(W[i], D)
<1> DEFINE r == Restored(W, i, D)
<1>1. r = [k \in 1..i |-> IF k < i THEN W[k] ELSE Part(W[i], D)]
  BY DEF Restored
<1> HIDE DEF r
<1>2. \A k \in 1..i : r[k] = IF k < i THEN W[k] ELSE Part(W[i], D)
  BY <1>1
<1>3. r = [k \in 1..i |-> r[k]]
  BY <1>1
<1>4. IsList(r) /\ Len(r) = i
  BY <1>3, ListOf
<1> QED BY <1>2, <1>4 DEF r

\* A part that has every key is the scope.
LEMMA WholePart ==
  ASSUME NEW s, IsScope(s)
  PROVE  Part(s, DOMAIN s.overrides) = s
<1>1. s = [name |-> s.name, overrides |-> s.overrides]
  BY ScopeIs
<1>2. s.overrides = [k \in DOMAIN s.overrides |-> s.overrides[k]]
  BY ScopeIs
<1> QED BY <1>1, <1>2, Zenon DEF Part

\* What is restored when all keys of a scope are, and when nothing is.
Finished(W, i, D) == i > 0 => D = DOMAIN W[i].overrides

\* Then each scope is what it was.
LEMMA RestoredAll ==
  ASSUME NEW W, IsScopes(W), NEW i \in 0..Len(W), NEW D, Finished(W, i, D)
  PROVE  \A k \in 1..i : Restored(W, i, D)[k] = W[k]
<1> TAKE k \in 1..i
<1>1. i \in Nat /\ k \in 1..Len(W)
  BY DEF IsScopes
<1>2. Restored(W, i, D)[k] = IF k < i THEN W[k] ELSE Part(W[i], D)
  BY <1>1, RestoredIs
<1>3. CASE k < i
  BY <1>2, <1>3
<1>4. CASE k = i
  <2>1. IsScope(W[i]) /\ D = DOMAIN W[i].overrides
    BY <1>1, <1>4 DEF IsScopes, Finished
  <2>2. Part(W[i], D) = W[i]
    BY <2>1, WholePart
  <2> QED BY <1>2, <1>4, <2>2
<1> QED BY <1>1, <1>3, <1>4

\* The next !new begins the next scope.
LEMMA RestoredNext ==
  ASSUME NEW B, IsList(B), NEW W, IsScopes(W), NEW i \in 0..Len(W), i < Len(W),
         NEW D, Finished(W, i, D)
  PROVE  Append(B \o Restored(W, i, D), [name |-> W[i + 1].name, overrides |-> NoOverrides])
           = B \o Restored(W, i + 1, {})
<1> DEFINE j == i + 1
           r == Restored(W, i, D)
           q == Restored(W, j, {})
           x == [name |-> W[j].name, overrides |-> NoOverrides]
           n == Len(B)
<1>1. n \in Nat /\ i \in Nat /\ j \in Nat /\ i < j
  BY ListIs DEF IsScopes
<1>2. IsList(r) /\ Len(r) = i /\ IsList(q) /\ Len(q) = j
  BY <1>1, RestoredIs
<1>3. \A k \in 1..i : r[k] = W[k] /\ q[k] = W[k]
  <2>1. \A k \in 1..i : r[k] = W[k]
    BY RestoredAll
  <2>2. \A k \in 1..j : q[k] = IF k < j THEN W[k] ELSE Part(W[j], {})
    BY <1>1, RestoredIs
  <2>3. \A k \in 1..i : k \in 1..j /\ k < j
    BY <1>1
  <2> HIDE DEF r, q, j
  <2> QED BY <2>1, <2>2, <2>3
<1>4. q[j] = x
  <2>1. j \in 1..j /\ ~(j < j)
    BY <1>1
  <2>2. q[j] = Part(W[j], {})
    BY <1>1, <2>1, RestoredIs
  <2>3. [k \in {} |-> W[j].overrides[k]] = NoOverrides
    BY DEF NoOverrides
  <2> HIDE DEF q, j
  <2> QED BY <2>2, <2>3 DEF Part
<1> HIDE DEF j, r, q, x, n
<1> DEFINE s == B \o r
           l == Append(s, x)
           m == B \o q
<1>5. IsList(s) /\ Len(s) = n + i
      /\ \A k \in 1..n + i : s[k] = IF k <= n THEN B[k] ELSE r[k - n]
  BY <1>2, ListJoined DEF n
<1>6. IsList(m) /\ Len(m) = n + j
      /\ \A k \in 1..n + j : m[k] = IF k <= n THEN B[k] ELSE q[k - n]
  BY <1>2, ListJoined DEF n
<1> HIDE DEF s, m
<1>7. IsList(l) /\ Len(l) = n + i + 1
      /\ \A k \in 1..n + i + 1 : l[k] = IF k <= n + i THEN s[k] ELSE x
  BY <1>5, ListGrown
<1> HIDE DEF l
<1>8. n + i + 1 = n + j /\ j = i + 1
  BY <1>1 DEF j
<1>9. ASSUME NEW k \in 1..n + j PROVE l[k] = m[k]
  <2>1. k \in 1..n + i + 1
    BY <1>8
  <2>2. CASE k <= n
    <3>1. k \in 1..n + i /\ k <= n + i
      BY <1>1, <2>1, <2>2
    <3> QED BY <1>5, <1>6, <1>7, <2>1, <2>2, <3>1
  <2>3. CASE ~(k <= n) /\ k <= n + i
    <3>1. k \in 1..n + i /\ k - n \in 1..i
      BY <1>1, <2>1, <2>3
    <3>2. l[k] = s[k]
      BY <1>7, <2>1, <2>3
    <3>3. s[k] = r[k - n] /\ m[k] = q[k - n]
      BY <1>5, <1>6, <2>3, <3>1
    <3> QED BY <1>3, <3>1, <3>2, <3>3
  <2>4. CASE ~(k <= n + i)
    <3>1. k - n = j /\ ~(k <= n)
      BY <1>1, <1>8, <2>1, <2>4
    <3>2. l[k] = x /\ m[k] = q[k - n]
      BY <1>6, <1>7, <2>1, <2>4, <3>1
    <3> QED BY <1>4, <3>1, <3>2
  <2> QED BY <2>2, <2>3, <2>4
<1>10. l = m
  BY <1>6, <1>7, <1>8, <1>9, ListSame
<1> QED BY <1>10 DEF l, m, s, r, q, x, j

Resets(B, W, i, D, x) ==
  /\ B \o Restored(W, i, D) # <<>>
  /\ SetLast(B \o Restored(W, i, D), x, W[i].overrides[x]) = B \o Restored(W, i, D \cup {x})

\* The next !set gives the newest one its override.
LEMMA RestoredSet ==
  ASSUME NEW B, IsList(B), NEW W, IsScopes(W), NEW i \in 1..Len(W), NEW D, NEW x
  PROVE  Resets(B, W, i, D, x)
<1> DEFINE r == Restored(W, i, D)
           q == Restored(W, i, D \cup {x})
           v == W[i].overrides[x]
           n == Len(B)
           s == B \o r
           m == B \o q
           l == SetLast(s, x, v)
           e(y) == [y EXCEPT !.overrides = Overriding(@, x, v)]
<1>1. n \in Nat /\ i \in Nat /\ i > 0 /\ n + i \in Nat /\ n + i > 0
  BY ListIs DEF IsScopes
<1>2. IsList(r) /\ Len(r) = i /\ IsList(q) /\ Len(q) = i
  BY <1>1, RestoredIs
<1>3. /\ \A k \in 1..i : r[k] = IF k < i THEN W[k] ELSE Part(W[i], D)
      /\ \A k \in 1..i : q[k] = IF k < i THEN W[k] ELSE Part(W[i], D \cup {x})
  BY <1>1, RestoredIs
<1>4. e(Part(W[i], D)) = Part(W[i], D \cup {x})
  <2> DEFINE f == [k \in D |-> W[i].overrides[k]]
             g == [k \in D \cup {x} |-> W[i].overrides[k]]
             nm == W[i].name
  <2>1. Overriding(f, x, v) = g
    BY DEF Overriding
  <2>2. Part(W[i], D) = [name |-> nm, overrides |-> f]
        /\ Part(W[i], D \cup {x}) = [name |-> nm, overrides |-> g]
    BY DEF Part
  <2> HIDE DEF f, g, v, nm
  <2>3. [[name |-> nm, overrides |-> f] EXCEPT !.overrides = Overriding(@, x, v)]
          = [name |-> nm, overrides |-> Overriding(f, x, v)]
    OBVIOUS
  <2> QED BY <2>1, <2>2, <2>3
<1> HIDE DEF r, q, v, n, e
<1>5. IsList(s) /\ Len(s) = n + i
      /\ \A k \in 1..n + i : s[k] = IF k <= n THEN B[k] ELSE r[k - n]
  BY <1>2, ListJoined DEF n
<1>6. IsList(m) /\ Len(m) = n + i
      /\ \A k \in 1..n + i : m[k] = IF k <= n THEN B[k] ELSE q[k - n]
  BY <1>2, ListJoined DEF n
<1> HIDE DEF s, m
<1>7. s # <<>>
  BY <1>1, <1>5
<1>8. IsList(l) /\ Len(l) = n + i
      /\ \A k \in 1..n + i : l[k] = IF k = n + i THEN e(s[k]) ELSE s[k]
  BY <1>5, <1>7, LastSet DEF e
<1> HIDE DEF l
<1>9. ASSUME NEW k \in 1..n + i PROVE l[k] = m[k]
  <2>1. CASE k <= n
    <3>1. k # n + i
      BY <1>1, <2>1
    <3> QED BY <1>5, <1>6, <1>8, <2>1, <3>1
  <2>2. CASE ~(k <= n) /\ k # n + i
    <3>1. k - n \in 1..i /\ k - n < i
      BY <1>1, <2>2
    <3>2. l[k] = r[k - n] /\ m[k] = q[k - n]
      BY <1>5, <1>6, <1>8, <2>2
    <3> QED BY <1>3, <3>1, <3>2
  <2>3. CASE k = n + i
    <3>1. k - n = i /\ ~(k <= n) /\ i \in 1..i /\ ~(i < i)
      BY <1>1, <2>3
    <3>2. s[k] = Part(W[i], D) /\ m[k] = Part(W[i], D \cup {x})
      BY <1>3, <1>5, <1>6, <3>1
    <3>3. l[k] = e(s[k])
      BY <1>8, <2>3
    <3> QED BY <1>4, <3>2, <3>3
  <2> QED BY <2>1, <2>2, <2>3
<1>10. l = m
  BY <1>6, <1>8, <1>9, ListSame
<1> QED BY <1>7, <1>10 DEF Resets, l, m, s, r, q, v

-----------------------------------------------------------------------------
(* What a line does when it is run, from the words that Lex made of it.    *)

\* A workspace, as it is changed.
IsAfter(a) ==
  a \in [path : Seq(Bytes), label : Seq(Bytes), scopes : Seq(Range(a.scopes))]
\* All but one field of a workspace is what it was.
Kept(a, b, f) ==
  /\ f # "path" => b.path = a.path
  /\ f # "label" => b.label = a.label
  /\ f # "scopes" => b.scopes = a.scopes

\* A path or a label is set and nothing else.
LEMMA PathSet ==
  ASSUME NEW a, IsAfter(a), NEW x \in Seq(Bytes)
  PROVE  LET p == [a EXCEPT !.path = x]
             l == [a EXCEPT !.label = x]
         IN  /\ IsAfter(p) /\ Kept(a, p, "path") /\ p.path = x
             /\ IsAfter(l) /\ Kept(a, l, "label") /\ l.label = x
<1> DEFINE T == Seq(Bytes)
           C == Seq(Range(a.scopes))
           p == [a EXCEPT !.path = x]
           l == [a EXCEPT !.label = x]
<1>1. a \in [path : T, label : T, scopes : C] /\ x \in T
  BY DEF IsAfter
<1> HIDE DEF T, C
<1>2. p.path = x /\ p.label = a.label /\ p.scopes = a.scopes
  BY <1>1
<1>3. l.path = a.path /\ l.label = x /\ l.scopes = a.scopes
  BY <1>1
<1>4. p \in [path : T, label : T, scopes : C] /\ l \in [path : T, label : T, scopes : C]
  BY <1>1
<1> HIDE DEF p, l
<1>5. IsAfter(p) /\ IsAfter(l)
  BY <1>2, <1>3, <1>4 DEF IsAfter, T, C
<1>6. Kept(a, p, "path") /\ Kept(a, l, "label")
  BY <1>2, <1>3 DEF Kept
<1> QED BY <1>2, <1>3, <1>5, <1>6 DEF p, l

\* The scopes are changed and nothing else.
LEMMA ScopesSet ==
  ASSUME NEW a, IsAfter(a), NEW y, IsList(y)
  PROVE  LET s == [a EXCEPT !.scopes = y]
         IN  IsAfter(s) /\ Kept(a, s, "scopes") /\ s.scopes = y
<1> DEFINE T == Seq(Bytes)
           C == Seq(Range(a.scopes))
           D == Seq(Range(y))
           s == [a EXCEPT !.scopes = y]
<1>1. a \in [path : T, label : T, scopes : C] /\ y \in D
  BY DEF IsAfter, IsList
<1> HIDE DEF T, C, D
<1>2. s.path = a.path /\ s.label = a.label /\ s.scopes = y
  BY <1>1
<1>3. s \in [path : T, label : T, scopes : D]
  BY <1>1
<1> HIDE DEF s
<1>4. IsAfter(s)
  BY <1>2, <1>3 DEF IsAfter, T, D
<1>5. Kept(a, s, "scopes")
  BY <1>2 DEF Kept
<1> QED BY <1>2, <1>4, <1>5 DEF s

\* The words are the values of the tokens.
LEMMA WordsAre ==
  ASSUME tokens \in Seq(TokenSet)
  PROVE  /\ Len(Words) = Len(tokens) /\ Len(tokens) \in Nat
         /\ \A k \in 1..Len(tokens) : Words[k] = tokens[k].value /\ Words[k] \in Seq(Bytes)
<1> DEFINE n == Len(tokens)
           w == Words
<1>1. n \in Nat /\ DOMAIN tokens = 1..n /\ \A k \in 1..n : tokens[k] \in TokenSet
  OBVIOUS
<1>2. w = [k \in 1..n |-> tokens[k].value]
  BY <1>1 DEF Words
<1> HIDE DEF w, n
<1>3. \A k \in 1..n : w[k] = tokens[k].value
  BY <1>2
<1>4. \A k \in 1..n : tokens[k].value \in Seq(Bytes)
  BY <1>1 DEF TokenSet
<1>5. w = [k \in 1..n |-> w[k]]
  BY <1>2
<1>6. Len(w) = n
  BY <1>1, <1>5, ListOf
<1> QED BY <1>1, <1>3, <1>4, <1>6 DEF w, n

\* What each command does, and nothing else.
LEMMA Ran ==
  ASSUME RunLine, IsAfter(after), tokens \in Seq(TokenSet)
  PROVE  /\ IsAfter(after')
         /\ Words[1] = <<"cd">> =>
              /\ Kept(after, after', "path")
              /\ Len(Words) >= 2 /\ Words[2] \in Dirs => after'.path = Words[2]
         /\ Words[1] = <<"!label">> =>
              /\ Kept(after, after', "label")
              /\ Len(Words) >= 2 => after'.label = Words[2]
         /\ Words[1] = <<"!new">> =>
              /\ Kept(after, after', "scopes")
              /\ after'.scopes =
                   IF Len(Words) >= 3
                     THEN Append(after.scopes, [name |-> Words[3], overrides |-> NoOverrides])
                     ELSE after.scopes
         /\ Words[1] = <<"!set">> =>
              /\ Kept(after, after', "scopes")
              /\ after'.scopes =
                   IF Len(Words) >= 3 /\ after.scopes # <<>>
                     THEN SetLast(after.scopes, Words[2], Words[3]) ELSE after.scopes
<1> DEFINE w == Words
           s == after.scopes
           cd == <<"cd">>
           lb == <<"!label">>
           nw == <<"!new">>
           st == <<"!set">>
           p == [after EXCEPT !.path = w[2]]
           l == [after EXCEPT !.label = w[2]]
           x == [name |-> w[3], overrides |-> NoOverrides]
           n == [after EXCEPT !.scopes = Append(@, x)]
           t == [after EXCEPT !.scopes = SetLast(@, w[2], w[3])]
<1>1. cd # lb /\ cd # nw /\ cd # st /\ lb # nw /\ lb # st /\ nw # st
  OBVIOUS
<1>2. after' =
       CASE w[1] = cd /\ Len(w) >= 2 /\ w[2] \in Dirs -> p
         [] w[1] = lb /\ Len(w) >= 2 -> l
         [] w[1] = nw /\ Len(w) >= 3 -> n
         [] w[1] = st /\ Len(w) >= 3 /\ s # <<>> -> t
         [] OTHER -> after
  BY DEF RunLine, Says
<1>3. Len(w) >= 2 => w[2] \in Seq(Bytes)
  <2>1. Len(w) \in Nat /\ \A k \in 1..Len(w) : w[k] \in Seq(Bytes)
    BY WordsAre
  <2> HIDE DEF w
  <2> QED BY <2>1
<1>4. IsList(s) /\ IsList(Append(s, x))
  <2>1. IsList(s)
    BY DEF IsAfter, IsList
  <2> HIDE DEF s, x
  <2> QED BY <2>1, ListGrown
<1>5. s # <<>> => IsList(SetLast(s, w[2], w[3]))
  <2> HIDE DEF s, w
  <2> QED BY <1>4, LastSet
<1> HIDE DEF w, cd, lb, nw, st
<1>6. ASSUME Len(w) >= 2
      PROVE  /\ IsAfter(p) /\ Kept(after, p, "path") /\ p.path = w[2]
             /\ IsAfter(l) /\ Kept(after, l, "label") /\ l.label = w[2]
  <2> DEFINE v == w[2]
  <2>1. v \in Seq(Bytes)
    BY <1>3, <1>6
  <2> HIDE DEF v
  <2>2. LET p1 == [after EXCEPT !.path = v]
            l1 == [after EXCEPT !.label = v]
        IN  /\ IsAfter(p1) /\ Kept(after, p1, "path") /\ p1.path = v
            /\ IsAfter(l1) /\ Kept(after, l1, "label") /\ l1.label = v
    BY <2>1, PathSet
  <2> QED BY <2>2 DEF v
<1>7. IsAfter(n) /\ Kept(after, n, "scopes") /\ n.scopes = Append(s, x)
  <2> HIDE DEF x
  <2>1. n = [after EXCEPT !.scopes = Append(s, x)]
    OBVIOUS
  <2> DEFINE y == Append(s, x)
             m == [after EXCEPT !.scopes = y]
  <2>2. IsList(y) /\ n = m
    BY <1>4, <2>1
  <2> HIDE DEF y, s, n
  <2>3. IsAfter(m) /\ Kept(after, m, "scopes") /\ m.scopes = y
    BY <2>2, ScopesSet
  <2> HIDE DEF m
  <2> QED BY <2>2, <2>3 DEF y
<1>8. ASSUME s # <<>>
      PROVE  IsAfter(t) /\ Kept(after, t, "scopes") /\ t.scopes = SetLast(s, w[2], w[3])
  <2>1. t = [after EXCEPT !.scopes = SetLast(s, w[2], w[3])]
    OBVIOUS
  <2> DEFINE y == SetLast(s, w[2], w[3])
  <2> HIDE DEF y, t
  <2> DEFINE m == [after EXCEPT !.scopes = y]
  <2>2. IsList(y) /\ t = m
    BY <1>5, <1>8, <2>1 DEF y
  <2>3. IsAfter(m) /\ Kept(after, m, "scopes") /\ m.scopes = y
    BY <2>2, ScopesSet
  <2> HIDE DEF m
  <2> QED BY <2>2, <2>3 DEF y
<1>9. \A f : Kept(after, after, f)
  BY DEF Kept
<1> HIDE DEF p, l, n, t, s, x
<1> DEFINE b == after'
           fields == {"path", "label", "scopes"}
<1>10. /\ IsAfter(b)
       /\ w[1] = cd => Kept(after, b, "path") /\ (Len(w) >= 2 /\ w[2] \in Dirs => b.path = w[2])
       /\ w[1] = lb => Kept(after, b, "label") /\ (Len(w) >= 2 => b.label = w[2])
       /\ w[1] = nw => Kept(after, b, "scopes")
                         /\ b.scopes = IF Len(w) >= 3 THEN Append(s, x) ELSE s
       /\ w[1] = st => Kept(after, b, "scopes")
                         /\ b.scopes = IF Len(w) >= 3 /\ s # <<>> THEN SetLast(s, w[2], w[3]) ELSE s
  <2>1. s = after.scopes
    BY DEF s
  <2> HIDE DEF b
  <2>2. CASE w[1] = cd /\ Len(w) >= 2 /\ w[2] \in Dirs
    BY <1>1, <1>2, <1>6, <2>2 DEF b
  <2>3. CASE w[1] = lb /\ Len(w) >= 2
    BY <1>1, <1>2, <1>6, <2>3 DEF b
  <2>4. CASE w[1] = nw /\ Len(w) >= 3
    BY <1>1, <1>2, <1>7, <2>4 DEF b
  <2>5. CASE w[1] = st /\ Len(w) >= 3 /\ s # <<>>
    BY <1>1, <1>2, <1>8, <2>5 DEF b
  <2>6. CASE /\ ~(w[1] = cd /\ Len(w) >= 2 /\ w[2] \in Dirs)
             /\ ~(w[1] = lb /\ Len(w) >= 2) /\ ~(w[1] = nw /\ Len(w) >= 3)
             /\ ~(w[1] = st /\ Len(w) >= 3 /\ s # <<>>)
    <3>1. b = after
      BY <1>2, <2>6 DEF b
    <3> QED BY <1>1, <1>9, <2>1, <2>6, <3>1
  <2> QED BY <2>2, <2>3, <2>4, <2>5, <2>6
<1> QED BY <1>10 DEF w, s, x, cd, lb, nw, st

\* Lex is done with a line: its tokens are what the line gives, and its first
\* word and the number of its words follow from the bytes it begins with.
AtEnd == LexInv /\ rule = "done"

\* The tokens are what the line gives.
LEMMA TokensGiven ==
  ASSUME AtEnd, NEW out, Gives(text, out)
  PROVE  tokens = out
<1>1. SplitsAsRead
  BY ReadAtEnd DEF AtEnd, LexInv
<1> QED BY <1>1 DEF SplitsAsRead, Gives, AtEnd

\* A line begins with a word of one byte, or with three.
Opens(l, c) == 2 <= Len(l) /\ l[1] = c /\ l[2] = " "
OpensThree(l) ==
  /\ 5 <= Len(l) /\ l[1] \in Solid /\ l[2] = " " /\ l[3] \in Solid
  /\ l[4] = " " /\ l[5] \in Solid

\* It is not empty then.
LEMMA OpensNotEmpty == ASSUME NEW l, NEW c, Opens(l, c) PROVE l # <<>>
<1>1. 2 <= Len(l)
  BY DEF Opens
<1>2. Len(<<>>) = 0
  OBVIOUS
<1> QED BY <1>1, <1>2

\* The command is the word it begins with, whatever comes after it.
LEMMA CommandOf ==
  ASSUME AtEnd, NEW c, c \in Solid, Opens(text, c)
  PROVE  tokens \in Seq(TokenSet) /\ Words[1] = <<c>>
<1>1. Known(2)
  <2>1. \A n \in Nat : 2 * n + 1 <= 2 => n = 0
    OBVIOUS
  <2>2. \A n \in Nat : n > 0 /\ 2 * n <= 2 => n = 1
    OBVIOUS
  <2>3. 2 <= Len(text) /\ text[1] \in Solid /\ text[2] = " "
    BY DEF Opens
  <2>4. \A n \in Nat : 2 * n + 1 <= 2 => text[2 * n + 1] \in Solid
    <3>1. 2 * 0 + 1 = 1
      OBVIOUS
    <3> QED BY <2>1, <2>3, <3>1
  <2>5. \A n \in Nat : n > 0 /\ 2 * n <= 2 => text[2 * n] = " "
    <3>1. 2 * 1 = 2
      OBVIOUS
    <3> QED BY <2>2, <2>3, <3>1
  <2> QED BY <2>3, <2>4, <2>5 DEF Known
<1>2. tokens # <<>> /\ tokens[1].value = <<text[1]>> /\ tokens \in Seq(TokenSet)
  BY <1>1, WordsOfKnown DEF AtEnd
<1>3. 1 \in 1..Len(tokens)
  BY <1>2
<1>4. Words[1] = tokens[1].value
  BY <1>2, <1>3, WordsAre
<1>5. text[1] = c
  BY DEF Opens
<1> QED BY <1>2, <1>4, <1>5

\* A line that begins with three words has them, whatever comes after them.
LEMMA ThreeWords ==
  ASSUME AtEnd, OpensThree(text)
  PROVE  Len(Words) >= 3
<1>1. Known(5)
  <2>1. \A n \in Nat : 2 * n + 1 <= 5 => n = 0 \/ n = 1 \/ n = 2
    OBVIOUS
  <2>2. \A n \in Nat : n > 0 /\ 2 * n <= 5 => n = 1 \/ n = 2
    OBVIOUS
  <2>3. /\ 5 <= Len(text) /\ text[1] \in Solid /\ text[2] = " " /\ text[3] \in Solid
        /\ text[4] = " " /\ text[5] \in Solid
    BY DEF OpensThree
  <2>4. \A n \in Nat : 2 * n + 1 <= 5 => text[2 * n + 1] \in Solid
    <3>1. 2 * 0 + 1 = 1 /\ 2 * 1 + 1 = 3 /\ 2 * 2 + 1 = 5
      OBVIOUS
    <3> QED BY <2>1, <2>3, <3>1
  <2>5. \A n \in Nat : n > 0 /\ 2 * n <= 5 => text[2 * n] = " "
    <3>1. 2 * 1 = 2 /\ 2 * 2 = 4
      OBVIOUS
    <3> QED BY <2>2, <2>3, <3>1
  <2> QED BY <2>3, <2>4, <2>5 DEF Known
<1>2. 2 * Len(tokens) >= 5 /\ tokens \in Seq(TokenSet)
  BY <1>1, WordsOfKnown DEF AtEnd
<1>3. Len(Words) = Len(tokens) /\ Len(tokens) \in Nat
  BY <1>2, WordsAre
<1> QED BY <1>2, <1>3

\* The bytes that a line begins with.
Fronted(a, l) == Len(l) >= Len(a) /\ \A k \in 1..Len(a) : l[k] = a[k]
NextOne(a, b, l) == b # <<>> => Len(l) > Len(a) /\ l[Len(a) + 1] = b[1]

\* A text with another after it begins with its own bytes.
LEMMA Begins ==
  ASSUME NEW a \in Seq(Bytes), NEW b \in Seq(Bytes)
  PROVE  a \o b \in Seq(Bytes) /\ Fronted(a, a \o b) /\ NextOne(a, b, a \o b)
<1> DEFINE m == Len(a)
           n == Len(b)
           l == a \o b
<1>1. /\ m \in Nat /\ n \in Nat /\ Len(l) = m + n
      /\ \A k \in 1..m + n : l[k] = IF k <= m THEN a[k] ELSE b[k - m]
  BY ConcatProperties
<1>2. b # <<>> => n > 0
  OBVIOUS
<1> HIDE DEF m, n, l
<1>3. \A k \in 1..m : k \in 1..m + n /\ k <= m
  BY <1>1
<1>4. n > 0 => m + 1 \in 1..m + n /\ ~(m + 1 <= m) /\ (m + 1) - m = 1
  BY <1>1
<1>5. Fronted(a, l)
  BY <1>1, <1>3 DEF Fronted, m
<1>6. NextOne(a, b, l)
  BY <1>1, <1>2, <1>4 DEF NextOne, m
<1> QED BY <1>5, <1>6, ConcatProperties DEF l

\* How each line opens.
LEMMA OpensText ==
  ASSUME NEW c \in Solid, NEW s \in Seq(Bytes), NEW l, l = TextCommand(c, s)
  PROVE  Opens(l, c)
<1> DEFINE x == " "
           h == <<c, x>>
           q == Quote(s)
<1>1. q \in Seq(Bytes)
  BY QuoteIs
<1>2. c \in Bytes /\ x \in Bytes
  BY DEF Solid, Bytes, Letters, Commands, Spaces
<1>3. l = h \o q
  BY DEF TextCommand
<1> HIDE DEF x, q
<1>4. h \in Seq(Bytes) /\ Len(h) = 2 /\ h[1] = c /\ h[2] = x
  BY <1>2
<1> HIDE DEF h
<1>5. Fronted(h, l)
  BY <1>1, <1>3, <1>4, Begins
<1>6. l[1] = c /\ l[2] = x /\ 2 <= Len(l)
  BY <1>4, <1>5 DEF Fronted
<1> QED BY <1>6 DEF Opens, x

\* So does the line of a scope, with three if its name begins with a letter.
LEMMA OpensNew ==
  ASSUME NEW scope, scope.name \in Seq(Bytes), NEW l, l = NewCommand(scope)
  PROVE  /\ Opens(l, "!new")
         /\ scope.name # <<>> /\ scope.name[1] \in Letters => OpensThree(l)
<1> DEFINE n == "!new"
           m == "s"
           x == " "
           h == <<n, x, m, x>>
           s == scope.name
<1>1. n \in Bytes /\ m \in Bytes /\ x \in Bytes /\ n \in Solid /\ m \in Solid
  BY DEF Solid, Bytes, Letters, Commands, Spaces
<1>0. x = " "
  OBVIOUS
<1>2. l = h \o s /\ s \in Seq(Bytes)
  BY DEF NewCommand
<1> HIDE DEF n, m, x, s
<1>3. h \in Seq(Bytes) /\ Len(h) = 4 /\ h[1] = n /\ h[2] = x /\ h[3] = m /\ h[4] = x
  BY <1>1
<1> HIDE DEF h
<1>4. l \in Seq(Bytes) /\ Fronted(h, l) /\ NextOne(h, s, l)
  BY <1>2, <1>3, Begins
<1>5. l[1] = n /\ l[2] = x /\ l[3] = m /\ l[4] = x
  BY <1>3, <1>4 DEF Fronted
<1>6. Len(l) \in Nat /\ Len(l) >= 4 /\ 2 <= Len(l)
  BY <1>3, <1>4 DEF Fronted
<1>7. Opens(l, n)
  BY <1>0, <1>5, <1>6 DEF Opens
<1>8. ASSUME s # <<>>, s[1] \in Letters PROVE OpensThree(l)
  <2>1. s[1] \in Solid
    BY <1>8 DEF Solid
  <2>2. 5 <= Len(l) /\ l[5] \in Solid
    BY <1>3, <1>4, <1>6, <1>8, <2>1 DEF NextOne
  <2> QED BY <1>0, <1>1, <1>5, <2>2 DEF OpensThree
<1> QED BY <1>7, <1>8 DEF n, s

\* So does the line of an override.
LEMMA OpensSet ==
  ASSUME NEW scope, NEW key \in Seq(Bytes), scope.overrides[key] \in Seq(Bytes),
         NEW l, l = SetCommand(scope, key)
  PROVE  Opens(l, "!set")
<1> DEFINE n == "!set"
           x == " "
           h == <<n, x>>
           g == <<x>>
           a == Quote(key)
           b == Quote(scope.overrides[key])
           u == h \o a
           v == u \o g
<1>1. n \in Bytes /\ x \in Bytes
  BY DEF Bytes, Commands, Spaces
<1>2. x = " "
  OBVIOUS
<1>3. a \in Seq(Bytes) /\ b \in Seq(Bytes)
  BY QuoteIs
<1>4. l = v \o b
  BY DEF SetCommand
<1> HIDE DEF n, x, a, b
<1>5. h \in Seq(Bytes) /\ g \in Seq(Bytes) /\ Len(h) = 2 /\ h[1] = n /\ h[2] = x
  <2>1. h \in Seq(Bytes) /\ Len(h) = 2 /\ h[1] = n /\ h[2] = x
    BY <1>1
  <2>2. g \in Seq(Bytes)
    BY <1>1, ShortTexts
  <2> QED BY <2>1, <2>2
<1> HIDE DEF h, g
<1>6. u \in Seq(Bytes) /\ Fronted(h, u)
  BY <1>3, <1>5, Begins
<1> HIDE DEF u
<1>7. v \in Seq(Bytes) /\ Fronted(u, v)
  BY <1>5, <1>6, Begins
<1> HIDE DEF v
<1>8. l \in Seq(Bytes) /\ Fronted(v, l)
  BY <1>3, <1>4, <1>7, Begins
<1>9. u[1] = n /\ u[2] = x /\ 2 <= Len(u) /\ Len(u) \in Nat
  BY <1>5, <1>6 DEF Fronted
<1>10. v[1] = n /\ v[2] = x /\ 2 <= Len(v) /\ Len(v) \in Nat
  BY <1>7, <1>9 DEF Fronted
<1>11. l[1] = n /\ l[2] = x /\ 2 <= Len(l)
  BY <1>8, <1>10 DEF Fronted
<1> QED BY <1>2, <1>11 DEF Opens, n

\* A word that processTokens takes as it is.
Worded(t) == t.type \in {"Identifier", "String"}
LEMMA WordedTokens ==
  /\ \A c : Worded(Ident(c))
  /\ \A s : Worded(Str(s)) /\ Worded(Token("Identifier", s))
BY DEF Worded, Ident, Str, Token

\* A line of such words is one command.
LEMMA OneCommandOf ==
  ASSUME tokens \in Seq(TokenSet), \A k \in 1..Len(tokens) : Worded(tokens[k])
  PROVE  OneCommand
<1>1. DOMAIN tokens = 1..Len(tokens)
  OBVIOUS
<1>2. \A k \in DOMAIN tokens : tokens[k].type \in {"Identifier", "String"}
  BY <1>1, Zenon DEF Worded
<1>3. \A x : x \in {"Identifier", "String"} => x \in {"Identifier", "String", "Number", "Symbol"}
  OBVIOUS
<1> QED BY <1>2, <1>3, Zenon DEF OneCommand

\* Of two words, or three.
LEMMA OneCommandOf2 ==
  ASSUME NEW a \in TokenSet, NEW b \in TokenSet, tokens = Listed2(a, b), Worded(a), Worded(b)
  PROVE  OneCommand
<1> DEFINE l == Listed2(a, b)
<1>1. l \in Seq(TokenSet) /\ Len(l) = 2 /\ l[1] = a /\ l[2] = b
  BY Listed
<1>2. \A k \in 1..2 : k = 1 \/ k = 2
  OBVIOUS
<1> HIDE DEF l
<1>3. \A k \in 1..2 : Worded(l[k])
  BY <1>1, <1>2, Zenon
<1>4. tokens \in Seq(TokenSet) /\ Len(tokens) = 2 /\ \A k \in 1..2 : Worded(tokens[k])
  BY <1>1, <1>3, Zenon DEF l
<1>5. \A k \in 1..Len(tokens) : Worded(tokens[k])
  BY <1>4
<1> QED BY <1>4, <1>5, OneCommandOf

LEMMA OneCommandOf3 ==
  ASSUME NEW a \in TokenSet, NEW b \in TokenSet, NEW c \in TokenSet,
         tokens = Listed3(a, b, c), Worded(a), Worded(b), Worded(c)
  PROVE  OneCommand
<1> DEFINE l == Listed3(a, b, c)
<1>1. l \in Seq(TokenSet) /\ Len(l) = 3 /\ l[1] = a /\ l[2] = b /\ l[3] = c
  BY Listed
<1>2. \A k \in 1..3 : k = 1 \/ k = 2 \/ k = 3
  OBVIOUS
<1> HIDE DEF l
<1>3. \A k \in 1..3 : Worded(l[k])
  BY <1>1, <1>2, Zenon
<1>4. tokens \in Seq(TokenSet) /\ Len(tokens) = 3 /\ \A k \in 1..3 : Worded(tokens[k])
  BY <1>1, <1>3, Zenon DEF l
<1>5. \A k \in 1..Len(tokens) : Worded(tokens[k])
  BY <1>4
<1> QED BY <1>4, <1>5, OneCommandOf

\* The words of each line of a file.
LEMMA TextWords ==
  ASSUME AtEnd, NEW c \in Commands, NEW s \in Seq(Bytes), text = TextCommand(c, s)
  PROVE  /\ tokens \in Seq(TokenSet) /\ Words[1] = <<c>>
         /\ Unescaped(s) => Len(Words) >= 2 /\ Words[2] = s /\ OneCommand
<1>1. c \in Solid
  BY DEF Solid
<1>2. tokens \in Seq(TokenSet) /\ Words[1] = <<c>>
  BY <1>1, OpensText, CommandOf
<1>3. ASSUME Unescaped(s) PROVE Len(Words) >= 2 /\ Words[2] = s /\ OneCommand
  <2> DEFINE a == Ident(c)
             b == Str(s)
             l == Listed2(a, b)
  <2>1. a \in TokenSet /\ b \in TokenSet /\ b.value = s
    BY <1>1, TokensTyped DEF Str, Token
  <2>2. tokens = l
    BY <1>3, TextLine, TokensGiven
  <2> HIDE DEF a, b
  <2>3. Len(l) = 2 /\ l[2] = b
    BY <2>1, Listed
  <2> HIDE DEF l
  <2>4. Len(Words) = 2 /\ Words[2] = b.value
    BY <1>2, <2>2, <2>3, WordsAre
  <2>5. OneCommand
    <3>1. Worded(a) /\ Worded(b)
      BY WordedTokens, Zenon DEF a, b
    <3> QED BY <2>1, <2>2, <3>1, OneCommandOf2, Zenon DEF l
  <2> QED BY <2>1, <2>4, <2>5
<1> QED BY <1>2, <1>3

\* Of a scope: the command, and a third word if the name begins with a letter.
LEMMA NewWords ==
  ASSUME AtEnd, NEW scope, scope.name \in Seq(Bytes), text = NewCommand(scope)
  PROVE  /\ tokens \in Seq(TokenSet) /\ Words[1] = <<"!new">>
         /\ scope.name # <<>> /\ scope.name[1] \in Letters => Len(Words) >= 3
         /\ OneWord(scope.name) => Len(Words) >= 3 /\ Words[3] = scope.name /\ OneCommand
<1> DEFINE n == "!new"
           m == "s"
           s == scope.name
<1>1. n \in Solid /\ m \in Solid
  BY DEF Solid, Commands, Letters
<1>2. Opens(text, n) /\ (s # <<>> /\ s[1] \in Letters => OpensThree(text))
  BY OpensNew
<1>3. /\ OneWord(s) => Gives(text, Listed3(Ident(n), Ident(m), Token("Identifier", s)))
      /\ s \in Seq(Bytes)
  BY NewLine
<1> HIDE DEF n, m, s
<1>4. tokens \in Seq(TokenSet) /\ Words[1] = <<n>>
  BY <1>1, <1>2, CommandOf
<1>5. s # <<>> /\ s[1] \in Letters => Len(Words) >= 3
  BY <1>2, ThreeWords
<1>6. ASSUME OneWord(s) PROVE Len(Words) >= 3 /\ Words[3] = s /\ OneCommand
  <2> DEFINE a == Ident(n)
             b == Ident(m)
             c == Token("Identifier", s)
             l == Listed3(a, b, c)
  <2>1. a \in TokenSet /\ b \in TokenSet /\ c \in TokenSet /\ c.value = s
    BY <1>1, <1>3, TokensTyped DEF Token
  <2>2. tokens = l
    BY <1>3, <1>6, TokensGiven
  <2> HIDE DEF a, b, c
  <2>3. Len(l) = 3 /\ l[3] = c
    BY <2>1, Listed
  <2> HIDE DEF l
  <2>4. Len(Words) = 3 /\ Words[3] = c.value
    BY <1>4, <2>2, <2>3, WordsAre
  <2>5. OneCommand
    <3>1. Worded(a) /\ Worded(b) /\ Worded(c)
      BY WordedTokens, Zenon DEF a, b, c
    <3> QED BY <2>1, <2>2, <3>1, OneCommandOf3, Zenon DEF l
  <2> QED BY <2>1, <2>4, <2>5
<1> QED BY <1>4, <1>5, <1>6 DEF n, s

\* Of an override: the command, and the two texts if no byte is escaped.
LEMMA SetWords ==
  ASSUME AtEnd, NEW scope, NEW key \in Seq(Bytes), scope.overrides[key] \in Seq(Bytes),
         text = SetCommand(scope, key)
  PROVE  /\ tokens \in Seq(TokenSet) /\ Words[1] = <<"!set">>
         /\ Unescaped(key) /\ Unescaped(scope.overrides[key]) =>
              Len(Words) >= 3 /\ Words[2] = key /\ Words[3] = scope.overrides[key] /\ OneCommand
<1> DEFINE n == "!set"
           v == scope.overrides[key]
<1>1. n \in Solid
  BY DEF Solid, Commands
<1>2. Opens(text, n)
  BY OpensSet
<1>3. /\ Unescaped(key) /\ Unescaped(v) => Gives(text, Listed3(Ident(n), Str(key), Str(v)))
      /\ v \in Seq(Bytes)
  BY SetLine
<1> HIDE DEF n, v
<1>4. tokens \in Seq(TokenSet) /\ Words[1] = <<n>>
  BY <1>1, <1>2, CommandOf
<1>5. ASSUME Unescaped(key), Unescaped(v)
      PROVE  Len(Words) >= 3 /\ Words[2] = key /\ Words[3] = v /\ OneCommand
  <2> DEFINE a == Ident(n)
             b == Str(key)
             c == Str(v)
             l == Listed3(a, b, c)
  <2>1. /\ a \in TokenSet /\ b \in TokenSet /\ c \in TokenSet
        /\ b.value = key /\ c.value = v
    BY <1>1, <1>3, TokensTyped DEF Token, Str
  <2>2. tokens = l
    BY <1>3, <1>5, TokensGiven
  <2> HIDE DEF a, b, c
  <2>3. Len(l) = 3 /\ l[2] = b /\ l[3] = c
    BY <2>1, Listed
  <2> HIDE DEF l
  <2>4. Len(Words) = 3 /\ Words[2] = b.value /\ Words[3] = c.value
    BY <1>4, <2>2, <2>3, WordsAre
  <2>5. OneCommand
    <3>1. Worded(a) /\ Worded(b) /\ Worded(c)
      BY WordedTokens, Zenon DEF a, b, c
    <3> QED BY <2>1, <2>2, <3>1, OneCommandOf3, Zenon DEF l
  <2> QED BY <2>1, <2>4, <2>5
<1> QED BY <1>4, <1>5 DEF n, v

-----------------------------------------------------------------------------
(* The inductive invariant: some of the lines have been run, and the       *)
(* wearer has what they restore.                                           *)

\* No lines before others.
LEMMA NoSets ==
  ASSUME NEW scope, NEW rest \in Lines
  PROVE  Sets(scope, <<>>) \o rest = rest
<1> DEFINE S == Sets(scope, <<>>)
           l == S \o rest
<1>1. S = <<>>
  BY DEF Sets
<1>2. rest \in Seq(Seq(Bytes))
  BY DEF Lines
<1> DEFINE T == Seq(Bytes)
<1> HIDE DEF T
<1>3. rest \in Seq(T)
  BY <1>2 DEF T
<1>4. <<>> \o rest = rest
  BY <1>3
<1> QED BY <1>1, <1>4

\* What is left of a file, of which so many scopes are begun and some keys of the last
\* of them not done yet.
Left(W, o, i, r) ==
  IF i = 0 THEN Remaining(W, o, 0) ELSE Sets(W[i], r) \o Remaining(W, o, i)
Todo(W, i, r, D) ==
  IF i = 0 THEN r = <<>>
  ELSE r \in KeysOf(W[i]) /\ D \cup Range(r) = DOMAIN W[i].overrides

SetAhead(W, o, i, r, D) ==
  /\ i > 0 /\ i \in 1..Len(W) /\ IsScope(W[i]) /\ r[1] \in DOMAIN W[i].overrides
  /\ Todo(W, i, Tail(r), D \cup {r[1]})
  /\ Left(W, o, i, Tail(r)) \in Lines
  /\ Left(W, o, i, r) = <<SetCommand(W[i], r[1])>> \o Left(W, o, i, Tail(r))
NewAhead(W, o, i, r, D) ==
  /\ i < Len(W) /\ i + 1 \in 1..Len(W) /\ IsScope(W[i + 1]) /\ Finished(W, i, D)
  /\ Todo(W, i + 1, o[i + 1], {})
  /\ Left(W, o, i + 1, o[i + 1]) \in Lines
  /\ Left(W, o, i, r) = <<NewCommand(W[i + 1])>> \o Left(W, o, i + 1, o[i + 1])
NothingAhead(W, o, i, r, D) ==
  Left(W, o, i, r) = <<>> /\ i = Len(W) /\ Finished(W, i, D)

\* After a scope comes the next, if there is one.
LEMMA ScopeAhead ==
  ASSUME NEW W, IsScopes(W), NEW o, KeyOrders(W, o), NEW i \in 0..Len(W), NEW r, NEW D,
         Finished(W, i, D), Left(W, o, i, r) = Remaining(W, o, i)
  PROVE  NewAhead(W, o, i, r, D) \/ NothingAhead(W, o, i, r, D)
<1> DEFINE n == Len(W)
<1>1. n \in Nat
  BY DEF IsScopes
<1>2. CASE i = n
  BY <1>2, RemainingIs DEF NothingAhead
<1>3. CASE i < n
  <2> DEFINE j == i + 1
             R == Remaining(W, o, j)
             S == Sets(W[j], o[j])
             x == NewCommand(W[j])
  <2>1. i \in 0..n - 1 /\ j \in 0..n /\ j # 0
    BY <1>1, <1>3
  <2>2. /\ j \in 1..n /\ IsScope(W[j]) /\ o[j] \in KeysOf(W[j])
        /\ Range(o[j]) = DOMAIN W[j].overrides
        /\ Remaining(W, o, i) = <<x>> \o (S \o R) /\ R \in Lines
    BY <2>1, RemainingIs
  <2> HIDE DEF j
  <2>3. S \in Lines
    BY <2>2, SetsTyped
  <2> HIDE DEF R, S, x
  <2>4. S \o R \in Lines
    BY <2>2, <2>3, LinesJoined
  <2>5. Left(W, o, j, o[j]) = S \o R
    BY <2>1 DEF Left, S, R
  <2>6. Todo(W, j, o[j], {})
    BY <2>1, <2>2 DEF Todo
  <2> QED BY <1>3, <2>2, <2>4, <2>5, <2>6 DEF NewAhead, j, x
<1> QED BY <1>1, <1>2, <1>3

\* Either an override comes, or a scope, or nothing.
LEMMA LeftIs ==
  ASSUME NEW W, IsScopes(W), NEW o, KeyOrders(W, o), NEW i \in 0..Len(W), NEW r, NEW D,
         Todo(W, i, r, D)
  PROVE  SetAhead(W, o, i, r, D) \/ NewAhead(W, o, i, r, D) \/ NothingAhead(W, o, i, r, D)
<1>1. Len(W) \in Nat /\ Remaining(W, o, i) \in Lines
  BY RemainingIs DEF IsScopes
<1>2. CASE i = 0
  <2>1. Finished(W, i, D) /\ Left(W, o, i, r) = Remaining(W, o, i)
    BY <1>2 DEF Finished, Left
  <2> QED BY <2>1, ScopeAhead
<1>3. CASE i # 0 /\ r = <<>>
  <2>1. Range(r) = {}
    BY <1>3 DEF Range
  <2>2. Finished(W, i, D)
    BY <1>3, <2>1 DEF Todo, Finished
  <2>3. Left(W, o, i, r) = Remaining(W, o, i)
    BY <1>1, <1>3, NoSets DEF Left
  <2> QED BY <2>2, <2>3, ScopeAhead
<1>4. CASE i # 0 /\ r # <<>>
  <2> DEFINE s == W[i]
             K == DOMAIN s.overrides
             x == SetCommand(s, r[1])
             S == Sets(s, r)
             T == Sets(s, Tail(r))
             R == Remaining(W, o, i)
  <2>1. i \in 1..Len(W) /\ i > 0 /\ IsScope(s)
    BY <1>1, <1>4 DEF IsScopes
  <2>2. r \in KeysOf(s) /\ D \cup Range(r) = K
    BY <1>4 DEF Todo
  <2>3. /\ r[1] \in K /\ Tail(r) \in KeysOf(s) /\ Range(r) = {r[1]} \cup Range(Tail(r))
        /\ S = <<x>> \o T
    BY <1>4, <2>1, <2>2, SetsFirst
  <2>4. T \in Lines
    BY <2>1, <2>3, SetsTyped
  <2>5. <<x>> \in Lines
    <3> DEFINE A == Seq(Bytes)
    <3>1. x \in A
      BY <2>1, <2>3, ScopeIs, SetLine
    <3> HIDE DEF A, x
    <3>2. <<x>> \in Seq(A)
      BY <3>1
    <3> QED BY <3>2 DEF Lines, A
  <2>6. Todo(W, i, Tail(r), D \cup {r[1]})
    <3>1. (D \cup {r[1]}) \cup Range(Tail(r)) = K
      BY <2>2, <2>3
    <3> QED BY <1>4, <2>3, <3>1 DEF Todo
  <2>7. Left(W, o, i, Tail(r)) = T \o R /\ Left(W, o, i, r) = S \o R
    BY <1>4 DEF Left
  <2> HIDE DEF x, S, T, R
  <2>8. T \o R \in Lines /\ (<<x>> \o T) \o R = <<x>> \o (T \o R)
    BY <1>1, <2>4, <2>5, LinesJoined DEF R
  <2> QED BY <2>1, <2>3, <2>6, <2>7, <2>8 DEF SetAhead, x
<1> QED BY <1>2, <1>3, <1>4

-----------------------------------------------------------------------------
\* What the wearer holds after some lines: what there was, and the scopes again if
\* they are plain.
IsNamed(scope) == scope.name # <<>> /\ scope.name[1] \in Letters
Above(B, s, i) ==
  /\ Len(s) >= Len(B) /\ (i > 0 => Len(s) > Len(B))
  /\ \A k \in DOMAIN B : s[k] = B[k]
Held(W, B, s, i, D) ==
  /\ (\A k \in DOMAIN W : Plain(W[k])) => s = B \o Restored(W, i, D)
  /\ (\A k \in DOMAIN W : IsNamed(W[k])) => Above(B, s, i)

\* A !new keeps it, and with its name a scope is above those there were.
LEMMA HeldNew ==
  ASSUME NEW W, IsScopes(W), NEW B, IsList(B), NEW s, IsList(s), NEW i \in 0..Len(W),
         i < Len(W), NEW D, Finished(W, i, D), Held(W, B, s, i, D),
         NEW p \in BOOLEAN, NEW name,
         IsNamed(W[i + 1]) => p, Plain(W[i + 1]) => p /\ name = W[i + 1].name
  PROVE  Held(W, B, IF p THEN Append(s, [name |-> name, overrides |-> NoOverrides]) ELSE s,
              i + 1, {})
<1> DEFINE x == [name |-> name, overrides |-> NoOverrides]
           y == [name |-> W[i + 1].name, overrides |-> NoOverrides]
           t == IF p THEN Append(s, x) ELSE s
<1>1. i + 1 \in DOMAIN W /\ i \in Nat
  BY DEF IsScopes
<1>2. ASSUME \A k \in DOMAIN W : Plain(W[k]) PROVE t = B \o Restored(W, i + 1, {})
  <2>1. s = B \o Restored(W, i, D)
    BY <1>2 DEF Held
  <2>2. p /\ x = y
    BY <1>1, <1>2
  <2>3. Append(B \o Restored(W, i, D), y) = B \o Restored(W, i + 1, {})
    BY RestoredNext
  <2> QED BY <2>1, <2>2, <2>3
<1>3. ASSUME \A k \in DOMAIN W : IsNamed(W[k]) PROVE Above(B, t, i + 1)
  <2>1. Above(B, s, i) /\ p
    BY <1>1, <1>3 DEF Held
  <2>2. Len(B) \in Nat /\ DOMAIN B = 1..Len(B) /\ Len(s) \in Nat
    BY ListIs
  <2> HIDE DEF x
  <2>3. t = Append(s, x)
    BY <2>1
  <2>4. Len(t) = Len(s) + 1 /\ \A k \in 1..Len(s) + 1 : t[k] = IF k <= Len(s) THEN s[k] ELSE x
    BY <2>3, ListGrown
  <2> HIDE DEF t
  <2>5. Len(s) >= Len(B) /\ \A k \in 1..Len(B) : s[k] = B[k]
    BY <2>1, <2>2 DEF Above
  <2>6. \A k \in 1..Len(B) : k \in 1..Len(s) + 1 /\ k <= Len(s)
    BY <2>2, <2>5
  <2>7. \A k \in 1..Len(B) : t[k] = B[k]
    BY <2>4, <2>5, <2>6
  <2>8. Len(t) > Len(B)
    BY <2>2, <2>4, <2>5
  <2>9. Len(t) >= Len(B)
    BY <2>2, <2>4, <2>5
  <2> QED BY <2>2, <2>7, <2>8, <2>9 DEF Above
<1> HIDE DEF t
<1>4. Held(W, B, t, i + 1, {})
  BY <1>2, <1>3 DEF Held
<1> QED BY <1>4 DEF t, x

\* All scopes but the last are what they were.
SameButLast(s, l) == Len(l) = Len(s) /\ \A x \in 1..Len(s) : x # Len(s) => l[x] = s[x]

\* SetLast changes no other.
LEMMA LastKept ==
  ASSUME NEW s, IsList(s), s # <<>>, NEW k, NEW v
  PROVE  SameButLast(s, SetLast(s, k, v))
<1> DEFINE n == Len(s)
           l == SetLast(s, k, v)
           e(y) == [y EXCEPT !.overrides = Overriding(@, k, v)]
<1>1. Len(l) = n /\ \A x \in 1..n : l[x] = IF x = n THEN e(s[x]) ELSE s[x]
  BY LastSet
<1> HIDE DEF n, l, e
<1>2. \A x \in 1..n : x # n => l[x] = s[x]
  BY <1>1
<1> QED BY <1>1, <1>2 DEF SameButLast, n, l

SetIn(p, s, k, v) == IF p /\ s # <<>> THEN SetLast(s, k, v) ELSE s
Gets(p, k, v, key, value) == p /\ k = key /\ v = value

\* A !set keeps it: the newest scope is never one of those there were.
LEMMA HeldSet ==
  ASSUME NEW W, IsScopes(W), NEW B, IsList(B), NEW s, IsList(s), NEW i \in 1..Len(W),
         NEW D, Held(W, B, s, i, D), NEW p \in BOOLEAN, NEW key, NEW k, NEW v,
         Plain(W[i]) => Gets(p, k, v, key, W[i].overrides[key])
  PROVE  Held(W, B, SetIn(p, s, k, v), i, D \cup {key})
<1> DEFINE t == IF p /\ s # <<>> THEN SetLast(s, k, v) ELSE s
<1>1. i \in DOMAIN W /\ i > 0 /\ i \in Nat
  BY DEF IsScopes
<1>2. ASSUME \A x \in DOMAIN W : Plain(W[x]) PROVE t = B \o Restored(W, i, D \cup {key})
  <2> DEFINE u == B \o Restored(W, i, D)
             m == B \o Restored(W, i, D \cup {key})
  <2>1. s = u
    BY <1>2 DEF Held
  <2>2. p /\ k = key /\ v = W[i].overrides[key]
    BY <1>1, <1>2 DEF Gets
  <2>0. Resets(B, W, i, D, key)
    BY RestoredSet
  <2>3. u # <<>> /\ SetLast(u, key, W[i].overrides[key]) = m
    BY <2>0 DEF Resets
  <2> HIDE DEF u, m
  <2>4. t = m
    BY <2>1, <2>2, <2>3
  <2> QED BY <2>4 DEF m
<1>3. ASSUME \A x \in DOMAIN W : IsNamed(W[x]) PROVE Above(B, t, i)
  <2>1. Above(B, s, i)
    BY <1>3 DEF Held
  <2>2. Len(B) \in Nat /\ DOMAIN B = 1..Len(B) /\ Len(s) \in Nat
    BY ListIs
  <2>3. Len(s) > Len(B) /\ \A x \in 1..Len(B) : s[x] = B[x]
    BY <1>1, <2>1, <2>2 DEF Above
  <2>4. CASE p /\ s # <<>>
    <3> DEFINE l == SetLast(s, k, v)
    <3>1. SameButLast(s, l)
      BY <2>4, LastKept
    <3> HIDE DEF l
    <3>2. \A x \in 1..Len(B) : x \in 1..Len(s) /\ x # Len(s)
      BY <2>2, <2>3
    <3>3. \A x \in 1..Len(B) : l[x] = B[x]
      BY <2>3, <3>1, <3>2 DEF SameButLast
    <3>4. Len(l) > Len(B) /\ Len(l) >= Len(B)
      BY <2>2, <2>3, <3>1 DEF SameButLast
    <3>5. Above(B, l, i)
      BY <2>2, <3>3, <3>4 DEF Above
    <3> QED BY <2>4, <3>5 DEF l
  <2>5. CASE ~(p /\ s # <<>>)
    BY <2>1, <2>5
  <2> QED BY <2>4, <2>5
<1> HIDE DEF t
<1>4. Held(W, B, t, i, D \cup {key})
  BY <1>2, <1>3 DEF Held
<1> QED BY <1>4 DEF t, SetIn

\* Before the first scope.
LEMMA HeldNone ==
  ASSUME NEW W, IsScopes(W), NEW B, IsList(B)
  PROVE  Held(W, B, B, 0, {})
<1> DEFINE r == Restored(W, 0, {})
           l == B \o r
<1>1. IsList(r) /\ Len(r) = 0 /\ Len(B) \in Nat /\ DOMAIN B = 1..Len(B)
  BY RestoredIs, ListIs
<1> HIDE DEF r
<1>2. /\ IsList(l) /\ Len(l) = Len(B) + Len(r)
      /\ \A k \in 1..Len(B) + Len(r) : l[k] = IF k <= Len(B) THEN B[k] ELSE r[k - Len(B)]
  BY <1>1, ListJoined
<1> HIDE DEF l
<1>3. Len(l) = Len(B) /\ \A k \in 1..Len(B) : B[k] = l[k]
  BY <1>1, <1>2
<1>4. B = l
  BY <1>2, <1>3, ListSame
<1>5. Above(B, B, 0)
  BY <1>1 DEF Above
<1> QED BY <1>4, <1>5 DEF Held, l, r

\* What a line does, by its command.
LEMMA RanPath ==
  ASSUME RunLine, IsAfter(after), tokens \in Seq(TokenSet), Words[1] = <<"cd">>
  PROVE  /\ IsAfter(after') /\ after'.label = after.label /\ after'.scopes = after.scopes
         /\ Len(Words) >= 2 /\ Words[2] \in Dirs => after'.path = Words[2]
<1>1. /\ IsAfter(after') /\ Kept(after, after', "path")
      /\ Len(Words) >= 2 /\ Words[2] \in Dirs => after'.path = Words[2]
  BY Ran
<1> QED BY <1>1 DEF Kept

\* !label sets the label.
LEMMA RanLabel ==
  ASSUME RunLine, IsAfter(after), tokens \in Seq(TokenSet), Words[1] = <<"!label">>
  PROVE  /\ IsAfter(after') /\ after'.path = after.path /\ after'.scopes = after.scopes
         /\ Len(Words) >= 2 => after'.label = Words[2]
<1>1. /\ IsAfter(after') /\ Kept(after, after', "label")
      /\ Len(Words) >= 2 => after'.label = Words[2]
  BY Ran
<1> QED BY <1>1 DEF Kept

\* !new adds a scope, with its name if it has one.
LEMMA RanNew ==
  ASSUME RunLine, IsAfter(after), tokens \in Seq(TokenSet), Words[1] = <<"!new">>
  PROVE  /\ IsAfter(after') /\ after'.path = after.path /\ after'.label = after.label
         /\ after'.scopes =
              IF Len(Words) >= 3
                THEN Append(after.scopes, [name |-> Words[3], overrides |-> NoOverrides])
                ELSE after.scopes
<1> DEFINE t == IF Len(Words) >= 3
                  THEN Append(after.scopes, [name |-> Words[3], overrides |-> NoOverrides])
                  ELSE after.scopes
<1>1. IsAfter(after') /\ Kept(after, after', "scopes") /\ after'.scopes = t
  BY Ran
<1> HIDE DEF t
<1>2. after'.path = after.path /\ after'.label = after.label
  BY <1>1 DEF Kept
<1> QED BY <1>1, <1>2 DEF t

\* !set overrides in the newest scope, if there is one.
LEMMA RanSet ==
  ASSUME RunLine, IsAfter(after), tokens \in Seq(TokenSet), Words[1] = <<"!set">>
  PROVE  /\ IsAfter(after') /\ after'.path = after.path /\ after'.label = after.label
         /\ after'.scopes =
              IF Len(Words) >= 3 /\ after.scopes # <<>>
                THEN SetLast(after.scopes, Words[2], Words[3]) ELSE after.scopes
<1> DEFINE t == IF Len(Words) >= 3 /\ after.scopes # <<>>
                  THEN SetLast(after.scopes, Words[2], Words[3]) ELSE after.scopes
<1>1. IsAfter(after') /\ Kept(after, after', "scopes") /\ after'.scopes = t
  BY Ran
<1> HIDE DEF t
<1>2. after'.path = after.path /\ after'.label = after.label
  BY <1>1 DEF Kept
<1> QED BY <1>1, <1>2 DEF t

-----------------------------------------------------------------------------
\* How far a workspace is, with lines left and the wearer as it is now.
PathIs(a) == whole /\ Unescaped(saved.path) /\ saved.path \in Dirs => a.path = saved.path
LabelIs(a) == whole /\ Unescaped(saved.label) => a.label = saved.label
KeptOutside(a) == ~whole => a.path = before.path /\ a.label = before.label

DirectoryLine == TextCommand("cd", saved.path)
LabelLine == TextCommand("!label", saved.label)

AtDirectory(o, l, a) ==
  /\ whole /\ a = before
  /\ l = <<DirectoryLine>> \o (<<LabelLine>> \o Remaining(Written, o, 0))
AtLabel(o, l, a) ==
  /\ whole /\ PathIs(a) /\ a.scopes = before.scopes
  /\ l = <<LabelLine>> \o Remaining(Written, o, 0)
AtScopes(o, i, r, D, l, a) ==
  /\ i \in 0..Len(Written) /\ Todo(Written, i, r, D) /\ l = Left(Written, o, i, r)
  /\ Held(Written, before.scopes, a.scopes, i, D)
  /\ PathIs(a) /\ LabelIs(a) /\ KeptOutside(a)
Progress(l, a) ==
  \E o : /\ KeyOrders(Written, o)
         /\ AtDirectory(o, l, a) \/ AtLabel(o, l, a)
              \/ \E i : \E r : \E D : AtScopes(o, i, r, D, l, a)

Base ==
  /\ saved \in Saved /\ before \in Worn /\ whole \in BOOLEAN
  /\ ~whole => saved.scopes # <<>>
SnapInv ==
  /\ LexInv /\ Base /\ IsAfter(after) /\ Progress(lines, after)
  /\ wearing => lines # <<>> /\ text = lines[1]

\* The workspaces are what they are.
LEMMA WorkspaceIs ==
  ASSUME NEW ws, IsWorkspace(ws)
  PROVE  /\ IsAfter(ws) /\ IsScopes(ws.scopes) /\ IsList(ws.scopes)
         /\ ws.path \in Seq(Bytes) /\ ws.label \in Seq(Bytes)
<1> DEFINE T == Seq(Bytes)
           s == ws.scopes
           C == Seq(Range(s))
<1>1. ws \in [path : T, label : T, scopes : C] /\ \A k \in DOMAIN s : IsScope(s[k])
  BY DEF IsWorkspace
<1> HIDE DEF T, C
<1>2. ws.path \in T /\ ws.label \in T /\ ws.scopes \in C
  BY <1>1
<1>3. IsList(s)
  BY <1>2 DEF IsList, C
<1>4. Len(s) \in Nat /\ DOMAIN s = 1..Len(s)
  BY <1>3, ListIs
<1>5. IsScopes(s)
  BY <1>1, <1>3, <1>4 DEF IsScopes, IsList
<1> QED BY <1>1, <1>2, <1>3, <1>5 DEF IsAfter, T, C

\* The newest scope alone is a list of scopes.
LEMMA LastIs ==
  ASSUME NEW s, IsScopes(s), s # <<>>
  PROVE  IsScopes(<<Last(s)>>)
<1> DEFINE x == Last(s)
           l == <<x>>
<1>1. IsScope(x)
  <2>1. Len(s) \in Nat /\ Len(s) # 0
    BY DEF IsScopes
  <2>2. Len(s) \in 1..Len(s)
    BY <2>1
  <2> QED BY <2>2 DEF IsScopes, Last
<1> HIDE DEF x
<1>2. Len(l) = 1 /\ DOMAIN l = 1..1 /\ l[1] = x
  OBVIOUS
<1>3. l = [k \in 1..1 |-> l[k]]
  OBVIOUS
<1>4. IsList(l)
  BY <1>3, ListOf
<1>5. \A k \in 1..1 : k = 1
  OBVIOUS
<1> HIDE DEF l
<1>6. \A k \in 1..Len(l) : IsScope(l[k])
  BY <1>1, <1>2, <1>5
<1>7. Len(l) \in Nat /\ DOMAIN l = 1..Len(l)
  BY <1>2
<1>8. IsScopes(l)
  BY <1>4, <1>6, <1>7 DEF IsScopes, IsList
<1> QED BY <1>8 DEF l, x

\* So are those that were written and those that the wearer had.
LEMMA BaseIs ==
  ASSUME Base
  PROVE  /\ IsScopes(Written) /\ IsAfter(before) /\ IsList(before.scopes)
         /\ saved.path \in Seq(Bytes) /\ saved.label \in Seq(Bytes) /\ IsScopes(saved.scopes)
<1>1. IsWorkspace(saved) /\ IsWorkspace(before)
  BY SnapshotAssumption DEF Base
<1>2. /\ IsAfter(before) /\ IsList(before.scopes)
      /\ saved.path \in Seq(Bytes) /\ saved.label \in Seq(Bytes) /\ IsScopes(saved.scopes)
  BY <1>1, WorkspaceIs
<1>3. IsScopes(Written)
  BY <1>2, LastIs DEF Base, Written
<1> QED BY <1>2, <1>3

\* The line to come, which is not empty, and what is left after it.
Comes(l, x, rest) ==
  /\ l = <<x>> \o rest /\ x \in Seq(Bytes) /\ x # <<>> /\ rest \in Lines

\* It is the first, and the rest is the tail.
LEMMA ComesFirst ==
  ASSUME NEW l, NEW x, NEW rest, Comes(l, x, rest)
  PROVE  l # <<>> /\ l[1] = x /\ Tail(l) = rest /\ x \in Seq(Bytes) /\ x # <<>>
<1>1. x \in Seq(Bytes) /\ rest \in Lines /\ l = <<x>> \o rest /\ x # <<>>
  BY DEF Comes
<1>2. /\ <<x>> \o rest # <<>> /\ (<<x>> \o rest)[1] = x /\ Tail(<<x>> \o rest) = rest
  BY <1>1, FirstLine
<1> QED BY <1>1, <1>2

\* The line of a text comes,
LEMMA TextComes ==
  ASSUME NEW c \in Commands, NEW s \in Seq(Bytes), NEW rest \in Lines
  PROVE  Comes(<<TextCommand(c, s)>> \o rest, TextCommand(c, s), rest)
<1> DEFINE x == TextCommand(c, s)
<1>1. c \in Solid
  BY DEF Solid
<1>2. x \in Seq(Bytes) /\ Opens(x, c)
  BY <1>1, TextLine, OpensText
<1> HIDE DEF x
<1>3. x # <<>>
  BY <1>2, OpensNotEmpty
<1> QED BY <1>2, <1>3 DEF Comes, x

\* The line of a scope comes next,
LEMMA NewComes ==
  ASSUME NEW scope, IsScope(scope), NEW rest \in Lines
  PROVE  Comes(<<NewCommand(scope)>> \o rest, NewCommand(scope), rest)
<1> DEFINE x == NewCommand(scope)
<1>1. scope.name \in Seq(Bytes)
  BY ScopeIs
<1>2. x \in Seq(Bytes) /\ Opens(x, "!new")
  BY <1>1, NewLine, OpensNew
<1> HIDE DEF x
<1>3. x # <<>>
  BY <1>2, OpensNotEmpty
<1> QED BY <1>2, <1>3 DEF Comes, x

\* or that of an override.
LEMMA SetComes ==
  ASSUME NEW scope, IsScope(scope), NEW key \in DOMAIN scope.overrides, NEW rest \in Lines
  PROVE  Comes(<<SetCommand(scope, key)>> \o rest, SetCommand(scope, key), rest)
<1> DEFINE x == SetCommand(scope, key)
<1>1. key \in Seq(Bytes) /\ scope.overrides[key] \in Seq(Bytes)
  BY ScopeIs
<1>2. x \in Seq(Bytes) /\ Opens(x, "!set")
  BY <1>1, SetLine, OpensSet
<1> HIDE DEF x
<1>3. x # <<>>
  BY <1>2, OpensNotEmpty
<1> QED BY <1>2, <1>3 DEF Comes, x

\* The commands of the first two lines.
LEMMA CommandsAre == "cd" \in Commands /\ "!label" \in Commands
BY DEF Commands

\* A workspace begins with two lines.
LEMMA DirectoryComes ==
  ASSUME Base, NEW o, KeyOrders(Written, o), NEW a, NEW l, AtDirectory(o, l, a)
  PROVE  Comes(l, DirectoryLine, <<LabelLine>> \o Remaining(Written, o, 0))
<1> DEFINE R == Remaining(Written, o, 0)
<1>1. R \in Lines
  <2>1. Len(Written) \in Nat /\ 0 \in 0..Len(Written)
    BY BaseIs DEF IsScopes
  <2> QED BY <2>1, BaseIs, RemainingIs
<1>2. l = <<DirectoryLine>> \o (<<LabelLine>> \o R)
  BY DEF AtDirectory
<1> HIDE DEF R
<1>3. <<LabelLine>> \o R \in Lines
  <2>1. LabelLine \in Seq(Bytes)
    BY BaseIs, TextLine, CommandsAre DEF LabelLine
  <2> QED BY <1>1, <2>1, FirstLine
<1>4. Comes(<<DirectoryLine>> \o (<<LabelLine>> \o R), DirectoryLine, <<LabelLine>> \o R)
  BY <1>3, BaseIs, TextComes, CommandsAre DEF DirectoryLine
<1> QED BY <1>2, <1>4 DEF R

\* After the directory comes the label.
LEMMA LabelComes ==
  ASSUME Base, NEW o, KeyOrders(Written, o), NEW a, NEW l, AtLabel(o, l, a)
  PROVE  Comes(l, LabelLine, Remaining(Written, o, 0))
<1> DEFINE R == Remaining(Written, o, 0)
<1>1. R \in Lines
  <2>1. Len(Written) \in Nat /\ 0 \in 0..Len(Written)
    BY BaseIs DEF IsScopes
  <2> QED BY <2>1, BaseIs, RemainingIs
<1>2. l = <<LabelLine>> \o R
  BY DEF AtLabel
<1> HIDE DEF R
<1>3. Comes(<<LabelLine>> \o R, LabelLine, R)
  BY <1>1, BaseIs, TextComes, CommandsAre DEF LabelLine
<1> QED BY <1>2, <1>3 DEF R

\* With the scopes there is a line left unless all is done.
LEMMA ScopesCome ==
  ASSUME Base, NEW o, KeyOrders(Written, o), NEW i, NEW r, NEW D, NEW a, NEW l,
         AtScopes(o, i, r, D, l, a)
  PROVE  \/ NothingAhead(Written, o, i, r, D) /\ l = <<>>
         \/ /\ SetAhead(Written, o, i, r, D)
            /\ Comes(l, SetCommand(Written[i], r[1]), Left(Written, o, i, Tail(r)))
         \/ /\ NewAhead(Written, o, i, r, D)
            /\ Comes(l, NewCommand(Written[i + 1]), Left(Written, o, i + 1, o[i + 1]))
<1> DEFINE W == Written
<1>1. /\ i \in 0..Len(W) /\ Todo(W, i, r, D) /\ l = Left(W, o, i, r) /\ IsScopes(W)
      /\ KeyOrders(W, o)
  BY BaseIs DEF AtScopes
<1> HIDE DEF W
<1>2. SetAhead(W, o, i, r, D) \/ NewAhead(W, o, i, r, D) \/ NothingAhead(W, o, i, r, D)
  BY <1>1, LeftIs
<1>3. CASE NothingAhead(W, o, i, r, D)
  BY <1>1, <1>3 DEF NothingAhead, W
<1>4. CASE SetAhead(W, o, i, r, D)
  <2> DEFINE s == W[i]
             k == r[1]
             R == Left(W, o, i, Tail(r))
  <2>1. IsScope(s) /\ k \in DOMAIN s.overrides /\ R \in Lines /\ l = <<SetCommand(s, k)>> \o R
    BY <1>1, <1>4 DEF SetAhead
  <2> HIDE DEF s, k, R
  <2>2. Comes(l, SetCommand(s, k), R)
    BY <2>1, SetComes
  <2> QED BY <1>4, <2>2 DEF s, k, R, W
<1>5. CASE NewAhead(W, o, i, r, D)
  <2> DEFINE s == W[i + 1]
             R == Left(W, o, i + 1, o[i + 1])
  <2>1. IsScope(s) /\ R \in Lines /\ l = <<NewCommand(s)>> \o R
    BY <1>1, <1>5 DEF NewAhead
  <2> HIDE DEF s, R
  <2>2. Comes(l, NewCommand(s), R)
    BY <2>1, NewComes
  <2> QED BY <1>5, <2>2 DEF s, R, W
<1> QED BY <1>2, <1>3, <1>4, <1>5

\* Each line brings the workspace on.
LEMMA RunDirectory ==
  ASSUME Base, IsAfter(after), AtEnd, RunLine, NEW o, KeyOrders(Written, o),
         AtDirectory(o, lines, after), text = lines[1]
  PROVE  IsAfter(after') /\ AtLabel(o, lines', after')
<1> DEFINE p == saved.path
           R == <<LabelLine>> \o Remaining(Written, o, 0)
           c == "cd"
<1>1. Comes(lines, DirectoryLine, R)
  BY DirectoryComes
<1> HIDE DEF R
<1>2. lines[1] = DirectoryLine /\ Tail(lines) = R
  BY <1>1, ComesFirst
<1>3. lines' = R
  BY <1>2 DEF RunLine
<1>4. p \in Seq(Bytes) /\ c \in Commands /\ text = TextCommand(c, p)
  BY <1>2, BaseIs, CommandsAre DEF DirectoryLine
<1> HIDE DEF p, c
<1>5. /\ tokens \in Seq(TokenSet) /\ Words[1] = <<c>>
      /\ Unescaped(p) => Len(Words) >= 2 /\ Words[2] = p
  BY <1>4, TextWords
<1>6. /\ IsAfter(after') /\ after'.scopes = after.scopes
      /\ Len(Words) >= 2 /\ Words[2] \in Dirs => after'.path = Words[2]
  BY <1>5, RanPath DEF c
<1>7. PathIs(after')
  BY <1>5, <1>6 DEF PathIs, p
<1>8. whole /\ after = before
  BY DEF AtDirectory
<1> QED BY <1>3, <1>6, <1>7, <1>8 DEF AtLabel, R

\* !label brings it to its scopes.
LEMMA RunLabel ==
  ASSUME Base, IsAfter(after), AtEnd, RunLine, NEW o, KeyOrders(Written, o),
         AtLabel(o, lines, after), text = lines[1]
  PROVE  IsAfter(after') /\ AtScopes(o, 0, <<>>, {}, lines', after')
<1> DEFINE p == saved.label
           R == Remaining(Written, o, 0)
           c == "!label"
           W == Written
           B == before.scopes
<1>1. Comes(lines, LabelLine, R)
  BY LabelComes
<1> HIDE DEF R
<1>2. lines[1] = LabelLine /\ Tail(lines) = R
  BY <1>1, ComesFirst
<1>3. lines' = R
  BY <1>2 DEF RunLine
<1>4. p \in Seq(Bytes) /\ c \in Commands /\ text = TextCommand(c, p)
  BY <1>2, BaseIs, CommandsAre DEF LabelLine
<1> HIDE DEF p, c
<1>5. /\ tokens \in Seq(TokenSet) /\ Words[1] = <<c>>
      /\ Unescaped(p) => Len(Words) >= 2 /\ Words[2] = p
  BY <1>4, TextWords
<1>6. /\ IsAfter(after') /\ after'.scopes = after.scopes /\ after'.path = after.path
      /\ Len(Words) >= 2 => after'.label = Words[2]
  BY <1>5, RanLabel DEF c
<1>7. whole /\ PathIs(after) /\ after.scopes = B
  BY DEF AtLabel
<1>8. PathIs(after') /\ LabelIs(after') /\ KeptOutside(after')
  BY <1>5, <1>6, <1>7 DEF PathIs, LabelIs, KeptOutside, p
<1>9. 0 \in 0..Len(W) /\ Todo(W, 0, <<>>, {}) /\ Left(W, o, 0, <<>>) = R
  <2>1. Len(W) \in Nat
    BY BaseIs DEF IsScopes
  <2> QED BY <2>1 DEF Todo, Left, R
<1>10. Held(W, B, B, 0, {})
  BY BaseIs, HeldNone
<1> QED BY <1>3, <1>6, <1>7, <1>8, <1>9, <1>10 DEF AtScopes

\* !set brings it one override on.
LEMMA RunSet ==
  ASSUME Base, IsAfter(after), AtEnd, RunLine, NEW o, KeyOrders(Written, o),
         NEW i, NEW r, NEW D, AtScopes(o, i, r, D, lines, after), text = lines[1],
         SetAhead(Written, o, i, r, D),
         Comes(lines, SetCommand(Written[i], r[1]), Left(Written, o, i, Tail(r)))
  PROVE  IsAfter(after') /\ AtScopes(o, i, Tail(r), D \cup {r[1]}, lines', after')
<1> DEFINE W == Written
           B == before.scopes
           s == W[i]
           k == r[1]
           u == Tail(r)
           R == Left(W, o, i, u)
           c == "!set"
           v == s.overrides[k]
           q == Len(Words) >= 3
           x == IF q /\ after.scopes # <<>>
                  THEN SetLast(after.scopes, Words[2], Words[3]) ELSE after.scopes
<1>1. /\ i \in 1..Len(W) /\ IsScope(s) /\ k \in DOMAIN s.overrides /\ Todo(W, i, u, D \cup {k})
      /\ i \in 0..Len(W)
  BY DEF SetAhead, AtScopes
<1>2. /\ IsScopes(W) /\ IsList(B) /\ Held(W, B, after.scopes, i, D)
      /\ PathIs(after) /\ LabelIs(after) /\ KeptOutside(after)
  BY BaseIs DEF AtScopes
<1>3. lines[1] = SetCommand(s, k) /\ Tail(lines) = R
  BY ComesFirst
<1>4. lines' = R
  BY <1>3 DEF RunLine
<1>5. k \in Seq(Bytes) /\ v \in Seq(Bytes)
  BY <1>1, ScopeIs
<1> HIDE DEF W, B, s, k, u, R, c
<1>6. /\ tokens \in Seq(TokenSet) /\ Words[1] = <<"!set">>
      /\ Unescaped(k) /\ Unescaped(v) => q /\ Words[2] = k /\ Words[3] = v
  BY <1>3, <1>5, SetWords
<1>7. /\ IsAfter(after') /\ after'.path = after.path /\ after'.label = after.label
      /\ after'.scopes = x
  BY <1>6, RanSet
<1>8. Plain(s) => q /\ Words[2] = k /\ Words[3] = v
  BY <1>1, <1>6 DEF Plain
<1>9. Held(W, B, x, i, D \cup {k})
  <2>1. IsList(after.scopes)
    BY DEF IsAfter, IsList
  <2> DEFINE a == after.scopes
             w2 == Words[2]
             w3 == Words[3]
  <2>2. q \in BOOLEAN
    OBVIOUS
  <2>3. Plain(W[i]) => Gets(q, w2, w3, k, W[i].overrides[k])
    BY <1>8 DEF s, Gets
  <2> HIDE DEF q, a, w2, w3
  <2>4. Held(W, B, SetIn(q, a, w2, w3), i, D \cup {k})
    <3>1. IsScopes(W) /\ IsList(B) /\ IsList(a) /\ i \in 1..Len(W) /\ Held(W, B, a, i, D)
      BY <1>1, <1>2, <2>1 DEF a
    <3> QED BY <2>2, <2>3, <3>1, HeldSet
  <2> QED BY <2>4 DEF a, w2, w3, q, SetIn
<1> HIDE DEF x
<1>10. PathIs(after') /\ LabelIs(after') /\ KeptOutside(after')
  BY <1>2, <1>7 DEF PathIs, LabelIs, KeptOutside
<1> QED BY <1>1, <1>4, <1>7, <1>9, <1>10 DEF AtScopes, R, W, B, k, u

\* !new brings it to the next scope.
LEMMA RunNew ==
  ASSUME Base, IsAfter(after), AtEnd, RunLine, NEW o, KeyOrders(Written, o),
         NEW i, NEW r, NEW D, AtScopes(o, i, r, D, lines, after), text = lines[1],
         NewAhead(Written, o, i, r, D),
         Comes(lines, NewCommand(Written[i + 1]), Left(Written, o, i + 1, o[i + 1]))
  PROVE  IsAfter(after') /\ AtScopes(o, i + 1, o[i + 1], {}, lines', after')
<1> DEFINE W == Written
           B == before.scopes
           j == i + 1
           s == W[j]
           R == Left(W, o, j, o[j])
           q == Len(Words) >= 3
           x == IF q THEN Append(after.scopes, [name |-> Words[3], overrides |-> NoOverrides])
                ELSE after.scopes
<1>1. /\ i \in 0..Len(W) /\ i < Len(W) /\ j \in 1..Len(W) /\ IsScope(s) /\ Todo(W, j, o[j], {})
      /\ Finished(W, i, D)
  BY DEF NewAhead, AtScopes
<1>2. /\ IsScopes(W) /\ IsList(B) /\ Held(W, B, after.scopes, i, D)
      /\ PathIs(after) /\ LabelIs(after) /\ KeptOutside(after)
  BY BaseIs DEF AtScopes
<1>3. lines[1] = NewCommand(s) /\ Tail(lines) = R
  BY ComesFirst
<1>4. lines' = R
  BY <1>3 DEF RunLine
<1>5. s.name \in Seq(Bytes)
  BY <1>1, ScopeIs
<1> HIDE DEF W, B, s, R
<1>6. /\ tokens \in Seq(TokenSet) /\ Words[1] = <<"!new">>
      /\ IsNamed(s) => q
      /\ OneWord(s.name) => q /\ Words[3] = s.name
  BY <1>3, <1>5, NewWords DEF IsNamed
<1>7. /\ IsAfter(after') /\ after'.path = after.path /\ after'.label = after.label
      /\ after'.scopes = x
  BY <1>6, RanNew
<1>8. Plain(s) => q /\ Words[3] = s.name
  BY <1>6 DEF Plain
<1>9. Held(W, B, x, j, {})
  <2>1. IsList(after.scopes)
    BY DEF IsAfter, IsList
  <2> DEFINE a == after.scopes
             w3 == Words[3]
  <2>2. q \in BOOLEAN
    OBVIOUS
  <2>3. (IsNamed(W[i + 1]) => q) /\ (Plain(W[i + 1]) => q /\ w3 = W[i + 1].name)
    BY <1>6, <1>8 DEF s
  <2> HIDE DEF q, a, w3
  <2>4. Held(W, B, IF q THEN Append(a, [name |-> w3, overrides |-> NoOverrides]) ELSE a, i + 1, {})
    BY <1>1, <1>2, <2>1, <2>2, <2>3, HeldNew DEF a
  <2> QED BY <2>4 DEF a, w3, q
<1> HIDE DEF x
<1>10. PathIs(after') /\ LabelIs(after') /\ KeptOutside(after')
  BY <1>2, <1>7 DEF PathIs, LabelIs, KeptOutside
<1>11. j \in 0..Len(W)
  BY <1>1, <1>2 DEF IsScopes
<1> QED BY <1>1, <1>4, <1>7, <1>9, <1>10, <1>11 DEF AtScopes, R, W, B

\* What was written stays what it was.
LEMMA SameProgress ==
  ASSUME UNCHANGED <<saved, whole, before>>, Progress(lines', after')
  PROVE  Progress(lines, after)'
<1>1. saved' = saved /\ whole' = whole /\ before' = before
  OBVIOUS
<1>2. Written' = Written /\ DirectoryLine' = DirectoryLine /\ LabelLine' = LabelLine
  BY <1>1 DEF Written, DirectoryLine, LabelLine
<1>3. PathIs(after)' <=> PathIs(after')
  BY <1>1 DEF PathIs
<1>4. LabelIs(after)' <=> LabelIs(after')
  BY <1>1 DEF LabelIs
<1>5. KeptOutside(after)' <=> KeptOutside(after')
  BY <1>1 DEF KeptOutside
<1>6. \A o : AtDirectory(o, lines', after') => AtDirectory(o, lines, after)'
  BY <1>1, <1>2 DEF AtDirectory
<1>7. \A o : AtLabel(o, lines', after') => AtLabel(o, lines, after)'
  BY <1>1, <1>2, <1>3 DEF AtLabel
<1>8. \A o : \A i : \A r : \A D :
        AtScopes(o, i, r, D, lines', after') => AtScopes(o, i, r, D, lines, after)'
  BY <1>1, <1>2, <1>3, <1>4, <1>5 DEF AtScopes
<1>9. PICK o : /\ KeyOrders(Written, o)
               /\ AtDirectory(o, lines', after') \/ AtLabel(o, lines', after')
                    \/ \E i : \E r : \E D : AtScopes(o, i, r, D, lines', after')
  BY DEF Progress
<1>10. KeyOrders(Written', o)
  BY <1>2, <1>9
<1>11. \/ AtDirectory(o, lines, after)' \/ AtLabel(o, lines, after)'
       \/ \E i : \E r : \E D : AtScopes(o, i, r, D, lines, after)'
  BY <1>6, <1>7, <1>8, <1>9
<1> QED BY <1>10, <1>11 DEF Progress

\* The workspaces written and worn stay what they are.
LEMMA SameBase ==
  ASSUME Base, UNCHANGED <<saved, whole, before>>
  PROVE  Base'
BY DEF Base

\* A command keeps the invariant.
LEMMA RunInv ==
  ASSUME SnapInv, RunLine
  PROVE  SnapInv'
<1>1. LexInv /\ Base /\ IsAfter(after) /\ Progress(lines, after)
  BY DEF SnapInv
<1>2. text = lines[1] /\ AtEnd /\ lines # <<>> /\ wearing' = FALSE
      /\ UNCHANGED <<lexVars, saved, whole, before>>
  BY DEF SnapInv, RunLine, AtEnd
<1>3. LexInv' /\ Base'
  BY <1>1, <1>2, StutterLexInv, SameBase
<1>4. PICK o : /\ KeyOrders(Written, o)
               /\ AtDirectory(o, lines, after) \/ AtLabel(o, lines, after)
                    \/ \E i : \E r : \E D : AtScopes(o, i, r, D, lines, after)
  BY <1>1 DEF Progress
<1>5. IsAfter(after') /\ Progress(lines', after')
  <2>1. CASE AtDirectory(o, lines, after)
    <3>1. IsAfter(after') /\ AtLabel(o, lines', after')
      BY <1>1, <1>2, <1>4, <2>1, RunDirectory
    <3> QED BY <1>4, <3>1 DEF Progress
  <2>2. CASE AtLabel(o, lines, after)
    <3>1. IsAfter(after') /\ AtScopes(o, 0, <<>>, {}, lines', after')
      BY <1>1, <1>2, <1>4, <2>2, RunLabel
    <3> QED BY <1>4, <3>1 DEF Progress
  <2>3. CASE \E i : \E r : \E D : AtScopes(o, i, r, D, lines, after)
    <3>1. PICK i, r, D : AtScopes(o, i, r, D, lines, after)
      BY <2>3
    <3>2. \/ NothingAhead(Written, o, i, r, D) /\ lines = <<>>
          \/ /\ SetAhead(Written, o, i, r, D)
             /\ Comes(lines, SetCommand(Written[i], r[1]), Left(Written, o, i, Tail(r)))
          \/ /\ NewAhead(Written, o, i, r, D)
             /\ Comes(lines, NewCommand(Written[i + 1]), Left(Written, o, i + 1, o[i + 1]))
      BY <1>1, <1>4, <3>1, ScopesCome
    <3>3. CASE /\ SetAhead(Written, o, i, r, D)
               /\ Comes(lines, SetCommand(Written[i], r[1]), Left(Written, o, i, Tail(r)))
      <4>1. IsAfter(after') /\ AtScopes(o, i, Tail(r), D \cup {r[1]}, lines', after')
        BY <1>1, <1>2, <1>4, <3>1, <3>3, RunSet
      <4> QED BY <1>4, <4>1 DEF Progress
    <3>4. CASE /\ NewAhead(Written, o, i, r, D)
               /\ Comes(lines, NewCommand(Written[i + 1]), Left(Written, o, i + 1, o[i + 1]))
      <4>1. IsAfter(after') /\ AtScopes(o, i + 1, o[i + 1], {}, lines', after')
        BY <1>1, <1>2, <1>4, <3>1, <3>4, RunNew
      <4> QED BY <1>4, <4>1 DEF Progress
    <3> QED BY <1>2, <3>2, <3>3, <3>4
  <2> QED BY <1>4, <2>1, <2>2, <2>3
<1>6. Progress(lines, after)'
  BY <1>2, <1>5, SameProgress
<1> QED BY <1>2, <1>3, <1>5, <1>6 DEF SnapInv

\* A line that comes is one that Lex may be given.
LEMMA ProgressLine ==
  ASSUME Base, Progress(lines, after), lines # <<>>
  PROVE  lines[1] \in Seq(Bytes) /\ lines[1] # <<>>
<1>1. PICK o : /\ KeyOrders(Written, o)
               /\ AtDirectory(o, lines, after) \/ AtLabel(o, lines, after)
                    \/ \E i : \E r : \E D : AtScopes(o, i, r, D, lines, after)
  BY DEF Progress
<1>2. \E x, rest : Comes(lines, x, rest)
  <2>1. CASE AtDirectory(o, lines, after)
    BY <1>1, <2>1, DirectoryComes
  <2>2. CASE AtLabel(o, lines, after)
    BY <1>1, <2>2, LabelComes
  <2>3. CASE \E i : \E r : \E D : AtScopes(o, i, r, D, lines, after)
    <3>1. PICK i, r, D : AtScopes(o, i, r, D, lines, after)
      BY <2>3
    <3> QED BY <1>1, <3>1, ScopesCome
  <2> QED BY <1>1, <2>1, <2>2, <2>3
<1> QED BY <1>2, ComesFirst

\* The next line that Lex is given keeps it.
LEMMA NextLineInv ==
  ASSUME SnapInv, NextLine
  PROVE  SnapInv'
<1>1. Base /\ IsAfter(after) /\ Progress(lines, after)
  BY DEF SnapInv
<1>2. lines # <<>> /\ text' = lines[1] /\ wearing' = TRUE
      /\ UNCHANGED <<saved, whole, lines, before, after>>
  BY DEF NextLine
<1>3. lines[1] \in Seq(Bytes) /\ lines[1] # <<>>
  BY <1>1, <1>2, ProgressLine
<1>4. LexInv'
  <2>1. PICK s \in Seq(Bytes) : s = lines[1] /\ s # <<>>
    BY <1>3
  <2>2. /\ text' = s /\ input' = s /\ rule' = "space" /\ inside' = FALSE /\ word' = <<>>
        /\ kind' = "Number" /\ tokens' = <<>> /\ start' = Len(s)
    BY <2>1 DEF NextLine
  <2>3. LexStart(s)'
    BY <2>1, <2>2, Zenon DEF LexStart
  <2> QED BY <2>3, StartLexInvPrimed
<1>5. Base' /\ IsAfter(after)' /\ Progress(lines, after)'
  BY <1>1, <1>2, SameBase, SameProgress
<1>6. (lines # <<>> /\ text = lines[1])'
  BY <1>2
<1> QED BY <1>4, <1>5, <1>6 DEF SnapInv

\* So does whatever leaves the workspaces alone.
LEMMA OtherInv ==
  ASSUME SnapInv, UNCHANGED snapshotVars, LexInv', wearing => text' = text
  PROVE  SnapInv'
<1>1. /\ Base /\ IsAfter(after) /\ Progress(lines, after)
      /\ wearing => lines # <<>> /\ text = lines[1]
  BY DEF SnapInv
<1>2. UNCHANGED <<saved, whole, lines, before, after, wearing>>
  BY DEF snapshotVars
<1>3. Base' /\ IsAfter(after)' /\ Progress(lines, after)'
  BY <1>1, <1>2, SameBase, SameProgress
<1> QED BY <1>1, <1>2, <1>3 DEF SnapInv

\* Every step keeps it.
LEMMA StepInv ==
  ASSUME SnapInv, [SnapshotNext]_<<lexVars, snapshotVars>>
  PROVE  SnapInv'
<1>1. LexInv
  BY DEF SnapInv
<1>2. CASE LexLine
  <2>1. LexStep /\ UNCHANGED snapshotVars
    BY <1>2 DEF LexLine
  <2>2. text' = text
    BY <1>1, <2>1, StepGrows DEF LexInv, IInv
  <2> QED BY <1>1, <2>1, <2>2, StepLexInv, OtherInv
<1>3. CASE UNCHANGED <<lexVars, snapshotVars>>
  <2>1. UNCHANGED lexVars /\ UNCHANGED snapshotVars /\ text' = text
    BY <1>3 DEF lexVars
  <2> QED BY <1>1, <2>1, StutterLexInv, OtherInv
<1>4. SnapshotDone => UNCHANGED <<lexVars, snapshotVars>>
  BY DEF SnapshotDone
<1> QED BY <1>2, <1>3, <1>4, NextLineInv, RunInv DEF SnapshotNext, SnapshotStep

\* A list that has the scopes there were first begins with them.
LEMMA AbovePrefix ==
  ASSUME NEW B, IsList(B), NEW s, IsList(s), NEW i, Above(B, s, i)
  PROVE  IsPrefix(B, s)
<1> DEFINE n == Len(B)
           R == Range(B) \cup Range(s)
           u == SubSeq(B, 1, n)
           v == SubSeq(s, 1, n)
<1>1. n \in Nat /\ DOMAIN B = 1..n /\ Len(s) \in Nat /\ DOMAIN s = 1..Len(s)
  BY ListIs
<1>2. n <= Len(s) /\ \A k \in 1..n : s[k] = B[k]
  BY <1>1 DEF Above
<1>3. \A k \in 1..n : B[k] \in R
  BY <1>1 DEF Range
<1> HIDE DEF n, R
<1>4. \A k \in 1..n : s[k] \in R
  BY <1>2, <1>3
<1>5. 1 \in Int /\ n \in Int /\ n - 1 + 1 = n /\ \A k \in 1..n : 1 + k - 1 = k
  BY <1>1
<1>6. /\ u \in Seq(R) /\ Len(u) = IF 1 <= n THEN n - 1 + 1 ELSE 0
      /\ \A k \in 1..n - 1 + 1 : u[k] = B[1 + k - 1]
  BY <1>3, <1>5, SubSeqProperties
<1>7. /\ v \in Seq(R) /\ Len(v) = IF 1 <= n THEN n - 1 + 1 ELSE 0
      /\ \A k \in 1..n - 1 + 1 : v[k] = s[1 + k - 1]
  BY <1>4, <1>5, SubSeqProperties
<1> HIDE DEF u, v
<1>8. Len(u) = n /\ Len(v) = n
  BY <1>1, <1>6, <1>7
<1>9. \A k \in 1..n : u[k] = v[k]
  BY <1>2, <1>5, <1>6, <1>7
<1>10. u = v
  BY <1>6, <1>7, <1>8, <1>9, SameList
<1> QED BY <1>2, <1>10 DEF IsPrefix, n, u, v

\* When no scope is left, all of them are there.
LEMMA HeldAll ==
  ASSUME NEW W, IsScopes(W), NEW B, IsList(B), NEW s, IsList(s), NEW D,
         Finished(W, Len(W), D), Held(W, B, s, Len(W), D)
  PROVE  /\ (\A k \in DOMAIN W : Plain(W[k])) => s = B \o W
         /\ (\A k \in DOMAIN W : IsNamed(W[k])) => IsPrefix(B, s)
<1> DEFINE n == Len(W)
           r == Restored(W, n, D)
<1>1. n \in Nat /\ n \in 0..n /\ IsList(W)
  BY DEF IsScopes, IsList
<1>2. IsList(r) /\ Len(r) = n
  BY <1>1, RestoredIs
<1>3. \A k \in 1..n : r[k] = W[k]
  BY <1>1, RestoredAll
<1> HIDE DEF r
<1>4. r = W
  BY <1>1, <1>2, <1>3, ListSame
<1> HIDE DEF n
<1>5. /\ (\A k \in DOMAIN W : Plain(W[k])) => s = B \o r
      /\ (\A k \in DOMAIN W : IsNamed(W[k])) => Above(B, s, n)
  BY DEF Held, r, n
<1>6. Above(B, s, n) => IsPrefix(B, s)
  BY AbovePrefix
<1> QED BY <1>4, <1>5, <1>6

\* No line of plain names and texts ends the file before its end.
LEMMA PlainGoesOn ==
  ASSUME SnapInv, AllPlain
  PROVE  ~Stopped
<1> SUFFICES ASSUME wearing, rule = "done"
             PROVE  OneCommand
  BY DEF Stopped
<1>1. Base /\ AtEnd /\ text = lines[1] /\ lines # <<>> /\ Progress(lines, after)
  BY DEF SnapInv, AtEnd
<1>2. PICK o : /\ KeyOrders(Written, o)
               /\ AtDirectory(o, lines, after) \/ AtLabel(o, lines, after)
                    \/ \E i : \E r : \E D : AtScopes(o, i, r, D, lines, after)
  BY <1>1 DEF Progress
<1>3. ASSUME NEW c \in Commands, NEW s \in Seq(Bytes), text = TextCommand(c, s), Unescaped(s)
      PROVE  OneCommand
  BY <1>1, <1>3, TextWords
<1>4. whole => Unescaped(saved.path) /\ Unescaped(saved.label)
  BY DEF AllPlain
<1>5. CASE AtDirectory(o, lines, after)
  <2>1. text = DirectoryLine /\ whole
    BY <1>1, <1>2, <1>5, DirectoryComes, ComesFirst DEF AtDirectory
  <2> QED BY <1>1, <1>3, <1>4, <2>1, BaseIs, CommandsAre DEF DirectoryLine
<1>6. CASE AtLabel(o, lines, after)
  <2>1. text = LabelLine /\ whole
    BY <1>1, <1>2, <1>6, LabelComes, ComesFirst DEF AtLabel
  <2> QED BY <1>1, <1>3, <1>4, <2>1, BaseIs, CommandsAre DEF LabelLine
<1>7. CASE \E i : \E r : \E D : AtScopes(o, i, r, D, lines, after)
  <2> DEFINE W == Written
  <2>1. PICK i, r, D : AtScopes(o, i, r, D, lines, after)
    BY <1>7
  <2>2. IsScopes(W) /\ DOMAIN W = 1..Len(W)
    BY <1>1, BaseIs DEF IsScopes
  <2>3. \A k \in 1..Len(W) : IsScope(W[k]) /\ Plain(W[k])
    BY <2>2 DEF AllPlain, IsScopes
  <2>4. \/ /\ SetAhead(W, o, i, r, D)
           /\ Comes(lines, SetCommand(W[i], r[1]), Left(W, o, i, Tail(r)))
        \/ /\ NewAhead(W, o, i, r, D)
           /\ Comes(lines, NewCommand(W[i + 1]), Left(W, o, i + 1, o[i + 1]))
    BY <1>1, <1>2, <2>1, ScopesCome
  <2> HIDE DEF W
  <2>5. CASE /\ SetAhead(W, o, i, r, D)
             /\ Comes(lines, SetCommand(W[i], r[1]), Left(W, o, i, Tail(r)))
    <3> DEFINE s == W[i]
               k == r[1]
    <3>1. i \in 1..Len(W) /\ k \in DOMAIN s.overrides
      BY <2>5 DEF SetAhead
    <3>2. IsScope(s) /\ Plain(s)
      BY <2>3, <3>1
    <3>3. text = SetCommand(s, k)
      BY <1>1, <2>5, ComesFirst
    <3> HIDE DEF s, k
    <3>4. Unescaped(k) /\ Unescaped(s.overrides[k])
      BY <3>1, <3>2 DEF Plain
    <3>5. k \in Seq(Bytes) /\ s.overrides[k] \in Seq(Bytes)
      BY <3>1, <3>2, ScopeIs
    <3> QED BY <1>1, <3>3, <3>4, <3>5, SetWords
  <2>6. CASE /\ NewAhead(W, o, i, r, D)
             /\ Comes(lines, NewCommand(W[i + 1]), Left(W, o, i + 1, o[i + 1]))
    <3> DEFINE s == W[i + 1]
    <3>1. i + 1 \in 1..Len(W)
      BY <2>6 DEF NewAhead
    <3>2. IsScope(s) /\ Plain(s)
      BY <2>3, <3>1
    <3>3. text = NewCommand(s)
      BY <1>1, <2>6, ComesFirst
    <3> HIDE DEF s
    <3>4. OneWord(s.name) /\ s.name \in Seq(Bytes)
      BY <3>2, ScopeIs DEF Plain
    <3> QED BY <1>1, <3>3, <3>4, NewWords
  <2> QED BY <2>4, <2>5, <2>6
<1> QED BY <1>2, <1>5, <1>6, <1>7

\* When no line is left, what was written is there again.
LEMMA AllRestored ==
  ASSUME SnapInv
  PROVE  SnapshotRestores
<1>0. AllPlain => ~Stopped
  BY PlainGoesOn
<1> SUFFICES ASSUME lines = <<>>
             PROVE  /\ (\A k \in DOMAIN Written : Plain(Written[k]))
                         => after.scopes = before.scopes \o Written
                    /\ (\A k \in DOMAIN Written : IsNamed(Written[k]))
                         => IsPrefix(before.scopes, after.scopes)
                    /\ PathIs(after) /\ LabelIs(after) /\ KeptOutside(after)
  BY <1>0 DEF SnapshotRestores, IsNamed, PathIs, LabelIs, KeptOutside
<1>1. Base /\ IsAfter(after) /\ Progress(lines, after)
  BY DEF SnapInv
<1>2. PICK o : /\ KeyOrders(Written, o)
               /\ AtDirectory(o, lines, after) \/ AtLabel(o, lines, after)
                    \/ \E i : \E r : \E D : AtScopes(o, i, r, D, lines, after)
  BY <1>1 DEF Progress
<1>3. \A x, rest : ~Comes(lines, x, rest)
  BY ComesFirst
<1>4. ~AtDirectory(o, lines, after) /\ ~AtLabel(o, lines, after)
  BY <1>1, <1>2, <1>3, DirectoryComes, LabelComes
<1>5. PICK i, r, D : AtScopes(o, i, r, D, lines, after)
  BY <1>2, <1>4
<1>6. NothingAhead(Written, o, i, r, D)
  BY <1>1, <1>2, <1>3, <1>5, ScopesCome
<1> DEFINE W == Written
           B == before.scopes
           s == after.scopes
<1>7. Finished(W, Len(W), D) /\ Held(W, B, s, Len(W), D)
  BY <1>5, <1>6 DEF NothingAhead, AtScopes
<1>8. IsScopes(W) /\ IsList(B) /\ IsList(s)
  BY <1>1, BaseIs DEF IsAfter, IsList
<1>9. PathIs(after) /\ LabelIs(after) /\ KeptOutside(after)
  BY <1>5 DEF AtScopes
<1> HIDE DEF W, B, s
<1>10. /\ (\A k \in DOMAIN W : Plain(W[k])) => s = B \o W
       /\ (\A k \in DOMAIN W : IsNamed(W[k])) => IsPrefix(B, s)
  BY <1>7, <1>8, HeldAll
<1> QED BY <1>9, <1>10 DEF W, B, s

-----------------------------------------------------------------------------
\* A file is written as all that is left of it.
LEMMA WholeFile ==
  ASSUME Base, whole, NEW o \in Orders(saved.scopes), lines = EncodeWorkspace(saved, o),
         after = before
  PROVE  Progress(lines, after)
<1> DEFINE s == saved.scopes
           R == Remaining(s, o, 0)
           x == DirectoryLine
           y == LabelLine
<1>1. Written = s /\ IsScopes(s) /\ KeyOrders(s, o)
  BY BaseIs, OrdersAre DEF Written
<1>2. Len(s) \in Nat /\ Len(s) - 0 = Len(s) /\ 0 \in 0..Len(s)
  BY <1>1 DEF IsScopes
<1>3. lines = <<x, y>> \o R
  BY <1>2 DEF EncodeWorkspace, Remaining, DirectoryLine, LabelLine
<1>4. x \in Seq(Bytes) /\ y \in Seq(Bytes)
  BY BaseIs, TextLine, CommandsAre DEF DirectoryLine, LabelLine
<1>5. R \in Lines
  BY <1>1, <1>2, RemainingIs
<1> HIDE DEF s, R, x, y
<1>6. <<x>> \o <<y>> = <<x, y>>
  BY <1>4, Pair
<1>7. <<x>> \in Lines /\ <<y>> \in Lines
  <2> DEFINE A == Seq(Bytes)
  <2>1. x \in A /\ y \in A
    BY <1>4
  <2> HIDE DEF A
  <2>2. <<x>> \in Seq(A) /\ <<y>> \in Seq(A)
    BY <2>1
  <2> QED BY <2>2 DEF Lines, A
<1>8. lines = <<x>> \o (<<y>> \o R)
  <2> DEFINE a == <<x>>
             b == <<y>>
             c == <<x, y>>
  <2>1. a \in Lines /\ b \in Lines /\ a \o b = c /\ lines = c \o R
    BY <1>3, <1>6, <1>7
  <2> HIDE DEF a, b, c
  <2>2. (a \o b) \o R = a \o (b \o R)
    BY <1>5, <2>1, LinesJoined
  <2>3. lines = a \o (b \o R)
    BY <2>1, <2>2
  <2> QED BY <2>3 DEF a, b
<1>9. AtDirectory(o, lines, after)
  BY <1>1, <1>8 DEF AtDirectory, R, x, y
<1> QED BY <1>1, <1>9 DEF Progress

\* So is the file of one scope.
LEMMA ScopeFile ==
  ASSUME Base, ~whole, NEW o \in Orders(saved.scopes),
         lines = Encode(Last(saved.scopes), Last(o)), after = before
  PROVE  Progress(lines, after)
<1> DEFINE s == saved.scopes
           n == Len(s)
           x == Last(s)
           f == Last(o)
           W == <<x>>
           p == <<f>>
<1>1. /\ Written = W /\ IsScopes(s) /\ KeyOrders(s, o) /\ o \in [1..n -> Range(o)]
      /\ IsScopes(W) /\ IsList(before.scopes) /\ s # <<>>
  BY BaseIs, OrdersAre DEF Written, Base
<1>2. n \in Nat /\ n > 0 /\ n \in 1..n
  <2>1. n \in Nat /\ (n = 0 => s = <<>>)
    BY <1>1 DEF IsScopes
  <2> QED BY <1>1, <2>1
<1>3. Len(o) = n
  <2> DEFINE A == Range(o)
             N == n
  <2>1. o \in [1..N -> A] /\ N \in Nat
    BY <1>1, <1>2
  <2> HIDE DEF A, N
  <2>2. Len(o) = N
    BY <2>1
  <2> QED BY <2>2 DEF N
<1>4. IsScope(x) /\ f \in KeysOf(x) /\ Range(f) = DOMAIN x.overrides
  <2>1. x = s[n] /\ f = o[n]
    BY <1>3 DEF Last
  <2> QED BY <1>1, <1>2, <2>1 DEF IsScopes, KeyOrders
<1>5. lines = Encode(x, f)
  OBVIOUS
<1> HIDE DEF x, f, s, n
<1>6. Len(W) = 1 /\ W[1] = x /\ p[1] = f /\ \A k \in 1..1 : k = 1
  OBVIOUS
<1> HIDE DEF W, p
<1>7. KeyOrders(W, p)
  BY <1>4, <1>6 DEF KeyOrders
<1>8. lines = Left(W, p, 0, <<>>)
  <2> DEFINE S == Sets(x, f)
             e == Remaining(W, p, 1)
             c == <<NewCommand(x)>>
  <2>1. e = <<>>
    BY <1>1, <1>6, <1>7, RemainingIs
  <2>2. 0 \in 0..Len(W) - 1 /\ 0 + 1 = 1
    BY <1>6
  <2>3. Remaining(W, p, 0) = c \o (S \o e)
    BY <1>1, <1>6, <1>7, <2>2, RemainingIs
  <2>4. S \in Lines /\ lines = c \o S
    BY <1>4, <1>5, SetsTyped, EncodeIs
  <2> HIDE DEF S, e, c
  <2>5. S \o e = S
    <3> DEFINE T == Seq(Bytes)
    <3>1. S \in Seq(T)
      BY <2>4 DEF Lines
    <3> HIDE DEF T
    <3> QED BY <2>1, <3>1
  <2> QED BY <2>3, <2>4, <2>5 DEF Left
<1>9. 0 \in 0..Len(W) /\ Todo(W, 0, <<>>, {})
  BY <1>6 DEF Todo
<1>10. Held(W, before.scopes, after.scopes, 0, {})
  BY <1>1, HeldNone
<1>11. PathIs(after) /\ LabelIs(after) /\ KeptOutside(after)
  BY DEF PathIs, LabelIs, KeptOutside
<1>12. AtScopes(p, 0, <<>>, {}, lines, after)
  BY <1>1, <1>8, <1>9, <1>10, <1>11 DEF AtScopes
<1>13. KeyOrders(Written, p)
  BY <1>1, <1>7
<1> QED BY <1>12, <1>13 DEF Progress

\* It holds when the file is written.
LEMMA InitInv == ASSUME SnapshotInit PROVE SnapInv
<1>1. Base /\ wearing = FALSE /\ after = before /\ LexStart(<<>>)
  BY DEF SnapshotInit, Base
<1>2. LexInv
  <2>1. <<>> \in Seq(Bytes)
    OBVIOUS
  <2> QED BY <1>1, <2>1, StartLexInv
<1>3. IsAfter(after)
  BY <1>1, BaseIs
<1>4. PICK o \in Orders(saved.scopes) :
         \/ whole = TRUE /\ lines = EncodeWorkspace(saved, o)
         \/ /\ whole = FALSE /\ saved.scopes # <<>>
            /\ lines = Encode(Last(saved.scopes), Last(o))
  BY DEF SnapshotInit
<1>5. Progress(lines, after)
  BY <1>1, <1>4, WholeFile, ScopeFile
<1> QED BY <1>1, <1>2, <1>3, <1>5 DEF SnapInv

(***************************************************************************)
(* Wearing a snapshot gives back what was written, for every workspace,    *)
(* every order in which the maps give their keys, every wearer and every   *)
(* set of directories.  A snapshot of plain names and texts is worn to its *)
(* end, as each of its lines is one command.  A snapshot that is worn to   *)
(* its end so gives back the directory and the label unless a byte of      *)
(* theirs is escaped, and the scopes if they are plain, on top of those    *)
(* there were; and it changes no scope that was there if each name begins  *)
(* with a letter.  Of a line that runs a brace group or is cut at an       *)
(* operator the theorem says nothing.                                      *)
(***************************************************************************)
THEOREM SnapshotsRestore == SnapshotSpec => []SnapshotRestores
<1>1. SnapshotSpec => []SnapInv
  BY InitInv, StepInv, PTL DEF SnapshotSpec
<1>2. SnapInv => SnapshotRestores
  BY AllRestored
<1> QED BY <1>1, <1>2, PTL

=============================================================================
