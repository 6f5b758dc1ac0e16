----------------------------- MODULE Shell_proofs -----------------------------
(***************************************************************************)
(* Theorems about Shell, for every value of its constants: any lines,      *)
(* files, programs and rules, nested to any depth.  They rest on an        *)
(* invariant over the frames of the call stack: what each of them may have *)
(* started at each place of runPipeline, and which source each of them     *)
(* will put back.                                                          *)
(***************************************************************************)
EXTENDS Shell, ListLemmas

Hows == {"unasked", "policy", "user", "list off"}

Answers == UNION {[DOMAIN Stages[l] -> Hows] : l \in Lines}

LineRecord ==
  [type : {"line"}, line : Lines, source : Sources, prev : Sources,
   capture : BOOLEAN,
   phase : {"parse", "authorize", "run", "running", "resume"},
   mode : {"single", "buffered", "pipeline"},
   stage : Nat, brace : Nat \ {0},
   commands : Seq(Commands),
   how : Answers,
   started : SUBSET Nat]

FileRecord ==
  [type : {"file"}, lines : Seq(Lines), next : Nat, source : Sources]

(* What the stages have turned out to be, of what each may be.             *)
Turned(l, phase, stage, commands) ==
  /\ commands \in Seq(Commands)
  /\ Len(commands) = IF phase = "parse" THEN stage - 1 ELSE Len(Stages[l])
  /\ \A k \in 1 .. Len(commands) : commands[k] \in Stages[l][k].commands

(* The stage has been approved, or stands after the one that makes the     *)
(* pipeline a buffered one.                                                *)
Cleared(f, k) ==
  \/ f.how[k] \in {"policy", "user"}
  \/ f.how[k] = "list off" /\ Len(Stages[f.line]) = 1

MayStart(f, k) == Cleared(f, k) \/ NotReached(f, k)

(* A call that has not come to the end of the authorization has started    *)
(* nothing, and has come past no stage that it did not approve; one that   *)
(* has come to it may start all its programs, and does so in one of three  *)
(* ways.  What the policy approved is not in a .cloth file, and what has   *)
(* the source of default.cloth is in it.                                   *)
Permitted(f) ==
  LET stages == DOMAIN Stages[f.line]
  IN /\ Turned(f.line, f.phase, f.stage, f.commands)
     /\ f.phase \in {"parse", "authorize"} => f.started = {} /\ f.mode = "single"
     /\ f.phase = "authorize" =>
          \A k \in stages : k < f.stage => Cleared(f, k)
     /\ f.phase \in {"run", "running", "resume"} =>
          /\ f.mode # "pipeline" =>
               \A k \in stages : f.commands[k].kind = "external" => MayStart(f, k)
          /\ f.mode = "pipeline" => \A k \in stages : Cleared(f, k)
          /\ \A k \in f.started : MayStart(f, k)
     /\ grayListed(f.source) => \A k \in stages : f.how[k] # "policy"
     /\ f.source = "default.cloth" => f.line \in ClothLines

(* What runs as default.cloth is what is written in it.                    *)
Faithful(f) == f.source = "default.cloth" => f.lines = Cloth

Frame ==
  {f \in LineRecord : IsLineFrame(f) /\ Permitted(f)}
    \cup {f \in FileRecord : IsFileFrame(f) /\ Faithful(f)}

(* The source in force where the i-th call was made.  A file is worn by a  *)
(* line, or read at the start.                                             *)
Caller(s, i) ==
  IF i = 1 THEN "interactive"
  ELSE IF s[i - 1].type = "line" THEN s[i - 1].source
  ELSE IF i = 2 THEN "interactive" ELSE s[i - 2].source

Linked(s) ==
  \A i \in DOMAIN s :
    /\ s[i].type = "file" => i = 1 \/ s[i - 1].type = "line"
    /\ s[i].type = "line" =>
         IF s[i].capture THEN s[i].source = Caller(s, i)
         ELSE s[i].prev = Caller(s, i)

Nested(s, source) ==
  /\ s \in Seq(Frame)
  /\ Len(s) <= MaxDepth
  /\ Linked(s)
  /\ source = Caller(s, Len(s) + 1)

Store ==
  /\ trustStore \in Seq([rule : Rules, source : Sources])
  /\ useTrustedList \in BOOLEAN
  /\ confirmed \subseteq Rules

Rest ==
  /\ configSource \in Sources
  /\ {interactiveInput, selectedCloth} \subseteq BOOLEAN
  /\ lastExitCode \in {0, 1, 2, 126, 127}

IInv == Nested(stack, commandSource) /\ Store /\ Rest /\ TrustProvenance

-----------------------------------------------------------------------------
(* The stack. *)

LEMMA FrameTypes ==
  ASSUME NEW f \in Frame
  PROVE  /\ f.type \in {"line", "file"}
         /\ f.type = "line" => f \in LineRecord /\ IsLineFrame(f) /\ Permitted(f)
         /\ f.type = "file" => f \in FileRecord /\ IsFileFrame(f) /\ Faithful(f)
         /\ f.source \in Sources
BY DEF Frame, LineRecord, FileRecord, IsLineFrame, IsFileFrame

(* The two frames are of the same call.                                    *)
SameCall(f, g) ==
  /\ g.type = f.type
  /\ g.source = f.source
  /\ f.type = "line" => g.prev = f.prev /\ g.capture = f.capture

(* The innermost call goes on.                                             *)
LEMMA ReplaceTop ==
  ASSUME NEW s, NEW source, Nested(s, source), s # <<>>,
         NEW f \in Frame, SameCall(s[Len(s)], f)
  PROVE  Nested([s EXCEPT ![Len(s)] = f], source)
<1> DEFINE n == Len(s)
           t == [s EXCEPT ![n] = f]
<1>1. s \in Seq(Frame) /\ n \in Nat \ {0} /\ n \in 1 .. n /\ DOMAIN s = 1 .. n
  BY EmptySeq, LenProperties DEF Nested
<1>2. /\ t \in Seq(Frame) /\ Len(t) = n /\ DOMAIN t = 1 .. n
      /\ \A i \in 1 .. n : t[i] = IF i = n THEN f ELSE s[i]
  BY <1>1, ExceptSeq, LenProperties
<1> HIDE DEF t
<1>3. \A i \in 1 .. n : SameCall(s[i], t[i])
  BY <1>1, <1>2 DEF SameCall
<1>4. \A i \in 1 .. n + 1 : Caller(t, i) = Caller(s, i)
  <2> TAKE i \in 1 .. n + 1
  <2>1. i # 1 => i - 1 \in 1 .. n
    BY <1>1
  <2>2. i # 1 /\ i # 2 => i - 2 \in 1 .. n
    BY <1>1
  <2> QED
    BY <2>1, <2>2, <1>3 DEF SameCall, Caller
<1>5. Linked(t)
  <2> SUFFICES ASSUME NEW i \in 1 .. n
               PROVE /\ t[i].type = "file" => i = 1 \/ t[i - 1].type = "line"
                     /\ t[i].type = "line" =>
                          IF t[i].capture THEN t[i].source = Caller(t, i)
                          ELSE t[i].prev = Caller(t, i)
    BY <1>2 DEF Linked
  <2>1. /\ s[i].type = "file" => i = 1 \/ s[i - 1].type = "line"
        /\ s[i].type = "line" =>
             IF s[i].capture THEN s[i].source = Caller(s, i)
             ELSE s[i].prev = Caller(s, i)
    BY <1>1 DEF Nested, Linked
  <2>2. SameCall(s[i], t[i]) /\ Caller(t, i) = Caller(s, i)
    BY <1>1, <1>3, <1>4
  <2>3. i # 1 => SameCall(s[i - 1], t[i - 1])
    BY <1>1, <1>3
  <2> QED
    BY <2>1, <2>2, <2>3 DEF SameCall
<1>6. Len(t) <= MaxDepth /\ source = Caller(t, Len(t) + 1)
  <2>1. Len(s) <= MaxDepth /\ source = Caller(s, n + 1)
    BY DEF Nested
  <2>2. n + 1 \in 1 .. n + 1
    BY <1>1
  <2> QED
    BY <2>1, <2>2, <1>2, <1>4
<1>7. Nested(t, source)
  BY <1>2, <1>5, <1>6 DEF Nested
<1> QED
  BY <1>7 DEF t

(* A call is made.  A file is read by a line or at the start; a line notes *)
(* the source it will put back, or is a brace group.                       *)
LEMMA Push ==
  ASSUME NEW s, NEW source, Nested(s, source), Len(s) < MaxDepth,
         NEW f \in Frame, NEW after,
         f.type = "file" => /\ s = <<>> \/ s[Len(s)].type = "line"
                            /\ after = source,
         f.type = "line" => /\ IF f.capture THEN f.source = source
                               ELSE f.prev = source
                            /\ after = f.source
  PROVE  Nested(Append(s, f), after)
<1> DEFINE n == Len(s)
           t == Append(s, f)
<1>1. s \in Seq(Frame) /\ n \in Nat /\ DOMAIN s = 1 .. n /\ (s # <<>> <=> n # 0)
  BY EmptySeq, LenProperties DEF Nested
<1>2. /\ t \in Seq(Frame) /\ Len(t) = n + 1 /\ DOMAIN t = 1 .. n + 1
      /\ \A i \in 1 .. n : t[i] = s[i]
      /\ t[n + 1] = f
  BY <1>1, AppendProperties, LenProperties
<1> HIDE DEF t
<1>3. \A i \in 1 .. n + 1 : Caller(t, i) = Caller(s, i)
  <2> TAKE i \in 1 .. n + 1
  <2>1. i # 1 => i - 1 \in 1 .. n
    BY <1>1
  <2>2. i # 1 /\ i # 2 => i - 2 \in 1 .. n
    BY <1>1
  <2> QED
    BY <2>1, <2>2, <1>2 DEF Caller
<1>4. Caller(s, n + 1) = source
  BY DEF Nested
<1>5. Linked(t)
  <2> SUFFICES ASSUME NEW i \in 1 .. n + 1
               PROVE /\ t[i].type = "file" => i = 1 \/ t[i - 1].type = "line"
                     /\ t[i].type = "line" =>
                          IF t[i].capture THEN t[i].source = Caller(t, i)
                          ELSE t[i].prev = Caller(t, i)
    BY <1>2 DEF Linked
  <2>1. CASE i <= n
    <3>1. i \in 1 .. n /\ (i # 1 => i - 1 \in 1 .. n)
      BY <2>1, <1>1
    <3>2. /\ s[i].type = "file" => i = 1 \/ s[i - 1].type = "line"
          /\ s[i].type = "line" =>
               IF s[i].capture THEN s[i].source = Caller(s, i)
               ELSE s[i].prev = Caller(s, i)
      BY <3>1, <1>1 DEF Nested, Linked
    <3> QED
      BY <3>1, <3>2, <1>2, <1>3
  <2>2. CASE i = n + 1
    <3>1. i # 1 => i - 1 = n /\ n \in 1 .. n /\ t[i - 1] = s[n]
      BY <2>2, <1>1, <1>2
    <3>2. t[i] = f /\ Caller(t, i) = source
      BY <2>2, <1>2, <1>3, <1>4
    <3> QED
      BY <3>1, <3>2, <2>2, <1>1
  <2> QED
    BY <2>1, <2>2, <1>1
<1>6. after = Caller(t, n + 2)
  <2>1. n + 2 # 1 /\ (n + 2) - 1 = n + 1 /\ (n + 2) - 2 = n /\ (n + 2 = 2 <=> n = 0)
    BY <1>1
  <2>2. CASE f.type = "line"
    BY <2>1, <2>2, <1>2 DEF Caller
  <2>3. CASE f.type = "file"
    <3>1. n # 0 => n \in 1 .. n /\ t[n] = s[n] /\ s[n].type = "line"
      BY <2>3, <1>1, <1>2
    <3>2. n + 1 # 1 => (n + 1) - 1 = n
      BY <1>1
    <3>3. source = IF n = 0 THEN "interactive" ELSE s[n].source
      BY <3>1, <3>2, <1>1, <1>4 DEF Caller
    <3> QED
      BY <3>1, <3>3, <2>1, <2>3, <1>2 DEF Caller
  <2> QED
    BY <2>2, <2>3, FrameTypes
<1>7. Len(t) <= MaxDepth /\ after = Caller(t, Len(t) + 1)
  <2>1. MaxDepth \in Nat /\ Len(t) + 1 = n + 2
    BY <1>1, <1>2, LinesAssumption
  <2> QED
    BY <2>1, <1>1, <1>2, <1>6
<1>8. Nested(t, after)
  BY <1>2, <1>5, <1>7 DEF Nested
<1> QED
  BY <1>8 DEF t

(* A call returns, and the source is again the one it was made in.         *)
LEMMA Pop ==
  ASSUME NEW s, NEW source, Nested(s, source), s # <<>>
  PROVE  Nested(Front(s), IF s[Len(s)].type = "line" /\ ~s[Len(s)].capture
                          THEN s[Len(s)].prev ELSE source)
<1> DEFINE n == Len(s)
           t == Front(s)
           after == IF s[n].type = "line" /\ ~s[n].capture THEN s[n].prev ELSE source
<1>1. s \in Seq(Frame) /\ n \in Nat \ {0} /\ n \in 1 .. n /\ DOMAIN s = 1 .. n
  BY EmptySeq, LenProperties DEF Nested
<1>2. /\ t \in Seq(Frame) /\ Len(t) = n - 1
      /\ \A i \in 1 .. n - 1 : t[i] = s[i]
  <2>1. \A i \in 1 .. n - 1 : s[i] \in Frame
    BY <1>1, ElementOfSeq
  <2>2. 1 \in Int /\ n - 1 \in Int
    BY <1>1
  <2>3. /\ SubSeq(s, 1, n - 1) \in Seq(Frame)
        /\ Len(SubSeq(s, 1, n - 1)) = IF 1 <= n - 1 THEN (n - 1) - 1 + 1 ELSE 0
        /\ \A i \in 1 .. (n - 1) - 1 + 1 : SubSeq(s, 1, n - 1)[i] = s[1 + i - 1]
    BY <2>1, <2>2, SubSeqProperties
  <2>4. t = SubSeq(s, 1, n - 1)
    BY DEF Front
  <2> HIDE DEF t
  <2> QED
    BY <2>3, <2>4, <1>1
<1>3. DOMAIN t = 1 .. n - 1
  BY <1>2, LenProperties
<1> HIDE DEF t
<1>4. \A i \in 1 .. n : Caller(t, i) = Caller(s, i)
  <2> TAKE i \in 1 .. n
  <2>1. i # 1 => i - 1 \in 1 .. n - 1
    BY <1>1
  <2>2. i # 1 /\ i # 2 => i - 2 \in 1 .. n - 1
    BY <1>1
  <2> QED
    BY <2>1, <2>2, <1>2 DEF Caller
<1>5. Linked(t)
  <2> SUFFICES ASSUME NEW i \in 1 .. n - 1
               PROVE /\ t[i].type = "file" => i = 1 \/ t[i - 1].type = "line"
                     /\ t[i].type = "line" =>
                          IF t[i].capture THEN t[i].source = Caller(t, i)
                          ELSE t[i].prev = Caller(t, i)
    BY <1>3 DEF Linked
  <2>1. i \in 1 .. n /\ (i # 1 => i - 1 \in 1 .. n - 1)
    BY <1>1
  <2>2. /\ s[i].type = "file" => i = 1 \/ s[i - 1].type = "line"
        /\ s[i].type = "line" =>
             IF s[i].capture THEN s[i].source = Caller(s, i)
             ELSE s[i].prev = Caller(s, i)
    BY <2>1, <1>1 DEF Nested, Linked
  <2> QED
    BY <2>1, <2>2, <1>2, <1>4
<1>6. after = Caller(s, n)
  <2>1. /\ s[n].type = "file" => n = 1 \/ s[n - 1].type = "line"
        /\ s[n].type = "line" =>
             IF s[n].capture THEN s[n].source = Caller(s, n)
             ELSE s[n].prev = Caller(s, n)
    BY <1>1 DEF Nested, Linked
  <2>2. source = Caller(s, n + 1)
    BY DEF Nested
  <2>3. n + 1 # 1 /\ (n + 1) - 1 = n /\ (n + 1) - 2 = n - 1 /\ (n + 1 = 2 <=> n = 1)
    BY <1>1
  <2>4. s[n].type \in {"line", "file"}
    BY <1>1, ElementOfSeq, FrameTypes
  <2>5. CASE s[n].type = "line"
    BY <2>5, <2>1, <2>2, <2>3 DEF Caller
  <2>6. CASE s[n].type = "file"
    BY <2>6, <2>1, <2>2, <2>3 DEF Caller
  <2> QED
    BY <2>4, <2>5, <2>6
<1>7. Len(t) + 1 = n /\ Len(t) <= MaxDepth
  <2>1. Len(s) <= MaxDepth /\ MaxDepth \in Nat
    BY LinesAssumption DEF Nested
  <2> QED
    BY <2>1, <1>1, <1>2
<1>8. after = Caller(t, Len(t) + 1)
  BY <1>1, <1>4, <1>6, <1>7
<1> HIDE DEF after
<1> QED
  BY <1>2, <1>5, <1>7, <1>8 DEF Nested, t, after

-----------------------------------------------------------------------------
(* Frames. *)

(* What is known of the innermost call.                                    *)
LEMMA TopLine ==
  ASSUME IInv, IsLine
  PROVE  /\ stack # <<>> /\ stack \in Seq(Frame) /\ Top = stack[Len(stack)]
         /\ Top \in LineRecord /\ IsLineFrame(Top) /\ Permitted(Top)
         /\ commandSource = Top.source
         /\ StageCount \in Nat /\ DOMAIN Stages[Top.line] = 1 .. StageCount
         /\ \A i \in 1 .. StageCount : Stages[Top.line][i] \in StageSet
<1>1. stack # <<>> /\ stack \in Seq(Frame) /\ Top = stack[Len(stack)] /\ Top.type = "line"
  BY DEF IInv, Nested, IsLine, Top, Last
<1>2. Len(stack) \in Nat \ {0} /\ Len(stack) \in 1 .. Len(stack)
  BY <1>1, EmptySeq, LenProperties
<1>3. Top \in Frame
  BY <1>1, <1>2, ElementOfSeq
<1>4. Top \in LineRecord /\ IsLineFrame(Top) /\ Permitted(Top)
  BY <1>1, <1>3, FrameTypes
<1>5. commandSource = Top.source
  <2>1. commandSource = Caller(stack, Len(stack) + 1)
    BY DEF IInv, Nested
  <2>2. Len(stack) + 1 # 1 /\ (Len(stack) + 1) - 1 = Len(stack)
    BY <1>2
  <2> QED
    BY <2>1, <2>2, <1>1 DEF Caller
<1>6. Stages[Top.line] \in Seq(StageSet)
  <2>1. Top.line \in Lines
    BY <1>4 DEF IsLineFrame
  <2> QED
    BY <2>1, LinesAssumption
<1>7. /\ StageCount \in Nat /\ DOMAIN Stages[Top.line] = 1 .. StageCount
      /\ \A i \in 1 .. StageCount : Stages[Top.line][i] \in StageSet
  BY <1>6, LenProperties, ElementOfSeq DEF StageCount
<1> QED
  BY <1>1, <1>4, <1>5, <1>7

(* The stage at which the innermost call is, once parsing has ended.       *)
LEMMA AtStage ==
  ASSUME IInv, IsLine, Top.phase # "parse"
  PROVE  /\ Top.stage \in 1 .. StageCount
         /\ Stage \in StageSet /\ Command \in Commands
         /\ Command \in Stages[Top.line][Top.stage].commands
<1>1. Top.stage \in 1 .. StageCount
  <2>1. Top.stage \in 1 .. StageCount + IF Top.phase = "parse" THEN 1 ELSE 0
    BY TopLine, Zenon DEF IsLineFrame, StageCount
  <2> QED
    BY <2>1, TopLine
<1>2. Stage \in StageSet
  BY <1>1, TopLine DEF Stage
<1>3. Turned(Top.line, Top.phase, Top.stage, Top.commands)
  BY TopLine DEF Permitted
<1>4. Top.commands \in Seq(Commands) /\ Len(Top.commands) = StageCount
  BY <1>3 DEF Turned, StageCount
<1>5. Command \in Commands /\ Command \in Stages[Top.line][Top.stage].commands
  BY <1>1, <1>3, <1>4, ElementOfSeq DEF Command, Turned
<1> QED
  BY <1>1, <1>2, <1>5

LEMMA NewLineFrame ==
  ASSUME NEW l \in Lines, NEW source \in Sources, NEW prev \in Sources,
         NEW capture \in BOOLEAN,
         source = "default.cloth" => l \in ClothLines
  PROVE  LineFrame(l, source, prev, capture) \in Frame
<1> DEFINE f == LineFrame(l, source, prev, capture)
<1>1. Stages[l] \in Seq(StageSet)
  BY LinesAssumption
<1>2. DOMAIN Stages[l] = 1 .. Len(Stages[l]) /\ Len(Stages[l]) \in Nat
  BY <1>1, LenProperties
<1>3. [i \in DOMAIN Stages[l] |-> "unasked"] \in [DOMAIN Stages[l] -> Hows]
  BY DEF Hows
<1>4. /\ f.type = "line" /\ f.line = l /\ f.source = source /\ f.prev = prev
      /\ f.capture = capture /\ f.phase = "parse" /\ f.mode = "single"
      /\ f.stage = 1 /\ f.brace = 1 /\ f.started = {}
      /\ f.how = [i \in DOMAIN Stages[l] |-> "unasked"] /\ f.commands = <<>>
  BY DEF LineFrame
<1>5. f \in LineRecord
  <2> DEFINE how == [i \in DOMAIN Stages[l] |-> "unasked"]
             none == <<>>
  <2>1. how \in Answers
    BY <1>3 DEF Answers
  <2>2. f = [type |-> "line", line |-> l, source |-> source, prev |-> prev,
             capture |-> capture, phase |-> "parse", mode |-> "single",
             stage |-> 1, brace |-> 1, commands |-> none, how |-> how,
             started |-> {}]
    BY DEF LineFrame
  <2>3. none \in Seq(Commands)
    BY EmptySeq
  <2> HIDE DEF how, f, none
  <2> QED
    BY <2>1, <2>2, <2>3 DEF LineRecord
<1>6. Turned(l, "parse", 1, <<>>)
  <2>1. <<>> \in Seq(Commands) /\ Len(<<>>) = 0
    BY EmptySeq
  <2> QED
    BY <2>1 DEF Turned
<1> HIDE DEF f
<1>7. IsLineFrame(f)
  BY <1>2, <1>3, <1>4, <1>6 DEF IsLineFrame, Hows, Turned
<1>8. Permitted(f)
  BY <1>3, <1>4, <1>6 DEF Permitted
<1>9. f \in Frame
  BY <1>5, <1>7, <1>8 DEF Frame
<1> QED
  BY <1>9 DEF f

LEMMA NewFileFrame ==
  ASSUME NEW lines, NEW source \in Sources,
         \/ lines = Cloth
         \/ source # "default.cloth" /\ \E file \in Files : lines = Script[file]
  PROVE  /\ FileFrame(lines, source) \in Frame
         /\ FileFrame(lines, source).type = "file"
         /\ FileFrame(lines, source).source = source
<1>1. lines \in Seq(Lines)
  BY LinesAssumption
<1>2. Len(lines) \in Nat
  BY <1>1, LenProperties
<1>3. lines \in {Cloth} \cup {Script[file] : file \in Files}
  OBVIOUS
<1>4. FileFrame(lines, source) \in FileRecord
  BY <1>1 DEF FileFrame, FileRecord
<1>5. IsFileFrame(FileFrame(lines, source))
  BY <1>2, <1>3 DEF FileFrame, IsFileFrame
<1> QED
  BY <1>4, <1>5 DEF Frame, FileFrame, Faithful

-----------------------------------------------------------------------------
(* What the steps do with the stack. *)

LEMMA UpdateKeeps ==
  ASSUME IInv, IsLine, NEW f \in Frame, SameCall(Top, f), Update(f)
  PROVE  Nested(stack, commandSource)' /\ Rest'
<1>1. Nested([stack EXCEPT ![Len(stack)] = f], commandSource)
  BY TopLine, ReplaceTop DEF IInv
<1> QED
  BY <1>1 DEF Update, SetTop, IInv, Rest, fixed

LEMMA ReturnKeeps ==
  ASSUME IInv, IsLine, Return
  PROVE  Nested(stack, commandSource)'
<1>1. Nested(Front(stack), IF stack[Len(stack)].type = "line" /\ ~stack[Len(stack)].capture
                           THEN stack[Len(stack)].prev ELSE commandSource)
  BY TopLine, Pop DEF IInv
<1>2. Top.type = "line" /\ Top = stack[Len(stack)]
  BY TopLine DEF IsLine
<1> QED
  BY <1>1, <1>2 DEF Return, RestoredSource

LEMMA FinishKeeps ==
  ASSUME IInv, IsLine, NEW status \in {0, 1, 2, 126, 127}, Finish(status)
  PROVE  Nested(stack, commandSource)' /\ Rest'
<1>1. Nested(stack, commandSource)'
  BY ReturnKeeps DEF Finish
<1> QED
  BY <1>1 DEF Finish, IInv, Rest, fixed

-----------------------------------------------------------------------------
(* How a call goes on. *)

(* The call f, at another place.                                           *)
Moved(f, phase, mode, stage, brace, commands, how, started) ==
  [type |-> "line", line |-> f.line, source |-> f.source, prev |-> f.prev,
   capture |-> f.capture, phase |-> phase, mode |-> mode, stage |-> stage,
   brace |-> brace, commands |-> commands, how |-> how, started |-> started]

LEMMA ExceptAt ==
  ASSUME NEW S, NEW T, NEW h \in [S -> T], NEW x, NEW v
  PROVE  \A k \in S : [h EXCEPT ![x] = v][k] = IF k = x THEN v ELSE h[k]
OBVIOUS

(* What is known of the fields of a frame, for the steps below.            *)
Placed(f) ==
  /\ f \in LineRecord /\ Permitted(f)
  /\ Len(Stages[f.line]) \in Nat
  /\ DOMAIN Stages[f.line] = 1 .. Len(Stages[f.line])
  /\ f.stage \in Nat /\ f.brace \in Nat \ {0}
  /\ f.stage \in 1 .. Len(Stages[f.line]) + IF f.phase = "parse" THEN 1 ELSE 0
  /\ f.how \in [DOMAIN Stages[f.line] -> Hows]
  /\ f.started \in SUBSET DOMAIN Stages[f.line]
  /\ f.mode \in {"single", "buffered", "pipeline"}
  /\ f.phase \in {"parse", "authorize", "run", "running", "resume"}

Place(f, phase, mode, stage, brace, how, started) ==
  /\ phase \in {"parse", "authorize", "run", "running", "resume"}
  /\ mode \in {"single", "buffered", "pipeline"}
  /\ stage \in Nat /\ brace \in Nat \ {0}
  /\ \/ stage \in 1 .. Len(Stages[f.line])
     \/ phase = "parse" /\ stage = Len(Stages[f.line]) + 1
  /\ how \in [DOMAIN Stages[f.line] -> Hows]
  /\ started \in SUBSET DOMAIN Stages[f.line]

LEMMA MovedTyped ==
  ASSUME NEW f, Placed(f), NEW phase, NEW mode, NEW stage, NEW brace, NEW how,
         NEW commands, NEW started,
         Place(f, phase, mode, stage, brace, how, started),
         NEW g, g = Moved(f, phase, mode, stage, brace, commands, how, started),
         Permitted(g)
  PROVE  g \in Frame /\ SameCall(f, g)
<1>1. f.line \in Lines /\ f.type = "line" /\ {f.source, f.prev} \subseteq Sources
      /\ f.capture \in BOOLEAN
  BY DEF LineRecord, Placed
<1>2. how \in Answers
  BY <1>1 DEF Answers, Place
<1>3. started \in SUBSET Nat
  BY DEF Place, Placed
<1>8. Turned(f.line, phase, stage, commands) /\ commands \in Seq(Commands)
  <2>1. /\ g.line = f.line /\ g.phase = phase /\ g.stage = stage
        /\ g.commands = commands
    BY DEF Moved
  <2> QED
    BY <2>1 DEF Permitted, Turned
<1>4. g \in LineRecord
  BY <1>1, <1>2, <1>3, <1>8 DEF LineRecord, Moved, Place
<1>5. /\ g.type = "line" /\ g.line = f.line /\ g.source = f.source
      /\ g.prev = f.prev /\ g.capture = f.capture /\ g.phase = phase
      /\ g.mode = mode /\ g.stage = stage /\ g.commands = commands
      /\ g.how = how /\ g.started = started
  BY DEF Moved
<1>6. stage \in 1 .. Len(Stages[f.line]) + IF phase = "parse" THEN 1 ELSE 0
  <2>1. Len(Stages[f.line]) \in Nat
    BY DEF Placed
  <2>2. \/ stage \in 1 .. Len(Stages[f.line])
        \/ phase = "parse" /\ stage = Len(Stages[f.line]) + 1
    BY DEF Place
  <2>3. CASE phase = "parse"
    BY <2>1, <2>2, <2>3
  <2>4. CASE phase # "parse"
    BY <2>1, <2>2, <2>4
  <2> QED
    BY <2>3, <2>4
<1>7. IsLineFrame(g)
  BY <1>1, <1>5, <1>6, <1>8, Zenon DEF IsLineFrame, Hows, Place, Turned
<1> QED
  BY <1>1, <1>4, <1>5, <1>7 DEF Frame, SameCall

(* What may be started does not depend on the place of the call.           *)
LEMMA SameStart ==
  ASSUME NEW f, NEW g, g.line = f.line, g.commands = f.commands,
         g.mode = f.mode, g.how = f.how
  PROVE  \A k : (MayStart(g, k) <=> MayStart(f, k)) /\ (Cleared(g, k) <=> Cleared(f, k))
BY DEF MayStart, Cleared, NotReached, NeedsBuffer

LEMMA TopPlaced ==
  ASSUME IInv, IsLine
  PROVE  Placed(Top)
<1>1. /\ Top \in LineRecord /\ IsLineFrame(Top) /\ Permitted(Top)
      /\ Len(Stages[Top.line]) \in Nat
      /\ DOMAIN Stages[Top.line] = 1 .. Len(Stages[Top.line])
  BY TopLine DEF StageCount
<1>2. Top.stage \in Nat /\ Top.brace \in Nat \ {0}
  BY <1>1 DEF LineRecord
<1> DEFINE f == Top
<1>3. IsLineFrame(f)
  BY <1>1
<1> HIDE DEF f
<1>4. /\ f.stage \in 1 .. Len(Stages[f.line]) + IF f.phase = "parse" THEN 1 ELSE 0
      /\ f.how \in [DOMAIN Stages[f.line] -> Hows]
      /\ f.started \in SUBSET DOMAIN Stages[f.line]
      /\ f.mode \in {"single", "buffered", "pipeline"}
      /\ f.phase \in {"parse", "authorize", "run", "running", "resume"}
  BY <1>3, Zenon DEF IsLineFrame, Hows
<1> QED
  BY <1>1, <1>2, <1>4, Zenon DEF f, Placed

(* Parsing: the brace groups of a stage, the next stage, the end.          *)
LEMMA BraceFrame ==
  ASSUME NEW f, Placed(f), f.phase = "parse",
         NEW g, g = [f EXCEPT !.brace = @ + 1]
  PROVE  g \in Frame /\ SameCall(f, g)
<1>1. g = Moved(f, "parse", f.mode, f.stage, f.brace + 1, f.commands,
                f.how, f.started)
  BY DEF Placed, LineRecord, Moved
<1>8. Turned(f.line, "parse", f.stage, f.commands)
  BY DEF Turned, Placed, Permitted
<1>9. /\ g.line = f.line /\ g.commands = f.commands /\ g.mode = f.mode
      /\ g.how = f.how
  BY <1>1 DEF Moved
<1>2. Permitted(g)
  BY <1>1, <1>8, <1>9, SameStart DEF Permitted, Moved, Placed
<1>3. Place(f, "parse", f.mode, f.stage, f.brace + 1, f.how, f.started)
  BY DEF Placed, Place
<1> QED
  BY <1>1, <1>2, <1>3, MovedTyped

LEMMA ParsedPermitted ==
  ASSUME NEW f, Placed(f), f.phase = "parse", NEW stage, NEW brace, NEW commands,
         Turned(f.line, "parse", stage, commands),
         NEW g, g = Moved(f, "parse", f.mode, stage, brace, commands, f.how, f.started)
  PROVE  Permitted(g)
<1>1. /\ g.line = f.line /\ g.phase = "parse" /\ g.how = f.how
      /\ g.stage = stage /\ g.started = f.started /\ g.mode = f.mode
      /\ g.source = f.source /\ g.commands = commands
  BY DEF Moved
<1>2. Permitted(f)
  BY DEF Placed
<1> QED
  BY <1>1, <1>2 DEF Permitted

LEMMA StageFrame ==
  ASSUME NEW f, Placed(f), f.phase = "parse", f.stage <= Len(Stages[f.line]),
         NEW command \in Commands, command \in Stages[f.line][f.stage].commands,
         NEW g, g = [f EXCEPT !.stage = @ + 1, !.brace = 1,
                              !.commands = Append(@, command)]
  PROVE  g \in Frame /\ SameCall(f, g)
<1> DEFINE commands == Append(f.commands, command)
<1>1. g = Moved(f, "parse", f.mode, f.stage + 1, 1, commands, f.how, f.started)
  BY DEF Placed, LineRecord, Moved
<1>2. Turned(f.line, "parse", f.stage + 1, commands)
  <2>1. /\ f.commands \in Seq(Commands) /\ Len(f.commands) = f.stage - 1
        /\ \A k \in 1 .. Len(f.commands) : f.commands[k] \in Stages[f.line][k].commands
        /\ f.stage \in Nat
    BY DEF Placed, Permitted, Turned
  <2>2. /\ commands \in Seq(Commands) /\ Len(commands) = Len(f.commands) + 1
        /\ \A k \in 1 .. Len(f.commands) : commands[k] = f.commands[k]
        /\ commands[Len(f.commands) + 1] = command
    BY <2>1, AppendProperties
  <2> HIDE DEF commands
  <2>3. Len(commands) = (f.stage + 1) - 1
    BY <2>1, <2>2
  <2>4. \A k \in 1 .. Len(commands) : commands[k] \in Stages[f.line][k].commands
    BY <2>1, <2>2
  <2> QED
    BY <2>2, <2>3, <2>4 DEF Turned
<1> HIDE DEF commands
<1>3. Permitted(g)
  BY <1>1, <1>2, ParsedPermitted
<1>4. Place(f, "parse", f.mode, f.stage + 1, 1, f.how, f.started)
  BY DEF Placed, Place
<1> QED
  BY <1>1, <1>3, <1>4, MovedTyped

LEMMA ReadyFrame ==
  ASSUME NEW f, Placed(f), f.phase = "parse", Len(Stages[f.line]) > 0,
         f.stage > Len(Stages[f.line]),
         NEW g, g = [f EXCEPT !.phase = "authorize", !.stage = 1]
  PROVE  g \in Frame /\ SameCall(f, g)
<1>1. g = Moved(f, "authorize", f.mode, 1, f.brace, f.commands,
                f.how, f.started)
  BY DEF Placed, LineRecord, Moved
<1>8. Turned(f.line, "authorize", 1, f.commands)
  BY DEF Turned, Placed, Permitted
<1>9. /\ g.line = f.line /\ g.commands = f.commands /\ g.mode = f.mode
      /\ g.how = f.how
  BY <1>1 DEF Moved
<1>2. Permitted(g)
  BY <1>1, <1>8, <1>9, SameStart DEF Permitted, Moved, Placed
<1>3. Place(f, "authorize", f.mode, 1, f.brace, f.how, f.started)
  BY DEF Placed, Place
<1> QED
  BY <1>1, <1>2, <1>3, MovedTyped

(* Running: a program of its own, all or some of a pipeline, a file to     *)
(* read, the next stage of a buffered pipeline.                            *)
LEMMA StartFrame ==
  ASSUME NEW f, Placed(f), f.phase = "run", f.mode \in {"single", "buffered"},
         f.commands[f.stage].kind = "external",
         NEW g, g = [f EXCEPT !.phase = "running", !.started = @ \cup {f.stage}]
  PROVE  g \in Frame /\ SameCall(f, g)
<1>1. g = Moved(f, "running", f.mode, f.stage, f.brace, f.commands,
                f.how, f.started \cup {f.stage})
  BY DEF Placed, LineRecord, Moved
<1>2. f.stage \in 1 .. Len(Stages[f.line]) + 0 /\ f.stage \in DOMAIN Stages[f.line]
  BY DEF Placed
<1>8. Turned(f.line, "running", f.stage, f.commands)
  BY DEF Turned, Placed, Permitted
<1>9. /\ g.line = f.line /\ g.commands = f.commands /\ g.mode = f.mode
      /\ g.how = f.how
  BY <1>1 DEF Moved
<1>3. Permitted(g)
  <2>1. /\ g.phase = "running" /\ g.stage = f.stage /\ g.source = f.source
        /\ g.started = f.started \cup {f.stage}
    BY <1>1 DEF Moved
  <2>2. Permitted(f)
    BY DEF Placed
  <2>3. /\ \A k \in DOMAIN Stages[f.line] :
             f.commands[k].kind = "external" => MayStart(f, k)
        /\ \A k \in f.started : MayStart(f, k)
        /\ grayListed(f.source) =>
             \A k \in DOMAIN Stages[f.line] : f.how[k] # "policy"
        /\ f.source = "default.cloth" => f.line \in ClothLines
    BY <2>2 DEF Permitted
  <2>4. \A k \in g.started : MayStart(f, k)
    BY <2>1, <2>3, <1>2
  <2>5. \A k : MayStart(f, k) => MayStart(g, k)
    BY <1>9, SameStart, Zenon
  <2>6. f.mode # "pipeline"
    OBVIOUS
  <2> QED
    BY <2>1, <2>3, <2>4, <2>5, <2>6, <1>8, <1>9 DEF Permitted
<1>4. Place(f, "running", f.mode, f.stage, f.brace, f.how, f.started \cup {f.stage})
  BY DEF Placed, Place
<1> QED
  BY <1>1, <1>2, <1>3, <1>4, MovedTyped

LEMMA PipelineFrame ==
  ASSUME NEW f, Placed(f), f.phase = "run", f.mode = "pipeline",
         NEW k \in 0 .. Len(Stages[f.line]),
         NEW g, g = [f EXCEPT !.phase = "running", !.started = @ \cup 1 .. k]
  PROVE  g \in Frame /\ SameCall(f, g)
<1>1. g = Moved(f, "running", f.mode, f.stage, f.brace, f.commands,
                f.how, f.started \cup 1 .. k)
  BY DEF Placed, LineRecord, Moved
<1>2. f.started \cup 1 .. k \subseteq DOMAIN Stages[f.line]
  BY DEF Placed
<1>8. Turned(f.line, "running", f.stage, f.commands)
  BY DEF Turned, Placed, Permitted
<1>9. /\ g.line = f.line /\ g.commands = f.commands /\ g.mode = f.mode
      /\ g.how = f.how
  BY <1>1 DEF Moved
<1>3. Permitted(g)
  <2>1. /\ g.phase = "running" /\ g.stage = f.stage /\ g.source = f.source
        /\ g.started = f.started \cup 1 .. k
    BY <1>1 DEF Moved
  <2>2. Permitted(f)
    BY DEF Placed
  <2>3. /\ \A j \in DOMAIN Stages[f.line] : Cleared(f, j)
        /\ grayListed(f.source) =>
             \A j \in DOMAIN Stages[f.line] : f.how[j] # "policy"
        /\ f.source = "default.cloth" => f.line \in ClothLines
    BY <2>2 DEF Permitted
  <2>4. \A j \in g.started : MayStart(f, j)
    BY <2>1, <2>3, <1>2 DEF MayStart
  <2>5. \A j : /\ MayStart(f, j) => MayStart(g, j)
               /\ Cleared(f, j) => Cleared(g, j)
    BY <1>9, SameStart, Zenon
  <2> QED
    BY <2>1, <2>3, <2>4, <2>5, <1>8, <1>9 DEF Permitted
<1>4. Place(f, "running", f.mode, f.stage, f.brace, f.how, f.started \cup 1 .. k)
  BY DEF Placed, Place
<1> QED
  BY <1>1, <1>2, <1>3, <1>4, MovedTyped

LEMMA ResumeFrame ==
  ASSUME NEW f, Placed(f), f.phase = "run",
         NEW g, g = [f EXCEPT !.phase = "resume"]
  PROVE  g \in Frame /\ SameCall(f, g)
<1>1. g = Moved(f, "resume", f.mode, f.stage, f.brace, f.commands,
                f.how, f.started)
  BY DEF Placed, LineRecord, Moved
<1>8. Turned(f.line, "resume", f.stage, f.commands)
  BY DEF Turned, Placed, Permitted
<1>9. /\ g.line = f.line /\ g.commands = f.commands /\ g.mode = f.mode
      /\ g.how = f.how
  BY <1>1 DEF Moved
<1>2. Permitted(g)
  BY <1>1, <1>8, <1>9, SameStart DEF Permitted, Moved, Placed
<1>3. Place(f, "resume", f.mode, f.stage, f.brace, f.how, f.started)
  BY DEF Placed, Place
<1> QED
  BY <1>1, <1>2, <1>3, MovedTyped

LEMMA NextFrame ==
  ASSUME NEW f, Placed(f), f.phase \in {"run", "running", "resume"},
         f.mode = "buffered", f.stage < Len(Stages[f.line]),
         NEW g, g = [f EXCEPT !.phase = "run", !.stage = @ + 1]
  PROVE  g \in Frame /\ SameCall(f, g)
<1>1. g = Moved(f, "run", f.mode, f.stage + 1, f.brace, f.commands,
                f.how, f.started)
  BY DEF Placed, LineRecord, Moved
<1>8. Turned(f.line, "run", f.stage + 1, f.commands)
  BY DEF Turned, Placed, Permitted
<1>9. /\ g.line = f.line /\ g.commands = f.commands /\ g.mode = f.mode
      /\ g.how = f.how
  BY <1>1 DEF Moved
<1>2. Permitted(g)
  BY <1>1, <1>8, <1>9, SameStart DEF Permitted, Moved, Placed
<1>3. Place(f, "run", f.mode, f.stage + 1, f.brace, f.how, f.started)
  BY DEF Placed, Place
<1> QED
  BY <1>1, <1>2, <1>3, MovedTyped

(* Authorization: the stage is external and approved, or it makes the line *)
(* a buffered one, or it is the only one.                                  *)
LEMMA AuthorizedFrame ==
  ASSUME IInv, In("authorize"), NEW f, Placed(f), f.line = Top.line,
         f.stage = Top.stage, f.commands = Top.commands, f.phase = "authorize",
         Cleared(f, f.stage) \/ ~IsExternal(Command)
  PROVE  AfterAuthorize(f) \in Frame /\ SameCall(f, AfterAuthorize(f))
<1> DEFINE n == Len(Stages[f.line])
           g == AfterAuthorize(f)
<1>1. /\ n = StageCount /\ n \in Nat /\ DOMAIN Stages[f.line] = 1 .. n
      /\ f.stage \in 1 .. n /\ f.brace \in Nat \ {0} /\ f \in LineRecord
      /\ f.how \in [1 .. n -> Hows] /\ f.started \in SUBSET (1 .. n)
      /\ f.mode \in {"single", "buffered", "pipeline"} /\ Permitted(f)
  BY DEF Placed, StageCount
<1>2. /\ Command = f.commands[f.stage]
      /\ f.started = {} /\ f.mode = "single"
      /\ \A k \in 1 .. n : k < f.stage => Cleared(f, k)
      /\ grayListed(f.source) => \A k \in 1 .. n : f.how[k] # "policy"
  BY <1>1 DEF Command, Permitted
<1>9. \A phase \in {"authorize", "run"}, stage \in 1 .. n :
        Turned(f.line, phase, stage, f.commands)
  BY <1>1 DEF Permitted, Turned
<1> HIDE DEF g
<1>3. CASE n = 1
  <2>1. g = [f EXCEPT !.phase = "run"]
    BY <1>1, <1>3 DEF AfterAuthorize, g
  <2>2. g = Moved(f, "run", f.mode, f.stage, f.brace, f.commands, f.how,
                  f.started)
    BY <1>1, <2>1 DEF LineRecord, Moved
  <2>3. Permitted(g)
    <3>1. /\ g.line = f.line /\ g.phase = "run" /\ g.how = f.how
          /\ g.started = {} /\ g.source = f.source /\ g.mode = "single"
          /\ g.commands = f.commands /\ g.stage = f.stage
      BY <2>2, <1>2 DEF Moved
    <3>2. g.commands[1].kind = "external" => MayStart(g, 1)
      <4>1. f.commands[1].kind = "external" => Cleared(f, 1)
        BY <1>1, <1>2, <1>3 DEF IsExternal
      <4> QED
        BY <4>1, <3>1 DEF MayStart, Cleared
    <3>3. Turned(g.line, g.phase, g.stage, g.commands)
      BY <3>1, <1>1, <1>9
    <3> QED
      BY <3>1, <3>2, <3>3, <1>1, <1>2, <1>3 DEF Permitted
  <2>4. Place(f, "run", f.mode, f.stage, f.brace, f.how, f.started)
    BY <1>1 DEF Place
  <2>5. g \in Frame /\ SameCall(f, g)
    BY <2>2, <2>3, <2>4, MovedTyped
  <2> QED
    BY <2>5 DEF g
<1>4. CASE n > 1 /\ NeedsBuffer(f, f.stage)
  <2>1. g = [f EXCEPT !.phase = "run", !.mode = "buffered", !.stage = 1]
    BY <1>1, <1>4 DEF AfterAuthorize, g
  <2>2. g = Moved(f, "run", "buffered", 1, f.brace, f.commands, f.how,
                  f.started)
    BY <1>1, <2>1 DEF LineRecord, Moved
  <2>3. Permitted(g)
    <3>1. /\ g.line = f.line /\ g.phase = "run" /\ g.how = f.how /\ g.stage = 1
          /\ g.started = {} /\ g.source = f.source /\ g.mode = "buffered"
          /\ g.commands = f.commands
      BY <2>2, <1>2 DEF Moved
    <3>2. ASSUME NEW k \in 1 .. n, g.commands[k].kind = "external"
          PROVE  MayStart(g, k)
      <4>1. k < f.stage => Cleared(f, k)
        BY <1>2
      <4>2. k = f.stage => Cleared(f, k)
        BY <3>1, <3>2, <1>2 DEF IsExternal
      <4>3. Cleared(f, k) => Cleared(g, k)
        BY <3>1 DEF Cleared
      <4>4. k > f.stage => NotReached(g, k)
        <5>1. NeedsBuffer(g, f.stage)
          BY <3>1, <1>4 DEF NeedsBuffer
        <5>2. k > f.stage => f.stage \in 1 .. k - 1
          BY <1>1
        <5> QED
          BY <5>1, <5>2, <3>1 DEF NotReached
      <4> QED
        BY <4>1, <4>2, <4>3, <4>4, <1>1 DEF MayStart
    <3>3. Turned(g.line, g.phase, g.stage, g.commands)
      BY <3>1, <1>1, <1>4, <1>9
    <3> QED
      BY <3>1, <3>2, <3>3, <1>1, <1>2 DEF Permitted
  <2>4. Place(f, "run", "buffered", 1, f.brace, f.how, f.started)
    BY <1>1, <1>4 DEF Place
  <2>5. g \in Frame /\ SameCall(f, g)
    BY <2>2, <2>3, <2>4, MovedTyped
  <2> QED
    BY <2>5 DEF g
<1>5. CASE n > 1 /\ ~NeedsBuffer(f, f.stage)
  <2>1. \A k \in 1 .. n : k <= f.stage => Cleared(f, k)
    <3>1. IsExternal(Command)
      BY <1>1, <1>2, <1>5 DEF NeedsBuffer
    <3> QED
      BY <3>1, <1>1, <1>2
  <2>2. CASE f.stage = n
    <3>1. g = [f EXCEPT !.phase = "run", !.mode = "pipeline"]
      BY <1>1, <1>5, <2>2 DEF AfterAuthorize, g
    <3>2. g = Moved(f, "run", "pipeline", f.stage, f.brace, f.commands, f.how,
                  f.started)
      BY <1>1, <3>1 DEF LineRecord, Moved
    <3>3. Permitted(g)
      <4>1. /\ g.line = f.line /\ g.phase = "run" /\ g.how = f.how
            /\ g.stage = f.stage /\ g.started = {} /\ g.source = f.source
            /\ g.mode = "pipeline" /\ g.commands = f.commands
        BY <3>2, <1>2 DEF Moved
      <4>2. \A k \in 1 .. n : Cleared(g, k)
        <5>1. \A k \in 1 .. n : Cleared(f, k)
          BY <2>1, <2>2, <1>1
        <5> QED
          BY <5>1, <4>1 DEF Cleared
      <4>3. Turned(g.line, g.phase, g.stage, g.commands)
        BY <4>1, <1>1, <1>9
      <4> QED
        BY <4>1, <4>2, <4>3, <1>1, <1>2 DEF Permitted
    <3>4. Place(f, "run", "pipeline", f.stage, f.brace, f.how, f.started)
      BY <1>1 DEF Place
    <3>5. g \in Frame /\ SameCall(f, g)
      BY <3>2, <3>3, <3>4, MovedTyped
    <3> QED
      BY <3>5 DEF g
  <2>3. CASE f.stage # n
    <3>1. g = [f EXCEPT !.stage = @ + 1]
      BY <1>1, <1>5, <2>3 DEF AfterAuthorize, g
    <3>2. g = Moved(f, "authorize", f.mode, f.stage + 1, f.brace, f.commands, f.how,
                  f.started)
      BY <1>1, <3>1 DEF LineRecord, Moved
    <3>3. Permitted(g)
      <4>1. /\ g.line = f.line /\ g.phase = "authorize" /\ g.how = f.how
            /\ g.stage = f.stage + 1 /\ g.started = {} /\ g.source = f.source
            /\ g.mode = "single" /\ g.commands = f.commands
        BY <3>2, <1>2 DEF Moved
      <4>2. \A k \in 1 .. n : k < g.stage => Cleared(g, k)
        <5>1. \A k \in 1 .. n : k < g.stage => Cleared(f, k)
          BY <4>1, <2>1, <1>1
        <5> QED
          BY <5>1, <4>1 DEF Cleared
      <4>3. Turned(g.line, g.phase, g.stage, g.commands)
        <5>1. f.stage + 1 \in 1 .. n
          BY <1>1, <2>3
        <5> QED
          BY <4>1, <5>1, <1>9
      <4> QED
        BY <4>1, <4>2, <4>3, <1>1, <1>2 DEF Permitted
    <3>4. Place(f, "authorize", f.mode, f.stage + 1, f.brace, f.how, f.started)
      BY <1>1, <2>3 DEF Place
    <3>5. g \in Frame /\ SameCall(f, g)
      BY <3>2, <3>3, <3>4, MovedTyped
    <3> QED
      BY <3>5 DEF g
  <2> QED
    BY <2>2, <2>3
<1> QED
  BY <1>1, <1>3, <1>4, <1>5

Answer(how) ==
  /\ how \in Hows \ {"unasked"}
  /\ grayListed(Top.source) => how # "policy"
  /\ how = "list off" => StageCount = 1

LEMMA ApprovedFrame ==
  ASSUME IInv, In("authorize"), NEW how, Answer(how)
  PROVE  Approved(how) \in Frame /\ SameCall(Top, Approved(how))
<1> DEFINE g == [Top EXCEPT !.how[Top.stage] = how]
           f == Top
<1>1. IsLine /\ Top.phase = "authorize"
  BY DEF In
<1>2. Placed(f) /\ f.phase = "authorize" /\ f.stage \in DOMAIN Stages[f.line]
  <2>1. Placed(f) /\ f.phase = "authorize"
    BY <1>1, TopPlaced
  <2> HIDE DEF f
  <2>2. /\ f.stage \in 1 .. Len(Stages[f.line]) + IF f.phase = "parse" THEN 1 ELSE 0
        /\ Len(Stages[f.line]) \in Nat
        /\ DOMAIN Stages[f.line] = 1 .. Len(Stages[f.line])
    BY <2>1, Zenon DEF Placed
  <2>3. f.stage \in 1 .. Len(Stages[f.line])
    BY <2>1, <2>2
  <2> QED
    BY <2>1, <2>2, <2>3
<1>3. g = Moved(f, f.phase, f.mode, f.stage, f.brace, f.commands,
                [f.how EXCEPT ![f.stage] = how], f.started)
  <2>1. f \in LineRecord
    BY <1>2 DEF Placed
  <2>2. g = [f EXCEPT !.how[f.stage] = how]
    OBVIOUS
  <2> HIDE DEF f, g
  <2> QED
    BY <2>1, <2>2 DEF LineRecord, Moved
<1>4. /\ grayListed(f.source) => how # "policy"
      /\ how = "list off" => Len(Stages[f.line]) = 1
      /\ how \in Hows /\ how # "unasked"
  BY DEF StageCount, Answer
<1> HIDE DEF f, g
<1>5. Permitted(g)
  <2>1. /\ g.line = f.line /\ g.phase = f.phase /\ g.stage = f.stage
        /\ g.source = f.source /\ g.commands = f.commands /\ g.mode = f.mode
        /\ g.started = f.started /\ g.how = [f.how EXCEPT ![f.stage] = how]
    BY <1>3 DEF Moved
  <2>2. Permitted(f) /\ f.how \in [DOMAIN Stages[f.line] -> Hows]
    BY <1>2 DEF Placed
  <2>3. \A k \in DOMAIN Stages[f.line] :
          g.how[k] = IF k = f.stage THEN how ELSE f.how[k]
    <3>1. \A k \in DOMAIN Stages[f.line] :
            [f.how EXCEPT ![f.stage] = how][k] = IF k = f.stage THEN how ELSE f.how[k]
      BY <2>2, ExceptAt, Zenon
    <3> QED
      BY <2>1, <3>1
  <2>4. \A k \in DOMAIN Stages[f.line] :
          k < f.stage => k # f.stage /\ Cleared(f, k)
    <3>1. \A k \in DOMAIN Stages[f.line] : k < f.stage => Cleared(f, k)
      BY <2>2, <1>2, Zenon DEF Permitted
    <3>2. f.stage \in Nat
      BY <1>2, Zenon DEF Placed
    <3>3. \A k \in DOMAIN Stages[f.line] : k < f.stage => k # f.stage
      BY <3>2
    <3> QED
      BY <3>1, <3>3
  <2>5. \A k \in DOMAIN Stages[f.line] : k < f.stage => Cleared(g, k)
    BY <2>1, <2>3, <2>4 DEF Cleared
  <2>6. grayListed(g.source) => \A k \in DOMAIN Stages[f.line] : g.how[k] # "policy"
    BY <2>1, <2>2, <2>3, <1>4 DEF Permitted
  <2> QED
    BY <2>1, <2>2, <2>5, <2>6, <1>2 DEF Permitted
<1>6. Place(f, f.phase, f.mode, f.stage, f.brace,
            [f.how EXCEPT ![f.stage] = how], f.started)
  BY <1>2, <1>4 DEF Place, Placed
<1>7. g \in Frame /\ SameCall(f, g)
  BY <1>2, <1>3, <1>5, <1>6, MovedTyped
<1>8. /\ g.line = f.line /\ g.stage = f.stage /\ g.phase = "authorize"
      /\ g.commands = f.commands /\ Cleared(g, g.stage)
  BY <1>2, <1>3, <1>4 DEF Moved, Placed, Cleared, Hows
<1>9. Placed(g)
  <2>1. g \in LineRecord
    <3>1. g.type = "line"
      BY <1>3 DEF Moved
    <3> QED
      BY <3>1, <1>7, FrameTypes
  <2>2. /\ g.line = f.line /\ g.phase = f.phase /\ g.stage = f.stage
        /\ g.brace = f.brace /\ g.mode = f.mode /\ g.started = f.started
        /\ g.how = [f.how EXCEPT ![f.stage] = how]
    BY <1>3 DEF Moved
  <2>3. g.how \in [DOMAIN Stages[f.line] -> Hows]
    BY <2>2, <1>2, <1>4 DEF Placed
  <2> QED
    BY <2>1, <2>2, <2>3, <1>2, <1>5, Zenon DEF Placed
<1>10. AfterAuthorize(g) \in Frame /\ SameCall(g, AfterAuthorize(g))
  BY <1>8, <1>9, AuthorizedFrame DEF f
<1> QED
  BY <1>7, <1>10 DEF f, g, Approved, SameCall

-----------------------------------------------------------------------------
(* The trust store. *)

LEMMA AddKeeps ==
  ASSUME Store, TrustProvenance, NEW r \in Rules,
         NEW source \in {"interactive", "default.cloth"},
         trustStore' = Add(Entry(r, source)),
         confirmed' \in {confirmed, confirmed \cup {r}},
         source = "interactive" => r \in confirmed',
         source = "default.cloth" => r \in SeededRules,
         useTrustedList' = useTrustedList
  PROVE  Store' /\ TrustProvenance'
<1> DEFINE e == Entry(r, source)
           T == [rule : Rules, source : Sources]
<1>1. e \in T /\ e.rule = r /\ e.source = source
  BY DEF Entry, Sources
<1>2. trustStore \in Seq(T)
  BY DEF Store
<1> HIDE DEF e, T
<1>3. CASE trustStore' = trustStore
  BY <1>3 DEF Store, TrustProvenance
<1>4. CASE trustStore' = Append(trustStore, e)
  <2>1. /\ trustStore' \in Seq(T) /\ Len(trustStore') = Len(trustStore) + 1
        /\ \A i \in 1 .. Len(trustStore) : trustStore'[i] = trustStore[i]
        /\ trustStore'[Len(trustStore) + 1] = e
    BY <1>1, <1>2, <1>4, AppendProperties
  <2>2. /\ DOMAIN trustStore = 1 .. Len(trustStore) /\ Len(trustStore) \in Nat
        /\ DOMAIN trustStore' = 1 .. Len(trustStore')
    BY <1>2, <2>1, LenProperties
  <2>3. ASSUME NEW i \in DOMAIN trustStore'
        PROVE  \/ trustStore'[i].source = "interactive" /\ trustStore'[i].rule \in confirmed'
               \/ trustStore'[i].source = "default.cloth" /\ trustStore'[i].rule \in SeededRules
    <3>1. CASE i \in 1 .. Len(trustStore)
      BY <3>1, <2>1, <2>2 DEF TrustProvenance
    <3>2. CASE i = Len(trustStore) + 1
      BY <3>2, <2>1, <1>1
    <3> QED
      BY <3>1, <3>2, <2>1, <2>2
  <2> QED
    BY <2>1, <2>3 DEF Store, TrustProvenance, T
<1> QED
  BY <1>3, <1>4 DEF Add, e

LEMMA RemoveKeeps ==
  ASSUME Store, TrustProvenance, NEW r, HasRule(r),
         trustStore' = RemoveRule(r), UNCHANGED <<useTrustedList, confirmed>>
  PROVE  Store' /\ TrustProvenance'
<1> DEFINE T == [rule : Rules, source : Sources]
           I == {i \in 1 .. Len(trustStore) : trustStore[i].rule = r}
           m == Min(I)
<1>1. trustStore \in Seq(T) /\ DOMAIN trustStore = 1 .. Len(trustStore)
      /\ Len(trustStore) \in Nat
  BY LenProperties DEF Store
<1>2. I # {} /\ I \in SUBSET Nat
  BY <1>1 DEF HasRule
<1>3. m \in 1 .. Len(trustStore)
  <2> HIDE DEF I
  <2>1. m \in I
    BY <1>2, MinInSet
  <2> QED
    BY <2>1 DEF I
<1>4. trustStore' = RemoveAt(trustStore, m)
  BY <1>2 DEF RemoveRule, SelectInSeq
<1> HIDE DEF m, T, I
<1>5. /\ trustStore' \in Seq(T) /\ Len(trustStore') = Len(trustStore) - 1
      /\ \A j \in 1 .. Len(trustStore) - 1 :
           trustStore'[j] = IF j < m THEN trustStore[j] ELSE trustStore[j + 1]
  BY <1>1, <1>3, <1>4, RemoveAtLemma
<1>6. ASSUME NEW j \in DOMAIN trustStore'
      PROVE  \E i \in DOMAIN trustStore : trustStore'[j] = trustStore[i]
  <2>1. j \in 1 .. Len(trustStore) - 1
    BY <1>5, LenProperties
  <2>2. j \in DOMAIN trustStore /\ j + 1 \in DOMAIN trustStore
    BY <2>1, <1>1
  <2> QED
    BY <2>1, <2>2, <1>5
<1> QED
  BY <1>5, <1>6 DEF Store, TrustProvenance, T

-----------------------------------------------------------------------------
(* The steps. *)

(* A stage has ended: a buffered pipeline goes on to the next one, anything *)
(* else returns.                                                           *)
LEMMA StageEndsKeeps ==
  ASSUME IInv, IsLine, Top.phase \in {"run", "running", "resume"},
         NEW status \in {0, 1}, StageEnds(status)
  PROVE  Nested(stack, commandSource)' /\ Rest'
<1>1. CASE \E s \in {0, 1} : Finish(s)
  BY <1>1, FinishKeeps
<1>2. CASE /\ Top.mode = "buffered" /\ Top.stage < StageCount
           /\ Update([Top EXCEPT !.phase = "run", !.stage = @ + 1])
  <2> DEFINE g == [Top EXCEPT !.phase = "run", !.stage = @ + 1]
  <2>1. g \in Frame /\ SameCall(Top, g)
    BY <1>2, TopPlaced, NextFrame DEF StageCount
  <2> QED
    BY <1>2, <2>1, UpdateKeeps
<1> QED
  BY <1>1, <1>2 DEF StageEnds

(* A line of the configuration file is one of ClothLines, and so are those *)
(* of its brace groups.                                                    *)
LEMMA ClothClosed ==
  /\ ToSet(Cloth) \subseteq ClothLines
  /\ \A l \in ClothLines : BracesOf(l) \subseteq ClothLines
<1>1. ToSet(Cloth) \subseteq Lines
  BY LinesAssumption, LenProperties, ElementOfSeq DEF ToSet
<1>2. \A l \in Lines : BracesOf(l) \subseteq Lines
  <2> SUFFICES ASSUME NEW l \in Lines, NEW x \in BracesOf(l) PROVE x \in Lines
    OBVIOUS
  <2>1. Stages[l] \in Seq(StageSet)
    BY LinesAssumption
  <2>2. PICK stage \in ToSet(Stages[l]) : x \in ToSet(stage.braces)
    BY DEF BracesOf
  <2>3. stage \in StageSet
    BY <2>1, <2>2, LenProperties, ElementOfSeq DEF ToSet
  <2>4. stage.braces \in Seq(Lines)
    BY <2>3 DEF StageSet
  <2> QED
    BY <2>2, <2>4, LenProperties, ElementOfSeq DEF ToSet
<1>3. Grouped \subseteq Lines /\ ClothLines \subseteq Lines
  BY <1>1, <1>2 DEF Grouped, ClothLines
<1>4. ASSUME NEW l \in ClothLines, NEW x \in BracesOf(l) PROVE x \in ClothLines
  <2>1. x \in Grouped
    BY <1>3 DEF Grouped
  <2>2. ASSUME NEW within \in SUBSET Grouped,
               \A outer \in ToSet(Cloth) \cup within : BracesOf(outer) \subseteq within
        PROVE  x \in within
    <3>1. l \in ToSet(Cloth) \cup within
      BY <2>2 DEF ClothLines
    <3> QED
      BY <3>1, <2>2, <1>4
  <2> QED
    BY <2>1, <2>2 DEF ClothLines
<1> QED
  BY <1>4 DEF ClothLines

LEMMA SameStore ==
  ASSUME IInv, UNCHANGED trust
  PROVE  Store' /\ TrustProvenance'
BY DEF IInv, Store, TrustProvenance, trust

LEMMA PromptStep ==
  ASSUME IInv, NEW l \in Typed, Prompt(l)
  PROVE  IInv'
<1> DEFINE source == IF interactiveInput THEN "interactive" ELSE "non-interactive input"
           f == LineFrame(l, source, commandSource, FALSE)
<1>1. stack = <<>> /\ Len(stack) = 0 /\ commandSource = "interactive"
  <2>1. stack = <<>> /\ commandSource = Caller(stack, Len(stack) + 1)
    BY DEF Prompt, IInv, Nested
  <2>2. Len(<<>>) = 0
    BY EmptySeq
  <2> QED
    BY <2>1, <2>2 DEF Caller
<1>2. /\ f \in Frame /\ f.type = "line" /\ ~f.capture
      /\ f.prev = commandSource /\ f.source = source
  <2>1. /\ l \in Lines /\ {source, commandSource} \subseteq Sources
        /\ source # "default.cloth"
    BY <1>1, LinesAssumption DEF Sources
  <2>2. f \in Frame
    BY <2>1, NewLineFrame
  <2> QED
    BY <2>2 DEF LineFrame
<1>3. /\ stack' = <<f>> /\ commandSource' = source
      /\ UNCHANGED <<configSource, lastExitCode, fixed, trust>>
  BY DEF Prompt
<1> HIDE DEF source, f
<1>4. Nested(Append(stack, f), source)
  <2>1. Len(stack) < MaxDepth
    BY <1>1, LinesAssumption
  <2> QED
    BY <2>1, <1>2, Push DEF IInv
<1>5. stack' = Append(stack, f)
  BY <1>1, <1>3
<1>6. Store' /\ TrustProvenance'
  BY <1>3, SameStore
<1> QED
  BY <1>3, <1>4, <1>5, <1>6 DEF IInv, Rest, fixed

(* The innermost call, when it is a file.                                  *)
LEMMA TopFile ==
  ASSUME IInv, IsFile
  PROVE  /\ stack # <<>> /\ stack \in Seq(Frame) /\ Top = stack[Len(stack)]
         /\ Len(stack) \in Nat \ {0}
         /\ Top \in FileRecord /\ IsFileFrame(Top) /\ Faithful(Top)
         /\ Len(Top.lines) \in Nat /\ \A i \in 1 .. Len(Top.lines) : Top.lines[i] \in Lines
<1>1. stack # <<>> /\ stack \in Seq(Frame) /\ Top = stack[Len(stack)] /\ Top.type = "file"
  BY DEF IInv, Nested, IsFile, Top, Last
<1>2. Len(stack) \in Nat \ {0} /\ Len(stack) \in 1 .. Len(stack)
  BY <1>1, EmptySeq, LenProperties
<1>3. Top \in Frame
  BY <1>1, <1>2, ElementOfSeq
<1>4. Top \in FileRecord /\ IsFileFrame(Top) /\ Faithful(Top)
  BY <1>1, <1>3, FrameTypes
<1>5. Top.lines \in Seq(Lines)
  BY <1>4 DEF FileRecord
<1> QED
  BY <1>1, <1>2, <1>4, <1>5, LenProperties, ElementOfSeq

LEMMA NextFileLineStep ==
  ASSUME IInv, NextFileLine
  PROVE  IInv'
<1> DEFINE g == [Top EXCEPT !.next = @ + 1]
           l == Top.lines[Top.next]
           f == LineFrame(l, Top.source, commandSource, FALSE)
           s == [stack EXCEPT ![Len(stack)] = g]
<1>1. IsFile /\ Top.next <= Len(Top.lines) /\ Len(stack) < MaxDepth
  BY DEF NextFileLine
<1>2. Top.next \in 1 .. Len(Top.lines) /\ Top.source \in Sources /\ Top.type = "file"
  BY <1>1, TopFile DEF IsFileFrame
<1>3. g \in Frame /\ SameCall(Top, g)
  <2>1. Top.next + 1 \in 1 .. Len(Top.lines) + 1 /\ Top.next + 1 \in Nat
    BY <1>2, <1>1, TopFile
  <2>2. g = [type |-> "file", lines |-> Top.lines, next |-> Top.next + 1,
             source |-> Top.source]
    BY <1>1, TopFile DEF FileRecord
  <2> HIDE DEF g
  <2>3. g \in FileRecord
    BY <2>1, <2>2, <1>1, TopFile DEF FileRecord
  <2>4. IsFileFrame(g) /\ Faithful(g)
    BY <2>1, <2>2, <1>1, TopFile DEF IsFileFrame, Faithful
  <2> QED
    BY <2>2, <2>3, <2>4, <1>2 DEF Frame, SameCall
<1>4. Nested(s, commandSource) /\ Len(s) = Len(stack)
  <2> HIDE DEF g
  <2>1. Nested(s, commandSource)
    BY <1>1, <1>3, TopFile, ReplaceTop DEF IInv
  <2>2. Len(s) = Len(stack)
    BY <1>1, <1>3, TopFile, ExceptSeq
  <2> QED
    BY <2>1, <2>2
<1>5. commandSource \in Sources
  <2>1. commandSource = Caller(stack, Len(stack) + 1) /\ stack[Len(stack)].type = "file"
    BY <1>1, <1>2, TopFile DEF IInv, Nested
  <2>2. Len(stack) + 1 # 1 /\ (Len(stack) + 1) - 1 = Len(stack)
        /\ (Len(stack) + 1 # 2 => (Len(stack) + 1) - 2 \in 1 .. Len(stack))
    BY <1>1, TopFile
  <2>3. "interactive" \in Sources
    BY DEF Sources
  <2> QED
    BY <2>1, <2>2, <2>3, <1>1, TopFile, ElementOfSeq, FrameTypes DEF Caller
<1>6. /\ f \in Frame /\ f.type = "line" /\ ~f.capture
      /\ f.prev = commandSource /\ f.source = Top.source
  <2>1. l \in Lines
    BY <1>1, <1>2, TopFile
  <2>2. Top.source = "default.cloth" => l \in ClothLines
    <3> SUFFICES ASSUME Top.source = "default.cloth" PROVE l \in ClothLines
      OBVIOUS
    <3>1. Top.lines = Cloth
      BY <1>1, TopFile DEF Faithful
    <3>2. l \in ToSet(Cloth)
      BY <3>1, <1>2, LinesAssumption, LenProperties DEF ToSet
    <3> QED
      BY <3>2, ClothClosed
  <2>3. f \in Frame
    BY <2>1, <2>2, <1>2, <1>5, NewLineFrame
  <2> QED
    BY <2>3 DEF LineFrame
<1>7. /\ stack' = Append(s, f) /\ commandSource' = Top.source
      /\ UNCHANGED <<configSource, lastExitCode, fixed, trust>>
  BY DEF NextFileLine, SetTop
<1> HIDE DEF g, f, s, l
<1>8. Nested(Append(s, f), Top.source)
  BY <1>1, <1>4, <1>6, Push
<1>9. Store' /\ TrustProvenance'
  BY <1>7, SameStore
<1> QED
  BY <1>7, <1>8, <1>9 DEF IInv, Rest, fixed

LEMMA EndOfFileStep ==
  ASSUME IInv, EndOfFile
  PROVE  IInv'
<1>1. IsFile /\ Top.type = "file"
  BY DEF EndOfFile, IsFile
<1>2. Nested(Front(stack), IF stack[Len(stack)].type = "line" /\ ~stack[Len(stack)].capture
                           THEN stack[Len(stack)].prev ELSE commandSource)
  BY <1>1, TopFile, Pop DEF IInv
<1>3. Nested(Front(stack), commandSource)
  BY <1>1, <1>2, TopFile
<1>4. Store' /\ TrustProvenance'
  BY SameStore DEF EndOfFile
<1> QED
  BY <1>3, <1>4 DEF EndOfFile, IInv, Rest, fixed

LEMMA ParseStep ==
  ASSUME IInv, Parse
  PROVE  IInv'
<1>1. IsLine /\ Top.phase = "parse" /\ Placed(Top)
  BY TopPlaced DEF Parse, ParseBrace, ParseStage, SyntaxError, NoCommand,
       EmptyLine, ParseEnds, In
<1>2. Store' /\ TrustProvenance'
  BY SameStore DEF Parse, ParseBrace, ParseStage, SyntaxError, NoCommand, EmptyLine,
       ParseEnds, ParseFails
<1>3. CASE ParseBrace
  <2> DEFINE g == [Top EXCEPT !.brace = @ + 1]
             l == Stage.braces[Top.brace]
             f == LineFrame(l, commandSource, commandSource, TRUE)
             s == [stack EXCEPT ![Len(stack)] = g]
  <2>1. g \in Frame /\ SameCall(Top, g)
    BY <1>1, BraceFrame
  <2>2. /\ Top.stage \in 1 .. StageCount /\ Top.brace \in 1 .. Len(Stage.braces)
        /\ Stage = Stages[Top.line][Top.stage] /\ Stage \in StageSet
    <3>1. Top.stage \in 1 .. StageCount
      <4>1. Top.stage <= StageCount
        BY <1>3 DEF ParseBrace, Unparsed
      <4>2. StageCount \in Nat /\ Top.stage \in 1 .. StageCount + 1
        BY <1>1 DEF Placed, StageCount
      <4> QED
        BY <4>1, <4>2
    <3>2. Stage = Stages[Top.line][Top.stage] /\ Stage \in StageSet
      BY <3>1, <1>1, TopLine DEF Stage
    <3>3. Stage.braces \in Seq(Lines) /\ Len(Stage.braces) \in Nat
      BY <3>2, LenProperties DEF StageSet
    <3>4. Top.brace <= Len(Stage.braces)
      BY <1>3 DEF ParseBrace
    <3>5. Top.brace \in Nat \ {0}
      BY <1>1 DEF Placed
    <3> QED
      BY <3>1, <3>2, <3>3, <3>4, <3>5
  <2>3. l \in Lines /\ l \in BracesOf(Top.line)
    <3>1. Stage.braces \in Seq(Lines)
      BY <2>2 DEF StageSet
    <3>2. l \in Lines /\ l \in ToSet(Stage.braces)
      BY <3>1, <2>2, LenProperties, ElementOfSeq DEF ToSet
    <3>3. Stage \in ToSet(Stages[Top.line])
      BY <2>2, <1>1, TopLine DEF ToSet
    <3> QED
      BY <3>2, <3>3 DEF BracesOf
  <2>4. /\ f \in Frame /\ f.type = "line" /\ f.capture /\ f.source = commandSource
    <3>1. commandSource = Top.source /\ commandSource \in Sources
      BY <1>1, TopLine DEF LineRecord
    <3>2. commandSource = "default.cloth" => l \in ClothLines
      BY <3>1, <2>3, <1>1, ClothClosed DEF Placed, Permitted
    <3>3. f \in Frame
      BY <3>1, <3>2, <2>3, NewLineFrame
    <3> QED
      BY <3>3 DEF LineFrame
  <2>5. /\ stack' = Append(s, f) /\ Len(stack) < MaxDepth
        /\ UNCHANGED <<commandSource, configSource, lastExitCode, fixed, trust>>
    BY <1>3 DEF ParseBrace, SetTop
  <2> HIDE DEF g, l, f, s
  <2>6. Nested(s, commandSource) /\ Len(s) = Len(stack)
    <3>1. Len(stack) \in 1 .. Len(stack)
      BY <1>1, TopLine, EmptySeq, LenProperties
    <3>2. s \in Seq(Frame) /\ Len(s) = Len(stack)
      BY <3>1, <2>1, <1>1, TopLine, ExceptSeq DEF s
    <3>3. Nested(s, commandSource)
      BY <2>1, <1>1, TopLine, ReplaceTop DEF IInv, s
    <3> QED
      BY <3>2, <3>3
  <2>7. Nested(Append(s, f), commandSource)
    BY <2>4, <2>5, <2>6, Push
  <2> QED
    BY <2>5, <2>7, <1>2 DEF IInv, Rest, fixed
<1>4. CASE ParseStage
  <2>1. PICK command \in Stage.commands :
          Update([Top EXCEPT !.stage = @ + 1, !.brace = 1,
                             !.commands = Append(@, command)])
    BY <1>4 DEF ParseStage
  <2>2. Top.stage <= Len(Stages[Top.line])
    BY <1>4 DEF ParseStage, Unparsed, StageCount
  <2>3. /\ command \in Commands /\ command \in Stages[Top.line][Top.stage].commands
    <3>1. Top.stage \in 1 .. StageCount
      <4>1. StageCount \in Nat /\ Top.stage \in 1 .. StageCount + 1
        BY <1>1 DEF Placed, StageCount
      <4> QED
        BY <2>2, <4>1 DEF StageCount
    <3>2. Stage \in StageSet /\ Stage = Stages[Top.line][Top.stage]
      BY <3>1, <1>1, TopLine DEF Stage
    <3>3. Stage.commands \subseteq Commands
      BY <3>2 DEF StageSet
    <3> QED
      BY <3>2, <3>3
  <2> DEFINE g == [Top EXCEPT !.stage = @ + 1, !.brace = 1,
                              !.commands = Append(@, command)]
  <2>4. g \in Frame /\ SameCall(Top, g)
    BY <2>2, <2>3, <1>1, StageFrame
  <2>5. Update(g)
    BY <2>1
  <2> HIDE DEF g
  <2> QED
    BY <2>4, <2>5, <1>1, <1>2, UpdateKeeps DEF IInv
<1>5. CASE SyntaxError \/ NoCommand
  <2>1. ParseFails
    BY <1>5 DEF SyntaxError, NoCommand
  <2>2. Nested(stack, commandSource)'
    BY <2>1, <1>1, ReturnKeeps DEF ParseFails
  <2> QED
    BY <2>1, <2>2, <1>2 DEF ParseFails, IInv, Rest, fixed
<1>6. CASE EmptyLine
  <2>1. Nested(stack, commandSource)'
    BY <1>6, <1>1, ReturnKeeps DEF EmptyLine
  <2> QED
    BY <2>1, <1>6, <1>2 DEF EmptyLine, IInv, Rest, fixed
<1>7. CASE ParseEnds
  <2> DEFINE g == [Top EXCEPT !.phase = "authorize", !.stage = 1]
  <2>1. Update(g) /\ Len(Stages[Top.line]) > 0 /\ Top.stage > Len(Stages[Top.line])
    <3>1. Update(g) /\ StageCount > 0 /\ ~(Top.stage <= StageCount)
      BY <1>7 DEF ParseEnds, Unparsed
    <3>2. StageCount \in Nat /\ Top.stage \in Nat
      BY <1>1 DEF Placed, StageCount
    <3> QED
      BY <3>1, <3>2 DEF StageCount
  <2>2. g \in Frame /\ SameCall(Top, g)
    BY <2>1, <1>1, ReadyFrame
  <2> HIDE DEF g
  <2> QED
    BY <2>1, <2>2, <1>1, <1>2, UpdateKeeps DEF IInv
<1> QED
  BY <1>3, <1>4, <1>5, <1>6, <1>7 DEF Parse

LEMMA AuthorizeStep ==
  ASSUME IInv, Authorize
  PROVE  IInv'
<1>1. In("authorize") /\ IsLine /\ Top.phase = "authorize" /\ Placed(Top)
  BY TopPlaced DEF Authorize, LookPathFails, SkipInternal, SkipSingle, TrustAllow,
       TrustDeny, RunOnce, TrustForSession, Authorizes, In
<1>2. CASE LookPathFails \/ TrustDeny
  <2>1. \E status \in {126, 127} : Finish(status) /\ UNCHANGED trust
    BY <1>2 DEF LookPathFails, TrustDeny
  <2>2. Nested(stack, commandSource)' /\ Rest'
    BY <2>1, <1>1, FinishKeeps
  <2> QED
    BY <2>1, <2>2, SameStore DEF IInv
<1>3. CASE SkipInternal
  <2>1. Update(AfterAuthorize(Top)) /\ ~IsExternal(Command)
    BY <1>3 DEF SkipInternal
  <2>2. AfterAuthorize(Top) \in Frame /\ SameCall(Top, AfterAuthorize(Top))
    BY <2>1, <1>1, AuthorizedFrame
  <2>3. Nested(stack, commandSource)' /\ Rest'
    BY <2>1, <2>2, <1>1, UpdateKeeps
  <2>4. UNCHANGED trust
    BY <1>3 DEF SkipInternal
  <2> QED
    BY <2>3, <2>4, SameStore DEF IInv
<1>4. ASSUME NEW how, Answer(how), Update(Approved(how))
      PROVE  Nested(stack, commandSource)' /\ Rest'
  <2>1. Approved(how) \in Frame /\ SameCall(Top, Approved(how))
    BY <1>1, <1>4, ApprovedFrame
  <2> QED
    BY <2>1, <1>1, <1>4, UpdateKeeps
<1>5. CASE SkipSingle \/ RunOnce
  <2>1. /\ \/ Update(Approved("list off")) /\ StageCount = 1
           \/ Update(Approved("user"))
        /\ UNCHANGED trust
    BY <1>5 DEF SkipSingle, RunOnce
  <2>2. Nested(stack, commandSource)' /\ Rest'
    BY <2>1, <1>4 DEF Hows, Answer
  <2> QED
    BY <2>1, <2>2, SameStore DEF IInv
<1>6. CASE TrustAllow
  <2>1. ~grayListed(Top.source)
    <3>1. EvaluateTrust(Command.program) = "allow" /\ commandSource = Top.source
      BY <1>6, <1>1, TopLine DEF TrustAllow, Authorizes
    <3> QED
      BY <3>1 DEF EvaluateTrust, grayListed
  <2>2. Update(Approved("policy")) /\ UNCHANGED trust
    BY <1>6 DEF TrustAllow
  <2>3. Nested(stack, commandSource)' /\ Rest'
    BY <2>1, <2>2, <1>4 DEF Hows, Answer
  <2> QED
    BY <2>2, <2>3, SameStore DEF IInv
<1>7. CASE TrustForSession
  <2> DEFINE r == ExactRule[Command.program]
  <2>1. /\ Update(Approved("user")) /\ trustStore' = Add(Entry(r, "interactive"))
        /\ confirmed' = confirmed \cup {r} /\ UNCHANGED useTrustedList
        /\ Command.kind = "external"
    BY <1>7 DEF TrustForSession, Authorizes
  <2>2. r \in Rules
    <3>1. Command \in Commands
      BY <1>1, AtStage
    <3>2. Command.program \in Programs
      BY <3>1, <2>1 DEF Commands
    <3> QED
      BY <3>2, RulesAssumption
  <2> HIDE DEF r
  <2>3. Nested(stack, commandSource)' /\ Rest'
    BY <2>1, <1>4 DEF Hows, Answer
  <2>4. Store' /\ TrustProvenance'
    BY <2>1, <2>2, AddKeeps DEF IInv
  <2> QED
    BY <2>3, <2>4 DEF IInv
<1> QED
  BY <1>2, <1>3, <1>5, <1>6, <1>7 DEF Authorize

(* A file is about to be read: the call waits, and the file is innermost.  *)
LEMMA OpenFile ==
  ASSUME IInv, IsLine, Top.phase = "run", Len(stack) < MaxDepth,
         NEW lines, NEW source \in Sources,
         \/ lines = Cloth
         \/ source # "default.cloth" /\ \E file \in Files : lines = Script[file]
  PROVE  /\ Nested(SetTop([Top EXCEPT !.phase = "resume"]), commandSource)
         /\ Nested(Append(SetTop([Top EXCEPT !.phase = "resume"]),
                          FileFrame(lines, source)), commandSource)
<1> DEFINE g == [Top EXCEPT !.phase = "resume"]
           s == [stack EXCEPT ![Len(stack)] = g]
           f == FileFrame(lines, source)
<1>1. g \in Frame /\ SameCall(Top, g) /\ g.type = "line"
  <2>1. g \in Frame /\ SameCall(Top, g)
    BY TopPlaced, ResumeFrame
  <2> QED
    BY <2>1 DEF SameCall, IsLine
<1>2. f \in Frame /\ f.type = "file"
  BY NewFileFrame
<1>3. Len(stack) \in 1 .. Len(stack)
  BY TopLine, EmptySeq, LenProperties
<1> HIDE DEF g, f
<1>4. s \in Seq(Frame) /\ Len(s) = Len(stack) /\ s[Len(stack)] = g
  BY <1>1, <1>3, TopLine, ExceptSeq
<1>5. Nested(s, commandSource)
  BY <1>1, TopLine, ReplaceTop DEF IInv
<1> HIDE DEF s
<1>6. Nested(Append(s, f), commandSource)
  BY <1>1, <1>2, <1>4, <1>5, Push
<1> QED
  BY <1>5, <1>6 DEF s, g, f, SetTop

LEMMA RunStep ==
  ASSUME IInv, Run
  PROVE  IInv'
<1> USE DEF Running, In, RunsState
<1>1. IsLine /\ Top.phase \in {"run", "running", "resume"} /\ Placed(Top)
  BY TopPlaced DEF Run, RedirectionFails, BufferedMissing, StartProgram, ProgramGone,
       StartPipeline, Exit, CdOrLs, OtherStateCommand, ToggleTrust, TrustRefused,
       TrustDeclined, TrustRule, UntrustRefused, UntrustRule, WearFails, Wear, Reset,
       Resume
<1> USE <1>1
<1>2. ASSUME NEW status \in {0, 1}, StageEnds(status)
      PROVE  Nested(stack, commandSource)' /\ Rest'
  BY <1>2, StageEndsKeeps
<1>3. ASSUME UNCHANGED trust, Nested(stack, commandSource)' /\ Rest'
      PROVE  IInv'
  BY <1>3, SameStore DEF IInv
<1>4. CASE RedirectionFails \/ BufferedMissing \/ ProgramGone
  <2>1. (Finish(1) \/ Finish(127)) /\ UNCHANGED trust
    BY <1>4 DEF RedirectionFails, BufferedMissing, ProgramGone
  <2>2. Nested(stack, commandSource)' /\ Rest'
    BY <2>1, FinishKeeps
  <2> QED
    BY <2>1, <2>2, <1>3
<1>5. CASE StartProgram
  <2> DEFINE g == [Top EXCEPT !.phase = "running", !.started = @ \cup {Top.stage}]
  <2>1. /\ Update(g) /\ UNCHANGED trust /\ Top.phase = "run"
        /\ Top.mode \in {"single", "buffered"}
        /\ Top.commands[Top.stage].kind = "external"
    BY <1>5 DEF StartProgram, Command
  <2>2. g \in Frame /\ SameCall(Top, g)
    BY <2>1, StartFrame
  <2> HIDE DEF g
  <2>3. Nested(stack, commandSource)' /\ Rest'
    BY <2>1, <2>2, UpdateKeeps
  <2> QED
    BY <2>1, <2>3, <1>3
<1>6. CASE StartPipeline
  <2>1. Top.phase = "run" /\ Top.mode = "pipeline" /\ UNCHANGED trust
    BY <1>6 DEF StartPipeline
  <2>2. PICK k \in 0 .. Len(Stages[Top.line]) :
          Update([Top EXCEPT !.phase = "running", !.started = @ \cup 1 .. k])
    BY <1>6 DEF StartPipeline, StageCount
  <2> DEFINE g == [Top EXCEPT !.phase = "running", !.started = @ \cup 1 .. k]
  <2>3. g \in Frame /\ SameCall(Top, g)
    BY <2>1, PipelineFrame
  <2>4. Update(g)
    BY <2>2
  <2> HIDE DEF g
  <2>5. Nested(stack, commandSource)' /\ Rest'
    BY <2>3, <2>4, UpdateKeeps
  <2> QED
    BY <2>1, <2>5, <1>3
<1>7. CASE Exit
  <2>1. (StageEnds(0) \/ StageEnds(1) \/ (StageEnds(127) /\ Top.mode = "pipeline"))
          /\ UNCHANGED trust
    BY <1>7 DEF Exit
  <2>2. StageEnds(127) => Finish(127)
    BY DEF StageEnds
  <2>3. Nested(stack, commandSource)' /\ Rest'
    BY <2>1, <2>2, <1>2, FinishKeeps
  <2> QED
    BY <2>1, <2>3, <1>3
<1>8. CASE \/ CdOrLs \/ OtherStateCommand \/ TrustRefused \/ TrustDeclined
           \/ UntrustRefused \/ WearFails \/ Resume
  <2>1. (\E status \in {0, 1} : StageEnds(status)) /\ UNCHANGED trust
    BY <1>8 DEF CdOrLs, OtherStateCommand, TrustRefused, TrustDeclined,
         UntrustRefused, WearFails, Resume
  <2> QED
    BY <2>1, <1>2, <1>3
<1>9. CASE ToggleTrust
  <2>1. StageEnds(0) /\ useTrustedList' = ~useTrustedList /\ UNCHANGED <<trustStore, confirmed>>
    BY <1>9 DEF ToggleTrust
  <2>2. Nested(stack, commandSource)' /\ Rest'
    BY <2>1, <1>2
  <2>3. Store' /\ TrustProvenance'
    BY <2>1 DEF IInv, Store, TrustProvenance
  <2> QED
    BY <2>2, <2>3 DEF IInv
<1>10. CASE TrustRule
  <2> DEFINE r == Command.rule
  <2>1. PICK source \in TrustSource : trustStore' = Add(Entry(r, source))
    BY <1>10 DEF TrustRule
  <2>2. /\ StageEnds(0) /\ UNCHANGED useTrustedList
        /\ confirmed' = IF fromInteractive THEN confirmed \cup {r} ELSE confirmed
        /\ Top.phase = "run" /\ Command.kind = "trust"
    BY <1>10 DEF TrustRule
  <2>3. /\ Top.stage \in 1 .. StageCount /\ Command \in Commands
        /\ Command \in Stages[Top.line][Top.stage].commands
        /\ DOMAIN Stages[Top.line] = 1 .. StageCount
    BY <2>2, AtStage, TopLine
  <2>4. r \in Rules /\ Command = [kind |-> "trust", rule |-> r]
    BY <2>2, <2>3 DEF Commands
  <2>5. /\ source \in {"interactive", "default.cloth"}
        /\ source = "interactive" => fromInteractive
        /\ source = "default.cloth" => commandSource = "default.cloth"
    BY <2>1 DEF TrustSource, fromProtectedDefault
  <2>6. source = "default.cloth" => r \in SeededRules
    <3> SUFFICES ASSUME source = "default.cloth" PROVE r \in SeededRules
      OBVIOUS
    <3>1. Top.source = "default.cloth"
      BY <2>5, TopLine
    <3>2. Top.line \in ClothLines
      BY <3>1 DEF Placed, Permitted
    <3> QED
      BY <3>2, <2>2, <2>3, <2>4 DEF SeededRules
  <2> HIDE DEF r
  <2>7. Store' /\ TrustProvenance'
    BY <2>1, <2>2, <2>4, <2>5, <2>6, AddKeeps DEF IInv
  <2>8. Nested(stack, commandSource)' /\ Rest'
    BY <2>2, <1>2
  <2> QED
    BY <2>7, <2>8 DEF IInv
<1>11. CASE UntrustRule
  <2>1. /\ StageEnds(0) /\ HasRule(Command.rule)
        /\ trustStore' = RemoveRule(Command.rule)
        /\ UNCHANGED <<useTrustedList, confirmed>>
    BY <1>11 DEF UntrustRule
  <2>2. Store' /\ TrustProvenance'
    BY <2>1, RemoveKeeps DEF IInv
  <2>3. Nested(stack, commandSource)' /\ Rest'
    BY <2>1, <1>2
  <2> QED
    BY <2>2, <2>3 DEF IInv
<1>12. CASE Wear
  <2> DEFINE s == Append(SetTop([Top EXCEPT !.phase = "resume"]),
                         FileFrame(Script[Command.file], WearSource))
  <2>1. /\ Top.phase = "run" /\ Len(stack) < MaxDepth /\ Command.kind = "wear"
        /\ stack' = s
        /\ UNCHANGED <<commandSource, configSource, lastExitCode, fixed, trust>>
    BY <1>12 DEF Wear
  <2>2. Command.file \in Files
    <3>1. Command \in Commands
      BY <2>1, AtStage
    <3> QED
      BY <3>1, <2>1 DEF Commands
  <2>3. WearSource \in Sources /\ WearSource # "default.cloth"
    BY DEF WearSource, Sources
  <2>4. Nested(s, commandSource)
    BY <2>1, <2>2, <2>3, OpenFile
  <2> HIDE DEF s
  <2>5. Nested(stack, commandSource)' /\ Rest'
    BY <2>1, <2>4 DEF IInv, Rest, fixed
  <2> QED
    BY <2>1, <2>5, <1>3
<1>13. CASE Reset
  <2> DEFINE t == SetTop([Top EXCEPT !.phase = "resume"])
             s(source) == Append(t, FileFrame(Cloth, source))
  <2>1. /\ Top.phase = "run" /\ Len(stack) < MaxDepth
        /\ UNCHANGED <<commandSource, lastExitCode, fixed, trust>>
    BY <1>13 DEF Reset
  <2>2. \/ configSource' \in ReadableSources /\ stack' = s(configSource')
        \/ configSource' \in UnreadableSources(configSource) /\ stack' = t
    BY <1>13 DEF Reset
  <2>3. configSource' \in Sources
    BY <2>2 DEF ReadableSources, UnreadableSources, Sources, IInv, Rest
  <2>4. Nested(t, commandSource) /\ Nested(s(configSource'), commandSource)
    BY <2>1, <2>3, OpenFile
  <2> HIDE DEF t, s
  <2>5. Nested(stack, commandSource)' /\ Rest'
    BY <2>1, <2>2, <2>3, <2>4 DEF IInv, Rest, fixed
  <2> QED
    BY <2>1, <2>5, <1>3
<1> QED
  BY <1>4, <1>5, <1>6, <1>7, <1>8, <1>9, <1>10, <1>11, <1>12, <1>13 DEF Run

LEMMA InitIInv == Init => IInv
<1> SUFFICES ASSUME Init PROVE IInv
  OBVIOUS
<1>1. Store /\ TrustProvenance
  BY EmptySeq DEF Init, Store, TrustProvenance
<1>2. Rest
  BY DEF Init, Rest, ReadableSources, UnreadableSources, Sources
<1>3. Nested(<<>>, "interactive") /\ Len(<<>>) < MaxDepth
  <2>1. <<>> \in Seq(Frame) /\ Len(<<>>) = 0 /\ DOMAIN <<>> = {}
    BY EmptySeq
  <2>2. Len(<<>>) < MaxDepth
    BY <2>1, LinesAssumption
  <2>3. Linked(<<>>)
    BY <2>1 DEF Linked
  <2>4. Caller(<<>>, Len(<<>>) + 1) = "interactive"
    BY <2>1 DEF Caller
  <2>5. Len(<<>>) <= MaxDepth
    BY <2>1, LinesAssumption
  <2> QED
    BY <2>1, <2>2, <2>3, <2>4, <2>5 DEF Nested
<1>4. CASE stack = <<>>
  BY <1>1, <1>2, <1>3, <1>4 DEF Init, IInv
<1>5. CASE stack = <<FileFrame(Cloth, configSource)>>
  <2> DEFINE f == FileFrame(Cloth, configSource)
  <2>1. f \in Frame /\ f.type = "file"
    BY <1>2, NewFileFrame DEF Rest
  <2> HIDE DEF f
  <2>2. Nested(Append(<<>>, f), "interactive")
    BY <2>1, <1>3, Push
  <2>3. stack = Append(<<>>, f)
    BY <1>5 DEF f
  <2> QED
    BY <1>1, <1>2, <2>2, <2>3 DEF Init, IInv
<1> QED
  BY <1>4, <1>5 DEF Init

LEMMA NextIInv == IInv /\ [Next]_vars => IInv'
<1> SUFFICES ASSUME IInv, [Next]_vars PROVE IInv'
  OBVIOUS
<1>1. CASE UNCHANGED vars
  BY <1>1 DEF vars, IInv, Store, Rest, TrustProvenance
<1>2. CASE \E l \in Typed : Prompt(l)
  BY <1>2, PromptStep
<1>3. CASE Work
  BY <1>3, NextFileLineStep, EndOfFileStep, ParseStep, AuthorizeStep, RunStep DEF Work
<1> QED
  BY <1>1, <1>2, <1>3 DEF Next

THEOREM Invariant == Spec => []IInv
BY InitIInv, NextIInv, PTL DEF Spec

-----------------------------------------------------------------------------
(* What follows of it. *)

LEMMA LinesOfStack ==
  ASSUME IInv, NEW i \in LineFrames
  PROVE  /\ IsLineFrame(stack[i]) /\ Permitted(stack[i])
         /\ stack[i].started \subseteq DOMAIN Stages[stack[i].line]
<1>1. stack[i] \in Frame /\ stack[i].type = "line"
  BY LenProperties, ElementOfSeq DEF IInv, Nested, LineFrames
<1> QED
  BY <1>1, FrameTypes DEF IsLineFrame

(* Every variable of the interpreter stays in its set, and no loop over the *)
(* stages of a line or the lines of a file passes the last one.            *)
THEOREM TypeCorrect == Spec => []TypeOK
<1>1. IInv => TypeOK
  <2> SUFFICES ASSUME IInv PROVE TypeOK
    OBVIOUS
  <2>1. stack \in Seq(Frame) /\ Len(stack) <= MaxDepth
    BY DEF IInv, Nested
  <2>2. ASSUME NEW i \in DOMAIN stack
        PROVE  IsLineFrame(stack[i]) \/ IsFileFrame(stack[i])
    BY <2>1, LenProperties, ElementOfSeq DEF Frame
  <2>3. commandSource \in Sources
    <3>1. commandSource = Caller(stack, Len(stack) + 1)
      BY DEF IInv, Nested
    <3>2. /\ Len(stack) \in Nat
          /\ (Len(stack) + 1) - 1 = Len(stack)
          /\ Len(stack) + 1 # 1 => Len(stack) \in 1 .. Len(stack)
          /\ Len(stack) + 1 # 1 /\ Len(stack) + 1 # 2
               => (Len(stack) + 1) - 2 \in 1 .. Len(stack)
      BY <2>1, LenProperties
    <3>3. "interactive" \in Sources
      BY DEF Sources
    <3> QED
      BY <2>1, <3>1, <3>2, <3>3, ElementOfSeq, FrameTypes DEF Caller
  <2> QED
    BY <2>1, <2>2, <2>3 DEF IInv, Rest, Store, TypeOK
<1> QED
  BY <1>1, Invariant, PTL

(* commandSource is the source of the innermost line, at any depth of      *)
(* files, brace groups and configurations, after errors as after success.  *)
THEOREM SourceKept == Spec => []SourceDiscipline
<1>1. IInv => SourceDiscipline
  <2> SUFFICES ASSUME IInv PROVE SourceDiscipline
    OBVIOUS
  <2> DEFINE n == Len(stack)
  <2>1. /\ stack \in Seq(Frame) /\ n \in Nat /\ DOMAIN stack = 1 .. n
        /\ commandSource = Caller(stack, n + 1)
    BY LenProperties DEF IInv, Nested
  <2>2. \A m \in LineFrames : (\A k \in LineFrames : k <= m) => Max(LineFrames) = m
    <3>1. LineFrames \subseteq Nat
      BY <2>1 DEF LineFrames
    <3> QED
      BY <3>1, MaxOfSet
  <2>3. (n + 1) - 1 = n /\ (n + 1) - 2 = n - 1 /\ (n + 1 = 1 <=> n = 0)
        /\ (n + 1 = 2 <=> n = 1)
    <3>1. n \in Nat
      BY <2>1
    <3> HIDE DEF n
    <3> QED
      BY <3>1
  <2>4. CASE n = 0
    <3>1. LineFrames = {}
      BY <2>1, <2>4 DEF LineFrames
    <3> QED
      BY <3>1, <2>1, <2>4 DEF SourceDiscipline, Caller
  <2>5. CASE n # 0 /\ stack[n].type = "line"
    <3>1. n \in LineFrames /\ \A k \in LineFrames : k <= n
      BY <2>1, <2>5 DEF LineFrames
    <3>2. Max(LineFrames) = n
      BY <3>1, <2>2
    <3>3. commandSource = stack[n].source
      BY <2>1, <2>3, <2>5 DEF Caller
    <3> QED
      BY <3>1, <3>2, <3>3 DEF SourceDiscipline
  <2>6. CASE n # 0 /\ stack[n].type # "line"
    <3>1. n \in 1 .. n /\ stack[n].type = "file"
      BY <2>1, <2>6, ElementOfSeq, FrameTypes
    <3>2. n = 1 \/ stack[n - 1].type = "line"
      BY <3>1, <2>1 DEF IInv, Nested, Linked
    <3>3. commandSource = IF n = 1 THEN "interactive" ELSE stack[n - 1].source
      BY <2>1, <2>3, <2>6 DEF Caller
    <3>4. CASE n = 1
      <4>1. LineFrames = {}
        BY <2>1, <2>6, <3>4 DEF LineFrames
      <4> QED
        BY <4>1, <3>3, <3>4 DEF SourceDiscipline
    <3>5. CASE n # 1
      <4>1. n - 1 \in LineFrames
        BY <2>1, <2>6, <3>2, <3>5 DEF LineFrames
      <4>2. \A k \in LineFrames : k <= n - 1
        BY <2>1, <2>6 DEF LineFrames
      <4>3. Max(LineFrames) = n - 1
        BY <4>1, <4>2, <2>2
      <4> QED
        BY <4>1, <4>3, <3>3, <3>5 DEF SourceDiscipline
    <3> QED
      BY <3>4, <3>5
  <2> QED
    BY <2>4, <2>5, <2>6
<1> QED
  BY <1>1, Invariant, PTL

(* Every rule in the trust store was agreed to by the user, or is given by *)
(* a line of default.cloth itself.                                         *)
THEOREM TrustIsEarned == Spec => []TrustProvenance
<1>1. IInv => TrustProvenance
  BY DEF IInv
<1> QED
  BY <1>1, Invariant, PTL

(* Outside what follows in a buffered pipeline the stage that makes it so,  *)
(* no program starts whose stage has not been approved in this very call,  *)
(* or which is on its own while the list is off; for any number of stages. *)
THEOREM NothingUnapproved == Spec => []ApprovedBeforeStart
<1>1. IInv => ApprovedBeforeStart
  <2> SUFFICES ASSUME IInv, NEW i \in LineFrames, NEW k \in stack[i].started
               PROVE  MayStart(stack[i], k)
    BY DEF ApprovedBeforeStart, MayStart, Cleared
  <2>1. /\ Permitted(stack[i]) /\ k \in DOMAIN Stages[stack[i].line]
        /\ stack[i].phase \in {"parse", "authorize", "run", "running", "resume"}
    BY LinesOfStack DEF IsLineFrame
  <2> QED
    BY <2>1 DEF Permitted
<1> QED
  BY <1>1, Invariant, PTL

(* With the same exceptions no program of a .cloth file runs because of a  *)
(* rule in the trust store: the user is asked.                             *)
THEOREM ClothFilesAsk == Spec => []GrayListedAsks
<1>1. IInv => GrayListedAsks
  <2> SUFFICES ASSUME IInv, NEW i \in LineFrames, grayListed(stack[i].source),
                      NEW k \in stack[i].started
               PROVE  MayStart(stack[i], k) /\ stack[i].how[k] # "policy"
    BY DEF GrayListedAsks, MayStart, Cleared
  <2>1. /\ Permitted(stack[i]) /\ k \in DOMAIN Stages[stack[i].line]
        /\ stack[i].phase \in {"parse", "authorize", "run", "running", "resume"}
    BY LinesOfStack DEF IsLineFrame
  <2> QED
    BY <2>1 DEF Permitted
<1> QED
  BY <1>1, Invariant, PTL

(* A pipeline of any length one of whose stages is refused has started none *)
(* of the others.                                                          *)
THEOREM RefusalStartsNothing == Spec => AllOrNothing
<1>1. IInv /\ [Next]_vars => [TrustDeny => Top.started = {}]_vars
  <2> SUFFICES ASSUME IInv, TrustDeny PROVE Top.started = {}
    OBVIOUS
  <2>1. IsLine /\ Top.phase = "authorize"
    BY DEF TrustDeny, Authorizes, In
  <2> QED
    BY <2>1, TopLine DEF Permitted
<1> QED
  BY <1>1, Invariant, PTL DEF Spec, AllOrNothing

=============================================================================
