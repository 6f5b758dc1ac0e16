-------------------------------- MODULE Shell --------------------------------
(***************************************************************************)
(* The command interpreter: what happens between the moment a line is      *)
(* entered and the next prompt.  Parsing a line runs its brace groups;     *)
(* every stage is then authorized and run; !wear and !reset run the lines  *)
(* of a file from inside a stage.  It models main.go (parsePipeline,       *)
(* processTokens, runPipeline, runBufferedPipeline, RunString*,            *)
(* ReadConfiguration), trust_policy.go, trust_prompt.go, trust_store.go    *)
(* and the trust commands of workspace_commands.go.                        *)
(*                                                                         *)
(* The Go call stack is the variable "stack": a frame for each call of     *)
(* RunStringToSource or RunTokenPipelineAndCapture (a line) and for each   *)
(* loop over the lines of a file (a file).  A step is the work the code    *)
(* does between two points where it calls itself, asks the user, or starts *)
(* or waits for a program.  A line is given by its stages, and a stage by  *)
(* the commands it may turn out to be: more than one where a word of the   *)
(* command comes from the output of a brace group, since outputs are not   *)
(* modelled.  Whether opening a file or running a program succeeds is      *)
(* chosen freely.                                                          *)
(***************************************************************************)
EXTENDS Integers, Sequences, FiniteSets, SequencesExt

CONSTANTS
  Programs,    \* executables, by the path exec.LookPath finds
  Rules,       \* trust rules, each with its kind
  Covers,      \* the programs each rule matches (TrustEntry.Matches)
  ExactRule,   \* the exact-path rule of each program (sessionTrustEntry)
  Lines,       \* command lines
  Stages,      \* the pipeline stages of each line
  WellFormed,  \* whether the line has no syntax error after those stages
  Typed,       \* the lines the user enters
  Files,       \* .cloth files given to !wear
  Script,      \* their lines
  Cloth,       \* the lines of the configuration file
  MaxDepth     \* bounds the nesting of calls

Sources == {"interactive", "default.cloth", ".cloth", "development .cloth",
            "non-interactive input"}

Commands ==
  [kind : {"external"}, program : Programs]
    \cup [kind : {"trust", "untrust"}, rule : Rules]
    \cup [kind : {"wear"}, file : Files]
    \cup [kind : {"none",     \* no word at all, or an empty first word
                  "missing",  \* a word that exec.LookPath does not find
                  "cd", "ls", "reset", "toggle-trust", "unreadable",
                  "state"}]   \* the other commands that begin with "!"

StageSet == [commands : SUBSET Commands \ {{}},
             in : BOOLEAN, out : BOOLEAN, braces : Seq(Lines)]

ASSUME LinesAssumption ==
  /\ Stages \in [Lines -> Seq(StageSet)]
  /\ WellFormed \in [Lines -> BOOLEAN]
  /\ Typed \subseteq Lines
  /\ Script \in [Files -> Seq(Lines)]
  /\ Cloth \in Seq(Lines)
  /\ MaxDepth \in Nat \ {0}

ASSUME RulesAssumption ==
  /\ Covers \in [Rules -> SUBSET Programs]
  /\ ExactRule \in [Programs -> Rules]

VARIABLES
  stack,             \* the calls in progress, the innermost one last
  commandSource,     \* State.commandSource
  configSource,      \* State.configSource
  trustStore,        \* State.trustStore.entries
  useTrustedList,    \* State.useTrustedList
  lastExitCode,      \* State.lastExitCode
  interactiveInput,  \* State.interactiveInput: stdin is a terminal
  selectedCloth,     \* the shell was started with --cloth
  confirmed          \* history: the rules the user has agreed to trust

vars == <<stack, commandSource, configSource, trustStore, useTrustedList,
          lastExitCode, interactiveInput, selectedCloth, confirmed>>

\* What no command changes, and what only the trust commands change.
fixed == <<interactiveInput, selectedCloth>>
trust == <<trustStore, useTrustedList, confirmed>>

-----------------------------------------------------------------------------
(* Frames. *)

LineFrame(l, source, prev, capture) ==
  [type    |-> "line",
   line    |-> l,
   source  |-> source,   \* commandSource while the line runs
   prev    |-> prev,     \* the source to restore, for RunStringToSource
   capture |-> capture,  \* a brace group, whose output becomes words
   phase   |-> "parse",
   mode    |-> "single",
   stage   |-> 1,
   brace   |-> 1,
   commands |-> <<>>,    \* what the stages have turned out to be
   how     |-> [i \in DOMAIN Stages[l] |-> "unasked"],
   started |-> {}]

FileFrame(lines, source) ==
  [type |-> "file", lines |-> lines, next |-> 1, source |-> source]

Top == Last(stack)
IsLine == stack # <<>> /\ Top.type = "line"
IsFile == stack # <<>> /\ Top.type = "file"
In(phase) == IsLine /\ Top.phase = phase

SetTop(frame) == [stack EXCEPT ![Len(stack)] = frame]

StageCount == Len(Stages[Top.line])
Stage == Stages[Top.line][Top.stage]
Command == Top.commands[Top.stage]
IsExternal(command) == command.kind \in {"external", "missing"}
grayListed(source) == source \in {".cloth", "development .cloth"}

\* The call of the innermost line returns; the deferred function of
\* RunStringToSource puts the previous source back.
KeepSource == commandSource   \* (a mutant of the next)
RestoredSource == IF Top.capture THEN commandSource ELSE Top.prev
Return ==
  /\ stack' = Front(stack)
  /\ commandSource' = RestoredSource

Finish(status) ==
  /\ Return
  /\ lastExitCode' = status
  /\ UNCHANGED <<configSource, fixed>>

Update(frame) ==
  /\ stack' = SetTop(frame)
  /\ UNCHANGED <<commandSource, configSource, lastExitCode, fixed>>

-----------------------------------------------------------------------------
(* The trust store and the policy. *)

Entry(rule, source) == [rule |-> rule, source |-> source]

Add(entry) ==
  IF Contains(trustStore, entry) THEN trustStore ELSE Append(trustStore, entry)

RemoveRule(rule) ==
  LET HasRule(entry) == entry.rule = rule
  IN RemoveAt(trustStore, SelectInSeq(trustStore, HasRule))

Allows(program) ==
  \E i \in DOMAIN trustStore : program \in Covers[trustStore[i].rule]

AllowsFirst(program) ==   \* (a mutant of the next: the store comes first)
  IF commandSource = "default.cloth" \/ Allows(program) THEN "allow"
  ELSE IF interactiveInput THEN "prompt" ELSE "deny"

EvaluateTrust(program) ==
  IF \/ commandSource = "default.cloth"
     \/ ~grayListed(commandSource) /\ Allows(program)
  THEN "allow"
  ELSE IF interactiveInput THEN "prompt" ELSE "deny"

-----------------------------------------------------------------------------
(* Starting: main() reads the configuration before the first command.  The *)
(* protection of default.cloth is examined each time it is read, and it    *)
(* may have changed since; a --cloth file is never protected.              *)

ReadableSources ==
  IF selectedCloth THEN {"development .cloth"} ELSE {"default.cloth", ".cloth"}

\* What the source becomes when nothing is read: no directory can be made for
\* the default file, or the file cannot be read.
UnreadableSources(before) ==
  IF selectedCloth THEN {"development .cloth"} ELSE {".cloth", before}

Init ==
  /\ interactiveInput \in BOOLEAN
  /\ selectedCloth \in BOOLEAN
  /\ \/ /\ configSource \in ReadableSources
        /\ stack = <<FileFrame(Cloth, configSource)>>
     \/ /\ configSource \in UnreadableSources("interactive")
        /\ stack = <<>>
  /\ commandSource = "interactive"
  /\ trustStore = <<>>
  /\ useTrustedList = TRUE
  /\ lastExitCode = 0
  /\ confirmed = {}

\* The main loop, or runNonInteractive, runs the next line.
Prompt(l) ==
  /\ stack = <<>>
  /\ LET source == IF interactiveInput THEN "interactive" ELSE "non-interactive input"
     IN /\ stack' = <<LineFrame(l, source, commandSource, FALSE)>>
        /\ commandSource' = source
  /\ UNCHANGED <<configSource, lastExitCode, fixed, trust>>

\* (A mutant of the next: the loop does not move on.)
SameFileLine ==
  /\ IsFile
  /\ Top.next <= Len(Top.lines)
  /\ Len(stack) < MaxDepth
  /\ stack' = Append(stack, LineFrame(Top.lines[Top.next], Top.source,
                                     commandSource, FALSE))
  /\ commandSource' = Top.source
  /\ UNCHANGED <<configSource, lastExitCode, fixed, trust>>

\* The loop over the lines of a file: !wear and ReadConfiguration.
NextFileLine ==
  /\ IsFile
  /\ Top.next <= Len(Top.lines)
  /\ Len(stack) < MaxDepth
  /\ stack' = Append(SetTop([Top EXCEPT !.next = @ + 1]),
                     LineFrame(Top.lines[Top.next], Top.source, commandSource, FALSE))
  /\ commandSource' = Top.source
  /\ UNCHANGED <<configSource, lastExitCode, fixed, trust>>

EndOfFile ==
  /\ IsFile
  /\ Top.next > Len(Top.lines)
  /\ stack' = Front(stack)
  /\ UNCHANGED <<commandSource, configSource, lastExitCode, fixed, trust>>

-----------------------------------------------------------------------------
(* parsePipeline: the stages of the line in turn; the brace groups of a    *)
(* stage run when the stage is complete, in the source of the line.        *)

Unparsed == Top.stage <= StageCount

ParseBrace ==
  /\ In("parse")
  /\ Unparsed
  /\ Top.brace <= Len(Stage.braces)
  /\ Len(stack) < MaxDepth
  /\ stack' = Append(SetTop([Top EXCEPT !.brace = @ + 1]),
                     LineFrame(Stage.braces[Top.brace], commandSource, commandSource, TRUE))
  /\ UNCHANGED <<commandSource, configSource, lastExitCode, fixed, trust>>

\* flush: the words of the stage are there.
ParseStage ==
  /\ In("parse")
  /\ Unparsed
  /\ Top.brace > Len(Stage.braces)
  /\ \E command \in Stage.commands :
       /\ command.kind # "none"
       /\ Update([Top EXCEPT !.stage = @ + 1, !.brace = 1,
                             !.commands = Append(@, command)])
  /\ UNCHANGED trust

\* A syntax error: status 2, except that in a brace group the message becomes
\* words of the enclosing line and no status is recorded.
ParseFails ==
  /\ Return
  /\ lastExitCode' = IF Top.capture THEN lastExitCode ELSE 2
  /\ UNCHANGED <<configSource, fixed, trust>>

SyntaxError ==
  /\ In("parse")
  /\ ~Unparsed
  /\ ~WellFormed[Top.line]
  /\ ParseFails

\* "expected a command"
NoCommand ==
  /\ In("parse")
  /\ Unparsed
  /\ Top.brace > Len(Stage.braces)
  /\ \E command \in Stage.commands : command.kind = "none"
  /\ ParseFails

EmptyLine ==
  /\ In("parse")
  /\ StageCount = 0
  /\ WellFormed[Top.line]
  /\ Return
  /\ UNCHANGED <<configSource, lastExitCode, fixed, trust>>

ParseEnds ==
  /\ In("parse")
  /\ ~Unparsed
  /\ StageCount > 0
  /\ WellFormed[Top.line]
  /\ Update([Top EXCEPT !.phase = "authorize", !.stage = 1])
  /\ UNCHANGED trust

-----------------------------------------------------------------------------
(* runPipeline: authorization.  A single stage is authorized only while    *)
(* the trust list is in use; the stages of a pipeline always are, up to    *)
(* the first one that makes the pipeline a buffered one.                   *)

NeedsBuffer(frame, i) ==
  LET stages == Stages[frame.line]
  IN \/ ~IsExternal(frame.commands[i])
     \/ i < Len(stages) /\ stages[i].out
     \/ i > 1 /\ stages[i].in

\* (Mutants of the next.  Each stage is started as soon as it is approved.)
StartEarly(frame) ==
  IF StageCount > 1 /\ frame.stage < StageCount
  THEN [frame EXCEPT !.stage = @ + 1, !.started = @ \cup {frame.stage}]
  ELSE [frame EXCEPT !.phase = "run", !.mode = "pipeline"]

\* (The loop ends one stage early; one stage late.)
OneShort(frame) ==
  IF StageCount = 1 \/ frame.stage = StageCount - 1
  THEN [frame EXCEPT !.phase = "run",
                     !.mode = IF StageCount = 1 THEN "single" ELSE "pipeline"]
  ELSE [frame EXCEPT !.stage = @ + 1]
OneMore(frame) == [frame EXCEPT !.stage = @ + 1]

AfterAuthorize(frame) ==
  CASE StageCount = 1 ->
         [frame EXCEPT !.phase = "run"]
    [] StageCount > 1 /\ NeedsBuffer(frame, frame.stage) ->
         [frame EXCEPT !.phase = "run", !.mode = "buffered", !.stage = 1]
    [] StageCount > 1 /\ ~NeedsBuffer(frame, frame.stage) /\ frame.stage = StageCount ->
         [frame EXCEPT !.phase = "run", !.mode = "pipeline"]
    [] OTHER ->
         [frame EXCEPT !.stage = @ + 1]

Approved(how) == AfterAuthorize([Top EXCEPT !.how[Top.stage] = how])

LookPathFails ==
  /\ In("authorize")
  /\ Command.kind = "missing"
  /\ Finish(127)
  /\ UNCHANGED trust

SkipInternal ==
  /\ In("authorize")
  /\ ~IsExternal(Command)
  /\ Update(AfterAuthorize(Top))
  /\ UNCHANGED trust

SkipSingle ==
  /\ In("authorize")
  /\ Command.kind = "external"
  /\ StageCount = 1
  /\ ~useTrustedList
  /\ Update(Approved("list off"))
  /\ UNCHANGED trust

Authorizes(decision) ==
  /\ In("authorize")
  /\ Command.kind = "external"
  /\ StageCount = 1 => useTrustedList
  /\ EvaluateTrust(Command.program) = decision

TrustAllow ==
  /\ Authorizes("allow")
  /\ Update(Approved("policy"))
  /\ UNCHANGED trust

\* Denied by the policy, or by the user: "Do not run", no answer, or a
\* session trust that is not confirmed.
TrustDeny ==
  /\ Authorizes("deny") \/ Authorizes("prompt")
  /\ Finish(126)
  /\ UNCHANGED trust

RunOnce ==
  /\ Authorizes("prompt")
  /\ Update(Approved("user"))
  /\ UNCHANGED trust

TrustForSession ==
  /\ Authorizes("prompt")
  /\ Update(Approved("user"))
  /\ trustStore' = Add(Entry(ExactRule[Command.program], "interactive"))
  /\ confirmed' = confirmed \cup {ExactRule[Command.program]}
  /\ UNCHANGED useTrustedList

-----------------------------------------------------------------------------
(* Running.  A stage of a buffered pipeline that succeeds writes its       *)
(* output and is followed by the next one; a failure ends the pipeline.    *)

Running(mode) == In("run") /\ Top.mode = mode

StageEnds(status) ==
  IF Top.mode = "buffered" /\ status = 0
  THEN \/ Stage.out /\ Finish(1)           \* the output file cannot be opened
       \/ Top.stage = StageCount /\ Finish(0)
       \/ /\ Top.stage < StageCount
          /\ Update([Top EXCEPT !.phase = "run", !.stage = @ + 1])
  ELSE Finish(status)

\* A redirection that fails before the command of the stage is run.
RedirectionFails ==
  /\ \/ Running("single") /\ (Stage.in \/ Stage.out)
     \/ Running("buffered") /\ Stage.in
  /\ Finish(1)
  /\ UNCHANGED trust

\* What stands in the way of a command even when its files can be opened.
InputRefused == Top.mode = "single" /\ Stage.in /\ ~IsExternal(Command)

BufferedMissing ==
  /\ Running("buffered")
  /\ Command.kind = "missing"
  /\ Finish(127)
  /\ UNCHANGED trust

\* A program that is not a stage of an operating-system pipeline.
StartProgram ==
  /\ Running("single") \/ Running("buffered")
  /\ Command.kind = "external"
  /\ Update([Top EXCEPT !.phase = "running", !.started = @ \cup {Top.stage}])
  /\ UNCHANGED trust

\* The program is looked up when it is to be run, and is not there any more.
ProgramGone ==
  /\ Running("single") \/ Running("buffered")
  /\ Command.kind = "external"
  /\ Finish(127)
  /\ UNCHANGED trust

\* An operating-system pipeline (module OsPipeline): all its programs, or the
\* first k when a redirection, a pipe or a start fails.
StartPipeline ==
  /\ Running("pipeline")
  /\ \E k \in 0 .. StageCount :
       Update([Top EXCEPT !.phase = "running", !.started = @ \cup 1 .. k])
  /\ UNCHANGED trust

Exit ==
  /\ In("running")
  /\ \E status \in IF Top.mode = "pipeline" /\ Top.started # 1 .. StageCount
                   THEN IF Top.started = {} THEN {1, 127} ELSE {1}
                   ELSE {0, 1} :
       StageEnds(status)
  /\ UNCHANGED trust

\* cd and ls are built in; cd is refused in a pipeline.
CdOrLs ==
  /\ Running("single") \/ Running("buffered")
  /\ ~InputRefused
  /\ Command.kind \in {"cd", "ls"}
  /\ \E status \in {0, 1} :
       /\ Command.kind = "cd" /\ Top.mode = "buffered" => status = 1
       /\ StageEnds(status)
  /\ UNCHANGED trust

RunsState(kind) ==
  /\ Running("single") \/ Running("buffered")
  /\ ~InputRefused
  /\ Command.kind = kind

\* The state commands that have no effect on the interpreter.
OtherStateCommand ==
  /\ RunsState("state")
  /\ \E status \in {0, 1} : StageEnds(status)
  /\ UNCHANGED trust

ToggleTrust ==
  /\ RunsState("toggle-trust")
  /\ StageEnds(0)
  /\ useTrustedList' = ~useTrustedList
  /\ UNCHANGED <<trustStore, confirmed>>

fromProtectedDefault == commandSource = "default.cloth"
fromInteractive == commandSource = "interactive" /\ interactiveInput

\* (A mutant of the next: the file a line comes from is not looked at.)
AnySource == {"interactive"}
TrustSource ==
  IF fromProtectedDefault THEN {"default.cloth"}
  ELSE IF fromInteractive THEN {"interactive"} ELSE {}

TrustRefused ==
  /\ RunsState("trust")
  /\ TrustSource = {}
  /\ StageEnds(1)
  /\ UNCHANGED trust

TrustDeclined ==
  /\ RunsState("trust")
  /\ TrustSource # {}
  /\ fromInteractive
  /\ StageEnds(0)
  /\ UNCHANGED trust

TrustRule ==
  /\ RunsState("trust")
  /\ \E source \in TrustSource :
       trustStore' = Add(Entry(Command.rule, source))
  /\ confirmed' = IF fromInteractive THEN confirmed \cup {Command.rule} ELSE confirmed
  /\ StageEnds(0)
  /\ UNCHANGED useTrustedList

HasRule(rule) == \E i \in DOMAIN trustStore : trustStore[i].rule = rule

UntrustRefused ==
  /\ RunsState("untrust")
  /\ ~fromInteractive \/ ~HasRule(Command.rule)
  /\ StageEnds(1)
  /\ UNCHANGED trust

UntrustRule ==
  /\ RunsState("untrust")
  /\ fromInteractive
  /\ HasRule(Command.rule)
  /\ trustStore' = RemoveRule(Command.rule)
  /\ StageEnds(0)
  /\ UNCHANGED <<useTrustedList, confirmed>>

\* !wear on a file that cannot be read.
WearFails ==
  /\ RunsState("unreadable")
  /\ StageEnds(1)
  /\ UNCHANGED trust

\* !wear: the lines of the file, each as a call of its own.
SameSource == commandSource   \* (a mutant of the next)
WearSource == ".cloth"
Wear ==
  /\ RunsState("wear")
  /\ Len(stack) < MaxDepth
  /\ stack' = Append(SetTop([Top EXCEPT !.phase = "resume"]),
                     FileFrame(Script[Command.file], WearSource))
  /\ UNCHANGED <<commandSource, configSource, lastExitCode, fixed, trust>>

\* !reset: ReadConfiguration again.
Reset ==
  /\ RunsState("reset")
  /\ Len(stack) < MaxDepth
  /\ \/ /\ configSource' \in ReadableSources
        /\ stack' = Append(SetTop([Top EXCEPT !.phase = "resume"]),
                           FileFrame(Cloth, configSource'))
     \/ /\ configSource' \in UnreadableSources(configSource)
        /\ stack' = SetTop([Top EXCEPT !.phase = "resume"])
  /\ UNCHANGED <<commandSource, lastExitCode, fixed, trust>>

\* !wear and !reset succeed whatever the lines they ran did.
Resume ==
  /\ In("resume")
  /\ StageEnds(0)
  /\ UNCHANGED trust

-----------------------------------------------------------------------------

Parse ==
  ParseBrace \/ ParseStage \/ SyntaxError \/ NoCommand \/ EmptyLine \/ ParseEnds

Authorize ==
  \/ LookPathFails \/ SkipInternal \/ SkipSingle
  \/ TrustAllow \/ TrustDeny \/ RunOnce \/ TrustForSession

Run ==
  \/ RedirectionFails \/ BufferedMissing \/ StartProgram \/ ProgramGone
  \/ StartPipeline \/ Exit
  \/ CdOrLs \/ OtherStateCommand \/ ToggleTrust
  \/ TrustRefused \/ TrustDeclined \/ TrustRule
  \/ UntrustRefused \/ UntrustRule
  \/ WearFails \/ Wear \/ Reset \/ Resume

Work == NextFileLine \/ EndOfFile \/ Parse \/ Authorize \/ Run

Next == (\E l \in Typed : Prompt(l)) \/ Work

(* The interpreter does not stop of its own accord: it is one goroutine    *)
(* that waits only for the user to answer a question it has asked and for  *)
(* a program it has started to end, and both are assumed to happen.        *)
Spec == Init /\ [][Next]_vars /\ WF_vars(Work)

-----------------------------------------------------------------------------

IsLineFrame(f) ==
  /\ f.type = "line"
  /\ f.line \in Lines
  /\ {f.source, f.prev} \subseteq Sources
  /\ f.capture \in BOOLEAN
  /\ f.phase \in {"parse", "authorize", "run", "running", "resume"}
  /\ f.mode \in {"single", "buffered", "pipeline"}
  /\ f.stage \in 1 .. Len(Stages[f.line]) + IF f.phase = "parse" THEN 1 ELSE 0
  /\ f.commands \in Seq(Commands)
  /\ Len(f.commands) = IF f.phase = "parse" THEN f.stage - 1 ELSE Len(Stages[f.line])
  /\ f.how \in [DOMAIN Stages[f.line] -> {"unasked", "policy", "user", "list off"}]
  /\ f.started \subseteq DOMAIN Stages[f.line]

IsFileFrame(f) ==
  /\ f.type = "file"
  /\ f.lines \in {Cloth} \cup {Script[file] : file \in Files}
  /\ f.next \in 1 .. Len(f.lines) + 1
  /\ f.source \in Sources

\* Every variable stays in its set, and no stage beyond the last is reached.
TypeOK ==
  /\ \A i \in DOMAIN stack : IsLineFrame(stack[i]) \/ IsFileFrame(stack[i])
  /\ Len(stack) <= MaxDepth
  /\ {commandSource, configSource} \subseteq Sources
  /\ trustStore \in Seq([rule : Rules, source : Sources])
  /\ {useTrustedList, interactiveInput, selectedCloth} \subseteq BOOLEAN
  /\ lastExitCode \in {0, 1, 2, 126, 127}
  /\ confirmed \subseteq Rules

LineFrames == {i \in DOMAIN stack : stack[i].type = "line"}

\* commandSource is the source of the innermost line being run, however many
\* files and brace groups were entered and left, with or without an error: the
\* deferred restore of RunStringToSource brings back what the caller was.
SourceDiscipline ==
  commandSource = IF LineFrames = {} THEN "interactive"
                  ELSE stack[Max(LineFrames)].source

BracesOf(l) == UNION {ToSet(stage.braces) : stage \in ToSet(Stages[l])}

Grouped == UNION {BracesOf(l) : l \in Lines}

\* The lines of the configuration file, and those in their brace groups, to
\* any depth: the least set that holds them.
ClothLines ==
  ToSet(Cloth) \cup
    {l \in Grouped : \A within \in SUBSET Grouped :
       (\A outer \in ToSet(Cloth) \cup within : BracesOf(outer) \subseteq within)
         => l \in within}

\* The rules that one of them may give to !trust.
SeededRules ==
  {r \in Rules : \E l \in ClothLines : \E i \in DOMAIN Stages[l] :
     [kind |-> "trust", rule |-> r] \in Stages[l][i].commands}

\* A rule is in the store because the user agreed to it, or because a line of
\* default.cloth itself gives it: not because of a file that default.cloth
\* wears, or a brace group in a line of such a file (!trust's source guard).
TrustProvenance ==
  \A i \in DOMAIN trustStore :
    LET entry == trustStore[i]
    IN \/ entry.source = "interactive" /\ entry.rule \in confirmed
       \/ entry.source = "default.cloth" /\ entry.rule \in SeededRules

\* The stages of a buffered pipeline after the first one that makes it so: the
\* code leaves the loop that authorizes (ClothFilesConfirmed says what follows).
NotReached(frame, k) ==
  frame.mode = "buffered" /\ \E i \in 1 .. k - 1 : NeedsBuffer(frame, i)

\* But for those, a program is started only if the authorization of its stage
\* in this very call came to an end that lets it run: an answer for this stage,
\* or, for a command on its own, the list being off.
ApprovedBeforeStart ==
  \A i \in LineFrames :
    \A k \in stack[i].started :
      \/ stack[i].how[k] \in {"policy", "user"}
      \/ stack[i].how[k] = "list off" /\ Len(Stages[stack[i].line]) = 1
      \/ NotReached(stack[i], k)

\* A line of a .cloth file does not profit from the rules in the store: each
\* of its programs, but for the stages just named, runs because the user said
\* so (EvaluateTrust), or alone and with the list off.
GrayListedAsks ==
  \A i \in LineFrames :
    grayListed(stack[i].source) =>
      \A k \in stack[i].started :
        \/ stack[i].how[k] = "user"
        \/ stack[i].how[k] = "list off" /\ Len(Stages[stack[i].line]) = 1
        \/ NotReached(stack[i], k)

\* "untrusted binaries invoked by secondary cloth files will still require
\* confirmation." (README.md:229), with the trust list in use.
ClothFilesConfirmed ==
  [][StartProgram /\ useTrustedList /\ grayListed(Top.source)
       => Top.how[Top.stage] = "user"]_vars

\* A pipeline one of whose stages is refused has started none of the others.
AllOrNothing == [][TrustDeny => Top.started = {}]_vars

\* The prompt comes back after every line, whatever files, brace groups and
\* configurations running it goes through.
LineTerminates == stack # <<>> ~> stack = <<>>

\* "`!untrust <path|basename>` - Revokes session trust for an executable
\* binary." (README.md)
UntrustRevokes ==
  [][\A r \in Rules : (UntrustRule /\ Command.rule = r) => ~HasRule(r)']_vars

=============================================================================
