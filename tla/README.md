# Cloth, verified

A verification development for Cloth, the workspace shell written in Go whose
sources are beside this directory in `src/`. It holds TLA+ models of the parts
of the shell that keep state, TLC configurations that check them on small
instances, and TLAPS proofs of theorems about them that hold for every value of
their constants.

Line numbers are those of the commit in `src/`. The build modelled is the Linux
one, as `build_all.sh` makes it.

## 1. The system

Cloth reads lines from a terminal or from standard input, and runs each as a
pipeline of stages. A stage is a built-in (`cd`, `ls`), a *state command* (a
word beginning with `!`) or an external program. The state commands change the
*session*: a list of workspaces, each with a directory and a stack of scopes of
environment overrides. Files of lines (`.cloth` files) are run by `!wear`, and
one of them, `default.cloth`, at the start and by `!reset`. An external program
is run only if the trust policy or the user lets it.

The shell is one goroutine. Concurrency comes from the programs it starts, from
other programs that share its files, and from the goroutine that copies output
that is captured. The hard behaviours of a sequential interpreter are its own:
globals that nested calls overwrite, indices that refer to a list that changes,
steps that fail half way.

| component | source | state it keeps | operations |
|---|---|---|---|
| session | `workspace_commands.go`, `workspace.go`, `cd` in `main.go` | list of workspaces, current index, scopes, process directory | `!new`, `!switch`, `!close`, `!clone`, `!drop`, `!set`, `!set-ifn`, `!label`, `cd`, look-ups of variables |
| interpreter | `main.go` (`parsePipeline`, `runPipeline`, `runBufferedPipeline`, `RunString*`, `ReadConfiguration`), `command_source.go` | call stack, `commandSource`, `configSource`, last status | run a line, run a brace group, `!wear`, `!reset` |
| trust | `trust_policy.go`, `trust_prompt.go`, `trust_store.go`, trust commands | entries, whether the list is in use | evaluate, ask, `!trust`, `!untrust`, `!toggle-trust` |
| pipelines of programs | `runPipeline` from line 771 | open files and pipe ends, started programs | open, start, close, wait |
| line editor | `readRawInputFrom` and the rest of `terminal_helpers.go`, `HandleAutocomplete` and the main loop in `main.go` | buffer, cursor, history position, ghost suggestion, completion state, input not yet consumed | one per key |
| configuration guard | `protect_default.go`, main loop | copy of the configuration made before the prompt | package, compare, ask, restore |
| creation and protection of `default.cloth` | `EnsureDefaultCloth`, `default_cloth_*.go` | the file and its mode | create, examine, protect |
| lexer | `command_lexer.go` | what is left of the line, the tokens | nine rules, applied in turn |
| diff | `PrintGitStyleDiff` in `protect_default.go` | the table, the place of the walk | fill, walk back, show |
| snapshots | `Encode` in `workspace.go`, `!snapshot`, `!snapshot-ws`, `!wear` | the file | write, wear |

How they interact. The main loop packages the configuration, asks the line
editor for a line and hands it to the interpreter with the source
`interactive`. Parsing a line runs its brace groups through the interpreter
again. Running a stage calls the trust policy, which reads `commandSource` (a
field of the one `State` that every nested call shares) and the trust store; a
state command changes the session, the trust store, or calls the interpreter
for every line of a file. A program gets the environment that the session
computes, and several programs in one line are a pipeline of the operating
system. When the line is done, the guard compares the configuration with its
copy.

What has to be right, per component:

* session: a command works on a workspace that is there; the index follows the
  list; no scope is reachable from two workspaces; dropping a scope gives back
  the environment below it; the pieces of code that look a variable up agree;
  the process is where the prompt says it is;
* interpreter: whatever nested calls do, and however they end, a line runs
  under its own source; the prompt comes back;
* trust: a program starts only when its stage was let through; a rule is in the
  store only because the user agreed to it or the protected configuration says
  so; a `.cloth` file does not profit from the store; a pipeline refused in one
  of its stages has had no effect;
* pipelines: no descriptor and no program is left behind on any path; all the
  output arrives; the shell's handling of the pipes neither blocks nor kills a
  program; the status is the last stage's;
* line editor: every line of a paste runs once and in order wherever reads are
  cut; a suggestion inserted is the one for the text on the screen;
* configuration: what is run with the trust of `default.cloth` is what was
  examined; a change is kept only with the user's knowledge, and undone if
  refused; no file is left open;
* lexer, diff, snapshots: every line is cut into the words one reads in it, and
  in finite time; the user is shown every change of the configuration before
  being asked about it; a snapshot that is worn gives back what was saved.

`PROJECT.json` lists every hazard found in the code at its line, with the
properties that watch it, or the reason why none does.

## 2. The modules

| module | models | state and actions |
|---|---|---|
| `Workspaces` | the session | `workspaces`, `cur_workspace`, `lastExitCode` are the fields of `State`; `scope` is the heap of `Scope` objects, `cwd` the directory of the process, `dirs` the directories that exist. One action per state command; `Vanish` and `Appear` are other programs. |
| `Shell` | interpreter and trust | `stack` is the Go call stack, `commandSource`, `configSource`, `trustStore`, `useTrustedList`, `interactiveInput` are fields of `State`, `confirmed` is a history variable. One action per point between two calls, questions, or starts. |
| `OsPipeline` | `runPipeline` from line 771 on, with the programs and the pipes | `phase` and `at` are the program counter, `files`, `readers`, `writers` the descriptors the shell has open, `redirectedFiles` and `pipes` those the code has noted and closes; `proc`, `code`, `buffer`, `pending`, `sink` are the operating system's. |
| `PipelineCall` | what the interpreter relies on when it runs a pipeline | abstract specification, implemented by `OsPipeline` |
| `Configuration` | creation, examination and reading of the configuration, and the guard over it, by several shells | `pc` is where each shell is between two calls of the operating system; `fd` the file it has open, `backup` is `config_backup`, `loaded` the lines it runs; `path` and `disk` are the file system's. `Read` is `ReadConfiguration`, `Guard` the main loop; `Elsewhere` and `Command` are other writers. |
| `LineEditor` | the prompt: `readRawInputFrom`, completion, suggestions, history, and the main loop that runs the lines | `chunk` is what is left of the bytes last read, `pendingInput` and `skipNextInputLF` are what is kept between reads and prompts, `buffer`, `cursor`, `commandPrefix`, `history`, ... the locals and fields of that name; `unread` is what the terminal has not given yet. One action per key or group of keys. |
| `LineInput` | what the prompt promises of its input | abstract specification, implemented by `LineEditor` |
| `Lexer` | `Lex` | `rule` is the rule being applied, `input` what is left of the line, `word` the builder. One action per iteration of a rule's loop. |
| `Snapshot` | snapshots and the wearing of them | `lines` are those of the file, each goes through `Lexer`; `before` and `after` are the workspace that wears it |
| `Diff` | `PrintGitStyleDiff` | `dp`, `i`, `j`, `diff`, `inSkippedBlock` as in the code. One action per iteration of its loops. |
| `MCWorkspaces`, `MCShell`, `MCConfiguration`, `MCLineEditor` | small instances for TLC | |
| `MCText` | an instance of `Lexer`, `Snapshot` and `Diff`, which have nothing to do with one another but for `Snapshot`'s use of `Lexer`: one of them runs in each behaviour | |
| `Workspaces_proofs`, `Shell_proofs`, `OsPipeline_proofs`, `Configuration_proofs`, `LineEditor_proofs`, `Lexer_proofs`, `Diff_proofs` | theorems; those about `Snapshot` are in `Lexer_proofs` | |
| `ListLemmas` | lemmas about lists, positions and loops, for several of them | |

`Shell` uses what `OsPipeline` promises: its `StartPipeline` and `Exit` start
the stages 1 to k and report a failure when k is not all of them, which is
`PipelineCall`.

### Workspaces

A scope is an identifier whose contents are in `scope`, as a Go pointer leads
to a `Scope`: `!clone` could share one, and the property `ScopesUnshared` says
that it does not. The identity of a workspace is its pointer, which no command
reads; properties use it. Identifiers that no workspace reaches are reused, as
the garbage collector would. `!switch` has two actions: a label that matches
wins over an index and does not change the directory; an index does. When the
directory of an index cannot be entered, the entry is removed and
`cur_workspace` put back, without the renumbering that `!close` does.

A variable is looked up by three pieces of code, which are three operators.
`GetEnvValue`, for `$k` and `!set-ifn`, goes from the newest scope down and
gives the words that `Lex` makes of the value, with `~` expanded (`TokenWords`),
or, when no scope has the variable, the first word of the inherited value as it
stands (`FirstWord`). `commandEnvironment` gives the environment of the programs
of a pipeline, `singleCommandEnvironment` (in `runWithStdinPolicy`) that of a
program on its own; both go from the oldest scope up. `EnvironmentsAgree` says
that the two environments are one, and that `$k` becomes the words of what is in
it.

`MarkedHere` is the set of entries that the prompt marks with `[H]`. It goes by
the directory of the process; `HereMarked` is what the documentation says of it.
Not modelled: a label or directory name with characters that the lexer changes,
and the display of `!ls` and `!env`.

### Shell

A line is a sequence of stages, each with its command, its redirections and
the brace groups in its words. Words, paths, outputs and the texts of questions
are left out; whether a file opens, a program is still there at its second
look-up, or the user agrees, is a free choice. A line runs in four phases, in
the code's order: parse (each stage's groups run when the stage is complete, in
the line's source, before a later syntax error is found), authorize, run, and,
for `!wear` and `!reset`, resume when the nested lines are done.

The output of a brace group becomes words of its stage, the one that names the
command included, or the rule that `!trust` is given. What a group prints is not
modelled, so a stage has a *set* of commands that it may turn out to be
(`commands`), of which `ParseStage` takes one; `"none"` among them is a group
that prints nothing where the command should be (`NoCommand`). A stage whose
words are all written out has one.

What the code does, and the model with it: a single command is authorized only
while the trust list is in use, the stages of a pipeline always; the loop that
authorizes stops at the first stage that makes the pipeline a buffered one, so
the stages after it are not authorized (`NotReached`). `ApprovedBeforeStart` and
`GrayListedAsks` speak of all the other stages, those of a buffered pipeline
before that point included; `ClothFilesConfirmed` speaks of these too, and is
violated.

### OsPipeline

The shell opens the input of a stage and then its output, stage by stage, starts
the programs, closes its ends, waits in the order of the stages, and a deferred
function closes everything again. That function knows only of what was noted: the
files appended to `redirectedFiles`, and the pipes whose slots were filled. What
is open and what is noted are different variables, so that a path which opens
and does not note leaves something open at the end. Every opening and every
start can fail. A program
reads blocks from its pipe and writes them to the next, gets the end of its
input when no writer is left, is killed when no reader is left, and may quit at
any time with any status. Output that is captured goes through a goroutine of
`os/exec` that copies it, and `Wait` waits for the copy; the model has the
last program write straight to the sink.

### Configuration

A name in a directory leads to an inode, and an open file is an inode too, so a
shell can hold a file whose name somebody has given to another. One action is
one system call, or a call and the branch after it: exclusive creation and the
write of the generated lines are two, as are the examination of the open file
(`OpenProtected`), the restriction of its mode and the read, and the two halves
of the `os.WriteFile` by which a refused change is undone. A write at the
beginning of a file that somebody wrote to meanwhile leaves either the new
content or a mixture.

Each call can fail. The checks of the directory have no state of their own: a
refusal is `NotProtected`, which is possible at every point of the function.
`backup` is `"none"` when `oldConfigExists` is false; in the code the older copy
stays in `config_backup`, but nothing reads it then. The commands of the session
appear as what they do to the file (`Command`), to the directory (`ChangeDir`)
and as `!reset`, which runs `ReadConfiguration` inside a command. A shell
started with `--cloth` and a relative path looks for the file in the directory
it is in (`ConfigDir`).

`foreign` is history: the shells whose copy is from before somebody else wrote
to the configuration. `NothingUnasked` speaks of the others.

Other programs overwrite a file in one step, and give its name to a file with
any content, owner and mode; they do not loosen the mode of a file the shell
has open. The owner could do that, and the code could not notice.

### LineEditor

A byte is a letter of a small alphabet; `"other"` stands for the control
characters the code ignores and `Names` for whatever a word can be completed to
(commands, variables, directory entries). A read returns any number of bytes up
to `BufSize`, so that the bytes of an escape sequence, or the two of a newline,
may be split, and at most one read fails. When the input is used up the terminal
is closed. The answers to the questions the shell asks while a command runs are
read from the terminal by other code (`fmt.Fscanln`), which sees neither
`chunk` nor `pendingInput`; they are not modelled.

`LineInput` says what this amounts to for the lines: the bytes to come are
`chunk`, `pendingInput` and `unread`, without the line feed that belongs to a
carriage return already handled, and a newline, `^C` or `^D` uses up what it
should and nothing else. The effect of editing keys on the current line is left
open there. `BatchCommands` is `runNonInteractive`, for input that is piped in.

What the code does, and the model with it: an escape sequence cut by a read is
not recognised, and its tail is typed into the line; the suggestion is computed
at the end of the line and stays when the cursor moves; after a read that fails
between two presses of Tab the completion state describes a line that is gone,
and the second press slices out of range (`Panic`); `{` brings its `}` also in a
paste that has its own, so that a pasted `{a}` is run as `{a}}`. `PasteLikeBatch`
is of pastes without braces.

### Lexer, Snapshot, Diff

`Lex` works on bytes, and so does the model: a byte stands for its class, and
the classes follow `unicode.IsSpace`, `IsLetter`, `IsDigit` and `IsNumber` of a
byte taken as a code point, which is what the code asks. The rules are tried in
the order of `Lex`, each on what the one before has left; a pass that ends with
something left is followed by another. `Split` is the reference: a left to right
reading of a line into words, for lines that it does not call odd. It is a
recursive function of the number of bytes read (`Reads`), so that what it does
with each byte can be reasoned about.

A line is odd, and not judged, where nothing in the repository says how it reads:
a quote, a `#` or a `$` inside a word, a word or a backslash right after a
string, braces, comments, variables and numbers, operators side by side. The
code takes a quote inside a word for a byte of it, so that `x="a|b"` is cut at
the `|` between its quotes, and `a## c` is a word `a##` and a word, although
comments begin with `##` (`README.md:235`). `SplitsAsRead` neither claims that
this is right nor that it is wrong.

`Snapshot` runs the lines that `Encode` writes through `Lexer` and does what
`cd`, `!label`, `!new` and `!set` do with the words. What `Encode` and
`strconv.Quote` write is given for any number of scopes and of bytes
(`EncodeLast`, `Quoted`), each by one recursive function; quotes, backslashes,
line feeds and bytes that are no text are escaped (`Escaped`). Names are written
as they are; they have no line feed, which would make two lines of them.

A line of the file may not be the one command it was meant to be. A name such as
`a{!drop b}`, or a text in which an escaped quote ends the string early, has a
brace group, which is run while the line is parsed (`main.go:328-356`), or an
operator, which cuts it. Any command may stand there, so the model stops
(`Stopped`) at a line that is not one command of words taken as they are
(`OneCommand`). `SnapshotRestores` says that a snapshot of plain names and texts
never comes to that, and gives back what was saved; of the others it says what
is restored if every line is one command.

`Diff` is the loops of `PrintGitStyleDiff` one iteration at a time, with what is
printed as a sequence of positions; colours and line ends are left out.

## 3. What the runs check

| run | instance | passes / shows |
|---|---|---|
| `session` | 2 workspaces, 2 scopes, 2 directories of which one comes and goes, labels of which one is also an index, 2 variables (one inherited), the empty value and one of two words | `TypeOK`, `ScopesUnshared`, `EnvironmentsAgree`, `SessionStays`, `OnlyLabelsPart`, `OlderScopesFrozen`, `Isolation`, `OnlyDeadEntriesDropped` |
| `label` | 2 workspaces, 2 directories, a label | violation of `HereMarked` |
| `close` | 3 workspaces, a directory that comes and goes | violation of `NeverClosesCurrent` |
| `lines` | 2 programs, 2 rules, 21 kinds of lines; a configuration that trusts one rule in a brace group and wears a file that trusts the other; a file that trusts and resets; terminal or not, `--cloth` or not | `TypeOK`, `SourceDiscipline`, `TrustProvenance`, `ApprovedBeforeStart`, `GrayListedAsks`, `AllOrNothing`, `LineTerminates` |
| `untrust` | the same | violation of `UntrustRevokes` |
| `buffered` | the same | violation of `ClothFilesConfirmed` |
| `pipeline` | 3 programs, pipes of 1 block, 3 blocks of output | `TypeOK`, `NothingLeftOpen`, `NoOrphans`, `OutputComplete`, `BrokenPipeIsDownstream`, `KeepsPromise` |
| `shells` | 2 shells and other programs, 1 directory, 3 files, 1 content | `TypeOK`, `ExaminedBeforeTrusted`, `NothingUnasked` |
| `relative` | 1 shell with a relative `--cloth`, 2 directories, 3 files, 2 contents | violation of `AskedMeansChanged` |
| `keys` | pastes of up to 5 bytes, the ways out of the prompt, up to 3 keys, a history with a command of two lines, 2 names | `TypeOK`, `PasteLikeBatch`, `CompletionInRange`, `GhostSingleLine`, `KeepsLines`, `TabKeepsText` |
| `text` | lines of up to 5 bytes; workspaces with up to 2 scopes, names and texts of up to 2 bytes among them braces, operators, quotes, `~` and line feeds; files of up to 8 lines | `LexTypeOK`, `SplitsAsRead`, `LexProgress`, `LexEnds`, `SnapshotRestores`, `DiffTypeOK`, `DiffIsMinimal`, `ChangesAreShown`, `DiffEnds` |
| `stuck` | paths with an accented letter | violation of `LexAlwaysEnds` |

The bounds, and why they are enough:

* `WorkspaceIds`: with two entries there is one before or after the current one,
  which is what `!close` and a failed `!switch` tell apart; `close` has three,
  one before, at and after. `ScopeIds` (2): two scopes in one workspace, to have
  an older and a newer one, or one in each of two. Both bound what is open at a
  time, not how many are ever opened. Commands that would need another identifier
  are not taken.
* `Words`: two indices, one that no entry has, a label, a label equal to an index
  for the precedence of labels, and the empty word, which every entry without a
  label answers to.
* `Lines`: one line of each kind of command, a pipeline of two programs, buffered
  pipelines with a failure at the end and with a program that is not authorized,
  both kinds of redirection, brace groups two deep with a syntax error inside,
  and one whose output may be the command.
* `MaxDepth` (8) bounds `stack`; the deepest nesting that the lines of the
  instance reach is just that (`!wear`, in its file `!reset`, in the configuration
  `!wear`, and in that file a line with a brace group), so it never keeps a call
  from being made.
* `Capacity` (1) with `Volume` (3) makes every pipe fill up; `N` (3) has a first
  program, one in the middle with a pipe on each side, and a last one.
* `Inodes` (3): each of two shells can have a file open while a third file has
  the name; with one shell and two directories there is one to spare.
  `Versions`: one content is enough for `shells`, where it is told apart from the
  generated one, from an empty file and from a mixture; `relative` has two. They
  bound what is there at a time, not how often it changes.
* `BufSize` (8) against 1024 in the code: inputs up to 17 bytes take several
  reads, and since a read may be shorter than the buffer every way to cut an
  input occurs whatever its size. `PasteLength` (5) has a continued line, a
  carriage return and a line feed, and a byte on each side; `KeysPressed` (2) all
  pairs of keys, with triples added where a key leaves something behind for the
  next ones (history, Tab).
* `Length` (5) of the lines for `Lex`: enough for a word, an operator and a
  quoted word with an escape next to one another; with lines of 3 bytes over the
  other classes, which has every rule follow every other. Files for `Diff`: all
  pairs of up to 4 lines over 2, and pairs of 6 to 8 lines with changes far enough
  apart for lines to be left out before, after and between them.

Symmetry is used for the identifiers of workspaces and scopes in `MCWorkspaces`
and for shells and inodes in `MCConfiguration`; neither has a liveness property.
The bytes of the other instances are all told apart by the code.

`NothingUnasked` is about each shell and what is done to the configuration
between its prompts. Of a change by somebody else it says nothing: the guard
cannot tell one from the command's, and nothing in the repository claims it. It
says "as long as there is a configuration", because a command that removes the
file turns the guard off: `HasConfigChanged` is false of a file that cannot be
read, and the next prompt has no copy.

Deadlock is checked in every run. `OsPipeline` ends in a state `returned` that
steps to itself, so a deadlock there would be programs and shell waiting for
one another.

Fairness. `Shell` has weak fairness of `Work`: the interpreter is one goroutine
which, once a line is entered, waits only for an answer of the user and for
programs it started, and both are taken to come. It has none for `Prompt`: the
user need not type. `OsPipeline` has weak fairness of the shell's steps and of
each program's reads, writes and its end at the end of its work; a program does
not sleep for ever, but nothing obliges it to quit early, so a pipeline that
finishes only because a program gives up does not count. The first program
works on a finite input. `LineEditor` has weak fairness of its next-state
relation: the terminal delivers the input and is then closed, and the prompt is
one loop that returns to its read; how a read cuts the input is not constrained.
`MCText` has weak fairness of the step of the algorithm that runs: loops of one
goroutine that wait for nothing.

### Findings

* `close`: a failed `!switch` removes the entry without renumbering
  (`workspace_commands.go:309`). When the entry is the current one, or one
  before it, the session is on another workspace or on none, while
  `workspace_commands.go:335` says that the current one cannot be closed.
* `label`: `!switch` by label, which `README.md` describes, changes the current
  workspace and leaves the process in its directory
  (`workspace_commands.go:278`). The prompt marks with `[H]` the entries whose
  path is that of the process (`terminal_helpers.go:375`), while `README.md:45`
  defines them by the current workspace.
* `buffered`: the loop that authorizes the stages leaves at the first one that
  is internal or redirected in the middle, and the stages after it start unasked
  (`main.go:765`): `!last-status | p` in a worn file runs `p`, against
  `README.md:229`.
* `untrust`: a rule that is seeded by `default.cloth` and agreed to by the user
  is in the store twice; one `!untrust` removes one, and the rule stays in force
  (`trust_store.go:147`, against `README.md:215`).
* `relative`: `GetConfigFilePath` gives the path of `--cloth` as it was written
  (`main.go:1080`). When that is relative, as in `README.md:23`, the guard
  compares its copy with the file of that name in the directory the session has
  moved to; it says the configuration has changed (`protect_default.go:176`),
  and the answer `n` overwrites the other file.
* `stuck`: no rule of `Lex` takes a byte that unicode calls a number and not a
  digit (`command_lexer.go:252`): a path with `ü` in it is lexed for ever, and
  neither it nor a line pasted after it is executed (`SHELL_OPERATORS.md:12`).

Differences that no run shows, met while reading and kept in the models as the
code has them:

* `{` brings its `}` (`terminal_helpers.go:337`), also when the line is pasted and
  has its own: `{a}` is run as `{a}}`.
* With the trust list disabled the stages of a pipeline are still authorized, and
  can be denied (`main.go:761`, against `workspace_commands.go:139`).
* `Lex` cuts `1.txt` into a number and a path and `/a=b` at the `=`; `||` gives an
  empty identifier between two operators; in `$HOME|cat` the variable swallows
  the pipe; the bytes A0 and 85 are taken for spaces, so that `à` is cut.
* A snapshot does not give back texts with `"` or `\`, because `strconv.Quote`
  writes escapes that `Lex` does not know, nor names of several words. A quote in
  a text ends the string early, and a brace group after it, or in a name, is run
  when the file is worn. A scope without a name cannot be opened by the file, and its overrides go to the newest
  scope there is (`workspace.go:73`, against `README.md:273`).
* The suggestion is not cleared when a line is entered (`README.md:304`), and the
  continuation prompt is refreshed with the first one (`terminal_helpers.go:353`,
  against `SHELL_OPERATORS.md:12`).
* Escape sequences that a read cuts are typed into the line; a read that fails
  after Tab makes the next Tab slice out of range.

## 4. What is proved

All theorems hold for every value of the constants that meets the assumptions
named in the modules. `tlapm` checks them to the last leaf.

`Workspaces_proofs`, for any number of workspaces, scopes, labels, variables and
directories:

* `TypeCorrect`: `[]TypeOK`. The proof rests on lemmas about the operators the
  commands are built of: removing an entry of a list, the least element of a
  set of positions, an injection into a set of free identifiers.
* `CurrentAlwaysExists`: `Vanishing = {}` implies `[]CurrentExists`. The
  hypothesis is needed: the run `close` shows what happens without it. It
  enters through the invariant "every directory exists", which makes the third
  branch of `SwitchToIndex` impossible. With `TypeOK` these are inductive. No run
  checks it, since the instance `session` has a directory that vanishes.
* `SessionNeverMoves`: `SessionStays`, whatever directories come and go: it is
  about commands that succeed, and the `!switch` that drops an entry fails.
* `DirectoryFollowsSession`: `OnlyLabelsPart`, whatever directories come and go
  and whatever the labels are: of the commands that succeed, only a `!switch` by
  label takes the session and the process apart.
* `OnlyDeadDropped`: `OnlyDeadEntriesDropped`, whatever disappears: an entry that
  a switch drops is the one that was named, and its directory cannot be entered.
  It needs only what `Index` yields of a word: an entry of the list.
* `ExpansionMatchesEnvironment`: `[]EnvironmentsAgree`, of the three look-ups.
  `GetEnvValue` goes from the newest scope down to the first that knows the name,
  `commandEnvironment` and `singleCommandEnvironment` from the oldest up, each
  scope over the ones before. All take the value in the newest scope that knows
  it (`Layered`), which is shown of the environments by the least scope at which
  it would be false.
* `NoScopeShared`: `[]ScopesUnshared`, whatever disappears. Each step
  either replaces the current entry of the list, adds one at the end, or removes
  one (`ListChange`); the scopes of a new entry are nobody's, and those of a
  replaced one are its own or nobody's. `TypeOK` is needed for the scopes that
  are free.
* `OlderScopesStay`: `OlderScopesFrozen`. Only `!set`, `!set-ifn` and `!drop`
  write a scope that is in use; a scope that is dropped is, by `ScopesUnshared`,
  in no workspace any more.
* `OthersUntouched`: `Isolation`, from the same facts: the newest scope of the
  current workspace is in no other one.

`Shell_proofs`, for any lines, files, programs and rules, nested to any depth.
The invariant `IInv` is about the frames of the call stack. `Linked` says which
frame may be on which, and what each line will put back when it returns: the
source its caller runs in, or, for a brace group, that it is its caller's.
`Permitted` says what a line may have started at each place of `runPipeline`:
nothing before the authorization has ended; afterwards only what was approved,
but for the stages that the authorization of a buffered pipeline does not reach;
and that no line of a `.cloth` file was approved by the policy. Neither is inductive without the other: the policy
decides by `commandSource`, which is the source of the line only because every
return restores it.

* `TypeCorrect`: `[]TypeOK`.
* `SourceKept`: `[]SourceDiscipline`.
* `TrustIsEarned`: `[]TrustProvenance`. `ClothLines` is the least set that holds
  the lines of the configuration file and their brace groups, so that it is
  closed by definition and no induction is needed.
* `NothingUnapproved`: `[]ApprovedBeforeStart`, and `ClothFilesAsk`:
  `[]GrayListedAsks`. Both leave out the stages that `NotReached` names and no
  others; that those run unasked is the finding `buffered`.
* `RefusalStartsNothing`: `AllOrNothing`.

`OsPipeline_proofs`, for any number of stages, capacity of the pipes and volume
of output. The inductive invariant `IInv` says what is true at each place of
`runPipeline`: while the stages are built nothing is started and the read ends
are those of the stages passed; while programs are started exactly those before
`at` are, and every read end is open; while the shell waits, exactly those
before `at` have been waited for; afterwards the programs started are a prefix
of the stages, all of them unless something failed, and the last one never if
something did. None of the properties is inductive without it.

* `TypeCorrect`: `[]TypeOK`.
* `DescriptorsClosed`: `[]NothingLeftOpen`. Its part of the invariant (`Known`) is
  that at each place every file that is open is in `redirectedFiles` and every
  pipe that is open is in a slot that is filled: on whatever path the call ends,
  what the deferred function closes is all there is.
* `ProgramsReaped`: `[]NoOrphans`.
* `BrokenPipesAreDownstream`: `BrokenPipeIsDownstream`.
* `NothingLost`: `[]OutputComplete`, that a pipeline whose programs all did their
  work has written all of the output. What a sum over the stages would say is
  said of a set (`Blocks`): a block still to be written by a program, in a pipe,
  or in the last file is a numbered member of it, and each step of a program
  takes one member out and puts one in, so that there are `Volume` of them
  throughout (`Conserved`). A program that did all its work has left nothing
  before it (`Drained`), so at the end all of them are in the file.

`Configuration_proofs`, for any number of shells, directories, files and
contents, with or without other programs. The inductive invariant adds two parts
to `TypeOK`: `Protecting`, that the file a shell has open is the user's from the
examination on and private from the restriction on, and stays so whatever
becomes of its name, since a file that is open is not reclaimed; and `BackedUp`,
that there is a copy wherever `RestoreConfiguration` can be on the way.

* `TypeCorrect`: `[]TypeOK`; among others, a file is open exactly where the code
  has it open.
* `TrustedLinesExamined`: `ExaminedBeforeTrusted`.
* `ChangesAreAsked`: `NothingUnasked`, that from one prompt to the next
  the configuration stays what it was, unless somebody else wrote it or the user
  was asked. Its invariant, `Guarding`,
  relates the copy to the file at each place of the main loop: where a shell is
  about to compare them, the file holds what the copy does unless somebody else
  has written since; and the file that a restoration is writing is the
  configuration and empty.

`LineEditor_proofs`, for any input, however the reads cut it, and any history,
names and size of a read. `TextAssumption` says that names are lists of bytes.

* `TypeCorrect`: `[]TypeOK`; the cursor stays in the line, and the bytes kept for
  the next prompt are fewer than a read holds. The variables are typed in groups,
  since most keys disturb one group only.
* `MatchStillThere`: `[]CompletionInRange`, that the slice which takes the last
  completion out of the line is in range. The invariant `Completed` is stronger:
  the match chosen last is in the line, ending at the cursor, for as long as
  `lastWasTab` is true. It is needed because the length alone does not survive a
  key that edits; that each of them clears `lastWasTab` is what the proof shows.
* `TextKept`: `TabKeepsText`, from the same invariant.
* `GhostOfOneLine`: `[]GhostSingleLine`, from the hypothesis `NamesOfOneLine`, that
  no name of a command or file has a newline. The code checks commands of the
  history for one (terminal_helpers.go:479) and does not check names of files, so without
  the hypothesis it is false.
* `Implements`: `Spec => Lines!LineSafety`, the safety half of `KeepsLines`: the
  refinement of `LineInput`, whose input is one list of bytes, by the editor,
  for which it is in three places (`unread`, `pendingInput`, `chunk`) with a
  flag that says whether a line feed is to be skipped. A read moves bytes from
  one place to the next and is a stutter; a key takes the first bytes and is
  `Type` at the end of a line and `Edit` elsewhere; `Enter`, Ctrl+C and Ctrl+D
  are `Deliver`, `Cancel` and `Quit`; a failed read is `GiveUp`. That only a
  failed read is followed by a panic (`Crash`) needs `Completed`.
* `PastedLikeBatch`: `[]PasteLikeBatch`. The inductive invariant `SameSoFar` says
  that, as long as no read has failed, the bytes to come are those after some
  place in the input, and that what `runNonInteractive` has read up to that place
  is what the prompt holds: its line, the lines that it continues (with a space
  for each newline) and the commands run. It speaks of the stream of `LineInput`,
  so each step is taken from `StepImplements` and reads play no part. Besides the
  steps it takes that the carriage return of a newline makes no difference to the
  scanner, that trimming and joining commute with the spaces, and that nothing is
  run after `exit` or after the last newline.

`Lexer_proofs`, for any set of lines, and the last theorem for any workspaces
that are written and worn and any directories:

* `LexTypeCorrect`: `[]LexTypeOK`.
* `LexNeverIdle`: `LexProgress`. Its invariant follows one byte through a pass:
  as long as nothing has been consumed, the rules passed are ones that do not
  apply to the first byte, and after the last of them only a fraction is left.
  With it, that a line without such a byte ends is left to TLC (`LexEnds`).
* `WordsAsRead`: `[]SplitsAsRead`. The inductive invariant `Reading` compares `Lex`
  with a reader that goes through the line once, from left to right, and has read
  as many bytes as `Lex` has consumed. Between two words the tokens are those that
  the reader would have if the line ended here, whatever rule is being tried;
  inside a word the reader is in one of the same kind and holds the same bytes,
  unless the line is odd. Two facts make it go through: a reader that finds a line
  odd keeps to it (`OddForGood`), so that of a line that is not odd at the end every
  beginning is not; and what `Passed` says of the first byte, that no earlier rule
  applies to it, is what tells a word from a number, a path or an operator. `Lex`
  consumes an escape or `>>` as two bytes at once, the reader as one and one.
* `SnapshotsRestore`: `SnapshotSpec => []SnapshotRestores`. Its hypothesis
  `SnapshotAssumption` says only that a workspace is a record with texts and a
  list of scopes, and that a scope has finitely many overrides. The inductive
  invariant `SnapInv` has three parts.
  - Of the line being run, `LexInv`: what `WordsAsRead` says of any line, and,
    for the lines whose texts the reading says nothing of, how many words there
    are at least and what the first is. Words that begin with a letter or are a
    command, with single blanks in between, are counted as `Lex` passes them
    (`Counted`), whatever follows. Without it `!new s x` could be cut short, and
    the overrides after it would go to the scope below.
  - Of the run, `Progress`: for some order of the keys, the lines left are the
    label and the scopes, or the scopes, or the rest of one and those after it,
    and the wearer holds just what the lines that have run restore.
  - That the workspaces are those that were written and worn.

  What a line does is taken from what it reads as: `Split` of a command, a blank
  and a quoted text is two words (`QuoteIs`, and lemmas that put readers
  together: a reader that goes on from what another has read), and the reader
  finds nothing odd, so `Lex` yields these words. Keys are written in any order,
  which makes no difference because each is set once. Texts that are escaped, and
  names that are several words, may become anything; what is proved of them is
  that the scopes below are still there and unchanged once the file has been run
  to its end, each line one command, if each name begins with a letter. Where a
  line is more than one command the model stops, and nothing is claimed but that
  this does not happen to plain names and texts (`PlainGoesOn`): their tokens are
  the words of `Split`, which are identifiers and strings.

  The proof corrected the property. Its condition had stood inside the
  quantifier over the scopes: for a list of which one scope is plain and another
  is not, it asked for all of them, and for an empty list for nothing.

`Diff_proofs`, for any files:

* `DiffTypeCorrect`: `[]DiffTypeOK`; no index leaves the table.
* `WalkNeverStuck`: `[]WalkGoesOn`, that the walk always has a case to take.
* `NoChangeHidden`: `[]ChangesAreShown`. The inductive invariant says of the lines
  printed so far that they are increasing, that those left out are far from every
  change, and that `inSkippedBlock` is true exactly when the last one is a mark.
* `FewestChanges`: `[]DiffIsMinimal`. The inductive invariant has two parts. Of the
  table, every cell that has been filled satisfies the recurrence, and bounds the
  length of every common subsequence of the lines before it (a common subsequence
  of two beginnings either uses both last lines, or is one of shorter beginnings).
  Of the walk, the lines noted so far, read backwards, are the rest of each file,
  and the lines they keep together with the value of the cell reached are the
  value of the last cell. When the walk reaches the corner, the diff keeps as many
  lines as the last cell says, which no common subsequence exceeds.

`ListLemmas` has what several of these need: the least and the greatest of a set
of positions, an entry removed from a list, and, for recursive functions over
`0 .. n`, that one exists (`LoopExists`) and that what each turn keeps holds
throughout (`LoopKeeps`). The last two are proved by the least number at which
they would fail, without an induction theorem, which the provers cannot
instantiate.

Only model-checked: liveness, which is not in the reach of the proof system
(`LineTerminates`, `LexEnds`, `DiffEnds`, the liveness halves of `KeepsPromise`
and `KeepsLines`; the safety halves are `Implements` in two modules), and the
six findings, which are counterexamples. Every safety invariant and every action
property of the passing runs is the statement of a theorem.

## 5. What is not modelled

* Answers to questions, which are read past the line editor's own buffers.
* Rendering: the rows a line takes, colours, cursor movements, the list of
  completions; of the prompt's text only the `[H]` marks are modelled.
* What the configuration's directory is and whose: in `Configuration` and in
  `Shell` the outcome of the checks is a free choice each time it is read. The
  list of commands that a generated `default.cloth` holds, and the warning about
  those that are missing.
* A file that wears itself, or a `default.cloth` with `!reset`, recurses until
  the stack of the process is exhausted. The instances have neither, and
  `LineTerminates` says nothing about them.
* Launch classification (`command_policy.go`), which only its test calls.
* Theme, `ls`: wording and layout.
* Terminal modes: system calls without logic.
* Windows: access lists, terminal and built-ins of that build.
* `github.com/loeredami/ungo`, a library: its lists and options are modelled
  from how the code uses them.

## 6. What could follow

1. `Sessions`: an abstract specification of the session (a set of workspaces
   with an environment each, and a current one), implemented by `Workspaces`
   when no directory vanishes.

## 7. Running it

    tlc -config Workspaces_session.cfg   MCWorkspaces.tla
    tlc -config Shell_lines.cfg          MCShell.tla
    tlc -config OsPipeline_three.cfg     OsPipeline.tla
    tlc -config Configuration_shells.cfg MCConfiguration.tla
    tlc -config LineEditor_keys.cfg      MCLineEditor.tla
    tlc -config Text_pure.cfg            MCText.tla
    tlapm Workspaces_proofs.tla
    tlapm Shell_proofs.tla
    tlapm OsPipeline_proofs.tla
    tlapm Configuration_proofs.tla
    tlapm LineEditor_proofs.tla
    tlapm Lexer_proofs.tla
    tlapm Diff_proofs.tla

The other configurations (`Workspaces_label`, `Workspaces_close`, `Shell_untrust`,
`Shell_buffered`, `Configuration_relative`, `Text_stuck`) end with a
counterexample, which is the finding. The largest passing runs are `shells`, with
about 734,000 distinct states, and `keys`, with 594,000; none takes more than
three minutes.
