----------------------------- MODULE OsPipeline -----------------------------
(***************************************************************************)
(* A pipeline of external commands, from runPipeline once every stage has  *)
(* been authorized (main.go:771-878): the shell opens the redirections and *)
(* the pipes, starts the programs, closes its ends of the pipes and waits  *)
(* for the programs in order.  The programs run concurrently with it.      *)
(*                                                                         *)
(* The programs and the pipes are the operating system's: a pipe holds     *)
(* Capacity blocks, a program reads to the end of its input and writes     *)
(* what it reads, and may end early at any time.  Pipe i joins stage i to  *)
(* stage i + 1.  Descriptors are close-on-exec, so a program has the ends  *)
(* it was given and no others, and has them until it ends.                 *)
(***************************************************************************)
EXTENDS Integers, Sequences, FiniteSets

CONSTANTS
  N,         \* stages
  Capacity,  \* blocks a pipe holds
  Volume     \* blocks the first program writes

ASSUME PipelineAssumption ==
  /\ N \in Nat /\ N >= 2
  /\ Capacity \in Nat /\ Capacity >= 1
  /\ Volume \in Nat

Stage == 1 .. N
Pipe == 1 .. N - 1

VARIABLES
  phase,    \* where the shell is in runPipeline
  at,       \* the stage it is at
  failure,  \* the status after a redirection, a pipe or a start failure, 0 before
  files,    \* the redirections open in the shell
  readers,  \* the pipes whose read end is open in the shell
  writers,  \* the pipes whose write end is open in the shell
  redirectedFiles,  \* the redirections the code knows of, to be closed at the end
  pipes,    \* the pipes it knows of: the slots filled of its readers and writers
  proc,     \* what has become of each program
  code,     \* its exit status
  buffer,   \* the blocks in each pipe
  pending,  \* the blocks each program still has to write
  sink,     \* the blocks the last program has written
  cut,      \* history: the programs that ended before the end of their work
  result    \* the status returned, Pending before

Pending == -1

descriptors == <<files, readers, writers>>
known == <<redirectedFiles, pipes>>
shell == <<phase, at, failure, descriptors, known, result>>
programs == <<proc, code, buffer, pending, sink, cut>>
vars == <<shell, programs>>

-----------------------------------------------------------------------------

Init ==
  /\ phase = "build"
  /\ at = 1
  /\ failure = 0
  /\ files = {}
  /\ readers = {}
  /\ writers = {}
  /\ redirectedFiles = {}
  /\ pipes = {}
  /\ proc = [i \in Stage |-> "unborn"]
  /\ code = [i \in Stage |-> 0]
  /\ buffer = [i \in Pipe |-> 0]
  /\ pending = [i \in Stage |-> IF i = 1 THEN Volume ELSE 0]
  /\ sink = 0
  /\ cut = {}
  /\ result = Pending

Running(i) == proc[i] = "running"

-----------------------------------------------------------------------------
(* The shell. *)

\* A file that was opened is appended to redirectedFiles, which is what the
\* deferred function goes by.  (The first is a mutant: it is not.)
NotAppended(opened) == redirectedFiles
Appended(opened) == redirectedFiles \cup opened

\* The input of a stage: the first may have a redirection, the others read
\* from the pipe before them.
OpenInput ==
  /\ phase = "build"
  /\ \E opened \in IF at = 1 THEN {{}, {1}} ELSE {{}} :
       /\ files' = files \cup opened
       /\ redirectedFiles' = Appended(opened)
  /\ phase' = "output"
  /\ UNCHANGED <<at, failure, readers, writers, pipes, result, programs>>

\* Its program is not found any more (127), or the file cannot be opened (1).
InputFails ==
  /\ phase = "build"
  /\ failure' \in {127} \cup (IF at = 1 THEN {1} ELSE {})
  /\ phase' = "return"
  /\ UNCHANGED <<at, descriptors, known, result, programs>>

\* The output of a stage: a pipe, but for the last one, which may have a
\* redirection.
OpenOutput ==
  /\ phase = "output"
  /\ \/ /\ at < N
        /\ readers' = readers \cup {at}
        /\ writers' = writers \cup {at}
        /\ pipes' = pipes \cup {at}
        /\ phase' = "build"
        /\ at' = at + 1
        /\ UNCHANGED <<files, redirectedFiles>>
     \/ /\ at = N
        /\ \E opened \in {{}, {N}} :
             /\ files' = files \cup opened
             /\ redirectedFiles' = Appended(opened)
        /\ phase' = "start"
        /\ at' = 1
        /\ UNCHANGED <<readers, writers, pipes>>
  /\ UNCHANGED <<failure, result, programs>>

\* The pipe cannot be made, or the file not be opened.
OutputFails ==
  /\ phase = "output"
  /\ failure' = 1
  /\ phase' = "return"
  /\ UNCHANGED <<at, descriptors, known, result, programs>>

\* The pipe ends the shell closes as soon as stage i is started: none.  (The
\* first is a mutant: the read end of the pipe the stage writes to.)
NextReader(i) == {i}
ReadersDone(i) == {}

\* (A mutant of the next: stage N + 1 is started.)
StartPast(i) == IF i > N THEN <<"closingWriters", 1>> ELSE <<"start", i + 1>>
AfterStart(i) == IF i = N THEN <<"closingWriters", 1>> ELSE <<"start", i + 1>>

StartStage ==
  /\ phase = "start"
  /\ proc' = [proc EXCEPT ![at] = "running"]
  /\ readers' = readers \ ReadersDone(at)
  /\ phase' = AfterStart(at)[1]
  /\ at' = AfterStart(at)[2]
  /\ UNCHANGED <<failure, files, writers, known, result,
                 code, buffer, pending, sink, cut>>

StartFails ==
  /\ phase = "start"
  /\ failure' = 1
  /\ phase' = "closingWriters"
  /\ at' = 1
  /\ UNCHANGED <<descriptors, known, result, programs>>

\* What follows is the same whether every program was started or not, but for
\* the programs that are waited for and the status.

KeepWriters ==   \* (a mutant of the next)
  /\ phase = "closingWriters"
  /\ phase' = "closingReaders"
  /\ UNCHANGED <<at, failure, descriptors, known, result, programs>>

CloseWriters ==
  /\ phase = "closingWriters"
  /\ writers' = writers \ pipes
  /\ phase' = "closingReaders"
  /\ UNCHANGED <<at, failure, files, readers, known, result, programs>>

CloseReaders ==
  /\ phase = "closingReaders"
  /\ readers' = readers \ pipes
  /\ phase' = "wait"
  /\ UNCHANGED <<at, failure, files, writers, known, result, programs>>

\* The programs to wait for: those that were started.  (Mutants: none after a
\* failure; all but the last.)
WaitOnSuccess == IF failure # 0 THEN {} ELSE Stage
WaitUpstream == {i \in Stage \ {N} : proc[i] # "unborn"}
WaitFor == {i \in Stage : proc[i] # "unborn"}

Wait ==
  /\ phase = "wait"
  /\ at \in WaitFor
  /\ proc[at] = "exited"
  /\ proc' = [proc EXCEPT ![at] = "waited"]
  /\ IF at + 1 \in WaitFor THEN at' = at + 1 /\ phase' = phase
                           ELSE at' = at /\ phase' = "return"
  /\ UNCHANGED <<failure, descriptors, known, result,
                 code, buffer, pending, sink, cut>>

WaitForNone ==
  /\ phase = "wait"
  /\ at \notin WaitFor
  /\ phase' = "return"
  /\ UNCHANGED <<at, failure, descriptors, known, result, programs>>

\* The deferred function closes the files and the ends of pipes the code knows
\* of; those that have been closed already are closed again, to no effect.
Return ==
  /\ phase = "return"
  /\ files' = files \ redirectedFiles
  /\ readers' = readers \ pipes
  /\ writers' = writers \ pipes
  /\ result' = IF failure # 0 THEN failure ELSE code[N]
  /\ phase' = "returned"
  /\ UNCHANGED <<at, failure, known, programs>>

Shell ==
  \/ OpenInput \/ InputFails \/ OpenOutput \/ OutputFails
  \/ StartStage \/ StartFails
  \/ CloseWriters \/ CloseReaders \/ Wait \/ WaitForNone \/ Return

-----------------------------------------------------------------------------
(* The programs and the pipes (the operating system). *)

HasReader(i) == i \in readers \/ Running(i + 1)
HasWriter(i) == i \in writers \/ Running(i)

EndOfInput(i) == i > 1 => buffer[i - 1] = 0 /\ ~HasWriter(i - 1)

ReadBlock(i) ==
  /\ i > 1
  /\ Running(i)
  /\ pending[i] = 0
  /\ buffer[i - 1] > 0
  /\ buffer' = [buffer EXCEPT ![i - 1] = @ - 1]
  /\ pending' = [pending EXCEPT ![i] = 1]
  /\ UNCHANGED <<shell, proc, code, sink, cut>>

WriteBlock(i) ==
  /\ Running(i)
  /\ pending[i] > 0
  /\ pending' = [pending EXCEPT ![i] = @ - 1]
  /\ \/ /\ i < N
        /\ HasReader(i)
        /\ buffer[i] < Capacity
        /\ buffer' = [buffer EXCEPT ![i] = @ + 1]
        /\ sink' = sink
     \/ /\ i = N
        /\ sink' = sink + 1
        /\ buffer' = buffer
  /\ UNCHANGED <<shell, proc, code, cut>>

Ends(i, status) ==
  /\ proc' = [proc EXCEPT ![i] = "exited"]
  /\ code' = [code EXCEPT ![i] = status]
  /\ UNCHANGED <<shell, buffer, pending, sink>>

\* Nobody can read what the program writes: it is killed by a signal, which
\* the shell reports as 1.
BrokenPipe(i) ==
  /\ i < N
  /\ Running(i)
  /\ pending[i] > 0
  /\ ~HasReader(i)
  /\ Ends(i, 1)
  /\ cut' = cut \cup {i}

EndOfWork(i) ==
  /\ Running(i)
  /\ pending[i] = 0
  /\ EndOfInput(i)
  /\ \E status \in {0, 1} : Ends(i, status)
  /\ UNCHANGED cut

Quit(i) ==
  /\ Running(i)
  /\ \E status \in {0, 1} : Ends(i, status)
  /\ cut' = cut \cup {i}

Program(i) == ReadBlock(i) \/ WriteBlock(i) \/ BrokenPipe(i) \/ EndOfWork(i)

Returned == phase = "returned" /\ UNCHANGED vars

Next == Shell \/ (\E i \in Stage : Program(i) \/ Quit(i)) \/ Returned

(* The shell waits for nothing but its programs, and a program that can    *)
(* read, write or end does so in the end: none of them sleeps for ever.    *)
(* Nothing obliges a program to quit early.                                *)
Spec ==
  /\ Init
  /\ [][Next]_vars
  /\ WF_vars(Shell)
  /\ \A i \in Stage : WF_vars(Program(i))

-----------------------------------------------------------------------------

\* Every variable stays in its set.
TypeOK ==
  /\ phase \in {"build", "output", "start", "closingWriters", "closingReaders",
                "wait", "return", "returned"}
  /\ at \in Stage
  /\ failure \in {0, 1, 127}
  /\ files \subseteq {1, N}
  /\ readers \subseteq Pipe
  /\ writers \subseteq Pipe
  /\ redirectedFiles \subseteq {1, N}
  /\ pipes \subseteq Pipe
  /\ proc \in [Stage -> {"unborn", "running", "exited", "waited"}]
  /\ code \in [Stage -> {0, 1}]
  /\ buffer \in [Pipe -> 0 .. Capacity]
  /\ pending \in [Stage -> Nat]
  /\ sink \in Nat
  /\ cut \subseteq Stage
  /\ result \in {Pending, 0, 1, 127}

\* When the call returns, on every path, the shell has no descriptor left of
\* it: whatever a path has opened before it fails, the code knows of it, so
\* that the deferred function closes it.
NothingLeftOpen ==
  phase = "returned" => files = {} /\ readers = {} /\ writers = {}

\* When the call returns, on every path, no program it started is running or
\* left unwaited for.
NoOrphans ==
  phase = "returned" => \A i \in Stage : proc[i] \in {"unborn", "waited"}

\* When every program was started and did all its work, all the output has
\* arrived by the time the prompt is back.
OutputComplete ==
  phase = "returned" /\ failure = 0 /\ cut = {} => sink = Volume

\* A program is killed for writing into its pipe only because the program
\* after it is gone or was never to be: never because of what the shell has
\* opened and closed on its side.
BrokenPipeIsDownstream ==
  [][\A i \in Pipe : BrokenPipe(i) => ~Running(i + 1) /\
       (proc[i + 1] = "unborn" => failure # 0)]_vars

\* The call as the interpreter sees it.
Call == INSTANCE PipelineCall
  WITH launched <- Cardinality({i \in Stage : proc[i] # "unborn"}),
       live     <- {i \in Stage : proc[i] \in {"running", "exited"}},
       last     <- IF proc[N] \in {"exited", "waited"} THEN code[N] ELSE Pending

\* The pipeline keeps what the interpreter relies on: among other things the
\* prompt always comes back, because no program can be left waiting for an
\* end of input, or for a reader, that only the shell could give it.
KeepsPromise == Call!CallSpec

=============================================================================
