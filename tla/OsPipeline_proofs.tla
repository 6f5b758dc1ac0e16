-------------------------- MODULE OsPipeline_proofs --------------------------
(***************************************************************************)
(* Theorems about OsPipeline, for every number of stages, capacity of the  *)
(* pipes and volume of output.                                             *)
(***************************************************************************)
EXTENDS OsPipeline, FiniteSetTheorems, TLAPS

(***************************************************************************)
(* The inductive invariant: what is true at each place of runPipeline.     *)
(***************************************************************************)
Started(i) == proc[i] # "unborn"

Building ==
  phase \in {"build", "output"} =>
    /\ failure = 0
    /\ \A i \in Stage : ~Started(i)
    /\ readers = {i \in Pipe : i < at}

\* Whatever is open in the shell the code knows of.
Known == files \subseteq redirectedFiles /\ readers \cup writers \subseteq pipes

\* The stages before the one the shell is at are started, and nothing has been
\* closed yet.
Starting ==
  phase = "start" =>
    /\ failure = 0
    /\ readers = Pipe
    /\ \A i \in Stage : IF i < at THEN proc[i] \in {"running", "exited"}
                                  ELSE ~Started(i)

Closing ==
  phase \in {"closingWriters", "closingReaders"} =>
    /\ at = 1
    /\ \A i \in Stage : proc[i] # "waited"

\* The stages before the one the shell is at have been waited for; at the first
\* that was not started it stops.
Waiting ==
  phase = "wait" =>
    /\ \A i \in Stage : proc[i] = "waited" <=> i < at
    /\ at > 1 => Started(at)

Ending ==
  phase \in {"return", "returned"} =>
    \A i \in Stage : proc[i] \in {"unborn", "waited"}

\* The stages are started in order, all of them unless something failed, and
\* never the last if something did.
InOrder ==
  phase \in {"closingWriters", "closingReaders", "wait", "return", "returned"} =>
    /\ \A i, j \in Stage : i < j /\ Started(j) => Started(i)
    /\ IF failure = 0 THEN \A i \in Stage : Started(i) ELSE ~Started(N)

Answered ==
  IF phase = "returned"
  THEN files = {} /\ readers = {} /\ writers = {} /\ result # Pending
  ELSE result = Pending

IInv ==
  /\ TypeOK /\ Building /\ Known /\ Starting /\ Closing
  /\ Waiting /\ Ending /\ InOrder /\ Answered

-----------------------------------------------------------------------------

LEMMA InitInvariant == Init => IInv
BY PipelineAssumption
   DEF Init, IInv, TypeOK, Building, Known, Starting, Closing, Waiting, Ending, InOrder,
       Answered, Started, Stage, Pipe, Pending

\* What may become of a program in a step that is not the shell's.
AtMostEnds(j) ==
  \/ proc'[j] = proc[j] /\ code'[j] = code[j]
  \/ proc[j] = "running" /\ proc'[j] = "exited"

(* What the programs and the pipes do on their own: the shell's variables   *)
(* stay, and a program can only end.                                        *)
LEMMA ProgramStep ==
  ASSUME TypeOK, NEW i \in Stage, Program(i) \/ Quit(i)
  PROVE  /\ TypeOK'
         /\ UNCHANGED shell
         /\ \A j \in Stage : AtMostEnds(j)
<1>1. CASE ReadBlock(i)
  <2>1. i - 1 \in Pipe
    BY <1>1, PipelineAssumption DEF ReadBlock, Stage, Pipe
  <2>2. buffer[i - 1] \in 0 .. Capacity /\ buffer[i - 1] > 0
    BY <1>1, <2>1 DEF ReadBlock, TypeOK
  <2>3. buffer' \in [Pipe -> 0 .. Capacity]
    BY <1>1, <2>1, <2>2, PipelineAssumption DEF ReadBlock, TypeOK
  <2>4. pending' \in [Stage -> Nat]
    BY <1>1 DEF ReadBlock, TypeOK
  <2>5. TypeOK'
    BY <1>1, <2>3, <2>4 DEF ReadBlock, TypeOK, shell, descriptors, known
  <2>6. UNCHANGED shell /\ proc' = proc /\ code' = code
    BY <1>1 DEF ReadBlock
  <2> QED BY <2>5, <2>6 DEF AtMostEnds
<1>2. CASE WriteBlock(i)
  <2>1. pending' \in [Stage -> Nat]
    BY <1>2 DEF WriteBlock, TypeOK
  <2>2. sink' \in Nat
    BY <1>2 DEF WriteBlock, TypeOK
  <2>3. buffer' \in [Pipe -> 0 .. Capacity]
    <3>1. CASE i < N
      <4>1. i \in Pipe
        BY <3>1, PipelineAssumption DEF Stage, Pipe
      <4> QED BY <1>2, <3>1, <4>1, PipelineAssumption DEF WriteBlock, TypeOK
    <3>2. CASE ~(i < N)
      <4>1. buffer' = buffer
        BY <1>2, <3>2 DEF WriteBlock
      <4> QED BY <4>1 DEF TypeOK
    <3> QED BY <3>1, <3>2
  <2>4. TypeOK'
    BY <1>2, <2>1, <2>2, <2>3 DEF WriteBlock, TypeOK, shell, descriptors, known
  <2>6. UNCHANGED shell /\ proc' = proc /\ code' = code
    BY <1>2 DEF WriteBlock
  <2> QED BY <2>4, <2>6 DEF AtMostEnds
<1>3. ASSUME Running(i), NEW status \in {0, 1}, Ends(i, status), cut' \subseteq Stage
      PROVE  /\ TypeOK'
             /\ UNCHANGED shell
             /\ \A j \in Stage : AtMostEnds(j)
  <2>1. proc' \in [Stage -> {"unborn", "running", "exited", "waited"}]
    BY <1>3 DEF Ends, TypeOK
  <2>2. code' \in [Stage -> {0, 1}]
    BY <1>3 DEF Ends, TypeOK
  <2>3. TypeOK'
    BY <1>3, <2>1, <2>2 DEF Ends, TypeOK, shell, descriptors, known
  <2>4. \A j \in Stage : AtMostEnds(j)
    <3>1. /\ proc \in [Stage -> {"unborn", "running", "exited", "waited"}]
          /\ code \in [Stage -> {0, 1}]
          /\ proc' = [proc EXCEPT ![i] = "exited"]
          /\ code' = [code EXCEPT ![i] = status]
          /\ proc[i] = "running"
      BY <1>3 DEF Ends, TypeOK, Running
    <3> QED BY <3>1 DEF AtMostEnds
  <2> QED BY <1>3, <2>3, <2>4 DEF Ends
<1>4. CASE BrokenPipe(i)
  <2>1. Running(i) /\ Ends(i, 1) /\ cut' \subseteq Stage
    BY <1>4 DEF BrokenPipe, TypeOK
  <2> QED BY <1>3, <2>1
<1>5. CASE EndOfWork(i)
  BY <1>3, <1>5 DEF EndOfWork, TypeOK
<1>6. CASE Quit(i)
  <2>1. Running(i) /\ cut' \subseteq Stage
    BY <1>6 DEF Quit, TypeOK
  <2>2. PICK status \in {0, 1} : Ends(i, status)
    BY <1>6 DEF Quit
  <2> QED BY <1>3, <2>1, <2>2
<1> QED BY <1>1, <1>2, <1>4, <1>5, <1>6 DEF Program

(* A step of the shell that leaves the programs alone.                      *)
LEMMA ShellTyped ==
  ASSUME TypeOK, UNCHANGED programs,
         phase' \in {"build", "output", "start", "closingWriters", "closingReaders",
                     "wait", "return", "returned"},
         at' \in Stage, failure' \in {0, 1, 127}, files' \subseteq {1, N},
         readers' \subseteq Pipe, writers' \subseteq Pipe,
         redirectedFiles' \subseteq {1, N}, pipes' \subseteq Pipe,
         result' \in {Pending, 0, 1, 127}
  PROVE  TypeOK'
BY DEF TypeOK, programs

(* Every step keeps the invariant, one action of the shell at a time.       *)
LEMMA StepInvariant == IInv /\ [Next]_vars => IInv'
<1> SUFFICES ASSUME IInv, [Next]_vars PROVE IInv'
  OBVIOUS
<1> USE PipelineAssumption DEF Stage, Pipe, Pending
<1>1. CASE OpenInput
  <2>1. PICK opened \in {{}, {1}} :
          files' = files \cup opened /\ redirectedFiles' = redirectedFiles \cup opened
    BY <1>1 DEF OpenInput, Appended
  <2>2. /\ phase = "build" /\ phase' = "output" /\ TypeOK
        /\ UNCHANGED <<at, failure, readers, writers, pipes, result, programs>>
    BY <1>1 DEF IInv, OpenInput
  <2>3. TypeOK'
    <3>1. files' \subseteq {1, N} /\ redirectedFiles' \subseteq {1, N}
      BY <2>1, <2>2 DEF TypeOK
    <3>2. /\ at' \in Stage /\ failure' \in {0, 1, 127} /\ readers' \subseteq Pipe
          /\ writers' \subseteq Pipe /\ pipes' \subseteq Pipe
          /\ result' \in {Pending, 0, 1, 127}
      BY <2>2 DEF TypeOK
    <3> QED BY <2>2, <3>1, <3>2, ShellTyped
  <2>4. Building' /\ Known'
    BY <2>1, <2>2 DEF IInv, Building, Known, Started, programs
  <2>5. Starting' /\ Closing' /\ Waiting' /\ Ending' /\ InOrder' /\ Answered'
    BY <2>2 DEF IInv, Starting, Closing, Waiting, Ending, InOrder, Answered
  <2> QED BY <2>3, <2>4, <2>5 DEF IInv
<1>2. CASE InputFails \/ OutputFails
  <2>1. /\ phase \in {"build", "output"} /\ phase' = "return" /\ failure' \in {1, 127}
        /\ UNCHANGED <<at, descriptors, known, result, programs>> /\ TypeOK
    BY <1>2 DEF IInv, InputFails, OutputFails
  <2>2. TypeOK'
    <3>1. /\ at' \in Stage /\ files' \subseteq {1, N} /\ readers' \subseteq Pipe
          /\ writers' \subseteq Pipe /\ redirectedFiles' \subseteq {1, N}
          /\ pipes' \subseteq Pipe /\ result' \in {Pending, 0, 1, 127}
      BY <2>1 DEF TypeOK, descriptors, known
    <3> QED BY <2>1, <3>1, ShellTyped
  <2>3. Building' /\ Starting' /\ Closing' /\ Waiting'
    BY <2>1 DEF Building, Starting, Closing, Waiting
  <2>4. Known'
    BY <2>1 DEF IInv, Known, descriptors, known
  <2>5. Ending' /\ InOrder' /\ Answered'
    BY <2>1 DEF IInv, programs, Building, Started, Ending, InOrder, Answered
  <2> QED BY <2>2, <2>3, <2>4, <2>5 DEF IInv
<1>13. CASE OpenOutput
  <2>1. /\ phase = "output" /\ UNCHANGED <<failure, result, programs>> /\ TypeOK
        /\ at \in Stage /\ failure = 0 /\ (\A i \in Stage : ~Started(i))
        /\ readers = {i \in Pipe : i < at} /\ Known
    BY <1>13 DEF IInv, TypeOK, OpenOutput, Building
  <2>2. CASE /\ at < N
             /\ readers' = readers \cup {at} /\ writers' = writers \cup {at}
             /\ pipes' = pipes \cup {at}
             /\ phase' = "build" /\ at' = at + 1
             /\ UNCHANGED <<files, redirectedFiles>>
    <3>1. TypeOK'
      <4>0. at \in 1 .. N /\ at < N /\ N \in Nat /\ at' = at + 1
        BY <2>1, <2>2
      <4>1. at \in Pipe /\ at' \in Stage
        BY <4>0
      <4>2. /\ readers' \subseteq Pipe /\ writers' \subseteq Pipe /\ pipes' \subseteq Pipe
            /\ files' \subseteq {1, N} /\ redirectedFiles' \subseteq {1, N}
        BY <2>1, <2>2, <4>1 DEF TypeOK
      <4>3. failure' \in {0, 1, 127} /\ result' \in {Pending, 0, 1, 127}
        BY <2>1 DEF TypeOK
      <4> QED BY <2>1, <2>2, <4>1, <4>2, <4>3, ShellTyped
    <3>2. Building'
      <4>1. readers' = {i \in Pipe : i < at'}
        BY <2>1, <2>2
      <4> QED BY <2>1, <4>1 DEF Building, Started, programs
    <3>3. Known'
      BY <2>1, <2>2 DEF Known
    <3>4. Starting' /\ Closing' /\ Waiting' /\ Ending' /\ InOrder' /\ Answered'
      BY <1>13, <2>1, <2>2 DEF IInv, Starting, Closing, Waiting, Ending, InOrder, Answered
    <3> QED BY <3>1, <3>2, <3>3, <3>4 DEF IInv
  <2>3. ASSUME NEW opened \in {{}, {N}}, at = N,
               files' = files \cup opened,
               redirectedFiles' = redirectedFiles \cup opened,
               phase' = "start", at' = 1, UNCHANGED <<readers, writers, pipes>>
        PROVE  IInv'
    <3>1. TypeOK'
      <4>0. at' \in Stage
        BY <2>3
      <4>1. files' \subseteq {1, N} /\ redirectedFiles' \subseteq {1, N}
        BY <2>1, <2>3 DEF TypeOK
      <4>2. /\ failure' \in {0, 1, 127} /\ readers' \subseteq Pipe
            /\ writers' \subseteq Pipe /\ pipes' \subseteq Pipe
            /\ result' \in {Pending, 0, 1, 127}
        BY <2>1, <2>3 DEF TypeOK
      <4> QED BY <2>1, <2>3, <4>0, <4>1, <4>2, ShellTyped
    <3>2. Building' /\ Closing' /\ Waiting' /\ Ending' /\ InOrder' /\ Answered'
      BY <1>13, <2>1, <2>3 DEF IInv, Building, Closing, Waiting, Ending, InOrder, Answered
    <3>3. Known'
      BY <2>1, <2>3 DEF Known
    <3>4. Starting'
      BY <2>1, <2>3 DEF Starting, Started, programs
    <3> QED BY <3>1, <3>2, <3>3, <3>4 DEF IInv
  <2> QED BY <1>13, <2>2, <2>3 DEF OpenOutput, Appended
<1>3. CASE StartStage
  <2>1. at \in Stage /\ proc' = [proc EXCEPT ![at] = "running"]
        /\ readers' = readers /\ failure' = failure
    BY <1>3 DEF IInv, TypeOK, StartStage, ReadersDone
  <2>0. IF at = N THEN phase' = "closingWriters" /\ at' = 1
                  ELSE phase' = "start" /\ at' = at + 1
    BY <1>3 DEF StartStage, AfterStart
  <2>2. TypeOK'
    <3>1. proc' \in [Stage -> {"unborn", "running", "exited", "waited"}]
      BY <2>1 DEF IInv, TypeOK
    <3>2. at' \in Stage
      BY <2>0, <2>1
    <3> QED BY <1>3, <2>0, <2>1, <3>1, <3>2 DEF IInv, StartStage, TypeOK, known
  <2>9. Known'
    BY <1>3, <2>1 DEF IInv, StartStage, Known, known
  <2>3. Building' /\ Waiting' /\ Ending'
    BY <1>3 DEF StartStage, AfterStart, Building, Waiting, Ending
  <2>4. Starting'
    BY <1>3, <2>1 DEF IInv, TypeOK, StartStage, AfterStart, Starting, Started
  <2>8. \A i \in Stage : IF i <= at THEN proc'[i] \in {"running", "exited"}
                                   ELSE ~Started(i)'
    BY <1>3, <2>1 DEF IInv, TypeOK, StartStage, Starting, Started
  <2>5. Closing'
    BY <2>0, <2>1, <2>8 DEF Closing
  <2>6. InOrder'
    <3>1. CASE at = N
      <4>1. \A i \in Stage : Started(i)'
        BY <2>8, <3>1 DEF Started
      <4>2. failure' = 0
        BY <1>3, <2>1 DEF IInv, StartStage, Starting
      <4> QED BY <4>1, <4>2 DEF InOrder
    <3>2. CASE at # N
      BY <2>0, <3>2 DEF InOrder
    <3> QED BY <3>1, <3>2
  <2>7. Answered'
    BY <1>3 DEF IInv, StartStage, AfterStart, Answered
  <2> QED BY <2>2, <2>3, <2>4, <2>5, <2>6, <2>7, <2>9 DEF IInv
<1>4. CASE StartFails
  <2>1. TypeOK'
    <3>1. UNCHANGED <<descriptors, known, result, programs>>
          /\ phase' = "closingWriters" /\ at' = 1 /\ failure' = 1 /\ TypeOK
      BY <1>4 DEF IInv, StartFails
    <3>2. /\ at' \in Stage /\ files' \subseteq {1, N} /\ readers' \subseteq Pipe
          /\ writers' \subseteq Pipe /\ redirectedFiles' \subseteq {1, N}
          /\ pipes' \subseteq Pipe /\ result' \in {Pending, 0, 1, 127}
      BY <3>1 DEF TypeOK, descriptors, known
    <3> QED BY <3>1, <3>2, ShellTyped
  <2>2. Building' /\ Starting' /\ Waiting' /\ Ending'
    BY <1>4 DEF StartFails, Building, Starting, Waiting, Ending
  <2>5. /\ at \in Stage /\ proc' = proc /\ failure' = 1 /\ at' = 1
        /\ \A i \in Stage : IF i < at THEN proc[i] \in {"running", "exited"}
                                   ELSE proc[i] = "unborn"
    BY <1>4 DEF IInv, TypeOK, StartFails, programs, Starting, Started
  <2>3. Closing' /\ InOrder'
    BY <2>5 DEF Closing, InOrder, Started
  <2>4. Answered' /\ Known'
    BY <1>4 DEF IInv, StartFails, Answered, Known, descriptors, known
  <2> QED BY <2>1, <2>2, <2>3, <2>4 DEF IInv
<1>5. CASE CloseWriters
  <2>1. TypeOK'
    BY <1>5 DEF IInv, CloseWriters, TypeOK, programs, known
  <2>2. Building' /\ Starting' /\ Closing' /\ Waiting' /\ Ending'
    BY <1>5 DEF IInv, CloseWriters, programs, Building, Starting, Closing, Waiting, Ending
  <2>3. InOrder' /\ Answered' /\ Known'
    BY <1>5 DEF IInv, CloseWriters, programs, InOrder, Answered, Started, Known, known
  <2> QED BY <2>1, <2>2, <2>3 DEF IInv
<1>6. CASE CloseReaders
  <2>1. TypeOK'
    BY <1>6 DEF IInv, CloseReaders, TypeOK, programs, known
  <2>2. Building' /\ Starting' /\ Closing' /\ Ending'
    BY <1>6 DEF IInv, CloseReaders, programs, Building, Starting, Closing, Ending
  <2>3. Waiting'
    BY <1>6 DEF IInv, CloseReaders, programs, Closing, Waiting
  <2>4. InOrder' /\ Answered' /\ Known'
    BY <1>6 DEF IInv, CloseReaders, programs, InOrder, Answered, Started, Known, known
  <2> QED BY <2>1, <2>2, <2>3, <2>4 DEF IInv
<1>7. CASE Wait
  <2>1. at \in Stage /\ proc[at] = "exited" /\ proc' = [proc EXCEPT ![at] = "waited"]
    BY <1>7 DEF IInv, TypeOK, Wait
  <2>2. at + 1 \in WaitFor <=> at < N /\ Started(at + 1)
    BY <2>1 DEF WaitFor, Started
  <2>3. TypeOK'
    <3>1. proc' \in [Stage -> {"unborn", "running", "exited", "waited"}]
      BY <2>1 DEF IInv, TypeOK
    <3>2. at' \in Stage /\ phase' \in {"wait", "return"}
      BY <1>7, <2>1, <2>2 DEF Wait
    <3> QED BY <1>7, <3>1, <3>2 DEF IInv, Wait, TypeOK, descriptors, known
  <2>4. Building' /\ Starting' /\ Closing'
    BY <1>7 DEF Wait, Building, Starting, Closing
  <2>5. Waiting'
    BY <1>7, <2>1, <2>2 DEF IInv, TypeOK, Wait, Waiting, Started
  <2>6. Ending'
    <3>1. ASSUME phase' = "return", NEW i \in Stage
          PROVE  proc'[i] \in {"unborn", "waited"}
      <4>1. ~(at < N /\ Started(at + 1))
        BY <1>7, <2>2, <3>1 DEF Wait
      <4>2. CASE i < at
        BY <1>7, <2>1, <4>2 DEF IInv, TypeOK, Wait, Waiting
      <4>3. CASE i = at
        BY <2>1, <4>3 DEF IInv, TypeOK
      <4>4. CASE i > at
        <5>1. at + 1 \in Stage /\ ~Started(at + 1)
          BY <4>1, <4>4, <2>1
        <5>2. ~Started(i)
          BY <5>1, <4>4, <2>1, <1>7 DEF IInv, InOrder, Wait
        <5> QED BY <5>2, <4>4, <2>1 DEF IInv, TypeOK, Started
      <4> QED BY <4>2, <4>3, <4>4, <2>1
    <3> QED BY <1>7, <3>1 DEF Wait, Ending
  <2>7. InOrder'
    <3>1. \A i \in Stage : Started(i)' <=> Started(i)
      BY <2>1 DEF IInv, TypeOK, Started
    <3>2. phase = "wait" /\ failure' = failure
      BY <1>7 DEF Wait
    <3>3. N \in Stage
      OBVIOUS
    <3> HIDE DEF Stage
    <3> QED BY <3>1, <3>2, <3>3 DEF IInv, InOrder
  <2>8. Answered' /\ Known'
    BY <1>7 DEF IInv, Wait, Answered, Known, descriptors, known
  <2> QED BY <2>3, <2>4, <2>5, <2>6, <2>7, <2>8 DEF IInv
<1>8. CASE WaitForNone
  <2>1. TypeOK'
    BY <1>8 DEF IInv, WaitForNone, TypeOK, programs, descriptors, known
  <2>2. Building' /\ Starting' /\ Closing' /\ Waiting'
    BY <1>8 DEF WaitForNone, Building, Starting, Closing, Waiting
  <2>3. Ending'
    <3>1. at = 1 /\ ~Started(1)
      BY <1>8 DEF IInv, TypeOK, Waiting, WaitForNone, WaitFor, Started
    <3>2. \A i \in Stage : ~Started(i)
      BY <1>8, <3>1 DEF IInv, InOrder, WaitForNone, Started
    <3> QED BY <1>8, <3>2 DEF WaitForNone, programs, Ending, Started
  <2>4. InOrder' /\ Answered' /\ Known'
    BY <1>8 DEF IInv, WaitForNone, programs, InOrder, Answered, Started,
                Known, descriptors, known
  <2> QED BY <2>1, <2>2, <2>3, <2>4 DEF IInv
<1>9. CASE Return
  <2>1. TypeOK' /\ result' # Pending
    <3>1. UNCHANGED <<at, failure, known, programs>> /\ phase' = "returned" /\ TypeOK
          /\ files' = {} /\ readers' = {} /\ writers' = {}
      BY <1>9 DEF IInv, Return, Known
    <3>2. /\ failure \in {0, 1, 127} /\ code[N] \in {0, 1} /\ at' \in Stage
          /\ redirectedFiles' \subseteq {1, N} /\ pipes' \subseteq Pipe
      BY <3>1 DEF TypeOK, known
    <3>3. result' \in {0, 1, 127}
      BY <1>9, <3>2 DEF Return
    <3>4. TypeOK'
      BY <3>1, <3>2, <3>3, ShellTyped
    <3> QED BY <3>3, <3>4
  <2>2. Building' /\ Starting' /\ Closing' /\ Waiting'
    BY <1>9 DEF Return, Building, Starting, Closing, Waiting
  <2>3. Ending' /\ InOrder'
    BY <1>9 DEF IInv, Return, programs, Ending, InOrder, Started
  <2>4. Answered' /\ Known'
    BY <1>9, <2>1 DEF IInv, Return, Known, Answered
  <2> QED BY <2>1, <2>2, <2>3, <2>4 DEF IInv
<1>10. ASSUME NEW i \in Stage, Program(i) \/ Quit(i)
       PROVE  IInv'
  <2>1. /\ TypeOK'
        /\ UNCHANGED shell
        /\ \A j \in Stage : AtMostEnds(j)
    BY <1>10, ProgramStep DEF IInv
  <2>2. Building' /\ Starting'
    BY <2>1 DEF AtMostEnds, IInv, shell, descriptors, Building, Starting, Started
  <2>5. /\ \A j \in Stage : proc'[j] = "waited" <=> proc[j] = "waited"
        /\ \A j \in Stage : proc'[j] = "unborn" <=> proc[j] = "unborn"
        /\ at \in Stage /\ at' = at /\ phase' = phase
    BY <2>1 DEF AtMostEnds, IInv, TypeOK, shell, descriptors, known
  <2>3. Closing' /\ Waiting' /\ Ending'
    <3>1. Closing'
      BY <2>5 DEF IInv, Closing
    <3>2. Waiting'
      BY <2>5 DEF IInv, Waiting, Started
    <3>3. Ending'
      BY <2>1, <2>5 DEF AtMostEnds, IInv, Ending
    <3> QED BY <3>1, <3>2, <3>3
  <2>4. InOrder' /\ Answered' /\ Known'
    BY <2>1 DEF AtMostEnds, IInv, shell, InOrder, Answered, Started,
                Known, descriptors, known
  <2> QED BY <2>1, <2>2, <2>3, <2>4 DEF IInv
<1>11. CASE UNCHANGED vars
  <2>0. UNCHANGED <<phase, at, failure, files, readers, writers, redirectedFiles, pipes,
                    result, proc, code, buffer, pending, sink, cut>>
    BY <1>11 DEF vars, shell, programs, descriptors, known
  <2>1. TypeOK'
    BY <2>0 DEF IInv, TypeOK
  <2>2. Building' /\ Starting'
    BY <2>0 DEF IInv, Building, Starting, Started
  <2>3. Known' /\ Closing' /\ Ending'
    BY <2>0 DEF IInv, Known, Closing, Ending
  <2>4. Waiting' /\ InOrder' /\ Answered'
    BY <2>0 DEF IInv, Waiting, InOrder, Answered, Started
  <2> QED BY <2>1, <2>2, <2>3, <2>4 DEF IInv
<1>12. CASE Shell
  BY <1>1, <1>2, <1>3, <1>4, <1>5, <1>6, <1>7, <1>8, <1>9, <1>12, <1>13, Zenon DEF Shell
<1> QED BY <1>10, <1>11, <1>12, Zenon DEF Next, Returned

-----------------------------------------------------------------------------

(* The invariant holds in every state: programs are started in the order of *)
(* the stages and waited for in the same order.                             *)
THEOREM Invariance == Spec => []IInv
BY InitInvariant, StepInvariant, PTL DEF Spec

(* The variables of runPipeline stay in their sets; in particular the loops *)
(* over the stages never pass the last one.                                 *)
THEOREM TypeCorrect == Spec => []TypeOK
<1>1. IInv => TypeOK
  BY DEF IInv
<1> QED BY <1>1, Invariance, PTL

(* The deferred function of runPipeline leaves no descriptor open, whatever *)
(* failed before it runs, because no path opens one that it does not record *)
(* where that function will look for it.                                    *)
THEOREM DescriptorsClosed == Spec => []NothingLeftOpen
<1>1. IInv => NothingLeftOpen
  BY DEF IInv, Answered, NothingLeftOpen
<1> QED BY <1>1, Invariance, PTL

(* Every program that was started has been waited for when runPipeline      *)
(* returns, also when a later one could not be started.                     *)
THEOREM ProgramsReaped == Spec => []NoOrphans
<1>1. IInv => NoOrphans
  BY DEF IInv, Ending, NoOrphans
<1> QED BY <1>1, Invariance, PTL

(* The shell closes its read ends when every program that was to be started *)
(* has its own: no program is killed because of the shell.                  *)
THEOREM BrokenPipesAreDownstream == Spec => BrokenPipeIsDownstream
<1>1. ASSUME IInv, NEW i \in Pipe, BrokenPipe(i)
      PROVE  ~Running(i + 1) /\ (proc[i + 1] = "unborn" => failure # 0)
  <2>1. i \in Stage /\ i + 1 \in Stage
    BY PipelineAssumption DEF Stage, Pipe
  <2>2. i \notin readers /\ ~Running(i + 1) /\ Started(i)
    BY <1>1 DEF BrokenPipe, HasReader, Running, Started
  <2>3. phase \notin {"build", "output", "start"}
    BY <1>1, <2>1, <2>2 DEF IInv, Building, Starting
  <2>4. proc[i + 1] = "unborn" => failure # 0
    BY <1>1, <2>1, <2>3 DEF IInv, TypeOK, InOrder, Started
  <2> QED BY <2>2, <2>4
<1>2. IInv => (\A i \in Pipe : BrokenPipe(i) => ~Running(i + 1) /\
                 (proc[i + 1] = "unborn" => failure # 0))
  BY <1>1
<1> QED BY <1>2, Invariance, PTL DEF BrokenPipeIsDownstream

-----------------------------------------------------------------------------
(* OsPipeline implements the safety part of PipelineCall.                   *)

Launched == {i \in Stage : Started(i)}

LEMMA StagesFinite == IsFiniteSet(Stage) /\ Cardinality(Stage) = N
BY FS_Interval, PipelineAssumption DEF Stage

\* While the shell starts the programs it has started those before stage at.
LEMMA LaunchedBefore ==
  ASSUME IInv, phase = "start"
  PROVE  Cardinality(Launched) = at - 1
<1>1. at \in 1 .. N
  BY DEF IInv, TypeOK, Stage
<1>2. Launched = 1 .. at - 1
  BY <1>1, PipelineAssumption DEF IInv, Starting, Launched, Started, Stage
<1> QED BY <1>1, <1>2, FS_Interval, PipelineAssumption

\* It has started them all, unless something failed.
LEMMA LaunchedAtEnd ==
  ASSUME IInv, phase = "return"
  PROVE  Cardinality(Launched) = N <=> failure = 0
<1>1. Launched \subseteq Stage /\ N \in Stage
  BY PipelineAssumption DEF Launched, Stage
<1>2. CASE failure = 0
  <2>1. Launched = Stage
    BY <1>2 DEF IInv, InOrder, Launched
  <2> QED BY <1>2, <2>1, StagesFinite
<1>3. CASE failure # 0
  <2>1. Launched # Stage
    BY <1>1, <1>3 DEF IInv, InOrder, Launched
  <2>2. Cardinality(Stage) = Cardinality(Launched) => Stage = Launched
    BY <1>1, StagesFinite, FS_Subset
  <2> QED BY <1>3, <2>1, <2>2, StagesFinite
<1> QED BY <1>2, <1>3

LEMMA InitImplements == Init => Call!CallInit
<1> SUFFICES ASSUME Init PROVE Call!CallInit
  OBVIOUS
<1>1. {i \in Stage : proc[i] # "unborn"} = {}
  BY DEF Init
<1>2. {i \in Stage : proc[i] \in {"running", "exited"}} = {}
  BY DEF Init
<1>3. N \in Stage
  BY PipelineAssumption DEF Stage
<1> QED BY <1>1, <1>2, <1>3, FS_EmptySet DEF Init, Call!CallInit, Call!Pending, Pending

Live == {i \in Stage : proc[i] \in {"running", "exited"}}
Last == IF proc[N] \in {"exited", "waited"} THEN code[N] ELSE Pending

\* The variables of PipelineCall as functions of those of OsPipeline.
Same ==
  /\ Launched' = Launched
  /\ Live' = Live
  /\ Last' = Last
  /\ result' = result

LEMMA SameStutters == Same => UNCHANGED Call!callVars
BY DEF Same, Call!callVars, Launched, Live, Last, Started

\* A step that leaves the programs and the result alone.
LEMMA QuietStutters ==
  ASSUME UNCHANGED <<proc, code, result>>
  PROVE  UNCHANGED Call!callVars
BY SameStutters DEF Same, Launched, Live, Last, Started

LEMMA StartLaunches ==
  ASSUME IInv, StartStage
  PROVE  Call!Launch
<1>1. at \in 1 .. N /\ N \in Stage /\ proc \in [Stage -> {"unborn", "running", "exited", "waited"}]
  BY PipelineAssumption DEF IInv, TypeOK, Stage
<1>2. Cardinality(Launched) = at - 1
  BY LaunchedBefore DEF StartStage
<1>3. Launched' = 1 .. at
  BY <1>1, PipelineAssumption DEF IInv, StartStage, Starting, Launched, Started, Stage
<1>4. Cardinality(Launched') = at
  BY <1>1, <1>3, FS_Interval
<1>5. Live' = Live \cup {at}
  BY <1>1 DEF StartStage, Live, Stage
<1>6. Last' = Last
  <2>1. ~Started(N)
    BY <1>1, PipelineAssumption DEF IInv, Starting, StartStage, Stage
  <2>2. proc'[N] \in {"unborn", "running"}
    BY <1>1, <2>1 DEF StartStage, Started
  <2> QED BY <2>1, <2>2 DEF Last, Started
<1>7. result = Pending /\ result' = result
  BY DEF IInv, Answered, StartStage
<1> QED BY <1>1, <1>2, <1>4, <1>5, <1>6, <1>7, PipelineAssumption
        DEF Call!Launch, Call!Pending, Pending, Launched, Started, Live, Last

LEMMA WaitReaps ==
  ASSUME IInv, Wait
  PROVE  \E i \in 1 .. N : Call!Reap(i)
<1>1. at \in 1 .. N /\ N \in Stage /\ proc \in [Stage -> {"unborn", "running", "exited", "waited"}]
  BY PipelineAssumption DEF IInv, TypeOK, Stage
<1>2. at \in Live
  BY <1>1 DEF Wait, Live, Stage
<1>3. Launched' = Launched
  BY <1>1 DEF Wait, Launched, Started, Stage
<1>4. Live' = Live \ {at}
  BY <1>1 DEF Wait, Live, Stage
<1>5. Last' = Last
  BY <1>1 DEF Wait, Last
<1>6. at = N => Last # Pending
  BY <1>1 DEF IInv, TypeOK, Wait, Last, Pending
<1>7. result' = result
  BY DEF Wait
<1> QED BY <1>1, <1>2, <1>3, <1>4, <1>5, <1>6, <1>7
        DEF Call!Reap, Call!Pending, Pending, Launched, Started, Live, Last

LEMMA ReturnReturns ==
  ASSUME IInv, Return
  PROVE  Call!Return
<1>1. Live = {}
  BY DEF IInv, Ending, Return, Live
<1>2. Cardinality(Launched) = N <=> failure = 0
  BY LaunchedAtEnd DEF Return
<1>3. Launched' = Launched /\ Live' = Live /\ Last' = Last
  BY DEF Return, programs, Launched, Live, Last, Started
<1>4. result = Pending
  BY DEF IInv, Answered, Return
<1>5. CASE failure = 0
  <2>1. proc[N] = "waited"
    <3>1. N \in Stage
      BY PipelineAssumption DEF Stage
    <3> QED BY <1>5, <3>1 DEF IInv, InOrder, Ending, Return, Started
  <2>2. result' = Last
    BY <1>5, <2>1 DEF Return, Last
  <2> QED BY <1>1, <1>2, <1>3, <1>4, <1>5, <2>2
          DEF Call!Return, Call!Pending, Pending, Launched, Started, Live, Last
<1>6. CASE failure # 0
  <2>1. result' \in {1, 127}
    BY <1>6 DEF IInv, TypeOK, Return
  <2> QED BY <1>1, <1>2, <1>3, <1>4, <1>6, <2>1
          DEF Call!Return, Call!Pending, Call!Failures, Pending, Launched, Started, Live, Last
<1> QED BY <1>5, <1>6

\* The end of the last program is seen; that of another changes nothing.
LEMMA EndImplements ==
  ASSUME IInv, NEW i \in Stage, NEW status \in {0, 1}, Running(i), Ends(i, status)
  PROVE  [Call!CallNext]_Call!callVars
<1>1. N \in Stage /\ proc \in [Stage -> {"unborn", "running", "exited", "waited"}]
      /\ code \in [Stage -> {0, 1}]
  BY PipelineAssumption DEF IInv, TypeOK, Stage
<1>2. Launched' = Launched /\ Live' = Live
  BY <1>1 DEF Running, Ends, Launched, Live, Started
<1>3. result' = result
  BY DEF Ends, shell
<1>4. CASE i = N
  <2>1. N \in Live /\ Last = Pending
    BY <1>1, <1>4 DEF Running, Live, Last
  <2>2. Last' = status
    BY <1>1, <1>4 DEF Ends, Last
  <2>3. Call!LastEnds
    BY <1>2, <1>3, <2>1, <2>2
       DEF Call!LastEnds, Call!Pending, Pending, Launched, Started, Live, Last
  <2> QED BY <2>3 DEF Call!CallNext
<1>5. CASE i # N
  <2>1. Last' = Last
    BY <1>1, <1>5 DEF Ends, Last
  <2> QED BY <1>2, <1>3, <2>1, SameStutters DEF Same
<1> QED BY <1>4, <1>5

LEMMA ProgramImplements ==
  ASSUME IInv, NEW i \in Stage, Program(i) \/ Quit(i)
  PROVE  [Call!CallNext]_Call!callVars
<1>1. CASE ReadBlock(i)
  BY <1>1, QuietStutters DEF ReadBlock, shell
<1>2. CASE WriteBlock(i)
  BY <1>2, QuietStutters DEF WriteBlock, shell
<1>3. CASE BrokenPipe(i)
  BY <1>3, EndImplements DEF BrokenPipe
<1>4. CASE EndOfWork(i)
  BY <1>4, EndImplements DEF EndOfWork
<1>5. CASE Quit(i)
  BY <1>5, EndImplements DEF Quit
<1> QED BY <1>1, <1>2, <1>3, <1>4, <1>5 DEF Program

LEMMA StepImplements == IInv /\ [Next]_vars => [Call!CallNext]_Call!callVars
<1> SUFFICES ASSUME IInv, [Next]_vars PROVE [Call!CallNext]_Call!callVars
  OBVIOUS
<1>1. CASE OpenInput \/ InputFails \/ OpenOutput \/ OutputFails \/ StartFails \/ CloseWriters \/ CloseReaders \/ WaitForNone
  <2>1. UNCHANGED <<proc, code, result>>
    BY <1>1 DEF OpenInput, InputFails, OpenOutput, OutputFails, StartFails, CloseWriters, CloseReaders,
                WaitForNone, programs
  <2> QED BY <2>1, QuietStutters
<1>2. CASE StartStage
  BY <1>2, StartLaunches DEF Call!CallNext
<1>3. CASE Wait
  BY <1>3, WaitReaps DEF Call!CallNext
<1>4. CASE Return
  BY <1>4, ReturnReturns DEF Call!CallNext
<1>5. CASE \E i \in Stage : Program(i) \/ Quit(i)
  BY <1>5, ProgramImplements
<1>6. CASE UNCHANGED vars
  BY <1>6, QuietStutters DEF vars, shell, programs
<1> QED BY <1>1, <1>2, <1>3, <1>4, <1>5, <1>6 DEF Next, Shell, Returned

(* runPipeline keeps the safety part of what PipelineCall promises: the     *)
(* programs are started in order, the call returns when each has been       *)
(* waited for, and with the last one's status if all of them were started.  *)
THEOREM Implements == Spec => Call!CallSafety
BY InitImplements, StepImplements, Invariance, PTL DEF Spec, Call!CallSafety

-----------------------------------------------------------------------------
(***************************************************************************)
(* No output is lost.  The blocks that there are, each at its place, still *)
(* with a program (0), in a pipe (1) or written (2), are moved on one at a *)
(* time and never thrown away: what a program had still to write when it   *)
(* ended remains with it.  A program that did all its work left nothing    *)
(* before it, and nothing comes after it ended.                            *)
(***************************************************************************)
Blocks ==
  {b \in Nat \X Nat \X Nat :
     \/ b[1] = 0 /\ b[2] \in Stage /\ b[3] \in 1 .. pending[b[2]]
     \/ b[1] = 1 /\ b[2] \in Pipe /\ b[3] \in 1 .. buffer[b[2]]
     \/ b[1] = 2 /\ b[2] = 0 /\ b[3] \in 1 .. sink}

Conserved == IsFiniteSet(Blocks) /\ Cardinality(Blocks) = Volume

Drained ==
  \A i \in Stage :
    proc[i] \in {"exited", "waited"} /\ i \notin cut =>
      /\ pending[i] = 0
      /\ i > 1 => buffer[i - 1] = 0 /\ proc[i - 1] \in {"exited", "waited"}

\* The numbers from 1 to n, tagged.
LEMMA TaggedInterval ==
  ASSUME NEW n \in Nat, NEW c, NEW d,
         NEW T, \A b : b \in T <=> \E k \in 1 .. n : b = <<c, d, k>>
  PROVE  IsFiniteSet(T) /\ Cardinality(T) = n
<1> DEFINE tag == [k \in 1 .. n |-> <<c, d, k>>]
<1>1. tag \in Bijection(1 .. n, T)
  <2>1. tag \in [1 .. n -> T]
    OBVIOUS
  <2>2. \A j, k \in 1 .. n : tag[j] = tag[k] => j = k
    OBVIOUS
  <2>3. \A x \in T : \E k \in 1 .. n : tag[k] = x
    OBVIOUS
  <2> HIDE DEF tag
  <2> QED BY <2>1, <2>2, <2>3 DEF Bijection, Injection, Surjection, IsInjective
<1>2. ExistsBijection(1 .. n, T)
  BY <1>1 DEF ExistsBijection
<1>3. IsFiniteSet(1 .. n) /\ Cardinality(1 .. n) = n
  BY FS_Interval
<1> QED BY <1>2, <1>3, FS_Bijection

\* One element takes the place of another.
LEMMA ExchangeOne ==
  ASSUME NEW S, IsFiniteSet(S), NEW x \in S, NEW y, y \notin S
  PROVE  /\ IsFiniteSet((S \ {x}) \cup {y})
         /\ Cardinality((S \ {x}) \cup {y}) = Cardinality(S)
<1>1. IsFiniteSet(S \ {x}) /\ Cardinality(S \ {x}) = Cardinality(S) - 1
  BY FS_RemoveElement
<1>2. /\ IsFiniteSet((S \ {x}) \cup {y})
      /\ Cardinality((S \ {x}) \cup {y}) = Cardinality(S \ {x}) + 1
  BY <1>1, FS_AddElement
<1>3. Cardinality(S) \in Nat
  BY FS_CardinalityType
<1> QED BY <1>1, <1>2, <1>3

LEMMA InitConserved == Init => Conserved /\ Drained
<1> SUFFICES ASSUME Init PROVE Conserved /\ Drained
  OBVIOUS
<1>1. \A b : b \in Blocks <=> \E k \in 1 .. Volume : b = <<0, 1, k>>
  <2>1. ASSUME NEW b \in Blocks
        PROVE  \E k \in 1 .. Volume : b = <<0, 1, k>>
    <3>1. b = <<b[1], b[2], b[3]>>
      BY DEF Blocks
    <3>2. b[1] = 0 /\ b[2] = 1 /\ b[3] \in 1 .. Volume
      BY PipelineAssumption DEF Blocks, Init, Stage, Pipe
    <3> QED BY <3>1, <3>2
  <2>2. ASSUME NEW k \in 1 .. Volume
        PROVE  <<0, 1, k>> \in Blocks
    BY PipelineAssumption DEF Blocks, Init, Stage
  <2> QED BY <2>1, <2>2
<1>2. Conserved
  <2>1. Volume \in Nat
    BY PipelineAssumption
  <2>2. IsFiniteSet(Blocks) /\ Cardinality(Blocks) = Volume
    BY <1>1, <2>1, TaggedInterval
  <2> QED BY <2>2 DEF Conserved
<1> QED BY <1>2 DEF Init, Drained

\* The blocks stay where they are in the steps of the shell and in the end of
\* a program; a program that reads or writes moves one of them on.
LEMMA StepConserves == IInv /\ Conserved /\ [Next]_vars => Conserved'
<1> SUFFICES ASSUME IInv, Conserved, [Next]_vars PROVE Conserved'
  OBVIOUS
<1>1. CASE UNCHANGED <<buffer, pending, sink>>
  BY <1>1 DEF Conserved, Blocks
<1>2. ASSUME NEW i \in Stage, ReadBlock(i)
      PROVE  Conserved'
  <2> DEFINE x == <<1, i - 1, buffer[i - 1]>>
             y == <<0, i, 1>>
  <2>1. /\ i - 1 \in Pipe /\ i \in Nat /\ i - 1 \in Nat
        /\ buffer[i - 1] \in Nat /\ buffer[i - 1] > 0
        /\ pending[i] = 0 /\ sink' = sink
        /\ buffer' = [buffer EXCEPT ![i - 1] = @ - 1]
        /\ pending' = [pending EXCEPT ![i] = 1]
    BY <1>2, PipelineAssumption DEF ReadBlock, Stage, Pipe, IInv, TypeOK
  <2>2. /\ \A j \in Stage : pending'[j] = IF j = i THEN 1 ELSE pending[j]
        /\ \A j \in Pipe : buffer'[j] = IF j = i - 1 THEN buffer[j] - 1 ELSE buffer[j]
        /\ \A j \in Pipe : buffer[j] \in Nat
        /\ \A j \in Stage : pending[j] \in Nat
    BY <2>1, PipelineAssumption DEF IInv, TypeOK
  <2>3. x \in Blocks /\ y \notin Blocks
    BY <2>1 DEF Blocks
  <2>4. Blocks' = (Blocks \ {x}) \cup {y}
    <3>1. ASSUME NEW b \in Nat \X Nat \X Nat
          PROVE  b \in Blocks' <=> b \in (Blocks \ {x}) \cup {y}
      <4>1. b = x <=> b[1] = 1 /\ b[2] = i - 1 /\ b[3] = buffer[i - 1]
        OBVIOUS
      <4>2. b = y <=> b[1] = 0 /\ b[2] = i /\ b[3] = 1
        OBVIOUS
      <4> HIDE DEF x, y
      <4>3. CASE b[1] = 0
        BY <2>1, <2>2, <4>1, <4>2, <4>3 DEF Blocks
      <4>4. CASE b[1] = 1
        BY <2>1, <2>2, <4>1, <4>2, <4>4 DEF Blocks
      <4>5. CASE b[1] \notin {0, 1}
        BY <2>1, <4>1, <4>2, <4>5 DEF Blocks
      <4> QED BY <4>3, <4>4, <4>5
    <3>2. y \in Nat \X Nat \X Nat
      BY <2>1
    <3>3. Blocks \subseteq Nat \X Nat \X Nat /\ Blocks' \subseteq Nat \X Nat \X Nat
      BY DEF Blocks
    <3> HIDE DEF x, y
    <3> QED BY <3>1, <3>2, <3>3
  <2> HIDE DEF x, y
  <2> QED BY <2>3, <2>4, ExchangeOne DEF Conserved
<1>3. ASSUME NEW i \in Stage, WriteBlock(i)
      PROVE  Conserved'
  <2> DEFINE x == <<0, i, pending[i]>>
             y == IF i < N THEN <<1, i, buffer[i] + 1>> ELSE <<2, 0, sink + 1>>
  <2>1. /\ i \in Nat /\ sink \in Nat
        /\ i < N => i \in Pipe /\ buffer[i] \in Nat
        /\ pending[i] \in Nat /\ pending[i] > 0
        /\ pending' = [pending EXCEPT ![i] = @ - 1]
    BY <1>3, PipelineAssumption DEF WriteBlock, Stage, Pipe, IInv, TypeOK
  <2>2. /\ \A j \in Stage : pending'[j] = IF j = i THEN pending[j] - 1 ELSE pending[j]
        /\ \A j \in Pipe : buffer[j] \in Nat
        /\ \A j \in Stage : pending[j] \in Nat
    BY <2>1, PipelineAssumption DEF IInv, TypeOK
  <2>3. /\ i < N => /\ sink' = sink
                    /\ \A j \in Pipe : buffer'[j] = IF j = i THEN buffer[j] + 1
                                                            ELSE buffer[j]
        /\ ~(i < N) => sink' = sink + 1 /\ buffer' = buffer
    BY <1>3, <2>1, PipelineAssumption DEF WriteBlock, IInv, TypeOK, Stage
  <2>4. x \in Blocks /\ y \notin Blocks
    BY <2>1 DEF Blocks
  <2>5. Blocks' = (Blocks \ {x}) \cup {y}
    <3>1. ASSUME NEW b \in Nat \X Nat \X Nat
          PROVE  b \in Blocks' <=> b \in (Blocks \ {x}) \cup {y}
      <4>1. b = x <=> b[1] = 0 /\ b[2] = i /\ b[3] = pending[i]
        OBVIOUS
      <4>2. b = y <=> IF i < N THEN b[1] = 1 /\ b[2] = i /\ b[3] = buffer[i] + 1
                               ELSE b[1] = 2 /\ b[2] = 0 /\ b[3] = sink + 1
        OBVIOUS
      <4> HIDE DEF x, y
      <4>3. CASE b[1] = 0
        BY <2>1, <2>2, <4>1, <4>2, <4>3 DEF Blocks
      <4>4. CASE b[1] = 1
        BY <2>1, <2>2, <2>3, <4>1, <4>2, <4>4 DEF Blocks
      <4>5. CASE b[1] \notin {0, 1}
        BY <2>1, <2>3, <4>1, <4>2, <4>5 DEF Blocks
      <4> QED BY <4>3, <4>4, <4>5
    <3>2. y \in Nat \X Nat \X Nat
      BY <2>1
    <3>3. Blocks \subseteq Nat \X Nat \X Nat /\ Blocks' \subseteq Nat \X Nat \X Nat
      BY DEF Blocks
    <3> HIDE DEF x, y
    <3> QED BY <3>1, <3>2, <3>3
  <2> HIDE DEF x, y
  <2> QED BY <2>4, <2>5, ExchangeOne DEF Conserved
<1>4. ASSUME NEW i \in Stage, BrokenPipe(i) \/ EndOfWork(i) \/ Quit(i)
      PROVE  UNCHANGED <<buffer, pending, sink>>
  BY <1>4 DEF BrokenPipe, EndOfWork, Quit, Ends
<1>5. Shell => UNCHANGED <<buffer, pending, sink>>
  BY DEF Shell, OpenInput, InputFails, OpenOutput, OutputFails, StartStage, StartFails, CloseWriters,
         CloseReaders, Wait, WaitForNone, Return, programs
<1>6. UNCHANGED vars => UNCHANGED <<buffer, pending, sink>>
  BY DEF vars, programs
<1> QED BY <1>1, <1>2, <1>3, <1>4, <1>5, <1>6 DEF Next, Program, Returned

LEMMA StartedBefore ==
  ASSUME IInv, NEW i \in Stage, Started(i), i > 1
  PROVE  i - 1 \in Stage /\ Started(i - 1)
<1>1. i - 1 \in Stage /\ i \in Nat /\ i - 1 < i
  BY PipelineAssumption DEF Stage
<1>2. phase \notin {"build", "output"}
  BY DEF IInv, Building
<1>3. CASE phase = "start"
  BY <1>1, <1>3 DEF IInv, TypeOK, Starting, Started, Stage
<1>4. CASE phase # "start"
  BY <1>1, <1>2, <1>4 DEF IInv, TypeOK, InOrder
<1> QED BY <1>1, <1>3, <1>4

LEMMA StepDrains == IInv /\ Drained /\ [Next]_vars => Drained'
<1> SUFFICES ASSUME IInv, Drained, [Next]_vars,
                    NEW i \in Stage, proc'[i] \in {"exited", "waited"}, i \notin cut'
             PROVE  /\ pending'[i] = 0
                    /\ i > 1 => /\ buffer'[i - 1] = 0
                                /\ proc'[i - 1] \in {"exited", "waited"}
  BY DEF Drained
<1>a. i > 1 => i - 1 \in Stage /\ i - 1 \in Pipe /\ i \in Nat /\ i - 1 # i
  BY PipelineAssumption DEF Stage, Pipe
<1>b. /\ proc \in [Stage -> {"unborn", "running", "exited", "waited"}]
      /\ pending \in [Stage -> Nat] /\ buffer \in [Pipe -> 0 .. Capacity]
  BY DEF IInv, TypeOK
\* A step that moves no block and ends no program.
<1>c. ASSUME UNCHANGED <<buffer, pending, cut>>,
             \A j \in Stage : proc'[j] \in {"exited", "waited"} <=>
                                proc[j] \in {"exited", "waited"}
      PROVE  /\ pending'[i] = 0
             /\ i > 1 => /\ buffer'[i - 1] = 0
                         /\ proc'[i - 1] \in {"exited", "waited"}
  BY <1>a, <1>c DEF Drained
<1>1. CASE StartStage
  <2>1. /\ proc' = [proc EXCEPT ![at] = "running"] /\ proc[at] = "unborn" /\ at \in Stage
        /\ UNCHANGED <<buffer, pending, cut>>
    BY <1>1 DEF StartStage, IInv, TypeOK, Starting, Started, Stage
  <2> QED BY <1>b, <1>c, <2>1
<1>2. CASE Wait
  <2>1. /\ proc' = [proc EXCEPT ![at] = "waited"] /\ proc[at] = "exited" /\ at \in Stage
        /\ UNCHANGED <<buffer, pending, cut>>
    BY <1>2 DEF Wait, IInv, TypeOK
  <2> QED BY <1>b, <1>c, <2>1
<1>3. CASE UNCHANGED <<proc, buffer, pending, cut>>
  BY <1>3, <1>c
<1>4. Shell => StartStage \/ Wait \/ UNCHANGED <<proc, buffer, pending, cut>>
  BY DEF Shell, OpenInput, InputFails, OpenOutput, OutputFails, StartFails, CloseWriters, CloseReaders,
         WaitForNone, Return, programs
<1>5. ASSUME NEW j \in Stage, ReadBlock(j)
      PROVE  /\ pending'[i] = 0
             /\ i > 1 => /\ buffer'[i - 1] = 0
                         /\ proc'[i - 1] \in {"exited", "waited"}
  \* A program that still runs reads; one that has ended left nothing to read.
  <2>1. /\ proc' = proc /\ cut' = cut /\ proc[j] = "running" /\ i # j
        /\ pending'[i] = pending[i]
    BY <1>5, <1>b DEF ReadBlock, Running
  <2>2. i > 1 => buffer'[i - 1] = buffer[i - 1]
    <3>1. SUFFICES ASSUME i > 1 PROVE i - 1 # j - 1
      BY <1>5, <1>a, <1>b DEF ReadBlock
    <3> QED BY <2>1 DEF Stage
  <2> QED BY <2>1, <2>2 DEF Drained
<1>6. ASSUME NEW j \in Stage, WriteBlock(j)
      PROVE  /\ pending'[i] = 0
             /\ i > 1 => /\ buffer'[i - 1] = 0
                         /\ proc'[i - 1] \in {"exited", "waited"}
  \* Nobody is left to write to a program that has seen the end of its input.
  <2>1. /\ proc' = proc /\ cut' = cut /\ proc[j] = "running" /\ i # j
        /\ pending'[i] = pending[i]
    BY <1>6, <1>b DEF WriteBlock, Running
  <2>2. i > 1 => proc[i - 1] \in {"exited", "waited"}
    BY <2>1 DEF Drained
  <2>3. i > 1 => buffer'[i - 1] = buffer[i - 1]
    BY <1>6, <1>a, <1>b, <2>1, <2>2 DEF WriteBlock
  <2> QED BY <2>1, <2>3 DEF Drained
<1>7. ASSUME NEW j \in Stage, NEW status, Running(j), Ends(j, status)
      PROVE  /\ i # j => /\ pending'[i] = 0
                         /\ i > 1 => /\ buffer'[i - 1] = 0
                                     /\ proc'[i - 1] \in {"exited", "waited"}
             /\ UNCHANGED <<buffer, pending>>
             /\ \A k \in Stage : k # j => proc'[k] = proc[k]
  <2>1. /\ \A k \in Stage : proc'[k] = IF k = j THEN "exited" ELSE proc[k]
        /\ UNCHANGED <<buffer, pending>>
    BY <1>7, <1>b DEF Ends
  <2>2. i # j /\ i \notin cut => 
          /\ pending[i] = 0
          /\ i > 1 => buffer[i - 1] = 0 /\ proc[i - 1] \in {"exited", "waited"}
    BY <2>1 DEF Drained
  <2>3. i \notin cut
    <3>1. cut \subseteq cut'
      BY <1>7 DEF Next, Program, vars, shell, Shell, OpenInput, InputFails, OpenOutput, OutputFails, StartStage,
                  StartFails, CloseWriters, CloseReaders, Wait, WaitForNone, Return,
                  programs, ReadBlock, WriteBlock, BrokenPipe, EndOfWork, Quit, Returned
    <3> QED BY <3>1
  <2> QED BY <1>a, <2>1, <2>2, <2>3
<1>8. ASSUME NEW j \in Stage, BrokenPipe(j) \/ Quit(j)
      PROVE  /\ pending'[i] = 0
             /\ i > 1 => /\ buffer'[i - 1] = 0
                         /\ proc'[i - 1] \in {"exited", "waited"}
  <2>1. i # j
    BY <1>8 DEF BrokenPipe, Quit
  <2>2. PICK status : Running(j) /\ Ends(j, status)
    BY <1>8 DEF BrokenPipe, Quit
  <2> QED BY <2>1, <2>2, <1>7
<1>9. ASSUME NEW j \in Stage, EndOfWork(j)
      PROVE  /\ pending'[i] = 0
             /\ i > 1 => /\ buffer'[i - 1] = 0
                         /\ proc'[i - 1] \in {"exited", "waited"}
  <2>1. PICK status : Running(j) /\ Ends(j, status)
    BY <1>9 DEF EndOfWork
  <2>2. CASE i # j
    BY <1>7, <2>1, <2>2
  <2>3. CASE i = j
    <3>1. pending[i] = 0 /\ (i > 1 => buffer[i - 1] = 0 /\ ~Running(i - 1))
      BY <1>9, <2>3 DEF EndOfWork, EndOfInput, HasWriter
    <3>2. Started(i)
      BY <2>1, <2>3 DEF Started, Running
    <3>3. i > 1 => Started(i - 1)
      BY <3>2, StartedBefore
    <3>4. i > 1 => proc[i - 1] \in {"exited", "waited"}
      BY <1>a, <1>b, <3>1, <3>3 DEF Started, Running
    <3> QED BY <1>7, <1>a, <2>1, <2>3, <3>1, <3>4
  <2> QED BY <2>2, <2>3
<1>10. CASE UNCHANGED vars
  BY <1>3, <1>10 DEF vars, programs
<1> QED BY <1>1, <1>2, <1>3, <1>4, <1>5, <1>6, <1>8, <1>9, <1>10
        DEF Next, Program, Returned

(* When every program was started and did all its work, every block the     *)
(* first one wrote has come out at the end by the time runPipeline returns, *)
(* for any number of stages and however little the pipes hold.              *)
THEOREM NothingLost == Spec => []OutputComplete
<1>1. IInv /\ Conserved /\ Drained => OutputComplete
  <2> SUFFICES ASSUME IInv, Conserved, Drained,
                      phase = "returned", failure = 0, cut = {}
               PROVE  sink = Volume
    BY DEF OutputComplete
  <2>1. \A i \in Stage : proc[i] \in {"exited", "waited"}
    BY DEF IInv, Ending, InOrder, Started
  <2>2. \A i \in Stage : pending[i] = 0
    BY <2>1 DEF Drained
  <2>3. \A i \in Pipe : buffer[i] = 0
    <3> TAKE i \in Pipe
    <3>1. i + 1 \in Stage /\ i + 1 > 1 /\ (i + 1) - 1 = i
      BY PipelineAssumption DEF Stage, Pipe
    <3>2. buffer[(i + 1) - 1] = 0
      BY <2>1, <3>1 DEF Drained
    <3> QED BY <3>1, <3>2
  <2>4. sink \in Nat
    BY DEF IInv, TypeOK
  <2>5. \A b : b \in Blocks <=> \E k \in 1 .. sink : b = <<2, 0, k>>
    <3>1. ASSUME NEW b \in Blocks
          PROVE  \E k \in 1 .. sink : b = <<2, 0, k>>
      <4>1. b = <<b[1], b[2], b[3]>>
        BY DEF Blocks
      <4>2. b[1] = 2 /\ b[2] = 0 /\ b[3] \in 1 .. sink
        BY <2>2, <2>3 DEF Blocks
      <4> QED BY <4>1, <4>2
    <3>2. ASSUME NEW k \in 1 .. sink
          PROVE  <<2, 0, k>> \in Blocks
      BY <2>4 DEF Blocks
    <3> QED BY <3>1, <3>2
  <2>6. Cardinality(Blocks) = sink
    BY <2>4, <2>5, TaggedInterval
  <2> QED BY <2>6 DEF Conserved
<1>2. Spec => []Conserved
  BY InitConserved, StepConserves, Invariance, PTL DEF Spec
<1>3. Spec => []Drained
  BY InitConserved, StepDrains, Invariance, PTL DEF Spec
<1> QED BY <1>1, <1>2, <1>3, Invariance, PTL

=============================================================================
