---------------------------- MODULE PipelineCall ----------------------------
(***************************************************************************)
(* What the interpreter may rely on when it runs a pipeline of external    *)
(* commands: programs are started in the order of the stages, up to some   *)
(* stage; the call comes back, and when it does every program it started   *)
(* has ended; a call that could not start them all reports a failure, and  *)
(* one that could reports the status of the last stage, whatever the       *)
(* others did.                                                             *)
(***************************************************************************)
EXTENDS Integers

CONSTANT N   \* stages

VARIABLES
  launched,  \* how many programs have been started
  live,      \* those that have not been waited for
  last,      \* the exit status of the last stage, Pending until it has ended
  result     \* the status the call returned, Pending until it has

callVars == <<launched, live, last, result>>

Pending == -1
Failures == {1, 127}

CallInit ==
  /\ launched = 0
  /\ live = {}
  /\ last = Pending
  /\ result = Pending

Launch ==
  /\ result = Pending
  /\ launched < N
  /\ launched' = launched + 1
  /\ live' = live \cup {launched + 1}
  /\ UNCHANGED <<last, result>>

\* A program may end before the call gets round to waiting for it.
LastEnds ==
  /\ N \in live
  /\ last = Pending
  /\ last' \in {0, 1}
  /\ UNCHANGED <<launched, live, result>>

Reap(i) ==
  /\ i \in live
  /\ i = N => last # Pending
  /\ live' = live \ {i}
  /\ UNCHANGED <<launched, last, result>>

Return ==
  /\ result = Pending
  /\ live = {}
  /\ IF launched = N THEN result' = last ELSE result' \in Failures
  /\ UNCHANGED <<launched, live, last>>

CallNext == Launch \/ LastEnds \/ (\E i \in 1 .. N : Reap(i)) \/ Return

CallSafety == CallInit /\ [][CallNext]_callVars

CallSpec == CallSafety /\ <>(result # Pending)

=============================================================================
