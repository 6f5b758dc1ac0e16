----------------------------- MODULE Workspaces -----------------------------
(***************************************************************************)
(* The session of the shell: the list of workspaces the user moves         *)
(* between, the stack of scopes each workspace carries, and the directory  *)
(* the process is in.  It models the state commands of                     *)
(* workspace_commands.go, workspace.go and the built-in "cd" of main.go.   *)
(*                                                                         *)
(* The shell is sequential, so one command is one step.  The environment   *)
(* of the shell is the file system, in which other programs may remove and *)
(* restore directories between two commands.                               *)
(*                                                                         *)
(* Workspaces and scopes are heap objects in the code, reached by          *)
(* pointers.  A scope is an identifier here too and its contents live in   *)
(* the variable "scope", so that two workspaces could share one.  The "id" *)
(* of a workspace is the pointer: no command reads it, but the properties  *)
(* need to say that a workspace is still the same one.                     *)
(***************************************************************************)
EXTENDS Integers, Sequences, FiniteSets, SequencesExt

CONSTANTS
  WorkspaceIds,  \* bounds the workspaces open at a time
  ScopeIds,      \* bounds the scopes open at a time
  Paths,         \* directories
  Vanishing,     \* those that other programs may remove and restore
  StartDir,      \* where the shell was started
  NoLabel,       \* the empty string, the name of an unlabelled workspace
  Labels,        \* what the user gives to !label
  Words,         \* what the user gives to !switch, !close and !clone
  Index,         \* the number strconv.ParseUint reads in a word, if it is one
  ScopeNames,    \* what the user gives to "!new s" and !drop
  Keys,          \* variables
  Values,        \* their values
  Unset,         \* the absence of a value
  OsEnv,         \* the environment the shell inherited
  TokenWords,    \* the words Lex splits a value into, paths with home expanded
  FirstWord      \* the first of them, as it stands: "" when there is none

ASSUME DirectoriesAssumption ==
  /\ StartDir \in Paths
  /\ Vanishing \subseteq Paths

ASSUME WordsAssumption ==
  /\ DOMAIN Index \subseteq Words
  /\ \A w \in DOMAIN Index : Index[w] \in Nat

ASSUME ValuesAssumption ==
  /\ Unset \notin Values
  /\ OsEnv \in [Keys -> Values \cup {Unset}]
  /\ DOMAIN TokenWords = Values
  /\ DOMAIN FirstWord = Values

VARIABLES
  workspaces,     \* State.workspaces
  cur_workspace,  \* State.cur_workspace, an index from 0
  scope,          \* the contents of every Scope object
  cwd,            \* the working directory of the process
  dirs,           \* the directories that exist
  lastExitCode    \* State.lastExitCode, 0 or 1 after a state command

vars == <<workspaces, cur_workspace, scope, cwd, dirs, lastExitCode>>

-----------------------------------------------------------------------------

Scope == [name : ScopeNames \cup {""}, overrides : [Keys -> Values \cup {Unset}]]

NoOverrides == [k \in Keys |-> Unset]

\* The contents of an identifier that stands for no scope.
NoScope == [name |-> "", overrides |-> NoOverrides]

Workspace == [id     : WorkspaceIds,
              name   : Labels \cup {NoLabel},
              path   : Paths,
              scopes : Seq(ScopeIds)]

Positions == 0 .. Len(workspaces) - 1

At(i) == workspaces[i + 1]

Ids == {At(i).id : i \in Positions}

Owned(list) == UNION {ToSet(list[i].scopes) : i \in DOMAIN list}

\* Scopes that no workspace of the list reaches are garbage.
Collected(heap, list) ==
  [s \in ScopeIds |-> IF s \in Owned(list) THEN heap[s] ELSE NoScope]

HasCurrent == cur_workspace < Len(workspaces)

Current == At(cur_workspace)

OldestScope == Head(Current.scopes)   \* (a mutant of the next)
NewestScope == Last(Current.scopes)

SetCurrent(w) == [workspaces EXCEPT ![cur_workspace + 1] = w]

\* The word is a number and a workspace has it as its index.
IsIndex(word) == word \in DOMAIN Index /\ Index[word] \in Positions

Labelled(word) == {i \in Positions : At(i).name = word}

\* Where cur_workspace points once the workspace at i is closed.  The first two
\* are mutants: cur_workspace is left alone, or always decremented.
Unmoved(i) == cur_workspace
AlwaysDown(i) == cur_workspace - 1
AfterClose(i) == IF i < cur_workspace THEN cur_workspace - 1 ELSE cur_workspace

\* The scopes of a clone: new objects.  (The first is a mutant: the same ones.)
SameScopes(scopes) == {scopes}
NewScopes(scopes) == Injection(DOMAIN scopes, ScopeIds \ Owned(workspaces))

(***************************************************************************)
(* The value of a variable.  GetEnvValue, for the expansion of "$k" and    *)
(* for !set-ifn, looks it up key by key and splits it into words: all the  *)
(* words of an override, the first one of a value that was inherited.  It  *)
(* is the set of its answers: none, or one sequence of words.              *)
(***************************************************************************)
Overrides(s, k) == scope[s].overrides[k] # Unset

Overridden(k) == \E i \in DOMAIN Current.scopes : Overrides(Current.scopes[i], k)

InheritedWords(k) == IF OsEnv[k] = Unset THEN {} ELSE {<<FirstWord[OsEnv[k]]>>}

OldestValue(k) ==   \* (a mutant of the next)
  IF ~HasCurrent THEN {}
  ELSE LET i == SelectInSeq(Current.scopes, LAMBDA s : Overrides(s, k))
       IN IF i > 0
          THEN {TokenWords[scope[Current.scopes[i]].overrides[k]]}
          ELSE InheritedWords(k)

GetEnvValue(k) ==
  IF ~HasCurrent THEN {}
  ELSE LET i == SelectLastInSeq(Current.scopes, LAMBDA s : Overrides(s, k))
       IN IF i > 0
          THEN {TokenWords[scope[Current.scopes[i]].overrides[k]]}
          ELSE InheritedWords(k)

(***************************************************************************)
(* The environment of a child process is built twice: commandEnvironment   *)
(* builds it for the stages of a pipeline, runWithStdinPolicy for a command*)
(* on its own.  Both go through the scopes from the oldest to the newest.  *)
(***************************************************************************)
Override(env, s) ==
  [k \in Keys |-> IF Overrides(s, k) THEN scope[s].overrides[k] ELSE env[k]]

commandEnvironment ==
  IF HasCurrent THEN FoldLeft(Override, OsEnv, Current.scopes) ELSE OsEnv

singleCommandEnvironment ==
  IF ~HasCurrent THEN OsEnv
  ELSE FoldLeft(LAMBDA envMap, s : [k \in Keys |-> IF Overrides(s, k)
                                                   THEN scope[s].overrides[k]
                                                   ELSE envMap[k]],
                OsEnv, Current.scopes)

\* The entries the prompt marks with [H].
MarkedHere == {i \in Positions \ {cur_workspace} : At(i).path = cwd}

-----------------------------------------------------------------------------

Init ==
  /\ \E id \in WorkspaceIds :
       workspaces = <<[id |-> id, name |-> NoLabel,
                       path |-> StartDir, scopes |-> <<>>]>>
  /\ cur_workspace = 0
  /\ scope = [s \in ScopeIds |-> NoScope]
  /\ cwd = StartDir
  /\ dirs = Paths
  /\ lastExitCode = 0

(***************************************************************************)
(* A command that returns an error: its status is 1 and, in every case but *)
(* the failed !switch below, nothing else has changed.                     *)
(***************************************************************************)
Refuse ==
  /\ lastExitCode' = 1
  /\ UNCHANGED <<workspaces, cur_workspace, scope, cwd, dirs>>

\* Too few arguments, an unknown command, an unknown kind for !new.
Misused == Refuse

\* "!new w": a workspace on the current one's path, at the end of the list.
NewWorkspace ==
  \/ ~HasCurrent /\ Refuse
  \/ /\ HasCurrent
     /\ \E id \in WorkspaceIds \ Ids :
          workspaces' = Append(workspaces,
                               [id |-> id, name |-> NoLabel,
                                path |-> Current.path, scopes |-> <<>>])
     /\ lastExitCode' = 0
     /\ UNCHANGED <<cur_workspace, scope, cwd, dirs>>

\* "!new s name": a scope on top of the current workspace's.
NewScope(name) ==
  \/ ~HasCurrent /\ Refuse
  \/ /\ HasCurrent
     /\ \E s \in ScopeIds \ Owned(workspaces) :
          /\ workspaces' = SetCurrent([Current EXCEPT !.scopes = Append(@, s)])
          /\ scope' = [scope EXCEPT ![s] = [name      |-> name,
                                            overrides |-> NoOverrides]]
     /\ lastExitCode' = 0
     /\ UNCHANGED <<cur_workspace, cwd, dirs>>

\* "!switch word" where some workspace has that label: the first of them
\* becomes current.  The process stays in its directory.
SwitchToLabel(word) ==
  /\ Labelled(word) # {}
  /\ cur_workspace' = Min(Labelled(word))
  /\ lastExitCode' = 0
  /\ UNCHANGED <<workspaces, scope, cwd, dirs>>

\* (A mutant of the next: any failure to switch removes the current workspace.)
SwitchRemovesCurrent(word) ==
  /\ IsIndex(word)
  /\ At(Index[word]).path \notin dirs
  /\ workspaces' = RemoveAt(workspaces, cur_workspace + 1)
  /\ scope' = Collected(scope, workspaces')
  /\ lastExitCode' = 1
  /\ UNCHANGED <<cur_workspace, cwd, dirs>>

\* "!switch word" otherwise: by index, changing directory.  When the
\* directory cannot be entered the workspace is removed from the list and
\* cur_workspace is put back to what it was.
SwitchToIndex(word) ==
  /\ Labelled(word) = {}
  /\ \/ ~IsIndex(word) /\ Refuse
     \/ /\ IsIndex(word)
        /\ At(Index[word]).path \in dirs
        /\ cur_workspace' = Index[word]
        /\ cwd' = At(Index[word]).path
        /\ lastExitCode' = 0
        /\ UNCHANGED <<workspaces, scope, dirs>>
     \/ /\ IsIndex(word)
        /\ At(Index[word]).path \notin dirs
        /\ workspaces' = RemoveAt(workspaces, Index[word] + 1)
        /\ scope' = Collected(scope, workspaces')
        /\ lastExitCode' = 1
        /\ UNCHANGED <<cur_workspace, cwd, dirs>>

\* "!close word": any workspace but the current one.
Close(word) ==
  \/ (IsIndex(word) => Index[word] = cur_workspace) /\ Refuse
  \/ /\ IsIndex(word)
     /\ Index[word] # cur_workspace
     /\ cur_workspace' = AfterClose(Index[word])
     /\ workspaces' = RemoveAt(workspaces, Index[word] + 1)
     /\ scope' = Collected(scope, workspaces')
     /\ lastExitCode' = 0
     /\ UNCHANGED <<cwd, dirs>>

\* "!clone word": a copy at the end of the list, with copies of the scopes.
Clone(word) ==
  \/ ~IsIndex(word) /\ Refuse
  \/ /\ IsIndex(word)
     /\ LET ws == At(Index[word]) IN
        \E id \in WorkspaceIds \ Ids,
           copy \in NewScopes(ws.scopes) :
          /\ workspaces' = Append(workspaces,
                                  [ws EXCEPT !.id = id, !.scopes = copy])
          /\ scope' = [s \in ScopeIds |->
                         IF \E j \in DOMAIN copy : copy[j] = s
                         THEN scope[ws.scopes[CHOOSE j \in DOMAIN copy : copy[j] = s]]
                         ELSE scope[s]]
     /\ lastExitCode' = 0
     /\ UNCHANGED <<cur_workspace, cwd, dirs>>

\* "!drop name": the oldest scope of the current workspace with that name.
Drop(name) ==
  LET Named == {j \in DOMAIN Current.scopes :
                  scope[Current.scopes[j]].name = name}
  IN \/ (HasCurrent => Named = {}) /\ Refuse
     \/ /\ HasCurrent
        /\ Named # {}
        /\ workspaces' =
             SetCurrent([Current EXCEPT !.scopes = RemoveAt(@, Min(Named))])
        /\ scope' = Collected([scope EXCEPT
                       ![Current.scopes[Min(Named)]].overrides = NoOverrides],
                              workspaces')
        /\ lastExitCode' = 0
        /\ UNCHANGED <<cur_workspace, cwd, dirs>>

HasScope == HasCurrent /\ Current.scopes # <<>>

\* "!set k v": in the newest scope of the current workspace.
Set(k, v) ==
  \/ ~HasScope /\ Refuse
  \/ /\ HasScope
     /\ scope' = [scope EXCEPT ![NewestScope].overrides[k] = v]
     /\ lastExitCode' = 0
     /\ UNCHANGED <<workspaces, cur_workspace, cwd, dirs>>

\* "!set-ifn k v": the same, unless the variable already has a value.
SetIfn(k, v) ==
  \/ ~HasScope /\ Refuse
  \/ /\ HasScope
     /\ scope' = IF GetEnvValue(k) = {}
                 THEN [scope EXCEPT ![NewestScope].overrides[k] = v]
                 ELSE scope
     /\ lastExitCode' = 0
     /\ UNCHANGED <<workspaces, cur_workspace, cwd, dirs>>

\* "!label l".
Label(l) ==
  \/ ~HasCurrent /\ Refuse
  \/ /\ HasCurrent
     /\ workspaces' = SetCurrent([Current EXCEPT !.name = l])
     /\ lastExitCode' = 0
     /\ UNCHANGED <<cur_workspace, scope, cwd, dirs>>

\* (A mutant of the next: only the process moves.)
CdProcess(p) ==
  /\ p \in dirs
  /\ cwd' = p
  /\ lastExitCode' = 0
  /\ UNCHANGED <<workspaces, cur_workspace, scope, dirs>>

\* "cd p": the process and the current workspace, if there is one, move.
Cd(p) ==
  \/ p \notin dirs /\ Refuse
  \/ /\ p \in dirs
     /\ cwd' = p
     /\ workspaces' = IF HasCurrent
                      THEN SetCurrent([Current EXCEPT !.path = p])
                      ELSE workspaces
     /\ lastExitCode' = 0
     /\ UNCHANGED <<cur_workspace, scope, dirs>>

\* Another program removes or restores a directory.
Vanish(p) ==
  /\ p \in dirs
  /\ dirs' = dirs \ {p}
  /\ UNCHANGED <<workspaces, cur_workspace, scope, cwd, lastExitCode>>

Appear(p) ==
  /\ p \notin dirs
  /\ dirs' = dirs \cup {p}
  /\ UNCHANGED <<workspaces, cur_workspace, scope, cwd, lastExitCode>>

Next ==
  \/ Misused
  \/ NewWorkspace
  \/ \E name \in ScopeNames : NewScope(name) \/ Drop(name)
  \/ \E word \in Words : \/ SwitchToLabel(word)
                         \/ SwitchToIndex(word)
                         \/ Close(word)
                         \/ Clone(word)
  \/ \E k \in Keys, v \in Values : Set(k, v) \/ SetIfn(k, v)
  \/ \E l \in Labels : Label(l)
  \/ \E p \in Paths : Cd(p)
  \/ \E p \in Vanishing : Vanish(p) \/ Appear(p)

Spec == Init /\ [][Next]_vars

-----------------------------------------------------------------------------

\* Every variable stays in its set, and no two entries of the list are the
\* same workspace.
TypeOK ==
  /\ workspaces \in Seq(Workspace)
  /\ \A i, j \in DOMAIN workspaces : workspaces[i].id = workspaces[j].id => i = j
  /\ cur_workspace \in Nat
  /\ scope \in [ScopeIds -> Scope]
  /\ cwd \in Paths
  /\ dirs \in SUBSET Paths
  /\ lastExitCode \in {0, 1}

\* There is always a workspace at cur_workspace, the one every state command
\* works on (currentWorkspace), whatever was closed before it in the list.
\* So it is while no directory vanishes (CurrentAlwaysExists): a !switch that
\* fails may leave cur_workspace past the end of the list.
CurrentExists == HasCurrent

\* A scope belongs to one workspace, once: !clone copies every scope it finds
\* (Workspace.Clone), so nothing set in one workspace shows in another.
ScopesUnshared ==
  \A i, j \in DOMAIN workspaces :
    \A a \in DOMAIN workspaces[i].scopes, b \in DOMAIN workspaces[j].scopes :
      workspaces[i].scopes[a] = workspaces[j].scopes[b] => i = j /\ a = b

\* The commands the user types run in the directory the current workspace
\* shows.  A command that succeeds keeps it so, but for one: a !switch by label
\* changes cur_workspace alone (HereMarked says what becomes of the prompt).
OnlyLabelsPart ==
  [][HasCurrent /\ cwd = Current.path /\ lastExitCode' = 0
       => \/ HasCurrent' /\ cwd' = (Current.path)'
          \/ \E word \in Words : SwitchToLabel(word)]_vars

\* "The `[H]` indicates a workspace that is open in the same folder as our
\* current workspace." (README.md:45)
HereMarked ==
  HasCurrent =>
    MarkedHere = {i \in Positions \ {cur_workspace} : At(i).path = Current.path}

\* What "$k" expands to in a command is what a program started by the same
\* command finds in its environment, whether the command stands alone
\* (runWithStdinPolicy) or in a pipeline (commandEnvironment): the words of that
\* value where a scope gives it, its first word where it was inherited, and
\* nothing where there is none (GetEnvValue).
EnvironmentsAgree ==
  HasCurrent =>
    /\ singleCommandEnvironment = commandEnvironment
    /\ \A k \in Keys :
         LET seen == commandEnvironment[k]
         IN GetEnvValue(k) = IF seen = Unset THEN {}
                             ELSE IF Overridden(k) THEN {TokenWords[seen]}
                             ELSE {<<FirstWord[seen]>>}

\* Opening and closing workspaces never moves the session to another one:
\* !close renumbers the list and must follow it (cur_workspace--).  A !switch
\* that fails is another matter (NeverClosesCurrent).
SessionStays ==
  [][HasCurrent /\ Ids' # Ids /\ lastExitCode' = 0
       => HasCurrent' /\ Current.id = (Current.id)']_vars

\* !set, !set-ifn and !drop leave alone every scope but the newest one of the
\* current workspace and the one dropped: dropping the newest scope gives back
\* the environment that was in force before it was opened.
OlderScopesFrozen ==
  [][\A s \in Owned(workspaces) \cap Owned(workspaces') :
       (~HasScope \/ s # Last(Current.scopes)) => scope'[s] = scope[s]]_vars

\* The workspace at position i with the contents of its scopes.
View(i) ==
  [id     |-> workspaces[i].id,
   name   |-> workspaces[i].name,
   path   |-> workspaces[i].path,
   scopes |-> [j \in DOMAIN workspaces[i].scopes |-> scope[workspaces[i].scopes[j]]]]

\* A step of the session leaves every workspace but the current one as it
\* was, except that it may close it.
Isolation ==
  [][\A i \in DOMAIN workspaces :
       (workspaces[i].id \in Ids' /\ (HasCurrent => i # cur_workspace + 1))
         => \E j \in DOMAIN workspaces' : View(j)' = View(i)]_vars

\* A workspace that can still be entered disappears only by a !close of
\* another one: a !switch that fails drops nothing but a dead entry.
OnlyDeadEntriesDropped ==
  [][\A i \in DOMAIN workspaces :
       workspaces[i].id \notin Ids' /\ lastExitCode' = 1
         => workspaces[i].path \notin dirs]_vars

\* "You can not close a workspace you are currently in."
\* (workspace_commands.go:335)
NeverClosesCurrent == [][HasCurrent => Current.id \in Ids']_vars

=============================================================================
