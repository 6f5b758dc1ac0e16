---------------------------- MODULE Configuration ----------------------------
(***************************************************************************)
(* The configuration file, shared by the shells that run at a time: a      *)
(* shell creates default.cloth if it is missing, examines and reads it     *)
(* (ReadConfiguration, createDefaultClothIfMissing,                        *)
(* readProtectedDefaultCloth), and from then on keeps guard over it: it    *)
(* takes a copy before each prompt, compares after each command and puts   *)
(* the copy back when the user refuses the change (protect_default.go and  *)
(* the main loop).  A step is one call of the operating system, or one     *)
(* answer of the user.                                                     *)
(*                                                                         *)
(* A file is an inode that a directory leads to, since a file that has     *)
(* been opened is still there when another one takes its name.  Commands   *)
(* and other programs overwrite the file in one step, or give its name to  *)
(* a new file, or remove it.  Contents are a few values that the           *)
(* properties tell apart.                                                  *)
(***************************************************************************)
EXTENDS Integers, FiniteSets

CONSTANTS
  Shells,    \* interactive shells
  Relative,  \* those started with --cloth and a relative path
  Dirs,      \* directories, each with at most one default.cloth
  Home,      \* the configuration directory
  Inodes,    \* bounds the files that are reachable at a time
  Gone,      \* the absence of a file
  Versions,  \* what commands and other programs write
  Others     \* whether other programs write

ASSUME ConfigurationAssumption ==
  /\ Relative \subseteq Shells
  /\ Home \in Dirs
  /\ Gone \notin Inodes
  /\ Others \in BOOLEAN
  /\ Versions \cap {"empty", "generated", "mixed", "none"} = {}

VARIABLES
  path,     \* the file in each directory
  disk,     \* what is known of each file
  pc,       \* where each shell is
  again,    \* where ReadConfiguration returns to
  fd,       \* the file the shell has open
  cwd,      \* its working directory
  backup,   \* config_backup, "none" when oldConfigExists is false
  loaded,   \* the lines it runs (data) and their source
  origin,   \* history: the directory whose file it packaged
  verdict,  \* history: what became of the last change it noticed
  foreign   \* history: the shells with a copy from before somebody else wrote

vars ==
  <<path, disk, pc, again, fd, cwd, backup, loaded, origin, verdict, foreign>>

-----------------------------------------------------------------------------

Contents == Versions \cup {"empty", "generated", "mixed"}

\* ours: a regular file of the user's; private: nobody else has access to it.
File == [content : Contents, private : BOOLEAN, ours : BOOLEAN]

Blank == [content |-> "empty", private |-> FALSE, ours |-> FALSE]

ConfigDir(s) == IF s \in Relative THEN cwd[s] ELSE Home
ConfigFile(s) == path[ConfigDir(s)]

NoLines == [content |-> "none", source |-> "interactive"]

\* What is read under the name of the configuration, "none" if it cannot be.
ReadFile(s) ==
  IF ConfigFile(s) = Gone THEN "none" ELSE disk[ConfigFile(s)].content

InUse == {path[d] : d \in Dirs} \cup {fd[s] : s \in Shells}
Free == Inodes \ InUse

\* The files of d, but for those that nothing leads to any more.
Reclaimed(d) == [i \in Inodes |-> IF i \in InUse' THEN d[i] ELSE Blank]

\* What a file holds after a write at its beginning: the file was emptied, or
\* has been written by somebody else since.
Overlay(content, new) == IF content = "empty" THEN {new} ELSE {new, "mixed"}

At(s, place) == pc[s] = place
Goto(s, place) == pc' = [pc EXCEPT ![s] = place]
Open(s, i) == fd' = [fd EXCEPT ![s] = i]
KeepOpen(s) == fd' = fd   \* (a mutant of the next)
CloseFile(s) == Open(s, Gone)
Write(i, content) == disk' = [disk EXCEPT ![i].content = content]
WriteAndClose(s, content) ==
  disk' = Reclaimed([disk EXCEPT ![fd[s]].content = content])

loop == <<backup, origin, verdict>>

\* A shell in W, or a command it runs, changes a file.
WrittenBy(W) == foreign' = foreign \cup {s \in Shells \ W : backup[s] # "none"}

Init ==
  /\ path \in [Dirs -> Inodes \cup {Gone}]
  /\ \A d, e \in Dirs : path[d] = path[e] /\ path[d] # Gone => d = e
  /\ cwd \in [Shells -> {Home}]
  /\ \A s \in Relative : ConfigFile(s) # Gone   \* validateSelectedCloth
  /\ disk \in [Inodes -> File]
  /\ \A i \in Inodes : i \notin {path[d] : d \in Dirs} => disk[i] = Blank
  /\ pc = [s \in Shells |-> IF s \in Relative THEN "plain" ELSE "create"]
  /\ again = [s \in Shells |-> "package"]
  /\ fd = [s \in Shells |-> Gone]
  /\ backup = [s \in Shells |-> "none"]
  /\ loaded = [s \in Shells |-> NoLines]
  /\ origin = [s \in Shells |-> Home]
  /\ verdict = [s \in Shells |-> "none"]
  /\ foreign = {}

-----------------------------------------------------------------------------
(* ReadConfiguration, at the start and in !reset. *)

\* No directory can be made, or the file cannot be created.
CreateFails(s) ==
  /\ At(s, "create")
  /\ Goto(s, again[s])
  /\ UNCHANGED <<path, disk, again, fd, cwd, loaded, loop, foreign>>

CreateFile(s) ==
  /\ At(s, "create")
  /\ \/ /\ ConfigFile(s) # Gone
        /\ Goto(s, "examine")
        /\ UNCHANGED <<path, disk, fd, foreign>>
     \/ /\ ConfigFile(s) = Gone
        /\ \E i \in Free :
             /\ path' = [path EXCEPT ![Home] = i]
             /\ Open(s, i)
             /\ disk' = [disk EXCEPT ![i] = [content |-> "empty", private |-> TRUE,
                                             ours |-> TRUE]]
        /\ Goto(s, "write")
        /\ WrittenBy({s})
  /\ UNCHANGED <<again, cwd, loaded, loop>>

WriteGenerated(s) ==
  /\ At(s, "write")
  /\ UNCHANGED <<path, again, cwd, loaded, loop>>
  /\ CloseFile(s)
  /\ \E new \in Overlay(disk[fd[s]].content, "generated") : WriteAndClose(s, new)
  /\ WrittenBy({s})
  /\ Goto(s, "examine")

\* The file is removed by its name, if it can be, and nothing is read.
WriteFails(s) ==
  /\ At(s, "write")
  /\ UNCHANGED <<again, cwd, loaded, loop>>
  /\ CloseFile(s)
  /\ path' \in {path, [path EXCEPT ![Home] = Gone]}
  /\ disk' = Reclaimed(disk)
  /\ WrittenBy({s})
  /\ Goto(s, again[s])

OpenProtected(s) ==
  /\ At(s, "examine")
  /\ ConfigFile(s) # Gone
  /\ disk[ConfigFile(s)].ours
  /\ Open(s, ConfigFile(s))
  /\ Goto(s, "restrict")
  /\ UNCHANGED <<path, disk, again, cwd, loaded, loop, foreign>>

RestrictMode(s) ==
  /\ At(s, "restrict")
  /\ disk' = [disk EXCEPT ![fd[s]].private = TRUE]
  /\ Goto(s, "read")
  /\ UNCHANGED <<path, again, fd, cwd, loaded, loop, foreign>>

\* What was examined is what is read.  (The first is a mutant: the file that
\* has the name by then.)
ReadByName(s) == IF ConfigFile(s) = Gone THEN fd[s] ELSE ConfigFile(s)
Examined(s) == fd[s]

ReadProtected(s) ==
  /\ At(s, "read")
  /\ UNCHANGED <<path, again, cwd, loop, foreign>>
  /\ loaded' = [loaded EXCEPT ![s] = [content |-> disk[Examined(s)].content,
                                      source  |-> "default.cloth"]]
  /\ CloseFile(s)
  /\ disk' = Reclaimed(disk)
  /\ Goto(s, "lines")

\* The directory or the file is not the user's alone and cannot be made so, or
\* the file cannot be read: its lines are treated as any file's.
NotProtected(s) ==
  /\ pc[s] \in {"examine", "restrict", "read"}
  /\ UNCHANGED <<path, again, cwd, loaded, loop, foreign>>
  /\ CloseFile(s)
  /\ disk' = Reclaimed(disk)
  /\ Goto(s, "plain")

ReadPlain(s) ==
  /\ At(s, "plain")
  /\ loaded' = [loaded EXCEPT ![s] =
       [content |-> ReadFile(s),
        source  |-> IF s \in Relative THEN "development.cloth" ELSE ".cloth"]]
  /\ Goto(s, "lines")
  /\ UNCHANGED <<path, disk, again, fd, cwd, loop, foreign>>

\* The lines are run (module Shell) and forgotten.
RunLines(s) ==
  /\ At(s, "lines")
  /\ loaded' = [loaded EXCEPT ![s] = NoLines]
  /\ Goto(s, again[s])
  /\ UNCHANGED <<path, disk, again, fd, cwd, loop, foreign>>

-----------------------------------------------------------------------------
(* The main loop. *)

PackageConfiguration(s) ==
  /\ At(s, "package")
  /\ backup' = [backup EXCEPT ![s] = ReadFile(s)]
  /\ origin' = [origin EXCEPT ![s] = ConfigDir(s)]
  /\ verdict' = [verdict EXCEPT ![s] = "none"]
  /\ foreign' = foreign \ {s}
  /\ Goto(s, "prompt")
  /\ UNCHANGED <<path, disk, again, fd, cwd, loaded>>

\* A command, an empty line, or "exit".
Enter(s) ==
  /\ At(s, "prompt")
  /\ \E next \in {"running", "package", "exited"} : Goto(s, next)
  /\ UNCHANGED <<path, disk, again, fd, cwd, loaded, loop, foreign>>

\* A command of the user or of the configuration is running.
Runs(s) == pc[s] \in {"running", "lines"}

ChangeDir(s) ==
  /\ Runs(s)
  /\ \E d \in Dirs : cwd' = [cwd EXCEPT ![s] = d]
  /\ UNCHANGED <<path, disk, pc, again, fd, loaded, loop, foreign>>

Reset(s) ==
  /\ At(s, "running")
  /\ again' = [again EXCEPT ![s] = "running"]
  /\ Goto(s, IF s \in Relative THEN "plain" ELSE "create")
  /\ UNCHANGED <<path, disk, fd, cwd, loaded, loop, foreign>>

CommandEnds(s) ==
  /\ At(s, "running")
  /\ Goto(s, IF backup[s] = "none" THEN "package" ELSE "compare")
  /\ UNCHANGED <<path, disk, again, fd, cwd, loaded, loop, foreign>>

HasConfigChanged(s) == ReadFile(s) \notin {"none", backup[s]}

Compare(s) ==
  /\ At(s, "compare")
  /\ Goto(s, IF HasConfigChanged(s) THEN "ask" ELSE "package")
  /\ UNCHANGED <<path, disk, again, fd, cwd, loaded, loop, foreign>>

\* "y", or anything but "n", or no answer.
Keep(s) ==
  /\ At(s, "ask")
  /\ verdict' = [verdict EXCEPT ![s] = "kept"]
  /\ Goto(s, "package")
  /\ UNCHANGED <<path, disk, again, fd, cwd, backup, loaded, origin, foreign>>

\* RestoreConfiguration first empties the file, or makes a new one.
OpenRestored(s) ==
  /\ At(s, "ask")
  /\ \/ /\ ConfigFile(s) # Gone
        /\ Open(s, ConfigFile(s))
        /\ Write(ConfigFile(s), "empty")
        /\ path' = path
     \/ /\ ConfigFile(s) = Gone
        /\ \E i \in Free :
             /\ path' = [path EXCEPT ![ConfigDir(s)] = i]
             /\ Open(s, i)
             /\ disk' = [disk EXCEPT ![i] = [content |-> "empty", private |-> FALSE,
                                             ours |-> TRUE]]
  /\ WrittenBy({s})
  /\ Goto(s, "restore")
  /\ UNCHANGED <<again, cwd, loaded, loop>>

\* (A mutant of the next: the file is written with what was compared.)
NoCopy(s) == ReadFile(s)
Restored(s) == backup[s]

WriteRestored(s) ==
  /\ At(s, "restore")
  /\ UNCHANGED <<path, again, cwd, backup, loaded, origin>>
  /\ CloseFile(s)
  /\ \E new \in Overlay(disk[fd[s]].content, Restored(s)) : WriteAndClose(s, new)
  /\ WrittenBy({s})
  /\ verdict' = [verdict EXCEPT ![s] = "undone"]
  /\ Goto(s, "package")

\* The file cannot be opened or written; the user is told.
RestoreFails(s) ==
  /\ pc[s] \in {"ask", "restore"}
  /\ UNCHANGED <<path, again, cwd, backup, loaded, origin, foreign>>
  /\ CloseFile(s)
  /\ disk' = Reclaimed(disk)
  /\ verdict' = [verdict EXCEPT ![s] = "failed"]
  /\ Goto(s, "package")

-----------------------------------------------------------------------------
(* The commands and the other programs that change configuration files. *)

Overwrite(d) ==
  /\ path[d] # Gone
  /\ \E v \in Versions : Write(path[d], v)
  /\ path' = path

Replace(d) ==
  \E i \in Free, v \in Versions, private, ours \in BOOLEAN :
    /\ path' = [path EXCEPT ![d] = i]
    /\ disk' = Reclaimed([disk EXCEPT ![i] = [content |-> v, private |-> private,
                                              ours |-> ours]])

Remove(d) ==
  /\ path[d] # Gone
  /\ path' = [path EXCEPT ![d] = Gone]
  /\ disk' = Reclaimed(disk)

Edit ==
  /\ \E d \in Dirs : fd' = fd /\ (Overwrite(d) \/ Replace(d) \/ Remove(d))
  /\ UNCHANGED <<pc, again, cwd, loaded, loop>>

Elsewhere == Others /\ Edit /\ WrittenBy({})
Command(s) == Runs(s) /\ Edit /\ WrittenBy({s})

-----------------------------------------------------------------------------

Read(s) ==
  \/ CreateFails(s) \/ CreateFile(s) \/ WriteGenerated(s) \/ WriteFails(s)
  \/ OpenProtected(s) \/ RestrictMode(s) \/ ReadProtected(s)
  \/ NotProtected(s) \/ ReadPlain(s) \/ RunLines(s)

Guard(s) ==
  \/ PackageConfiguration(s) \/ CommandEnds(s) \/ Compare(s) \/ Keep(s)
  \/ OpenRestored(s) \/ WriteRestored(s) \/ RestoreFails(s)

User(s) == Enter(s) \/ ChangeDir(s) \/ Reset(s) \/ Command(s)

Next ==
  \/ \E s \in Shells : Read(s) \/ Guard(s) \/ User(s)
  \/ Elsewhere

Stopped == (\A s \in Shells : At(s, "exited")) /\ UNCHANGED vars

Spec == Init /\ [][Next \/ Stopped]_vars

-----------------------------------------------------------------------------

\* Every variable stays in its set; a file is open exactly where the code has
\* it open, so that none is left so on any path.
TypeOK ==
  /\ path \in [Dirs -> Inodes \cup {Gone}]
  /\ disk \in [Inodes -> File]
  /\ pc \in [Shells -> {"create", "write", "examine", "restrict", "read", "plain", "lines",
                        "package", "prompt", "running", "compare", "ask",
                        "restore", "exited"}]
  /\ again \in [Shells -> {"package", "running"}]
  /\ fd \in [Shells -> Inodes \cup {Gone}]
  /\ \A s \in Shells :
       fd[s] # Gone <=> pc[s] \in {"write", "restrict", "read", "restore"}
  /\ cwd \in [Shells -> Dirs]
  /\ origin \in [Shells -> Dirs]
  /\ backup \in [Shells -> Contents \cup {"none"}]
  /\ loaded \in [Shells -> [content : Contents \cup {"none"},
                            source  : {"interactive", "default.cloth", ".cloth",
                                       "development.cloth"}]]
  /\ verdict \in [Shells -> {"none", "kept", "undone", "failed"}]
  /\ foreign \subseteq Shells

\* Lines run as those of default.cloth come from a file that was examined: the
\* user's own, and private by then, whatever takes its name in the meantime.
ExaminedBeforeTrusted ==
  [][\A s \in Shells :
       loaded'[s] # loaded[s] /\ loaded'[s].source = "default.cloth" =>
         \E i \in Inodes : disk[i].ours /\ disk[i].private
                             /\ disk[i].content = loaded'[s].content]_vars

\* As long as there is a configuration, it is at a prompt what it was at the
\* prompt before, unless somebody else wrote it meanwhile, or the user was asked
\* and did not refuse the change, or was told that it could not be undone.
NothingUnasked ==
  [][\A s \in Shells :
       At(s, "package") /\ verdict[s] \notin {"kept", "failed"} /\ s \notin foreign =>
         "none" \in {backup[s], ReadFile(s)} \/ ReadFile(s) = backup[s]]_vars

\* "Your configuration file has changed. Keep the changes? [y/n]"
\* (protect_default.go:176)
AskedMeansChanged ==
  [][\A s \in Shells :
       At(s, "compare") /\ At(s, "ask")' /\ path[origin[s]] # Gone =>
         disk[path[origin[s]]].content # backup[s]]_vars

=============================================================================
