------------------------ MODULE Configuration_proofs ------------------------
(***************************************************************************)
(* Theorems about Configuration, for any number of shells, directories,    *)
(* files and contents.                                                     *)
(***************************************************************************)
EXTENDS Configuration, TLAPS

(***************************************************************************)
(* The inductive invariant: what readProtectedDefaultCloth has established *)
(* of the file it has open, at each place; and that there is a copy        *)
(* wherever RestoreConfiguration can be on the way, without which it could *)
(* write anything.                                                         *)
(***************************************************************************)
Protecting ==
  \A s \in Shells :
    /\ pc[s] \in {"restrict", "read"} => disk[fd[s]].ours
    /\ pc[s] = "read" => disk[fd[s]].private

BackedUp ==
  \A s \in Shells : pc[s] \in {"compare", "ask", "restore"} => backup[s] # "none"

IInv == TypeOK /\ Protecting /\ BackedUp

-----------------------------------------------------------------------------

\* A file that something leads to is not reclaimed; the others are blank.
LEMMA ReclaimedTyped ==
  ASSUME NEW d \in [Inodes -> File]
  PROVE  /\ Reclaimed(d) \in [Inodes -> File]
         /\ \A i \in Inodes : i \in InUse' => Reclaimed(d)[i] = d[i]
BY DEF Reclaimed, Blank, File, Contents

\* A file that the configuration's name leads to, and what is read under it.
LEMMA ConfigTyped ==
  ASSUME TypeOK, NEW s \in Shells
  PROVE  /\ ConfigDir(s) \in Dirs
         /\ ConfigFile(s) \in Inodes \cup {Gone}
         /\ ReadFile(s) \in Contents \cup {"none"}
BY ConfigurationAssumption DEF TypeOK, ConfigDir, ConfigFile, ReadFile, File

\* An open file is in use after any step that leaves it open.
LEMMA OpenInUse ==
  ASSUME NEW s \in Shells, fd'[s] = fd[s]
  PROVE  fd[s] \in InUse'
BY DEF InUse

LEMMA InitInvariant == Init => IInv
BY ConfigurationAssumption
   DEF Init, IInv, TypeOK, Protecting, BackedUp, NoLines, Contents, File, Blank

\* A write changes the contents of a file and nothing else.
LEMMA WriteTyped ==
  ASSUME NEW d \in [Inodes -> File], NEW i \in Inodes, NEW c \in Contents
  PROVE  /\ [d EXCEPT ![i].content = c] \in [Inodes -> File]
         /\ \A j \in Inodes : /\ [d EXCEPT ![i].content = c][j].ours = d[j].ours
                              /\ [d EXCEPT ![i].content = c][j].private = d[j].private
<1>1. [d[i] EXCEPT !.content = c] \in File
  BY DEF File
<1>2. /\ [d[i] EXCEPT !.content = c].ours = d[i].ours
      /\ [d[i] EXCEPT !.content = c].private = d[i].private
  BY DEF File
<1> QED  BY <1>1, <1>2

LEMMA OverlayTyped ==
  ASSUME NEW content \in Contents, NEW new \in Contents, NEW v \in Overlay(content, new)
  PROVE  v \in Contents
BY DEF Overlay, Contents

-----------------------------------------------------------------------------
(* Steps of ReadConfiguration. *)

LEMMA ReadKeepsType ==
  ASSUME TypeOK, NEW s \in Shells, Read(s)
  PROVE  TypeOK'
<1> USE ConfigurationAssumption
<1>1. CASE CreateFails(s)
  BY <1>1 DEF CreateFails, TypeOK, At, Goto, loop
<1>2. CASE CreateFile(s)
  <2>1. CASE ConfigFile(s) # Gone
    <3>1. /\ pc' = [pc EXCEPT ![s] = "examine"]
          /\ pc[s] = "create"
          /\ UNCHANGED <<path, disk, fd, again, cwd, loaded, loop, foreign>>
      BY <1>2, <2>1 DEF CreateFile, Goto, At
    <3> QED  BY <3>1 DEF TypeOK, loop
  <2>2. CASE ConfigFile(s) = Gone
    <3>1. PICK i \in Free :
            /\ path' = [path EXCEPT ![Home] = i]
            /\ Open(s, i)
            /\ disk' = [disk EXCEPT ![i] = [content |-> "empty", private |-> TRUE,
                                            ours |-> TRUE]]
      BY <1>2, <2>2 DEF CreateFile
    <3>2. i \in Inodes
      BY DEF Free
    <3>3. disk' \in [Inodes -> File]
      <4>1. [content |-> "empty", private |-> TRUE, ours |-> TRUE] \in File
        BY DEF File, Contents
      <4> QED  BY <3>1, <3>2, <4>1 DEF TypeOK
    <3>4. pc' = [pc EXCEPT ![s] = "write"]
      BY <1>2, <2>2 DEF CreateFile, Goto
    <3> QED  BY <1>2, <3>1, <3>2, <3>3, <3>4
             DEF CreateFile, TypeOK, At, loop, Open, WrittenBy
  <2> QED  BY <2>1, <2>2
<1>3. CASE WriteGenerated(s)
  <2>1. PICK new \in Overlay(disk[fd[s]].content, "generated") : WriteAndClose(s, new)
    BY <1>3 DEF WriteGenerated
  <2>2. new \in Contents
    <3>1. disk[fd[s]].content \in Contents
      BY <1>3 DEF WriteGenerated, At, TypeOK, File
    <3>2. "generated" \in Contents
      BY DEF Contents
    <3> QED  BY <2>1, <3>1, <3>2, OverlayTyped
  <2>3. [disk EXCEPT ![fd[s]].content = new] \in [Inodes -> File]
    <3>1. disk \in [Inodes -> File] /\ fd[s] \in Inodes
      BY <1>3 DEF WriteGenerated, At, TypeOK
    <3> QED  BY <3>1, <2>2, WriteTyped
  <2>4. disk' \in [Inodes -> File]
    BY <2>1, <2>3, ReclaimedTyped DEF WriteAndClose
  <2> QED  BY <1>3, <2>4 
           DEF WriteGenerated, TypeOK, At, Goto, loop, CloseFile, Open, WrittenBy
<1>4. CASE WriteFails(s)
  <2>1. disk' \in [Inodes -> File]
    BY <1>4, ReclaimedTyped DEF WriteFails, TypeOK
  <2>2. path' \in [Dirs -> Inodes \cup {Gone}]
    BY <1>4 DEF WriteFails, TypeOK
  <2>3. /\ pc' = [pc EXCEPT ![s] = again[s]]
        /\ fd' = [fd EXCEPT ![s] = Gone]
        /\ again[s] \in {"package", "running"}
        /\ UNCHANGED <<again, cwd, loaded, loop>>
        /\ foreign' \subseteq Shells
    BY <1>4 DEF WriteFails, TypeOK, Goto, CloseFile, Open, WrittenBy
  <2> QED  BY <2>1, <2>2, <2>3 DEF TypeOK, loop
<1>5. CASE OpenProtected(s)
  BY <1>5, ConfigTyped DEF OpenProtected, TypeOK, At, Goto, loop, Open
<1>6. CASE RestrictMode(s)
  <2>1. fd[s] \in Inodes /\ disk' = [disk EXCEPT ![fd[s]].private = TRUE]
    BY <1>6 DEF RestrictMode, TypeOK, At
  <2>2. disk' \in [Inodes -> File]
    <3>1. [disk[fd[s]] EXCEPT !.private = TRUE] \in File
      <4>1. disk[fd[s]] \in File
        BY <2>1 DEF TypeOK
      <4> QED  BY <4>1 DEF File
    <3> QED  BY <2>1, <3>1 DEF TypeOK
  <2> QED  BY <1>6, <2>2 DEF RestrictMode, TypeOK, At, Goto, loop
<1>7. CASE ReadProtected(s)
  <2>1. disk' \in [Inodes -> File]
    BY <1>7, ReclaimedTyped DEF ReadProtected, TypeOK
  <2>2. disk[Examined(s)].content \in Contents
    BY <1>7 DEF ReadProtected, Examined, At, TypeOK, File
  <2> QED  BY <1>7, <2>1, <2>2
           DEF ReadProtected, TypeOK, At, Goto, loop, CloseFile, Open
<1>8. CASE NotProtected(s)
  <2>1. disk' \in [Inodes -> File]
    BY <1>8, ReclaimedTyped DEF NotProtected, TypeOK
  <2> QED  BY <1>8, <2>1 DEF NotProtected, TypeOK, At, Goto, loop, CloseFile, Open
<1>9. CASE ReadPlain(s)
  <2>1. ReadFile(s) \in Contents \cup {"none"}
    BY ConfigTyped
  <2> QED  BY <1>9, <2>1 DEF ReadPlain, TypeOK, At, Goto, loop
<1>10. CASE RunLines(s)
  BY <1>10 DEF RunLines, TypeOK, At, Goto, loop, NoLines
<1> QED  BY <1>1, <1>2, <1>3, <1>4, <1>5, <1>6, <1>7, <1>8, <1>9, <1>10 DEF Read

-----------------------------------------------------------------------------
(* Steps of the main loop, of the user and of other programs. *)

LEMMA GuardKeepsType ==
  ASSUME TypeOK, BackedUp, NEW s \in Shells, Guard(s)
  PROVE  TypeOK'
<1> USE ConfigurationAssumption
<1>1. CASE PackageConfiguration(s)
  BY <1>1, ConfigTyped DEF PackageConfiguration, TypeOK, At, Goto
<1>2. CASE CommandEnds(s)
  BY <1>2 DEF CommandEnds, TypeOK, At, Goto, loop
<1>3. CASE Compare(s)
  BY <1>3 DEF Compare, TypeOK, At, Goto, loop
<1>4. CASE Keep(s)
  BY <1>4 DEF Keep, TypeOK, At, Goto
<1>5. CASE OpenRestored(s)
  <2>1. CASE ConfigFile(s) # Gone
    <3>1. ConfigFile(s) \in Inodes
      BY <2>1, ConfigTyped
    <3>2. disk' \in [Inodes -> File]
      <4>1. disk' = [disk EXCEPT ![ConfigFile(s)].content = "empty"]
        BY <1>5, <2>1 DEF OpenRestored, Write
      <4>2. "empty" \in Contents
        BY DEF Contents
      <4>3. disk \in [Inodes -> File]
        BY DEF TypeOK
      <4> QED  BY <3>1, <4>1, <4>2, <4>3, WriteTyped
    <3>3. /\ pc' = [pc EXCEPT ![s] = "restore"]
          /\ pc[s] = "ask"
          /\ fd' = [fd EXCEPT ![s] = ConfigFile(s)]
          /\ UNCHANGED <<path, again, cwd, loaded, loop>>
          /\ foreign' \subseteq Shells
      BY <1>5, <2>1 DEF OpenRestored, Goto, At, Open, TypeOK, WrittenBy
    <3> QED  BY <3>1, <3>2, <3>3 DEF TypeOK, loop
  <2>2. CASE ConfigFile(s) = Gone
    <3>1. PICK i \in Free :
            /\ path' = [path EXCEPT ![ConfigDir(s)] = i]
            /\ Open(s, i)
            /\ disk' = [disk EXCEPT ![i] = [content |-> "empty", private |-> FALSE,
                                            ours |-> TRUE]]
      BY <1>5, <2>2 DEF OpenRestored
    <3>2. i \in Inodes
      BY DEF Free
    <3>3. disk' \in [Inodes -> File]
      <4>1. [content |-> "empty", private |-> FALSE, ours |-> TRUE] \in File
        BY DEF File, Contents
      <4> QED  BY <3>1, <3>2, <4>1 DEF TypeOK
    <3>4. /\ pc' = [pc EXCEPT ![s] = "restore"]
          /\ pc[s] = "ask"
          /\ fd' = [fd EXCEPT ![s] = i]
          /\ UNCHANGED <<again, cwd, loaded, loop>>
          /\ foreign' \subseteq Shells
      BY <1>5, <3>1 DEF OpenRestored, Goto, At, Open, TypeOK, WrittenBy
    <3>5. path' \in [Dirs -> Inodes \cup {Gone}]
      BY <3>1, <3>2 DEF TypeOK
    <3> QED  BY <3>2, <3>3, <3>4, <3>5 DEF TypeOK, loop
  <2> QED  BY <2>1, <2>2
<1>6. CASE WriteRestored(s)
  <2>1. PICK new \in Overlay(disk[fd[s]].content, Restored(s)) : WriteAndClose(s, new)
    BY <1>6 DEF WriteRestored
  <2>2. disk \in [Inodes -> File] /\ fd[s] \in Inodes
    BY <1>6 DEF WriteRestored, At, TypeOK
  <2>3. disk' \in [Inodes -> File]
    <3>1. new \in Contents
      <4>1. Restored(s) \in Contents
        BY <1>6 DEF WriteRestored, At, Restored, BackedUp, TypeOK
      <4>2. disk[fd[s]].content \in Contents
        BY <2>2 DEF File
      <4> QED  BY <2>1, <4>1, <4>2, OverlayTyped
    <3>2. [disk EXCEPT ![fd[s]].content = new] \in [Inodes -> File]
      BY <2>2, <3>1, WriteTyped
    <3> QED  BY <2>1, <3>2, ReclaimedTyped DEF WriteAndClose
  <2> QED  BY <1>6, <2>3
           DEF WriteRestored, TypeOK, At, Goto, CloseFile, Open, WrittenBy
<1>7. CASE RestoreFails(s)
  <2>1. disk' \in [Inodes -> File]
    BY <1>7, ReclaimedTyped DEF RestoreFails, TypeOK
  <2> QED  BY <1>7, <2>1 DEF RestoreFails, TypeOK, At, Goto, CloseFile, Open
<1> QED  BY <1>1, <1>2, <1>3, <1>4, <1>5, <1>6, <1>7 DEF Guard

LEMMA UserKeepsType ==
  ASSUME TypeOK, NEW s \in Shells, Enter(s) \/ ChangeDir(s) \/ Reset(s)
  PROVE  TypeOK'
<1>1. CASE Enter(s)
  BY <1>1 DEF Enter, TypeOK, At, Goto, loop
<1>2. CASE ChangeDir(s)
  BY <1>2 DEF ChangeDir, TypeOK, loop
<1>3. CASE Reset(s)
  BY <1>3 DEF Reset, TypeOK, At, Goto, loop
<1> QED  BY <1>1, <1>2, <1>3

LEMMA EditKeepsType ==
  ASSUME TypeOK, Edit, NEW W, WrittenBy(W)
  PROVE  TypeOK'
<1> USE ConfigurationAssumption
<1> SUFFICES path' \in [Dirs -> Inodes \cup {Gone}] /\ disk' \in [Inodes -> File]
  BY DEF Edit, TypeOK, loop, WrittenBy
<1> PICK d \in Dirs : Overwrite(d) \/ Replace(d) \/ Remove(d)
  BY DEF Edit
<1>1. CASE Overwrite(d)
  <2>1. PICK v \in Versions : disk' = [disk EXCEPT ![path[d]].content = v]
    BY <1>1 DEF Overwrite, Write
  <2>2. path[d] \in Inodes
    BY <1>1 DEF Overwrite, TypeOK
  <2> QED  BY <1>1, <2>1, <2>2, WriteTyped DEF Overwrite, TypeOK, Contents
<1>2. CASE Replace(d)
  <2>1. PICK i \in Free, v \in Versions, private \in BOOLEAN, ours \in BOOLEAN :
          /\ path' = [path EXCEPT ![d] = i]
          /\ disk' = Reclaimed([disk EXCEPT ![i] = [content |-> v, private |-> private,
                                                    ours |-> ours]])
    BY <1>2 DEF Replace
  <2>2. i \in Inodes
    BY DEF Free
  <2>3. [disk EXCEPT ![i] = [content |-> v, private |-> private, ours |-> ours]]
          \in [Inodes -> File]
    BY <2>2 DEF TypeOK, File, Contents
  <2> QED  BY <2>1, <2>2, <2>3, ReclaimedTyped DEF TypeOK
<1>3. CASE Remove(d)
  BY <1>3, ReclaimedTyped DEF Remove, TypeOK
<1> QED  BY <1>1, <1>2, <1>3

LEMMA TypeKept == IInv /\ [Next \/ Stopped]_vars => TypeOK'
<1> SUFFICES ASSUME IInv, [Next \/ Stopped]_vars PROVE TypeOK'
  OBVIOUS
<1>1. ASSUME NEW s \in Shells, Read(s) \/ Guard(s) \/ User(s) PROVE TypeOK'
  BY <1>1, ReadKeepsType, GuardKeepsType, UserKeepsType, EditKeepsType
     DEF IInv, User, Command
<1>2. CASE Elsewhere
  BY <1>2, EditKeepsType DEF IInv, Elsewhere
<1>3. CASE UNCHANGED vars
  BY <1>3 DEF IInv, TypeOK, vars
<1> QED  BY <1>1, <1>2, <1>3 DEF Next, Stopped

LEMMA BackupKept == IInv /\ [Next \/ Stopped]_vars => BackedUp'
<1> SUFFICES ASSUME IInv, [Next \/ Stopped]_vars PROVE BackedUp'
  OBVIOUS
<1>1. ASSUME NEW s \in Shells, Read(s) PROVE BackedUp'
  BY <1>1 DEF IInv, TypeOK, BackedUp, Read, CreateFails, CreateFile, WriteGenerated,
              WriteFails, OpenProtected, RestrictMode, ReadProtected, NotProtected,
              ReadPlain, RunLines, At, Goto, loop
<1>2. ASSUME NEW s \in Shells, Guard(s) PROVE BackedUp'
  BY <1>2 DEF IInv, TypeOK, BackedUp, Guard, PackageConfiguration, CommandEnds, Compare,
              Keep, OpenRestored, WriteRestored, RestoreFails, At, Goto, loop
<1>3. ASSUME NEW s \in Shells, User(s) PROVE BackedUp'
  BY <1>3 DEF IInv, TypeOK, BackedUp, User, Enter, ChangeDir, Reset, Command, Edit, At,
              Goto, loop
<1>4. CASE Elsewhere
  BY <1>4 DEF IInv, BackedUp, Elsewhere, Edit, loop
<1>5. CASE UNCHANGED vars
  BY <1>5 DEF IInv, BackedUp, vars
<1> QED  BY <1>1, <1>2, <1>3, <1>4, <1>5 DEF Next, Stopped

-----------------------------------------------------------------------------
(* What was established of an open file stays so while it is open. *)

\* A file keeps its owner, and stays private if it was.
Unloosened(i) ==
  /\ disk'[i].ours = disk[i].ours
  /\ disk[i].private => disk'[i].private

LEMMA ProtectingKept ==
  ASSUME Protecting,
         \A s \in Shells : pc'[s] \in {"restrict", "read"} =>
           pc'[s] = pc[s] /\ fd'[s] = fd[s] /\ Unloosened(fd[s])
  PROVE  Protecting'
BY DEF Protecting, Unloosened

\* The files that shells still have open are reclaimed by no step.
LEMMA ReclaimedUnloosened ==
  ASSUME TypeOK, NEW d \in [Inodes -> File], disk' = Reclaimed(d),
         NEW s \in Shells, fd[s] \in Inodes, fd'[s] = fd[s],
         d[fd[s]].ours = disk[fd[s]].ours, d[fd[s]].private = disk[fd[s]].private
  PROVE  Unloosened(fd[s])
BY ReclaimedTyped, OpenInUse DEF Unloosened

\* A step that closes the file of s and may write to it.
LEMMA ClosingKeeps ==
  ASSUME TypeOK, Protecting, NEW s \in Shells, CloseFile(s),
         NEW place, place \notin {"restrict", "read"}, Goto(s, place),
         \/ disk' = Reclaimed(disk)
         \/ /\ fd[s] \in Inodes
            /\ \E c \in Contents : disk' = Reclaimed([disk EXCEPT ![fd[s]].content = c])
  PROVE  Protecting'
<1> SUFFICES ASSUME NEW t \in Shells, pc'[t] \in {"restrict", "read"}
             PROVE  pc'[t] = pc[t] /\ fd'[t] = fd[t] /\ Unloosened(fd[t])
  BY ProtectingKept
<1>1. pc'[t] = pc[t] /\ fd'[t] = fd[t]
  BY DEF Goto, CloseFile, Open, TypeOK
<1>2. fd[t] \in Inodes
  BY <1>1 DEF TypeOK
<1>3. CASE disk' = Reclaimed(disk)
  BY <1>1, <1>2, <1>3, ReclaimedUnloosened DEF TypeOK
<1>4. ASSUME fd[s] \in Inodes, NEW c \in Contents,
             disk' = Reclaimed([disk EXCEPT ![fd[s]].content = c])
      PROVE  Unloosened(fd[t])
  <2> DEFINE d == [disk EXCEPT ![fd[s]].content = c]
  <2>1. /\ d \in [Inodes -> File]
        /\ d[fd[t]].ours = disk[fd[t]].ours
        /\ d[fd[t]].private = disk[fd[t]].private
    BY <1>2, <1>4, WriteTyped DEF TypeOK
  <2> HIDE DEF d
  <2>2. disk' = Reclaimed(d)
    BY <1>4 DEF d
  <2> QED  BY <1>1, <1>2, <2>1, <2>2, ReclaimedUnloosened
<1> QED  BY <1>1, <1>3, <1>4

\* A step that leaves the files alone, or only writes to one.
LEMMA WritingKeeps ==
  ASSUME TypeOK, Protecting,
         \A t \in Shells : pc'[t] \in {"restrict", "read"} =>
                             pc'[t] = pc[t] /\ fd'[t] = fd[t],
         \/ disk' = disk
         \/ \E i \in Inodes, c \in Contents : disk' = [disk EXCEPT ![i].content = c]
         \/ \E i \in Free : \E f \in File : disk' = [disk EXCEPT ![i] = f]
  PROVE  Protecting'
<1> SUFFICES ASSUME NEW t \in Shells, pc'[t] \in {"restrict", "read"}
             PROVE  Unloosened(fd[t])
  BY ProtectingKept
<1>1. fd[t] \in Inodes
  BY DEF TypeOK
<1>2. CASE disk' = disk
  BY <1>2 DEF Unloosened
<1>3. ASSUME NEW i \in Inodes, NEW c \in Contents, disk' = [disk EXCEPT ![i].content = c]
      PROVE  Unloosened(fd[t])
  BY <1>1, <1>3, WriteTyped DEF Unloosened, TypeOK
<1>4. ASSUME NEW i \in Free, NEW f \in File, disk' = [disk EXCEPT ![i] = f]
      PROVE  Unloosened(fd[t])
  BY <1>1, <1>4 DEF Unloosened, TypeOK, Free, InUse
<1> QED  BY <1>2, <1>3, <1>4

LEMMA ReadKeepsProtecting ==
  ASSUME IInv, NEW s \in Shells, Read(s)
  PROVE  Protecting'
<1> USE DEF IInv
<1>1. CASE CreateFails(s) \/ ReadPlain(s) \/ RunLines(s)
  <2>1. disk' = disk /\ fd' = fd
    BY <1>1 DEF CreateFails, ReadPlain, RunLines
  <2>2. \A t \in Shells : pc'[t] \in {"restrict", "read"} => pc'[t] = pc[t]
    BY <1>1 DEF CreateFails, ReadPlain, RunLines, Goto, TypeOK
  <2> QED  BY <2>1, <2>2, WritingKeeps
<1>2. CASE CreateFile(s)
  <2>1. \A t \in Shells : pc'[t] \in {"restrict", "read"} =>
                            pc'[t] = pc[t] /\ fd'[t] = fd[t]
    BY <1>2 DEF CreateFile, Goto, Open, TypeOK
  <2>2. \/ disk' = disk
        \/ \E i \in Free : \E f \in File : disk' = [disk EXCEPT ![i] = f]
    BY <1>2 DEF CreateFile, File, Contents
  <2> QED  BY <2>1, <2>2, WritingKeeps
<1>3. CASE WriteGenerated(s)
  <2>1. PICK new \in Overlay(disk[fd[s]].content, "generated") : WriteAndClose(s, new)
    BY <1>3 DEF WriteGenerated
  <2>2. fd[s] \in Inodes
    BY <1>3 DEF WriteGenerated, At, TypeOK
  <2>3. new \in Contents
    <3>1. disk[fd[s]].content \in Contents
      BY <2>2 DEF TypeOK, File
    <3>2. "generated" \in Contents
      BY DEF Contents
    <3> QED  BY <2>1, <3>1, <3>2, OverlayTyped
  <2>4. CloseFile(s) /\ Goto(s, "examine")
    BY <1>3 DEF WriteGenerated
  <2> QED  BY <2>1, <2>2, <2>3, <2>4, ClosingKeeps DEF WriteAndClose
<1>4. CASE WriteFails(s)
  <2>1. CloseFile(s) /\ Goto(s, again[s]) /\ disk' = Reclaimed(disk)
    BY <1>4 DEF WriteFails
  <2>2. again[s] \notin {"restrict", "read"}
    BY DEF TypeOK
  <2> QED  BY <2>1, <2>2, ClosingKeeps
<1>5. CASE OpenProtected(s)
  \* The file examined is the user's own.
  <2>1. /\ disk' = disk
        /\ disk[fd'[s]].ours
        /\ pc' = [pc EXCEPT ![s] = "restrict"]
        /\ fd' = [fd EXCEPT ![s] = ConfigFile(s)]
    BY <1>5 DEF OpenProtected, Goto, Open, TypeOK
  <2> QED  BY <2>1 DEF Protecting, TypeOK
<1>6. CASE RestrictMode(s)
  \* From here on it is private as well.
  <2>1. /\ disk' = [disk EXCEPT ![fd[s]].private = TRUE]
        /\ pc' = [pc EXCEPT ![s] = "read"]
        /\ fd' = fd
        /\ pc[s] = "restrict"
        /\ fd[s] \in Inodes
    BY <1>6 DEF RestrictMode, Goto, At, TypeOK
  <2>2. \A i \in Inodes : /\ disk'[i].ours = disk[i].ours
                           /\ (disk[i].private \/ i = fd[s]) => disk'[i].private
    BY <2>1 DEF TypeOK, File
  <2> QED  BY <2>1, <2>2 DEF Protecting, TypeOK
<1>7. CASE ReadProtected(s)
  <2>1. CloseFile(s) /\ Goto(s, "lines") /\ disk' = Reclaimed(disk)
    BY <1>7 DEF ReadProtected
  <2> QED  BY <2>1, ClosingKeeps
<1>8. CASE NotProtected(s)
  <2>1. CloseFile(s) /\ Goto(s, "plain") /\ disk' = Reclaimed(disk)
    BY <1>8 DEF NotProtected
  <2> QED  BY <2>1, ClosingKeeps
<1> QED  BY <1>1, <1>2, <1>3, <1>4, <1>5, <1>6, <1>7, <1>8 DEF Read

LEMMA GuardKeepsProtecting ==
  ASSUME IInv, NEW s \in Shells, Guard(s)
  PROVE  Protecting'
<1> USE DEF IInv
<1>1. CASE PackageConfiguration(s) \/ CommandEnds(s) \/ Compare(s) \/ Keep(s)
  <2>1. disk' = disk /\ fd' = fd
    BY <1>1 DEF PackageConfiguration, CommandEnds, Compare, Keep
  <2>2. \A t \in Shells : pc'[t] \in {"restrict", "read"} => pc'[t] = pc[t]
    BY <1>1 DEF PackageConfiguration, CommandEnds, Compare, Keep, Goto, TypeOK
  <2> QED  BY <2>1, <2>2, WritingKeeps
<1>2. CASE OpenRestored(s)
  <2>1. \A t \in Shells : pc'[t] \in {"restrict", "read"} =>
                            pc'[t] = pc[t] /\ fd'[t] = fd[t]
    BY <1>2 DEF OpenRestored, Goto, Open, TypeOK
  <2>2. \/ \E i \in Inodes, c \in Contents : disk' = [disk EXCEPT ![i].content = c]
        \/ \E i \in Free : \E f \in File : disk' = [disk EXCEPT ![i] = f]
    <3>1. CASE ConfigFile(s) # Gone
      <4>1. ConfigFile(s) \in Inodes /\ "empty" \in Contents
        BY <3>1, ConfigTyped DEF Contents
      <4>2. disk' = [disk EXCEPT ![ConfigFile(s)].content = "empty"]
        BY <1>2, <3>1 DEF OpenRestored, Write
      <4> QED  BY <4>1, <4>2
    <3>2. CASE ConfigFile(s) = Gone
      BY <1>2, <3>2 DEF OpenRestored, File, Contents
    <3> QED  BY <3>1, <3>2
  <2> QED  BY <2>1, <2>2, WritingKeeps
<1>3. CASE WriteRestored(s)
  <2>1. PICK new \in Overlay(disk[fd[s]].content, Restored(s)) : WriteAndClose(s, new)
    BY <1>3 DEF WriteRestored
  <2>2. fd[s] \in Inodes
    BY <1>3 DEF WriteRestored, At, TypeOK
  <2>3. new \in Contents
    <3>1. Restored(s) \in Contents
      BY <1>3 DEF WriteRestored, At, Restored, BackedUp, TypeOK
    <3>2. disk[fd[s]].content \in Contents
      BY <2>2 DEF TypeOK, File
    <3> QED  BY <2>1, <3>1, <3>2, OverlayTyped
  <2>4. CloseFile(s) /\ Goto(s, "package")
    BY <1>3 DEF WriteRestored
  <2> QED  BY <2>1, <2>2, <2>3, <2>4, ClosingKeeps DEF WriteAndClose
<1>4. CASE RestoreFails(s)
  <2>1. CloseFile(s) /\ Goto(s, "package") /\ disk' = Reclaimed(disk)
    BY <1>4 DEF RestoreFails
  <2> QED  BY <2>1, ClosingKeeps
<1> QED  BY <1>1, <1>2, <1>3, <1>4 DEF Guard

LEMMA UserKeepsProtecting ==
  ASSUME IInv, NEW s \in Shells, Enter(s) \/ ChangeDir(s) \/ Reset(s)
  PROVE  Protecting'
<1>1. disk' = disk /\ fd' = fd
  BY DEF Enter, ChangeDir, Reset, loop
<1>2. \A t \in Shells : pc'[t] \in {"restrict", "read"} => pc'[t] = pc[t]
  BY DEF Enter, ChangeDir, Reset, Goto, IInv, TypeOK
<1> QED  BY <1>1, <1>2, WritingKeeps DEF IInv

LEMMA EditKeepsProtecting ==
  ASSUME IInv, Edit
  PROVE  Protecting'
<1> USE DEF IInv
<1>1. PICK d \in Dirs : Overwrite(d) \/ Replace(d) \/ Remove(d)
  BY DEF Edit
<1>2. fd' = fd /\ pc' = pc
  BY DEF Edit
<1>3. CASE Overwrite(d)
  <2>1. PICK v \in Versions : disk' = [disk EXCEPT ![path[d]].content = v]
    BY <1>3 DEF Overwrite, Write
  <2>2. path[d] \in Inodes /\ v \in Contents
    BY <1>3 DEF Overwrite, TypeOK, Contents
  <2> QED  BY <1>2, <2>1, <2>2, WritingKeeps
<1>4. CASE Replace(d) \/ Remove(d)
  <2>1. PICK g \in [Inodes -> File] :
          /\ disk' = Reclaimed(g)
          /\ \A i \in Inodes \ Free : g[i] = disk[i]
    <3>1. CASE Replace(d)
      <4>1. PICK i \in Free, f \in File : disk' = Reclaimed([disk EXCEPT ![i] = f])
        BY <3>1 DEF Replace, File, Contents
      <4>2. [disk EXCEPT ![i] = f] \in [Inodes -> File]
        BY DEF TypeOK, Free
      <4>3. \A j \in Inodes \ Free : [disk EXCEPT ![i] = f][j] = disk[j]
        BY DEF TypeOK
      <4> QED  BY <4>1, <4>2, <4>3
    <3>2. CASE Remove(d)
      BY <3>2 DEF Remove, TypeOK
    <3> QED  BY <1>4, <3>1, <3>2
  <2> SUFFICES ASSUME NEW t \in Shells, pc[t] \in {"restrict", "read"}
               PROVE  Unloosened(fd[t])
    BY <1>2, ProtectingKept
  <2>2. fd[t] \in Inodes \ Free
    BY DEF TypeOK, Free, InUse
  <2> QED  BY <1>2, <2>1, <2>2, ReclaimedUnloosened
<1> QED  BY <1>1, <1>3, <1>4

-----------------------------------------------------------------------------

LEMMA NextInvariant == IInv /\ [Next \/ Stopped]_vars => IInv'
<1> SUFFICES ASSUME IInv, [Next \/ Stopped]_vars PROVE IInv'
  OBVIOUS
<1>1. Protecting'
  <2>1. ASSUME NEW s \in Shells, Read(s) \/ Guard(s) \/ User(s) PROVE Protecting'
    BY <2>1, ReadKeepsProtecting, GuardKeepsProtecting, UserKeepsProtecting,
       EditKeepsProtecting DEF User, Command
  <2>2. CASE Elsewhere
    BY <2>2, EditKeepsProtecting DEF Elsewhere
  <2>3. CASE UNCHANGED vars
    BY <2>3 DEF IInv, Protecting, vars
  <2> QED  BY <2>1, <2>2, <2>3 DEF Next, Stopped
<1> QED  BY <1>1, TypeKept, BackupKept DEF IInv

LEMMA Invariance == Spec => []IInv
BY InitInvariant, NextInvariant, PTL DEF Spec

\* The guard and the reading of the configuration never leave a file open, and
\* RestoreConfiguration never writes without a copy, for any number of shells
\* and whatever other programs do meanwhile.
THEOREM TypeCorrect == Spec => []TypeOK
<1>1. IInv => TypeOK
  BY DEF IInv
<1> QED  BY <1>1, Invariance, PTL

\* The step in which a shell takes lines from a file as those of default.cloth.
LEMMA TakesExamined ==
  ASSUME IInv, [Next \/ Stopped]_vars, NEW s \in Shells,
         loaded'[s] # loaded[s], loaded'[s].source = "default.cloth"
  PROVE  \E i \in Inodes : /\ disk[i].ours /\ disk[i].private
                           /\ disk[i].content = loaded'[s].content
<1> USE DEF IInv
<1>1. ReadProtected(s)
  <2>1. ASSUME NEW t \in Shells, Guard(t) \/ User(t) PROVE FALSE
    BY <2>1 DEF Guard, PackageConfiguration, CommandEnds, Compare, Keep, OpenRestored,
                WriteRestored, RestoreFails, User, Enter, ChangeDir, Reset, Command, Edit,
                loop
  <2>2. ASSUME NEW t \in Shells, Read(t) PROVE ReadProtected(s)
    <3>1. CASE ReadProtected(t)
      <4>1. /\ loaded \in [Shells -> [content : Contents \cup {"none"},
                                      source  : {"interactive", "default.cloth",
                                                 ".cloth", "development.cloth"}]]
            /\ \E l : loaded' = [loaded EXCEPT ![t] = l]
        BY <3>1 DEF ReadProtected, TypeOK
      <4>2. t = s
        BY <4>1
      <4> QED  BY <3>1, <4>2
    <3>2. CASE ReadPlain(t) \/ RunLines(t)
      BY <3>2 DEF ReadPlain, RunLines, NoLines, TypeOK
    <3>3. CASE ~ReadProtected(t) /\ ~ReadPlain(t) /\ ~RunLines(t)
      BY <2>2, <3>3 DEF Read, CreateFails, CreateFile, WriteGenerated, WriteFails,
                        OpenProtected, RestrictMode, NotProtected
    <3> QED  BY <3>1, <3>2, <3>3
  <2>3. ~Elsewhere /\ ~UNCHANGED vars
    BY DEF Elsewhere, Edit, vars
  <2> QED  BY <2>1, <2>2, <2>3 DEF Next, Stopped
<1>2. fd[s] \in Inodes /\ disk[fd[s]].ours /\ disk[fd[s]].private
  BY <1>1 DEF ReadProtected, At, TypeOK, Protecting
<1>3. loaded'[s].content = disk[fd[s]].content
  BY <1>1 DEF ReadProtected, Examined, TypeOK
<1> QED  BY <1>2, <1>3

\* Whatever replaces default.cloth between the checks and the read, what a
\* shell runs as its lines is the content of a file of the user's that nobody
\* else can write to: the lines that may trust executables (!trust) are those.
THEOREM TrustedLinesExamined == Spec => ExaminedBeforeTrusted
<1>1. IInv /\ [Next \/ Stopped]_vars =>
        [\A s \in Shells :
           loaded'[s] # loaded[s] /\ loaded'[s].source = "default.cloth" =>
             \E i \in Inodes : disk[i].ours /\ disk[i].private
                                 /\ disk[i].content = loaded'[s].content]_vars
  BY TakesExamined
<1> QED  BY <1>1, Invariance, PTL DEF Spec, ExaminedBeforeTrusted

-----------------------------------------------------------------------------
(***************************************************************************)
(* What RestoreConfiguration and the comparison rest on: where a shell is  *)
(* about to compare, the file is what its copy says, unless somebody else  *)
(* wrote meanwhile; and the file it is restoring is the configuration, and *)
(* empty.  While lines are run at the start there is no copy yet, so that  *)
(* what they change is not compared with one.                              *)
(***************************************************************************)
Reading == {"create", "write", "examine", "restrict", "read", "plain", "lines"}

AsCopied(s) == "none" \in {backup[s], ReadFile(s)} \/ ReadFile(s) = backup[s]

Guarded(s) ==
  /\ pc[s] \in Reading /\ again[s] = "package" => backup[s] = "none"
  /\ s \notin foreign =>
       /\ pc[s] = "prompt" => AsCopied(s)
       /\ pc[s] = "package" /\ verdict[s] \notin {"kept", "failed"} => AsCopied(s)
       /\ pc[s] = "restore" => /\ fd[s] = ConfigFile(s)
                               /\ disk[fd[s]].content = "empty"

Guarding == \A s \in Shells : Guarded(s)

\* A step that neither changes the configuration of s nor what it holds.
Calm(s) ==
  /\ path' = path
  /\ ConfigFile(s) # Gone =>
       disk'[ConfigFile(s)].content = disk[ConfigFile(s)].content

\* A step that leaves s where it is, with what it knows.
Bystander(s) ==
  /\ pc'[s] = pc[s] /\ again'[s] = again[s] /\ fd'[s] = fd[s] /\ cwd'[s] = cwd[s]
  /\ backup'[s] = backup[s] /\ verdict'[s] = verdict[s]

\* Steps that write no contents are calm, though they reclaim files.
LEMMA CalmSteps ==
  ASSUME TypeOK, NEW s \in Shells, path' = path,
         \/ disk' = disk
         \/ disk' = Reclaimed(disk)
         \/ \E i \in Inodes : disk' = [disk EXCEPT ![i].private = TRUE]
  PROVE  Calm(s)
<1> SUFFICES ASSUME ConfigFile(s) # Gone
             PROVE  disk'[ConfigFile(s)].content = disk[ConfigFile(s)].content
  BY DEF Calm
<1>1. ConfigFile(s) \in Inodes /\ ConfigDir(s) \in Dirs
  BY ConfigTyped
<1>2. CASE disk' = disk
  BY <1>2
<1>3. CASE disk' = Reclaimed(disk)
  <2>1. ConfigFile(s) \in InUse'
    BY <1>1 DEF InUse, ConfigFile
  <2> QED  BY <1>1, <1>3, <2>1, ReclaimedTyped DEF TypeOK
<1>4. ASSUME NEW i \in Inodes, disk' = [disk EXCEPT ![i].private = TRUE]
      PROVE  disk'[ConfigFile(s)].content = disk[ConfigFile(s)].content
  BY <1>1, <1>4 DEF TypeOK, File
<1> QED  BY <1>2, <1>3, <1>4

\* What the others do is calm, or s is marked, or has nothing to compare.
LEMMA GuardedMeanwhile ==
  ASSUME IInv, NEW s \in Shells, Guarded(s), Bystander(s),
         \/ backup[s] = "none"
         \/ s \in foreign'
         \/ Calm(s) /\ (s \in foreign => s \in foreign')
  PROVE  Guarded(s)'
<1>1. CASE backup[s] = "none"
  BY <1>1 DEF Guarded, Bystander, AsCopied, IInv, BackedUp
<1>2. CASE s \in foreign'
  BY <1>2 DEF Guarded, Bystander
<1>3. CASE Calm(s) /\ (s \in foreign => s \in foreign')
  <2>1. ConfigFile(s)' = ConfigFile(s)
    BY <1>3 DEF Calm, Bystander, ConfigFile, ConfigDir
  <2>2. ReadFile(s)' = ReadFile(s)
    BY <1>3, <2>1 DEF Calm, ReadFile
  <2>3. AsCopied(s)' <=> AsCopied(s)
    BY <2>2 DEF AsCopied, Bystander
  <2>4. pc[s] = "restore" => fd[s] \in Inodes
    BY DEF IInv, TypeOK
  <2>5. pc[s] = "restore" /\ fd[s] = ConfigFile(s) =>
          disk'[fd[s]].content = disk[fd[s]].content
    BY <1>3, <2>4, ConfigurationAssumption DEF Calm
  <2>6. s \notin foreign' => s \notin foreign
    BY <1>3
  <2> QED  BY <2>1, <2>3, <2>5, <2>6 DEF Guarded, Bystander
<1> QED  BY <1>1, <1>2, <1>3

\* Whoever writes marks the shells with a copy.
LEMMA MarkedByWriters ==
  ASSUME NEW W, WrittenBy(W), NEW s \in Shells \ W
  PROVE  backup[s] = "none" \/ s \in foreign'
BY DEF WrittenBy

-----------------------------------------------------------------------------
(* Steps of another shell. *)

LEMMA OthersReadKeepsGuarded ==
  ASSUME IInv, NEW s \in Shells, Guarded(s), NEW t \in Shells \ {s}, Read(t)
  PROVE  Guarded(s)'
<1> USE DEF IInv
<1>1. Bystander(s)
  BY DEF Bystander, Read, CreateFails, CreateFile, WriteGenerated, WriteFails,
         OpenProtected, RestrictMode, ReadProtected, NotProtected, ReadPlain, RunLines,
         Goto, Open, CloseFile, loop, TypeOK
<1>2. CASE WriteGenerated(t) \/ WriteFails(t)
  BY <1>1, <1>2, MarkedByWriters, GuardedMeanwhile DEF WriteGenerated, WriteFails
<1>3. CASE CreateFile(t)
  <2>1. CASE ConfigFile(t) = Gone
    BY <1>1, <1>3, <2>1, MarkedByWriters, GuardedMeanwhile DEF CreateFile
  <2>2. CASE ConfigFile(t) # Gone
    <3>1. path' = path /\ disk' = disk /\ foreign' = foreign
      BY <1>3, <2>2 DEF CreateFile
    <3> QED  BY <1>1, <3>1, CalmSteps, GuardedMeanwhile
  <2> QED  BY <2>1, <2>2
<1>4. CASE CreateFails(t) \/ OpenProtected(t) \/ ReadPlain(t) \/ RunLines(t)
  <2>1. path' = path /\ disk' = disk /\ foreign' = foreign
    BY <1>4 DEF CreateFails, OpenProtected, ReadPlain, RunLines
  <2> QED  BY <1>1, <2>1, CalmSteps, GuardedMeanwhile
<1>5. CASE ReadProtected(t) \/ NotProtected(t)
  <2>1. path' = path /\ disk' = Reclaimed(disk) /\ foreign' = foreign
    BY <1>5 DEF ReadProtected, NotProtected
  <2> QED  BY <1>1, <2>1, CalmSteps, GuardedMeanwhile
<1>6. CASE RestrictMode(t)
  <2>1. fd[t] \in Inodes
    BY <1>6 DEF RestrictMode, At, TypeOK
  <2>2. /\ path' = path /\ foreign' = foreign
        /\ disk' = [disk EXCEPT ![fd[t]].private = TRUE]
    BY <1>6 DEF RestrictMode
  <2> QED  BY <1>1, <2>1, <2>2, CalmSteps, GuardedMeanwhile
<1> QED  BY <1>2, <1>3, <1>4, <1>5, <1>6 DEF Read

LEMMA OthersGuardKeepsGuarded ==
  ASSUME IInv, NEW s \in Shells, Guarded(s), NEW t \in Shells \ {s}, Guard(t)
  PROVE  Guarded(s)'
<1> USE DEF IInv
<1>1. Bystander(s)
  BY DEF Bystander, Guard, PackageConfiguration, CommandEnds, Compare, Keep,
         OpenRestored, WriteRestored, RestoreFails, Goto, Open, CloseFile, loop, TypeOK
<1>2. CASE OpenRestored(t) \/ WriteRestored(t)
  BY <1>1, <1>2, MarkedByWriters, GuardedMeanwhile DEF OpenRestored, WriteRestored
<1>3. CASE PackageConfiguration(t) \/ CommandEnds(t) \/ Compare(t) \/ Keep(t)
  <2>1. path' = path /\ disk' = disk /\ foreign' \in {foreign, foreign \ {t}}
    BY <1>3 DEF PackageConfiguration, CommandEnds, Compare, Keep
  <2> QED  BY <1>1, <2>1, CalmSteps, GuardedMeanwhile
<1>4. CASE RestoreFails(t)
  <2>1. path' = path /\ disk' = Reclaimed(disk) /\ foreign' = foreign
    BY <1>4 DEF RestoreFails
  <2> QED  BY <1>1, <2>1, CalmSteps, GuardedMeanwhile
<1> QED  BY <1>2, <1>3, <1>4 DEF Guard

LEMMA OthersUserKeepsGuarded ==
  ASSUME IInv, NEW s \in Shells, Guarded(s), NEW t \in Shells \ {s}, User(t)
  PROVE  Guarded(s)'
<1> USE DEF IInv
<1>1. Bystander(s)
  BY DEF Bystander, User, Enter, ChangeDir, Reset, Command, Edit, Goto, loop, TypeOK
<1>2. CASE Command(t)
  BY <1>1, <1>2, MarkedByWriters, GuardedMeanwhile DEF Command
<1>3. CASE Enter(t) \/ ChangeDir(t) \/ Reset(t)
  <2>1. path' = path /\ disk' = disk /\ foreign' = foreign
    BY <1>3 DEF Enter, ChangeDir, Reset
  <2> QED  BY <1>1, <2>1, CalmSteps, GuardedMeanwhile
<1> QED  BY <1>2, <1>3 DEF User

-----------------------------------------------------------------------------
(* Its own steps. *)

LEMMA OwnReadKeepsGuarded ==
  ASSUME IInv, NEW s \in Shells, Guarded(s), Read(s)
  PROVE  Guarded(s)'
<1>1. pc[s] \in Reading /\ pc'[s] \in Reading \cup {again[s]}
  BY DEF Read, CreateFails, CreateFile, WriteGenerated, WriteFails, OpenProtected,
         RestrictMode, ReadProtected, NotProtected, ReadPlain, RunLines, At, Goto,
         Reading, IInv, TypeOK
<1>2. UNCHANGED <<again, backup>>
  BY DEF Read, CreateFails, CreateFile, WriteGenerated, WriteFails, OpenProtected,
         RestrictMode, ReadProtected, NotProtected, ReadPlain, RunLines, loop
<1>3. again[s] \in {"package", "running"}
  BY DEF IInv, TypeOK
<1>4. pc'[s] = "package" => AsCopied(s)'
  BY <1>1, <1>2, <1>3 DEF Guarded, AsCopied, Reading
<1>5. pc'[s] \notin {"prompt", "restore"}
  BY <1>1, <1>3 DEF Reading
<1>6. pc'[s] \in Reading /\ again'[s] = "package" => backup'[s] = "none"
  BY <1>1, <1>2 DEF Guarded
<1> HIDE DEF AsCopied, Reading
<1> QED  BY <1>4, <1>5, <1>6 DEF Guarded

LEMMA OwnGuardKeepsGuarded ==
  ASSUME IInv, NEW s \in Shells, Guarded(s), Guard(s)
  PROVE  Guarded(s)'
<1> USE DEF IInv
<1>1. CASE PackageConfiguration(s)
  <2>1. /\ pc'[s] = "prompt"
        /\ backup'[s] = ReadFile(s)
        /\ UNCHANGED <<path, disk, cwd>>
    BY <1>1 DEF PackageConfiguration, Goto, TypeOK
  <2>2. AsCopied(s)'
    BY <2>1 DEF AsCopied, ReadFile, ConfigFile, ConfigDir
  <2> QED  BY <2>1, <2>2 DEF Guarded, Reading
<1>2. CASE CommandEnds(s)
  <2>1. /\ pc'[s] \in {"package", "compare"}
        /\ pc'[s] = "package" => backup[s] = "none"
        /\ backup' = backup
    BY <1>2 DEF CommandEnds, Goto, TypeOK, loop
  <2> QED  BY <2>1 DEF Guarded, Reading, AsCopied
<1>3. CASE Compare(s)
  <2>1. /\ pc'[s] \in {"package", "ask"}
        /\ pc'[s] = "package" => ReadFile(s) \in {"none", backup[s]}
        /\ UNCHANGED <<path, disk, cwd, backup>>
    BY <1>3 DEF Compare, HasConfigChanged, Goto, TypeOK, loop
  <2>2. pc'[s] = "package" => AsCopied(s)'
    BY <2>1 DEF AsCopied, ReadFile, ConfigFile, ConfigDir
  <2> QED  BY <2>1, <2>2 DEF Guarded, Reading
<1>4. CASE Keep(s) \/ RestoreFails(s)
  <2>1. pc'[s] = "package" /\ verdict'[s] \in {"kept", "failed"}
    BY <1>4 DEF Keep, RestoreFails, Goto, TypeOK
  <2> QED  BY <2>1 DEF Guarded, Reading
<1>5. CASE OpenRestored(s)
  <2>1. pc'[s] = "restore" /\ cwd' = cwd
    BY <1>5 DEF OpenRestored, Goto, TypeOK
  <2>2. fd'[s] = ConfigFile(s)' /\ disk'[fd'[s]].content = "empty"
    <3>1. CASE ConfigFile(s) # Gone
      <4>1. /\ disk' = [disk EXCEPT ![ConfigFile(s)].content = "empty"]
            /\ fd'[s] = ConfigFile(s)
            /\ path' = path
        BY <1>5, <3>1 DEF OpenRestored, Open, Write, TypeOK
      <4>2. disk[ConfigFile(s)] \in File /\ ConfigFile(s) \in Inodes
        BY <3>1, ConfigTyped DEF TypeOK
      <4>3. disk'[ConfigFile(s)].content = "empty"
        BY <4>1, <4>2 DEF TypeOK, File
      <4> QED  BY <2>1, <4>1, <4>3 DEF ConfigFile, ConfigDir
    <3>2. CASE ConfigFile(s) = Gone
      <4>1. PICK i \in Free :
              /\ path' = [path EXCEPT ![ConfigDir(s)] = i]
              /\ Open(s, i)
              /\ disk' = [disk EXCEPT ![i] = [content |-> "empty", private |-> FALSE,
                                              ours |-> TRUE]]
        BY <1>5, <3>2 DEF OpenRestored
      <4>2. i \in Inodes /\ ConfigDir(s) \in Dirs
        BY ConfigTyped DEF Free
      <4>3. fd'[s] = i /\ path'[ConfigDir(s)] = i /\ disk'[i].content = "empty"
        BY <4>1, <4>2 DEF TypeOK, Open
      <4> QED  BY <2>1, <4>3 DEF ConfigFile, ConfigDir
    <3> QED  BY <3>1, <3>2
  <2> QED  BY <2>1, <2>2 DEF Guarded, Reading
<1>6. CASE WriteRestored(s)
  <2>1. /\ pc[s] = "restore" /\ pc'[s] = "package"
        /\ UNCHANGED <<path, cwd, backup>>
    BY <1>6 DEF WriteRestored, At, Goto, TypeOK
  <2>2. foreign' = foreign \/ foreign \subseteq foreign'
    BY <1>6 DEF WriteRestored, WrittenBy
  <2>3. ASSUME s \notin foreign'
        PROVE  AsCopied(s)'
    \* Nobody wrote in between: the copy is all that the file holds.
    <3>1. fd[s] = ConfigFile(s) /\ disk[fd[s]].content = "empty" /\ fd[s] \in Inodes
      BY <2>1, <2>2, <2>3 DEF Guarded, TypeOK
    <3>2. WriteAndClose(s, backup[s])
      BY <1>6, <3>1 DEF WriteRestored, Overlay, Restored
    <3>3. ConfigFile(s)' = ConfigFile(s)
      BY <2>1 DEF ConfigFile, ConfigDir
    <3>4. fd[s] \in InUse'
      BY <2>1, <3>1, ConfigTyped DEF InUse, ConfigFile
    <3>5. backup[s] \in Contents
      BY <2>1 DEF BackedUp, TypeOK
    <3> DEFINE d == [disk EXCEPT ![fd[s]].content = backup[s]]
    <3>6. d \in [Inodes -> File] /\ d[fd[s]].content = backup[s]
      <4>1. disk \in [Inodes -> File] /\ disk[fd[s]] \in File
        BY <3>1 DEF TypeOK
      <4>2. d[fd[s]].content = backup[s]
        BY <3>1, <4>1 DEF File
      <4>3. d \in [Inodes -> File]
        BY <3>1, <3>5, <4>1, WriteTyped
      <4> QED  BY <4>2, <4>3
    <3>7. disk' = Reclaimed(d)
      BY <3>2 DEF WriteAndClose
    <3> HIDE DEF d
    <3>8. disk'[fd[s]].content = backup[s]
      BY <3>1, <3>4, <3>6, <3>7, ReclaimedTyped
    <3>9. ReadFile(s)' = backup[s]
      BY <3>1, <3>3, <3>8, ConfigurationAssumption DEF ReadFile
    <3> QED  BY <2>1, <3>9 DEF AsCopied
  <2> QED  BY <2>1, <2>3 DEF Guarded, Reading
<1> QED  BY <1>1, <1>2, <1>3, <1>4, <1>5, <1>6 DEF Guard

LEMMA OwnUserKeepsGuarded ==
  ASSUME IInv, NEW s \in Shells, Guarded(s), User(s)
  PROVE  Guarded(s)'
<1> USE DEF IInv
<1>1. CASE Enter(s)
  <2>1. /\ pc[s] = "prompt" /\ pc'[s] \in {"running", "package", "exited"}
        /\ UNCHANGED <<path, disk, cwd, backup, foreign>>
    BY <1>1 DEF Enter, At, Goto, TypeOK, loop
  <2>2. AsCopied(s)' <=> AsCopied(s)
    BY <2>1 DEF AsCopied, ReadFile, ConfigFile, ConfigDir
  <2> QED  BY <2>1, <2>2 DEF Guarded, Reading
<1>2. CASE ChangeDir(s) \/ Command(s)
  <2>1. /\ pc[s] \in {"running", "lines"} /\ pc' = pc
        /\ again' = again /\ backup' = backup
    BY <1>2 DEF ChangeDir, Command, Runs, Edit, loop
  <2> QED  BY <2>1 DEF Guarded
<1>3. CASE Reset(s)
  <2>1. pc'[s] \in {"plain", "create"} /\ again'[s] = "running"
    BY <1>3 DEF Reset, Goto, TypeOK
  <2> QED  BY <2>1 DEF Guarded
<1> QED  BY <1>1, <1>2, <1>3 DEF User

-----------------------------------------------------------------------------

LEMMA NextGuarding == IInv /\ Guarding /\ [Next \/ Stopped]_vars => Guarding'
<1> SUFFICES ASSUME IInv, Guarding, [Next \/ Stopped]_vars, NEW s \in Shells
             PROVE  Guarded(s)'
  BY DEF Guarding
<1>1. Guarded(s)
  BY DEF Guarding
<1>2. CASE Read(s) \/ Guard(s) \/ User(s)
  BY <1>1, <1>2, OwnReadKeepsGuarded, OwnGuardKeepsGuarded, OwnUserKeepsGuarded
<1>3. ASSUME NEW t \in Shells \ {s}, Read(t) \/ Guard(t) \/ User(t)
      PROVE  Guarded(s)'
  BY <1>1, <1>3, OthersReadKeepsGuarded, OthersGuardKeepsGuarded,
     OthersUserKeepsGuarded
<1>4. CASE Elsewhere
  <2>1. Bystander(s)
    BY <1>4 DEF Bystander, Elsewhere, Edit, loop
  <2> QED  BY <1>1, <1>4, <2>1, MarkedByWriters, GuardedMeanwhile DEF Elsewhere
<1>5. CASE UNCHANGED vars
  BY <1>1, <1>5 DEF vars, Guarded, AsCopied, ReadFile, ConfigFile, ConfigDir
<1> QED  BY <1>2, <1>3, <1>4, <1>5 DEF Next, Stopped

LEMMA GuardingInvariance == Spec => []Guarding
<1>1. Init => Guarding
  BY DEF Init, Guarding, Guarded
<1> QED  BY <1>1, NextGuarding, Invariance, PTL DEF Spec

\* Whatever a command does to the configuration, the user has been asked by the
\* next prompt, and a refusal has put the copy back as it was, for any number of
\* shells and directories: only a write of somebody else gets past the guard.
THEOREM ChangesAreAsked == Spec => NothingUnasked
<1>1. Guarding /\ [Next \/ Stopped]_vars =>
        [\A s \in Shells :
           At(s, "package") /\ verdict[s] \notin {"kept", "failed"} /\ s \notin foreign =>
             "none" \in {backup[s], ReadFile(s)} \/ ReadFile(s) = backup[s]]_vars
  BY DEF Guarding, Guarded, AsCopied, At
<1> QED  BY <1>1, GuardingInvariance, PTL DEF Spec, NothingUnasked

=============================================================================
