-------------------------- MODULE Workspaces_proofs --------------------------
(***************************************************************************)
(* Theorems about Workspaces, for every value of its constants.            *)
(***************************************************************************)
EXTENDS Workspaces, ListLemmas, FunctionTheorems

-----------------------------------------------------------------------------
(* Type correctness. *)

(* The current workspace, where there is one, is an entry of the list, and *)
(* so is the workspace a word names.                                       *)
LEMMA EntriesTyped ==
  ASSUME TypeOK
  PROVE  /\ \A i \in Positions : i + 1 \in DOMAIN workspaces /\ At(i) \in Workspace
         /\ HasCurrent => cur_workspace \in Positions /\ Current \in Workspace
         /\ \A word : IsIndex(word) => Index[word] \in Positions
<1>1. \A i \in Positions : i + 1 \in DOMAIN workspaces /\ At(i) \in Workspace
  BY ElementOfSeq DEF TypeOK, Positions, At
<1>2. HasCurrent => cur_workspace \in Positions
  BY LenProperties DEF TypeOK, HasCurrent, Positions
<1> QED BY <1>1, <1>2 DEF Current, IsIndex

(* Replacing the current workspace by a value of its type that has the     *)
(* same identity keeps the list well-typed: !label, cd, "!new s", !drop.   *)
LEMMA SetCurrentTyped ==
  ASSUME TypeOK, HasCurrent, NEW w \in Workspace, w.id = Current.id
  PROVE  /\ SetCurrent(w) \in Seq(Workspace)
         /\ DOMAIN SetCurrent(w) = DOMAIN workspaces
         /\ \A i \in DOMAIN workspaces :
              SetCurrent(w)[i] = IF i = cur_workspace + 1 THEN w ELSE workspaces[i]
         /\ \A i, j \in DOMAIN SetCurrent(w) :
              SetCurrent(w)[i].id = SetCurrent(w)[j].id => i = j
<1>1. cur_workspace + 1 \in 1 .. Len(workspaces) /\ workspaces \in Seq(Workspace)
  BY EntriesTyped DEF TypeOK, Positions
<1>2. /\ SetCurrent(w) \in Seq(Workspace)
      /\ DOMAIN SetCurrent(w) = DOMAIN workspaces
      /\ \A i \in DOMAIN workspaces :
           SetCurrent(w)[i] = IF i = cur_workspace + 1 THEN w ELSE workspaces[i]
  BY <1>1, ExceptSeq DEF SetCurrent
<1>3. workspaces[cur_workspace + 1].id = w.id
  BY DEF Current, At
<1> QED BY <1>1, <1>2, <1>3 DEF TypeOK

(* Appending a workspace with a fresh identity keeps the list well-typed:  *)
(* "!new w" and !clone.                                                    *)
LEMMA AppendTyped ==
  ASSUME TypeOK, NEW w \in Workspace, w.id \notin Ids
  PROVE  /\ Append(workspaces, w) \in Seq(Workspace)
         /\ Len(Append(workspaces, w)) = Len(workspaces) + 1
         /\ \A i \in DOMAIN workspaces : Append(workspaces, w)[i] = workspaces[i]
         /\ Append(workspaces, w)[Len(workspaces) + 1] = w
         /\ \A i, j \in DOMAIN Append(workspaces, w) :
              Append(workspaces, w)[i].id = Append(workspaces, w)[j].id => i = j
<1> DEFINE list == Append(workspaces, w)
<1>1. /\ list \in Seq(Workspace) /\ Len(list) = Len(workspaces) + 1
      /\ \A i \in 1 .. Len(workspaces) : list[i] = workspaces[i]
      /\ list[Len(workspaces) + 1] = w
  BY AppendProperties DEF TypeOK
<1>2. \A i \in 1 .. Len(workspaces) : workspaces[i].id # w.id
  <2> TAKE i \in 1 .. Len(workspaces)
  <2>1. i - 1 \in Positions /\ At(i - 1) = workspaces[i]
    BY DEF Positions, At
  <2> QED BY <2>1 DEF Ids
<1>3. DOMAIN list = 1 .. Len(workspaces) + 1 /\ Len(workspaces) \in Nat
  BY <1>1, LenProperties DEF TypeOK
<1> HIDE DEF list
<1>4. \A i, j \in DOMAIN list : list[i].id = list[j].id => i = j
  <2>1. ASSUME NEW i \in DOMAIN list, NEW j \in DOMAIN list, list[i].id = list[j].id
        PROVE  i = j
    <3>1. CASE i <= Len(workspaces) /\ j <= Len(workspaces)
      BY <3>1, <2>1, <1>1, <1>3 DEF TypeOK
    <3>2. CASE i = Len(workspaces) + 1 \/ j = Len(workspaces) + 1
      BY <3>2, <2>1, <1>1, <1>2, <1>3
    <3> QED BY <3>1, <3>2, <2>1, <1>3
  <2> QED BY <2>1
<1> QED BY <1>1, <1>4 DEF list

(* Removing a workspace keeps the list well-typed: !close, a failed !switch. *)
LEMMA RemoveTyped ==
  ASSUME TypeOK, NEW i \in Positions
  PROVE  /\ RemoveAt(workspaces, i + 1) \in Seq(Workspace)
         /\ \A a, b \in DOMAIN RemoveAt(workspaces, i + 1) :
              RemoveAt(workspaces, i + 1)[a].id = RemoveAt(workspaces, i + 1)[b].id
                => a = b
<1>1. i + 1 \in 1 .. Len(workspaces) /\ workspaces \in Seq(Workspace)
  BY DEF Positions, TypeOK
<1> DEFINE list == RemoveAt(workspaces, i + 1)
<1>2. /\ list \in Seq(Workspace) /\ Len(list) = Len(workspaces) - 1
      /\ \A j \in 1 .. Len(workspaces) - 1 :
           list[j] = IF j < i + 1 THEN workspaces[j] ELSE workspaces[j + 1]
  BY <1>1, RemoveAtLemma
<1> HIDE DEF list
<1>3. \A a, b \in DOMAIN list : list[a].id = list[b].id => a = b
  <2>1. DOMAIN list = 1 .. Len(workspaces) - 1 /\ Len(workspaces) \in Nat
    BY <1>1, <1>2, LenProperties
  <2>2. ASSUME NEW a \in DOMAIN list, NEW b \in DOMAIN list, list[a].id = list[b].id
        PROVE  a = b
    <3> DEFINE from(c) == IF c < i + 1 THEN c ELSE c + 1
    <3>1. /\ from(a) \in DOMAIN workspaces /\ list[a] = workspaces[from(a)]
          /\ from(b) \in DOMAIN workspaces /\ list[b] = workspaces[from(b)]
      BY <1>1, <1>2, <2>1
    <3>2. from(a) = from(b)
      BY <2>2, <3>1 DEF TypeOK
    <3> QED BY <3>2, <2>1, <1>1
  <2> QED BY <2>2
<1> QED BY <1>2, <1>3 DEF list

(* Values of the scope heap. *)
LEMMA HeapTyped ==
  ASSUME TypeOK
  PROVE  /\ NoScope \in Scope
         /\ NoOverrides \in [Keys -> Values \cup {Unset}]
         /\ \A list, heap : heap \in [ScopeIds -> Scope]
                             => Collected(heap, list) \in [ScopeIds -> Scope]
  BY DEF NoScope, Scope, NoOverrides, Collected

(* TypeOK is an invariant: no command leaves its variables' sets, and      *)
(* cur_workspace never becomes negative although !close decrements it.     *)
THEOREM TypeCorrect == Spec => []TypeOK
<1>1. Init => TypeOK
  <2> SUFFICES ASSUME Init PROVE TypeOK
    OBVIOUS
  <2>1. PICK id \in WorkspaceIds :
          workspaces = <<[id |-> id, name |-> NoLabel,
                          path |-> StartDir, scopes |-> <<>>]>>
    BY DEF Init
  <2>2. workspaces \in Seq(Workspace) /\ DOMAIN workspaces = {1}
    BY <2>1, DirectoriesAssumption DEF Workspace
  <2> QED BY <2>2, DirectoriesAssumption DEF Init, TypeOK, NoScope, Scope, NoOverrides
<1>2. TypeOK /\ [Next]_vars => TypeOK'
  <2> SUFFICES ASSUME TypeOK, [Next]_vars PROVE TypeOK'
    OBVIOUS
  <2> USE EntriesTyped, HeapTyped
  <2>0. CASE UNCHANGED vars
    BY <2>0 DEF vars, TypeOK
  <2>1. CASE Refuse
    BY <2>1 DEF Refuse, TypeOK
  <2>2. CASE NewWorkspace
    <3>1. CASE Refuse
      BY <2>1, <3>1
    <3>2. ASSUME HasCurrent, NEW id \in WorkspaceIds \ Ids,
                 workspaces' = Append(workspaces,
                                 [id |-> id, name |-> NoLabel,
                                  path |-> Current.path, scopes |-> <<>>]),
                 lastExitCode' = 0, UNCHANGED <<cur_workspace, scope, cwd, dirs>>
          PROVE  TypeOK'
      <4>1. [id |-> id, name |-> NoLabel, path |-> Current.path, scopes |-> <<>>]
              \in Workspace
        BY <3>2 DEF Workspace
      <4> QED BY <3>2, <4>1, AppendTyped DEF TypeOK
    <3> QED BY <2>2, <3>1, <3>2 DEF NewWorkspace
  <2>3. ASSUME NEW name \in ScopeNames, NewScope(name)
        PROVE  TypeOK'
    <3>1. CASE Refuse
      BY <2>1, <3>1
    <3>2. ASSUME HasCurrent, NEW s \in ScopeIds \ Owned(workspaces),
                 workspaces' = SetCurrent([Current EXCEPT !.scopes = Append(@, s)]),
                 scope' = [scope EXCEPT ![s] = [name      |-> name,
                                                overrides |-> NoOverrides]],
                 lastExitCode' = 0, UNCHANGED <<cur_workspace, cwd, dirs>>
          PROVE  TypeOK'
      <4> DEFINE new == [Current EXCEPT !.scopes = Append(@, s)]
      <4>1. new \in Workspace /\ new.id = Current.id
        BY <3>2, AppendProperties DEF Workspace
      <4>2. HasCurrent /\ workspaces' = SetCurrent(new)
        BY <3>2
      <4> HIDE DEF new
      <4>3. scope' \in [ScopeIds -> Scope]
        BY <3>2 DEF TypeOK, Scope
      <4>4. /\ workspaces' \in Seq(Workspace)
            /\ \A i, j \in DOMAIN workspaces' :
                 workspaces'[i].id = workspaces'[j].id => i = j
        BY <4>1, <4>2, SetCurrentTyped
      <4> QED BY <3>2, <4>3, <4>4 DEF TypeOK
    <3> QED BY <2>3, <3>1, <3>2 DEF NewScope
  <2>4. ASSUME NEW word \in Words, SwitchToLabel(word)
        PROVE  TypeOK'
    <3>1. Min(Labelled(word)) \in Labelled(word)
      <4>1. Labelled(word) \subseteq Nat /\ Labelled(word) # {}
        BY <2>4 DEF SwitchToLabel, Labelled, Positions
      <4> QED BY <4>1, MinInSet
    <3> QED BY <2>4, <3>1 DEF SwitchToLabel, Labelled, Positions, TypeOK
  <2>5. ASSUME NEW word \in Words, SwitchToIndex(word)
        PROVE  TypeOK'
    <3>1. CASE Refuse
      BY <2>1, <3>1
    <3>2. CASE /\ IsIndex(word) /\ cur_workspace' = Index[word]
               /\ cwd' = At(Index[word]).path /\ lastExitCode' = 0
               /\ UNCHANGED <<workspaces, scope, dirs>>
      BY <3>2 DEF TypeOK, Workspace, Positions
    <3>3. CASE /\ IsIndex(word)
               /\ workspaces' = RemoveAt(workspaces, Index[word] + 1)
               /\ scope' = Collected(scope, workspaces')
               /\ lastExitCode' = 1 /\ UNCHANGED <<cur_workspace, cwd, dirs>>
      BY <3>3, RemoveTyped DEF TypeOK
    <3> QED BY <2>5, <3>1, <3>2, <3>3 DEF SwitchToIndex
  <2>6. ASSUME NEW word \in Words, Close(word)
        PROVE  TypeOK'
    <3>1. CASE Refuse
      BY <2>1, <3>1
    <3>2. CASE /\ IsIndex(word)
               /\ cur_workspace' = AfterClose(Index[word])
               /\ workspaces' = RemoveAt(workspaces, Index[word] + 1)
               /\ scope' = Collected(scope, workspaces')
               /\ lastExitCode' = 0 /\ UNCHANGED <<cwd, dirs>>
      <4>1. AfterClose(Index[word]) \in Nat
        BY <3>2 DEF AfterClose, Positions, TypeOK
      <4> QED BY <3>2, <4>1, RemoveTyped DEF TypeOK
    <3> QED BY <2>6, <3>1, <3>2 DEF Close
  <2>7. ASSUME NEW word \in Words, Clone(word)
        PROVE  TypeOK'
    <3>1. CASE Refuse
      BY <2>1, <3>1
    <3>2. ASSUME IsIndex(word), NEW id \in WorkspaceIds \ Ids,
                 NEW copy \in NewScopes(At(Index[word]).scopes),
                 workspaces' = Append(workspaces,
                   [At(Index[word]) EXCEPT !.id = id, !.scopes = copy]),
                 scope' = [s \in ScopeIds |->
                   IF \E j \in DOMAIN copy : copy[j] = s
                   THEN scope[At(Index[word]).scopes
                               [CHOOSE j \in DOMAIN copy : copy[j] = s]]
                   ELSE scope[s]],
                 lastExitCode' = 0, UNCHANGED <<cur_workspace, cwd, dirs>>
          PROVE  TypeOK'
      <4> DEFINE ws == At(Index[word])
      <4>1. ws \in Workspace
        BY <3>2
      <4>2. /\ copy \in [DOMAIN ws.scopes -> ScopeIds]
            /\ ws.scopes \in [DOMAIN ws.scopes -> ScopeIds]
            /\ copy \in Seq(ScopeIds)
        BY <3>2, <4>1 DEF NewScopes, Injection, Workspace
      <4> HIDE DEF ws
      <4>3. scope' \in [ScopeIds -> Scope]
        BY <3>2, <4>2 DEF TypeOK, ws
      <4>4. /\ [ws EXCEPT !.id = id, !.scopes = copy] \in Workspace
            /\ [ws EXCEPT !.id = id, !.scopes = copy].id = id
        BY <4>1, <4>2 DEF Workspace
      <4> QED BY <3>2, <4>3, <4>4, AppendTyped DEF TypeOK, ws
    <3> QED BY <2>7, <3>1, <3>2 DEF Clone
  <2>8. ASSUME NEW name \in ScopeNames, Drop(name)
        PROVE  TypeOK'
    <3> DEFINE Named == {j \in DOMAIN Current.scopes :
                           scope[Current.scopes[j]].name = name}
    <3>1. CASE Refuse
      BY <2>1, <3>1
    <3>2. CASE /\ HasCurrent /\ Named # {}
               /\ workspaces' =
                    SetCurrent([Current EXCEPT !.scopes = RemoveAt(@, Min(Named))])
               /\ scope' = Collected([scope EXCEPT
                     ![Current.scopes[Min(Named)]].overrides = NoOverrides], workspaces')
               /\ lastExitCode' = 0 /\ UNCHANGED <<cur_workspace, cwd, dirs>>
      <4>1. /\ Min(Named) \in DOMAIN Current.scopes
            /\ Current.scopes \in Seq(ScopeIds)
        <5>1. Current.scopes \in Seq(ScopeIds)
          BY <3>2 DEF Workspace
        <5>2. Named \subseteq Nat /\ Named # {}
          <6>1. DOMAIN Current.scopes \subseteq Nat
            BY <5>1
          <6> QED BY <3>2, <6>1
        <5> HIDE DEF Named
        <5>3. Min(Named) \in Named
          BY <5>2, MinInSet
        <5> QED BY <5>1, <5>3 DEF Named
      <4> HIDE DEF Named
      <4>2. RemoveAt(Current.scopes, Min(Named)) \in Seq(ScopeIds)
        BY <4>1, RemoveAtLemma
      <4> DEFINE new == [Current EXCEPT !.scopes = RemoveAt(@, Min(Named))]
      <4>3. new \in Workspace /\ new.id = Current.id
        BY <3>2, <4>2 DEF Workspace
      <4>4. [scope EXCEPT ![Current.scopes[Min(Named)]].overrides = NoOverrides]
              \in [ScopeIds -> Scope]
        BY <4>1 DEF TypeOK, Scope
      <4>5. /\ workspaces' \in Seq(Workspace)
            /\ \A i, j \in DOMAIN workspaces' :
                 workspaces'[i].id = workspaces'[j].id => i = j
        <5>1. HasCurrent /\ workspaces' = SetCurrent(new)
          BY <3>2
        <5> HIDE DEF new
        <5> QED BY <4>3, <5>1, SetCurrentTyped
      <4>6. scope' \in [ScopeIds -> Scope]
        BY <3>2, <4>4
      <4> QED BY <3>2, <4>5, <4>6 DEF TypeOK
    <3> QED BY <2>8, <3>1, <3>2 DEF Drop
  <2>9. ASSUME NEW k \in Keys, NEW v \in Values, Set(k, v) \/ SetIfn(k, v)
        PROVE  TypeOK'
    <3>1. HasScope => NewestScope \in ScopeIds
      BY DEF HasScope, NewestScope, Last, Workspace
    <3>2. HasScope => [scope EXCEPT ![NewestScope].overrides[k] = v]
                        \in [ScopeIds -> Scope]
      BY <3>1 DEF TypeOK, Scope
    <3>3. HasScope /\ (Set(k, v) \/ SetIfn(k, v)) /\ ~Refuse
            => scope' \in [ScopeIds -> Scope]
      BY <3>2 DEF Set, SetIfn, TypeOK
    <3> QED BY <2>1, <2>9, <3>3 DEF Set, SetIfn, TypeOK
  <2>10. ASSUME NEW l \in Labels, Label(l)
         PROVE  TypeOK'
    <3>1. CASE Refuse
      BY <2>1, <3>1
    <3>2. CASE /\ HasCurrent
               /\ workspaces' = SetCurrent([Current EXCEPT !.name = l])
               /\ lastExitCode' = 0 /\ UNCHANGED <<cur_workspace, scope, cwd, dirs>>
      <4> DEFINE new == [Current EXCEPT !.name = l]
      <4>1. new \in Workspace /\ new.id = Current.id
        BY <3>2 DEF Workspace
      <4>2. /\ workspaces' \in Seq(Workspace)
            /\ \A i, j \in DOMAIN workspaces' :
                 workspaces'[i].id = workspaces'[j].id => i = j
        <5>1. HasCurrent /\ workspaces' = SetCurrent(new)
          BY <3>2
        <5> HIDE DEF new
        <5> QED BY <4>1, <5>1, SetCurrentTyped
      <4> QED BY <3>2, <4>2 DEF TypeOK
    <3> QED BY <2>10, <3>1, <3>2 DEF Label
  <2>11. ASSUME NEW p \in Paths, Cd(p)
         PROVE  TypeOK'
    <3>1. CASE Refuse
      BY <2>1, <3>1
    <3>2. ASSUME HasCurrent, workspaces' = SetCurrent([Current EXCEPT !.path = p])
          PROVE  /\ workspaces' \in Seq(Workspace)
                 /\ \A i, j \in DOMAIN workspaces' :
                      workspaces'[i].id = workspaces'[j].id => i = j
      <4> DEFINE new == [Current EXCEPT !.path = p]
      <4>1. new \in Workspace /\ new.id = Current.id
        BY <3>2 DEF Workspace
      <4>2. HasCurrent /\ workspaces' = SetCurrent(new)
        BY <3>2
      <4> HIDE DEF new
      <4> QED BY <4>1, <4>2, SetCurrentTyped
    <3>3. CASE p \in dirs /\ ~Refuse
      BY <2>11, <3>2, <3>3 DEF Cd, TypeOK
    <3> QED BY <2>11, <3>1, <3>3 DEF Cd
  <2>12. ASSUME NEW p \in Vanishing, Vanish(p) \/ Appear(p)
         PROVE  TypeOK'
    BY <2>12, DirectoriesAssumption DEF Vanish, Appear, TypeOK
  <2> QED BY <2>0, <2>1, <2>2, <2>3, <2>4, <2>5, <2>6, <2>7, <2>8, <2>9, <2>10,
             <2>11, <2>12 DEF Next, Misused
<1> QED BY <1>1, <1>2, PTL DEF Spec

-----------------------------------------------------------------------------
(* The current workspace and the directory of the process. *)

(* Where the current workspace is found after a list operation: unmoved by *)
(* Append, at AfterClose(i) once another entry i is gone.                  *)
LEMMA CurrentAfterClose ==
  ASSUME TypeOK, HasCurrent, NEW i \in Positions, i # cur_workspace
  PROVE  /\ AfterClose(i) \in Nat
         /\ AfterClose(i) < Len(RemoveAt(workspaces, i + 1))
         /\ RemoveAt(workspaces, i + 1)[AfterClose(i) + 1] = Current
<1>1. /\ workspaces \in Seq(Workspace) /\ Len(workspaces) \in Nat
      /\ i \in Nat /\ cur_workspace \in Nat
      /\ i < Len(workspaces) /\ cur_workspace < Len(workspaces)
  BY LenProperties DEF TypeOK, HasCurrent, Positions
<1> DEFINE list == RemoveAt(workspaces, i + 1)
<1>2. /\ Len(list) = Len(workspaces) - 1
      /\ \A j \in 1 .. Len(workspaces) - 1 :
           list[j] = IF j < i + 1 THEN workspaces[j] ELSE workspaces[j + 1]
  <2>1. i + 1 \in 1 .. Len(workspaces)
    BY <1>1
  <2>2. workspaces \in Seq(Workspace)
    BY <1>1
  <2> QED BY <2>1, <2>2, RemoveAtLemma
<1> HIDE DEF list
<1>3. CASE i < cur_workspace
  <2>1. AfterClose(i) = cur_workspace - 1
    BY <1>3 DEF AfterClose
  <2>2. cur_workspace \in 1 .. Len(workspaces) - 1 /\ ~(cur_workspace < i + 1)
    BY <1>1, <1>3
  <2>3. list[cur_workspace] = workspaces[cur_workspace + 1]
    BY <1>2, <2>2
  <2> QED BY <1>1, <1>2, <2>1, <2>2, <2>3 DEF list, Current, At
<1>4. CASE cur_workspace < i
  <2>1. AfterClose(i) = cur_workspace
    BY <1>1, <1>4 DEF AfterClose
  <2>2. cur_workspace + 1 \in 1 .. Len(workspaces) - 1 /\ cur_workspace + 1 < i + 1
    BY <1>1, <1>4
  <2>3. list[cur_workspace + 1] = workspaces[cur_workspace + 1]
    BY <1>2, <2>2
  <2> QED BY <1>1, <1>2, <2>1, <2>2, <2>3 DEF list, Current, At
<1> QED BY <1>1, <1>3, <1>4

(* While no directory disappears, every directory a workspace is on can be *)
(* entered, so that !switch never drops an entry of the list.              *)
Undisturbed == dirs = Paths

LEMMA UndisturbedInvariant ==
  ASSUME Vanishing = {}
  PROVE  Spec => []Undisturbed
<1>1. Init => Undisturbed
  BY DEF Init, Undisturbed
<1>2. Undisturbed /\ [Next]_vars => Undisturbed'
  BY DEF Undisturbed, Next, vars, Misused, Refuse, NewWorkspace, NewScope, Drop,
         SwitchToLabel, SwitchToIndex, Close, Clone, Set, SetIfn, Label, Cd
<1> QED BY <1>1, <1>2, PTL DEF Spec

(* One step from a session that has a current workspace: but for a !switch *)
(* that fails, it leaves the session a current workspace, the same one if  *)
(* the list changed, and the directory follows it but for a label.         *)
Followed ==
  /\ HasCurrent'
  /\ Ids' # Ids => Current.id = (Current.id)'
  /\ cwd = Current.path
       => (cwd = Current.path)' \/ \E word \in Words : SwitchToLabel(word)

LEMMA SessionStep ==
  ASSUME TypeOK, TypeOK', HasCurrent, [Next]_vars
  PROVE  Followed \/ (~Undisturbed /\ lastExitCode' = 1)
<1> DEFINE Goal == Followed \/ (~Undisturbed /\ lastExitCode' = 1)
<1> USE DEF Followed
<1> SUFFICES Goal
  OBVIOUS
<1>a. cur_workspace + 1 \in DOMAIN workspaces /\ Current \in Workspace
  BY EntriesTyped
(* The list, cur_workspace and the directory are left alone. *)
<1>b. ASSUME UNCHANGED <<workspaces, cur_workspace, cwd>>
      PROVE  Goal
  BY <1>b DEF HasCurrent, Ids, Positions, Current, At
(* The current entry is replaced by one with the same identity. *)
<1>c. ASSUME NEW w \in Workspace, w.id = Current.id,
             workspaces' = SetCurrent(w), cur_workspace' = cur_workspace,
             cwd = Current.path => cwd' = w.path
      PROVE  Goal
  <2>1. /\ workspaces' \in Seq(Workspace)
        /\ DOMAIN workspaces' = DOMAIN workspaces
        /\ workspaces'[cur_workspace + 1] = w
    BY <1>a, <1>c, SetCurrentTyped
  <2>2. Len(workspaces') = Len(workspaces)
    BY <2>1, LenProperties DEF TypeOK
  <2> QED BY <1>c, <2>1, <2>2 DEF HasCurrent, Current, At
(* A workspace is added at the end of the list. *)
<1>d. ASSUME NEW w \in Workspace, workspaces' = Append(workspaces, w),
             UNCHANGED <<cur_workspace, cwd>>
      PROVE  Goal
  <2>1. /\ Len(workspaces') = Len(workspaces) + 1
        /\ workspaces'[cur_workspace + 1] = workspaces[cur_workspace + 1]
    BY <1>a, <1>d, AppendProperties DEF TypeOK
  <2> QED BY <1>d, <2>1, LenProperties DEF HasCurrent, Current, At, TypeOK
<1>0. CASE UNCHANGED vars \/ Refuse
  BY <1>0, <1>b DEF vars, Refuse
<1>1. CASE NewWorkspace
  <2>1. CASE Refuse
    BY <2>1, <1>0
  <2>2. ASSUME NEW id \in WorkspaceIds \ Ids,
               workspaces' = Append(workspaces,
                               [id |-> id, name |-> NoLabel,
                                path |-> Current.path, scopes |-> <<>>]),
               UNCHANGED <<cur_workspace, cwd>>
        PROVE  Goal
    <3>1. [id |-> id, name |-> NoLabel, path |-> Current.path, scopes |-> <<>>]
            \in Workspace
      BY <1>a DEF Workspace
    <3> QED BY <2>2, <3>1, <1>d
  <2> QED BY <1>1, <2>1, <2>2 DEF NewWorkspace
<1>2. ASSUME NEW name \in ScopeNames, NewScope(name)
      PROVE  Goal
  <2>1. CASE Refuse
    BY <2>1, <1>0
  <2>2. ASSUME NEW s \in ScopeIds \ Owned(workspaces),
               workspaces' = SetCurrent([Current EXCEPT !.scopes = Append(@, s)]),
               UNCHANGED <<cur_workspace, cwd>>
        PROVE  Goal
    <3> DEFINE new == [Current EXCEPT !.scopes = Append(@, s)]
    <3>1. new \in Workspace /\ new.id = Current.id /\ new.path = Current.path
      BY <1>a, AppendProperties DEF Workspace
    <3>2. workspaces' = SetCurrent(new)
      BY <2>2
    <3> HIDE DEF new
    <3> QED BY <2>2, <3>1, <3>2, <1>c
  <2> QED BY <1>2, <2>1, <2>2 DEF NewScope
<1>3. ASSUME NEW word \in Words, SwitchToLabel(word)
      PROVE  Goal
  <2>1. Min(Labelled(word)) \in Positions /\ At(Min(Labelled(word))).name = word
    <3>1. Labelled(word) \subseteq Nat /\ Labelled(word) # {}
      BY <1>3 DEF SwitchToLabel, Labelled, Positions
    <3>2. Min(Labelled(word)) \in Labelled(word)
      BY <3>1, MinInSet
    <3> QED BY <3>2 DEF Labelled
  <2>2. HasCurrent' /\ Ids' = Ids
    BY <1>3, <2>1, LenProperties DEF SwitchToLabel, HasCurrent, Positions, Ids, At, TypeOK
  <2> QED BY <1>3, <2>2
<1>4. ASSUME NEW word \in Words, SwitchToIndex(word)
      PROVE  Goal
  <2>1. CASE Refuse
    BY <2>1, <1>0
  <2>2. CASE /\ IsIndex(word) /\ cur_workspace' = Index[word]
             /\ cwd' = At(Index[word]).path /\ UNCHANGED workspaces
    <3>1. HasCurrent' /\ Ids' = Ids
      BY <2>2, LenProperties DEF IsIndex, HasCurrent, Positions, Ids, At, TypeOK
    <3>2. (cwd = Current.path)'
      BY <2>2 DEF Current, At
    <3> QED BY <3>1, <3>2
  <2>3. CASE IsIndex(word) /\ At(Index[word]).path \notin dirs /\ lastExitCode' = 1
    BY <2>3, EntriesTyped DEF Undisturbed, Workspace
  <2> QED BY <1>4, <2>1, <2>2, <2>3 DEF SwitchToIndex
<1>5. ASSUME NEW word \in Words, Close(word)
      PROVE  Goal
  <2>1. CASE Refuse
    BY <2>1, <1>0
  <2>2. CASE /\ IsIndex(word) /\ Index[word] # cur_workspace
             /\ cur_workspace' = AfterClose(Index[word])
             /\ workspaces' = RemoveAt(workspaces, Index[word] + 1)
             /\ UNCHANGED cwd
    <3>1. Index[word] \in Positions
      BY <2>2 DEF IsIndex
    <3>2. HasCurrent' /\ Current' = Current
      BY <2>2, <3>1, CurrentAfterClose DEF HasCurrent, Current, At
    <3> QED BY <2>2, <3>2
  <2> QED BY <1>5, <2>1, <2>2 DEF Close
<1>6. ASSUME NEW word \in Words, Clone(word)
      PROVE  Goal
  <2>1. CASE Refuse
    BY <2>1, <1>0
  <2>2. ASSUME IsIndex(word), NEW id \in WorkspaceIds \ Ids,
               NEW copy \in NewScopes(At(Index[word]).scopes),
               workspaces' = Append(workspaces,
                 [At(Index[word]) EXCEPT !.id = id, !.scopes = copy]),
               UNCHANGED <<cur_workspace, cwd>>
        PROVE  Goal
    <3> DEFINE ws == At(Index[word])
               new == [ws EXCEPT !.id = id, !.scopes = copy]
    <3>1. ws \in Workspace /\ copy \in Seq(ScopeIds)
      <4>1. ws \in Workspace
        BY <2>2, EntriesTyped
      <4>2. ws.scopes \in Seq(ScopeIds) /\ copy \in [DOMAIN ws.scopes -> ScopeIds]
        BY <2>2, <4>1 DEF Workspace, NewScopes, Injection
      <4> QED BY <4>1, <4>2
    <3>2. new \in Workspace
      BY <3>1 DEF Workspace
    <3>3. workspaces' = Append(workspaces, new)
      BY <2>2
    <3> HIDE DEF new
    <3> QED BY <2>2, <3>2, <3>3, <1>d
  <2> QED BY <1>6, <2>1, <2>2 DEF Clone
<1>7. ASSUME NEW name \in ScopeNames, Drop(name)
      PROVE  Goal
  <2> DEFINE Named == {j \in DOMAIN Current.scopes :
                         scope[Current.scopes[j]].name = name}
             new == [Current EXCEPT !.scopes = RemoveAt(@, Min(Named))]
  <2>1. CASE Refuse
    BY <2>1, <1>0
  <2>2. CASE /\ workspaces' = SetCurrent(new) /\ Named # {}
             /\ UNCHANGED <<cur_workspace, cwd>>
    <3>1. Current.scopes \in Seq(ScopeIds)
      BY <1>a DEF Workspace
    <3>2. Min(Named) \in DOMAIN Current.scopes
      <4>1. Named \subseteq Nat
        BY <3>1
      <4>2. Named # {}
        BY <2>2
      <4> HIDE DEF Named
      <4>3. Min(Named) \in Named
        BY <4>1, <4>2, MinInSet
      <4> QED BY <4>3 DEF Named
    <3> HIDE DEF Named
    <3>3. RemoveAt(Current.scopes, Min(Named)) \in Seq(ScopeIds)
      BY <3>1, <3>2, RemoveAtLemma
    <3>4. new \in Workspace /\ new.id = Current.id /\ new.path = Current.path
      BY <1>a, <3>3 DEF Workspace
    <3> HIDE DEF new
    <3> QED BY <2>2, <3>4, <1>c
  <2> QED BY <1>7, <2>1, <2>2 DEF Drop
<1>8. ASSUME NEW k \in Keys, NEW v \in Values, Set(k, v) \/ SetIfn(k, v)
      PROVE  Goal
  BY <1>8, <1>0, <1>b DEF Set, SetIfn
<1>9. ASSUME NEW l \in Labels, Label(l)
      PROVE  Goal
  <2>1. CASE Refuse
    BY <2>1, <1>0
  <2>2. CASE /\ workspaces' = SetCurrent([Current EXCEPT !.name = l])
             /\ UNCHANGED <<cur_workspace, cwd>>
    <3> DEFINE new == [Current EXCEPT !.name = l]
    <3>1. new \in Workspace /\ new.id = Current.id /\ new.path = Current.path
      BY <1>a DEF Workspace
    <3>2. workspaces' = SetCurrent(new)
      BY <2>2
    <3> HIDE DEF new
    <3> QED BY <2>2, <3>1, <3>2, <1>c
  <2> QED BY <1>9, <2>1, <2>2 DEF Label
<1>10. ASSUME NEW p \in Paths, Cd(p)
       PROVE  Goal
  <2>1. CASE Refuse
    BY <2>1, <1>0
  <2>2. CASE /\ workspaces' = SetCurrent([Current EXCEPT !.path = p])
             /\ cwd' = p /\ UNCHANGED cur_workspace
    <3> DEFINE new == [Current EXCEPT !.path = p]
    <3>1. new \in Workspace /\ new.id = Current.id /\ new.path = p
      BY <1>a DEF Workspace
    <3>2. workspaces' = SetCurrent(new)
      BY <2>2
    <3> HIDE DEF new
    <3> QED BY <2>2, <3>1, <3>2, <1>c
  <2> QED BY <1>10, <2>1, <2>2 DEF Cd
<1>11. ASSUME NEW p \in Vanishing, Vanish(p) \/ Appear(p)
       PROVE  Goal
  BY <1>11, <1>b DEF Vanish, Appear
<1> HIDE DEF Goal
<1> QED BY <1>0, <1>1, <1>2, <1>3, <1>4, <1>5, <1>6, <1>7, <1>8, <1>9, <1>10, <1>11
        DEF Next, Misused

(* There is a current workspace in every state, as long as the directories *)
(* of the workspaces stay where they are: closing any other workspace, in  *)
(* any order, keeps cur_workspace inside the list.                         *)
THEOREM CurrentAlwaysExists ==
  ASSUME Vanishing = {}
  PROVE  Spec => []CurrentExists
<1>1. Init => CurrentExists
  BY DEF Init, CurrentExists, HasCurrent
<1>2. TypeOK /\ TypeOK' /\ Undisturbed /\ Undisturbed' /\ CurrentExists /\ [Next]_vars
        => CurrentExists'
  BY SessionStep DEF CurrentExists, Followed
<1> QED BY <1>1, <1>2, TypeCorrect, UndisturbedInvariant, PTL DEF Spec

(* No command that succeeds in opening or closing a workspace moves the    *)
(* session to another one, whatever other programs do to the directories.  *)
THEOREM SessionNeverMoves == Spec => SessionStays
<1>1. TypeOK /\ TypeOK' /\ [Next]_vars
        => [HasCurrent /\ Ids' # Ids /\ lastExitCode' = 0
              => HasCurrent' /\ Current.id = (Current.id)']_vars
  BY SessionStep DEF Followed
<1> QED BY <1>1, TypeCorrect, PTL DEF Spec, SessionStays

(* The process follows the current workspace to its directory in every     *)
(* command that succeeds, except in a !switch by label, which is therefore *)
(* the one way in which the two come apart.                                *)
THEOREM DirectoryFollowsSession == Spec => OnlyLabelsPart
<1>1. TypeOK /\ TypeOK' /\ [Next]_vars
        => [HasCurrent /\ cwd = Current.path /\ lastExitCode' = 0
              => \/ HasCurrent' /\ cwd' = (Current.path)'
                 \/ \E word \in Words : SwitchToLabel(word)]_vars
  BY SessionStep DEF Followed
<1> QED BY <1>1, TypeCorrect, PTL DEF Spec, OnlyLabelsPart

-----------------------------------------------------------------------------
(***************************************************************************)
(* The scopes: no two workspaces share one, and what follows from that,    *)
(* that a command leaves the other workspaces and the older scopes alone.  *)
(***************************************************************************)
Unshared(list) ==
  \A i, j \in DOMAIN list :
    \A a \in DOMAIN list[i].scopes, b \in DOMAIN list[j].scopes :
      list[i].scopes[a] = list[j].scopes[b] => i = j /\ a = b

Distinct(s) == \A a, b \in DOMAIN s : s[a] = s[b] => a = b

\* The scopes of a new entry of the list: nobody's.
Fresh(w) == \A b \in DOMAIN w.scopes : w.scopes[b] \notin Owned(workspaces)

\* Those of an entry that takes the place of the current one: its own, or nobody's.
OwnOrFresh(w) ==
  \A b \in DOMAIN w.scopes :
    \/ \E a \in DOMAIN Current.scopes : w.scopes[b] = Current.scopes[a]
    \/ w.scopes[b] \notin Owned(workspaces)

(***************************************************************************)
(* What a step does to the list: nothing, or it replaces the current entry,*)
(* adds one at the end, or removes one.                                    *)
(***************************************************************************)
Replaces(w) ==
  /\ HasCurrent /\ w.id = Current.id
  /\ workspaces' = SetCurrent(w)
  /\ Distinct(w.scopes) /\ OwnOrFresh(w)

Adds(w) ==
  /\ w.id \notin Ids
  /\ workspaces' = Append(workspaces, w)
  /\ Distinct(w.scopes) /\ Fresh(w)

Removes(i) == workspaces' = RemoveAt(workspaces, i + 1)

ListChange ==
  \/ workspaces' = workspaces
  \/ \E w \in Workspace : Replaces(w)
  \/ \E w \in Workspace : Adds(w)
  \/ \E i \in Positions : Removes(i)

-----------------------------------------------------------------------------

LEMMA ScopeOwned ==
  ASSUME NEW list, NEW i \in DOMAIN list, NEW a \in DOMAIN list[i].scopes
  PROVE  list[i].scopes[a] \in Owned(list)
BY DEF Owned, ToSet

\* The scopes of one workspace are distinct.
LEMMA CurrentDistinct ==
  ASSUME TypeOK, HasCurrent, ScopesUnshared
  PROVE  /\ cur_workspace + 1 \in DOMAIN workspaces
         /\ Current = workspaces[cur_workspace + 1]
         /\ Current \in Workspace /\ Current.scopes \in Seq(ScopeIds)
         /\ Distinct(Current.scopes)
<1>1. cur_workspace + 1 \in DOMAIN workspaces /\ Current = workspaces[cur_workspace + 1]
  BY EntriesTyped DEF Current, At
<1>2. Current \in Workspace /\ Current.scopes \in Seq(ScopeIds)
  BY EntriesTyped DEF Workspace
<1> QED
  BY <1>1, <1>2 DEF ScopesUnshared, Distinct

LEMMA ReplaceUnshared ==
  ASSUME TypeOK, ScopesUnshared, NEW w \in Workspace, Replaces(w)
  PROVE  Unshared(workspaces')
<1> DEFINE c == cur_workspace + 1
           list == SetCurrent(w)
<1>1. /\ DOMAIN list = DOMAIN workspaces
      /\ \A i \in DOMAIN workspaces : list[i] = IF i = c THEN w ELSE workspaces[i]
      /\ c \in DOMAIN workspaces /\ Current = workspaces[c]
  BY SetCurrentTyped, CurrentDistinct DEF Replaces
<1> SUFFICES Unshared(list)
  BY DEF Replaces
<1> HIDE DEF list, c
<1>2. ASSUME NEW i \in DOMAIN workspaces, i # c,
             NEW a \in DOMAIN workspaces[i].scopes, NEW b \in DOMAIN w.scopes
      PROVE  workspaces[i].scopes[a] # w.scopes[b]
  <2>1. CASE \E d \in DOMAIN Current.scopes : w.scopes[b] = Current.scopes[d]
    BY <1>1, <1>2, <2>1 DEF ScopesUnshared
  <2>2. CASE w.scopes[b] \notin Owned(workspaces)
    BY <1>2, <2>2, ScopeOwned
  <2> QED
    BY <2>1, <2>2 DEF Replaces, OwnOrFresh
<1> SUFFICES ASSUME NEW i \in DOMAIN list, NEW j \in DOMAIN list,
                    NEW a \in DOMAIN list[i].scopes, NEW b \in DOMAIN list[j].scopes,
                    list[i].scopes[a] = list[j].scopes[b]
             PROVE  i = j /\ a = b
  BY DEF Unshared
<1>3. CASE i = c /\ j = c
  BY <1>1, <1>3 DEF Replaces, Distinct
<1>4. CASE i # c /\ j # c
  BY <1>1, <1>4 DEF ScopesUnshared
<1>5. CASE (i = c) # (j = c)
  BY <1>1, <1>2, <1>5
<1> QED
  BY <1>3, <1>4, <1>5

LEMMA AddUnshared ==
  ASSUME TypeOK, ScopesUnshared, NEW w \in Workspace, Adds(w)
  PROVE  Unshared(workspaces')
<1> DEFINE n == Len(workspaces) + 1
           list == Append(workspaces, w)
<1>1. /\ DOMAIN list = DOMAIN workspaces \cup {n}
      /\ n \notin DOMAIN workspaces
      /\ \A i \in DOMAIN workspaces : list[i] = workspaces[i]
      /\ list[n] = w
  <2>1. workspaces \in Seq(Workspace) /\ Len(workspaces) \in Nat
    BY LenProperties DEF TypeOK
  <2>2. /\ list \in Seq(Workspace) /\ Len(list) = Len(workspaces) + 1
        /\ \A i \in DOMAIN workspaces : list[i] = workspaces[i]
        /\ list[Len(workspaces) + 1] = w
    BY AppendTyped DEF Adds
  <2> HIDE DEF list
  <2>3. DOMAIN list = 1..n /\ DOMAIN workspaces = 1..Len(workspaces)
    BY <2>1, <2>2, LenProperties
  <2> QED
    BY <2>1, <2>2, <2>3
<1> SUFFICES Unshared(list)
  BY DEF Adds
<1> HIDE DEF list, n
<1>2. ASSUME NEW i \in DOMAIN workspaces,
             NEW a \in DOMAIN workspaces[i].scopes, NEW b \in DOMAIN w.scopes
      PROVE  workspaces[i].scopes[a] # w.scopes[b]
  BY ScopeOwned DEF Adds, Fresh
<1> SUFFICES ASSUME NEW i \in DOMAIN list, NEW j \in DOMAIN list,
                    NEW a \in DOMAIN list[i].scopes, NEW b \in DOMAIN list[j].scopes,
                    list[i].scopes[a] = list[j].scopes[b]
             PROVE  i = j /\ a = b
  BY DEF Unshared
<1>3. CASE i = n /\ j = n
  BY <1>1, <1>3 DEF Adds, Distinct
<1>4. CASE i # n /\ j # n
  BY <1>1, <1>4 DEF ScopesUnshared
<1>5. CASE (i = n) # (j = n)
  BY <1>1, <1>2, <1>5
<1> QED
  BY <1>3, <1>4, <1>5

\* An entry that is left after another one is removed is one there was.
LEMMA RemovedList ==
  ASSUME TypeOK, NEW i \in Positions
  PROVE  LET list == RemoveAt(workspaces, i + 1)
             from(c) == IF c < i + 1 THEN c ELSE c + 1
         IN /\ \A c \in DOMAIN list : from(c) \in DOMAIN workspaces /\ list[c] = workspaces[from(c)]
            /\ \A c, d \in DOMAIN list : from(c) = from(d) => c = d
            /\ \A c \in DOMAIN workspaces : c # i + 1 =>
                 \E d \in DOMAIN list : list[d] = workspaces[c]
<1> DEFINE list == RemoveAt(workspaces, i + 1)
           from(c) == IF c < i + 1 THEN c ELSE c + 1
<1>1. /\ workspaces \in Seq(Workspace) /\ i + 1 \in 1..Len(workspaces) /\ Len(workspaces) \in Nat
      /\ i \in Nat
  BY LenProperties DEF TypeOK, Positions
<1>2. /\ list \in Seq(Workspace) /\ Len(list) = Len(workspaces) - 1
      /\ \A j \in 1..Len(workspaces) - 1 :
           list[j] = IF j < i + 1 THEN workspaces[j] ELSE workspaces[j + 1]
  BY <1>1, RemoveAtLemma
<1> HIDE DEF list
<1>3. DOMAIN list = 1..Len(workspaces) - 1 /\ DOMAIN workspaces = 1..Len(workspaces)
  BY <1>1, <1>2, LenProperties
<1>4. \A c \in DOMAIN list : from(c) \in DOMAIN workspaces /\ list[c] = workspaces[from(c)]
  BY <1>1, <1>2, <1>3
<1>5. \A c, d \in DOMAIN list : from(c) = from(d) => c = d
  BY <1>1, <1>3
<1>6. ASSUME NEW c \in DOMAIN workspaces, c # i + 1
      PROVE  \E d \in DOMAIN list : list[d] = workspaces[c]
  <2>1. CASE c < i + 1
    <3>1. c \in DOMAIN list /\ list[c] = workspaces[c]
      BY <1>1, <1>2, <1>3, <2>1
    <3> QED
      BY <3>1
  <2>2. CASE c > i + 1
    <3>1. c - 1 \in DOMAIN list /\ list[c - 1] = workspaces[c]
      BY <1>1, <1>2, <1>3, <2>2
    <3> QED
      BY <3>1
  <2> QED
    BY <1>1, <1>3, <1>6, <2>1, <2>2
<1> QED
  BY <1>4, <1>5, <1>6 DEF list

LEMMA RemoveUnshared ==
  ASSUME TypeOK, ScopesUnshared, NEW i \in Positions, Removes(i)
  PROVE  Unshared(workspaces')
<1> DEFINE list == RemoveAt(workspaces, i + 1)
           from(c) == IF c < i + 1 THEN c ELSE c + 1
<1>1. /\ \A c \in DOMAIN list : from(c) \in DOMAIN workspaces /\ list[c] = workspaces[from(c)]
      /\ \A c, d \in DOMAIN list : from(c) = from(d) => c = d
  BY RemovedList
<1> SUFFICES Unshared(list)
  BY DEF Removes
<1> HIDE DEF list, from
<1> QED
  BY <1>1 DEF Unshared, ScopesUnshared

-----------------------------------------------------------------------------
(* The steps. *)

\* What is left of a stack of scopes when one is dropped: the others, once each.
LEMMA DroppedStack ==
  ASSUME NEW s \in Seq(ScopeIds), NEW m \in 1..Len(s), Distinct(s)
  PROVE  /\ RemoveAt(s, m) \in Seq(ScopeIds) /\ Distinct(RemoveAt(s, m))
         /\ \A b \in DOMAIN RemoveAt(s, m) :
              \E a \in DOMAIN s \ {m} : RemoveAt(s, m)[b] = s[a]
<1> DEFINE r == RemoveAt(s, m)
           from(c) == IF c < m THEN c ELSE c + 1
<1>1. /\ r \in Seq(ScopeIds) /\ Len(r) = Len(s) - 1
      /\ \A j \in 1..Len(s) - 1 : r[j] = IF j < m THEN s[j] ELSE s[j + 1]
  BY RemoveAtLemma
<1> HIDE DEF r
<1>2. DOMAIN r = 1..Len(s) - 1 /\ DOMAIN s = 1..Len(s) /\ Len(s) \in Nat
  BY <1>1, LenProperties
<1>3. \A c \in DOMAIN r : from(c) \in DOMAIN s \ {m} /\ r[c] = s[from(c)]
  BY <1>1, <1>2
<1>4. \A c, d \in DOMAIN r : from(c) = from(d) => c = d
  BY <1>2
<1> HIDE DEF from
<1>5. Distinct(r)
  BY <1>3, <1>4 DEF Distinct
<1> QED
  BY <1>1, <1>3, <1>5 DEF r

\* An entry with the scopes of the current one.
LEMMA SameScopesOwn ==
  ASSUME TypeOK, HasCurrent, ScopesUnshared, NEW w \in Workspace, w.id = Current.id,
         w.scopes = Current.scopes, workspaces' = SetCurrent(w)
  PROVE  ListChange
<1>1. Distinct(w.scopes) /\ OwnOrFresh(w)
  BY CurrentDistinct DEF OwnOrFresh
<1>2. Replaces(w)
  BY <1>1 DEF Replaces
<1> QED
  BY <1>2 DEF ListChange

LEMMA Lists == ASSUME TypeOK, ScopesUnshared, [Next]_vars PROVE ListChange
<1>0. CASE UNCHANGED vars \/ Refuse
  BY <1>0 DEF vars, Refuse, ListChange
<1>1. CASE NewWorkspace
  <2>1. ASSUME HasCurrent, NEW id \in WorkspaceIds \ Ids,
               workspaces' = Append(workspaces,
                               [id |-> id, name |-> NoLabel,
                                path |-> Current.path, scopes |-> <<>>])
        PROVE  ListChange
    <3> DEFINE w == [id |-> id, name |-> NoLabel, path |-> Current.path, scopes |-> <<>>]
    <3>1. w \in Workspace
      BY <2>1, CurrentDistinct DEF Workspace
    <3>2. Adds(w)
      BY <2>1 DEF Adds, Distinct, Fresh
    <3> QED
      BY <3>1, <3>2 DEF ListChange
  <2> QED
    BY <1>0, <1>1, <2>1 DEF NewWorkspace
<1>2. ASSUME NEW name \in ScopeNames, NewScope(name)
      PROVE  ListChange
  <2>1. ASSUME HasCurrent, NEW s \in ScopeIds \ Owned(workspaces),
               workspaces' = SetCurrent([Current EXCEPT !.scopes = Append(@, s)])
        PROVE  ListChange
    <3> DEFINE w == [Current EXCEPT !.scopes = Append(@, s)]
    <3>1. /\ Current \in Workspace /\ Current.scopes \in Seq(ScopeIds)
          /\ Distinct(Current.scopes)
          /\ \A a \in DOMAIN Current.scopes : Current.scopes[a] # s
      BY <2>1, CurrentDistinct, ScopeOwned
    <3>2. w \in Workspace /\ w.id = Current.id /\ w.scopes = Append(Current.scopes, s)
      BY <3>1, AppendProperties DEF Workspace
    <3>3. /\ Len(Current.scopes) \in Nat /\ DOMAIN Current.scopes = 1..Len(Current.scopes)
          /\ DOMAIN w.scopes = 1..(Len(Current.scopes) + 1)
          /\ \A a \in 1..Len(Current.scopes) : w.scopes[a] = Current.scopes[a]
          /\ w.scopes[Len(Current.scopes) + 1] = s
      BY <3>1, <3>2, AppendProperties, LenProperties
    <3>4. workspaces' = SetCurrent(w)
      BY <2>1
    <3> HIDE DEF w
    <3>5. Distinct(w.scopes)
      <4> SUFFICES ASSUME NEW a \in DOMAIN w.scopes, NEW b \in DOMAIN w.scopes,
                          w.scopes[a] = w.scopes[b]
                   PROVE  a = b
        BY DEF Distinct
      <4>1. CASE a \in 1..Len(Current.scopes) /\ b \in 1..Len(Current.scopes)
        BY <3>1, <3>3, <4>1 DEF Distinct
      <4>2. CASE ~(a \in 1..Len(Current.scopes) /\ b \in 1..Len(Current.scopes))
        BY <3>1, <3>3, <4>2
      <4> QED
        BY <4>1, <4>2
    <3>6. OwnOrFresh(w)
      BY <2>1, <3>3 DEF OwnOrFresh
    <3> QED
      BY <2>1, <3>2, <3>4, <3>5, <3>6 DEF ListChange, Replaces
  <2> QED
    BY <1>0, <1>2, <2>1 DEF NewScope
<1>3. ASSUME NEW word \in Words, SwitchToLabel(word)
      PROVE  ListChange
  BY <1>3 DEF SwitchToLabel, ListChange
<1>4. ASSUME NEW word \in Words, SwitchToIndex(word) \/ Close(word)
      PROVE  ListChange
  BY <1>0, <1>4 DEF SwitchToIndex, Close, IsIndex, ListChange, Removes
<1>5. ASSUME NEW word \in Words, Clone(word)
      PROVE  ListChange
  <2>1. ASSUME IsIndex(word), NEW id \in WorkspaceIds \ Ids,
               NEW copy \in NewScopes(At(Index[word]).scopes),
               workspaces' = Append(workspaces,
                 [At(Index[word]) EXCEPT !.id = id, !.scopes = copy])
        PROVE  ListChange
    <3> DEFINE ws == At(Index[word])
               w == [ws EXCEPT !.id = id, !.scopes = copy]
    <3>1. ws \in Workspace /\ ws.scopes \in Seq(ScopeIds)
      BY <2>1, EntriesTyped DEF Workspace
    <3>2. /\ copy \in [DOMAIN ws.scopes -> ScopeIds \ Owned(workspaces)]
          /\ IsInjective(copy)
      BY <2>1 DEF NewScopes, Injection
    <3>3. copy \in Seq(ScopeIds) /\ Distinct(copy)
      BY <3>1, <3>2 DEF IsInjective, Distinct
    <3>4. w \in Workspace /\ w.id = id /\ w.scopes = copy
      BY <3>1, <3>3 DEF Workspace
    <3>5. workspaces' = Append(workspaces, w)
      BY <2>1
    <3> HIDE DEF w
    <3>6. Adds(w)
      BY <2>1, <3>2, <3>3, <3>4, <3>5 DEF Adds, Fresh
    <3> QED
      BY <3>4, <3>6 DEF ListChange
  <2> QED
    BY <1>0, <1>5, <2>1 DEF Clone
<1>6. ASSUME NEW name \in ScopeNames, Drop(name)
      PROVE  ListChange
  <2> DEFINE Named == {j \in DOMAIN Current.scopes : scope[Current.scopes[j]].name = name}
  <2>1. ASSUME HasCurrent, Named # {},
               workspaces' = SetCurrent([Current EXCEPT !.scopes = RemoveAt(@, Min(Named))])
        PROVE  ListChange
    <3> DEFINE m == Min(Named)
               w == [Current EXCEPT !.scopes = RemoveAt(@, m)]
    <3>1. /\ Current \in Workspace /\ Current.scopes \in Seq(ScopeIds)
          /\ Distinct(Current.scopes)
      BY <2>1, CurrentDistinct
    <3>2. m \in 1..Len(Current.scopes)
      <4>1. Named \subseteq Nat /\ DOMAIN Current.scopes = 1..Len(Current.scopes)
        BY <3>1
      <4>2. Named # {}
        BY <2>1
      <4> HIDE DEF Named
      <4>3. Min(Named) \in Named
        BY <4>1, <4>2, MinInSet
      <4> QED
        BY <4>1, <4>3 DEF Named
    <3>3. workspaces' = SetCurrent(w)
      BY <2>1
    <3> HIDE DEF m
    <3>4. /\ RemoveAt(Current.scopes, m) \in Seq(ScopeIds)
          /\ Distinct(RemoveAt(Current.scopes, m))
          /\ \A b \in DOMAIN RemoveAt(Current.scopes, m) :
               \E a \in DOMAIN Current.scopes \ {m} :
                 RemoveAt(Current.scopes, m)[b] = Current.scopes[a]
      BY <3>1, <3>2, DroppedStack
    <3>5. w \in Workspace /\ w.id = Current.id /\ w.scopes = RemoveAt(Current.scopes, m)
      BY <3>1, <3>4 DEF Workspace
    <3> HIDE DEF w
    <3>6. Distinct(w.scopes) /\ OwnOrFresh(w)
      BY <3>4, <3>5 DEF OwnOrFresh
    <3> QED
      BY <2>1, <3>3, <3>5, <3>6 DEF ListChange, Replaces
  <2> QED
    BY <1>0, <1>6, <2>1 DEF Drop
<1>7. ASSUME NEW k \in Keys, NEW v \in Values, Set(k, v) \/ SetIfn(k, v)
      PROVE  ListChange
  BY <1>0, <1>7 DEF Set, SetIfn, ListChange
<1>8. ASSUME NEW l \in Labels, Label(l)
      PROVE  ListChange
  <2>1. ASSUME HasCurrent, workspaces' = SetCurrent([Current EXCEPT !.name = l])
        PROVE  ListChange
    <3> DEFINE w == [Current EXCEPT !.name = l]
    <3>1. w \in Workspace /\ w.id = Current.id /\ w.scopes = Current.scopes
      BY <2>1, CurrentDistinct DEF Workspace
    <3>2. workspaces' = SetCurrent(w)
      BY <2>1
    <3> HIDE DEF w
    <3> QED
      BY <2>1, <3>1, <3>2, SameScopesOwn
  <2> QED
    BY <1>0, <1>8, <2>1 DEF Label
<1>9. ASSUME NEW p \in Paths, Cd(p)
      PROVE  ListChange
  <2>1. ASSUME HasCurrent, workspaces' = SetCurrent([Current EXCEPT !.path = p])
        PROVE  ListChange
    <3> DEFINE w == [Current EXCEPT !.path = p]
    <3>1. w \in Workspace /\ w.id = Current.id /\ w.scopes = Current.scopes
      BY <2>1, CurrentDistinct DEF Workspace
    <3>2. workspaces' = SetCurrent(w)
      BY <2>1
    <3> HIDE DEF w
    <3> QED
      BY <2>1, <3>1, <3>2, SameScopesOwn
  <2>2. CASE workspaces' = workspaces
    BY <2>2 DEF ListChange
  <2> QED
    BY <1>0, <1>9, <2>1, <2>2 DEF Cd
<1>10. ASSUME NEW p \in Vanishing, Vanish(p) \/ Appear(p)
       PROVE  ListChange
  BY <1>10 DEF Vanish, Appear, ListChange
<1> QED
  BY <1>0, <1>1, <1>2, <1>3, <1>4, <1>5, <1>6, <1>7, <1>8, <1>9, <1>10 DEF Next, Misused

LEMMA ScopesStep == ASSUME TypeOK, ScopesUnshared, [Next]_vars PROVE ScopesUnshared'
<1>1. CASE workspaces' = workspaces
  BY <1>1 DEF ScopesUnshared
<1>2. Unshared(workspaces') => ScopesUnshared'
  BY DEF Unshared, ScopesUnshared
<1> QED
  BY <1>1, <1>2, Lists, ReplaceUnshared, AddUnshared, RemoveUnshared DEF ListChange

(* No scope is reachable from two workspaces, or twice from one: what is   *)
(* set in one never shows in another, whatever is cloned, dropped and      *)
(* closed (Workspace.Clone, Scope.Clone).                                  *)
THEOREM NoScopeShared == Spec => []ScopesUnshared
<1>1. Init => ScopesUnshared
  BY DEF Init, ScopesUnshared
<1>2. TypeOK /\ ScopesUnshared /\ [Next]_vars => ScopesUnshared'
  BY ScopesStep
<1> QED
  BY <1>1, <1>2, TypeCorrect, PTL DEF Spec

-----------------------------------------------------------------------------
(* What is in the scopes. *)

LEMMA OwnedTyped == ASSUME TypeOK PROVE Owned(workspaces) \subseteq ScopeIds
<1> SUFFICES ASSUME NEW i \in DOMAIN workspaces, NEW a \in DOMAIN workspaces[i].scopes
             PROVE  workspaces[i].scopes[a] \in ScopeIds
  BY DEF Owned, ToSet
<1>1. workspaces[i] \in Workspace
  BY ElementOfSeq DEF TypeOK
<1>2. workspaces[i].scopes \in Seq(ScopeIds)
  BY <1>1 DEF Workspace
<1> QED
  BY <1>2

\* The newest scope of a workspace is one of its scopes.
LEMMA NewestTyped ==
  ASSUME TypeOK, ScopesUnshared, HasScope
  PROVE  \E a \in DOMAIN Current.scopes : NewestScope = Current.scopes[a]
<1>1. Current.scopes \in Seq(ScopeIds) /\ Current.scopes # <<>>
  BY CurrentDistinct DEF HasScope
<1>2. Len(Current.scopes) \in DOMAIN Current.scopes
  BY <1>1
<1> QED
  BY <1>2 DEF NewestScope, Last

\* A scope that is dropped is in no workspace any more.
LEMMA DroppedGone ==
  ASSUME TypeOK, ScopesUnshared, HasCurrent, NEW w \in Workspace, w.id = Current.id,
         NEW m \in 1..Len(Current.scopes), w.scopes = RemoveAt(Current.scopes, m)
  PROVE  Current.scopes[m] \notin Owned(SetCurrent(w))
<1> DEFINE c == cur_workspace + 1
           list == SetCurrent(w)
<1>1. /\ DOMAIN list = DOMAIN workspaces
      /\ \A i \in DOMAIN workspaces : list[i] = IF i = c THEN w ELSE workspaces[i]
      /\ c \in DOMAIN workspaces /\ Current = workspaces[c]
  BY SetCurrentTyped, CurrentDistinct
<1>2. Current.scopes \in Seq(ScopeIds) /\ Distinct(Current.scopes)
  BY CurrentDistinct
<1>3. \A b \in DOMAIN w.scopes :
        \E a \in DOMAIN Current.scopes \ {m} : w.scopes[b] = Current.scopes[a]
  BY <1>2, DroppedStack
<1>4. m \in DOMAIN Current.scopes
  BY <1>2
<1> HIDE DEF list, c
<1> SUFFICES ASSUME NEW i \in DOMAIN list, NEW a \in DOMAIN list[i].scopes,
                    list[i].scopes[a] = Current.scopes[m]
             PROVE  FALSE
  BY DEF Owned, ToSet, list
<1>5. CASE i = c
  <2>1. list[i] = w
    BY <1>1, <1>5
  <2>2. PICK d \in DOMAIN Current.scopes \ {m} : w.scopes[a] = Current.scopes[d]
    BY <1>3, <2>1
  <2> QED
    BY <1>2, <1>4, <2>1, <2>2 DEF Distinct
<1>6. CASE i # c
  BY <1>1, <1>4, <1>6 DEF ScopesUnshared
<1> QED
  BY <1>5, <1>6

LEMMA HeapStep ==
  ASSUME TypeOK, ScopesUnshared, [Next]_vars,
         NEW s \in Owned(workspaces) \cap Owned(workspaces'),
         ~HasScope \/ s # NewestScope
  PROVE  scope'[s] = scope[s]
<1>a. s \in ScopeIds /\ scope \in [ScopeIds -> Scope]
  BY OwnedTyped DEF TypeOK
<1>b. \A heap : Collected(heap, workspaces')[s] = heap[s]
  BY <1>a DEF Collected
<1>0. CASE UNCHANGED vars \/ Refuse \/ NewWorkspace
  BY <1>0 DEF vars, Refuse, NewWorkspace
<1>1. ASSUME NEW name \in ScopeNames, NewScope(name)
      PROVE  scope'[s] = scope[s]
  BY <1>a, <1>0, <1>1 DEF NewScope
<1>2. ASSUME NEW word \in Words, SwitchToLabel(word) \/ SwitchToIndex(word) \/ Close(word)
      PROVE  scope'[s] = scope[s]
  BY <1>b, <1>0, <1>2 DEF SwitchToLabel, SwitchToIndex, Close
<1>3. ASSUME NEW word \in Words, Clone(word)
      PROVE  scope'[s] = scope[s]
  <2>1. ASSUME NEW copy \in NewScopes(At(Index[word]).scopes),
               scope' = [t \in ScopeIds |->
                           IF \E j \in DOMAIN copy : copy[j] = t
                           THEN scope[At(Index[word]).scopes
                                        [CHOOSE j \in DOMAIN copy : copy[j] = t]]
                           ELSE scope[t]]
        PROVE  scope'[s] = scope[s]
    <3>1. ~ \E j \in DOMAIN copy : copy[j] = s
      BY <2>1 DEF NewScopes, Injection
    <3> QED
      BY <1>a, <2>1, <3>1
  <2> QED
    BY <1>0, <1>3, <2>1 DEF Clone
<1>4. ASSUME NEW name \in ScopeNames, Drop(name)
      PROVE  scope'[s] = scope[s]
  <2> DEFINE Named == {j \in DOMAIN Current.scopes : scope[Current.scopes[j]].name = name}
  <2>1. ASSUME HasCurrent, Named # {},
               workspaces' = SetCurrent([Current EXCEPT !.scopes = RemoveAt(@, Min(Named))]),
               scope' = Collected([scope EXCEPT
                          ![Current.scopes[Min(Named)]].overrides = NoOverrides], workspaces')
        PROVE  scope'[s] = scope[s]
    <3> DEFINE m == Min(Named)
               w == [Current EXCEPT !.scopes = RemoveAt(@, m)]
               heap == [scope EXCEPT ![Current.scopes[m]].overrides = NoOverrides]
    <3>1. /\ Current \in Workspace /\ Current.scopes \in Seq(ScopeIds)
          /\ Distinct(Current.scopes)
      BY <2>1, CurrentDistinct
    <3>2. m \in 1..Len(Current.scopes)
      <4>1. Named \subseteq Nat /\ DOMAIN Current.scopes = 1..Len(Current.scopes)
        BY <3>1
      <4>2. Named # {}
        BY <2>1
      <4> HIDE DEF Named
      <4>3. Min(Named) \in Named
        BY <4>1, <4>2, MinInSet
      <4> QED
        BY <4>1, <4>3 DEF Named
    <3>3. workspaces' = SetCurrent(w) /\ scope' = Collected(heap, workspaces')
      BY <2>1
    <3> HIDE DEF m, Named
    <3>4. w \in Workspace /\ w.id = Current.id /\ w.scopes = RemoveAt(Current.scopes, m)
      BY <3>1, <3>2, DroppedStack DEF Workspace
    <3> HIDE DEF w
    <3>5. s # Current.scopes[m]
      BY <2>1, <3>2, <3>3, <3>4, DroppedGone
    <3>6. heap[s] = scope[s]
      BY <1>a, <3>5
    <3> HIDE DEF heap
    <3> QED
      BY <1>b, <3>3, <3>6
  <2> QED
    BY <1>0, <1>4, <2>1 DEF Drop
<1>5. ASSUME NEW k \in Keys, NEW v \in Values, Set(k, v) \/ SetIfn(k, v)
      PROVE  scope'[s] = scope[s]
  BY <1>a, <1>0, <1>5 DEF Set, SetIfn
<1>6. ASSUME NEW l \in Labels, Label(l)
      PROVE  scope'[s] = scope[s]
  BY <1>0, <1>6 DEF Label
<1>7. ASSUME NEW p \in Paths, Cd(p)
      PROVE  scope'[s] = scope[s]
  BY <1>0, <1>7 DEF Cd
<1>8. ASSUME NEW p \in Vanishing, Vanish(p) \/ Appear(p)
      PROVE  scope'[s] = scope[s]
  BY <1>8 DEF Vanish, Appear
<1> QED
  BY <1>0, <1>1, <1>2, <1>3, <1>4, <1>5, <1>6, <1>7, <1>8 DEF Next, Misused

(* A scope that stays open keeps its contents unless it is the newest one  *)
(* of the current workspace: !drop gives back the environment that was in  *)
(* force before the scope was opened.                                      *)
THEOREM OlderScopesStay == Spec => OlderScopesFrozen
<1>1. TypeOK /\ ScopesUnshared /\ [Next]_vars
        => [\A s \in Owned(workspaces) \cap Owned(workspaces') :
              (~HasScope \/ s # Last(Current.scopes)) => scope'[s] = scope[s]]_vars
  BY HeapStep DEF NewestScope
<1> QED
  BY <1>1, TypeCorrect, NoScopeShared, PTL DEF Spec, OlderScopesFrozen

-----------------------------------------------------------------------------
(* The other workspaces. *)

\* An entry that is not the current one and is not removed stays as it is.
LEMMA EntryKept ==
  ASSUME TypeOK, ListChange, NEW i \in DOMAIN workspaces, workspaces[i].id \in Ids',
         HasCurrent => i # cur_workspace + 1
  PROVE  \E j \in DOMAIN workspaces' : workspaces'[j] = workspaces[i]
<1>1. CASE workspaces' = workspaces
  BY <1>1
<1>2. ASSUME NEW w \in Workspace, Replaces(w)
      PROVE  \E j \in DOMAIN workspaces' : workspaces'[j] = workspaces[i]
  <2>1. HasCurrent /\ w.id = Current.id /\ workspaces' = SetCurrent(w)
    BY <1>2 DEF Replaces
  <2>2. i \in DOMAIN SetCurrent(w) /\ SetCurrent(w)[i] = workspaces[i]
    BY <2>1, SetCurrentTyped
  <2> QED
    BY <2>1, <2>2
<1>3. ASSUME NEW w \in Workspace, Adds(w)
      PROVE  \E j \in DOMAIN workspaces' : workspaces'[j] = workspaces[i]
  <2>1. /\ workspaces \in Seq(Workspace) /\ i \in 1..Len(workspaces)
        /\ workspaces' = Append(workspaces, w)
    BY <1>3 DEF TypeOK, Adds
  <2>2. i \in DOMAIN Append(workspaces, w) /\ Append(workspaces, w)[i] = workspaces[i]
    BY <2>1, AppendProperties
  <2> QED
    BY <2>1, <2>2
<1>4. ASSUME NEW k \in Positions, Removes(k)
      PROVE  \E j \in DOMAIN workspaces' : workspaces'[j] = workspaces[i]
  <2> DEFINE list == RemoveAt(workspaces, k + 1)
             from(c) == IF c < k + 1 THEN c ELSE c + 1
  <2>1. /\ \A c \in DOMAIN list : from(c) \in DOMAIN workspaces /\ list[c] = workspaces[from(c)]
        /\ \A c \in DOMAIN workspaces : c # k + 1 =>
             \E d \in DOMAIN list : list[d] = workspaces[c]
    BY RemovedList
  <2>2. i # k + 1
    <3> SUFFICES ASSUME i = k + 1 PROVE FALSE
      OBVIOUS
    <3>1. workspaces' = list /\ list \in Seq(Workspace)
      BY <1>4, RemoveTyped DEF Removes
    <3> HIDE DEF list
    <3>2. PICK c \in DOMAIN list : list[c].id = workspaces[i].id
      <4>1. PICK p \in 0..(Len(workspaces') - 1) : workspaces'[p + 1].id = workspaces[i].id
        BY DEF Ids, Positions, At
      <4>2. p + 1 \in DOMAIN list
        BY <3>1, <4>1, LenProperties
      <4> QED
        BY <3>1, <4>1, <4>2
    <3>3. from(c) \in DOMAIN workspaces /\ workspaces[from(c)].id = workspaces[i].id
      BY <2>1, <3>2
    <3>4. from(c) = i
      <4> HIDE DEF from
      <4> QED
        BY <3>3 DEF TypeOK
    <3>5. c \in Nat /\ k \in Nat
      BY <3>1, LenProperties DEF Positions
    <3> QED
      BY <3>4, <3>5
  <2> QED
    BY <1>4, <2>1, <2>2 DEF Removes
<1> QED
  BY <1>1, <1>2, <1>3, <1>4 DEF ListChange

LEMMA IsolatedStep ==
  ASSUME TypeOK, ScopesUnshared, [Next]_vars,
         NEW i \in DOMAIN workspaces, workspaces[i].id \in Ids',
         HasCurrent => i # cur_workspace + 1
  PROVE  \E j \in DOMAIN workspaces' : View(j)' = View(i)
<1>1. PICK j \in DOMAIN workspaces' : workspaces'[j] = workspaces[i]
  BY Lists, EntryKept
<1>2. ASSUME NEW a \in DOMAIN workspaces[i].scopes
      PROVE  scope'[workspaces[i].scopes[a]] = scope[workspaces[i].scopes[a]]
  <2> DEFINE s == workspaces[i].scopes[a]
  <2>1. s \in Owned(workspaces) \cap Owned(workspaces')
    BY <1>1, ScopeOwned
  <2>2. HasScope => s # NewestScope
    <3> SUFFICES ASSUME HasScope, s = NewestScope PROVE FALSE
      OBVIOUS
    <3>1. PICK b \in DOMAIN Current.scopes : NewestScope = Current.scopes[b]
      BY NewestTyped
    <3>2. /\ cur_workspace + 1 \in DOMAIN workspaces /\ HasCurrent
          /\ Current = workspaces[cur_workspace + 1]
      BY CurrentDistinct DEF HasScope
    <3> QED
      BY <3>1, <3>2 DEF ScopesUnshared
  <2> HIDE DEF s
  <2>3. scope'[s] = scope[s]
    BY <2>1, <2>2, HeapStep
  <2> QED
    BY <2>3 DEF s
<1>3. View(j)' = View(i)
  BY <1>1, <1>2 DEF View
<1> QED
  BY <1>3

(* A step of the session leaves every workspace but the current one as it  *)
(* was, its scopes and what is in them included, unless it closes it.      *)
THEOREM OthersUntouched == Spec => Isolation
<1>1. TypeOK /\ ScopesUnshared /\ [Next]_vars
        => [\A i \in DOMAIN workspaces :
              (workspaces[i].id \in Ids' /\ (HasCurrent => i # cur_workspace + 1))
                => \E j \in DOMAIN workspaces' : View(j)' = View(i)]_vars
  BY IsolatedStep
<1> QED
  BY <1>1, TypeCorrect, NoScopeShared, PTL DEF Spec, Isolation

-----------------------------------------------------------------------------
(* What a failed !switch drops. *)

LEMMA DroppedStep ==
  ASSUME TypeOK, [Next]_vars, NEW i \in DOMAIN workspaces,
         workspaces[i].id \notin Ids', lastExitCode' = 1
  PROVE  workspaces[i].path \notin dirs
<1>1. workspaces' # workspaces
  <2> SUFFICES ASSUME workspaces' = workspaces PROVE FALSE
    OBVIOUS
  <2>1. i - 1 \in Positions' /\ At(i - 1)' = workspaces[i]
    BY LenProperties DEF Positions, At, TypeOK
  <2> QED
    BY <2>1 DEF Ids
<1>2. PICK word \in Words : SwitchToIndex(word)
  BY <1>1 DEF Next, vars, Misused, Refuse, NewWorkspace, NewScope, Drop, SwitchToLabel,
              Close, Clone, Set, SetIfn, Label, Cd, Vanish, Appear
<1> DEFINE k == Index[word]
           list == RemoveAt(workspaces, k + 1)
<1>3. k \in Positions /\ At(k).path \notin dirs /\ workspaces' = list
  BY <1>1, <1>2 DEF SwitchToIndex, Refuse, IsIndex
<1>4. list \in Seq(Workspace)
  BY <1>3, RemoveTyped
<1>5. i # k + 1 => \E d \in DOMAIN list : list[d] = workspaces[i]
  BY <1>3, RemovedList
<1> HIDE DEF list, k
<1>6. ASSUME NEW d \in DOMAIN list, list[d] = workspaces[i] PROVE FALSE
  <2>1. d - 1 \in Positions' /\ At(d - 1)' = workspaces[i]
    BY <1>3, <1>4, <1>6, LenProperties DEF Positions, At
  <2> QED
    BY <2>1 DEF Ids
<1> QED
  BY <1>3, <1>5, <1>6 DEF At

(* A workspace that can still be entered is never dropped by a command that *)
(* fails: !switch removes an entry only where its directory is gone.        *)
THEOREM OnlyDeadDropped == Spec => OnlyDeadEntriesDropped
<1>1. TypeOK /\ [Next]_vars
        => [\A i \in DOMAIN workspaces :
              workspaces[i].id \notin Ids' /\ lastExitCode' = 1
                => workspaces[i].path \notin dirs]_vars
  BY DroppedStep
<1> QED
  BY <1>1, TypeCorrect, PTL DEF Spec, OnlyDeadEntriesDropped

-----------------------------------------------------------------------------
(***************************************************************************)
(* The three ways in which the code finds the value of a variable.         *)
(* commandEnvironment builds the environment from the oldest scope to the  *)
(* newest; what a set S of the positions has given it in the end is        *)
(* Layered(S), which takes every variable from the newest of the scopes    *)
(* that override it, as GetEnvValue does.                                  *)
(***************************************************************************)
Overriding(S, k) == {j \in S : Overrides(Current.scopes[j], k)}

Layered(S) ==
  [k \in Keys |-> IF Overriding(S, k) = {} THEN OsEnv[k]
                  ELSE scope[Current.scopes[Max(Overriding(S, k))]].overrides[k]]

\* The scope on top of those of S decides, where it overrides.
LEMMA LayeredOnTop ==
  ASSUME TypeOK, HasCurrent, NEW S \in SUBSET DOMAIN Current.scopes, S # {}
  PROVE  Override(Layered(S \ {Max(S)}), Current.scopes[Max(S)]) = Layered(S)
<1> DEFINE m == Max(S)
<1>1. S \subseteq 0 .. Len(Current.scopes) /\ Len(Current.scopes) \in Nat
  BY EntriesTyped, LenProperties DEF Workspace
<1>2. m \in S /\ \A n \in S : n <= m
  BY <1>1, MaxInSet
<1> HIDE DEF m
<1>3. SUFFICES ASSUME NEW k \in Keys
               PROVE  Override(Layered(S \ {m}), Current.scopes[m])[k] = Layered(S)[k]
  BY DEF Override, Layered, m
<1>4. CASE m \in Overriding(S, k)
  <2>1. Max(Overriding(S, k)) = m
    BY <1>1, <1>2, <1>4, MaxOfSet DEF Overriding, Overrides
  <2> QED
    BY <1>4, <2>1 DEF Override, Overrides, Layered, Overriding
<1>5. CASE m \notin Overriding(S, k)
  <2>1. Overriding(S \ {m}, k) = Overriding(S, k)
    BY <1>5 DEF Overriding
  <2> QED
    BY <1>2, <1>5, <2>1 DEF Override, Overrides, Layered, Overriding
<1> QED
  BY <1>4, <1>5

\* The recursion of FoldLeft has one solution, which is Layered.
LEMMA EnvironmentLayered ==
  ASSUME TypeOK, HasCurrent
  PROVE  commandEnvironment = Layered(DOMAIN Current.scopes)
<1> DEFINE D == DOMAIN Current.scopes
           Folds(h) ==
             h = [S \in SUBSET D |->
                    IF S = {} THEN OsEnv
                    ELSE Override(h[S \ {Max(S)}], Current.scopes[Max(S)])]
           L == [S \in SUBSET D |-> Layered(S)]
<1>1. commandEnvironment = (CHOOSE h : Folds(h))[D]
  BY Zenon DEF commandEnvironment, FoldLeft, MapThenFoldSet
<1>2. D = 1 .. Len(Current.scopes) /\ Len(Current.scopes) \in Nat
  BY EntriesTyped, LenProperties DEF Workspace
<1>3. Layered({}) = OsEnv
  BY ValuesAssumption DEF Layered, Overriding
<1>4. Folds(L)
  <2> SUFFICES ASSUME NEW S \in SUBSET D
               PROVE  L[S] = IF S = {} THEN OsEnv
                             ELSE Override(L[S \ {Max(S)}], Current.scopes[Max(S)])
    BY Zenon
  <2>1. L[S] = Layered(S) /\ L[S \ {Max(S)}] = Layered(S \ {Max(S)})
    BY Zenon
  <2> HIDE DEF L
  <2> QED
    BY <1>3, <2>1, LayeredOnTop, Zenon
<1>5. ASSUME NEW h, Folds(h) PROVE h[D] = L[D]
  <2> DEFINE Differ == {n \in 0 .. Len(Current.scopes) :
                          \E S \in SUBSET (1 .. n) : h[S] # L[S]}
  <2>1. \A S \in SUBSET D :
          h[S] = IF S = {} THEN OsEnv
                 ELSE Override(h[S \ {Max(S)}], Current.scopes[Max(S)])
    BY <1>5, Zenon
  <2>2. \A S \in SUBSET D :
          L[S] = IF S = {} THEN OsEnv
                 ELSE Override(L[S \ {Max(S)}], Current.scopes[Max(S)])
    BY <1>4, Zenon
  <2> HIDE DEF Folds, L
  <2>3. ASSUME Differ # {} PROVE FALSE
    <3>1. Differ \subseteq Nat
      BY <1>2
    <3> DEFINE n == Min(Differ)
    <3>2. n \in Differ /\ \A j \in Differ : n <= j
      BY <2>3, <3>1, MinInSet
    <3> HIDE DEF n
    <3>3. PICK S \in SUBSET (1 .. n) : h[S] # L[S]
      BY <3>2
    <3>4. S \in SUBSET D /\ n \in 0 .. Len(Current.scopes)
      BY <1>2, <3>2
    <3>5. S # {}
      BY <2>1, <2>2, <3>3, <3>4
    <3>6. Max(S) \in S /\ \A j \in S : j <= Max(S)
      <4>1. n \in Nat
        BY <1>2, <3>4
      <4>2. S \in SUBSET (0 .. n)
        BY <4>1
      <4> QED
        BY <3>5, <4>1, <4>2, MaxInSet
    <3>7. /\ n - 1 \in 0 .. Len(Current.scopes) /\ n - 1 < n
          /\ S \ {Max(S)} \in SUBSET (1 .. (n - 1))
      <4>1. n \in Nat /\ Max(S) \in 1 .. n
        <5>1. n \in Nat
          BY <1>2, <3>4
        <5> QED
          BY <3>6, <5>1
      <4>2. n # 0
        BY <4>1
      <4>3. n - 1 \in 0 .. Len(Current.scopes) /\ n - 1 < n
        BY <1>2, <3>4, <4>1, <4>2
      <4>4. ASSUME NEW x \in S \ {Max(S)} PROVE x \in 1 .. (n - 1)
        <5>1. x \in 1 .. n /\ x <= Max(S) /\ x # Max(S)
          BY <3>6
        <5> QED
          BY <4>1, <5>1
      <4> QED
        BY <4>3, <4>4
    <3>8. h[S \ {Max(S)}] = L[S \ {Max(S)}]
      <4>1. n - 1 \notin Differ
        <5>1. n \in Nat
          BY <1>2, <3>4
        <5>2. ~(n <= n - 1)
          BY <5>1
        <5> HIDE DEF Differ
        <5> QED
          BY <3>2, <5>2
      <4>2. \A T \in SUBSET (1 .. (n - 1)) : h[T] = L[T]
        BY <3>7, <4>1
      <4> QED
        BY <3>7, <4>2
    <3>9. S \ {Max(S)} \in SUBSET D
      BY <3>4
    <3> QED
      BY <2>1, <2>2, <3>3, <3>4, <3>8
  <2>4. Len(Current.scopes) \notin Differ
    BY <2>3
  <2> QED
    BY <1>2, <2>4
<1>6. Folds(CHOOSE h : Folds(h))
  BY <1>4, Zenon
<1>7. (CHOOSE h : Folds(h))[D] = L[D]
  <2> HIDE DEF Folds, L
  <2> QED
    BY <1>5, <1>6, Zenon
<1> QED
  BY <1>1, <1>7

(* The environment of a command on its own is built by the same fold.      *)
LEMMA SameEnvironment ==
  ASSUME HasCurrent
  PROVE  singleCommandEnvironment = commandEnvironment
BY Zenon DEF singleCommandEnvironment, commandEnvironment, Override

LEMMA ValuesAgree ==
  ASSUME TypeOK
  PROVE  EnvironmentsAgree
<1> SUFFICES ASSUME HasCurrent, NEW k \in Keys
             PROVE  GetEnvValue(k) =
                      IF commandEnvironment[k] = Unset THEN {}
                      ELSE IF Overridden(k) THEN {TokenWords[commandEnvironment[k]]}
                      ELSE {<<FirstWord[commandEnvironment[k]]>>}
  BY SameEnvironment DEF EnvironmentsAgree
<1> DEFINE D == DOMAIN Current.scopes
           newest == Max(Overriding(D, k))
<1>1. D = 1 .. Len(Current.scopes) /\ Len(Current.scopes) \in Nat
  BY EntriesTyped, LenProperties DEF Workspace
<1>2. commandEnvironment[k] = IF Overriding(D, k) = {} THEN OsEnv[k]
                              ELSE scope[Current.scopes[newest]].overrides[k]
  BY EnvironmentLayered DEF Layered
<1>3. Overriding(D, k) # {} => newest \in Overriding(D, k) /\ newest \in D
  <2>1. Overriding(D, k) \subseteq D
    BY DEF Overriding
  <2>2. Overriding(D, k) \subseteq 0 .. Len(Current.scopes)
    BY <1>1, <2>1
  <2> QED
    BY <1>1, <2>1, <2>2, MaxInSet
<1>4. GetEnvValue(k) =
        IF Overriding(D, k) = {} THEN InheritedWords(k)
        ELSE {TokenWords[scope[Current.scopes[newest]].overrides[k]]}
  <2> DEFINE last == IF Overriding(D, k) # {} THEN newest ELSE 0
  <2>1. GetEnvValue(k) = IF last > 0 THEN {TokenWords[scope[Current.scopes[last]].overrides[k]]}
                                     ELSE InheritedWords(k)
    BY <1>1 DEF GetEnvValue, SelectLastInSeq, Overriding
  <2>2. Overriding(D, k) # {} => newest > 0
    <3>1. \A n \in D : n > 0
      BY <1>1
    <3> HIDE DEF D, newest
    <3> QED
      BY <1>3, <3>1
  <2> HIDE DEF D, newest
  <2> QED
    BY <2>1, <2>2
<1>5. Overridden(k) <=> Overriding(D, k) # {}
  BY DEF Overridden, Overriding
<1>6. CASE Overriding(D, k) = {}
  BY <1>2, <1>4, <1>5, <1>6 DEF InheritedWords
<1>7. CASE Overriding(D, k) # {}
  <2>1. scope[Current.scopes[newest]].overrides[k] # Unset
    BY <1>3, <1>7 DEF Overriding, Overrides
  <2> QED
    BY <1>2, <1>4, <1>5, <1>7, <2>1
<1> QED
  BY <1>6, <1>7

(* The words "$k" stands for in a command are those of the value a program *)
(* started by the same command finds in its environment, alone or in a     *)
(* pipeline, for any number of scopes: the code finds the one from the     *)
(* newest scope down and builds the others from the oldest one up.         *)
THEOREM ExpansionMatchesEnvironment == Spec => []EnvironmentsAgree
<1>1. TypeOK => EnvironmentsAgree
  BY ValuesAgree
<1> QED
  BY <1>1, TypeCorrect, PTL

=============================================================================
