---------------------------- MODULE MCLineEditor ----------------------------
(* Small inputs for LineEditor: pastes, and keys pressed in any order. *)
EXTENDS LineEditor

CONSTANTS PasteLength, KeysPressed

\* All sequences of at most n members of a set.
UpTo(set, n) == UNION {[1..k -> set] : k \in 0..n}

CSI(s) == <<"ESC", "[">> \o s

\* Lines, newlines of both kinds, continuations, and the ways out.
Pastes == UpTo({"a", " ", "\\", "CR", "LF"}, PasteLength)
LeavingPastes ==
  {FlattenSeq(s) : s \in UpTo({<<"a">>, Exit, <<"LF">>, <<"\\">>, <<"^C">>, <<"^D">>}, 4)}

\* Keys, some of several bytes, which reads may cut.
EditingKeys ==
  { <<"a">>, <<"\"">>, <<"{">>, <<"}">>, <<"BS">>, <<"^W">>, <<"TAB">>, <<"other">>, <<"CR">>,
    CSI(<<"A">>), CSI(<<"B">>), CSI(<<"C">>), CSI(<<"D">>), CSI(<<"3", "~">>),
    CSI(<<"5", "D">>), <<"ESC", "d">>, <<"ESC", "BS">> }
LongKeys ==
  { CSI(<<"1", ";", "5", "C">>), CSI(<<"1", ";", "5", "D">>), CSI(<<"D", ";", "5", "a">>),
    CSI(<<"3", ";", "5", "~">>), CSI(<<"1", "2", "7", ";", "5", "~">>), CSI(<<"2", "~">>) }
Typed ==
  {FlattenSeq(s) : s \in UpTo(EditingKeys, KeysPressed)}
  \cup {CSI(<<"A">>) \o k \o l : k \in EditingKeys, l \in LongKeys}
  \cup {CSI(<<"A">>) \o CSI(<<"A">>) \o k : k \in EditingKeys}
  \cup {<<"a">> \o k \o l : k \in {CSI(<<"A">>), CSI(<<"D">>), <<"TAB">>}, l \in EditingKeys}
  \cup {<<"a", "TAB">> \o FlattenSeq(s) : s \in UpTo({<<"TAB">>, <<"a">>, CSI(<<"D">>)}, 2)}

AllInputs == Pastes \cup LeavingPastes \cup Typed

OneHistory == {<<<<"a", " ", "b">>, <<"a", "LF", "b">>>>}
TwoNames == <<<<"a">>, <<"a", "b">>>>
=============================================================================
