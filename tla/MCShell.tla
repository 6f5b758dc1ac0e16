------------------------------- MODULE MCShell -------------------------------
(* A small instance of Shell for TLC: two programs, two files to wear, and   *)
(* one line of each kind.  The configuration file trusts one program from a  *)
(* brace group and wears g, whose lines would trust the other one.           *)
EXTENDS Shell

CONSTANTS p, q, rp, rq, f, g

RuleCovers == [r \in Rules |-> IF r = rp THEN {p} ELSE {q}]
RuleOf == [x \in Programs |-> IF x = p THEN rp ELSE rq]

Call(command) ==
  [commands |-> {command}, braces |-> <<>>, in |-> FALSE, out |-> FALSE]
Of(kind) == Call([kind |-> kind])
Program(x) == Call([kind |-> "external", program |-> x])
Trust(r) == [kind |-> "trust", rule |-> r]
WearFile(x) == Call([kind |-> "wear", file |-> x])

Library == [
  blank    |-> <<>>,
  q        |-> <<Program(q)>>,
  pq       |-> <<Program(p), Program(q)>>,
  redirect |-> <<[Program(q) EXCEPT !.in = TRUE, !.out = TRUE]>>,
  missing  |-> <<Of("missing")>>,
  broken   |-> <<[Program(p) EXCEPT !.braces = <<"q", "blank">>]>>,
  braces   |-> <<[Program(p) EXCEPT !.braces = <<"broken", "missing">>]>>,
  buffered |-> <<[Program(q) EXCEPT !.out = TRUE],
                 [Of("state") EXCEPT !.in = TRUE], Of("missing")>>,
  cdls     |-> <<Of("ls"), Of("cd")>>,
  lsin     |-> <<[Of("ls") EXCEPT !.in = TRUE]>>,
  output   |-> <<[commands |-> {[kind |-> "external", program |-> q], Trust(rq),
                                [kind |-> "none"]},
                  braces |-> <<"q">>, in |-> FALSE, out |-> FALSE]>>,
  trust    |-> <<Call(Trust(rp))>>,
  trustq   |-> <<Call(Trust(rq))>>,
  seed     |-> <<[Of("state") EXCEPT !.braces = <<"trust">>]>>,
  status   |-> <<Of("state"), Program(q)>>,
  wearg    |-> <<WearFile(g)>>,
  untrust  |-> <<Call([kind |-> "untrust", rule |-> rp])>>,
  toggle   |-> <<Of("toggle-trust")>>,
  wear     |-> <<WearFile(f), Program(q)>>,
  nofile   |-> <<Of("unreadable")>>,
  reset    |-> <<Of("reset")>>]

AllLines == DOMAIN Library
Sound == [l \in AllLines |-> l # "broken"]

ClothOf == <<"seed", "wearg", "q">>
ScriptOf == [x \in Files |-> IF x = f THEN <<"pq", "trust", "reset">>
                             ELSE <<"trustq", "output", "status">>]

=============================================================================
