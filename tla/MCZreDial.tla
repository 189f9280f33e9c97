------------------------------ MODULE MCZreDial ------------------------------
(***************************************************************************)
(* Networks for ZreDial.  An address is <<host, port>>.                     *)
(***************************************************************************)
EXTENDS ZreDial, TLC

CONSTANTS c, d, f

Owner(e) ==
    CASE e[1] \in {"hostC", "loopC"} -> c
      [] e[1] \in {"hostD", "loopD"} -> d
      [] e[1] = "hostF" -> f
      [] OTHER -> Nobody

Ports == [e \in Endpoint |-> e[2]]
Owners == [e \in Endpoint |-> Owner(e)]
AnyOwn == [u \in Peer |-> {e \in Endpoint : Owner(e) = u}]

\* Two nodes reachable under two hosts each, one under a single one, and an
\* address nobody listens at.
AliasNet == {<<"hostC", 1>>, <<"loopC", 1>>, <<"hostD", 2>>, <<"loopD", 2>>,
             <<"hostF", 3>>, <<"dead", 4>>}

\* Two nodes that bind the same pinned port, each on its own host.
PinnedNet == {<<"hostC", 1>>, <<"hostD", 1>>}
=============================================================================
