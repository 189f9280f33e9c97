----------------------------- MODULE MCZreLink -----------------------------
(***************************************************************************)
(* Two nodes for TLC.                                                      *)
(***************************************************************************)
EXTENDS ZreLink, TLC

Budget ==
    [k \in Kinds |-> CASE k = "dial" -> 1 [] k = "announce" -> 1 [] k = "whisper" -> 1
                       [] k = "depart" -> 1 [] k = "sleep" -> 2 [] k = "jam" -> 1]

\* Two environment steps of any kinds; or three, where a connection is slept
\* through twice, which loses it, or a dial and an announcement make an adoption
\* or a second meeting and no queue is full.
Within ==
    \/ MapThenSumSet(LAMBDA k : spent[k], Kinds) < 3
    \/ spent["sleep"] = 2
    \/ spent["dial"] + spent["announce"] = 2 /\ spent["jam"] = 0

MCSpec == Init /\ [][Next /\ Within']_vars /\ Fairness
=============================================================================
