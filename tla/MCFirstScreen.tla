--------------------------- MODULE MCFirstScreen ---------------------------
(* Four candidates for three cards, the demo's ranked first and third, in  *)
(* portfolios of one lane and mostly of one lane.                          *)
EXTENDS FirstScreen

CONSTANTS c1, c2, c3, c4, main

MCRanked == <<c1, c2, c3, c4>>
MCDemo == {c1, c3}
MCLane == {main, Curiosity}

MCInit == Init /\ {c \in Candidate : lane[c] = Curiosity} \in {{}, {c4}, {c1, c2, c3}}
\* The bound of the run: hidden and risk-blocked candidates, counted together.
FewExcluded ==
    Cardinality({c \in Candidate : suppressed[c]}) + Cardinality({c \in Candidate : blocked[c]}) <= 2

MCSpec == MCInit /\ [][Next]_vars
=============================================================================
