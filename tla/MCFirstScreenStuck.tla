------------------------- MODULE MCFirstScreenStuck -------------------------
(* Ten candidates of one lane for the five cards of the first screen, the  *)
(* demo's two at the head, the others added in the order of their scores;  *)
(* the owner only adds and decides.                                        *)
EXTENDS FirstScreen

CONSTANT main

MCCandidate == 1 .. 10
MCRanked == [i \in 1 .. 10 |-> i]
MCDemo == {1, 2}
MCLane == {main, Curiosity}

MCInit == Init /\ lane = [c \in Candidate |-> main]

MCNext == \E c \in Candidate :
    \/ AddManualCandidate(c) /\ Before(c) \subseteq Present /\ state'[c] = "open"
       /\ UNCHANGED suppressed
    \/ ReviewDecision(c)

MCSpec == MCInit /\ [][MCNext]_vars
=============================================================================
