----------------------------- MODULE MCBrowser -----------------------------
(* A phone and a desktop before two candidates, one that waits for the     *)
(* owner and one that is worked on or has passed the Guardian too.         *)
EXTENDS Browser, TLC

CONSTANTS phone, desktop, first, second

MCSymmetry == Permutations(Client)

MCInit ==
    /\ Init
    /\ file[first].state \in {"guardian_pass", "duplicate_review"}
    /\ file[second].state \in {"open", "guardian_pass"}
    /\ \A c \in Candidate : ~file[c].suppressed
MCSpec == MCInit /\ [][Next]_vars
=============================================================================
