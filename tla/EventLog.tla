------------------------------ MODULE EventLog ------------------------------
(***************************************************************************)
(* What the callers of the evidence store are promised: the events of a    *)
(* run only ever grow at the end, by one event at a time of a call that    *)
(* has not been answered, and a caller that is told "ok" has its event in  *)
(* them.  A caller that is told "failed", or whose process died, may or    *)
(* may not have.                                                           *)
(***************************************************************************)
EXTENDS Sequences
CONSTANTS Run, Call, RunOf      \* RunOf[c] is the run a call writes to

VARIABLES
    chain,    \* chain[r]: the calls whose events run r has, in order
    answer    \* answer[c]: "none", "ok", "failed" or "dead"

vars == <<chain, answer>>

Has(c, chains) == \E i \in DOMAIN chains[RunOf[c]] : chains[RunOf[c]][i] = c

Init == chain = [r \in Run |-> <<>>] /\ answer = [c \in Call |-> "none"]

Grows(r) ==
    \/ chain'[r] = chain[r]
    \/ \E c \in Call :
          /\ RunOf[c] = r /\ answer[c] = "none" /\ ~Has(c, chain)
          /\ chain'[r] = Append(chain[r], c)

Answers(c) ==
    \/ answer'[c] = answer[c]
    \/ answer[c] = "none" /\ (answer'[c] = "ok" => Has(c, chain'))

Next == (\A r \in Run : Grows(r)) /\ (\A c \in Call : Answers(c))

Spec == Init /\ [][Next]_vars
=============================================================================
