---------------------------- MODULE MCCommandStore ----------------------------
(***************************************************************************)
(* CommandStore for TLC: requests are interchangeable, and so are the ids  *)
(* of candidates the owner adds.                                           *)
(***************************************************************************)
EXTENDS CommandStore, TLC

Symmetry == Permutations(Request) \cup Permutations(Id \ Synthetic)

Work ==
    {"request_verification", "request_strategies", "request_drafts", "run_guardian",
     "edit_draft", "review_decision", "resolve_duplicate"}

(* Two requests of any kind, and servers that die.  Drafts that await the  *)
(* Guardian are reached from the strategies.                               *)
Crashing ==
    [issued |-> Work \cup {"add_manual_candidate", "reset_demo"}, requests |-> 2,
     products |-> {ExampleProduct, Vague}, crashes |-> TRUE,
     demo |-> {{}, Synthetic}, stages |-> Stage \ {WithDrafts(WithStrategies(Demo))}]

(* More requests about which products are in the portfolio.                *)
Portfolio ==
    [issued |-> {"add_manual_candidate", "request_verification", "resolve_duplicate"},
     requests |-> 3, products |-> {ExampleProduct, Vague}, crashes |-> FALSE, demo |-> {{}},
     stages |-> {Created, Demo}]

MCTraffics == [crashing |-> Crashing, portfolio |-> Portfolio]

(* Work on candidates that are there.                                      *)
MCWork ==
    [work |-> [issued |-> Work, requests |-> 2, products |-> Product, crashes |-> FALSE,
               demo |-> {{}}, stages |-> Stage]]
=============================================================================
