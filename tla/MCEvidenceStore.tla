-------------------------- MODULE MCEvidenceStore --------------------------
(* Two runs that store the same object, and further events of one of them. *)
EXTENDS EvidenceStore

CONSTANTS r1, r2, picture, a1, a2, a3, b1

MCCall == {a1, a2, a3, b1}
MCRun == {r1, r2}
MCObject == {picture}
MCRunOf == [c \in MCCall |-> IF c = b1 THEN r2 ELSE r1]
MCObjectOf == [c \in MCCall |-> IF c \in {a1, b1} THEN picture ELSE NoObject]
=============================================================================
