------------------------------ MODULE SerialStore ------------------------------
(***************************************************************************)
(* What concurrent writers of the state file are promised: commands take   *)
(* effect one at a time, each on top of all those before it.  A command is *)
(* written once, or twice without another's write in between.  A writer    *)
(* that is told "ok" has all its writes in the state, one that is told     *)
(* "refused" none; after an "error" either may be so, or half of it.       *)
(***************************************************************************)
EXTENDS Naturals, Sequences

CONSTANTS Writer, Twice

VARIABLES
    db,      \* the writes the state file has been through, in their order
    reply    \* what each writer has been told

vars == <<db, reply>>

Write(w, n) == [by |-> w, nr |-> n]
OnFile(w, n) == \E i \in 1..Len(db) : db[i] = Write(w, n)

Init == db = << >> /\ reply = [w \in Writer |-> "none"]

Begin(w) ==
    /\ reply[w] = "none" /\ ~OnFile(w, 1)
    /\ db' = Append(db, Write(w, 1))
    /\ UNCHANGED reply

Complete(w) ==
    /\ reply[w] = "none" /\ w \in Twice
    /\ db # << >> /\ db[Len(db)] = Write(w, 1)
    /\ db' = Append(db, Write(w, 2))
    /\ UNCHANGED reply

Reply(w, told) ==
    /\ reply[w] = "none"
    /\ told = "ok" => OnFile(w, IF w \in Twice THEN 2 ELSE 1)
    /\ told = "refused" => ~OnFile(w, 1)
    /\ reply' = [reply EXCEPT ![w] = told]
    /\ UNCHANGED db

Next == \E w \in Writer :
            Begin(w) \/ Complete(w) \/ \E told \in {"ok", "refused", "error"} : Reply(w, told)

Spec == Init /\ [][Next]_vars
=============================================================================
