------------------------------- MODULE Approval -------------------------------
(***************************************************************************)
(* What the owner is promised about approvals, whatever the workflow does  *)
(* in between: only content the Guardian has just passed can be approved,  *)
(* and an approval never outlives the content it was given for.            *)
(***************************************************************************)
CONSTANTS Content, Nothing

VARIABLES
    content,   \* what would be published now
    vouched,   \* the content the Guardian passed and still stands by
    approved   \* the content the owner's standing approval is for

vars == <<content, vouched, approved>>

Init == content \in Content /\ vouched = Nothing /\ approved = Nothing

(* Any change of evidence, strategies, drafts or terms of use.             *)
Change ==
    /\ content' \in Content
    /\ vouched' = Nothing /\ approved' = Nothing

Vouch ==
    /\ vouched' \in {content, Nothing}
    /\ approved' = Nothing
    /\ UNCHANGED content

Approve ==
    /\ vouched = content /\ vouched # Nothing
    /\ approved' = content
    /\ UNCHANGED <<content, vouched>>

Withdraw ==
    /\ approved' = Nothing
    /\ UNCHANGED <<content, vouched>>

Next == Change \/ Vouch \/ Approve \/ Withdraw

Spec == Init /\ [][Next]_vars
=============================================================================
