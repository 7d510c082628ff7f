-------------------------- MODULE FinalizedRecord --------------------------
(***************************************************************************)
(* What a finalized assessment promises its reader, without saying how: a  *)
(* record is worked on until it is finalized; it is finalized only from    *)
(* review and only when it is complete; from then on nobody changes it;    *)
(* and the one seal it may get is a seal of exactly that content.          *)
(***************************************************************************)
CONSTANTS
  None,          \* no seal
  Complete(_)    \* what a record's content needs to be finalized

VARIABLES status, content, seal

Init == status = "draft" /\ seal = None

(* The reviewers' work: any change of the content.                         *)
Work ==
  /\ status # "finalized"
  /\ UNCHANGED <<status, seal>>

Submit   == status = "draft" /\ status' = "in_review" /\ UNCHANGED <<content, seal>>
Withdraw == status = "in_review" /\ status' = "draft" /\ UNCHANGED <<content, seal>>

Finalize ==
  /\ status = "in_review" /\ Complete(content)
  /\ status' = "finalized"
  /\ UNCHANGED <<content, seal>>

Seal ==
  /\ status = "finalized" /\ seal = None
  /\ seal' = content
  /\ UNCHANGED <<status, content>>

Next == Work \/ Submit \/ Withdraw \/ Finalize \/ Seal

Spec == Init /\ [][Next]_<<status, content, seal>>

=============================================================================
