------------------------- MODULE MCAssessmentRecord -------------------------
(* Small instances of AssessmentRecord for TLC.                            *)
EXTENDS AssessmentRecord, TLC

CONSTANTS t1, t2, p1, p2, d1

Calls(given) == [k \in CallKind |-> IF k \in DOMAIN given THEN given[k] ELSE 0]

(* One thread that runs every kind of call, one after the other.           *)
SoloKinds == [t \in {t1} |-> CallKind]
SoloCalls == Calls([transition |-> 3, link |-> 1, propose |-> 1, review |-> 1,
                    bulk_reject |-> 1, finding |-> 1, request |-> 1,
                    resolve |-> 1, attach |-> 1, detach |-> 1])

(* One person takes the assessment through its states while another works  *)
(* on the record; both review.                                             *)
LeadKinds == (t1 :> {"transition", "review"}) @@ (t2 :> CallKind \ {"transition"})
LeadCalls == Calls([transition |-> 3, attach |-> 1, propose |-> 1, review |-> 2,
                    finding |-> 1, request |-> 1])

=============================================================================
