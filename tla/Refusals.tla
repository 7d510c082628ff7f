------------------------------- MODULE Refusals -------------------------------
(***************************************************************************)
(* Why a call is refused, and the status code its caller gets.  The checks *)
(* of a call are made one after the other and the first that fails is the  *)
(* one that is answered.                                                   *)
(***************************************************************************)
EXTENDS Integers, Sequences

CONSTANT None

RecordRefusal ==
  {"AssessmentNotFound", "DocumentNotFound", "InvalidStatusTransition",
   "AssessmentNotReadyForFinalization"}

OrganizationRefusal == {"OrganizationNameRequired", "OrganizationNameTaken"}

DocumentRefusal == {"DocumentStillCited", "DocumentNotAttached", "EvidenceDocumentNotIngested"}

FrameworkRefusal == {"InvalidPracticeReference", "FrameworkScoringUnavailable"}

ReviewRefusal ==
  {"EvidenceAlreadyReviewed", "InvalidReviewDecision", "MissingFindingRationale",
   "MissingEvidenceRequestNote", "EvidenceRequestNotFound"}

ReportRefusal == {"SanitizationNotApproved", "SanitizationApprovalStale"}

SetupRefusal ==
  {"MappingEngineUnavailable", "ChatEngineUnavailable", "UnknownFrameworkVersion"}

(* Those the repository raises too.                                        *)
SharedRefusal ==
  {"AssessmentFinalized", "OrganizationNotFound", "OrganizationRequired",
   "EvidenceLinkNotFound", "CrossOrganizationAttachment"}

(* A correction without a practice, which its endpoint catches itself.     *)
ValueRefusal == {"ValueError"}

Refusal ==
  RecordRefusal \cup OrganizationRefusal \cup DocumentRefusal \cup FrameworkRefusal
  \cup ReviewRefusal \cup ReportRefusal \cup SetupRefusal \cup SharedRefusal \cup ValueRefusal

StatusCode == [r \in Refusal |->
  CASE r \in {"AssessmentNotFound", "DocumentNotFound", "OrganizationNotFound",
              "EvidenceLinkNotFound", "EvidenceRequestNotFound", "DocumentNotAttached"} -> 404
    [] r \in {"AssessmentFinalized", "DocumentStillCited", "CrossOrganizationAttachment",
              "OrganizationNameTaken", "AssessmentNotReadyForFinalization",
              "EvidenceAlreadyReviewed", "InvalidStatusTransition",
              "SanitizationApprovalStale"} -> 409
    [] r \in {"FrameworkScoringUnavailable", "EvidenceDocumentNotIngested",
              "InvalidPracticeReference", "UnknownFrameworkVersion"} -> 422
    [] r \in {"InvalidReviewDecision", "OrganizationRequired", "OrganizationNameRequired",
              "MissingFindingRationale", "MissingEvidenceRequestNote", "ValueError"} -> 400
    [] r \in {"MappingEngineUnavailable", "ChatEngineUnavailable"} -> 503
    [] r = "SanitizationNotApproved" -> 412]

ASSUME NoneAssumption == None \notin Refusal

(* Checks are pairs: whether it fails, and what the call is refused as.    *)
Failed(checks) == {i \in DOMAIN checks : checks[i][1]}

RefusedAs(checks) ==
  IF Failed(checks) = {} THEN None
  ELSE checks[CHOOSE i \in Failed(checks) : \A j \in Failed(checks) : i <= j][2]

=============================================================================
