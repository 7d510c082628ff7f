----------------------------- MODULE MCRequests -----------------------------
(***************************************************************************)
(* Two assessments of one client, one of them under a framework with a     *)
(* loaded schema of two domains and the other under one without, a         *)
(* document that is ingested and proposed and another that may come later. *)
(***************************************************************************)
EXTENDS Queue, TLC

CONSTANTS a1, a2, d1, d2, c1, c2, p1, p2, o1

MCAssessment   == {a1, a2}
MCDoc          == {d1, d2}
MCChunk        == {c1, c2}
MCDocOf        == (c1 :> d1) @@ (c2 :> d2)
MCOrganization == (a1 :> o1) @@ (a2 :> o1) @@ (d1 :> o1) @@ (d2 :> None)
MCDomains      == (a1 :> [first |-> {p1}, second |-> {}]) @@ (a2 :> None)
MCNear         == (c1 :> 40) @@ (c2 :> 50)
MCConfidence   == {55}

Start == <<[assessment |-> a1, chunk |-> c1, practice |-> p1]>>

Spec == InitOf(Start) /\ [][Next]_vars
=============================================================================
