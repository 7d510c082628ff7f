----------------------------- MODULE UploadBoard -----------------------------
(***************************************************************************)
(* What the server promises a person who uploads documents, without saying *)
(* how.  An upload that is queued is begun, and it ends in one of three    *)
(* ways: it succeeded, and its document is listed; it was rejected, and    *)
(* its document is not listed; or the server stopped in between, and the   *)
(* person is told so.  An ended upload stays as it ended until its row is  *)
(* forgotten.  An upload may also be made directly, without a row.         *)
(***************************************************************************)
CONSTANT Upload

VARIABLES
  status,      \* what the board shows for each upload
  interrupted, \* the uploads shown as failed because the server stopped
  documents    \* the uploads whose document is listed

Init ==
  /\ status = [u \in Upload |-> "none"]
  /\ interrupted = {} /\ documents = {}

Show(S, s) == status' = [u \in Upload |-> IF u \in S THEN s ELSE status[u]]

Accept(u) == status[u] = "none" /\ Show({u}, "queued") /\ UNCHANGED <<interrupted, documents>>
Begin(u)  == status[u] = "queued" /\ Show({u}, "running") /\ UNCHANGED <<interrupted, documents>>

Publish(u) ==
  /\ status[u] \in {"none", "running"} /\ u \notin documents
  /\ documents' = documents \cup {u}
  /\ UNCHANGED <<status, interrupted>>

Succeed(u) ==
  /\ status[u] = "running" /\ u \in documents
  /\ Show({u}, "succeeded")
  /\ UNCHANGED <<interrupted, documents>>

Reject(u) ==
  /\ status[u] = "running" /\ u \notin documents
  /\ Show({u}, "failed")
  /\ UNCHANGED <<interrupted, documents>>

Interrupt(S) ==
  /\ \A u \in S : status[u] \in {"queued", "running"}
  /\ Show(S, "failed")
  /\ interrupted' = interrupted \cup S
  /\ UNCHANGED documents

Forget(S) ==
  /\ \A u \in S : status[u] \in {"succeeded", "failed"}
  /\ Show(S, "swept")
  /\ interrupted' = interrupted \ S
  /\ UNCHANGED documents

Next ==
  \/ \E u \in Upload : Accept(u) \/ Begin(u) \/ Publish(u) \/ Succeed(u) \/ Reject(u)
  \/ \E S \in SUBSET Upload : Interrupt(S) \/ Forget(S)

Spec == Init /\ [][Next]_<<status, interrupted, documents>>

=============================================================================
