----------------------------- MODULE MCIngestion -----------------------------
(* Small instances of Ingestion for TLC.                                   *)
EXTENDS Ingestion

(* Everything may fail but the job table itself and the read-back of a     *)
(* committed document.                                                     *)
StoreFaults == {"vector", "registry", "compensation", "original", "startup"}

=============================================================================
