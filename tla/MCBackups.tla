------------------------------ MODULE MCBackups ------------------------------
(* A timer and an operator, and one archive to be kept.                    *)
EXTENDS Backups, TLC

CONSTANTS timer, operator

MCThread == {timer, operator}
MCRuns   == (timer :> {"scheduled"}) @@ (operator :> {"backup", "prune", "restore"})
=============================================================================
