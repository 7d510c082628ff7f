-------------------------------- MODULE Backups --------------------------------
(***************************************************************************)
(* The scripts that copy the data volume, check the copies, remove old     *)
(* ones and put one back, run by operators and a timer beside the stack    *)
(* whose volume it is.  They take no lock: any of them may overlap.        *)
(*                                                                         *)
(* The volume has two parts, the database and the vector store, each a     *)
(* count of the documents it knows, or absent.  A part is written whole or *)
(* not at all.  Archives are named after the time and so in their order.   *)
(***************************************************************************)
EXTENDS Integers, FiniteSets

CONSTANTS
  Thread,     \* those who run scripts
  Runs,       \* which scripts each of them runs
  Keep,       \* how many archives pruning keeps
  None,
  MaxDocs, MaxArchives, MaxFaults  \* bounds

Script == {"backup", "scheduled", "prune", "restore"}

ASSUME NoneAssumption ==
  None \notin Nat \cup {"stop failed", "start failed", "restore failed", "killed"}
ASSUME RunsAssumption == Runs \in [Thread -> SUBSET Script]
ASSUME KeepAssumption == Keep \in Nat \ {0}
ASSUME BoundsAssumption == {MaxDocs, MaxArchives, MaxFaults} \subseteq Nat

VARIABLES
  stack,     \* whether the containers run
  volume,    \* its two parts
  archives,  \* the archives in the directory, by name
  clock,     \* the last name given
  pc, job,   \* where each script is, and with what
  outage,    \* what may have left the stack stopped, None if nothing has
  faults     \* how many things have gone wrong

vars == <<stack, volume, archives, clock, pc, job, outage, faults>>

-----------------------------------------------------------------------------
(* The stack.  The server creates what it does not find when it starts; a  *)
(* document's chunks are stored before it is registered and cited.  What a *)
(* server writes to files removed under it is lost.                        *)

Part  == {"database", "vectors"}
Empty == [p \in Part |-> None]

Created == [p \in Part |-> IF volume[p] = None THEN 0 ELSE volume[p]]

Index ==
  /\ stack /\ volume["vectors"] # None /\ volume["vectors"] < MaxDocs
  /\ volume' = [volume EXCEPT !["vectors"] = @ + 1]
  /\ UNCHANGED <<stack, archives, clock, pc, job, outage, faults>>

Register ==
  /\ stack /\ \A p \in Part : volume[p] # None
  /\ volume["database"] < volume["vectors"]
  /\ volume' = [volume EXCEPT !["database"] = @ + 1]
  /\ UNCHANGED <<stack, archives, clock, pc, job, outage, faults>>

StartStack == stack' = TRUE /\ volume' = Created /\ outage' = None

-----------------------------------------------------------------------------
(* Archives.  One is readable if its tar was finished and its bytes are as *)
(* they were written.  What it was taken of, and whether another script    *)
(* ran meanwhile, is for the properties.                                   *)

NewArchive(alone) ==
  [copied |-> {}, content |-> Empty, rotten |-> FALSE, summed |-> FALSE,
   of |-> volume, alone |-> alone]

Readable(a) == a.copied = Part /\ ~a.rotten

(* verify-backup.sh.  A readable archive matches its checksum, if it has   *)
(* one.                                                                    *)
Restorable(a) == Readable(a) /\ \A p \in Part : a.content[p] # None

Newest(names) == CHOOSE n \in names : \A m \in names : m <= n

AllButNewest == {n \in DOMAIN archives : Cardinality({m \in DOMAIN archives : m > n}) >= Keep}

-----------------------------------------------------------------------------
(* Scripts.                                                                *)

NoJob == [name |-> 0, scheduled |-> FALSE, failed |-> FALSE, alone |-> FALSE, left |-> {}]

Goto(t, label) == pc' = [pc EXCEPT ![t] = label]
Quiet == \A t \in Thread : pc[t] = "idle"

End(t) == Goto(t, "idle") /\ job' = [job EXCEPT ![t] = NoJob]

Begin(t, script, label, name) ==
  /\ script \in Runs[t]
  /\ pc[t] = "idle" /\ Goto(t, label)
  /\ job' = [u \in Thread |->
       IF u = t THEN [NoJob EXCEPT !.name = name, !.scheduled = script = "scheduled", !.alone = Quiet]
       ELSE [job[u] EXCEPT !.alone = FALSE]]
  /\ UNCHANGED <<stack, volume, archives, outage, faults>>

Fault == faults < MaxFaults /\ faults' = faults + 1

(* backup.sh, also as the first step of scheduled-backup.sh.  It takes its *)
(* archive's name before it does anything.                                 *)
Backup(t) ==
  /\ clock < MaxArchives /\ clock' = clock + 1
  /\ \E script \in {"backup", "scheduled"} : Begin(t, script, "stop", clock')

(* A script that cannot stop the stack ends before it has set its trap.    *)
StopFails(t) ==
  /\ pc[t] \in {"stop", "halt"} /\ Fault
  /\ stack' \in {stack, FALSE}
  /\ outage' = IF stack' THEN outage ELSE "stop failed"
  /\ End(t)
  /\ UNCHANGED <<volume, archives, clock>>

OpenArchive(t) ==
  /\ archives' = [n \in DOMAIN archives \cup {job[t].name} |->
       IF n = job[t].name THEN NewArchive(job[t].alone) ELSE archives[n]]
  /\ Goto(t, "tar")

(* Fault: the stack runs on.                                               *)
StopNot(t) ==
  /\ pc[t] = "stop"
  /\ OpenArchive(t)
  /\ UNCHANGED <<stack, volume, clock, job, outage, faults>>

Stop(t) ==
  /\ pc[t] = "stop"
  /\ stack' = FALSE
  /\ OpenArchive(t)
  /\ UNCHANGED <<volume, clock, job, outage, faults>>

Copy(t) ==
  LET n == job[t].name IN
  /\ pc[t] = "tar" /\ n \in DOMAIN archives
  /\ \E p \in Part \ archives[n].copied :
       /\ archives' = [archives EXCEPT
            ![n].copied     = @ \cup {p},
            ![n].content[p] = volume[p],
            ![n].alone      = @ /\ job[t].alone]
       /\ Goto(t, IF archives[n].copied \cup {p} = Part THEN "sum" ELSE "tar")
  /\ UNCHANGED <<stack, volume, clock, job, outage, faults>>

Sum(t) ==
  /\ pc[t] = "sum" /\ job[t].name \in DOMAIN archives
  /\ archives' = [archives EXCEPT ![job[t].name].summed = TRUE]
  /\ Goto(t, "start")
  /\ UNCHANGED <<stack, volume, clock, job, outage, faults>>

(* The disk is full, say, or the archive was removed while it was written. *)
Goes(t) ==
  \/ Fault
  \/ job[t].name \notin DOMAIN archives /\ UNCHANGED faults

(* Fault: a failed backup ends at once.                                    *)
AbortUntrapped(t) ==
  /\ pc[t] \in {"tar", "sum"} /\ Goes(t)
  /\ End(t)
  /\ UNCHANGED <<stack, volume, archives, clock, outage>>

(* The trap starts the stack again; what was written stays.                *)
Abort(t) ==
  /\ pc[t] \in {"tar", "sum"} /\ Goes(t)
  /\ job' = [job EXCEPT ![t].failed = TRUE]
  /\ Goto(t, "start")
  /\ UNCHANGED <<stack, volume, archives, clock, outage>>

(* The last step of a backup and of a restore.                             *)
Start(t) ==
  /\ pc[t] = "start"
  /\ StartStack
  /\ IF job[t].scheduled /\ ~job[t].failed
     THEN Goto(t, "verify") /\ UNCHANGED job
     ELSE End(t)
  /\ UNCHANGED <<archives, clock, faults>>

(* `docker compose start` fails, or fails after it started the containers. *)
(* Either ends the script, in the trap too, and nobody tries again.        *)
StartFails(t) ==
  /\ pc[t] = "start" /\ Fault
  /\ \/ StartStack
     \/ /\ outage' = IF stack THEN outage ELSE "start failed"
        /\ UNCHANGED <<stack, volume>>
  /\ End(t)
  /\ UNCHANGED <<archives, clock>>

(* Fault: the copies are pruned whatever the new one is worth.             *)
VerifyNot(t) ==
  /\ pc[t] = "verify"
  /\ Goto(t, "prune") /\ UNCHANGED job
  /\ UNCHANGED <<stack, volume, archives, clock, outage, faults>>

(* The newest is found by name.                                            *)
Verify(t) ==
  /\ pc[t] = "verify"
  /\ IF DOMAIN archives # {} /\ Restorable(archives[Newest(DOMAIN archives)])
     THEN Goto(t, "prune") /\ UNCHANGED job
     ELSE End(t)
  /\ UNCHANGED <<stack, volume, archives, clock, outage, faults>>

(* prune-backups.sh --apply, also as the last step of a scheduled run.     *)
Prune(t) == Begin(t, "prune", "prune", 0) /\ UNCHANGED clock

List(t) ==
  /\ pc[t] = "prune"
  /\ IF AllButNewest = {} THEN End(t)
     ELSE Goto(t, "remove") /\ job' = [job EXCEPT ![t].left = AllButNewest]
  /\ UNCHANGED <<stack, volume, archives, clock, outage, faults>>

Remove(t) ==
  /\ pc[t] = "remove"
  /\ LET n == Newest(job[t].left) IN
     /\ archives' = [m \in DOMAIN archives \ {n} |-> archives[m]]
     /\ IF job[t].left = {n} THEN End(t)
        ELSE UNCHANGED pc /\ job' = [job EXCEPT ![t].left = @ \ {n}]
  /\ UNCHANGED <<stack, volume, clock, outage, faults>>

(* restore.sh: an archive that does not match its checksum is refused.     *)
Restore(t) ==
  \E n \in DOMAIN archives :
    /\ archives[n].summed => Readable(archives[n])
    /\ Begin(t, "restore", "halt", n) /\ UNCHANGED clock

Halt(t) ==
  /\ pc[t] = "halt"
  /\ stack' = FALSE
  /\ Goto(t, "wipe")
  /\ UNCHANGED <<volume, archives, clock, job, outage, faults>>

Wipe(t) ==
  /\ pc[t] = "wipe"
  /\ volume' = Empty
  /\ job' = [job EXCEPT ![t].left =
       IF job[t].name \in DOMAIN archives THEN archives[job[t].name].copied ELSE {}]
  /\ Goto(t, "extract")
  /\ UNCHANGED <<stack, archives, clock, outage, faults>>

Extract(t) ==
  /\ pc[t] = "extract" /\ job[t].name \in DOMAIN archives
  /\ \E p \in job[t].left :
       /\ volume' = [volume EXCEPT ![p] = archives[job[t].name].content[p]]
       /\ job' = [job EXCEPT ![t].left = @ \ {p}]
  /\ UNCHANGED <<stack, archives, clock, pc, outage, faults>>

Extracted(t) ==
  /\ pc[t] = "extract" /\ job[t].left = {}
  /\ job[t].name \in DOMAIN archives /\ Readable(archives[job[t].name])
  /\ Goto(t, "start")
  /\ UNCHANGED <<stack, volume, archives, clock, job, outage, faults>>

(* The archive is unreadable or gone, the disk is full, or the container   *)
(* that is to empty the volume does not run.  Nothing starts the stack     *)
(* again.                                                                  *)
ExtractFails(t) ==
  /\ \/ pc[t] = "wipe" /\ Fault
     \/ pc[t] = "extract" /\ Goes(t)
     \/ /\ pc[t] = "extract"
        /\ job[t].name \in DOMAIN archives /\ ~Readable(archives[job[t].name])
        /\ UNCHANGED faults
  /\ outage' = IF stack THEN outage ELSE "restore failed"
  /\ End(t)
  /\ UNCHANGED <<stack, volume, archives, clock>>

-----------------------------------------------------------------------------
(* What happens to scripts, archives and the stack from outside.           *)

(* A script that is killed runs no trap.                                   *)
Kill(t) ==
  /\ pc[t] # "idle" /\ Fault
  /\ outage' = IF stack THEN outage ELSE "killed"
  /\ End(t)
  /\ UNCHANGED <<stack, volume, archives, clock>>

(* Bytes change while an archive is kept, not in the moments of a script.  *)
Rot ==
  \E n \in DOMAIN archives :
    /\ Quiet /\ Fault /\ ~archives[n].rotten
    /\ archives' = [archives EXCEPT ![n].rotten = TRUE]
    /\ UNCHANGED <<stack, volume, clock, pc, job, outage>>

(* An operator starts a stack that is down when no script is running.      *)
ComposeUp ==
  /\ Quiet /\ ~stack /\ StartStack
  /\ UNCHANGED <<archives, clock, pc, job, faults>>

Init ==
  /\ stack = TRUE /\ volume = [p \in Part |-> 0]
  /\ archives = [n \in {} |-> NewArchive(FALSE)] /\ clock = 0
  /\ pc = [t \in Thread |-> "idle"] /\ job = [t \in Thread |-> NoJob]
  /\ outage = None /\ faults = 0

Next ==
  \/ Index \/ Register
  \/ \E t \in Thread :
       \/ Backup(t) \/ Stop(t) \/ StopFails(t) \/ Copy(t) \/ Sum(t) \/ Abort(t)
       \/ Start(t) \/ StartFails(t)
       \/ Verify(t) \/ Prune(t) \/ List(t) \/ Remove(t)
       \/ Restore(t) \/ Halt(t) \/ Wipe(t) \/ Extract(t) \/ Extracted(t) \/ ExtractFails(t)
       \/ Kill(t)
  \/ Rot \/ ComposeUp

Spec == Init /\ [][Next]_vars

-----------------------------------------------------------------------------
(* Properties.                                                             *)

(* ADR-0083: a scheduled run that nothing overlaps never removes the last  *)
(* archive that would restore, however many failed or empty backups were   *)
(* made since, and though it keeps archives by their age alone.            *)
SomeRestorable == \E n \in DOMAIN archives : Restorable(archives[n])

CopyRemains ==
  [][\A t \in Thread :
       /\ pc[t] = "remove" /\ job[t].scheduled /\ job[t].alone
       /\ archives' # archives /\ SomeRestorable
       => SomeRestorable']_vars

(* A finished archive of a backup that nothing overlapped holds both parts *)
(* of the volume as they were together, when the stack stopped, so that no *)
(* citation in it points at chunks that are not there (backup.sh:12-18).   *)
SnapshotIsFaithful ==
  \A n \in DOMAIN archives :
    archives[n].copied = Part /\ archives[n].alone => archives[n].content = archives[n].of

(* When no script runs any more the stack runs, also after backups that    *)
(* failed and overlapped, unless the stack could not be stopped cleanly,   *)
(* could not be started again, a restore failed or a script was killed     *)
(* (backup.sh's trap).                                                     *)
StackComesBack == Quiet /\ ~stack => outage # None

=============================================================================
