---------------------------- MODULE Backups_proofs ----------------------------
(***************************************************************************)
(* What holds of Backups for any number of scripts, archives and faults,   *)
(* and however many archives are kept.                                     *)
(***************************************************************************)
EXTENDS Backups, FiniteSetTheorems, WellFoundedInduction, TLAPS

-----------------------------------------------------------------------------
(* The newest of some archives.                                            *)

LEMMA NewestIsOne ==
  ASSUME NEW k \in Nat, NEW names \in SUBSET (1..k), names # {}
  PROVE  /\ Newest(names) \in names
         /\ \A m \in names : m <= Newest(names)
<1> DEFINE ages == {k - n : n \in names}
           less == {x \in Nat \X Nat : x[1] < x[2]}
<1>1. IsWellFoundedOn(less, Nat)
  BY NatLessThanWellFounded DEF OpToRel
<1>2. ages \subseteq Nat /\ ages # {}
  <2>1. \A n \in names : k - n \in Nat
    OBVIOUS
  <2>2. PICK n \in names : TRUE
    OBVIOUS
  <2>3. k - n \in ages
    OBVIOUS
  <2> QED BY <2>1, <2>3
<1>3. PICK x \in ages : \A y \in ages : <<y, x>> \notin less
  <2> HIDE DEF less, ages
  <2> QED BY <1>1, <1>2, WFMin
<1>4. PICK n \in names : x = k - n
  OBVIOUS
<1>5. ASSUME NEW m \in names PROVE m <= n
  <2>1. <<k - m, x>> \notin less
    BY <1>3
  <2>2. ~(k - m < k - n)
    BY <1>4, <2>1
  <2> QED BY <2>2
<1> QED
  BY <1>5 DEF Newest

-----------------------------------------------------------------------------
(* The invariant.                                                          *)

Count   == Nat \cup {None}
Content == [Part -> Count]
Archive == [copied : SUBSET Part, content : Content, rotten : BOOLEAN, summed : BOOLEAN,
            of : Content, alone : BOOLEAN]
Job     == [name : Nat, scheduled : BOOLEAN, failed : BOOLEAN, alone : BOOLEAN,
            left : SUBSET (Nat \cup Part)]

Types ==
  /\ stack \in BOOLEAN
  /\ volume \in Content
  /\ clock \in Nat
  /\ DOMAIN archives \subseteq 1..clock
  /\ archives \in [DOMAIN archives -> Archive]
  /\ pc = [t \in Thread |-> pc[t]]
  /\ job \in [Thread -> Job]
  /\ \A t \in Thread :
       /\ pc[t] = "stop" => job[t].name \in 1..clock
       /\ pc[t] = "extract" => job[t].left \subseteq Part
       /\ pc[t] = "remove" => job[t].left \subseteq 1..clock /\ job[t].left # {}

(* A stack that is down is somebody's to start again, or has gone down as  *)
(* nobody starts it again from.                                            *)
Owned ==
  ~stack => \/ outage # None
            \/ \E t \in Thread : pc[t] \in {"tar", "sum", "start", "wipe", "extract"}

(* Who runs alone keeps the stack down while it copies.                    *)
Alone ==
  \A t \in Thread : job[t].alone =>
    /\ \A u \in Thread \ {t} : pc[u] = "idle"
    /\ pc[t] = "tar" => /\ ~stack
                        /\ job[t].name \in DOMAIN archives =>
                             volume = archives[job[t].name].of

Faithful ==
  \A n \in DOMAIN archives : archives[n].alone =>
    \A p \in archives[n].copied : archives[n].content[p] = archives[n].of[p]

(* Who runs alone and on schedule prunes only while the newest archive     *)
(* would restore, and removes others.                                      *)
Guarded ==
  \A t \in Thread :
    pc[t] \in {"prune", "remove"} /\ job[t].scheduled /\ job[t].alone =>
      \E n \in DOMAIN archives :
        /\ \A m \in DOMAIN archives : m <= n
        /\ Restorable(archives[n])
        /\ pc[t] = "remove" => n \notin job[t].left

IInv == Types /\ Owned /\ Alone /\ Faithful /\ Guarded

-----------------------------------------------------------------------------
(* Types.                                                                  *)

LEMMA NoJobType == NoJob \in Job
BY DEF NoJob, Job

LEMMA EmptyType == Empty \in Content
BY DEF Empty, Content, Count

LEMMA CreatedType ==
  ASSUME Types
  PROVE  Created \in Content
BY DEF Types, Created, Content, Count

LEMMA NewArchiveType ==
  ASSUME Types, NEW alone \in BOOLEAN
  PROVE  NewArchive(alone) \in Archive
BY EmptyType DEF Types, NewArchive, Archive

(* A script that goes on with its job, or ends.                            *)
LEMMA GotoTypes ==
  ASSUME Types, UNCHANGED <<stack, volume, archives, clock>>, NEW t \in Thread, NEW label,
         Goto(t, label), UNCHANGED job, label \notin {"stop", "extract", "remove"}
  PROVE  Types'
BY DEF Types, Goto

LEMMA EndTypes ==
  ASSUME Types, NEW t \in Thread, End(t), clock' = clock,
         stack' \in BOOLEAN, volume' \in Content,
         DOMAIN archives' \subseteq 1..clock, archives' \in [DOMAIN archives' -> Archive]
  PROVE  Types'
BY NoJobType DEF Types, End, Goto

LEMMA BeginTypes ==
  ASSUME Types, NEW t \in Thread, NEW script, NEW label, NEW name \in Nat,
         Begin(t, script, label, name), clock' \in Nat, clock <= clock',
         label \notin {"extract", "remove"}, label = "stop" => name \in 1..clock'
  PROVE  Types'
<1>1. job' \in [Thread -> Job]
  <2>1. ASSUME NEW b \in BOOLEAN, NEW c \in BOOLEAN
        PROVE  [NoJob EXCEPT !.name = name, !.scheduled = b, !.alone = c] \in Job
    BY DEF NoJob, Job
  <2>2. [NoJob EXCEPT !.name = name, !.scheduled = (script = "scheduled"), !.alone = Quiet] \in Job
    BY <2>1 DEF Quiet
  <2>3. \A u \in Thread : [job[u] EXCEPT !.alone = FALSE] \in Job
    BY DEF Types, Job
  <2> QED
    BY <2>2, <2>3 DEF Begin
<1>2. 1..clock \subseteq 1..clock'
  BY DEF Types
<1>3. \A u \in Thread : /\ pc'[u] = IF u = t THEN label ELSE pc[u]
                        /\ u # t => job'[u].name = job[u].name /\ job'[u].left = job[u].left
                        /\ job'[t].name = name
  BY DEF Types, Begin, Goto, Job, NoJob
<1> QED
  BY <1>1, <1>2, <1>3 DEF Types, Begin, Goto

LEMMA TypesStep ==
  ASSUME Types, [Next]_vars
  PROVE  Types'
<1>1. CASE UNCHANGED vars
  BY <1>1 DEF vars, Types
<1>2. CASE Index
  BY <1>2 DEF Index, Types, Content, Count, Part
<1>3. CASE Register
  BY <1>3 DEF Register, Types, Content, Count, Part
<1>4. CASE Rot
  <2>1. PICK n \in DOMAIN archives : archives' = [archives EXCEPT ![n].rotten = TRUE]
    BY <1>4 DEF Rot
  <2>2. DOMAIN archives' = DOMAIN archives /\ archives' \in [DOMAIN archives -> Archive]
    BY <2>1 DEF Types, Archive
  <2> QED
    BY <1>4, <2>2 DEF Rot, Types
<1>5. CASE ComposeUp
  BY <1>5, CreatedType DEF ComposeUp, StartStack, Types
<1>6. ASSUME NEW t \in Thread, Backup(t) PROVE Types'
  <2>1. clock + 1 \in Nat /\ clock <= clock + 1 /\ clock + 1 \in 1..(clock + 1)
    BY DEF Types
  <2>2. PICK script : Begin(t, script, "stop", clock')
    BY <1>6 DEF Backup
  <2>3. clock' = clock + 1
    BY <1>6 DEF Backup
  <2>4. PICK name \in Nat : name = clock'
    BY <2>1, <2>3
  <2>5. Begin(t, script, "stop", name)
    BY <2>2, <2>4
  <2> QED
    BY <2>1, <2>3, <2>4, <2>5, BeginTypes
<1>7. ASSUME NEW t \in Thread, Prune(t) PROVE Types'
  BY <1>7, BeginTypes DEF Prune, Types
<1>8. ASSUME NEW t \in Thread, Restore(t) PROVE Types'
  <2>1. PICK n \in DOMAIN archives : Begin(t, "restore", "halt", n) /\ UNCHANGED clock
    BY <1>8 DEF Restore
  <2>2. n \in Nat
    BY DEF Types
  <2> QED
    BY <2>1, <2>2, BeginTypes DEF Types
<1>9. ASSUME NEW t \in Thread, StopFails(t) PROVE Types'
  BY <1>9, EndTypes DEF StopFails, Types
<1>10. ASSUME NEW t \in Thread, Stop(t) PROVE Types'
  <2>1. job[t].alone \in BOOLEAN /\ job[t].name \in 1..clock
    BY <1>10 DEF Stop, Types, Job
  <2>2. /\ DOMAIN archives' = DOMAIN archives \cup {job[t].name}
        /\ archives' \in [DOMAIN archives' -> Archive]
    BY <1>10, <2>1, NewArchiveType DEF Stop, OpenArchive, Types
  <2> QED
    BY <1>10, <2>1, <2>2 DEF Stop, OpenArchive, Goto, Types
<1>11. ASSUME NEW t \in Thread, Copy(t) PROVE Types'
  <2>1. PICK n \in DOMAIN archives, p \in Part :
          archives' = [archives EXCEPT ![n].copied = @ \cup {p}, ![n].content[p] = volume[p],
                                       ![n].alone = @ /\ job[t].alone]
    BY <1>11 DEF Copy
  <2>2. /\ archives[n].copied \cup {p} \subseteq Part
        /\ [archives[n].content EXCEPT ![p] = volume[p]] \in Content
        /\ (archives[n].alone /\ job[t].alone) \in BOOLEAN
    BY DEF Types, Archive, Content
  <2>3. DOMAIN archives' = DOMAIN archives /\ archives' \in [DOMAIN archives -> Archive]
    BY <2>1, <2>2 DEF Types, Archive
  <2> QED
    BY <1>11, <2>3 DEF Copy, Goto, Types
<1>12. ASSUME NEW t \in Thread, Sum(t) PROVE Types'
  <2>1. DOMAIN archives' = DOMAIN archives /\ archives' \in [DOMAIN archives -> Archive]
    BY ZenonT(60), <1>12 DEF Sum, Types, Archive
  <2> QED
    BY <1>12, <2>1 DEF Sum, Goto, Types
<1>13. ASSUME NEW t \in Thread, Abort(t) PROVE Types'
  <2>1. [job[t] EXCEPT !.failed = TRUE] \in Job
    BY DEF Types, Job
  <2>2. job' = [job EXCEPT ![t] = [job[t] EXCEPT !.failed = TRUE]]
    BY <1>13 DEF Abort
  <2>3. job' \in [Thread -> Job]
    BY <2>1, <2>2 DEF Types
  <2>4. \A u \in Thread : job'[u].name = job[u].name /\ job'[u].left = job[u].left
    BY <2>2 DEF Types, Job
  <2> QED
    BY <1>13, <2>3, <2>4 DEF Abort, Goto, Types
<1>14. ASSUME NEW t \in Thread, Start(t) PROVE Types'
  <2>1. CASE Goto(t, "verify") /\ UNCHANGED job
    BY <1>14, <2>1, CreatedType DEF Start, StartStack, Goto, Types
  <2>2. CASE End(t)
    BY <1>14, <2>2, CreatedType, EndTypes DEF Start, StartStack, Types
  <2> QED
    BY <1>14, <2>1, <2>2 DEF Start
<1>15. ASSUME NEW t \in Thread, Verify(t) PROVE Types'
  <2>1. CASE Goto(t, "prune") /\ UNCHANGED job
    BY <1>15, <2>1, GotoTypes DEF Verify
  <2>2. CASE End(t)
    BY <1>15, <2>2, EndTypes DEF Verify, Types
  <2> QED
    BY <1>15, <2>1, <2>2 DEF Verify
<1>16. ASSUME NEW t \in Thread, List(t) PROVE Types'
  <2>1. CASE End(t)
    BY <1>16, <2>1, EndTypes DEF List, Types
  <2>2. CASE /\ AllButNewest # {} /\ Goto(t, "remove")
             /\ job' = [job EXCEPT ![t].left = AllButNewest]
    <3>1. AllButNewest \subseteq 1..clock /\ AllButNewest \subseteq Nat
      BY DEF Types, AllButNewest
    <3>2. PICK names \in SUBSET Nat : names = AllButNewest
      BY <3>1
    <3>3. [job[t] EXCEPT !.left = names] \in Job
      BY DEF Types, Job
    <3>4. job' = [job EXCEPT ![t] = [job[t] EXCEPT !.left = names]]
      BY <2>2, <3>2
    <3>5. job' \in [Thread -> Job]
      BY <3>3, <3>4 DEF Types
    <3>6. job'[t].left = names
      BY <3>4 DEF Types, Job
    <3>7. \A u \in Thread \ {t} : job'[u] = job[u] /\ pc'[u] = pc[u]
      BY <2>2, <3>4 DEF Goto, Types
    <3>8. pc'[t] = "remove" /\ names \subseteq 1..clock /\ names # {}
      BY <2>2, <3>1, <3>2 DEF Goto, Types
    <3> QED
      BY <1>16, <2>2, <3>5, <3>6, <3>7, <3>8 DEF List, Goto, Types
  <2> QED
    BY <1>16, <2>1, <2>2 DEF List
<1>17. ASSUME NEW t \in Thread, Remove(t) PROVE Types'
  <2>1. PICK n : /\ archives' = [m \in DOMAIN archives \ {n} |-> archives[m]]
                 /\ IF job[t].left = {n} THEN End(t)
                    ELSE UNCHANGED pc /\ job' = [job EXCEPT ![t].left = @ \ {n}]
    BY <1>17 DEF Remove
  <2>2. DOMAIN archives' \subseteq 1..clock /\ archives' \in [DOMAIN archives' -> Archive]
    BY <2>1 DEF Types
  <2>3. CASE End(t)
    BY <1>17, <2>2, <2>3, EndTypes DEF Remove, Types
  <2>4. CASE /\ job[t].left # {n} /\ UNCHANGED pc
             /\ job' = [job EXCEPT ![t].left = @ \ {n}]
    <3>1. /\ job[t].left \ {n} \subseteq 1..clock
          /\ job[t].left \ {n} # {}
      BY <1>17, <2>4 DEF Remove, Types
    <3>2. job' \in [Thread -> Job]
      BY <2>4 DEF Types, Job
    <3>3. \A u \in Thread : /\ job'[u].name = job[u].name
                            /\ job'[u].left = IF u = t THEN job[t].left \ {n} ELSE job[u].left
      BY <2>4 DEF Types, Job
    <3> QED
      BY <1>17, <2>2, <2>4, <3>1, <3>2, <3>3 DEF Remove, Types
  <2> QED
    BY <2>1, <2>3, <2>4
<1>18. ASSUME NEW t \in Thread, Halt(t) PROVE Types'
  BY <1>18 DEF Halt, Goto, Types
<1>19. ASSUME NEW t \in Thread, Wipe(t) PROVE Types'
  <2>1. PICK left \in SUBSET Part : job' = [job EXCEPT ![t].left = left]
    BY <1>19 DEF Wipe, Types, Archive
  <2>2. job' \in [Thread -> Job]
    BY <2>1 DEF Types, Job
  <2>3. \A u \in Thread : /\ job'[u].name = job[u].name
                          /\ job'[u].left = IF u = t THEN left ELSE job[u].left
    BY <2>1 DEF Types, Job
  <2> QED
    BY <1>19, <2>2, <2>3, EmptyType DEF Wipe, Goto, Types
<1>20. ASSUME NEW t \in Thread, Extract(t) PROVE Types'
  <2>1. PICK p \in job[t].left :
          /\ volume' = [volume EXCEPT ![p] = archives[job[t].name].content[p]]
          /\ job' = [job EXCEPT ![t].left = @ \ {p}]
    BY <1>20 DEF Extract
  <2>2. p \in Part /\ job[t].left \ {p} \subseteq Part
    BY <1>20 DEF Extract, Types
  <2>3. volume' \in Content
    BY <1>20, <2>1, <2>2 DEF Extract, Types, Archive, Content
  <2>4. job' \in [Thread -> Job]
    BY <2>1 DEF Types, Job
  <2>5. \A u \in Thread : /\ job'[u].name = job[u].name
                          /\ job'[u].left = IF u = t THEN job[t].left \ {p} ELSE job[u].left
    BY <2>1 DEF Types, Job
  <2> QED
    BY <1>20, <2>2, <2>3, <2>4, <2>5 DEF Extract, Types
<1>21. ASSUME NEW t \in Thread, Extracted(t) PROVE Types'
  BY <1>21 DEF Extracted, Goto, Types
<1>22. ASSUME NEW t \in Thread, ExtractFails(t) PROVE Types'
  BY <1>22, EndTypes DEF ExtractFails, Types
<1>23. ASSUME NEW t \in Thread, Kill(t) PROVE Types'
  BY <1>23, EndTypes DEF Kill, Types
<1>24. ASSUME NEW t \in Thread, StartFails(t) PROVE Types'
  <2>1. stack' \in BOOLEAN /\ volume' \in Content
    BY <1>24, CreatedType DEF StartFails, StartStack, Types
  <2> QED
    BY <1>24, <2>1, EndTypes DEF StartFails, Types
<1> QED
  BY <1>1, <1>2, <1>3, <1>4, <1>5, <1>6, <1>7, <1>8, <1>9, <1>10, <1>11, <1>12, <1>13, <1>14,
     <1>15, <1>16, <1>17, <1>18, <1>19, <1>20, <1>21, <1>22, <1>23, <1>24 DEF Next

-----------------------------------------------------------------------------
(* A stack that is down.                                                   *)

LEMMA OwnedStep ==
  ASSUME Types, Owned, [Next]_vars
  PROVE  Owned'
<1>1. CASE UNCHANGED vars \/ Index \/ Register \/ Rot
  BY <1>1 DEF vars, Index, Register, Rot, Owned
<1>2. CASE ComposeUp
  BY <1>2 DEF ComposeUp, StartStack, Owned
<1>3. ASSUME NEW t \in Thread, Backup(t) \/ Prune(t) \/ Restore(t) PROVE Owned'
  BY ZenonT(60), <1>3 DEF Backup, Prune, Restore, Begin, Goto, Types, Owned
<1>4. ASSUME NEW t \in Thread,
             \/ Stop(t) \/ Copy(t) \/ Sum(t) \/ Abort(t)
             \/ Halt(t) \/ Wipe(t) \/ Extract(t) \/ Extracted(t)
      PROVE  Owned'
  <2>1. pc'[t] \in {"tar", "sum", "start", "wipe", "extract"}
    BY ZenonT(60), <1>4 DEF Stop, OpenArchive, Copy, Sum, Abort, Halt, Wipe, Extract, Extracted, Goto, Types
  <2> QED BY <2>1 DEF Owned
<1>5. ASSUME NEW t \in Thread, Start(t) PROVE Owned'
  BY <1>5 DEF Start, StartStack, Owned
<1>6. ASSUME NEW t \in Thread, StopFails(t) \/ StartFails(t) \/ ExtractFails(t) \/ Kill(t)
      PROVE  Owned'
  <2>1. ~stack' => outage' # None
    <3>1. CASE StopFails(t) \/ ExtractFails(t) \/ Kill(t)
      BY <3>1, NoneAssumption DEF StopFails, ExtractFails, Kill, Types
    <3>2. CASE StartFails(t)
      <4>1. CASE StartStack
        BY <4>1 DEF StartStack
      <4>2. CASE stack' = stack /\ outage' = IF stack THEN outage ELSE "start failed"
        BY ZenonT(60), <4>2, NoneAssumption
      <4> QED BY <3>2, <4>1, <4>2 DEF StartFails
    <3> QED BY <1>6, <3>1, <3>2
  <2> QED BY <2>1 DEF Owned
<1>7. ASSUME NEW t \in Thread, Verify(t) \/ List(t) \/ Remove(t) PROVE Owned'
  <2>1. pc[t] \in {"verify", "prune", "remove"} /\ \A u \in Thread \ {t} : pc'[u] = pc[u]
    BY <1>7 DEF Verify, List, Remove, End, Goto, Types
  <2>2. UNCHANGED <<stack, outage>>
    BY <1>7 DEF Verify, List, Remove
  <2> QED BY <2>1, <2>2 DEF Owned
<1> QED
  BY <1>1, <1>2, <1>3, <1>4, <1>5, <1>6, <1>7 DEF Next

-----------------------------------------------------------------------------
(* Who runs alone.                                                         *)

(* A step of one script is no step of another that runs alone.             *)
LEMMA ActiveIsNotOverlooked ==
  ASSUME Alone, NEW t \in Thread, pc[t] # "idle"
  PROVE  \A u \in Thread \ {t} : ~job[u].alone
BY DEF Alone

(* What a step of a script does to the others, and to what its own job is. *)
LEMMA OwnStep ==
  ASSUME Types, NEW t \in Thread,
         \/ StopFails(t) \/ Stop(t) \/ Copy(t) \/ Sum(t) \/ Abort(t)
         \/ Start(t) \/ StartFails(t)
         \/ Verify(t) \/ List(t) \/ Remove(t)
         \/ Halt(t) \/ Wipe(t) \/ Extract(t) \/ Extracted(t) \/ ExtractFails(t) \/ Kill(t)
  PROVE  /\ pc[t] # "idle"
         /\ \A u \in Thread \ {t} : pc'[u] = pc[u] /\ job'[u] = job[u]
         /\ job'[t].alone => job[t].alone
         /\ job'[t].scheduled => job[t].scheduled
         /\ job'[t].alone => job'[t].name = job[t].name
<1> USE DEF Types
<1>1. CASE \/ StopFails(t) \/ StartFails(t) \/ ExtractFails(t) \/ Kill(t)
  <2>1. pc[t] # "idle" /\ End(t)
    BY ZenonT(60), <1>1 DEF StopFails, StartFails, ExtractFails, Kill
  <2> QED BY <2>1 DEF End, Goto, NoJob
<1>2. CASE Stop(t) \/ Copy(t) \/ Sum(t) \/ Halt(t) \/ Extracted(t)
  BY ZenonT(60), <1>2 DEF Stop, OpenArchive, Copy, Sum, Halt, Extracted, Goto
<1>3. CASE Abort(t)
  BY <1>3 DEF Abort, Goto, Job
<1>4. CASE Wipe(t) \/ Extract(t)
  BY <1>4 DEF Wipe, Extract, Goto, Job
<1>5. CASE Start(t) \/ Verify(t)
  BY <1>5 DEF Start, Verify, End, Goto, NoJob
<1>6. CASE List(t)
  BY <1>6 DEF List, End, Goto, NoJob, Job
<1>7. CASE Remove(t)
  BY <1>7 DEF Remove, End, Goto, NoJob, Job
<1> QED
  BY <1>1, <1>2, <1>3, <1>4, <1>5, <1>6, <1>7

LEMMA BeginStep ==
  ASSUME Types, NEW t \in Thread, Backup(t) \/ Prune(t) \/ Restore(t)
  PROVE  /\ pc[t] = "idle" /\ pc'[t] \in {"stop", "prune", "halt"}
         /\ pc'[t] = "prune" => ~job'[t].scheduled
         /\ job'[t].alone => Quiet
         /\ \A u \in Thread \ {t} : pc'[u] = pc[u] /\ ~job'[u].alone
         /\ UNCHANGED <<stack, volume, archives>>
<1>1. ASSUME NEW script, NEW label, NEW name, Begin(t, script, label, name)
      PROVE  /\ pc[t] = "idle" /\ pc'[t] = label
             /\ job'[t].scheduled = (script = "scheduled") /\ job'[t].alone = Quiet
             /\ \A u \in Thread \ {t} : pc'[u] = pc[u] /\ ~job'[u].alone
             /\ UNCHANGED <<stack, volume, archives>>
  BY <1>1 DEF Begin, Goto, Types, NoJob, Job
<1>2. CASE Backup(t)
  BY <1>1, <1>2 DEF Backup
<1>3. CASE Prune(t)
  BY <1>1, <1>3 DEF Prune
<1>4. CASE Restore(t)
  BY <1>1, <1>4 DEF Restore
<1> QED
  BY <1>2, <1>3, <1>4

LEMMA AloneStep ==
  ASSUME Types, Alone, [Next]_vars
  PROVE  Alone'
<1>1. CASE UNCHANGED vars \/ Index \/ Register
  BY <1>1 DEF vars, Index, Register, Alone
<1>2. CASE Rot \/ ComposeUp
  BY <1>2 DEF Rot, ComposeUp, StartStack, Quiet, Alone
<1>3. ASSUME NEW t \in Thread, Backup(t) \/ Prune(t) \/ Restore(t) PROVE Alone'
  BY <1>3, BeginStep DEF Alone, Quiet
<1>4. ASSUME NEW t \in Thread, Stop(t) PROVE Alone'
  <2>1. /\ pc[t] # "idle" /\ UNCHANGED job
        /\ \A u \in Thread \ {t} : pc'[u] = pc[u] /\ ~job[u].alone
    BY ZenonT(60), <1>4, OwnStep, ActiveIsNotOverlooked DEF Stop
  <2>2. ~stack' /\ volume' = volume /\ archives'[job[t].name].of = volume
    BY <1>4 DEF Stop, OpenArchive, NewArchive
  <2> QED BY <2>1, <2>2 DEF Alone
<1>5. ASSUME NEW t \in Thread, Copy(t) PROVE Alone'
  <2>1. /\ pc[t] = "tar" /\ UNCHANGED <<job, stack, volume>>
        /\ \A u \in Thread \ {t} : pc'[u] = pc[u] /\ ~job[u].alone
    BY ZenonT(60), <1>5, OwnStep, ActiveIsNotOverlooked DEF Copy
  <2>2. /\ job[t].name \in DOMAIN archives
        /\ archives'[job[t].name].of = archives[job[t].name].of
    BY <1>5 DEF Copy, Types, Archive
  <2> QED BY <2>1, <2>2 DEF Alone
<1>6. ASSUME NEW t \in Thread,
             \/ StopFails(t) \/ Sum(t) \/ Abort(t)
             \/ Start(t) \/ StartFails(t)
             \/ Verify(t) \/ List(t) \/ Remove(t)
             \/ Halt(t) \/ Wipe(t) \/ Extract(t) \/ Extracted(t) \/ ExtractFails(t) \/ Kill(t)
      PROVE  Alone'
  <2>1. \A u \in Thread \ {t} : pc'[u] = pc[u] /\ ~job'[u].alone
    BY <1>6, OwnStep, ActiveIsNotOverlooked
  <2>2. job'[t].alone => job[t].alone
    BY <1>6, OwnStep
  <2>3. pc'[t] # "tar"
    BY ZenonT(60), <1>6 DEF StopFails, Sum, Abort, Start, StartFails, Verify, List, Remove, Halt, Wipe, Extract,
                Extracted, ExtractFails, Kill, End, Goto, Types
  <2> QED BY <2>1, <2>2, <2>3 DEF Alone
<1> QED
  BY <1>1, <1>2, <1>3, <1>4, <1>5, <1>6 DEF Next

LEMMA FaithfulStep ==
  ASSUME Types, Alone, Faithful, [Next]_vars
  PROVE  Faithful'
<1>1. CASE UNCHANGED archives
  BY <1>1 DEF Faithful
<1>2. CASE Rot
  BY <1>2 DEF Rot, Types, Archive, Faithful
<1>3. ASSUME NEW t \in Thread, Stop(t) PROVE Faithful'
  BY <1>3 DEF Stop, OpenArchive, NewArchive, Faithful
<1>4. ASSUME NEW t \in Thread, Copy(t) PROVE Faithful'
  <2>1. PICK n \in DOMAIN archives, p \in Part :
          /\ n = job[t].name
          /\ archives' = [archives EXCEPT ![n].copied = @ \cup {p}, ![n].content[p] = volume[p],
                                          ![n].alone = @ /\ job[t].alone]
    BY <1>4 DEF Copy
  <2>2. /\ DOMAIN archives' = DOMAIN archives
        /\ \A m \in DOMAIN archives \ {n} : archives'[m] = archives[m]
        /\ archives'[n].copied = archives[n].copied \cup {p}
        /\ archives'[n].content = [archives[n].content EXCEPT ![p] = volume[p]]
        /\ archives'[n].of = archives[n].of
        /\ archives'[n].alone = (archives[n].alone /\ job[t].alone)
    BY ZenonT(60), <2>1 DEF Types, Archive
  <2>3. archives[n].content \in Content /\ archives[n].copied \subseteq Part
    BY DEF Types, Archive
  <2>4. job[t].alone => volume = archives[n].of
    <3>1. pc[t] = "tar"
      BY <1>4 DEF Copy
    <3>2. job[t].name = n
      BY <2>1
    <3> QED BY <3>1, <3>2 DEF Alone
  <2>5. ASSUME archives'[n].alone, NEW q \in archives'[n].copied
        PROVE  archives'[n].content[q] = archives'[n].of[q]
    <3>1. archives[n].alone /\ volume = archives[n].of
      BY <2>2, <2>4, <2>5
    <3>2. archives'[n].content[q] = IF q = p THEN volume[p] ELSE archives[n].content[q]
      BY <2>2, <2>3 DEF Content
    <3>3. q # p => archives[n].content[q] = archives[n].of[q]
      BY <2>2, <2>5, <3>1 DEF Faithful
    <3> QED BY <2>2, <3>1, <3>2, <3>3
  <2>6. ASSUME NEW m \in DOMAIN archives, archives'[m].alone, NEW q \in archives'[m].copied
        PROVE  archives'[m].content[q] = archives'[m].of[q]
    <3>1. CASE m = n
      BY <2>5, <2>6, <3>1
    <3>2. CASE m # n
      BY <2>2, <2>6, <3>2 DEF Faithful
    <3> QED BY <3>1, <3>2
  <2> QED
    BY <2>2, <2>6 DEF Faithful
<1>5. ASSUME NEW t \in Thread, Sum(t) PROVE Faithful'
  BY <1>5 DEF Sum, Types, Archive, Faithful
<1>6. ASSUME NEW t \in Thread, Remove(t) PROVE Faithful'
  BY <1>6 DEF Remove, Faithful
<1> QED
  BY ZenonT(60), <1>1, <1>2, <1>3, <1>4, <1>5, <1>6
     DEF Next, vars, Index, Register, ComposeUp, Backup, Prune, Restore, Begin, StopFails, Abort,
         Start, StartFails, Verify, List, Halt, Wipe, Extract, Extracted, ExtractFails, Kill

-----------------------------------------------------------------------------
(* What is pruned.                                                         *)

LEMMA NewestIsKept ==
  ASSUME Types, NEW n \in DOMAIN archives, \A m \in DOMAIN archives : m <= n
  PROVE  n \notin AllButNewest
<1>1. {m \in DOMAIN archives : m > n} = {}
  BY DEF Types
<1>2. ~(0 >= Keep)
  BY KeepAssumption
<1> QED
  BY <1>1, <1>2, FS_EmptySet DEF AllButNewest

LEMMA GuardedStep ==
  ASSUME Types, Alone, Guarded, [Next]_vars
  PROVE  Guarded'
<1>1. CASE UNCHANGED vars \/ Index \/ Register
  BY <1>1 DEF vars, Index, Register, Guarded, Restorable, Readable
<1>2. CASE Rot \/ ComposeUp
  BY <1>2 DEF Rot, ComposeUp, Quiet, Guarded
<1>3. ASSUME NEW t \in Thread, Backup(t) \/ Prune(t) \/ Restore(t) PROVE Guarded'
  BY <1>3, BeginStep DEF Guarded
<1>4. ASSUME NEW t \in Thread,
             \/ StopFails(t) \/ Stop(t) \/ Copy(t) \/ Sum(t) \/ Abort(t)
             \/ Start(t) \/ StartFails(t)
             \/ Halt(t) \/ Wipe(t) \/ Extract(t) \/ Extracted(t) \/ ExtractFails(t) \/ Kill(t)
      PROVE  Guarded'
  <2>1. \A u \in Thread \ {t} : ~job'[u].alone
    BY <1>4, OwnStep, ActiveIsNotOverlooked
  <2>2. pc'[t] \notin {"prune", "remove"}
    BY ZenonT(60), <1>4 DEF StopFails, Stop, OpenArchive, Copy, Sum, Abort, Start, StartFails, Halt, Wipe, Extract,
                Extracted, ExtractFails, Kill, End, Goto, Types
  <2> QED BY <2>1, <2>2 DEF Guarded
<1>5. ASSUME NEW t \in Thread, Verify(t) PROVE Guarded'
  <2>1. \A u \in Thread \ {t} : ~job'[u].alone
    BY <1>5, OwnStep, ActiveIsNotOverlooked DEF Verify
  <2>2. UNCHANGED archives
    BY <1>5 DEF Verify
  <2>3. CASE DOMAIN archives # {} /\ Restorable(archives[Newest(DOMAIN archives)])
    <3>1. PICK n \in DOMAIN archives : /\ \A m \in DOMAIN archives : m <= n
                                       /\ Restorable(archives[n])
      BY <2>3, NewestIsOne DEF Types
    <3>2. pc'[t] = "prune"
      BY <1>5, <2>3 DEF Verify, Goto, Types
    <3> QED
      BY <2>1, <2>2, <3>1, <3>2 DEF Guarded, Restorable, Readable
  <2>4. CASE ~(DOMAIN archives # {} /\ Restorable(archives[Newest(DOMAIN archives)]))
    <3>1. pc'[t] = "idle"
      BY <1>5, <2>4 DEF Verify, End, Goto, Types
    <3> QED BY <2>1, <3>1 DEF Guarded
  <2> QED BY <2>3, <2>4
<1>6. ASSUME NEW t \in Thread, List(t) PROVE Guarded'
  <2>1. \A u \in Thread \ {t} : ~job'[u].alone
    BY <1>6, OwnStep, ActiveIsNotOverlooked DEF List
  <2>2. UNCHANGED archives
    BY <1>6 DEF List
  <2>3. CASE AllButNewest = {}
    <3>1. pc'[t] = "idle"
      BY <1>6, <2>3 DEF List, End, Goto, Types
    <3> QED BY <2>1, <3>1 DEF Guarded
  <2>4. CASE AllButNewest # {}
    <3>1. /\ pc[t] = "prune" /\ job'[t].left = AllButNewest
          /\ job'[t].alone = job[t].alone /\ job'[t].scheduled = job[t].scheduled
      BY <1>6, <2>4 DEF List, Types, Job
    <3>2. SUFFICES ASSUME job[t].alone, job[t].scheduled
                   PROVE  \E n \in DOMAIN archives :
                            /\ \A m \in DOMAIN archives : m <= n
                            /\ Restorable(archives[n])
                            /\ n \notin AllButNewest
      BY <2>1, <2>2, <3>1 DEF Guarded, Restorable, Readable
    <3>3. PICK n \in DOMAIN archives : /\ \A m \in DOMAIN archives : m <= n
                                       /\ Restorable(archives[n])
      BY <3>1, <3>2 DEF Guarded
    <3> QED
      BY <3>3, NewestIsKept
  <2> QED BY <2>3, <2>4
<1>7. ASSUME NEW t \in Thread, Remove(t) PROVE Guarded'
  <2>1. \A u \in Thread \ {t} : ~job'[u].alone
    BY <1>7, OwnStep, ActiveIsNotOverlooked DEF Remove
  <2>2. PICK n : /\ n = Newest(job[t].left)
                 /\ archives' = [m \in DOMAIN archives \ {n} |-> archives[m]]
                 /\ IF job[t].left = {n} THEN End(t)
                    ELSE UNCHANGED pc /\ job' = [job EXCEPT ![t].left = @ \ {n}]
    BY <1>7 DEF Remove
  <2>3. n \in job[t].left
    BY <1>7, <2>2, NewestIsOne DEF Remove, Types
  <2>4. CASE job[t].left = {n}
    <3>1. pc'[t] = "idle"
      BY <2>2, <2>4 DEF End, Goto, Types
    <3> QED BY <2>1, <3>1 DEF Guarded
  <2>5. CASE ~(job[t].left = {n})
    <3>1. /\ pc[t] = "remove" /\ job'[t].left = job[t].left \ {n}
          /\ job'[t].alone = job[t].alone /\ job'[t].scheduled = job[t].scheduled
      BY <1>7, <2>2, <2>5 DEF Remove, Types, Job
    <3>2. SUFFICES ASSUME job[t].alone, job[t].scheduled
                   PROVE  \E x \in DOMAIN archives' :
                            /\ \A m \in DOMAIN archives' : m <= x
                            /\ Restorable(archives'[x])
                            /\ x \notin job'[t].left
      BY <2>1, <3>1 DEF Guarded, Restorable, Readable
    <3>3. PICK x \in DOMAIN archives : /\ \A m \in DOMAIN archives : m <= x
                                       /\ Restorable(archives[x])
                                       /\ x \notin job[t].left
      BY <3>1, <3>2 DEF Guarded
    <3>4. x \in DOMAIN archives' /\ archives'[x] = archives[x]
      BY <2>2, <2>3, <3>3
    <3> QED
      BY <2>2, <3>1, <3>3, <3>4
  <2> QED
    BY <2>4, <2>5
<1> QED
  BY <1>1, <1>2, <1>3, <1>4, <1>5, <1>6, <1>7 DEF Next

-----------------------------------------------------------------------------
(* The theorems.                                                           *)

LEMMA Initially ==
  ASSUME Init
  PROVE  IInv
<1>1. Types
  BY NoJobType DEF Init, Types, Content, Count
<1>2. Owned /\ Alone /\ Faithful /\ Guarded
  BY DEF Init, Owned, Alone, Faithful, Guarded, NoJob
<1> QED
  BY <1>1, <1>2 DEF IInv

LEMMA Always == Spec => []IInv
<1>1. IInv /\ [Next]_vars => IInv'
  BY TypesStep, OwnedStep, AloneStep, FaithfulStep, GuardedStep DEF IInv
<1> QED
  BY Initially, <1>1, PTL DEF Spec

(* Whenever no script runs and the stack is down there is a reason for it: *)
(* it could not be stopped cleanly or not be started again, a restore      *)
(* failed or a script was killed (backup.sh's trap).                       *)
THEOREM StackComesBackTheorem == Spec => []StackComesBack
<1>1. IInv => StackComesBack
  BY DEF IInv, Owned, StackComesBack, Quiet
<1> QED
  BY <1>1, Always, PTL

(* A finished archive of a backup that ran alone is of one moment: its two *)
(* parts belong together (backup.sh stops the stack before it copies).     *)
THEOREM SnapshotIsFaithfulTheorem == Spec => []SnapshotIsFaithful
<1>1. IInv => SnapshotIsFaithful
  <2> SUFFICES ASSUME IInv, NEW n \in DOMAIN archives, archives[n].copied = Part,
                      archives[n].alone
               PROVE  archives[n].content = archives[n].of
    BY DEF SnapshotIsFaithful
  <2>1. archives[n].content \in Content /\ archives[n].of \in Content
    BY DEF IInv, Types, Archive
  <2>2. \A p \in Part : archives[n].content[p] = archives[n].of[p]
    BY DEF IInv, Faithful
  <2> QED
    BY <2>1, <2>2 DEF Content
<1> QED
  BY <1>1, Always, PTL

(* A scheduled run that nothing overlaps prunes only what is older than an *)
(* archive that would restore (scheduled-backup.sh verifies before it      *)
(* prunes).                                                                *)
THEOREM CopyRemainsTheorem == Spec => CopyRemains
<1> DEFINE Spared ==
      \A t \in Thread :
        /\ pc[t] = "remove" /\ job[t].scheduled /\ job[t].alone
        /\ archives' # archives /\ SomeRestorable
        => SomeRestorable'
<1>1. IInv /\ IInv' /\ [Next]_vars => [Spared]_vars
  <2> SUFFICES ASSUME IInv, Next, NEW t \in Thread,
                      pc[t] = "remove", job[t].scheduled, job[t].alone, archives' # archives
               PROVE  SomeRestorable'
    OBVIOUS
  <2>1. PICK x \in DOMAIN archives : /\ \A m \in DOMAIN archives : m <= x
                                     /\ Restorable(archives[x])
                                     /\ x \notin job[t].left
    BY DEF IInv, Guarded
  <2>2. \A u \in Thread \ {t} : pc[u] = "idle"
    BY SMTT(30) DEF IInv, Alone
  <2>3. Remove(t)
    BY ZenonT(60), <2>2 DEF Next, Index, Register, Rot, ComposeUp, Quiet, Backup, Prune, Restore, Begin,
                StopFails, Stop, Copy, Sum, Abort, Start, StartFails, Verify, List, Remove, Halt, Wipe,
                Extract, Extracted, ExtractFails, Kill
  <2>4. Newest(job[t].left) \in job[t].left
    BY NewestIsOne DEF IInv, Types
  <2>5. x \in DOMAIN archives' /\ archives'[x] = archives[x]
    BY <2>1, <2>3, <2>4 DEF Remove
  <2> QED
    BY <2>1, <2>5 DEF SomeRestorable, Restorable, Readable
<1>2. Spec => [][Spared]_vars
  <2> HIDE DEF Spared
  <2> QED
    BY <1>1, Always, PTL DEF Spec
<1> QED
  BY <1>2 DEF CopyRemains

=============================================================================
