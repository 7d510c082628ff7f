--------------------------- MODULE Ingestion_proofs ---------------------------
(***************************************************************************)
(* What holds of Ingestion for any number of uploads, failures and stops,  *)
(* and whatever the limit of the queue.                                    *)
(*                                                                         *)
(* The invariant has a part for each of the things that have to fit: who   *)
(* has which upload in hand and in which order (Hands), what the board     *)
(* says of it (Statuses, Suffix), what the stores hold of it (Stored), and *)
(* who will finish it (Kept).  The last two need that some store calls do  *)
(* not fail, which is a hypothesis of the theorems they are for.           *)
(***************************************************************************)
EXTENDS Ingestion, FiniteSetTheorems, FunctionTheorems, WellFoundedInduction, TLAPS

-----------------------------------------------------------------------------
(* The invariant.                                                          *)

Ingesting == {"parse", "add_chunks", "register", "compensate", "retain"}

Places == 1..Len(queue)

(* Uploads are taken in the order they came in, and the one the event loop *)
(* has is the latest.                                                      *)
Hands ==
  /\ pc["loop"] \in {"idle", "create", "enqueue"} \cup Ingesting
  /\ pc["worker"] \in {"idle", "mark", "complete", "fail", "sweep"} \cup Ingesting
  /\ \A a \in Actor : doing[a] = 0 <=> pc[a] = "idle"
  /\ \A i \in Places : queue[i] <= arrived
  /\ doing["worker"] <= arrived
  /\ \A i, j \in Places : i < j => queue[i] < queue[j]
  /\ \A i \in Places : doing["worker"] < queue[i]
  /\ pc["loop"] # "idle" =>
       /\ doing["loop"] = arrived
       /\ \A i \in Places : queue[i] < arrived
       /\ doing["worker"] < arrived
  /\ phase \notin {"up", "draining"} => queue = <<>> /\ \A a \in Actor : pc[a] = "idle"
  /\ phase = "draining" => queue = <<>> /\ pc["loop"] = "idle"

StatusOf(u) == board[u].status

Statuses ==
  /\ \A u \in Upload : u > arrived => StatusOf(u) = "none"
  /\ pc["loop"] \in {"create"} \cup Ingesting => StatusOf(doing["loop"]) = "none"
  /\ pc["loop"] = "enqueue" => StatusOf(doing["loop"]) = "queued"
  /\ \A i \in Places : StatusOf(queue[i]) = "queued"
  /\ pc["worker"] = "mark" => StatusOf(doing["worker"]) = "queued"
  /\ pc["worker"] \in {"complete", "fail"} \cup Ingesting => StatusOf(doing["worker"]) = "running"
  /\ pc["worker"] = "fail" => failing \in Category \ {"interrupted"}

Stored ==
  /\ registry \subseteq chunks /\ originals \subseteq registry
  /\ \A u \in chunks : u <= arrived
  /\ \A i \in Places : queue[i] \notin chunks
  /\ \A a \in Actor :
       /\ pc[a] \in {"create", "enqueue", "mark", "parse", "add_chunks"} => doing[a] \notin chunks
       /\ pc[a] \in {"register", "compensate"} => doing[a] \in chunks \ registry
       /\ pc[a] \in {"retain", "complete"} => doing[a] \in registry
       /\ pc[a] = "fail" => doing[a] \notin registry
  /\ \A u \in chunks \ registry :
       \/ u \in maimed
       \/ \E a \in Actor : doing[a] = u /\ pc[a] \in {"register", "compensate"}

Busy == pc["worker"] \notin {"idle", "sweep"}

Waiting(u) == (\E i \in Places : queue[i] = u) \/ (Busy /\ doing["worker"] = u)

Kept ==
  /\ phase = "expiring" => \A u \in Upload : StatusOf(u) \notin Live
  /\ phase = "up" => \A u \in Upload : StatusOf(u) \in Live =>
       Waiting(u) \/ (pc["loop"] = "enqueue" /\ doing["loop"] = u)

(* What came in after an upload that waits has not ended either.           *)
Suffix ==
  \A u, v \in Upload : Waiting(u) /\ v > u /\ Exists(v) => StatusOf(v) \in Live

-----------------------------------------------------------------------------
(* Types.                                                                  *)

LEMMA FaultTypes ==
  ASSUME TypeOK, NEW kind, Fault(kind) \/ Fine
  PROVE  faults' \in 0..MaxFaults /\ stops' \in 0..MaxStops
BY BoundsAssumption DEF TypeOK, Fault, Fine, bounds

LEMMA RowTypes ==
  ASSUME NEW s \in Live \cup Ended \cup {"none", "swept"}, NEW c \in Category
  PROVE  ShownAs(s) \in Row /\ FailedAs(c) \in Row
BY DEF ShownAs, FailedAs, Row, Live, Ended, Category

LEMMA RaiseTypes ==
  ASSUME TypeOK, NEW a \in Actor, NEW c \in Category, Raise(a, c)
  PROVE  pc' \in [Actor -> Step] /\ doing' \in [Actor -> Upload \cup {0}]
         /\ failing' \in Category \cup {"none"}
BY DEF TypeOK, Raise, Rest, Goto, Step, Actor

LEMMA ExpireTypes ==
  ASSUME TypeOK, DeleteExpired
  PROVE  board' \in [Upload -> Row]
BY RowTypes DEF TypeOK, DeleteExpired, Ended, Category

(* What an ingestion does, on either actor.                                *)
LEMMA IngestTypes ==
  ASSUME TypeOK, NEW a \in Actor, Ingest(a), doing[a] # 0
  PROVE  TypeOK'
<1> USE DEF TypeOK
<1>0. doing[a] \in Upload
  OBVIOUS
<1>1. CASE Parse(a)
  <2>1. CASE Goto(a, "add_chunks") /\ UNCHANGED <<doing, failing>>
    BY <1>1, <2>1 DEF Parse, Goto, Step, stores, bounds
  <2>2. ASSUME NEW c \in Rejection, Raise(a, c) PROVE TypeOK'
    BY <1>1, <2>2, RaiseTypes, RejectionAssumption DEF Parse, stores, bounds
  <2> QED BY <1>1, <2>1, <2>2 DEF Parse
<1>2. CASE AddChunks(a)
  <2>1. "internal_error" \in Category
    BY DEF Category
  <2>2. faults' \in 0..MaxFaults /\ stops' \in 0..MaxStops
    BY <1>2, FaultTypes DEF AddChunks
  <2>3. CASE Raise(a, "internal_error")
    BY <1>0, <1>2, <2>1, <2>2, <2>3, RaiseTypes DEF AddChunks
  <2>4. CASE Goto(a, "register") /\ UNCHANGED <<doing, failing>>
    BY <1>0, <1>2, <2>2, <2>4 DEF AddChunks, Goto, Step
  <2> QED BY <1>2, <2>3, <2>4 DEF AddChunks
<1>3. CASE Register(a)
  <2>2. faults' \in 0..MaxFaults /\ stops' \in 0..MaxStops
    BY <1>3, FaultTypes DEF Register
  <2> QED BY <1>0, <1>3, <2>2 DEF Register, Goto, Step
<1>4. CASE Compensate(a)
  <2>1. "internal_error" \in Category
    BY DEF Category
  <2>2. faults' \in 0..MaxFaults /\ stops' \in 0..MaxStops
    BY <1>4, FaultTypes DEF Compensate
  <2> QED BY <1>0, <1>4, <2>1, <2>2, RaiseTypes DEF Compensate
<1>5. CASE Retain(a)
  <2>2. faults' \in 0..MaxFaults /\ stops' \in 0..MaxStops
    BY <1>5, FaultTypes DEF Retain
  <2> QED BY <1>0, <1>5, <2>2 DEF Retain, Rest, Goto, Step
<1> QED
  BY <1>1, <1>2, <1>3, <1>4, <1>5 DEF Ingest

LEMMA TypesStep ==
  ASSUME TypeOK, Hands, [Next]_vars
  PROVE  TypeOK'
<1> USE DEF TypeOK
<1>0. \A a \in Actor : pc[a] # "idle" => doing[a] \in Upload
  BY DEF Hands
<1>1. CASE UNCHANGED vars \/ AwaitUpload
  BY <1>1 DEF vars, stores, bounds, AwaitUpload
<1>2. CASE Submit \/ IngestDirectly
  <2>1. arrived + 1 \in Upload /\ arrived' = arrived + 1
    BY <1>2, BoundsAssumption DEF Submit, IngestDirectly, Upload
  <2>2. doing' \in [Actor -> Upload \cup {0}] /\ pc' \in [Actor -> Step]
    BY <1>2, <2>1 DEF Submit, IngestDirectly, Goto, Step
  <2>3. arrived' \in 0..MaxUploads
    BY <2>1 DEF Upload
  <2> QED
    BY <1>2, <2>2, <2>3 DEF Submit, IngestDirectly, stores, bounds
<1>3. CASE CreateJob
  <2>1. doing["loop"] \in Upload
    BY <1>0, <1>3 DEF CreateJob, At, Actor
  <2>2. ShownAs("queued") \in Row
    BY RowTypes DEF Live, Category
  <2>3. board' \in [Upload -> Row]
    BY <1>3, <2>1, <2>2 DEF CreateJob, SetRow
  <2>4. faults' \in 0..MaxFaults /\ stops' \in 0..MaxStops
    BY <1>3, FaultTypes DEF CreateJob
  <2> QED
    BY <1>3, <2>3, <2>4 DEF CreateJob, Goto, Rest, Step, stores, Actor
<1>4. CASE Enqueue
  <2>1. doing["loop"] \in Upload
    BY <1>0, <1>4 DEF Enqueue, At, Actor
  <2> QED
    BY <1>4, <2>1 DEF Enqueue, Goto, Rest, Step, stores, bounds, Actor
<1>5. ASSUME NEW a \in Actor, Ingest(a) PROVE TypeOK'
  <2>1. pc[a] # "idle"
    BY <1>5 DEF Ingest, Parse, AddChunks, Register, Compensate, Retain, At
  <2>2. doing[a] # 0
    BY <2>1 DEF Hands
  <2> QED BY <1>5, <2>2, IngestTypes
<1>6. CASE TakeJob
  <2>1. Head(queue) \in Upload /\ Tail(queue) \in Seq(Upload)
    BY <1>6 DEF TakeJob
  <2> QED
    BY <1>6, <2>1 DEF TakeJob, Goto, Step, stores, bounds, Actor
<1>7. CASE MarkRunning
  <2>1. doing["worker"] \in Upload
    BY <1>0, <1>7 DEF MarkRunning, At, Actor
  <2>2. ShownAs("running") \in Row
    BY RowTypes DEF Live, Category
  <2>3. board' \in [Upload -> Row]
    BY <1>7, <2>1, <2>2 DEF MarkRunning, SetRow
  <2>4. faults' \in 0..MaxFaults /\ stops' \in 0..MaxStops
    BY <1>7, FaultTypes DEF MarkRunning
  <2> QED
    BY <1>7, <2>3, <2>4 DEF MarkRunning, Goto, Rest, Step, stores, Actor
<1>8. CASE RecordSuccess
  <2>1. ShownAs("succeeded") \in Row
    BY RowTypes DEF Ended, Category
  <2>2. board' \in [Upload -> Row] /\ old' \in SUBSET Upload
    BY <1>8, <2>1 DEF RecordSuccess, Finish, SetRow
  <2>3. faults' \in 0..MaxFaults /\ stops' \in 0..MaxStops
    BY <1>8, FaultTypes DEF RecordSuccess
  <2> QED
    BY <1>8, <2>2, <2>3 DEF RecordSuccess, Goto, Step, stores
<1>9. CASE RecordFailure
  <2>1. FailedAs(failing) \in Row
    BY DEF FailedAs, Row, Ended
  <2>2. board' \in [Upload -> Row] /\ old' \in SUBSET Upload
    BY <1>9, <2>1 DEF RecordFailure, Finish, SetRow
  <2>3. faults' \in 0..MaxFaults /\ stops' \in 0..MaxStops
    BY <1>9, FaultTypes DEF RecordFailure
  <2> QED
    BY <1>9, <2>2, <2>3 DEF RecordFailure, Goto, Step, stores
<1>10. CASE SweepQuietly
  <2>1. board' \in [Upload -> Row]
    BY <1>10, ExpireTypes DEF SweepQuietly
  <2>2. faults' \in 0..MaxFaults /\ stops' \in 0..MaxStops
    BY <1>10, FaultTypes DEF SweepQuietly
  <2> QED
    BY <1>10, <2>1, <2>2 DEF SweepQuietly, Goto, Rest, Step, stores, Actor
<1>11. CASE Kill
  <2>1. maimed' \in SUBSET Upload
    BY <1>11 DEF Kill
  <2> QED
    BY <1>11, <2>1, BoundsAssumption DEF Kill, Step, stores
<1>12. CASE Shutdown \/ Exit \/ Start
  <2>1. stops' \in 0..MaxStops /\ faults' = faults
    BY <1>12, BoundsAssumption DEF Shutdown, Exit, Start, bounds
  <2>2. queue' = queue \/ queue' = <<>>
    BY <1>12 DEF Shutdown, Exit, Start
  <2>3. <<>> \in Seq(Upload)
    OBVIOUS
  <2>4. queue' \in Seq(Upload)
    BY <2>2, <2>3
  <2> QED
    BY <1>12, <2>1, <2>4 DEF Shutdown, Exit, Start, stores
<1>13. CASE SweepInterrupted
  <2>1. FailedAs("interrupted") \in Row
    BY DEF FailedAs, Row, Ended, Category
  <2>2. board' \in [Upload -> Row] /\ old' \in SUBSET Upload
    BY <1>13, <2>1 DEF SweepInterrupted
  <2>3. faults' \in 0..MaxFaults /\ stops' \in 0..MaxStops
    BY <1>13, FaultTypes DEF SweepInterrupted
  <2> QED
    BY <1>13, <2>2, <2>3 DEF SweepInterrupted, stores
<1>14. CASE SweepAtStart
  <2>1. board' \in [Upload -> Row]
    BY <1>14, ExpireTypes DEF SweepAtStart
  <2>2. faults' \in 0..MaxFaults /\ stops' \in 0..MaxStops
    BY <1>14, FaultTypes DEF SweepAtStart
  <2> QED
    BY <1>14, <2>1, <2>2 DEF SweepAtStart, stores
<1>15. ASSUME NEW u \in Upload, PassRetention(u) PROVE TypeOK'
  BY <1>15 DEF PassRetention, stores, bounds
<1> QED
  BY <1>1, <1>2, <1>3, <1>4, <1>5, <1>6, <1>7, <1>8, <1>9, <1>10, <1>11, <1>12, <1>13, <1>14,
     <1>15 DEF Next, LoopStep, WorkerStep, StartStep, Actor

-----------------------------------------------------------------------------
(* Who has what in hand.                                                   *)

(* What a step of an ingestion does but for the stores.                    *)
LEMMA IngestEffect ==
  ASSUME TypeOK, NEW a \in Actor, Ingest(a)
  PROVE  /\ Running /\ pc[a] \in Ingesting
         /\ \A b \in Actor \ {a} : pc'[b] = pc[b] /\ doing'[b] = doing[b]
         /\ \/ /\ pc'[a] \in Ingesting /\ doing'[a] = doing[a] /\ failing' = failing
            \/ /\ a = "worker" /\ pc'[a] \in {"complete", "fail"} /\ doing'[a] = doing[a]
               /\ pc'[a] = "fail" => failing' \in Category \ {"interrupted"}
            \/ a = "loop" /\ pc'[a] = "idle" /\ doing'[a] = 0 /\ failing' = failing
         /\ UNCHANGED <<arrived, board, old, queue, phase>>
<1> USE DEF TypeOK, At, Actor
<1>1. ASSUME NEW c \in Category \ {"interrupted"}, Raise(a, c)
      PROVE  /\ \A b \in Actor \ {a} : pc'[b] = pc[b] /\ doing'[b] = doing[b]
             /\ \/ /\ a = "worker" /\ pc'[a] = "fail" /\ doing'[a] = doing[a]
                   /\ failing' \in Category \ {"interrupted"}
                \/ a = "loop" /\ pc'[a] = "idle" /\ doing'[a] = 0 /\ failing' = failing
  BY <1>1 DEF Raise, Rest, Goto
<1>2. "internal_error" \in Category \ {"interrupted"}
  BY DEF Category
<1>3. CASE Parse(a)
  BY <1>1, <1>3, RejectionAssumption DEF Parse, Goto, Ingesting
<1>4. CASE AddChunks(a)
  BY <1>1, <1>2, <1>4 DEF AddChunks, Goto, Ingesting
<1>5. CASE Register(a)
  BY <1>5 DEF Register, Goto, Ingesting
<1>6. CASE Compensate(a)
  BY <1>1, <1>2, <1>6 DEF Compensate, Ingesting
<1>7. CASE Retain(a)
  BY <1>7 DEF Retain, Goto, Rest, Ingesting
<1> QED
  BY <1>3, <1>4, <1>5, <1>6, <1>7 DEF Ingest

(* The worker lets go of a job.                                            *)
LEMMA RestHands ==
  ASSUME TypeOK, Hands, Rest("worker"), UNCHANGED <<arrived, queue, phase>>,
         phase \in {"up", "draining"}
  PROVE  Hands'
<1>1. /\ pc'["worker"] = "idle" /\ doing'["worker"] = 0
      /\ pc'["loop"] = pc["loop"] /\ doing'["loop"] = doing["loop"]
  BY DEF Rest, Goto, TypeOK, Actor
<1>2. \A i \in Places : 0 < queue[i]
  <2>1. \A i \in Places : queue[i] \in Upload
    BY DEF TypeOK, Places
  <2> QED BY <2>1 DEF Upload
<1>3. 0 <= arrived /\ (doing["loop"] # 0 /\ doing["loop"] = arrived => 0 < arrived)
  BY DEF TypeOK
<1> QED
  BY <1>1, <1>2, <1>3 DEF Hands, Places, Actor

LEMMA HandsStep ==
  ASSUME TypeOK, Hands, [Next]_vars
  PROVE  Hands'
<1> USE DEF TypeOK, Hands, Places
<1>1. CASE UNCHANGED vars \/ AwaitUpload
  BY <1>1 DEF vars, AwaitUpload
<1>2. CASE Submit \/ IngestDirectly
  <2>1. /\ arrived' = arrived + 1 /\ doing'["loop"] = arrived + 1
        /\ doing'["worker"] = doing["worker"] /\ pc'["worker"] = pc["worker"]
        /\ pc'["loop"] \in {"create", "parse"} /\ phase = "up"
        /\ UNCHANGED <<queue, phase>>
    BY <1>2 DEF Submit, IngestDirectly, Goto, Actor
  <2>2. \A i \in Places : queue[i] < arrived + 1 /\ queue[i] <= arrived + 1
    <3>1. \A i \in Places : queue[i] \in Upload
      OBVIOUS
    <3> QED BY <3>1 DEF Upload
  <2>3. doing["worker"] < arrived + 1 /\ doing["worker"] <= arrived + 1 /\ arrived + 1 # 0
    BY DEF Upload, Actor
  <2>4. \A i \in Places' : queue'[i] < arrived' /\ queue'[i] <= arrived'
    BY <2>1, <2>2
  <2>5. doing'["worker"] < arrived' /\ doing'["worker"] <= arrived' /\ doing'["loop"] # 0
    BY <2>1, <2>3
  <2> QED
    BY <2>1, <2>4, <2>5 DEF Ingesting, Actor
<1>3. CASE CreateJob
  BY <1>3 DEF CreateJob, At, Running, Goto, Rest, Actor
<1>4. CASE Enqueue
  <2>1. /\ pc["loop"] = "enqueue" /\ pc'["loop"] = "idle" /\ doing'["loop"] = 0
        /\ pc'["worker"] = pc["worker"] /\ doing'["worker"] = doing["worker"]
        /\ UNCHANGED <<arrived, phase>> /\ phase \in {"up", "draining"}
    BY <1>4 DEF Enqueue, At, Running, Rest, Goto, Actor
  <2>2. /\ Places' = 1..(Len(queue) + 1) /\ queue'[Len(queue) + 1] = arrived
        /\ \A i \in Places : queue'[i] = queue[i]
    BY <1>4, <2>1 DEF Enqueue, Actor
  <2>3. \A i \in Places' : i \in Places \/ i = Len(queue) + 1
    BY <2>2
  <2>4. phase # "draining"
    BY <2>1
  <2>5. doing["worker"] < arrived
    BY <2>1
  <2>6. \A i \in Places' : queue'[i] <= arrived /\ doing["worker"] < queue'[i]
    BY <2>2, <2>3, <2>5, SMTT(30) DEF Upload
  <2>7. \A i, j \in Places' : i < j => queue'[i] < queue'[j]
    BY <2>1, <2>2, <2>3, SMTT(30)
  <2> QED
    BY <2>1, <2>4, <2>6, <2>7 DEF Actor
<1>5. ASSUME NEW a \in Actor, Ingest(a) PROVE Hands'
  BY <1>5, IngestEffect DEF Ingesting, Running, Actor
<1>6. CASE TakeJob
  <2>1. /\ pc["worker"] = "idle" /\ pc'["worker"] = "mark" /\ doing'["worker"] = queue[1]
        /\ pc'["loop"] = pc["loop"] /\ doing'["loop"] = doing["loop"]
        /\ UNCHANGED <<arrived, phase>> /\ phase \in {"up", "draining"} /\ 1 \in Places
    BY <1>6 DEF TakeJob, At, Running, Goto, Actor
  <2>2. /\ Places' = 1..(Len(queue) - 1)
        /\ \A i \in Places' : i + 1 \in Places /\ queue'[i] = queue[i + 1]
    BY <1>6 DEF TakeJob
  <2>3. phase # "draining"
    BY <2>1
  <2>4. \A i \in Places' : queue[1] < queue'[i] /\ queue'[i] <= arrived
    BY <2>1, <2>2
  <2>5. \A i, j \in Places' : i < j => queue'[i] < queue'[j]
    BY <2>2
  <2>6. queue[1] # 0 /\ queue[1] <= arrived
    BY <2>1 DEF Upload
  <2>7. pc["loop"] # "idle" => queue[1] < arrived /\ \A i \in Places' : queue'[i] < arrived
    BY <2>1, <2>2
  <2> QED
    BY <2>1, <2>3, <2>4, <2>5, <2>6, <2>7 DEF Actor
<1>7. CASE MarkRunning
  <2>1. CASE pc'["worker"] = "parse" /\ doing' = doing
    <3>1. pc'["loop"] = pc["loop"] /\ pc["worker"] = "mark" /\ phase \in {"up", "draining"}
          /\ UNCHANGED <<arrived, queue, phase>>
      BY <1>7 DEF MarkRunning, At, Running, Goto, Rest, Actor
    <3> QED BY <2>1, <3>1 DEF Ingesting, Actor
  <2>2. CASE Rest("worker")
    BY <1>7, <2>2, RestHands DEF MarkRunning, At, Running
  <2> QED BY <1>7, <2>1, <2>2 DEF MarkRunning, Goto, Actor
<1>8. CASE RecordSuccess
  BY <1>8 DEF RecordSuccess, At, Running, Goto, Actor
<1>9. CASE RecordFailure
  BY <1>9 DEF RecordFailure, At, Running, Goto, Actor
<1>10. CASE SweepQuietly
  BY <1>10, RestHands DEF SweepQuietly, At, Running
<1>11. CASE Kill
  BY <1>11 DEF Kill, Actor
<1>12. CASE Shutdown
  BY <1>12 DEF Shutdown, Actor
<1>13. CASE Exit \/ Start \/ SweepInterrupted \/ SweepAtStart
  BY <1>13 DEF Exit, Start, SweepInterrupted, SweepAtStart, Actor
<1>14. ASSUME NEW u \in Upload, PassRetention(u) PROVE Hands'
  BY <1>14 DEF PassRetention
<1> QED
  BY <1>1, <1>2, <1>3, <1>4, <1>5, <1>6, <1>7, <1>8, <1>9, <1>10, <1>11, <1>12, <1>13, <1>14
     DEF Next, LoopStep, WorkerStep, StartStep, Actor

-----------------------------------------------------------------------------
(* What the board says.                                                    *)

LEMMA InHandIsUpload ==
  ASSUME TypeOK, Hands
  PROVE  /\ \A i \in Places : queue[i] \in Upload
         /\ \A a \in Actor : pc[a] # "idle" => doing[a] \in Upload
<1>1. \A i \in Places : queue[i] \in Upload
  BY DEF TypeOK, Places
<1>2. \A a \in Actor : pc[a] # "idle" => doing[a] \in Upload
  BY DEF TypeOK, Hands
<1> QED BY <1>1, <1>2

(* No upload is in two hands.                                              *)
LEMMA InOneHand ==
  ASSUME TypeOK, Hands
  PROVE  /\ \A i \in Places, a \in Actor : queue[i] # doing[a]
         /\ pc["loop"] # "idle" \/ pc["worker"] # "idle" => doing["loop"] # doing["worker"]
<1>1. \A i \in Places : queue[i] \in Upload
  BY InHandIsUpload
<1>2. \A i \in Places : queue[i] # doing["worker"]
  BY <1>1 DEF Hands, TypeOK, Upload, Actor
<1>3. \A i \in Places : queue[i] # doing["loop"]
  BY <1>1 DEF Hands, TypeOK, Upload, Actor
<1>4. pc["loop"] # "idle" \/ pc["worker"] # "idle" => doing["loop"] # doing["worker"]
  BY DEF Hands, TypeOK, Upload, Actor
<1> QED
  BY <1>2, <1>3, <1>4 DEF Actor

LEMMA SetRowEffect ==
  ASSUME TypeOK, NEW x \in Upload, NEW row, SetRow(x, row)
  PROVE  \A u \in Upload : StatusOf(u)' = IF u = x THEN row.status ELSE StatusOf(u)
BY DEF TypeOK, SetRow, StatusOf

LEMMA ExpireEffect ==
  ASSUME TypeOK, DeleteExpired
  PROVE  /\ \A u \in Upload : StatusOf(u) \notin Ended => StatusOf(u)' = StatusOf(u)
         /\ \A u \in Upload : StatusOf(u)' = StatusOf(u) \/ StatusOf(u)' = "swept"
BY DEF TypeOK, DeleteExpired, Expired, StatusOf, ShownAs

LEMMA StatusesStep ==
  ASSUME TypeOK, TypeOK', Hands, Hands', Statuses, [Next]_vars
  PROVE  Statuses'
<1>a. /\ \A i \in Places : queue[i] \in Upload
      /\ \A a \in Actor : pc[a] # "idle" => doing[a] \in Upload
  BY InHandIsUpload
<1>b. /\ \A i \in Places, a \in Actor : queue[i] # doing[a]
      /\ pc["loop"] # "idle" \/ pc["worker"] # "idle" => doing["loop"] # doing["worker"]
  BY InOneHand
<1>1. CASE UNCHANGED vars \/ AwaitUpload
  BY <1>1 DEF vars, AwaitUpload, Statuses, StatusOf, Places
<1>2. CASE Submit \/ IngestDirectly
  <2>1. /\ arrived' = arrived + 1 /\ doing'["loop"] = arrived + 1
        /\ doing'["worker"] = doing["worker"] /\ pc'["worker"] = pc["worker"]
        /\ pc'["loop"] \in {"create", "parse"}
        /\ UNCHANGED <<queue, board, failing>>
    BY <1>2 DEF Submit, IngestDirectly, Goto, Actor, TypeOK
  <2>2. arrived + 1 \in Upload /\ arrived + 1 > arrived
    BY <1>2, BoundsAssumption DEF Submit, IngestDirectly, Upload, TypeOK
  <2>3. \A u \in Upload : u > arrived + 1 => u > arrived
    BY DEF Upload, TypeOK
  <2> QED
    BY <2>1, <2>2, <2>3 DEF Statuses, StatusOf, Places
<1>3. CASE CreateJob
  <2>1. /\ doing["loop"] \in Upload /\ doing["loop"] = arrived /\ pc["loop"] = "create"
        /\ pc'["loop"] \in {"idle", "enqueue"} /\ doing'["loop"] \in {0, doing["loop"]}
        /\ pc'["loop"] = "enqueue" => doing'["loop"] = doing["loop"]
        /\ pc'["worker"] = pc["worker"] /\ doing'["worker"] = doing["worker"]
        /\ UNCHANGED <<arrived, queue, failing>>
    BY <1>3, <1>a DEF CreateJob, At, Goto, Rest, Actor, TypeOK, Hands
  <2>2. CASE SetRow(doing["loop"], ShownAs("queued"))
    <3>1. \A u \in Upload : StatusOf(u)' = IF u = doing["loop"] THEN "queued" ELSE StatusOf(u)
      BY <2>1, <2>2, SetRowEffect DEF ShownAs
    <3>2. \A u \in Upload : u > arrived => u # doing["loop"]
      BY <2>1 DEF TypeOK, Upload
    <3> QED
      BY <1>a, <1>b, <2>1, <3>1, <3>2 DEF Statuses, Places, Ingesting, Actor
  <2>3. CASE UNCHANGED board /\ pc'["loop"] = "idle"
    BY <2>1, <2>3 DEF Statuses, StatusOf, Places, Ingesting
  <2> QED
    BY <1>3, <2>2, <2>3 DEF CreateJob, Rest, Goto, TypeOK, Actor
<1>4. CASE Enqueue
  <2>1. /\ pc["loop"] = "enqueue" /\ pc'["loop"] = "idle"
        /\ pc'["worker"] = pc["worker"] /\ doing'["worker"] = doing["worker"]
        /\ UNCHANGED <<arrived, board, failing>>
    BY <1>4 DEF Enqueue, At, Rest, Goto, Actor, TypeOK
  <2>2. \A i \in Places' : (i \in Places /\ queue'[i] = queue[i]) \/ queue'[i] = doing["loop"]
    BY <1>4 DEF Enqueue, TypeOK, Places, Actor
  <2> QED
    BY <2>1, <2>2 DEF Statuses, StatusOf, Ingesting
<1>5. ASSUME NEW a \in Actor, Ingest(a) PROVE Statuses'
  BY <1>5, IngestEffect DEF Statuses, StatusOf, Ingesting, Places, Actor
<1>6. CASE TakeJob
  <2>1. /\ pc["worker"] = "idle" /\ pc'["worker"] = "mark" /\ doing'["worker"] = queue[1]
        /\ pc'["loop"] = pc["loop"] /\ doing'["loop"] = doing["loop"]
        /\ UNCHANGED <<arrived, board, failing>> /\ 1 \in Places
    BY <1>6 DEF TakeJob, At, Goto, Actor, TypeOK, Places
  <2>2. \A i \in Places' : i + 1 \in Places /\ queue'[i] = queue[i + 1]
    BY <1>6 DEF TakeJob, TypeOK, Places
  <2> QED
    BY <2>1, <2>2 DEF Statuses, StatusOf, Ingesting
<1>7. CASE MarkRunning
  <2>1. /\ doing["worker"] \in Upload /\ pc["worker"] = "mark"
        /\ pc'["worker"] \in {"idle", "parse"}
        /\ pc'["worker"] = "parse" => doing'["worker"] = doing["worker"]
        /\ pc'["loop"] = pc["loop"] /\ doing'["loop"] = doing["loop"]
        /\ UNCHANGED <<arrived, queue, failing>>
    BY <1>7, <1>a DEF MarkRunning, At, Goto, Rest, Actor, TypeOK
  <2>2. CASE SetRow(doing["worker"], ShownAs("running"))
    <3>1. \A u \in Upload : StatusOf(u)' = IF u = doing["worker"] THEN "running" ELSE StatusOf(u)
      BY <2>1, <2>2, SetRowEffect DEF ShownAs
    <3>2. \A u \in Upload : u > arrived => u # doing["worker"]
      BY <2>1 DEF Hands, TypeOK, Upload
    <3> QED
      BY <1>a, <1>b, <2>1, <3>1, <3>2 DEF Statuses, Places, Ingesting, Actor
  <2>3. CASE UNCHANGED board /\ pc'["worker"] = "idle"
    BY <2>1, <2>3 DEF Statuses, StatusOf, Places, Ingesting
  <2> QED
    BY <1>7, <2>2, <2>3 DEF MarkRunning, Rest, Goto, TypeOK, Actor
<1>8. CASE RecordSuccess \/ RecordFailure
  <2>1. /\ doing["worker"] \in Upload /\ pc["worker"] \in {"complete", "fail"}
        /\ pc'["worker"] = "sweep"
        /\ pc'["loop"] = pc["loop"]
        /\ UNCHANGED <<arrived, queue, doing>>
    BY <1>8, <1>a DEF RecordSuccess, RecordFailure, At, Goto, Actor, TypeOK
  <2>2. ASSUME NEW row, SetRow(doing["worker"], row) PROVE Statuses'
    <3>1. \A u \in Upload : u # doing["worker"] => StatusOf(u)' = StatusOf(u)
      BY <2>1, <2>2, SetRowEffect
    <3>2. \A u \in Upload : u > arrived => u # doing["worker"]
      BY <2>1 DEF Hands, TypeOK, Upload
    <3> QED
      BY <1>a, <1>b, <2>1, <3>1, <3>2 DEF Statuses, Places, Ingesting, Actor
  <2>3. CASE UNCHANGED board
    BY <2>1, <2>3 DEF Statuses, StatusOf, Places, Ingesting
  <2> QED
    BY <1>8, <2>2, <2>3 DEF RecordSuccess, RecordFailure, Finish
<1>9. CASE SweepQuietly
  <2>1. /\ pc["worker"] = "sweep" /\ pc'["worker"] = "idle"
        /\ pc'["loop"] = pc["loop"] /\ doing'["loop"] = doing["loop"]
        /\ UNCHANGED <<arrived, queue, failing>>
    BY <1>9 DEF SweepQuietly, At, Goto, Rest, Actor, TypeOK
  <2>2. \A u \in Upload : StatusOf(u) \notin Ended => StatusOf(u)' = StatusOf(u)
    BY <1>9, ExpireEffect DEF SweepQuietly, StatusOf
  <2> QED
    BY <1>a, <2>1, <2>2 DEF Statuses, Places, Ingesting, Ended, Actor
<1>10. CASE Kill
  BY <1>10 DEF Kill, Statuses, StatusOf, Places, Ingesting, Actor
<1>11. CASE Shutdown
  BY <1>11 DEF Shutdown, Statuses, StatusOf, Places, Ingesting
<1>12. CASE Exit \/ Start
  BY <1>12 DEF Exit, Start, Statuses, StatusOf, Places
<1>13. CASE StartStep
  <2>1. /\ pc["loop"] = "idle" /\ pc["worker"] = "idle" /\ queue = <<>>
        /\ UNCHANGED <<arrived, queue, pc>>
    BY <1>13 DEF StartStep, SweepInterrupted, SweepAtStart, Hands, Actor
  <2>2. \A u \in Upload : StatusOf(u) = "none" => StatusOf(u)' = "none"
    <3>1. CASE SweepInterrupted
      BY <3>1 DEF SweepInterrupted, StatusOf, Live, TypeOK
    <3>2. CASE SweepAtStart
      BY <3>2, ExpireEffect DEF SweepAtStart, StatusOf, Ended
    <3> QED BY <1>13, <3>1, <3>2 DEF StartStep
  <2> QED
    BY <2>1, <2>2 DEF Statuses, Places, Ingesting
<1>14. ASSUME NEW u \in Upload, PassRetention(u) PROVE Statuses'
  BY <1>14 DEF PassRetention, Statuses, StatusOf, Places
<1> QED
  BY <1>1, <1>2, <1>3, <1>4, <1>5, <1>6, <1>7, <1>8, <1>9, <1>10, <1>11, <1>12, <1>13, <1>14
     DEF Next, LoopStep, WorkerStep, Actor

-----------------------------------------------------------------------------
(* What the stores hold.                                                   *)

Written == {"register", "compensate"}

(* An ingestion that raised leaves the worker to record it and the event   *)
(* loop to answer.                                                         *)
LEMMA RaiseStored ==
  ASSUME TypeOK, NEW a \in Actor, NEW c, Raise(a, c)
  PROVE  /\ a = "worker" => pc'[a] = "fail" /\ doing'[a] = doing[a]
         /\ a = "loop" => pc'[a] = "idle" /\ doing'[a] = 0
         /\ \A b \in Actor \ {a} : pc'[b] = pc[b] /\ doing'[b] = doing[b]
BY DEF Raise, Rest, Goto, TypeOK, Actor

LEMMA StoredIngest ==
  ASSUME TypeOK, Hands, Stored, "read_back" \notin Faults, NEW a \in Actor, Ingest(a)
  PROVE  Stored'
<1>a. /\ Running /\ pc[a] \in Ingesting /\ doing[a] \in Upload
      /\ UNCHANGED <<arrived, queue>>
  BY IngestEffect, InHandIsUpload DEF Ingesting
<1>b. /\ \A b \in Actor \ {a} : doing[b] # doing[a]
      /\ \A i \in Places : queue[i] # doing[a]
  BY <1>a, InOneHand DEF Actor, Ingesting
<1>c. doing[a] <= arrived
  BY <1>a DEF Hands, Actor, TypeOK, Ingesting
<1>1. CASE Parse(a)
  <2>1. /\ pc[a] = "parse" /\ UNCHANGED <<chunks, registry, originals, maimed>>
        /\ \A b \in Actor \ {a} : pc'[b] = pc[b] /\ doing'[b] = doing[b]
        /\ (pc'[a] \in {"add_chunks", "fail"} /\ doing'[a] = doing[a]) \/ pc'[a] = "idle"
    BY <1>1, RaiseStored DEF Parse, At, Goto, TypeOK, stores, Actor
  <2> QED
    BY <1>a, <2>1 DEF Stored, Places
<1>2. CASE AddChunks(a)
  <2>1. /\ pc[a] = "add_chunks" /\ UNCHANGED <<registry, originals, maimed>>
        /\ \A b \in Actor \ {a} : pc'[b] = pc[b] /\ doing'[b] = doing[b]
    BY <1>2, RaiseStored DEF AddChunks, At, Goto, TypeOK, Actor
  <2>2. CASE /\ chunks' = chunks \cup {doing[a]}
             /\ pc'[a] = "register" /\ doing'[a] = doing[a]
    BY <1>a, <1>b, <1>c, <2>1, <2>2 DEF Stored, Places
  <2>3. CASE /\ UNCHANGED chunks
             /\ (pc'[a] = "fail" /\ doing'[a] = doing[a]) \/ pc'[a] = "idle"
    BY <1>a, <2>1, <2>3 DEF Stored, Places
  <2> QED
    BY <1>2, <2>2, <2>3, RaiseStored DEF AddChunks, Goto, TypeOK, Actor
<1>3. CASE Register(a)
  <2>1. /\ pc[a] = "register" /\ UNCHANGED <<chunks, originals, maimed, doing>>
        /\ \A b \in Actor \ {a} : pc'[b] = pc[b]
        /\ \/ registry' = registry \cup {doing[a]} /\ pc'[a] = "retain"
           \/ registry' = registry /\ pc'[a] = "compensate"
    BY <1>3 DEF Register, At, Goto, TypeOK, Fault
  <2> QED
    BY <1>a, <1>b, <2>1 DEF Stored, Places
<1>4. CASE Compensate(a)
  <2>1. /\ pc[a] = "compensate" /\ UNCHANGED <<registry, originals>>
        /\ \A b \in Actor \ {a} : pc'[b] = pc[b] /\ doing'[b] = doing[b]
        /\ (pc'[a] = "fail" /\ doing'[a] = doing[a]) \/ pc'[a] = "idle"
        /\ \/ chunks' = chunks \ {doing[a]} /\ maimed' = maimed
           \/ chunks' = chunks /\ maimed' = maimed \cup {doing[a]}
    BY <1>4, RaiseStored DEF Compensate, At, TypeOK, Actor
  <2> QED
    BY <1>a, <1>b, <2>1 DEF Stored, Places
<1>5. CASE Retain(a)
  <2>1. /\ pc[a] = "retain" /\ UNCHANGED <<chunks, registry, maimed>>
        /\ \A b \in Actor \ {a} : pc'[b] = pc[b] /\ doing'[b] = doing[b]
        /\ (pc'[a] = "complete" /\ doing'[a] = doing[a]) \/ pc'[a] = "idle"
        /\ originals' \subseteq originals \cup {doing[a]}
    BY <1>5 DEF Retain, At, Goto, Rest, TypeOK, Actor
  <2> QED
    BY <1>a, <2>1 DEF Stored, Places
<1> QED
  BY <1>1, <1>2, <1>3, <1>4, <1>5 DEF Ingest

LEMMA StoredStep ==
  ASSUME TypeOK, Hands, Stored, "read_back" \notin Faults, [Next]_vars
  PROVE  Stored'
<1>1. CASE UNCHANGED vars \/ AwaitUpload
  BY <1>1 DEF vars, stores, AwaitUpload, Stored, Places
<1>2. CASE Submit \/ IngestDirectly
  <2>1. /\ arrived' = arrived + 1 /\ doing'["loop"] = arrived + 1
        /\ doing'["worker"] = doing["worker"] /\ pc'["worker"] = pc["worker"]
        /\ pc'["loop"] \in {"create", "parse"} /\ pc["loop"] = "idle"
        /\ UNCHANGED <<queue, chunks, registry, originals, maimed>>
    BY <1>2 DEF Submit, IngestDirectly, Goto, Actor, TypeOK, stores
  <2>2. \A u \in chunks : u <= arrived + 1 /\ u # arrived + 1
    BY DEF Stored, TypeOK, Upload
  <2> QED
    BY <2>1, <2>2 DEF Stored, Places, Actor
<1>3. CASE CreateJob
  <2>1. /\ pc["loop"] = "create" /\ doing'["worker"] = doing["worker"]
        /\ pc'["worker"] = pc["worker"]
        /\ (pc'["loop"] = "enqueue" /\ doing'["loop"] = doing["loop"]) \/ pc'["loop"] = "idle"
        /\ UNCHANGED <<arrived, queue, chunks, registry, originals, maimed>>
    BY <1>3 DEF CreateJob, At, Goto, Rest, Actor, TypeOK, stores
  <2> QED
    BY <2>1 DEF Stored, Places, Actor
<1>4. CASE Enqueue
  <2>1. /\ pc["loop"] = "enqueue" /\ pc'["loop"] = "idle"
        /\ pc'["worker"] = pc["worker"] /\ doing'["worker"] = doing["worker"]
        /\ UNCHANGED <<arrived, chunks, registry, originals, maimed>>
    BY <1>4 DEF Enqueue, At, Rest, Goto, Actor, TypeOK, stores
  <2>2. \A i \in Places' : (i \in Places /\ queue'[i] = queue[i]) \/ queue'[i] = doing["loop"]
    BY <1>4 DEF Enqueue, TypeOK, Places, Actor
  <2> QED
    BY <2>1, <2>2 DEF Stored, Actor
<1>5. ASSUME NEW a \in Actor, Ingest(a) PROVE Stored'
  BY <1>5, StoredIngest
<1>6. CASE TakeJob
  <2>1. /\ pc["worker"] = "idle" /\ pc'["worker"] = "mark" /\ doing'["worker"] = queue[1]
        /\ pc'["loop"] = pc["loop"] /\ doing'["loop"] = doing["loop"]
        /\ UNCHANGED <<arrived, chunks, registry, originals, maimed>> /\ 1 \in Places
    BY <1>6 DEF TakeJob, At, Goto, Actor, TypeOK, Places, stores
  <2>2. \A i \in Places' : i + 1 \in Places /\ queue'[i] = queue[i + 1]
    BY <1>6 DEF TakeJob, TypeOK, Places
  <2> QED
    BY <2>1, <2>2 DEF Stored, Actor
<1>7. CASE MarkRunning \/ RecordSuccess \/ RecordFailure \/ SweepQuietly
  <2>1. /\ pc["worker"] \in {"mark", "complete", "fail", "sweep"}
        /\ pc'["loop"] = pc["loop"] /\ doing'["loop"] = doing["loop"]
        /\ \/ pc["worker"] = "mark" /\ pc'["worker"] = "parse" /\ doing'["worker"] = doing["worker"]
           \/ pc'["worker"] \in {"idle", "sweep"}
        /\ UNCHANGED <<arrived, queue, chunks, registry, originals, maimed>>
    BY <1>7 DEF MarkRunning, RecordSuccess, RecordFailure, SweepQuietly, At, Goto, Rest, Actor,
                TypeOK, stores
  <2> QED
    BY <2>1 DEF Stored, Places, Actor
<1>8. CASE Kill
  <2>1. /\ \A a \in Actor : pc'[a] = "idle"
        /\ maimed' = maimed \cup ({doing[a] : a \in Actor} \ {0})
        /\ Places' = {} /\ UNCHANGED <<arrived, chunks, registry, originals>>
    BY <1>8 DEF Kill, stores, Places
  <2>2. \A a \in Actor : pc[a] \in Written => doing[a] # 0
    BY DEF Hands, Written
  <2> QED
    BY <2>1, <2>2 DEF Stored, Written
<1>9. CASE Shutdown \/ Exit \/ Start \/ StartStep
  <2>1. UNCHANGED <<arrived, pc, doing, chunks, registry, originals, maimed>>
    BY <1>9 DEF Shutdown, Exit, Start, StartStep, SweepInterrupted, SweepAtStart, stores
  <2>2. Places' = {} \/ UNCHANGED queue
    BY <1>9 DEF Shutdown, Exit, Start, StartStep, SweepInterrupted, SweepAtStart, Places
  <2> QED
    BY <2>1, <2>2 DEF Stored, Places
<1>10. ASSUME NEW u \in Upload, PassRetention(u) PROVE Stored'
  BY <1>10 DEF PassRetention, Stored, Places, stores
<1> QED
  BY <1>1, <1>2, <1>3, <1>4, <1>5, <1>6, <1>7, <1>8, <1>9, <1>10
     DEF Next, LoopStep, WorkerStep, Actor

-----------------------------------------------------------------------------
(* Who waits.                                                              *)

(* What is done to the uploads that wait, and to the rows that are live.   *)
LEMMA WaitingStep ==
  ASSUME TypeOK, Hands, [Next]_vars, ~Enqueue, NEW u \in Upload, Waiting(u)'
  PROVE  Waiting(u)
<1>1. CASE UNCHANGED <<queue, pc, doing>>
  BY <1>1 DEF Waiting, Busy, Places
<1>2. CASE Submit \/ IngestDirectly \/ CreateJob
  BY <1>2 DEF Submit, IngestDirectly, CreateJob, Goto, Rest, Waiting, Busy, Places, TypeOK, Actor
<1>3. ASSUME NEW a \in Actor, Ingest(a) PROVE Waiting(u)
  BY <1>3, IngestEffect DEF Ingesting, Waiting, Busy, Places, Actor
<1>4. CASE TakeJob
  <2>1. /\ pc'["worker"] = "mark" /\ doing'["worker"] = queue[1] /\ 1 \in Places
        /\ \A i \in Places' : i + 1 \in Places /\ queue'[i] = queue[i + 1]
    BY <1>4 DEF TakeJob, At, Goto, Actor, TypeOK, Places
  <2> QED
    BY <2>1 DEF Waiting
<1>5. CASE MarkRunning \/ RecordSuccess \/ RecordFailure \/ SweepQuietly
  <2>1. /\ pc'["worker"] # pc["worker"] /\ UNCHANGED queue
        /\ \/ pc["worker"] = "mark" /\ doing'["worker"] = doing["worker"]
           \/ pc'["worker"] \in {"idle", "sweep"}
    BY <1>5 DEF MarkRunning, RecordSuccess, RecordFailure, SweepQuietly, At, Goto, Rest, Actor,
                TypeOK
  <2> QED
    BY <2>1 DEF Waiting, Busy, Places
<1>6. CASE Kill \/ Shutdown
  <2>1. Places' = {} /\ (Busy' => UNCHANGED <<pc, doing>>)
    BY <1>6 DEF Kill, Shutdown, Places, Busy, Actor
  <2> QED
    BY <2>1 DEF Waiting, Busy
<1>7. CASE Exit \/ Start \/ StartStep \/ (\E v \in Upload : PassRetention(v))
  <2>1. UNCHANGED <<queue, pc, doing>>
    BY <1>7 DEF Exit, Start, StartStep, SweepInterrupted, SweepAtStart, PassRetention
  <2> QED BY <1>1, <2>1
<1> QED
  BY <1>1, <1>2, <1>3, <1>4, <1>5, <1>6, <1>7
     DEF Next, LoopStep, WorkerStep, AwaitUpload, vars, Actor

LEMMA SuffixStep ==
  ASSUME TypeOK, Hands, Statuses, Suffix, [Next]_vars
  PROVE  Suffix'
<1> SUFFICES ASSUME NEW u \in Upload, NEW v \in Upload, Waiting(u)', v > u, Exists(v)'
             PROVE  StatusOf(v)' \in Live
  BY DEF Suffix
<1>a. Waiting(u) /\ Exists(v) => StatusOf(v) \in Live
  BY DEF Suffix
<1>b. Exists(v) /\ StatusOf(v)' = StatusOf(v) /\ Waiting(u) => StatusOf(v)' \in Live
  BY <1>a
<1>c. StatusOf(v)' = StatusOf(v) => Exists(v)
  BY DEF Exists, StatusOf
<1>1. CASE Enqueue
  <2>1. pc["loop"] = "enqueue" /\ doing["loop"] = arrived /\ UNCHANGED board
    BY <1>1 DEF Enqueue, At, Hands
  <2>2. CASE Waiting(u)
    BY <1>b, <1>c, <2>1, <2>2 DEF StatusOf
  <2>3. CASE ~Waiting(u)
    <3>1. u = arrived
      BY <1>1, <2>1, <2>3 DEF Enqueue, Rest, Goto, Waiting, Busy, Places, TypeOK, Actor
    <3>2. StatusOf(v)' = "none"
      BY <2>1, <3>1 DEF Statuses, StatusOf
    <3> QED BY <3>2 DEF Exists, StatusOf
  <2> QED BY <2>2, <2>3
<1>2. CASE ~Enqueue
  <2>0. Waiting(u)
    BY <1>2, WaitingStep
  <2>1. CASE UNCHANGED board
    BY <1>b, <1>c, <2>0, <2>1 DEF StatusOf
  <2>2. CASE CreateJob \/ MarkRunning
    <3>1. ASSUME NEW a \in Actor, NEW s \in Live, pc[a] # "idle", SetRow(doing[a], ShownAs(s))
          PROVE  StatusOf(v)' = StatusOf(v) \/ StatusOf(v)' \in Live
      BY <3>1, InHandIsUpload, SetRowEffect DEF ShownAs
    <3>2. StatusOf(v)' = StatusOf(v) \/ StatusOf(v)' \in Live
      BY <2>2, <3>1 DEF CreateJob, MarkRunning, At, Live, Actor, StatusOf
    <3> QED BY <1>b, <1>c, <2>0, <3>2
  <2>3. CASE RecordSuccess \/ RecordFailure
    <3>1. /\ pc["worker"] # "idle" /\ pc'["worker"] = "sweep" /\ UNCHANGED queue
          /\ UNCHANGED board \/ \E row : SetRow(doing["worker"], row)
      BY <2>3 DEF RecordSuccess, RecordFailure, At, Goto, Finish, TypeOK, Actor
    <3>2. doing["worker"] < u
      BY <3>1 DEF Waiting, Busy, Places, Hands
    <3>3. v # doing["worker"]
      BY <3>2 DEF TypeOK, Upload, Actor
    <3>4. StatusOf(v)' = StatusOf(v)
      BY <3>1, <3>3, InHandIsUpload, SetRowEffect DEF StatusOf, Actor
    <3> QED BY <1>b, <1>c, <2>0, <3>4
  <2>4. CASE SweepQuietly
    <3>1. StatusOf(v)' = StatusOf(v) \/ StatusOf(v)' = "swept"
      BY <2>4, ExpireEffect DEF SweepQuietly, StatusOf
    <3> QED BY <1>b, <1>c, <2>0, <3>1 DEF Exists, StatusOf
  <2>5. CASE StartStep
    <3>1. Places = {} /\ ~Busy
      BY <2>5 DEF StartStep, SweepInterrupted, SweepAtStart, Hands, Places, Busy, Actor
    <3> QED BY <2>0, <3>1 DEF Waiting
  <2>6. ASSUME NEW a \in Actor, Ingest(a) PROVE UNCHANGED board
    BY <2>6, IngestEffect
  <2>7. CASE \/ Submit \/ IngestDirectly \/ TakeJob \/ Kill \/ Shutdown \/ Exit \/ Start
             \/ AwaitUpload \/ UNCHANGED vars \/ \E x \in Upload : PassRetention(x)
    <3>1. UNCHANGED board
      BY <2>7 DEF Submit, IngestDirectly, TakeJob, Kill, Shutdown, Exit, Start, AwaitUpload,
                  PassRetention, vars
    <3> QED BY <2>1, <3>1
  <2> QED
    BY <1>2, <2>1, <2>2, <2>3, <2>4, <2>5, <2>6, <2>7 DEF Next, LoopStep, WorkerStep, Actor
<1> QED
  BY <1>1, <1>2

-----------------------------------------------------------------------------
(* Who finishes what is begun, if no write of a job row fails.             *)

LEMMA KeptStep ==
  ASSUME TypeOK, Hands, Statuses, Kept, "outcome" \notin Faults, "submit" \notin Faults,
         [Next]_vars
  PROVE  Kept'
<1>a. /\ \A i \in Places : queue[i] \in Upload
      /\ \A a \in Actor : pc[a] # "idle" => doing[a] \in Upload
  BY InHandIsUpload
<1>b. UNCHANGED <<board, queue, pc, doing, phase>> => Kept'
  BY DEF Kept, StatusOf, Waiting, Places, Busy
<1>1. CASE UNCHANGED vars \/ AwaitUpload \/ \E u \in Upload : PassRetention(u)
  <2>1. UNCHANGED <<board, queue, pc, doing, phase>>
    BY <1>1 DEF vars, AwaitUpload, PassRetention
  <2> QED BY <1>b, <2>1
<1>2. CASE Submit \/ IngestDirectly
  <2>1. /\ UNCHANGED <<queue, board, phase>> /\ pc["loop"] = "idle"
        /\ doing'["worker"] = doing["worker"] /\ pc'["worker"] = pc["worker"]
    BY <1>2 DEF Submit, IngestDirectly, Goto, Actor, TypeOK
  <2> QED
    BY <2>1 DEF Kept, StatusOf, Waiting, Places, Busy
<1>3. CASE CreateJob
  <2>1. /\ pc["loop"] = "create" /\ pc'["loop"] = "enqueue" /\ doing' = doing
        /\ pc'["worker"] = pc["worker"] /\ UNCHANGED <<queue, phase>>
        /\ SetRow(doing["loop"], ShownAs("queued"))
    BY <1>3 DEF CreateJob, At, Goto, Actor, TypeOK, Fault
  <2>2. \A u \in Upload : u # doing["loop"] => StatusOf(u)' = StatusOf(u)
    BY <1>a, <2>1, SetRowEffect DEF Actor
  <2>3. \A u \in Upload : Waiting(u) => Waiting(u)'
    BY <2>1 DEF Waiting, Places, Busy
  <2>4. phase # "expiring"
    BY <1>3 DEF CreateJob, At, Running
  <2> QED
    BY <2>1, <2>2, <2>3, <2>4 DEF Kept
<1>4. CASE Enqueue
  <2>1. /\ pc["loop"] = "enqueue" /\ pc'["worker"] = pc["worker"]
        /\ doing'["worker"] = doing["worker"] /\ UNCHANGED <<board, phase>>
        /\ phase # "expiring"
    BY <1>4 DEF Enqueue, At, Running, Rest, Goto, Actor, TypeOK
  <2>2. /\ Places' = 1..(Len(queue) + 1) /\ queue'[Len(queue) + 1] = doing["loop"]
        /\ \A i \in Places : i \in Places' /\ queue'[i] = queue[i]
    BY <1>4, <1>a, <2>1 DEF Enqueue, Actor, Places, TypeOK
  <2>3. \A u \in Upload : u = doing["loop"] => Waiting(u)'
    <3>1. Len(queue) + 1 \in Places'
      BY <2>2 DEF TypeOK
    <3> QED BY <2>2, <3>1 DEF Waiting
  <2>4. \A u \in Upload : Waiting(u) => Waiting(u)'
    BY <2>1, <2>2 DEF Waiting, Busy
  <2> QED
    BY <2>1, <2>3, <2>4 DEF Kept, StatusOf
<1>5. ASSUME NEW a \in Actor, Ingest(a) PROVE Kept'
  <2>1. /\ pc["loop"] = "enqueue" => pc'["loop"] = "enqueue" /\ doing'["loop"] = doing["loop"]
        /\ UNCHANGED <<queue, board, phase>> /\ phase # "expiring"
        /\ Busy => Busy' /\ doing'["worker"] = doing["worker"]
    BY <1>5, IngestEffect DEF Ingesting, Actor, Busy, Running
  <2> QED
    BY <2>1 DEF Kept, StatusOf, Waiting, Places
<1>6. CASE TakeJob
  <2>1. /\ pc["worker"] = "idle" /\ pc'["worker"] = "mark" /\ doing'["worker"] = queue[1]
        /\ pc'["loop"] = pc["loop"] /\ doing'["loop"] = doing["loop"]
        /\ UNCHANGED <<board, phase>> /\ phase # "expiring"
    BY <1>6 DEF TakeJob, At, Running, Goto, Actor, TypeOK
  <2>2. \A i \in Places : i # 1 => i - 1 \in Places' /\ queue'[i - 1] = queue[i]
    BY <1>6 DEF TakeJob, TypeOK, Places
  <2>3. \A u : Waiting(u) => Waiting(u)'
    BY <2>1, <2>2 DEF Waiting, Busy
  <2> QED
    BY <2>1, <2>3 DEF Kept, StatusOf
<1>7. CASE MarkRunning \/ RecordSuccess \/ RecordFailure \/ SweepQuietly
  <2>1. /\ pc'["loop"] = pc["loop"] /\ doing'["loop"] = doing["loop"]
        /\ UNCHANGED <<queue, phase>> /\ phase # "expiring" /\ pc["worker"] # "idle"
    BY <1>7 DEF MarkRunning, RecordSuccess, RecordFailure, SweepQuietly, At, Running, Goto, Rest,
                Actor, TypeOK
  <2>2. CASE MarkRunning
    <3>1. /\ pc["worker"] = "mark" /\ pc'["worker"] = "parse" /\ doing' = doing
          /\ SetRow(doing["worker"], ShownAs("running"))
      BY <2>2 DEF MarkRunning, At, Goto, Actor, TypeOK, Fault
    <3>2. \A u \in Upload : StatusOf(u)' = StatusOf(u) \/ u = doing["worker"]
      BY <1>a, <3>1, SetRowEffect DEF Actor
    <3>3. \A u : Waiting(u) => Waiting(u)'
      BY <2>1, <3>1 DEF Waiting, Busy, Places
    <3>4. StatusOf(doing["worker"]) \in Live
      BY <3>1 DEF Statuses, Live
    <3> QED
      BY <2>1, <3>2, <3>3, <3>4 DEF Kept
  <2>3. CASE RecordSuccess \/ RecordFailure
    <3>1. /\ pc'["worker"] = "sweep" /\ doing' = doing
          /\ \E row : row.status \in Ended /\ SetRow(doing["worker"], row)
      BY <2>3 DEF RecordSuccess, RecordFailure, Goto, Actor, TypeOK, Fault, Finish, ShownAs,
                  FailedAs, Ended
    <3>2. /\ \A u \in Upload : u # doing["worker"] => StatusOf(u)' = StatusOf(u)
          /\ \A u \in Upload : u = doing["worker"] => StatusOf(u)' \notin Live
      BY <1>a, <2>1, <3>1, SetRowEffect DEF Actor, Ended, Live
    <3>3. \A u \in Upload : StatusOf(u)' \in Live /\ Waiting(u) => Waiting(u)'
      BY <2>1, <3>1, <3>2 DEF Waiting, Places
    <3>4. \A u \in Upload : StatusOf(u)' \in Live => StatusOf(u) \in Live
      BY <3>2
    <3> QED
      BY <2>1, <3>3, <3>4 DEF Kept
  <2>4. CASE SweepQuietly
    <3>1. pc["worker"] = "sweep" /\ DeleteExpired
      BY <2>4 DEF SweepQuietly, At, Fault
    <3>2. \A u \in Upload : StatusOf(u)' = StatusOf(u) \/ StatusOf(u)' \notin Live
      BY <3>1, ExpireEffect DEF Live
    <3>3. \A u : Waiting(u) => Waiting(u)'
      BY <2>1, <3>1 DEF Waiting, Busy, Places
    <3> QED
      BY <2>1, <3>2, <3>3 DEF Kept
  <2> QED BY <1>7, <2>2, <2>3, <2>4
<1>8. CASE Kill \/ Shutdown \/ Exit \/ Start
  BY <1>8 DEF Kill, Shutdown, Exit, Start, Kept
<1>9. CASE SweepInterrupted
  <2>1. \/ phase' = "down"
        \/ phase' = "expiring" /\ \A u \in Upload : StatusOf(u)' \notin Live
    BY <1>9 DEF SweepInterrupted, StatusOf, FailedAs, Live, TypeOK
  <2> QED BY <2>1 DEF Kept
<1>10. CASE SweepAtStart
  <2>1. \/ phase' = "down"
        \/ phase' = "up" /\ \A u \in Upload : StatusOf(u)' \notin Live
    <3>1. DeleteExpired => \A u \in Upload : StatusOf(u)' = StatusOf(u) \/ StatusOf(u)' = "swept"
      BY ExpireEffect
    <3>2. \A u \in Upload : StatusOf(u) \notin Live
      BY <1>10 DEF SweepAtStart, Kept
    <3> QED BY <1>10, <3>1, <3>2 DEF SweepAtStart, Live
  <2> QED BY <2>1 DEF Kept
<1> QED
  BY <1>1, <1>2, <1>3, <1>4, <1>5, <1>6, <1>7, <1>8, <1>9, <1>10
     DEF Next, LoopStep, WorkerStep, StartStep, Actor

-----------------------------------------------------------------------------
(* The theorems.                                                           *)

LEMMA Initially ==
  ASSUME Init
  PROVE  TypeOK /\ Hands /\ Statuses /\ Suffix /\ Stored /\ Kept
<1> USE DEF Init
<1>1. ShownAs("none") \in Row
  BY RowTypes DEF Category
<1>2. <<>> \in Seq(Upload) /\ Len(<<>>) = 0
  OBVIOUS
<1>3. TypeOK
  BY <1>1, <1>2, BoundsAssumption DEF TypeOK, Step
<1>4. Places = {}
  BY <1>2 DEF Places
<1>5. \A u \in Upload : StatusOf(u) = "none"
  BY DEF StatusOf, ShownAs
<1>6. Hands
  BY <1>4 DEF Hands, Actor
<1>7. Statuses
  BY <1>4, <1>5 DEF Statuses, Ingesting, Actor
<1>8. Suffix
  BY <1>5 DEF Suffix, Exists, StatusOf
<1>9. Stored
  BY <1>4 DEF Stored
<1>10. Kept
  BY DEF Kept
<1> QED BY <1>3, <1>6, <1>7, <1>8, <1>9, <1>10

LEMMA Always == Spec => [](TypeOK /\ Hands /\ Statuses /\ Suffix)
<1>1. Init => TypeOK /\ Hands /\ Statuses /\ Suffix
  BY Initially
<1>2. TypeOK /\ Hands /\ Statuses /\ Suffix /\ [Next]_vars
      => (TypeOK /\ Hands /\ Statuses /\ Suffix)'
  BY TypesStep, HandsStep, StatusesStep, SuffixStep
<1> QED
  BY <1>1, <1>2, PTL DEF Spec

(* Every row and every place an upload can be keeps its shape, whatever    *)
(* fails and whenever the server stops.                                    *)
THEOREM IngestionTypeCorrect == Spec => []TypeOK
BY Always, PTL

LEMMA AlwaysStored ==
  ASSUME "read_back" \notin Faults
  PROVE  Spec => []Stored
<1>1. Init => Stored
  BY Initially
<1>2. Stored /\ TypeOK /\ Hands /\ Statuses /\ Suffix /\ [Next]_vars => Stored'
  BY StoredStep
<1> QED
  BY <1>1, <1>2, Always, PTL DEF Spec

(* The three stores agree for any number of uploads, failures and kills,   *)
(* provided that a registry row that was committed is also read back: see  *)
(* Register for the failure that is left out.                              *)
THEOREM StoresAgreeTheorem ==
  ASSUME "read_back" \notin Faults
  PROVE  Spec => []StoresAgree
<1>1. Stored => StoresAgree
  BY DEF Stored, StoresAgree
<1> QED
  BY <1>1, AlwaysStored, PTL

(* No job is left without anyone to finish it, provided that no write of a *)
(* job row fails; a failure of the sweep at startup is covered, since the  *)
(* server does not come up after it.                                       *)
THEOREM NoStrandedJobTheorem ==
  ASSUME "outcome" \notin Faults, "submit" \notin Faults
  PROVE  Spec => []NoStrandedJob
<1>1. Init => Kept
  BY Initially
<1>2. Kept /\ TypeOK /\ Hands /\ Statuses /\ Suffix /\ [Next]_vars => Kept'
  BY KeptStep
<1>3. TypeOK /\ Kept => NoStrandedJob
  BY DEF TypeOK, Kept, StatusOf, NoStrandedJob, Waiting, Places, InHand, Actor
<1> QED
  BY <1>1, <1>2, <1>3, Always, PTL DEF Spec

-----------------------------------------------------------------------------
(* The board.                                                              *)

Shown == [u \in Upload |-> board[u].status]

Interrupted == {u \in Upload : board[u] = FailedAs("interrupted")}

LEMMA ShownEffect ==
  ASSUME NEW S, NEW s,
         \A u \in Upload : StatusOf(u)' = IF u \in S THEN s ELSE StatusOf(u)
  PROVE  Board!Show(S, s)
BY DEF Board!Show, StatusOf

(* One row gets another status and neither the old nor the new row tells   *)
(* of an interruption.                                                     *)
LEMMA RowEffect ==
  ASSUME TypeOK, NEW x \in Upload, NEW s, NEW row, row.status = s,
         row # FailedAs("interrupted"), StatusOf(x) # "failed", SetRow(x, row)
  PROVE  Board!Show({x}, s) /\ UNCHANGED Interrupted
<1>1. \A u \in Upload : StatusOf(u)' = IF u \in {x} THEN s ELSE StatusOf(u)
  BY SetRowEffect
<1>2. board[x] # FailedAs("interrupted")
  BY DEF StatusOf, FailedAs
<1>3. \A u \in Upload : board'[u] = IF u = x THEN row ELSE board[u]
  BY DEF SetRow, TypeOK
<1>4. Interrupted' = Interrupted
  BY <1>2, <1>3 DEF Interrupted, FailedAs
<1> QED BY <1>1, <1>4, ShownEffect

LEMMA ForgetStep ==
  ASSUME TypeOK, DeleteExpired, UNCHANGED registry
  PROVE  \E S \in SUBSET Upload : Board!Forget(S)
<1>1. \A u \in Upload : board'[u] = IF u \in Expired THEN ShownAs("swept") ELSE board[u]
  BY DEF DeleteExpired
<1>2. Board!Show(Expired, "swept")
  BY <1>1, ShownEffect DEF StatusOf, ShownAs
<1>3. Interrupted' = Interrupted \ Expired
  BY <1>1 DEF Interrupted, ShownAs, FailedAs
<1>4. \A u \in Expired : StatusOf(u) \in {"succeeded", "failed"}
  BY DEF Expired, StatusOf, Ended
<1>5. Expired \in SUBSET Upload
  BY DEF Expired
<1>6. PICK S \in SUBSET Upload : S = Expired
  BY <1>5
<1>7. Board!Forget(S)
  BY <1>2, <1>3, <1>4, <1>6 DEF Board!Forget, Board!Show, Interrupted, StatusOf
<1> QED BY <1>7

(* A document is listed that was not, of an upload that runs or has no row.*)
LEMMA PublishStep ==
  ASSUME TypeOK, Hands, Statuses, Stored, "read_back" \notin Faults,
         NEW a \in Actor, Register(a)
  PROVE  Board!Next \/ UNCHANGED <<Shown, Interrupted, registry>>
<1>1. doing[a] \in Upload /\ pc[a] = "register" /\ UNCHANGED board
  BY InHandIsUpload DEF Register, At
<1>2. CASE UNCHANGED registry
  BY <1>1, <1>2 DEF Shown, Interrupted
<1>3. CASE registry' = registry \cup {doing[a]}
  <2>1. doing[a] \notin registry
    BY <1>1 DEF Stored
  <2>2. StatusOf(doing[a]) \in {"none", "running"}
    BY <1>1 DEF Statuses, Ingesting, Actor
  <2>3. PICK u \in Upload : u = doing[a]
    BY <1>1
  <2>4. Board!Publish(u)
    BY <1>1, <1>3, <2>1, <2>2, <2>3 DEF Board!Publish, StatusOf
  <2> QED BY <2>4 DEF Board!Next
<1> QED
  BY <1>2, <1>3 DEF Register, Fault

LEMMA BoardStep ==
  ASSUME TypeOK, Hands, Statuses, Stored, "read_back" \notin Faults, [Next]_vars
  PROVE  [Board!Next]_<<Shown, Interrupted, registry>>
<1>a. \A a \in Actor : pc[a] # "idle" => doing[a] \in Upload
  BY InHandIsUpload
<1>b. UNCHANGED <<board, registry>> => UNCHANGED <<Shown, Interrupted, registry>>
  BY DEF Shown, Interrupted
<1>1. CASE \/ UNCHANGED vars \/ AwaitUpload \/ Submit \/ IngestDirectly \/ Enqueue \/ TakeJob
           \/ Kill \/ Shutdown \/ Exit \/ Start \/ \E u \in Upload : PassRetention(u)
  <2>1. UNCHANGED <<board, registry>>
    BY <1>1 DEF vars, stores, AwaitUpload, Submit, IngestDirectly, Enqueue, TakeJob, Kill, Shutdown,
                Exit, Start, PassRetention
  <2> QED BY <1>b, <2>1
<1>2. CASE CreateJob
  <2>1. /\ doing["loop"] \in Upload /\ StatusOf(doing["loop"]) = "none" /\ UNCHANGED registry
        /\ UNCHANGED board \/ SetRow(doing["loop"], ShownAs("queued"))
    BY <1>a, <1>2 DEF CreateJob, At, Statuses, Actor, stores
  <2>2. CASE SetRow(doing["loop"], ShownAs("queued"))
    <3>1. Board!Show({doing["loop"]}, "queued") /\ UNCHANGED Interrupted
      BY <2>1, <2>2, RowEffect DEF ShownAs, FailedAs
    <3>2. PICK u \in Upload : u = doing["loop"]
      BY <2>1
    <3>3. Board!Accept(u)
      BY <2>1, <3>1, <3>2 DEF Board!Accept, Board!Show, Interrupted, StatusOf
    <3> QED BY <3>3 DEF Board!Next
  <2> QED BY <1>b, <2>1, <2>2
<1>3. CASE MarkRunning
  <2>1. /\ doing["worker"] \in Upload /\ StatusOf(doing["worker"]) = "queued"
        /\ UNCHANGED registry
        /\ UNCHANGED board \/ SetRow(doing["worker"], ShownAs("running"))
    BY <1>a, <1>3 DEF MarkRunning, At, Statuses, Actor, stores
  <2>2. CASE SetRow(doing["worker"], ShownAs("running"))
    <3>1. Board!Show({doing["worker"]}, "running") /\ UNCHANGED Interrupted
      BY <2>1, <2>2, RowEffect DEF ShownAs, FailedAs
    <3>2. PICK u \in Upload : u = doing["worker"]
      BY <2>1
    <3>3. Board!Begin(u)
      BY <2>1, <3>1, <3>2 DEF Board!Begin, Board!Show, Interrupted, StatusOf
    <3> QED BY <3>3 DEF Board!Next
  <2> QED BY <1>b, <2>1, <2>2
<1>4. CASE RecordSuccess
  <2>1. /\ doing["worker"] \in Upload /\ StatusOf(doing["worker"]) = "running"
        /\ doing["worker"] \in registry /\ UNCHANGED registry
        /\ UNCHANGED board \/ SetRow(doing["worker"], ShownAs("succeeded"))
    BY <1>a, <1>4 DEF RecordSuccess, Finish, At, Statuses, Stored, Actor, stores
  <2>2. CASE SetRow(doing["worker"], ShownAs("succeeded"))
    <3>1. Board!Show({doing["worker"]}, "succeeded") /\ UNCHANGED Interrupted
      BY <2>1, <2>2, RowEffect DEF ShownAs, FailedAs
    <3>2. PICK u \in Upload : u = doing["worker"]
      BY <2>1
    <3>3. Board!Succeed(u)
      BY <2>1, <3>1, <3>2 DEF Board!Succeed, Board!Show, Interrupted, StatusOf
    <3> QED BY <3>3 DEF Board!Next
  <2> QED BY <1>b, <2>1, <2>2
<1>5. CASE RecordFailure
  <2>1. /\ doing["worker"] \in Upload /\ StatusOf(doing["worker"]) = "running"
        /\ doing["worker"] \notin registry /\ UNCHANGED registry /\ failing # "interrupted"
        /\ UNCHANGED board \/ SetRow(doing["worker"], FailedAs(failing))
    BY <1>a, <1>5 DEF RecordFailure, Finish, At, Statuses, Stored, Actor, stores
  <2>2. CASE SetRow(doing["worker"], FailedAs(failing))
    <3>1. Board!Show({doing["worker"]}, "failed") /\ UNCHANGED Interrupted
      BY <2>1, <2>2, RowEffect DEF FailedAs
    <3>2. PICK u \in Upload : u = doing["worker"]
      BY <2>1
    <3>3. Board!Reject(u)
      BY <2>1, <3>1, <3>2 DEF Board!Reject, Board!Show, Interrupted, StatusOf
    <3> QED BY <3>3 DEF Board!Next
  <2> QED BY <1>b, <2>1, <2>2
<1>6. CASE SweepQuietly \/ SweepAtStart
  <2>1. UNCHANGED registry /\ (UNCHANGED board \/ DeleteExpired)
    BY <1>6 DEF SweepQuietly, SweepAtStart, stores
  <2> QED BY <1>b, <2>1, ForgetStep DEF Board!Next
<1>7. CASE SweepInterrupted
  <2>1. CASE UNCHANGED board
    BY <1>b, <1>7, <2>1 DEF SweepInterrupted, stores
  <2>2. CASE board' = [u \in Upload |-> IF u \in {v \in Upload : board[v].status \in Live}
                                          THEN FailedAs("interrupted") ELSE board[u]]
    <3> DEFINE S == {v \in Upload : StatusOf(v) \in Live}
    <3>1. \A u \in Upload : board'[u] = IF u \in S THEN FailedAs("interrupted") ELSE board[u]
      BY <2>2 DEF StatusOf
    <3>2. Board!Show(S, "failed")
      BY <3>1, ShownEffect DEF StatusOf, FailedAs
    <3>3. Interrupted' = Interrupted \cup S
      BY <3>1 DEF Interrupted
    <3>4. \A u \in S : StatusOf(u) \in {"queued", "running"}
      BY DEF Live
    <3>5. UNCHANGED registry
      BY <1>7 DEF SweepInterrupted, stores
    <3>6. PICK T \in SUBSET Upload : T = S
      OBVIOUS
    <3> HIDE DEF S
    <3>7. Board!Interrupt(T)
      BY <3>2, <3>3, <3>4, <3>5, <3>6 DEF Board!Interrupt, Board!Show, Interrupted, StatusOf
    <3> QED BY <3>7 DEF Board!Next
  <2> QED BY <1>7, <2>1, <2>2 DEF SweepInterrupted
<1>8. ASSUME NEW a \in Actor, Ingest(a) PROVE [Board!Next]_<<Shown, Interrupted, registry>>
  <2>1. CASE Register(a)
    BY <2>1, PublishStep
  <2>2. CASE ~Register(a)
    <3>1. UNCHANGED board
      BY <1>8, IngestEffect
    <3>2. UNCHANGED registry
      BY <1>8, <2>2 DEF Ingest, Parse, AddChunks, Compensate, Retain, stores
    <3> QED BY <1>b, <3>1, <3>2
  <2> QED BY <2>1, <2>2
<1> QED
  BY <1>1, <1>2, <1>3, <1>4, <1>5, <1>6, <1>7, <1>8
     DEF Next, LoopStep, WorkerStep, StartStep, Actor

(* Ingestion implements the board: an ended upload keeps its outcome, a    *)
(* success always has its document and a rejection never has one, whatever *)
(* else fails, provided that a committed registry row is read back.        *)
THEOREM KeepsBoardTheorem ==
  ASSUME "read_back" \notin Faults
  PROVE  Spec => KeepsBoard
<1>1. Init => Board!Init
  BY DEF Init, Board!Init, ShownAs, FailedAs
<1>2. TypeOK /\ Hands /\ Statuses /\ Suffix /\ Stored /\ [Next]_vars
      => [Board!Next]_<<Shown, Interrupted, registry>>
  BY BoardStep
<1> QED
  BY <1>1, <1>2, Always, AlwaysStored, PTL DEF Spec, KeepsBoard, Board!Spec, Shown, Interrupted

-----------------------------------------------------------------------------
(* The backpressure limit.                                                 *)

LEMMA Largest ==
  ASSUME NEW S \in SUBSET Upload, S # {}
  PROVE  \E m \in S : \A k \in S : k <= m
<1>0. \A k \in S : k \in Nat /\ MaxUploads - k \in Nat
  BY BoundsAssumption DEF Upload
<1> DEFINE Below == {p \in Nat \X Nat : p[1] < p[2]}
           Left == {MaxUploads - k : k \in S}
<1>1. IsWellFoundedOn(Below, Nat)
  BY NatLessThanWellFounded, Zenon DEF OpToRel
<1>2. Left \subseteq Nat /\ Left # {}
  BY <1>0
<1>3. \E r \in Left : \A q \in Left : <<q, r>> \notin Below
  <2> HIDE DEF Below, Left
  <2> QED BY <1>1, <1>2, WFMin
<1>4. PICK m \in S : \A k \in S : <<MaxUploads - k, MaxUploads - m>> \notin Below
  BY <1>3
<1>5. \A k \in S : ~(MaxUploads - k < MaxUploads - m)
  BY <1>0, <1>4
<1>6. \A k \in S : k \in Nat
  BY <1>0
<1> HIDE DEF Below, Left
<1>7. \A k \in S : k <= m
  BY <1>5, <1>6, BoundsAssumption
<1> QED
  BY <1>7

(* Each upload that waits has one place: in the queue or with the worker.  *)
Taken == Len(queue) + (IF Busy THEN 1 ELSE 0)

Place == [i \in 1..Taken |-> IF i <= Len(queue) THEN queue[i] ELSE doing["worker"]]

LEMMA PlaceIsInjection ==
  ASSUME TypeOK, Hands, NEW T, \A u : Waiting(u) => u \in T
  PROVE  Place \in Injection(1..Taken, T)
<1>1. Len(queue) \in Nat /\ Taken \in Nat
  BY DEF TypeOK, Taken
<1>2. \A i \in 1..Taken : \/ i \in Places /\ Place[i] = queue[i]
                          \/ Busy /\ i = Len(queue) + 1 /\ Place[i] = doing["worker"]
  BY <1>1 DEF Place, Taken, Places
<1>3. \A i \in 1..Taken : Waiting(Place[i])
  BY <1>2 DEF Waiting
<1>4. /\ \A i \in Places : queue[i] \in Nat /\ doing["worker"] < queue[i]
      /\ \A i, j \in Places : i < j => queue[i] < queue[j]
      /\ doing["worker"] \in Nat
  <2>1. \A i \in Places : queue[i] \in Upload
    BY InHandIsUpload
  <2>2. doing["worker"] \in Upload \cup {0}
    BY DEF TypeOK, Actor
  <2> QED BY <2>1, <2>2 DEF Hands, Upload
<1>5. ASSUME NEW i \in 1..Taken, NEW j \in 1..Taken, Place[i] = Place[j]
      PROVE  i = j
  <2>1. CASE i \in Places /\ j \in Places
    <3>1. queue[i] = queue[j] /\ queue[i] \in Nat /\ queue[j] \in Nat
      BY <1>2, <1>4, <1>5, <1>1, <2>1 DEF Places
    <3>2. ~(i < j) /\ ~(j < i)
      BY <1>4, <2>1, <3>1
    <3> QED BY <3>2
  <2>2. CASE i \notin Places \/ j \notin Places
    BY <1>1, <1>2, <1>4, <1>5, <2>2 DEF Places
  <2> QED BY <2>1, <2>2
<1>6. Place \in [1..Taken -> T]
  BY <1>3 DEF Place
<1> QED
  BY <1>5, <1>6, Fun_IsInj

(* If fewer rows than the limit are pending, fewer uploads are held: else  *)
(* one that waits is outside of the newest rows, and all that came after   *)
(* the last such one are pending.                                          *)
LEMMA LimitHolds ==
  ASSUME TypeOK, Hands, Statuses, Suffix, Cardinality(Pending) < MaxPending
  PROVE  Taken < MaxPending
<1>1. MaxPending \in Nat /\ Taken \in Nat
  BY BoundsAssumption DEF Taken, TypeOK
<1>2. IsFiniteSet(Upload)
  BY BoundsAssumption, FS_Interval DEF Upload
<1>3. Pending \in SUBSET Upload
  BY DEF Pending, Newest
<1>4. IsFiniteSet(Pending) /\ Cardinality(Pending) \in Nat
  BY <1>2, <1>3, FS_Subset, FS_CardinalityType
<1>5. ASSUME NEW u, Waiting(u)
      PROVE  u \in Upload /\ StatusOf(u) \in Live /\ Exists(u)
  <2>1. u \in Upload
    BY <1>5, InHandIsUpload DEF Waiting, Busy, Actor
  <2>2. StatusOf(u) \in {"queued", "running"}
    BY <1>5 DEF Waiting, Busy, Statuses, Hands
  <2> QED BY <2>1, <2>2 DEF Live, Exists, StatusOf
<1>6. CASE \A u : Waiting(u) => u \in Newest(MaxPending)
  <2>1. \A u : Waiting(u) => u \in Pending
    BY <1>5, <1>6 DEF Pending, StatusOf
  <2>2. Place \in Injection(1..Taken, Pending)
    BY <2>1, PlaceIsInjection
  <2>3. Cardinality(1..Taken) <= Cardinality(Pending)
    BY <1>4, <2>2, FS_Injection
  <2>4. Cardinality(1..Taken) = Taken
    BY <1>1, FS_Interval
  <2> QED BY <1>1, <1>4, <2>3, <2>4
<1>7. ASSUME NEW u, Waiting(u), u \notin Newest(MaxPending)
      PROVE  FALSE
  <2> DEFINE Older == {v \in Upload : v >= u /\ Exists(v) /\ v \notin Newest(MaxPending)}
  <2>1. u \in Upload /\ Exists(u)
    BY <1>5, <1>7
  <2>2. u \in Older /\ Older \in SUBSET Upload
    BY <1>7, <2>1 DEF Upload
  <2>3. PICK m \in Older : \A k \in Older : k <= m
    BY <2>2, Largest
  <2> DEFINE Later == {v \in Upload : v > m /\ Exists(v)}
  <2>4. m \in Upload /\ m >= u /\ Exists(m) /\ m \notin Newest(MaxPending)
    OBVIOUS
  <2>5. ~(Cardinality(Later) < MaxPending)
    BY <2>4 DEF Newest
  <2>6. ASSUME NEW v \in Later PROVE v \in Pending
    <3>1. v \in Upload /\ v > m /\ v > u /\ Exists(v)
      BY <2>1, <2>4 DEF Upload
    <3>2. StatusOf(v) \in Live
      BY <1>7, <2>1, <3>1 DEF Suffix
    <3>3. v \notin Older
      BY <2>3, <2>4, <3>1 DEF Upload
    <3>4. v \in Newest(MaxPending)
      BY <2>1, <3>1, <3>3 DEF Upload
    <3> QED BY <3>1, <3>2, <3>4 DEF Pending, StatusOf
  <2>7. Later \in SUBSET Pending
    BY <2>6
  <2>8. IsFiniteSet(Later) /\ Cardinality(Later) <= Cardinality(Pending)
    BY <1>4, <2>7, FS_Subset
  <2>9. Cardinality(Later) \in Nat
    BY <2>8, FS_CardinalityType
  <2> QED
    BY <1>1, <1>4, <2>5, <2>8, <2>9
<1> QED
  BY <1>6, <1>7

OfWorker == IF pc["worker"] \in {"idle", "sweep"} THEN 0 ELSE 1
OfLoop   == IF pc["loop"] \in {"create", "enqueue"} THEN 1 ELSE 0

LEMMA HoldsNoMore ==
  ASSUME Len(queue) \in Nat, Len(queue') \in Nat, Len(queue') <= Len(queue),
         pc["worker"] \in {"idle", "sweep"} => pc'["worker"] \in {"idle", "sweep"},
         pc["loop"] \notin {"create", "enqueue"} => pc'["loop"] \notin {"create", "enqueue"},
         QueueBounded
  PROVE  QueueBounded'
<1>1. OfWorker' <= OfWorker /\ OfWorker \in {0, 1} /\ OfWorker' \in {0, 1}
  BY DEF OfWorker
<1>2. OfLoop' <= OfLoop /\ OfLoop \in {0, 1} /\ OfLoop' \in {0, 1}
  BY DEF OfLoop
<1>3. Held = Len(queue) + OfWorker + OfLoop /\ Held' = Len(queue') + OfWorker' + OfLoop'
  BY DEF Held, OfWorker, OfLoop
<1> QED
  BY <1>1, <1>2, <1>3, BoundsAssumption DEF QueueBounded

LEMMA BoundedStep ==
  ASSUME TypeOK, Hands, Statuses, Suffix, QueueBounded, [Next]_vars
  PROVE  QueueBounded'
<1>1. Len(queue) \in Nat /\ MaxPending \in Nat
  BY BoundsAssumption DEF TypeOK
<1>2. CASE Submit
  <2>1. /\ pc["loop"] = "idle" /\ pc'["loop"] = "create" /\ pc'["worker"] = pc["worker"]
        /\ UNCHANGED queue /\ Cardinality(Pending) < MaxPending
    BY <1>2 DEF Submit, Goto, TypeOK, Actor
  <2>2. Taken < MaxPending
    BY <2>1, LimitHolds
  <2>3. Held' = Taken + 1
    BY <1>1, <2>1 DEF Held, Taken, Busy
  <2> QED BY <1>1, <2>2, <2>3 DEF QueueBounded, Taken
<1>3. CASE Enqueue
  <2>1. /\ pc["loop"] = "enqueue" /\ pc'["loop"] = "idle" /\ pc'["worker"] = pc["worker"]
        /\ Len(queue') = Len(queue) + 1
    BY <1>3 DEF Enqueue, At, Rest, Goto, TypeOK, Actor
  <2> QED BY <1>1, <2>1 DEF QueueBounded, Held
<1>4. CASE TakeJob
  <2>1. /\ pc["worker"] = "idle" /\ pc'["worker"] = "mark" /\ pc'["loop"] = pc["loop"]
        /\ Len(queue') = Len(queue) - 1
    BY <1>4 DEF TakeJob, At, Goto, TypeOK, Actor
  <2> QED BY <1>1, <2>1 DEF QueueBounded, Held
<1>5. CASE Kill \/ Shutdown
  <2>1. Len(queue') = 0
    BY <1>5 DEF Kill, Shutdown
  <2>2. CASE Kill
    <3>1. pc'["worker"] = "idle" /\ pc'["loop"] = "idle"
      BY <2>2 DEF Kill, Actor
    <3> QED BY <1>1, <2>1, <3>1 DEF QueueBounded, Held
  <2>3. CASE Shutdown
    <3>1. UNCHANGED pc
      BY <2>3 DEF Shutdown
    <3> QED BY <1>1, <2>1, <3>1, HoldsNoMore
  <2> QED BY <1>5, <2>2, <2>3
<1>6. CASE ~(Submit \/ Enqueue \/ TakeJob \/ Kill \/ Shutdown)
  <2>1. /\ UNCHANGED queue
        /\ pc["worker"] \in {"idle", "sweep"} => pc'["worker"] \in {"idle", "sweep"}
        /\ pc["loop"] \notin {"create", "enqueue"} => pc'["loop"] \notin {"create", "enqueue"}
    <3>1. ASSUME NEW a \in Actor, Ingest(a)
          PROVE  /\ UNCHANGED queue /\ pc[a] \in Ingesting
                 /\ \A b \in Actor \ {a} : pc'[b] = pc[b]
                 /\ a = "loop" => pc'[a] \in Ingesting \cup {"idle"}
      BY <3>1, IngestEffect
    <3>2. CASE \E a \in Actor : Ingest(a)
      BY <3>1, <3>2 DEF Ingesting, Actor
    <3>3. CASE IngestDirectly \/ CreateJob
      BY <3>3 DEF IngestDirectly, CreateJob, At, Goto, Rest, TypeOK, Actor
    <3>4. CASE MarkRunning \/ RecordSuccess \/ RecordFailure \/ SweepQuietly
      BY <3>4 DEF MarkRunning, RecordSuccess, RecordFailure, SweepQuietly, At, Goto, Rest, TypeOK,
                  Actor
    <3>5. CASE \/ UNCHANGED vars \/ AwaitUpload \/ Exit \/ Start \/ StartStep
               \/ \E u \in Upload : PassRetention(u)
      BY <3>5 DEF vars, AwaitUpload, Exit, Start, StartStep, SweepInterrupted, SweepAtStart,
                  PassRetention
    <3> QED
      BY <1>6, <3>2, <3>3, <3>4, <3>5 DEF Next, LoopStep, WorkerStep, Actor
  <2>2. Len(queue') = Len(queue)
    BY <2>1
  <2> QED BY <1>1, <2>1, <2>2, HoldsNoMore
<1> QED
  BY <1>2, <1>3, <1>4, <1>5, <1>6

(* The backpressure limit bounds what the process holds, for any limit and *)
(* any number of uploads, although submit counts only rows of the newest   *)
(* and counts them before it creates its own.                              *)
THEOREM QueueBoundedTheorem == Spec => []QueueBounded
<1>1. Init => QueueBounded
  BY BoundsAssumption DEF Init, QueueBounded, Held, Actor
<1>2. QueueBounded /\ TypeOK /\ Hands /\ Statuses /\ Suffix /\ [Next]_vars => QueueBounded'
  BY BoundedStep
<1> QED
  BY <1>1, <1>2, Always, PTL DEF Spec

=============================================================================
