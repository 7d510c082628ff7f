------------------------------ MODULE Ingestion ------------------------------
(***************************************************************************)
(* Document ingestion: the job table, the in-memory queue with its one     *)
(* worker, the event loop that accepts uploads, and the three stores an    *)
(* upload is written to, the vector store (LanceDB), the document registry *)
(* (SQLite) and the directory of originals.                                *)
(*                                                                         *)
(* The endpoints under /ingest are coroutines that never await while they  *)
(* work, so the event loop runs one upload at a time; the worker thread    *)
(* runs beside it.  IngestionService.ingest is the same sequence of store  *)
(* calls for both.  No transaction spans the stores, the rows outlive the  *)
(* process, the queue does not, and any store call may fail.               *)
(*                                                                         *)
(* An upload is a number, in the order uploads arrive; its job row and its *)
(* document go by the same number.  Parsing, chunking and embedding are    *)
(* one step whose outcome is chosen.                                       *)
(***************************************************************************)
EXTENDS Naturals, Sequences, FiniteSets

CONSTANTS
  MaxUploads,  \* uploads that arrive, a bound
  MaxPending,  \* settings.max_pending_ingestions
  Rejection,   \* the categories a parse may end in, see Category
  Faults,      \* the store calls that may fail, see FaultKind
  MaxFaults,   \* how many of them fail, a bound
  MaxStops     \* how often the server is stopped or killed, a bound

Category == {"unsupported_document", "unknown_superseded_document",
             "too_large", "internal_error", "interrupted"}

FaultKind == {"vector", "registry", "read_back", "compensation", "original",
              "submit", "outcome", "startup"}

ASSUME BoundsAssumption ==
  /\ MaxUploads \in Nat /\ MaxFaults \in Nat /\ MaxStops \in Nat
  /\ MaxPending \in Nat \ {0}

ASSUME RejectionAssumption == Rejection \subseteq Category \ {"interrupted"}

ASSUME FaultsAssumption == Faults \subseteq FaultKind

Upload == 1..MaxUploads
Actor  == {"loop", "worker"}

VARIABLES
  arrived,   \* uploads so far
  board,     \* ingestionjob rows: status and failure category
  old,       \* rows whose finished_at is before the retention cutoff
  queue,     \* the executor's queue of job ids
  pc,        \* where the event loop and the worker are
  doing,     \* the upload each of them works on, 0 if none
  failing,   \* the category the worker is about to record
  chunks,    \* documents with chunks in the vector store
  registry,  \* documents with a row in the registry
  originals, \* documents whose original file is kept
  phase,     \* of the server process
  faults,    \* store calls that failed so far
  stops,     \* stops and kills so far
  maimed     \* uploads a kill or a failed compensation cut short

stores == <<chunks, registry, originals>>
bounds == <<faults, stops>>
vars   == <<arrived, board, old, queue, pc, doing, failing, stores, phase,
            bounds, maimed>>

-----------------------------------------------------------------------------
Live  == {"queued", "running"}
Ended == {"succeeded", "failed"}

Row == [status: {"none", "swept"} \cup Live \cup Ended, reason: Category \cup {"none"}]

ShownAs(s) == [status |-> s, reason |-> "none"]
FailedAs(c) == [status |-> "failed", reason |-> c]

SetRow(u, row) == board' = [board EXCEPT ![u] = row]

(* A row that has just ended has its full retention window before it.      *)
Finish(u, row) == SetRow(u, row) /\ old' = old \ {u}

Goto(a, l) == pc' = [pc EXCEPT ![a] = l]

(* An actor is done with its upload.                                       *)
Rest(a) == Goto(a, "idle") /\ doing' = [doing EXCEPT ![a] = 0]

Running == phase \in {"up", "draining"}

At(a, l) == Running /\ pc[a] = l

(* A store call fails.                                                     *)
Fault(kind) ==
  /\ kind \in Faults /\ faults < MaxFaults
  /\ faults' = faults + 1
  /\ UNCHANGED stops

Fine == UNCHANGED bounds

-----------------------------------------------------------------------------
(* The event loop: the two upload endpoints.                               *)

(* list_ingestion_jobs(limit): the newest rows, of every organisation.     *)
Exists(u) == board[u].status \notin {"none", "swept"}

Newest(limit) ==
  {u \in Upload : Exists(u) /\ Cardinality({v \in Upload : v > u /\ Exists(v)}) < limit}

(* Fault: only waiting rows count against the limit.                       *)
PendingQueued == {u \in Newest(MaxPending) : board[u].status = "queued"}

Pending == {u \in Newest(MaxPending) : board[u].status \in Live}

(* submit, up to its capacity check.  A refused upload changes nothing.    *)
Submit ==
  /\ phase = "up" /\ pc["loop"] = "idle" /\ arrived < MaxUploads
  /\ Cardinality(Pending) < MaxPending
  /\ arrived' = arrived + 1
  /\ doing' = [doing EXCEPT !["loop"] = arrived + 1]
  /\ Goto("loop", "create")
  /\ UNCHANGED <<board, old, queue, failing, stores, phase, bounds, maimed>>

(* create_ingestion_job; if it fails the caller gets an error, and a row   *)
(* that was committed before the failure stays.                            *)
CreateJob ==
  /\ At("loop", "create")
  /\ \/ /\ Fine
        /\ SetRow(doing["loop"], ShownAs("queued"))
        /\ Goto("loop", "enqueue") /\ UNCHANGED doing
     \/ /\ Fault("submit")
        /\ SetRow(doing["loop"], ShownAs("queued")) \/ UNCHANGED board
        /\ Rest("loop")
  /\ UNCHANGED <<arrived, old, queue, failing, stores, phase, maimed>>

(* Fault: the job never reaches the executor.                              *)
EnqueueNot ==
  /\ At("loop", "enqueue")
  /\ Rest("loop")
  /\ UNCHANGED <<arrived, board, old, queue, failing, stores, phase, bounds, maimed>>

Enqueue ==
  /\ At("loop", "enqueue")
  /\ queue' = Append(queue, doing["loop"])
  /\ Rest("loop")
  /\ UNCHANGED <<arrived, board, old, failing, stores, phase, bounds, maimed>>

(* The synchronous endpoint: ingest on the event loop, without a job row.  *)
IngestDirectly ==
  /\ phase = "up" /\ pc["loop"] = "idle" /\ arrived < MaxUploads
  /\ arrived' = arrived + 1
  /\ doing' = [doing EXCEPT !["loop"] = arrived + 1]
  /\ Goto("loop", "parse")
  /\ UNCHANGED <<board, old, queue, failing, stores, phase, bounds, maimed>>

-----------------------------------------------------------------------------
(* _run, on the worker thread.                                             *)

TakeJob ==
  /\ At("worker", "idle") /\ queue # <<>>
  /\ queue' = Tail(queue)
  /\ doing' = [doing EXCEPT !["worker"] = Head(queue)]
  /\ Goto("worker", "mark")
  /\ UNCHANGED <<arrived, board, old, failing, stores, phase, bounds, maimed>>

(* mark_ingestion_job_running stands outside the try block: if it fails,   *)
(* before or after its commit, the worker lets go of the job.              *)
MarkRunning ==
  /\ At("worker", "mark")
  /\ \/ /\ Fine
        /\ SetRow(doing["worker"], ShownAs("running"))
        /\ Goto("worker", "parse") /\ UNCHANGED doing
     \/ /\ Fault("outcome")
        /\ SetRow(doing["worker"], ShownAs("running")) \/ UNCHANGED board
        /\ Rest("worker")
  /\ UNCHANGED <<arrived, old, queue, failing, stores, phase, maimed>>

(* Fault: an exception the worker has no handler for.                      *)
RaiseSilently(a, category) == Rest(a) /\ UNCHANGED failing

(* Each exception of ingest ends in _fail on the worker, and in an error   *)
(* response on the event loop.                                             *)
Raise(a, category) ==
  IF a = "worker"
    THEN /\ failing' = category /\ Goto("worker", "fail") /\ UNCHANGED doing
    ELSE Rest("loop") /\ UNCHANGED failing

RecordSuccess ==
  /\ At("worker", "complete")
  /\ \/ Fine /\ Finish(doing["worker"], ShownAs("succeeded"))
     \/ Fault("outcome") /\ UNCHANGED <<board, old>>
  /\ Goto("worker", "sweep")
  /\ UNCHANGED <<arrived, queue, doing, failing, stores, phase, maimed>>

RecordFailure ==
  /\ At("worker", "fail")
  /\ \/ Fine /\ Finish(doing["worker"], FailedAs(failing))
     \/ Fault("outcome") /\ UNCHANGED <<board, old>>
  /\ Goto("worker", "sweep")
  /\ failing' = "none"
  /\ UNCHANGED <<arrived, queue, doing, stores, phase, maimed>>

(* delete_expired_ingestion_jobs.                                          *)
Expired == {u \in Upload : board[u].status \in Ended /\ u \in old}

DeleteExpired ==
  board' = [u \in Upload |-> IF u \in Expired THEN ShownAs("swept") ELSE board[u]]

(* The sweep after each job; a failure of it is swallowed.                 *)
SweepQuietly ==
  /\ At("worker", "sweep")
  /\ \/ Fine /\ DeleteExpired
     \/ Fault("outcome") /\ UNCHANGED board
  /\ Rest("worker")
  /\ UNCHANGED <<arrived, old, queue, failing, stores, phase, maimed>>

-----------------------------------------------------------------------------
(* IngestionService.ingest, on either actor.                               *)

(* Everything before the first write: the checks, parsing, chunking and    *)
(* embedding.                                                              *)
Parse(a) ==
  /\ At(a, "parse")
  /\ \/ Goto(a, "add_chunks") /\ UNCHANGED <<doing, failing>>
     \/ \E c \in Rejection : Raise(a, c)
  /\ UNCHANGED <<arrived, board, old, queue, stores, phase, bounds, maimed>>

AddChunks(a) ==
  /\ At(a, "add_chunks")
  /\ \/ /\ Fine /\ chunks' = chunks \cup {doing[a]}
        /\ Goto(a, "register") /\ UNCHANGED <<doing, failing>>
     \/ /\ Fault("vector") /\ UNCHANGED chunks
        /\ Raise(a, "internal_error")
  /\ UNCHANGED <<arrived, board, old, queue, registry, originals, phase, maimed>>

(* create_document: it is committed and read back, it is refused, or it is *)
(* committed and the read-back fails; the caller cannot tell the last two  *)
(* apart.                                                                  *)
Register(a) ==
  /\ At(a, "register")
  /\ \/ /\ Fine /\ registry' = registry \cup {doing[a]} /\ Goto(a, "retain")
     \/ /\ Fault("registry") /\ UNCHANGED registry /\ Goto(a, "compensate")
     \/ /\ Fault("read_back") /\ registry' = registry \cup {doing[a]}
        /\ Goto(a, "compensate")
  /\ UNCHANGED <<arrived, board, old, queue, doing, failing, chunks, originals,
                 phase, maimed>>

(* Fault: a refused registry row is not made up for.                       *)
CompensateNot(a) ==
  /\ At(a, "compensate")
  /\ Fine /\ Raise(a, "internal_error")
  /\ UNCHANGED <<arrived, board, old, queue, stores, phase, maimed>>

(* delete_chunks_for_document, its own failure only logged; then the       *)
(* exception goes on.                                                      *)
Compensate(a) ==
  /\ At(a, "compensate")
  /\ \/ Fine /\ chunks' = chunks \ {doing[a]} /\ UNCHANGED maimed
     \/ Fault("compensation") /\ maimed' = maimed \cup {doing[a]} /\ UNCHANGED chunks
  /\ Raise(a, "internal_error")
  /\ UNCHANGED <<arrived, board, old, queue, registry, originals, phase>>

(* original_store.store, its OSError swallowed.                            *)
Retain(a) ==
  /\ At(a, "retain")
  /\ \/ Fine /\ originals' = originals \cup {doing[a]}
     \/ Fault("original") /\ UNCHANGED originals
  /\ IF a = "worker" THEN Goto(a, "complete") /\ UNCHANGED doing ELSE Rest(a)
  /\ UNCHANGED <<arrived, board, old, queue, failing, chunks, registry, phase, maimed>>

-----------------------------------------------------------------------------
(* The process.                                                            *)

(* A kill, or a crash, at any point.                                       *)
Kill ==
  /\ phase # "down" /\ stops < MaxStops
  /\ stops' = stops + 1
  /\ phase' = "down"
  /\ queue' = <<>>
  /\ pc' = [a \in Actor |-> "idle"]
  /\ doing' = [a \in Actor |-> 0]
  /\ failing' = "none"
  /\ maimed' = maimed \cup ({doing[a] : a \in Actor} \ {0})
  /\ UNCHANGED <<arrived, board, old, stores, faults>>

(* An orderly stop waits for the requests, then shuts the executor down:   *)
(* what is queued is dropped, what runs runs to its end before the process *)
(* goes.                                                                   *)
Shutdown ==
  /\ phase = "up" /\ pc["loop"] = "idle" /\ stops < MaxStops
  /\ stops' = stops + 1
  /\ phase' = "draining"
  /\ queue' = <<>>
  /\ UNCHANGED <<arrived, board, old, pc, doing, failing, stores, faults, maimed>>

Exit ==
  /\ phase = "draining" /\ pc["worker"] = "idle"
  /\ phase' = "down"
  /\ UNCHANGED <<arrived, board, old, queue, pc, doing, failing, stores, bounds, maimed>>

(* Fault: a new server while the old one still finishes its last job.      *)
StartEarly ==
  /\ phase \in {"down", "draining"}
  /\ phase' = "starting"
  /\ UNCHANGED <<arrived, board, old, queue, pc, doing, failing, stores, bounds, maimed>>

Start ==
  /\ phase = "down"
  /\ phase' = "starting"
  /\ UNCHANGED <<arrived, board, old, queue, pc, doing, failing, stores, bounds, maimed>>

(* fail_interrupted_ingestion_jobs; a failure ends the start.              *)
SweepInterrupted ==
  /\ phase = "starting"
  /\ \/ /\ Fine /\ phase' = "expiring"
        /\ LET stranded == {u \in Upload : board[u].status \in Live}
           IN  /\ board' = [u \in Upload |-> IF u \in stranded THEN FailedAs("interrupted")
                                             ELSE board[u]]
               /\ old' = old \ stranded
     \/ Fault("startup") /\ phase' = "down" /\ UNCHANGED <<board, old>>
  /\ UNCHANGED <<arrived, queue, pc, doing, failing, stores, maimed>>

SweepAtStart ==
  /\ phase = "expiring"
  /\ \/ Fine /\ DeleteExpired /\ phase' = "up"
     \/ Fault("startup") /\ UNCHANGED board /\ phase' = "down"
  /\ UNCHANGED <<arrived, old, queue, pc, doing, failing, stores, maimed>>

(* Time: an ended row passes the retention window.                         *)
PassRetention(u) ==
  /\ board[u].status \in Ended /\ u \notin old
  /\ old' = old \cup {u}
  /\ UNCHANGED <<arrived, board, queue, pc, doing, failing, stores, phase, bounds, maimed>>

AwaitUpload ==
  /\ phase = "up" /\ queue = <<>> /\ \A a \in Actor : pc[a] = "idle"
  /\ UNCHANGED vars

-----------------------------------------------------------------------------
Init ==
  /\ arrived = 0
  /\ board = [u \in Upload |-> ShownAs("none")]
  /\ old = {} /\ queue = <<>>
  /\ pc = [a \in Actor |-> "idle"]
  /\ doing = [a \in Actor |-> 0]
  /\ failing = "none"
  /\ chunks = {} /\ registry = {} /\ originals = {}
  /\ phase = "down"
  /\ faults = 0 /\ stops = 0 /\ maimed = {}

Ingest(a) == Parse(a) \/ AddChunks(a) \/ Register(a) \/ Compensate(a) \/ Retain(a)

LoopStep   == CreateJob \/ Enqueue \/ Ingest("loop")
WorkerStep == TakeJob \/ MarkRunning \/ Ingest("worker")
              \/ RecordSuccess \/ RecordFailure \/ SweepQuietly
StartStep  == SweepInterrupted \/ SweepAtStart

Next ==
  \/ Submit \/ IngestDirectly \/ LoopStep \/ WorkerStep
  \/ Kill \/ Shutdown \/ Exit \/ Start \/ StartStep
  \/ \E u \in Upload : PassRetention(u)
  \/ AwaitUpload

Spec == Init /\ [][Next]_vars

(* The event loop, the worker thread, a start and a stop that were begun   *)
(* go on; nothing starts the server, sends it an upload or makes time pass. *)
FairSpec ==
  /\ Spec
  /\ WF_vars(LoopStep) /\ WF_vars(WorkerStep) /\ WF_vars(StartStep) /\ WF_vars(Exit)

-----------------------------------------------------------------------------
(* Properties.                                                             *)

Step == {"idle", "create", "enqueue", "parse", "add_chunks", "register",
         "compensate", "retain", "mark", "complete", "fail", "sweep"}

(* Every row, and every place an upload can be, has its shape.             *)
TypeOK ==
  /\ arrived \in 0..MaxUploads
  /\ board \in [Upload -> Row]
  /\ old \in SUBSET Upload
  /\ queue \in Seq(Upload)
  /\ pc \in [Actor -> Step]
  /\ doing \in [Actor -> Upload \cup {0}]
  /\ failing \in Category \cup {"none"}
  /\ chunks \in SUBSET Upload /\ registry \in SUBSET Upload
  /\ originals \in SUBSET Upload /\ maimed \in SUBSET Upload
  /\ phase \in {"down", "starting", "expiring", "up", "draining"}
  /\ faults \in 0..MaxFaults /\ stops \in 0..MaxStops

(* The jobs whose content the process holds, or is about to hold.          *)
Held ==
  Len(queue) + (IF pc["worker"] \in {"idle", "sweep"} THEN 0 ELSE 1)
             + (IF pc["loop"] \in {"create", "enqueue"} THEN 1 ELSE 0)

(* The backpressure limit bounds the uploads in memory, although submit    *)
(* counts rows of the newest max_pending_ingestions only, and counts them  *)
(* before it creates its own while the worker goes on.                     *)
QueueBounded == Held <= MaxPending

InHand(u) ==
  \/ \E i \in DOMAIN queue : queue[i] = u
  \/ \E a \in Actor : doing[a] = u

(* No job is left queued or running that nobody will ever finish: what the *)
(* docstring of _run says of every outcome, and what the sweep at startup  *)
(* is for.                                                                 *)
NoStrandedJob ==
  phase = "up" => \A u \in Upload : board[u].status \in Live => InHand(u)

(* A listed document can be cited, and only a listed document has its      *)
(* original kept, whichever store call fails (but for the read that        *)
(* follows the registry's commit, fault "read_back") and whenever the      *)
(* process dies between two of them; chunks of a document that is not      *)
(* listed are being written right now, or a kill or a failed compensation  *)
(* left them.                                                              *)
StoresAgree ==
  /\ registry \subseteq chunks /\ originals \subseteq registry
  /\ \A u \in chunks \ registry : u \in maimed \/ \E a \in Actor : doing[a] = u

(* What the board promises of each upload.                                 *)
Board == INSTANCE UploadBoard WITH
  status      <- [u \in Upload |-> board[u].status],
  interrupted <- {u \in Upload : board[u] = FailedAs("interrupted")},
  documents   <- registry

(* The job table, the worker and the stores keep the board's promise: an   *)
(* ended upload never changes its outcome, a success always has its        *)
(* document and a rejection never has one.                                 *)
KeepsBoard == Board!Spec

(* Every job that is queued or running ends, unless the server goes down   *)
(* first.                                                                  *)
JobEnds ==
  \A u \in Upload :
    board[u].status \in Live ~> board[u].status \notin Live \/ phase = "down"

=============================================================================
