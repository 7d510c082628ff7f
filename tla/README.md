# A TLA+ model of the compliance assessment platform

The platform keeps the evidence of compliance assessments, its reviewers'
decisions and the maturity scores that follow from them. It is a single Python
process (FastAPI over SQLite and LanceDB) with a browser client and a handful of
shell scripts around it. This directory holds a model of the parts that are hard
to test, the TLC configurations that check the model on small instances, and
proofs, checked by TLAPS, that hold for every instance.

Paths below are relative to `src/backend/src/compliance_platform/` unless they
begin with `src/`.

## Inventory

| Component | State | Operations | Talks to |
|---|---|---|---|
| **Assessment record** (`services/assessment_service.py`, `repositories/assessment_repository.py`, `services/audit_seal.py`) | SQLite rows: assessment, status changes, evidence links, findings and their changes, evidence requests, attachments, seal | transition, link, propose, review, bulk reject, set finding, create and resolve request, attach, detach, verify seal | mapping engine (candidates), vector store (chunks resolve), scoring (readiness) |
| **Ingestion** (`services/ingestion_service.py`, `services/ingestion_job_service.py`, `services/original_store.py`, `api/ingestion.py`, `main.py`) | job rows, the executor's queue, chunks in LanceDB, registry rows, original files | upload (queued or direct), run, complete, fail, sweep, start, stop | parsers, chunker, embedder, all three stores |
| **Parsers and recognition** (`services/document_parsers.py`, `services/ocr.py`) | none | parse a PDF, a text, a sheet; recognise a document or single pages | ingestion, re-ingestion |
| **Chunking** (`services/chunking.py`) | none | sections, windows, page and row of each chunk | ingestion, re-ingestion |
| **Mapping engine and re-ingestion** (`services/mapping_service.py`, `src/backend/scripts/reingest_documents.py`) | none; the tool rewrites chunks and moves links | candidates per practice, competition and cap; remap | vector store, record |
| **Scoring and report** (`services/scoring_service.py`, `services/report_service.py`) | none: folds over links and findings | credit, level, coverage, gaps, blocking level, chart, headline | record, framework |
| **Sanitization, export, currency** (`services/sanitization_service.py`, `services/report_currency.py`, `services/assessment_service.py`) | approval rows with a digest; copies outside | approve, export, compare with a copy | report, record |
| **Organizations and document register** (`services/assessment_service.py`, `repositories/assessment_repository.py`) | organization and document rows, supersession | create, rename, list, upload, supersede, attach, cite | record, ingestion |
| **Framework registry and loader** (`services/framework_loader.py`) | caches of one process over files of a release | list, resolve a version, merge equivalents, pin | scoring, record |
| **Requests, identity, refusals** (`api/`, `core/`) | none | order of the checks, status codes, whose name is written | everything |
| **Queue statistics and chat** (`services/aqs_service.py`, `services/chat_service.py`) | none | counts, agreement, quoted passages | record, vector store |
| **Vector repository** (`repositories/vector_repository.py`) | a kept table handle | add, delete, search, refresh | ingestion, requests, the tool |
| **Operations scripts** (`src/scripts/`) | archives beside the volume | backup, verify, prune, scheduled run, restore | the stack |
| **Embeddings, frontend, evaluation harness, framework generators** | | | |

`PROJECT.json` lists the same components with what is modelled of each.

### What interacts with what

* Synchronous endpoints run in a **thread pool**, so any two calls on one
  assessment overlap. The service is a sequence of repository calls, and each
  of those opens a **session of its own**. `check, then act` in the service is
  therefore two transactions; inside one repository method the `SELECT` comes
  before the transaction that writes, because the `sqlite3` driver begins a
  transaction only at the first `INSERT`, `UPDATE` or `DELETE`.
* The upload endpoints are **coroutines that do not await** once the body is
  read; they run on the event loop one at a time, beside **one worker thread**
  that takes jobs from the executor's queue.
* Rows, chunks and originals outlive the process; the queue and the upload's
  bytes do not. No transaction spans the three stores.
* A report, a digest and an export are built from **several reads in sessions of
  their own**.
* Requests read LanceDB through a **handle that is opened once**; ingestion and
  the re-ingestion tool write through others.
* The framework registry is **shared by all threads without a lock** and fills
  its caches as it is asked.
* The operations scripts take **no lock** and may overlap with each other.
* A start sweeps interrupted jobs and repairs attachments.

### What makes each component correct

* *Record.* A finalized assessment is complete when it is frozen, stays as it
  was, has one seal, and the seal is of that content. The status history is
  unbroken and ends at the status in force. The engine's original proposal
  survives corrections. A document some link cites is attached.
* *Ingestion.* An accepted upload ends, with an outcome that matches the
  stores; nobody is left waiting for a job no thread holds; memory is bounded;
  the stores agree after every failure and kill, or the disagreement is one the
  code knows about.
* *Parsing and chunking.* No text is lost between the file and the chunks, the
  window loop ends, and the place a citation names is where its text is.
* *Mapping.* A passage carries at most the cap of live proposals, a run leaves
  nothing over for the next one, and re-ingestion neither loses a citation
  quietly nor moves it to other text.
* *Scoring and report.* Only reviewed evidence scores; accepting never lowers a
  score, a negative finding never raises one; the level is the highest
  cumulative one; the figures on one page agree.
* *Sanitization and currency.* What leaves is what was approved; a copy is called
  current exactly if its figures still are.
* *Organizations.* Names are unique, nothing crosses the boundary between two
  clients, following supersession comes to an end.
* *Frameworks.* A definition is whole, whoever built it at once with whom; an
  assessment is scored with the version it was created under.
* *Requests.* A request writes into its own assessment only, under the caller's
  name; a refusal that sounds final is final; statistics add up; an answer quotes
  reviewed text that is stored.
* *Backups.* An archive is of one moment, the stack comes back up, and the
  scheduled job never removes the last archive that would restore.

### Hard behaviours

`PROJECT.json` lists each hazard with its line and the properties aimed at it.
The families are: a status, a name, a decision or a seal that is checked in one
transaction and written in another; several reads behind one digest; a
finalization in the middle of a mapping run; a kill between two commits; one
store of three failing, and the compensation failing too; an orderly stop while a
job runs; a capacity check that looks at a window of rows; offsets that are
computed in one text and used in another; a tool that rewrites one store while
the server reads both; caches filled by several threads; scripts that stop,
archive and start a stack beside each other.

## Modules

| Module | What it is |
|---|---|
| `AssessmentRecord` | The record and the request threads that work on it |
| `FinalizedRecord` | What a finalized record promises, without saying how |
| `AssessmentRecord_proofs` | Theorems about `AssessmentRecord` |
| `Ingestion` | Endpoints, queue, worker, three stores, process life |
| `UploadBoard` | What the job board promises a person who uploads |
| `Ingestion_proofs` | Theorems about `Ingestion`, the refinement of `UploadBoard` among them |
| `Chunking` | How a text is cut: sections, windows, snapping |
| `Parsing` | From a file to a text with pages, rows and recognised parts |
| `Passages` | One document from the file to its stored chunks; composes the two above |
| `Passages_proofs` | Theorems about `Passages`, with the lemmas about `Chunking` and `Parsing` they rest on, and about `Frameworks` |
| `Mapping` | The mapping engine beside manual links and reviews |
| `Reingestion` | The re-ingestion tool beside `Mapping` |
| `Reingestion_proofs` | Theorems about `Mapping` and `Reingestion` |
| `Scoring` | Credit, levels and coverage while links and findings change |
| `Report` | The figures of the dashboard, over `Scoring` |
| `Exports` | Approval, export and currency as sequences of reads, over `Report` |
| `Report_proofs` | Theorems about `Scoring`, `Report` and `Exports` |
| `Organizations` | Organizations, documents, supersession and the boundary |
| `Organizations_proofs` | Theorems about `Organizations` |
| `Frameworks` | The registry, its caches and pinned assessments |
| `Refusals` | Exceptions, their status codes, and the first check that fails |
| `Requests` | Writing endpoints of several assessments, identities, the kept handle |
| `Queue` | Review queue, statistics and chat as operators over `Requests` |
| `Requests_proofs` | Theorems about `Requests` and `Queue` |
| `Backups` | The operations scripts beside the running stack |
| `Backups_proofs` | Theorems about `Backups` |
| `MC...` | Small instances of the above for TLC |

A comment that begins `Fault:` marks a definition that is *not* the code: a
variant with a plausible bug, kept so that each property can be shown to fail
for it (`mutants` in `PROJECT.json`).

### AssessmentRecord

Each thread has a program counter `pc`, its `call`, and `seen`, the rows its
earlier `SELECT`s returned. A call is

* a `Begin...` action: the service's first session, with its refusals (a
  refused call changes nothing and is no step);
* `ReadTable`, once per further session that only reads;
* `Decide` or `FindCandidates`: what the service concludes from `seen`, never
  from the tables as they stand by then;
* `Load`: the reads at the head of the repository's writing session,
  `_assert_writable` among them;
* a `Commit...` action: flush and commit. A row is written from the values the
  session *loaded*: an attribute is written only where the new value differs
  from the loaded one (`Flush`), an `INSERT` whose unique key is taken meanwhile
  rolls the whole transaction back, and a `DELETE` of a row that is gone does
  nothing.

`BeginTransition`, the readiness reads, `Decide`, `Load`, `CommitTransition`,
six reads, `LoadSeal`, `CommitSeal` is the path of a finalization. `Restart` is a
kill at any point followed by a start, including the attachment backfill. `Fail` is an
exception at any step of a call, a locked database for one: the session it is in rolls back,
what the call's earlier sessions committed stays, and nobody makes up for the rest.

Abstractions. The status check and the load of the row in one writing session
are one step. Timestamps, notes, rationales and actor names are absent, so a
decision repeated with the same value and another rationale is invisible to the
modelled seal. A digest is modelled by the payload it is a digest of: two
digests are equal exactly when the payloads are. Frameworks, chunks and
organizations resolve. A mapping run returns any set of at most `MaxProposals`
candidates for practices without a live link, with documents attached at the
time it read; which ones it prefers is the subject of `Mapping`.

`late` counts the writes of each thread that landed on a finalized record; `unsealed`
says that a kill or an exception fell between the commit of a transition and that of its
seal, `unattached` which documents a link cites whose attachment an exception kept from
being stored since the last start. They are history variables and no guard reads them.

`FinalizedRecord` is the abstract specification: work until finalization,
finalize only a complete record from review, then nothing but one seal of
exactly that content. `KeepsPromise` is the refinement, with the four tables of
content as `content` and `Ready` as `Complete`.

### Ingestion

Uploads are numbered as they arrive; a job row and a document go by the number
of their upload. Two actors, `"loop"` and `"worker"`, run `IngestionService.ingest` as the
same five steps (`Parse`, `AddChunks`, `Register`, `Compensate`, `Retain`), each a store
call that may fail if its kind is in `Faults` and fewer than `MaxFaults` have failed.
The loop creates and enqueues; the worker takes, marks, records the outcome and
sweeps. `Raise` is the exception path: `_fail` on the worker, an error response
on the loop.

The process is `down`, `starting` (the interrupted sweep), `expiring` (the
retention sweep), `up` or `draining`: an orderly stop drops the queue
(`shutdown(wait=False, cancel_futures=True)`), and the interpreter joins the
worker before it goes. `Kill` loses everything in memory at any point. A start
is never forced: the deployment has no restart policy.

`old` is what time does to a row: an ended row may pass its retention window at
any moment, which includes every real schedule of sweeps and more. `maimed` is a
history variable: uploads a kill or a failed compensation cut short.

`UploadBoard` is the abstract specification. `KeepsBoard` says that an ended
upload never changes its outcome until it is forgotten, that a success always
has a listed document, that a rejection never has one, and that only an
interruption leaves it open.

### Chunking, Parsing, Passages

A text is a sequence of characters of four classes (`Chunking`): space, letter,
sentence stop, heading mark. That is what `_is_sentence_end`, `_HEADING_RE` and
the word search tell apart; a stop `_is_sentence_end` refuses is a letter.
`CutWindow` is one turn of the loop in `_fixed_window_chunks`: the nominal start
advances by the target less the overlap, both edges of the window are moved to a
sentence, else to a word, and the nominal window stands where the edges would
cross. A window whose visible text is under the minimum is no chunk (`IsLong`).

`Parsing` keeps, with each character, its *origin*: the page or row it came from
and whether it was recognised. Running headers are found by comparing the edges
of pages with their numbers masked (`Signature`), as `_detect_running_lines` does;
a sparse page is recognised and replaces the page of the text layer only if it
has more text; `SplicePages` moves the later boundaries.

`Passages` composes them: `Parse`, `CutText` once per window, `StoreChunks` with page, row,
sheet and provenance looked up by the chunk's offset, as `chunk_document` does. `LabelOf` is the
provenance shown with a citation: that of its chunk, or, for a citation of the whole
document, that of how the document was read. A window
keeps its number from the cut to the row, so `rows` is a function of the windows that
are long enough (`Chunks`).

### Mapping and Reingestion

A run of `propose_mappings` reads the links, searches, and stores its proposals
in a transaction each, while other threads link and review. `Kept` is the
competition for a chunk: the nearest practice wins and at most `Cap` live claims
remain. Nearness is a constant function; the index is not modelled.

`Reingestion` adds the tool: it lists documents, parses and cuts each again,
computes where each cited chunk went (`BestMatch`: the largest overlap of
offsets), deletes the old chunks, adds the new ones, and commits the moved links. It
may be stopped between any two of these. A text is a sequence of places of its
source, so that a new parser may give other offsets to the same place.

### Scoring, Report, Exports

`Performed` and `Excluded` are `performed_and_excluded_practice_ids`; `Climb` is the
loop of `compute_domain_mil`, unrolled over the three levels that the framework
schema admits; a coverage is a fraction, compared by cross-multiplication.
Calls come one at a time; overlap is the subject of `AssessmentRecord`.

`Report` computes what `report_service` does from the same rows, each figure its
own way: gaps, the level that blocks a domain, chart rows, headline.

`Exports` lets clients approve, export and check a copy, each of which
collects its report read by read: `at` is where a call is and `got` a record of what it
was asked and has read, from which alone it builds its answer. Two digests are equal when what
`_payload_v1` takes from the two reports is (`SameDigest`); scores are floats there, so that three of three is
two of two (`SameValue`). A write is two steps, the check of the status and what it lets through (`CheckWritable`, then
`ReviewLinks` or `Judge`; `CheckTransition`, then `UpdateStatus`, which sets the status whatever it is by then): a review may
land on a record that was finalized in between, and a finalized record may be opened again. `late` counts what
landed on a finalized record, and a copy notes its value with the status. Sanitization replaces every phrase of the
sensitive terms; a text is the set of phrases in it. The order of terms of one
length depends on the server's hash seed, which a restart changes; `epoch`
stands for it.

### Organizations

Creation and renaming look a name up and write it in another session, where the
unique index decides (`UpdateName`, `InsertOrganization`). An upload names an
organization and maybe a document it supersedes; `CheckLink` and
`CheckAttach` are the organization check, in a session before the write.
Documents in `Legacy` have chunks and no row.

### Frameworks

A registry's caches are filled by `OpenFile`, `LoadEntries`, `ReadEntries`, `LoadIndex`, `BuildIndex` and `Store`, interleaved
between threads. A file may be missed (`Flaky`): the loader treats an absent file
as an empty one and keeps the result. `Restart` begins a new process, maybe of a
newer release with further versions.

### Refusals, Requests, Queue

`Requests` serves one request at a time, with ids in its body that may belong to
another assessment or to nothing, and with or without an identity header. Each call has a list of checks in the
code's order (`LinkChecks`, `ReviewChecks`, `DetachChecks`, ...), pairs of a condition and the
exception it raises; `Refusals` gives its status code. The table handle shows
what it showed when it was opened until `Refreshed` reopens it.

`Queue` has no variable: filters, counts, agreement by band and the answers of
the chat, as operators over a state of `Requests`.

### Backups

A thread runs one script at a time: stop, copy part by part, checksum, start for a
backup; list and remove for pruning; halt, wipe, extract, start for a restore. Commands fail (`StopFails`,
`Abort` through the exit trap, `ExtractFails`, and `StartFails`, in the trap as at the end of a restore), scripts are killed, archives decay (`Rot`), and the operator may
bring the stack up (`ComposeUp`). The database and the vector store are two parts which the running
stack writes one after the other. `alone` and `outage` are history: whether another
script overlapped, and why the stack is down.

## Runs

| Run | Question | Instance |
|---|---|---|
| `record_solo` | Do the readiness gate, the attachment of cited documents and the promise survive every order of all calls, with a kill or an exception between any two transactions? | 1 thread, 1 practice, 1 document, 1 call of each kind and 3 transitions, 1 restart, 1 exception |
| `record_lead` | What stays true of history, seal and original proposals when one person transitions, another works and both review, and does every call return? | 2 threads, 2 practices, 1 document, 3 transitions, 2 reviews, 1 attachment, 1 mapping run, 1 finding ("satisfied"), 1 request; 1 exception, no restart, fair |
| `finding_late_write` | Does a write land on a finalized record? | as `record_lead`, with 1 practice and no exception |
| `ingestion` | Bound, agreement of stores, the board and its liveness under failures, kills and stops | 3 uploads, capacity 2, 2 failures of any store or of the startup sweep, 1 stop, fair |
| `passages` | Is every text kept, cut and cited rightly, and does the loop end? | windows of 6 with overlap 4 and minimum 2; every text of up to 7 characters, PDFs of up to 3 pages with scans, sheets with blank rows and rows that end in blanks; fair |
| `citations` | Does the cap hold, and what becomes of cited passages while the tool runs? | 1 request thread, 2 practices, 1 document whose 5 places are cut in two ways, two windows that touch or that overlap, 2 links, 2 runs of the tool, 1 stop |
| `scoring` | What may each kind of step do to the scores, and do the figures of the report agree? | 3 practices, at levels 1, 2 and 3, 3 domains (one empty), 3 links, 4 finding statuses |
| `exports` | Is what leaves what was approved, and is a copy called current exactly if it is? | the coverage model, 1 client, 2 writers, 2 practices of a domain, 2 links, 3 finding statuses, 2 sensitive phrases, 2 writes, 1 approval, 1 copy, 1 restart |
| `organizations` | Names, boundary and supersession under overlapping calls | 2 threads, 3 names, 2 organizations, 1 assessment, 3 documents, one from before the register |
| `frameworks` | Are definitions whole and pins kept, whoever fills the caches? | 2 threads, 1 assessment, 2 frameworks in 3 files, 2 releases, 2 files that may be missed |
| `requests` | What may a request write and under whose name, which refusals last, do statistics and chat agree with the record? | 2 assessments of one organization, 2 documents, 2 chunks, 2 practices, 2 links, 1 request row, 1 deletion, 2 requests served |
| `backups` | Is an archive of one moment, does the stack come back, does a copy remain? | the timer and an operator with one script each, 1 document, 2 archives, keep 1, 1 fault (a failing command, a kill or a rotten archive) |

Why these bounds. A race needs two threads and never more: each property here is
broken by one call stepping between two steps of another, and most of them are
also proved for any number of threads. Three transitions are one walk to FINALIZED and one to
spare, which is the attempt to leave it. Two reviews are two that correct one proposal at once, to the
practice it had and to another. One document and one practice suffice
where no property compares two of them. Capacity 2 with three uploads reaches the
limit with a job on the worker, one in the queue and one refused; two failures
are a registry failure and the failure of its compensation; one stop with three
uploads has a job before, during and after it. In `passages` a window is short
enough that a text of seven characters has a window cut at a sentence, one cut at
a word, one too short to keep and one that no boundary helps; three pages are the
fewest on which a line counts as running. In `citations` each window of one
cutting overlaps both of the other, one of them more. In `exports` two writes are one between two reads and one after, or a finalization and what
lands after it; the level model is left to the proofs, which are for both.
Three links are one per practice; three levels are all there are. `FindingStatus`
is cut down in the configurations to one status of each class the code tells
apart.

Symmetry: `scoring` permutes links, `organizations` threads and the two new
documents, `frameworks` threads, `exports` writers. None has a temporal property other than box
actions over symmetric predicates, and no definition names a member of a
permuted set.

Deadlock is checked in `record_solo`, `record_lead`, `finding_late_write`, `ingestion` and `scoring`,
where `AwaitRequest` and `AwaitUpload` are the server waiting for its next request,
so that every other stop would be reported. In the other runs it is off: `passages` ends
when the one document is stored, and in `citations`, `exports`, `organizations`,
`frameworks`, `requests` and `backups` a bounded number of calls, copies or
faults is used up and nothing is left to do.

### Fairness

`record_lead`: weak fairness of `Proceed(t)` for each thread. Threads of the pool
are scheduled by the operating system, and no step of a call waits for another
thread (SQLite's busy wait ends in an error, not in a lock held for ever).
Nothing is assumed of `Begin`, and `Fail` is no part of
`Proceed`: a call returns without the help of an exception.

`ingestion`: weak fairness of the event loop's step, the worker's step, the steps of a
start and the end of a drain. Nothing forces an upload, a start, a stop or the passage of
retention. Hence `JobEnds` says "ends, or the server goes down": without a
restart policy nobody promises more.

`passages`: weak fairness of parsing, cutting and storing, which are one
thread's sequence. `Finishes` is about the loop of `_fixed_window_chunks`, whose every turn has to
advance although both ends are moved.

## What the runs show

The passing runs show the statements in the comments above each property.
Restrictions to know about:

* `record_solo` has one caller. With two overlapping callers a decision can be
  overwritten, and with it the strict promise is false; `CitedIsAttached` and
  `FinalizedIsComplete` also fail when calls overlap: a link created between
  `detach_document`'s citation check and its delete is left without its
  attachment, and a proposal or request created between the readiness check and
  the status update is frozen with the record.
* `record_lead` has one writer of findings. Two overlapping
  `set_practice_finding` calls on one practice append two changes that leave
  from the same status.
* `ingestion` leaves out three failures. `outcome`: a failing write of a job's state
  leaves it running with no worker. `submit`: the row is committed, the refresh fails, the
  row stays queued. `read_back`: `create_document` commits and then fails, the compensation deletes the
  chunks of a listed document, and `StoresAgree` is false. The first two break `NoStrandedJob` only;
  the proofs below name exactly what each theorem needs.
* `CitedIsAttached` exempts, until the next start, a document whose link was committed and whose attachment raised.
  `UnsealedIsExplained` does not say that every finalized record is sealed: a kill or an exception between the two
  commits leaves it unsealed, and nothing tries again. It says that nothing else does.
* `FinalizedCopyIsFinal` and the part of `CurrencyIsRight` about finalized copies are of copies after whose reading of the
  status no write landed late. After one, the figures of a finalized copy differ from the record's, and the copy is rightly
  called superseded: the window is that of `NoLateWrite`. A second transition in that window opens the record again.
* `CurrencyIsRight` compares a copy with the record by what is printed, as far as the digest can tell: counts of links, headline, scores, the unmet practices of each domain,
  and in a domain that has some its chart (coverage model) or blocking level (level model). The counts of a domain without gaps are not
  covered, see below.
* `StackComesBack` lists what may leave the stack down: a stop or start of the containers that failed, a restore that failed, a killed
  script.
* `CapHolds` is of a run that no write overlaps; `NothingLostQuietly` exempts links made while the tool runs and a
  document whose re-ingestion was cut short; `CurrencyIsRight` is of a check
  that no write overlaps; `SnapshotIsFaithful` and `CopyRemains` are of a script that runs alone. The exempted
  cases are real, see the next section.
* `RefusalLasts` holds of detaching for a reason its docstring does not give, see
  below.

### Findings

`finding_late_write` has one property, taken from a sentence of the repository, and
TLC's counterexample is what the code does: the lock that `_assert_writable`'s
docstring and ADR-0060 rely on is not held, so a write can land after
finalization.

### Seen while modelling

Not runs of their own, but what the guards and hypotheses above are there for.
Where a text of the repository says otherwise it is named.

*Record.* Two overlapping transitions can take a finalized assessment back to draft, or seal it twice (ADR-0060
and the docstring of `store_finalization_seal` exclude it). Of two overlapping reviews the later
overwrites the earlier. A rejected link still counts as a citation, and links are
never removed, so a document that was cited once can never be detached, though
`detach_document`'s docstring and its refusal's message say to reject the links first.
A later `resolve` overwrites the name of the first resolver; a
repeated `PUT` of a finding appends a row to its history. `AssessmentAlreadySealedError` has no
status code of its own and is answered with 500. An exception between `update_status` and `store_finalization_seal` leaves a
finalized record unsealed for good: a second finalization is refused, and a start does not seal. One between the two sessions of
`link_evidence` answers with an error although the link is stored, and its document is unattached until the next start.

*Passages.* Exactness of provenance follows the page a chunk starts on only
(`services/chunking.py:343-357` against ADR-0074). The lookup of a row uses the offsets of a window before it is
stripped, so a chunk that begins in the blanks at the end of a row (its last cell is empty) is cited under that row and
quotes nothing of it, though `chunk_document`'s docstring says "the first spreadsheet row [...] it actually contains"
(`services/chunking.py:382-384`). The newlines between two pages are in no page's boundary, though
`_page_number_for_offset` says that this should not happen (`services/chunking.py:299-301`): a window that begins there,
after a sentence or because the first page is blank, has no page and no recognition flag. `CitationIsRight` is worded for what the code does at
both places: the row is the first the window reaches into, and only a window that begins between two pages has no page. With an overlap under the word shift a word longer than the shift may lose
its tail in a window, and is whole in none.

*Re-ingestion.* Links are moved by offsets although the parser may have changed the
text under them; if the tool stops after the delete, the document has no chunks
and a rerun does not list it (ADR-0055 says the store is untouched); links made
while the tool runs lose their chunk without being named; links of finalized
assessments are moved too, past `_assert_writable`, so that their seals no longer verify;
the new chunks have no page, row or recognition flag; two chunks may merge and
exceed the cap. Overlapping mapping runs also exceed it, against the docstring.

*Scores and reports.* Marking a performed practice not applicable can lower its
domain's coverage (one of three performed becomes none of two), against the docstring of
`compute_domain_coverage`. A domain whose practices are all excluded scores coverage 0
and level 3. The digest leaves out counts of met and total, the status of gaps and superseded flags: a copy is called current although a
domain without gaps counts other practices now (two of two, where it was one of one and one not applicable), or, in the level
model, although the chart of any domain does, as long as its unmet practices and its level are the same. An approval
rebuilds the report, so it may cover content nobody previewed. The sanitized hash depends on the process's hash seed
when two terms are of one length, though it is called reproducible. A copy with an unknown digest is
called superseded where the docstring says unverifiable. The name of the organization is
printed as it is on sanitized exports.

*Organizations.* Two uploads can supersede one document, also from different
organizations, so that another client's upload may show a document as
superseded. Documents from before the register pass the organization check.

*Frameworks.* A file that is missed once is remembered as empty for the life of the
process, and what was merged then stays without equivalents. A missing file at
creation leaves an assessment without a pin, also when a version was asked for,
and it follows the latest from then on.

*Requests.* A caller may post a link with the source of the engine and no confidence; it
is in no band. The filters on confidence are inclusive at both ends, the bands half-open.

*Ingestion.* `POST /ingest` runs a whole ingestion on the event loop.

*Scripts.* The exit trap of one backup starts the stack under another's copy or restore. Partial archives count
toward `--keep` of a manual prune, which may remove the only good one. `restore.sh` wipes
before it extracts and has no trap, so a failing extraction leaves an empty volume and a stopped stack. A
`docker compose start` that fails, in the trap of `backup.sh` or at the end of `restore.sh`, leaves the stack down, and nobody tries
again. An archive made during an overlap verifies: the check does not look into the vector store.

## Proofs

Eight modules prove, for every value of the constants that the named assumptions
admit, the theorems that `PROJECT.json` lists. Each has an inductive invariant that is a
conjunction of named parts, one lemma per part or per call that shows it kept, and theorems
that read the property off. Every invariant and every action property that a passing run checks is
a theorem, some under a hypothesis that is named below.

### The record

`TypeCorrect` is the base: `TypeOK` is inductive together with `ReviewTarget`
(the link a review addresses exists, and existed when the writing session loaded
it; the table never shrinks), which `CommitReview` needs in order to index its own
view.

* `UnsealedIsExplainedTheorem`, for any threads, calls, exceptions and restarts. The
  strengthening is `SealInProgress`: a finalized record without a seal has a thread at
  `sealing` or `commit_seal`, or a call was cut off there. It is needed
  because the gap between the two commits is where the record is unsealed; `SealerGoesOn` says that
  a thread in the gap leaves it only with a seal stored.
* `ProposalIsKeptTheorem`, for any threads and any calls. The strengthening
  `ReviewSeen` relates the row a reviewing thread loaded to the row now by `Kept`,
  the relation `ProposalIsKept` asks of one step, which is transitive. Lost
  updates of overlapping reviews cannot destroy it.
* Under `OneLead` (at most one thread is given transitions):
  `FinalizedIsTerminalTheorem` and `HistoryIsWalkTheorem`, from `LeadInv`: until the
  lead's transition commits it is still allowed from the status in force, and at its
  commit the status its session loaded is that status. `OneLateWriteTheorem`, from `LateInv`: a
  thread that wrote late is not at a commit, and the record is finalized, so that
  no later check lets it through. `SealIsPermanentTheorem`, from
  `NoSealYet`: a thread about to write the seal is the only one that could have. `AlteredOnlyByLateWriteTheorem`, from `SealedContent`: if no write
  was late then each table the sealing thread has read is still as it read it,
  and a stored seal is of the record as it stands.

* Under `OneCaller` (calls do not overlap; one thread, any number of calls and
  restarts): `FinalizedIsCompleteTheorem`, `CitedIsAttachedTheorem` and `KeepsPromiseTheorem`, from
  `SoloInv`. What a call has read is what is stored until it decides
  (`SeenToDecide`), and what it decided still holds when it commits (`DecidedHolds`). A cited
  document without attachment is `Awaited` by the call that is about to attach it, or its call was cut off there. The refinement of
  `FinalizedRecord` takes from `SealedContent` that the tables a sealing call has read are the frozen ones;
  `SealedAs` is the seal as the promise sees it, without the status.

`OneLead` and `OneCaller` are hypotheses of the theorems and not assumptions of the
module: where they do not hold the statements are false.

### Ingestion

`Hands` says who has which upload: the queue is in the order of arrival, the
worker's upload came before all of it, and the event loop's is the latest.
`Statuses` says what row each of them has, `Stored` what the stores hold of it, `Kept`
that every live row is in somebody's hands while the server is up. They fit together: a step
of one actor leaves the other's upload alone because no upload is in two hands
(`InOneHand`, a consequence of the order).

* `IngestionTypeCorrect`, from `TypeOK` and `Hands`: what an actor works on is an upload.
* `StoresAgreeTheorem`, if `"read_back" \notin Faults`, from `Stored`: it needs to know that a document
  is not in the store yet when its compensation takes its chunks away.
* `NoStrandedJobTheorem`, if no write of a job row fails, from `Kept`.
* `KeepsBoardTheorem`: `Spec` implies `Board!Spec`. Every step is one of the board's or leaves it as it is; `Statuses` gives
  the guards of the board's actions, `Stored` that a success has its document and a
  rejection does not.
* `QueueBoundedTheorem`, for any limit and whatever fails. `submit` counts pending rows among the newest
  `MaxPending` only, and that is enough because of `Suffix`: rows that came after an upload that waits
  are live too. So either all that wait are among the newest, and are counted; or,
  after the last existing row that is not among them, there are `MaxPending` rows and all
  of them are pending.

### Organizations

`Rows` are the types of the tables, `Boundary` the boundary itself, `Fits` what each
call may still rely on when it writes: what it found in an earlier session is of
rows that only ever grow (`Growth`), so the answer to a check stays true until
the write although nothing holds it. `Reserved` says that the id under which an ingestion will register is known to nobody
yet, hence superseded by nothing, which gives `VersionsEndTheorem`: a new document refers only to older ones. `NamesAreUniqueTheorem` rests on
the unique index alone. `BoundaryHoldsTheorem` is of registered documents; one
without a row belongs to nobody.

### Backups

`Owned`: a stack that is down is down for a thread that is about to start it, or for a
reason on record; a thread gives up its part only by starting it or, when a command fails or it is killed, by leaving the reason. `Alone`: while a script that nothing overlapped copies, the stack is stopped and the volume is as
it was. `Faithful`: an archive's copied parts are those of that volume. `Guarded`: a scheduled run that prunes has
seen a restorable archive newer than what it removes. They give `StackComesBackTheorem`, `SnapshotIsFaithfulTheorem` and
`CopyRemainsTheorem`, for any number of scripts, archives and faults.

### The scores and the report

`ScoringTypeCorrect`; `MilIsHighestTheorem` and `ScoreIsTraceableTheorem`, which hold in
every typed state; and the action theorems, `StepsMoveScoresTheorem` with its five
parts `AcceptingNeverLowersTheorem`, `UnreviewedMovesNothingTheorem`, `CautionNeverRaisesTheorem`,
`NotApplicableNeverLowersMilTheorem` and `FindingNeedsEvidenceTheorem`. Each follows one argument: a lemma on
what the step does to the cited practices, one on what that does to `Performed` and
`Excluded`, and `ScoresFollowCredit`, which orders scores by credit: they hold or rise when
practices are excluded or performed, and no performed practice among those that
count is lost to either. They hold for any finite framework and any set of links, where the run has three of each.

`FiguresAgreeTheorem` is about the figures that `report_service` computes apart.
The counts by domain are sums over a function, of which the community modules' fold is
shown to split at any one argument and to add the sizes of disjoint sets. The headline
is put together from fractions that were rounded: `RoundedIsMet` undoes the rounding, so that it
is the fraction of the whole framework. `BlockedAbove` ties the blocking level to the score.

### Exports

`SanitizedInv`: each approval's hash is of what was approved, in the numbering of its
process (`RowOK`); a call that exports has an approval it compared with what it
built (`Sanitizing`, `Refused`); a copy outside has an approval with its hash
(`CopyOK`). From it `ExportWasApprovedTheorem` and `StaleOnlyIfChangedTheorem`.
`CurrencyInv`: what a call has read that nobody disturbed is what is stored (`AsOfNow`). A finalized record *is* written, by whoever
passed the check before; but each such write counts in `late`, so that a call that read the status as finalized, and `late` with it, has
read nothing but final figures as long as `late` is what it was (`FinalCall`), and so has a copy outside (`FinalCopy`). From it
`FinalizedCopyIsFinalTheorem` and `CurrencyIsRightTheorem`. The order of reads is what the first depends on: with the status read last it is
false. The second has to get from the digest to what is printed, and back: the digest lists the unmet practices of all domains in one row, and
`UnmetByDomain` tells them apart by the domain of each; unmet practices and score together determine the chart of a domain with gaps
(`ChartOfGaps`), under the level model its blocking level (`Stops`); `DigestIsPrinted` puts the two directions together. Equality of scores is
equality of fractions as values throughout. All of it is for both scoring models, where the run has one.

### Mapping and re-ingestion

* `NothingLostQuietlyTheorem`, from `CitationInv`: every link has its chunk, or is on a printed list, or was made
  while the tool ran, or is of the document that is being replaced or was left torn. What the tool is about to add
  holds every chunk it moved a link to.
* `CapHoldsTheorem`, from `RunInv`: the links of an undisturbed run (`QuietRun`) are those it read and the part of its
  proposals that it has stored, so at its end they are what `Kept` admitted. That `Kept` admits no more than the cap
  leaves, and as much as it leaves, is a count of the contenders for a passage, which their confidence
  orders (`RankIsInjective`, `FirstAreFew`, `FirstAreFull`); it needs `ConfidenceIsNumber`, that nearness is a number.
* `CitationFollowsTextTheorem`, an action property, from `MoveInv`: between the cut and the commit all new chunks are of the document and
  of one version of its text, each link to be moved has its best match among them, and at the commit the document's chunks in
  the store are the new ones. `BestMatch` counts offsets and the property counts places of the text; the two counts agree where no place is twice
  in the text. It speaks of one move. Overlap of passages is not transitive, so nothing is
  claimed of where a citation ends up after several.

All are for any number of threads, documents and runs, and with everything going on at once.

### Passages

`PassagesInv` is about a file from its arrival to its rows: it is uncut while it is being
read; a text that was accepted is what some parts, joined, make (`IsRead`), with the
bounds, the recognised pages and the origin of each character; every row is a window of that text.

* `NoTextLostTheorem` and `WindowsInSectionTheorem`, from `CutInv`. `Reach` is the farthest an edge moves over visible text, which is less
  than half of the overlap (`ShiftAssumption`, which the shipped settings satisfy); `Overlapped` says that what the next window may
  leave out at its start is in an earlier one.
* `CitationIsRightTheorem`: `OriginAt` gives the part a character came from by the bounds of the part, so that the
  lookups by offset find the right page and row (`PageIsRight`, `RowCited`), also after a splice. A document whose
  status is `success` has no recognised part (`NothingScanned`), hence what is said of a citation without a chunk.
* `PagesSurviveTheorem`: `OwnIsNotRunning`, a line of one page is never a running line, because two pages at least must
  have it (`RunningAssumption`), so cleaning keeps it (`CleaningKeeps`), and joining keeps what is in each part (`JoinWithJoins`).

`FilesAssumption` says what the libraries that read the formats hand over: characters,
pages of lines, sheets of rows. The induction these proofs need, along a text or a list of parts, is on the set of
the numbers up to which the statement holds (`UpTo`), for which no theorem with an operator parameter is needed.

### Frameworks

`RegistryInv` has a part for each thing threads share and one for what each thread holds.

* `EntriesInv` and `IndexInv`: what the two lazily built tables hold is what the files say, but for files this process
  missed. Two threads may build either at once, and the second overwrites the first; both
  wrote something of which this is true.
* `CacheInv`: a cached definition is whole and of the file that its key names in this release.
* `CallsInv`: what a thread puts together is bare, and in nobody else's hands, until it is stored; a thread
  that asks for an assessment asks for its pin.
* `PinInv`: the property `PinHolds` with the types it needs.

They give `DefinitionsAreWholeTheorem` and `PinHoldsTheorem`. That a definition lists an
equivalent once is about the merge, a concatenation over the reviewed entries: `DefinitionsAssumption` says that
no pair is listed twice and that each file names its practices under a name of its own, as the loader's comment has it
(`services/framework_loader.py:267-271`) and as the shipped files do. That a later release still serves a pinned version rests on
`KnownAssumption`: a release appends versions and never removes one (`services/framework_loader.py:63-69`).

### Requests, queue and chat

`RowsOK` is inductive: what a request refers to exists, and every name is one somebody may
bear. It is shown call by call through one description of what any request can do to the
tables (`RecordStep`), which also gives the action theorems: `WritesItsOwnTheorem` (with
the hypothesis `NobodyIsCalledThat`: no person bears the name kept for the unauthenticated),
`RefusalLastsTheorem` (from `Stands`: final statuses, decisions and cited documents stay) and
`CitesWhatIsStoredTheorem` (the handle is refreshed before a refusal). `QueueAddsUpTheorem` and
`AnswersAreReviewedTheorem` hold in every state of `RowsOK`; they need that confidences are numbers,
that no definition names a practice twice (`DomainsAssumption`) and that a marker for "none" is no value.
`StartsRight` says that the links the specification starts with are of assessments, chunks
and practices there are.

### Only model-checked

Liveness (`CallsReturn`, `JobEnds`, `Finishes`): beyond the prover, as is `ENABLED`. What
happens without the hypotheses of the theorems (`OneCaller`, `OneLead`, the faults left out) is
described under "What the runs show".

## Not modelled

* *Embeddings and similarity.* Numeric; which passages are near is a constant
  function of `Mapping` and `Queue`.
* *Formats.* What pypdf, openpyxl, python-docx and the recogniser make of bytes is an input of
  `Parsing`; the layout of exported PDF and XLSX files is left out, as is the wording of reports.
* *Startup migrations* of the database and of the vector table, which run once
  before a server takes requests.
* *Validation of framework files*, and the *generators* that wrote them: the
  generators are the text of standards, without state.
* *Endpoints that only read*, except where a property is about what they show.
* *Bootstrap, doctor and update scripts*, the *frontend* and the *evaluation
  harness*: outside of the process, and none of them writes data of its own.

## Plan

1. A composition of `Ingestion` with `Organizations`, so that the failure of an upload
   and the organization check meet in one run.
2. Two overlapping reviews and two overlapping sealings in `AssessmentRecord` under a statement of what
   is lost, in place of the hypotheses `OneCaller` and `OneLead`.
