------------------------------ MODULE Frameworks ------------------------------
(***************************************************************************)
(* The registry of framework definitions and the assessments pinned to     *)
(* them.  A server keeps one registry for its lifetime, shared by its      *)
(* request threads and without a lock.  It reads files from a directory    *)
(* that may fail to show a file which is there, and keeps what it read.    *)
(* Releases of the program add versions to a framework.                    *)
(*                                                                         *)
(* A practice is named together with the framework it is of, by the name   *)
(* the file itself declares.  Texts, similarity and rationale are left out.*)
(***************************************************************************)
EXTENDS Integers, SequencesExt

CONSTANTS
  Thread, Assessment,
  Name,          \* names under which frameworks are known
  File,          \* definition files
  Equivalences,  \* the file of reviewed equivalences
  Flaky,         \* the files that a listing may miss
  Known,         \* for each release and name, the files of its versions
  VersionIn,     \* the version a file declares
  Practices,     \* the practices a file defines, each with the declared name
  Pairs,         \* the entries of the file of equivalences
  Nothing

Release == DOMAIN Known

(* Versions of a name are distinct, and a release only appends to them.    *)
ASSUME KnownAssumption ==
  /\ Known \in Seq([Name -> Seq(File)]) /\ 1 \in Release
  /\ \A n \in Name, r \in Release :
       /\ \A i, j \in DOMAIN Known[r][n] :
            VersionIn[Known[r][n][i]] = VersionIn[Known[r][n][j]] => i = j
       /\ r + 1 \in Release => IsPrefix(Known[r][n], Known[r + 1][n])

(* Each file names its practices its own way.  The reviewed equivalents    *)
(* are pairs of two practices, and none is listed twice.                   *)
ASSUME DefinitionsAssumption ==
  /\ Flaky \subseteq File \cup {Equivalences} /\ Equivalences \notin File
  /\ Nothing \notin File
  /\ \A f \in File : Nothing \notin Practices[f]
  /\ \A f, g \in File : Practices[f] \cap Practices[g] # {} => f = g
  /\ Pairs \in Seq({Pairs[i] : i \in DOMAIN Pairs})
  /\ \A i, j \in DOMAIN Pairs :
       /\ Pairs[i].a # Pairs[i].b
       /\ {Pairs[i].a, Pairs[i].b} = {Pairs[j].a, Pairs[j].b} => i = j

VARIABLES
  release,
  cache,    \* definitions by name and version
  entries,  \* the entries read, Nothing before
  index,    \* the practices indexed, Nothing before
  pc, call, \* what each thread does, and with what
  missed,   \* the files this process did not find
  pinned,   \* for each assessment its name and version, Nothing before
  scored    \* the files each assessment was scored with

registry == <<cache, entries, index>>
stored   == <<pinned, scored>>
allVars  == <<release, registry, pc, call, missed, stored>>

-----------------------------------------------------------------------------
(* The known versions.                                                     *)

Versions(n) == {VersionIn[Known[release][n][i]] : i \in DOMAIN Known[release][n]}

Latest(n) == IF Known[release][n] = <<>> THEN Nothing ELSE VersionIn[Last(Known[release][n])]

(* Fault: what is asked for is not looked at.                              *)
ResolvedToLatest(n, v) == Latest(n)

Resolved(n, v) == IF v # Nothing THEN v ELSE Latest(n)

FileOf(n, v) ==
  IF v \in Versions(n)
  THEN CHOOSE f \in ToSet(Known[release][n]) : VersionIn[f] = v
  ELSE Nothing

-----------------------------------------------------------------------------
(* Equivalents.  An entry has two sides and is found from either.          *)

Other(entry, p) ==
  CASE entry.a = p -> entry.b
    [] entry.b = p /\ entry.a # p -> entry.a
    [] OTHER -> Nothing

Bare(f) == [file |-> f, equivalents |-> [p \in Practices[f] |-> <<>>]]

-----------------------------------------------------------------------------
(* get(name, version), on behalf of what its caller goes on to do.         *)

NewCall(then, a, key, got) ==
  [then |-> then, assessment |-> a, key |-> key, got |-> got, found |-> <<>>, indexed |-> {}]

Idle == NewCall("idle", Nothing, <<>>, Nothing)

Goto(t, label) == pc' = [pc EXCEPT ![t] = label]
With(t, c)     == call' = [call EXCEPT ![t] = c]

(* A file that is opened is found, unless it is flaky.                     *)
Opens(f)  == f \in File \cup {Equivalences} /\ UNCHANGED missed
Misses(f) == f \in Flaky /\ missed' = missed \cup {f}

(* The caller goes on with its definition, or with nothing; one who only   *)
(* browses is done.                                                        *)
Done(t) == Goto(t, "idle") /\ With(t, Idle)

Answered(t, c, definition) ==
  IF c.then = "browse" THEN Done(t)
  ELSE /\ Goto(t, c.then)
       /\ With(t, NewCall(c.then, c.assessment, c.key, definition))

Get(t, then, a, n, v) ==
  LET key == <<n, Resolved(n, v)>>
      f   == FileOf(n, key[2])
      c   == NewCall(then, a, key, Nothing)
  IN  /\ pc[t] = "idle"
      /\ \/ key \in DOMAIN cache /\ Answered(t, c, cache[key])
         \/ key \notin DOMAIN cache /\ f = Nothing /\ Answered(t, c, Nothing)
         \/ /\ key \notin DOMAIN cache /\ f # Nothing
            /\ Goto(t, "open") /\ With(t, NewCall(then, a, key, Bare(f)))
      /\ UNCHANGED <<release, registry, missed, stored>>

Cached(t, definition) ==
  cache' = [k \in DOMAIN cache \cup {call[t].key} |->
              IF k = call[t].key THEN definition ELSE cache[k]]

(* Fault: the definition is shared before it is complete.                  *)
OpenFileShared(t) ==
  /\ pc[t] = "open"
  /\ Opens(call[t].got.file) /\ Goto(t, "entries") /\ Cached(t, call[t].got)
  /\ UNCHANGED <<release, call, entries, index, stored>>

OpenFile(t) ==
  /\ pc[t] = "open"
  /\ \/ Opens(call[t].got.file) /\ Goto(t, "entries") /\ UNCHANGED call
     \/ Misses(call[t].got.file) /\ Answered(t, call[t], Nothing)
  /\ UNCHANGED <<release, registry, stored>>

(* _load_equivalence_entries: those read before, or the file's.  A miss is *)
(* kept as if the file had no entries.                                     *)
Found(t, found) ==
  /\ With(t, [call[t] EXCEPT !.found = found])
  /\ Goto(t, IF found = <<>> THEN "store" ELSE "index")

LoadEntries(t) ==
  /\ pc[t] = "entries"
  /\ \/ entries # Nothing /\ Found(t, entries)
     \/ entries = Nothing /\ Goto(t, "read entries") /\ UNCHANGED call
  /\ UNCHANGED <<release, registry, missed, stored>>

ReadEntries(t) ==
  /\ pc[t] = "read entries"
  /\ \/ Opens(Equivalences)  /\ entries' = Pairs
     \/ Misses(Equivalences) /\ entries' = <<>>
  /\ Found(t, entries')
  /\ UNCHANGED <<release, cache, index, stored>>

(* _build_practice_text_index: every file of every version, a missing one  *)
(* left out.                                                               *)
Indexed(t, indexed) == With(t, [call[t] EXCEPT !.indexed = indexed]) /\ Goto(t, "store")

LoadIndex(t) ==
  /\ pc[t] = "index"
  /\ \/ index # Nothing /\ Indexed(t, index)
     \/ index = Nothing /\ Goto(t, "read files") /\ UNCHANGED call
  /\ UNCHANGED <<release, registry, missed, stored>>

Listed == UNION {ToSet(Known[release][n]) : n \in Name}

BuildIndex(t) ==
  /\ pc[t] = "read files"
  /\ \E lost \in SUBSET (Flaky \cap Listed) :
       /\ missed' = missed \cup lost
       /\ index' = UNION {Practices[f] : f \in Listed \ lost}
       /\ Indexed(t, index')
  /\ UNCHANGED <<release, cache, entries, stored>>

(* _merge_equivalents, into a definition that is nobody else's yet: what   *)
(* each entry says of a practice, if its text is indexed, is appended.     *)
Appended(p, c) ==
  FlattenSeq([i \in DOMAIN c.found |->
    IF Other(c.found[i], p) \in c.indexed THEN <<Other(c.found[i], p)>> ELSE <<>>])

Merged(c) ==
  IF c.found = <<>> THEN c.got
  ELSE [c.got EXCEPT !.equivalents = [p \in DOMAIN @ |-> @[p] \o Appended(p, c)]]

Store(t) ==
  /\ pc[t] = "store"
  /\ Cached(t, Merged(call[t]))
  /\ Answered(t, call[t], Merged(call[t]))
  /\ UNCHANGED <<release, entries, index, missed, stored>>

-----------------------------------------------------------------------------
(* The callers.                                                            *)

(* create_assessment: a version that is asked for must be known, if the    *)
(* framework is.                                                           *)
New == {a \in Assessment : pinned[a] = Nothing}

BeginCreate(t, n, v) ==
  /\ New # {}
  /\ v # Nothing /\ Versions(n) # {} => v \in Versions(n)
  /\ Get(t, "create", Nothing, n, v)

VersionOf(definition) == IF definition = Nothing THEN Nothing ELSE VersionIn[definition.file]

Create(t) ==
  /\ pc[t] = "create"
  /\ \E a \in New :
       pinned' = [pinned EXCEPT ![a] = [name |-> call[t].key[1], version |-> VersionOf(call[t].got)]]
  /\ Done(t)
  /\ UNCHANGED <<release, registry, missed, scored>>

(* compute_scores, and every other reader of the pinned definition.        *)
BeginScore(t, a) ==
  pinned[a] # Nothing /\ Get(t, "score", a, pinned[a].name, pinned[a].version)

Score(t) ==
  /\ pc[t] = "score"
  /\ scored' = [scored EXCEPT ![call[t].assessment] =
                  @ \cup IF call[t].got = Nothing THEN {} ELSE {call[t].got.file}]
  /\ Done(t)
  /\ UNCHANGED <<release, registry, missed, pinned>>

(* GET /frameworks/{name}, with any version.                               *)
Browse(t, n, v) == Get(t, "browse", Nothing, n, v)

(* A restart, into this release or the next.                               *)
Restart ==
  /\ release' \in {release, release + 1} \cap Release
  /\ cache' = [k \in {} |-> Nothing] /\ entries' = Nothing /\ index' = Nothing
  /\ pc' = [t \in Thread |-> "idle"]
  /\ call' = [t \in Thread |-> Idle]
  /\ missed' = {}
  /\ UNCHANGED stored

InitRegistry ==
  /\ release = 1
  /\ cache = [k \in {} |-> Nothing] /\ entries = Nothing /\ index = Nothing
  /\ pc = [t \in Thread |-> "idle"]
  /\ call = [t \in Thread |-> Idle]
  /\ missed = {}
  /\ pinned = [a \in Assessment |-> Nothing]
  /\ scored = [a \in Assessment |-> {}]

Version == {VersionIn[f] : f \in File}

NextRegistry ==
  \/ \E t \in Thread :
       \/ \E a \in Assessment : BeginScore(t, a)
       \/ \E n \in Name, v \in Version \cup {Nothing} : BeginCreate(t, n, v) \/ Browse(t, n, v)
       \/ OpenFile(t) \/ LoadEntries(t) \/ ReadEntries(t)
       \/ LoadIndex(t) \/ BuildIndex(t) \/ Store(t)
       \/ Create(t) \/ Score(t)
  \/ Restart

RegistrySpec == InitRegistry /\ [][NextRegistry]_allVars

-----------------------------------------------------------------------------
(* Properties.                                                             *)

(* What the reviewed pairs say, read from both sides.                      *)
Equivalents(p) ==
  {q \in UNION {Practices[f] : f \in File} :
     \E i \in DOMAIN Pairs : {Pairs[i].a, Pairs[i].b} = {p, q}}

(* ADR-0019, ADR-0055: a definition in use, whichever threads built it at  *)
(* once, lists each reviewed equivalent of each practice once, but for the *)
(* files that this process did not find.                                   *)
Unread == UNION {Practices[f] : f \in (missed \cap File) \cup (File \ Listed)}

Whole(d) ==
  \A p \in DOMAIN d.equivalents :
    /\ IsInjective(d.equivalents[p])
    /\ ToSet(d.equivalents[p]) \subseteq Equivalents(p)
    /\ Equivalents(p) \subseteq ToSet(d.equivalents[p]) \cup Unread \/ Equivalences \in missed

Answering == {t \in Thread : pc[t] \in {"create", "score"}}

InUse == ({cache[k] : k \in DOMAIN cache} \cup {call[t].got : t \in Answering}) \ {Nothing}

DefinitionsAreWhole == \A d \in InUse : Whole(d)

(* ADR-0031, ADR-0053: an assessment is scored with the version it was     *)
(* created under and no other, whatever later releases add and whatever    *)
(* other versions the process serves.                                      *)
PinHolds ==
  \A a \in Assessment :
    /\ scored[a] # {} => pinned[a] # Nothing
    /\ pinned[a] # Nothing /\ pinned[a].version # Nothing =>
         \A f \in scored[a] :
           VersionIn[f] = pinned[a].version /\ f \in ToSet(Known[release][pinned[a].name])

=============================================================================
