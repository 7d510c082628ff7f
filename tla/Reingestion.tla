----------------------------- MODULE Reingestion -----------------------------
(***************************************************************************)
(* reingest_documents.py: documents are cut again by the current parser    *)
(* and chunker while the server goes on, and the links that cite one of    *)
(* their chunks are moved to a new one.  The vector store and the database *)
(* are two stores, and the tool may stop between any two writes.           *)
(*                                                                         *)
(* The text a parser makes of a document is a sequence of the places of    *)
(* its source each character came from, and a chunk is a span of it.       *)
(***************************************************************************)
EXTENDS Mapping, FiniteSetsExt, Functions

CONSTANTS
  Parser,   \* the parsers a document may have met, older before newer
  Text,     \* Text[d][v]: what parser v makes of document d
  Cuts,     \* Cuts[d][v]: the ways the chunker may cut it, sets of spans
  NoDoc,    \* no document
  MaxRuns,  \* runs of the tool, a bound
  MaxStops  \* how often the tool is stopped, a bound

ASSUME TextAssumption ==
  /\ Parser \subseteq Nat
  /\ \A d \in Doc, v \in Parser : DOMAIN Text[d][v] = 1..Len(Text[d][v])
  /\ \A d \in Doc, v \in Parser : \A s \in UNION Cuts[d][v] :
       s.from \in Nat /\ s.to \in Nat /\ s.from < s.to /\ s.to <= Len(Text[d][v])

VARIABLES
  step,      \* where the tool is
  listed,    \* the links it read when it started
  left,      \* the documents it has still to look at
  doc,       \* the document it is cutting
  fresh,     \* its new chunks
  remap,     \* the new chunk of each link that has one
  reported,  \* the links it named as unmappable
  unseen,    \* the links whose chunk was deleted and that it did not know
  torn,      \* the documents whose last re-ingestion was stopped half way
  runs, stops

run   == <<listed, left, doc, fresh, remap>>
tally == <<reported, unseen, torn, runs, stops>>
vars  == <<mapping, step, run, tally>>

ChunksOf(d) == {c \in chunks : c.doc = d}

(* The ids of the new chunks are fresh.                                    *)
Chunk(d, v, s, generation) ==
  [doc |-> d, parser |-> v, from |-> s.from, to |-> s.to, generation |-> generation]

Places(c) == {Text[c.doc][c.parser][i] : i \in (c.from + 1)..c.to}

Overlap(a, b) ==
  LET shared == Min({a.to, b.to}) - Max({a.from, b.from})
  IN  IF shared > 0 THEN shared ELSE 0

(* Fault: the first chunk that overlaps.                                   *)
FirstMatch(old, new) ==
  {c \in new : /\ Overlap(old, c) > 0
               /\ \A b \in new : Overlap(old, b) > 0 => c.from <= b.from}

(* The new chunk that overlaps most, the first of them; none if none does. *)
BestMatch(old, new) ==
  {c \in new : /\ Overlap(old, c) > 0
               /\ \A b \in new : \/ Overlap(old, b) < Overlap(old, c)
                                 \/ Overlap(old, b) = Overlap(old, c) /\ c.from <= b.from}

-----------------------------------------------------------------------------
(* The tool.                                                               *)

NotRunning == step = "off"

(* The links are read once; the documents are those that have chunks.      *)
Start ==
  /\ NotRunning /\ runs < MaxRuns
  /\ step' = "next" /\ runs' = runs + 1
  /\ listed' = DOMAIN links
  /\ left' = {c.doc : c \in chunks}
  /\ UNCHANGED <<mapping, doc, fresh, remap, reported, unseen, torn, stops>>

(* Report only; or the original is missing, corrupt, or does not parse.    *)
Skip(d) ==
  /\ step = "next" /\ d \in left
  /\ left' = left \ {d}
  /\ UNCHANGED <<mapping, step, listed, doc, fresh, remap, tally>>

Pinned(d) == {i \in listed : links[i].chunk # NoChunk /\ links[i].chunk.doc = d}

(* Cut the document anew and find the links' new chunks.                   *)
Cut(d) ==
  /\ step = "next" /\ d \in left
  /\ doc' = d /\ left' = left \ {d}
  /\ \E v \in Parser : \E cut \in Cuts[d][v] :
       /\ \A c \in ChunksOf(d) : v >= c.parser
       /\ fresh' = {Chunk(d, v, s, runs) : s \in cut}
  /\ LET mappable == {i \in Pinned(d) : /\ links[i].chunk \in chunks
                                        /\ BestMatch(links[i].chunk, fresh') # {}}
     IN  remap' = [i \in mappable |-> CHOOSE c \in BestMatch(links[i].chunk, fresh') : TRUE]
  /\ step' = "delete"
  /\ UNCHANGED <<mapping, listed, tally>>

Delete ==
  /\ step = "delete"
  /\ chunks' = chunks \ ChunksOf(doc)
  /\ unseen' = unseen \cup {i \in DOMAIN links \ listed : links[i].chunk \in ChunksOf(doc)}
  /\ step' = "add"
  /\ quiet' = [t \in Thread |-> At(t, "idle")]
  /\ UNCHANGED <<links, pc, seen, todo, run, reported, torn, runs, stops>>

Add ==
  /\ step = "add"
  /\ chunks' = chunks \cup fresh
  /\ step' = "commit"
  /\ quiet' = [t \in Thread |-> At(t, "idle")]
  /\ UNCHANGED <<links, pc, seen, todo, run, tally>>

(* Fault: what could not be moved is not named.                            *)
NamedOnlyIfMoved(d) == Pinned(d) \cap DOMAIN remap

(* The links left without a chunk are named.                               *)
Unmappable(d) == Pinned(d) \ DOMAIN remap

(* Only the chunk of a link is written.  The list of those that could not  *)
(* be moved is printed right after: a stop in between is one before it.    *)
Commit ==
  /\ step = "commit"
  /\ links' = [i \in DOMAIN links |->
                 IF i \in DOMAIN remap THEN [links[i] EXCEPT !.chunk = remap[i]] ELSE links[i]]
  /\ reported' = reported \cup Unmappable(doc)
  /\ step' = "next" /\ doc' = NoDoc /\ fresh' = {} /\ remap' = <<>>
  /\ quiet' = [t \in Thread |-> At(t, "idle")]
  /\ torn' = torn \ {doc}
  /\ UNCHANGED <<chunks, pc, seen, todo, listed, left, unseen, runs, stops>>

Finish ==
  /\ step = "next" /\ left = {}
  /\ step' = "off" /\ listed' = {}
  /\ UNCHANGED <<mapping, left, doc, fresh, remap, tally>>

(* A write fails, or the tool is killed.                                   *)
Stop ==
  /\ ~NotRunning /\ stops < MaxStops
  /\ stops' = stops + 1
  /\ torn' = IF step \in {"add", "commit"} THEN torn \cup {doc} ELSE torn
  /\ step' = "off" /\ listed' = {} /\ left' = {} /\ doc' = NoDoc /\ fresh' = {} /\ remap' = <<>>
  /\ UNCHANGED <<mapping, reported, unseen, runs>>

Tool == Start \/ (\E d \in Doc : Skip(d) \/ Cut(d)) \/ Delete \/ Add \/ Commit \/ Finish \/ Stop

(* A request of the server, which knows nothing of the tool: what it       *)
(* stores may cite a chunk that has gone since it looked.                  *)
Serve(t) ==
  /\ Request(t)
  /\ unseen' = unseen \cup {i \in DOMAIN links' \ DOMAIN links :
                              links'[i].chunk \notin chunks \cup {NoChunk}}
  /\ UNCHANGED <<step, run, reported, torn, runs, stops>>

Init ==
  /\ Idle
  /\ \E v \in Parser, cut \in [Doc -> UNION {Cuts[d][w] : d \in Doc, w \in Parser}] :
       /\ \A d \in Doc : cut[d] \in Cuts[d][v]
       /\ chunks = UNION {{Chunk(d, v, s, 0) : s \in cut[d]} : d \in Doc}
  /\ step = "off" /\ listed = {} /\ left = {} /\ doc = NoDoc /\ fresh = {} /\ remap = <<>>
  /\ reported = {} /\ unseen = {} /\ torn = {} /\ runs = 0 /\ stops = 0

Next == (\E t \in Thread : Serve(t)) \/ Tool

Spec == Init /\ [][Next]_vars

-----------------------------------------------------------------------------
(* Properties.                                                             *)

(* reingest_documents.py:264: no citation silently loses its chunk.  One   *)
(* whose chunk is not stored was named by the tool, or was unknown to it,  *)
(* or is of a document whose re-ingestion is going on or was cut short.    *)
NothingLostQuietly ==
  \A i \in DOMAIN links :
    \/ links[i].chunk \in chunks \cup {NoChunk}
    \/ links[i].chunk.doc \in torn \cup {doc}
    \/ i \in reported \cup unseen

Shared(a, b) == Cardinality(Places(a) \cap Places(b))

(* reingest_documents.py:15-24: a citation is moved to the new chunk that  *)
(* covers the same text.  When the text is the one it was cut from before, *)
(* what it cites then has some of what it cited, and if nothing is twice   *)
(* in that text no chunk of the document has more of it.                   *)
Moved(i) == links'[i].chunk # links[i].chunk

CitationFollowsText ==
  [][\A i \in DOMAIN links :
       LET old == links[i].chunk
           now == links'[i].chunk
       IN  Moved(i) /\ now.parser = old.parser =>
             /\ now.doc = old.doc
             /\ Places(old) \cap Places(now) # {}
             /\ \/ \A c \in chunks' : c.doc = old.doc => Shared(old, c) <= Shared(old, now)
                \/ ~IsInjective(Text[old.doc][old.parser])]_vars

=============================================================================
