---------------------------- MODULE Reingestion_proofs ----------------------------
(***************************************************************************)
(* What holds of Reingestion, and of the mapping engine in it, for every   *)
(* value of their constants.                                               *)
(***************************************************************************)
EXTENDS Reingestion, SequenceTheorems, FiniteSetTheorems, WellFoundedInduction, TLAPS

-----------------------------------------------------------------------------
(* Types.                                                                  *)

ChunkRow ==
  {c \in [doc: Doc, parser: Parser, from: Nat, to: Nat, generation: Nat] :
     c.from < c.to /\ c.to <= Len(Text[c.doc][c.parser])}

LinkRow ==
  [practice: Practice, chunk: ChunkRow \cup {NoChunk}, review: Live \cup {"rejected"}]

(* What the server and the tool keep: rows, and proposals of rows.         *)
RowsOK ==
  /\ chunks \subseteq ChunkRow
  /\ links \in Seq(LinkRow)
  /\ todo \in [Thread -> SUBSET LinkRow]
  /\ fresh \subseteq ChunkRow
  /\ runs \in Nat
  /\ \A i \in DOMAIN remap : remap[i] \in fresh

(* The row an evidence link begins as.                                     *)
LEMMA ProposalType ==
  ASSUME NEW p \in Practice, NEW c \in ChunkRow \cup {NoChunk}
  PROVE  /\ Proposal(p, c) \in LinkRow
         /\ [Proposal(p, c) EXCEPT !.review = "accepted"] \in LinkRow
  BY DEF Proposal, LinkRow, Live

LEMMA ProposalsType ==
  ASSUME NEW known, NEW stored \in SUBSET ChunkRow
  PROVE  Proposals(known, stored) \subseteq LinkRow
<1>1. ASSUME NEW c \in stored, NEW p \in Kept(c, known, stored)
      PROVE  Proposal(p, c) \in LinkRow
  <2>1. p \in Practice
    BY DEF Kept, Contenders
  <2>q. QED BY <2>1, ProposalType
<1>q. QED BY <1>1 DEF Proposals

LEMMA ChunkType ==
  ASSUME NEW d \in Doc, NEW v \in Parser, NEW cut \in Cuts[d][v], NEW s \in cut,
         NEW g \in Nat
  PROVE  Chunk(d, v, s, g) \in ChunkRow
  BY TextAssumption DEF Chunk, ChunkRow

LEMMA MatchIsNew ==
  ASSUME NEW old, NEW new, BestMatch(old, new) # {}
  PROVE  (CHOOSE c \in BestMatch(old, new) : TRUE) \in new
<1>1. (CHOOSE c \in BestMatch(old, new) : TRUE) \in BestMatch(old, new)
  OBVIOUS
<1>q. QED BY <1>1 DEF BestMatch

LEMMA InitRows == Init => RowsOK
<1> SUFFICES ASSUME Init PROVE RowsOK
  OBVIOUS
<1>1. chunks \subseteq ChunkRow
  BY ChunkType DEF Init
<1>2. links \in Seq(LinkRow)
  BY EmptySeq DEF Init, Idle
<1>q. QED BY <1>1, <1>2 DEF Init, Idle, RowsOK

(* What a request of the server may do to the links: store one, or decide  *)
(* on some, which leaves the passages they cite.                           *)
LEMMA RequestRows ==
  ASSUME RowsOK, NEW t \in Thread, Request(t)
  PROVE  /\ links' \in Seq(LinkRow) /\ todo' \in [Thread -> SUBSET LinkRow]
         /\ chunks' = chunks
         /\ DOMAIN links \subseteq DOMAIN links'
         /\ \A i \in DOMAIN links : links'[i].chunk = links[i].chunk
<1> USE DEF RowsOK
<1>1. ASSUME NEW x \in LinkRow, links' = Append(links, x)
      PROVE  /\ links' \in Seq(LinkRow)
             /\ DOMAIN links \subseteq DOMAIN links'
             /\ \A i \in DOMAIN links : links'[i].chunk = links[i].chunk
  BY <1>1, AppendProperties, LenProperties
<1>2. CASE ReadLinks(t) \/ EndRun(t) \/ Return(t)
  BY <1>2 DEF ReadLinks, EndRun, Return
<1>3. CASE Search(t)
  <2>1. Proposals(seen[t], chunks) \subseteq LinkRow
    BY ProposalsType
  <2>q. QED BY <1>3, <2>1 DEF Search
<1>4. CASE StoreProposal(t)
  <2>1. PICK x \in todo[t] : links' = Append(links, x) /\ todo' = [todo EXCEPT ![t] = @ \ {x}]
    BY <1>4 DEF StoreProposal
  <2>2. x \in LinkRow /\ todo' \in [Thread -> SUBSET LinkRow]
    BY <2>1
  <2>q. QED BY <1>1, <1>4, <2>1, <2>2 DEF StoreProposal
<1>5. CASE CheckLink(t)
  <2>1. PICK p \in Practice, c \in chunks \cup {NoChunk} :
          todo' = [todo EXCEPT ![t] = {[Proposal(p, c) EXCEPT !.review = "accepted"]}]
    BY <1>5 DEF CheckLink
  <2>2. [Proposal(p, c) EXCEPT !.review = "accepted"] \in LinkRow
    BY ProposalType
  <2>q. QED BY <1>5, <2>1, <2>2 DEF CheckLink
<1>6. CASE StoreLink(t)
  <2>1. PICK x \in todo[t] : links' = Append(links, x)
    BY <1>6 DEF StoreLink
  <2>2. x \in LinkRow /\ todo' \in [Thread -> SUBSET LinkRow]
    BY <1>6 DEF StoreLink
  <2>q. QED BY <1>1, <1>6, <2>1, <2>2 DEF StoreLink
<1>7. CASE Review(t)
  <2>1. PICK i \in DOMAIN links :
          \/ links' = [links EXCEPT ![i].review = "rejected"]
          \/ links' = [links EXCEPT ![i].review = "accepted"]
          \/ \E p \in Practice : links' = [links EXCEPT ![i].review = "edited", ![i].practice = p]
    BY <1>7 DEF Review
  <2>2. \A j \in DOMAIN links : links[j] \in LinkRow
    BY ElementOfSeq, LenProperties
  <2>3. DOMAIN links' = DOMAIN links
    BY <2>1
  <2>4. ASSUME NEW j \in DOMAIN links
        PROVE  links'[j] \in LinkRow /\ links'[j].chunk = links[j].chunk
    <3>1. links[j] \in LinkRow
      BY <2>2
    <3>2. \/ links'[j] = links[j]
          \/ \E r \in {"rejected", "accepted"} : links'[j] = [links[j] EXCEPT !.review = r]
          \/ \E p \in Practice :
               links'[j] = [links[j] EXCEPT !.review = "edited", !.practice = p]
      BY <2>1
    <3>q. QED BY <3>1, <3>2 DEF LinkRow, Live
  <2>5. links' \in Seq(LinkRow)
    <3>1. /\ Len(links) \in Nat /\ DOMAIN links = 1..Len(links)
          /\ links' \in [1..Len(links) -> LinkRow]
      BY <2>1, <2>3, <2>4, LenProperties
    <3>q. QED BY <3>1, SeqDef
  <2>q. QED BY <1>7, <2>3, <2>4, <2>5 DEF Review
<1>q. QED BY <1>2, <1>3, <1>4, <1>5, <1>6, <1>7 DEF Request

(* A request leaves everything of the tool alone.                          *)
LEMMA RowsStep ==
  ASSUME RowsOK, [Next]_vars
  PROVE  RowsOK'
<1> USE DEF RowsOK
<1>1. ASSUME NEW t \in Thread, Serve(t) PROVE RowsOK'
  BY <1>1, RequestRows DEF Serve, run
<1>2. CASE Start \/ Finish \/ Stop \/ UNCHANGED vars
  BY <1>2 DEF Start, Finish, Stop, vars, mapping, calls, run, tally
<1>3. ASSUME NEW d \in Doc, Skip(d) PROVE RowsOK'
  BY <1>3 DEF Skip, mapping, calls, tally
<1>4. ASSUME NEW d \in Doc, Cut(d) PROVE RowsOK'
  <2>1. fresh' \subseteq ChunkRow
    <3>1. PICK v \in Parser :
            \E cut \in Cuts[d][v] : fresh' = {Chunk(d, v, s, runs) : s \in cut}
      BY <1>4 DEF Cut
    <3>2. PICK cut \in Cuts[d][v] : fresh' = {Chunk(d, v, s, runs) : s \in cut}
      BY <3>1
    <3>q. QED BY <3>2, ChunkType
  <2>2. \A i \in DOMAIN remap' : remap'[i] \in fresh'
    BY <1>4, MatchIsNew DEF Cut
  <2>q. QED BY <1>4, <2>1, <2>2 DEF Cut, mapping, calls, tally
<1>5. CASE Delete \/ Add
  BY <1>5 DEF Delete, Add, run, tally
<1>6. CASE Commit
  <2>1. links' \in Seq(LinkRow)
    <3>1. \A i \in DOMAIN links : links[i] \in LinkRow
      BY ElementOfSeq, LenProperties
    <3>2. DOMAIN links' = DOMAIN links
      BY <1>6 DEF Commit
    <3>3. ASSUME NEW i \in DOMAIN links PROVE links'[i] \in LinkRow
      <4>1. links'[i] = links[i] \/ \E c \in fresh : links'[i] = [links[i] EXCEPT !.chunk = c]
        BY <1>6 DEF Commit
      <4>q. QED BY <3>1, <4>1 DEF LinkRow
    <3>4. /\ Len(links) \in Nat /\ DOMAIN links = 1..Len(links)
          /\ links' \in [1..Len(links) -> LinkRow]
      BY <1>6, <3>2, <3>3, LenProperties DEF Commit
    <3>q. QED BY <3>4, SeqDef
  <2>q. QED BY <1>6, <2>1 DEF Commit
<1>q. QED BY <1>1, <1>2, <1>3, <1>4, <1>5, <1>6 DEF Next, Tool

LEMMA RowsCorrect == Spec => []RowsOK
  BY InitRows, RowsStep, PTL DEF Spec

-----------------------------------------------------------------------------
(* No citation loses its chunk unnoticed.                                  *)

HasChunk(i) == links[i].chunk \in chunks \cup {NoChunk}

(* The document whose chunks are deleted while its links are not yet       *)
(* moved.                                                                  *)
UnderWay == IF step \in {"add", "commit"} THEN {doc} ELSE {}

Accounted(i) ==
  HasChunk(i) \/ links[i].chunk.doc \in torn \cup UnderWay \/ i \in reported \cup unseen

(* A link that a run did not list is not named by it: it has its chunk, or *)
(* it is noted when it loses it.                                           *)
CitationInv ==
  /\ \A i \in DOMAIN links : Accounted(i)
  /\ step # "off" => \A i \in DOMAIN links \ listed : HasChunk(i) \/ i \in unseen
  /\ step \in {"delete", "add", "commit"} => DOMAIN remap \subseteq listed
  /\ step = "commit" => fresh \subseteq chunks

LEMMA InitCitation == Init => CitationInv
  BY DEF Init, Idle, CitationInv

(* A request cites chunks it may have read before they went.               *)
LEMMA ServeCitation ==
  ASSUME RowsOK, CitationInv, NEW t \in Thread, Serve(t)
  PROVE  CitationInv'
<1>1. /\ chunks' = chunks /\ DOMAIN links \subseteq DOMAIN links'
      /\ \A i \in DOMAIN links : links'[i].chunk = links[i].chunk
  BY RequestRows DEF Serve
<1>2. /\ UNCHANGED <<step, listed, doc, fresh, remap, reported, torn>>
      /\ unseen' = unseen \cup {i \in DOMAIN links' \ DOMAIN links :
                                  links'[i].chunk \notin chunks \cup {NoChunk}}
  BY DEF Serve, run
<1>3. ASSUME NEW i \in DOMAIN links' \ DOMAIN links
      PROVE  HasChunk(i)' \/ i \in unseen'
  BY <1>1, <1>2 DEF HasChunk
<1>4. ASSUME NEW i \in DOMAIN links
      PROVE  HasChunk(i)' = HasChunk(i) /\ (Accounted(i) => Accounted(i)')
  BY <1>1, <1>2 DEF HasChunk, Accounted, UnderWay
<1>5. \A i \in DOMAIN links' : Accounted(i)'
  BY <1>3, <1>4 DEF CitationInv, Accounted
<1>6. step' # "off" => \A i \in DOMAIN links' \ listed' : HasChunk(i)' \/ i \in unseen'
  BY <1>2, <1>3, <1>4 DEF CitationInv
<1>q. QED BY <1>1, <1>2, <1>5, <1>6 DEF CitationInv

(* The tool deletes, adds and moves in this order.                         *)
LEMMA DeleteCitation ==
  ASSUME RowsOK, CitationInv, Delete
  PROVE  CitationInv'
<1>1. /\ chunks' = chunks \ ChunksOf(doc)
      /\ unseen' = unseen \cup {i \in DOMAIN links \ listed : links[i].chunk \in ChunksOf(doc)}
      /\ step = "delete" /\ step' = "add"
      /\ UNCHANGED <<links, listed, doc, fresh, remap, reported, torn>>
  BY DEF Delete, run
<1>2. ASSUME NEW i \in DOMAIN links, HasChunk(i), ~HasChunk(i)'
      PROVE  links[i].chunk \in ChunksOf(doc) /\ links[i].chunk.doc = doc
  BY <1>1, <1>2 DEF HasChunk, ChunksOf
<1>3. ASSUME NEW i \in DOMAIN links PROVE Accounted(i)'
  BY <1>1, <1>2 DEF CitationInv, Accounted, UnderWay
<1>4. ASSUME NEW i \in DOMAIN links \ listed PROVE HasChunk(i)' \/ i \in unseen'
  BY <1>1, <1>2 DEF CitationInv
<1>q. QED BY <1>1, <1>3, <1>4 DEF CitationInv

LEMMA AddCitation ==
  ASSUME RowsOK, CitationInv, Add
  PROVE  CitationInv'
<1>1. /\ chunks' = chunks \cup fresh /\ step = "add" /\ step' = "commit"
      /\ UNCHANGED <<links, listed, doc, fresh, remap, reported, unseen, torn>>
  BY DEF Add, run, tally
<1>2. ASSUME NEW i \in DOMAIN links
      PROVE  (HasChunk(i) => HasChunk(i)') /\ (Accounted(i) => Accounted(i)')
  BY <1>1 DEF HasChunk, Accounted, UnderWay
<1>q. QED BY <1>1, <1>2 DEF CitationInv

LEMMA CommitCitation ==
  ASSUME RowsOK, CitationInv, Commit
  PROVE  CitationInv'
<1>1. /\ reported' = reported \cup Unmappable(doc) /\ torn' = torn \ {doc}
      /\ step = "commit" /\ step' = "next"
      /\ UNCHANGED <<chunks, listed, unseen>> /\ DOMAIN links' = DOMAIN links
  BY DEF Commit
<1>2. ASSUME NEW i \in DOMAIN links, i \in DOMAIN remap
      PROVE  HasChunk(i)'
  <2>1. remap[i] \in chunks
    BY <1>1, <1>2 DEF RowsOK, CitationInv
  <2>2. links[i] \in LinkRow
    BY ElementOfSeq, LenProperties DEF RowsOK
  <2>3. links'[i] = [links[i] EXCEPT !.chunk = remap[i]]
    BY <1>2 DEF Commit
  <2>4. links'[i].chunk = remap[i]
    BY <2>2, <2>3 DEF LinkRow
  <2>q. QED BY <1>1, <2>1, <2>4 DEF HasChunk
<1>3. ASSUME NEW i \in DOMAIN links, i \notin DOMAIN remap
      PROVE  links'[i] = links[i] /\ HasChunk(i)' = HasChunk(i)
  <2>1. links'[i] = links[i]
    BY <1>3 DEF Commit
  <2>q. QED BY <1>1, <2>1 DEF HasChunk
<1>4. ASSUME NEW i \in DOMAIN links PROVE Accounted(i)'
  <2>1. CASE i \in DOMAIN remap \/ HasChunk(i)
    BY <1>2, <1>3, <2>1 DEF Accounted
  <2>2. CASE i \notin DOMAIN remap /\ ~HasChunk(i) /\ i \notin listed
    BY <1>1, <2>2 DEF CitationInv, Accounted
  <2>3. CASE i \notin DOMAIN remap /\ ~HasChunk(i) /\ i \in listed
    <3>1. links[i].chunk.doc = doc => i \in reported'
      BY <1>1, <2>3 DEF Unmappable, Pinned, HasChunk
    <3>q. QED BY <1>1, <1>3, <2>3, <3>1 DEF CitationInv, Accounted, UnderWay
  <2>q. QED BY <2>1, <2>2, <2>3
<1>5. ASSUME NEW i \in DOMAIN links \ listed PROVE HasChunk(i)' \/ i \in unseen'
  BY <1>1, <1>2, <1>3 DEF CitationInv
<1>q. QED BY <1>1, <1>4, <1>5 DEF CitationInv

LEMMA CitationStep ==
  ASSUME RowsOK, CitationInv, [Next]_vars
  PROVE  CitationInv'
<1>1. CASE UNCHANGED vars
  BY <1>1 DEF vars, mapping, calls, run, tally, CitationInv, Accounted, HasChunk, UnderWay
<1>2. CASE Start
  BY <1>2 DEF Start, NotRunning, mapping, calls, CitationInv, Accounted, HasChunk, UnderWay
<1>3. ASSUME NEW d \in Doc, Skip(d) PROVE CitationInv'
  BY <1>3 DEF Skip, mapping, calls, tally, CitationInv, Accounted, HasChunk, UnderWay
<1>4. ASSUME NEW d \in Doc, Cut(d) PROVE CitationInv'
  <2>1. /\ step = "next" /\ step' = "delete"
        /\ UNCHANGED <<links, chunks, listed, reported, unseen, torn>>
    BY <1>4 DEF Cut, mapping, calls, tally
  <2>2. DOMAIN remap' \subseteq listed
    BY <1>4 DEF Cut, Pinned
  <2>q. QED BY <2>1, <2>2 DEF CitationInv, Accounted, HasChunk, UnderWay
<1>5. CASE Finish
  BY <1>5 DEF Finish, mapping, calls, tally, CitationInv, Accounted, HasChunk, UnderWay
<1>6. CASE Stop
  BY <1>6 DEF Stop, NotRunning, mapping, calls, CitationInv, Accounted, HasChunk, UnderWay
<1>q. QED
  BY <1>1, <1>2, <1>3, <1>4, <1>5, <1>6, ServeCitation, DeleteCitation, AddCitation,
     CommitCitation
  DEF Next, Tool

(* reingest_documents.py:264, for any number of documents, cuttings, runs, *)
(* stops and requests: no citation silently loses its chunk.               *)
THEOREM NothingLostQuietlyTheorem == Spec => []NothingLostQuietly
<1>1. Init => RowsOK /\ CitationInv
  BY InitRows, InitCitation
<1>2. RowsOK /\ CitationInv /\ [Next]_vars => RowsOK' /\ CitationInv'
  BY RowsStep, CitationStep
<1>3. CitationInv => NothingLostQuietly
  BY DEF CitationInv, Accounted, HasChunk, UnderWay, NothingLostQuietly
<1>q. QED BY <1>1, <1>2, <1>3, PTL DEF Spec

-----------------------------------------------------------------------------
(* Where a citation is moved to.                                           *)

LEMMA MinOfTwo ==
  ASSUME NEW x \in Int, NEW y \in Int
  PROVE  Min({x, y}) = IF x <= y THEN x ELSE y
<1>1. ASSUME NEW m \in {x, y}, \A k \in {x, y} : m <= k
      PROVE  Min({x, y}) = m
  <2>1. Min({x, y}) \in {x, y} /\ \A k \in {x, y} : Min({x, y}) <= k
    BY <1>1, Zenon DEF Min
  <2>q. QED BY <1>1, <2>1
<1>q. QED BY <1>1

LEMMA MaxOfTwo ==
  ASSUME NEW x \in Int, NEW y \in Int
  PROVE  Max({x, y}) = IF x <= y THEN y ELSE x
<1>1. ASSUME NEW m \in {x, y}, \A k \in {x, y} : m >= k
      PROVE  Max({x, y}) = m
  <2>1. Max({x, y}) \in {x, y} /\ \A k \in {x, y} : Max({x, y}) >= k
    BY <1>1, Zenon DEF Max
  <2>q. QED BY <1>1, <2>1
<1>q. QED BY <1>1

(* The places that two chunks cut from one text have in common.            *)
Common(a, b) ==
  (IF a.from <= b.from THEN b.from ELSE a.from) + 1 .. (IF a.to <= b.to THEN a.to ELSE b.to)

LEMMA OverlapIsCommon ==
  ASSUME NEW a \in ChunkRow, NEW b \in ChunkRow
  PROVE  Overlap(a, b) \in Nat /\ Overlap(a, b) = Cardinality(Common(a, b))
<1>1. a.from \in Int /\ a.to \in Int /\ b.from \in Int /\ b.to \in Int
  BY DEF ChunkRow
<1> DEFINE low  == IF a.from <= b.from THEN b.from ELSE a.from
           high == IF a.to <= b.to THEN a.to ELSE b.to
<1>2. Max({a.from, b.from}) = low /\ Min({a.to, b.to}) = high
  BY <1>1, MaxOfTwo, MinOfTwo
<1>3. low \in Int /\ high \in Int
  BY <1>1
<1>4. Overlap(a, b) = IF high - low > 0 THEN high - low ELSE 0
  BY <1>2, Zenon DEF Overlap
<1>5. Common(a, b) = (low + 1)..high
  BY Zenon DEF Common
<1> HIDE DEF low, high
<1>6. Cardinality((low + 1)..high) = IF low + 1 > high THEN 0 ELSE high - (low + 1) + 1
  BY <1>3, FS_Interval
<1>q. QED BY <1>3, <1>4, <1>5, <1>6

(* What two chunks of one text share.                                      *)
LEMMA SharedPlaces ==
  ASSUME NEW a \in ChunkRow, NEW b \in ChunkRow, a.doc = b.doc, a.parser = b.parser
  PROVE  /\ Overlap(a, b) > 0 => Places(a) \cap Places(b) # {}
         /\ IsInjective(Text[a.doc][a.parser]) => Shared(a, b) = Overlap(a, b)
<1> DEFINE text == Text[a.doc][a.parser]
           common == Common(a, b)
<1>1. /\ a.doc \in Doc /\ a.parser \in Parser
      /\ a.from \in Nat /\ a.to \in Nat /\ b.from \in Nat /\ b.to \in Nat
      /\ a.to <= Len(text) /\ b.to <= Len(text)
  BY DEF ChunkRow
<1>2. DOMAIN text = 1..Len(text)
  BY <1>1, TextAssumption
<1>3. /\ \A i \in common : i \in (a.from + 1)..a.to /\ i \in (b.from + 1)..b.to
      /\ \A i : i \in (a.from + 1)..a.to /\ i \in (b.from + 1)..b.to => i \in common
  BY <1>1 DEF Common
<1>4. Places(a) = {text[i] : i \in (a.from + 1)..a.to} /\ Places(b) = {text[i] : i \in (b.from + 1)..b.to}
  BY DEF Places
<1>5. ASSUME Overlap(a, b) > 0 PROVE Places(a) \cap Places(b) # {}
  <2>1. PICK i : i \in common
    <3>1. Cardinality(common) # 0
      BY <1>5, OverlapIsCommon
    <3>q. QED BY <3>1, FS_EmptySet
  <2>2. text[i] \in Places(a) /\ text[i] \in Places(b)
    BY <1>3, <1>4, <2>1
  <2>q. QED BY <2>2
<1>6. ASSUME IsInjective(text) PROVE Shared(a, b) = Overlap(a, b)
  <2> DEFINE f == [i \in common |-> text[i]]
             T == Places(a) \cap Places(b)
  <2>1. \A i \in (a.from + 1)..a.to : i \in DOMAIN text
    BY <1>1, <1>2
  <2>2. \A i \in (b.from + 1)..b.to : i \in DOMAIN text
    BY <1>1, <1>2
  <2>3. \A i, j \in DOMAIN text : text[i] = text[j] => i = j
    BY <1>6 DEF IsInjective
  <2>4. ASSUME NEW x \in T PROVE \E i \in common : f[i] = x
    <3>1. PICK i \in (a.from + 1)..a.to : x = text[i]
      BY <1>4
    <3>2. PICK j \in (b.from + 1)..b.to : x = text[j]
      BY <1>4
    <3>3. i = j
      BY <2>1, <2>2, <2>3, <3>1, <3>2
    <3>q. QED BY <1>3, <3>1, <3>3
  <2>5. \A i \in common : f[i] \in T
    BY <1>3, <1>4
  <2>6. \A i, j \in common : f[i] = f[j] => i = j
    BY <1>3, <2>1, <2>3
  <2>7. f \in Bijection(common, T)
    <3>1. f \in [common -> T]
      BY <2>5
    <3> HIDE DEF f, T, common
    <3>q. QED BY <2>4, <2>6, <3>1 DEF Bijection, Injection, Surjection, IsInjective
  <2>8. ExistsBijection(common, T)
    <3> HIDE DEF f, T, common
    <3>q. QED BY <2>7 DEF ExistsBijection
  <2>9. IsFiniteSet(common)
    <3> DEFINE low  == (IF a.from <= b.from THEN b.from ELSE a.from) + 1
               high == IF a.to <= b.to THEN a.to ELSE b.to
    <3>1. low \in Int /\ high \in Int /\ common = low..high
      BY <1>1 DEF Common
    <3> HIDE DEF low, high, common
    <3>q. QED BY <3>1, FS_Interval
  <2>10. Cardinality(T) = Cardinality(common)
    <3> HIDE DEF T, common
    <3>q. QED BY <2>8, <2>9, FS_Bijection
  <2>q. QED BY <2>10, OverlapIsCommon DEF Shared
<1>q. QED BY <1>5, <1>6

(* Of a document under way: its chunks in the store are the old ones, then *)
(* none, then the new; and each link that has a new chunk cites a chunk of *)
(* the document and is to be moved to the one that overlaps it most.       *)
MoveInv ==
  /\ listed \subseteq DOMAIN links
  /\ step \in {"delete", "add", "commit"} =>
       /\ \E v \in Parser : \A c \in fresh : c.doc = doc /\ c.parser = v
       /\ DOMAIN remap \subseteq DOMAIN links
       /\ \A i \in DOMAIN remap :
            /\ links[i].chunk # NoChunk /\ links[i].chunk.doc = doc
            /\ remap[i] \in BestMatch(links[i].chunk, fresh)
  /\ step = "add" => ChunksOf(doc) = {}
  /\ step = "commit" => ChunksOf(doc) = fresh

LEMMA InitMove == Init => MoveInv
  BY DEF Init, MoveInv

LEMMA CutMove ==
  ASSUME MoveInv, NEW d \in Doc, Cut(d)
  PROVE  MoveInv'
<1>1. PICK v \in Parser : \E cut \in Cuts[d][v] : fresh' = {Chunk(d, v, s, runs) : s \in cut}
  BY DEF Cut
<1>2. \A c \in fresh' : c.doc = doc' /\ c.parser = v
  BY <1>1 DEF Cut, Chunk
<1>3. ASSUME NEW i \in DOMAIN remap'
      PROVE  /\ i \in DOMAIN links /\ links[i].chunk # NoChunk /\ links[i].chunk.doc = d
             /\ remap'[i] \in BestMatch(links[i].chunk, fresh')
  <2>1. /\ i \in Pinned(d) /\ BestMatch(links[i].chunk, fresh') # {}
        /\ remap'[i] = CHOOSE c \in BestMatch(links[i].chunk, fresh') : TRUE
    BY DEF Cut
  <2>q. QED BY <2>1 DEF Pinned, MoveInv
<1>4. step' = "delete" /\ doc' = d /\ UNCHANGED <<links, listed>>
  BY DEF Cut, mapping
<1>q. QED BY <1>2, <1>3, <1>4 DEF MoveInv

LEMMA MoveStep ==
  ASSUME RowsOK, MoveInv, [Next]_vars
  PROVE  MoveInv'
<1>1. ASSUME NEW t \in Thread, Serve(t) PROVE MoveInv'
  <2>1. /\ chunks' = chunks /\ DOMAIN links \subseteq DOMAIN links'
        /\ \A i \in DOMAIN links : links'[i].chunk = links[i].chunk
    BY <1>1, RequestRows DEF Serve
  <2>2. UNCHANGED <<step, listed, doc, fresh, remap>>
    BY <1>1 DEF Serve, run
  <2>3. \A i \in DOMAIN remap : DOMAIN remap \subseteq DOMAIN links =>
          links'[i].chunk = links[i].chunk
    BY <2>1
  <2>q. QED BY <2>1, <2>2, <2>3 DEF MoveInv, ChunksOf
<1>2. CASE Start \/ Finish \/ Stop
  BY <1>2 DEF Start, Finish, Stop, NotRunning, mapping, MoveInv
<1>3. ASSUME NEW d \in Doc, Skip(d) PROVE MoveInv'
  BY <1>3 DEF Skip, mapping, MoveInv
<1>4. ASSUME NEW d \in Doc, Cut(d) PROVE MoveInv'
  BY <1>4, CutMove
<1>5. CASE Delete
  <2>1. /\ step = "delete" /\ step' = "add" /\ chunks' = chunks \ ChunksOf(doc)
        /\ UNCHANGED <<links, listed, doc, fresh, remap>>
    BY <1>5 DEF Delete, run
  <2>2. ChunksOf(doc)' = {}
    BY <2>1 DEF ChunksOf
  <2>q. QED BY <2>1, <2>2 DEF MoveInv
<1>6. CASE Add
  <2>1. /\ step = "add" /\ step' = "commit" /\ chunks' = chunks \cup fresh
        /\ UNCHANGED <<links, listed, doc, fresh, remap>>
    BY <1>6 DEF Add, run, tally
  <2>2. ChunksOf(doc)' = fresh
    BY <2>1 DEF ChunksOf, MoveInv
  <2>q. QED BY <2>1, <2>2 DEF MoveInv
<1>7. CASE Commit
  BY <1>7 DEF Commit, MoveInv
<1>8. CASE UNCHANGED vars
  BY <1>8 DEF vars, mapping, run, MoveInv, ChunksOf
<1>q. QED
  BY <1>1, <1>2, <1>3, <1>4, <1>5, <1>6, <1>7, <1>8 DEF Next, Tool

(* Only the commit of a document moves links, each to its best match.      *)
LEMMA MovedByCommit ==
  ASSUME RowsOK, MoveInv, [Next]_vars, NEW i \in DOMAIN links, Moved(i)
  PROVE  /\ step = "commit" /\ i \in DOMAIN remap
         /\ links'[i].chunk = remap[i] /\ chunks' = chunks
<1>1. ~ UNCHANGED links
  BY DEF Moved
<1>2. \A t \in Thread : ~ Serve(t)
  BY RequestRows DEF Serve, Moved
<1>3. Commit
  BY <1>1, <1>2 DEF Next, Tool, Start, Skip, Cut, Delete, Add, Finish, Stop, vars, mapping
<1>4. links'[i] = IF i \in DOMAIN remap THEN [links[i] EXCEPT !.chunk = remap[i]] ELSE links[i]
  BY <1>3 DEF Commit
<1>5. i \in DOMAIN remap
  BY <1>4 DEF Moved
<1>6. links[i] \in LinkRow
  BY ElementOfSeq, LenProperties DEF RowsOK
<1>7. links'[i].chunk = remap[i]
  BY <1>4, <1>5, <1>6 DEF LinkRow
<1>q. QED BY <1>3, <1>5, <1>7 DEF Commit

(* A citation that is moved follows its text.                              *)
LEMMA MovedWithText ==
  ASSUME RowsOK, MoveInv, [Next]_vars, NEW i \in DOMAIN links, Moved(i),
         links'[i].chunk.parser = links[i].chunk.parser
  PROVE  LET old == links[i].chunk
             now == links'[i].chunk
         IN  /\ now.doc = old.doc
             /\ Places(old) \cap Places(now) # {}
             /\ \/ \A c \in chunks' : c.doc = old.doc => Shared(old, c) <= Shared(old, now)
                \/ ~IsInjective(Text[old.doc][old.parser])
<1> DEFINE old == links[i].chunk
           now == links'[i].chunk
<1>1. step = "commit" /\ i \in DOMAIN remap /\ now = remap[i] /\ chunks' = chunks
  BY MovedByCommit
<1>2. /\ old # NoChunk /\ old.doc = doc
      /\ now \in BestMatch(old, fresh)
      /\ ChunksOf(doc) = fresh
      /\ \E v \in Parser : \A c \in fresh : c.doc = doc /\ c.parser = v
  BY <1>1 DEF MoveInv
<1>3. /\ now \in fresh /\ Overlap(old, now) > 0
      /\ \A b \in fresh : \/ Overlap(old, b) < Overlap(old, now)
                          \/ Overlap(old, b) = Overlap(old, now)
  BY <1>2 DEF BestMatch
<1>4. links[i] \in LinkRow
  BY ElementOfSeq, LenProperties DEF RowsOK
<1>5. old \in ChunkRow /\ fresh \subseteq ChunkRow
  BY <1>2, <1>4 DEF LinkRow, RowsOK
<1>6. \A c \in fresh : c.doc = old.doc /\ c.parser = old.parser
  BY <1>2, <1>3
<1>7. \A c \in chunks' : c.doc = old.doc => c \in fresh
  BY <1>1, <1>2 DEF ChunksOf
<1> HIDE DEF old, now
<1>8. Places(old) \cap Places(now) # {}
  BY <1>3, <1>5, <1>6, SharedPlaces
<1>9. ASSUME IsInjective(Text[old.doc][old.parser]), NEW c \in fresh
      PROVE  Shared(old, c) <= Shared(old, now)
  <2>1. Shared(old, c) = Overlap(old, c) /\ Shared(old, now) = Overlap(old, now)
    BY <1>3, <1>5, <1>6, <1>9, SharedPlaces
  <2>2. Overlap(old, c) \in Nat /\ Overlap(old, now) \in Nat
    BY <1>3, <1>5, OverlapIsCommon
  <2>q. QED BY <1>3, <2>1, <2>2
<1>q. QED BY <1>3, <1>6, <1>7, <1>8, <1>9 DEF old, now

(* reingest_documents.py:15-24, for any texts and any way of cutting them, *)
(* whatever the server does meanwhile and wherever the tool stopped before:*)
(* moved within a text, a citation goes to the chunk with most of what it   *)
(* cited.                                                                  *)
THEOREM CitationFollowsTextTheorem == Spec => CitationFollowsText
<1>1. Init => RowsOK /\ MoveInv
  BY InitRows, InitMove
<1>2. RowsOK /\ MoveInv /\ [Next]_vars => RowsOK' /\ MoveInv'
  BY RowsStep, MoveStep
<1>3. RowsOK /\ MoveInv /\ [Next]_vars =>
        [\A i \in DOMAIN links :
           LET old == links[i].chunk
               now == links'[i].chunk
           IN  Moved(i) /\ now.parser = old.parser =>
                 /\ now.doc = old.doc
                 /\ Places(old) \cap Places(now) # {}
                 /\ \/ \A c \in chunks' : c.doc = old.doc => Shared(old, c) <= Shared(old, now)
                    \/ ~IsInjective(Text[old.doc][old.parser])]_vars
  BY MovedWithText
<1>q. QED BY <1>1, <1>2, <1>3, PTL DEF Spec, CitationFollowsText

-----------------------------------------------------------------------------
(* The least of some numbers.                                              *)
LEMMA LeastNat ==
  ASSUME NEW S \in SUBSET Nat, S # {}
  PROVE  \E n \in S : \A m \in S : n <= m
<1> DEFINE R == OpToRel(<, Nat)
<1>1. IsWellFoundedOn(R, Nat)
  BY NatLessThanWellFounded
<1>2. ASSUME NEW m \in Nat, NEW n \in Nat, m < n PROVE <<m, n>> \in R
  BY <1>2 DEF OpToRel
<1> HIDE DEF R
<1>3. PICK n \in S : \A m \in S : ~ (<<m, n>> \in R)
  BY <1>1, WFMin
<1>4. ASSUME NEW m \in S PROVE n <= m
  <2>1. ~(m < n)
    BY <1>2, <1>3, Zenon
  <2>q. QED BY <2>1
<1>q. QED BY <1>4


-----------------------------------------------------------------------------
(* The contenders for a passage, in their order.                           *)

(* How near a chunk is to a practice is a number.                          *)
ConfidenceIsNumber == \A p \in Practice, c \in ChunkRow : Confidence(p, c) \in Int

LEMMA StrongerIsOrder ==
  ASSUME ConfidenceIsNumber, NEW c \in ChunkRow,
         NEW p \in Practice, NEW q \in Practice, NEW r \in Practice
  PROVE  /\ ~ Stronger(p, p, c)
         /\ p # q => Stronger(p, q, c) \/ Stronger(q, p, c)
         /\ Stronger(p, q, c) /\ Stronger(q, r, c) => Stronger(p, r, c)
<1>1. /\ p \in Nat /\ q \in Nat /\ r \in Nat
      /\ Confidence(p, c) \in Int /\ Confidence(q, c) \in Int /\ Confidence(r, c) \in Int
  BY EngineAssumption DEF ConfidenceIsNumber
<1>q. QED BY <1>1 DEF Stronger

StrongerThan(p, some, c) == {q \in some : Stronger(q, p, c)}

Rank(p, some, c) == Cardinality(StrongerThan(p, some, c))

LEMMA RankIsInjective ==
  ASSUME ConfidenceIsNumber, NEW c \in ChunkRow, NEW some \in SUBSET Practice,
         NEW p \in some, NEW q \in some
  PROVE  /\ Rank(p, some, c) \in Nat
         /\ Stronger(p, q, c) => Rank(p, some, c) < Rank(q, some, c)
         /\ Rank(p, some, c) = Rank(q, some, c) => p = q
<1>1. IsFiniteSet(some)
  BY EngineAssumption, FS_Subset
<1>2. ASSUME NEW x \in some
      PROVE  IsFiniteSet(StrongerThan(x, some, c)) /\ Rank(x, some, c) \in Nat
  <2>1. StrongerThan(x, some, c) \in SUBSET some
    BY DEF StrongerThan
  <2>q. QED BY <1>1, <2>1, FS_Subset, FS_CardinalityType DEF Rank
<1>3. ASSUME NEW x \in some, NEW y \in some, Stronger(x, y, c)
      PROVE  Rank(x, some, c) < Rank(y, some, c)
  <2>1. StrongerThan(x, some, c) \cup {x} \in SUBSET StrongerThan(y, some, c)
    BY <1>3, StrongerIsOrder DEF StrongerThan
  <2>2. x \notin StrongerThan(x, some, c)
    BY StrongerIsOrder DEF StrongerThan
  <2>3. Cardinality(StrongerThan(x, some, c) \cup {x}) = Rank(x, some, c) + 1
    BY <1>2, <2>2, FS_AddElement DEF Rank
  <2>4. Cardinality(StrongerThan(x, some, c) \cup {x}) <= Rank(y, some, c)
    BY <1>2, <2>1, FS_Subset DEF Rank
  <2>q. QED BY <1>2, <2>3, <2>4
<1>4. p # q => Rank(p, some, c) # Rank(q, some, c)
  <2>1. p # q => Stronger(p, q, c) \/ Stronger(q, p, c)
    BY StrongerIsOrder
  <2>2. /\ Stronger(p, q, c) => Rank(p, some, c) < Rank(q, some, c)
        /\ Stronger(q, p, c) => Rank(q, some, c) < Rank(p, some, c)
    BY <1>3
  <2>q. QED BY <1>2, <2>1, <2>2
<1>q. QED BY <1>2, <1>3, <1>4

(* The n first of them are n at most.                                      *)
LEMMA FirstAreFew ==
  ASSUME ConfidenceIsNumber, NEW c \in ChunkRow, NEW some \in SUBSET Practice, NEW n \in Nat
  PROVE  Cardinality({p \in some : Rank(p, some, c) < n}) <= n
<1> DEFINE First == {p \in some : Rank(p, some, c) < n}
           f == [p \in First |-> Rank(p, some, c)]
<1>1. IsFiniteSet(0..(n - 1)) /\ Cardinality(0..(n - 1)) <= n
  <2>1. 0 \in Int /\ n - 1 \in Int
    OBVIOUS
  <2>2. /\ IsFiniteSet(0..(n - 1))
        /\ Cardinality(0..(n - 1)) = IF 0 > n - 1 THEN 0 ELSE (n - 1) - 0 + 1
    BY <2>1, FS_Interval
  <2>q. QED BY <2>2
<1>2. ASSUME NEW p \in First PROVE Rank(p, some, c) \in 0..(n - 1)
  BY RankIsInjective
<1>3. \A p, q \in First : f[p] = f[q] => p = q
  BY RankIsInjective
<1>4. f \in Injection(First, 0..(n - 1))
  BY <1>2, <1>3 DEF Injection, IsInjective
<1> HIDE DEF First, f
<1>5. IsFiniteSet(First) /\ Cardinality(First) <= Cardinality(0..(n - 1))
  BY <1>1, <1>4, FS_Injection
<1>6. Cardinality(First) \in Nat /\ Cardinality(0..(n - 1)) \in Nat
  BY <1>1, <1>5, FS_CardinalityType
<1>7. Cardinality(First) <= n
  BY <1>1, <1>5, <1>6
<1>q. QED BY <1>7 DEF First

(* If one of them is not among the n first, the n first are n.             *)
LEMMA FirstAreFull ==
  ASSUME ConfidenceIsNumber, NEW c \in ChunkRow, NEW some \in SUBSET Practice, NEW n \in Int,
         NEW p \in some, ~ (Rank(p, some, c) < n)
  PROVE  n <= Cardinality({q \in some : Rank(q, some, c) < n})
<1> DEFINE First == {q \in some : Rank(q, some, c) < n}
           Others == {Rank(q, some, c) : q \in some \ First}
<1>1. Others \in SUBSET Nat /\ Others # {}
  BY RankIsInjective
<1>2. PICK least \in Others : \A m \in Others : least <= m
  BY <1>1, LeastNat
<1>3. PICK q \in some \ First : least = Rank(q, some, c)
  BY <1>2
<1>4. StrongerThan(q, some, c) \subseteq First
  <2>1. ASSUME NEW r \in some, Stronger(r, q, c), r \notin First PROVE FALSE
    <3>1. Rank(r, some, c) \in Nat /\ Rank(q, some, c) \in Nat /\ Rank(r, some, c) < Rank(q, some, c)
      BY <2>1, RankIsInjective
    <3>2. Rank(q, some, c) <= Rank(r, some, c)
      BY <1>2, <1>3, <2>1
    <3>q. QED BY <3>1, <3>2
  <2>q. QED BY <2>1 DEF StrongerThan
<1>5. IsFiniteSet(First)
  BY EngineAssumption, FS_Subset
<1>6. Rank(q, some, c) \in Nat /\ ~ (Rank(q, some, c) < n)
  BY <1>3, RankIsInjective
<1> HIDE DEF First
<1>7. Rank(q, some, c) <= Cardinality(First) /\ Cardinality(First) \in Nat
  BY <1>4, <1>5, FS_Subset, FS_CardinalityType DEF Rank
<1>8. n <= Cardinality(First)
  BY <1>6, <1>7
<1>q. QED BY <1>8 DEF First

-----------------------------------------------------------------------------
(* The links of a run, from those it read to those it left.                *)

(* To the links a run read, some were added, each once.                    *)
Extends(old, new, added) ==
  /\ DOMAIN old \subseteq DOMAIN new /\ \A i \in DOMAIN old : new[i] = old[i]
  /\ \A i \in DOMAIN new \ DOMAIN old : new[i] \in added
  /\ \A x \in added : \E i \in DOMAIN new \ DOMAIN old : new[i] = x
  /\ \A i, j \in DOMAIN new \ DOMAIN old : new[i] = new[j] => i = j

LEMMA ProposalsOfChunk ==
  ASSUME NEW known, NEW stored, NEW c \in stored, NEW x
  PROVE  /\ \A p \in Kept(c, known, stored) : Proposal(p, c) \in Proposals(known, stored)
         /\ x \in Proposals(known, stored) /\ x.chunk = c =>
              x.practice \in Kept(c, known, stored) /\ x = Proposal(x.practice, c)
         /\ x \in Proposals(known, stored) => x.review \in Live
  BY DEF Proposals, Proposal, Live

(* Each practice kept for a chunk is one more live claim on it.            *)
LEMMA ClaimsGrow ==
  ASSUME NEW old \in Seq(LinkRow), NEW new \in Seq(LinkRow), NEW stored \in SUBSET ChunkRow,
         Extends(old, new, Proposals(old, stored)), NEW c \in stored
  PROVE  /\ Claims(new, c) = Claims(old, c) + Cardinality(Kept(c, old, stored))
         /\ Claims(old, c) \in Nat /\ Cardinality(Kept(c, old, stored)) \in Nat
<1> DEFINE Before == {i \in LiveLinks(old) : old[i].chunk = c}
           Added == {i \in DOMAIN new \ DOMAIN old : new[i].chunk = c}
           After == {i \in LiveLinks(new) : new[i].chunk = c}
           practice == [i \in Added |-> new[i].practice]
<1>1. \A i \in DOMAIN new \ DOMAIN old : new[i] \in Proposals(old, stored)
  BY DEF Extends
<1>2. After = Before \cup Added /\ Before \cap Added = {}
  <2>1. \A i \in Added : new[i].review \in Live
    BY <1>1, ProposalsOfChunk
  <2>q. QED BY <2>1 DEF Extends, LiveLinks
<1>3. IsFiniteSet(Before) /\ IsFiniteSet(Added)
  <2>1. /\ DOMAIN old = 1..Len(old) /\ Len(old) \in Nat
        /\ DOMAIN new = 1..Len(new) /\ Len(new) \in Nat
    BY LenProperties
  <2>2. IsFiniteSet(DOMAIN old) /\ IsFiniteSet(DOMAIN new)
    BY <2>1, FS_Interval
  <2>3. Before \in SUBSET DOMAIN old /\ Added \in SUBSET DOMAIN new
    BY DEF LiveLinks
  <2>q. QED BY <2>2, <2>3, FS_Subset
<1>4. practice \in Bijection(Added, Kept(c, old, stored))
  <2>1. ASSUME NEW i \in Added
        PROVE  new[i].practice \in Kept(c, old, stored) /\ new[i] = Proposal(new[i].practice, c)
    BY <1>1, ProposalsOfChunk
  <2>2. \A i, j \in Added : practice[i] = practice[j] => i = j
    BY <2>1 DEF Extends
  <2>3. ASSUME NEW p \in Kept(c, old, stored) PROVE \E i \in Added : practice[i] = p
    <3>1. Proposal(p, c) \in Proposals(old, stored)
      BY ProposalsOfChunk
    <3>2. PICK i \in DOMAIN new \ DOMAIN old : new[i] = Proposal(p, c)
      BY <3>1 DEF Extends
    <3>3. Proposal(p, c).chunk = c /\ Proposal(p, c).practice = p
      BY DEF Proposal
    <3>q. QED BY <3>2, <3>3
  <2>q. QED BY <2>1, <2>2, <2>3 DEF Bijection, Injection, Surjection, IsInjective
<1> HIDE DEF Before, Added, After, practice
<1>5. /\ IsFiniteSet(Kept(c, old, stored))
      /\ Cardinality(Kept(c, old, stored)) = Cardinality(Added)
  BY <1>3, <1>4, FS_Bijection DEF ExistsBijection
<1>6. Cardinality(After) = Cardinality(Before) + Cardinality(Added) - Cardinality(Before \cap Added)
  BY <1>2, <1>3, FS_Union
<1>7. Cardinality(Before \cap Added) = 0
  BY <1>2, FS_EmptySet
<1>8. Cardinality(Before) \in Nat /\ Cardinality(Added) \in Nat
  BY <1>3, FS_CardinalityType
<1>9. Claims(new, c) = Cardinality(After) /\ Claims(old, c) = Cardinality(Before)
  BY DEF Claims, After, Before
<1>q. QED BY <1>5, <1>6, <1>7, <1>8, <1>9

(* What a chunk is left with.                                              *)
LEMMA RoomIsKept ==
  ASSUME ConfidenceIsNumber,
         NEW old \in Seq(LinkRow), NEW new \in Seq(LinkRow), NEW stored \in SUBSET ChunkRow,
         Extends(old, new, Proposals(old, stored)), NEW c \in stored
  PROVE  Cap > 0 /\ Claims(new, c) > Claims(old, c) => Claims(new, c) <= Cap
<1> SUFFICES ASSUME Cap > 0, Claims(new, c) > Claims(old, c)
             PROVE  Claims(new, c) <= Cap
  OBVIOUS
<1> DEFINE some == Contenders(c, old, stored)
           room == Cap - Claims(old, c)
<1>1. /\ Claims(new, c) = Claims(old, c) + Cardinality(Kept(c, old, stored))
      /\ Claims(old, c) \in Nat /\ Cardinality(Kept(c, old, stored)) \in Nat
  BY ClaimsGrow
<1>2. room \in Int /\ some \in SUBSET Practice /\ c \in ChunkRow /\ Cap \in Nat
  BY <1>1, EngineAssumption DEF Contenders
<1>3. Kept(c, old, stored) = {p \in some : Rank(p, some, c) < room}
  BY DEF Kept, Rank, StrongerThan
<1>4. Kept(c, old, stored) # {}
  <2>1. SUFFICES ASSUME Kept(c, old, stored) = {} PROVE FALSE
    OBVIOUS
  <2>2. Cardinality(Kept(c, old, stored)) = 0
    BY <2>1, FS_EmptySet, Zenon
  <2>q. QED BY <1>1, <2>2
<1> HIDE DEF some, room
<1>5. PICK p \in some : Rank(p, some, c) < room
  BY <1>3, <1>4
<1>6. Rank(p, some, c) \in Nat
  BY <1>2, RankIsInjective
<1>7. room \in Nat
  BY <1>2, <1>5, <1>6
<1>8. Cardinality(Kept(c, old, stored)) <= room
  BY <1>2, <1>3, <1>7, FirstAreFew
<1>q. QED BY <1>1, <1>2, <1>8 DEF room

(* A contender that was passed over finds no room afterwards.              *)
LEMMA NothingIsLeft ==
  ASSUME ConfidenceIsNumber,
         NEW old \in Seq(LinkRow), NEW new \in Seq(LinkRow), NEW stored \in SUBSET ChunkRow,
         Extends(old, new, Proposals(old, stored))
  PROVE  Proposals(new, stored) = {}
<1>1. SUFFICES ASSUME NEW c \in stored, NEW p \in Kept(c, new, stored) PROVE FALSE
  BY DEF Proposals
<1>2. Covered(old) \subseteq Covered(new)
  BY DEF Extends, Covered, LiveLinks
<1>3. p \in Contenders(c, old, stored) /\ p \notin Covered(new) /\ p \in Practice
  BY <1>2 DEF Kept, Contenders
<1>4. p \notin Kept(c, old, stored)
  <2>1. SUFFICES ASSUME p \in Kept(c, old, stored) PROVE p \in Covered(new)
    BY <1>3
  <2>2. Proposal(p, c) \in Proposals(old, stored)
    BY <2>1, ProposalsOfChunk
  <2>3. PICK i \in DOMAIN new : new[i] = Proposal(p, c)
    BY <2>2 DEF Extends
  <2>q. QED BY <2>3 DEF Proposal, Covered, LiveLinks, Live
<1> DEFINE some == Contenders(c, old, stored)
           room == Cap - Claims(old, c)
<1>5. /\ Claims(new, c) = Claims(old, c) + Cardinality(Kept(c, old, stored))
      /\ Claims(old, c) \in Nat /\ Cardinality(Kept(c, old, stored)) \in Nat
  BY ClaimsGrow
<1>6. room \in Int /\ some \in SUBSET Practice /\ c \in ChunkRow /\ Cap \in Nat
  BY <1>5, EngineAssumption DEF Contenders
<1>7. Cap # 0 /\ Kept(c, old, stored) = {q \in some : Rank(q, some, c) < room}
  BY <1>3, <1>4 DEF Kept, Rank, StrongerThan
<1>8. p \in some /\ ~ (Rank(p, some, c) < room)
  BY <1>3, <1>4, <1>7
<1>9. room <= Cardinality(Kept(c, old, stored))
  <2> HIDE DEF some, room
  <2>q. QED BY <1>6, <1>7, <1>8, FirstAreFull
<1>10. Rank(p, Contenders(c, new, stored), c) < Cap - Claims(new, c)
  BY <1>1, <1>7 DEF Kept, Rank, StrongerThan
<1>11. Rank(p, Contenders(c, new, stored), c) \in Nat
  BY <1>6, <1>1, RankIsInjective DEF Kept, Contenders
<1>q. QED BY <1>5, <1>6, <1>9, <1>10, <1>11

-----------------------------------------------------------------------------
(* While nobody else writes, a run of the mapping engine adds what it      *)
(* proposed to what it read.                                               *)

Label == {"idle", "search", "propose", "done", "link"}

ThreadsOK ==
  /\ pc \in [Thread -> Label]
  /\ seen \in [Thread -> Seq(LinkRow)]
  /\ quiet \in [Thread -> BOOLEAN]

QuietRun(t) ==
  /\ At(t, "search") => links = seen[t]
  /\ pc[t] \in {"propose", "done"} =>
       /\ todo[t] \subseteq Proposals(seen[t], chunks)
       /\ Extends(seen[t], links, Proposals(seen[t], chunks) \ todo[t])
  /\ At(t, "done") => todo[t] = {}

RunInv == ThreadsOK /\ \A t \in Thread : quiet[t] => QuietRun(t)

LEMMA InitRun == Init => RunInv
<1> SUFFICES ASSUME Init PROVE RunInv
  OBVIOUS
<1>1. <<>> \in Seq(LinkRow)
  BY EmptySeq
<1>2. ThreadsOK
  <2>1. quiet \in [Thread -> BOOLEAN]
    BY Zenon DEF Init, Idle
  <2>2. pc \in [Thread -> Label] /\ seen \in [Thread -> Seq(LinkRow)]
    BY <1>1 DEF Init, Idle, Label
  <2>q. QED BY <2>1, <2>2 DEF ThreadsOK
<1>3. ASSUME NEW t \in Thread PROVE QuietRun(t)
  BY DEF Init, Idle, QuietRun, At
<1>q. QED BY <1>2, <1>3 DEF RunInv

LEMMA RequestThreads ==
  ASSUME RowsOK, ThreadsOK, NEW t \in Thread, Request(t)
  PROVE  ThreadsOK'
<1>1. <<>> \in Seq(LinkRow)
  BY EmptySeq
<1>2. CASE ReadLinks(t) \/ Search(t) \/ EndRun(t) \/ CheckLink(t) \/ Return(t)
  <2>1. pc' \in [Thread -> Label]
    BY <1>2 DEF ReadLinks, Search, EndRun, CheckLink, Return, Goto, ThreadsOK, Label
  <2>2. seen' \in [Thread -> Seq(LinkRow)]
    BY <1>1, <1>2 DEF ReadLinks, Search, EndRun, CheckLink, Return, ThreadsOK, RowsOK
  <2>3. quiet' \in [Thread -> BOOLEAN]
    <3>1. quiet' = quiet \/ quiet' = [quiet EXCEPT ![t] = TRUE]
      BY <1>2 DEF ReadLinks, Search, EndRun, CheckLink, Return
    <3>q. QED BY <3>1, Zenon DEF ThreadsOK
  <2>q. QED BY <2>1, <2>2, <2>3 DEF ThreadsOK
<1>3. CASE StoreProposal(t) \/ StoreLink(t) \/ Review(t)
  <2>1. ASSUME Disturb(t) PROVE quiet' \in [Thread -> BOOLEAN]
    BY <2>1 DEF Disturb, ThreadsOK
  <2>2. pc' \in [Thread -> Label] /\ seen' = seen /\ Disturb(t)
    BY <1>3 DEF StoreProposal, StoreLink, Review, Goto, ThreadsOK, Label
  <2>q. QED BY <2>1, <2>2 DEF ThreadsOK
<1>q. QED BY <1>2, <1>3 DEF Request

(* Another call of the server writes nothing, or the run is disturbed.     *)
LEMMA OtherRequest ==
  ASSUME RowsOK, ThreadsOK, NEW t \in Thread, NEW u \in Thread, t # u, Request(u),
         quiet[t] => QuietRun(t), quiet'[t]
  PROVE  QuietRun(t)'
<1>1. pc'[t] = pc[t] /\ seen'[t] = seen[t] /\ todo'[t] = todo[t] /\ chunks' = chunks
  <2>1. /\ pc' = pc \/ \E x : pc' = [pc EXCEPT ![u] = x]
        /\ seen' = seen \/ \E x : seen' = [seen EXCEPT ![u] = x]
        /\ todo' = todo \/ \E x : todo' = [todo EXCEPT ![u] = x]
        /\ chunks' = chunks
    BY DEF Request, ReadLinks, Search, StoreProposal, EndRun, CheckLink, StoreLink, Review,
           Return, Goto
  <2>q. QED BY <2>1 DEF ThreadsOK, RowsOK
<1>2. CASE pc[t] = "idle"
  BY <1>1, <1>2 DEF QuietRun, At
<1>3. CASE links' = links /\ quiet[t]
  BY <1>1, <1>3 DEF QuietRun, At
<1>4. Disturb(u) \/ (links' = links /\ quiet'[t] = quiet[t])
  BY DEF Request, ReadLinks, Search, StoreProposal, EndRun, CheckLink, StoreLink, Review, Return,
         ThreadsOK
<1>5. Disturb(u) => quiet'[t] = (pc[t] = "idle")
  BY DEF Disturb
<1>q. QED BY <1>2, <1>3, <1>4, <1>5

LEMMA OwnRequest ==
  ASSUME RowsOK, ThreadsOK, NEW t \in Thread, Request(t),
         quiet[t] => QuietRun(t), quiet'[t]
  PROVE  QuietRun(t)'
<1> USE DEF ThreadsOK, RowsOK
<1>1. CASE ReadLinks(t)
  BY <1>1 DEF ReadLinks, Goto, QuietRun, At
<1>2. CASE Search(t)
  <2>1. /\ quiet[t] /\ links = seen[t]
        /\ pc'[t] = "propose" /\ todo'[t] = Proposals(seen[t], chunks)
        /\ UNCHANGED <<chunks, links, seen>>
    BY <1>2 DEF Search, Goto, QuietRun, At
  <2>2. Extends(seen[t], links, {})
    BY <2>1 DEF Extends
  <2>q. QED BY <2>1, <2>2 DEF QuietRun, At
<1>3. CASE StoreProposal(t)
  <2>1. quiet[t]
    BY <1>3 DEF StoreProposal, Disturb
  <2>2. /\ pc[t] = "propose" /\ UNCHANGED <<chunks, pc, seen>>
        /\ todo[t] \subseteq Proposals(seen[t], chunks)
        /\ Extends(seen[t], links, Proposals(seen[t], chunks) \ todo[t])
    BY <1>3, <2>1 DEF StoreProposal, QuietRun, At
  <2>3. PICK x \in todo[t] : links' = Append(links, x) /\ todo' = [todo EXCEPT ![t] = @ \ {x}]
    BY <1>3 DEF StoreProposal
  <2>4. todo'[t] = todo[t] \ {x}
    BY <2>3
  <2>5. Extends(seen[t], links', (Proposals(seen[t], chunks) \ todo[t]) \cup {x})
    <3>1. /\ Len(links) \in Nat /\ DOMAIN links = 1..Len(links)
          /\ DOMAIN links' = 1..(Len(links) + 1)
          /\ \A i \in DOMAIN links : links'[i] = links[i]
          /\ links'[Len(links) + 1] = x
      BY <2>3, AppendProperties, LenProperties
    <3>2. x \notin Proposals(seen[t], chunks) \ todo[t]
      OBVIOUS
    <3>3. DOMAIN links' \ DOMAIN seen[t] =
            (DOMAIN links \ DOMAIN seen[t]) \cup {Len(links) + 1}
      BY <2>2, <3>1 DEF Extends
    <3>q. QED BY <2>2, <3>1, <3>2, <3>3 DEF Extends
  <2>6. (Proposals(seen[t], chunks) \ todo[t]) \cup {x} = Proposals(seen[t], chunks) \ todo'[t]
    BY <2>2, <2>4
  <2>q. QED BY <2>2, <2>4, <2>5, <2>6 DEF QuietRun, At
<1>4. CASE EndRun(t)
  BY <1>4 DEF EndRun, Goto, QuietRun, At
<1>5. CASE CheckLink(t) \/ StoreLink(t) \/ Review(t) \/ Return(t)
  BY <1>5 DEF CheckLink, StoreLink, Review, Return, Goto, QuietRun, At
<1>q. QED BY <1>1, <1>2, <1>3, <1>4, <1>5 DEF Request

(* Each write of the tool disturbs the runs.                               *)
LEMMA ToolRun ==
  ASSUME RunInv, Tool
  PROVE  RunInv'
<1>1. /\ UNCHANGED <<pc, seen, todo>>
      /\ \/ UNCHANGED <<chunks, links, quiet>>
         \/ quiet' = [t \in Thread |-> At(t, "idle")]
  BY DEF Tool, Start, Skip, Cut, Delete, Add, Commit, Finish, Stop, mapping, calls
<1>2. CASE UNCHANGED <<chunks, links, quiet>>
  BY <1>1, <1>2 DEF RunInv, ThreadsOK, QuietRun, At
<1>3. CASE quiet' = [t \in Thread |-> At(t, "idle")]
  <2>1. ThreadsOK'
    BY <1>1, <1>3 DEF RunInv, ThreadsOK, At
  <2>2. ASSUME NEW t \in Thread, quiet'[t] PROVE QuietRun(t)'
    <3>1. pc'[t] = "idle"
      BY <1>1, <1>3, <2>2 DEF At
    <3>q. QED BY <3>1 DEF QuietRun, At
  <2>q. QED BY <2>1, <2>2 DEF RunInv
<1>q. QED BY <1>1, <1>2, <1>3

LEMMA RunStep ==
  ASSUME RowsOK, RunInv, [Next]_vars
  PROVE  RunInv'
<1>1. ASSUME NEW u \in Thread, Serve(u) PROVE RunInv'
  <2>1. Request(u)
    BY <1>1 DEF Serve
  <2>2. ThreadsOK'
    BY <2>1, RequestThreads DEF RunInv
  <2>3. ASSUME NEW t \in Thread, quiet'[t] PROVE QuietRun(t)'
    <3>1. quiet[t] => QuietRun(t)
      BY DEF RunInv
    <3>q. QED BY <2>1, <2>3, <3>1, OwnRequest, OtherRequest DEF RunInv
  <2>q. QED BY <2>2, <2>3 DEF RunInv
<1>2. CASE UNCHANGED vars
  BY <1>2 DEF vars, mapping, calls, RunInv, ThreadsOK, QuietRun, At
<1>q. QED BY <1>1, <1>2, ToolRun DEF Next

LEMMA RunKeepsCap ==
  ASSUME ConfidenceIsNumber, RowsOK, RunInv
  PROVE  CapHolds
<1>1. SUFFICES ASSUME NEW t \in Thread, At(t, "done"), quiet[t]
               PROVE  /\ \A c \in chunks :
                           Cap > 0 /\ Claims(links, c) > Claims(seen[t], c) =>
                             Claims(links, c) <= Cap
                      /\ Proposals(links, chunks) = {}
  BY DEF CapHolds
<1>2. Extends(seen[t], links, Proposals(seen[t], chunks))
  <2>1. /\ todo[t] = {}
        /\ Extends(seen[t], links, Proposals(seen[t], chunks) \ todo[t])
    BY <1>1 DEF RunInv, QuietRun, At
  <2>2. Proposals(seen[t], chunks) \ todo[t] = Proposals(seen[t], chunks)
    BY <2>1
  <2>q. QED BY <2>1, <2>2
<1>3. seen[t] \in Seq(LinkRow) /\ links \in Seq(LinkRow) /\ chunks \in SUBSET ChunkRow
  BY DEF RunInv, ThreadsOK, RowsOK
<1>q. QED BY <1>2, <1>3, RoomIsKept, NothingIsLeft

(* ADR-0072, for any number of threads, practices, documents and links, any *)
(* cap, and with re-ingestion going on: a run that nobody's write          *)
(* overlapped leaves no chunk with more live claims than the cap unless it *)
(* had them before, and leaves no room that a second run would use.        *)
THEOREM CapHoldsTheorem ==
  ASSUME ConfidenceIsNumber
  PROVE  Spec => []CapHolds
<1>1. Init => RowsOK /\ RunInv
  BY InitRows, InitRun
<1>2. RowsOK /\ RunInv /\ [Next]_vars => RowsOK' /\ RunInv'
  BY RowsStep, RunStep
<1>3. RowsOK /\ RunInv => CapHolds
  BY RunKeepsCap
<1>q. QED BY <1>1, <1>2, <1>3, PTL DEF Spec

=============================================================================
