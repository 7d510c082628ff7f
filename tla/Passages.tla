------------------------------ MODULE Passages ------------------------------
(***************************************************************************)
(* One document from the file to the passages that can be cited: it is     *)
(* parsed, its text is cut, and each chunk is stored with the page, row    *)
(* and sheet it is said to come from and with how its text was obtained.   *)
(***************************************************************************)
EXTENDS Chunking, Parsing

CONSTANTS
  Files,   \* the files that may be uploaded
  MaxText  \* settings.max_extracted_text_chars

(* A PDF has as many pages for the recogniser as for the text layer.       *)
ASSUME FilesAssumption ==
  /\ \A l \in Line : Glyphs[l] \in Seq(Char)
  /\ \A f \in Files :
       \/ f.kind = "text" /\ f.text \in Seq(Char)
       \/ /\ f.kind = "table"
          /\ f.sheets \in Seq([title: Seq(Char), rows: Seq(Seq(Char))])
       \/ /\ f.kind = "pdf" /\ f.layer \in Seq(Seq(Line)) /\ f.image \in Seq(Seq(Line))
          /\ Len(f.image) = Len(f.layer)

VARIABLES
  file,    \* the upload
  status,  \* its parse status, "received" before the parse
  bounds,  \* page or row boundaries of the text, as the parser computed them
  scans,   \* the pages the parser reports as recognised, None if it cannot say
  origin,  \* the part each character came from, and whether it was recognised
  rows     \* the chunks in the vector store, by the window each was cut as

parsed == <<file, bounds, scans, origin>>
vars   == <<chunking, parsed, status, rows>>

None == -1

Accepted == {"success", "success_ocr", "success_partial_ocr"}
Refused  == {"failed", "empty", "unsupported_scanned"}

-----------------------------------------------------------------------------
(* parse_document.                                                         *)

Refuse(s) ==
  /\ status' = s
  /\ UNCHANGED <<chunking, parsed, rows>>

OriginOf(parts, gap, scanned) ==
  JoinWith([g \in 1..gap |-> [part |-> 0, scan |-> FALSE]],
           [i \in DOMAIN parts |->
              [k \in DOMAIN parts[i] |-> [part |-> i, scan |-> i \in scanned]]])

(* The text goes on to be cut, with the boundaries (marks) and the pages   *)
(* (read) that are reported for it, unless it is too long.                 *)
Accept(s, parts, gap, scanned, marks, read) ==
  LET joined == JoinWith([g \in 1..gap |-> Space], parts)
  IN  IF Len(joined) > MaxText THEN Refuse("failed")
      ELSE /\ status' = s
           /\ text' = joined
           /\ origin' = OriginOf(parts, gap, scanned)
           /\ bounds' = marks /\ scans' = read
           /\ UNCHANGED <<file, lo, start, windows, rows>>

PageBounds(texts) ==
  LET b == Bounds(texts, Len(PageGap))
  IN  [p \in DOMAIN texts |-> [from |-> b[p].from, to |-> b[p].to, row |-> None, sheet |-> <<>>]]

Received(kind) == status = "received" /\ file.kind = kind

(* A wrong extension, an archive that is too large, a file that does not   *)
(* open.                                                                   *)
RefuseUnreadable == status = "received" /\ Refuse("failed")

LayerTexts == PageTexts(file.layer)

AllRead == PageTexts(Recognised(file.image, DOMAIN file.image))
GapRead == PageTexts(Recognised(file.image, Textless(LayerTexts)))

(* The pages to splice in, none if the recogniser is off or unavailable.   *)
Splice == IF file.ocr THEN Recovered(LayerTexts, GapRead) ELSE {}

RefuseNoPages == Received("pdf") /\ file.layer = <<>> /\ Refuse("empty")

(* Every page keeps the text of its text layer.                            *)
ReadLayer ==
  /\ Received("pdf") /\ file.layer # <<>>
  /\ ~IsSparse(LayerTexts) /\ Splice = {}
  /\ Accept("success", LayerTexts, 2, {}, PageBounds(LayerTexts), {None})

(* Fault: the boundaries of before the splice.                             *)
SplicePagesStale ==
  LET texts == [p \in DOMAIN file.layer |-> IF p \in Splice THEN GapRead[p] ELSE LayerTexts[p]]
  IN  /\ Received("pdf") /\ file.layer # <<>>
      /\ ~IsSparse(LayerTexts) /\ Splice # {}
      /\ Accept("success_partial_ocr", texts, 2, Splice, PageBounds(LayerTexts), Splice)

(* Some pages are scans: only those are recognised, and spliced in.        *)
SplicePages ==
  LET texts == [p \in DOMAIN file.layer |-> IF p \in Splice THEN GapRead[p] ELSE LayerTexts[p]]
  IN  /\ Received("pdf") /\ file.layer # <<>>
      /\ ~IsSparse(LayerTexts) /\ Splice # {}
      /\ Accept("success_partial_ocr", texts, 2, Splice, PageBounds(texts), Splice)

(* The whole document is a scan.                                           *)
RecogniseAll ==
  /\ Received("pdf") /\ file.layer # <<>>
  /\ IsSparse(LayerTexts) /\ file.ocr /\ ~IsSparse(AllRead)
  /\ Accept("success_ocr", AllRead, 2, DOMAIN file.image, PageBounds(AllRead), DOMAIN file.image)

RefuseScan ==
  /\ Received("pdf") /\ file.layer # <<>>
  /\ IsSparse(LayerTexts) /\ (~file.ocr \/ IsSparse(AllRead))
  /\ Refuse("unsupported_scanned")

RowBounds(lines, parts) ==
  LET b == Bounds(parts, 1)
  IN  [i \in DOMAIN lines |-> [from |-> b[i].from, to |-> b[i].to,
                               row |-> lines[i].row, sheet |-> lines[i].sheet]]

(* XLSX and CSV.                                                           *)
ReadRows ==
  LET lines == WorkbookLines(file.sheets)
      parts == [i \in DOMAIN lines |-> lines[i].glyphs]
  IN  /\ Received("table") /\ lines # <<>>
      /\ Accept("success", parts, 1, {}, RowBounds(lines, parts), {None})

RefuseNoRows == Received("table") /\ WorkbookLines(file.sheets) = <<>> /\ Refuse("empty")

(* DOCX, TXT and Markdown: a flat text, with headings in a DOCX.           *)
ReadText ==
  /\ Received("text") /\ \E i \in DOMAIN file.text : file.text[i] # Space
  /\ Accept("success", <<file.text>>, 0, {}, <<>>, {None})

RefuseBlank ==
  /\ Received("text") /\ \A i \in DOMAIN file.text : file.text[i] = Space
  /\ Refuse("empty")

ParsePdf == RefuseNoPages \/ ReadLayer \/ SplicePages \/ RecogniseAll \/ RefuseScan

Parse == RefuseUnreadable \/ ParsePdf \/ ReadRows \/ RefuseNoRows \/ ReadText \/ RefuseBlank

-----------------------------------------------------------------------------
(* chunk_document, and the row each chunk becomes.                         *)

IsPaged == file.kind = "pdf"

(* The page a chunk starts on; None between two pages.                     *)
PageNumber(offset) ==
  LET on == {p \in DOMAIN bounds : bounds[p].from <= offset /\ offset < bounds[p].to}
  IN  IF IsPaged /\ on # {} THEN Min(on) ELSE None

(* The rows a chunk reaches into.                                          *)
RowsIn(w) ==
  {i \in DOMAIN bounds : bounds[i].row > 0 /\ bounds[i].from < w.to /\ bounds[i].to > w.from}

RowInfo(w) ==
  IF RowsIn(w) = {} THEN [row |-> None, sheet |-> <<>>]
  ELSE LET b == bounds[Min(RowsIn(w))] IN [row |-> b.row, sheet |-> b.sheet]

(* None is not no: no claims that the page was read from a text layer.     *)
OcrFlag(page) ==
  IF scans = {None} \/ page = None THEN "none" ELSE IF page \in scans THEN "yes" ELSE "no"

EvidenceChunk(w) ==
  [from |-> w.from, to |-> w.to, heading |-> w.heading,
   page |-> PageNumber(w.from), place |-> RowInfo(w), ocr |-> OcrFlag(PageNumber(w.from))]

(* The windows that become chunks.                                         *)
Chunks == {k \in DOMAIN windows : IsLong(windows[k])}

CutText ==
  /\ status \in Accepted /\ Cut
  /\ UNCHANGED <<parsed, status, rows>>

(* Fault: a document without a chunk is passed over.                       *)
StoreSomeChunks ==
  /\ status \in Accepted /\ lo = Len(text) /\ rows = <<>> /\ Chunks # {}
  /\ rows' = [k \in Chunks |-> EvidenceChunk(windows[k])]
  /\ UNCHANGED <<chunking, parsed, status>>

(* add_chunks; a document without a chunk is refused after all.            *)
StoreChunks ==
  /\ status \in Accepted /\ lo = Len(text) /\ rows = <<>>
  /\ IF Chunks = {} THEN status' = "empty" /\ UNCHANGED rows
     ELSE /\ rows' = [k \in Chunks |-> EvidenceChunk(windows[k])]
          /\ UNCHANGED status
  /\ UNCHANGED <<chunking, parsed>>

(* resolve_text_provenance: what a quotation is labelled with.             *)
Provenance(flag, s) ==
  CASE flag = "yes" -> "ocr"
    [] flag = "no" -> "exact"
    [] flag = "none" /\ s \in {"success_ocr", "success_partial_ocr"} -> "possibly_ocr"
    [] flag = "none" /\ s = "success" -> "exact"
    [] OTHER -> "unknown"

(* evidence_view_for_assessment: a citation of the whole document, or of a *)
(* chunk that is gone, goes by how the document was read.                  *)
LabelOf(k) == Provenance(IF k \in DOMAIN rows THEN rows[k].ocr ELSE "none", status)

-----------------------------------------------------------------------------
Init ==
  /\ file \in Files
  /\ status = "received"
  /\ text = <<>> /\ Uncut
  /\ bounds = <<>> /\ scans = {None} /\ origin = <<>> /\ rows = <<>>

Next == Parse \/ CutText \/ StoreChunks

Spec == Init /\ [][Next]_vars

(* The thread that ingests goes on.                                        *)
FairSpec == Spec /\ WF_vars(Parse) /\ WF_vars(CutText) /\ WF_vars(StoreChunks)

-----------------------------------------------------------------------------
(* Properties.                                                             *)

Stored == DOMAIN rows

(* The row a citation names is, in the file, the first row it reaches      *)
(* into, if only into the blanks which that row ends with.                 *)
RowIsRight(r) ==
  LET lines   == WorkbookLines(file.sheets)
      reached == {origin[i + 1].part : i \in r.from..(r.to - 1)} \ {0}
      cited   == {p \in reached : lines[p].row > 0}
  IN  IF cited = {} THEN r.place.row = None
      ELSE \E s \in DOMAIN file.sheets :
             /\ file.sheets[s].title = r.place.sheet
             /\ r.place.row - 1 \in DOMAIN file.sheets[s].rows
             /\ file.sheets[s].rows[r.place.row - 1] = lines[Min(cited)].glyphs

(* The place a citation names is where its text is: it lies in the section *)
(* of its heading, its page holds its first character, its row is the      *)
(* first one it reaches, and what is said of how the first character was   *)
(* read is true.  A chunk without a page begins between two pages.  What a *)
(* citation without a chunk says of the reading is true of the whole text. *)
CitationIsRight ==
  /\ WindowsInSection
  /\ LabelOf(None) = "exact" => \A i \in DOMAIN origin : ~origin[i].scan
  /\ \A k \in Stored :
       LET r     == rows[k]
           first == origin[r.from + 1]
           label == LabelOf(k)
       IN  /\ IsPaged => /\ r.page # None => first.part = r.page
                         /\ r.page = None => first.part = 0
           /\ file.kind = "table" => RowIsRight(r)
           /\ label = "exact" => ~first.scan
           /\ label = "ocr" => first.scan

Characters(p) == Cardinality({i \in DOMAIN origin : origin[i].part = p})

(* The lines of a page that no other page has, in any numbering.           *)
OwnLines(p) ==
  {i \in DOMAIN file.layer[p] :
     \A q \in DOMAIN file.layer \ {p} :
       \A j \in DOMAIN file.layer[q] :
         Signature[file.layer[q][j]] # Signature[file.layer[p][i]]}

(* The line is in the text, all of it in that page.                        *)
StandsIn(p, line) ==
  \E k \in 0..Len(text) :
    \A m \in DOMAIN Glyphs[line] :
      /\ k + m \in DOMAIN text
      /\ text[k + m] = Glyphs[line][m] /\ origin[k + m].part = p

(* No page is lost by cleaning it or by trying to recognise it: a page     *)
(* with a text layer keeps some text, at least as much as the cleaned      *)
(* layer holds, and, where the layer is kept, the lines no other page has. *)
PagesSurvive ==
  IsPaged /\ rows # <<>> /\ status # "success_ocr" =>
    \A p \in DOMAIN file.layer :
      /\ file.layer[p] # <<>> => Characters(p) > 0
      /\ Characters(p) >= Len(LayerTexts[p])
      /\ p \notin scans => \A i \in OwnLines(p) : StandsIn(p, file.layer[p][i])

(* Every upload is stored or refused: the window loop ends.                *)
Finishes == <>(rows # <<>> \/ status \in Refused)

=============================================================================
