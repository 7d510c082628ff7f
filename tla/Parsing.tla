------------------------------- MODULE Parsing -------------------------------
(***************************************************************************)
(* What the parsers make of a file: the text that is stored, which part of *)
(* it came from which page or spreadsheet row, and which pages were read   *)
(* by the recogniser because they have no text layer.                      *)
(*                                                                         *)
(* A PDF page is a sequence of lines that are not blank, as pypdf extracts *)
(* them (layer) and as the recogniser reads them (image); what those two   *)
(* libraries find is an input.  A sheet is a title, <<>> in a CSV, and its *)
(* data rows as they render, <<>> for a blank one.                         *)
(***************************************************************************)
EXTENDS Integers, SequencesExt

CONSTANTS
  Line,            \* the lines a PDF page may have
  Glyphs,          \* the characters of each of them
  Signature,       \* _running_line_signature: numbers and case folded
  MinPerPage,      \* _MIN_CHARS_PER_PAGE
  EdgeLines,       \* _HEADER_FOOTER_EDGE_LINES
  MinRunningPages, \* _HEADER_FOOTER_MIN_PAGES
  MaxRunningChars, \* _HEADER_FOOTER_MAX_CHARS
  MaxOcrPages      \* settings.ocr_max_pages

ASSUME LinesAssumption ==
  \A l \in Line : Glyphs[l] # <<>> /\ l \in DOMAIN Signature

(* What one page alone has is never a running line.                        *)
ASSUME RunningAssumption == MinRunningPages \in Nat /\ MinRunningPages > 1

(* The parts with a separator between them.                                *)
JoinWith(sep, parts) ==
  FlattenSeq([i \in DOMAIN parts |-> IF i = 1 THEN parts[i] ELSE sep \o parts[i]])

KeepOnly(s, indices) ==
  FlattenSeq([i \in DOMAIN s |-> IF i \in indices THEN <<s[i]>> ELSE <<>>])

-----------------------------------------------------------------------------
(* Running headers and footers.                                            *)

EdgeOf(page) == {i \in DOMAIN page : i <= EdgeLines \/ i > Len(page) - EdgeLines}

(* A header repeated on one page counts once for that page.                *)
MarksOf(page) ==
  {Signature[page[i]] : i \in {j \in EdgeOf(page) : Len(Glyphs[page[j]]) <= MaxRunningChars}}

(* On three pages at least, and on six in ten.                             *)
RunningLines(pages) ==
  LET needed == Max({MinRunningPages, (3 * Len(pages) + 4) \div 5})
  IN  {s \in Range(Signature) :
         Cardinality({p \in DOMAIN pages : s \in MarksOf(pages[p])}) >= needed}

(* Fault: a page of nothing but running lines is emptied.                  *)
DropRunning(page, running) ==
  KeepOnly(page, {i \in DOMAIN page : ~(i \in EdgeOf(page) /\ Signature[page[i]] \in running)})

(* Without its running lines, unless nothing else is on the page.          *)
NormalisePage(page, running) ==
  LET kept == {i \in DOMAIN page : ~(i \in EdgeOf(page) /\ Signature[page[i]] \in running)}
  IN  IF kept = {} THEN page ELSE KeepOnly(page, kept)

(* The text of every page, normalised.                                     *)
PageTexts(pages) ==
  LET running == RunningLines(pages)
      glyphs(lines) == [i \in DOMAIN lines |-> Glyphs[lines[i]]]
  IN  [p \in DOMAIN pages |-> JoinWith(<<" ">>, glyphs(NormalisePage(pages[p], running)))]

-----------------------------------------------------------------------------
(* Optical character recognition.                                          *)

(* The pages that are read: of those asked for, the first MaxOcrPages.     *)
Recognised(image, asked) ==
  [p \in DOMAIN image |->
     IF p \in asked /\ Cardinality({q \in asked : q < p}) < MaxOcrPages THEN image[p] ELSE <<>>]

PageGap == <<" ", " ">>

(* Too little text for its number of pages.                                *)
IsSparse(texts) == Len(JoinWith(PageGap, texts)) < MinPerPage * Len(texts)

Textless(texts) == {p \in DOMAIN texts : Len(texts[p]) < MinPerPage}

(* The pages on which the recogniser did better than the text layer.       *)
Recovered(texts, read) ==
  {p \in Textless(texts) : Len(read[p]) >= MinPerPage /\ Len(read[p]) > Len(texts[p])}

-----------------------------------------------------------------------------
(* Where each part begins and ends in the joined text: the cursor walk of  *)
(* _page_boundaries_for and _append_rendered_rows.                         *)

Bounds(parts, gap) ==
  LET begin[i \in 1..(Len(parts) + 1)] ==
        IF i = 1 THEN 0 ELSE begin[i - 1] + Len(parts[i - 1]) + gap
  IN  [i \in DOMAIN parts |-> [from |-> begin[i], to |-> begin[i] + Len(parts[i])]]

-----------------------------------------------------------------------------
(* Spreadsheets.                                                           *)

(* The data rows, numbered as in the file, where the header is row 1;      *)
(* blank rows are numbered but not rendered.                               *)
RenderedRows(sheet) ==
  FlattenSeq([r \in DOMAIN sheet.rows |->
    IF sheet.rows[r] = <<>> THEN <<>>
    ELSE <<[glyphs |-> sheet.rows[r], row |-> r + 1, sheet |-> sheet.title]>>])

(* A sheet with rows opens with its title as a heading; row 0 is the       *)
(* heading's.  A CSV has no title.                                         *)
SheetLines(sheet) ==
  LET rows == RenderedRows(sheet)
  IN  IF rows = <<>> \/ sheet.title = <<>> THEN rows
      ELSE <<[glyphs |-> sheet.title, row |-> 0, sheet |-> sheet.title]>> \o rows

WorkbookLines(sheets) == FlattenSeq([s \in DOMAIN sheets |-> SheetLines(sheets[s])])

=============================================================================
