----------------------------- MODULE MCPassages -----------------------------
(* Small files for Passages: every short text, PDFs of up to three pages    *)
(* some of which are scans, and spreadsheets with blank rows.              *)
EXTENDS Passages

CONSTANT TextLength  \* of the longest flat text

(* A heading begins a line, so that a space comes before it.               *)
IsWellFormed(t) == \A i \in 2..Len(t) : t[i] = Heading => t[i - 1] = Space

Texts == {t \in UNION {[1..n -> Char] : n \in 0..TextLength} : IsWellFormed(t)}

Lines      == {"head 1", "head 2", "title", "clause"}
Glyph      == [l \in Lines |-> CASE l = "clause" -> <<"a", "a", ".", " ", "a", "a">>
                                 [] l = "title" -> <<"a", "a", "a">>
                                 [] OTHER -> <<"a">>]
Signatures == [l \in Lines |-> IF l \in {"head 1", "head 2"} THEN "head #" ELSE l]

LayerPages == {<<>>, <<"head 1">>, <<"head 2", "clause">>, <<"title">>,
               <<"clause", "head 1", "title">>}
ImagePages == {<<>>, <<"head 1">>, <<"head 2", "title">>}

(* Without the recogniser it does not matter what it would read.           *)
Pdf(n, images) ==
  [kind: {"pdf"}, layer: [1..n -> LayerPages], image: [1..n -> images], ocr: {TRUE}]
    \cup [kind: {"pdf"}, layer: [1..n -> LayerPages], image: {[p \in 1..n |-> <<>>]}, ocr: {FALSE}]

Pdfs == Pdf(3, ImagePages \ {<<"head 1">>}) \cup UNION {Pdf(n, ImagePages) : n \in 0..2}

Row(n) == [i \in 1..n |-> IF i = 2 THEN " " ELSE "a"]
Rows   == {<<>>, Row(3), Row(5), <<"a", "a", " ", " ">>, <<"a", "a", ".", " ", "a", "a", "a", "a">>}

Sheets == [title: {<<"#", "a">>}, rows: [1..2 -> Rows] \cup [1..3 -> {<<>>, Row(4), Row(7)}]]

Tables == {[kind |-> "table", sheets |-> <<s>>] : s \in Sheets}
          \cup {[kind |-> "table", sheets |-> <<s, [title |-> <<"#">>, rows |-> t.rows]>>] :
                  s \in [title: {<<"#", "a">>}, rows: [1..2 -> Rows]],
                  t \in [rows: [1..2 -> {<<>>, Row(3)}]]}
          \cup {[kind |-> "table", sheets |-> <<[title |-> <<>>, rows |-> s.rows]>>] :
                  s \in Sheets}

SmallFiles == [kind: {"text"}, text: Texts] \cup Pdfs \cup Tables

=============================================================================
