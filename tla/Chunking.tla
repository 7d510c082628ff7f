------------------------------ MODULE Chunking ------------------------------
(***************************************************************************)
(* How the text of a document is cut into the passages that evidence links *)
(* cite: sections at the headings, overlapping windows inside a section,   *)
(* and the edges of each window moved to a sentence or word boundary.      *)
(*                                                                         *)
(* A text is a sequence of characters of four classes.  A sentence stop is *)
(* a terminator _is_sentence_end accepts, with its closing quotes; one it  *)
(* refuses (an abbreviation, a decimal) is a letter here, except that the  *)
(* whitespace a stop needs after it is looked at.  A heading mark is the   *)
(* first character of a line "# Heading".  Offsets begin at 0.             *)
(***************************************************************************)
EXTENDS Integers, Sequences, FiniteSetsExt

CONSTANTS
  Target,           \* settings.chunk_target_chars
  Overlap,          \* settings.chunk_overlap_chars
  MinChars,         \* settings.chunk_min_chars
  MaxWordShift,     \* _MAX_BOUNDARY_SHIFT_CHARS
  MaxSentenceShift  \* _MAX_SENTENCE_SHIFT_CHARS

ASSUME SettingsAssumption ==
  /\ Target \in Nat /\ Overlap \in Nat /\ MinChars \in Nat
  /\ MaxWordShift \in Nat /\ MaxSentenceShift \in Nat
  /\ Overlap < Target

(* The shipped 40 against 150: two words cut at the shared edges of two    *)
(* windows fit into their overlap.                                         *)
ASSUME ShiftAssumption == 2 * MaxWordShift <= Overlap

Space   == " "
Stop    == "."
Heading == "#"
Letter  == "a"
Char    == {Space, Stop, Heading, Letter}

VARIABLES
  text,    \* the text to cut, a sequence of characters
  lo,      \* where the section being cut begins
  start,   \* where the next window nominally starts, within the section
  windows  \* the windows so far, with the section each was cut from

chunking == <<text, lo, start, windows>>

-----------------------------------------------------------------------------
(* Edges.  In all of these t is the text of one section.                   *)

Lower(a, b)  == IF a <= b THEN a ELSE b
Higher(a, b) == IF a <= b THEN b ELSE a

IsSpace(t, i) == t[i + 1] = Space

EndsSentence(t, i) == t[i + 1] = Stop /\ i + 1 < Len(t) /\ IsSpace(t, i + 1)

Inside(t, pos) == 0 < pos /\ pos < Len(t)

AfterSpaces(t, pos) == Min({q \in pos..Len(t) : q < Len(t) => ~IsSpace(t, q)})

SentenceBudget == Lower(MaxSentenceShift, Overlap \div 2)

(* The ends of the sentences completed within the budget before pos.       *)
SentenceEnds(t, pos) ==
  IF ~Inside(t, pos) THEN {}
  ELSE {i + 1 : i \in {j \in Higher(pos - SentenceBudget, 0)..(pos - 1) : EndsSentence(t, j)}}

(* The starts of the sentences that begin within the budget after pos; a   *)
(* stop before pos counts when only spaces lie between.                    *)
SentenceStarts(t, pos) ==
  IF ~Inside(t, pos) THEN {}
  ELSE {AfterSpaces(t, i + 1) :
          i \in {j \in Higher(pos - SentenceBudget, 0)..(Lower(pos + SentenceBudget, Len(t)) - 1) :
                   EndsSentence(t, j)}}
       \cap pos..(pos + SentenceBudget)

(* Forward to the next word, unless pos is where one starts already, or    *)
(* the word it splits ends too far away.                                   *)
WordStart(t, pos) ==
  LET gaps == {c \in pos..(Lower(pos + MaxWordShift, Len(t)) - 1) : IsSpace(t, c)}
  IN  IF ~Inside(t, pos) \/ IsSpace(t, pos - 1) \/ gaps = {} THEN pos
      ELSE AfterSpaces(t, Min(gaps))

(* Back to the end of the previous word, likewise.                         *)
WordEnd(t, pos) ==
  LET ends == {c \in (Higher(pos - MaxWordShift, 0) + 1)..(pos - 1) : IsSpace(t, c - 1)}
  IN  IF ~Inside(t, pos) \/ IsSpace(t, pos) \/ IsSpace(t, pos - 1) \/ ends = {} THEN pos
      ELSE Max(ends)

SnapStart(t, pos) ==
  IF SentenceStarts(t, pos) # {} THEN Min(SentenceStarts(t, pos)) ELSE WordStart(t, pos)

SnapEnd(t, pos) ==
  IF SentenceEnds(t, pos) # {} THEN Max(SentenceEnds(t, pos)) ELSE WordEnd(t, pos)

NominalEnd(t, s) == Lower(s + Target, Len(t))

(* The window that nominally starts at s; the hard cut where one unbroken  *)
(* token swallowed both edges.                                             *)
Window(t, s) ==
  LET from == SnapStart(t, s)
      to   == SnapEnd(t, NominalEnd(t, s))
  IN  IF to <= from THEN [from |-> s, to |-> NominalEnd(t, s)] ELSE [from |-> from, to |-> to]

-----------------------------------------------------------------------------
(* The loop.                                                               *)

Ink(t) == {i \in 0..(Len(t) - 1) : ~IsSpace(t, i)}

(* The section that begins at lo reaches to the next heading.              *)
SectionEnd ==
  Min({q \in (lo + 1)..Len(text) : q < Len(text) => text[q + 1] = Heading})

Section == SubSeq(text, lo + 1, SectionEnd)

HeadingOf(p) == IF text[p + 1] = Heading THEN p ELSE -1

(* max(target - overlap, 1), with Overlap < Target.                        *)
Step == Target - Overlap

NextSection == lo' = SectionEnd /\ start' = 0

(* A section without any text yields nothing.                              *)
SkipBlank ==
  /\ lo < Len(text) /\ Ink(Section) = {}
  /\ NextSection
  /\ UNCHANGED <<text, windows>>

(* Fault: a section ends with the last full window.                        *)
CutFullOnly ==
  /\ lo < Len(text) /\ Ink(Section) # {}
  /\ LET w == Window(Section, start)
     IN  windows' = Append(windows,
           [from |-> lo + w.from, to |-> lo + w.to, heading |-> HeadingOf(lo)])
  /\ IF start + Step + Target > Len(Section)
       THEN NextSection
       ELSE start' = start + Step /\ UNCHANGED lo
  /\ UNCHANGED text

CutWindow ==
  /\ lo < Len(text) /\ Ink(Section) # {}
  /\ LET w == Window(Section, start)
     IN  windows' = Append(windows,
           [from |-> lo + w.from, to |-> lo + w.to, heading |-> HeadingOf(lo)])
  /\ IF NominalEnd(Section, start) = Len(Section)
       THEN NextSection
       ELSE start' = start + Step /\ UNCHANGED lo
  /\ UNCHANGED text

Cut == SkipBlank \/ CutWindow

Uncut == lo = 0 /\ start = 0 /\ windows = <<>>

(* The ink of a window, from its first to its last, is what strip leaves.  *)
InkOf(w) == {i \in w.from..(w.to - 1) : ~IsSpace(text, i)}

IsLong(w) == InkOf(w) # {} /\ Max(InkOf(w)) - Min(InkOf(w)) + 1 >= MinChars

-----------------------------------------------------------------------------
(* Properties.                                                             *)

(* ADR-0054's no-text-lost property: whatever boundaries the edges moved   *)
(* to, every visible character of what was cut so far is in some window.   *)
NoTextLost ==
  \A i \in 0..(lo - 1) :
    IsSpace(text, i) \/ \E k \in DOMAIN windows : windows[k].from <= i /\ i < windows[k].to

(* A window is not empty and lies in the section whose heading it carries. *)
WindowsInSection ==
  \A k \in DOMAIN windows :
    LET w == windows[k]
    IN  /\ w.from < w.to /\ w.to <= Len(text)
        /\ \A i \in (w.from + 1)..(w.to - 1) : text[i + 1] # Heading
        /\ w.heading # -1 => /\ w.heading <= w.from /\ text[w.heading + 1] = Heading
                            /\ \A i \in (w.heading + 1)..w.from : text[i + 1] # Heading

=============================================================================
