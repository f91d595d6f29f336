-------------------------- MODULE DocumentFormats --------------------------
(***************************************************************************)
(* What inspect_document accepts of a document, and what extract_document  *)
(* returns of it: PDF, XLSX, PPTX and CSV, with every limit that stops one *)
(* of them.                                                                *)
(*                                                                         *)
(* A text is its number of characters.  The reasons of a rejection are     *)
(* left out, since all of them lead to the quarantine, and so are the      *)
(* libraries: pypdf, zipfile, openpyxl and csv return the structure that a *)
(* document is given as.                                                   *)
(***************************************************************************)
EXTENDS Integers, Sequences, SequencesExt, Absence

CONSTANT  Limit    \* the limits, by name

ASSUME LimitAssumption ==
  \A x \in {"text", "pages", "inflated", "members", "unpacked", "ratio",
            "part", "sheets", "rows", "columns", "cells", "cell",
            "wrapping", "csv_rows", "csv_columns"} : Limit[x] \in Nat

Kinds == {"pdf", "pptx", "xlsx", "csv"}

Bound(d, relation) ==
  relation.type = "notes" /\ relation.target \in DOMAIN d.notes

(* What the libraries return.  Relationships may name notes that are not   *)
(* in the archive, but a slide has one page of notes at most.              *)
Parsed(d) ==
  CASE d.kind = "pdf" ->
         d.pages \in Seq([text : Nat,
                          streams : Seq([flate : BOOLEAN, encoded : Nat,
                                         decoded : Nat, intact : BOOLEAN])])
    [] d.kind = "pptx" ->
         /\ d.slides \in Seq([number : Nat, text : Nat,
                               relations : Seq([type : STRING, target : Nat])])
         /\ \A n \in DOMAIN d.notes : d.notes[n] \in Nat
         /\ \A s \in ToSet(d.slides) : \A r, q \in ToSet(s.relations) :
              Bound(d, r) /\ Bound(d, q) => r.target = q.target
    [] d.kind = "xlsx" ->
         d.sheets \in Seq(Seq(Seq([chars : {None} \cup Nat, formula : BOOLEAN])))
    [] d.kind = "csv" -> d.rows \in Seq(Seq(Nat))

-----------------------------------------------------------------------------
(* _pdf_stream_decoded_size: other filters than Flate count as they are.   *)
Inflated(stream) == IF stream.flate THEN stream.decoded ELSE stream.encoded

(* _inspect_pdf.  The streams are inflated until the budget is spent.      *)
PdfAccepted(d) ==
  LET streams == FlattenSeq([i \in DOMAIN d.pages |-> d.pages[i].streams])
  IN  /\ d.readable /\ ~d.encrypted /\ ~d.active
      /\ Len(d.pages) <= Limit.pages
      /\ \A s \in ToSet(streams) : s.flate => s.intact
      /\ SumFunction([i \in DOMAIN streams |-> Inflated(streams[i])])
           <= Limit.inflated

(* What is forbidden in an archive; links and declarations are looked for  *)
(* in the XML parts only.                                                  *)
InText == {"doctype", "external_relationship", "external_link"}

Forbidden(kind) ==
  {"traversal", "encrypted", "embedded", "macro", "doctype",
   "external_relationship"}
    \cup (IF kind = "xlsx" THEN {"external_link"} ELSE {"macro_type"})

Seen(member) == IF member.xml THEN member.flaws ELSE member.flaws \ InText

Required(kind) ==
  {"content_types", IF kind = "xlsx" THEN "workbook" ELSE "presentation"}

(* _inspect_xlsx_archive and _inspect_pptx_archive.                        *)
ArchiveAccepted(d) ==
  LET ms == d.members
  IN  /\ Len(ms) <= Limit.members
      /\ \A i, j \in DOMAIN ms : i # j => ms[i].name # ms[j].name
      /\ Required(d.kind) \subseteq {m.name : m \in ToSet(ms)}
      /\ \A m \in ToSet(ms) :
           /\ Seen(m) \cap Forbidden(d.kind) = {}
           /\ m.size <= Limit.ratio * Max({m.packed, 1})
           /\ m.xml => m.size <= Limit.part
      /\ SumFunction([i \in DOMAIN ms |-> ms[i].size]) <= Limit.unpacked
      /\ d.kind = "pptx" => Len(d.slides) \in 1..Limit.pages

(* The suffix names the format that the first bytes have.                  *)
Accepted(d) ==
  /\ d.suffix = d.kind
  /\ CASE d.kind = "pdf" -> PdfAccepted(d)
       [] d.kind \in {"xlsx", "pptx"} -> ArchiveAccepted(d)
       [] d.kind = "csv" -> ~d.binary

-----------------------------------------------------------------------------
(* The characters that a budget of which some are used has left for n.     *)
Fit(n, used) == Min({n, Max({Limit.text - used, 0})})

(* row and sheet: the part of a workbook that is being read.               *)
Nothing == [kept |-> <<>>, total |-> 0, truncated |-> FALSE, done |-> FALSE,
            cells |-> 0, failed |-> FALSE, row |-> <<>>, sheet |-> <<>>]

(* The loop ends with a page that is cut or reaches the limit; what comes  *)
(* behind it is lost.                                                      *)
Lost(acc, cut, more) == cut \/ (acc.total >= Limit.text /\ more)

Ending(acc, cut, more) ==
  [acc EXCEPT !.truncated = Lost(acc, cut, more),
              !.done = cut \/ acc.total >= Limit.text]

(* _extract_pdf.                                                           *)
PdfPage(acc, n, count) ==
  LET page == [acc EXCEPT !.kept = Append(@, Fit(n, acc.total)),
                          !.total = @ + Fit(n, acc.total)]
  IN  IF acc.done THEN acc
      ELSE Ending(page, n > Fit(n, acc.total), Len(page.kept) < count)

ExtractPdf(d) ==
  IF ~d.readable THEN [Nothing EXCEPT !.failed = TRUE]
  ELSE FoldLeft(LAMBDA acc, page : PdfPage(acc, page.text, Len(d.pages)),
                Nothing, d.pages)

(* The slides in the order of their numbers, not of the archive.           *)
SlidesOf(d) ==
  LET slides == ToSet(d.slides)
  IN  CHOOSE ss \in [1..Cardinality(slides) -> slides] :
        \A i, j \in DOMAIN ss :
          i < j => ss[i] # ss[j] /\ ss[i].number <= ss[j].number

NotesByNumber(d, slide) ==                                 \* mutant
  IF slide.number \in DOMAIN d.notes THEN d.notes[slide.number] ELSE None

(* _pptx_notes_part: the first relationship to notes that are there.       *)
Notes(d, slide) ==
  LET found == {i \in DOMAIN slide.relations : Bound(d, slide.relations[i])}
  IN  IF found = {} THEN None ELSE d.notes[slide.relations[Min(found)].target]

(* Notes are looked at when the text of their slide was not cut.           *)
NotesFit(notes, used, cut) ==
  IF notes = None \/ cut THEN 0 ELSE Fit(notes, used)

(* _extract_pptx.                                                          *)
PptxSlide(acc, d, slide) ==
  LET text  == Fit(slide.text, acc.total)
      cut   == slide.text > text
      given == Notes(d, slide)
      notes == NotesFit(given, acc.total + text, cut)
      next  == [acc EXCEPT !.kept = Append(@, <<text, notes>>),
                           !.total = @ + text + notes]
      short == cut \/ (given # None /\ given > notes)
  IN  IF acc.done THEN acc
      ELSE Ending(next, short, Len(next.kept) < Len(d.slides))

ExtractPptx(d) ==
  FoldLeft(LAMBDA acc, slide : PptxSlide(acc, d, slide), Nothing, SlidesOf(d))

-----------------------------------------------------------------------------
(* _safe_cell: a long text is cut, and a formula is wrapped.               *)
SafeCell(cell) ==
  IF cell.chars = None THEN 0
  ELSE Min({cell.chars, Limit.cell})
         + (IF cell.formula THEN Limit.wrapping ELSE 0)

(* _extract_xlsx.  The cell over a limit is kept; the row and the sheet it *)
(* is in are the last ones.                                                *)
XlsxCell(acc, cell) ==
  LET next == [acc EXCEPT !.row = Append(@, SafeCell(cell)),
                          !.cells = @ + 1, !.total = @ + SafeCell(cell)]
  IN  IF acc.truncated THEN acc
      ELSE [next EXCEPT !.truncated =
              next.cells > Limit.cells \/ next.total > Limit.text]

XlsxRow(acc, row) ==
  LET next == FoldLeft(XlsxCell, [acc EXCEPT !.row = <<>>], row)
  IN  IF acc.truncated \/ acc.failed THEN acc
      ELSE IF Len(acc.sheet) = Limit.rows THEN [acc EXCEPT !.truncated = TRUE]
      ELSE IF Len(row) > Limit.columns THEN [acc EXCEPT !.failed = TRUE]
      ELSE [next EXCEPT !.sheet = Append(@, next.row)]

XlsxSheet(acc, rows) ==
  LET next == FoldLeft(XlsxRow, [acc EXCEPT !.sheet = <<>>], rows)
  IN  IF acc.truncated \/ acc.failed THEN acc
      ELSE [next EXCEPT !.kept = Append(@, next.sheet)]

ExtractXlsx(d) ==
  IF Len(d.sheets) > Limit.sheets THEN [Nothing EXCEPT !.failed = TRUE]
  ELSE FoldLeft(XlsxSheet, Nothing, d.sheets)

(* _extract_csv: the row that exceeds the budget is dropped.               *)
CsvRow(acc, row) ==
  LET total == acc.total + SumFunction(row)
  IN  IF acc.truncated \/ acc.failed THEN acc
      ELSE IF Len(acc.kept) = Limit.csv_rows
      THEN [acc EXCEPT !.truncated = TRUE]
      ELSE IF Len(row) > Limit.csv_columns THEN [acc EXCEPT !.failed = TRUE]
      ELSE IF total > Limit.text
      THEN [acc EXCEPT !.truncated = TRUE, !.total = total]
      ELSE [acc EXCEPT !.kept = Append(@, row), !.total = total]

ExtractCsv(d) == FoldLeft(CsvRow, Nothing, d.rows)

Extract(d) ==
  CASE d.kind = "pdf"  -> ExtractPdf(d)
    [] d.kind = "xlsx" -> ExtractXlsx(d)
    [] d.kind = "pptx" -> ExtractPptx(d)
    [] d.kind = "csv"  -> ExtractCsv(d)
=============================================================================
