-------------------------- MODULE MCDocumentIntake --------------------------
(***************************************************************************)
(* The operator's lane and a channel attachment, whose bytes may be the    *)
(* same, and a request to bind the attachment to a lead; and all small     *)
(* documents, around limits as small.                                      *)
(***************************************************************************)
EXTENDS DocumentIntake, TLC

CONSTANTS inbox, media, lead1, lead2, good, bad

Capability(n) == [who |-> "A", nonce |-> n, path |-> media]
MCTokens == {Capability("n1")}

Operator == [key |-> "k1", path |-> inbox, token |-> None, lead |-> lead1]
Channel  == [key |-> "k2", path |-> media, token |-> Capability("n1"),
             lead |-> None]
MCRequests == {Operator, Channel}

MCBindings == {
  [key |-> "k3", token |-> Capability("n1"), of |-> Channel, lead |-> lead2]}

MCLimit ==
  [text |-> 3, pages |-> 3, inflated |-> 2, members |-> 5, unpacked |-> 6,
   ratio |-> 2, part |-> 2, sheets |-> 2, rows |-> 2, columns |-> 2,
   cells |-> 3, cell |-> 2, wrapping |-> 1, csv_rows |-> 2, csv_columns |-> 2]

-----------------------------------------------------------------------------
UpTo(S, n) == UNION {[1..k -> S] : k \in 0..n}

Stream(flate, decoded) ==
  [flate |-> flate, encoded |-> 1, decoded |-> decoded, intact |-> decoded < 5]

Pages(S) == {[text |-> n, streams |-> ss] : n \in 0..4, ss \in S}

Pdf(pages, readable, encrypted) ==
  [kind |-> "pdf", suffix |-> "pdf", readable |-> readable, active |-> FALSE,
   encrypted |-> encrypted, pages |-> pages]

PdfDocuments ==
  {Pdf(pages, TRUE, FALSE) : pages \in UpTo(Pages({<<>>}), 4)}
    \cup {Pdf(pages, readable, encrypted) :
            pages \in UpTo(Pages({<<Stream(f, n)>> : f \in BOOLEAN, n \in {1, 3, 5}}), 1),
            readable \in BOOLEAN, encrypted \in BOOLEAN}

Member(name, flaws) ==
  [name |-> name, size |-> 1, packed |-> 1, xml |-> TRUE, flaws |-> flaws]

Slide(number, text, notes) ==
  [number |-> number, text |-> text,
   relations |-> <<[type |-> "layout", target |-> 9]>> \o
                   [i \in DOMAIN notes |-> [type |-> "notes", target |-> notes[i]]]]

Presentation(slides, notes, flaws) ==
  [kind |-> "pptx", suffix |-> "pptx", slides |-> slides, notes |-> notes,
   members |-> <<Member("content_types", {}), Member("presentation", flaws)>>]

(* Slides of an archive in any order, whose notes have other numbers, or   *)
(* are not there.                                                          *)
PptxDocuments ==
  {Presentation(<<Slide(a, m, x), Slide(3 - a, n, y)>>, notes, {}) :
     a \in {1, 2}, m \in 0..4, n \in 0..4, x \in {<<>>, <<1>>},
     y \in {<<>>, <<2>>, <<7>>, <<7, 2>>},
     notes \in [{1, 2} -> 0..3]}
    \cup {Presentation(<<Slide(2, 1, <<1>>)>>, (1 :> 1), flaws) :
            flaws \in {{}, {"macro_type"}, {"external_link"}}}

Workbook(sheets) ==
  [kind |-> "xlsx", suffix |-> "xlsx", sheets |-> sheets,
   members |-> <<Member("content_types", {}), Member("workbook", {})>>]

Cells == {[chars |-> None, formula |-> FALSE], [chars |-> 1, formula |-> FALSE],
          [chars |-> 1, formula |-> TRUE], [chars |-> 2, formula |-> FALSE]}

XlsxDocuments ==
  {Workbook(sheets) :
     sheets \in UpTo(UpTo(UpTo({[chars |-> 1, formula |-> FALSE]}, 3), 2), 2)
                  \cup UpTo(UpTo(UpTo(Cells, 1), 3), 1)
                  \cup {<<<<r>>>> : r \in UpTo(Cells, 3)}}

CsvDocuments ==
  {[kind |-> "csv", suffix |-> suffix, binary |-> FALSE, rows |-> rows] :
     suffix \in {"csv", "pdf"}, rows \in UpTo(UpTo(0..2, 2), 2)
                                         \cup UpTo(UpTo({1}, 3), 3)}

MCDocuments ==
  PdfDocuments \cup PptxDocuments \cup XlsxDocuments \cup CsvDocuments

MCContents ==
  (good :> Pdf(<<[text |-> 1, streams |-> <<>>]>>, TRUE, FALSE))
    @@ (bad :> Pdf(<<>>, FALSE, FALSE))

Symmetry == Permutations(Clients)
=============================================================================
