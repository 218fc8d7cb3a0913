-------------------------------- MODULE PdfFile --------------------------------
(***************************************************************************)
(* PdfWriter (src-tauri/src/pdf.rs): pages are appended as they arrive,    *)
(* three objects each, the catalog and the page tree last, and the xref    *)
(* table maps object numbers to places in the file.  The file is a         *)
(* sequence of pieces, one for each emit, and a place in it is the number  *)
(* of pieces before it, where the code counts bytes.                       *)
(***************************************************************************)
EXTENDS Naturals, Sequences

CONSTANT MaxPages  \* bound: pages of the document

ASSUME PagesAssumption == MaxPages \in Nat

VARIABLES
  file,      \* the pieces emitted
  offsets,   \* place of each object, by number; 0 where not yet marked
  pageObjs,  \* page_objs: the numbers of the page objects
  document   \* "open", "failed" or "finished"

pdfVars == <<file, offsets, pageObjs, document>>

(* A piece: the object it begins (0 for none), what it is, the objects it  *)
(* refers to and what it takes them to be.                                 *)
Ref(n, type) == [obj |-> n, type |-> type]
Piece(n, type, refs) == [obj |-> n, type |-> type, refs |-> refs]
Body == Piece(0, "body", <<>>)

PdfInit ==
  /\ file = <<Piece(0, "header", <<>>)>>
  /\ offsets = <<>>
  /\ pageObjs = <<>>
  /\ document = "open"

(* mark: the table grows with zeros as far as the object.                  *)
Mark(table, n, at) ==
  [i \in 1..(IF n > Len(table) THEN n ELSE Len(table)) |->
     IF i = n THEN at ELSE IF i <= Len(table) THEN table[i] ELSE 0]

(* Mutant: objects are numbered by the page alone.                         *)
FirstObjectTight(i) == 3 + i * 2

(* The number of the page object of page i, counted from 0; its content    *)
(* stream and its image come next.                                         *)
FirstObject(i) == 3 + i * 3

(* Mutant: the image is marked after its object was begun.                 *)
AddPageMarksLate ==
  /\ document = "open"
  /\ Len(pageObjs) < MaxPages
  /\ LET obj == FirstObject(Len(pageObjs))  at == Len(file) IN
       /\ offsets' = Mark(Mark(Mark(offsets, obj, at), obj + 1, at + 1), obj + 2, at + 5)
       /\ file' = file \o
            <<Piece(obj, "page", <<Ref(2, "pages"), Ref(obj + 1, "contents"), Ref(obj + 2, "image")>>),
              Piece(obj + 1, "contents", <<>>), Body, Body,
              Piece(obj + 2, "image", <<>>), Body, Body>>
       /\ pageObjs' = Append(pageObjs, obj)
  /\ UNCHANGED document

(* add_page with one or three channels, the only ones consume_pages gives. *)
AddPage ==
  /\ document = "open"
  /\ Len(pageObjs) < MaxPages
  /\ LET obj == FirstObject(Len(pageObjs))  at == Len(file) IN
       /\ offsets' = Mark(Mark(Mark(offsets, obj, at), obj + 1, at + 1), obj + 2, at + 4)
       /\ file' = file \o
            <<Piece(obj, "page", <<Ref(2, "pages"), Ref(obj + 1, "contents"), Ref(obj + 2, "image")>>),
              Piece(obj + 1, "contents", <<>>), Body, Body,
              Piece(obj + 2, "image", <<>>), Body, Body>>
       /\ pageObjs' = Append(pageObjs, obj)
  /\ UNCHANGED document

(* An emit or the final flush fails: the file is given up as it is.        *)
WriteFails ==
  /\ document = "open"
  /\ document' = "failed"
  /\ UNCHANGED <<file, offsets, pageObjs>>

(* finish: objects 1 and 2, then the table, which is offsets as they are   *)
(* with Len(offsets) + 1 for its size, and the trailer.                    *)
Finish ==
  /\ document = "open"
  /\ LET at == Len(file) IN
       /\ offsets' = Mark(Mark(offsets, 1, at), 2, at + 1)
       /\ file' = file \o
            <<Piece(1, "catalog", <<Ref(2, "pages")>>),
              Piece(2, "pages", [i \in 1..Len(pageObjs) |-> Ref(pageObjs[i], "page")]),
              Piece(0, "xref", <<>>), Piece(0, "trailer", <<Ref(1, "catalog")>>)>>
  /\ document' = "finished"
  /\ UNCHANGED pageObjs

PdfNext == AddPage \/ WriteFails \/ Finish

PdfSpec == PdfInit /\ [][PdfNext]_pdfVars

(***************************************************************************)
(* Properties.                                                             *)
(***************************************************************************)

(* For any number of pages, none included, a finished file has an entry    *)
(* for each object from 1 on and no other, and each entry is the place     *)
(* where that object begins.                                               *)
XrefExact ==
  document = "finished" =>
    /\ \A n \in 1..Len(offsets) : file[offsets[n] + 1].obj = n
    /\ \A i \in 1..Len(file) : file[i].obj \in 0..Len(offsets)

(* Every reference of a finished file leads through the table to an object *)
(* of the kind it is taken for, and the page tree names each page once, in *)
(* the order in which the pages were added.                                *)
ReferencesResolve ==
  document = "finished" =>
    /\ \A i \in 1..Len(file) : \A k \in 1..Len(file[i].refs) :
         LET r == file[i].refs[k] IN
           r.obj \in 1..Len(offsets) /\ file[offsets[r.obj] + 1].type = r.type
    /\ \A i \in 1..Len(file) : file[i].type = "page" =>
         \E k \in 1..Len(pageObjs) : pageObjs[k] = file[i].obj
    /\ \A i, j \in 1..Len(pageObjs) : i < j => offsets[pageObjs[i]] < offsets[pageObjs[j]]

(* A finished document can be read: its table is exact and every reference *)
(* leads where it should.                                                  *)
DocumentSound == XrefExact /\ ReferencesResolve
=============================================================================
