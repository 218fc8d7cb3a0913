------------------------------ MODULE PageProofs ------------------------------
(***************************************************************************)
(* What becomes of a page, for every geometry, depth, way of handing it    *)
(* over and number of pages: the samples that raw::normalize lets through  *)
(* are those of the driver's image, and the document that the pages end in *)
(* has an exact xref table and no reference that leads astray.             *)
(***************************************************************************)
EXTENDS PageImage, PdfFile, SequenceTheorems, TLAPS

(***************************************************************************)
(* PdfWriter.  The file is laid out in pages of seven pieces behind the    *)
(* header, and the table follows from that; both grow with the pages, so   *)
(* the layout is the inductive invariant.                                  *)
(***************************************************************************)
Types == {"header", "body", "page", "contents", "image", "catalog", "pages", "xref", "trailer"}
Refs == Seq([obj : Nat, type : Types])
Pieces == [obj : Nat, type : Types, refs : Refs]

(* The number of pieces before page k, counted from 1. *)
At(k) == 7 * k - 6

(* Page k: the number of its object, its pieces and their places.          *)
PageLaid(k) ==
  /\ pageObjs[k] = 3 * k
  /\ file[At(k) + 1] = Piece(3 * k, "page", <<Ref(2, "pages"), Ref(3 * k + 1, "contents"),
                                              Ref(3 * k + 2, "image")>>)
  /\ file[At(k) + 2] = Piece(3 * k + 1, "contents", <<>>)
  /\ file[At(k) + 3] = Body /\ file[At(k) + 4] = Body
  /\ file[At(k) + 5] = Piece(3 * k + 2, "image", <<>>)
  /\ file[At(k) + 6] = Body /\ file[At(k) + 7] = Body
  /\ offsets[3 * k] = At(k)
  /\ offsets[3 * k + 1] = At(k) + 1
  /\ offsets[3 * k + 2] = At(k) + 4

(* What finish adds behind n pages. *)
EndLaid(n) ==
  /\ file[At(n + 1) + 1] = Piece(1, "catalog", <<Ref(2, "pages")>>)
  /\ file[At(n + 1) + 2] = Piece(2, "pages", [i \in 1..n |-> Ref(pageObjs[i], "page")])
  /\ file[At(n + 1) + 3] = Piece(0, "xref", <<>>)
  /\ file[At(n + 1) + 4] = Piece(0, "trailer", <<Ref(1, "catalog")>>)
  /\ offsets[1] = At(n + 1) /\ offsets[2] = At(n + 1) + 1

Laid ==
  /\ document \in {"open", "failed", "finished"}
  /\ file \in Seq(Pieces) /\ offsets \in Seq(Nat) /\ pageObjs \in Seq(Nat)
  /\ LET n == Len(pageObjs)  more == IF document = "finished" THEN 4 ELSE 0 IN
       /\ Len(file) = At(n + 1) + more
       /\ Len(offsets) = IF n = 0 /\ document # "finished" THEN 0 ELSE 3 * n + 2
       /\ file[1] = Piece(0, "header", <<>>)
       /\ \A k \in 1..n : PageLaid(k)
       /\ document = "finished" => EndLaid(n)

(* Marking an object keeps the entries of the others.                      *)
LEMMA Marked ==
  ASSUME NEW table \in Seq(Nat), NEW n \in Nat \ {0}, NEW at \in Nat
  PROVE  /\ Mark(table, n, at) \in Seq(Nat)
         /\ Len(Mark(table, n, at)) = IF n > Len(table) THEN n ELSE Len(table)
         /\ Mark(table, n, at)[n] = at
         /\ \A i \in 1..Len(table) : i # n => Mark(table, n, at)[i] = table[i]
  <1> DEFINE m == IF n > Len(table) THEN n ELSE Len(table)
             f == [i \in 1..m |-> IF i = n THEN at ELSE IF i <= Len(table) THEN table[i] ELSE 0]
  <1>1. Len(table) \in Nat /\ \A i \in 1..Len(table) : table[i] \in Nat
    OBVIOUS
  <1>2. m \in Nat /\ n \in 1..m /\ 1..Len(table) \subseteq 1..m
    BY <1>1
  <1> HIDE DEF m
  <1>3. \A i \in 1..m : (IF i = n THEN at ELSE IF i <= Len(table) THEN table[i] ELSE 0) \in Nat
    <2> SUFFICES ASSUME NEW i \in 1..m
                 PROVE  (IF i = n THEN at ELSE IF i <= Len(table) THEN table[i] ELSE 0) \in Nat
      OBVIOUS
    <2>1. CASE i <= Len(table)
      <3>1. i \in 1..Len(table)
        BY <1>1, <1>2, <2>1
      <3>2. QED
        BY <1>1, <2>1, <3>1
    <2>2. CASE ~(i <= Len(table))
      BY <2>2
    <2>3. QED
      BY <2>1, <2>2
  <1>4. f \in Seq(Nat) /\ Len(f) = m
    BY <1>2, <1>3
  <1>5. f[n] = at /\ \A i \in 1..Len(table) : i # n => f[i] = table[i]
    BY <1>1, <1>2
  <1>6. Mark(table, n, at) = f
    BY DEF Mark, m
  <1> HIDE DEF f
  <1>7. QED
    BY <1>4, <1>5, <1>6 DEF m

(* The pieces that PdfWriter emits.                                        *)
LEMMA PieceTypes ==
  /\ Body \in Pieces
  /\ \A n \in Nat, type \in Types : Piece(n, type, <<>>) \in Pieces
  /\ \A n \in Nat, type \in Types, refs \in Refs : Piece(n, type, refs) \in Pieces
  <1>1. <<>> \in Refs
    BY EmptySeq DEF Refs
  <1>2. \A n \in Nat, type \in Types, refs \in Refs : Piece(n, type, refs) \in Pieces
    BY DEF Piece, Pieces
  <1>3. QED
    BY <1>1, <1>2 DEF Body, Types

(* PdfWriter::create writes the header and knows no object.                *)
LEMMA PdfInitLaid == PdfInit => Laid
  <1> SUFFICES ASSUME PdfInit PROVE Laid
    OBVIOUS
  <1>1. Piece(0, "header", <<>>) \in Pieces
    BY PieceTypes DEF Types
  <1>2. /\ file \in Seq(Pieces) /\ Len(file) = 1 /\ file[1] = Piece(0, "header", <<>>)
        /\ offsets \in Seq(Nat) /\ Len(offsets) = 0
        /\ pageObjs \in Seq(Nat) /\ Len(pageObjs) = 0
    BY <1>1, EmptySeq DEF PdfInit
  <1>3. QED
    BY <1>2 DEF PdfInit, Laid, At

(* A page is laid behind the others, and marked where it was laid.         *)
LEMMA AddPageLaid == Laid /\ AddPage => Laid'
  <1> SUFFICES ASSUME Laid, AddPage PROVE Laid'
    OBVIOUS
  <1>1. PICK n \in Nat : n = Len(pageObjs)
    BY DEF Laid
  <1> DEFINE obj == FirstObject(Len(pageObjs))
             first == Piece(obj, "page", <<Ref(2, "pages"), Ref(obj + 1, "contents"),
                                           Ref(obj + 2, "image")>>)
             second == Piece(obj + 1, "contents", <<>>)
             third == Piece(obj + 2, "image", <<>>)
             added == <<first, second, Body, Body, third, Body, Body>>
             at == Len(file)
  <1>2. /\ document = "open" /\ document' = "open"
        /\ file \in Seq(Pieces) /\ offsets \in Seq(Nat) /\ pageObjs \in Seq(Nat)
        /\ at = 7 * n + 1 /\ Len(offsets) = (IF n = 0 THEN 0 ELSE 3 * n + 2)
        /\ obj = 3 * n + 3
    BY <1>1 DEF Laid, AddPage, At, FirstObject
  <1>3. /\ file' = file \o added /\ pageObjs' = Append(pageObjs, obj)
        /\ offsets' = Mark(Mark(Mark(offsets, obj, at), obj + 1, at + 1), obj + 2, at + 4)
    BY DEF AddPage
  <1>4. first \in Pieces /\ second \in Pieces /\ third \in Pieces /\ Body \in Pieces
    <2>1. obj \in Nat /\ obj + 1 \in Nat /\ obj + 2 \in Nat
      BY <1>1, <1>2
    <2> DEFINE R == [obj : Nat, type : Types]
    <2>2. Ref(2, "pages") \in R /\ Ref(obj + 1, "contents") \in R /\ Ref(obj + 2, "image") \in R
      BY <2>1 DEF Ref, Types
    <2> HIDE DEF R
    <2>3. <<Ref(2, "pages"), Ref(obj + 1, "contents"), Ref(obj + 2, "image")>> \in Seq(R)
      BY <2>2
    <2>4. <<Ref(2, "pages"), Ref(obj + 1, "contents"), Ref(obj + 2, "image")>> \in Refs
      BY <2>3 DEF Refs, R
    <2> HIDE DEF obj
    <2>5. QED
      BY <2>1, <2>4, PieceTypes DEF Types
  <1> HIDE DEF first, second, third, obj, at
  <1>5. /\ file' \in Seq(Pieces) /\ Len(file') = 7 * n + 8
        /\ \A i \in 1..7 * n + 1 : file'[i] = file[i]
        /\ file'[7 * n + 2] = first /\ file'[7 * n + 3] = second
        /\ file'[7 * n + 4] = Body /\ file'[7 * n + 5] = Body /\ file'[7 * n + 6] = third
        /\ file'[7 * n + 7] = Body /\ file'[7 * n + 8] = Body
    <2>1. added \in Seq(Pieces) /\ Len(added) = 7
      BY <1>4
    <2>2. /\ added[1] = first /\ added[2] = second /\ added[3] = Body /\ added[4] = Body
          /\ added[5] = third /\ added[6] = Body /\ added[7] = Body
      OBVIOUS
    <2> HIDE DEF added
    <2>3. Len(file) = 7 * n + 1
      BY <1>2 DEF at
    <2>4. /\ file' \in Seq(Pieces) /\ Len(file') = Len(file) + 7
          /\ \A i \in 1..Len(file) + 7 :
               file'[i] = IF i <= Len(file) THEN file[i] ELSE added[i - Len(file)]
      <3>1. file \in Seq(Pieces) /\ file' = file \o added
        BY <1>2, <1>3
      <3>2. /\ file \o added \in Seq(Pieces) /\ Len(file \o added) = Len(file) + Len(added)
            /\ \A i \in 1..Len(file) + Len(added) :
                 (file \o added)[i] = IF i <= Len(file) THEN file[i] ELSE added[i - Len(file)]
        BY <2>1, <3>1, ConcatProperties
      <3>3. QED
        BY <2>1, <3>1, <3>2
    <2>5. /\ \A i \in 1..Len(file) : file'[i] = file[i]
          /\ \A j \in 1..7 : file'[Len(file) + j] = added[j]
      <3>1. ASSUME NEW i \in 1..Len(file) PROVE file'[i] = file[i]
        BY <1>1, <2>3, <2>4
      <3>2. ASSUME NEW j \in 1..7 PROVE file'[Len(file) + j] = added[j]
        <4>1. /\ Len(file) + j \in 1..Len(file) + 7 /\ ~(Len(file) + j <= Len(file))
              /\ (Len(file) + j) - Len(file) = j
          BY <1>1, <2>3
        <4>2. QED
          BY <2>4, <4>1
      <3>3. QED
        BY <3>1, <3>2
    <2>6. /\ 7 * n + 2 = Len(file) + 1 /\ 7 * n + 3 = Len(file) + 2 /\ 7 * n + 4 = Len(file) + 3
          /\ 7 * n + 5 = Len(file) + 4 /\ 7 * n + 6 = Len(file) + 5 /\ 7 * n + 7 = Len(file) + 6
          /\ 7 * n + 8 = Len(file) + 7
      BY <1>1, <2>3
    <2>7. QED
      BY <2>2, <2>3, <2>4, <2>5, <2>6
  <1>6. /\ pageObjs' \in Seq(Nat) /\ Len(pageObjs') = n + 1 /\ pageObjs'[n + 1] = 3 * (n + 1)
        /\ \A k \in 1..n : pageObjs'[k] = pageObjs[k]
    <2>1. obj \in Nat /\ obj = 3 * (n + 1)
      BY <1>1, <1>2
    <2>2. QED
      BY <1>1, <1>2, <1>3, <2>1, AppendProperties
  <1>7. /\ offsets' \in Seq(Nat) /\ Len(offsets') = 3 * n + 5
        /\ offsets'[3 * n + 3] = 7 * n + 1 /\ offsets'[3 * n + 4] = 7 * n + 2
        /\ offsets'[3 * n + 5] = 7 * n + 5
        /\ \A i \in 1..Len(offsets) : offsets'[i] = offsets[i]
    <2> DEFINE one == Mark(offsets, obj, at)
               two == Mark(one, obj + 1, at + 1)
    <2>1. /\ obj \in Nat \ {0} /\ obj + 1 \in Nat \ {0} /\ obj + 2 \in Nat \ {0}
          /\ at \in Nat /\ at + 1 \in Nat /\ at + 4 \in Nat /\ Len(offsets) < obj
          /\ Len(offsets) \in Nat
      BY <1>1, <1>2
    <2>2. /\ one \in Seq(Nat) /\ Len(one) = obj /\ one[obj] = at
          /\ \A i \in 1..Len(offsets) : one[i] = offsets[i]
      <3>1. offsets \in Seq(Nat) /\ \A i \in 1..Len(offsets) : i # obj
        BY <1>2, <2>1
      <3>2. QED
        BY <2>1, <3>1, Marked
    <2> HIDE DEF one
    <2>3. /\ two \in Seq(Nat) /\ Len(two) = obj + 1 /\ two[obj + 1] = at + 1 /\ two[obj] = at
          /\ \A i \in 1..Len(offsets) : two[i] = offsets[i]
      <3>1. \A i \in 1..Len(one) : i # obj + 1
        BY <2>1, <2>2
      <3>2. obj \in 1..Len(one) /\ \A i \in 1..Len(offsets) : i \in 1..Len(one)
        BY <2>1, <2>2
      <3>3. PICK number, place \in Nat : number = obj + 1 /\ place = at + 1
        BY <2>1
      <3>4. two = Mark(one, number, place) /\ number \in Nat \ {0}
        BY <2>1, <3>3
      <3> HIDE DEF two
      <3>5. /\ two \in Seq(Nat) /\ Len(two) = IF number > Len(one) THEN number ELSE Len(one)
            /\ two[number] = place
            /\ \A i \in 1..Len(one) : i # number => two[i] = one[i]
        BY <2>2, <3>3, <3>4, Marked
      <3>6. QED
        BY <2>1, <2>2, <3>1, <3>2, <3>3, <3>5
    <2> HIDE DEF two
    <2>4. /\ offsets' \in Seq(Nat) /\ Len(offsets') = obj + 2 /\ offsets'[obj + 2] = at + 4
          /\ offsets'[obj + 1] = at + 1 /\ offsets'[obj] = at
          /\ \A i \in 1..Len(offsets) : offsets'[i] = offsets[i]
      <3>1. offsets' = Mark(two, obj + 2, at + 4)
        BY <1>3 DEF one, two
      <3>2. \A i \in 1..Len(two) : i # obj + 2
        BY <2>1, <2>3
      <3>3. /\ obj \in 1..Len(two) /\ obj + 1 \in 1..Len(two)
            /\ \A i \in 1..Len(offsets) : i \in 1..Len(two)
        BY <2>1, <2>3
      <3>4. PICK number, place \in Nat : number = obj + 2 /\ place = at + 4
        BY <2>1
      <3>5. offsets' = Mark(two, number, place) /\ number \in Nat \ {0}
        BY <2>1, <3>1, <3>4
      <3>6. /\ offsets' \in Seq(Nat)
            /\ Len(offsets') = IF number > Len(two) THEN number ELSE Len(two)
            /\ offsets'[number] = place
            /\ \A i \in 1..Len(two) : i # number => offsets'[i] = two[i]
        <4>1. two \in Seq(Nat) /\ number \in Nat \ {0} /\ place \in Nat
          BY <2>3, <3>5
        <4>2. offsets' = Mark(two, number, place)
          BY <3>5
        <4>3. QED
          BY ONLY <4>1, <4>2, Marked
      <3>7. QED
        BY <2>1, <2>3, <3>2, <3>3, <3>4, <3>6, SMTT(20)
    <2>5. QED
      BY <1>1, <1>2, <2>4
  <1>8. PageLaid(n + 1)'
    <2>1. /\ At(n + 1) = 7 * n + 1 /\ 3 * (n + 1) = 3 * n + 3 /\ obj = 3 * (n + 1)
          /\ At(n + 1) + 1 = 7 * n + 2 /\ At(n + 1) + 2 = 7 * n + 3 /\ At(n + 1) + 3 = 7 * n + 4
          /\ At(n + 1) + 4 = 7 * n + 5 /\ At(n + 1) + 5 = 7 * n + 6 /\ At(n + 1) + 6 = 7 * n + 7
          /\ At(n + 1) + 7 = 7 * n + 8
          /\ 3 * (n + 1) + 1 = 3 * n + 4 /\ 3 * (n + 1) + 2 = 3 * n + 5
      BY <1>1, <1>2 DEF At
    <2>2. QED
      BY <1>5, <1>6, <1>7, <2>1 DEF PageLaid, first, second, third
  <1>9. ASSUME NEW k \in 1..n PROVE PageLaid(k)'
    <2>1. PageLaid(k)
      BY <1>1 DEF Laid
    <2>2. /\ 7 * k + 1 <= 7 * n + 1 /\ k \in Nat \ {0} /\ Len(offsets) = 3 * n + 2
      BY <1>1, <1>2
    <2>3. /\ At(k) \in Nat /\ At(k) + 1 \in 1..7 * n + 1 /\ At(k) + 2 \in 1..7 * n + 1
          /\ At(k) + 3 \in 1..7 * n + 1 /\ At(k) + 4 \in 1..7 * n + 1
          /\ At(k) + 5 \in 1..7 * n + 1 /\ At(k) + 6 \in 1..7 * n + 1
          /\ At(k) + 7 \in 1..7 * n + 1
          /\ 3 * k \in 1..Len(offsets) /\ 3 * k + 1 \in 1..Len(offsets)
          /\ 3 * k + 2 \in 1..Len(offsets)
      BY <1>1, <2>2 DEF At
    <2>4. QED
      BY <1>5, <1>6, <1>7, <2>1, <2>3 DEF PageLaid
  <1>10. file'[1] = Piece(0, "header", <<>>)
    <2>1. 1 \in 1..7 * n + 1 /\ file[1] = Piece(0, "header", <<>>)
      BY <1>1 DEF Laid
    <2>2. QED
      BY <1>5, <2>1
  <1>11. \A k \in 1..n + 1 : PageLaid(k)'
    BY <1>1, <1>8, <1>9
  <1>12. QED
    BY <1>1, <1>2, <1>5, <1>6, <1>7, <1>10, <1>11 DEF Laid, At

(* finish lays the catalog and the page tree, and marks their objects.     *)
LEMMA FinishLaid == Laid /\ Finish => Laid'
  <1> SUFFICES ASSUME Laid, Finish PROVE Laid'
    OBVIOUS
  <1>1. PICK n \in Nat : n = Len(pageObjs)
    BY DEF Laid
  <1> DEFINE first == Piece(1, "catalog", <<Ref(2, "pages")>>)
             tree == [i \in 1..n |-> Ref(pageObjs[i], "page")]
             second == Piece(2, "pages", tree)
             third == Piece(0, "xref", <<>>)
             fourth == Piece(0, "trailer", <<Ref(1, "catalog")>>)
             added == <<first, second, third, fourth>>
             at == Len(file)
             one == Mark(offsets, 1, at)
  <1>2. /\ document = "open" /\ document' = "finished" /\ pageObjs' = pageObjs
        /\ file \in Seq(Pieces) /\ offsets \in Seq(Nat) /\ pageObjs \in Seq(Nat)
        /\ Len(file) = 7 * n + 1 /\ Len(offsets) = (IF n = 0 THEN 0 ELSE 3 * n + 2)
        /\ \A k \in 1..n : PageLaid(k)
        /\ file[1] = Piece(0, "header", <<>>)
    BY <1>1 DEF Laid, Finish, At
  <1>3. /\ file' = file \o added /\ offsets' = Mark(one, 2, at + 1)
    BY <1>1 DEF Finish
  <1>4. first \in Pieces /\ second \in Pieces /\ third \in Pieces /\ fourth \in Pieces
    <2> DEFINE R == [obj : Nat, type : Types]
    <2>1. Ref(2, "pages") \in R /\ Ref(1, "catalog") \in R
      BY DEF Ref, Types
    <2>2. \A i \in 1..n : Ref(pageObjs[i], "page") \in R
      BY <1>1, <1>2 DEF Ref, Types
    <2> HIDE DEF R
    <2>3. <<Ref(2, "pages")>> \in Seq(R) /\ <<Ref(1, "catalog")>> \in Seq(R) /\ tree \in Seq(R)
      BY <1>1, <2>1, <2>2
    <2>4. <<Ref(2, "pages")>> \in Refs /\ <<Ref(1, "catalog")>> \in Refs /\ tree \in Refs
      BY <2>3 DEF Refs, R
    <2> HIDE DEF tree
    <2>5. QED
      BY <2>4, PieceTypes DEF Types
  <1> HIDE DEF first, second, third, fourth, at, one
  <1>5. /\ file' \in Seq(Pieces) /\ Len(file') = Len(file) + 4
        /\ \A i \in 1..Len(file) : file'[i] = file[i]
        /\ file'[Len(file) + 1] = first /\ file'[Len(file) + 2] = second
        /\ file'[Len(file) + 3] = third /\ file'[Len(file) + 4] = fourth
    <2>1. added \in Seq(Pieces) /\ Len(added) = 4 /\ Len(file) \in Nat
      BY <1>2, <1>4
    <2>2. added[1] = first /\ added[2] = second /\ added[3] = third /\ added[4] = fourth
      OBVIOUS
    <2> HIDE DEF added
    <2>3. /\ file \o added \in Seq(Pieces) /\ Len(file \o added) = Len(file) + Len(added)
          /\ \A i \in 1..Len(file) + Len(added) :
               (file \o added)[i] = IF i <= Len(file) THEN file[i] ELSE added[i - Len(file)]
      BY <1>2, <2>1, ConcatProperties
    <2>4. /\ \A i \in 1..Len(file) : file'[i] = file[i]
          /\ \A j \in 1..4 : file'[Len(file) + j] = added[j]
      <3>1. ASSUME NEW i \in 1..Len(file) PROVE file'[i] = file[i]
        BY <1>3, <2>1, <2>3
      <3>2. ASSUME NEW j \in 1..4 PROVE file'[Len(file) + j] = added[j]
        <4>1. /\ Len(file) + j \in 1..Len(file) + 4 /\ ~(Len(file) + j <= Len(file))
              /\ (Len(file) + j) - Len(file) = j
          BY <2>1
        <4>2. QED
          BY <1>3, <2>1, <2>3, <4>1
      <3>3. QED
        BY <3>1, <3>2
    <2>5. QED
      BY <1>3, <2>1, <2>2, <2>3, <2>4
  <1>6. /\ offsets' \in Seq(Nat) /\ Len(offsets') = 3 * n + 2
        /\ offsets'[1] = 7 * n + 1 /\ offsets'[2] = 7 * n + 2
        /\ \A i \in 3..Len(offsets) : offsets'[i] = offsets[i]
    <2>1. at \in Nat /\ at + 1 \in Nat /\ at = 7 * n + 1 /\ Len(offsets) \in Nat
      BY <1>1, <1>2 DEF at
    <2>2. /\ one \in Seq(Nat) /\ Len(one) = (IF 1 > Len(offsets) THEN 1 ELSE Len(offsets))
          /\ one[1] = at /\ \A i \in 1..Len(offsets) : i # 1 => one[i] = offsets[i]
      BY <1>2, <2>1, Marked DEF one
    <2>3. PICK number, place \in Nat : number = 2 /\ place = at + 1
      BY <2>1
    <2> DEFINE marked == Mark(one, number, place)
    <2>4. /\ marked \in Seq(Nat) /\ Len(marked) = (IF number > Len(one) THEN number ELSE Len(one))
          /\ marked[number] = place
          /\ \A i \in 1..Len(one) : i # number => marked[i] = one[i]
      BY <2>2, <2>3, Marked
    <2> HIDE DEF marked
    <2>5. offsets' = marked
      BY <1>3, <2>3 DEF marked
    <2>6. Len(one) \in Nat /\ 1 \in 1..Len(one) /\ 3..Len(offsets) \subseteq 1..Len(one)
      BY <2>1, <2>2
    <2>7. Len(offsets') = 3 * n + 2
      <3>1. CASE n = 0
        BY <1>2, <2>2, <2>3, <2>4, <2>5, <3>1
      <3>2. CASE n # 0
        <4>1. Len(offsets) = 3 * n + 2 /\ 3 * n + 2 > 2 /\ Len(one) = 3 * n + 2
          BY <1>1, <1>2, <2>2, <3>2, SMTT(20)
        <4>2. QED
          BY <1>1, <2>3, <2>4, <2>5, <4>1
      <3>3. QED
        BY <3>1, <3>2
    <2>8. QED
      BY <1>1, <2>1, <2>2, <2>3, <2>4, <2>5, <2>6, <2>7, SMTT(20)
  <1>7. ASSUME NEW k \in 1..n PROVE PageLaid(k)'
    <2>1. PageLaid(k) /\ k \in Nat \ {0} /\ Len(offsets) = 3 * n + 2
      BY <1>1, <1>2
    <2>2. /\ At(k) \in Nat /\ At(k) + 1 \in 1..Len(file) /\ At(k) + 2 \in 1..Len(file)
          /\ At(k) + 3 \in 1..Len(file) /\ At(k) + 4 \in 1..Len(file)
          /\ At(k) + 5 \in 1..Len(file) /\ At(k) + 6 \in 1..Len(file)
          /\ At(k) + 7 \in 1..Len(file)
          /\ 3 * k \in 3..Len(offsets) /\ 3 * k + 1 \in 3..Len(offsets)
          /\ 3 * k + 2 \in 3..Len(offsets)
      BY <1>1, <1>2, <2>1, SMTT(20) DEF At
    <2>3. QED
      BY <1>2, <1>5, <1>6, <2>1, <2>2 DEF PageLaid
  <1>8. EndLaid(n)'
    <2>1. At(n + 1) = Len(file) /\ At(n + 1) = 7 * n + 1 /\ 7 * n + 2 = At(n + 1) + 1
      BY <1>1, <1>2 DEF At
    <2>2. QED
      BY <1>1, <1>2, <1>5, <1>6, <2>1 DEF EndLaid, first, second, third, fourth
  <1>9. file'[1] = Piece(0, "header", <<>>)
    <2>1. 1 \in 1..Len(file)
      BY <1>1, <1>2
    <2>2. QED
      BY <1>2, <1>5, <2>1
  <1>10. Len(file') = At(n + 1) + 4
    BY <1>1, <1>2, <1>5 DEF At
  <1>11. QED
    BY <1>1, <1>2, <1>5, <1>6, <1>7, <1>8, <1>9, <1>10 DEF Laid

(* The layout holds of every document, finished or not.                    *)
LEMMA PdfInvariance == PdfSpec => []Laid
  <1>1. Laid /\ [PdfNext]_pdfVars => Laid'
    <2> SUFFICES ASSUME Laid, [PdfNext]_pdfVars PROVE Laid'
      OBVIOUS
    <2>1. CASE AddPage
      BY <2>1, AddPageLaid
    <2>2. CASE Finish
      BY <2>2, FinishLaid
    <2>3. CASE WriteFails
      BY <2>3 DEF WriteFails, Laid, PageLaid, EndLaid
    <2>4. CASE UNCHANGED pdfVars
      BY <2>4 DEF pdfVars, Laid, PageLaid, EndLaid
    <2>5. QED
      BY <2>1, <2>2, <2>3, <2>4 DEF PdfNext
  <1>2. QED
    BY PdfInitLaid, <1>1, PTL DEF PdfSpec

(* A place in a finished file of n pages, and an object of its table. *)
LEMMA Places ==
  ASSUME NEW n \in Nat, NEW i \in 1..7 * n + 5
  PROVE  i = 1 \/ (\E k \in 1..n, j \in 1..7 : i = At(k) + j) \/ \E j \in 1..4 : i = At(n + 1) + j
  <1>1. CASE i = 1
    BY <1>1
  <1>2. CASE i \in 2..7 * n + 1
    <2>1. PICK m \in Nat : m = i - 2
      BY <1>2
    <2>2. (m \div 7) \in Nat /\ (m % 7) \in 0..6 /\ m = 7 * (m \div 7) + (m % 7)
      BY <2>1
    <2>3. PICK q \in Nat, r \in 0..6 : m = 7 * q + r
      BY <2>2
    <2>4. q + 1 \in 1..n /\ r + 1 \in 1..7 /\ i = At(q + 1) + (r + 1)
      BY <1>2, <2>1, <2>3 DEF At
    <2>5. QED
      BY <2>4
  <1>3. CASE i \in 7 * n + 2..7 * n + 5
    <2>1. i - (7 * n + 1) \in 1..4 /\ i = At(n + 1) + (i - (7 * n + 1))
      BY <1>3 DEF At
    <2>2. QED
      BY <2>1
  <1>4. QED
    BY <1>1, <1>2, <1>3

(* An object number is that of the catalog, of the tree or of one of the   *)
(* three objects of a page.                                                *)
LEMMA Objects ==
  ASSUME NEW n \in Nat, NEW m \in 1..3 * n + 2
  PROVE  m \in {1, 2} \/ \E k \in 1..n : m \in {3 * k, 3 * k + 1, 3 * k + 2}
  <1>1. CASE m < 3
    BY <1>1
  <1>2. CASE m >= 3
    <2>1. (m \div 3) \in Nat /\ (m % 3) \in 0..2 /\ m = 3 * (m \div 3) + (m % 3)
      OBVIOUS
    <2>2. PICK q \in Nat, r \in 0..2 : m = 3 * q + r
      BY <2>1
    <2>3. q \in 1..n /\ m \in {3 * q, 3 * q + 1, 3 * q + 2}
      BY <1>2, <2>2
    <2>4. QED
      BY <2>3
  <1>3. QED
    BY <1>1, <1>2

(* A reference leads through the table to an object of its kind. *)
Resolves(r) == r.obj \in 1..Len(offsets) /\ file[offsets[r.obj] + 1].type = r.type

(* What the layout says of a finished document: its size, its pages and    *)
(* the references that lead through the table.                             *)
LEMMA Finished ==
  ASSUME Laid, document = "finished", NEW n \in Nat, n = Len(pageObjs)
  PROVE  /\ Len(file) = 7 * n + 5 /\ Len(offsets) = 3 * n + 2
         /\ \A k \in 1..n : PageLaid(k)
         /\ EndLaid(n) /\ file[1] = Piece(0, "header", <<>>)
         /\ \A k \in 1..n : Resolves(Ref(3 * k, "page"))
         /\ \A k \in 1..n : Resolves(Ref(3 * k + 1, "contents"))
         /\ \A k \in 1..n : Resolves(Ref(3 * k + 2, "image"))
         /\ Resolves(Ref(1, "catalog")) /\ Resolves(Ref(2, "pages"))
  <1>1. /\ Len(file) = 7 * n + 5 /\ Len(offsets) = 3 * n + 2
        /\ \A k \in 1..n : PageLaid(k)
        /\ EndLaid(n) /\ file[1] = Piece(0, "header", <<>>)
    BY DEF Laid, At
  <1>2. ASSUME NEW k \in 1..n
        PROVE  /\ Resolves(Ref(3 * k, "page")) /\ Resolves(Ref(3 * k + 1, "contents"))
               /\ Resolves(Ref(3 * k + 2, "image"))
    <2>1. /\ 3 * k \in 1..Len(offsets) /\ 3 * k + 1 \in 1..Len(offsets)
          /\ 3 * k + 2 \in 1..Len(offsets)
          /\ At(k) \in Nat /\ (At(k) + 1) + 1 = At(k) + 2 /\ (At(k) + 4) + 1 = At(k) + 5
      BY <1>1 DEF At
    <2>2. /\ offsets[3 * k] = At(k) /\ offsets[3 * k + 1] = At(k) + 1
          /\ offsets[3 * k + 2] = At(k) + 4 /\ file[At(k) + 1].type = "page"
          /\ file[At(k) + 2].type = "contents" /\ file[At(k) + 5].type = "image"
      <3>1. PageLaid(k)
        BY <1>1
      <3>2. QED
        BY <3>1 DEF PageLaid, Piece
    <2>3. QED
      BY <2>1, <2>2 DEF Resolves, Ref
  <1>3. Resolves(Ref(1, "catalog")) /\ Resolves(Ref(2, "pages"))
    <2>1. /\ 1 \in 1..Len(offsets) /\ 2 \in 1..Len(offsets)
          /\ At(n + 1) \in Nat /\ (At(n + 1) + 1) + 1 = At(n + 1) + 2
      BY <1>1 DEF At
    <2>2. QED
      BY <1>1, <2>1 DEF EndLaid, Resolves, Ref, Piece
  <1>4. QED
    BY <1>1, <1>2, <1>3

(* Every finished document can be read, however many pages it has.         *)
THEOREM DocumentReadable == PdfSpec => []DocumentSound
  <1>1. Laid => DocumentSound
    <2> SUFFICES ASSUME Laid, document = "finished"
                 PROVE  XrefExact /\ ReferencesResolve
      BY DEF DocumentSound, XrefExact, ReferencesResolve
    <2>1. PICK n \in Nat : n = Len(pageObjs)
      BY DEF Laid
    <2>2. /\ Len(file) = 7 * n + 5 /\ Len(offsets) = 3 * n + 2
          /\ \A k \in 1..n : PageLaid(k)
          /\ EndLaid(n) /\ file[1] = Piece(0, "header", <<>>)
      BY <2>1, Finished
    <2>3. ASSUME NEW m \in 1..Len(offsets) PROVE file[offsets[m] + 1].obj = m
      <3>1. CASE m \in {1, 2}
        <4>1. At(n + 1) \in Nat /\ (At(n + 1) + 1) + 1 = At(n + 1) + 2
          BY DEF At
        <4>2. QED
          BY <2>2, <3>1, <4>1 DEF EndLaid, Piece
      <3>2. ASSUME NEW k \in 1..n, m \in {3 * k, 3 * k + 1, 3 * k + 2}
            PROVE  file[offsets[m] + 1].obj = m
        <4>1. At(k) \in Nat /\ (At(k) + 1) + 1 = At(k) + 2 /\ (At(k) + 4) + 1 = At(k) + 5
          BY DEF At
        <4>2. /\ offsets[3 * k] = At(k) /\ offsets[3 * k + 1] = At(k) + 1
              /\ offsets[3 * k + 2] = At(k) + 4 /\ file[At(k) + 1].obj = 3 * k
              /\ file[At(k) + 2].obj = 3 * k + 1 /\ file[At(k) + 5].obj = 3 * k + 2
          <5>1. PageLaid(k)
            BY <2>2
          <5>2. QED
            BY <5>1 DEF PageLaid, Piece
        <4>3. QED
          BY <3>2, <4>1, <4>2
      <3>3. QED
        BY <2>2, <3>1, <3>2, Objects
    <2>4. ASSUME NEW i \in 1..Len(file)
          PROVE  /\ file[i].obj \in 0..Len(offsets)
                 /\ \A k \in 1..Len(file[i].refs) : Resolves(file[i].refs[k])
                 /\ file[i].type = "page" => \E k \in 1..Len(pageObjs) : pageObjs[k] = file[i].obj
      <3>1. CASE i = 1
        <4>1. file[i].obj = 0 /\ file[i].refs = <<>> /\ file[i].type # "page"
          BY <2>2, <3>1 DEF Piece
        <4>2. QED
          BY <2>1, <2>2, <4>1
      <3>2. ASSUME NEW k \in 1..n, NEW j \in 1..7, i = At(k) + j
            PROVE  /\ file[i].obj \in 0..Len(offsets)
                   /\ \A l \in 1..Len(file[i].refs) : Resolves(file[i].refs[l])
                   /\ file[i].type = "page" =>
                        \E l \in 1..Len(pageObjs) : pageObjs[l] = file[i].obj
        <4>1. PageLaid(k) /\ 3 * k \in 0..Len(offsets) /\ 3 * k + 1 \in 0..Len(offsets)
              /\ 3 * k + 2 \in 0..Len(offsets) /\ 0 \in 0..Len(offsets)
          BY <2>1, <2>2
        <4>2. CASE j = 1
          <5>1. /\ file[i].obj = 3 * k /\ file[i].type = "page"
                /\ file[i].refs = <<Ref(2, "pages"), Ref(3 * k + 1, "contents"),
                                    Ref(3 * k + 2, "image")>>
            <6>1. file[i] = file[At(k) + 1]
              BY <3>2, <4>2
            <6>2. QED
              BY <4>1, <6>1 DEF PageLaid, Piece
          <5>2. /\ Resolves(Ref(2, "pages")) /\ Resolves(Ref(3 * k + 1, "contents"))
                /\ Resolves(Ref(3 * k + 2, "image"))
            BY <2>1, Finished
          <5>3. pageObjs[k] = 3 * k
            BY <4>1 DEF PageLaid
          <5>4. QED
            BY <2>1, <4>1, <5>1, <5>2, <5>3
        <4>3. CASE j # 1
          <5>1. /\ file[i].obj \in {0, 3 * k + 1, 3 * k + 2} /\ file[i].refs = <<>>
                /\ file[i].type # "page"
            <6>1. file[i] \in {file[At(k) + 2], file[At(k) + 3], file[At(k) + 4],
                              file[At(k) + 5], file[At(k) + 6], file[At(k) + 7]}
              BY <3>2, <4>3
            <6>2. file[i] \in {Piece(3 * k + 1, "contents", <<>>), Body,
                              Piece(3 * k + 2, "image", <<>>)}
              BY <4>1, <6>1 DEF PageLaid
            <6>3. QED
              BY <6>2 DEF Piece, Body
          <5>2. QED
            BY <4>1, <5>1
        <4>4. QED
          BY <4>2, <4>3
      <3>3. ASSUME NEW j \in 1..4, i = At(n + 1) + j
            PROVE  /\ file[i].obj \in 0..Len(offsets)
                   /\ \A l \in 1..Len(file[i].refs) : Resolves(file[i].refs[l])
                   /\ file[i].type # "page"
        <4>1. 0 \in 0..Len(offsets) /\ 1 \in 0..Len(offsets) /\ 2 \in 0..Len(offsets)
          BY <2>1, <2>2
        <4>2. CASE j = 2
          <5>1. /\ file[i].obj = 2 /\ file[i].type = "pages"
                /\ file[i].refs = [l \in 1..n |-> Ref(pageObjs[l], "page")]
            BY <2>2, <3>3, <4>2 DEF EndLaid, Piece
          <5>2. Len(file[i].refs) = n /\ \A l \in 1..n : file[i].refs[l] = Ref(pageObjs[l], "page")
            BY <5>1
          <5>3. \A l \in 1..n : pageObjs[l] = 3 * l /\ Resolves(Ref(3 * l, "page"))
            BY <2>1, Finished DEF PageLaid
          <5>4. QED
            BY <4>1, <5>1, <5>2, <5>3
        <4>3. CASE j # 2
          <5>1. /\ file[i].obj \in {0, 1} /\ file[i].type # "page"
                /\ file[i].refs \in {<<>>, <<Ref(2, "pages")>>, <<Ref(1, "catalog")>>}
            BY <2>2, <3>3, <4>3 DEF EndLaid, Piece
          <5>2. Resolves(Ref(2, "pages")) /\ Resolves(Ref(1, "catalog"))
            BY <2>1, Finished
          <5>3. QED
            BY <4>1, <5>1, <5>2
        <4>4. QED
          BY <4>2, <4>3
      <3>4. \/ i = 1 \/ \E k \in 1..n, j \in 1..7 : i = At(k) + j
            \/ \E j \in 1..4 : i = At(n + 1) + j
        <4>1. i \in 1..7 * n + 5
          BY <2>2
        <4>2. QED
          BY <4>1, Places
      <3>5. QED
        BY <3>1, <3>2, <3>3, <3>4
    <2>5. ASSUME NEW i \in 1..Len(pageObjs), NEW j \in 1..Len(pageObjs), i < j
          PROVE  offsets[pageObjs[i]] < offsets[pageObjs[j]]
      <3>1. /\ offsets[pageObjs[i]] = At(i) /\ offsets[pageObjs[j]] = At(j)
        BY <2>1, <2>2 DEF PageLaid
      <3>2. QED
        BY <2>1, <2>5, <3>1 DEF At
    <2>6. QED
      BY <2>3, <2>4, <2>5 DEF XrefExact, ReferencesResolve, Resolves
  <1>2. QED
    BY PdfInvariance, <1>1, PTL

(***************************************************************************)
(* raw::normalize.  What it asks of the bytes received, its arithmetic     *)
(* then needs: the invariant keeps what the transfer leaves them to be.    *)
(***************************************************************************)
Transferred ==
  /\ image \in [width : Nat, height : Nat, depth : Nat, stride : Nat]
  /\ MinRow(image.width, image.depth) \in Nat
  /\ image.stride >= MinRow(image.width, image.depth)
  /\ rows \in Nat /\ rows <= image.height /\ received \in Nat
  /\ stride = IF rows = 0 THEN 0 ELSE image.stride
  /\ transfer \in {"strips", "done", "failed", "refused"}
  /\ transfer = "done" =>
       /\ rows = image.height /\ rows > 0
       /\ received >= image.stride * (image.height - 1) + MinRow(image.width, image.depth)

Normalized ==
  page # NoPage =>
    /\ transfer \in {"done", "failed"}
    /\ page = IF Acceptable(image)
              THEN [kind |-> "pixels",
                    samples |-> [n \in 0..(Length(image) - 1) |-> Sample(image, n)]]
              ELSE Rejected

(* The bytes of a row of pixels are a natural number.                      *)
LEMMA MinRowType ==
  ASSUME NEW w \in Nat, NEW d \in Nat
  PROVE  MinRow(w, d) \in Nat
  <1>1. ((w + 7) \div 8) \in Nat
    OBVIOUS
  <1>2. (d \div 8) \in Nat
    OBVIOUS
  <1>3. \A e \in Nat : w * e \in Nat
    OBVIOUS
  <1>4. QED
    BY <1>1, <1>2, <1>3 DEF MinRow

(* What the strips have transferred, and what normalize has made of it.    *)
LEMMA PageInvariance == PageSpec => [](Transferred /\ Normalized)
  <1>1. PageInit => Transferred /\ Normalized
    <2> SUFFICES ASSUME PageInit PROVE Transferred /\ Normalized
      OBVIOUS
    <2>1. PICK w \in 0..MaxWidth, h \in 0..MaxHeight, d \in Depths, p \in 0..MaxPadding :
            image = [width |-> w, height |-> h, depth |-> d, stride |-> MinRow(w, d) + p]
      BY DEF PageInit
    <2>2. w \in Nat /\ h \in Nat /\ d \in Nat /\ p \in Nat
      BY ImageAssumption
    <2>3. MinRow(w, d) \in Nat
      BY <2>2, MinRowType
    <2>4. QED
      BY <2>1, <2>2, <2>3 DEF PageInit, Transferred, Normalized
  <1>2. Transferred /\ Normalized /\ [PageNext]_pageVars => Transferred' /\ Normalized'
    <2> SUFFICES ASSUME Transferred, Normalized, [PageNext]_pageVars
                 PROVE  Transferred' /\ Normalized'
      OBVIOUS
    <2>1. CASE Strip
      <3>1. PICK n \in 1..(image.height - rows) :
              /\ rows' = rows + n
              /\ LET full == (rows + n) * image.stride
                     short == full - image.stride + MinRow(image.width, image.depth)
                 IN received' \in IF rows + n = image.height THEN {short, full} ELSE {full}
              /\ transfer' = IF rows + n = image.height THEN "done" ELSE "strips"
        BY <2>1 DEF Strip
      <3>2. /\ rows' \in Nat /\ rows' <= image.height /\ rows' > 0
            /\ image.stride \in Nat /\ image.height \in Nat
            /\ MinRow(image.width, image.depth) \in Nat
            /\ image.stride >= MinRow(image.width, image.depth)
        BY <3>1 DEF Transferred
      <3>3. /\ image' = image /\ page' = page /\ transfer = "strips"
            /\ stride' = IF stride = 0 THEN image.stride ELSE stride
        BY <2>1 DEF Strip
      <3>4. stride' = image.stride
        BY <3>3 DEF Transferred
      <3> DEFINE full == rows' * image.stride
                 short == full - image.stride + MinRow(image.width, image.depth)
      <3>5. /\ full \in Nat /\ full >= image.stride
            /\ full = image.stride * (rows' - 1) + image.stride
        BY <3>2
      <3>6. received' \in {short, full}
        BY <3>1
      <3>7. short \in Nat /\ short = image.stride * (rows' - 1) + MinRow(image.width, image.depth)
        BY <3>2, <3>5
      <3>8. received' \in Nat /\ received' >= image.stride * (rows' - 1)
                                              + MinRow(image.width, image.depth)
        BY <3>2, <3>5, <3>6, <3>7
      <3>9. Transferred'
        BY <3>1, <3>2, <3>3, <3>4, <3>8 DEF Transferred
      <3>10. Normalized'
        BY <3>3 DEF Normalized
      <3>11. QED
        BY <3>9, <3>10
    <2>2. CASE StripFails \/ StripCompressed
      BY <2>2 DEF StripFails, StripCompressed, Transferred, Normalized
    <2>3. CASE Normalize
      BY <2>3 DEF Normalize, Transferred, Normalized, Acceptable, Required, Length, Sample
    <2>4. CASE UNCHANGED pageVars
      BY <2>4 DEF pageVars, Transferred, Normalized, Acceptable, Required, Length, Sample
    <2>5. QED
      BY <2>1, <2>2, <2>3, <2>4 DEF PageNext
  <1>3. QED
    BY <1>1, <1>2, PTL DEF PageSpec

(* Quotient and remainder of a row and a place in it. *)
LEMMA Division ==
  ASSUME NEW q \in Nat, NEW d \in Nat \ {0}, NEW r \in 0..(d - 1)
  PROVE  (q * d + r) \div d = q /\ (q * d + r) % d = r
  OBVIOUS

(* A place in rows of d is in range, and no row but the last goes as far.  *)
LEMMA InRange ==
  ASSUME NEW h \in Nat, NEW d \in Nat, NEW y \in 0..(h - 1), NEW r \in 0..(d - 1)
  PROVE  y * d + r \in 0..(d * h - 1)
  <1>1. y * d \in Nat /\ y * d <= (h - 1) * d
    OBVIOUS
  <1>2. (h - 1) * d + d = d * h
    OBVIOUS
  <1>3. QED
    BY <1>1, <1>2

(* The channels of a supported depth, and the bytes of a row. *)
LEMMA Depth ==
  ASSUME NEW d \in Supported, NEW w \in Nat \ {0}
  PROVE  /\ Channels(d) \in Nat \ {0} /\ JpegChannels(d) = PdfChannels(d)
         /\ MinRow(w, d) \in Nat \ {0}
         /\ d = 1 => Channels(d) = 1 /\ \A x \in 0..(w - 1) : x \div 8 < MinRow(w, d)
         /\ d # 1 => d \div 8 = Channels(d) /\ d = 8 * Channels(d) /\ MinRow(w, d) = w * Channels(d)
  <1>1. 8 \div 8 = 1 /\ 24 \div 8 = 3 /\ 32 \div 8 = 4
    OBVIOUS
  <1>2. d \in {1, 8, 24, 32}
    BY DEF Supported
  <1>3. /\ Channels(d) \in Nat \ {0} /\ JpegChannels(d) = PdfChannels(d)
        /\ d = 1 => Channels(d) = 1
        /\ d # 1 => d \div 8 = Channels(d) /\ d = 8 * Channels(d)
    BY <1>1, <1>2 DEF Channels, JpegChannels, PdfChannels
  <1>4. CASE d = 1
    <2>1. MinRow(w, d) = (w + 7) \div 8
      BY <1>4 DEF MinRow
    <2>2. ((w + 7) \div 8) \in Nat \ {0}
      OBVIOUS
    <2>3. \A x \in 0..(w - 1) : x \div 8 < (w + 7) \div 8
      OBVIOUS
    <2>4. QED
      BY <1>3, <1>4, <2>1, <2>2, <2>3
  <1>5. CASE d # 1
    <2>1. MinRow(w, d) = w * Channels(d)
      BY <1>3, <1>5 DEF MinRow
    <2>2. w * Channels(d) \in Nat \ {0}
      BY <1>3
    <2>3. QED
      BY <1>3, <1>5, <2>1, <2>2
  <1>6. QED
    BY <1>4, <1>5

(* Where the sample of a channel of a pixel is, and that it was received.  *)
LEMMA SamplePlaced ==
  ASSUME Transferred, Acceptable(image),
         NEW x \in 0..(image.width - 1), NEW y \in 0..(image.height - 1),
         NEW c \in 0..(Channels(image.depth) - 1)
  PROVE  LET n == (y * image.width + x) * Channels(image.depth) + c IN
           /\ n \in 0..(Length(image) - 1)
           /\ Sample(image, n) = Location(image, x, y, c)
           /\ Sample(image, n).byte < received
  <1>1. PICK w \in Nat \ {0}, h \in Nat \ {0}, d \in Supported, s \in Nat :
          w = image.width /\ h = image.height /\ d = image.depth /\ s = image.stride
    BY DEF Transferred, Acceptable
  <1>2. MinRow(w, d) \in Nat \ {0} /\ Channels(d) \in Nat \ {0}
    BY Depth
  <1>3. /\ stride = s /\ received \in Nat /\ received >= s * (h - 1) + MinRow(w, d)
        /\ s >= MinRow(w, d)
    <2>1. stride >= MinRow(w, d) /\ received >= stride * (h - 1) + MinRow(w, d)
      BY <1>1 DEF Acceptable, Required
    <2>2. stride = s
      <3>1. stride \in {0, s}
        BY <1>1 DEF Transferred
      <3>2. QED
        BY <1>2, <2>1, <3>1
    <2>3. QED
      BY <2>1, <2>2 DEF Transferred
  <1>4. x \in 0..(w - 1) /\ y \in 0..(h - 1) /\ c \in 0..(Channels(d) - 1)
    BY <1>1
  (* A byte of a row before its padding has been received. *)
  <1>5. ASSUME NEW b \in Nat, b < MinRow(w, d) PROVE y * s + b < received
    <2>1. y * s \in Nat /\ y * s <= s * (h - 1)
      BY <1>4
    <2>2. s * (h - 1) \in Nat
      OBVIOUS
    <2>3. QED
      BY <1>2, <1>3, <1>5, <2>1, <2>2
  <1> DEFINE n == (y * w + x) * Channels(d) + c
  <1>6. CASE d = 1
    <2>1. Channels(d) = 1 /\ x \div 8 < MinRow(w, d) /\ (x \div 8) \in Nat
      BY <1>4, <1>6, Depth
    <2>2. c = 0 /\ n = y * w + x
      BY <1>4, <2>1
    <2>3. n \div w = y /\ n % w = x
      BY <1>4, <2>2, Division
    <2> HIDE DEF n
    <2>4. Sample(image, n) = [byte |-> y * s + x \div 8, bit |-> 7 - (x % 8)]
      BY <1>1, <1>3, <1>6, <2>3 DEF Sample
    <2>5. Location(image, x, y, c) = [byte |-> y * s + x \div 8, bit |-> 7 - (x % 8)]
      <3>1. (x * d) \div 8 = x \div 8 /\ y * s + (x \div 8) + c = y * s + (x \div 8)
        BY <1>4, <1>6, <2>1, <2>2
      <3>2. QED
        BY <1>1, <1>6, <3>1 DEF Location
    <2>6. n \in 0..(Length(image) - 1)
      <3>1. n \in 0..(w * h - 1)
        BY <1>4, <2>2, InRange
      <3>2. QED
        BY <1>1, <1>6, <3>1 DEF Length
    <2>7. y * s + (x \div 8) < received
      BY <1>5, <2>1
    <2>8. QED
      BY <1>1, <2>4, <2>5, <2>6, <2>7 DEF n
  <1>7. CASE d # 1
    <2>1. PICK k \in Nat \ {0} : k = Channels(d)
      BY <1>2
    <2>2. d \div 8 = k /\ d = 8 * k /\ MinRow(w, d) = w * k
      BY <1>7, <2>1, Depth
    <2>3. PICK row \in Nat \ {0} : row = w * k
      BY <2>1, <2>2, <1>2
    <2>4. PICK r \in 0..(row - 1) : r = x * k + c
      <3>1. x * k + c \in 0..(k * w - 1)
        BY <1>4, <2>1, InRange
      <3>2. k * w = row
        BY <2>3
      <3>3. QED
        BY <3>1, <3>2
    <2>5. n = y * row + r
      <3>1. (y * w + x) * k = y * (w * k) + x * k
        BY <1>4
      <3>2. QED
        BY <1>4, <2>1, <2>3, <2>4, <3>1
    <2> HIDE DEF n
    <2>6. n \div row = y /\ n % row = r
      <3>1. PICK q \in Nat : q = y
        BY <1>4
      <3>2. q \in Nat /\ row \in Nat \ {0} /\ r \in 0..(row - 1)
        BY <2>3, <2>4, <3>1
      <3>3. (q * row + r) \div row = q /\ (q * row + r) % row = r
        BY ONLY <3>2, Division
      <3>4. QED
        BY <2>5, <3>1, <3>3
    <2>7. Sample(image, n) = [byte |-> y * s + r, bit |-> 8]
      BY <1>1, <1>3, <1>7, <2>2, <2>3, <2>6 DEF Sample
    <2>8. Location(image, x, y, c) = [byte |-> y * s + r, bit |-> 8]
      <3>1. (x * d) \div 8 = x * k
        <4>1. x * d = 8 * (x * k) /\ x * k \in Nat
          BY <1>4, <2>1, <2>2
        <4>2. \A m \in Nat : (8 * m) \div 8 = m
          OBVIOUS
        <4>3. QED
          BY <4>1, <4>2
      <3>2. y * s \in Nat /\ x * k \in Nat /\ c \in Nat
        BY <1>4, <2>1
      <3>3. y * s + x * k + c = y * s + r
        BY <2>4, <3>2
      <3>4. QED
        BY <1>1, <1>7, <3>1, <3>3 DEF Location
    <2>9. n \in 0..(Length(image) - 1)
      <3>1. n \in 0..(row * h - 1)
        BY <1>4, <2>3, <2>4, <2>5, InRange
      <3>2. Length(image) = row * h
        BY <1>1, <1>7, <2>2, <2>3 DEF Length
      <3>3. QED
        BY <3>1, <3>2
    <2>10. y * s + r < received
      BY <1>5, <2>2, <2>3, <2>4, SMTT(20)
    <2>11. QED
      BY <1>1, <2>7, <2>8, <2>9, <2>10 DEF n
  <1>8. QED
    BY <1>6, <1>7

(* A page gets through normalize only as it was scanned, and always when   *)
(* it was scanned whole, whatever its width, height and padding.           *)
THEOREM PageAsScanned == PageSpec => []PageExact
  <1>1. Transferred /\ Normalized => PageExact
    <2> SUFFICES ASSUME Transferred, Normalized PROVE PageWhole /\ WholeAccepted
      BY DEF PageExact
    <2>1. ASSUME page.kind = "pixels" PROVE PageWhole
      <3>1. /\ Acceptable(image)
            /\ page.samples = [n \in 0..(Length(image) - 1) |-> Sample(image, n)]
        <4>1. page # NoPage /\ page # Rejected
          BY <2>1 DEF NoPage, Rejected
        <4>2. Acceptable(image)
          BY <4>1 DEF Normalized
        <4> DEFINE S == [n \in 0..(Length(image) - 1) |-> Sample(image, n)]
        <4> HIDE DEF S
        <4>3. page = [kind |-> "pixels", samples |-> S]
          BY <4>1, <4>2 DEF Normalized, S
        <4>4. page.samples = S
          BY <4>3
        <4>5. QED
          BY <4>2, <4>4 DEF S
      <3>2. /\ image.width \in Nat \ {0} /\ image.height \in Nat \ {0}
            /\ image.depth \in Supported
        BY <3>1 DEF Acceptable, Transferred
      <3>3. JpegChannels(image.depth) = PdfChannels(image.depth)
        BY <3>2, Depth
      <3>4. Length(image) = Expected(image)
        <4>1. PICK w \in Nat \ {0}, h \in Nat \ {0}, k \in Nat \ {0} :
                w = image.width /\ h = image.height /\ k = Channels(image.depth)
          BY <3>2, Depth
        <4>2. CASE image.depth = 1
          BY <4>1, <4>2, <3>2, Depth DEF Length, Expected
        <4>3. CASE image.depth # 1
          <5>1. MinRow(image.width, image.depth) = w * k
            BY <3>2, <4>1, <4>3, Depth
          <5>2. (w * k) * h = w * h * k
            OBVIOUS
          <5>3. QED
            BY <4>1, <4>3, <5>1, <5>2 DEF Length, Expected
        <4>4. QED
          BY <4>2, <4>3
      <3>5. QED
        BY <3>1, <3>3, <3>4, SamplePlaced DEF PageWhole
    <2>2. page.kind # "pixels" => PageWhole
      BY DEF PageWhole
    <2>3. ASSUME transfer = "done", page # NoPage, image.width > 0, image.depth \in Supported
          PROVE  page.kind = "pixels"
      <3>1. Acceptable(image)
        BY <2>3 DEF Acceptable, Required, Transferred
      <3>2. QED
        BY <2>3, <3>1 DEF Normalized
    <2>4. QED
      BY <2>1, <2>2, <2>3 DEF WholeAccepted
  <1>2. QED
    BY PageInvariance, <1>1, PTL
=============================================================================
