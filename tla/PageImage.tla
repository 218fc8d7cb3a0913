------------------------------- MODULE PageImage -------------------------------
(***************************************************************************)
(* One page from the driver to the encoders: the strips of a memory        *)
(* transfer (scanner/twain.rs, and the sidecar's copy), raw::normalize     *)
(* (scanner/raw.rs), and the sizes that the encoders, the thumbnail and    *)
(* the PDF page ask for (scanner/mod.rs, scanner/thumbnail.rs).            *)
(* A byte of the image is its position in the driver's image, so the       *)
(* bytes received are known by their number.                               *)
(***************************************************************************)
EXTENDS Naturals

CONSTANTS
  MaxWidth,    \* bound: pixels in a row
  MaxHeight,   \* bound: rows
  MaxPadding,  \* bound: bytes at the end of a row that hold no pixel
  Depths       \* bits per pixel a driver may report

ASSUME ImageAssumption ==
  /\ MaxWidth \in Nat /\ MaxHeight \in Nat /\ MaxPadding \in Nat
  /\ Depths \subseteq Nat

VARIABLES
  image,     \* the driver's image: width, height, depth and stride
  rows,      \* rows handed over so far
  received,  \* image_data.len()
  stride,    \* bytes_per_row: that of the first strip, 0 before
  transfer,  \* "strips", "done", "failed" (given up) or "refused" (compressed)
  page       \* the outcome of normalize, as [kind, samples]

pageVars == <<image, rows, received, stride, transfer, page>>

Supported == {1, 8, 24, 32}

(* Bytes of a row that hold pixels.                                        *)
MinRow(width, depth) ==
  IF depth = 1 THEN (width + 7) \div 8 ELSE width * (depth \div 8)

Channels(depth) == IF depth \in {1, 8} THEN 1 ELSE depth \div 8

NoPage == [kind |-> "none", samples |-> <<>>]
Rejected == [kind |-> "rejected", samples |-> <<>>]

PageInit ==
  /\ image \in UNION {{[width |-> w, height |-> h, depth |-> d, stride |-> MinRow(w, d) + p] :
                        h \in 0..MaxHeight, p \in 0..MaxPadding} :
                      w \in 0..MaxWidth, d \in Depths}
  /\ rows = 0 /\ received = 0 /\ stride = 0
  /\ transfer = "strips"
  /\ page = NoPage

(***************************************************************************)
(* The transfer: strips of whole rows. The last row may come without its   *)
(* padding.                                                                *)
(***************************************************************************)
Strip ==
  /\ transfer = "strips"
  /\ \E n \in 1..(image.height - rows) :
       LET last == rows + n = image.height
           full == (rows + n) * image.stride
           short == full - image.stride + MinRow(image.width, image.depth)
       IN /\ rows' = rows + n
          /\ received' \in (IF last THEN {short, full} ELSE {full})
          /\ transfer' = IF last THEN "done" ELSE "strips"
  /\ stride' = IF stride = 0 THEN image.stride ELSE stride
  /\ UNCHANGED <<image, page>>

(* A call that fails ends the loop, and what has been received goes on.    *)
StripFails ==
  /\ transfer = "strips"
  /\ transfer' = "failed"
  /\ UNCHANGED <<image, rows, received, stride, page>>

(* The source compressed after all: an error of its own, no page.          *)
StripCompressed ==
  /\ transfer = "strips"
  /\ transfer' = "refused"
  /\ UNCHANGED <<image, rows, received, stride, page>>

(***************************************************************************)
(* raw::normalize.                                                         *)
(***************************************************************************)
(* Mutant: every row is taken to be padded.                                *)
RequiredPadded(i) == stride * i.height

(* The bytes asked for: the final row needs no padding.                    *)
Required(i) == stride * (i.height - 1) + MinRow(i.width, i.depth)

Acceptable(i) ==
  /\ i.width > 0 /\ i.height > 0
  /\ i.depth \in Supported
  /\ stride >= MinRow(i.width, i.depth)
  /\ received >= Required(i)

(* Mutant: rows are taken to follow each other without padding.            *)
SampleUnpadded(i, n) ==
  IF i.depth = 1
  THEN LET y == n \div i.width  x == n % i.width IN
       [byte |-> y * MinRow(i.width, 1) + x \div 8, bit |-> 7 - (x % 8)]
  ELSE [byte |-> n, bit |-> 8]

(* Sample n of the packed rows. A bit of a 1bpp page becomes a byte; a     *)
(* deeper row is copied. The bit is 8 where the whole byte is meant.       *)
Sample(i, n) ==
  IF i.depth = 1
  THEN LET y == n \div i.width  x == n % i.width IN
       [byte |-> y * stride + x \div 8, bit |-> 7 - (x % 8)]
  ELSE LET row == MinRow(i.width, i.depth) IN
       [byte |-> (n \div row) * stride + (n % row), bit |-> 8]

Length(i) == IF i.depth = 1 THEN i.width * i.height
             ELSE MinRow(i.width, i.depth) * i.height

Normalize ==
  /\ transfer \in {"done", "failed"}
  /\ page = NoPage
  /\ page' = IF Acceptable(image)
             THEN [kind |-> "pixels", samples |-> [n \in 0..(Length(image) - 1) |-> Sample(image, n)]]
             ELSE Rejected
  /\ UNCHANGED <<image, rows, received, stride, transfer>>

PageNext == Strip \/ StripFails \/ StripCompressed \/ Normalize

PageSpec == PageInit /\ [][PageNext]_pageVars

(***************************************************************************)
(* What takes the pixels.                                                  *)
(***************************************************************************)
(* to_jpeg drops the alpha channel; consume_pages tells the PDF page how   *)
(* many channels its JPEG has.                                             *)
JpegChannels(depth) == IF depth = 32 THEN 3 ELSE Channels(depth)
PdfChannels(depth) == IF Channels(depth) = 1 THEN 1 ELSE 3

(* The samples that thumbnail_jpeg and the image encoders count on.        *)
Expected(i) == i.width * i.height * Channels(i.depth)

(***************************************************************************)
(* Properties.                                                             *)
(***************************************************************************)

(* Where channel c of the pixel in column x and row y is in the image.     *)
Location(i, x, y, c) ==
  [byte |-> y * i.stride + (x * i.depth) \div 8 + c,
   bit |-> IF i.depth = 1 THEN 7 - (x % 8) ELSE 8]

(* Whatever the geometry, the strips and where the transfer broke off, a   *)
(* page that normalize lets through has every sample of the driver's image *)
(* in its place, read within what was received, and of the number that     *)
(* the encoders, the thumbnail and the document count on.                  *)
PageWhole ==
  page.kind = "pixels" =>
    /\ DOMAIN page.samples = 0..(Expected(image) - 1)
    /\ \A x \in 0..(image.width - 1), y \in 0..(image.height - 1),
          c \in 0..(Channels(image.depth) - 1) :
         LET s == page.samples[(y * image.width + x) * Channels(image.depth) + c] IN
           s = Location(image, x, y, c) /\ s.byte < received
    /\ JpegChannels(image.depth) = PdfChannels(image.depth)

(* No page is refused that arrived whole: one of a supported depth is      *)
(* accepted once its transfer is done, the last row padded or not.         *)
WholeAccepted ==
  (/\ transfer = "done" /\ page # NoPage
   /\ image.width > 0 /\ image.depth \in Supported) => page.kind = "pixels"

(* A page gets through normalize only as it was scanned, and always when   *)
(* it was scanned whole.                                                   *)
PageExact == PageWhole /\ WholeAccepted
=============================================================================
