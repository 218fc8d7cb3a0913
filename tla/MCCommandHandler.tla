-------------------------- MODULE MCCommandHandler --------------------------
(* Two connections compete for the scanner: k1 starts s1, cancels and pings, *)
(* k2 starts s2 and lists the scanners.                                      *)
EXTENDS CommandHandler, TLC

CONSTANTS s1, s2, c1, l1, p1, k1, k2, n1

MCClientOf == s1 :> k1 @@ s2 :> k2 @@ c1 :> k1 @@ l1 :> k2 @@ p1 :> k1
MCClientOfScans == s1 :> k1 @@ s2 :> k2 @@ c1 :> k1 @@ l1 :> k2
MCErrors == {"PaperJam", "ImageConversion", "Sidecar"}
(* One error of the producer and one of its consumer are enough for liveness. *)
MCTwoErrors == {"PaperJam", "ImageConversion"}
MCOneClient == s1 :> k1 @@ s2 :> k1 @@ c1 :> k1 @@ l1 :> k1
=============================================================================
