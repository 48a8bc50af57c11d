----------------------------- MODULE MCUpdater -----------------------------
(* Values for the constants of Updater. *)
EXTENDS Updater, TLC

CONSTANTS p1, p2, e1, e2, eEmpty, eBig, b1, b2, bEmpty, bBig, partial, t1, t2

MCContent == e1 :> b1 @@ e2 :> b2 @@ eEmpty :> bEmpty @@ eBig :> bBig
MCContentTwo == e1 :> b1 @@ e2 :> b2
MCContentEdge == e1 :> b1 @@ eBig :> bBig

\* b2 is exactly as long as the limit of 2, bBig one byte longer.
MCSize == b1 :> 1 @@ b2 :> 2 @@ bEmpty :> 0 @@ bBig :> 3 @@ partial :> 1
MCCrc == b1 :> 11 @@ b2 :> 12 @@ bEmpty :> 0 @@ bBig :> 13 @@ partial :> 14
MCSizeTwo == b1 :> 1 @@ b2 :> 2 @@ partial :> 1
MCCrcTwo == b1 :> 11 @@ b2 :> 12 @@ partial :> 14
MCSizeEdge == b1 :> 1 @@ bBig :> 3 @@ partial :> 1
MCCrcEdge == b1 :> 11 @@ bBig :> 13 @@ partial :> 14

\* The two updaters, and the two names of downloads, are interchangeable.
MCSymmetry == Permutations({p1, p2}) \cup Permutations({t1, t2})
=============================================================================
