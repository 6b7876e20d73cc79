------------------------------ MODULE MCSaves ------------------------------
(* A sample with two pieces that share a deposition and are in a series;   *)
(* somebody watches one of them.                                           *)
EXTENDS Saves

CONSTANTS mother, left, right, split, deposition, watcher, series

OneSplit == [s \in Samples |-> IF s = mother THEN <<split>> ELSE <<>>]
TwoPieces == [p \in Processes |-> IF p = split THEN <<left, right>> ELSE <<>>]
Shared == [p \in Processes |-> IF p = split THEN <<mother>> ELSE <<left, right>>]
WatchedPiece == [s \in Samples |-> IF s = left THEN <<watcher>> ELSE <<>>]
PiecesInSeries == [s \in Samples |-> IF s = mother THEN <<>> ELSE <<series>>]
SplitFirst == [p \in Processes |-> IF p = split THEN 1 ELSE 2]
=============================================================================
