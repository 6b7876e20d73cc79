----------------------------- MODULE MCHandover -----------------------------
(* Rosalee claims samples of Juliette, Sean reviews the claims.            *)
EXTENDS Handover

CONSTANTS juliette, rosalee, sean, sample1, sample2, phd, legacy

Groups == [t \in Topics |-> IF t = phd THEN {juliette} ELSE Users]
Adders == [t \in Topics |-> IF t = phd THEN {sean} ELSE {rosalee}]
Rows == [s \in Samples |-> [responsible |-> juliette, topic |-> IF s = sample1 THEN legacy ELSE phd]]
=============================================================================
