----------------------------- MODULE MCNewsfeed -----------------------------
(* Juliette manages a confidential topic, and Sean the legacy topic;       *)
(* Rosalee is in both but does not read the news of topics, and Juliette   *)
(* reads only important news.                                              *)
EXTENDS Newsfeed

CONSTANTS juliette, rosalee, sean, sample1, sample2, phd, legacy

Managing == [t \in Topics |-> IF t = phd THEN juliette ELSE sean]
Groups == [t \in Topics |-> IF t = phd THEN {juliette, rosalee} ELSE {sean, rosalee}]
Subscriptions == [f \in Feeds |-> IF f = "topic" THEN {juliette, sean} ELSE Users]
Rows == [s \in Samples |-> [responsible |-> juliette, topic |-> IF s = sample1 THEN legacy ELSE phd]]
=============================================================================
