------------------------------ MODULE Crawler ------------------------------
(***************************************************************************)
(* A crawler of the remote client, which imports the measurement files     *)
(* that have changed since its last run: changed_files.  What it has dealt *)
(* with is noted in a diff file, with the time of last modification and    *)
(* the checksum of each file.  Meanwhile, the lab goes on writing files.   *)
(***************************************************************************)
EXTENDS Integers, FiniteSets

CONSTANTS
  Files,      (* paths *)
  Texts,      (* contents, and thus also their checksums *)
  None,
  MaxTime     (* bound on the modifications of the files *)

VARIABLES
  file,       (* the files: when they were modified, and the text, or None *)
  clock,
  cutoff,     (* what was modified before is older than twelve weeks *)
  diff,       (* the diff file *)
  pc,         (* of the crawler: idle, walked or handling *)
  found, statuses, new_statuses,
  todo,       (* the paths the iterator has not returned yet *)
  items,      (* the paths it has returned, each with whether it is checked off *)
  seen,       (* history: what was last imported of each file *)
  unsure,     (* history: files whose entry is not about what was imported *)
  spoilt      (* history: files whose entry combines a new time and an old sum *)

crawl == <<found, statuses, new_statuses, todo, items>>
vars == <<file, clock, cutoff, diff, pc, crawl, seen, unsure, spoilt>>

Blank == [f \in Files |-> None]

CrawlerAssumption ==
  /\ MaxTime \in Nat
  /\ None \notin Texts /\ None \notin BOOLEAN
  /\ None \notin [time : Nat, text : Texts] /\ None \notin [time : Nat, sum : Texts \cup {None}]
-----------------------------------------------------------------------------
(* What is not about the crawler: the lab writes, touches (if the text is  *)
(* the old one) and removes files; time passes.                            *)
Write(f) ==
  /\ clock < MaxTime
  /\ clock' = clock + 1
  /\ \E text \in Texts : file' = [file EXCEPT ![f] = [time |-> clock', text |-> text]]
  /\ UNCHANGED <<cutoff, diff, pc, crawl, seen, unsure, spoilt>>

Unlink(f) ==
  /\ file[f] # None
  /\ file' = [file EXCEPT ![f] = None]
  /\ UNCHANGED <<clock, cutoff, diff, pc, crawl, seen, unsure, spoilt>>

WeeksPass ==
  /\ cutoff <= clock
  /\ cutoff' \in cutoff + 1 .. clock + 1
  /\ UNCHANGED <<file, clock, diff, pc, crawl, seen, unsure, spoilt>>
-----------------------------------------------------------------------------
Touched(f) == file[f] # None /\ (diff[f] = None \/ diff[f].time # file[f].time)

(* The times are updated in place, also those of the old entries.          *)
_crawl_all ==
  /\ pc = "idle"
  /\ pc' = "walked"
  /\ found' = {f \in Files : file[f] # None}
  /\ todo' = {f \in Files : Touched(f)}
  /\ statuses' = [f \in Files |->
       IF diff[f] # None /\ Touched(f) THEN [diff[f] EXCEPT !.time = file[f].time] ELSE diff[f]]
  /\ new_statuses' = [f \in Files |->
       IF diff[f] = None /\ Touched(f) THEN [time |-> file[f].time, sum |-> None] ELSE None]
  /\ items' = Blank
  /\ UNCHANGED <<file, clock, cutoff, diff, seen, unsure, spoilt>>

HasNewSum(f) == statuses[f] = None \/ statuses[f].sum # file[f].text

(* md5sum fails if one of the files is gone, and with it, the crawl.       *)
_enrich_new_statuses ==
  /\ pc = "walked"
  /\ LET changed == {f \in todo : HasNewSum(f)}
         Entry(f) == IF statuses[f] = None THEN new_statuses[f] ELSE statuses[f]
     IN IF \E f \in todo : file[f] = None
        THEN pc' = "idle" /\ found' = {} /\ todo' = {} /\ statuses' = Blank /\ new_statuses' = Blank
        ELSE /\ pc' = "handling"
             /\ new_statuses' = [f \in Files |->
                  IF f \in changed THEN [Entry(f) EXCEPT !.sum = file[f].text] ELSE None]
             /\ todo' = changed \cup {f \in Files \ found : statuses[f] # None}
             /\ UNCHANGED <<found, statuses>>
  /\ UNCHANGED <<file, clock, cutoff, diff, items, seen, unsure, spoilt>>

was_changed(f) == new_statuses[f] # None

(* Changed paths come from oldest to newest, then the removed ones.        *)
Precedes(f, g) ==
  was_changed(f) /\ (was_changed(g) => new_statuses[f].time < new_statuses[g].time)

(* The program that uses the iterator imports a file and checks it off, or *)
(* fails, and goes on with the next file or raises an exception.           *)
Handle(f) ==
  /\ pc = "handling" /\ f \in todo
  /\ \A g \in todo \ {f} : ~Precedes(g, f)
  /\ \E done \in IF was_changed(f) /\ file[f] = None THEN {FALSE} ELSE BOOLEAN :
       /\ items' = [items EXCEPT ![f] = done]
       /\ IF done
          THEN /\ seen' = [seen EXCEPT ![f] = IF was_changed(f) THEN file[f].text ELSE None]
               /\ todo' = todo \ {f}
               /\ unsure' = IF was_changed(f) /\ file[f].text # new_statuses[f].sum
                            THEN unsure \cup {f} ELSE unsure
          ELSE todo' \in {todo \ {f}, {}} /\ UNCHANGED <<seen, unsure>>
  /\ UNCHANGED <<file, clock, cutoff, diff, pc, found, statuses, new_statuses, spoilt>>

CheckedOff(f) == items[f] = TRUE

(* Old files are noted even if they could not be imported.                 *)
IsOld(f) == items[f] = FALSE /\ was_changed(f) /\ new_statuses[f].time < cutoff

(* Mutant: everything that was returned is noted. *)
IsReturned(f) == items[f] # None

IsNoted(f) == CheckedOff(f) \/ IsOld(f)

(* The diff file is only written if something was checked off.             *)
Finish ==
  /\ pc = "handling" /\ todo = {}
  /\ pc' = "idle"
  /\ IF \E f \in Files : CheckedOff(f)
     THEN /\ diff' = [f \in Files |-> IF IsNoted(f) THEN new_statuses[f] ELSE statuses[f]]
          /\ spoilt' = {f \in Files : ~CheckedOff(f) /\ ~IsOld(f)
                          /\ IF was_changed(f) THEN statuses[f] # None ELSE f \in spoilt}
          /\ unsure' = {f \in Files : IF CheckedOff(f) THEN f \in unsure /\ diff'[f] # None
                                      ELSE IsOld(f) \/ f \in unsure}
     ELSE UNCHANGED <<diff, spoilt, unsure>>
  /\ found' = {} /\ statuses' = Blank /\ new_statuses' = Blank /\ items' = Blank
  /\ UNCHANGED <<file, clock, cutoff, todo, seen>>

(* The crawler is killed before it has written the diff file.              *)
Crash ==
  /\ pc # "idle"
  /\ pc' = "idle"
  /\ unsure' = unsure \cup {f \in Files : CheckedOff(f)}
  /\ found' = {} /\ todo' = {} /\ statuses' = Blank /\ new_statuses' = Blank /\ items' = Blank
  /\ UNCHANGED <<file, clock, cutoff, diff, seen, spoilt>>

Init ==
  /\ file = Blank /\ clock = 0 /\ cutoff = 0
  /\ diff = Blank
  /\ pc = "idle"
  /\ found = {} /\ statuses = Blank /\ new_statuses = Blank /\ todo = {} /\ items = Blank
  /\ seen = Blank /\ unsure = {} /\ spoilt = {}

Lab == WeeksPass \/ \E f \in Files : Write(f) \/ Unlink(f)

changed_files == _crawl_all \/ _enrich_new_statuses \/ (\E f \in Files : Handle(f)) \/ Finish \/ Crash

Next == Lab \/ changed_files

Spec == Init /\ [][Next]_vars
-----------------------------------------------------------------------------
Offered(f) == IF file[f] = None THEN diff[f] # None ELSE Touched(f) /\ (diff[f] = None \/ diff[f].sum # file[f].text)

IsBehind(f) == seen[f] # IF file[f] = None THEN None ELSE file[f].text

(* Whatever fails, is killed or written at the same time, the next crawl   *)
(* offers every file whose last imported text is not the present one,      *)
(* except for old files that could not be imported, files that have got    *)
(* back an earlier text, and files that could not be imported after their  *)
(* old status had been changed in place.                                   *)
NothingForgotten ==
  pc = "idle" => \A f \in Files \ (unsure \cup spoilt) : IsBehind(f) => Offered(f)

(* A file is not imported twice with the same text, even if it is touched  *)
(* or its neighbours fail.                                                 *)
NewText ==
  \A f \in Files : (items[f] # TRUE /\ items'[f] = TRUE /\ was_changed(f)) => seen'[f] # seen[f] \/ f \in unsure'

(* Every text that a file has got is imported, and only once, through      *)
(* failures and crashes.                                                   *)
EveryTextImportedOnce == NothingForgotten' /\ NewText
=============================================================================
