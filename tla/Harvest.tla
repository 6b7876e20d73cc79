------------------------------ MODULE Harvest ------------------------------
(***************************************************************************)
(* The interface for harvesters, OAI-PMH.  A harvester asks for the        *)
(* processes since its last visit, and relies on the date of the answer.   *)
(* The database has finer timestamps than the protocol: a second has Ticks *)
(* instants.                                                               *)
(***************************************************************************)
EXTENDS Integers, FiniteSets, FiniteSetsExt

CONSTANTS
  Models,       (* the classes of processes *)
  Ticks,        (* instants of a second *)
  MaxTime,      (* bound on the instants *)
  MaxProcesses, (* bound on the number of processes *)
  None

VARIABLES
  now,
  processes, (* function from primary keys to models and timestamps *)
  added,     (* how many processes there have been *)
  first,     (* the cached timestamp of the first process, or None *)
  set,       (* what the harvester collects: a model or all *)
  last,      (* the beginning of its next request, or None *)
  request,   (* its present request, or None *)
  have,      (* the processes it has got *)
  late,      (* history: processes that appeared before these times *)
  withheld,  (* history: processes that an answer should have contained *)
  overlooked (* history: processes that appeared between a query and its late date *)

vars == <<now, processes, added, first, set, last, request, have, late, withheld, overlooked>>

HarvestAssumption == Ticks \in Nat \ {0} /\ MaxTime \in Nat /\ MaxProcesses \in Nat /\ None \notin Int

Second(i) == i \div Ticks
Process(model, timestamp) == [model |-> model, timestamp |-> timestamp]
-----------------------------------------------------------------------------
(* Fractions of a second are cut off. *)
timestamp_isoformat(i) == Second(i)

(* Mutant: the ends of the interval do not belong to it. *)
StrictlyBetween(i, from, until) == i > from * Ticks /\ (until # None => i < until * Ticks)

IsBetween(i, from, until) == i >= from * Ticks /\ (until # None => i <= until * Ticks)

process_model(model, from, until) ==
  {p \in DOMAIN processes : processes[p].model = model /\ IsBetween(processes[p].timestamp, from, until)}

(* list_records and list_identifiers: without any process of some class,   *)
(* nothing is answered but noRecordsMatch.                                 *)
Asked == IF set = "all" THEN Models ELSE {set}
list_records(from, until) ==
  IF \E model \in Asked : process_model(model, from, until) = {} THEN {}
  ELSE UNION {process_model(model, from, until) : model \in Asked}

Earliest == Min({processes[p].timestamp : p \in DOMAIN processes})
-----------------------------------------------------------------------------
(* At first, the harvester asks for the earliest timestamp.  The interface *)
(* has an error if there is no process at all.                             *)
identify ==
  /\ last = None
  /\ processes # <<>> \/ first # None
  /\ first' = IF first = None THEN Earliest ELSE first
  /\ last' = timestamp_isoformat(first')
  /\ UNCHANGED <<now, processes, added, set, request, have, late, withheld, overlooked>>

(* An answer is dated before it is put together. *)
create_response_tree ==
  /\ last # None /\ request = None
  /\ \E until \in {None, Second(now)} :
        request' = [from |-> last, until |-> until, date |-> timestamp_isoformat(now), gap |-> None]
  /\ UNCHANGED <<now, processes, added, first, set, last, have, late, withheld, overlooked>>

Answered(date) ==
  /\ request' = None
  /\ last' = IF request.until # None THEN request.until ELSE date

respond ==
  /\ request # None /\ request.gap = None
  /\ list_records(request.from, request.until) # {}
  /\ have' = have \cup list_records(request.from, request.until)
  /\ Answered(request.date)
  /\ UNCHANGED <<now, processes, added, first, set, late, withheld, overlooked>>

(* PmhError("noRecordsMatch") is raised; what appears from now on is not in *)
(* the answer.                                                             *)
fail ==
  /\ request # None /\ request.gap = None
  /\ list_records(request.from, request.until) = {}
  /\ request' = [request EXCEPT !.gap = {}]
  /\ withheld' = withheld \cup {p \in DOMAIN processes : processes[p].model \in Asked
                                   /\ IsBetween(processes[p].timestamp, request.from, request.until)}
  /\ UNCHANGED <<now, processes, added, first, set, last, have, late, overlooked>>

(* PmhError.response makes a new answer, which is dated after the query.   *)
respond_error ==
  /\ request # None /\ request.gap # None
  /\ Answered(timestamp_isoformat(now))
  /\ overlooked' = overlooked \cup {p \in request.gap \cap DOMAIN processes : processes[p].timestamp < last' * Ticks}
  /\ UNCHANGED <<now, processes, added, first, set, have, late, withheld>>

(* The database: a timestamp may be earlier than the moment of saving.     *)
IsLate(timestamp) ==
  (last # None /\ timestamp < last * Ticks) \/ (first # None /\ timestamp < Second(first) * Ticks)

AddProcess(model, timestamp) ==
  /\ added < MaxProcesses
  /\ added' = added + 1
  /\ processes' = [p \in DOMAIN processes \cup {added'} |->
                     IF p = added' THEN Process(model, timestamp) ELSE processes[p]]
  /\ late' = IF IsLate(timestamp) THEN late \cup {added'} ELSE late
  /\ request' = IF request # None /\ request.gap # None THEN [request EXCEPT !.gap = @ \cup {added'}] ELSE request
  /\ UNCHANGED <<now, first, set, last, have, withheld, overlooked>>

DeleteProcess(p) ==
  /\ processes' = [q \in DOMAIN processes \ {p} |-> processes[q]]
  /\ UNCHANGED <<now, added, first, set, last, request, have, late, withheld, overlooked>>

Pass ==
  /\ now < MaxTime
  /\ now' = now + 1
  /\ first' \in {first, None}
  /\ UNCHANGED <<processes, added, set, last, request, have, late, withheld, overlooked>>

Init ==
  /\ now = 0 /\ processes = <<>> /\ added = 0 /\ first = None
  /\ set \in Models \cup {"all"}
  /\ last = None /\ request = None
  /\ have = {} /\ late = {} /\ withheld = {} /\ overlooked = {}

Next ==
  \/ identify \/ create_response_tree \/ respond \/ fail \/ respond_error \/ Pass
  \/ \E model \in Models, t \in 0 .. now : AddProcess(model, t)
  \/ \E p \in DOMAIN processes : DeleteProcess(p)

Spec == Init /\ [][Next]_vars
-----------------------------------------------------------------------------
(* The harvester has every process with a timestamp before the time it     *)
(* will ask for next, although timestamps are finer than its intervals and *)
(* processes are saved while answers are put together, except for those    *)
(* that appeared too late, those lost because one of all classes had none, *)
(* and those that appeared after a fruitless query and before the date of  *)
(* its answer.                                                             *)
NothingMissed ==
  \A p \in DOMAIN processes :
    processes[p].model \in Asked /\ last # None /\ processes[p].timestamp < last * Ticks =>
      p \in have \cup late \cup overlooked \/ (set = "all" /\ p \in withheld)
=============================================================================
