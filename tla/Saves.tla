------------------------------- MODULE Saves -------------------------------
(***************************************************************************)
(* Save requests and what they wait for.  A call of save() walks through   *)
(* the lineage and visits one row after the other: first it enters the     *)
(* lock of the key list of the object and purges, then it updates the row, *)
(* which stays locked until the request commits (ATOMIC_REQUESTS).  A save *)
(* of a sample goes to its pieces and to its ancestors, so that two walks  *)
(* take the same rows in opposite orders; the database (PostgreSQL) finds  *)
(* such a deadlock and aborts one of the transactions.  The lock of a key  *)
(* list is an entry in the cache, which the database knows nothing of.     *)
(*                                                                         *)
(* Only the walks and the waiting are kept; for what is purged and read    *)
(* see SheetCache, for the polling and for killed workers CacheLock.       *)
(***************************************************************************)
EXTENDS Integers, SequencesExt

CONSTANTS
  Requests,  (* requests that save something *)
  Samples,   (* samples, the rows of which have a key list *)
  Processes, (* processes, too *)
  Others,    (* rows without a key list: user details and sample series *)
  SplitsOf,  (* the splits of each sample, in the order of their timestamps *)
  PiecesOf,  (* the pieces of each process, by name; none if it is no split *)
  SamplesOf, (* the samples of each process, by name *)
  DetailsOf, (* the details of the users that watch each sample *)
  SeriesOf,  (* the series of each sample *)
  Stamp,     (* the timestamp of each process *)
  MaxCalls,  (* bound on the calls of save() in one request *)
  NoOne      (* no transaction holds the row *)

Guarded == Samples \cup Processes
Rows == Guarded \cup Others

VARIABLES
  todo,   (* the rows that the current call of save() has yet to visit *)
  calls,  (* the number of calls of save() in each request *)
  pc,     (* where each request is *)
  locks,  (* who is in the lock context of each key list *)
  row     (* the transaction that has updated each row and not yet ended *)

vars == <<todo, calls, pc, locks, row>>
-----------------------------------------------------------------------------
(* Walks over the rows.                                                    *)

Concat(Walk(_), objects) == FlattenSeq([i \in DOMAIN objects |-> Walk(objects[i])])

(* The split that the sample comes from, if any. *)
OriginOf(s) == SetToSeq({p \in Processes : s \in ToSet(PiecesOf[p])})
ParentOf(p) == CHOOSE s \in Samples : p \in ToSet(SplitsOf[s])

(* Sample.save on its way down from the split "from", which need not be    *)
(* followed again; "from" is NoOne where the way down begins.              *)
RECURSIVE Down(_, _, _)
Down(s, from, series) ==
  LET followed == SelectSeq(SplitsOf[s], LAMBDA p : from = NoOne \/ Stamp[p] > Stamp[from])
      SplitWalk(p) == <<p>> \o Concat(LAMBDA piece : Down(piece, p, <<>>), PiecesOf[p])
  IN  <<s>> \o DetailsOf[s] \o series \o Concat(SplitWalk, followed)

(* Sample.save from outside goes on to the ancestors, each with all its    *)
(* descendants.  The series are saved only if the view has called save().  *)
RECURSIVE SampleWalk(_, _)
SampleWalk(s, series) ==
  Down(s, NoOne, series) \o
  FlattenSeq([p \in 1 .. Len(OriginOf(s)) |->
                OriginOf(s) \o SampleWalk(ParentOf(OriginOf(s)[p]), <<>>)])

ProcessWalk(p) == <<p>> \o Concat(LAMBDA s : SampleWalk(s, <<>>), SamplesOf[p])

WalkOf == [o \in Guarded |-> IF o \in Samples THEN SampleWalk(o, SeriesOf[o]) ELSE ProcessWalk(o)]
-----------------------------------------------------------------------------
Ended == {"committed", "failed"}
Begun(r) == calls[r] > 0

(* The next row is begun with its lock, if it has one. *)
WayOn(rows) == IF rows = <<>> THEN "ready" ELSE IF Head(rows) \in Guarded THEN "waiting" ELSE "updating"

Go(r, rows) ==
  /\ todo' = [todo EXCEPT ![r] = rows]
  /\ pc' = [pc EXCEPT ![r] = WayOn(rows)]

(* The view calls save() for an object. *)
Call(r, o) ==
  /\ pc[r] = "ready"
  /\ calls[r] < MaxCalls
  /\ calls' = [calls EXCEPT ![r] = @ + 1]
  /\ Go(r, WalkOf[o])
  /\ UNCHANGED <<locks, row>>

Acquire(r) ==
  /\ pc[r] = "waiting"
  /\ locks[Head(todo[r])] = NoOne
  /\ locks' = [locks EXCEPT ![Head(todo[r])] = r]
  /\ pc' = [pc EXCEPT ![r] = "inside"]
  /\ UNCHANGED <<todo, calls, row>>

(* Mutant: the row is updated in the context as well, which is left at the *)
(* end of the request only.                                                *)
LeaveAtEnd(r) ==
  /\ pc[r] = "inside"
  /\ pc' = [pc EXCEPT ![r] = "updating"]
  /\ UNCHANGED <<todo, calls, locks, row>>

(* The items are purged and the with statement left. *)
Leave(r) ==
  /\ pc[r] = "inside"
  /\ locks' = [locks EXCEPT ![Head(todo[r])] = NoOne]
  /\ pc' = [pc EXCEPT ![r] = "updating"]
  /\ UNCHANGED <<todo, calls, row>>

(* super().save() waits for a transaction that has updated the row. *)
UpdateRow(r) ==
  /\ pc[r] = "updating"
  /\ row[Head(todo[r])] \in {NoOne, r}
  /\ row' = [row EXCEPT ![Head(todo[r])] = r]
  /\ Go(r, Tail(todo[r]))
  /\ UNCHANGED <<calls, locks>>

(* The transaction ends; an exception leaves the context, if there is one. *)
End(r, how) ==
  /\ pc' = [pc EXCEPT ![r] = how]
  /\ row' = [x \in Rows |-> IF row[x] = r THEN NoOne ELSE row[x]]
  /\ locks' = [x \in Guarded |-> IF locks[x] = r THEN NoOne ELSE locks[x]]
  /\ todo' = [todo EXCEPT ![r] = <<>>]
  /\ UNCHANGED calls

Commit(r) == pc[r] = "ready" /\ Begun(r) /\ End(r, "committed")

(* Something in the view fails; nobody can rely on that. *)
Fail(r) == Begun(r) /\ pc[r] \notin Ended /\ End(r, "failed")

(* Transactions that wait for rows of each other in a circle. *)
WaitsFor(r, q) == pc[r] = "updating" /\ row[Head(todo[r])] = q

Deadlocked(r) ==
  \E circle \in SUBSET Requests :
    /\ r \in circle
    /\ \A x \in circle : \E y \in circle \ {x} : WaitsFor(x, y)
    /\ \A y \in circle : \E x \in circle \ {y} : WaitsFor(x, y)

(* The database aborts a transaction of the circle. *)
Abort(r) == Deadlocked(r) /\ End(r, "failed")

Init ==
  /\ todo = [r \in Requests |-> <<>>]
  /\ calls = [r \in Requests |-> 0]
  /\ pc = [r \in Requests |-> "ready"]
  /\ locks = [o \in Guarded |-> NoOne]
  /\ row = [o \in Rows |-> NoOne]

Next ==
  \E r \in Requests :
    \/ \E o \in Guarded : Call(r, o)
    \/ Acquire(r)
    \/ Leave(r)
    \/ UpdateRow(r)
    \/ Commit(r)
    \/ Fail(r)
    \/ Abort(r)

Spec == Init /\ [][Next]_vars

(* A request goes on as far as it can, its polling succeeds if the lock is *)
(* free for good, and the database resolves deadlocks between rows.        *)
Fairness ==
  \A r \in Requests :
    /\ WF_vars(Acquire(r))
    /\ WF_vars(Leave(r))
    /\ WF_vars(UpdateRow(r))
    /\ WF_vars(Commit(r))
    /\ WF_vars(Abort(r))

FairSpec == Spec /\ Fairness
-----------------------------------------------------------------------------
(* No save request waits for ever.  Rows are waited for in circles, which  *)
(* the database sees and resolves; a circle that goes through the lock of  *)
(* a key list it would not see, so nobody may wait for a row in a context. *)
SavesEnd == \A r \in Requests : Begun(r) ~> pc[r] \in Ended
=============================================================================
