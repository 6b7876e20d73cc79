------------------------------ MODULE Numbers ------------------------------
(***************************************************************************)
(* The numbers of the depositions of one apparatus: a year and an index.   *)
(* Pages and programs are given the next number, and keep it while others  *)
(* add and delete depositions.  All views look for a deposition by its     *)
(* number.                                                                 *)
(***************************************************************************)
EXTENDS Integers, FiniteSets, FiniteSetsExt

CONSTANTS
  Users,        (* users with a browser *)
  Programs,     (* programs with the remote client, each of which has made one deposition *)
  Founded,      (* the indices of the depositions in the first year *)
  MaxIndex,     (* the greatest index a form accepts: 9999 *)
  MaxYear,      (* bound on the years *)
  MaxAdded,     (* bound on the number of depositions added *)
  None          (* no page, no number, no deposition *)

VARIABLES
  year,
  depositions,  (* function from numbers to rows *)
  added,        (* how many depositions have been added: the last primary key *)
  page,         (* the page in the browser of each user, or None *)
  program,      (* the Python object of each program *)
  doubtful,     (* history: users and programs with a number of their own or one that was taken meanwhile *)
  vacated       (* history: numbers that may mean another deposition than before *)

vars == <<year, depositions, added, page, program, doubtful, vacated>>

NumbersAssumption ==
  /\ MaxIndex \in Nat /\ Founded \subseteq 1 .. MaxIndex
  /\ Users \cap Programs = {} /\ None \notin Users \cup Programs
  /\ None \notin [year : Nat, index : Int]

(* A row of the database, with the user or the program that made it.       *)
Row(id, by) == [id |-> id, by |-> by]
Number(y, i) == [year |-> y, index |-> i]
IndicesOf(y) == {n.index : n \in {n \in DOMAIN depositions : n.year = y}}
-----------------------------------------------------------------------------
get_next_deposition_number == Number(year, Max(IndicesOf(year) \cup {0}) + 1)

(* A new deposition's number must be free and belong to its year; the last *)
(* conjunct is clean_deposition_number_field.                              *)
IsAccepted(number, made) ==
  number \notin DOMAIN depositions /\ number.year = made /\ number.index \in 1 .. MaxIndex

Holders(number) == {u \in Users : page[u] # None /\ page[u].number = number}
                   \cup {p \in Programs : program[p].number = number}

Add(who, number) ==
  /\ depositions' = [n \in DOMAIN depositions \cup {number} |->
                       IF n = number THEN Row(added + 1, who) ELSE depositions[n]]
  /\ added' = added + 1
  /\ doubtful' = doubtful \cup Holders(number)
  /\ vacated' = IF who \in doubtful THEN vacated \cup {number} ELSE vacated
-----------------------------------------------------------------------------
(* The pages: id is the deposition that is shown, None for a new one.      *)
Page(url, number, id) == [url |-> url, number |-> number, id |-> id]

GetNew(u) ==
  /\ page[u] = None
  /\ page' = [page EXCEPT ![u] = Page(None, get_next_deposition_number, None)]
  /\ doubtful' = doubtful \ {u}
  /\ UNCHANGED <<year, depositions, added, program, vacated>>

GetExisting(u) == \E n \in DOMAIN depositions :
  /\ page[u] = None
  /\ page' = [page EXCEPT ![u] = Page(n, n, depositions[n].id)]
  /\ UNCHANGED <<year, depositions, added, program, doubtful, vacated>>

(* The user types another number.                                          *)
TypeNumber(u) ==
  /\ page[u] # None
  /\ \E i \in 1 .. MaxIndex : page' = [page EXCEPT ![u].number = Number(year, i)]
  /\ doubtful' = doubtful \cup {u}
  /\ UNCHANGED <<year, depositions, added, program, vacated>>

(* The page is posted with the year in which the deposition was made.  If  *)
(* it is refused, it is shown again with the same number.                  *)
PostNew(u) ==
  /\ page[u] # None /\ page[u].url = None /\ added < MaxAdded
  /\ \E made \in 1 .. year : IsAccepted(page[u].number, made)
  /\ Add(u, page[u].number)
  /\ page' = [page EXCEPT ![u] = None]
  /\ UNCHANGED <<year, program>>

(* DepositionForm.clean_number for finished depositions. *)
KeepsNumber(process, number) == number = process

(* The deposition is looked up again, by the number in the URL.            *)
PostExisting(u) ==
  /\ page[u] # None /\ page[u].url # None
  /\ IF page[u].url \in DOMAIN depositions
     THEN /\ KeepsNumber(page[u].url, page[u].number)
          /\ depositions' = [n \in (DOMAIN depositions \ {page[u].url}) \cup {page[u].number} |->
                               IF n = page[u].number THEN depositions[page[u].url] ELSE depositions[n]]
     ELSE UNCHANGED depositions
  /\ page' = [page EXCEPT ![u] = None]
  /\ UNCHANGED <<year, added, program, doubtful, vacated>>

delete_process(n) ==
  /\ depositions' = [m \in DOMAIN depositions \ {n} |-> depositions[m]]
  /\ vacated' = vacated \cup {Number(n.year, i) : i \in {i \in 1 .. n.index : i > Max((IndicesOf(n.year) \ {n.index}) \cup {0})}}
  /\ UNCHANGED <<year, added, page, program, doubtful>>
-----------------------------------------------------------------------------
(* Mutant: a number is asked for whenever the deposition is submitted. *)
IsUnsubmitted(p) == TRUE

HasNoNumber(p) == program[p].number = None

(* ClusterToolDeposition.submit: first, it gets a number ...               *)
AskNumber(p) ==
  /\ ~program[p].asked /\ program[p].id = None
  /\ program' = [program EXCEPT ![p].asked = TRUE, ![p].number = IF HasNoNumber(p) THEN get_next_deposition_number ELSE @]
  /\ doubtful' = IF HasNoNumber(p) THEN doubtful \ {p} ELSE doubtful
  /\ UNCHANGED <<year, depositions, added, page, vacated>>

(* ... and then sends the data.  If the answer is lost or the deposition   *)
(* refused, the caller gets an exception and may submit it once more.      *)
Submit(p) ==
  /\ program[p].asked /\ added < MaxAdded
  /\ IF IsAccepted(program[p].number, program[p].made)
     THEN /\ Add(p, program[p].number)
          /\ \E id \in {added + 1, None} : program' = [program EXCEPT ![p].id = id, ![p].asked = FALSE]
     ELSE program' = [program EXCEPT ![p].asked = FALSE] /\ UNCHANGED <<depositions, added, doubtful, vacated>>
  /\ UNCHANGED <<year, page>>

NewYear == year < MaxYear /\ year' = year + 1 /\ UNCHANGED <<depositions, added, page, program, doubtful, vacated>>

Init ==
  /\ year = 1
  /\ depositions = [n \in {Number(1, i) : i \in Founded} |-> Row(n.index, None)]
  /\ added = Max(Founded \cup {0})
  /\ page = [u \in Users |-> None]
  /\ program = [p \in Programs |-> [number |-> None, id |-> None, asked |-> FALSE, made |-> 1]]
  /\ doubtful = {} /\ vacated = {}

Next ==
  \/ \E u \in Users : GetNew(u) \/ GetExisting(u) \/ TypeNumber(u) \/ PostNew(u) \/ PostExisting(u)
  \/ \E n \in DOMAIN depositions : delete_process(n)
  \/ \E p \in Programs : AskNumber(p) \/ Submit(p)
  \/ NewYear

Spec == Init /\ [][Next]_vars
-----------------------------------------------------------------------------
(* However often a program submits its deposition, and although it never   *)
(* hears of some of its successes, the deposition is in the database once. *)
StoredOnce == \A p \in Programs : Cardinality({n \in DOMAIN depositions : depositions[n].by = p}) <= 1

(* A page shows the deposition that its number stands for, so that saving  *)
(* it changes no other one, unless the deposition with the highest number  *)
(* of a year has been deleted, or a number been used that was typed, or    *)
(* given to two of them.                                                   *)
PagesMeanTheirDeposition ==
  \A u \in Users : page[u] # None /\ page[u].url # None /\ page[u].url \in DOMAIN depositions /\ page[u].url \notin vacated
                     => depositions[page[u].url].id = page[u].id

(* A number that somebody is given is free, in spite of gaps.              *)
FreeNumbers ==
  /\ \A u \in Users : page'[u] # None /\ page[u] = None /\ page'[u].url = None => page'[u].number \notin DOMAIN depositions
  /\ \A p \in Programs : program'[p].number # program[p].number => program'[p].number \notin DOMAIN depositions

(* A number stands for one deposition, on pages, in programs and in the    *)
(* database.                                                               *)
NumbersNameOneDeposition == StoredOnce' /\ PagesMeanTheirDeposition' /\ FreeNumbers
=============================================================================
