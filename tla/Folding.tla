------------------------------ MODULE Folding ------------------------------
(***************************************************************************)
(* Folded processes on data sheets.  A user chooses classes of processes   *)
(* that are folded by default, and folds or unfolds single processes of a  *)
(* sample.  Only deviations from the default are stored, so that a change  *)
(* of the defaults must change them, too.  All of it is stored with the    *)
(* user's details, which requests read first and save as a whole later;    *)
(* the classes are a relation of its own, which only their form writes.    *)
(***************************************************************************)
EXTENDS FiniteSets

CONSTANTS
  Requests,  (* requests of the user that may overlap *)
  Class,     (* function from processes to their classes *)
  Sheets,    (* pairs of a sample and one of its processes *)
  None       (* no request *)

VARIABLES
  default,     (* classes folded by default *)
  exceptional, (* pairs in Sheets that deviate from it *)
  job,         (* what running requests are going to save *)
  raced        (* history: requests have overlapped *)

vars == <<default, exceptional, job, raced>>

Classes == {Class[p] : p \in DOMAIN Class}

_is_folded(entry) == (Class[entry[2]] \in default) # (entry \in exceptional)

Begin(r, defaults, exceptions) ==
  /\ job[r] = None
  /\ job' = [job EXCEPT ![r] = [default |-> defaults, exceptional |-> exceptions]]
  /\ raced' = (raced \/ \E q \in Requests : job[q] # None)
  /\ UNCHANGED <<default, exceptional>>

fold_process(r, entry) ==
  Begin(r, None, IF entry \in exceptional THEN exceptional \ {entry} ELSE exceptional \cup {entry})

(* Mutant: only classes that are folded from now on. *)
NewOnes(defaults) == defaults \ default

differences(defaults) == (defaults \ default) \cup (default \ defaults)

(* Exceptions in the classes that change become the rule. *)
edit_preferences(r, defaults) ==
  Begin(r, defaults, {entry \in exceptional : Class[entry[2]] \notin differences(defaults)})

(* The end of the request, which writes the whole row. *)
save(r) ==
  /\ job[r] # None
  /\ default' = IF job[r].default = None THEN default ELSE job[r].default
  /\ exceptional' = job[r].exceptional
  /\ job' = [job EXCEPT ![r] = None]
  /\ UNCHANGED raced

Init ==
  /\ default \in SUBSET Classes
  /\ exceptional = {}
  /\ job = [r \in Requests |-> None]
  /\ raced = FALSE

Next ==
  \E r \in Requests :
    \/ \E entry \in Sheets : fold_process(r, entry)
    \/ \E defaults \in SUBSET Classes : edit_preferences(r, defaults)
    \/ save(r)

Spec == Init /\ [][Next]_vars
-----------------------------------------------------------------------------
(* Unless requests overlap, processes that the user has folded or unfolded *)
(* by hand do not change their state when she changes the defaults, and    *)
(* all others follow the defaults.                                         *)
ByHandOrDefault ==
  ~raced /\ default' # default =>
    \A entry \in Sheets :
      _is_folded(entry)' = IF entry \in exceptional THEN _is_folded(entry) ELSE Class[entry[2]] \in default'
ChoicesSurvive == [][ByHandOrDefault]_vars
=============================================================================
