---------------------------- MODULE SearchModels ----------------------------
(***************************************************************************)
(* get_all_searchable_models: a global variable of the web server which is *)
(* filled at first use, by a loop over all models that calls itself for    *)
(* some of them.  While it is being filled, it is a set, and afterwards a  *)
(* frozenset.  Several threads may be the first.                           *)
(***************************************************************************)
EXTENDS FiniteSets

CONSTANTS
  Threads,
  Models,      (* all models with a get_search_tree_node *)
  Abstract,    (* those of them that cannot be searched for *)
  Referring,   (* those of them whose node asks for all searchable models *)
  None         (* the variable before its first use *)

SearchModelsAssumption == None \notin [models : SUBSET Models, frozen : BOOLEAN]

VARIABLES
  all_searchable_models, (* None or a set, frozen or not *)
  pc,                    (* of each thread: idle, assign, loop, found or failed *)
  todo,                  (* the models a thread has still to look at *)
  emptied                (* history: a thread has emptied what another was filling *)

vars == <<all_searchable_models, pc, todo, emptied>>

Set(models, frozen) == [models |-> models, frozen |-> frozen]
-----------------------------------------------------------------------------
Begin(t) ==
  /\ pc[t] \in {"idle", "found", "failed"}
  /\ pc' = [pc EXCEPT ![t] = IF all_searchable_models = None THEN "assign"
                             ELSE IF all_searchable_models.frozen THEN "found" ELSE "failed"]
  /\ UNCHANGED <<all_searchable_models, todo, emptied>>

(* Other threads may have passed the check, too, and have begun to add     *)
(* models, or even frozen the set.                                         *)
Assign(t) ==
  /\ pc[t] = "assign"
  /\ all_searchable_models' = Set({}, FALSE)
  /\ pc' = [pc EXCEPT ![t] = "loop"] /\ todo' = [todo EXCEPT ![t] = Models]
  /\ emptied' = (emptied \/ all_searchable_models \notin {None, Set({}, FALSE)})

(* Mutant: the exception of the inner call is not caught as a success. *)
NodeExists(model) == model \notin Abstract \cup Referring

(* A node that asks for all models meets the unfinished set, and that      *)
(* exception means that the model can be searched for.                     *)
IsSearchable(model) == model \notin Abstract

(* One model after the other; a frozenset cannot be added to.              *)
Look(t) ==
  /\ pc[t] = "loop" /\ todo[t] # {}
  /\ \E model \in todo[t] :
       /\ todo' = [todo EXCEPT ![t] = @ \ {model}]
       /\ IF ~IsSearchable(model) THEN UNCHANGED <<all_searchable_models, pc>>
          ELSE IF all_searchable_models.frozen THEN pc' = [pc EXCEPT ![t] = "failed"] /\ UNCHANGED all_searchable_models
          ELSE /\ all_searchable_models' = [all_searchable_models EXCEPT !.models = @ \cup {model}]
               /\ UNCHANGED pc
  /\ UNCHANGED emptied

Freeze(t) ==
  /\ pc[t] = "loop" /\ todo[t] = {}
  /\ all_searchable_models' = [all_searchable_models EXCEPT !.frozen = TRUE]
  /\ pc' = [pc EXCEPT ![t] = "found"]
  /\ UNCHANGED <<todo, emptied>>

Init ==
  /\ all_searchable_models = None
  /\ pc = [t \in Threads |-> "idle"] /\ todo = [t \in Threads |-> {}]
  /\ emptied = FALSE

Next == \E t \in Threads : Begin(t) \/ Assign(t) \/ Look(t) \/ Freeze(t)

Spec == Init /\ [][Next]_vars
-----------------------------------------------------------------------------
(* Whoever gets the searchable models gets all of them, although other     *)
(* threads come while the first one is still collecting them, and several  *)
(* may be the first, unless one of these has emptied what another had      *)
(* already added or frozen.                                                *)
FoundAreComplete ==
  (\E t \in Threads : pc[t] = "found") /\ ~emptied =>
    all_searchable_models.frozen /\ all_searchable_models.models = Models \ Abstract
=============================================================================
