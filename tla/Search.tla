------------------------------- MODULE Search -------------------------------
(***************************************************************************)
(* The advanced search: advanced_search, with the tree of search nodes.  A *)
(* page has a form for the model that is searched for, and for the models  *)
(* its objects must be connected with, and so on; every form is shown with *)
(* the fields of the model that was chosen when the page was sent last.    *)
(* The forms are a function from their prefixes, sequences of numbers.     *)
(* Meanwhile, others save and delete objects.  An edit of theirs is to     *)
(* delete an object and to save another one.                               *)
(***************************************************************************)
EXTENDS Integers, Sequences, FiniteSets, SequencesExt, FiniteSetsExt, TLC

CONSTANTS
  Objects,        (* numbers of objects *)
  Others,         (* objects that are not there in the beginning *)
  Model,          (* function from objects to their models *)
  Value,          (* function from objects to what is searched for in them *)
  Links,          (* pairs of connected objects, in both orders *)
  RootModels,     (* models that can be searched for *)
  related_models, (* function from models to the models they are connected with *)
  DetailsRelated, (* function from models to those connected with their details *)
  Known,          (* objects the names of which the user may know *)
  Viewable,       (* objects the user may view *)
  Periods,        (* pairs of the first and the last value of a period *)
  Invalid,        (* the content of a field that is no period *)
  max_results,
  MaxChanges,     (* bound on the changes that the user makes in pages *)
  None            (* no field filled, no model chosen, nothing found yet *)

VARIABLES
  stored,     (* the objects in the database *)
  page,       (* the forms in the browser *)
  shown_hash, (* the parameters the page is the answer to *)
  results,    (* the results in the page, or None if no search was performed *)
  exported,   (* the results in the exported table, or None *)
  query,      (* the query string of the page with results: forms and hash *)
  my_samples,
  changes,    (* the number of these changes so far *)
  fresh       (* history: objects saved since the page was answered *)

vars == <<stored, page, shown_hash, results, exported, query, my_samples, changes, fresh>>

(* A form: the model chosen in it, the one that was chosen when the page   *)
(* was sent, to which its fields belong, and what is in the fields.        *)
Form(model, old, fields) == [model |-> model, old |-> old, fields |-> fields]
Blank == [of |-> None, min |-> <<>>, max |-> <<>>]
Samples == {o \in stored : Model[o] = "Sample"}
-----------------------------------------------------------------------------
parse_node(form) == form.model = form.old

(* The prefixes of nodes of the search tree.  Children are read as long as *)
(* there is a valid model.                                                 *)
parse_data(forms) ==
  LET Read[p \in DOMAIN forms] ==
        \/ p = <<>>
        \/ /\ Read[Front(p)] /\ parse_node(forms[Front(p)])
           /\ \A i \in 1 .. Last(p) : /\ Append(Front(p), i) \in DOMAIN forms
                                      /\ forms[Append(Front(p), i)].model \in related_models[forms[Front(p)].model]
  IN  {p \in DOMAIN forms : Read[p]}

(* Forms that were not read are not bound, and thus not valid.             *)
is_valid(forms) ==
  \A p \in parse_data(forms) : parse_node(forms[p]) /\ Invalid \notin {forms[p].fields.min, forms[p].fields.max}

(* DateTimeField.clean: a part of a timestamp is a period. *)
clean(period, start) == IF start THEN period[1] ELSE period[2]

(* RangeSearchField.get_values. *)
get_values(fields) ==
  {o \in stored : /\ fields.min # <<>> => Value[o] >= clean(fields.min, TRUE)
                  /\ fields.max # <<>> => Value[o] <= clean(fields.max, FALSE)}

Connected(set) == {o \in stored : \E l \in Links : l[1] = o /\ l[2] \in set}
Children(forms, p) == {q \in parse_data(forms) : q # <<>> /\ Front(q) = p}

AllDetails(sets) == {o \in stored : \A s \in sets : o \in s}

(* SearchTreeNode and DetailsSearchTreeNode: the objects of a node, those  *)
(* for which the details are found among them.                             *)
RECURSIVE get_query_set(_, _)
get_query_set(forms, p) ==
  LET model == forms[p].model
      ofDetails == {q \in Children(forms, p) : forms[q].model \in DetailsRelated[model]}
      filtered == {o \in get_values(forms[p].fields) : Model[o] = model}
      related == {o \in filtered : \A q \in Children(forms, p) \ ofDetails : o \in Connected(get_query_set(forms, q))}
  IN  related \cap AllDetails({Connected(get_query_set(forms, q)) : q \in ofDetails})

(* Samples and series of confidential topics are not found. *)
base_query(model) == IF model \in {"Sample", "SampleSeries"} THEN Known ELSE Objects

search_results(forms) ==
  LET found == get_query_set(forms, <<>>) \cap base_query(forms[<<>>].model)
  IN  IF Cardinality(found) > max_results THEN kSubset(max_results, found) ELSE {found}

(* The answer has an additional form for each node that has been read.     *)
Answer(forms) ==
  LET read == parse_data(forms)
      bound == {p \in read : parse_node(forms[p])}
      next == {Append(p, Cardinality(IF p \in bound THEN Children(forms, p) ELSE {}) + 1) :
                 p \in {p \in read : related_models[forms[p].model] # {}}}
  IN  [p \in read \cup next |->
         IF p \in bound THEN [forms[p] EXCEPT !.old = forms[p].model]
         ELSE IF p \in read THEN Form(forms[p].model, forms[p].model, Blank)
         ELSE Form(None, None, Blank)]

(* Mutant: only the models count. *)
HashOfModels(forms) == [p \in DOMAIN forms |-> forms[p].model]

_search_parameters_hash(forms) == forms

ToExport(found) == {o \in found : o \in Viewable}

(* What the page for a query string is.  If it is the same page as before, *)
(* the results of the new search go into a table.                          *)
advanced_search(q) ==
  /\ UNCHANGED <<stored, changes>>
  /\ fresh' = {}
  /\ IF q.forms[<<>>].model = None
     THEN /\ page' = (<<>> :> Form(None, None, Blank)) /\ shown_hash' = None
          /\ results' = None /\ exported' = None
     ELSE /\ page' = Answer(q.forms)
          /\ shown_hash' = _search_parameters_hash(q.forms)
          /\ IF ~is_valid(q.forms) THEN results' = None /\ exported' = None
             ELSE /\ results' \in search_results(q.forms)
                  /\ exported' = IF q.hash = _search_parameters_hash(q.forms) /\ ToExport(results') # {}
                                 THEN ToExport(results') ELSE None
  /\ query' = IF results' = None THEN None ELSE q

(* The page is sent as it is in the browser now.                           *)
Submit == advanced_search([forms |-> page, hash |-> shown_hash]) /\ UNCHANGED my_samples

(* Ticked samples are sent to the page's own address, with the query       *)
(* string that led to it, whatever is in its forms now.                    *)
Post(ticked) ==
  /\ results # None
  /\ advanced_search(query)
  /\ my_samples' = IF query.forms[<<>>].model = "Sample" THEN my_samples \cup (ticked \cap Known \cap stored) ELSE my_samples
-----------------------------------------------------------------------------
(* What the user does in the browser.                                      *)
ChooseModel(p) ==
  /\ changes < MaxChanges
  /\ changes' = changes + 1
  /\ \E model \in (IF p = <<>> THEN RootModels ELSE related_models[page[Front(p)].old]) \cup {None} :
        page' = [page EXCEPT ![p].model = model]
  /\ UNCHANGED <<stored, shown_hash, results, exported, query, my_samples, fresh>>

FillIn(p) ==
  /\ changes < MaxChanges
  /\ page[p].old # None
  /\ changes' = changes + 1
  /\ \E min, max \in Periods \cup {<<>>, Invalid} :
        page' = [page EXCEPT ![p].fields = [of |-> page[p].old, min |-> min, max |-> max]]
  /\ UNCHANGED <<stored, shown_hash, results, exported, query, my_samples, fresh>>

(* What others do to the database.                                         *)
Save(o) ==
  /\ o \notin stored
  /\ stored' = stored \cup {o} /\ fresh' = fresh \cup {o}
  /\ UNCHANGED <<page, shown_hash, results, exported, query, my_samples, changes>>

Delete(o) ==
  /\ o \in stored
  /\ stored' = stored \ {o} /\ my_samples' = my_samples \ {o} /\ fresh' = fresh \ {o}
  /\ UNCHANGED <<page, shown_hash, results, exported, query, changes>>

Init ==
  /\ stored = Objects \ Others
  /\ page = (<<>> :> Form(None, None, Blank))
  /\ shown_hash = None /\ results = None /\ exported = None /\ query = None
  /\ my_samples = {} /\ changes = 0 /\ fresh = {}

Next ==
  \/ \E p \in DOMAIN page : ChooseModel(p) \/ FillIn(p)
  \/ Submit
  \/ results # None /\ \E ticked \in {{}} \cup {{o} : o \in {o \in results \ my_samples : Model[o] = "Sample"}} : Post(ticked)
  \/ \E o \in Others : Save(o) \/ Delete(o)

Spec == Init /\ [][Next]_vars
-----------------------------------------------------------------------------
(* The object, one of a set, is what a form and the forms below ask for.   *)
RECURSIVE Matches(_, _, _, _)
Matches(o, set, forms, p) ==
  LET fields == forms[p].fields IN
  /\ Model[o] = forms[p].model
  /\ (fields.min # <<>> => Value[o] >= fields.min[1]) /\ (fields.max # <<>> => Value[o] <= fields.max[2])
  /\ \A q \in DOMAIN forms : q # <<>> /\ Front(q) = p /\ forms[q].model # None =>
       \E other \in set : <<o, other>> \in Links /\ Matches(other, set, forms, q)

Found(set, forms) == {o \in set \cap base_query(forms[<<>>].model) : Matches(o, set, forms, <<>>)}
IsAnswered == changes' = changes /\ stored' = stored /\ results' # None

(* What is found is what the forms that are shown with it ask for, in all  *)
(* their nodes: objects connected with such objects, as many as possible.  *)
AsShown ==
  IsAnswered => LET found == Found(stored, page') IN
                results' \subseteq found /\ Cardinality(results') = Min({max_results, Cardinality(found)})

(* Nothing is searched with the fields of another model than the one that  *)
(* is shown with them, nor with an invalid content.                        *)
Fitting ==
  IsAnswered => \A p \in DOMAIN page' : LET fields == page'[p].fields IN
                  fields.of \in {None, page'[p].model} /\ Invalid \notin {fields.min, fields.max}

(* Unless there are too many results, the table has all rows that the user *)
(* has seen in the results of the page before, may view, and that are      *)
(* still found.  It has no others but those that are found thanks to       *)
(* something that was saved since.                                         *)
FromResults ==
  IsAnswered /\ exported' # None =>
    /\ results # None
    /\ max_results \notin {Cardinality(results), Cardinality(results')} =>
         /\ results \cap Found(stored, page') \cap Viewable \subseteq exported'
         /\ exported' \cap Found(stored \ fresh, page') \subseteq results

(* Forms, results and tables of a search belong to each other, whatever    *)
(* the page was before, and whatever is saved in the meantime.             *)
SearchAsShown == AsShown /\ Fitting /\ FromResults
=============================================================================
