------------------------------- MODULE Steps -------------------------------
(***************************************************************************)
(* The form of a process with many steps, e.g. the layers of a deposition  *)
(* (MultipleStepsMixin and MultipleStepTypesMixin, which number the steps  *)
(* in the same way).  A user opens the form, and sends it again and again: *)
(* to move, duplicate, remove and add steps, or to save them.  What she    *)
(* sends is a sequence of subforms, each with a prefix of its own, in the  *)
(* order of the page.  Lab computers send all steps in one go.             *)
(***************************************************************************)
EXTENDS Integers, Sequences, FiniteSets, SequencesExt, FiniteSetsExt

CONSTANTS
  Users,     (* those who edit the process *)
  Contents,  (* what may be in the fields of a step *)
  Rubbish,   (* a content that does not validate, and a number that is none *)
  None,      (* no form open, no step *)
  Founded,   (* the contents of the steps in the beginning *)
  MaxSteps,  (* bound on the number of steps in a page *)
  MaxTicks,  (* bound on the number of steps a user wants to change at once *)
  MaxPosts   (* bound on the number of requests *)

VARIABLES
  layers,  (* the database: a function from numbers of steps to contents *)
  page,    (* the subforms in the browser of each user, or None *)
  sent,    (* history: what each user sent last, with what she saw *)
  posts,   (* the number of requests so far *)
  my_step  (* the number of the step that is one of My Steps, or None *)

vars == <<layers, page, sent, posts, my_step>>

Ticks == {"", "up", "down", "duplicate", "remove", "two at once"}

Subform(prefix, content, tick) == [prefix |-> prefix, content |-> content, tick |-> tick]

-----------------------------------------------------------------------------
(* The value to sort by, in hundredths: a number that cannot be read counts*)
(* as the previous one, in the order of prefixes, plus one hundredth.      *)
Value(forms, numbers, i) ==
  LET before == {j \in DOMAIN forms : forms[j].prefix < forms[i].prefix /\ numbers[j] # Rubbish}
      last == {j \in before : \A k \in before : forms[k].prefix <= forms[j].prefix}
      between == {j \in DOMAIN forms : /\ numbers[j] = Rubbish
                                       /\ forms[j].prefix <= forms[i].prefix
                                       /\ \A k \in last : forms[j].prefix > forms[k].prefix}
  IN  IF numbers[i] # Rubbish THEN 100 * numbers[i]
      ELSE SumSet({100 * numbers[k] : k \in last}) + Cardinality(between)

(* Sorting is stable. *)
collect_subform_indices(forms, numbers) ==
  LET value == [i \in DOMAIN forms |-> Value(forms, numbers, i)]
      order == SetToSortSeq(DOMAIN forms, LAMBDA i, j : value[i] < value[j] \/ (value[i] = value[j] /\ i < j))
  IN  [i \in DOMAIN forms |-> forms[order[i]]]

(* A step that has been moved gets a new form for changes, without ticks.  *)
MoveStep(forms, i) ==
  LET fresh == [forms EXCEPT ![i].tick = ""]
      Swapped(j) == [fresh EXCEPT ![i] = fresh[j], ![j] = fresh[i]]
  IN  CASE forms[i].tick = "up"   -> IF i > 1 THEN Swapped(i - 1) ELSE fresh
        [] forms[i].tick = "down" -> IF i < Len(forms) THEN Swapped(i + 1) ELSE fresh
        [] OTHER -> forms

Moved(forms) == FoldLeft(MoveStep, forms, [i \in DOMAIN forms |-> i])

(* Only steps with valid content are duplicated. *)
ToDuplicate(form) == form.tick = "duplicate" /\ form.content # Rubbish

Duplicates(forms) == SelectSeq(forms, ToDuplicate)

Kept(forms) ==
  LET left == SelectSeq(forms, LAMBDA form : form.tick # "remove")
  IN  [i \in DOMAIN left |-> IF ToDuplicate(left[i]) THEN [left[i] EXCEPT !.tick = ""] ELSE left[i]]

(* Mutant: new prefixes are counted from the number of steps. *)
PrefixAfterCount(forms) == Len(forms)

NextPrefix(forms) == IF forms = <<>> THEN 0 ELSE Max({forms[i].prefix : i \in DOMAIN forms}) + 1

(* Steps that are changed, then duplicates, then new ones. *)
_change_structure(forms, added) ==
  LET moved == Moved(forms)
      copies == Duplicates(moved)
      contents == [i \in DOMAIN copies |-> copies[i].content] \o added
      next == NextPrefix(forms)
  IN  Kept(moved) \o [i \in DOMAIN contents |-> Subform(next + i - 1, contents[i], "")]

(* A step was moved (or ought to be), duplicated, added or removed.        *)
StructureChanged(forms, added) ==
  \/ added # <<>>
  \/ \E i \in DOMAIN forms : forms[i].tick \in {"up", "down", "remove"} \/ ToDuplicate(forms[i])

is_all_valid(forms, added) ==
  /\ ~StructureChanged(forms, added)
  /\ \A i \in DOMAIN forms : forms[i].content # Rubbish /\ forms[i].tick # "two at once"

(* The new content of My Steps: a copy of the step with the number, if it  *)
(* still exists.                                                           *)
MyStep == IF my_step \in DOMAIN layers THEN <<layers[my_step]>> ELSE <<>>

Numbered(forms) == [i \in DOMAIN forms |-> forms[i].content]

-----------------------------------------------------------------------------
(* The steps are shown in the order of their numbers, numbered anew.       *)
_read_step_forms ==
  LET order == SetToSortSeq(DOMAIN layers, <)
  IN  [i \in DOMAIN order |-> Subform(i - 1, layers[order[i]], "")]

get(u) ==
  /\ page[u] = None
  /\ page' = [page EXCEPT ![u] = _read_step_forms]
  /\ UNCHANGED <<layers, sent, posts, my_step>>

Respond(u, forms, added) ==
  LET changed == _change_structure(forms, added) IN
  IF is_all_valid(forms, added) /\ changed # <<>>
  THEN /\ layers' = Numbered(changed)
       /\ page' = [page EXCEPT ![u] = None]
       /\ sent' = [sent EXCEPT ![u] = None]
  ELSE /\ page' = [page EXCEPT ![u] = changed]
       /\ sent' = [sent EXCEPT ![u] = [forms |-> forms, added |-> added]]
       /\ UNCHANGED layers

(* What the user does with the page: ticks, or new contents and numbers.   *)
Tick(forms) ==
  {[i \in DOMAIN forms |-> [forms[i] EXCEPT !.tick = ticks[i]]] :
     ticks \in {t \in [DOMAIN forms -> Ticks] : Cardinality({i \in DOMAIN forms : t[i] # ""}) <= MaxTicks}}

Typed(forms) ==
  {[i \in DOMAIN forms |-> [forms[i] EXCEPT !.tick = "", !.content = IF i = k THEN c ELSE @]] :
     k \in DOMAIN forms, c \in Contents}

post(u) ==
  /\ page[u] # None
  /\ posts < MaxPosts
  /\ posts' = posts + 1
  /\ \/ \E forms \in Tick(page[u]), added \in {<<>>, <<Rubbish>>} \cup {MyStep} :
          /\ Len(_change_structure(forms, added)) <= MaxSteps
          /\ Respond(u, forms, added)
     \/ \E forms \in Typed(page[u]) : \E numbers \in [DOMAIN forms -> (DOMAIN forms) \cup {Rubbish}] :
          Respond(u, collect_subform_indices(forms, numbers), <<>>)
  /\ UNCHANGED my_step

(* A lab computer sends all steps with their numbers; the form's changes of*)
(* the structure do not take place.  A number must not occur twice, nor    *)
(* may all steps be missing.                                               *)
post_json ==
  /\ posts < MaxPosts
  /\ posts' = posts + 1
  /\ \E numbers \in SUBSET {1, 2, 9} \ {{}} : \E contents \in [numbers -> Contents \ {Rubbish}] :
       layers' = contents
  /\ UNCHANGED <<page, sent, my_step>>

(* The My Steps page asks for a step that exists. *)
edit_my_steps ==
  /\ posts < MaxPosts
  /\ posts' = posts + 1
  /\ my_step' \in DOMAIN layers \cup {None}
  /\ UNCHANGED <<layers, page, sent>>

Init ==
  /\ layers = Founded
  /\ page = [u \in Users |-> None]
  /\ sent = [u \in Users |-> None]
  /\ posts = 0
  /\ my_step = None

Next == (\E u \in Users : get(u) \/ post(u)) \/ post_json \/ edit_my_steps

Spec == Init /\ [][Next]_vars
-----------------------------------------------------------------------------
Pages == {u \in Users : page[u] # None}
Answered == {u \in Pages : sent[u] # None}

TypeOK ==
  /\ DOMAIN layers \subseteq Nat \ {0} /\ \A n \in DOMAIN layers : layers[n] \in Contents \ {Rubbish}
  /\ \A u \in Pages : page[u] \in Seq([prefix : Nat, content : Contents, tick : Ticks])
  /\ posts \in 0 .. MaxPosts

(* Two steps of a page never have the same prefix: their data would be     *)
(* mixed up in the next request, however often steps are removed and added.*)
PrefixesDiffer ==
  \A u \in Pages : \A i, j \in DOMAIN page[u] : page[u][i].prefix = page[u][j].prefix => i = j

(* What was sent is in the answer, unless it was to be removed; and nothing*)
(* else but the duplicates and the new steps.                              *)
NothingLost ==
  \A u \in Answered : LET forms == sent[u].forms
                          Ticked(t) == {i \in DOMAIN forms : forms[i].tick = t} IN
    /\ \A i \in DOMAIN forms \ Ticked("remove") :
         \E k \in DOMAIN page[u] : /\ page[u][k].prefix = forms[i].prefix
                                   /\ page[u][k].content = forms[i].content
    /\ Len(page[u]) = Len(forms) + Len(sent[u].added) - Cardinality(Ticked("remove"))
                       + Cardinality({i \in Ticked("duplicate") : forms[i].content # Rubbish})

(* A single tick has the effect that everybody expects.                    *)
SingleChange ==
  \A u \in Answered : LET forms == sent[u].forms
                          contents == [i \in DOMAIN forms |-> forms[i].content]
                          Swapped(i, j) == [contents EXCEPT ![i] = contents[j], ![j] = contents[i]] IN
    \A k \in DOMAIN forms :
      (\A i \in DOMAIN forms : forms[i].tick # "" <=> i = k) =>
        [i \in DOMAIN page[u] |-> page[u][i].content] =
          (CASE forms[k].tick = "up" /\ k > 1             -> Swapped(k, k - 1)
             [] forms[k].tick = "down" /\ k < Len(forms) -> Swapped(k, k + 1)
             [] forms[k].tick = "remove"                  -> RemoveAt(contents, k)
             [] ToDuplicate(forms[k])                     -> Append(contents, contents[k])
             [] OTHER                                     -> contents) \o sent[u].added

(* A movement takes place or is still ticked in the answer: several at once*)
(* may be in each other's way.  Steps that are removed do not count.       *)
MovesDoneOrTicked ==
  \A u \in Answered : LET forms == sent[u].forms
                          Place(i) == {k \in DOMAIN page[u] : page[u][k].prefix = forms[i].prefix} IN
    \A i \in DOMAIN forms :
      LET others == CASE forms[i].tick = "up" -> 1 .. i - 1
                      [] forms[i].tick = "down" -> i + 1 .. Len(forms)
                      [] OTHER -> {}
      IN  others # {} =>
            \/ \E k \in Place(i) : page[u][k].tick = forms[i].tick
            \/ \E j \in others : Place(j) = {} \/ \E k \in Place(i), l \in Place(j) : (k < l) <=> (j < i)

(* Steps come and go in the database only after the user has seen the form *)
(* without or with them.                                                   *)
ShownFirst == \A u \in Pages : page'[u] = None => Cardinality(DOMAIN layers') = Len(page[u])

(* The page with the steps of a deposition says what will be saved: no     *)
(* step is lost, doubled or mixed up with another one, ticks do what they  *)
(* say or are still there, and nothing changes in the database that was    *)
(* not seen.                                                               *)
StepsFollowThePage ==
  /\ TypeOK'
  /\ PrefixesDiffer'
  /\ NothingLost'
  /\ SingleChange'
  /\ MovesDoneOrTicked'
  /\ ShownFirst
=============================================================================
