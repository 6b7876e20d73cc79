----------------------------- MODULE ResultForm -----------------------------
(***************************************************************************)
(* The form for results, with a table of quantities and values the user    *)
(* makes larger and smaller: the class FormSet of samples.views.result.    *)
(* A page shows the table in the size it has, and asks for another size;   *)
(* the size it shows comes back with the request as the "previous" one.    *)
(***************************************************************************)
EXTENDS Integers, Sequences, FiniteSets

CONSTANTS
  Users,    (* those who add and edit results *)
  Ids,      (* the primary keys of results, numbers *)
  None,     (* no page open, no result yet *)
  Words,    (* what is typed into a cell; the empty one is "" *)
  MaxSize,  (* bound on the number of rows and columns (100 in the code) *)
  MaxPosts  (* bound on the number of requests *)

VARIABLES
  results,  (* the database: the table, and whether samples or series are connected *)
  sheet,    (* the page of each user: result, quantities, rows of values *)
  refused,  (* history: results saved with an image that was refused *)
  posted    (* the number of requests so far *)

vars == <<results, sheet, refused, posted>>

Sizes == (0 .. MaxSize) \X (0 .. MaxSize)
Saved == {r \in Ids : results[r] # None}
Pages == [result : Ids \cup {None}, quantities : Seq(Words), rows : Seq(Seq(Words))]
Tables == [quantities : Seq(Words), rows : Seq(Seq(Words)), home : BOOLEAN]
Sheet(r, quantities, rows) == [result |-> r, quantities |-> quantities, rows |-> rows]

ResultFormAssumption ==
  /\ "" \in Words /\ Ids \subseteq Nat /\ None \notin Ids
  /\ MaxSize \in Nat
  /\ None \notin Pages /\ None \notin Tables

-----------------------------------------------------------------------------
(* DimensionsForm.clean: a table without quantities or values is empty.    *)
Dimensions(size) == IF size[1] = 0 \/ size[2] = 0 THEN <<0, 0>> ELSE size

PreviousDimensions(s) == Dimensions(<<Len(s.quantities), Len(s.rows)>>)

(* The table in its new size: what was in the request, as far as it fits.  *)
Table(s, size) ==
  LET previous == PreviousDimensions(s)
      Found(i, j) == i <= previous[1] /\ j <= previous[2]
  IN  Sheet(s.result,
            [i \in 1 .. size[1] |-> IF i <= previous[1] THEN s.quantities[i] ELSE ""],
            [j \in 1 .. size[2] |-> [i \in 1 .. size[1] |-> IF Found(i, j) THEN s.rows[j][i] ELSE ""]])

(* Mutant: a new size does not count as a change. *)
NeverChanged(s, size) == FALSE

_is_structure_changed(s, size) == size # PreviousDimensions(s)

(* Quantities have names, and different ones. *)
TableIsValid(s) ==
  /\ \A i \in DOMAIN s.quantities : s.quantities[i] # ""
  /\ \A i, j \in DOMAIN s.quantities : s.quantities[i] = s.quantities[j] => i = j

(* RelatedDataForm.clean: at least one sample or sample series. *)
RelatedDataIsValid(chosen) == chosen

(* save_image_file adds an error to the form if it does not like the file, *)
(* and then the connections of the result are not saved.                   *)
ConnectionsSaved(image) == image # "refused"

-----------------------------------------------------------------------------
add(u) ==
  /\ sheet[u] = None
  /\ sheet' = [sheet EXCEPT ![u] = Sheet(None, <<>>, <<>>)]
  /\ UNCHANGED <<results, refused, posted>>

edit(u) == \E r \in Saved :
  /\ sheet[u] = None
  /\ sheet' = [sheet EXCEPT ![u] = Sheet(r, results[r].quantities, results[r].rows)]
  /\ UNCHANGED <<results, refused, posted>>

(* One cell is typed into before the page is sent. *)
Typed(s) ==
  {s} \cup {[s EXCEPT !.quantities[i] = w] : i \in DOMAIN s.quantities, w \in Words}
      \cup {[s EXCEPT !.rows[j][i] = w] :
              j \in DOMAIN s.rows, i \in DOMAIN s.quantities, w \in Words}

(* The table in the database, with the result's place: a new result gets a *)
(* new key each time it is saved.                                          *)
save_to_database(u, s, chosen, image) ==
  LET r == IF s.result # None THEN s.result ELSE CHOOSE i \in Ids \ Saved : \A k \in Ids \ Saved : i <= k IN
  /\ s.result = None => Ids \ Saved # {}
  /\ results' = [results EXCEPT ![r] = [quantities |-> s.quantities, rows |-> s.rows,
                   home |-> IF ConnectionsSaved(image) THEN chosen ELSE r \in Saved /\ results[r].home]]
  /\ refused' = IF image = "refused" THEN refused \cup {r} ELSE refused
  /\ sheet' = [sheet EXCEPT ![u] = IF ConnectionsSaved(image) THEN None ELSE s]

post(u) ==
  /\ sheet[u] # None
  /\ posted < MaxPosts
  /\ posted' = posted + 1
  /\ \E s \in Typed(sheet[u]), chosen \in BOOLEAN, image \in {"none", "good", "refused"} :
       \/ \E requested \in Sizes :
            LET size == Dimensions(requested)
                table == Table(s, size)
            IN  IF RelatedDataIsValid(chosen) /\ TableIsValid(table) /\ ~_is_structure_changed(s, size)
                THEN save_to_database(u, table, chosen, image)
                ELSE sheet' = [sheet EXCEPT ![u] = table] /\ UNCHANGED <<results, refused>>
       \/ /\ sheet' = [sheet EXCEPT ![u] = Table(s, PreviousDimensions(s))]   (* the size is invalid *)
          /\ UNCHANGED <<results, refused>>

Init ==
  /\ results = [r \in Ids |-> None]
  /\ sheet = [u \in Users |-> None]
  /\ refused = {}
  /\ posted = 0

Next == \E u \in Users : add(u) \/ edit(u) \/ post(u)

Spec == Init /\ [][Next]_vars
-----------------------------------------------------------------------------
(* Every row of a table, in the database or in a page, has a value for     *)
(* every quantity, however the size was changed before.                    *)
TablesAreRectangular ==
  /\ \A r \in Saved : \A j \in DOMAIN results[r].rows : Len(results[r].rows[j]) = Len(results[r].quantities)
  /\ \A u \in Users : sheet[u] # None =>
       \A j \in DOMAIN sheet[u].rows : Len(sheet[u].rows[j]) = Len(sheet[u].quantities)

(* Exports and plots look values up by the names of quantities, so these   *)
(* are different within a result.                                          *)
QuantitiesDiffer ==
  \A r \in Saved : \A i, j \in DOMAIN results[r].quantities :
    results[r].quantities[i] = results[r].quantities[j] => i = j

(* Every result belongs to a sample or a sample series, unless an image was*)
(* refused when it was added: then the table has been saved already, and   *)
(* the next attempt makes a second result.                                 *)
ResultsHaveHomes == \A r \in Saved \ refused : results[r].home

(* Rows and columns disappear from a result only after the user has seen   *)
(* the table without them.                                                 *)
AsSeen ==
  \A u \in Users : sheet[u] # None /\ results' # results /\ sheet'[u] = None =>
    \E r \in Ids : /\ results'[r] # results[r] \/ r = sheet[u].result
                   /\ results'[r] # None
                   /\ Len(results'[r].quantities) = Len(sheet[u].quantities)
                   /\ Len(results'[r].rows) = Len(sheet[u].rows)

(* Results keep what the user has seen: as full tables with different      *)
(* headings that belong to a sample or a series.                           *)
TablesAsSeen ==
  /\ TablesAreRectangular'
  /\ QuantitiesDiffer'
  /\ ResultsHaveHomes'
  /\ AsSeen
=============================================================================
