---------------------------- MODULE ProcessForms ----------------------------
(***************************************************************************)
(* Adding and editing a process of many samples, with the position of each *)
(* sample in the apparatus and with subprocesses, e.g. the measured cells  *)
(* (ProcessMultipleSamplesView with SamplePositionsMixin, SubprocessesMixin*)
(* and RemoveFromMySamplesMixin).  A page that is not valid is shown again *)
(* with new fields, so that a user may need several requests, while others *)
(* edit the same process or merge its samples.                             *)
(***************************************************************************)
EXTENDS Integers, Sequences, FiniteSets, SequencesExt

CONSTANTS
  Users,      (* those who edit the process *)
  Samples,    (* the samples *)
  Founded,    (* function from users to their My Samples in the beginning *)
  Contents,   (* valid contents of the fields of a subprocess *)
  MaxCells,   (* bound on the number of subprocesses *)
  Clients,    (* those of them who use the remote client instead of a browser *)
  MaxPosts,   (* bound on the number of requests that are refused *)
  None        (* no process, no page, content that is not valid *)

VARIABLES
  is_deposition, (* whether the samples are fixed once the process is finished *)
  process,    (* the process in the database *)
  my_samples, (* My Samples of each user *)
  gone,       (* samples that do not exist any more *)
  page,       (* the page in the browser of each user, or None *)
  posts,      (* how many pages have been shown again *)
  blurred,    (* history: the samples have been merged, or the remote client sent others, since the last edit *)
  sent        (* history: the subprocesses that the last editor saw *)

Records == [samples : SUBSET Samples, positions : SUBSET Samples, cells : Seq(Contents)]
Cells == [prefix : Nat, content : Contents \cup {None}]
Pages == [is_new : BOOLEAN, fields : SUBSET Samples, cells : Seq(Cells)]

(* None is something else than a process, a page and valid content. *)
ProcessFormsAssumption == None \notin Records /\ None \notin Pages /\ None \notin Contents

vars == <<is_deposition, process, my_samples, gone, page, posts, blurred, sent>>

Cell(prefix, content) == [prefix |-> prefix, content |-> content]
CellsOf(contents) == [i \in DOMAIN contents |-> Cell(i - 1, contents[i])]
Page(is_new, fields, cells) == [is_new |-> is_new, fields |-> fields, cells |-> cells]
IsFixed == is_deposition /\ process # None
-----------------------------------------------------------------------------
(* The page at first: fields for the positions of the samples it has.      *)
get(u) ==
  /\ page[u] = None
  /\ page' = [page EXCEPT ![u] =
       IF process = None THEN Page(TRUE, {}, <<>>) ELSE Page(FALSE, process.samples, CellsOf(process.cells))]
  /\ UNCHANGED <<is_deposition, process, my_samples, gone, posts, blurred, sent>>

(* What the browser sends: one content for each prefix, and no samples if  *)
(* their field is disabled.                                                *)
Data(cells) == [prefix \in {cells[i].prefix : i \in DOMAIN cells} |->
                 cells[SelectLastInSeq(cells, LAMBDA c : c.prefix = prefix)].content]

(* The samples to ask a position for: the selected ones, otherwise those   *)
(* that have a field in the page.                                          *)
sample_ids(selection, fields) == IF selection # {} THEN selection ELSE fields

(* The prefixes in ascending order. *)
Indices(data) ==
  LET positions == 1 .. Cardinality(DOMAIN data)
  IN  CHOOSE indices \in [positions -> DOMAIN data] : \A i, j \in positions : i < j => indices[i] < indices[j]

(* As many subprocesses as the user wants; 0 stands for an empty field.    *)
Bound(data, number) ==
  LET indices == Indices(data)
      kept == IF number = 0 \/ number > Len(indices) THEN Len(indices) ELSE number
  IN  [i \in 1 .. kept |-> Cell(indices[i], data[indices[i]])]

NextPrefix(bound) == IF bound = <<>> THEN 0 ELSE Last(bound).prefix + 1

Forms(data, number) ==
  LET bound == Bound(data, number)
  IN  bound \o [i \in 1 .. (IF number > Len(bound) THEN number - Len(bound) ELSE 0) |->
                  Cell(NextPrefix(bound) + i - 1, None)]

(* The samples offered for selection. *)
Selectable(u) == my_samples[u] \cup (IF process = None THEN {} ELSE process.samples)

is_all_valid(u, selection, fields, cells) ==
  /\ IsFixed \/ (selection # {} /\ selection \subseteq Selectable(u))
  /\ sample_ids(selection, fields) \subseteq fields
  /\ cells # <<>> /\ \A i \in DOMAIN cells : cells[i].content # None

(* Mutant: the samples are set whether their field is disabled or not. *)
AnySelection(selection) == IF selection = {} THEN process.samples ELSE selection

SamplesToSet(selection) == IF IsFixed THEN process.samples ELSE selection

save_to_database(u, selection, fields, cells, remove) ==
  LET ids == sample_ids(selection, fields)
      samples == SamplesToSet(selection)
  IN  /\ process' = [samples |-> samples, positions |-> ids, cells |-> [i \in DOMAIN cells |-> cells[i].content]]
      /\ my_samples' = IF process = None /\ remove THEN [my_samples EXCEPT ![u] = @ \ samples] ELSE my_samples

Filled(cell, content) == IF cell.content = None THEN Cell(cell.prefix, content) ELSE cell

(* A browser sends what is on its page, after the user has filled it in.   *)
(* A page for a new process only makes this one, not further ones.         *)
post(u) ==
  /\ page[u] # None /\ page[u].is_new = (process = None)
  /\ \E selection \in SUBSET Samples, number \in 0 .. MaxCells, remove \in BOOLEAN :
     \E cells \in {[i \in DOMAIN page[u].cells |-> Filled(page[u].cells[i], content)] : content \in Contents} :
        LET fields == page[u].fields
            forms == Forms(Data(cells), number)
            valid == is_all_valid(u, selection, fields, forms)
        IN  /\ (IsFixed => selection = {}) /\ (remove => process = None)
            /\ (sample_ids(selection, fields) \cup selection) \cap gone = {}
            /\ IF valid
               THEN /\ save_to_database(u, selection, fields, forms, remove)
                    /\ blurred' = FALSE
                    /\ page' = [page EXCEPT ![u] = None]
                    /\ sent' = SubSeq([i \in DOMAIN cells |-> cells[i].content], 1, IF number = 0 THEN Len(cells) ELSE number)
                    /\ UNCHANGED posts
               ELSE /\ posts < MaxPosts
                    /\ posts' = posts + 1
                    /\ page' = [page EXCEPT ![u] = Page(page[u].is_new, sample_ids(selection, fields), forms)]
                    /\ UNCHANGED <<process, my_samples, blurred, sent>>
            /\ UNCHANGED <<is_deposition, gone>>

(* The remote client sends a whole process without having seen a page.     *)
post_json(u) ==
  \E selection \in SUBSET (Samples \ gone), fields \in SUBSET (Samples \ gone), n \in 1 .. MaxCells :
     \E contents \in [1 .. n -> Contents] :
        /\ is_all_valid(u, selection, fields, CellsOf(contents))
        /\ save_to_database(u, selection, fields, CellsOf(contents), FALSE)
        /\ blurred' = (IsFixed /\ sample_ids(selection, fields) # process.samples)
        /\ sent' = contents
        /\ UNCHANGED <<is_deposition, gone, page, posts>>

(* Somebody merges sample a into sample b, which gets its processes.  My   *)
(* Samples of all users lose the former.                                   *)
merge(a, b) ==
  /\ process # None /\ a \notin gone /\ b \notin gone
  /\ gone' = gone \cup {a}
  /\ my_samples' = [u \in Users |-> my_samples[u] \ {a}]
  /\ process' = IF a \in process.samples THEN [process EXCEPT !.samples = (@ \ {a}) \cup {b}] ELSE process
  /\ blurred' = (blurred \/ a \in process.samples)
  /\ UNCHANGED <<is_deposition, page, posts, sent>>

Init ==
  /\ is_deposition \in BOOLEAN
  /\ process = None /\ my_samples = Founded /\ gone = {}
  /\ page = [u \in Users |-> None]
  /\ posts = 0 /\ blurred = FALSE /\ sent = <<>>

Next ==
  \/ \E u \in Users \ Clients : get(u) \/ post(u)
  \/ \E u \in Clients : post_json(u)
  \/ \E a, b \in Samples : a # b /\ merge(a, b)

Spec == Init /\ [][Next]_vars
-----------------------------------------------------------------------------
(* A process has one position for each of its samples and no other one,    *)
(* whatever pages the users had in their browsers.  Exceptions are merged  *)
(* samples, until the next edit, and remote clients that send other samples*)
(* for a deposition the samples of which are fixed.                        *)
PositionsFit == process # None /\ ~blurred => process.positions = process.samples

(* The subprocesses are those that the last editor had on her page.        *)
CellsAsShown == process # None => process.cells = sent

(* Samples of a deposition remain, unless they are merged with others.     *)
SamplesFixed == IsFixed /\ gone' = gone => process'.samples = process.samples

(* A process is what its last editor had on her page, and its samples are  *)
(* fixed if it is a deposition.                                            *)
ProcessAsShown == PositionsFit' /\ CellsAsShown' /\ SamplesFixed
=============================================================================
