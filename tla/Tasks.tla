-------------------------------- MODULE Tasks --------------------------------
(***************************************************************************)
(* The task lists of JuliaBase: a customer asks for a process, an operator *)
(* accepts the task, carries the process out, and connects the process     *)
(* with the task.                                                          *)
(*                                                                         *)
(* The edit view reads the row of the task, decides with it which fields   *)
(* of the form are fixed, and later writes the whole row back, so that     *)
(* requests of different users overlap: Open and Save are actions of their *)
(* own.  Save is one step because its UPDATE keeps the row locked until    *)
(* the commit.  All tasks have the same process class, which never         *)
(* changes.  Priority and comments are left out: what holds for them holds *)
(* for the fields that are here.                                           *)
(***************************************************************************)
EXTENDS Integers, FiniteSets

CONSTANTS
  Users,      (* all users *)
  Adders,     (* the users who may add processes of the process class *)
  Samples,    (* all samples *)
  MySamples,  (* the "My Samples" list of each user in the beginning *)
  Processes,  (* the finished processes that may ever be entered *)
  OperatorOf, (* the operator of each of these processes *)
  MaxTasks,   (* bound on the number of tasks ever made *)
  MaxOpen,    (* bound on the number of POST requests at the same time *)
  MaxEdits,   (* bound on the number of POST requests *)
  Nobody      (* no operator, no finished process *)

TasksAssumption ==
  /\ Adders \subseteq Users
  /\ Nobody \notin Users \cup Processes
  /\ MySamples \in [Users -> SUBSET Samples]
  /\ OperatorOf \in [Processes -> Users]
  /\ MaxTasks \in Nat
  /\ MaxOpen \in Nat
  /\ MaxEdits \in Nat

Ids == 1 .. MaxTasks

(* The code treats "in progress" and "accepted" alike: one stands for both. *)
Statuses == {"new", "accepted", "finished"}
Fields == {"status", "operator", "finished_process"}

Row == [customer : Users, status : Statuses, operator : Users \cup {Nobody},
        finished_process : Processes \cup {Nobody}]
Missing == [missing |-> TRUE]
Idle == [idle |-> TRUE]

(* A POST request in progress: the row as it has been read, and the input. *)
(* The samples form is only bound for the customer of a new task.          *)
Edits == [id : Ids, old : Row, new : Row, bound : BOOLEAN, sample_list : SUBSET Samples]

VARIABLES
  made,     (* the number of tasks made so far *)
  edits,    (* the number of edits begun so far *)
  tasks,    (* the row of each task *)
  samples,  (* the samples of each task: a relation of its own *)
  my,       (* what has been put on "My Samples" of each user so far *)
  recorded, (* the processes in the database *)
  desk,     (* the POST request of each user *)
  been,     (* history: everybody who has been operator of a task *)
  late,     (* history: samples chosen when there had been an operator already *)
  removed   (* history: the tasks that have been deleted *)

history == <<been, late, removed>>
vars == <<made, edits, tasks, samples, my, recorded, desk, history>>

TypeOK ==
  /\ made \in 0 .. MaxTasks
  /\ edits \in 0 .. MaxEdits
  /\ tasks \in [Ids -> Row \cup {Missing}]
  /\ samples \in [Ids -> SUBSET Samples]
  /\ my \in [Users -> SUBSET Samples]
  /\ recorded \in SUBSET Processes
  /\ desk \in [Users -> Edits \cup {Idle}]
  /\ been \in [Ids -> SUBSET Users]
  /\ late \in [Ids -> SUBSET Samples]
  /\ removed \in SUBSET Ids
  /\ \A t \in Ids : tasks[t] # Missing => t <= made
  /\ \A t \in Ids : tasks[t] = Missing => samples[t] = {}

Init ==
  /\ made = 0
  /\ edits = 0
  /\ tasks = [t \in Ids |-> Missing]
  /\ samples = [t \in Ids |-> {}]
  /\ my = MySamples
  /\ recorded = {}
  /\ desk = [u \in Users |-> Idle]
  /\ been = [t \in Ids |-> {}]
  /\ late = [t \in Ids |-> {}]
  /\ removed = {}

-----------------------------------------------------------------------------
(* What TaskForm allows.                                                   *)

EligibleOperators(row) == Adders \cup ({row.operator} \ {Nobody})

(* Mutant: everybody who may edit an accepted task may edit all of it. *)
FixedOnlyWhenNew(u, row) ==
  IF row.status = "new"
  THEN {"finished_process"}
       \cup IF u \in EligibleOperators(row) THEN {} ELSE {"operator", "status"}
  ELSE {}

fixed_fields(u, row) ==
  CASE row.status = "new" ->
         {"finished_process"}
         \cup IF u \in EligibleOperators(row) THEN {} ELSE {"operator", "status"}
    [] row.status = "accepted" ->
         IF u = row.operator THEN {} ELSE Fields
    [] row.status = "finished" ->
         {"finished_process", "operator"}
         \cup IF u = row.operator THEN {} ELSE {"status"}

(* The finished processes in the choice field. *)
Offered(u, row) ==
  {row.finished_process, Nobody}
  \cup IF u = row.operator THEN {p \in recorded : OperatorOf[p] = u} ELSE {}

(* The rows that user u may make out of a row. *)
Cleaned(u, row) ==
  {new \in [customer : {row.customer}, status : Statuses,
            operator : EligibleOperators(row) \cup {Nobody},
            finished_process : Offered(u, row)] :
    /\ \A f \in fixed_fields(u, row) : new[f] = row[f]
    /\ new.status # "new" => new.operator # Nobody}

(* The selections of samples that user u may make. *)
Selectable(u, more) == (SUBSET (my[u] \cup more)) \ {{}}

-----------------------------------------------------------------------------
(* A new task, by the edit view without a task ID; the user may have come  *)
(* from the data sheet of the sample "preset".                             *)
Create(u, ss) ==
  /\ made < MaxTasks
  /\ made' = made + 1
  /\ tasks' = [tasks EXCEPT ![made'] =
       [customer |-> u, status |-> "new", operator |-> Nobody, finished_process |-> Nobody]]
  /\ samples' = [samples EXCEPT ![made'] = ss]
  /\ UNCHANGED <<edits, my, recorded, desk, history>>

(* The edit view reads the task and finds the input valid. *)
Open(u, t) ==
  /\ desk[u] = Idle
  /\ Cardinality({v \in Users : desk[v] # Idle}) < MaxOpen
  /\ tasks[t] # Missing
  /\ u = tasks[t].customer \/ u \in Adders
  /\ LET bound == u = tasks[t].customer /\ tasks[t].status = "new" IN
     \E new \in Cleaned(u, tasks[t]),
        ss \in IF bound THEN Selectable(u, samples[t]) ELSE {{}} :
       desk' = [desk EXCEPT ![u] =
         [id |-> t, old |-> tasks[t], new |-> new, bound |-> bound, sample_list |-> ss]]
  /\ edits < MaxEdits
  /\ edits' = edits + 1
  /\ UNCHANGED <<made, tasks, samples, my, recorded, history>>

(* A new operator gets the samples of the task on "My Samples". *)
HandOver(e, ss) ==
  IF e.new.operator \notin {Nobody, e.old.operator}
  THEN [my EXCEPT ![e.new.operator] = @ \cup ss] ELSE my

(* save_to_database.  An UPDATE that finds no row is followed by an INSERT *)
(* (Django's Model.save), so a task that has been removed in the meantime  *)
(* is there again.                                                         *)
Save(u) ==
  LET e == desk[u] IN
  /\ e # Idle
  /\ e.new.finished_process \in recorded \cup {Nobody}
  /\ tasks' = [tasks EXCEPT ![e.id] = e.new]
  /\ samples' = [samples EXCEPT ![e.id] = IF e.bound THEN e.sample_list ELSE @]
  /\ my' = HandOver(e, samples'[e.id])
  /\ desk' = [desk EXCEPT ![u] = Idle]
  /\ been' = [been EXCEPT ![e.id] = @ \cup ({e.new.operator} \ {Nobody})]
  /\ late' = [late EXCEPT ![e.id] =
       IF e.bound /\ been[e.id] # {} THEN @ \cup e.sample_list ELSE @]
  /\ UNCHANGED <<made, edits, recorded, removed>>

(* The finished process has been deleted in the meantime: the database     *)
(* refuses the row.                                                        *)
SaveFails(u) ==
  /\ desk[u] # Idle
  /\ desk[u].new.finished_process \notin recorded \cup {Nobody}
  /\ desk' = [desk EXCEPT ![u] = Idle]
  /\ UNCHANGED <<made, edits, tasks, samples, my, recorded, history>>

(* Tasks disappear together with their relation to the samples. *)
Discard(ts) ==
  /\ tasks' = [t \in Ids |-> IF t \in ts THEN Missing ELSE tasks[t]]
  /\ samples' = [t \in Ids |-> IF t \in ts THEN {} ELSE samples[t]]
  /\ removed' = removed \cup ts

remove(u, t) ==
  /\ desk[u] = Idle
  /\ tasks[t] # Missing
  /\ tasks[t].customer = u
  /\ Discard({t})
  /\ UNCHANGED <<made, edits, my, recorded, desk, been, late>>

(* Somebody enters a finished process, or deletes one.  The tasks that are *)
(* connected with a deleted process are deleted with it (on_delete=CASCADE).*)
AddProcess(p) ==
  /\ p \notin recorded
  /\ recorded' = recorded \cup {p}
  /\ UNCHANGED <<made, edits, tasks, samples, my, desk, history>>

ConnectedWith(p) == {t \in Ids : tasks[t] # Missing /\ tasks[t].finished_process = p}

DeleteProcess(p) ==
  /\ p \in recorded
  /\ recorded' = recorded \ {p}
  /\ Discard(ConnectedWith(p))
  /\ UNCHANGED <<made, edits, my, desk, been, late>>

-----------------------------------------------------------------------------
Next ==
  \/ \E u \in Users :
       \/ \E preset \in Samples : \E ss \in Selectable(u, {preset}) : Create(u, ss)
       \/ \E t \in Ids : Open(u, t)
       \/ Save(u)
       \/ SaveFails(u)
       \/ \E t \in Ids : remove(u, t)
  \/ \E p \in Processes : AddProcess(p) \/ DeleteProcess(p)

Spec == Init /\ [][Next]_vars

-----------------------------------------------------------------------------
(* A finished process that a task shows exists, and whoever carried it out *)
(* has been the operator of the task: through overlapping edits and        *)
(* deletions of processes, only operators connect processes, and only      *)
(* their own.                                                              *)
ConnectedByItsOperator ==
  \A t \in Ids : tasks[t] # Missing /\ tasks[t].finished_process # Nobody =>
    /\ tasks[t].finished_process \in recorded
    /\ OperatorOf[tasks[t].finished_process] \in been[t]

(* Once it has been accepted, a task leaves the hands of its operator only *)
(* by the operator, or by an edit that was begun before it came to them.   *)
LeavesItsOperator ==
  \A u \in Users : LET e == desk[u] IN
    /\ e # Idle /\ desk'[u] = Idle
    /\ tasks[e.id] # Missing /\ tasks[e.id].status # "new"
    /\ tasks'[e.id].operator # tasks[e.id].operator
    => u = tasks[e.id].operator \/ e.old # tasks[e.id]

(* The operator of a task has been given its samples, except for those the *)
(* customer has chosen when the still new task had had an operator before: *)
(* only a change of the operator hands samples over.                       *)
OperatorsHaveTheSamples ==
  \A t \in Ids : tasks[t] # Missing /\ tasks[t].operator # Nobody =>
    samples[t] \subseteq my[tasks[t].operator] \cup late[t]

(* A task without samples is one that has been removed while somebody was  *)
(* editing it, and whose edit has brought it back.                         *)
EmptyOnlyIfRevived ==
  \A t \in Ids : tasks[t] # Missing /\ samples[t] = {} => t \in removed

(* Operators keep their tasks and have what they need for them, whatever   *)
(* others edit or delete at the same time.                                 *)
OperatorsKeepTheirTasks ==
  /\ TypeOK'
  /\ ConnectedByItsOperator'
  /\ OperatorsHaveTheSamples'
  /\ EmptyOnlyIfRevived'
  /\ LeavesItsOperator
=============================================================================
