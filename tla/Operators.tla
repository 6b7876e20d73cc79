----------------------------- MODULE Operators -----------------------------
(***************************************************************************)
(* Who has carried out a process: the operator, a user, and the external   *)
(* operator, who has no account but contact persons among the users.  The  *)
(* form of the process, where ordinary users have one selection box for    *)
(* both and superusers three; and the pages of external operators.         *)
(*                                                                         *)
(* Requests have two steps, as they read a process, or the processes of an *)
(* external operator, and write whole rows later.                          *)
(***************************************************************************)
EXTENDS FiniteSets

CONSTANTS
  Users,       (* ordinary users *)
  Superusers,  (* superusers *)
  Adders,      (* users who may add external operators *)
  Externals,   (* names for external operators *)
  None         (* nobody, no request *)

OperatorsAssumption ==
  /\ None \notin Users \cup Superusers
  /\ (Users \cup Superusers) \cap Externals = {}

VARIABLES
  contacts,  (* the contact persons of external operators; none before one is added *)
  process,   (* operator and external operator of the process *)
  job,       (* the running request of each user: the row that it will write, *)
             (* whether it edits the process, and (history) whether nobody    *)
             (* has saved the process since; or None                          *)
  named      (* history: who has edited the process or was named, see NamedIn *)

vars == <<contacts, process, job, named>>

AllUsers == Users \cup Superusers
Existing == {e \in Externals : contacts[e] # {}}
Row(operator, external) == [operator |-> operator, external |-> external]
-----------------------------------------------------------------------------
(* Mutant: any existing external operator can be chosen. *)
AllChoices(user) == {user, process.operator} \cup Existing

(* What an ordinary user can choose in the combined selection box. *)
set_choices(user) ==
  {user, process.operator} \cup ({process.external} \ {None}) \cup {e \in Externals : user \in contacts[e]}

(* What the server accepts.  Pages offer superusers all fields, other users *)
(* only the combined one, by emptying the selection boxes of the others;   *)
(* what is sent is compared with the users and external operators that     *)
(* exist, for everybody.  Superusers have to give an operator, the others  *)
(* a choice in the combined field.                                         *)
Sent(user) ==
  [operator : IF user \in Superusers THEN AllUsers ELSE AllUsers \cup {None},
   external : Existing \cup {None},
   combined : IF user \in Superusers THEN AllUsers \cup Existing \cup {None} ELSE set_choices(user)]

(* The row that the fields yield; none if they contradict each other.      *)
(* Without an operator, the user becomes the operator.                     *)
clean(user, sent) ==
  LET contradiction == \/ sent.combined \in AllUsers /\ sent.operator \notin {None, sent.combined}
                       \/ sent.combined \in Externals /\ sent.external \notin {None, sent.combined}
      final_operator == IF sent.combined \in AllUsers THEN sent.combined ELSE sent.operator
  IN  IF contradiction THEN {}
      ELSE {Row(IF final_operator = None THEN user ELSE final_operator,
                IF sent.combined \in Externals THEN sent.combined ELSE sent.external)}

(* Whom a form names: in the fields for them, or in the combined field, as *)
(* a superuser, as herself, or as a contact person.                        *)
NamedIn(user, sent) ==
  {user} \cup ({sent.operator, sent.external} \ {None}) \cup
  IF user \in Superusers THEN {sent.combined} \ {None}
  ELSE {e \in Externals : e = sent.combined /\ user \in contacts[e]}

(* What a request is going to write. *)
Job(row, edits) == [row |-> row, edits |-> edits, fresh |-> TRUE]

edit_process(user) ==
  /\ job[user] = None
  /\ \E sent \in Sent(user) : \E row \in clean(user, sent) :
       /\ job' = [job EXCEPT ![user] = Job(row, TRUE)]
       /\ named' = named \cup NamedIn(user, sent)
  /\ UNCHANGED <<contacts, process>>

new(user) ==
  \E external \in Externals \ Existing :
     /\ user \in Adders
     /\ contacts' = [contacts EXCEPT ![external] = {user}]
     /\ UNCHANGED <<process, job, named>>

(* The external operator gets other contact persons, at least one.  If it  *)
(* is the one of the process, the process is saved, too, a bit later.      *)
edit(user) ==
  \E external \in Existing, persons \in SUBSET AllUsers \ {{}} :
     /\ job[user] = None
     /\ user \in contacts[external] \/ user \in Superusers
     /\ contacts' = [contacts EXCEPT ![external] = persons]
     /\ job' = IF process.external = external THEN [job EXCEPT ![user] = Job(process, FALSE)] ELSE job
     /\ UNCHANGED <<process, named>>

(* Whole rows are written, and the rows that other requests have read are  *)
(* not fresh any more.                                                     *)
save(user) ==
  /\ job[user] # None
  /\ process' = job[user].row
  /\ job' = [u \in AllUsers |-> IF u = user \/ job[u] = None THEN None ELSE [job[u] EXCEPT !.fresh = FALSE]]
  /\ UNCHANGED <<contacts, named>>

Init ==
  /\ contacts = [e \in Externals |-> {}]
  /\ \E user \in Users : process = Row(user, None) /\ named = {user}
  /\ job = [u \in AllUsers |-> None]

Next == \E user \in AllUsers : edit_process(user) \/ new(user) \/ edit(user) \/ save(user)

Spec == Init /\ [][Next]_vars
-----------------------------------------------------------------------------
(* Nobody becomes the operator of a process who has not edited it herself, *)
(* unless a form says so in the field for the operator, or a superuser;    *)
(* whatever requests overlap.                                              *)
OperatorTookPart == process.operator \in named

(* An external operator was first named in such a way, or by a user who    *)
(* was one of her contact persons then, even if she is none any more.      *)
ExternalIsKnown == process.external \in named \cup {None}

(* An edit of an external operator takes nothing back: it writes the row   *)
(* of the process as it is, unless another request has saved the process   *)
(* since it was read.                                                      *)
TakesNothingBack ==
  \A user \in AllUsers :
    job[user] # None /\ ~job[user].edits /\ job[user].fresh => job[user].row = process

(* Operators have taken part or have been named, and a process stays as it *)
(* was edited when its external operator is, unless that overlaps.         *)
OperatorsAreKnown == OperatorTookPart /\ ExternalIsKnown /\ TakesNothingBack
=============================================================================
