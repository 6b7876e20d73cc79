----------------------------- MODULE Permissions -----------------------------
(***************************************************************************)
(* Who may do what: the assert_can_... functions of samples.permissions.   *)
(* Each of them is an operator here, named without the "assert_".          *)
(*                                                                         *)
(* This module holds the part of the database the decisions are made from. *)
(* Samples, processes, series and external contacts do not change; users,  *)
(* topics and clearances do, in the module Accounts.                       *)
(***************************************************************************)
EXTENDS Integers, FiniteSets, FiniteSetsExt

CONSTANTS
  Users,          (* all users *)
  Ids,            (* the primary keys of topics *)
  None,           (* no department, no topic, no parent *)
  Samples,        (* all samples *)
  ResponsibleFor, (* the currently responsible person of each sample *)
  TopicOf,        (* the topic of each sample, or None *)
  SplitOf,        (* the parent of each sample and the time of the split, or None *)
  Processes,      (* all processes *)
  Process,        (* their operator, samples, time, and whether finished or a result *)
  Series,         (* a sample series: responsible person, topic, samples *)
  Contact         (* an external operator: contact persons, and whether confidential *)

VARIABLES
  active,      (* the active users *)
  superuser,   (* the administrators *)
  department,  (* the department of each user, or None *)
  granted,     (* the user permissions of each user *)
  topics,      (* the topics: confidential, manager, members, parent *)
  clearances   (* for each user and sample, the processes shown by way of a clearance *)

Missing == [missing |-> TRUE]
Topics == {t \in Ids : topics[t] # Missing}

-----------------------------------------------------------------------------
(* Django: administrators may do everything, inactive users nothing.       *)
has_perm(u, p) == u \in active /\ (u \in superuser \/ p \in granted[u])

(* "NoDepartment()" is None, as its only instance is never made: two users *)
(* without department are in the same department.                          *)
same_department(u, v) == department[u] = department[v]

in_topic(u, t) == u \in topics[t].members

can_fully_view_sample(u, s) ==
  \/ u \in superuser
  \/ /\ TopicOf[s] = None
     /\ same_department(ResponsibleFor[s], u)
  \/ /\ TopicOf[s] # None
     /\ \/ in_topic(u, TopicOf[s])
        \/ ResponsibleFor[s] = u
        \/ /\ same_department(ResponsibleFor[s], u)
           /\ ~topics[TopicOf[s]].confidential
           /\ has_perm(u, "view_every_sample")

can_edit_sample(u, s) ==
  \/ u \in superuser
  \/ TopicOf[s] = None /\ same_department(ResponsibleFor[s], u)
  \/ /\ TopicOf[s] # None
     /\ \/ ResponsibleFor[s] = u
        \/ in_topic(u, TopicOf[s]) /\ "edit_their_topics" \in granted[u]

can_add_physical_process(u) == has_perm(u, "add")

can_edit_physical_process(u, p) ==
  \/ has_perm(u, "add") /\ (Process[p].operator = u \/ ~Process[p].finished)
  \/ has_perm(u, "change")
  \/ u \in superuser

can_view_lab_notebook(u) == has_perm(u, "view_every")

Cleared(u, p) == \E s \in Samples : p \in clearances[u][s]

can_view_physical_process(u, p) ==
  \/ has_perm(u, "view_every")
  \/ Process[p].operator = u
  \/ \E s \in Process[p].samples : can_fully_view_sample(u, s)
  \/ Cleared(u, p)

can_edit_result_process(u, p) == Process[p].operator = u \/ u \in superuser

can_edit_sample_series(u) == Series.responsible = u \/ u \in superuser

can_view_sample_series(u) ==
  Series.responsible = u \/ in_topic(u, Series.topic) \/ u \in superuser

can_view_result_process(u, p) ==
  \/ Process[p].operator = u
  \/ \E s \in Process[p].samples : can_fully_view_sample(u, s)
  \/ Process[p].in_series /\ can_view_sample_series(u)
  \/ Cleared(u, p)

can_add_result_process(u, responsible, topic) ==
  responsible = u \/ topic = None \/ in_topic(u, topic) \/ u \in superuser

can_edit_external_operator(u) == u \in Contact.persons \/ u \in superuser

can_view_external_operator(u) ==
  \/ u \in Contact.persons \/ u \in superuser
  \/ ~Contact.confidential /\ has_perm(u, "view_every_externaloperator")

(* For members it does not matter how they became the manager; whoever may *)
(* change all topics must be a member, too, if the topic is confidential.  *)
can_edit_topic(u, t) ==
  \/ t = None /\ has_perm(u, "add_topic")
  \/ t # None /\ in_topic(u, t) /\ (has_perm(u, "change_topic") \/ topics[t].manager = u)
  \/ /\ t # None
     /\ ~in_topic(u, t)
     /\ has_perm(u, "change_topic")
     /\ ~topics[t].confidential \/ u \in superuser

can_edit_users_topics(u) ==
  \E p \in {"add_topic", "edit_their_topics", "change_topic"} : has_perm(u, p)

(* The users with a permission, for the tables of the permissions page:    *)
(* administrators and inactive users are left out.                         *)
holders(p) == {u \in active \ superuser : p \in granted[u]}

-----------------------------------------------------------------------------
(* Clearances: what of the history of a sample a user shows to another.    *)

(* Where enforce_clearance comes to, from the sample upwards: samples, with*)
(* the time of the split it came from, after which nothing counts.         *)
Cutoffs == {None} \cup {SplitOf[s].time : s \in {s \in Samples : SplitOf[s] # None}}

Reached(s) == {v \in Samples \X Cutoffs : \A walk \in SUBSET (Samples \X Cutoffs) :
  <<s, None>> \in walk /\ (\A w \in walk : LET split == SplitOf[w[1]] IN
                             split # None => <<split.parent, split.time>> \in walk) => v \in walk}

(* The processes it finds there.                                           *)
Walked(s) ==
  {p \in Processes : Process[p].finished /\ \E v \in Reached(s) :
     v[1] \in Process[p].samples /\ (v[2] # None => Process[p].time <= v[2])}

(* "physical" says whether the physical processes are in the clearance     *)
(* set; results always are.                                                *)
enforce_clearance(donor, s, physical) ==
  {p \in Walked(s) :
     IF Process[p].result THEN can_view_result_process(donor, p)
     ELSE physical /\ can_view_physical_process(donor, p)}

(* The sample, the sample it was split from, and so on.                    *)
Origins(s) == {a \in Samples : \A line \in SUBSET Samples :
  s \in line /\ (\A x \in line : SplitOf[x] # None => SplitOf[x].parent \in line) => a \in line}

(* A process with these samples happened to the sample, or, before the     *)
(* split, to one of those it was split from.                               *)
HappenedTo(s, p, ss) ==
  s \in ss \/ \E a \in Origins(s) :
    SplitOf[a] # None /\ SplitOf[a].parent \in ss /\ Process[p].time <= SplitOf[a].time

(* The processes on the data sheet of a sample, before those are removed   *)
(* that a user may not see: results of sample series, too, and unfinished  *)
(* processes.                                                              *)
collect_process_contexts(s) ==
  {p \in Processes : HappenedTo(s, p, Process[p].samples \cup IF Process[p].in_series THEN Series.samples ELSE {})}
=============================================================================
