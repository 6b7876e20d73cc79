------------------------------ MODULE Accounts ------------------------------
(***************************************************************************)
(* What decides about permissions, and who changes it: topics with their   *)
(* members, managers, sub-topics and auto-adders; the permissions of       *)
(* processes; the synchronisation with the LDAP directory; clearances.     *)
(*                                                                         *)
(* A request first reads and validates its forms (an action named like the *)
(* view); then, if it edits topics, it updates their rows, which locks     *)
(* them, and decides about permissions (Write); Commit makes its changes   *)
(* visible.  Relations are changed by what is to be added and removed, as  *)
(* Django's "set" does, rows as a whole.                                   *)
(***************************************************************************)
EXTENDS Permissions

CONSTANTS
  Founded,        (* the topics in the beginning *)
  Permitted,      (* the permissions of each user in the beginning *)
  Departments,    (* the department of each user in the beginning *)
  Admins,         (* the administrators in the beginning *)
  Ticked,         (* the permissions that somebody ticks in the form for them *)
  Managed,        (* the permissions that come from directory groups *)
  AdPermissions,  (* those a user has in the directory *)
  AdDepartment,   (* the department of each user in the directory *)
  Tasks,          (* tasks: their customers and samples *)
  MaxRequests,    (* bound on the number of requests *)
  MaxOpen,        (* bound on the number of requests at the same time *)
  MaxMoves        (* bound on the number of members an edit adds and removes *)

VARIABLES
  adders,      (* the users with each topic among their auto-addition topics *)
  desk,        (* the request of each user *)
  requests,    (* the number of requests begun so far *)
  overlapped,  (* history: users and topics of requests that dealt with the same at once *)
  fresh        (* history: topics that have not been edited since they were added *)

ProcessPermissions == {"add", "view_every", "change", "edit_permissions"}
TopicPermissions == {"add_topic", "edit_their_topics", "change_topic"}

(* The first topics are in order, and the directory leaves alone what the  *)
(* pages for topics and permissions decide about.                          *)
AccountsAssumption ==
  /\ None \notin Ids \cup Users /\ Admins \subseteq Users /\ MaxRequests \in Nat
  /\ DOMAIN Permitted = Users /\ DOMAIN Founded \subseteq Ids
  /\ \A t \in DOMAIN Founded :
       /\ Founded[t] \in [confidential : BOOLEAN, manager : Users, members : SUBSET Users,
                          parent : DOMAIN Founded \cup {None}]
       /\ LET parent == Founded[t].parent IN
          parent # None => /\ Founded[t].confidential = Founded[parent].confidential
                           /\ Founded[t].manager = Founded[parent].manager
       /\ Founded[t].manager \in Founded[t].members
       /\ \/ Founded[t].manager \in Admins
          \/ Permitted[Founded[t].manager] \cap TopicPermissions # {}
  /\ \A u \in Users :
       /\ "edit_their_topics" \in Permitted[u] => \E t \in DOMAIN Founded : Founded[t].manager = u
       /\ "edit_permissions" \in Permitted[u] => ProcessPermissions \subseteq Permitted[u]
       /\ AdPermissions[u] \subseteq Managed
  /\ Managed \cap (ProcessPermissions \cup TopicPermissions) = {}
  /\ Ticked \subseteq SUBSET ProcessPermissions
  /\ \A task \in Tasks : task.sample \in Samples
  /\ \A s \in Samples : SplitOf[s] # None => SplitOf[s].parent \in Samples /\ SplitOf[s].time # None
  /\ \A p \in Processes : Process[p].samples \subseteq Samples
                          /\ (Process[p].result => Process[p].samples # {} \/ Process[p].in_series)

history == <<overlapped, fresh>>
database == <<active, superuser, department, granted, topics, clearances, adders>>
vars == <<database, desk, requests, history>>

Idle == [idle |-> TRUE]
(* What a request is going to do: rows of topics, members and auto-adders  *)
(* to be added and removed (pairs of topic and user), permissions to be    *)
(* added and removed (pairs of user and permission).                       *)
Plan == [phase |-> "form", topic |-> None, old |-> None, row |-> [t \in {} |-> Missing],
         members |-> {}, nonmembers |-> {}, adders |-> {}, nonadders |-> {},
         grants |-> {}, revokes |-> {}, department |-> [u \in {} |-> None], touches |-> {}]

Children(t) == {c \in Topics : topics[c].parent = t}
Family(t) == {c \in Ids : \A family \in SUBSET Ids :
  t \in family /\ (\A p \in family : Children(p) \subseteq family) => c \in family}

Begin(u, plan) ==
  /\ desk' = [desk EXCEPT ![u] = plan]
  /\ requests' = requests + 1
  /\ UNCHANGED <<database, history>>

-----------------------------------------------------------------------------
(* samples.views.topic                                                     *)

(* NewTopicForm: a sub-topic has the manager of the upper topic.           *)
add(u) == \E t \in Ids \ Topics, parent \in Topics \cup {None}, manager \in active, conf \in BOOLEAN :
  /\ \A s \in Ids \ Topics : t <= s
  /\ \A v \in Users : desk[v] # Idle => desk[v].topic # t
  /\ can_edit_users_topics(u)
  /\ department[u] # None
  /\ can_edit_topic(u, parent)
  /\ parent # None => manager = topics[parent].manager /\ conf = topics[parent].confidential
  /\ Begin(u, [Plan EXCEPT !.topic = t, !.phase = "new",
                           !.row = [c \in {t} |-> [confidential |-> conf, manager |-> manager,
                                                   members |-> {}, parent |-> parent]],
                           !.members = {<<t, u>>}, !.adders = {<<t, u>>},
                           !.grants = {<<manager, "edit_their_topics">>},
                           !.touches = {t, u, manager} \cup ({parent} \ {None})])

(* EditTopicForm: who may edit the topic is asked of the topic as it is.   *)
Valid(t, members, conf) == conf => \E m \in members : can_edit_topic(m, t)

(* Mutant: the members are replaced by those chosen in the form. *)
NewMembersAsChosen(members, manager) == members

NewMembers(members, manager) == members \cup {manager}

edit(u) == \E t \in Topics, conf \in BOOLEAN :
  \E members \in SUBSET (active \cup topics[t].members),
     manager \in active \cup {topics[t].manager} :
    LET new == NewMembers(members, manager)
        old == topics[t].members
    IN  /\ topics[t].parent = None
        /\ can_edit_topic(u, t)
        /\ Cardinality((new \ old) \cup (old \ new)) <= MaxMoves
        /\ Valid(t, members, conf)
        /\ Begin(u, [Plan EXCEPT
             !.topic = t, !.old = topics[t].manager,
             !.row = [c \in {t} |-> [topics[t] EXCEPT !.confidential = conf, !.manager = manager]],
             !.members = {t} \X (new \ old), !.nonmembers = {t} \X (old \ new),
             !.nonadders = {t} \X (old \ new),
             !.touches = {t, topics[t].manager, manager} \cup old \cup new])

(* Topic.save hands everything down to the sub-topics. *)
Rows(plan) ==
  [c \in Family(plan.topic) |->
     IF c = plan.topic THEN plan.row[c]
     ELSE [plan.row[plan.topic] EXCEPT !.parent = topics[c].parent]]

(* The old manager loses the permission with the last topic.               *)
Revokes(plan, rows) ==
  {m \in {plan.old} :
     /\ m # rows[plan.topic].manager
     /\ \A t \in Topics : IF t \in DOMAIN rows THEN rows[t].manager # m ELSE topics[t].manager # m}
  \X {"edit_their_topics"}

(* The new manager gets it unless she may edit topics anyway.              *)
Grants(plan, rows) ==
  {m \in {rows[plan.topic].manager} : m # plan.old /\ ~can_edit_users_topics(m)}
  \X {"edit_their_topics"}

(* Updating the row waits for others who have updated it.  The members of  *)
(* the sub-topics become those of the topic.                               *)
Write(u) ==
  LET plan == desk[u]
      rows == Rows(plan)
      family == DOMAIN rows \ {plan.topic}
      members == (topics[plan.topic].members \cup {m[2] : m \in plan.members})
                 \ {m[2] : m \in plan.nonmembers}
  IN  /\ plan # Idle
      /\ plan.phase = "form"
      /\ \A v \in Users : desk[v] # Idle /\ desk[v].phase = "written" =>
           DOMAIN desk[v].row \cap DOMAIN rows = {}
      /\ desk' = [desk EXCEPT ![u] = [plan EXCEPT
           !.phase = "written", !.row = rows, !.touches = @ \cup DOMAIN rows,
           !.members = @ \cup UNION {{c} \X (members \ topics[c].members) : c \in family},
           !.nonmembers = @ \cup UNION {{c} \X (topics[c].members \ members) : c \in family},
           !.revokes = Revokes(plan, rows), !.grants = Grants(plan, rows)]]
      /\ UNCHANGED <<database, requests, history>>

(* The members of the upper topic are copied when the new one is there.    *)
WriteNew(u) ==
  LET plan == desk[u] IN
  /\ plan # Idle
  /\ plan.phase = "new"
  /\ LET parent == plan.row[plan.topic].parent
     IN  desk' = [desk EXCEPT ![u] = [plan EXCEPT
           !.phase = "written",
           !.members = @ \cup IF parent = None THEN {} ELSE {plan.topic} \X topics[parent].members]]
  /\ UNCHANGED <<database, requests, history>>

-----------------------------------------------------------------------------
(* samples.views.user_details.edit_preferences: the auto-addition topics.  *)
edit_preferences(u) == \E v \in IF u \in superuser THEN Users ELSE {u} :
  \E chosen \in SUBSET {t \in Topics : in_topic(v, t)} :
    Begin(u, [Plan EXCEPT !.phase = "written",
                          !.adders = chosen \X {v}, !.nonadders = (Topics \ chosen) \X {v},
                          !.touches = {v}])

(* PermissionsForm.clean: who may edit permissions may do everything.      *)
Cleaned(ticks) == IF "edit_permissions" \in ticks THEN ProcessPermissions ELSE ticks

(* samples.views.permissions.edit: only differences to the lists of        *)
(* holders are written.                                                    *)
edit_permissions(u) == \E v \in Users, chosen \in Ticked :
  LET ticks == Cleaned(chosen)
      have == {p \in ProcessPermissions : v \in holders(p)}
  IN  /\ u \in holders("edit_permissions") \/ has_perm(u, "edit_permissions_for_all_physical_processes")
      /\ ticks # have
      /\ Begin(u, [Plan EXCEPT !.phase = "written",
                               !.grants = {v} \X (ticks \ have), !.revokes = {v} \X (have \ ticks),
                               !.touches = {v}])

-----------------------------------------------------------------------------
(* jb_common.auth: synchronize_with_ad, at a login of the user or, if the  *)
(* user is active, by the maintenance.                                     *)

(* The user is eligible: department and permissions follow the directory.  *)
synchronize_with_ad(u) ==
  LET new == (granted[u] \ Managed) \cup AdPermissions[u] IN
  /\ Begin(u, [Plan EXCEPT !.phase = "written",
                           !.grants = IF new = granted[u] THEN {} ELSE {u} \X new,
                           !.revokes = IF new = granted[u] THEN {}
                                       ELSE {u} \X ((UNION {granted[v] : v \in Users}
                                              \cup ProcessPermissions \cup {"edit_their_topics"}) \ new),
                           !.department = [v \in {u} |-> AdDepartment[u]],
                           !.touches = {u}])

RemainingSuperusers(u) == superuser \ {u}

(* The directory does not know the user, or does not answer.  She remains  *)
(* an auto-adder of the topics she was a member of.                        *)
lock_out(u) == LET touches == {u} \cup {t \in Topics : in_topic(u, t)} IN
  /\ u \in active
  /\ active' = active \ {u}
  /\ superuser' = RemainingSuperusers(u)
  /\ topics' = [t \in Ids |-> IF t \in Topics THEN [topics[t] EXCEPT !.members = @ \ {u}] ELSE Missing]
  /\ granted' = [granted EXCEPT ![u] = {}]
  /\ requests' = requests + 1
  /\ overlapped' = overlapped \cup UNION {touches \cup desk[v].touches :
       v \in {w \in Users : desk[w] # Idle /\ desk[w].touches \cap touches # {}}}
  /\ UNCHANGED <<department, clearances, adders, desk, fresh>>

-----------------------------------------------------------------------------
(* My Samples: a sample is copied to another user, with a clearance.       *)
copy(u) == \E v \in Users \ {u}, s \in Samples, physical \in BOOLEAN :
  /\ can_fully_view_sample(u, s)
  /\ clearances' = [clearances EXCEPT ![v][s] = @ \cup enforce_clearance(u, s, physical)]
  /\ requests' = requests + 1
  /\ UNCHANGED <<active, superuser, department, granted, topics, adders, desk, history>>

(* get_sample_clearance: whoever may add processes looks at a sample for   *)
(* which there is a task.                                                  *)
get_sample_clearance(u) == \E task \in Tasks, physical \in BOOLEAN :
  /\ ~can_fully_view_sample(u, task.sample)
  /\ can_add_physical_process(u)
  /\ clearances' = [clearances EXCEPT ![u][task.sample] = @ \cup enforce_clearance(task.customer, task.sample, physical)]
  /\ requests' = requests + 1
  /\ UNCHANGED <<active, superuser, department, granted, topics, adders, desk, history>>

-----------------------------------------------------------------------------
Commit(u) ==
  LET plan == desk[u] IN
  /\ plan # Idle
  /\ plan.phase = "written"
  /\ topics' = [t \in Ids |->
       IF t \in Topics \cup DOMAIN plan.row
       THEN LET row == IF t \in DOMAIN plan.row THEN plan.row[t] ELSE topics[t]
                old == IF t \in Topics THEN topics[t].members ELSE {}
            IN  [row EXCEPT !.members = (old \ {m[2] : m \in {n \in plan.nonmembers : n[1] = t}})
                                        \cup {m[2] : m \in {n \in plan.members : n[1] = t}}]
       ELSE Missing]
  /\ adders' = [t \in Ids |-> (adders[t] \ {m[2] : m \in {n \in plan.nonadders : n[1] = t}})
                              \cup {m[2] : m \in {n \in plan.adders : n[1] = t}}]
  /\ granted' = [v \in Users |-> (granted[v] \ {m[2] : m \in {n \in plan.revokes : n[1] = v}})
                                 \cup {m[2] : m \in {n \in plan.grants : n[1] = v}}]
  /\ department' = [v \in Users |-> IF v \in DOMAIN plan.department THEN plan.department[v] ELSE department[v]]
  /\ desk' = [desk EXCEPT ![u] = Idle]
  /\ overlapped' = overlapped \cup UNION {plan.touches \cup desk[v].touches :
       v \in {w \in Users \ {u} : desk[w] # Idle /\ desk[w].touches \cap plan.touches # {}}}
  /\ fresh' = IF plan.topic \notin Topics THEN fresh \cup ({plan.topic} \ {None}) ELSE fresh \ {plan.topic}
  /\ UNCHANGED <<active, superuser, clearances, requests>>

Init ==
  /\ active = Users
  /\ superuser = Admins
  /\ department = Departments
  /\ granted = Permitted
  /\ topics = [t \in Ids |-> IF t \in DOMAIN Founded THEN Founded[t] ELSE Missing]
  /\ clearances = [u \in Users |-> [s \in Samples |-> {}]]
  /\ adders = [t \in Ids |-> IF t \in DOMAIN Founded THEN Founded[t].members ELSE {}]
  /\ desk = [u \in Users |-> Idle]
  /\ requests = 0
  /\ overlapped = {}
  /\ fresh = {}

Serve(u) ==
  /\ requests < MaxRequests
  /\ desk[u] = Idle
  /\ Cardinality({v \in Users : desk[v] # Idle}) < MaxOpen
  /\ \/ synchronize_with_ad(u) \/ lock_out(u)
     \/ /\ u \in active
        /\ \/ add(u) \/ edit(u) \/ edit_preferences(u) \/ edit_permissions(u)
           \/ copy(u) \/ get_sample_clearance(u)

Next == \E u \in Users : Write(u) \/ WriteNew(u) \/ Commit(u) \/ Serve(u)

Spec == Init /\ [][Next]_vars
-----------------------------------------------------------------------------
TypeOK ==
  /\ superuser \subseteq active
  /\ \A t \in Topics : topics[t].members \subseteq Users /\ topics[t].parent \in Topics \cup {None}
  /\ adders \in [Ids -> SUBSET Users]
  /\ clearances \in [Users -> [Samples -> SUBSET Processes]]
  /\ requests \in 0 .. MaxRequests

(* Whoever manages a topic may edit topics, and keeps this permission as   *)
(* long as it is so: the decision to take it away looks at all topics.     *)
(* Two requests that hand over the topics of a manager at the same time do *)
(* not see each other.                                                     *)
ManagersMayEditTopics ==
  \A t \in Topics : LET m == topics[t].manager IN
    m \in active \ overlapped => can_edit_users_topics(m)

(* Nobody keeps the permission of topic managers without a topic.          *)
NoManagersWithoutTopic ==
  \A u \in Users \ overlapped :
    "edit_their_topics" \in granted[u] => \E t \in Topics : topics[t].manager = u

(* A sub-topic is as confidential as the upper topic and has its manager,  *)
(* unless it was added while the upper topic was being edited.             *)
SubtopicsFollow ==
  \A t \in Topics : LET p == topics[t].parent IN
    p # None /\ {t, p} \cap overlapped = {} =>
      topics[t].confidential = topics[p].confidential /\ topics[t].manager = topics[p].manager

(* New samples of a topic are put on My Samples of its members only: those *)
(* who leave the topic lose the auto-addition, too, unless they leave it   *)
(* because they are locked out.  This is about topics without upper topic. *)
AddersAreMembers ==
  \A t \in Topics : topics[t].parent = None =>
    (adders[t] \cap active) \ (overlapped \cup topics[t].members) = {}

(* A confidential topic never gets into a state in which no member may     *)
(* edit it, once it has been edited.                                       *)
ConfidentialTopicsEditable ==
  \A t \in Topics \ (fresh \cup overlapped) :
    topics[t].confidential /\ topics[t].parent = None /\ topics[t].manager \in active \ overlapped =>
      \E u \in topics[t].members : can_edit_topic(u, t)

(* Who may edit the permissions for a process has all of them, whatever    *)
(* other editors have changed before.                                      *)
PermissionEditorsMayDoAll ==
  \A u \in Users \ overlapped :
    "edit_permissions" \in granted[u] => ProcessPermissions \subseteq granted[u]

(* Nobody may edit what she may not see: samples, series, results,         *)
(* external operators; lab notebooks show what is visible anyway.  Physical*)
(* processes that are not finished are open for all who may add processes, *)
(* and the permission to change all of them stands for itself.             *)
EditingImpliesViewing ==
  \A u \in Users :
    /\ \A s \in Samples : can_edit_sample(u, s) => can_fully_view_sample(u, s)
    /\ \A s \in Samples : TopicOf[s] # None /\ can_add_result_process(u, ResponsibleFor[s], TopicOf[s])
                            => can_fully_view_sample(u, s)
    /\ can_edit_sample_series(u) => can_view_sample_series(u)
    /\ can_edit_external_operator(u) => can_view_external_operator(u)
    /\ \A p \in Processes :
         IF Process[p].result THEN can_edit_result_process(u, p) => can_view_result_process(u, p)
         ELSE \/ can_view_lab_notebook(u)
              \/ /\ can_edit_physical_process(u, p)
                 /\ Process[p].finished
                 /\ ~has_perm(u, "change")
              => can_view_physical_process(u, p)

(* A clearance for a sample only ever shows what is on its data sheet:     *)
(* nothing that was done with the sample it was split from after the split.*)
ClearedForTheSheet ==
  \A u \in Users, s \in Samples :
    \A p \in clearances[u][s] : p \in collect_process_contexts(s) /\ Process[p].finished

(* Topics have managers who may do their work, and nobody may do more than *)
(* their topics, permissions and clearances say.                           *)
PermissionsFitTopics ==
  /\ TypeOK
  /\ ManagersMayEditTopics
  /\ NoManagersWithoutTopic
  /\ SubtopicsFollow
  /\ AddersAreMembers
  /\ ConfidentialTopicsEditable
  /\ PermissionEditorsMayDoAll
  /\ EditingImpliesViewing
  /\ ClearedForTheSheet
=============================================================================
