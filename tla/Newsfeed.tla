------------------------------ MODULE Newsfeed ------------------------------
(***************************************************************************)
(* Who gets which feed entry when samples, sample series and topics are    *)
(* edited or samples are processed.                                        *)
(*                                                                         *)
(* A view saves, and then calls methods of a Reporter, the most meaningful *)
(* first.  Each method makes an entry, collects the interested users, and  *)
(* connects both; the Reporter remembers whom it has already informed.     *)
(* Here, a request leaves the calls in "pending", and Report does the      *)
(* first of them.  One request is served at a time, except that users may  *)
(* remove samples from their "My Samples" while reports are pending.  All  *)
(* users are of the same department.                                       *)
(***************************************************************************)
EXTENDS Integers, SequencesExt

CONSTANTS
  Users, Samples, Topics,
  Nobody,       (* no topic, no series, no subscription, an empty form field *)
  Superusers,
  Seers,        (* the users with the permission "view_every_sample" *)
  Careful,      (* the users who get only important news *)
  Confidential, (* the confidential topics *)
  Manager,      (* the manager of each topic *)
  TopicEditors, (* the users with the permission "change_topic" *)
  Readers,      (* the subscribers of each newsfeed *)
  Founded,      (* the sample rows in the beginning *)
  FirstMembers, (* the members of each topic in the beginning *)
  MaxRequests   (* bound on the number of requests, and of removals from lists *)

Feeds == {"sample", "topic", "process", "series"}
Row == [responsible : Users, topic : Topics \cup {Nobody}]
Series == [responsible : Users, topic : Topics, samples : SUBSET Samples]

NewsfeedAssumption ==
  /\ IsFiniteSet(Users) /\ IsFiniteSet(Topics)
  /\ Nobody \notin Users \cup Topics
  /\ Superusers \cup Seers \cup Careful \cup TopicEditors \subseteq Users
  /\ Confidential \subseteq Topics
  /\ Manager \in [Topics -> Users]
  /\ Readers \in [Feeds -> SUBSET Users]
  /\ Founded \in [Samples -> Row]
  /\ FirstMembers \in [Topics -> SUBSET Users]
  /\ \A t \in Topics : Manager[t] \in FirstMembers[t]
  /\ MaxRequests \in Nat

(* A call of a Reporter: whom it addresses as persons, as members of       *)
(* topics, and as watchers of samples, and the feed it belongs to.  A call *)
(* with "anew" is the first one of a Reporter of its own.                  *)
Call == [people : SUBSET Users, topics : SUBSET Topics, samples : SUBSET Samples,
         important : BOOLEAN, feed : Feeds, anew : BOOLEAN]

VARIABLES
  row,        (* the row of each sample *)
  my,         (* "My Samples" of each user *)
  members,    (* the members of each topic *)
  adders,     (* the auto-adders of each topic *)
  series,     (* a sample series *)
  originator, (* the user of the latest request *)
  pending,    (* the calls of its Reporters still to be made *)
  informed,   (* already_informed_users of the current Reporter *)
  entries,    (* the feed entries of the latest request *)
  request,    (* history: what the latest request changed *)
  requests    (* the number of requests so far *)

reporter == <<originator, pending, informed, entries>>
vars == <<row, my, members, adders, series, reporter, request, requests>>

Entry == [reporter : 1 .. Cardinality(Users) + 1, call : Call, users : SUBSET Users]

(* What a request changed: the samples edited or processed, whether that   *)
(* is important, the users it concerns personally, and the topics that     *)
(* gained or lost samples.                                                 *)
Request == [samples : SUBSET Samples, important : BOOLEAN, feed : Feeds,
            people : [Feeds -> SUBSET Users], topics : SUBSET Topics, bulk : BOOLEAN]

TypeOK ==
  /\ row \in [Samples -> Row]
  /\ my \in [Users -> SUBSET Samples]
  /\ members \in [Topics -> SUBSET Users] /\ adders \in [Topics -> SUBSET Users]
  /\ \A t \in Topics : Manager[t] \in members[t] /\ adders[t] \subseteq members[t]
  /\ series \in Series \cup {Nobody}
  /\ originator \in Users
  /\ pending \in Seq(Call)
  /\ informed \subseteq Users
  /\ entries \in Seq(Entry)
  /\ request \in Request
  /\ requests \in 0 .. MaxRequests

Nothing == [samples |-> {}, important |-> TRUE, feed |-> "sample",
            people |-> [f \in Feeds |-> {}], topics |-> {}, bulk |-> FALSE]

Init ==
  /\ row = Founded
  /\ members = FirstMembers
  /\ adders = FirstMembers
  /\ my = [u \in Users |-> {s \in Samples :
       \/ row[s].responsible = u
       \/ row[s].topic # Nobody /\ u \in adders[row[s].topic]}]
  /\ series = Nobody
  /\ originator \in {Manager[t] : t \in Topics}
  /\ pending = <<>> /\ informed = {} /\ entries = <<>>
  /\ request = Nothing /\ requests = 0

-----------------------------------------------------------------------------
(* Permissions.                                                            *)

Managers == {Manager[t] : t \in Topics}

(* assert_can_edit_sample *)
Editors(s) ==
  IF row[s].topic = Nobody THEN Users
  ELSE {row[s].responsible} \cup Superusers \cup (members[row[s].topic] \cap Managers)

(* assert_can_edit_topic *)
TopicManagers(t) ==
  {Manager[t]} \cup Superusers
  \cup (TopicEditors \cap IF t \in Confidential THEN members[t] ELSE Users)

(* The topics one can choose in a form. *)
set_topics(u) == {t \in Topics : t \notin Confidential \/ u \in members[t] \cup Superusers}

(* has_permission_to_fully_view_sample *)
Viewers(s) ==
  CASE row[s].topic = Nobody -> Users
    [] row[s].topic \in Confidential -> {row[s].responsible} \cup Superusers \cup members[row[s].topic]
    [] OTHER -> {row[s].responsible} \cup Superusers \cup members[row[s].topic] \cup Seers

-----------------------------------------------------------------------------
(* The Reporter.                                                           *)

(* __add_interested_users *)
Watchers(ss, important) ==
  {u \in Users \ (IF important THEN {} ELSE Careful) : \E s \in ss : s \in my[u] /\ u \in Viewers(s)}

(* __add_topic_members *)
TopicMembers(ts) == (UNION {members[t] : t \in ts}) \ Careful

Interested(c) == c.people \cup TopicMembers(c.topics) \cup Watchers(c.samples, c.important)

(* The users who get the next entry, and those counted as informed by it. *)
Addressed(c, known) == (Interested(c) \ known) \cap Readers[c.feed]

Informed(c, known) == known \cup Addressed(c, known)

(* Mutant: the entry is connected with everybody interested. *)
ReceiversAgain(c, known) == (Interested(c) \cap Readers[c.feed]) \ {originator}

Receivers(c, known) == Addressed(c, known) \ {originator}

(* The number of the Reporter that makes a call. *)
Current(c) ==
  LET last == IF entries = <<>> THEN 1 ELSE Last(entries).reporter
  IN IF c.anew THEN last + 1 ELSE last

(* __connect_with_users *)
Report ==
  /\ pending # <<>>
  /\ LET c == Head(pending)
         known == IF c.anew THEN {} ELSE informed
     IN /\ informed' = Informed(c, known)
        /\ entries' = IF Receivers(c, known) = {} THEN entries
                      ELSE Append(entries, [reporter |-> Current(c), call |-> c,
                                            users |-> Receivers(c, known)])
  /\ pending' = Tail(pending)
  /\ UNCHANGED <<row, my, members, adders, series, originator, request, requests>>

(* The calls.                                                              *)
Person(p, important) ==
  [people |-> {p}, topics |-> {}, samples |-> {}, important |-> important,
   feed |-> "sample", anew |-> FALSE]

Moved(old, new, important) ==
  [people |-> {}, topics |-> {old, new} \ {Nobody}, samples |-> {}, important |-> important,
   feed |-> "topic", anew |-> FALSE]

About(ss, important, feed) ==
  [people |-> {}, topics |-> {}, samples |-> ss, important |-> important,
   feed |-> feed, anew |-> FALSE]

(* __get_subscribers adds the watchers to the set it means to restore.     *)
NewSeries(t, ss) ==
  [people |-> {}, topics |-> {t}, samples |-> ss, important |-> TRUE,
   feed |-> "series", anew |-> FALSE]

Membership(us) ==
  [people |-> us, topics |-> {}, samples |-> {}, important |-> TRUE,
   feed |-> "topic", anew |-> TRUE]

Begin(u, calls, change) ==
  /\ requests' = requests + 1
  /\ originator' = u
  /\ pending' = calls
  /\ informed' = {}
  /\ entries' = <<>>
  /\ request' = change

-----------------------------------------------------------------------------
(* Requests.                                                               *)

Write(new) ==
  /\ row' = new
  /\ UNCHANGED <<members, adders, series>>

Owed(s, new) ==
  ({new.responsible} \ {row[s].responsible})
  \cup IF new.topic \in {Nobody, row[s].topic} THEN {} ELSE adders[new.topic]

(* edit in sample.py *)
EditSample(u, s, new, important) ==
  LET handed == new.responsible # row[s].responsible
      moved == new.topic \notin {Nobody, row[s].topic}
  IN /\ u \in Editors(s)
     /\ new.topic \in set_topics(u) \cup {Nobody, row[s].topic}
     /\ Begin(u,
          (IF handed THEN <<Person(new.responsible, important)>> ELSE <<>>)
          \o (IF moved THEN <<Moved(row[s].topic, new.topic, important)>> ELSE <<>>)
          \o <<About({s}, important, "sample")>>,
          [Nothing EXCEPT !.samples = {s}, !.important = important,
             !.people["sample"] = IF handed THEN {new.responsible} ELSE {},
             !.topics = IF moved THEN {row[s].topic, new.topic} \ {Nobody} ELSE {}])
     /\ my' = [v \in Users |-> my[v] \cup {x \in {s} : v \in Owed(s, new)}]
     /\ Write([row EXCEPT ![s] = new])

(* The samples that move, by their old topics.  The loop over the groups   *)
(* leaves the name "samples" bound to the last of them.                    *)
OldTopics(ss, topic) == IF topic = Nobody THEN {} ELSE {row[s].topic : s \in ss} \ {topic}
Group(ss, t) == {s \in ss : row[s].topic = t}
Left(ss, old) == IF old = <<>> THEN ss ELSE Group(ss, Last(old))

(* save_to_database in my_samples.py, with an order of the old topics.     *)
EditMySamples(u, ss, who, topic, copy, drop, old) ==
  LET New(s) == [responsible |-> IF who = Nobody THEN row[s].responsible ELSE who,
                 topic |-> IF topic = Nobody THEN row[s].topic ELSE topic]
      handed == {s \in ss : New(s).responsible # row[s].responsible}
      Copied(v) == [Person(v, TRUE) EXCEPT !.anew = TRUE]
      edited == who # Nobody \/ topic # Nobody
  IN /\ ss # {} /\ ss \subseteq my[u]
     /\ topic \in set_topics(u) \cup {Nobody}
     /\ edited => u \in Superusers \/ \A s \in ss : u \in Editors(s)
     /\ Begin(u,
          (IF handed = {} THEN <<>> ELSE <<Person(who, TRUE)>>)
          \o [i \in DOMAIN old |-> Moved(old[i], topic, TRUE)]
          \o (IF edited THEN <<About(Left(ss, old), TRUE, "sample")>> ELSE <<>>)
          \o [i \in 1 .. Cardinality(copy) |-> Copied(SetToSeq(copy)[i])],
          [Nothing EXCEPT !.samples = IF edited THEN ss ELSE {}, !.bulk = TRUE,
             !.people["sample"] = copy \cup IF handed = {} THEN {} ELSE {who},
             !.topics = IF old = <<>> THEN {} ELSE (ToSet(old) \cup {topic}) \ {Nobody}])
     /\ my' = [v \in Users |->
          (my[v] \cup {s \in ss : v \in Owed(s, New(s)) \cup copy})
          \ IF v = u /\ drop THEN ss ELSE {}]
     /\ Write([s \in Samples |-> IF s \in ss THEN New(s) ELSE row[s]])

(* report_physical_process, for a new process (always important) and for   *)
(* an edited one.                                                          *)
SaveProcess(u, ss, important, finished) ==
  /\ ss # {}
  /\ Begin(u, IF finished THEN <<About(ss, important, "process")>> ELSE <<>>,
       IF finished
       THEN [Nothing EXCEPT !.samples = ss, !.important = important, !.feed = "process"]
       ELSE Nothing)
  /\ UNCHANGED <<row, my, members, adders, series>>

(* new in sample_series.py *)
NewSampleSeries(u, t, ss) ==
  /\ series = Nobody
  /\ t \in set_topics(u)
  /\ ss # {} /\ ss \subseteq my[u]
  /\ Begin(u, <<NewSeries(t, ss)>>, [Nothing EXCEPT !.samples = ss, !.feed = "series"])
  /\ series' = [responsible |-> u, topic |-> t, samples |-> ss]
  /\ UNCHANGED <<row, my, members, adders>>

(* edit in sample_series.py: the comparisons with the old person and topic *)
(* see the form's values in the instance already, so that only the two     *)
(* general reports are made, before and after the samples are saved.       *)
EditSampleSeries(u, new, important) ==
  /\ series # Nobody
  /\ u \in {series.responsible} \cup Superusers
  /\ new.topic \in set_topics(u) \cup {series.topic}
  /\ new.samples # {} /\ new.samples \subseteq my[u] \cup series.samples
  /\ Begin(u, <<About(series.samples, important, "series"), About(new.samples, important, "series")>>,
       [Nothing EXCEPT !.samples = series.samples \cup new.samples, !.important = important,
          !.feed = "series"])
  /\ series' = new
  /\ UNCHANGED <<row, my, members, adders>>

Leave(t, removed) == adders' = [adders EXCEPT ![t] = @ \ removed]

(* edit in topic.py; the manager, who always is a member, and whether the *)
(* topic is confidential are left as they are.                             *)
EditTopic(u, t, new) ==
  LET added == new \ members[t]
      removed == members[t] \ new
  IN /\ u \in TopicManagers(t)
     /\ Manager[t] \in new
     /\ members' = [members EXCEPT ![t] = new]
     /\ Leave(t, removed)
     /\ Begin(u, (IF added = {} THEN <<>> ELSE <<Membership(added)>>)
                 \o (IF removed = {} THEN <<>> ELSE <<Membership(removed)>>),
          [Nothing EXCEPT !.people["topic"] = added \cup removed])
     /\ UNCHANGED <<row, my, series>>

(* save_to_database and search in sample.py: users may put samples whose   *)
(* names they may know on "My Samples", and remove them.                   *)
Collect(u, s) ==
  /\ row[s].topic \in Confidential => u \in {row[s].responsible} \cup Superusers \cup members[row[s].topic]
  /\ Begin(u, <<>>, Nothing)
  /\ my' = [my EXCEPT ![u] = @ \cup {s}]
  /\ UNCHANGED <<row, members, adders, series>>

Forget(u, s) ==
  /\ s \in my[u]
  /\ requests < MaxRequests
  /\ requests' = requests + 1
  /\ my' = [my EXCEPT ![u] = @ \ {s}]
  /\ UNCHANGED <<row, members, adders, series, reporter, request>>

Serve(u) ==
  \/ \E s \in Samples : Collect(u, s)
  \/ \E s \in Samples, new \in Row, important \in BOOLEAN : EditSample(u, s, new, important)
  \/ \E ss \in SUBSET my[u], who \in Users \cup {Nobody}, topic \in Topics \cup {Nobody},
        copy \in SUBSET (Users \ {u}), drop \in BOOLEAN :
       \E old \in SetToSeqs(OldTopics(ss, topic)) : EditMySamples(u, ss, who, topic, copy, drop, old)
  \/ \E ss \in SUBSET Samples, important, finished \in BOOLEAN :
       SaveProcess(u, ss, important, finished)
  \/ \E t \in Topics, ss \in SUBSET my[u] : NewSampleSeries(u, t, ss)
  \/ \E new \in Series, important \in BOOLEAN : EditSampleSeries(u, new, important)
  \/ \E t \in Topics, new \in SUBSET Users : EditTopic(u, t, new)

ServeNext(u) == pending = <<>> /\ requests < MaxRequests /\ Serve(u)

Next ==
  \/ Report
  \/ \E u \in Users : ServeNext(u)
  \/ \E u \in Users, s \in Samples : Forget(u, s)

Spec == Init /\ [][Next]_vars

-----------------------------------------------------------------------------
Told == UNION {entries[i].users : i \in DOMAIN entries}
ToldIn(f) == UNION {entries[i].users : i \in {j \in DOMAIN entries : entries[j].call.feed = f}}

(* "This class assures that no user gets two feed entries" (Reporter), and *)
(* nobody hears of what they did themselves.                               *)
NobodyTwice ==
  /\ originator \notin Told
  /\ \A i, j \in DOMAIN entries :
       i # j /\ entries[i].reporter = entries[j].reporter => entries[i].users \cap entries[j].users = {}

(* Who is concerned personally hears of it, however quiet the news is: the *)
(* new responsible person of samples, the one who gets copies, and whose   *)
(* membership has changed.                                                 *)
PersonsHear ==
  pending = <<>> =>
    \A f \in Feeds : (request.people[f] \cap Readers[f]) \ {originator} \subseteq ToldIn(f)

(* The members of the topics between which samples move hear something.    *)
MembersHearOfMoves ==
  pending = <<>> =>
    (TopicMembers(request.topics) \cap Readers["topic"]) \ {originator} \subseteq Told

(* Whoever has a sample on "My Samples" and may see it hears of what has   *)
(* been done to it, whichever other news the same Reporter had before, and *)
(* whatever they do not subscribe to.                                      *)
AllWatchersHear ==
  pending = <<>> =>
    (Watchers(request.samples, request.important) \cap Readers[request.feed]) \ {originator}
      \subseteq Told

(* The same for all requests but the bulk edits of "My Samples".           *)
WatchersHear == request.bulk \/ AllWatchersHear

(* Everybody who is concerned hears of what has happened, and once.        *)
EverybodyHearsOnce ==
  /\ TypeOK
  /\ NobodyTwice
  /\ PersonsHear
  /\ MembersHearOfMoves
  /\ WatchersHear
=============================================================================
