----------------------------- MODULE MCRequests -----------------------------
(***************************************************************************)
(* Users of one site whose requests overlap, in four components with       *)
(* variables of their own: part says which of them is explored.            *)
(***************************************************************************)
EXTENDS Requests, Integers, Sequences

CONSTANTS None, ann, bob, root

(* Names: the sample name formats of the settings, and two users with      *)
(* initials.  One or two samples with a gap before, between or behind      *)
(* their provisional numbers are there in the beginning.                   *)
SiteFormat == [s \in {"15B-100", "15-AN-a", "15C-001"} |-> IF s = "15-AN-a" THEN "new" ELSE "old"]
SiteRenames == [f \in {"provisional", "old", "new", "none"} |-> IF f \in {"provisional", "old"} THEN {"new"} ELSE {}]
SiteOwners == [s \in {"15B-100", "15-AN-a", "15C-001"} |-> IF s = "15-AN-a" THEN {"anna"} ELSE {}]
SiteFounders == {<<<<"*", 1>>, <<"*", 3>>>>, <<<<"15B-100">>, <<"*", 2>>>>}

(* Accounts: Ann manages the only topic, Bob is an ordinary user, Root     *)
(* administers.  There is a sample of the topic, and a piece of it that    *)
(* has left the topic.                                                     *)
SiteFounded == [t \in {1} |-> [confidential |-> FALSE, manager |-> ann, members |-> {ann}, parent |-> None]]
SiteUsers == {ann, bob, root}
SitePermitted == [u \in SiteUsers |->
  IF u = ann THEN {"add_topic", "edit_permissions", "add", "view_every", "change"} ELSE {"rename_samples"}]
SiteDepartments == [u \in SiteUsers |-> IF u = ann THEN "PV" ELSE None]
SiteDirectory == [u \in SiteUsers |-> "PV"]
SiteSeries == [responsible |-> bob, topic |-> 1, samples |-> {"wafer"}]
SiteContact == [persons |-> {ann}, confidential |-> FALSE]
SiteOrders == {[customer |-> ann, sample |-> "wafer"]}
SiteRights == [u \in SiteUsers |-> IF u = bob THEN {"view_every_sample"} ELSE {}]
SiteTopicOf == [s \in {"wafer", "piece"} |-> IF s = "wafer" THEN 1 ELSE None]
SiteResponsible == [s \in {"wafer", "piece"} |-> IF s = "wafer" THEN root ELSE ann]
SiteSplitOf == [s \in {"wafer", "piece"} |-> IF s = "wafer" THEN None ELSE [parent |-> "wafer", time |-> 1]]
Done(operator, wafers, time, finished, result, in_series) ==
  [operator |-> operator, samples |-> wafers, time |-> time, finished |-> finished, result |-> result, in_series |-> in_series]
SiteProcess == [p \in {"deposition", "result", "running", "comment"} |->
  CASE p = "deposition" -> Done(root, {"wafer"}, 1, TRUE, FALSE, FALSE)
    [] p = "result"     -> Done(ann, {"wafer"}, 2, TRUE, TRUE, TRUE)
    [] p = "running"    -> Done(bob, {"piece"}, 3, FALSE, FALSE, FALSE)
    [] p = "comment"    -> Done(ann, {"piece"}, 3, TRUE, TRUE, FALSE)]

(* Tasks: one customer and two users who may operate the apparatus.        *)
Workers == {"juliette", "nick", "sean"}
CustomersSamples == [u \in Workers |-> IF u = "juliette" THEN {"a", "b"} ELSE {}]
RunBy == [p \in {"run"} |-> "nick"]

(* Newsfeed: Juliette manages a confidential topic, and Sean the legacy    *)
(* topic; Nick is in both but does not read the news of topics, and        *)
(* Juliette reads only important news.                                     *)
Managing == [t \in {"phd", "legacy"} |-> IF t = "phd" THEN "juliette" ELSE "sean"]
Groups == [t \in {"phd", "legacy"} |-> {"nick", Managing[t]}]
Subscriptions == [f \in {"sample", "topic", "process", "series"} |-> IF f = "topic" THEN {"juliette", "sean"} ELSE Workers]
TheirSamples == [s \in {"a", "b"} |-> [responsible |-> "juliette", topic |-> IF s = "a" THEN "legacy" ELSE "phd"]]

VARIABLES part
-----------------------------------------------------------------------------
(* A task.                                                                 *)
WorkedAlone == UNCHANGED <<news_vars, rule_vars, name_vars>>

CreateTask == part = "Tasks" /\ (\E u \in Users, preset \in AllSamples : \E ss \in Worked!Selectable(u, {preset}) : Worked!Create(u, ss)) /\ WorkedAlone
OpenTask == part = "Tasks" /\ (\E u \in Users : Worked!Open(u, 1)) /\ WorkedAlone
SaveTask == part = "Tasks" /\ (\E u \in Users : Worked!Save(u)) /\ WorkedAlone
FailToSaveTask == part = "Tasks" /\ (\E u \in Users : Worked!SaveFails(u)) /\ WorkedAlone
RemoveTask == part = "Tasks" /\ (\E u \in Users : Worked!remove(u, 1)) /\ WorkedAlone
AddProcess == part = "Tasks" /\ Worked!AddProcess("run") /\ WorkedAlone
DeleteProcess == part = "Tasks" /\ Worked!DeleteProcess("run") /\ WorkedAlone
-----------------------------------------------------------------------------
(* Reports of the newsfeed.                                                *)
ReportedAlone == UNCHANGED <<task_vars, rule_vars, name_vars>>

Report == part = "Newsfeed" /\ Reported!Report /\ ReportedAlone
ServeReported == part = "Newsfeed" /\ (\E u \in Users : Reported!ServeNext(u)) /\ ReportedAlone
Forget == part = "Newsfeed" /\ (\E u \in Users, s \in AllSamples : Reported!Forget(u, s)) /\ ReportedAlone
-----------------------------------------------------------------------------
(* Users, their permissions and topics.                                    *)
RuledAlone == UNCHANGED <<task_vars, news_vars, name_vars>>

Write == part = "Accounts" /\ (\E u \in SiteUsers : Ruled!Write(u)) /\ RuledAlone
WriteNew == part = "Accounts" /\ (\E u \in SiteUsers : Ruled!WriteNew(u)) /\ RuledAlone
Commit == part = "Accounts" /\ (\E u \in SiteUsers : Ruled!Commit(u)) /\ RuledAlone
ServeAccounts == part = "Accounts" /\ (\E u \in SiteUsers : Ruled!Serve(u)) /\ RuledAlone
-----------------------------------------------------------------------------
(* Names of samples.                                                       *)
NamedAlone == UNCHANGED <<task_vars, news_vars, rule_vars>>

SaveNames == part = "Names" /\ (\E u \in Namers : Named!Save(u)) /\ NamedAlone
FailNames == part = "Names" /\ (\E u \in Namers : Named!Fail(u)) /\ NamedAlone
LookAgain == part = "Names" /\ (\E u \in Namers : Named!LookAgain(u)) /\ NamedAlone
ServeNames == part = "Names" /\ (\E u \in Namers : Named!Serve(u)) /\ NamedAlone
-----------------------------------------------------------------------------
own == <<task_vars, news_vars, rule_vars, name_vars>>

Init ==
  /\ Worked!Init
  /\ Reported!Init
  /\ Ruled!Init
  /\ Named!Init
  /\ part \in {"Tasks", "Newsfeed", "Accounts", "Names"}
  /\ part # "Newsfeed" => originator = "juliette"
  /\ part # "Names" => name[1] = <<"*", 1>>

Next ==
  /\ UNCHANGED part
  /\ \/ CreateTask
     \/ OpenTask
     \/ SaveTask
     \/ FailToSaveTask
     \/ RemoveTask
     \/ AddProcess
     \/ DeleteProcess
     \/ Report
     \/ ServeReported
     \/ Forget
     \/ Write
     \/ WriteNew
     \/ Commit
     \/ ServeAccounts
     \/ SaveNames
     \/ FailNames
     \/ LookAgain
     \/ ServeNames

Spec == Init /\ [][Next]_<<part, own>>

ASSUME Worked!TasksAssumption /\ Reported!NewsfeedAssumption /\ Ruled!AccountsAssumption /\ Named!NamesAssumption
=============================================================================
