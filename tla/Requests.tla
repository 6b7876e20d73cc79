------------------------------ MODULE Requests ------------------------------
(***************************************************************************)
(* Users whose requests overlap: the properties of the site as a whole, as *)
(* far as they are proved.  Each component is an instance with variables   *)
(* of its own.                                                             *)
(***************************************************************************)
CONSTANTS
  Nobody, Users, AllSamples,
  Adders, MySamples, Processes, OperatorOf, MaxTasks, MaxOpen, MaxEdits,   (* Tasks *)
  AllTopics, Superusers, Seers, Careful, Confidential, Manager,            (* Newsfeed *)
  TopicEditors, Readers, Founded, FirstMembers, MaxRequests,
  People, TopicIds, Wafers, ResponsibleFor, TopicOf, SplitOf, Events,      (* Accounts *)
  Process, SharedSeries, Contact, FirstTopics, Permitted, Departments, Admins,
  Ticked, Managed, AdPermissions, AdDepartment, Orders, MaxServed, MaxMoves,
  Namers, Stems, Format, Renames, Owners, Cleaning, Founders,              (* Names *)
  MaxSamples, MaxNamings

VARIABLES
  made, edits, tasks, samples, my, recorded, desk, been, late, removed,    (* Tasks *)
  rows, watched, members, adders, series, originator, pending, informed,   (* Newsfeed *)
  entries, request, requests,
  active, superuser, department, granted, topics, clearances, followers,   (* Accounts *)
  office, served, overlapped, fresh,
  name, aliases, plans, brought, begun,                                    (* Names *)
  bore, kept, torn, arisen, claimed, dropped

task_vars == <<made, edits, tasks, samples, my, recorded, desk, been, late, removed>>
news_vars == <<rows, watched, members, adders, series, originator, pending, informed, entries, request, requests>>
rule_vars == <<active, superuser, department, granted, topics, clearances, followers, office, served, overlapped, fresh>>
name_vars == <<name, aliases, plans, brought, begun, bore, kept, torn, arisen, claimed, dropped>>

Worked == INSTANCE Tasks WITH Samples <- AllSamples
Reported == INSTANCE Newsfeed WITH Samples <- AllSamples, Topics <- AllTopics, row <- rows, my <- watched
Ruled == INSTANCE Accounts WITH Users <- People, Ids <- TopicIds, None <- Nobody, Samples <- Wafers,
  Processes <- Events, Series <- SharedSeries, Founded <- FirstTopics,
  Tasks <- Orders, MaxRequests <- MaxServed, adders <- followers, desk <- office, requests <- served
Named == INSTANCE Names WITH Users <- Namers, MaxRequests <- MaxNamings, desk <- plans, made <- brought
-----------------------------------------------------------------------------
(* Operators keep their tasks and have what they need for them, whatever   *)
(* others edit or delete at the same time.                                 *)
OperatorsKeepTheirTasks == [][Worked!OperatorsKeepTheirTasks]_task_vars

(* Everybody who is concerned hears of what has happened, and once.        *)
EverybodyHearsOnce == Reported!EverybodyHearsOnce

(* Topics have managers who may do their work, and nobody may do more than *)
(* their topics, permissions and clearances say.                           *)
PermissionsFitTopics == Ruled!PermissionsFitTopics

(* Names lead to the samples that have borne them, are claimed in order, and *)
(* are taken from others only by chance.                                   *)
NamesLeadHome == [][Named!NamesLeadHome]_name_vars
=============================================================================
