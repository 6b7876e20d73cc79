------------------------------ MODULE Browser ------------------------------
(***************************************************************************)
(* What browsers and the menu keep.  A page has an ETag, made of the latest*)
(* of several timestamps; the list of My Samples in the menu is cached     *)
(* under a timestamp of its own.  Everything that changes what is shown    *)
(* must touch one of these timestamps: save() methods and the receivers of *)
(* signals do so.  Timestamps are taken when a request writes, but others  *)
(* see them when it commits, and receivers save whole rows of user details *)
(* that were read before.                                                  *)
(***************************************************************************)
EXTENDS Integers, FiniteSets, FiniteSetsExt

CONSTANTS
  Users,      (* the users; their My Samples, memberships, languages *)
  Viewer,     (* the user whose browser and menu are observed *)
  Requests,   (* requests that may overlap *)
  None,       (* nothing kept, no request *)
  MaxChanges  (* bound on the number of changes *)

BrowserAssumption == Viewer \in Users /\ MaxChanges \in Nat

VARIABLES
  c,          (* the contents of the database *)
  s,          (* its timestamps *)
  now,        (* the clock *)
  pending,    (* requests that have written but not committed *)
  kept,       (* the browser: pages with their ETags *)
  asked,      (* the page the browser asked for, with the ETag of the answer *)
  menu,       (* the server cache: lists of My Samples by timestamps *)
  overlapped  (* history: a request has committed after one that began later *)

vars == <<c, s, now, pending, kept, asked, menu, overlapped>>

Pages == {"sample", "series"}
Times == 0 .. MaxChanges
Watches(u) == u \in c.mine
Latest(times) == Max(times)

-----------------------------------------------------------------------------
(* What the pages and the menu show, without the wording: a sample with its*)
(* values, the name of its responsible person, and what concerns the user  *)
(* herself; a series with the names of its samples.                        *)
Common(u) == <<c.name, c.grants[u], u \in c.members, c.language[u]>>

Shown(page, u) ==
  IF page = "sample" THEN <<c.sample, c.in_series, Watches(u), c.cleared[u], Common(u)>>
  ELSE <<c.in_series, IF c.in_series THEN c.sample ELSE None, Common(u)>>

(* Topic.get_name_for_user hides the names of confidential topics.         *)
build_structured_sample_list(u) ==
  IF Watches(u) THEN <<c.sample, c.in_series, c.confidential => u \in c.members>> ELSE <<>>

embed_timestamp(page, u) ==
  IF page = "sample" THEN {s.sample, s.clearance[u], s.display[u], s.my[u], s.layout[u]}
  ELSE {s.series, s.display[u], s.layout[u]}

etag(page, u) == Latest(embed_timestamp(page, u))

-----------------------------------------------------------------------------
(* The writes of a request r, taken at the time t, on timestamps st; "read"*)
(* are the timestamps as they were when the request began.                 *)
ListsTouched(st, users, t) == [st EXCEPT !.list = [u \in Users |-> IF u \in users THEN t ELSE @[u]]]

(* Rows of user details are read, changed, and saved as a whole.           *)
touch_display_settings(st, users, r) ==
  [st EXCEPT !.display = [u \in Users |-> IF u \in users THEN r.now ELSE @[u]],
             !.my = [u \in Users |-> IF u \in users THEN r.read.my[u] ELSE @[u]]]

touch_my_samples(st, users, r) ==
  [st EXCEPT !.my = [u \in Users |-> IF u \in users THEN r.now ELSE @[u]],
             !.list = [u \in Users |-> IF u \in users THEN r.now ELSE @[u]],
             !.display = [u \in Users |-> IF u \in users THEN r.read.display[u] ELSE @[u]]]

(* Sample.save, with the series of the sample. *)
SampleSaved(st, cc, t) ==
  ListsTouched(IF cc.in_series THEN [st EXCEPT !.sample = t, !.series = t] ELSE [st EXCEPT !.sample = t], cc.mine, t)

touch_sample_series_samples(st, cc, t) == SampleSaved([st EXCEPT !.series = t], cc, t)

(* The m2m_changed receivers of a topic's members.                         *)
touch_by_topic_memberships(st, users, confidential, r) ==
  touch_display_settings(IF confidential THEN ListsTouched(st, users, r.now) ELSE st, users, r)

(* Mutant: only a new name counts. *)
TouchedByName(st, old, new, t) == st

touch_my_samples_list_by_topic(st, old, new, t) == IF old # new THEN ListsTouched(st, Users, t) ELSE st

Toggled(users, u) == IF u \in users THEN users \ {u} ELSE users \cup {u}

(* What the request r does to the database when it commits.                *)
SaveSample(r) ==
  /\ c' = [c EXCEPT !.sample = ~@]
  /\ s' = SampleSaved(s, c, r.now)

EditSeries(r) ==
  /\ c' = [c EXCEPT !.in_series = ~@]
  /\ s' = touch_sample_series_samples(s, c', r.now)

(* touch_user_samples_and_processes: this user is responsible for all.     *)
RenameUser(r) ==
  /\ c' = [c EXCEPT !.name = ~@]
  /\ s' = [SampleSaved(s, [c EXCEPT !.in_series = FALSE], r.now) EXCEPT !.series = r.now]

ChangeMySamples(r) ==
  /\ c' = [c EXCEPT !.mine = Toggled(@, r.user)]
  /\ s' = touch_my_samples(s, {r.user}, r)

(* A sample is shared with a clearance, perhaps a larger one than before:  *)
(* then nothing saves the clearance.                                       *)
ShareSample(r) ==
  /\ c' = [c EXCEPT !.mine = @ \cup {r.user}, !.cleared[r.user] = IF @ < 2 THEN @ + 1 ELSE @]
  /\ s' = [touch_my_samples(s, {r.user}, r) EXCEPT !.clearance[r.user] = IF c.cleared[r.user] = 0 THEN r.now ELSE @]

EditTopic(r) == \E confidential \in BOOLEAN :
  /\ c' = [c EXCEPT !.confidential = confidential, !.members = Toggled(@, r.user)]
  /\ s' = touch_by_topic_memberships(touch_my_samples_list_by_topic(s, c.confidential, confidential, r.now),
                                     {r.user}, confidential, r)

ChangeConfidentiality(r) ==
  /\ c' = [c EXCEPT !.confidential = ~@]
  /\ s' = touch_my_samples_list_by_topic(s, c.confidential, c'.confidential, r.now)

GrantPermission(r) ==
  /\ c' = [c EXCEPT !.grants[r.user] = ~@]
  /\ s' = touch_display_settings(s, {r.user}, r)

SwitchLanguage(r) ==
  /\ c' = [c EXCEPT !.language[r.user] = ~@]
  /\ s' = [s EXCEPT !.layout[r.user] = r.now]

-----------------------------------------------------------------------------
Begin(q) ==
  /\ pending[q] = None
  /\ now < MaxChanges
  /\ now' = now + 1
  /\ \E u \in Users : pending' = [pending EXCEPT ![q] = [user |-> u, now |-> now', read |-> s, alone |-> TRUE]]
  /\ UNCHANGED <<c, s, kept, asked, menu, overlapped>>

Commit(q) ==
  /\ pending[q] # None
  /\ \/ SaveSample(pending[q])
     \/ EditSeries(pending[q])
     \/ RenameUser(pending[q])
     \/ ChangeMySamples(pending[q])
     \/ ShareSample(pending[q])
     \/ EditTopic(pending[q])
     \/ ChangeConfidentiality(pending[q])
     \/ GrantPermission(pending[q])
     \/ SwitchLanguage(pending[q])
  /\ overlapped' = (overlapped \/ ~pending[q].alone)
  /\ pending' = [p \in Requests |-> IF p = q \/ pending[p] = None THEN None ELSE [pending[p] EXCEPT !.alone = FALSE]]
  /\ UNCHANGED <<now, kept, asked, menu>>

(* The decorator "condition" computes the ETag before the view is called,  *)
(* and calls it only if the browser has another one.                       *)
Ask(page) ==
  /\ asked = None
  /\ kept[page] # None => kept[page].etag # etag(page, Viewer)
  /\ asked' = [page |-> page, etag |-> etag(page, Viewer)]
  /\ UNCHANGED <<c, s, now, pending, kept, menu, overlapped>>

Render ==
  /\ asked # None
  /\ kept' = [kept EXCEPT ![asked.page] = [etag |-> asked.etag, shown |-> Shown(asked.page, Viewer)]]
  /\ asked' = None
  /\ UNCHANGED <<c, s, now, pending, menu, overlapped>>

show_main_menu ==
  /\ menu[s.list[Viewer]] = None
  /\ menu' = [menu EXCEPT ![s.list[Viewer]] = build_structured_sample_list(Viewer)]
  /\ UNCHANGED <<c, s, now, pending, kept, asked, overlapped>>

Init ==
  LET ever == [u \in Users |-> 0] IN
  /\ c = [sample |-> FALSE, name |-> FALSE, in_series |-> TRUE, confidential |-> FALSE, mine |-> {Viewer}, members |-> {},
          cleared |-> ever, grants |-> [u \in Users |-> FALSE], language |-> [u \in Users |-> FALSE]]
  /\ s = [sample |-> 0, series |-> 0, clearance |-> ever, display |-> ever, my |-> ever, list |-> ever, layout |-> ever]
  /\ now = 0
  /\ pending = [q \in Requests |-> None]
  /\ kept = [p \in Pages |-> None]
  /\ asked = None
  /\ menu = [t \in Times |-> None]
  /\ overlapped = FALSE

Next ==
  \/ \E q \in Requests : Begin(q) \/ Commit(q)
  \/ \E page \in Pages : Ask(page)
  \/ Render
  \/ show_main_menu

Spec == Init /\ [][Next]_vars
-----------------------------------------------------------------------------
Fresh(page) ==
  kept[page] # None /\ kept[page].etag = etag(page, Viewer) => kept[page].shown = Shown(page, Viewer)

(* The browser may keep the data sheet of a sample only as long as it shows*)
(* what the server would show.  Overlapping requests are the exception: the*)
(* latest timestamp may hide one that is committed after it, and whole rows*)
(* take timestamps back.                                                   *)
DataSheetIsFresh == ~overlapped => Fresh("sample")

(* So it is for sample series, whose ETag has fewer timestamps.            *)
SeriesIsFresh == ~overlapped => Fresh("series")

(* My Samples in the menu are as they would be now.                        *)
MenuIsFresh ==
  ~overlapped /\ menu[s.list[Viewer]] # None => menu[s.list[Viewer]] = build_structured_sample_list(Viewer)

(* What browser and server keep for a user is used only while it is what   *)
(* she would get otherwise.                                                *)
KeptIsFresh == DataSheetIsFresh /\ SeriesIsFresh /\ MenuIsFresh
=============================================================================
