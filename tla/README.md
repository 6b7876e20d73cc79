# A TLA+ model of JuliaBase

JuliaBase is a Django application with which laboratories keep track of their samples: what
was done to them, who is responsible for them, who has to do what next. It runs as several web
workers that share a PostgreSQL database and a memcached. One request is one database
transaction (`ATOMIC_REQUESTS`, `src/settings.py:50-58`) at the isolation level READ
COMMITTED; Django writes whole rows back, and nothing locks what a request has read.
Everything below follows from these few facts.

This directory models the parts of JuliaBase in which they bite: TLA+ modules, TLC
configurations for small instances, and TLAPS proofs for instances of every size.
`PROJECT.json` lists the components, the runs, the source lines behind each definition, the
hazards, and the theorems. Paths are relative to the repository.

    tlc -config CacheLock_waiting.cfg CacheLock.tla
    tlapm CacheLock_proofs.tla

## 1 Inventory

"Hard" is what a unit test hardly reaches. The properties are named as in the modules.

### Cache key lock: `src/jb_common/utils/base.py:674` (`CacheLock`, `KeyLock`)
* **State**: lock items in the cache (`sample-lock:7`, `process-lock:3`), and per request the
  polling cycles left.
* **Operations**: the context manager `cache_key_locked`: `cache.add` in a polling loop, 20
  cycles of 0.3 s; then `cache.clear()` and one last `cache.add`; deletion of the item when the
  context is left.
* **Interacts** with every view that shows samples and with every `save()` of a sample or a
  process, which use it around their key lists.
* **Hard**: the clear removes everybody's locks; leaving deletes the item without asking whose
  it is; a killed worker leaves its lock behind.
* **Correct** if two workers share a context only in the aftermath of a wipe, if the aftermath
  ends, and if nobody waits for ever.

### Data sheet cache: `samples/views/sample.py`, `samples/utils/views/base.py`, `samples/models/common.py` (`SheetCache`, `Saves`)
* **State**: rendered process contexts and data sheets, one per object and per hash of the
  layout settings of the user; per object a key list that says what to purge.
* **Operations**: looking up, rendering, registering, storing; on saving: purging what the key
  list names, writing the row, committing.
* **Hard**: purge, write and commit are three steps; the key list is read and written back in
  separate cache operations; a save may fail after its purge; a save walks over the rows of the lineage, takes the lock
  in the cache for each of them, and keeps the lock of each row until the commit, while another walks the other way.
* **Correct** if every item is registered, nothing stale is served, and saves end. The second does not hold
  in general (finding 1); the model says exactly when it does.

### Lineage and life cycle of samples: `samples/models/common.py`, `views/split_and_rename.py`, `views/split_after_deposition.py`, `views/sample_death.py`, `views/merge_samples.py`, `views/sample.py`, `views/main.py` (`Lineage`)
* **State**: samples, processes, the many-to-many relation between them, `split_origin`, the
  parent of a split, timestamps, `split_done`.
* **Operations**: adding samples and processes, editing processes, splits, re-splits, bulk
  splits after a deposition, deaths, merges, and the mutually recursive `delete()` methods, which
  run twice: dry, to ask for permission and to announce, and for real.
* **Hard**: the two runs of `delete()` must agree although the second changes what it looks at;
  a process is deleted with its last sample, which depends on the order of the visits; merging
  walks up the splits by timestamps that users can choose.
* **Correct** if lineage is never torn, announced objects are gone, survivors keep their
  history, and nothing is measured after its death.

### Cache invalidation: `samples/models/common.py`, `samples/signals.py` (`Invalidation`)
* **State**: which items are purged by one request.
* **Operations**: the walk of the four `save()` methods up and down the splits, and the
  `m2m_changed` receivers.
* **Hard**: what a data sheet shows comes from ancestors, their pieces' names, results of
  series; the walk must reach every sheet on which a change can be seen.
* **Correct** if a changed sheet or context has been purged (finding 3 says where it is not).

### Task lists: `samples/views/task_lists.py` (`Tasks`)
* **State**: tasks with customer, status, operator, finished process, samples.
* **Operations**: create, edit (read, decide which fields are fixed, write), remove; deleting a
  process deletes the tasks connected with it.
* **Hard**: the edit is not atomic, and the fixed fields are those of the row that was read.
* **Correct** if only operators connect processes, and only their own; if nobody takes a task
  out of an operator's hands; if operators have the samples of their tasks.

### Responsibility and claims: `samples/views/claim.py`, `my_samples.py`, `sample.py` (`Handover`)
* **State**: responsible person and topic of a sample, My Samples lists, claims.
* **Operations**: claim, approve, withdraw, edit a sample, bulk edits on My Samples.
* **Hard**: an approval writes the responsible person and, with it, the stale rest of the row;
  an approval gives the samples to nobody's list.
* **Correct** if whoever ends up responsible has had the sample on My Samples, and a claim is
  decided once.

### Newsfeed: `samples/utils/views/feed.py` and its callers (`Newsfeed`)
* **State**: entries, subscriptions; a `Reporter` per request that remembers whom it has
  informed.
* **Operations**: `report_...` methods, called by the views after they have saved.
* **Hard**: several reports of one request share one set of informed users; a user must not fall
  between two of them.
* **Correct** if nobody hears twice, and everybody who is concerned hears once.

### Names of samples: `institute/views/samples/sample.py`, `samples/views/bulk_rename.py`, `split_and_rename.py`, `split_after_deposition.py`, `merge_samples.py`, `samples/utils/sample_names.py` (`Names`)
* **State**: the unique names, the aliases, what a name looks like.
* **Operations**: reserving provisional and cleaning numbers, renaming one or many samples, naming
  pieces, merging, looking a sample up by name or alias.
* **Hard**: whether a name is free is asked in the form and the name written later; two users read
  the same free block; former names must go on leading to the sample.
* **Correct** if names lead home: to the sample that bears or bore them, and to no other one.

### Permissions, topics, authentication: `samples/permissions.py`, `samples/views/permissions.py`, `topic.py`, `jb_common/auth.py` (`Permissions`, `Accounts`)
* **State**: users, the permissions granted, topics with members, manager and upper topic,
  auto-adders, clearances.
* **Operations**: editing topics and permissions, synchronising with an LDAP directory at login,
  sharing data sheets; `assert_can_...`, which decide.
* **Hard**: that managers may edit topics is a permission which is granted and revoked when topics
  are handed over, possibly two at a time; sub-topics copy what the upper topic says; predicates
  about different objects have to agree with each other.
* **Correct** if managers have their permission and nobody else, if editing implies viewing, and if
  confidential topics stay editable.

### Forms for processes: `samples/utils/views/class_views.py`, `forms.py`, `result.py`, `external_operator.py` (`Steps`, `ProcessForms`, `ResultForm`, `Operators`)
* **State**: what is in the database, and the page in the browser, which goes to and fro.
* **Operations**: moving, duplicating, removing and adding steps, subprocesses, rows and columns of
  results; positions of samples; the operator; the same by remote clients without a page.
* **Hard**: subforms are identified by prefixes that live from page to page; counts come from one
  page, data from another; others edit the same process meanwhile.
* **Correct** if what is saved is what the user has seen.

### Images, blobs, and what browsers keep: `jb_common/utils/blobs/`, `samples/views/result.py`, `samples/signals.py`, `views/sample.py`, `sample_series.py` (`Images`, `Browser`)
* **State**: files, cached thumbnails; timestamps that control ETags and the cached menu.
* **Hard**: files have no transactions; the timestamp of a page is the maximum of several, each of
  which is touched by another receiver.
* **Correct** if a thumbnail shows its file, and if whatever changes a page moves its ETag.

### Remote client: `src/remote_client/` (`Remote`, `Crawler`, `PidLock`)
* **Operations**: requests that are repeated up to ten times, a context that changes My Samples
  temporarily, crawlers with a diff file and a lock file.
* **Hard**: lost answers, orphaned requests, crashes between import and note, three runs that race
  for a lock file.

### Numbers, kicker, menus, search, tables, harvesters (`Numbers`, `Kicker`, `SampleList`, `Folding`, `Search`, `SearchModels`, `Tables`, `Harvest`)
Smaller components with one difficulty each: a number that is given now and used later
(`institute/utils/base.py`); matches that count towards numbers of players once
(`src/kicker/views.py`); samples that must be listed once in nested topics
(`samples/utils/views/base.py`); deviations from a default that must survive its change
(`user_details.py`, `json_client.py`); search forms whose fields belong to the last page
(`jb_common/search.py`); a global set filled by recursion and by several threads (the same); a tree
that becomes a table (`samples/data_tree.py`, `table_export.py`); timestamps with a coarser
resolution outside than inside (`src/oai_pmh/views.py`).

### Not modelled
| component | why |
|---|---|
| Status messages, lab notebooks, log viewer, statistics | forms and lists on single rows; who may see a lab notebook is in `Permissions` |
| Templates, translations, migrations, settings, tests, maintenance scripts | layout, generated code, configuration; the settings that matter are assumptions of the modules |
| Plots (`samples/utils/plots.py`), PDF lab notebooks | numbers for a graphics library |
| Layouts and informal layers (`institute/layouts.py`, `informal_stacks.py`) | drawing; of the layers, `institute/signals.py:90-183` copies rows, but no class implements the method that it needs |
| Substrates and the other physical processes of the institute | subclasses whose forms are those of `ProcessForms` and `Steps` with other fields |
| The second blob backend, large objects in PostgreSQL | the operations are those of `Images` |
| Passwords and sessions | Django's |

## 2 How the components hang together

A view reads rows, checks forms, writes rows (`Handover`, `Tasks`, `Lineage`), and calls a
`Reporter` (`Newsfeed`). Writing calls `save()`, which walks the relations (`Invalidation`) and
purges the cache of each object it meets (`SheetCache`), under the lock of the object's key list
(`CacheLock`). `KeyLock` is the promise between the last two: `CacheLock` implements it, and
`SheetCache` is shown to use its locks in the same way, so that the polling need not be repeated
there. What `SheetCache` is for the server, `Browser` is for what users keep: the same saves touch
the timestamps of pages.

`Permissions` are the predicates all views share, `Accounts` what changes them. `Names` gives
samples the names by which all others find them, and `Numbers` does so for depositions. Pages with
many subforms (`Steps`, `ProcessForms`, `ResultForm`, `Operators`, `Search`) keep the state of
a dialogue in the browser, and programs (`Remote`, `Crawler`) use the same views without one.
`Deletions` looks inside the step that deletes a sample in `Lineage`.

## 3 The modules

Each action is a whole handler, or, where requests overlap, the part of a handler between two
points at which other requests can interfere. The comment before an action names the code;
`map` in `PROJECT.json` gives its lines.

**KeyLock** is abstract: `Enter`, `Exit`, `Wipe`, over the holders of each key and the set of
keys that are `broken`, i.e. in the aftermath of a wipe that hit a holder.

**CacheLock**: `present` are the lock items in the cache, `pc`, `want` and `cycles` the request's
place in `cache_key_locked`. `AddSucceeds`/`AddFails` are the polling loop, `Clear` and
`AddAfterClear`/`AssertionFails` what follows when patience has ended, `Leave` the `finally`
clause, `Crash` the death of a worker in the context (elsewhere it leaves nothing behind).
Sleeping is abstract: one polling cycle is a step.

**SheetCache**: one process and one sample stand for the two cached levels; `db` is the committed
version of each, `row` the row lock of an uncommitted update, `item` and `list` the cache. A view
walks through `looking` (data sheet), `digesting` (process context), the lock, the key list, the
item, and `serving`; a save through `Purge`, `DropList`, `UpdateRow`, for the process and then for
its sample, and `Commit` or `Rollback` (an exception at any moment; nothing relies on it). `Content` carries the versions something was made of and
the history bit `risky`: made by a view that overlapped a save, or of something risky.
`tainted` are objects whose key list may have lost a key by a wipe.

**Saves** is about what saves wait for. `WalkOf` is the order of the rows that one call of `save()` visits,
from the code of `Sample.save` and `Process.save`: down through the splits to the pieces, up to the ancestors, the
details of users and the series on the way. For each row with a key list, a request enters the lock (`Acquire`) and
leaves it (`Leave`); then it updates the row (`UpdateRow`), which stays locked until it commits. `Abort` is the database, which
resolves a circle of transactions that wait for rows of each other, and knows nothing of locks in the cache. `Fail` is any other
exception. What is purged and read is left to `SheetCache`; there, one process and its sample are saved in one order.

**Lineage**: one action per successful request, each one tick of the clock, except that deletions
and merges go on step by step, while no other request changes anything. The mutually recursive
`delete()` methods are a `stack` of calls, each with the objects its loop has still to visit (`todo`):
`VisitProcess` and `VisitPiece` are the loops of a sample and of a split, `Return` what follows them.
`dry` tells the dry run from the real one, which begins when the former has come to its end without
a refusal (`EndDryRun`); `before` is history, the samples of each process when the request began.
`MergeProcess` is one turn of the loop of `merge_samples`, with its walk up the splits.
Names and permissions are left out; a request without the permission changes nothing.

**Invalidation**: `Display` and `Context` define what the rendering code shows, independently of
the walk `SaveSamples` etc. that says what is purged (`saved`). Requests come one after the
other, because their overlap is the subject of `SheetCache`. Deleting a sample *with* history
is left to `Lineage`.

**Tasks**: `Open` is the edit view up to the validated form (`desk` holds what the request has
read and will write), `Save` the rest; they are separate because other requests come between.
`fixed_fields`, `Offered`, `Cleaned` are the form. A row that vanished is inserted again by
Django's `save()`, so `Save` does so.

**Handover**: the same for edits (`EditSample`, `EditMySamples`, `SaveEdit`) and decisions
(`Decide`, `ReadClaimed`, `SaveDecision`). `given` is a history variable: what has ever been on a
My Samples list.

**Newsfeed**: a request changes the database and leaves the calls it will make in `pending`;
`Report` is the body of such a call and of `__connect_with_users`. Between two reports, users may
change their lists. `request` is history: whom the request concerns, from which the properties
say who must hear, without looking at the calls. Topic edits change the members only;
managers and confidentiality stay as they are.

**Deletions**: what overlaps when two samples of a process are deleted: reading the processes,
counting their samples, deleting and committing are steps of their own, and edits of the process
come in between. `mixed` is history: processes whose samples have changed too late for somebody.

**Names**: a view reads, checks and leaves a plan of rows to write; `Save` executes it, as
a `UNIQUE` index makes a second inserter wait and fail. A name is a sequence, so that prefixes are prefixes.
The `add` view means to choose new names after an `IntegrityError` (`institute/views/samples/sample.py:201`), but it catches
the error inside the transaction of the request, which Django has marked as broken: the rollback to the savepoint raises a
`TransactionManagementError`. So the request fails with the first rival (`Fail`), like all others.

**Permissions** holds the predicates of `samples/permissions.py`, one operator each; **Accounts**
extends it with the requests that change what they look at. A data sheet collects its processes through all
ancestors (`HappenedTo`); a clearance has a walk of its own (`Reached`, with the time limits `Cutoffs`). `Write` locks the rows of topics and
decides about the permission of managers, `Commit` makes it visible.

**Steps**, **ProcessForms**, **ResultForm**, **Operators**, **Search**: `get` opens a page, `post`
sends it with whatever the user has changed, and the answer is a new page or the end. Contents of
fields are members of small sets, one of which does not validate. In `Operators`, pages of ordinary users have no selection
boxes for the operator and the external operator, but the server accepts what is sent in them (`Sent`; `forms.py:181-183` only empties
the choices of the widget). In `Search`, others save and delete objects (`stored`); a page with results posts to the address it
was got from, i.e. with its old query string (`query`), and the search runs again before the table is made.

**Images**: an edit goes through `Begin`, `SaveRow`, `Unlink`, `Open`, two `Write`s and `Commit`, or dies
(`Abort`); viewers export, convert and store. **Browser**: a request reads timestamps (`Begin`) and
changes one thing (`Commit`); `Ask` is a conditional request of the browser, `Render` the answer if
the ETag does not fit.

**Remote**, **Crawler**, **PidLock**: the network may lose a request or its answer, and the server may
go on with what nobody waits for (`ServeOrphan`); the lab writes files while a crawl goes on; runs are
killed. **Numbers**, **Kicker**, **SampleList**, **Folding**, **SearchModels**, **Tables**, **Harvest**
follow the functions they are named after. In `Kicker`, each player has a number, gets one from an estimate, or has none, and a match
changes numbers only if all four have one; an estimate skips the matches of players without numbers, and includes
the match that is being saved (`views.py:86-107`). In `Harvest`, an ordinary answer has a date from before its query (`create_response_tree`),
but an error has one from after it (`respond_error`, as `PmhError.response` makes a new response).

Some properties have an exception, named by a history variable: `raced`, `overlapped`, `mixed`,
`rivals`, `robbed`, `doubtful` and the like. It is set by the very step that does the harm, not by
overlap as such where that can be told apart (`emptied`, `overlooked`); section 5 names the harm.

The `MC...` modules give the constants structured values; everything else is in the `.cfg` files.
`MCRequests` and `MCParts` are compositions: they contain an instance of each of several components,
which share nothing, and explore one component in each behaviour. **Parts** and **Requests** hold the
instances and the properties of those among them that are proved; `MCParts` and `MCRequests` extend them. So a run stands for one kind of
question, and not for a module. Their properties have the names, comments and definitions of the
modules, restricted to the part (`part = "Steps" => StepsPart!StepsFollowThePage`). A component that
is run in this way has one property, which is the conjunction of all that its module says in named
parts; each part has a comment of its own. If one of the parts is about steps, the others stand in
front of it as what holds after every step (`StoredOnce' /\ PagesMeanTheirDeposition' /\ FreeNumbers`).
Definitions whose comment begins with "Mutant" change one definition the way a plausible slip in
the code would; they are used by nothing, and each property has one that violates it.

## 4 What the runs show

| run | instance | what it shows |
|---|---|---|
| `CacheLock_waiting` | 3 workers, 2 keys, 2 polling cycles (48 000 states) | exclusion outside the aftermath of a wipe; locks are where they should be; implements `KeyLock`; nobody waits for ever, not even behind a dead holder |
| `SheetCache_mishap` | 2 readers with different hashes, 1 writer, 1 commit, 1 wipe or dead worker, up to the exchange of the readers with their hashes (840 000) | items stay registered; items and responses that no save overlapped are current; the locks are used as `KeyLock` says |
| `Saves_progress` | 3 requests of one call each, a mother with 2 pieces, a deposition that the pieces share, a user and a series (150 000) | every save ends, although walks meet in opposite directions: only rows are waited for in circles |
| `SheetCache_outdated` | 1 reader, 1 writer | **violated** (finding 1) |
| `Lineage_requests` | 2 samples at first, 4 at most, 3 processes of 3 classes, 4 requests (708 000) | lineage, announcements and history through splits, deaths, merges and deletions |
| `Lineage_assertion` | 1 sample at first, 4 processes, 4 requests | **violated** (finding 2) |
| `Invalidation_orderly` | 3 generations of samples, 3 processes, 4 requests | every changed context is purged, and every changed data sheet of a sample whose splits are in the order of the generations |
| `Invalidation_obsolete` | 4 samples, 4 processes, 4 requests | **violated** (finding 3) |
| `Handover_claims` | 3 users, 2 topics (1 confidential), 1 sample, 1 claim, 3 requests that may all overlap | whoever is responsible, and the auto-adders of the topic, have got the sample; claims are decided once |
| `Newsfeed_bulk` | 3 users, 2 samples of different topics, a series | **violated** (finding 4) |
| `Requests` | Names, Accounts, Tasks, Newsfeed (637 000 states in all) | users whose requests overlap; see below |
| `Parts` | 18 components that work on their own (502 000 states in all) | forms, caches, programs; see below |

**`Requests`.** *Names*: 2 users, 3 requests, up to 5 samples, gaps before, between and behind
the occupied numbers. `NamesLeadHome`: the first free block is taken (`FitsFirst`), who adds samples is only refused for numbers
that rivals have taken since the request began (`RefusedByRivals`), names lead home and nowhere else
(`KeptNamesLeadHome`, `FoundByItsOwnNames`), aliases are hidden by given numbers or races only
(`HiddenByChance`).
*Accounts*: 3 users, 2 topics, a wafer with a piece, processes of each kind, 3 requests, 2 at a time, one
of three choices in each form for permissions. `PermissionsFitTopics`: managers have their permission (`ManagersMayEditTopics`, `NoManagersWithoutTopic`), sub-topics follow
(`SubtopicsFollow`), auto-adders who are not locked out are members (`AddersAreMembers`), confidential topics stay editable,
editors of permissions have all of them, editing implies viewing, a clearance, whose walk through the splits is not that of the data sheet, hands on no more than the
data sheet shows. *Tasks*: 3 users, 2 of them operators, 1 task, 2 samples, 3 edits, 2 at a time.
`OperatorsKeepTheirTasks`: who connects processes, who operates a task, who has its samples. *Newsfeed*: 3 users, 2 samples of different
topics, a series, 2 requests. `EverybodyHearsOnce`: whom the request concerns, whether they subscribe or
not to news of other kinds, and nobody twice.

**`Parts`.** One instance per component; its properties state what could go wrong in it (the comments in
`MCParts` say so in a sentence each): *Deletions* 3 samples, 1 process, 2 requests; *Steps* a user and a
remote client, up to 4 steps, 2 changes at once; *ResultForm* tables up to 2 by 2 with empty and filled cells, 4 requests;
*Images* 2 editors, a viewer, 2 edits, one of which may die; *Browser* 2 overlapping changes; *PidLock*
3 runs, one of which may be killed; *Crawler* a file that is written up to twice, and a second one; *Remote* 2 programs, one of
which shares its only sample with the other, 2 attempts per request; the connection of one of them breaks while the server works; *Tables* all trees of one or two rows with up to two results from small sets of
names and keys; *Kicker* 2 browsers, 2 players with numbers and 3 without, 2 former matches and 2 new ones, 3 requests; *SampleList* 3 topics in two shapes,
2 series, 3 samples; *Folding* 2 samples with 2 processes, one of them in common, 2 requests; *Operators* 2 users and a superuser, of whom one user and the superuser edit the process, the other user the external operator;
*ProcessForms* 2 samples, 2 subprocesses; *Search* 9 objects of 3 models, one of which others save and delete at any time, 3 changes of the forms; *SearchModels* 2 threads,
3 models; *Numbers* 2 years with up to 3 numbers, and a gap at first; *Harvest* 2 classes, 2 processes, 4 instants in seconds of two.

**Why these bounds are enough.** The lock needs a holder, a waiter, and a third that profits from
the wipe; a second key, because a wipe hits keys nobody is impatient about; two cycles, so that
"not yet impatient" and "impatient" differ at least once. The cache needs two hashes, because a
lost entry of a key list is one of another user, and one commit, because staleness means that a
commit was missed. Lineage needs a split, a re-split or a death, and a deletion or a merge on
top; two founders, because only samples without origin merge. Invalidation needs three
generations, because the walk up and the walk down each take two steps. Overlap is a matter of
pairs in `Tasks` (two at a time); `Handover` has three at a time, as a stale row can be written
over a decision that was itself begun stale. `Hour` (2 ticks) lies inside the bound of the
clock, so that processes both can and cannot be deleted. The bounds are named in the modules:
`MaxSaves`, `MaxMishaps`, `MaxSamples`, `MaxProcs`, `MaxTime`, `MaxTasks`, `MaxOpen`, `MaxEdits`,
`MaxClaims`, `MaxRequests`, `Ticked`, and their like in the
smaller modules. There, two of everything that can be in each other's way suffice, and three where
somebody profits from what two others do: the third run of a crawler. `CHECK_DEADLOCK FALSE` stands where they let the system stop, or, in
`SheetCache_mishap`, where the lock of a dead worker can no longer be wiped because the bound
`MaxMishaps` is used up.

**Symmetry** is used where nothing distinguishes the values: in
`SheetCache_mishap`, the two readers together with their hashes (`HashOf` is kept by the exchange).
The runs with liveness properties have none.

**Fairness.** Only two runs need it. `CacheLock`: weak fairness of each worker's polling
(`Acquire`), because the loop has no blocking call and `time.sleep` returns; nothing at all is
assumed of those who are in a context, who may stay there for ever. `Saves`, `FairSpec`: weak fairness of each request's
steps `Acquire`, `Leave`, `UpdateRow` and `Commit`, because worker and database go on; a lock or row must therefore be free *for good* in order
to be got for certain, and is so in the end because there are finitely many requests. Besides, `Abort`: PostgreSQL looks for deadlocks after
`deadlock_timeout` and ends one of the transactions. Nothing is assumed of `Fail`, so no wait ends because something else goes wrong. The view between two calls of `save()`
may do what it likes, but does not wait. That patience with a lock in the cache ends is left out in `Saves`: `CacheLock` shows that the
waiter gets in or fails all the same.

## 5 Findings

1. `SheetCache_outdated`: `Sample.save` purges (`common.py:805`) before the row is written and
   long before the commit; a view in between renders the old row and caches it after the purge.
   `signals.py:62` says "the server must never serve outdated data to the user". The item stays
   until the next save. `CurrentUnlessOverlapped` states what remains true, of the cache and of
   responses.
2. `Lineage_assertion`: a split by the name of the parent (`split_and_rename.py:334`) does not ask
   whether the sample is dead; a complete split then makes a second death, which `forms.py:753`
   asserts to be impossible. Every later process form with this sample fails.
3. `Invalidation_obsolete`: on its way down, `Sample.save` (`common.py:817`) follows only splits
   that are later than the split it comes from. A re-split moves the older split to the present,
   and the pieces of its pieces are no longer reached. `signals.py:63` says that "every change in
   the database triggers deletion of those cache items which have become obsolete".
   `OrderlySheetsInvalidated` states the condition under which that is so.
4. `Newsfeed_bulk`: the loop at `my_samples.py:224` rebinds `samples`, so that after it only the
   last group of moved samples is reported. `feed.py:348` promises that all who have the sample
   on their list are informed.

Met while reading, without a run of their own:
* `jb_common/utils/base.py:679`: "In all cases, key is hold"; lines 693-695 can end in an
  assertion instead, without it. `ExclusiveUnlessWiped` and `AssertionFails` show the aftermath.
* `common.py:1044` deletes processes the dry run has not announced, because pieces deleted before
  have left them; hence `SurvivorsKeepTheirHistory` speaks of the survivors, and
  `AnnouncedAreGone` of one direction only.
* A sample that was dead when it was split by name (finding 2) may get measurements after its death:
  merging into a piece hands processes over to the parent as soon as they are earlier than the split.
  Hence the exception in `MeasuredAlive`, which is about steps, as such a measurement stays.
* `common.py:1050`: a process that includes a sample and its piece and is older than their split
  is left without any sample (`OrphansPredateASplit`). So is the shared process of two samples
  that are deleted at the same time by two users; and if one deletion is sent twice, the second
  request may find one sample in a process, which is not the one it deletes, and take the process
  from it (`Deletions`, `mixed`).
* `forms.py:895` and `:248`: the samples form of a finished deposition is unbound and so never
  valid; the check that the samples are alive is skipped when its timestamp is edited.
* `claim.py:185`: a reviewer who ticks nothing meets an `AttributeError`, because
  `withdraw_form` is `None`.
* `sample.py:100`, `sample_series.py:322`: the form is compared with an instance that the form's
  own `is_valid()` has already changed. So "important" is never enforced, and a new responsible
  person or topic of a series is never reported; `Newsfeed` models what the code does.
* `feed.py:183` restores the set it has just extended (`NewSeries`).
* `permissions.py:360`: `NoDepartment()` is `None`. In the modules, departments exist.
* `forms.py:278`: an unfinished deposition cannot be saved twice with its own number.
* `institute/views/samples/claim.py`: the old-style claim view stops with an exception before it
  changes anything, because the local list `sample_names` hides the module.
* **Names.** The retry of `add` with new numbers after an `IntegrityError` cannot take place, as section 3 says: the
  first rival makes the request fail (`institute/views/samples/sample.py:201-212`). `json_client.add_alias` calls a `create` that models do not have. The search for provisional
  numbers does not look at aliases (`common.py:1062`). `split_after_deposition` doesn't ask whose
  initials a new name contains. `jb_remote_inm.rename_after_deposition` sends one name for all samples.
* **Authentication.** Users who are locked out lose their topics, but remain auto-adders of them (`auth.py:326`). `auth.py:205`: if no directory server answers, `get_ad_data` returns `None`, which
  locks the user out like one who has left. `auth.py:322` compares a string with a number, so that
  sessions of users without permissions remain.
* **Topics.** Auto-adders of sub-topics outlive their membership (`topic.py:248`, in contrast to
  `jb_common/models.py:205`). Two requests that hand over the last topics of a manager at the same time
  both see the other topic, so that she keeps her permission (`topic.py:237`).
* **Permissions.** Whoever adds processes may edit an unfinished one that she may not view; the permission
  to change all processes does not include viewing them; `can_add_result_process` lets anyone add results
  to samples without topic. `sample.py:480` hides cleared results from those they were cleared for.
* **Forms.** `forms.py:221` reports an error on a field that does not exist. Remote clients that send other
  samples for a finished deposition, or none, falsify its positions; merging leaves the position of the
  old sample; a page with a sample that has been merged away meanwhile ends in `DoesNotExist`. Two users
  who edit the same process overwrite each other's steps. Several movements in one request may be in each
  other's way (`MovesDoneOrTicked`). My Steps refer to steps by their numbers; a deposition that was
  deleted makes the page fail (`my_layers.py:86`).
* **External operators.** `common.py:136` saves every process of an external operator as a whole row,
  which reverts edits made meanwhile (`TakesNothingBack` says when not). The docstring of the form (`forms.py:74`) reserves the fields for the
  operators to superusers, but `clean` (207-231) accepts them from everybody; so whoever is named there counts as named.
* **Results.** A refused image leaves a result without samples, and the next attempt makes a second one
  (`result.py:474`, `ResultsHaveHomes`). The old image is unlinked before the transaction is committed
  (`result.py:78`). `backends.py:313` truncates an existing blob when it is opened for reading.
* **What browsers keep.** The ETag is the maximum of timestamps, so that a request which is committed late
  stays hidden behind a later timestamp. Whole rows of user details take timestamps back. The same
  holds for folded processes: overlapping requests lose one of two choices.
* **Menus.** In topics that are nested three deep, `append_topic_to_ancestors` returns the direct parent
  only, so that sub-topics appear on the top level or twice; `AllListed` demands no more than that each
  sample is there, and once if the topics are flatter.
* **Numbers.** If the last deposition of a year is deleted, its number is given again, and an open page for
  the former edits the latter. A program whose number was asked for in the year before is refused for ever.
* **Kicker.** `get_old_stock_value` returns an object instead of its value, so that a second stock value
  fails (`kicker/views.py:117`); the handler of `KeyError` uses a name that is not bound; the first number
  of a newcomer is estimated from matches that include the one just saved, which is then added as well and so counts twice
  (`TwiceOnlyAtFirst` says that no other match does); overlapping edits can count a
  match twice.
* **Crawlers.** `_crawl_all` changes `status[0]` of the old status in place (`crawler_tools.py:286`). If the
  file then cannot be imported, but the diff file is written because of another one, the file is never
  offered again, though the docstring (353-362) says that only checked-off files are. A crash before the
  diff file is written imports files again; the diff file is not written atomically.
* **Lock files.** Two first runs that both create the file, or a run that opened it before its predecessor
  removed it, may run at the same time; the blocking `flock` ignores the timeout.
* **Repeated requests.** The remote client sends POST requests again, so that results are stored twice or
  samples remain on My Samples if an answer is lost; two programs of one account may rob each other of
  their samples (`robbed`).
* **Tables.** `base.py:566` drops empty cells in JSON; titles like "R #2" collide with those that are made
  unique; quantities named like fields hide values (`IsAmbiguous`); `median` uses fractions as indices.
* **Search.** Choosing "Process" as a related model ends in `NotImplementedError`, as the comment at
  `common.py:1026` suspects. Clearing the first of two child forms drops the second. Processes found
  through samples are not restricted to those the user may see. If two threads have found
  the set of searchable models unset, the second one may replace it by an empty set when the first has already added to it
  (`search.py:454`, `emptied`); the first then freezes a set that lacks models until the server is restarted. The table is made of a new search,
  so that it may contain rows which were saved after the page had been shown (`sample.py:961`, `FromResults`); and a page with results posts to its old
  query string, whatever has been changed in its forms.
* **OAI-PMH.** The set of all processes is withheld as soon as one class has no record in the interval
  (`views.py:312`); the bound for an empty database is no date; processes that are entered with an
  earlier timestamp never reach a harvester (`late`). An answer `noRecordsMatch` is dated after the fruitless query (`views.py:163`), so
  that what was saved in between is missed if a second has begun since (`overlooked`).

## 6 What is proved

| theorem | of | for every |
|---|---|---|
| `CacheLock_proofs!TypeCorrect` | `TypeOK` | number of workers and keys, every patience |
| `CacheLock_proofs!Safety` | `ExclusiveUnlessWiped` | " |
| `CacheLock_proofs!LockIsHeld` | `HeldUnlessWiped` | " |
| `CacheLock_proofs!Refinement` | `ImplementsKeyLock` | " |
| `SheetCache_proofs!TypeCorrect` | `TypeOK` | number of requests, layout hashes, saves, wipes and dead workers |
| `SheetCache_proofs!RegisteredAlways` | `Registered` | " |
| `SheetCache_proofs!CurrentAlways` | `CurrentUnlessOverlapped` | " |
| `SheetCache_proofs!Refinement` | `ImplementsKeyLock` | " |
| `Lineage_proofs!LineageIsIntact` | `LineageIntact` | number of samples, processes and requests |
| `Lineage_proofs!AnnouncedGone` | `AnnouncedAreGone` | " |
| `Lineage_proofs!SurvivorsKeep` | `SurvivorsKeepTheirHistory` | " |
| `Lineage_proofs!MergesKeep` | `MergesKeepProcesses` | " |
| `Lineage_proofs!OnlyTheLivingAreMeasured` | `MeasuredAlive` | " |
| `Lineage_proofs!OrphansHadASplit` | `OrphansPredateASplit` | " |
| `Parts_proofs!OthersKeepTheirProcesses` | `DeletionsKeepTheRest` | number of samples, processes and requests |
| `Invalidation_proofs!OrderlySheetsAreInvalidated` | `OrderlySheetsInvalidated` | number of samples, generations, processes and requests |
| `Handover_proofs!TypeCorrect` | `TypeOK` | number of users, samples, topics, claims, overlapping requests |
| `Handover_proofs!ResponsiblePersonsGotIt` | `ResponsibleGotIt` | " |
| `Handover_proofs!AutoAddersOfTheTopicGotIt` | `AutoAddersGotIt` | " |
| `Handover_proofs!DecidedOnce` | `DecidedOnceUnlessContested` | " |
| `Requests_proofs!OperatorsKeepTasks` | `OperatorsKeepTheirTasks` | number of users, tasks, samples and overlapping requests |
| `Requests_proofs!NewsReachEverybody` | `EverybodyHearsOnce` | number of users, samples, topics and requests |
| `Images_proofs!ImagesStayFit` | `ImagesFit` | number of editors, viewers, types, edits and dead requests |
| `Parts_proofs!ToldTheTruth` | `SubmittedAsReported` | number of programs, samples, attempts and forgotten requests |
| `Parts_proofs!KeptStaysFresh` | `KeptIsFresh` | number of users, overlapping requests and changes |
| `Parts_proofs!RunsAreApart` | `LockKeepsApart` | number of runs and of those killed |
| `Parts_proofs!ModelsAreComplete` | `FoundAreComplete` | number of threads, every set of models |
| `Parts_proofs!FoldedByHandOrDefault` | `ChoicesSurvive` | number of processes and browser tabs |
| `Parts_proofs!OperatorsAreNamed` | `OperatorsAreKnown` | number of users |
| `Parts_proofs!HarvestersMissNothing` | `NothingMissed` | number of classes, processes and instants |
| `Parts_proofs!NumbersNameOne` | `NumbersNameOneDeposition` | number of users, programs, years and depositions |
| `Parts_proofs!TextsOnce` | `EveryTextImportedOnce` | number of files, texts, modifications and crashes |
| `Parts_proofs!SavedAsSeen` | `TablesAsSeen` | number of users, results and posted pages, every size of tables |
| `Parts_proofs!CountedOnce` | `MatchesCountOnce` | number of browsers, reporters, players, matches and requests |
| `Parts_proofs!FormsAsShown` | `ProcessAsShown` | number of users, samples, subprocesses, merged samples and requests |
| `Requests_proofs!PermissionsAlwaysFitTopics` | `PermissionsFitTopics` | number of users, topics, samples, processes and overlapping requests |
| `Requests_proofs!NamesFollowSamples` | `NamesLeadHome` | number of users, samples and overlapping requests, all formats and initials |

The assumptions are those the modules name: `CyclesAssumption` (at least one polling cycle),
`SheetCacheAssumption` (a request views or saves; each viewer has one layout hash), `LineageAssumption`
(the bounds are numbers), `HandoverAssumption` (topics and claims refer to users; `Nobody` is neither),
and `PidLockAssumption`, `SearchModelsAssumption`, `OperatorsAssumption`, `DeletionsAssumption`,
`TasksAssumption`, `NewsfeedAssumption` (which also says that there are finitely many users and topics, because
a request lists them for its calls), `RemoteAssumption`, `ImagesAssumption`, `BrowserAssumption`, `HarvestAssumption`, `NumbersAssumption`, `CrawlerAssumption`,
`ResultFormAssumption` (the keys of results are numbers, and a cell may be empty), `ProcessFormsAssumption`
(`None` is neither a process nor a page nor valid content), `KickerAssumption` (former matches are finished), which say
of the same kind of thing what the respective module needs. `AccountsAssumption` says more, because `Accounts`
starts with a database that is in use: the first topics are as the pages would have made them (the manager is a
member and may edit topics, sub-topics agree with the upper ones, who may edit permissions has all of them), the
directory manages none of the permissions that pages hand out, the form for permissions offers only those for
processes, every result has a sample or a series, and every split has a parent and a time. `NamesAssumption` says the same of the first names, which
look like names and are unique; there are finitely many stems, none of them is the asterisk, cleaning numbers are
among them, and nothing may be renamed to a name of no format. The latter are definitions, because their modules are instances; they stand
in front of the theorems, and in an `ASSUME` of `MCParts` and `MCRequests`. So TLC evaluates all
of them. The type invariants of `CacheLock` and `Handover` are proved and not checked by a run; those
of the other modules are parts of a property of theirs.

**The lock.** Exclusion alone is not inductive: that nobody else is in a context must be visible
in the cache. `Exclusion` adds `HeldUnlessWiped`, which says that the item of an occupied,
unbroken key is present, so that `cache.add` fails; and `BrokenIsHeld`, which says that a broken
key has somebody in its context, so that the aftermath ends. Each action keeps the conjunction;
`Leave` and `Crash` use that `StillBroken` drops a key with its last holder. For the refinement,
entering a free, unbroken key needs `HeldUnlessWiped` again, and polling, sleeping and failing are
stutters.

**The data sheet cache.** The one process and the one sample are the model's; the rest is arbitrary.
`StepKinds` classifies every step by what it does to the contexts: it stays, enters, leaves or wipes.
From that alone follow `Exclusion`, the same invariant as for the lock, and the refinement. That items
are registered is not inductive: `Relied` adds what a request in its context relies on between
two cache operations. The key list it has read is still the key list, the item it is about to store is
registered, and after a purge nothing is cached. Others cannot disturb this, because they are in the
contexts of other objects (`Alone`), unless a wipe has tainted the object. That items are current rests
on it: `Coherence` adds that what is in the cache after a purge was put there by a view that the save
overlapped (`PurgedIsRisky`), that whoever views during a save is known to do so (`OverlapsAreRisky`), and
that a view which none has overlapped has in hand what is committed (`HandsAreCurrent`). So `Commit`
finds no item of an old version that is not `risky`.

**Lineage.** Each request is proved to leave a whole lineage, although deletions go on step by step.
`LineageInv` says of the time between requests that nothing announced exists (`Resting`), of a merge that
the processes it has been through have another sample (`Merging`), and of a deletion (`Deleting`) that
its stack goes from samples to processes without other samples, and from splits to their pieces, each
object at most once (`Nested`); that others leave no process (`Kept`); and that what depends on an
object goes first (`Remaining`). The dry run announces only what depends on the object (`OnlyDependent`,
which quantifies over all closed sets of objects instead of using a transitive closure) and all of it
(`AllDependent`). Then nothing is deleted unannounced, except for processes that lost their other samples
earlier in the same deletion (`Explained`, `Warned`). For `MeasuredAlive`, `AliveInv` adds that processes do
not lie in the future (`Past`), and that a merge hands processes over only to a sample that was alive then
(`Handover`). For `OrphansPredateASplit`, `PastIsShared` says of the loop of a sample that what it has left
behind is earlier than what it deletes, and has another sample or had one that was deleted since (`InOrder`);
and that the latter is a piece, or a piece of a piece, of a split that is later than the process (`Lineal`).
`DescendsAfter` quantifies over all closed sets of samples, so that it needs no recursion.

**Overlapping deletions.** `KnowsTheRest` says what a request that has counted the samples of a process
knows: unless the process is `mixed`, there still is the other sample for which it passed it by, or no
other for which it deletes it.

**Responsibility.** `ResponsibleGotIt` is not inductive, because a request that read its row long
ago may write it back. `Inv` adds that what is *read* is known, too: every row in the hands of
a request names a person and auto-adders who have got the sample (`ReadsKnown`), and claimed
samples have been on the list of the requester (`ClaimsKnown`). Then `SaveEdit` is harmless,
because a new person or topic is handed over and an unchanged one is known from the row that was
read; and `SaveDecision`, because the requester is known from the claim and the rest from the row.
`DecisionsSound` links a decision in progress to the number of decisions made. Since lists that
have been given only grow (`given`), what is known stays known.

**Invalidation** walks the lineage, up and down, with recursive functions, and what is displayed is recursive as well. There is no
induction in these proofs, but natural numbers have a least one (`LeastExists`), which gives two things: a recursive definition in
which values depend on those of lower rank only defines a function (`RecursionWorks`), so that it can be unfolded
(`AncestryIs`, `ShownIs`, `SaveDownIs`, `SaveSampleIs`); and what holds for a sample if it holds for all older ones holds for all samples (`Ascent`).
The invariant is that the lineage is a forest: a piece is younger than its parent, and comes from a split whose only member is the parent
(`PiecesHaveParents`, `SplitsHaveTheirParent`). `DescendantsReached` is the heart: if the splits above a sample are in the order of the generations,
the walk that starts at any ancestor comes by, because on its way down the time it compares with is that of the split above.
What remains is one lemma per request. Whatever it changes on a data sheet, it changes at a sample in the ancestry that it saves, or
whose pieces it saves: for most with the lineage of before (`TouchedAreSaved`), for splits with the new one (`TouchedAreSavedThen`). The latter matters for
a re-split, which changes the order of the splits, and after which just the orderly samples are found.

**Tasks** have the same difficulty and the same remedy: every row, in the database or on a desk, names an
operator who once got the samples (`Recalls`), and what a request will write is what its user could make
of the row that was read (`Allowed`).

**News.** `NewsReachEverybody` is about what has been said when all calls of a request are made, and most of it
is still to be said in between. So the invariant `NewsInv` says of each part of the property that what is not
told yet is told by a call still to come: `PersonsWait`, `MembersWait`, `WatchersWait`. `Planned` says the same
of the calls a request plans in its beginning, and each request is proved to plan them (`EditSampleTells` and
its likes; the bulk edit of My Samples plans calls for each pair of topics and each recipient). The step that
makes a call is where the class `Reporter` matters: whoever is struck off by their subscription must not count
as informed. `Reporters` is what makes it inductive: a `Reporter` that goes on knows whom it has informed, and
those it has not, it will inform; a new one knows nobody, so that what it says may be heard by those who heard
another.

**Permissions.** `PermissionsFitTopics` is about the database, but requests read it in one transaction step and write
it in another, and their decisions are made in between. So `AccountsInv` has two halves. `RulesOK` is what
the database is always like: the parts of the property, and the two facts they rest on, that sub-topics agree
with the upper ones in manager and confidentiality (`SubtopicsAgree`) and that the manager of an upper topic is a member of it
(`ManagersAreMembers`). `DesksFit` says that what each request is going to write still fits the database as it is *now*,
as far as the request has not overlapped with another one about the same user or topic (`PlanFits`, with one case for each
kind of request). The heart is the edit of a topic (`EditPlan`): all rows it has collected had the old manager
(`EditRows`), every sub-topic is among them (`EditFamily`), and the permission is taken away from the old manager
exactly if no topic outside these rows has them (`EditRights`); then the old manager loses it with the last topic, and not
earlier. Sub-topics are collected recursively in the code; the proof uses that the set is closed under sub-topics
and the least such set, which quantifies over closed sets and needs no induction over the tree. The second kind of step,
that *another* request is committed while this one has its plan, keeps `PlanFits` because it touches other users and topics;
if it does not, both become `overlapped`. The clearance is compared with the data sheet by `WalkGoesUpwards`: the walk of the clearance is the least set
that is closed under its step, so that it stays among the ancestors of the sample and the times of their splits, which are such a set, without induction.

**Names.** `NamesLeadHome` speaks of each step, and all it needs is in `NameInv`. Half of it is about what the database
remembers (`Remembered`): every sample has once borne its name and its aliases, and what was to be kept is an alias, unless it
was dropped, or the sample `torn`. The other half (`PlanSound`) is about what a request that has read and checked is still going to
write: it writes existing rows and each name once (`PlanTyped`); the names it read, and makes aliases of, are names the sample has had,
even if not those of today (`PlanKnown`); and each new name is free *or has become occupied since* (`PlanChecked`), which is what remains
of the check in the form when others come in between, and exactly what `HiddenByChance` allows. `PlanRivalled` says of a request for new samples that each sample which
has one of its names has been given it since the request began, because the block of numbers was free when it was chosen
(`BlockIsFree`); that gives `RefusedByRivals`. The search for a block needs no induction over the numbers: the first
gap starts at the smallest occupied number behind which there is room, and what precedes it has been too narrow
(`GapIsFirst`); that finite sets of numbers have a maximum is well-founded induction (`FiniteHasMaximum`).

**Images.** Row, file and cache are three stores without a common transaction, and the invariant has a
part for each pair. Every file has a time that no other had (`ClockRuns`), so that a thumbnail under the
present time of a file can only have been made from it, after its last change: `Visited` says so of cached
thumbnails and of those being made, chunk by chunk. Whoever writes has the file of the new type to
herself (`WritesFile`, from the lock of the row). `Fitting` relates row and files: they fit when nobody has
the lock, and still when its owner has touched no file; later, the only file is the new one,
provided that the row that was read is still the row. It is not so if somebody else saved in between,
or a request died with the file opened; then `spoiled` is set.

**Programs.** `ToldTheTruth` is about requests that are sent again, answered late or not at all. What the
server has stored for a program is what the program has counted (`Stored`), unless its connection
broke (`broken`) or another program took its sample away (`robbed`). My Samples is left as it was even then: a sample on it which the user
has not put there is held by one program only, the one that will take it away (`HeldByOne`, `Restored`).

**What browsers keep.** The proof has two halves. One goes through everything that a request can change and
shows that either nothing changes in what the page shows, or the time of the request becomes one of the
timestamps of this page (`Noticed`); so for the menu. The other is about time: no timestamp lies in the
future, and a request that nothing has overtaken is later than all timestamps and writes back what is there
(`StampsAreOld`). Hence ETags only grow, and what was kept under the ETag of today was kept since the last
change (`PageFits`, `MenuFits`). An answer under way counts like a page that is kept: it has an ETag which is
not newer than the content that will come with it.

**Smaller ones.** `PidOrder`: as long as nothing has `raced`, all have opened the file under the path, the
one who created it is the first to lock it, and who has locked it finds nobody's number. `SearchOrder`: as
long as no thread has `emptied` the set, it contains what each of the threads that fill it has looked at (`LookedAtAreIn`), however many they are;
so whoever freezes it, with nothing left to look at, freezes all models, and those who find it frozen find it complete. `FoldingOrder`: only one request is in between reading and writing, and has read what is
stored, unless requests `overlapped`. `OperatorInv`: the process and all that running requests are going to write
name operators that have been named, and a request about an external operator that nothing has overtaken holds the row as it is. `HarvestInv`: a process
before the time from which a harvester begins has appeared too late for it (`BeginsEarlyEnough`); a second begins not after its instants, so that
cutting off fractions makes intervals overlap and leaves no gap; and what a fruitless query should have found was withheld or has appeared
since (`GapIsKnown`), so that the late date of its answer costs only the `overlooked`. `NumberInv`: a page shows what its number stands for, or
its deposition is gone and there is a higher number, so that the number is not given again (`PagesShow`); what has been
given and is not `doubtful` is still free (`GivenAreFree`); what a program has made has the number it was given
(`MadeWithItsNumber`).

**Crawls.** The lab gives a file a time that no entry has (`NoLaterThanNow`), so that an entry which has the time of
the file also has its checksum (`Identifies`). What has to be shown is that this survives a crawl, which changes
times in place before it knows whether the import succeeds. `CrawlInv` follows the entry of a file: between crawls, it is about what was last imported
(`DiffNamesImported`); while files are handled, the old entry has kept its checksum although its time has changed (`SameSums`),
the new one fits the file and has another checksum, and who is checked off has imported just this (`Handling`). So `Finish`
makes each entry one that fits: the new one where the import succeeded, the old one elsewhere, and the mixture of new time
and old sum is what `spoilt` stands for. That nothing is imported twice follows from the different checksum.

**Tables of results.** `FormInv`: all tables are full, in the database and in pages, and none is half empty, that is, with
quantities but no rows (`IsTable`); the latter is what `DimensionsForm.clean` cares for, and without it the previous size that the page
sends back would not be that of its table (`PreviousSize`). Typing keeps the size, and `Table` has the size that was asked for (`TableIsSheet`),
so that a table whose structure has not changed has the size that was seen.

**Matches.** `DesksInOrder` says that a request is about a match of its own user, which still can be edited unless she was
`hasty`; it gives `OneOpenMatch` and makes the save harmless to the matches of others. `Orderly` describes the time without `rivals`:
a running request is the only one and has seen all there is (`HasSeenAll`), numbers of the same player have different times,
and a match with numbers has one batch of them and is finished, like the matches a first number was estimated from. So the numbers a match starts from contain all earlier ones
(`LatestContains`), and so do the ones it stores (`NumbersBuildOn`). A match that is added to an old number was unfinished until now, so that it cannot be in the estimate; only for a
newcomer is it part of both (`TwiceOnlyAtFirst`). Requests that fail, because the sum of stock values does, are
rolled back and keep all this.

**Forms.** What is saved is what is shown if the prefixes on a page count from 0 (`InPlace`): then the sorted prefixes are
those of the page (`IndicesCount`), and a posted page has the cells that were wanted (`FormsOfPage`). Sorting needs no
induction: an increasing sequence of all numbers below n has room for i - 1 of them below its i-th and n - i above it
(`CountsFromZero`). Samples of a deposition are not posted at all, so that `FieldsFit` says for each page, however old,
that its fields are those of the samples of the process, or that one of them does not exist any more.

**Only model-checked** are, first, what is out of the prover's reach: liveness (`NoEndlessWait`,
`SavesEnd`, whose module `Saves` also walks recursively); and `SearchAsShown`, whose module `Search` has a RECURSIVE operator,
because the code descends a tree of forms. Secondly, what sorts, selects from and concatenates
sequences of any length, which comes to the same induction: `StepsFollowThePage` (forms that are sorted and moved), and
`TablesAreComplete` and `ListsAreComplete` (topics in topics, with a RECURSIVE operator).
All other properties of the runs are proved, each with all of its parts.

## 7 Plan

What could be added to the proofs, in the order of what it would say:

1. **Steps**: that what is saved has the number of steps of the page, without their order.

A prover with induction over data would reach the rest of what section 6 calls only model-checked, but for
liveness.
