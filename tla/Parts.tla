------------------------------- MODULE Parts --------------------------------
(***************************************************************************)
(* Components that work on their own, side by side: the properties of the  *)
(* site as a whole, as far as they are proved.  Each component is an       *)
(* instance with variables of its own.                                     *)
(***************************************************************************)
CONSTANTS
  None,
  Runs, Invalid, MaxCrashes,                         (* PidLock *)
  Threads, Models, Abstract, Referring,              (* SearchModels *)
  Tabs, Class, Sheets,                               (* Folding *)
  Users, Superusers, Adders, Externals,              (* Operators *)
  Requests, AllSamples, Processes, Founded,          (* Deletions *)
  Clients, Ids, Own, MaxCycles, MaxOrphans,          (* Remote *)
  Editors, Viewers, Types, MaxEdits, MaxAborts,      (* Images *)
  Viewer, MaxChanges,                                (* Browser *)
  Kinds, TicksPerSecond, MaxTime, MaxProcesses,      (* Harvest *)
  Programs, FirstIndices, MaxIndex, MaxYear, MaxAdded,(* Numbers *)
  Files, Texts, MaxModified,                         (* Crawler *)
  Authors, Keys, Words, MaxSize, MaxPosts,           (* ResultForm *)
  Browsers, Reporters, LineUps, Shares, Veterans,    (* Kicker *)
  Former, Enough, MaxDays, MaxMatches, MaxRequests,
  Pieces, Selections, Fillings, MaxCells, Scripts, MaxRefused (* ProcessForms *)

VARIABLES
  path, content, flock, opened, pc, raced,                                 (* PidLock *)
  all_searchable_models, thread, todo, emptied,                            (* SearchModels *)
  default, exceptional, page, overlapped,                                  (* Folding *)
  contacts, process, form, named,                                          (* Operators *)
  samples, processes, contains, job, mixed,                                (* Deletions *)
  my_samples, results, phase, outcome, changed_sample_ids, cycles, wire,   (* Remote *)
  answer, orphans, broken, robbed,
  row, file, data, mtime, now, thumbs, desk, visit, edits, aborts, spoiled,(* Images *)
  contents, stamps, clock, pending, kept, asked, menu, outrun,             (* Browser *)
  instant, published, added, earliest, harvested, last, request, have,     (* Harvest *)
  late, withheld, overlooked,
  year, depositions, inserted, paper, program, doubtful, vacated,          (* Numbers *)
  measured, hour, cutoff, diff, walk, found, statuses, new_statuses, ahead,(* Crawler *)
  items, seen, unsure, spoilt,
  tables, sheet, refused, posted,                                          (* ResultForm *)
  matches, numbers, stock, play, requests, rivals, hasty,                  (* Kicker *)
  is_deposition, measurement, picked, merged, screen, again, blurred, sent (* ProcessForms *)

pid_vars == <<path, content, flock, opened, pc, raced>>
search_vars == <<all_searchable_models, thread, todo, emptied>>
folding_vars == <<default, exceptional, page, overlapped>>
operator_vars == <<contacts, process, form, named>>
deletion_vars == <<samples, processes, contains, job, mixed>>
remote_vars == <<my_samples, results, phase, outcome, changed_sample_ids, cycles, wire, answer, orphans, broken, robbed>>
image_vars == <<row, file, data, mtime, now, thumbs, desk, visit, edits, aborts, spoiled>>
browser_vars == <<contents, stamps, clock, pending, kept, asked, menu, outrun>>
harvest_vars == <<instant, published, added, earliest, harvested, last, request, have, late, withheld, overlooked>>
number_vars == <<year, depositions, inserted, paper, program, doubtful, vacated>>
crawler_vars == <<measured, hour, cutoff, diff, walk, found, statuses, new_statuses, ahead, items, seen, unsure, spoilt>>
form_vars == <<tables, sheet, refused, posted>>
kicker_vars == <<matches, numbers, stock, play, requests, rivals, hasty>>
process_vars == <<is_deposition, measurement, picked, merged, screen, again, blurred, sent>>

Pid == INSTANCE PidLock
Searched == INSTANCE SearchModels WITH pc <- thread
Folded == INSTANCE Folding WITH Requests <- Tabs, job <- page, raced <- overlapped
Operated == INSTANCE Operators WITH job <- form
Deleted == INSTANCE Deletions WITH Samples <- AllSamples
Submitted == INSTANCE Remote WITH Samples <- AllSamples
Uploaded == INSTANCE Images
Browsed == INSTANCE Browser WITH c <- contents, s <- stamps, now <- clock, overlapped <- outrun
Harvested == INSTANCE Harvest
  WITH Models <- Kinds, Ticks <- TicksPerSecond, now <- instant, processes <- published, first <- earliest, set <- harvested
Numbered == INSTANCE Numbers WITH Users <- Viewers, Founded <- FirstIndices, added <- inserted, page <- paper
Crawled == INSTANCE Crawler WITH MaxTime <- MaxModified, file <- measured, clock <- hour, pc <- walk, todo <- ahead
Tabled == INSTANCE ResultForm WITH Users <- Authors, Ids <- Keys, results <- tables
Kicked == INSTANCE Kicker WITH MaxTime <- MaxDays, job <- play
Formed == INSTANCE ProcessForms
  WITH Samples <- Pieces, Contents <- Fillings, Founded <- Selections, Clients <- Scripts, MaxPosts <- MaxRefused,
       process <- measurement, my_samples <- picked, gone <- merged, page <- screen, posts <- again
-----------------------------------------------------------------------------
(* Runs of a crawler are kept apart, and the lock file says which one is   *)
(* going on.                                                               *)
LockKeepsApart == Pid!LockKeepsApart

(* Whoever gets the searchable models gets all of them, although other     *)
(* threads come while the first one is still collecting them, and several  *)
(* may be the first, unless one of these has emptied what another had      *)
(* already added or frozen.                                                *)
FoundAreComplete == Searched!FoundAreComplete

(* Unless requests overlap, processes that the user has folded or unfolded *)
(* by hand do not change their state when she changes the defaults, and    *)
(* all others follow the defaults.                                         *)
ChoicesSurvive == [][Folded!ByHandOrDefault]_folding_vars

(* Operators have taken part or have been named, and a process stays as it *)
(* was edited when its external operator is, unless that overlaps.         *)
OperatorsAreKnown == Operated!OperatorsAreKnown

(* Deletions at the same time leave neither processes without samples      *)
(* behind nor take more with them than the samples that were meant.        *)
DeletionsKeepTheRest == [][Deleted!DeletionsKeepTheRest]_deletion_vars

(* Programs are told the truth about their results and leave My Samples as *)
(* they were.                                                              *)
SubmittedAsReported == Submitted!SubmittedAsReported

(* Row, image and thumbnail of a result fit to each other through          *)
(* overlapping requests and crashes.                                       *)
ImagesFit == Uploaded!ImagesFit

(* What browser and server keep for a user is used only while it is what   *)
(* she would get otherwise.                                                *)
KeptIsFresh == Browsed!KeptIsFresh

(* A harvester has all processes before the time it goes on from, except   *)
(* for late and withheld ones, and those overlooked by answers that are    *)
(* dated after their query.                                                *)
NothingMissed == Harvested!NothingMissed

(* A number stands for one deposition, on pages, in programs and in the    *)
(* database.                                                               *)
NumbersNameOneDeposition == [][Numbered!NumbersNameOneDeposition]_number_vars

(* Every text that a file has got is imported, and only once, through      *)
(* failures and crashes.                                                   *)
EveryTextImportedOnce == [][Crawled!EveryTextImportedOnce]_crawler_vars

(* Results keep what the user has seen: as full tables with different      *)
(* headings that belong to a sample or a series.                           *)
TablesAsSeen == [][Tabled!TablesAsSeen]_form_vars

(* Matches are reported one after the other, remain what they are, and go  *)
(* into the numbers in their order and once, save for the match that gives *)
(* a newcomer her first number.                                            *)
MatchesCountOnce == [][Kicked!MatchesCountOnce]_kicker_vars

(* A process is what its last editor had on her page, and its samples are  *)
(* fixed if it is a deposition.                                            *)
ProcessAsShown == [][Formed!ProcessAsShown]_process_vars
=============================================================================
