------------------------------- MODULE MCParts ------------------------------
(***************************************************************************)
(* Small instances of the components that work on their own: part says     *)
(* which of them is explored, and the variables x1 to x9 are those of the  *)
(* part, in the order of its own declaration.  The parts have nothing in   *)
(* common but this run.                                                    *)
(***************************************************************************)
EXTENDS Parts, Integers, Sequences

CONSTANTS Rubbish

VARIABLES part, x1, x2, x3, x4, x5, x6, x7, x8, x9

xs == <<x1, x2, x3, x4, x5, x6, x7, x8, x9>>

(* The variables from the n-th on, which a part does not use.              *)
None1 == x1 = None /\ x2 = None /\ x3 = None /\ x4 = None /\ x5 = None /\ x6 = None /\ x7 = None /\ x8 = None /\ x9 = None
None5 == x5 = None /\ x6 = None /\ x7 = None /\ x8 = None /\ x9 = None
None6 == x6 = None /\ x7 = None /\ x8 = None /\ x9 = None
Same5 == UNCHANGED <<x5, x6, x7, x8, x9>>
Same6 == UNCHANGED <<x6, x7, x8, x9>>
-----------------------------------------------------------------------------
(* The trees of data nodes of Tables: rows with up to two levels of        *)
(* results, the names and items of which agree or differ in parts.         *)
TreeItem(k, v, o) == [key |-> k, value |-> v, origin |-> o]
Roots == {<<<<"s">>, <<<<"k", "o">>>>>>, <<<<"t">>, <<<<"k", "o">>, <<"m", "q">>>>>>}
ItemKinds == {<<>>, <<<<"k", None>>>>, <<<<"k", "o">>, <<"l", None>>>>}
Kids == {<<"r">>, <<"r", "#2">>} \X ItemKinds
RowOf(r, nodes, deep) ==
  [i \in 1 .. Len(nodes) |->
     [parent |-> IF i = 1 THEN 0 ELSE IF i = Len(nodes) /\ deep THEN 2 ELSE 1,
      name |-> nodes[i][1],
      items |-> [j \in 1 .. Len(nodes[i][2]) |-> TreeItem(nodes[i][2][j][1], <<r, i, j>>, nodes[i][2][j][2])]]]
FlatRows(r, kids) == {RowOf(r, <<t>>, FALSE) : t \in Roots} \cup {RowOf(r, <<t, a>>, FALSE) : t \in Roots, a \in Kids}
                     \cup {RowOf(r, <<t, a, b>>, FALSE) : t \in Roots, a \in Kids, b \in kids}
DeepRows(r) == {RowOf(r, <<t, a, b>>, TRUE) : t \in Roots, a \in Kids, b \in Kids}
FirstRows == FlatRows(1, Kids) \cup DeepRows(1)
TableTrees == {<<a>> : a \in FirstRows} \cup {<<a, b>> : a \in FirstRows, b \in FlatRows(2, {<<<<"r">>, <<<<"l", None>>>>>>})}
DialogTrees == {<<RowOf(1, <<<<<<"s">>, <<<<"k", "o">>>>>>, <<<<"r">>, <<<<"k", None>>>>>>>>, FALSE),
                  RowOf(2, <<<<<<"t">>, <<<<"k", "o">>, <<"m", "q">>>>>>>>, FALSE)>>}

(* Topics of SampleList: three in each other, or two in the first one.     *)
At(topic, series) == [topic |-> topic, series |-> series]
TopicTrees == {[t \in 1 .. 3 |-> t - 1], [t \in 1 .. 3 |-> IF t = 1 THEN 0 ELSE 1]}

(* The connections of Search: three samples, four processes, two layers.   *)
SearchObjects == {1, 2, 3, 11, 12, 13, 14, 21, 22}
SearchLinks == {<<1, 11>>, <<2, 12>>, <<2, 11>>, <<3, 13>>, <<2, 21>>, <<3, 22>>, <<1, 21>>}
SearchModel == [o \in SearchObjects |-> IF o < 10 THEN "Sample" ELSE IF o < 20 THEN "Process" ELSE "InformalLayer"]
SearchRelated == [m \in {"Sample", "Process", "InformalLayer"} |->
                    CASE m = "Sample" -> {"Process", "InformalLayer"} [] m = "Process" -> {"Sample"} [] OTHER -> {}]

(* The pairs of samples and processes that are folded, and the samples of  *)
(* the results that programs submit.                                       *)
ClassOf == [p \in {"p", "q"} |-> IF p = "p" THEN "c" ELSE "d"]
SheetsOf == {<<1, "p">>, <<1, "q">>, <<2, "q">>}
FoundedPairs == {<<1, "p">>, <<2, "p">>}
IdsOf == [c \in Clients |-> IF c = "c1" THEN {1, 2} ELSE {2}]

(* The matches of Kicker, and who holds shares of whom.                    *)
LineUpsOf == {<<"a", "a", "d", "d">>, <<"a", "a", "e", "e">>, <<"d", "d", "e", "e">>, <<"a", "b", "c", "d">>}
FormerMatches ==
  [id \in 1 .. 2 |-> [players |-> IF id = 1 THEN <<"a", "a", "d", "d">> ELSE <<"a", "a", "e", "e">>,
                     time |-> 1, finished |-> TRUE, reporter |-> "r"]]
SharesOf == {<<"g", "b">>}

(* My Samples of the users of ProcessForms. *)
SelectionsOf == [u \in Users |-> IF u = "ann" THEN {1, 2} ELSE {2}]
-----------------------------------------------------------------------------
(* The steps of a deposition, edited in a browser and by a remote client.  *)
StepsPart == INSTANCE Steps WITH layers <- x1, page <- x2, sent <- x3, posts <- x4, my_step <- x5,
  Users <- {"ann"}, Contents <- {"p", "n", Rubbish},
  Founded <- [i \in 1 .. 2 |-> IF i = 1 THEN "p" ELSE "n"], MaxSteps <- 4, MaxTicks <- 2,
  MaxPosts <- 2

GetSteps == part = "Steps" /\ (\E u \in {"ann"} : StepsPart!get(u)) /\ Same6
PostSteps == part = "Steps" /\ (\E u \in {"ann"} : StepsPart!post(u)) /\ Same6
PostStepsJson == part = "Steps" /\ StepsPart!post_json /\ Same6
EditMySteps == part = "Steps" /\ StepsPart!edit_my_steps /\ Same6

(* The page with the steps of a deposition says what will be saved: no     *)
(* step is lost, doubled or mixed up with another one, ticks do what they  *)
(* say or are still there, and nothing changes in the database that was    *)
(* not seen.                                                               *)
StepsFollowThePage == [][part = "Steps" => StepsPart!StepsFollowThePage]_xs
-----------------------------------------------------------------------------
(* The export of a table of one or two rows.                               *)
TablesPart == INSTANCE Tables WITH tree <- x1, stage <- x2, previous <- x3, file <- x4,
  Trees <- TableTrees, Dialogs <- DialogTrees,
  Number <- [i \in {2, 3} |-> IF i = 2 THEN "#2" ELSE "#3"]

FindNames == part = "Tables" /\ TablesPart!find_unambiguous_names /\ Same5
CompleteItems == part = "Tables" /\ TablesPart!complete_items_in_children /\ Same5
ExportTable == part = "Tables" /\ TablesPart!table_export /\ Same5

(* A table has every value in a column with a heading of its own, and      *)
(* every cell can be filled.                                               *)
TablesAreComplete == part = "Tables" => TablesPart!TablesAreComplete
-----------------------------------------------------------------------------
(* Two of three samples are My Samples, in topics and sample series.       *)
SampleListPart == INSTANCE SampleList WITH parent <- x1, place <- x2, folded <- x3, edited <- x4,
  Samples <- {1, 2, 3}, Topics <- {1, 2, 3}, Trees <- TopicTrees,
  Places <- {At(0, {}), At(2, {}), At(3, {}), At(1, {11}), At(2, {11, 12})},
  SeriesTopic <- [s \in {11, 12} |-> IF s = 11 THEN 3 ELSE 2], MySamples <- {1, 2},
  Selections <- {{1}, {3}, {2, 3}}

FoldElement == part = "SampleList" /\ (\E e \in 1 .. 3 \cup {11, 12} : SampleListPart!fold_main_menu_element(e)) /\ Same5
PostSelection == part = "SampleList" /\ (\E e \in {{1}, {3}, {2, 3}} : SampleListPart!post(e)) /\ Same5

(* All samples are in the menu, and in forms those that belong there.      *)
ListsAreComplete == part = "SampleList" => SampleListPart!ListsAreComplete
-----------------------------------------------------------------------------
(* A search for samples and processes with layers, in nested forms.        *)
SearchPart == INSTANCE Search WITH stored <- x1, page <- x2, shown_hash <- x3, results <- x4,
  exported <- x5, query <- x6, my_samples <- x7, changes <- x8, fresh <- x9,
  Objects <- SearchObjects, Others <- {11}, Model <- SearchModel,
  Value <- [o \in SearchObjects |-> CASE o = 11 -> 1 [] o = 21 -> 2 [] o \in {12, 22} -> 4 [] OTHER -> 3],
  Links <- SearchLinks \cup {<<l[2], l[1]>> : l \in SearchLinks},
  RootModels <- {"Sample", "Process"}, related_models <- SearchRelated,
  DetailsRelated <- [m \in DOMAIN SearchRelated |-> SearchRelated[m] \ {"Process", "Sample"}],
  Known <- {1, 2}, Viewable <- {1, 11, 12, 14}, Periods <- {<<2, 3>>}, max_results <- 3,
  MaxChanges <- 3

ChooseModel == part = "Search" /\ (\E p \in DOMAIN x2 : SearchPart!ChooseModel(p))
FillIn == part = "Search" /\ (\E p \in DOMAIN x2 : SearchPart!FillIn(p))
SubmitSearch == part = "Search" /\ SearchPart!Submit
PostFound == part = "Search" /\ (x4 # None /\ \E t \in {{}} \cup {{o} : o \in {o \in x4 \ x7 : SearchModel[o] = "Sample"}} : SearchPart!Post(t))
SaveFound == part = "Search" /\ (\E o \in {11} : SearchPart!Save(o))
DeleteFound == part = "Search" /\ (\E o \in {11} : SearchPart!Delete(o))

(* Forms, results and tables of a search belong to each other, whatever    *)
(* the page was before, and whatever is saved in the meantime.             *)
SearchAsShown == [][part = "Search" => SearchPart!SearchAsShown]_xs
-----------------------------------------------------------------------------
(* Three runs of a crawler; one of them may be killed.                     *)
PidAlone == UNCHANGED <<search_vars, folding_vars, operator_vars, deletion_vars, remote_vars, image_vars, browser_vars, harvest_vars, number_vars, crawler_vars, form_vars, kicker_vars, process_vars>>

OpenLock == part = "PidLock" /\ (\E p \in Runs : Pid!Open(p)) /\ PidAlone
CreateLock == part = "PidLock" /\ (\E p \in Runs : Pid!Create(p)) /\ PidAlone
FlockBlocking == part = "PidLock" /\ (\E p \in Runs : Pid!FlockBlocking(p)) /\ PidAlone
FlockNonblocking == part = "PidLock" /\ (\E p \in Runs : Pid!FlockNonblocking(p)) /\ PidAlone
ReadPid == part = "PidLock" /\ (\E p \in Runs : Pid!Read(p)) /\ PidAlone
WritePid == part = "PidLock" /\ (\E p \in Runs : Pid!WritePid(p)) /\ PidAlone
WakeUp == part = "PidLock" /\ (\E p \in Runs : Pid!WakeUp(p)) /\ PidAlone
Unlock == part = "PidLock" /\ (\E p \in Runs : Pid!Unlock(p)) /\ PidAlone
RemoveLock == part = "PidLock" /\ (\E p \in Runs : Pid!Remove(p)) /\ PidAlone
EndRun == part = "PidLock" /\ (\E p \in Runs : Pid!End(p)) /\ PidAlone
KillRun == part = "PidLock" /\ (\E p \in Runs : Pid!Kill(p)) /\ PidAlone
-----------------------------------------------------------------------------
(* Two threads of the web server that look for the searchable models.      *)
SearchedAlone == UNCHANGED <<pid_vars, folding_vars, operator_vars, deletion_vars, remote_vars, image_vars, browser_vars, harvest_vars, number_vars, crawler_vars, form_vars, kicker_vars, process_vars>>

BeginSearch == part = "SearchModels" /\ (\E t \in Threads : Searched!Begin(t)) /\ SearchedAlone
AssignModels == part = "SearchModels" /\ (\E t \in Threads : Searched!Assign(t)) /\ SearchedAlone
LookAtModel == part = "SearchModels" /\ (\E t \in Threads : Searched!Look(t)) /\ SearchedAlone
FreezeModels == part = "SearchModels" /\ (\E t \in Threads : Searched!Freeze(t)) /\ SearchedAlone
-----------------------------------------------------------------------------
(* Two samples with two processes, one of which both have.                 *)
FoldedAlone == UNCHANGED <<pid_vars, search_vars, operator_vars, deletion_vars, remote_vars, image_vars, browser_vars, harvest_vars, number_vars, crawler_vars, form_vars, kicker_vars, process_vars>>

FoldProcess == part = "Folding" /\ (\E r \in Tabs, e \in Sheets : Folded!fold_process(r, e)) /\ FoldedAlone
EditPreferences == part = "Folding" /\ (\E r \in Tabs, d \in SUBSET Folded!Classes : Folded!edit_preferences(r, d)) /\ FoldedAlone
SaveFolding == part = "Folding" /\ (\E r \in Tabs : Folded!save(r)) /\ FoldedAlone
-----------------------------------------------------------------------------
(* Ann and Root edit a process, Bob its external operator.                 *)
OperatedAlone == UNCHANGED <<pid_vars, search_vars, folding_vars, deletion_vars, remote_vars, image_vars, browser_vars, harvest_vars, number_vars, crawler_vars, form_vars, kicker_vars, process_vars>>

EditOperator == part = "Operators" /\ (\E u \in Operated!AllUsers \ {"bob"} : Operated!edit_process(u)) /\ OperatedAlone
NewExternal == part = "Operators" /\ (\E u \in Operated!AllUsers : Operated!new(u)) /\ OperatedAlone
EditExternal == part = "Operators" /\ (\E u \in {"bob"} : Operated!edit(u)) /\ OperatedAlone
SaveOperator == part = "Operators" /\ (\E u \in Operated!AllUsers : Operated!save(u)) /\ OperatedAlone
-----------------------------------------------------------------------------
(* Two requests that delete three samples, two with a process, or edit it. *)
DeletedAlone == UNCHANGED <<pid_vars, search_vars, folding_vars, operator_vars, remote_vars, image_vars, browser_vars, harvest_vars, number_vars, crawler_vars, form_vars, kicker_vars, process_vars>>

BeginDeletion == part = "Deletions" /\ (\E r \in Requests : Deleted!delete(r)) /\ DeletedAlone
CountSamples == part = "Deletions" /\ (\E r \in Requests : Deleted!CountSamples(r)) /\ DeletedAlone
DeleteProcess == part = "Deletions" /\ (\E r \in Requests : Deleted!DeleteProcess(r)) /\ DeletedAlone
DeleteSample == part = "Deletions" /\ (\E r \in Requests : Deleted!DeleteSample(r)) /\ DeletedAlone
OpenProcess == part = "Deletions" /\ (\E r \in Requests : Deleted!edit(r)) /\ DeletedAlone
SaveSamplesOfProcess == part = "Deletions" /\ (\E r \in Requests : Deleted!save_to_database(r)) /\ DeletedAlone
-----------------------------------------------------------------------------
(* Two programs of a user that submit results over an unreliable connection.*)
SubmittedAlone == UNCHANGED <<pid_vars, search_vars, folding_vars, operator_vars, deletion_vars, image_vars, browser_vars, harvest_vars, number_vars, crawler_vars, form_vars, kicker_vars, process_vars>>

Submit == part = "Remote" /\ (\E c \in Clients : Submitted!submit(c)) /\ SubmittedAlone
Respond == part = "Remote" /\ (\E c \in Clients : Submitted!Respond(c)) /\ SubmittedAlone
Reach == part = "Remote" /\ (\E c \in Clients : Submitted!Reach(c)) /\ SubmittedAlone
NoConnection == part = "Remote" /\ (\E c \in Clients : Submitted!NoConnection(c)) /\ SubmittedAlone
Serve == part = "Remote" /\ (\E c \in Clients : Submitted!Serve(c)) /\ SubmittedAlone
BreakConnection == part = "Remote" /\ (\E c \in Clients \ {"c2"} : Submitted!Break(c)) /\ SubmittedAlone
ServeOrphan == part = "Remote" /\ Submitted!ServeOrphan /\ SubmittedAlone
-----------------------------------------------------------------------------
(* An image of a result, uploaded by two users and looked at by a third one.*)
UploadedAlone == UNCHANGED <<pid_vars, search_vars, folding_vars, operator_vars, deletion_vars, remote_vars, browser_vars, harvest_vars, number_vars, crawler_vars, form_vars, kicker_vars, process_vars>>

BeginImage == part = "Images" /\ (\E e \in Editors : Uploaded!Begin(e)) /\ UploadedAlone
SaveRowImage == part = "Images" /\ (\E e \in Editors : Uploaded!SaveRow(e)) /\ UploadedAlone
UnlinkImage == part = "Images" /\ (\E e \in Editors : Uploaded!Unlink(e)) /\ UploadedAlone
OpenImage == part = "Images" /\ (\E e \in Editors : Uploaded!Open(e)) /\ UploadedAlone
WriteImage == part = "Images" /\ (\E e \in Editors : Uploaded!Write(e)) /\ UploadedAlone
CommitImage == part = "Images" /\ (\E e \in Editors : Uploaded!Commit(e)) /\ UploadedAlone
AbortImage == part = "Images" /\ (\E e \in Editors : Uploaded!Abort(e)) /\ UploadedAlone
Show == part = "Images" /\ (\E v \in Viewers : Uploaded!show_thumbnail(v)) /\ UploadedAlone
ExportImage == part = "Images" /\ (\E v \in Viewers : Uploaded!export(v)) /\ UploadedAlone
Convert == part = "Images" /\ (\E v \in Viewers : Uploaded!convert(v)) /\ UploadedAlone
StoreThumbnail == part = "Images" /\ (\E v \in Viewers : Uploaded!StoreThumbnail(v)) /\ UploadedAlone
-----------------------------------------------------------------------------
(* What the browser of a user keeps, while two requests may overlap.       *)
BrowsedAlone == UNCHANGED <<pid_vars, search_vars, folding_vars, operator_vars, deletion_vars, remote_vars, image_vars, harvest_vars, number_vars, crawler_vars, form_vars, kicker_vars, process_vars>>

BeginChange == part = "Browser" /\ (\E q \in Requests : Browsed!Begin(q)) /\ BrowsedAlone
CommitChange == part = "Browser" /\ (\E q \in Requests : Browsed!Commit(q)) /\ BrowsedAlone
Ask == part = "Browser" /\ (\E p \in Browsed!Pages : Browsed!Ask(p)) /\ BrowsedAlone
Render == part = "Browser" /\ Browsed!Render /\ BrowsedAlone
ShowMenu == part = "Browser" /\ Browsed!show_main_menu /\ BrowsedAlone
-----------------------------------------------------------------------------
(* A harvester and two classes of processes; a second has two instants.    *)
HarvestedAlone == UNCHANGED <<pid_vars, search_vars, folding_vars, operator_vars, deletion_vars, remote_vars, image_vars, browser_vars, number_vars, crawler_vars, form_vars, kicker_vars, process_vars>>

Identify == part = "Harvest" /\ Harvested!identify /\ HarvestedAlone
BeginAnswer == part = "Harvest" /\ Harvested!create_response_tree /\ HarvestedAlone
RespondToHarvester == part = "Harvest" /\ Harvested!respond /\ HarvestedAlone
FailToRespond == part = "Harvest" /\ Harvested!fail /\ HarvestedAlone
RespondWithError == part = "Harvest" /\ Harvested!respond_error /\ HarvestedAlone
PassTime == part = "Harvest" /\ Harvested!Pass /\ HarvestedAlone
SaveProcess == part = "Harvest" /\ (\E model \in Kinds, t \in 0 .. instant : Harvested!AddProcess(model, t)) /\ HarvestedAlone
RemoveProcess == part = "Harvest" /\ (\E p \in DOMAIN published : Harvested!DeleteProcess(p)) /\ HarvestedAlone
-----------------------------------------------------------------------------
(* The numbers of depositions; a user has a browser, p is a program.       *)
NumberedAlone == UNCHANGED <<pid_vars, search_vars, folding_vars, operator_vars, deletion_vars, remote_vars, image_vars, browser_vars, harvest_vars, crawler_vars, form_vars, kicker_vars, process_vars>>

GetNewDeposition == part = "Numbers" /\ (\E u \in Viewers : Numbered!GetNew(u)) /\ NumberedAlone
GetDeposition == part = "Numbers" /\ (\E u \in Viewers : Numbered!GetExisting(u)) /\ NumberedAlone
TypeNumber == part = "Numbers" /\ (\E u \in Viewers : Numbered!TypeNumber(u)) /\ NumberedAlone
PostNewDeposition == part = "Numbers" /\ (\E u \in Viewers : Numbered!PostNew(u)) /\ NumberedAlone
PostDeposition == part = "Numbers" /\ (\E u \in Viewers : Numbered!PostExisting(u)) /\ NumberedAlone
DeleteDeposition == part = "Numbers" /\ (\E n \in DOMAIN depositions : Numbered!delete_process(n)) /\ NumberedAlone
AskNumber == part = "Numbers" /\ (\E p \in Programs : Numbered!AskNumber(p)) /\ NumberedAlone
SubmitDeposition == part = "Numbers" /\ (\E p \in Programs : Numbered!Submit(p)) /\ NumberedAlone
NewYear == part = "Numbers" /\ Numbered!NewYear /\ NumberedAlone
-----------------------------------------------------------------------------
(* The crawler and a lab that writes f up to twice, and g perhaps once.    *)
CrawledAlone == UNCHANGED <<pid_vars, search_vars, folding_vars, operator_vars, deletion_vars, remote_vars, image_vars, browser_vars, harvest_vars, number_vars, form_vars, kicker_vars, process_vars>>

WriteFile == part = "Crawler" /\ (Crawled!Write("f") \/ (measured["g"] = None /\ Crawled!Write("g"))) /\ CrawledAlone
UnlinkFile == part = "Crawler" /\ Crawled!Unlink("f") /\ CrawledAlone
WeeksPass == part = "Crawler" /\ Crawled!WeeksPass /\ CrawledAlone
CrawlAll == part = "Crawler" /\ Crawled!_crawl_all /\ CrawledAlone
EnrichStatuses == part = "Crawler" /\ Crawled!_enrich_new_statuses /\ CrawledAlone
HandleFile == part = "Crawler" /\ (\E f \in Files : Crawled!Handle(f)) /\ CrawledAlone
FinishCrawl == part = "Crawler" /\ Crawled!Finish /\ CrawledAlone
CrashCrawl == part = "Crawler" /\ Crawled!Crash /\ CrawledAlone
-----------------------------------------------------------------------------
(* The table of a result.                                                  *)
TabledAlone == UNCHANGED <<pid_vars, search_vars, folding_vars, operator_vars, deletion_vars, remote_vars, image_vars, browser_vars, harvest_vars, number_vars, crawler_vars, kicker_vars, process_vars>>

AddResult == part = "ResultForm" /\ (\E u \in Authors : Tabled!add(u)) /\ TabledAlone
EditResult == part = "ResultForm" /\ (\E u \in Authors : Tabled!edit(u)) /\ TabledAlone
PostResult == part = "ResultForm" /\ (\E u \in Authors : Tabled!post(u)) /\ TabledAlone
-----------------------------------------------------------------------------
(* Matches of table football; d and e have played once without a number.   *)
KickedAlone == UNCHANGED <<pid_vars, search_vars, folding_vars, operator_vars, deletion_vars, remote_vars, image_vars, browser_vars, harvest_vars, number_vars, crawler_vars, form_vars, process_vars>>

EditMatch == part = "Kicker" /\ (\E b \in Browsers : Kicked!edit_match(b)) /\ KickedAlone
SaveMatch == part = "Kicker" /\ (\E b \in Browsers : Kicked!save_match(b)) /\ KickedAlone
CancelMatch == part = "Kicker" /\ Kicked!cancel_match /\ KickedAlone
SetStartNumber == part = "Kicker" /\ Kicked!set_start_kicker_number /\ KickedAlone
ExpireMatches == part = "Kicker" /\ Kicked!expire_matches /\ KickedAlone
-----------------------------------------------------------------------------
(* A process with two samples; ann uses a browser, bob the remote client.  *)
FormedAlone == UNCHANGED <<pid_vars, search_vars, folding_vars, operator_vars, deletion_vars, remote_vars, image_vars, browser_vars, harvest_vars, number_vars, crawler_vars, form_vars, kicker_vars>>

GetProcess == part = "ProcessForms" /\ (\E u \in Users \ Scripts : Formed!get(u)) /\ FormedAlone
PostProcess == part = "ProcessForms" /\ (\E u \in Users \ Scripts : Formed!post(u)) /\ FormedAlone
PostProcessJson == part = "ProcessForms" /\ (\E u \in Scripts : Formed!post_json(u)) /\ FormedAlone
MergeSamples == part = "ProcessForms" /\ (\E a, b \in Pieces : a # b /\ Formed!merge(a, b)) /\ FormedAlone
-----------------------------------------------------------------------------
own == <<pid_vars, search_vars, folding_vars, operator_vars, deletion_vars, remote_vars, image_vars, browser_vars, harvest_vars, number_vars, crawler_vars, form_vars, kicker_vars, process_vars>>

Init ==
  /\ Pid!Init
  /\ Searched!Init
  /\ Folded!Init
  /\ Operated!Init
  /\ Deleted!Init
  /\ Submitted!Init
  /\ Uploaded!Init
  /\ Browsed!Init
  /\ Harvested!Init
  /\ Numbered!Init
  /\ Crawled!Init
  /\ Tabled!Init
  /\ Kicked!Init
  /\ Formed!Init
  /\ \/ part \in {"PidLock", "SearchModels", "Folding", "Operators", "Deletions", "Remote", "Images", "Browser", "Harvest", "Numbers", "Crawler", "ResultForm", "Kicker", "ProcessForms"} /\ None1
     \/ part = "Steps" /\ StepsPart!Init /\ None6
     \/ part = "Tables" /\ TablesPart!Init /\ None5
     \/ part = "SampleList" /\ SampleListPart!Init /\ None5
     \/ part = "Search" /\ SearchPart!Init
  /\ part # "Folding" => default = {}
  /\ part # "ProcessForms" => is_deposition = FALSE
  /\ part # "Harvest" => harvested = "all"
  /\ part # "Operators" => process.operator = "ann"

Next ==
  /\ UNCHANGED part
  /\ \/ /\ UNCHANGED xs
        /\ \/ OpenLock
           \/ CreateLock
           \/ FlockBlocking
           \/ FlockNonblocking
           \/ ReadPid
           \/ WritePid
           \/ WakeUp
           \/ Unlock
           \/ RemoveLock
           \/ EndRun
           \/ KillRun
           \/ BeginSearch
           \/ AssignModels
           \/ LookAtModel
           \/ FreezeModels
           \/ FoldProcess
           \/ EditPreferences
           \/ SaveFolding
           \/ EditOperator
           \/ NewExternal
           \/ EditExternal
           \/ SaveOperator
           \/ BeginDeletion
           \/ CountSamples
           \/ DeleteProcess
           \/ DeleteSample
           \/ OpenProcess
           \/ SaveSamplesOfProcess
           \/ Submit
           \/ Respond
           \/ Reach
           \/ NoConnection
           \/ Serve
           \/ BreakConnection
           \/ ServeOrphan
           \/ BeginImage
           \/ SaveRowImage
           \/ UnlinkImage
           \/ OpenImage
           \/ WriteImage
           \/ CommitImage
           \/ AbortImage
           \/ Show
           \/ ExportImage
           \/ Convert
           \/ StoreThumbnail
           \/ BeginChange
           \/ CommitChange
           \/ Ask
           \/ Render
           \/ ShowMenu
           \/ Identify
           \/ BeginAnswer
           \/ RespondToHarvester
           \/ FailToRespond
           \/ RespondWithError
           \/ PassTime
           \/ SaveProcess
           \/ RemoveProcess
           \/ GetNewDeposition
           \/ GetDeposition
           \/ TypeNumber
           \/ PostNewDeposition
           \/ PostDeposition
           \/ DeleteDeposition
           \/ AskNumber
           \/ SubmitDeposition
           \/ NewYear
           \/ WriteFile
           \/ UnlinkFile
           \/ WeeksPass
           \/ CrawlAll
           \/ EnrichStatuses
           \/ HandleFile
           \/ FinishCrawl
           \/ CrashCrawl
           \/ AddResult
           \/ EditResult
           \/ PostResult
           \/ EditMatch
           \/ SaveMatch
           \/ CancelMatch
           \/ SetStartNumber
           \/ ExpireMatches
           \/ GetProcess
           \/ PostProcess
           \/ PostProcessJson
           \/ MergeSamples
     \/ /\ UNCHANGED own
        /\ \/ GetSteps
           \/ PostSteps
           \/ PostStepsJson
           \/ EditMySteps
           \/ FindNames
           \/ CompleteItems
           \/ ExportTable
           \/ FoldElement
           \/ PostSelection
           \/ ChooseModel
           \/ FillIn
           \/ SubmitSearch
           \/ PostFound
           \/ SaveFound
           \/ DeleteFound

Spec == Init /\ [][Next]_<<part, xs, own>>

ASSUME
  /\ Pid!PidLockAssumption
  /\ Searched!SearchModelsAssumption
  /\ Operated!OperatorsAssumption
  /\ Deleted!DeletionsAssumption
  /\ Submitted!RemoteAssumption
  /\ Uploaded!ImagesAssumption
  /\ Browsed!BrowserAssumption
  /\ Harvested!HarvestAssumption
  /\ Numbered!NumbersAssumption
  /\ Crawled!CrawlerAssumption
  /\ Tabled!ResultFormAssumption
  /\ Kicked!KickerAssumption
  /\ Formed!ProcessFormsAssumption
=============================================================================
