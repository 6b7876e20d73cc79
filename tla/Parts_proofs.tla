---------------------------- MODULE Parts_proofs ----------------------------
(***************************************************************************)
(* Components that work on their own, for any number of processes, threads,*)
(* samples, files and users.  Each of them is an instance with its own     *)
(* constants and variables.                                                *)
(***************************************************************************)
EXTENDS Parts, Integers, Sequences, FiniteSetTheorems, WellFoundedInduction, TLAPS
-----------------------------------------------------------------------------
(* PidLock.  Where a process is, and what it has opened and locked.        *)
PidPlaces == {"trying", "create", "blocking", "opened", "waiting", "locked", "acquired", "in", "leaving",
              "left", "ended", "killed"}
WithFile == {"blocking", "opened", "locked", "acquired", "in", "leaving"}
WithFlock == {"locked", "acquired", "in"}

PidTypes ==
  /\ path \in Runs \cup {None}
  /\ content \in [Runs -> Runs \cup {None, Invalid}]
  /\ flock \in [Runs -> Runs \cup {None}]
  /\ opened \in [Runs -> Runs \cup {None}]
  /\ pc \in [Runs -> PidPlaces]
  /\ raced \in BOOLEAN
  /\ \A p \in Runs : opened[p] # None <=> pc[p] \in WithFile
  /\ \A p \in Runs : pc[p] \in WithFlock => flock[opened[p]] = p
  /\ \A i, p \in Runs : flock[i] = p => pc[p] \in WithFlock /\ opened[p] = i

(* As long as there has been no race, all have opened the file that the    *)
(* path refers to; the one who has created it is the first to lock it; and *)
(* who has locked it finds nobody's number in it, and then the own one.    *)
PidOrder ==
  /\ \A p \in Runs : opened[p] \in {None, path}
  /\ \A p \in Runs : pc[p] = "blocking" =>
       /\ content[path] = None
       /\ \A q \in Runs \ {p} : pc[q] \notin WithFlock \cup {"blocking"}
  /\ \A p \in Runs : pc[p] = "acquired" => content[path] = None
  /\ \A p \in Runs : pc[p] = "in" => content[path] = p

PidInv == PidTypes /\ (~raced => PidOrder)

LEMMA PidTypesStep ==
  ASSUME Pid!PidLockAssumption, PidTypes, [Pid!Next]_(Pid!vars)
  PROVE  PidTypes'
<1> USE DEF Pid!PidLockAssumption, PidTypes, PidPlaces, WithFile, WithFlock, Pid!Goto, Pid!Inodes
<1>1. ASSUME NEW p \in Runs, Pid!Open(p)
      PROVE  PidTypes'
  BY <1>1 DEF Pid!Open
<1>2. ASSUME NEW p \in Runs, Pid!Create(p)
      PROVE  PidTypes'
  BY <1>2 DEF Pid!Create
<1>3. ASSUME NEW p \in Runs, Pid!FlockBlocking(p)
      PROVE  PidTypes'
  BY <1>3 DEF Pid!FlockBlocking
<1>4. ASSUME NEW p \in Runs, Pid!FlockNonblocking(p)
      PROVE  PidTypes'
  <2>1. opened[p] \in Runs /\ UNCHANGED <<path, content>>
    BY <1>4 DEF Pid!FlockNonblocking
  <2>2. CASE flock[opened[p]] = None
    BY <1>4, <2>1, <2>2 DEF Pid!FlockNonblocking
  <2>3. CASE flock[opened[p]] # None
    BY <1>4, <2>1, <2>3 DEF Pid!FlockNonblocking, Pid!TryAgain
  <2> QED
    BY <2>2, <2>3
<1>5. ASSUME NEW p \in Runs, Pid!Read(p)
      PROVE  PidTypes'
  <2>1. opened[p] \in Runs /\ UNCHANGED <<path, raced>>
    BY <1>5 DEF Pid!Read
  <2>2. CASE Pid!AlreadyRunning(content[opened[p]])
    <3>1. /\ opened' = [opened EXCEPT ![p] = None]
          /\ pc' = [pc EXCEPT ![p] = "waiting"]
          /\ flock' = [i \in Runs |-> IF flock[i] = p THEN None ELSE flock[i]]
          /\ pc[p] = "locked" /\ UNCHANGED content
      BY <1>5, <2>2 DEF Pid!Read, Pid!TryAgain, Pid!Released
    <3> QED
      BY <2>1, <3>1
  <2>3. CASE ~Pid!AlreadyRunning(content[opened[p]])
    BY <1>5, <2>1, <2>3 DEF Pid!Read, Pid!Truncated
  <2> QED
    BY <2>2, <2>3
<1>6. ASSUME NEW p \in Runs, Pid!WritePid(p)
      PROVE  PidTypes'
  BY <1>6 DEF Pid!WritePid
<1>7. ASSUME NEW p \in Runs, Pid!WakeUp(p)
      PROVE  PidTypes'
  BY <1>7 DEF Pid!WakeUp
<1>8. ASSUME NEW p \in Runs, Pid!Unlock(p)
      PROVE  PidTypes'
  BY <1>8 DEF Pid!Unlock, Pid!Released
<1>9. ASSUME NEW p \in Runs, Pid!Remove(p)
      PROVE  PidTypes'
  BY <1>9 DEF Pid!Remove
<1>10. ASSUME NEW p \in Runs, Pid!End(p)
       PROVE  PidTypes'
  BY <1>10 DEF Pid!End
<1>11. ASSUME NEW p \in Runs, Pid!Kill(p)
       PROVE  PidTypes'
  BY <1>11 DEF Pid!Kill, Pid!Released, Pid!ProcessExists
<1>12. CASE UNCHANGED Pid!vars
  BY <1>12 DEF Pid!vars
<1> QED
  BY <1>1, <1>2, <1>3, <1>4, <1>5, <1>6, <1>7, <1>8, <1>9, <1>10, <1>11, <1>12
  DEF Pid!Next, Pid!try_acquire_lock

LEMMA PidOrderStep ==
  ASSUME Pid!PidLockAssumption, PidInv, PidTypes', [Pid!Next]_(Pid!vars), ~raced'
  PROVE  PidOrder'
<1> USE DEF Pid!PidLockAssumption, PidTypes, PidOrder, PidPlaces, WithFile, WithFlock, Pid!Goto, Pid!Inodes
<1>1. ~raced
  BY DEF Pid!Next, Pid!try_acquire_lock, Pid!Open, Pid!Create, Pid!FlockBlocking, Pid!FlockNonblocking, Pid!Read,
         Pid!WritePid, Pid!WakeUp, Pid!Unlock, Pid!Remove, Pid!End, Pid!Kill, Pid!vars, PidInv
<1>2. PidTypes /\ PidOrder
  BY <1>1 DEF PidInv
<1>3. ASSUME NEW p \in Runs, Pid!Open(p)
      PROVE  PidOrder'
  BY <1>2, <1>3 DEF Pid!Open
<1>4. ASSUME NEW p \in Runs, Pid!Create(p)
      PROVE  PidOrder'
  <2>1. raced' = (raced \/ path # None)
    BY <1>4 DEF Pid!Create
  <2>2. path = None
    BY <2>1
  <2>3. \A q \in Runs : pc[q] \notin WithFile
    BY <1>2, <2>2
  <2> QED
    BY <1>2, <1>4, <2>2, <2>3 DEF Pid!Create
<1>5. ASSUME NEW p \in Runs, Pid!FlockBlocking(p)
      PROVE  PidOrder'
  BY <1>2, <1>5 DEF Pid!FlockBlocking
<1>6. ASSUME NEW p \in Runs, Pid!FlockNonblocking(p)
      PROVE  PidOrder'
  <2>1. opened[p] = path /\ UNCHANGED <<path, content>>
    BY <1>2, <1>6 DEF Pid!FlockNonblocking
  <2>2. CASE flock[opened[p]] = None
    <3>1. raced' = (raced \/ \E q \in Runs : pc[q] = "blocking" /\ opened[q] = opened[p])
      BY <1>6, <2>2 DEF Pid!FlockNonblocking
    <3>2. ~\E q \in Runs : pc[q] = "blocking" /\ opened[q] = opened[p]
      BY <3>1
    <3>3. \A q \in Runs : pc[q] # "blocking"
      BY <1>2, <2>1, <3>2
    <3> QED
      BY <1>2, <1>6, <2>1, <2>2, <3>3 DEF Pid!FlockNonblocking
  <2>3. CASE flock[opened[p]] # None
    BY <1>2, <1>6, <2>1, <2>3 DEF Pid!FlockNonblocking, Pid!TryAgain
  <2> QED
    BY <2>2, <2>3
<1>7. ASSUME NEW p \in Runs, Pid!Read(p)
      PROVE  PidOrder'
  <2>1. opened[p] = path /\ flock[path] = p /\ path' = path
    BY <1>2, <1>7 DEF Pid!Read
  <2>2. \A q \in Runs \ {p} : pc[q] \notin WithFlock
    BY <1>2, <2>1
  <2>3. CASE Pid!AlreadyRunning(content[opened[p]])
    BY <1>2, <1>7, <2>1, <2>2, <2>3 DEF Pid!Read, Pid!TryAgain
  <2>4. CASE ~Pid!AlreadyRunning(content[opened[p]])
    BY <1>2, <1>7, <2>1, <2>2, <2>4 DEF Pid!Read, Pid!Truncated
  <2> QED
    BY <2>3, <2>4
<1>8. ASSUME NEW p \in Runs, Pid!WritePid(p)
      PROVE  PidOrder'
  <2>1. opened[p] = path /\ flock[path] = p /\ path' = path
    BY <1>2, <1>8 DEF Pid!WritePid
  <2>2. \A q \in Runs \ {p} : pc[q] \notin WithFlock
    BY <1>2, <2>1
  <2> QED
    BY <1>2, <1>8, <2>1, <2>2 DEF Pid!WritePid
<1>9. ASSUME NEW p \in Runs, Pid!WakeUp(p) \/ Pid!End(p)
      PROVE  PidOrder'
  BY <1>2, <1>9 DEF Pid!WakeUp, Pid!End
<1>10. ASSUME NEW p \in Runs, Pid!Unlock(p)
       PROVE  PidOrder'
  BY <1>2, <1>10 DEF Pid!Unlock
<1>11. ASSUME NEW p \in Runs, Pid!Remove(p)
       PROVE  PidOrder'
  <2>1. raced' = (raced \/ \E q \in Runs \ {p} : path # None /\ opened[q] = path)
    BY <1>11 DEF Pid!Remove
  <2>2. ~\E q \in Runs \ {p} : path # None /\ opened[q] = path
    BY <2>1
  <2>3. \A q \in Runs \ {p} : opened[q] = None
    BY <1>2, <2>2
  <2> QED
    BY <1>2, <1>11, <2>3 DEF Pid!Remove
<1>12. ASSUME NEW p \in Runs, Pid!Kill(p)
       PROVE  PidOrder'
  BY <1>2, <1>12 DEF Pid!Kill
<1>13. CASE UNCHANGED Pid!vars
  BY <1>2, <1>13 DEF Pid!vars
<1> QED
  BY <1>3, <1>4, <1>5, <1>6, <1>7, <1>8, <1>9, <1>10, <1>11, <1>12, <1>13 DEF Pid!Next, Pid!try_acquire_lock

LEMMA PidApart ==
  ASSUME Pid!PidLockAssumption, PidInv
  PROVE  LockKeepsApart
<1> USE DEF Pid!PidLockAssumption, PidInv, PidTypes, PidOrder, WithFile, WithFlock
<1>1. Pid!FileNamesTheRun
  BY DEF Pid!FileNamesTheRun
<1>2. Pid!OneRunUnlessRaced
  BY DEF Pid!OneRunUnlessRaced
<1> QED
  BY <1>1, <1>2 DEF LockKeepsApart, Pid!LockKeepsApart

(* However many runs of a crawler are started, and however many of them    *)
(* are killed: at most one goes on, and the file under the path names it,  *)
(* unless two of them created the file or one had opened it before it was  *)
(* removed.                                                                *)
THEOREM RunsAreApart == Pid!PidLockAssumption => (Pid!Spec => []LockKeepsApart)
<1> SUFFICES ASSUME Pid!PidLockAssumption
             PROVE  Pid!Spec => []LockKeepsApart
  OBVIOUS
<1>1. Pid!Init => PidInv
  BY DEF Pid!PidLockAssumption, Pid!Init, Pid!Inodes, PidInv, PidTypes, PidOrder, PidPlaces, WithFile, WithFlock
<1>2. PidInv /\ [Pid!Next]_(Pid!vars) => PidInv'
  BY PidTypesStep, PidOrderStep DEF PidInv
<1> QED
  BY <1>1, <1>2, PidApart, PTL DEF Pid!Spec
-----------------------------------------------------------------------------
(* SearchModels.  Unless the set has been emptied, it contains what each   *)
(* thread has looked at, whoever has assigned it, and is complete once it  *)
(* is frozen, after which no thread has it again.                          *)
SearchPlaces == {"idle", "assign", "loop", "found", "failed"}
SearchTypes ==
  /\ all_searchable_models \in [models : SUBSET Models, frozen : BOOLEAN] \cup {None}
  /\ thread \in [Threads -> SearchPlaces]
  /\ todo \in [Threads -> SUBSET Models]
  /\ emptied \in BOOLEAN
  /\ \A t \in Threads : thread[t] \in {"loop", "found"} => all_searchable_models # None

LookedAtAreIn ==
  \A t \in Threads : thread[t] = "loop" => (Models \ todo[t]) \ Abstract \subseteq all_searchable_models.models

OnlySearchable == all_searchable_models # None => all_searchable_models.models \subseteq Models \ Abstract

FrozenIsComplete ==
  all_searchable_models # None /\ all_searchable_models.frozen => Models \ Abstract \subseteq all_searchable_models.models

FoundIsFrozen == \A t \in Threads : thread[t] = "found" => all_searchable_models.frozen

SearchOrder == LookedAtAreIn /\ OnlySearchable /\ FrozenIsComplete /\ FoundIsFrozen

SearchInv == SearchTypes /\ (~emptied => SearchOrder)

LEMMA SearchTypesStep ==
  ASSUME Searched!SearchModelsAssumption, SearchInv, [Searched!Next]_(Searched!vars)
  PROVE  SearchTypes'
<1> USE DEF Searched!SearchModelsAssumption, SearchInv, SearchTypes, SearchPlaces
<1>1. ASSUME NEW t \in Threads, Searched!Begin(t)
      PROVE  SearchTypes'
  BY <1>1 DEF Searched!Begin
<1>2. ASSUME NEW t \in Threads, Searched!Assign(t)
      PROVE  SearchTypes'
  <2>1. Searched!Set({}, FALSE) \in [models : SUBSET Models, frozen : BOOLEAN]
    BY DEF Searched!Set
  <2>2. emptied' \in BOOLEAN
    BY <1>2 DEF Searched!Assign
  <2> QED
    BY <1>2, <2>1, <2>2 DEF Searched!Assign
<1>3. ASSUME NEW t \in Threads, Searched!Look(t)
      PROVE  SearchTypes'
  BY <1>3 DEF Searched!Look
<1>4. ASSUME NEW t \in Threads, Searched!Freeze(t)
      PROVE  SearchTypes'
  BY <1>4 DEF Searched!Freeze
<1>5. CASE UNCHANGED Searched!vars
  BY <1>5 DEF Searched!vars
<1> QED
  BY <1>1, <1>2, <1>3, <1>4, <1>5 DEF Searched!Next

LEMMA SearchOrderStep ==
  ASSUME Searched!SearchModelsAssumption, SearchInv, SearchTypes', [Searched!Next]_(Searched!vars), ~emptied'
  PROVE  SearchOrder'
<1> USE DEF Searched!SearchModelsAssumption, SearchTypes, SearchPlaces, SearchOrder, LookedAtAreIn, OnlySearchable,
            FrozenIsComplete, FoundIsFrozen
<1>1. ASSUME NEW t \in Threads, Searched!Begin(t)
      PROVE  SearchOrder'
  <2>1. SearchOrder
    BY <1>1 DEF Searched!Begin, SearchInv
  <2> QED
    BY <1>1, <2>1 DEF Searched!Begin, SearchInv
<1>2. ASSUME NEW t \in Threads, Searched!Assign(t)
      PROVE  SearchOrder'
  <2>1. ~emptied /\ all_searchable_models \in {None, Searched!Set({}, FALSE)}
    BY <1>2 DEF Searched!Assign
  <2>2. SearchOrder
    BY <2>1 DEF SearchInv
  <2>3. all_searchable_models' = Searched!Set({}, FALSE) /\ all_searchable_models' # None
    BY <1>2 DEF Searched!Assign, Searched!Set
  <2>4. \A u \in Threads \ {t} : thread'[u] = thread[u] /\ todo'[u] = todo[u]
    BY <1>2 DEF Searched!Assign, SearchInv
  <2>5. thread'[t] = "loop" /\ todo'[t] = Models
    BY <1>2 DEF Searched!Assign, SearchInv
  <2>6. \A u \in Threads : thread[u] \in {"loop", "found"} => all_searchable_models = Searched!Set({}, FALSE)
    BY <2>1 DEF SearchInv
  <2>7. LookedAtAreIn'
    BY <2>2, <2>3, <2>4, <2>5, <2>6 DEF Searched!Set
  <2>8. FoundIsFrozen'
    BY <2>2, <2>4, <2>5, <2>6 DEF Searched!Set
  <2> QED
    BY <2>3, <2>7, <2>8 DEF Searched!Set
<1>3. ASSUME NEW t \in Threads, Searched!Look(t)
      PROVE  SearchOrder'
  <2>1. SearchOrder
    BY <1>3 DEF Searched!Look, SearchInv
  <2>2. PICK model \in todo[t] :
          /\ todo' = [todo EXCEPT ![t] = @ \ {model}]
          /\ IF model \in Abstract THEN UNCHANGED <<all_searchable_models, thread>>
             ELSE IF all_searchable_models.frozen
             THEN thread' = [thread EXCEPT ![t] = "failed"] /\ UNCHANGED all_searchable_models
             ELSE /\ all_searchable_models' = [all_searchable_models EXCEPT !.models = @ \cup {model}]
                  /\ UNCHANGED thread
    BY <1>3 DEF Searched!Look, Searched!IsSearchable
  <2>3. model \in Models /\ all_searchable_models # None /\ thread[t] = "loop"
    BY <1>3, <2>2 DEF Searched!Look, SearchInv
  <2>4. CASE model \in Abstract
    BY <2>1, <2>2, <2>3, <2>4 DEF SearchInv
  <2>5. CASE model \notin Abstract /\ all_searchable_models.frozen
    BY <2>1, <2>2, <2>3, <2>5 DEF SearchInv
  <2>6. CASE model \notin Abstract /\ ~all_searchable_models.frozen
    <3>1. /\ all_searchable_models'.models = all_searchable_models.models \cup {model}
          /\ ~all_searchable_models'.frozen
          /\ thread' = thread
      BY <2>2, <2>3, <2>6 DEF SearchInv
    <3> QED
      BY <2>1, <2>2, <2>3, <2>6, <3>1 DEF SearchInv
  <2> QED
    BY <2>4, <2>5, <2>6
<1>4. ASSUME NEW t \in Threads, Searched!Freeze(t)
      PROVE  SearchOrder'
  <2>1. SearchOrder
    BY <1>4 DEF Searched!Freeze, SearchInv
  <2>2. /\ all_searchable_models'.models = all_searchable_models.models
        /\ all_searchable_models'.frozen
        /\ all_searchable_models # None
        /\ Models \ Abstract \subseteq all_searchable_models.models
    BY <1>4, <2>1 DEF Searched!Freeze, SearchInv
  <2> QED
    BY <1>4, <2>1, <2>2 DEF Searched!Freeze, SearchInv
<1>5. CASE UNCHANGED Searched!vars
  BY <1>5 DEF Searched!vars, SearchInv
<1> QED
  BY <1>1, <1>2, <1>3, <1>4, <1>5 DEF Searched!Next

(* However many requests ask for the searchable models while they are      *)
(* still being collected, and however many of them collect, they fail or   *)
(* get all of them, for any set of models.  Only one order is excluded: a  *)
(* thread that has passed the check assigns its empty set when another one *)
(* has already added to its own; the set may stay incomplete for ever.     *)
THEOREM ModelsAreComplete == Searched!SearchModelsAssumption => (Searched!Spec => []FoundAreComplete)
<1> SUFFICES ASSUME Searched!SearchModelsAssumption
             PROVE  Searched!Spec => []FoundAreComplete
  OBVIOUS
<1>1. Searched!Init => SearchInv
  BY DEF Searched!Init, SearchInv, SearchTypes, SearchPlaces, SearchOrder, LookedAtAreIn, OnlySearchable,
       FrozenIsComplete, FoundIsFrozen
<1>2. SearchInv /\ [Searched!Next]_(Searched!vars) => SearchInv'
  BY SearchTypesStep, SearchOrderStep DEF SearchInv
<1>3. SearchInv => FoundAreComplete
  BY DEF SearchInv, SearchTypes, SearchOrder, OnlySearchable, FrozenIsComplete, FoundIsFrozen, FoundAreComplete,
         Searched!FoundAreComplete
<1> QED
  BY <1>1, <1>2, <1>3, PTL DEF Searched!Spec
-----------------------------------------------------------------------------
(* Folding.  Unless requests have overlapped, only one of them goes on,    *)
(* and what it is going to save still fits what is stored.                 *)
FoldingTypes ==
  /\ default \subseteq Folded!Classes
  /\ exceptional \subseteq Sheets
  /\ page \in [Tabs -> [default : (SUBSET Folded!Classes) \cup {None}, exceptional : SUBSET Sheets] \cup {None}]
  /\ overlapped \in BOOLEAN

FoldingOrder ==
  /\ \A q, r \in Tabs : page[q] # None /\ page[r] # None => q = r
  /\ \A r \in Tabs : page[r] # None /\ page[r].default # None =>
       page[r].exceptional = {entry \in exceptional : Class[entry[2]] \notin Folded!differences(page[r].default)}

FoldingInv == FoldingTypes /\ (~overlapped => FoldingOrder)

LEMMA FoldingBegins ==
  ASSUME FoldingInv, NEW r \in Tabs, NEW defaults \in (SUBSET Folded!Classes) \cup {None}, NEW exceptions \in SUBSET Sheets,
         Folded!Begin(r, defaults, exceptions),
         defaults # None => exceptions = {entry \in exceptional : Class[entry[2]] \notin Folded!differences(defaults)}
  PROVE  FoldingInv'
<1>1. overlapped' = (overlapped \/ \E q \in Tabs : page[q] # None)
  BY DEF Folded!Begin
<1>2. /\ page' = [page EXCEPT ![r] = [default |-> defaults, exceptional |-> exceptions]]
      /\ UNCHANGED <<default, exceptional>>
  BY DEF Folded!Begin
<1>3. FoldingTypes'
  BY <1>1, <1>2 DEF FoldingInv, FoldingTypes
<1>4. ASSUME ~overlapped'
      PROVE  FoldingOrder'
  BY <1>1, <1>2, <1>4 DEF FoldingInv, FoldingTypes, FoldingOrder, Folded!differences
<1> QED
  BY <1>3, <1>4 DEF FoldingInv

LEMMA FoldingSaves ==
  ASSUME FoldingInv, NEW r \in Tabs, Folded!save(r)
  PROVE  FoldingInv' /\ Folded!ByHandOrDefault
<1> USE DEF Folded!save, FoldingInv, FoldingTypes
<1>1. FoldingTypes'
  OBVIOUS
<1>2. ASSUME ~overlapped'
      PROVE  FoldingOrder'
  BY <1>2 DEF FoldingOrder
<1>3. ASSUME ~overlapped, default' # default, NEW entry \in Sheets
      PROVE  Folded!_is_folded(entry)' =
               IF entry \in exceptional THEN Folded!_is_folded(entry) ELSE Class[entry[2]] \in default'
  <2>1. default' = page[r].default /\ page[r].default # None /\ exceptional' = page[r].exceptional
    BY <1>3
  <2>2. exceptional' = {e \in exceptional : Class[e[2]] \notin Folded!differences(default')}
    BY <1>3, <2>1 DEF FoldingOrder
  <2>3. entry \in exceptional' <=> entry \in exceptional /\ Class[entry[2]] \notin Folded!differences(default')
    BY <2>2
  <2>4. Class[entry[2]] \in Folded!differences(default') <=>
          ~(Class[entry[2]] \in default <=> Class[entry[2]] \in default')
    BY DEF Folded!differences
  <2> QED
    BY <2>3, <2>4 DEF Folded!_is_folded
<1> QED
  BY <1>1, <1>2, <1>3 DEF Folded!ByHandOrDefault

(* For any processes, samples and defaults: what the user has folded or    *)
(* unfolded by hand stays as it is when she changes the defaults, all else *)
(* follows them, unless requests overlap.                                  *)
THEOREM FoldedByHandOrDefault == Folded!Spec => ChoicesSurvive
<1>1. Folded!Init => FoldingInv
  BY DEF Folded!Init, FoldingInv, FoldingTypes, FoldingOrder
<1>2. ASSUME FoldingInv, [Folded!Next]_(Folded!vars)
      PROVE  FoldingInv' /\ [Folded!ByHandOrDefault]_folding_vars
  <2>1. ASSUME NEW r \in Tabs, NEW entry \in Sheets, Folded!fold_process(r, entry)
        PROVE  FoldingInv' /\ Folded!ByHandOrDefault
    <3>1. FoldingInv'
      BY <1>2, <2>1, FoldingBegins DEF Folded!fold_process, FoldingInv, FoldingTypes
    <3> QED
      BY <2>1, <3>1 DEF Folded!fold_process, Folded!Begin, Folded!ByHandOrDefault
  <2>2. ASSUME NEW r \in Tabs, NEW defaults \in SUBSET Folded!Classes, Folded!edit_preferences(r, defaults)
        PROVE  FoldingInv' /\ Folded!ByHandOrDefault
    <3>1. FoldingInv'
      BY <1>2, <2>2, FoldingBegins DEF Folded!edit_preferences, FoldingInv, FoldingTypes
    <3> QED
      BY <2>2, <3>1 DEF Folded!edit_preferences, Folded!Begin, Folded!ByHandOrDefault
  <2>3. ASSUME NEW r \in Tabs, Folded!save(r)
        PROVE  FoldingInv' /\ Folded!ByHandOrDefault
    BY <1>2, <2>3, FoldingSaves
  <2>4. CASE UNCHANGED Folded!vars
    BY <1>2, <2>4 DEF Folded!vars, folding_vars, FoldingInv, FoldingTypes, FoldingOrder, Folded!differences
  <2> QED
    BY <1>2, <2>1, <2>2, <2>3, <2>4 DEF Folded!Next
<1> QED
  BY <1>1, <1>2, PTL DEF Folded!Spec, ChoicesSurvive
-----------------------------------------------------------------------------
(* Operators.  All that running requests are going to save is named, and a *)
(* request that has read the process and not been overtaken holds its row. *)
NamedRows == {Operated!Row(o, e) : o \in named, e \in named \cup {None}}

FormOk(f, allowed, current) ==
  /\ f.row \in allowed
  /\ f.edits \in BOOLEAN /\ f.fresh \in BOOLEAN
  /\ f = [row |-> f.row, edits |-> f.edits, fresh |-> f.fresh]
  /\ f.fresh /\ ~f.edits => f.row = current

OperatorInv ==
  /\ DOMAIN form = Operated!AllUsers
  /\ form = [u \in Operated!AllUsers |-> form[u]]
  /\ \A u \in Operated!AllUsers : form[u] = None \/ FormOk(form[u], NamedRows, process)
  /\ process \in NamedRows

LEMMA FormsName ==
  ASSUME Operated!OperatorsAssumption, process \in NamedRows, NEW user \in Operated!AllUsers,
         NEW x \in Operated!Sent(user), NEW rec \in Operated!clean(user, x)
  PROVE  \E o \in named \cup Operated!NamedIn(user, x), e \in named \cup {None} \cup Operated!NamedIn(user, x) :
           rec = Operated!Row(o, e)
<1>1. process.operator \in named /\ process.external \in named \cup {None}
  BY DEF NamedRows, Operated!Row
<1>2. /\ x.operator \in Operated!AllUsers \cup {None}
      /\ x.external \in Operated!Existing \cup {None}
      /\ user \notin Superusers => x.combined \in Operated!set_choices(user)
      /\ user \in Superusers => x.combined \in Operated!AllUsers \cup Operated!Existing \cup {None}
  BY DEF Operated!Sent
<1> DEFINE names == Operated!NamedIn(user, x)
<1>3. /\ user \in names
      /\ x.operator \in names \cup {None}
      /\ x.external \in names \cup {None}
  BY DEF Operated!NamedIn
<1>4. x.combined \in names \cup named \cup {None}
  <2>1. CASE user \in Superusers
    BY <2>1 DEF Operated!NamedIn
  <2>2. CASE user \notin Superusers
    BY <1>1, <1>2, <1>3, <2>2 DEF Operated!set_choices, Operated!NamedIn, Operated!Existing
  <2> QED
    BY <2>1, <2>2
<1>5. None \notin Operated!AllUsers
  BY DEF Operated!OperatorsAssumption, Operated!AllUsers
<1> DEFINE final == IF x.combined \in Operated!AllUsers THEN x.combined ELSE x.operator
           o == IF final = None THEN user ELSE final
           e == IF x.combined \in Externals THEN x.combined ELSE x.external
<1>6. rec = Operated!Row(o, e)
  BY DEF Operated!clean
<1>7. o \in names \cup named
  BY <1>3, <1>4, <1>5
<1>8. e \in names \cup named \cup {None}
  BY <1>3, <1>4
<1> QED
  BY <1>6, <1>7, <1>8

LEMMA OperatorStep ==
  ASSUME Operated!OperatorsAssumption, OperatorInv, [Operated!Next]_(Operated!vars)
  PROVE  OperatorInv'
<1> USE DEF OperatorInv
<1>1. ASSUME NEW user \in Operated!AllUsers, Operated!edit_process(user)
      PROVE  OperatorInv'
  <2>1. PICK x \in Operated!Sent(user) : \E rec \in Operated!clean(user, x) :
          /\ form' = [form EXCEPT ![user] = Operated!Job(rec, TRUE)]
          /\ named' = named \cup Operated!NamedIn(user, x)
    BY <1>1 DEF Operated!edit_process
  <2>2. PICK rec \in Operated!clean(user, x) :
          /\ form' = [form EXCEPT ![user] = Operated!Job(rec, TRUE)]
          /\ named' = named \cup Operated!NamedIn(user, x)
    BY <2>1
  <2>3. UNCHANGED process
    BY <1>1 DEF Operated!edit_process
  <2>4. rec \in NamedRows'
    <3>1. \E o \in named \cup Operated!NamedIn(user, x), e \in named \cup {None} \cup Operated!NamedIn(user, x) :
            rec = Operated!Row(o, e)
      BY FormsName
    <3> QED
      BY <2>2, <3>1 DEF NamedRows
  <2>5. NamedRows \subseteq NamedRows'
    BY <2>2 DEF NamedRows
  <2>6. FormOk(Operated!Job(rec, TRUE), NamedRows', process')
    BY <2>4 DEF FormOk, Operated!Job
  <2>7. \A u \in Operated!AllUsers : form'[u] = None \/ FormOk(form'[u], NamedRows', process')
    BY <2>2, <2>3, <2>5, <2>6 DEF FormOk
  <2> QED
    BY <2>2, <2>3, <2>5, <2>7
<1>2. ASSUME NEW user \in Operated!AllUsers, Operated!new(user)
      PROVE  OperatorInv'
  BY <1>2 DEF Operated!new, NamedRows
<1>3. ASSUME NEW user \in Operated!AllUsers, Operated!edit(user)
      PROVE  OperatorInv'
  <2>1. UNCHANGED <<process, named>> /\ (form' = form \/ form' = [form EXCEPT ![user] = Operated!Job(process, FALSE)])
    BY <1>3 DEF Operated!edit
  <2>2. NamedRows' = NamedRows
    BY <2>1 DEF NamedRows
  <2>3. FormOk(Operated!Job(process, FALSE), NamedRows', process')
    BY <2>1, <2>2 DEF FormOk, Operated!Job
  <2>4. \A u \in Operated!AllUsers : form'[u] = None \/ FormOk(form'[u], NamedRows', process')
    BY <2>1, <2>2, <2>3
  <2> QED
    BY <2>1, <2>2, <2>4
<1>4. ASSUME NEW user \in Operated!AllUsers, Operated!save(user)
      PROVE  OperatorInv'
  <2>1. /\ form[user] # None
        /\ process' = form[user].row
        /\ form' = [u \in Operated!AllUsers |->
                      IF u = user \/ form[u] = None THEN None ELSE [form[u] EXCEPT !.fresh = FALSE]]
        /\ UNCHANGED named
    BY <1>4 DEF Operated!save
  <2>2. NamedRows' = NamedRows
    BY <2>1 DEF NamedRows
  <2>3. process' \in NamedRows'
    BY <2>1, <2>2 DEF FormOk
  <2>4. ASSUME NEW u \in Operated!AllUsers, form'[u] # None
        PROVE  FormOk(form'[u], NamedRows', process')
    <3>1. form[u] # None /\ form'[u] = [form[u] EXCEPT !.fresh = FALSE]
      BY <2>1, <2>4
    <3>2. form'[u] = [row |-> form[u].row, edits |-> form[u].edits, fresh |-> FALSE]
      BY <3>1 DEF FormOk
    <3>3. form'[u].row = form[u].row /\ form'[u].edits = form[u].edits /\ form'[u].fresh = FALSE
      BY <3>2
    <3> QED
      BY <2>2, <3>1, <3>2, <3>3 DEF FormOk
  <2> QED
    BY <2>1, <2>3, <2>4
<1>5. CASE UNCHANGED Operated!vars
  BY <1>5 DEF Operated!vars, NamedRows
<1> QED
  BY <1>1, <1>2, <1>3, <1>4, <1>5 DEF Operated!Next

(* For any users and external operators, and whatever requests overlap:    *)
(* the operator and the external operator of a process have taken part or  *)
(* were named, and the edit of an external operator that nobody overtakes  *)
(* leaves the process as it was edited.                                    *)
THEOREM OperatorsAreNamed == Operated!OperatorsAssumption => (Operated!Spec => []OperatorsAreKnown)
<1> SUFFICES ASSUME Operated!OperatorsAssumption
             PROVE  Operated!Spec => []OperatorsAreKnown
  OBVIOUS
<1>1. Operated!Init => OperatorInv
  <2> SUFFICES ASSUME Operated!Init PROVE OperatorInv
    OBVIOUS
  <2>1. process \in NamedRows
    BY DEF Operated!Init, NamedRows
  <2>2. form = [u \in Operated!AllUsers |-> None]
    BY DEF Operated!Init
  <2> QED
    BY <2>1, <2>2 DEF OperatorInv
<1>2. OperatorInv /\ [Operated!Next]_(Operated!vars) => OperatorInv'
  BY OperatorStep
<1>3. OperatorInv => OperatorsAreKnown
  <2>1. process \in NamedRows => Operated!OperatorTookPart /\ Operated!ExternalIsKnown
    BY DEF NamedRows, Operated!Row, Operated!OperatorTookPart, Operated!ExternalIsKnown
  <2> QED
    BY <2>1 DEF OperatorInv, FormOk, OperatorsAreKnown, Operated!OperatorsAreKnown, Operated!TakesNothingBack
<1> QED
  BY <1>1, <1>2, <1>3, PTL DEF Operated!Spec
-----------------------------------------------------------------------------
(* Deletions.  What is stored, and what requests have in hand.            *)
DeletionTypes ==
  /\ samples \subseteq AllSamples
  /\ processes \subseteq Processes
  /\ contains \subseteq AllSamples \X processes
  /\ job \in [Requests -> Deleted!Deletion \cup Deleted!Edit \cup {None}]
  /\ mixed \subseteq Processes

OnlyIn(p, s) == \A t \in AllSamples : <<t, p>> \in contains <=> t = s
OtherThan(p, s) == \E t \in AllSamples \ {s} : <<t, p>> \in contains

(* What a deletion knows of the processes of its sample is true: those to  *)
(* look at are still processes of the sample, those that go have no other  *)
(* sample, and those that stay have one; but for mixed processes.          *)
KnowsTheRest(q) ==
  LET s == job[q].sample
      going == job[q].gone \cup ({job[q].last} \ {None})
  IN  /\ job[q].todo \cap going = {}
      /\ job[q].last \notin job[q].gone
      /\ \A p \in job[q].todo : <<s, p>> \in contains \/ p \in mixed
      /\ \A p \in going : OnlyIn(p, s) \/ p \in mixed
      /\ \A p \in Processes \ (job[q].todo \cup going) : <<s, p>> \in contains => OtherThan(p, s) \/ p \in mixed

DeletionInv ==
  /\ DeletionTypes
  /\ \A q \in Deleted!Deleting : KnowsTheRest(q)
  /\ Deleted!EmptyOnlyIfMixed

(* The count of the samples tells whether there is exactly one.            *)
LEMMA CountTells ==
  ASSUME Deleted!DeletionsAssumption, NEW p, NEW s \in AllSamples, <<s, p>> \in contains
  PROVE  Deleted!HasOneSample(p) <=> OnlyIn(p, s)
<1>1. IsFiniteSet(AllSamples)
  BY DEF Deleted!DeletionsAssumption, Deleted!IsFiniteSet, IsFiniteSet
<1>2. IsFiniteSet(Deleted!SamplesOf(p))
  BY <1>1, FS_Subset DEF Deleted!SamplesOf
<1>3. Deleted!HasOneSample(p) <=> Cardinality(Deleted!SamplesOf(p)) = 1
  BY DEF Deleted!HasOneSample, Deleted!Cardinality, Cardinality
<1>4. Deleted!HasOneSample(p) <=> \E t : Deleted!SamplesOf(p) = {t}
  BY <1>2, <1>3, FS_Singleton
<1>5. \A t : t \in Deleted!SamplesOf(p) <=> t \in AllSamples /\ <<t, p>> \in contains
  BY DEF Deleted!SamplesOf
<1> DEFINE S == Deleted!SamplesOf(p)
<1>6. s \in S
  BY <1>5
<1> HIDE DEF S
<1>7. (\E t : S = {t}) <=> S = {s}
  BY <1>6
<1>8. S = {s} <=> \A t \in AllSamples : <<t, p>> \in contains <=> t = s
  BY <1>5, <1>6 DEF S
<1> QED
  BY <1>4, <1>7, <1>8 DEF OnlyIn, S

(* One step of a deletion does not change what the others know.            *)
LEMMA OthersKnow ==
  ASSUME Deleted!DeletionsAssumption, DeletionInv, NEW q \in Requests, NEW new \in Deleted!Deletion \cup Deleted!Edit \cup {None},
         job' = [job EXCEPT ![q] = new], UNCHANGED <<samples, processes, contains, mixed>>,
         new # None /\ new.does = "delete" => KnowsTheRest(q)'
  PROVE  DeletionInv'
<1> USE DEF DeletionInv
<1>1. DeletionTypes'
  BY DEF DeletionTypes
<1>2. ASSUME NEW r \in Deleted!Deleting'
      PROVE  KnowsTheRest(r)'
  <2>1. CASE r = q
    BY <1>2, <2>1 DEF Deleted!Deleting, DeletionTypes
  <2>2. CASE r # q
    <3>1. job'[r] = job[r] /\ r \in Deleted!Deleting
      BY <1>2, <2>2 DEF Deleted!Deleting, DeletionTypes
    <3>2. KnowsTheRest(r)
      BY <3>1
    <3>3. \A p, s : (OnlyIn(p, s)' <=> OnlyIn(p, s)) /\ (OtherThan(p, s)' <=> OtherThan(p, s))
      BY DEF OnlyIn, OtherThan
    <3> QED
      BY <3>1, <3>2, <3>3 DEF KnowsTheRest
  <2> QED
    BY <2>1, <2>2
<1>3. Deleted!EmptyOnlyIfMixed'
  BY DEF Deleted!EmptyOnlyIfMixed
<1> QED
  BY <1>1, <1>2, <1>3

(* What changes the samples of processes leaves a deletion with what it    *)
(* knows, unless it is misled and the process is mixed from then on.       *)
LEMMA UnlessMisled ==
  ASSUME DeletionInv, DeletionTypes', NEW r \in Deleted!Deleting, job'[r] = job[r], mixed \subseteq mixed',
         \A p \in Processes \ mixed' : r \notin Deleted!Misled(p, Deleted!SamplesOf(p), Deleted!SamplesOf(p)')
  PROVE  KnowsTheRest(r)'
<1> DEFINE s == job[r].sample
           todo_ == job[r].todo
           going == job[r].gone \cup ({job[r].last} \ {None})
<1>1. KnowsTheRest(r)
  BY DEF DeletionInv
<1>2. s \in AllSamples /\ todo_ \subseteq Processes /\ going \subseteq Processes
  BY DEF Deleted!Deleting, Deleted!Deletion, Deleted!Edit, DeletionInv, DeletionTypes
<1>3. ASSUME NEW p \in Processes, p \notin mixed'
      PROVE  \/ \A t \in AllSamples : <<t, p>> \in contains <=> <<t, p>> \in contains'
             \/ p \in todo_ /\ <<s, p>> \in contains'
             \/ <<s, p>> \notin contains /\ <<s, p>> \notin contains'
  <2>1. r \notin Deleted!Misled(p, Deleted!SamplesOf(p), Deleted!SamplesOf(p)')
    BY <1>3
  <2>2. \A t \in AllSamples : (t \in Deleted!SamplesOf(p) <=> <<t, p>> \in contains) /\
                           (t \in Deleted!SamplesOf(p)' <=> <<t, p>> \in contains')
    BY DEF Deleted!SamplesOf
  <2> QED
    BY <1>2, <2>1, <2>2 DEF Deleted!Misled
<1>4. ASSUME NEW p \in todo_
      PROVE  <<s, p>> \in contains' \/ p \in mixed'
  BY <1>1, <1>2, <1>3, <1>4 DEF KnowsTheRest
<1>5. ASSUME NEW p \in going
      PROVE  (\A t \in AllSamples : <<t, p>> \in contains' <=> t = s) \/ p \in mixed'
  BY <1>1, <1>2, <1>3, <1>5 DEF KnowsTheRest, OnlyIn
<1>6. ASSUME NEW p \in Processes \ (todo_ \cup going), <<s, p>> \in contains'
      PROVE  (\E t \in AllSamples \ {s} : <<t, p>> \in contains') \/ p \in mixed'
  BY <1>1, <1>2, <1>3, <1>6 DEF KnowsTheRest, OtherThan
<1>7. todo_ \cap going = {} /\ job[r].last \notin job[r].gone
  BY <1>1 DEF KnowsTheRest
<1> QED
  BY <1>4, <1>5, <1>6, <1>7 DEF KnowsTheRest, OnlyIn, OtherThan

LEMMA DeletionBegins ==
  ASSUME Deleted!DeletionsAssumption, DeletionInv, NEW q \in Requests, Deleted!delete(q) \/ Deleted!edit(q)
  PROVE  DeletionInv'
<1>1. CASE Deleted!delete(q)
  <2>1. PICK s \in samples :
          job' = [job EXCEPT ![q] = [does |-> "delete", sample |-> s, todo |-> Deleted!ProcessesOf(s), last |-> None,
                                     gone |-> {}]]
    BY <1>1 DEF Deleted!delete
  <2> DEFINE new == [does |-> "delete", sample |-> s, todo |-> Deleted!ProcessesOf(s), last |-> None, gone |-> {}]
  <2>2. new \in Deleted!Deletion
    BY DEF Deleted!Deletion, Deleted!ProcessesOf, DeletionInv, DeletionTypes
  <2>3. UNCHANGED <<samples, processes, contains, mixed>>
    BY <1>1 DEF Deleted!delete
  <2>4. job'[q] = new
    BY <2>1 DEF DeletionInv, DeletionTypes
  <2>5. KnowsTheRest(q)'
    BY <2>3, <2>4 DEF KnowsTheRest, Deleted!ProcessesOf
  <2> QED
    BY <2>1, <2>2, <2>3, <2>5, OthersKnow
<1>2. CASE Deleted!edit(q)
  <2>1. PICK p \in processes, list \in (SUBSET samples) \ {{}} :
          job' = [job EXCEPT ![q] = [does |-> "edit", process |-> p, sample_list |-> list]]
    BY <1>2 DEF Deleted!edit
  <2>2. [does |-> "edit", process |-> p, sample_list |-> list] \in Deleted!Edit
    BY DEF Deleted!Edit, DeletionInv, DeletionTypes
  <2>3. UNCHANGED <<samples, processes, contains, mixed>>
    BY <1>2 DEF Deleted!edit
  <2> QED
    BY <2>1, <2>2, <2>3, OthersKnow
<1> QED
  BY <1>1, <1>2

LEMMA DeletionCounts ==
  ASSUME Deleted!DeletionsAssumption, DeletionInv, NEW q \in Requests, Deleted!CountSamples(q)
  PROVE  DeletionInv'
<1>1. PICK p \in job[q].todo :
        job' = [job EXCEPT ![q].todo = @ \ {p}, ![q].last = IF Deleted!HasOneSample(p) THEN p ELSE None]
  BY DEF Deleted!CountSamples
<1> DEFINE new == [job[q] EXCEPT !.todo = @ \ {p}, !.last = IF Deleted!HasOneSample(p) THEN p ELSE None]
<1>2. q \in Deleted!Deleting /\ job[q].last = None /\ UNCHANGED <<samples, processes, contains, mixed>>
  BY DEF Deleted!CountSamples
<1>3. KnowsTheRest(q)
  BY <1>2 DEF DeletionInv
<1>4. job[q] \in Deleted!Deletion /\ job[q].sample \in AllSamples /\ p \in Processes /\ p # None
  BY <1>2 DEF DeletionInv, DeletionTypes, Deleted!Deleting, Deleted!Deletion, Deleted!Edit,
       Deleted!DeletionsAssumption
<1>5. job' = [job EXCEPT ![q] = new] /\ new \in Deleted!Deletion
  BY <1>1, <1>4 DEF DeletionInv, DeletionTypes, Deleted!Deletion
<1>6. /\ job'[q].sample = job[q].sample /\ job'[q].gone = job[q].gone
      /\ job'[q].todo = job[q].todo \ {p}
      /\ job'[q].last = IF Deleted!HasOneSample(p) THEN p ELSE None
  BY <1>4, <1>5 DEF DeletionInv, DeletionTypes, Deleted!Deletion
<1>7. <<job[q].sample, p>> \in contains \/ p \in mixed
  BY <1>3 DEF KnowsTheRest
<1>8. <<job[q].sample, p>> \in contains => (Deleted!HasOneSample(p) <=> OnlyIn(p, job[q].sample))
  BY <1>4, CountTells
<1>9. <<job[q].sample, p>> \in contains /\ ~OnlyIn(p, job[q].sample) => OtherThan(p, job[q].sample)
  BY DEF OnlyIn, OtherThan
<1>10. KnowsTheRest(q)'
  BY <1>2, <1>3, <1>4, <1>6, <1>7, <1>8, <1>9 DEF KnowsTheRest, OnlyIn, OtherThan
<1> QED
  BY <1>2, <1>5, <1>10, OthersKnow

LEMMA ProcessIsDeleted ==
  ASSUME Deleted!DeletionsAssumption, DeletionInv, NEW q \in Requests, Deleted!DeleteProcess(q)
  PROVE  DeletionInv'
<1> DEFINE new == [job[q] EXCEPT !.gone = @ \cup {job[q].last}, !.last = None]
<1>1. /\ q \in Deleted!Deleting /\ job[q].last # None
      /\ job' = [job EXCEPT ![q].gone = @ \cup {job[q].last}, ![q].last = None]
      /\ UNCHANGED <<samples, processes, contains, mixed>>
  BY DEF Deleted!DeleteProcess
<1>2. KnowsTheRest(q)
  BY <1>1 DEF DeletionInv
<1>3. job[q] \in Deleted!Deletion /\ job[q].last \in Processes
  BY <1>1 DEF DeletionInv, DeletionTypes, Deleted!Deleting, Deleted!Deletion, Deleted!Edit
<1>4. job' = [job EXCEPT ![q] = new] /\ new \in Deleted!Deletion
  BY <1>1, <1>3 DEF DeletionInv, DeletionTypes, Deleted!Deletion
<1>5. /\ job'[q].sample = job[q].sample /\ job'[q].gone = job[q].gone \cup {job[q].last}
      /\ job'[q].todo = job[q].todo
      /\ job'[q].last = None
  BY <1>3, <1>4 DEF DeletionInv, DeletionTypes, Deleted!Deletion
<1>6. job[q].gone \subseteq Processes /\ None \notin job'[q].gone
  BY <1>1, <1>3, <1>5 DEF Deleted!Deletion, Deleted!DeletionsAssumption
<1>7. job'[q].gone \cup ({job'[q].last} \ {None}) = job[q].gone \cup ({job[q].last} \ {None})
  BY <1>1, <1>5
<1>8. KnowsTheRest(q)'
  <2>1. /\ job'[q].todo \cap (job'[q].gone \cup ({job'[q].last} \ {None})) = {}
        /\ job'[q].last \notin job'[q].gone
    BY <1>2, <1>5, <1>6, <1>7 DEF KnowsTheRest
  <2>2. \A p \in job'[q].gone \cup ({job'[q].last} \ {None}) : OnlyIn(p, job[q].sample) \/ p \in mixed
    BY <1>2, <1>7 DEF KnowsTheRest
  <2>3. \A p \in Processes \ (job'[q].todo \cup (job'[q].gone \cup ({job'[q].last} \ {None}))) :
          <<job[q].sample, p>> \in contains => OtherThan(p, job[q].sample) \/ p \in mixed
    BY <1>2, <1>5, <1>7 DEF KnowsTheRest
  <2>4. \A p \in job'[q].todo : <<job[q].sample, p>> \in contains \/ p \in mixed
    BY <1>2, <1>5 DEF KnowsTheRest
  <2>5. job'[q].sample = job[q].sample /\ contains' = contains /\ mixed' = mixed
    BY <1>1, <1>5
  <2> QED
    BY <2>1, <2>2, <2>3, <2>4, <2>5 DEF KnowsTheRest, OnlyIn, OtherThan
<1> QED
  BY <1>1, <1>4, <1>8, OthersKnow

LEMMA SampleIsDeleted ==
  ASSUME Deleted!DeletionsAssumption, DeletionInv, NEW q \in Requests, Deleted!DeleteSample(q)
  PROVE  DeletionInv' /\ Deleted!SurvivorsKeep
<1> DEFINE s == job[q].sample
           gone == job[q].gone
<1>1. /\ q \in Deleted!Deleting /\ job[q].todo = {} /\ job[q].last = None
      /\ samples' = samples \ {s}
      /\ processes' = processes \ gone
      /\ contains' = {x \in contains : x[1] # s /\ x[2] \notin gone}
      /\ job' = [job EXCEPT ![q] = None]
  BY DEF Deleted!DeleteSample
<1>2. mixed' = mixed \cup {p \in Deleted!ProcessesOf(s) :
                             Deleted!Misled(p, Deleted!SamplesOf(p), Deleted!SamplesOf(p) \ {s}) \ {q} # {}}
  BY DEF Deleted!DeleteSample
<1>3. s \in AllSamples /\ gone \subseteq Processes /\ None \notin gone
  BY <1>1 DEF DeletionInv, DeletionTypes, Deleted!Deleting, Deleted!Deletion, Deleted!Edit,
       Deleted!DeletionsAssumption
<1>4. KnowsTheRest(q)
  BY <1>1 DEF DeletionInv
<1>5. \A p \in gone : OnlyIn(p, s) \/ p \in mixed
  BY <1>4 DEF KnowsTheRest
<1>6. \A p \in Processes \ gone : <<s, p>> \in contains => OtherThan(p, s) \/ p \in mixed
  BY <1>1, <1>3, <1>4 DEF KnowsTheRest
<1>7. DeletionTypes'
  BY <1>1, <1>2 DEF DeletionInv, DeletionTypes, Deleted!ProcessesOf
<1>8. ASSUME NEW r \in Deleted!Deleting'
      PROVE  KnowsTheRest(r)'
  <2>1. r # q /\ r \in Deleted!Deleting /\ job'[r] = job[r]
    BY <1>1, <1>8 DEF Deleted!Deleting, DeletionInv, DeletionTypes
  <2>2. ASSUME NEW p \in Processes, p \notin mixed'
        PROVE  r \notin Deleted!Misled(p, Deleted!SamplesOf(p), Deleted!SamplesOf(p)')
    <3>1. Deleted!SamplesOf(p)' = Deleted!SamplesOf(p) \ {s}
      <4>1. CASE p \in gone
        BY <1>1, <1>2, <1>5, <2>2, <4>1 DEF Deleted!SamplesOf, OnlyIn
      <4>2. CASE p \notin gone
        BY <1>1, <4>2 DEF Deleted!SamplesOf
      <4> QED
        BY <4>1, <4>2
    <3>2. CASE <<s, p>> \in contains
      BY <1>2, <2>1, <2>2, <3>1, <3>2 DEF Deleted!ProcessesOf
    <3>3. CASE <<s, p>> \notin contains
      BY <3>1, <3>3 DEF Deleted!SamplesOf, Deleted!Misled
    <3> QED
      BY <3>2, <3>3
  <2> QED
    BY <1>2, <1>7, <2>1, <2>2, UnlessMisled
<1>9. Deleted!EmptyOnlyIfMixed'
  <2> SUFFICES ASSUME NEW p \in processes', p \notin mixed'
               PROVE  \E x \in contains' : x[2] = p
    BY DEF Deleted!EmptyOnlyIfMixed
  <2>1. p \in processes /\ p \in Processes \ gone /\ p \notin mixed
    BY <1>1, <1>2 DEF DeletionInv, DeletionTypes
  <2>2. PICK x \in contains : x[2] = p
    BY <2>1 DEF DeletionInv, Deleted!EmptyOnlyIfMixed
  <2>3. CASE x[1] # s
    BY <1>1, <2>1, <2>2, <2>3
  <2>4. CASE x[1] = s
    <3>1. <<s, p>> \in contains
      BY <2>2, <2>4 DEF DeletionInv, DeletionTypes
    <3>2. PICK t \in AllSamples \ {s} : <<t, p>> \in contains
      BY <1>6, <2>1, <3>1 DEF OtherThan
    <3> QED
      BY <1>1, <2>1, <3>2
  <2> QED
    BY <2>3, <2>4
<1>10. Deleted!SurvivorsKeep
  <2> SUFFICES ASSUME NEW x \in contains, x[1] \in samples', x[2] \notin processes'
               PROVE  x[2] \in mixed'
    BY DEF Deleted!SurvivorsKeep
  <2>1. x[1] \in AllSamples /\ x[1] # s /\ x[2] \in gone /\ x = <<x[1], x[2]>>
    BY <1>1 DEF DeletionInv, DeletionTypes
  <2> QED
    BY <1>2, <1>5, <2>1 DEF OnlyIn
<1> QED
  BY <1>7, <1>8, <1>9, <1>10 DEF DeletionInv

LEMMA EditIsSaved ==
  ASSUME Deleted!DeletionsAssumption, DeletionInv, NEW q \in Requests, Deleted!save_to_database(q)
  PROVE  DeletionInv' /\ Deleted!SurvivorsKeep
<1>1. /\ job[q] # None /\ job[q].does = "edit"
      /\ job' = [job EXCEPT ![q] = None] /\ samples' = samples
  BY DEF Deleted!save_to_database
<1>2. PICK p \in Processes, list \in (SUBSET AllSamples) \ {{}} : p = job[q].process /\ list = job[q].sample_list
  BY <1>1 DEF DeletionInv, DeletionTypes, Deleted!Deletion, Deleted!Edit
<1>3. CASE ~(list \subseteq samples)
  <2>1. UNCHANGED <<samples, processes, contains, mixed>>
    BY <1>1, <1>2, <1>3 DEF Deleted!save_to_database
  <2>2. DeletionInv'
    BY <1>1, <2>1, OthersKnow
  <2> QED
    BY <2>1, <2>2 DEF Deleted!SurvivorsKeep, DeletionInv, DeletionTypes
<1>4. CASE list \subseteq samples
  <2>1. /\ processes' = processes \cup {p}
        /\ contains' = {x \in contains : x[2] # p} \cup (list \X {p})
        /\ mixed' = IF Deleted!Misled(p, Deleted!SamplesOf(p), list) # {} THEN mixed \cup {p} ELSE mixed
    BY <1>2, <1>4 DEF Deleted!save_to_database
  <2>2. DeletionTypes'
    BY <1>1, <1>2, <2>1 DEF DeletionInv, DeletionTypes
  <2>3. ASSUME NEW r \in Deleted!Deleting'
        PROVE  KnowsTheRest(r)'
    <3>1. r # q /\ r \in Deleted!Deleting /\ job'[r] = job[r]
      BY <1>1, <2>3 DEF Deleted!Deleting, DeletionInv, DeletionTypes
    <3>2. ASSUME NEW o \in Processes \ mixed'
          PROVE  r \notin Deleted!Misled(o, Deleted!SamplesOf(o), Deleted!SamplesOf(o)')
      <4>1. CASE o = p
        <5>1. Deleted!SamplesOf(p)' = list
          BY <1>2, <2>1 DEF Deleted!SamplesOf
        <5> QED
          BY <2>1, <3>2, <4>1, <5>1
      <4>2. CASE o # p
        BY <2>1, <4>2 DEF Deleted!SamplesOf, Deleted!Misled
      <4> QED
        BY <4>1, <4>2
    <3> QED
      BY <2>1, <2>2, <3>1, <3>2, UnlessMisled
  <2>4. Deleted!EmptyOnlyIfMixed'
    <3> SUFFICES ASSUME NEW o \in processes', o \notin mixed'
                 PROVE  \E x \in contains' : x[2] = o
      BY DEF Deleted!EmptyOnlyIfMixed
    <3>1. CASE o = p
      <4>1. PICK t : t \in list
        BY <1>2
      <4>2. <<t, p>> \in contains' /\ <<t, p>>[2] = p
        BY <2>1, <4>1
      <4> QED
        BY <3>1, <4>2
    <3>2. CASE o # p
      BY <2>1, <3>2 DEF DeletionInv, Deleted!EmptyOnlyIfMixed
    <3> QED
      BY <3>1, <3>2
  <2> QED
    BY <2>1, <2>2, <2>3, <2>4 DEF DeletionInv, DeletionTypes, Deleted!SurvivorsKeep
<1> QED
  BY <1>3, <1>4

(* However many deletions and edits of the same samples and processes      *)
(* overlap: no process is left without samples, and no sample that stays   *)
(* loses a process, unless the samples of the process were changed while a *)
(* deletion relied on them.                                                *)
THEOREM OthersKeepTheirProcesses == Deleted!DeletionsAssumption => (Deleted!Spec => DeletionsKeepTheRest)
<1> SUFFICES ASSUME Deleted!DeletionsAssumption
             PROVE  Deleted!Spec => DeletionsKeepTheRest
  OBVIOUS
<1>1. Deleted!Init => DeletionInv
  BY DEF Deleted!Init, Deleted!DeletionsAssumption, DeletionInv, DeletionTypes, Deleted!Deleting,
       Deleted!EmptyOnlyIfMixed
<1>2. ASSUME DeletionInv, [Deleted!Next]_(Deleted!vars)
      PROVE  DeletionInv' /\ [Deleted!DeletionsKeepTheRest]_deletion_vars
  <2>1. ASSUME UNCHANGED <<samples, processes, contains>>
        PROVE  Deleted!SurvivorsKeep
    BY <1>2, <2>1 DEF DeletionInv, DeletionTypes, Deleted!SurvivorsKeep
  <2>2. ASSUME NEW q \in Requests, Deleted!delete(q) \/ Deleted!edit(q)
        PROVE  DeletionInv' /\ Deleted!SurvivorsKeep
    BY <1>2, <2>1, <2>2, DeletionBegins DEF Deleted!delete, Deleted!edit
  <2>3. ASSUME NEW q \in Requests, Deleted!CountSamples(q)
        PROVE  DeletionInv' /\ Deleted!SurvivorsKeep
    BY <1>2, <2>1, <2>3, DeletionCounts DEF Deleted!CountSamples
  <2>4. ASSUME NEW q \in Requests, Deleted!DeleteProcess(q)
        PROVE  DeletionInv' /\ Deleted!SurvivorsKeep
    BY <1>2, <2>1, <2>4, ProcessIsDeleted DEF Deleted!DeleteProcess
  <2>5. ASSUME NEW q \in Requests, Deleted!DeleteSample(q)
        PROVE  DeletionInv' /\ Deleted!SurvivorsKeep
    BY <1>2, <2>5, SampleIsDeleted
  <2>6. ASSUME NEW q \in Requests, Deleted!save_to_database(q)
        PROVE  DeletionInv' /\ Deleted!SurvivorsKeep
    BY <1>2, <2>6, EditIsSaved
  <2>7. CASE UNCHANGED Deleted!vars
    BY <1>2, <2>7 DEF Deleted!vars, deletion_vars, DeletionInv, DeletionTypes, Deleted!Deleting, KnowsTheRest,
         OnlyIn,
                      OtherThan, Deleted!EmptyOnlyIfMixed
  <2>8. DeletionInv' => Deleted!EmptyOnlyIfMixed'
    BY DEF DeletionInv
  <2> QED
    BY <1>2, <2>2, <2>3, <2>4, <2>5, <2>6, <2>7, <2>8 DEF Deleted!Next, Deleted!DeletionsKeepTheRest
<1> QED
  BY <1>1, <1>2, PTL DEF Deleted!Spec, DeletionsKeepTheRest
-----------------------------------------------------------------------------
(* Remote.  What programs, server and connections can be in.               *)
OnTheWay == {"enter", "submit", "exit"}

RemoteTypes ==
  /\ my_samples \subseteq AllSamples
  /\ results \in [Clients -> Nat]
  /\ phase \in [Clients -> OnTheWay \cup {"begin", "end"}]
  /\ outcome \in [Clients -> {"fine", "refused", "unreachable"}]
  /\ changed_sample_ids \in [Clients -> SUBSET AllSamples]
  /\ cycles \in [Clients -> 1 .. MaxCycles]
  /\ wire \in [Clients -> {"none", "reached", "answered"}]
  /\ answer \in [Clients -> SUBSET AllSamples]
  /\ orphans \subseteq [client : broken, phase : OnTheWay, ids : SUBSET AllSamples, cycle : 1 .. MaxCycles]
  /\ broken \subseteq Clients

(* What is on the way belongs to a program, and is about its samples; what *)
(* only the last request does happens only after the one before.           *)
RemoteOrder ==
  /\ \A c \in Clients :
       /\ changed_sample_ids[c] \subseteq Ids[c] /\ answer[c] \subseteq Ids[c]
       /\ wire[c] # "none" => phase[c] \in OnTheWay
  /\ \A o \in orphans : o.ids \subseteq Ids[o.client] /\ (o.phase = "exit" => phase[o.client] \in {"exit", "end"})

(* Between the answers to the first and to the second request, the samples *)
(* of a program are on My Samples, and so the second one is not refused.   *)
Entered(c) == phase[c] = "submit" \/ (phase[c] = "enter" /\ wire[c] = "answered")

ServedTo(c) ==
  /\ Entered(c) => Ids[c] \subseteq my_samples
  /\ phase[c] = "submit" /\ wire[c] = "answered" => answer[c] # {}
  /\ outcome[c] # "refused"

Served == \A c \in Clients \ robbed : ServedTo(c)

(* The result is stored from the answer to the second request on.          *)
Counted(c) ==
  \/ phase[c] = "submit" /\ wire[c] = "answered"
  \/ phase[c] \in {"exit", "end"} /\ outcome[c] = "fine"

StoredOnce(c) == results[c] = IF Counted(c) THEN 1 ELSE 0

Stored == \A c \in Clients \ (broken \cup robbed) : StoredOnce(c)

(* A sample is on My Samples only because of a program, which will take it *)
(* away again.                                                             *)
Holds(c, s) ==
  \/ phase[c] = "enter" /\ wire[c] = "answered" /\ s \in answer[c]
  \/ phase[c] = "submit" /\ s \in changed_sample_ids[c]
  \/ phase[c] = "exit" /\ wire[c] # "answered" /\ s \in changed_sample_ids[c]

Undisturbed(s) == \A c \in Clients : s \in Ids[c] => c \notin broken

(* What the user has put on My Samples herself is not on it because of a   *)
(* program, nor is anything there because of two of them.                  *)
HeldByOne(s) ==
  /\ s \in my_samples <=> s \in Own \/ \E c \in Clients : Holds(c, s)
  /\ \A c, d \in Clients : Holds(c, s) /\ Holds(d, s) => c = d
  /\ s \in Own => \A c \in Clients : ~Holds(c, s)

Restored == \A s \in AllSamples : Undisturbed(s) => HeldByOne(s)

RemoteInv == RemoteTypes /\ RemoteOrder /\ Served /\ Stored /\ Restored

(* What a program does after an attempt that has failed.                   *)
LEMMA TriesAgain ==
  ASSUME Submitted!RemoteAssumption, RemoteTypes, NEW c \in Clients, phase[c] \in OnTheWay,
         Submitted!TryAgain(c)
  PROVE  /\ phase' \in [Clients -> OnTheWay \cup {"begin", "end"}]
         /\ outcome' \in [Clients -> {"fine", "refused", "unreachable"}]
         /\ cycles' \in [Clients -> 1 .. MaxCycles]
         /\ \A d \in Clients \ {c} : phase'[d] = phase[d] /\ outcome'[d] = outcome[d]
         /\ \/ phase'[c] = phase[c] /\ outcome'[c] = outcome[c]
            \/ /\ cycles[c] = 1 /\ phase[c] \in {"enter", "exit"}
               /\ phase'[c] = "end" /\ outcome'[c] = "unreachable"
            \/ /\ phase[c] = "submit" /\ outcome'[c] = "unreachable"
               /\ phase'[c] = IF changed_sample_ids[c] = {} THEN "end" ELSE "exit"
<1> USE DEF RemoteTypes, OnTheWay, Submitted!RemoteAssumption
<1>1. CASE cycles[c] > 1
  BY <1>1 DEF Submitted!TryAgain
<1>2. CASE ~(cycles[c] > 1)
  <2>1. cycles[c] = 1
    BY <1>2
  <2>2. CASE phase[c] = "submit"
    BY <1>2, <2>1, <2>2 DEF Submitted!TryAgain, Submitted!Goto, Submitted!AfterSubmit
  <2>3. CASE phase[c] # "submit"
    BY <1>2, <2>1, <2>3 DEF Submitted!TryAgain, Submitted!Goto
  <2> QED
    BY <2>2, <2>3
<1> QED
  BY <1>1, <1>2

(* What the server does for a program concerns its result and its samples  *)
(* only; and other programs that are inside have their samples as before,  *)
(* or have been robbed.                                                    *)
LEMMA Executes ==
  ASSUME Submitted!RemoteAssumption, RemoteTypes, NEW c \in Clients, NEW asking,
         asking.ids \subseteq Ids[c], Submitted!Execute(c, asking)
  PROVE  /\ my_samples' \subseteq AllSamples /\ results' \in [Clients -> Nat]
         /\ broken' = broken /\ robbed \subseteq robbed'
         /\ \A d \in Clients \ {c} : results'[d] = results[d]
         /\ \A s \in AllSamples \ Ids[c] : s \in my_samples' <=> s \in my_samples
         /\ \A d \in Clients \ (robbed' \cup {c}) : Submitted!IsInside(d) =>
              \A s \in Ids[d] : s \in my_samples' <=> s \in my_samples
<1> USE DEF RemoteTypes, Submitted!RemoteAssumption
<1>1. CASE asking.phase = "enter" /\ Submitted!change_my_samples(c, Ids[c], {})
  BY <1>1 DEF Submitted!change_my_samples
<1>2. CASE asking.phase = "submit" /\ Submitted!AddResult(c)
  BY <1>2 DEF Submitted!AddResult
<1>3. CASE asking.phase = "exit" /\ Submitted!change_my_samples(c, {}, asking.ids)
  BY <1>3 DEF Submitted!change_my_samples
<1> QED
  BY <1>1, <1>2, <1>3 DEF Submitted!Execute

LEMMA RequestsAreTyped ==
  ASSUME RemoteTypes, RemoteOrder, NEW c \in Clients, phase[c] \in OnTheWay
  PROVE  /\ Submitted!Request(c).client = c /\ Submitted!Request(c).phase = phase[c]
         /\ Submitted!Request(c).ids = changed_sample_ids[c]
         /\ Submitted!Request(c).ids \subseteq Ids[c]
         /\ \A B \in SUBSET Clients : c \in B =>
              Submitted!Request(c) \in [client : B, phase : OnTheWay, ids : SUBSET AllSamples, cycle : 1 .. MaxCycles]
BY DEF RemoteTypes, RemoteOrder, OnTheWay, Submitted!Request

LEMMA RemoteTypesStep ==
  ASSUME Submitted!RemoteAssumption, RemoteTypes, RemoteOrder, [Submitted!Next]_(Submitted!vars)
  PROVE  RemoteTypes'
<1>1. ASSUME NEW c \in Clients, Submitted!submit(c)
      PROVE  RemoteTypes'
  BY <1>1 DEF RemoteTypes, OnTheWay, Submitted!RemoteAssumption, Submitted!submit, Submitted!Goto
<1>2. ASSUME NEW c \in Clients, Submitted!Respond(c)
      PROVE  RemoteTypes'
  <2>1. changed_sample_ids' \in [Clients -> SUBSET AllSamples]
    BY <1>2 DEF RemoteTypes, Submitted!Respond
  <2>2. PICK place \in OnTheWay \cup {"end"}, how \in {"fine", "refused", "unreachable"} : Submitted!Goto(c, place, how)
    <3>1. outcome[c] \in {"fine", "refused", "unreachable"}
      BY DEF RemoteTypes
    <3> QED
      BY <1>2, <3>1 DEF OnTheWay, Submitted!Respond, Submitted!AfterSubmit
  <2> QED
    BY <1>2, <2>1, <2>2 DEF RemoteTypes, OnTheWay, Submitted!RemoteAssumption, Submitted!Respond, Submitted!Goto
<1>3. ASSUME NEW c \in Clients, Submitted!Reach(c)
      PROVE  RemoteTypes'
  BY <1>3 DEF RemoteTypes, Submitted!Reach, Submitted!client
<1>4. ASSUME NEW c \in Clients, Submitted!NoConnection(c)
      PROVE  RemoteTypes'
  BY <1>4, TriesAgain DEF RemoteTypes, OnTheWay, Submitted!NoConnection
<1>5. ASSUME NEW c \in Clients, Submitted!Break(c)
      PROVE  RemoteTypes'
  <2>1. phase[c] \in OnTheWay
    BY <1>5 DEF RemoteOrder, Submitted!Break
  <2>2. orphans' \subseteq [client : broken', phase : OnTheWay, ids : SUBSET AllSamples, cycle : 1 .. MaxCycles]
    <3>1. broken' = broken \cup {c} /\ broken' \subseteq Clients
      BY <1>5 DEF RemoteTypes, Submitted!Break
    <3>2. Submitted!Request(c) \in [client : broken', phase : OnTheWay, ids : SUBSET AllSamples, cycle : 1 .. MaxCycles]
      BY <2>1, <3>1, RequestsAreTyped
    <3>3. orphans \subseteq [client : broken', phase : OnTheWay, ids : SUBSET AllSamples, cycle : 1 .. MaxCycles]
      BY <3>1 DEF RemoteTypes
    <3> QED
      BY <1>5, <3>2, <3>3 DEF Submitted!Break
  <2> QED
    BY <1>5, <2>1, <2>2, TriesAgain DEF RemoteTypes, Submitted!Break
<1>6. ASSUME NEW c \in Clients, Submitted!Serve(c)
      PROVE  RemoteTypes'
  <2>1. phase[c] \in OnTheWay
    BY <1>6 DEF RemoteOrder, Submitted!Serve
  <2>2. Submitted!Reply(c) \in SUBSET AllSamples
    BY DEF RemoteTypes, Submitted!RemoteAssumption, Submitted!Reply, Submitted!Changed, Submitted!Selectable
  <2>3. my_samples' \subseteq AllSamples /\ results' \in [Clients -> Nat] /\ broken' = broken
    BY <1>6, <2>1, RequestsAreTyped, Executes DEF Submitted!Serve
  <2> QED
    BY <1>6, <2>2, <2>3 DEF RemoteTypes, Submitted!Serve, Submitted!client
<1>7. ASSUME Submitted!ServeOrphan
      PROVE  RemoteTypes'
  <2>1. PICK o \in orphans : orphans' = orphans \ {o} /\ Submitted!Execute(o.client, o)
    BY <1>7 DEF Submitted!ServeOrphan
  <2>2. o.client \in Clients /\ o.ids \subseteq Ids[o.client]
    BY DEF RemoteTypes, RemoteOrder
  <2>3. my_samples' \subseteq AllSamples /\ results' \in [Clients -> Nat] /\ broken' = broken
    BY <2>1, <2>2, Executes
  <2> QED
    BY <1>7, <2>1, <2>3 DEF RemoteTypes, Submitted!ServeOrphan, Submitted!client
<1>8. ASSUME UNCHANGED Submitted!vars
      PROVE  RemoteTypes'
  BY <1>8 DEF RemoteTypes, Submitted!vars, Submitted!client
<1> QED
  BY <1>1, <1>2, <1>3, <1>4, <1>5, <1>6, <1>7, <1>8 DEF Submitted!Next, Submitted!Network, Submitted!Program

LEMMA RemoteOrderStep ==
  ASSUME Submitted!RemoteAssumption, RemoteTypes, RemoteOrder, [Submitted!Next]_(Submitted!vars)
  PROVE  RemoteOrder'
<1>0. \A o \in orphans : o.client \in Clients
  BY DEF RemoteTypes
<1>1. ASSUME NEW c \in Clients, Submitted!submit(c)
      PROVE  RemoteOrder'
  <2>1. wire[c] = "none"
    BY <1>1 DEF RemoteTypes, RemoteOrder, OnTheWay, Submitted!submit
  <2> QED
    BY <1>0, <1>1, <2>1 DEF RemoteTypes, RemoteOrder, OnTheWay, Submitted!submit, Submitted!Goto
<1>2. ASSUME NEW c \in Clients, Submitted!Respond(c)
      PROVE  RemoteOrder'
  <2>1. phase[c] \in OnTheWay /\ wire'[c] = "none" /\ answer'[c] = {} /\ orphans' = orphans
    BY <1>2 DEF RemoteTypes, RemoteOrder, Submitted!Respond
  <2>2. changed_sample_ids'[c] \subseteq Ids[c]
    BY <1>2 DEF RemoteTypes, RemoteOrder, Submitted!Respond
  <2>3. \A d \in Clients \ {c} : /\ phase'[d] = phase[d] /\ wire'[d] = wire[d] /\ answer'[d] = answer[d]
                                 /\ changed_sample_ids'[d] = changed_sample_ids[d]
    BY <1>2 DEF RemoteTypes, Submitted!Respond, Submitted!Goto
  <2>4. phase[c] \in {"exit", "end"} => phase'[c] \in {"exit", "end"}
    BY <1>2 DEF RemoteTypes, Submitted!Respond, Submitted!Goto
  <2> QED
    BY <1>0, <2>1, <2>2, <2>3, <2>4 DEF RemoteOrder
<1>3. ASSUME NEW c \in Clients, Submitted!Reach(c)
      PROVE  RemoteOrder'
  BY <1>3 DEF RemoteTypes, RemoteOrder, OnTheWay, Submitted!Reach, Submitted!client
<1>4. ASSUME NEW c \in Clients, phase[c] \in OnTheWay, Submitted!TryAgain(c), wire' \in {wire, [wire EXCEPT ![c] = "none"]},
             wire'[c] = "none", UNCHANGED <<changed_sample_ids, answer>>,
             orphans' \in {orphans, orphans \cup {Submitted!Request(c)}}
      PROVE  RemoteOrder'
  <2>1. /\ \A d \in Clients \ {c} : phase'[d] = phase[d] /\ wire'[d] = wire[d]
        /\ phase[c] = "exit" => phase'[c] \in {"exit", "end"}
    BY <1>4, TriesAgain DEF RemoteTypes
  <2>2. \A d \in Clients : wire'[d] # "none" => phase'[d] \in OnTheWay
    BY <1>4, <2>1 DEF RemoteOrder
  <2>3. \A o \in orphans' : o.ids \subseteq Ids[o.client] /\ (o.phase = "exit" => phase'[o.client] \in {"exit", "end"})
    <3> SUFFICES ASSUME NEW o \in orphans'
                 PROVE  o.ids \subseteq Ids[o.client] /\ (o.phase = "exit" => phase'[o.client] \in {"exit", "end"})
      OBVIOUS
    <3>1. CASE o \in orphans
      BY <1>0, <1>4, <2>1, <3>1 DEF RemoteOrder, OnTheWay
    <3>2. CASE o = Submitted!Request(c)
      BY <1>4, <2>1, <3>2, RequestsAreTyped
    <3> QED
      BY <1>4, <3>1, <3>2
  <2> QED
    BY <1>4, <2>2, <2>3 DEF RemoteOrder
<1>5. ASSUME NEW c \in Clients, Submitted!NoConnection(c)
      PROVE  RemoteOrder'
  BY <1>4, <1>5 DEF OnTheWay, Submitted!NoConnection
<1>6. ASSUME NEW c \in Clients, Submitted!Break(c)
      PROVE  RemoteOrder'
  <2>1. phase[c] \in OnTheWay /\ wire'[c] = "none"
    BY <1>6 DEF RemoteTypes, RemoteOrder, Submitted!Break
  <2> QED
    BY <1>4, <1>6, <2>1 DEF Submitted!Break
<1>7. ASSUME NEW c \in Clients, Submitted!Serve(c)
      PROVE  RemoteOrder'
  <2>1. Submitted!Reply(c) \subseteq Ids[c]
    BY DEF RemoteOrder, Submitted!Reply, Submitted!Changed
  <2>2. phase[c] \in OnTheWay
    BY <1>7 DEF RemoteOrder, Submitted!Serve
  <2> QED
    BY <1>7, <2>1, <2>2 DEF RemoteTypes, RemoteOrder, Submitted!Serve, Submitted!client
<1>8. ASSUME Submitted!ServeOrphan
      PROVE  RemoteOrder'
  BY <1>8 DEF RemoteOrder, Submitted!ServeOrphan, Submitted!client
<1>9. ASSUME UNCHANGED Submitted!vars
      PROVE  RemoteOrder'
  BY <1>9 DEF RemoteOrder, Submitted!vars, Submitted!client
<1> QED
  BY <1>1, <1>2, <1>3, <1>5, <1>6, <1>7, <1>8, <1>9 DEF Submitted!Next, Submitted!Network, Submitted!Program

(* The samples of those who have not been robbed stay, and thus they get   *)
(* what they ask for.                                                      *)
LEMMA ServedStep ==
  ASSUME Submitted!RemoteAssumption, RemoteTypes, RemoteOrder, Served, [Submitted!Next]_(Submitted!vars)
  PROVE  Served'
<1>1. ASSUME NEW c \in Clients, Submitted!submit(c)
      PROVE  Served'
  <2>1. wire[c] = "none"
    BY <1>1 DEF RemoteTypes, RemoteOrder, OnTheWay, Submitted!submit
  <2> QED
    BY <1>1, <2>1 DEF RemoteTypes, Served, ServedTo, Entered, Submitted!submit, Submitted!Goto
<1>2. ASSUME NEW c \in Clients, Submitted!Respond(c)
      PROVE  Served'
  <2>1. UNCHANGED <<my_samples, robbed>> /\ wire'[c] = "none"
        /\ \A d \in Clients \ {c} : /\ phase'[d] = phase[d] /\ wire'[d] = wire[d] /\ answer'[d] = answer[d]
                                    /\ outcome'[d] = outcome[d]
    BY <1>2 DEF RemoteTypes, Submitted!Respond, Submitted!Goto
  <2>2. phase'[c] = "submit" => phase[c] = "enter" /\ wire[c] = "answered"
    BY <1>2 DEF RemoteTypes, Submitted!Respond, Submitted!Goto, Submitted!AfterSubmit
  <2>3. outcome'[c] = "refused" => outcome[c] = "refused" \/ (phase[c] = "submit" /\ wire[c] = "answered" /\ answer[c] = {})
    BY <1>2 DEF RemoteTypes, Submitted!Respond, Submitted!Goto, Submitted!IsRefused
  <2> QED
    BY <2>1, <2>2, <2>3 DEF Served, ServedTo, Entered
<1>3. ASSUME NEW c \in Clients, Submitted!Reach(c)
      PROVE  Served'
  BY <1>3 DEF RemoteTypes, Served, ServedTo, Entered, Submitted!Reach, Submitted!client
<1>4. ASSUME NEW c \in Clients, phase[c] \in OnTheWay, Submitted!TryAgain(c), wire' \in {wire, [wire EXCEPT ![c] = "none"]},
             wire'[c] = "none", UNCHANGED <<my_samples, answer, robbed>>
      PROVE  Served'
  <2>1. /\ \A d \in Clients \ {c} : phase'[d] = phase[d] /\ wire'[d] = wire[d] /\ outcome'[d] = outcome[d]
        /\ phase'[c] = "submit" => phase[c] = "submit"
        /\ outcome'[c] = "refused" => outcome[c] = "refused"
    BY <1>4, TriesAgain DEF RemoteTypes
  <2> QED
    BY <1>4, <2>1 DEF Served, ServedTo, Entered
<1>5. ASSUME NEW c \in Clients, Submitted!NoConnection(c)
      PROVE  Served'
  BY <1>4, <1>5 DEF OnTheWay, Submitted!NoConnection
<1>6. ASSUME NEW c \in Clients, Submitted!Break(c)
      PROVE  Served'
  <2>1. phase[c] \in OnTheWay /\ wire'[c] = "none"
    BY <1>6 DEF RemoteTypes, RemoteOrder, Submitted!Break
  <2> QED
    BY <1>4, <1>6, <2>1 DEF Submitted!Break
<1>7. ASSUME NEW c \in Clients, Submitted!Serve(c)
      PROVE  Served'
  <2>1. phase[c] \in OnTheWay /\ Submitted!Execute(c, Submitted!Request(c)) /\ UNCHANGED <<phase, outcome>>
    BY <1>7 DEF RemoteOrder, Submitted!Serve, Submitted!client
  <2>2. ASSUME NEW d \in Clients \ {c}, d \notin robbed'
        PROVE  ServedTo(d)'
    <3>1. d \notin robbed /\ (Submitted!IsInside(d) => \A s \in Ids[d] : s \in my_samples' <=> s \in my_samples)
      BY <2>1, <2>2, RequestsAreTyped, Executes
    <3>2. ServedTo(d) /\ UNCHANGED <<phase[d], wire[d], answer[d], outcome[d]>>
      BY <1>7, <2>1, <2>2, <3>1 DEF RemoteTypes, Served, Submitted!Serve
    <3> QED
      BY <3>1, <3>2 DEF ServedTo, Entered, Submitted!IsInside
  <2>3. ASSUME c \notin robbed'
        PROVE  ServedTo(c)'
    <3>1. ServedTo(c)
      BY <2>1, <2>3, RequestsAreTyped, Executes DEF Served
    <3>2. CASE phase[c] = "enter"
      BY <1>7, <2>1, <3>1, <3>2, RequestsAreTyped
         DEF ServedTo, Entered, OnTheWay, Submitted!Execute, Submitted!change_my_samples
    <3>3. CASE phase[c] = "submit"
      <4>1. Ids[c] \subseteq my_samples /\ Ids[c] # {}
        BY <3>1, <3>3 DEF ServedTo, Entered, Submitted!RemoteAssumption
      <4>2. my_samples' = my_samples
        BY <2>1, <3>3, RequestsAreTyped DEF Submitted!Execute, Submitted!AddResult
      <4>3. answer'[c] = Ids[c]
        BY <1>7, <3>3, <4>1 DEF RemoteTypes, Submitted!Serve, Submitted!Reply, Submitted!Selectable
      <4> QED
        BY <2>1, <3>1, <3>3, <4>1, <4>2, <4>3 DEF ServedTo, Entered
    <3>4. CASE phase[c] = "exit"
      BY <2>1, <3>1, <3>4 DEF ServedTo, Entered
    <3> QED
      BY <2>1, <3>2, <3>3, <3>4 DEF OnTheWay
  <2> QED
    BY <2>2, <2>3 DEF Served
<1>8. ASSUME Submitted!ServeOrphan
      PROVE  Served'
  <2>1. PICK o \in orphans : Submitted!Execute(o.client, o)
    BY <1>8 DEF Submitted!ServeOrphan
  <2>2. o.client \in Clients /\ o.ids \subseteq Ids[o.client] /\ o.phase \in OnTheWay
        /\ (o.phase = "exit" => phase[o.client] \in {"exit", "end"})
    BY DEF RemoteTypes, RemoteOrder
  <2>3. UNCHANGED <<phase, wire, answer, outcome>>
    BY <1>8 DEF Submitted!ServeOrphan, Submitted!client
  <2>4. ASSUME NEW d \in Clients, d \notin robbed'
        PROVE  ServedTo(d)'
    <3>1. d \notin robbed /\ (d # o.client => (Submitted!IsInside(d) => \A s \in Ids[d] : s \in my_samples' <=> s \in my_samples))
      BY <2>1, <2>2, <2>4, Executes
    <3>2. ServedTo(d)
      BY <2>4, <3>1 DEF Served
    <3>3. CASE d # o.client
      BY <2>3, <3>1, <3>2, <3>3 DEF ServedTo, Entered, Submitted!IsInside
    <3>4. CASE d = o.client
      <4>1. Entered(d) => \A s \in Ids[d] : s \in my_samples => s \in my_samples'
        BY <2>1, <2>2, <3>4 DEF Entered, Submitted!Execute, Submitted!change_my_samples, Submitted!AddResult
      <4> QED
        BY <2>3, <3>2, <4>1 DEF ServedTo, Entered
    <3> QED
      BY <3>3, <3>4
  <2> QED
    BY <2>4 DEF Served
<1>9. ASSUME UNCHANGED Submitted!vars
      PROVE  Served'
  BY <1>9 DEF Served, ServedTo, Entered, Submitted!vars, Submitted!client
<1> QED
  BY <1>1, <1>2, <1>3, <1>5, <1>6, <1>7, <1>8, <1>9 DEF Submitted!Next, Submitted!Network, Submitted!Program

(* A result is stored when the second request is served, and never again.  *)
LEMMA StoredStep ==
  ASSUME Submitted!RemoteAssumption, RemoteTypes, RemoteOrder, Served, Stored,
         [Submitted!Next]_(Submitted!vars)
  PROVE  Stored'
<1>1. ASSUME NEW c \in Clients, Submitted!submit(c)
      PROVE  Stored'
  BY <1>1 DEF RemoteTypes, Stored, StoredOnce, Counted, Submitted!submit, Submitted!Goto
<1>2. ASSUME NEW c \in Clients, Submitted!Respond(c)
      PROVE  Stored'
  <2>1. UNCHANGED <<results, broken, robbed>>
        /\ \A d \in Clients \ {c} : phase'[d] = phase[d] /\ wire'[d] = wire[d] /\ outcome'[d] = outcome[d]
    BY <1>2 DEF RemoteTypes, Submitted!Respond, Submitted!Goto
  <2>2. ASSUME c \notin broken \cup robbed
        PROVE  Counted(c)' = Counted(c)
    <3>1. ServedTo(c) /\ wire[c] = "answered" /\ wire'[c] = "none"
      BY <1>2, <2>2 DEF RemoteTypes, Served, Submitted!Respond
    <3>2. CASE phase[c] = "enter"
      BY <1>2, <3>1, <3>2 DEF RemoteTypes, Counted, Submitted!Respond, Submitted!Goto
    <3>3. CASE phase[c] = "submit"
      BY <1>2, <3>1, <3>3 DEF RemoteTypes, Counted, ServedTo, Submitted!Respond, Submitted!Goto,
                              Submitted!AfterSubmit, Submitted!IsRefused
    <3>4. CASE phase[c] = "exit"
      BY <1>2, <3>1, <3>4 DEF RemoteTypes, Counted, Submitted!Respond, Submitted!Goto
    <3> QED
      BY <3>1, <3>2, <3>3, <3>4 DEF RemoteOrder, OnTheWay
  <2> QED
    BY <2>1, <2>2 DEF Stored, StoredOnce, Counted
<1>3. ASSUME NEW c \in Clients, Submitted!Reach(c)
      PROVE  Stored'
  BY <1>3 DEF RemoteTypes, Stored, StoredOnce, Counted, Submitted!Reach, Submitted!client
<1>4. ASSUME NEW c \in Clients, Submitted!NoConnection(c)
      PROVE  Stored'
  <2>1. phase[c] \in OnTheWay /\ wire[c] = "none" /\ Submitted!TryAgain(c) /\ UNCHANGED <<results, wire, robbed>>
        /\ broken' = IF phase[c] = "exit" /\ cycles[c] = 1 THEN broken \cup {c} ELSE broken
    BY <1>4 DEF OnTheWay, Submitted!NoConnection
  <2>2. \A d \in Clients \ {c} : phase'[d] = phase[d] /\ outcome'[d] = outcome[d]
    BY <2>1, TriesAgain
  <2>3. c \notin broken' => (Counted(c)' <=> Counted(c))
    BY <2>1, TriesAgain DEF Counted, OnTheWay
  <2> QED
    BY <2>1, <2>2, <2>3 DEF Stored, StoredOnce, Counted
<1>5. ASSUME NEW c \in Clients, Submitted!Break(c)
      PROVE  Stored'
  <2>1. phase[c] \in OnTheWay /\ Submitted!TryAgain(c) /\ UNCHANGED <<results, robbed>> /\ broken' = broken \cup {c}
        /\ \A d \in Clients \ {c} : wire'[d] = wire[d]
    BY <1>5 DEF RemoteTypes, RemoteOrder, Submitted!Break
  <2>2. \A d \in Clients \ {c} : phase'[d] = phase[d] /\ outcome'[d] = outcome[d]
    BY <2>1, TriesAgain
  <2> QED
    BY <2>1, <2>2 DEF Stored, StoredOnce, Counted
<1>6. ASSUME NEW c \in Clients, Submitted!Serve(c)
      PROVE  Stored'
  <2>1. phase[c] \in OnTheWay /\ wire[c] = "reached" /\ Submitted!Execute(c, Submitted!Request(c))
        /\ UNCHANGED <<phase, outcome>> /\ wire' = [wire EXCEPT ![c] = "answered"]
    BY <1>6 DEF RemoteOrder, Submitted!Serve, Submitted!client
  <2>2. broken' = broken /\ robbed \subseteq robbed' /\ \A d \in Clients \ {c} : results'[d] = results[d]
    BY <2>1, RequestsAreTyped, Executes
  <2>3. \A d \in Clients \ (broken' \cup robbed' \cup {c}) : StoredOnce(d)'
    BY <2>1, <2>2 DEF RemoteTypes, Stored, StoredOnce, Counted
  <2>4. ASSUME c \notin broken' \cup robbed'
        PROVE  StoredOnce(c)'
    <3>1. ServedTo(c) /\ StoredOnce(c)
      BY <2>2, <2>4 DEF Served, Stored
    <3>2. CASE phase[c] = "submit"
      <4>1. Ids[c] \subseteq my_samples
        BY <3>1, <3>2 DEF ServedTo, Entered
      <4>2. results[c] = 0
        BY <2>1, <3>1, <3>2 DEF StoredOnce, Counted
      <4>3. results'[c] = 1
        BY <2>1, <3>2, <4>1, <4>2, RequestsAreTyped
           DEF RemoteTypes, Submitted!Execute, Submitted!AddResult, Submitted!Selectable
      <4> QED
        BY <2>1, <3>2, <4>3 DEF RemoteTypes, StoredOnce, Counted
    <3>3. CASE phase[c] # "submit"
      <4>1. results' = results
        BY <2>1, <3>3, RequestsAreTyped DEF Submitted!Execute, Submitted!change_my_samples
      <4> QED
        BY <2>1, <3>1, <3>3, <4>1 DEF StoredOnce, Counted
    <3> QED
      BY <3>2, <3>3
  <2> QED
    BY <2>3, <2>4 DEF Stored
<1>7. ASSUME Submitted!ServeOrphan
      PROVE  Stored'
  <2>1. PICK o \in orphans : Submitted!Execute(o.client, o)
    BY <1>7 DEF Submitted!ServeOrphan
  <2>2. o.client \in broken /\ o.client \in Clients /\ o.ids \subseteq Ids[o.client]
    BY DEF RemoteTypes, RemoteOrder
  <2>3. broken' = broken /\ robbed \subseteq robbed' /\ \A d \in Clients \ {o.client} : results'[d] = results[d]
    BY <2>1, <2>2, Executes
  <2> QED
    BY <1>7, <2>2, <2>3 DEF Stored, StoredOnce, Counted, Submitted!ServeOrphan, Submitted!client
<1>8. ASSUME UNCHANGED Submitted!vars
      PROVE  Stored'
  BY <1>8 DEF Stored, StoredOnce, Counted, Submitted!vars, Submitted!client
<1> QED
  BY <1>1, <1>2, <1>3, <1>4, <1>5, <1>6, <1>7, <1>8 DEF Submitted!Next, Submitted!Network, Submitted!Program

LEMMA HeldIsOwned ==
  ASSUME RemoteOrder, NEW c \in Clients, NEW s, Holds(c, s)
  PROVE  s \in Ids[c]
BY DEF RemoteOrder, Holds

(* What is held changes only where My Samples does.                        *)
LEMMA HeldAsBefore ==
  ASSUME NEW s \in AllSamples, HeldByOne(s), s \in my_samples' <=> s \in my_samples,
         \A c \in Clients : Holds(c, s)' <=> Holds(c, s)
  PROVE  HeldByOne(s)'
BY DEF HeldByOne

LEMMA RestoredStep ==
  ASSUME Submitted!RemoteAssumption, RemoteTypes, RemoteOrder, RemoteOrder', Restored,
         [Submitted!Next]_(Submitted!vars), NEW s \in AllSamples, Undisturbed(s)'
  PROVE  HeldByOne(s)'
<1>0. /\ \A c \in Clients : Holds(c, s) => s \in Ids[c]
      /\ \A c \in Clients : Holds(c, s)' => s \in Ids[c]
  BY HeldIsOwned DEF RemoteOrder, Holds
<1>00. ASSUME broken \subseteq broken'
       PROVE  HeldByOne(s)
  BY <1>00 DEF Undisturbed, Restored
<1>1. ASSUME NEW c \in Clients, Submitted!submit(c)
      PROVE  HeldByOne(s)'
  <2>1. wire[c] = "none"
    BY <1>1 DEF RemoteTypes, RemoteOrder, OnTheWay, Submitted!submit
  <2>2. UNCHANGED <<my_samples, broken>> /\ \A d \in Clients : Holds(d, s)' <=> Holds(d, s)
    BY <1>1, <2>1 DEF RemoteTypes, Holds, Submitted!submit, Submitted!Goto
  <2> QED
    BY <1>00, <2>2, HeldAsBefore
<1>2. ASSUME NEW c \in Clients, Submitted!Respond(c)
      PROVE  HeldByOne(s)'
  <2>1. UNCHANGED <<my_samples, broken>> /\ wire[c] = "answered" /\ wire'[c] = "none"
        /\ \A d \in Clients \ {c} : /\ phase'[d] = phase[d] /\ wire'[d] = wire[d] /\ answer'[d] = answer[d]
                                    /\ changed_sample_ids'[d] = changed_sample_ids[d]
    BY <1>2 DEF RemoteTypes, Submitted!Respond, Submitted!Goto
  <2>2. CASE phase[c] = "enter"
    <3>1. phase'[c] = "submit" /\ changed_sample_ids'[c] = answer[c]
      BY <1>2, <2>2 DEF RemoteTypes, Submitted!Respond, Submitted!Goto
    <3>2. \A d \in Clients : Holds(d, s)' <=> Holds(d, s)
      BY <2>1, <2>2, <3>1 DEF Holds
    <3> QED
      BY <1>00, <2>1, <3>2, HeldAsBefore
  <2>3. CASE phase[c] = "submit"
    <3>1. changed_sample_ids' = changed_sample_ids
          /\ phase'[c] = IF changed_sample_ids[c] = {} THEN "end" ELSE "exit"
      BY <1>2, <2>3 DEF RemoteTypes, Submitted!Respond, Submitted!Goto, Submitted!AfterSubmit
    <3>2. \A d \in Clients : Holds(d, s)' <=> Holds(d, s)
      BY <2>1, <2>3, <3>1 DEF Holds
    <3> QED
      BY <1>00, <2>1, <3>2, HeldAsBefore
  <2>4. CASE phase[c] = "exit"
    <3>1. phase'[c] = "end"
      BY <1>2, <2>4 DEF RemoteTypes, Submitted!Respond, Submitted!Goto
    <3>2. \A d \in Clients : Holds(d, s)' <=> Holds(d, s)
      BY <2>1, <2>4, <3>1 DEF Holds
    <3> QED
      BY <1>00, <2>1, <3>2, HeldAsBefore
  <2> QED
    BY <2>1, <2>2, <2>3, <2>4 DEF RemoteOrder, OnTheWay
<1>3. ASSUME NEW c \in Clients, Submitted!Reach(c)
      PROVE  HeldByOne(s)'
  <2>1. UNCHANGED <<my_samples, broken>> /\ \A d \in Clients : Holds(d, s)' <=> Holds(d, s)
    BY <1>3 DEF RemoteTypes, Holds, Submitted!Reach, Submitted!client
  <2> QED
    BY <1>00, <2>1, HeldAsBefore
<1>4. ASSUME NEW c \in Clients, Submitted!NoConnection(c)
      PROVE  HeldByOne(s)'
  <2>1. phase[c] \in OnTheWay /\ wire[c] = "none" /\ Submitted!TryAgain(c)
        /\ UNCHANGED <<my_samples, changed_sample_ids, wire, answer>>
        /\ broken' = IF phase[c] = "exit" /\ cycles[c] = 1 THEN broken \cup {c} ELSE broken
    BY <1>4 DEF OnTheWay, Submitted!NoConnection
  <2>2. \A d \in Clients \ {c} : Holds(d, s)' <=> Holds(d, s)
    BY <2>1, TriesAgain DEF Holds
  <2>3. Holds(c, s)' <=> Holds(c, s)
    <3>1. CASE c \in broken'
      BY <1>0, <3>1 DEF Undisturbed
    <3>2. CASE c \notin broken'
      BY <2>1, <3>2, TriesAgain DEF Holds, OnTheWay
    <3> QED
      BY <3>1, <3>2
  <2> QED
    BY <1>00, <2>1, <2>2, <2>3, HeldAsBefore
<1>5. ASSUME NEW c \in Clients, Submitted!Break(c)
      PROVE  HeldByOne(s)'
  <2>1. phase[c] \in OnTheWay /\ Submitted!TryAgain(c) /\ UNCHANGED <<my_samples, changed_sample_ids, answer>>
        /\ broken' = broken \cup {c} /\ \A d \in Clients \ {c} : wire'[d] = wire[d]
    BY <1>5 DEF RemoteTypes, RemoteOrder, Submitted!Break
  <2>2. \A d \in Clients \ {c} : Holds(d, s)' <=> Holds(d, s)
    BY <2>1, TriesAgain DEF Holds
  <2>3. ~Holds(c, s) /\ ~Holds(c, s)'
    BY <1>0, <2>1 DEF Undisturbed
  <2> QED
    BY <1>00, <2>1, <2>2, <2>3, HeldAsBefore
<1>6. ASSUME NEW c \in Clients, Submitted!Serve(c)
      PROVE  HeldByOne(s)'
  <2>1. phase[c] \in OnTheWay /\ wire[c] = "reached" /\ Submitted!Execute(c, Submitted!Request(c))
        /\ UNCHANGED <<phase, changed_sample_ids>> /\ wire' = [wire EXCEPT ![c] = "answered"]
        /\ answer' = [answer EXCEPT ![c] = Submitted!Reply(c)]
    BY <1>6 DEF RemoteOrder, Submitted!Serve, Submitted!client
  <2>2. HeldByOne(s) /\ (s \notin Ids[c] => (s \in my_samples' <=> s \in my_samples))
    BY <1>00, <2>1, RequestsAreTyped, Executes
  <2>3. wire'[c] = "answered" /\ answer'[c] = Submitted!Reply(c)
        /\ \A d \in Clients \ {c} : Holds(d, s)' <=> Holds(d, s)
    BY <2>1 DEF RemoteTypes, Holds
  <2>4. CASE s \notin Ids[c]
    BY <1>0, <2>2, <2>3, <2>4, HeldAsBefore
  <2>5. CASE s \in Ids[c] /\ phase[c] = "enter"
    <3>1. my_samples' = my_samples \cup Ids[c]
      BY <2>1, <2>5, RequestsAreTyped DEF Submitted!Execute, Submitted!change_my_samples
    <3>2. ~Holds(c, s) /\ (Holds(c, s)' <=> s \notin my_samples)
      BY <2>1, <2>3, <2>5 DEF Holds, Submitted!Reply, Submitted!Changed
    <3>3. s \in my_samples'
      BY <2>5, <3>1
    <3> HIDE DEF Holds
    <3>4. CASE s \in my_samples
      BY <2>2, <2>3, <3>2, <3>3, <3>4, HeldAsBefore
    <3>5. CASE s \notin my_samples
      BY <2>2, <2>3, <3>2, <3>3, <3>5 DEF HeldByOne
    <3> QED
      BY <3>4, <3>5
  <2>6. CASE s \in Ids[c] /\ phase[c] = "submit"
    <3>1. my_samples' = my_samples
      BY <2>1, <2>6, RequestsAreTyped DEF Submitted!Execute, Submitted!AddResult
    <3>2. Holds(c, s)' <=> Holds(c, s)
      BY <2>1, <2>6 DEF Holds
    <3> QED
      BY <2>2, <2>3, <3>1, <3>2, HeldAsBefore
  <2>7. CASE s \in Ids[c] /\ phase[c] = "exit"
    <3>1. my_samples' = my_samples \ changed_sample_ids[c]
      BY <2>1, <2>7, RequestsAreTyped DEF Submitted!Execute, Submitted!change_my_samples
    <3>2. ~Holds(c, s)' /\ (Holds(c, s) <=> s \in changed_sample_ids[c])
      BY <2>1, <2>3, <2>7 DEF Holds
    <3>3. CASE s \in changed_sample_ids[c]
      BY <2>2, <2>3, <3>1, <3>2, <3>3 DEF HeldByOne
    <3>4. CASE s \notin changed_sample_ids[c]
      BY <2>2, <2>3, <3>1, <3>2, <3>4, HeldAsBefore
    <3> QED
      BY <3>3, <3>4
  <2> QED
    BY <2>1, <2>4, <2>5, <2>6, <2>7 DEF OnTheWay
<1>7. ASSUME Submitted!ServeOrphan
      PROVE  HeldByOne(s)'
  <2>1. PICK o \in orphans : Submitted!Execute(o.client, o)
    BY <1>7 DEF Submitted!ServeOrphan
  <2>2. o.client \in broken /\ o.client \in Clients /\ o.ids \subseteq Ids[o.client]
    BY DEF RemoteTypes, RemoteOrder
  <2>3. broken' = broken /\ (s \notin Ids[o.client] => (s \in my_samples' <=> s \in my_samples))
    BY <2>1, <2>2, Executes
  <2>4. s \notin Ids[o.client]
    BY <2>2, <2>3 DEF Undisturbed
  <2>5. \A d \in Clients : Holds(d, s)' <=> Holds(d, s)
    BY <1>7 DEF Holds, Submitted!ServeOrphan, Submitted!client
  <2> QED
    BY <1>00, <2>3, <2>4, <2>5, HeldAsBefore
<1>8. ASSUME UNCHANGED Submitted!vars
      PROVE  HeldByOne(s)'
  <2>1. UNCHANGED <<my_samples, broken>> /\ \A d \in Clients : Holds(d, s)' <=> Holds(d, s)
    BY <1>8 DEF Holds, Submitted!vars, Submitted!client
  <2> QED
    BY <1>00, <2>1, HeldAsBefore
<1> QED
  BY <1>1, <1>2, <1>3, <1>4, <1>5, <1>6, <1>7, <1>8 DEF Submitted!Next, Submitted!Network, Submitted!Program

LEMMA RemoteTruth ==
  ASSUME RemoteInv
  PROVE  SubmittedAsReported
<1>1. Submitted!StoredAsReported /\ Submitted!RefusedIfRobbed
  BY DEF RemoteInv, Stored, StoredOnce, Counted, Served, ServedTo, Submitted!StoredAsReported,
       Submitted!RefusedIfRobbed
<1>2. ASSUME NEW s \in AllSamples, \A c \in Clients : s \in Ids[c] => phase[c] = "end" /\ c \notin broken
      PROVE  s \in my_samples <=> s \in Own
  <2>1. \A c \in Clients : ~Holds(c, s)
    BY <1>2, HeldIsOwned DEF RemoteInv, Holds
  <2> QED
    BY <1>2, <2>1 DEF RemoteInv, Restored, Undisturbed, HeldByOne
<1>3. Submitted!MySamplesRestored
  BY <1>2 DEF Submitted!MySamplesRestored
<1> QED
  BY <1>1, <1>3 DEF SubmittedAsReported, Submitted!SubmittedAsReported

(* Programs that submit results over an unreliable connection are told     *)
(* what has become of them: a result is stored once if and only if this is *)
(* reported, is refused only if another program has taken a sample away,   *)
(* and My Samples is in the end what the user has made of it, for any      *)
(* number of programs, samples and attempts.                               *)
THEOREM ToldTheTruth == Submitted!RemoteAssumption => (Submitted!Spec => []SubmittedAsReported)
<1> SUFFICES ASSUME Submitted!RemoteAssumption
             PROVE  Submitted!Spec => []SubmittedAsReported
  OBVIOUS
<1>1. Submitted!Init => RemoteInv
  BY DEF Submitted!RemoteAssumption, Submitted!Init, RemoteInv, RemoteTypes, OnTheWay, RemoteOrder, Served,
       ServedTo,
         Entered, Stored, StoredOnce, Counted, Restored, Undisturbed, HeldByOne, Holds
<1>2. RemoteInv /\ [Submitted!Next]_(Submitted!vars) => RemoteInv'
  <2> SUFFICES ASSUME RemoteInv, [Submitted!Next]_(Submitted!vars)
               PROVE  RemoteInv'
    OBVIOUS
  <2>1. RemoteTypes' /\ RemoteOrder' /\ Served' /\ Stored'
    BY RemoteTypesStep, RemoteOrderStep, ServedStep, StoredStep DEF RemoteInv
  <2>2. Restored'
    BY <2>1, RestoredStep DEF RemoteInv, Restored
  <2> QED
    BY <2>1, <2>2 DEF RemoteInv
<1>3. RemoteInv => SubmittedAsReported
  BY RemoteTruth
<1> QED
  BY <1>1, <1>2, <1>3, PTL DEF Submitted!Spec

-----------------------------------------------------------------------------
(* Browser.  The contents, the timestamps, and requests that go on.        *)
Stamps == [sample : Nat, series : Nat, clearance : [Users -> Nat], display : [Users -> Nat], my : [Users -> Nat],
           list : [Users -> Nat], layout : [Users -> Nat]]
Contents == [sample : BOOLEAN, name : BOOLEAN, in_series : BOOLEAN, confidential : BOOLEAN, mine : SUBSET Users,
             members : SUBSET Users, cleared : [Users -> Nat], grants : [Users -> BOOLEAN], language : [Users -> BOOLEAN]]
Changes == [user : Users, now : Nat, read : Stamps, alone : BOOLEAN]

Before(st, t) ==
  /\ st.sample < t /\ st.series < t
  /\ \A u \in Users : st.clearance[u] < t /\ st.display[u] < t /\ st.my[u] < t /\ st.list[u] < t /\ st.layout[u] < t

BrowserTypes ==
  /\ contents \in Contents
  /\ stamps \in Stamps
  /\ clock \in Nat /\ clock <= MaxChanges
  /\ pending \in [Requests -> {None} \cup Changes]
  /\ DOMAIN kept = Browsed!Pages
  /\ \A p \in Browsed!Pages : kept[p] # None => kept[p].etag \in Nat
  /\ asked # None => asked.page \in Browsed!Pages /\ asked.etag \in Nat
  /\ DOMAIN menu = Browsed!Times
  /\ outrun \in BOOLEAN

(* No timestamp lies in the future.  A request that is alone, because none *)
(* has been committed since it began, has read the timestamps as they are, *)
(* and the time it will put into them is later than all of them.           *)
StampsAreOld ==
  /\ Before(stamps, clock + 1)
  /\ \A q \in Requests : pending[q] # None =>
       /\ pending[q].now <= clock /\ Before(pending[q].read, clock + 1)
       /\ pending[q].alone => pending[q].read = stamps /\ Before(stamps, pending[q].now)

(* ETags have only grown.  Who kept something under the present one kept   *)
(* what is shown.                                                          *)
PageFits(p) ==
  /\ kept[p] # None => kept[p].etag <= Browsed!etag(p, Viewer)
  /\ Browsed!Fresh(p)
  /\ asked # None /\ asked.page = p => asked.etag <= Browsed!etag(p, Viewer)

MenuFits ==
  \A t \in DOMAIN menu : menu[t] # None =>
    /\ t <= stamps.list[Viewer]
    /\ t = stamps.list[Viewer] => menu[t] = Browsed!build_structured_sample_list(Viewer)

BrowserInv ==
  /\ BrowserTypes
  /\ StampsAreOld
  /\ ~outrun => MenuFits /\ \A p \in Browsed!Pages : PageFits(p)

(* The ETag is the latest of its timestamps.                               *)
LEMMA LatestIsMaximum ==
  ASSUME NEW S, NEW a \in Nat, NEW b \in Nat, NEW c \in Nat, NEW d \in Nat, NEW e \in Nat, S = {a, b, c, d, e}
  PROVE  Browsed!Latest(S) \in S /\ \A x \in S : x <= Browsed!Latest(S)
<1>1. \E x \in S : \A y \in S : x >= y
  OBVIOUS
<1> QED
  BY <1>1 DEF Browsed!Latest, Browsed!Max

LEMMA TimestampsHaveLatest ==
  ASSUME NEW st \in Stamps, Viewer \in Users, NEW T,
         \/ T = {st.sample, st.clearance[Viewer], st.display[Viewer], st.my[Viewer], st.layout[Viewer]}
         \/ T = {st.series, st.display[Viewer], st.layout[Viewer]}
  PROVE  T \subseteq Nat /\ Browsed!Latest(T) \in T /\ \A x \in T : x <= Browsed!Latest(T)
<1>1. /\ st.sample \in Nat /\ st.series \in Nat /\ st.clearance[Viewer] \in Nat /\ st.display[Viewer] \in Nat
      /\ st.my[Viewer] \in Nat /\ st.layout[Viewer] \in Nat
  BY DEF Stamps
<1>2. CASE T = {st.sample, st.clearance[Viewer], st.display[Viewer], st.my[Viewer], st.layout[Viewer]}
  BY <1>1, <1>2, LatestIsMaximum
<1>3. CASE T = {st.series, st.display[Viewer], st.layout[Viewer]}
  <2>1. T = {st.series, st.display[Viewer], st.layout[Viewer], st.layout[Viewer], st.layout[Viewer]}
    BY <1>3
  <2> QED
    BY <1>1, <2>1, LatestIsMaximum
<1> QED
  BY <1>2, <1>3

(* Each timestamp stays, or gets the time of the request.                  *)
Later(st, new, t) ==
  /\ new.sample \in {st.sample, t} /\ new.series \in {st.series, t}
  /\ \A u \in Users :
       /\ new.clearance[u] \in {st.clearance[u], t} /\ new.display[u] \in {st.display[u], t}
       /\ new.my[u] \in {st.my[u], t} /\ new.list[u] \in {st.list[u], t} /\ new.layout[u] \in {st.layout[u], t}

(* Whatever a request changes in what is shown, the time of the request    *)
(* becomes one of the timestamps of the page.                              *)
Noticed(t) ==
  /\ \A p \in Browsed!Pages :
       Browsed!Shown(p, Viewer)' = Browsed!Shown(p, Viewer) \/ t \in Browsed!embed_timestamp(p, Viewer)'
  /\ \/ Browsed!build_structured_sample_list(Viewer)' = Browsed!build_structured_sample_list(Viewer)
     \/ stamps'.list[Viewer] = t

(* What the functions that touch timestamps leave and change.              *)
LEMMA ListsAreTouched ==
  ASSUME NEW st \in Stamps, NEW users, NEW t \in Nat, NEW new, new = Browsed!ListsTouched(st, users, t)
  PROVE  /\ new \in Stamps
         /\ new.sample = st.sample /\ new.series = st.series /\ new.clearance = st.clearance
         /\ new.display = st.display /\ new.my = st.my /\ new.layout = st.layout
         /\ new.list = [u \in Users |-> IF u \in users THEN t ELSE st.list[u]]
BY DEF Stamps, Browsed!ListsTouched

LEMMA DisplayIsTouched ==
  ASSUME NEW st \in Stamps, NEW users, NEW r \in Changes, NEW new, new = Browsed!touch_display_settings(st, users, r)
  PROVE  /\ new \in Stamps
         /\ new.sample = st.sample /\ new.series = st.series /\ new.clearance = st.clearance
         /\ new.list = st.list /\ new.layout = st.layout
         /\ new.display = [u \in Users |-> IF u \in users THEN r.now ELSE st.display[u]]
         /\ new.my = [u \in Users |-> IF u \in users THEN r.read.my[u] ELSE st.my[u]]
<1>1. r.now \in Nat /\ r.read.my \in [Users -> Nat]
  BY DEF Changes, Stamps
<1> QED
  BY <1>1 DEF Stamps, Browsed!touch_display_settings

LEMMA MySamplesAreTouched ==
  ASSUME NEW st \in Stamps, NEW users, NEW r \in Changes, NEW new, new = Browsed!touch_my_samples(st, users, r)
  PROVE  /\ new \in Stamps
         /\ new.sample = st.sample /\ new.series = st.series /\ new.clearance = st.clearance
         /\ new.layout = st.layout
         /\ new.display = [u \in Users |-> IF u \in users THEN r.read.display[u] ELSE st.display[u]]
         /\ new.my = [u \in Users |-> IF u \in users THEN r.now ELSE st.my[u]]
         /\ new.list = [u \in Users |-> IF u \in users THEN r.now ELSE st.list[u]]
<1>1. r.now \in Nat /\ r.read.display \in [Users -> Nat]
  BY DEF Changes, Stamps
<1> QED
  BY <1>1 DEF Stamps, Browsed!touch_my_samples

LEMMA SampleIsSaved ==
  ASSUME NEW st \in Stamps, NEW cc, NEW t \in Nat, NEW new, new = Browsed!SampleSaved(st, cc, t)
  PROVE  /\ new \in Stamps
         /\ new.sample = t /\ new.series = (IF cc.in_series THEN t ELSE st.series)
         /\ new.clearance = st.clearance /\ new.display = st.display /\ new.my = st.my /\ new.layout = st.layout
         /\ new.list = [u \in Users |-> IF u \in cc.mine THEN t ELSE st.list[u]]
<1> DEFINE touched == IF cc.in_series THEN [st EXCEPT !.sample = t, !.series = t] ELSE [st EXCEPT !.sample = t]
<1>1. /\ touched \in Stamps
      /\ touched.sample = t /\ touched.series = (IF cc.in_series THEN t ELSE st.series)
      /\ touched.clearance = st.clearance /\ touched.display = st.display /\ touched.my = st.my
      /\ touched.layout = st.layout /\ touched.list = st.list
  BY DEF Stamps
<1>2. new = Browsed!ListsTouched(touched, cc.mine, t)
  BY DEF Browsed!SampleSaved
<1> HIDE DEF touched
<1> QED
  BY <1>1, <1>2, ListsAreTouched

(* What a request writes into the timestamps: its time, or what it has     *)
(* read.                                                                   *)
Written(r) ==
  /\ contents' \in Contents /\ stamps' \in Stamps
  /\ stamps'.sample \in {stamps.sample, r.now} /\ stamps'.series \in {stamps.series, r.now}
  /\ \A u \in Users :
       /\ stamps'.clearance[u] \in {stamps.clearance[u], r.now}
       /\ stamps'.display[u] \in {stamps.display[u], r.read.display[u], r.now}
       /\ stamps'.my[u] \in {stamps.my[u], r.read.my[u], r.now}
       /\ stamps'.list[u] \in {stamps.list[u], r.now} /\ stamps'.layout[u] \in {stamps.layout[u], r.now}

LEMMA SavesSample ==
  ASSUME BrowserTypes, Browsed!BrowserAssumption, NEW r \in Changes, Browsed!SaveSample(r)
  PROVE  Written(r) /\ Noticed(r.now)
<1>1. /\ stamps' \in Stamps
      /\ stamps'.sample = r.now /\ stamps'.series = (IF contents.in_series THEN r.now ELSE stamps.series)
      /\ stamps'.clearance = stamps.clearance /\ stamps'.display = stamps.display /\ stamps'.my = stamps.my
      /\ stamps'.layout = stamps.layout
      /\ stamps'.list = [u \in Users |-> IF u \in contents.mine THEN r.now ELSE stamps.list[u]]
  BY SampleIsSaved DEF BrowserTypes, Changes, Browsed!SaveSample
<1>2. /\ contents' \in Contents
      /\ contents'.in_series = contents.in_series /\ contents'.mine = contents.mine /\ contents'.cleared = contents.cleared
      /\ contents'.name = contents.name /\ contents'.grants = contents.grants /\ contents'.members = contents.members
      /\ contents'.language = contents.language /\ contents'.confidential = contents.confidential
  BY DEF BrowserTypes, Contents, Browsed!SaveSample
<1>3. Written(r)
  BY <1>1, <1>2 DEF Written
<1>4. r.now \in Browsed!embed_timestamp("sample", Viewer)'
  BY <1>1 DEF Browsed!embed_timestamp
<1>5. Browsed!Shown("series", Viewer)' = Browsed!Shown("series", Viewer) \/ r.now \in Browsed!embed_timestamp("series", Viewer)'
  BY <1>1, <1>2 DEF Browsed!embed_timestamp, Browsed!Shown, Browsed!Common
<1>6. \/ Browsed!build_structured_sample_list(Viewer)' = Browsed!build_structured_sample_list(Viewer)
      \/ stamps'.list[Viewer] = r.now
  BY <1>1, <1>2 DEF Browsed!build_structured_sample_list, Browsed!Watches, Browsed!BrowserAssumption
<1> QED
  BY <1>3, <1>4, <1>5, <1>6 DEF Noticed, Browsed!Pages

LEMMA EditsSeries ==
  ASSUME BrowserTypes, Browsed!BrowserAssumption, NEW r \in Changes, Browsed!EditSeries(r)
  PROVE  Written(r) /\ Noticed(r.now)
<1> DEFINE first == [stamps EXCEPT !.series = r.now]
<1>1. /\ contents' \in Contents
      /\ contents'.sample = contents.sample /\ contents'.mine = contents.mine /\ contents'.cleared = contents.cleared
      /\ contents'.name = contents.name /\ contents'.grants = contents.grants /\ contents'.members = contents.members
      /\ contents'.language = contents.language /\ contents'.confidential = contents.confidential
  BY DEF BrowserTypes, Contents, Browsed!EditSeries
<1>2. /\ first \in Stamps /\ first.sample = stamps.sample /\ first.series = r.now
      /\ first.clearance = stamps.clearance /\ first.display = stamps.display /\ first.my = stamps.my
      /\ first.layout = stamps.layout /\ first.list = stamps.list
  BY DEF BrowserTypes, Stamps, Changes
<1>3. stamps' = Browsed!SampleSaved(first, contents', r.now)
  BY DEF Browsed!EditSeries, Browsed!touch_sample_series_samples
<1> HIDE DEF first
<1>4. /\ stamps' \in Stamps
      /\ stamps'.sample = r.now /\ stamps'.series = r.now
      /\ stamps'.clearance = stamps.clearance /\ stamps'.display = stamps.display /\ stamps'.my = stamps.my
      /\ stamps'.layout = stamps.layout
      /\ stamps'.list = [u \in Users |-> IF u \in contents.mine THEN r.now ELSE stamps.list[u]]
  BY <1>1, <1>2, <1>3, SampleIsSaved DEF Changes
<1>5. Written(r)
  BY <1>1, <1>4 DEF Written
<1>6. /\ r.now \in Browsed!embed_timestamp("sample", Viewer)'
      /\ r.now \in Browsed!embed_timestamp("series", Viewer)'
  BY <1>4 DEF Browsed!embed_timestamp
<1>7. \/ Browsed!build_structured_sample_list(Viewer)' = Browsed!build_structured_sample_list(Viewer)
      \/ stamps'.list[Viewer] = r.now
  BY <1>1, <1>4 DEF Browsed!build_structured_sample_list, Browsed!Watches, Browsed!BrowserAssumption
<1> QED
  BY <1>5, <1>6, <1>7 DEF Noticed, Browsed!Pages

LEMMA RenamesUser ==
  ASSUME BrowserTypes, Browsed!BrowserAssumption, NEW r \in Changes, Browsed!RenameUser(r)
  PROVE  Written(r) /\ Noticed(r.now)
<1> DEFINE alike == [contents EXCEPT !.in_series = FALSE]
           saved == Browsed!SampleSaved(stamps, alike, r.now)
<1>1. /\ contents' \in Contents
      /\ contents'.sample = contents.sample /\ contents'.mine = contents.mine /\ contents'.cleared = contents.cleared
      /\ contents'.in_series = contents.in_series /\ contents'.grants = contents.grants
      /\ contents'.members = contents.members
      /\ contents'.language = contents.language /\ contents'.confidential = contents.confidential
  BY DEF BrowserTypes, Contents, Browsed!RenameUser
<1>2. alike.mine = contents.mine
  BY DEF BrowserTypes, Contents
<1>3. stamps' = [saved EXCEPT !.series = r.now]
  BY DEF Browsed!RenameUser
<1> HIDE DEF alike
<1>4. /\ saved \in Stamps
      /\ saved.sample = r.now
      /\ saved.clearance = stamps.clearance /\ saved.display = stamps.display /\ saved.my = stamps.my
      /\ saved.layout = stamps.layout
      /\ saved.list = [u \in Users |-> IF u \in contents.mine THEN r.now ELSE stamps.list[u]]
  BY <1>2, SampleIsSaved DEF BrowserTypes, Changes
<1> HIDE DEF saved
<1>5. /\ stamps' \in Stamps
      /\ stamps'.sample = r.now /\ stamps'.series = r.now
      /\ stamps'.clearance = stamps.clearance /\ stamps'.display = stamps.display /\ stamps'.my = stamps.my
      /\ stamps'.layout = stamps.layout
      /\ stamps'.list = [u \in Users |-> IF u \in contents.mine THEN r.now ELSE stamps.list[u]]
  BY <1>3, <1>4 DEF Stamps, Changes
<1>6. Written(r)
  BY <1>1, <1>5 DEF Written
<1>7. /\ r.now \in Browsed!embed_timestamp("sample", Viewer)'
      /\ r.now \in Browsed!embed_timestamp("series", Viewer)'
  BY <1>5 DEF Browsed!embed_timestamp
<1>8. \/ Browsed!build_structured_sample_list(Viewer)' = Browsed!build_structured_sample_list(Viewer)
      \/ stamps'.list[Viewer] = r.now
  BY <1>1, <1>5 DEF Browsed!build_structured_sample_list, Browsed!Watches, Browsed!BrowserAssumption
<1> QED
  BY <1>6, <1>7, <1>8 DEF Noticed, Browsed!Pages

(* My Samples of the user of the request are touched; nothing else changes *)
(* but what she sees of the sample.                                        *)
LEMMA OwnSamplesAreNoticed ==
  ASSUME BrowserTypes, Browsed!BrowserAssumption, NEW r \in Changes, NEW new, new = Browsed!touch_my_samples(stamps, {r.user}, r),
         stamps' \in Stamps, stamps'.sample = new.sample, stamps'.series = new.series, stamps'.display = new.display,
         stamps'.my = new.my, stamps'.list = new.list, stamps'.layout = new.layout,
         \A u \in Users : stamps'.clearance[u] \in {new.clearance[u], r.now},
         contents' \in Contents, contents'.mine \ {r.user} = contents.mine \ {r.user},
         \A u \in Users \ {r.user} : contents'.cleared[u] = contents.cleared[u],
         contents'.sample = contents.sample, contents'.in_series = contents.in_series, contents'.name = contents.name,
         contents'.grants = contents.grants, contents'.members = contents.members, contents'.language = contents.language,
         contents'.confidential = contents.confidential
  PROVE  Written(r) /\ Noticed(r.now)
<1>1. /\ new.sample = stamps.sample /\ new.series = stamps.series /\ new.clearance = stamps.clearance
      /\ new.layout = stamps.layout
      /\ new.display = [u \in Users |-> IF u \in {r.user} THEN r.read.display[u] ELSE stamps.display[u]]
      /\ new.my = [u \in Users |-> IF u \in {r.user} THEN r.now ELSE stamps.my[u]]
      /\ new.list = [u \in Users |-> IF u \in {r.user} THEN r.now ELSE stamps.list[u]]
  BY MySamplesAreTouched DEF BrowserTypes
<1>7. /\ stamps'.sample = stamps.sample /\ stamps'.series = stamps.series /\ stamps'.layout = stamps.layout
      /\ stamps'.my = [u \in Users |-> IF u \in {r.user} THEN r.now ELSE stamps.my[u]]
      /\ stamps'.list = [u \in Users |-> IF u \in {r.user} THEN r.now ELSE stamps.list[u]]
      /\ stamps'.display = [u \in Users |-> IF u \in {r.user} THEN r.read.display[u] ELSE stamps.display[u]]
      /\ \A u \in Users : stamps'.clearance[u] \in {stamps.clearance[u], r.now}
  <2> QED
    BY <1>1
<1>2. Written(r)
  <2> SUFFICES ASSUME NEW u \in Users
               PROVE  /\ stamps'.my[u] \in {stamps.my[u], r.now} /\ stamps'.list[u] \in {stamps.list[u], r.now}
                      /\ stamps'.display[u] \in {stamps.display[u], r.read.display[u]}
                      /\ stamps'.layout[u] = stamps.layout[u]
    BY <1>7 DEF Written
  <2> QED
    BY <1>7
<1>3. Browsed!Common(Viewer)' = Browsed!Common(Viewer)
  BY DEF Browsed!Common
<1>4. Browsed!Shown("series", Viewer)' = Browsed!Shown("series", Viewer)
  BY <1>3 DEF Browsed!Shown
<1>5. CASE Viewer = r.user
  <2>1. stamps'.my[Viewer] = r.now /\ stamps'.list[Viewer] = r.now
    BY <1>5, <1>7 DEF Browsed!BrowserAssumption
  <2>2. r.now \in Browsed!embed_timestamp("sample", Viewer)'
    BY <2>1 DEF Browsed!embed_timestamp
  <2> QED
    BY <1>2, <1>4, <2>1, <2>2 DEF Noticed, Browsed!Pages
<1>6. CASE Viewer # r.user
  <2>1. (Viewer \in contents'.mine) = (Viewer \in contents.mine) /\ contents'.cleared[Viewer] = contents.cleared[Viewer]
    BY <1>6 DEF Browsed!BrowserAssumption
  <2>2. Browsed!Shown("sample", Viewer)' = Browsed!Shown("sample", Viewer)
    BY <1>3, <2>1 DEF Browsed!Shown, Browsed!Watches
  <2>3. Browsed!build_structured_sample_list(Viewer)' = Browsed!build_structured_sample_list(Viewer)
    BY <2>1 DEF Browsed!build_structured_sample_list, Browsed!Watches
  <2> QED
    BY <1>2, <1>4, <2>2, <2>3 DEF Noticed, Browsed!Pages
<1> QED
  BY <1>5, <1>6

LEMMA ChangesMySamples ==
  ASSUME BrowserTypes, Browsed!BrowserAssumption, NEW r \in Changes, Browsed!ChangeMySamples(r)
  PROVE  Written(r) /\ Noticed(r.now)
<1>1. r.user \in Users /\ contents.mine \subseteq Users
  BY DEF BrowserTypes, Contents, Changes
<1>2. /\ contents' \in Contents /\ contents'.mine = Browsed!Toggled(contents.mine, r.user)
      /\ contents'.sample = contents.sample /\ contents'.in_series = contents.in_series /\ contents'.name = contents.name
      /\ contents'.cleared = contents.cleared
      /\ contents'.grants = contents.grants /\ contents'.members = contents.members
      /\ contents'.language = contents.language /\ contents'.confidential = contents.confidential
  BY <1>1 DEF BrowserTypes, Contents, Browsed!ChangeMySamples, Browsed!Toggled
<1>3. contents'.mine \ {r.user} = contents.mine \ {r.user}
  BY <1>2 DEF Browsed!Toggled
<1>4. stamps' = Browsed!touch_my_samples(stamps, {r.user}, r)
  BY DEF Browsed!ChangeMySamples
<1>5. stamps' \in Stamps
  BY <1>4, MySamplesAreTouched DEF BrowserTypes
<1> QED
  BY <1>2, <1>3, <1>4, <1>5, OwnSamplesAreNoticed

LEMMA SharesSample ==
  ASSUME BrowserTypes, Browsed!BrowserAssumption, NEW r \in Changes, Browsed!ShareSample(r)
  PROVE  Written(r) /\ Noticed(r.now)
<1> DEFINE new == Browsed!touch_my_samples(stamps, {r.user}, r)
           more == IF contents.cleared[r.user] < 2 THEN contents.cleared[r.user] + 1 ELSE contents.cleared[r.user]
<1>1. r.user \in Users /\ contents.mine \subseteq Users /\ r.now \in Nat /\ contents.cleared \in [Users -> Nat]
  BY DEF BrowserTypes, Contents, Changes
<1>2. contents' = [contents EXCEPT !.mine = contents.mine \cup {r.user}, !.cleared = [contents.cleared EXCEPT ![r.user] = more]]
  BY DEF Browsed!ShareSample, BrowserTypes, Contents
<1>3. [contents.cleared EXCEPT ![r.user] = more] \in [Users -> Nat] /\ contents.mine \cup {r.user} \in SUBSET Users
  BY <1>1
<1>4. /\ contents' \in Contents /\ contents'.mine = contents.mine \cup {r.user}
      /\ contents'.cleared = [contents.cleared EXCEPT ![r.user] = more]
      /\ contents'.sample = contents.sample /\ contents'.in_series = contents.in_series /\ contents'.name = contents.name
      /\ contents'.grants = contents.grants /\ contents'.members = contents.members
      /\ contents'.language = contents.language /\ contents'.confidential = contents.confidential
  <2> HIDE DEF more
  <2> QED
    BY <1>2, <1>3 DEF BrowserTypes, Contents
<1>5. new \in Stamps
  BY MySamplesAreTouched DEF BrowserTypes
<1>6. stamps' = [new EXCEPT !.clearance = [new.clearance EXCEPT ![r.user] = IF contents.cleared[r.user] = 0 THEN r.now ELSE @]]
  BY DEF Browsed!ShareSample
<1> HIDE DEF new, more
<1>7. /\ stamps' \in Stamps /\ stamps'.sample = new.sample /\ stamps'.series = new.series /\ stamps'.display = new.display
      /\ stamps'.my = new.my /\ stamps'.list = new.list /\ stamps'.layout = new.layout
      /\ \A u \in Users : stamps'.clearance[u] \in {new.clearance[u], r.now}
  <2> DEFINE touched == [new.clearance EXCEPT ![r.user] = IF contents.cleared[r.user] = 0 THEN r.now ELSE @]
  <2>1. touched \in [Users -> Nat] /\ \A u \in Users : touched[u] \in {new.clearance[u], r.now}
    BY <1>1, <1>5 DEF Stamps
  <2>2. stamps' = [new EXCEPT !.clearance = touched]
    BY <1>6
  <2> HIDE DEF touched
  <2> QED
    BY <1>5, <2>1, <2>2 DEF Stamps
<1>8. /\ contents'.mine \ {r.user} = contents.mine \ {r.user}
      /\ \A u \in Users \ {r.user} : contents'.cleared[u] = contents.cleared[u]
  BY <1>1, <1>4
<1>9. new = Browsed!touch_my_samples(stamps, {r.user}, r)
  BY DEF new
<1> QED
  BY <1>4, <1>7, <1>8, <1>9, OwnSamplesAreNoticed

(* A membership changes, perhaps together with the confidentiality.        *)
LEMMA EditsTopic ==
  ASSUME BrowserTypes, Browsed!BrowserAssumption, NEW r \in Changes, Browsed!EditTopic(r)
  PROVE  Written(r) /\ Noticed(r.now)
<1>1. PICK confidential \in BOOLEAN :
        /\ contents' = [contents EXCEPT !.confidential = confidential, !.members = Browsed!Toggled(@, r.user)]
        /\ stamps' = Browsed!touch_by_topic_memberships(
                       Browsed!touch_my_samples_list_by_topic(stamps, contents.confidential, confidential, r.now),
                       {r.user}, confidential, r)
  BY DEF Browsed!EditTopic
<1>2. r.user \in Users /\ r.now \in Nat /\ contents.members \subseteq Users /\ Viewer \in Users
  BY DEF BrowserTypes, Contents, Changes, Browsed!BrowserAssumption
<1>3. /\ contents' \in Contents /\ contents'.confidential = confidential
      /\ contents'.members = Browsed!Toggled(contents.members, r.user)
      /\ contents'.sample = contents.sample /\ contents'.in_series = contents.in_series /\ contents'.name = contents.name
      /\ contents'.cleared = contents.cleared /\ contents'.mine = contents.mine
      /\ contents'.grants = contents.grants /\ contents'.language = contents.language
  <2>1. Browsed!Toggled(contents.members, r.user) \in SUBSET Users
    BY <1>2 DEF Browsed!Toggled
  <2> QED
    BY <1>1, <2>1 DEF BrowserTypes, Contents
<1> DEFINE first == Browsed!touch_my_samples_list_by_topic(stamps, contents.confidential, confidential, r.now)
           second == IF confidential THEN Browsed!ListsTouched(first, {r.user}, r.now) ELSE first
<1>4. /\ first \in Stamps
      /\ first.sample = stamps.sample /\ first.series = stamps.series /\ first.clearance = stamps.clearance
      /\ first.display = stamps.display /\ first.my = stamps.my /\ first.layout = stamps.layout
      /\ \A u \in Users : first.list[u] \in {stamps.list[u], r.now}
      /\ contents.confidential # confidential => \A u \in Users : first.list[u] = r.now
  <2>1. CASE contents.confidential # confidential
    <3>1. first = Browsed!ListsTouched(stamps, Users, r.now)
      BY <2>1 DEF Browsed!touch_my_samples_list_by_topic
    <3> HIDE DEF first
    <3>2. /\ first \in Stamps
          /\ first.sample = stamps.sample /\ first.series = stamps.series /\ first.clearance = stamps.clearance
          /\ first.display = stamps.display /\ first.my = stamps.my /\ first.layout = stamps.layout
          /\ first.list = [u \in Users |-> IF u \in Users THEN r.now ELSE stamps.list[u]]
      BY <1>2, <3>1, ListsAreTouched DEF BrowserTypes
    <3> QED
      BY <3>2
  <2>2. CASE contents.confidential = confidential
    <3>1. first = stamps
      BY <2>2 DEF Browsed!touch_my_samples_list_by_topic
    <3> HIDE DEF first
    <3> QED
      BY <2>2, <3>1 DEF BrowserTypes
  <2> QED
    BY <2>1, <2>2
<1> HIDE DEF first
<1>5. /\ second \in Stamps
      /\ second.sample = stamps.sample /\ second.series = stamps.series /\ second.clearance = stamps.clearance
      /\ second.display = stamps.display /\ second.my = stamps.my /\ second.layout = stamps.layout
      /\ \A u \in Users : second.list[u] \in {stamps.list[u], r.now}
      /\ contents.confidential # confidential => \A u \in Users : second.list[u] = r.now
      /\ confidential = TRUE => second.list[r.user] = r.now
  <2>1. CASE confidential = TRUE
    <3>1. second = Browsed!ListsTouched(first, {r.user}, r.now)
      BY <2>1
    <3> HIDE DEF second
    <3>2. /\ second \in Stamps
          /\ second.sample = first.sample /\ second.series = first.series /\ second.clearance = first.clearance
          /\ second.display = first.display /\ second.my = first.my /\ second.layout = first.layout
          /\ second.list = [u \in Users |-> IF u \in {r.user} THEN r.now ELSE first.list[u]]
      BY <1>2, <1>4, <3>1, ListsAreTouched
    <3> QED
      BY <1>2, <1>4, <3>2
  <2>2. CASE confidential # TRUE
    <3>1. second = first
      BY <2>2
    <3> HIDE DEF second
    <3> QED
      BY <1>4, <2>2, <3>1
  <2> QED
    BY <2>1, <2>2
<1>6. stamps' = Browsed!touch_display_settings(second, {r.user}, r)
  BY <1>1 DEF first, Browsed!touch_by_topic_memberships
<1> HIDE DEF second
<1>7. /\ stamps' \in Stamps
      /\ stamps'.sample = stamps.sample /\ stamps'.series = stamps.series /\ stamps'.clearance = stamps.clearance
      /\ stamps'.list = second.list /\ stamps'.layout = stamps.layout
      /\ stamps'.display = [u \in Users |-> IF u \in {r.user} THEN r.now ELSE second.display[u]]
      /\ stamps'.my = [u \in Users |-> IF u \in {r.user} THEN r.read.my[u] ELSE second.my[u]]
  BY <1>5, <1>6, DisplayIsTouched
<1>8. Written(r)
  <2> SUFFICES ASSUME NEW u \in Users
               PROVE  /\ stamps'.display[u] \in {stamps.display[u], r.now}
                      /\ stamps'.my[u] \in {stamps.my[u], r.read.my[u]}
                      /\ stamps'.list[u] \in {stamps.list[u], r.now}
    BY <1>3, <1>7 DEF Written
  <2> QED
    BY <1>5, <1>7
<1>9. CASE Viewer = r.user
  <2>1. stamps'.display[Viewer] = r.now
    BY <1>2, <1>7, <1>9
  <2>2. \A p \in Browsed!Pages : r.now \in Browsed!embed_timestamp(p, Viewer)'
    BY <2>1 DEF Browsed!embed_timestamp
  <2>3. CASE contents.confidential # confidential \/ confidential = TRUE
    <3>1. stamps'.list[Viewer] = r.now
      BY <1>2, <1>5, <1>7, <1>9, <2>3
    <3> QED
      BY <1>8, <2>2, <3>1 DEF Noticed
  <2>4. CASE contents.confidential = confidential /\ confidential # TRUE
    <3>1. Browsed!build_structured_sample_list(Viewer)' = Browsed!build_structured_sample_list(Viewer)
      BY <1>3, <2>4 DEF Browsed!build_structured_sample_list, Browsed!Watches
    <3> QED
      BY <1>8, <2>2, <3>1 DEF Noticed
  <2> QED
    BY <2>3, <2>4
<1>10. CASE Viewer # r.user
  <2>1. (Viewer \in contents'.members) = (Viewer \in contents.members)
    BY <1>3, <1>10 DEF Browsed!Toggled
  <2>2. Browsed!Common(Viewer)' = Browsed!Common(Viewer)
    BY <1>3, <2>1 DEF Browsed!Common
  <2>3. \A p \in Browsed!Pages : Browsed!Shown(p, Viewer)' = Browsed!Shown(p, Viewer)
    BY <1>3, <2>2 DEF Browsed!Shown, Browsed!Watches
  <2>4. CASE contents.confidential # confidential
    <3>1. stamps'.list[Viewer] = r.now
      BY <1>2, <1>5, <1>7, <2>4
    <3> QED
      BY <1>8, <2>3, <3>1 DEF Noticed
  <2>5. CASE contents.confidential = confidential
    <3>1. Browsed!build_structured_sample_list(Viewer)' = Browsed!build_structured_sample_list(Viewer)
      BY <1>3, <2>1, <2>5 DEF Browsed!build_structured_sample_list, Browsed!Watches
    <3> QED
      BY <1>8, <2>3, <3>1 DEF Noticed
  <2> QED
    BY <2>4, <2>5
<1> QED
  BY <1>9, <1>10

(* The pages do not show the names of topics; the menu is touched.         *)
LEMMA ChangesConfidentiality ==
  ASSUME BrowserTypes, Browsed!BrowserAssumption, NEW r \in Changes, Browsed!ChangeConfidentiality(r)
  PROVE  Written(r) /\ Noticed(r.now)
<1>1. /\ contents' \in Contents /\ contents'.confidential # contents.confidential
      /\ contents'.members = contents.members
      /\ contents'.sample = contents.sample /\ contents'.in_series = contents.in_series /\ contents'.name = contents.name
      /\ contents'.cleared = contents.cleared /\ contents'.mine = contents.mine
      /\ contents'.grants = contents.grants /\ contents'.language = contents.language
  BY DEF BrowserTypes, Contents, Browsed!ChangeConfidentiality
<1>2. stamps' = Browsed!ListsTouched(stamps, Users, r.now)
  BY <1>1 DEF Browsed!ChangeConfidentiality, Browsed!touch_my_samples_list_by_topic
<1>3. /\ stamps' \in Stamps
      /\ stamps'.sample = stamps.sample /\ stamps'.series = stamps.series /\ stamps'.clearance = stamps.clearance
      /\ stamps'.display = stamps.display /\ stamps'.my = stamps.my /\ stamps'.layout = stamps.layout
      /\ stamps'.list = [u \in Users |-> IF u \in Users THEN r.now ELSE stamps.list[u]]
  BY <1>2, ListsAreTouched DEF BrowserTypes, Changes
<1>4. Written(r)
  BY <1>1, <1>3 DEF Written
<1>5. \A p \in Browsed!Pages : Browsed!Shown(p, Viewer)' = Browsed!Shown(p, Viewer)
  BY <1>1 DEF Browsed!Shown, Browsed!Watches, Browsed!Common
<1>6. stamps'.list[Viewer] = r.now
  BY <1>3 DEF Browsed!BrowserAssumption
<1> QED
  BY <1>4, <1>5, <1>6 DEF Noticed

(* Permissions are shown to the user who has them, on every page.          *)
LEMMA GrantsPermission ==
  ASSUME BrowserTypes, Browsed!BrowserAssumption, NEW r \in Changes, Browsed!GrantPermission(r)
  PROVE  Written(r) /\ Noticed(r.now)
<1>1. r.user \in Users /\ Viewer \in Users /\ contents.grants \in [Users -> BOOLEAN]
  BY DEF BrowserTypes, Contents, Changes, Browsed!BrowserAssumption
<1> DEFINE grants == [contents.grants EXCEPT ![r.user] = ~@]
<1>2. grants \in [Users -> BOOLEAN] /\ (Viewer # r.user => grants[Viewer] = contents.grants[Viewer])
  BY <1>1
<1>3. contents' = [contents EXCEPT !.grants = grants]
  BY DEF Browsed!GrantPermission, BrowserTypes, Contents
<1> HIDE DEF grants
<1>4. /\ contents' \in Contents /\ contents'.grants = grants
      /\ contents'.confidential = contents.confidential /\ contents'.members = contents.members
      /\ contents'.sample = contents.sample /\ contents'.in_series = contents.in_series /\ contents'.name = contents.name
      /\ contents'.cleared = contents.cleared /\ contents'.mine = contents.mine
      /\ contents'.language = contents.language
  BY <1>2, <1>3 DEF BrowserTypes, Contents
<1>5. stamps' = Browsed!touch_display_settings(stamps, {r.user}, r)
  BY DEF Browsed!GrantPermission
<1>6. /\ stamps' \in Stamps
      /\ stamps'.sample = stamps.sample /\ stamps'.series = stamps.series /\ stamps'.clearance = stamps.clearance
      /\ stamps'.list = stamps.list /\ stamps'.layout = stamps.layout
      /\ stamps'.display = [u \in Users |-> IF u \in {r.user} THEN r.now ELSE stamps.display[u]]
      /\ stamps'.my = [u \in Users |-> IF u \in {r.user} THEN r.read.my[u] ELSE stamps.my[u]]
  BY <1>5, DisplayIsTouched DEF BrowserTypes
<1>7. Written(r)
  BY <1>4, <1>6 DEF Written
<1>8. Browsed!build_structured_sample_list(Viewer)' = Browsed!build_structured_sample_list(Viewer)
  BY <1>4 DEF Browsed!build_structured_sample_list, Browsed!Watches
<1>9. CASE Viewer = r.user
  <2>1. stamps'.display[Viewer] = r.now
    BY <1>1, <1>6, <1>9
  <2>2. \A p \in Browsed!Pages : r.now \in Browsed!embed_timestamp(p, Viewer)'
    BY <2>1 DEF Browsed!embed_timestamp
  <2> QED
    BY <1>7, <1>8, <2>2 DEF Noticed
<1>10. CASE Viewer # r.user
  <2>1. Browsed!Common(Viewer)' = Browsed!Common(Viewer)
    BY <1>2, <1>4, <1>10 DEF Browsed!Common
  <2>2. \A p \in Browsed!Pages : Browsed!Shown(p, Viewer)' = Browsed!Shown(p, Viewer)
    BY <1>4, <2>1 DEF Browsed!Shown, Browsed!Watches
  <2> QED
    BY <1>7, <1>8, <2>2 DEF Noticed
<1> QED
  BY <1>9, <1>10

(* So is the language, with the layout.                                    *)
LEMMA SwitchesLanguage ==
  ASSUME BrowserTypes, Browsed!BrowserAssumption, NEW r \in Changes, Browsed!SwitchLanguage(r)
  PROVE  Written(r) /\ Noticed(r.now)
<1>1. /\ r.user \in Users /\ Viewer \in Users /\ contents.language \in [Users -> BOOLEAN]
      /\ stamps.layout \in [Users -> Nat] /\ r.now \in Nat
  BY DEF BrowserTypes, Contents, Stamps, Changes, Browsed!BrowserAssumption
<1> DEFINE language == [contents.language EXCEPT ![r.user] = ~@]
           layout == [stamps.layout EXCEPT ![r.user] = r.now]
<1>2. /\ language \in [Users -> BOOLEAN] /\ (Viewer # r.user => language[Viewer] = contents.language[Viewer])
      /\ layout \in [Users -> Nat] /\ layout[r.user] = r.now /\ \A u \in Users : layout[u] \in {stamps.layout[u], r.now}
  BY <1>1
<1>3. contents' = [contents EXCEPT !.language = language] /\ stamps' = [stamps EXCEPT !.layout = layout]
  BY DEF Browsed!SwitchLanguage, BrowserTypes, Contents, Stamps
<1> HIDE DEF language, layout
<1>4. /\ contents' \in Contents /\ contents'.language = language
      /\ contents'.confidential = contents.confidential /\ contents'.members = contents.members
      /\ contents'.sample = contents.sample /\ contents'.in_series = contents.in_series /\ contents'.name = contents.name
      /\ contents'.cleared = contents.cleared /\ contents'.mine = contents.mine
      /\ contents'.grants = contents.grants
  BY <1>2, <1>3 DEF BrowserTypes, Contents
<1>5. /\ stamps' \in Stamps
      /\ stamps'.sample = stamps.sample /\ stamps'.series = stamps.series /\ stamps'.clearance = stamps.clearance
      /\ stamps'.list = stamps.list /\ stamps'.display = stamps.display /\ stamps'.my = stamps.my
      /\ stamps'.layout = layout
  BY <1>2, <1>3 DEF BrowserTypes, Stamps
<1>6. Written(r)
  BY <1>2, <1>4, <1>5 DEF Written
<1>7. Browsed!build_structured_sample_list(Viewer)' = Browsed!build_structured_sample_list(Viewer)
  BY <1>4 DEF Browsed!build_structured_sample_list, Browsed!Watches
<1>8. CASE Viewer = r.user
  <2>1. stamps'.layout[Viewer] = r.now
    BY <1>2, <1>5, <1>8
  <2>2. \A p \in Browsed!Pages : r.now \in Browsed!embed_timestamp(p, Viewer)'
    BY <2>1 DEF Browsed!embed_timestamp
  <2> QED
    BY <1>6, <1>7, <2>2 DEF Noticed
<1>9. CASE Viewer # r.user
  <2>1. Browsed!Common(Viewer)' = Browsed!Common(Viewer)
    BY <1>2, <1>4, <1>9 DEF Browsed!Common
  <2>2. \A p \in Browsed!Pages : Browsed!Shown(p, Viewer)' = Browsed!Shown(p, Viewer)
    BY <1>4, <2>1 DEF Browsed!Shown, Browsed!Watches
  <2> QED
    BY <1>6, <1>7, <2>2 DEF Noticed
<1> QED
  BY <1>8, <1>9

LEMMA CommitIsNoticed ==
  ASSUME BrowserTypes, Browsed!BrowserAssumption, NEW q \in Requests, Browsed!Commit(q)
  PROVE  pending[q] \in Changes /\ Written(pending[q]) /\ Noticed(pending[q].now)
<1>1. pending[q] \in Changes
  BY DEF BrowserTypes, Browsed!Commit
<1>2. \/ Browsed!SaveSample(pending[q]) \/ Browsed!EditSeries(pending[q]) \/ Browsed!RenameUser(pending[q])
      \/ Browsed!ChangeMySamples(pending[q]) \/ Browsed!ShareSample(pending[q]) \/ Browsed!EditTopic(pending[q])
      \/ Browsed!ChangeConfidentiality(pending[q]) \/ Browsed!GrantPermission(pending[q])
      \/ Browsed!SwitchLanguage(pending[q])
  BY DEF Browsed!Commit
<1> DEFINE r == pending[q]
<1> HIDE DEF r
<1>3. r \in Changes
  BY <1>1 DEF r
<1>4. \/ Browsed!SaveSample(r) \/ Browsed!EditSeries(r) \/ Browsed!RenameUser(r)
      \/ Browsed!ChangeMySamples(r) \/ Browsed!ShareSample(r) \/ Browsed!EditTopic(r)
      \/ Browsed!ChangeConfidentiality(r) \/ Browsed!GrantPermission(r) \/ Browsed!SwitchLanguage(r)
  BY <1>2 DEF r
<1>5. Written(r) /\ Noticed(r.now)
  <2>1. CASE Browsed!SaveSample(r) BY <1>3, <2>1, SavesSample
  <2>2. CASE Browsed!EditSeries(r) BY <1>3, <2>2, EditsSeries
  <2>3. CASE Browsed!RenameUser(r) BY <1>3, <2>3, RenamesUser
  <2>4. CASE Browsed!ChangeMySamples(r) BY <1>3, <2>4, ChangesMySamples
  <2>5. CASE Browsed!ShareSample(r) BY <1>3, <2>5, SharesSample
  <2>6. CASE Browsed!EditTopic(r) BY <1>3, <2>6, EditsTopic
  <2>7. CASE Browsed!ChangeConfidentiality(r) BY <1>3, <2>7, ChangesConfidentiality
  <2>8. CASE Browsed!GrantPermission(r) BY <1>3, <2>8, GrantsPermission
  <2>9. CASE Browsed!SwitchLanguage(r) BY <1>3, <2>9, SwitchesLanguage
  <2> QED
    BY <1>4, <2>1, <2>2, <2>3, <2>4, <2>5, <2>6, <2>7, <2>8, <2>9
<1> QED
  BY <1>1, <1>5 DEF r

(* A request that is alone takes no timestamp back.  If it changes what a  *)
(* page shows, the page gets an ETag that it has never had.                *)
LEMMA AloneKeepsFit ==
  ASSUME BrowserTypes, Browsed!BrowserAssumption, NEW r \in Changes, Written(r), Noticed(r.now),
         r.read = stamps, Before(stamps, r.now), UNCHANGED <<kept, asked, menu>>,
         MenuFits, \A p \in Browsed!Pages : PageFits(p)
  PROVE  MenuFits' /\ \A p \in Browsed!Pages : PageFits(p)'
<1> DEFINE t == r.now
           L == stamps.list[Viewer]
           LL == stamps'.list[Viewer]
<1>1. t \in Nat /\ Viewer \in Users /\ stamps \in Stamps /\ stamps' \in Stamps /\ Browsed!BrowserAssumption'
  BY DEF BrowserTypes, Changes, Written, Browsed!BrowserAssumption
<1>2. Later(stamps, stamps', t)
  BY DEF Later, Written
<1>3. L \in Nat /\ L < t /\ LL \in {L, t}
  BY <1>1, <1>2 DEF Before, Later, Stamps
<1>4. MenuFits'
  <2> SUFFICES ASSUME NEW x \in DOMAIN menu, menu[x] # None
               PROVE  x <= LL /\ (x = LL => menu[x] = Browsed!build_structured_sample_list(Viewer)')
    BY DEF MenuFits
  <2>1. x <= L /\ (x = L => menu[x] = Browsed!build_structured_sample_list(Viewer))
    BY DEF MenuFits
  <2>2. x \in Nat
    BY DEF BrowserTypes, Browsed!Times
  <2>3. CASE LL = t
    BY <1>1, <1>3, <2>1, <2>2, <2>3
  <2>4. CASE LL # t
    <3>1. LL = L
      BY <1>3, <2>4
    <3>2. Browsed!build_structured_sample_list(Viewer)' = Browsed!build_structured_sample_list(Viewer)
      BY <2>4 DEF Noticed
    <3> QED
      BY <2>1, <3>1, <3>2
  <2> QED
    BY <2>3, <2>4
<1>5. ASSUME NEW p \in Browsed!Pages
      PROVE  PageFits(p)'
  <2> DEFINE T == Browsed!embed_timestamp(p, Viewer)
             TT == Browsed!embed_timestamp(p, Viewer)'
             E == Browsed!etag(p, Viewer)
             EE == Browsed!etag(p, Viewer)'
             a == IF p = "sample" THEN stamps.sample ELSE stamps.series
             aa == IF p = "sample" THEN stamps'.sample ELSE stamps'.series
  <2>1. /\ T \subseteq Nat /\ E \in T /\ \A x \in T : x <= E
        /\ E = Browsed!Latest(T)
    <3>1. \/ T = {stamps.sample, stamps.clearance[Viewer], stamps.display[Viewer], stamps.my[Viewer], stamps.layout[Viewer]}
          \/ T = {stamps.series, stamps.display[Viewer], stamps.layout[Viewer]}
      BY DEF Browsed!embed_timestamp
    <3>2. E = Browsed!Latest(T)
      BY DEF Browsed!etag
    <3> HIDE DEF T, E
    <3> QED
      BY <1>1, <3>1, <3>2, TimestampsHaveLatest
  <2>2. /\ TT \subseteq Nat /\ EE \in TT /\ \A x \in TT : x <= EE
        /\ EE = Browsed!Latest(TT)
    <3>1. \/ TT = {stamps'.sample, stamps'.clearance[Viewer], stamps'.display[Viewer], stamps'.my[Viewer],
                   stamps'.layout[Viewer]}
          \/ TT = {stamps'.series, stamps'.display[Viewer], stamps'.layout[Viewer]}
      BY DEF Browsed!embed_timestamp
    <3>2. EE = Browsed!Latest(TT)
      BY DEF Browsed!etag
    <3> HIDE DEF TT, EE
    <3> QED
      BY <1>1, <3>1, <3>2, TimestampsHaveLatest
  <2>3. /\ stamps'.sample \in {stamps.sample, t} /\ stamps'.series \in {stamps.series, t}
        /\ stamps'.clearance[Viewer] \in {stamps.clearance[Viewer], t}
        /\ stamps'.display[Viewer] \in {stamps.display[Viewer], t}
        /\ stamps'.my[Viewer] \in {stamps.my[Viewer], t}
        /\ stamps'.layout[Viewer] \in {stamps.layout[Viewer], t}
    BY <1>1, <1>2 DEF Later
  <2>4. TT \subseteq T \cup {t} /\ (t \notin TT => TT = T)
    <3>1. CASE p = "sample"
      <4>1. /\ T = {stamps.sample, stamps.clearance[Viewer], stamps.display[Viewer], stamps.my[Viewer], stamps.layout[Viewer]}
            /\ TT = {stamps'.sample, stamps'.clearance[Viewer], stamps'.display[Viewer], stamps'.my[Viewer],
                     stamps'.layout[Viewer]}
        BY <3>1 DEF Browsed!embed_timestamp
      <4> HIDE DEF t, T, TT
      <4> QED
        BY <2>3, <4>1
    <3>2. CASE p = "series"
      <4>1. /\ T = {stamps.series, stamps.display[Viewer], stamps.layout[Viewer]}
            /\ TT = {stamps'.series, stamps'.display[Viewer], stamps'.layout[Viewer]}
        BY <3>2 DEF Browsed!embed_timestamp
      <4> HIDE DEF t, T, TT
      <4> QED
        BY <2>3, <4>1
    <3> QED
      BY <3>1, <3>2 DEF Browsed!Pages
  <2>5. \A x \in T : x < t
    BY <1>1 DEF Before, Browsed!embed_timestamp
  <2>6. /\ kept[p] # None => kept[p].etag <= E /\ kept[p].etag \in Nat
        /\ kept[p] # None /\ kept[p].etag = E => kept[p].shown = Browsed!Shown(p, Viewer)
        /\ asked # None /\ asked.page = p => asked.etag <= E /\ asked.etag \in Nat
    BY DEF PageFits, Browsed!Fresh, BrowserTypes
  <2>7. SUFFICES /\ kept[p] # None => kept[p].etag <= EE
                 /\ kept[p] # None /\ kept[p].etag = EE => kept[p].shown = Browsed!Shown(p, Viewer)'
                 /\ asked # None /\ asked.page = p => asked.etag <= EE
    BY DEF PageFits, Browsed!Fresh
  <2> HIDE DEF t, T, TT, E, EE
  <2>8. CASE t \in TT
    <3>1. E < EE /\ E \in Nat /\ EE \in Nat
      BY <1>1, <2>1, <2>2, <2>4, <2>5, <2>8
    <3> QED
      BY <2>6, <3>1
  <2>9. CASE t \notin TT
    <3>1. EE = E
      BY <2>1, <2>2, <2>4, <2>9
    <3>2. Browsed!Shown(p, Viewer)' = Browsed!Shown(p, Viewer)
      BY <2>9 DEF Noticed, t, TT
    <3> QED
      BY <2>6, <3>1, <3>2
  <2> QED
    BY <2>8, <2>9
<1> QED
  BY <1>4, <1>5

LEMMA CommitStep ==
  ASSUME BrowserInv, Browsed!BrowserAssumption, NEW q \in Requests, Browsed!Commit(q)
  PROVE  BrowserInv'
<1> DEFINE r == pending[q]
<1>1. r \in Changes /\ Written(r) /\ Noticed(r.now) /\ r # None
  BY CommitIsNoticed DEF BrowserInv, Browsed!Commit
<1>2. /\ outrun' = (outrun \/ ~r.alone) /\ UNCHANGED <<clock, kept, asked, menu>>
      /\ pending' = [p \in Requests |-> IF p = q \/ pending[p] = None THEN None ELSE [pending[p] EXCEPT !.alone = FALSE]]
  BY DEF Browsed!Commit
<1> HIDE DEF r
<1>3. \A p \in Requests : pending'[p] # None =>
        /\ pending[p] # None /\ pending[p] \in Changes /\ pending'[p] \in Changes
        /\ pending'[p].now = pending[p].now /\ pending'[p].read = pending[p].read /\ ~pending'[p].alone
  <2> SUFFICES ASSUME NEW p \in Requests, pending'[p] # None
               PROVE  /\ pending[p] # None /\ pending[p] \in Changes /\ pending'[p] \in Changes
                      /\ pending'[p].now = pending[p].now /\ pending'[p].read = pending[p].read /\ ~pending'[p].alone
    OBVIOUS
  <2>1. pending[p] # None /\ pending'[p] = [pending[p] EXCEPT !.alone = FALSE]
    BY <1>2
  <2>2. pending[p] \in Changes
    BY <2>1 DEF BrowserInv, BrowserTypes
  <2> QED
    BY <2>1, <2>2 DEF Changes
<1>4. BrowserTypes'
  <2>1. pending' \in [Requests -> {None} \cup Changes]
    BY <1>2, <1>3
  <2> QED
    BY <1>1, <1>2, <2>1 DEF BrowserInv, BrowserTypes, Written, Changes
<1>5. Before(stamps, clock + 1) /\ Before(r.read, clock + 1) /\ r.now <= clock
      /\ (r.alone => r.read = stamps /\ Before(stamps, r.now))
  BY <1>1 DEF r, BrowserInv, StampsAreOld
<1>6. StampsAreOld'
  <2>1. Before(stamps', clock + 1)
    <3>1. r.now \in Nat /\ clock \in Nat /\ r.now < clock + 1
      BY <1>1, <1>5 DEF Changes, BrowserInv, BrowserTypes
    <3> QED
      BY <1>1, <1>5, <3>1 DEF Before, Written
  <2>2. ASSUME NEW p \in Requests, pending'[p] # None
        PROVE  pending'[p].now <= clock /\ Before(pending'[p].read, clock + 1) /\ ~pending'[p].alone
    BY <1>3, <2>2 DEF BrowserInv, StampsAreOld
  <2> QED
    BY <1>2, <2>1, <2>2 DEF StampsAreOld
<1>7. ~outrun' => MenuFits' /\ \A p \in Browsed!Pages : PageFits(p)'
  BY <1>1, <1>2, <1>5, AloneKeepsFit DEF BrowserInv
<1> QED
  BY <1>4, <1>6, <1>7 DEF BrowserInv

LEMMA BeginStep ==
  ASSUME BrowserInv, Browsed!BrowserAssumption, NEW q \in Requests, Browsed!Begin(q)
  PROVE  BrowserInv'
<1>1. PICK u \in Users :
        pending' = [pending EXCEPT ![q] = [user |-> u, now |-> clock', read |-> stamps, alone |-> TRUE]]
  BY DEF Browsed!Begin
<1>2. clock' = clock + 1 /\ clock < MaxChanges /\ UNCHANGED <<contents, stamps, kept, asked, menu, outrun>>
  BY DEF Browsed!Begin
<1>3. clock \in Nat /\ MaxChanges \in Nat
  BY DEF BrowserInv, BrowserTypes, Browsed!BrowserAssumption
<1> DEFINE r == [user |-> u, now |-> clock', read |-> stamps, alone |-> TRUE]
<1>4. r \in Changes /\ r.now = clock + 1 /\ r.read = stamps
  BY <1>2, <1>3 DEF Changes, BrowserInv, BrowserTypes
<1>5. pending' \in [Requests -> {None} \cup Changes] /\ pending'[q] = r /\ \A p \in Requests \ {q} : pending'[p] = pending[p]
  <2> HIDE DEF r
  <2> QED
    BY <1>1, <1>4 DEF r, BrowserInv, BrowserTypes
<1> HIDE DEF r
<1>6. BrowserTypes'
  BY <1>2, <1>3, <1>5 DEF BrowserInv, BrowserTypes, Browsed!Times
<1>7. Before(stamps, clock + 1) /\ Before(stamps, clock + 1 + 1)
  BY <1>3 DEF BrowserInv, BrowserTypes, StampsAreOld, Before, Stamps
<1>8. StampsAreOld'
  <2>1. ASSUME NEW p \in Requests, pending'[p] # None
        PROVE  /\ pending'[p].now <= clock + 1 /\ Before(pending'[p].read, clock + 1 + 1)
               /\ pending'[p].alone => pending'[p].read = stamps /\ Before(stamps, pending'[p].now)
    <3>1. CASE p = q
      BY <1>3, <1>4, <1>5, <1>7, <3>1
    <3>2. CASE p # q
      <4>1. pending'[p] = pending[p] /\ pending[p] \in Changes
        BY <1>5, <2>1, <3>2 DEF BrowserInv, BrowserTypes
      <4>2. /\ pending[p].now <= clock /\ Before(pending[p].read, clock + 1)
            /\ pending[p].alone => pending[p].read = stamps /\ Before(stamps, pending[p].now)
        BY <2>1, <4>1 DEF BrowserInv, StampsAreOld
      <4>3. pending[p].now \in Nat /\ pending[p].read \in Stamps
        BY <4>1 DEF Changes
      <4>4. Before(pending[p].read, clock + 1 + 1)
        BY <1>3, <4>2, <4>3 DEF Before, Stamps
      <4> QED
        BY <1>3, <4>1, <4>2, <4>3, <4>4
    <3> QED
      BY <3>1, <3>2
  <2> QED
    BY <1>2, <1>7, <2>1 DEF StampsAreOld
<1>9. ~outrun' => MenuFits' /\ \A p \in Browsed!Pages : PageFits(p)'
  BY <1>2 DEF BrowserInv, MenuFits, PageFits, Browsed!Fresh, Browsed!etag, Browsed!embed_timestamp, Browsed!Shown,
              Browsed!Common, Browsed!Watches, Browsed!build_structured_sample_list
<1> QED
  BY <1>6, <1>8, <1>9 DEF BrowserInv

(* Everything but the pages is left alone.                                 *)
LEMMA PagesStep ==
  ASSUME BrowserInv, Browsed!BrowserAssumption, UNCHANGED <<contents, stamps, clock, pending, outrun>>,
         \/ \E p \in Browsed!Pages : Browsed!Ask(p)
         \/ Browsed!Render
         \/ Browsed!show_main_menu
         \/ UNCHANGED <<kept, asked, menu>>
  PROVE  BrowserInv'
<1> DEFINE E(p) == Browsed!etag(p, Viewer)
<1>1. /\ \A p : Browsed!etag(p, Viewer)' = E(p) /\ Browsed!Shown(p, Viewer)' = Browsed!Shown(p, Viewer)
      /\ Browsed!build_structured_sample_list(Viewer)' = Browsed!build_structured_sample_list(Viewer)
  BY DEF Browsed!etag, Browsed!embed_timestamp, Browsed!Shown, Browsed!Common, Browsed!Watches,
         Browsed!build_structured_sample_list
<1>2. StampsAreOld'
  BY DEF BrowserInv, StampsAreOld
<1>3. ASSUME NEW p \in Browsed!Pages
      PROVE  E(p) \in Nat
  <2>1. stamps \in Stamps /\ Viewer \in Users
    BY DEF BrowserInv, BrowserTypes, Browsed!BrowserAssumption
  <2> QED
    BY <2>1, TimestampsHaveLatest DEF Browsed!etag, Browsed!embed_timestamp
<1> HIDE DEF E
<1>4. CASE \E p \in Browsed!Pages : Browsed!Ask(p)
  <2>1. PICK p \in Browsed!Pages : asked' = [page |-> p, etag |-> E(p)]
    BY <1>4 DEF Browsed!Ask, E
  <2>2. UNCHANGED <<kept, menu>>
    BY <1>4 DEF Browsed!Ask
  <2>3. asked'.page = p /\ asked'.etag = E(p)
    BY <2>1
  <2>4. BrowserTypes'
    BY <1>3, <2>2, <2>3 DEF BrowserInv, BrowserTypes
  <2>5. ~outrun' => MenuFits' /\ \A x \in Browsed!Pages : PageFits(x)'
    BY <1>1, <1>3, <2>2, <2>3 DEF BrowserInv, MenuFits, PageFits, Browsed!Fresh, E
  <2> QED
    BY <1>2, <2>4, <2>5 DEF BrowserInv
<1>5. CASE Browsed!Render
  <2> DEFINE p == asked.page
             answered == [etag |-> asked.etag, shown |-> Browsed!Shown(p, Viewer)]
  <2>1. p \in Browsed!Pages /\ asked.etag \in Nat
    BY <1>5 DEF BrowserInv, BrowserTypes, Browsed!Render
  <2>2. kept' = [kept EXCEPT ![p] = answered] /\ asked' = None /\ UNCHANGED menu
    BY <1>5 DEF Browsed!Render
  <2>3. /\ DOMAIN kept' = DOMAIN kept /\ kept'[p].etag = asked.etag /\ kept'[p].shown = Browsed!Shown(p, Viewer)
        /\ \A x \in Browsed!Pages \ {p} : kept'[x] = kept[x]
    BY <2>1, <2>2 DEF BrowserInv, BrowserTypes
  <2> HIDE DEF answered, p
  <2>4. BrowserTypes'
    BY <2>1, <2>2, <2>3 DEF BrowserInv, BrowserTypes
  <2>5. ~outrun => asked.etag <= E(p)
    BY <1>5, <2>1 DEF BrowserInv, PageFits, Browsed!Render, p, E
  <2>6. ASSUME ~outrun', NEW x \in Browsed!Pages
        PROVE  PageFits(x)'
    <3>1. CASE x = p
      BY <1>1, <2>2, <2>3, <2>5, <2>6, <3>1 DEF PageFits, Browsed!Fresh
    <3>2. CASE x # p
      BY <1>1, <2>2, <2>3, <2>6, <3>2 DEF BrowserInv, PageFits, Browsed!Fresh, E
    <3> QED
      BY <3>1, <3>2
  <2>7. ~outrun' => MenuFits'
    BY <1>1, <2>2 DEF BrowserInv, MenuFits
  <2> QED
    BY <1>2, <2>4, <2>6, <2>7 DEF BrowserInv
<1>6. CASE Browsed!show_main_menu
  <2>1. /\ menu' = [menu EXCEPT ![stamps.list[Viewer]] = Browsed!build_structured_sample_list(Viewer)]
        /\ UNCHANGED <<kept, asked>>
    BY <1>6 DEF Browsed!show_main_menu
  <2>2. /\ DOMAIN menu' = DOMAIN menu
        /\ \A t \in DOMAIN menu :
             menu'[t] = IF t = stamps.list[Viewer] THEN Browsed!build_structured_sample_list(Viewer) ELSE menu[t]
    BY <2>1
  <2>3. BrowserTypes'
    BY <2>1, <2>2 DEF BrowserInv, BrowserTypes
  <2>4. stamps.list[Viewer] \in Nat
    BY DEF BrowserInv, BrowserTypes, Stamps, Browsed!BrowserAssumption
  <2>5. ~outrun' => MenuFits'
    BY <1>1, <2>2, <2>4 DEF BrowserInv, MenuFits
  <2>6. ~outrun' => \A x \in Browsed!Pages : PageFits(x)'
    BY <1>1, <2>1 DEF BrowserInv, PageFits, Browsed!Fresh, E
  <2> QED
    BY <1>2, <2>3, <2>5, <2>6 DEF BrowserInv
<1>7. CASE UNCHANGED <<kept, asked, menu>>
  <2>1. BrowserTypes'
    BY <1>7 DEF BrowserInv, BrowserTypes
  <2>2. ~outrun' => MenuFits' /\ \A x \in Browsed!Pages : PageFits(x)'
    BY <1>1, <1>7 DEF BrowserInv, MenuFits, PageFits, Browsed!Fresh, E
  <2> QED
    BY <1>2, <2>1, <2>2 DEF BrowserInv
<1> QED
  BY <1>4, <1>5, <1>6, <1>7

LEMMA BrowserStarts == Browsed!BrowserAssumption /\ Browsed!Init => BrowserInv
<1> SUFFICES ASSUME Browsed!BrowserAssumption, Browsed!Init
             PROVE  BrowserInv
  OBVIOUS
<1> DEFINE ever == [u \in Users |-> 0]
<1>1. /\ contents = [sample |-> FALSE, name |-> FALSE, in_series |-> TRUE, confidential |-> FALSE, mine |-> {Viewer},
                     members |-> {}, cleared |-> ever, grants |-> [u \in Users |-> FALSE],
                     language |-> [u \in Users |-> FALSE]]
      /\ stamps = [sample |-> 0, series |-> 0, clearance |-> ever, display |-> ever, my |-> ever, list |-> ever,
                   layout |-> ever]
      /\ clock = 0 /\ pending = [q \in Requests |-> None] /\ kept = [p \in Browsed!Pages |-> None] /\ asked = None
      /\ menu = [t \in Browsed!Times |-> None] /\ outrun = FALSE
  BY DEF Browsed!Init
<1>2. ever \in [Users -> Nat] /\ \A u \in Users : ever[u] = 0
  OBVIOUS
<1> HIDE DEF ever
<1>3. contents \in Contents /\ stamps \in Stamps
  BY <1>1, <1>2 DEF Contents, Stamps, Browsed!BrowserAssumption
<1>4. BrowserTypes
  <2>1. clock \in Nat /\ clock <= MaxChanges
    <3>1. MaxChanges \in Nat /\ clock = 0
      BY <1>1 DEF Browsed!BrowserAssumption
    <3> QED
      BY <3>1
  <2>4. outrun \in BOOLEAN
    <3>1. outrun = FALSE
      BY <1>1
    <3> QED
      BY <3>1
  <2>2. pending \in [Requests -> {None} \cup Changes]
    BY <1>1
  <2>3. /\ DOMAIN kept = Browsed!Pages /\ DOMAIN menu = Browsed!Times /\ asked = None
        /\ \A p \in Browsed!Pages : kept[p] = None
    BY <1>1
  <2> QED
    BY <1>3, <2>1, <2>2, <2>3, <2>4 DEF BrowserTypes
<1>5. Before(stamps, 0 + 1)
  BY <1>1, <1>2 DEF Before
<1>6. StampsAreOld
  BY <1>1, <1>5 DEF StampsAreOld
<1>7. MenuFits /\ \A p \in Browsed!Pages : PageFits(p)
  BY <1>1 DEF MenuFits, PageFits, Browsed!Fresh
<1> QED
  BY <1>4, <1>6, <1>7 DEF BrowserInv

(* What browser and server keep for a user is used only while it is what   *)
(* she would get otherwise: whatever the requests of all users change, in  *)
(* any number, unless one of them has been outrun by another.              *)
THEOREM KeptStaysFresh == Browsed!BrowserAssumption => (Browsed!Spec => []KeptIsFresh)
<1> SUFFICES ASSUME Browsed!BrowserAssumption
             PROVE  Browsed!Spec => []KeptIsFresh
  OBVIOUS
<1>1. Browsed!Init => BrowserInv
  BY BrowserStarts
<1>2. BrowserInv /\ [Browsed!Next]_browser_vars => BrowserInv'
  <2> SUFFICES ASSUME BrowserInv, [Browsed!Next]_browser_vars
               PROVE  BrowserInv'
    OBVIOUS
  <2>1. CASE \E q \in Requests : Browsed!Begin(q)
    BY <2>1, BeginStep
  <2>2. CASE \E q \in Requests : Browsed!Commit(q)
    BY <2>2, CommitStep
  <2>3. CASE \E p \in Browsed!Pages : Browsed!Ask(p)
    BY <2>3, PagesStep DEF Browsed!Ask
  <2>4. CASE Browsed!Render
    BY <2>4, PagesStep DEF Browsed!Render
  <2>5. CASE Browsed!show_main_menu
    BY <2>5, PagesStep DEF Browsed!show_main_menu
  <2>6. CASE UNCHANGED browser_vars
    BY <2>6, PagesStep DEF browser_vars
  <2> QED
    BY <2>1, <2>2, <2>3, <2>4, <2>5, <2>6 DEF Browsed!Next
<1>3. BrowserInv => KeptIsFresh
  <2> SUFFICES ASSUME BrowserInv, ~outrun
               PROVE  /\ Browsed!Fresh("sample") /\ Browsed!Fresh("series")
                      /\ menu[stamps.list[Viewer]] # None =>
                           menu[stamps.list[Viewer]] = Browsed!build_structured_sample_list(Viewer)
    BY DEF KeptIsFresh, Browsed!KeptIsFresh, Browsed!DataSheetIsFresh, Browsed!SeriesIsFresh, Browsed!MenuIsFresh
  <2>1. PageFits("sample") /\ PageFits("series") /\ MenuFits
    BY DEF BrowserInv, Browsed!Pages
  <2>2. stamps.list[Viewer] \in DOMAIN menu
    BY DEF BrowserInv, BrowserTypes, StampsAreOld, Before, Stamps, Browsed!Times, Browsed!BrowserAssumption
  <2> QED
    BY <2>1, <2>2 DEF PageFits, MenuFits
<1> QED
  BY <1>1, <1>2, <1>3, PTL DEF Browsed!Spec, Browsed!vars, browser_vars

-----------------------------------------------------------------------------
(* Any natural numbers have a least one: the smallest of the intervals up  *)
(* to them ends with it.                                                   *)
LEMMA LeastExists ==
  ASSUME NEW S \in SUBSET Nat, S # {}
  PROVE  \E m \in S : \A x \in S : m <= x
<1> DEFINE T == {0 .. k : k \in S}
<1>1. T \subseteq FiniteSubsetsOf(Nat) /\ T # {}
  <2>1. \A k \in S : (0 .. k) \in SUBSET Nat /\ IsFiniteSet(0 .. k)
    BY FS_Interval
  <2> QED
    BY <2>1 DEF FiniteSubsetsOf
<1>2. PICK I \in T : \A J \in T : ~(<<J, I>> \in StrictSubsetOrdering(Nat))
  BY <1>1, WFMin, FS_StrictSubsetOrderingWellFounded
<1>3. PICK m \in S : I = 0 .. m
  BY <1>2
<1>4. ASSUME NEW y \in S
      PROVE  m <= y
  <2>1. ~(0 .. y \subseteq 0 .. m /\ 0 .. y # 0 .. m)
    <3>1. (0 .. y) \in T /\ 0 .. y \in SUBSET Nat /\ 0 .. m \in SUBSET Nat
      OBVIOUS
    <3>2. <<0 .. y, 0 .. m>> \notin StrictSubsetOrdering(Nat)
      BY <1>2, <1>3, <3>1
    <3> HIDE DEF T
    <3> QED
      BY <3>1, <3>2 DEF StrictSubsetOrdering
  <2>2. CASE y < m
    <3>1. 0 .. y \subseteq 0 .. m /\ m \in 0 .. m /\ m \notin 0 .. y
      BY <2>2
    <3> QED
      BY <2>1, <3>1
  <2> QED
    BY <2>2
<1> QED
  BY <1>4

-----------------------------------------------------------------------------
(* Harvest.  What a harvester goes on from, and what it asks for now.      *)
Reckoned ==
  /\ instant \in Nat
  /\ published \in [DOMAIN published -> [model : Kinds, timestamp : Nat]]
  /\ added \in Nat /\ DOMAIN published \subseteq 1 .. added
  /\ \A p \in DOMAIN published : published[p].timestamp \in 0 .. instant
  /\ earliest \in Nat \cup {None}
  /\ last \in Nat \cup {None}
  /\ harvested \in Kinds \cup {"all"}
  /\ request # None =>
       /\ last # None /\ request.from = last /\ request.until \in Nat \cup {None} /\ request.date \in Nat
       /\ request = [from |-> request.from, until |-> request.until, date |-> request.date, gap |-> request.gap]

(* After a fruitless query, what it should have found was withheld, and    *)
(* the rest has appeared since.                                            *)
GapIsKnown ==
  request # None /\ request.gap # None =>
    \A p \in DOMAIN published :
      /\ published[p].model \in Harvested!Asked
      /\ Harvested!IsBetween(published[p].timestamp, request.from, request.until)
      => p \in request.gap \/ (harvested = "all" /\ p \in withheld)

(* A process before the time from which a new harvester will begin has     *)
(* appeared too late for it.                                               *)
BeginsEarlyEnough ==
  earliest # None =>
    \A p \in DOMAIN published : published[p].timestamp < Harvested!Second(earliest) * TicksPerSecond => p \in late

HarvestInv == Reckoned /\ GapIsKnown /\ BeginsEarlyEnough /\ NothingMissed

(* A second begins at the latest with its instants, and not before them.   *)
LEMMA SecondsBegin ==
  ASSUME Harvested!HarvestAssumption, NEW i \in Nat
  PROVE  Harvested!Second(i) \in Nat /\ Harvested!Second(i) * TicksPerSecond <= i
<1>1. TicksPerSecond \in Nat /\ TicksPerSecond > 0
  BY DEF Harvested!HarvestAssumption
<1> QED
  BY <1>1, SMTT(20) DEF Harvested!Second

LEMMA SmallestExists ==
  ASSUME NEW S \in SUBSET Nat, S # {}
  PROVE  Harvested!Min(S) \in S /\ \A x \in S : Harvested!Min(S) <= x
BY LeastExists DEF Harvested!Min

LEMMA IdentifyMissesNothing ==
  ASSUME Harvested!HarvestAssumption, HarvestInv, Harvested!identify
  PROVE  HarvestInv'
<1> USE DEF HarvestInv, Harvested!identify
<1>1. /\ UNCHANGED <<instant, published, added, harvested, request, have, late, withheld, overlooked>>
      /\ request = None
  BY DEF Reckoned
<1>2. /\ earliest' \in Nat
      /\ \A p \in DOMAIN published : published[p].timestamp < Harvested!Second(earliest') * TicksPerSecond => p \in late
  <2>1. CASE earliest = None
    <3> DEFINE S == {published[p].timestamp : p \in DOMAIN published}
    <3>1. S \in SUBSET Nat
      BY DEF Reckoned
    <3>2. S # {}
      <4> SUFFICES ASSUME DOMAIN published = {} PROVE FALSE
        OBVIOUS
      <4>1. published # <<>>
        BY <2>1
      <4>2. published = [p \in {} |-> published[p]]
        BY DEF Reckoned
      <4> QED
        BY <4>1, <4>2
    <3>3. earliest' \in S /\ \A x \in S : earliest' <= x
      BY <2>1, <3>1, <3>2, SmallestExists DEF Harvested!Earliest
    <3>4. earliest' \in Nat /\ Harvested!Second(earliest') \in Nat /\ Harvested!Second(earliest') * TicksPerSecond <= earliest'
      BY <3>1, <3>3, SecondsBegin
    <3>5. Harvested!Second(earliest') * TicksPerSecond \in Nat
      BY <3>4 DEF Harvested!HarvestAssumption
    <3>6. \A p \in DOMAIN published : published[p].timestamp \in Nat /\ earliest' <= published[p].timestamp
      BY <3>1, <3>3
    <3> QED
      BY <3>4, <3>5, <3>6
  <2>2. CASE earliest # None
    BY <2>2 DEF BeginsEarlyEnough, Reckoned
  <2> QED
    BY <2>1, <2>2
<1>3. last' = Harvested!Second(earliest') /\ last' \in Nat
  BY <1>2, SecondsBegin DEF Harvested!timestamp_isoformat
<1>4. Reckoned'
  BY <1>1, <1>2, <1>3 DEF Reckoned
<1>5. BeginsEarlyEnough'
  BY <1>1, <1>2 DEF BeginsEarlyEnough, Harvested!Second
<1>6. NothingMissed'
  BY <1>1, <1>2, <1>3 DEF NothingMissed, Harvested!NothingMissed, Harvested!Asked
<1>7. GapIsKnown'
  BY <1>1 DEF GapIsKnown
<1> QED
  BY <1>4, <1>5, <1>6, <1>7

(* What a request asks for that is before the time to go on from. *)
LEMMA AskedForAll ==
  ASSUME Harvested!HarvestAssumption, Reckoned, request # None, NEW p \in DOMAIN published,
         NEW date \in Nat, Harvested!Answered(date), published[p].model \in Harvested!Asked,
         published[p].timestamp < last' * TicksPerSecond, ~(published[p].timestamp < last * TicksPerSecond)
  PROVE  /\ Harvested!IsBetween(published[p].timestamp, request.from, request.until)
         /\ p \in Harvested!process_model(published[p].model, request.from, request.until)
<1>1. last \in Nat /\ last' \in Nat /\ request.from = last /\ published[p].timestamp \in Nat
  BY DEF Reckoned, Harvested!Answered
<1>2. last * TicksPerSecond \in Nat /\ last' * TicksPerSecond \in Nat
  BY <1>1 DEF Harvested!HarvestAssumption
<1>3. Harvested!IsBetween(published[p].timestamp, request.from, request.until)
  BY <1>1, <1>2 DEF Harvested!IsBetween, Harvested!Answered
<1> QED
  BY <1>3 DEF Harvested!process_model

LEMMA RespondMissesNothing ==
  ASSUME Harvested!HarvestAssumption, HarvestInv, Harvested!respond
  PROVE  HarvestInv'
<1> USE DEF HarvestInv, Harvested!respond
<1>1. UNCHANGED <<instant, published, added, harvested, earliest, late, withheld, overlooked>>
  OBVIOUS
<1>2. last' \in Nat /\ request' = None /\ last # None
  BY DEF Reckoned, Harvested!Answered
<1>3. Reckoned'
  BY <1>1, <1>2 DEF Reckoned
<1>4. BeginsEarlyEnough'
  BY <1>1 DEF BeginsEarlyEnough, Harvested!Second
<1>5. NothingMissed'
  <2> SUFFICES ASSUME NEW p \in DOMAIN published, published[p].model \in Harvested!Asked,
                      published[p].timestamp < last' * TicksPerSecond
               PROVE  p \in have' \cup late \cup overlooked \/ (harvested = "all" /\ p \in withheld)
    BY <1>1 DEF NothingMissed, Harvested!NothingMissed, Harvested!Asked
  <2>1. CASE published[p].timestamp < last * TicksPerSecond
    BY <1>2, <2>1 DEF NothingMissed, Harvested!NothingMissed
  <2>2. CASE ~(published[p].timestamp < last * TicksPerSecond)
    <3>1. p \in Harvested!process_model(published[p].model, request.from, request.until)
      <4>1. request.date \in Nat /\ Harvested!Answered(request.date)
        BY DEF Reckoned
      <4> QED
        BY <2>2, <4>1, AskedForAll
    <3>2. p \in Harvested!list_records(request.from, request.until)
      BY <3>1 DEF Harvested!list_records
    <3> QED
      BY <3>2
  <2> QED
    BY <2>1, <2>2
<1>6. GapIsKnown'
  BY <1>2 DEF GapIsKnown
<1> QED
  BY <1>3, <1>4, <1>5, <1>6

(* A fruitless query: if only one class was asked for, it has nothing.     *)
LEMMA FailMissesNothing ==
  ASSUME Harvested!HarvestAssumption, HarvestInv, Harvested!fail
  PROVE  HarvestInv'
<1> USE DEF HarvestInv, Harvested!fail
<1>1. /\ UNCHANGED <<instant, published, added, harvested, last, earliest, have, late, overlooked>>
      /\ withheld \subseteq withheld'
  OBVIOUS
<1>2. request' = [from |-> request.from, until |-> request.until, date |-> request.date, gap |-> {}]
  BY DEF Reckoned
<1>3. Reckoned'
  BY <1>1, <1>2 DEF Reckoned
<1>4. BeginsEarlyEnough'
  BY <1>1 DEF BeginsEarlyEnough, Harvested!Second
<1>5. NothingMissed'
  BY <1>1 DEF NothingMissed, Harvested!NothingMissed, Harvested!Asked
<1>6. GapIsKnown'
  <2> SUFFICES ASSUME NEW p \in DOMAIN published, published[p].model \in Harvested!Asked,
                      Harvested!IsBetween(published[p].timestamp, request.from, request.until)
               PROVE  harvested = "all" /\ p \in withheld'
    BY <1>1, <1>2 DEF GapIsKnown, Harvested!Asked, Harvested!IsBetween
  <2>1. p \in withheld'
    OBVIOUS
  <2>2. p \in Harvested!process_model(published[p].model, request.from, request.until)
    BY DEF Harvested!process_model
  <2>3. harvested = "all"
    BY <2>2 DEF Harvested!list_records, Harvested!Asked
  <2> QED
    BY <2>1, <2>3
<1> QED
  BY <1>3, <1>4, <1>5, <1>6

LEMMA ErrorMissesNothing ==
  ASSUME Harvested!HarvestAssumption, HarvestInv, Harvested!respond_error
  PROVE  HarvestInv'
<1> USE DEF HarvestInv, Harvested!respond_error
<1>1. UNCHANGED <<instant, published, added, harvested, earliest, have, late, withheld>>
  OBVIOUS
<1>2. Harvested!timestamp_isoformat(instant) \in Nat
  BY SecondsBegin DEF Reckoned, Harvested!timestamp_isoformat
<1>3. last' \in Nat /\ request' = None /\ last # None
  BY <1>2 DEF Reckoned, Harvested!Answered
<1>4. Reckoned'
  BY <1>1, <1>3 DEF Reckoned
<1>5. BeginsEarlyEnough'
  BY <1>1 DEF BeginsEarlyEnough, Harvested!Second
<1>6. NothingMissed'
  <2> SUFFICES ASSUME NEW p \in DOMAIN published, published[p].model \in Harvested!Asked,
                      published[p].timestamp < last' * TicksPerSecond
               PROVE  p \in have \cup late \cup overlooked' \/ (harvested = "all" /\ p \in withheld)
    BY <1>1 DEF NothingMissed, Harvested!NothingMissed, Harvested!Asked
  <2>1. CASE published[p].timestamp < last * TicksPerSecond
    BY <1>3, <2>1 DEF NothingMissed, Harvested!NothingMissed
  <2>2. CASE ~(published[p].timestamp < last * TicksPerSecond)
    <3>1. Harvested!IsBetween(published[p].timestamp, request.from, request.until)
      BY <1>2, <2>2, AskedForAll
    <3>2. p \in request.gap \/ (harvested = "all" /\ p \in withheld)
      BY <3>1 DEF GapIsKnown
    <3> QED
      BY <3>2
  <2> QED
    BY <2>1, <2>2
<1>7. GapIsKnown'
  BY <1>3 DEF GapIsKnown
<1> QED
  BY <1>4, <1>5, <1>6, <1>7

LEMMA AddProcessMissesNothing ==
  ASSUME Harvested!HarvestAssumption, HarvestInv, NEW model \in Kinds, NEW t \in 0 .. instant,
         Harvested!AddProcess(model, t)
  PROVE  HarvestInv'
<1> USE DEF HarvestInv, Harvested!AddProcess
<1>1. /\ UNCHANGED <<instant, earliest, harvested, last, have, withheld, overlooked>>
      /\ added' = added + 1
      /\ IF request # None /\ request.gap # None
         THEN request' = [from |-> request.from, until |-> request.until, date |-> request.date,
                          gap |-> request.gap \cup {added'}]
         ELSE request' = request
  BY DEF Reckoned
<1>2. /\ added' \notin DOMAIN published
      /\ DOMAIN published' = DOMAIN published \cup {added'}
      /\ \A p \in DOMAIN published : published'[p] = published[p]
      /\ published'[added'] = [model |-> model, timestamp |-> t]
  <2>1. added' \notin DOMAIN published
    BY <1>1 DEF Reckoned
  <2> QED
    BY <2>1 DEF Harvested!Process
<1>3. /\ late \subseteq late'
      /\ Harvested!IsLate(t) => added' \in late'
  OBVIOUS
<1>4. Reckoned'
  <2>1. published' \in [DOMAIN published' -> [model : Kinds, timestamp : Nat]]
    <3>1. published' = [p \in DOMAIN published' |-> published'[p]]
      OBVIOUS
    <3>2. \A p \in DOMAIN published' : published'[p] \in [model : Kinds, timestamp : Nat]
      BY <1>2 DEF Reckoned
    <3> QED
      BY <3>1, <3>2
  <2>2. DOMAIN published' \subseteq 1 .. added' /\ added' \in Nat
    BY <1>1, <1>2 DEF Reckoned
  <2>3. \A p \in DOMAIN published' : published'[p].timestamp \in 0 .. instant'
    BY <1>1, <1>2 DEF Reckoned
  <2> QED
    BY <1>1, <2>1, <2>2, <2>3 DEF Reckoned
<1>5. BeginsEarlyEnough'
  <2> SUFFICES ASSUME earliest # None, NEW p \in DOMAIN published',
                      published'[p].timestamp < Harvested!Second(earliest) * TicksPerSecond
               PROVE  p \in late'
    BY <1>1 DEF BeginsEarlyEnough, Harvested!Second
  <2>1. CASE p = added'
    BY <1>2, <1>3, <2>1 DEF Harvested!IsLate
  <2>2. CASE p # added'
    BY <1>2, <1>3, <2>2 DEF BeginsEarlyEnough
  <2> QED
    BY <2>1, <2>2
<1>6. NothingMissed'
  <2> SUFFICES ASSUME NEW p \in DOMAIN published', published'[p].model \in Harvested!Asked, last # None,
                      published'[p].timestamp < last * TicksPerSecond
               PROVE  p \in have \cup late' \cup overlooked \/ (harvested = "all" /\ p \in withheld)
    BY <1>1 DEF NothingMissed, Harvested!NothingMissed, Harvested!Asked
  <2>1. CASE p = added'
    BY <1>2, <1>3, <2>1 DEF Harvested!IsLate
  <2>2. CASE p # added'
    BY <1>2, <1>3, <2>2 DEF NothingMissed, Harvested!NothingMissed
  <2> QED
    BY <2>1, <2>2
<1>7. GapIsKnown'
  <2>1. CASE request # None /\ request.gap # None
    <3> SUFFICES ASSUME NEW p \in DOMAIN published', published'[p].model \in Harvested!Asked,
                        Harvested!IsBetween(published'[p].timestamp, request.from, request.until)
                 PROVE  p \in request.gap \cup {added'} \/ (harvested = "all" /\ p \in withheld)
      BY <1>1, <2>1 DEF GapIsKnown, Harvested!Asked, Harvested!IsBetween
    <3>1. CASE p = added'
      BY <3>1
    <3>2. CASE p # added'
      BY <1>2, <2>1, <3>2 DEF GapIsKnown
    <3> QED
      BY <3>1, <3>2
  <2>2. CASE ~(request # None /\ request.gap # None)
    BY <1>1, <2>2 DEF GapIsKnown
  <2> QED
    BY <2>1, <2>2
<1> QED
  BY <1>4, <1>5, <1>6, <1>7

(* All the rest: an answer begins, a process is deleted, time passes.      *)
LEMMA OthersMissNothing ==
  ASSUME Harvested!HarvestAssumption, HarvestInv,
         \/ Harvested!create_response_tree
         \/ \E p \in DOMAIN published : Harvested!DeleteProcess(p)
         \/ Harvested!Pass
         \/ UNCHANGED Harvested!vars
  PROVE  HarvestInv'
<1> USE DEF HarvestInv
<1>1. /\ UNCHANGED <<added, harvested, last, have, late, withheld, overlooked>>
      /\ earliest' \in {earliest, None}
      /\ instant' \in Nat /\ instant <= instant'
      /\ DOMAIN published' \subseteq DOMAIN published
      /\ published' = [p \in DOMAIN published' |-> published[p]]
      /\ request' # None /\ request' # request =>
           /\ last # None /\ request'.from = last /\ request'.until \in Nat \cup {None} /\ request'.date \in Nat
           /\ request' = [from |-> request'.from, until |-> request'.until, date |-> request'.date, gap |-> None]
  <2>1. CASE Harvested!create_response_tree
    <3>1. Harvested!Second(instant) \in Nat
      BY SecondsBegin DEF Reckoned
    <3>2. request' # None /\ request' # request =>
           /\ last # None /\ request'.from = last /\ request'.until \in Nat \cup {None} /\ request'.date \in Nat
           /\ request' = [from |-> request'.from, until |-> request'.until, date |-> request'.date, gap |-> None]
      BY <2>1, <3>1 DEF Harvested!create_response_tree, Harvested!timestamp_isoformat
    <3> QED
      BY <2>1, <3>2 DEF Harvested!create_response_tree, Reckoned
  <2>2. CASE \E p \in DOMAIN published : Harvested!DeleteProcess(p)
    BY <2>2 DEF Harvested!DeleteProcess, Reckoned
  <2>3. CASE Harvested!Pass
    BY <2>3 DEF Harvested!Pass, Reckoned
  <2>4. CASE UNCHANGED Harvested!vars
    BY <2>4 DEF Harvested!vars, Reckoned
  <2> QED
    BY <2>1, <2>2, <2>3, <2>4
<1>2. Reckoned'
  BY <1>1 DEF Reckoned
<1>3. BeginsEarlyEnough'
  BY <1>1 DEF BeginsEarlyEnough, Harvested!Second
<1>4. NothingMissed'
  BY <1>1 DEF NothingMissed, Harvested!NothingMissed, Harvested!Asked
<1>5. GapIsKnown'
  BY <1>1 DEF GapIsKnown, Harvested!Asked, Harvested!IsBetween
<1> QED
  BY <1>2, <1>3, <1>4, <1>5

(* A harvester that goes on from the date of the answer before gets every  *)
(* process, unless it appeared too late, was withheld with the others, or  *)
(* appeared between a fruitless query and the date of its answer.          *)
THEOREM HarvestersMissNothing == Harvested!HarvestAssumption => (Harvested!Spec => []NothingMissed)
<1> SUFFICES ASSUME Harvested!HarvestAssumption
             PROVE  Harvested!Spec => []NothingMissed
  OBVIOUS
<1>1. Harvested!Init => HarvestInv
  <2> SUFFICES ASSUME Harvested!Init
               PROVE  HarvestInv
    OBVIOUS
  <2>1. published = <<>> /\ DOMAIN published = {}
    BY DEF Harvested!Init
  <2>2. published \in [DOMAIN published -> [model : Kinds, timestamp : Nat]]
    BY <2>1
  <2> QED
    BY <2>1, <2>2 DEF Harvested!Init, HarvestInv, Reckoned, GapIsKnown, BeginsEarlyEnough, NothingMissed,
         Harvested!NothingMissed
<1>2. HarvestInv /\ [Harvested!Next]_(Harvested!vars) => HarvestInv'
  BY IdentifyMissesNothing, RespondMissesNothing, FailMissesNothing, ErrorMissesNothing, AddProcessMissesNothing, OthersMissNothing, Zenon
     DEF Harvested!Next
<1>3. HarvestInv => NothingMissed
  BY DEF HarvestInv
<1> QED
  BY <1>1, <1>2, <1>3, PTL DEF Harvested!Spec
-----------------------------------------------------------------------------
(* Numbers.  Numbers of depositions that exist, and that may be given.     *)
Taken == [year : Nat, index : 1 .. MaxIndex]
Given == [year : Nat, index : Nat]

NumberTypes ==
  /\ year \in Nat /\ inserted \in Nat
  /\ DOMAIN depositions \subseteq Taken
  /\ depositions \in [DOMAIN depositions -> [id : Nat, by : Viewers \cup Programs \cup {None}]]
  /\ paper \in [Viewers -> [url : Taken \cup {None}, number : Given, id : Nat \cup {None}] \cup {None}]
  /\ program \in [Programs -> [number : Given \cup {None}, id : Nat \cup {None}, asked : BOOLEAN, made : Nat]]
  /\ \A p \in Programs : program[p].asked => program[p].number # None

(* Whatever a program has made has the number that it has been given.      *)
MadeWithItsNumber ==
  \A n \in DOMAIN depositions : depositions[n].by \in Programs => program[depositions[n].by].number = n

(* A page shows what its number stands for.  If the deposition has been    *)
(* deleted, its number will not be given again, because there is a higher  *)
(* one.                                                                    *)
Outnumbered(n) == \E m \in DOMAIN depositions : m.year = n.year /\ m.index > n.index

Shows(u, n) == paper[u] # None /\ paper[u].url # None /\ paper[u].url = n

PagesShow ==
  \A u \in Viewers : \A n \in Taken \ vacated : Shows(u, n) =>
    IF n \in DOMAIN depositions THEN depositions[n].id = paper[u].id ELSE Outnumbered(n)

(* A number that somebody has been given is still free, and no page shows  *)
(* what it meant before.                                                   *)
HasBeenGiven(w, n) ==
  \/ w \in Viewers /\ paper[w] # None /\ paper[w].url = None /\ paper[w].number = n
  \/ w \in Programs /\ program[w].number = n

GivenAreFree ==
  \A w \in (Viewers \cup Programs) \ doubtful : \A n \in Given : HasBeenGiven(w, n) =>
    /\ n \notin DOMAIN depositions
    /\ \A u \in Viewers : Shows(u, n) => n \in vacated

NumberInv == NumberTypes /\ MadeWithItsNumber /\ PagesShow /\ GivenAreFree

LEMMA GreatestExists ==
  ASSUME NEW B \in Nat, NEW S \in SUBSET (0 .. B), S # {}
  PROVE  Numbered!Max(S) \in S /\ \A x \in S : x <= Numbered!Max(S)
<1> DEFINE T == {B - x : x \in S}
<1>1. T \in SUBSET Nat /\ T # {}
  <2>1. \A x \in S : B - x \in Nat
    OBVIOUS
  <2> QED
    BY <2>1
<1>2. PICK m \in T : \A x \in T : m <= x
  BY <1>1, LeastExists
<1>3. PICK g \in S : m = B - g
  BY <1>2
<1>4. ASSUME NEW x \in S
      PROVE  x <= g
  <2>1. B - g <= B - x
    BY <1>2, <1>3
  <2> QED
    BY <2>1
<1>5. \E y \in S : \A x \in S : y >= x
  BY <1>4
<1> QED
  BY <1>5 DEF Numbered!Max

LEMMA IndicesAreBounded ==
  ASSUME Numbered!NumbersAssumption, NumberTypes, NEW y, NEW S \in SUBSET Numbered!IndicesOf(y)
  PROVE  S \cup {0} \in SUBSET (0 .. MaxIndex) /\ S \subseteq 1 .. MaxIndex
<1>1. \A n \in DOMAIN depositions : n.index \in 1 .. MaxIndex
  BY DEF NumberTypes, Taken
<1>2. Numbered!IndicesOf(y) \subseteq 1 .. MaxIndex
  BY <1>1 DEF Numbered!IndicesOf
<1>3. 0 \in 0 .. MaxIndex /\ 1 .. MaxIndex \subseteq 0 .. MaxIndex
  BY DEF Numbered!NumbersAssumption
<1> QED
  BY <1>2, <1>3

LEMMA NextIsFree ==
  ASSUME Numbered!NumbersAssumption, NumberTypes, NEW n, n = Numbered!get_next_deposition_number
  PROVE  /\ n \in Given /\ n.year = year /\ n \notin DOMAIN depositions
         /\ \A m \in DOMAIN depositions : m.year = year => m.index < n.index
<1> DEFINE S == Numbered!IndicesOf(year) \cup {0}
<1>1. S \in SUBSET (0 .. MaxIndex) /\ MaxIndex \in Nat
  BY IndicesAreBounded DEF Numbered!NumbersAssumption
<1>2. Numbered!Max(S) \in S /\ \A x \in S : x <= Numbered!Max(S)
  BY <1>1, GreatestExists
<1>3. n = [year |-> year, index |-> Numbered!Max(S) + 1]
  BY DEF Numbered!get_next_deposition_number, Numbered!Number
<1>4. \A m \in DOMAIN depositions : m.year = year => m.index \in S
  BY DEF Numbered!IndicesOf
<1> HIDE DEF S
<1>5. n \in Given /\ n.year = year
  BY <1>1, <1>2, <1>3 DEF NumberTypes, Given
<1>6. \A m \in DOMAIN depositions : m.year = year => m.index < n.index
  <2>1. \A x \in S : x \in Nat
    BY <1>1
  <2>2. n.index = Numbered!Max(S) + 1
    BY <1>3
  <2> QED
    BY <1>2, <1>4, <2>1, <2>2
<1> QED
  BY <1>3, <1>5, <1>6 DEF NumberTypes, Taken

(* A deposition is added with a number that who has been given.            *)
LEMMA AddKeepsNumbers ==
  ASSUME Numbered!NumbersAssumption, NumberInv, NEW who \in Viewers \cup Programs,
         NEW n \in Taken, n \notin DOMAIN depositions, HasBeenGiven(who, n),
         Numbered!Add(who, n), UNCHANGED year,
         \A u \in Viewers : paper'[u] \in {paper[u], None},
         \A p \in Programs : program'[p].number = program[p].number,
         NumberTypes'
  PROVE  NumberInv'
<1> USE DEF NumberInv
<1>1. /\ DOMAIN depositions' = DOMAIN depositions \cup {n}
      /\ depositions'[n].by = who
      /\ \A m \in DOMAIN depositions : depositions'[m] = depositions[m]
  BY DEF Numbered!Add, Numbered!Row
<1>2. /\ vacated \subseteq vacated' /\ (who \in doubtful => n \in vacated')
      /\ doubtful \subseteq doubtful' /\ Numbered!Holders(n) \subseteq doubtful'
  BY DEF Numbered!Add
<1>3. MadeWithItsNumber'
  <2>1. who \in Programs => program[who].number = n
    BY DEF HasBeenGiven, Numbered!NumbersAssumption
  <2> QED
    BY <1>1, <2>1 DEF MadeWithItsNumber, NumberTypes
<1>4. PagesShow'
  <2> SUFFICES ASSUME NEW u \in Viewers, NEW m \in Taken \ vacated', Shows(u, m)'
               PROVE  IF m \in DOMAIN depositions' THEN depositions'[m].id = paper'[u].id ELSE Outnumbered(m)'
    BY DEF PagesShow, Taken
  <2>1. Shows(u, m) /\ paper'[u] = paper[u] /\ m \notin vacated
    BY <1>2 DEF Shows
  <2>2. m # n
    BY <1>2, <2>1 DEF GivenAreFree, Given, Taken, Numbered!NumbersAssumption
  <2>3. CASE m \in DOMAIN depositions
    BY <1>1, <2>1, <2>3 DEF PagesShow
  <2>4. CASE m \notin DOMAIN depositions
    BY <1>1, <2>1, <2>2, <2>4 DEF PagesShow, Outnumbered
  <2> QED
    BY <2>3, <2>4
<1>5. GivenAreFree'
  <2> SUFFICES ASSUME NEW w \in (Viewers \cup Programs) \ doubtful', NEW m \in Given, HasBeenGiven(w, m)'
               PROVE  m \notin DOMAIN depositions' /\ \A u \in Viewers : Shows(u, m)' => m \in vacated'
    BY DEF GivenAreFree, Given
  <2>1. HasBeenGiven(w, m)
    BY DEF HasBeenGiven
  <2>2. m # n
    BY <1>2, <2>1 DEF HasBeenGiven, Numbered!Holders
  <2>3. \A u \in Viewers : Shows(u, m)' => Shows(u, m)
    BY DEF Shows
  <2> QED
    BY <1>1, <1>2, <2>1, <2>2, <2>3 DEF GivenAreFree
<1> QED
  BY <1>3, <1>4, <1>5

LEMMA GetNewKeepsNumbers ==
  ASSUME Numbered!NumbersAssumption, NumberInv, NEW u \in Viewers, Numbered!GetNew(u)
  PROVE  NumberInv' /\ paper'[u].number \notin DOMAIN depositions
<1> USE DEF NumberInv
<1> DEFINE n == Numbered!get_next_deposition_number
<1>1. /\ n \in Given /\ n.year = year /\ n \notin DOMAIN depositions
      /\ \A m \in DOMAIN depositions : m.year = year => m.index < n.index
  BY NextIsFree
<1> HIDE DEF n
<1>2. /\ UNCHANGED <<year, depositions, inserted, program, vacated>> /\ doubtful' = doubtful \ {u}
      /\ paper[u] = None
      /\ paper' = [paper EXCEPT ![u] = [url |-> None, number |-> n, id |-> None]]
  BY DEF Numbered!GetNew, Numbered!Page, n
<1>3. NumberTypes'
  BY <1>1, <1>2 DEF NumberTypes
<1>4. MadeWithItsNumber'
  BY <1>2 DEF MadeWithItsNumber
<1>5. \A v \in Viewers : \A m : Shows(v, m)' => Shows(v, m) /\ paper'[v] = paper[v]
  BY <1>2 DEF Shows, NumberTypes
<1>6. PagesShow'
  BY <1>2, <1>5 DEF PagesShow, Outnumbered
<1>7. \A v \in Viewers : Shows(v, n) => n \in vacated
  <2> SUFFICES ASSUME NEW v \in Viewers, Shows(v, n), n \notin vacated
               PROVE  FALSE
    OBVIOUS
  <2>1. n \in Taken
    BY DEF Shows, NumberTypes
  <2>2. Outnumbered(n)
    BY <1>1, <2>1 DEF PagesShow
  <2> QED
    BY <1>1, <2>1, <2>2 DEF Outnumbered, NumberTypes, Taken
<1>8. GivenAreFree'
  <2> SUFFICES ASSUME NEW w \in (Viewers \cup Programs) \ doubtful', NEW m \in Given, HasBeenGiven(w, m)'
               PROVE  m \notin DOMAIN depositions' /\ \A v \in Viewers : Shows(v, m)' => m \in vacated'
    BY DEF GivenAreFree, Given
  <2>1. CASE w = u
    <3>1. m = n
      BY <1>2, <2>1 DEF HasBeenGiven, NumberTypes, Numbered!NumbersAssumption
    <3> QED
      BY <1>1, <1>2, <1>5, <1>7, <3>1
  <2>2. CASE w # u
    <3>1. HasBeenGiven(w, m) /\ w \notin doubtful
      BY <1>2, <2>2 DEF HasBeenGiven, NumberTypes
    <3> QED
      BY <1>2, <1>5, <3>1 DEF GivenAreFree
  <2> QED
    BY <2>1, <2>2
<1> QED
  BY <1>1, <1>2, <1>3, <1>4, <1>6, <1>8 DEF NumberTypes

LEMMA AskNumberKeepsNumbers ==
  ASSUME Numbered!NumbersAssumption, NumberInv, NEW p \in Programs, Numbered!AskNumber(p)
  PROVE  NumberInv' /\ \A q \in Programs : program'[q].number # program[q].number => program'[q].number \notin DOMAIN depositions
<1> USE DEF NumberInv
<1> DEFINE n == Numbered!get_next_deposition_number
<1>1. /\ n \in Given /\ n.year = year /\ n \notin DOMAIN depositions
      /\ \A m \in DOMAIN depositions : m.year = year => m.index < n.index
  BY NextIsFree
<1> HIDE DEF n
<1>2. /\ UNCHANGED <<year, depositions, inserted, paper, vacated>>
      /\ program' = [program EXCEPT ![p].asked = TRUE, ![p].number = IF program[p].number = None THEN n ELSE @]
      /\ doubtful' = IF program[p].number = None THEN doubtful \ {p} ELSE doubtful
  BY DEF Numbered!AskNumber, Numbered!HasNoNumber, n
<1>3. n # None
  BY <1>1 DEF Given, Numbered!NumbersAssumption
<1>4. /\ \A q \in Programs \ {p} : program'[q] = program[q]
      /\ program'[p].number = IF program[p].number = None THEN n ELSE program[p].number
  BY <1>2 DEF NumberTypes
<1>5. NumberTypes'
  <2>1. program' \in [Programs -> [number : Given \cup {None}, id : Nat \cup {None}, asked : BOOLEAN, made : Nat]]
    <3>1. program \in [Programs -> [number : Given \cup {None}, id : Nat \cup {None}, asked : BOOLEAN, made : Nat]]
      BY DEF NumberTypes
    <3> HIDE DEF NumberInv
    <3> QED
      BY <1>1, <1>2, <3>1
  <2>2. \A q \in Programs : program'[q].asked => program'[q].number # None
    BY <1>3, <1>4 DEF NumberTypes
  <2> QED
    BY <1>2, <2>1, <2>2 DEF NumberTypes
<1>6. MadeWithItsNumber'
  <2> SUFFICES ASSUME NEW m \in DOMAIN depositions, depositions[m].by \in Programs
               PROVE  program'[depositions[m].by].number = m
    BY <1>2 DEF MadeWithItsNumber
  <2>1. program[depositions[m].by].number = m /\ m # None
    BY DEF MadeWithItsNumber, NumberTypes, Taken, Numbered!NumbersAssumption
  <2> QED
    BY <1>4, <2>1
<1>7. \A v \in Viewers : \A m : Shows(v, m)' <=> Shows(v, m)
  BY <1>2 DEF Shows
<1>8. PagesShow'
  BY <1>2, <1>7 DEF PagesShow, Outnumbered
<1>9. \A v \in Viewers : Shows(v, n) => n \in vacated
  <2> SUFFICES ASSUME NEW v \in Viewers, Shows(v, n), n \notin vacated
               PROVE  FALSE
    OBVIOUS
  <2>1. n \in Taken
    BY DEF Shows, NumberTypes
  <2>2. Outnumbered(n)
    BY <1>1, <2>1 DEF PagesShow
  <2> QED
    BY <1>1, <2>1, <2>2 DEF Outnumbered, NumberTypes, Taken
<1>10. GivenAreFree'
  <2> SUFFICES ASSUME NEW w \in (Viewers \cup Programs) \ doubtful', NEW m \in Given, HasBeenGiven(w, m)'
               PROVE  m \notin DOMAIN depositions' /\ \A v \in Viewers : Shows(v, m)' => m \in vacated'
    BY DEF GivenAreFree, Given
  <2>1. CASE w = p /\ program[p].number = None
    <3>1. m = n
      BY <1>2, <1>4, <2>1 DEF HasBeenGiven, Numbered!NumbersAssumption
    <3> QED
      BY <1>1, <1>2, <1>7, <1>9, <3>1
  <2>2. CASE ~(w = p /\ program[p].number = None)
    <3>1. HasBeenGiven(w, m) /\ w \notin doubtful
      BY <1>2, <1>4, <2>2 DEF HasBeenGiven
    <3> QED
      BY <1>2, <1>7, <3>1 DEF GivenAreFree
  <2> QED
    BY <2>1, <2>2
<1> QED
  BY <1>1, <1>4, <1>5, <1>6, <1>8, <1>10

(* A deleted deposition with a higher one above it stays outnumbered, and  *)
(* otherwise its number becomes vacant.                                    *)
LEMMA DeleteKeepsNumbers ==
  ASSUME Numbered!NumbersAssumption, NumberInv, NEW n \in DOMAIN depositions, Numbered!delete_process(n)
  PROVE  NumberInv'
<1> USE DEF NumberInv
<1> DEFINE rest == Numbered!IndicesOf(n.year) \ {n.index}
           top == Numbered!Max(rest \cup {0})
<1>1. /\ DOMAIN depositions' = DOMAIN depositions \ {n}
      /\ \A m \in DOMAIN depositions' : depositions'[m] = depositions[m]
      /\ depositions' = [m \in DOMAIN depositions \ {n} |-> depositions[m]]
      /\ UNCHANGED <<year, inserted, paper, program, doubtful>>
      /\ vacated' = vacated \cup {Numbered!Number(n.year, i) : i \in {i \in 1 .. n.index : i > top}}
  BY DEF Numbered!delete_process
<1>2. n \in Taken /\ MaxIndex \in Nat
  BY DEF NumberTypes, Numbered!NumbersAssumption
<1>3. top \in rest \cup {0} /\ (\A x \in rest \cup {0} : x <= top) /\ rest \subseteq 1 .. MaxIndex
  BY <1>2, GreatestExists, IndicesAreBounded
<1>4. top \in Nat
  BY <1>3
<1>5. \A m \in Taken : m.year = n.year => (m \in DOMAIN depositions /\ m # n <=> m.index \in rest)
  <2>1. \A m \in Taken : m = [year |-> m.year, index |-> m.index]
    BY DEF Taken
  <2>2. \A m \in DOMAIN depositions : m \in Taken
    BY DEF NumberTypes
  <2> QED
    BY <1>2, <2>1, <2>2 DEF Numbered!IndicesOf
<1> HIDE DEF rest, top
<1>6. ASSUME NEW m \in Taken, m \notin DOMAIN depositions', m.year = n.year, m.index <= n.index
      PROVE  Outnumbered(m)' \/ m \in vacated'
  <2>1. m.index \notin rest /\ m.index \in 1 .. MaxIndex /\ m = [year |-> n.year, index |-> m.index]
    BY <1>1, <1>5, <1>6 DEF Taken
  <2>2. CASE top < m.index
    BY <1>1, <1>2, <1>6, <2>1, <2>2 DEF Numbered!Number, Taken
  <2>3. CASE ~(top < m.index)
    <3>1. top \in rest /\ top > m.index
      BY <1>3, <1>4, <2>1, <2>3
    <3>2. [year |-> n.year, index |-> top] \in Taken
      BY <1>2, <1>3, <3>1 DEF Taken
    <3> QED
      BY <1>1, <1>5, <1>6, <3>1, <3>2 DEF Outnumbered
  <2> QED
    BY <2>2, <2>3
<1>7. NumberTypes'
  BY <1>1 DEF NumberTypes
<1>8. MadeWithItsNumber'
  BY <1>1 DEF MadeWithItsNumber
<1>9. \A v \in Viewers : \A m : Shows(v, m)' <=> Shows(v, m)
  BY <1>1 DEF Shows
<1>10. PagesShow'
  <2> SUFFICES ASSUME NEW u \in Viewers, NEW m \in Taken \ vacated', Shows(u, m)
               PROVE  IF m \in DOMAIN depositions' THEN depositions'[m].id = paper'[u].id ELSE Outnumbered(m)'
    BY <1>9 DEF PagesShow, Taken
  <2>1. CASE m \in DOMAIN depositions'
    BY <1>1, <2>1 DEF PagesShow
  <2>2. CASE m = n
    BY <1>1, <1>2, <1>6, <2>2 DEF Taken
  <2>3. CASE m \notin DOMAIN depositions
    <3>1. PICK k \in DOMAIN depositions : k.year = m.year /\ k.index > m.index
      BY <1>1, <2>3 DEF PagesShow, Outnumbered
    <3>2. CASE k # n
      BY <1>1, <2>3, <3>1, <3>2 DEF Outnumbered
    <3>3. CASE k = n
      BY <1>1, <1>6, <2>3, <3>1, <3>3 DEF Taken, NumberTypes
    <3> QED
      BY <1>1, <2>3, <3>2, <3>3
  <2> QED
    BY <1>1, <2>1, <2>2, <2>3
<1>11. GivenAreFree'
  <2>1. \A w, m : HasBeenGiven(w, m)' <=> HasBeenGiven(w, m)
    BY <1>1 DEF HasBeenGiven
  <2> QED
    BY <1>1, <1>9, <2>1 DEF GivenAreFree, Given
<1> QED
  BY <1>7, <1>8, <1>10, <1>11

LEMMA PostNewKeepsNumbers ==
  ASSUME Numbered!NumbersAssumption, NumberInv, NEW u \in Viewers, Numbered!PostNew(u)
  PROVE  NumberInv'
<1> DEFINE n == paper[u].number
<1> USE DEF NumberInv
<1>1. /\ n \notin DOMAIN depositions /\ n \in Taken /\ HasBeenGiven(u, n) /\ Numbered!Add(u, n)
      /\ UNCHANGED <<year, program>> /\ paper' = [paper EXCEPT ![u] = None]
  <2>1. n \in Given /\ n.index \in 1 .. MaxIndex
    BY DEF Numbered!PostNew, Numbered!IsAccepted, NumberTypes
  <2>2. n \in Taken
    BY <2>1 DEF Given, Taken
  <2> QED
    BY <2>2 DEF Numbered!PostNew, Numbered!IsAccepted, HasBeenGiven
<1> HIDE DEF n
<1>2. NumberTypes'
  <2>1. /\ DOMAIN depositions' = DOMAIN depositions \cup {n} /\ inserted' = inserted + 1
        /\ depositions' \in [DOMAIN depositions' -> [id : Nat, by : Viewers \cup Programs \cup {None}]]
    BY <1>1 DEF NumberTypes, Numbered!Add, Numbered!Row
  <2> QED
    BY <1>1, <2>1 DEF NumberTypes
<1>3. \A v \in Viewers : paper'[v] \in {paper[v], None}
  BY <1>1 DEF NumberTypes
<1> QED
  BY <1>1, <1>2, <1>3, AddKeepsNumbers

LEMMA SubmitKeepsNumbers ==
  ASSUME Numbered!NumbersAssumption, NumberInv, NEW p \in Programs, Numbered!Submit(p)
  PROVE  NumberInv' /\ \A q \in Programs : program'[q].number = program[q].number
<1> DEFINE n == program[p].number
<1> USE DEF NumberInv
<1>1. n \in Given /\ HasBeenGiven(p, n)
  BY DEF Numbered!Submit, NumberTypes, HasBeenGiven
<1>2. /\ UNCHANGED <<year, paper>>
      /\ \A q \in Programs : program'[q].number = program[q].number
  BY DEF Numbered!Submit, NumberTypes
<1>3. CASE Numbered!IsAccepted(n, program[p].made)
  <2>1. n \notin DOMAIN depositions /\ n \in Taken /\ Numbered!Add(p, n)
    BY <1>1, <1>3 DEF Numbered!Submit, Numbered!IsAccepted, Given, Taken
  <2>2. PICK id \in {inserted + 1, None} : program' = [program EXCEPT ![p].id = id, ![p].asked = FALSE]
    BY <1>3 DEF Numbered!Submit
  <2> HIDE DEF n
  <2>3. /\ DOMAIN depositions' = DOMAIN depositions \cup {n} /\ inserted' = inserted + 1
        /\ depositions' \in [DOMAIN depositions' -> [id : Nat, by : Viewers \cup Programs \cup {None}]]
    BY <2>1 DEF NumberTypes, Numbered!Add, Numbered!Row
  <2>4. program' \in [Programs -> [number : Given \cup {None}, id : Nat \cup {None}, asked : BOOLEAN, made : Nat]]
    <3>1. id \in Nat \cup {None}
      BY <2>2 DEF NumberTypes
    <3> HIDE DEF NumberInv
    <3>2. program \in [Programs -> [number : Given \cup {None}, id : Nat \cup {None}, asked : BOOLEAN, made : Nat]]
      BY DEF NumberInv, NumberTypes
    <3> QED
      BY <2>2, <3>1, <3>2
  <2>5. \A q \in Programs : program'[q].asked => program'[q].number # None
    BY <2>2 DEF NumberTypes
  <2>6. NumberTypes'
    BY <1>2, <2>1, <2>3, <2>4, <2>5 DEF NumberTypes
  <2>7. \A v \in Viewers : paper'[v] \in {paper[v], None}
    BY <1>2
  <2> QED
    BY <1>1, <1>2, <2>1, <2>6, <2>7, AddKeepsNumbers
<1>4. CASE ~Numbered!IsAccepted(n, program[p].made)
  <2>1. UNCHANGED <<depositions, inserted, doubtful, vacated>> /\ program' = [program EXCEPT ![p].asked = FALSE]
    BY <1>4 DEF Numbered!Submit
  <2>2. NumberTypes'
    <3>1. program' \in [Programs -> [number : Given \cup {None}, id : Nat \cup {None}, asked : BOOLEAN, made : Nat]]
      BY <2>1 DEF NumberTypes
    <3>2. \A q \in Programs : program'[q].asked => program'[q].number # None
      BY <2>1 DEF NumberTypes
    <3> QED
      BY <1>2, <2>1, <3>1, <3>2 DEF NumberTypes
  <2>3. MadeWithItsNumber'
    BY <1>2, <2>1 DEF MadeWithItsNumber
  <2>4. \A v \in Viewers : \A m : Shows(v, m)' <=> Shows(v, m)
    BY <1>2 DEF Shows
  <2>5. PagesShow'
    BY <1>2, <2>1, <2>4 DEF PagesShow, Outnumbered
  <2>6. \A w, m : HasBeenGiven(w, m)' <=> HasBeenGiven(w, m)
    BY <1>2 DEF HasBeenGiven
  <2>7. GivenAreFree'
    BY <2>1, <2>4, <2>6 DEF GivenAreFree, Given
  <2> QED
    BY <1>2, <2>2, <2>3, <2>5, <2>7
<1> QED
  BY <1>3, <1>4

(* All the rest: a page is got or filled in, an unchanged number is        *)
(* posted, a year begins.                                                  *)
LEMMA OthersKeepNumbers ==
  ASSUME Numbered!NumbersAssumption, NumberInv,
         \/ \E u \in Viewers : Numbered!GetExisting(u) \/ Numbered!TypeNumber(u) \/ Numbered!PostExisting(u)
         \/ Numbered!NewYear
         \/ UNCHANGED number_vars
  PROVE  NumberInv' /\ UNCHANGED <<depositions, program>>
<1> USE DEF NumberInv
<1>1. /\ UNCHANGED <<depositions, program, vacated>>
      /\ doubtful \subseteq doubtful'
      /\ NumberTypes'
      /\ \A u \in Viewers : paper'[u] # paper[u] /\ paper'[u] # None =>
           \/ paper'[u].url \in DOMAIN depositions /\ paper'[u].id = depositions[paper'[u].url].id
           \/ paper[u] # None /\ paper'[u].url = paper[u].url /\ paper'[u].id = paper[u].id /\ u \in doubtful'
  <2>1. ASSUME NEW u \in Viewers, Numbered!GetExisting(u)
        PROVE  <1>1
    <3>1. PICK n \in DOMAIN depositions : paper' = [paper EXCEPT ![u] = [url |-> n, number |-> n, id |-> depositions[n].id]]
      BY <2>1 DEF Numbered!GetExisting, Numbered!Page
    <3>2. n \in Taken /\ n \in Given /\ depositions[n].id \in Nat
      BY DEF NumberTypes, Taken, Given
    <3>3. NumberTypes'
      BY <2>1, <3>1, <3>2 DEF Numbered!GetExisting, NumberTypes
    <3> QED
      BY <2>1, <3>1, <3>3 DEF Numbered!GetExisting, NumberTypes
  <2>2. ASSUME NEW u \in Viewers, Numbered!TypeNumber(u)
        PROVE  <1>1
    <3>1. PICK i \in 1 .. MaxIndex : paper' = [paper EXCEPT ![u].number = [year |-> year, index |-> i]]
      BY <2>2 DEF Numbered!TypeNumber, Numbered!Number
    <3>2. [year |-> year, index |-> i] \in Given
      BY DEF NumberTypes, Given
    <3>3. paper[u] # None /\ paper[u] \in [url : Taken \cup {None}, number : Given, id : Nat \cup {None}]
      BY <2>2 DEF Numbered!TypeNumber, NumberTypes
    <3>4. paper'[u] = [paper[u] EXCEPT !.number = [year |-> year, index |-> i]]
      BY <3>1 DEF NumberTypes
    <3>5. /\ paper'[u].url = paper[u].url /\ paper'[u].id = paper[u].id
          /\ paper'[u] \in [url : Taken \cup {None}, number : Given, id : Nat \cup {None}]
      BY <3>2, <3>3, <3>4
    <3>6. \A v \in Viewers \ {u} : paper'[v] = paper[v]
      BY <3>1 DEF NumberTypes
    <3>7. NumberTypes'
      BY <2>2, <3>1, <3>5, <3>6 DEF Numbered!TypeNumber, NumberTypes
    <3> QED
      BY <2>2, <3>3, <3>5, <3>6, <3>7 DEF Numbered!TypeNumber
  <2>3. ASSUME NEW u \in Viewers, Numbered!PostExisting(u)
        PROVE  <1>1
    <3>1. depositions' = depositions
      <4>1. CASE paper[u].url \in DOMAIN depositions
        <5>1. paper[u].number = paper[u].url
          BY <2>3, <4>1 DEF Numbered!PostExisting, Numbered!KeepsNumber
        <5>2. depositions' = [n \in DOMAIN depositions |-> depositions[n]]
          BY <2>3, <4>1, <5>1 DEF Numbered!PostExisting
        <5> QED
          BY <5>2 DEF NumberTypes
      <4> QED
        BY <2>3, <4>1 DEF Numbered!PostExisting
    <3> QED
      BY <2>3, <3>1 DEF Numbered!PostExisting, NumberTypes
  <2>4. CASE Numbered!NewYear
    BY <2>4 DEF Numbered!NewYear, NumberTypes
  <2>5. CASE UNCHANGED number_vars
    BY <2>5 DEF number_vars, NumberTypes
  <2> QED
    BY <2>1, <2>2, <2>3, <2>4, <2>5
<1>2. MadeWithItsNumber'
  BY <1>1 DEF MadeWithItsNumber
<1>3. PagesShow'
  <2> SUFFICES ASSUME NEW u \in Viewers, NEW m \in Taken \ vacated, Shows(u, m)'
               PROVE  IF m \in DOMAIN depositions THEN depositions[m].id = paper'[u].id ELSE Outnumbered(m)
    BY <1>1 DEF PagesShow, Outnumbered
  <2>1. \/ m \in DOMAIN depositions /\ depositions[m].id = paper'[u].id
        \/ Shows(u, m) /\ paper'[u].id = paper[u].id
    BY <1>1 DEF Shows
  <2> QED
    BY <2>1 DEF PagesShow
<1>4. GivenAreFree'
  <2> SUFFICES ASSUME NEW w \in (Viewers \cup Programs) \ doubtful', NEW m \in Given, HasBeenGiven(w, m)'
               PROVE  m \notin DOMAIN depositions /\ \A v \in Viewers : Shows(v, m)' => m \in vacated
    BY <1>1 DEF GivenAreFree, Given
  <2>1. HasBeenGiven(w, m)
    BY <1>1 DEF HasBeenGiven, NumberTypes, Taken, Numbered!NumbersAssumption
  <2>2. m \notin DOMAIN depositions /\ \A v \in Viewers : Shows(v, m) => m \in vacated
    BY <1>1, <2>1 DEF GivenAreFree
  <2>3. \A v \in Viewers : Shows(v, m)' => Shows(v, m)
    BY <1>1, <2>2 DEF Shows
  <2> QED
    BY <2>2, <2>3
<1> QED
  BY <1>1, <1>2, <1>3, <1>4

LEMMA NumbersMeanOne ==
  ASSUME NumberInv
  PROVE  Numbered!StoredOnce /\ Numbered!PagesMeanTheirDeposition
<1> USE DEF NumberInv
<1>1. Numbered!StoredOnce
  <2> SUFFICES ASSUME NEW p \in Programs
               PROVE  Numbered!Cardinality({n \in DOMAIN depositions : depositions[n].by = p}) <= 1
    BY DEF Numbered!StoredOnce
  <2> DEFINE S == {n \in DOMAIN depositions : depositions[n].by = p}
  <2>1. S = {} \/ S = {program[p].number}
    BY DEF MadeWithItsNumber
  <2>2. Numbered!Cardinality(S) = Cardinality(S)
    BY DEF Numbered!Cardinality, Cardinality
  <2>3. Cardinality(S) \in {0, 1}
    <3>1. CASE S = {}
      BY <3>1, FS_EmptySet
    <3>2. CASE S = {program[p].number}
      BY <3>2, FS_Singleton
    <3> QED
      BY <2>1, <3>1, <3>2
  <2> QED
    BY <2>2, <2>3
<1>2. Numbered!PagesMeanTheirDeposition
  BY DEF Numbered!PagesMeanTheirDeposition, PagesShow, Shows, NumberTypes
<1> QED
  BY <1>1, <1>2

(* A number stands for one deposition, on pages, in programs and in the    *)
(* database.                                                               *)
THEOREM NumbersNameOne == Numbered!NumbersAssumption => (Numbered!Spec => NumbersNameOneDeposition)
<1> SUFFICES ASSUME Numbered!NumbersAssumption
             PROVE  Numbered!Spec => NumbersNameOneDeposition
  OBVIOUS
<1>1. Numbered!Init => NumberInv
  <2> SUFFICES ASSUME Numbered!Init
               PROVE  NumberInv
    OBVIOUS
  <2> DEFINE S == {Numbered!Number(1, i) : i \in FirstIndices}
  <2>1. S \subseteq Taken
    BY DEF Numbered!Number, Taken, Numbered!NumbersAssumption
  <2>2. depositions = [n \in S |-> [id |-> n.index, by |-> None]] /\ DOMAIN depositions = S
    BY DEF Numbered!Init, Numbered!Row
  <2>3. FirstIndices \cup {0} \in SUBSET (0 .. MaxIndex) /\ MaxIndex \in Nat
    BY DEF Numbered!NumbersAssumption
  <2>4. inserted \in Nat
    <3>1. inserted = Numbered!Max(FirstIndices \cup {0})
      BY DEF Numbered!Init
    <3>2. Numbered!Max(FirstIndices \cup {0}) \in FirstIndices \cup {0}
      BY <2>3, GreatestExists
    <3> QED
      BY <2>3, <3>1, <3>2
  <2>5. NumberTypes
    BY <2>1, <2>2, <2>4 DEF NumberTypes, Numbered!Init, Taken
  <2>6. MadeWithItsNumber
    BY <2>2 DEF MadeWithItsNumber, Numbered!NumbersAssumption
  <2>7. PagesShow
    BY DEF PagesShow, Shows, Numbered!Init
  <2>8. GivenAreFree
    BY DEF GivenAreFree, HasBeenGiven, Numbered!Init, Given, Numbered!NumbersAssumption
  <2> QED
    BY <2>5, <2>6, <2>7, <2>8 DEF NumberInv
<1>2. NumberInv /\ [Numbered!Next]_(Numbered!vars) => NumberInv' /\ (Numbered!FreeNumbers \/ UNCHANGED number_vars)
  <2> SUFFICES ASSUME NumberInv, [Numbered!Next]_(Numbered!vars)
               PROVE  NumberInv' /\ (Numbered!FreeNumbers \/ UNCHANGED number_vars)
    OBVIOUS
  <2>1. CASE \E u \in Viewers : Numbered!GetNew(u)
    <3>1. PICK u \in Viewers : Numbered!GetNew(u)
      BY <2>1
    <3>2. program' = program /\ \A v \in Viewers \ {u} : paper'[v] = paper[v]
      BY <3>1 DEF Numbered!GetNew, NumberInv, NumberTypes
    <3> QED
      BY <3>1, <3>2, GetNewKeepsNumbers DEF Numbered!FreeNumbers
  <2>2. CASE \E p \in Programs : Numbered!AskNumber(p)
    BY <2>2, AskNumberKeepsNumbers DEF Numbered!FreeNumbers, Numbered!AskNumber
  <2>3. CASE \E n \in DOMAIN depositions : Numbered!delete_process(n)
    BY <2>3, DeleteKeepsNumbers DEF Numbered!FreeNumbers, Numbered!delete_process
  <2>4. CASE \E u \in Viewers : Numbered!PostNew(u)
    BY <2>4, PostNewKeepsNumbers DEF Numbered!FreeNumbers, Numbered!PostNew, NumberInv, NumberTypes
  <2>5. CASE \E p \in Programs : Numbered!Submit(p)
    BY <2>5, SubmitKeepsNumbers DEF Numbered!FreeNumbers, Numbered!Submit
  <2>6. CASE \E u \in Viewers : Numbered!GetExisting(u)
    <3>1. PICK u \in Viewers, n \in DOMAIN depositions :
            paper' = [paper EXCEPT ![u] = [url |-> n, number |-> n, id |-> depositions[n].id]]
      BY <2>6 DEF Numbered!GetExisting, Numbered!Page
    <3>2. n # None
      BY DEF NumberInv, NumberTypes, Taken, Numbered!NumbersAssumption
    <3>3. NumberInv' /\ UNCHANGED <<depositions, program>>
      BY <2>6, OthersKeepNumbers
    <3> QED
      BY <3>1, <3>2, <3>3 DEF Numbered!FreeNumbers, NumberInv, NumberTypes
  <2>7. CASE \E u \in Viewers : Numbered!TypeNumber(u) \/ Numbered!PostExisting(u)
    <3>1. NumberInv' /\ UNCHANGED <<depositions, program>>
      BY <2>7, OthersKeepNumbers
    <3>2. \A u \in Viewers : paper'[u] # None => paper[u] # None
      BY <2>7 DEF Numbered!TypeNumber, Numbered!PostExisting, NumberInv, NumberTypes
    <3> QED
      BY <3>1, <3>2 DEF Numbered!FreeNumbers
  <2>8. CASE Numbered!NewYear
    <3>1. NumberInv' /\ UNCHANGED <<paper, program>>
      BY <2>8, OthersKeepNumbers DEF Numbered!NewYear
    <3> QED
      BY <3>1 DEF Numbered!FreeNumbers
  <2>9. CASE UNCHANGED Numbered!vars
    BY <2>9, OthersKeepNumbers DEF Numbered!vars, number_vars
  <2> QED
    BY <2>1, <2>2, <2>3, <2>4, <2>5, <2>6, <2>7, <2>8, <2>9 DEF Numbered!Next
<1>3. NumberInv => Numbered!StoredOnce /\ Numbered!PagesMeanTheirDeposition
  BY NumbersMeanOne
<1>4. ASSUME NumberInv, [Numbered!Next]_(Numbered!vars)
      PROVE  [Numbered!NumbersNameOneDeposition]_number_vars /\ NumberInv'
  <2>1. NumberInv' => (Numbered!StoredOnce /\ Numbered!PagesMeanTheirDeposition)'
    BY <1>3, PTL
  <2> QED
    BY <1>2, <1>4, <2>1 DEF Numbered!NumbersNameOneDeposition
<1> QED
  BY <1>1, <1>4, PTL DEF Numbered!Spec, NumbersNameOneDeposition
-----------------------------------------------------------------------------
(* Crawler.  Measurement files, and entries of the diff file.              *)
Measurements == [time : Nat, text : Texts]
Entries == [time : Nat, sum : Texts]

CrawlTypes ==
  /\ hour \in Nat /\ cutoff \in Nat
  /\ measured \in [Files -> Measurements \cup {None}]
  /\ diff \in [Files -> Entries \cup {None}]
  /\ statuses \in [Files -> Entries \cup {None}]
  /\ new_statuses \in [Files -> [time : Nat, sum : Texts \cup {None}] \cup {None}]
  /\ items \in [Files -> BOOLEAN \cup {None}]
  /\ seen \in [Files -> Texts \cup {None}]
  /\ found \subseteq Files /\ ahead \subseteq Files
  /\ walk \in {"idle", "walked", "handling"}

(* The lab gives every file a time that no file has had.                   *)
NoLaterThanNow ==
  \A f \in Files :
    /\ measured[f] # None => measured[f].time <= hour
    /\ diff[f] # None => diff[f].time <= hour
    /\ statuses[f] # None => statuses[f].time <= hour
    /\ new_statuses[f] # None => new_statuses[f].time <= hour

(* Who has this time has this sum.                                         *)
Identifies(entry, f) == measured[f] # None /\ measured[f].time = entry.time => measured[f].text = entry.sum

(* The diff file names the texts imported last.                            *)
DiffNamesImported ==
  \A f \in Files :
    /\ f \notin spoilt /\ diff[f] # None => Identifies(diff[f], f)
    /\ items[f] # TRUE /\ f \notin unsure => seen[f] = IF diff[f] = None THEN None ELSE diff[f].sum

(* What a crawl has found out is true, and what it has imported is what it *)
(* will note.                                                              *)
Resting == walk = "idle" =>
  found = {} /\ ahead = {} /\ statuses = Crawled!Blank /\ new_statuses = Crawled!Blank /\ items = Crawled!Blank

Walked == walk = "walked" => items = Crawled!Blank /\ \A f \in Files :
  /\ statuses[f] # None /\ f \notin ahead => statuses[f] = diff[f]
  /\ f \in ahead /\ statuses[f] = None => new_statuses[f] # None

SameSums == walk # "idle" => \A f \in Files :
  /\ statuses[f] = None <=> diff[f] = None
  /\ statuses[f] # None => statuses[f].sum = diff[f].sum

Handling == walk = "handling" => \A f \in Files :
  /\ f \in ahead => items[f] = None
  /\ Crawled!was_changed(f) =>
       /\ new_statuses[f] \in Entries
       /\ Identifies(new_statuses[f], f)
       /\ statuses[f] = None \/ statuses[f].sum # new_statuses[f].sum
  /\ ~Crawled!was_changed(f) /\ statuses[f] # None /\ f \notin spoilt => Identifies(statuses[f], f)
  /\ items[f] = TRUE =>
       IF Crawled!was_changed(f) THEN f \in unsure \/ seen[f] = new_statuses[f].sum ELSE seen[f] = None

CrawlInv == CrawlTypes /\ NoLaterThanNow /\ DiffNamesImported /\ Resting /\ Walked /\ SameSums /\ Handling

LEMMA BlankFits == Crawled!CrawlerAssumption =>
  /\ Crawled!Blank \in [Files -> Entries \cup {None}]
  /\ Crawled!Blank \in [Files -> Measurements \cup {None}]
  /\ Crawled!Blank \in [Files -> [time : Nat, sum : Texts \cup {None}] \cup {None}]
  /\ Crawled!Blank \in [Files -> BOOLEAN \cup {None}]
  /\ Crawled!Blank \in [Files -> Texts \cup {None}]
  /\ \A f \in Files : Crawled!Blank[f] = None /\ Crawled!Blank[f] # TRUE /\ Crawled!Blank[f] # FALSE
BY DEF Crawled!Blank, Crawled!CrawlerAssumption

LEMMA CrawlInit == Crawled!CrawlerAssumption /\ Crawled!Init => CrawlInv
<1> SUFFICES ASSUME Crawled!CrawlerAssumption, Crawled!Init PROVE CrawlInv
  OBVIOUS
<1>1. CrawlTypes
  BY BlankFits DEF Crawled!Init, CrawlTypes
<1>2. NoLaterThanNow /\ DiffNamesImported /\ Resting /\ Walked /\ SameSums /\ Handling
  BY BlankFits DEF Crawled!Init, NoLaterThanNow, DiffNamesImported, Resting, Walked, SameSums, Handling, Identifies
<1> QED
  BY <1>1, <1>2 DEF CrawlInv

(* The lab.                                                                *)
LEMMA LabKeeps == ASSUME Crawled!CrawlerAssumption, CrawlInv, Crawled!Lab PROVE CrawlInv'
<1> USE DEF CrawlInv
<1>1. CASE Crawled!WeeksPass
  <2>1. UNCHANGED <<measured, hour, diff, walk, found, statuses, new_statuses, ahead, items, seen, unsure, spoilt>> /\ cutoff' \in Nat
    BY <1>1 DEF Crawled!WeeksPass, CrawlTypes, Crawled!crawl
  <2>2. CrawlTypes'
    BY <2>1 DEF CrawlTypes
  <2> QED
    BY <2>1, <2>2 DEF NoLaterThanNow, DiffNamesImported, Resting, Walked, SameSums, Handling, Identifies,
         Crawled!was_changed
<1>2. ASSUME NEW f \in Files, Crawled!Write(f)
      PROVE  CrawlInv'
  <2>1. /\ UNCHANGED <<cutoff, diff, walk, found, statuses, new_statuses, ahead, items, seen, unsure, spoilt>>
        /\ hour' = hour + 1
        /\ \E text \in Texts : measured' = [measured EXCEPT ![f] = [time |-> hour', text |-> text]]
    BY <1>2 DEF Crawled!Write, Crawled!crawl
  <2>2. PICK text \in Texts : measured' = [measured EXCEPT ![f] = [time |-> hour + 1, text |-> text]]
    BY <2>1
  <2>3. [time |-> hour + 1, text |-> text] \in Measurements
    BY DEF Measurements, CrawlTypes
  <2>4. CrawlTypes'
    BY <2>1, <2>2, <2>3 DEF CrawlTypes
  <2>5. \A g \in Files : measured'[g] = IF g = f THEN [time |-> hour + 1, text |-> text] ELSE measured[g]
    BY <2>2 DEF CrawlTypes
  <2>6. NoLaterThanNow'
    <3>1. \A g \in Files : /\ measured[g] # None => measured[g].time \in Nat
                           /\ diff[g] # None => diff[g].time \in Nat
                           /\ statuses[g] # None => statuses[g].time \in Nat
                           /\ new_statuses[g] # None => new_statuses[g].time \in Nat
      BY DEF CrawlTypes, Measurements, Entries
    <3>2. hour \in Nat
      BY DEF CrawlTypes
    <3> QED
      BY <2>1, <2>5, <3>1, <3>2 DEF NoLaterThanNow
  <2>7. \A g \in Files : /\ diff[g] # None /\ Identifies(diff[g], g) => Identifies(diff[g], g)'
                         /\ statuses[g] # None /\ Identifies(statuses[g], g) => Identifies(statuses[g], g)'
                         /\ new_statuses[g] # None /\ Identifies(new_statuses[g], g) => Identifies(new_statuses[g], g)'
    <3>1. \A g \in Files : /\ diff[g] # None => diff[g].time # hour + 1
                           /\ statuses[g] # None => statuses[g].time # hour + 1
                           /\ new_statuses[g] # None => new_statuses[g].time # hour + 1
      BY DEF NoLaterThanNow, CrawlTypes
    <3> QED
      BY <2>1, <2>5, <3>1 DEF Identifies
  <2>8. DiffNamesImported' /\ Handling'
    BY <2>1, <2>7 DEF DiffNamesImported, Handling, Crawled!was_changed
  <2>9. Resting' /\ Walked' /\ SameSums'
    BY <2>1 DEF Resting, Walked, SameSums, Crawled!Blank
  <2> QED
    BY <2>4, <2>6, <2>8, <2>9
<1>3. ASSUME NEW f \in Files, Crawled!Unlink(f)
      PROVE  CrawlInv'
  <2>1. /\ UNCHANGED <<hour, cutoff, diff, walk, found, statuses, new_statuses, ahead, items, seen, unsure, spoilt>>
        /\ measured' = [measured EXCEPT ![f] = None]
    BY <1>3 DEF Crawled!Unlink, Crawled!crawl
  <2>2. CrawlTypes'
    BY <2>1 DEF CrawlTypes
  <2>3. \A g \in Files : measured'[g] = IF g = f THEN None ELSE measured[g]
    BY <2>1 DEF CrawlTypes
  <2>4. NoLaterThanNow'
    BY <2>1, <2>3 DEF NoLaterThanNow
  <2>5. \A g \in Files : \A e : Identifies(e, g) => (measured'[g] # None /\ measured'[g].time = e.time => measured'[g].text = e.sum)
    BY <2>3 DEF Identifies
  <2>6. DiffNamesImported'
    BY <2>1, <2>5 DEF DiffNamesImported, Identifies
  <2>8. Handling'
    <3>1. \A g \in Files : /\ statuses'[g] = statuses[g] /\ new_statuses'[g] = new_statuses[g]
                           /\ Identifies(statuses[g], g) => Identifies(statuses[g], g)'
                           /\ Identifies(new_statuses[g], g) => Identifies(new_statuses[g], g)'
      BY <2>1, <2>5 DEF Identifies
    <3> QED
      BY <2>1, <3>1 DEF Handling, Crawled!was_changed
  <2>7. Resting' /\ Walked' /\ SameSums'
    BY <2>1 DEF Resting, Walked, SameSums, Crawled!Blank
  <2> QED
    BY <2>2, <2>4, <2>6, <2>7, <2>8
<1> QED
  BY <1>1, <1>2, <1>3 DEF Crawled!Lab

(* The files are looked through, and their times compared.                 *)
LEMMA WalkKeeps == ASSUME Crawled!CrawlerAssumption, CrawlInv, Crawled!_crawl_all PROVE CrawlInv'
<1> USE DEF CrawlInv
<1> DEFINE old(f) == IF diff[f] # None /\ Crawled!Touched(f) THEN [diff[f] EXCEPT !.time = measured[f].time] ELSE diff[f]
           new(f) == IF diff[f] = None /\ Crawled!Touched(f) THEN [time |-> measured[f].time, sum |-> None] ELSE None
<1>1. /\ UNCHANGED <<measured, hour, cutoff, diff, seen, unsure, spoilt>> /\ walk = "idle" /\ walk' = "walked"
      /\ found' = {f \in Files : measured[f] # None} /\ ahead' = {f \in Files : Crawled!Touched(f)}
      /\ statuses' = [f \in Files |-> old(f)] /\ new_statuses' = [f \in Files |-> new(f)] /\ items' = Crawled!Blank
  BY DEF Crawled!_crawl_all
<1>2. ASSUME NEW f \in Files
      PROVE  /\ Crawled!Touched(f) => measured[f] \in Measurements /\ measured[f].time \in Nat /\ measured[f].time <= hour
             /\ diff[f] # None => diff[f] \in Entries
  BY DEF CrawlTypes, Crawled!Touched, Measurements, NoLaterThanNow
<1>3. ASSUME NEW f \in Files
      PROVE  /\ old(f) \in Entries \cup {None} /\ new(f) \in [time : Nat, sum : Texts \cup {None}] \cup {None}
             /\ old(f) = None <=> diff[f] = None
             /\ old(f) # None => old(f).time <= hour /\ old(f).sum = diff[f].sum /\ (~Crawled!Touched(f) => old(f) = diff[f])
             /\ new(f) # None => new(f).time <= hour
             /\ Crawled!Touched(f) /\ old(f) = None => new(f) # None
  <2>1. CASE diff[f] # None /\ Crawled!Touched(f)
    <3>1. diff[f] \in Entries /\ measured[f].time \in Nat /\ measured[f].time <= hour
      BY <1>2, <2>1
    <3>2. old(f) = [time |-> measured[f].time, sum |-> diff[f].sum]
      BY <2>1, <3>1 DEF Entries
    <3>3. old(f) \in Entries /\ old(f) # None
      BY <3>1, <3>2 DEF Entries, Crawled!CrawlerAssumption
    <3> QED
      BY <2>1, <3>1, <3>2, <3>3
  <2>2. CASE diff[f] = None /\ Crawled!Touched(f)
    <3>1. measured[f].time \in Nat /\ measured[f].time <= hour
      BY <1>2, <2>2
    <3>2. new(f) = [time |-> measured[f].time, sum |-> None] /\ old(f) = None
      BY <2>2
    <3>3. new(f) \in [time : Nat, sum : Texts \cup {None}]
      BY <3>1, <3>2
    <3>4. new(f) # None
      BY <3>3 DEF Crawled!CrawlerAssumption
    <3> QED
      BY <2>2, <3>1, <3>2, <3>3, <3>4
  <2>3. CASE ~Crawled!Touched(f)
    BY <1>2, <2>3 DEF NoLaterThanNow, CrawlTypes
  <2> QED
    BY <2>1, <2>2, <2>3
<1>4. \A f \in Files : statuses'[f] = old(f) /\ new_statuses'[f] = new(f) /\ (f \in ahead' <=> Crawled!Touched(f))
  BY <1>1
<1>5. found' \subseteq Files /\ ahead' \subseteq Files /\ items' \in [Files -> BOOLEAN \cup {None}]
      /\ \A f \in Files : items[f] # TRUE /\ items'[f] # TRUE
  BY <1>1, BlankFits DEF Resting
<1> HIDE DEF old, new
<1>6. CrawlTypes'
  BY <1>1, <1>3, <1>5 DEF CrawlTypes
<1>7. NoLaterThanNow'
  BY <1>1, <1>3, <1>4 DEF NoLaterThanNow
<1>8. DiffNamesImported'
  BY <1>1, <1>5 DEF DiffNamesImported, Identifies
<1>9. Resting' /\ Walked' /\ SameSums' /\ Handling'
  BY <1>1, <1>3, <1>4 DEF Resting, Walked, SameSums, Handling, Crawled!Blank
<1> QED
  BY <1>6, <1>7, <1>8, <1>9

(* Checksums are compared.                                                 *)
LEMMA EnrichKeeps == ASSUME Crawled!CrawlerAssumption, CrawlInv, Crawled!_enrich_new_statuses PROVE CrawlInv'
<1> USE DEF CrawlInv
<1>1. UNCHANGED <<measured, hour, cutoff, diff, items, seen, unsure, spoilt>> /\ walk = "walked"
  BY DEF Crawled!_enrich_new_statuses
<1>2. items = Crawled!Blank /\ \A f \in Files : items[f] # TRUE
  BY <1>1, BlankFits DEF Walked
<1>3. CASE \E f \in ahead : measured[f] = None
  <2>1. walk' = "idle" /\ found' = {} /\ ahead' = {} /\ statuses' = Crawled!Blank /\ new_statuses' = Crawled!Blank
    BY <1>3 DEF Crawled!_enrich_new_statuses
  <2>2. CrawlTypes'
    BY <1>1, <2>1, BlankFits DEF CrawlTypes
  <2> QED
    BY <1>1, <1>2, <2>1, <2>2, BlankFits DEF NoLaterThanNow, DiffNamesImported, Resting, Walked, SameSums,
         Handling, Identifies, Crawled!Blank
<1>4. CASE ~\E f \in ahead : measured[f] = None
  <2> DEFINE changed == {f \in ahead : Crawled!HasNewSum(f)}
             Entry(f) == IF statuses[f] = None THEN new_statuses[f] ELSE statuses[f]
             new(f) == IF f \in changed THEN [Entry(f) EXCEPT !.sum = measured[f].text] ELSE None
  <2>1. /\ walk' = "handling" /\ UNCHANGED <<found, statuses>>
        /\ new_statuses' = [f \in Files |-> new(f)]
        /\ ahead' = changed \cup {f \in Files \ found : statuses[f] # None}
    BY <1>4 DEF Crawled!_enrich_new_statuses
  <2>2. ASSUME NEW f \in ahead
        PROVE  measured[f] \in Measurements
    BY <1>4 DEF CrawlTypes
  <2>3. ASSUME NEW f \in changed
        PROVE  /\ new(f) \in Entries /\ new(f) # None /\ new(f).sum = measured[f].text
               /\ new(f).time <= hour
               /\ statuses[f] = None \/ statuses[f].sum # new(f).sum
    <3>1. f \in Files /\ measured[f].text \in Texts
      BY <2>2 DEF CrawlTypes, Measurements
    <3>2. Entry(f) # None /\ Entry(f) \in [time : Nat, sum : Texts \cup {None}] /\ Entry(f).time <= hour
      <4>1. CASE statuses[f] = None
        BY <1>1, <3>1, <4>1 DEF Walked, CrawlTypes, NoLaterThanNow
      <4>2. CASE statuses[f] # None
        <5>1. statuses[f] \in Entries
          BY <3>1, <4>2 DEF CrawlTypes
        <5>2. statuses[f] \in [time : Nat, sum : Texts \cup {None}]
          BY <5>1 DEF Entries
        <5> QED
          BY <3>1, <4>2, <5>2 DEF NoLaterThanNow
      <4> QED
        BY <4>1, <4>2
    <3>3. new(f) = [time |-> Entry(f).time, sum |-> measured[f].text]
      BY <3>2
    <3>4. new(f) \in Entries
      BY <3>1, <3>2, <3>3 DEF Entries
    <3>5. new(f) # None
      BY <3>4 DEF Entries, Crawled!CrawlerAssumption
    <3> QED
      BY <3>2, <3>3, <3>4, <3>5 DEF Crawled!HasNewSum
  <2>4. \A f \in Files : new_statuses'[f] = new(f) /\ (f \notin changed => new_statuses'[f] = None)
    BY <2>1
  <2>5. changed \subseteq Files /\ ahead' \subseteq Files
    BY <2>1 DEF CrawlTypes
  <2>6. ASSUME NEW f \in Files, f \notin changed, statuses[f] # None, f \notin spoilt
        PROVE  Identifies(statuses[f], f)
    <3>1. CASE f \in ahead
      BY <2>6, <3>1 DEF Crawled!HasNewSum, Identifies
    <3>2. CASE f \notin ahead
      BY <1>1, <2>6, <3>2 DEF Walked, DiffNamesImported
    <3> QED
      BY <3>1, <3>2
  <2> HIDE DEF changed, new
  <2>7. CrawlTypes'
    <3>1. \A f \in Files : new(f) \in [time : Nat, sum : Texts \cup {None}] \cup {None}
      BY <2>3, <2>4 DEF Entries
    <3> QED
      BY <1>1, <2>1, <2>5, <3>1 DEF CrawlTypes
  <2>8. NoLaterThanNow'
    BY <1>1, <2>1, <2>3, <2>4 DEF NoLaterThanNow
  <2>9. DiffNamesImported' /\ Resting' /\ Walked' /\ SameSums'
    BY <1>1, <2>1 DEF DiffNamesImported, Resting, Walked, SameSums, Identifies
  <2>10. Handling'
    <3>1. \A f \in Files : items'[f] = None /\ items'[f] # TRUE
      BY <1>1, <1>2, BlankFits
    <3>2. ASSUME NEW f \in changed
          PROVE  Identifies(new(f), f)
      BY <2>3 DEF Identifies
    <3> QED
      BY <1>1, <2>1, <2>3, <2>4, <2>6, <3>1, <3>2 DEF Handling, Crawled!was_changed, Identifies
  <2> QED
    BY <2>7, <2>8, <2>9, <2>10
<1> QED
  BY <1>3, <1>4

(* A file is imported, or not.                                             *)
LEMMA HandleKeeps == ASSUME Crawled!CrawlerAssumption, CrawlInv, NEW f \in Files, Crawled!Handle(f) PROVE CrawlInv' /\ Crawled!NewText
<1> USE DEF CrawlInv
<1>1. /\ UNCHANGED <<measured, hour, cutoff, diff, walk, found, statuses, new_statuses, spoilt>>
      /\ walk = "handling" /\ f \in ahead /\ items[f] = None
  BY DEF Crawled!Handle, Handling
<1>2. PICK done \in BOOLEAN :
        /\ Crawled!was_changed(f) /\ measured[f] = None => ~done
        /\ items' = [items EXCEPT ![f] = done]
        /\ IF done
           THEN /\ seen' = [seen EXCEPT ![f] = IF Crawled!was_changed(f) THEN measured[f].text ELSE None]
                /\ ahead' = ahead \ {f}
                /\ unsure' = IF Crawled!was_changed(f) /\ measured[f].text # new_statuses[f].sum THEN unsure \cup {f} ELSE unsure
           ELSE ahead' \in {ahead \ {f}, {}} /\ UNCHANGED <<seen, unsure>>
  BY DEF Crawled!Handle
<1>3. ahead' \subseteq ahead \ {f} /\ unsure \subseteq unsure'
  BY <1>2
<1>4. \A g \in Files : items'[g] = IF g = f THEN done ELSE items[g]
  BY <1>2 DEF CrawlTypes
<1>5. \A g \in Files : g # f => seen'[g] = seen[g] /\ (g \in unsure' <=> g \in unsure)
  BY <1>2 DEF CrawlTypes
<1>6. done => /\ seen'[f] = IF Crawled!was_changed(f) THEN measured[f].text ELSE None
              /\ Crawled!was_changed(f) /\ measured[f].text # new_statuses[f].sum => f \in unsure'
  BY <1>2 DEF CrawlTypes
<1>7. ~done => seen' = seen /\ unsure' = unsure
  BY <1>2
<1>8. CrawlTypes'
  <2>1. items' \in [Files -> BOOLEAN \cup {None}]
    BY <1>2 DEF CrawlTypes
  <2>2. seen' \in [Files -> Texts \cup {None}]
    <3>1. CASE done /\ Crawled!was_changed(f)
      <4>1. measured[f].text \in Texts
        BY <1>2, <3>1 DEF CrawlTypes, Measurements
      <4> QED
        BY <1>2, <3>1, <4>1 DEF CrawlTypes
    <3>2. CASE ~done \/ ~Crawled!was_changed(f)
      BY <1>2, <3>2 DEF CrawlTypes
    <3> QED
      BY <3>1, <3>2
  <2> QED
    BY <1>1, <1>3, <2>1, <2>2 DEF CrawlTypes
<1>9. NoLaterThanNow' /\ Resting' /\ Walked' /\ SameSums'
  BY <1>1 DEF NoLaterThanNow, Resting, Walked, SameSums
<1>10. items[f] # TRUE
  BY <1>1 DEF Crawled!CrawlerAssumption
<1>11. DiffNamesImported'
  <2>1. \A g \in Files : g # f => items'[g] = items[g]
    BY <1>4
  <2>2. items'[f] # TRUE => ~done
    BY <1>4
  <2> QED
    BY <1>1, <1>5, <1>7, <1>10, <2>1, <2>2 DEF DiffNamesImported, Identifies
<1>12. Handling'
  <2>1. ASSUME NEW g \in Files, items'[g] = TRUE
        PROVE  IF Crawled!was_changed(g) THEN g \in unsure' \/ seen'[g] = new_statuses[g].sum ELSE seen'[g] = None
    <3>1. CASE g = f
      <4>1. done
        BY <1>4, <2>1, <3>1
      <4> QED
        BY <1>6, <3>1, <4>1
    <3>2. CASE g # f
      BY <1>1, <1>4, <1>5, <2>1, <3>2 DEF Handling
    <3> QED
      BY <3>1, <3>2
  <2>2. ASSUME NEW g \in Files, g \in ahead'
        PROVE  items'[g] = None
    BY <1>1, <1>3, <1>4, <2>2 DEF Handling
  <2> QED
    BY <1>1, <2>1, <2>2 DEF Handling, Crawled!was_changed, Identifies
<1>13. Crawled!NewText
  <2> SUFFICES ASSUME NEW g \in Files, items[g] # TRUE, items'[g] = TRUE, Crawled!was_changed(g), g \notin unsure'
               PROVE  seen'[g] # seen[g]
    BY DEF Crawled!NewText
  <2>1. g = f /\ done
    BY <1>4
  <2>2. seen'[f] = new_statuses[f].sum /\ f \notin unsure
    BY <1>3, <1>6, <2>1
  <2>3. seen[f] = IF diff[f] = None THEN None ELSE diff[f].sum
    BY <1>10, <2>2 DEF DiffNamesImported
  <2>4. new_statuses[f] \in Entries /\ (statuses[f] = None \/ statuses[f].sum # new_statuses[f].sum)
    BY <1>1, <2>1 DEF Handling
  <2>5. new_statuses[f].sum # None
    BY <2>4 DEF Entries, Crawled!CrawlerAssumption
  <2> QED
    BY <1>1, <2>1, <2>2, <2>3, <2>4, <2>5 DEF SameSums
<1> QED
  BY <1>8, <1>9, <1>11, <1>12, <1>13

(* The diff file is written.                                               *)
LEMMA FinishKeeps == ASSUME Crawled!CrawlerAssumption, CrawlInv, Crawled!Finish PROVE CrawlInv'
<1> USE DEF CrawlInv
<1>1. /\ UNCHANGED <<measured, hour, cutoff, ahead, seen>> /\ walk = "handling" /\ ahead = {} /\ walk' = "idle"
      /\ found' = {} /\ statuses' = Crawled!Blank /\ new_statuses' = Crawled!Blank /\ items' = Crawled!Blank
  BY DEF Crawled!Finish
<1>2. Resting' /\ Walked' /\ SameSums' /\ Handling'
  BY <1>1 DEF Resting, Walked, SameSums, Handling, Crawled!Blank
<1>3. CASE ~\E f \in Files : Crawled!CheckedOff(f)
  <2>1. UNCHANGED <<diff, spoilt, unsure>>
    BY <1>3 DEF Crawled!Finish
  <2>2. CrawlTypes'
    BY <1>1, <2>1, BlankFits DEF CrawlTypes
  <2>3. NoLaterThanNow'
    BY <1>1, <2>1, BlankFits DEF NoLaterThanNow
  <2>4. \A f \in Files : items[f] # TRUE
    BY <1>3 DEF Crawled!CheckedOff
  <2>5. DiffNamesImported'
    BY <1>1, <2>1, <2>4 DEF DiffNamesImported, Identifies
  <2> QED
    BY <1>2, <2>2, <2>3, <2>5
<1>4. CASE \E f \in Files : Crawled!CheckedOff(f)
  <2>1. /\ diff' = [f \in Files |-> IF Crawled!IsNoted(f) THEN new_statuses[f] ELSE statuses[f]]
        /\ spoilt' = {f \in Files : ~Crawled!CheckedOff(f) /\ ~Crawled!IsOld(f)
                        /\ IF Crawled!was_changed(f) THEN statuses[f] # None ELSE f \in spoilt}
        /\ unsure' = {f \in Files : IF Crawled!CheckedOff(f) THEN f \in unsure /\ diff'[f] # None
                                    ELSE Crawled!IsOld(f) \/ f \in unsure}
    BY <1>4 DEF Crawled!Finish
  <2>2. ASSUME NEW f \in Files
        PROVE  /\ diff'[f] = IF Crawled!IsNoted(f) THEN new_statuses[f] ELSE statuses[f]
               /\ diff'[f] \in Entries \cup {None}
               /\ diff'[f] # None => diff'[f].time <= hour
    <3>1. diff'[f] = IF Crawled!IsNoted(f) THEN new_statuses[f] ELSE statuses[f]
      BY <2>1
    <3>2. new_statuses[f] \in Entries \cup {None} /\ statuses[f] \in Entries \cup {None}
      BY <1>1 DEF Handling, CrawlTypes, Crawled!was_changed
    <3> QED
      BY <3>1, <3>2 DEF NoLaterThanNow
  <2>3. CrawlTypes'
    <3>1. diff' \in [Files -> Entries \cup {None}]
      BY <2>1, <2>2
    <3> QED
      BY <1>1, <3>1, BlankFits DEF CrawlTypes
  <2>4. NoLaterThanNow'
    BY <1>1, <2>2, BlankFits DEF NoLaterThanNow
  <2>5. ASSUME NEW f \in Files, f \notin spoilt', diff'[f] # None
        PROVE  Identifies(diff'[f], f)
    <3>1. CASE Crawled!IsNoted(f)
      <4>1. diff'[f] = new_statuses[f]
        BY <2>2, <3>1
      <4> QED
        BY <1>1, <2>5, <4>1 DEF Handling, Crawled!was_changed
    <3>2. CASE ~Crawled!IsNoted(f)
      <4>1. ~Crawled!CheckedOff(f) /\ ~Crawled!IsOld(f) /\ diff'[f] = statuses[f]
        BY <2>2, <3>2 DEF Crawled!IsNoted
      <4>2. ~Crawled!was_changed(f) /\ f \notin spoilt
        BY <2>1, <2>5, <4>1
      <4> QED
        BY <1>1, <2>5, <4>1, <4>2 DEF Handling
    <3> QED
      BY <3>1, <3>2
  <2>6. ASSUME NEW f \in Files, f \notin unsure'
        PROVE  seen[f] = IF diff'[f] = None THEN None ELSE diff'[f].sum
    <3>1. CASE Crawled!CheckedOff(f)
      <4>1. diff'[f] = new_statuses[f] /\ items[f] = TRUE
        BY <2>2, <3>1 DEF Crawled!IsNoted, Crawled!CheckedOff
      <4>2. f \notin unsure \/ diff'[f] = None
        BY <2>1, <2>6, <3>1
      <4> QED
        BY <1>1, <4>1, <4>2 DEF Handling, Crawled!was_changed
    <3>2. CASE ~Crawled!CheckedOff(f)
      <4>1. ~Crawled!IsOld(f) /\ f \notin unsure
        BY <2>1, <2>6, <3>2
      <4>2. diff'[f] = statuses[f] /\ items[f] # TRUE
        BY <2>2, <3>2, <4>1 DEF Crawled!IsNoted, Crawled!CheckedOff
      <4> QED
        BY <1>1, <4>1, <4>2 DEF DiffNamesImported, SameSums
    <3> QED
      BY <3>1, <3>2
  <2>7. DiffNamesImported'
    BY <1>1, <2>5, <2>6 DEF DiffNamesImported, Identifies
  <2> QED
    BY <1>2, <2>3, <2>4, <2>7
<1> QED
  BY <1>3, <1>4

LEMMA CrashKeeps == ASSUME Crawled!CrawlerAssumption, CrawlInv, Crawled!Crash PROVE CrawlInv'
<1> USE DEF CrawlInv
<1>1. /\ UNCHANGED <<measured, hour, cutoff, diff, seen, spoilt>> /\ walk' = "idle" /\ ahead' = {}
      /\ unsure' = unsure \cup {f \in Files : Crawled!CheckedOff(f)}
      /\ found' = {} /\ statuses' = Crawled!Blank /\ new_statuses' = Crawled!Blank /\ items' = Crawled!Blank
  BY DEF Crawled!Crash
<1>2. Resting' /\ Walked' /\ SameSums' /\ Handling'
  BY <1>1 DEF Resting, Walked, SameSums, Handling, Crawled!Blank
<1>3. CrawlTypes' /\ NoLaterThanNow'
  BY <1>1, BlankFits DEF CrawlTypes, NoLaterThanNow
<1>4. \A f \in Files : f \notin unsure' => f \notin unsure /\ items[f] # TRUE
  BY <1>1 DEF Crawled!CheckedOff
<1>5. DiffNamesImported'
  BY <1>1, <1>4 DEF DiffNamesImported, Identifies
<1> QED
  BY <1>2, <1>3, <1>5

LEMMA NothingIsForgotten == ASSUME Crawled!CrawlerAssumption, CrawlInv PROVE Crawled!NothingForgotten
<1> SUFFICES ASSUME walk = "idle", NEW f \in Files, f \notin unsure \cup spoilt, Crawled!IsBehind(f)
             PROVE  Crawled!Offered(f)
  BY DEF Crawled!NothingForgotten
<1>1. items[f] # TRUE
  BY BlankFits DEF CrawlInv, Resting
<1>2. seen[f] = IF diff[f] = None THEN None ELSE diff[f].sum
  BY <1>1 DEF CrawlInv, DiffNamesImported
<1>3. diff[f] # None => Identifies(diff[f], f)
  BY DEF CrawlInv, DiffNamesImported
<1> QED
  BY <1>2, <1>3 DEF Crawled!Offered, Crawled!IsBehind, Crawled!Touched, Identifies

LEMMA NewTextOtherwise ==
  ASSUME Crawled!CrawlerAssumption, items' = items \/ items' = Crawled!Blank
  PROVE  Crawled!NewText
BY BlankFits DEF Crawled!NewText

(* Every text that a file has got is imported, and only once, through      *)
(* failures and crashes.                                                   *)
THEOREM TextsOnce == Crawled!CrawlerAssumption => (Crawled!Spec => EveryTextImportedOnce)
<1> SUFFICES ASSUME Crawled!CrawlerAssumption
             PROVE  Crawled!Spec => EveryTextImportedOnce
  OBVIOUS
<1>1. Crawled!Init => CrawlInv
  BY CrawlInit
<1>2. ASSUME CrawlInv, [Crawled!Next]_(Crawled!vars)
      PROVE  CrawlInv' /\ (Crawled!NewText \/ UNCHANGED Crawled!vars)
  <2>1. CASE UNCHANGED Crawled!vars
    BY <1>2, <2>1 DEF Crawled!vars, Crawled!crawl, CrawlInv, CrawlTypes, NoLaterThanNow, DiffNamesImported,
         Identifies, Resting, Walked, SameSums, Handling, Crawled!was_changed
  <2>2. CASE Crawled!Lab
    <3>1. items' = items
      BY <2>2 DEF Crawled!Lab, Crawled!WeeksPass, Crawled!Write, Crawled!Unlink, Crawled!crawl
    <3> QED
      BY <1>2, <2>2, <3>1, LabKeeps, NewTextOtherwise
  <2>3. CASE Crawled!_crawl_all
    <3>1. items' = Crawled!Blank
      BY <2>3 DEF Crawled!_crawl_all
    <3> QED
      BY <1>2, <2>3, <3>1, WalkKeeps, NewTextOtherwise
  <2>4. CASE Crawled!_enrich_new_statuses
    <3>1. items' = items
      BY <2>4 DEF Crawled!_enrich_new_statuses
    <3> QED
      BY <1>2, <2>4, <3>1, EnrichKeeps, NewTextOtherwise
  <2>5. ASSUME NEW f \in Files, Crawled!Handle(f)
        PROVE  CrawlInv' /\ Crawled!NewText
    BY <1>2, <2>5, HandleKeeps
  <2>6. CASE Crawled!Finish
    <3>1. items' = Crawled!Blank
      BY <2>6 DEF Crawled!Finish
    <3> QED
      BY <1>2, <2>6, <3>1, FinishKeeps, NewTextOtherwise
  <2>7. CASE Crawled!Crash
    <3>1. items' = Crawled!Blank
      BY <2>7 DEF Crawled!Crash
    <3> QED
      BY <1>2, <2>7, <3>1, CrashKeeps, NewTextOtherwise
  <2> QED
    BY <1>2, <2>1, <2>2, <2>3, <2>4, <2>5, <2>6, <2>7 DEF Crawled!Next, Crawled!changed_files
<1>3. CrawlInv => Crawled!NothingForgotten
  BY NothingIsForgotten
<1>4. ASSUME CrawlInv, [Crawled!Next]_(Crawled!vars)
      PROVE  CrawlInv' /\ [Crawled!EveryTextImportedOnce]_crawler_vars
  <2>1. CrawlInv' => Crawled!NothingForgotten'
    BY <1>3, PTL
  <2>2. UNCHANGED Crawled!vars => UNCHANGED crawler_vars
    BY DEF Crawled!vars, Crawled!crawl, crawler_vars
  <2> QED
    BY <1>2, <1>4, <2>1, <2>2 DEF Crawled!EveryTextImportedOnce
<1> QED
  BY <1>1, <1>4, PTL DEF Crawled!Spec, EveryTextImportedOnce
-----------------------------------------------------------------------------
(* ResultForm.  A table has a value for every quantity in each row, and if *)
(* it is empty, it has neither quantities nor rows.                        *)
IsTable(t) ==
  /\ t.quantities \in Seq(Words) /\ t.rows \in Seq(Seq(Words))
  /\ \A j \in DOMAIN t.rows : Len(t.rows[j]) = Len(t.quantities)
  /\ Len(t.quantities) = 0 <=> Len(t.rows) = 0

IsSheet(s) ==
  s \in Tabled!Pages /\ IsTable(s)

Differ(t) == \A i, j \in DOMAIN t.quantities : t.quantities[i] = t.quantities[j] => i = j

(* Tables in the database have different headings, and homes unless an     *)
(* image was refused.                                                      *)
FormInv ==
  /\ tables = [r \in Keys |-> tables[r]] /\ sheet = [u \in Authors |-> sheet[u]] /\ posted \in Nat
  /\ \A r \in Tabled!Saved : IsTable(tables[r]) /\ Differ(tables[r]) /\ (r \notin refused => tables[r].home)
  /\ \A u \in Authors : sheet[u] # None => IsSheet(sheet[u])

LEMMA SequenceOfLength ==
  ASSUME NEW n \in Nat, NEW S, NEW f \in [1 .. n -> S]
  PROVE  f \in Seq(S) /\ Len(f) = n
OBVIOUS

(* Typing into a cell keeps the size of a table.                           *)
LEMMA TypedIsSheet ==
  ASSUME Tabled!ResultFormAssumption, NEW s, IsSheet(s), NEW t \in Tabled!Typed(s)
  PROVE  /\ IsSheet(t) /\ t.result = s.result
         /\ Len(t.quantities) = Len(s.quantities) /\ Len(t.rows) = Len(s.rows)
<1>1. s = [result |-> s.result, quantities |-> s.quantities, rows |-> s.rows] /\ s.result \in Keys \cup {None}
  BY DEF IsSheet, Tabled!Pages
<1>2. CASE t = s
  BY <1>2
<1>3. ASSUME NEW i \in DOMAIN s.quantities, NEW w \in Words, t = [s EXCEPT !.quantities[i] = w]
      PROVE  /\ IsSheet(t) /\ t.result = s.result
             /\ Len(t.quantities) = Len(s.quantities) /\ Len(t.rows) = Len(s.rows)
  <2>1. t = Tabled!Sheet(s.result, [s.quantities EXCEPT ![i] = w], s.rows)
    BY <1>1, <1>3 DEF Tabled!Sheet
  <2>2. s.quantities \in Seq(Words)
    BY DEF IsSheet, IsTable
  <2>3. [s.quantities EXCEPT ![i] = w] \in Seq(Words) /\ Len([s.quantities EXCEPT ![i] = w]) = Len(s.quantities)
    BY <1>3, <2>2
  <2> QED
    BY <1>1, <2>1, <2>3 DEF IsSheet, IsTable, Tabled!Sheet, Tabled!Pages
<1>4. ASSUME NEW j \in DOMAIN s.rows, NEW i \in DOMAIN s.quantities, NEW w \in Words, t = [s EXCEPT !.rows[j][i] = w]
      PROVE  /\ IsSheet(t) /\ t.result = s.result
             /\ Len(t.quantities) = Len(s.quantities) /\ Len(t.rows) = Len(s.rows)
  <2> DEFINE line == [s.rows[j] EXCEPT ![i] = w]
             rows == [s.rows EXCEPT ![j] = line]
  <2>1. t = Tabled!Sheet(s.result, s.quantities, rows)
    BY <1>1, <1>4 DEF Tabled!Sheet
  <2>2. s.quantities \in Seq(Words) /\ s.rows \in Seq(Seq(Words)) /\ s.rows[j] \in Seq(Words) /\ Len(s.rows[j]) = Len(s.quantities)
    BY <1>4 DEF IsSheet, IsTable
  <2>3. i \in 1 .. Len(s.rows[j])
    BY <1>4, <2>2
  <2>4. line \in Seq(Words) /\ Len(line) = Len(s.quantities)
    BY <1>4, <2>2, <2>3
  <2> HIDE DEF line
  <2>5. rows \in Seq(Seq(Words)) /\ Len(rows) = Len(s.rows) /\ DOMAIN rows = DOMAIN s.rows
        /\ \A k \in DOMAIN rows : rows[k] = IF k = j THEN line ELSE s.rows[k]
    BY <1>4, <2>2, <2>4
  <2> HIDE DEF rows
  <2> QED
    BY <1>1, <2>1, <2>4, <2>5, <2>2 DEF IsSheet, IsTable, Tabled!Sheet, Tabled!Pages
<1> QED
  BY <1>2, <1>3, <1>4 DEF Tabled!Typed

(* So does a new size, which is never half empty.                          *)
LEMMA DimensionsFit ==
  ASSUME NEW size \in Nat \X Nat
  PROVE  /\ Tabled!Dimensions(size) \in Nat \X Nat
         /\ Tabled!Dimensions(size)[1] = 0 <=> Tabled!Dimensions(size)[2] = 0
BY DEF Tabled!Dimensions

LEMMA PreviousSize ==
  ASSUME NEW s, IsSheet(s)
  PROVE  /\ Tabled!PreviousDimensions(s) = <<Len(s.quantities), Len(s.rows)>>
         /\ Tabled!PreviousDimensions(s) \in Nat \X Nat
         /\ Tabled!PreviousDimensions(s)[1] = 0 <=> Tabled!PreviousDimensions(s)[2] = 0
<1>1. Len(s.quantities) \in Nat /\ Len(s.rows) \in Nat /\ (Len(s.quantities) = 0 <=> Len(s.rows) = 0)
  BY DEF IsSheet, IsTable
<1> QED
  BY <1>1 DEF Tabled!PreviousDimensions, Tabled!Dimensions

LEMMA TableIsSheet ==
  ASSUME Tabled!ResultFormAssumption, NEW s, IsSheet(s), NEW a \in Nat, NEW b \in Nat, a = 0 <=> b = 0
  PROVE  /\ IsSheet(Tabled!Table(s, <<a, b>>)) /\ Tabled!Table(s, <<a, b>>).result = s.result
         /\ Len(Tabled!Table(s, <<a, b>>).quantities) = a /\ Len(Tabled!Table(s, <<a, b>>).rows) = b
<1> DEFINE n == Len(s.quantities)
           m == Len(s.rows)
           q == [i \in 1 .. a |-> IF i <= n THEN s.quantities[i] ELSE ""]
           line(j) == [i \in 1 .. a |-> IF i <= n /\ j <= m THEN s.rows[j][i] ELSE ""]
           rows == [j \in 1 .. b |-> line(j)]
<1>1. Tabled!Table(s, <<a, b>>) = Tabled!Sheet(s.result, q, rows)
  <2>1. Tabled!PreviousDimensions(s)[1] = n /\ Tabled!PreviousDimensions(s)[2] = m
    BY PreviousSize
  <2> QED
    BY <2>1 DEF Tabled!Table
<1>0. n \in Nat /\ m \in Nat
  BY DEF IsSheet, IsTable
<1>2. /\ s.quantities \in Seq(Words) /\ s.rows \in Seq(Seq(Words)) /\ "" \in Words /\ n \in Nat /\ m \in Nat
      /\ \A j \in 1 .. m : s.rows[j] \in Seq(Words) /\ Len(s.rows[j]) = n
  <2>1. s.quantities \in Seq(Words) /\ s.rows \in Seq(Seq(Words)) /\ \A j \in DOMAIN s.rows : Len(s.rows[j]) = n
    BY DEF IsSheet, IsTable
  <2>2. n \in Nat /\ m \in Nat /\ DOMAIN s.rows = 1 .. m
    BY <2>1
  <2>3. \A j \in 1 .. m : s.rows[j] \in Seq(Words)
    BY <2>1
  <2> QED
    BY <2>1, <2>2, <2>3 DEF Tabled!ResultFormAssumption
<1> HIDE DEF n, m
<1>3. q \in Seq(Words) /\ Len(q) = a
  <2>1. \A i \in 1 .. n : s.quantities[i] \in Words
    <3>1. s.quantities \in Seq(Words)
      BY <1>2
    <3> QED
      BY <3>1 DEF n
  <2>2. q \in [1 .. a -> Words]
    <3>1. \A i \in 1 .. a : i <= n => i \in 1 .. n
      BY <1>0
    <3>2. \A i \in 1 .. a : (IF i <= n THEN s.quantities[i] ELSE "") \in Words
      BY <1>2, <2>1, <3>1
    <3> QED
      BY <3>2
  <2> QED
    BY <2>2, SequenceOfLength
<1>4. ASSUME NEW j \in 1 .. b
      PROVE  line(j) \in Seq(Words) /\ Len(line(j)) = a
  <2>1. ASSUME NEW i \in 1 .. a, i <= n, j <= m
        PROVE  s.rows[j][i] \in Words
    <3>1. j \in 1 .. m /\ i \in 1 .. n
      BY <1>0, <2>1
    <3>2. s.rows[j] \in Seq(Words) /\ i \in 1 .. Len(s.rows[j])
      BY <1>2, <3>1
    <3> QED
      BY <3>2
  <2>2. line(j) \in [1 .. a -> Words]
    <3>1. \A i \in 1 .. a : (IF i <= n /\ j <= m THEN s.rows[j][i] ELSE "") \in Words
      BY <1>2, <2>1
    <3> QED
      BY <3>1
  <2> HIDE DEF line
  <2> QED
    BY <2>2, SequenceOfLength
<1> HIDE DEF line, q
<1>5. rows \in Seq(Seq(Words)) /\ Len(rows) = b
  <2>1. rows \in [1 .. b -> Seq(Words)]
    BY <1>4
  <2> HIDE DEF rows
  <2> QED
    BY <2>1, SequenceOfLength
<1>6. \A j \in DOMAIN rows : Len(rows[j]) = a
  BY <1>4
<1> HIDE DEF rows
<1>7. s.result \in Keys \cup {None}
  BY DEF IsSheet, Tabled!Pages
<1> DEFINE t == Tabled!Table(s, <<a, b>>)
<1>8. t = [result |-> s.result, quantities |-> q, rows |-> rows]
  BY <1>1 DEF Tabled!Sheet
<1> HIDE DEF t
<1>9. t.result = s.result /\ t.quantities = q /\ t.rows = rows /\ t \in Tabled!Pages
  BY <1>3, <1>5, <1>7, <1>8 DEF Tabled!Pages
<1>10. IsTable(t)
  BY <1>3, <1>5, <1>6, <1>9 DEF IsTable
<1> QED
  BY <1>3, <1>5, <1>9, <1>10 DEF IsSheet, t

LEMMA SheetsAreThere ==
  ASSUME Tabled!ResultFormAssumption, NEW s, IsSheet(s)
  PROVE  s # None
BY DEF IsSheet, Tabled!ResultFormAssumption

LEMMA SheetsFit ==
  ASSUME FormInv, NEW u \in Authors, NEW s, IsSheet(s), sheet' = [sheet EXCEPT ![u] = s],
         UNCHANGED <<tables, refused>>, posted' \in Nat
  PROVE  FormInv'
<1>1. sheet' = [v \in Authors |-> sheet'[v]] /\ \A v \in Authors : sheet'[v] = IF v = u THEN s ELSE sheet[v]
  BY DEF FormInv
<1> QED
  BY <1>1 DEF FormInv, Tabled!Saved

(* A page is sent.                                                         *)
LEMMA SavesTable ==
  ASSUME Tabled!ResultFormAssumption, FormInv, NEW u \in Authors, NEW s, IsSheet(s), s.result = sheet[u].result, Tabled!TableIsValid(s),
         Len(s.quantities) = Len(sheet[u].quantities), Len(s.rows) = Len(sheet[u].rows), sheet[u] # None,
         NEW chosen \in BOOLEAN, chosen, NEW image, Tabled!save_to_database(u, s, chosen, image), posted' \in Nat
  PROVE  FormInv' /\ Tabled!AsSeen
<1> DEFINE r == IF s.result # None THEN s.result ELSE CHOOSE i \in Keys \ Tabled!Saved : \A k \in Keys \ Tabled!Saved : i <= k
           line == [quantities |-> s.quantities, rows |-> s.rows,
                   home |-> IF Tabled!ConnectionsSaved(image) THEN chosen ELSE r \in Tabled!Saved /\ tables[r].home]
           shown == IF Tabled!ConnectionsSaved(image) THEN None ELSE s
<1>1. /\ s.result = None => Keys \ Tabled!Saved # {}
      /\ tables' = [tables EXCEPT ![r] = line]
      /\ refused' = IF image = "refused" THEN refused \cup {r} ELSE refused
      /\ sheet' = [sheet EXCEPT ![u] = shown]
  BY DEF Tabled!save_to_database
<1>2. r \in Keys /\ (s.result = None => r \notin Tabled!Saved)
  <2>1. CASE s.result # None
    BY <2>1 DEF IsSheet, Tabled!Pages
  <2>2. CASE s.result = None
    <3>1. \E i \in Keys \ Tabled!Saved : \A k \in Keys \ Tabled!Saved : i <= k
      BY <1>1, <2>2, LeastExists DEF Tabled!ResultFormAssumption
    <3> QED
      BY <2>2, <3>1
  <2> QED
    BY <2>1, <2>2
<1>3. line # None
  <2> HIDE DEF r
  <2>1. line \in Tabled!Tables
    BY DEF IsSheet, IsTable, Tabled!Tables
  <2> QED
    BY <2>1 DEF Tabled!ResultFormAssumption
<1>4. IsTable(line) /\ Differ(line)
  BY DEF IsSheet, IsTable, Tabled!TableIsValid, Differ
<1>5. r \notin refused' => line.home
  BY <1>1 DEF Tabled!ConnectionsSaved
<1>6. line.quantities = s.quantities /\ line.rows = s.rows
  OBVIOUS
<1> HIDE DEF r, line
<1>7. \A i \in Keys : tables'[i] = IF i = r THEN line ELSE tables[i]
  BY <1>1, <1>2 DEF FormInv
<1>8. \A v \in Authors : sheet'[v] = IF v = u THEN shown ELSE sheet[v]
  BY <1>1 DEF FormInv
<1>9. tables' = [i \in Keys |-> tables'[i]] /\ sheet' = [v \in Authors |-> sheet'[v]]
  BY <1>1 DEF FormInv
<1>10. FormInv'
  <2>1. ASSUME NEW i \in Tabled!Saved'
        PROVE  IsTable(tables'[i]) /\ Differ(tables'[i]) /\ (i \notin refused' => tables'[i].home)
    <3>1. i \in Keys /\ tables'[i] # None
      BY DEF Tabled!Saved
    <3>2. CASE i = r
      BY <1>4, <1>5, <1>7, <3>1, <3>2
    <3>3. CASE i # r
      <4>1. tables'[i] = tables[i] /\ i \in Tabled!Saved /\ (i \in refused => i \in refused')
        BY <1>1, <1>7, <3>1, <3>3 DEF Tabled!Saved
      <4> QED
        BY <4>1 DEF FormInv
    <3> QED
      BY <3>2, <3>3
  <2>2. \A v \in Authors : sheet'[v] # None => IsSheet(sheet'[v])
    BY <1>8 DEF FormInv
  <2> QED
    BY <1>9, <2>1, <2>2 DEF FormInv
<1>11. Tabled!AsSeen
  <2> SUFFICES ASSUME NEW v \in Authors, sheet[v] # None, tables' # tables, sheet'[v] = None
               PROVE  \E i \in Keys : /\ tables'[i] # tables[i] \/ i = sheet[v].result
                                      /\ tables'[i] # None
                                      /\ Len(tables'[i].quantities) = Len(sheet[v].quantities)
                                      /\ Len(tables'[i].rows) = Len(sheet[v].rows)
    BY DEF Tabled!AsSeen
  <2>1. v = u
    BY <1>8
  <2>2. tables'[r] # tables[r] \/ r = sheet[u].result
    <3>1. CASE s.result # None
      BY <3>1 DEF r
    <3>2. CASE s.result = None
      BY <1>2, <1>3, <1>7, <3>2 DEF Tabled!Saved
    <3> QED
      BY <3>1, <3>2
  <2> QED
    BY <1>2, <1>3, <1>6, <1>7, <2>1, <2>2
<1> QED
  BY <1>10, <1>11

LEMMA PostKeeps ==
  ASSUME Tabled!ResultFormAssumption, FormInv, NEW u \in Authors, Tabled!post(u)
  PROVE  FormInv' /\ Tabled!AsSeen
<1>1. sheet[u] # None /\ IsSheet(sheet[u]) /\ posted' \in Nat
  BY DEF Tabled!post, FormInv
<1>2. PICK s \in Tabled!Typed(sheet[u]), chosen \in BOOLEAN, image \in {"none", "good", "refused"} :
        \/ \E requested \in Tabled!Sizes :
             IF Tabled!RelatedDataIsValid(chosen) /\ Tabled!TableIsValid(Tabled!Table(s, Tabled!Dimensions(requested)))
                  /\ ~Tabled!_is_structure_changed(s, Tabled!Dimensions(requested))
             THEN Tabled!save_to_database(u, Tabled!Table(s, Tabled!Dimensions(requested)), chosen, image)
             ELSE sheet' = [sheet EXCEPT ![u] = Tabled!Table(s, Tabled!Dimensions(requested))] /\ UNCHANGED <<tables, refused>>
        \/ /\ sheet' = [sheet EXCEPT ![u] = Tabled!Table(s, Tabled!PreviousDimensions(s))]
           /\ UNCHANGED <<tables, refused>>
  BY DEF Tabled!post
<1>3. /\ IsSheet(s) /\ s.result = sheet[u].result
      /\ Len(s.quantities) = Len(sheet[u].quantities) /\ Len(s.rows) = Len(sheet[u].rows)
  BY <1>1, TypedIsSheet
<1>4. ASSUME NEW size \in Nat \X Nat, size[1] = 0 <=> size[2] = 0, sheet' = [sheet EXCEPT ![u] = Tabled!Table(s, size)],
             UNCHANGED <<tables, refused>>
      PROVE  FormInv' /\ Tabled!AsSeen
  <2>1. IsSheet(Tabled!Table(s, size))
    BY <1>3, <1>4, size = <<size[1], size[2]>>, TableIsSheet
  <2> QED
    BY <1>1, <1>4, <2>1, SheetsFit DEF Tabled!AsSeen
<1>5. CASE /\ sheet' = [sheet EXCEPT ![u] = Tabled!Table(s, Tabled!PreviousDimensions(s))]
           /\ UNCHANGED <<tables, refused>>
  BY <1>3, <1>4, <1>5, PreviousSize
<1>6. ASSUME NEW requested \in Tabled!Sizes,
             IF Tabled!RelatedDataIsValid(chosen) /\ Tabled!TableIsValid(Tabled!Table(s, Tabled!Dimensions(requested)))
                  /\ ~Tabled!_is_structure_changed(s, Tabled!Dimensions(requested))
             THEN Tabled!save_to_database(u, Tabled!Table(s, Tabled!Dimensions(requested)), chosen, image)
             ELSE sheet' = [sheet EXCEPT ![u] = Tabled!Table(s, Tabled!Dimensions(requested))] /\ UNCHANGED <<tables, refused>>
      PROVE  FormInv' /\ Tabled!AsSeen
  <2> DEFINE size == Tabled!Dimensions(requested)
  <2>1. size \in Nat \X Nat /\ (size[1] = 0 <=> size[2] = 0)
    <3>1. requested \in Nat \X Nat
      <4>1. 0 .. MaxSize \subseteq Nat
        <5>1. MaxSize \in Nat
          BY DEF Tabled!ResultFormAssumption
        <5> QED
          BY <5>1
      <4> QED
        BY <4>1 DEF Tabled!Sizes
    <3> QED
      BY <3>1, DimensionsFit
  <2> HIDE DEF size
  <2>2. CASE Tabled!RelatedDataIsValid(chosen) /\ Tabled!TableIsValid(Tabled!Table(s, size)) /\ ~Tabled!_is_structure_changed(s, size)
    <3>1. size[1] = Len(s.quantities) /\ size[2] = Len(s.rows) /\ chosen
      BY <1>3, <2>2, PreviousSize DEF Tabled!_is_structure_changed, Tabled!RelatedDataIsValid
    <3>2. /\ IsSheet(Tabled!Table(s, size)) /\ Tabled!Table(s, size).result = s.result
          /\ Len(Tabled!Table(s, size).quantities) = size[1] /\ Len(Tabled!Table(s, size).rows) = size[2]
      BY <1>3, <2>1, size = <<size[1], size[2]>>, TableIsSheet
    <3>3. Tabled!save_to_database(u, Tabled!Table(s, size), chosen, image)
      BY <1>6, <2>2 DEF size
    <3> QED
      BY <1>1, <1>3, <2>2, <3>1, <3>2, <3>3, SavesTable
  <2>3. CASE ~(Tabled!RelatedDataIsValid(chosen) /\ Tabled!TableIsValid(Tabled!Table(s, size)) /\ ~Tabled!_is_structure_changed(s, size))
    <3>1. sheet' = [sheet EXCEPT ![u] = Tabled!Table(s, size)] /\ UNCHANGED <<tables, refused>>
      BY <1>6, <2>3 DEF size
    <3> QED
      BY <1>4, <2>1, <3>1
  <2> QED
    BY <2>2, <2>3
<1> QED
  BY <1>2, <1>5, <1>6

(* A page is opened.                                                       *)
LEMMA OpenKeeps ==
  ASSUME Tabled!ResultFormAssumption, FormInv, NEW u \in Authors, Tabled!add(u) \/ Tabled!edit(u)
  PROVE  FormInv' /\ Tabled!AsSeen
<1>1. UNCHANGED <<tables, refused, posted>> /\ posted' \in Nat
  BY DEF Tabled!add, Tabled!edit, FormInv
<1>2. CASE Tabled!add(u)
  <2>1. IsSheet(Tabled!Sheet(None, <<>>, <<>>))
    BY DEF IsSheet, IsTable, Tabled!Sheet, Tabled!Pages
  <2> QED
    BY <1>1, <1>2, <2>1, SheetsFit DEF Tabled!add, Tabled!AsSeen
<1>3. CASE Tabled!edit(u)
  <2>1. PICK r \in Tabled!Saved : sheet' = [sheet EXCEPT ![u] = Tabled!Sheet(r, tables[r].quantities, tables[r].rows)]
    BY <1>3 DEF Tabled!edit
  <2>2. IsSheet(Tabled!Sheet(r, tables[r].quantities, tables[r].rows))
    BY DEF FormInv, IsSheet, IsTable, Tabled!Sheet, Tabled!Saved, Tabled!Pages
  <2> QED
    BY <1>1, <2>1, <2>2, SheetsFit DEF Tabled!AsSeen
<1> QED
  BY <1>2, <1>3

(* Results keep what the user has seen: as full tables with different      *)
(* headings that belong to a sample or a series.                           *)
THEOREM SavedAsSeen == Tabled!ResultFormAssumption => (Tabled!Spec => TablesAsSeen)
<1> SUFFICES ASSUME Tabled!ResultFormAssumption
             PROVE  Tabled!Spec => TablesAsSeen
  OBVIOUS
<1>1. Tabled!Init => FormInv
  BY DEF Tabled!Init, FormInv, Tabled!Saved
<1>2. ASSUME FormInv, [Tabled!Next]_(Tabled!vars)
      PROVE  FormInv' /\ Tabled!AsSeen
  <2>1. CASE UNCHANGED Tabled!vars
    BY <1>2, <2>1 DEF Tabled!vars, FormInv, Tabled!Saved, Tabled!AsSeen, IsSheet, IsTable, Differ
  <2> QED
    BY <1>2, <2>1, PostKeeps, OpenKeeps DEF Tabled!Next
<1>3. FormInv => Tabled!TablesAreRectangular /\ Tabled!QuantitiesDiffer /\ Tabled!ResultsHaveHomes
  BY DEF FormInv, Tabled!TablesAreRectangular, Tabled!QuantitiesDiffer, Tabled!ResultsHaveHomes, Tabled!Saved,
       IsSheet, IsTable, Differ
<1>4. ASSUME FormInv, [Tabled!Next]_(Tabled!vars)
      PROVE  FormInv' /\ [Tabled!TablesAsSeen]_form_vars
  <2>1. FormInv' => (Tabled!TablesAreRectangular /\ Tabled!QuantitiesDiffer /\ Tabled!ResultsHaveHomes)'
    BY <1>3, PTL
  <2> QED
    BY <1>2, <1>4, <2>1 DEF Tabled!TablesAsSeen, Tabled!vars, form_vars
<1> QED
  BY <1>1, <1>4, PTL DEF Tabled!Spec, TablesAsSeen
-----------------------------------------------------------------------------
(* Kicker.  Numbers, batches of them, numbers before a match, requests.    *)
KickerNumber == [start : SUBSET Nat, added : SUBSET Nat]
Counts == UNION {[P -> KickerNumber] : P \in SUBSET (Kicked!Players \cup Veterans)}
NumberBefore == [start : SUBSET (Nat \cup {None}), added : SUBSET Nat]
Results == UNION {[P -> NumberBefore] : P \in SUBSET (Kicked!Players \cup Veterans)}
Batches == [match : Nat \cup {None}, time : 0 .. MaxDays, counted : Counts]
Desks == [user : Reporters, id : Nat \cup {None}, old : Results \cup {None}, match : Kicked!Played]

KickerTypes ==
  /\ matches \in Seq(Kicked!Played \cup {None})
  /\ numbers \in Seq(Batches)
  /\ play \in [Browsers -> Desks \cup {None}]
  /\ hasty \subseteq Reporters /\ rivals \in BOOLEAN

(* A request is about an own match.  The match can still be edited unless  *)
(* the user did not wait for the request.                                  *)
DesksInOrder ==
  \A b \in Kicked!Busy :
    /\ play[b].match.reporter = play[b].user
    /\ play[b].id # None =>
         /\ play[b].id \in DOMAIN matches
         /\ matches[play[b].id] # None => matches[play[b].id].reporter = play[b].user
         /\ play[b].user \notin hasty => Kicked!MayBeEdited(play[b].id, play[b].user)
    /\ \A c \in Kicked!Busy \ {b} :
         /\ play[b].user = play[c].user => play[b].user \in hasty
         /\ play[b].id # None /\ play[b].id = play[c].id => play[b].user = play[c].user

(* Unless requests have overlapped, the only request has seen what is there.*)
HasSeenAll(b) ==
  /\ Kicked!Busy = {b}
  /\ play[b].id # None => Kicked!MayBeEdited(play[b].id, play[b].user)
  /\ play[b].old # None =>
       /\ play[b].match.finished
       /\ play[b].old \in Kicked!MatchResult(play[b].match.players)
       /\ \A i \in DOMAIN numbers : numbers[i].time < play[b].match.time

(* The numbers of a player have different times, and each match has one    *)
(* batch, as long as there are no rivals.                                  *)
Orderly ==
  /\ \A b \in Kicked!Busy : HasSeenAll(b)
  /\ \A i, j \in DOMAIN numbers :
       i # j => /\ numbers[i].match # numbers[j].match \/ numbers[i].match = None
                /\ DOMAIN numbers[i].counted \cap DOMAIN numbers[j].counted = {} \/ numbers[i].time # numbers[j].time
  /\ \A i \in DOMAIN numbers : numbers[i].match # None => numbers[i].match \in Kicked!Finished
  /\ \A i \in DOMAIN numbers : \A p \in DOMAIN numbers[i].counted : numbers[i].counted[p].start \subseteq Kicked!Finished

KickerInv ==
  /\ KickerTypes /\ DesksInOrder
  /\ Kicked!OneOpenMatch /\ Kicked!NumbersBuildOn /\ Kicked!TwiceOnlyAtFirst
  /\ ~rivals => Orderly

(* A number starts where another one does and contains what was added to it.*)
BuildsOn(x, y) == x.start = y.start /\ y.added \subseteq x.added

(* Who has a number has a latest one.                                      *)
LEMMA LatestNumber ==
  ASSUME Kicked!KickerAssumption, KickerTypes, NEW p, NEW k \in DOMAIN numbers, p \in DOMAIN numbers[k].counted
  PROVE  Kicked!get_current_kicker_number(p) # {}
<1> DEFINE own == {i \in DOMAIN numbers : p \in DOMAIN numbers[i].counted}
           times == {numbers[i].time : i \in own}
<1>1. \A i \in DOMAIN numbers : numbers[i].time \in 0 .. MaxDays
  <2>1. \A i \in DOMAIN numbers : numbers[i] \in Batches
    BY DEF KickerTypes
  <2> QED
    BY <2>1 DEF Batches
<1>2. times \in SUBSET (0 .. MaxDays) /\ times # {}
  BY <1>1
<1>3. PICK m \in times : \A x \in times : x <= m
  BY <1>2, GreatestExists DEF Kicked!KickerAssumption
<1>4. PICK i \in own : numbers[i].time = m
  BY <1>3
<1>5. \A j \in own : numbers[j].time <= numbers[i].time
  BY <1>3, <1>4
<1> QED
  BY <1>4, <1>5 DEF Kicked!get_current_kicker_number

(* Any latest number builds on the others, as long as there are no rivals. *)
LEMMA LatestContains ==
  ASSUME Kicked!KickerAssumption, KickerInv, ~rivals, NEW p, NEW x \in Kicked!get_current_kicker_number(p),
         NEW k \in DOMAIN numbers, p \in DOMAIN numbers[k].counted
  PROVE  BuildsOn(x, numbers[k].counted[p])
<1> DEFINE own == {i \in DOMAIN numbers : p \in DOMAIN numbers[i].counted}
<1>1. PICK i \in own : x = numbers[i].counted[p] /\ \A j \in own : numbers[j].time <= numbers[i].time
  BY DEF Kicked!get_current_kicker_number
<1>2. \A j \in DOMAIN numbers : numbers[j].time \in Nat
  <2>1. \A j \in DOMAIN numbers : numbers[j] \in Batches
    BY DEF KickerTypes, KickerInv
  <2> QED
    BY <2>1 DEF Batches
<1>3. k # i => numbers[k].time # numbers[i].time
  BY <1>1 DEF KickerInv, Orderly
<1>4. k # i => numbers[k].time < numbers[i].time
  BY <1>1, <1>2, <1>3
<1> QED
  BY <1>1, <1>4 DEF KickerInv, Kicked!NumbersBuildOn, BuildsOn

(* Stored numbers are numbers.                                             *)
LEMMA StoredNumber ==
  ASSUME KickerTypes, NEW i \in DOMAIN numbers, NEW p \in DOMAIN numbers[i].counted
  PROVE  numbers[i].counted[p] \in KickerNumber
<1>1. numbers[i] \in Batches
  BY DEF KickerTypes
<1>2. PICK P \in SUBSET (Kicked!Players \cup Veterans) : numbers[i].counted \in [P -> KickerNumber]
  BY <1>1 DEF Batches, Counts
<1> QED
  BY <1>2

(* Who has no number is given one that starts with finished matches and,   *)
(* possibly, the present one, and nothing else.                            *)
LEMMA EstimateIs ==
  ASSUME NEW p, NEW own, NEW x \in Kicked!get_current_kicker_number_or_estimate(p, own)
  PROVE  \/ x \in Kicked!get_current_kicker_number(p)
         \/ /\ Kicked!get_current_kicker_number(p) = {}
            /\ \E fit \in SUBSET (Kicked!Finished \cup {None}) : x = [start |-> fit, added |-> {}]
<1> DEFINE HaveNumbers(others) == \A q \in others \ {p} : Kicked!get_current_kicker_number(q) # {}
           fit == {id \in Kicked!Finished : p \in Kicked!PlayersOf(matches[id]) /\ HaveNumbers(Kicked!PlayersOf(matches[id]))}
           present == {m \in {None} : HaveNumbers(own)}
<1>1. CASE Kicked!get_current_kicker_number(p) # {}
  BY <1>1 DEF Kicked!get_current_kicker_number_or_estimate
<1>2. CASE Kicked!get_current_kicker_number(p) = {}
  <2>1. x \in {[start |-> fit \cup present, added |-> {}]}
    BY <1>2 DEF Kicked!get_current_kicker_number_or_estimate
  <2>2. fit \cup present \in SUBSET (Kicked!Finished \cup {None})
    OBVIOUS
  <2> QED
    BY <1>2, <2>1, <2>2
<1> QED
  BY <1>1, <1>2

(* A match gives each of its players a number, and contains what they had. *)
LEMMA ResultTypes ==
  ASSUME Kicked!KickerAssumption, KickerTypes, NEW players \in LineUps, NEW old \in Kicked!MatchResult(players)
  PROVE  old \in Results
<1> DEFINE own == {players[i] : i \in 1 .. 4}
           number == [p \in own |-> Kicked!get_current_kicker_number_or_estimate(p, own)]
<1>1. own \subseteq Kicked!Players
  BY DEF Kicked!Players
<1>2. old \in [own -> UNION {number[p] : p \in own}] /\ \A p \in own : old[p] \in number[p]
  BY DEF Kicked!MatchResult
<1>3. ASSUME NEW p \in own, NEW x \in Kicked!get_current_kicker_number_or_estimate(p, own)
      PROVE  x \in NumberBefore
  <2>1. ASSUME x \in Kicked!get_current_kicker_number(p)
        PROVE  x \in NumberBefore
    <3>1. PICK i \in DOMAIN numbers : p \in DOMAIN numbers[i].counted /\ x = numbers[i].counted[p]
      BY <2>1 DEF Kicked!get_current_kicker_number
    <3>2. x \in KickerNumber
      BY <3>1, StoredNumber
    <3> QED
      BY <3>2 DEF KickerNumber, NumberBefore
  <2>2. ASSUME x \notin Kicked!get_current_kicker_number(p)
        PROVE  x \in NumberBefore
    BY <1>3, <2>2, EstimateIs DEF NumberBefore, Kicked!Finished, KickerTypes
  <2> QED
    BY <2>1, <2>2
<1>4. old \in [own -> NumberBefore]
  BY <1>2, <1>3
<1> QED
  BY <1>1, <1>4 DEF Results

LEMMA ResultContains ==
  ASSUME Kicked!KickerAssumption, KickerInv, ~rivals, NEW players \in LineUps, NEW old \in Kicked!MatchResult(players),
         NEW k \in DOMAIN numbers, NEW p \in DOMAIN old \cap DOMAIN numbers[k].counted
  PROVE  BuildsOn(old[p], numbers[k].counted[p])
<1> DEFINE own == {players[i] : i \in 1 .. 4}
           number == [q \in own |-> Kicked!get_current_kicker_number_or_estimate(q, own)]
<1>1. old \in [own -> UNION {number[q] : q \in own}] /\ \A q \in own : old[q] \in number[q]
  BY DEF Kicked!MatchResult
<1>2. p \in own /\ old[p] \in Kicked!get_current_kicker_number_or_estimate(p, own)
  BY <1>1
<1>3. Kicked!get_current_kicker_number(p) # {}
  BY LatestNumber DEF KickerInv
<1>4. old[p] \in Kicked!get_current_kicker_number(p)
  BY <1>2, <1>3 DEF Kicked!get_current_kicker_number_or_estimate
<1> QED
  BY <1>4, LatestContains

(* The number of a player before a match is a stored one, or an estimate.  *)
LEMMA ResultIs ==
  ASSUME NEW players \in LineUps, NEW old \in Kicked!MatchResult(players), NEW p \in DOMAIN old
  PROVE  \/ \E i \in DOMAIN numbers : p \in DOMAIN numbers[i].counted /\ old[p] = numbers[i].counted[p]
         \/ \E fit \in SUBSET (Kicked!Finished \cup {None}) : old[p] = [start |-> fit, added |-> {}]
<1> DEFINE own == {players[i] : i \in 1 .. 4}
           number == [q \in own |-> Kicked!get_current_kicker_number_or_estimate(q, own)]
<1>1. old \in [own -> UNION {number[q] : q \in own}] /\ \A q \in own : old[q] \in number[q]
  BY DEF Kicked!MatchResult
<1>2. old[p] \in Kicked!get_current_kicker_number_or_estimate(p, own)
  BY <1>1
<1>3. old[p] \in Kicked!get_current_kicker_number(p) =>
        \E i \in DOMAIN numbers : p \in DOMAIN numbers[i].counted /\ old[p] = numbers[i].counted[p]
  BY DEF Kicked!get_current_kicker_number
<1> QED
  BY <1>2, <1>3, EstimateIs

(* Both properties of the numbers hold on when the numbers remain.         *)
LEMMA NumbersRemain ==
  ASSUME Kicked!NumbersBuildOn, Kicked!TwiceOnlyAtFirst, UNCHANGED numbers, ~rivals' => ~rivals
  PROVE  Kicked!NumbersBuildOn' /\ Kicked!TwiceOnlyAtFirst'
<1>1. CASE rivals'
  BY <1>1 DEF Kicked!NumbersBuildOn, Kicked!TwiceOnlyAtFirst
<1>2. CASE ~rivals'
  <2>1. ~rivals
    BY <1>2
  <2>2. Kicked!NumbersBuildOn'
    BY <2>1 DEF Kicked!NumbersBuildOn
  <2>3. ASSUME NEW k \in DOMAIN numbers', NEW p \in DOMAIN numbers'[k].counted,
               NEW m \in numbers'[k].counted[p].start \cap numbers'[k].counted[p].added
        PROVE  \E i \in DOMAIN numbers' : /\ numbers'[i].match = m /\ p \in DOMAIN numbers'[i].counted
                                         /\ numbers'[i].counted[p].added = {m}
    <3>1. /\ k \in DOMAIN numbers /\ p \in DOMAIN numbers[k].counted
          /\ m \in numbers[k].counted[p].start \cap numbers[k].counted[p].added
      OBVIOUS
    <3>2. PICK i \in DOMAIN numbers : numbers[i].match = m /\ p \in DOMAIN numbers[i].counted /\ numbers[i].counted[p].added = {m}
      BY <2>1, <3>1 DEF Kicked!TwiceOnlyAtFirst
    <3> QED
      BY <3>2
  <2>4. Kicked!TwiceOnlyAtFirst'
    BY <2>3 DEF Kicked!TwiceOnlyAtFirst
  <2> QED
    BY <2>2, <2>4
<1> QED
  BY <1>1, <1>2

(* A request begins.                                                       *)
LEMMA EditBegins ==
  ASSUME Kicked!KickerAssumption, KickerInv, NEW b \in Browsers, Kicked!edit_match(b)
  PROVE  KickerInv' /\ Kicked!Finalised
<1>1. PICK user \in Reporters, id \in DOMAIN matches \cup {None}, time \in 1 .. MaxDays, finished \in BOOLEAN :
      \E players \in Kicked!LineUpsFor(id) :
        /\ play[b] = None
        /\ id # None => Kicked!MayBeEdited(id, user)
        /\ finished => Kicked!IsRecent(time)
        /\ \E old \in IF finished /\ Kicked!MatchResult(players) # {} THEN Kicked!MatchResult(players) ELSE {None} :
              play' = [play EXCEPT ![b] = [user |-> user, id |-> id, old |-> old, match |->
                   [players |-> players, time |-> time, finished |-> finished, reporter |-> user]]]
        /\ rivals' = (rivals \/ Kicked!Busy # {} \/ (finished /\ \E i \in DOMAIN numbers : numbers[i].time = time))
        /\ hasty' = hasty \cup {u \in {user} : \E c \in Kicked!Busy : play[c].user = u}
        /\ UNCHANGED <<matches, numbers>>
  <2>1. PICK user \in Reporters, id \in DOMAIN matches \cup {None}, time \in 1 .. MaxDays, finished \in BOOLEAN :
        \E players \in Kicked!LineUpsFor(id) :
        LET twosome == players[1] = players[2]
        IN  /\ play[b] = None /\ Kicked!Ask
            /\ IF id = None THEN Len(matches) < MaxMatches ELSE Kicked!MayBeEdited(id, user)
            /\ twosome <=> players[3] = players[4]
            /\ ~(twosome /\ players[1] = players[3])
            /\ finished => Kicked!IsRecent(time)
            /\ \E old \in IF finished /\ Kicked!MatchResult(players) # {} THEN Kicked!MatchResult(players) ELSE {None} :
                  play' = [play EXCEPT ![b] = [user |-> user, id |-> id, old |-> old, match |->
                       [players |-> players, time |-> time, finished |-> finished, reporter |-> user]]]
            /\ rivals' = (rivals \/ Kicked!Busy # {} \/ (finished /\ \E i \in DOMAIN numbers : numbers[i].time = time))
            /\ hasty' = hasty \cup {u \in {user} : \E c \in Kicked!Busy : play[c].user = u}
            /\ UNCHANGED <<matches, numbers, stock>>
    BY Zenon DEF Kicked!edit_match
  <2> QED
    BY <2>1
<1>2. PICK players \in Kicked!LineUpsFor(id) :
        /\ play[b] = None
        /\ id # None => Kicked!MayBeEdited(id, user)
        /\ finished => Kicked!IsRecent(time)
        /\ \E old \in IF finished /\ Kicked!MatchResult(players) # {} THEN Kicked!MatchResult(players) ELSE {None} :
              play' = [play EXCEPT ![b] = [user |-> user, id |-> id, old |-> old, match |->
                   [players |-> players, time |-> time, finished |-> finished, reporter |-> user]]]
        /\ rivals' = (rivals \/ Kicked!Busy # {} \/ (finished /\ \E i \in DOMAIN numbers : numbers[i].time = time))
        /\ hasty' = hasty \cup {u \in {user} : \E c \in Kicked!Busy : play[c].user = u}
        /\ UNCHANGED <<matches, numbers>>
  BY <1>1
<1>20. /\ UNCHANGED <<matches, numbers>> /\ play[b] = None
       /\ id # None => Kicked!MayBeEdited(id, user)
       /\ rivals' = (rivals \/ Kicked!Busy # {} \/ (finished /\ \E i \in DOMAIN numbers : numbers[i].time = time))
  BY <1>2
<1>3. PICK old \in IF finished /\ Kicked!MatchResult(players) # {} THEN Kicked!MatchResult(players) ELSE {None} :
        play' = [play EXCEPT ![b] = [user |-> user, id |-> id, old |-> old, match |->
             [players |-> players, time |-> time, finished |-> finished, reporter |-> user]]]
  BY <1>2
<1> DEFINE match == [players |-> players, time |-> time, finished |-> finished, reporter |-> user]
           j == [user |-> user, id |-> id, old |-> old, match |-> match]
<1>4. players \in LineUps /\ (id # None => id \in DOMAIN matches /\ matches[id] # None)
  <2>1. id # None => id \in DOMAIN matches /\ matches[id] # None
    BY <1>2 DEF Kicked!MayBeEdited
  <2>2. \A i \in DOMAIN matches : matches[i] # None => matches[i] \in Kicked!Played
    BY DEF KickerInv, KickerTypes
  <2> QED
    BY <2>1, <2>2 DEF Kicked!Played, Kicked!LineUpsFor
<1>5. match \in Kicked!Played
  BY <1>4 DEF Kicked!Played
<1>6. old \in Results \cup {None} /\ (old # None => finished /\ old \in Kicked!MatchResult(players))
  BY <1>4, ResultTypes DEF KickerInv
<1>7. id \in Nat \cup {None}
  BY DEF KickerInv, KickerTypes
<1>8. j \in Desks /\ j.user = user /\ j.id = id /\ j.old = old /\ j.match = match
  BY <1>5, <1>6, <1>7 DEF Desks
<1>9. match.reporter = user /\ match.time = time /\ match.finished = finished /\ match.players = players
  OBVIOUS
<1> HIDE DEF j, match
<1>10. \A c \in Browsers : play'[c] = IF c = b THEN j ELSE play[c]
  BY <1>3 DEF KickerInv, KickerTypes, j, match
<1>11. b \notin Kicked!Busy /\ Kicked!Busy' \subseteq Kicked!Busy \cup {b} /\ Kicked!Busy \subseteq Kicked!Busy' /\ b \in Browsers
  BY <1>2, <1>10 DEF Kicked!Busy
<1>12. hasty \subseteq hasty' /\ hasty' \subseteq Reporters /\ (\A c \in Kicked!Busy : play[c].user = user => user \in hasty')
  BY <1>2 DEF KickerInv, KickerTypes
<1>13. KickerTypes'
  <2>1. play' \in [Browsers -> Desks \cup {None}]
    BY <1>3, <1>8 DEF KickerInv, KickerTypes, j, match
  <2>2. rivals' \in BOOLEAN
    BY <1>2
  <2> QED
    BY <1>2, <1>12, <2>1, <2>2 DEF KickerInv, KickerTypes
<1>14. DesksInOrder'
  <2>1. ASSUME NEW c \in Kicked!Busy', c # b
        PROVE  c \in Kicked!Busy /\ play'[c] = play[c]
    BY <1>10, <1>11, <2>1 DEF Kicked!Busy
  <2>2. play'[b] = j
    BY <1>10
  <2>3. ASSUME NEW c \in Kicked!Busy
        PROVE  /\ user = play[c].user => user \in hasty'
               /\ id # None /\ id = play[c].id => user = play[c].user
    BY <1>2, <1>4, <1>12 DEF KickerInv, DesksInOrder, Kicked!MayBeEdited
  <2>4. ASSUME NEW c \in Kicked!Busy'
        PROVE  /\ play'[c].match.reporter = play'[c].user
               /\ play'[c].id # None =>
                    /\ play'[c].id \in DOMAIN matches'
                    /\ matches'[play'[c].id] # None => matches'[play'[c].id].reporter = play'[c].user
                    /\ play'[c].user \notin hasty' => Kicked!MayBeEdited(play'[c].id, play'[c].user)
               /\ \A d \in Kicked!Busy' \ {c} :
                    /\ play'[c].user = play'[d].user => play'[c].user \in hasty'
                    /\ play'[c].id # None /\ play'[c].id = play'[d].id => play'[c].user = play'[d].user
    <3>1. CASE c = b
      <4>1. play'[c] = j
        BY <2>2, <3>1
      <4>2. \A d \in Kicked!Busy' \ {c} : d \in Kicked!Busy /\ play'[d] = play[d]
        BY <2>1, <3>1
      <4> QED
        BY <1>20, <1>4, <1>8, <1>9, <2>3, <4>1, <4>2 DEF Kicked!MayBeEdited
    <3>2. CASE c # b
      <4>1. c \in Kicked!Busy /\ play'[c] = play[c]
        BY <2>1, <3>2
      <4>2. \A d \in Kicked!Busy' \ {c} : \/ d = b /\ play'[d] = j
                                          \/ d \in Kicked!Busy \ {c} /\ play'[d] = play[d]
        BY <2>1, <2>2
      <4> QED
        BY <1>20, <1>8, <1>12, <2>3, <4>1, <4>2 DEF KickerInv, DesksInOrder, Kicked!MayBeEdited
    <3> QED
      BY <3>1, <3>2
  <2> QED
    BY <1>20, <2>4 DEF DesksInOrder, Kicked!MayBeEdited
<1>15. Kicked!OneOpenMatch'
  BY <1>2, <1>12 DEF KickerInv, Kicked!OneOpenMatch
<1>16. ASSUME ~rivals'
       PROVE  /\ ~rivals /\ Kicked!Busy = {} /\ Orderly
              /\ finished => \A i \in DOMAIN numbers : numbers[i].time < time
  <2>1. ~rivals /\ Kicked!Busy = {} /\ (finished => \A i \in DOMAIN numbers : numbers[i].time # time)
    BY <1>2, <1>16
  <2>2. \A i \in DOMAIN numbers : numbers[i].time \in Nat
    <3>1. \A i \in DOMAIN numbers : numbers[i] \in Batches
      BY DEF KickerInv, KickerTypes
    <3> QED
      BY <3>1 DEF Batches
  <2>3. time \in Nat
    OBVIOUS
  <2> QED
    BY <1>2, <2>1, <2>2, <2>3 DEF Kicked!IsRecent, KickerInv
<1>17. Kicked!NumbersBuildOn' /\ Kicked!TwiceOnlyAtFirst'
  BY <1>20, <1>16, NumbersRemain DEF KickerInv
<1>18. ASSUME ~rivals'
       PROVE  Orderly'
  <2>1. Kicked!Finished' = Kicked!Finished
    BY <1>2 DEF Kicked!Finished
  <2>2. Kicked!MatchResult(players)' = Kicked!MatchResult(players)
    <3>1. \A p : Kicked!get_current_kicker_number(p)' = Kicked!get_current_kicker_number(p)
      BY <1>20 DEF Kicked!get_current_kicker_number
    <3>2. \A p, own : Kicked!get_current_kicker_number_or_estimate(p, own)' = Kicked!get_current_kicker_number_or_estimate(p, own)
      BY <1>20, <2>1, <3>1 DEF Kicked!get_current_kicker_number_or_estimate
    <3> QED
      BY <3>2 DEF Kicked!MatchResult
  <2>3. ASSUME NEW c \in Kicked!Busy'
        PROVE  HasSeenAll(c)'
    <3>1. c = b /\ Kicked!Busy' = {b} /\ play'[c] = j
      BY <1>10, <1>11, <1>16, <1>18
    <3>2. Kicked!Busy' = {c}
      BY <3>1
    <3>3. play'[c].id # None => Kicked!MayBeEdited(play'[c].id, play'[c].user)
      BY <1>20, <1>8, <3>1 DEF Kicked!MayBeEdited
    <3>4. play'[c].old # None =>
            /\ play'[c].match.finished
            /\ play'[c].match.players = players /\ play'[c].old \in Kicked!MatchResult(players)'
            /\ \A i \in DOMAIN numbers' : numbers'[i].time < play'[c].match.time
      BY <1>20, <1>6, <1>8, <1>9, <1>16, <1>18, <2>2, <3>1
    <3> QED
      BY <1>20, <3>2, <3>3, <3>4 DEF HasSeenAll, Kicked!MayBeEdited
  <2> QED
    BY <1>2, <1>16, <1>18, <2>1, <2>3 DEF Orderly
<1>19. Kicked!Finalised
  <2>1. DOMAIN numbers \subseteq Nat
    BY DEF KickerInv, KickerTypes
  <2>2. \A i, k \in DOMAIN numbers : i < k => i # k
    BY <2>1
  <2> QED
    BY <1>20, <1>16, <2>2 DEF Kicked!Finalised, Orderly
<1> QED
  BY <1>13, <1>14, <1>15, <1>17, <1>18, <1>19 DEF KickerInv

(* A match is withdrawn or expires, and nothing else happens.              *)
LEMMA MatchesGo ==
  ASSUME Kicked!KickerAssumption, KickerInv, NEW gone \in SUBSET DOMAIN matches, \A id \in gone : id \notin Kicked!Finished,
         matches' = [id \in DOMAIN matches |-> IF id \in gone THEN None ELSE matches[id]],
         rivals' = (rivals \/ Kicked!Busy # {}), hasty \subseteq hasty', hasty' \subseteq Reporters,
         \A b \in Kicked!Busy : \A id \in gone : play[b].id = id => play[b].user \in hasty',
         UNCHANGED <<numbers, play>>
  PROVE  KickerInv' /\ Kicked!Finalised
<1>1. /\ matches \in Seq(Kicked!Played \cup {None}) /\ DOMAIN matches = 1 .. Len(matches) /\ Len(matches) \in Nat
      /\ DOMAIN numbers \subseteq Nat
  BY DEF KickerInv, KickerTypes
<1>2. DOMAIN matches' = DOMAIN matches /\ \A id \in DOMAIN matches : matches'[id] = IF id \in gone THEN None ELSE matches[id]
  OBVIOUS
<1>3. KickerTypes'
  <2>1. \A id \in DOMAIN matches : matches[id] \in Kicked!Played \cup {None}
    BY <1>1
  <2>2. matches' \in [1 .. Len(matches) -> Kicked!Played \cup {None}]
    BY <1>1, <2>1
  <2>3. matches' \in Seq(Kicked!Played \cup {None})
    BY <1>1, <2>2
  <2> QED
    BY <2>3 DEF KickerInv, KickerTypes
<1>4. Kicked!Busy' = Kicked!Busy
  BY DEF Kicked!Busy
<1>5. DesksInOrder'
  BY <1>2, <1>4 DEF KickerInv, DesksInOrder, Kicked!MayBeEdited
<1>6. Kicked!OneOpenMatch'
  BY <1>2 DEF KickerInv, Kicked!OneOpenMatch
<1>7. Kicked!Finished' = Kicked!Finished /\ \A id \in Kicked!Finished : matches'[id] = matches[id]
  BY <1>2 DEF Kicked!Finished
<1>9. ~rivals' => ~rivals /\ Kicked!Busy = {} /\ Orderly
  BY DEF KickerInv
<1>8. Kicked!NumbersBuildOn' /\ Kicked!TwiceOnlyAtFirst'
  BY <1>9, NumbersRemain DEF KickerInv
<1>10. ~rivals' => Orderly'
  BY <1>4, <1>7, <1>9 DEF Orderly
<1>11. Kicked!Finalised
  <2>1. \A i, k \in DOMAIN numbers : i < k => i # k
    BY <1>1
  <2> QED
    BY <1>7, <1>9, <2>1 DEF Kicked!Finalised, Orderly
<1> QED
  BY <1>3, <1>5, <1>6, <1>8, <1>10, <1>11 DEF KickerInv

LEMMA CancelKeeps ==
  ASSUME Kicked!KickerAssumption, KickerInv, Kicked!cancel_match
  PROVE  KickerInv' /\ Kicked!Finalised
<1>1. PICK user \in Reporters, id \in DOMAIN matches :
        /\ Kicked!MayBeEdited(id, user)
        /\ matches' = [matches EXCEPT ![id] = None]
        /\ rivals' = (rivals \/ Kicked!Busy # {})
        /\ hasty' = hasty \cup {u \in {user} : \E c \in Kicked!Busy : play[c].user = u}
        /\ UNCHANGED <<numbers, play>>
  BY DEF Kicked!cancel_match
<1>2. matches' = [i \in DOMAIN matches |-> IF i \in {id} THEN None ELSE matches[i]]
  BY <1>1
<1>3. hasty \subseteq hasty' /\ hasty' \subseteq Reporters
  BY <1>1 DEF KickerInv, KickerTypes
<1>4. id \notin Kicked!Finished
  BY <1>1 DEF Kicked!Finished, Kicked!MayBeEdited
<1>5. \A b \in Kicked!Busy : play[b].id = id => play[b].user \in hasty'
  <2> SUFFICES ASSUME NEW b \in Kicked!Busy, play[b].id = id
               PROVE  play[b].user \in hasty'
    OBVIOUS
  <2>1. id # None
    BY DEF KickerInv, KickerTypes, Kicked!KickerAssumption
  <2>2. play[b].user = user
    BY <1>1, <2>1 DEF KickerInv, DesksInOrder, Kicked!MayBeEdited
  <2> QED
    BY <1>1, <2>2
<1> QED
  <2> DEFINE gone == {id}
  <2>1. gone \in SUBSET DOMAIN matches /\ (\A i \in gone : i \notin Kicked!Finished)
    BY <1>4
  <2>2. matches' = [i \in DOMAIN matches |-> IF i \in gone THEN None ELSE matches[i]]
    BY <1>2
  <2>3. \A b \in Kicked!Busy : \A i \in gone : play[b].id = i => play[b].user \in hasty'
    BY <1>5
  <2>4. rivals' = (rivals \/ Kicked!Busy # {}) /\ UNCHANGED <<numbers, play>>
    BY <1>1
  <2> HIDE DEF gone
  <2> QED
    BY <1>3, <2>1, <2>2, <2>3, <2>4, MatchesGo

LEMMA ExpireKeeps ==
  ASSUME Kicked!KickerAssumption, KickerInv, Kicked!expire_matches
  PROVE  KickerInv' /\ Kicked!Finalised
<1>1. PICK day \in 1 .. MaxDays :
        LET old == {id \in DOMAIN matches : matches[id] # None /\ ~matches[id].finished /\ matches[id].time < day}
        IN  /\ matches' = [id \in DOMAIN matches |-> IF id \in old THEN None ELSE matches[id]]
            /\ rivals' = (rivals \/ Kicked!Busy # {})
            /\ hasty' = hasty \cup {play[c].user : c \in Kicked!Busy}
            /\ UNCHANGED <<numbers, play>>
  BY DEF Kicked!expire_matches
<1> DEFINE old == {id \in DOMAIN matches : matches[id] # None /\ ~matches[id].finished /\ matches[id].time < day}
<1>2. old \in SUBSET DOMAIN matches /\ \A id \in old : id \notin Kicked!Finished
  BY DEF Kicked!Finished
<1>3. hasty \subseteq hasty' /\ hasty' \subseteq Reporters /\ \A b \in Kicked!Busy : play[b].user \in hasty'
  <2>1. \A c \in Kicked!Busy : play[c].user \in Reporters
    <3>1. \A c \in Kicked!Busy : play[c] \in Desks
      BY DEF Kicked!Busy, KickerInv, KickerTypes
    <3> QED
      BY <3>1 DEF Desks
  <2> QED
    BY <1>1, <2>1 DEF KickerInv, KickerTypes
<1>4. /\ matches' = [id \in DOMAIN matches |-> IF id \in old THEN None ELSE matches[id]]
      /\ rivals' = (rivals \/ Kicked!Busy # {})
      /\ UNCHANGED <<numbers, play>>
  BY <1>1
<1> HIDE DEF old
<1> QED
  BY <1>2, <1>3, <1>4, MatchesGo

(* Numbers get another batch.                                              *)
LEMMA Appended ==
  ASSUME NEW S, NEW s \in Seq(S), NEW e \in S
  PROVE  /\ Append(s, e) \in Seq(S) /\ Len(s) \in Nat /\ DOMAIN s = 1 .. Len(s)
         /\ DOMAIN Append(s, e) = DOMAIN s \cup {Len(s) + 1} /\ Len(s) + 1 \notin DOMAIN s
         /\ \A i \in DOMAIN s : Append(s, e)[i] = s[i]
         /\ Append(s, e)[Len(s) + 1] = e
<1>1. Append(s, e) \in Seq(S) /\ Len(Append(s, e)) = Len(s) + 1 /\ Len(s) \in Nat
  OBVIOUS
<1>2. DOMAIN Append(s, e) = 1 .. Len(s) + 1 /\ DOMAIN s = 1 .. Len(s)
  BY <1>1
<1>3. 1 .. Len(s) + 1 = (1 .. Len(s)) \cup {Len(s) + 1}
  BY <1>1
<1> QED
  BY <1>1, <1>2, <1>3

LEMMA StartKeeps ==
  ASSUME Kicked!KickerAssumption, KickerInv, Kicked!set_start_kicker_number
  PROVE  KickerInv' /\ Kicked!Finalised
<1>1. PICK player \in Kicked!Players, time \in 1 .. MaxDays :
        /\ Kicked!get_current_kicker_number(player) = {}
        /\ numbers' = Append(numbers, Kicked!Batch(None, time, [p \in {player} |-> Kicked!Given]))
        /\ rivals' = (rivals \/ Kicked!Busy # {})
        /\ UNCHANGED <<matches, stock, play, hasty>>
  BY DEF Kicked!set_start_kicker_number
<1> DEFINE first == Kicked!Batch(None, time, [p \in {player} |-> Kicked!Given])
           n == Len(numbers) + 1
<1>2. first \in Batches /\ first.match = None /\ DOMAIN first.counted = {player} /\ first.counted[player] = Kicked!Given /\ first.time = time
  <2>1. [p \in {player} |-> Kicked!Given] \in Counts
    <3>1. {player} \in SUBSET (Kicked!Players \cup Veterans)
      OBVIOUS
    <3>2. [p \in {player} |-> Kicked!Given] \in [{player} -> KickerNumber]
      BY DEF Kicked!Given, KickerNumber
    <3> QED
      BY <3>1, <3>2 DEF Counts
  <2>2. time \in 0 .. MaxDays
    BY DEF Kicked!KickerAssumption
  <2> QED
    BY <2>1, <2>2 DEF Kicked!Batch, Batches
<1> HIDE DEF first
<1>3. /\ numbers' \in Seq(Batches) /\ DOMAIN numbers' = DOMAIN numbers \cup {n} /\ n \notin DOMAIN numbers
      /\ \A i \in DOMAIN numbers : numbers'[i] = numbers[i]
      /\ numbers'[n] = first
      /\ DOMAIN numbers' \subseteq Nat
  <2>1. numbers \in Seq(Batches) /\ numbers' = Append(numbers, first)
    BY <1>1 DEF KickerInv, KickerTypes, first
  <2> HIDE DEF n
  <2>2. numbers' \in Seq(Batches)
    BY <1>2, <2>1, Appended
  <2>3. DOMAIN numbers' \subseteq Nat
    BY <2>2
  <2> QED
    BY <1>2, <2>1, <2>2, <2>3, Appended DEF n
<1> HIDE DEF n
<1>4. \A i \in DOMAIN numbers : player \notin DOMAIN numbers[i].counted
  BY <1>1, LatestNumber DEF KickerInv
<1>5. KickerTypes' /\ DesksInOrder' /\ Kicked!OneOpenMatch' /\ Kicked!Busy' = Kicked!Busy
  BY <1>1, <1>3 DEF KickerInv, KickerTypes, DesksInOrder, Kicked!OneOpenMatch, Kicked!Busy, Kicked!MayBeEdited
<1>6. Kicked!NumbersBuildOn'
  <2> SUFFICES ASSUME ~rivals', NEW i \in DOMAIN numbers', NEW k \in DOMAIN numbers',
                      \/ numbers'[i].time < numbers'[k].time
                      \/ numbers'[i].time = numbers'[k].time /\ i < k,
                      NEW p \in DOMAIN numbers'[i].counted \cap DOMAIN numbers'[k].counted
               PROVE  BuildsOn(numbers'[k].counted[p], numbers'[i].counted[p])
    BY DEF Kicked!NumbersBuildOn, BuildsOn
  <2>1. ~rivals
    BY <1>1
  <2>2. CASE i \in DOMAIN numbers /\ k \in DOMAIN numbers
    BY <1>3, <2>1, <2>2 DEF KickerInv, Kicked!NumbersBuildOn, BuildsOn
  <2>3. CASE i = n /\ k \in DOMAIN numbers
    BY <1>2, <1>3, <1>4, <2>3
  <2>5. CASE i = n /\ k = n
    BY <2>5 DEF BuildsOn
  <2>4. CASE i \in DOMAIN numbers /\ k = n
    BY <1>2, <1>3, <1>4, <2>4
  <2> QED
    BY <1>3, <2>2, <2>3, <2>4, <2>5
<1>11. Kicked!TwiceOnlyAtFirst'
  <2> SUFFICES ASSUME ~rivals', NEW k \in DOMAIN numbers', NEW p \in DOMAIN numbers'[k].counted,
                      NEW m \in numbers'[k].counted[p].start \cap numbers'[k].counted[p].added
               PROVE  \E i \in DOMAIN numbers' : /\ numbers'[i].match = m /\ p \in DOMAIN numbers'[i].counted
                                                /\ numbers'[i].counted[p].added = {m}
    BY DEF Kicked!TwiceOnlyAtFirst
  <2>1. ~rivals
    BY <1>1
  <2>2. k # n
    BY <1>2, <1>3 DEF Kicked!Given
  <2>3. k \in DOMAIN numbers /\ numbers'[k] = numbers[k]
    BY <1>3, <2>2
  <2>4. PICK i \in DOMAIN numbers : numbers[i].match = m /\ p \in DOMAIN numbers[i].counted /\ numbers[i].counted[p].added = {m}
    BY <2>1, <2>3 DEF KickerInv, Kicked!TwiceOnlyAtFirst
  <2> QED
    BY <1>3, <2>4
<1>7. ~rivals' => ~rivals /\ Kicked!Busy = {} /\ Orderly
  BY <1>1 DEF KickerInv
<1>8. Kicked!Finished' = Kicked!Finished
  BY <1>1 DEF Kicked!Finished
<1>9. ASSUME ~rivals'
      PROVE  Orderly'
  <2>1. ASSUME NEW i \in DOMAIN numbers', NEW k \in DOMAIN numbers', i # k
        PROVE  /\ numbers'[i].match # numbers'[k].match \/ numbers'[i].match = None
               /\ DOMAIN numbers'[i].counted \cap DOMAIN numbers'[k].counted = {} \/ numbers'[i].time # numbers'[k].time
    <3>1. CASE i \in DOMAIN numbers /\ k \in DOMAIN numbers
      BY <1>3, <1>7, <1>9, <2>1, <3>1 DEF Orderly
    <3>2. CASE i = n /\ k \in DOMAIN numbers
      BY <1>2, <1>3, <1>4, <3>2
    <3>3. CASE k = n /\ i \in DOMAIN numbers
      <4>1. numbers'[i].match # None => numbers'[i].match # numbers'[k].match
        BY <1>2, <1>3, <3>3
      <4> QED
        BY <1>2, <1>3, <1>4, <3>3, <4>1
    <3> QED
      BY <1>3, <2>1, <3>1, <3>2, <3>3
  <2>2. \A i \in DOMAIN numbers' : numbers'[i].match # None => numbers'[i].match \in Kicked!Finished
    BY <1>2, <1>3, <1>7, <1>9 DEF Orderly
  <2>3. Kicked!Busy' = {}
    BY <1>5, <1>7, <1>9
  <2>4. ASSUME NEW i \in DOMAIN numbers', NEW p \in DOMAIN numbers'[i].counted
        PROVE  numbers'[i].counted[p].start \subseteq Kicked!Finished
    <3>1. CASE i \in DOMAIN numbers
      BY <1>3, <1>7, <1>9, <3>1 DEF Orderly
    <3>2. CASE i = n
      BY <1>2, <1>3, <3>2 DEF Kicked!Given
    <3> QED
      BY <1>3, <3>1, <3>2
  <2> QED
    BY <1>8, <2>1, <2>2, <2>3, <2>4 DEF Orderly
<1>10. Kicked!Finalised
  <2>1. \A i, k \in DOMAIN numbers' : i < k => i # k
    BY <1>3
  <2> QED
    BY <1>1, <1>9, <2>1 DEF Kicked!Finalised, Orderly
<1> QED
  BY <1>5, <1>6, <1>9, <1>10, <1>11 DEF KickerInv

(* What the second step of a request makes of the matches: its own match   *)
(* has its place, and open matches of the same reporter are given up for a *)
(* new one.                                                                *)
Place(b) == IF play[b].id = None THEN Len(matches) + 1 ELSE play[b].id
GivenUp(b) == IF play[b].id = None THEN Kicked!Abandoned(play[b].user) ELSE {}

LEMMA SavedPlaces ==
  ASSUME Kicked!KickerAssumption, KickerInv, NEW b \in Kicked!Busy, matches' = Kicked!Saved(b)
  PROVE  /\ matches' \in Seq(Kicked!Played \cup {None})
         /\ Place(b) \in Nat /\ DOMAIN matches' = DOMAIN matches \cup {Place(b)}
         /\ matches'[Place(b)] = play[b].match
         /\ \A i \in DOMAIN matches \ {Place(b)} : matches'[i] = IF i \in GivenUp(b) THEN None ELSE matches[i]
         /\ play[b].id = None => Place(b) \notin DOMAIN matches
<1> DEFINE rest == [i \in DOMAIN matches |-> IF i \in Kicked!Abandoned(play[b].user) THEN None ELSE matches[i]]
<1>1. matches \in Seq(Kicked!Played \cup {None}) /\ Len(matches) \in Nat /\ DOMAIN matches = 1 .. Len(matches)
  BY DEF KickerInv, KickerTypes
<1>2. play[b].match \in Kicked!Played \cup {None}
  <2>1. play[b] \in Desks
    BY DEF KickerInv, KickerTypes, Kicked!Busy
  <2> QED
    BY <2>1 DEF Desks
<1>3. CASE play[b].id = None
  <2>1. rest \in Seq(Kicked!Played \cup {None}) /\ Len(rest) = Len(matches)
    <3>1. \A i \in DOMAIN matches : matches[i] \in Kicked!Played \cup {None}
      BY <1>1
    <3>2. rest \in [1 .. Len(matches) -> Kicked!Played \cup {None}]
      BY <1>1, <3>1
    <3> HIDE DEF rest
    <3> QED
      BY <1>1, <3>2
  <2>2. matches' = Append(rest, play[b].match)
    BY <1>3 DEF Kicked!Saved
  <2>3. \A i \in DOMAIN matches : rest[i] = IF i \in Kicked!Abandoned(play[b].user) THEN None ELSE matches[i]
    OBVIOUS
  <2> HIDE DEF rest
  <2>4. /\ matches' \in Seq(Kicked!Played \cup {None}) /\ DOMAIN rest = 1 .. Len(rest)
        /\ DOMAIN matches' = DOMAIN rest \cup {Len(rest) + 1} /\ Len(rest) + 1 \notin DOMAIN rest
        /\ \A i \in DOMAIN rest : matches'[i] = rest[i]
        /\ matches'[Len(rest) + 1] = play[b].match
    BY <1>2, <2>1, <2>2, Appended
  <2>5. Place(b) = Len(rest) + 1 /\ GivenUp(b) = Kicked!Abandoned(play[b].user) /\ DOMAIN rest = DOMAIN matches
    BY <1>1, <1>3, <2>1, <2>4 DEF Place, GivenUp
  <2> QED
    BY <1>1, <2>3, <2>4, <2>5
<1>4. CASE play[b].id # None
  <2>1. Place(b) \in DOMAIN matches /\ GivenUp(b) = {} /\ Place(b) = play[b].id
    BY <1>4 DEF KickerInv, DesksInOrder, Place, GivenUp
  <2>2. matches' = [matches EXCEPT ![Place(b)] = play[b].match]
    BY <1>4, <2>1 DEF Kicked!Saved
  <2>3. matches' \in Seq(Kicked!Played \cup {None})
    BY <1>1, <1>2, <2>1, <2>2
  <2> QED
    BY <1>1, <1>4, <2>1, <2>2, <2>3
<1> QED
  BY <1>3, <1>4

LEMMA SavedInOrder ==
  ASSUME Kicked!KickerAssumption, KickerInv, NEW b \in Kicked!Busy, matches' = Kicked!Saved(b), play' = [play EXCEPT ![b] = None], UNCHANGED hasty
  PROVE  /\ Kicked!Busy' = Kicked!Busy \ {b} /\ (\A c \in Kicked!Busy' : play'[c] = play[c])
         /\ DesksInOrder' /\ Kicked!OneOpenMatch'
<1>1. Kicked!Busy' = Kicked!Busy \ {b} /\ \A c \in Kicked!Busy' : play'[c] = play[c]
  BY DEF Kicked!Busy, KickerInv, KickerTypes
<1> DEFINE k == Place(b)
           user == play[b].user
<1>2. /\ k \in Nat /\ DOMAIN matches' = DOMAIN matches \cup {k} /\ matches'[k] = play[b].match
      /\ \A i \in DOMAIN matches \ {k} : matches'[i] = IF i \in GivenUp(b) THEN None ELSE matches[i]
      /\ play[b].id = None => k \notin DOMAIN matches
      /\ play[b].id # None => k = play[b].id
  BY SavedPlaces DEF Place
<1>3. play[b].match.reporter = user
  BY DEF KickerInv, DesksInOrder
<1>4. \A i \in GivenUp(b) : play[b].id = None /\ matches[i] # None /\ ~matches[i].finished /\ matches[i].reporter = user
  BY DEF GivenUp, Kicked!Abandoned
<1> HIDE DEF k, user
<1>5. ASSUME NEW c \in Kicked!Busy \ {b}
      PROVE  /\ play[c].id # None => play[c].id \in DOMAIN matches'
             /\ play[c].id # None /\ matches'[play[c].id] # None => matches'[play[c].id].reporter = play[c].user
             /\ play[c].id # None /\ play[c].user \notin hasty => matches'[play[c].id] = matches[play[c].id]
  <2> SUFFICES ASSUME play[c].id # None
               PROVE  /\ play[c].id \in DOMAIN matches'
                      /\ matches'[play[c].id] # None => matches'[play[c].id].reporter = play[c].user
                      /\ play[c].user \notin hasty => matches'[play[c].id] = matches[play[c].id]
    OBVIOUS
  <2>1. /\ play[c].id \in DOMAIN matches
        /\ matches[play[c].id] # None => matches[play[c].id].reporter = play[c].user
    BY DEF KickerInv, DesksInOrder
  <2>2. user = play[c].user => play[c].user \in hasty
    BY DEF KickerInv, DesksInOrder, user
  <2>3. CASE play[c].id = k
    <3>1. play[b].id # None /\ play[b].id = play[c].id
      BY <1>2, <2>1, <2>3
    <3>2. user = play[c].user
      BY <3>1 DEF KickerInv, DesksInOrder, user
    <3> QED
      BY <1>2, <1>3, <2>1, <2>2, <2>3, <3>2
  <2>4. CASE play[c].id # k
    <3>1. matches'[play[c].id] = IF play[c].id \in GivenUp(b) THEN None ELSE matches[play[c].id]
      BY <1>2, <2>1, <2>4
    <3>2. play[c].id \in GivenUp(b) => play[c].user = user
      BY <1>4, <2>1
    <3> QED
      BY <1>2, <2>1, <2>2, <3>1, <3>2
  <2> QED
    BY <2>3, <2>4
<1>6. DesksInOrder'
  <2>1. ASSUME NEW c \in Kicked!Busy', play'[c].id # None
        PROVE  /\ play'[c].id \in DOMAIN matches'
               /\ matches'[play'[c].id] # None => matches'[play'[c].id].reporter = play'[c].user
               /\ play'[c].user \notin hasty' =>
                    /\ matches'[play'[c].id] # None /\ matches'[play'[c].id].reporter = play'[c].user
                    /\ ~matches'[play'[c].id].finished
    <3>1. c \in Kicked!Busy \ {b} /\ play'[c] = play[c]
      BY <1>1
    <3>2. play[c].user \notin hasty => Kicked!MayBeEdited(play[c].id, play[c].user)
      BY <2>1, <3>1 DEF KickerInv, DesksInOrder
    <3> QED
      BY <1>5, <2>1, <3>1, <3>2 DEF Kicked!MayBeEdited
  <2>2. ASSUME NEW c \in Kicked!Busy', NEW d \in Kicked!Busy' \ {c}
        PROVE  /\ play'[c].match.reporter = play'[c].user
               /\ play'[c].user = play'[d].user => play'[c].user \in hasty'
               /\ play'[c].id # None /\ play'[c].id = play'[d].id => play'[c].user = play'[d].user
    BY <1>1 DEF KickerInv, DesksInOrder
  <2>3. \A c \in Kicked!Busy' : play'[c].match.reporter = play'[c].user
    BY <1>1 DEF KickerInv, DesksInOrder
  <2> QED
    BY <2>1, <2>2, <2>3 DEF DesksInOrder, Kicked!MayBeEdited
<1>7. Kicked!OneOpenMatch'
  <2> SUFFICES ASSUME NEW i \in DOMAIN matches', NEW l \in DOMAIN matches', matches'[i] # None, matches'[l] # None, i # l,
                      ~matches'[i].finished, ~matches'[l].finished, matches'[i].reporter = matches'[l].reporter
               PROVE  matches'[i].reporter \in hasty
    BY DEF Kicked!OneOpenMatch
  <2>1. ASSUME NEW x \in DOMAIN matches' \ {k}, matches'[x] # None
        PROVE  x \in DOMAIN matches /\ x \notin GivenUp(b) /\ matches'[x] = matches[x]
    BY <1>2, <2>1
  <2>2. ASSUME NEW x \in DOMAIN matches' \ {k}, matches'[x] # None, ~matches'[x].finished, matches'[x].reporter = user,
               user \notin hasty
        PROVE  FALSE
    <3>1. x \in DOMAIN matches /\ x \notin GivenUp(b) /\ matches'[x] = matches[x]
      BY <2>1, <2>2
    <3>2. CASE play[b].id = None
      BY <2>2, <3>1, <3>2 DEF GivenUp, Kicked!Abandoned, user
    <3>3. CASE play[b].id # None
      <4>1. Kicked!MayBeEdited(k, user) /\ k \in DOMAIN matches
        BY <1>2, <2>2, <3>3 DEF KickerInv, DesksInOrder, user
      <4> QED
        BY <2>2, <3>1, <4>1 DEF KickerInv, Kicked!OneOpenMatch, Kicked!MayBeEdited
    <3> QED
      BY <3>2, <3>3
  <2>3. CASE i = k \/ l = k
    BY <1>2, <1>3, <2>2, <2>3
  <2>4. CASE i # k /\ l # k
    BY <2>1, <2>4 DEF KickerInv, Kicked!OneOpenMatch
  <2> QED
    BY <2>3, <2>4
<1> QED
  BY <1>1, <1>6, <1>7

(* The only request gives up and changes open matches only, and the place  *)
(* it writes to has not been counted.                                      *)
LEMMA SavedKeepsFinished ==
  ASSUME Kicked!KickerAssumption, KickerInv, ~rivals, NEW b \in Kicked!Busy, matches' = Kicked!Saved(b)
  PROVE  /\ Kicked!Finished \subseteq Kicked!Finished' /\ (\A id \in Kicked!Finished : matches'[id] = matches[id])
         /\ Place(b) \notin Kicked!Finished /\ (play[b].match.finished => Place(b) \in Kicked!Finished')
<1> DEFINE k == Place(b)
<1>1. /\ DOMAIN matches' = DOMAIN matches \cup {k} /\ matches'[k] = play[b].match
      /\ \A i \in DOMAIN matches \ {k} : matches'[i] = IF i \in GivenUp(b) THEN None ELSE matches[i]
      /\ play[b].id = None => k \notin DOMAIN matches
      /\ play[b].id # None => k = play[b].id
  BY SavedPlaces DEF Place
<1>2. play[b].match # None
  <2>1. play[b] \in Desks
    BY DEF KickerInv, KickerTypes, Kicked!Busy
  <2> QED
    BY <2>1 DEF Desks, Kicked!KickerAssumption
<1> HIDE DEF k
<1>3. k \notin Kicked!Finished
  <2>1. play[b].id # None => Kicked!MayBeEdited(k, play[b].user)
    BY <1>1 DEF KickerInv, Orderly, HasSeenAll
  <2> QED
    BY <1>1, <2>1 DEF Kicked!Finished, Kicked!MayBeEdited
<1>4. \A i \in GivenUp(b) : i \notin Kicked!Finished
  BY DEF GivenUp, Kicked!Abandoned, Kicked!Finished
<1>5. \A id \in Kicked!Finished : id \in DOMAIN matches' /\ matches'[id] = matches[id] /\ matches[id] # None /\ matches[id].finished
  BY <1>1, <1>3, <1>4 DEF Kicked!Finished
<1>6. Kicked!Finished \subseteq Kicked!Finished'
  BY <1>5 DEF Kicked!Finished
<1>7. play[b].match.finished => k \in Kicked!Finished'
  BY <1>1, <1>2 DEF Kicked!Finished
<1> QED
  BY <1>3, <1>5, <1>6, <1>7 DEF k

LEMMA SaveKeeps ==
  ASSUME Kicked!KickerAssumption, KickerInv, NEW b \in Browsers, Kicked!save_match(b)
  PROVE  KickerInv' /\ Kicked!Finalised
<1>1. b \in Kicked!Busy /\ play' = [play EXCEPT ![b] = None] /\ UNCHANGED <<rivals, hasty>>
  BY DEF Kicked!save_match, Kicked!Busy
<1>2. /\ play[b] \in Desks /\ rivals \in BOOLEAN
      /\ numbers \in Seq(Batches) /\ DOMAIN numbers \subseteq Nat
  BY <1>1 DEF KickerInv, KickerTypes, Kicked!Busy
<1>3. play' \in [Browsers -> Desks \cup {None}]
  BY <1>1 DEF KickerInv, KickerTypes
<1>4. ASSUME ~rivals
      PROVE  Orderly /\ HasSeenAll(b) /\ Kicked!Busy \ {b} = {}
  BY <1>1, <1>4 DEF KickerInv, Orderly, HasSeenAll
<1>5. CASE UNCHANGED <<matches, numbers, stock>>
  <2>1. Kicked!Busy' = Kicked!Busy \ {b} /\ \A c \in Kicked!Busy' : play'[c] = play[c]
    BY <1>1 DEF Kicked!Busy, KickerInv, KickerTypes
  <2>2. KickerTypes' /\ Kicked!OneOpenMatch'
    BY <1>1, <1>3, <1>5 DEF KickerInv, KickerTypes, Kicked!OneOpenMatch
  <2>3. DesksInOrder'
    BY <1>1, <1>5, <2>1 DEF KickerInv, DesksInOrder, Kicked!MayBeEdited
  <2>4. Kicked!NumbersBuildOn' /\ Kicked!TwiceOnlyAtFirst'
    BY <1>1, <1>5, NumbersRemain DEF KickerInv
  <2>5. Kicked!Finished' = Kicked!Finished
    BY <1>5 DEF Kicked!Finished
  <2>6. ~rivals => Orderly'
    BY <1>4, <1>5, <2>1, <2>5 DEF Orderly
  <2>7. Kicked!Finalised
    <3>1. \A i, k \in DOMAIN numbers : i < k => i # k
      BY <1>2
    <3> QED
      BY <1>1, <1>4, <1>5, <3>1 DEF Kicked!Finalised, Orderly
  <2> QED
    BY <1>1, <2>2, <2>3, <2>4, <2>6, <2>7 DEF KickerInv
<1>6. CASE matches' = Kicked!Saved(b) /\ UNCHANGED <<numbers, stock>>
  <2>1. Kicked!Busy' = Kicked!Busy \ {b} /\ DesksInOrder' /\ Kicked!OneOpenMatch'
    BY <1>1, <1>6, SavedInOrder
  <2>2. KickerTypes'
    BY <1>1, <1>3, <1>6, SavedPlaces DEF KickerInv, KickerTypes
  <2>3. Kicked!NumbersBuildOn' /\ Kicked!TwiceOnlyAtFirst'
    BY <1>1, <1>6, NumbersRemain DEF KickerInv
  <2>4. ~rivals => Kicked!Finished \subseteq Kicked!Finished' /\ \A id \in Kicked!Finished : matches'[id] = matches[id]
    BY <1>1, <1>6, SavedKeepsFinished
  <2>5. ~rivals => Orderly'
    BY <1>4, <1>6, <2>1, <2>4 DEF Orderly
  <2>6. Kicked!Finalised
    <3>1. \A i, k \in DOMAIN numbers : i < k => i # k
      BY <1>2
    <3> QED
      BY <1>1, <1>4, <1>6, <2>4, <3>1 DEF Kicked!Finalised, Orderly
  <2> QED
    BY <1>1, <2>1, <2>2, <2>3, <2>5, <2>6 DEF KickerInv
<1>7. CASE /\ play[b].old # None /\ matches' = Kicked!Saved(b)
           /\ numbers' = Append(numbers, Kicked!Batch(Place(b), play[b].match.time,
                                               [p \in DOMAIN play[b].old |-> Kicked!NewNumber(play[b].old[p], Place(b))]))
  <2> DEFINE old == play[b].old
             k == Place(b)
             batch == Kicked!Batch(k, play[b].match.time, [p \in DOMAIN old |-> Kicked!NewNumber(old[p], k)])
             n == Len(numbers) + 1
  <2>1. Kicked!Busy' = Kicked!Busy \ {b} /\ DesksInOrder' /\ Kicked!OneOpenMatch'
    BY <1>1, <1>7, SavedInOrder
  <2>2. matches' \in Seq(Kicked!Played \cup {None}) /\ k \in Nat /\ k # None
    BY <1>1, <1>7, SavedPlaces DEF Kicked!KickerAssumption
  <2>3. old \in Results /\ play[b].match.time \in 1 .. MaxDays
    BY <1>2, <1>7 DEF Desks, Kicked!Played
  <2>4. /\ batch \in Batches /\ batch.match = k /\ batch.time = play[b].match.time /\ DOMAIN batch.counted = DOMAIN old
        /\ \A p \in DOMAIN old : batch.counted[p] = Kicked!NewNumber(old[p], k)
    <3>1. PICK P \in SUBSET (Kicked!Players \cup Veterans) : old \in [P -> NumberBefore]
      BY <2>3 DEF Results
    <3> HIDE DEF old, k
    <3>2. [p \in DOMAIN old |-> Kicked!NewNumber(old[p], k)] \in [P -> KickerNumber]
      <4>1. ASSUME NEW p \in P
            PROVE  Kicked!NewNumber(old[p], k) \in KickerNumber
        <5>1. old[p].start \in SUBSET (Nat \cup {None}) /\ old[p].added \in SUBSET Nat
          BY <3>1 DEF NumberBefore
        <5>2. {IF m = None THEN k ELSE m : m \in old[p].start} \in SUBSET Nat
          BY <2>2, <5>1
        <5> QED
          BY <2>2, <5>1, <5>2 DEF Kicked!NewNumber, KickerNumber
      <4> QED
        BY <3>1, <4>1
    <3>3. [p \in DOMAIN old |-> Kicked!NewNumber(old[p], k)] \in Counts
      BY <3>1, <3>2 DEF Counts
    <3>4. play[b].match.time \in 0 .. MaxDays
      BY <2>3 DEF Kicked!KickerAssumption
    <3> QED
      BY <2>2, <3>3, <3>4 DEF Kicked!Batch, Batches
  <2>5. numbers' = Append(numbers, batch)
    BY <1>7
  <2>6. ~rivals => /\ \A i \in DOMAIN numbers : numbers[i].time < play[b].match.time
                   /\ play[b].match.finished /\ old \in Kicked!MatchResult(play[b].match.players)
    BY <1>4, <1>7 DEF HasSeenAll
  <2> HIDE DEF batch, n, old, k
  <2>7. /\ numbers' \in Seq(Batches) /\ DOMAIN numbers' = DOMAIN numbers \cup {n} /\ n \notin DOMAIN numbers
        /\ \A i \in DOMAIN numbers : numbers'[i] = numbers[i]
        /\ numbers'[n] = batch
        /\ DOMAIN numbers' \subseteq Nat
    <3>1. numbers' \in Seq(Batches)
      BY <1>2, <2>4, <2>5, Appended
    <3>2. DOMAIN numbers' \subseteq Nat
      BY <3>1
    <3> QED
      BY <1>2, <2>4, <2>5, <3>1, <3>2, Appended DEF n
  <2>8. KickerTypes'
    BY <1>1, <1>3, <2>2, <2>7 DEF KickerInv, KickerTypes
  <2>9. \A i \in DOMAIN numbers : numbers[i].time \in Nat
    <3>1. \A i \in DOMAIN numbers : numbers[i] \in Batches
      BY <1>2
    <3> QED
      BY <3>1 DEF Batches
  <2>10. batch.time \in Nat
    BY <2>3, <2>4
  <2>11. Kicked!NumbersBuildOn'
    <3> SUFFICES ASSUME ~rivals, NEW i \in DOMAIN numbers', NEW l \in DOMAIN numbers',
                        \/ numbers'[i].time < numbers'[l].time
                        \/ numbers'[i].time = numbers'[l].time /\ i < l,
                        NEW p \in DOMAIN numbers'[i].counted \cap DOMAIN numbers'[l].counted
                 PROVE  BuildsOn(numbers'[l].counted[p], numbers'[i].counted[p])
      BY <1>1 DEF Kicked!NumbersBuildOn, BuildsOn
    <3>1. CASE i \in DOMAIN numbers /\ l \in DOMAIN numbers
      BY <2>7, <3>1 DEF KickerInv, Kicked!NumbersBuildOn, BuildsOn
    <3>2. CASE i \in DOMAIN numbers /\ l = n
      <4>1. p \in DOMAIN old \cap DOMAIN numbers[i].counted
        BY <2>4, <2>7, <3>2
      <4>2. play[b].match.players \in LineUps
        BY <1>2 DEF Desks, Kicked!Played
      <4>3. BuildsOn(old[p], numbers[i].counted[p])
        BY <2>6, <3>2, <4>1, <4>2, ResultContains
      <4>4. numbers[i].counted[p].start \subseteq Nat
        BY <3>2, <4>1, StoredNumber DEF KickerInv, KickerNumber
      <4>5. None \notin old[p].start
        BY <4>3, <4>4 DEF BuildsOn, Kicked!KickerAssumption
      <4>6. BuildsOn(Kicked!NewNumber(old[p], k), old[p])
        BY <4>5 DEF BuildsOn, Kicked!NewNumber
      <4>7. numbers'[l].counted[p] = Kicked!NewNumber(old[p], k) /\ numbers'[i].counted[p] = numbers[i].counted[p]
        BY <2>4, <2>7, <3>2, <4>1
      <4> QED
        BY <4>3, <4>6, <4>7 DEF BuildsOn
    <3>3. CASE i = n /\ l \in DOMAIN numbers
      <4>1. numbers'[l].time < numbers'[i].time
        BY <2>4, <2>6, <2>7, <3>3
      <4> QED
        BY <2>7, <2>9, <2>10, <3>3, <4>1
    <3>4. CASE i = n /\ l = n
      BY <2>7, <2>10, <3>4
    <3> QED
      BY <2>7, <3>1, <3>2, <3>3, <3>4
  <2>12. ~rivals => /\ Kicked!Finished \subseteq Kicked!Finished' /\ \A id \in Kicked!Finished : matches'[id] = matches[id]
                    /\ k \notin Kicked!Finished /\ k \in Kicked!Finished'
    BY <1>1, <1>7, <2>6, SavedKeepsFinished DEF k
  <2>15. ASSUME ~rivals, NEW p \in DOMAIN old
         PROVE  \/ /\ \E i \in DOMAIN numbers : p \in DOMAIN numbers[i].counted /\ old[p] = numbers[i].counted[p]
                   /\ old[p].start \subseteq Kicked!Finished /\ None \notin old[p].start
                \/ old[p].start \subseteq Kicked!Finished \cup {None} /\ old[p].added = {}
    <3>1. play[b].match.players \in LineUps
      BY <1>2 DEF Desks, Kicked!Played
    <3>2. CASE \E i \in DOMAIN numbers : p \in DOMAIN numbers[i].counted /\ old[p] = numbers[i].counted[p]
      <4>1. PICK i \in DOMAIN numbers : p \in DOMAIN numbers[i].counted /\ old[p] = numbers[i].counted[p]
        BY <3>2
      <4>2. old[p].start \subseteq Kicked!Finished
        BY <1>4, <2>15, <4>1 DEF Orderly
      <4>3. old[p].start \subseteq Nat
        BY <4>1, StoredNumber DEF KickerInv, KickerNumber
      <4> QED
        BY <3>2, <4>2, <4>3 DEF Kicked!KickerAssumption
    <3>3. CASE \E fit \in SUBSET (Kicked!Finished \cup {None}) : old[p] = [start |-> fit, added |-> {}]
      BY <3>3
    <3> QED
      BY <2>6, <2>15, <3>1, <3>2, <3>3, ResultIs
  <2>16. Kicked!TwiceOnlyAtFirst'
    <3> SUFFICES ASSUME ~rivals, NEW l \in DOMAIN numbers', NEW p \in DOMAIN numbers'[l].counted,
                        NEW m \in numbers'[l].counted[p].start \cap numbers'[l].counted[p].added
                 PROVE  \E i \in DOMAIN numbers' : /\ numbers'[i].match = m /\ p \in DOMAIN numbers'[i].counted
                                                  /\ numbers'[i].counted[p].added = {m}
      BY <1>1 DEF Kicked!TwiceOnlyAtFirst
    <3>1. ASSUME NEW i \in DOMAIN numbers, p \in DOMAIN numbers[i].counted,
                 m \in numbers[i].counted[p].start \cap numbers[i].counted[p].added
          PROVE  \E x \in DOMAIN numbers' : /\ numbers'[x].match = m /\ p \in DOMAIN numbers'[x].counted
                                           /\ numbers'[x].counted[p].added = {m}
      <4>1. PICK x \in DOMAIN numbers : numbers[x].match = m /\ p \in DOMAIN numbers[x].counted /\ numbers[x].counted[p].added = {m}
        BY <3>1 DEF KickerInv, Kicked!TwiceOnlyAtFirst
      <4> QED
        BY <2>7, <4>1
    <3>2. CASE l \in DOMAIN numbers
      BY <2>7, <3>1, <3>2
    <3>3. CASE l = n
      <4>1. p \in DOMAIN old /\ numbers'[l].counted[p] = Kicked!NewNumber(old[p], k)
        BY <2>4, <2>7, <3>3
      <4>2. CASE /\ \E i \in DOMAIN numbers : p \in DOMAIN numbers[i].counted /\ old[p] = numbers[i].counted[p]
                 /\ old[p].start \subseteq Kicked!Finished /\ None \notin old[p].start
        <5>1. m \in old[p].start /\ m \in old[p].added \cup {k}
          BY <4>1, <4>2 DEF Kicked!NewNumber
        <5>2. m # k
          BY <2>12, <4>2, <5>1
        <5> QED
          BY <3>1, <4>2, <5>1, <5>2
      <4>3. CASE old[p].added = {}
        <5>1. numbers'[l].counted[p].added = {k}
          BY <4>1, <4>3 DEF Kicked!NewNumber
        <5> QED
          BY <2>4, <2>7, <3>3, <5>1
      <4> QED
        BY <2>15, <4>1, <4>2, <4>3
    <3> QED
      BY <2>7, <3>2, <3>3
  <2>13. ASSUME ~rivals
         PROVE  Orderly'
    <3>1. ASSUME NEW i \in DOMAIN numbers', NEW l \in DOMAIN numbers', i # l
          PROVE  /\ numbers'[i].match # numbers'[l].match \/ numbers'[i].match = None
                 /\ DOMAIN numbers'[i].counted \cap DOMAIN numbers'[l].counted = {} \/ numbers'[i].time # numbers'[l].time
      <4>1. CASE i \in DOMAIN numbers /\ l \in DOMAIN numbers
        BY <1>4, <2>7, <2>13, <3>1, <4>1 DEF Orderly
      <4>2. ASSUME NEW x \in DOMAIN numbers
            PROVE  /\ numbers'[x].match # numbers'[n].match
                   /\ numbers'[x].time # numbers'[n].time
        <5>1. numbers[x].match # None => numbers[x].match \in Kicked!Finished
          BY <1>4, <2>13 DEF Orderly
        <5>2. numbers[x].match # k
          BY <2>2, <2>12, <2>13, <5>1
        <5>3. numbers[x].time < batch.time
          BY <2>4, <2>6, <2>13
        <5>4. numbers[x].time # batch.time
          BY <2>9, <2>10, <5>3
        <5> QED
          BY <2>4, <2>7, <5>2, <5>4
      <4> QED
        BY <2>7, <3>1, <4>1, <4>2
    <3>2. \A i \in DOMAIN numbers' : numbers'[i].match # None => numbers'[i].match \in Kicked!Finished'
      BY <1>4, <2>4, <2>7, <2>12, <2>13 DEF Orderly
    <3>3. Kicked!Busy' = {}
      BY <1>4, <2>1, <2>13
    <3>4. ASSUME NEW i \in DOMAIN numbers', NEW p \in DOMAIN numbers'[i].counted
          PROVE  numbers'[i].counted[p].start \subseteq Kicked!Finished'
      <4>1. CASE i \in DOMAIN numbers
        BY <1>4, <2>7, <2>12, <2>13, <4>1 DEF Orderly
      <4>2. CASE i = n
        <5>1. p \in DOMAIN old /\ numbers'[i].counted[p] = Kicked!NewNumber(old[p], k)
          BY <2>4, <2>7, <4>2
        <5>2. old[p].start \subseteq Kicked!Finished \cup {None}
          BY <2>13, <2>15, <5>1
        <5> QED
          BY <2>12, <2>13, <5>1, <5>2 DEF Kicked!NewNumber
      <4> QED
        BY <2>7, <4>1, <4>2
    <3> QED
      BY <3>1, <3>2, <3>3, <3>4 DEF Orderly
  <2>14. Kicked!Finalised
    <3>1. \A i, l \in DOMAIN numbers' : i < l => i # l
      BY <2>7
    <3> QED
      BY <1>1, <2>12, <2>13, <3>1 DEF Kicked!Finalised, Orderly
  <2> QED
    BY <1>1, <2>1, <2>8, <2>11, <2>13, <2>14, <2>16 DEF KickerInv
<1>8. \/ UNCHANGED <<matches, numbers, stock>>
      \/ matches' = Kicked!Saved(b) /\ UNCHANGED <<numbers, stock>>
      \/ /\ play[b].old # None /\ matches' = Kicked!Saved(b)
         /\ numbers' = Append(numbers, Kicked!Batch(Place(b), play[b].match.time,
                                             [p \in DOMAIN play[b].old |-> Kicked!NewNumber(play[b].old[p], Place(b))]))
  BY DEF Kicked!save_match, Place
<1> QED
  BY <1>5, <1>6, <1>7, <1>8

LEMMA KickerBegins == Kicked!KickerAssumption /\ Kicked!Init => KickerInv
<1> SUFFICES ASSUME Kicked!KickerAssumption, Kicked!Init
             PROVE  KickerInv
  OBVIOUS
<1>1. Kicked!Batch(None, 0, [p \in Veterans |-> Kicked!Given]) \in Batches
  <2>1. [p \in Veterans |-> Kicked!Given] \in [Veterans -> KickerNumber] /\ Veterans \in SUBSET (Kicked!Players \cup Veterans)
    BY DEF Kicked!Given, KickerNumber
  <2>2. [p \in Veterans |-> Kicked!Given] \in Counts
    BY <2>1 DEF Counts
  <2>3. 0 \in 0 .. MaxDays
    BY DEF Kicked!KickerAssumption
  <2> QED
    BY <2>2, <2>3 DEF Kicked!Batch, Batches
<1>2. numbers \in Seq(Batches) /\ DOMAIN numbers = {1} /\ numbers[1].match = None
      /\ \A p \in DOMAIN numbers[1].counted : numbers[1].counted[p] = Kicked!Given
  BY <1>1 DEF Kicked!Init, Kicked!Batch
<1>3. matches \in Seq(Kicked!Played) /\ \A id \in DOMAIN matches : matches[id].finished
  BY DEF Kicked!Init, Kicked!KickerAssumption
<1>4. KickerTypes
  <2>1. matches \in Seq(Kicked!Played \cup {None})
    BY <1>3
  <2>2. play \in [Browsers -> Desks \cup {None}] /\ hasty \subseteq Reporters /\ rivals \in BOOLEAN
    BY DEF Kicked!Init
  <2> QED
    BY <1>2, <2>1, <2>2 DEF KickerTypes
<1>5. Kicked!Busy = {}
  BY DEF Kicked!Init, Kicked!Busy
<1>6. DesksInOrder /\ Kicked!OneOpenMatch
  BY <1>3, <1>5 DEF DesksInOrder, Kicked!OneOpenMatch
<1>7. Orderly
  BY <1>2, <1>5 DEF Orderly, Kicked!Given
<1>8. Kicked!NumbersBuildOn
  BY <1>2, <1>4 DEF Kicked!NumbersBuildOn, KickerTypes, Batches
<1>9. Kicked!TwiceOnlyAtFirst
  BY <1>2 DEF Kicked!TwiceOnlyAtFirst, Kicked!Given
<1> QED
  BY <1>4, <1>6, <1>7, <1>8, <1>9 DEF KickerInv

(* Matches are reported one after the other, remain what they are, and go  *)
(* into the numbers in their order and once, save for the match that gives *)
(* a newcomer her first number.                                            *)
THEOREM CountedOnce == Kicked!KickerAssumption => (Kicked!Spec => MatchesCountOnce)
<1> SUFFICES ASSUME Kicked!KickerAssumption
             PROVE  Kicked!Spec => MatchesCountOnce
  OBVIOUS
<1>1. Kicked!Init => KickerInv
  BY KickerBegins
<1>2. ASSUME KickerInv, [Kicked!Next]_(Kicked!vars)
      PROVE  KickerInv' /\ [Kicked!MatchesCountOnce]_kicker_vars
  <2>1. KickerInv' => Kicked!OneOpenMatch' /\ Kicked!NumbersBuildOn' /\ Kicked!TwiceOnlyAtFirst'
    BY DEF KickerInv
  <2>2. CASE UNCHANGED Kicked!vars
    <3>1. UNCHANGED <<matches, numbers, play, rivals, hasty>>
      BY <2>2 DEF Kicked!vars
    <3>2. Kicked!Finished' = Kicked!Finished /\ Kicked!Busy' = Kicked!Busy
      BY <3>1 DEF Kicked!Finished, Kicked!Busy
    <3>3. \A p : Kicked!get_current_kicker_number(p)' = Kicked!get_current_kicker_number(p)
      BY <3>1 DEF Kicked!get_current_kicker_number
    <3>4. \A p, own : Kicked!get_current_kicker_number_or_estimate(p, own)' = Kicked!get_current_kicker_number_or_estimate(p, own)
      BY <3>1, <3>2, <3>3 DEF Kicked!get_current_kicker_number_or_estimate
    <3>5. \A players : Kicked!MatchResult(players)' = Kicked!MatchResult(players)
      BY <3>4 DEF Kicked!MatchResult
    <3>6. \A b : HasSeenAll(b) => HasSeenAll(b)'
      BY <3>1, <3>2, <3>5 DEF HasSeenAll, Kicked!MayBeEdited
    <3>7. Orderly => Orderly'
      BY <3>1, <3>2, <3>6 DEF Orderly
    <3>8. DesksInOrder'
      BY <1>2, <3>1, <3>2 DEF KickerInv, DesksInOrder, Kicked!MayBeEdited
    <3>9. KickerTypes' /\ Kicked!OneOpenMatch'
      BY <1>2, <3>1 DEF KickerInv, KickerTypes, Kicked!OneOpenMatch
    <3>10. Kicked!NumbersBuildOn' /\ Kicked!TwiceOnlyAtFirst'
      BY <1>2, <3>1, NumbersRemain DEF KickerInv
    <3> QED
      BY <1>2, <2>2, <3>1, <3>7, <3>8, <3>9, <3>10 DEF KickerInv, Kicked!vars, kicker_vars
  <2>3. Kicked!Next => KickerInv' /\ Kicked!Finalised
    BY <1>2, EditBegins, SaveKeeps, CancelKeeps, StartKeeps, ExpireKeeps DEF Kicked!Next
  <2> QED
    BY <1>2, <2>1, <2>2, <2>3 DEF Kicked!MatchesCountOnce, Kicked!vars, kicker_vars
<1> QED
  BY <1>1, <1>2, PTL DEF Kicked!Spec, MatchesCountOnce
-----------------------------------------------------------------------------
(* ProcessForms.  The prefixes on a page count from 0, and its cells are   *)
(* filled in or not.                                                       *)
InPlace(cells) == \A i \in DOMAIN cells : cells[i].prefix = i - 1

(* A page for a finished deposition has the fields of its samples, or of   *)
(* some that have been merged since.                                       *)
FieldsFit(u) ==
  screen[u] # None /\ ~screen[u].is_new =>
    /\ measurement # None
    /\ is_deposition => screen[u].fields = measurement.samples \/ screen[u].fields \cap merged # {}

FormedTypes ==
  /\ is_deposition \in BOOLEAN
  /\ measurement \in Formed!Records \cup {None}
  /\ screen \in [Users -> Formed!Pages \cup {None}]

FormedInv ==
  /\ FormedTypes
  /\ \A u \in Users : screen[u] # None => InPlace(screen[u].cells)
  /\ \A u \in Users : FieldsFit(u)
  /\ Formed!PositionsFit /\ Formed!CellsAsShown

(* An increasing sequence of all numbers below n begins with 0 and counts. *)
LEMMA CountsFromZero ==
  ASSUME NEW n \in Nat,
         NEW s \in [1 .. n -> 0 .. (n - 1)],
         \A i, j \in 1 .. n : i < j => s[i] < s[j],
         NEW i \in 1 .. n
  PROVE  s[i] = i - 1
<1>1. i - 1 <= s[i]
  <2> DEFINE below == [j \in 1 .. (i - 1) |-> s[j]]
  <2>1. \A j \in 1 .. (i - 1) : j \in 1 .. n /\ s[j] \in 0 .. (s[i] - 1)
    OBVIOUS
  <2>2. below \in [1 .. (i - 1) -> 0 .. (s[i] - 1)]
    BY <2>1
  <2>3. \A j, k \in 1 .. (i - 1) : s[j] = s[k] => j = k
    BY <2>1
  <2>4. below \in Injection(1 .. (i - 1), 0 .. (s[i] - 1))
    BY <2>2, <2>3 DEF Injection, IsInjective
  <2>5. /\ IsFiniteSet(0 .. (s[i] - 1))
        /\ Cardinality(0 .. (s[i] - 1)) = IF 0 > s[i] - 1 THEN 0 ELSE s[i] - 1 - 0 + 1
        /\ Cardinality(1 .. (i - 1)) = IF 1 > i - 1 THEN 0 ELSE i - 1 - 1 + 1
    <3>1. s[i] - 1 \in Int /\ i - 1 \in Int /\ 0 \in Int /\ 1 \in Int
      OBVIOUS
    <3> QED
      BY <3>1, FS_Interval
  <2> HIDE DEF below
  <2>6. Cardinality(1 .. (i - 1)) <= Cardinality(0 .. (s[i] - 1))
    BY <2>4, <2>5, FS_Injection
  <2> QED
    BY <2>5, <2>6
<1>2. s[i] <= i - 1
  <2> DEFINE above == [j \in (i + 1) .. n |-> s[j]]
  <2>1. ASSUME NEW j \in (i + 1) .. n
        PROVE  j \in 1 .. n /\ s[j] \in (s[i] + 1) .. (n - 1)
    <3>1. j \in 1 .. n /\ i < j /\ s[j] \in 0 .. (n - 1) /\ s[i] \in 0 .. (n - 1)
      OBVIOUS
    <3>2. s[i] < s[j]
      BY <3>1
    <3> QED
      BY <3>1, <3>2
  <2>2. above \in [(i + 1) .. n -> (s[i] + 1) .. (n - 1)]
    BY <2>1
  <2>3. ASSUME NEW j \in (i + 1) .. n, NEW k \in (i + 1) .. n, s[j] = s[k]
        PROVE  j = k
    <3>1. j \in 1 .. n /\ k \in 1 .. n /\ s[j] \in Int
      BY <2>1
    <3>2. ~(j < k) /\ ~(k < j)
      BY <2>3, <3>1
    <3> QED
      BY <3>1, <3>2
  <2>4. above \in Injection((i + 1) .. n, (s[i] + 1) .. (n - 1))
    BY <2>2, <2>3 DEF Injection, IsInjective
  <2>5. /\ IsFiniteSet((s[i] + 1) .. (n - 1))
        /\ Cardinality((s[i] + 1) .. (n - 1)) = IF s[i] + 1 > n - 1 THEN 0 ELSE n - 1 - (s[i] + 1) + 1
        /\ Cardinality((i + 1) .. n) = IF i + 1 > n THEN 0 ELSE n - (i + 1) + 1
    <3>1. s[i] + 1 \in Int /\ n - 1 \in Int /\ i + 1 \in Int /\ n \in Int
      OBVIOUS
    <3> QED
      BY <3>1, FS_Interval
  <2> HIDE DEF above
  <2>6. Cardinality((i + 1) .. n) <= Cardinality((s[i] + 1) .. (n - 1))
    BY <2>4, <2>5, FS_Injection
  <2> QED
    BY <2>5, <2>6
<1> QED
  BY <1>1, <1>2

LEMMA IndicesCount ==
  ASSUME NEW answers, NEW n \in Nat, DOMAIN answers = 0 .. (n - 1)
  PROVE  Formed!Indices(answers) = [i \in 1 .. n |-> i - 1]
<1> DEFINE Increasing(s) == \A i, j \in 1 .. n : i < j => s[i] < s[j]
           count == [i \in 1 .. n |-> i - 1]
           indices == CHOOSE s \in [1 .. n -> 0 .. (n - 1)] : Increasing(s)
<1>1. Cardinality(DOMAIN answers) = n
  <2>1. n - 1 \in Int /\ 0 \in Int
    OBVIOUS
  <2>2. Cardinality(0 .. (n - 1)) = IF 0 > n - 1 THEN 0 ELSE n - 1 - 0 + 1
    BY <2>1, FS_Interval
  <2> QED
    BY <2>2
<1>2. Formed!Indices(answers) = indices
  <2>1. Formed!Cardinality(DOMAIN answers) = n
    BY <1>1 DEF Formed!Cardinality, Cardinality
  <2> QED
    BY <2>1 DEF Formed!Indices
<1>3. count \in [1 .. n -> 0 .. (n - 1)] /\ Increasing(count)
  OBVIOUS
<1> HIDE DEF count
<1>4. indices \in [1 .. n -> 0 .. (n - 1)] /\ Increasing(indices)
  BY <1>3
<1> HIDE DEF indices
<1>5. \A i \in 1 .. n : indices[i] = i - 1
  BY <1>4, CountsFromZero
<1> QED
  BY <1>2, <1>4, <1>5
(* What is sent for a page in which the prefixes count from 0.             *)
LEMMA DataOfPage ==
  ASSUME NEW cells \in Seq(Formed!Cells), InPlace(cells)
  PROVE  /\ DOMAIN Formed!Data(cells) = 0 .. (Len(cells) - 1)
         /\ \A p \in 0 .. (Len(cells) - 1) : Formed!Data(cells)[p] = cells[p + 1].content
<1> DEFINE n == Len(cells)
           Prefixes == {cells[i].prefix : i \in DOMAIN cells}
<1>1. n \in Nat /\ DOMAIN cells = 1 .. n
  OBVIOUS
<1>2. \A i \in 1 .. n : cells[i].prefix = i - 1
  BY <1>1 DEF InPlace
<1>3. Prefixes = 0 .. (n - 1)
  <2>1. \A p \in 0 .. (n - 1) : p + 1 \in 1 .. n /\ cells[p + 1].prefix = p
    BY <1>1, <1>2
  <2>2. \A i \in 1 .. n : cells[i].prefix \in 0 .. (n - 1)
    BY <1>1, <1>2
  <2> QED
    BY <1>1, <2>1, <2>2
<1>4. ASSUME NEW p \in 0 .. (n - 1)
      PROVE  Formed!SelectLastInSeq(cells, LAMBDA c : c.prefix = p) = p + 1
  <2> DEFINE Matching == {i \in 1 .. n : cells[i].prefix = p}
  <2>1. Matching = {p + 1}
    BY <1>1, <1>2
  <2>2. Formed!SelectLastInSeq(cells, LAMBDA c : c.prefix = p) = CHOOSE x \in Matching : \A y \in Matching : x >= y
    BY <2>1 DEF Formed!SelectLastInSeq, Formed!Max
  <2>3. p + 1 >= p + 1
    BY <1>1
  <2> HIDE DEF Matching
  <2> QED
    BY <2>1, <2>2, <2>3
<1> QED
  BY <1>3, <1>4 DEF Formed!Data

(* The subprocesses of the forms: those of the page, or as many as the user*)
(* wants, with empty ones at the end.                                      *)
Wanted(cells, number) == IF number = 0 THEN Len(cells) ELSE number

LEMMA FormsOfPage ==
  ASSUME NEW cells \in Seq(Formed!Cells), InPlace(cells), NEW number \in Nat
  PROVE  LET forms == Formed!Forms(Formed!Data(cells), number)
         IN  /\ forms \in Seq(Formed!Cells) /\ InPlace(forms)
             /\ Len(forms) = Wanted(cells, number)
             /\ \A i \in 1 .. Len(forms) : forms[i].content = IF i <= Len(cells) THEN cells[i].content ELSE None
<1> DEFINE answers == Formed!Data(cells)
           n == Len(cells)
           m == Wanted(cells, number)
           full == IF number = 0 \/ number > n THEN n ELSE number
           bound == Formed!Bound(answers, number)
           empty == [i \in 1 .. (IF number > Len(bound) THEN number - Len(bound) ELSE 0) |->
                       Formed!Cell(Formed!NextPrefix(bound) + i - 1, None)]
<1>1. n \in Nat /\ DOMAIN answers = 0 .. (n - 1) /\ \A p \in 0 .. (n - 1) : answers[p] = cells[p + 1].content
  BY DataOfPage
<1>2. \A i \in 1 .. n : cells[i] \in Formed!Cells /\ cells[i].content \in Fillings \cup {None}
  <2>1. \A i \in 1 .. n : cells[i] \in Formed!Cells
    OBVIOUS
  <2> QED
    BY <2>1 DEF Formed!Cells
<1>3. /\ full \in Nat /\ full <= n /\ m \in Nat
      /\ (IF number > full THEN number - full ELSE 0) = m - full
      /\ m - full \in Nat /\ (m # full => full = n)
  <2>1. CASE number = 0
    BY <1>1, <2>1 DEF Wanted
  <2>2. CASE number > n
    BY <1>1, <2>2 DEF Wanted
  <2>3. CASE number # 0 /\ ~(number > n)
    <3>1. full = number /\ m = number
      BY <1>1, <2>3 DEF Wanted
    <3> HIDE DEF full, m
    <3>2. number \in Nat /\ number <= n
      BY <1>1, <2>3
    <3> QED
      BY <1>1, <3>1, <3>2
  <2> QED
    BY <2>1, <2>2, <2>3
<1>4. bound = [i \in 1 .. full |-> Formed!Cell(Formed!Indices(answers)[i], answers[Formed!Indices(answers)[i]])]
  <2>1. Len(Formed!Indices(answers)) = n
    <3>1. Formed!Indices(answers) = [i \in 1 .. n |-> i - 1]
      BY <1>1, IndicesCount
    <3> QED
      BY <1>1, <3>1
  <2> QED
    BY <2>1 DEF Formed!Bound
<1>5. Formed!Forms(answers, number) = bound \o empty
  BY DEF Formed!Forms
<1> HIDE DEF full, m, bound
<1>6. bound = [i \in 1 .. full |-> Formed!Cell(i - 1, cells[i].content)]
  <2>1. Formed!Indices(answers) = [i \in 1 .. n |-> i - 1]
    BY <1>1, IndicesCount
  <2>4. \A i \in 1 .. full : Formed!Indices(answers)[i] = i - 1 /\ i - 1 \in 0 .. (n - 1) /\ i - 1 + 1 = i
    BY <1>1, <1>3, <2>1
  <2>5. \A i \in 1 .. full : answers[i - 1] = cells[i].content
    BY <1>1, <2>4
  <2> QED
    BY <1>4, <2>4, <2>5
<1>7. Len(bound) = full /\ \A i \in 1 .. full : bound[i] = [prefix |-> i - 1, content |-> cells[i].content]
  BY <1>3, <1>6 DEF Formed!Cell
<1>8. bound \in Seq(Formed!Cells)
  <2>1. \A i \in 1 .. full : [prefix |-> i - 1, content |-> cells[i].content] \in Formed!Cells
    BY <1>2, <1>3 DEF Formed!Cells
  <2> QED
    BY <1>3, <1>6, <2>1 DEF Formed!Cell
<1>9. Formed!NextPrefix(bound) = full
  <2>1. CASE full = 0
    <3>1. bound = <<>>
      BY <1>6, <2>1
    <3> QED
      BY <2>1, <3>1 DEF Formed!NextPrefix
  <2>2. CASE full # 0
    <3>1. full \in 1 .. full
      BY <1>3, <2>2
    <3>2. bound # <<>> /\ bound[full].prefix = full - 1
      BY <1>7, <2>2, <3>1
    <3> QED
      BY <1>3, <1>7, <3>2 DEF Formed!NextPrefix, Formed!Last
  <2> QED
    BY <2>1, <2>2
<1>10. empty = [i \in 1 .. (m - full) |-> [prefix |-> full + i - 1, content |-> None]]
  BY <1>3, <1>7, <1>9 DEF Formed!Cell
<1> HIDE DEF empty
<1>11. empty \in Seq(Formed!Cells) /\ Len(empty) = m - full
  <2>1. \A i \in 1 .. (m - full) : [prefix |-> full + i - 1, content |-> None] \in Formed!Cells
    BY <1>3 DEF Formed!Cells
  <2>2. empty \in [1 .. (m - full) -> Formed!Cells]
    BY <1>10, <2>1
  <2> QED
    BY <1>3, <2>2
<1> HIDE DEF answers, n
<1>12. bound \o empty \in Seq(Formed!Cells) /\ Len(bound \o empty) = m
  BY <1>3, <1>7, <1>8, <1>11
<1>13. ASSUME NEW i \in 1 .. m
       PROVE  /\ (bound \o empty)[i].prefix = i - 1
              /\ (bound \o empty)[i].content = IF i <= n THEN cells[i].content ELSE None
  <2>1. CASE i <= full
    <3>1. (bound \o empty)[i] = bound[i] /\ i \in 1 .. full /\ i <= n
      BY <1>1, <1>3, <1>7, <1>8, <1>11, <2>1
    <3> QED
      BY <1>7, <3>1
  <2>2. CASE ~(i <= full)
    <3>1. i - full \in 1 .. (m - full) /\ full = n /\ ~(i <= n)
      BY <1>1, <1>3, <2>2
    <3>2. (bound \o empty)[i] = empty[i - full]
      BY <1>3, <1>7, <1>8, <1>11, <2>2
    <3>3. empty[i - full] = [prefix |-> full + (i - full) - 1, content |-> None]
      BY <1>10, <3>1
    <3> QED
      BY <1>3, <3>1, <3>2, <3>3
  <2> QED
    BY <2>1, <2>2
<1> QED
  BY <1>5, <1>12, <1>13 DEF InPlace, answers, n, m

LEMMA FilledPage ==
  ASSUME NEW cells \in Seq(Formed!Cells), InPlace(cells), NEW filling \in Fillings
  PROVE  LET filled == [i \in DOMAIN cells |-> Formed!Filled(cells[i], filling)]
         IN  filled \in Seq(Formed!Cells) /\ InPlace(filled) /\ Len(filled) = Len(cells)
<1> DEFINE filled == [i \in DOMAIN cells |-> Formed!Filled(cells[i], filling)]
<1>1. Len(cells) \in Nat /\ DOMAIN cells = 1 .. Len(cells)
  OBVIOUS
<1>2. \A i \in 1 .. Len(cells) : filled[i] \in Formed!Cells /\ filled[i].prefix = cells[i].prefix
  <2> SUFFICES ASSUME NEW i \in 1 .. Len(cells)
               PROVE  filled[i] \in Formed!Cells /\ filled[i].prefix = cells[i].prefix
    OBVIOUS
  <2>1. cells[i] \in Formed!Cells /\ filled[i] = Formed!Filled(cells[i], filling)
    BY <1>1
  <2> QED
    BY <2>1 DEF Formed!Filled, Formed!Cell, Formed!Cells
<1>3. filled \in [1 .. Len(cells) -> Formed!Cells]
  BY <1>1, <1>2
<1>4. filled \in Seq(Formed!Cells) /\ Len(filled) = Len(cells) /\ DOMAIN filled = 1 .. Len(cells)
  BY <1>1, <1>3
<1> HIDE DEF filled
<1>5. InPlace(filled)
  BY <1>1, <1>2, <1>4 DEF InPlace
<1> QED
  BY <1>4, <1>5 DEF filled

(* What becomes of samples, positions and cells when they are saved.       *)
LEMMA SavedProcess ==
  ASSUME NEW u, NEW selection \in SUBSET Pieces, NEW fields \in SUBSET Pieces, NEW remove,
         NEW cells \in Seq(Formed!Cells), \A i \in DOMAIN cells : cells[i].content # None,
         FormedTypes, Formed!save_to_database(u, selection, fields, cells, remove)
  PROVE  /\ measurement' \in Formed!Records
         /\ measurement'.samples = Formed!SamplesToSet(selection)
         /\ measurement'.positions = Formed!sample_ids(selection, fields)
         /\ measurement'.cells = [i \in DOMAIN cells |-> cells[i].content]
<1> DEFINE fillings == [i \in DOMAIN cells |-> cells[i].content]
           owned == Formed!SamplesToSet(selection)
           ids == Formed!sample_ids(selection, fields)
<1>1. Len(cells) \in Nat /\ DOMAIN cells = 1 .. Len(cells)
  OBVIOUS
<1>2. fillings \in Seq(Fillings)
  <2>1. \A i \in 1 .. Len(cells) : cells[i] \in Formed!Cells
    OBVIOUS
  <2>2. \A i \in 1 .. Len(cells) : cells[i].content \in Fillings
    BY <1>1, <2>1 DEF Formed!Cells
  <2>3. fillings \in [1 .. Len(cells) -> Fillings]
    BY <1>1, <2>2
  <2> QED
    BY <1>1, <2>3
<1>3. ids \in SUBSET Pieces
  BY DEF Formed!sample_ids
<1>4. owned \in SUBSET Pieces
  <2>1. CASE Formed!IsFixed
    <3>1. measurement \in Formed!Records
      BY <2>1 DEF FormedTypes, Formed!IsFixed
    <3> QED
      BY <2>1, <3>1 DEF Formed!SamplesToSet, Formed!Records
  <2>2. CASE ~Formed!IsFixed
    BY <2>2 DEF Formed!SamplesToSet
  <2> QED
    BY <2>1, <2>2
<1>5. measurement' = [samples |-> owned, positions |-> ids, cells |-> fillings]
  BY DEF Formed!save_to_database
<1> HIDE DEF fillings, owned, ids
<1>6. measurement' \in Formed!Records
  BY <1>2, <1>3, <1>4, <1>5 DEF Formed!Records
<1> QED
  BY <1>5, <1>6 DEF fillings, owned, ids

(* A process that is saved anew, pages being what they were, or closed.    *)
LEMMA FieldsStillFit ==
  ASSUME FormedTypes, measurement' # None, Formed!SamplesFixed, UNCHANGED <<is_deposition, merged>>,
         NEW v \in Users, FieldsFit(v), screen'[v] \in {screen[v], None}
  PROVE  FieldsFit(v)'
BY DEF FieldsFit, Formed!SamplesFixed, Formed!IsFixed

LEMMA PageKeeps ==
  ASSUME Formed!ProcessFormsAssumption, FormedInv, NEW u \in Users, Formed!get(u)
  PROVE  FormedInv'
<1> DEFINE new == IF measurement = None THEN Formed!Page(TRUE, {}, <<>>)
                  ELSE Formed!Page(FALSE, measurement.samples, Formed!CellsOf(measurement.cells))
<1>1. /\ screen' = [screen EXCEPT ![u] = new]
      /\ UNCHANGED <<is_deposition, measurement, merged, blurred, sent>>
  BY DEF Formed!get
<1>2. new \in Formed!Pages /\ InPlace(new.cells)
  <2>1. CASE measurement = None
    <3>1. new = [is_new |-> TRUE, fields |-> {}, cells |-> <<>>]
      BY <2>1 DEF Formed!Page
    <3> HIDE DEF new
    <3>2. <<>> \in Seq(Formed!Cells) /\ {} \in SUBSET Pieces
      OBVIOUS
    <3>3. new \in Formed!Pages
      BY <3>1, <3>2 DEF Formed!Pages
    <3> QED
      BY <3>1, <3>3 DEF InPlace
  <2>2. CASE measurement # None
    <3> DEFINE fillings == measurement.cells
               cells == Formed!CellsOf(fillings)
    <3>1. measurement.samples \in SUBSET Pieces /\ fillings \in Seq(Fillings)
      BY <2>2 DEF FormedInv, FormedTypes, Formed!Records
    <3> HIDE DEF fillings
    <3>2. Len(fillings) \in Nat /\ DOMAIN fillings = 1 .. Len(fillings)
          /\ \A i \in 1 .. Len(fillings) : fillings[i] \in Fillings
      BY <3>1
    <3>3. cells = [i \in 1 .. Len(fillings) |-> [prefix |-> i - 1, content |-> fillings[i]]]
      BY <3>2 DEF Formed!CellsOf, Formed!Cell
    <3> HIDE DEF cells
    <3>4. \A i \in 1 .. Len(fillings) : [prefix |-> i - 1, content |-> fillings[i]] \in Formed!Cells
      BY <3>2 DEF Formed!Cells
    <3>5. cells \in [1 .. Len(fillings) -> Formed!Cells]
      BY <3>3, <3>4
    <3>6. cells \in Seq(Formed!Cells) /\ InPlace(cells)
      BY <3>2, <3>3, <3>5 DEF InPlace
    <3>7. new = [is_new |-> FALSE, fields |-> measurement.samples, cells |-> cells]
      BY <2>2 DEF Formed!Page, cells, fillings
    <3> HIDE DEF new
    <3> QED
      BY <3>1, <3>6, <3>7 DEF Formed!Pages
  <2> QED
    BY <2>1, <2>2
<1>3. new.is_new = (measurement = None) /\ (~new.is_new => new.fields = measurement.samples)
  BY DEF Formed!Page
<1> HIDE DEF new
<1>4. FormedTypes'
  BY <1>1, <1>2 DEF FormedInv, FormedTypes
<1>5. ASSUME NEW v \in Users
      PROVE  (screen[v] # None => InPlace(screen[v].cells))' /\ FieldsFit(v)'
  <2>1. screen'[v] = IF v = u THEN new ELSE screen[v]
    BY <1>1 DEF FormedInv, FormedTypes
  <2>2. CASE v = u
    BY <1>1, <1>2, <1>3, <2>1, <2>2 DEF FieldsFit, InPlace
  <2>3. CASE v # u
    BY <1>1, <2>1, <2>3 DEF FormedInv, FieldsFit, InPlace
  <2> QED
    BY <2>2, <2>3
<1> QED
  BY <1>1, <1>4, <1>5 DEF FormedInv, Formed!PositionsFit, Formed!CellsAsShown

LEMMA PagePostKeeps ==
  ASSUME Formed!ProcessFormsAssumption, FormedInv, NEW u \in Users, Formed!post(u)
  PROVE  FormedInv' /\ Formed!SamplesFixed
<1>1. screen[u] # None /\ screen[u] \in Formed!Pages /\ InPlace(screen[u].cells) /\ FieldsFit(u)
      /\ screen[u].is_new = (measurement = None)
  BY DEF Formed!post, FormedInv, FormedTypes
<1> DEFINE fields == screen[u].fields
           shown == screen[u].cells
<1>2. fields \in SUBSET Pieces /\ shown \in Seq(Formed!Cells)
  BY <1>1 DEF Formed!Pages
<1>3. PICK selection \in SUBSET Pieces, number \in 0 .. MaxCells, remove \in BOOLEAN, filling \in Fillings :
        LET cells == [i \in DOMAIN shown |-> Formed!Filled(shown[i], filling)]
            forms == Formed!Forms(Formed!Data(cells), number)
        IN  /\ Formed!IsFixed => selection = {}
            /\ (Formed!sample_ids(selection, fields) \cup selection) \cap merged = {}
            /\ IF Formed!is_all_valid(u, selection, fields, forms)
               THEN /\ Formed!save_to_database(u, selection, fields, forms, remove)
                    /\ blurred' = FALSE
                    /\ screen' = [screen EXCEPT ![u] = None]
                    /\ sent' = SubSeq([i \in DOMAIN cells |-> cells[i].content], 1, IF number = 0 THEN Len(cells) ELSE number)
               ELSE /\ screen' = [screen EXCEPT ![u] = Formed!Page(screen[u].is_new, Formed!sample_ids(selection, fields), forms)]
                    /\ UNCHANGED <<measurement, blurred, sent>>
            /\ UNCHANGED <<is_deposition, merged>>
  <2>1. PICK selection \in SUBSET Pieces, number \in 0 .. MaxCells, remove \in BOOLEAN,
             cells \in {[i \in DOMAIN screen[u].cells |-> Formed!Filled(screen[u].cells[i], filling)] : filling \in Fillings} :
          LET forms == Formed!Forms(Formed!Data(cells), number)
          IN  /\ Formed!IsFixed => selection = {}
              /\ (Formed!sample_ids(selection, fields) \cup selection) \cap merged = {}
              /\ IF Formed!is_all_valid(u, selection, fields, forms)
                 THEN /\ Formed!save_to_database(u, selection, fields, forms, remove)
                      /\ blurred' = FALSE
                      /\ screen' = [screen EXCEPT ![u] = None]
                      /\ sent' = SubSeq([i \in DOMAIN cells |-> cells[i].content], 1, IF number = 0 THEN Len(cells) ELSE number)
                 ELSE /\ screen' = [screen EXCEPT ![u] = Formed!Page(screen[u].is_new, Formed!sample_ids(selection, fields), forms)]
                      /\ UNCHANGED <<measurement, blurred, sent>>
              /\ UNCHANGED <<is_deposition, merged>>
    BY ZenonT(60) DEF Formed!post
  <2>2. PICK filling \in Fillings : cells = [i \in DOMAIN shown |-> Formed!Filled(shown[i], filling)]
    OBVIOUS
  <2> HIDE DEF fields, shown
  <2> QED
    BY <2>1, <2>2
<1> DEFINE cells == [i \in DOMAIN shown |-> Formed!Filled(shown[i], filling)]
           forms == Formed!Forms(Formed!Data(cells), number)
<1>4. cells \in Seq(Formed!Cells) /\ InPlace(cells)
  BY <1>1, <1>2, FilledPage
<1> HIDE DEF cells
<1>5. /\ forms \in Seq(Formed!Cells) /\ InPlace(forms) /\ Len(forms) = Wanted(cells, number)
      /\ \A i \in 1 .. Len(forms) : forms[i].content = IF i <= Len(cells) THEN cells[i].content ELSE None
  <2>1. number \in Nat
    OBVIOUS
  <2> QED
    BY <1>4, <2>1, FormsOfPage
<1>6. Formed!sample_ids(selection, fields) \in SUBSET Pieces
  BY <1>2 DEF Formed!sample_ids
<1>7. CASE Formed!is_all_valid(u, selection, fields, forms)
  <2> HIDE DEF fields, shown, forms
  <2>1. /\ Formed!save_to_database(u, selection, fields, forms, remove)
        /\ blurred' = FALSE /\ screen' = [screen EXCEPT ![u] = None]
        /\ sent' = SubSeq([i \in DOMAIN cells |-> cells[i].content], 1, IF number = 0 THEN Len(cells) ELSE number)
        /\ UNCHANGED <<is_deposition, merged>>
    BY <1>3, <1>7 DEF cells, forms
  <2>2. /\ Formed!IsFixed \/ selection # {}
        /\ \A i \in DOMAIN forms : forms[i].content # None
    BY <1>7 DEF Formed!is_all_valid
  <2>3. /\ measurement' \in Formed!Records
        /\ measurement'.samples = Formed!SamplesToSet(selection)
        /\ measurement'.positions = Formed!sample_ids(selection, fields)
        /\ measurement'.cells = [i \in DOMAIN forms |-> forms[i].content]
    BY <1>2, <1>5, <2>1, <2>2, SavedProcess DEF FormedInv
  <2>4. measurement' # None
    BY <2>3 DEF Formed!ProcessFormsAssumption
  <2>5. Formed!SamplesFixed
    BY <2>3 DEF Formed!SamplesFixed, Formed!SamplesToSet
  <2>6. FormedTypes'
    BY <2>1, <2>3 DEF FormedInv, FormedTypes
  <2>7. \A v \in Users : screen'[v] = IF v = u THEN None ELSE screen[v]
    BY <2>1 DEF FormedInv, FormedTypes
  <2>8. \A v \in Users : FieldsFit(v)'
    BY <2>1, <2>4, <2>5, <2>7, FieldsStillFit DEF FormedInv
  <2>9. \A v \in Users : (screen[v] # None => InPlace(screen[v].cells))'
    BY <2>7 DEF FormedInv, InPlace
  <2>10. measurement'.positions = measurement'.samples
    <3>1. CASE Formed!IsFixed
      <4>1. selection = {}
        BY <1>3, <3>1
      <4>2. fields \cap merged = {}
        BY <1>3, <4>1 DEF Formed!sample_ids, fields
      <4>3. fields = measurement.samples
        BY <1>1, <3>1, <4>2 DEF FieldsFit, Formed!IsFixed, fields
      <4> QED
        BY <2>3, <3>1, <4>1, <4>3 DEF Formed!sample_ids, Formed!SamplesToSet
    <3>2. CASE ~Formed!IsFixed
      BY <2>2, <2>3, <3>2 DEF Formed!sample_ids, Formed!SamplesToSet
    <3> QED
      BY <3>1, <3>2
  <2>11. measurement'.cells = sent'
    <3> DEFINE fillings == [i \in DOMAIN cells |-> cells[i].content]
               m == Wanted(cells, number)
    <3>1. Len(cells) \in Nat /\ DOMAIN cells = 1 .. Len(cells) /\ DOMAIN forms = 1 .. Len(forms) /\ number \in Nat
      BY <1>4, <1>5
    <3>2. m \in Nat /\ Len(forms) = m
      BY <1>5, <3>1 DEF Wanted
    <3>3. \A i \in 1 .. m : i <= Len(cells)
      BY <1>5, <2>2, <3>1, <3>2
    <3>4. sent' = SubSeq(fillings, 1, m)
      BY <2>1 DEF Wanted
    <3>5. m <= Len(cells)
      BY <3>1, <3>2, <3>3
    <3>6. fillings \in Seq(Fillings \cup {None}) /\ Len(fillings) = Len(cells)
      <4>1. \A i \in 1 .. Len(cells) : cells[i] \in Formed!Cells
        BY <1>4
      <4>2. \A i \in 1 .. Len(cells) : cells[i].content \in Fillings \cup {None}
        BY <4>1 DEF Formed!Cells
      <4>3. fillings \in [1 .. Len(cells) -> Fillings \cup {None}]
        BY <3>1, <4>2
      <4> QED
        BY <3>1, <4>3
    <3>7. \A i \in 1 .. m : fillings[i] = forms[i].content
      BY <1>5, <3>1, <3>2, <3>3, <3>5
    <3> HIDE DEF fillings, m
    <3>8. SubSeq(fillings, 1, m) = [i \in 1 .. m |-> fillings[i]]
      BY <3>1, <3>2, <3>5, <3>6
    <3> QED
      BY <2>3, <3>1, <3>2, <3>4, <3>7, <3>8
  <2> QED
    BY <2>5, <2>6, <2>8, <2>9, <2>10, <2>11 DEF FormedInv, Formed!PositionsFit, Formed!CellsAsShown
<1>8. CASE ~Formed!is_all_valid(u, selection, fields, forms)
  <2> DEFINE ids == Formed!sample_ids(selection, fields)
             new == Formed!Page(screen[u].is_new, ids, forms)
  <2>1. /\ screen' = [screen EXCEPT ![u] = new]
        /\ UNCHANGED <<is_deposition, measurement, merged, blurred, sent>>
    BY <1>3, <1>8 DEF cells
  <2> HIDE DEF forms
  <2>2. new = [is_new |-> screen[u].is_new, fields |-> ids, cells |-> forms]
    BY DEF Formed!Page
  <2>3. new \in Formed!Pages
    BY <1>1, <1>5, <1>6, <2>2 DEF Formed!Pages
  <2>4. Formed!IsFixed => ids = fields
    BY <1>3 DEF Formed!sample_ids
  <2> HIDE DEF ids, new
  <2>5. FormedTypes'
    BY <2>1, <2>3 DEF FormedInv, FormedTypes
  <2>6. ASSUME NEW v \in Users
        PROVE  (screen[v] # None => InPlace(screen[v].cells))' /\ FieldsFit(v)'
    <3>1. screen'[v] = IF v = u THEN new ELSE screen[v]
      BY <2>1 DEF FormedInv, FormedTypes
    <3>2. CASE v = u
      <4>1. InPlace(screen[v].cells)'
        BY <1>5, <2>2, <3>1, <3>2 DEF InPlace
      <4>2. FieldsFit(v)'
        BY <1>1, <2>1, <2>2, <2>4, <3>1, <3>2 DEF FieldsFit, Formed!IsFixed
      <4> QED
        BY <4>1, <4>2
    <3>3. CASE v # u
      BY <2>1, <3>1, <3>3 DEF FormedInv, FieldsFit, InPlace
    <3> QED
      BY <3>2, <3>3
  <2>7. Formed!SamplesFixed
    BY <2>1 DEF Formed!SamplesFixed
  <2> QED
    BY <2>1, <2>5, <2>6, <2>7 DEF FormedInv, Formed!PositionsFit, Formed!CellsAsShown
<1> QED
  BY <1>7, <1>8

LEMMA JsonPostKeeps ==
  ASSUME Formed!ProcessFormsAssumption, FormedInv, NEW u, Formed!post_json(u)
  PROVE  FormedInv' /\ Formed!SamplesFixed
<1>1. PICK selection \in SUBSET (Pieces \ merged), fields \in SUBSET (Pieces \ merged), n \in 1 .. MaxCells :
      \E fillings \in [1 .. n -> Fillings] :
        /\ Formed!is_all_valid(u, selection, fields, Formed!CellsOf(fillings))
        /\ Formed!save_to_database(u, selection, fields, Formed!CellsOf(fillings), FALSE)
        /\ blurred' = (Formed!IsFixed /\ Formed!sample_ids(selection, fields) # measurement.samples)
        /\ sent' = fillings
        /\ UNCHANGED <<is_deposition, merged, screen>>
  BY DEF Formed!post_json
<1>2. PICK fillings \in [1 .. n -> Fillings] :
        /\ Formed!is_all_valid(u, selection, fields, Formed!CellsOf(fillings))
        /\ Formed!save_to_database(u, selection, fields, Formed!CellsOf(fillings), FALSE)
        /\ blurred' = (Formed!IsFixed /\ Formed!sample_ids(selection, fields) # measurement.samples)
        /\ sent' = fillings
        /\ UNCHANGED <<is_deposition, merged, screen>>
  BY <1>1
<1> DEFINE cells == Formed!CellsOf(fillings)
<1>3. cells = [i \in 1 .. n |-> [prefix |-> i - 1, content |-> fillings[i]]]
  BY DEF Formed!CellsOf, Formed!Cell
<1> HIDE DEF cells
<1>4. \A i \in 1 .. n : [prefix |-> i - 1, content |-> fillings[i]] \in Formed!Cells /\ fillings[i] # None
  <2>1. \A i \in 1 .. n : i - 1 \in Nat /\ fillings[i] \in Fillings
    OBVIOUS
  <2> QED
    BY <2>1 DEF Formed!Cells, Formed!ProcessFormsAssumption
<1>5. cells \in Seq(Formed!Cells) /\ DOMAIN cells = 1 .. n
  <2>1. cells \in [1 .. n -> Formed!Cells]
    BY <1>3, <1>4
  <2> QED
    BY <2>1
<1>6. \A i \in DOMAIN cells : cells[i].content = fillings[i] /\ cells[i].content # None
  BY <1>3, <1>4
<1>7. /\ measurement' \in Formed!Records
      /\ measurement'.samples = Formed!SamplesToSet(selection)
      /\ measurement'.positions = Formed!sample_ids(selection, fields)
      /\ measurement'.cells = [i \in DOMAIN cells |-> cells[i].content]
  <2>1. selection \in SUBSET Pieces /\ fields \in SUBSET Pieces
    OBVIOUS
  <2>2. PICK remove \in BOOLEAN : Formed!save_to_database(u, selection, fields, cells, remove)
    BY <1>2, Zenon DEF cells
  <2> QED
    <3>1. FormedTypes /\ cells \in Seq(Formed!Cells)
      BY <1>5 DEF FormedInv
    <3>2. \A i \in DOMAIN cells : cells[i].content # None
      BY <1>6
    <3> QED
      BY <2>1, <2>2, <3>1, <3>2, SavedProcess
<1>8. measurement' # None
  BY <1>7 DEF Formed!ProcessFormsAssumption
<1>9. Formed!SamplesFixed
  BY <1>7 DEF Formed!SamplesFixed, Formed!SamplesToSet
<1>10. FormedTypes'
  BY <1>2, <1>7 DEF FormedInv, FormedTypes
<1>11. \A v \in Users : (screen[v] # None => InPlace(screen[v].cells))' /\ FieldsFit(v)'
  <2>1. \A v \in Users : FieldsFit(v)'
    BY <1>2, <1>8, <1>9, FieldsStillFit DEF FormedInv
  <2> QED
    BY <1>2, <2>1 DEF FormedInv, InPlace
<1>12. Formed!PositionsFit'
  <2>1. CASE Formed!IsFixed
    BY <1>2, <1>7, <2>1 DEF Formed!PositionsFit, Formed!SamplesToSet
  <2>2. CASE ~Formed!IsFixed
    <3>1. selection # {}
      BY <1>2, <2>2 DEF Formed!is_all_valid
    <3> QED
      BY <1>7, <2>2, <3>1 DEF Formed!PositionsFit, Formed!SamplesToSet, Formed!sample_ids
  <2> QED
    BY <2>1, <2>2
<1>13. Formed!CellsAsShown'
  <2>1. [i \in DOMAIN cells |-> cells[i].content] = fillings
    BY <1>5, <1>6
  <2> QED
    BY <1>2, <1>7, <2>1 DEF Formed!CellsAsShown
<1> QED
  BY <1>9, <1>10, <1>11, <1>12, <1>13 DEF FormedInv

LEMMA MergeKeeps ==
  ASSUME Formed!ProcessFormsAssumption, FormedInv, NEW a \in Pieces, NEW b \in Pieces, Formed!merge(a, b)
  PROVE  FormedInv' /\ Formed!SamplesFixed
<1>1. /\ measurement # None /\ a \notin merged
      /\ merged' = merged \cup {a}
      /\ measurement' = IF a \in measurement.samples
                        THEN [measurement EXCEPT !.samples = (measurement.samples \ {a}) \cup {b}] ELSE measurement
      /\ blurred' = (blurred \/ a \in measurement.samples)
      /\ UNCHANGED <<is_deposition, screen, sent>>
  BY DEF Formed!merge
<1>2. /\ measurement \in Formed!Records
      /\ DOMAIN measurement = {"samples", "positions", "cells"}
  BY <1>1 DEF FormedInv, FormedTypes, Formed!Records
<1>3. /\ measurement' \in Formed!Records
      /\ measurement'.positions = measurement.positions /\ measurement'.cells = measurement.cells
      /\ a \notin measurement.samples => measurement' = measurement
  BY <1>1, <1>2 DEF Formed!Records
<1>4. measurement' # None
  BY <1>3 DEF Formed!ProcessFormsAssumption
<1>5. FormedTypes'
  BY <1>1, <1>3 DEF FormedInv, FormedTypes
<1>6. \A v \in Users : (screen[v] # None => InPlace(screen[v].cells))'
  BY <1>1 DEF FormedInv, InPlace
<1>7. ASSUME NEW v \in Users
      PROVE  FieldsFit(v)'
  <2>1. FieldsFit(v)
    BY DEF FormedInv
  <2>2. CASE a \in measurement.samples
    BY <1>1, <1>4, <2>1, <2>2 DEF FieldsFit
  <2>3. CASE a \notin measurement.samples
    BY <1>1, <1>3, <1>4, <2>1, <2>3 DEF FieldsFit
  <2> QED
    BY <2>2, <2>3
<1>8. Formed!SamplesFixed
  BY <1>1 DEF Formed!SamplesFixed
<1>9. Formed!PositionsFit'
  BY <1>1, <1>3 DEF FormedInv, Formed!PositionsFit
<1>10. Formed!CellsAsShown'
  BY <1>1, <1>3 DEF FormedInv, Formed!CellsAsShown
<1> QED
  BY <1>5, <1>6, <1>7, <1>8, <1>9, <1>10 DEF FormedInv

(* A process is what its last editor had on her page, and its samples are  *)
(* fixed if it is a deposition.                                            *)
THEOREM FormsAsShown == Formed!ProcessFormsAssumption => (Formed!Spec => ProcessAsShown)
<1> SUFFICES ASSUME Formed!ProcessFormsAssumption
             PROVE  Formed!Spec => ProcessAsShown
  OBVIOUS
<1>1. Formed!Init => FormedInv
  <2> SUFFICES ASSUME Formed!Init
               PROVE  FormedInv
    OBVIOUS
  <2>1. /\ is_deposition \in BOOLEAN /\ measurement = None
        /\ screen = [u \in Users |-> None]
    BY DEF Formed!Init
  <2>2. FormedTypes
    BY <2>1 DEF FormedTypes
  <2> QED
    BY <2>1, <2>2 DEF FormedInv, FieldsFit, Formed!PositionsFit, Formed!CellsAsShown
<1>2. ASSUME FormedInv, [Formed!Next]_(Formed!vars)
      PROVE  FormedInv' /\ [Formed!ProcessAsShown]_process_vars
  <2>1. CASE UNCHANGED Formed!vars
    <3>1. UNCHANGED <<is_deposition, measurement, picked, merged, screen, again, blurred, sent>>
      BY <2>1 DEF Formed!vars
    <3> QED
      BY <1>2, <3>1 DEF FormedInv, FormedTypes, FieldsFit, InPlace, Formed!PositionsFit, Formed!CellsAsShown, process_vars
  <2>2. CASE Formed!Next
    <3>1. ASSUME NEW u \in Users, Formed!get(u)
          PROVE  FormedInv' /\ Formed!SamplesFixed
      <4>1. Formed!SamplesFixed
        BY <3>1 DEF Formed!get, Formed!SamplesFixed
      <4> QED
        BY <1>2, <3>1, <4>1, PageKeeps
    <3>2. FormedInv' /\ Formed!SamplesFixed
      BY <1>2, <2>2, <3>1, PagePostKeeps, JsonPostKeeps, MergeKeeps DEF Formed!Next
    <3> QED
      BY <3>2 DEF FormedInv, Formed!ProcessAsShown
  <2> QED
    BY <1>2, <2>1, <2>2
<1> QED
  BY <1>1, <1>2, PTL DEF Formed!Spec, ProcessAsShown
=============================================================================
