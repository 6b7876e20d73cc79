---------------------------- MODULE Invalidation ----------------------------
(***************************************************************************)
(* Which cached data sheets and process contexts a change of the database  *)
(* invalidates.  Nothing expires by itself: the save() methods of samples, *)
(* processes, results and sample series walk through the relations, and    *)
(* the receivers of m2m_changed call them when a relation changes.         *)
(*                                                                         *)
(* What is displayed is defined on its own, after the code that renders    *)
(* data sheets (Display, Context), so that the walk can be compared with   *)
(* it.  Requests come one after the other; for overlapping requests see    *)
(* SheetCache.  Only the lineage, the memberships and two possible values  *)
(* of the data of each sample and process are kept.                        *)
(***************************************************************************)
EXTENDS Integers, FiniteSets

CONSTANTS
  Founders,   (* the number of samples at the beginning *)
  MaxSamples, (* bound on the number of samples ever made *)
  MaxProcs,   (* bound on the number of processes ever made *)
  MaxTime     (* bound on the clock *)

ASSUME InvalidationAssumption ==
  /\ Founders \in 0 .. MaxSamples
  /\ {MaxSamples, MaxProcs, MaxTime} \subseteq Nat

Samples == 1 .. MaxSamples
Processes == 1 .. MaxProcs
None == 0
Times == 0 .. MaxTime + 1
Data == {0, 1}

VARIABLES
  now,     (* the clock *)
  born,    (* the number of samples made so far *)
  alive,   (* the samples in the database *)
  origin,  (* split_origin of each sample *)
  data,    (* the name and the other displayed fields of each sample *)
  live,    (* the processes in the database *)
  made,    (* the number of processes made so far *)
  kind,    (* "physical", "split" or "result" *)
  parent,  (* the parent sample of each split *)
  stamp,   (* the timestamp of each process *)
  values,  (* the displayed fields of each process *)
  members, (* the samples of each process *)
  series,  (* the samples in the sample series *)
  results, (* the results in the sample series *)
  saved    (* the samples and processes on which save() has been called *)
           (* by the last request, i.e. whose cached items are deleted   *)

sampleVars == <<born, alive, origin, data>>
processVars == <<live, made, kind, parent, stamp, values, members>>
seriesVars == <<series, results>>
vars == <<now, sampleVars, processVars, seriesVars, saved>>

Sample(s) == [what |-> "sample", id |-> s]
Process(p) == [what |-> "process", id |-> p]

RecordTypes ==
  /\ now \in 0 .. MaxTime
  /\ born \in 0 .. MaxSamples
  /\ alive \subseteq 1 .. born
  /\ origin \in [Samples -> Processes \cup {None}]
  /\ data \in [Samples -> Data]
  /\ made \in 0 .. MaxProcs
  /\ live \subseteq 1 .. made
  /\ kind \in [Processes -> {"physical", "split", "result"}]
  /\ parent \in [Processes -> Samples \cup {None}]
  /\ stamp \in [Processes -> Times]
  /\ values \in [Processes -> Data]
  /\ members \in [Processes -> SUBSET alive]
  /\ series \subseteq alive
  /\ results \subseteq {p \in live : kind[p] = "result"}

TypeOK ==
  /\ RecordTypes
  /\ saved \subseteq {Sample(s) : s \in Samples} \cup {Process(p) : p \in Processes}

Init ==
  /\ now = 0
  /\ born = Founders
  /\ alive = 1 .. Founders
  /\ origin = [s \in Samples |-> None]
  /\ data = [s \in Samples |-> 0]
  /\ live = {}
  /\ made = 0
  /\ kind = [p \in Processes |-> "physical"]
  /\ parent = [p \in Processes |-> None]
  /\ stamp = [p \in Processes |-> 0]
  /\ values = [p \in Processes |-> 0]
  /\ members = [p \in Processes |-> {}]
  /\ series = {}
  /\ results = {}
  /\ saved = {}

SplitsOf(s) == {p \in live : kind[p] = "split" /\ parent[p] = s}
Pieces(p) == {s \in alive : origin[s] = p}

-----------------------------------------------------------------------------
(* What the data sheets show.                                              *)

(* The context of a process; only that of a split shows sample data. *)
Context(p) ==
  [values |-> values[p], stamp |-> stamp[p],
   names |-> IF kind[p] = "split"
             THEN {<<s, data[s]>> : s \in {parent[p]} \cup Pieces(p)} ELSE {}]

(* The processes listed for sample a up to the cutoff timestamp. *)
Listed(a, cutoff) ==
  {p \in live : stamp[p] <= cutoff /\ (a \in members[p] \/ (a \in series /\ p \in results))}

(* collect_process_contexts: the processes of the sample and, up to the    *)
(* split that leads to the sample, those of each ancestor.                 *)
Shown[s \in Samples] == [cutoff \in Times |->
  {[sample |-> s, process |-> p, context |-> Context(p)] : p \in Listed(s, cutoff)} \cup
  IF origin[s] = None THEN {} ELSE Shown[parent[origin[s]]][stamp[origin[s]]]]

Display(s) == [own |-> data[s], processes |-> Shown[s][MaxTime + 1]]

-----------------------------------------------------------------------------
(* What save() touches.                                                    *)

(* Sample.save on its way down from split "from" follows later splits. *)
SplitsToFollow(s, from) == {p \in SplitsOf(s) : from = None \/ stamp[p] > stamp[from]}

(* Sample.save on its way down, or at its beginning if from is None.       *)
SaveDown[s \in Samples] == [from \in Processes \cup {None} |->
  {Sample(s)} \cup UNION {{Process(p)} \cup UNION {SaveDown[c][p] : c \in Pieces(p)} :
                            p \in SplitsToFollow(s, from)}]

(* Sample.save called from outside: the descendants, and the ancestors     *)
(* with all their descendants.                                             *)
SaveSample[s \in Samples] ==
  SaveDown[s][None] \cup
  IF origin[s] = None THEN {} ELSE {Process(origin[s])} \cup SaveSample[parent[origin[s]]]

SaveSamples(ss) == UNION {SaveSample[s] : s \in ss}

(* Mutant: Result.save forgets the series. *)
MembersOnly(p) == members[p]

(* Process.save goes on to the samples of the process, Result.save also to *)
(* the samples of the series the result is in.                             *)
SamplesOf(p) == members[p] \cup IF p \in results THEN series ELSE {}

SaveProcess(p) == {Process(p)} \cup SaveSamples(SamplesOf(p))

-----------------------------------------------------------------------------
(* The requests.  The walk depends on nothing but the lineage, so that it  *)
(* is the same before and after requests that leave the lineage alone.     *)

Tick == now < MaxTime /\ now' = now + 1

(* The latest sample saves itself: with its split, if any, in place. *)
SaveNew == saved' = SaveSamples({born})'

AddSample ==
  /\ Tick
  /\ born < MaxSamples
  /\ born' = born + 1
  /\ alive' = alive \cup {born + 1}
  /\ UNCHANGED <<origin, data, processVars, seriesVars>>
  /\ SaveNew

(* A sample is edited or renamed. *)
EditSample(s) ==
  /\ Tick
  /\ s \in alive
  /\ data' = [data EXCEPT ![s] = 1 - @]
  /\ saved' = SaveSamples({s})
  /\ UNCHANGED <<born, alive, origin, processVars, seriesVars>>

NewProcess(k, t, ss, s) ==
  /\ made < MaxProcs
  /\ made' = made + 1
  /\ live' = live \cup {made'}
  /\ kind' = [kind EXCEPT ![made'] = k]
  /\ parent' = [parent EXCEPT ![made'] = s]
  /\ stamp' = [stamp EXCEPT ![made'] = t]
  /\ members' = [members EXCEPT ![made'] = ss]
  /\ UNCHANGED values

(* Both the process and, in touch_process_samples, its samples are saved. *)
AddPhysical(ss, t) ==
  /\ Tick
  /\ NewProcess("physical", t, ss, None)
  /\ saved' = {Process(made')} \cup SaveSamples(ss)
  /\ UNCHANGED <<sampleVars, seriesVars>>

(* A result belongs to samples, to the series, or to both. *)
AddResult(ss, inSeries, t) ==
  /\ Tick
  /\ NewProcess("result", t, ss, None)
  /\ results' = IF inSeries THEN results \cup {made'} ELSE results
  /\ saved' = {Process(made')} \cup SaveSamples(ss \cup IF inSeries THEN series ELSE {})
  /\ UNCHANGED <<sampleVars, series>>

(* The process is saved with its old relations; then they are changed,     *)
(* which saves the samples that have come or gone.                         *)
EditProcess(p, ss, t) ==
  /\ Tick
  /\ p \in live /\ kind[p] # "split"
  /\ values' = [values EXCEPT ![p] = 1 - @]
  /\ stamp' = [stamp EXCEPT ![p] = t]
  /\ members' = [members EXCEPT ![p] = ss]
  /\ saved' = SaveProcess(p) \cup SaveSamples(ss)
  /\ UNCHANGED <<sampleVars, live, made, kind, parent, seriesVars>>

DeleteProcess(p) ==
  /\ Tick
  /\ p \in live /\ kind[p] # "split"
  /\ live' = live \ {p}
  /\ members' = [members EXCEPT ![p] = {}]
  /\ results' = results \ {p}
  /\ saved' = SaveProcess(p)
  /\ UNCHANGED <<sampleVars, made, kind, parent, stamp, values, series>>

(* touch_sample_series_samples saves the samples that have come or gone. *)
EditSeries(ss) ==
  /\ Tick
  /\ series' = ss
  /\ saved' = SaveSamples((ss \ series) \cup (series \ ss))
  /\ UNCHANGED <<sampleVars, processVars, results>>

(* A new sample, which is a piece of split p. *)
NewPiece(p) ==
  /\ born < MaxSamples
  /\ born' = born + 1
  /\ alive' = alive \cup {born'}
  /\ origin' = [origin EXCEPT ![born'] = p]

(* A split, now or (after a deposition) shortly after an earlier process. *)
Split(s, t) ==
  /\ Tick
  /\ s \in alive
  /\ NewProcess("split", t, {s}, s)
  /\ NewPiece(made')
  /\ UNCHANGED <<data, seriesVars>>
  /\ SaveNew

SplitNow(s) == Split(s, now)

SplitAfterDeposition(s, p) ==
  /\ p \in live /\ kind[p] = "physical" /\ s \in members[p]
  /\ \A q \in live \ {p} : s \in members[q] /\ kind[q] # "result" => stamp[q] < stamp[p]
  /\ Split(s, stamp[p] + 1)

(* The old split gets another piece and the current time, provided that it *)
(* is the latest process of the parent (last_process_if_split).            *)
Resplit(p) ==
  /\ Tick
  /\ p \in live /\ kind[p] = "split"
  /\ \A q \in live \ {p} :
       parent[p] \in members[q] /\ kind[q] # "result" => stamp[q] < stamp[p]
  /\ stamp' = [stamp EXCEPT ![p] = now]
  /\ NewPiece(p)
  /\ UNCHANGED <<data, live, made, kind, parent, values, members, seriesVars>>
  /\ SaveNew

(* A piece without processes of its own is deleted. *)
DeletePiece(s) ==
  /\ Tick
  /\ s \in alive
  /\ origin[s] # None
  /\ \A p \in live : s \notin members[p]
  /\ alive' = alive \ {s}
  /\ origin' = [origin EXCEPT ![s] = None]
  /\ series' = series \ {s}
  /\ saved' = SaveSamples({s})
  /\ UNCHANGED <<born, data, processVars, results>>

Next ==
  \/ AddSample
  \/ \E s \in Samples : EditSample(s) \/ SplitNow(s) \/ DeletePiece(s)
  \/ \E ss \in SUBSET alive, t \in 0 .. now :
       \/ AddPhysical(ss, t) /\ ss # {}
       \/ \E inSeries \in BOOLEAN : AddResult(ss, inSeries, t)
       \/ \E p \in Processes : EditProcess(p, ss, t)
  \/ \E ss \in SUBSET alive : EditSeries(ss)
  \/ \E p \in Processes : Resplit(p) \/ DeleteProcess(p)
  \/ \E p \in Processes, s \in alive : SplitAfterDeposition(s, p)

Spec == Init /\ [][Next]_vars

-----------------------------------------------------------------------------
(* The sample, what it has been split from, and so on.                     *)
Ancestry[s \in Samples] ==
  {s} \cup IF origin[s] = None THEN {} ELSE Ancestry[parent[origin[s]]]

(* On the way up from s, every split is later than the one before it.      *)
Orderly(s) == \A x \in Ancestry[s] :
  origin[x] # None /\ origin[parent[origin[x]]] # None =>
    stamp[origin[x]] > stamp[origin[parent[origin[x]]]]

(* The data sheet of s is out of date and has not been deleted. *)
Outdated(s) == s \in alive /\ s \in alive' /\ Display(s)' # Display(s) /\ Sample(s) \notin saved'

(* "every change in the database triggers deletion of those cache items    *)
(* which have become obsolete" (signals.py).                               *)
EveryChangeInvalidates == [][\A s \in Samples : ~Outdated(s)]_vars

ContextsInvalidated == \A p \in live \cap live' : Context(p)' # Context(p) => Process(p) \in saved'

(* This is so for all samples the splits of which are in the order of the  *)
(* generations: through edits, splits, memberships and series alike.  For  *)
(* process contexts it is so without exception, although a split shows the *)
(* names of its parent and of its pieces.                                  *)
OrderlySheetsInvalidated ==
  [][TypeOK' /\ ContextsInvalidated /\ \A s \in Samples : Orderly(s)' => ~Outdated(s)]_vars
=============================================================================
