------------------------------- MODULE Lineage -------------------------------
(***************************************************************************)
(* Samples, their processes, and the life of a sample: it is made, it is   *)
(* processed, it is split into pieces (which are samples again), it dies,  *)
(* it is merged into another sample, and it is deleted together with all   *)
(* that depends on it.                                                     *)
(*                                                                         *)
(* One action is one successful request, except that deletions and merges  *)
(* go on in steps, one for each object that they visit, while no other     *)
(* request changes anything (see the module Deletions for those that do).  *)
(* Every request takes one tick of the clock, which also stands for the    *)
(* five seconds the code adds to the timestamps of splits and deaths that  *)
(* it creates on its own.  Names, and the permissions of the users, are    *)
(* left out: a request without the permission changes nothing.             *)
(***************************************************************************)
EXTENDS Integers, Sequences, FiniteSets

CONSTANTS
  Founders,   (* the number of samples at the beginning *)
  MaxSamples, (* bound on the number of samples ever made *)
  MaxProcs,   (* bound on the number of processes ever made *)
  MaxTime,    (* bound on the clock *)
  Hour,       (* the ticks after which a process cannot be deleted any more *)
  Classes     (* the process classes that users enter *)

ASSUME LineageAssumption ==
  /\ Founders \in 0 .. MaxSamples
  /\ {MaxSamples, MaxProcs, MaxTime, Hour} \subseteq Nat
  /\ Classes \subseteq {"measurement", "deposition", "result"}

Samples == 1 .. MaxSamples
Processes == 1 .. MaxProcs
None == 0

Physical == {"measurement", "deposition"}
Kinds == Physical \cup {"split", "death", "result"}
Times == 0 .. MaxTime + 2

VARIABLES
  now,       (* the clock *)
  born,      (* the number of samples made so far *)
  alive,     (* the samples in the database *)
  origin,    (* split_origin of each sample *)
  made,      (* the number of processes made so far *)
  live,      (* the processes in the database *)
  kind,      (* the class of each process *)
  stamp,     (* the timestamp of each process *)
  parent,    (* the sample a split has split *)
  members,   (* the samples of each process *)
  split_done,(* the depositions after which the samples have been renamed *)
  announced, (* what the request has announced as deleted *)
  stack,     (* the calls of delete() that go on, or the loop of a merge *)
  dry,       (* whether they are those of the dry run *)
  before     (* history: the samples of each process before the deletion *)

procs == <<made, live, kind, stamp, parent, members, split_done>>
samples == <<born, alive, origin>>
calls == <<stack, dry, before>>
vars == <<now, samples, procs, announced, calls>>

Sample(s) == [what |-> "sample", id |-> s]
Process(p) == [what |-> "process", id |-> p]
Objects == {Sample(s) : s \in Samples} \cup {Process(p) : p \in Processes}
Existing == {Sample(s) : s \in alive} \cup {Process(p) : p \in live}

(* A call has a set of objects that its loop has still to visit. *)
Calls ==
  [what : {"sample"}, id : Samples, todo : SUBSET Processes]
  \cup [what : {"process"}, id : Processes, todo : SUBSET Samples]
  \cup [what : {"merge"}, from : Samples, to : Samples, todo : SUBSET Processes]

TypeOK ==
  /\ now \in 0 .. MaxTime
  /\ born \in 0 .. MaxSamples
  /\ alive \subseteq 1 .. born
  /\ origin \in [Samples -> Processes \cup {None}]
  /\ made \in 0 .. MaxProcs
  /\ live \subseteq 1 .. made
  /\ kind \in [Processes -> Kinds \cup {"unborn"}]
  /\ stamp \in [Processes -> Times]
  /\ parent \in [Processes -> Samples \cup {None}]
  /\ members \in [Processes -> SUBSET alive]
  /\ split_done \subseteq {p \in live : kind[p] = "deposition"}
  /\ announced \subseteq Objects
  /\ stack \in Seq(Calls)
  /\ dry \in BOOLEAN
  /\ before \in [Processes -> SUBSET Samples]

Init ==
  /\ now = 0
  /\ born = Founders
  /\ alive = 1 .. Founders
  /\ origin = [s \in Samples |-> None]
  /\ made = 0
  /\ live = {}
  /\ kind = [p \in Processes |-> "unborn"]
  /\ stamp = [p \in Processes |-> 0]
  /\ parent = [p \in Processes |-> None]
  /\ members = [p \in Processes |-> {}]
  /\ split_done = {}
  /\ announced = {}
  /\ stack = <<>>
  /\ dry = FALSE
  /\ before = members

-----------------------------------------------------------------------------
(* What the requests ask the database.                                     *)

ProcessesOf(s) == {p \in live : s \in members[p]}
Deaths(s) == {p \in ProcessesOf(s) : kind[p] = "death"}
Splits(s) == {p \in ProcessesOf(s) : kind[p] = "split"}
Pieces(p) == {s \in alive : origin[s] = p}

(* The ordering of processes by timestamp; equal timestamps come in the    *)
(* order of their primary keys.                                            *)
Earlier(p, q) == stamp[p] < stamp[q] \/ (stamp[p] = stamp[q] /\ p < q)

is_dead(s) == Deaths(s) # {}

(* Mutant: the death of a sample is not looked up. *)
NobodyDead(ss, t) == TRUE

(* No sample of ss is dead at time t.  With more than one death the        *)
(* assertion in dead_samples fails, and so does the request.               *)
AliveAt(ss, t) ==
  \A s \in ss : Cardinality(Deaths(s)) <= 1 /\ \A d \in Deaths(s) : stamp[d] > t

(* Process p is the last one of sample s, apart from results. *)
IsLastButResults(p, s) ==
  /\ p \in ProcessesOf(s) /\ kind[p] # "result"
  /\ \A q \in ProcessesOf(s) \ {p} : kind[q] # "result" => Earlier(q, p)

last_process_if_split(s) == {p \in Processes : IsLastButResults(p, s) /\ kind[p] = "split"}

(* The timestamps a user may enter: not in the future.  Two processes with *)
(* the same instant, to the microsecond, are left out.                     *)
Enterable == (0 .. now) \ {stamp[p] : p \in live}

Tick == now < MaxTime /\ now' = now + 1

(* A request that does all in one step. *)
Request ==
  /\ Tick
  /\ announced' = {}
  /\ UNCHANGED <<stack, dry>>

-----------------------------------------------------------------------------
(* New samples and processes.                                              *)

AddSample ==
  /\ Request
  /\ born < MaxSamples
  /\ born' = born + 1
  /\ alive' = alive \cup {born + 1}
  /\ UNCHANGED <<origin, procs>>

(* The next processes get the records of news, in this order; each record  *)
(* has the class, the timestamp, the samples, and the parent of a split.   *)
Create(news) ==
  LET ps == made + 1 .. made + Len(news)
  IN /\ made + Len(news) <= MaxProcs
     /\ made' = made + Len(news)
     /\ live' = live \cup ps
     /\ kind' = [p \in Processes |-> IF p \in ps THEN news[p - made].kind ELSE kind[p]]
     /\ stamp' = [p \in Processes |-> IF p \in ps THEN news[p - made].stamp ELSE stamp[p]]
     /\ parent' = [p \in Processes |-> IF p \in ps THEN news[p - made].parent ELSE parent[p]]
     /\ members' = [p \in Processes |-> IF p \in ps THEN news[p - made].members ELSE members[p]]

New(k, t, ss, s) == [kind |-> k, stamp |-> t, members |-> ss, parent |-> s]

(* ProcessForm.is_referentially_valid wants the samples alive at the time  *)
(* of the process.                                                         *)
AddPhysical(k, ss, t) ==
  /\ Request
  /\ t \in Enterable
  /\ AliveAt(ss, t)
  /\ Create(<<New(k, t, ss, None)>>)
  /\ UNCHANGED <<samples, split_done>>

(* The same for a form that has been submitted for an existing process.    *)
EditMeasurement(p, ss, t) ==
  /\ Request
  /\ p \in live /\ kind[p] = "measurement"
  /\ t \in Enterable \cup {stamp[p]}
  /\ AliveAt(ss, t)
  /\ stamp' = [stamp EXCEPT ![p] = t]
  /\ members' = [members EXCEPT ![p] = ss]
  /\ UNCHANGED <<samples, made, live, kind, parent, split_done>>

(* DepositionSamplesForm is unbound for a finished deposition, hence never *)
(* valid, and is_referentially_valid has nothing to check.                 *)
EditDeposition(p, t) ==
  /\ Request
  /\ p \in live /\ kind[p] = "deposition"
  /\ t \in Enterable \cup {stamp[p]}
  /\ stamp' = [stamp EXCEPT ![p] = t]
  /\ UNCHANGED <<samples, made, live, kind, parent, members, split_done>>

(* The forms of a result do not look whether the samples are dead. *)
AddResult(ss, t) ==
  /\ Request
  /\ t \in Enterable
  /\ Create(<<New("result", t, ss, None)>>)
  /\ UNCHANGED <<samples, split_done>>

Kill(s) ==
  /\ Request
  /\ ~is_dead(s)
  /\ Create(<<New("death", now, {s}, None)>>)
  /\ UNCHANGED <<samples, split_done>>

-----------------------------------------------------------------------------
(* Splits.                                                                 *)

(* n new samples are made, as pieces of split p. *)
MakePieces(p, n) ==
  /\ born + n <= MaxSamples
  /\ born' = born + n
  /\ alive' = alive \cup (born + 1 .. born + n)
  /\ origin' = [s \in Samples |-> IF s \in born + 1 .. born + n THEN p ELSE origin[s]]

(* A split of s at time t, and the death that goes with a complete one. *)
SplitOf(s, t, complete) ==
  IF complete THEN <<New("split", t, {s}, s), New("death", t + 1, {s}, None)>> ELSE <<New("split", t, {s}, s)>>

(* split_and_rename with the name of the parent.  Nobody asks whether the  *)
(* parent is dead.                                                         *)
Split(s, n, complete) ==
  /\ Request
  /\ complete => n >= 2
  /\ MakePieces(made + 1, n)
  /\ Create(SplitOf(s, now, complete))
  /\ UNCHANGED split_done

(* split_and_rename with the ID of an old split: it becomes a new one. *)
Resplit(p, n, complete) ==
  /\ Request
  /\ p \in live /\ kind[p] = "split"
  /\ p \in last_process_if_split(parent[p])
  /\ complete => Cardinality(Pieces(p)) + n >= 2
  /\ MakePieces(p, n)
  /\ LET death == IF complete THEN {made + 1} ELSE {} IN
     /\ made' = IF complete THEN made + 1 ELSE made
     /\ made' <= MaxProcs
     /\ live' = live \cup death
     /\ kind' = [q \in Processes |-> IF q \in death THEN "death" ELSE kind[q]]
     /\ stamp' = [q \in Processes |-> IF q \in death THEN now + 1 ELSE IF q = p THEN now ELSE stamp[q]]
     /\ members' = [q \in Processes |-> IF q \in death THEN {parent[p]} ELSE members[q]]
  /\ UNCHANGED <<parent, split_done>>

(* split_and_rename_after_deposition for the samples of deposition p, one  *)
(* of which is split, and always completely; n = 1 means "rename only".    *)
SplitAfterDeposition(p, s, n) ==
  /\ Request
  /\ p \in live \ split_done /\ kind[p] = "deposition"
  /\ s \in members[p]
  /\ n > 1 => IsLastButResults(p, s)
  /\ split_done' = split_done \cup {p}
  /\ IF n > 1
     THEN /\ MakePieces(made + 1, n)
          /\ Create(SplitOf(s, stamp[p] + 1, TRUE))
     ELSE UNCHANGED <<samples, made, live, kind, stamp, parent, members>>

-----------------------------------------------------------------------------
(* Deletion.  The delete() methods of samples and of processes call each   *)
(* other; with dry_run they only collect what is affected, or refuse.      *)

(* Only physical processes and splits, and only fresh ones, can be deleted. *)
Deletable(p) == kind[p] \in Physical \cup {"split"} /\ stamp[p] >= now - Hour

(* Mutant: the sample gives up its processes before it goes through them. *)
ClearsFirst(s, really) == [what |-> "sample", id |-> s, todo |-> IF really THEN {} ELSE ProcessesOf(s)]

(* The calls of delete(), with or without dry_run. *)
SampleCall(s, really) == [what |-> "sample", id |-> s, todo |-> ProcessesOf(s)]

(* Mutant: the pieces of a split are left alone. *)
PiecesStay(p) == [what |-> "process", id |-> p, todo |-> {}]

ProcessCall(p) == [what |-> "process", id |-> p, todo |-> IF kind[p] = "split" THEN Pieces(p) ELSE {}]

Call == stack[Len(stack)]
Outer == [i \in 1 .. Len(stack) - 1 |-> stack[i]]
Visited(x) == [stack EXCEPT ![Len(stack)].todo = @ \ {x}]

(* The view begins with the dry run. *)
Begin(call, object) ==
  /\ stack = <<>>
  /\ now < MaxTime
  /\ stack' = <<call>>
  /\ dry' = TRUE
  /\ announced' = {object}
  /\ UNCHANGED <<now, samples, procs, before>>

DeleteSample(s) == s \in alive /\ Begin(SampleCall(s, FALSE), Sample(s))
DeleteProcess(p) == p \in live /\ Deletable(p) /\ Begin(ProcessCall(p), Process(p))

(* Mutant: only the dry run cares about the other samples of a process. *)
IsOnlySampleIfAsked(p) == dry => Cardinality(members[p]) = 1

IsOnlySample(p) == Cardinality(members[p]) = 1

(* The loop of a sample looks at its earliest process, and deletes it if   *)
(* it is the only sample.  An error ends the dry run.                      *)
VisitProcess ==
  /\ stack # <<>> /\ Call.what = "sample"
  /\ \E p \in Call.todo :
       /\ \A q \in Call.todo \ {p} : Earlier(p, q)
       /\ IF ~IsOnlySample(p)
          THEN stack' = Visited(p) /\ UNCHANGED <<dry, announced>>
          ELSE IF dry /\ ~Deletable(p)
          THEN stack' = <<>> /\ dry' = FALSE /\ announced' = {}
          ELSE /\ stack' = Append(Visited(p), ProcessCall(p))
               /\ announced' = announced \cup IF dry THEN {Process(p)} ELSE {}
               /\ UNCHANGED dry
  /\ UNCHANGED <<now, samples, procs, before>>

(* The loop of a split deletes its next piece. *)
VisitPiece ==
  /\ stack # <<>> /\ Call.what = "process"
  /\ \E s \in Call.todo :
       /\ \A t \in Call.todo : s <= t
       /\ stack' = Append(Visited(s), SampleCall(s, ~dry))
       /\ announced' = announced \cup IF dry THEN {Sample(s)} ELSE {}
  /\ UNCHANGED <<now, samples, procs, dry, before>>

(* The dry run has found nothing to refuse: the view writes the feed       *)
(* entries and calls delete() itself.                                      *)
EndDryRun ==
  /\ Tick
  /\ stack' = <<IF Call.what = "sample" THEN SampleCall(Call.id, TRUE) ELSE ProcessCall(Call.id)>>
  /\ dry' = FALSE
  /\ UNCHANGED <<samples, procs, announced, before>>

(* A loop has ended, and the object itself is deleted. *)
Return ==
  /\ stack # <<>> /\ Call.what \in {"sample", "process"} /\ Call.todo = {}
  /\ IF dry /\ Len(stack) = 1 THEN EndDryRun
     ELSE /\ stack' = Outer
          /\ IF dry THEN UNCHANGED <<alive, live, members, split_done>>
             ELSE IF Call.what = "sample"
             THEN /\ alive' = alive \ {Call.id}
                  /\ members' = [p \in Processes |-> members[p] \ {Call.id}]
                  /\ UNCHANGED <<live, split_done>>
             ELSE /\ live' = live \ {Call.id}
                  /\ members' = [members EXCEPT ![Call.id] = {}]
                  /\ split_done' = split_done \ {Call.id}
                  /\ UNCHANGED alive
          /\ before' = IF Len(stack) = 1 THEN members' ELSE before
          /\ UNCHANGED <<now, born, origin, made, kind, stamp, parent, announced, dry>>

-----------------------------------------------------------------------------
(* merge_samples: the processes of sample a are added to sample b, or to   *)
(* its parent if they took place before the split, and a is deleted.       *)

(* What the form wants: a has no split, no death and is no piece, and its  *)
(* processes are earlier than the splits and the death of b.               *)
Merge(a, b) ==
  /\ stack = <<>>
  /\ Tick
  /\ {a, b} \subseteq alive /\ a # b
  /\ origin[a] = None
  /\ \A p \in live : kind[p] = "split" => parent[p] # a
  /\ ~is_dead(a)
  /\ \A p \in ProcessesOf(a), end \in Deaths(b) \cup Splits(b) : stamp[p] < stamp[end]
  /\ stack' = <<[what |-> "merge", from |-> a, to |-> b, todo |-> ProcessesOf(a)]>>
  /\ announced' = {}
  /\ UNCHANGED <<samples, procs, dry, before>>

(* Mutant: the processes are not added to the target. *)
AddsNothing(p, s) == [members EXCEPT ![p] = @ \ {s}]

processes_add(p, s) == [members EXCEPT ![p] = @ \cup {s}]

(* The loop goes back in time, and up to the parent as soon as it passes   *)
(* the split.                                                              *)
MergeProcess ==
  /\ stack # <<>> /\ Call.what = "merge"
  /\ \E p \in Call.todo :
       LET split == origin[Call.to]
           target == IF split # None /\ stamp[split] > stamp[p] THEN parent[split] ELSE Call.to
       IN /\ \A q \in Call.todo \ {p} : Earlier(q, p)
          /\ members' = processes_add(p, target)
          /\ stack' = <<[Call EXCEPT !.to = target, !.todo = @ \ {p}]>>
  /\ UNCHANGED <<now, samples, made, live, kind, stamp, parent, split_done, announced, dry, before>>

EndMerge ==
  /\ stack # <<>> /\ Call.what = "merge" /\ Call.todo = {}
  /\ stack' = <<SampleCall(Call.from, TRUE)>>
  /\ before' = members
  /\ UNCHANGED <<now, samples, procs, announced, dry>>

-----------------------------------------------------------------------------
(* The requests that do all in one step. *)
AtOnce ==
  /\ stack = <<>>
  /\ \/ AddSample
     \/ \E ss \in (SUBSET alive) \ {{}}, t \in Times :
          \/ \E k \in Classes \cap Physical : AddPhysical(k, ss, t)
          \/ "result" \in Classes /\ AddResult(ss, t)
          \/ \E p \in Processes : EditMeasurement(p, ss, t)
     \/ \E p \in Processes, t \in Times : EditDeposition(p, t)
     \/ \E s \in alive : Kill(s)
     \/ \E n \in 1 .. MaxSamples, complete \in BOOLEAN :
          \/ \E s \in alive : Split(s, n, complete)
          \/ \E p \in Processes : Resplit(p, n, complete)
     \/ \E p \in Processes, s \in alive, n \in 1 .. MaxSamples : SplitAfterDeposition(p, s, n)
  /\ before' = members'

(* Those that go on in steps, too. *)
Next ==
  \/ AtOnce
  \/ \E s \in alive : DeleteSample(s)
  \/ \E p \in Processes : DeleteProcess(p)
  \/ VisitProcess \/ VisitPiece \/ Return
  \/ \E a, b \in alive : Merge(a, b)
  \/ MergeProcess \/ EndMerge

Spec == Init /\ [][Next]_vars

-----------------------------------------------------------------------------
(* The lineage is never torn: every split still has its parent and only    *)
(* its parent, and the split that a piece comes from still exists.         *)
LineageIntact ==
  /\ TypeOK
  /\ \A p \in live : kind[p] = "split" => parent[p] \in alive /\ members[p] = {parent[p]}
  /\ \A s \in alive : origin[s] # None => origin[s] \in live

(* Whatever the user has been told to be deleted is deleted. *)
AnnouncedAreGone == stack = <<>> => announced \cap Existing = {}

(* A deletion takes no process away from a sample that stays, unless the   *)
(* process has been announced.                                             *)
SurvivorsKeepTheirHistory ==
  [][stack # <<>> /\ stack' = <<>> /\ announced' # {} =>
       \A s \in alive', p \in Processes :
         s \in before[p] /\ s \notin members'[p] => Process(p) \in announced']_vars

(* Sample t is a piece of s, or of a piece of it, and so on, where the     *)
(* split of s is later than process p: t is in every set that has with a   *)
(* sample its pieces, and these pieces of s.                               *)
DescendsAfter(s, t, p) ==
  \A C \in SUBSET Samples :
    (\A x \in Samples : origin[x] # None /\ (parent[origin[x]] \in C \/ (parent[origin[x]] = s /\ Earlier(p, origin[x]))) => x \in C)
    => t \in C

(* A physical process without any sample comes about only by deleting the  *)
(* samples of a process that claims to have taken place before one of its  *)
(* samples has been split into another one of them.                        *)
OrphansPredateASplit ==
  [][\A p \in live' : kind'[p] \in Physical /\ members'[p] = {} /\ members[p] # {} =>
       \E s, t \in before[p] : DescendsAfter(s, t, p)]_vars

(* Processes disappear only by an announced deletion, never by a merge. *)
MergesKeepProcesses == [][live \subseteq live' \/ announced' # {}]_vars

(* Measurement p is one of sample s at or after its death. *)
MeasuredDead(s, p) == p \in ProcessesOf(s) /\ kind[p] = "measurement" /\ \E d \in Deaths(s) : stamp[p] >= stamp[d]

(* A sample is never measured after its death, except that merging into a  *)
(* piece hands processes over to a parent that was split when it was dead. *)
MeasuredAlive ==
  [][\A s \in alive', p \in live' :
       MeasuredDead(s, p)' /\ ~MeasuredDead(s, p) => \E q \in Splits(s)' : stamp'[q] > stamp'[p]]_vars

(* "assert len(death_timestamps) <= 1" (dead_samples). *)
AtMostOneDeath == \A s \in alive : Cardinality(Deaths(s)) <= 1
=============================================================================
