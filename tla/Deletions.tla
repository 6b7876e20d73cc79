----------------------------- MODULE Deletions ------------------------------
(***************************************************************************)
(* Samples that are deleted at the same time, while the processes they     *)
(* share are edited.  A process is deleted with its last sample; whether a *)
(* sample is the last one is asked before anything is deleted, and others  *)
(* see what a request has deleted when it is committed.  What one request  *)
(* does to samples with splits is in the module Lineage.                   *)
(***************************************************************************)
EXTENDS Integers, FiniteSets

CONSTANTS
  Samples,
  Processes,
  Founded,   (* pairs of a sample and one of its processes in the beginning *)
  Requests,  (* requests that may overlap *)
  None       (* no request, no process *)

(* A request as it goes on: a sample that is deleted with the processes to *)
(* look at, the one found to have no other sample, and those that go; or a *)
(* process that is edited, with the samples it shall have.                 *)
Deletion == [does : {"delete"}, sample : Samples, todo : SUBSET Processes, last : Processes \cup {None},
             gone : SUBSET Processes]
Edit == [does : {"edit"}, process : Processes, sample_list : (SUBSET Samples) \ {{}}]

(* Processes are made with samples. *)
DeletionsAssumption ==
  /\ IsFiniteSet(Samples)
  /\ Founded \subseteq Samples \X Processes
  /\ \A p \in Processes : \E x \in Founded : x[2] = p
  /\ None \notin Processes \cup Deletion \cup Edit

VARIABLES
  samples, processes, contains,  (* the committed rows, contains as pairs *)
  job,                           (* the running requests *)
  mixed                          (* history: processes whose samples changed too late for a deletion *)

vars == <<samples, processes, contains, job, mixed>>

SamplesOf(p) == {s \in Samples : <<s, p>> \in contains}
ProcessesOf(s) == {p \in Processes : <<s, p>> \in contains}
Deleting == {q \in Requests : job[q] # None /\ job[q].does = "delete"}

(* Rows that a request has deleted but not committed make others wait.     *)
Locked(p) == \E q \in Deleting : p \in job[q].gone

(* Requests for which a change of the samples of p comes too late: they    *)
(* have counted them, or are going to count them for a sample that is no   *)
(* longer among them.                                                      *)
Misled(p, old, new) ==
  {q \in Deleting : old # new /\ job[q].sample \in old \cup new /\ (p \notin job[q].todo \/ job[q].sample \notin new)}
-----------------------------------------------------------------------------
(* Sample.delete, with the list of processes read at once.                 *)
delete(q) ==
  /\ job[q] = None
  /\ \E s \in samples :
       job' = [job EXCEPT ![q] = [does |-> "delete", sample |-> s, todo |-> ProcessesOf(s), last |-> None, gone |-> {}]]
  /\ UNCHANGED <<samples, processes, contains, mixed>>

(* Mutant: the other samples of the process do not count. *)
HasSamples(p) == Cardinality(SamplesOf(p)) >= 1

HasOneSample(p) == Cardinality(SamplesOf(p)) = 1

CountSamples(q) ==
  /\ q \in Deleting /\ job[q].last = None
  /\ \E p \in job[q].todo :
       job' = [job EXCEPT ![q].todo = @ \ {p}, ![q].last = IF HasOneSample(p) THEN p ELSE None]
  /\ UNCHANGED <<samples, processes, contains, mixed>>

(* Process.delete saves the process first, which locks its row, or inserts *)
(* it again.                                                               *)
DeleteProcess(q) ==
  /\ q \in Deleting /\ job[q].last # None /\ ~Locked(job[q].last)
  /\ job' = [job EXCEPT ![q].gone = @ \cup {job[q].last}, ![q].last = None]
  /\ UNCHANGED <<samples, processes, contains, mixed>>

(* The sample leaves all its processes, also those it has got meanwhile.   *)
DeleteSample(q) ==
  /\ q \in Deleting /\ job[q].todo = {} /\ job[q].last = None
  /\ LET s == job[q].sample
     IN  /\ samples' = samples \ {s}
         /\ processes' = processes \ job[q].gone
         /\ contains' = {x \in contains : x[1] # s /\ x[2] \notin job[q].gone}
         /\ mixed' = mixed \cup {p \in ProcessesOf(s) : Misled(p, SamplesOf(p), SamplesOf(p) \ {s}) \ {q} # {}}
  /\ job' = [job EXCEPT ![q] = None]
-----------------------------------------------------------------------------
(* The page for a process is sent with its samples.                        *)
edit(q) ==
  /\ job[q] = None
  /\ \E p \in processes, list \in (SUBSET samples) \ {{}} :
       job' = [job EXCEPT ![q] = [does |-> "edit", process |-> p, sample_list |-> list]]
  /\ UNCHANGED <<samples, processes, contains, mixed>>

(* If the row is gone, save() inserts it again.  If a sample is gone, all  *)
(* is rolled back.                                                         *)
save_to_database(q) ==
  /\ job[q] # None /\ job[q].does = "edit" /\ ~Locked(job[q].process)
  /\ LET p == job[q].process
         list == job[q].sample_list
     IN  IF list \subseteq samples
         THEN /\ processes' = processes \cup {p}
              /\ contains' = {x \in contains : x[2] # p} \cup (list \X {p})
              /\ mixed' = IF Misled(p, SamplesOf(p), list) # {} THEN mixed \cup {p} ELSE mixed
         ELSE UNCHANGED <<processes, contains, mixed>>
  /\ job' = [job EXCEPT ![q] = None]
  /\ UNCHANGED samples

Init ==
  /\ samples = Samples
  /\ processes = Processes
  /\ contains = Founded
  /\ job = [q \in Requests |-> None]
  /\ mixed = {}

Next ==
  \E q \in Requests :
    delete(q) \/ CountSamples(q) \/ DeleteProcess(q) \/ DeleteSample(q) \/ edit(q) \/ save_to_database(q)

Spec == Init /\ [][Next]_vars
-----------------------------------------------------------------------------
(* Processes go with their last sample, however deletions and edits of     *)
(* different processes overlap; only one whose samples were changed while  *)
(* the deletion of one of them was going on may be left without samples.   *)
EmptyOnlyIfMixed == \A p \in processes : (\E x \in contains : x[2] = p) \/ p \in mixed

(* A sample that is not deleted loses none of its processes, unless it got *)
(* into the process after another one had been found to be the last, or    *)
(* others left the process before the samples were counted for them.       *)
SurvivorsKeep ==
  \A x \in contains : x[1] \in samples' /\ x[2] \notin processes' => x[2] \in mixed'

(* Deletions at the same time leave neither processes without samples      *)
(* behind nor take more with them than the samples that were meant.        *)
DeletionsKeepTheRest == EmptyOnlyIfMixed' /\ SurvivorsKeep
=============================================================================
