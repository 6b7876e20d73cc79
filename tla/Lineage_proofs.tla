--------------------------- MODULE Lineage_proofs ---------------------------
(***************************************************************************)
(* The lineage of samples for any number of samples, processes and         *)
(* requests: it is never torn, announced objects are gone after the        *)
(* deletion, samples that stay keep their processes, merges lose none, the *)
(* dead are not measured, and orphans predate a split.                     *)
(***************************************************************************)
EXTENDS Lineage, FiniteSetTheorems, SequenceTheorems, TLAPS

(* Apart from the lineage itself: pieces come from splits and are younger  *)
(* than what they are pieces of, a deleted process has no samples, and     *)
(* depositions do not lie in the future.                                   *)
Orderly ==
  /\ \A p \in Processes \ live : members[p] = {}
  /\ \A p \in live : kind[p] = "deposition" => stamp[p] <= now
  /\ \A s \in Samples : s > born => origin[s] = None
  /\ \A s \in alive : origin[s] # None => kind[origin[s]] = "split" /\ parent[origin[s]] < s

(* The loop of a merge: the processes that it has been through have        *)
(* another sample.                                                         *)
Merging ==
  /\ Len(stack) = 1 /\ ~dry /\ announced = {}
  /\ {Call.from, Call.to} \subseteq alive /\ Call.from # Call.to
  /\ \A p \in live : kind[p] = "split" => parent[p] # Call.from
  /\ Call.todo \subseteq ProcessesOf(Call.from)
  /\ \A p \in live \ Call.todo : members[p] # {Call.from}

IsSample(i) == stack[i].what = "sample"
IsProcess(i) == stack[i].what = "process"

(* The stack goes from samples to processes that have no other sample, and *)
(* from splits to their pieces.                                            *)
Follows(i) ==
  /\ IsSample(i) => IsProcess(i + 1) /\ members[stack[i + 1].id] = {stack[i].id}
  /\ IsProcess(i) => IsSample(i + 1) /\ origin[stack[i + 1].id] = stack[i].id /\ stack[i + 1].id \notin stack[i].todo

Nested ==
  /\ \A i \in 1 .. Len(stack) :
       /\ IsSample(i) \/ IsProcess(i)
       /\ IsSample(i) => stack[i].id \in alive /\ \A p \in stack[i].todo : stack[i].id \in before[p]
       /\ IsProcess(i) => stack[i].id \in live /\ \A s \in stack[i].todo : s \in alive /\ origin[s] = stack[i].id
  /\ \A i \in 1 .. Len(stack) - 1 : Follows(i)
  /\ \A i, j \in 1 .. Len(stack) : i < j =>
       /\ IsSample(i) /\ IsSample(j) => stack[i].id < stack[j].id
       /\ IsProcess(i) /\ IsProcess(j) => stack[i].id # stack[j].id

(* Only samples that have been deleted have left the processes.            *)
Kept ==
  \A p \in live :
    /\ members[p] \subseteq before[p]
    /\ before[p] \cap alive \subseteq members[p]
    /\ kind[p] = "split" => before[p] = {parent[p]}

(* What depends on a sample or a process is gone before it goes itself.    *)
Remaining ==
  /\ \A s \in Samples \ alive, p \in live : before[p] # {s}
  /\ \A i \in 1 .. Len(stack) : IsSample(i) =>
       \A p \in live : before[p] = {stack[i].id} => p \in stack[i].todo \/ (i < Len(stack) /\ stack[i + 1].id = p)
  /\ \A i \in 1 .. Len(stack) : IsProcess(i) =>
       \A s \in alive : origin[s] = stack[i].id => s \in stack[i].todo \/ (i < Len(stack) /\ stack[i + 1].id = s)

(* The samples of a process that is gone without having been announced are *)
(* about to go, too.                                                       *)
Explained ==
  \A p \in Processes \ live : \A s \in before[p] \cap alive :
    Process(p) \in announced \/ \E i \in 1 .. Len(stack) : IsSample(i) /\ stack[i].id = s

(* A set of objects that has with an object all that depends on it.        *)
Closed(C) ==
  \A s \in Samples, p \in Processes :
    /\ Sample(s) \in C /\ before[p] = {s} => Process(p) \in C
    /\ Process(p) \in C /\ origin[s] = p => Sample(s) \in C

Object(call) == IF call.what = "sample" THEN Sample(call.id) ELSE Process(call.id)

(* Nothing is announced but the object and what depends on it.             *)
OnlyDependent == \A C \in SUBSET Objects : Closed(C) /\ Object(stack[1]) \in C => announced \subseteq C

(* After the dry run all that depends on it has been announced.            *)
AllDependent ==
  /\ \A s \in Samples, p \in Processes : Sample(s) \in announced /\ before[p] = {s} =>
       Process(p) \in announced \/ (dry /\ \E i \in 1 .. Len(stack) : IsSample(i) /\ stack[i].id = s /\ p \in stack[i].todo)
  /\ \A s \in alive, p \in Processes : Process(p) \in announced /\ origin[s] = p =>
       Sample(s) \in announced \/ (dry /\ \E i \in 1 .. Len(stack) : IsProcess(i) /\ stack[i].id = p /\ s \in stack[i].todo)

(* What is being deleted has been announced, except for processes that are *)
(* no splits and have lost their other samples meanwhile.                  *)
Warned ==
  \A i \in 1 .. Len(stack) :
    /\ IsSample(i) => Sample(stack[i].id) \in announced
    /\ IsProcess(i) /\ (dry \/ i = 1 \/ kind[stack[i].id] = "split") => Process(stack[i].id) \in announced

(* The end of a merge finds nothing that depends on the sample.            *)
MergedAway ==
  /\ Len(stack) = 1 /\ IsSample(1) /\ ~dry /\ members = before
  /\ \A p \in live : members[p] # {Call.id}

Deleting ==
  /\ Nested
  /\ Kept
  /\ dry => members = before
  /\ ~dry => Remaining
  /\ Explained
  /\ announced # {} => OnlyDependent /\ AllDependent /\ Warned
  /\ announced = {} => MergedAway

Resting == ~dry /\ before = members /\ announced \cap Existing = {}

LineageInv ==
  /\ LineageIntact
  /\ Orderly
  /\ stack = <<>> => Resting
  /\ stack # <<>> => IF Call.what = "merge" THEN Merging ELSE Deleting

-----------------------------------------------------------------------------
(* The bounds are numbers, and so is all that they bound.                  *)
LEMMA Bounds ==
  ASSUME LineageAssumption
  PROVE  /\ MaxSamples \in Nat /\ MaxProcs \in Nat /\ MaxTime \in Nat
         /\ Samples \subseteq Nat \ {0} /\ Processes \subseteq Nat \ {0} /\ Times \subseteq Nat
<1>1. MaxSamples \in Nat /\ MaxProcs \in Nat /\ MaxTime \in Nat
  BY DEF LineageAssumption
<1> QED
  BY <1>1 DEF Samples, Processes, Times

(* The stack.                                                              *)

LEMMA StackHasTop ==
  ASSUME stack \in Seq(Calls), stack # <<>>
  PROVE  Len(stack) \in Nat \ {0} /\ Len(stack) \in 1 .. Len(stack) /\ Call \in Calls
<1>1. Len(stack) \in Nat \ {0}
  BY EmptySeq
<1>2. Len(stack) \in 1 .. Len(stack)
  BY <1>1
<1> QED
  BY <1>1, <1>2, ElementOfSeq DEF Call

LEMMA CallHasKind ==
  ASSUME NEW c \in Calls
  PROVE  /\ c.what \in {"sample", "process", "merge"}
         /\ c.what = "sample" => c \in [what : {"sample"}, id : Samples, todo : SUBSET Processes]
         /\ c.what = "process" => c \in [what : {"process"}, id : Processes, todo : SUBSET Samples]
         /\ c.what = "merge" => c \in [what : {"merge"}, from : Samples, to : Samples, todo : SUBSET Processes]
BY DEF Calls

LEMMA Popped ==
  ASSUME stack \in Seq(Calls), stack # <<>>
  PROVE  /\ Outer \in Seq(Calls) /\ Len(Outer) = Len(stack) - 1
         /\ \A i \in 1 .. Len(stack) - 1 : Outer[i] = stack[i]
         /\ Len(stack) = 1 => Outer = <<>>
<1>1. Len(stack) - 1 \in Nat
  BY StackHasTop
<1>2. \A i \in 1 .. Len(stack) - 1 : stack[i] \in Calls
  BY <1>1, ElementOfSeq
<1>3. Outer \in [1 .. Len(stack) - 1 -> Calls]
  BY <1>2 DEF Outer
<1>4. Outer \in Seq(Calls)
  BY <1>1, <1>3, SeqDef
<1>5. Len(Outer) = Len(stack) - 1
  BY <1>1, <1>3, <1>4, LenProperties
<1>6. Len(stack) = 1 => Outer = <<>>
  BY <1>4, <1>5, EmptySeq
<1> QED
  BY <1>4, <1>5, <1>6 DEF Outer

LEMMA VisitedOne ==
  ASSUME stack \in Seq(Calls), stack # <<>>, Call.what # "merge", NEW x
  PROVE  /\ Visited(x) \in Seq(Calls) /\ Len(Visited(x)) = Len(stack)
         /\ \A i \in 1 .. Len(stack) - 1 : Visited(x)[i] = stack[i]
         /\ LET c == Visited(x)[Len(stack)]
            IN c.what = Call.what /\ c.id = Call.id /\ c.todo = Call.todo \ {x}
<1> DEFINE n == Len(stack)
           c == [Call EXCEPT !.todo = @ \ {x}]
<1>1. n \in Nat \ {0} /\ n \in 1 .. n /\ Call \in Calls
  BY StackHasTop
<1>2. /\ c \in Calls
      /\ c.what = Call.what /\ c.id = Call.id /\ c.todo = Call.todo \ {x}
  <2>1. CASE Call.what = "sample"
    BY <1>1, <2>1, CallHasKind DEF Calls
  <2>2. CASE Call.what = "process"
    BY <1>1, <2>2, CallHasKind DEF Calls
  <2> QED
    BY <1>1, <2>1, <2>2, CallHasKind
<1>3. Visited(x) = [stack EXCEPT ![n] = c]
  BY DEF Visited, Call
<1> HIDE DEF c
<1>4. /\ Visited(x) \in Seq(Calls) /\ Len(Visited(x)) = n
      /\ \A j \in 1 .. n : Visited(x)[j] = IF j = n THEN c ELSE stack[j]
  BY <1>1, <1>2, <1>3, ExceptSeq
<1>5. Visited(x)[n] = c
  BY <1>1, <1>4
<1>6. \A i \in 1 .. n - 1 : Visited(x)[i] = stack[i]
  <2>1. \A i \in 1 .. n - 1 : i \in 1 .. n /\ i # n
    BY <1>1
  <2> QED
    BY <1>4, <2>1
<1> QED
  BY <1>2, <1>4, <1>5, <1>6

LEMMA Called ==
  ASSUME stack \in Seq(Calls), stack # <<>>, Call.what # "merge", NEW x, NEW c \in Calls
  PROVE  LET new == Append(Visited(x), c)
         IN  /\ new \in Seq(Calls) /\ Len(new) = Len(stack) + 1
             /\ \A i \in 1 .. Len(stack) - 1 : new[i] = stack[i]
             /\ new[Len(stack)].what = Call.what /\ new[Len(stack)].id = Call.id
             /\ new[Len(stack)].todo = Call.todo \ {x}
             /\ new[Len(stack) + 1] = c
<1>1. Len(stack) \in Nat \ {0} /\ Len(stack) \in 1 .. Len(stack)
  BY StackHasTop
<1> QED
  BY <1>1, VisitedOne, AppendProperties

(* The count of the samples of a process tells whether there is only one.  *)
LEMMA CountTells ==
  ASSUME LineageAssumption, TypeOK, NEW p \in Processes
  PROVE  IsOnlySample(p) <=> \E s \in Samples : members[p] = {s}
<1>1. members[p] \subseteq 1 .. born /\ born \in Int /\ members[p] \subseteq Samples
  <2>1. born \in 0 .. MaxSamples /\ alive \subseteq 1 .. born /\ members[p] \subseteq alive
    BY DEF TypeOK
  <2>2. 1 .. born \subseteq 1 .. MaxSamples /\ born \in Int
    BY <2>1, Bounds
  <2> QED
    BY <2>1, <2>2 DEF Samples
<1>2. IsFiniteSet(1 .. born)
  BY <1>1, FS_Interval
<1>3. IsFiniteSet(members[p])
  BY <1>1, <1>2, FS_Subset
<1>4. Cardinality(members[p]) = 1 <=> \E s : members[p] = {s}
  BY <1>3, FS_Singleton
<1> QED
  BY <1>1, <1>4 DEF IsOnlySample

-----------------------------------------------------------------------------
(* Requests that do all in one step.                                       *)

Records ==
  {r \in [kind : Kinds, stamp : Times, members : SUBSET alive, parent : Samples \cup {None}] :
     /\ r.kind = "split" => r.members = {r.parent}
     /\ r.kind = "deposition" => r.stamp <= now}

LEMMA ProcessesAreMade ==
  ASSUME LineageAssumption, LineageIntact, Orderly, NEW news \in Seq(Records), Create(news)
  PROVE  /\ made' \in 0 .. MaxProcs /\ made <= made' /\ live \subseteq live' /\ live' \subseteq 1 .. made'
         /\ kind' \in [Processes -> Kinds \cup {"unborn"}] /\ stamp' \in [Processes -> Times]
         /\ parent' \in [Processes -> Samples \cup {None}] /\ members' \in [Processes -> SUBSET alive]
         /\ \A p \in live : kind'[p] = kind[p] /\ stamp'[p] = stamp[p] /\ parent'[p] = parent[p] /\ members'[p] = members[p]
         /\ \A p \in live' \ live : p > made /\ \E r \in Records :
              kind'[p] = r.kind /\ stamp'[p] = r.stamp /\ parent'[p] = r.parent /\ members'[p] = r.members
         /\ \A p \in Processes \ live' : members'[p] = {}
<1> DEFINE n == Len(news)
<1>1. n \in Nat /\ \A i \in 1 .. n : news[i] \in Records
  BY LenProperties, ElementOfSeq
<1> HIDE DEF n
<1>2. made \in Nat /\ MaxProcs \in Nat /\ live \subseteq 1 .. made /\ live \subseteq Processes
  BY DEF LineageIntact, TypeOK, LineageAssumption, Processes
<1>3. made + n <= MaxProcs /\ made' = made + n /\ live' = live \cup (made + 1 .. made + n)
  BY DEF Create, n
<1>4. \A p \in made + 1 .. made + n : p \in Processes /\ p \notin live /\ news[p - made] \in Records
  BY <1>1, <1>2, <1>3 DEF Processes
<1>5. \A p \in Processes \ (made + 1 .. made + n) :
        kind'[p] = kind[p] /\ stamp'[p] = stamp[p] /\ parent'[p] = parent[p] /\ members'[p] = members[p]
  BY DEF Create, n
<1>6. \A p \in made + 1 .. made + n :
        /\ kind'[p] = news[p - made].kind /\ stamp'[p] = news[p - made].stamp
        /\ parent'[p] = news[p - made].parent /\ members'[p] = news[p - made].members
  BY <1>4 DEF Create, n
<1>7. \A r \in Records : r.kind \in Kinds /\ r.stamp \in Times /\ r.members \in SUBSET alive /\ r.parent \in Samples \cup {None}
  BY DEF Records
<1>8. /\ kind' \in [Processes -> Kinds \cup {"unborn"}] /\ stamp' \in [Processes -> Times]
      /\ parent' \in [Processes -> Samples \cup {None}] /\ members' \in [Processes -> SUBSET alive]
  BY <1>4, <1>7 DEF Create, n, LineageIntact, TypeOK
<1>9. \A p \in Processes \ live' : members'[p] = {}
  BY <1>3, <1>5 DEF Orderly
<1>10. made' \in 0 .. MaxProcs /\ made <= made' /\ live \subseteq live' /\ live' \subseteq 1 .. made'
  <2>1. made' \in 0 .. MaxProcs /\ made <= made'
    BY <1>1, <1>2, <1>3
  <2>2. 1 .. made \subseteq 1 .. made' /\ made + 1 .. made + n \subseteq 1 .. made'
    BY <1>1, <1>2, <1>3
  <2> QED
    BY <1>2, <1>3, <2>1, <2>2
<1>11. \A p \in live' \ live : p > made /\ p \in made + 1 .. made + n
  BY <1>1, <1>2, <1>3
<1>12. \A p \in live : kind'[p] = kind[p] /\ stamp'[p] = stamp[p] /\ parent'[p] = parent[p] /\ members'[p] = members[p]
  BY <1>2, <1>4, <1>5
<1>13. ASSUME NEW p \in live', p \notin live
       PROVE  p > made /\ \E r \in Records :
                kind'[p] = r.kind /\ stamp'[p] = r.stamp /\ parent'[p] = r.parent /\ members'[p] = r.members
  <2>1. p > made /\ p \in made + 1 .. made + n
    BY <1>11, <1>13
  <2> QED
    BY <1>4, <1>6, <2>1
<1> QED
  BY <1>8, <1>9, <1>10, <1>12, <1>13

LEMMA PiecesAreMade ==
  ASSUME LineageAssumption, LineageIntact, Orderly, NEW q \in Processes, NEW n \in 1 .. MaxSamples, MakePieces(q, n)
  PROVE  /\ born' \in 0 .. MaxSamples /\ alive \subseteq alive' /\ alive' \subseteq 1 .. born'
         /\ origin' \in [Samples -> Processes \cup {None}]
         /\ \A s \in alive : origin'[s] = origin[s]
         /\ \A s \in alive' \ alive : s > born /\ origin'[s] = q
         /\ \A s \in Samples : s > born' => origin'[s] = None
<1>1. /\ born \in Nat /\ MaxSamples \in Nat /\ n \in Nat /\ alive \subseteq 1 .. born
      /\ born' = born + n /\ born + n <= MaxSamples /\ alive' = alive \cup (born + 1 .. born + n)
      /\ origin' = [s \in Samples |-> IF s \in born + 1 .. born + n THEN q ELSE origin[s]]
  BY DEF MakePieces, LineageIntact, TypeOK, LineageAssumption
<1>2. \A s \in Samples : s > born => origin[s] = None
  BY DEF Orderly
<1>3. origin' \in [Samples -> Processes \cup {None}]
  BY <1>1 DEF LineageIntact, TypeOK
<1>4. born' \in 0 .. MaxSamples /\ alive \subseteq alive' /\ alive' \subseteq 1 .. born'
  BY <1>1
<1>5. \A s \in alive : s \in Samples /\ s \notin born + 1 .. born + n
  BY <1>1 DEF Samples
<1>6. \A s \in alive : origin'[s] = origin[s]
  BY <1>1, <1>5
<1>7. \A s \in alive' \ alive : s \in Samples /\ s \in born + 1 .. born + n /\ s > born
  BY <1>1 DEF Samples
<1>8. \A s \in alive' \ alive : s > born /\ origin'[s] = q
  BY <1>1, <1>7
<1>9. \A s \in Samples : s > born' => s > born /\ s \notin born + 1 .. born + n
  BY <1>1, Bounds
<1>10. \A s \in Samples : s > born' => origin'[s] = None
  BY <1>1, <1>2, <1>9
<1> QED
  BY <1>3, <1>4, <1>6, <1>8, <1>10

(* New processes, and perhaps pieces of a new or an old split, keep the    *)
(* lineage.                                                                *)
LEMMA LineageGrows ==
  ASSUME LineageAssumption, LineageInv, LineageIntact, Orderly, stack = <<>>, Request, before' = members',
         made' \in 0 .. MaxProcs, live \subseteq live', live' \subseteq 1 .. made',
         kind' \in [Processes -> Kinds \cup {"unborn"}], stamp' \in [Processes -> Times],
         parent' \in [Processes -> Samples \cup {None}], members' \in [Processes -> SUBSET alive],
         \A p \in live : kind'[p] = kind[p] /\ parent'[p] = parent[p],
         \A p \in live : kind[p] = "split" => members'[p] = members[p],
         \A p \in live : kind[p] = "deposition" => stamp'[p] <= now,
         \A p \in live' \ live : \E r \in Records :
           kind'[p] = r.kind /\ stamp'[p] = r.stamp /\ parent'[p] = r.parent /\ members'[p] = r.members,
         \A p \in Processes \ live' : members'[p] = {},
         born' \in 0 .. MaxSamples, alive \subseteq alive', alive' \subseteq 1 .. born',
         origin' \in [Samples -> Processes \cup {None}],
         \A s \in alive : origin'[s] = origin[s],
         \A s \in alive' \ alive : origin'[s] # None =>
           origin'[s] \in live' /\ kind'[origin'[s]] = "split" /\ parent'[origin'[s]] < s,
         \A s \in Samples : s > born' => origin'[s] = None,
         split_done' \subseteq {p \in live : kind[p] = "deposition"}
  PROVE  LineageInv'
<1>1. now' \in 0 .. MaxTime /\ now' = now + 1 /\ now \in 0 .. MaxTime /\ announced' = {} /\ stack' = <<>> /\ dry' = dry
  <2>1. now \in 0 .. MaxTime /\ now < MaxTime /\ now' = now + 1 /\ announced' = {} /\ stack' = stack /\ dry' = dry
    BY DEF Request, Tick, LineageIntact, TypeOK
  <2> QED
    BY <2>1, Bounds
<1>2. TypeOK'
  <2>1. alive' \subseteq Samples
    BY Bounds DEF Samples
  <2>2. members' \in [Processes -> SUBSET alive'] /\ before' \in [Processes -> SUBSET Samples]
    BY <2>1
  <2>3. split_done' \subseteq {p \in live' : kind'[p] = "deposition"}
    OBVIOUS
  <2>4. <<>> \in Seq(Calls) /\ dry' \in BOOLEAN
    BY <1>1, EmptySeq DEF LineageIntact, TypeOK
  <2> QED
    BY <1>1, <2>2, <2>3, <2>4 DEF TypeOK
<1>3. \A p \in live' : kind'[p] = "split" => parent'[p] \in alive' /\ members'[p] = {parent'[p]}
  <2>1. \A p \in live : kind[p] = "split" => parent[p] \in alive /\ members[p] = {parent[p]}
    BY DEF LineageIntact
  <2>2. \A r \in Records : r.kind = "split" => r.members = {r.parent} /\ r.parent \in alive
    BY DEF Records
  <2>3. ASSUME NEW p \in live', kind'[p] = "split"
        PROVE  parent'[p] \in alive' /\ members'[p] = {parent'[p]}
    <3>1. CASE p \in live
      <4>1. kind'[p] = kind[p] /\ parent'[p] = parent[p]
        BY <3>1
      <4>2. members'[p] = members[p]
        BY <2>3, <3>1, <4>1
      <4> QED
        BY <2>1, <2>3, <3>1, <4>1, <4>2
    <3>2. CASE p \notin live
      <4>1. PICK r \in Records : kind'[p] = r.kind /\ parent'[p] = r.parent /\ members'[p] = r.members
        BY <3>2
      <4>2. r.members = {r.parent} /\ r.parent \in alive
        BY <2>2, <2>3, <4>1
      <4> QED
        BY <4>1, <4>2
    <3> QED
      BY <3>1, <3>2
  <2> QED
    BY <2>3
<1>4. \A s \in alive' : origin'[s] # None =>
        origin'[s] \in live' /\ kind'[origin'[s]] = "split" /\ parent'[origin'[s]] < s
  <2>1. \A s \in alive : origin[s] # None => origin[s] \in live /\ kind[origin[s]] = "split" /\ parent[origin[s]] < s
    BY DEF LineageIntact, Orderly
  <2>2. ASSUME NEW s \in alive', origin'[s] # None
        PROVE  origin'[s] \in live' /\ kind'[origin'[s]] = "split" /\ parent'[origin'[s]] < s
    <3>1. CASE s \in alive
      <4>1. origin[s] # None /\ origin'[s] = origin[s] /\ origin[s] \in live
        BY <2>1, <2>2, <3>1
      <4>2. kind'[origin[s]] = kind[origin[s]] /\ parent'[origin[s]] = parent[origin[s]]
        BY <4>1
      <4> QED
        BY <2>1, <3>1, <4>1, <4>2
    <3>2. CASE s \notin alive
      BY <2>2, <3>2
    <3> QED
      BY <3>1, <3>2
  <2> QED
    BY <2>2
<1>5. \A p \in live' : kind'[p] = "deposition" => stamp'[p] <= now'
  <2>2. \A r \in Records : r.kind = "deposition" => r.stamp <= now
    BY DEF Records
  <2>3. \A p \in live' : kind'[p] = "deposition" => stamp'[p] <= now /\ stamp'[p] \in Int
    <3>1. \A p \in live' : p \in Processes
      BY Bounds DEF Processes
    <3>2. \A p \in live' : stamp'[p] \in Int
      BY <3>1, Bounds
    <3>3. ASSUME NEW p \in live', kind'[p] = "deposition"
          PROVE  stamp'[p] <= now
      <4>1. CASE p \in live
        BY <3>3, <4>1
      <4>2. CASE p \notin live
        BY <2>2, <3>3, <4>2
      <4> QED
        BY <4>1, <4>2
    <3> QED
      BY <3>2, <3>3
  <2> QED
    BY <1>1, <2>3
<1>6. LineageIntact' /\ Orderly'
  BY <1>2, <1>3, <1>4, <1>5 DEF LineageIntact, Orderly
<1>7. ~dry
  BY DEF LineageInv, Resting
<1> QED
  BY <1>1, <1>6, <1>7 DEF LineageInv, Resting

LEMMA SampleIsAdded ==
  ASSUME LineageAssumption, LineageInv, stack = <<>>, before' = members', AddSample
  PROVE  LineageInv'
<1>1. LineageIntact /\ Orderly /\ Request
  BY DEF LineageInv, AddSample
<1>2. UNCHANGED <<made, live, kind, stamp, parent, members, split_done, origin>>
  BY DEF AddSample, procs
<1>3. /\ made \in 0 .. MaxProcs /\ live \subseteq 1 .. made /\ kind \in [Processes -> Kinds \cup {"unborn"}]
      /\ stamp \in [Processes -> Times] /\ parent \in [Processes -> Samples \cup {None}]
      /\ members \in [Processes -> SUBSET alive] /\ origin \in [Samples -> Processes \cup {None}]
      /\ split_done \subseteq {p \in live : kind[p] = "deposition"}
  BY <1>1 DEF LineageIntact, TypeOK
<1>4. /\ \A p \in live : kind[p] = "deposition" => stamp[p] <= now
      /\ \A p \in Processes \ live : members[p] = {}
      /\ \A s \in Samples : s > born => origin[s] = None
  BY <1>1 DEF Orderly
<1>5. born \in Nat /\ alive \subseteq 1 .. born /\ born < MaxSamples /\ born' = born + 1 /\ alive' = alive \cup {born + 1}
  BY <1>1 DEF AddSample, LineageIntact, TypeOK
<1>6. born' \in 0 .. MaxSamples /\ alive \subseteq alive' /\ alive' \subseteq 1 .. born' /\ born + 1 \in Samples
  BY <1>5, Bounds DEF Samples
<1>7. \A s \in alive' \ alive : origin'[s] = None
  BY <1>2, <1>4, <1>5, <1>6
<1>8. \A s \in Samples : s > born' => origin'[s] = None
  BY <1>2, <1>4, <1>5, Bounds
<1> QED
  BY <1>1, <1>2, <1>3, <1>4, <1>6, <1>7, <1>8, LineageGrows

(* The records of physical processes, results, and deaths.                 *)
LEMMA ProcessIsAdded ==
  ASSUME LineageAssumption, LineageInv, stack = <<>>, before' = members', Request,
         NEW news \in Seq(Records), Create(news), UNCHANGED <<samples, split_done>>
  PROVE  LineageInv'
<1>1. LineageIntact /\ Orderly
  BY DEF LineageInv
<1>2. UNCHANGED <<born, alive, origin, split_done>>
  BY DEF samples
<1>3. /\ born \in 0 .. MaxSamples /\ alive \subseteq 1 .. born /\ origin \in [Samples -> Processes \cup {None}]
      /\ split_done \subseteq {p \in live : kind[p] = "deposition"}
      /\ \A s \in Samples : s > born => origin[s] = None
      /\ \A p \in live : kind[p] = "deposition" => stamp[p] <= now
  BY <1>1 DEF LineageIntact, Orderly, TypeOK
<1> QED
  BY <1>1, <1>2, <1>3, ProcessesAreMade, LineageGrows

LEMMA PhysicalIsAdded ==
  ASSUME LineageAssumption, LineageInv, stack = <<>>, before' = members',
         NEW k \in Physical \cup {"result"}, NEW ss \in SUBSET alive, NEW t \in Times, AddPhysical(k, ss, t) \/ (k = "result" /\ AddResult(ss, t))
  PROVE  LineageInv'
<1>1. now \in Nat
  BY DEF LineageInv, LineageIntact, TypeOK
<1>2. t \in Enterable /\ Request /\ Create(<<New(k, t, ss, None)>>) /\ UNCHANGED <<samples, split_done>>
  BY DEF AddPhysical, AddResult
<1>3. t <= now
  BY <1>1, <1>2 DEF Enterable
<1>4. New(k, t, ss, None) \in Records
  BY <1>3 DEF Records, New, Kinds, Physical
<1>5. <<New(k, t, ss, None)>> \in Seq(Records)
  BY <1>4
<1> QED
  BY <1>2, <1>5, ProcessIsAdded

LEMMA SampleIsKilled ==
  ASSUME LineageAssumption, LineageInv, stack = <<>>, before' = members', NEW s \in alive, Kill(s)
  PROVE  LineageInv'
<1>1. now \in Times
  BY Bounds DEF LineageInv, LineageIntact, TypeOK, Times
<1>2. Request /\ Create(<<New("death", now, {s}, None)>>) /\ UNCHANGED <<samples, split_done>>
  BY DEF Kill
<1>3. New("death", now, {s}, None) \in Records
  BY <1>1 DEF Records, New, Kinds, Physical
<1>4. <<New("death", now, {s}, None)>> \in Seq(Records)
  BY <1>3
<1> QED
  BY <1>2, <1>4, ProcessIsAdded

(* A new split with its pieces, and with a death if it is complete.        *)
LEMMA SampleIsSplit ==
  ASSUME LineageAssumption, LineageInv, stack = <<>>, before' = members', Request,
         NEW s \in alive, NEW t \in 0 .. MaxTime + 1, NEW n \in 1 .. MaxSamples, NEW complete \in BOOLEAN,
         MakePieces(made + 1, n), Create(SplitOf(s, t, complete)),
         split_done' \subseteq {p \in live : kind[p] = "deposition"}
  PROVE  LineageInv'
<1>1. LineageIntact /\ Orderly
  BY DEF LineageInv
<1>2. t \in Times /\ t + 1 \in Times /\ t \in Int
  BY Bounds DEF Times
<1>3. born \in Nat /\ alive \subseteq 1 .. born /\ s <= born /\ s \in Int /\ s \in Samples /\ made \in Nat /\ live \subseteq 1 .. made
  BY <1>1, Bounds DEF LineageIntact, TypeOK, Samples
<1>4. New("split", t, {s}, s) \in Records /\ New("death", t + 1, {s}, None) \in Records
  BY <1>2, <1>3 DEF Records, New, Kinds, Physical
<1>5. SplitOf(s, t, complete) \in Seq(Records)
  BY <1>4 DEF SplitOf
<1>6. Len(SplitOf(s, t, complete)) \in {1, 2} /\ SplitOf(s, t, complete)[1] = New("split", t, {s}, s)
  BY DEF SplitOf
<1>7. made + 1 \in Processes /\ made + 1 \in live' /\ kind'[made + 1] = "split" /\ parent'[made + 1] = s
  <2> DEFINE news == SplitOf(s, t, complete)
  <2> HIDE DEF news
  <2>1. made + Len(news) <= MaxProcs /\ live' = live \cup (made + 1 .. made + Len(news))
    BY DEF Create, news
  <2>2. Len(news) \in {1, 2} /\ news[1] = New("split", t, {s}, s)
    BY <1>6 DEF news
  <2>3. made + 1 \in made + 1 .. made + Len(news) /\ made + 1 \in Processes /\ (made + 1) - made = 1
    BY <1>3, <2>1, <2>2, Bounds DEF Processes
  <2>4. kind'[made + 1] = news[1].kind /\ parent'[made + 1] = news[1].parent
    BY <2>3 DEF Create, news
  <2> QED
    BY <2>1, <2>2, <2>3, <2>4 DEF New
<1>8. \A p \in live : kind[p] = "deposition" => stamp[p] <= now
  BY <1>1 DEF Orderly
<1>9. /\ born' \in 0 .. MaxSamples /\ alive \subseteq alive' /\ alive' \subseteq 1 .. born'
      /\ origin' \in [Samples -> Processes \cup {None}]
      /\ \A x \in alive : origin'[x] = origin[x]
      /\ \A x \in alive' \ alive : x > born /\ origin'[x] = made + 1
      /\ \A x \in Samples : x > born' => origin'[x] = None
  BY <1>1, <1>7, PiecesAreMade
<1>10. \A x \in alive' \ alive : origin'[x] \in live' /\ kind'[origin'[x]] = "split" /\ parent'[origin'[x]] < x
  <2>1. \A x \in alive' : x \in Int
    <3>1. 1 .. born' \subseteq Int
      BY <1>9
    <3> QED
      BY <1>9, <3>1
  <2>2. \A x \in alive' \ alive : s < x
    BY <1>3, <1>9, <2>1
  <2> QED
    BY <1>7, <1>9, <2>2
<1> QED
  BY <1>1, <1>5, <1>8, <1>9, <1>10, ProcessesAreMade, LineageGrows

LEMMA ProcessIsEdited ==
  ASSUME LineageAssumption, LineageInv, stack = <<>>, before' = members', NEW p \in Processes, NEW t \in Times,
         EditDeposition(p, t) \/ \E ss \in SUBSET alive : EditMeasurement(p, ss, t)
  PROVE  LineageInv'
<1>1. LineageIntact /\ Orderly
  BY DEF LineageInv
<1>2. /\ made \in 0 .. MaxProcs /\ live \subseteq 1 .. made /\ kind \in [Processes -> Kinds \cup {"unborn"}]
      /\ stamp \in [Processes -> Times] /\ parent \in [Processes -> Samples \cup {None}]
      /\ members \in [Processes -> SUBSET alive]
      /\ born \in 0 .. MaxSamples /\ alive \subseteq 1 .. born /\ origin \in [Samples -> Processes \cup {None}]
      /\ split_done \subseteq {q \in live : kind[q] = "deposition"} /\ now \in Nat
  BY <1>1 DEF LineageIntact, TypeOK
<1>3. /\ Request /\ p \in live /\ t \in Enterable \cup {stamp[p]}
      /\ stamp' = [stamp EXCEPT ![p] = t]
      /\ UNCHANGED <<born, alive, origin, made, live, kind, parent, split_done>>
  BY DEF EditDeposition, EditMeasurement, samples
<1>4. stamp' \in [Processes -> Times]
  BY <1>2, <1>3
<1>5. \A q \in live : kind[q] = "deposition" => stamp'[q] <= now
  <2>1. \A q \in live : q \in Processes /\ (kind[q] = "deposition" => stamp[q] <= now)
    BY <1>1, <1>2, Bounds DEF Orderly, Processes
  <2>2. kind[p] = "deposition" => t <= now
    BY <1>2, <1>3, <2>1 DEF Enterable
  <2> QED
    BY <1>2, <1>3, <2>1, <2>2
<1>6. /\ members' \in [Processes -> SUBSET alive]
      /\ \A q \in live : kind[q] = "split" => members'[q] = members[q]
      /\ \A q \in Processes \ live : members'[q] = members[q]
  <2>1. CASE EditDeposition(p, t)
    BY <1>2, <2>1 DEF EditDeposition
  <2>2. ASSUME NEW ss \in SUBSET alive, EditMeasurement(p, ss, t)
        PROVE  /\ members' \in [Processes -> SUBSET alive]
               /\ \A q \in live : kind[q] = "split" => members'[q] = members[q]
               /\ \A q \in Processes \ live : members'[q] = members[q]
    BY <1>2, <2>2 DEF EditMeasurement
  <2> QED
    BY <2>1, <2>2
<1>7. /\ \A q \in Processes \ live : members'[q] = {}
      /\ \A s \in Samples : s > born => origin[s] = None
  BY <1>1, <1>6 DEF Orderly
<1> QED
  BY <1>1, <1>2, <1>3, <1>4, <1>5, <1>6, <1>7, LineageGrows

LEMMA SplitIsContinued ==
  ASSUME LineageAssumption, LineageInv, stack = <<>>, before' = members', NEW p \in Processes,
         NEW n \in 1 .. MaxSamples, NEW complete \in BOOLEAN, Resplit(p, n, complete)
  PROVE  LineageInv'
<1>1. LineageIntact /\ Orderly /\ Request
  BY DEF LineageInv, Resplit
<1>2. /\ made \in Nat /\ live \subseteq 1 .. made /\ kind \in [Processes -> Kinds \cup {"unborn"}]
      /\ stamp \in [Processes -> Times] /\ parent \in [Processes -> Samples \cup {None}]
      /\ members \in [Processes -> SUBSET alive] /\ born \in Nat /\ alive \subseteq 1 .. born
      /\ split_done \subseteq {q \in live : kind[q] = "deposition"}
      /\ \A q \in Processes \ live : members[q] = {}
      /\ \A q \in live : kind[q] = "deposition" => stamp[q] <= now
  BY <1>1 DEF LineageIntact, Orderly, TypeOK
<1>3. now \in Times /\ now + 1 \in Times
  <2>1. now \in 0 .. MaxTime
    BY <1>1 DEF LineageIntact, TypeOK
  <2> QED
    BY <2>1, Bounds DEF Times
<1>4. p \in live /\ kind[p] = "split" /\ MakePieces(p, n) /\ UNCHANGED <<parent, split_done>>
  BY DEF Resplit
<1>5. parent[p] \in alive /\ parent[p] <= born /\ parent[p] \in Int
  <2>1. parent[p] \in alive
    BY <1>1, <1>4 DEF LineageIntact
  <2>2. born \in Nat /\ alive \subseteq 1 .. born
    BY <1>2
  <2>3. \A s \in alive : s <= born /\ s \in Int
    BY <2>2
  <2> QED
    BY <2>1, <2>3
<1> DEFINE death == IF complete THEN {made + 1} ELSE {}
<1>6. /\ made' = IF complete THEN made + 1 ELSE made
      /\ made' <= MaxProcs
      /\ live' = live \cup death
      /\ kind' = [q \in Processes |-> IF q \in death THEN "death" ELSE kind[q]]
      /\ stamp' = [q \in Processes |-> IF q \in death THEN now + 1 ELSE IF q = p THEN now ELSE stamp[q]]
      /\ members' = [q \in Processes |-> IF q \in death THEN {parent[p]} ELSE members[q]]
  BY DEF Resplit
<1>7. \A q \in death : q = made + 1 /\ q \notin live /\ q \in 1 .. made' /\ q \in Processes
  BY <1>2, <1>6, Bounds DEF Processes
<1>8. made' \in 0 .. MaxProcs /\ live' \subseteq 1 .. made'
  <2>1. made' \in 0 .. MaxProcs /\ made <= made' /\ made' \in Nat
    BY <1>2, <1>6, Bounds
  <2>2. 1 .. made \subseteq 1 .. made'
    BY <1>2, <2>1
  <2>3. death \subseteq 1 .. made'
    BY <1>7
  <2> QED
    BY <1>2, <1>6, <2>1, <2>2, <2>3
<1> HIDE DEF death
<1>9. /\ live \subseteq live'
      /\ kind' \in [Processes -> Kinds \cup {"unborn"}] /\ stamp' \in [Processes -> Times]
      /\ parent' \in [Processes -> Samples \cup {None}] /\ members' \in [Processes -> SUBSET alive]
  BY <1>2, <1>3, <1>4, <1>5, <1>6 DEF Kinds
<1>10. \A q \in live : q \in Processes /\ q \notin death
  BY <1>2, <1>6, <1>7, Bounds DEF Processes, LineageIntact, TypeOK
<1>11. \A q \in live : kind'[q] = kind[q] /\ parent'[q] = parent[q] /\ members'[q] = members[q]
  BY <1>4, <1>6, <1>10
<1>12. \A q \in live : kind[q] = "deposition" => stamp'[q] <= now
  BY <1>2, <1>4, <1>6, <1>10
<1>13. \A q \in live' \ live : \E r \in Records :
         kind'[q] = r.kind /\ stamp'[q] = r.stamp /\ parent'[q] = r.parent /\ members'[q] = r.members
  <2> SUFFICES ASSUME NEW q \in live', q \notin live
               PROVE  \E r \in Records :
                 kind'[q] = r.kind /\ stamp'[q] = r.stamp /\ parent'[q] = r.parent /\ members'[q] = r.members
    OBVIOUS
  <2>1. q \in death /\ q \in Processes
    BY <1>6, <1>7
  <2>2. kind'[q] = "death" /\ stamp'[q] = now + 1 /\ members'[q] = {parent[p]}
    BY <1>6, <2>1
  <2>3. parent'[q] \in Samples \cup {None}
    BY <1>9, <2>1
  <2> DEFINE r == New("death", now + 1, {parent[p]}, parent'[q])
  <2>4. r \in Records
    BY <1>3, <1>5, <2>3 DEF Records, New, Kinds
  <2>5. kind'[q] = r.kind /\ stamp'[q] = r.stamp /\ parent'[q] = r.parent /\ members'[q] = r.members
    BY <2>2 DEF New
  <2> QED
    BY <2>4, <2>5
<1>14. \A q \in Processes \ live' : members'[q] = {}
  BY <1>2, <1>6
<1>15. /\ born' \in 0 .. MaxSamples /\ alive \subseteq alive' /\ alive' \subseteq 1 .. born'
       /\ origin' \in [Samples -> Processes \cup {None}]
       /\ \A x \in alive : origin'[x] = origin[x]
       /\ \A x \in alive' \ alive : x > born /\ origin'[x] = p
       /\ \A x \in Samples : x > born' => origin'[x] = None
  BY <1>1, <1>4, PiecesAreMade
<1>16. \A x \in alive' \ alive : origin'[x] \in live' /\ kind'[origin'[x]] = "split" /\ parent'[origin'[x]] < x
  <2>1. \A x \in alive' : x \in Int
    <3>1. 1 .. born' \subseteq Int
      BY <1>15
    <3> QED
      BY <1>15, <3>1
  <2>2. \A x \in alive' \ alive : parent[p] < x
    BY <1>2, <1>5, <1>15, <2>1
  <2>3. p \in live' /\ kind'[p] = "split" /\ parent'[p] = parent[p]
    <3>1. p \in live /\ kind[p] = "split"
      BY <1>4
    <3>2. p \in live'
      BY <1>9, <3>1
    <3> QED
      BY <1>11, <3>1, <3>2
  <2> SUFFICES ASSUME NEW x \in alive' \ alive
               PROVE  origin'[x] \in live' /\ kind'[origin'[x]] = "split" /\ parent'[origin'[x]] < x
    OBVIOUS
  <2>4. origin'[x] = p
    BY <1>15
  <2>5. parent[p] < x
    BY <2>2
  <2> QED
    BY <2>3, <2>4, <2>5
<1>17. split_done' \subseteq {q \in live : kind[q] = "deposition"}
  BY <1>2, <1>4
<1> QED
  BY <1>1, <1>8, <1>9, <1>11, <1>12, <1>13, <1>14, <1>15, <1>16, <1>17, LineageGrows

LEMMA SampleIsSplitAfterDeposition ==
  ASSUME LineageAssumption, LineageInv, stack = <<>>, before' = members', NEW p \in Processes,
         NEW s \in alive, NEW n \in 1 .. MaxSamples, SplitAfterDeposition(p, s, n)
  PROVE  LineageInv'
<1>1. LineageIntact /\ Orderly /\ Request /\ p \in live /\ kind[p] = "deposition" /\ split_done' = split_done \cup {p}
  BY DEF LineageInv, SplitAfterDeposition
<1>2. now \in 0 .. MaxTime /\ stamp[p] \in Times /\ stamp[p] <= now
  BY <1>1 DEF LineageIntact, TypeOK, Orderly
<1>3. split_done' \subseteq {q \in live : kind[q] = "deposition"}
  BY <1>1 DEF LineageIntact, TypeOK
<1>4. CASE n > 1
  <2>1. MakePieces(made + 1, n) /\ Create(SplitOf(s, stamp[p] + 1, TRUE))
    BY <1>4 DEF SplitAfterDeposition
  <2>2. stamp[p] + 1 \in 0 .. MaxTime + 1
    BY <1>2, Bounds
  <2> QED
    BY <1>1, <1>3, <2>1, <2>2, SampleIsSplit
<1>5. CASE ~(n > 1)
  <2>1. UNCHANGED <<born, alive, origin, made, live, kind, stamp, parent, members>>
    BY <1>5 DEF SplitAfterDeposition, samples
  <2>2. /\ made \in 0 .. MaxProcs /\ live \subseteq 1 .. made /\ kind \in [Processes -> Kinds \cup {"unborn"}]
        /\ stamp \in [Processes -> Times] /\ parent \in [Processes -> Samples \cup {None}]
        /\ members \in [Processes -> SUBSET alive]
        /\ born \in 0 .. MaxSamples /\ alive \subseteq 1 .. born /\ origin \in [Samples -> Processes \cup {None}]
        /\ \A q \in Processes \ live : members[q] = {}
        /\ \A q \in live : kind[q] = "deposition" => stamp[q] <= now
        /\ \A x \in Samples : x > born => origin[x] = None
    BY <1>1 DEF LineageIntact, Orderly, TypeOK
  <2> QED
    BY <1>1, <1>3, <2>1, <2>2, LineageGrows
<1> QED
  BY <1>4, <1>5

-----------------------------------------------------------------------------
(* Deletions.                                                              *)

LEMMA CallsFit ==
  ASSUME LineageAssumption, LineageIntact, Orderly
  PROVE  /\ \A s \in alive, really \in BOOLEAN :
              LET c == SampleCall(s, really)
              IN c \in Calls /\ c.what = "sample" /\ c.id = s /\ c.todo = ProcessesOf(s)
         /\ \A p \in live :
              LET c == ProcessCall(p)
              IN c \in Calls /\ c.what = "process" /\ c.id = p /\ c.todo = Pieces(p)
<1>1. /\ alive \subseteq 1 .. born /\ born \in 0 .. MaxSamples
      /\ live \subseteq 1 .. made /\ made \in 0 .. MaxProcs
  BY DEF LineageIntact, TypeOK
<1>2. alive \subseteq Samples /\ live \subseteq Processes
  <2>1. 1 .. born \subseteq Samples /\ 1 .. made \subseteq Processes
    BY <1>1, Bounds DEF Samples, Processes
  <2> QED
    BY <1>1, <2>1
<1>3. \A p \in live : kind[p] # "split" => Pieces(p) = {}
  <2>1. \A p \in live : p # None
    BY <1>2, Bounds DEF None
  <2>2. \A s \in alive : origin[s] # None => kind[origin[s]] = "split"
    BY DEF Orderly
  <2> QED
    BY <2>1, <2>2 DEF Pieces
<1>4. \A s \in alive : ProcessesOf(s) \subseteq Processes
  BY <1>2 DEF ProcessesOf
<1>5. \A p \in live : Pieces(p) \subseteq Samples
  BY <1>2 DEF Pieces
<1>6. \A s \in alive, really \in BOOLEAN :
        SampleCall(s, really) = [what |-> "sample", id |-> s, todo |-> ProcessesOf(s)]
  BY DEF SampleCall
<1>7. \A p \in live : ProcessCall(p) = [what |-> "process", id |-> p, todo |-> Pieces(p)]
  BY <1>3 DEF ProcessCall
<1>8. \A s \in alive : [what |-> "sample", id |-> s, todo |-> ProcessesOf(s)] \in Calls
  BY <1>2, <1>4 DEF Calls
<1>9. \A p \in live : [what |-> "process", id |-> p, todo |-> Pieces(p)] \in Calls
  BY <1>2, <1>5 DEF Calls
<1> QED
  BY <1>6, <1>7, <1>8, <1>9

(* Samples and processes are not mixed up.                                 *)
LEMMA ObjectsDiffer ==
  ASSUME NEW x, NEW y
  PROVE  /\ Sample(x) # Process(y)
         /\ Sample(x) = Sample(y) => x = y
         /\ Process(x) = Process(y) => x = y
BY DEF Sample, Process

LEMMA OneCall ==
  ASSUME NEW c \in Calls
  PROVE  <<c>> \in Seq(Calls) /\ Len(<<c>>) = 1 /\ <<c>>[1] = c /\ <<c>> # <<>>
OBVIOUS

(* A deletion, or its dry run, begins.                                     *)
LEMMA DeletionStarts ==
  ASSUME LineageAssumption, LineageIntact, Orderly, before' = members,
         UNCHANGED <<alive, origin, live, kind, parent, members>>,
         NEW c \in Calls, stack' = <<c>>,
         \/ c.what = "sample" /\ c.id \in alive /\ c.todo = ProcessesOf(c.id)
         \/ c.what = "process" /\ c.id \in live /\ c.todo = Pieces(c.id),
         announced' # {} => (OnlyDependent /\ AllDependent)' /\ Object(c) \in announced',
         announced' = {} => MergedAway'
  PROVE  Deleting'
<1>1. Len(stack') = 1 /\ stack'[1] = c
  BY OneCall
<1>2. \A p \in live : p \in Processes
  BY Bounds DEF LineageIntact, TypeOK, Processes
<1>3. /\ members \in [Processes -> SUBSET alive]
      /\ \A p \in live : kind[p] = "split" => members[p] = {parent[p]}
      /\ \A p \in Processes \ live : members[p] = {}
  BY DEF LineageIntact, Orderly, TypeOK
<1>4. Nested'
  <2>1. \A i \in 1 .. Len(stack') : i = 1
    BY <1>1
  <2>2. 1 .. Len(stack') - 1 = {}
    BY <1>1
  <2>3. c.what = "sample" => c.id \in alive /\ \A p \in c.todo : c.id \in before'[p]
    BY DEF ProcessesOf
  <2>4. c.what = "process" => c.id \in live /\ \A s \in c.todo : s \in alive /\ origin[s] = c.id
    BY DEF Pieces
  <2>5. \A i, j \in 1 .. Len(stack') : ~(i < j)
    BY <2>1
  <2> QED
    BY <1>1, <2>1, <2>2, <2>3, <2>4, <2>5 DEF Nested, IsSample, IsProcess
<1>5. Kept'
  BY <1>2, <1>3 DEF Kept
<1>6. Remaining'
  <2>1. \A s \in Samples \ alive, p \in live : before'[p] # {s}
    BY <1>2, <1>3
  <2>2. c.what = "sample" => \A p \in live : before'[p] = {c.id} => p \in c.todo
    BY DEF ProcessesOf
  <2>3. c.what = "process" => \A s \in alive : origin[s] = c.id => s \in c.todo
    BY DEF Pieces
  <2>4. \A i \in 1 .. Len(stack') : i = 1
    BY <1>1
  <2> QED
    BY <1>1, <2>1, <2>2, <2>3, <2>4 DEF Remaining, IsSample, IsProcess
<1>7. Explained'
  BY <1>3 DEF Explained
<1>8. announced' # {} => Warned'
  <2>1. \A i \in 1 .. Len(stack') : i = 1
    BY <1>1
  <2> QED
    BY <1>1, <2>1 DEF Warned, IsSample, IsProcess, Object
<1> QED
  BY <1>4, <1>5, <1>6, <1>7, <1>8 DEF Deleting

(* What a step of a deletion changes nothing of.                           *)
LEMMA LineageStays ==
  ASSUME LineageAssumption, LineageIntact, Orderly,
         UNCHANGED <<born, alive, origin, made, live, kind, stamp, parent, members, split_done>>,
         now' = now \/ Tick, stack' \in Seq(Calls), announced' \subseteq Objects, dry' \in BOOLEAN,
         before' \in [Processes -> SUBSET Samples]
  PROVE  (LineageIntact /\ Orderly)'
<1>1. now' \in 0 .. MaxTime /\ now <= now' /\ now \in Int /\ now' \in Int
  <2>1. now \in 0 .. MaxTime
    BY DEF LineageIntact, TypeOK
  <2> QED
    BY <2>1, Bounds DEF Tick
<1>2. TypeOK'
  BY <1>1 DEF LineageIntact, TypeOK
<1>3. \A p \in live : kind[p] = "deposition" => stamp[p] <= now'
  <2>1. \A p \in live : p \in Processes
    BY Bounds DEF LineageIntact, TypeOK, Processes
  <2>2. \A p \in live : stamp[p] \in Int
    BY <2>1, Bounds DEF LineageIntact, TypeOK
  <2>3. \A p \in live : kind[p] = "deposition" => stamp[p] <= now
    BY DEF Orderly
  <2> QED
    BY <1>1, <2>2, <2>3
<1>4. LineageIntact'
  BY <1>2 DEF LineageIntact
<1>5. Orderly'
  BY <1>3 DEF Orderly
<1> QED
  BY <1>4, <1>5

LEMMA ObjectsAreObjects ==
  ASSUME LineageAssumption, LineageIntact
  PROVE  /\ alive \subseteq Samples /\ live \subseteq Processes
         /\ \A s \in Samples : Sample(s) \in Objects
         /\ \A p \in Processes : Process(p) \in Objects
         /\ before \in [Processes -> SUBSET Samples] /\ members \in [Processes -> SUBSET alive]
         /\ members \in [Processes -> SUBSET Samples]
<1>1. /\ alive \subseteq 1 .. born /\ born \in 0 .. MaxSamples
      /\ live \subseteq 1 .. made /\ made \in 0 .. MaxProcs
      /\ before \in [Processes -> SUBSET Samples] /\ members \in [Processes -> SUBSET alive]
  BY DEF LineageIntact, TypeOK
<1>2. alive \subseteq Samples /\ live \subseteq Processes
  <2>1. 1 .. born \subseteq Samples /\ 1 .. made \subseteq Processes
    BY <1>1, Bounds DEF Samples, Processes
  <2> QED
    BY <1>1, <2>1
<1> QED
  BY <1>1, <1>2 DEF Objects

LEMMA DeletionIsRequested ==
  ASSUME LineageAssumption, LineageInv,
         (\E s \in alive : DeleteSample(s)) \/ (\E p \in Processes : DeleteProcess(p))
  PROVE  LineageInv' /\ stack' # <<>> /\ live' = live
<1>1. PICK c \in Calls :
        /\ \/ c.what = "sample" /\ c.id \in alive /\ c.todo = ProcessesOf(c.id)
           \/ c.what = "process" /\ c.id \in live /\ c.todo = Pieces(c.id)
        /\ Begin(c, Object(c))
  <2>1. ASSUME NEW s \in alive, DeleteSample(s)
        PROVE  \E c \in Calls : c.what = "sample" /\ c.id \in alive /\ c.todo = ProcessesOf(c.id) /\ Begin(c, Object(c))
    <3> DEFINE c == SampleCall(s, FALSE)
    <3>1. c \in Calls /\ c.what = "sample" /\ c.id = s /\ c.todo = ProcessesOf(s)
      BY CallsFit DEF LineageInv
    <3> HIDE DEF c
    <3>2. Object(c) = Sample(s)
      BY <3>1 DEF Object
    <3>3. Begin(c, Object(c))
      BY <2>1, <3>2 DEF DeleteSample, c
    <3> QED
      BY <3>1, <3>3
  <2>2. ASSUME NEW p \in Processes, DeleteProcess(p)
        PROVE  \E c \in Calls : c.what = "process" /\ c.id \in live /\ c.todo = Pieces(c.id) /\ Begin(c, Object(c))
    <3> DEFINE c == ProcessCall(p)
    <3>1. p \in live
      BY <2>2 DEF DeleteProcess
    <3>2. c \in Calls /\ c.what = "process" /\ c.id = p /\ c.todo = Pieces(p)
      BY <3>1, CallsFit DEF LineageInv
    <3> HIDE DEF c
    <3>3. Object(c) = Process(p)
      BY <3>2 DEF Object
    <3>4. Begin(c, Object(c))
      BY <2>2, <3>3 DEF DeleteProcess, c
    <3> QED
      BY <3>1, <3>2, <3>4
  <2> QED
    BY <2>1, <2>2
<1>2. /\ stack = <<>> /\ stack' = <<c>> /\ dry' = TRUE /\ announced' = {Object(c)}
      /\ UNCHANGED <<now, born, alive, origin, made, live, kind, stamp, parent, members, split_done, before>>
  BY <1>1 DEF Begin, samples, procs
<1>3. LineageIntact /\ Orderly /\ before = members
  BY <1>2 DEF LineageInv, Resting
<1>4. Object(c) \in Objects /\ before \in [Processes -> SUBSET Samples]
  BY <1>1, <1>3, ObjectsAreObjects DEF Object
<1>5. (LineageIntact /\ Orderly)'
  BY <1>2, <1>3, <1>4, LineageStays, OneCall
<1>6. stack'[1] = c /\ Len(stack') = 1 /\ stack' # <<>> /\ 1 \in 1 .. Len(stack')
  BY <1>2, OneCall
<1>7. OnlyDependent'
  BY <1>2, <1>6 DEF OnlyDependent
<1>8. AllDependent'
  <2>1. ASSUME NEW s \in Samples, NEW p \in Processes, Sample(s) \in announced', before'[p] = {s}
        PROVE  dry' /\ IsSample(1)' /\ stack'[1].id = s /\ p \in stack'[1].todo
    <3>1. Object(c) = Sample(s)
      BY <1>2, <2>1
    <3>2. c.what = "sample" /\ c.id = s /\ c.todo = ProcessesOf(s)
      BY <1>1, <3>1, ObjectsDiffer DEF Object
    <3>3. s \in members[p] /\ p \in live
      BY <1>2, <1>3, <2>1 DEF Orderly
    <3> QED
      BY <1>2, <1>6, <3>2, <3>3 DEF IsSample, ProcessesOf
  <2>2. ASSUME NEW s \in alive, NEW p \in Processes, Process(p) \in announced', origin[s] = p
        PROVE  dry' /\ IsProcess(1)' /\ stack'[1].id = p /\ s \in stack'[1].todo
    <3>1. Object(c) = Process(p)
      BY <1>2, <2>2
    <3>2. c.what = "process" /\ c.id = p /\ c.todo = Pieces(p)
      BY <1>1, <3>1, ObjectsDiffer DEF Object
    <3> QED
      BY <1>2, <1>6, <2>2, <3>2 DEF IsProcess, Pieces
  <2> QED
    BY <1>2, <1>6, <2>1, <2>2 DEF AllDependent
<1>9. Deleting'
  BY <1>1, <1>2, <1>3, <1>7, <1>8, DeletionStarts
<1>10. Call'.what # "merge"
  BY <1>1, <1>6 DEF Call
<1> QED
  BY <1>2, <1>5, <1>6, <1>9, <1>10 DEF LineageInv

(* The calls that a deletion has been reduced to.                          *)
LEMMA CallOfDeletion ==
  ASSUME LineageAssumption, LineageInv, stack # <<>>, Call.what # "merge"
  PROVE  /\ LineageIntact /\ Orderly /\ Deleting
         /\ Len(stack) \in Nat \ {0} /\ Len(stack) \in 1 .. Len(stack) /\ 1 \in 1 .. Len(stack)
         /\ Call \in Calls /\ Call = stack[Len(stack)] /\ stack \in Seq(Calls)
         /\ \/ IsSample(Len(stack)) /\ Call.what = "sample" /\ Call.id \in alive /\ Call.todo \subseteq Processes
            \/ IsProcess(Len(stack)) /\ Call.what = "process" /\ Call.id \in live /\ Call.todo \subseteq alive
<1>1. LineageIntact /\ Orderly /\ Deleting
  BY DEF LineageInv
<1>2. stack \in Seq(Calls)
  BY <1>1 DEF LineageIntact, TypeOK
<1>3. Len(stack) \in Nat \ {0} /\ Len(stack) \in 1 .. Len(stack) /\ Call \in Calls
  BY <1>2, StackHasTop
<1>4. 1 \in 1 .. Len(stack)
  BY <1>3
<1>5. Call = stack[Len(stack)]
  BY DEF Call
<1>6. /\ IsSample(Len(stack)) \/ IsProcess(Len(stack))
      /\ IsSample(Len(stack)) => Call.id \in alive
      /\ IsProcess(Len(stack)) => Call.id \in live /\ Call.todo \subseteq alive
  BY <1>1, <1>3, <1>5 DEF Deleting, Nested
<1>7. /\ IsSample(Len(stack)) <=> Call.what = "sample"
      /\ IsProcess(Len(stack)) <=> Call.what = "process"
  BY <1>5 DEF IsSample, IsProcess
<1>8. Call.what = "sample" => Call.todo \subseteq Processes
  BY <1>3, CallHasKind
<1> QED
  BY <1>1, <1>2, <1>3, <1>4, <1>5, <1>6, <1>7, <1>8

LEMMA DryRunEnds ==
  ASSUME LineageAssumption, LineageInv, stack # <<>>, Call.what # "merge", Call.todo = {}, dry, Len(stack) = 1, EndDryRun
  PROVE  LineageInv' /\ stack' # <<>> /\ live' = live
<1>1. LineageIntact /\ Orderly /\ Deleting /\ Call \in Calls /\ Call = stack[1]
  BY CallOfDeletion
<1>2. /\ Tick /\ dry' = FALSE
      /\ UNCHANGED <<born, alive, origin, made, live, kind, stamp, parent, members, split_done, announced, before>>
  BY DEF EndDryRun, samples, procs
<1>3. before = members /\ announced # {} /\ OnlyDependent /\ AllDependent /\ Warned
  BY <1>1 DEF Deleting, MergedAway
<1> DEFINE c == IF Call.what = "sample" THEN SampleCall(Call.id, TRUE) ELSE ProcessCall(Call.id)
<1>4. /\ c \in Calls /\ c.what = Call.what /\ c.id = Call.id
      /\ \/ c.what = "sample" /\ c.id \in alive /\ c.todo = ProcessesOf(c.id)
         \/ c.what = "process" /\ c.id \in live /\ c.todo = Pieces(c.id)
  <2>1. CASE Call.what = "sample"
    <3>1. Call.id \in alive
      BY <2>1, CallOfDeletion
    <3>2. c = SampleCall(Call.id, TRUE)
      BY <2>1
    <3> DEFINE d == SampleCall(Call.id, TRUE)
    <3>3. d \in Calls /\ d.what = "sample" /\ d.id = Call.id /\ d.todo = ProcessesOf(Call.id)
      BY <1>1, <3>1, CallsFit
    <3> HIDE DEF d
    <3> QED
      BY <2>1, <3>1, <3>2, <3>3 DEF d
  <2>2. CASE Call.what = "process"
    BY <1>1, <2>2, CallOfDeletion, CallsFit
  <2> QED
    BY <2>1, <2>2, CallOfDeletion
<1>5. stack' = <<c>>
  BY DEF EndDryRun
<1> HIDE DEF c
<1>6. stack'[1] = c /\ Len(stack') = 1 /\ stack' # <<>> /\ 1 \in 1 .. Len(stack') /\ stack' \in Seq(Calls)
  BY <1>4, <1>5, OneCall
<1>7. Object(c) = Object(stack[1])
  BY <1>1, <1>4 DEF Object
<1>8. Object(c) \in announced
  <2>1. /\ IsSample(1) => Sample(Call.id) \in announced
        /\ IsProcess(1) => Process(Call.id) \in announced
    BY <1>1, <1>3, CallOfDeletion DEF Warned
  <2> QED
    BY <1>1, <1>7, <2>1, CallOfDeletion DEF Object, IsSample, IsProcess
<1>9. OnlyDependent'
  <2> SUFFICES ASSUME NEW C \in SUBSET Objects, Closed(C)', Object(stack'[1]) \in C
               PROVE  announced \subseteq C
    BY <1>2 DEF OnlyDependent
  <2>1. Closed(C)
    BY <1>2 DEF Closed
  <2> QED
    BY <1>3, <1>6, <1>7, <2>1 DEF OnlyDependent
<1>10. AllDependent'
  <2>1. \A i \in 1 .. Len(stack) : stack[i].todo = {}
    <3>1. \A i \in 1 .. Len(stack) : i = 1
      BY CallOfDeletion
    <3> QED
      BY <1>1, <3>1
  <2> QED
    BY <1>2, <1>3, <2>1 DEF AllDependent
<1>11. (LineageIntact /\ Orderly)'
  <2>1. announced \subseteq Objects /\ before \in [Processes -> SUBSET Samples]
    BY <1>1 DEF LineageIntact, TypeOK
  <2>2. LineageIntact /\ Orderly
    BY <1>1
  <2>3. stack' \in Seq(Calls)
    BY <1>6
  <2> QED
    BY <1>2, <2>1, <2>2, <2>3, LineageStays
<1>12. Deleting'
  BY <1>1, <1>2, <1>3, <1>4, <1>5, <1>8, <1>9, <1>10, DeletionStarts
<1>13. Call'.what # "merge"
  BY <1>4, <1>6 DEF Call
<1> QED
  BY <1>2, <1>6, <1>11, <1>12, <1>13 DEF LineageInv

(* The invariant of the calls after a step, from its parts.                *)
LEMMA NestedThen ==
  ASSUME \A i \in 1 .. Len(stack') :
           /\ IsSample(i)' \/ IsProcess(i)'
           /\ IsSample(i)' => stack'[i].id \in alive' /\ \A q \in stack'[i].todo : stack'[i].id \in before'[q]
           /\ IsProcess(i)' => stack'[i].id \in live' /\ \A s \in stack'[i].todo : s \in alive' /\ origin'[s] = stack'[i].id,
         \A i \in 1 .. Len(stack') - 1 : Follows(i)',
         \A i, j \in 1 .. Len(stack') : i < j =>
           /\ IsSample(i)' /\ IsSample(j)' => stack'[i].id < stack'[j].id
           /\ IsProcess(i)' /\ IsProcess(j)' => stack'[i].id # stack'[j].id
  PROVE  Nested'
BY DEF Nested

LEMMA RemainingThen ==
  ASSUME \A s \in Samples \ alive', p \in live' : before'[p] # {s},
         \A i \in 1 .. Len(stack') : IsSample(i)' =>
           \A p \in live' : before'[p] = {stack'[i].id} => p \in stack'[i].todo \/ (i < Len(stack') /\ stack'[i + 1].id = p),
         \A i \in 1 .. Len(stack') : IsProcess(i)' =>
           \A s \in alive' : origin'[s] = stack'[i].id => s \in stack'[i].todo \/ (i < Len(stack') /\ stack'[i + 1].id = s)
  PROVE  Remaining'
BY DEF Remaining

(* The loop of a sample passes a process that has other samples.           *)
LEMMA ProcessIsPassed ==
  ASSUME LineageAssumption, LineageInv, stack # <<>>, Call.what = "sample", NEW p \in Call.todo, ~IsOnlySample(p),
         stack' = Visited(p), UNCHANGED <<now, samples, procs, dry, announced, before>>
  PROVE  LineageInv'
<1> DEFINE n == Len(stack)
<1>1. /\ LineageIntact /\ Orderly /\ Deleting /\ n \in Nat \ {0} /\ n \in 1 .. n /\ 1 \in 1 .. n
      /\ Call = stack[n] /\ stack \in Seq(Calls) /\ IsSample(n) /\ Call.id \in alive /\ p \in Processes
  BY CallOfDeletion DEF IsProcess
<1>2. UNCHANGED <<now, born, alive, origin, made, live, kind, stamp, parent, members, split_done, dry, announced, before>>
  BY DEF samples, procs
<1>3. /\ stack' \in Seq(Calls) /\ Len(stack') = n
      /\ \A i \in 1 .. n - 1 : stack'[i] = stack[i]
      /\ stack'[n].what = "sample" /\ stack'[n].id = Call.id /\ stack'[n].todo = Call.todo \ {p}
  BY <1>1, VisitedOne
<1> HIDE DEF n
<1>4. \A i \in 1 .. n :
        /\ (IsSample(i)' <=> IsSample(i)) /\ (IsProcess(i)' <=> IsProcess(i)) /\ stack'[i].id = stack[i].id
        /\ i # n => stack'[i].todo = stack[i].todo
        /\ stack'[i].todo \subseteq stack[i].todo
  <2>1. \A i \in 1 .. n : i = n \/ i \in 1 .. n - 1
    BY <1>1
  <2>2. stack'[n].what = stack[n].what
    BY <1>1, <1>3 DEF IsSample
  <2>3. \A i \in 1 .. n : stack'[i].what = stack[i].what
    BY <1>3, <2>1, <2>2
  <2>4. \A i \in 1 .. n - 1 : stack'[i].id = stack[i].id /\ stack'[i].todo = stack[i].todo
    BY <1>3
  <2>5. stack'[n].id = stack[n].id /\ stack'[n].todo \subseteq stack[n].todo
    BY <1>1, <1>3
  <2>6. \A i \in 1 .. n :
          /\ stack'[i].id = stack[i].id /\ stack'[i].todo \subseteq stack[i].todo
          /\ i # n => stack'[i].todo = stack[i].todo
    BY <2>1, <2>4, <2>5
  <2> QED
    BY <2>3, <2>6 DEF IsSample, IsProcess
<1>5. \A i \in 1 .. n : \A x : x \in stack[i].todo => x \in stack'[i].todo \/ (i = n /\ x = p)
  BY <1>1, <1>3, <1>4
<1>6. p \in live => members[p] # {Call.id} /\ before[p] # {Call.id}
  <2>1. members[p] # {Call.id}
    BY <1>1, ObjectsAreObjects, CountTells DEF LineageIntact
  <2>2. p \in live => members[p] \subseteq before[p] /\ before[p] \cap alive \subseteq members[p]
    BY <1>1 DEF Deleting, Kept
  <2> QED
    BY <1>1, <2>1, <2>2
<1>7. (LineageIntact /\ Orderly)'
  <2>1. announced \subseteq Objects /\ dry \in BOOLEAN /\ before \in [Processes -> SUBSET Samples]
    BY <1>1 DEF LineageIntact, TypeOK
  <2> QED
    BY <1>1, <1>2, <1>3, <2>1, LineageStays
<1>8. Nested'
  <2>1. Nested
    BY <1>1 DEF Deleting
  <2>2. \A i \in 1 .. n - 1 : i \in 1 .. n /\ i # n /\ i + 1 \in 1 .. n
    BY <1>1
  <2>3. \A i \in 1 .. n - 1 : Follows(i)'
    <3> SUFFICES ASSUME NEW i \in 1 .. n - 1 PROVE Follows(i)'
      OBVIOUS
    <3>1. Follows(i)
      BY <2>1 DEF Nested, n
    <3>2. (IsSample(i)' <=> IsSample(i)) /\ (IsProcess(i)' <=> IsProcess(i)) /\ stack'[i] = stack[i]
      BY <1>3, <1>4, <2>2
    <3>3. (IsSample(i + 1)' <=> IsSample(i + 1)) /\ (IsProcess(i + 1)' <=> IsProcess(i + 1)) /\ stack'[i + 1].id = stack[i + 1].id
      BY <1>4, <2>2
    <3> QED
      BY <1>2, <3>1, <3>2, <3>3 DEF Follows
  <2>4. \A i \in 1 .. n :
          /\ IsSample(i) \/ IsProcess(i)
          /\ IsSample(i) => stack[i].id \in alive /\ \A q \in stack'[i].todo : stack[i].id \in before[q]
          /\ IsProcess(i) => stack[i].id \in live /\ \A s \in stack'[i].todo : s \in alive /\ origin[s] = stack[i].id
    BY <1>4, <2>1 DEF Nested, n
  <2>5. \A i, j \in 1 .. n : i < j =>
          /\ IsSample(i) /\ IsSample(j) => stack[i].id < stack[j].id
          /\ IsProcess(i) /\ IsProcess(j) => stack[i].id # stack[j].id
    BY <2>1 DEF Nested, n
  <2> QED
    BY <1>2, <1>3, <1>4, <2>3, <2>4, <2>5 DEF Nested
<1>9. Kept' /\ (dry' => members' = before')
  BY <1>1, <1>2 DEF Deleting, Kept
<1>10. ~dry => Remaining'
  <2> SUFFICES ASSUME ~dry PROVE Remaining'
    OBVIOUS
  <2>1. Remaining
    BY <1>1 DEF Deleting
  <2>2. \A s \in Samples \ alive, q \in live : before[q] # {s}
    BY <2>1 DEF Remaining
  <2>3. ASSUME NEW i \in 1 .. n, IsSample(i), NEW q \in live, before[q] = {stack[i].id}
        PROVE  q \in stack'[i].todo \/ (i < n /\ stack'[i + 1].id = q)
    <3>1. q \in stack[i].todo \/ (i < n /\ stack[i + 1].id = q)
      BY <2>1, <2>3 DEF Remaining, n
    <3>2. i < n => i + 1 \in 1 .. n
      BY <1>1
    <3>3. ~(i = n /\ q = p)
      BY <1>1, <1>6, <2>3
    <3> QED
      BY <1>4, <1>5, <3>1, <3>2, <3>3
  <2>4. ASSUME NEW i \in 1 .. n, IsProcess(i), NEW s \in alive, origin[s] = stack[i].id
        PROVE  s \in stack'[i].todo \/ (i < n /\ stack'[i + 1].id = s)
    <3>1. s \in stack[i].todo \/ (i < n /\ stack[i + 1].id = s)
      BY <2>1, <2>4 DEF Remaining, n
    <3>2. i < n => i + 1 \in 1 .. n
      BY <1>1
    <3>3. i # n
      BY <1>1, <2>4 DEF IsSample, IsProcess
    <3> QED
      BY <1>4, <3>1, <3>2, <3>3
  <2> QED
    BY <1>2, <1>3, <1>4, <2>2, <2>3, <2>4 DEF Remaining
<1>11. Explained'
  <2>1. Explained
    BY <1>1 DEF Deleting
  <2> QED
    BY <1>2, <1>3, <1>4, <2>1 DEF Explained, n
<1>12. announced # {} => (OnlyDependent /\ AllDependent /\ Warned)'
  <2> SUFFICES ASSUME announced # {} PROVE (OnlyDependent /\ AllDependent /\ Warned)'
    OBVIOUS
  <2>1. OnlyDependent /\ AllDependent /\ Warned
    BY <1>1 DEF Deleting
  <2>2. Object(stack'[1]) = Object(stack[1])
    BY <1>1, <1>4 DEF Object, IsSample, IsProcess
  <2>3. OnlyDependent'
    BY <1>2, <2>1, <2>2 DEF OnlyDependent, Closed
  <2>4. ASSUME NEW s \in Samples, NEW q \in Processes, Sample(s) \in announced, before[q] = {s}, Process(q) \notin announced
        PROVE  dry /\ \E i \in 1 .. n : IsSample(i) /\ stack[i].id = s /\ q \in stack'[i].todo
    <3>1. PICK i \in 1 .. n : dry /\ IsSample(i) /\ stack[i].id = s /\ q \in stack[i].todo
      BY <2>1, <2>4 DEF AllDependent, n
    <3>2. members = before
      BY <1>1, <3>1 DEF Deleting
    <3>3. members[q] = {s} /\ q \in live
      BY <1>1, <2>4, <3>2 DEF Orderly
    <3>4. ~(i = n /\ q = p)
      BY <1>1, <1>6, <3>1, <3>3
    <3> QED
      BY <1>5, <3>1, <3>4
  <2>5. ASSUME NEW s \in alive, NEW q \in Processes, Process(q) \in announced, origin[s] = q, Sample(s) \notin announced
        PROVE  dry /\ \E i \in 1 .. n : IsProcess(i) /\ stack[i].id = q /\ s \in stack'[i].todo
    <3>1. PICK i \in 1 .. n : dry /\ IsProcess(i) /\ stack[i].id = q /\ s \in stack[i].todo
      BY <2>1, <2>5 DEF AllDependent, n
    <3>2. i # n
      BY <1>1, <3>1 DEF IsSample, IsProcess
    <3> QED
      BY <1>4, <3>1, <3>2
  <2>6. AllDependent'
    BY <1>2, <1>3, <1>4, <2>4, <2>5 DEF AllDependent
  <2>7. Warned'
    BY <1>2, <1>3, <1>4, <2>1 DEF Warned, n
  <2> QED
    BY <2>3, <2>6, <2>7
<1>13. announced = {} => MergedAway'
  <2>1. Call' = stack'[n]
    BY <1>3 DEF Call
  <2>2. announced = {} => MergedAway
    BY <1>1 DEF Deleting
  <2> QED
    BY <1>1, <1>2, <1>3, <1>4, <2>1, <2>2 DEF MergedAway, n
<1>14. Deleting'
  BY <1>2, <1>8, <1>9, <1>10, <1>11, <1>12, <1>13 DEF Deleting
<1>15. Call'.what # "merge" /\ stack' # <<>>
  BY <1>1, <1>3, EmptySeq DEF Call
<1> QED
  BY <1>2, <1>7, <1>14, <1>15 DEF LineageInv

(* The loop of a sample meets a process that must not be deleted.          *)
LEMMA DeletionIsRefused ==
  ASSUME LineageAssumption, LineageInv, stack # <<>>, Call.what = "sample", dry,
         stack' = <<>>, dry' = FALSE, announced' = {}, UNCHANGED <<now, samples, procs, before>>
  PROVE  LineageInv'
<1>1. LineageIntact /\ Orderly /\ members = before
  BY CallOfDeletion DEF Deleting
<1>2. UNCHANGED <<now, born, alive, origin, made, live, kind, stamp, parent, members, split_done, before>>
  BY DEF samples, procs
<1>3. stack' \in Seq(Calls) /\ before \in [Processes -> SUBSET Samples]
  BY <1>1, EmptySeq DEF LineageIntact, TypeOK
<1>4. (LineageIntact /\ Orderly)'
  BY <1>1, <1>2, <1>3, LineageStays
<1>5. Resting'
  BY <1>1, <1>2 DEF Resting
<1> QED
  BY <1>4, <1>5 DEF LineageInv

(* A loop calls delete() of the next object.                               *)
LEMMA CallIsAdded ==
  ASSUME LineageAssumption, LineageInv, stack # <<>>, Call.what # "merge", NEW x, NEW c \in Calls,
         stack' = Append(Visited(x), c)
  PROVE  /\ stack' \in Seq(Calls) /\ Len(stack') = Len(stack) + 1 /\ stack' # <<>>
         /\ stack'[Len(stack) + 1] = c /\ Call' = c
         /\ stack'[Len(stack)].todo = Call.todo \ {x}
         /\ \A i \in 1 .. Len(stack) :
              /\ (IsSample(i)' <=> IsSample(i)) /\ (IsProcess(i)' <=> IsProcess(i)) /\ stack'[i].id = stack[i].id
              /\ i # Len(stack) => stack'[i].todo = stack[i].todo
              /\ stack'[i].todo \subseteq stack[i].todo
              /\ \A y : y \in stack[i].todo => y \in stack'[i].todo \/ (i = Len(stack) /\ y = x)
<1> DEFINE n == Len(stack)
<1>1. n \in Nat \ {0} /\ Call = stack[n] /\ stack \in Seq(Calls)
  BY CallOfDeletion
<1>2. /\ stack' \in Seq(Calls) /\ Len(stack') = n + 1
      /\ \A i \in 1 .. n - 1 : stack'[i] = stack[i]
      /\ stack'[n].what = Call.what /\ stack'[n].id = Call.id
      /\ stack'[n].todo = Call.todo \ {x}
      /\ stack'[n + 1] = c
  BY <1>1, Called
<1> HIDE DEF n
<1>3. \A i \in 1 .. n : i = n \/ i \in 1 .. n - 1
  BY <1>1
<1>4. \A i \in 1 .. n : stack'[i].what = stack[i].what /\ stack'[i].id = stack[i].id
  BY <1>1, <1>2, <1>3
<1>5. \A i \in 1 .. n : i # n => stack'[i].todo = stack[i].todo
  BY <1>2, <1>3
<1>6. \A i \in 1 .. n : stack'[i].todo \subseteq stack[i].todo
  BY <1>1, <1>2, <1>3
<1>7. \A i \in 1 .. n : \A y : y \in stack[i].todo => y \in stack'[i].todo \/ (i = n /\ y = x)
  BY <1>1, <1>2, <1>5
<1>8. \A i \in 1 .. n : (IsSample(i)' <=> IsSample(i)) /\ (IsProcess(i)' <=> IsProcess(i))
  BY <1>4 DEF IsSample, IsProcess
<1>9. stack' # <<>> /\ Call' = c
  BY <1>1, <1>2, EmptySeq DEF Call
<1> QED
  BY <1>2, <1>4, <1>5, <1>6, <1>7, <1>8, <1>9 DEF n

(* The loop of a sample enters a process that has no other sample.         *)
LEMMA ProcessIsEntered ==
  ASSUME LineageAssumption, LineageInv, stack # <<>>, Call.what = "sample", NEW p \in Call.todo, IsOnlySample(p),
         stack' = Append(Visited(p), ProcessCall(p)), announced' = announced \cup IF dry THEN {Process(p)} ELSE {},
         UNCHANGED <<now, samples, procs, dry, before>>
  PROVE  LineageInv'
<1> DEFINE n == Len(stack)
           x == Call.id
           c == ProcessCall(p)
<1>1. /\ LineageIntact /\ Orderly /\ Deleting /\ n \in Nat \ {0} /\ n \in 1 .. n /\ 1 \in 1 .. n
      /\ Call = stack[n] /\ IsSample(n) /\ x \in alive /\ p \in Processes
  BY CallOfDeletion DEF IsProcess
<1>2. UNCHANGED <<now, born, alive, origin, made, live, kind, stamp, parent, members, split_done, dry, before>>
  BY DEF samples, procs
<1>3. members[p] = {x} /\ p \in live /\ (kind[p] = "split" => before[p] = {x} /\ parent[p] = x)
  <2>1. PICK y \in Samples : members[p] = {y}
    BY <1>1, CountTells DEF LineageIntact
  <2>2. p \in live
    BY <1>1, <2>1 DEF Orderly
  <2>3. x \in before[p]
    BY <1>1 DEF Deleting, Nested
  <2>4. /\ members[p] \subseteq before[p] /\ before[p] \cap alive \subseteq members[p]
        /\ kind[p] = "split" => before[p] = {parent[p]}
    BY <1>1, <2>2 DEF Deleting, Kept
  <2> QED
    BY <1>1, <2>1, <2>2, <2>3, <2>4
<1>4. c \in Calls /\ c.what = "process" /\ c.id = p /\ c.todo = Pieces(p)
  BY <1>1, <1>3, CallsFit
<1> HIDE DEF c
<1>5. stack' = Append(Visited(p), c)
  BY DEF c
<1>6. /\ stack' \in Seq(Calls) /\ Len(stack') = n + 1 /\ stack' # <<>>
      /\ stack'[n + 1] = c /\ Call' = c
      /\ stack'[n].todo = Call.todo \ {p}
      /\ \A i \in 1 .. n :
           /\ (IsSample(i)' <=> IsSample(i)) /\ (IsProcess(i)' <=> IsProcess(i)) /\ stack'[i].id = stack[i].id
           /\ i # n => stack'[i].todo = stack[i].todo
           /\ stack'[i].todo \subseteq stack[i].todo
           /\ \A y : y \in stack[i].todo => y \in stack'[i].todo \/ (i = n /\ y = p)
  BY <1>4, <1>5, CallIsAdded, SMTT(30)
<1>7. announced # {}
  <2>1. announced = {} => \A q \in live : members[q] # {x}
    BY <1>1 DEF Deleting, MergedAway
  <2> QED
    BY <1>3, <2>1
<1>8. OnlyDependent /\ AllDependent /\ Warned /\ Nested /\ Kept /\ Explained /\ (dry => members = before) /\ (~dry => Remaining)
  BY <1>1, <1>7 DEF Deleting
<1>9. Sample(x) \in announced
  BY <1>1, <1>8 DEF Warned
<1>10. stack'[n + 1].what = "process" /\ stack'[n + 1].id = p /\ stack'[n + 1].todo = Pieces(p)
  BY <1>4, <1>6
<1> DEFINE m == n + 1
<1>11. /\ \A i \in 1 .. m : i \in 1 .. n \/ i = m
       /\ \A i \in 1 .. n : i \in 1 .. m /\ i # m /\ i < m
       /\ m \in 1 .. m /\ m \in Int /\ 1 .. Len(stack') = 1 .. m
  BY <1>1, <1>6
<1>12. stack'[m].what = "process" /\ stack'[m].id = p /\ stack'[m].todo = Pieces(p)
  BY <1>10
<1>13. Len(stack') = m
  BY <1>6
<1> HIDE DEF n, m
<1>14. \A i \in 1 .. n : IsSample(i) <=> ~IsProcess(i)
  BY <1>8 DEF Nested, IsSample, IsProcess, n
<1>15. \A i \in 1 .. n : IsProcess(i) => stack[i].id # p
  <2> SUFFICES ASSUME NEW i \in 1 .. n, IsProcess(i), stack[i].id = p
               PROVE  FALSE
    OBVIOUS
  <2>1. i # n /\ i \in 1 .. n - 1 /\ i + 1 \in 1 .. n /\ i + 1 <= n
    BY <1>1, <1>14
  <2>2. IsSample(i + 1) /\ origin[stack[i + 1].id] = p /\ stack[i + 1].id \in alive
    BY <1>8, <2>1 DEF Nested, Follows, n
  <2> DEFINE y == stack[i + 1].id
  <2>3. p # None
    BY <1>1, Bounds DEF None
  <2>4. kind[p] = "split" /\ parent[p] < y
    BY <1>1, <2>2, <2>3 DEF Orderly
  <2>5. x < y
    BY <1>3, <2>4
  <2>6. x \in Int /\ y \in Int
    BY <1>1, <2>2, ObjectsAreObjects, Bounds
  <2>7. y = x \/ y < x
    <3>1. CASE i + 1 = n
      BY <1>1, <3>1
    <3>2. CASE i + 1 # n
      <4>1. i + 1 < n
        BY <1>1, <2>1, <3>2
      <4> QED
        BY <1>1, <1>8, <2>1, <2>2, <4>1 DEF Nested, n
    <3> QED
      BY <3>1, <3>2
  <2> HIDE DEF y
  <2> QED
    BY <2>5, <2>6, <2>7
<1>16. (LineageIntact /\ Orderly)'
  <2>1. announced' \subseteq Objects /\ dry \in BOOLEAN /\ before \in [Processes -> SUBSET Samples]
    <3>1. announced \subseteq Objects /\ dry \in BOOLEAN /\ before \in [Processes -> SUBSET Samples]
      BY <1>1 DEF LineageIntact, TypeOK
    <3>2. Process(p) \in Objects
      BY <1>1, ObjectsAreObjects
    <3> QED
      BY <3>1, <3>2
  <2>2. LineageIntact /\ Orderly
    BY <1>1
  <2>3. stack' \in Seq(Calls)
    BY <1>6
  <2> QED
    BY <1>2, <2>1, <2>2, <2>3, LineageStays
<1>17. Nested'
  <2>1. \A i \in 1 .. n - 1 : i \in 1 .. n /\ i # n /\ i + 1 \in 1 .. n
    BY <1>1
  <2>2. \A i \in 1 .. n - 1 : Follows(i)'
    <3> SUFFICES ASSUME NEW i \in 1 .. n - 1 PROVE Follows(i)'
      OBVIOUS
    <3>1. Follows(i)
      BY <1>8 DEF Nested, n
    <3>2. (IsSample(i)' <=> IsSample(i)) /\ (IsProcess(i)' <=> IsProcess(i)) /\ stack'[i].id = stack[i].id /\ stack'[i].todo = stack[i].todo
      BY <1>6, <2>1
    <3>3. (IsSample(i + 1)' <=> IsSample(i + 1)) /\ (IsProcess(i + 1)' <=> IsProcess(i + 1)) /\ stack'[i + 1].id = stack[i + 1].id
      BY <1>6, <2>1
    <3> QED
      BY <1>2, <3>1, <3>2, <3>3 DEF Follows
  <2>3. ASSUME NEW i \in 1 .. m - 1 PROVE Follows(i)'
    <3>1. CASE i = n
      <4>1. IsSample(i)' /\ ~IsProcess(i)' /\ stack'[i].id = x
        BY <1>1, <1>6, <1>14, <3>1
      <4>2. IsProcess(i + 1)' /\ stack'[i + 1].id = p
        BY <1>12, <3>1 DEF IsProcess, m
      <4> QED
        BY <1>2, <1>3, <4>1, <4>2 DEF Follows
    <3>2. CASE i # n
      <4>1. i \in 1 .. n - 1
        BY <1>1, <3>2 DEF m
      <4> QED
        BY <2>2, <4>1
    <3> QED
      BY <3>1, <3>2
  <2>4. ASSUME NEW i \in 1 .. m
        PROVE  /\ IsSample(i)' \/ IsProcess(i)'
               /\ IsSample(i)' => stack'[i].id \in alive /\ \A q \in stack'[i].todo : stack'[i].id \in before[q]
               /\ IsProcess(i)' => stack'[i].id \in live /\ \A s \in stack'[i].todo : s \in alive /\ origin[s] = stack'[i].id
    <3>1. CASE i \in 1 .. n
      BY <1>6, <1>8, <3>1 DEF Nested, n
    <3>2. CASE i = m
      BY <1>3, <1>12, <3>2 DEF IsSample, IsProcess, Pieces
    <3> QED
      BY <1>11, <3>1, <3>2
  <2>5. ASSUME NEW i \in 1 .. m, NEW j \in 1 .. m, i < j
        PROVE  /\ IsSample(i)' /\ IsSample(j)' => stack'[i].id < stack'[j].id
               /\ IsProcess(i)' /\ IsProcess(j)' => stack'[i].id # stack'[j].id
    <3>1. i \in 1 .. n
      BY <1>1, <1>11, <2>5 DEF m
    <3>2. CASE j \in 1 .. n
      BY <1>6, <1>8, <2>5, <3>1, <3>2 DEF Nested, n
    <3>3. CASE j = m
      <4>1. ~IsSample(j)'
        BY <1>12, <3>3 DEF IsSample
      <4> QED
        BY <1>6, <1>12, <1>15, <3>1, <3>3, <4>1
    <3> QED
      BY <1>11, <3>2, <3>3
  <2>6. \A i \in 1 .. Len(stack') :
          /\ IsSample(i)' \/ IsProcess(i)'
          /\ IsSample(i)' => stack'[i].id \in alive' /\ \A q \in stack'[i].todo : stack'[i].id \in before'[q]
          /\ IsProcess(i)' => stack'[i].id \in live' /\ \A s \in stack'[i].todo : s \in alive' /\ origin'[s] = stack'[i].id
    BY <1>2, <1>13, <2>4
  <2>7. \A i, j \in 1 .. Len(stack') : i < j =>
          /\ IsSample(i)' /\ IsSample(j)' => stack'[i].id < stack'[j].id
          /\ IsProcess(i)' /\ IsProcess(j)' => stack'[i].id # stack'[j].id
    BY <1>13, <2>5
  <2>8. \A i \in 1 .. Len(stack') - 1 : Follows(i)'
    BY <1>13, <2>3
  <2> QED
    BY <2>6, <2>7, <2>8, NestedThen
<1>18. Kept' /\ (dry' => members' = before')
  BY <1>2, <1>8 DEF Kept
<1>19. ~dry => Remaining'
  <2> SUFFICES ASSUME ~dry PROVE Remaining'
    OBVIOUS
  <2>1. Remaining
    BY <1>8
  <2>2. \A s \in Samples \ alive, q \in live : before[q] # {s}
    BY <2>1 DEF Remaining
  <2>3. ASSUME NEW i \in 1 .. m, IsSample(i)', NEW q \in live, before[q] = {stack'[i].id}
        PROVE  q \in stack'[i].todo \/ (i < m /\ stack'[i + 1].id = q)
    <3>1. i \in 1 .. n
      BY <1>11, <1>12, <2>3 DEF IsSample
    <3>0. IsSample(i) /\ before[q] = {stack[i].id}
      BY <1>6, <2>3, <3>1
    <3>2. q \in stack[i].todo \/ (i < n /\ stack[i + 1].id = q)
      BY <2>1, <3>0, <3>1 DEF Remaining, n
    <3>3. i < n => i + 1 \in 1 .. n
      BY <1>1, <3>1
    <3>4. i = n => stack'[i + 1].id = p
      BY <1>12 DEF m
    <3> QED
      BY <1>6, <1>11, <3>1, <3>2, <3>3, <3>4
  <2>4. ASSUME NEW i \in 1 .. m, IsProcess(i)', NEW s \in alive, origin[s] = stack'[i].id
        PROVE  s \in stack'[i].todo \/ (i < m /\ stack'[i + 1].id = s)
    <3>1. CASE i \in 1 .. n
      <4>1. s \in stack[i].todo \/ (i < n /\ stack[i + 1].id = s)
        BY <1>6, <2>1, <2>4, <3>1 DEF Remaining, n
      <4>2. i < n => i + 1 \in 1 .. n
        BY <1>1, <3>1
      <4>3. i # n
        BY <1>1, <1>6, <1>14, <2>4, <3>1
      <4> QED
        BY <1>6, <1>11, <3>1, <4>1, <4>2, <4>3
    <3>2. CASE i = m
      BY <1>12, <2>4, <3>2 DEF Pieces
    <3> QED
      BY <1>11, <3>1, <3>2
  <2>5. \A i \in 1 .. Len(stack') : IsSample(i)' =>
          \A q \in live' : before'[q] = {stack'[i].id} => q \in stack'[i].todo \/ (i < Len(stack') /\ stack'[i + 1].id = q)
    <3>1. ASSUME NEW i \in 1 .. Len(stack'), IsSample(i)', NEW q \in live', before'[q] = {stack'[i].id}
          PROVE  q \in stack'[i].todo \/ (i < Len(stack') /\ stack'[i + 1].id = q)
      BY <1>13, <1>2, <2>3, <3>1
    <3> QED
      BY <3>1
  <2>6. \A i \in 1 .. Len(stack') : IsProcess(i)' =>
          \A s \in alive' : origin'[s] = stack'[i].id => s \in stack'[i].todo \/ (i < Len(stack') /\ stack'[i + 1].id = s)
    <3>1. ASSUME NEW i \in 1 .. Len(stack'), IsProcess(i)', NEW s \in alive', origin'[s] = stack'[i].id
          PROVE  s \in stack'[i].todo \/ (i < Len(stack') /\ stack'[i + 1].id = s)
      BY <1>13, <1>2, <2>4, <3>1
    <3> QED
      BY <3>1
  <2>7. \A s \in Samples \ alive', q \in live' : before'[q] # {s}
    BY <1>2, <2>2
  <2> QED
    BY <2>5, <2>6, <2>7, RemainingThen
<1>20. announced \subseteq announced' /\ announced' # {}
  BY <1>7
<1>21. Explained'
  <2> SUFFICES ASSUME NEW q \in Processes \ live, NEW s \in before[q] \cap alive, Process(q) \notin announced'
               PROVE  \E i \in 1 .. m : IsSample(i)' /\ stack'[i].id = s
    BY <1>2, <1>13 DEF Explained
  <2>1. PICK i \in 1 .. n : IsSample(i) /\ stack[i].id = s
    BY <1>8, <1>20 DEF Explained, n
  <2>2. i \in 1 .. m /\ IsSample(i)' /\ stack'[i].id = s
    BY <1>6, <1>11, <2>1
  <2> QED
    BY <2>2
<1>22. OnlyDependent'
  <2> SUFFICES ASSUME NEW C \in SUBSET Objects, Closed(C)', Object(stack'[1]) \in C
               PROVE  announced' \subseteq C
    BY DEF OnlyDependent
  <2>1. Closed(C)
    BY <1>2 DEF Closed
  <2>2. Object(stack'[1]) = Object(stack[1])
    BY <1>1, <1>6, <1>14 DEF Object, IsSample, IsProcess
  <2>3. announced \subseteq C
    BY <1>8, <2>1, <2>2 DEF OnlyDependent
  <2>4. dry => Process(p) \in C
    BY <1>1, <1>3, <1>8, <1>9, <2>1, <2>3, ObjectsAreObjects DEF Closed
  <2> QED
    BY <2>3, <2>4
<1>23. AllDependent'
  <2>1. ASSUME NEW s \in Samples, NEW q \in Processes, Sample(s) \in announced', before[q] = {s}, Process(q) \notin announced'
        PROVE  dry /\ \E i \in 1 .. m : IsSample(i)' /\ stack'[i].id = s /\ q \in stack'[i].todo
    <3>1. Sample(s) \in announced /\ Process(q) \notin announced
      BY <2>1, ObjectsDiffer
    <3>2. PICK i \in 1 .. n : dry /\ IsSample(i) /\ stack[i].id = s /\ q \in stack[i].todo
      BY <1>8, <2>1, <3>1 DEF AllDependent, n
    <3>3. q # p
      BY <2>1, <3>2
    <3>4. i \in 1 .. m /\ IsSample(i)' /\ stack'[i].id = s /\ q \in stack'[i].todo
      BY <1>6, <1>11, <3>2, <3>3
    <3> QED
      BY <3>2, <3>4
  <2>2. ASSUME NEW s \in alive, NEW q \in Processes, Process(q) \in announced', origin[s] = q, Sample(s) \notin announced'
        PROVE  dry /\ \E i \in 1 .. m : IsProcess(i)' /\ stack'[i].id = q /\ s \in stack'[i].todo
    <3>1. CASE Process(q) \in announced
      <4>1. PICK i \in 1 .. n : dry /\ IsProcess(i) /\ stack[i].id = q /\ s \in stack[i].todo
        BY <1>8, <1>20, <2>2, <3>1 DEF AllDependent, n
      <4>2. i # n
        BY <1>1, <1>14, <4>1
      <4>3. i \in 1 .. m /\ IsProcess(i)' /\ stack'[i].id = q /\ s \in stack'[i].todo
        BY <1>6, <1>11, <4>1, <4>2
      <4> QED
        BY <4>1, <4>3
    <3>2. CASE Process(q) \notin announced
      <4>1. dry /\ q = p
        BY <2>2, <3>2, ObjectsDiffer
      <4>2. m \in 1 .. m /\ stack'[m].what = "process" /\ stack'[m].id = q /\ s \in stack'[m].todo
        BY <1>11, <1>12, <2>2, <4>1 DEF Pieces
      <4> QED
        BY <4>1, <4>2 DEF IsProcess
    <3> QED
      BY <3>1, <3>2
  <2> QED
    BY <1>2, <1>13, <2>1, <2>2 DEF AllDependent
<1>24. Warned'
  <2> SUFFICES ASSUME NEW i \in 1 .. m
               PROVE  /\ IsSample(i)' => Sample(stack'[i].id) \in announced'
                      /\ IsProcess(i)' /\ (dry \/ i = 1 \/ kind[stack'[i].id] = "split") => Process(stack'[i].id) \in announced'
    BY <1>2, <1>13 DEF Warned
  <2>1. CASE i \in 1 .. n
    BY <1>6, <1>8, <1>20, <2>1 DEF Warned, n
  <2>2. CASE i = m
    <3>0. m # 1
      BY <1>1 DEF m
    <3>1. ~IsSample(i)' /\ stack'[i].id = p /\ i # 1
      BY <1>12, <2>2, <3>0 DEF IsSample
    <3>2. dry => Process(p) \in announced'
      OBVIOUS
    <3>3. ~dry /\ kind[p] = "split" => Process(p) \in announced
      BY <1>1, <1>3, <1>8, <1>9, ObjectsAreObjects DEF AllDependent
    <3> QED
      BY <1>20, <3>1, <3>2, <3>3
  <2> QED
    BY <1>11, <2>1, <2>2
<1>25. Deleting'
  BY <1>2, <1>17, <1>18, <1>19, <1>20, <1>21, <1>22, <1>23, <1>24 DEF Deleting
<1> QED
  BY <1>2, <1>4, <1>6, <1>16, <1>25 DEF LineageInv

(* The loop of a split enters a piece.                                     *)
LEMMA PieceIsEntered ==
  ASSUME LineageAssumption, LineageInv, stack # <<>>, Call.what = "process", NEW x \in Call.todo,
         stack' = Append(Visited(x), SampleCall(x, ~dry)), announced' = announced \cup IF dry THEN {Sample(x)} ELSE {},
         UNCHANGED <<now, samples, procs, dry, before>>
  PROVE  LineageInv'
<1> DEFINE n == Len(stack)
           p == Call.id
           c == SampleCall(x, ~dry)
<1>1. /\ LineageIntact /\ Orderly /\ Deleting /\ n \in Nat \ {0} /\ n \in 1 .. n /\ 1 \in 1 .. n
      /\ Call = stack[n] /\ IsProcess(n) /\ p \in live /\ x \in alive /\ p \in Processes /\ x \in Samples
  BY CallOfDeletion, ObjectsAreObjects DEF IsSample
<1>2. UNCHANGED <<now, born, alive, origin, made, live, kind, stamp, parent, members, split_done, dry, before>>
  BY DEF samples, procs
<1>3. /\ origin[x] = p /\ kind[p] = "split" /\ members[p] = {parent[p]} /\ before[p] = {parent[p]}
      /\ parent[p] < x /\ parent[p] \in alive
  <2>1. origin[x] = p
    BY <1>1 DEF Deleting, Nested
  <2>2. p # None
    BY <1>1, Bounds DEF None
  <2>3. kind[p] = "split" /\ parent[p] < x
    BY <1>1, <2>1, <2>2 DEF Orderly
  <2> QED
    BY <1>1, <2>1, <2>3 DEF LineageIntact, Deleting, Kept
<1>4. c \in Calls /\ c.what = "sample" /\ c.id = x /\ c.todo = ProcessesOf(x)
  <2>1. (~dry) \in BOOLEAN
    OBVIOUS
  <2> QED
    BY <1>1, <2>1, CallsFit
<1> HIDE DEF c
<1>5. stack' = Append(Visited(x), c)
  BY DEF c
<1>6. /\ stack' \in Seq(Calls) /\ Len(stack') = n + 1 /\ stack' # <<>>
      /\ stack'[n + 1] = c /\ Call' = c
      /\ stack'[n].todo = Call.todo \ {x}
      /\ \A i \in 1 .. n :
           /\ (IsSample(i)' <=> IsSample(i)) /\ (IsProcess(i)' <=> IsProcess(i)) /\ stack'[i].id = stack[i].id
           /\ i # n => stack'[i].todo = stack[i].todo
           /\ stack'[i].todo \subseteq stack[i].todo
           /\ \A y : y \in stack[i].todo => y \in stack'[i].todo \/ (i = n /\ y = x)
  BY <1>4, <1>5, CallIsAdded
<1>7. announced # {}
  BY <1>1 DEF Deleting, MergedAway, IsSample, IsProcess
<1>8. OnlyDependent /\ AllDependent /\ Warned /\ Nested /\ Kept /\ Explained /\ (dry => members = before) /\ (~dry => Remaining)
  BY <1>1, <1>7 DEF Deleting
<1>9. Process(p) \in announced
  BY <1>1, <1>3, <1>8 DEF Warned
<1>10. stack'[n + 1].what = "sample" /\ stack'[n + 1].id = x /\ stack'[n + 1].todo = ProcessesOf(x)
  BY <1>4, <1>6
<1> DEFINE m == n + 1
<1>11. /\ \A i \in 1 .. m : i \in 1 .. n \/ i = m
       /\ \A i \in 1 .. n : i \in 1 .. m /\ i # m /\ i < m
       /\ m \in 1 .. m /\ m \in Int /\ 1 .. Len(stack') = 1 .. m
  BY <1>1, <1>6
<1>12. stack'[m].what = "sample" /\ stack'[m].id = x /\ stack'[m].todo = ProcessesOf(x)
  BY <1>10
<1>13. Len(stack') = m
  BY <1>6
<1> HIDE DEF n, m
<1>14. \A i \in 1 .. n : IsSample(i) <=> ~IsProcess(i)
  BY <1>8 DEF Nested, IsSample, IsProcess, n
<1>15. \A i \in 1 .. n : IsSample(i) => stack[i].id < x
  <2> SUFFICES ASSUME NEW i \in 1 .. n, IsSample(i)
               PROVE  stack[i].id < x
    OBVIOUS
  <2>1. n - 1 \in 1 .. n - 1 /\ n - 1 \in 1 .. n /\ (n - 1) + 1 = n /\ i \in 1 .. n - 1
    <3>1. i # n
      BY <1>1, <1>14
    <3> QED
      BY <1>1, <3>1
  <2>2. Follows(n - 1)
    BY <1>8, <2>1 DEF Nested, n
  <2>3. IsSample(n - 1) /\ members[p] = {stack[n - 1].id}
    BY <1>1, <1>14, <2>1, <2>2 DEF Follows
  <2>4. stack[n - 1].id = parent[p]
    BY <1>3, <2>3
  <2>5. i = n - 1 \/ i < n - 1
    BY <1>1, <2>1
  <2>6. stack[i].id = parent[p] \/ stack[i].id < parent[p]
    BY <1>8, <2>1, <2>3, <2>4, <2>5 DEF Nested, n
  <2>7. stack[i].id \in Int /\ parent[p] \in Int /\ x \in Int
    BY <1>1, <1>3, <1>8, ObjectsAreObjects, Bounds DEF Nested, n
  <2> QED
    BY <1>3, <2>6, <2>7
<1>16. (LineageIntact /\ Orderly)'
  <2>1. announced' \subseteq Objects /\ dry \in BOOLEAN /\ before \in [Processes -> SUBSET Samples]
    <3>1. announced \subseteq Objects /\ dry \in BOOLEAN /\ before \in [Processes -> SUBSET Samples]
      BY <1>1 DEF LineageIntact, TypeOK
    <3>2. Sample(x) \in Objects
      BY <1>1, ObjectsAreObjects
    <3> QED
      BY <3>1, <3>2
  <2>2. LineageIntact /\ Orderly
    BY <1>1
  <2>3. stack' \in Seq(Calls)
    BY <1>6
  <2> QED
    BY <1>2, <2>1, <2>2, <2>3, LineageStays
<1>17. Nested'
  <2>1. \A i \in 1 .. n - 1 : i \in 1 .. n /\ i # n /\ i + 1 \in 1 .. n
    BY <1>1
  <2>2. \A i \in 1 .. n - 1 : Follows(i)'
    <3> SUFFICES ASSUME NEW i \in 1 .. n - 1 PROVE Follows(i)'
      OBVIOUS
    <3>1. Follows(i)
      BY <1>8 DEF Nested, n
    <3>2. (IsSample(i)' <=> IsSample(i)) /\ (IsProcess(i)' <=> IsProcess(i)) /\ stack'[i].id = stack[i].id /\ stack'[i].todo = stack[i].todo
      BY <1>6, <2>1
    <3>3. (IsSample(i + 1)' <=> IsSample(i + 1)) /\ (IsProcess(i + 1)' <=> IsProcess(i + 1)) /\ stack'[i + 1].id = stack[i + 1].id
      BY <1>6, <2>1
    <3> QED
      BY <1>2, <3>1, <3>2, <3>3 DEF Follows
  <2>3. ASSUME NEW i \in 1 .. m - 1 PROVE Follows(i)'
    <3>1. CASE i = n
      <4>1. IsProcess(i)' /\ ~IsSample(i)' /\ stack'[i].id = p /\ x \notin stack'[i].todo
        BY <1>1, <1>6, <1>14, <3>1
      <4>2. IsSample(i + 1)' /\ stack'[i + 1].id = x
        BY <1>12, <3>1 DEF IsSample, m
      <4> QED
        BY <1>2, <1>3, <4>1, <4>2 DEF Follows
    <3>2. CASE i # n
      <4>1. i \in 1 .. n - 1
        BY <1>1, <3>2 DEF m
      <4> QED
        BY <2>2, <4>1
    <3> QED
      BY <3>1, <3>2
  <2>4. ASSUME NEW i \in 1 .. m
        PROVE  /\ IsSample(i)' \/ IsProcess(i)'
               /\ IsSample(i)' => stack'[i].id \in alive /\ \A q \in stack'[i].todo : stack'[i].id \in before[q]
               /\ IsProcess(i)' => stack'[i].id \in live /\ \A s \in stack'[i].todo : s \in alive /\ origin[s] = stack'[i].id
    <3>1. CASE i \in 1 .. n
      BY <1>6, <1>8, <3>1, SMTT(30) DEF Nested, n
    <3>2. CASE i = m
      <4>1. \A q \in ProcessesOf(x) : x \in before[q]
        BY <1>8 DEF ProcessesOf, Kept
      <4> QED
        BY <1>1, <1>12, <3>2, <4>1 DEF IsSample, IsProcess
    <3> QED
      BY <1>11, <3>1, <3>2
  <2>5. ASSUME NEW i \in 1 .. m, NEW j \in 1 .. m, i < j
        PROVE  /\ IsSample(i)' /\ IsSample(j)' => stack'[i].id < stack'[j].id
               /\ IsProcess(i)' /\ IsProcess(j)' => stack'[i].id # stack'[j].id
    <3>1. i \in 1 .. n
      BY <1>1, <1>11, <2>5 DEF m
    <3>2. CASE j \in 1 .. n
      <4>1. /\ IsSample(i) /\ IsSample(j) => stack[i].id < stack[j].id
            /\ IsProcess(i) /\ IsProcess(j) => stack[i].id # stack[j].id
        BY <1>8, <2>5, <3>1, <3>2 DEF Nested, n
      <4> QED
        BY <1>6, <3>1, <3>2, <4>1
    <3>3. CASE j = m
      <4>1. ~IsProcess(j)'
        BY <1>12, <3>3 DEF IsProcess
      <4>2. (IsSample(i)' => stack[i].id < x) /\ stack'[i].id = stack[i].id
        BY <1>6, <1>15, <3>1
      <4>3. stack'[j].id = x
        BY <1>12, <3>3
      <4> QED
        BY <4>1, <4>2, <4>3
    <3> QED
      BY <1>11, <3>2, <3>3
  <2>6. \A i \in 1 .. Len(stack') :
          /\ IsSample(i)' \/ IsProcess(i)'
          /\ IsSample(i)' => stack'[i].id \in alive' /\ \A q \in stack'[i].todo : stack'[i].id \in before'[q]
          /\ IsProcess(i)' => stack'[i].id \in live' /\ \A s \in stack'[i].todo : s \in alive' /\ origin'[s] = stack'[i].id
    BY <1>2, <1>13, <2>4
  <2>7. \A i, j \in 1 .. Len(stack') : i < j =>
          /\ IsSample(i)' /\ IsSample(j)' => stack'[i].id < stack'[j].id
          /\ IsProcess(i)' /\ IsProcess(j)' => stack'[i].id # stack'[j].id
    BY <1>13, <2>5
  <2>8. \A i \in 1 .. Len(stack') - 1 : Follows(i)'
    BY <1>13, <2>3
  <2> QED
    BY <2>6, <2>7, <2>8, NestedThen
<1>18. Kept' /\ (dry' => members' = before')
  BY <1>2, <1>8 DEF Kept
<1>19. ~dry => Remaining'
  <2> SUFFICES ASSUME ~dry PROVE Remaining'
    OBVIOUS
  <2>1. Remaining
    BY <1>8
  <2>2. \A s \in Samples \ alive, q \in live : before[q] # {s}
    BY <2>1 DEF Remaining
  <2>3. ASSUME NEW i \in 1 .. m, IsSample(i)', NEW q \in live, before[q] = {stack'[i].id}
        PROVE  q \in stack'[i].todo \/ (i < m /\ stack'[i + 1].id = q)
    <3>1. CASE i \in 1 .. n
      <4>0. IsSample(i) /\ before[q] = {stack[i].id}
        BY <1>6, <2>3, <3>1
      <4>1. q \in stack[i].todo \/ (i < n /\ stack[i + 1].id = q)
        BY <2>1, <3>1, <4>0 DEF Remaining, n
      <4>2. i < n => i + 1 \in 1 .. n
        BY <1>1, <3>1
      <4>3. i # n
        BY <1>1, <1>6, <1>14, <2>3, <3>1
      <4> QED
        BY <1>6, <1>11, <3>1, <4>1, <4>2, <4>3
    <3>2. CASE i = m
      <4>1. before[q] = {x}
        BY <1>12, <2>3, <3>2
      <4>2. x \in members[q]
        BY <1>1, <1>8, <4>1 DEF Kept
      <4> QED
        BY <1>12, <3>2, <4>2 DEF ProcessesOf
    <3> QED
      BY <1>11, <3>1, <3>2
  <2>4. ASSUME NEW i \in 1 .. m, IsProcess(i)', NEW s \in alive, origin[s] = stack'[i].id
        PROVE  s \in stack'[i].todo \/ (i < m /\ stack'[i + 1].id = s)
    <3>1. i \in 1 .. n
      BY <1>11, <1>12, <2>4 DEF IsProcess
    <3>0. IsProcess(i) /\ origin[s] = stack[i].id
      BY <1>6, <2>4, <3>1
    <3>2. s \in stack[i].todo \/ (i < n /\ stack[i + 1].id = s)
      BY <2>1, <3>0, <3>1 DEF Remaining, n
    <3>3. i < n => i + 1 \in 1 .. n
      BY <1>1, <3>1
    <3>4. i = n => stack'[i + 1].id = x
      BY <1>12 DEF m
    <3> QED
      BY <1>6, <1>11, <3>1, <3>2, <3>3, <3>4
  <2>5. \A i \in 1 .. Len(stack') : IsSample(i)' =>
          \A q \in live' : before'[q] = {stack'[i].id} => q \in stack'[i].todo \/ (i < Len(stack') /\ stack'[i + 1].id = q)
    <3>1. ASSUME NEW i \in 1 .. Len(stack'), IsSample(i)', NEW q \in live', before'[q] = {stack'[i].id}
          PROVE  q \in stack'[i].todo \/ (i < Len(stack') /\ stack'[i + 1].id = q)
      BY <1>13, <1>2, <2>3, <3>1, SMTT(30)
    <3> QED
      BY <3>1
  <2>6. \A i \in 1 .. Len(stack') : IsProcess(i)' =>
          \A s \in alive' : origin'[s] = stack'[i].id => s \in stack'[i].todo \/ (i < Len(stack') /\ stack'[i + 1].id = s)
    <3>1. ASSUME NEW i \in 1 .. Len(stack'), IsProcess(i)', NEW s \in alive', origin'[s] = stack'[i].id
          PROVE  s \in stack'[i].todo \/ (i < Len(stack') /\ stack'[i + 1].id = s)
      BY <1>13, <1>2, <2>4, <3>1
    <3> QED
      BY <3>1
  <2>7. \A s \in Samples \ alive', q \in live' : before'[q] # {s}
    BY <1>2, <2>2
  <2> QED
    BY <2>5, <2>6, <2>7, RemainingThen
<1>20. announced \subseteq announced' /\ announced' # {}
  BY <1>7
<1>21. Explained'
  <2> SUFFICES ASSUME NEW q \in Processes \ live, NEW s \in before[q] \cap alive, Process(q) \notin announced'
               PROVE  \E i \in 1 .. m : IsSample(i)' /\ stack'[i].id = s
    BY <1>2, <1>13 DEF Explained
  <2>1. PICK i \in 1 .. n : IsSample(i) /\ stack[i].id = s
    BY <1>8, <1>20 DEF Explained, n
  <2>2. i \in 1 .. m /\ IsSample(i)' /\ stack'[i].id = s
    BY <1>6, <1>11, <2>1
  <2> QED
    BY <2>2
<1>22. OnlyDependent'
  <2> SUFFICES ASSUME NEW C \in SUBSET Objects, Closed(C)', Object(stack'[1]) \in C
               PROVE  announced' \subseteq C
    BY DEF OnlyDependent
  <2>1. Closed(C)
    BY <1>2 DEF Closed
  <2>2. Object(stack'[1]) = Object(stack[1])
    BY <1>1, <1>6, <1>14 DEF Object, IsSample, IsProcess
  <2>3. announced \subseteq C
    BY <1>8, <2>1, <2>2 DEF OnlyDependent
  <2>4. Sample(x) \in C
    BY <1>1, <1>3, <1>9, <2>1, <2>3 DEF Closed
  <2> QED
    BY <2>3, <2>4
<1>23. AllDependent'
  <2>1. ASSUME NEW s \in Samples, NEW q \in Processes, Sample(s) \in announced', before[q] = {s}, Process(q) \notin announced'
        PROVE  dry /\ \E i \in 1 .. m : IsSample(i)' /\ stack'[i].id = s /\ q \in stack'[i].todo
    <3>1. CASE Sample(s) \in announced
      <4>1. PICK i \in 1 .. n : dry /\ IsSample(i) /\ stack[i].id = s /\ q \in stack[i].todo
        BY <1>8, <1>20, <2>1, <3>1 DEF AllDependent, n
      <4>2. i # n
        BY <1>1, <1>14, <4>1
      <4>3. i \in 1 .. m /\ IsSample(i)' /\ stack'[i].id = s /\ q \in stack'[i].todo
        BY <1>6, <1>11, <4>1, <4>2
      <4> QED
        BY <4>1, <4>3
    <3>2. CASE Sample(s) \notin announced
      <4>1. dry /\ s = x
        BY <2>1, <3>2, ObjectsDiffer
      <4>2. members[q] = {x} /\ q \in live
        BY <1>1, <1>8, <2>1, <4>1 DEF Orderly
      <4>3. m \in 1 .. m /\ stack'[m].what = "sample" /\ stack'[m].id = s /\ q \in stack'[m].todo
        BY <1>11, <1>12, <4>1, <4>2 DEF ProcessesOf
      <4> QED
        BY <4>1, <4>3 DEF IsSample
    <3> QED
      BY <3>1, <3>2
  <2>2. ASSUME NEW s \in alive, NEW q \in Processes, Process(q) \in announced', origin[s] = q, Sample(s) \notin announced'
        PROVE  dry /\ \E i \in 1 .. m : IsProcess(i)' /\ stack'[i].id = q /\ s \in stack'[i].todo
    <3>1. Process(q) \in announced /\ Sample(s) \notin announced
      BY <2>2, ObjectsDiffer
    <3>2. PICK i \in 1 .. n : dry /\ IsProcess(i) /\ stack[i].id = q /\ s \in stack[i].todo
      BY <1>8, <2>2, <3>1 DEF AllDependent, n
    <3>3. s # x
      BY <2>2, <3>2
    <3>4. i \in 1 .. m /\ IsProcess(i)' /\ stack'[i].id = q /\ s \in stack'[i].todo
      BY <1>6, <1>11, <3>2, <3>3
    <3> QED
      BY <3>2, <3>4
  <2> QED
    BY <1>2, <1>13, <2>1, <2>2 DEF AllDependent
<1>24. Warned'
  <2> SUFFICES ASSUME NEW i \in 1 .. m
               PROVE  /\ IsSample(i)' => Sample(stack'[i].id) \in announced'
                      /\ IsProcess(i)' /\ (dry \/ i = 1 \/ kind[stack'[i].id] = "split") => Process(stack'[i].id) \in announced'
    BY <1>2, <1>13, SMTT(30) DEF Warned
  <2>1. CASE i \in 1 .. n
    BY <1>6, <1>8, <1>20, <2>1 DEF Warned, n
  <2>2. CASE i = m
    <3>1. ~IsProcess(i)' /\ stack'[i].id = x
      BY <1>12, <2>2 DEF IsProcess
    <3>2. dry => Sample(x) \in announced'
      OBVIOUS
    <3>3. ~dry => Sample(x) \in announced
      BY <1>1, <1>3, <1>8, <1>9 DEF AllDependent
    <3> QED
      BY <1>20, <3>1, <3>2, <3>3
  <2> QED
    BY <1>11, <2>1, <2>2
<1>25. Deleting'
  BY <1>2, <1>17, <1>18, <1>19, <1>20, <1>21, <1>22, <1>23, <1>24 DEF Deleting
<1> QED
  BY <1>2, <1>4, <1>6, <1>16, <1>25 DEF LineageInv

(* A call returns to the loop that has made it.                            *)
LEMMA CallIsRemoved ==
  ASSUME LineageAssumption, LineageInv, stack # <<>>, Call.what # "merge", stack' = Outer, Len(stack) # 1
  PROVE  /\ stack' \in Seq(Calls) /\ stack' # <<>> /\ Len(stack') = Len(stack) - 1 /\ Call'.what # "merge"
         /\ \A i \in 1 .. Len(stack) - 1 :
              /\ (IsSample(i)' <=> IsSample(i)) /\ (IsProcess(i)' <=> IsProcess(i))
              /\ stack'[i] = stack[i] /\ i \in 1 .. Len(stack) /\ i + 1 \in 1 .. Len(stack)
         /\ Len(stack) - 1 \in 1 .. Len(stack) - 1 /\ 1 \in 1 .. Len(stack) - 1 /\ (Len(stack) - 1) + 1 = Len(stack)
         /\ \A i \in 1 .. Len(stack) : i = Len(stack) \/ i \in 1 .. Len(stack) - 1
         /\ \A i \in 1 .. Len(stack) - 1 : i = Len(stack) - 1 \/ i \in 1 .. (Len(stack) - 1) - 1
         /\ \A i \in 1 .. (Len(stack) - 1) - 1 : i \in 1 .. Len(stack) - 1 /\ i + 1 \in 1 .. Len(stack) - 1 /\ i < Len(stack) - 1
<1> DEFINE n == Len(stack)
           m == n - 1
<1>1. n \in Nat \ {0} /\ stack \in Seq(Calls) /\ Deleting
  BY CallOfDeletion
<1>2. m \in Nat \ {0} /\ n = m + 1
  BY <1>1
<1>3. stack' \in Seq(Calls) /\ Len(stack') = m /\ \A i \in 1 .. m : stack'[i] = stack[i]
  BY <1>1, Popped
<1>4. stack' # <<>> /\ m \in 1 .. m
  BY <1>2, <1>3, EmptySeq
<1> HIDE DEF n
<1>5. Call'.what # "merge"
  <2>1. Call' = stack'[m]
    BY <1>3 DEF Call
  <2>2. m \in 1 .. n
    BY <1>2
  <2>3. IsSample(m) \/ IsProcess(m)
    BY <1>1, <2>2 DEF Deleting, Nested, n
  <2> QED
    BY <1>3, <1>4, <2>1, <2>3 DEF IsSample, IsProcess
<1>6. \A i \in 1 .. m : i \in 1 .. n /\ i + 1 \in 1 .. n
  BY <1>2
<1>7. \A i \in 1 .. n : i = n \/ i \in 1 .. m
  BY <1>2
<1>8. \A i \in 1 .. m : i = m \/ i \in 1 .. m - 1
  BY <1>2
<1>9. \A i \in 1 .. m - 1 : i \in 1 .. m /\ i + 1 \in 1 .. m /\ i < m
  BY <1>2
<1>10. m \in 1 .. m /\ 1 \in 1 .. m /\ m + 1 = n
  BY <1>2
<1>11. \A i \in 1 .. m : (IsSample(i)' <=> IsSample(i)) /\ (IsProcess(i)' <=> IsProcess(i))
  BY <1>3 DEF IsSample, IsProcess
<1> QED
  BY <1>3, <1>4, <1>5, <1>6, <1>7, <1>8, <1>9, <1>10, <1>11 DEF n

(* What stays true of the calls around one that returns, if no other       *)
(* object of theirs has been deleted.                                      *)
LEMMA OuterCallsStay ==
  ASSUME LineageAssumption, LineageInv, stack # <<>>, Call.what # "merge", Call.todo = {}, stack' = Outer, Len(stack) # 1,
         UNCHANGED <<origin, kind, announced, dry, before>>,
         alive' \subseteq alive, live' \subseteq live,
         \A i \in 1 .. Len(stack) - 1 :
           /\ IsSample(i) => stack[i].id \in alive'
           /\ IsProcess(i) => stack[i].id \in live' /\ members'[stack[i].id] = members[stack[i].id]
                              /\ \A s \in stack[i].todo : s \in alive'
  PROVE  /\ stack' \in Seq(Calls) /\ stack' # <<>> /\ Call'.what # "merge" /\ announced # {}
         /\ Nested' /\ OnlyDependent' /\ AllDependent' /\ Warned'
<1> DEFINE n == Len(stack)
           m == n - 1
<1>1. LineageIntact /\ Orderly /\ Deleting /\ n \in Nat \ {0} /\ Call = stack[n]
  BY CallOfDeletion
<1>2. /\ stack' \in Seq(Calls) /\ stack' # <<>> /\ Len(stack') = m /\ Call'.what # "merge"
      /\ \A i \in 1 .. m :
           /\ (IsSample(i)' <=> IsSample(i)) /\ (IsProcess(i)' <=> IsProcess(i))
           /\ stack'[i] = stack[i] /\ i \in 1 .. n /\ i + 1 \in 1 .. n
      /\ m \in 1 .. m /\ 1 \in 1 .. m /\ m + 1 = n
      /\ \A i \in 1 .. n : i = n \/ i \in 1 .. m
      /\ \A i \in 1 .. m : i = m \/ i \in 1 .. m - 1
      /\ \A i \in 1 .. m - 1 : i \in 1 .. m /\ i + 1 \in 1 .. m /\ i < m
  BY CallIsRemoved
<1>3. announced # {}
  BY <1>1 DEF Deleting, MergedAway
<1>4. OnlyDependent /\ AllDependent /\ Warned /\ Nested
  BY <1>1, <1>3 DEF Deleting
<1> HIDE DEF n, m
<1>5. Nested'
  <2>1. \A i \in 1 .. m - 1 : Follows(i)'
    <3> SUFFICES ASSUME NEW i \in 1 .. m - 1 PROVE Follows(i)'
      OBVIOUS
    <3>1. i \in 1 .. m /\ i + 1 \in 1 .. m
      BY <1>2
    <3>2. Follows(i)
      BY <1>4, <3>1 DEF Nested, n, m
    <3>3. /\ stack'[i] = stack[i] /\ stack'[i + 1] = stack[i + 1]
          /\ (IsSample(i)' <=> IsSample(i)) /\ (IsProcess(i)' <=> IsProcess(i))
          /\ (IsSample(i + 1)' <=> IsSample(i + 1)) /\ (IsProcess(i + 1)' <=> IsProcess(i + 1))
      BY <1>2, <3>1
    <3>4. IsProcess(i + 1) => members'[stack[i + 1].id] = members[stack[i + 1].id]
      BY <3>1 DEF m, n
    <3> QED
      BY <3>2, <3>3, <3>4 DEF Follows
  <2>2. \A i \in 1 .. m :
          /\ IsSample(i) \/ IsProcess(i)
          /\ IsSample(i) => stack[i].id \in alive' /\ \A q \in stack[i].todo : stack[i].id \in before[q]
          /\ IsProcess(i) => stack[i].id \in live' /\ \A s \in stack[i].todo : s \in alive' /\ origin[s] = stack[i].id
    BY <1>2, <1>4 DEF Nested, n, m
  <2>3. \A i, j \in 1 .. m : i < j =>
          /\ IsSample(i) /\ IsSample(j) => stack[i].id < stack[j].id
          /\ IsProcess(i) /\ IsProcess(j) => stack[i].id # stack[j].id
    BY <1>2, <1>4 DEF Nested, n
  <2>4. Len(stack') = m
    BY <1>2
  <2>5. \A i \in 1 .. m :
          /\ IsSample(i)' \/ IsProcess(i)'
          /\ IsSample(i)' => stack'[i].id \in alive' /\ \A q \in stack'[i].todo : stack'[i].id \in before'[q]
          /\ IsProcess(i)' => stack'[i].id \in live' /\ \A s \in stack'[i].todo : s \in alive' /\ origin'[s] = stack'[i].id
    <3> SUFFICES ASSUME NEW i \in 1 .. m
                 PROVE  /\ IsSample(i)' \/ IsProcess(i)'
                        /\ IsSample(i)' => stack'[i].id \in alive' /\ \A q \in stack'[i].todo : stack'[i].id \in before'[q]
                        /\ IsProcess(i)' => stack'[i].id \in live' /\ \A s \in stack'[i].todo : s \in alive' /\ origin'[s] = stack'[i].id
      OBVIOUS
    <3>1. stack'[i] = stack[i] /\ (IsSample(i)' <=> IsSample(i)) /\ (IsProcess(i)' <=> IsProcess(i))
      BY <1>2
    <3> QED
      BY <2>2, <3>1
  <2>6. \A i, j \in 1 .. m : i < j =>
          /\ IsSample(i)' /\ IsSample(j)' => stack'[i].id < stack'[j].id
          /\ IsProcess(i)' /\ IsProcess(j)' => stack'[i].id # stack'[j].id
    <3> SUFFICES ASSUME NEW i \in 1 .. m, NEW j \in 1 .. m, i < j
                 PROVE  /\ IsSample(i)' /\ IsSample(j)' => stack'[i].id < stack'[j].id
                        /\ IsProcess(i)' /\ IsProcess(j)' => stack'[i].id # stack'[j].id
      OBVIOUS
    <3>1. /\ stack'[i] = stack[i] /\ (IsSample(i)' <=> IsSample(i)) /\ (IsProcess(i)' <=> IsProcess(i))
          /\ stack'[j] = stack[j] /\ (IsSample(j)' <=> IsSample(j)) /\ (IsProcess(j)' <=> IsProcess(j))
      BY <1>2
    <3> QED
      BY <2>3, <3>1
  <2>7. \A i \in 1 .. Len(stack') :
          /\ IsSample(i)' \/ IsProcess(i)'
          /\ IsSample(i)' => stack'[i].id \in alive' /\ \A q \in stack'[i].todo : stack'[i].id \in before'[q]
          /\ IsProcess(i)' => stack'[i].id \in live' /\ \A s \in stack'[i].todo : s \in alive' /\ origin'[s] = stack'[i].id
    BY <2>4, <2>5
  <2>8. \A i, j \in 1 .. Len(stack') : i < j =>
          /\ IsSample(i)' /\ IsSample(j)' => stack'[i].id < stack'[j].id
          /\ IsProcess(i)' /\ IsProcess(j)' => stack'[i].id # stack'[j].id
    BY <2>4, <2>6
  <2>9. \A i \in 1 .. Len(stack') - 1 : Follows(i)'
    BY <2>1, <2>4
  <2> QED
    BY <2>7, <2>8, <2>9, NestedThen
<1>6. OnlyDependent'
  <2> SUFFICES ASSUME NEW C \in SUBSET Objects, Closed(C)', Object(stack'[1]) \in C
               PROVE  announced' \subseteq C
    BY DEF OnlyDependent
  <2>1. Closed(C)
    BY DEF Closed
  <2>2. stack'[1] = stack[1]
    BY <1>2
  <2> QED
    BY <1>4, <2>1, <2>2 DEF OnlyDependent
<1>7. AllDependent'
  <2>1. ASSUME NEW s \in Samples, NEW q \in Processes, Sample(s) \in announced, before[q] = {s}, Process(q) \notin announced
        PROVE  dry /\ \E i \in 1 .. m : IsSample(i)' /\ stack'[i].id = s /\ q \in stack'[i].todo
    <3>1. PICK i \in 1 .. n : dry /\ IsSample(i) /\ stack[i].id = s /\ q \in stack[i].todo
      BY <1>4, <2>1 DEF AllDependent, n
    <3>2. i # n
      BY <1>1, <3>1
    <3>3. i \in 1 .. m /\ IsSample(i)' /\ stack'[i].id = s /\ q \in stack'[i].todo
      BY <1>2, <3>1, <3>2
    <3> QED
      BY <3>1, <3>3
  <2>2. ASSUME NEW s \in alive, NEW q \in Processes, Process(q) \in announced, origin[s] = q, Sample(s) \notin announced
        PROVE  dry /\ \E i \in 1 .. m : IsProcess(i)' /\ stack'[i].id = q /\ s \in stack'[i].todo
    <3>1. PICK i \in 1 .. n : dry /\ IsProcess(i) /\ stack[i].id = q /\ s \in stack[i].todo
      BY <1>4, <2>2 DEF AllDependent, n
    <3>2. i # n
      BY <1>1, <3>1
    <3>3. i \in 1 .. m /\ IsProcess(i)' /\ stack'[i].id = q /\ s \in stack'[i].todo
      BY <1>2, <3>1, <3>2
    <3> QED
      BY <3>1, <3>3
  <2>3. Len(stack') = m
    BY <1>2
  <2> QED
    BY <2>1, <2>2, <2>3 DEF AllDependent
<1>8. Warned'
  <2>1. Len(stack') = m
    BY <1>2
  <2>2. \A i \in 1 .. m :
          /\ IsSample(i) => Sample(stack[i].id) \in announced
          /\ IsProcess(i) /\ (dry \/ i = 1 \/ kind[stack[i].id] = "split") => Process(stack[i].id) \in announced
    BY <1>2, <1>4 DEF Warned, n
  <2> QED
    BY <1>2, <2>1, <2>2 DEF Warned
<1> QED
  BY <1>2, <1>3, <1>5, <1>6, <1>7, <1>8

LEMMA DryCallReturns ==
  ASSUME LineageAssumption, LineageInv, stack # <<>>, Call.what # "merge", Call.todo = {}, stack' = Outer, Len(stack) # 1, dry,
         UNCHANGED <<now, born, alive, origin, made, live, kind, stamp, parent, members, split_done, announced, dry, before>>
  PROVE  LineageInv'
<1>1. LineageIntact /\ Orderly /\ Deleting /\ Len(stack) \in Nat \ {0}
  BY CallOfDeletion
<1>2. members = before /\ Kept /\ Nested
  BY <1>1 DEF Deleting
<1>3. \A i \in 1 .. Len(stack) - 1 : i \in 1 .. Len(stack)
  BY <1>1
<1>4. \A i \in 1 .. Len(stack) - 1 :
        /\ IsSample(i) => stack[i].id \in alive
        /\ IsProcess(i) => stack[i].id \in live /\ \A s \in stack[i].todo : s \in alive
  BY <1>2, <1>3 DEF Nested
<1>5. /\ stack' \in Seq(Calls) /\ stack' # <<>> /\ Call'.what # "merge" /\ announced # {}
      /\ Nested' /\ OnlyDependent' /\ AllDependent' /\ Warned'
  BY <1>4, OuterCallsStay
<1>6. Kept'
  BY <1>2 DEF Kept
<1>7. Explained'
  BY <1>1, <1>2 DEF Explained, Orderly
<1>8. (LineageIntact /\ Orderly)'
  <2>1. announced \subseteq Objects /\ dry \in BOOLEAN /\ before \in [Processes -> SUBSET Samples]
    BY <1>1 DEF LineageIntact, TypeOK
  <2> QED
    BY <1>1, <1>5, <2>1, LineageStays
<1>9. Deleting'
  BY <1>2, <1>5, <1>6, <1>7 DEF Deleting
<1> QED
  BY <1>5, <1>8, <1>9 DEF LineageInv

(* What does not depend on an object that still exists may be gone.        *)
LEMMA AnnouncedIsGone ==
  ASSUME OnlyDependent, LineageAssumption, LineageIntact', UNCHANGED origin,
         Object(stack[1]) \in Objects, Object(stack[1]) \notin Existing',
         \A s \in Samples \ alive', p \in live' : before[p] # {s}
  PROVE  announced \cap Existing' = {}
<1> DEFINE C == Objects \ Existing'
<1>1. \A s \in Samples : Sample(s) \in Existing' <=> s \in alive'
  BY DEF Existing, Sample, Process
<1>2. \A p \in Processes : Process(p) \in Existing' <=> p \in live'
  BY DEF Existing, Sample, Process
<1>3. /\ \A s \in Samples : Sample(s) \in Objects
      /\ \A p \in Processes : Process(p) \in Objects /\ p # None
  BY Bounds DEF Objects, None
<1>4. Closed(C)
  <2> SUFFICES ASSUME NEW s \in Samples, NEW p \in Processes
               PROVE  /\ Sample(s) \in C /\ before[p] = {s} => Process(p) \in C
                      /\ Process(p) \in C /\ origin[s] = p => Sample(s) \in C
    BY DEF Closed
  <2>1. Sample(s) \in C /\ before[p] = {s} => Process(p) \in C
    BY <1>1, <1>2, <1>3
  <2>2. Process(p) \in C /\ origin[s] = p => Sample(s) \in C
    <3>1. s \in alive' /\ origin[s] = p => p \in live'
      BY <1>3 DEF LineageIntact
    <3> QED
      BY <1>1, <1>2, <1>3, <3>1
  <2> QED
    BY <2>1, <2>2
<1>5. announced \subseteq C
  BY <1>4 DEF OnlyDependent
<1> QED
  BY <1>5

(* No survivor has lost a process without warning.                         *)
HistoryKept ==
  \A s \in alive', p \in Processes : s \in before[p] /\ s \notin members'[p] => Process(p) \in announced'

LEMMA SampleGoes ==
  ASSUME LineageAssumption, LineageInv, stack # <<>>, Call.what = "sample", Call.todo = {}, ~dry, stack' = Outer,
         alive' = alive \ {Call.id}, members' = [p \in Processes |-> members[p] \ {Call.id}],
         UNCHANGED <<now, born, origin, made, live, kind, stamp, parent, split_done, announced, dry>>,
         before' = IF Len(stack) = 1 THEN members' ELSE before
  PROVE  LineageInv' /\ (stack' = <<>> => HistoryKept)
<1> DEFINE n == Len(stack)
           m == n - 1
           x == Call.id
<1>1. /\ LineageIntact /\ Orderly /\ Deleting /\ n \in Nat \ {0} /\ n \in 1 .. n /\ 1 \in 1 .. n
      /\ Call = stack[n] /\ IsSample(n) /\ x \in alive /\ stack \in Seq(Calls)
  BY CallOfDeletion DEF IsProcess
<1>2. Nested /\ Kept /\ Remaining /\ Explained
  BY <1>1 DEF Deleting
<1>3. /\ alive \subseteq Samples /\ live \subseteq Processes
      /\ before \in [Processes -> SUBSET Samples] /\ members \in [Processes -> SUBSET alive]
  BY <1>1, ObjectsAreObjects
<1>4. /\ \A p \in Processes : members'[p] = members[p] \ {x}
      /\ \A p \in live : members[p] \subseteq before[p] /\ before[p] \cap alive \subseteq members[p]
      /\ \A p \in live : kind[p] = "split" => before[p] = {parent[p]}
  BY <1>2 DEF Kept
<1>5. \A p \in live : before[p] # {x}
  BY <1>1, <1>2 DEF Remaining
<1>6. \A s \in Samples \ alive', p \in live : before[p] # {s}
  BY <1>2, <1>5 DEF Remaining
<1>7. \A p \in live : kind[p] = "split" => parent[p] \in alive' /\ members'[p] = {parent[p]}
  <2> SUFFICES ASSUME NEW p \in live, kind[p] = "split"
               PROVE  parent[p] \in alive' /\ members'[p] = {parent[p]}
    OBVIOUS
  <2>1. parent[p] \in alive /\ members[p] = {parent[p]}
    BY <1>1 DEF LineageIntact
  <2>2. parent[p] # x
    BY <1>4, <1>5
  <2> QED
    BY <1>3, <1>4, <2>1, <2>2
<1>8. stack' \in Seq(Calls)
  BY <1>1, Popped
<1>9. members' \in [Processes -> SUBSET alive'] /\ before' \in [Processes -> SUBSET Samples]
  <2>1. members' \in [Processes -> SUBSET alive']
    BY <1>3
  <2>2. members' \in [Processes -> SUBSET Samples]
    BY <1>3
  <2> QED
    BY <1>3, <2>1, <2>2
<1>10. (LineageIntact /\ Orderly)'
  <2>1. TypeOK'
    BY <1>1, <1>8, <1>9 DEF LineageIntact, TypeOK
  <2>2. LineageIntact'
    BY <1>1, <1>7, <2>1 DEF LineageIntact
  <2>3. Orderly'
    BY <1>1, <1>3, <1>4 DEF Orderly
  <2> QED
    BY <2>2, <2>3
<1>11. ASSUME n = 1
       PROVE  LineageInv' /\ (stack' = <<>> => HistoryKept)
  <2>1. stack' = <<>> /\ before' = members'
    BY <1>1, <1>11, Popped
  <2>2. announced \cap Existing' = {}
    <3>1. announced # {} => OnlyDependent
      BY <1>1 DEF Deleting
    <3>2. Object(stack[1]) = Sample(x)
      BY <1>1, <1>11 DEF Object, IsSample
    <3>3. Sample(x) \in Objects /\ Sample(x) \notin Existing'
      BY <1>1, <1>3 DEF Objects, Existing, Sample, Process
    <3> QED
      BY <1>6, <1>10, <3>1, <3>2, <3>3, AnnouncedIsGone
  <2>3. LineageInv'
    BY <1>10, <2>1, <2>2 DEF LineageInv, Resting
  <2>4. HistoryKept
    <3> SUFFICES ASSUME NEW s \in alive', NEW p \in Processes, s \in before[p], s \notin members'[p]
                 PROVE  Process(p) \in announced
      BY DEF HistoryKept
    <3>1. s \in alive /\ s # x /\ s \notin members[p]
      BY <1>4
    <3>2. p \notin live
      BY <1>4, <3>1
    <3>3. ~(\E i \in 1 .. Len(stack) : IsSample(i) /\ stack[i].id = s)
      <4>1. \A i \in 1 .. Len(stack) : i = n
        BY <1>11
      <4> QED
        BY <1>1, <3>1, <4>1
    <3> QED
      BY <1>2, <3>1, <3>2, <3>3 DEF Explained
  <2> QED
    BY <2>3, <2>4
<1>12. ASSUME n # 1
       PROVE  LineageInv' /\ (stack' = <<>> => HistoryKept)
  <2>1. before' = before
    BY <1>12
  <2>2. /\ Len(stack') = m /\ stack' # <<>>
        /\ \A i \in 1 .. m :
             /\ (IsSample(i)' <=> IsSample(i)) /\ (IsProcess(i)' <=> IsProcess(i))
             /\ stack'[i] = stack[i] /\ i \in 1 .. n /\ i + 1 \in 1 .. n
        /\ m \in 1 .. m /\ 1 \in 1 .. m /\ m + 1 = n
        /\ \A i \in 1 .. n : i = n \/ i \in 1 .. m
        /\ \A i \in 1 .. m : i = m \/ i \in 1 .. m - 1
        /\ \A i \in 1 .. m - 1 : i \in 1 .. m /\ i + 1 \in 1 .. m /\ i < m
    BY <1>12, CallIsRemoved
  <2>3. \A i \in 1 .. m : i < n /\ i \in Int
    BY <1>1, <2>2
  <2> HIDE DEF n, m
  <2>4. \A i \in 1 .. n : IsSample(i) <=> ~IsProcess(i)
    BY <1>2 DEF Nested, IsSample, IsProcess, n
  <2>5. Follows(m)
    BY <1>2, <2>2 DEF Nested, n, m
  <2>6. IsProcess(m) /\ origin[x] = stack[m].id /\ x \notin stack[m].todo
    BY <1>1, <2>2, <2>4, <2>5 DEF Follows
  <2>7. \A i \in 1 .. m :
          /\ IsSample(i) => stack[i].id \in alive'
          /\ IsProcess(i) => stack[i].id \in live /\ members'[stack[i].id] = members[stack[i].id]
                             /\ \A s \in stack[i].todo : s \in alive'
    <3> SUFFICES ASSUME NEW i \in 1 .. m
                 PROVE  /\ IsSample(i) => stack[i].id \in alive'
                        /\ IsProcess(i) => stack[i].id \in live /\ members'[stack[i].id] = members[stack[i].id]
                                           /\ \A s \in stack[i].todo : s \in alive'
      OBVIOUS
    <3>1. i \in 1 .. n /\ i < n
      BY <2>2, <2>3
    <3>2. /\ IsSample(i) => stack[i].id \in alive
          /\ IsProcess(i) => stack[i].id \in live /\ \A s \in stack[i].todo : s \in alive /\ origin[s] = stack[i].id
      BY <1>2, <3>1 DEF Nested, n
    <3>3. IsSample(i) => stack[i].id # x
      <4>1. IsSample(i) => stack[i].id < x
        BY <1>1, <1>2, <3>1 DEF Nested, n
      <4>2. x \in Int
        BY <1>1, <1>3, Bounds
      <4> QED
        BY <4>1, <4>2
    <3>4. IsProcess(i) => x \notin stack[i].todo
      <4>1. CASE i = m
        BY <2>6, <4>1
      <4>2. CASE i # m
        <5>1. i < m
          BY <2>2, <4>2
        <5>2. IsProcess(i) => stack[i].id # stack[m].id
          BY <1>2, <2>2, <2>6, <3>1, <5>1, SMTT(30) DEF Nested, n
        <5> QED
          BY <2>6, <3>2, <5>2
      <4> QED
        BY <4>1, <4>2
    <3>5. IsProcess(i) => members'[stack[i].id] = members[stack[i].id]
      <4> SUFFICES ASSUME IsProcess(i) PROVE members'[stack[i].id] = members[stack[i].id]
        OBVIOUS
      <4>1. IsSample(i + 1) /\ origin[stack[i + 1].id] = stack[i].id /\ stack[i + 1].id \in alive
        BY <1>2, <2>2 DEF Nested, Follows, n, m
      <4>2. kind[stack[i].id] = "split"
        <5>1. stack[i].id # None
          BY <1>3, <3>2, Bounds DEF None
        <5> QED
          BY <1>1, <4>1, <5>1 DEF Orderly
      <4>3. members[stack[i].id] = {parent[stack[i].id]} /\ members'[stack[i].id] = {parent[stack[i].id]}
        BY <1>1, <1>7, <3>2, <4>2 DEF LineageIntact
      <4> QED
        BY <4>3
    <3> QED
      BY <3>2, <3>3, <3>4, <3>5
  <2>8. /\ stack' \in Seq(Calls) /\ stack' # <<>> /\ Call'.what # "merge" /\ announced # {}
        /\ Nested' /\ OnlyDependent' /\ AllDependent' /\ Warned'
    <3>1. Len(stack) # 1 /\ 1 .. Len(stack) - 1 = 1 .. m /\ alive' \subseteq alive /\ live' \subseteq live
      BY <1>12 DEF n, m
    <3> QED
      BY <2>1, <2>7, <3>1, OuterCallsStay
  <2>9. Kept'
    BY <1>3, <1>4, <2>1 DEF Kept
  <2>10. Remaining'
    <3>0. Len(stack') = m
      BY <2>2
    <3>1. \A s \in Samples \ alive', p \in live' : before'[p] # {s}
      BY <1>6, <2>1
    <3>2. ASSUME NEW i \in 1 .. m, IsSample(i)', NEW q \in live, before[q] = {stack'[i].id}
          PROVE  q \in stack'[i].todo \/ (i < m /\ stack'[i + 1].id = q)
      <4>1. IsSample(i) /\ before[q] = {stack[i].id} /\ i \in 1 .. n /\ i < n /\ stack'[i] = stack[i]
        BY <2>2, <2>3, <3>2
      <4>2. q \in stack[i].todo \/ stack[i + 1].id = q
        BY <1>2, <4>1 DEF Remaining, n
      <4>3. i \in 1 .. m - 1 /\ i < m /\ stack'[i + 1] = stack[i + 1]
        BY <2>2, <2>4, <2>6, <4>1
      <4> QED
        BY <4>1, <4>2, <4>3
    <3>3. ASSUME NEW i \in 1 .. m, IsProcess(i)', NEW s \in alive', origin[s] = stack'[i].id
          PROVE  s \in stack'[i].todo \/ (i < m /\ stack'[i + 1].id = s)
      <4>1. IsProcess(i) /\ origin[s] = stack[i].id /\ i \in 1 .. n /\ i < n /\ stack'[i] = stack[i] /\ s \in alive /\ s # x
        BY <2>2, <2>3, <3>3
      <4>2. s \in stack[i].todo \/ stack[i + 1].id = s
        BY <1>2, <4>1 DEF Remaining, n
      <4>3. CASE i = m
        BY <1>1, <2>2, <4>1, <4>2, <4>3
      <4>4. CASE i # m
        <5>1. i \in 1 .. m - 1 /\ i < m /\ stack'[i + 1] = stack[i + 1]
          BY <2>2, <4>4
        <5> QED
          BY <4>1, <4>2, <5>1
      <4> QED
        BY <4>3, <4>4
    <3>4. \A i \in 1 .. Len(stack') : IsSample(i)' =>
            \A q \in live' : before'[q] = {stack'[i].id} => q \in stack'[i].todo \/ (i < Len(stack') /\ stack'[i + 1].id = q)
      <4>1. ASSUME NEW i \in 1 .. Len(stack'), IsSample(i)', NEW q \in live', before'[q] = {stack'[i].id}
            PROVE  q \in stack'[i].todo \/ (i < Len(stack') /\ stack'[i + 1].id = q)
        <5>1. before[q] = {stack'[i].id}
          BY <2>1, <4>1
        <5>2. i \in 1 .. m
          BY <3>0
        <5> QED
          BY <3>0, <3>2, <4>1, <5>1, <5>2
      <4> QED
        BY <4>1
    <3>5. \A i \in 1 .. Len(stack') : IsProcess(i)' =>
            \A s \in alive' : origin'[s] = stack'[i].id => s \in stack'[i].todo \/ (i < Len(stack') /\ stack'[i + 1].id = s)
      <4>1. ASSUME NEW i \in 1 .. Len(stack'), IsProcess(i)', NEW s \in alive', origin'[s] = stack'[i].id
            PROVE  s \in stack'[i].todo \/ (i < Len(stack') /\ stack'[i + 1].id = s)
        BY <3>0, <3>3, <4>1
      <4> QED
        BY <4>1
    <3> QED
      BY <3>1, <3>4, <3>5, RemainingThen
  <2>11. Explained'
    <3> SUFFICES ASSUME NEW q \in Processes \ live, NEW s \in before[q] \cap alive', Process(q) \notin announced
                 PROVE  \E i \in 1 .. m : IsSample(i)' /\ stack'[i].id = s
      BY <2>1, <2>2 DEF Explained
    <3>1. s \in before[q] \cap alive /\ s # x
      OBVIOUS
    <3>2. PICK i \in 1 .. n : IsSample(i) /\ stack[i].id = s
      BY <1>2, <3>1 DEF Explained, n
    <3>3. i \in 1 .. m
      BY <1>1, <2>2, <3>1, <3>2
    <3> QED
      BY <2>2, <3>2, <3>3
  <2>12. Deleting'
    BY <2>8, <2>9, <2>10, <2>11 DEF Deleting
  <2> QED
    BY <1>10, <2>8, <2>12 DEF LineageInv
<1> QED
  BY <1>11, <1>12

LEMMA ProcessGoes ==
  ASSUME LineageAssumption, LineageInv, stack # <<>>, Call.what = "process", Call.todo = {}, ~dry, stack' = Outer,
         live' = live \ {Call.id}, members' = [members EXCEPT ![Call.id] = {}], split_done' = split_done \ {Call.id},
         UNCHANGED <<now, born, alive, origin, made, kind, stamp, parent, announced, dry>>,
         before' = IF Len(stack) = 1 THEN members' ELSE before
  PROVE  LineageInv' /\ announced # {} /\ (stack' = <<>> => HistoryKept)
<1> DEFINE n == Len(stack)
           m == n - 1
           x == Call.id
<1>1. /\ LineageIntact /\ Orderly /\ Deleting /\ n \in Nat \ {0} /\ n \in 1 .. n /\ 1 \in 1 .. n
      /\ Call = stack[n] /\ IsProcess(n) /\ x \in live /\ stack \in Seq(Calls)
  BY CallOfDeletion DEF IsSample
<1>2. Nested /\ Kept /\ Remaining /\ Explained
  BY <1>1 DEF Deleting
<1>3. /\ alive \subseteq Samples /\ live \subseteq Processes
      /\ before \in [Processes -> SUBSET Samples] /\ members \in [Processes -> SUBSET alive]
  BY <1>1, ObjectsAreObjects
<1>4. /\ \A p \in Processes : members'[p] = IF p = x THEN {} ELSE members[p]
      /\ \A p \in live : members[p] \subseteq before[p] /\ before[p] \cap alive \subseteq members[p]
      /\ \A p \in live : kind[p] = "split" => before[p] = {parent[p]}
  BY <1>2, <1>3 DEF Kept
<1>5. \A s \in alive : origin[s] # x
  BY <1>1, <1>2 DEF Remaining
<1>6. \A s \in Samples \ alive, p \in live : before[p] # {s}
  BY <1>2 DEF Remaining
<1>7. announced # {} /\ Warned
  BY <1>1 DEF Deleting, MergedAway, IsSample, IsProcess
<1>8. stack' \in Seq(Calls)
  BY <1>1, Popped
<1>9. members' \in [Processes -> SUBSET alive] /\ before' \in [Processes -> SUBSET Samples]
  <2>1. members' \in [Processes -> SUBSET alive]
    BY <1>3
  <2>2. members' \in [Processes -> SUBSET Samples]
    BY <1>3, <2>1
  <2> QED
    BY <1>3, <2>1, <2>2
<1>10. (LineageIntact /\ Orderly)'
  <2>1. TypeOK'
    BY <1>1, <1>8, <1>9 DEF LineageIntact, TypeOK
  <2>2. LineageIntact'
    BY <1>1, <1>3, <1>4, <1>5, <2>1 DEF LineageIntact
  <2>3. Orderly'
    BY <1>1, <1>3, <1>4 DEF Orderly
  <2> QED
    BY <2>2, <2>3
<1>11. ASSUME n = 1
       PROVE  LineageInv' /\ (stack' = <<>> => HistoryKept)
  <2>1. stack' = <<>> /\ before' = members'
    BY <1>1, <1>11, Popped
  <2>2. announced \cap Existing' = {}
    <3>1. OnlyDependent
      BY <1>1, <1>7 DEF Deleting
    <3>2. Object(stack[1]) = Process(x)
      BY <1>1, <1>11 DEF Object, IsProcess
    <3>3. Process(x) \in Objects /\ Process(x) \notin Existing'
      BY <1>1, <1>3 DEF Objects, Existing, Sample, Process
    <3> QED
      BY <1>6, <1>10, <3>1, <3>2, <3>3, AnnouncedIsGone
  <2>3. LineageInv'
    BY <1>10, <2>1, <2>2 DEF LineageInv, Resting
  <2>4. HistoryKept
    <3> SUFFICES ASSUME NEW s \in alive, NEW p \in Processes, s \in before[p], s \notin members'[p]
                 PROVE  Process(p) \in announced
      BY DEF HistoryKept
    <3>1. CASE p = x
      BY <1>1, <1>7, <1>11, <3>1 DEF Warned
    <3>2. CASE p # x
      <4>1. s \notin members[p]
        BY <1>4, <3>2
      <4>2. p \notin live
        BY <1>4, <4>1
      <4>3. \A i \in 1 .. Len(stack) : ~IsSample(i)
        <5>1. \A i \in 1 .. Len(stack) : i = n
          BY <1>11
        <5> QED
          BY <1>1, <5>1 DEF IsSample, IsProcess
      <4> QED
        BY <1>2, <4>2, <4>3 DEF Explained
    <3> QED
      BY <3>1, <3>2
  <2> QED
    BY <2>3, <2>4
<1>12. ASSUME n # 1
       PROVE  LineageInv' /\ (stack' = <<>> => HistoryKept)
  <2>1. before' = before
    BY <1>12
  <2>2. /\ Len(stack') = m /\ stack' # <<>>
        /\ \A i \in 1 .. m :
             /\ (IsSample(i)' <=> IsSample(i)) /\ (IsProcess(i)' <=> IsProcess(i))
             /\ stack'[i] = stack[i] /\ i \in 1 .. n /\ i + 1 \in 1 .. n
        /\ m \in 1 .. m /\ 1 \in 1 .. m /\ m + 1 = n
        /\ \A i \in 1 .. n : i = n \/ i \in 1 .. m
        /\ \A i \in 1 .. m : i = m \/ i \in 1 .. m - 1
        /\ \A i \in 1 .. m - 1 : i \in 1 .. m /\ i + 1 \in 1 .. m /\ i < m
    BY <1>12, CallIsRemoved
  <2>3. \A i \in 1 .. m : i < n /\ i \in Int
    BY <1>1, <2>2
  <2> HIDE DEF n, m
  <2>4. \A i \in 1 .. n : IsSample(i) <=> ~IsProcess(i)
    BY <1>2 DEF Nested, IsSample, IsProcess, n
  <2>5. Follows(m)
    BY <1>2, <2>2 DEF Nested, n, m
  <2>6. IsSample(m) /\ members[x] = {stack[m].id}
    BY <1>1, <2>2, <2>4, <2>5 DEF Follows
  <2>7. \A i \in 1 .. m :
          /\ IsSample(i) => stack[i].id \in alive
          /\ IsProcess(i) => stack[i].id \in live' /\ members'[stack[i].id] = members[stack[i].id]
                             /\ \A s \in stack[i].todo : s \in alive
    <3> SUFFICES ASSUME NEW i \in 1 .. m
                 PROVE  /\ IsSample(i) => stack[i].id \in alive
                        /\ IsProcess(i) => stack[i].id \in live' /\ members'[stack[i].id] = members[stack[i].id]
                                           /\ \A s \in stack[i].todo : s \in alive
      OBVIOUS
    <3>1. i \in 1 .. n /\ i < n
      BY <2>2, <2>3
    <3>2. /\ IsSample(i) => stack[i].id \in alive
          /\ IsProcess(i) => stack[i].id \in live /\ \A s \in stack[i].todo : s \in alive
      BY <1>2, <3>1 DEF Nested, n
    <3>3. IsProcess(i) => stack[i].id # x
      BY <1>1, <1>2, <3>1 DEF Nested, n
    <3> QED
      BY <1>3, <1>4, <3>2, <3>3
  <2>8. /\ stack' \in Seq(Calls) /\ stack' # <<>> /\ Call'.what # "merge"
        /\ Nested' /\ OnlyDependent' /\ AllDependent' /\ Warned'
    <3>1. Len(stack) # 1 /\ 1 .. Len(stack) - 1 = 1 .. m /\ alive' \subseteq alive /\ live' \subseteq live
      BY <1>12 DEF n, m
    <3> QED
      BY <2>1, <2>7, <3>1, OuterCallsStay
  <2>9. Kept'
    <3>1. \A p \in live' : p \in live /\ p # x /\ p \in Processes
      BY <1>3
    <3> QED
      BY <1>4, <2>1, <3>1 DEF Kept
  <2>10. Remaining'
    <3>0. Len(stack') = m
      BY <2>2
    <3>1. \A s \in Samples \ alive', p \in live' : before'[p] # {s}
      BY <1>6, <2>1
    <3>2. ASSUME NEW i \in 1 .. m, IsSample(i)', NEW q \in live', before[q] = {stack'[i].id}
          PROVE  q \in stack'[i].todo \/ (i < m /\ stack'[i + 1].id = q)
      <4>1. IsSample(i) /\ before[q] = {stack[i].id} /\ i \in 1 .. n /\ i < n /\ stack'[i] = stack[i] /\ q \in live /\ q # x
        BY <2>2, <2>3, <3>2
      <4>2. q \in stack[i].todo \/ stack[i + 1].id = q
        BY <1>2, <4>1 DEF Remaining, n
      <4>3. CASE i = m
        BY <1>1, <2>2, <4>1, <4>2, <4>3
      <4>4. CASE i # m
        <5>1. i \in 1 .. m - 1 /\ i < m /\ stack'[i + 1] = stack[i + 1]
          BY <2>2, <4>4
        <5> QED
          BY <4>1, <4>2, <5>1
      <4> QED
        BY <4>3, <4>4
    <3>3. ASSUME NEW i \in 1 .. m, IsProcess(i)', NEW s \in alive, origin[s] = stack'[i].id
          PROVE  s \in stack'[i].todo \/ (i < m /\ stack'[i + 1].id = s)
      <4>1. IsProcess(i) /\ origin[s] = stack[i].id /\ i \in 1 .. n /\ i < n /\ stack'[i] = stack[i]
        BY <2>2, <2>3, <3>3
      <4>2. s \in stack[i].todo \/ stack[i + 1].id = s
        BY <1>2, <4>1 DEF Remaining, n
      <4>3. i \in 1 .. m - 1 /\ i < m /\ stack'[i + 1] = stack[i + 1]
        BY <2>2, <2>4, <2>6, <4>1, SMTT(30)
      <4> QED
        BY <4>1, <4>2, <4>3
    <3>4. \A i \in 1 .. Len(stack') : IsSample(i)' =>
            \A q \in live' : before'[q] = {stack'[i].id} => q \in stack'[i].todo \/ (i < Len(stack') /\ stack'[i + 1].id = q)
      <4>1. ASSUME NEW i \in 1 .. Len(stack'), IsSample(i)', NEW q \in live', before'[q] = {stack'[i].id}
            PROVE  q \in stack'[i].todo \/ (i < Len(stack') /\ stack'[i + 1].id = q)
        <5>1. before[q] = {stack'[i].id}
          BY <2>1, <4>1
        <5>2. i \in 1 .. m
          BY <3>0
        <5> QED
          BY <3>0, <3>2, <4>1, <5>1, <5>2
      <4> QED
        BY <4>1
    <3>5. \A i \in 1 .. Len(stack') : IsProcess(i)' =>
            \A s \in alive' : origin'[s] = stack'[i].id => s \in stack'[i].todo \/ (i < Len(stack') /\ stack'[i + 1].id = s)
      <4>1. ASSUME NEW i \in 1 .. Len(stack'), IsProcess(i)', NEW s \in alive', origin'[s] = stack'[i].id
            PROVE  s \in stack'[i].todo \/ (i < Len(stack') /\ stack'[i + 1].id = s)
        BY <3>0, <3>3, <4>1
      <4> QED
        BY <4>1
    <3> QED
      BY <3>1, <3>4, <3>5, RemainingThen
  <2>11. Explained'
    <3> SUFFICES ASSUME NEW q \in Processes, q \notin live', NEW s \in before[q] \cap alive, Process(q) \notin announced
                 PROVE  \E i \in 1 .. m : IsSample(i)' /\ stack'[i].id = s
      BY <2>1, <2>2 DEF Explained
    <3>1. CASE q = x
      BY <1>1, <1>4, <2>2, <2>6, <3>1, SMTT(30)
    <3>2. CASE q # x
      <4>1. PICK i \in 1 .. n : IsSample(i) /\ stack[i].id = s
        BY <1>2, <3>2 DEF Explained, n
      <4>2. i \in 1 .. m
        BY <1>1, <2>2, <2>4, <4>1
      <4> QED
        BY <2>2, <4>1, <4>2
    <3> QED
      BY <3>1, <3>2
  <2>12. Deleting'
    BY <1>7, <2>8, <2>9, <2>10, <2>11 DEF Deleting
  <2> QED
    BY <1>10, <2>8, <2>12 DEF LineageInv
<1> QED
  BY <1>7, <1>11, <1>12

-----------------------------------------------------------------------------
(* Merges.                                                                 *)

LEMMA MergeStarts ==
  ASSUME LineageAssumption, LineageInv, NEW a \in alive, NEW b \in alive, Merge(a, b)
  PROVE  LineageInv' /\ live' = live /\ stack' # <<>>
<1> DEFINE c == [what |-> "merge", from |-> a, to |-> b, todo |-> ProcessesOf(a)]
<1>1. /\ stack = <<>> /\ stack' = <<c>> /\ announced' = {} /\ Tick /\ a # b
      /\ \A p \in live : kind[p] = "split" => parent[p] # a
      /\ UNCHANGED <<born, alive, origin, made, live, kind, stamp, parent, members, split_done, dry, before>>
  BY DEF Merge, samples, procs
<1>2. LineageIntact /\ Orderly /\ ~dry
  BY <1>1 DEF LineageInv, Resting
<1>3. c \in Calls /\ c.what = "merge" /\ c.from = a /\ c.to = b /\ c.todo = ProcessesOf(a)
  <2>1. ProcessesOf(a) \subseteq Processes /\ a \in Samples /\ b \in Samples
    BY <1>2, ObjectsAreObjects DEF ProcessesOf
  <2> QED
    BY <2>1 DEF Calls
<1> HIDE DEF c
<1>4. stack' \in Seq(Calls) /\ Len(stack') = 1 /\ stack'[1] = c /\ stack' # <<>>
  BY <1>1, <1>3, OneCall
<1>5. Call' = c
  BY <1>4 DEF Call
<1>6. (LineageIntact /\ Orderly)'
  <2>1. before \in [Processes -> SUBSET Samples] /\ dry \in BOOLEAN
    BY <1>2 DEF LineageIntact, TypeOK
  <2> QED
    BY <1>1, <1>2, <1>4, <2>1, LineageStays
<1>7. Merging'
  <2>1. \A p \in live \ ProcessesOf(a) : members[p] # {a}
    BY DEF ProcessesOf
  <2> QED
    BY <1>1, <1>2, <1>3, <1>4, <1>5, <2>1 DEF Merging, ProcessesOf
<1> QED
  BY <1>1, <1>3, <1>4, <1>5, <1>6, <1>7 DEF LineageInv

LEMMA ProcessIsMerged ==
  ASSUME LineageAssumption, LineageInv, MergeProcess
  PROVE  LineageInv' /\ live' = live /\ stack' # <<>>
<1>1. /\ stack # <<>> /\ Call.what = "merge"
      /\ UNCHANGED <<now, born, alive, origin, made, live, kind, stamp, parent, split_done, announced, dry, before>>
  BY DEF MergeProcess, samples
<1>2. LineageIntact /\ Orderly /\ Merging
  BY <1>1 DEF LineageInv
<1>3. Call \in Calls /\ {Call.from, Call.to} \subseteq alive /\ Call.from # Call.to /\ Call.todo \subseteq ProcessesOf(Call.from)
  BY <1>1, <1>2, StackHasTop DEF LineageIntact, TypeOK, Merging
<1>4. /\ alive \subseteq Samples /\ live \subseteq Processes /\ members \in [Processes -> SUBSET alive]
      /\ before \in [Processes -> SUBSET Samples]
  BY <1>2, ObjectsAreObjects
<1>5. PICK p \in Call.todo :
        LET split == origin[Call.to]
            target == IF split # None /\ stamp[split] > stamp[p] THEN parent[split] ELSE Call.to
        IN /\ members' = processes_add(p, target)
           /\ stack' = <<[Call EXCEPT !.to = target, !.todo = @ \ {p}]>>
  BY DEF MergeProcess
<1> DEFINE split == origin[Call.to]
           target == IF split # None /\ stamp[split] > stamp[p] THEN parent[split] ELSE Call.to
           c == [Call EXCEPT !.to = target, !.todo = @ \ {p}]
<1>6. members' = processes_add(p, target) /\ stack' = <<c>>
  BY <1>5
<1>7. target \in alive /\ target # Call.from
  <2>1. CASE split # None
    <3>1. split \in live /\ kind[split] = "split"
      BY <1>2, <1>3, <2>1 DEF LineageIntact, Orderly
    <3>2. parent[split] \in alive /\ parent[split] # Call.from
      BY <1>2, <3>1 DEF LineageIntact, Merging
    <3> QED
      BY <1>3, <3>2
  <2>2. CASE split = None
    BY <1>3, <2>2
  <2> QED
    BY <2>1, <2>2
<1> HIDE DEF target
<1>8. c \in Calls /\ c.what = "merge" /\ c.from = Call.from /\ c.to = target /\ c.todo = Call.todo \ {p}
  <2>1. Call \in [what : {"merge"}, from : Samples, to : Samples, todo : SUBSET Processes]
    BY <1>1, <1>3, CallHasKind
  <2>2. c \in [what : {"merge"}, from : Samples, to : Samples, todo : SUBSET Processes]
    BY <1>4, <1>7, <2>1
  <2> QED
    BY <2>1, <2>2 DEF Calls
<1> HIDE DEF c
<1>9. p \in live /\ Call.from \in members[p] /\ p \in Processes
  BY <1>3, <1>4 DEF ProcessesOf
<1>10. kind[p] # "split"
  BY <1>2, <1>9 DEF LineageIntact, Merging
<1>11. /\ members' \in [Processes -> SUBSET alive]
       /\ \A q \in Processes : q # p => members'[q] = members[q]
       /\ target \in members'[p]
  BY <1>4, <1>6, <1>7, <1>9 DEF processes_add
<1>12. stack' \in Seq(Calls) /\ Len(stack') = 1 /\ stack'[1] = c /\ stack' # <<>>
  BY <1>6, <1>8, OneCall
<1>13. Call' = c
  BY <1>12 DEF Call
<1>14. (LineageIntact /\ Orderly)'
  <2>1. TypeOK'
    BY <1>1, <1>2, <1>11, <1>12 DEF LineageIntact, TypeOK
  <2>2. LineageIntact'
    BY <1>1, <1>2, <1>4, <1>10, <1>11, <2>1 DEF LineageIntact
  <2>3. Orderly'
    BY <1>1, <1>2, <1>9, <1>11 DEF Orderly
  <2> QED
    BY <2>2, <2>3
<1>15. Merging'
  <2>1. \A q \in c.todo : q \in live /\ Call.from \in members'[q]
    <3> SUFFICES ASSUME NEW q \in c.todo PROVE q \in live /\ Call.from \in members'[q]
      OBVIOUS
    <3>1. q \in Call.todo /\ q # p
      BY <1>8
    <3>2. q \in live /\ Call.from \in members[q]
      BY <1>3, <3>1 DEF ProcessesOf
    <3> QED
      BY <1>4, <1>11, <3>1, <3>2
  <2>2. \A q \in live \ c.todo : members'[q] # {Call.from}
    <3> SUFFICES ASSUME NEW q \in live, q \notin c.todo PROVE members'[q] # {Call.from}
      OBVIOUS
    <3>1. CASE q = p
      BY <1>7, <1>11, <3>1
    <3>2. CASE q # p
      <4>1. q \notin Call.todo
        BY <1>8, <3>2
      <4> QED
        BY <1>2, <1>4, <1>11, <3>2, <4>1 DEF Merging
    <3> QED
      BY <3>1, <3>2
  <2>3. ~dry /\ announced = {} /\ \A q \in live : kind[q] = "split" => parent[q] # Call.from
    BY <1>2 DEF Merging
  <2>4. c.todo \subseteq {q \in live' : c.from \in members'[q]}
    BY <1>1, <1>8, <2>1
  <2> QED
    BY <1>1, <1>3, <1>7, <1>8, <1>12, <1>13, <2>2, <2>3, <2>4 DEF Merging, ProcessesOf
<1> QED
  BY <1>1, <1>8, <1>12, <1>13, <1>14, <1>15 DEF LineageInv

LEMMA MergeEnds ==
  ASSUME LineageAssumption, LineageInv, EndMerge
  PROVE  LineageInv' /\ live' = live /\ stack' # <<>>
<1>1. /\ stack # <<>> /\ Call.what = "merge" /\ Call.todo = {} /\ before' = members
      /\ UNCHANGED <<now, born, alive, origin, made, live, kind, stamp, parent, members, split_done, announced, dry>>
  BY DEF EndMerge, samples, procs
<1>2. LineageIntact /\ Orderly /\ Merging
  BY <1>1 DEF LineageInv
<1>3. Call.from \in alive /\ ~dry /\ announced = {} /\ \A p \in live : members[p] # {Call.from}
  BY <1>1, <1>2 DEF Merging
<1> DEFINE c == SampleCall(Call.from, TRUE)
<1>4. c \in Calls /\ c.what = "sample" /\ c.id = Call.from /\ c.todo = ProcessesOf(Call.from)
  BY <1>2, <1>3, CallsFit
<1>5. stack' = <<c>>
  BY DEF EndMerge
<1> HIDE DEF c
<1>6. stack' \in Seq(Calls) /\ Len(stack') = 1 /\ stack'[1] = c /\ stack' # <<>>
  BY <1>4, <1>5, OneCall
<1>7. Call' = c
  BY <1>6 DEF Call
<1>8. MergedAway'
  BY <1>1, <1>3, <1>4, <1>6, <1>7 DEF MergedAway, IsSample
<1>9. Deleting'
  BY <1>1, <1>2, <1>3, <1>4, <1>5, <1>8, DeletionStarts
<1>10. (LineageIntact /\ Orderly)'
  <2>1. members \in [Processes -> SUBSET Samples] /\ announced \subseteq Objects /\ dry \in BOOLEAN
    BY <1>2, ObjectsAreObjects DEF LineageIntact, TypeOK
  <2>2. LineageIntact /\ Orderly
    BY <1>2
  <2>3. stack' \in Seq(Calls)
    BY <1>6
  <2> QED
    BY <1>1, <2>1, <2>2, <2>3, LineageStays
<1> QED
  BY <1>1, <1>4, <1>6, <1>7, <1>9, <1>10 DEF LineageInv

-----------------------------------------------------------------------------
(* The steps together.                                                     *)

LEMMA LineageBegins ==
  ASSUME LineageAssumption, Init
  PROVE  LineageInv
<1>1. /\ Founders \in 0 .. MaxSamples /\ 1 .. Founders \subseteq Samples
      /\ \A p \in Processes : p \notin live
  BY Bounds DEF LineageAssumption, Samples, Init
<1>2. TypeOK
  <2>1. now \in 0 .. MaxTime /\ made \in 0 .. MaxProcs /\ 0 \in Times
    BY Bounds DEF Init, Times
  <2>2. stack \in Seq(Calls)
    BY EmptySeq DEF Init
  <2>3. live \subseteq 1 .. made /\ announced \subseteq Objects /\ split_done \subseteq {p \in live : kind[p] = "deposition"}
    BY DEF Init
  <2>4. members \in [Processes -> SUBSET alive] /\ before \in [Processes -> SUBSET Samples]
    BY DEF Init
  <2>5. /\ origin \in [Samples -> Processes \cup {None}] /\ parent \in [Processes -> Samples \cup {None}]
        /\ kind \in [Processes -> Kinds \cup {"unborn"}] /\ stamp \in [Processes -> Times]
    BY <2>1 DEF Init
  <2> QED
    BY <1>1, <2>1, <2>2, <2>3, <2>4, <2>5 DEF Init, TypeOK
<1>3. LineageIntact
  BY <1>1, <1>2 DEF LineageIntact, Init
<1>4. Orderly
  BY <1>1 DEF Orderly, Init
<1>5. Resting
  BY DEF Resting, Init
<1> QED
  BY <1>3, <1>4, <1>5 DEF LineageInv, Init

LEMMA RequestsOnlyAdd ==
  ASSUME LineageAssumption, AtOnce
  PROVE  live \subseteq live' /\ stack' = <<>>
<1>1. stack = <<>>
  BY DEF AtOnce
<1>2. Request => stack' = <<>>
  BY <1>1 DEF Request
<1>3. \A news : Create(news) => live \subseteq live'
  BY DEF Create
<1>4. CASE AddSample
  BY <1>2, <1>4 DEF AddSample, procs
<1>5. ASSUME NEW k, NEW ss, NEW t, AddPhysical(k, ss, t) \/ AddResult(ss, t)
      PROVE  live \subseteq live' /\ stack' = <<>>
  BY <1>2, <1>3, <1>5 DEF AddPhysical, AddResult
<1>6. ASSUME NEW p, NEW ss, NEW t, EditMeasurement(p, ss, t) \/ EditDeposition(p, t)
      PROVE  live \subseteq live' /\ stack' = <<>>
  BY <1>2, <1>6 DEF EditMeasurement, EditDeposition
<1>7. ASSUME NEW s, Kill(s)
      PROVE  live \subseteq live' /\ stack' = <<>>
  BY <1>2, <1>3, <1>7 DEF Kill
<1>8. ASSUME NEW s, NEW n, NEW complete, Split(s, n, complete)
      PROVE  live \subseteq live' /\ stack' = <<>>
  BY <1>2, <1>3, <1>8 DEF Split
<1>9. ASSUME NEW p, NEW n, NEW complete, Resplit(p, n, complete)
      PROVE  live \subseteq live' /\ stack' = <<>>
  BY <1>2, <1>9 DEF Resplit
<1>10. ASSUME NEW p, NEW s, NEW n, SplitAfterDeposition(p, s, n)
       PROVE  live \subseteq live' /\ stack' = <<>>
  BY <1>2, <1>3, <1>10 DEF SplitAfterDeposition
<1> QED
  BY <1>4, <1>5, <1>6, <1>7, <1>8, <1>9, <1>10 DEF AtOnce

LEMMA RequestsKeepLineage ==
  ASSUME LineageAssumption, LineageInv, AtOnce
  PROVE  LineageInv'
<1>1. stack = <<>> /\ before' = members'
  BY DEF AtOnce
<1>2. CASE AddSample
  BY <1>1, <1>2, SampleIsAdded
<1>3. ASSUME NEW ss \in SUBSET alive, NEW t \in Times, NEW k \in Physical, AddPhysical(k, ss, t)
      PROVE  LineageInv'
  BY <1>1, <1>3, PhysicalIsAdded
<1>4. ASSUME NEW ss \in SUBSET alive, NEW t \in Times, AddResult(ss, t)
      PROVE  LineageInv'
  BY <1>1, <1>4, PhysicalIsAdded
<1>5. ASSUME NEW ss \in SUBSET alive, NEW t \in Times, NEW p \in Processes, EditMeasurement(p, ss, t)
      PROVE  LineageInv'
  BY <1>1, <1>5, ProcessIsEdited
<1>6. ASSUME NEW t \in Times, NEW p \in Processes, EditDeposition(p, t)
      PROVE  LineageInv'
  BY <1>1, <1>6, ProcessIsEdited
<1>7. ASSUME NEW s \in alive, Kill(s)
      PROVE  LineageInv'
  BY <1>1, <1>7, SampleIsKilled
<1>8. ASSUME NEW s \in alive, NEW n \in 1 .. MaxSamples, NEW complete \in BOOLEAN, Split(s, n, complete)
      PROVE  LineageInv'
  <2>1. now \in 0 .. MaxTime + 1
    <3>1. now \in 0 .. MaxTime
      BY DEF LineageInv, LineageIntact, TypeOK
    <3> QED
      BY <3>1, Bounds
  <2>2. split_done' \subseteq {p \in live : kind[p] = "deposition"}
    BY <1>8 DEF Split, LineageInv, LineageIntact, TypeOK
  <2>3. Request /\ MakePieces(made + 1, n) /\ Create(SplitOf(s, now, complete))
    BY <1>8 DEF Split
  <2> QED
    BY <1>1, <2>1, <2>2, <2>3, SampleIsSplit
<1>9. ASSUME NEW p \in Processes, NEW n \in 1 .. MaxSamples, NEW complete \in BOOLEAN, Resplit(p, n, complete)
      PROVE  LineageInv'
  BY <1>1, <1>9, SplitIsContinued
<1>10. ASSUME NEW p \in Processes, NEW s \in alive, NEW n \in 1 .. MaxSamples, SplitAfterDeposition(p, s, n)
       PROVE  LineageInv'
  BY <1>1, <1>10, SampleIsSplitAfterDeposition
<1>11. ASSUME NEW ss \in (SUBSET alive) \ {{}}, NEW t \in Times,
              \/ \E k \in Classes \cap Physical : AddPhysical(k, ss, t)
              \/ "result" \in Classes /\ AddResult(ss, t)
              \/ \E p \in Processes : EditMeasurement(p, ss, t)
       PROVE  LineageInv'
  BY <1>3, <1>4, <1>5, <1>11
<1> QED
  BY <1>2, <1>6, <1>7, <1>8, <1>9, <1>10, <1>11 DEF AtOnce

LEMMA EnteredIsNotEmpty ==
  ASSUME LineageAssumption, LineageInv, stack # <<>>, Call.what # "merge", NEW x, NEW c
  PROVE  Append(Visited(x), c) # <<>>
<1>1. Visited(x) \in Seq(Calls)
  BY CallOfDeletion, VisitedOne
<1>2. Visited(x) \in Seq(Calls \cup {c}) /\ c \in Calls \cup {c}
  BY <1>1, SeqMonotonic
<1> QED
  BY <1>2, AppendProperties

LEMMA CallsKeepLineage ==
  ASSUME LineageAssumption, LineageInv, VisitProcess \/ VisitPiece \/ Return
  PROVE  /\ LineageInv'
         /\ stack # <<>>
         /\ live \subseteq live' \/ announced' # {}
         /\ stack' = <<>> /\ announced' # {} => HistoryKept
<1>1. CASE VisitProcess
  <2>1. /\ stack # <<>> /\ Call.what = "sample" /\ UNCHANGED <<now, samples, procs, before>> /\ live' = live
    BY <1>1 DEF VisitProcess, procs
  <2>2. PICK p \in Call.todo :
          IF ~IsOnlySample(p)
          THEN stack' = Visited(p) /\ UNCHANGED <<dry, announced>>
          ELSE IF dry /\ ~Deletable(p)
          THEN stack' = <<>> /\ dry' = FALSE /\ announced' = {}
          ELSE /\ stack' = Append(Visited(p), ProcessCall(p))
               /\ announced' = announced \cup IF dry THEN {Process(p)} ELSE {}
               /\ UNCHANGED dry
    BY <1>1 DEF VisitProcess
  <2>3. CASE ~IsOnlySample(p)
    <3>1. LineageInv'
      BY <2>1, <2>2, <2>3, ProcessIsPassed
    <3>2. stack' # <<>>
      <4>1. stack' = Visited(p)
        BY <2>2, <2>3
      <4>2. Len(stack') # 0
        BY <2>1, <4>1, VisitedOne, CallOfDeletion
      <4> QED
        BY <4>2, EmptySeq
    <3> QED
      BY <2>1, <3>1, <3>2
  <2>4. CASE IsOnlySample(p) /\ dry /\ ~Deletable(p)
    <3>1. stack' = <<>> /\ dry' = FALSE /\ announced' = {}
      BY <2>2, <2>4
    <3> QED
      BY <2>1, <2>4, <3>1, DeletionIsRefused
  <2>5. CASE IsOnlySample(p) /\ ~(dry /\ ~Deletable(p))
    <3>1. /\ stack' = Append(Visited(p), ProcessCall(p))
          /\ announced' = announced \cup IF dry THEN {Process(p)} ELSE {}
          /\ UNCHANGED dry
      BY <2>2, <2>5
    <3>2. LineageInv'
      BY <2>1, <2>5, <3>1, ProcessIsEntered
    <3>3. stack' # <<>>
      BY <2>1, <3>1, EnteredIsNotEmpty
    <3> QED
      BY <2>1, <3>2, <3>3
  <2> QED
    BY <2>3, <2>4, <2>5
<1>2. CASE VisitPiece
  <2>1. /\ stack # <<>> /\ Call.what = "process" /\ UNCHANGED <<now, samples, procs, dry, before>> /\ live' = live
    BY <1>2 DEF VisitPiece, procs
  <2>2. PICK x \in Call.todo :
          /\ stack' = Append(Visited(x), SampleCall(x, ~dry))
          /\ announced' = announced \cup IF dry THEN {Sample(x)} ELSE {}
    BY <1>2 DEF VisitPiece
  <2>3. LineageInv'
    BY <2>1, <2>2, PieceIsEntered
  <2>4. stack' # <<>>
    BY <2>1, <2>2, EnteredIsNotEmpty
  <2> QED
    BY <2>1, <2>3, <2>4
<1>3. CASE Return
  <2>1. stack # <<>> /\ Call.what \in {"sample", "process"} /\ Call.todo = {} /\ Call.what # "merge"
    BY <1>3 DEF Return
  <2>2. CASE dry /\ Len(stack) = 1
    BY <1>3, <2>1, <2>2, DryRunEnds DEF Return
  <2>3. CASE dry /\ Len(stack) # 1
    <3>1. /\ stack' = Outer /\ UNCHANGED <<alive, live, members, split_done, before>>
          /\ UNCHANGED <<now, born, origin, made, kind, stamp, parent, announced, dry>>
      BY <1>3, <2>3 DEF Return
    <3> QED
      BY <2>1, <2>3, <3>1, DryCallReturns, CallIsRemoved
  <2>4. CASE ~dry /\ Call.what = "sample"
    <3>1. /\ stack' = Outer
          /\ alive' = alive \ {Call.id} /\ members' = [p \in Processes |-> members[p] \ {Call.id}]
          /\ UNCHANGED <<now, born, origin, made, live, kind, stamp, parent, split_done, announced, dry>>
          /\ before' = IF Len(stack) = 1 THEN members' ELSE before
      BY <1>3, <2>4 DEF Return
    <3> QED
      BY <2>1, <2>4, <3>1, SampleGoes
  <2>5. CASE ~dry /\ Call.what = "process"
    <3>1. /\ stack' = Outer
          /\ live' = live \ {Call.id} /\ members' = [members EXCEPT ![Call.id] = {}] /\ split_done' = split_done \ {Call.id}
          /\ UNCHANGED <<now, born, alive, origin, made, kind, stamp, parent, announced, dry>>
          /\ before' = IF Len(stack) = 1 THEN members' ELSE before
      BY <1>3, <2>5 DEF Return
    <3> QED
      BY <2>1, <2>5, <3>1, ProcessGoes
  <2> QED
    BY <2>1, <2>2, <2>3, <2>4, <2>5
<1> QED
  BY <1>1, <1>2, <1>3

(* What a step of the requests guarantees.                                 *)
LEMMA LineageStep ==
  ASSUME LineageAssumption, LineageInv, [Next]_vars
  PROVE  /\ LineageInv'
         /\ live \subseteq live' \/ announced' # {}
         /\ stack # <<>> /\ stack' = <<>> /\ announced' # {} => HistoryKept
<1>1. CASE AtOnce
  <2>1. stack = <<>>
    BY <1>1 DEF AtOnce
  <2> QED
    BY <1>1, <2>1, RequestsOnlyAdd, RequestsKeepLineage
<1>2. CASE (\E s \in alive : DeleteSample(s)) \/ (\E p \in Processes : DeleteProcess(p))
  BY <1>2, DeletionIsRequested
<1>3. CASE VisitProcess \/ VisitPiece \/ Return
  BY <1>3, CallsKeepLineage
<1>4. CASE \E a, b \in alive : Merge(a, b)
  BY <1>4, MergeStarts
<1>5. CASE MergeProcess
  BY <1>5, ProcessIsMerged
<1>6. CASE EndMerge
  BY <1>6, MergeEnds
<1>7. CASE UNCHANGED vars
  <2>1. UNCHANGED <<now, born, alive, origin, made, live, kind, stamp, parent, members, split_done, announced, stack, dry, before>>
    BY <1>7 DEF vars, samples, procs, calls
  <2>2. (LineageIntact' <=> LineageIntact) /\ (Orderly' <=> Orderly) /\ (Resting' <=> Resting) /\ Call' = Call
    BY <2>1 DEF LineageIntact, TypeOK, Orderly, Resting, Existing, Call
  <2>3. Merging' <=> Merging
    BY <2>1, <2>2 DEF Merging, ProcessesOf
  <2>4. Deleting' <=> Deleting
    <3>1. \A i : (IsSample(i)' <=> IsSample(i)) /\ (IsProcess(i)' <=> IsProcess(i))
      BY <2>1 DEF IsSample, IsProcess
    <3>2. \A i : Follows(i)' <=> Follows(i)
      BY <2>1 DEF Follows, IsSample, IsProcess
    <3>3. Nested' <=> Nested
      BY <2>1, <3>1, <3>2, SMTT(30) DEF Nested
    <3>4. (Kept' <=> Kept) /\ (Remaining' <=> Remaining) /\ (Explained' <=> Explained)
      BY <2>1, <3>1 DEF Kept, Remaining, Explained
    <3>5. OnlyDependent' <=> OnlyDependent
      BY <2>1 DEF OnlyDependent, Closed
    <3>6. (AllDependent' <=> AllDependent) /\ (Warned' <=> Warned) /\ (MergedAway' <=> MergedAway)
      BY <2>1, <2>2, <3>1 DEF AllDependent, Warned, MergedAway
    <3> QED
      BY <2>1, <3>3, <3>4, <3>5, <3>6 DEF Deleting
  <2> QED
    BY <2>1, <2>2, <2>3, <2>4 DEF LineageInv
<1> QED
  BY <1>1, <1>2, <1>3, <1>4, <1>5, <1>6, <1>7 DEF Next

-----------------------------------------------------------------------------
(* At any time, in the middle of a deletion or a merge, too, every split   *)
(* has its parent and only its parent, and every piece has its split.      *)
THEOREM LineageIsIntact == Spec => []LineageIntact
<1>1. Init => LineageInv
  BY LineageAssumption, LineageBegins
<1>2. LineageInv /\ [Next]_vars => LineageInv'
  BY LineageAssumption, LineageStep
<1>3. LineageInv => LineageIntact
  BY DEF LineageInv
<1> QED
  BY <1>1, <1>2, <1>3, PTL DEF Spec

(* When a deletion is over, all that has been announced to the users of    *)
(* the samples is gone.                                                    *)
THEOREM AnnouncedGone == Spec => []AnnouncedAreGone
<1>1. Init => LineageInv
  BY LineageAssumption, LineageBegins
<1>2. LineageInv /\ [Next]_vars => LineageInv'
  BY LineageAssumption, LineageStep
<1>3. LineageInv => AnnouncedAreGone
  BY DEF LineageInv, Resting, AnnouncedAreGone
<1> QED
  BY <1>1, <1>2, <1>3, PTL DEF Spec

(* A sample that survives a deletion keeps all of its processes, except    *)
(* those that the deletion has announced.                                  *)
THEOREM SurvivorsKeep == Spec => SurvivorsKeepTheirHistory
<1>1. Init => LineageInv
  BY LineageAssumption, LineageBegins
<1>2. LineageInv /\ [Next]_vars => LineageInv'
  BY LineageAssumption, LineageStep
<1>3. LineageInv /\ [Next]_vars =>
        [stack # <<>> /\ stack' = <<>> /\ announced' # {} =>
           \A s \in alive', p \in Processes :
             s \in before[p] /\ s \notin members'[p] => Process(p) \in announced']_vars
  BY LineageAssumption, LineageStep DEF HistoryKept
<1> QED
  BY <1>1, <1>2, <1>3, PTL DEF Spec, SurvivorsKeepTheirHistory

(* A merge loses no process: the sample that goes is never the only one.   *)
THEOREM MergesKeep == Spec => MergesKeepProcesses
<1>1. Init => LineageInv
  BY LineageAssumption, LineageBegins
<1>2. LineageInv /\ [Next]_vars => LineageInv'
  BY LineageAssumption, LineageStep
<1>3. LineageInv /\ [Next]_vars => [live \subseteq live' \/ announced' # {}]_vars
  BY LineageAssumption, LineageStep
<1> QED
  BY <1>1, <1>2, <1>3, PTL DEF Spec, MergesKeepProcesses

-----------------------------------------------------------------------------
(* The dead are not measured.  Measurements lie in the past, and the loop  *)
(* of a merge is either still earlier than the deaths of its target or has *)
(* passed a split of it.                                                   *)
Past == \A p \in live : kind[p] = "measurement" => stamp[p] < now

Handover ==
  stack # <<>> /\ Call.what = "merge" =>
    /\ \A p \in Call.todo : kind[p] # "death"
    /\ \/ \A p \in Call.todo, d \in Deaths(Call.to) : stamp[p] < stamp[d]
       \/ \E q \in Splits(Call.to) : \A p \in Call.todo : stamp[q] > stamp[p]

OnlyByMerging ==
  \A s \in alive', p \in live' :
    MeasuredDead(s, p)' /\ ~MeasuredDead(s, p) => \E q \in Splits(s)' : stamp'[q] > stamp'[p]

LEMMA StampsAreNumbers ==
  ASSUME LineageAssumption, LineageIntact
  PROVE  /\ \A p \in live : p \in Processes /\ stamp[p] \in Int
         /\ now \in Int /\ made \in Nat /\ live \subseteq 1 .. made /\ members \in [Processes -> SUBSET alive]
<1>1. stamp \in [Processes -> Times] /\ Times \subseteq Int /\ now \in 0 .. MaxTime
  BY Bounds DEF LineageIntact, TypeOK
<1>2. /\ live \subseteq Processes /\ members \in [Processes -> SUBSET alive]
      /\ made \in Nat /\ live \subseteq 1 .. made
  BY ObjectsAreObjects, SMTT(30) DEF LineageIntact, TypeOK
<1>3. now \in Int
  BY <1>1, Bounds
<1> QED
  BY <1>1, <1>2, <1>3

(* A step that makes nothing makes no measurement of the dead.             *)
LEMMA NothingIsMeasured ==
  ASSUME LineageAssumption, LineageIntact, Past, now' \in {now, now + 1},
         \A p \in live' : /\ p \in live /\ members'[p] \subseteq members[p] /\ kind'[p] = kind[p]
                          /\ kind[p] \in {"measurement", "death"} => stamp'[p] = stamp[p]
  PROVE  OnlyByMerging /\ Past'
<1>1. \A s, p : MeasuredDead(s, p)' => MeasuredDead(s, p)
  <2> SUFFICES ASSUME NEW s, NEW p, MeasuredDead(s, p)'
               PROVE  MeasuredDead(s, p)
    OBVIOUS
  <2>1. p \in live' /\ s \in members'[p] /\ kind'[p] = "measurement"
    BY DEF MeasuredDead, ProcessesOf
  <2>2. PICK d \in live' : s \in members'[d] /\ kind'[d] = "death" /\ stamp'[p] >= stamp'[d]
    BY DEF MeasuredDead, Deaths, ProcessesOf
  <2>3. /\ p \in live /\ s \in members[p] /\ kind[p] = "measurement" /\ stamp'[p] = stamp[p]
        /\ d \in live /\ s \in members[d] /\ kind[d] = "death" /\ stamp'[d] = stamp[d]
    BY <2>1, <2>2
  <2> QED
    BY <2>2, <2>3 DEF MeasuredDead, Deaths, ProcessesOf
<1>2. Past'
  <2>1. \A p \in live : stamp[p] \in Int
    BY StampsAreNumbers
  <2>2. now \in Int
    BY StampsAreNumbers
  <2> QED
    BY <2>1, <2>2 DEF Past
<1> QED
  BY <1>1, <1>2 DEF OnlyByMerging

(* New processes: a measurement is earlier than the deaths of its samples, *)
(* and a death is later than the measurements of its sample.               *)
LEMMA LivingAreMeasured ==
  ASSUME LineageAssumption, LineageIntact, LineageIntact', Past, now' = now + 1,
         \A p \in live : /\ p \in live' /\ members'[p] = members[p] /\ kind'[p] = kind[p]
                         /\ kind[p] \in {"measurement", "death"} => stamp'[p] = stamp[p],
         \A p \in live' \ live :
           /\ kind'[p] = "measurement" => stamp'[p] <= now /\ \A s \in members'[p] : \A d \in Deaths(s) : stamp'[p] < stamp[d]
           /\ kind'[p] = "death" => \A s \in members'[p] : \A q \in ProcessesOf(s) : kind[q] = "measurement" => stamp[q] < stamp'[p],
         \A p, q \in live' \ live : ~(kind'[p] = "measurement" /\ kind'[q] = "death")
  PROVE  OnlyByMerging /\ Past'
<1>1. \A s, p : MeasuredDead(s, p)' => MeasuredDead(s, p)
  <2> SUFFICES ASSUME NEW s, NEW p, MeasuredDead(s, p)'
               PROVE  MeasuredDead(s, p)
    OBVIOUS
  <2>1. p \in live' /\ s \in members'[p] /\ kind'[p] = "measurement"
    BY DEF MeasuredDead, ProcessesOf
  <2>2. PICK d \in live' : s \in members'[d] /\ kind'[d] = "death" /\ stamp'[p] >= stamp'[d]
    BY DEF MeasuredDead, Deaths, ProcessesOf
  <2>3. \A q \in live : stamp[q] \in Int
    BY StampsAreNumbers
  <2>4. \A q \in live' : stamp'[q] \in Int
    <3>1. stamp' \in [Processes -> Times] /\ live' \subseteq 1 .. made' /\ made' \in 0 .. MaxProcs
      BY DEF LineageIntact, TypeOK
    <3>2. 1 .. made' \subseteq Processes
      BY <3>1, Bounds DEF Processes
    <3> QED
      BY <3>1, <3>2, Bounds
  <2>5. CASE p \in live /\ d \in live
    <3>1. /\ s \in members[p] /\ kind[p] = "measurement" /\ stamp'[p] = stamp[p]
          /\ s \in members[d] /\ kind[d] = "death" /\ stamp'[d] = stamp[d]
      BY <2>1, <2>2, <2>5
    <3> QED
      BY <2>2, <2>5, <3>1 DEF MeasuredDead, Deaths, ProcessesOf
  <2>6. CASE p \in live /\ d \notin live
    <3>1. s \in members[p] /\ kind[p] = "measurement" /\ stamp'[p] = stamp[p]
      BY <2>1, <2>6
    <3>2. stamp[p] < stamp'[d]
      BY <2>2, <2>6, <3>1 DEF ProcessesOf
    <3> QED
      BY <2>1, <2>2, <2>4, <3>1, <3>2
  <2>7. CASE p \notin live /\ d \in live
    <3>1. s \in members[d] /\ kind[d] = "death" /\ stamp'[d] = stamp[d]
      BY <2>2, <2>7
    <3>2. stamp'[p] < stamp[d]
      BY <2>1, <2>7, <3>1 DEF Deaths, ProcessesOf
    <3> QED
      BY <2>1, <2>2, <2>4, <3>1, <3>2
  <2>8. CASE p \notin live /\ d \notin live
    BY <2>1, <2>2, <2>8
  <2> QED
    BY <2>5, <2>6, <2>7, <2>8
<1>2. Past'
  <2>1. \A p \in live : stamp[p] \in Int
    BY StampsAreNumbers
  <2>2. \A p \in live' : stamp'[p] \in Int
    <3>1. stamp' \in [Processes -> Times] /\ live' \subseteq 1 .. made' /\ made' \in 0 .. MaxProcs
      BY DEF LineageIntact, TypeOK
    <3>2. 1 .. made' \subseteq Processes
      BY <3>1, Bounds DEF Processes
    <3> QED
      BY <3>1, <3>2, Bounds
  <2>3. now \in Int
    BY StampsAreNumbers
  <2> SUFFICES ASSUME NEW p \in live', kind'[p] = "measurement"
               PROVE  stamp'[p] < now'
    BY DEF Past
  <2>4. CASE p \in live
    BY <2>1, <2>3, <2>4 DEF Past
  <2>5. CASE p \notin live
    BY <2>2, <2>3, <2>5
  <2> QED
    BY <2>4, <2>5
<1> QED
  BY <1>1, <1>2 DEF OnlyByMerging

(* What Create does to the processes.                                      *)
LEMMA RecordsAreKept ==
  ASSUME LineageAssumption, LineageIntact, NEW news \in Seq(Records), Create(news)
  PROVE  /\ \A p \in live : p \in live' /\ members'[p] = members[p] /\ kind'[p] = kind[p] /\ stamp'[p] = stamp[p]
         /\ \A p \in live' \ live : \E i \in 1 .. Len(news) :
              kind'[p] = news[i].kind /\ stamp'[p] = news[i].stamp /\ members'[p] = news[i].members
<1> DEFINE n == Len(news)
<1>1. n \in Nat
  BY LenProperties
<1>2. made \in Nat /\ MaxProcs \in Nat /\ live \subseteq 1 .. made /\ live \subseteq Processes
  BY StampsAreNumbers, Bounds
<1>3. made + n <= MaxProcs /\ live' = live \cup (made + 1 .. made + n)
  BY DEF Create
<1> HIDE DEF n
<1>4. \A p \in made + 1 .. made + n : p \in Processes /\ p - made \in 1 .. n
  BY <1>1, <1>2, <1>3 DEF Processes
<1>5. \A p \in live : p \in Processes /\ p \notin made + 1 .. made + n
  BY <1>1, <1>2
<1>6. \A p \in live : p \in live' /\ members'[p] = members[p] /\ kind'[p] = kind[p] /\ stamp'[p] = stamp[p]
  BY <1>3, <1>5 DEF Create, n
<1>7. ASSUME NEW p \in live' \ live
      PROVE  \E i \in 1 .. n :
               kind'[p] = news[i].kind /\ stamp'[p] = news[i].stamp /\ members'[p] = news[i].members
  <2>1. p \in made + 1 .. made + n
    BY <1>3
  <2>2. kind'[p] = news[p - made].kind /\ stamp'[p] = news[p - made].stamp /\ members'[p] = news[p - made].members
    BY <1>4, <2>1 DEF Create, n
  <2> QED
    BY <1>4, <2>1, <2>2
<1> QED
  BY <1>6, <1>7 DEF n

LEMMA CreatedAlive ==
  ASSUME LineageAssumption, LineageIntact, LineageIntact', Past, now' = now + 1,
         NEW news \in Seq(Records), Create(news),
         \A i \in 1 .. Len(news) :
           /\ news[i].kind = "measurement" => /\ Len(news) = 1 /\ news[i].stamp <= now
                                              /\ \A s \in news[i].members : \A d \in Deaths(s) : news[i].stamp < stamp[d]
           /\ news[i].kind = "death" => \A s \in news[i].members : \A q \in ProcessesOf(s) :
                                          kind[q] = "measurement" => stamp[q] < news[i].stamp
  PROVE  OnlyByMerging /\ Past'
<1>1. \A p \in live' \ live :
        /\ kind'[p] = "measurement" => stamp'[p] <= now /\ \A s \in members'[p] : \A d \in Deaths(s) : stamp'[p] < stamp[d]
        /\ kind'[p] = "death" => \A s \in members'[p] : \A q \in ProcessesOf(s) : kind[q] = "measurement" => stamp[q] < stamp'[p]
  <2> SUFFICES ASSUME NEW p \in live' \ live
               PROVE  /\ kind'[p] = "measurement" => stamp'[p] <= now /\ \A s \in members'[p] : \A d \in Deaths(s) : stamp'[p] < stamp[d]
                      /\ kind'[p] = "death" => \A s \in members'[p] : \A q \in ProcessesOf(s) :
                                                 kind[q] = "measurement" => stamp[q] < stamp'[p]
    OBVIOUS
  <2>1. PICK i \in 1 .. Len(news) : kind'[p] = news[i].kind /\ stamp'[p] = news[i].stamp /\ members'[p] = news[i].members
    BY RecordsAreKept
  <2> QED
    BY <2>1
<1>2. \A p, q \in live' \ live : ~(kind'[p] = "measurement" /\ kind'[q] = "death")
  <2> SUFFICES ASSUME NEW p \in live' \ live, NEW q \in live' \ live, kind'[p] = "measurement", kind'[q] = "death"
               PROVE  FALSE
    OBVIOUS
  <2>1. PICK i \in 1 .. Len(news) : kind'[p] = news[i].kind
    BY RecordsAreKept
  <2>2. PICK j \in 1 .. Len(news) : kind'[q] = news[j].kind
    BY RecordsAreKept
  <2>3. Len(news) = 1
    BY <2>1
  <2>4. i = 1 /\ j = 1
    BY <2>3
  <2> QED
    BY <2>1, <2>2, <2>4
<1>3. \A p \in live : /\ p \in live' /\ members'[p] = members[p] /\ kind'[p] = kind[p]
                      /\ kind[p] \in {"measurement", "death"} => stamp'[p] = stamp[p]
  BY RecordsAreKept
<1> QED
  BY <1>1, <1>2, <1>3, LivingAreMeasured

LEMMA RequestsMeasureTheLiving ==
  ASSUME LineageAssumption, LineageInv, LineageInv', Past, AtOnce
  PROVE  OnlyByMerging /\ Past'
<1>1. LineageIntact /\ Orderly /\ LineageIntact' /\ now \in Int
  BY StampsAreNumbers DEF LineageInv
<1>2. \A p \in live : p \in Processes /\ stamp[p] \in Int
  BY <1>1, StampsAreNumbers
<1>3. ASSUME Request
      PROVE  now' = now + 1 /\ now' \in {now, now + 1}
  BY <1>3 DEF Request, Tick
<1>4. ASSUME NEW r \in Records, Request, Create(<<r>>),
             r.kind = "measurement" => r.stamp <= now /\ \A s \in r.members : \A d \in Deaths(s) : r.stamp < stamp[d],
             r.kind = "death" => \A s \in r.members : \A q \in ProcessesOf(s) : kind[q] = "measurement" => stamp[q] < r.stamp
      PROVE  OnlyByMerging /\ Past'
  <2> DEFINE news == <<r>>
  <2>1. news \in Seq(Records) /\ Len(news) = 1 /\ \A i \in 1 .. Len(news) : news[i] = r
    OBVIOUS
  <2>2. Create(news)
    BY <1>4
  <2> HIDE DEF news
  <2>3. \A i \in 1 .. Len(news) :
          /\ news[i].kind = "measurement" => /\ Len(news) = 1 /\ news[i].stamp <= now
                                             /\ \A s \in news[i].members : \A d \in Deaths(s) : news[i].stamp < stamp[d]
          /\ news[i].kind = "death" => \A s \in news[i].members : \A q \in ProcessesOf(s) :
                                         kind[q] = "measurement" => stamp[q] < news[i].stamp
    BY <1>4, <2>1
  <2> QED
    BY <1>1, <1>3, <1>4, <2>1, <2>2, <2>3, CreatedAlive
<1>5. CASE AddSample
  <2>1. Request /\ UNCHANGED <<live, kind, stamp, members>>
    BY <1>5 DEF AddSample, procs
  <2> QED
    BY <1>1, <1>3, <2>1, NothingIsMeasured
<1>6. ASSUME NEW ss \in SUBSET alive, NEW t \in Times, NEW k \in Physical, AddPhysical(k, ss, t)
      PROVE  OnlyByMerging /\ Past'
  <2>1. Request /\ t \in Enterable /\ AliveAt(ss, t) /\ Create(<<New(k, t, ss, None)>>)
    BY <1>6 DEF AddPhysical
  <2>2. now \in Nat /\ t \in Int
    BY <1>1, Bounds DEF LineageIntact, TypeOK
  <2>3. t <= now
    BY <2>1, <2>2 DEF Enterable
  <2>4. New(k, t, ss, None) \in Records
    BY <2>3 DEF New, Records, Kinds, Physical
  <2>5. \A s \in ss : \A d \in Deaths(s) : t < stamp[d]
    <3>1. \A s \in ss : \A d \in Deaths(s) : stamp[d] > t /\ stamp[d] \in Int
      BY <1>2, <2>1 DEF AliveAt, Deaths, ProcessesOf
    <3> QED
      BY <2>2, <3>1
  <2>6. k # "death"
    BY DEF Physical
  <2> DEFINE r == New(k, t, ss, None)
  <2>7. r.kind = k /\ r.stamp = t /\ r.members = ss /\ r \in Records
    BY <2>4 DEF New
  <2> HIDE DEF r
  <2>8. Create(<<r>>)
    BY <2>1 DEF r
  <2> QED
    BY <1>4, <2>1, <2>3, <2>5, <2>6, <2>7, <2>8
<1>7. ASSUME NEW ss \in SUBSET alive, NEW t \in Times, AddResult(ss, t)
      PROVE  OnlyByMerging /\ Past'
  <2> DEFINE r == New("result", t, ss, None)
  <2>1. Request /\ Create(<<r>>)
    BY <1>7 DEF AddResult
  <2>2. r \in Records /\ r.kind = "result"
    BY DEF New, Records, Kinds
  <2> HIDE DEF r
  <2> QED
    BY <1>4, <2>1, <2>2
<1>8. ASSUME NEW ss \in SUBSET alive, NEW t \in Times, NEW p \in Processes, EditMeasurement(p, ss, t)
      PROVE  OnlyByMerging /\ Past'
  <2>1. /\ Request /\ p \in live /\ kind[p] = "measurement" /\ t \in Enterable \cup {stamp[p]} /\ AliveAt(ss, t)
        /\ stamp' = [stamp EXCEPT ![p] = t] /\ members' = [members EXCEPT ![p] = ss]
        /\ live' = live /\ kind' = kind
    BY <1>8 DEF EditMeasurement
  <2>2. /\ stamp \in [Processes -> Times] /\ members \in [Processes -> SUBSET alive] /\ now \in Nat /\ t \in Int
    BY <1>1, Bounds, SMTT(30) DEF LineageIntact, TypeOK
  <2>3. t <= now
    BY <1>2, <2>1, <2>2 DEF Enterable, Past
  <2>4. /\ stamp'[p] = t /\ members'[p] = ss
        /\ \A q \in live : q # p => stamp'[q] = stamp[q] /\ members'[q] = members[q]
    BY <1>2, <2>1, <2>2
  <2>5. Past'
    <3>1. \A q \in live : kind[q] = "measurement" => stamp'[q] <= now
      BY <1>2, <2>1, <2>2, <2>3, <2>4 DEF Past
    <3>2. now' = now + 1
      BY <1>3, <2>1
    <3>3. \A q \in live : stamp'[q] \in Int
      BY <1>2, <2>2, <2>4
    <3> QED
      BY <2>1, <2>2, <3>1, <3>2, <3>3 DEF Past
  <2>6. ASSUME NEW s, NEW q, MeasuredDead(s, q)'
        PROVE  MeasuredDead(s, q)
    <3>1. q \in live /\ s \in members'[q] /\ kind[q] = "measurement"
      BY <2>1, <2>6 DEF MeasuredDead, ProcessesOf
    <3>2. PICK d \in live : s \in members'[d] /\ kind[d] = "death" /\ stamp'[q] >= stamp'[d]
      BY <2>1, <2>6 DEF MeasuredDead, Deaths, ProcessesOf
    <3>3. d # p /\ stamp'[d] = stamp[d] /\ s \in members[d] /\ stamp[d] \in Int
      BY <1>2, <2>1, <2>4, <3>2
    <3>4. CASE q = p
      <4>1. stamp[d] > t
        BY <2>1, <2>4, <3>1, <3>2, <3>3, <3>4 DEF AliveAt, Deaths, ProcessesOf
      <4> QED
        BY <2>2, <2>4, <3>2, <3>3, <3>4, <4>1
    <3>5. CASE q # p
      BY <2>4, <3>1, <3>2, <3>3, <3>5 DEF MeasuredDead, Deaths, ProcessesOf
    <3> QED
      BY <3>4, <3>5
  <2> QED
    BY <2>5, <2>6 DEF OnlyByMerging
<1>9. ASSUME NEW t \in Times, NEW p \in Processes, EditDeposition(p, t)
      PROVE  OnlyByMerging /\ Past'
  <2>1. /\ Request /\ kind[p] = "deposition" /\ stamp' = [stamp EXCEPT ![p] = t]
        /\ UNCHANGED <<live, kind, members>>
    BY <1>9 DEF EditDeposition
  <2>2. stamp \in [Processes -> Times]
    BY <1>1 DEF LineageIntact, TypeOK
  <2>3. \A q \in live : kind[q] \in {"measurement", "death"} => stamp'[q] = stamp[q]
    BY <1>2, <2>1, <2>2
  <2> QED
    BY <1>1, <1>3, <2>1, <2>3, NothingIsMeasured
<1>10. ASSUME NEW s \in alive, Kill(s)
       PROVE  OnlyByMerging /\ Past'
  <2> DEFINE r == New("death", now, {s}, None)
  <2>1. Request /\ Create(<<r>>)
    BY <1>10 DEF Kill
  <2>2. now \in Times
    BY <1>1, Bounds, SMTT(30) DEF LineageIntact, TypeOK, Times
  <2>3. r \in Records /\ r.kind = "death" /\ r.stamp = now
    BY <2>2 DEF New, Records, Kinds
  <2> HIDE DEF r
  <2>4. \A x \in r.members : \A q \in ProcessesOf(x) : kind[q] = "measurement" => stamp[q] < r.stamp
    BY <2>3 DEF Past, ProcessesOf
  <2> QED
    BY <1>4, <2>1, <2>3, <2>4
<1>11. ASSUME NEW s \in alive, NEW t \in 0 .. MaxTime + 1, NEW complete \in BOOLEAN,
              Request, Create(SplitOf(s, t, complete)),
              \A q \in ProcessesOf(s) : kind[q] = "measurement" => stamp[q] < t + 1
       PROVE  OnlyByMerging /\ Past'
  <2> DEFINE news == SplitOf(s, t, complete)
  <2>1. news \in Seq(Records)
    <3>1. t \in Times /\ t + 1 \in Times
      BY Bounds DEF Times
    <3>2. New("split", t, {s}, s) \in Records /\ New("death", t + 1, {s}, None) \in Records
      BY <1>1, <3>1, ObjectsAreObjects DEF New, Records, Kinds
    <3> QED
      BY <3>2 DEF SplitOf
  <2>2. \A i \in 1 .. Len(news) : news[i].kind = "split" \/ (news[i].kind = "death" /\ news[i].stamp = t + 1 /\ news[i].members = {s})
    <3>1. CASE complete
      <4>1. Len(news) = 2 /\ news[1] = New("split", t, {s}, s) /\ news[2] = New("death", t + 1, {s}, None)
        BY <3>1 DEF SplitOf
      <4>2. \A i \in 1 .. 2 : i = 1 \/ i = 2
        OBVIOUS
      <4> HIDE DEF news
      <4> QED
        BY <4>1, <4>2 DEF New
    <3>2. CASE ~complete
      <4>1. Len(news) = 1 /\ news[1] = New("split", t, {s}, s)
        BY <3>2 DEF SplitOf
      <4>2. \A i \in 1 .. 1 : i = 1
        OBVIOUS
      <4> HIDE DEF news
      <4> QED
        BY <4>1, <4>2 DEF New
    <3> QED
      BY <3>1, <3>2
  <2>3. Create(news)
    BY <1>11
  <2> HIDE DEF news
  <2>4. \A i \in 1 .. Len(news) :
          /\ news[i].kind = "measurement" => /\ Len(news) = 1 /\ news[i].stamp <= now
                                             /\ \A x \in news[i].members : \A d \in Deaths(x) : news[i].stamp < stamp[d]
          /\ news[i].kind = "death" => \A x \in news[i].members : \A q \in ProcessesOf(x) :
                                         kind[q] = "measurement" => stamp[q] < news[i].stamp
    BY <1>11, <2>2
  <2> QED
    BY <1>1, <1>3, <1>11, <2>1, <2>3, <2>4, CreatedAlive
<1>12. ASSUME NEW s \in alive, NEW n \in 1 .. MaxSamples, NEW complete \in BOOLEAN, Split(s, n, complete)
       PROVE  OnlyByMerging /\ Past'
  <2>1. Request /\ Create(SplitOf(s, now, complete))
    BY <1>12 DEF Split
  <2>2. now \in 0 .. MaxTime + 1
    BY <1>1, Bounds, SMTT(30) DEF LineageIntact, TypeOK
  <2>3. \A q \in ProcessesOf(s) : kind[q] = "measurement" => stamp[q] < now + 1
    BY <1>1, <1>2 DEF Past, ProcessesOf
  <2> QED
    BY <1>11, <2>1, <2>2, <2>3
<1>13. ASSUME NEW p \in Processes, NEW n \in 1 .. MaxSamples, NEW complete \in BOOLEAN, Resplit(p, n, complete)
       PROVE  OnlyByMerging /\ Past'
  <2> DEFINE death == IF complete THEN {made + 1} ELSE {}
  <2>1. /\ Request /\ p \in live /\ kind[p] = "split"
        /\ live' = live \cup death
        /\ kind' = [q \in Processes |-> IF q \in death THEN "death" ELSE kind[q]]
        /\ stamp' = [q \in Processes |-> IF q \in death THEN now + 1 ELSE IF q = p THEN now ELSE stamp[q]]
        /\ members' = [q \in Processes |-> IF q \in death THEN {parent[p]} ELSE members[q]]
    BY <1>13 DEF Resplit
  <2>2. live \subseteq 1 .. made /\ made \in Nat
    BY <1>1, StampsAreNumbers
  <2>3. \A q \in death : q = made + 1 /\ q \notin live
    BY <2>2
  <2>4. \A q \in death : q \in Processes
    <3>1. complete => made' = made + 1 /\ made' <= MaxProcs
      BY <1>13 DEF Resplit
    <3> QED
      BY <2>2, <3>1, Bounds DEF Processes
  <2> HIDE DEF death
  <2>5. \A q \in live : /\ q \in live' /\ members'[q] = members[q] /\ kind'[q] = kind[q]
                        /\ kind[q] \in {"measurement", "death"} => stamp'[q] = stamp[q]
    BY <1>2, <2>1, <2>3
  <2>6. \A q \in live' \ live : q \in death /\ kind'[q] = "death" /\ stamp'[q] = now + 1
    BY <2>1, <2>4
  <2>7. \A q \in live' \ live : kind'[q] = "death" =>
          \A x \in members'[q] : \A y \in ProcessesOf(x) : kind[y] = "measurement" => stamp[y] < stamp'[q]
    BY <1>1, <1>2, <2>6 DEF Past, ProcessesOf
  <2> QED
    BY <1>1, <1>3, <2>1, <2>5, <2>6, <2>7, LivingAreMeasured
<1>14. ASSUME NEW p \in Processes, NEW s \in alive, NEW n \in 1 .. MaxSamples, SplitAfterDeposition(p, s, n)
       PROVE  OnlyByMerging /\ Past'
  <2>1. Request /\ p \in live /\ kind[p] = "deposition"
    BY <1>14 DEF SplitAfterDeposition
  <2>2. CASE n > 1
    <3>1. Create(SplitOf(s, stamp[p] + 1, TRUE)) /\ IsLastButResults(p, s)
      BY <1>14, <2>2 DEF SplitAfterDeposition
    <3>2. stamp[p] + 1 \in 0 .. MaxTime + 1
      <4>1. stamp[p] \in Times /\ stamp[p] <= now /\ now \in 0 .. MaxTime
        BY <1>1, <2>1 DEF LineageIntact, TypeOK, Orderly
      <4> QED
        BY <4>1, Bounds
    <3>3. \A q \in ProcessesOf(s) : kind[q] = "measurement" => stamp[q] < (stamp[p] + 1) + 1
      <4> SUFFICES ASSUME NEW q \in ProcessesOf(s), kind[q] = "measurement"
                   PROVE  stamp[q] < (stamp[p] + 1) + 1
        OBVIOUS
      <4>1. q \in live /\ stamp[q] \in Int /\ stamp[p] \in Int
        BY <1>2, <2>1 DEF ProcessesOf
      <4>2. q # p /\ Earlier(q, p)
        BY <2>1, <3>1 DEF IsLastButResults
      <4> QED
        BY <4>1, <4>2 DEF Earlier
    <3> QED
      BY <1>11, <2>1, <3>1, <3>2, <3>3
  <2>3. CASE ~(n > 1)
    <3>1. UNCHANGED <<live, kind, stamp, members>>
      BY <1>14, <2>3 DEF SplitAfterDeposition
    <3> QED
      BY <1>1, <1>3, <2>1, <3>1, NothingIsMeasured
  <2> QED
    BY <2>2, <2>3
<1>15. ASSUME NEW ss \in (SUBSET alive) \ {{}}, NEW t \in Times,
              \/ \E k \in Classes \cap Physical : AddPhysical(k, ss, t)
              \/ "result" \in Classes /\ AddResult(ss, t)
              \/ \E p \in Processes : EditMeasurement(p, ss, t)
       PROVE  OnlyByMerging /\ Past'
  BY <1>6, <1>7, <1>8, <1>15
<1> QED
  BY <1>5, <1>9, <1>10, <1>12, <1>13, <1>14, <1>15 DEF AtOnce

(* The calls of a deletion measure nothing and start no merge.             *)
LEMMA CallsMeasureNothing ==
  ASSUME LineageAssumption, LineageInv, LineageInv', Past,
         \/ (\E s \in alive : DeleteSample(s)) \/ (\E p \in Processes : DeleteProcess(p))
         \/ VisitProcess \/ VisitPiece \/ Return \/ EndMerge \/ UNCHANGED vars
  PROVE  /\ OnlyByMerging /\ Past'
         /\ UNCHANGED vars \/ stack' = <<>> \/ Call'.what # "merge"
<1>1. LineageIntact /\ now \in Int
  BY StampsAreNumbers DEF LineageInv
<1>2. \A p \in live : p \in Processes
  BY <1>1, StampsAreNumbers
<1>3. members \in [Processes -> SUBSET alive]
  BY <1>1, ObjectsAreObjects
<1>4. ASSUME UNCHANGED <<live, kind, stamp>>, now' \in {now, now + 1}, \A p \in live : members'[p] \subseteq members[p]
      PROVE  OnlyByMerging /\ Past'
  BY <1>1, <1>4, NothingIsMeasured
<1>5. ASSUME stack' # <<>>, Call'.what = "merge"
      PROVE  Len(stack') = 1 /\ ~dry'
  BY <1>5 DEF LineageInv, Merging
<1>6. ASSUME NEW c, stack' = <<c>>
      PROVE  Call' = c
  BY <1>6 DEF Call
<1>7. CASE (\E s \in alive : DeleteSample(s)) \/ (\E p \in Processes : DeleteProcess(p))
  <2>1. UNCHANGED <<now, live, kind, stamp, members>> /\ dry'
    BY <1>7 DEF DeleteSample, DeleteProcess, Begin, procs
  <2> QED
    BY <1>4, <1>5, <2>1
<1>8. CASE VisitProcess
  <2>1. stack # <<>> /\ Call.what = "sample" /\ UNCHANGED <<now, live, kind, stamp, members>>
    BY <1>8 DEF VisitProcess, procs
  <2>2. PICK p : stack' = Visited(p) \/ stack' = <<>> \/ stack' = Append(Visited(p), ProcessCall(p))
    BY <1>8 DEF VisitProcess
  <2>3. /\ Visited(p) \in Seq(Calls) /\ Len(Visited(p)) = Len(stack) /\ Visited(p)[Len(stack)].what = "sample"
        /\ Len(stack) \in Nat \ {0}
    BY <2>1, CallOfDeletion, VisitedOne
  <2>4. CASE stack' = Visited(p)
    <3>1. Call'.what # "merge"
      BY <2>3, <2>4 DEF Call
    <3> QED
      BY <1>4, <2>1, <3>1
  <2>5. CASE stack' = Append(Visited(p), ProcessCall(p))
    <3>1. Len(stack') = Len(stack) + 1
      BY <2>3, <2>5
    <3> QED
      BY <1>4, <1>5, <2>1, <2>3, <3>1
  <2> QED
    BY <1>4, <2>1, <2>2, <2>4, <2>5
<1>9. CASE VisitPiece
  <2>1. stack # <<>> /\ Call.what = "process" /\ UNCHANGED <<now, live, kind, stamp, members>>
    BY <1>9 DEF VisitPiece, procs
  <2>2. PICK s : stack' = Append(Visited(s), SampleCall(s, ~dry))
    BY <1>9 DEF VisitPiece
  <2>3. Visited(s) \in Seq(Calls) /\ Len(Visited(s)) = Len(stack) /\ Len(stack) \in Nat \ {0}
    BY <2>1, CallOfDeletion, VisitedOne
  <2>4. Len(stack') = Len(stack) + 1
    BY <2>2, <2>3
  <2> QED
    BY <1>4, <1>5, <2>1, <2>3, <2>4
<1>10. CASE Return
  <2>1. stack # <<>> /\ Call.what \in {"sample", "process"} /\ Call.what # "merge"
    BY <1>10 DEF Return
  <2>2. CASE dry /\ Len(stack) = 1
    <3>1. EndDryRun
      BY <1>10, <2>2 DEF Return
    <3>2. UNCHANGED <<live, kind, stamp, members>> /\ now' = now + 1
      BY <3>1 DEF EndDryRun, Tick, procs
    <3>3. \E c : stack' = <<c>> /\ c.what \in {"sample", "process"}
      BY <3>1 DEF EndDryRun, SampleCall, ProcessCall
    <3> QED
      BY <1>4, <1>6, <3>2, <3>3
  <2>3. CASE ~(dry /\ Len(stack) = 1)
    <3>1. stack' = Outer /\ UNCHANGED <<now, kind, stamp>>
      BY <1>10, <2>3 DEF Return
    <3>2. live' \subseteq live
      BY <1>10, <2>3 DEF Return
    <3>3. \A p \in live : members'[p] \subseteq members[p]
      <4>1. CASE dry
        BY <1>10, <2>3, <4>1 DEF Return
      <4>2. CASE ~dry /\ Call.what = "sample"
        <5>1. members' = [p \in Processes |-> members[p] \ {Call.id}]
          BY <1>10, <4>2 DEF Return
        <5> QED
          BY <1>2, <5>1
      <4>3. CASE ~dry /\ Call.what = "process"
        <5>1. members' = [members EXCEPT ![Call.id] = {}]
          BY <1>10, <4>3 DEF Return
        <5> QED
          BY <1>2, <1>3, <5>1
      <4> QED
        BY <2>1, <4>1, <4>2, <4>3
    <3>4. OnlyByMerging /\ Past'
      BY <1>1, <3>1, <3>2, <3>3, NothingIsMeasured
    <3>5. CASE Len(stack) = 1
      <4>1. Outer = <<>>
        BY <3>5 DEF Outer
      <4> QED
        BY <3>1, <3>4, <4>1
    <3>6. CASE Len(stack) # 1
      BY <2>1, <3>1, <3>4, <3>6, CallIsRemoved
    <3> QED
      BY <3>5, <3>6
  <2> QED
    BY <2>2, <2>3
<1>11. CASE EndMerge
  <2>1. UNCHANGED <<now, live, kind, stamp, members>>
    BY <1>11 DEF EndMerge, procs
  <2>2. \E c : stack' = <<c>> /\ c.what = "sample"
    BY <1>11 DEF EndMerge, SampleCall
  <2> QED
    BY <1>4, <1>6, <2>1, <2>2
<1>12. CASE UNCHANGED vars
  BY <1>4, <1>12 DEF vars, procs, calls
<1> QED
  BY <1>7, <1>8, <1>9, <1>10, <1>11, <1>12

LEMMA MergesMeasureNothing ==
  ASSUME LineageAssumption, LineageInv, LineageInv', Past, NEW a \in alive, NEW b \in alive, Merge(a, b)
  PROVE  OnlyByMerging /\ Past' /\ Handover'
<1> DEFINE c == [what |-> "merge", from |-> a, to |-> b, todo |-> ProcessesOf(a)]
<1>1. /\ stack' = <<c>> /\ Tick /\ UNCHANGED <<live, kind, stamp, members>>
      /\ ~is_dead(a)
      /\ \A p \in ProcessesOf(a), end \in Deaths(b) \cup Splits(b) : stamp[p] < stamp[end]
  BY DEF Merge, procs
<1>2. OnlyByMerging /\ Past'
  BY <1>1, NothingIsMeasured DEF LineageInv, Tick
<1>3. Call'.to = b /\ Call'.todo = ProcessesOf(a)
  BY <1>1 DEF Call
<1> HIDE DEF c
<1>4. \A p \in Call'.todo : kind'[p] # "death"
  BY <1>1, <1>3 DEF is_dead, Deaths
<1>5. Deaths(Call.to)' = Deaths(b)
  BY <1>1, <1>3 DEF Deaths, ProcessesOf
<1>6. \A p \in Call'.todo, d \in Deaths(Call.to)' : stamp'[p] < stamp'[d]
  BY <1>1, <1>3, <1>5
<1> QED
  BY <1>2, <1>4, <1>6 DEF Handover

LEMMA MergedIsHandedOver ==
  ASSUME LineageAssumption, LineageInv, LineageInv', Past, Handover, MergeProcess
  PROVE  OnlyByMerging /\ Past' /\ Handover'
<1>1. /\ stack # <<>> /\ Call.what = "merge" /\ UNCHANGED <<now, origin, live, kind, stamp, parent>>
  BY DEF MergeProcess, samples
<1>2. LineageIntact /\ Orderly /\ Merging
  BY <1>1 DEF LineageInv
<1>3. Call \in Calls /\ {Call.from, Call.to} \subseteq alive /\ Call.todo \subseteq ProcessesOf(Call.from)
  BY <1>1, <1>2, StackHasTop DEF LineageIntact, TypeOK, Merging
<1>4. Call \in [what : {"merge"}, from : Samples, to : Samples, todo : SUBSET Processes]
  BY <1>1, <1>3, CallHasKind
<1>5. /\ live \subseteq Processes /\ members \in [Processes -> SUBSET alive] /\ now \in Int
      /\ \A q \in live : stamp[q] \in Int
  BY <1>2, ObjectsAreObjects, StampsAreNumbers
<1> DEFINE split == origin[Call.to]
<1>6. PICK p \in Call.todo :
        /\ \A q \in Call.todo \ {p} : Earlier(q, p)
        /\ LET target == IF split # None /\ stamp[split] > stamp[p] THEN parent[split] ELSE Call.to
           IN /\ members' = processes_add(p, target)
              /\ stack' = <<[Call EXCEPT !.to = target, !.todo = @ \ {p}]>>
  BY DEF MergeProcess
<1> DEFINE target == IF split # None /\ stamp[split] > stamp[p] THEN parent[split] ELSE Call.to
<1>7. members' = processes_add(p, target) /\ stack' = <<[Call EXCEPT !.to = target, !.todo = @ \ {p}]>>
  BY <1>6
<1>8. split # None => split \in live /\ kind[split] = "split" /\ parent[split] \in alive /\ members[split] = {parent[split]}
  BY <1>2, <1>3 DEF LineageIntact, Orderly
<1>9. target = Call.to \/ (split # None /\ stamp[split] > stamp[p] /\ target = parent[split])
  OBVIOUS
<1> HIDE DEF target
<1>10. Call'.what = "merge" /\ Call'.to = target /\ Call'.todo = Call.todo \ {p}
  BY <1>4, <1>7 DEF Call
<1>11. p \in live /\ p \in Processes /\ kind[p] # "death"
  BY <1>1, <1>3, <1>5 DEF ProcessesOf, Handover
<1>12. /\ members'[p] = members[p] \cup {target}
       /\ \A q \in live : members[q] \subseteq members'[q] /\ (q # p => members'[q] = members[q])
  BY <1>5, <1>7, <1>11 DEF processes_add
<1>13. Past'
  BY <1>1 DEF Past
<1>14. \A s : Deaths(s)' = Deaths(s)
  BY <1>1, <1>11, <1>12 DEF Deaths, ProcessesOf
<1>15. \A s : Splits(s) \subseteq Splits(s)'
  BY <1>1, <1>12 DEF Splits, ProcessesOf
<1>16. Handover'
  <2>1. Call'.todo \subseteq Call.todo /\ \A q \in Call'.todo : kind'[q] # "death" /\ q \in live
    BY <1>1, <1>3, <1>10 DEF Handover, ProcessesOf
  <2>2. CASE target = Call.to
    <3>1. CASE \A q \in Call.todo, d \in Deaths(Call.to) : stamp[q] < stamp[d]
      <4>1. Deaths(Call.to)' = Deaths(Call.to)
        BY <1>10, <1>14, <2>2 DEF Deaths, ProcessesOf
      <4> QED
        BY <1>1, <2>1, <3>1, <4>1 DEF Handover
    <3>2. ASSUME NEW q \in Splits(Call.to), \A x \in Call.todo : stamp[q] > stamp[x]
          PROVE  Handover'
      <4>1. q \in Splits(Call.to)'
        BY <1>1, <1>10, <1>12, <2>2, <3>2 DEF Splits, ProcessesOf
      <4> QED
        BY <1>1, <2>1, <3>2, <4>1 DEF Handover
    <3> QED
      BY <1>1, <3>1, <3>2 DEF Handover
  <2>3. CASE split # None /\ stamp[split] > stamp[p] /\ target = parent[split]
    <3>1. \A x \in Call'.todo : stamp[split] > stamp[x]
      <4> SUFFICES ASSUME NEW x \in Call'.todo PROVE stamp[split] > stamp[x]
        OBVIOUS
      <4>1. Earlier(x, p)
        BY <1>6, <1>10
      <4>2. stamp[x] \in Int /\ stamp[p] \in Int /\ stamp[split] \in Int
        BY <1>5, <1>8, <1>11, <2>1, <2>3
      <4> QED
        BY <2>3, <4>1, <4>2 DEF Earlier
    <3>2. split \in Splits(Call.to)'
      BY <1>1, <1>8, <1>10, <1>12, <2>3 DEF Splits, ProcessesOf
    <3> HIDE DEF split
    <3> QED
      BY <1>1, <2>1, <3>1, <3>2 DEF Handover
  <2> QED
    BY <1>9, <2>2, <2>3
<1>17. OnlyByMerging
  <2> SUFFICES ASSUME NEW s \in alive', NEW x \in live', MeasuredDead(s, x)', ~MeasuredDead(s, x)
               PROVE  \E q \in Splits(s)' : stamp'[q] > stamp'[x]
    BY DEF OnlyByMerging
  <2>1. x \in live /\ s \in members'[x] /\ kind[x] = "measurement"
    BY <1>1 DEF MeasuredDead, ProcessesOf
  <2>2. PICK d \in Deaths(s) : stamp[x] >= stamp[d]
    BY <1>1, <1>14 DEF MeasuredDead
  <2>3. s \notin members[x]
    BY <2>1, <2>2 DEF MeasuredDead, ProcessesOf
  <2>4. x = p /\ s = target
    BY <1>12, <2>1, <2>3
  <2>5. CASE target = Call.to
    <3>1. stamp[p] \in Int /\ stamp[d] \in Int
      BY <1>5, <1>11 DEF Deaths, ProcessesOf
    <3>2. ~(\A q \in Call.todo, e \in Deaths(Call.to) : stamp[q] < stamp[e])
      BY <2>2, <2>4, <2>5, <3>1
    <3>3. PICK q \in Splits(Call.to) : \A y \in Call.todo : stamp[q] > stamp[y]
      BY <1>1, <3>2 DEF Handover
    <3>4. q \in Splits(s)'
      BY <1>15, <2>4, <2>5, <3>3
    <3> QED
      BY <1>1, <2>4, <3>3, <3>4
  <2>6. CASE split # None /\ stamp[split] > stamp[p] /\ target = parent[split]
    <3>1. split \in Splits(s)'
      BY <1>1, <1>8, <1>12, <2>4, <2>6 DEF Splits, ProcessesOf
    <3> HIDE DEF split
    <3> QED
      BY <1>1, <2>4, <2>6, <3>1
  <2> QED
    BY <1>9, <2>5, <2>6
<1> QED
  BY <1>13, <1>16, <1>17

AliveInv == LineageInv /\ Past /\ Handover

LEMMA AliveStep ==
  ASSUME LineageAssumption, AliveInv, [Next]_vars
  PROVE  AliveInv' /\ OnlyByMerging
<1>1. LineageInv /\ LineageInv' /\ Past /\ Handover
  BY LineageStep DEF AliveInv
<1>2. CASE AtOnce
  <2>1. stack' = <<>>
    BY <1>2, RequestsOnlyAdd DEF AtOnce
  <2> QED
    BY <1>1, <1>2, <2>1, RequestsMeasureTheLiving DEF AliveInv, Handover
<1>3. CASE \/ (\E s \in alive : DeleteSample(s)) \/ (\E p \in Processes : DeleteProcess(p))
           \/ VisitProcess \/ VisitPiece \/ Return \/ EndMerge \/ UNCHANGED vars
  <2>1. /\ OnlyByMerging /\ Past'
        /\ UNCHANGED vars \/ stack' = <<>> \/ Call'.what # "merge"
    BY <1>1, <1>3, CallsMeasureNothing
  <2>2. CASE stack' = <<>> \/ Call'.what # "merge"
    BY <1>1, <2>1, <2>2 DEF AliveInv, Handover
  <2>3. CASE UNCHANGED vars
    <3>1. UNCHANGED <<live, kind, stamp, members, stack>>
      BY <2>3 DEF vars, procs, calls
    <3>2. \A s : Deaths(s)' = Deaths(s) /\ Splits(s)' = Splits(s)
      BY <3>1 DEF Deaths, Splits, ProcessesOf
    <3>3. Handover'
      <4>1. Call' = Call
        BY <3>1 DEF Call
      <4>2. Deaths(Call.to)' = Deaths(Call.to) /\ Splits(Call.to)' = Splits(Call.to)
        BY <3>1, <4>1 DEF Deaths, Splits, ProcessesOf
      <4> QED
        BY <1>1, <3>1, <4>1, <4>2 DEF Handover
    <3> QED
      BY <1>1, <2>1, <3>3 DEF AliveInv
  <2> QED
    BY <2>1, <2>2, <2>3
<1>4. CASE \E a, b \in alive : Merge(a, b)
  BY <1>1, <1>4, MergesMeasureNothing DEF AliveInv
<1>5. CASE MergeProcess
  BY <1>1, <1>5, MergedIsHandedOver DEF AliveInv
<1> QED
  BY <1>2, <1>3, <1>4, <1>5 DEF Next

(* No request measures a sample after its death; only a merge can hand an  *)
(* old measurement over to a sample that had died and was split later.     *)
THEOREM OnlyTheLivingAreMeasured == Spec => MeasuredAlive
<1>1. Init => AliveInv
  BY LineageAssumption, LineageBegins DEF Init, AliveInv, Past, Handover
<1>2. AliveInv /\ [Next]_vars => AliveInv'
  BY LineageAssumption, AliveStep
<1>3. AliveInv /\ [Next]_vars =>
        [\A s \in alive', p \in live' :
           MeasuredDead(s, p)' /\ ~MeasuredDead(s, p) => \E q \in Splits(s)' : stamp'[q] > stamp'[p]]_vars
  BY LineageAssumption, AliveStep DEF OnlyByMerging
<1> QED
  BY <1>1, <1>2, <1>3, PTL DEF Spec, MeasuredAlive

-----------------------------------------------------------------------------
(* Orphans predate a split.  The loop of sample i has left process p       *)
(* behind: it has passed it because of its other samples.                  *)
Passed(i, p) ==
  /\ IsSample(i)
  /\ stack[i].id \in members[p]
  /\ p \notin stack[i].todo
  /\ i < Len(stack) => stack[i + 1].id # p

(* What a loop has left behind is earlier than what it deletes, and if it  *)
(* has lost its other samples meanwhile, they come from a later split.     *)
LeftBehind(i, p) ==
  /\ \A q \in stack[i].todo : Earlier(p, q)
  /\ i < Len(stack) => Earlier(p, stack[i + 1].id)
  /\ members[p] = {stack[i].id} => \E t \in before[p] : DescendsAfter(stack[i].id, t, p)

InOrder == \A i \in 1 .. Len(stack), p \in live : Passed(i, p) => LeftBehind(i, p)

(* The samples further up the stack come from what is being deleted.       *)
Lineal ==
  \A i, k \in 1 .. Len(stack) : i < k /\ IsSample(i) /\ IsSample(k) =>
    \A p \in Processes : Earlier(p, stack[i + 1].id) => DescendsAfter(stack[i].id, stack[k].id, p)

PastIsShared == stack # <<>> /\ Call.what # "merge" => Lineal /\ (~dry => InOrder)

Orphaned ==
  \A p \in live' : kind'[p] \in Physical /\ members'[p] = {} /\ members[p] # {} =>
    \E s, t \in before[p] : DescendsAfter(s, t, p)

(* The descent goes from a split to its pieces, and on to their pieces.    *)
LEMMA PieceDescends ==
  ASSUME NEW s, NEW p, NEW x \in Samples, origin[x] # None
  PROVE  /\ parent[origin[x]] = s /\ Earlier(p, origin[x]) => DescendsAfter(s, x, p)
         /\ DescendsAfter(s, parent[origin[x]], p) => DescendsAfter(s, x, p)
BY DEF DescendsAfter

LEMMA DescentStays ==
  ASSUME UNCHANGED <<origin, parent, stamp>>
  PROVE  /\ \A p, q : Earlier(p, q)' <=> Earlier(p, q)
         /\ \A s, t, p : DescendsAfter(s, t, p)' <=> DescendsAfter(s, t, p)
BY DEF DescendsAfter, Earlier

LEMMA LinealStays ==
  ASSUME Lineal, UNCHANGED <<origin, parent, stamp>>, NEW m \in Nat, m <= Len(stack), Len(stack) \in Nat,
         \A i \in 1 .. m : stack'[i].what = stack[i].what /\ stack'[i].id = stack[i].id,
         Len(stack') \in Nat, \A k \in 1 .. Len(stack') : IsSample(k)' => k <= m
  PROVE  Lineal'
<1> SUFFICES ASSUME NEW i \in 1 .. Len(stack'), NEW k \in 1 .. Len(stack'), i < k, IsSample(i)', IsSample(k)',
                    NEW p \in Processes, Earlier(p, stack[i + 1].id)'
             PROVE  DescendsAfter(stack[i].id, stack[k].id, p)'
  BY DEF Lineal
<1>1. i \in 1 .. m /\ k \in 1 .. m /\ i + 1 \in 1 .. m /\ i \in 1 .. Len(stack) /\ k \in 1 .. Len(stack)
  <2>1. k <= m
    OBVIOUS
  <2> QED
    BY <2>1
<1>2. IsSample(i) /\ IsSample(k)
  BY <1>1 DEF IsSample
<1>3. stack'[i].id = stack[i].id /\ stack'[i + 1].id = stack[i + 1].id /\ stack'[k].id = stack[k].id
  BY <1>1
<1>4. Earlier(p, stack[i + 1].id)
  BY <1>3, DescentStays
<1>5. DescendsAfter(stack[i].id, stack[k].id, p)
  BY <1>1, <1>2, <1>4 DEF Lineal
<1> QED
  BY <1>3, <1>5, DescentStays

(* A single call has left nothing behind.                                  *)
LEMMA FirstCallIsShared ==
  ASSUME NEW c \in Calls, stack' = <<c>>,
         dry' \/ c.what = "process" \/ (c.what = "sample" /\ c.todo = ProcessesOf(c.id)')
  PROVE  PastIsShared'
<1>1. Len(stack') = 1 /\ stack'[1] = c
  BY OneCall
<1>2. Lineal'
  BY <1>1 DEF Lineal
<1>3. ~dry' => InOrder'
  <2> SUFFICES ASSUME ~dry', NEW p \in live', Passed(1, p)'
               PROVE  FALSE
    BY <1>1 DEF InOrder
  <2>1. c.what = "sample" /\ c.id \in members'[p] /\ p \notin c.todo
    BY <1>1 DEF Passed, IsSample
  <2> QED
    BY <2>1 DEF ProcessesOf
<1> QED
  BY <1>2, <1>3 DEF PastIsShared

LEMMA PassedIsShared ==
  ASSUME LineageAssumption, LineageInv, PastIsShared, stack # <<>>, Call.what = "sample", NEW p \in Call.todo, ~IsOnlySample(p),
         \A q \in Call.todo \ {p} : Earlier(p, q),
         stack' = Visited(p), UNCHANGED <<now, samples, procs, dry, announced, before>>
  PROVE  PastIsShared'
<1> DEFINE n == Len(stack)
<1>1. /\ LineageIntact /\ Orderly /\ Deleting /\ n \in Nat \ {0} /\ n \in 1 .. n
      /\ Call = stack[n] /\ IsSample(n) /\ Call.id \in alive /\ p \in Processes /\ stack \in Seq(Calls)
  BY CallOfDeletion DEF IsProcess
<1>2. UNCHANGED <<origin, live, stamp, parent, members, before, dry>>
  BY DEF samples, procs
<1>3. /\ Len(stack') = n /\ \A i \in 1 .. n - 1 : stack'[i] = stack[i]
      /\ stack'[n].what = "sample" /\ stack'[n].id = Call.id /\ stack'[n].todo = Call.todo \ {p}
  BY <1>1, VisitedOne
<1>4. \A i \in 1 .. n : i = n \/ i \in 1 .. n - 1
  BY <1>1
<1>5. \A i \in 1 .. n : stack'[i].what = stack[i].what /\ stack'[i].id = stack[i].id
  BY <1>1, <1>3, <1>4
<1>6. \A i \in 1 .. n : i < n => i \in 1 .. n - 1 /\ i + 1 \in 1 .. n
  BY <1>1
<1> HIDE DEF n
<1>7. Lineal /\ (~dry => InOrder)
  BY PastIsShared DEF PastIsShared
<1>8. Lineal'
  <2>1. n <= n /\ n \in Nat /\ \A k \in 1 .. n : k <= n
    BY <1>1
  <2> QED
    BY <1>2, <1>3, <1>5, <1>7, <2>1, LinealStays DEF n
<1>9. ASSUME ~dry PROVE InOrder'
  <2> SUFFICES ASSUME NEW i \in 1 .. n, NEW r \in live, Passed(i, r)'
               PROVE  LeftBehind(i, r)'
    BY <1>2, <1>3 DEF InOrder
  <2>1. /\ IsSample(i) /\ stack[i].id \in members[r] /\ r \notin stack'[i].todo
        /\ i < n => stack[i + 1].id # r
    BY <1>2, <1>3, <1>5, <1>6 DEF Passed, IsSample
  <2>2. CASE r = p /\ i = n
    <3>1. members[p] # {stack[n].id}
      <4>1. Call.id \in Samples
        BY <1>1, ObjectsAreObjects
      <4> QED
        BY <1>1, <4>1, CountTells DEF LineageIntact
    <3>2. \A q \in stack'[n].todo : Earlier(p, q)
      BY <1>3
    <3> QED
      BY <1>1, <1>2, <1>3, <2>2, <3>1, <3>2, DescentStays DEF LeftBehind, n
  <2>3. CASE ~(r = p /\ i = n)
    <3>1. r \notin stack[i].todo /\ stack'[i].todo \subseteq stack[i].todo
      BY <1>1, <1>3, <1>4, <2>1, <2>3
    <3>2. LeftBehind(i, r)
      BY <1>7, <1>9, <2>1, <3>1 DEF InOrder, Passed, n
    <3>3. \A q \in stack'[i].todo : Earlier(r, q)
      BY <3>1, <3>2 DEF LeftBehind
    <3> QED
      BY <1>2, <1>3, <1>5, <1>6, <3>2, <3>3, DescentStays DEF LeftBehind, n
  <2> QED
    BY <2>2, <2>3
<1> QED
  BY <1>2, <1>8, <1>9 DEF PastIsShared

LEMMA EnteredIsShared ==
  ASSUME LineageAssumption, LineageInv, PastIsShared, stack # <<>>, Call.what = "sample", NEW p \in Call.todo,
         stack' = Append(Visited(p), ProcessCall(p)),
         ProcessCall(p) \in Calls, UNCHANGED <<now, samples, procs, dry, before>>
  PROVE  PastIsShared'
<1> DEFINE n == Len(stack)
           c == ProcessCall(p)
<1>1. /\ LineageIntact /\ Orderly /\ Deleting /\ n \in Nat \ {0} /\ n \in 1 .. n
      /\ Call = stack[n] /\ IsSample(n) /\ p \in Processes /\ stack \in Seq(Calls)
  BY CallOfDeletion DEF IsProcess
<1>2. UNCHANGED <<origin, live, stamp, parent, members, before, dry>>
  BY DEF samples, procs
<1>3. c \in Calls /\ c.what = "process" /\ c.id = p
  BY DEF ProcessCall
<1> HIDE DEF c
<1>4. stack' = Append(Visited(p), c)
  BY DEF c
<1>5. /\ Len(stack') = n + 1 /\ \A i \in 1 .. n - 1 : stack'[i] = stack[i]
      /\ stack'[n].what = "sample" /\ stack'[n].id = Call.id /\ stack'[n].todo = Call.todo \ {p}
      /\ stack'[n + 1] = c
  BY <1>1, <1>3, <1>4, Called
<1>6. \A i \in 1 .. n : i = n \/ i \in 1 .. n - 1
  BY <1>1
<1>7. \A i \in 1 .. n : stack'[i].what = stack[i].what /\ stack'[i].id = stack[i].id
  BY <1>1, <1>5, <1>6
<1> HIDE DEF n
<1>8. /\ \A i \in 1 .. n : (i < n => i \in 1 .. n - 1 /\ i + 1 \in 1 .. n) /\ i < n + 1
      /\ \A i \in 1 .. n + 1 : i = n + 1 \/ i \in 1 .. n
  BY <1>1
<1>9. Lineal /\ (~dry => InOrder)
  BY PastIsShared DEF PastIsShared
<1>10. \A k : k = n + 1 => ~IsSample(k)'
  BY <1>3, <1>5 DEF IsSample
<1>11. Lineal'
  <2>1. n <= n /\ n \in Nat /\ n + 1 \in Nat /\ \A k \in 1 .. n + 1 : k = n + 1 \/ k <= n
    BY <1>1
  <2> QED
    BY <1>2, <1>5, <1>7, <1>9, <1>10, <2>1, LinealStays DEF n
<1>12. ASSUME ~dry PROVE InOrder'
  <2> SUFFICES ASSUME NEW i \in 1 .. n, NEW r \in live, Passed(i, r)'
               PROVE  LeftBehind(i, r)'
    <3>1. \A k, r : k = n + 1 => ~Passed(k, r)'
      BY <1>10 DEF Passed
    <3> QED
      BY <1>2, <1>5, <1>8, <3>1 DEF InOrder
  <2>1. /\ IsSample(i) /\ stack[i].id \in members[r] /\ r \notin stack'[i].todo
        /\ stack'[i + 1].id # r
    BY <1>2, <1>5, <1>7, <1>8 DEF Passed, IsSample
  <2>2. CASE i = n
    <3>1. r # p /\ r \notin stack[n].todo
      BY <1>1, <1>3, <1>5, <2>1, <2>2
    <3>2. LeftBehind(n, r)
      BY <1>1, <1>9, <1>12, <2>1, <2>2, <3>1 DEF InOrder, Passed, n
    <3>3. Earlier(r, p) /\ \A q \in stack'[n].todo : Earlier(r, q)
      BY <1>1, <1>5, <3>2 DEF LeftBehind
    <3>4. stack'[n + 1].id = p /\ stack'[n].id = stack[n].id
      BY <1>1, <1>3, <1>5
    <3> QED
      BY <1>2, <2>2, <3>2, <3>3, <3>4, DescentStays DEF LeftBehind
  <2>3. CASE i # n
    <3>1. i < n /\ stack'[i] = stack[i] /\ stack'[i + 1].id = stack[i + 1].id
      <4>1. i \in 1 .. n - 1 /\ i < n
        BY <1>1, <2>3
      <4> QED
        BY <1>5, <1>7, <1>8, <4>1
    <3>2. LeftBehind(i, r)
      BY <1>9, <1>12, <2>1, <3>1 DEF InOrder, Passed, n
    <3> QED
      BY <1>2, <3>1, <3>2, DescentStays DEF LeftBehind, n
  <2> QED
    BY <2>2, <2>3
<1> QED
  BY <1>2, <1>11, <1>12 DEF PastIsShared

LEMMA PieceIsShared ==
  ASSUME LineageAssumption, LineageInv, PastIsShared, stack # <<>>, Call.what = "process", NEW x \in Call.todo,
         stack' = Append(Visited(x), SampleCall(x, ~dry)), UNCHANGED <<now, samples, procs, dry, before>>
  PROVE  PastIsShared'
<1> DEFINE n == Len(stack)
           c == SampleCall(x, ~dry)
<1>1. /\ LineageIntact /\ Orderly /\ Deleting /\ n \in Nat \ {0} /\ n \in 1 .. n
      /\ Call = stack[n] /\ IsProcess(n) /\ Call.id \in Processes /\ x \in alive /\ x \in Samples /\ stack \in Seq(Calls)
  BY CallOfDeletion, ObjectsAreObjects DEF IsSample
<1>2. UNCHANGED <<origin, live, stamp, parent, members, before, dry>>
  BY DEF samples, procs
<1>3. origin[x] = Call.id /\ origin[x] # None /\ kind[origin[x]] = "split" /\ origin[x] \in live
  <2>1. origin[x] = Call.id /\ Call.id \in live
    BY <1>1 DEF Deleting, Nested
  <2>2. origin[x] # None
    BY <1>1, <2>1, Bounds DEF None
  <2> QED
    BY <1>1, <2>1, <2>2 DEF Orderly
<1>4. members[Call.id] = {parent[Call.id]}
  BY <1>1, <1>3 DEF LineageIntact
<1>5. c \in Calls /\ c.what = "sample" /\ c.id = x /\ c.todo = ProcessesOf(x)
  <2>1. (~dry) \in BOOLEAN
    OBVIOUS
  <2> QED
    BY <1>1, <2>1, CallsFit
<1> HIDE DEF c
<1>6. stack' = Append(Visited(x), c)
  BY DEF c
<1>7. /\ Len(stack') = n + 1 /\ \A i \in 1 .. n - 1 : stack'[i] = stack[i]
      /\ stack'[n].what = "process" /\ stack'[n].id = Call.id
      /\ stack'[n + 1] = c
  BY <1>1, <1>5, <1>6, Called
<1>8. \A i \in 1 .. n : i = n \/ i \in 1 .. n - 1
  BY <1>1
<1>9. \A i \in 1 .. n : stack'[i].what = stack[i].what /\ stack'[i].id = stack[i].id
  BY <1>1, <1>7, <1>8 DEF IsProcess
<1>10. \A i \in 1 .. n - 1 : Follows(i)
  BY <1>1 DEF Deleting, Nested
<1> HIDE DEF n
<1>11. /\ \A i \in 1 .. n - 1 : i \in 1 .. n /\ i < n /\ i < n + 1 /\ i + 1 \in 1 .. n /\ (i + 1 = n \/ i < n - 1)
       /\ \A i \in 1 .. n + 1 : i = n + 1 \/ i \in 1 .. n
       /\ \A i, k \in 1 .. n + 1 : i < k => i \in 1 .. n
       /\ n - 1 < n
  BY <1>1
<1>12. Lineal /\ (~dry => InOrder)
  BY PastIsShared DEF PastIsShared
<1>13. stack'[n].what # "sample"
  BY <1>7
<1>14. \A i \in 1 .. n - 1 : IsSample(i) => \A p \in Processes : Earlier(p, stack[i + 1].id) => DescendsAfter(stack[i].id, x, p)
  <2> SUFFICES ASSUME NEW i \in 1 .. n - 1, IsSample(i), NEW p \in Processes, Earlier(p, stack[i + 1].id)
               PROVE  DescendsAfter(stack[i].id, x, p)
    OBVIOUS
  <2>1. CASE i + 1 = n
    <3>1. members[Call.id] = {stack[i].id}
      BY <1>1, <1>10, <2>1 DEF Follows
    <3>2. parent[origin[x]] = stack[i].id /\ Earlier(p, origin[x])
      BY <1>1, <1>3, <1>4, <2>1, <3>1
    <3> QED
      BY <1>1, <1>3, <3>2, PieceDescends
  <2>2. CASE i + 1 # n
    <3>1. n - 1 \in 1 .. n - 1 /\ n - 1 \in 1 .. n /\ (n - 1) + 1 = n /\ i < n - 1
      <4>1. n \in Nat
        BY <1>1
      <4> QED
        BY <2>2, <4>1
    <3>2. IsSample(n - 1) \/ IsProcess(n - 1)
      BY <1>1, <3>1 DEF Deleting, Nested, n
    <3>3. IsSample(n - 1)
      BY <1>1, <1>10, <3>1, <3>2 DEF Follows, IsSample, IsProcess
    <3>4. members[Call.id] = {stack[n - 1].id}
      BY <1>1, <1>10, <3>1, <3>3 DEF Follows
    <3>5. DescendsAfter(stack[i].id, stack[n - 1].id, p)
      BY <1>11, <1>12, <3>1, <3>3 DEF Lineal, n
    <3>6. parent[origin[x]] = stack[n - 1].id
      BY <1>3, <1>4, <3>4
    <3> QED
      BY <1>1, <1>3, <3>5, <3>6, PieceDescends
  <2> QED
    BY <2>1, <2>2
<1>15. Lineal'
  <2> SUFFICES ASSUME NEW i \in 1 .. n + 1, NEW k \in 1 .. n + 1, i < k, IsSample(i)', IsSample(k)',
                      NEW p \in Processes, Earlier(p, stack[i + 1].id)'
               PROVE  DescendsAfter(stack[i].id, stack[k].id, p)'
    BY <1>7 DEF Lineal
  <2>1. i \in 1 .. n /\ IsSample(i)
    BY <1>9, <1>11 DEF IsSample
  <2>2. i \in 1 .. n - 1
    BY <1>8, <1>13, <2>1 DEF IsSample
  <2>3. stack'[i].id = stack[i].id /\ stack'[i + 1].id = stack[i + 1].id
    BY <1>9, <1>11, <2>2
  <2>4. Earlier(p, stack[i + 1].id)
    BY <1>2, <2>3 DEF Earlier
  <2>5. CASE k = n + 1
    <3>1. DescendsAfter(stack[i].id, x, p)
      BY <1>14, <2>1, <2>2, <2>4
    <3>2. stack'[k].id = x
      BY <1>5, <1>7, <2>5
    <3> QED
      BY <1>2, <2>3, <3>1, <3>2, DescentStays
  <2>6. CASE k # n + 1
    <3>1. k \in 1 .. n /\ IsSample(k) /\ stack'[k].id = stack[k].id
      BY <1>9, <1>11, <2>6 DEF IsSample
    <3>2. DescendsAfter(stack[i].id, stack[k].id, p)
      BY <1>12, <2>1, <2>4, <3>1 DEF Lineal, n
    <3> QED
      BY <1>2, <2>3, <3>1, <3>2, DescentStays
  <2> QED
    BY <2>5, <2>6
<1>16. ASSUME ~dry PROVE InOrder'
  <2> SUFFICES ASSUME NEW i \in 1 .. n + 1, NEW r \in live, Passed(i, r)'
               PROVE  LeftBehind(i, r)'
    BY <1>2, <1>7 DEF InOrder
  <2>1. /\ IsSample(i)' /\ stack'[i].id \in members[r] /\ r \notin stack'[i].todo
        /\ i < n + 1 => stack'[i + 1].id # r
    BY <1>2, <1>7 DEF Passed
  <2>2. i # n + 1
    BY <1>5, <1>7, <2>1 DEF ProcessesOf
  <2>3. i \in 1 .. n - 1
    BY <1>8, <1>11, <1>13, <2>1, <2>2 DEF IsSample
  <2>4. stack'[i] = stack[i] /\ stack'[i + 1].id = stack[i + 1].id /\ i < n /\ i < n + 1 /\ i \in 1 .. n
    BY <1>7, <1>9, <1>11, <2>3
  <2>5. LeftBehind(i, r)
    BY <1>12, <1>16, <2>1, <2>4 DEF InOrder, Passed, IsSample, n
  <2> QED
    BY <1>2, <2>4, <2>5, DescentStays DEF LeftBehind, n
<1> QED
  BY <1>2, <1>12, <1>15, <1>16 DEF PastIsShared

(* A call of a deletion returns to the one below it.                       *)
LEMMA LinealWithout ==
  ASSUME LineageAssumption, LineageInv, PastIsShared, stack # <<>>, Call.what # "merge", Len(stack) # 1, stack' = Outer,
         UNCHANGED <<origin, parent, stamp>>
  PROVE  Lineal'
<1>1. Len(stack) \in Nat /\ Len(stack) - 1 \in Nat /\ Len(stack') = Len(stack) - 1
      /\ \A i \in 1 .. Len(stack) - 1 : stack'[i] = stack[i]
  BY CallIsRemoved, CallOfDeletion
<1>2. Lineal
  BY PastIsShared DEF PastIsShared
<1> DEFINE m == Len(stack) - 1
<1>3. m \in Nat /\ m <= Len(stack) /\ Len(stack') = m /\ \A i \in 1 .. m : stack'[i] = stack[i]
  BY <1>1
<1> HIDE DEF m
<1>4. \A k \in 1 .. Len(stack') : k <= m
  BY <1>3
<1> QED
  BY <1>1, <1>2, <1>3, <1>4, LinealStays

LEMMA SampleIsShared ==
  ASSUME LineageAssumption, LineageInv, PastIsShared, stack # <<>>, Call.what = "sample", Len(stack) # 1, ~dry, stack' = Outer,
         members' = [p \in Processes |-> members[p] \ {Call.id}],
         UNCHANGED <<origin, live, stamp, parent, dry, before>>
  PROVE  PastIsShared'
<1> DEFINE n == Len(stack)
           x == Call.id
<1>1. /\ LineageIntact /\ Orderly /\ Deleting /\ n \in Nat \ {0} /\ n \in 1 .. n
      /\ Call = stack[n] /\ IsSample(n) /\ x \in alive /\ stack \in Seq(Calls) /\ live \subseteq Processes
  BY CallOfDeletion, ObjectsAreObjects DEF IsProcess
<1>2. Lineal'
  BY LinealWithout
<1>3. Len(stack') = n - 1 /\ \A i \in 1 .. n - 1 : stack'[i] = stack[i]
  BY CallIsRemoved
<1>4. \A i \in 1 .. n - 1 : Follows(i)
  BY <1>1 DEF Deleting, Nested
<1>5. Lineal /\ InOrder
  BY PastIsShared DEF PastIsShared
<1>6. \A r \in live : members[r] \subseteq before[r]
  BY <1>1 DEF Deleting, Kept
<1> HIDE DEF n
<1>7. InOrder'
  <2> SUFFICES ASSUME NEW i \in 1 .. n - 1, NEW r \in live, Passed(i, r)'
               PROVE  LeftBehind(i, r)'
    BY <1>3 DEF InOrder
  <2>1. members'[r] = members[r] \ {x}
    BY <1>1
  <2>2. /\ IsSample(i) /\ stack[i].id \in members'[r] /\ r \notin stack[i].todo
        /\ i < n - 1 => stack'[i + 1].id # r
    BY <1>3 DEF Passed, IsSample
  <2>3. IsProcess(i + 1)
    BY <1>4, <2>2 DEF Follows
  <2>4. i + 1 # n
    BY <1>1, <2>3 DEF IsSample, IsProcess
  <2>5. i < n - 1 /\ i < n /\ i \in 1 .. n /\ i + 1 \in 1 .. n - 1
    BY <1>1, <2>4
  <2>6. stack'[i] = stack[i] /\ stack'[i + 1] = stack[i + 1]
    BY <1>3, <2>5
  <2>7. LeftBehind(i, r)
    BY <1>5, <2>1, <2>2, <2>5, <2>6 DEF InOrder, Passed, n
  <2>8. \A q \in stack[i].todo : Earlier(r, q)
    BY <2>7 DEF LeftBehind
  <2>9. Earlier(r, stack[i + 1].id)
    BY <2>5, <2>7 DEF LeftBehind, n
  <2>10. ASSUME members'[r] = {stack[i].id}
         PROVE  \E t \in before[r] : DescendsAfter(stack[i].id, t, r)
    <3>1. CASE x \in members[r]
      <4>1. DescendsAfter(stack[i].id, stack[n].id, r)
        BY <1>1, <1>5, <2>2, <2>5, <2>9 DEF Lineal, n
      <4> QED
        BY <1>1, <1>6, <3>1, <4>1
    <3>2. CASE x \notin members[r]
      BY <2>1, <2>7, <2>10, <3>2 DEF LeftBehind
    <3> QED
      BY <3>1, <3>2
  <2> QED
    BY <1>3, <2>6, <2>8, <2>9, <2>10, DescentStays DEF LeftBehind
<1> QED
  BY <1>2, <1>7 DEF PastIsShared

LEMMA ProcessIsShared ==
  ASSUME LineageAssumption, LineageInv, PastIsShared, stack # <<>>, Call.what = "process", Len(stack) # 1, ~dry, stack' = Outer,
         live' = live \ {Call.id}, members' = [members EXCEPT ![Call.id] = {}],
         UNCHANGED <<origin, stamp, parent, dry, before>>
  PROVE  PastIsShared'
<1> DEFINE n == Len(stack)
<1>1. /\ LineageIntact /\ Orderly /\ Deleting /\ n \in Nat \ {0} /\ n \in 1 .. n
      /\ Call = stack[n] /\ stack \in Seq(Calls) /\ members \in [Processes -> SUBSET alive] /\ live \subseteq Processes
  BY CallOfDeletion, ObjectsAreObjects
<1>2. Lineal'
  BY LinealWithout
<1>3. Len(stack') = n - 1 /\ \A i \in 1 .. n - 1 : stack'[i] = stack[i]
  BY CallIsRemoved
<1>4. InOrder
  BY PastIsShared DEF PastIsShared
<1> HIDE DEF n
<1>5. InOrder'
  <2> SUFFICES ASSUME NEW i \in 1 .. n - 1, NEW r \in live', Passed(i, r)'
               PROVE  LeftBehind(i, r)'
    BY <1>3 DEF InOrder
  <2>1. r \in live /\ r # Call.id /\ members'[r] = members[r]
    BY <1>1
  <2>2. /\ IsSample(i) /\ stack[i].id \in members[r] /\ r \notin stack[i].todo
        /\ i < n - 1 => stack'[i + 1].id # r
    BY <1>3, <2>1 DEF Passed, IsSample
  <2>3. i < n /\ i \in 1 .. n /\ (i + 1 = n \/ (i < n - 1 /\ i + 1 \in 1 .. n - 1))
    BY <1>1
  <2>4. stack'[i] = stack[i] /\ (i < n - 1 => stack'[i + 1] = stack[i + 1])
    BY <1>1, <1>3, <2>3
  <2>5. stack[i + 1].id # r
    BY <1>1, <2>1, <2>2, <2>3, <2>4
  <2>6. LeftBehind(i, r)
    BY <1>4, <2>1, <2>2, <2>3, <2>5 DEF InOrder, Passed, n
  <2> QED
    BY <1>3, <2>1, <2>3, <2>4, <2>6, DescentStays DEF LeftBehind, n
<1> QED
  BY <1>2, <1>5 DEF PastIsShared

(* A sample that goes leaves an orphan only if the others went before.     *)
LEMMA SampleLeavesOrphans ==
  ASSUME LineageAssumption, LineageInv, PastIsShared, stack # <<>>, Call.what = "sample", Call.todo = {}, ~dry,
         live' = live, members' = [p \in Processes |-> members[p] \ {Call.id}]
  PROVE  Orphaned
<1> DEFINE n == Len(stack)
<1>1. /\ LineageIntact /\ Deleting /\ n \in Nat /\ n \in 1 .. n
      /\ Call = stack[n] /\ IsSample(n) /\ live \subseteq Processes
  BY CallOfDeletion, ObjectsAreObjects DEF IsProcess
<1> SUFFICES ASSUME NEW p \in live, members'[p] = {}, members[p] # {}
             PROVE  \E s, t \in before[p] : DescendsAfter(s, t, p)
  BY DEF Orphaned
<1>2. members[p] = {stack[n].id}
  BY <1>1
<1>3. InOrder /\ members[p] \subseteq before[p]
  BY <1>1 DEF PastIsShared, Deleting, Kept
<1> HIDE DEF n
<1>4. ~(n < n)
  BY <1>1
<1>5. Passed(n, p)
  BY <1>1, <1>2, <1>4 DEF Passed, n
<1>6. LeftBehind(n, p)
  BY <1>1, <1>3, <1>5 DEF InOrder, n
<1> QED
  BY <1>2, <1>3, <1>6 DEF LeftBehind

(* The other steps leave a sample with every process that had one.         *)
LEMMA CreatedKeeps ==
  ASSUME LineageAssumption, LineageIntact, NEW news, Create(news), NEW p \in live
  PROVE  members'[p] = members[p]
<1>1. live \subseteq 1 .. made /\ made \in Nat /\ p \in Processes
  BY ObjectsAreObjects, StampsAreNumbers
<1>2. p \notin made + 1 .. made + Len(news)
  BY <1>1
<1> QED
  BY <1>1, <1>2 DEF Create

LEMMA RequestsLeaveNoOrphans ==
  ASSUME LineageAssumption, LineageInv, AtOnce
  PROVE  Orphaned
<1>1. LineageIntact /\ Orderly /\ members \in [Processes -> SUBSET alive] /\ made \in Nat
  BY ObjectsAreObjects, StampsAreNumbers DEF LineageInv
<1>2. live' \subseteq Processes
  <2>1. TypeOK' /\ MaxProcs \in Nat
    BY RequestsKeepLineage, Bounds DEF LineageInv, LineageIntact
  <2>2. live' \subseteq 1 .. made' /\ made' \in 0 .. MaxProcs
    BY <2>1 DEF TypeOK
  <2> QED
    BY <2>1, <2>2 DEF Processes
<1>3. \A news : Create(news) => \A p \in live : members'[p] = members[p]
  BY <1>1, CreatedKeeps
<1>4. ASSUME AddSample
      PROVE  \A p \in live : members'[p] = members[p]
  BY <1>4 DEF AddSample, procs
<1>5. ASSUME NEW k, NEW ss, NEW t, AddPhysical(k, ss, t) \/ AddResult(ss, t)
      PROVE  \A p \in live : members'[p] = members[p]
  BY <1>3, <1>5 DEF AddPhysical, AddResult
<1>6. ASSUME NEW q, NEW ss \in (SUBSET alive) \ {{}}, NEW t, EditMeasurement(q, ss, t)
      PROVE  \A p \in live : members[p] # {} => members'[p] # {}
  BY <1>1, <1>6, ObjectsAreObjects DEF EditMeasurement
<1>7. ASSUME NEW q, NEW t, EditDeposition(q, t)
      PROVE  \A p \in live : members'[p] = members[p]
  BY <1>7 DEF EditDeposition
<1>8. ASSUME NEW s, Kill(s)
      PROVE  \A p \in live : members'[p] = members[p]
  BY <1>3, <1>8 DEF Kill
<1>9. ASSUME NEW s, NEW n, NEW complete, Split(s, n, complete)
      PROVE  \A p \in live : members'[p] = members[p]
  BY <1>3, <1>9 DEF Split
<1>10. ASSUME NEW q, NEW n, NEW complete, Resplit(q, n, complete)
       PROVE  \A p \in live : members'[p] = members[p]
  <2> SUFFICES ASSUME NEW p \in live
               PROVE  members'[p] = members[p]
    OBVIOUS
  <2>1. p \in Processes /\ p # made + 1
    <3>1. p \in Processes /\ p \in 1 .. made
      BY <1>1, ObjectsAreObjects DEF LineageIntact, TypeOK
    <3> QED
      BY <1>1, <3>1
  <2>2. members' = [r \in Processes |-> IF r \in (IF complete THEN {made + 1} ELSE {}) THEN {parent[q]} ELSE members[r]]
    BY <1>10 DEF Resplit
  <2> QED
    BY <2>1, <2>2
<1>11. ASSUME NEW q, NEW s, NEW n, SplitAfterDeposition(q, s, n)
       PROVE  \A p \in live : members'[p] = members[p]
  BY <1>3, <1>11 DEF SplitAfterDeposition
<1>12. \A p \in live : members[p] # {} => members'[p] # {}
  BY <1>4, <1>5, <1>6, <1>7, <1>8, <1>9, <1>10, <1>11 DEF AtOnce
<1> QED
  BY <1>1, <1>2, <1>12 DEF Orphaned, Orderly

LEMMA CallsArePassed ==
  ASSUME LineageAssumption, LineageInv, PastIsShared, VisitProcess \/ VisitPiece
  PROVE  PastIsShared' /\ Orphaned
<1>1. Orphaned
  BY DEF VisitProcess, VisitPiece, Orphaned, procs
<1>2. CASE VisitProcess
  <2>1. stack # <<>> /\ Call.what = "sample" /\ UNCHANGED <<now, samples, procs, before>>
    BY <1>2 DEF VisitProcess
  <2>2. PICK p \in Call.todo :
          /\ \A q \in Call.todo \ {p} : Earlier(p, q)
          /\ IF ~IsOnlySample(p)
             THEN stack' = Visited(p) /\ UNCHANGED <<dry, announced>>
             ELSE IF dry /\ ~Deletable(p)
             THEN stack' = <<>> /\ dry' = FALSE /\ announced' = {}
             ELSE /\ stack' = Append(Visited(p), ProcessCall(p))
                  /\ announced' = announced \cup IF dry THEN {Process(p)} ELSE {}
                  /\ UNCHANGED dry
    BY <1>2 DEF VisitProcess
  <2>3. CASE ~IsOnlySample(p)
    BY <1>1, <2>1, <2>2, <2>3, PassedIsShared
  <2>4. CASE IsOnlySample(p) /\ dry /\ ~Deletable(p)
    BY <1>1, <2>2, <2>4 DEF PastIsShared
  <2>5. CASE IsOnlySample(p) /\ ~(dry /\ ~Deletable(p))
    <3>1. stack' = Append(Visited(p), ProcessCall(p)) /\ UNCHANGED dry
      BY <2>2, <2>5
    <3>2. LineageIntact /\ Orderly /\ p \in Processes
      BY <2>1, CallOfDeletion
    <3>3. p \in live
      <4>1. \E y \in Samples : members[p] = {y}
        BY <2>5, <3>2, CountTells DEF LineageIntact
      <4> QED
        BY <3>2, <4>1 DEF Orderly
    <3>4. ProcessCall(p) \in Calls
      BY <3>2, <3>3, CallsFit
    <3> QED
      BY <1>1, <2>1, <3>1, <3>4, EnteredIsShared
  <2> QED
    BY <2>3, <2>4, <2>5
<1>3. CASE VisitPiece
  <2>1. /\ stack # <<>> /\ Call.what = "process" /\ UNCHANGED <<now, samples, procs, dry, before>>
        /\ \E x \in Call.todo : stack' = Append(Visited(x), SampleCall(x, ~dry))
    BY <1>3 DEF VisitPiece
  <2> QED
    BY <1>1, <2>1, PieceIsShared
<1> QED
  BY <1>2, <1>3

LEMMA SampleCallFits ==
  ASSUME LineageAssumption, LineageIntact, Orderly, NEW s \in alive
  PROVE  \E c \in Calls : c = SampleCall(s, TRUE) /\ c.what = "sample" /\ c.todo = ProcessesOf(c.id)
<1> DEFINE c == SampleCall(s, TRUE)
<1>1. c \in Calls /\ c.what = "sample" /\ c.id = s /\ c.todo = ProcessesOf(s)
  BY CallsFit
<1>2. c = SampleCall(s, TRUE)
  OBVIOUS
<1> HIDE DEF c
<1> QED
  BY <1>1, <1>2

LEMMA DryRunIsShared ==
  ASSUME LineageAssumption, LineageInv, stack # <<>>, Call.what # "merge", dry, EndDryRun
  PROVE  PastIsShared'
<1>1. Call.what \in {"sample", "process"}
  BY CallOfDeletion
<1>2. UNCHANGED <<live, members>>
  BY DEF EndDryRun, procs
<1>3. LineageIntact /\ Orderly
  BY CallOfDeletion
<1>4. CASE Call.what = "sample"
  <2>1. stack' = <<SampleCall(Call.id, TRUE)>>
    BY <1>4 DEF EndDryRun
  <2>2. PICK c \in Calls : stack' = <<c>> /\ c.what = "sample" /\ c.todo = ProcessesOf(c.id)
    <3>1. Call.id \in alive
      BY <1>4, CallOfDeletion
    <3> QED
      BY <1>3, <2>1, <3>1, SampleCallFits
  <2>3. c.todo = ProcessesOf(c.id)'
    BY <1>2, <2>2 DEF ProcessesOf
  <2> QED
    BY <2>2, <2>3, FirstCallIsShared
<1>5. CASE Call.what = "process"
  <2>1. stack' = <<ProcessCall(Call.id)>>
    BY <1>5 DEF EndDryRun
  <2>2. PICK c \in Calls : stack' = <<c>> /\ c.what = "process"
    <3>1. Call.id \in live
      BY <1>5, CallOfDeletion
    <3> QED
      BY <1>3, <2>1, <3>1, CallsFit
  <2> QED
    BY <2>2, FirstCallIsShared
<1> QED
  BY <1>1, <1>4, <1>5

LEMMA ReturnIsShared ==
  ASSUME LineageAssumption, LineageInv, PastIsShared, Return
  PROVE  PastIsShared' /\ Orphaned
<1>1. stack # <<>> /\ Call.what \in {"sample", "process"} /\ Call.todo = {} /\ Call.what # "merge"
  BY DEF Return
<1>2. CASE dry /\ Len(stack) = 1
  <2>1. EndDryRun
    BY <1>2 DEF Return
  <2>2. Orphaned
    BY <2>1 DEF EndDryRun, Orphaned, procs
  <2> QED
    BY <1>1, <1>2, <2>1, <2>2, DryRunIsShared
<1>3. CASE ~(dry /\ Len(stack) = 1)
  <2>1. stack' = Outer /\ UNCHANGED <<origin, stamp, parent, dry>>
        /\ before' = IF Len(stack) = 1 THEN members' ELSE before
    BY <1>3 DEF Return
  <2>2. CASE dry
    <3>1. UNCHANGED <<live, members>>
      BY <1>3, <2>2 DEF Return
    <3>2. Lineal'
      BY <1>1, <1>3, <2>1, <2>2, LinealWithout
    <3> QED
      BY <2>1, <2>2, <3>1, <3>2 DEF PastIsShared, Orphaned
  <2>3. CASE ~dry /\ Call.what = "sample"
    <3>1. members' = [p \in Processes |-> members[p] \ {Call.id}] /\ live' = live
      BY <1>3, <2>3 DEF Return
    <3>2. Orphaned
      BY <1>1, <2>3, <3>1, SampleLeavesOrphans
    <3>3. CASE Len(stack) = 1
      BY <1>1, <2>1, <3>2, <3>3, Popped, CallOfDeletion DEF PastIsShared
    <3>4. CASE Len(stack) # 1
      BY <1>1, <2>1, <2>3, <3>1, <3>2, <3>4, SampleIsShared
    <3> QED
      BY <3>3, <3>4
  <2>4. CASE ~dry /\ Call.what = "process"
    <3>1. members' = [members EXCEPT ![Call.id] = {}] /\ live' = live \ {Call.id}
      BY <1>3, <2>4 DEF Return
    <3>2. Orphaned
      <4>1. \A p \in live' : p \in Processes /\ p # Call.id
        BY <1>1, <3>1, CallOfDeletion, ObjectsAreObjects
      <4>2. members \in [Processes -> SUBSET alive]
        BY <1>1, CallOfDeletion, ObjectsAreObjects
      <4> QED
        BY <3>1, <4>1, <4>2 DEF Orphaned
    <3>3. CASE Len(stack) = 1
      BY <1>1, <2>1, <3>2, <3>3, Popped, CallOfDeletion DEF PastIsShared
    <3>4. CASE Len(stack) # 1
      BY <1>1, <2>1, <2>4, <3>1, <3>2, <3>4, ProcessIsShared
    <3> QED
      BY <3>3, <3>4
  <2> QED
    BY <1>1, <2>2, <2>3, <2>4
<1> QED
  BY <1>2, <1>3

LEMMA DeletionIsShared ==
  ASSUME LineageAssumption, LineageInv, (\E s \in alive : DeleteSample(s)) \/ (\E p \in Processes : DeleteProcess(p))
  PROVE  PastIsShared' /\ Orphaned
<1>1. PICK c, object : Begin(c, object) /\ (\/ \E s \in alive : c = SampleCall(s, FALSE)
                                            \/ \E p \in live : c = ProcessCall(p))
  BY DEF DeleteSample, DeleteProcess
<1>2. stack' = <<c>> /\ dry' /\ UNCHANGED <<live, members>>
  BY <1>1 DEF Begin, procs
<1>3. c \in Calls
  <2>1. LineageIntact /\ Orderly
    BY DEF LineageInv
  <2>2. (\A s \in alive : SampleCall(s, FALSE) \in Calls) /\ (\A p \in live : ProcessCall(p) \in Calls)
    BY <2>1, CallsFit
  <2> QED
    BY <1>1, <2>2
<1> QED
  BY <1>2, <1>3, FirstCallIsShared DEF Orphaned

LEMMA MergeIsShared ==
  ASSUME LineageAssumption, LineageInv, (\E a, b \in alive : Merge(a, b)) \/ MergeProcess \/ EndMerge
  PROVE  PastIsShared' /\ Orphaned
<1>1. ASSUME NEW c, stack' = <<c>>, c.what = "merge"
      PROVE  PastIsShared'
  <2>1. Call'.what = "merge"
    BY <1>1 DEF Call
  <2> QED
    BY <2>1 DEF PastIsShared
<1>2. CASE \E a, b \in alive : Merge(a, b)
  <2>1. \E c : stack' = <<c>> /\ c.what = "merge"
    BY <1>2 DEF Merge
  <2>2. Orphaned
    BY <1>2 DEF Merge, Orphaned, procs
  <2> QED
    BY <1>1, <2>1, <2>2
<1>3. CASE MergeProcess \/ EndMerge
  <2>1. stack # <<>> /\ Call.what = "merge" /\ live' = live
    <3>1. MergeProcess => stack # <<>> /\ Call.what = "merge" /\ live' = live
      BY DEF MergeProcess
    <3>2. EndMerge => stack # <<>> /\ Call.what = "merge" /\ live' = live
      BY DEF EndMerge, procs
    <3> QED
      BY <1>3, <3>1, <3>2
  <2>2. LineageIntact /\ Orderly /\ Merging /\ Call \in Calls
    BY <2>1, StackHasTop DEF LineageInv, LineageIntact, TypeOK
  <2>3. Call.from \in alive /\ members \in [Processes -> SUBSET alive] /\ live \subseteq Processes
    BY <2>2, ObjectsAreObjects DEF Merging
  <2>4. CASE MergeProcess
    <3>1. PICK x, s : /\ members' = processes_add(x, s)
                      /\ stack' = <<[Call EXCEPT !.to = s, !.todo = @ \ {x}]>>
      BY <2>4 DEF MergeProcess
    <3>2. Orphaned
      BY <2>1, <2>3, <3>1 DEF Orphaned, processes_add
    <3>3. [Call EXCEPT !.to = s, !.todo = @ \ {x}].what = "merge"
      <4>1. Call \in [what : {"merge"}, from : Samples, to : Samples, todo : SUBSET Processes]
        BY <2>1, <2>2, CallHasKind
      <4> QED
        BY <4>1
    <3> QED
      BY <1>1, <3>1, <3>2, <3>3
  <2>5. CASE EndMerge
    <3>1. stack' = <<SampleCall(Call.from, TRUE)>> /\ UNCHANGED <<live, members>>
      BY <2>5 DEF EndMerge, procs
    <3>2. PICK c \in Calls : stack' = <<c>> /\ c.what = "sample" /\ c.todo = ProcessesOf(c.id)
      BY <2>2, <2>3, <3>1, SampleCallFits
    <3>3. c.todo = ProcessesOf(c.id)'
      BY <3>1, <3>2 DEF ProcessesOf
    <3> QED
      BY <3>1, <3>2, <3>3, FirstCallIsShared DEF Orphaned
  <2> QED
    BY <1>3, <2>4, <2>5
<1> QED
  BY <1>2, <1>3

LEMMA OrphanStep ==
  ASSUME LineageAssumption, LineageInv, PastIsShared, [Next]_vars
  PROVE  PastIsShared' /\ Orphaned
<1>1. CASE AtOnce
  <2>1. stack' = <<>>
    BY <1>1, RequestsOnlyAdd
  <2> QED
    BY <1>1, <2>1, RequestsLeaveNoOrphans DEF PastIsShared
<1>2. CASE (\E s \in alive : DeleteSample(s)) \/ (\E p \in Processes : DeleteProcess(p))
  BY <1>2, DeletionIsShared
<1>3. CASE VisitProcess \/ VisitPiece
  BY <1>3, CallsArePassed
<1>4. CASE Return
  BY <1>4, ReturnIsShared
<1>5. CASE (\E a, b \in alive : Merge(a, b)) \/ MergeProcess \/ EndMerge
  BY <1>5, MergeIsShared
<1>6. CASE UNCHANGED vars
  <2>1. UNCHANGED <<origin, live, stamp, parent, members, stack, dry, before>>
    BY <1>6 DEF vars, samples, procs, calls
  <2>2. PastIsShared'
    <3>1. Call' = Call /\ \A i : IsSample(i)' <=> IsSample(i)
      BY <2>1 DEF Call, IsSample
    <3>2. Lineal' <=> Lineal
      BY <2>1, <3>1, DescentStays DEF Lineal
    <3>3. InOrder' <=> InOrder
      <4>1. \A i, p : (Passed(i, p)' <=> Passed(i, p)) /\ (LeftBehind(i, p)' <=> LeftBehind(i, p))
        BY <2>1, <3>1, DescentStays DEF Passed, LeftBehind
      <4> QED
        BY <2>1, <4>1 DEF InOrder
    <3> QED
      BY <2>1, <3>1, <3>2, <3>3 DEF PastIsShared
  <2> QED
    BY <2>1, <2>2 DEF Orphaned
<1> QED
  BY <1>1, <1>2, <1>3, <1>4, <1>5, <1>6 DEF Next

(* A deletion leaves a physical process without any sample only if one of  *)
(* its samples has been split later into another one of them: the form for *)
(* processes accepts such samples, the loops of delete() do not see it.    *)
THEOREM OrphansHadASplit == Spec => OrphansPredateASplit
<1>1. Init => LineageInv /\ PastIsShared
  BY LineageAssumption, LineageBegins DEF Init, PastIsShared
<1>2. LineageInv /\ PastIsShared /\ [Next]_vars => (LineageInv /\ PastIsShared)'
  BY LineageAssumption, LineageStep, OrphanStep
<1>3. LineageInv /\ PastIsShared /\ [Next]_vars =>
        [\A p \in live' : kind'[p] \in Physical /\ members'[p] = {} /\ members[p] # {} =>
           \E s, t \in before[p] : DescendsAfter(s, t, p)]_vars
  BY LineageAssumption, OrphanStep DEF Orphaned
<1> QED
  BY <1>1, <1>2, <1>3, PTL DEF Spec, OrphansPredateASplit
=============================================================================
