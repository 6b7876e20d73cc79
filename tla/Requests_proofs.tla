--------------------------- MODULE Requests_proofs ---------------------------
(***************************************************************************)
(* Requests of any number of users that overlap.                           *)
(*                                                                         *)
(* Task lists, for any number of tasks: operators keep their tasks, have   *)
(* the samples they need for them, and only they connect processes, and    *)
(* only their own.                                                         *)
(*                                                                         *)
(* Newsfeed, for any number of samples and topics: everybody whom a change *)
(* concerns hears of it, and once.                                         *)
(*                                                                         *)
(* Accounts, for any number of users and topics: permissions fit topics,   *)
(* and clearances data sheets.                                             *)
(*                                                                         *)
(* Names, for any number of samples and any formats: names lead to samples *)
(* that have borne them, free numbers are found, and aliases are hidden    *)
(* only by chance.                                                         *)
(***************************************************************************)
EXTENDS Requests, Integers, SequenceTheorems, FiniteSetTheorems, WellFoundedInduction, TLAPS

-----------------------------------------------------------------------------
(* Tasks.                                                                  *)
(* What a row says of the past: who is its operator has been it, and so    *)
(* has whoever carried out the process.                                    *)
Recalls(row, t) ==
  /\ row.operator \in been[t] \cup {Nobody}
  /\ row.finished_process # Nobody => OperatorOf[row.finished_process] \in been[t]

(* A request that goes on knows what was true when it began, and writes    *)
(* what its user was allowed to make out of that.                          *)
Allowed(u) ==
  LET e == desk[u]
  IN  /\ e.id <= made
      /\ Recalls(e.old, e.id)
      /\ e.new.finished_process # Nobody => OperatorOf[e.new.finished_process] \in been[e.id]
      /\ e.old.status # "new" /\ u # e.old.operator => e.new.operator = e.old.operator
      /\ e.bound => e.sample_list # {}

TasksInv ==
  /\ Worked!TypeOK
  /\ \A t \in Worked!Ids : tasks[t] # Worked!Missing => Recalls(tasks[t], t)
  /\ Worked!ConnectedByItsOperator
  /\ \A t \in Worked!Ids : \A o \in been[t] : samples[t] \subseteq my[o] \cup late[t]
  /\ \A t \in Worked!Ids : t > made => been[t] = {}
  /\ \A t \in Worked!Ids : t <= made /\ tasks[t] = Worked!Missing => t \in removed
  /\ Worked!EmptyOnlyIfRevived
  /\ \A u \in Users : desk[u] # Worked!Idle => Allowed(u)

LEMMA RowsExist ==
  ASSUME NEW row \in Worked!Row
  PROVE  row # Worked!Missing
<1>1. "customer" \in DOMAIN row
  BY DEF Worked!Row
<1>2. DOMAIN Worked!Missing = {"missing"}
  BY DEF Worked!Missing
<1> QED
  BY <1>1, <1>2

LEMMA EditsGoOn ==
  ASSUME NEW e \in Worked!Edits
  PROVE  e # Worked!Idle
<1>1. "id" \in DOMAIN e
  BY DEF Worked!Edits
<1>2. DOMAIN Worked!Idle = {"idle"}
  BY DEF Worked!Idle
<1> QED
  BY <1>1, <1>2

LEMMA TaskTypesStep ==
  ASSUME Worked!TasksAssumption, TasksInv, [Worked!Next]_(Worked!vars)
  PROVE  Worked!TypeOK'
<1> Worked!TypeOK
  BY DEF TasksInv
<1> USE DEF Worked!TasksAssumption, Worked!TypeOK, Worked!history
<1>1. ASSUME NEW u \in Users, NEW preset \in AllSamples, NEW ss \in Worked!Selectable(u, {preset}), Worked!Create(u, ss)
      PROVE  Worked!TypeOK'
  <2> DEFINE row == [customer |-> u, status |-> "new", operator |-> Nobody, finished_process |-> Nobody]
  <2>1. row \in Worked!Row
    BY DEF Worked!Row, Worked!Statuses
  <2>2. row # Worked!Missing
    BY <2>1, RowsExist
  <2>3. ss \subseteq AllSamples /\ made + 1 \in Worked!Ids /\ made' \in 0 .. MaxTasks
    BY <1>1 DEF Worked!Selectable, Worked!Create, Worked!Ids
  <2>4. tasks' = [tasks EXCEPT ![made + 1] = row]
    BY <1>1 DEF Worked!Create
  <2> HIDE DEF row
  <2> QED
    BY <1>1, <2>1, <2>2, <2>3, <2>4 DEF Worked!Create, Worked!Ids
<1>2. ASSUME NEW u \in Users, NEW t \in Worked!Ids, Worked!Open(u, t)
      PROVE  Worked!TypeOK'
  <2>1. PICK new \in Worked!Cleaned(u, tasks[t]), ss \in SUBSET AllSamples :
          desk' = [desk EXCEPT ![u] = [id |-> t, old |-> tasks[t], new |-> new,
                                       bound |-> u = tasks[t].customer /\ tasks[t].status = "new", sample_list |-> ss]]
    <3>1. Worked!Selectable(u, samples[t]) \subseteq SUBSET AllSamples
      BY DEF Worked!Selectable
    <3> QED
      BY <1>2, <3>1 DEF Worked!Open
  <2>2. tasks[t] \in Worked!Row
    BY <1>2 DEF Worked!Open
  <2>3. new \in Worked!Row
    BY <2>1, <2>2 DEF Worked!Cleaned, Worked!Row, Worked!EligibleOperators, Worked!Offered
  <2>4. [id |-> t, old |-> tasks[t], new |-> new,
         bound |-> u = tasks[t].customer /\ tasks[t].status = "new", sample_list |-> ss] \in Worked!Edits
    BY <2>2, <2>3 DEF Worked!Edits
  <2> QED
    BY <1>2, <2>1, <2>4 DEF Worked!Open
<1>3. ASSUME NEW u \in Users, Worked!Save(u)
      PROVE  Worked!TypeOK'
  <2>1. desk[u] \in Worked!Edits
    BY <1>3 DEF Worked!Save
  <2>2. desk[u].new # Worked!Missing
    BY <2>1, RowsExist DEF Worked!Edits
  <2>3. /\ desk[u].id \in Worked!Ids /\ desk[u].new \in Worked!Row /\ desk[u].sample_list \in SUBSET AllSamples
        /\ desk[u].new.operator \in Users \cup {Nobody}
    BY <2>1 DEF Worked!Edits, Worked!Row
  <2>4. /\ samples' \in [Worked!Ids -> SUBSET AllSamples]
        /\ tasks' \in [Worked!Ids -> Worked!Row \cup {Worked!Missing}]
        /\ \A t \in Worked!Ids \ {desk[u].id} : tasks'[t] = tasks[t] /\ samples'[t] = samples[t]
        /\ tasks'[desk[u].id] # Worked!Missing
    BY <1>3, <2>2, <2>3 DEF Worked!Save
  <2>5. my' \in [Users -> SUBSET AllSamples]
    BY <1>3, <2>3, <2>4 DEF Worked!Save, Worked!HandOver
  <2>6. /\ been' \in [Worked!Ids -> SUBSET Users] /\ late' \in [Worked!Ids -> SUBSET AllSamples]
        /\ desk' \in [Users -> Worked!Edits \cup {Worked!Idle}]
    BY <1>3, <2>3 DEF Worked!Save
  <2>7. desk[u].id <= made
    BY <1>3 DEF Worked!Save, TasksInv, Allowed
  <2> QED
    BY <1>3, <2>4, <2>5, <2>6, <2>7 DEF Worked!Save
<1>4. ASSUME NEW u \in Users, Worked!SaveFails(u)
      PROVE  Worked!TypeOK'
  BY <1>4 DEF Worked!SaveFails
<1>5. ASSUME NEW u \in Users, NEW t \in Worked!Ids, Worked!remove(u, t)
      PROVE  Worked!TypeOK'
  BY <1>5 DEF Worked!remove, Worked!Discard
<1>6. ASSUME NEW p \in Processes, Worked!AddProcess(p)
      PROVE  Worked!TypeOK'
  BY <1>6 DEF Worked!AddProcess
<1>7. ASSUME NEW p \in Processes, Worked!DeleteProcess(p)
      PROVE  Worked!TypeOK'
  BY <1>7 DEF Worked!DeleteProcess, Worked!Discard, Worked!ConnectedWith
<1>8. CASE UNCHANGED Worked!vars
  BY <1>8 DEF Worked!vars
<1> QED
  BY <1>1, <1>2, <1>3, <1>4, <1>5, <1>6, <1>7, <1>8 DEF Worked!Next

(* Processes, operators and samples only become more in what is recalled.  *)
LEMMA RecallsMore ==
  ASSUME Worked!TasksAssumption, Worked!TypeOK, Worked!TypeOK', made <= made',
         \A t \in Worked!Ids : been[t] \subseteq been'[t],
         NEW u \in Users, desk'[u] = desk[u], desk[u] # Worked!Idle, Allowed(u)
  PROVE  Allowed(u)'
<1>1. desk[u].id \in Worked!Ids /\ desk[u] \in Worked!Edits
  BY DEF Worked!TypeOK, Worked!Edits
<1>2. been[desk[u].id] \subseteq been'[desk[u].id]
  BY <1>1
<1>3. desk[u].id <= made'
  BY <1>1 DEF Allowed, Worked!TypeOK, Worked!TasksAssumption, Worked!Ids
<1>4. Recalls(desk[u].old, desk[u].id)'
  BY <1>2 DEF Allowed, Recalls
<1> QED
  BY <1>2, <1>3, <1>4 DEF Allowed

LEMMA TaskIsMade ==
  ASSUME Worked!TasksAssumption, TasksInv, Worked!TypeOK',
         NEW u \in Users, NEW preset \in AllSamples, NEW ss \in Worked!Selectable(u, {preset}), Worked!Create(u, ss)
  PROVE  TasksInv'
<1> DEFINE n == made + 1
           row == [customer |-> u, status |-> "new", operator |-> Nobody, finished_process |-> Nobody]
<1>1. /\ n \in Worked!Ids /\ made' = n /\ n > made
      /\ tasks' = [tasks EXCEPT ![n] = row] /\ samples' = [samples EXCEPT ![n] = ss]
      /\ UNCHANGED <<my, recorded, desk, been, late, removed>>
      /\ ss # {}
  <2>1. made \in Nat /\ MaxTasks \in Nat /\ made < MaxTasks
    BY DEF Worked!Create, TasksInv, Worked!TypeOK, Worked!TasksAssumption
  <2>2. ss # {}
    BY DEF Worked!Selectable
  <2>3. n \in Worked!Ids /\ n > made
    BY <2>1 DEF Worked!Ids
  <2> QED
    BY <2>2, <2>3 DEF Worked!Create, Worked!history
<1>2. /\ tasks'[n] = row /\ samples'[n] = ss
      /\ \A t \in Worked!Ids \ {n} : tasks'[t] = tasks[t] /\ samples'[t] = samples[t]
  BY <1>1 DEF TasksInv, Worked!TypeOK
<1>3. row.operator = Nobody /\ row.finished_process = Nobody
  OBVIOUS
<1>4. row # Worked!Missing
  <2>1. row \in Worked!Row
    BY DEF Worked!Row, Worked!Statuses, Worked!TasksAssumption
  <2> QED
    BY <2>1, RowsExist
<1> HIDE DEF row, n
<1>5. \A t \in Worked!Ids : tasks'[t] # Worked!Missing => Recalls(tasks[t], t)'
  BY <1>1, <1>2, <1>3 DEF TasksInv, Recalls
<1>6. Worked!ConnectedByItsOperator'
  BY <1>1, <1>2, <1>3 DEF TasksInv, Worked!ConnectedByItsOperator
<1>7. \A t \in Worked!Ids : \A o \in been'[t] : samples'[t] \subseteq my'[o] \cup late'[t]
  BY <1>1, <1>2 DEF TasksInv
<1>8. /\ \A t \in Worked!Ids : t > made' => been'[t] = {}
      /\ \A t \in Worked!Ids : t <= made' /\ tasks'[t] = Worked!Missing => t \in removed'
  BY <1>1, <1>2, <1>4 DEF TasksInv, Worked!TypeOK, n, Worked!Ids
<1>9. Worked!EmptyOnlyIfRevived'
  BY <1>1, <1>2 DEF TasksInv, Worked!EmptyOnlyIfRevived
<1>10. \A v \in Users : desk'[v] # Worked!Idle => Allowed(v)'
  BY <1>1, RecallsMore DEF TasksInv, Worked!TypeOK, n
<1> QED
  BY <1>5, <1>6, <1>7, <1>8, <1>9, <1>10 DEF TasksInv

LEMMA TaskIsOpened ==
  ASSUME Worked!TasksAssumption, TasksInv, Worked!TypeOK', NEW u \in Users, NEW t \in Worked!Ids, Worked!Open(u, t)
  PROVE  TasksInv'
<1>1. /\ desk[u] = Worked!Idle /\ tasks[t] # Worked!Missing
      /\ UNCHANGED <<made, tasks, samples, my, recorded, been, late, removed>>
  BY DEF Worked!Open, Worked!history
<1> DEFINE bound == u = tasks[t].customer /\ tasks[t].status = "new"
<1>2. PICK new \in Worked!Cleaned(u, tasks[t]), ss \in IF bound THEN Worked!Selectable(u, samples[t]) ELSE {{}} :
        desk' = [desk EXCEPT ![u] = [id |-> t, old |-> tasks[t], new |-> new, bound |-> bound, sample_list |-> ss]]
  BY DEF Worked!Open
<1>3. bound => ss # {}
  <2>1. ASSUME bound
        PROVE  ss # {}
    <3>1. ss \in Worked!Selectable(u, samples[t])
      BY <1>2, <2>1
    <3> QED
      BY <3>1 DEF Worked!Selectable
  <2> QED
    BY <2>1
<1>4. Recalls(tasks[t], t)
  BY <1>1 DEF TasksInv
<1>5. new.finished_process # Nobody => OperatorOf[new.finished_process] \in been[t]
  <2>1. new.finished_process \in Worked!Offered(u, tasks[t])
    BY <1>2 DEF Worked!Cleaned
  <2>2. ASSUME new.finished_process # Nobody, new.finished_process # tasks[t].finished_process
        PROVE  u = tasks[t].operator /\ OperatorOf[new.finished_process] = u
    BY <2>1, <2>2 DEF Worked!Offered
  <2>3. u # Nobody
    BY DEF Worked!TasksAssumption
  <2> QED
    BY <1>4, <2>2, <2>3 DEF Recalls
<1>6. tasks[t].status # "new" /\ u # tasks[t].operator => new.operator = tasks[t].operator
  <2>1. tasks[t].status \in Worked!Statuses
    BY <1>1 DEF TasksInv, Worked!TypeOK, Worked!Row
  <2>2. \A f \in Worked!fixed_fields(u, tasks[t]) : new[f] = tasks[t][f]
    BY <1>2 DEF Worked!Cleaned
  <2>3. tasks[t].status = "accepted" /\ u # tasks[t].operator => "operator" \in Worked!fixed_fields(u, tasks[t])
    BY DEF Worked!fixed_fields, Worked!Fields
  <2>4. tasks[t].status = "finished" => "operator" \in Worked!fixed_fields(u, tasks[t])
    BY DEF Worked!fixed_fields
  <2>5. new["operator"] = new.operator /\ tasks[t]["operator"] = tasks[t].operator
    OBVIOUS
  <2> QED
    BY <2>1, <2>2, <2>3, <2>4, <2>5 DEF Worked!Statuses
<1>7. t <= made
  BY <1>1 DEF TasksInv, Worked!TypeOK
<1>8. desk'[u] = [id |-> t, old |-> tasks[t], new |-> new, bound |-> bound, sample_list |-> ss]
  BY <1>2 DEF TasksInv, Worked!TypeOK
<1> HIDE DEF bound
<1>9. Allowed(u)'
  BY <1>1, <1>3, <1>4, <1>5, <1>6, <1>7, <1>8 DEF Allowed, Recalls
<1>10. \A v \in Users \ {u} : desk'[v] = desk[v]
  BY <1>2 DEF TasksInv, Worked!TypeOK
<1>11. \A v \in Users : desk'[v] # Worked!Idle => Allowed(v)'
  BY <1>1, <1>9, <1>10, RecallsMore DEF TasksInv, Worked!TypeOK
<1> QED
  BY <1>1, <1>11 DEF TasksInv, Recalls, Worked!ConnectedByItsOperator, Worked!EmptyOnlyIfRevived

LEMMA TaskIsSaved ==
  ASSUME Worked!TasksAssumption, TasksInv, Worked!TypeOK', NEW u \in Users, Worked!Save(u)
  PROVE  TasksInv' /\ Worked!LeavesItsOperator
<1> DEFINE i == desk[u].id
           new == desk[u].new
           old == desk[u].old
           ss == desk[u].sample_list
<1>1. desk[u] # Worked!Idle /\ Allowed(u) /\ desk[u] \in Worked!Edits
  BY DEF Worked!Save, TasksInv, Worked!TypeOK
<1>2. /\ i \in Worked!Ids /\ new \in Worked!Row /\ new # Worked!Missing /\ desk[u].bound \in BOOLEAN
      /\ new.operator \in Users \cup {Nobody}
  BY <1>1, RowsExist DEF Worked!Edits, Worked!Row
<1>3. /\ tasks' = [tasks EXCEPT ![i] = new]
      /\ samples' = [samples EXCEPT ![i] = IF desk[u].bound THEN ss ELSE @]
      /\ my' = Worked!HandOver(desk[u], samples'[i])
      /\ desk' = [desk EXCEPT ![u] = Worked!Idle]
      /\ been' = [been EXCEPT ![i] = @ \cup ({new.operator} \ {Nobody})]
      /\ late' = [late EXCEPT ![i] = IF desk[u].bound /\ been[i] # {} THEN @ \cup ss ELSE @]
      /\ new.finished_process \in recorded \cup {Nobody}
      /\ UNCHANGED <<made, recorded, removed>>
  BY DEF Worked!Save
<1>4. /\ tasks'[i] = new
      /\ samples'[i] = IF desk[u].bound THEN ss ELSE samples[i]
      /\ been'[i] = been[i] \cup ({new.operator} \ {Nobody})
      /\ late'[i] = IF desk[u].bound /\ been[i] # {} THEN late[i] \cup ss ELSE late[i]
      /\ desk'[u] = Worked!Idle
  <2>1. /\ tasks \in [Worked!Ids -> Worked!Row \cup {Worked!Missing}]
        /\ samples \in [Worked!Ids -> SUBSET AllSamples] /\ desk \in [Users -> Worked!Edits \cup {Worked!Idle}]
        /\ been \in [Worked!Ids -> SUBSET Users] /\ late \in [Worked!Ids -> SUBSET AllSamples]
    BY DEF TasksInv, Worked!TypeOK
  <2> HIDE DEF i, new, ss
  <2>2. samples'[i] = IF desk[u].bound THEN ss ELSE samples[i]
    BY <1>2, <1>3, <2>1
  <2>3. late'[i] = IF desk[u].bound /\ been[i] # {} THEN late[i] \cup ss ELSE late[i]
    BY <1>2, <1>3, <2>1
  <2> QED
    BY <1>2, <1>3, <2>1, <2>2, <2>3
<1>5. /\ \A t \in Worked!Ids \ {i} : /\ tasks'[t] = tasks[t] /\ samples'[t] = samples[t]
                                  /\ been'[t] = been[t] /\ late'[t] = late[t]
      /\ \A v \in Users \ {u} : desk'[v] = desk[v]
  BY <1>2, <1>3 DEF TasksInv, Worked!TypeOK
<1>6. /\ i <= made
      /\ Recalls(old, i)
      /\ new.finished_process # Nobody => OperatorOf[new.finished_process] \in been[i]
      /\ old.status # "new" /\ u # old.operator => new.operator = old.operator
      /\ desk[u].bound => ss # {}
  BY <1>1 DEF Allowed
<1>7. my' = IF new.operator \notin {Nobody, old.operator}
            THEN [my EXCEPT ![new.operator] = @ \cup samples'[i]] ELSE my
  BY <1>3 DEF Worked!HandOver
<1>8. /\ \A o \in Users : my[o] \subseteq my'[o]
      /\ new.operator \notin {Nobody, old.operator} => samples'[i] \subseteq my'[new.operator]
  BY <1>2, <1>7 DEF TasksInv, Worked!TypeOK
<1>9. \A t \in Worked!Ids : been[t] \subseteq been'[t] /\ late[t] \subseteq late'[t] /\ been[t] \subseteq Users
  BY <1>4, <1>5 DEF TasksInv, Worked!TypeOK
<1> HIDE DEF i, new, old, ss
<1>10. \A t \in Worked!Ids : tasks'[t] # Worked!Missing => Recalls(tasks[t], t)'
  BY <1>2, <1>4, <1>5, <1>6 DEF TasksInv, Recalls
<1>11. Worked!ConnectedByItsOperator'
  BY <1>3, <1>4, <1>5, <1>6 DEF TasksInv, Worked!ConnectedByItsOperator
<1>12. \A o \in been'[i] : samples'[i] \subseteq my'[o] \cup late'[i]
  <2>1. CASE desk[u].bound /\ been[i] # {}
    BY <1>4, <2>1
  <2>2. CASE ~ desk[u].bound
    <3>1. \A o \in been[i] : samples[i] \subseteq my[o] \cup late[i]
      BY <1>2 DEF TasksInv
    <3>2. old.operator \in been[i] \cup {Nobody}
      BY <1>6 DEF Recalls
    <3>3. new.operator \notin been[i] /\ new.operator # Nobody => new.operator \notin {Nobody, old.operator}
      BY <3>2
    <3>4. \A o \in been[i] : samples[i] \subseteq my'[o] \cup late'[i]
      BY <1>2, <1>8, <1>9, <3>1
    <3> QED
      BY <1>4, <1>8, <2>2, <3>3, <3>4
  <2>3. CASE been[i] = {}
    <3>1. old.operator = Nobody
      BY <1>6, <2>3 DEF Recalls
    <3>2. been'[i] = {new.operator} \ {Nobody}
      BY <1>4, <2>3
    <3> QED
      BY <1>8, <3>1, <3>2
  <2> QED
    BY <2>1, <2>2, <2>3
<1>13. \A t \in Worked!Ids : \A o \in been'[t] : samples'[t] \subseteq my'[o] \cup late'[t]
  <2>1. \A t \in Worked!Ids \ {i} : \A o \in been[t] : samples[t] \subseteq my'[o] \cup late[t]
    BY <1>8, <1>9 DEF TasksInv
  <2> QED
    BY <1>5, <1>12, <2>1
<1>14. \A t \in Worked!Ids : t > made' => been'[t] = {}
  BY <1>2, <1>3, <1>5, <1>6 DEF TasksInv, Worked!Ids, Worked!TypeOK
<1>15. \A t \in Worked!Ids : t <= made' /\ tasks'[t] = Worked!Missing => t \in removed'
  BY <1>2, <1>3, <1>4, <1>5 DEF TasksInv
<1>16. Worked!EmptyOnlyIfRevived'
  <2>1. samples[i] = {} => i \in removed
    BY <1>2, <1>6 DEF TasksInv, Worked!EmptyOnlyIfRevived
  <2>2. samples'[i] = {} => i \in removed'
    BY <1>2, <1>3, <1>4, <1>6, <2>1
  <2> QED
    BY <1>3, <1>5, <2>2 DEF TasksInv, Worked!EmptyOnlyIfRevived
<1>17. \A v \in Users : desk'[v] # Worked!Idle => Allowed(v)'
  BY <1>3, <1>4, <1>5, <1>9, RecallsMore DEF TasksInv, Worked!TypeOK
<1>18. Worked!LeavesItsOperator
  <2>1. SUFFICES ASSUME NEW v \in Users, desk[v] # Worked!Idle, desk'[v] = Worked!Idle,
                        tasks[desk[v].id].status # "new",
                        tasks'[desk[v].id].operator # tasks[desk[v].id].operator
                 PROVE  v = tasks[desk[v].id].operator \/ desk[v].old # tasks[desk[v].id]
    BY DEF Worked!LeavesItsOperator
  <2>2. v = u
    BY <1>5, <2>1
  <2>3. desk[v].id = i /\ desk[v].old = old
    BY <2>2 DEF i, old
  <2> QED
    BY <1>4, <1>6, <2>1, <2>2, <2>3
<1> QED
  BY <1>10, <1>11, <1>13, <1>14, <1>15, <1>16, <1>17, <1>18 DEF TasksInv

LEMMA TasksDisappear ==
  ASSUME Worked!TasksAssumption, TasksInv, Worked!TypeOK', NEW ts \in SUBSET Worked!Ids, Worked!Discard(ts),
         UNCHANGED <<made, my, desk, been, late>>,
         \A t \in Worked!Ids \ ts : tasks[t] # Worked!Missing /\ tasks[t].finished_process \in recorded =>
           tasks[t].finished_process \in recorded'
  PROVE  TasksInv'
<1>1. \A t \in Worked!Ids : IF t \in ts THEN tasks'[t] = Worked!Missing /\ samples'[t] = {}
                          ELSE tasks'[t] = tasks[t] /\ samples'[t] = samples[t]
  BY DEF Worked!Discard
<1>2. removed' = removed \cup ts
  BY DEF Worked!Discard
<1>3. \A t \in Worked!Ids : tasks'[t] # Worked!Missing => Recalls(tasks[t], t)'
  BY <1>1 DEF TasksInv, Recalls
<1>4. Worked!ConnectedByItsOperator'
  BY <1>1 DEF TasksInv, Worked!ConnectedByItsOperator
<1>5. \A t \in Worked!Ids : \A o \in been'[t] : samples'[t] \subseteq my'[o] \cup late'[t]
  BY <1>1 DEF TasksInv
<1>6. /\ \A t \in Worked!Ids : t > made' => been'[t] = {}
      /\ \A t \in Worked!Ids : t <= made' /\ tasks'[t] = Worked!Missing => t \in removed'
  BY <1>1, <1>2 DEF TasksInv
<1>7. Worked!EmptyOnlyIfRevived'
  BY <1>1, <1>2 DEF TasksInv, Worked!EmptyOnlyIfRevived
<1>8. \A v \in Users : desk'[v] # Worked!Idle => Allowed(v)'
  BY DEF TasksInv, Allowed, Recalls
<1> QED
  BY <1>3, <1>4, <1>5, <1>6, <1>7, <1>8 DEF TasksInv

LEMMA TasksInvStep ==
  ASSUME Worked!TasksAssumption, TasksInv, [Worked!Next]_(Worked!vars)
  PROVE  TasksInv' /\ [Worked!LeavesItsOperator]_(Worked!vars)
<1> Worked!TypeOK'
  BY TaskTypesStep
<1>1. ASSUME NEW u \in Users, NEW preset \in AllSamples, NEW ss \in Worked!Selectable(u, {preset}), Worked!Create(u, ss)
      PROVE  TasksInv' /\ desk' = desk
  BY <1>1, TaskIsMade DEF Worked!Create
<1>2. ASSUME NEW u \in Users, NEW t \in Worked!Ids, Worked!Open(u, t)
      PROVE  TasksInv' /\ tasks' = tasks
  BY <1>2, TaskIsOpened DEF Worked!Open
<1>3. ASSUME NEW u \in Users, Worked!Save(u)
      PROVE  TasksInv' /\ Worked!LeavesItsOperator
  BY <1>3, TaskIsSaved
<1>4. ASSUME NEW u \in Users, Worked!SaveFails(u)
      PROVE  TasksInv' /\ tasks' = tasks
  <2>1. UNCHANGED <<made, tasks, samples, my, recorded, been, late, removed>>
    BY <1>4 DEF Worked!SaveFails, Worked!history
  <2>2. \A v \in Users : desk'[v] # Worked!Idle => desk'[v] = desk[v]
    BY <1>4 DEF Worked!SaveFails, TasksInv, Worked!TypeOK
  <2>3. \A v \in Users : desk'[v] # Worked!Idle => Allowed(v)'
    BY <2>1, <2>2 DEF TasksInv, Allowed, Recalls
  <2> QED
    BY <2>1, <2>3 DEF TasksInv, Recalls, Worked!ConnectedByItsOperator, Worked!EmptyOnlyIfRevived
<1>5. ASSUME NEW u \in Users, NEW t \in Worked!Ids, Worked!remove(u, t)
      PROVE  TasksInv' /\ desk' = desk
  BY <1>5, TasksDisappear DEF Worked!remove
<1>6. ASSUME NEW p \in Processes, Worked!AddProcess(p)
      PROVE  TasksInv' /\ tasks' = tasks
  <2>1. UNCHANGED <<made, tasks, samples, my, desk, been, late, removed>> /\ recorded \subseteq recorded'
    BY <1>6 DEF Worked!AddProcess, Worked!history
  <2> QED
    BY <2>1 DEF TasksInv, Allowed, Recalls, Worked!ConnectedByItsOperator, Worked!EmptyOnlyIfRevived
<1>7. ASSUME NEW p \in Processes, Worked!DeleteProcess(p)
      PROVE  TasksInv' /\ desk' = desk
  <2>1. \A t \in Worked!Ids \ Worked!ConnectedWith(p) : tasks[t] # Worked!Missing /\ tasks[t].finished_process \in recorded =>
          tasks[t].finished_process \in recorded'
    BY <1>7 DEF Worked!DeleteProcess, Worked!ConnectedWith
  <2>2. Worked!ConnectedWith(p) \in SUBSET Worked!Ids
    BY DEF Worked!ConnectedWith
  <2> QED
    BY <1>7, <2>1, <2>2, TasksDisappear DEF Worked!DeleteProcess
<1>8. CASE UNCHANGED Worked!vars
  <2>1. UNCHANGED <<made, tasks, samples, my, recorded, desk, been, late, removed>>
    BY <1>8 DEF Worked!vars, Worked!history
  <2> QED
    BY <1>8, <2>1 DEF TasksInv, Allowed, Recalls, Worked!ConnectedByItsOperator, Worked!EmptyOnlyIfRevived
<1>9. tasks' = tasks \/ desk' = desk => Worked!LeavesItsOperator
  BY DEF Worked!LeavesItsOperator
<1> QED
  BY <1>1, <1>2, <1>3, <1>4, <1>5, <1>6, <1>7, <1>8, <1>9 DEF Worked!Next

(* Operators keep their tasks and have the samples for them, a process is  *)
(* connected by its operator only, and a task without samples is one that  *)
(* has been removed while it was edited, for any number of users, tasks,   *)
(* and requests at the same time.                                          *)
THEOREM OperatorsKeepTasks ==
  Worked!TasksAssumption => (Worked!Spec => OperatorsKeepTheirTasks)
<1> SUFFICES ASSUME Worked!TasksAssumption
             PROVE  Worked!Spec => OperatorsKeepTheirTasks
  OBVIOUS
<1>1. Worked!Init => TasksInv
  BY DEF Worked!Init, TasksInv, Worked!TypeOK, Worked!TasksAssumption, Worked!Ids,
         Worked!ConnectedByItsOperator, Worked!EmptyOnlyIfRevived
<1>2. TasksInv /\ [Worked!Next]_(Worked!vars) => TasksInv'
  BY TasksInvStep
<1>3. TasksInv => Worked!OperatorsHaveTheSamples
  BY DEF TasksInv, Recalls, Worked!OperatorsHaveTheSamples
<1>4. Worked!vars = <<made, edits, tasks, samples, my, recorded, desk, <<been, late, removed>>>>
  BY DEF Worked!vars, Worked!history
<1>5. TasksInv /\ TasksInv' /\ [Worked!Next]_(Worked!vars) => [Worked!OperatorsKeepTheirTasks]_task_vars
  <2> SUFFICES ASSUME TasksInv, TasksInv', [Worked!Next]_(Worked!vars)
               PROVE  [Worked!OperatorsKeepTheirTasks]_task_vars
    OBVIOUS
  <2>1. [Worked!LeavesItsOperator]_(Worked!vars)
    BY TasksInvStep
  <2>2. Worked!OperatorsHaveTheSamples'
    BY DEF TasksInv, Recalls, Worked!OperatorsHaveTheSamples
  <2>3. UNCHANGED Worked!vars => UNCHANGED task_vars
    BY <1>4 DEF task_vars, Worked!vars, Worked!history
  <2> QED
    BY <2>1, <2>2, <2>3 DEF Worked!OperatorsKeepTheirTasks, TasksInv
<1> QED
  BY <1>1, <1>2, <1>5, PTL DEF Worked!Spec, OperatorsKeepTheirTasks

-----------------------------------------------------------------------------
(* Newsfeed.  Finite sets and sequences.                                   *)
LEMMA SizesAreSizes == ASSUME NEW S PROVE Reported!Cardinality(S) = Cardinality(S)
BY DEF Cardinality, Reported!Cardinality

LEMMA UsersAreFinite ==
  ASSUME Reported!NewsfeedAssumption
  PROVE  IsFiniteSet(Users) /\ IsFiniteSet(AllTopics)
BY DEF Reported!NewsfeedAssumption, IsFiniteSet, Reported!IsFiniteSet

LEMMA SetsAreListed ==
  ASSUME NEW S, IsFiniteSet(S)
  PROVE  LET n == Cardinality(S) q == Reported!SetToSeq(S) IN
           n \in Nat /\ q \in [1 .. n -> S] /\ \A x \in S : \E i \in 1 .. n : q[i] = x
<1> DEFINE n == Cardinality(S)
           q == Reported!SetToSeq(S)
<1>1. n \in Nat /\ ExistsBijection(1 .. n, S)
  BY FS_CardinalityType
<1>2. PICK f : f \in Bijection(1 .. n, S)
  BY <1>1 DEF ExistsBijection
<1>3. f \in [1 .. n -> S] /\ \A a, b \in 1 .. n : f[a] = f[b] => a = b
  BY <1>2 DEF Bijection, Injection, IsInjective
<1>4. q = CHOOSE g \in [1 .. n -> S] : Reported!IsInjective(g)
  BY SizesAreSizes DEF Reported!SetToSeq
<1>5. Reported!IsInjective(f)
  BY <1>3 DEF Reported!IsInjective
<1> HIDE DEF n, q
<1>6. q \in [1 .. n -> S] /\ Reported!IsInjective(q)
  BY <1>3, <1>4, <1>5
<1>7. q \in Injection(1 .. n, S)
  BY <1>6 DEF Reported!IsInjective, Injection, IsInjective
<1>8. IsFiniteSet(1 .. n) /\ Cardinality(1 .. n) = n
  BY <1>1, FS_Interval
<1>9. q \in Surjection(1 .. n, S)
  BY <1>7, <1>8, FS_Injection DEF n
<1> QED
  BY <1>1, <1>6, <1>9 DEF Surjection, n, q

(* The calls that a Reporter is still to make, without their order, and the*)
(* number of the current Reporter.                                         *)
Calls(q) == {q[i] : i \in 1 .. Len(q)}
Number == IF entries = <<>> THEN 1 ELSE Reported!Last(entries).reporter

(* From the k-th call on, each call has a Reporter of its own.             *)
Ordered(q, number) == \E k \in 0 .. Len(q) :
  /\ number + (Len(q) - k) <= Cardinality(Users) + 1
  /\ \A i \in 1 .. Len(q) : q[i].anew = TRUE <=> i > k

(* Reporters know whom they have informed as long as they have something   *)
(* to report.                                                              *)
Reporters ==
  /\ Ordered(pending, Number)
  /\ Number \in Nat /\ \A i \in DOMAIN entries : entries[i].reporter <= Number
  /\ \A i, j \in DOMAIN entries :
       i # j /\ entries[i].reporter = entries[j].reporter => entries[i].users \cap entries[j].users = {}
  /\ pending # <<>> /\ Head(pending).anew # TRUE =>
       \A i \in DOMAIN entries : entries[i].reporter = Number => entries[i].users \subseteq informed
  /\ originator \notin Reported!Told
  /\ informed \subseteq Reported!Told \cup {originator}

(* Who is concerned has been told or will be: persons by a call that is the*)
(* first of its Reporter.                                                  *)
PersonsWait ==
  \A f \in Reported!Feeds : \A v \in (request.people[f] \cap Readers[f]) \ {originator} :
    \/ v \in Reported!ToldIn(f)
    \/ \E c \in Calls(pending) : /\ c.feed = f /\ v \in c.people
                                 /\ \/ c.anew = TRUE
                                    \/ c = Head(pending) /\ informed = {}

MembersWait ==
  \A v \in (Reported!TopicMembers(request.topics) \cap Readers["topic"]) \ {originator} :
    \/ v \in Reported!Told
    \/ \E c \in Calls(pending) : c.feed = "topic" /\ v \in Reported!TopicMembers(c.topics)

WatchersWait ==
  request.bulk # TRUE =>
    \A s \in request.samples :
      \A v \in (Reported!Watchers({s}, request.important) \cap Readers[request.feed]) \ {originator} :
        \/ v \in Reported!Told
        \/ \E c \in Calls(pending) :
             c.feed = request.feed /\ s \in c.samples /\ c.important = request.important

NewsInv == Reported!TypeOK /\ Reporters /\ PersonsWait /\ MembersWait /\ WatchersWait

(* One report, without who is interested.                                  *)
LEMMA CallIsMade ==
  ASSUME Reported!TypeOK, Reported!Report
  PROVE  /\ pending # <<>> /\ Head(pending) \in Reported!Call /\ pending' \in Seq(Reported!Call)
         /\ pending' = Tail(pending) /\ Len(pending') = Len(pending) - 1 /\ Len(pending) \in Nat
         /\ \A i \in 1 .. Len(pending') : pending'[i] = pending[i + 1]
         /\ Head(pending) = pending[1]
         /\ Calls(pending) = {Head(pending)} \cup Calls(pending')
<1>1. pending # <<>> /\ pending' = Tail(pending) /\ pending \in Seq(Reported!Call)
  BY DEF Reported!Report, Reported!TypeOK
<1>2. /\ Head(pending) \in Reported!Call /\ pending' \in Seq(Reported!Call)
      /\ Len(pending') = Len(pending) - 1
      /\ \A i \in 1 .. Len(pending') : pending'[i] = pending[i + 1]
  BY <1>1, HeadTailProperties
<1>3. Len(pending) \in Nat \ {0} /\ Head(pending) = pending[1]
  BY <1>1, EmptySeq
<1>4. ASSUME NEW i \in 1 .. Len(pending), i # 1
      PROVE  i - 1 \in 1 .. Len(pending') /\ pending'[i - 1] = pending[i]
  BY <1>2, <1>3, <1>4
<1>5. Calls(pending) = {Head(pending)} \cup Calls(pending')
  <2>1. Calls(pending) \subseteq {Head(pending)} \cup Calls(pending')
    BY <1>3, <1>4 DEF Calls
  <2>2. \A i \in 1 .. Len(pending') : i + 1 \in 1 .. Len(pending)
    BY <1>2, <1>3
  <2>3. Calls(pending') \subseteq Calls(pending)
    BY <1>2, <2>2 DEF Calls
  <2>4. 1 \in 1 .. Len(pending)
    BY <1>3
  <2> QED
    BY <1>3, <2>1, <2>3, <2>4 DEF Calls
<1> QED
  BY <1>1, <1>2, <1>3, <1>5

(* The call that is made, whom its Reporter has informed before, who gets  *)
(* the entry, and the number of its Reporter.                              *)
Called == Head(pending)
Known == IF Called.anew = TRUE THEN {} ELSE informed
Getters == Reported!Receivers(Called, Known)
Maker == IF Called.anew = TRUE THEN Number + 1 ELSE Number
NewEntry == [reporter |-> Maker, call |-> Called, users |-> Getters]

LEMMA EntryIsMade ==
  ASSUME Reported!TypeOK, Reported!Report
  PROVE  /\ informed' = Known \cup Reported!Addressed(Called, Known)
         /\ \/ Getters = {} /\ entries' = entries
            \/ Getters # {} /\ entries' = Append(entries, NewEntry)
<1>1. Called.anew \in BOOLEAN
  BY CallIsMade DEF Reported!Call, Called
<1>2. CASE Called.anew = TRUE
  <2>1. Known = {} /\ Maker = Number + 1
    BY <1>2 DEF Known, Maker
  <2> QED
    BY <1>2, <2>1 DEF Reported!Report, Reported!Informed, Reported!Current, Number, Called, Getters, NewEntry
<1>3. CASE Called.anew = FALSE
  <2>1. Known = informed /\ Maker = Number
    BY <1>3 DEF Known, Maker
  <2> QED
    BY <1>3, <2>1 DEF Reported!Report, Reported!Informed, Reported!Current, Number, Called, Getters, NewEntry
<1> QED
  BY <1>1, <1>2, <1>3

LEMMA NewsAreTold ==
  ASSUME NEW E, entries \in Seq(E), NEW e, NEW c, e.call = c,
         \/ e.users = {} /\ entries' = entries
         \/ e.users # {} /\ entries' = Append(entries, e)
  PROVE  /\ Reported!Told' = Reported!Told \cup e.users
         /\ \A f : Reported!ToldIn(f)' = Reported!ToldIn(f) \cup IF c.feed = f THEN e.users ELSE {}
<1>1. CASE e.users = {} /\ entries' = entries
  BY <1>1 DEF Reported!Told, Reported!ToldIn
<1>2. CASE e.users # {} /\ entries' = Append(entries, e)
  <2> DEFINE n == Len(entries)
  <2>1. /\ n \in Nat /\ DOMAIN entries = 1 .. n /\ DOMAIN entries' = 1 .. n + 1
        /\ \A i \in 1 .. n : entries'[i] = entries[i]
        /\ entries'[n + 1] = e
    BY <1>2, LenProperties
  <2> HIDE DEF n
  <2>2. 1 .. n + 1 = (1 .. n) \cup {n + 1}
    BY <2>1
  <2>3. \A x : x \in Reported!Told' <=> \E i \in 1 .. n + 1 : x \in entries'[i].users
    BY <2>1 DEF Reported!Told
  <2>4. \A x : x \in Reported!Told <=> \E i \in 1 .. n : x \in entries[i].users
    BY <2>1 DEF Reported!Told
  <2>5. Reported!Told' = Reported!Told \cup e.users
    BY <2>1, <2>2, <2>3, <2>4
  <2>6. ASSUME NEW f
        PROVE  Reported!ToldIn(f)' = Reported!ToldIn(f) \cup IF c.feed = f THEN e.users ELSE {}
    <3>1. \A x : x \in Reported!ToldIn(f)' <=> \E i \in 1 .. n + 1 : entries'[i].call.feed = f /\ x \in entries'[i].users
      BY <2>1 DEF Reported!ToldIn
    <3>2. \A x : x \in Reported!ToldIn(f) <=> \E i \in 1 .. n : entries[i].call.feed = f /\ x \in entries[i].users
      BY <2>1 DEF Reported!ToldIn
    <3> QED
      BY <2>1, <2>2, <3>1, <3>2
  <2> QED
    BY <2>5, <2>6
<1> QED
  BY <1>1, <1>2

LEMMA NumberIsNumber ==
  ASSUME Reported!TypeOK, Reported!NewsfeedAssumption
  PROVE  /\ Cardinality(Users) \in Nat /\ Number \in 1 .. Cardinality(Users) + 1
         /\ entries \in Seq(Reported!Entry) /\ Len(entries) \in Nat /\ DOMAIN entries = 1 .. Len(entries)
         /\ \A i \in DOMAIN entries : entries[i] \in Reported!Entry /\ entries[i].reporter \in Nat
<1>1. Cardinality(Users) \in Nat
  BY UsersAreFinite, FS_CardinalityType
<1>2. entries \in Seq(Reported!Entry) /\ Reported!Cardinality(Users) = Cardinality(Users)
  BY SizesAreSizes DEF Reported!TypeOK
<1>3. \A e \in Reported!Entry : e.reporter \in 1 .. Cardinality(Users) + 1
  BY <1>2 DEF Reported!Entry
<1>4. Len(entries) \in Nat /\ DOMAIN entries = 1 .. Len(entries) /\ \A i \in DOMAIN entries : entries[i] \in Reported!Entry
  BY <1>2, LenProperties, ElementOfSeq
<1>5. CASE entries = <<>>
  BY <1>1, <1>2, <1>3, <1>4, <1>5 DEF Number
<1>6. CASE entries # <<>>
  <2>1. Len(entries) \in 1 .. Len(entries)
    BY <1>2, <1>6, EmptySeq
  <2> QED
    BY <1>1, <1>2, <1>3, <1>4, <1>6, <2>1 DEF Number, Reported!Last
<1> QED
  BY <1>5, <1>6

(* The Reporter that makes the call at the head is not one too many.       *)
LEMMA ReportersAreFew ==
  ASSUME Number \in Nat, Len(pending) \in Nat, Len(pending) > 0, Cardinality(Users) \in Nat,
         Called = pending[1], Called.anew \in BOOLEAN, Ordered(pending, Number), Number <= Cardinality(Users) + 1,
         Len(pending') = Len(pending) - 1, \A i \in 1 .. Len(pending') : pending'[i] = pending[i + 1]
  PROVE  /\ Maker \in Nat /\ Maker <= Cardinality(Users) + 1 /\ Ordered(pending', Maker)
         /\ Called.anew = TRUE => Ordered(pending', Number) /\ \A i \in 1 .. Len(pending') : pending'[i].anew = TRUE
<1>1. PICK k \in 0 .. Len(pending) :
        /\ Number + (Len(pending) - k) <= Cardinality(Users) + 1
        /\ \A i \in 1 .. Len(pending) : pending[i].anew = TRUE <=> i > k
  BY DEF Ordered
<1> DEFINE l == Len(pending)
           N == Cardinality(Users)
           j == IF k = 0 THEN 0 ELSE k - 1
<1> HIDE DEF l, N, j
<1>2. l \in Nat /\ l > 0 /\ N \in Nat /\ Number + (l - k) <= N + 1 /\ k \in 0 .. l /\ Len(pending') = l - 1
  BY <1>1 DEF l, N
<1>3. 1 \in 1 .. Len(pending) /\ (Called.anew = TRUE <=> k = 0)
  BY <1>1, <1>2 DEF l
<1>4. Maker \in Nat /\ Maker <= N + 1
  <2>1. CASE k = 0
    BY <1>2, <1>3, <2>1 DEF Maker
  <2>2. CASE k # 0
    BY <1>2, <1>3, <2>2 DEF N, Maker
  <2> QED
    BY <2>1, <2>2
<1>5. j \in 0 .. l - 1 /\ Maker + (l - 1 - j) <= N + 1 /\ (k = 0 => j = 0 /\ Number + (l - 1 - j) <= N + 1)
  <2>1. CASE k = 0
    BY <1>2, <1>3, <2>1 DEF Maker, j
  <2>2. CASE k # 0
    BY <1>2, <1>3, <2>2 DEF Maker, j
  <2> QED
    BY <2>1, <2>2
<1>6. ASSUME NEW i \in 1 .. l - 1
      PROVE  pending'[i].anew = TRUE <=> i > j
  <2> i \in 1 .. Len(pending')
    BY <1>2
  <2>1. i + 1 \in 1 .. Len(pending) /\ pending'[i] = pending[i + 1]
    BY <1>2 DEF l
  <2>2. pending'[i].anew = TRUE <=> i + 1 > k
    BY <1>1, <2>1
  <2>3. (i + 1 > k) = (i > j)
    BY <1>2 DEF j
  <2> QED
    BY <2>2, <2>3
<1>7. Ordered(pending', Maker)
  BY <1>2, <1>5, <1>6 DEF Ordered, N
<1>8. ASSUME Called.anew = TRUE
      PROVE  Ordered(pending', Number) /\ \A i \in 1 .. Len(pending') : pending'[i].anew = TRUE
  <2>1. k = 0 /\ j = 0
    BY <1>3, <1>5, <1>8
  <2>2. ASSUME NEW i \in 1 .. l - 1
        PROVE  pending'[i].anew = TRUE
    <3>1. i > j
      BY <1>2, <2>1
    <3> QED
      BY <1>6, <3>1
  <2>3. Number + (l - 1 - j) <= N + 1
    BY <1>5, <2>1
  <2> QED
    BY <1>2, <1>5, <1>6, <2>2, <2>3 DEF Ordered, N
<1> QED
  BY <1>4, <1>7, <1>8 DEF N

LEMMA ReportedWhat ==
  ASSUME Reported!TypeOK, Reported!Report
  PROVE  /\ Reported!Told' = Reported!Told \cup Getters
         /\ \A f : Reported!ToldIn(f)' = Reported!ToldIn(f) \cup IF Called.feed = f THEN Getters ELSE {}
         /\ informed' = Known \cup Reported!Addressed(Called, Known)
         /\ Known \subseteq informed
         /\ Getters = Reported!Addressed(Called, Known) \ {originator}
         /\ Reported!Addressed(Called, Known) = (Reported!Interested(Called) \ Known) \cap Readers[Called.feed]
<1>1. /\ informed' = Known \cup Reported!Addressed(Called, Known)
      /\ \/ NewEntry.users = {} /\ entries' = entries
         \/ NewEntry.users # {} /\ entries' = Append(entries, NewEntry)
  BY EntryIsMade DEF NewEntry
<1>2. NewEntry.call = Called /\ NewEntry.users = Getters
  BY DEF NewEntry
<1>3. entries \in Seq(Reported!Entry)
  BY DEF Reported!TypeOK
<1>4. /\ Reported!Told' = Reported!Told \cup Getters
      /\ \A f : Reported!ToldIn(f)' = Reported!ToldIn(f) \cup IF Called.feed = f THEN Getters ELSE {}
  BY <1>1, <1>2, <1>3, NewsAreTold
<1>5. Known \subseteq informed
  BY DEF Known
<1> QED
  BY <1>1, <1>4, <1>5 DEF Reported!Receivers, Reported!Addressed, Getters

LEMMA ReportTypes ==
  ASSUME Reported!TypeOK, Reporters, Reported!NewsfeedAssumption, Reported!Report
  PROVE  Reported!TypeOK' /\ Reporters'
<1> DEFINE n == Len(entries)
<1>1. /\ pending # <<>> /\ Called \in Reported!Call /\ pending' \in Seq(Reported!Call)
      /\ Len(pending') = Len(pending) - 1 /\ Len(pending) \in Nat
      /\ \A i \in 1 .. Len(pending') : pending'[i] = pending[i + 1]
      /\ Called = pending[1]
  BY CallIsMade DEF Called
<1>2. /\ informed' = Known \cup Reported!Addressed(Called, Known)
      /\ \/ Getters = {} /\ entries' = entries
         \/ Getters # {} /\ entries' = Append(entries, NewEntry)
  BY EntryIsMade
<1>3. /\ Reported!Told' = Reported!Told \cup Getters
      /\ Known \subseteq informed /\ Getters = Reported!Addressed(Called, Known) \ {originator}
      /\ Reported!Addressed(Called, Known) = (Reported!Interested(Called) \ Known) \cap Readers[Called.feed]
  BY ReportedWhat
<1>4. Called.anew \in BOOLEAN /\ Called.feed \in Reported!Feeds
  BY <1>1 DEF Reported!Call
<1>5. Reported!Addressed(Called, Known) \subseteq Users
  BY <1>3, <1>4 DEF Reported!NewsfeedAssumption
<1>6. /\ Cardinality(Users) \in Nat /\ Number \in 1 .. Cardinality(Users) + 1
      /\ entries \in Seq(Reported!Entry) /\ n \in Nat /\ DOMAIN entries = 1 .. n
      /\ \A i \in DOMAIN entries : entries[i] \in Reported!Entry /\ entries[i].reporter \in Nat
  BY NumberIsNumber
<1>7. UNCHANGED <<rows, watched, members, adders, series, originator, request, requests>>
  BY DEF Reported!Report
<1>8. Number \in Nat /\ Maker \in Nat /\ Maker >= 1 /\ Number <= Maker
  <2>1. CASE Called.anew = TRUE
    BY <1>6, <2>1 DEF Maker
  <2>2. CASE Called.anew # TRUE
    BY <1>6, <2>2 DEF Maker
  <2> QED
    BY <2>1, <2>2
<1>9. /\ Called.anew = TRUE => Maker = Number + 1 /\ Maker # Number
      /\ Called.anew # TRUE => Maker = Number /\ Known = informed
  <2>1. ASSUME Called.anew = TRUE
        PROVE  Maker = Number + 1 /\ Maker # Number
    <3>1. Maker = Number + 1
      BY <2>1 DEF Maker
    <3> QED
      BY <1>8, <3>1
  <2>2. ASSUME Called.anew # TRUE
        PROVE  Maker = Number /\ Known = informed
    BY <2>2 DEF Maker, Known
  <2> QED
    BY <2>1, <2>2, Zenon
<1>10. Len(pending) > 0
  BY <1>1, EmptySeq DEF Reported!TypeOK
<1>11. /\ Maker <= Cardinality(Users) + 1 /\ Ordered(pending', Maker)
       /\ Called.anew = TRUE => Ordered(pending', Number) /\ \A i \in 1 .. Len(pending') : pending'[i].anew = TRUE
  <2>1. Ordered(pending, Number) /\ Number <= Cardinality(Users) + 1
    BY <1>6 DEF Reporters
  <2> QED
    BY <1>1, <1>4, <1>6, <1>8, <1>10, <2>1, ReportersAreFew
<1>12. NewEntry \in Reported!Entry /\ NewEntry.reporter = Maker /\ NewEntry.users = Getters
  BY <1>1, <1>3, <1>5, <1>6, <1>8, <1>11, SizesAreSizes DEF Reported!Entry, NewEntry
<1>13. entries' \in Seq(Reported!Entry)
  BY <1>2, <1>6, <1>12
<1>14. informed' \subseteq Users
  BY <1>2, <1>3, <1>5 DEF Reported!TypeOK
<1>15. Reported!TypeOK'
  BY <1>1, <1>7, <1>13, <1>14 DEF Reported!TypeOK
<1>16. originator' \notin Reported!Told' /\ informed' \subseteq Reported!Told' \cup {originator'}
  BY <1>2, <1>3, <1>7 DEF Reporters
<1>17. ASSUME pending' # <<>>, Head(pending').anew # TRUE
       PROVE  Called.anew # TRUE /\ Maker = Number /\ Known = informed
  <2>1. Head(pending') = pending'[1] /\ 1 \in 1 .. Len(pending')
    BY <1>1, <1>17, EmptySeq
  <2> QED
    BY <1>9, <1>11, <1>17, <2>1
<1>18. ASSUME NEW i \in DOMAIN entries
       PROVE  /\ entries[i].reporter <= Number /\ entries[i].reporter \in Nat
              /\ \A j \in DOMAIN entries : i # j /\ entries[i].reporter = entries[j].reporter => entries[i].users \cap entries[j].users = {}
              /\ Called.anew # TRUE /\ entries[i].reporter = Number => entries[i].users \subseteq informed
  BY <1>1, <1>6 DEF Reporters, Called
<1>19. CASE entries' = entries
  <2>1. Number' = Number
    BY <1>19 DEF Number
  <2>2. Ordered(pending', Number')
    BY <1>9, <1>11, <2>1
  <2>3. pending' # <<>> /\ Head(pending').anew # TRUE =>
          \A i \in DOMAIN entries' : entries'[i].reporter = Number' => entries'[i].users \subseteq informed'
    BY <1>2, <1>17, <1>18, <1>19, <2>1
  <2>4. Number' \in Nat /\ \A i \in DOMAIN entries' : entries'[i].reporter <= Number'
    BY <1>8, <1>18, <1>19, <2>1
  <2>5. \A i, j \in DOMAIN entries' :
          i # j /\ entries'[i].reporter = entries'[j].reporter => entries'[i].users \cap entries'[j].users = {}
    BY <1>18, <1>19
  <2> QED
    BY <1>15, <1>16, <2>2, <2>3, <2>4, <2>5, Zenon DEF Reporters
<1>20. CASE entries' = Append(entries, NewEntry)
  <2>1. /\ DOMAIN entries' = 1 .. n + 1 /\ Len(entries') = n + 1 /\ entries' # <<>>
        /\ \A i \in 1 .. n : entries'[i] = entries[i]
        /\ entries'[n + 1] = NewEntry
    BY <1>6, <1>20
  <2>2. Number' = Maker
    BY <1>12, <2>1 DEF Number, Reported!Last
  <2> HIDE DEF n
  <2>3. \A i \in 1 .. n + 1 : i \in 1 .. n \/ i = n + 1
    BY <1>6
  <2>4. ASSUME NEW i \in DOMAIN entries'
        PROVE  entries'[i].reporter <= Maker
    <3>1. CASE i = n + 1
      BY <1>8, <1>12, <2>1, <3>1
    <3>2. CASE i \in 1 .. n
      <4>1. entries'[i] = entries[i] /\ entries[i].reporter <= Number /\ entries[i].reporter \in Nat
        BY <1>6, <1>18, <2>1, <3>2
      <4> QED
        BY <1>8, <4>1
    <3> QED
      BY <2>1, <2>3, <3>1, <3>2
  <2>5. ASSUME NEW i \in 1 .. n, entries[i].reporter = Maker
        PROVE  Called.anew # TRUE /\ entries[i].users \subseteq informed /\ entries[i].users \cap Getters = {}
    <3>1. entries[i].reporter <= Number /\ entries[i].reporter \in Nat
      BY <1>6, <1>18
    <3>2. CASE Called.anew = TRUE
      <4>1. Maker = Number + 1
        BY <1>9, <3>2
      <4> QED
        BY <1>8, <2>5, <3>1, <4>1
    <3>3. CASE Called.anew # TRUE
      <4>1. entries[i].users \subseteq informed /\ Known = informed
        BY <1>6, <1>9, <1>18, <2>5, <3>3
      <4> QED
        BY <1>3, <3>3, <4>1
    <3> QED
      BY <3>2, <3>3
  <2>6. ASSUME NEW i \in DOMAIN entries', NEW j \in DOMAIN entries', i # j, entries'[i].reporter = entries'[j].reporter
        PROVE  entries'[i].users \cap entries'[j].users = {}
    <3>1. CASE i \in 1 .. n /\ j \in 1 .. n
      BY <1>6, <1>18, <2>1, <2>6, <3>1
    <3>2. CASE i = n + 1 /\ j \in 1 .. n
      <4>1. entries[j].users \cap Getters = {}
        BY <1>12, <2>1, <2>5, <2>6, <3>2
      <4> QED
        BY <1>12, <2>1, <3>2, <4>1
    <3>3. CASE j = n + 1 /\ i \in 1 .. n
      <4>1. entries[i].users \cap Getters = {}
        BY <1>12, <2>1, <2>5, <2>6, <3>3
      <4> QED
        BY <1>12, <2>1, <3>3, <4>1
    <3> QED
      BY <2>1, <2>3, <2>6, <3>1, <3>2, <3>3
  <2>7. ASSUME pending' # <<>>, Head(pending').anew # TRUE, NEW i \in DOMAIN entries', entries'[i].reporter = Maker
        PROVE  entries'[i].users \subseteq informed'
    <3>1. CASE i = n + 1
      BY <1>2, <1>3, <1>12, <2>1, <3>1
    <3>2. CASE i \in 1 .. n
      BY <1>2, <1>17, <2>1, <2>5, <2>7, <3>2
    <3> QED
      BY <2>1, <2>3, <3>1, <3>2
  <2>8. Number' \in Nat /\ \A i \in DOMAIN entries' : entries'[i].reporter <= Number'
    BY <1>8, <2>2, <2>4
  <2>9. \A i, j \in DOMAIN entries' :
          i # j /\ entries'[i].reporter = entries'[j].reporter => entries'[i].users \cap entries'[j].users = {}
    BY <2>6
  <2>10. pending' # <<>> /\ Head(pending').anew # TRUE =>
          \A i \in DOMAIN entries' : entries'[i].reporter = Number' => entries'[i].users \subseteq informed'
    BY <2>2, <2>7
  <2>11. Ordered(pending', Number')
    BY <1>11, <2>2
  <2> QED
    BY <1>15, <1>16, <2>8, <2>9, <2>10, <2>11, Zenon DEF Reporters
<1> QED
  BY <1>2, <1>15, <1>19, <1>20

(* Whoever a call is about and is not the originator has been told then.   *)
LEMMA InterestedAreTold ==
  ASSUME Reported!TypeOK, Reporters, Reported!Report,
         NEW f, f = Called.feed, NEW v \in (Reported!Interested(Called) \cap Readers[f]) \ {originator}
  PROVE  v \in Reported!Told' /\ (Known = {} => v \in Reported!ToldIn(f)')
<1>1. /\ Reported!Told' = Reported!Told \cup Getters
      /\ Reported!ToldIn(f)' = Reported!ToldIn(f) \cup Getters
      /\ Known \subseteq informed
      /\ Getters = ((Reported!Interested(Called) \ Known) \cap Readers[Called.feed]) \ {originator}
  BY ReportedWhat
<1>2. informed \subseteq Reported!Told \cup {originator}
  BY DEF Reporters
<1> QED
  BY <1>1, <1>2

LEMMA ReportPersons ==
  ASSUME Reported!TypeOK, Reporters, Reported!Report, PersonsWait
  PROVE  PersonsWait'
<1>1. /\ Calls(pending) = {Called} \cup Calls(pending')
      /\ originator' = originator /\ request' = request
      /\ \A f : Reported!ToldIn(f) \subseteq Reported!ToldIn(f)'
  BY CallIsMade, ReportedWhat DEF Called, Reported!Report
<1> SUFFICES ASSUME NEW f \in Reported!Feeds, NEW v \in (request.people[f] \cap Readers[f]) \ {originator},
                    v \notin Reported!ToldIn(f)
             PROVE  \/ v \in Reported!ToldIn(f)'
                    \/ \E c \in Calls(pending') : /\ c.feed = f /\ v \in c.people
                                                  /\ \/ c.anew = TRUE
                                                     \/ c = Head(pending') /\ informed' = {}
  BY <1>1 DEF PersonsWait
<1>2. PICK c \in Calls(pending) : /\ c.feed = f /\ v \in c.people
                                  /\ \/ c.anew = TRUE
                                     \/ c = Called /\ informed = {}
  BY DEF PersonsWait, Called
<1>3. CASE c = Called
  <2>1. Known = {}
    BY <1>2, <1>3 DEF Known
  <2>2. f = Called.feed /\ v \in (Reported!Interested(Called) \cap Readers[f]) \ {originator}
    BY <1>2, <1>3 DEF Reported!Interested
  <2> QED
    BY <1>2, <1>3, <2>1, <2>2, InterestedAreTold
<1>4. CASE c # Called
  <2>1. c \in Calls(pending') /\ c.feed = f /\ v \in c.people /\ c.anew = TRUE
    BY <1>1, <1>2, <1>4
  <2> QED
    BY <2>1
<1> QED
  BY <1>3, <1>4

LEMMA ReportMembers ==
  ASSUME Reported!TypeOK, Reporters, Reported!Report, MembersWait
  PROVE  MembersWait'
<1>1. /\ Calls(pending) = {Called} \cup Calls(pending')
      /\ originator' = originator /\ request' = request
      /\ Reported!Told \subseteq Reported!Told'
  BY CallIsMade, ReportedWhat DEF Called, Reported!Report
<1>2. \A ts : Reported!TopicMembers(ts)' = Reported!TopicMembers(ts)
  BY DEF Reported!Report, Reported!TopicMembers
<1> SUFFICES ASSUME NEW v \in (Reported!TopicMembers(request.topics) \cap Readers["topic"]) \ {originator},
                    v \notin Reported!Told
             PROVE  \/ v \in Reported!Told'
                    \/ \E c \in Calls(pending') : c.feed = "topic" /\ v \in Reported!TopicMembers(c.topics)
  BY <1>1, <1>2 DEF MembersWait
<1>3. PICK c \in Calls(pending) : c.feed = "topic" /\ v \in Reported!TopicMembers(c.topics)
  BY DEF MembersWait
<1>4. CASE c = Called
  <2>1. v \in (Reported!Interested(Called) \cap Readers[Called.feed]) \ {originator}
    BY <1>3, <1>4 DEF Reported!Interested
  <2> QED
    BY <2>1, InterestedAreTold
<1>5. CASE c # Called
  BY <1>1, <1>3, <1>5
<1> QED
  BY <1>4, <1>5

LEMMA WatchersOfMore ==
  ASSUME NEW ss, NEW s \in ss, NEW important
  PROVE  Reported!Watchers({s}, important) \subseteq Reported!Watchers(ss, important)
BY DEF Reported!Watchers

LEMMA ReportWatchers ==
  ASSUME Reported!TypeOK, Reporters, Reported!Report, WatchersWait
  PROVE  WatchersWait'
<1>1. /\ Calls(pending) = {Called} \cup Calls(pending')
      /\ originator' = originator /\ request' = request
      /\ Reported!Told \subseteq Reported!Told'
  BY CallIsMade, ReportedWhat DEF Called, Reported!Report
<1>2. \A s : Reported!Viewers(s)' = Reported!Viewers(s)
  BY DEF Reported!Report, Reported!Viewers
<1>3. \A ss, important : Reported!Watchers(ss, important)' = Reported!Watchers(ss, important)
  BY <1>2 DEF Reported!Report, Reported!Watchers
<1> SUFFICES ASSUME request.bulk # TRUE, NEW s \in request.samples,
                    NEW v \in (Reported!Watchers({s}, request.important) \cap Readers[request.feed]) \ {originator},
                    v \notin Reported!Told
             PROVE  \/ v \in Reported!Told'
                    \/ \E c \in Calls(pending') :
                         c.feed = request.feed /\ s \in c.samples /\ c.important = request.important
  BY <1>1, <1>3 DEF WatchersWait
<1>4. PICK c \in Calls(pending) : c.feed = request.feed /\ s \in c.samples /\ c.important = request.important
  BY DEF WatchersWait
<1>5. CASE c = Called
  <2>1. v \in Reported!Watchers(Called.samples, Called.important)
    BY <1>4, <1>5, WatchersOfMore
  <2>2. v \in (Reported!Interested(Called) \cap Readers[Called.feed]) \ {originator}
    BY <1>4, <1>5, <2>1 DEF Reported!Interested
  <2> QED
    BY <2>2, InterestedAreTold
<1>6. CASE c # Called
  BY <1>1, <1>4, <1>6
<1> QED
  BY <1>5, <1>6

LEMMA ReportTells ==
  ASSUME NewsInv, Reported!NewsfeedAssumption, Reported!Report
  PROVE  NewsInv'
BY ReportTypes, ReportPersons, ReportMembers, ReportWatchers DEF NewsInv

(* Removing a sample from "My Samples".                                    *)
LEMMA ForgetTells ==
  ASSUME NewsInv, Reported!NewsfeedAssumption, NEW u \in Users, NEW s \in AllSamples, Reported!Forget(u, s)
  PROVE  NewsInv'
<1>1. UNCHANGED <<rows, members, adders, series, originator, pending, informed, entries, request>>
  BY DEF Reported!Forget, Reported!reporter
<1>2. /\ watched' = [watched EXCEPT ![u] = @ \ {s}]
      /\ requests' = requests + 1 /\ requests < MaxRequests
  BY DEF Reported!Forget
<1>3. /\ watched \in [Users -> SUBSET AllSamples] /\ watched' \in [Users -> SUBSET AllSamples]
      /\ \A v \in Users : watched'[v] \subseteq watched[v]
  BY <1>2 DEF NewsInv, Reported!TypeOK
<1>4. Reported!TypeOK'
  BY <1>1, <1>2, <1>3 DEF NewsInv, Reported!TypeOK, Reported!NewsfeedAssumption
<1>5. Reporters' /\ PersonsWait'
  <2>1. Reported!Told' = Reported!Told /\ \A f : Reported!ToldIn(f)' = Reported!ToldIn(f)
    BY <1>1 DEF Reported!Told, Reported!ToldIn
  <2>2. Number' = Number
    BY <1>1 DEF Number
  <2>3. Reporters'
    BY <1>1, <2>1, <2>2 DEF NewsInv, Reporters
  <2>4. PersonsWait'
    BY <1>1, <2>1 DEF NewsInv, PersonsWait
  <2> QED
    BY <2>3, <2>4
<1>6. MembersWait'
  <2>1. \A ts : Reported!TopicMembers(ts)' = Reported!TopicMembers(ts)
    BY <1>1 DEF Reported!TopicMembers
  <2>2. Reported!Told' = Reported!Told
    BY <1>1 DEF Reported!Told
  <2> QED
    BY <1>1, <2>1, <2>2 DEF NewsInv, MembersWait
<1>7. WatchersWait'
  <2>1. \A x : Reported!Viewers(x)' = Reported!Viewers(x)
    BY <1>1 DEF Reported!Viewers
  <2>2. \A ss, important : Reported!Watchers(ss, important)' \subseteq Reported!Watchers(ss, important)
    BY <1>3, <2>1 DEF Reported!Watchers
  <2>3. Reported!Told' = Reported!Told
    BY <1>1 DEF Reported!Told
  <2> QED
    BY <1>1, <2>2, <2>3 DEF NewsInv, WatchersWait
<1> QED
  BY <1>4, <1>5, <1>6, <1>7 DEF NewsInv

-----------------------------------------------------------------------------
(* A request plans calls that reach everybody who is concerned: persons    *)
(* with the first call of a Reporter.                                      *)
Planned(u, calls, change) ==
  /\ u \in Users /\ calls \in Seq(Reported!Call) /\ change \in Reported!Request
  /\ Ordered(calls, 1)
  /\ \A f \in Reported!Feeds : \A v \in change.people[f] \ {u} :
       \E c \in Calls(calls) : c.feed = f /\ v \in c.people /\ (c.anew = TRUE \/ c = Head(calls))
  /\ \A t \in change.topics : \E c \in Calls(calls) : c.feed = "topic" /\ t \in c.topics
  /\ change.bulk # TRUE =>
       \A s \in change.samples : \E c \in Calls(calls) :
         c.feed = change.feed /\ s \in c.samples /\ c.important = change.important

(* The types of what the requests edit.                                    *)
SiteOK ==
  /\ rows \in [AllSamples -> Reported!Row]
  /\ watched \in [Users -> SUBSET AllSamples]
  /\ members \in [AllTopics -> SUBSET Users] /\ adders \in [AllTopics -> SUBSET Users]
  /\ \A t \in AllTopics : Manager[t] \in members[t] /\ adders[t] \subseteq members[t]
  /\ series \in Reported!Series \cup {Nobody}

LEMMA WhoIsMember ==
  ASSUME NEW ts, NEW v
  PROVE  v \in Reported!TopicMembers(ts) <=> v \notin Careful /\ \E t \in ts : v \in members[t]
BY DEF Reported!TopicMembers

LEMMA WhoWillBeMember ==
  ASSUME NEW ts, NEW v
  PROVE  v \in Reported!TopicMembers(ts)' <=> v \notin Careful /\ \E t \in ts : v \in members'[t]
BY DEF Reported!TopicMembers

LEMMA PlannedIsTold ==
  ASSUME NewsInv, Reported!NewsfeedAssumption, NEW u, NEW calls, NEW change,
         Planned(u, calls, change), Reported!Begin(u, calls, change), requests < MaxRequests, SiteOK'
  PROVE  NewsInv'
<1>1. /\ requests' = requests + 1 /\ originator' = u /\ pending' = calls /\ informed' = {}
      /\ entries' = <<>> /\ request' = change
  BY DEF Reported!Begin
<1>2. DOMAIN entries' = {} /\ entries' \in Seq(Reported!Entry)
  BY <1>1
<1>3. Number' = 1 /\ Reported!Told' = {}
  BY <1>1, <1>2 DEF Number, Reported!Told
<1>4. Reported!TypeOK'
  BY <1>1, <1>2 DEF NewsInv, Reported!TypeOK, SiteOK, Planned, Reported!NewsfeedAssumption
<1>5. Reporters'
  BY <1>1, <1>2, <1>3 DEF Reporters, Planned
<1>6. PersonsWait'
  BY <1>1 DEF PersonsWait, Planned
<1>7. MembersWait'
  <2> SUFFICES ASSUME NEW v \in Reported!TopicMembers(change.topics)'
               PROVE  \E c \in Calls(calls) : c.feed = "topic" /\ v \in Reported!TopicMembers(c.topics)'
    BY <1>1 DEF MembersWait
  <2>1. PICK t \in change.topics : v \in members'[t] /\ v \notin Careful
    BY WhoWillBeMember
  <2>2. PICK c \in Calls(calls) : c.feed = "topic" /\ t \in c.topics
    BY DEF Planned
  <2> QED
    BY <2>1, <2>2, WhoWillBeMember
<1>8. WatchersWait'
  BY <1>1 DEF WatchersWait, Planned
<1> QED
  BY <1>4, <1>5, <1>6, <1>7, <1>8 DEF NewsInv

-----------------------------------------------------------------------------
(* Sequences of calls.                                                     *)
LEMMA NoCalls == <<>> \in Seq(Reported!Call) /\ Calls(<<>>) = {} /\ Len(<<>>) = 0
BY DEF Calls

LEMMA OneCall ==
  ASSUME NEW c \in Reported!Call
  PROVE  <<c>> \in Seq(Reported!Call) /\ Calls(<<c>>) = {c} /\ Len(<<c>>) = 1 /\ Head(<<c>>) = c
BY DEF Calls

LEMMA MoreCalls ==
  ASSUME NEW p \in Seq(Reported!Call), NEW q \in Seq(Reported!Call)
  PROVE  /\ p \o q \in Seq(Reported!Call) /\ Calls(p \o q) = Calls(p) \cup Calls(q)
         /\ Len(p) \in Nat /\ Len(q) \in Nat /\ Len(p \o q) = Len(p) + Len(q)
         /\ \A i \in 1 .. Len(p) : (p \o q)[i] = p[i]
         /\ \A i \in 1 .. Len(q) : (p \o q)[Len(p) + i] = q[i]
         /\ Len(p) # 0 => Head(p \o q) = Head(p)
<1>1. /\ p \o q \in Seq(Reported!Call) /\ Len(p) \in Nat /\ Len(q) \in Nat /\ Len(p \o q) = Len(p) + Len(q)
      /\ \A i \in 1 .. Len(p) + Len(q) : (p \o q)[i] = IF i <= Len(p) THEN p[i] ELSE q[i - Len(p)]
  BY ConcatProperties, LenProperties
<1>2. ASSUME NEW i \in 1 .. Len(p)
      PROVE  i \in 1 .. Len(p) + Len(q) /\ (p \o q)[i] = p[i]
  BY <1>1
<1>3. ASSUME NEW i \in 1 .. Len(q)
      PROVE  Len(p) + i \in 1 .. Len(p) + Len(q) /\ (p \o q)[Len(p) + i] = q[i]
  <2>1. Len(p) + i \in 1 .. Len(p) + Len(q) /\ ~(Len(p) + i <= Len(p)) /\ Len(p) + i - Len(p) = i
    BY <1>1
  <2> QED
    BY <1>1, <2>1
<1>4. ASSUME NEW i \in 1 .. Len(p) + Len(q)
      PROVE  i \in 1 .. Len(p) \/ \E j \in 1 .. Len(q) : i = Len(p) + j
  <2>1. CASE i <= Len(p)
    BY <1>1, <2>1
  <2>2. CASE ~(i <= Len(p))
    <3>1. i - Len(p) \in 1 .. Len(q) /\ i = Len(p) + (i - Len(p))
      BY <1>1, <2>2
    <3> QED
      BY <3>1
  <2> QED
    BY <2>1, <2>2
<1>5. Calls(p \o q) \subseteq Calls(p) \cup Calls(q)
  BY <1>1, <1>2, <1>3, <1>4 DEF Calls
<1>6. Calls(p) \subseteq Calls(p \o q)
  BY <1>1, <1>2 DEF Calls
<1>7. Calls(q) \subseteq Calls(p \o q)
  BY <1>1, <1>3 DEF Calls
<1>8. Len(p) # 0 => Head(p \o q) = Head(p)
  <2> SUFFICES ASSUME Len(p) # 0
               PROVE  Head(p \o q) = Head(p)
    OBVIOUS
  <2>1. 1 \in 1 .. Len(p) /\ p # <<>> /\ p \o q # <<>>
    BY <1>1
  <2> QED
    BY <1>1, <1>2, <2>1
<1> QED
  BY <1>1, <1>2, <1>3, <1>5, <1>6, <1>7, <1>8

(* First the calls of one Reporter, then at most one Reporter per user.    *)
LEMMA CallsAreOrdered ==
  ASSUME Cardinality(Users) \in Nat, NEW p \in Seq(Reported!Call), NEW q \in Seq(Reported!Call),
         \A c \in Calls(p) : c.anew # TRUE, \A c \in Calls(q) : c.anew = TRUE, Len(q) <= Cardinality(Users)
  PROVE  Ordered(p \o q, 1)
<1> DEFINE k == Len(p)
<1>1. /\ Len(p) \in Nat /\ Len(q) \in Nat /\ Len(p \o q) = Len(p) + Len(q)
      /\ \A i \in 1 .. Len(p) : (p \o q)[i] = p[i]
      /\ \A i \in 1 .. Len(q) : (p \o q)[Len(p) + i] = q[i]
  BY MoreCalls
<1>2. k \in 0 .. Len(p \o q) /\ 1 + (Len(p \o q) - k) <= Cardinality(Users) + 1
  BY <1>1
<1>3. ASSUME NEW i \in 1 .. Len(p \o q)
      PROVE  (p \o q)[i].anew = TRUE <=> i > k
  <2>1. CASE i <= Len(p)
    <3>1. i \in 1 .. Len(p)
      BY <1>1, <2>1
    <3>2. p[i].anew # TRUE
      BY <3>1 DEF Calls
    <3>3. (p \o q)[i] = p[i] /\ ~(i > k)
      BY <1>1, <2>1, <3>1
    <3> QED
      BY <3>2, <3>3
  <2>2. CASE ~(i <= Len(p))
    <3>1. i - Len(p) \in 1 .. Len(q) /\ i = Len(p) + (i - Len(p))
      BY <1>1, <2>2
    <3>2. q[i - Len(p)].anew = TRUE
      BY <3>1 DEF Calls
    <3>3. (p \o q)[i] = q[i - Len(p)]
      BY <1>1, <3>1
    <3> QED
      BY <1>1, <2>2, <3>2, <3>3
  <2> QED
    BY <2>1, <2>2
<1> HIDE DEF k
<1> QED
  BY <1>2, <1>3 DEF Ordered

LEMMA PlainCallsAreOrdered ==
  ASSUME Cardinality(Users) \in Nat, NEW p \in Seq(Reported!Call), \A c \in Calls(p) : c.anew # TRUE
  PROVE  Ordered(p, 1)
<1>1. p \o <<>> = p
  OBVIOUS
<1>2. \A c \in Calls(<<>>) : c.anew = TRUE
  BY NoCalls
<1>3. <<>> \in Seq(Reported!Call) /\ Len(<<>>) <= Cardinality(Users)
  BY NoCalls
<1>4. Ordered(p \o <<>>, 1)
  BY <1>2, <1>3, CallsAreOrdered
<1> QED
  BY <1>1, <1>4

-----------------------------------------------------------------------------
(* The requests.                                                           *)
LEMMA SiteIsOK ==
  ASSUME NewsInv, Reported!NewsfeedAssumption
  PROVE  SiteOK /\ Cardinality(Users) \in Nat
BY UsersAreFinite, FS_CardinalityType DEF NewsInv, Reported!TypeOK, SiteOK

LEMMA NothingIsRequest ==
  /\ Reported!Nothing \in Reported!Request /\ Reported!Nothing.topics = {} /\ Reported!Nothing.samples = {}
  /\ Reported!Nothing.important = TRUE
  /\ \A f \in Reported!Feeds : Reported!Nothing.people[f] = {}
BY DEF Reported!Nothing, Reported!Request, Reported!Feeds

LEMMA FeedIsNamed ==
  /\ "sample" \in Reported!Feeds /\ "topic" \in Reported!Feeds
  /\ "process" \in Reported!Feeds /\ "series" \in Reported!Feeds
BY DEF Reported!Feeds

LEMMA NothingIsPlanned ==
  ASSUME Cardinality(Users) \in Nat, NEW u \in Users
  PROVE  Planned(u, <<>>, Reported!Nothing)
<1>1. Ordered(<<>>, 1)
  BY NoCalls, PlainCallsAreOrdered
<1> QED
  BY <1>1, NoCalls, NothingIsRequest DEF Planned

LEMMA CollectTells ==
  ASSUME NewsInv, Reported!NewsfeedAssumption, requests < MaxRequests,
         NEW u \in Users, NEW s \in AllSamples, Reported!Collect(u, s)
  PROVE  NewsInv'
<1>1. Reported!Begin(u, <<>>, Reported!Nothing) /\ Planned(u, <<>>, Reported!Nothing)
  BY SiteIsOK, NothingIsPlanned DEF Reported!Collect
<1>2. SiteOK'
  BY SiteIsOK DEF SiteOK, Reported!Collect
<1> QED
  BY <1>1, <1>2, PlannedIsTold

LEMMA SaveProcessTells ==
  ASSUME NewsInv, Reported!NewsfeedAssumption, requests < MaxRequests,
         NEW u \in Users, NEW ss \in SUBSET AllSamples, NEW important \in BOOLEAN, NEW finished \in BOOLEAN,
         Reported!SaveProcess(u, ss, important, finished)
  PROVE  NewsInv'
<1>1. SiteOK'
  BY SiteIsOK DEF SiteOK, Reported!SaveProcess
<1>2. CASE ~finished
  <2>1. Reported!Begin(u, <<>>, Reported!Nothing) /\ Planned(u, <<>>, Reported!Nothing)
    BY <1>2, SiteIsOK, NothingIsPlanned DEF Reported!SaveProcess
  <2> QED
    BY <1>1, <2>1, PlannedIsTold
<1>3. CASE finished
  <2> DEFINE c == Reported!About(ss, important, "process")
             change == [Reported!Nothing EXCEPT !.samples = ss, !.important = important, !.feed = "process"]
  <2>1. Reported!Begin(u, <<c>>, change)
    BY <1>3 DEF Reported!SaveProcess
  <2>2. c \in Reported!Call /\ c.samples = ss /\ c.important = important /\ c.feed = "process" /\ c.anew = FALSE
    BY FeedIsNamed DEF Reported!About, Reported!Call
  <2>3. change \in Reported!Request /\ change.samples = ss /\ change.important = important /\ change.feed = "process"
    BY NothingIsRequest, FeedIsNamed DEF Reported!Request
  <2>4. change.topics = {} /\ \A f \in Reported!Feeds : change.people[f] = {}
    BY NothingIsRequest DEF Reported!Request
  <2> HIDE DEF c, change
  <2>5. <<c>> \in Seq(Reported!Call) /\ Calls(<<c>>) = {c}
    BY <2>2, OneCall
  <2>6. Ordered(<<c>>, 1)
    BY <2>2, <2>5, SiteIsOK, PlainCallsAreOrdered
  <2>7. Planned(u, <<c>>, change)
    BY <2>2, <2>3, <2>4, <2>5, <2>6 DEF Planned
  <2> QED
    BY <1>1, <2>1, <2>7, PlannedIsTold
<1> QED
  BY <1>2, <1>3

LEMMA NewSampleSeriesTells ==
  ASSUME NewsInv, Reported!NewsfeedAssumption, requests < MaxRequests,
         NEW u \in Users, NEW t \in AllTopics, NEW ss \in SUBSET watched[u], Reported!NewSampleSeries(u, t, ss)
  PROVE  NewsInv'
<1> DEFINE c == Reported!NewSeries(t, ss)
           change == [Reported!Nothing EXCEPT !.samples = ss, !.feed = "series"]
<1>1. ss \subseteq AllSamples
  BY SiteIsOK DEF SiteOK
<1>2. SiteOK'
  BY <1>1, SiteIsOK DEF SiteOK, Reported!NewSampleSeries, Reported!Series
<1>3. Reported!Begin(u, <<c>>, change)
  BY DEF Reported!NewSampleSeries
<1> c = Reported!NewSeries(t, ss) /\ change = [Reported!Nothing EXCEPT !.samples = ss, !.feed = "series"]
  OBVIOUS
<1> HIDE DEF c, change
<1>4. c \in Reported!Call /\ c.samples = ss /\ c.important = TRUE /\ c.feed = "series" /\ c.anew # TRUE
  BY <1>1 DEF Reported!NewSeries, Reported!Call, Reported!Feeds
<1>5. /\ change \in Reported!Request /\ change.samples = ss /\ change.important = TRUE
      /\ change.feed = "series" /\ change.topics = {} /\ \A f \in Reported!Feeds : change.people[f] = {}
  <2>1. /\ Reported!Nothing \in Reported!Request /\ Reported!Nothing.topics = {} /\ Reported!Nothing.important = TRUE
        /\ \A f \in Reported!Feeds : Reported!Nothing.people[f] = {}
    BY NothingIsRequest
  <2>2. change \in Reported!Request /\ change.samples = ss /\ change.important = TRUE /\ change.feed = "series"
    BY <1>1, <2>1, FeedIsNamed DEF Reported!Request
  <2>3. change.topics = Reported!Nothing.topics /\ change.people = Reported!Nothing.people
    BY <2>1 DEF Reported!Request
  <2> QED
    BY <2>1, <2>2, <2>3
<1>6. <<c>> \in Seq(Reported!Call) /\ Calls(<<c>>) = {c} /\ Ordered(<<c>>, 1)
  BY <1>4, OneCall, SiteIsOK, PlainCallsAreOrdered
<1>7. Planned(u, <<c>>, change)
  BY <1>4, <1>5, <1>6 DEF Planned
<1> QED
  BY <1>2, <1>3, <1>7, PlannedIsTold

LEMMA EditSampleSeriesTells ==
  ASSUME NewsInv, Reported!NewsfeedAssumption, requests < MaxRequests,
         NEW u \in Users, NEW new \in Reported!Series, NEW important \in BOOLEAN,
         Reported!EditSampleSeries(u, new, important)
  PROVE  NewsInv'
<1> DEFINE ss == series.samples \cup new.samples
           c == Reported!About(series.samples, important, "series")
           d == Reported!About(new.samples, important, "series")
           change == [Reported!Nothing EXCEPT !.samples = ss, !.important = important, !.feed = "series"]
<1>1. Reported!Begin(u, <<c, d>>, change) /\ series # Nobody /\ series' = new
      /\ UNCHANGED <<rows, watched, members, adders>>
  BY DEF Reported!EditSampleSeries
<1>2. series.samples \subseteq AllSamples /\ new.samples \subseteq AllSamples
  BY <1>1, SiteIsOK DEF SiteOK, Reported!Series
<1>3. SiteOK'
  BY <1>1, SiteIsOK DEF SiteOK
<1>4. c \in Reported!Call /\ c.samples = series.samples /\ c.important = important /\ c.feed = "series" /\ c.anew = FALSE
  BY <1>2, FeedIsNamed DEF Reported!About, Reported!Call
<1>5. d \in Reported!Call /\ d.samples = new.samples /\ d.important = important /\ d.feed = "series" /\ d.anew = FALSE
  BY <1>2, FeedIsNamed DEF Reported!About, Reported!Call
<1>6. change \in Reported!Request /\ change.samples = ss /\ change.important = important /\ change.feed = "series"
  BY <1>2, NothingIsRequest, FeedIsNamed DEF Reported!Request
<1>7. change.topics = {} /\ \A f \in Reported!Feeds : change.people[f] = {}
  BY NothingIsRequest DEF Reported!Request
<1>8. \A s \in change.samples : s \in c.samples \/ s \in d.samples
  BY <1>4, <1>5, <1>6
<1> HIDE DEF c, d, change
<1>9. <<c, d>> \in Seq(Reported!Call)
  BY <1>4, <1>5
<1>10. Calls(<<c, d>>) = {c, d}
  <2>1. Len(<<c, d>>) = 2 /\ <<c, d>>[1] = c /\ <<c, d>>[2] = d
    OBVIOUS
  <2>2. 1 .. 2 = {1, 2}
    OBVIOUS
  <2>3. Calls(<<c, d>>) = {<<c, d>>[i] : i \in {1, 2}}
    BY <2>1, <2>2 DEF Calls
  <2> QED
    BY <2>1, <2>3
<1>11. Ordered(<<c, d>>, 1)
  BY <1>4, <1>5, <1>9, <1>10, SiteIsOK, PlainCallsAreOrdered
<1>12. \A s \in change.samples : \E x \in Calls(<<c, d>>) :
         x.feed = change.feed /\ s \in x.samples /\ x.important = change.important
  BY <1>4, <1>5, <1>6, <1>8, <1>10
<1>13. Planned(u, <<c, d>>, change)
  BY <1>6, <1>7, <1>9, <1>11, <1>12 DEF Planned
<1> QED
  BY <1>1, <1>3, <1>13, PlannedIsTold

(* There are two users at least if one is taken in and another one leaves. *)
LEMMA UsersAreSome ==
  ASSUME Reported!NewsfeedAssumption, NEW S, S \subseteq Users, NEW n \in Nat,
         \/ n = 1 /\ S # {}
         \/ n = 2 /\ \E x, y \in S : x # y
  PROVE  n <= Cardinality(Users)
<1>1. IsFiniteSet(Users) /\ IsFiniteSet(S)
  BY UsersAreFinite, FS_Subset
<1>2. Cardinality(S) <= Cardinality(Users) /\ Cardinality(S) \in Nat /\ Cardinality(Users) \in Nat
  BY <1>1, FS_Subset, FS_CardinalityType
<1>3. CASE n = 1
  BY <1>1, <1>2, <1>3, FS_EmptySet
<1>4. CASE n = 2
  <2>1. Cardinality(S) # 0 /\ Cardinality(S) # 1
    BY <1>1, <1>4, FS_EmptySet, FS_Singleton
  <2> QED
    BY <1>2, <1>4, <2>1
<1> QED
  BY <1>3, <1>4

LEMMA EditTopicTells ==
  ASSUME NewsInv, Reported!NewsfeedAssumption, requests < MaxRequests,
         NEW u \in Users, NEW t \in AllTopics, NEW new \in SUBSET Users, Reported!EditTopic(u, t, new)
  PROVE  NewsInv'
<1> DEFINE added == new \ members[t]
           gone == members[t] \ new
           p == IF added = {} THEN <<>> ELSE <<Reported!Membership(added)>>
           q == IF gone = {} THEN <<>> ELSE <<Reported!Membership(gone)>>
           change == [Reported!Nothing EXCEPT !.people["topic"] = added \cup gone]
<1>1. /\ members' = [members EXCEPT ![t] = new] /\ adders' = [adders EXCEPT ![t] = @ \ gone]
      /\ UNCHANGED <<rows, watched, series>> /\ Manager[t] \in new
      /\ Reported!Begin(u, p \o q, change)
  BY DEF Reported!EditTopic, Reported!Leave
<1>2. members \in [AllTopics -> SUBSET Users] /\ added \subseteq Users /\ gone \subseteq Users
  BY SiteIsOK DEF SiteOK
<1>3. SiteOK'
  <2>1. members' \in [AllTopics -> SUBSET Users]
    BY <1>1, <1>2
  <2>2. ASSUME NEW x \in AllTopics
        PROVE  Manager[x] \in members'[x] /\ adders'[x] \subseteq members'[x]
    BY <1>1, <1>2, SiteIsOK DEF SiteOK
  <2> QED
    BY <1>1, <2>1, <2>2, SiteIsOK DEF SiteOK
<1>4. /\ change \in Reported!Request /\ change.samples = {} /\ change.topics = {}
      /\ \A f \in Reported!Feeds : change.people[f] = IF f = "topic" THEN added \cup gone ELSE {}
  BY <1>2, NothingIsRequest, FeedIsNamed DEF Reported!Request
<1>5. /\ p \in Seq(Reported!Call) /\ Len(p) = (IF added = {} THEN 0 ELSE 1)
      /\ \A c \in Calls(p) : c.feed = "topic" /\ c.people = added /\ c.anew = TRUE
      /\ added # {} => Calls(p) # {}
  <2>1. CASE added = {}
    BY <2>1, NoCalls
  <2>2. CASE added # {}
    <3> DEFINE c == Reported!Membership(added)
    <3>1. c \in Reported!Call /\ c.feed = "topic" /\ c.people = added /\ c.anew = TRUE /\ p = <<c>>
      BY <1>2, <2>2, FeedIsNamed DEF Reported!Membership, Reported!Call
    <3> HIDE DEF c, p, added
    <3> QED
      BY <2>2, <3>1, OneCall
  <2> QED
    BY <2>1, <2>2
<1>6. /\ q \in Seq(Reported!Call) /\ Len(q) = (IF gone = {} THEN 0 ELSE 1)
      /\ \A c \in Calls(q) : c.feed = "topic" /\ c.people = gone /\ c.anew = TRUE
      /\ gone # {} => Calls(q) # {}
  <2>1. CASE gone = {}
    BY <2>1, NoCalls
  <2>2. CASE gone # {}
    <3> DEFINE c == Reported!Membership(gone)
    <3>1. c \in Reported!Call /\ c.feed = "topic" /\ c.people = gone /\ c.anew = TRUE /\ q = <<c>>
      BY <1>2, <2>2, FeedIsNamed DEF Reported!Membership, Reported!Call
    <3> HIDE DEF c, q, gone
    <3> QED
      BY <2>2, <3>1, OneCall
  <2> QED
    BY <2>1, <2>2
<1>7. added \cap gone = {}
  OBVIOUS
<1> HIDE DEF p, q, change, added, gone
<1>8. /\ p \o q \in Seq(Reported!Call) /\ Calls(p \o q) = Calls(p) \cup Calls(q) /\ Len(p \o q) = Len(p) + Len(q)
  BY <1>5, <1>6, MoreCalls
<1>9. Len(p \o q) <= Cardinality(Users)
  <2> DEFINE S == added \cup gone
  <2>1. S \subseteq Users
    BY <1>2
  <2>2. CASE S = {}
    BY <1>5, <1>6, <1>8, <2>2, SiteIsOK
  <2>3. CASE added # {} /\ gone # {}
    <3>1. \E x, y \in S : x # y
      BY <1>7, <2>3
    <3>2. Len(p \o q) = 2
      BY <1>5, <1>6, <1>8, <2>3
    <3> HIDE DEF S
    <3> QED
      BY <2>1, <3>1, <3>2, UsersAreSome
  <2>4. CASE S # {} /\ (added = {} \/ gone = {})
    <3>1. Len(p \o q) = 1
      BY <1>5, <1>6, <1>8, <2>4
    <3> HIDE DEF S
    <3> QED
      BY <2>1, <2>4, <3>1, UsersAreSome
  <2> QED
    BY <2>2, <2>3, <2>4
<1>10. Ordered(p \o q, 1)
  <2>1. \A c \in Calls(<<>>) : c.anew # TRUE
    BY NoCalls
  <2>2. \A c \in Calls(p \o q) : c.anew = TRUE
    BY <1>5, <1>6, <1>8
  <2>3. <<>> \o (p \o q) = p \o q
    BY <1>8
  <2>4. <<>> \in Seq(Reported!Call)
    OBVIOUS
  <2>5. Ordered(<<>> \o (p \o q), 1)
    BY <1>8, <1>9, <2>1, <2>2, <2>4, SiteIsOK, CallsAreOrdered
  <2> QED
    BY <2>3, <2>5
<1>11. ASSUME NEW f \in Reported!Feeds, NEW v \in change.people[f]
       PROVE  \E c \in Calls(p \o q) : c.feed = f /\ v \in c.people /\ c.anew = TRUE
  <2>1. f = "topic" /\ v \in added \cup gone
    BY <1>4, <1>11
  <2>2. CASE v \in added
    BY <1>5, <1>8, <2>1, <2>2
  <2>3. CASE v \in gone
    BY <1>6, <1>8, <2>1, <2>3
  <2> QED
    BY <2>1, <2>2, <2>3
<1>12. Planned(u, p \o q, change)
  BY <1>4, <1>8, <1>10, <1>11 DEF Planned
<1> QED
  BY <1>1, <1>3, <1>12, PlannedIsTold

LEMMA EditSampleTells ==
  ASSUME NewsInv, Reported!NewsfeedAssumption, requests < MaxRequests,
         NEW u \in Users, NEW s \in AllSamples, NEW new \in Reported!Row, NEW important \in BOOLEAN,
         Reported!EditSample(u, s, new, important)
  PROVE  NewsInv'
<1> DEFINE old == rows[s].topic
           handed == new.responsible # rows[s].responsible
           moved == new.topic \notin {Nobody, old}
           a == Reported!Person(new.responsible, important)
           b == Reported!Moved(old, new.topic, important)
           c == Reported!About({s}, important, "sample")
           p == IF handed THEN <<a>> ELSE <<>>
           q == IF moved THEN <<b>> ELSE <<>>
           calls == (p \o q) \o <<c>>
           persons == IF handed THEN {new.responsible} ELSE {}
           changed == IF moved THEN {old, new.topic} \ {Nobody} ELSE {}
           change == [Reported!Nothing EXCEPT !.samples = {s}, !.important = important,
                        !.people["sample"] = persons, !.topics = changed]
<1>1. /\ Reported!Begin(u, calls, change)
      /\ rows' = [rows EXCEPT ![s] = new] /\ UNCHANGED <<members, adders, series>>
      /\ watched' = [v \in Users |-> watched[v] \cup {x \in {s} : v \in Reported!Owed(s, new)}]
  BY DEF Reported!EditSample, Reported!Write
<1>2. SiteOK /\ Cardinality(Users) \in Nat
  BY SiteIsOK
<1>3. /\ new.responsible \in Users /\ new.topic \in AllTopics \cup {Nobody}
      /\ rows[s] \in Reported!Row /\ old \in AllTopics \cup {Nobody}
  BY <1>2 DEF SiteOK, Reported!Row
<1>4. SiteOK'
  BY <1>1, <1>2 DEF SiteOK
<1>5. a \in Reported!Call /\ a.people = {new.responsible} /\ a.feed = "sample" /\ a.anew = FALSE
  BY <1>3, FeedIsNamed DEF Reported!Person, Reported!Call
<1>6. b \in Reported!Call /\ b.topics = {old, new.topic} \ {Nobody} /\ b.feed = "topic" /\ b.anew = FALSE
  BY <1>3, FeedIsNamed DEF Reported!Moved, Reported!Call
<1>7. c \in Reported!Call /\ c.samples = {s} /\ c.important = important /\ c.feed = "sample" /\ c.anew = FALSE
  BY FeedIsNamed DEF Reported!About, Reported!Call
<1>8. persons \subseteq Users /\ changed \subseteq AllTopics
  BY <1>3
<1> HIDE DEF a, b, c, persons, changed
<1>9. /\ change \in Reported!Request /\ change.samples = {s} /\ change.important = important
      /\ change.topics = changed
  <2>1. Reported!Nothing \in Reported!Request
    BY NothingIsRequest
  <2>2. [Reported!Nothing.people EXCEPT !["sample"] = persons] \in [Reported!Feeds -> SUBSET Users]
    BY <1>8, <2>1 DEF Reported!Request
  <2>3. change.samples = {s} /\ change.topics = changed
    BY <2>1 DEF Reported!Request
  <2>4. change.important = important
    BY <2>1 DEF Reported!Request
  <2>5. change \in Reported!Request
    BY <1>8, <2>1, <2>2 DEF Reported!Request
  <2> QED
    BY <2>3, <2>4, <2>5
<1>10. change.feed = "sample"
  BY <1>8, NothingIsRequest, FeedIsNamed DEF Reported!Request, Reported!Nothing
<1>11. \A f \in Reported!Feeds : change.people[f] = IF f = "sample" THEN persons ELSE {}
  BY <1>8, NothingIsRequest, FeedIsNamed DEF Reported!Request
<1> HIDE DEF change
<1>12. /\ p \in Seq(Reported!Call) /\ \A x \in Calls(p) : x.anew = FALSE
       /\ persons # {} => Calls(p) = {a} /\ Len(p) # 0 /\ Head(p) = a /\ persons = a.people
  <2>1. CASE handed
    BY <1>5, <2>1, OneCall DEF persons
  <2>2. CASE ~handed
    BY <2>2, NoCalls DEF persons
  <2> QED
    BY <2>1, <2>2
<1>13. /\ q \in Seq(Reported!Call) /\ \A x \in Calls(q) : x.anew = FALSE
       /\ changed # {} => Calls(q) = {b} /\ changed = b.topics
  <2>1. CASE moved
    BY <1>6, <2>1, OneCall DEF changed
  <2>2. CASE ~moved
    BY <2>2, NoCalls DEF changed
  <2> QED
    BY <2>1, <2>2
<1>14. <<c>> \in Seq(Reported!Call) /\ Calls(<<c>>) = {c} /\ Len(<<c>>) = 1
  BY <1>7, OneCall
<1> HIDE DEF p, q
<1>15. /\ p \o q \in Seq(Reported!Call) /\ Calls(p \o q) = Calls(p) \cup Calls(q)
       /\ Len(p) # 0 => Len(p \o q) # 0 /\ Head(p \o q) = Head(p)
  BY <1>12, <1>13, MoreCalls
<1>16. /\ calls \in Seq(Reported!Call) /\ Calls(calls) = (Calls(p) \cup Calls(q)) \cup {c}
       /\ Len(p) # 0 => Head(calls) = Head(p)
  <2>1. /\ calls \in Seq(Reported!Call) /\ Calls(calls) = Calls(p \o q) \cup Calls(<<c>>)
        /\ Len(p \o q) # 0 => Head(calls) = Head(p \o q)
    BY <1>14, <1>15, MoreCalls
  <2> HIDE DEF calls
  <2> QED
    BY <1>14, <1>15, <2>1
<1> HIDE DEF calls
<1>17. Ordered(calls, 1)
  BY <1>2, <1>7, <1>12, <1>13, <1>16, PlainCallsAreOrdered
<1>18. ASSUME NEW f \in Reported!Feeds, NEW v \in change.people[f]
       PROVE  \E x \in Calls(calls) : x.feed = f /\ v \in x.people /\ (x.anew = TRUE \/ x = Head(calls))
  <2>1. f = "sample" /\ v \in persons
    BY <1>11, <1>18
  <2>2. a \in Calls(calls) /\ a = Head(calls) /\ v \in a.people
    BY <1>12, <1>16, <2>1
  <2> QED
    BY <1>5, <2>1, <2>2
<1>19. \A t \in change.topics : \E x \in Calls(calls) : x.feed = "topic" /\ t \in x.topics
  BY <1>6, <1>9, <1>13, <1>16
<1>20. \A y \in change.samples : \E x \in Calls(calls) :
         x.feed = change.feed /\ y \in x.samples /\ x.important = change.important
  BY <1>7, <1>9, <1>10, <1>16
<1>21. Planned(u, calls, change)
  BY <1>9, <1>16, <1>17, <1>18, <1>19, <1>20 DEF Planned
<1> QED
  BY <1>1, <1>4, <1>21, PlannedIsTold

(* The calls for a bulk edit: for each old topic of samples that move, and *)
(* for each user who gets copies.                                          *)
MovedFrom(old, topic) == [i \in DOMAIN old |-> Reported!Moved(old[i], topic, TRUE)]
CopiedTo(copy) == [i \in 1 .. Reported!Cardinality(copy) |->
                     [Reported!Person(Reported!SetToSeq(copy)[i], TRUE) EXCEPT !.anew = TRUE]]

LEMMA MovesAreCalls ==
  ASSUME Reported!NewsfeedAssumption, SiteOK, NEW ss, ss \subseteq AllSamples, NEW topic \in AllTopics \cup {Nobody},
         NEW old \in Reported!SetToSeqs(Reported!OldTopics(ss, topic))
  PROVE  /\ MovedFrom(old, topic) \in Seq(Reported!Call)
         /\ \A c \in Calls(MovedFrom(old, topic)) : c.feed = "topic" /\ c.anew = FALSE
         /\ \A t \in IF old = <<>> THEN {} ELSE (Reported!ToSet(old) \cup {topic}) \ {Nobody} :
              t \in AllTopics /\ \E c \in Calls(MovedFrom(old, topic)) : t \in c.topics
<1> DEFINE S == Reported!OldTopics(ss, topic)
           n == Reported!Cardinality(S)
           q == MovedFrom(old, topic)
<1>1. S \subseteq AllTopics \cup {Nobody} /\ IsFiniteSet(S)
  <2>1. S \subseteq AllTopics \cup {Nobody}
    BY DEF Reported!OldTopics, SiteOK, Reported!Row
  <2>2. IsFiniteSet(AllTopics \cup {Nobody})
    BY UsersAreFinite, FS_AddElement
  <2> QED
    BY <2>1, <2>2, FS_Subset
<1>2. n \in Nat /\ old \in [1 .. n -> S]
  <2>1. n \in Nat
    BY <1>1, SizesAreSizes, FS_CardinalityType
  <2> QED
    BY <2>1 DEF Reported!SetToSeqs
<1> HIDE DEF S, n
<1>3. ASSUME NEW i \in 1 .. n
      PROVE  LET c == Reported!Moved(old[i], topic, TRUE) IN
               c \in Reported!Call /\ c.feed = "topic" /\ c.anew = FALSE /\ c.topics = {old[i], topic} \ {Nobody}
  <2>1. old[i] \in AllTopics \cup {Nobody}
    BY <1>1, <1>2
  <2> QED
    BY <2>1, FeedIsNamed DEF Reported!Moved, Reported!Call
<1>4. /\ q \in Seq(Reported!Call) /\ Len(q) = n /\ \A i \in 1 .. n : q[i] = Reported!Moved(old[i], topic, TRUE)
  <2>1. DOMAIN old = 1 .. n
    BY <1>2
  <2>2. q = [i \in 1 .. n |-> Reported!Moved(old[i], topic, TRUE)]
    BY <2>1 DEF MovedFrom
  <2>3. q \in [1 .. n -> Reported!Call]
    BY <1>3, <2>2
  <2>4. ASSUME NEW i \in 1 .. n
        PROVE  q[i] = Reported!Moved(old[i], topic, TRUE)
    BY <2>2
  <2> HIDE DEF q
  <2>5. q \in Seq(Reported!Call) /\ Len(q) = n
    BY <1>2, <2>3
  <2> QED
    BY <2>4, <2>5
<1> HIDE DEF q
<1>5. \A c \in Calls(q) : c.feed = "topic" /\ c.anew = FALSE
  <2> SUFFICES ASSUME NEW c \in Calls(q)
               PROVE  c.feed = "topic" /\ c.anew = FALSE
    OBVIOUS
  <2>1. PICK i \in 1 .. n : c = q[i]
    BY <1>4 DEF Calls
  <2>2. c = Reported!Moved(old[i], topic, TRUE)
    BY <1>4, <2>1
  <2> QED
    BY <1>3, <2>2, Zenon
<1>6. ASSUME old # <<>>, NEW t \in (Reported!ToSet(old) \cup {topic}) \ {Nobody}
      PROVE  t \in AllTopics /\ \E c \in Calls(q) : t \in c.topics
  <2>1. 1 \in 1 .. n
    BY <1>2, <1>6
  <2>2. PICK i \in 1 .. n : t = old[i] \/ t = topic
    BY <1>2, <1>6, <2>1 DEF Reported!ToSet
  <2>3. t \in {old[i], topic} \ {Nobody}
    BY <1>6, <2>2
  <2>4. q[i] \in Calls(q) /\ t \in q[i].topics
    BY <1>3, <1>4, <2>3 DEF Calls
  <2>5. t \in AllTopics
    BY <1>1, <1>2, <2>3
  <2> QED
    BY <2>4, <2>5
<1>7. \A t \in IF old = <<>> THEN {} ELSE (Reported!ToSet(old) \cup {topic}) \ {Nobody} :
        t \in AllTopics /\ \E c \in Calls(q) : t \in c.topics
  BY <1>6
<1> QED
  BY <1>4, <1>5, <1>7 DEF q

LEMMA CopiesAreCalls ==
  ASSUME Reported!NewsfeedAssumption, NEW copy \in SUBSET Users
  PROVE  /\ CopiedTo(copy) \in Seq(Reported!Call) /\ Len(CopiedTo(copy)) <= Cardinality(Users)
         /\ \A c \in Calls(CopiedTo(copy)) : c.anew = TRUE
         /\ \A v \in copy : \E c \in Calls(CopiedTo(copy)) : c.feed = "sample" /\ v \in c.people
<1> DEFINE n == Cardinality(copy)
           f == Reported!SetToSeq(copy)
           q == CopiedTo(copy)
<1>1. IsFiniteSet(copy) /\ n <= Cardinality(Users) /\ n \in Nat
  BY UsersAreFinite, FS_Subset, FS_CardinalityType
<1>2. f \in [1 .. n -> copy] /\ \A v \in copy : \E i \in 1 .. n : f[i] = v
  BY <1>1, SetsAreListed
<1> HIDE DEF n, f
<1>3. ASSUME NEW i \in 1 .. n
      PROVE  LET c == [Reported!Person(f[i], TRUE) EXCEPT !.anew = TRUE] IN
               c \in Reported!Call /\ c.feed = "sample" /\ c.anew = TRUE /\ c.people = {f[i]}
  <2>1. f[i] \in Users
    BY <1>2
  <2> QED
    BY <2>1, FeedIsNamed DEF Reported!Person, Reported!Call
<1>4. /\ q \in Seq(Reported!Call) /\ Len(q) = n
      /\ \A i \in 1 .. n : q[i] = [Reported!Person(f[i], TRUE) EXCEPT !.anew = TRUE]
  <2>1. q = [i \in 1 .. n |-> [Reported!Person(f[i], TRUE) EXCEPT !.anew = TRUE]]
    BY SizesAreSizes DEF CopiedTo, n, f
  <2>2. q \in [1 .. n -> Reported!Call]
    BY <1>3, <2>1
  <2>3. ASSUME NEW i \in 1 .. n
        PROVE  q[i] = [Reported!Person(f[i], TRUE) EXCEPT !.anew = TRUE]
    BY <2>1
  <2> HIDE DEF q
  <2>4. q \in Seq(Reported!Call) /\ Len(q) = n
    BY <1>1, <2>2
  <2> QED
    BY <2>3, <2>4
<1> HIDE DEF q
<1>5. \A c \in Calls(q) : c.anew = TRUE
  <2> SUFFICES ASSUME NEW c \in Calls(q)
               PROVE  c.anew = TRUE
    OBVIOUS
  <2>1. PICK i \in 1 .. n : c = q[i]
    BY <1>4 DEF Calls
  <2>2. c = [Reported!Person(f[i], TRUE) EXCEPT !.anew = TRUE]
    BY <1>4, <2>1
  <2> QED
    BY <1>3, <2>2, Zenon
<1>6. ASSUME NEW v \in copy
      PROVE  \E c \in Calls(q) : c.feed = "sample" /\ v \in c.people
  <2>1. PICK i \in 1 .. n : f[i] = v
    BY <1>2
  <2>2. q[i] \in Calls(q)
    BY <1>4 DEF Calls
  <2>3. q[i].feed = "sample" /\ v \in q[i].people
    BY <1>3, <1>4, <2>1
  <2> QED
    BY <2>2, <2>3
<1> QED
  BY <1>1, <1>4, <1>5, <1>6 DEF q

LEMMA EditMySamplesTells ==
  ASSUME NewsInv, Reported!NewsfeedAssumption, requests < MaxRequests,
         NEW u \in Users, NEW ss \in SUBSET watched[u], NEW who \in Users \cup {Nobody},
         NEW topic \in AllTopics \cup {Nobody}, NEW copy \in SUBSET (Users \ {u}), NEW drop \in BOOLEAN,
         NEW old \in Reported!SetToSeqs(Reported!OldTopics(ss, topic)),
         Reported!EditMySamples(u, ss, who, topic, copy, drop, old)
  PROVE  NewsInv'
<1> DEFINE New(s) == [responsible |-> IF who = Nobody THEN rows[s].responsible ELSE who,
                      topic |-> IF topic = Nobody THEN rows[s].topic ELSE topic]
           handed == {s \in ss : New(s).responsible # rows[s].responsible}
           edited == who # Nobody \/ topic # Nobody
           a == Reported!Person(who, TRUE)
           c == Reported!About(Reported!Left(ss, old), TRUE, "sample")
           p == IF handed = {} THEN <<>> ELSE <<a>>
           q == MovedFrom(old, topic)
           r == IF edited THEN <<c>> ELSE <<>>
           z == CopiedTo(copy)
           calls == ((p \o q) \o r) \o z
           persons == copy \cup IF handed = {} THEN {} ELSE {who}
           changed == IF old = <<>> THEN {} ELSE (Reported!ToSet(old) \cup {topic}) \ {Nobody}
           edited_ones == IF edited THEN ss ELSE {}
           change == [Reported!Nothing EXCEPT !.samples = edited_ones, !.bulk = TRUE,
                        !.people["sample"] = persons, !.topics = changed]
<1>1. /\ Reported!Begin(u, calls, change)
      /\ rows' = [s \in AllSamples |-> IF s \in ss THEN New(s) ELSE rows[s]]
      /\ UNCHANGED <<members, adders, series>>
      /\ watched' = [v \in Users |->
           (watched[v] \cup {s \in ss : v \in Reported!Owed(s, New(s)) \cup copy})
           \ IF v = u /\ drop THEN ss ELSE {}]
  BY DEF Reported!EditMySamples, Reported!Write, MovedFrom, CopiedTo
<1>2. SiteOK /\ Cardinality(Users) \in Nat /\ ss \subseteq AllSamples
  BY SiteIsOK DEF SiteOK
<1>3. \A s \in ss : New(s) \in Reported!Row
  BY <1>2 DEF SiteOK, Reported!Row
<1>4. handed # {} => who \in Users
  OBVIOUS
<1>5. SiteOK'
  <2>1. rows' \in [AllSamples -> Reported!Row]
    BY <1>1, <1>2, <1>3 DEF SiteOK
  <2>2. watched' \in [Users -> SUBSET AllSamples]
    BY <1>1, <1>2 DEF SiteOK
  <2> QED
    BY <1>1, <1>2, <2>1, <2>2 DEF SiteOK
<1>6. handed # {} => a \in Reported!Call /\ a.people = {who} /\ a.feed = "sample" /\ a.anew = FALSE
  BY <1>4, FeedIsNamed DEF Reported!Person, Reported!Call
<1>7. c \in Reported!Call /\ c.anew = FALSE
  <2>1. Reported!Left(ss, old) \subseteq AllSamples
    BY <1>2 DEF Reported!Left, Reported!Group
  <2> QED
    BY <2>1, FeedIsNamed DEF Reported!About, Reported!Call
<1>8. /\ q \in Seq(Reported!Call) /\ \A x \in Calls(q) : x.feed = "topic" /\ x.anew = FALSE
      /\ \A t \in changed : t \in AllTopics /\ \E x \in Calls(q) : t \in x.topics
  BY <1>2, MovesAreCalls
<1>9. /\ z \in Seq(Reported!Call) /\ Len(z) <= Cardinality(Users) /\ \A x \in Calls(z) : x.anew = TRUE
      /\ \A v \in copy : \E x \in Calls(z) : x.feed = "sample" /\ v \in x.people
  BY CopiesAreCalls
<1>10. persons \subseteq Users /\ changed \subseteq AllTopics /\ edited_ones \subseteq AllSamples
  BY <1>2, <1>4, <1>8
<1> HIDE DEF New, a, c, q, z, changed, edited_ones, edited
<1>11. /\ p \in Seq(Reported!Call) /\ \A x \in Calls(p) : x.anew = FALSE
       /\ handed = {} => persons = copy
       /\ handed # {} => persons = copy \cup {who} /\ Calls(p) = {a} /\ Len(p) # 0 /\ Head(p) = a
  <2>1. CASE handed = {}
    BY <2>1, NoCalls
  <2>2. CASE handed # {}
    BY <1>6, <2>2, OneCall
  <2> QED
    BY <2>1, <2>2
<1>12. r \in Seq(Reported!Call) /\ \A x \in Calls(r) : x.anew = FALSE
  <2>1. CASE edited
    BY <1>7, <2>1, OneCall
  <2>2. CASE ~edited
    BY <2>2, NoCalls
  <2> QED
    BY <2>1, <2>2
<1> HIDE DEF persons, handed
<1>13. /\ change \in Reported!Request /\ change.bulk = TRUE /\ change.topics = changed
  <2>1. Reported!Nothing \in Reported!Request
    BY NothingIsRequest
  <2>2. [Reported!Nothing.people EXCEPT !["sample"] = persons] \in [Reported!Feeds -> SUBSET Users]
    BY <1>10, <2>1 DEF Reported!Request
  <2>3. change.topics = changed
    BY <2>1 DEF Reported!Request
  <2>4. change.bulk = TRUE
    BY <2>1 DEF Reported!Request
  <2>5. change \in Reported!Request
    BY <1>10, <2>1, <2>2 DEF Reported!Request
  <2> QED
    BY <2>3, <2>4, <2>5
<1>14. \A f \in Reported!Feeds : change.people[f] = IF f = "sample" THEN persons ELSE {}
  BY <1>10, NothingIsRequest, FeedIsNamed DEF Reported!Request
<1> HIDE DEF change, p, r
<1> DEFINE pq == p \o q
           pqr == pq \o r
<1>15. /\ pq \in Seq(Reported!Call) /\ Calls(pq) = Calls(p) \cup Calls(q)
       /\ Len(p) # 0 => Len(pq) # 0 /\ Head(pq) = Head(p)
  BY <1>8, <1>11, MoreCalls
<1> HIDE DEF pq
<1>16. /\ pqr \in Seq(Reported!Call) /\ Calls(pqr) = Calls(pq) \cup Calls(r)
       /\ Len(pq) # 0 => Len(pqr) # 0 /\ Head(pqr) = Head(pq)
  BY <1>12, <1>15, MoreCalls
<1> HIDE DEF pqr
<1>17. /\ pqr \o z \in Seq(Reported!Call) /\ Calls(pqr \o z) = Calls(pqr) \cup Calls(z)
       /\ Len(pqr) # 0 => Head(pqr \o z) = Head(pqr)
  BY <1>9, <1>16, MoreCalls
<1>18. calls = pqr \o z
  BY DEF pq, pqr
<1> HIDE DEF calls
<1>19. /\ calls \in Seq(Reported!Call) /\ Calls(calls) = ((Calls(p) \cup Calls(q)) \cup Calls(r)) \cup Calls(z)
       /\ Len(p) # 0 => Head(calls) = Head(p)
  BY <1>15, <1>16, <1>17, <1>18
<1>20. Ordered(calls, 1)
  <2>1. \A x \in Calls(pqr) : x.anew # TRUE
    BY <1>8, <1>11, <1>12, <1>15, <1>16
  <2> QED
    BY <1>2, <1>9, <1>16, <1>18, <2>1, CallsAreOrdered
<1>21. ASSUME NEW f \in Reported!Feeds, NEW v \in change.people[f]
       PROVE  \E x \in Calls(calls) : x.feed = f /\ v \in x.people /\ (x.anew = TRUE \/ x = Head(calls))
  <2>1. f = "sample" /\ v \in persons
    BY <1>14, <1>21
  <2>2. CASE v \in copy
    BY <1>9, <1>19, <2>1, <2>2
  <2>3. CASE v \notin copy
    <3>1. a \in Calls(calls) /\ a = Head(calls) /\ v = who /\ handed # {}
      BY <1>11, <1>19, <2>1, <2>3
    <3> QED
      BY <1>6, <2>1, <3>1
  <2> QED
    BY <2>2, <2>3
<1>22. \A t \in change.topics : \E x \in Calls(calls) : x.feed = "topic" /\ t \in x.topics
  BY <1>8, <1>13, <1>19
<1>23. Planned(u, calls, change)
  BY <1>13, <1>19, <1>20, <1>21, <1>22 DEF Planned
<1>24. Reported!Begin(u, calls, change)
  BY <1>1
<1> QED
  BY <1>5, <1>23, <1>24, PlannedIsTold

LEMMA NewsStarts ==
  ASSUME Reported!NewsfeedAssumption, Reported!Init
  PROVE  NewsInv
<1>1. /\ rows = Founded /\ members = FirstMembers /\ adders = FirstMembers /\ series = Nobody
      /\ pending = <<>> /\ informed = {} /\ entries = <<>> /\ request = Reported!Nothing /\ requests = 0
  BY DEF Reported!Init
<1>2. originator \in Users
  BY DEF Reported!Init, Reported!NewsfeedAssumption
<1>3. watched \in [Users -> SUBSET AllSamples]
  BY DEF Reported!Init
<1>4. Reported!TypeOK
  BY <1>1, <1>2, <1>3, NothingIsRequest DEF Reported!TypeOK, Reported!NewsfeedAssumption
<1>5. Cardinality(Users) \in Nat
  BY UsersAreFinite, FS_CardinalityType
<1>6. Ordered(pending, 1) /\ Calls(pending) = {}
  BY <1>1, <1>5, NoCalls, PlainCallsAreOrdered
<1>7. DOMAIN entries = {} /\ Number = 1 /\ Reported!Told = {}
  BY <1>1 DEF Number, Reported!Told
<1>8. Reporters
  BY <1>1, <1>6, <1>7 DEF Reporters
<1>9. PersonsWait /\ WatchersWait
  BY <1>1, NothingIsRequest DEF PersonsWait, WatchersWait
<1>10. MembersWait
  BY <1>1, NothingIsRequest, WhoIsMember DEF MembersWait
<1> QED
  BY <1>4, <1>8, <1>9, <1>10 DEF NewsInv

LEMMA RequestsTell ==
  ASSUME NewsInv, Reported!NewsfeedAssumption, NEW u \in Users, Reported!ServeNext(u)
  PROVE  NewsInv'
<1> requests < MaxRequests /\ Reported!Serve(u)
  BY DEF Reported!ServeNext
<1>1. CASE \E s \in AllSamples : Reported!Collect(u, s)
  BY <1>1, CollectTells
<1>2. CASE \E s \in AllSamples, new \in Reported!Row, important \in BOOLEAN : Reported!EditSample(u, s, new, important)
  BY <1>2, EditSampleTells
<1>3. CASE \E ss \in SUBSET watched[u], who \in Users \cup {Nobody}, topic \in AllTopics \cup {Nobody},
             copy \in SUBSET (Users \ {u}), drop \in BOOLEAN :
             \E old \in Reported!SetToSeqs(Reported!OldTopics(ss, topic)) :
               Reported!EditMySamples(u, ss, who, topic, copy, drop, old)
  BY <1>3, EditMySamplesTells
<1>4. CASE \E ss \in SUBSET AllSamples, important, finished \in BOOLEAN :
             Reported!SaveProcess(u, ss, important, finished)
  BY <1>4, SaveProcessTells
<1>5. CASE \E t \in AllTopics, ss \in SUBSET watched[u] : Reported!NewSampleSeries(u, t, ss)
  BY <1>5, NewSampleSeriesTells
<1>6. CASE \E new \in Reported!Series, important \in BOOLEAN : Reported!EditSampleSeries(u, new, important)
  BY <1>6, EditSampleSeriesTells
<1>7. CASE \E t \in AllTopics, new \in SUBSET Users : Reported!EditTopic(u, t, new)
  BY <1>7, EditTopicTells
<1> QED
  BY <1>1, <1>2, <1>3, <1>4, <1>5, <1>6, <1>7, Zenon DEF Reported!Serve

LEMMA NothingTellsNothing ==
  ASSUME NewsInv, UNCHANGED Reported!vars
  PROVE  NewsInv'
<1>1. UNCHANGED news_vars
  BY DEF Reported!vars, Reported!reporter, news_vars
<1>2. Reported!TypeOK'
  BY <1>1 DEF NewsInv, Reported!TypeOK, news_vars
<1>3. Reported!Told' = Reported!Told /\ Number' = Number /\ \A f : Reported!ToldIn(f)' = Reported!ToldIn(f)
  BY <1>1 DEF Reported!Told, Reported!ToldIn, Number, news_vars
<1>4. Reporters' /\ PersonsWait'
  <2>1. UNCHANGED <<originator, pending, informed, entries, request>>
    BY <1>1 DEF news_vars
  <2>2. Reported!Told' = Reported!Told /\ Number' = Number
    BY <1>3
  <2>3. Reporters'
    BY <2>1, <2>2 DEF NewsInv, Reporters
  <2>4. PersonsWait'
    BY <1>3, <2>1 DEF NewsInv, PersonsWait
  <2> QED
    BY <2>3, <2>4
<1>5. \A ts : Reported!TopicMembers(ts)' = Reported!TopicMembers(ts)
  BY <1>1 DEF Reported!TopicMembers, news_vars
<1>6. \A x : Reported!Viewers(x)' = Reported!Viewers(x)
  BY <1>1 DEF Reported!Viewers, news_vars
<1>7. \A ss, important : Reported!Watchers(ss, important)' = Reported!Watchers(ss, important)
  BY <1>1, <1>6 DEF Reported!Watchers, news_vars
<1>8. MembersWait' /\ WatchersWait'
  BY <1>1, <1>3, <1>5, <1>7 DEF NewsInv, MembersWait, WatchersWait, news_vars
<1> QED
  BY <1>2, <1>4, <1>8 DEF NewsInv

LEMMA NoCallsLeft ==
  ASSUME NewsInv
  PROVE  EverybodyHearsOnce
<1>1. Calls(<<>>) = {}
  BY NoCalls
<1>2. Reported!NobodyTwice
  BY DEF NewsInv, Reporters, Reported!NobodyTwice
<1>3. Reported!PersonsHear
  BY <1>1 DEF NewsInv, PersonsWait, Reported!PersonsHear
<1>4. Reported!MembersHearOfMoves
  BY <1>1 DEF NewsInv, MembersWait, Reported!MembersHearOfMoves
<1>5. Reported!WatchersHear
  <2> SUFFICES ASSUME pending = <<>>, request.bulk # TRUE,
                      NEW v \in (Reported!Watchers(request.samples, request.important) \cap Readers[request.feed]) \ {originator}
               PROVE  v \in Reported!Told
    <3>1. request.bulk \in BOOLEAN
      BY DEF NewsInv, Reported!TypeOK, Reported!Request
    <3> QED
      BY <3>1 DEF Reported!WatchersHear, Reported!AllWatchersHear
  <2>1. PICK s \in request.samples : v \in Reported!Watchers({s}, request.important)
    BY DEF Reported!Watchers
  <2> QED
    BY <1>1, <2>1 DEF NewsInv, WatchersWait
<1> QED
  BY <1>2, <1>3, <1>4, <1>5 DEF NewsInv, EverybodyHearsOnce, Reported!EverybodyHearsOnce

(* Whoever is concerned by a request hears of it, and nobody hears of the  *)
(* same twice from one Reporter.                                           *)
THEOREM NewsReachEverybody == Reported!NewsfeedAssumption => (Reported!Spec => []EverybodyHearsOnce)
<1> SUFFICES ASSUME Reported!NewsfeedAssumption
             PROVE  Reported!Spec => []EverybodyHearsOnce
  OBVIOUS
<1>1. Reported!Init => NewsInv
  BY NewsStarts
<1>2. NewsInv /\ [Reported!Next]_Reported!vars => NewsInv'
  <2> SUFFICES ASSUME NewsInv, [Reported!Next]_Reported!vars
               PROVE  NewsInv'
    OBVIOUS
  <2>1. CASE Reported!Report
    BY <2>1, ReportTells
  <2>2. CASE \E u \in Users : Reported!ServeNext(u)
    BY <2>2, RequestsTell
  <2>3. CASE \E u \in Users, s \in AllSamples : Reported!Forget(u, s)
    BY <2>3, ForgetTells
  <2>4. CASE UNCHANGED Reported!vars
    BY <2>4, NothingTellsNothing
  <2> QED
    BY <2>1, <2>2, <2>3, <2>4, Zenon DEF Reported!Next
<1>3. NewsInv => EverybodyHearsOnce
  BY NoCallsLeft
<1> QED
  BY <1>1, <1>2, <1>3, PTL DEF Reported!Spec

-----------------------------------------------------------------------------
(* Permissions: what the requests that have begun are going to do fits to  *)
(* what is in the database, unless they overlap with others that deal with *)
(* the same users or topics.                                               *)

TopicRow == [confidential : BOOLEAN, manager : People, members : SUBSET People, parent : TopicIds \cup {Nobody}]

(* The tables.                                                             *)
RulesTypes ==
  /\ active \subseteq People /\ superuser \subseteq active
  /\ DOMAIN granted = People /\ DOMAIN office = People
  /\ DOMAIN topics = TopicIds
  /\ \A t \in Ruled!Topics : topics[t] \in TopicRow /\ topics[t].parent \in Ruled!Topics \cup {Nobody}
  /\ followers \in [TopicIds -> SUBSET People]
  /\ \A t \in TopicIds \ Ruled!Topics : followers[t] = {}
  /\ clearances \in [People -> [Wafers -> SUBSET Events]]
  /\ served \in 0 .. MaxServed

(* A sub-topic that does not follow was added by a request that overlapped *)
(* another one, as was its manager.                                        *)
SubtopicsAgree ==
  \A t \in Ruled!Topics : topics[t].parent # Nobody =>
    \/ /\ topics[t].confidential = topics[topics[t].parent].confidential
       /\ topics[t].manager = topics[topics[t].parent].manager
    \/ {t, topics[t].manager} \subseteq overlapped

(* An edit makes the manager a member; members do not lose this by others' *)
(* requests, except by leaving the institute.                              *)
ManagersAreMembers ==
  \A t \in Ruled!Topics \ (fresh \cup overlapped) :
    topics[t].parent = Nobody /\ topics[t].manager \in active => topics[t].manager \in topics[t].members

(* What the database always is like.                                       *)
RulesOK ==
  /\ RulesTypes
  /\ Ruled!ManagersMayEditTopics
  /\ Ruled!NoManagersWithoutTopic
  /\ SubtopicsAgree
  /\ Ruled!AddersAreMembers
  /\ ManagersAreMembers
  /\ Ruled!PermissionEditorsMayDoAll
  /\ Ruled!ClearedForTheSheet

(* The permissions of a user after what a request is going to do.          *)
Remaining(v, q) ==
  (granted[v] \ {m[2] : m \in {n \in q.revokes : n[1] = v}}) \cup {m[2] : m \in {n \in q.grants : n[1] = v}}

(* A request knows whom and what it touches.                               *)
PlanTypes(q) ==
  /\ DOMAIN q = DOMAIN Ruled!Plan /\ q.phase \in {"form", "new", "written"}
  /\ DOMAIN q.row \subseteq q.touches \cap TopicIds
  /\ \A c \in DOMAIN q.row :
       q.row[c] \in TopicRow /\ q.row[c].parent \in Ruled!Topics \cup {Nobody} /\ q.row[c].manager \in q.touches
  /\ IF q.topic = Nobody THEN DOMAIN q.row = {} ELSE q.topic \in DOMAIN q.row
  /\ q.members \cup q.nonmembers \cup q.adders \cup q.nonadders \subseteq TopicIds \X People
  /\ \A m \in q.members \cup q.nonmembers : m[1] \in DOMAIN q.row
  /\ \A g \in q.grants \cup q.revokes : g = <<g[1], g[2]>> /\ g[1] \in q.touches

(* Requests that are not about a topic leave alone what topics give.       *)
PlanRights(q) == \A v \in People \ overlapped :
  /\ "edit_permissions" \in Remaining(v, q) => Ruled!ProcessPermissions \subseteq Remaining(v, q)
  /\ q.topic = Nobody => \A p \in Ruled!TopicPermissions : p \in Remaining(v, q) <=> p \in granted[v]

(* Auto-adders are put to topics they are members of, and removed with the *)
(* members.                                                                *)
PlanAdders(q) ==
  /\ \A a \in q.adders :
       IF a[1] = q.topic THEN a \in q.members
       ELSE /\ a[1] \in Ruled!Topics /\ a[2] \in q.touches
            /\ topics[a[1]].parent = Nobody /\ a[2] \notin overlapped => a[2] \in topics[a[1]].members
  /\ \A n \in q.nonmembers :
       n[1] \in Ruled!Topics /\ (topics[n[1]].parent = Nobody => n \in q.nonadders /\ n[2] \in q.touches)

(* Preferences, permissions, the directory.                                *)
SimplePlan(q) == q.topic = Nobody /\ q.phase = "written"

(* A new topic.                                                            *)
NewPlan(q) ==
  /\ q.topic \in TopicIds \ Ruled!Topics /\ DOMAIN q.row = {q.topic} /\ q.phase # "form"
  /\ q.nonmembers = {} /\ q.revokes = {}
  /\ q.grants = {<<q.row[q.topic].manager, "edit_their_topics">>}
  /\ LET upper == q.row[q.topic].parent IN upper # Nobody =>
       /\ upper \in q.touches
       /\ \/ /\ q.row[q.topic].confidential = topics[upper].confidential
             /\ q.row[q.topic].manager = topics[upper].manager
          \/ {q.topic, q.row[q.topic].manager} \subseteq overlapped

(* An edited topic with its sub-topics: before, they have the old manager. *)
EditRows(q) ==
  /\ q.phase = "form" => DOMAIN q.row = {q.topic}
  /\ \A c \in DOMAIN q.row :
       /\ c \in Ruled!Topics /\ q.row[c].parent = topics[c].parent
       /\ q.row[c].manager = q.row[q.topic].manager /\ q.row[c].confidential = q.row[q.topic].confidential
       /\ topics[c].manager \in {q.old} \cup overlapped
       /\ c # q.topic => topics[c].parent \in DOMAIN q.row

(* A sub-topic that is not edited, too, has been added in between.         *)
EditFamily(q) == q.phase = "written" =>
  \A c \in Ruled!Topics \ DOMAIN q.row :
    topics[c].parent \in DOMAIN q.row => {c, topics[c].manager} \subseteq overlapped

(* The new manager is going to be a member.                                *)
EditMember(q, new) == q.topic \notin overlapped /\ new \in active =>
  \/ <<q.topic, new>> \in q.members
  \/ new \in topics[q.topic].members /\ <<q.topic, new>> \notin q.nonmembers

(* The new manager gets the permission, the old one loses it with the last *)
(* topic.                                                                  *)
EditRights(q, new) ==
  /\ q.grants \subseteq {<<new, "edit_their_topics">>}
  /\ q.revokes \subseteq {<<q.old, "edit_their_topics">>}
  /\ q.old \notin overlapped => topics[q.topic].manager = q.old
  /\ q.revokes # {} => q.old # new
  /\ q.phase = "written" /\ q.old # new =>
       /\ new \notin overlapped => q.grants # {} \/ Ruled!can_edit_users_topics(new)
       /\ q.old \notin overlapped => (q.revokes # {} <=> \A t \in Ruled!Topics \ DOMAIN q.row : topics[t].manager # q.old)

EditPlan(q) ==
  /\ q.topic \in Ruled!Topics /\ topics[q.topic].parent = Nobody /\ q.phase # "new"
  /\ q.adders = {} /\ q.old \in q.touches
  /\ EditRows(q)
  /\ EditFamily(q)
  /\ EditMember(q, q.row[q.topic].manager)
  /\ EditRights(q, q.row[q.topic].manager)

(* What a request is going to do fits to the database as it is, as far as  *)
(* it has not overlapped with others.                                      *)
PlanFits(q) ==
  /\ PlanTypes(q)
  /\ PlanRights(q)
  /\ PlanAdders(q)
  /\ SimplePlan(q) \/ NewPlan(q) \/ EditPlan(q)

DesksFit ==
  /\ \A u \in People : \A r \in {office[u]} : r # Ruled!Idle => PlanFits(r)
  /\ \A u, v \in People : u # v /\ office[u] # Ruled!Idle /\ office[v] # Ruled!Idle /\ office[u].topic = office[v].topic
                           => office[u].topic \notin TopicIds \ Ruled!Topics

AccountsInv == RulesOK /\ DesksFit

LEMMA TopicsAreThere ==
  ASSUME NEW r \in TopicRow
  PROVE  r # Ruled!Missing
<1>1. DOMAIN r = {"confidential", "manager", "members", "parent"}
  BY DEF TopicRow
<1>2. DOMAIN Ruled!Missing = {"missing"}
  BY DEF Ruled!Missing
<1> QED
  BY <1>1, <1>2

LEMMA RemainingRights ==
  ASSUME NEW v, NEW q, NEW p, \A g \in q.grants \cup q.revokes : g = <<g[1], g[2]>>
  PROVE  p \in Remaining(v, q) <=> <<v, p>> \in q.grants \/ (p \in granted[v] /\ <<v, p>> \notin q.revokes)
<1>1. p \in {m[2] : m \in {n \in q.grants : n[1] = v}} <=> <<v, p>> \in q.grants
  OBVIOUS
<1>2. p \in {m[2] : m \in {n \in q.revokes : n[1] = v}} <=> <<v, p>> \in q.revokes
  OBVIOUS
<1> QED
  BY <1>1, <1>2 DEF Remaining

LEMMA PairsOf ==
  ASSUME NEW t, NEW v, NEW S \in SUBSET (TopicIds \X People)
  PROVE  v \in {m[2] : m \in {n \in S : n[1] = t}} <=> <<t, v>> \in S
OBVIOUS

(* What a commit changes.                                                  *)
LEMMA CommitChanges ==
  ASSUME Ruled!AccountsAssumption, RulesTypes, NEW u \in People, NEW q, q = office[u], PlanTypes(q), Ruled!Commit(u)
  PROVE  /\ Ruled!Topics' = Ruled!Topics \cup DOMAIN q.row
         /\ \A t \in Ruled!Topics' :
              /\ topics'[t] \in TopicRow
              /\ LET old == IF t \in DOMAIN q.row THEN q.row[t] ELSE topics[t] IN
                 /\ topics'[t].parent = old.parent
                 /\ topics'[t].manager = old.manager
                 /\ topics'[t].confidential = old.confidential
              /\ t \notin DOMAIN q.row => topics'[t].members = topics[t].members
         /\ \A t \in Ruled!Topics', v \in People : v \in topics'[t].members <=>
              \/ <<t, v>> \in q.members
              \/ t \in Ruled!Topics /\ v \in topics[t].members /\ <<t, v>> \notin q.nonmembers
         /\ \A t \in TopicIds, v \in People : v \in followers'[t] <=>
              \/ <<t, v>> \in q.adders
              \/ v \in followers[t] /\ <<t, v>> \notin q.nonadders
         /\ \A v \in People : granted'[v] = Remaining(v, q)
         /\ DOMAIN topics' = TopicIds /\ DOMAIN granted' = People /\ DOMAIN office' = People
         /\ followers' \in [TopicIds -> SUBSET People]
         /\ overlapped \subseteq overlapped'
         /\ \A v \in People \ {u} : office[v] # Ruled!Idle /\ office[v].touches \cap q.touches # {} =>
              q.touches \cup office[v].touches \subseteq overlapped'
         /\ \A v \in People \ {u} : office'[v] = office[v]
         /\ office'[u] = Ruled!Idle
         /\ UNCHANGED <<active, superuser, clearances, served>>
         /\ q # Ruled!Idle /\ q.phase = "written"
<1>1. q # Ruled!Idle /\ q.phase = "written" /\ UNCHANGED <<active, superuser, clearances, served>>
      /\ office' = [office EXCEPT ![u] = Ruled!Idle]
  BY DEF Ruled!Commit
<1> DEFINE Members(t) == ((IF t \in Ruled!Topics THEN topics[t].members ELSE {})
                            \ {m[2] : m \in {n \in q.nonmembers : n[1] = t}})
                         \cup {m[2] : m \in {n \in q.members : n[1] = t}}
           Old(t) == IF t \in DOMAIN q.row THEN q.row[t] ELSE topics[t]
<1>2. topics' = [t \in TopicIds |-> IF t \in Ruled!Topics \cup DOMAIN q.row THEN [Old(t) EXCEPT !.members = Members(t)] ELSE Ruled!Missing]
  BY Zenon DEF Ruled!Commit
<1>3. \A t \in TopicIds, v \in People : v \in Members(t) <=>
        \/ <<t, v>> \in q.members
        \/ t \in Ruled!Topics /\ v \in topics[t].members /\ <<t, v>> \notin q.nonmembers
  BY PairsOf DEF PlanTypes
<1>4. \A t \in Ruled!Topics \cup DOMAIN q.row : t \in TopicIds /\ Old(t) \in TopicRow /\ Members(t) \subseteq People
  <2> SUFFICES ASSUME NEW t \in Ruled!Topics \cup DOMAIN q.row
               PROVE  t \in TopicIds /\ Old(t) \in TopicRow /\ Members(t) \subseteq People
    OBVIOUS
  <2>1. t \in TopicIds /\ Old(t) \in TopicRow
    BY DEF RulesTypes, PlanTypes, Ruled!Topics
  <2>2. (IF t \in Ruled!Topics THEN topics[t].members ELSE {}) \subseteq People
    BY DEF RulesTypes, TopicRow
  <2>3. {m[2] : m \in {n \in q.members : n[1] = t}} \subseteq People
    BY DEF PlanTypes
  <2> QED
    BY <2>1, <2>2, <2>3
<1> HIDE DEF Members
<1>5. \A t \in Ruled!Topics \cup DOMAIN q.row :
        /\ topics'[t] \in TopicRow /\ topics'[t].members = Members(t)
        /\ topics'[t].parent = Old(t).parent /\ topics'[t].manager = Old(t).manager
        /\ topics'[t].confidential = Old(t).confidential
  <2> SUFFICES ASSUME NEW t \in Ruled!Topics \cup DOMAIN q.row
               PROVE  /\ topics'[t] \in TopicRow /\ topics'[t].members = Members(t)
                      /\ topics'[t].parent = Old(t).parent /\ topics'[t].manager = Old(t).manager
                      /\ topics'[t].confidential = Old(t).confidential
    OBVIOUS
  <2>1. topics'[t] = [Old(t) EXCEPT !.members = Members(t)] /\ Old(t) \in TopicRow /\ Members(t) \subseteq People
    BY <1>2, <1>4
  <2> HIDE DEF Old
  <2> QED
    BY <2>1 DEF TopicRow
<1>6. Ruled!Topics' = Ruled!Topics \cup DOMAIN q.row
  <2>1. \A t \in Ruled!Topics \cup DOMAIN q.row : t \in TopicIds /\ topics'[t] # Ruled!Missing
    BY <1>4, <1>5, TopicsAreThere
  <2>2. \A t \in TopicIds \ (Ruled!Topics \cup DOMAIN q.row) : topics'[t] = Ruled!Missing
    BY <1>2
  <2>3. Ruled!Topics' = {t \in TopicIds : topics'[t] # Ruled!Missing}
    BY DEF Ruled!Topics, Ruled!Missing
  <2> QED
    BY <1>4, <2>1, <2>2, <2>3
<1>7. \A t \in Ruled!Topics : t \notin DOMAIN q.row => Members(t) = topics[t].members
  <2> SUFFICES ASSUME NEW t \in Ruled!Topics, t \notin DOMAIN q.row
               PROVE  Members(t) = topics[t].members
    OBVIOUS
  <2>1. \A m \in q.members \cup q.nonmembers : m[1] # t
    BY DEF PlanTypes
  <2> QED
    BY <2>1 DEF Members
<1>8. \A t \in TopicIds : followers'[t] = (followers[t] \ {m[2] : m \in {n \in q.nonadders : n[1] = t}})
                                  \cup {m[2] : m \in {n \in q.adders : n[1] = t}}
  BY DEF Ruled!Commit
<1>9. /\ followers' \in [TopicIds -> SUBSET People]
      /\ \A t \in TopicIds, v \in People : v \in followers'[t] <=>
           \/ <<t, v>> \in q.adders
           \/ v \in followers[t] /\ <<t, v>> \notin q.nonadders
  <2>1. \A t \in TopicIds, v \in People : v \in followers'[t] <=>
           \/ <<t, v>> \in q.adders
           \/ v \in followers[t] /\ <<t, v>> \notin q.nonadders
    BY <1>8, PairsOf DEF PlanTypes
  <2>2. \A t \in TopicIds : followers'[t] \subseteq People
    <3>1. \A t \in TopicIds : {m[2] : m \in {n \in q.adders : n[1] = t}} \subseteq People
      BY DEF PlanTypes
    <3> QED
      BY <1>8, <3>1 DEF RulesTypes
  <2>3. followers' = [t \in TopicIds |-> followers'[t]]
    BY DEF Ruled!Commit
  <2> QED
    BY <2>1, <2>2, <2>3
<1>10. (\A v \in People : granted'[v] = Remaining(v, q)) /\ DOMAIN granted' = People
  BY DEF Ruled!Commit, Remaining
<1>11. overlapped' = overlapped \cup UNION {q.touches \cup office[v].touches :
         v \in {w \in People \ {u} : office[w] # Ruled!Idle /\ office[w].touches \cap q.touches # {}}}
  BY DEF Ruled!Commit
<1>12. DOMAIN topics' = TopicIds
  BY <1>2
<1>13. DOMAIN office' = People /\ office'[u] = Ruled!Idle /\ \A v \in People \ {u} : office'[v] = office[v]
  BY <1>1 DEF RulesTypes
<1>14. \A t \in Ruled!Topics \cup DOMAIN q.row, v \in People : v \in topics'[t].members <=>
         \/ <<t, v>> \in q.members
         \/ t \in Ruled!Topics /\ v \in topics[t].members /\ <<t, v>> \notin q.nonmembers
  <2> SUFFICES ASSUME NEW t \in Ruled!Topics \cup DOMAIN q.row, NEW v \in People
               PROVE  v \in topics'[t].members <=>
                        \/ <<t, v>> \in q.members
                        \/ t \in Ruled!Topics /\ v \in topics[t].members /\ <<t, v>> \notin q.nonmembers
    OBVIOUS
  <2>1. t \in TopicIds /\ topics'[t].members = Members(t)
    BY <1>4, <1>5
  <2> QED
    BY <1>3, <2>1
<1>15. \A v \in People \ {u} : office[v] # Ruled!Idle /\ office[v].touches \cap q.touches # {} =>
              q.touches \cup office[v].touches \subseteq overlapped'
  BY <1>11
<1>16. overlapped \subseteq overlapped'
  BY <1>11
<1>17. \A t \in Ruled!Topics' :
              /\ topics'[t] \in TopicRow
              /\ topics'[t].parent = Old(t).parent
              /\ topics'[t].manager = Old(t).manager
              /\ topics'[t].confidential = Old(t).confidential
              /\ t \notin DOMAIN q.row => topics'[t].members = topics[t].members
  BY <1>5, <1>6, <1>7
<1> HIDE DEF Old
<1> QED
  BY <1>1, <1>6, <1>9, <1>10, <1>12, <1>13, <1>14, <1>15, <1>16, <1>17 DEF Old

(* The upper topic of a topic never changes.                               *)
LEMMA ParentsStay ==
  ASSUME Ruled!AccountsAssumption, AccountsInv, NEW u \in People, NEW q, q = office[u], Ruled!Commit(u)
  PROVE  /\ PlanFits(q) /\ q # Ruled!Idle
         /\ \A t \in Ruled!Topics : t \in Ruled!Topics' /\ topics'[t].parent = topics[t].parent
         /\ \A t \in Ruled!Topics \ DOMAIN q.row : topics'[t].manager = topics[t].manager
                                           /\ topics'[t].confidential = topics[t].confidential
                                           /\ topics'[t].members = topics[t].members
         /\ \A t \in DOMAIN q.row : topics'[t].manager = q.row[t].manager
                                  /\ topics'[t].confidential = q.row[t].confidential
                                  /\ topics'[t].parent = q.row[t].parent
<1>1. q # Ruled!Idle /\ q.phase = "written"
  BY DEF Ruled!Commit
<1>2. PlanFits(q) /\ RulesTypes
  BY <1>1 DEF AccountsInv, DesksFit, RulesOK
<1>3. PlanTypes(q)
  BY <1>2 DEF PlanFits
<1>4. /\ Ruled!Topics' = Ruled!Topics \cup DOMAIN q.row
      /\ \A t \in Ruled!Topics' :
           LET old == IF t \in DOMAIN q.row THEN q.row[t] ELSE topics[t] IN
             /\ topics'[t].parent = old.parent
             /\ topics'[t].manager = old.manager
             /\ topics'[t].confidential = old.confidential
      /\ \A t \in Ruled!Topics' : t \notin DOMAIN q.row => topics'[t].members = topics[t].members
  BY <1>2, <1>3, CommitChanges
<1>5. \A t \in Ruled!Topics \cap DOMAIN q.row : q.row[t].parent = topics[t].parent
  BY <1>2, <1>3 DEF PlanFits, PlanTypes, SimplePlan, NewPlan, EditPlan, EditRows, Ruled!AccountsAssumption
<1> QED
  BY <1>1, <1>2, <1>4, <1>5

(* The other requests may still do what they are going to do.              *)
LEMMA OthersFit ==
  ASSUME Ruled!AccountsAssumption, AccountsInv, NEW u \in People, NEW v \in People \ {u}, NEW q, NEW r,
         q = office[u], r = office[v], r # Ruled!Idle, Ruled!Commit(u), Ruled!PermissionEditorsMayDoAll'
  PROVE  PlanFits(r)'
<1> DEFINE old == r.old
           new == r.row[r.topic].manager
<1>1. PlanFits(q) /\ PlanFits(r) /\ RulesTypes /\ q # Ruled!Idle
  BY ParentsStay DEF AccountsInv, DesksFit, RulesOK
<1>2. PlanTypes(q) /\ PlanTypes(r)
  BY <1>1 DEF PlanFits
<1>3. /\ Ruled!Topics' = Ruled!Topics \cup DOMAIN q.row
      /\ \A t \in Ruled!Topics : topics'[t].parent = topics[t].parent
      /\ \A t \in Ruled!Topics \ DOMAIN q.row : topics'[t].manager = topics[t].manager
                                        /\ topics'[t].confidential = topics[t].confidential
                                        /\ topics'[t].members = topics[t].members
      /\ \A t \in DOMAIN q.row : topics'[t].manager = q.row[t].manager
                               /\ topics'[t].confidential = q.row[t].confidential
                               /\ topics'[t].parent = q.row[t].parent
  BY <1>1, <1>2, ParentsStay, CommitChanges
<1>4. /\ \A t \in Ruled!Topics', w \in People : w \in topics'[t].members <=>
           \/ <<t, w>> \in q.members
           \/ t \in Ruled!Topics /\ w \in topics[t].members /\ <<t, w>> \notin q.nonmembers
      /\ \A w \in People : granted'[w] = Remaining(w, q)
      /\ overlapped \subseteq overlapped'
      /\ UNCHANGED <<active, superuser>>
  BY <1>1, <1>2, CommitChanges
<1>5. \A x \in q.touches \cap r.touches : q.touches \cup r.touches \subseteq overlapped'
  BY <1>1, <1>2, CommitChanges
<1>6. DOMAIN q.row \subseteq q.touches /\ \A c \in DOMAIN q.row : q.row[c].manager \in q.touches
  BY <1>2 DEF PlanTypes
<1>7. DOMAIN r.row \subseteq r.touches /\ \A c \in DOMAIN r.row : r.row[c].manager \in r.touches
  BY <1>2 DEF PlanTypes
<1>8. \A w \in People : \A p : p \in granted'[w] <=> <<w, p>> \in q.grants \/ (p \in granted[w] /\ <<w, p>> \notin q.revokes)
  <2>1. \A g \in q.grants \cup q.revokes : g = <<g[1], g[2]>>
    BY <1>2 DEF PlanTypes
  <2>2. \A w, p : p \in Remaining(w, q) <=> <<w, p>> \in q.grants \/ (p \in granted[w] /\ <<w, p>> \notin q.revokes)
    BY <2>1, RemainingRights
  <2> QED
    BY <1>4, <2>2
<1>9. \A w \in People : w \notin q.touches => granted'[w] = granted[w]
  <2> SUFFICES ASSUME NEW w \in People, w \notin q.touches
               PROVE  granted'[w] = granted[w]
    OBVIOUS
  <2>1. \A n \in q.grants \cup q.revokes : n[1] # w
    BY <1>2 DEF PlanTypes
  <2>2. {m[2] : m \in {n \in q.revokes : n[1] = w}} = {} /\ {m[2] : m \in {n \in q.grants : n[1] = w}} = {}
    BY <2>1
  <2>3. Remaining(w, q) = granted[w]
    BY <2>2 DEF Remaining
  <2> QED
    BY <1>4, <2>3
<1>10. PlanTypes(r)'
  BY <1>2, <1>3 DEF PlanTypes, TopicRow
<1>11. PlanRights(r)'
  <2> SUFFICES ASSUME NEW w \in People \ overlapped'
               PROVE  /\ "edit_permissions" \in Remaining(w, r)' => Ruled!ProcessPermissions \subseteq Remaining(w, r)'
                      /\ r.topic = Nobody => \A p \in Ruled!TopicPermissions : p \in Remaining(w, r)' <=> p \in granted'[w]
    BY DEF PlanRights
  <2>1. CASE w \in q.touches
    <3>1. \A n \in r.grants \cup r.revokes : n[1] # w
      BY <1>2, <1>5, <2>1 DEF PlanTypes
    <3>2. Remaining(w, r)' = granted'[w]
      BY <3>1 DEF Remaining
    <3> QED
      BY <3>2 DEF Ruled!PermissionEditorsMayDoAll
  <2>2. CASE w \notin q.touches
    <3>1. granted'[w] = granted[w]
      BY <1>9, <2>2
    <3>2. Remaining(w, r)' = Remaining(w, r)
      BY <3>1 DEF Remaining
    <3> QED
      BY <1>1, <1>4, <3>1, <3>2 DEF PlanFits, PlanRights
  <2> QED
    BY <2>1, <2>2
<1>12. PlanAdders(r)'
  <2>1. PlanAdders(r) /\ PlanAdders(q)
    BY <1>1 DEF PlanFits
  <2>2. \A a \in r.adders : a = <<a[1], a[2]>> /\ a[2] \in People
    BY <1>2 DEF PlanTypes
  <2>3. ASSUME NEW a \in r.adders, a[1] # r.topic, topics'[a[1]].parent = Nobody, a[2] \notin overlapped'
        PROVE  a[2] \in topics'[a[1]].members
    <3>1. a[1] \in Ruled!Topics /\ a[2] \in r.touches /\ a[2] \in topics[a[1]].members /\ topics[a[1]].parent = Nobody
      BY <1>3, <1>4, <2>1, <2>3 DEF PlanAdders
    <3>2. <<a[1], a[2]>> \notin q.nonmembers
      BY <1>5, <2>1, <2>3, <3>1 DEF PlanAdders
    <3> QED
      BY <1>3, <1>4, <2>2, <3>1, <3>2
  <2> QED
    BY <1>3, <2>1, <2>3 DEF PlanAdders
<1>13. CASE SimplePlan(r)
  BY <1>10, <1>11, <1>12, <1>13 DEF PlanFits, SimplePlan
<1>14. CASE NewPlan(r)
  <2>1. r.topic \notin Ruled!Topics'
    <3>1. q.topic # r.topic
      BY <1>1, <1>14 DEF AccountsInv, DesksFit, NewPlan
    <3>2. r.topic \notin DOMAIN q.row
      BY <1>1, <1>2, <1>14, <3>1 DEF PlanFits, PlanTypes, SimplePlan, NewPlan, EditPlan, EditRows
    <3> QED
      BY <1>3, <1>14, <3>2 DEF NewPlan
  <2>2. ASSUME r.row[r.topic].parent # Nobody
        PROVE  \/ /\ r.row[r.topic].confidential = topics'[r.row[r.topic].parent].confidential
                  /\ r.row[r.topic].manager = topics'[r.row[r.topic].parent].manager
               \/ {r.topic, r.row[r.topic].manager} \subseteq overlapped'
    <3>1. r.row[r.topic].parent \in r.touches /\ r.row[r.topic].parent \in Ruled!Topics
      BY <1>2, <1>14, <2>2 DEF NewPlan, PlanTypes
    <3>2. r.topic \in r.touches /\ r.row[r.topic].manager \in r.touches
      BY <1>7, <1>14 DEF NewPlan
    <3>3. CASE r.row[r.topic].parent \in DOMAIN q.row
      BY <1>5, <1>6, <3>1, <3>2, <3>3
    <3>4. CASE r.row[r.topic].parent \notin DOMAIN q.row
      <4>1. /\ topics'[r.row[r.topic].parent].confidential = topics[r.row[r.topic].parent].confidential
            /\ topics'[r.row[r.topic].parent].manager = topics[r.row[r.topic].parent].manager
        BY <1>3, <3>1, <3>4
      <4>2. \/ /\ r.row[r.topic].confidential = topics[r.row[r.topic].parent].confidential
               /\ r.row[r.topic].manager = topics[r.row[r.topic].parent].manager
            \/ {r.topic, r.row[r.topic].manager} \subseteq overlapped
        BY <1>14, <2>2 DEF NewPlan
      <4> QED
        BY <1>4, <4>1, <4>2
    <3> QED
      BY <3>3, <3>4
  <2>3. NewPlan(r)'
    BY <1>14, <2>1, <2>2 DEF NewPlan
  <2> QED
    BY <1>10, <1>11, <1>12, <2>3 DEF PlanFits
<1>15. CASE EditPlan(r)
  <2> HIDE DEF old, new
  <2>1. /\ r.topic \in Ruled!Topics /\ topics[r.topic].parent = Nobody /\ r.phase # "new" /\ r.adders = {}
        /\ old \in r.touches
        /\ EditRows(r) /\ EditFamily(r) /\ EditMember(r, new) /\ EditRights(r, new)
    BY <1>15 DEF EditPlan, old, new
  <2>2. r.topic \in DOMAIN r.row /\ new \in r.touches /\ new \in People
    BY <1>2, <2>1 DEF PlanTypes, Ruled!AccountsAssumption, Ruled!Topics, TopicRow, new
  <2>3. EditRows(r)'
    <3> SUFFICES ASSUME NEW c \in DOMAIN r.row
                 PROVE  /\ c \in Ruled!Topics' /\ r.row[c].parent = topics'[c].parent
                        /\ topics'[c].manager \in {r.old} \cup overlapped'
                        /\ c # r.topic => topics'[c].parent \in DOMAIN r.row
      BY <2>1 DEF EditRows
    <3>1. /\ c \in Ruled!Topics /\ r.row[c].parent = topics[c].parent
          /\ topics[c].manager \in {r.old} \cup overlapped
          /\ c # r.topic => topics[c].parent \in DOMAIN r.row
      BY <2>1 DEF EditRows
    <3>2. CASE c \in DOMAIN q.row
      BY <1>3, <1>5, <1>6, <1>7, <3>1, <3>2
    <3>3. CASE c \notin DOMAIN q.row
      BY <1>3, <1>4, <3>1, <3>3
    <3> QED
      BY <3>2, <3>3
  <2>4. EditFamily(r)'
    <3> SUFFICES ASSUME r.phase = "written", NEW c \in Ruled!Topics' \ DOMAIN r.row, topics'[c].parent \in DOMAIN r.row
                 PROVE  {c, topics'[c].manager} \subseteq overlapped'
      BY DEF EditFamily
    <3>1. CASE c \in DOMAIN q.row
      <4>1. c \in q.touches /\ topics'[c].manager \in q.touches /\ q.row[c].parent \in r.touches /\ q.row[c].parent \in TopicIds
        BY <1>2, <1>3, <1>6, <1>7, <3>1 DEF PlanTypes
      <4>2. q.row[c].parent \in q.touches
        <5>1. q.row[c].parent # Nobody
          BY <4>1 DEF Ruled!AccountsAssumption
        <5>2. CASE NewPlan(q)
          BY <3>1, <5>1, <5>2 DEF NewPlan
        <5>3. CASE EditPlan(q)
          <6>1. c # q.topic
            BY <3>1, <5>1, <5>3 DEF EditPlan, EditRows
          <6> QED
            BY <1>6, <3>1, <5>3, <6>1 DEF EditPlan, EditRows
        <5>4. CASE SimplePlan(q)
          BY <1>2, <3>1, <5>4 DEF SimplePlan, PlanTypes
        <5> QED
          BY <1>1, <5>2, <5>3, <5>4 DEF PlanFits
      <4> QED
        BY <1>5, <4>1, <4>2
    <3>2. CASE c \notin DOMAIN q.row
      BY <1>3, <1>4, <2>1, <3>2 DEF EditFamily
    <3> QED
      BY <3>1, <3>2
  <2>5. EditMember(r, new)'
    <3>1. r.topic \notin overlapped' => r.topic \notin DOMAIN q.row
      BY <1>5, <1>6, <1>7, <2>2
    <3> QED
      BY <1>3, <1>4, <2>1, <3>1 DEF EditMember
  <2>6. EditRights(r, new)'
    <3>1. old \notin overlapped' => topics'[r.topic].manager = old
      BY <1>3, <1>4, <1>5, <1>6, <1>7, <2>1, <2>2 DEF EditRights, old
    <3>2. new \notin overlapped' /\ Ruled!can_edit_users_topics(new) => Ruled!can_edit_users_topics(new)'
      <4>1. new \notin overlapped' => granted'[new] = granted[new]
        BY <1>5, <1>9, <2>2
      <4> QED
        BY <1>4, <4>1 DEF Ruled!can_edit_users_topics, Ruled!has_perm
    <3>3. ASSUME old \notin overlapped'
          PROVE  (\A t \in Ruled!Topics' \ DOMAIN r.row : topics'[t].manager # old)
                   <=> (\A t \in Ruled!Topics \ DOMAIN r.row : topics[t].manager # old)
      <4>1. old \notin q.touches
        BY <1>5, <2>1, <3>3
      <4>2. \A t \in DOMAIN q.row : topics'[t].manager # old /\ (t \in Ruled!Topics => topics[t].manager # old)
        <5>1. \A t \in DOMAIN q.row : topics'[t].manager # old
          BY <1>3, <1>6, <4>1
        <5>2. \A t \in DOMAIN q.row \cap Ruled!Topics : topics[t].manager # old
          <6>1. CASE NewPlan(q)
            BY <6>1 DEF NewPlan
          <6>2. CASE EditPlan(q)
            BY <1>4, <3>3, <4>1, <6>2 DEF EditPlan, EditRows
          <6>3. CASE SimplePlan(q)
            BY <1>2, <6>3 DEF SimplePlan, PlanTypes
          <6> QED
            BY <1>1, <6>1, <6>2, <6>3 DEF PlanFits
        <5> QED
          BY <5>1, <5>2
      <4> QED
        BY <1>3, <4>2
    <3> QED
      BY <1>4, <2>1, <3>1, <3>2, <3>3 DEF EditRights, old
  <2>7. EditPlan(r)'
    BY <1>3, <2>1, <2>3, <2>4, <2>5, <2>6 DEF EditPlan, old, new
  <2> QED
    BY <1>10, <1>11, <1>12, <2>7 DEF PlanFits
<1> QED
  BY <1>1, <1>13, <1>14, <1>15 DEF PlanFits
(* Nobody may do more or less after a commit than fits to the topics.      *)
LEMMA CommitKeepsRules ==
  ASSUME Ruled!AccountsAssumption, AccountsInv, NEW u \in People, Ruled!Commit(u)
  PROVE  AccountsInv'
<1> DEFINE q == office[u]
           new == q.row[q.topic].manager
<1>1. PlanFits(q) /\ q # Ruled!Idle /\ RulesOK /\ RulesTypes
  BY ParentsStay DEF AccountsInv, RulesOK
<1>2. PlanTypes(q) /\ PlanRights(q) /\ PlanAdders(q)
  BY <1>1 DEF PlanFits
<1>3. /\ Ruled!Topics' = Ruled!Topics \cup DOMAIN q.row
      /\ \A t \in Ruled!Topics : topics'[t].parent = topics[t].parent
      /\ \A t \in Ruled!Topics \ DOMAIN q.row : topics'[t].manager = topics[t].manager
                                        /\ topics'[t].confidential = topics[t].confidential
                                        /\ topics'[t].members = topics[t].members
      /\ \A t \in DOMAIN q.row : topics'[t].manager = q.row[t].manager
                               /\ topics'[t].confidential = q.row[t].confidential
                               /\ topics'[t].parent = q.row[t].parent
  BY <1>1, <1>2, ParentsStay, CommitChanges
<1>4. /\ \A t \in Ruled!Topics' : topics'[t] \in TopicRow
      /\ \A t \in Ruled!Topics', w \in People : w \in topics'[t].members <=>
           \/ <<t, w>> \in q.members
           \/ t \in Ruled!Topics /\ w \in topics[t].members /\ <<t, w>> \notin q.nonmembers
      /\ \A t \in TopicIds, w \in People : w \in followers'[t] <=>
           \/ <<t, w>> \in q.adders
           \/ w \in followers[t] /\ <<t, w>> \notin q.nonadders
      /\ followers' \in [TopicIds -> SUBSET People]
  BY <1>1, <1>2, CommitChanges
<1>5. /\ \A w \in People : granted'[w] = Remaining(w, q)
      /\ DOMAIN topics' = TopicIds /\ DOMAIN granted' = People /\ DOMAIN office' = People
      /\ overlapped \subseteq overlapped' /\ q.phase = "written"
      /\ (\A v \in People \ {u} : office'[v] = office[v]) /\ office'[u] = Ruled!Idle
      /\ UNCHANGED <<active, superuser, clearances, served>>
  BY <1>1, <1>2, CommitChanges
<1>6. \A w \in People : \A p : p \in granted'[w] <=> <<w, p>> \in q.grants \/ (p \in granted[w] /\ <<w, p>> \notin q.revokes)
  <2>1. \A g \in q.grants \cup q.revokes : g = <<g[1], g[2]>>
    BY <1>2 DEF PlanTypes
  <2>2. \A w, p : p \in Remaining(w, q) <=> <<w, p>> \in q.grants \/ (p \in granted[w] /\ <<w, p>> \notin q.revokes)
    BY <2>1, RemainingRights
  <2> QED
    BY <1>5, <2>2
<1>7. fresh' = IF q.topic \notin Ruled!Topics THEN fresh \cup ({q.topic} \ {Nobody}) ELSE fresh \ {q.topic}
  BY DEF Ruled!Commit
<1>8. /\ Ruled!Topics \subseteq TopicIds /\ Nobody \notin TopicIds
      /\ \A t \in Ruled!Topics : topics[t].manager \in People /\ topics[t].members \subseteq People /\ topics[t].parent \in Ruled!Topics \cup {Nobody}
      /\ \A t \in Ruled!Topics' : topics'[t].manager \in People
  BY <1>1, <1>4 DEF Ruled!Topics, RulesTypes, TopicRow, Ruled!AccountsAssumption
<1>9. SimplePlan(q) => DOMAIN q.row = {} /\ q.topic \notin Ruled!Topics /\ q.members = {} /\ q.nonmembers = {}
  BY <1>2, <1>8 DEF SimplePlan, PlanTypes
<1>10. EditPlan(q) => q.topic \in DOMAIN q.row /\ q.topic \in Ruled!Topics
  BY <1>2, <1>8 DEF EditPlan, PlanTypes
<1> HIDE DEF q, new
<1>11. RulesTypes'
  <2>1. \A t \in Ruled!Topics' : topics'[t].parent \in Ruled!Topics' \cup {Nobody}
    BY <1>2, <1>3, <1>8 DEF PlanTypes
  <2>2. \A t \in TopicIds \ Ruled!Topics' : followers'[t] = {}
    <3> SUFFICES ASSUME NEW t \in TopicIds \ Ruled!Topics', NEW v \in followers'[t]
                 PROVE  FALSE
      OBVIOUS
    <3>1. v \in People /\ t \notin Ruled!Topics /\ followers[t] = {}
      BY <1>1, <1>3, <1>4 DEF RulesTypes
    <3>2. <<t, v>> \in q.adders
      BY <1>4, <3>1
    <3>3. t = q.topic
      BY <1>2, <3>1, <3>2 DEF PlanAdders
    <3> QED
      BY <1>2, <1>3, <1>8, <3>3 DEF PlanTypes
  <2> QED
    BY <1>1, <1>4, <1>5, <2>1, <2>2 DEF RulesTypes
<1>12. Ruled!ManagersMayEditTopics'
  <2> SUFFICES ASSUME NEW t \in Ruled!Topics', NEW m \in active \ overlapped', topics'[t].manager = m
               PROVE  \E p \in Ruled!TopicPermissions : m \in active /\ (m \in superuser \/ p \in granted'[m])
    BY <1>5 DEF Ruled!ManagersMayEditTopics, Ruled!can_edit_users_topics, Ruled!has_perm, Ruled!TopicPermissions
  <2> DEFINE MayEdit == \E p \in Ruled!TopicPermissions : m \in active /\ (m \in superuser \/ p \in granted'[m])
  <2>1. m \in People /\ m \in active /\ m \notin overlapped'
    BY <1>8
  <2>2. t \in Ruled!Topics /\ topics[t].manager = m => Ruled!can_edit_users_topics(m)
    BY <1>1, <1>5, <2>1 DEF RulesOK, Ruled!ManagersMayEditTopics
  <2>3. "edit_their_topics" \in granted'[m] => MayEdit
    BY <1>5, <2>1 DEF Ruled!TopicPermissions
  <2>4. Ruled!can_edit_users_topics(m) /\ (\A p \in Ruled!TopicPermissions : p \in granted[m] => p \in granted'[m]) => MayEdit
    BY <1>5, <2>1 DEF Ruled!can_edit_users_topics, Ruled!has_perm, Ruled!TopicPermissions
  <2> HIDE DEF MayEdit
  <2>5. CASE SimplePlan(q)
    <3>1. t \in Ruled!Topics /\ topics[t].manager = m
      BY <1>3, <1>9, <2>5
    <3>2. \A p \in Ruled!TopicPermissions : p \in granted[m] => p \in granted'[m]
      BY <1>2, <1>5, <2>1, <2>5 DEF PlanRights, SimplePlan
    <3> QED
      BY <2>2, <2>4, <3>1, <3>2 DEF MayEdit
  <2>6. CASE NewPlan(q)
    <3>1. CASE t = q.topic
      BY <1>3, <1>6, <2>1, <2>3, <2>6, <3>1 DEF NewPlan, MayEdit
    <3>2. CASE t # q.topic
      <4>1. t \in Ruled!Topics /\ topics[t].manager = m
        BY <1>3, <2>6, <3>2 DEF NewPlan
      <4> QED
        BY <1>6, <2>1, <2>2, <2>4, <2>6, <4>1 DEF NewPlan, MayEdit
    <3> QED
      BY <3>1, <3>2
  <2>7. CASE EditPlan(q)
    <3>1. EditRows(q) /\ EditRights(q, new)
      BY <2>7 DEF EditPlan, new
    <3>2. CASE t \in DOMAIN q.row
      <4>1. m = new
        BY <1>3, <3>1, <3>2 DEF EditRows, new
      <4>2. CASE q.old # m
        <5>1. q.grants # {} \/ Ruled!can_edit_users_topics(m)
          BY <1>5, <2>1, <3>1, <4>1, <4>2 DEF EditRights
        <5>2. q.grants # {} => <<m, "edit_their_topics">> \in q.grants
          BY <3>1, <4>1 DEF EditRights
        <5>3. \A p : <<m, p>> \notin q.revokes
          BY <3>1, <4>2 DEF EditRights
        <5> QED
          BY <1>6, <2>1, <2>3, <2>4, <5>1, <5>2, <5>3 DEF MayEdit
      <4>3. CASE q.old = m
        <5>1. q.topic \in Ruled!Topics /\ topics[q.topic].manager = m
          BY <1>5, <1>10, <2>1, <2>7, <3>1, <4>3 DEF EditRights
        <5>2. Ruled!can_edit_users_topics(m)
          BY <1>1, <1>5, <2>1, <5>1 DEF RulesOK, Ruled!ManagersMayEditTopics
        <5>3. q.revokes = {}
          BY <3>1, <4>1, <4>3 DEF EditRights
        <5> QED
          BY <1>6, <2>1, <2>4, <5>2, <5>3 DEF MayEdit
      <4> QED
        BY <4>2, <4>3
    <3>3. CASE t \notin DOMAIN q.row
      <4>1. t \in Ruled!Topics /\ topics[t].manager = m
        BY <1>3, <3>3
      <4>2. \A p : <<m, p>> \notin q.revokes
        <5> SUFFICES ASSUME NEW p, <<m, p>> \in q.revokes
                     PROVE  FALSE
          OBVIOUS
        <5>1. m = q.old /\ q.old # new
          BY <3>1 DEF EditRights
        <5> QED
          BY <1>5, <2>1, <3>1, <3>3, <4>1, <5>1 DEF EditRights
      <4> QED
        BY <1>6, <2>1, <2>2, <2>4, <4>1, <4>2 DEF MayEdit
    <3> QED
      BY <3>2, <3>3
  <2> QED
    BY <1>1, <2>5, <2>6, <2>7 DEF PlanFits
<1>13. Ruled!NoManagersWithoutTopic'
  <2> SUFFICES ASSUME NEW v \in People \ overlapped', "edit_their_topics" \in granted'[v]
               PROVE  \E t \in Ruled!Topics' : topics'[t].manager = v
    BY DEF Ruled!NoManagersWithoutTopic
  <2>1. "edit_their_topics" \in granted[v] => \E t \in Ruled!Topics : topics[t].manager = v
    BY <1>1, <1>5 DEF RulesOK, Ruled!NoManagersWithoutTopic
  <2>2. <<v, "edit_their_topics">> \in q.grants \/ ("edit_their_topics" \in granted[v] /\ <<v, "edit_their_topics">> \notin q.revokes)
    BY <1>6
  <2>3. CASE SimplePlan(q)
    <3>1. "edit_their_topics" \in granted[v]
      BY <1>2, <1>5, <2>3 DEF PlanRights, SimplePlan, Ruled!TopicPermissions
    <3> QED
      BY <1>3, <1>9, <2>1, <2>3, <3>1
  <2>4. CASE NewPlan(q)
    BY <1>3, <2>1, <2>2, <2>4 DEF NewPlan
  <2>5. CASE EditPlan(q)
    <3>1. EditRows(q) /\ EditRights(q, new) /\ q.topic \in DOMAIN q.row
      BY <1>10, <2>5 DEF EditPlan, new
    <3>2. CASE v = new
      BY <1>3, <3>1, <3>2 DEF new
    <3>3. CASE v # new
      <4>1. "edit_their_topics" \in granted[v] /\ <<v, "edit_their_topics">> \notin q.revokes
        BY <2>2, <3>1, <3>3 DEF EditRights
      <4>2. PICK t \in Ruled!Topics : topics[t].manager = v
        BY <2>1, <4>1
      <4>3. CASE t \notin DOMAIN q.row
        BY <1>3, <4>2, <4>3
      <4>4. CASE t \in DOMAIN q.row
        <5>1. v = q.old
          BY <1>5, <3>1, <4>2, <4>4 DEF EditRows
        <5>2. q.revokes = {}
          BY <3>1, <4>1, <5>1 DEF EditRights
        <5>3. \E x \in Ruled!Topics \ DOMAIN q.row : topics[x].manager = v
          BY <1>5, <3>1, <3>3, <5>1, <5>2 DEF EditRights
        <5> QED
          BY <1>3, <5>3
      <4> QED
        BY <4>3, <4>4
    <3> QED
      BY <3>2, <3>3
  <2> QED
    BY <1>1, <2>3, <2>4, <2>5 DEF PlanFits
<1>14. SubtopicsAgree'
  <2> SUFFICES ASSUME NEW t \in Ruled!Topics', topics'[t].parent # Nobody
               PROVE  \/ /\ topics'[t].confidential = topics'[topics'[t].parent].confidential
                         /\ topics'[t].manager = topics'[topics'[t].parent].manager
                      \/ {t, topics'[t].manager} \subseteq overlapped'
    BY DEF SubtopicsAgree
  <2>1. t \in Ruled!Topics => \/ /\ topics[t].confidential = topics[topics'[t].parent].confidential
                                 /\ topics[t].manager = topics[topics'[t].parent].manager
                              \/ {t, topics[t].manager} \subseteq overlapped
    BY <1>1, <1>3 DEF RulesOK, SubtopicsAgree
  <2>2. t \in Ruled!Topics => topics'[t].parent \in Ruled!Topics
    BY <1>3, <1>8
  <2>3. CASE SimplePlan(q)
    BY <1>3, <1>5, <1>9, <2>1, <2>2, <2>3
  <2>4. CASE NewPlan(q)
    <3>1. CASE t = q.topic
      <4>1. topics'[t].parent = q.row[q.topic].parent /\ q.row[q.topic].parent \in Ruled!Topics /\ q.row[q.topic].parent # q.topic
        BY <1>2, <1>3, <2>4, <3>1 DEF NewPlan, PlanTypes
      <4> QED
        BY <1>3, <1>5, <2>4, <3>1, <4>1 DEF NewPlan
    <3>2. CASE t # q.topic
      BY <1>3, <1>5, <2>1, <2>2, <2>4, <3>2 DEF NewPlan
    <3> QED
      BY <3>1, <3>2
  <2>5. CASE EditPlan(q)
    <3>1. EditRows(q) /\ EditFamily(q)
      BY <2>5 DEF EditPlan
    <3>2. CASE t \in DOMAIN q.row
      <4>1. topics'[t].parent \in DOMAIN q.row
        BY <1>3, <2>5, <3>1, <3>2 DEF EditPlan, EditRows
      <4> QED
        BY <1>3, <3>1, <3>2, <4>1 DEF EditRows
    <3>3. CASE t \notin DOMAIN q.row
      <4>1. t \in Ruled!Topics
        BY <1>3, <3>3
      <4>2. CASE topics'[t].parent \in DOMAIN q.row
        BY <1>3, <1>5, <3>1, <3>3, <4>1, <4>2 DEF EditFamily
      <4>3. CASE topics'[t].parent \notin DOMAIN q.row
        BY <1>3, <1>5, <2>1, <2>2, <3>3, <4>1, <4>3
      <4> QED
        BY <4>2, <4>3
    <3> QED
      BY <3>2, <3>3
  <2> QED
    BY <1>1, <2>3, <2>4, <2>5 DEF PlanFits
<1>15. Ruled!AddersAreMembers'
  <2> SUFFICES ASSUME NEW t \in Ruled!Topics', topics'[t].parent = Nobody, NEW v \in followers'[t], v \in active', v \notin overlapped'
               PROVE  v \in topics'[t].members
    BY DEF Ruled!AddersAreMembers
  <2>0. t \in TopicIds /\ v \in People
    BY <1>2, <1>3, <1>4, <1>8 DEF PlanTypes
  <2>1. t \in TopicIds /\ v \in People /\ v \in active
    BY <1>5, <2>0
  <2>2. CASE <<t, v>> \in q.adders
    <3>1. CASE t = q.topic
      BY <1>2, <1>4, <2>1, <2>2, <3>1 DEF PlanAdders
    <3>2. CASE t # q.topic
      <4>1. t \in Ruled!Topics /\ v \in topics[t].members
        BY <1>2, <1>3, <1>5, <2>2, <3>2 DEF PlanAdders
      <4>2. q.nonmembers = {}
        BY <1>1, <1>9, <2>2 DEF PlanFits, NewPlan, EditPlan
      <4> QED
        BY <1>4, <2>1, <4>1, <4>2
    <3> QED
      BY <3>1, <3>2
  <2>3. CASE <<t, v>> \notin q.adders
    <3>1. v \in followers[t] /\ <<t, v>> \notin q.nonadders
      BY <1>4, <2>1, <2>3
    <3>2. t \in Ruled!Topics
      BY <1>1, <2>1, <3>1 DEF RulesTypes
    <3>3. v \in topics[t].members
      BY <1>1, <1>3, <1>5, <2>1, <3>1, <3>2 DEF RulesOK, Ruled!AddersAreMembers
    <3>4. <<t, v>> \notin q.nonmembers
      BY <1>2, <1>3, <3>1, <3>2 DEF PlanAdders
    <3> QED
      BY <1>4, <2>1, <3>2, <3>3, <3>4
  <2> QED
    BY <2>2, <2>3
<1>16. ManagersAreMembers'
  <2> SUFFICES ASSUME NEW t \in Ruled!Topics' \ (fresh' \cup overlapped'), topics'[t].parent = Nobody,
                      topics'[t].manager \in active
               PROVE  topics'[t].manager \in topics'[t].members
    BY <1>5 DEF ManagersAreMembers
  <2>1. t \in Ruled!Topics /\ t \notin fresh => (topics[t].manager \in active => topics[t].manager \in topics[t].members)
    BY <1>1, <1>3, <1>5 DEF RulesOK, ManagersAreMembers
  <2>2. CASE SimplePlan(q)
    BY <1>3, <1>7, <1>9, <2>1, <2>2
  <2>3. CASE NewPlan(q)
    BY <1>3, <1>7, <1>8, <2>1, <2>3 DEF NewPlan
  <2>4. CASE EditPlan(q)
    <3>1. EditRows(q) /\ EditMember(q, new)
      BY <2>4 DEF EditPlan, new
    <3>2. CASE t = q.topic
      BY <1>3, <1>4, <1>5, <1>8, <1>10, <2>4, <3>1, <3>2 DEF EditMember, new
    <3>3. CASE t # q.topic /\ t \in DOMAIN q.row
      <4>1. topics'[t].parent \in TopicIds
        BY <1>2, <1>3, <3>1, <3>3 DEF EditRows, PlanTypes
      <4> QED
        BY <1>8, <4>1
    <3>4. CASE t \notin DOMAIN q.row
      BY <1>3, <1>7, <1>10, <2>1, <2>4, <3>4
    <3> QED
      BY <3>2, <3>3, <3>4
  <2> QED
    BY <1>1, <2>2, <2>3, <2>4 DEF PlanFits
<1>17. Ruled!PermissionEditorsMayDoAll'
  BY <1>2, <1>5 DEF PlanRights, Ruled!PermissionEditorsMayDoAll
<1>18. Ruled!ClearedForTheSheet'
  BY <1>1, <1>5 DEF RulesOK, Ruled!ClearedForTheSheet
<1>19. DesksFit'
  <2>1. ASSUME NEW v \in People, NEW r \in {office'[v]}, r # Ruled!Idle
        PROVE  PlanFits(r)'
    <3>1. v \in People \ {u} /\ r = office[v]
      BY <1>5, <2>1
    <3> QED
      BY <1>17, <2>1, <3>1, OthersFit
  <2>2. ASSUME NEW v \in People, NEW w \in People, v # w, office'[v] # Ruled!Idle, office'[w] # Ruled!Idle, office'[v].topic = office'[w].topic
        PROVE  office'[v].topic \notin TopicIds \ Ruled!Topics'
    <3>1. office'[v] = office[v] /\ office'[w] = office[w]
      BY <1>5, <2>2
    <3>2. office[v].topic \notin TopicIds \ Ruled!Topics
      BY <2>2, <3>1 DEF AccountsInv, DesksFit
    <3> QED
      BY <1>3, <3>1, <3>2
  <2> QED
    BY <2>1, <2>2 DEF DesksFit
<1> QED
  BY <1>11, <1>12, <1>13, <1>14, <1>15, <1>16, <1>17, <1>18, <1>19 DEF AccountsInv, RulesOK

(* Where nothing changes that a rule or a request looks at, all stays well.*)
LEMMA DatabaseStays ==
  ASSUME RulesOK, UNCHANGED <<active, superuser, granted, topics, followers, overlapped, fresh>>,
         DOMAIN office' = People, served' \in 0 .. MaxServed,
         clearances' \in [People -> [Wafers -> SUBSET Events]], Ruled!ClearedForTheSheet'
  PROVE  /\ RulesOK'
         /\ Ruled!Topics' = Ruled!Topics
         /\ \A r : PlanFits(r) => PlanFits(r)'
<1>1. Ruled!Topics' = Ruled!Topics
  BY DEF Ruled!Topics, Ruled!Missing
<1>2. RulesTypes'
  BY <1>1 DEF RulesOK, RulesTypes
<1>3. Ruled!ManagersMayEditTopics'
  BY <1>1 DEF RulesOK, Ruled!ManagersMayEditTopics, Ruled!can_edit_users_topics, Ruled!has_perm
<1>4. Ruled!NoManagersWithoutTopic' /\ Ruled!PermissionEditorsMayDoAll'
  BY <1>1 DEF RulesOK, Ruled!NoManagersWithoutTopic, Ruled!PermissionEditorsMayDoAll
<1>5. SubtopicsAgree' /\ Ruled!AddersAreMembers' /\ ManagersAreMembers'
  BY <1>1 DEF RulesOK, SubtopicsAgree, Ruled!AddersAreMembers, ManagersAreMembers
<1>6. ASSUME NEW r, PlanFits(r)
      PROVE  PlanFits(r)'
  <2>1. PlanTypes(r)' /\ PlanAdders(r)'
    BY <1>1, <1>6 DEF PlanFits, PlanTypes, PlanAdders
  <2>2. PlanRights(r)'
    BY <1>6 DEF PlanFits, PlanRights, Remaining
  <2>3. CASE SimplePlan(r)
    BY <2>1, <2>2, <2>3 DEF PlanFits, SimplePlan
  <2>4. CASE NewPlan(r)
    <3>1. NewPlan(r)'
      BY <1>1, <2>4 DEF NewPlan
    <3> QED
      BY <2>1, <2>2, <3>1 DEF PlanFits
  <2>5. CASE EditPlan(r)
    <3>1. EditRows(r)' /\ EditFamily(r)'
      BY <1>1, <2>5 DEF EditPlan, EditRows, EditFamily
    <3>2. \A w : Ruled!can_edit_users_topics(w)' = Ruled!can_edit_users_topics(w)
      BY DEF Ruled!can_edit_users_topics, Ruled!has_perm
    <3>3. PICK new : new = r.row[r.topic].manager
      OBVIOUS
    <3>4. EditMember(r, new)' /\ EditRights(r, new)'
      BY <1>1, <2>5, <3>2, <3>3 DEF EditPlan, EditMember, EditRights
    <3>5. EditPlan(r)'
      BY <1>1, <2>5, <3>1, <3>3, <3>4 DEF EditPlan
    <3> QED
      BY <2>1, <2>2, <3>5 DEF PlanFits
  <2> QED
    BY <1>6, <2>3, <2>4, <2>5 DEF PlanFits
<1> QED
  BY <1>1, <1>2, <1>3, <1>4, <1>5, <1>6 DEF RulesOK

(* A request that changes nothing but what one is going to do.             *)
LEMMA NewPlanOnDesk ==
  ASSUME AccountsInv, NEW u \in People, NEW q, PlanFits(q), office' = [office EXCEPT ![u] = q],
         q.topic \in TopicIds \ Ruled!Topics => \A v \in People \ {u} : office[v] # Ruled!Idle => office[v].topic # q.topic,
         UNCHANGED <<Ruled!database, Ruled!history>>, served' \in 0 .. MaxServed
  PROVE  AccountsInv'
<1>1. RulesOK /\ RulesTypes /\ Ruled!ClearedForTheSheet
  BY DEF AccountsInv, RulesOK
<1>2. DOMAIN office' = People /\ office'[u] = q /\ \A v \in People \ {u} : office'[v] = office[v]
  BY <1>1 DEF RulesTypes
<1>3. UNCHANGED <<active, superuser, granted, topics, followers, clearances, overlapped, fresh>>
  BY DEF Ruled!database, Ruled!history
<1>4. Ruled!ClearedForTheSheet' /\ clearances' \in [People -> [Wafers -> SUBSET Events]]
  BY <1>1, <1>3 DEF Ruled!ClearedForTheSheet, RulesTypes
<1>5. RulesOK' /\ Ruled!Topics' = Ruled!Topics /\ \A r : PlanFits(r) => PlanFits(r)'
  BY <1>1, <1>2, <1>3, <1>4, DatabaseStays
<1>6. ASSUME NEW v \in People, NEW r \in {office'[v]}, r # Ruled!Idle
      PROVE  PlanFits(r)'
  <2>1. PlanFits(r)
    BY <1>2, <1>6 DEF AccountsInv, DesksFit
  <2> QED
    BY <1>5, <2>1
<1>7. ASSUME NEW v \in People, NEW w \in People, v # w, office'[v] # Ruled!Idle, office'[w] # Ruled!Idle, office'[v].topic = office'[w].topic
      PROVE  office'[v].topic \notin TopicIds \ Ruled!Topics'
  BY <1>2, <1>5, <1>7 DEF AccountsInv, DesksFit
<1> QED
  BY <1>5, <1>6, <1>7 DEF AccountsInv, DesksFit

(* Requests that are complete when they begin.                             *)
LEMMA SimplePlansFit ==
  ASSUME Ruled!AccountsAssumption, AccountsInv, NEW q, NEW v \in People,
         q.phase = "written", q.topic = Nobody, q.row = [t \in {} |-> Ruled!Missing], q.members = {}, q.nonmembers = {},
         q.touches = {v},
         DOMAIN q = DOMAIN Ruled!Plan,
         \A a \in q.adders : \E t \in Ruled!Topics : a = <<t, v>> /\ v \in topics[t].members,
         \A a \in q.nonadders : \E t \in Ruled!Topics : a = <<t, v>>,
         \A g \in q.grants \cup q.revokes : \E p : g = <<v, p>>,
         v \notin overlapped /\ "edit_permissions" \in Remaining(v, q) => Ruled!ProcessPermissions \subseteq Remaining(v, q),
         \A p \in Ruled!TopicPermissions : p \in Remaining(v, q) <=> p \in granted[v]
  PROVE  PlanFits(q)
<1>1. DOMAIN q.row = {} /\ Ruled!Topics \subseteq TopicIds /\ Nobody \notin TopicIds /\ RulesOK
  BY DEF Ruled!Topics, Ruled!AccountsAssumption, AccountsInv
<1>2. PlanTypes(q)
  BY <1>1 DEF PlanTypes
<1>3. ASSUME NEW w \in People \ overlapped
      PROVE  /\ "edit_permissions" \in Remaining(w, q) => Ruled!ProcessPermissions \subseteq Remaining(w, q)
             /\ \A p \in Ruled!TopicPermissions : p \in Remaining(w, q) <=> p \in granted[w]
  <2>1. CASE w # v
    <3>1. \A g \in q.grants \cup q.revokes : g[1] # w
      BY <2>1
    <3>2. {m[2] : m \in {n \in q.revokes : n[1] = w}} = {} /\ {m[2] : m \in {n \in q.grants : n[1] = w}} = {}
      BY <3>1
    <3>3. Remaining(w, q) = granted[w]
      BY <3>2 DEF Remaining
    <3> QED
      BY <1>1, <3>3 DEF RulesOK, Ruled!PermissionEditorsMayDoAll
  <2> QED
    BY <2>1
<1>4. PlanRights(q)
  BY <1>3 DEF PlanRights
<1>5. PlanAdders(q)
  BY <1>1 DEF PlanAdders
<1> QED
  BY <1>2, <1>4, <1>5 DEF PlanFits, SimplePlan

LEMMA AddKeepsRules ==
  ASSUME Ruled!AccountsAssumption, AccountsInv, NEW u \in People, office[u] = Ruled!Idle, served < MaxServed,
         u \in active, Ruled!add(u)
  PROVE  AccountsInv'
<1>1. PICK t \in TopicIds \ Ruled!Topics, parent \in Ruled!Topics \cup {Nobody}, manager \in active, conf \in BOOLEAN :
        /\ \A s \in TopicIds \ Ruled!Topics : t <= s
        /\ \A v \in People : office[v] # Ruled!Idle => office[v].topic # t
        /\ Ruled!can_edit_users_topics(u)
        /\ department[u] # Nobody
        /\ Ruled!can_edit_topic(u, parent)
        /\ parent # Nobody => manager = topics[parent].manager /\ conf = topics[parent].confidential
        /\ Ruled!Begin(u, [Ruled!Plan EXCEPT !.topic = t, !.phase = "new",
                           !.row = [c \in {t} |-> [confidential |-> conf, manager |-> manager,
                                                   members |-> {}, parent |-> parent]],
                           !.members = {<<t, u>>}, !.adders = {<<t, u>>},
                           !.grants = {<<manager, "edit_their_topics">>},
                           !.touches = {t, u, manager} \cup ({parent} \ {Nobody})])
  BY Zenon DEF Ruled!add
<1>2. PICK q : /\ q = [Ruled!Plan EXCEPT !.topic = t, !.phase = "new",
                           !.row = [c \in {t} |-> [confidential |-> conf, manager |-> manager,
                                                   members |-> {}, parent |-> parent]],
                           !.members = {<<t, u>>}, !.adders = {<<t, u>>},
                           !.grants = {<<manager, "edit_their_topics">>},
                           !.touches = {t, u, manager} \cup ({parent} \ {Nobody})]
               /\ Ruled!Begin(u, q)
  BY <1>1
<1>3. /\ DOMAIN q = DOMAIN Ruled!Plan
      /\ q.topic = t /\ q.phase = "new"
      /\ q.row = [c \in {t} |-> [confidential |-> conf, manager |-> manager, members |-> {}, parent |-> parent]]
      /\ q.members = {<<t, u>>} /\ q.nonmembers = {} /\ q.adders = {<<t, u>>} /\ q.nonadders = {}
      /\ q.grants = {<<manager, "edit_their_topics">>} /\ q.revokes = {}
      /\ q.touches = {t, u, manager} \cup ({parent} \ {Nobody})
  BY <1>2 DEF Ruled!Plan
<1>4. RulesOK /\ RulesTypes /\ Nobody \notin TopicIds
  BY DEF AccountsInv, RulesOK, Ruled!AccountsAssumption
<1>5. /\ DOMAIN q.row = {t} /\ q.row[t].manager = manager /\ q.row[t].confidential = conf /\ q.row[t].parent = parent
      /\ q.row[t] \in TopicRow /\ manager \in People /\ parent \in TopicIds \cup {Nobody}
  <2>1. manager \in People /\ parent \in TopicIds \cup {Nobody}
    BY <1>4 DEF RulesTypes, Ruled!Topics
  <2>2. q.row[t] = [confidential |-> conf, manager |-> manager, members |-> {}, parent |-> parent] /\ DOMAIN q.row = {t}
    BY <1>3
  <2> QED
    BY <2>1, <2>2 DEF TopicRow
<1>6. PlanTypes(q)
  BY <1>3, <1>4, <1>5 DEF PlanTypes
<1>7. PlanRights(q)
  <2> SUFFICES ASSUME NEW v \in People \ overlapped, "edit_permissions" \in Remaining(v, q)
               PROVE  Ruled!ProcessPermissions \subseteq Remaining(v, q)
    BY <1>3, <1>4 DEF PlanRights
  <2>1. \A p : p \in Remaining(v, q) <=> <<v, p>> \in q.grants \/ (p \in granted[v] /\ <<v, p>> \notin q.revokes)
    <3>1. \A g \in q.grants \cup q.revokes : g = <<g[1], g[2]>>
      BY <1>3
    <3> QED
      BY <3>1, RemainingRights
  <2>2. "edit_permissions" \in granted[v]
    BY <1>3, <2>1
  <2> QED
    BY <1>3, <1>4, <2>1, <2>2 DEF RulesOK, Ruled!PermissionEditorsMayDoAll
<1>8. PlanAdders(q)
  BY <1>3 DEF PlanAdders
<1>9. NewPlan(q)
  BY <1>1, <1>3, <1>4, <1>5 DEF NewPlan
<1>10. PlanFits(q)
  BY <1>6, <1>7, <1>8, <1>9 DEF PlanFits
<1>11. /\ office' = [office EXCEPT ![u] = q] /\ UNCHANGED <<Ruled!database, Ruled!history>>
       /\ served' \in 0 .. MaxServed
  BY <1>2, <1>4 DEF Ruled!Begin, RulesTypes, Ruled!AccountsAssumption
<1> QED
  BY <1>1, <1>3, <1>10, <1>11, NewPlanOnDesk

LEMMA EditKeepsRules ==
  ASSUME Ruled!AccountsAssumption, AccountsInv, NEW u \in People, office[u] = Ruled!Idle, served < MaxServed,
         u \in active, Ruled!edit(u)
  PROVE  AccountsInv'
<1>1. RulesOK /\ RulesTypes /\ Nobody \notin TopicIds /\ Ruled!Topics \subseteq TopicIds
  BY DEF AccountsInv, RulesOK, Ruled!AccountsAssumption, Ruled!Topics
<1>2. PICK t \in Ruled!Topics, conf \in BOOLEAN :
        \E folk \in SUBSET (active \cup topics[t].members), manager \in active \cup {topics[t].manager} :
          LET new == Ruled!NewMembers(folk, manager)
              old == topics[t].members
          IN  /\ topics[t].parent = Nobody
              /\ Ruled!can_edit_topic(u, t)
              /\ Ruled!Cardinality((new \ old) \cup (old \ new)) <= MaxMoves
              /\ Ruled!Valid(t, folk, conf)
              /\ Ruled!Begin(u, [Ruled!Plan EXCEPT
                   !.topic = t, !.old = topics[t].manager,
                   !.row = [c \in {t} |-> [topics[t] EXCEPT !.confidential = conf, !.manager = manager]],
                   !.members = {t} \X (new \ old), !.nonmembers = {t} \X (old \ new),
                   !.nonadders = {t} \X (old \ new),
                   !.touches = {t, topics[t].manager, manager} \cup old \cup new])
  BY Zenon DEF Ruled!edit
<1>3. PICK folk, manager, new, old, q :
        /\ folk \subseteq active \cup topics[t].members /\ manager \in active \cup {topics[t].manager}
        /\ new = folk \cup {manager} /\ old = topics[t].members
        /\ topics[t].parent = Nobody
        /\ Ruled!Begin(u, q)
        /\ q = [Ruled!Plan EXCEPT
                   !.topic = t, !.old = topics[t].manager,
                   !.row = [c \in {t} |-> [topics[t] EXCEPT !.confidential = conf, !.manager = manager]],
                   !.members = {t} \X (new \ old), !.nonmembers = {t} \X (old \ new),
                   !.nonadders = {t} \X (old \ new),
                   !.touches = {t, topics[t].manager, manager} \cup old \cup new]
  BY <1>2 DEF Ruled!NewMembers
<1>4. /\ DOMAIN q = DOMAIN Ruled!Plan
      /\ q.topic = t /\ q.phase = "form" /\ q.old = topics[t].manager
      /\ q.row = [c \in {t} |-> [topics[t] EXCEPT !.confidential = conf, !.manager = manager]]
      /\ q.members = {t} \X (new \ old) /\ q.nonmembers = {t} \X (old \ new)
      /\ q.adders = {} /\ q.nonadders = {t} \X (old \ new) /\ q.grants = {} /\ q.revokes = {}
      /\ q.touches = {t, topics[t].manager, manager} \cup old \cup new
  BY <1>3 DEF Ruled!Plan
<1>5. topics[t] \in TopicRow /\ old \subseteq People /\ new \subseteq People /\ manager \in People /\ topics[t].manager \in People
  BY <1>1, <1>3 DEF RulesTypes, TopicRow
<1>6. /\ DOMAIN q.row = {t} /\ q.row[t] \in TopicRow
      /\ q.row[t].manager = manager /\ q.row[t].confidential = conf /\ q.row[t].parent = Nobody
  <2>1. DOMAIN q.row = {t} /\ q.row[t] = [topics[t] EXCEPT !.confidential = conf, !.manager = manager]
    BY <1>4
  <2>2. PICK r : r = topics[t]
    OBVIOUS
  <2>3. r \in TopicRow /\ r.parent = Nobody
    BY <1>3, <1>5, <2>2
  <2>4. q.row[t] = [r EXCEPT !.confidential = conf, !.manager = manager]
    BY <2>1, <2>2
  <2> QED
    BY <1>5, <2>1, <2>3, <2>4 DEF TopicRow
<1>7. PlanTypes(q)
  <2>1. q.members \cup q.nonmembers \cup q.adders \cup q.nonadders \subseteq TopicIds \X People
    BY <1>1, <1>4, <1>5
  <2>2. \A m \in q.members \cup q.nonmembers : m[1] \in DOMAIN q.row
    BY <1>4, <1>6
  <2> QED
    BY <1>1, <1>4, <1>6, <2>1, <2>2 DEF PlanTypes
<1>8. PlanRights(q)
  <2>1. \A v : Remaining(v, q) = granted[v]
    BY <1>4 DEF Remaining
  <2> QED
    BY <1>1, <1>4, <2>1 DEF PlanRights, RulesOK, Ruled!PermissionEditorsMayDoAll
<1>9. PlanAdders(q)
  <2>1. \A n \in q.nonmembers : n[1] = t /\ n[2] \in old /\ n \in q.nonadders
    BY <1>4
  <2> QED
    BY <1>4, <2>1 DEF PlanAdders
<1>10. EditPlan(q)
  <2>1. EditRows(q)
    BY <1>3, <1>4, <1>6 DEF EditRows
  <2>2. EditFamily(q)
    BY <1>4 DEF EditFamily
  <2>3. EditMember(q, manager)
    <3>1. manager \in new
      BY <1>3
    <3>2. manager \in old => <<t, manager>> \notin q.nonmembers
      BY <1>4, <3>1
    <3>3. manager \notin old => <<t, manager>> \in q.members
      BY <1>4, <3>1
    <3> QED
      BY <1>3, <1>4, <3>2, <3>3 DEF EditMember
  <2>4. EditRights(q, manager)
    BY <1>4 DEF EditRights
  <2> QED
    BY <1>3, <1>4, <1>6, <2>1, <2>2, <2>3, <2>4 DEF EditPlan
<1>11. PlanFits(q)
  BY <1>7, <1>8, <1>9, <1>10 DEF PlanFits
<1>12. /\ office' = [office EXCEPT ![u] = q] /\ UNCHANGED <<Ruled!database, Ruled!history>>
       /\ served' \in 0 .. MaxServed
  BY <1>1, <1>3 DEF Ruled!Begin, RulesTypes, Ruled!AccountsAssumption
<1> QED
  BY <1>4, <1>11, <1>12, NewPlanOnDesk

LEMMA PreferencesKeepRules ==
  ASSUME Ruled!AccountsAssumption, AccountsInv, NEW u \in People, served < MaxServed, Ruled!edit_preferences(u)
  PROVE  AccountsInv'
<1>1. RulesOK /\ RulesTypes /\ Nobody \notin TopicIds /\ superuser \subseteq People
  BY DEF AccountsInv, RulesOK, RulesTypes, Ruled!AccountsAssumption
<1>2. PICK v, chosen, q :
        /\ v \in People /\ chosen \subseteq {t \in Ruled!Topics : Ruled!in_topic(v, t)}
        /\ Ruled!Begin(u, q)
        /\ q = [Ruled!Plan EXCEPT !.phase = "written",
                          !.adders = chosen \X {v}, !.nonadders = (Ruled!Topics \ chosen) \X {v},
                          !.touches = {v}]
  BY <1>1 DEF Ruled!edit_preferences
<1>3. /\ DOMAIN q = DOMAIN Ruled!Plan
      /\ q.phase = "written" /\ q.topic = Nobody /\ q.row = [t \in {} |-> Ruled!Missing]
      /\ q.members = {} /\ q.nonmembers = {} /\ q.grants = {} /\ q.revokes = {} /\ q.touches = {v}
      /\ q.adders = chosen \X {v} /\ q.nonadders = (Ruled!Topics \ chosen) \X {v}
  BY <1>2 DEF Ruled!Plan
<1>4. \A a \in q.adders : \E t \in Ruled!Topics : a = <<t, v>> /\ v \in topics[t].members
  BY <1>2, <1>3 DEF Ruled!in_topic
<1>5. \A a \in q.nonadders : \E t \in Ruled!Topics : a = <<t, v>>
  BY <1>3
<1>6. Remaining(v, q) = granted[v]
  BY <1>3 DEF Remaining
<1>7. PlanFits(q)
  <2>1. v \in People /\ \A g \in q.grants \cup q.revokes : \E p : g = <<v, p>>
    BY <1>2, <1>3
  <2>2. v \notin overlapped /\ "edit_permissions" \in Remaining(v, q) => Ruled!ProcessPermissions \subseteq Remaining(v, q)
    BY <1>1, <1>6, <2>1 DEF RulesOK, Ruled!PermissionEditorsMayDoAll
  <2> QED
    BY <1>3, <1>4, <1>5, <1>6, <2>1, <2>2, SimplePlansFit
<1>8. /\ office' = [office EXCEPT ![u] = q] /\ UNCHANGED <<Ruled!database, Ruled!history>>
      /\ served' \in 0 .. MaxServed
  BY <1>1, <1>2 DEF Ruled!Begin, RulesTypes, Ruled!AccountsAssumption
<1> QED
  BY <1>1, <1>3, <1>7, <1>8, NewPlanOnDesk

LEMMA PermissionsKeepRules ==
  ASSUME Ruled!AccountsAssumption, AccountsInv, NEW u \in People, served < MaxServed, Ruled!edit_permissions(u)
  PROVE  AccountsInv'
<1>1. RulesOK /\ RulesTypes /\ Nobody \notin TopicIds
  BY DEF AccountsInv, RulesOK, RulesTypes, Ruled!AccountsAssumption
<1>2. PICK v, chosen, ticks, have, q :
        /\ v \in People /\ chosen \in Ticked
        /\ ticks = Ruled!Cleaned(chosen)
        /\ have = {p \in Ruled!ProcessPermissions : v \in Ruled!holders(p)}
        /\ Ruled!Begin(u, q)
        /\ q = [Ruled!Plan EXCEPT !.phase = "written",
                               !.grants = {v} \X (ticks \ have), !.revokes = {v} \X (have \ ticks),
                               !.touches = {v}]
  BY DEF Ruled!edit_permissions
<1>3. /\ DOMAIN q = DOMAIN Ruled!Plan
      /\ q.phase = "written" /\ q.topic = Nobody /\ q.row = [t \in {} |-> Ruled!Missing]
      /\ q.members = {} /\ q.nonmembers = {} /\ q.adders = {} /\ q.nonadders = {} /\ q.touches = {v}
      /\ q.grants = {v} \X (ticks \ have) /\ q.revokes = {v} \X (have \ ticks)
  BY <1>2 DEF Ruled!Plan
<1>4. /\ ticks \subseteq Ruled!ProcessPermissions /\ have \subseteq Ruled!ProcessPermissions
      /\ "edit_permissions" \in ticks => ticks = Ruled!ProcessPermissions
  <2>1. chosen \subseteq Ruled!ProcessPermissions
    BY <1>2 DEF Ruled!AccountsAssumption
  <2> QED
    BY <1>2, <2>1 DEF Ruled!Cleaned, Ruled!ProcessPermissions
<1>5. \A p \in Ruled!ProcessPermissions : p \in have <=> v \in active \ superuser /\ p \in granted[v]
  BY <1>2 DEF Ruled!holders
<1>6. \A g \in q.grants \cup q.revokes : g = <<g[1], g[2]>> /\ \E p : g = <<v, p>>
  BY <1>3
<1>7. \A p : p \in Remaining(v, q) <=> p \in ticks \ have \/ (p \in granted[v] /\ p \notin have \ ticks)
  <2>1. \A p : p \in Remaining(v, q) <=> <<v, p>> \in q.grants \/ (p \in granted[v] /\ <<v, p>> \notin q.revokes)
    BY <1>6, RemainingRights
  <2> QED
    BY <1>3, <2>1
<1>8. ASSUME v \notin overlapped, "edit_permissions" \in Remaining(v, q)
      PROVE  Ruled!ProcessPermissions \subseteq Remaining(v, q)
  <2>1. "edit_permissions" \in Ruled!ProcessPermissions
    BY DEF Ruled!ProcessPermissions
  <2>2. CASE "edit_permissions" \in ticks
    BY <1>4, <1>5, <1>7, <2>2
  <2>3. CASE "edit_permissions" \notin ticks
    <3>1. "edit_permissions" \in granted[v] /\ "edit_permissions" \notin have
      BY <1>7, <1>8, <2>3
    <3>2. v \notin active \ superuser /\ Ruled!ProcessPermissions \subseteq granted[v]
      BY <1>1, <1>2, <1>5, <1>8, <2>1, <3>1 DEF RulesOK, Ruled!PermissionEditorsMayDoAll
    <3> QED
      BY <1>4, <1>5, <1>7, <3>2
  <2> QED
    BY <2>2, <2>3
<1>9. \A p \in Ruled!TopicPermissions : p \in Remaining(v, q) <=> p \in granted[v]
  <2>1. \A p \in Ruled!TopicPermissions : p \notin ticks /\ p \notin have
    BY <1>4 DEF Ruled!TopicPermissions, Ruled!ProcessPermissions
  <2> QED
    BY <1>7, <2>1
<1>10. PlanFits(q)
  <2>1. v \in People
    BY <1>2
  <2>2. \A g \in q.grants \cup q.revokes : \E p : g = <<v, p>>
    BY <1>6
  <2>3. v \notin overlapped /\ "edit_permissions" \in Remaining(v, q) => Ruled!ProcessPermissions \subseteq Remaining(v, q)
    BY <1>8
  <2> QED
    BY <1>3, <1>9, <2>1, <2>2, <2>3, SimplePlansFit
<1>11. /\ office' = [office EXCEPT ![u] = q] /\ UNCHANGED <<Ruled!database, Ruled!history>>
       /\ served' \in 0 .. MaxServed
  BY <1>1, <1>2 DEF Ruled!Begin, RulesTypes, Ruled!AccountsAssumption
<1> QED
  BY <1>1, <1>3, <1>10, <1>11, NewPlanOnDesk

LEMMA DirectoryKeepsRules ==
  ASSUME Ruled!AccountsAssumption, AccountsInv, NEW u \in People, served < MaxServed, Ruled!synchronize_with_ad(u)
  PROVE  AccountsInv'
<1>1. RulesOK /\ RulesTypes /\ Nobody \notin TopicIds
  BY DEF AccountsInv, RulesOK, RulesTypes, Ruled!AccountsAssumption
<1>2. PICK new, others, q :
        /\ new = (granted[u] \ Managed) \cup AdPermissions[u]
        /\ others = UNION {granted[v] : v \in People} \cup Ruled!ProcessPermissions \cup {"edit_their_topics"}
        /\ Ruled!Begin(u, q)
        /\ q = [Ruled!Plan EXCEPT !.phase = "written",
                           !.grants = IF new = granted[u] THEN {} ELSE {u} \X new,
                           !.revokes = IF new = granted[u] THEN {} ELSE {u} \X (others \ new),
                           !.department = [v \in {u} |-> AdDepartment[u]],
                           !.touches = {u}]
  BY DEF Ruled!synchronize_with_ad
<1>3. /\ DOMAIN q = DOMAIN Ruled!Plan
      /\ q.phase = "written" /\ q.topic = Nobody /\ q.row = [t \in {} |-> Ruled!Missing]
      /\ q.members = {} /\ q.nonmembers = {} /\ q.adders = {} /\ q.nonadders = {} /\ q.touches = {u}
      /\ q.grants = (IF new = granted[u] THEN {} ELSE {u} \X new)
      /\ q.revokes = (IF new = granted[u] THEN {} ELSE {u} \X (others \ new))
  BY <1>2 DEF Ruled!Plan
<1>4. \A g \in q.grants \cup q.revokes : g = <<g[1], g[2]>> /\ \E p : g = <<u, p>>
  BY <1>3
<1>5. granted[u] \subseteq others
  BY <1>2
<1>6. \A p : p \in Remaining(u, q) <=> p \in new
  <2>1. \A p : p \in Remaining(u, q) <=> <<u, p>> \in q.grants \/ (p \in granted[u] /\ <<u, p>> \notin q.revokes)
    BY <1>4, RemainingRights
  <2> QED
    BY <1>3, <1>5, <2>1
<1>7. \A p \in Ruled!ProcessPermissions \cup Ruled!TopicPermissions : p \in new <=> p \in granted[u]
  <2>1. AdPermissions[u] \subseteq Managed /\ Managed \cap (Ruled!ProcessPermissions \cup Ruled!TopicPermissions) = {}
    BY DEF Ruled!AccountsAssumption
  <2> QED
    BY <1>2, <2>1
<1>8. u \notin overlapped /\ "edit_permissions" \in Remaining(u, q) => Ruled!ProcessPermissions \subseteq Remaining(u, q)
  <2>1. "edit_permissions" \in Ruled!ProcessPermissions
    BY DEF Ruled!ProcessPermissions
  <2> QED
    BY <1>1, <1>6, <1>7, <2>1 DEF RulesOK, Ruled!PermissionEditorsMayDoAll
<1>9. PlanFits(q)
  BY <1>3, <1>4, <1>6, <1>7, <1>8, SimplePlansFit
<1>10. /\ office' = [office EXCEPT ![u] = q] /\ UNCHANGED <<Ruled!database, Ruled!history>>
       /\ served' \in 0 .. MaxServed
  BY <1>1, <1>2 DEF Ruled!Begin, RulesTypes, Ruled!AccountsAssumption
<1> QED
  BY <1>1, <1>3, <1>9, <1>10, NewPlanOnDesk

(* The sub-topics of a topic, theirs, and so on.                           *)
LEMMA Families ==
  ASSUME Ruled!AccountsAssumption, AccountsInv, NEW t \in Ruled!Topics
  PROVE  /\ t \in Ruled!Family(t) /\ Ruled!Family(t) \subseteq Ruled!Topics
         /\ \A c \in Ruled!Topics : topics[c].parent \in Ruled!Family(t) => c \in Ruled!Family(t)
         /\ \A c \in Ruled!Family(t) : c # t => topics[c].parent \in Ruled!Family(t)
         /\ \A c \in Ruled!Family(t) : topics[c].manager \in {topics[t].manager} \cup overlapped
<1>1. RulesTypes /\ SubtopicsAgree /\ Ruled!Topics \subseteq TopicIds /\ Nobody \notin TopicIds
  BY DEF AccountsInv, RulesOK, Ruled!AccountsAssumption, Ruled!Topics
<1> DEFINE Closed(family) == t \in family /\ \A p \in family : Ruled!Children(p) \subseteq family
<1>2. \A family \in SUBSET TopicIds : Closed(family) => Ruled!Family(t) \subseteq family
  BY DEF Ruled!Family
<1>3. t \in Ruled!Family(t)
  BY <1>1 DEF Ruled!Family
<1>4. \A c \in Ruled!Topics : topics[c].parent \in Ruled!Family(t) => c \in Ruled!Family(t)
  <2> SUFFICES ASSUME NEW c \in Ruled!Topics, topics[c].parent \in Ruled!Family(t), NEW family \in SUBSET TopicIds, Closed(family)
               PROVE  c \in family
    BY <1>1 DEF Ruled!Family
  <2>1. topics[c].parent \in family
    BY <1>2
  <2> QED
    BY <2>1 DEF Ruled!Children
<1>5. \A c \in Ruled!Family(t) : c = t \/ (c \in Ruled!Topics /\ topics[c].parent \in Ruled!Family(t))
  <2> DEFINE F == {c \in Ruled!Family(t) : c = t \/ (c \in Ruled!Topics /\ topics[c].parent \in Ruled!Family(t))}
  <2>1. F \in SUBSET TopicIds
    BY DEF Ruled!Family
  <2>2. Closed(F)
    BY <1>3, <1>4 DEF Ruled!Children
  <2> QED
    BY <1>2, <2>1, <2>2
<1>6. \A c \in Ruled!Family(t) : topics[c].manager \in {topics[t].manager} \cup overlapped
  <2> DEFINE G == {c \in Ruled!Family(t) : topics[c].manager \in {topics[t].manager} \cup overlapped}
  <2>1. G \in SUBSET TopicIds
    BY DEF Ruled!Family
  <2>2. Closed(G)
    <3> SUFFICES ASSUME NEW p \in G, NEW c \in Ruled!Children(p)
                 PROVE  c \in G
      BY <1>3
    <3>1. c \in Ruled!Topics /\ topics[c].parent = p /\ p # Nobody /\ c \in Ruled!Family(t)
      BY <1>1, <1>4, <2>1 DEF Ruled!Children
    <3>2. topics[c].manager = topics[p].manager \/ topics[c].manager \in overlapped
      BY <1>1, <3>1 DEF SubtopicsAgree
    <3> QED
      BY <3>1, <3>2
  <2> QED
    BY <1>2, <2>1, <2>2
<1> QED
  BY <1>3, <1>4, <1>5, <1>6

(* The rows of a topic and its sub-topics are ready to be written.         *)
LEMMA WriteKeepsRules ==
  ASSUME Ruled!AccountsAssumption, AccountsInv, NEW u \in People, Ruled!Write(u)
  PROVE  AccountsInv'
<1>1. RulesOK /\ RulesTypes /\ Nobody \notin TopicIds /\ Ruled!Topics \subseteq TopicIds
  BY DEF AccountsInv, RulesOK, Ruled!AccountsAssumption, Ruled!Topics
<1> DEFINE plan == office[u]
           lines == Ruled!Rows(plan)
           family == DOMAIN lines \ {plan.topic}
           folk == (topics[plan.topic].members \cup {m[2] : m \in plan.members}) \ {m[2] : m \in plan.nonmembers}
           more == UNION {{c} \X (folk \ topics[c].members) : c \in family}
           fewer == UNION {{c} \X (topics[c].members \ folk) : c \in family}
           revokes == Ruled!Revokes(plan, lines)
           grants == Ruled!Grants(plan, lines)
           q == [plan EXCEPT !.phase = "written", !.row = lines, !.touches = @ \cup DOMAIN lines,
                             !.members = @ \cup more, !.nonmembers = @ \cup fewer,
                             !.revokes = revokes, !.grants = grants]
           t == plan.topic
           new == plan.row[t].manager
<1>2. plan # Ruled!Idle /\ plan.phase = "form" /\ office' = [office EXCEPT ![u] = q] /\ UNCHANGED <<Ruled!database, served, Ruled!history>>
  BY Zenon DEF Ruled!Write
<1>3. PlanFits(plan) /\ PlanTypes(plan) /\ EditPlan(plan)
  <2>1. PlanFits(plan)
    BY <1>2 DEF AccountsInv, DesksFit
  <2> QED
    BY <1>2, <2>1 DEF PlanFits, SimplePlan, NewPlan
<1>4. DOMAIN plan = {"phase", "topic", "old", "row", "members", "nonmembers", "adders", "nonadders",
                     "grants", "revokes", "department", "touches"}
  BY <1>3 DEF PlanTypes, Ruled!Plan
<1>5. /\ DOMAIN q = DOMAIN Ruled!Plan /\ q.phase = "written" /\ q.row = lines /\ q.topic = t /\ q.old = plan.old
      /\ q.touches = plan.touches \cup DOMAIN lines
      /\ q.members = plan.members \cup more /\ q.nonmembers = plan.nonmembers \cup fewer
      /\ q.adders = plan.adders /\ q.nonadders = plan.nonadders
      /\ q.revokes = revokes /\ q.grants = grants
  <2> HIDE DEF plan, lines, more, fewer, revokes, grants
  <2> QED
    BY <1>4 DEF Ruled!Plan
<1>6. /\ t \in Ruled!Topics /\ topics[t].parent = Nobody /\ plan.adders = {} /\ plan.old \in plan.touches
      /\ EditRows(plan) /\ EditMember(plan, new) /\ EditRights(plan, new)
      /\ t \in DOMAIN plan.row /\ new \in plan.touches /\ plan.row[t] \in TopicRow
      /\ plan.row[t].parent = Nobody /\ topics[t].manager \in {plan.old} \cup overlapped
  BY <1>1, <1>3 DEF EditPlan, EditRows, PlanTypes
<1>7. DOMAIN lines = Ruled!Family(t)
  BY DEF Ruled!Rows
<1>8. /\ t \in Ruled!Family(t) /\ Ruled!Family(t) \subseteq Ruled!Topics
      /\ \A c \in Ruled!Topics : topics[c].parent \in Ruled!Family(t) => c \in Ruled!Family(t)
      /\ \A c \in Ruled!Family(t) : c # t => topics[c].parent \in Ruled!Family(t)
      /\ \A c \in Ruled!Family(t) : topics[c].manager \in {topics[t].manager} \cup overlapped
  BY <1>6, Families
<1>9. \A c \in Ruled!Family(t) :
        /\ lines[c] \in TopicRow /\ lines[c].manager = new /\ lines[c].confidential = plan.row[t].confidential
        /\ lines[c].parent = topics[c].parent
  <2> SUFFICES ASSUME NEW c \in Ruled!Family(t)
               PROVE  /\ lines[c] \in TopicRow /\ lines[c].manager = new /\ lines[c].confidential = plan.row[t].confidential
                      /\ lines[c].parent = topics[c].parent
    OBVIOUS
  <2>1. lines[c] = IF c = t THEN plan.row[c] ELSE [plan.row[t] EXCEPT !.parent = topics[c].parent]
    BY DEF Ruled!Rows
  <2>2. topics[c].parent \in TopicIds \cup {Nobody}
    BY <1>1, <1>8 DEF RulesTypes
  <2>3. PICK r : r = plan.row[t]
    OBVIOUS
  <2>4. c # t => lines[c] = [r EXCEPT !.parent = topics[c].parent]
    BY <2>1, <2>3
  <2>5. r \in TopicRow /\ r.manager = new
    BY <1>6, <2>3
  <2> HIDE DEF plan, lines, t, new
  <2> QED
    BY <1>6, <2>1, <2>2, <2>3, <2>4, <2>5 DEF TopicRow
<1>10. more \cup fewer \subseteq TopicIds \X People /\ \A m \in more \cup fewer : m[1] \in Ruled!Family(t) \ {t}
  <2>1. \A m \in plan.members : m[2] \in People
    BY <1>3 DEF PlanTypes
  <2>2. folk \subseteq People
    BY <1>1, <1>6, <2>1 DEF RulesTypes, TopicRow
  <2>3. \A c \in family : c \in Ruled!Family(t) \ {t} /\ c \in TopicIds /\ topics[c].members \subseteq People
    BY <1>1, <1>7, <1>8 DEF RulesTypes, TopicRow
  <2> HIDE DEF folk, family
  <2> QED
    BY <2>2, <2>3
<1>11. /\ grants \subseteq {<<new, "edit_their_topics">>}
       /\ revokes \subseteq {<<plan.old, "edit_their_topics">>}
       /\ revokes # {} => plan.old # new
       /\ plan.old # new => grants # {} \/ Ruled!can_edit_users_topics(new)
       /\ plan.old # new => (revokes # {} <=> \A s \in Ruled!Topics \ Ruled!Family(t) : topics[s].manager # plan.old)
  <2>1. lines[t].manager = new
    BY <1>8, <1>9
  <2>2. grants = {m \in {new} : m # plan.old /\ ~Ruled!can_edit_users_topics(m)} \X {"edit_their_topics"}
    BY <2>1 DEF Ruled!Grants
  <2>3. revokes = {m \in {plan.old} : m # new /\ \A s \in Ruled!Topics :
                     IF s \in Ruled!Family(t) THEN lines[s].manager # m ELSE topics[s].manager # m} \X {"edit_their_topics"}
    BY <1>7, <2>1 DEF Ruled!Revokes
  <2>4. plan.old # new => ((\A s \in Ruled!Topics : IF s \in Ruled!Family(t) THEN lines[s].manager # plan.old ELSE topics[s].manager # plan.old)
                             <=> \A s \in Ruled!Topics \ Ruled!Family(t) : topics[s].manager # plan.old)
    BY <1>9
  <2> HIDE DEF grants, revokes, plan, lines, new, t
  <2>5. grants # {} <=> new # plan.old /\ ~Ruled!can_edit_users_topics(new)
    <3>1. \A g \in grants : new # plan.old /\ ~Ruled!can_edit_users_topics(new)
      BY <2>2
    <3>2. new # plan.old /\ ~Ruled!can_edit_users_topics(new) => <<new, "edit_their_topics">> \in grants
      BY <2>2
    <3> QED
      BY <3>1, <3>2
  <2>6. revokes # {} <=> plan.old # new /\ \A s \in Ruled!Topics :
                     IF s \in Ruled!Family(t) THEN lines[s].manager # plan.old ELSE topics[s].manager # plan.old
    <3> DEFINE last == plan.old # new /\ \A s \in Ruled!Topics :
                     IF s \in Ruled!Family(t) THEN lines[s].manager # plan.old ELSE topics[s].manager # plan.old
    <3>1. \A g \in revokes : last
      BY <2>3
    <3>2. last => <<plan.old, "edit_their_topics">> \in revokes
      BY <2>3
    <3> QED
      BY <3>1, <3>2
  <2> QED
    BY <2>2, <2>3, <2>4, <2>5, <2>6
<1> HIDE DEF plan, lines, family, folk, more, fewer, revokes, grants, q, t, new
<1>12. PlanTypes(q)
  <2>1. q.members \cup q.nonmembers \cup q.adders \cup q.nonadders \subseteq TopicIds \X People
    BY <1>3, <1>5, <1>10 DEF PlanTypes
  <2>2. \A m \in q.members \cup q.nonmembers : m[1] \in DOMAIN q.row
    <3>1. DOMAIN plan.row = {t}
      BY <1>2, <1>6 DEF EditRows, t
    <3> QED
      BY <1>3, <1>5, <1>7, <1>8, <1>10, <3>1 DEF PlanTypes
  <2>3. \A g \in q.grants \cup q.revokes : g = <<g[1], g[2]>> /\ g[1] \in q.touches
    BY <1>5, <1>6, <1>11
  <2>4. \A c \in DOMAIN q.row :
          q.row[c] \in TopicRow /\ q.row[c].parent \in Ruled!Topics \cup {Nobody} /\ q.row[c].manager \in q.touches
    BY <1>1, <1>5, <1>6, <1>7, <1>8, <1>9 DEF RulesTypes
  <2> QED
    BY <1>1, <1>5, <1>7, <1>8, <2>1, <2>2, <2>3, <2>4 DEF PlanTypes
<1>13. PlanRights(q)
  <2> SUFFICES ASSUME NEW v \in People \ overlapped, "edit_permissions" \in Remaining(v, q)
               PROVE  Ruled!ProcessPermissions \subseteq Remaining(v, q)
    BY <1>1, <1>5, <1>6 DEF PlanRights
  <2>1. \A g \in q.grants \cup q.revokes : g = <<g[1], g[2]>> /\ g[2] = "edit_their_topics"
    BY <1>5, <1>11
  <2>2. \A p : p \in Remaining(v, q) <=> <<v, p>> \in q.grants \/ (p \in granted[v] /\ <<v, p>> \notin q.revokes)
    BY <2>1, RemainingRights
  <2>3. \A p \in Ruled!ProcessPermissions : p \in Remaining(v, q) <=> p \in granted[v]
    <3>1. \A p : <<v, p>> \in q.grants \cup q.revokes => p = "edit_their_topics"
      BY <2>1
    <3> QED
      BY <2>2, <3>1 DEF Ruled!ProcessPermissions
  <2>4. "edit_permissions" \in Ruled!ProcessPermissions
    BY DEF Ruled!ProcessPermissions
  <2> QED
    BY <1>1, <2>3, <2>4 DEF RulesOK, Ruled!PermissionEditorsMayDoAll
<1>14. PlanAdders(q)
  <2>1. PlanAdders(plan)
    BY <1>3 DEF PlanFits
  <2>2. \A n \in fewer : n[1] \in Ruled!Topics /\ topics[n[1]].parent # Nobody
    BY <1>1, <1>8, <1>10
  <2> QED
    BY <1>5, <1>6, <2>1, <2>2 DEF PlanAdders
<1>15. EditPlan(q)
  <2>1. q.row[q.topic].manager = new /\ q.row[q.topic].confidential = plan.row[t].confidential
    BY <1>5, <1>8, <1>9
  <2>2. EditRows(q)
    BY <1>5, <1>6, <1>7, <1>8, <1>9, <2>1 DEF EditRows
  <2>3. EditFamily(q)
    BY <1>5, <1>7, <1>8 DEF EditFamily
  <2>4. EditMember(q, new)
    <3>1. \A m \in more \cup fewer : m[1] # t
      BY <1>10
    <3> QED
      BY <1>5, <1>6, <3>1 DEF EditMember, t
  <2>5. EditRights(q, new)
    <3>1. plan.old \notin overlapped => topics[t].manager = plan.old
      BY <1>6 DEF EditRights, t
    <3> QED
      BY <1>5, <1>7, <1>11, <3>1 DEF EditRights
  <2> QED
    BY <1>5, <1>6, <2>1, <2>2, <2>3, <2>4, <2>5 DEF EditPlan
<1>16. PlanFits(q)
  BY <1>12, <1>13, <1>14, <1>15 DEF PlanFits
<1>17. q.topic \notin TopicIds \ Ruled!Topics /\ served' \in 0 .. MaxServed
  BY <1>1, <1>2, <1>5, <1>6 DEF RulesTypes
<1> QED
  BY <1>2, <1>16, <1>17, NewPlanOnDesk

(* The members of the upper topic become those of a new sub-topic.         *)
LEMMA WriteNewKeepsRules ==
  ASSUME Ruled!AccountsAssumption, AccountsInv, NEW u \in People, Ruled!WriteNew(u)
  PROVE  AccountsInv'
<1>1. RulesOK /\ RulesTypes /\ Nobody \notin TopicIds /\ Ruled!Topics \subseteq TopicIds
  BY DEF AccountsInv, RulesOK, Ruled!AccountsAssumption, Ruled!Topics
<1> DEFINE plan == office[u]
           parent == plan.row[plan.topic].parent
           more == IF parent = Nobody THEN {} ELSE {plan.topic} \X topics[parent].members
           q == [plan EXCEPT !.phase = "written", !.members = @ \cup more]
<1>2. plan # Ruled!Idle /\ plan.phase = "new" /\ office' = [office EXCEPT ![u] = q] /\ UNCHANGED <<Ruled!database, served, Ruled!history>>
  BY Zenon DEF Ruled!WriteNew
<1>3. PlanFits(plan) /\ PlanTypes(plan) /\ NewPlan(plan) /\ PlanAdders(plan) /\ PlanRights(plan)
  <2>1. PlanFits(plan)
    BY <1>2 DEF AccountsInv, DesksFit
  <2> QED
    BY <1>2, <2>1 DEF PlanFits, SimplePlan, EditPlan
<1>4. /\ DOMAIN q = DOMAIN Ruled!Plan /\ q.phase = "written" /\ q.row = plan.row /\ q.topic = plan.topic /\ q.old = plan.old
      /\ q.touches = plan.touches /\ q.members = plan.members \cup more /\ q.nonmembers = plan.nonmembers
      /\ q.adders = plan.adders /\ q.nonadders = plan.nonadders /\ q.revokes = plan.revokes /\ q.grants = plan.grants
  <2>1. DOMAIN plan = {"phase", "topic", "old", "row", "members", "nonmembers", "adders", "nonadders",
                       "grants", "revokes", "department", "touches"}
    BY <1>3 DEF PlanTypes, Ruled!Plan
  <2> HIDE DEF plan, more
  <2> QED
    BY <2>1 DEF Ruled!Plan
<1>5. more \subseteq TopicIds \X People /\ (\A m \in more : m[1] = plan.topic) /\ plan.topic \in DOMAIN plan.row
  <2>1. plan.topic \in TopicIds /\ plan.topic \in DOMAIN plan.row
    BY <1>3 DEF NewPlan
  <2>2. parent # Nobody => topics[parent].members \subseteq People
    BY <1>1, <1>3, <2>1 DEF RulesTypes, TopicRow, PlanTypes
  <2> HIDE DEF plan, parent
  <2> QED
    BY <2>1, <2>2
<1> HIDE DEF plan, more, q, parent
<1>6. PlanTypes(q)
  <2>1. q.members \cup q.nonmembers \cup q.adders \cup q.nonadders \subseteq TopicIds \X People
    BY <1>3, <1>4, <1>5 DEF PlanTypes
  <2>2. \A m \in q.members \cup q.nonmembers : m[1] \in DOMAIN q.row
    BY <1>3, <1>4, <1>5 DEF PlanTypes
  <2> QED
    BY <1>3, <1>4, <2>1, <2>2 DEF PlanTypes
<1>7. PlanRights(q)
  <2>1. \A v : Remaining(v, q) = Remaining(v, plan)
    BY <1>4 DEF Remaining
  <2> QED
    BY <1>3, <1>4, <2>1 DEF PlanRights
<1>8. PlanAdders(q)
  BY <1>3, <1>4 DEF PlanAdders
<1>9. NewPlan(q)
  BY <1>3, <1>4 DEF NewPlan
<1>10. PlanFits(q)
  BY <1>6, <1>7, <1>8, <1>9 DEF PlanFits
<1>11. \A v \in People \ {u} : office[v] # Ruled!Idle => office[v].topic # q.topic
  BY <1>2, <1>3, <1>4 DEF AccountsInv, DesksFit, NewPlan, plan
<1>12. served' \in 0 .. MaxServed
  BY <1>1, <1>2 DEF RulesTypes
<1> QED
  BY <1>2, <1>10, <1>11, <1>12, NewPlanOnDesk

(* Somebody who has left gets out of all topics.                           *)
LEMMA LockOutKeepsRules ==
  ASSUME Ruled!AccountsAssumption, AccountsInv, NEW u \in People, office[u] = Ruled!Idle, served < MaxServed, Ruled!lock_out(u)
  PROVE  AccountsInv'
<1>1. RulesOK /\ RulesTypes /\ Nobody \notin TopicIds /\ Ruled!Topics \subseteq TopicIds
  BY DEF AccountsInv, RulesOK, Ruled!AccountsAssumption, Ruled!Topics
<1>2. /\ active' = active \ {u} /\ superuser' = superuser \ {u} /\ overlapped \subseteq overlapped'
      /\ granted' = [granted EXCEPT ![u] = {}] /\ served' = served + 1
      /\ UNCHANGED <<clearances, followers, office, fresh>>
      /\ \A v \in People : office[v] # Ruled!Idle /\ u \in office[v].touches => u \in overlapped'
  <2> DEFINE mine == {u} \cup {t \in Ruled!Topics : Ruled!in_topic(u, t)}
             others == {w \in People : office[w] # Ruled!Idle /\ office[w].touches \cap mine # {}}
  <2>1. overlapped' = overlapped \cup UNION {mine \cup office[v].touches : v \in others}
    BY DEF Ruled!lock_out
  <2>2. \A v \in People : office[v] # Ruled!Idle /\ u \in office[v].touches => v \in others
    OBVIOUS
  <2>3. u \in mine
    OBVIOUS
  <2> HIDE DEF mine, others
  <2>4. \A v \in People : office[v] # Ruled!Idle /\ u \in office[v].touches => u \in overlapped'
    BY <2>1, <2>2, <2>3
  <2> QED
    BY <2>1, <2>4 DEF Ruled!lock_out, Ruled!RemainingSuperusers
<1>3. topics' = [t \in TopicIds |-> IF t \in Ruled!Topics THEN [topics[t] EXCEPT !.members = @ \ {u}] ELSE Ruled!Missing]
  BY DEF Ruled!lock_out
<1>4. \A t \in Ruled!Topics : /\ topics'[t] \in TopicRow /\ topics'[t].members = topics[t].members \ {u}
                              /\ topics'[t].manager = topics[t].manager /\ topics'[t].parent = topics[t].parent
                              /\ topics'[t].confidential = topics[t].confidential
  <2> SUFFICES ASSUME NEW t \in Ruled!Topics, NEW r, r = topics[t]
               PROVE  /\ topics'[t] \in TopicRow /\ topics'[t].members = r.members \ {u}
                      /\ topics'[t].manager = r.manager /\ topics'[t].parent = r.parent
                      /\ topics'[t].confidential = r.confidential
    OBVIOUS
  <2>1. topics'[t] = [r EXCEPT !.members = r.members \ {u}] /\ r \in TopicRow
    BY <1>1, <1>3 DEF RulesTypes
  <2> QED
    BY <2>1 DEF TopicRow
<1>5. Ruled!Topics' = Ruled!Topics
  <2>1. \A t \in Ruled!Topics : topics'[t] # Ruled!Missing
    BY <1>4, TopicsAreThere
  <2>2. \A t \in TopicIds \ Ruled!Topics : topics'[t] = Ruled!Missing
    BY <1>3
  <2>3. Ruled!Topics' = {t \in TopicIds : topics'[t] # Ruled!Missing}
    BY DEF Ruled!Topics, Ruled!Missing
  <2> QED
    BY <1>1, <2>1, <2>2, <2>3
<1>6. DOMAIN granted' = People /\ granted'[u] = {} /\ \A v \in People \ {u} : granted'[v] = granted[v]
  BY <1>1, <1>2 DEF RulesTypes
<1>7. \A v \in People \ overlapped' : v \notin overlapped /\ (granted'[v] = granted[v] \/ (v = u /\ granted'[v] = {}))
  <2>1. \A v \in People \ overlapped' : v \notin overlapped
    BY <1>2
  <2> QED
    BY <1>6, <2>1
<1>8. \A w \in active' \ overlapped' : Ruled!can_edit_users_topics(w) => Ruled!can_edit_users_topics(w)'
  BY <1>1, <1>2, <1>6 DEF Ruled!can_edit_users_topics, Ruled!has_perm, RulesTypes
<1>9. RulesTypes'
  <2>1. DOMAIN topics' = TopicIds /\ DOMAIN granted' = People /\ DOMAIN office' = People
    BY <1>1, <1>2, <1>3, <1>6 DEF RulesTypes
  <2>2. \A t \in Ruled!Topics' : topics'[t] \in TopicRow /\ topics'[t].parent \in Ruled!Topics' \cup {Nobody}
    BY <1>1, <1>4, <1>5 DEF RulesTypes
  <2>3. active' \subseteq People /\ superuser' \subseteq active' /\ served' \in 0 .. MaxServed
    BY <1>1, <1>2 DEF RulesTypes, Ruled!AccountsAssumption
  <2>4. followers' \in [TopicIds -> SUBSET People] /\ (\A t \in TopicIds \ Ruled!Topics' : followers'[t] = {})
        /\ clearances' \in [People -> [Wafers -> SUBSET Events]]
    BY <1>1, <1>2, <1>5 DEF RulesTypes
  <2> QED
    BY <2>1, <2>2, <2>3, <2>4 DEF RulesTypes
<1>10. Ruled!ManagersMayEditTopics'
  <2> SUFFICES ASSUME NEW t \in Ruled!Topics', NEW m \in active' \ overlapped', topics'[t].manager = m
               PROVE  \E p \in Ruled!TopicPermissions : m \in active' /\ (m \in superuser' \/ p \in granted'[m])
    BY DEF Ruled!ManagersMayEditTopics, Ruled!can_edit_users_topics, Ruled!has_perm, Ruled!TopicPermissions
  <2>1. m \in active \ overlapped /\ m # u /\ m \in People /\ topics[t].manager = m /\ t \in Ruled!Topics
    BY <1>1, <1>2, <1>4, <1>5 DEF RulesTypes
  <2>2. Ruled!can_edit_users_topics(m)
    BY <1>1, <2>1 DEF RulesOK, Ruled!ManagersMayEditTopics
  <2> QED
    BY <1>2, <1>6, <2>1, <2>2 DEF Ruled!can_edit_users_topics, Ruled!has_perm, Ruled!TopicPermissions
<1>11. Ruled!NoManagersWithoutTopic' /\ Ruled!PermissionEditorsMayDoAll'
  BY <1>1, <1>4, <1>5, <1>7 DEF RulesOK, Ruled!NoManagersWithoutTopic, Ruled!PermissionEditorsMayDoAll
<1>12. SubtopicsAgree'
  BY <1>1, <1>2, <1>4, <1>5 DEF RulesOK, RulesTypes, SubtopicsAgree
<1>13. Ruled!AddersAreMembers' /\ ManagersAreMembers'
  BY <1>1, <1>2, <1>4, <1>5 DEF RulesOK, Ruled!AddersAreMembers, ManagersAreMembers
<1>14. Ruled!ClearedForTheSheet'
  BY <1>1, <1>2 DEF RulesOK, Ruled!ClearedForTheSheet
<1>15. ASSUME NEW v \in People, NEW r \in {office'[v]}, r # Ruled!Idle
       PROVE  PlanFits(r)'
  <2>1. PlanFits(r)
    BY <1>2, <1>15 DEF AccountsInv, DesksFit
  <2>2. PlanTypes(r)'
    BY <1>5, <2>1 DEF PlanFits, PlanTypes
  <2>3. PlanRights(r)'
    <3>1. \A w \in People \ {u} : Remaining(w, r)' = Remaining(w, r) /\ granted'[w] = granted[w]
      BY <1>6 DEF Remaining
    <3>2. u \notin overlapped' => \A p : p \notin Remaining(u, r)' /\ p \notin granted'[u]
      <4> SUFFICES ASSUME u \notin overlapped', NEW p
                   PROVE  p \notin Remaining(u, r)' /\ p \notin granted'[u]
        OBVIOUS
      <4>1. \A n \in r.grants : n[1] # u
        BY <1>2, <1>15, <2>1 DEF PlanFits, PlanTypes
      <4> QED
        BY <1>6, <4>1 DEF Remaining
    <3>3. ASSUME NEW w \in People \ overlapped', w # u
          PROVE  /\ "edit_permissions" \in Remaining(w, r)' => Ruled!ProcessPermissions \subseteq Remaining(w, r)'
                 /\ r.topic = Nobody => \A p \in Ruled!TopicPermissions : p \in Remaining(w, r)' <=> p \in granted'[w]
      BY <1>2, <2>1, <3>1, <3>3 DEF PlanFits, PlanRights
    <3> QED
      BY <3>2, <3>3 DEF PlanRights
  <2>4. PlanAdders(r)'
    BY <1>2, <1>4, <1>5, <1>15, <2>1 DEF PlanFits, PlanAdders
  <2>5. CASE SimplePlan(r)
    BY <2>2, <2>3, <2>4, <2>5 DEF PlanFits, SimplePlan
  <2>6. CASE NewPlan(r)
    <3>1. PlanTypes(r)
      BY <2>1 DEF PlanFits
    <3>2. r.row[r.topic].parent \in Ruled!Topics \cup {Nobody}
      BY <2>6, <3>1 DEF NewPlan, PlanTypes
    <3>3. NewPlan(r)'
      BY <1>2, <1>4, <1>5, <2>6, <3>2 DEF NewPlan
    <3> QED
      BY <2>2, <2>3, <2>4, <3>3 DEF PlanFits
  <2>7. CASE EditPlan(r)
    <3>1. EditRows(r)' /\ EditFamily(r)'
      BY <1>2, <1>4, <1>5, <2>7 DEF EditPlan, EditRows, EditFamily
    <3>2. PICK new : new = r.row[r.topic].manager
      OBVIOUS
    <3>3. new \in People /\ EditMember(r, new) /\ EditRights(r, new) /\ r.topic \in Ruled!Topics
      <4>1. PlanTypes(r)
        BY <2>1 DEF PlanFits
      <4> QED
        BY <1>1, <2>7, <3>2, <4>1 DEF EditPlan, PlanTypes, TopicRow
    <3>4. EditMember(r, new)'
      BY <1>2, <1>4, <3>3 DEF EditMember
    <3>5. EditRights(r, new)'
      <4>0. new \in r.touches
        BY <1>1, <2>1, <2>7, <3>2 DEF PlanFits, PlanTypes, EditPlan
      <4>1. new \notin overlapped' /\ Ruled!can_edit_users_topics(new) => Ruled!can_edit_users_topics(new)'
        BY <1>2, <1>6, <1>15, <3>3, <4>0 DEF Ruled!can_edit_users_topics, Ruled!has_perm
      <4> QED
        BY <1>2, <1>4, <1>5, <3>3, <4>1 DEF EditRights
    <3>6. EditPlan(r)'
      BY <1>4, <1>5, <2>7, <3>1, <3>2, <3>4, <3>5 DEF EditPlan
    <3> QED
      BY <2>2, <2>3, <2>4, <3>6 DEF PlanFits
  <2> QED
    BY <2>1, <2>5, <2>6, <2>7 DEF PlanFits
<1>16. ASSUME NEW v \in People, NEW w \in People, v # w, office'[v] # Ruled!Idle, office'[w] # Ruled!Idle, office'[v].topic = office'[w].topic
       PROVE  office'[v].topic \notin TopicIds \ Ruled!Topics'
  BY <1>2, <1>5, <1>16 DEF AccountsInv, DesksFit
<1> QED
  BY <1>9, <1>10, <1>11, <1>12, <1>13, <1>14, <1>15, <1>16 DEF AccountsInv, RulesOK, DesksFit

(* From a sample, the walk only comes to samples the data sheet looks at,  *)
(* with the times of the splits.                                           *)
LEMMA WalkGoesUpwards ==
  ASSUME Ruled!AccountsAssumption, NEW s \in Wafers, NEW v \in Ruled!Reached(s)
  PROVE  \/ v[1] = s
         \/ \E a \in Ruled!Origins(s) : SplitOf[a] # Nobody /\ v = <<SplitOf[a].parent, SplitOf[a].time>>
<1> DEFINE splits == {<<SplitOf[a].parent, SplitOf[a].time>> : a \in {a \in Ruled!Origins(s) : SplitOf[a] # Nobody}}
           way == {<<s, Nobody>>} \cup splits
<1>1. s \in Ruled!Origins(s) /\ Ruled!Origins(s) \subseteq Wafers
  BY DEF Ruled!Origins
<1>2. \A a \in Ruled!Origins(s) : SplitOf[a] # Nobody => SplitOf[a].parent \in Ruled!Origins(s)
  <2> SUFFICES ASSUME NEW a \in Ruled!Origins(s), SplitOf[a] # Nobody
               PROVE  SplitOf[a].parent \in Ruled!Origins(s)
    OBVIOUS
  <2>1. SplitOf[a].parent \in Wafers
    BY <1>1 DEF Ruled!AccountsAssumption
  <2> QED
    BY <2>1 DEF Ruled!Origins
<1>3. \A w \in way : w[1] \in Ruled!Origins(s)
  BY <1>1, <1>2
<1>4. way \subseteq Wafers \X Ruled!Cutoffs
  BY <1>1, <1>2 DEF Ruled!Cutoffs
<1>5. \A w \in way : SplitOf[w[1]] # Nobody => <<SplitOf[w[1]].parent, SplitOf[w[1]].time>> \in way
  BY <1>3
<1>6. <<s, Nobody>> \in way
  OBVIOUS
<1> HIDE DEF way
<1>7. v \in way
  BY <1>4, <1>5, <1>6 DEF Ruled!Reached
<1> QED
  BY <1>7 DEF way

(* What is shown by way of a clearance is on the data sheet.               *)
LEMMA ClearancesShowTheSheet ==
  ASSUME Ruled!AccountsAssumption, NEW s \in Wafers, NEW donor, NEW physical
  PROVE  \A p \in Ruled!enforce_clearance(donor, s, physical) :
           p \in Events /\ p \in Ruled!collect_process_contexts(s) /\ Process[p].finished
<1>1. \A p \in Ruled!enforce_clearance(donor, s, physical) : p \in Ruled!Walked(s)
  BY DEF Ruled!enforce_clearance
<1>2. ASSUME NEW p \in Ruled!Walked(s)
      PROVE  p \in Events /\ Process[p].finished /\ Ruled!HappenedTo(s, p, Process[p].samples)
  <2>1. PICK v \in Ruled!Reached(s) : v[1] \in Process[p].samples /\ (v[2] # Nobody => Process[p].time <= v[2])
    BY DEF Ruled!Walked
  <2>2. \/ v[1] = s
        \/ \E a \in Ruled!Origins(s) : SplitOf[a] # Nobody /\ v = <<SplitOf[a].parent, SplitOf[a].time>>
    BY <2>1, WalkGoesUpwards
  <2>3. v[1] = s => Ruled!HappenedTo(s, p, Process[p].samples)
    BY <2>1 DEF Ruled!HappenedTo
  <2>4. ASSUME NEW a \in Ruled!Origins(s), SplitOf[a] # Nobody, v = <<SplitOf[a].parent, SplitOf[a].time>>
        PROVE  Ruled!HappenedTo(s, p, Process[p].samples)
    <3>1. SplitOf[a].time # Nobody
      <4>1. a \in Wafers
        BY DEF Ruled!Origins
      <4> QED
        BY <2>4, <4>1 DEF Ruled!AccountsAssumption
    <3> QED
      BY <2>1, <2>4, <3>1 DEF Ruled!HappenedTo
  <2>5. p \in Events /\ Process[p].finished
    BY DEF Ruled!Walked
  <2> QED
    BY <2>2, <2>3, <2>4, <2>5
<1>3. \A p, ss, more : Ruled!HappenedTo(s, p, ss) => Ruled!HappenedTo(s, p, ss \cup more)
  BY DEF Ruled!HappenedTo
<1> QED
  BY <1>1, <1>2, <1>3 DEF Ruled!collect_process_contexts

LEMMA ClearancesKeepRules ==
  ASSUME Ruled!AccountsAssumption, AccountsInv, served < MaxServed, NEW u \in People, NEW s \in Wafers,
         NEW donor, NEW physical,
         clearances' = [clearances EXCEPT ![u][s] = @ \cup Ruled!enforce_clearance(donor, s, physical)],
         served' = served + 1,
         UNCHANGED <<active, superuser, granted, topics, followers, office, overlapped, fresh>>
  PROVE  AccountsInv'
<1>1. RulesOK /\ RulesTypes /\ Ruled!ClearedForTheSheet
  BY DEF AccountsInv, RulesOK
<1>2. \A p \in Ruled!enforce_clearance(donor, s, physical) :
        p \in Events /\ p \in Ruled!collect_process_contexts(s) /\ Process[p].finished
  BY ClearancesShowTheSheet
<1> DEFINE shown == Ruled!enforce_clearance(donor, s, physical)
<1> HIDE DEF shown
<1>3. shown \subseteq Events /\ clearances' = [clearances EXCEPT ![u][s] = @ \cup shown]
      /\ \A p \in shown : p \in Ruled!collect_process_contexts(s) /\ Process[p].finished
  BY <1>2 DEF shown
<1>4. clearances' \in [People -> [Wafers -> SUBSET Events]]
      /\ \A v \in People, r \in Wafers : clearances'[v][r] \subseteq clearances[v][r] \cup {p \in shown : r = s}
  BY <1>1, <1>3 DEF RulesTypes
<1>5. Ruled!ClearedForTheSheet'
  BY <1>1, <1>3, <1>4 DEF Ruled!ClearedForTheSheet
<1>6. served' \in 0 .. MaxServed /\ DOMAIN office' = People
  BY <1>1 DEF RulesTypes, Ruled!AccountsAssumption
<1>7. RulesOK' /\ Ruled!Topics' = Ruled!Topics /\ \A r : PlanFits(r) => PlanFits(r)'
  BY <1>1, <1>4, <1>5, <1>6, DatabaseStays
<1>8. ASSUME NEW v \in People, NEW r \in {office'[v]}, r # Ruled!Idle
      PROVE  PlanFits(r)'
  <2>1. PlanFits(r)
    BY <1>8 DEF AccountsInv, DesksFit
  <2> QED
    BY <1>7, <2>1
<1>9. ASSUME NEW v \in People, NEW w \in People, v # w, office'[v] # Ruled!Idle, office'[w] # Ruled!Idle, office'[v].topic = office'[w].topic
      PROVE  office'[v].topic \notin TopicIds \ Ruled!Topics'
  BY <1>7, <1>9 DEF AccountsInv, DesksFit
<1> QED
  BY <1>7, <1>8, <1>9 DEF AccountsInv, DesksFit

LEMMA ServeKeepsRules ==
  ASSUME Ruled!AccountsAssumption, AccountsInv, NEW u \in People, Ruled!Serve(u)
  PROVE  AccountsInv'
<1>1. office[u] = Ruled!Idle /\ served < MaxServed
  BY DEF Ruled!Serve
<1>2. CASE Ruled!copy(u)
  <2>1. PICK v \in People, s \in Wafers, physical \in BOOLEAN :
          /\ clearances' = [clearances EXCEPT ![v][s] = @ \cup Ruled!enforce_clearance(u, s, physical)]
          /\ served' = served + 1
          /\ UNCHANGED <<active, superuser, granted, topics, followers, office, overlapped, fresh>>
    BY <1>2 DEF Ruled!copy, Ruled!history
  <2> QED
    BY <1>1, <2>1, ClearancesKeepRules
<1>3. CASE Ruled!get_sample_clearance(u)
  <2>1. PICK task \in Orders, physical \in BOOLEAN :
          /\ clearances' = [clearances EXCEPT ![u][task.sample] = @ \cup Ruled!enforce_clearance(task.customer, task.sample, physical)]
          /\ served' = served + 1
          /\ UNCHANGED <<active, superuser, granted, topics, followers, office, overlapped, fresh>>
    BY <1>3 DEF Ruled!get_sample_clearance, Ruled!history
  <2>2. task.sample \in Wafers
    BY DEF Ruled!AccountsAssumption
  <2> QED
    BY <1>1, <2>1, <2>2, ClearancesKeepRules
<1> QED
  BY <1>1, <1>2, <1>3, AddKeepsRules, EditKeepsRules, PreferencesKeepRules, PermissionsKeepRules,
     DirectoryKeepsRules, LockOutKeepsRules DEF Ruled!Serve

LEMMA RulesInTheBeginning ==
  ASSUME Ruled!AccountsAssumption, Ruled!Init
  PROVE  AccountsInv
<1>1. /\ active = People /\ superuser = Admins /\ granted = Permitted
      /\ topics = [t \in TopicIds |-> IF t \in DOMAIN FirstTopics THEN FirstTopics[t] ELSE Ruled!Missing]
      /\ followers = [t \in TopicIds |-> IF t \in DOMAIN FirstTopics THEN FirstTopics[t].members ELSE {}]
      /\ clearances = [u \in People |-> [s \in Wafers |-> {}]]
      /\ office = [u \in People |-> Ruled!Idle] /\ served = 0 /\ overlapped = {} /\ fresh = {}
  BY DEF Ruled!Init
<1>2. \A t \in DOMAIN FirstTopics : t \in TopicIds /\ FirstTopics[t] \in TopicRow /\ FirstTopics[t] # Ruled!Missing
                                /\ FirstTopics[t].parent \in DOMAIN FirstTopics \cup {Nobody}
  <2> SUFFICES ASSUME NEW t \in DOMAIN FirstTopics, NEW r, r = FirstTopics[t]
               PROVE  t \in TopicIds /\ r \in TopicRow /\ r # Ruled!Missing /\ r.parent \in DOMAIN FirstTopics \cup {Nobody}
    OBVIOUS
  <2>1. t \in TopicIds /\ DOMAIN FirstTopics \subseteq TopicIds
        /\ r \in [confidential : BOOLEAN, manager : People, members : SUBSET People, parent : DOMAIN FirstTopics \cup {Nobody}]
    BY DEF Ruled!AccountsAssumption
  <2>2. r \in TopicRow
    BY <2>1 DEF TopicRow
  <2> QED
    BY <2>1, <2>2, TopicsAreThere
<1>3. Ruled!Topics = DOMAIN FirstTopics /\ \A t \in Ruled!Topics : topics[t] = FirstTopics[t]
  BY <1>1, <1>2 DEF Ruled!Topics
<1>4. RulesTypes
  <2>1. followers \in [TopicIds -> SUBSET People] /\ \A t \in TopicIds \ Ruled!Topics : followers[t] = {}
    <3>1. \A t \in DOMAIN FirstTopics : FirstTopics[t].members \subseteq People
      BY <1>2 DEF TopicRow
    <3> QED
      BY <1>1, <1>3, <3>1
  <2>2. clearances \in [People -> [Wafers -> SUBSET Events]]
    BY <1>1
  <2>3. DOMAIN granted = People /\ superuser \subseteq active /\ served \in 0 .. MaxServed
    BY <1>1 DEF Ruled!AccountsAssumption
  <2> QED
    BY <1>1, <1>2, <1>3, <2>1, <2>2, <2>3 DEF RulesTypes
<1>5. Ruled!ManagersMayEditTopics
  <2> SUFFICES ASSUME NEW t \in Ruled!Topics, NEW m \in active, topics[t].manager = m
               PROVE  \E p \in Ruled!TopicPermissions : m \in superuser \/ p \in granted[m]
    BY DEF Ruled!ManagersMayEditTopics, Ruled!can_edit_users_topics, Ruled!has_perm, Ruled!TopicPermissions
  <2>1. m \in Admins \/ Permitted[m] \cap Ruled!TopicPermissions # {}
    BY <1>3 DEF Ruled!AccountsAssumption
  <2> QED
    BY <1>1, <2>1 DEF Ruled!TopicPermissions
<1>6. Ruled!NoManagersWithoutTopic /\ Ruled!PermissionEditorsMayDoAll
  BY <1>1, <1>3 DEF Ruled!NoManagersWithoutTopic, Ruled!PermissionEditorsMayDoAll, Ruled!AccountsAssumption
<1>7. SubtopicsAgree /\ ManagersAreMembers
  <2>1. \A t \in Ruled!Topics : /\ topics[t].manager \in topics[t].members
                                /\ topics[t].parent # Nobody =>
                                     /\ topics[t].parent \in Ruled!Topics
                                     /\ FirstTopics[t].confidential = FirstTopics[topics[t].parent].confidential
                                     /\ FirstTopics[t].manager = FirstTopics[topics[t].parent].manager
    BY <1>2, <1>3 DEF Ruled!AccountsAssumption
  <2> QED
    BY <1>3, <2>1 DEF SubtopicsAgree, ManagersAreMembers
<1>8. Ruled!AddersAreMembers /\ Ruled!ClearedForTheSheet
  BY <1>1, <1>2, <1>3 DEF Ruled!AddersAreMembers, Ruled!ClearedForTheSheet
<1>9. DesksFit
  BY <1>1 DEF DesksFit
<1> QED
  BY <1>4, <1>5, <1>6, <1>7, <1>8, <1>9 DEF AccountsInv, RulesOK

LEMMA RulesAreKept ==
  ASSUME Ruled!AccountsAssumption, AccountsInv, [Ruled!Next]_Ruled!vars
  PROVE  AccountsInv'
<1>1. CASE UNCHANGED Ruled!vars
  <2>1. UNCHANGED <<active, superuser, granted, topics, followers, clearances, office, served, overlapped, fresh>>
    BY <1>1 DEF Ruled!vars, Ruled!database, Ruled!history
  <2>2. RulesOK /\ RulesTypes
    BY DEF AccountsInv, RulesOK
  <2>3. Ruled!ClearedForTheSheet' /\ DOMAIN office' = People /\ served' \in 0 .. MaxServed
        /\ clearances' \in [People -> [Wafers -> SUBSET Events]]
    BY <2>1, <2>2 DEF RulesOK, RulesTypes, Ruled!ClearedForTheSheet
  <2>4. RulesOK' /\ Ruled!Topics' = Ruled!Topics /\ \A r : PlanFits(r) => PlanFits(r)'
    BY <2>1, <2>2, <2>3, DatabaseStays
  <2> QED
    BY <2>1, <2>4 DEF AccountsInv, DesksFit
<1> QED
  BY <1>1, WriteKeepsRules, WriteNewKeepsRules, CommitKeepsRules, ServeKeepsRules DEF Ruled!Next

(* The invariant says all that is to be shown about users and topics.      *)
LEMMA RulesFitTopics ==
  ASSUME Ruled!AccountsAssumption, AccountsInv
  PROVE  PermissionsFitTopics
<1>1. RulesOK /\ RulesTypes /\ Nobody \notin TopicIds /\ Ruled!Topics \subseteq TopicIds
  BY DEF AccountsInv, RulesOK, Ruled!AccountsAssumption, Ruled!Topics
<1>2. Ruled!TypeOK
  BY <1>1 DEF Ruled!TypeOK, RulesTypes, TopicRow
<1>3. Ruled!SubtopicsFollow
  BY <1>1 DEF RulesOK, SubtopicsAgree, Ruled!SubtopicsFollow
<1>4. Ruled!ConfidentialTopicsEditable
  BY <1>1 DEF RulesOK, ManagersAreMembers, Ruled!ConfidentialTopicsEditable, Ruled!can_edit_topic, Ruled!in_topic
<1>5. Ruled!EditingImpliesViewing
  <2> SUFFICES ASSUME NEW u \in People
               PROVE  /\ \A s \in Wafers : Ruled!can_edit_sample(u, s) => Ruled!can_fully_view_sample(u, s)
                      /\ \A s \in Wafers : TopicOf[s] # Nobody /\ Ruled!can_add_result_process(u, ResponsibleFor[s], TopicOf[s])
                                              => Ruled!can_fully_view_sample(u, s)
                      /\ Ruled!can_edit_sample_series(u) => Ruled!can_view_sample_series(u)
                      /\ Ruled!can_edit_external_operator(u) => Ruled!can_view_external_operator(u)
                      /\ \A p \in Events :
                           IF Process[p].result THEN Ruled!can_edit_result_process(u, p) => Ruled!can_view_result_process(u, p)
                           ELSE \/ Ruled!can_view_lab_notebook(u)
                                \/ /\ Ruled!can_edit_physical_process(u, p)
                                   /\ Process[p].finished
                                   /\ ~Ruled!has_perm(u, "change")
                                => Ruled!can_view_physical_process(u, p)
    BY DEF Ruled!EditingImpliesViewing
  <2>1. \A s \in Wafers : Ruled!can_edit_sample(u, s) => Ruled!can_fully_view_sample(u, s)
    BY DEF Ruled!can_edit_sample, Ruled!can_fully_view_sample
  <2>2. \A s \in Wafers : TopicOf[s] # Nobody /\ Ruled!can_add_result_process(u, ResponsibleFor[s], TopicOf[s])
                             => Ruled!can_fully_view_sample(u, s)
    BY DEF Ruled!can_add_result_process, Ruled!can_fully_view_sample
  <2>3. Ruled!can_edit_sample_series(u) => Ruled!can_view_sample_series(u)
    BY DEF Ruled!can_edit_sample_series, Ruled!can_view_sample_series
  <2>4. Ruled!can_edit_external_operator(u) => Ruled!can_view_external_operator(u)
    BY DEF Ruled!can_edit_external_operator, Ruled!can_view_external_operator
  <2>5. \A p \in Events : Process[p].result /\ Ruled!can_edit_result_process(u, p) => Ruled!can_view_result_process(u, p)
    <3> SUFFICES ASSUME NEW p \in Events, Process[p].result, u \in superuser
                 PROVE  Ruled!can_view_result_process(u, p)
      BY DEF Ruled!can_edit_result_process, Ruled!can_view_result_process
    <3>1. Process[p].samples # {} \/ Process[p].in_series
      BY DEF Ruled!AccountsAssumption
    <3> QED
      BY <3>1 DEF Ruled!can_view_result_process, Ruled!can_fully_view_sample, Ruled!can_view_sample_series
  <2>6. u \in superuser => Ruled!can_view_lab_notebook(u)
    BY <1>1 DEF RulesTypes, Ruled!can_view_lab_notebook, Ruled!has_perm
  <2>7. \A p \in Events : Ruled!can_edit_physical_process(u, p) /\ Process[p].finished /\ ~Ruled!has_perm(u, "change")
                               => Ruled!can_view_lab_notebook(u) \/ Ruled!can_view_physical_process(u, p)
    BY <2>6 DEF Ruled!can_edit_physical_process, Ruled!can_view_physical_process
  <2>8. \A p \in Events : Ruled!can_view_lab_notebook(u) => Ruled!can_view_physical_process(u, p)
    BY DEF Ruled!can_view_lab_notebook, Ruled!can_view_physical_process
  <2> QED
    BY <2>1, <2>2, <2>3, <2>4, <2>5, <2>7, <2>8
<1> QED
  BY <1>1, <1>2, <1>3, <1>4, <1>5 DEF RulesOK, PermissionsFitTopics, Ruled!PermissionsFitTopics

(* Topics have managers who may do their work, nobody manages without a    *)
(* topic, and nobody may do more than topics, permissions and clearances   *)
(* say, whatever requests overlap.                                         *)
THEOREM PermissionsAlwaysFitTopics == Ruled!AccountsAssumption => (Ruled!Spec => []PermissionsFitTopics)
<1> SUFFICES ASSUME Ruled!AccountsAssumption
             PROVE  Ruled!Spec => []PermissionsFitTopics
  OBVIOUS
<1>1. Ruled!Init => AccountsInv
  BY RulesInTheBeginning
<1>2. AccountsInv /\ [Ruled!Next]_Ruled!vars => AccountsInv'
  BY RulesAreKept
<1>3. AccountsInv => PermissionsFitTopics
  BY RulesFitTopics
<1> QED
  BY <1>1, <1>2, <1>3, PTL DEF Ruled!Spec
-----------------------------------------------------------------------------
(* Names.                                                                  *)
(* What IsName describes, as a set.                                        *)
NameSet ==
  {n \in Seq(Stems \cup {"*"} \cup Nat) :
     /\ n # Named!Missing
     /\ n[1] \in Stems \cup {"*"}
     /\ \A k \in 2 .. Len(n) : n[k] \in Nat
     /\ n[1] = "*" => Len(n) = 2}

LEMMA NamesInSet ==
  ASSUME NEW n, Named!IsName(n)
  PROVE  n \in NameSet
<1> PICK h \in Stems \cup {"*"} : h = Head(n)
  BY DEF Named!IsName
<1> PICK t \in Seq(Nat) : t = Tail(n)
  BY DEF Named!IsName
<1>1. n = <<h>> \o t
  BY DEF Named!IsName
<1>2. <<h>> \in Seq(Stems \cup {"*"} \cup Nat) /\ t \in Seq(Stems \cup {"*"} \cup Nat)
  OBVIOUS
<1>3. n \in Seq(Stems \cup {"*"} \cup Nat)
  BY <1>1, <1>2
<1>4. Len(n) = 1 + Len(t) /\ n[1] = h /\ \A k \in 2 .. Len(n) : n[k] = t[k - 1]
  BY <1>1
<1>5. n # Named!Missing
  BY <1>3, <1>4 DEF Named!Missing
<1>6. \A k \in 2 .. Len(n) : n[k] \in Nat
  BY <1>4
<1>7. n[1] = "*" => Len(n) = 2
  BY <1>4 DEF Named!IsName, Named!IsProvisional
<1> QED
  BY <1>3, <1>4, <1>5, <1>6, <1>7 DEF NameSet

LEMMA NameFacts ==
  ASSUME Named!NamesAssumption, NEW n \in NameSet
  PROVE  /\ n # Named!Missing /\ Len(n) \in Nat /\ Len(n) >= 1
         /\ Head(n) = n[1] /\ n[1] \in Stems \cup {"*"}
         /\ Named!IsProvisional(n) => Len(n) = 2 /\ n[2] \in Nat /\ n = <<"*", n[2]>>
         /\ \A k \in 2 .. Len(n) : n[k] \in Nat
<1>1. n \in Seq(Stems \cup {"*"} \cup Nat) /\ n # <<>>
  BY DEF NameSet, Named!Missing
<1>2. Len(n) \in Nat /\ Len(n) >= 1 /\ Head(n) = n[1]
  BY <1>1
<1>3. n[1] \in Stems \cup {"*"} /\ (n[1] = "*" => Len(n) = 2) /\ \A k \in 2 .. Len(n) : n[k] \in Nat
  BY DEF NameSet
<1>4. Named!IsProvisional(n) => Len(n) = 2 /\ n[2] \in Nat /\ n = <<"*", n[2]>>
  BY <1>1, <1>2, <1>3 DEF Named!IsProvisional
<1> QED
  BY <1>1, <1>2, <1>3, <1>4 DEF Named!Missing

LEMMA NumberedName ==
  ASSUME Named!NamesAssumption, NEW s \in Stems \cup {"*"}, NEW k \in Nat
  PROVE  <<s, k>> \in NameSet
BY DEF NameSet, Named!Missing

LEMMA InputsAreNames ==
  ASSUME Named!NamesAssumption, NEW n \in Named!Inputs
  PROVE  n \in NameSet /\ ~Named!IsProvisional(n) /\ Len(n) = 1
<1>1. PICK s \in Stems : n = <<s>>
  BY DEF Named!Inputs
<1>2. s # "*" /\ s \in Stems \cup {"*"} \cup Nat
  BY DEF Named!NamesAssumption
<1>3. <<s>> \in Seq(Stems \cup {"*"} \cup Nat)
  BY <1>2
<1>4. Len(<<s>>) = 1 /\ Head(<<s>>) = s /\ <<s>>[1] = s /\ <<s>> # <<>>
  OBVIOUS
<1>5. \A k \in 2 .. 1 : <<s>>[k] \in Nat
  OBVIOUS
<1>6. <<s>> \in NameSet
  BY <1>2, <1>3, <1>4, <1>5 DEF NameSet, Named!Missing
<1> QED
  BY <1>1, <1>2, <1>4, <1>6 DEF Named!IsProvisional

(* Numbers are appended to names.                                          *)
LEMMA AppendedName ==
  ASSUME Named!NamesAssumption, NEW n \in NameSet, NEW k \in Nat
  PROVE  /\ Append(n, k) # n
         /\ \A l \in Nat : Append(n, k) = Append(n, l) => k = l
         /\ Len(Append(n, k)) = Len(n) + 1 /\ Head(Append(n, k)) = n[1]
         /\ n[1] # "*" => Append(n, k) \in NameSet
<1>1. n \in Seq(Stems \cup {"*"} \cup Nat) /\ n # <<>> /\ Len(n) \in Nat /\ Len(n) >= 1
  BY NameFacts DEF NameSet, Named!Missing
<1>2. /\ Append(n, k) \in Seq(Stems \cup {"*"} \cup Nat)
      /\ Len(Append(n, k)) = Len(n) + 1
      /\ \A i \in 1 .. Len(n) : Append(n, k)[i] = n[i]
      /\ Append(n, k)[Len(n) + 1] = k
  BY <1>1
<1>3. ASSUME NEW l \in Nat, Append(n, k) = Append(n, l)
      PROVE  k = l
  <2>1. Append(n, l)[Len(n) + 1] = l
    BY <1>1
  <2> QED
    BY <1>2, <1>3, <2>1
<1>4. Head(Append(n, k)) = n[1]
  BY <1>1, <1>2
<1>5. ASSUME n[1] # "*"
      PROVE  Append(n, k) \in NameSet
  <2>1. \A i \in 2 .. Len(n) + 1 : Append(n, k)[i] \in Nat
    BY <1>1, <1>2 DEF NameSet
  <2>2. Append(n, k)[1] = n[1] /\ n[1] \in Stems \cup {"*"}
    BY <1>1, <1>2 DEF NameSet
  <2>3. Append(n, k) # <<>>
    BY <1>1, <1>2
  <2> QED
    BY <1>2, <1>5, <2>1, <2>2, <2>3 DEF NameSet, Named!Missing
<1> QED
  BY <1>1, <1>2, <1>3, <1>4, <1>5

(* Every element of a finite set appears once in its sequence.             *)
LEMMA SequenceOfSet ==
  ASSUME NEW S, IsFiniteSet(S)
  PROVE  /\ Named!SetToSeq(S) \in Seq(S) /\ Len(Named!SetToSeq(S)) = Cardinality(S)
         /\ \A i, j \in DOMAIN Named!SetToSeq(S) : Named!SetToSeq(S)[i] = Named!SetToSeq(S)[j] => i = j
<1>1. Cardinality(S) \in Nat /\ ExistsBijection(1 .. Cardinality(S), S)
  BY FS_CardinalityType
<1>2. PICK f : f \in Bijection(1 .. Cardinality(S), S)
  BY <1>1 DEF ExistsBijection
<1>3. f \in [1 .. Cardinality(S) -> S] /\ Named!IsInjective(f)
  BY <1>2 DEF Bijection, Injection, IsInjective, Named!IsInjective
<1>5. Named!SetToSeq(S) \in [1 .. Cardinality(S) -> S] /\ Named!IsInjective(Named!SetToSeq(S))
  BY <1>3 DEF Named!SetToSeq, Named!Cardinality, Cardinality
<1>6. Named!SetToSeq(S) \in Seq(S) /\ Len(Named!SetToSeq(S)) = Cardinality(S)
  BY <1>1, <1>5
<1> QED
  BY <1>5, <1>6 DEF Named!IsInjective

(* A smallest counterexample would have a maximum without one of its       *)
(* elements.                                                               *)
LEMMA FiniteHasMaximum ==
  ASSUME NEW S \in SUBSET Nat, IsFiniteSet(S), S # {}
  PROVE  Named!Max(S) \in S /\ \A x \in S : x <= Named!Max(S)
<1> DEFINE HasMax(A) == \E m \in A : \A x \in A : x <= m
           T == {A \in FiniteSubsetsOf(Nat) : A # {} /\ ~HasMax(A)}
<1>1. T = {}
  <2> SUFFICES ASSUME T # {}
               PROVE  FALSE
    OBVIOUS
  <2>1. T \subseteq FiniteSubsetsOf(Nat)
    OBVIOUS
  <2>2. PICK A \in T : \A B \in T : ~(<<B, A>> \in StrictSubsetOrdering(Nat))
    BY <2>1, WFMin, FS_StrictSubsetOrderingWellFounded
  <2>3. A \in SUBSET Nat /\ IsFiniteSet(A) /\ A # {} /\ ~HasMax(A)
    BY DEF FiniteSubsetsOf
  <2>4. PICK y \in A : TRUE
    BY <2>3
  <2> DEFINE B == A \ {y}
  <2>5. B # {}
    <3>1. CASE B = {}
      <4>1. A = {y} /\ y \in Nat
        BY <2>3, <3>1
      <4> QED
        BY <2>3, <4>1
    <3> QED
      BY <3>1
  <2>6. IsFiniteSet(B) /\ B \in SUBSET Nat
    BY <2>3, FS_Subset
  <2>7. <<B, A>> \in StrictSubsetOrdering(Nat)
    BY <2>3, <2>4, <2>6 DEF StrictSubsetOrdering, FiniteSubsetsOf
  <2>8. HasMax(B)
    BY <2>2, <2>5, <2>6, <2>7 DEF FiniteSubsetsOf
  <2>9. PICK m \in B : \A x \in B : x <= m
    BY <2>8
  <2>10. m \in Nat /\ y \in Nat /\ m \in A
    BY <2>3
  <2>11. CASE m <= y
    <3>1. \A x \in A : x <= y
      BY <2>3, <2>9, <2>10, <2>11
    <3> QED
      BY <2>3, <3>1
  <2>12. CASE y < m
    <3>1. \A x \in A : x <= m
      BY <2>3, <2>9, <2>10, <2>12
    <3> QED
      BY <2>3, <2>10, <3>1
  <2> QED
    BY <2>10, <2>11, <2>12
<1>2. S \in FiniteSubsetsOf(Nat)
  BY DEF FiniteSubsetsOf
<1>3. PICK m \in S : \A x \in S : x <= m
  BY <1>1, <1>2
<1>4. \A x \in S : m >= x
  BY <1>3
<1> QED
  BY <1>4 DEF Named!Max

LEMMA FiniteHasMinimum ==
  ASSUME NEW S \in SUBSET Nat, IsFiniteSet(S), S # {}
  PROVE  Named!Min(S) \in S /\ \A x \in S : Named!Min(S) <= x
<1> DEFINE m == Named!Max(S)
           T == {m - x : x \in S}
<1>1. m \in S /\ m \in Nat /\ \A x \in S : x <= m
  BY FiniteHasMaximum
<1>2. T \in SUBSET Nat /\ T # {} /\ IsFiniteSet(T)
  <2>1. IsFiniteSet(T)
    <3>1. IsFiniteSet(0 .. m)
      BY <1>1, FS_Interval
    <3>2. T \subseteq 0 .. m
      BY <1>1
    <3> QED
      BY <3>1, <3>2, FS_Subset
  <2> QED
    BY <1>1, <2>1
<1>3. PICK y \in S : m - y = Named!Max(T)
  BY <1>2, FiniteHasMaximum
<1>4. \A t \in T : t <= m - y
  BY <1>2, <1>3, FiniteHasMaximum
<1>5. ASSUME NEW x \in S
      PROVE  y <= x
  <2>1. m - x <= m - y
    BY <1>4
  <2> QED
    BY <1>1, <2>1
<1> QED
  BY <1>5 DEF Named!Min

(* The first gap that is wide enough is found, whatever numbers are        *)
(* occupied.                                                               *)
LEMMA GapIsFirst ==
  ASSUME NEW occupied \in SUBSET Nat, IsFiniteSet(occupied), NEW n \in Nat \ {0}
  PROVE  LET s == Named!StartingNumber(occupied, n)
         IN  /\ s \in Nat \ {0}
             /\ \A k \in s .. s + n - 1 : k \notin occupied
             /\ \A r \in 1 .. s - 1 : \E k \in r .. r + n - 1 : k \in occupied
<1> DEFINE stops == occupied \cup {0}
           Gap(k) == \E next \in stops :
                       next > k /\ (k + 1 .. next - 1) \cap stops = {} /\ next - k - 1 >= n
           gaps == {k \in stops : Gap(k)}
           s == Named!StartingNumber(occupied, n)
<1> HIDE DEF Gap
<1>1. stops \in SUBSET Nat /\ IsFiniteSet(stops) /\ stops # {}
  <2>1. IsFiniteSet({0})
    BY FS_Singleton
  <2>2. IsFiniteSet(stops)
    BY <2>1, FS_Union
  <2> QED
    BY <2>2
<1>2. gaps \in SUBSET Nat /\ IsFiniteSet(gaps)
  BY <1>1, FS_Subset
<1>3. s = IF gaps # {} THEN Named!Min(gaps) + 1 ELSE Named!Max(stops) + 1
  BY DEF Named!StartingNumber, Gap
<1>4. PICK g \in stops : /\ s = g + 1
                         /\ \A k \in gaps : g <= k
                         /\ \A k \in g + 1 .. g + n : k \notin stops
  <2>1. CASE gaps # {}
    <3>1. Named!Min(gaps) \in gaps /\ \A k \in gaps : Named!Min(gaps) <= k
      BY <1>2, <2>1, FiniteHasMinimum
    <3>2. PICK next \in stops : /\ next > Named!Min(gaps) /\ (Named!Min(gaps) + 1 .. next - 1) \cap stops = {}
                                /\ next - Named!Min(gaps) - 1 >= n
      BY <3>1 DEF Gap
    <3>3. \A k \in Named!Min(gaps) + 1 .. Named!Min(gaps) + n : k \in Named!Min(gaps) + 1 .. next - 1
      BY <1>1, <1>2, <3>1, <3>2
    <3> QED
      BY <1>3, <2>1, <3>1, <3>2, <3>3
  <2>2. CASE gaps = {}
    <3>1. Named!Max(stops) \in stops /\ \A k \in stops : k <= Named!Max(stops)
      BY <1>1, FiniteHasMaximum
    <3>2. Named!Max(stops) \in Nat
      BY <1>1, <3>1
    <3>3. ASSUME NEW k \in Named!Max(stops) + 1 .. Named!Max(stops) + n
          PROVE  k \notin stops
      <4>1. k > Named!Max(stops)
        BY <3>2
      <4> QED
        BY <1>1, <3>1, <3>2, <4>1
    <3> QED
      BY <1>3, <2>2, <3>1, <3>2, <3>3
  <2> QED
    BY <2>1, <2>2
<1>5. g \in Nat /\ s \in Nat \ {0}
  BY <1>1, <1>4
<1>6. ASSUME NEW r \in 1 .. s - 1, \A k \in r .. r + n - 1 : k \notin occupied
      PROVE  FALSE
  <2> DEFINE below == {x \in stops : x < r}
             above == {x \in stops : x >= r}
  <2>1. r \in Nat /\ r >= 1 /\ r <= g
    BY <1>4, <1>5
  <2>2. below \in SUBSET Nat /\ IsFiniteSet(below) /\ 0 \in below
    <3>1. below \subseteq stops /\ above \subseteq stops
      OBVIOUS
    <3>2. IsFiniteSet(below)
      BY <1>1, <3>1, FS_Subset
    <3>3. 0 \in below
      BY <2>1
    <3> QED
      BY <1>1, <3>1, <3>2, <3>3
  <2>3. above \in SUBSET Nat /\ IsFiniteSet(above) /\ g \in above
    <3>1. IsFiniteSet(above)
      BY <1>1, FS_Subset
    <3> QED
      BY <1>1, <2>1, <3>1
  <2> DEFINE a == Named!Max(below)
             b == Named!Min(above)
  <2>4. a \in stops /\ a < r /\ \A x \in below : x <= a
    BY <2>2, FiniteHasMaximum
  <2>5. b \in stops /\ b >= r /\ \A x \in above : b <= x
    BY <2>3, FiniteHasMinimum
  <2> HIDE DEF a, b
  <2>6. b \notin r .. r + n - 1
    BY <1>1, <1>6, <2>1, <2>5
  <2>7. b >= r + n
    BY <1>1, <2>1, <2>5, <2>6
  <2>8. (a + 1 .. b - 1) \cap stops = {}
    <3> SUFFICES ASSUME NEW x \in stops, a + 1 <= x, x <= b - 1
                 PROVE  FALSE
      BY <1>1, <2>4, <2>5
    <3>1. CASE x < r
      BY <1>1, <2>4, <3>1
    <3>2. CASE x >= r
      BY <1>1, <2>5, <3>2
    <3> QED
      BY <1>1, <2>1, <3>1, <3>2
  <2>9. b > a /\ b - a - 1 >= n
    BY <1>1, <2>1, <2>4, <2>5, <2>7
  <2>10. a \in gaps
    BY <2>4, <2>5, <2>8, <2>9 DEF Gap
  <2>11. g <= a
    BY <1>4, <2>10
  <2> QED
    BY <1>1, <1>5, <2>1, <2>4, <2>11
<1>7. \A k \in s .. s + n - 1 : k \notin occupied
  BY <1>1, <1>4, <1>5
<1>8. \A r \in 1 .. s - 1 : \E k \in r .. r + n - 1 : k \in occupied
  BY <1>6
<1> QED
  BY <1>5, <1>7, <1>8

-----------------------------------------------------------------------------
Rows == UNION {[S -> NameSet] : S \in SUBSET Named!Ids}
Heirs == UNION {[S -> Named!Ids] : S \in SUBSET Named!Ids}

Plans ==
  [row : Rows, new : Rows, keep : SUBSET Named!Ids, alias : SUBSET (NameSet \X Named!Ids), insert : Seq(NameSet),
   label : SUBSET NameSet, heir : Heirs, unalias : SUBSET NameSet, stem : Stems \cup {"*", ""},
   again : BOOLEAN, strict : BOOLEAN]

NameTypes ==
  /\ name \in [Named!Ids -> NameSet \cup {Named!Missing}]
  /\ aliases \in SUBSET (NameSet \X Named!Ids)
  /\ plans \in [Namers -> Plans \cup {Named!Idle}]
  /\ brought \in 0 .. MaxSamples /\ begun \in 0 .. MaxNamings
  /\ bore \in [Named!Ids -> SUBSET NameSet]
  /\ kept \in [Named!Ids -> SUBSET (NameSet \cup {Named!Missing})]
  /\ torn \in SUBSET Named!Ids
  /\ arisen \in [Namers -> SUBSET NameSet]
  /\ claimed \in [Namers -> SUBSET (NameSet \cup {Named!Missing})]
  /\ \A i \in Named!Samples : i <= brought
  /\ \A i, j \in Named!Samples : name[i] = name[j] => i = j

(* Samples remember their names and aliases, and what was to be kept is an *)
(* alias.                                                                  *)
Remembered ==
  /\ \A i \in Named!Samples : name[i] \in bore[i]
  /\ \A a \in aliases : a[1] \in bore[a[2]]
  /\ \A i \in Named!Samples \ torn : \A n \in kept[i] : <<n, i>> \in aliases \/ n \in dropped
  /\ \A i \in Named!Ids : i > brought => kept[i] = {}

(* A plan writes to existing rows, and each name once.                     *)
PlanTyped(p) ==
  /\ p \in Plans
  /\ DOMAIN p.row = DOMAIN p.new
  /\ DOMAIN p.new \subseteq 1 .. brought
  /\ DOMAIN p.heir \subseteq 1 .. brought /\ DOMAIN p.heir \cap DOMAIN p.new = {}
  /\ \A f \in DOMAIN p.heir : p.heir[f] <= brought
  /\ p.keep \subseteq DOMAIN p.row
  /\ \A n \in p.label : Head(n) \in Cleaning
  /\ \A i, j \in DOMAIN p.new : p.new[i] = p.new[j] => i = j
  /\ \A k, l \in DOMAIN p.insert : p.insert[k] = p.insert[l] => k = l
  /\ \A k \in DOMAIN p.insert, i \in DOMAIN p.new : p.insert[k] # p.new[i]

(* Its rows and new aliases are names that the samples have had.           *)
PlanKnown(p) ==
  /\ \A i \in DOMAIN p.row : p.row[i] \in bore[i]
  /\ \A i \in p.keep : <<p.row[i], i>> \in p.alias
  /\ \A a \in p.alias :
       \/ a[2] \in DOMAIN p.row /\ a[1] = p.row[a[2]] /\ DOMAIN p.heir = {}
       \/ \E f \in DOMAIN p.heir : p.heir[f] = a[2] /\ a[1] \in bore[f] /\ p.alias = {a}

(* Its new names were free when they were checked.                         *)
Checked(u, n) == n \in arisen[u] \/ n \notin Named!Taken(name, aliases)

PlanChecked(u, p) ==
  /\ \A i \in DOMAIN p.new : p.new[i] = p.row[i] \/ Checked(u, p.new[i])
  /\ \A k \in DOMAIN p.insert :
       Checked(u, p.insert[k]) \/ Head(p.insert[k]) \in Cleaning \cup {"*"} \/ p.insert[k] \in p.unalias

(* Names for new samples are free, unless others have claimed them.        *)
Adds(p) ==
  /\ p.stem \in Cleaning \cup {"*"}
  /\ DOMAIN p.new = {} /\ DOMAIN p.heir = {} /\ p.insert # <<>>
  /\ ~p.again /\ ~p.strict

PlanRivalled(u, p) == p.stem # "" =>
  /\ Adds(p)
  /\ \A i \in Named!Samples : name[i] \in Named!Range(p.insert) => name[i] \in claimed[u]

PlanAgain(p) ==
  p.again => /\ p.insert = <<>> /\ DOMAIN p.heir = {}
             /\ \E i \in DOMAIN p.row : DOMAIN p.row = {i}

PlanSound(u) ==
  plans[u] # Named!Idle =>
    /\ PlanTyped(plans[u]) /\ PlanKnown(plans[u]) /\ PlanAgain(plans[u])
    /\ PlanChecked(u, plans[u]) /\ PlanRivalled(u, plans[u])

NameInv == NameTypes /\ Remembered /\ \A u \in Namers : PlanSound(u)

(* A request may begin with a plan.                                        *)
Ready(p) ==
  /\ PlanTyped(p) /\ PlanKnown(p) /\ PlanAgain(p)
  /\ \A i \in DOMAIN p.new : p.new[i] = p.row[i] \/ p.new[i] \notin Named!Taken(name, aliases)
  /\ \A k \in DOMAIN p.insert : \/ p.insert[k] \notin Named!Taken(name, aliases)
                                \/ Head(p.insert[k]) \in Cleaning \cup {"*"}
                                \/ p.insert[k] \in p.unalias
  /\ p.stem # "" => Adds(p) /\ Named!Conflicts(p) = {}

LEMMA PlansAreBusy ==
  ASSUME NEW p \in Plans
  PROVE  p # Named!Idle
<1>1. "row" \in DOMAIN p
  BY DEF Plans
<1>2. DOMAIN Named!Idle = {"idle"}
  BY DEF Named!Idle
<1> QED
  BY <1>1, <1>2

LEMMA RowFacts ==
  ASSUME NEW r \in Rows
  PROVE  DOMAIN r \subseteq Named!Ids /\ \A i \in DOMAIN r : r[i] \in NameSet
BY DEF Rows

LEMMA RowsOfSamples ==
  ASSUME NEW S \in SUBSET Named!Ids, NEW r \in [S -> NameSet]
  PROVE  r \in Rows
BY DEF Rows

LEMMA HeirFacts ==
  ASSUME NEW h \in Heirs
  PROVE  DOMAIN h \subseteq Named!Ids /\ \A i \in DOMAIN h : h[i] \in Named!Ids
BY DEF Heirs

(* Samples have names; where there is no sample, there is none.            *)
LEMMA SampleFacts ==
  ASSUME Named!NamesAssumption, NameTypes
  PROVE  /\ \A i \in Named!Samples : i \in Named!Ids /\ i \in 1 .. brought /\ name[i] \in NameSet /\ name[i] # Named!Missing
         /\ \A i \in Named!Ids \ Named!Samples : name[i] = Named!Missing
         /\ Named!Ids = 1 .. MaxSamples /\ IsFiniteSet(Named!Samples)
         /\ Named!Missing \notin NameSet
<1>1. \A i \in Named!Ids : name[i] \in NameSet \cup {Named!Missing}
  BY DEF NameTypes
<1>2. Named!Missing \notin NameSet
  BY DEF NameSet
<1>3. MaxSamples \in Int
  <2>1. MaxSamples \in Nat
    BY DEF Named!NamesAssumption
  <2> QED
    BY <2>1
<1>4. IsFiniteSet(Named!Ids)
  BY <1>3, FS_Interval DEF Named!Ids
<1>5. Named!Samples \subseteq Named!Ids
  BY DEF Named!Samples
<1>6. IsFiniteSet(Named!Samples)
  BY <1>4, <1>5, FS_Subset
<1>7. \A i \in Named!Samples : i \in 1 .. brought
  BY <1>5 DEF NameTypes, Named!Ids
<1> QED
  BY <1>1, <1>2, <1>5, <1>6, <1>7 DEF Named!Samples, Named!Ids

LEMMA RangeFacts ==
  ASSUME Named!NamesAssumption, NameTypes
  PROVE  \A n \in NameSet : n \in Named!Range(name) <=> \E i \in Named!Samples : name[i] = n
<1>1. DOMAIN name = Named!Ids
  BY DEF NameTypes
<1> QED
  BY <1>1, SampleFacts DEF Named!Range

LEMMA ImageIsFinite ==
  ASSUME NEW f, IsFiniteSet(DOMAIN f), f = [x \in DOMAIN f |-> f[x]]
  PROVE  IsFiniteSet(Named!Range(f))
<1>1. f \in Surjection(DOMAIN f, Named!Range(f))
  BY DEF Surjection, Named!Range
<1> QED
  BY <1>1, FS_Surjection

-----------------------------------------------------------------------------
LEMMA ProvisionalNumbers ==
  ASSUME Named!NamesAssumption, NameTypes
  PROVE  /\ Named!occupied_provisional_numbers \in SUBSET Nat /\ IsFiniteSet(Named!occupied_provisional_numbers)
         /\ \A k \in Nat : k \in Named!occupied_provisional_numbers <=> <<"*", k>> \in Named!Range(name)
<1> DEFINE J == {j \in Named!Samples : Named!IsProvisional(name[j])}
           f == [i \in J |-> name[i][2]]
<1>1. J \subseteq Named!Samples /\ IsFiniteSet(J)
  BY SampleFacts, FS_Subset
<1>2. \A i \in J : name[i] \in NameSet /\ name[i][2] \in Nat /\ name[i] = <<"*", name[i][2]>>
  BY SampleFacts, NameFacts
<1>3. Named!occupied_provisional_numbers = Named!Range(f)
  BY DEF Named!occupied_provisional_numbers, Named!Range
<1>4. IsFiniteSet(Named!Range(f))
  BY <1>1, ImageIsFinite
<1>5. Named!occupied_provisional_numbers \in SUBSET Nat
  BY <1>2 DEF Named!occupied_provisional_numbers
<1>6. ASSUME NEW k \in Nat
      PROVE  k \in Named!occupied_provisional_numbers <=> <<"*", k>> \in Named!Range(name)
  <2>1. <<"*", k>> \in NameSet /\ <<"*", k>>[2] = k
    BY NumberedName
  <2>2. <<"*", k>> \in Named!Range(name) <=> \E i \in Named!Samples : name[i] = <<"*", k>>
    BY <2>1, RangeFacts
  <2>3. \A i \in Named!Samples : name[i] = <<"*", k>> => i \in J
    BY DEF Named!IsProvisional
  <2>4. k \in Named!occupied_provisional_numbers <=> \E i \in J : name[i][2] = k
    BY DEF Named!occupied_provisional_numbers
  <2> QED
    BY <1>1, <1>2, <2>1, <2>2, <2>3, <2>4
<1> QED
  BY <1>3, <1>4, <1>5, <1>6

LEMMA CleaningNumbers ==
  ASSUME Named!NamesAssumption, NameTypes, NEW c \in Cleaning
  PROVE  /\ Named!Subnumbers(c) \in SUBSET Nat /\ IsFiniteSet(Named!Subnumbers(c))
         /\ \A k \in Nat : <<c, k>> \in Named!Range(name) => k \in Named!Subnumbers(c)
<1> DEFINE J == {j \in Named!Samples : Head(name[j]) = c}
           NumberOf(n) == IF Len(n) > 1 THEN Named!Last(n) ELSE 0
           f == [i \in J |-> NumberOf(name[i])]
<1>1. J \subseteq Named!Samples /\ IsFiniteSet(J)
  BY SampleFacts, FS_Subset
<1>2. ASSUME NEW i \in J
      PROVE  NumberOf(name[i]) \in Nat
  <2>1. name[i] \in NameSet
    BY SampleFacts
  <2>2. Len(name[i]) \in Nat /\ \A k \in 2 .. Len(name[i]) : name[i][k] \in Nat
    BY <2>1, NameFacts
  <2> QED
    BY <2>2 DEF Named!Last
<1>3. Named!Subnumbers(c) = Named!Range(f)
  BY DEF Named!Subnumbers, Named!Range
<1>4. IsFiniteSet(Named!Range(f))
  BY <1>1, ImageIsFinite
<1>5. ASSUME NEW k \in Nat, <<c, k>> \in Named!Range(name)
      PROVE  k \in Named!Subnumbers(c)
  <2>1. <<c, k>> \in NameSet /\ Head(<<c, k>>) = c /\ NumberOf(<<c, k>>) = k
    <3>1. c \in Stems \cup {"*"}
      BY DEF Named!NamesAssumption
    <3>2. <<c, k>> \in NameSet
      BY <3>1, NumberedName
    <3>3. Len(<<c, k>>) = 2 /\ Head(<<c, k>>) = c /\ <<c, k>>[2] = k
      OBVIOUS
    <3> QED
      BY <3>2, <3>3 DEF Named!Last
  <2>2. PICK i \in Named!Samples : name[i] = <<c, k>>
    BY <1>5, <2>1, RangeFacts
  <2>3. i \in J /\ f[i] = k
    BY <2>1, <2>2
  <2> QED
    BY <1>3, <2>3 DEF Named!Range
<1> QED
  BY <1>2, <1>3, <1>4, <1>5 DEF Named!Range

(* The names in a block are free, and those of a smaller start are not.    *)
LEMMA BlockIsFree ==
  ASSUME Named!NamesAssumption, NameTypes, NEW stem \in Cleaning \cup {"*"}, NEW n \in Nat \ {0}
  PROVE  LET b == Named!Block(stem, n)
         IN  /\ b \in Seq(NameSet) /\ DOMAIN b = 1 .. n /\ Len(b) = n
             /\ b[1][2] \in Nat \ {0}
             /\ \A k \in 1 .. n : b[k] = <<stem, b[1][2] + k - 1>> /\ b[k] \notin Named!Range(name)
             /\ stem = "*" => \A r \in 1 .. b[1][2] - 1 : \E k \in 1 .. n : <<"*", r + k - 1>> \in Named!Range(name)
<1> DEFINE first == IF stem = "*" THEN Named!StartingNumber(Named!occupied_provisional_numbers, n)
                    ELSE IF Named!Subnumbers(stem) = {} THEN 1 ELSE Named!Max(Named!Subnumbers(stem)) + 1
           b == Named!Block(stem, n)
<1>1. b = [k \in 1 .. n |-> <<stem, first + k - 1>>]
  BY DEF Named!Block
<1>2. /\ first \in Nat \ {0}
      /\ \A k \in 1 .. n : <<stem, first + k - 1>> \notin Named!Range(name)
      /\ stem = "*" => \A r \in 1 .. first - 1 : \E k \in 1 .. n : <<"*", r + k - 1>> \in Named!Range(name)
  <2>1. CASE stem = "*"
    <3> DEFINE occ == Named!occupied_provisional_numbers
    <3>1. /\ first \in Nat \ {0}
          /\ \A k \in first .. first + n - 1 : k \notin occ
          /\ \A r \in 1 .. first - 1 : \E k \in r .. r + n - 1 : k \in occ
      BY <2>1, ProvisionalNumbers, GapIsFirst
    <3> HIDE DEF first
    <3>2. ASSUME NEW k \in 1 .. n
          PROVE  <<stem, first + k - 1>> \notin Named!Range(name)
      <4>1. first + k - 1 \in first .. first + n - 1 /\ first + k - 1 \in Nat
        BY <3>1
      <4>2. first + k - 1 \notin occ
        BY <3>1, <4>1
      <4> QED
        BY <2>1, <4>1, <4>2, ProvisionalNumbers
    <3>3. ASSUME NEW r \in 1 .. first - 1
          PROVE  \E k \in 1 .. n : <<"*", r + k - 1>> \in Named!Range(name)
      <4>1. PICK m \in r .. r + n - 1 : m \in occ
        BY <3>1
      <4>2. m - r + 1 \in 1 .. n /\ r + (m - r + 1) - 1 = m /\ m \in Nat
        BY <3>1, <4>1
      <4>3. <<"*", m>> \in Named!Range(name)
        BY <4>1, <4>2, ProvisionalNumbers
      <4> QED
        BY <4>2, <4>3
    <3> QED
      BY <3>1, <3>2, <3>3
  <2>2. CASE stem # "*"
    <3>1. stem \in Cleaning
      BY <2>2
    <3>2. first \in Nat \ {0} /\ \A k \in Named!Subnumbers(stem) : k < first
      <4>1. CASE Named!Subnumbers(stem) = {}
        BY <2>2, <4>1
      <4>2. CASE Named!Subnumbers(stem) # {}
        <5>1. Named!Subnumbers(stem) \in SUBSET Nat /\ IsFiniteSet(Named!Subnumbers(stem))
          BY <3>1, CleaningNumbers
        <5>2. Named!Max(Named!Subnumbers(stem)) \in Named!Subnumbers(stem) /\ \A k \in Named!Subnumbers(stem) : k <= Named!Max(Named!Subnumbers(stem))
          BY <4>2, <5>1, FiniteHasMaximum
        <5> QED
          BY <2>2, <4>2, <5>1, <5>2
      <4> QED
        BY <4>1, <4>2
    <3> HIDE DEF first
    <3>3. ASSUME NEW k \in 1 .. n, <<stem, first + k - 1>> \in Named!Range(name)
          PROVE  FALSE
      <4>1. first + k - 1 \in Nat /\ first + k - 1 >= first
        BY <3>2
      <4>2. first + k - 1 \in Named!Subnumbers(stem)
        BY <3>1, <3>3, <4>1, CleaningNumbers
      <4> QED
        BY <3>2, <4>1, <4>2
    <3> QED
      BY <2>2, <3>2, <3>3
  <2> QED
    BY <2>1, <2>2
<1> HIDE DEF first
<1>3. \A k \in 1 .. n : b[k] = <<stem, first + k - 1>> /\ b[k] \in NameSet
  <2>1. \A k \in 1 .. n : first + k - 1 \in Nat
    BY <1>2
  <2>2. stem \in Stems \cup {"*"}
    BY DEF Named!NamesAssumption
  <2> QED
    BY <1>1, <2>1, <2>2, NumberedName
<1>4. b[1] = <<stem, first>> /\ b[1][2] = first
  <2>1. 1 \in 1 .. n /\ first + 1 - 1 = first
    BY <1>2
  <2>2. b[1] = <<stem, first>>
    BY <1>3, <2>1
  <2> QED
    BY <2>2
<1>5. b \in Seq(NameSet) /\ DOMAIN b = 1 .. n /\ Len(b) = n
  <2>1. b \in [1 .. n -> NameSet]
    BY <1>1, <1>3
  <2> QED
    BY <2>1
<1> QED
  BY <1>2, <1>3, <1>4, <1>5

LEMMA BlockIsInjective ==
  ASSUME Named!NamesAssumption, NameTypes, NEW stem \in Cleaning \cup {"*"}, NEW n \in Nat \ {0},
         NEW k \in 1 .. n, NEW l \in 1 .. n, Named!Block(stem, n)[k] = Named!Block(stem, n)[l]
  PROVE  k = l
<1> DEFINE b == Named!Block(stem, n)
<1>1. b[1][2] \in Nat /\ b[k] = <<stem, b[1][2] + k - 1>> /\ b[l] = <<stem, b[1][2] + l - 1>>
  BY BlockIsFree
<1>2. \A x : <<stem, x>>[2] = x
  OBVIOUS
<1>3. <<stem, b[1][2] + k - 1>> = <<stem, b[1][2] + l - 1>>
  BY <1>1
<1> HIDE DEF b
<1>4. b[1][2] + k - 1 = b[1][2] + l - 1
  BY <1>2, <1>3
<1> QED
  BY <1>1, <1>4

-----------------------------------------------------------------------------
(* Begin.  Other requests are not concerned by what does not commit.       *)
LEMMA OthersStaySound ==
  ASSUME NEW v \in Namers, PlanSound(v), plans'[v] = plans[v], claimed'[v] = claimed[v], arisen'[v] = arisen[v],
         name' = name, aliases' = aliases, brought' = brought, bore' = bore
  PROVE  PlanSound(v)'
<1> DEFINE p == plans[v]
<1> SUFFICES ASSUME plans[v] # Named!Idle
             PROVE  /\ PlanTyped(plans[v])' /\ PlanKnown(plans[v])' /\ PlanAgain(plans[v])'
                    /\ PlanChecked(v, plans[v])' /\ PlanRivalled(v, plans[v])'
  BY DEF PlanSound
<1>1. PlanTyped(p) /\ PlanKnown(p) /\ PlanAgain(p) /\ PlanChecked(v, p) /\ PlanRivalled(v, p)
  BY DEF PlanSound
<1>2. PlanTyped(plans[v])'
  BY <1>1 DEF PlanTyped
<1>3. PlanKnown(plans[v])'
  BY <1>1 DEF PlanKnown
<1>4. PlanAgain(plans[v])'
  BY <1>1 DEF PlanAgain
<1>5. PlanChecked(v, plans[v])'
  BY <1>1 DEF PlanChecked, Checked
<1>6. PlanRivalled(v, plans[v])'
  BY <1>1 DEF PlanRivalled, Adds, Named!Samples
<1> QED
  BY <1>2, <1>3, <1>4, <1>5, <1>6

(* What does not commit changes only plans.                                *)
LEMMA PlansChange ==
  ASSUME Named!NamesAssumption, NameInv, NEW u \in Namers, NEW p \in Plans \cup {Named!Idle},
         plans' = [plans EXCEPT ![u] = p],
         \A v \in Namers \ {u} : claimed'[v] = claimed[v] /\ arisen'[v] = arisen[v],
         claimed' \in [Namers -> SUBSET (NameSet \cup {Named!Missing})], arisen' \in [Namers -> SUBSET NameSet], begun' \in 0 .. MaxNamings,
         UNCHANGED <<name, aliases, brought, bore, kept, torn, dropped>>,
         p # Named!Idle => /\ PlanTyped(p) /\ PlanKnown(p) /\ PlanAgain(p)
                           /\ PlanChecked(u, p)' /\ PlanRivalled(u, p)'
  PROVE  NameInv'
<1>1. plans' \in [Namers -> Plans \cup {Named!Idle}] /\ plans'[u] = p /\ \A v \in Namers \ {u} : plans'[v] = plans[v]
  BY DEF NameInv, NameTypes
<1>2. NameTypes'
  BY <1>1 DEF NameInv, NameTypes, Named!Samples
<1>3. Remembered'
  BY DEF NameInv, Remembered, Named!Samples
<1>4. ASSUME NEW v \in Namers
      PROVE  PlanSound(v)'
  <2>1. CASE v = u
    <3> SUFFICES ASSUME p # Named!Idle
                 PROVE  /\ PlanTyped(plans[u])' /\ PlanKnown(plans[u])' /\ PlanAgain(plans[u])'
                        /\ PlanChecked(u, plans[u])' /\ PlanRivalled(u, plans[u])'
      BY <1>1, <2>1 DEF PlanSound
    <3>1. PlanTyped(plans[u])' /\ PlanKnown(plans[u])' /\ PlanAgain(plans[u])'
      BY <1>1 DEF PlanTyped, PlanKnown, PlanAgain
    <3>2. PlanChecked(u, plans[u])'
      BY <1>1 DEF PlanChecked, Checked
    <3>3. PlanRivalled(u, plans[u])'
      BY <1>1 DEF PlanRivalled, Adds
    <3> QED
      BY <3>1, <3>2, <3>3
  <2>2. CASE v # u
    <3>1. PlanSound(v)
      BY DEF NameInv
    <3> QED
      BY <1>1, <2>2, <3>1, OthersStaySound
  <2> QED
    BY <2>1, <2>2
<1> QED
  BY <1>2, <1>3, <1>4 DEF NameInv

LEMMA BeginKeeps ==
  ASSUME Named!NamesAssumption, NameInv, NEW u \in Namers, NEW p, Named!Begin(u, p), Ready(p)
  PROVE  NameInv'
<1>1. /\ p \in Plans
      /\ plans' = [plans EXCEPT ![u] = p] /\ begun' = begun + 1 /\ begun < MaxNamings
      /\ arisen' = [arisen EXCEPT ![u] = {}] /\ claimed' = [claimed EXCEPT ![u] = {}]
      /\ UNCHANGED <<name, aliases, brought, bore, kept, torn, dropped>>
  BY DEF Named!Begin, Ready, PlanTyped
<1>2. MaxNamings \in Nat
  BY DEF Named!NamesAssumption
<1>3. arisen' \in [Namers -> SUBSET NameSet] /\ arisen'[u] = {} /\ \A v \in Namers \ {u} : arisen'[v] = arisen[v]
  BY <1>1 DEF NameInv, NameTypes
<1>4. claimed' \in [Namers -> SUBSET (NameSet \cup {Named!Missing})] /\ claimed'[u] = {} /\ \A v \in Namers \ {u} : claimed'[v] = claimed[v]
  BY <1>1 DEF NameInv, NameTypes
<1>5. begun' \in 0 .. MaxNamings
  BY <1>1, <1>2 DEF NameInv, NameTypes
<1>6. PlanChecked(u, p)'
  BY <1>1, <1>3 DEF Ready, PlanChecked, Checked
<1>7. PlanRivalled(u, p)'
  <2> SUFFICES ASSUME p.stem # ""
               PROVE  PlanRivalled(u, p)'
    BY DEF PlanRivalled
  <2>1. Adds(p) /\ Named!Conflicts(p) = {}
    BY DEF Ready
  <2>2. \A i \in Named!Samples : name[i] \notin Named!Range(p.insert)
    BY <2>1 DEF Named!Conflicts
  <2> QED
    BY <1>1, <2>1, <2>2 DEF PlanRivalled, Adds, Named!Samples
<1> QED
  BY <1>1, <1>3, <1>4, <1>5, <1>6, <1>7, PlansChange DEF Ready

-----------------------------------------------------------------------------
(* The plans of the requests.                                              *)
LEMMA FreeNames ==
  ASSUME NEW n
  PROVE  ~Named!does_sample_exist(n) => n \notin Named!Taken(name, aliases)
BY DEF Named!does_sample_exist, Named!Taken, Named!Samples

NoRows == [i \in {} |-> Named!Missing]

LEMMA EmptyPlan ==
  ASSUME Named!NamesAssumption
  PROVE  /\ Named!Plan = [row |-> NoRows, new |-> NoRows, keep |-> {}, alias |-> {}, insert |-> <<>>,
                    label |-> {}, heir |-> Named!NoHeir, unalias |-> {}, stem |-> "",
                    again |-> FALSE, strict |-> FALSE]
         /\ Named!Plan \in Plans /\ DOMAIN NoRows = {} /\ DOMAIN Named!NoHeir = {} /\ DOMAIN <<>> = {}
<1>1. DOMAIN NoRows = {} /\ DOMAIN Named!NoHeir = {}
  BY DEF Named!NoHeir, NoRows
<1>2. NoRows \in Rows /\ Named!NoHeir \in Heirs
  <2>1. NoRows \in [{} -> NameSet] /\ Named!NoHeir \in [{} -> Named!Ids] /\ {} \in SUBSET Named!Ids
    BY DEF Named!NoHeir, NoRows
  <2> QED
    BY <2>1 DEF Rows, Heirs
<1>4. Named!Plan = [row |-> NoRows, new |-> NoRows, keep |-> {}, alias |-> {}, insert |-> <<>>,
              label |-> {}, heir |-> Named!NoHeir, unalias |-> {}, stem |-> "",
              again |-> FALSE, strict |-> FALSE]
  BY DEF Named!Plan, NoRows
<1>5. {} \in SUBSET Named!Ids /\ {} \in SUBSET (NameSet \X Named!Ids) /\ {} \in SUBSET NameSet
  OBVIOUS
<1>6. <<>> \in Seq(NameSet) /\ FALSE \in BOOLEAN /\ "" \in Stems \cup {"*", ""}
  OBVIOUS
<1>7. Named!Plan \in Plans
  BY <1>2, <1>4, <1>5, <1>6 DEF Plans
<1>8. DOMAIN <<>> = {}
  OBVIOUS
<1> QED
  BY <1>1, <1>4, <1>7, <1>8

AddPlan(insert, stem, label) ==
  [Named!Plan EXCEPT !.insert = insert, !.stem = stem, !.label = label]

LEMMA PlanToAdd ==
  ASSUME Named!NamesAssumption, NEW insert \in Seq(NameSet), NEW stem \in Stems \cup {"*", ""},
         NEW label \in SUBSET NameSet
  PROVE  AddPlan(insert, stem, label) \in Plans
BY EmptyPlan DEF Plans, AddPlan

LEMMA AddFields ==
  ASSUME NEW insert, NEW stem, NEW label
  PROVE  LET p == AddPlan(insert, stem, label)
         IN  /\ p.insert = insert /\ p.stem = stem /\ p.label = label
             /\ p.row = NoRows /\ p.new = NoRows /\ p.heir = Named!NoHeir /\ p.keep = {} /\ p.alias = {}
             /\ ~p.again /\ ~p.strict
BY DEF Named!Plan, NoRows, AddPlan

LEMMA AddKeeps ==
  ASSUME Named!NamesAssumption, NameInv, NEW u \in Namers, Named!add(u)
  PROVE  NameInv' /\ \E n \in 1 .. 2, stem \in Cleaning \cup {"*"} :
                        plans'[u].insert = Named!Block(stem, n) /\ plans'[u].stem = stem
<1>1. PICK n \in 1 .. 2, stem \in {"*"} \cup Cleaning, c \in {{}} \cup {{d} : d \in Cleaning} :
        Named!Begin(u, [Named!Plan EXCEPT !.insert = Named!Block(stem, n), !.stem = stem,
                              !.label = {<<d>> : d \in c}])
  BY DEF Named!add
<1> DEFINE b == Named!Block(stem, n)
           label == {<<d>> : d \in c}
           p == AddPlan(b, stem, label)
<1>2. NameTypes
  BY DEF NameInv
<1>3. b \in Seq(NameSet) /\ DOMAIN b = 1 .. n /\ Len(b) = n /\ \A k \in 1 .. n : b[k] \notin Named!Range(name) /\ Head(b[k]) = stem
  <2>1. n \in Nat \ {0} /\ stem \in Cleaning \cup {"*"}
    OBVIOUS
  <2>2. /\ b \in Seq(NameSet) /\ DOMAIN b = 1 .. n /\ Len(b) = n
        /\ \A k \in 1 .. n : b[k] = <<stem, b[1][2] + k - 1>> /\ b[k] \notin Named!Range(name)
    BY <1>2, <2>1, BlockIsFree
  <2>3. \A x : Head(<<stem, x>>) = stem
    OBVIOUS
  <2> QED
    BY <2>2, <2>3
<1>4. \A k, l \in DOMAIN b : b[k] = b[l] => k = l
  <2>1. n \in Nat \ {0} /\ stem \in Cleaning \cup {"*"}
    OBVIOUS
  <2> QED
    BY <1>2, <1>3, <2>1, BlockIsInjective
<1>5. label \in SUBSET NameSet /\ \A m \in label : Head(m) \in Cleaning
  <2>0. Cleaning \subseteq Stems
    BY DEF Named!NamesAssumption
  <2>1. \A d \in c : d \in Cleaning /\ d \in Stems
    BY <2>0
  <2>2. \A d \in c : <<d>> \in NameSet
    BY <2>1, InputsAreNames DEF Named!Inputs
  <2>3. \A d \in c : Head(<<d>>) = d
    OBVIOUS
  <2> QED
    BY <2>1, <2>2, <2>3
<1>6. stem \in Stems \cup {"*", ""} /\ stem # ""
  BY DEF Named!NamesAssumption
<1> HIDE DEF b, label
<1>7. p \in Plans /\ p.insert = b /\ p.stem = stem /\ p.label = label
      /\ p.row = NoRows /\ p.new = NoRows /\ p.heir = Named!NoHeir /\ p.keep = {} /\ p.alias = {}
      /\ ~p.again /\ ~p.strict
  <2>1. /\ b \in Seq(NameSet) /\ stem \in Stems \cup {"*", ""}
        /\ label \in SUBSET NameSet
    BY <1>3, <1>5, <1>6
  <2>2. p \in Plans
    BY <2>1, PlanToAdd
  <2> QED
    BY <2>2, AddFields
<1>8. DOMAIN p.row = {} /\ DOMAIN p.new = {} /\ DOMAIN p.heir = {}
  BY <1>7, EmptyPlan
<1> HIDE DEF p
<1>9. Named!Conflicts(p) = {}
  <2>1. \A i \in Named!Samples : name[i] \notin Named!Range(b)
    <3>1. \A i \in Named!Samples : i \in Named!Ids
      BY DEF Named!Samples
    <3>2. \A i \in Named!Ids : name[i] \in Named!Range(name)
      BY <1>2 DEF NameTypes, Named!Range
    <3> QED
      BY <1>3, <3>1, <3>2 DEF Named!Range
  <2> QED
    BY <1>7, <1>8, <2>1 DEF Named!Conflicts
<1>10. PlanTyped(p)
  BY <1>4, <1>5, <1>7, <1>8 DEF PlanTyped
<1>11. PlanKnown(p) /\ PlanAgain(p)
  BY <1>7, <1>8 DEF PlanKnown, PlanAgain
<1>12. Adds(p)
  <2>1. b # <<>>
    BY <1>3
  <2> QED
    BY <1>6, <1>7, <1>8, <2>1 DEF Adds
<1>13. Ready(p)
  BY <1>3, <1>6, <1>7, <1>8, <1>9, <1>10, <1>11, <1>12 DEF Ready
<1>14. Named!Begin(u, p)
  BY <1>1 DEF AddPlan, p, b, label
<1>15. NameInv'
  BY <1>13, <1>14, BeginKeeps
<1>16. plans'[u] = p
  BY <1>14 DEF Named!Begin, NameInv, NameTypes
<1> QED
  BY <1>7, <1>15, <1>16 DEF b

LEMMA BulkRenameKeeps ==
  ASSUME Named!NamesAssumption, NameInv, NEW u \in Namers, Named!bulk_rename(u)
  PROVE  NameInv' /\ plans'[u].stem = ""
<1>1. PICK ids \in SUBSET Named!Samples \ {{}}, keep \in SUBSET Named!Samples :
        \E new \in [ids -> {<<s>> : s \in Named!find_prefixes(u)}] :
          /\ keep \subseteq {i \in ids : ~Named!IsProvisional(name[i])}
          /\ Named!IsInjective(new)
          /\ \A i \in ids : ~Named!does_sample_exist(new[i])
          /\ Named!Begin(u, [Named!Plan EXCEPT !.row = [i \in ids |-> name[i]], !.new = new, !.keep = keep,
                                   !.alias = {<<name[i], i>> : i \in keep}, !.strict = TRUE])
  BY DEF Named!bulk_rename
<1>2. PICK new \in [ids -> {<<s>> : s \in Named!find_prefixes(u)}] :
          /\ keep \subseteq {i \in ids : ~Named!IsProvisional(name[i])}
          /\ Named!IsInjective(new)
          /\ \A i \in ids : ~Named!does_sample_exist(new[i])
          /\ Named!Begin(u, [Named!Plan EXCEPT !.row = [i \in ids |-> name[i]], !.new = new, !.keep = keep,
                                   !.alias = {<<name[i], i>> : i \in keep}, !.strict = TRUE])
  BY <1>1
<1> DEFINE row == [i \in ids |-> name[i]]
           alias == {<<name[i], i>> : i \in keep}
           p == [Named!Plan EXCEPT !.row = row, !.new = new, !.keep = keep, !.alias = alias, !.strict = TRUE]
<1>3. NameTypes /\ ids \subseteq Named!Ids /\ keep \subseteq ids
  BY <1>2 DEF NameInv, Named!Samples
<1>4. row \in Rows /\ DOMAIN row = ids /\ \A i \in ids : row[i] = name[i] /\ name[i] \in NameSet
  <2>1. \A i \in ids : name[i] \in NameSet
    BY <1>3, SampleFacts
  <2>2. row \in [ids -> NameSet]
    BY <2>1
  <2> QED
    BY <1>3, <2>1, <2>2, RowsOfSamples
<1>5. new \in Rows /\ DOMAIN new = ids
  <2>1. {<<s>> : s \in Named!find_prefixes(u)} \subseteq NameSet
    BY InputsAreNames DEF Named!Inputs, Named!find_prefixes
  <2>2. new \in [ids -> NameSet]
    BY <2>1
  <2> QED
    BY <1>3, <2>2, RowsOfSamples
<1>6. alias \in SUBSET (NameSet \X Named!Ids)
  BY <1>3, <1>4
<1>7. \A a \in alias : a[2] \in ids /\ a[1] = row[a[2]]
  BY <1>3, <1>4
<1>8. \A i \in keep : <<row[i], i>> \in alias
  BY <1>3, <1>4
<1> HIDE DEF row, alias
<1>9. p \in Plans
  BY <1>3, <1>4, <1>5, <1>6, EmptyPlan DEF Plans
<1>10. /\ p.row = row /\ p.new = new /\ p.keep = keep /\ p.alias = alias /\ p.insert = <<>> /\ p.label = {}
       /\ p.heir = Named!NoHeir /\ p.stem = "" /\ ~p.again
  BY DEF Named!Plan
<1> HIDE DEF p
<1>11. DOMAIN Named!NoHeir = {} /\ DOMAIN p.insert = {}
  BY <1>10, EmptyPlan
<1>12. PlanTyped(p)
  <2>1. ids \subseteq 1 .. brought
    BY <1>3, SampleFacts
  <2>2. \A i, j \in DOMAIN new : new[i] = new[j] => i = j
    BY <1>2 DEF Named!IsInjective
  <2> QED
    BY <1>3, <1>4, <1>5, <1>9, <1>10, <1>11, <2>1, <2>2 DEF PlanTyped
<1>13. PlanKnown(p)
  BY <1>3, <1>4, <1>7, <1>8, <1>10, <1>11 DEF PlanKnown, NameInv, Remembered
<1>14. PlanAgain(p)
  BY <1>10 DEF PlanAgain
<1>15. Ready(p)
  BY <1>2, <1>5, <1>10, <1>11, <1>12, <1>13, <1>14, FreeNames DEF Ready
<1>16. Named!Begin(u, p)
  BY <1>2 DEF p, row, alias
<1>17. NameInv'
  BY <1>15, <1>16, BeginKeeps
<1>18. plans'[u] = p
  BY <1>16 DEF Named!Begin, NameInv, NameTypes
<1> QED
  BY <1>10, <1>17, <1>18

LEMMA RenameKeeps ==
  ASSUME Named!NamesAssumption, NameInv, NEW u \in Namers, Named!rename_sample(u)
  PROVE  NameInv' /\ plans'[u].stem = ""
<1>1. PICK i \in Named!Samples, n \in Named!Inputs, kept_too \in BOOLEAN :
        /\ ~Named!does_sample_exist(n)
        /\ Named!Begin(u, [Named!Plan EXCEPT !.row = [j \in {i} |-> name[i]], !.new = [j \in {i} |-> n],
                                 !.keep = IF kept_too THEN {i} ELSE {},
                                 !.alias = IF kept_too THEN {<<name[i], i>>} ELSE {}, !.again = TRUE])
  BY DEF Named!rename_sample
<1> DEFINE row == [j \in {i} |-> name[i]]
           new == [j \in {i} |-> n]
           keep == IF kept_too THEN {i} ELSE {}
           alias == IF kept_too THEN {<<name[i], i>>} ELSE {}
           p == [Named!Plan EXCEPT !.row = row, !.new = new, !.keep = keep, !.alias = alias, !.again = TRUE]
<1>2. NameTypes /\ i \in Named!Ids /\ i \in 1 .. brought /\ name[i] \in NameSet /\ n \in NameSet
  BY SampleFacts, InputsAreNames DEF NameInv
<1>3. row \in Rows /\ new \in Rows
  <2>1. row \in [{i} -> NameSet] /\ new \in [{i} -> NameSet]
    BY <1>2
  <2> QED
    BY <1>2, <2>1, RowsOfSamples
<1>4. DOMAIN row = {i} /\ DOMAIN new = {i} /\ row[i] = name[i] /\ new[i] = n
  OBVIOUS
<1>5. keep \in SUBSET Named!Ids /\ alias \in SUBSET (NameSet \X Named!Ids)
  BY <1>2
<1>6. \A a \in alias : a = <<row[i], i>>
  OBVIOUS
<1>7. \A j \in keep : j = i /\ <<row[i], i>> \in alias
  OBVIOUS
<1> HIDE DEF row, new, keep, alias
<1>8. p \in Plans
  BY <1>3, <1>5, EmptyPlan DEF Plans
<1>9. /\ p.row = row /\ p.new = new /\ p.keep = keep /\ p.alias = alias /\ p.insert = <<>> /\ p.label = {}
      /\ p.heir = Named!NoHeir /\ p.stem = ""
  BY DEF Named!Plan
<1> HIDE DEF p
<1>10. DOMAIN Named!NoHeir = {} /\ DOMAIN p.insert = {}
  BY <1>9, EmptyPlan
<1>11. PlanTyped(p)
  BY <1>2, <1>4, <1>7, <1>8, <1>9, <1>10 DEF PlanTyped
<1>12. PlanKnown(p)
  <2>1. \A a \in alias : a[2] = i /\ a[1] = row[i]
    BY <1>6
  <2>2. row[i] \in bore[i]
    BY <1>4 DEF NameInv, Remembered
  <2> QED
    BY <1>4, <1>7, <1>9, <1>10, <2>1, <2>2 DEF PlanKnown
<1>13. PlanAgain(p)
  BY <1>4, <1>9, <1>10 DEF PlanAgain
<1>14. Ready(p)
  BY <1>1, <1>4, <1>9, <1>10, <1>11, <1>12, <1>13, FreeNames DEF Ready
<1>15. Named!Begin(u, p)
  BY <1>1 DEF p, row, new, keep, alias
<1>16. NameInv'
  BY <1>14, <1>15, BeginKeeps
<1>17. plans'[u] = p
  BY <1>15 DEF Named!Begin, NameInv, NameTypes
<1> QED
  BY <1>9, <1>16, <1>17

LEMMA EditKeeps ==
  ASSUME Named!NamesAssumption, NameInv, NEW u \in Namers, Named!edit(u)
  PROVE  NameInv' /\ plans'[u].stem = ""
<1>1. PICK i \in Named!Samples :
        Named!Begin(u, [Named!Plan EXCEPT !.row = [j \in {i} |-> name[i]], !.new = [j \in {i} |-> name[i]]])
  BY DEF Named!edit
<1> DEFINE row == [j \in {i} |-> name[i]]
           p == [Named!Plan EXCEPT !.row = row, !.new = row]
<1>2. NameTypes /\ i \in Named!Ids /\ i \in 1 .. brought /\ name[i] \in NameSet
  BY SampleFacts DEF NameInv
<1>3. row \in Rows
  <2>1. row \in [{i} -> NameSet]
    BY <1>2
  <2> QED
    BY <1>2, <2>1, RowsOfSamples
<1>4. DOMAIN row = {i} /\ row[i] = name[i]
  OBVIOUS
<1> HIDE DEF row
<1>8. p \in Plans
  BY <1>3, EmptyPlan DEF Plans
<1>9. /\ p.row = row /\ p.new = row /\ p.keep = {} /\ p.alias = {} /\ p.insert = <<>> /\ p.label = {}
      /\ p.heir = Named!NoHeir /\ p.stem = "" /\ ~p.again
  BY DEF Named!Plan
<1> HIDE DEF p
<1>10. DOMAIN Named!NoHeir = {} /\ DOMAIN p.insert = {}
  BY <1>9, EmptyPlan
<1>11. PlanTyped(p)
  <2>1. DOMAIN p.new = {i} /\ {i} \subseteq 1 .. brought
    BY <1>2, <1>4, <1>9
  <2>2. p.row = p.new /\ p.keep \subseteq DOMAIN p.row /\ p.label = {} /\ DOMAIN p.insert = {} /\ DOMAIN p.heir = {}
    BY <1>9, <1>10
  <2> QED
    BY <1>8, <2>1, <2>2 DEF PlanTyped
<1>12. PlanKnown(p)
  <2>1. row[i] \in bore[i]
    BY <1>4 DEF NameInv, Remembered
  <2> QED
    BY <1>4, <1>9, <1>10, <2>1 DEF PlanKnown
<1>13. PlanAgain(p)
  BY <1>9 DEF PlanAgain
<1>14. Ready(p)
  BY <1>4, <1>9, <1>10, <1>11, <1>12, <1>13 DEF Ready
<1>15. Named!Begin(u, p)
  BY <1>1 DEF p, row
<1>16. NameInv'
  BY <1>14, <1>15, BeginKeeps
<1>17. plans'[u] = p
  BY <1>15 DEF Named!Begin, NameInv, NameTypes
<1> QED
  BY <1>9, <1>16, <1>17

(* Names of pieces are names.                                              *)
LEMMA PiecesAreNames ==
  ASSUME Named!NamesAssumption, NEW old \in NameSet, NEW n \in Named!PieceNames(old),
         Named!sample_name_format(n) # "none" \/ Named!valid_new_sample_name(old, n)
  PROVE  n \in NameSet
<1>1. CASE n \in Named!Inputs
  BY <1>1, InputsAreNames
<1>2. ASSUME NEW k \in 1 .. 2, n = Append(old, k)
      PROVE  n \in NameSet
  <2>1. k \in Nat
    OBVIOUS
  <2>2. CASE old[1] # "*"
    BY <1>2, <2>1, <2>2, AppendedName
  <2>3. CASE old[1] = "*"
    <3>1. Len(old) = 2 /\ Named!IsProvisional(old)
      BY <2>3, NameFacts DEF Named!IsProvisional
    <3>2. Len(n) = 3 /\ Named!IsProvisional(n)
      <4>1. Len(Append(old, k)) = Len(old) + 1 /\ Head(Append(old, k)) = old[1]
        BY <2>1, AppendedName
      <4> QED
        BY <1>2, <2>3, <3>1, <4>1 DEF Named!IsProvisional
    <3>3. Named!sample_name_format(n) = "none" /\ Named!sample_name_format(old) = "provisional"
      BY <3>1, <3>2 DEF Named!sample_name_format
    <3>4. "none" \notin Renames["provisional"]
      BY DEF Named!NamesAssumption
    <3> QED
      BY <3>3, <3>4 DEF Named!valid_new_sample_name
  <2> QED
    BY <2>2, <2>3
<1> QED
  BY <1>1, <1>2 DEF Named!PieceNames

LEMMA SplitKeeps ==
  ASSUME Named!NamesAssumption, NameInv, NEW u \in Namers, Named!split(u)
  PROVE  NameInv' /\ plans'[u].stem = ""
<1>1. PICK i \in Named!Samples : \E pieces \in SUBSET Named!PieceNames(name[i]) :
        /\ \A n \in pieces :
             /\ Named!sample_name_format(n) # "none" \/ Named!valid_new_sample_name(name[i], n)
             /\ ~Named!does_sample_exist(n)
        /\ Named!Begin(u, [Named!Plan EXCEPT !.insert = Named!SetToSeq(pieces)])
  BY DEF Named!split
<1>2. PICK pieces \in SUBSET Named!PieceNames(name[i]) :
        /\ \A n \in pieces :
             /\ Named!sample_name_format(n) # "none" \/ Named!valid_new_sample_name(name[i], n)
             /\ ~Named!does_sample_exist(n)
        /\ Named!Begin(u, [Named!Plan EXCEPT !.insert = Named!SetToSeq(pieces)])
  BY <1>1
<1> DEFINE insert == Named!SetToSeq(pieces)
           p == [Named!Plan EXCEPT !.insert = insert]
<1>3. pieces \subseteq NameSet
  <2>1. name[i] \in NameSet
    BY SampleFacts DEF NameInv
  <2> QED
    BY <1>2, <2>1, PiecesAreNames
<1>4. IsFiniteSet(pieces)
  <2>1. IsFiniteSet(Named!PieceNames(name[i]))
    <3> DEFINE f == [s \in Stems |-> <<s>>]
               g == [k \in 1 .. 2 |-> Append(name[i], k)]
    <3>1. IsFiniteSet(Stems) /\ IsFiniteSet(1 .. 2)
      <4>1. IsFiniteSet(1 .. 2)
        <5>1. 1 \in Int /\ 2 \in Int
          OBVIOUS
        <5> QED
          BY <5>1, FS_Interval
      <4>2. Named!IsFiniteSet(Stems)
        BY DEF Named!NamesAssumption
      <4> QED
        BY <4>1, <4>2 DEF Named!IsFiniteSet, IsFiniteSet
    <3>2. IsFiniteSet(Named!Range(f)) /\ IsFiniteSet(Named!Range(g))
      BY <3>1, ImageIsFinite
    <3>3. Named!PieceNames(name[i]) = Named!Range(f) \cup Named!Range(g)
      BY DEF Named!PieceNames, Named!Inputs, Named!Range
    <3> QED
      BY <3>2, <3>3, FS_Union
  <2> QED
    BY <2>1, FS_Subset
<1>5. /\ insert \in Seq(pieces) /\ insert \in Seq(NameSet)
      /\ \A k, l \in DOMAIN insert : insert[k] = insert[l] => k = l
      /\ \A k \in DOMAIN insert : insert[k] \in pieces
  BY <1>3, <1>4, SequenceOfSet
<1> HIDE DEF insert
<1>8. p \in Plans
  BY <1>5, EmptyPlan DEF Plans
<1>9. /\ p.row = NoRows /\ p.new = NoRows /\ p.keep = {} /\ p.alias = {} /\ p.insert = insert /\ p.label = {}
      /\ p.heir = Named!NoHeir /\ p.stem = "" /\ ~p.again
  BY DEF Named!Plan, NoRows
<1> HIDE DEF p
<1>10. DOMAIN p.row = {} /\ DOMAIN p.new = {} /\ DOMAIN p.heir = {}
  BY <1>9, EmptyPlan
<1>11. PlanTyped(p)
  BY <1>5, <1>8, <1>9, <1>10 DEF PlanTyped
<1>12. PlanKnown(p)
  BY <1>9, <1>10 DEF PlanKnown
<1>13. PlanAgain(p)
  BY <1>9 DEF PlanAgain
<1>14. Ready(p)
  BY <1>2, <1>5, <1>9, <1>10, <1>11, <1>12, <1>13, FreeNames DEF Ready
<1>15. Named!Begin(u, p)
  BY <1>2 DEF p, insert
<1>16. NameInv'
  BY <1>14, <1>15, BeginKeeps
<1>17. plans'[u] = p
  BY <1>15 DEF Named!Begin, NameInv, NameTypes
<1> QED
  BY <1>9, <1>16, <1>17

LEMMA SplitAfterDepositionKeeps ==
  ASSUME Named!NamesAssumption, NameInv, NEW u \in Namers, Named!split_after_deposition(u)
  PROVE  NameInv' /\ plans'[u].stem = ""
<1>1. PICK i \in Named!Samples : \E n \in Named!Inputs \cup {name[i]} : \E pieces \in {{}, {Append(n, 1), Append(n, 2)}} :
        /\ n # name[i] => ~Named!does_sample_exist(n)
        /\ ~Named!IsProvisional(n)
        /\ \A m \in pieces : ~Named!does_sample_exist(m)
        /\ LET renamed == IF n # name[i] /\ ~Named!IsProvisional(name[i]) THEN {i} ELSE {}
           IN  Named!Begin(u, [Named!Plan EXCEPT !.row = [j \in {i} |-> name[i]], !.new = [j \in {i} |-> n],
                                     !.keep = renamed, !.alias = {<<name[j], j>> : j \in renamed},
                                     !.insert = Named!SetToSeq(pieces)])
  BY DEF Named!split_after_deposition
<1>2. PICK n \in Named!Inputs \cup {name[i]} : \E pieces \in {{}, {Append(n, 1), Append(n, 2)}} :
        /\ n # name[i] => ~Named!does_sample_exist(n)
        /\ ~Named!IsProvisional(n)
        /\ \A m \in pieces : ~Named!does_sample_exist(m)
        /\ LET renamed == IF n # name[i] /\ ~Named!IsProvisional(name[i]) THEN {i} ELSE {}
           IN  Named!Begin(u, [Named!Plan EXCEPT !.row = [j \in {i} |-> name[i]], !.new = [j \in {i} |-> n],
                                     !.keep = renamed, !.alias = {<<name[j], j>> : j \in renamed},
                                     !.insert = Named!SetToSeq(pieces)])
  BY <1>1
<1>25. PICK pieces \in {{}, {Append(n, 1), Append(n, 2)}} :
        /\ n # name[i] => ~Named!does_sample_exist(n)
        /\ ~Named!IsProvisional(n)
        /\ \A m \in pieces : ~Named!does_sample_exist(m)
        /\ LET renamed == IF n # name[i] /\ ~Named!IsProvisional(name[i]) THEN {i} ELSE {}
           IN  Named!Begin(u, [Named!Plan EXCEPT !.row = [j \in {i} |-> name[i]], !.new = [j \in {i} |-> n],
                                     !.keep = renamed, !.alias = {<<name[j], j>> : j \in renamed},
                                     !.insert = Named!SetToSeq(pieces)])
  BY <1>2
<1> DEFINE row == [j \in {i} |-> name[i]]
           new == [j \in {i} |-> n]
           keep == IF n # name[i] /\ ~Named!IsProvisional(name[i]) THEN {i} ELSE {}
           alias == {<<name[j], j>> : j \in keep}
           insert == Named!SetToSeq(pieces)
           p == [Named!Plan EXCEPT !.row = row, !.new = new, !.keep = keep, !.alias = alias, !.insert = insert]
<1>3. NameTypes /\ i \in Named!Ids /\ i \in 1 .. brought /\ name[i] \in NameSet /\ n \in NameSet
  BY SampleFacts, InputsAreNames DEF NameInv
<1>4. row \in Rows /\ new \in Rows
  <2>1. row \in [{i} -> NameSet] /\ new \in [{i} -> NameSet]
    BY <1>3
  <2> QED
    BY <1>3, <2>1, RowsOfSamples
<1>5. DOMAIN row = {i} /\ DOMAIN new = {i} /\ row[i] = name[i] /\ new[i] = n
  OBVIOUS
<1>6. keep \in SUBSET Named!Ids /\ keep \subseteq {i} /\ alias \in SUBSET (NameSet \X Named!Ids)
  BY <1>3
<1>7. \A a \in alias : a[2] = i /\ a[1] = row[i]
  BY <1>6
<1>8. \A j \in keep : j = i /\ <<row[i], i>> \in alias
  BY <1>6
<1>9. /\ insert \in Seq(NameSet)
      /\ \A k, l \in DOMAIN insert : insert[k] = insert[l] => k = l
      /\ \A k \in DOMAIN insert : insert[k] \in pieces /\ insert[k] # n
  <2>1. n[1] # "*"
    BY <1>25, <1>3, NameFacts DEF Named!IsProvisional
  <2>2. Append(n, 1) \in NameSet /\ Append(n, 2) \in NameSet /\ Append(n, 1) # n /\ Append(n, 2) # n
    BY <1>3, <2>1, AppendedName
  <2>3. IsFiniteSet({}) /\ IsFiniteSet({Append(n, 1), Append(n, 2)})
    <3>1. {Append(n, 1), Append(n, 2)} = {Append(n, 1)} \cup {Append(n, 2)}
      OBVIOUS
    <3>2. IsFiniteSet({Append(n, 1)}) /\ IsFiniteSet({Append(n, 2)})
      BY FS_Singleton
    <3>3. IsFiniteSet({Append(n, 1)} \cup {Append(n, 2)})
      BY <3>2, FS_Union
    <3> QED
      BY <3>1, <3>2, <3>3, FS_EmptySet
  <2>4. IsFiniteSet(pieces) /\ pieces \subseteq NameSet /\ n \notin pieces
    BY <2>2, <2>3
  <2>5. /\ insert \in Seq(pieces)
        /\ \A k, l \in DOMAIN insert : insert[k] = insert[l] => k = l
    BY <2>4, SequenceOfSet
  <2>6. \A k \in DOMAIN insert : insert[k] \in pieces
    BY <2>5
  <2>7. insert \in Seq(NameSet)
    BY <2>4, <2>5
  <2> QED
    BY <2>4, <2>5, <2>6, <2>7
<1> HIDE DEF row, new, keep, alias, insert
<1>10. p \in Plans
  BY <1>4, <1>6, <1>9, EmptyPlan DEF Plans
<1>11. /\ p.row = row /\ p.new = new /\ p.keep = keep /\ p.alias = alias /\ p.insert = insert /\ p.label = {}
       /\ p.heir = Named!NoHeir /\ p.stem = "" /\ ~p.again
  BY DEF Named!Plan
<1> HIDE DEF p
<1>12. DOMAIN Named!NoHeir = {} /\ row[i] \in bore[i]
  BY <1>5, EmptyPlan DEF NameInv, Remembered
<1>13. PlanTyped(p)
  <2>1. DOMAIN p.new = {i} /\ DOMAIN p.row = {i} /\ {i} \subseteq 1 .. brought /\ p.keep \subseteq {i}
    BY <1>3, <1>5, <1>6, <1>11
  <2>2. p.label = {} /\ DOMAIN p.heir = {} /\ p.insert = insert /\ p.new[i] = n
    BY <1>5, <1>11, <1>12
  <2> QED
    BY <1>9, <1>10, <2>1, <2>2 DEF PlanTyped
<1>14. PlanKnown(p)
  BY <1>5, <1>7, <1>8, <1>11, <1>12 DEF PlanKnown
<1>15. PlanAgain(p)
  BY <1>11 DEF PlanAgain
<1>16. Ready(p)
  <2>1. \A j \in DOMAIN p.new : p.new[j] = p.row[j] \/ p.new[j] \notin Named!Taken(name, aliases)
    BY <1>25, <1>5, <1>11, FreeNames
  <2>2. \A k \in DOMAIN p.insert : p.insert[k] \notin Named!Taken(name, aliases)
    BY <1>25, <1>9, <1>11, FreeNames
  <2> QED
    BY <1>11, <1>13, <1>14, <1>15, <2>1, <2>2 DEF Ready
<1>17. Named!Begin(u, p)
  BY <1>25 DEF p, row, new, keep, alias, insert
<1>18. NameInv'
  BY <1>16, <1>17, BeginKeeps
<1>19. plans'[u] = p
  BY <1>17 DEF Named!Begin, NameInv, NameTypes
<1> QED
  BY <1>11, <1>18, <1>19

LEMMA JsonAddKeeps ==
  ASSUME Named!NamesAssumption, NameInv, NEW u \in Namers, Named!json_add_sample(u)
  PROVE  NameInv' /\ plans'[u].stem = ""
<1>1. PICK n \in Named!Inputs : Named!Begin(u, [Named!Plan EXCEPT !.insert = <<n>>, !.unalias = {n}])
  BY DEF Named!json_add_sample
<1> DEFINE insert == <<n>>
           unalias == {n}
           p == [Named!Plan EXCEPT !.insert = insert, !.unalias = unalias]
<1>2. n \in NameSet
  BY InputsAreNames
<1>3. insert \in Seq(NameSet) /\ unalias \in SUBSET NameSet
  BY <1>2
<1>4. DOMAIN insert = {1} /\ insert[1] \in unalias
  OBVIOUS
<1> HIDE DEF insert, unalias
<1>8. p \in Plans
  BY <1>3, EmptyPlan DEF Plans
<1>9. /\ p.row = NoRows /\ p.new = NoRows /\ p.keep = {} /\ p.alias = {} /\ p.insert = insert /\ p.label = {}
      /\ p.heir = Named!NoHeir /\ p.unalias = unalias /\ p.stem = "" /\ ~p.again
  BY DEF Named!Plan, NoRows
<1> HIDE DEF p
<1>10. DOMAIN p.row = {} /\ DOMAIN p.new = {} /\ DOMAIN p.heir = {}
  BY <1>9, EmptyPlan
<1>11. PlanTyped(p)
  BY <1>4, <1>8, <1>9, <1>10 DEF PlanTyped
<1>12. PlanKnown(p)
  BY <1>9, <1>10 DEF PlanKnown
<1>13. PlanAgain(p)
  BY <1>9 DEF PlanAgain
<1>14. Ready(p)
  BY <1>4, <1>9, <1>10, <1>11, <1>12, <1>13 DEF Ready
<1>15. Named!Begin(u, p)
  BY <1>1 DEF p, insert, unalias
<1>16. NameInv'
  BY <1>14, <1>15, BeginKeeps
<1>17. plans'[u] = p
  BY <1>15 DEF Named!Begin, NameInv, NameTypes
<1> QED
  BY <1>9, <1>16, <1>17

LEMMA MergeKeeps ==
  ASSUME Named!NamesAssumption, NameInv, NEW u \in Namers, Named!merge(u)
  PROVE  NameInv' /\ plans'[u].stem = ""
<1>1. PICK from \in Named!Samples, to \in Named!Samples :
        /\ from # to
        /\ LET named == <<name[from], to>>
           IN  Named!Begin(u, [Named!Plan EXCEPT !.heir = [i \in {from} |-> to], !.alias = {named},
                                     !.row = [i \in IF named \in aliases THEN {} ELSE {to} |-> name[i]],
                                     !.new = [i \in IF named \in aliases THEN {} ELSE {to} |-> name[i]]])
  BY DEF Named!merge
<1> DEFINE named == <<name[from], to>>
           written == IF named \in aliases THEN {} ELSE {to}
           row == [i \in written |-> name[i]]
           heir == [i \in {from} |-> to]
           alias == {named}
           p == [Named!Plan EXCEPT !.heir = heir, !.alias = alias, !.row = row, !.new = row]
<1>2. /\ NameTypes /\ from \in Named!Ids /\ from \in 1 .. brought /\ name[from] \in NameSet /\ name[from] \in bore[from]
      /\ to \in Named!Ids /\ to \in 1 .. brought /\ to <= brought /\ name[to] \in NameSet /\ name[to] \in bore[to]
  BY SampleFacts DEF NameInv, NameTypes, Remembered
<1>3. written \subseteq {to}
  OBVIOUS
<1>4. named \in NameSet \X Named!Ids /\ named[1] = name[from] /\ named[2] = to
  BY <1>2
<1> HIDE DEF written, named
<1>5. row \in Rows
  <2>1. row \in [written -> NameSet]
    BY <1>2, <1>3
  <2>2. written \in SUBSET Named!Ids
    BY <1>2, <1>3
  <2> QED
    BY <2>1, <2>2, RowsOfSamples
<1>6. heir \in Heirs
  <2>1. heir \in [{from} -> Named!Ids] /\ {from} \in SUBSET Named!Ids
    BY <1>2
  <2> QED
    BY <2>1 DEF Heirs
<1>7. DOMAIN row = written /\ \A i \in written : row[i] = name[i]
  OBVIOUS
<1>8. DOMAIN heir = {from} /\ heir[from] = to
  OBVIOUS
<1>9. alias \in SUBSET (NameSet \X Named!Ids) /\ \A a \in alias : a = named /\ alias = {a}
  BY <1>4
<1> HIDE DEF row, heir, alias
<1>10. p \in Plans
  BY <1>5, <1>6, <1>9, EmptyPlan DEF Plans
<1>11. /\ p.row = row /\ p.new = row /\ p.keep = {} /\ p.alias = alias /\ p.insert = <<>> /\ p.label = {}
       /\ p.heir = heir /\ p.stem = "" /\ ~p.again
  BY DEF Named!Plan
<1> HIDE DEF p
<1>12. DOMAIN p.insert = {}
  BY <1>11, EmptyPlan
<1>13. PlanTyped(p)
  <2>1. DOMAIN p.new \subseteq {to} /\ {to} \subseteq 1 .. brought
    BY <1>2, <1>3, <1>7, <1>11
  <2>2. /\ \A f \in DOMAIN p.heir : p.heir[f] <= brought
        /\ DOMAIN p.heir \subseteq 1 .. brought /\ DOMAIN p.heir \cap DOMAIN p.new = {}
    BY <1>1, <1>2, <1>3, <1>7, <1>8, <1>11
  <2>3. p.row = p.new /\ p.keep \subseteq DOMAIN p.row /\ p.label = {} /\ DOMAIN p.insert = {}
    BY <1>11, <1>12
  <2> QED
    BY <1>10, <2>1, <2>2, <2>3 DEF PlanTyped
<1>14. PlanKnown(p)
  <2>1. \A i \in DOMAIN p.row : p.row[i] \in bore[i]
    BY <1>2, <1>3, <1>7, <1>11
  <2>2. \A a \in p.alias : \E f \in DOMAIN p.heir : p.heir[f] = a[2] /\ a[1] \in bore[f] /\ p.alias = {a}
    BY <1>2, <1>4, <1>8, <1>9, <1>11
  <2>3. p.keep = {}
    BY <1>11
  <2> QED
    BY <2>1, <2>2, <2>3 DEF PlanKnown
<1>15. PlanAgain(p)
  BY <1>11 DEF PlanAgain
<1>16. Ready(p)
  BY <1>11, <1>12, <1>13, <1>14, <1>15 DEF Ready
<1>17. Named!Begin(u, p)
  BY <1>1 DEF p, row, heir, alias, written, named
<1>18. NameInv'
  BY <1>16, <1>17, BeginKeeps
<1>19. plans'[u] = p
  BY <1>17 DEF Named!Begin, NameInv, NameTypes
<1> QED
  BY <1>11, <1>18, <1>19

-----------------------------------------------------------------------------
(* Requests that do not commit.                                            *)
LEMMA FailKeeps ==
  ASSUME Named!NamesAssumption, NameInv, NEW u \in Namers, Named!Fail(u)
  PROVE  NameInv'
<1>1. /\ plans' = [plans EXCEPT ![u] = Named!Idle]
      /\ UNCHANGED <<name, aliases, brought, begun, bore, kept, torn, arisen, claimed, dropped>>
  BY DEF Named!Fail, Named!history
<1>2. claimed' \in [Namers -> SUBSET (NameSet \cup {Named!Missing})] /\ arisen' \in [Namers -> SUBSET NameSet] /\ begun' \in 0 .. MaxNamings
  BY <1>1 DEF NameInv, NameTypes
<1> QED
  BY <1>1, <1>2, PlansChange

LEMMA LookAgainKeeps ==
  ASSUME Named!NamesAssumption, NameInv, NEW u \in Namers, Named!LookAgain(u)
  PROVE  NameInv' /\ (plans'[u] # Named!Idle => plans'[u].stem = "") /\ plans[u].stem = ""
<1> PICK plan : plan = plans[u]
  OBVIOUS
<1>1. /\ plan # Named!Idle /\ plan.again
      /\ UNCHANGED <<name, aliases, brought, begun, bore, kept, torn, arisen, claimed, dropped>>
  BY DEF Named!LookAgain, Named!history
<1>2. \/ plans' = [plans EXCEPT ![u] = Named!Idle]
      \/ \E i \in Named!Samples : name[i] \in Named!Range(plan.row) /\ plans' = [plans EXCEPT ![u] = Named!Relocated(plan, i)]
  BY DEF Named!LookAgain
<1>3. /\ PlanTyped(plan) /\ PlanKnown(plan) /\ PlanAgain(plan) /\ PlanChecked(u, plan) /\ PlanRivalled(u, plan)
      /\ plan \in Plans /\ NameTypes
  BY <1>1 DEF NameInv, PlanSound, PlanTyped
<1>4. plan.stem = ""
  <2>1. ~Adds(plan)
    BY <1>1 DEF Adds
  <2> QED
    BY <1>3, <2>1 DEF PlanRivalled
<1>5. claimed' \in [Namers -> SUBSET (NameSet \cup {Named!Missing})] /\ arisen' \in [Namers -> SUBSET NameSet] /\ begun' \in 0 .. MaxNamings
  BY <1>1, <1>3 DEF NameTypes
<1>6. CASE plans' = [plans EXCEPT ![u] = Named!Idle]
  <2>1. NameInv'
    BY <1>1, <1>5, <1>6, PlansChange
  <2>2. plans'[u] = Named!Idle
    BY <1>3, <1>6 DEF NameTypes
  <2> QED
    BY <1>4, <2>1, <2>2
<1>7. ASSUME NEW i \in Named!Samples, name[i] \in Named!Range(plan.row), plans' = [plans EXCEPT ![u] = Named!Relocated(plan, i)]
      PROVE  NameInv' /\ plans'[u].stem = ""
  <2> PICK old : old = name[i]
    OBVIOUS
  <2> DEFINE given == CHOOSE n \in Named!Range(plan.new) : TRUE
             row == [j \in {i} |-> old]
             new == [j \in {i} |-> given]
             keep == IF plan.keep = {} THEN {} ELSE {i}
             alias == {<<a[1], i>> : a \in plan.alias}
  <2> PICK p : p = [plan EXCEPT !.again = FALSE, !.row = row, !.new = new, !.keep = keep, !.alias = alias]
    OBVIOUS
  <2>1. p = Named!Relocated(plan, i)
    BY DEF Named!Relocated
  <2>2. PICK i0 \in DOMAIN plan.row : DOMAIN plan.row = {i0} /\ plan.insert = <<>> /\ DOMAIN plan.heir = {}
    BY <1>1, <1>3 DEF PlanAgain
  <2>3. DOMAIN plan.new = {i0} /\ plan.row \in Rows /\ plan.new \in Rows
    BY <1>3, <2>2 DEF PlanTyped, Plans
  <2>4. old = plan.row[i0] /\ given = plan.new[i0]
    BY <1>7, <2>2, <2>3 DEF Named!Range
  <2>5. old \in NameSet /\ given \in NameSet
    BY <2>2, <2>3, <2>4, RowFacts
  <2> HIDE DEF given
  <2>6. i \in Named!Ids /\ i \in 1 .. brought /\ old \in bore[i]
    BY <1>3, SampleFacts DEF NameInv, Remembered
  <2>7. row \in Rows /\ new \in Rows
    <3>1. row \in [{i} -> NameSet] /\ new \in [{i} -> NameSet]
      BY <2>5
    <3> QED
      BY <2>6, <3>1, RowsOfSamples
  <2>8. DOMAIN row = {i} /\ DOMAIN new = {i} /\ row[i] = old /\ new[i] = given
    OBVIOUS
  <2>9. \A a \in plan.alias : a[1] = old /\ a \in NameSet \X Named!Ids
    <3>1. \A a \in plan.alias : a[2] \in DOMAIN plan.row /\ a[1] = plan.row[a[2]]
      BY <1>3, <2>2 DEF PlanKnown
    <3> QED
      BY <1>3, <2>2, <2>4, <3>1 DEF Plans
  <2>10. alias \in SUBSET (NameSet \X Named!Ids) /\ \A a \in alias : a[2] = i /\ a[1] = old
    BY <2>5, <2>6, <2>9
  <2>11. keep \subseteq {i} /\ keep \in SUBSET Named!Ids /\ \A j \in keep : <<old, i>> \in alias
    <3>1. ASSUME plan.keep # {}
          PROVE  <<old, i>> \in alias
      <4>1. i0 \in plan.keep
        BY <1>3, <2>2, <3>1 DEF PlanTyped
      <4>2. <<plan.row[i0], i0>> \in plan.alias
        BY <1>3, <4>1 DEF PlanKnown
      <4> QED
        BY <2>4, <4>2
    <3> QED
      BY <2>6, <3>1
  <2> HIDE DEF row, new, keep, alias
  <2>12. p \in Plans
    BY <1>3, <2>7, <2>10, <2>11 DEF Plans
  <2>13. /\ p.row = row /\ p.new = new /\ p.keep = keep /\ p.alias = alias /\ p.insert = plan.insert
         /\ p.label = plan.label /\ p.heir = plan.heir /\ p.stem = plan.stem
         /\ p.unalias = plan.unalias
    BY <1>3 DEF Plans
  <2>14. ~p.again
    BY <1>3 DEF Plans
  <2>15. DOMAIN p.insert = {} /\ DOMAIN p.heir = {} /\ \A n \in p.label : Head(n) \in Cleaning
    BY <1>3, <2>2, <2>13, EmptyPlan DEF PlanTyped
  <2>16. PlanTyped(p)
    <3>1. DOMAIN p.new = {i} /\ DOMAIN p.row = {i} /\ {i} \subseteq 1 .. brought /\ p.keep \subseteq {i}
      BY <2>6, <2>8, <2>11, <2>13
    <3> QED
      BY <2>12, <2>15, <3>1 DEF PlanTyped
  <2>17. PlanKnown(p)
    <3>1. \A j \in DOMAIN p.row : p.row[j] \in bore[j]
      BY <2>6, <2>8, <2>13
    <3>2. \A j \in p.keep : <<p.row[j], j>> \in p.alias
      BY <2>8, <2>11, <2>13
    <3>3. \A a \in p.alias : a[2] \in DOMAIN p.row /\ a[1] = p.row[a[2]]
      BY <2>8, <2>10, <2>13
    <3> QED
      BY <2>15, <3>1, <3>2, <3>3 DEF PlanKnown
  <2>18. PlanAgain(p)
    BY <2>14 DEF PlanAgain
  <2>19. PlanChecked(u, p)'
    <3>1. given = old \/ Checked(u, given)
      BY <1>3, <2>2, <2>3, <2>4 DEF PlanChecked
    <3>2. \A j \in DOMAIN p.new : p.new[j] = given /\ p.row[j] = old
      BY <2>8, <2>13
    <3>3. \A j \in DOMAIN p.new : p.new[j] = p.row[j] \/ Checked(u, p.new[j])
      BY <3>1, <3>2
    <3> QED
      BY <1>1, <2>15, <3>3 DEF PlanChecked, Checked
  <2>20. PlanRivalled(u, p)'
    BY <1>4, <2>13 DEF PlanRivalled
  <2>21. NameInv'
    BY <1>1, <1>5, <1>7, <2>1, <2>12, <2>16, <2>17, <2>18, <2>19, <2>20, PlansChange
  <2>22. plans'[u] = p
    BY <1>3, <1>7, <2>1 DEF NameTypes
  <2> QED
    BY <1>4, <2>13, <2>21, <2>22
<1> QED
  BY <1>2, <1>4, <1>6, <1>7

-----------------------------------------------------------------------------
(* Save.  A sample of afterwards has got a new name, is new, or has been   *)
(* left alone.                                                             *)
LEMMA PlanOfSave ==
  ASSUME Named!NamesAssumption, NameInv, NEW u \in Namers, Named!Save(u)
  PROVE  /\ PlanTyped(plans[u]) /\ PlanKnown(plans[u]) /\ PlanChecked(u, plans[u]) /\ PlanRivalled(u, plans[u])
         /\ plans[u] \in Plans /\ plans[u] # Named!Idle /\ NameTypes /\ Named!Conflicts(plans[u]) = {}
         /\ brought + Len(plans[u].insert) <= MaxSamples /\ brought' = brought + Len(plans[u].insert)
         /\ name' = Named!Written(plans[u]) /\ aliases' = Named!Aliased(plans[u]) /\ plans' = [plans EXCEPT ![u] = Named!Idle]
<1>1. /\ plans[u] # Named!Idle /\ Named!Conflicts(plans[u]) = {}
      /\ brought + Len(plans[u].insert) <= MaxSamples /\ brought' = brought + Len(plans[u].insert)
      /\ name' = Named!Written(plans[u]) /\ aliases' = Named!Aliased(plans[u]) /\ plans' = [plans EXCEPT ![u] = Named!Idle]
  BY DEF Named!Save
<1>2. /\ PlanTyped(plans[u]) /\ PlanKnown(plans[u]) /\ PlanChecked(u, plans[u]) /\ PlanRivalled(u, plans[u])
      /\ NameTypes
  BY <1>1 DEF NameInv, PlanSound
<1> QED
  BY <1>1, <1>2 DEF PlanTyped

LEMMA PlanParts ==
  ASSUME NEW p \in Plans
  PROVE  /\ \A i \in DOMAIN p.row : i \in Named!Ids /\ p.row[i] \in NameSet
         /\ \A i \in DOMAIN p.new : i \in Named!Ids /\ p.new[i] \in NameSet
         /\ \A f \in DOMAIN p.heir : f \in Named!Ids /\ p.heir[f] \in Named!Ids
         /\ Len(p.insert) \in Nat /\ DOMAIN p.insert = 1 .. Len(p.insert)
         /\ \A k \in DOMAIN p.insert : p.insert[k] \in NameSet
         /\ p.keep \subseteq Named!Ids /\ p.alias \subseteq NameSet \X Named!Ids /\ p.label \subseteq NameSet
<1>1. p.row \in Rows /\ p.new \in Rows /\ p.heir \in Heirs /\ p.insert \in Seq(NameSet)
  BY DEF Plans
<1>2. p.keep \subseteq Named!Ids /\ p.alias \subseteq NameSet \X Named!Ids /\ p.label \subseteq NameSet
  BY DEF Plans
<1> QED
  BY <1>1, <1>2, RowFacts, HeirFacts

LEMMA NewSamples ==
  ASSUME Named!NamesAssumption, NameTypes, NEW p, PlanTyped(p), brought + Len(p.insert) <= MaxSamples
  PROVE  /\ Named!NewIds(p) = brought + 1 .. brought + Len(p.insert) /\ Named!NewIds(p) \subseteq Named!Ids
         /\ \A i \in Named!NewIds(p) : i > brought /\ i - brought \in DOMAIN p.insert
         /\ \A k \in DOMAIN p.insert : brought + k \in Named!NewIds(p) /\ brought + k - brought = k
<1>1. Len(p.insert) \in Nat /\ DOMAIN p.insert = 1 .. Len(p.insert)
  BY PlanParts DEF PlanTyped
<1>2. MaxSamples \in Nat
  BY DEF Named!NamesAssumption
<1>3. brought \in Nat
  BY <1>2 DEF NameTypes
<1>4. Named!NewIds(p) = brought + 1 .. brought + Len(p.insert)
  <2>1. ASSUME NEW i \in brought + 1 .. brought + Len(p.insert)
        PROVE  i \in Named!NewIds(p)
    <3>1. i - brought \in 1 .. Len(p.insert) /\ i = brought + (i - brought)
      BY <1>1, <1>3
    <3> QED
      BY <1>1, <3>1 DEF Named!NewIds, Named!NewId
  <2> QED
    BY <1>1, <1>3, <2>1 DEF Named!NewIds, Named!NewId
<1> QED
  BY <1>1, <1>2, <1>3, <1>4 DEF Named!Ids

LEMMA NamesWritten ==
  ASSUME Named!NamesAssumption, NameInv, NEW u \in Namers, Named!Save(u)
  PROVE  LET p == plans[u]
         IN  /\ name' \in [Named!Ids -> NameSet \cup {Named!Missing}]
             /\ \A f \in DOMAIN p.heir : name'[f] = Named!Missing
             /\ \A i \in Named!Samples' :
                  /\ i \in Named!Ids /\ name'[i] # Named!Missing /\ i \notin DOMAIN p.heir
                  /\ \/ i \in DOMAIN p.new /\ name'[i] = p.new[i]
                     \/ \E k \in DOMAIN p.insert : i = brought + k /\ i \in Named!NewIds(p) /\ name'[i] = p.insert[k]
                     \/ i \in Named!Samples /\ i \notin DOMAIN p.new /\ i \notin Named!NewIds(p) /\ name'[i] = name[i]
             /\ p.insert # <<>> /\ DOMAIN p.heir = {} /\ DOMAIN p.new = {} => name' # name
<1> PICK p : p = plans[u]
  OBVIOUS
<1>1. PlanTyped(p) /\ p \in Plans /\ NameTypes /\ name' = Named!Written(p) /\ brought + Len(p.insert) <= MaxSamples
  BY PlanOfSave
<1>2. DOMAIN p.new \subseteq 1 .. brought /\ brought \in Nat
  <2>1. MaxSamples \in Nat
    BY DEF Named!NamesAssumption
  <2> QED
    BY <1>1, <2>1 DEF PlanTyped, NameTypes
<1>3. ASSUME NEW i \in Named!Ids
      PROVE  /\ i \in DOMAIN p.heir => name'[i] = Named!Missing
             /\ i \in DOMAIN p.new => name'[i] = p.new[i]
             /\ i \in Named!NewIds(p) => name'[i] = p.insert[i - brought]
             /\ i \notin DOMAIN p.heir /\ i \notin DOMAIN p.new /\ i \notin Named!NewIds(p) => name'[i] = name[i]
  <2>1. i \in Named!NewIds(p) => i \notin DOMAIN p.new /\ i \notin DOMAIN p.heir
    <3>1. i \in Named!NewIds(p) => i > brought /\ i \in Int
      BY <1>1, NewSamples DEF Named!Ids
    <3>2. \A k \in 1 .. brought : k <= brought
      BY <1>2
    <3> QED
      BY <1>1, <1>2, <3>1, <3>2 DEF PlanTyped
  <2>2. i \in DOMAIN p.heir => i \notin DOMAIN p.new
    BY <1>1 DEF PlanTyped
  <2>3. name'[i] = CASE i \in DOMAIN p.heir -> Named!Missing
                     [] i \in DOMAIN p.new -> p.new[i]
                     [] i \in Named!NewIds(p) -> p.insert[i - brought]
                     [] OTHER -> name[i]
    BY <1>1 DEF Named!Written
  <2> QED
    BY <2>1, <2>2, <2>3
<1>4. \A i \in Named!NewIds(p) : i \notin DOMAIN p.new /\ i - brought \in DOMAIN p.insert /\ i = brought + (i - brought)
  <2>1. \A i \in Named!NewIds(p) : i > brought /\ i \in Int /\ i - brought \in DOMAIN p.insert
    BY <1>1, <1>2, NewSamples
  <2> QED
    BY <1>2, <2>1
<1>5. name' \in [Named!Ids -> NameSet \cup {Named!Missing}]
  <2>1. ASSUME NEW i \in Named!Ids
        PROVE  name'[i] \in NameSet \cup {Named!Missing}
    <3>1. name[i] \in NameSet \cup {Named!Missing}
      BY <1>1 DEF NameTypes
    <3> QED
      BY <1>1, <1>3, <1>4, <3>1, PlanParts
  <2>2. name' = [i \in Named!Ids |-> name'[i]]
    BY <1>1 DEF Named!Written
  <2> QED
    BY <2>1, <2>2
<1>6. \A f \in DOMAIN p.heir : name'[f] = Named!Missing
  BY <1>1, <1>3, PlanParts
<1>7. ASSUME NEW i \in Named!Samples'
      PROVE  /\ i \in Named!Ids /\ name'[i] # Named!Missing /\ i \notin DOMAIN p.heir
             /\ \/ i \in DOMAIN p.new /\ name'[i] = p.new[i]
                \/ \E k \in DOMAIN p.insert : i = brought + k /\ i \in Named!NewIds(p) /\ name'[i] = p.insert[k]
                \/ i \in Named!Samples /\ i \notin DOMAIN p.new /\ i \notin Named!NewIds(p) /\ name'[i] = name[i]
  <2>1. i \in Named!Ids /\ name'[i] # Named!Missing
    BY DEF Named!Samples
  <2>2. i \notin DOMAIN p.heir
    BY <1>6, <2>1
  <2>3. CASE i \in DOMAIN p.new
    BY <1>3, <2>1, <2>2, <2>3
  <2>4. CASE i \notin DOMAIN p.new /\ i \in Named!NewIds(p)
    BY <1>3, <1>4, <2>1, <2>2, <2>4
  <2>5. CASE i \notin DOMAIN p.new /\ i \notin Named!NewIds(p)
    BY <1>3, <2>1, <2>2, <2>5 DEF Named!Samples
  <2> QED
    BY <2>1, <2>2, <2>3, <2>4, <2>5
<1>8. ASSUME p.insert # <<>>, DOMAIN p.heir = {}, DOMAIN p.new = {}
      PROVE  name' # name
  <2>1. 1 \in DOMAIN p.insert
    <3>1. p.insert \in Seq(NameSet)
      BY <1>1 DEF Plans
    <3> QED
      BY <1>8, <3>1, EmptySeq
  <2>2. PICK m : m = brought + 1
    OBVIOUS
  <2>3. m \in Named!NewIds(p) /\ m \in Named!Ids /\ m - brought = 1 /\ m > brought
    BY <1>1, <1>2, <2>1, <2>2, NewSamples
  <2>4. name'[m] = p.insert[1]
    BY <1>3, <2>3
  <2>5. p.insert[1] \in NameSet /\ Named!Missing \notin NameSet
    BY <1>1, <2>1, PlanParts, SampleFacts
  <2>6. m \notin Named!Samples
    BY <1>1, <1>2, <2>3, SampleFacts
  <2>7. name[m] = Named!Missing
    BY <2>3, <2>6 DEF Named!Samples
  <2> QED
    BY <2>4, <2>5, <2>7
<1> QED
  BY <1>5, <1>6, <1>7, <1>8

(* Names remain unique.                                                    *)
LEMMA SaveKeepsUnique ==
  ASSUME Named!NamesAssumption, NameInv, NEW u \in Namers, Named!Save(u),
         NEW i \in Named!Samples', NEW j \in Named!Samples', name'[i] = name'[j]
  PROVE  i = j
<1> PICK p : p = plans[u]
  OBVIOUS
<1> DEFINE Renamed(k) == k \in DOMAIN p.new /\ name'[k] = p.new[k]
           Added(k) == \E l \in DOMAIN p.insert : k = brought + l /\ name'[k] = p.insert[l]
           Same(k) == k \in Named!Samples /\ k \notin DOMAIN p.new /\ name'[k] = name[k]
<1>1. (Renamed(i) \/ Added(i) \/ Same(i)) /\ (Renamed(j) \/ Added(j) \/ Same(j))
  BY NamesWritten
<1>2. /\ \A k, l \in DOMAIN p.new : p.new[k] = p.new[l] => k = l
      /\ \A k, l \in DOMAIN p.insert : p.insert[k] = p.insert[l] => k = l
      /\ \A k \in DOMAIN p.insert, l \in DOMAIN p.new : p.insert[k] # p.new[l]
  BY PlanOfSave DEF PlanTyped
<1>3. /\ \A k, l \in Named!Samples : name[k] = name[l] => k = l
      /\ \A k \in Named!Samples : /\ \A l \in DOMAIN p.new : l = k \/ p.new[l] # name[k]
                                  /\ \A l \in DOMAIN p.insert : p.insert[l] # name[k]
  BY PlanOfSave DEF NameTypes, Named!Conflicts, Named!Range
<1>4. ASSUME NEW k, NEW l, Renamed(k), Same(l), name'[k] = name'[l]
      PROVE  FALSE
  BY <1>3, <1>4
<1>5. ASSUME NEW k, NEW l, Added(k), Same(l), name'[k] = name'[l]
      PROVE  FALSE
  BY <1>3, <1>5
<1>6. ASSUME NEW k, NEW l, Added(k), Renamed(l), name'[k] = name'[l]
      PROVE  FALSE
  BY <1>2, <1>6
<1>7. CASE Renamed(i) /\ Renamed(j)
  BY <1>2, <1>7
<1>8. CASE Added(i) /\ Added(j)
  BY <1>2, <1>8
<1>9. CASE Same(i) /\ Same(j)
  BY <1>3, <1>9
<1> HIDE DEF Renamed, Added, Same
<1> QED
  BY <1>1, <1>4, <1>5, <1>6, <1>7, <1>8, <1>9

LEMMA SaveTypes ==
  ASSUME Named!NamesAssumption, NameInv, NEW u \in Namers, Named!Save(u)
  PROVE  NameTypes'
<1> PICK p : p = plans[u]
  OBVIOUS
<1>1. /\ PlanTyped(p) /\ p \in Plans /\ NameTypes /\ brought + Len(p.insert) <= MaxSamples
      /\ brought' = brought + Len(p.insert) /\ aliases' = Named!Aliased(p) /\ plans' = [plans EXCEPT ![u] = Named!Idle]
  BY PlanOfSave
<1>2. MaxSamples \in Nat /\ MaxNamings \in Nat
  BY DEF Named!NamesAssumption
<1>3. brought \in Nat /\ brought' \in 0 .. MaxSamples /\ brought' >= brought
  <2>1. Len(p.insert) \in Nat
    BY <1>1, PlanParts
  <2>2. brought \in Nat
    BY <1>1, <1>2 DEF NameTypes
  <2> QED
    BY <1>1, <1>2, <2>1, <2>2
<1>4. name' \in [Named!Ids -> NameSet \cup {Named!Missing}]
  BY NamesWritten
<1>5. Named!NewIds(p) \subseteq Named!Ids
  BY <1>1, NewSamples
<1>6. aliases' \in SUBSET (NameSet \X Named!Ids)
  <2>1. \A a \in aliases : a[1] \in NameSet /\ a[2] \in Named!Ids
    BY <1>1 DEF NameTypes
  <2>2. \A a \in aliases : (IF a[2] \in DOMAIN p.heir THEN p.heir[a[2]] ELSE a[2]) \in Named!Ids
    BY <1>1, <2>1, PlanParts
  <2>3. p.alias \subseteq NameSet \X Named!Ids /\ p.label \X Named!NewIds(p) \subseteq NameSet \X Named!Ids
    BY <1>1, <1>5, PlanParts
  <2> QED
    BY <1>1, <2>1, <2>2, <2>3 DEF Named!Aliased
<1>7. plans' \in [Namers -> Plans \cup {Named!Idle}] /\ begun' \in 0 .. MaxNamings
  BY <1>1 DEF NameTypes, Named!Save
<1>8. bore' \in [Named!Ids -> SUBSET NameSet]
  <2>1. bore' = [i \in Named!Ids |-> bore[i]
                   \cup {n \in {name'[i]} : n # Named!Missing}
                   \cup {n \in p.label : i \in Named!NewIds(p)}
                   \cup UNION {bore[j] : j \in {k \in DOMAIN p.heir : p.heir[k] = i}}]
    BY DEF Named!Save
  <2>2. \A i \in Named!Ids : bore[i] \in SUBSET NameSet /\ name'[i] \in NameSet \cup {Named!Missing}
    BY <1>1, <1>4 DEF NameTypes
  <2>3. \A k \in DOMAIN p.heir : k \in Named!Ids
    BY <1>1, PlanParts
  <2>4. p.label \subseteq NameSet
    BY <1>1, PlanParts
  <2> QED
    BY <2>1, <2>2, <2>3, <2>4
<1>9. kept' \in [Named!Ids -> SUBSET (NameSet \cup {Named!Missing})]
  <2>1. kept' = [i \in Named!Ids |-> kept[i]
                   \cup {n \in {name[i]} : i \in p.keep /\ n # name'[i] /\ n # Named!Missing}
                   \cup UNION {kept[j] \cup {name[j]} : j \in {k \in DOMAIN p.heir : p.heir[k] = i}}]
    BY DEF Named!Save
  <2>2. \A i \in Named!Ids : kept[i] \in SUBSET (NameSet \cup {Named!Missing}) /\ name[i] \in NameSet \cup {Named!Missing}
    BY <1>1 DEF NameTypes
  <2>3. \A k \in DOMAIN p.heir : k \in Named!Ids
    BY <1>1, PlanParts
  <2> QED
    BY <2>1, <2>2, <2>3
<1>10. torn' \in SUBSET Named!Ids
  <2>1. torn' = torn \cup {i \in DOMAIN p.row : p.row[i] # name[i]}
                     \cup {p.heir[i] : i \in {j \in DOMAIN p.heir : j \in torn \/ <<name[j], p.heir[j]>> \notin p.alias}}
    BY DEF Named!Save
  <2>2. torn \in SUBSET Named!Ids
    BY <1>1 DEF NameTypes
  <2> QED
    BY <1>1, <2>1, <2>2, PlanParts
<1>11. arisen' \in [Namers -> SUBSET NameSet]
  <2>1. arisen' = [v \in Namers |-> IF plans[v] = Named!Idle \/ v = u THEN {}
                     ELSE arisen[v] \cup (Named!Taken(name', aliases') \ Named!Taken(name, aliases))]
    BY DEF Named!Save
  <2>2. Named!Taken(name', aliases') \subseteq NameSet
    BY <1>4, <1>6 DEF Named!Taken
  <2>3. \A v \in Namers : arisen[v] \in SUBSET NameSet
    BY <1>1 DEF NameTypes
  <2> HIDE DEF Named!Taken
  <2> QED
    BY <2>1, <2>2, <2>3
<1>12. claimed' \in [Namers -> SUBSET (NameSet \cup {Named!Missing})]
  <2>1. claimed' = [v \in Namers |-> IF plans[v] = Named!Idle \/ v = u THEN {}
                     ELSE claimed[v] \cup (Named!Range(name') \ Named!Range(name))]
    BY DEF Named!Save
  <2>2. Named!Range(name') \subseteq NameSet \cup {Named!Missing}
    BY <1>4 DEF Named!Range
  <2>3. \A v \in Namers : claimed[v] \in SUBSET (NameSet \cup {Named!Missing})
    BY <1>1 DEF NameTypes
  <2> QED
    BY <2>1, <2>2, <2>3
<1>13. ASSUME NEW i \in Named!Samples'
       PROVE  i <= brought'
  <2>1. i \in Named!Ids /\ \/ i \in DOMAIN p.new
                           \/ i \in Named!NewIds(p)
                           \/ i \in Named!Samples
    BY NamesWritten
  <2>2. CASE i \in DOMAIN p.new
    <3>1. i \in 1 .. brought
      BY <1>1, <2>2 DEF PlanTyped
    <3> QED
      BY <1>3, <3>1
  <2>3. CASE i \in Named!NewIds(p)
    <3>1. i \in brought + 1 .. brought'
      BY <1>1, <2>3, NewSamples
    <3> QED
      BY <1>3, <3>1
  <2>4. CASE i \in Named!Samples
    <3>1. i \in 1 .. brought
      BY <1>1, <2>4, SampleFacts
    <3> QED
      BY <1>3, <3>1
  <2> QED
    BY <2>1, <2>2, <2>3, <2>4
<1>14. \A i, j \in Named!Samples' : name'[i] = name'[j] => i = j
  BY SaveKeepsUnique
<1> QED
  BY <1>3, <1>4, <1>6, <1>7, <1>8, <1>9, <1>10, <1>11, <1>12, <1>13, <1>14 DEF NameTypes

LEMMA SaveHistory ==
  ASSUME Named!NamesAssumption, NameInv, NEW u \in Namers, Named!Save(u), NEW i \in Named!Ids
  PROVE  LET p == plans[u]
         IN  /\ bore[i] \subseteq bore'[i]
             /\ name'[i] # Named!Missing => name'[i] \in bore'[i]
             /\ i \in Named!NewIds(p) => p.label \subseteq bore'[i]
             /\ \A f \in DOMAIN p.heir : p.heir[f] = i => bore[f] \subseteq bore'[i]
             /\ \A n \in kept'[i] :
                  \/ n \in kept[i]
                  \/ n = name[i] /\ i \in p.keep
                  \/ \E f \in DOMAIN p.heir : p.heir[f] = i /\ n \in kept[f] \cup {name[f]}
             /\ torn \subseteq torn'
             /\ i \in DOMAIN p.row /\ p.row[i] # name[i] => i \in torn'
             /\ \A f \in DOMAIN p.heir : p.heir[f] = i /\ i \notin torn' => f \notin torn /\ <<name[f], i>> \in p.alias
             /\ dropped' = dropped \cup p.unalias
<1> DEFINE p == plans[u]
<1>1. bore'[i] = bore[i] \cup {n \in {name'[i]} : n # Named!Missing}
                   \cup {n \in p.label : i \in Named!NewIds(p)}
                   \cup UNION {bore[j] : j \in {k \in DOMAIN p.heir : p.heir[k] = i}}
  BY DEF Named!Save
<1>2. kept'[i] = kept[i] \cup {n \in {name[i]} : i \in p.keep /\ n # name'[i] /\ n # Named!Missing}
                   \cup UNION {kept[j] \cup {name[j]} : j \in {k \in DOMAIN p.heir : p.heir[k] = i}}
  BY DEF Named!Save
<1>3. torn' = torn \cup {k \in DOMAIN p.row : p.row[k] # name[k]}
                   \cup {p.heir[k] : k \in {j \in DOMAIN p.heir : j \in torn \/ <<name[j], p.heir[j]>> \notin p.alias}}
  BY DEF Named!Save
<1>4. dropped' = dropped \cup p.unalias
  BY DEF Named!Save
<1> HIDE DEF p
<1>5. /\ bore[i] \subseteq bore'[i]
      /\ name'[i] # Named!Missing => name'[i] \in bore'[i]
      /\ i \in Named!NewIds(p) => p.label \subseteq bore'[i]
      /\ \A f \in DOMAIN p.heir : p.heir[f] = i => bore[f] \subseteq bore'[i]
  BY <1>1
<1>6. \A n \in kept'[i] :
        \/ n \in kept[i]
        \/ n = name[i] /\ i \in p.keep
        \/ \E f \in DOMAIN p.heir : p.heir[f] = i /\ n \in kept[f] \cup {name[f]}
  BY <1>2
<1>7. /\ torn \subseteq torn'
      /\ i \in DOMAIN p.row /\ p.row[i] # name[i] => i \in torn'
      /\ \A f \in DOMAIN p.heir : p.heir[f] = i /\ i \notin torn' => f \notin torn /\ <<name[f], i>> \in p.alias
  BY <1>3
<1> QED
  BY <1>4, <1>5, <1>6, <1>7 DEF p

(* Where the aliases of afterwards come from, and where those of before go. *)
LEMMA AliasesWritten ==
  ASSUME Named!NamesAssumption, NameInv, NEW u \in Namers, Named!Save(u)
  PROVE  LET p == plans[u]
         IN  /\ \A a \in aliases' :
                  \/ \E b \in aliases : /\ a[1] = b[1] /\ b[1] \notin p.unalias
                                        /\ \/ b[2] \notin DOMAIN p.heir /\ a[2] = b[2]
                                           \/ b[2] \in DOMAIN p.heir /\ a[2] = p.heir[b[2]]
                  \/ a \in p.alias
                  \/ a[1] \in p.label /\ a[2] \in Named!NewIds(p)
             /\ \A b \in aliases : b[1] \notin p.unalias =>
                  /\ b[2] \notin DOMAIN p.heir => b \in aliases'
                  /\ b[2] \in DOMAIN p.heir => <<b[1], p.heir[b[2]]>> \in aliases'
             /\ p.alias \subseteq aliases'
<1> DEFINE p == plans[u]
           To(b) == IF b[2] \in DOMAIN p.heir THEN p.heir[b[2]] ELSE b[2]
<1>1. aliases' = {<<b[1], To(b)>> : b \in {c \in aliases : c[1] \notin p.unalias}}
                   \cup p.alias \cup (p.label \X Named!NewIds(p))
  BY DEF Named!Save, Named!Aliased
<1>2. \A b \in aliases : b = <<b[1], b[2]>>
  BY PlanOfSave DEF NameTypes
<1> HIDE DEF p
<1>3. ASSUME NEW a \in aliases'
      PROVE  \/ \E b \in aliases : /\ a[1] = b[1] /\ b[1] \notin p.unalias
                                   /\ \/ b[2] \notin DOMAIN p.heir /\ a[2] = b[2]
                                      \/ b[2] \in DOMAIN p.heir /\ a[2] = p.heir[b[2]]
             \/ a \in p.alias
             \/ a[1] \in p.label /\ a[2] \in Named!NewIds(p)
  <2>1. CASE a \in p.alias
    BY <2>1
  <2>2. CASE a \in p.label \X Named!NewIds(p)
    BY <2>2
  <2>3. ASSUME NEW b \in aliases, b[1] \notin p.unalias, a = <<b[1], To(b)>>
        PROVE  \E c \in aliases : /\ a[1] = c[1] /\ c[1] \notin p.unalias
                                  /\ \/ c[2] \notin DOMAIN p.heir /\ a[2] = c[2]
                                     \/ c[2] \in DOMAIN p.heir /\ a[2] = p.heir[c[2]]
    <3>1. a[1] = b[1] /\ a[2] = To(b)
      BY <2>3
    <3> QED
      BY <2>3, <3>1
  <2> QED
    BY <1>1, <1>3, <2>1, <2>2, <2>3
<1>4. ASSUME NEW b \in aliases, b[1] \notin p.unalias
      PROVE  /\ b[2] \notin DOMAIN p.heir => b \in aliases'
             /\ b[2] \in DOMAIN p.heir => <<b[1], p.heir[b[2]]>> \in aliases'
  <2>1. <<b[1], To(b)>> \in aliases'
    BY <1>1, <1>4
  <2> QED
    BY <1>2, <2>1
<1>5. p.alias \subseteq aliases'
  BY <1>1
<1> HIDE DEF To
<1> QED
  BY <1>3, <1>4, <1>5 DEF p

LEMMA SaveRemembers ==
  ASSUME Named!NamesAssumption, NameInv, NEW u \in Namers, Named!Save(u)
  PROVE  Remembered'
<1> PICK p : p = plans[u]
  OBVIOUS
<1>1. /\ PlanTyped(p) /\ PlanKnown(p) /\ p \in Plans /\ NameTypes /\ brought + Len(p.insert) <= MaxSamples
      /\ brought' = brought + Len(p.insert)
  BY PlanOfSave
<1>2. /\ \A i \in Named!Samples : name[i] \in bore[i]
      /\ \A a \in aliases : a[1] \in bore[a[2]]
      /\ \A i \in Named!Samples \ torn : \A n \in kept[i] : <<n, i>> \in aliases \/ n \in dropped
      /\ \A i \in Named!Ids : i > brought => kept[i] = {}
  BY DEF NameInv, Remembered
<1>3. \A i \in Named!Samples' : name'[i] \in bore'[i]
  BY SaveHistory, NamesWritten
<1>4. ASSUME NEW a \in aliases'
      PROVE  a[1] \in bore'[a[2]]
  <2>1. ASSUME NEW b \in aliases, a[1] = b[1], b[2] \notin DOMAIN p.heir /\ a[2] = b[2]
        PROVE  a[1] \in bore'[a[2]]
    <3>1. b[2] \in Named!Ids
      BY <1>1 DEF NameTypes
    <3> QED
      BY <1>2, <2>1, <3>1, SaveHistory
  <2>2. ASSUME NEW b \in aliases, a[1] = b[1], b[2] \in DOMAIN p.heir /\ a[2] = p.heir[b[2]]
        PROVE  a[1] \in bore'[a[2]]
    <3>1. a[2] \in Named!Ids
      BY <1>1, <2>2, PlanParts
    <3>2. bore[b[2]] \subseteq bore'[a[2]]
      BY <2>2, <3>1, SaveHistory
    <3> QED
      BY <1>2, <2>2, <3>2
  <2>3. CASE a \in p.alias
    <3>1. a[2] \in Named!Ids
      BY <1>1, <2>3, PlanParts
    <3>2. \/ a[2] \in DOMAIN p.row /\ a[1] = p.row[a[2]]
          \/ \E f \in DOMAIN p.heir : p.heir[f] = a[2] /\ a[1] \in bore[f]
      BY <1>1, <2>3 DEF PlanKnown
    <3>3. CASE a[2] \in DOMAIN p.row /\ a[1] = p.row[a[2]]
      <4>1. a[1] \in bore[a[2]]
        BY <1>1, <3>3 DEF PlanKnown
      <4> QED
        BY <3>1, <4>1, SaveHistory
    <3>4. CASE \E f \in DOMAIN p.heir : p.heir[f] = a[2] /\ a[1] \in bore[f]
      BY <3>1, <3>4, SaveHistory
    <3> QED
      BY <3>2, <3>3, <3>4
  <2>4. CASE a[1] \in p.label /\ a[2] \in Named!NewIds(p)
    <3>1. a[2] \in Named!Ids
      BY <1>1, <2>4, NewSamples
    <3> QED
      BY <2>4, <3>1, SaveHistory
  <2> QED
    BY <2>1, <2>2, <2>3, <2>4, AliasesWritten
<1>5. ASSUME NEW i \in Named!Samples' \ torn', NEW n \in kept'[i]
      PROVE  <<n, i>> \in aliases' \/ n \in dropped'
  <2>1. /\ i \in Named!Ids /\ i \notin DOMAIN p.heir /\ name'[i] # Named!Missing
        /\ \/ i \in DOMAIN p.new
           \/ i \in Named!NewIds(p)
           \/ i \in Named!Samples
    BY NamesWritten
  <2>2. /\ i \notin torn /\ (i \in DOMAIN p.row => p.row[i] = name[i])
        /\ \A f \in DOMAIN p.heir : p.heir[f] = i => f \notin torn /\ <<name[f], i>> \in p.alias
        /\ dropped' = dropped \cup p.unalias
    BY <2>1, SaveHistory
  <2>3. CASE n \in kept[i]
    <3>1. i \in Named!Samples
      <4>1. CASE i \in DOMAIN p.new
        <5>1. i \in DOMAIN p.row /\ p.row[i] \in NameSet
          BY <1>1, <4>1, PlanParts DEF PlanTyped
        <5>2. name[i] # Named!Missing
          BY <1>1, <2>2, <5>1, SampleFacts
        <5> QED
          BY <2>1, <5>2 DEF Named!Samples
      <4>2. CASE i \in Named!NewIds(p)
        <5>1. i > brought
          BY <1>1, <4>2, NewSamples
        <5> QED
          BY <1>2, <2>1, <2>3, <5>1
      <4> QED
        BY <2>1, <4>1, <4>2
    <3>2. <<n, i>> \in aliases \/ n \in dropped
      BY <1>2, <2>2, <2>3, <3>1
    <3>3. ASSUME <<n, i>> \in aliases, n \notin p.unalias
          PROVE  <<n, i>> \in aliases'
      <4>1. <<n, i>>[1] = n /\ <<n, i>>[2] = i
        OBVIOUS
      <4> QED
        BY <2>1, <3>3, <4>1, AliasesWritten
    <3> QED
      BY <2>2, <3>2, <3>3
  <2>4. CASE n = name[i] /\ i \in p.keep
    <3>1. i \in DOMAIN p.row /\ <<p.row[i], i>> \in p.alias
      BY <1>1, <2>4 DEF PlanTyped, PlanKnown
    <3> QED
      BY <2>2, <2>4, <3>1, AliasesWritten
  <2>5. ASSUME NEW f \in DOMAIN p.heir, p.heir[f] = i, n \in kept[f] \cup {name[f]}
        PROVE  <<n, i>> \in aliases' \/ n \in dropped'
    <3>1. f \notin torn /\ <<name[f], i>> \in p.alias /\ f \in Named!Ids
      BY <1>1, <2>2, <2>5, PlanParts
    <3>2. CASE n = name[f]
      BY <3>1, <3>2, AliasesWritten
    <3>3. CASE n \in kept[f]
      <4>1. name[f] \in NameSet
        BY <1>1, <3>1, PlanParts
      <4>2. f \in Named!Samples
        BY <1>1, <3>1, <4>1, SampleFacts DEF Named!Samples
      <4>3. <<n, f>> \in aliases \/ n \in dropped
        BY <1>2, <3>1, <3>3, <4>2
      <4>4. ASSUME <<n, f>> \in aliases, n \notin p.unalias
            PROVE  <<n, i>> \in aliases'
        <5>1. <<n, f>>[1] = n /\ <<n, f>>[2] = f
          OBVIOUS
        <5> QED
          BY <2>5, <4>4, <5>1, AliasesWritten
      <4> QED
        BY <2>2, <4>3, <4>4
    <3> QED
      BY <2>5, <3>2, <3>3
  <2> QED
    BY <2>1, <2>3, <2>4, <2>5, SaveHistory
<1>6. ASSUME NEW i \in Named!Ids, i > brought'
      PROVE  kept'[i] = {}
  <2>1. MaxSamples \in Nat
    BY DEF Named!NamesAssumption
  <2>2. Len(p.insert) \in Nat /\ brought \in Nat /\ i \in Int
    BY <1>1, <2>1, PlanParts DEF NameTypes, Named!Ids
  <2>3. i > brought
    BY <1>1, <1>6, <2>2
  <2>4. i \notin p.keep /\ \A f \in DOMAIN p.heir : p.heir[f] # i
    <3>1. p.keep \subseteq 1 .. brought
      BY <1>1 DEF PlanTyped
    <3>2. \A f \in DOMAIN p.heir : p.heir[f] <= brought
      BY <1>1 DEF PlanTyped
    <3> QED
      BY <2>2, <2>3, <3>1, <3>2
  <2> QED
    BY <1>2, <2>3, <2>4, SaveHistory
<1> QED
  BY <1>3, <1>4, <1>5, <1>6 DEF Remembered

(* The plans of others know of the names that are taken by now.            *)
LEMMA SaveLeavesPlans ==
  ASSUME Named!NamesAssumption, NameInv, NEW u \in Namers, Named!Save(u), NEW v \in Namers
  PROVE  PlanSound(v)'
<1>1. NameTypes /\ brought' = brought + Len(plans[u].insert) /\ plans' = [plans EXCEPT ![u] = Named!Idle] /\ plans[u] \in Plans
  BY PlanOfSave
<1>2. CASE v = u
  <2>1. plans'[v] = Named!Idle
    BY <1>1, <1>2 DEF NameTypes
  <2> QED
    BY <2>1 DEF PlanSound
<1>3. CASE v # u /\ plans[v] = Named!Idle
  <2>1. plans'[v] = Named!Idle
    BY <1>1, <1>3 DEF NameTypes
  <2> QED
    BY <2>1 DEF PlanSound
<1>4. CASE v # u /\ plans[v] # Named!Idle
  <2> PICK p : p = plans[v]
    OBVIOUS
  <2>1. plans'[v] = p
    BY <1>1, <1>4 DEF NameTypes
  <2>2. PlanTyped(p) /\ PlanKnown(p) /\ PlanAgain(p) /\ PlanChecked(v, p) /\ PlanRivalled(v, p) /\ p \in Plans
    BY <1>4 DEF NameInv, PlanSound, PlanTyped
  <2>3. brought \in Nat /\ brought' \in Nat /\ brought <= brought'
    <3>1. MaxSamples \in Nat
      BY DEF Named!NamesAssumption
    <3>2. Len(plans[u].insert) \in Nat
      BY <1>1, PlanParts
    <3>3. brought \in Nat
      BY <1>1, <3>1 DEF NameTypes
    <3> QED
      BY <1>1, <3>2, <3>3
  <2>4. \A i \in Named!Ids : bore[i] \subseteq bore'[i]
    BY SaveHistory
  <2>5. \A n : Checked(v, n) => Checked(v, n)'
    <3>1. arisen' = [w \in Namers |-> IF plans[w] = Named!Idle \/ w = u THEN {}
                       ELSE arisen[w] \cup (Named!Taken(name', aliases') \ Named!Taken(name, aliases))]
      BY DEF Named!Save
    <3>2. arisen'[v] = arisen[v] \cup (Named!Taken(name', aliases') \ Named!Taken(name, aliases))
      BY <1>4, <3>1
    <3>3. ASSUME NEW n, Checked(v, n)
          PROVE  n \in arisen'[v] \/ n \notin Named!Taken(name', aliases')
      BY <3>2, <3>3 DEF Checked
    <3> QED
      BY <3>3 DEF Checked
  <2>6. PlanTyped(p)'
    <3>1. 1 .. brought \subseteq 1 .. brought'
      BY <2>3
    <3>2. \A f \in DOMAIN p.heir : p.heir[f] \in Named!Ids /\ p.heir[f] <= brought
      BY <2>2, PlanParts DEF PlanTyped
    <3>3. \A f \in DOMAIN p.heir : p.heir[f] <= brought'
      BY <2>3, <3>2 DEF Named!Ids
    <3>4. DOMAIN p.new \subseteq 1 .. brought' /\ DOMAIN p.heir \subseteq 1 .. brought'
      BY <2>2, <3>1 DEF PlanTyped
    <3> QED
      BY <2>2, <3>3, <3>4 DEF PlanTyped
  <2>7. PlanKnown(p)'
    <3>1. \A i \in DOMAIN p.row : p.row[i] \in bore'[i]
      BY <2>2, <2>4, PlanParts DEF PlanKnown
    <3>2. ASSUME NEW a \in p.alias
          PROVE  \/ a[2] \in DOMAIN p.row /\ a[1] = p.row[a[2]] /\ DOMAIN p.heir = {}
                 \/ \E f \in DOMAIN p.heir : p.heir[f] = a[2] /\ a[1] \in bore'[f] /\ p.alias = {a}
      <4>1. \/ a[2] \in DOMAIN p.row /\ a[1] = p.row[a[2]] /\ DOMAIN p.heir = {}
            \/ \E f \in DOMAIN p.heir : p.heir[f] = a[2] /\ a[1] \in bore[f] /\ p.alias = {a}
        BY <2>2 DEF PlanKnown
      <4>2. \A f \in DOMAIN p.heir : bore[f] \subseteq bore'[f]
        BY <2>2, <2>4, PlanParts
      <4> QED
        BY <4>1, <4>2
    <3> QED
      BY <2>2, <3>1, <3>2 DEF PlanKnown
  <2>8. PlanAgain(p)'
    BY <2>2 DEF PlanAgain
  <2>9. PlanChecked(v, p)'
    BY <2>2, <2>5 DEF PlanChecked
  <2>10. PlanRivalled(v, p)'
    <3> SUFFICES ASSUME p.stem # ""
                 PROVE  PlanRivalled(v, p)'
      BY DEF PlanRivalled
    <3>1. claimed' = [w \in Namers |-> IF plans[w] = Named!Idle \/ w = u THEN {}
                       ELSE claimed[w] \cup (Named!Range(name') \ Named!Range(name))]
      BY DEF Named!Save
    <3>2. claimed'[v] = claimed[v] \cup (Named!Range(name') \ Named!Range(name))
      BY <1>4, <3>1
    <3>3. Adds(p) /\ \A i \in Named!Samples : name[i] \in Named!Range(p.insert) => name[i] \in claimed[v]
      BY <2>2 DEF PlanRivalled
    <3>4. ASSUME NEW i \in Named!Samples', name'[i] \in Named!Range(p.insert)
          PROVE  name'[i] \in claimed'[v]
      <4>1. name' \in [Named!Ids -> NameSet \cup {Named!Missing}] /\ i \in Named!Ids
        BY SaveTypes DEF NameTypes, Named!Samples
      <4>2. name'[i] \in Named!Range(name') /\ name'[i] # Named!Missing
        BY <4>1 DEF Named!Range, Named!Samples
      <4>3. CASE name'[i] \in Named!Range(name)
        <5>1. PICK j \in Named!Ids : name[j] = name'[i]
          BY <1>1, <4>3 DEF NameTypes, Named!Range
        <5>2. j \in Named!Samples
          BY <4>2, <5>1 DEF Named!Samples
        <5> QED
          BY <3>2, <3>3, <3>4, <5>1, <5>2
      <4>4. CASE name'[i] \notin Named!Range(name)
        BY <3>2, <4>2, <4>4
      <4> QED
        BY <4>3, <4>4
    <3> QED
      BY <3>3, <3>4 DEF PlanRivalled, Adds
  <2> QED
    <3>1. PlanTyped(plans[v])' /\ PlanKnown(plans[v])' /\ PlanAgain(plans[v])'
      BY <2>1, <2>6, <2>7, <2>8 DEF PlanTyped, PlanKnown, PlanAgain
    <3>2. PlanChecked(v, plans[v])'
      BY <2>1, <2>9 DEF PlanChecked
    <3>3. PlanRivalled(v, plans[v])'
      BY <2>1, <2>10 DEF PlanRivalled, Adds
    <3> QED
      BY <3>1, <3>2, <3>3 DEF PlanSound
<1> QED
  BY <1>2, <1>3, <1>4

LEMMA SaveKeeps ==
  ASSUME Named!NamesAssumption, NameInv, NEW u \in Namers, Named!Save(u)
  PROVE  NameInv'
BY SaveTypes, SaveRemembers, SaveLeavesPlans DEF NameInv

-----------------------------------------------------------------------------
LEMMA ServeKeeps ==
  ASSUME Named!NamesAssumption, NameInv, NEW u \in Namers, Named!Serve(u)
  PROVE  NameInv' /\ \/ plans'[u].stem = ""
                     \/ \E n \in 1 .. 2, stem \in Cleaning \cup {"*"} :
                          plans'[u].insert = Named!Block(stem, n) /\ plans'[u].stem = stem
BY AddKeeps, BulkRenameKeeps, RenameKeeps, EditKeeps, SplitKeeps, SplitAfterDepositionKeeps, JsonAddKeeps,
   MergeKeeps DEF Named!Serve

LEMMA NamesBegin ==
  ASSUME Named!NamesAssumption, Named!Init
  PROVE  NameInv
<1>1. PICK names \in Founders :
        /\ name = [i \in Named!Ids |-> IF i \in DOMAIN names THEN names[i] ELSE Named!Missing]
        /\ brought = Len(names)
  BY DEF Named!Init
<1>2. /\ aliases = {} /\ plans = [v \in Namers |-> Named!Idle] /\ begun = 0
      /\ bore = [i \in Named!Ids |-> {name[i]} \ {Named!Missing}] /\ kept = [i \in Named!Ids |-> {}] /\ torn = {}
      /\ arisen = [v \in Namers |-> {}] /\ claimed = [v \in Namers |-> {}]
  BY DEF Named!Init
<1>3. /\ DOMAIN names = 1 .. Len(names) /\ Len(names) \in 0 .. MaxSamples
      /\ \A i \in DOMAIN names : Named!IsName(names[i])
      /\ \A i, j \in DOMAIN names : names[i] = names[j] => i = j
  BY <1>1 DEF Named!NamesAssumption
<1>4. MaxSamples \in Nat /\ MaxNamings \in Nat
  BY DEF Named!NamesAssumption
<1>5. DOMAIN names = 1 .. Len(names) /\ Len(names) \in Nat /\ \A i \in DOMAIN names : names[i] \in NameSet
  BY <1>3, NamesInSet
<1>6. name \in [Named!Ids -> NameSet \cup {Named!Missing}] /\ \A i \in Named!Samples : i \in DOMAIN names /\ name[i] = names[i]
  BY <1>1, <1>5 DEF Named!Samples
<1>7. brought \in 0 .. MaxSamples
  BY <1>1, <1>3, <1>4, <1>5
<1>8. NameTypes
  <2>1. bore \in [Named!Ids -> SUBSET NameSet]
    BY <1>2, <1>6
  <2>2. kept \in [Named!Ids -> SUBSET (NameSet \cup {Named!Missing})] /\ begun \in 0 .. MaxNamings
    BY <1>2, <1>4
  <2>3. ASSUME NEW i \in Named!Samples
        PROVE  i <= brought
    <3>1. i \in 1 .. Len(names)
      BY <1>5, <1>6
    <3> QED
      BY <1>1, <1>5, <3>1
  <2>4. \A i, j \in Named!Samples : name[i] = name[j] => i = j
    BY <1>3, <1>6
  <2>5. aliases \in SUBSET (NameSet \X Named!Ids) /\ torn \in SUBSET Named!Ids
    BY <1>2
  <2>6. plans \in [Namers -> Plans \cup {Named!Idle}] /\ arisen \in [Namers -> SUBSET NameSet]
        /\ claimed \in [Namers -> SUBSET (NameSet \cup {Named!Missing})]
    BY <1>2
  <2> QED
    BY <1>6, <1>7, <2>1, <2>2, <2>3, <2>4, <2>5, <2>6 DEF NameTypes
<1>9. Remembered
  <2>1. \A i \in Named!Samples : name[i] \in bore[i]
    BY <1>2 DEF Named!Samples
  <2>2. \A i \in Named!Ids : kept[i] = {}
    BY <1>2
  <2> QED
    BY <1>2, <2>1, <2>2 DEF Remembered, Named!Samples
<1>10. \A v \in Namers : PlanSound(v)
  BY <1>2 DEF PlanSound
<1> QED
  BY <1>8, <1>9, <1>10 DEF NameInv

LEMMA NamesGoOn ==
  ASSUME Named!NamesAssumption, NameInv, [Named!Next]_(Named!vars)
  PROVE  NameInv'
<1>1. CASE UNCHANGED Named!vars
  <2>1. UNCHANGED <<name, aliases, plans, brought, begun, bore, kept, torn, arisen, claimed, dropped>>
    BY <1>1 DEF Named!vars, Named!history
  <2>2. NameTypes'
    BY <2>1 DEF NameInv, NameTypes, Named!Samples
  <2>3. Remembered'
    BY <2>1 DEF NameInv, Remembered, Named!Samples
  <2>4. \A v \in Namers : PlanSound(v)'
    BY <2>1, OthersStaySound DEF NameInv
  <2> QED
    BY <2>2, <2>3, <2>4 DEF NameInv
<1>2. ASSUME NEW u \in Namers, Named!Save(u) \/ Named!Fail(u) \/ Named!LookAgain(u) \/ Named!Serve(u)
      PROVE  NameInv'
  BY <1>2, SaveKeeps, FailKeeps, LookAgainKeeps, ServeKeeps
<1> QED
  BY <1>1, <1>2 DEF Named!Next

-----------------------------------------------------------------------------
(* The parts of NamesLeadHome.                                             *)
LEMMA NamesLead ==
  ASSUME Named!NamesAssumption, NameInv
  PROVE  Named!TypeOK /\ Named!KeptNamesLeadHome /\ Named!FoundByItsOwnNames
<1>1. NameTypes /\ Remembered
  BY DEF NameInv
<1>2. Named!TypeOK
  <2>1. \A i \in Named!Samples : i <= brought /\ Head(name[i]) \in Stems \cup {"*"}
    BY <1>1, SampleFacts, NameFacts DEF NameTypes
  <2>2. \A a \in aliases : a[2] \in Named!Ids
    BY <1>1 DEF NameTypes
  <2>3. ASSUME NEW u \in Namers, plans[u] # Named!Idle
        PROVE  /\ DOMAIN plans[u].row = DOMAIN plans[u].new
               /\ plans[u].keep \subseteq DOMAIN plans[u].row
    BY <2>3 DEF NameInv, PlanSound, PlanTyped, Plans
  <2> QED
    BY <1>1, <2>1, <2>2, <2>3 DEF Named!TypeOK, NameTypes
<1>3. Named!KeptNamesLeadHome
  <2> SUFFICES ASSUME NEW i \in Named!Samples \ torn, NEW n \in kept[i], n \notin dropped,
                      ~\E j \in Named!Samples : name[j] = n
               PROVE  i \in Named!get_sample(n)
    BY DEF Named!KeptNamesLeadHome
  <2>1. <<n, i>> \in aliases
    BY <1>1 DEF Remembered
  <2>2. <<n, i>>[1] = n /\ <<n, i>>[2] = i
    OBVIOUS
  <2>3. i \in {a[2] : a \in {b \in aliases : b[1] = n}}
    BY <2>1, <2>2
  <2> QED
    BY <2>3 DEF Named!get_sample
<1>4. Named!FoundByItsOwnNames
  BY <1>1 DEF Named!FoundByItsOwnNames, Named!get_sample, Remembered
<1> QED
  BY <1>2, <1>3, <1>4

LEMMA OneOrTwo == \A m \in 1 .. 2 : m \in Nat \ {0}
OBVIOUS

LEMMA RequestsOnlyPlan ==
  ASSUME NEW u, Named!Serve(u)
  PROVE  name' = name /\ aliases' = aliases
<1>1. \A p : Named!Begin(u, p) => name' = name /\ aliases' = aliases
  BY DEF Named!Begin
<1> QED
  BY <1>1 DEF Named!Serve, Named!add, Named!bulk_rename, Named!rename_sample, Named!edit, Named!split,
       Named!split_after_deposition, Named!json_add_sample, Named!merge

LEMMA OthersWait ==
  ASSUME NameTypes, NEW v \in Namers, Named!Save(v) \/ Named!Fail(v) \/ Named!LookAgain(v) \/ Named!Serve(v),
         NEW w \in Namers \ {v}
  PROVE  plans'[w] = plans[w]
<1>1. \A p : plans' = [plans EXCEPT ![v] = p] => plans'[w] = plans[w]
  BY DEF NameTypes
<1>2. \A p : Named!Begin(v, p) => plans'[w] = plans[w]
  BY <1>1 DEF Named!Begin
<1>3. CASE Named!Save(v) \/ Named!Fail(v)
  BY <1>1, <1>3 DEF Named!Save, Named!Fail
<1>5. CASE Named!LookAgain(v)
  BY <1>1, <1>5 DEF Named!LookAgain
<1>6. CASE Named!Serve(v)
  BY <1>2, <1>6 DEF Named!Serve, Named!add, Named!bulk_rename, Named!rename_sample, Named!edit, Named!split,
       Named!split_after_deposition, Named!json_add_sample,
                    Named!merge
<1> QED
  BY <1>3, <1>5, <1>6

LEMMA PlansFitFirst ==
  ASSUME Named!NamesAssumption, NameInv, [Named!Next]_(Named!vars)
  PROVE  Named!FitsFirst
<1> SUFFICES ASSUME NEW u \in Namers, plans'[u] # Named!Idle, plans'[u] # plans[u], plans'[u].stem # ""
             PROVE  LET block == plans'[u].insert
                        Fits(k) == \A i \in DOMAIN block : <<plans'[u].stem, k + i - 1>> \notin Named!Range(name)
                    IN  /\ Fits(block[1][2])
                        /\ \A k \in 1 .. block[1][2] - 1 : plans'[u].stem = "*" => ~Fits(k)
  BY DEF Named!FitsFirst
<1>1. NameTypes
  BY DEF NameInv
<1>2. ~UNCHANGED Named!vars
  BY DEF Named!vars
<1>3. PICK v \in Namers : Named!Save(v) \/ Named!Fail(v) \/ Named!LookAgain(v) \/ Named!Serve(v)
  BY <1>2 DEF Named!Next
<1>4. \A w \in Namers \ {v} : plans'[w] = plans[w]
  BY <1>1, <1>3, OthersWait
<1>5. u = v
  BY <1>4
<1>6. ~Named!Save(u) /\ ~Named!Fail(u)
  BY <1>1 DEF Named!Save, Named!Fail, NameTypes
<1>7. PICK n \in Nat \ {0}, stem \in Cleaning \cup {"*"} : plans'[u].insert = Named!Block(stem, n) /\ plans'[u].stem = stem
  <2>3. CASE Named!LookAgain(u)
    BY <2>3, LookAgainKeeps
  <2>4. CASE Named!Serve(u)
    BY <2>4, OneOrTwo, ServeKeeps
  <2> QED
    BY <1>3, <1>5, <1>6, <2>3, <2>4
<1> DEFINE b == Named!Block(stem, n)
<1>8. /\ DOMAIN b = 1 .. n
      /\ \A k \in 1 .. n : b[k] = <<stem, b[1][2] + k - 1>> /\ b[k] \notin Named!Range(name)
      /\ stem = "*" => \A r \in 1 .. b[1][2] - 1 : \E k \in 1 .. n : <<"*", r + k - 1>> \in Named!Range(name)
  BY <1>1, <1>7, BlockIsFree
<1> HIDE DEF b
<1>9. \A i \in DOMAIN b : <<stem, b[1][2] + i - 1>> \notin Named!Range(name)
  BY <1>8
<1>10. \A k \in 1 .. b[1][2] - 1 : stem = "*" => \E i \in DOMAIN b : <<stem, k + i - 1>> \in Named!Range(name)
  BY <1>8
<1> QED
  BY <1>7, <1>9, <1>10 DEF b

LEMMA OnlyRivalsRefuse ==
  ASSUME Named!NamesAssumption, NameInv, [Named!Next]_(Named!vars)
  PROVE  Named!RefusedByRivals
<1> SUFFICES ASSUME NEW u \in Namers, plans[u] # Named!Idle, plans'[u] = Named!Idle, name' = name, plans[u].stem # ""
             PROVE  Named!Range(plans[u].insert) \cap claimed[u] # {}
  BY DEF Named!RefusedByRivals
<1>1. NameTypes /\ Adds(plans[u]) /\ PlanRivalled(u, plans[u])
  BY DEF NameInv, PlanSound, PlanRivalled
<1>2. ~UNCHANGED Named!vars
  BY DEF Named!vars
<1>3. PICK v \in Namers : Named!Save(v) \/ Named!Fail(v) \/ Named!LookAgain(v) \/ Named!Serve(v)
  BY <1>2 DEF Named!Next
<1>4. \A w \in Namers \ {v} : plans'[w] = plans[w]
  BY <1>1, <1>3, OthersWait
<1>5. u = v
  BY <1>4
<1>6. ~Named!Save(u)
  BY <1>1, NamesWritten DEF Adds
<1>7. ~Named!Serve(u) /\ ~Named!LookAgain(u)
  BY <1>1 DEF Named!Serve, Named!LookAgain, Adds
<1>8. Named!Conflicts(plans[u]) # {}
  BY <1>3, <1>5, <1>6, <1>7 DEF Named!Fail
<1>9. PICK i \in Named!Samples : name[i] \in Named!Range(plans[u].insert)
  BY <1>1, <1>8 DEF Named!Conflicts, Adds
<1> QED
  BY <1>1, <1>9 DEF PlanRivalled

(* A sample that a request takes a new name for has borne another one.     *)
LEMMA NoNameTaken ==
  ASSUME Named!NamesAssumption, NameInv, NEW u \in Namers, Named!Save(u),
         NEW j \in Named!Samples, NEW i \in Named!Samples', i # j, name'[i] = name[j]
  PROVE  FALSE
<1> PICK p \in Plans : p = plans[u]
  BY PlanOfSave
<1>1. Named!Conflicts(p) = {} /\ NameTypes
  BY PlanOfSave
<1>2. CASE i \in DOMAIN p.new /\ name'[i] = p.new[i]
  <2>1. j \in Named!Conflicts(p)
    BY <1>2 DEF Named!Conflicts
  <2> QED
    BY <1>1, <2>1
<1>3. CASE \E k \in DOMAIN p.insert : name'[i] = p.insert[k]
  <2>1. name[j] \in Named!Range(p.insert)
    BY <1>3 DEF Named!Range
  <2>2. j \in Named!Conflicts(p)
    BY <2>1 DEF Named!Conflicts
  <2> QED
    BY <1>1, <2>2
<1>4. CASE i \in Named!Samples /\ name'[i] = name[i]
  BY <1>1, <1>4 DEF NameTypes
<1> QED
  BY <1>2, <1>3, <1>4, NamesWritten

LEMMA SaveHidesByChance ==
  ASSUME Named!NamesAssumption, NameInv, NEW u \in Namers, Named!Save(u),
         NEW a \in aliases', NEW i \in Named!Samples', name'[i] = a[1], i # a[2], a[2] \in Named!Samples',
         ~(name[i] = a[1] /\ \E b \in aliases : b[1] = a[1] /\ b[2] \in {a[2]} \cup (Named!Ids \ Named!Samples')),
         ~Named!IsProvisional(a[1]), Head(a[1]) \notin Cleaning, i \notin torn', a[2] \notin torn'
  PROVE  a[1] \in arisen[u]
<1> PICK p \in Plans : p = plans[u]
  BY PlanOfSave
<1>1. PlanTyped(p) /\ PlanKnown(p) /\ PlanChecked(u, p) /\ NameTypes
  BY PlanOfSave
<1>2. i \in Named!Ids /\ a[2] \in Named!Ids
  BY DEF Named!Samples
<1>3. CASE \E b \in aliases : /\ a[1] = b[1] /\ b[1] \notin p.unalias
                              /\ \/ b[2] \notin DOMAIN p.heir /\ a[2] = b[2]
                                 \/ b[2] \in DOMAIN p.heir /\ a[2] = p.heir[b[2]]
  <2> PICK b \in aliases : /\ a[1] = b[1] /\ b[1] \notin p.unalias
                           /\ \/ b[2] \notin DOMAIN p.heir /\ a[2] = b[2]
                              \/ b[2] \in DOMAIN p.heir /\ a[2] = p.heir[b[2]]
    BY <1>3
  <2>1. b[2] \in {a[2]} \cup (Named!Ids \ Named!Samples')
    <3>1. CASE b[2] \in DOMAIN p.heir
      <4>1. b[2] \in Named!Ids
        BY <1>1, <3>1, PlanParts
      <4>2. b[2] \notin Named!Samples'
        BY <3>1, NamesWritten
      <4> QED
        BY <4>1, <4>2
    <3> QED
      BY <3>1
  <2>2. name[i] # a[1]
    BY <2>1
  <2>3. a[1] \in Named!Taken(name, aliases)
    BY DEF Named!Taken
  <2>4. CASE i \in DOMAIN p.new /\ name'[i] = p.new[i]
    <3>1. i \in DOMAIN p.row
      BY <1>1, <2>4 DEF PlanTyped
    <3>2. p.row[i] = name[i]
      BY <1>2, <3>1, SaveHistory
    <3>3. Checked(u, p.new[i])
      BY <1>1, <2>2, <2>4, <3>2 DEF PlanChecked
    <3> QED
      BY <2>3, <2>4, <3>3 DEF Checked
  <2>5. CASE \E k \in DOMAIN p.insert : name'[i] = p.insert[k]
    <3> PICK k \in DOMAIN p.insert : name'[i] = p.insert[k]
      BY <2>5
    <3>1. Checked(u, p.insert[k]) \/ Head(p.insert[k]) \in Cleaning \cup {"*"} \/ p.insert[k] \in p.unalias
      BY <1>1 DEF PlanChecked
    <3> QED
      BY <2>3, <3>1 DEF Checked, Named!IsProvisional
  <2> QED
    BY <2>2, <2>4, <2>5, NamesWritten
<1>4. CASE a \in p.alias
  <2>1. a[1] \in NameSet /\ a[1] # Named!Missing
    BY <1>1, <1>4, PlanParts, SampleFacts
  <2>2. CASE a[2] \in DOMAIN p.row /\ a[1] = p.row[a[2]]
    <3>1. name[a[2]] = a[1]
      BY <1>2, <2>2, SaveHistory
    <3>2. a[2] \in Named!Samples
      BY <1>2, <2>1, <3>1 DEF Named!Samples
    <3> QED
      BY <3>1, <3>2, NoNameTaken
  <2>3. CASE \E f \in DOMAIN p.heir : p.heir[f] = a[2] /\ p.alias = {a}
    <3> PICK f \in DOMAIN p.heir : p.heir[f] = a[2] /\ p.alias = {a}
      BY <2>3
    <3>1. <<name[f], a[2]>> \in p.alias
      BY <1>2, SaveHistory
    <3>2. <<name[f], a[2]>> = a
      BY <3>1
    <3>3. name[f] = a[1]
      BY <3>2
    <3>4. f \in Named!Ids
      BY PlanParts
    <3>5. f \in Named!Samples
      BY <2>1, <3>3, <3>4 DEF Named!Samples
    <3>6. i # f
      BY NamesWritten
    <3> QED
      BY <3>3, <3>5, <3>6, NoNameTaken
  <2> QED
    BY <1>1, <1>4, <2>2, <2>3 DEF PlanKnown
<1>5. CASE a[1] \in p.label
  BY <1>1, <1>5 DEF PlanTyped
<1> QED
  BY <1>3, <1>4, <1>5, AliasesWritten

LEMMA AliasesHideByChance ==
  ASSUME Named!NamesAssumption, NameInv, [Named!Next]_(Named!vars)
  PROVE  Named!HiddenByChance
<1> SUFFICES ASSUME NEW a \in aliases', NEW i \in Named!Samples', name'[i] = a[1], i # a[2], a[2] \in Named!Samples',
                    ~(name[i] = a[1] /\ \E b \in aliases : b[1] = a[1] /\ b[2] \in {a[2]} \cup (Named!Ids \ Named!Samples')),
                    ~Named!IsProvisional(a[1]), Head(a[1]) \notin Cleaning, i \notin torn', a[2] \notin torn'
             PROVE  \E u \in Namers : plans[u] # Named!Idle /\ plans'[u] = Named!Idle /\ a[1] \in arisen[u]
  BY DEF Named!HiddenByChance
<1>1. name' # name \/ aliases' # aliases
  <2> SUFFICES ASSUME name' = name, aliases' = aliases
               PROVE  FALSE
    OBVIOUS
  <2> QED
    OBVIOUS
<1>2. PICK u \in Namers : Named!Save(u)
  <2>1. Named!Next
    BY <1>1 DEF Named!vars
  <2> PICK u \in Namers : Named!Save(u) \/ Named!Fail(u) \/ Named!LookAgain(u) \/ Named!Serve(u)
    BY <2>1 DEF Named!Next
  <2>2. ~Named!Fail(u) /\ ~Named!LookAgain(u)
    BY <1>1 DEF Named!Fail, Named!LookAgain
  <2>3. ~Named!Serve(u)
    BY <1>1, RequestsOnlyPlan
  <2> QED
    BY <2>2, <2>3
<1>3. plans[u] # Named!Idle /\ plans'[u] = Named!Idle
  BY <1>2, PlanOfSave DEF NameTypes
<1>4. a[1] \in arisen[u]
  BY <1>2, SaveHidesByChance
<1> QED
  BY <1>3, <1>4

-----------------------------------------------------------------------------
LEMMA NamesAreKept ==
  ASSUME Named!NamesAssumption
  PROVE  Named!Spec => [](NameInv /\ Named!TypeOK /\ Named!KeptNamesLeadHome /\ Named!FoundByItsOwnNames)
<1>1. Named!Init => NameInv
  BY NamesBegin
<1>2. NameInv /\ [Named!Next]_(Named!vars) => NameInv'
  BY NamesGoOn
<1>3. NameInv => Named!TypeOK /\ Named!KeptNamesLeadHome /\ Named!FoundByItsOwnNames
  BY NamesLead
<1> QED
  BY <1>1, <1>2, <1>3, PTL DEF Named!Spec

(* Names lead to the samples that have borne them, are given in order, and *)
(* are taken from others only by chance.                                   *)
THEOREM NamesFollowSamples == Named!NamesAssumption => (Named!Spec => NamesLeadHome)
<1> SUFFICES ASSUME Named!NamesAssumption
             PROVE  Named!Spec => NamesLeadHome
  OBVIOUS
<1> DEFINE AtHome == Named!TypeOK /\ Named!KeptNamesLeadHome /\ Named!FoundByItsOwnNames
<1>1. NameInv /\ AtHome' /\ [Named!Next]_(Named!vars) => [Named!NamesLeadHome]_name_vars
  <2>1. NameInv /\ [Named!Next]_(Named!vars) => Named!FitsFirst /\ Named!RefusedByRivals /\ Named!HiddenByChance
    BY PlansFitFirst, OnlyRivalsRefuse, AliasesHideByChance
  <2> QED
    BY <2>1 DEF Named!NamesLeadHome
<1>2. Named!Spec => [](NameInv /\ Named!TypeOK /\ Named!KeptNamesLeadHome /\ Named!FoundByItsOwnNames)
  BY NamesAreKept
<1> QED
  BY <1>1, <1>2, PTL DEF Named!Spec, NamesLeadHome
=============================================================================
