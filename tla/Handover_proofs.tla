--------------------------- MODULE Handover_proofs ---------------------------
(***************************************************************************)
(* Proofs about Handover, for every number of users, samples, topics,      *)
(* claims and requests.                                                    *)
(***************************************************************************)
EXTENDS Handover, TLAPS

(* The responsible person and the auto-adders that row r names for sample  *)
(* s have got the sample at some time.                                     *)
Known(r, s) ==
  /\ s \in given[r.responsible]
  /\ r.topic # Nobody => \A v \in AutoAdders[r.topic] : s \in given[v]

(* Rows in the database, and rows that a request has read, stale or not.   *)
RowsKnown == \A s \in Samples : Known(row[s], s)
HasRead(u) == desk[u].kind = "edit" \/ (desk[u].kind = "approve" /\ desk[u].read # Nobody)
ReadKnown(u) == HasRead(u) => \A s \in Samples : Known(desk[u].read[s], s)
ReadsKnown == \A u \in Users : ReadKnown(u)

(* Claimed samples have been on the list of the requester. *)
ClaimsKnown ==
  \A c \in Ids : claims[c] # Missing => claims[c].samples \subseteq given[claims[c].requester]

(* The users who decide on a claim at the moment, and what is known of it. *)
Deciding(u, c) == desk[u].kind \in {"approve", "withdraw"} /\ desk[u].claim = c
DecisionsSound ==
  \A c \in Ids :
    /\ \A u \in Users : Deciding(u, c) => claims[c] # Missing
    /\ c \notin contested => verdicts[c] <= 1
    /\ c \notin contested => \A u \in Users : Deciding(u, c) => verdicts[c] = 0

Inv == TypeOK /\ RowsKnown /\ ReadsKnown /\ ClaimsKnown /\ DecisionsSound

-----------------------------------------------------------------------------
(* What a request is, by its kind. *)
LEMMA Kinds ==
  ASSUME TypeOK, NEW u \in Users
  PROVE  /\ desk[u].kind = "edit" => desk[u] \in Edits
         /\ desk[u].kind \in {"approve", "withdraw"} => desk[u] \in Decisions
         /\ desk[u] = Idle => desk[u].kind = "idle"
BY DEF TypeOK, Edits, Decisions, Idle

(* A row stays known when lists only grow. *)
LEMMA KnownStays ==
  ASSUME HandoverAssumption, TypeOK, NEW r \in Row, NEW s \in Samples, Known(r, s),
         \A v \in Users : given[v] \subseteq given'[v]
  PROVE  Known(r, s)'
BY DEF Known, Row, HandoverAssumption

LEMMA Initially == ASSUME HandoverAssumption, Init PROVE Inv
<1> USE DEF Init
<1>1. TypeOK
  BY DEF TypeOK, HandoverAssumption, Ids, Row
<1>2. RowsKnown
  <2> SUFFICES ASSUME NEW s \in Samples PROVE Known(row[s], s)
    BY DEF RowsKnown
  <2>1. row[s] \in Row
    BY DEF HandoverAssumption
  <2> QED BY <2>1 DEF Known, Row, HandoverAssumption
<1>3. ReadsKnown /\ ClaimsKnown /\ DecisionsSound
  BY DEF ReadsKnown, ReadKnown, HasRead, ClaimsKnown, DecisionsSound, Deciding, Idle
<1> QED BY <1>1, <1>2, <1>3 DEF Inv

(* What a request has read stays known as long as it goes on.              *)
LEMMA ReadStays ==
  ASSUME HandoverAssumption, TypeOK, NEW u \in Users, ReadKnown(u), desk'[u] = desk[u],
         \A v \in Users : given[v] \subseteq given'[v]
  PROVE  ReadKnown(u)'
<1> SUFFICES ASSUME HasRead(u), NEW s \in Samples PROVE Known(desk[u].read[s], s)'
  BY DEF ReadKnown, HasRead
<1>1. Known(desk[u].read[s], s)
  BY DEF ReadKnown
<1>2. desk[u].read[s] \in Row
  BY Kinds DEF HasRead, Edits, Decisions
<1> QED BY <1>1, <1>2 DEF Known, Row, HandoverAssumption

(* A request that begins has read the rows, or nothing yet. *)
LEMMA BeginKeeps ==
  ASSUME HandoverAssumption, Inv, NEW u \in Users, desk[u] = Idle, requests < MaxRequests,
         NEW e \in Edits \cup Decisions, Begin(u, e),
         \/ e \in Edits /\ e.read = row
         \/ /\ e \in Decisions /\ e.read = Nobody
            /\ claims[e.claim] # Missing /\ ~claims[e.claim].closed,
         UNCHANGED <<row, my, claims, history>>
  PROVE  Inv'
<1> USE DEF Inv, history, Begin
<1>1. TypeOK'
  BY DEF TypeOK, HandoverAssumption
<1>2. RowsKnown' /\ ClaimsKnown'
  BY DEF RowsKnown, Known, ClaimsKnown
<1>3. ReadsKnown'
  <2> SUFFICES ASSUME NEW v \in Users PROVE ReadKnown(v)'
    BY DEF ReadsKnown
  <2>1. CASE v = u
    <3>1. desk'[v] = e
      BY <2>1 DEF TypeOK
    <3>2. HasRead(v)' => e.read = row
      BY <3>1 DEF HasRead, Edits, Decisions
    <3> QED BY <3>1, <3>2 DEF ReadKnown, RowsKnown, Known
  <2>2. CASE v # u
    <3>1. desk'[v] = desk[v]
      BY <2>2 DEF TypeOK
    <3> QED BY <3>1, ReadStays DEF ReadsKnown
  <2> QED BY <2>1, <2>2
<1>4. DecisionsSound'
  <2> SUFFICES ASSUME NEW v \in Users, NEW c \in Ids, Deciding(v, c)'
               PROVE  claims[c] # Missing /\ (c \notin contested => verdicts[c] = 0)
    BY DEF DecisionsSound
  <2>1. CASE v = u
    <3>1. desk'[v] = e
      BY <2>1 DEF TypeOK
    <3>2. e \notin Edits /\ e.claim = c
      BY <3>1 DEF Deciding, Edits
    <3>3. claims[c] # Missing /\ ~claims[c].closed
      BY <3>2
    <3>4. ~(verdicts[c] > 0) /\ verdicts[c] \in Nat
      BY <3>3 DEF TypeOK
    <3> QED BY <3>3, <3>4
  <2>2. CASE v # u
    BY <2>2 DEF TypeOK, Deciding, DecisionsSound
  <2> QED BY <2>1, <2>2
<1> QED BY <1>1, <1>2, <1>3, <1>4

LEMMA EditSampleKeeps ==
  ASSUME HandoverAssumption, Inv, NEW u \in Users, NEW s \in Samples, NEW new \in Row,
         desk[u] = Idle, requests < MaxRequests, EditSample(u, s, new)
  PROVE  Inv'
<1> DEFINE e == [kind |-> "edit", new |-> [row EXCEPT ![s] = new], read |-> row, on |-> {s},
                 copy |-> {}, drop |-> FALSE]
<1>1. e \in Edits /\ e.read = row
  BY DEF Inv, TypeOK, Edits
<1>2. Begin(u, e) /\ UNCHANGED <<row, my, claims, history>>
  BY DEF EditSample
<1> QED BY <1>1, <1>2, BeginKeeps

LEMMA EditMySamplesKeeps ==
  ASSUME HandoverAssumption, Inv, NEW u \in Users, NEW ss \in SUBSET my[u],
         NEW who \in Users \cup {Nobody}, NEW topic \in Topics \cup {Nobody},
         NEW copy \in SUBSET (Users \ {u}), NEW drop \in BOOLEAN,
         desk[u] = Idle, requests < MaxRequests, EditMySamples(u, ss, who, topic, copy, drop)
  PROVE  Inv'
<1> DEFINE new == [s \in Samples |->
             [responsible |-> IF s \in ss /\ who # Nobody THEN who ELSE row[s].responsible,
              topic |-> IF s \in ss /\ topic # Nobody THEN topic ELSE row[s].topic]]
           e == [kind |-> "edit", read |-> row, on |-> ss, copy |-> copy, drop |-> drop, new |-> new]
<1>1. new \in [Samples -> Row]
  <2> SUFFICES ASSUME NEW s \in Samples PROVE new[s] \in Row
    OBVIOUS
  <2>1. row[s] \in Row
    BY DEF Inv, TypeOK
  <2> QED BY <2>1 DEF Row
<1>2. e \in Edits /\ e.read = row
  <2>1. ss \in SUBSET Samples
    BY DEF Inv, TypeOK
  <2> QED BY <1>1, <2>1 DEF Inv, TypeOK, Edits
<1>3. Begin(u, e) /\ UNCHANGED <<row, my, claims, history>>
  BY DEF EditMySamples
<1> QED BY <1>2, <1>3, BeginKeeps

LEMMA DecideKeeps ==
  ASSUME HandoverAssumption, Inv, NEW u \in Users, NEW c \in Ids,
         NEW kind \in {"approve", "withdraw"},
         desk[u] = Idle, requests < MaxRequests, Decide(u, c, kind)
  PROVE  Inv'
<1> DEFINE e == [kind |-> kind, claim |-> c, read |-> Nobody]
<1>1. e \in Decisions /\ e.read = Nobody /\ claims[e.claim] # Missing /\ ~claims[e.claim].closed
  BY DEF Decide, Open, Decisions
<1>2. Begin(u, e) /\ UNCHANGED <<row, my, claims, history>>
  BY DEF Decide
<1> QED BY <1>1, <1>2, BeginKeeps

-----------------------------------------------------------------------------
(* Steps that leave the rows and the claims alone and let lists grow.      *)
LEMMA ListsKeep ==
  ASSUME HandoverAssumption, Inv, NEW u \in Users, NEW s \in Samples,
         Collect(u, s) \/ Forget(u, s)
  PROVE  Inv'
<1> USE DEF Inv
<1>1. given' \in [Users -> SUBSET Samples] /\ \A v \in Users : given[v] \subseteq given'[v]
  BY DEF TypeOK, Collect, Forget, history
<1>2. UNCHANGED <<row, claims, desk, requests, verdicts, contested>>
  BY DEF Collect, Forget, history
<1>3. TypeOK'
  <2>1. my' \in [Users -> SUBSET Samples] /\ \A v \in Users : my'[v] \subseteq given'[v]
    BY DEF TypeOK, Collect, Forget, history
  <2> QED BY <1>1, <1>2, <2>1 DEF TypeOK
<1>4. RowsKnown'
  <2> SUFFICES ASSUME NEW x \in Samples PROVE Known(row[x], x)'
    BY DEF RowsKnown
  <2>1. row[x] \in Row
    BY DEF TypeOK
  <2> QED BY <1>1, <1>2, <2>1 DEF RowsKnown, Known, Row, HandoverAssumption
<1>5. ReadsKnown'
  BY <1>1, <1>2, ReadStays DEF ReadsKnown
<1>6. ClaimsKnown'
  BY <1>1, <1>2 DEF ClaimsKnown, TypeOK, Claim
<1>7. DecisionsSound'
  BY <1>2 DEF DecisionsSound, Deciding
<1> QED BY <1>3, <1>4, <1>5, <1>6, <1>7

(* A claim is about samples that are on the list of the requester. *)
LEMMA AddKeeps ==
  ASSUME HandoverAssumption, Inv, NEW u \in Users, NEW c \in Ids, NEW reviewer \in Reviewers,
         NEW ss \in SUBSET Samples, add(u, c, reviewer, ss)
  PROVE  Inv'
<1> USE DEF Inv
<1>1. UNCHANGED <<row, my, desk, requests, given, verdicts, contested>>
  BY DEF add, history
<1>2. ss \subseteq given[u]
  BY DEF add, Claimable, TypeOK
<1> DEFINE new == [requester |-> u, reviewer |-> reviewer, samples |-> ss, closed |-> FALSE]
<1>3. claims' = [claims EXCEPT ![c] = new] /\ claims[c] = Missing /\ new \in Claim
  BY DEF add, Claim
<1>4. TypeOK'
  <2>1. claims' \in [Ids -> Claim \cup {Missing}]
    BY <1>3 DEF TypeOK
  <2>2. \A d \in Ids : verdicts[d] > 0 => claims'[d] # Missing /\ claims'[d].closed
    BY <1>3 DEF TypeOK
  <2> QED BY <1>1, <2>1, <2>2 DEF TypeOK
<1>5. RowsKnown' /\ ReadsKnown'
  BY <1>1 DEF RowsKnown, ReadsKnown, ReadKnown, HasRead, Known
<1>6. new # Missing
  BY DEF Missing
<1>7. ClaimsKnown'
  BY <1>1, <1>2, <1>3 DEF ClaimsKnown, TypeOK
<1>8. DecisionsSound'
  BY <1>1, <1>3, <1>6 DEF DecisionsSound, Deciding, TypeOK
<1> QED BY <1>4, <1>5, <1>7, <1>8

LEMMA ReadClaimedKeeps ==
  ASSUME HandoverAssumption, Inv, NEW u \in Users, ReadClaimed(u)
  PROVE  Inv'
<1> USE DEF Inv, ReadClaimed, history
<1>1. desk[u] \in Decisions /\ [desk[u] EXCEPT !.read = row] \in Decisions
  BY Kinds DEF TypeOK, Decisions
<1>2. TypeOK'
  <2>1. desk' \in [Users -> Edits \cup Decisions \cup {Idle}]
    BY <1>1 DEF TypeOK
  <2> QED BY <2>1 DEF TypeOK
<1>3. RowsKnown' /\ ClaimsKnown'
  BY DEF RowsKnown, ClaimsKnown, Known
<1>4. ReadsKnown'
  <2> SUFFICES ASSUME NEW v \in Users PROVE ReadKnown(v)'
    BY DEF ReadsKnown
  <2>1. CASE v = u
    <3>1. desk'[v].read = row
      BY <1>1, <2>1 DEF TypeOK, Decisions
    <3> QED BY <3>1 DEF ReadKnown, RowsKnown, Known
  <2>2. CASE v # u
    <3>1. desk'[v] = desk[v]
      BY <2>2 DEF TypeOK
    <3> QED BY <3>1, ReadStays DEF ReadsKnown
  <2> QED BY <2>1, <2>2
<1>5. DecisionsSound'
  <2>1. \A v \in Users, c \in Ids : Deciding(v, c)' => Deciding(v, c)
    BY <1>1 DEF Deciding, TypeOK, Decisions
  <2> QED BY <2>1 DEF DecisionsSound
<1> QED BY <1>2, <1>3, <1>4, <1>5

-----------------------------------------------------------------------------
(* The row an edit writes names the persons it has read, who are known, or *)
(* persons it puts the sample on the list of.                              *)
LEMMA NewRowKnown ==
  ASSUME HandoverAssumption, Inv, NEW u \in Users, SaveEdit(u), NEW s \in Samples,
         s \in desk[u].on, NEW new \in Row, new = desk[u].new[s]
  PROVE  Known(new, s)'
<1>1. desk[u] \in Edits
  BY Kinds DEF Inv, SaveEdit
<1> PICK read \in Row : read = desk[u].read[s]
  BY <1>1 DEF Edits
<1>2. Known(read, s)
  BY DEF Inv, ReadsKnown, ReadKnown, HasRead, SaveEdit
<1>3. ASSUME NEW v \in Users, s \in given[v] \/ v \in Owed(desk[u], s) PROVE s \in given'[v]
  BY <1>3 DEF SaveEdit
<1>4. s \in given'[new.responsible]
  <2>1. CASE new.responsible = read.responsible
    BY <1>2, <1>3, <2>1 DEF Known, Row
  <2>2. CASE new.responsible # read.responsible
    <3>1. new.responsible \in Owed(desk[u], s)
      BY <2>2 DEF Owed
    <3> QED BY <1>3, <3>1 DEF Row
  <2> QED BY <2>1, <2>2
<1>5. ASSUME new.topic # Nobody, NEW v \in AutoAdders[new.topic] PROVE s \in given'[v]
  <2>1. v \in Users
    BY <1>5 DEF Row, HandoverAssumption
  <2>2. CASE new.topic = read.topic
    BY <1>2, <1>3, <1>5, <2>1, <2>2 DEF Known
  <2>3. CASE new.topic # read.topic
    <3>1. v \in Owed(desk[u], s)
      BY <1>5, <2>3 DEF Owed
    <3> QED BY <1>3, <2>1, <3>1
  <2> QED BY <2>2, <2>3
<1> QED BY <1>4, <1>5 DEF Known

LEMMA SaveEditKeeps ==
  ASSUME HandoverAssumption, Inv, NEW u \in Users, SaveEdit(u)
  PROVE  Inv'
<1> USE DEF Inv
<1>1. desk[u] \in Edits
  BY Kinds DEF SaveEdit
<1>2. given' \in [Users -> SUBSET Samples] /\ \A v \in Users : given[v] \subseteq given'[v]
  BY <1>1 DEF SaveEdit, TypeOK, Edits
<1>3. my' \in [Users -> SUBSET Samples] /\ \A v \in Users : my'[v] \subseteq given'[v]
  BY <1>1 DEF SaveEdit, TypeOK, Edits
<1>4. row' \in [Samples -> Row]
  BY <1>1 DEF SaveEdit, TypeOK, Edits
<1>5. desk' = [desk EXCEPT ![u] = Idle] /\ UNCHANGED <<claims, requests, verdicts, contested>>
  BY DEF SaveEdit
<1>6. TypeOK'
  BY <1>2, <1>3, <1>4, <1>5 DEF TypeOK
<1>7. RowsKnown'
  <2> SUFFICES ASSUME NEW s \in Samples PROVE Known(row[s], s)'
    BY DEF RowsKnown
  <2>1. CASE s \in desk[u].on
    <3> PICK new \in Row : new = desk[u].new[s]
      BY <1>1 DEF Edits
    <3>1. row'[s] = new
      BY <2>1 DEF SaveEdit
    <3> QED BY <2>1, <3>1, NewRowKnown DEF Known
  <2>2. CASE s \notin desk[u].on
    <3>1. row'[s] = row[s] /\ row[s] \in Row
      BY <2>2 DEF SaveEdit, TypeOK
    <3> QED BY <1>2, <3>1 DEF RowsKnown, Known, Row, HandoverAssumption
  <2> QED BY <2>1, <2>2
<1>8. ReadsKnown'
  <2> SUFFICES ASSUME NEW v \in Users PROVE ReadKnown(v)'
    BY DEF ReadsKnown
  <2>1. CASE v = u
    BY <1>5, <2>1 DEF TypeOK, ReadKnown, HasRead, Idle
  <2>2. CASE v # u
    <3>1. desk'[v] = desk[v]
      BY <1>5, <2>2 DEF TypeOK
    <3> QED BY <1>2, <3>1, ReadStays DEF ReadsKnown
  <2> QED BY <2>1, <2>2
<1>9. ClaimsKnown'
  BY <1>2, <1>5 DEF ClaimsKnown, TypeOK, Claim
<1>10. DecisionsSound'
  <2>1. \A v \in Users, c \in Ids : Deciding(v, c)' => Deciding(v, c)
    BY <1>5 DEF Deciding, TypeOK, Idle
  <2> QED BY <1>5, <2>1 DEF DecisionsSound
<1> QED BY <1>6, <1>7, <1>8, <1>9, <1>10

LEMMA SaveDecisionKeeps ==
  ASSUME HandoverAssumption, Inv, NEW u \in Users, SaveDecision(u)
  PROVE  Inv'
<1> USE DEF Inv
<1> PICK d \in Decisions : d = desk[u]
  BY Kinds DEF SaveDecision
<1> DEFINE c == d.claim
<1>1. c \in Ids /\ Deciding(u, c) /\ claims[c] \in Claim /\ claims[c] # Missing
  BY DEF Decisions, Deciding, DecisionsSound, TypeOK
<1>2. UNCHANGED <<my, requests, given>> /\ desk' = [desk EXCEPT ![u] = Idle]
  BY DEF SaveDecision
<1>3. /\ claims' = [claims EXCEPT ![c].closed = TRUE]
      /\ verdicts' = [verdicts EXCEPT ![c] = @ + 1]
      /\ contested' = contested \cup {x \in {c} :
           \E v \in Users \ {u} : desk[v].kind \in {"approve", "withdraw"} /\ desk[v].claim = x}
  BY DEF SaveDecision, Close
<1>4. claims' \in [Ids -> Claim \cup {Missing}] /\ claims'[c] # Missing /\ claims'[c].closed
  <2>1. [claims[c] EXCEPT !.closed = TRUE] \in Claim
    BY <1>1 DEF Claim
  <2> QED BY <1>1, <1>3, <2>1 DEF TypeOK, Claim, Missing
<1>5. ASSUME NEW s \in Samples
      PROVE  \/ row'[s] = row[s]
             \/ /\ d.kind = "approve" /\ d.read # Nobody /\ s \in claims[c].samples
                /\ row'[s] = [d.read[s] EXCEPT !.responsible = claims[c].requester]
  BY DEF SaveDecision
<1>6. row' \in [Samples -> Row]
  <2> SUFFICES ASSUME NEW s \in Samples PROVE row'[s] \in Row
    BY DEF SaveDecision
  <2>1. CASE row'[s] = row[s]
    BY <2>1 DEF TypeOK
  <2>2. CASE d.read # Nobody /\ row'[s] = [d.read[s] EXCEPT !.responsible = claims[c].requester]
    BY <1>1, <2>2 DEF Decisions, Row, Claim
  <2> QED BY <1>5, <2>1, <2>2
<1>7. TypeOK'
  <2>1. \A x \in Ids : verdicts'[x] > 0 => claims'[x] # Missing /\ claims'[x].closed
    BY <1>1, <1>3, <1>4 DEF TypeOK
  <2>2. verdicts' \in [Ids -> Nat] /\ contested' \subseteq Ids
    BY <1>1, <1>3 DEF TypeOK
  <2> QED BY <1>2, <1>4, <1>6, <2>1, <2>2 DEF TypeOK
<1>8. RowsKnown'
  <2> SUFFICES ASSUME NEW s \in Samples PROVE Known(row[s], s)'
    BY DEF RowsKnown
  <2>1. CASE row'[s] = row[s]
    BY <1>2, <2>1 DEF RowsKnown, Known
  <2>2. CASE /\ d.kind = "approve" /\ d.read # Nobody /\ s \in claims[c].samples
             /\ row'[s] = [d.read[s] EXCEPT !.responsible = claims[c].requester]
    <3>1. Known(d.read[s], s)
      BY <2>2 DEF ReadsKnown, ReadKnown, HasRead
    <3>2. d.read[s] \in Row
      BY <2>2 DEF Decisions
    <3>3. row'[s].responsible = claims[c].requester /\ row'[s].topic = d.read[s].topic
      BY <2>2, <3>2 DEF Row
    <3>4. s \in given[claims[c].requester]
      BY <1>1, <2>2 DEF ClaimsKnown
    <3> QED BY <1>2, <3>1, <3>3, <3>4 DEF Known
  <2> QED BY <1>5, <2>1, <2>2
<1>9. ReadsKnown'
  <2> SUFFICES ASSUME NEW v \in Users PROVE ReadKnown(v)'
    BY DEF ReadsKnown
  <2>1. CASE v = u
    BY <1>2, <2>1 DEF TypeOK, ReadKnown, HasRead, Idle
  <2>2. CASE v # u
    <3>1. desk'[v] = desk[v]
      BY <1>2, <2>2 DEF TypeOK
    <3> QED BY <1>2, <3>1, ReadStays DEF ReadsKnown
  <2> QED BY <2>1, <2>2
<1>10. ClaimsKnown'
  <2>1. \A x \in Ids : claims'[x] # Missing =>
          claims[x] # Missing /\ claims'[x].samples = claims[x].samples
          /\ claims'[x].requester = claims[x].requester
    BY <1>1, <1>3 DEF TypeOK, Claim
  <2> QED BY <1>2, <2>1 DEF ClaimsKnown
<1>11. DecisionsSound'
  <2>1. ASSUME NEW v \in Users, NEW x \in Ids, Deciding(v, x)'
        PROVE  v # u /\ Deciding(v, x) /\ (x = c => c \in contested')
    <3>1. v # u
      BY <1>2, <2>1 DEF Deciding, TypeOK, Idle
    <3>2. Deciding(v, x)
      BY <1>2, <2>1, <3>1 DEF Deciding, TypeOK
    <3> QED BY <1>3, <3>1, <3>2 DEF Deciding
  <2>2. c \notin contested => verdicts[c] = 0
    BY <1>1 DEF DecisionsSound
  <2> SUFFICES ASSUME NEW x \in Ids
      PROVE /\ \A v \in Users : Deciding(v, x)' => claims'[x] # Missing
            /\ x \notin contested' => verdicts'[x] <= 1
            /\ x \notin contested' => \A v \in Users : Deciding(v, x)' => verdicts'[x] = 0
    BY DEF DecisionsSound
  <2>3. CASE x = c
    BY <1>1, <1>3, <1>4, <2>1, <2>2, <2>3 DEF TypeOK
  <2>4. CASE x # c
    <3>1. claims'[x] = claims[x] /\ verdicts'[x] = verdicts[x] /\ contested \subseteq contested'
      BY <1>1, <1>3, <2>4 DEF TypeOK
    <3> QED BY <2>1, <3>1 DEF DecisionsSound
  <2> QED BY <2>3, <2>4
<1> QED BY <1>7, <1>8, <1>9, <1>10, <1>11

-----------------------------------------------------------------------------
LEMMA Inductive == ASSUME HandoverAssumption, Inv, [Next]_vars PROVE Inv'
<1>1. CASE UNCHANGED vars
  BY <1>1 DEF vars, history, Inv, TypeOK, RowsKnown, ReadsKnown, ReadKnown, HasRead, ClaimsKnown,
     DecisionsSound, Deciding, Known
<1>2. ASSUME NEW u \in Users, desk[u] = Idle, requests < MaxRequests, Start(u) PROVE Inv'
  BY <1>2, EditSampleKeeps, EditMySamplesKeeps, DecideKeeps DEF Start
<1>3. ASSUME NEW u \in Users, NEW s \in Samples, Collect(u, s) \/ Forget(u, s) PROVE Inv'
  BY <1>3, ListsKeep
<1>4. ASSUME NEW u \in Users, SaveEdit(u) PROVE Inv'
  BY <1>4, SaveEditKeeps
<1>5. ASSUME NEW u \in Users, NEW c \in Ids, NEW reviewer \in Reviewers, NEW ss \in SUBSET Samples,
             add(u, c, reviewer, ss)
      PROVE  Inv'
  BY <1>5, AddKeeps
<1>6. ASSUME NEW u \in Users, ReadClaimed(u) PROVE Inv'
  BY <1>6, ReadClaimedKeeps
<1>7. ASSUME NEW u \in Users, SaveDecision(u) PROVE Inv'
  BY <1>7, SaveDecisionKeeps
<1> QED BY <1>1, <1>2, <1>3, <1>4, <1>5, <1>6, <1>7 DEF Next

LEMMA Always == Spec => []Inv
<1>1. Init => Inv
  BY Initially, HandoverAssumption
<1>2. Inv /\ [Next]_vars => Inv'
  BY Inductive, HandoverAssumption
<1> QED BY <1>1, <1>2, PTL DEF Spec

(* The rows, lists, claims and requests keep their types, and a claim that *)
(* has been decided is closed.                                             *)
THEOREM TypeCorrect == Spec => []TypeOK
<1>1. Inv => TypeOK
  BY DEF Inv
<1> QED BY <1>1, Always, PTL

(* However many stale rows overlapping edits and approvals write back, the *)
(* responsible person of a sample has got it on "My Samples".              *)
THEOREM ResponsiblePersonsGotIt == Spec => []ResponsibleGotIt
<1>1. Inv => ResponsibleGotIt
  BY DEF Inv, RowsKnown, Known, ResponsibleGotIt
<1> QED BY <1>1, Always, PTL

(* The same for the auto-adders of the topic that a sample ends up in. *)
THEOREM AutoAddersOfTheTopicGotIt == Spec => []AutoAddersGotIt
<1>1. Inv => AutoAddersGotIt
  BY DEF Inv, RowsKnown, Known, AutoAddersGotIt
<1> QED BY <1>1, Always, PTL

(* A claim is approved or withdrawn once, except when two decisions on it  *)
(* have overlapped, however many users decide on however many claims.      *)
THEOREM DecidedOnce == Spec => []DecidedOnceUnlessContested
<1>1. Inv => DecidedOnceUnlessContested
  BY DEF Inv, DecisionsSound, DecidedOnceUnlessContested
<1> QED BY <1>1, Always, PTL
=============================================================================
