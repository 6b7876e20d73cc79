------------------------------ MODULE Handover ------------------------------
(***************************************************************************)
(* Who is responsible for a sample: claims and their approval, the edit    *)
(* view of a sample, and the actions of the "My Samples" view, with        *)
(* requests of different users that overlap.                               *)
(*                                                                         *)
(* Every one of these views reads the rows of the samples, changes them in *)
(* memory, and writes whole rows back.  A request is therefore modelled by *)
(* the steps that read and the one that writes; the latter ends the        *)
(* transaction of the request.  All users are of the same department.      *)
(***************************************************************************)
EXTENDS Integers, FiniteSets

CONSTANTS
  Users, Samples, Topics,
  Nobody,       (* no topic; and in forms, a field that is left empty *)
  Superusers,
  Reviewers,    (* the users with the permission "adopt_samples" *)
  Managers,     (* the users with the permission to manage their topics *)
  Members,      (* the members of each topic *)
  Confidential, (* the confidential topics *)
  AutoAdders,   (* the users who want the samples of a topic automatically *)
  Founded,      (* the sample rows in the beginning *)
  MaxClaims,    (* bound on the number of claims *)
  MaxRequests   (* bound on the number of requests that change something *)

Row == [responsible : Users, topic : Topics \cup {Nobody}]

ASSUME HandoverAssumption ==
  /\ Nobody \notin Users \cup Topics
  /\ Superusers \cup Reviewers \cup Managers \subseteq Users
  /\ Confidential \subseteq Topics
  /\ Members \in [Topics -> SUBSET Users]
  /\ AutoAdders \in [Topics -> SUBSET Users]
  /\ Founded \in [Samples -> Row]
  /\ MaxClaims \in Nat /\ MaxRequests \in Nat

Ids == 1 .. MaxClaims
Claim == [requester : Users, reviewer : Reviewers, samples : SUBSET Samples, closed : BOOLEAN]
Missing == [missing |-> TRUE]
Idle == [kind |-> "idle"]

(* A request in progress: what it is going to do to which samples, and the *)
(* rows it has read.                                                       *)
Edits == [kind : {"edit"}, new : [Samples -> Row], read : [Samples -> Row], on : SUBSET Samples,
          copy : SUBSET Users, drop : BOOLEAN]
Decisions ==
  [kind : {"approve", "withdraw"}, claim : Ids, read : {Nobody} \cup [Samples -> Row]]

VARIABLES
  row,       (* the row of each sample *)
  my,        (* "My Samples" of each user *)
  claims,    (* the claims *)
  desk,      (* the request of each user *)
  requests,  (* the number of requests so far *)
  given,     (* history: what has ever been on the "My Samples" list *)
  verdicts,  (* history: how often a claim has been approved or withdrawn *)
  contested  (* history: claims decided while another decision was under way *)

history == <<given, verdicts, contested>>
vars == <<row, my, claims, desk, requests, history>>

TypeOK ==
  /\ row \in [Samples -> Row]
  /\ my \in [Users -> SUBSET Samples]
  /\ claims \in [Ids -> Claim \cup {Missing}]
  /\ desk \in [Users -> Edits \cup Decisions \cup {Idle}]
  /\ requests \in 0 .. MaxRequests
  /\ given \in [Users -> SUBSET Samples]
  /\ \A u \in Users : my[u] \subseteq given[u]
  /\ verdicts \in [Ids -> Nat]
  /\ \A c \in Ids : verdicts[c] > 0 => claims[c] # Missing /\ claims[c].closed
  /\ contested \subseteq Ids

(* Whoever makes a sample, or is an auto-adder of its topic, gets it. *)
Init ==
  /\ row = Founded
  /\ my = [u \in Users |-> {s \in Samples :
       \/ row[s].responsible = u
       \/ row[s].topic # Nobody /\ u \in AutoAdders[row[s].topic]}]
  /\ claims = [c \in Ids |-> Missing]
  /\ desk = [u \in Users |-> Idle]
  /\ requests = 0
  /\ given = my
  /\ verdicts = [c \in Ids |-> 0]
  /\ contested = {}

-----------------------------------------------------------------------------
(* The users who may edit a sample with this row. *)
Editors(r) ==
  IF r.topic = Nobody THEN Users
  ELSE {r.responsible} \cup Superusers \cup (Members[r.topic] \cap Managers)

(* The topics one can choose in a form. *)
set_topics(u) == {t \in Topics : t \notin Confidential \/ u \in Members[t] \cup Superusers}

Begin(u, request) ==
  /\ requests' = requests + 1
  /\ desk' = [desk EXCEPT ![u] = request]

-----------------------------------------------------------------------------
(* save_to_database and search in sample.py: users may put samples whose   *)
(* names they may know on "My Samples", and remove them.                   *)

Collect(u, s) ==
  /\ desk[u] = Idle
  /\ row[s].topic \in Confidential =>
       u \in {row[s].responsible} \cup Superusers \cup Members[row[s].topic]
  /\ my' = [my EXCEPT ![u] = @ \cup {s}]
  /\ given' = [given EXCEPT ![u] = @ \cup {s}]
  /\ UNCHANGED <<row, claims, desk, requests, verdicts, contested>>

Forget(u, s) ==
  /\ desk[u] = Idle
  /\ s \in my[u]
  /\ my' = [my EXCEPT ![u] = @ \ {s}]
  /\ UNCHANGED <<row, claims, desk, requests, history>>

-----------------------------------------------------------------------------
(* Edits.                                                                  *)

(* edit: lookup_sample reads the row; the form has a person and a topic. *)
EditSample(u, s, new) ==
  /\ u \in Editors(row[s])
  /\ new.topic \in set_topics(u) \cup {Nobody, row[s].topic}
  /\ Begin(u, [kind |-> "edit", new |-> [row EXCEPT ![s] = new], read |-> row, on |-> {s},
               copy |-> {}, drop |-> FALSE])
  /\ UNCHANGED <<row, my, claims, history>>

(* edit in my_samples.py: the forms read the rows; empty fields change     *)
(* nothing.  Samples can be copied to others, and dropped from the list.   *)
EditMySamples(u, ss, who, topic, copy, drop) ==
  /\ ss # {} /\ ss \subseteq my[u]
  /\ topic \in set_topics(u) \cup {Nobody}
  /\ who # Nobody \/ topic # Nobody => \A s \in ss : u \in Editors(row[s])
  /\ Begin(u, [kind |-> "edit", read |-> row, on |-> ss, copy |-> copy, drop |-> drop,
       new |-> [s \in Samples |->
         [responsible |-> IF s \in ss /\ who # Nobody THEN who ELSE row[s].responsible,
          topic |-> IF s \in ss /\ topic # Nobody THEN topic ELSE row[s].topic]]])
  /\ UNCHANGED <<row, my, claims, history>>

(* Mutant: only the new responsible person is thought of. *)
OwedWithoutAdders(e, s) == {e.new[s].responsible} \ {e.read[s].responsible}

(* The users who get a sample because of an edit. *)
Owed(e, s) ==
  ({e.new[s].responsible} \ {e.read[s].responsible})
  \cup IF e.new[s].topic \in {Nobody, e.read[s].topic} THEN {} ELSE AutoAdders[e.new[s].topic]

(* Both views: the rows are written, then the lists. *)
SaveEdit(u) ==
  LET e == desk[u] IN
  /\ e.kind = "edit"
  /\ row' = [s \in Samples |-> IF s \in e.on THEN e.new[s] ELSE row[s]]
  /\ LET lists == [v \in Users |-> {s \in e.on : v \in Owed(e, s) \cup e.copy}] IN
     /\ my' = [v \in Users |->
          (my[v] \cup lists[v]) \ IF v = u /\ e.drop THEN e.on ELSE {}]
     /\ given' = [v \in Users |-> given[v] \cup lists[v]]
  /\ desk' = [desk EXCEPT ![u] = Idle]
  /\ UNCHANGED <<claims, requests, verdicts, contested>>

-----------------------------------------------------------------------------
(* Claims.                                                                 *)

(* Mutant: any sample of somebody else can be claimed. *)
ClaimableAnywhere(u) == {s \in Samples : row[s].responsible # u}

(* SamplesForm: "My Samples" are eligible, except one's own, and only if   *)
(* they have a topic which is not confidential to the user.                *)
Claimable(u) ==
  {s \in my[u] :
    /\ row[s].responsible # u
    /\ row[s].topic # Nobody
    /\ row[s].topic \in Confidential => u \in Members[row[s].topic]}

add(u, c, reviewer, ss) ==
  /\ desk[u] = Idle
  /\ claims[c] = Missing
  /\ \A d \in 1 .. c - 1 : claims[d] # Missing
  /\ ss # {} /\ ss \subseteq Claimable(u)
  /\ claims' = [claims EXCEPT ![c] =
       [requester |-> u, reviewer |-> reviewer, samples |-> ss, closed |-> FALSE]]
  /\ UNCHANGED <<row, my, desk, requests, history>>

(* Mutant: a claim that is closed can be decided again. *)
OpenForEver(c) == claims[c] # Missing

Open(c) == claims[c] # Missing /\ ~claims[c].closed

(* The users who may approve the claim, and withdraw it. *)
ReviewersOf(c) == {claims[c].reviewer} \cup Superusers

(* show: the claim is read, and exactly one box has been ticked. *)
Decide(u, c, kind) ==
  /\ Open(c)
  /\ u \in IF kind = "approve" THEN ReviewersOf(c) ELSE {claims[c].requester}
  /\ Begin(u, [kind |-> kind, claim |-> c, read |-> Nobody])
  /\ UNCHANGED <<row, my, claims, history>>

(* list(claim.samples.all()) *)
ReadClaimed(u) ==
  /\ desk[u].kind = "approve"
  /\ desk[u].read = Nobody
  /\ desk' = [desk EXCEPT ![u].read = row]
  /\ UNCHANGED <<row, my, claims, requests, history>>

Close(u) == claims' = [claims EXCEPT ![desk[u].claim].closed = TRUE]

(* The samples of an approved claim are written; every claim is closed. *)
SaveDecision(u) ==
  LET d == desk[u]
      claimed == IF d.kind = "approve" THEN claims[d.claim].samples ELSE {}
  IN /\ d.kind \in {"approve", "withdraw"}
     /\ d.kind = "approve" => d.read # Nobody
     /\ row' = [s \in Samples |->
          IF s \in claimed
          THEN [d.read[s] EXCEPT !.responsible = claims[d.claim].requester] ELSE row[s]]
     /\ Close(u)
     /\ verdicts' = [verdicts EXCEPT ![d.claim] = @ + 1]
     /\ contested' = contested \cup {c \in {d.claim} :
          \E v \in Users \ {u} : desk[v].kind \in {"approve", "withdraw"} /\ desk[v].claim = c}
     /\ desk' = [desk EXCEPT ![u] = Idle]
     /\ UNCHANGED <<my, requests, given>>

-----------------------------------------------------------------------------
Start(u) ==
  \/ \E s \in Samples, new \in Row : EditSample(u, s, new)
  \/ \E ss \in SUBSET my[u], who \in Users \cup {Nobody}, topic \in Topics \cup {Nobody},
        copy \in SUBSET (Users \ {u}), drop \in BOOLEAN :
       EditMySamples(u, ss, who, topic, copy, drop)
  \/ \E c \in Ids, kind \in {"approve", "withdraw"} : Decide(u, c, kind)

Next ==
  \E u \in Users :
    \/ desk[u] = Idle /\ requests < MaxRequests /\ Start(u)
    \/ \E s \in Samples : Collect(u, s) \/ Forget(u, s)
    \/ SaveEdit(u)
    \/ \E c \in Ids, reviewer \in Reviewers, ss \in SUBSET Samples : add(u, c, reviewer, ss)
    \/ ReadClaimed(u)
    \/ SaveDecision(u)

Spec == Init /\ [][Next]_vars

-----------------------------------------------------------------------------
(* Whoever is responsible for a sample has got it on "My Samples" at some  *)
(* time, whatever the order in which overlapping edits and approvals write *)
(* their rows: a row that is written back stale names somebody who had got *)
(* the sample before.                                                      *)
ResponsibleGotIt == \A s \in Samples : s \in given[row[s].responsible]

(* The auto-adders of a sample's topic have got the sample, likewise. *)
AutoAddersGotIt ==
  \A s \in Samples : row[s].topic # Nobody =>
    \A u \in AutoAdders[row[s].topic] : s \in given[u]

(* A claim is decided only once, unless a second decision was already      *)
(* under way when the first one was written.                               *)
DecidedOnceUnlessContested == \A c \in Ids \ contested : verdicts[c] <= 1
=============================================================================
