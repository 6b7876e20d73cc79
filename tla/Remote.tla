------------------------------ MODULE Remote -------------------------------
(***************************************************************************)
(* Programs that submit results with the remote client, all of them with   *)
(* the same account.  The samples of a result must be on the My Samples    *)
(* list, so the client puts them there and removes them afterwards.  Each  *)
(* request is repeated if the connection breaks, and then, the server may  *)
(* have executed it already, or execute it later.                          *)
(***************************************************************************)
EXTENDS Integers, FiniteSets

CONSTANTS
  Clients,    (* programs, each of which submits one result *)
  Samples,
  Ids,        (* the samples of the result of each program *)
  Own,        (* the samples the user has put on My Samples herself *)
  MaxCycles,  (* how often a request is tried: ten times in the code *)
  MaxOrphans  (* bound on the requests the server works on though nobody waits *)

RemoteAssumption ==
  /\ MaxCycles \in Nat \ {0}
  /\ Ids \in [Clients -> (SUBSET Samples) \ {{}}]
  /\ Own \subseteq Samples

VARIABLES
  my_samples,
  results,    (* how often the result of each program is in the database *)
  phase,      (* of a program: begin, enter, submit, exit or end *)
  outcome,    (* of Result.submit: fine, refused or unreachable *)
  changed_sample_ids,
  cycles,     (* the attempts left for the present request *)
  wire,       (* the present request: none, reached or answered *)
  answer,     (* what the server has answered *)
  orphans,    (* requests the server still works on, but nobody waits for *)
  broken,     (* history: programs with a broken connection *)
  robbed      (* history: programs whose samples were changed on My Samples meanwhile *)

client == <<phase, outcome, changed_sample_ids, cycles>>
vars == <<my_samples, results, client, wire, answer, orphans, broken, robbed>>
-----------------------------------------------------------------------------
(* The server.                                                             *)
Changed(add, remove) == (remove \cap my_samples) \cup (add \ (my_samples \ remove))

IsInside(d) == phase[d] \in {"submit", "exit"} \/ (phase[d] = "enter" /\ wire[d] = "answered")

change_my_samples(c, add, remove) ==
  /\ my_samples' = (my_samples \ remove) \cup add
  /\ robbed' = robbed \cup {d \in Clients \ {c} : IsInside(d) /\
       Ids[d] \cap ((my_samples \ my_samples') \cup (my_samples' \ my_samples)) # {}}
  /\ UNCHANGED <<results, broken>>

Selectable == my_samples

AddResult(c) ==
  /\ results' = IF Ids[c] \subseteq Selectable THEN [results EXCEPT ![c] = @ + 1] ELSE results
  /\ UNCHANGED <<my_samples, broken, robbed>>

Execute(c, request) ==
  \/ request.phase = "enter" /\ change_my_samples(c, Ids[c], {})
  \/ request.phase = "submit" /\ AddResult(c)
  \/ request.phase = "exit" /\ change_my_samples(c, {}, request.ids)

Reply(c) ==
  CASE phase[c] = "enter" -> Changed(Ids[c], {})
    [] phase[c] = "submit" -> IF Ids[c] \subseteq Selectable THEN Ids[c] ELSE {}
    [] OTHER -> Changed({}, changed_sample_ids[c])

Request(c) ==
  [client |-> c, phase |-> phase[c], ids |-> changed_sample_ids[c], cycle |-> cycles[c]]

Serve(c) ==
  /\ wire[c] = "reached"
  /\ wire' = [wire EXCEPT ![c] = "answered"]
  /\ answer' = [answer EXCEPT ![c] = Reply(c)]
  /\ Execute(c, Request(c))
  /\ UNCHANGED <<client, orphans>>

ServeOrphan ==
  /\ \E o \in orphans : orphans' = orphans \ {o} /\ Execute(o.client, o)
  /\ UNCHANGED <<client, wire, answer>>
-----------------------------------------------------------------------------
(* The client, with its "with" statement: what was changed is changed back *)
(* after an exception, too, except if the exception comes from __enter__.  *)
Goto(c, place, how) ==
  /\ phase' = [phase EXCEPT ![c] = place]
  /\ outcome' = [outcome EXCEPT ![c] = how]
  /\ cycles' = [cycles EXCEPT ![c] = MaxCycles]

AfterSubmit(c, changed) == IF changed = {} THEN "end" ELSE "exit"

submit(c) ==
  /\ phase[c] = "begin"
  /\ Goto(c, "enter", "fine")
  /\ UNCHANGED <<my_samples, results, changed_sample_ids, wire, answer, orphans, broken, robbed>>

Reach(c) ==
  /\ phase[c] \in {"enter", "submit", "exit"} /\ wire[c] = "none"
  /\ wire' = [wire EXCEPT ![c] = "reached"]
  /\ UNCHANGED <<my_samples, results, client, answer, orphans, broken, robbed>>

IsRefused(c) == phase[c] = "submit" /\ answer[c] = {}

Respond(c) ==
  /\ wire[c] = "answered"
  /\ wire' = [wire EXCEPT ![c] = "none"]
  /\ changed_sample_ids' = IF phase[c] = "enter" THEN [changed_sample_ids EXCEPT ![c] = answer[c]]
                           ELSE changed_sample_ids
  /\ \/ phase[c] = "enter" /\ Goto(c, "submit", "fine")
     \/ phase[c] = "submit"
          /\ Goto(c, AfterSubmit(c, changed_sample_ids[c]), IF IsRefused(c) THEN "refused" ELSE "fine")
     \/ phase[c] = "exit" /\ Goto(c, "end", outcome[c])
  /\ answer' = [answer EXCEPT ![c] = {}]
  /\ UNCHANGED <<my_samples, results, orphans, broken, robbed>>

(* Mutant: after too many attempts, the program goes on as if nothing had happened. *)
GiveUpSilently(c) ==
  IF cycles[c] > 1 THEN cycles' = [cycles EXCEPT ![c] = @ - 1] /\ UNCHANGED <<phase, outcome>>
  ELSE Goto(c, CASE phase[c] = "enter" -> "submit"
                 [] phase[c] = "submit" -> AfterSubmit(c, changed_sample_ids[c])
                 [] OTHER -> "end",
            outcome[c])

TryAgain(c) ==
  IF cycles[c] > 1 THEN cycles' = [cycles EXCEPT ![c] = @ - 1] /\ UNCHANGED <<phase, outcome>>
  ELSE Goto(c, IF phase[c] = "submit" THEN AfterSubmit(c, changed_sample_ids[c]) ELSE "end", "unreachable")

(* The server cannot be reached at all.                                    *)
NoConnection(c) ==
  /\ phase[c] \in {"enter", "submit", "exit"} /\ wire[c] = "none"
  /\ TryAgain(c)
  /\ broken' = IF phase[c] = "exit" /\ cycles[c] = 1 THEN broken \cup {c} ELSE broken
  /\ UNCHANGED <<my_samples, results, changed_sample_ids, wire, answer, orphans, robbed>>

(* The connection breaks while the server works on the request, or with    *)
(* its answer.                                                             *)
Break(c) ==
  /\ wire[c] \in {"reached", "answered"}
  /\ wire[c] = "reached" => Cardinality(orphans) < MaxOrphans
  /\ wire' = [wire EXCEPT ![c] = "none"]
  /\ orphans' = IF wire[c] = "reached" THEN orphans \cup {Request(c)} ELSE orphans
  /\ TryAgain(c)
  /\ broken' = broken \cup {c}
  /\ UNCHANGED <<my_samples, results, changed_sample_ids, answer, robbed>>

Init ==
  /\ my_samples = Own
  /\ results = [c \in Clients |-> 0]
  /\ phase = [c \in Clients |-> "begin"]
  /\ outcome = [c \in Clients |-> "fine"]
  /\ changed_sample_ids = [c \in Clients |-> {}]
  /\ cycles = [c \in Clients |-> MaxCycles]
  /\ wire = [c \in Clients |-> "none"]
  /\ answer = [c \in Clients |-> {}]
  /\ orphans = {}
  /\ broken = {} /\ robbed = {}

Network == ServeOrphan \/ \E c \in Clients : Reach(c) \/ NoConnection(c) \/ Break(c) \/ Serve(c)

Program == \E c \in Clients : submit(c) \/ Respond(c)

Next == Network \/ Program

Spec == Init /\ [][Next]_vars
-----------------------------------------------------------------------------
(* A program that gets an answer to its submission has stored its result,  *)
(* and one that gets a refusal or no answer has not; and nobody stores it  *)
(* twice.  Unless the connection broke after the server had the request.   *)
StoredAsReported ==
  \A c \in Clients \ (broken \cup robbed) : phase[c] = "end" =>
    results[c] = (IF outcome[c] = "fine" THEN 1 ELSE 0)

(* A program is never told that its samples are not on My Samples, unless  *)
(* another one has removed them, which it had found there.                 *)
RefusedIfRobbed == \A c \in Clients : outcome[c] = "refused" => c \in robbed

(* In the end, My Samples is what the user has made of it, also if some    *)
(* programs were not answered, as long as the server didn't get their      *)
(* requests; and also if programs have samples in common.                  *)
MySamplesRestored ==
  \A s \in Samples :
    (\A c \in Clients : s \in Ids[c] => phase[c] = "end" /\ c \notin broken)
      => (s \in my_samples <=> s \in Own)

(* Programs are told the truth about their results and leave My Samples as *)
(* they were.                                                              *)
SubmittedAsReported == StoredAsReported /\ RefusedIfRobbed /\ MySamplesRestored
=============================================================================
