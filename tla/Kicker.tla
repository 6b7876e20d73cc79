------------------------------- MODULE Kicker -------------------------------
(***************************************************************************)
(* The table football of the institute.  A reporter creates a match,       *)
(* corrects it while it is played, and finishes it; the finished match     *)
(* changes the kicker numbers of its players.  A number is abstracted to   *)
(* the matches the first number of the player was estimated from, and to   *)
(* those whose results have been added since.                              *)
(*                                                                         *)
(* A request reads the match and the current numbers in its first step and *)
(* writes in its second one, and is rolled back if it fails.  Requests of  *)
(* several browsers interleave.                                            *)
(***************************************************************************)
EXTENDS Integers, Sequences, FiniteSets

CONSTANTS
  Browsers,   (* where requests come from, of whichever user *)
  Reporters,  (* users who report matches *)
  LineUps,    (* the matches: sequences of the players a_1, a_2, b_1 and b_2 *)
  Shares,     (* pairs of an owner and the player whose shares she holds *)
  Veterans,   (* players who have a number in the beginning *)
  Former,     (* sequence of matches finished before, with newcomers then *)
  Enough,     (* how many matches an estimate of a first number needs *)
  MaxTime,    (* bound on the timestamps *)
  MaxMatches, (* bound on the number of matches *)
  MaxRequests,(* bound on the number of requests *)
  None        (* no match, no request *)

VARIABLES
  matches,  (* sequence of matches; deleted ones are None *)
  numbers,  (* the kicker numbers, one batch for each finished match or start *)
  stock,    (* gamblers who have a stock value *)
  job,      (* the request of each browser between its two steps *)
  requests, (* the number of requests so far *)
  rivals,   (* history: requests have overlapped, or matches had the same time *)
  hasty     (* history: reporters who sent a request while another one ran *)

vars == <<matches, numbers, stock, job, requests, rivals, hasty>>

Players == UNION {{l[i] : i \in 1 .. 4} : l \in LineUps}
PlayersOf(match) == {match.players[i] : i \in 1 .. 4}
Batch(match, time, counted) == [match |-> match, time |-> time, counted |-> counted]

Played == [players : LineUps, time : 1 .. MaxTime, finished : BOOLEAN, reporter : Reporters]

KickerAssumption ==
  /\ MaxTime \in Nat /\ None \notin Nat /\ None \notin Played
  /\ Former \in Seq(Played) /\ \A id \in DOMAIN Former : Former[id].finished
-----------------------------------------------------------------------------

(* The latest number of a player; any of them if several have the same     *)
(* timestamp, none if there is none.                                       *)
get_current_kicker_number(player) ==
  LET own == {i \in DOMAIN numbers : player \in DOMAIN numbers[i].counted}
  IN  {numbers[i].counted[player] : i \in {i \in own : \A j \in own : numbers[j].time <= numbers[i].time}}

Finished == {id \in DOMAIN matches : matches[id] # None /\ matches[id].finished}

(* An estimate fits a first number to those finished matches of the player *)
(* the other players of which have numbers, and skips the others.  The     *)
(* match with the given players, for which it is needed, has been saved as *)
(* finished and is treated like the others.  It stands as None.            *)
get_current_kicker_number_or_estimate(player, players) ==
  LET HaveNumbers(others) == \A p \in others \ {player} : get_current_kicker_number(p) # {}
      fit == {id \in Finished : player \in PlayersOf(matches[id]) /\ HaveNumbers(PlayersOf(matches[id]))}
      present == {m \in {None} : HaveNumbers(players)}
      current == get_current_kicker_number(player)
  IN  IF current # {} THEN current
      ELSE IF Cardinality(fit) + Cardinality(present) >= Enough THEN {[start |-> fit \cup present, added |-> {}]}
      ELSE {}

(* The numbers of the players before the match, if all have one.           *)
MatchResult(players) ==
  LET own == {players[i] : i \in 1 .. 4}
      number == [p \in own |-> get_current_kicker_number_or_estimate(p, own)]
  IN  {old \in [own -> UNION {number[p] : p \in own}] : \A p \in own : old[p] \in number[p]}

(* The number of a player after the match.                                 *)
NewNumber(old, id) ==
  [start |-> {IF m = None THEN id ELSE m : m \in old.start}, added |-> old.added \cup {id}]

(* The owners of shares that a match changes the stock value of, in turn.  *)
(* The sum with an old stock value fails, because it is an object.         *)
Owners(players, p) == {s[1] : s \in {s \in Shares : s[2] = players[p]}}
add_stock_values_fails(players) ==
  \E p \in 1 .. 4 : \E owner \in Owners(players, p) :
     owner \in stock \/ \E q \in 1 .. p - 1 : owner \in Owners(players, q)

Busy == {b \in Browsers : job[b] # None}

(* Unfinished matches of the same reporter are given up for a new one.     *)
Abandoned(user) == {id \in DOMAIN matches : matches[id] # None /\ ~matches[id].finished /\ matches[id].reporter = user}

(* Mutant: finished matches can be edited. *)
IsReportedBy(id, user) == matches[id] # None /\ matches[id].reporter = user

MayBeEdited(id, user) == matches[id] # None /\ matches[id].reporter = user /\ ~matches[id].finished

IsRecent(time) == \A i \in DOMAIN numbers : numbers[i].time <= time

Ask == requests < MaxRequests /\ requests' = requests + 1

(* The players of a new match are chosen, and those of an old one remain.  *)
LineUpsFor(id) == IF id = None THEN LineUps ELSE {matches[i].players : i \in {i \in {id} : matches[i] # None}}

(* The first step of edit_match.  Requests that are refused change nothing.*)
edit_match(b) ==
  \E user \in Reporters, id \in DOMAIN matches \cup {None}, time \in 1 .. MaxTime, finished \in BOOLEAN :
     \E players \in LineUpsFor(id) :
        LET twosome == players[1] = players[2]
        IN  /\ job[b] = None /\ Ask
            /\ IF id = None THEN Len(matches) < MaxMatches ELSE MayBeEdited(id, user)
            /\ twosome <=> players[3] = players[4]
            /\ ~(twosome /\ players[1] = players[3])
            /\ finished => IsRecent(time)
            /\ \E old \in IF finished /\ MatchResult(players) # {} THEN MatchResult(players) ELSE {None} :
                  job' = [job EXCEPT ![b] = [user |-> user, id |-> id, old |-> old, match |->
                       [players |-> players, time |-> time, finished |-> finished, reporter |-> user]]]
            /\ rivals' = (rivals \/ Busy # {} \/ (finished /\ \E i \in DOMAIN numbers : numbers[i].time = time))
            /\ hasty' = hasty \cup {u \in {user} : \E c \in Busy : job[c].user = u}
            /\ UNCHANGED <<matches, numbers, stock>>

(* The second step saves the match, which brings a match back that has     *)
(* been deleted in the meantime, and the new numbers.                      *)
Saved(b) ==
  LET j == job[b]
      given_up == Abandoned(j.user)
  IN  IF j.id # None THEN [matches EXCEPT ![j.id] = j.match]
      ELSE Append([id \in DOMAIN matches |-> IF id \in given_up THEN None ELSE matches[id]], j.match)

save_match(b) ==
  LET j == job[b]
      id == IF j.id = None THEN Len(matches) + 1 ELSE j.id
  IN  /\ j # None
      /\ j.id # None \/ Len(matches) < MaxMatches
      /\ job' = [job EXCEPT ![b] = None]
      /\ UNCHANGED <<requests, rivals, hasty>>
      /\ IF j.old = None
         THEN matches' = Saved(b) /\ UNCHANGED <<numbers, stock>>
         ELSE IF add_stock_values_fails(j.match.players)
         THEN UNCHANGED <<matches, numbers, stock>>
         ELSE /\ matches' = Saved(b)
              /\ numbers' = Append(numbers, Batch(id, j.match.time, [p \in DOMAIN j.old |-> NewNumber(j.old[p], id)]))
              /\ stock' = stock \cup UNION {Owners(j.match.players, p) : p \in 1 .. 4}

(* The match is withdrawn by its reporter.                                 *)
cancel_match ==
  \E user \in Reporters, id \in DOMAIN matches :
     /\ Ask /\ MayBeEdited(id, user)
     /\ matches' = [matches EXCEPT ![id] = None]
     /\ rivals' = (rivals \/ Busy # {})
     /\ hasty' = hasty \cup {u \in {user} : \E c \in Busy : job[c].user = u}
     /\ UNCHANGED <<numbers, stock, job>>

(* A player gets a number to begin with, which no match is part of.        *)
Given == [start |-> {}, added |-> {}]

set_start_kicker_number ==
  \E player \in Players, time \in 1 .. MaxTime :
     /\ Ask /\ get_current_kicker_number(player) = {}
     /\ numbers' = Append(numbers, Batch(None, time, [p \in {player} |-> Given]))
     /\ rivals' = (rivals \/ Busy # {})
     /\ UNCHANGED <<matches, stock, job, hasty>>

(* Maintenance deletes unfinished matches of former days.                  *)
expire_matches ==
  \E day \in 1 .. MaxTime :
     LET old == {id \in DOMAIN matches : matches[id] # None /\ ~matches[id].finished /\ matches[id].time < day}
     IN  /\ old # {}
         /\ matches' = [id \in DOMAIN matches |-> IF id \in old THEN None ELSE matches[id]]
         /\ rivals' = (rivals \/ Busy # {})
         /\ hasty' = hasty \cup {job[c].user : c \in Busy}
         /\ UNCHANGED <<numbers, stock, job, requests>>

Init ==
  /\ matches = Former /\ numbers = <<Batch(None, 0, [p \in Veterans |-> Given])>> /\ stock = {}
  /\ job = [b \in Browsers |-> None]
  /\ requests = 0 /\ rivals = FALSE /\ hasty = {}

Next ==
  \/ \E b \in Browsers : edit_match(b) \/ save_match(b)
  \/ cancel_match \/ set_start_kicker_number \/ expire_matches

Spec == Init /\ [][Next]_vars
-----------------------------------------------------------------------------
(* Whoever waits for one match to be saved before she touches the next one *)
(* never has two open matches.                                             *)
OneOpenMatch ==
  \A i, j \in {id \in DOMAIN matches : matches[id] # None} :
    i # j /\ ~matches[i].finished /\ ~matches[j].finished /\ matches[i].reporter = matches[j].reporter
      => matches[i].reporter \in hasty

(* Unless requests overlapped or matches had the same timestamp, a number  *)
(* starts where the first number of the player started and contains all    *)
(* matches added to the numbers of the player that are older, or were      *)
(* stored earlier at the same time.                                        *)
NumbersBuildOn ==
  rivals \/ \A i, j \in DOMAIN numbers :
    \/ numbers[i].time < numbers[j].time
    \/ numbers[i].time = numbers[j].time /\ i < j
    => \A p \in DOMAIN numbers[i].counted \cap DOMAIN numbers[j].counted :
         /\ numbers[i].counted[p].start = numbers[j].counted[p].start
         /\ numbers[i].counted[p].added \subseteq numbers[j].counted[p].added

(* With the same exceptions, the only match that is both in the estimate   *)
(* of a first number and added to it is the one which gave the number to a *)
(* newcomer: it has been saved before the estimate is made.                *)
TwiceOnlyAtFirst ==
  rivals \/ \A j \in DOMAIN numbers : \A p \in DOMAIN numbers[j].counted :
    \A m \in numbers[j].counted[p].start \cap numbers[j].counted[p].added :
      \E i \in DOMAIN numbers : /\ numbers[i].match = m /\ p \in DOMAIN numbers[i].counted
                               /\ numbers[i].counted[p].added = {m}

(* Unless requests overlapped, finished matches remain what they are, and  *)
(* none leads to two batches of numbers.                                   *)
Finalised ==
  \/ rivals'
  \/ /\ \A id \in Finished : matches'[id] = matches[id]
     /\ \A i, j \in DOMAIN numbers' : i < j => numbers'[i].match # numbers'[j].match \/ numbers'[i].match = None

(* Matches are reported one after the other, remain what they are, and go  *)
(* into the numbers in their order and once, save for the match that gives *)
(* a newcomer her first number.                                            *)
MatchesCountOnce == OneOpenMatch' /\ NumbersBuildOn' /\ TwiceOnlyAtFirst' /\ Finalised
=============================================================================
