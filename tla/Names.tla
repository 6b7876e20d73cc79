-------------------------------- MODULE Names --------------------------------
(***************************************************************************)
(* The names of samples: provisional numbers, cleaning numbers, renames,   *)
(* pieces, aliases, and how a sample is found by its name.                 *)
(*                                                                         *)
(* Whether a name is free is asked when a form is validated; the name is   *)
(* written later, and with it the whole row as it had been read.  A view   *)
(* is therefore two steps: the first one reads, checks, and leaves a plan  *)
(* of what is to be written; Save executes the plan.  Save is one step     *)
(* because an INSERT of a name that another open transaction has inserted  *)
(* waits for the end of that transaction.                                  *)
(*                                                                         *)
(* A name is a sequence: its stem, and the numbers appended to it.  "*" is *)
(* the stem of provisional names; a cleaning number is a stem.  Which name *)
(* starts with which is then a matter of prefixes.                         *)
(***************************************************************************)
EXTENDS Integers, FiniteSets, SequencesExt

CONSTANTS
  Users,         (* the users that send requests *)
  Stems,         (* what names begin with, apart from the "*" *)
  Format,        (* the sample name format of each stem *)
  Renames,       (* "possible_renames" of each sample name format *)
  Owners,        (* whose initials are part of a stem; {} if nobody's are *)
  Cleaning,      (* the stems that are cleaning numbers *)
  Founders,      (* the possible names of the samples in the beginning *)
  MaxSamples,    (* bound on the number of samples ever made *)
  MaxRequests    (* bound on the number of POST requests *)

Ids == 1 .. MaxSamples
Missing == <<>>
Idle == [idle |-> TRUE]

VARIABLES
  name,      (* the name of each sample *)
  aliases,   (* the rows of SampleAlias: pairs of name and sample *)
  desk,      (* what the request of each user is about to do *)
  made,      (* the number of samples made so far *)
  begun,     (* the number of requests begun so far *)
  bore,      (* history: the names each sample has had, its aliases included *)
  kept,      (* history: former names that were to be kept as aliases *)
  torn,      (* history: samples that have been written from an outdated row *)
  arisen,    (* history: the names occupied since the request of a user began *)
  claimed,   (* history: the names given to samples since the request of a user began *)
  dropped    (* history: aliases removed in favour of a new sample *)

history == <<bore, kept, torn, arisen, claimed, dropped>>
vars == <<name, aliases, desk, made, begun, history>>

Samples == {i \in Ids : name[i] # Missing}
IsProvisional(n) == Head(n) = "*"

(* What names look like.                                                   *)
IsName(n) ==
  /\ Head(n) \in Stems \cup {"*"}
  /\ Tail(n) \in Seq(Nat)
  /\ n = <<Head(n)>> \o Tail(n)
  /\ IsProvisional(n) => Len(n) = 2

NamesAssumption ==
  /\ MaxSamples \in Nat /\ MaxRequests \in Nat
  /\ IsFiniteSet(Stems) /\ "*" \notin Stems /\ Cleaning \subseteq Stems /\ "" \notin Cleaning
  /\ \A f \in {Format[s] : s \in Stems} \cup {"provisional"} : "none" \notin Renames[f]
  /\ \A names \in Founders :
       /\ Len(names) \in 0 .. MaxSamples /\ DOMAIN names = 1 .. Len(names)
       /\ \A i \in DOMAIN names : IsName(names[i])
       /\ \A i, j \in DOMAIN names : names[i] = names[j] => i = j

-----------------------------------------------------------------------------
(* samples.utils.sample_names and what the forms make of it.               *)

(* A provisional name is an asterisk with a number and nothing else.       *)
sample_name_format(n) ==
  IF ~IsProvisional(n) THEN Format[Head(n)] ELSE IF Len(n) = 2 THEN "provisional" ELSE "none"

valid_new_sample_name(old, new) == sample_name_format(new) \in Renames[sample_name_format(old)]

renamable(n) == Renames[sample_name_format(n)] # {}

does_sample_exist(n) ==
  \/ \E i \in Samples : name[i] = n
  \/ \E a \in aliases : a[1] = n

(* All samples found; more than one can only be found by way of aliases. *)
get_sample(n) ==
  LET named == {i \in Samples : name[i] = n}
  IN  IF named # {} THEN named ELSE {a[2] : a \in {b \in aliases : b[1] = n}}

(* Initials in a name must be those of the user or of a contact of hers. *)
check_sample_name(u, n) ==
  IsProvisional(n) \/ Owners[Head(n)] = {} \/ u \in Owners[Head(n)]

(* The prefixes bulk_rename offers: stems that contain the initials. *)
find_prefixes(u) == {s \in Stems : u \in Owners[s]}

(* The names a user can type in: a stem, or a name with one more number. *)
Inputs == {<<s>> : s \in Stems}
PieceNames(parent) == {Append(parent, k) : k \in 1 .. 2} \cup Inputs

-----------------------------------------------------------------------------
(* Free blocks of names, in add_samples_to_database.                       *)

occupied_provisional_numbers == {name[i][2] : i \in {j \in Samples : IsProvisional(name[j])}}

(* The first gap between two occupied numbers that is wide enough, or else *)
(* the end.                                                                *)
StartingNumber(occupied, n) ==
  LET stops == occupied \cup {0}
      gaps == {k \in stops : \E next \in stops :
                 next > k /\ (k + 1 .. next - 1) \cap stops = {} /\ next - k - 1 >= n}
  IN  IF gaps # {} THEN Min(gaps) + 1 ELSE Max(stops) + 1

(* For cleaning numbers, names go on behind the highest number in use.     *)
(* Names that start with the cleaning number end in a number or count 0.   *)
Subnumbers(c) == {IF Len(name[i]) > 1 THEN Last(name[i]) ELSE 0 :
                    i \in {j \in Samples : Head(name[j]) = c}}

(* The names of the n new samples; stem is "*" or a cleaning number.       *)
Block(stem, n) ==
  LET first == IF stem = "*" THEN StartingNumber(occupied_provisional_numbers, n)
               ELSE IF Subnumbers(stem) = {} THEN 1 ELSE Max(Subnumbers(stem)) + 1
  IN  [k \in 1 .. n |-> <<stem, first + k - 1>>]

-----------------------------------------------------------------------------
(* Plans.  "row" holds the rows of the samples as they were read, "new"    *)
(* their names when they are written back, "keep" the samples whose old    *)
(* name is to be kept, "alias" the new aliases, "insert" the names of new  *)
(* samples, "label" an alias for each of them, "heir" who inherits from a  *)
(* sample that is deleted, "unalias" names that are no alias any more.     *)

NoHeir == [i \in {} |-> i]
Plan == [row |-> [i \in {} |-> Missing], new |-> [i \in {} |-> Missing], keep |-> {},
         alias |-> {}, insert |-> <<>>, label |-> {}, heir |-> NoHeir, unalias |-> {},
         stem |-> "", again |-> FALSE, strict |-> FALSE]

(* Begin: the forms are valid, and the plan is made. *)
Begin(u, plan) ==
  /\ desk[u] = Idle
  /\ begun < MaxRequests
  /\ made + Len(plan.insert) <= MaxSamples
  /\ desk' = [desk EXCEPT ![u] = plan]
  /\ begun' = begun + 1
  /\ arisen' = [arisen EXCEPT ![u] = {}]
  /\ claimed' = [claimed EXCEPT ![u] = {}]
  /\ UNCHANGED <<name, aliases, made, bore, kept, torn, dropped>>

(* institute.views.samples.sample.add: n samples, with provisional names   *)
(* or with names made of a cleaning number, which becomes an alias.        *)
add(u) == \E n \in 1 .. 2, stem \in {"*"} \cup Cleaning, c \in {{}} \cup {{d} : d \in Cleaning} :
  /\ stem # "*" => c = {stem}
  /\ Begin(u, [Plan EXCEPT !.insert = Block(stem, n), !.stem = stem,
                           !.label = {<<d>> : d \in c}])

(* samples.views.bulk_rename; a provisional name never becomes an alias.   *)
bulk_rename(u) == \E ids \in SUBSET Samples \ {{}}, keep \in SUBSET Samples :
  \E new \in [ids -> {<<s>> : s \in find_prefixes(u)}] :
    /\ keep \subseteq {i \in ids : ~IsProvisional(name[i])}
    /\ IsInjective(new)
    /\ \A i \in ids : /\ renamable(name[i])
                      /\ valid_new_sample_name(name[i], new[i])
                      /\ check_sample_name(u, new[i])
                      /\ ~does_sample_exist(new[i])
    /\ Begin(u, [Plan EXCEPT !.row = [i \in ids |-> name[i]], !.new = new, !.keep = keep,
                             !.alias = {<<name[i], i>> : i \in keep}, !.strict = TRUE])

(* samples.views.sample.rename_sample: the form.  The view then looks for  *)
(* the sample by its old name again.                                       *)
rename_sample(u) == \E i \in Samples, n \in Inputs, keep \in BOOLEAN :
  /\ valid_new_sample_name(name[i], n)
  /\ check_sample_name(u, n)
  /\ ~does_sample_exist(n)
  /\ Begin(u, [Plan EXCEPT !.row = [j \in {i} |-> name[i]], !.new = [j \in {i} |-> n],
                           !.keep = IF keep THEN {i} ELSE {},
                           !.alias = IF keep THEN {<<name[i], i>>} ELSE {}, !.again = TRUE])

(* The plan is about the sample that has been found.                       *)
Relocated(plan, i) ==
  [plan EXCEPT !.again = FALSE, !.row = [j \in {i} |-> name[i]],
               !.new = [j \in {i} |-> CHOOSE n \in Range(plan.new) : TRUE],
               !.keep = IF @ = {} THEN {} ELSE {i},
               !.alias = {<<a[1], i>> : a \in @}]

(* Mutant: the renamed sample is identified by its new name. *)
LookAgainByKey(u) ==
  /\ desk[u] # Idle
  /\ desk[u].again
  /\ \E i \in Samples : desk' = [desk EXCEPT ![u] = Relocated(desk[u], i)]
  /\ UNCHANGED <<name, aliases, made, begun, history>>

(* If nobody has got the old name any more, the request ends in an error.  *)
LookAgain(u) ==
  /\ desk[u] # Idle
  /\ desk[u].again
  /\ LET found == {i \in Samples : name[i] \in Range(desk[u].row)}
     IN  \/ found = {} /\ desk' = [desk EXCEPT ![u] = Idle]
         \/ \E i \in found : desk' = [desk EXCEPT ![u] = Relocated(desk[u], i)]
  /\ UNCHANGED <<name, aliases, made, begun, history>>

(* Every view that reads a sample and saves it, e.g. samples.views.sample. *)
edit(u) == \E i \in Samples :
  Begin(u, [Plan EXCEPT !.row = [j \in {i} |-> name[i]], !.new = [j \in {i} |-> name[i]]])

(* samples.views.split_and_rename: one or two pieces with new names, which *)
(* start with the name of the parent or are renames of it.                 *)
split(u) == \E i \in Samples : \E pieces \in SUBSET PieceNames(name[i]) :
  /\ Cardinality(pieces) \in 1 .. 2
  /\ \A n \in pieces :
       /\ \/ IsPrefix(name[i], n) /\ sample_name_format(n) # "none"
          \/ valid_new_sample_name(name[i], n) /\ check_sample_name(u, n)
       /\ ~does_sample_exist(n)
  /\ Begin(u, [Plan EXCEPT !.insert = SetToSeq(pieces)])

(* samples.views.split_after_deposition with one sample: it gets rid of    *)
(* its provisional name, and possibly splits into two pieces.  Its row is  *)
(* written even if the name is the old one; initials are not checked.      *)
split_after_deposition(u) == \E i \in Samples : \E n \in Inputs \cup {name[i]} :
  \E pieces \in {{}, {Append(n, 1), Append(n, 2)}} :
    /\ n # name[i] => ~does_sample_exist(n)
    /\ ~IsProvisional(n)
    /\ valid_new_sample_name(name[i], n) \/ IsPrefix(name[i], n)
    /\ \A p \in pieces : ~does_sample_exist(p)
    /\ LET renamed == IF n # name[i] /\ ~IsProvisional(name[i]) THEN {i} ELSE {}
       IN  Begin(u, [Plan EXCEPT !.row = [j \in {i} |-> name[i]], !.new = [j \in {i} |-> n],
                                 !.keep = renamed, !.alias = {<<name[j], j>> : j \in renamed},
                                 !.insert = SetToSeq(pieces)])

(* samples.views.json_client.add_sample: the aliases of the name, which    *)
(* the new sample would shadow, are removed.                               *)
json_add_sample(u) == \E n \in Inputs :
  Begin(u, [Plan EXCEPT !.insert = <<n>>, !.unalias = {n}])

(* samples.views.merge_samples: the aliases and the name of the deleted    *)
(* sample become aliases of the other one.                                 *)
merge(u) == \E from, to \in Samples :
  /\ from # to
  /\ LET named == <<name[from], to>>
     IN  Begin(u, [Plan EXCEPT !.heir = [i \in {from} |-> to], !.alias = {named},
                               !.row = [i \in IF named \in aliases THEN {} ELSE {to} |-> name[i]],
                               !.new = [i \in IF named \in aliases THEN {} ELSE {to} |-> name[i]]])

-----------------------------------------------------------------------------
(* The rows that are inserted get the next primary keys.                   *)
NewId(k) == made + k
NewIds(plan) == {NewId(k) : k \in DOMAIN plan.insert}

(* The name of a sample is unique, and so is a pair of name and sample     *)
(* among the aliases, which only bulk_rename does not look up before.      *)
Conflicts(plan) ==
  {i \in Samples : \/ \E j \in DOMAIN plan.new : j # i /\ plan.new[j] = name[i]
                   \/ name[i] \in Range(plan.insert)
                   \/ plan.strict /\ \E a \in aliases \cap plan.alias : a[2] = i}

Written(plan) ==
  [i \in Ids |-> CASE i \in DOMAIN plan.heir -> Missing
                   [] i \in DOMAIN plan.new -> plan.new[i]
                   [] i \in NewIds(plan) -> plan.insert[i - made]
                   [] OTHER -> name[i]]

(* Aliases move to the heir; a cleaning number is one for each new sample. *)
Aliased(plan) ==
  {<<a[1], IF a[2] \in DOMAIN plan.heir THEN plan.heir[a[2]] ELSE a[2]>> :
     a \in {b \in aliases : b[1] \notin plan.unalias}}
  \cup plan.alias \cup (plan.label \X NewIds(plan))

Taken(names, as) == {names[i] : i \in {j \in Ids : names[j] # Missing}} \cup {a[1] : a \in as}

(* Save: the transaction commits.  A row that has vanished is inserted     *)
(* again by Django's save().                                               *)
Save(u) ==
  LET plan == desk[u] IN
  /\ plan # Idle
  /\ ~plan.again
  /\ made + Len(plan.insert) <= MaxSamples
  /\ Conflicts(plan) = {}
  /\ name' = Written(plan)
  /\ aliases' = Aliased(plan)
  /\ made' = made + Len(plan.insert)
  /\ desk' = [desk EXCEPT ![u] = Idle]
  /\ begun' = begun
  /\ bore' = [i \in Ids |-> bore[i]
                \cup {n \in {name'[i]} : n # Missing}
                \cup {n \in plan.label : i \in NewIds(plan)}
                \cup UNION {bore[j] : j \in {k \in DOMAIN plan.heir : plan.heir[k] = i}}]
  /\ kept' = [i \in Ids |-> kept[i]
                \cup {n \in {name[i]} : i \in plan.keep /\ n # name'[i] /\ n # Missing}
                \cup UNION {kept[j] \cup {name[j]} : j \in {k \in DOMAIN plan.heir : plan.heir[k] = i}}]
  /\ torn' = torn \cup {i \in DOMAIN plan.row : plan.row[i] # name[i]}
                  \cup {plan.heir[i] : i \in {j \in DOMAIN plan.heir :
                           j \in torn \/ <<name[j], plan.heir[j]>> \notin plan.alias}}
  /\ arisen' = [v \in Users |-> IF desk[v] = Idle \/ v = u THEN {}
                ELSE arisen[v] \cup (Taken(name', aliases') \ Taken(name, aliases))]
  /\ claimed' = [v \in Users |-> IF desk[v] = Idle \/ v = u THEN {} ELSE claimed[v] \cup (Range(name') \ Range(name))]
  /\ dropped' = dropped \cup plan.unalias

(* An IntegrityError: everything is rolled back, and an error is reported. *)
(* "add" rolls back to its savepoint in order to look for new names, but   *)
(* Django has marked the transaction of the request as broken and refuses. *)
Fail(u) ==
  LET plan == desk[u] IN
  /\ plan # Idle
  /\ Conflicts(plan) # {}
  /\ desk' = [desk EXCEPT ![u] = Idle]
  /\ UNCHANGED <<name, aliases, made, begun, history>>

Init ==
  /\ \E names \in Founders :
       /\ name = [i \in Ids |-> IF i \in DOMAIN names THEN names[i] ELSE Missing]
       /\ made = Len(names)
  /\ aliases = {}
  /\ desk = [u \in Users |-> Idle]
  /\ begun = 0
  /\ bore = [i \in Ids |-> {name[i]} \ {Missing}]
  /\ kept = [i \in Ids |-> {}]
  /\ torn = {}
  /\ arisen = [u \in Users |-> {}]
  /\ claimed = [u \in Users |-> {}]
  /\ dropped = {}

Serve(u) ==
  /\ desk[u] = Idle /\ begun < MaxRequests
  /\ \/ add(u) \/ bulk_rename(u) \/ rename_sample(u) \/ edit(u) \/ split(u)
     \/ split_after_deposition(u) \/ json_add_sample(u) \/ merge(u)

Next == \E u \in Users : Save(u) \/ Fail(u) \/ LookAgain(u) \/ Serve(u)

Spec == Init /\ [][Next]_vars
-----------------------------------------------------------------------------
Names == {name[i] : i \in Samples} \cup {a[1] : a \in aliases}

(* Names are names of existing samples and unique, aliases belong to       *)
(* samples, and plans write to rows that have been read.                   *)
TypeOK ==
  /\ made \in 0 .. MaxSamples
  /\ begun \in 0 .. MaxRequests
  /\ \A i \in Samples : i <= made /\ Head(name[i]) \in Stems \cup {"*"}
  /\ \A i, j \in Samples : name[i] = name[j] => i = j
  /\ \A a \in aliases : a[2] \in Ids
  /\ \A u \in Users : desk[u] # Idle =>
       /\ DOMAIN desk[u].row = DOMAIN desk[u].new
       /\ desk[u].keep \subseteq DOMAIN desk[u].row

(* "add" reserves the first numbers that are free, as long as the request  *)
(* wants them in a row: no smaller start would have done, and none of the  *)
(* names is in use when it is chosen.                                      *)
FitsFirst ==
  \A u \in Users : desk'[u] # Idle /\ desk'[u] # desk[u] /\ desk'[u].stem # "" =>
    LET block == desk'[u].insert
        Fits(k) == \A i \in DOMAIN block : <<desk'[u].stem, k + i - 1>> \notin Range(name)
    IN  /\ Fits(block[1][2])
        /\ \A k \in 1 .. block[1][2] - 1 : desk'[u].stem = "*" => ~Fits(k)

(* Whoever adds samples is refused only if one of the names found for them *)
(* has been given to another sample in between.                            *)
RefusedByRivals ==
  \A u \in Users : desk[u] # Idle /\ desk'[u] = Idle /\ name' = name /\ desk[u].stem # ""
    => Range(desk[u].insert) \cap claimed[u] # {}

(* A former name that was to be kept still leads to the sample, through    *)
(* renames, splits and merges, unless somebody else bears that name now,   *)
(* the alias was removed in favour of a new sample, or requests on this    *)
(* sample have overlapped.                                                 *)
KeptNamesLeadHome ==
  \A i \in Samples \ torn : \A n \in kept[i] :
    i \in get_sample(n) \/ n \in dropped \/ (\E j \in Samples : name[j] = n)

(* Only names that one of the samples has borne lead to it, as its name,   *)
(* its former name, the name of what was merged into it, or its cleaning   *)
(* number.                                                                 *)
FoundByItsOwnNames == \A n \in Names : \A i \in get_sample(n) \cap Samples : n \in bore[i]

(* A name that leads to one sample does not get another one silently: only *)
(* numbers given automatically, and names that have become occupied after  *)
(* they had been checked, may hide an alias.  A hidden alias remains so if *)
(* its sample is merged into another one.                                  *)
HiddenByChance ==
  \A a \in aliases' : \A i \in Samples' :
    /\ name'[i] = a[1]
    /\ i # a[2]
    /\ a[2] \in Samples'
    /\ ~(name[i] = a[1] /\ \E b \in aliases : b[1] = a[1] /\ b[2] \in {a[2]} \cup (Ids \ Samples'))
    => \/ IsProvisional(a[1])
       \/ Head(a[1]) \in Cleaning
       \/ i \in torn' \/ a[2] \in torn'
       \/ \E u \in Users : desk[u] # Idle /\ desk'[u] = Idle /\ a[1] \in arisen[u]

(* Names lead to the samples that have borne them, are given in order, and *)
(* are taken from others only by chance.                                   *)
NamesLeadHome ==
  /\ TypeOK'
  /\ KeptNamesLeadHome'
  /\ FoundByItsOwnNames'
  /\ FitsFirst
  /\ RefusedByRivals
  /\ HiddenByChance
=============================================================================
