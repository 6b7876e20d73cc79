----------------------------- MODULE SampleList -----------------------------
(***************************************************************************)
(* The structured list of samples: topics with their sub-topics, sample    *)
(* series and samples.  It is the list of My Samples in the main menu, and *)
(* the selection box for samples in the forms of processes.  Topics and    *)
(* series can be folded, and then the box does not offer their samples.    *)
(*                                                                         *)
(* A structured topic is an object that may be part of several others, so  *)
(* that they are kept in a sequence and referred to by their places.       *)
(***************************************************************************)
EXTENDS Integers, Sequences, FiniteSets, SequencesExt

CONSTANTS
  Samples,     (* numbers of samples, in the order of their names *)
  Topics,      (* numbers of topics *)
  Trees,       (* functions from topics to their parents; 0 is no parent *)
  Places,      (* where samples may be: a topic, or 0, and a set of series *)
  SeriesTopic, (* function from the numbers of sample series to their topics *)
  MySamples,   (* My Samples of the user *)
  Selections   (* the samples a user may select in the form of the process *)

VARIABLES
  parent,  (* the parents of topics *)
  place,   (* the places of samples *)
  folded,  (* the folded topics and series of the user *)
  edited   (* the samples of a process that the user edits *)

vars == <<parent, place, folded, edited>>

SeriesNames == DOMAIN SeriesTopic

(* The objects so far, and the dictionary, in which each topic refers to   *)
(* its object, in the order of insertion.                                  *)
Structured(topic) == [topic |-> topic, samples |-> <<>>, series |-> {}, sub_topics |-> <<>>]
Nothing == [objects |-> <<>>, topics |-> <<>>, series |-> [s \in {} |-> <<>>], topicless |-> <<>>]

Entry(list, topic) == {list.topics[i][2] : i \in {i \in DOMAIN list.topics : list.topics[i][1] = topic}}
Created(list, topic) ==
  [list EXCEPT !.objects = Append(@, Structured(topic)), !.topics = Append(@, <<topic, Len(list.objects) + 1>>)]
WithTopic(list, topic) == IF Entry(list, topic) = {} THEN Created(list, topic) ELSE list
Place(list, topic) == CHOOSE n \in Entry(list, topic) : TRUE
-----------------------------------------------------------------------------
(* A sample is put into all series it is in, and only without a series     *)
(* directly into its topic.                                                *)
InSeries(list, sample, s) ==
  LET topical == WithTopic(list, SeriesTopic[s])
      first == [topical EXCEPT !.objects[Place(topical, SeriesTopic[s])].series = @ \cup {s}]
  IN  IF s \in DOMAIN list.series
      THEN [list EXCEPT !.series[s] = Append(@, sample)]
      ELSE [first EXCEPT !.series = [r \in DOMAIN @ \cup {s} |-> IF r = s THEN <<sample>> ELSE @[r]]]

AddSample(list, sample) ==
  LET topical == WithTopic(list, place[sample].topic)
  IN  IF place[sample].series # {}
      THEN FoldLeft(LAMBDA l, s : InSeries(l, sample, s), list, SetToSeq(place[sample].series))
      ELSE IF place[sample].topic # 0
      THEN [topical EXCEPT !.objects[Place(topical, place[sample].topic)].samples = Append(@, sample)]
      ELSE [list EXCEPT !.topicless = Append(@, sample)]

(* The object becomes a sub-topic of its parent, and the parent one of the *)
(* grandparent.  Ancestors that are not in the dictionary are created; the *)
(* result says which object is the parent.                                 *)
RECURSIVE append_topic_to_ancestors(_, _)
append_topic_to_ancestors(list, n) ==
  LET topic == parent[list.objects[n].topic]
      known == Entry(list, topic) # {}
      p == IF known THEN Place(list, topic) ELSE Len(list.objects) + 1
      created == IF known THEN list.objects ELSE Append(list.objects, Structured(topic))
      appended == [list EXCEPT !.objects = [created EXCEPT ![p].sub_topics = Append(@, n)]]
  IN  IF parent[topic] # 0 THEN [append_topic_to_ancestors(appended, p) EXCEPT !.parent = p]
      ELSE [list |-> appended, parent |-> p]

(* The parent replaces a sub-topic in the dictionary. *)
ReplaceByParent(list, entry) ==
  LET result == append_topic_to_ancestors(list, entry[2])
      topic == parent[entry[1]]
      Remains(e) == e[1] # entry[1]
  IN  IF parent[entry[1]] = 0 THEN list
      ELSE [result.list EXCEPT !.topics =
              SelectSeq(IF Entry(list, topic) = {} THEN Append(@, <<topic, result.parent>>) ELSE @, Remains)]

build_structured_sample_list(samples) ==
  LET grouped == FoldLeft(AddSample, Nothing, SetToSortSeq(samples, <))
  IN  FoldLeft(ReplaceByParent, grouped, grouped.topics)

(* The samples offered by a structured topic unless they are hidden. *)
RECURSIVE get_samples_from_topic(_, _, _)
get_samples_from_topic(list, n, hidden) ==
  LET object == list.objects[n]
      Series(s) == IF s \in hidden THEN <<>> ELSE list.series[s]
  IN  IF object.topic \in hidden THEN <<>>
      ELSE object.samples
           \o FlattenSeq([i \in 1 .. Cardinality(object.series) |-> Series(SetToSeq(object.series)[i])])
           \o FlattenSeq([i \in DOMAIN object.sub_topics |-> get_samples_from_topic(list, object.sub_topics[i], hidden)])

Offered(samples, hidden) ==
  LET list == build_structured_sample_list(samples)
  IN  list.topicless \o FlattenSeq([i \in DOMAIN list.topics |-> get_samples_from_topic(list, list.topics[i][2], hidden)])

Ancestors(topics) ==
  LET Up(ts) == ts \cup {parent[t] : t \in ts \ {0}}
  IN  FoldLeft(LAMBDA ts, i : Up(ts), topics, [i \in 1 .. Cardinality(Topics) |-> i])

(* Mutant: the topics of important series remain folded. *)
OwnTopicsOnly(important) ==
  Ancestors({place[s].topic : s \in important}) \cup UNION {place[s].series : s \in important}

(* The topics and series of important samples are never folded. *)
Unfolded(important) ==
  LET series == UNION {place[s].series : s \in important}
  IN  series \cup Ancestors({place[s].topic : s \in important} \cup {SeriesTopic[s] : s \in series})

(* The choices in the form of a process with the given important samples.  *)
set_samples(important) == Offered(MySamples \cup important, folded \ Unfolded(important))

fold_main_menu_element(element) ==
  /\ folded' = IF element \in folded THEN folded \ {element} ELSE folded \cup {element}
  /\ UNCHANGED <<parent, place, edited>>

(* The form is built anew when it is sent, with the samples that the       *)
(* process has got in the meantime.  Only offered samples are accepted.    *)
post(selection) ==
  /\ selection \subseteq ToSet(set_samples(edited))
  /\ edited' = selection
  /\ UNCHANGED <<parent, place, folded>>

Init ==
  /\ parent \in Trees
  /\ place \in [Samples -> Places]
  /\ folded = {}
  /\ edited \in Selections

Next ==
  \/ \E element \in Topics \cup SeriesNames : fold_main_menu_element(element)
  \/ \E selection \in Selections : post(selection)

Spec == Init /\ [][Next]_vars
-----------------------------------------------------------------------------
Times(sample, list) == Cardinality({i \in DOMAIN list : list[i] = sample})
IsFlat == \A t \in Topics : parent[t] = 0 \/ parent[parent[t]] = 0

(* No sample gets lost in the structure, however deep topics are nested,   *)
(* and no other sample appears.  If sub-topics have no sub-topics, it is   *)
(* shown once, or once for each of its series.                             *)
AllListed ==
  LET list == Offered(MySamples, {})
  IN  /\ ToSet(list) = MySamples
      /\ IsFlat => \A s \in MySamples :
           Times(s, list) = IF place[s].series = {} THEN 1 ELSE Cardinality(place[s].series)

(* Whoever edits a process is offered the samples it has, whatever is      *)
(* folded, so that the form can be sent without losing one of them.        *)
ImportantAreOffered == edited \subseteq ToSet(set_samples(edited))

(* All samples are in the menu, and in forms those that belong there.      *)
ListsAreComplete == AllListed /\ ImportantAreOffered
=============================================================================
