------------------------------- MODULE Tables -------------------------------
(***************************************************************************)
(* The export of a table: table_export, with the data nodes it is built    *)
(* from.  A tree of data nodes becomes a table in three steps: nodes are   *)
(* given unambiguous names, nodes with the same name are given the same    *)
(* items, and then each name becomes a group of columns.  In a dialogue,   *)
(* the user selects groups, columns and rows.                              *)
(*                                                                         *)
(* A row of the tree is the sequence of its nodes in the order of a walk   *)
(* through it; each node knows the place of its parent, which is 0 for the *)
(* first one.  A name is a sequence of parts.                              *)
(***************************************************************************)
EXTENDS Integers, Sequences, FiniteSets, SequencesExt

CONSTANTS
  Trees,    (* trees of data nodes, as sequences of rows *)
  Dialogs,  (* those of them with which the user goes on *)
  Number,   (* what is appended to the n-th name of its kind *)
  None      (* items without origin *)

VARIABLES
  tree,     (* the tree *)
  stage,    (* how far it is: raw, named or complete *)
  previous, (* the selection of the page before: groups, columns, whether rows can be ticked *)
  file      (* the exported table: groups, columns and rows, or None *)

vars == <<tree, stage, previous, file>>

Item(key, value, origin) == [key |-> key, value |-> value, origin |-> origin]
Places == UNION {{i} \X DOMAIN tree[i] : i \in DOMAIN tree}
NodeAt(p) == tree[p[1]][p[2]]
-----------------------------------------------------------------------------
(* Children of rows are numbered, their children get the name of their     *)
(* parent in addition.                                                     *)
Numbered(row, i) ==
  LET twins == {j \in 1 .. i - 1 : row[j].parent = row[i].parent /\ row[j].name = row[i].name}
  IN  IF twins = {} THEN row[i].name ELSE Append(row[i].name, Number[Cardinality(twins) + 1])

UniqueName(row) ==
  LET Name[i \in DOMAIN row] ==
        IF row[i].parent = 0 THEN row[i].name
        ELSE IF row[row[i].parent].parent = 0 THEN Numbered(row, i)
        ELSE Name[row[i].parent] \o <<",">> \o Numbered(row, i)
  IN  Name

find_unambiguous_names ==
  /\ stage = "raw"
  /\ stage' = "named"
  /\ tree' = [r \in DOMAIN tree |-> [i \in DOMAIN tree[r] |-> [tree[r][i] EXCEPT !.name = UniqueName(tree[r])[i]]]]
  /\ UNCHANGED <<previous, file>>

KeysOf(node) == {<<node.items[i].key, node.items[i].origin>> : i \in DOMAIN node.items}

KeySet(p) == UNION {KeysOf(NodeAt(q)) : q \in {q \in Places : NodeAt(q).name = NodeAt(p).name}}

complete_items_in_children ==
  /\ stage = "named"
  /\ stage' = "complete"
  /\ tree' = [r \in DOMAIN tree |-> [i \in DOMAIN tree[r] |->
       [tree[r][i] EXCEPT !.items = @ \o
          [k \in 1 .. Cardinality(KeySet(<<r, i>>) \ KeysOf(tree[r][i])) |->
             LET missing == SetToSeq(KeySet(<<r, i>>) \ KeysOf(tree[r][i]))[k] IN Item(missing[1], <<>>, missing[2])]]]]
  /\ UNCHANGED <<previous, file>>
-----------------------------------------------------------------------------

(* Items of rows with the same origin share a column, in whatever group.   *)
SharedColumns(columns, node, item) ==
  {c \in DOMAIN columns : node.parent = 0 /\ item.origin # None /\ columns[c].shared = <<item.origin, item.key>>}

AddItem(state, node, item) ==
  LET shared == SharedColumns(state.columns, node, item)
      c == IF shared = {} THEN Len(state.columns) + 1 ELSE CHOOSE s \in shared : TRUE
  IN  [state EXCEPT
         !.columns = IF shared = {}
                     THEN Append(@, [key |-> item.key, groups |-> <<node.name>>,
                                     shared |-> IF node.parent = 0 /\ item.origin # None THEN <<item.origin, item.key>> ELSE None])
                     ELSE [@ EXCEPT ![c].groups = Append(@, node.name)],
         !.groups[state.position].keys = [k \in DOMAIN @ \cup {item.key} |-> IF k = item.key THEN c ELSE @[k]]]

(* A known group only moves the position at which new ones are inserted.   *)
AddNode(state, node) ==
  LET known == {g \in DOMAIN state.groups : state.groups[g].name = node.name} IN
  IF state.row > 1 /\ known # {}
  THEN [state EXCEPT !.position = (CHOOSE g \in known : \A h \in known : g <= h) + 1]
  ELSE LET inserted == [state EXCEPT !.groups =
             InsertAt(@, state.position, [name |-> node.name, keys |-> [k \in {} |-> 0]])]
           filled == FoldLeft(LAMBDA st, item : AddItem(st, node, item), inserted, node.items)
       IN  [filled EXCEPT !.position = @ + 1]

build_column_group_list ==
  FoldLeft(LAMBDA state, row : [FoldLeft(AddNode, state, row) EXCEPT !.row = @ + 1],
           [groups |-> <<>>, columns |-> <<>>, position |-> 1, row |-> 1], tree)

(* disambig_key_names: the names of groups are added to keys that occur in *)
(* several columns.                                                        *)
Heading(columns, c) ==
  IF \E d \in DOMAIN columns \ {c} : columns[d].key = columns[c].key
  THEN <<columns[c].key, columns[c].groups>> ELSE <<columns[c].key>>

(* flatten_tree: the last node with a name, and the last item with a key.  *)
flatten_row_tree(row, name) ==
  LET found == {i \in DOMAIN row : row[i].name = name}
      items == row[CHOOSE i \in found : \A j \in found : j <= i].items
      LastWith(key) == CHOOSE i \in DOMAIN items :
                     items[i].key = key /\ \A j \in DOMAIN items : items[j].key = key => j <= i
  IN  [key \in {items[i].key : i \in DOMAIN items} |-> items[LastWith(key)].value]

GroupsIn(row, column) == {g \in DOMAIN column.groups : \E i \in DOMAIN row : row[i].name = column.groups[g]}

(* Mutant: only the group that made the column. *)
GetOwnValue(row, column) ==
  IF GroupsIn(row, column) \cap {1} = {} THEN <<>> ELSE flatten_row_tree(row, column.groups[1])[column.key]

get_value(row, column) ==
  LET found == GroupsIn(row, column) IN
  IF found = {} THEN <<>>
  ELSE flatten_row_tree(row, column.groups[CHOOSE g \in found : \A h \in found : g <= h])[column.key]
-----------------------------------------------------------------------------
(* The dialogue.  Choices for columns are those of the groups that were    *)
(* selected in the page before.                                            *)
SelectableGroups ==
  LET groups == build_column_group_list.groups
      names == {groups[g].name : g \in DOMAIN groups}
  IN  IF Len(groups) = 1 THEN {names} ELSE (SUBSET names) \ {{}}

ColumnsOf(names) ==
  LET groups == build_column_group_list.groups
  IN  UNION {{groups[i].keys[k] : k \in DOMAIN groups[i].keys} : i \in {i \in DOMAIN groups : groups[i].name \in names}}

IsConfirmed(groups, columns) ==
  previous.rows /\ previous.groups = groups /\ previous.columns = columns

table_export ==
  /\ stage = "complete" /\ tree \in Dialogs
  /\ \E groups \in SelectableGroups, columns \in SUBSET ColumnsOf(previous.groups), ticked \in SUBSET DOMAIN tree :
       /\ columns = {} => ticked = {}
       /\ IF columns # {} /\ IsConfirmed(groups, columns)
          THEN file' = [groups |-> groups, columns |-> columns, rows |-> ticked] /\ UNCHANGED previous
          ELSE /\ previous' = [groups |-> groups, columns |-> columns, rows |-> columns # {}]
               /\ file' = None
  /\ UNCHANGED <<tree, stage>>

Init ==
  /\ tree \in Trees
  /\ stage = "raw"
  /\ previous = [groups |-> {}, columns |-> {}, rows |-> FALSE]
  /\ file = None

Next == find_unambiguous_names \/ complete_items_in_children \/ table_export

Spec == Init /\ [][Next]_vars
-----------------------------------------------------------------------------
Complete == stage = "complete"

(* No cell of the table raises a KeyError, whatever quantities the results *)
(* of the same title have.                                                 *)
NoCellMissing ==
  Complete => LET columns == build_column_group_list.columns IN
    \A c \in DOMAIN columns, r \in DOMAIN tree : LET column == columns[c] IN
    \A g \in GroupsIn(tree[r], column) : column.key \in DOMAIN flatten_row_tree(tree[r], column.groups[g])

(* Names that users have given to two nodes of a row, or keys they have    *)
(* chosen like the name of a field.                                        *)
IsAmbiguous(p, item) ==
  \/ \E i \in DOMAIN tree[p[1]] \ {p[2]} : tree[p[1]][i].name = NodeAt(p).name
  \/ \E q \in KeySet(p) : q[1] = item.key /\ q[2] # item.origin

(* Every value is found in the table: in the row of its node, and in the   *)
(* column its group has for the key.                                       *)
ValuesAreFound ==
  Complete => LET built == build_column_group_list IN
    \A p \in Places : \A i \in DOMAIN NodeAt(p).items :
      LET item == NodeAt(p).items[i] IN
      ~IsAmbiguous(p, item) =>
        \E g \in DOMAIN built.groups :
          /\ built.groups[g].name = NodeAt(p).name
          /\ get_value(tree[p[1]], built.columns[built.groups[g].keys[item.key]]) = item.value

(* The headings differ, so that no column is lost in the JSON form of the  *)
(* table, except of nodes with ambiguous names or keys.                    *)
HeadingsDiffer ==
  Complete /\ (\A p \in Places : \A i \in DOMAIN NodeAt(p).items : ~IsAmbiguous(p, NodeAt(p).items[i])) =>
    LET columns == build_column_group_list.columns IN
    \A c, d \in DOMAIN columns : Heading(columns, c) = Heading(columns, d) => c = d

(* The file has only columns of the groups that are selected, also if the  *)
(* groups are changed in between.                                          *)
FileAsSelected == file # None => file.columns \subseteq ColumnsOf(file.groups)

(* A table has every value in a column with a heading of its own, and      *)
(* every cell can be filled.                                               *)
TablesAreComplete ==
  /\ NoCellMissing
  /\ ValuesAreFound
  /\ HeadingsDiffer
  /\ FileAsSelected
=============================================================================
