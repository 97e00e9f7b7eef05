------------------------------- MODULE Tables -------------------------------
(***************************************************************************)
(* The four demonstrations of the kernel's tables: the hash table of       *)
(* src/src/map/map.c, the red-black tree of src/src/rbtree/main.c, the     *)
(* interval tree of src/src/rbtree/interval_tree.c and the resizable hash  *)
(* table of src/src/rhashtable/main.c.  Each is the program its init (and  *)
(* exit) function runs; the functions of the first three are also called   *)
(* with any other arguments.                                               *)
(*                                                                         *)
(* A table is the sequence of its entries in the order in which the kernel *)
(* walks them: by key in a tree, the newest first in a bucket.  The shape  *)
(* of a tree is the business of rb_insert_color and rb_erase, which keep   *)
(* that order: wherever the code descends, every shape is considered.      *)
(***************************************************************************)
EXTENDS Integers, Sequences, SequencesExt

CONSTANTS Keys,         \* bound: the keys of calls that no demonstration makes
          MaxEntries,   \* bound: the entries made by such calls
          RH_ENTRIES    \* entries of the rhashtable demonstration (1000)

VARIABLES demo,    \* "map", "rbtree", "interval" or "rhashtable"
          ip,      \* the next call of the demonstration, 0 for any call
          order,   \* the entries in the table: id, key (or start) and last
          live,    \* the ids of the entries that are allocated
          made,    \* entries made so far
          oops     \* memory was used that must not be

vars == <<demo, ip, order, live, made, oops>>

Call(op, key, last) == [op |-> op, key |-> key, last |-> last]

map_init == <<Call("insert", 1, 0), Call("insert", 2, 0), Call("remove", 1, 0), Call("clear", 0, 0)>>
rbtree_init_exit ==
  [i \in 1 .. 6 |-> Call("insert", <<100, 200, 150, 220, 300, 110>>[i], 0)] \o <<Call("clear", 0, 0)>>
interval_tree_test_init ==
  [i \in 1 .. 5 |-> Call("insert", 10 * (i - 1), 10 * i)]
    \o <<Call("remove", 9, 15), Call("search", 1, 10), Call("search", 15, 25),
         Call("search", 45, 55), Call("search", 65, 75)>>
rhashtable_init ==
  [i \in 1 .. RH_ENTRIES |-> Call("insert", i - 1, 0)] \o <<Call("remove", 1, 0), Call("clear", 0, 0)>>

Program ==
  CASE demo = "map" -> map_init [] demo = "rbtree" -> rbtree_init_exit
    [] demo = "interval" -> interval_tree_test_init [] demo = "rhashtable" -> rhashtable_init

-----------------------------------------------------------------------------
Ids == {order[i].id : i \in DOMAIN order}
Entries == Len(order)
Follow == ip' = IF ip = 0 THEN 0 ELSE ip + 1
err_exit == ip' = Len(Program)
Nothing == Follow /\ UNCHANGED <<demo, order, live, made, oops>>
Fault == oops' = TRUE /\ Follow /\ UNCHANGED <<demo, order, live, made>>

(* The loop of insert_node and of search_node in a tree of any shape: the  *)
(* place of the key, or the place where it is missing.                     *)
descend_unordered(key) == {[found |-> FALSE, at |-> Entries + 1]}
descend(key) ==
  LET d[p \in (1 .. Entries + 1) \X (0 .. Entries)] ==
        IF p[1] > p[2] THEN {[found |-> FALSE, at |-> p[1]]}
        ELSE UNION {IF key < order[r].key THEN d[<<p[1], r - 1>>]
                    ELSE IF key > order[r].key THEN d[<<r + 1, p[2]>>]
                    ELSE {[found |-> TRUE, at |-> r]} : r \in p[1] .. p[2]}
  IN  d[<<1, Entries>>]

(* interval_tree_iter_first and interval_tree_iter_next: the entries that  *)
(* overlap, by their start.                                                *)
overlapping(start, last) == {i \in 1 .. Entries : order[i].key =< last /\ start =< order[i].last}

(* A new entry at place p.                                                 *)
put(p, key, last) ==
  /\ order' = InsertAt(order, p, [id |-> made + 1, key |-> key, last |-> last])
  /\ live' = live \cup {made + 1}
  /\ made' = made + 1
  /\ Follow /\ UNCHANGED <<demo, oops>>

(* The insertions.  An allocation that fails is passed over by add_element *)
(* and insert, not noticed by insert_node, and ends the demonstration of   *)
(* rhashtable, as does a failed rhashtable_insert_fast (the lookups that   *)
(* follow its loop find what it has inserted).                             *)
add_element(key) == demo = "map" /\ (put(1, key, key) \/ Nothing)

insert_node(key) ==
  /\ demo = "rbtree"
  /\ \E r \in descend(key) : \/ r.found /\ Nothing
                             \/ ~r.found /\ (put(r.at, key, key) \/ Fault)

insert(start, last) ==
  /\ demo = "interval"
  /\ \/ put(Cardinality({i \in 1 .. Entries : order[i].key =< start}) + 1, start, last)
     \/ Nothing

rhashtable_insert_fast(key) ==
  /\ demo = "rhashtable"
  /\ put(1, key, key) \/ (err_exit /\ UNCHANGED <<demo, order, live, made, oops>>)

(* What a lookup finds.                                                    *)
matching(key, last) ==
  CASE demo = "rbtree" -> {r.at : r \in {r \in descend(key) : r.found}}
    [] demo = "interval" -> LET S == overlapping(key, last) IN IF S = {} THEN {} ELSE {Max(S)}
    [] OTHER -> LET S == {i \in 1 .. Entries : order[i].key = key} IN IF S = {} THEN {} ELSE {Min(S)}

(* remove_element(get_element(key)), delete_node, remove, and the removal  *)
(* in the rhashtable demonstration, which does not free the entry.  Where  *)
(* nothing overlaps, search returns a pointer it has not set.              *)
freed_by_remove(i) == IF demo = "rhashtable" THEN {} ELSE {order[i].id}
remove(key, last) ==
  \/ \E i \in matching(key, last) :
       /\ order' = RemoveAt(order, i)
       /\ live' = live \ freed_by_remove(i)
       /\ Follow /\ UNCHANGED <<demo, made, oops>>
  \/ /\ matching(key, last) = {}
     /\ Nothing \/ (demo = "interval" /\ Fault)

(* search of the interval tree, whose result the caller reads.             *)
search(start, last) ==
  Nothing \/ (demo = "interval" /\ overlapping(start, last) = {} /\ Fault)

(* clear, end_exit, remove_all, rhashtable_free_and_destroy.               *)
freed_by_clear_but_first == {order[i].id : i \in 2 .. Entries}
freed_by_clear == Ids
clear ==
  /\ order' = << >> /\ live' = live \ freed_by_clear
  /\ Follow /\ UNCHANGED <<demo, made, oops>>

Do(c) ==
  \/ /\ c.op = "insert"
     /\ \/ add_element(c.key) \/ insert_node(c.key) \/ insert(c.key, c.last)
        \/ rhashtable_insert_fast(c.key)
  \/ c.op = "remove" /\ remove(c.key, c.last)
  \/ c.op = "search" /\ search(c.key, c.last)
  \/ c.op = "clear" /\ clear

AnyCall(k, l) ==
  \/ made < MaxEntries /\ Do(Call("insert", k, l))
  \/ Do(Call("remove", k, l)) \/ Do(Call("search", k, l)) \/ Do(Call("clear", k, l))

-----------------------------------------------------------------------------
Init ==
  /\ demo \in {"map", "rbtree", "interval", "rhashtable"}
  /\ ip \in IF demo = "rhashtable" THEN {1} ELSE {0, 1}
  /\ order = << >> /\ live = {} /\ made = 0 /\ oops = FALSE

Next ==
  /\ ~oops
  /\ \/ ip \in DOMAIN Program /\ Do(Program[ip])
     \/ ip = 0 /\ \E k, l \in Keys : k =< l /\ AnyCall(k, l)

Spec == Init /\ [][Next]_vars

-----------------------------------------------------------------------------
(* In a tree of whatever shape insert_node and search_node come to the     *)
(* same place: a key that is in the tree is found there, one that is not   *)
(* is missed where it belongs, and so the tree stays sorted and without    *)
(* duplicates through any insertions and deletions.                        *)
TreeFinds ==
  demo = "rbtree" =>
    /\ \A i, j \in 1 .. Entries : i < j => order[i].key < order[j].key
    /\ \A key \in Keys : \A r \in descend(key) :
         IF r.found THEN order[r.at].key = key
         ELSE /\ \A i \in 1 .. r.at - 1 : order[i].key < key
              /\ \A i \in r.at .. Entries : order[i].key > key

(* An entry in a table is allocated, and an entry that is allocated is in  *)
(* the table: all but the one that the rhashtable demonstration takes out  *)
(* and does not free.  When a demonstration is over that one, and whatever *)
(* is in the interval tree, is what has leaked.                            *)
EntriesAccounted ==
  /\ Cardinality(Ids) = Entries /\ Ids \subseteq live
  /\ demo # "rhashtable" => live = Ids
  /\ Cardinality(live \ Ids) =< 1
  /\ ip > Len(Program) /\ demo # "interval" => order = << >>
=============================================================================
