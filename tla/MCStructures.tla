---------------------------- MODULE MCStructures ----------------------------
(***************************************************************************)
(* The sequential data structures of the repository, side by side for TLC: *)
(* the growing string, the list containers and the tables.  A behaviour is *)
(* one of StringView, of Containers or of Tables.                          *)
(***************************************************************************)
EXTENDS StringView

CONSTANTS a, b, MaxNodes, Values, TextSize, Keys, MaxEntries, RH_ENTRIES

(* The keys of the tables are ints or unsigned longs.                      *)
ASSUME StructuresAssumption ==
  /\ MaxNodes \in Nat
  /\ Keys \subseteq Int /\ RH_ENTRIES \in Nat

VARIABLES subject, kind, next, prev, value, count, result, demo, order, made, live, oops, ip

C == INSTANCE Containers
T == INSTANCE Tables

(* Texts over two characters, of up to GROW = 4 of them.                   *)
SomeTexts == {<< >>, <<a>>, <<a, b>>, <<b, a, a>>, <<a, b, a, a>>}

containers == <<kind, next, prev, value, count, result>>
tables == <<demo, order, made>>
shared == <<live, oops, ip>>

MCInit ==
  /\ Init /\ C!Init /\ T!Init
  /\ \/ subject = "string" /\ ip = 0 /\ demo = "map"
     \/ subject = "containers" /\ demo = "map"
     \/ subject = "tables"

MCNext ==
  /\ UNCHANGED subject
  /\ \/ subject = "string" /\ Next /\ UNCHANGED <<containers, tables, shared>>
     \/ subject = "containers" /\ C!Next /\ UNCHANGED <<vars, tables>>
     \/ subject = "tables" /\ T!Next /\ UNCHANGED <<vars, containers>>

MCFairSpec ==
  /\ MCInit /\ [][MCNext]_<<vars, subject, containers, tables, shared>>
  /\ Fairness

-----------------------------------------------------------------------------
(* Whatever is pushed, popped, inserted and removed in whatever order, the *)
(* head and the nodes of a container form one ring in both directions and  *)
(* a queue's and a stack's count is right, unless link_list_remove has     *)
(* unlinked the head of a list; list_init never does that and leaks the    *)
(* one node that link_list_remove unlinks.                                 *)
RingIntact == subject = "containers" => C!RingIntact /\ C!ListInitLeaksOne

(* Until then a container is the sequence it stands for: each value comes  *)
(* out once, in order, and one call changes one place.                     *)
ImplementsSequence == C!ImplementsSequence

(* insert_node and search_node of the red-black tree come to the same      *)
(* place in a tree of whatever shape, which keeps it sorted.               *)
TreeFinds == T!TreeFinds

(* What is allocated is in its table, but for one entry of the rhashtable  *)
(* demonstration and for what the interval tree demonstration leaves.      *)
EntriesAccounted == subject = "tables" => T!EntriesAccounted
=============================================================================
