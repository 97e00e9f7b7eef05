----------------------------- MODULE Containers -----------------------------
(***************************************************************************)
(* The list, queue and stack of src/src/list/container.c and their user    *)
(* list_init (src/src/list/main.c): rings of nodes linked through a head,  *)
(* as the kernel's list.h lays them out, and a count kept on the side.     *)
(*                                                                         *)
(* The three containers differ only in where a value enters, so one set of *)
(* actions serves them.  Every kmalloc of the file asks for the size of a  *)
(* pointer, fewer bytes than are then written, and none is checked: an     *)
(* allocation is either large enough by luck of the allocator or nothing   *)
(* more is specified (oops).  The value written and read is an int; in the *)
(* text of to_string a value takes one character.                          *)
(***************************************************************************)
EXTENDS Integers, Sequences, FiniteSets

CONSTANTS MaxNodes,   \* bound: nodes allocated at a time
          Values,     \* the values that users other than list_init store
          TextSize    \* PATH_MAX

VARIABLES kind,    \* the container in use: "none", "list", "queue", "stack"
          next,    \* the pointers of the nodes and of the head
          prev,
          value,   \* value[n]: the value of node n
          live,    \* the nodes that are allocated
          count,   \* the count field of the container
          result,  \* what the last call gave to its caller, << >> if nothing
          oops,    \* memory was used that must not be
          ip       \* the call that list_init makes next, 0 for other users

ring == <<next, prev, value, live>>
vars == <<kind, ring, count, result, oops, ip>>

HEAD == 0
POISON == MaxNodes + 1      \* LIST_POISON1, LIST_POISON2
Nodes == 1 .. MaxNodes
Indexes == -1 .. MaxNodes - 1   \* index is an int that nobody checks to be >= 0

-----------------------------------------------------------------------------
(* list.h, as far as the file uses it.                                     *)
Hop(n) ==
  LET h[i \in 0 .. MaxNodes + 1] == IF i = 0 THEN HEAD ELSE next[h[i - 1]] IN h[n]

Detached == next[HEAD] = POISON
list_empty == next[HEAD] = HEAD

(* list_for_each: the number of nodes it visits, and the nodes.            *)
Length == CHOOSE n \in 0 .. MaxNodes : Hop(n + 1) = HEAD /\ \A i \in 1 .. n : Hop(i) # HEAD
Contents ==
  IF kind = "none" \/ Detached THEN << >> ELSE LET n == Length IN [i \in 1 .. n |-> value[Hop(i)]]

list_add_one_way(n, p) ==
  /\ next' = [next EXCEPT ![p] = n, ![n] = next[p]]
  /\ prev' = [prev EXCEPT ![n] = p]
list_add(n, p) ==
  /\ next' = [next EXCEPT ![p] = n, ![n] = next[p]]
  /\ prev' = [prev EXCEPT ![n] = p, ![next[p]] = n]

list_del(n) ==
  /\ next' = [next EXCEPT ![prev[n]] = next[n], ![n] = POISON]
  /\ prev' = [prev EXCEPT ![next[n]] = prev[n], ![n] = POISON]

-----------------------------------------------------------------------------
(* container.c.  A call that follows a poisoned pointer faults.            *)
NoResult == result' = << >>
Fault == oops' = TRUE /\ NoResult /\ UNCHANGED <<kind, ring, count>>
Nothing == NoResult /\ UNCHANGED <<kind, ring, count, oops>>

(* add_link_list, add_queue, add_stack.                                    *)
add(k) ==
  /\ kind = "none"
  /\ \/ /\ kind' = k /\ count' = 0
        /\ next' = [next EXCEPT ![HEAD] = HEAD] /\ prev' = [prev EXCEPT ![HEAD] = HEAD]
        /\ NoResult /\ UNCHANGED <<value, live, oops>>
     \/ Fault

(* add_node, list_add of the new node behind p, and the count c.           *)
add_node(v, p, c) ==
  \/ /\ live # Nodes
     /\ LET n == CHOOSE m \in Nodes \ live : \A o \in Nodes \ live : m =< o IN
          /\ list_add(n, p)
          /\ value' = [value EXCEPT ![n] = v]
          /\ live' = live \cup {n}
     /\ count' = c
     /\ NoResult /\ UNCHANGED <<kind, oops>>
  \/ Fault

(* link_list_push and enqueue add at the end, stack_push at the front.     *)
entry_at_front == HEAD
entry == IF kind = "stack" THEN HEAD ELSE prev[HEAD]
push(v) == IF Detached THEN Fault ELSE add_node(v, entry, count + 1)

(* link_list_pop, dequeue, stack_pop.                                      *)
pop ==
  LET n == next[HEAD] IN
  IF count = 0 \/ list_empty THEN Nothing
  ELSE IF Detached THEN Fault
  ELSE /\ list_del(n)
       /\ result' = <<value[n]>>
       /\ live' = live \ {n} /\ value' = [value EXCEPT ![n] = 0]
       /\ count' = count - 1
       /\ UNCHANGED <<kind, oops>>

(* link_list_get, link_list_insert and link_list_remove, which begin with  *)
(* the same tests.  The last two step beyond the node at index: to its     *)
(* successor, which for the last node is the head.                         *)
At(i, Act(_), otherwise) ==
  IF count = 0 \/ list_empty \/ i >= count THEN Nothing
  ELSE IF Detached THEN Fault
  ELSE IF i \in 0 .. Length - 1 THEN Act(Hop(i + 1)) ELSE otherwise

get(i) ==
  LET give(n) == result' = <<value[n]>> /\ UNCHANGED <<kind, ring, count, oops>>
  IN  At(i, give, give(prev[HEAD]))

insert(i, v) == LET put(n) == add_node(v, next[n], count) IN At(i, put, Nothing)

remove(i) ==
  LET cut(n) == list_del(next[n]) /\ NoResult /\ UNCHANGED <<kind, value, live, count, oops>>
  IN  At(i, cut, Nothing)

(* link_list_len, queue_len, stack_len.                                    *)
len == result' = <<count>> /\ UNCHANGED <<kind, ring, count, oops>>

(* to_string: a bracket, the values with a comma between them, a bracket   *)
(* and a NUL, in a buffer that is taken to be large enough.                *)
to_string ==
  \/ Nothing
  \/ Detached /\ Fault
  \/ ~Detached /\ IF (IF Length = 0 THEN 3 ELSE 2 * Length + 2) > TextSize THEN Fault
                  ELSE result' = Contents /\ UNCHANGED <<kind, ring, count, oops>>

(* del_link_list, del_queue, del_stack: the nodes are unlinked, not freed. *)
del ==
  IF Detached THEN Fault
  ELSE /\ kind' = "none" /\ count' = 0
       /\ next' = [n \in {HEAD} \cup Nodes |-> POISON]
       /\ prev' = [n \in {HEAD} \cup Nodes |-> POISON]
       /\ NoResult /\ UNCHANGED <<value, live, oops>>

-----------------------------------------------------------------------------
(* A call, as list_init or another user of container.h makes it.           *)
Call(op, i, v) == [op |-> op, index |-> i, value |-> v]

Calls ==
  {Call(op, 0, 0) : op \in {"list", "queue", "stack", "pop", "len", "to_string", "del"}}
    \cup {Call("push", 0, v) : v \in Values} \cup {Call("insert", i, v) : i \in Indexes, v \in Values}
    \cup {Call(op, i, 0) : op \in {"get", "remove"}, i \in Indexes}

(* What the three containers have in common, and what each of them can do. *)
common(c) ==
  \/ c.op = "push" /\ push(c.value)
  \/ c.op = "pop" /\ pop
  \/ c.op = "len" /\ len
  \/ c.op = "to_string" /\ to_string
  \/ c.op = "del" /\ del

link_list(c) ==
  /\ kind = "list"
  /\ \/ common(c)
     \/ c.op = "get" /\ get(c.index)
     \/ c.op = "insert" /\ insert(c.index, c.value)
     \/ c.op = "remove" /\ remove(c.index)
queue(c) == kind = "queue" /\ common(c)
stack(c) == kind = "stack" /\ common(c)

Do(c) ==
  \/ c.op \in {"list", "queue", "stack"} /\ add(c.op)
  \/ link_list(c) \/ queue(c) \/ stack(c)

Printed == <<Call("to_string", 0, 0), Call("pop", 0, 0), Call("len", 0, 0), Call("pop", 0, 0),
             Call("len", 0, 0), Call("pop", 0, 0), Call("len", 0, 0), Call("del", 0, 0)>>
Pushed(k) == <<Call(k, 0, 0), Call("push", 0, 1), Call("push", 0, 2), Call("push", 0, 3)>>
list_init ==
  Pushed("list") \o <<Call("insert", 1, 4), Call("remove", 2, 0)>> \o Printed
    \o Pushed("queue") \o Printed \o Pushed("stack") \o Printed

-----------------------------------------------------------------------------
Init ==
  /\ kind = "none" /\ count = 0 /\ result = << >> /\ oops = FALSE
  /\ next = [n \in {HEAD} \cup Nodes |-> POISON]
  /\ prev = [n \in {HEAD} \cup Nodes |-> POISON]
  /\ value = [n \in Nodes |-> 0]
  /\ live = {}
  /\ ip \in {0, 1}

(* Bound: users other than list_init make no new container while the nodes *)
(* of an earlier one are still allocated.                                  *)
Next ==
  /\ ~oops
  /\ \/ ip = 0 /\ UNCHANGED ip /\ (kind = "none" => live = {}) /\ \E c \in Calls : Do(c)
     \/ ip \in DOMAIN list_init /\ Do(list_init[ip]) /\ ip' = ip + 1

Spec == Init /\ [][Next]_vars

-----------------------------------------------------------------------------
(* Whatever is pushed, popped, inserted and removed in whatever order, the *)
(* head and the nodes form one ring in both directions, made of allocated  *)
(* nodes only; a queue or a stack has as many as its count says.  The one  *)
(* exception is a list from which link_list_remove has unlinked the head.  *)
RingIntact ==
  kind # "none" =>
    \/ Detached /\ kind = "list"
    \/ \E n \in 0 .. MaxNodes :
         LET members == {Hop(i) : i \in 1 .. n} IN
         /\ Hop(n + 1) = HEAD /\ HEAD \notin members /\ Cardinality(members) = n
         /\ members \subseteq live
         /\ \A m \in members \cup {HEAD} : prev[next[m]] = m
         /\ kind # "list" => count = n

(* list_init never unlinks the head of its list, although it removes by    *)
(* index, and what it leaves allocated at its end is the one node that     *)
(* link_list_insert has added and link_list_remove has unlinked.           *)
ListInitLeaksOne ==
  /\ ip > 0 /\ kind # "none" => ~Detached
  /\ ip > Len(list_init) => Cardinality(live) = 1

(* Before the ring is broken a container is the sequence it stands for:    *)
(* each value comes out once, first-in first-out of a list and a queue and *)
(* last-in first-out of a stack, and link_list_insert and link_list_remove *)
(* change one place of a list and no other.                                *)
Sequence == INSTANCE Sequential WITH values <- Contents, broken <- kind # "none" /\ Detached
ImplementsSequence == Sequence!Spec
=============================================================================
