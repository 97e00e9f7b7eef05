----------------------------- MODULE Sequential -----------------------------
(***************************************************************************)
(* What the containers of src/src/list promise their user: a list, a queue *)
(* or a stack is a sequence of values.  A queue grows at the end, a stack  *)
(* at the front and a list anywhere; all of them shrink at the front, and  *)
(* a list also elsewhere.  There are no nodes and no pointers here;        *)
(* Containers is shown to implement this module.                           *)
(***************************************************************************)
EXTENDS Integers, Sequences

VARIABLES kind,    \* "none", "list", "queue" or "stack"
          values,  \* the values, the first to be taken out first
          result,  \* what the last call has given to the user
          broken   \* the container cannot be used any more

abstract == <<kind, values, result, broken>>

Init == kind = "none" /\ values = << >> /\ result = << >> /\ ~broken

(* A call may also have no effect and no result.                           *)
Refuse == result' = << >> /\ UNCHANGED <<kind, values, broken>>

Create == kind = "none" /\ kind' # "none" /\ result' = << >> /\ UNCHANGED <<values, broken>>
Delete == kind # "none" /\ kind' = "none" /\ values' = << >> /\ result' = << >> /\ UNCHANGED broken

(* s without the value at place i.                                         *)
Without(s, i) == SubSeq(s, 1, i - 1) \o SubSeq(s, i + 1, Len(s))

Grow ==
  LET new == values' IN
  /\ \E i \in DOMAIN new :
       /\ kind = "stack" => i = 1
       /\ kind = "queue" => i = Len(new)
       /\ Without(new, i) = values
  /\ result' = << >> /\ UNCHANGED <<kind, broken>>

Pop ==
  LET old == values IN
  /\ old # << >>
  /\ result' = <<Head(old)>> /\ values' = Tail(old)
  /\ UNCHANGED <<kind, broken>>

Remove ==
  LET old == values IN
  /\ kind = "list" /\ result' = << >> /\ UNCHANGED <<kind, broken>>
  /\ \E i \in DOMAIN old : values' = Without(old, i)

Look ==
  LET old == values IN
  /\ result' = old \/ \E i \in DOMAIN old : result' = <<old[i]>>
  /\ UNCHANGED <<kind, values, broken>>

(* Only a queue and a stack know how many values they hold.                *)
Count ==
  /\ Len(result') = 1
  /\ result'[1] \in IF kind = "list" THEN Nat ELSE {Len(values)}
  /\ UNCHANGED <<kind, values, broken>>

(* Only a list can break, and what it held is out of reach then.           *)
Break == kind = "list" /\ broken' /\ values' = << >> /\ result' = << >> /\ UNCHANGED kind

Next ==
  \/ ~broken /\ (Create \/ Delete \/ Grow \/ Pop \/ Remove \/ Look \/ Break)
  \/ Count \/ Refuse

Spec == Init /\ [][Next]_abstract
=============================================================================
