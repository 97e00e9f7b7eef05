----------------------------- MODULE StringView -----------------------------
(***************************************************************************)
(* The growing string of src/src/string/main.c.  A string_view has a       *)
(* buffer of size bytes, the number len of characters in it and the        *)
(* capacity cap it believes the buffer has; string_join appends and calls  *)
(* string_growup when the result would not fit.                            *)
(*                                                                         *)
(* string_growup is modelled step by step with do_div as it is: it stores  *)
(* the quotient in s->cap and returns the remainder.  GROW and HALF stand  *)
(* for the 4096 and 8192 of the source; a character is any value that is   *)
(* not the terminating NUL.                                                *)
(*                                                                         *)
(* string_new_cap allocates sizeof(string_t), the size of a pointer, for   *)
(* the structure: len and cap lie in blocks that the allocator may give to *)
(* somebody else at any time.  Clobbered is that outcome; all that is said *)
(* below of a string is said of one that it has not met.                   *)
(***************************************************************************)
EXTENDS Integers, Sequences

CONSTANTS
  GROW, HALF,   \* up to GROW the capacity doubles, up to HALF it should grow by half
  Chars,        \* characters
  Texts,        \* bound: the strings that the callers pass
  Caps,         \* bound: the capacities passed to string_new_cap
  MaxLen        \* bound: no string is grown beyond it

ASSUME StringViewAssumption ==
  /\ GROW \in Nat \ {0} /\ HALF = 2 * GROW
  /\ Texts \subseteq Seq(Chars)
  /\ Caps \subseteq Nat
  /\ MaxLen \in Nat

VARIABLES
  str,      \* the characters before the terminating NUL
  cap,      \* s->cap
  size,     \* bytes of the buffer
  pc,       \* "none", "ready", "grow" (in the loop of string_growup), "append",
            \* "oops" (a fault), "chaos" (len and cap belong to somebody else)
  arg,      \* the string that is being appended
  overrun   \* a byte has been written outside of the buffer

vars == <<str, cap, size, pc, arg, overrun>>

(* strlen(s->str): what s->len is between the calls.                       *)
len == Len(str)

Init ==
  /\ str = << >> /\ cap = 0 /\ size = 0
  /\ pc = "none"
  /\ arg = << >>
  /\ overrun = FALSE

(* string_new_cap: a text longer than cap is refused (as is a failed       *)
(* allocation) and nothing is left behind; one of exactly cap characters   *)
(* is not refused, and its terminating NUL is written behind the buffer,   *)
(* or through the ZERO_SIZE_PTR that kmalloc(0) returns.                   *)
fits(n, c) == n =< c

string_new_cap ==
  /\ pc = "none"
  /\ \E t \in Texts, c \in Caps :
       /\ fits(Len(t), c)
       /\ str' = t /\ cap' = c /\ size' = c
       /\ overrun' = (Len(t) >= c)
       /\ pc' = IF c = 0 THEN "oops" ELSE "ready"
  /\ UNCHANGED arg

string_free ==
  /\ pc = "ready"
  /\ str' = << >> /\ cap' = 0 /\ size' = 0
  /\ pc' = "none"
  /\ overrun' = FALSE
  /\ UNCHANGED arg

(* string_join: to string_growup if the result and its NUL would not fit.  *)
needs_growth_beyond(n, c) == n > c
needs_growth(n, c) == n >= c

string_join ==
  /\ pc = "ready"
  /\ \E t \in Texts :
       /\ len + Len(t) =< MaxLen
       /\ arg' = t
       /\ pc' = IF needs_growth(len + Len(t), cap) THEN "grow" ELSE "append"
  /\ UNCHANGED <<str, cap, size, overrun>>

(* One turn of the loop: the next value of s->cap.                         *)
grown_below(c) ==
  IF c < GROW THEN c + c
  ELSE IF c =< HALF THEN (c \div 2) + (c % 2)
  ELSE (c \div 4) + (c % 4)
grown(c) ==
  IF c =< GROW THEN c + c
  ELSE IF c =< HALF THEN (c \div 2) + (c % 2)
  ELSE (c \div 4) + (c % 4)

string_growup ==
  /\ pc = "grow"
  /\ len + Len(arg) >= cap
  /\ cap' = grown(cap)
  /\ UNCHANGED <<str, size, pc, arg, overrun>>

(* The loop ends: krealloc, whose failure nobody checks before strncat     *)
(* writes through the NULL.                                                *)
krealloc ==
  /\ pc = "grow"
  /\ len + Len(arg) < cap
  /\ \/ pc' = "append" /\ size' = cap
     \/ pc' = "oops" /\ UNCHANGED size
  /\ UNCHANGED <<str, cap, arg, overrun>>

(* strncat of at most cap - len characters, then the NUL at the new len.   *)
(* It starts at the NUL it finds: in a string whose NUL was written behind *)
(* the buffer that may be anywhere.                                        *)
strncat ==
  /\ pc = "append"
  /\ str' = str \o arg
  /\ overrun' = (overrun \/ len + Len(arg) >= size)
  /\ pc' \in IF overrun THEN {"ready", "oops"} ELSE {"ready"}
  /\ arg' = << >>
  /\ UNCHANGED <<cap, size>>

(* Another user of the small blocks is given those of len and cap.         *)
Clobbered ==
  /\ pc \in {"ready", "grow", "append"}
  /\ pc' = "chaos"
  /\ UNCHANGED <<str, cap, size, arg, overrun>>

Next ==
  \/ string_new_cap \/ string_free
  \/ string_join \/ string_growup \/ krealloc \/ strncat
  \/ Clobbered

Spec == Init /\ [][Next]_vars

(* A call that has begun goes on.                                          *)
Fairness == WF_vars(string_growup \/ krealloc \/ strncat)

-----------------------------------------------------------------------------
(* The searches, as their loops run; positions count from 0.               *)

(* strncmp(s->str + i, t, strlen(t)) = 0                                   *)
matches(s, i, t) == \A j \in 1 .. Len(t) : i + j =< Len(s) /\ s[i + j] = t[j]

string_index_exclusive(s, t) ==
  LET scan[i \in 0 .. Len(s)] ==
        IF i >= Len(s) - Len(t) THEN -1
        ELSE IF matches(s, i, t) THEN i ELSE scan[i + 1]
  IN  IF Len(t) > Len(s) THEN -1 ELSE scan[0]
string_index(s, t) ==
  LET scan[i \in 0 .. Len(s) + 1] ==
        IF i > Len(s) - Len(t) THEN -1
        ELSE IF matches(s, i, t) THEN i ELSE scan[i + 1]
  IN  IF Len(t) > Len(s) THEN -1 ELSE scan[0]

string_last_index(s, t) ==
  LET scan[i \in -1 .. Len(s)] ==
        IF i < 0 THEN -1
        ELSE IF matches(s, i, t) THEN i ELSE scan[i - 1]
  IN  IF Len(t) > Len(s) THEN -1 ELSE scan[Len(s) - Len(t)]

(* strstr finds an occurrence at any place.                                *)
string_has_substring(s, t) ==
  Len(t) =< Len(s) /\ \E i \in 0 .. Len(s) : matches(s, i, t)

string_has_prefix(s, t) == Len(t) =< Len(s) /\ matches(s, 0, t)
string_has_suffix(s, t) == Len(t) =< Len(s) /\ matches(s, Len(s) - Len(t), t)

(* string_substring(s, from, to): the text, or a refusal.                  *)
Refused == <<"NULL">>
string_substring(s, from, to) ==
  IF from < 0 \/ to > Len(s) \/ from >= to THEN Refused
  ELSE [j \in 1 .. to - from |-> s[from + j]]

-----------------------------------------------------------------------------
(* Every variable stays in its domain.                                     *)
TypeOK ==
  /\ str \in Seq(Chars)
  /\ cap \in Nat /\ size \in Nat
  /\ pc \in {"none", "ready", "grow", "append", "oops", "chaos"}
  /\ arg \in Seq(Chars)
  /\ overrun \in BOOLEAN

(* string_join writes inside of the buffer, although string_growup makes   *)
(* the capacity smaller on its way: the characters and their NUL fit when  *)
(* they are appended, the capacity is the size of the buffer whenever no   *)
(* string_growup is under way, and the only string that ever has its NUL   *)
(* outside is one made with as many characters as its capacity.            *)
JoinStaysInside ==
  /\ pc = "append" => len + Len(arg) < size
  /\ pc \in {"ready", "append"} => cap = size
  /\ pc = "ready" /\ ~overrun => len < size

(* Under Fairness: a join leaves string_growup although do_div would make  *)
(* the capacity smaller there: from whatever capacity when its result is   *)
(* shorter than GROW, and up to HALF when the doubling comes to exactly    *)
(* GROW, as from the 64 of string_new: the test is cap <= 4096, and one    *)
(* doubling more is all it takes.                                          *)
DoublesToGrow == {c \in 1 .. GROW : \E k \in 0 .. GROW : c * 2^k = GROW}
ShortJoinReturns ==
  (/\ pc = "grow"
   /\ \/ len + Len(arg) < GROW
      \/ len + Len(arg) < HALF /\ cap \in DoublesToGrow)
    ~> pc \in {"ready", "oops", "chaos"}

(* The searches find the first and the last occurrence, a prefix is an     *)
(* occurrence at 0, a suffix one at the end, and a substring is found      *)
(* where it was taken from or before.                                      *)
Occurrences(s, t) == {i \in 0 .. Len(s) - Len(t) : SubSeq(s, i + 1, i + Len(t)) = t}
SearchesAgree ==
  \A t \in Texts :
    LET occ == Occurrences(str, t)
        first == string_index(str, t)
        last == string_last_index(str, t)
    IN /\ IF occ = {} THEN first = -1 /\ last = -1
          ELSE /\ first \in occ /\ last \in occ
               /\ \A i \in occ : first =< i /\ i =< last
       /\ string_has_substring(str, t) <=> occ # {}
       /\ string_has_prefix(str, t) <=> 0 \in occ
       /\ string_has_suffix(str, t) <=> Len(str) - Len(t) \in occ
       /\ first >= 0 /\ t # << >> => string_substring(str, first, first + Len(t)) = t
=============================================================================
