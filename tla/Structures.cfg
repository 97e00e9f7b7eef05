\* Every sequence of joins up to twelve characters, from capacities on both sides
\* of the boundaries of string_growup; every sequence of calls of a container with
\* up to four nodes, the text of the fourth of which does not fit; every sequence
\* of calls of a table with up to four entries; the programs of the demonstrations.
CONSTANTS
  a = a
  b = b
  GROW = 4
  HALF = 8
  Chars = {a, b}
  Texts <- SomeTexts
  Caps = {0, 1, 2, 3, 5, 8, 9, 11}
  MaxLen = 12
  MaxNodes = 4
  Values = {1, 2}
  TextSize = 8
  Keys = {1, 2, 3}
  MaxEntries = 4
  RH_ENTRIES = 3
SPECIFICATION MCFairSpec
INVARIANTS JoinStaysInside SearchesAgree RingIntact TreeFinds EntriesAccounted
PROPERTIES ShortJoinReturns ImplementsSequence
\* a fault stops everything, a demonstration ends
CHECK_DEADLOCK FALSE
