-------------------------------- MODULE Kernlib --------------------------------
(***************************************************************************)
(* The parts that the others are built on, in one run: each behaviour is   *)
(* one subject's, chosen at the start, and the others stay as they begin.  *)
(* A segment that is loaded and a routine that is given its input are at   *)
(* an end; nothing else may stop.                                          *)
(***************************************************************************)
EXTENDS Lists, HashTable, Memory, Routines, Layout

CONSTANTS
  Highest,               \* the highest dividend
  Frequencies, Numbers,  \* what other routines are given
  Letters,    \* the characters of strings and of command lines
  MaxString,  \* the longest string, and
  MaxLine     \* the longest command line

ASSUME KernlibAssumption ==
  /\ Highest \in 0 .. Wide - 1 /\ Frequencies \subseteq Nat
  /\ MaxString \in Nat /\ MaxLine \in Nat

VARIABLE subject

kernlibVars == <<subject, listVars, hashVars, memoryVars, layoutVars, input>>

Subject == {"lists", "table", "memory", "layout", "routines"}

Strings(most) == UNION {[1 .. n -> Letters] : n \in 0 .. most}

Inputs ==
  ({"dividend"} \X (0 .. Highest)) \cup ({"frequency"} \X Frequencies) \cup ({"number"} \X (Numbers \cup {-v : v \in Numbers}))
    \cup ({"string"} \X Strings(MaxString)) \cup ({"line"} \X Strings(MaxLine))

Init ==
  /\ subject \in Subject
  /\ ListsInit /\ HashNone /\ MemoryInit /\ LayoutInit
  /\ IF subject = "routines" THEN input \in Inputs ELSE input = NoInput

Next ==
  \/ /\ subject = "lists" /\ ListsNext
     /\ UNCHANGED <<subject, hashVars, memoryVars, layoutVars, input>>
  \/ /\ subject = "table" /\ HashNext
     /\ UNCHANGED <<subject, listVars, memoryVars, layoutVars, input>>
  \/ /\ subject = "memory" /\ MemoryNext
     /\ UNCHANGED <<subject, listVars, hashVars, layoutVars, input>>
  \/ /\ subject = "layout" /\ LayoutNext
     /\ UNCHANGED <<subject, listVars, hashVars, memoryVars, input>>
  \/ subject \in {"layout", "routines"} /\ UNCHANGED kernlibVars

Spec == Init /\ [][Next]_kernlibVars

(* The allocators do not tell one thread from another.                     *)
ThreadsAlike == Permutations(Thread)
==============================================================================
