------------------------------ MODULE MCFileSys ------------------------------
(* An instance of FileSys for TLC.  Files are alike, and so are short names.*)
EXTENDS FileSys, TLC

Alike == Permutations(File) \cup Permutations(Name \ {LongName})

(* The machine never stops.                                                *)
UninterruptedSpec == Init /\ [][Next /\ ~Restart]_vars
=============================================================================
