------------------------------ MODULE IndexRegister ----------------------------
(***************************************************************************)
(* What storage.UpdateIndex and storage.WriteIndexFromTree promise about   *)
(* the index file: changes and rewrites take effect one at a time, none is *)
(* lost, and only a crash or a failed write may leave a file that cannot   *)
(* be read, which only a rewrite repairs.                                  *)
(***************************************************************************)
CONSTANT Change  \* the changes callbacks of UpdateIndex make

VARIABLES
    value,  \* the changes the index holds over its last rewrite
    broken  \* a crash or a failed write left a file that cannot be read

Init == value = {} /\ ~broken

Update(c) ==
    /\ ~broken
    /\ value' = value \cup {c}
    /\ UNCHANGED broken

Rewrite == value' = {} /\ ~broken'

Break == value' = {} /\ broken'

Next == (\E c \in Change : Update(c)) \/ Rewrite \/ Break

Spec == Init /\ [][Next]_<<value, broken>>
===============================================================================
