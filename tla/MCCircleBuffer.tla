--------------------------- MODULE MCCircleBuffer ---------------------------
(* Values for model-checking CircleBuffer: an item carries its name and the *)
(* position in every cell, so two items, or one item shifted, never agree   *)
(* on a cell.                                                               *)
EXTENDS CircleBuffer

CONSTANTS Names     \* 0 .. n-1, the names of the items

MCItem(name) == [k \in Index |-> <<name, k>>]

MCItems == {MCItem(name) : name \in Names}

MCZero == <<-1, 0>>

MCCell == (Names \X Index) \cup {MCZero}

(* The item pushed last: the newest pending one, else the one pulled last.  *)
LastPushed ==
    IF pending # <<>> THEN pending[Len(pending)] ELSE pulled

(* At the program's geometry the producer numbers its items in turn, so     *)
(* the memory is a function of the offsets.  Items that are pending         *)
(* together, and the stale ones they overwrite, still have different names  *)
(* as long as there are more names than slots in use.                       *)
InTurn ==
    Len(pending') > Len(pending) =>
        LET last == IF LastPushed = NoItem THEN -1 ELSE LastPushed[0][1]
        IN  pending'[Len(pending')] = MCItem((last + 1) % 11)

InTurnSpec == Init /\ [][Next /\ InTurn]_vars
=============================================================================
