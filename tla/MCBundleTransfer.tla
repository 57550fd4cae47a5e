-------------------------- MODULE MCBundleTransfer --------------------------
(* Bytes staged in turn, 0, 1, ..., so that the memory is a function of the *)
(* offsets and any two bytes under way together differ.                     *)
EXTENDS BundleTransfer

MCByte == 0 .. LocalLength + CircleLength + FetchLength - 1

InTurn ==
    local'.tail_index_offset # local.tail_index_offset =>
        local'.cells[local.tail_index_offset] =
            (local.cells[(local.tail_index_offset - 1) % LocalLength] + 1) % (LocalLength + CircleLength + FetchLength)

InTurnSpec == Init /\ [][Next /\ InTurn]_vars
=============================================================================
