----------------------------- MODULE OnePlaceSlot -----------------------------
(***************************************************************************)
(* What a shared-memory area guarded by a valid word promises: it holds at *)
(* most one value, a value is put only when there is none, and whoever     *)
(* takes it gets the whole value, once.                                    *)
(***************************************************************************)
CONSTANTS
    Values,     \* the values that may be put
    Leftover,   \* the values an earlier run may have left
    Empty       \* the slot holds nothing

VARIABLES
    slot,       \* the value held, or Empty
    got         \* the value taken last, Empty before the first

svars == <<slot, got>>

SInit ==
    /\ slot \in Leftover \cup {Empty}
    /\ got = Empty

Put(v) ==
    /\ slot = Empty
    /\ slot' = v
    /\ UNCHANGED got

Take ==
    /\ slot # Empty
    /\ got' = slot
    /\ slot' = Empty

SNext == Take \/ \E v \in Values : Put(v)

SSpec == SInit /\ [][SNext]_svars
=============================================================================
