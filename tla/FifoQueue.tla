------------------------------ MODULE FifoQueue ------------------------------
(***************************************************************************)
(* What a queue of commands promises its two callers: an item put in is    *)
(* taken out once, whole, and in the order of the puts.  A caller may be   *)
(* refused (queue full, queue empty); a refusal changes nothing, so it is  *)
(* a stuttering step here.                                                 *)
(***************************************************************************)
EXTENDS Sequences

CONSTANTS
    Items,      \* the items that can be queued
    NoItem      \* the value of "taken" before the first Get

VARIABLES
    queue,      \* the items put and not yet taken, oldest first
    taken       \* the item the latest Get returned

qvars == <<queue, taken>>

QInit ==
    /\ queue = <<>>
    /\ taken = NoItem

Put(item) ==
    /\ queue' = Append(queue, item)
    /\ UNCHANGED taken

Get ==
    /\ queue # <<>>
    /\ taken' = Head(queue)
    /\ queue' = Tail(queue)

QNext == Get \/ \E item \in Items : Put(item)

QSpec == QInit /\ [][QNext]_qvars
=============================================================================
