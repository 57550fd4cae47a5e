---------------------------- MODULE CircleBuffer ----------------------------
(***************************************************************************)
(* The circular buffer of buffer_manager.c, driven one item per operation  *)
(* (push_circle_buff_item, pull_circle_buff_item), as network_client.c and *)
(* controller.c drive it.                                                  *)
(*                                                                         *)
(* An item is element_length cells; memcpy copies it to consecutive        *)
(* addresses from the offset and does NOT wrap, so a copy that starts near *)
(* the end of the buffer runs on into the cells behind it.  Those cells    *)
(* are part of the memory modelled here: the addresses from buff_length on *)
(* stand for what the compiler placed after Net_Circle_Buff_t.local_buff.  *)
(*                                                                         *)
(* Offsets are counted in cells.  In the program element_length is 32      *)
(* bytes and buff_length 280 bytes; all offsets are multiples of 8 bytes,  *)
(* so 4 cells in 35 is the program's own geometry.                         *)
(***************************************************************************)
EXTENDS Integers, Sequences

CONSTANTS
    element_length,     \* cells of an item
    buff_length,        \* cells of the buffer
    Cell,               \* the values of a cell
    Zero,               \* the cell the loader clears static storage to
    Items,              \* the items the producer may push
    NoItem,             \* "nothing was pulled yet"
    Window              \* the most items the callers leave in the buffer

Index == 0 .. element_length - 1
Addr  == 0 .. buff_length + element_length - 2

ASSUME GeometryAssumption ==
    /\ element_length \in Nat \ {0}
    /\ buff_length \in Nat
    /\ element_length <= buff_length

ASSUME ItemsAssumption ==
    /\ Items \subseteq [Index -> Cell]
    /\ Zero \in Cell

ASSUME WindowAssumption == Window \in Nat \ {0}

VARIABLES
    head_index_offset,  \* buffer_info_t: where the next pull reads
    tail_index_offset,  \* buffer_info_t: where the next push writes
    local_buff,         \* the buffer, and the cells behind it
    rc,                 \* what the latest call returned
    pulled,             \* the item the latest successful pull copied out
    pending             \* history: the items pushed and not yet pulled

vars == <<head_index_offset, tail_index_offset, local_buff, rc, pulled, pending>>

-----------------------------------------------------------------------------
(* Mutant of is_buff_full: room is left for one cell, not for one item. *)
is_buff_full_late ==
    (tail_index_offset + 1) % buff_length = head_index_offset

(* is_buff_full: one more item would bring the tail onto the head.          *)
is_buff_full ==
    (tail_index_offset + element_length) % buff_length = head_index_offset

is_buff_empty == tail_index_offset = head_index_offset

(* The item that starts at an address, and memory after an item is copied in. *)
ItemAt(addr) == [k \in Index |-> local_buff[addr + k]]

CopyTo(addr, item) ==
    [a \in Addr |-> IF a \in addr .. addr + element_length - 1
                    THEN item[a - addr] ELSE local_buff[a]]

(* Mutants of Advance: without the modulo, and with a jump to the start     *)
(* where the modulo would carry on with the rest.                           *)
AdvanceUnwrapped(offset) == offset + element_length

AdvanceToStart(offset) ==
    IF offset + element_length >= buff_length THEN 0 ELSE offset + element_length

(* The step both offsets take after a copy. *)
Advance(offset) == (offset + element_length) % buff_length

-----------------------------------------------------------------------------
(* The buffer is static, hence zeroed; network_init sets both offsets to 0. *)
Init ==
    /\ head_index_offset = 0
    /\ tail_index_offset = 0
    /\ local_buff = [a \in Addr |-> Zero]
    /\ rc = 0
    /\ pulled = NoItem
    /\ pending = <<>>

PushRefused(item) ==
    /\ is_buff_full
    /\ rc' = -1
    /\ UNCHANGED <<head_index_offset, tail_index_offset, local_buff, pulled, pending>>

PushStored(item) ==
    /\ ~ is_buff_full
    /\ local_buff' = CopyTo(tail_index_offset, item)
    /\ tail_index_offset' = Advance(tail_index_offset)
    /\ rc' = element_length
    /\ pending' = Append(pending, item)
    /\ UNCHANGED <<head_index_offset, pulled>>

(* push_circle_buff_item, by a producer that keeps to the callers' window. *)
push_circle_buff_item(item) ==
    /\ Len(pending) < Window
    /\ PushRefused(item) \/ PushStored(item)

PullRefused ==
    /\ is_buff_empty
    /\ rc' = -1
    /\ UNCHANGED <<head_index_offset, tail_index_offset, local_buff, pulled, pending>>

(* Mutants of PullTaken: the head stays, and the copy is taken after the    *)
(* head has moved on.                                                       *)
PullKeepsHead ==
    /\ ~ is_buff_empty
    /\ pulled' = ItemAt(head_index_offset)
    /\ rc' = 0
    /\ pending' = IF pending = <<>> THEN pending ELSE Tail(pending)
    /\ UNCHANGED <<head_index_offset, tail_index_offset, local_buff>>

PullAfterAdvance ==
    /\ ~ is_buff_empty
    /\ pulled' = ItemAt(Advance(head_index_offset))
    /\ head_index_offset' = Advance(head_index_offset)
    /\ rc' = 0
    /\ pending' = IF pending = <<>> THEN pending ELSE Tail(pending)
    /\ UNCHANGED <<tail_index_offset, local_buff>>

PullTaken ==
    /\ ~ is_buff_empty
    /\ pulled' = ItemAt(head_index_offset)
    /\ head_index_offset' = Advance(head_index_offset)
    /\ rc' = 0
    /\ pending' = IF pending = <<>> THEN pending ELSE Tail(pending)
    /\ UNCHANGED <<tail_index_offset, local_buff>>

pull_circle_buff_item == PullRefused \/ PullTaken

Next ==
    \/ \E item \in Items : push_circle_buff_item(item)
    \/ pull_circle_buff_item

Spec == Init /\ [][Next]_vars

-----------------------------------------------------------------------------
TypeOK ==
    /\ head_index_offset \in 0 .. buff_length - 1
    /\ tail_index_offset \in 0 .. buff_length - 1
    /\ local_buff \in [Addr -> Cell]
    /\ rc \in {-1, 0, element_length}
    /\ pulled \in [Index -> Cell] \cup {NoItem}
    /\ pending \in Seq(Items)

(* Where the i-th oldest item lies when the oldest lies at a given offset. *)
SlotFrom(offset, i) == (offset + (i - 1) * element_length) % buff_length

Slot(i) == SlotFrom(head_index_offset, i)

(* The geometry under which the full test, or the callers' window, keeps   *)
(* two pending items out of each other's cells.                            *)
SafeGeometry ==
    \/ buff_length % element_length = 0
    \/ Window * element_length <= buff_length

(* The two offsets alone decide whether anything is pending: a buffer that *)
(* holds items is never reported empty by is_buff_empty, nor an empty one  *)
(* as holding some.                                                        *)
EmptyMeansNothingPending == is_buff_empty <=> pending = <<>>

(* No push damages an item that waits: every pending item is still whole   *)
(* in its slot, across wrap-around and across the copies that run past the *)
(* end of the buffer.                                                      *)
PendingIntact ==
    \A i \in 1 .. Len(pending) : ItemAt(Slot(i)) = pending[i]

(* What the buffer holds, read from its memory, is the queue the callers   *)
(* believe in: each successful push appends to it and each successful pull *)
(* returns its head, whole and once.                                       *)
Fifo == INSTANCE FifoQueue WITH
    queue <- [i \in 1 .. Len(pending) |-> ItemAt(Slot(i))],
    taken <- pulled

FifoSpec == Fifo!QSpec

(* Every push stays inside local_buff, the char array of MAX_SIZE bytes    *)
(* network_client.h declares for it: the cells behind it keep their value. *)
PushStaysInBuffer ==
    [][\A a \in Addr : a >= buff_length => local_buff'[a] = local_buff[a]]_vars
=============================================================================
