---------------------------- MODULE BundleTransfer ----------------------------
(***************************************************************************)
(* The bundle operations of buffer_manager.c: push_circle_buff_bundle moves *)
(* everything a local buffer holds into a circular one,                    *)
(* pull_circle_buff_bundle everything the circular buffer holds into a     *)
(* local one.  Both buffers wrap, at lengths of their own, and the move is *)
(* pieced together from at most three memcpy calls.                        *)
(*                                                                         *)
(* Neither operation looks whether there is room, nor the push whether     *)
(* there is anything to push: that is the callers' part.  There is no      *)
(* caller in the repository; those modelled here stage bytes one by one,   *)
(* move bundles that fit, and drain bytes one by one.                      *)
(***************************************************************************)
EXTENDS Integers, Sequences

CONSTANTS
    LocalLength,    \* buff_length of the pusher's local buffer
    CircleLength,   \* buff_length of the circular buffer
    FetchLength,    \* buff_length of the puller's local buffer
    Byte,           \* the bytes
    Zero,           \* the byte memory is cleared to
    NoByte          \* "nothing was drained yet"

ASSUME LengthAssumption == {LocalLength, CircleLength, FetchLength} \subseteq Nat \ {0}
ASSUME ByteAssumption == Zero \in Byte

VARIABLES
    local,      \* the pusher's buffer
    circle,     \* the circular buffer
    fetched,    \* the puller's buffer
    drained     \* the byte drained last

vars == <<local, circle, fetched, drained>>

(* buffer_info_t and its memory. *)
Buffer(length) ==
    [head_index_offset : 0 .. length - 1, tail_index_offset : 0 .. length - 1,
     buff_length : {length}, cells : [0 .. length - 1 -> Byte]]

TypeOK ==
    /\ local \in Buffer(LocalLength)
    /\ circle \in Buffer(CircleLength)
    /\ fetched \in Buffer(FetchLength)
    /\ drained \in Byte \cup {NoByte}

Cleared(length) ==
    [head_index_offset |-> 0, tail_index_offset |-> 0,
     buff_length |-> length, cells |-> [a \in 0 .. length - 1 |-> Zero]]

Init ==
    /\ local = Cleared(LocalLength)
    /\ circle = Cleared(CircleLength)
    /\ fetched = Cleared(FetchLength)
    /\ drained = NoByte

is_buff_empty(b) == b.tail_index_offset = b.head_index_offset

-----------------------------------------------------------------------------
(* What a buffer holds, oldest byte first: the meaning of its offsets.      *)
Used(b) == (b.tail_index_offset - b.head_index_offset) % b.buff_length

Bytes(b) ==
    [i \in 1 .. Used(b) |-> b.cells[(b.head_index_offset + i - 1) % b.buff_length]]

(* One more byte would make a full buffer look empty. *)
Fits(n, b) == Used(b) + n < b.buff_length

-----------------------------------------------------------------------------
(* A memcpy of n bytes from offset "from" of one buffer to "to" of the other. *)
Copy(to, from, n) == [to |-> to, from |-> from, n |-> n]

Memcpy(cells, source, copy) ==
    [a \in DOMAIN cells |->
        IF a \in copy.to .. copy.to + copy.n - 1
        THEN source[copy.from + a - copy.to] ELSE cells[a]]

(* The length of a bundle, as the operations reckon it. *)
Size(in) ==
    LET ir == in.head_index_offset
        iw == in.tail_index_offset
    IN  IF ir < iw THEN iw - ir ELSE in.buff_length - ir + iw

(* Mutants of Copies: a bundle in one piece is not split at the end of the  *)
(* buffer it goes to; the last of three copies starts over at the start.    *)
CopiesUnsplit(in, out) ==
    LET ir == in.head_index_offset
        iw == in.tail_index_offset
        ow == out.tail_index_offset
        rest == in.buff_length - ir
    IN  IF ir < iw THEN <<Copy(ow, ir, iw - ir)>>
                   ELSE <<Copy(ow, ir, rest), Copy(ow + rest, 0, iw)>>

CopiesFromStart(in, out) ==
    LET ir == in.head_index_offset
        iw == in.tail_index_offset
        ow == out.tail_index_offset
        room == out.buff_length - ow
        rest == in.buff_length - ir
    IN  CASE ir < iw /\ room > iw - ir -> <<Copy(ow, ir, iw - ir)>>
          [] ir < iw /\ room <= iw - ir ->
                <<Copy(ow, ir, room), Copy(0, ir + room, iw - ir - room)>>
          [] ir >= iw /\ room >= rest + iw ->
                <<Copy(ow, ir, rest), Copy(ow + rest, 0, iw)>>
          [] ir >= iw /\ room >= rest /\ room < rest + iw ->
                <<Copy(ow, ir, rest), Copy(ow + rest, 0, room - rest),
                  Copy(0, 0, rest + iw - room)>>
          [] ir >= iw /\ room < rest ->
                <<Copy(ow, ir, room), Copy(0, ir + room, rest - room),
                  Copy(rest - room, 0, iw)>>

(* The memcpy calls that move a bundle, by where the bundle and the free    *)
(* space wrap.                                                              *)
Copies(in, out) ==
    LET ir == in.head_index_offset
        iw == in.tail_index_offset
        ow == out.tail_index_offset
        room == out.buff_length - ow
        rest == in.buff_length - ir
    IN  CASE ir < iw /\ room > iw - ir -> <<Copy(ow, ir, iw - ir)>>
          [] ir < iw /\ room <= iw - ir ->
                <<Copy(ow, ir, room), Copy(0, ir + room, iw - ir - room)>>
          [] ir >= iw /\ room >= rest + iw ->
                <<Copy(ow, ir, rest), Copy(ow + rest, 0, iw)>>
          [] ir >= iw /\ room >= rest /\ room < rest + iw ->
                <<Copy(ow, ir, rest), Copy(ow + rest, 0, room - rest),
                  Copy(0, room - rest, rest + iw - room)>>
          [] ir >= iw /\ room < rest ->
                <<Copy(ow, ir, room), Copy(0, ir + room, rest - room),
                  Copy(rest - room, 0, iw)>>

Emptied(in) == [in EXCEPT !.head_index_offset = in.tail_index_offset]

(* The cells of the one buffer after the copies, at most three, one by one. *)
Moved(out, in) ==
    LET copies == Copies(in, out)
        Done(cells, i) ==
            IF i <= Len(copies) THEN Memcpy(cells, in.cells, copies[i]) ELSE cells
    IN  Done(Done(Done(out.cells, 1), 2), 3)

(* Mutant of Filled: the tail is not wrapped. *)
FilledUnwrapped(out, in) ==
    [out EXCEPT !.cells = Moved(out, in), !.tail_index_offset = @ + Size(in)]

Filled(out, in) ==
    [out EXCEPT !.cells = Moved(out, in),
                !.tail_index_offset = (@ + Size(in)) % out.buff_length]

-----------------------------------------------------------------------------
(* The callers. *)
Stage(byte) ==
    /\ Fits(1, local)
    /\ local' = [local EXCEPT !.cells[local.tail_index_offset] = byte,
                              !.tail_index_offset = (@ + 1) % LocalLength]
    /\ UNCHANGED <<circle, fetched, drained>>

Drain ==
    /\ ~ is_buff_empty(fetched)
    /\ drained' = fetched.cells[fetched.head_index_offset]
    /\ fetched' = [fetched EXCEPT !.head_index_offset = (@ + 1) % FetchLength]
    /\ UNCHANGED <<local, circle>>

(* The push takes an empty buffer for one that wraps, so its callers must    *)
(* not push nothing; the pull looks for itself.                             *)
MayPush == ~ is_buff_empty(local) /\ Fits(Used(local), circle)

push_circle_buff_bundle ==
    /\ MayPush
    /\ circle' = Filled(circle, local)
    /\ local' = Emptied(local)
    /\ UNCHANGED <<fetched, drained>>

MayPull == Fits(Used(circle), fetched)

PullNothing ==
    /\ is_buff_empty(circle)
    /\ UNCHANGED <<circle, fetched>>

PullBundle ==
    /\ ~ is_buff_empty(circle)
    /\ fetched' = Filled(fetched, circle)
    /\ circle' = Emptied(circle)

pull_circle_buff_bundle ==
    /\ MayPull
    /\ PullNothing \/ PullBundle
    /\ UNCHANGED <<local, drained>>

Next ==
    \/ \E byte \in Byte : Stage(byte)
    \/ push_circle_buff_bundle
    \/ pull_circle_buff_bundle
    \/ Drain

Spec == Init /\ [][Next]_vars

-----------------------------------------------------------------------------
(* Every copy of a move reads and writes inside the two buffers. *)
Inside(in, out) ==
    \A i \in 1 .. Len(Copies(in, out)) :
        LET copy == Copies(in, out)[i]
        IN  /\ copy.n >= 0
            /\ copy.to + copy.n <= out.buff_length
            /\ copy.from + copy.n <= in.buff_length

(* Whatever the offsets, no memcpy of an allowed push or pull leaves the    *)
(* buffers, wherever the bundle and the free space wrap.                    *)
CopiesStayInside ==
    /\ MayPush => Inside(local, circle)
    /\ MayPull /\ ~ is_buff_empty(circle) => Inside(circle, fetched)

(* The three buffers are one queue of bytes: a move of a bundle, wherever   *)
(* the two buffers wrap, moves all of it, in order, and nothing else.       *)
Stream == INSTANCE FifoQueue WITH
    Items <- Byte,
    NoItem <- NoByte,
    queue <- Bytes(fetched) \o Bytes(circle) \o Bytes(local),
    taken <- drained

StreamSpec == Stream!QSpec
=============================================================================
