-------------------------- MODULE CircleBufferProofs --------------------------
(***************************************************************************)
(* CircleBuffer is a queue, for every item length, buffer length, cell     *)
(* alphabet and window that satisfy SafeGeometry.                          *)
(*                                                                         *)
(* PendingIntact is not inductive: a push keeps the waiting items whole    *)
(* only because they all lie within one buffer length behind the tail.     *)
(* IInv adds where the tail is (TailFollows) and how much waits (Fits).    *)
(***************************************************************************)
EXTENDS CircleBuffer, SequenceTheorems, TLAPS

(* The tail is one slot behind the newest pending item.                     *)
TailFollows == tail_index_offset = Slot(Len(pending) + 1)

(* The pending items leave at least one cell of the buffer free.            *)
Fits == Len(pending) * element_length < buff_length

IInv == TypeOK /\ TailFollows /\ Fits /\ PendingIntact

-----------------------------------------------------------------------------
(* Arithmetic of the offsets.                                               *)

LEMMA ModuloSmall ==
    ASSUME NEW l \in Nat \ {0}, NEW a \in 0 .. l - 1
    PROVE  a % l = a
  OBVIOUS

LEMMA ModuloWrap ==
    ASSUME NEW l \in Nat \ {0}, NEW a \in l .. 2 * l - 1
    PROVE  a % l = a - l
  OBVIOUS

(* An offset plus a distance shorter than the buffer wraps at most once.    *)
LEMMA Wrap ==
    ASSUME NEW h \in 0 .. buff_length - 1, NEW d \in 0 .. buff_length
    PROVE  /\ (h + d) % buff_length =
                  IF h + d < buff_length THEN h + d ELSE h + d - buff_length
           /\ (h + d) % buff_length \in 0 .. buff_length - 1
  <1>1. buff_length \in Nat \ {0}
    BY GeometryAssumption
  <1>2. CASE h + d < buff_length
    BY <1>1, <1>2, ModuloSmall
  <1>3. CASE h + d >= buff_length
    <2>1. h + d \in buff_length .. 2 * buff_length - 1
      BY <1>1, <1>3
    <2>2. (h + d) % buff_length = h + d - buff_length
      BY <1>1, <2>1, ModuloWrap
    <2>3. QED BY <1>1, <1>3, <2>2
  <1>4. QED BY <1>1, <1>2, <1>3

LEMMA ProductMonotone ==
    ASSUME NEW e \in Nat, NEW i \in Nat, NEW j \in Nat, i <= j
    PROVE  i * e <= j * e
  OBVIOUS

LEMMA ProductNext ==
    ASSUME NEW e \in Nat, NEW i \in Nat
    PROVE  /\ (i + 1) * e = i * e + e
           /\ i * e \in Nat
  OBVIOUS

LEMMA ProductSum ==
    ASSUME NEW e \in Nat, NEW i \in Int, NEW j \in Int
    PROVE  (i + j) * e = i * e + j * e
  OBVIOUS

(* A length that is a multiple of a unit, and more than some units, has     *)
(* room for one unit more.                                                  *)
LEMMA MultipleRoom ==
    ASSUME NEW e \in Nat \ {0}, NEW l \in Nat, l % e = 0,
           NEW n \in Nat, n * e < l
    PROVE  (n + 1) * e <= l
  <1> DEFINE q == l \div e
  <1>1. /\ q \in Nat
        /\ l = q * e
    OBVIOUS
  <1>2. q > n
    <2>1. SUFFICES ASSUME q <= n PROVE FALSE
      BY <1>1
    <2>2. q * e <= n * e
      BY <1>1, <2>1, ProductMonotone
    <2>3. /\ q * e \in Nat
          /\ n * e \in Nat
      BY <1>1, ProductNext
    <2>4. QED BY <1>1, <2>2, <2>3
  <1>3. (n + 1) * e <= q * e
    BY <1>1, <1>2, ProductMonotone
  <1>4. QED BY <1>1, <1>3

LEMMA DivisibleRoom ==
    ASSUME NEW n \in Nat, n * element_length < buff_length,
           buff_length % element_length = 0
    PROVE  (n + 1) * element_length <= buff_length
  BY GeometryAssumption, MultipleRoom

-----------------------------------------------------------------------------
(* The slots.                                                               *)

(* One slot further on is one item length further on, from either end.      *)
LEMMA SlotNext ==
    ASSUME NEW h \in 0 .. buff_length - 1, NEW i \in Nat \ {0},
           i * element_length <= buff_length
    PROVE  /\ Advance(SlotFrom(h, i)) = SlotFrom(h, i + 1)
           /\ SlotFrom(Advance(h), i) = SlotFrom(h, i + 1)
           /\ SlotFrom(h, i + 1) \in 0 .. buff_length - 1
  <1> DEFINE d == (i - 1) * element_length
  <1>1. /\ d \in 0 .. buff_length
        /\ d + element_length = i * element_length
        /\ (i + 1) - 1 = i
        /\ element_length \in 0 .. buff_length
        /\ i * element_length \in 0 .. buff_length
        /\ buff_length \in Nat \ {0}
    <2>1. /\ i - 1 \in Nat
          /\ (i - 1) + 1 = i
      OBVIOUS
    <2>2. /\ d + element_length = i * element_length
          /\ d \in Nat
      BY <2>1, ProductNext, GeometryAssumption
    <2>3. QED BY <2>2, GeometryAssumption
  <1> HIDE DEF d
  <1>2. SlotFrom(h, i) = (h + d) % buff_length
    BY DEF SlotFrom, d
  <1>3. SlotFrom(h, i + 1) = (h + i * element_length) % buff_length
    BY <1>1 DEF SlotFrom
  <1>4. SlotFrom(Advance(h), i) = (((h + element_length) % buff_length) + d) % buff_length
    BY DEF SlotFrom, Advance, d
  <1>5. Advance(SlotFrom(h, i)) = (((h + d) % buff_length) + element_length) % buff_length
    BY <1>2 DEF Advance
  <1> DEFINE hd == (h + d) % buff_length
             he == (h + element_length) % buff_length
             p  == i * element_length
  <1>6. /\ hd = IF h + d < buff_length THEN h + d ELSE h + d - buff_length
        /\ hd \in 0 .. buff_length - 1
    BY <1>1, Wrap
  <1>7. /\ he = IF h + element_length < buff_length
                THEN h + element_length ELSE h + element_length - buff_length
        /\ he \in 0 .. buff_length - 1
    BY <1>1, Wrap
  <1>8. /\ (h + p) % buff_length =
               IF h + p < buff_length THEN h + p ELSE h + p - buff_length
        /\ (h + p) % buff_length \in 0 .. buff_length - 1
    BY <1>1, Wrap
  <1>9. (hd + element_length) % buff_length =
            IF hd + element_length < buff_length
            THEN hd + element_length ELSE hd + element_length - buff_length
    BY <1>1, <1>6, Wrap
  <1>10. (he + d) % buff_length =
            IF he + d < buff_length THEN he + d ELSE he + d - buff_length
    BY <1>1, <1>7, Wrap
  <1>11. /\ d \in Int
         /\ p \in Int
         /\ d + element_length = p
         /\ p <= buff_length
         /\ element_length \in Nat \ {0}
         /\ d >= 0
    BY <1>1, GeometryAssumption
  <1> HIDE DEF hd, he, p
  <1>12. (hd + element_length) % buff_length = (h + p) % buff_length
    BY <1>1, <1>6, <1>8, <1>9, <1>11
  <1>13. (he + d) % buff_length = (h + p) % buff_length
    BY <1>1, <1>7, <1>8, <1>10, <1>11
  <1>14. QED BY <1>3, <1>4, <1>5, <1>8, <1>12, <1>13 DEF hd, he, p

(* Two of the slots that fit in one buffer length share no cell.            *)
LEMMA SlotsDisjoint ==
    ASSUME NEW h \in 0 .. buff_length - 1,
           NEW i \in Nat \ {0}, NEW j \in Nat \ {0}, i < j,
           j * element_length <= buff_length
    PROVE  \/ SlotFrom(h, i) + element_length <= SlotFrom(h, j)
           \/ SlotFrom(h, j) + element_length <= SlotFrom(h, i)
  <1> DEFINE d == (i - 1) * element_length
             e == (j - 1) * element_length
  <1>1. /\ d \in Nat
        /\ e \in Nat
        /\ d + element_length = i * element_length
        /\ e + element_length = j * element_length
    <2>1. /\ i - 1 \in Nat
          /\ j - 1 \in Nat
          /\ (i - 1) + 1 = i
          /\ (j - 1) + 1 = j
      OBVIOUS
    <2>2. QED BY <2>1, ProductNext, GeometryAssumption
  <1>2. i * element_length <= e
    <2>1. j - 1 \in Nat /\ i <= j - 1
      OBVIOUS
    <2>2. QED BY <2>1, ProductMonotone, GeometryAssumption
  <1>3. /\ SlotFrom(h, i) = (h + d) % buff_length
        /\ SlotFrom(h, j) = (h + e) % buff_length
    BY DEF SlotFrom
  <1> HIDE DEF d, e
  <1>4. /\ d + element_length <= e
        /\ e + element_length <= buff_length
        /\ d \in 0 .. buff_length
        /\ e \in 0 .. buff_length
    BY <1>1, <1>2, GeometryAssumption
  <1>5. /\ (h + d) % buff_length = IF h + d < buff_length THEN h + d ELSE h + d - buff_length
        /\ (h + e) % buff_length = IF h + e < buff_length THEN h + e ELSE h + e - buff_length
    BY <1>4, Wrap
  <1>6. QED BY <1>3, <1>4, <1>5, GeometryAssumption

LEMMA SlotFirst ==
    ASSUME NEW h \in 0 .. buff_length - 1
    PROVE  SlotFrom(h, 1) = h
  <1>1. (1 - 1) * element_length = 0
    BY GeometryAssumption
  <1>2. (h + 0) % buff_length = h
    <2>1. /\ buff_length \in Nat \ {0}
          /\ h + 0 = h
      BY GeometryAssumption
    <2>2. QED BY <2>1, ModuloSmall
  <1>3. QED BY <1>1, <1>2 DEF SlotFrom

(* Up to one slot behind the newest item, every slot starts in the buffer.  *)
LEMMA SlotInBuffer ==
    ASSUME NEW h \in 0 .. buff_length - 1, NEW n \in Nat,
           n * element_length <= buff_length, NEW i \in 1 .. n + 1
    PROVE  SlotFrom(h, i) \in 0 .. buff_length - 1
  <1>1. CASE i = 1
    BY <1>1, SlotFirst
  <1>2. CASE i # 1
    <2>1. /\ i - 1 \in Nat \ {0}
          /\ i - 1 <= n
          /\ (i - 1) + 1 = i
      BY <1>2
    <2>2. (i - 1) * element_length <= n * element_length
      BY <2>1, ProductMonotone, GeometryAssumption
    <2>3. /\ (i - 1) * element_length \in Nat
          /\ n * element_length \in Nat
      BY <2>1, ProductNext, GeometryAssumption
    <2>4. (i - 1) * element_length <= buff_length
      BY <2>2, <2>3, GeometryAssumption
    <2>5. QED BY <2>1, <2>4, SlotNext
  <1>3. QED BY <1>1, <1>2

(* An item that is copied out of the buffer has an item's type.             *)
LEMMA ItemAtType ==
    ASSUME TypeOK, NEW addr \in 0 .. buff_length - 1
    PROVE  ItemAt(addr) \in [Index -> Cell]
  BY GeometryAssumption DEF ItemAt, TypeOK, Index, Addr

-----------------------------------------------------------------------------
(* What the two tests of the offsets mean.                                  *)

LEMMA EmptyTest == IInv => EmptyMeansNothingPending
  <1> SUFFICES ASSUME IInv PROVE is_buff_empty <=> pending = <<>>
    BY DEF EmptyMeansNothingPending
  <1> DEFINE n == Len(pending)
             d == n * element_length
             h == head_index_offset
  <1>1. /\ n \in Nat
        /\ h \in 0 .. buff_length - 1
    BY DEF IInv, TypeOK
  <1>2. /\ d \in Nat
        /\ n # 0 => d >= element_length
    <2>1. d \in Nat
      BY <1>1, ProductNext, GeometryAssumption
    <2>2. ASSUME n # 0 PROVE d >= element_length
      <3>1. 1 * element_length <= n * element_length
        BY <1>1, <2>2, ProductMonotone, GeometryAssumption
      <3>2. QED BY <3>1, GeometryAssumption
    <2>3. QED BY <2>1, <2>2
  <1>3. d < buff_length
    BY DEF IInv, Fits
  <1>4. tail_index_offset = (h + d) % buff_length
    <2>1. (n + 1) - 1 = n
      BY <1>1
    <2>2. QED BY <2>1 DEF IInv, TailFollows, Slot, SlotFrom
  <1>5. n = 0 <=> pending = <<>>
    BY EmptySeq DEF IInv, TypeOK
  <1>6. n = 0 <=> d = 0
    <2>1. 0 * element_length = 0
      BY GeometryAssumption
    <2>2. QED BY <1>1, <1>2, <2>1, GeometryAssumption
  <1> HIDE DEF n, d, h
  <1>7. d \in 0 .. buff_length
    BY <1>2, <1>3, GeometryAssumption
  <1>8. (h + d) % buff_length =
            IF h + d < buff_length THEN h + d ELSE h + d - buff_length
    BY <1>1, <1>7, Wrap
  <1>9. (h + d) % buff_length = h <=> d = 0
    BY <1>1, <1>3, <1>7, <1>8, GeometryAssumption
  <1>10. QED BY <1>4, <1>5, <1>6, <1>9 DEF is_buff_empty, h

(* A push that is not refused, in a safe geometry, still leaves a cell free.*)
LEMMA RoomForPush ==
    ASSUME SafeGeometry, IInv, Len(pending) < Window, ~ is_buff_full
    PROVE  (Len(pending) + 1) * element_length < buff_length
  <1> DEFINE n == Len(pending)
             h == head_index_offset
             p == (n + 1) * element_length
  <1>1. /\ n \in Nat
        /\ h \in 0 .. buff_length - 1
        /\ n * element_length < buff_length
        /\ n < Window
        /\ tail_index_offset = SlotFrom(h, n + 1)
    BY DEF IInv, TypeOK, Fits, TailFollows, Slot
  <1>2. p <= buff_length
    <2>1. CASE buff_length % element_length = 0
      BY <1>1, <2>1, DivisibleRoom
    <2>2. CASE Window * element_length <= buff_length
      <3>1. p <= Window * element_length
        BY <1>1, WindowAssumption, GeometryAssumption, ProductMonotone
      <3>2. /\ p \in Nat
            /\ Window * element_length \in Nat
        BY <1>1, ProductNext, WindowAssumption, GeometryAssumption
      <3>3. QED BY <2>2, <3>1, <3>2, GeometryAssumption
    <2>3. QED BY <2>1, <2>2 DEF SafeGeometry
  <1>3. p # buff_length
    <2>1. SUFFICES ASSUME p = buff_length PROVE FALSE
      OBVIOUS
    <2>2. Advance(tail_index_offset) = SlotFrom(h, n + 2)
      <3>1. /\ n + 1 \in Nat \ {0}
            /\ (n + 1) + 1 = n + 2
        BY <1>1
      <3>2. QED BY <1>1, <1>2, <3>1, SlotNext
    <2>3. SlotFrom(h, n + 2) = (h + buff_length) % buff_length
      <3>1. (n + 2) - 1 = n + 1
        BY <1>1
      <3>2. QED BY <2>1, <3>1 DEF SlotFrom
    <2>4. (h + buff_length) % buff_length = h
      <3>1. buff_length \in 0 .. buff_length
        BY GeometryAssumption
      <3>2. QED BY <1>1, <3>1, Wrap, GeometryAssumption
    <2>5. QED BY <2>2, <2>3, <2>4 DEF is_buff_full, Advance
  <1>4. p \in Nat
    BY <1>1, ProductNext, GeometryAssumption
  <1>5. QED BY <1>2, <1>3, <1>4, GeometryAssumption

-----------------------------------------------------------------------------
(* The invariant is inductive: one lemma per operation.                     *)

LEMMA InitEstablishes == Init => IInv
  <1> SUFFICES ASSUME Init PROVE IInv
    OBVIOUS
  <1> USE GeometryAssumption
  <1>1. /\ head_index_offset = 0
        /\ tail_index_offset = 0
        /\ pending = <<>>
        /\ Len(pending) = 0
        /\ 0 \in 0 .. buff_length - 1
    BY EmptySeq DEF Init
  <1>2. TypeOK
    BY <1>1, ItemsAssumption DEF Init, TypeOK
  <1>3. TailFollows
    BY <1>1, SlotFirst DEF TailFollows, Slot
  <1>4. Fits
    BY <1>1 DEF Fits
  <1>5. PendingIntact
    BY <1>1 DEF PendingIntact
  <1>6. QED BY <1>2, <1>3, <1>4, <1>5 DEF IInv

LEMMA PushPreserves ==
    ASSUME SafeGeometry, IInv, Len(pending) < Window,
           NEW item \in Items, PushStored(item)
    PROVE  IInv'
  <1> DEFINE n == Len(pending)
             h == head_index_offset
             t == tail_index_offset
  <1>1. /\ TypeOK
        /\ n \in Nat
        /\ h \in 0 .. buff_length - 1
        /\ t \in 0 .. buff_length - 1
        /\ t = SlotFrom(h, n + 1)
        /\ item \in [Index -> Cell]
    BY ItemsAssumption DEF IInv, TypeOK, TailFollows, Slot
  <1>2. (n + 1) * element_length < buff_length
    BY RoomForPush DEF PushStored
  <1>3. /\ (n + 1) * element_length \in Nat
        /\ (n + 1) * element_length <= buff_length
    BY <1>1, <1>2, ProductNext, GeometryAssumption
  <1>4. /\ pending' = Append(pending, item)
        /\ pending' \in Seq(Items)
        /\ Len(pending') = n + 1
        /\ \A i \in 1 .. n : pending'[i] = pending[i]
        /\ pending'[n + 1] = item
    BY AppendProperties DEF PushStored, TypeOK, IInv
  <1>5. t' = SlotFrom(h, n + 2) /\ t' \in 0 .. buff_length - 1
    <2>1. /\ n + 1 \in Nat \ {0}
          /\ (n + 1) + 1 = n + 2
      BY <1>1
    <2>2. QED BY <1>1, <1>3, <2>1, SlotNext DEF PushStored
  <1>6. h' = h
    BY DEF PushStored
  <1>7. \A i \in 1 .. n + 1 : SlotFrom(h, i) \in 0 .. buff_length - 1
    <2>1. TAKE i \in 1 .. n + 1
    <2>2. /\ n + 1 \in Nat
          /\ i \in 1 .. (n + 1) + 1
      BY <1>1
    <2>3. QED BY <1>1, <1>3, <2>2, SlotInBuffer
  <1>8. TypeOK'
    <2>1. local_buff' \in [Addr -> Cell]
      BY <1>1, GeometryAssumption DEF PushStored, CopyTo, TypeOK, Index, Addr
    <2>2. QED BY <1>1, <1>4, <1>5, <1>6, <2>1 DEF TypeOK, PushStored
  <1>9. TailFollows'
    <2>1. (n + 1) + 1 = n + 2
      BY <1>1
    <2>2. QED BY <1>4, <1>5, <1>6, <2>1 DEF TailFollows, Slot
  <1>10. Fits'
    BY <1>2, <1>4 DEF Fits
  <1>11. PendingIntact'
    <2>1. SUFFICES ASSUME NEW i \in 1 .. n + 1, NEW k \in Index
                   PROVE  local_buff'[SlotFrom(h, i) + k] = pending'[i][k]
      <3>1. ASSUME NEW i \in 1 .. n + 1
            PROVE  [k \in Index |-> local_buff'[SlotFrom(h, i) + k]] = pending'[i]
        <4>1. pending'[i] \in [Index -> Cell]
          BY <1>4, <3>1, ElementOfSeq, ItemsAssumption
        <4>2. QED BY <2>1, <3>1, <4>1
      <3>2. QED BY <1>4, <1>6, <3>1 DEF PendingIntact, ItemAt, Slot
    <2> DEFINE s == SlotFrom(h, i)
               a == s + k
    <2>2. /\ s \in 0 .. buff_length - 1
          /\ k \in 0 .. element_length - 1
          /\ a \in Addr
      BY <1>7, GeometryAssumption DEF Index, Addr
    <2>3. local_buff'[a] = IF a \in t .. t + element_length - 1
                           THEN item[a - t] ELSE local_buff[a]
      BY <2>2 DEF PushStored, CopyTo
    <2>4. CASE i = n + 1
      <3>1. s = t
        BY <1>1, <2>4
      <3>2. a \in t .. t + element_length - 1 /\ a - t = k
        BY <1>1, <2>2, <3>1, GeometryAssumption
      <3>3. QED BY <1>4, <2>3, <2>4, <3>2
    <2>5. CASE i # n + 1
      <3>1. /\ i \in 1 .. n
            /\ i \in Nat \ {0}
            /\ n + 1 \in Nat \ {0}
            /\ i < n + 1
        BY <1>1, <2>5
      <3>2. s + element_length <= t \/ t + element_length <= s
        BY <1>1, <1>3, <3>1, SlotsDisjoint
      <3>3. a \notin t .. t + element_length - 1
        BY <1>1, <2>2, <3>2, GeometryAssumption
      <3>4. local_buff[a] = pending[i][k]
        <4>1. [kk \in Index |-> local_buff[s + kk]] = pending[i]
          BY <3>1 DEF IInv, PendingIntact, ItemAt, Slot
        <4>2. QED BY <4>1
      <3>5. QED BY <1>4, <2>3, <3>1, <3>3, <3>4
    <2>6. QED BY <2>4, <2>5
  <1>12. QED BY <1>8, <1>9, <1>10, <1>11 DEF IInv

LEMMA PullPreserves ==
    ASSUME IInv, PullTaken
    PROVE  IInv'
  <1> DEFINE n == Len(pending)
             h == head_index_offset
  <1>1. /\ TypeOK
        /\ h \in 0 .. buff_length - 1
        /\ n * element_length < buff_length
        /\ tail_index_offset = SlotFrom(h, n + 1)
    BY DEF IInv, TypeOK, Fits, TailFollows, Slot
  <1>2. pending # <<>>
    BY EmptyTest DEF PullTaken, EmptyMeansNothingPending
  <1>3. /\ n \in Nat \ {0}
        /\ pending' = Tail(pending)
        /\ pending' \in Seq(Items)
        /\ Len(pending') = n - 1
        /\ \A i \in 1 .. n - 1 : pending'[i] = pending[i + 1]
    BY <1>2, EmptySeq, HeadTailProperties DEF PullTaken, TypeOK, IInv
  <1>4. \A i \in 1 .. n : SlotFrom(h', i) = SlotFrom(h, i + 1)
    <2>1. TAKE i \in 1 .. n
    <2>2. /\ i \in Nat \ {0}
          /\ i <= n
      BY <1>3
    <2>3. i * element_length <= n * element_length
      BY <1>3, <2>2, ProductMonotone, GeometryAssumption
    <2>4. /\ i * element_length \in Nat
          /\ n * element_length \in Nat
      BY <1>3, <2>2, ProductNext, GeometryAssumption
    <2>5. i * element_length <= buff_length
      BY <1>1, <2>3, <2>4, GeometryAssumption
    <2>6. h' = Advance(h)
      BY DEF PullTaken
    <2>7. QED BY <1>1, <2>2, <2>5, <2>6, SlotNext
  <1>5. h' \in 0 .. buff_length - 1
    <2>1. element_length \in 0 .. buff_length
      BY GeometryAssumption
    <2>2. QED BY <1>1, <2>1, Wrap DEF PullTaken, Advance
  <1>6. TypeOK'
    <2>1. pulled' \in [Index -> Cell]
      BY <1>1, ItemAtType DEF PullTaken
    <2>2. QED BY <1>1, <1>3, <1>5, <2>1 DEF TypeOK, PullTaken
  <1>7. TailFollows'
    <2>1. (n - 1) + 1 = n /\ n \in 1 .. n
      BY <1>3
    <2>2. QED BY <1>1, <1>3, <1>4, <2>1 DEF TailFollows, Slot, PullTaken
  <1>8. Fits'
    <2>1. (n - 1) * element_length <= n * element_length
      BY <1>3, ProductMonotone, GeometryAssumption
    <2>2. /\ (n - 1) * element_length \in Nat
          /\ n * element_length \in Nat
      BY <1>3, ProductNext, GeometryAssumption
    <2>3. QED BY <1>1, <1>3, <2>1, <2>2, GeometryAssumption DEF Fits
  <1>9. PendingIntact'
    <2>1. SUFFICES ASSUME NEW i \in 1 .. n - 1
                   PROVE  [k \in Index |-> local_buff'[SlotFrom(h', i) + k]] = pending'[i]
      BY <1>3 DEF PendingIntact, ItemAt, Slot
    <2>2. i + 1 \in 1 .. n /\ i \in 1 .. n
      BY <1>3
    <2>3. [k \in Index |-> local_buff[SlotFrom(h, i + 1) + k]] = pending[i + 1]
      BY <2>2 DEF IInv, PendingIntact, ItemAt, Slot
    <2>4. QED BY <1>3, <1>4, <2>2, <2>3 DEF PullTaken
  <1>10. QED BY <1>6, <1>7, <1>8, <1>9 DEF IInv

(* A refused call changes nothing but its return code.                      *)
LEMMA RefusalPreserves ==
    ASSUME IInv, rc' \in {-1, 0, element_length},
           UNCHANGED <<head_index_offset, tail_index_offset, local_buff, pulled, pending>>
    PROVE  IInv'
  BY DEF IInv, TypeOK, TailFollows, Fits, PendingIntact, Slot, ItemAt

LEMMA StepPreserves ==
    ASSUME SafeGeometry, IInv, [Next]_vars
    PROVE  IInv'
  <1>1. ASSUME NEW item \in Items, push_circle_buff_item(item)
        PROVE  IInv'
    BY <1>1, PushPreserves, RefusalPreserves DEF push_circle_buff_item, PushRefused
  <1>2. CASE pull_circle_buff_item
    BY <1>2, PullPreserves, RefusalPreserves DEF pull_circle_buff_item, PullRefused
  <1>3. CASE UNCHANGED vars
    <2>1. rc' = rc /\ rc \in {-1, 0, element_length}
      BY <1>3 DEF vars, IInv, TypeOK
    <2>2. QED BY <1>3, <2>1, RefusalPreserves DEF vars
  <1>4. QED BY <1>1, <1>2, <1>3 DEF Next

-----------------------------------------------------------------------------
(* In a safe geometry every behaviour satisfies the strengthened invariant. *)
LEMMA Invariance ==
    ASSUME SafeGeometry
    PROVE  Spec => []IInv
  <1>1. Init => IInv
    BY InitEstablishes
  <1>2. IInv /\ [Next]_vars => IInv'
    BY StepPreserves
  <1>3. QED BY <1>1, <1>2, PTL DEF Spec

(* Both offsets stay inside the buffer, the memory keeps its cells, and     *)
(* what is pulled has the type of an item, whatever the geometry's numbers. *)
THEOREM TypeCorrect ==
    ASSUME SafeGeometry
    PROVE  Spec => []TypeOK
  <1>1. IInv => TypeOK
    BY DEF IInv
  <1>2. QED BY <1>1, Invariance, PTL

(* is_buff_empty reports exactly whether an item waits: the full test never *)
(* lets the tail catch up with the head, which would make a full buffer     *)
(* look empty and lose everything in it.                                    *)
THEOREM EmptyTestCorrect ==
    ASSUME SafeGeometry
    PROVE  Spec => []EmptyMeansNothingPending
  <1>1. QED BY EmptyTest, Invariance, PTL

(* No push ever damages a waiting item, although the copies do not wrap.    *)
THEOREM ItemsStayWhole ==
    ASSUME SafeGeometry
    PROVE  Spec => []PendingIntact
  <1>1. IInv => PendingIntact
    BY DEF IInv
  <1>2. QED BY <1>1, Invariance, PTL

-----------------------------------------------------------------------------
(* The buffer implements the queue.                                         *)

Stored == [i \in 1 .. Len(pending) |-> ItemAt(Slot(i))]

(* What memory holds is what the history says is pending.                   *)
LEMMA StoredIsPending == IInv => Stored = pending
  <1> SUFFICES ASSUME IInv PROVE Stored = pending
    OBVIOUS
  <1>1. pending \in Seq(Items) /\ PendingIntact
    BY DEF IInv, TypeOK
  <1>2. pending = [i \in 1 .. Len(pending) |-> pending[i]]
    BY <1>1, LenProperties
  <1>3. QED BY <1>1, <1>2 DEF Stored, PendingIntact

LEMMA InitRefines == Init => Fifo!QInit
  <1> SUFFICES ASSUME Init PROVE Fifo!QInit
    OBVIOUS
  <1>1. Stored = pending
    BY InitEstablishes, StoredIsPending
  <1>2. QED BY <1>1 DEF Init, Stored, Fifo!QInit

LEMMA StepRefines ==
    ASSUME IInv, IInv', [Next]_vars
    PROVE  [Fifo!QNext]_(Fifo!qvars)
  <1>1. Stored = pending /\ Stored' = pending'
    <2>1. (IInv => Stored = pending)'
      BY StoredIsPending, PTL
    <2>2. QED BY <2>1, StoredIsPending
  <1>2. ASSUME UNCHANGED <<pulled, pending>>
        PROVE  UNCHANGED Fifo!qvars
    BY <1>1, <1>2 DEF Stored, Fifo!qvars
  <1>3. ASSUME NEW item \in Items, PushStored(item)
        PROVE  Fifo!Put(item)
    BY <1>1, <1>3 DEF PushStored, Stored, Fifo!Put
  <1>4. CASE PullTaken
    <2>1. pending # <<>> /\ pending' = Tail(pending)
      BY <1>4, EmptyTest DEF PullTaken, EmptyMeansNothingPending
    <2>2. pulled' = Head(pending)
      <3>1. pending \in Seq(Items) /\ 1 \in 1 .. Len(pending)
        BY <2>1, EmptySeq DEF IInv, TypeOK
      <3>2. ItemAt(Slot(1)) = pending[1]
        BY <3>1 DEF IInv, PendingIntact
      <3>3. Slot(1) = head_index_offset
        BY SlotFirst DEF Slot, IInv, TypeOK
      <3>4. QED BY <1>4, <3>1, <3>2, <3>3 DEF PullTaken
    <2>3. Fifo!Get
      BY <1>1, <2>1, <2>2 DEF Stored, Fifo!Get
    <2>4. QED BY <2>3 DEF Fifo!QNext
  <1>5. QED
    BY <1>2, <1>3, <1>4
    DEF Next, vars, push_circle_buff_item, pull_circle_buff_item,
        PushRefused, PullRefused, Fifo!QNext

(* In a safe geometry push_circle_buff_item and pull_circle_buff_item are   *)
(* the put and the get of a first-in first-out queue: every item that a     *)
(* push accepted is pulled once, whole and in order.                        *)
THEOREM ImplementsFifo ==
    ASSUME SafeGeometry
    PROVE  Spec => FifoSpec
  <1>1. Init => Fifo!QInit
    BY InitRefines
  <1>2. IInv /\ IInv' /\ [Next]_vars => [Fifo!QNext]_(Fifo!qvars)
    BY StepRefines
  <1>3. QED BY <1>1, <1>2, Invariance, PTL DEF Spec, FifoSpec, Fifo!QSpec

-----------------------------------------------------------------------------
(* How far behind the array a push can write.  Both lengths are multiples   *)
(* of some unit (8 bytes in the program), hence so is the tail, and at      *)
(* least one unit of every item fits behind it.  Neither the full test nor  *)
(* the window matters.                                                      *)
TailAligned(unit) ==
    /\ tail_index_offset \in 0 .. buff_length - 1
    /\ \E i \in Nat : tail_index_offset = i * unit

LEMMA AlignedFits ==
    ASSUME NEW unit \in Nat \ {0}, buff_length % unit = 0, TailAligned(unit)
    PROVE  tail_index_offset + unit <= buff_length
  <1>1. PICK i \in Nat : tail_index_offset = i * unit
    BY DEF TailAligned
  <1>2. (i + 1) * unit = tail_index_offset + unit
    BY <1>1, ProductNext
  <1>3. i * unit < buff_length
    BY <1>1, GeometryAssumption DEF TailAligned
  <1>4. QED BY <1>2, <1>3, MultipleRoom, GeometryAssumption

LEMMA AlignedAdvance ==
    ASSUME NEW unit \in Nat \ {0}, buff_length % unit = 0, element_length % unit = 0,
           TailAligned(unit), tail_index_offset' = Advance(tail_index_offset)
    PROVE  TailAligned(unit)'
  <1> DEFINE t == tail_index_offset
             m == element_length \div unit
             q == buff_length \div unit
  <1>1. PICK i \in Nat : t = i * unit
    BY DEF TailAligned
  <1>2. m \in Nat /\ element_length = m * unit /\ q \in Nat /\ buff_length = q * unit
    BY GeometryAssumption
  <1>3. /\ t \in 0 .. buff_length - 1
        /\ element_length \in 0 .. buff_length
    BY GeometryAssumption DEF TailAligned
  <1>4. /\ t' = IF t + element_length < buff_length
                THEN t + element_length ELSE t + element_length - buff_length
        /\ t' \in 0 .. buff_length - 1
    BY <1>3, Wrap DEF Advance
  <1> HIDE DEF m, q
  <1>5. t + element_length = (i + m) * unit
    BY <1>1, <1>2, ProductSum
  <1>6. CASE t + element_length < buff_length
    <2>1. i + m \in Nat
      BY <1>2
    <2>2. t' = (i + m) * unit
      BY <1>4, <1>5, <1>6
    <2>3. QED BY <1>4, <2>1, <2>2 DEF TailAligned
  <1>7. CASE t + element_length >= buff_length
    <2>1. i + m >= q
      <3>1. SUFFICES ASSUME i + m < q PROVE FALSE
        BY <1>2
      <3>2. (i + m) * unit < q * unit
        <4>1. (i + m + 1) * unit <= q * unit
          BY <1>2, <3>1, ProductMonotone
        <4>2. (i + m + 1) * unit = (i + m) * unit + unit
          BY <1>2, ProductNext
        <4>3. (i + m) * unit \in Nat /\ q * unit \in Nat
          BY <1>2, ProductNext
        <4> QED BY <4>1, <4>2, <4>3
      <3>3. QED BY <1>2, <1>3, <1>5, <1>7, <3>2, GeometryAssumption
    <2>2. t' = (i + m - q) * unit
      <3>1. (i + m - q) * unit + q * unit = (i + m) * unit
        <4>1. (i + m - q) + q = i + m
          BY <1>2
        <4>2. ((i + m - q) + q) * unit = (i + m - q) * unit + q * unit
          BY <1>2, ProductSum
        <4> QED BY <4>1, <4>2
      <3>2. (i + m - q) * unit \in Nat
        BY <1>2, <2>1, ProductNext
      <3>3. QED BY <1>2, <1>3, <1>4, <1>5, <1>7, <3>1, <3>2
    <2>3. i + m - q \in Nat
      BY <1>2, <2>1
    <2>4. QED BY <1>4, <2>2, <2>3 DEF TailAligned
  <1>8. QED BY <1>3, <1>6, <1>7, GeometryAssumption

LEMMA InitAligned ==
    ASSUME NEW unit \in Nat \ {0}, Init
    PROVE  TailAligned(unit)
  <1>1. 0 = 0 * unit /\ 0 \in 0 .. buff_length - 1
    BY GeometryAssumption
  <1>2. QED BY <1>1 DEF Init, TailAligned

LEMMA StepAligned ==
    ASSUME NEW unit \in Nat \ {0}, buff_length % unit = 0, element_length % unit = 0,
           TailAligned(unit), [Next]_vars
    PROVE  TailAligned(unit)'
  <1>1. tail_index_offset' \in {tail_index_offset, Advance(tail_index_offset)}
    BY DEF Next, vars, push_circle_buff_item, PushRefused, PushStored,
           pull_circle_buff_item, PullRefused, PullTaken
  <1>2. CASE tail_index_offset' = tail_index_offset
    BY <1>2 DEF TailAligned
  <1>3. QED BY <1>1, <1>2, AlignedAdvance

LEMMA StepReach ==
    ASSUME NEW unit \in Nat \ {0}, buff_length % unit = 0,
           TailAligned(unit), [Next]_vars,
           NEW a \in Addr, a >= buff_length + element_length - unit
    PROVE  local_buff'[a] = local_buff[a]
  <1>1. ASSUME NEW item \in Items, PushStored(item)
        PROVE  local_buff'[a] = local_buff[a]
    <2>1. local_buff'[a] = IF a \in tail_index_offset .. tail_index_offset + element_length - 1
                           THEN item[a - tail_index_offset] ELSE local_buff[a]
      BY <1>1 DEF PushStored, CopyTo
    <2>2. /\ tail_index_offset + unit <= buff_length
          /\ tail_index_offset \in Int
      BY AlignedFits DEF TailAligned
    <2>3. QED BY <2>1, <2>2, GeometryAssumption DEF Addr
  <1>2. CASE UNCHANGED local_buff
    BY <1>2
  <1>3. QED
    BY <1>1, <1>2 DEF Next, vars, push_circle_buff_item, PushRefused,
                      pull_circle_buff_item, PullRefused, PullTaken

(* What no step does: store into the cells that lie `distance' or more      *)
(* behind the end of local_buff.                                            *)
PushReach(distance) ==
    [][\A a \in Addr : a >= buff_length + distance => local_buff'[a] = local_buff[a]]_vars

(* A push runs past the end of local_buff by at most an item less one unit  *)
(* of both lengths, however full the callers let the buffer get.            *)
THEOREM OverhangIsBounded ==
    ASSUME NEW unit \in Nat \ {0}, buff_length % unit = 0, element_length % unit = 0
    PROVE  Spec => PushReach(element_length - unit)
  <1>1. Init => TailAligned(unit)
    BY InitAligned
  <1>2. TailAligned(unit) /\ [Next]_vars => TailAligned(unit)'
    BY StepAligned
  <1>3. TailAligned(unit) /\ [Next]_vars =>
            [\A a \in Addr : a >= buff_length + (element_length - unit)
                 => local_buff'[a] = local_buff[a]]_vars
    <2> SUFFICES ASSUME TailAligned(unit), [Next]_vars,
                        NEW a \in Addr, a >= buff_length + (element_length - unit)
                 PROVE  local_buff'[a] = local_buff[a]
      OBVIOUS
    <2>1. a >= buff_length + element_length - unit
      BY GeometryAssumption DEF Addr
    <2>2. QED BY <2>1, StepReach
  <1>4. QED BY <1>1, <1>2, <1>3, PTL DEF Spec, PushReach

(* In the program's geometry, counted in bytes: a push reaches at most 24   *)
(* bytes behind local_buff, of which up to 4 are padding and the others the *)
(* first of net_buff.mutex; the two condition variables after the mutex are *)
(* out of its reach.  Run ring_bounds shows that it does get there.         *)
THEOREM ProgramOverhang ==
    ASSUME element_length = 32, buff_length = 280
    PROVE  Spec => PushReach(24)
  <1>1. 8 \in Nat \ {0} /\ buff_length % 8 = 0 /\ element_length % 8 = 0
    OBVIOUS
  <1>2. Spec => PushReach(element_length - 8)
    BY <1>1, OverhangIsBounded
  <1>3. element_length - 8 = 24
    OBVIOUS
  <1>4. QED BY <1>2, <1>3
=============================================================================
