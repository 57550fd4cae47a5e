------------------------ MODULE BundleTransferProofs ------------------------
(***************************************************************************)
(* The bundle operations for buffers of any three lengths: no memcpy of an *)
(* allowed move leaves the two buffers, and the three together are one     *)
(* queue of bytes.                                                         *)
(*                                                                         *)
(* TypeOK is inductive as it stands.  The work is in one lemma, MovedIs:   *)
(* whichever of the five ways Copies cuts a bundle, a cell of the buffer   *)
(* it goes to gets the byte that is as far behind the bundle's start as    *)
(* the cell is behind the buffer's tail, or keeps its own.                 *)
(***************************************************************************)
EXTENDS BundleTransfer, SequenceLemmas

(* Where an offset below 2 * n lies in a buffer of length n. *)
Wrap(x, n) == IF x >= n THEN x - n ELSE x

(* How far cell a is behind offset t. *)
Ahead(a, t, n) == IF a >= t THEN a - t ELSE a + n - t

-----------------------------------------------------------------------------
(* Offsets. *)
LEMMA Modulo ==
  ASSUME NEW n \in Nat \ {0}, NEW a \in Int
  PROVE  a % n \in 0 .. n - 1
  BY SMTT(30)

LEMMA Difference ==
  ASSUME NEW n \in Nat \ {0}, NEW a \in 0 .. n - 1, NEW b \in 0 .. n - 1
  PROVE  (a - b) % n = IF b <= a THEN a - b ELSE n - b + a
  BY SMTT(30)

LEMMA Wraps ==
  ASSUME NEW n \in Nat \ {0}, NEW x \in 0 .. 2 * n - 1
  PROVE  x % n = Wrap(x, n) /\ Wrap(x, n) \in 0 .. n - 1
  BY SMTT(30) DEF Wrap

LEMMA Lengths ==
  LocalLength \in Nat \ {0} /\ CircleLength \in Nat \ {0} /\ FetchLength \in Nat \ {0}
  BY LengthAssumption

LEMMA Fields ==
  ASSUME NEW n \in Nat \ {0}, NEW b \in Buffer(n)
  PROVE  /\ b.head_index_offset \in 0 .. n - 1
         /\ b.tail_index_offset \in 0 .. n - 1
         /\ b.buff_length = n
         /\ b.cells \in [0 .. n - 1 -> Byte]
  BY DEF Buffer

LEMMA UsedIs ==
  ASSUME NEW n \in Nat \ {0}, NEW b \in Buffer(n)
  PROVE  /\ Used(b) = IF b.head_index_offset <= b.tail_index_offset
                      THEN b.tail_index_offset - b.head_index_offset
                      ELSE n - b.head_index_offset + b.tail_index_offset
         /\ Used(b) \in 0 .. n - 1
<1> DEFINE ir == b.head_index_offset
           iw == b.tail_index_offset
<1>1. ir \in 0 .. n - 1 /\ iw \in 0 .. n - 1 /\ Used(b) = (iw - ir) % n
  BY Fields DEF Used
<1> HIDE DEF ir, iw
<1>2. Used(b) = IF ir <= iw THEN iw - ir ELSE n - ir + iw
  BY <1>1, Difference
<1> QED
  BY <1>1, <1>2 DEF ir, iw

LEMMA SizeIsUsed ==
  ASSUME NEW n \in Nat \ {0}, NEW b \in Buffer(n), ~ is_buff_empty(b)
  PROVE  Size(b) = Used(b)
  BY Fields, UsedIs DEF Size, is_buff_empty

-----------------------------------------------------------------------------
(* One, two or three pieces, made one by one. *)
LEMMA MovedOne ==
  ASSUME NEW in, NEW out, NEW c1, Copies(in, out) = <<c1>>
  PROVE  Moved(out, in) = Memcpy(out.cells, in.cells, c1)
  BY DEF Moved

LEMMA MovedTwo ==
  ASSUME NEW in, NEW out, NEW c1, NEW c2, Copies(in, out) = <<c1, c2>>
  PROVE  Moved(out, in) = Memcpy(Memcpy(out.cells, in.cells, c1), in.cells, c2)
  BY DEF Moved

LEMMA MovedThree ==
  ASSUME NEW in, NEW out, NEW c1, NEW c2, NEW c3, Copies(in, out) = <<c1, c2, c3>>
  PROVE  Moved(out, in)
           = Memcpy(Memcpy(Memcpy(out.cells, in.cells, c1), in.cells, c2), in.cells, c3)
  BY DEF Moved

(* What a cell holds after a move, and that every piece lies inside.        *)
LEMMA MovedIs ==
  ASSUME NEW m \in Nat \ {0}, NEW in \in Buffer(m), ~ is_buff_empty(in),
         NEW n \in Nat \ {0}, NEW out \in Buffer(n), Used(in) < n
  PROVE  /\ Inside(in, out)
         /\ DOMAIN Moved(out, in) = 0 .. n - 1
         /\ \A a \in 0 .. n - 1 :
               Moved(out, in)[a]
                 = IF Ahead(a, out.tail_index_offset, n) < Used(in)
                   THEN in.cells[Wrap(in.head_index_offset
                                        + Ahead(a, out.tail_index_offset, n), m)]
                   ELSE out.cells[a]
<1> DEFINE ir == in.head_index_offset
           iw == in.tail_index_offset
           ow == out.tail_index_offset
           room == n - ow
           rest == m - ir
           c == out.cells
           s == in.cells
<1>1. /\ ir \in 0 .. m - 1 /\ iw \in 0 .. m - 1 /\ ow \in 0 .. n - 1
      /\ in.buff_length = m /\ out.buff_length = n /\ ir # iw
      /\ DOMAIN c = 0 .. n - 1
  BY Fields DEF is_buff_empty, ir, iw, ow, c
<1> HIDE DEF ir, iw, ow, room, rest, c, s
<1>0. /\ room = n - ow /\ rest = m - ir /\ room \in 1 .. n /\ rest \in 1 .. m
      /\ room \in Int /\ rest \in Int /\ ir \in Int /\ iw \in Int /\ ow \in Int
  BY <1>1 DEF room, rest
<1>a. /\ in.head_index_offset = ir /\ in.tail_index_offset = iw /\ out.tail_index_offset = ow
      /\ out.buff_length - ow = room /\ in.buff_length - ir = rest
      /\ {ir, iw, ow, room, rest} \subseteq Int
  BY <1>0, <1>1 DEF ir, iw, ow
<1>b. DOMAIN c = 0 .. n - 1 /\ {ir, iw, ow, room, rest} \subseteq Int
  BY <1>0, <1>1
<1>2. Used(in) = IF ir < iw THEN iw - ir ELSE rest + iw
  <2>1. Used(in) = IF ir <= iw THEN iw - ir ELSE m - ir + iw
    BY UsedIs DEF ir, iw
  <2> QED
    BY <1>0, <1>1, <2>1
<1> SUFFICES /\ Inside(in, out)
             /\ DOMAIN Moved(out, in) = 0 .. n - 1
             /\ \A a \in 0 .. n - 1 :
                   Moved(out, in)[a] = IF Ahead(a, ow, n) < Used(in)
                                       THEN s[Wrap(ir + Ahead(a, ow, n), m)] ELSE c[a]
  BY DEF ir, ow, c, s
<1>3. CASE ir < iw /\ room > iw - ir
  <2>1. Copies(in, out) = <<Copy(ow, ir, iw - ir)>>
    BY <1>a, <1>3 DEF Copies
  <2>2. Inside(in, out)
    BY <1>0, <1>1, <1>3, <2>1 DEF Inside, Copy
  <2>3. Moved(out, in) = Memcpy(c, s, Copy(ow, ir, iw - ir))
    BY <2>1, MovedOne DEF c, s
  <2>4. /\ DOMAIN Moved(out, in) = 0 .. n - 1
        /\ \A a \in 0 .. n - 1 :
              Moved(out, in)[a]
                = IF a >= ow /\ a < ow + (iw - ir) THEN s[ir + a - ow] ELSE c[a]
    BY SMTT(20), <1>b, <2>3 DEF Memcpy, Copy
  <2> QED
    BY <1>0, <1>1, <1>2, <1>3, <2>2, <2>4 DEF Ahead, Wrap
<1>4. CASE ir < iw /\ room <= iw - ir
  <2> DEFINE c1 == Memcpy(c, s, Copy(ow, ir, room))
  <2>1. Copies(in, out) = <<Copy(ow, ir, room), Copy(0, ir + room, iw - ir - room)>>
    BY <1>a, <1>4 DEF Copies
  <2>2. Moved(out, in) = Memcpy(c1, s, Copy(0, ir + room, iw - ir - room))
    BY <2>1, MovedTwo DEF c, s
  <2> HIDE DEF c1
  <2>3. Inside(in, out)
    BY SMTT(20), <1>0, <1>1, <1>2, <1>4, <2>1 DEF Inside, Copy
  <2>4. /\ DOMAIN c1 = 0 .. n - 1
        /\ \A a \in 0 .. n - 1 :
              c1[a] = IF a >= ow /\ a < ow + room THEN s[ir + a - ow] ELSE c[a]
    BY SMTT(20), <1>b DEF c1, Memcpy, Copy
  <2>5. /\ DOMAIN Moved(out, in) = 0 .. n - 1
        /\ \A a \in 0 .. n - 1 :
              Moved(out, in)[a] = IF a >= 0 /\ a < 0 + (iw - ir - room)
                                  THEN s[ir + room + a] ELSE c1[a]
    BY SMTT(20), <1>b, <2>2, <2>4 DEF Memcpy, Copy
  <2> SUFFICES ASSUME NEW a \in 0 .. n - 1
               PROVE  Moved(out, in)[a] = IF Ahead(a, ow, n) < Used(in)
                                          THEN s[Wrap(ir + Ahead(a, ow, n), m)] ELSE c[a]
    BY <2>3, <2>5
  <2>6. CASE a < iw - ir - room
    <3>1. Ahead(a, ow, n) < Used(in) /\ Wrap(ir + Ahead(a, ow, n), m) = ir + room + a
      BY <1>0, <1>1, <1>2, <1>4, <2>6 DEF Ahead, Wrap
    <3>2. Moved(out, in)[a] = s[ir + room + a]
      BY <1>0, <1>1, <1>2, <1>4, <2>4, <2>5, <2>6
    <3> QED
      BY <3>1, <3>2
  <2>7. CASE a >= ow
    <3>1. Ahead(a, ow, n) < Used(in) /\ Wrap(ir + Ahead(a, ow, n), m) = ir + a - ow
      BY <1>0, <1>1, <1>2, <1>4, <2>7 DEF Ahead, Wrap
    <3>2. Moved(out, in)[a] = s[ir + a - ow]
      BY <1>0, <1>1, <1>2, <1>4, <2>4, <2>5, <2>7
    <3> QED
      BY <3>1, <3>2
  <2>8. CASE a >= iw - ir - room /\ a < ow
    <3>1. ~ (Ahead(a, ow, n) < Used(in))
      BY <1>0, <1>1, <1>2, <1>4, <2>8 DEF Ahead, Wrap
    <3>2. Moved(out, in)[a] = c[a]
      BY <1>0, <1>1, <1>2, <1>4, <2>4, <2>5, <2>8
    <3> QED
      BY <3>1, <3>2
  <2>9. \/ a < iw - ir - room
        \/ a >= ow
        \/ a >= iw - ir - room /\ a < ow
    BY <1>0, <1>1, <1>2, <1>4
  <2> QED
    BY <2>6, <2>7, <2>8, <2>9
<1>5. CASE ir > iw /\ room >= rest + iw
  <2> DEFINE c1 == Memcpy(c, s, Copy(ow, ir, rest))
  <2>1. Copies(in, out) = <<Copy(ow, ir, rest), Copy(ow + rest, 0, iw)>>
    <3>1. /\ ~ (ir < iw) /\ ir >= iw /\ room >= rest + iw
          /\ ~ (room < rest + iw) /\ ~ (room < rest)
      BY <1>0, <1>1, <1>5
    <3> QED
      BY <1>a, <3>1 DEF Copies
  <2>2. Moved(out, in) = Memcpy(c1, s, Copy(ow + rest, 0, iw))
    BY <2>1, MovedTwo DEF c, s
  <2> HIDE DEF c1
  <2>3. Inside(in, out)
    BY SMTT(20), <1>0, <1>1, <1>2, <1>5, <2>1 DEF Inside, Copy
  <2>4. /\ DOMAIN c1 = 0 .. n - 1
        /\ \A a \in 0 .. n - 1 :
              c1[a] = IF a >= ow /\ a < ow + rest THEN s[ir + a - ow] ELSE c[a]
    BY SMTT(20), <1>b DEF c1, Memcpy, Copy
  <2>5. /\ DOMAIN Moved(out, in) = 0 .. n - 1
        /\ \A a \in 0 .. n - 1 :
              Moved(out, in)[a] = IF a >= ow + rest /\ a < ow + rest + iw
                                  THEN s[0 + a - (ow + rest)] ELSE c1[a]
    BY SMTT(20), <1>b, <2>2, <2>4 DEF Memcpy, Copy
  <2> SUFFICES ASSUME NEW a \in 0 .. n - 1
               PROVE  Moved(out, in)[a] = IF Ahead(a, ow, n) < Used(in)
                                          THEN s[Wrap(ir + Ahead(a, ow, n), m)] ELSE c[a]
    BY <2>3, <2>5
  <2>6. CASE a >= ow + rest /\ a < ow + rest + iw
    <3>1. Ahead(a, ow, n) < Used(in) /\ Wrap(ir + Ahead(a, ow, n), m) = 0 + a - (ow + rest)
      BY <1>0, <1>1, <1>2, <1>5, <2>6 DEF Ahead, Wrap
    <3>2. Moved(out, in)[a] = s[0 + a - (ow + rest)]
      BY <1>0, <1>1, <1>2, <1>5, <2>4, <2>5, <2>6
    <3> QED
      BY <3>1, <3>2
  <2>7. CASE a >= ow /\ a < ow + rest
    <3>1. Ahead(a, ow, n) < Used(in) /\ Wrap(ir + Ahead(a, ow, n), m) = ir + a - ow
      BY <1>0, <1>1, <1>2, <1>5, <2>7 DEF Ahead, Wrap
    <3>2. Moved(out, in)[a] = s[ir + a - ow]
      BY <1>0, <1>1, <1>2, <1>5, <2>4, <2>5, <2>7
    <3> QED
      BY <3>1, <3>2
  <2>8. CASE a < ow \/ a >= ow + rest + iw
    <3>1. ~ (Ahead(a, ow, n) < Used(in))
      BY <1>0, <1>1, <1>2, <1>5, <2>8 DEF Ahead, Wrap
    <3>2. Moved(out, in)[a] = c[a]
      BY <1>0, <1>1, <1>2, <1>5, <2>4, <2>5, <2>8
    <3> QED
      BY <3>1, <3>2
  <2>9. \/ a >= ow + rest /\ a < ow + rest + iw
        \/ a >= ow /\ a < ow + rest
        \/ a < ow \/ a >= ow + rest + iw
    BY <1>0, <1>1, <1>2, <1>5
  <2> QED
    BY <2>6, <2>7, <2>8, <2>9
<1>6. CASE ir > iw /\ room >= rest /\ room < rest + iw
  <2> DEFINE c1 == Memcpy(c, s, Copy(ow, ir, rest))
             c2 == Memcpy(c1, s, Copy(ow + rest, 0, room - rest))
  <2>1. Copies(in, out) = <<Copy(ow, ir, rest), Copy(ow + rest, 0, room - rest),
                            Copy(0, room - rest, rest + iw - room)>>
    BY <1>a, <1>6 DEF Copies
  <2>2. Moved(out, in) = Memcpy(c2, s, Copy(0, room - rest, rest + iw - room))
    BY <2>1, MovedThree DEF c, s
  <2> HIDE DEF c1, c2
  <2>3. Inside(in, out)
    BY SMTT(20), <1>0, <1>1, <1>2, <1>6, <2>1 DEF Inside, Copy
  <2>4. /\ DOMAIN c1 = 0 .. n - 1
        /\ \A a \in 0 .. n - 1 :
              c1[a] = IF a >= ow /\ a < ow + rest THEN s[ir + a - ow] ELSE c[a]
    BY SMTT(20), <1>b DEF c1, Memcpy, Copy
  <2>5. /\ DOMAIN c2 = 0 .. n - 1
        /\ \A a \in 0 .. n - 1 :
              c2[a] = IF a >= ow + rest /\ a < ow + rest + (room - rest)
                      THEN s[0 + a - (ow + rest)] ELSE c1[a]
    BY SMTT(20), <1>b, <2>4 DEF c2, Memcpy, Copy
  <2>6. /\ DOMAIN Moved(out, in) = 0 .. n - 1
        /\ \A a \in 0 .. n - 1 :
              Moved(out, in)[a] = IF a >= 0 /\ a < 0 + (rest + iw - room)
                                  THEN s[room - rest + a] ELSE c2[a]
    BY SMTT(20), <1>b, <2>2, <2>5 DEF Memcpy, Copy
  <2> SUFFICES ASSUME NEW a \in 0 .. n - 1
               PROVE  Moved(out, in)[a] = IF Ahead(a, ow, n) < Used(in)
                                          THEN s[Wrap(ir + Ahead(a, ow, n), m)] ELSE c[a]
    BY <2>3, <2>6
  <2>7. CASE a < rest + iw - room
    <3>1. Ahead(a, ow, n) < Used(in) /\ Wrap(ir + Ahead(a, ow, n), m) = room - rest + a
      BY <1>0, <1>1, <1>2, <1>6, <2>7 DEF Ahead, Wrap
    <3>2. a >= 0 /\ a < 0 + (rest + iw - room)
      BY <1>0, <1>1, <1>2, <1>6, <2>7
    <3>3. Moved(out, in)[a] = s[room - rest + a]
      BY <2>6, <3>2
    <3> QED
      BY <3>1, <3>3
  <2>8. CASE a >= ow + rest
    <3>1. Ahead(a, ow, n) < Used(in) /\ Wrap(ir + Ahead(a, ow, n), m) = 0 + a - (ow + rest)
      BY <1>0, <1>1, <1>2, <1>6, <2>8 DEF Ahead, Wrap
    <3>2. /\ a >= ow + rest /\ a < ow + rest + (room - rest)
          /\ ~ (a >= 0 /\ a < 0 + (rest + iw - room))
      BY <1>0, <1>1, <1>2, <1>6, <2>8
    <3>3. Moved(out, in)[a] = c2[a]
      BY <2>6, <3>2
    <3>4. c2[a] = s[0 + a - (ow + rest)]
      BY <2>5, <3>2
    <3> QED
      BY <3>1, <3>3, <3>4
  <2>9. CASE a >= ow /\ a < ow + rest
    <3>1. Ahead(a, ow, n) < Used(in) /\ Wrap(ir + Ahead(a, ow, n), m) = ir + a - ow
      BY <1>0, <1>1, <1>2, <1>6, <2>9 DEF Ahead, Wrap
    <3>2. /\ a >= ow /\ a < ow + rest
          /\ ~ (a >= 0 /\ a < 0 + (rest + iw - room))
          /\ ~ (a >= ow + rest /\ a < ow + rest + (room - rest))
      BY <1>0, <1>1, <1>2, <1>6, <2>9
    <3>3. Moved(out, in)[a] = c2[a]
      BY <2>6, <3>2
    <3>4. c2[a] = c1[a]
      BY <2>5, <3>2
    <3>5. c1[a] = s[ir + a - ow]
      BY <2>4, <3>2
    <3> QED
      BY <3>1, <3>3, <3>4, <3>5
  <2>10. CASE a >= rest + iw - room /\ a < ow
    <3>1. ~ (Ahead(a, ow, n) < Used(in))
      BY <1>0, <1>1, <1>2, <1>6, <2>10 DEF Ahead, Wrap
    <3>2. /\ ~ (a >= 0 /\ a < 0 + (rest + iw - room))
          /\ ~ (a >= ow + rest /\ a < ow + rest + (room - rest))
          /\ ~ (a >= ow /\ a < ow + rest)
      BY <1>0, <1>1, <1>2, <1>6, <2>10
    <3>3. Moved(out, in)[a] = c2[a]
      BY <2>6, <3>2
    <3>4. c2[a] = c1[a]
      BY <2>5, <3>2
    <3>5. c1[a] = c[a]
      BY <2>4, <3>2
    <3> QED
      BY <3>1, <3>3, <3>4, <3>5
  <2>11. \/ a < rest + iw - room
         \/ a >= ow + rest
         \/ a >= ow /\ a < ow + rest
         \/ a >= rest + iw - room /\ a < ow
    BY <1>0, <1>1, <1>2, <1>6
  <2> QED
    BY <2>7, <2>8, <2>9, <2>10, <2>11
<1>7. CASE ir > iw /\ room < rest
  <2> DEFINE c1 == Memcpy(c, s, Copy(ow, ir, room))
             c2 == Memcpy(c1, s, Copy(0, ir + room, rest - room))
  <2>1. Copies(in, out) = <<Copy(ow, ir, room), Copy(0, ir + room, rest - room),
                            Copy(rest - room, 0, iw)>>
    BY <1>a, <1>7 DEF Copies
  <2>2. Moved(out, in) = Memcpy(c2, s, Copy(rest - room, 0, iw))
    BY <2>1, MovedThree DEF c, s
  <2> HIDE DEF c1, c2
  <2>3. Inside(in, out)
    BY SMTT(20), <1>0, <1>1, <1>2, <1>7, <2>1 DEF Inside, Copy
  <2>4. /\ DOMAIN c1 = 0 .. n - 1
        /\ \A a \in 0 .. n - 1 :
              c1[a] = IF a >= ow /\ a < ow + room THEN s[ir + a - ow] ELSE c[a]
    BY SMTT(20), <1>b DEF c1, Memcpy, Copy
  <2>5. /\ DOMAIN c2 = 0 .. n - 1
        /\ \A a \in 0 .. n - 1 :
              c2[a] = IF a >= 0 /\ a < 0 + (rest - room)
                      THEN s[ir + room + a] ELSE c1[a]
    BY SMTT(20), <1>b, <2>4 DEF c2, Memcpy, Copy
  <2>6. /\ DOMAIN Moved(out, in) = 0 .. n - 1
        /\ \A a \in 0 .. n - 1 :
              Moved(out, in)[a] = IF a >= rest - room /\ a < rest - room + iw
                                  THEN s[0 + a - (rest - room)] ELSE c2[a]
    BY SMTT(20), <1>b, <2>2, <2>5 DEF Memcpy, Copy
  <2> SUFFICES ASSUME NEW a \in 0 .. n - 1
               PROVE  Moved(out, in)[a] = IF Ahead(a, ow, n) < Used(in)
                                          THEN s[Wrap(ir + Ahead(a, ow, n), m)] ELSE c[a]
    BY <2>3, <2>6
  <2>7. CASE a >= rest - room /\ a < rest - room + iw
    <3>1. Ahead(a, ow, n) < Used(in) /\ Wrap(ir + Ahead(a, ow, n), m) = 0 + a - (rest - room)
      BY <1>0, <1>1, <1>2, <1>7, <2>7 DEF Ahead, Wrap
    <3>2. a >= rest - room /\ a < rest - room + iw
      BY <1>0, <1>1, <1>2, <1>7, <2>7
    <3>3. Moved(out, in)[a] = s[0 + a - (rest - room)]
      BY <2>6, <3>2
    <3> QED
      BY <3>1, <3>3
  <2>8. CASE a < rest - room
    <3>1. Ahead(a, ow, n) < Used(in) /\ Wrap(ir + Ahead(a, ow, n), m) = ir + room + a
      BY <1>0, <1>1, <1>2, <1>7, <2>8 DEF Ahead, Wrap
    <3>2. /\ a >= 0 /\ a < 0 + (rest - room)
          /\ ~ (a >= rest - room /\ a < rest - room + iw)
      BY <1>0, <1>1, <1>2, <1>7, <2>8
    <3>3. Moved(out, in)[a] = c2[a]
      BY <2>6, <3>2
    <3>4. c2[a] = s[ir + room + a]
      BY <2>5, <3>2
    <3> QED
      BY <3>1, <3>3, <3>4
  <2>9. CASE a >= ow
    <3>1. Ahead(a, ow, n) < Used(in) /\ Wrap(ir + Ahead(a, ow, n), m) = ir + a - ow
      BY <1>0, <1>1, <1>2, <1>7, <2>9 DEF Ahead, Wrap
    <3>2. /\ a >= ow /\ a < ow + room
          /\ ~ (a >= rest - room /\ a < rest - room + iw)
          /\ ~ (a >= 0 /\ a < 0 + (rest - room))
      BY <1>0, <1>1, <1>2, <1>7, <2>9
    <3>3. Moved(out, in)[a] = c2[a]
      BY <2>6, <3>2
    <3>4. c2[a] = c1[a]
      BY <2>5, <3>2
    <3>5. c1[a] = s[ir + a - ow]
      BY <2>4, <3>2
    <3> QED
      BY <3>1, <3>3, <3>4, <3>5
  <2>10. CASE a >= rest - room + iw /\ a < ow
    <3>1. ~ (Ahead(a, ow, n) < Used(in))
      BY <1>0, <1>1, <1>2, <1>7, <2>10 DEF Ahead, Wrap
    <3>2. /\ ~ (a >= rest - room /\ a < rest - room + iw)
          /\ ~ (a >= 0 /\ a < 0 + (rest - room))
          /\ ~ (a >= ow /\ a < ow + room)
      BY <1>0, <1>1, <1>2, <1>7, <2>10
    <3>3. Moved(out, in)[a] = c2[a]
      BY <2>6, <3>2
    <3>4. c2[a] = c1[a]
      BY <2>5, <3>2
    <3>5. c1[a] = c[a]
      BY <2>4, <3>2
    <3> QED
      BY <3>1, <3>3, <3>4, <3>5
  <2>11. \/ a >= rest - room /\ a < rest - room + iw
         \/ a < rest - room
         \/ a >= ow
         \/ a >= rest - room + iw /\ a < ow
    BY <1>0, <1>1, <1>2, <1>7
  <2> QED
    BY <2>7, <2>8, <2>9, <2>10, <2>11
<1> QED
  BY <1>0, <1>1, <1>3, <1>4, <1>5, <1>6, <1>7

(* A move changes cells and makes no others.                                *)
LEMMA MovedIsCells ==
  ASSUME NEW m \in Nat \ {0}, NEW in \in Buffer(m), ~ is_buff_empty(in),
         NEW n \in Nat \ {0}, NEW out \in Buffer(n), Used(in) < n
  PROVE  Moved(out, in) \in [0 .. n - 1 -> Byte]
<1> DEFINE copies == Copies(in, out)
           Done(cells, i) ==
             IF i <= Len(copies) THEN Memcpy(cells, in.cells, copies[i]) ELSE cells
           d1 == Done(out.cells, 1)
           d2 == Done(d1, 2)
           d3 == Done(d2, 3)
           D == 0 .. n - 1
<1>1. Moved(out, in) = d3
  BY DEF Moved
<1>2. out.cells \in [D -> Byte]
  BY Fields
<1>3. ASSUME NEW cells, NEW k, cells = [a \in D |-> cells[a]]
      PROVE  Done(cells, k) = [a \in D |-> Done(cells, k)[a]]
  <2>1. DOMAIN cells = D
    BY <1>3
  <2>2. Memcpy(cells, in.cells, copies[k])
          = [a \in D |-> Memcpy(cells, in.cells, copies[k])[a]]
    BY <2>1 DEF Memcpy
  <2> QED
    BY <1>3, <2>2
<1> HIDE DEF Done, D
<1>4. d3 = [a \in D |-> d3[a]]
  <2>1. out.cells = [a \in D |-> out.cells[a]]
    BY <1>2
  <2>2. d1 = [a \in D |-> d1[a]]
    BY <1>3, <2>1
  <2> HIDE DEF d1
  <2>3. d2 = [a \in D |-> d2[a]]
    BY <1>3, <2>2
  <2> HIDE DEF d2
  <2> QED
    BY <1>3, <2>3
<1> HIDE DEF d3
<1>5. ASSUME NEW a \in 0 .. n - 1 PROVE Moved(out, in)[a] \in Byte
  <2> DEFINE back == Ahead(a, out.tail_index_offset, n)
             from == Wrap(in.head_index_offset + back, m)
  <2>1. /\ in.head_index_offset \in 0 .. m - 1 /\ out.tail_index_offset \in 0 .. n - 1
        /\ in.cells \in [0 .. m - 1 -> Byte] /\ Used(in) \in 0 .. m - 1
    BY Fields, UsedIs
  <2>2. back \in 0 .. n - 1
    <3> DEFINE ow == out.tail_index_offset
    <3>1. ow \in 0 .. n - 1
      BY <2>1
    <3> HIDE DEF ow
    <3>2. Ahead(a, ow, n) \in 0 .. n - 1
      BY <3>1 DEF Ahead
    <3> QED
      BY <3>2 DEF ow
  <2>3. back < Used(in) => from \in 0 .. m - 1
    BY <2>1, <2>2 DEF Wrap
  <2>4. Moved(out, in)[a] = IF back < Used(in) THEN in.cells[from] ELSE out.cells[a]
    BY MovedIs
  <2> HIDE DEF back, from
  <2> QED
    BY <1>2, <2>1, <2>3, <2>4 DEF D
<1> QED
  BY <1>1, <1>4, <1>5 DEF D

-----------------------------------------------------------------------------
(* What a buffer holds, without the remainders.                             *)
LEMMA BytesAre ==
  ASSUME NEW n \in Nat \ {0}, NEW b \in Buffer(n)
  PROVE  /\ Bytes(b) \in Seq(Byte) /\ Len(Bytes(b)) = Used(b)
         /\ \A i \in 1 .. Used(b) : Bytes(b)[i] = b.cells[Wrap(b.head_index_offset + i - 1, n)]
<1> DEFINE ir == b.head_index_offset
           u == Used(b)
<1>1. /\ ir \in 0 .. n - 1 /\ u \in 0 .. n - 1 /\ b.buff_length = n
      /\ b.cells \in [0 .. n - 1 -> Byte]
  BY Fields, UsedIs
<1>2. Bytes(b) = [i \in 1 .. u |-> b.cells[(ir + i - 1) % n]]
  BY <1>1 DEF Bytes
<1> HIDE DEF ir, u
<1>3. ASSUME NEW i \in 1 .. u
      PROVE  (ir + i - 1) % n = Wrap(ir + i - 1, n) /\ Wrap(ir + i - 1, n) \in 0 .. n - 1
  <2>1. ir + i - 1 \in 0 .. 2 * n - 1
    BY <1>1
  <2> QED
    BY <2>1, Wraps
<1>4. ASSUME NEW i \in 1 .. u
      PROVE  Bytes(b)[i] = b.cells[Wrap(ir + i - 1, n)] /\ Bytes(b)[i] \in Byte
  <2>1. Bytes(b)[i] = b.cells[Wrap(ir + i - 1, n)]
    BY <1>2, <1>3
  <2>2. Wrap(ir + i - 1, n) \in 0 .. n - 1
    BY <1>3
  <2> QED
    BY <1>1, <2>1, <2>2
<1>5. Bytes(b) = [i \in 1 .. u |-> Bytes(b)[i]]
  BY <1>2
<1>6. Bytes(b) \in [1 .. u -> Byte]
  BY <1>4, <1>5
<1>7. u \in Nat
  BY <1>1
<1> QED
  BY <1>4, <1>6, <1>7 DEF ir, u

(* Equal lengths and equal bytes make equal contents. *)
LEMMA Contents ==
  ASSUME NEW n \in Nat \ {0}, NEW b \in Buffer(n), NEW seq \in Seq(Byte),
         Len(seq) = Used(b),
         \A i \in 1 .. Used(b) :
            seq[i] = b.cells[Wrap(b.head_index_offset + i - 1, n)]
  PROVE  Bytes(b) = seq
<1>1. Bytes(b) \in Seq(Byte) /\ Len(Bytes(b)) = Len(seq)
  BY BytesAre
<1>2. ASSUME NEW i \in 1 .. Len(Bytes(b)) PROVE Bytes(b)[i] = seq[i]
  BY BytesAre, <1>1
<1> QED
  BY <1>1, <1>2, SeqEqual

LEMMA EmptyHoldsNothing ==
  ASSUME NEW n \in Nat \ {0}, NEW b \in Buffer(n)
  PROVE  is_buff_empty(b) <=> Bytes(b) = <<>>
<1>1. Used(b) = 0 <=> is_buff_empty(b)
  BY Fields, UsedIs DEF is_buff_empty
<1> QED
  BY <1>1, BytesAre, EmptySeq

(* The buffer a bundle left. *)
LEMMA EmptiedIs ==
  ASSUME NEW m \in Nat \ {0}, NEW in \in Buffer(m)
  PROVE  Emptied(in) \in Buffer(m) /\ Bytes(Emptied(in)) = <<>>
<1>1. Emptied(in) \in Buffer(m) /\ is_buff_empty(Emptied(in))
  BY DEF Emptied, Buffer, is_buff_empty
<1> QED
  BY <1>1, EmptyHoldsNothing

(* The buffer a bundle went to. *)
LEMMA FilledIs ==
  ASSUME NEW m \in Nat \ {0}, NEW in \in Buffer(m), ~ is_buff_empty(in),
         NEW n \in Nat \ {0}, NEW out \in Buffer(n), Used(out) + Used(in) < n
  PROVE  Filled(out, in) \in Buffer(n) /\ Bytes(Filled(out, in)) = Bytes(out) \o Bytes(in)
<1> DEFINE b == Filled(out, in)
           oh == out.head_index_offset
           ow == out.tail_index_offset
           ir == in.head_index_offset
           u == Used(out)
           v == Used(in)
<1>1. /\ oh \in 0 .. n - 1 /\ ow \in 0 .. n - 1 /\ ir \in 0 .. m - 1
      /\ u \in 0 .. n - 1 /\ v \in 0 .. m - 1 /\ u + v < n /\ v < n
      /\ u = IF oh <= ow THEN ow - oh ELSE n - oh + ow
  BY Fields, UsedIs
<1>2. (ow + v) % n = Wrap(ow + v, n) /\ Wrap(ow + v, n) \in 0 .. n - 1
  <2> HIDE DEF ow, v, u
  <2>1. ow + v \in 0 .. 2 * n - 1
    BY <1>1
  <2> QED
    BY <2>1, Wraps
<1>3. Moved(out, in) \in [0 .. n - 1 -> Byte]
  BY <1>1, MovedIsCells
<1>4. b = [out EXCEPT !.cells = Moved(out, in), !.tail_index_offset = Wrap(ow + v, n)]
  <2>1. out.buff_length = n /\ Size(in) = v
    BY Fields, SizeIsUsed
  <2> QED
    BY <1>2, <2>1 DEF Filled
<1>5. /\ b \in Buffer(n) /\ b.head_index_offset = oh
      /\ b.tail_index_offset = Wrap(ow + v, n) /\ b.cells = Moved(out, in)
  BY <1>2, <1>3, <1>4 DEF Buffer
<1>6. \A a \in 0 .. n - 1 :
         b.cells[a] = IF Ahead(a, ow, n) < v
                      THEN in.cells[Wrap(ir + Ahead(a, ow, n), m)] ELSE out.cells[a]
  BY <1>1, <1>5, MovedIs
<1>7. Used(b) = IF oh <= Wrap(ow + v, n) THEN Wrap(ow + v, n) - oh
                                         ELSE n - oh + Wrap(ow + v, n)
  BY <1>5, UsedIs
<1>8. /\ Bytes(out) \in Seq(Byte) /\ Len(Bytes(out)) = u
      /\ \A i \in 1 .. u : Bytes(out)[i] = out.cells[Wrap(oh + i - 1, n)]
      /\ Bytes(in) \in Seq(Byte) /\ Len(Bytes(in)) = v
      /\ \A i \in 1 .. v : Bytes(in)[i] = in.cells[Wrap(ir + i - 1, m)]
  BY BytesAre
<1> HIDE DEF b, oh, ow, ir, u, v
<1>9. Used(b) = u + v
  BY <1>1, <1>7 DEF Wrap
<1>10. ASSUME NEW i \in 1 .. u + v
       PROVE  (Bytes(out) \o Bytes(in))[i] = b.cells[Wrap(oh + i - 1, n)]
  <2> DEFINE a == Wrap(oh + i - 1, n)
  <2>1. a \in 0 .. n - 1
    BY <1>1 DEF Wrap
  <2>2. (Bytes(out) \o Bytes(in))[i] = IF i <= u THEN Bytes(out)[i] ELSE Bytes(in)[i - u]
    BY <1>8, ConcatProperties
  <2>3. CASE i <= u
    <3>1. ~ (Ahead(a, ow, n) < v)
      BY <1>1, <2>3 DEF Ahead, Wrap
    <3> HIDE DEF a
    <3>2. b.cells[a] = out.cells[a]
      BY <1>6, <2>1, <3>1
    <3> QED
      BY <1>1, <1>8, <2>2, <2>3, <3>2 DEF a
  <2>4. CASE i > u
    <3>1. Ahead(a, ow, n) = i - u - 1 /\ i - u \in 1 .. v
      BY <1>1, <2>4 DEF Ahead, Wrap
    <3> HIDE DEF a
    <3>2. b.cells[a] = in.cells[Wrap(ir + (i - u - 1), m)]
      BY <1>1, <1>6, <2>1, <3>1
    <3>3. ir + (i - u - 1) = ir + (i - u) - 1
      BY <1>1, <3>1
    <3>4. Bytes(in)[i - u] = in.cells[Wrap(ir + (i - u) - 1, m)]
      BY <1>8, <3>1
    <3>5. ~ (i <= u)
      BY <1>1, <2>4
    <3> QED
      BY <2>2, <3>2, <3>3, <3>4, <3>5 DEF a
  <2>5. i <= u \/ i > u
    BY <1>1
  <2> QED
    BY <2>3, <2>4, <2>5
<1>11. Bytes(b) = Bytes(out) \o Bytes(in)
  <2>1. /\ Bytes(out) \o Bytes(in) \in Seq(Byte)
        /\ Len(Bytes(out) \o Bytes(in)) = Used(b)
    BY <1>8, <1>9, ConcatProperties
  <2> QED
    BY <1>5, <1>9, <1>10, <2>1, Contents
<1> QED
  BY <1>5, <1>11 DEF b

(* One byte in, one byte out. *)
StagedIn(b, byte, n) ==
    [b EXCEPT !.cells[b.tail_index_offset] = byte,
              !.tail_index_offset = (@ + 1) % n]

DrainedFrom(b, n) == [b EXCEPT !.head_index_offset = (@ + 1) % n]

LEMMA StagedIs ==
  ASSUME NEW n \in Nat \ {0}, NEW b \in Buffer(n), Fits(1, b), NEW byte \in Byte
  PROVE  /\ StagedIn(b, byte, n) \in Buffer(n)
         /\ Bytes(StagedIn(b, byte, n)) = Append(Bytes(b), byte)
<1> DEFINE d == StagedIn(b, byte, n)
           ir == b.head_index_offset
           iw == b.tail_index_offset
           u == Used(b)
<1>1. /\ ir \in 0 .. n - 1 /\ iw \in 0 .. n - 1 /\ u \in 0 .. n - 1
      /\ b.cells \in [0 .. n - 1 -> Byte]
      /\ u = IF ir <= iw THEN iw - ir ELSE n - ir + iw
  BY Fields, UsedIs
<1>2. u + 1 < n
  BY Fields DEF Fits
<1>3. (iw + 1) % n = Wrap(iw + 1, n) /\ Wrap(iw + 1, n) \in 0 .. n - 1
  <2> HIDE DEF iw, u
  <2>1. iw + 1 \in 0 .. 2 * n - 1
    BY <1>1
  <2> QED
    BY <2>1, Wraps
<1>4. /\ d \in Buffer(n) /\ d.head_index_offset = ir /\ d.tail_index_offset = Wrap(iw + 1, n)
      /\ d.cells = [b.cells EXCEPT ![iw] = byte]
  BY <1>1, <1>3 DEF Buffer, StagedIn
<1>5. Used(d) = IF ir <= Wrap(iw + 1, n) THEN Wrap(iw + 1, n) - ir ELSE n - ir + Wrap(iw + 1, n)
  BY <1>4, UsedIs
<1>6. /\ Bytes(b) \in Seq(Byte) /\ Len(Bytes(b)) = u
      /\ \A i \in 1 .. u : Bytes(b)[i] = b.cells[Wrap(ir + i - 1, n)]
  BY BytesAre
<1> HIDE DEF d, ir, iw, u
<1>7. Used(d) = u + 1
  BY <1>1, <1>2, <1>5 DEF Wrap
<1>8. ASSUME NEW i \in 1 .. u + 1
      PROVE  Append(Bytes(b), byte)[i] = d.cells[Wrap(ir + i - 1, n)]
  <2> DEFINE a == Wrap(ir + i - 1, n)
  <2>1. a \in 0 .. n - 1 /\ (a = iw <=> i = u + 1)
    BY <1>1, <1>2 DEF Wrap
  <2>2. d.cells[a] = IF a = iw THEN byte ELSE b.cells[a]
    BY <1>1, <1>4, <2>1
  <2>3. Append(Bytes(b), byte)[i] = IF i = u + 1 THEN byte ELSE Bytes(b)[i]
    BY <1>1, <1>6, AppendProperties
  <2>4. i # u + 1 => i \in 1 .. u
    BY <1>1
  <2>5. i # u + 1 => Bytes(b)[i] = b.cells[a]
    BY <1>6, <2>4
  <2> HIDE DEF a
  <2>6. Append(Bytes(b), byte)[i] = d.cells[a]
    BY <2>1, <2>2, <2>3, <2>5
  <2> QED
    BY <2>6 DEF a
<1>9. Append(Bytes(b), byte) \in Seq(Byte) /\ Len(Append(Bytes(b), byte)) = Used(d)
  BY <1>6, <1>7, AppendProperties
<1>10. Bytes(d) = Append(Bytes(b), byte)
  BY <1>4, <1>7, <1>8, <1>9, Contents
<1> QED
  BY <1>4, <1>10 DEF d

LEMMA DrainedIs ==
  ASSUME NEW n \in Nat \ {0}, NEW b \in Buffer(n), ~ is_buff_empty(b)
  PROVE  /\ DrainedFrom(b, n) \in Buffer(n)
         /\ Bytes(b) # <<>> /\ Head(Bytes(b)) = b.cells[b.head_index_offset]
         /\ Bytes(DrainedFrom(b, n)) = Tail(Bytes(b))
<1> DEFINE d == DrainedFrom(b, n)
           ir == b.head_index_offset
           iw == b.tail_index_offset
           u == Used(b)
<1>1. /\ ir \in 0 .. n - 1 /\ iw \in 0 .. n - 1 /\ u \in 0 .. n - 1 /\ ir # iw
      /\ u = IF ir <= iw THEN iw - ir ELSE n - ir + iw
  BY Fields, UsedIs DEF is_buff_empty
<1>2. (ir + 1) % n = Wrap(ir + 1, n) /\ Wrap(ir + 1, n) \in 0 .. n - 1
  <2> HIDE DEF ir, u
  <2>1. ir + 1 \in 0 .. 2 * n - 1
    BY <1>1
  <2> QED
    BY <2>1, Wraps
<1>3. /\ d \in Buffer(n) /\ d.head_index_offset = Wrap(ir + 1, n)
      /\ d.tail_index_offset = iw /\ d.cells = b.cells
  BY <1>2 DEF Buffer, DrainedFrom
<1>4. Used(d) = IF Wrap(ir + 1, n) <= iw THEN iw - Wrap(ir + 1, n) ELSE n - Wrap(ir + 1, n) + iw
  BY <1>3, UsedIs
<1>5. /\ Bytes(b) \in Seq(Byte) /\ Len(Bytes(b)) = u
      /\ \A i \in 1 .. u : Bytes(b)[i] = b.cells[Wrap(ir + i - 1, n)]
  BY BytesAre
<1> HIDE DEF d, ir, iw, u
<1>6. Used(d) = u - 1 /\ u >= 1
  BY <1>1, <1>4 DEF Wrap
<1>7. Bytes(b) # <<>>
  BY <1>5, <1>6, EmptySeq
<1>8. /\ Tail(Bytes(b)) \in Seq(Byte) /\ Len(Tail(Bytes(b))) = Used(d)
      /\ \A i \in 1 .. Used(d) : Tail(Bytes(b))[i] = Bytes(b)[i + 1]
  BY <1>5, <1>6, <1>7, HeadTailProperties
<1>9. ASSUME NEW i \in 1 .. Used(d)
      PROVE  Tail(Bytes(b))[i] = d.cells[Wrap(d.head_index_offset + i - 1, n)]
  <2>1. i + 1 \in 1 .. u /\ Wrap(Wrap(ir + 1, n) + i - 1, n) = Wrap(ir + (i + 1) - 1, n)
    BY <1>1, <1>6 DEF Wrap
  <2>2. Tail(Bytes(b))[i] = b.cells[Wrap(ir + (i + 1) - 1, n)]
    BY <1>5, <1>8, <2>1
  <2> QED
    BY <1>3, <2>1, <2>2
<1>10. Bytes(d) = Tail(Bytes(b))
  BY <1>3, <1>8, <1>9, Contents
<1>11. Head(Bytes(b)) = b.cells[ir]
  <2>1. Wrap(ir + 1 - 1, n) = ir
    BY <1>1 DEF Wrap
  <2>2. 1 \in 1 .. u
    BY <1>1, <1>6
  <2> QED
    BY <1>5, <1>7, <2>1, <2>2
<1> QED
  BY <1>3, <1>7, <1>10, <1>11 DEF d, ir

-----------------------------------------------------------------------------
LEMMA UsedIsNat ==
  ASSUME TypeOK
  PROVE  Used(local) \in Nat /\ Used(circle) \in Nat /\ Used(fetched) \in Nat
  BY Lengths, UsedIs DEF TypeOK

LEMMA InitType == Init => TypeOK
  BY Lengths, ByteAssumption DEF Init, Cleared, TypeOK, Buffer

(* What a step does to the three buffers and to the bytes in them. *)
LEMMA StageBytes ==
  ASSUME TypeOK, NEW byte \in Byte, Stage(byte)
  PROVE  local' \in Buffer(LocalLength) /\ Bytes(local)' = Append(Bytes(local), byte)
<1>1. local' = StagedIn(local, byte, LocalLength)
  BY DEF Stage, StagedIn
<1>2. Fits(1, local) /\ local \in Buffer(LocalLength)
  BY DEF Stage, TypeOK
<1>3. Bytes(local)' = Bytes(StagedIn(local, byte, LocalLength))
  BY <1>1 DEF Bytes, Used
<1> QED
  BY <1>1, <1>2, <1>3, Lengths, StagedIs

LEMMA DrainBytes ==
  ASSUME TypeOK, Drain
  PROVE  /\ fetched' \in Buffer(FetchLength) /\ Bytes(fetched) # <<>>
         /\ drained' = Head(Bytes(fetched)) /\ Bytes(fetched)' = Tail(Bytes(fetched))
<1>1. fetched' = DrainedFrom(fetched, FetchLength)
  BY DEF Drain, DrainedFrom
<1>2. ~ is_buff_empty(fetched) /\ fetched \in Buffer(FetchLength)
  BY DEF Drain, TypeOK
<1>3. Bytes(fetched)' = Bytes(DrainedFrom(fetched, FetchLength))
  BY <1>1 DEF Bytes, Used
<1>4. drained' = fetched.cells[fetched.head_index_offset]
  BY DEF Drain
<1> QED
  BY <1>1, <1>2, <1>3, <1>4, Lengths, DrainedIs

LEMMA PushBytes ==
  ASSUME TypeOK, push_circle_buff_bundle
  PROVE  /\ local' \in Buffer(LocalLength) /\ Bytes(local)' = <<>>
         /\ circle' \in Buffer(CircleLength)
         /\ Bytes(circle)' = Bytes(circle) \o Bytes(local)
<1>1. /\ local \in Buffer(LocalLength) /\ circle \in Buffer(CircleLength)
      /\ ~ is_buff_empty(local) /\ Used(circle) + Used(local) < CircleLength
  BY Lengths, Fields DEF TypeOK, push_circle_buff_bundle, MayPush, Fits
<1>2. local' = Emptied(local) /\ circle' = Filled(circle, local)
  BY DEF push_circle_buff_bundle
<1>3. /\ Bytes(local)' = Bytes(Emptied(local))
      /\ Bytes(circle)' = Bytes(Filled(circle, local))
  BY <1>2 DEF Bytes, Used
<1> QED
  BY <1>1, <1>2, <1>3, Lengths, EmptiedIs, FilledIs

LEMMA PullBytes ==
  ASSUME TypeOK, MayPull, PullBundle
  PROVE  /\ circle' \in Buffer(CircleLength) /\ Bytes(circle)' = <<>>
         /\ fetched' \in Buffer(FetchLength)
         /\ Bytes(fetched)' = Bytes(fetched) \o Bytes(circle)
<1>1. /\ circle \in Buffer(CircleLength) /\ fetched \in Buffer(FetchLength)
      /\ ~ is_buff_empty(circle) /\ Used(fetched) + Used(circle) < FetchLength
  BY Lengths, Fields DEF TypeOK, PullBundle, MayPull, Fits
<1>2. circle' = Emptied(circle) /\ fetched' = Filled(fetched, circle)
  BY DEF PullBundle
<1>3. /\ Bytes(circle)' = Bytes(Emptied(circle))
      /\ Bytes(fetched)' = Bytes(Filled(fetched, circle))
  BY <1>2 DEF Bytes, Used
<1> QED
  BY <1>1, <1>2, <1>3, Lengths, EmptiedIs, FilledIs

LEMMA StepType == TypeOK /\ [Next]_vars => TypeOK'
<1> SUFFICES ASSUME TypeOK, [Next]_vars PROVE TypeOK'
  OBVIOUS
<1>1. ASSUME NEW byte \in Byte, Stage(byte) PROVE TypeOK'
  <2>1. UNCHANGED <<circle, fetched, drained>>
    BY <1>1 DEF Stage
  <2> QED
    BY <1>1, <2>1, StageBytes DEF TypeOK
<1>2. CASE Drain
  <2>1. drained' \in Byte /\ UNCHANGED <<local, circle>>
    BY <1>2, Lengths, Fields DEF Drain, TypeOK
  <2> QED
    BY <1>2, <2>1, DrainBytes DEF TypeOK
<1>3. CASE push_circle_buff_bundle
  <2>1. UNCHANGED <<fetched, drained>>
    BY <1>3 DEF push_circle_buff_bundle
  <2> QED
    BY <1>3, <2>1, PushBytes DEF TypeOK
<1>4. CASE pull_circle_buff_bundle
  <2>1. MayPull /\ UNCHANGED <<local, drained>> /\ (PullNothing \/ PullBundle)
    BY <1>4 DEF pull_circle_buff_bundle
  <2>2. CASE PullNothing
    BY <2>1, <2>2 DEF PullNothing, TypeOK
  <2>3. CASE PullBundle
    BY <2>1, <2>3, PullBytes DEF TypeOK
  <2> QED
    BY <2>1, <2>2, <2>3
<1>5. CASE UNCHANGED vars
  BY <1>5 DEF vars, TypeOK
<1> QED
  BY <1>1, <1>2, <1>3, <1>4, <1>5 DEF Next

(* The offsets stay inside the buffers, whose lengths never change, and     *)
(* what the cells hold is always bytes: no move of a bundle reads or writes *)
(* a cell that is not there.                                                *)
THEOREM BundleTypeCorrect == Spec => []TypeOK
  BY InitType, StepType, PTL DEF Spec

(* Every memcpy of an allowed push or pull stays inside the two buffers.    *)
THEOREM CopiesInside == Spec => []CopiesStayInside
<1>1. TypeOK => CopiesStayInside
  <2> SUFFICES ASSUME TypeOK PROVE CopiesStayInside
    OBVIOUS
  <2>1. ASSUME MayPush PROVE Inside(local, circle)
    <3>1. Used(local) < CircleLength /\ ~ is_buff_empty(local)
      BY <2>1, UsedIsNat, Lengths, Fields DEF MayPush, Fits, TypeOK
    <3> QED
      BY <3>1, Lengths, MovedIs DEF TypeOK
  <2>2. ASSUME MayPull, ~ is_buff_empty(circle) PROVE Inside(circle, fetched)
    <3>1. Used(circle) < FetchLength
      BY <2>2, UsedIsNat, Lengths, Fields DEF MayPull, Fits, TypeOK
    <3> QED
      BY <2>2, <3>1, Lengths, MovedIs DEF TypeOK
  <2> QED
    BY <2>1, <2>2 DEF CopiesStayInside
<1> QED
  BY <1>1, BundleTypeCorrect, PTL

-----------------------------------------------------------------------------
(* The three buffers in a row. *)
Row == Bytes(fetched) \o Bytes(circle) \o Bytes(local)

LEMMA BytesAreSeqs ==
  ASSUME TypeOK
  PROVE  /\ Bytes(local) \in Seq(Byte) /\ Bytes(circle) \in Seq(Byte)
         /\ Bytes(fetched) \in Seq(Byte)
         /\ Bytes(fetched) \o Bytes(circle) \in Seq(Byte)
  BY Lengths, BytesAre, ConcatProperties DEF TypeOK

LEMMA InitRefines == Init => Stream!QInit
<1> SUFFICES ASSUME Init PROVE Stream!QInit
  OBVIOUS
<1>1. /\ is_buff_empty(local) /\ is_buff_empty(circle) /\ is_buff_empty(fetched)
      /\ TypeOK
  BY InitType DEF Init, Cleared, is_buff_empty
<1>2. Bytes(local) = <<>> /\ Bytes(circle) = <<>> /\ Bytes(fetched) = <<>>
  BY <1>1, Lengths, EmptyHoldsNothing DEF TypeOK
<1>3. Row = <<>>
  BY <1>2, ConcatEmptySeq, EmptySeq DEF Row
<1> QED
  BY <1>3 DEF Stream!QInit, Init, Row

LEMMA StepRefines ==
  TypeOK /\ TypeOK' /\ [Next]_vars => [Stream!QNext]_(Stream!qvars)
<1> SUFFICES ASSUME TypeOK, TypeOK', [Next]_vars
             PROVE  [Stream!QNext]_(Stream!qvars)
  OBVIOUS
<1>1. ASSUME NEW byte \in Byte, Stage(byte) PROVE Stream!Put(byte)
  <2>1. UNCHANGED <<Bytes(circle), Bytes(fetched), drained>>
    BY <1>1 DEF Stage, Bytes, Used
  <2>2. Row' = Bytes(fetched) \o Bytes(circle) \o Append(Bytes(local), byte)
    BY <1>1, <2>1, StageBytes DEF Row
  <2>3. Row' = Append(Row, byte)
    BY <2>2, BytesAreSeqs, AppendLast DEF Row
  <2> QED
    BY <2>1, <2>3 DEF Stream!Put, Row
<1>2. ASSUME Drain PROVE Stream!Get
  <2>1. UNCHANGED <<Bytes(circle), Bytes(local)>>
    BY <1>2 DEF Drain, Bytes, Used
  <2> DEFINE f == Bytes(fetched)
             r == Bytes(circle) \o Bytes(local)
  <2>2. Row = f \o r /\ r \in Seq(Byte) /\ f \in Seq(Byte)
    BY BytesAreSeqs, ConcatAssociative, ConcatProperties DEF Row
  <2>3. Row' = Tail(f) \o r
    <3>1. Tail(f) \in Seq(Byte)
      BY <1>2, DrainBytes, BytesAreSeqs, HeadTailProperties
    <3>2. Row' = Tail(f) \o Bytes(circle) \o Bytes(local)
      BY <1>2, <2>1, DrainBytes DEF Row
    <3> QED
      BY <3>1, <3>2, BytesAreSeqs, ConcatAssociative
  <2>4. Row # <<>> /\ Tail(Row) = Row' /\ Head(Row) = drained'
    BY <1>2, <2>2, <2>3, DrainBytes, DropFirst
  <2> QED
    BY <2>4 DEF Stream!Get, Row
<1>3. ASSUME push_circle_buff_bundle PROVE UNCHANGED <<Row, drained>>
  <2>1. UNCHANGED <<Bytes(fetched), drained>>
    BY <1>3 DEF push_circle_buff_bundle, Bytes, Used
  <2>2. Row' = Bytes(fetched) \o (Bytes(circle) \o Bytes(local)) \o <<>>
    BY <1>3, <2>1, PushBytes DEF Row
  <2>3. Row = Bytes(fetched) \o (Bytes(circle) \o Bytes(local))
    BY BytesAreSeqs, ConcatAssociative DEF Row
  <2>4. Row \in Seq(Byte)
    BY BytesAreSeqs, ConcatProperties DEF Row
  <2> QED
    BY <2>1, <2>2, <2>3, <2>4, ConcatEmptySeq
<1>4. ASSUME pull_circle_buff_bundle PROVE UNCHANGED <<Row, drained>>
  <2>1. MayPull /\ UNCHANGED <<local, drained>> /\ (PullNothing \/ PullBundle)
    BY <1>4 DEF pull_circle_buff_bundle
  <2>2. UNCHANGED Bytes(local)
    BY <2>1 DEF Bytes, Used
  <2>3. CASE PullNothing
    <3>1. UNCHANGED <<circle, fetched>>
      BY <2>3 DEF PullNothing
    <3>2. UNCHANGED <<Bytes(circle), Bytes(fetched)>>
      BY <3>1 DEF Bytes, Used
    <3> QED
      BY <2>1, <2>2, <3>2 DEF Row
  <2>4. CASE PullBundle
    <3>1. Row' = Bytes(fetched) \o Bytes(circle) \o <<>> \o Bytes(local)
      BY <2>1, <2>2, <2>4, PullBytes DEF Row
    <3> QED
      BY <2>1, <3>1, BytesAreSeqs, ConcatEmptySeq DEF Row
  <2> QED
    BY <2>1, <2>3, <2>4
<1>5. CASE UNCHANGED vars
  BY <1>5 DEF vars, Stream!qvars, Bytes, Used
<1> QED
  BY <1>1, <1>2, <1>3, <1>4, <1>5 DEF Next, Stream!QNext, Stream!qvars, Row

(* Together the three buffers are one first-in first-out queue of bytes:    *)
(* push_circle_buff_bundle and pull_circle_buff_bundle move every byte they *)
(* hold, once and in order, wherever each buffer wraps.                     *)
THEOREM ImplementsStream == Spec => StreamSpec
<1>1. Init => Stream!QInit
  BY InitRefines
<1>2. TypeOK /\ TypeOK' /\ [Next]_vars => [Stream!QNext]_(Stream!qvars)
  BY StepRefines
<1> QED
  BY <1>1, <1>2, BundleTypeCorrect, PTL DEF Spec, StreamSpec, Stream!QSpec
=============================================================================
