--------------------------- MODULE PcClientProofs ---------------------------
(***************************************************************************)
(* The PC's side of the connection, for frames of any size and any number  *)
(* of frames, connections and clicks: the buttons follow the socket, every *)
(* start of the force is followed by its stop or by nothing, and what is   *)
(* kept and shown are whole frames in the order they were sent.            *)
(*                                                                         *)
(* The three have little in common, and each has an invariant of its own.  *)
(***************************************************************************)
EXTENDS PcClient, SequenceLemmas

(* The conjuncts of TypeOK the buttons and the commands need.               *)
SocketTyped ==
    /\ socket \in {"Unconnected", "Connecting", "Connected", "Closing"}
    /\ conn \in 0 .. MaxConns
    /\ btn_connect \in BOOLEAN /\ btn_disconnect \in BOOLEAN
    /\ socket # "Unconnected" => conn \in Conns

(* A socket that still connects must not have lost the button that started  *)
(* it, since a failed attempt calls no slot.                                *)
ButtonsInv ==
    /\ SocketTyped
    /\ ButtonsFollowSocket
    /\ socket = "Connecting" => btn_connect

-----------------------------------------------------------------------------
LEMMA InitButtons == Init => ButtonsInv
<1>1. 0 \in 0 .. MaxConns
  BY BoundsAssumption
<1> QED
  BY <1>1, Zenon DEF Init, ButtonsInv, SocketTyped, ButtonsFollowSocket

LEMMA StepButtons == ButtonsInv /\ [Next]_vars => ButtonsInv'
<1> SUFFICES ASSUME ButtonsInv, [Next]_vars PROVE ButtonsInv'
  OBVIOUS
<1> USE DEF ButtonsInv, SocketTyped, ButtonsFollowSocket, Up, linkVars,
        buttonVars, sendVars, showVars, Closes, Dropped
<1>1. CASE ServerSends \/ ServerCloses \/ Arrive
  BY <1>1 DEF ServerSends, ServerCloses, Arrive
<1>2. CASE on_btn_connect_clicked
  <2>1. conn + 1 \in Conns /\ conn + 1 \in 0 .. MaxConns
    BY <1>2, BoundsAssumption DEF on_btn_connect_clicked, Conns
  <2> QED
    BY <1>2, <2>1 DEF on_btn_connect_clicked
<1>3. CASE Connected
  BY <1>3, Zenon DEF Connected, connectedSlot
<1>4. CASE ConnectFails
  BY <1>4 DEF ConnectFails
<1>5. CASE on_btn_disconnect_clicked
  BY <1>5 DEF on_btn_disconnect_clicked, disconnectedSlot
<1>6. CASE PeerClosed
  BY <1>6 DEF PeerClosed, disconnectedSlot
<1>7. CASE ConnectionLost \/ Flush
  BY <1>7 DEF ConnectionLost, Flush, disconnectedSlot
<1>8. CASE on_btn_state_clicked \/ on_btn_force_pressed \/ on_btn_force_released
  BY <1>8 DEF on_btn_state_clicked, on_btn_force_pressed, on_btn_force_released, Given
<1>9. CASE readyReadSlot \/ updateShow
  BY <1>9 DEF readyReadSlot, updateShow, updateMonitor
<1>10. CASE UNCHANGED vars
  BY <1>10 DEF vars
<1> QED
  BY <1>1, <1>2, <1>3, <1>4, <1>5, <1>6, <1>7, <1>8, <1>9, <1>10 DEF Next, Network, User

LEMMA ButtonsInvariance == Spec => []ButtonsInv
  BY InitButtons, StepButtons, PTL DEF Spec

(* Whatever ends a connection, and whatever was clicked while it stood or   *)
(* came up, the button the user needs next is enabled.                      *)
THEOREM UserIsNeverLockedOut == Spec => []ButtonsFollowSocket
<1>1. ButtonsInv => ButtonsFollowSocket
  BY DEF ButtonsInv
<1> QED
  BY <1>1, ButtonsInvariance, PTL

-----------------------------------------------------------------------------
(* What the PC has written on a connection, and may still write.            *)
Written(c) == flushed[c] \o IF c = conn THEN outbox ELSE <<>>

EndsInStart(s) == s # <<>> /\ s[Len(s)] = "FORCE_GIVE_START"

(* The button is down exactly when the latest connection, while there is    *)
(* one, waits for a stop.  A later connection starts with nothing written.  *)
SendInv ==
    /\ SocketTyped
    /\ outbox \in Seq(Kinds)
    /\ flushed \in [Conns -> Seq(Kinds)]
    /\ socket = "Unconnected" => outbox = <<>>
    /\ \A c \in Conns : c > conn => flushed[c] = <<>>
    /\ socket = "Connecting" => flushed[conn] = <<>>
    /\ \A c \in Conns : Paired(Written(c))
    /\ socket # "Unconnected" => (held <=> EndsInStart(Written(conn)))

LEMMA PairedEmpty == Paired(<<>>) /\ ~ EndsInStart(<<>>)
  BY EmptySeq DEF Paired, EndsInStart

LEMMA PairedPrefix ==
  ASSUME NEW s \in Seq(Kinds), NEW t \in Seq(Kinds), Paired(s \o t)
  PROVE  Paired(s)
<1>1. /\ Len(s) \in Nat /\ Len(t) \in Nat /\ Len(s \o t) = Len(s) + Len(t)
      /\ \A i \in 1 .. Len(s) : (s \o t)[i] = s[i] /\ i \in 1 .. Len(s \o t)
  BY LenProperties, ConcatProperties
<1>2. ASSUME NEW i \in 1 .. Len(s)
      PROVE  s[i] = "FORCE_GIVE_STOP" <=> i > 1 /\ s[i - 1] = "FORCE_GIVE_START"
  <2>1. i > 1 => i - 1 \in 1 .. Len(s)
    BY <1>1
  <2> QED
    BY <1>1, <2>1 DEF Paired
<1> QED
  BY <1>2 DEF Paired

LEMMA PairedAppend ==
  ASSUME NEW s \in Seq(Kinds), NEW kind \in Kinds, Paired(s),
         kind = "FORCE_GIVE_STOP" <=> EndsInStart(s)
  PROVE  /\ Paired(Append(s, kind))
         /\ EndsInStart(Append(s, kind)) <=> kind = "FORCE_GIVE_START"
<1>1. /\ Len(s) \in Nat /\ Append(s, kind) \in Seq(Kinds) /\ Len(Append(s, kind)) = Len(s) + 1
      /\ \A i \in 1 .. Len(s) : Append(s, kind)[i] = s[i]
      /\ Append(s, kind)[Len(s) + 1] = kind
  BY LenProperties, AppendProperties
<1>2. s # <<>> <=> Len(s) > 0
  BY <1>1, EmptySeq
<1>3. ASSUME NEW i \in 1 .. Len(s) + 1
      PROVE  Append(s, kind)[i] = "FORCE_GIVE_STOP"
                 <=> i > 1 /\ Append(s, kind)[i - 1] = "FORCE_GIVE_START"
  <2>1. CASE i <= Len(s)
    <3>1. i > 1 => i - 1 \in 1 .. Len(s)
      BY <1>1
    <3> QED
      BY <1>1, <2>1, <3>1 DEF Paired
  <2>2. CASE i = Len(s) + 1
    <3>1. i > 1 => i - 1 = Len(s) /\ i - 1 \in 1 .. Len(s)
      BY <1>1, <2>2
    <3> QED
      BY <1>1, <1>2, <2>2, <3>1 DEF EndsInStart
  <2> QED
    BY <1>1, <2>1, <2>2
<1>4. Append(s, kind) # <<>>
  BY <1>1, EmptySeq
<1> QED
  BY <1>1, <1>3, <1>4 DEF Paired, EndsInStart

LEMMA WrittenIs ==
  ASSUME SendInv, NEW c \in Conns
  PROVE  /\ Written(c) \in Seq(Kinds) /\ flushed[c] \in Seq(Kinds)
         /\ c # conn => Written(c) = flushed[c]
         /\ c = conn => Written(c) = flushed[c] \o outbox
         /\ outbox = <<>> => Written(c) = flushed[c]
<1>1. flushed[c] \in Seq(Kinds) /\ outbox \in Seq(Kinds)
  BY DEF SendInv
<1>2. /\ flushed[c] \o outbox \in Seq(Kinds) /\ flushed[c] \o <<>> = flushed[c]
  BY <1>1, ConcatProperties, ConcatEmptySeq
<1> QED
  BY <1>1, <1>2 DEF Written

(* A connection that ends keeps what was flushed. *)
LEMMA DropSends ==
  ASSUME SendInv, SocketTyped', socket' = "Unconnected", outbox' = <<>>,
         UNCHANGED <<conn, flushed, held>>
  PROVE  SendInv'
<1>1. ASSUME NEW c \in Conns
      PROVE  Paired(Written(c)')
  <2>1. Written(c)' = flushed[c]
    BY WrittenIs, ConcatEmptySeq DEF Written
  <2>2. Paired(flushed[c])
    <3>1. CASE c = conn
      BY <3>1, WrittenIs, PairedPrefix DEF SendInv
    <3>2. CASE c # conn
      BY <3>2, WrittenIs DEF SendInv
    <3> QED
      BY <3>1, <3>2
  <2> QED
    BY <2>1, <2>2
<1>2. outbox' \in Seq(Kinds)
  BY EmptySeq
<1> QED
  BY <1>1, <1>2 DEF SendInv

LEMMA KeepSends ==
  ASSUME SendInv, SocketTyped', UNCHANGED <<conn, outbox, flushed, held>>,
         socket' = "Unconnected" <=> socket = "Unconnected",
         socket' = "Connecting" => socket = "Connecting"
  PROVE  SendInv'
<1>1. \A c \in Conns : Written(c)' = Written(c)
  BY DEF Written
<1>2. socket # "Unconnected" => conn \in Conns
  BY DEF SendInv, SocketTyped
<1> QED
  BY <1>1, <1>2 DEF SendInv

LEMMA ConnectSends ==
  ASSUME SendInv, SocketTyped', on_btn_connect_clicked
  PROVE  SendInv'
<1>1. /\ conn' = conn + 1 /\ conn' \in Conns /\ conn \in Nat
      /\ outbox = <<>> /\ UNCHANGED <<outbox, flushed, held>> /\ ~ held
      /\ socket' = "Connecting"
  BY BoundsAssumption DEF SendInv, SocketTyped, on_btn_connect_clicked, sendVars, Conns
<1>2. \A c \in Conns : Written(c)' = flushed[c] /\ Written(c) = flushed[c]
  BY <1>1, WrittenIs, ConcatEmptySeq DEF Written
<1>3. flushed[conn'] = <<>> /\ \A c \in Conns : c > conn' => flushed[c] = <<>>
  BY <1>1 DEF SendInv, Conns
<1>4. \A c \in Conns : Paired(Written(c)')
  BY <1>2 DEF SendInv
<1>5. Written(conn)' = <<>>
  BY <1>1, <1>3, EmptySeq, ConcatEmptySeq DEF Written
<1> QED
  BY <1>1, <1>3, <1>4, <1>5, PairedEmpty DEF SendInv

(* What is flushed was the first in the outbox: nothing written changes.    *)
LEMMA FlushSends ==
  ASSUME SendInv, SocketTyped', Flush
  PROVE  SendInv'
<1>1. /\ conn \in Conns /\ outbox # <<>> /\ outbox \in Seq(Kinds)
      /\ flushed[conn] \in Seq(Kinds) /\ flushed \in [Conns -> Seq(Kinds)]
      /\ UNCHANGED <<conn, held>> /\ socket \in {"Connected", "Closing"} /\ conn \in Nat
  BY DEF SendInv, SocketTyped, Flush, Up, Conns
<1>2. /\ Head(outbox) = outbox[1] /\ Head(outbox) \in Kinds /\ Tail(outbox) \in Seq(Kinds)
      /\ Len(Tail(outbox)) = Len(outbox) - 1 /\ Len(outbox) \in Nat
  BY <1>1, HeadTailProperties, LenProperties
<1>3. /\ flushed' = [flushed EXCEPT ![conn] = Append(flushed[conn], Head(outbox))]
      /\ Append(flushed[conn], Head(outbox)) \in Seq(Kinds)
  BY <1>1, <1>2, AppendProperties DEF Flush
<1>4. /\ flushed' \in [Conns -> Seq(Kinds)]
      /\ flushed'[conn] = Append(flushed[conn], Head(outbox))
      /\ \A c \in Conns : c # conn => flushed'[c] = flushed[c]
  BY <1>1, <1>3
<1>5. outbox' = Tail(outbox)
  <2>1. Tail(outbox) # <<>> => Len(Tail(outbox)) \in Nat \ {0}
    BY <1>2, EmptySeq
  <2>2. Len(outbox) = 1 => Tail(outbox) = <<>>
    BY <1>2, <2>1
  <2> QED
    BY <2>2 DEF Flush, Closes, Dropped
<1>6. \A c \in Conns : Written(c)' = Written(c)
  <2>1. Append(flushed[conn], outbox[1]) \o Tail(outbox) = flushed[conn] \o outbox
    BY <1>1, MoveFirst
  <2> QED
    BY <1>1, <1>2, <1>4, <1>5, <2>1 DEF Written
<1>7. socket' = "Unconnected" => outbox' = <<>>
  BY <1>1 DEF Flush, Closes, Dropped
<1>8. socket' # "Connecting" /\ socket # "Unconnected"
  BY <1>1 DEF Flush, Closes
<1> QED
  BY <1>1, <1>2, <1>4, <1>5, <1>6, <1>7, <1>8 DEF SendInv

(* A click adds at most its own command, and the force button's commands    *)
(* come in turns.                                                           *)
LEMMA ClickSends ==
  ASSUME SendInv, SocketTyped', NEW kind \in Kinds, Given(kind),
         kind = "FORCE_GIVE_STOP" <=> held, held' <=> kind = "FORCE_GIVE_START"
  PROVE  SendInv'
<1>1. UNCHANGED <<socket, conn, flushed>>
  BY DEF Given, linkVars
<1>2. CASE socket = "Unconnected"
  <2>1. outbox' = outbox
    BY <1>2 DEF Given, sendMsg
  <2>2. \A c \in Conns : Written(c)' = Written(c)
    BY <1>1, <2>1 DEF Written
  <2> QED
    BY <1>1, <1>2, <2>1, <2>2 DEF SendInv
<1>3. CASE socket # "Unconnected"
  <2>1. conn \in Conns /\ outbox' = Append(outbox, kind) /\ outbox \in Seq(Kinds)
    BY <1>3 DEF Given, sendMsg, SendInv, SocketTyped
  <2>2. outbox' \in Seq(Kinds)
    BY <2>1, AppendProperties
  <2>3. Written(conn)' = Append(Written(conn), kind)
    <3>1. Written(conn)' = flushed[conn] \o Append(outbox, kind)
      BY <1>1, <2>1 DEF Written
    <3>2. flushed[conn] \in Seq(Kinds) /\ Written(conn) = flushed[conn] \o outbox
      BY <2>1, WrittenIs
    <3>3. flushed[conn] \o Append(outbox, kind) = Append(flushed[conn] \o outbox, kind)
      <4>1. kind \in Kinds /\ outbox \in Seq(Kinds) /\ flushed[conn] \in Seq(Kinds)
        BY <2>1, <3>2
      <4>2. \A s \in Seq(Kinds), t \in Seq(Kinds), x \in Kinds :
                s \o Append(t, x) = Append(s \o t, x)
        BY AppendLast
      <4> QED
        BY <4>1, <4>2
    <3> QED
      BY <3>1, <3>2, <3>3
  <2>4. /\ Paired(Append(Written(conn), kind))
        /\ EndsInStart(Append(Written(conn), kind)) <=> kind = "FORCE_GIVE_START"
    <3>1. Paired(Written(conn)) /\ (held <=> EndsInStart(Written(conn)))
      BY <1>3, <2>1 DEF SendInv
    <3> QED
      BY <2>1, <3>1, WrittenIs, PairedAppend
  <2>5. \A c \in Conns : c # conn => Written(c)' = Written(c)
    BY <1>1, <2>1 DEF Written
  <2>6. ASSUME NEW c \in Conns PROVE Paired(Written(c)')
    <3>1. CASE c = conn
      BY <1>1, <2>3, <2>4, <3>1 DEF Written
    <3>2. CASE c # conn
      BY <2>5, <3>2 DEF SendInv
    <3> QED
      BY <3>1, <3>2
  <2>7. held' <=> EndsInStart(Written(conn)')
    BY <2>3, <2>4
  <2> QED
    BY <1>1, <1>3, <2>2, <2>6, <2>7 DEF SendInv
<1> QED
  BY <1>2, <1>3

LEMMA InitSends == Init => SendInv
<1> SUFFICES ASSUME Init PROVE SendInv
  OBVIOUS
<1>1. SocketTyped
  BY InitButtons DEF ButtonsInv
<1>2. /\ outbox = <<>> /\ flushed = [c \in Conns |-> <<>>] /\ socket = "Unconnected"
  BY DEF Init
<1>3. outbox \in Seq(Kinds) /\ flushed \in [Conns -> Seq(Kinds)]
  BY <1>2, EmptySeq
<1>4. \A c \in Conns : Written(c) = <<>>
  BY <1>2, EmptySeq, ConcatEmptySeq DEF Written
<1> QED
  BY <1>1, <1>2, <1>3, <1>4, PairedEmpty DEF SendInv

LEMMA StepSends ==
  ASSUME SendInv, SocketTyped', [Next]_vars
  PROVE  SendInv'
<1> USE DEF linkVars, buttonVars, sendVars, showVars
<1>1. CASE ServerSends \/ ServerCloses \/ Arrive
  BY <1>1, KeepSends DEF ServerSends, ServerCloses, Arrive
<1>2. CASE readyReadSlot \/ updateShow \/ UNCHANGED vars
  BY <1>2, KeepSends DEF readyReadSlot, updateShow, updateMonitor, vars
<1>3. CASE Connected
  BY <1>3, KeepSends DEF Connected
<1>4. CASE ConnectFails \/ ConnectionLost
  BY <1>4, DropSends DEF ConnectFails, ConnectionLost, Closes, Dropped
<1>5. CASE on_btn_disconnect_clicked
  <2>1. CASE Closes
    BY <1>5, <2>1, DropSends DEF on_btn_disconnect_clicked, Closes, Dropped
  <2>2. CASE ~ Closes
    BY <1>5, <2>2, KeepSends DEF on_btn_disconnect_clicked
  <2> QED
    BY <2>1, <2>2
<1>6. CASE PeerClosed
  <2>1. CASE Closes
    BY <1>6, <2>1, DropSends DEF PeerClosed, Closes, Dropped
  <2>2. CASE ~ Closes
    BY <1>6, <2>2, KeepSends DEF PeerClosed
  <2> QED
    BY <2>1, <2>2
<1>7. CASE on_btn_connect_clicked
  BY <1>7, ConnectSends
<1>8. CASE Flush
  BY <1>8, FlushSends
<1>9. CASE on_btn_state_clicked
  BY <1>9, ClickSends DEF on_btn_state_clicked, Kinds
<1>10. CASE on_btn_force_pressed
  BY <1>10, ClickSends DEF on_btn_force_pressed, Kinds
<1>11. CASE on_btn_force_released
  BY <1>11, ClickSends DEF on_btn_force_released, Kinds
<1> QED
  BY <1>1, <1>2, <1>3, <1>4, <1>5, <1>6, <1>7, <1>8, <1>9, <1>10, <1>11
  DEF Next, Network, User

LEMMA SendInvariance == Spec => []SendInv
<1>1. Init => ButtonsInv /\ SendInv
  BY InitButtons, InitSends
<1>2. ButtonsInv /\ SendInv /\ [Next]_vars => (ButtonsInv /\ SendInv)'
  <2>1. ButtonsInv /\ [Next]_vars => SocketTyped'
    BY StepButtons DEF ButtonsInv
  <2> QED
    BY <2>1, StepButtons, StepSends
<1> QED
  BY <1>1, <1>2, PTL DEF Spec

(* On no connection is the force left on by anything but the end of the     *)
(* connection: a start is followed by its stop, and by nothing else.        *)
THEOREM StartsAreStopped == Spec => []StopFollowsStart
<1>1. SendInv => StopFollowsStart
  BY DEF SendInv, StopFollowsStart, Written
<1> QED
  BY <1>1, SendInvariance, PTL

-----------------------------------------------------------------------------
(* What the server has sent on the connection and the slot has not taken.   *)
Unseen == rx \o wire

(* The place of a cell in the stream of all frames. *)
Pos(cell) == cell[1] * FrameSize + cell[2]

(* The place of the last cell sent. *)
End == sent * FrameSize + FrameSize

Kept == rcvMsg[1][1]

(* The cells not taken are the last of the stream, without a gap, and of    *)
(* frames after the one kept.  Places are used, not neighbours, so that a   *)
(* chunk of FrameSize cells that starts with a head is seen to be a frame.  *)
StreamInv ==
    /\ rx \in Seq(Cell) /\ wire \in Seq(Cell)
    /\ sent \in Frames
    /\ Kept \in 0 .. sent
    /\ rcvMsg = Frame(Kept)
    /\ labels \in {Frame(n) : n \in Frames} \cup {<<>>}
    /\ \A i \in 1 .. Len(Unseen) :
          /\ Unseen[i][1] > Kept /\ Unseen[i][1] <= sent
          /\ Pos(Unseen[i]) = End - (Len(Unseen) - i)

LEMMA Products ==
  ASSUME NEW m \in Nat, NEW n \in Nat
  PROVE  /\ m * FrameSize \in Nat /\ n * FrameSize \in Nat
         /\ (m + 1) * FrameSize = m * FrameSize + FrameSize
         /\ m < n => m * FrameSize + FrameSize <= n * FrameSize
<1>1. m * FrameSize \in Nat /\ n * FrameSize \in Nat
      /\ (m + 1) * FrameSize = m * FrameSize + FrameSize
  BY FrameSizeAssumption
<1>2. ASSUME m < n PROVE m * FrameSize + FrameSize <= n * FrameSize
  <2>1. PICK d \in Nat : n = (m + 1) + d
    BY <1>2
  <2>2. n * FrameSize = (m + 1) * FrameSize + d * FrameSize /\ d * FrameSize >= 0
    BY <2>1, FrameSizeAssumption
  <2> QED
    BY <1>1, <2>2, FrameSizeAssumption
<1> QED
  BY <1>1, <1>2

(* Frame and place within it follow from the place in the stream. *)
LEMMA PosIsUnique ==
  ASSUME NEW m \in Nat, NEW n \in Nat, NEW i \in 1 .. FrameSize, NEW k \in 1 .. FrameSize,
         m * FrameSize + i = n * FrameSize + k
  PROVE  m = n /\ i = k
<1>1. m * FrameSize \in Nat /\ n * FrameSize \in Nat
  BY Products
<1>2. ~ m < n /\ ~ n < m
  <2>1. m < n => m * FrameSize + FrameSize <= n * FrameSize
    BY Products
  <2>2. n < m => n * FrameSize + FrameSize <= m * FrameSize
    BY Products
  <2> QED
    BY <1>1, <2>1, <2>2, FrameSizeAssumption
<1> QED
  BY <1>1, <1>2

LEMMA FrameIs ==
  ASSUME NEW n \in Frames
  PROVE  /\ Frame(n) \in Seq(Cell) /\ Len(Frame(n)) = FrameSize
         /\ \A i \in 1 .. FrameSize : Frame(n)[i] = <<n, i>>
         /\ Frame(n)[1][1] = n /\ Frame(n) # <<>>
<1>1. FrameSize \in Nat /\ 1 \in 1 .. FrameSize
  BY FrameSizeAssumption
<1>2. \A i \in 1 .. FrameSize : <<n, i>> \in Cell
  BY DEF Cell
<1>3. Frame(n) \in Seq(Cell) /\ Len(Frame(n)) = FrameSize
  BY <1>1, <1>2 DEF Frame
<1>4. \A i \in 1 .. FrameSize : Frame(n)[i] = <<n, i>>
  BY DEF Frame
<1> QED
  BY <1>1, <1>3, <1>4, EmptySeq

LEMMA UnseenIs ==
  ASSUME StreamInv
  PROVE  /\ Unseen \in Seq(Cell) /\ Len(Unseen) = Len(rx) + Len(wire)
         /\ Len(rx) \in Nat /\ Len(wire) \in Nat /\ Len(Unseen) \in Nat
         /\ \A i \in 1 .. Len(rx) : Unseen[i] = rx[i]
         /\ \A i \in 1 .. Len(wire) : Unseen[Len(rx) + i] = wire[i]
         /\ sent \in Nat /\ Kept \in Nat /\ Kept <= sent /\ sent <= MaxFrames
         /\ End \in Nat
<1>1. rx \in Seq(Cell) /\ wire \in Seq(Cell)
  BY DEF StreamInv
<1>2. Len(rx) \in Nat /\ Len(wire) \in Nat
  BY <1>1, LenProperties
<1>3. /\ Unseen \in Seq(Cell) /\ Len(Unseen) = Len(rx) + Len(wire)
      /\ \A i \in 1 .. Len(rx) + Len(wire) :
            Unseen[i] = IF i <= Len(rx) THEN rx[i] ELSE wire[i - Len(rx)]
  BY <1>1, ConcatProperties DEF Unseen
<1>4. sent \in Nat /\ Kept \in Nat /\ Kept <= sent /\ sent <= MaxFrames
  BY BoundsAssumption DEF StreamInv, Frames
<1>5. End \in Nat
  BY <1>4, Products, FrameSizeAssumption DEF End
<1> QED
  BY <1>2, <1>3, <1>4, <1>5

LEMMA UnseenAt ==
  ASSUME StreamInv, NEW i \in 1 .. Len(Unseen)
  PROVE  /\ Unseen[i] \in Cell /\ Unseen[i][1] \in Frames /\ Unseen[i][1] \in Nat
         /\ Unseen[i][1] > Kept /\ Unseen[i][1] <= sent
         /\ Pos(Unseen[i]) = End - (Len(Unseen) - i)
<1>1. Unseen[i] \in Cell
  BY UnseenIs, ElementOfSeq
<1>2. Unseen[i][1] \in Frames /\ Unseen[i][1] \in Nat
  BY <1>1, BoundsAssumption DEF Cell, Frames
<1> QED
  BY <1>1, <1>2 DEF StreamInv

LEMMA CellsEqual ==
  \A s \in Seq(Cell), t \in Seq(Cell) :
      Len(s) = Len(t) /\ (\A i \in 1 .. Len(s) : s[i] = t[i]) => s = t
  BY SeqEqual

LEMMA CellsConcat ==
  \A s \in Seq(Cell), t \in Seq(Cell), u \in Seq(Cell) : (s \o t) \o u = s \o (t \o u)
  BY ConcatAssociative

(* A chunk the slot accepts is a frame, and later ones are what is left.    *)
LEMMA AcceptedIsFrame ==
  ASSUME StreamInv, rx # <<>>, Accepted(rx)
  PROVE  /\ rx[1][1] \in Frames /\ rx[1][1] > Kept /\ rx[1][1] <= sent
         /\ rx = Frame(rx[1][1])
         /\ \A i \in 1 .. Len(wire) : wire[i][1] > rx[1][1]
<1>1. /\ Len(rx) = FrameSize /\ rx[1][2] = 1 /\ FrameSize \in Nat \ {0}
      /\ rx \in Seq(Cell) /\ wire \in Seq(Cell)
      /\ Len(wire) \in Nat /\ Len(Unseen) = FrameSize + Len(wire) /\ End \in Nat
  BY UnseenIs, FrameSizeAssumption DEF Accepted, HasHead, StreamInv
<1>2. \A i \in 1 .. FrameSize : rx[i] = Unseen[i] /\ i \in 1 .. Len(Unseen)
  BY <1>1, UnseenIs
<1>3. PICK n \in Frames : n = rx[1][1]
  BY <1>1, <1>2, UnseenAt
<1>4. n \in Nat /\ n > Kept /\ n <= sent /\ n * FrameSize \in Nat
  BY <1>1, <1>2, <1>3, UnseenAt, Products
<1>5. \A i \in 1 .. FrameSize : Pos(rx[i]) = End - (FrameSize + Len(wire) - i)
  BY <1>1, <1>2, UnseenAt
<1>6. n * FrameSize + 1 = End - (FrameSize + Len(wire) - 1)
  BY <1>1, <1>3, <1>5 DEF Pos
<1>7. ASSUME NEW i \in 1 .. FrameSize
      PROVE  rx[i] = <<n, i>>
  <2>1. PICK m \in Frames, k \in 1 .. FrameSize : rx[i] = <<m, k>>
    <3>1. rx[i] \in Cell
      BY <1>2, UnseenAt
    <3> QED
      BY <3>1 DEF Cell
  <2>2. m \in Nat /\ m * FrameSize \in Nat
    <3>1. m \in Nat
      BY BoundsAssumption DEF Frames
    <3> QED
      BY <3>1, Products
  <2>3. m * FrameSize + k = End - (FrameSize + Len(wire) - i)
    BY <1>5, <2>1 DEF Pos
  <2>4. m * FrameSize + k = n * FrameSize + i
    BY <1>1, <1>4, <1>6, <2>2, <2>3
  <2>5. m = n /\ k = i
    BY <1>4, <2>2, <2>4, PosIsUnique
  <2> QED
    BY <2>1, <2>5
<1>8. rx = Frame(n)
  <2>1. /\ Frame(n) \in Seq(Cell) /\ Len(Frame(n)) = FrameSize
        /\ \A i \in 1 .. FrameSize : Frame(n)[i] = <<n, i>>
    BY FrameIs
  <2>2. \A i \in 1 .. Len(rx) : rx[i] = Frame(n)[i]
    BY <1>1, <1>7, <2>1
  <2> QED
    BY <1>1, <2>1, <2>2, CellsEqual
<1>9. ASSUME NEW i \in 1 .. Len(wire)
      PROVE  wire[i][1] > n
  <2>1. wire[i] = Unseen[FrameSize + i] /\ FrameSize + i \in 1 .. Len(Unseen)
    BY <1>1, UnseenIs
  <2>2. PICK m \in Frames, k \in 1 .. FrameSize : wire[i] = <<m, k>>
    <3>1. wire[i] \in Cell
      BY <2>1, UnseenAt
    <3> QED
      BY <3>1 DEF Cell
  <2>3. m \in Nat /\ m * FrameSize \in Nat
    <3>1. m \in Nat
      BY BoundsAssumption DEF Frames
    <3> QED
      BY <3>1, Products
  <2>4. m * FrameSize + k = End - (Len(Unseen) - (FrameSize + i))
    <3>1. Pos(wire[i]) = End - (Len(Unseen) - (FrameSize + i))
      BY <2>1, UnseenAt
    <3> QED
      BY <2>2, <3>1 DEF Pos
  <2>5. m * FrameSize + k = (n * FrameSize + FrameSize) + i
    BY <1>1, <1>4, <1>6, <2>3, <2>4
  <2>6. ~ m <= n
    <3>1. SUFFICES ASSUME m <= n PROVE FALSE
      OBVIOUS
    <3>2. m * FrameSize <= n * FrameSize
      <4>1. m < n => m * FrameSize + FrameSize <= n * FrameSize
        BY <1>4, <2>3, Products
      <4> QED
        BY <1>1, <1>4, <2>3, <3>1, <4>1
    <3> QED
      BY <1>1, <1>4, <2>3, <2>5, <3>2
  <2> QED
    BY <1>4, <2>2, <2>3, <2>6
<1> QED
  BY <1>3, <1>4, <1>8, <1>9

LEMMA KeepStream ==
  ASSUME StreamInv, UNCHANGED <<rx, wire, sent, rcvMsg>>, labels' \in {labels, rcvMsg}
  PROVE  StreamInv'
<1>1. Unseen' = Unseen /\ Kept' = Kept
  BY DEF Unseen, Kept
<1>2. labels' \in {Frame(n) : n \in Frames} \cup {<<>>}
  <2>1. Kept \in Frames
    BY BoundsAssumption DEF StreamInv, Frames
  <2> QED
    BY <2>1 DEF StreamInv
<1> QED
  BY <1>1, <1>2 DEF StreamInv, Frame, Cell, Frames, Pos, End

LEMMA DropStream ==
  ASSUME StreamInv, rx' = <<>>, wire' = <<>>, UNCHANGED <<sent, rcvMsg, labels>>
  PROVE  StreamInv'
<1>1. Unseen' = <<>> /\ Len(<<>>) = 0 /\ <<>> \in Seq(Cell)
  BY EmptySeq, ConcatEmptySeq DEF Unseen
<1>2. Kept' = Kept
  BY DEF Kept
<1> QED
  BY <1>1, <1>2 DEF StreamInv, Frame, Cell, Frames

LEMMA SendStream ==
  ASSUME StreamInv, ServerSends
  PROVE  StreamInv'
<1>1. /\ rx' = rx /\ wire' = wire \o Frame(sent + 1) /\ sent' = sent + 1
      /\ sent + 1 \in Frames /\ sent + 1 \in Nat
      /\ rcvMsg' = rcvMsg /\ labels' = labels /\ Kept' = Kept
      /\ rx \in Seq(Cell) /\ wire \in Seq(Cell)
  BY BoundsAssumption DEF StreamInv, ServerSends, Frames, showVars, Kept
<1>2. PICK f \in Seq(Cell) : f = Frame(sent + 1)
  BY <1>1, FrameIs
<1>3. Len(f) = FrameSize /\ \A i \in 1 .. FrameSize : f[i] = <<sent + 1, i>>
  BY <1>1, <1>2, FrameIs
<1>4. wire' = wire \o f /\ wire' \in Seq(Cell)
  BY <1>1, <1>2, ConcatProperties
<1>5. Unseen' = Unseen \o f
  <2>1. (rx \o wire) \o f = rx \o (wire \o f)
    BY ONLY <1>1, <1>2, CellsConcat
  <2>2. Unseen' = rx \o (wire \o f)
    BY <1>1, <1>4 DEF Unseen
  <2> QED
    BY ONLY <2>1, <2>2 DEF Unseen
<1>6. Unseen \in Seq(Cell) /\ Len(Unseen) \in Nat
  BY UnseenIs
<1>7. /\ Len(Unseen') = Len(Unseen) + FrameSize
      /\ \A i \in 1 .. Len(Unseen) + FrameSize :
            Unseen'[i] = IF i <= Len(Unseen) THEN Unseen[i] ELSE f[i - Len(Unseen)]
  <2>1. /\ Len(Unseen \o f) = Len(Unseen) + Len(f)
        /\ \A i \in 1 .. Len(Unseen) + Len(f) :
              (Unseen \o f)[i] = IF i <= Len(Unseen) THEN Unseen[i] ELSE f[i - Len(Unseen)]
    BY <1>6, ConcatProperties
  <2> QED
    BY <1>3, <1>5, <2>1
<1>8. /\ sent \in Nat /\ Kept \in Nat /\ Kept <= sent /\ End \in Nat
      /\ FrameSize \in Nat \ {0}
      /\ (sent + 1) * FrameSize = End /\ End' = End + FrameSize
  BY <1>1, UnseenIs, Products, FrameSizeAssumption DEF End
<1>9. ASSUME NEW i \in 1 .. Len(Unseen')
      PROVE  /\ Unseen'[i][1] > Kept /\ Unseen'[i][1] <= sent + 1
             /\ Pos(Unseen'[i]) = End' - (Len(Unseen') - i)
  <2>1. CASE i <= Len(Unseen)
    <3>1. Unseen'[i] = Unseen[i] /\ i \in 1 .. Len(Unseen)
      BY <1>6, <1>7, <1>8, <2>1
    <3>2. /\ Unseen[i][1] > Kept /\ Unseen[i][1] <= sent /\ Unseen[i][1] \in Nat
          /\ Pos(Unseen[i]) = End - (Len(Unseen) - i)
      BY <3>1, UnseenAt
    <3>3. End - (Len(Unseen) - i) = End' - (Len(Unseen') - i)
      BY <1>6, <1>7, <1>8
    <3>4. Pos(Unseen'[i]) = End' - (Len(Unseen') - i)
      BY <3>1, <3>2, <3>3, Zenon
    <3>5. Unseen'[i][1] = Unseen[i][1]
      BY <3>1, Zenon
    <3>6. Unseen[i][1] <= sent + 1
      BY <1>8, <3>2
    <3> QED
      BY <3>2, <3>4, <3>5, <3>6, Zenon
  <2>2. CASE i > Len(Unseen)
    <3>1. PICK k \in 1 .. FrameSize : k = i - Len(Unseen)
      <4>1. i \in 1 .. Len(Unseen) + FrameSize
        BY <1>7
      <4>2. i - Len(Unseen) \in 1 .. FrameSize
        BY <1>6, <1>8, <2>2, <4>1
      <4> QED
        BY <4>2
    <3>2. Unseen'[i] = <<sent + 1, k>>
      BY <1>3, <1>6, <1>7, <1>8, <2>2, <3>1
    <3>3. Pos(Unseen'[i]) = End + k
      BY <1>8, <3>2 DEF Pos
    <3>4. End + k = End' - (Len(Unseen') - i)
      BY <1>6, <1>7, <1>8, <3>1
    <3> QED
      BY <1>8, <3>2, <3>3, <3>4
  <2> QED
    BY <1>6, <1>7, <1>8, <2>1, <2>2
<1>10. Kept' \in 0 .. sent'
  BY <1>1, <1>8
<1>11. ASSUME NEW i \in 1 .. Len(Unseen')
       PROVE  /\ Unseen'[i][1] > Kept' /\ Unseen'[i][1] <= sent'
              /\ (Pos(Unseen[i]) = End - (Len(Unseen) - i))'
  BY <1>1, <1>9 DEF Pos
<1> QED
  BY <1>1, <1>4, <1>10, <1>11 DEF StreamInv, Frame, Cell, Frames

LEMMA ArriveStream ==
  ASSUME StreamInv, Arrive
  PROVE  StreamInv'
<1>1. /\ rx' = Append(rx, wire[1]) /\ wire' = Tail(wire) /\ wire # <<>>
      /\ rx \in Seq(Cell) /\ wire \in Seq(Cell)
      /\ UNCHANGED <<sent, rcvMsg, labels, Kept>>
  BY HeadTailProperties DEF StreamInv, Arrive, showVars, Kept
<1>2. rx' \in Seq(Cell) /\ wire' \in Seq(Cell)
  <2>1. wire[1] \in Cell
    BY <1>1, EmptySeq, LenProperties
  <2> QED
    BY <1>1, <2>1, AppendProperties, HeadTailProperties
<1>3. Unseen' = Unseen
  <2>1. \A s \in Seq(Cell), t \in Seq(Cell) :
            t # <<>> => Append(s, t[1]) \o Tail(t) = s \o t
    BY MoveFirst
  <2> QED
    BY <1>1, <2>1 DEF Unseen
<1> QED
  BY <1>1, <1>2, <1>3 DEF StreamInv, Frame, Cell, Frames, Pos, End

LEMMA TakeStream ==
  ASSUME StreamInv, readyReadSlot
  PROVE  /\ StreamInv'
         /\ \/ UNCHANGED rcvMsg
            \/ Kept' \in 1 .. MaxFrames /\ Kept' > Kept
<1>1. /\ rx # <<>> /\ rx' = <<>> /\ UNCHANGED <<wire, sent, labels>>
      /\ wire \in Seq(Cell) /\ rx \in Seq(Cell) /\ <<>> \in Seq(Cell)
  BY EmptySeq DEF StreamInv, readyReadSlot
<1>2. Unseen' = wire
  BY <1>1, ConcatEmptySeq DEF Unseen
<1>3. /\ Len(wire) \in Nat /\ Len(rx) \in Nat /\ Len(Unseen) = Len(rx) + Len(wire)
      /\ sent \in Nat /\ Kept \in Nat /\ Kept <= sent /\ sent <= MaxFrames
      /\ MaxFrames \in Nat
  BY UnseenIs, BoundsAssumption
<1>4. ASSUME NEW i \in 1 .. Len(wire)
      PROVE  /\ wire[i][1] > Kept /\ wire[i][1] <= sent
             /\ Pos(wire[i]) = End - (Len(wire) - i)
  <2>1. wire[i] = Unseen[Len(rx) + i] /\ Len(rx) + i \in 1 .. Len(Unseen)
    BY <1>3, UnseenIs
  <2>2. Len(Unseen) - (Len(rx) + i) = Len(wire) - i
    BY <1>3
  <2> QED
    BY <2>1, <2>2, UnseenAt
<1>5. CASE Accepted(rx)
  <2>1. /\ rcvMsg' = rx /\ rx[1][1] \in Frames /\ rx[1][1] > Kept /\ rx[1][1] <= sent
        /\ rx = Frame(rx[1][1])
        /\ \A i \in 1 .. Len(wire) : wire[i][1] > rx[1][1]
    BY <1>1, <1>5, AcceptedIsFrame DEF readyReadSlot
  <2>2. Kept' = rx[1][1]
    BY <2>1 DEF Kept
  <2>3. Kept' \in 0 .. sent /\ Kept' \in 1 .. MaxFrames
    BY <1>3, <2>1, <2>2 DEF Frames
  <2> QED
    BY <1>1, <1>2, <1>4, <2>1, <2>2, <2>3 DEF StreamInv, Frame, Cell, Frames, Pos, End
<1>6. CASE ~ Accepted(rx)
  <2>1. rcvMsg' = rcvMsg /\ Kept' = Kept
    BY <1>6 DEF readyReadSlot, Kept
  <2> QED
    BY <1>1, <1>2, <1>4, <2>1 DEF StreamInv, Frame, Cell, Frames, Pos, End
<1> QED
  BY <1>5, <1>6

LEMMA InitStream == Init => StreamInv
<1> SUFFICES ASSUME Init PROVE StreamInv
  OBVIOUS
<1>1. 0 \in Frames /\ rcvMsg = Frame(0) /\ sent = 0 /\ labels = <<>>
      /\ rx = <<>> /\ wire = <<>>
  BY BoundsAssumption DEF Init, Frames
<1>2. Kept = 0
  BY <1>1, FrameIs DEF Kept
<1>3. Unseen = <<>> /\ Len(<<>>) = 0 /\ <<>> \in Seq(Cell)
  BY <1>1, EmptySeq, ConcatEmptySeq DEF Unseen
<1> QED
  BY <1>1, <1>2, <1>3 DEF StreamInv

(* The steps that take nothing out of the stream, and draw nothing. *)
LEMMA OtherStream ==
  ASSUME StreamInv, [Next]_vars, ~ readyReadSlot, ~ updateShow
  PROVE  StreamInv' /\ UNCHANGED showVars
<1> USE DEF linkVars, buttonVars, sendVars, showVars
<1>1. CASE ServerSends
  BY <1>1, SendStream DEF ServerSends
<1>2. CASE Arrive
  BY <1>2, ArriveStream DEF Arrive
<1>3. CASE ServerCloses
  BY <1>3, KeepStream DEF ServerCloses
<1>4. CASE on_btn_connect_clicked \/ Connected \/ UNCHANGED vars
  BY <1>4, KeepStream DEF on_btn_connect_clicked, Connected, vars
<1>5. CASE ConnectFails \/ ConnectionLost
  BY <1>5, DropStream DEF ConnectFails, ConnectionLost, Closes, Dropped
<1>6. CASE on_btn_disconnect_clicked
  BY <1>6, KeepStream, DropStream DEF on_btn_disconnect_clicked, Closes, Dropped
<1>7. CASE PeerClosed
  BY <1>7, KeepStream, DropStream DEF PeerClosed, Closes, Dropped
<1>8. CASE Flush
  BY <1>8, KeepStream, DropStream DEF Flush, Closes, Dropped
<1>9. CASE on_btn_state_clicked \/ on_btn_force_pressed \/ on_btn_force_released
  BY <1>9, KeepStream
  DEF on_btn_state_clicked, on_btn_force_pressed, on_btn_force_released, Given
<1> QED
  BY <1>1, <1>2, <1>3, <1>4, <1>5, <1>6, <1>7, <1>8, <1>9 DEF Next, Network, User

LEMMA ShowStream == ASSUME StreamInv, updateShow PROVE StreamInv' /\ UNCHANGED rcvMsg
  BY KeepStream DEF updateShow, updateMonitor, linkVars

LEMMA StepStream == StreamInv /\ [Next]_vars => StreamInv'
  BY OtherStream, ShowStream, TakeStream

LEMMA StreamInvariance == Spec => []StreamInv
  BY InitStream, StepStream, PTL DEF Spec

-----------------------------------------------------------------------------
(* The rest of the types: a press leaves a click for its release.           *)
ClickInv ==
    /\ closed \in BOOLEAN /\ held \in BOOLEAN
    /\ clicks \in 0 .. MaxClicks
    /\ held => clicks < MaxClicks

LEMMA InitClicks == Init => ClickInv
<1>1. Init => closed = FALSE /\ held = FALSE /\ clicks = 0
  BY DEF Init
<1>2. 0 \in 0 .. MaxClicks
  BY BoundsAssumption
<1> QED
  BY <1>1, <1>2, Zenon DEF ClickInv

LEMMA StepClicks == ClickInv /\ [Next]_vars => ClickInv'
<1> SUFFICES ASSUME ClickInv, [Next]_vars PROVE ClickInv'
  OBVIOUS
<1> USE DEF linkVars, buttonVars, sendVars, showVars
<1>1. closed' \in BOOLEAN
  <2>1. closed' = closed \/ closed' = TRUE \/ closed' = FALSE
    BY DEF Next, Network, User, ServerSends, ServerCloses, Arrive, ConnectionLost,
           on_btn_connect_clicked, on_btn_disconnect_clicked, on_btn_state_clicked,
           on_btn_force_pressed, on_btn_force_released, Given, Connected, ConnectFails,
           PeerClosed, Flush, readyReadSlot, updateShow, updateMonitor, vars
  <2> QED
    BY <2>1, Zenon DEF ClickInv
<1>2. CASE UNCHANGED <<held, clicks>>
  BY <1>1, <1>2, Zenon DEF ClickInv
<1>3. CASE on_btn_state_clicked
  <2>1. held' = held /\ clicks' = clicks + 1 /\ clicks < MaxClicks /\ ~ held
    BY <1>3 DEF on_btn_state_clicked, Given
  <2>2. clicks' \in 0 .. MaxClicks
    BY <2>1, BoundsAssumption DEF ClickInv
  <2> QED
    BY <1>1, <2>1, <2>2, Zenon DEF ClickInv
<1>4. CASE on_btn_force_pressed
  <2>1. held' = TRUE /\ clicks' = clicks + 1 /\ clicks < MaxClicks - 1
    BY <1>4 DEF on_btn_force_pressed, Given
  <2>2. clicks' \in 0 .. MaxClicks /\ clicks' < MaxClicks
    BY <2>1, BoundsAssumption DEF ClickInv
  <2> QED
    BY <1>1, <2>1, <2>2, Zenon DEF ClickInv
<1>5. CASE on_btn_force_released
  <2>1. held' = FALSE /\ clicks' = clicks + 1 /\ held
    BY <1>5 DEF on_btn_force_released, Given
  <2>2. clicks' \in 0 .. MaxClicks
    BY <2>1, BoundsAssumption DEF ClickInv
  <2> QED
    BY <1>1, <2>1, <2>2, Zenon DEF ClickInv
<1> QED
  BY <1>2, <1>3, <1>4, <1>5
  DEF Next, Network, User, ServerSends, ServerCloses, Arrive, ConnectionLost,
      on_btn_connect_clicked, on_btn_disconnect_clicked, Connected, ConnectFails,
      PeerClosed, Flush, readyReadSlot, updateShow, updateMonitor, vars

(* Every variable keeps its type; what is kept is always a whole frame.     *)
THEOREM PcTypeCorrect == Spec => []TypeOK
<1>1. ButtonsInv /\ SendInv /\ StreamInv /\ ClickInv => TypeOK
  <2>1. StreamInv => rcvMsg \in {Frame(n) : n \in Frames}
    BY BoundsAssumption DEF StreamInv, Frames
  <2> QED
    BY <2>1 DEF ButtonsInv, SocketTyped, SendInv, StreamInv, ClickInv, TypeOK
<1>2. Spec => []ClickInv
  BY InitClicks, StepClicks, PTL DEF Spec
<1> QED
  BY <1>1, <1>2, ButtonsInvariance, SendInvariance, StreamInvariance, PTL

-----------------------------------------------------------------------------
(* A frame's number is found again. *)
LEMMA NumberOfFrame == \A n \in Frames : Number(Frame(n)) = n
<1> SUFFICES ASSUME NEW n \in Frames PROVE Number(Frame(n)) = n
  OBVIOUS
<1>1. Frame(n) # <<>> /\ n \in -1 .. MaxFrames + 1
  BY FrameIs, BoundsAssumption DEF Frames
<1>2. \A m \in Frames : Frame(m) = Frame(n) => m = n
  BY FrameIs
<1>3. MaxFrames + 1 \notin Frames /\ -1 \notin Frames
  BY BoundsAssumption DEF Frames
<1> DEFINE P(m) == \/ m \in Frames /\ Frame(n) = Frame(m)
                   \/ m = -1 /\ Frame(n) = <<>>
                   \/ m = MaxFrames + 1 /\ Frame(n) \notin {Frame(k) : k \in Frames} \cup {<<>>}
<1>4. P(n)
  OBVIOUS
<1>5. \A m \in -1 .. MaxFrames + 1 : P(m) => m = n
  BY <1>1, <1>2
<1>6. Number(Frame(n)) = CHOOSE m \in -1 .. MaxFrames + 1 : P(m)
  BY DEF Number
<1> QED
  BY <1>1, <1>4, <1>5, <1>6

LEMMA NumberOfNothing == Number(<<>>) = -1
<1>1. \A n \in Frames : Frame(n) # <<>>
  BY FrameIs
<1>2. -1 \in -1 .. MaxFrames + 1
  BY BoundsAssumption
<1> DEFINE P(m) == \/ m \in Frames /\ <<>> = Frame(m)
                   \/ m = -1 /\ <<>> = <<>>
                   \/ m = MaxFrames + 1 /\ <<>> \notin {Frame(k) : k \in Frames} \cup {<<>>}
<1>3. P(-1)
  OBVIOUS
<1>4. \A m \in -1 .. MaxFrames + 1 : P(m) => m = -1
  BY <1>1
<1>5. Number(<<>>) = CHOOSE m \in -1 .. MaxFrames + 1 : P(m)
  BY DEF Number
<1> QED
  BY <1>2, <1>3, <1>4, <1>5

LEMMA KeptIsNumber == StreamInv => Number(rcvMsg) = Kept
<1>1. StreamInv => Kept \in Frames /\ rcvMsg = Frame(Kept)
  BY BoundsAssumption DEF StreamInv, Frames
<1> QED
  BY <1>1, NumberOfFrame

LEMMA StepFeed ==
  ASSUME StreamInv, StreamInv', [Next]_vars
  PROVE  [Feed!FNext]_(Feed!fvars)
<1>1. Number(rcvMsg) = Kept /\ Number(rcvMsg)' = Kept'
  <2>1. (StreamInv => Number(rcvMsg) = Kept)'
    BY KeptIsNumber, PTL
  <2> QED
    BY <2>1, KeptIsNumber
<1>2. ASSUME UNCHANGED showVars PROVE UNCHANGED Feed!fvars
  BY <1>2 DEF showVars, Number, Frame, Frames, Feed!fvars
<1>3. CASE updateShow
  <2>1. labels' = rcvMsg /\ rcvMsg' = rcvMsg
    BY <1>3 DEF updateShow, updateMonitor
  <2>2. Number(labels)' = Number(rcvMsg) /\ Number(rcvMsg)' = Number(rcvMsg)
    BY <2>1 DEF Number, Frame, Frames
  <2> QED
    BY <2>2 DEF Feed!FNext, Feed!Draw
<1>4. CASE readyReadSlot
  <2>1. labels' = labels /\ Number(labels)' = Number(labels)
    BY <1>4 DEF readyReadSlot, Number, Frame, Frames
  <2>2. CASE UNCHANGED rcvMsg
    BY <1>2, <2>1, <2>2 DEF showVars
  <2>3. CASE Kept' \in 1 .. MaxFrames /\ Kept' > Kept
    BY <1>1, <2>1, <2>3 DEF Feed!FNext, Feed!Keep
  <2> QED
    BY <1>4, <2>2, <2>3, TakeStream
<1>5. CASE ~ updateShow /\ ~ readyReadSlot
  BY <1>2, <1>5, OtherStream
<1> QED
  BY <1>3, <1>4, <1>5

(* However the stream is cut and wherever connections end, what the PC      *)
(* keeps and shows are frames the server sent, whole, and going forward.    *)
THEOREM ImplementsFeed == Spec => FeedSpec
<1>1. Init => Feed!FInit
  BY InitStream, KeptIsNumber, NumberOfNothing, NumberOfFrame, BoundsAssumption
  DEF Init, Frames, Feed!FInit
<1>2. StreamInv /\ StreamInv' /\ [Next]_vars => [Feed!FNext]_(Feed!fvars)
  BY StepFeed
<1> QED
  BY <1>1, <1>2, StreamInvariance, PTL DEF Spec, FeedSpec, Feed!FSpec
=============================================================================
