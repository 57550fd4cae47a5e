------------------------ MODULE ThreadedServerProofs ------------------------
(***************************************************************************)
(* The threaded server is one queue of commands, for commands and buffers  *)
(* of any size, up to the first command that has to run over the end of    *)
(* the buffer: where items fill the buffer without a rest there is none,   *)
(* in the program's geometry it is the ninth.  The premise is CircleBuffer *)
(* 's SafeGeometry, with all the PC sends for its window; and a read is    *)
(* interrupted only between commands.                                      *)
(*                                                                         *)
(* Nothing is proved twice: the reader's part of every behaviour is one of *)
(* ReadData (ReadDataProofs), the buffer's one of CircleBuffer             *)
(* (CircleBufferProofs, instantiated).  What is left to show is that the   *)
(* mutex makes the two fit: the buffer that was not full when the producer *)
(* looked is not full when it pushes, however long the read took; and that *)
(* the mutex and the buffer leave each other's cells alone.                *)
(***************************************************************************)
EXTENDS ThreadedServer, ReadDataProofs, SequenceLemmas

RingProofs == INSTANCE CircleBufferProofs WITH
    element_length <- CLIENT_BUFF_SIZE, buff_length <- MAX_SIZE,
    Items <- Commands, Window <- MaxSent

(* Who has the mutex, and what the producer has seen under it.              *)
Locked ==
    /\ mutex \in {Free, "producer", "consumer"}
    /\ producer \in {"getsockopt", "lock", "full", "read"}
    /\ consumer \in {"lock", "empty"}
    /\ display \in {"getsockopt", "write"}
    /\ exited \in BOOLEAN
    /\ producer \in {"full", "read"} <=> mutex = "producer"
    /\ consumer = "empty" <=> mutex = "consumer"
    /\ reader # "idle" => producer = "read" /\ ~ Ring!is_buff_full

Backlog == Len(pending) <= pushed

(* Where the next push begins, in the two safe geometries.                  *)
TailPlace ==
    \/ /\ MAX_SIZE % CLIENT_BUFF_SIZE = 0
       /\ RingProofs!TailAligned(CLIENT_BUFF_SIZE)
    \/ /\ MaxSent * CLIENT_BUFF_SIZE <= MAX_SIZE
       /\ pushed < MaxSent => tail_index_offset = pushed * CLIENT_BUFF_SIZE

(* No item has reached into the mutex, and the mutex holds what its locking *)
(* stores there.                                                            *)
Apart ==
    /\ overwritten = FALSE
    /\ \A a \in Ring!Addr : a >= MAX_SIZE => local_buff[a] = Zero

TInv == IInv /\ Locked /\ Backlog /\ TailPlace /\ Apart /\ RingProofs!IInv

-----------------------------------------------------------------------------
(* The assumptions of CircleBuffer, for the buffer of this server.          *)
LEMMA RingGeometry ==
  CLIENT_BUFF_SIZE \in Nat \ {0} /\ MAX_SIZE \in Nat /\ CLIENT_BUFF_SIZE <= MAX_SIZE
  BY SizeAssumption, MAX_SIZEAssumption

LEMMA RingItems == Commands \subseteq [RingProofs!Index -> Cell] /\ Zero \in Cell
  BY SizeAssumption, MaxSentAssumption DEF Commands, Command, Cell, Index, RingProofs!Index

LEMMA RingWindow == MaxSent \in Nat \ {0}
  BY MaxSentAssumption

LEMMA RingStored == RingProofs!IInv => RingProofs!Stored = pending
  BY RingGeometry, RingItems, RingWindow, RingProofs!StoredIsPending

LEMMA RingInit == Ring!Init => RingProofs!IInv
<1>1. RingProofs!Init => RingProofs!IInv
  BY RingGeometry, RingItems, RingWindow, RingProofs!InitEstablishes
<1>2. Ring!Init => RingProofs!Init
  BY DEF Ring!Init, RingProofs!Init, Ring!Addr, RingProofs!Addr
<1> QED
  BY <1>1, <1>2

LEMMA RingPush ==
  ASSUME Ring!SafeGeometry, RingProofs!IInv, Len(pending) < MaxSent,
         NEW item \in Commands, Ring!PushStored(item)
  PROVE  RingProofs!IInv'
<1>1. RingProofs!SafeGeometry
  BY DEF Ring!SafeGeometry, RingProofs!SafeGeometry
<1>2. RingProofs!PushStored(item)
  BY DEF Ring!PushStored, Ring!is_buff_full, Ring!CopyTo, Ring!Advance, Ring!Addr,
         RingProofs!PushStored, RingProofs!is_buff_full, RingProofs!CopyTo,
         RingProofs!Advance, RingProofs!Addr
<1> QED
  BY <1>1, <1>2, RingGeometry, RingItems, RingWindow, RingProofs!PushPreserves

LEMMA RingPull ==
  ASSUME RingProofs!IInv, Ring!PullTaken
  PROVE  /\ RingProofs!IInv'
         /\ pending # <<>> /\ pending' = Tail(pending) /\ pulled' = Head(pending)
<1>1. RingProofs!PullTaken
  BY DEF Ring!PullTaken, Ring!is_buff_empty, Ring!ItemAt, Ring!Advance, Ring!Index,
         RingProofs!PullTaken, RingProofs!is_buff_empty, RingProofs!ItemAt,
         RingProofs!Advance, RingProofs!Index
<1>2. RingProofs!IInv'
  BY <1>1, RingGeometry, RingItems, RingWindow, RingProofs!PullPreserves
<1>3. pending # <<>> /\ pending' = Tail(pending)
  <2>1. RingProofs!EmptyMeansNothingPending
    BY RingGeometry, RingItems, RingWindow, RingProofs!EmptyTest
  <2> QED
    BY <1>1, <2>1 DEF RingProofs!PullTaken, RingProofs!EmptyMeansNothingPending
<1>4. pulled' = Head(pending)
  <2>1. /\ pending \in Seq(Commands) /\ RingProofs!PendingIntact
        /\ head_index_offset \in 0 .. MAX_SIZE - 1
    BY DEF RingProofs!IInv, RingProofs!TypeOK
  <2>2. 1 \in 1 .. Len(pending)
    BY <1>3, <2>1, EmptySeq
  <2>3. RingProofs!ItemAt(RingProofs!Slot(1)) = pending[1]
    BY <2>1, <2>2 DEF RingProofs!PendingIntact
  <2>4. RingProofs!Slot(1) = head_index_offset
    <3>1. RingProofs!SlotFrom(head_index_offset, 1) = head_index_offset
      BY <2>1, RingGeometry, RingItems, RingWindow, RingProofs!SlotFirst
    <3> QED
      BY <3>1 DEF RingProofs!Slot
  <2> QED
    BY <1>1, <2>1, <2>2, <2>3, <2>4 DEF RingProofs!PullTaken
<1> QED
  BY <1>2, <1>3, <1>4

(* The place of the next push.                                              *)
LEMMA RoomAtEnd ==
  ASSUME TInv, pushed < MaxSent
  PROVE  tail_index_offset + CLIENT_BUFF_SIZE <= MAX_SIZE
<1>1. CASE MAX_SIZE % CLIENT_BUFF_SIZE = 0 /\ RingProofs!TailAligned(CLIENT_BUFF_SIZE)
  BY <1>1, RingGeometry, RingItems, RingWindow, RingProofs!AlignedFits
<1>2. CASE /\ MaxSent * CLIENT_BUFF_SIZE <= MAX_SIZE
           /\ tail_index_offset = pushed * CLIENT_BUFF_SIZE
  <2>1. pushed \in Nat /\ MaxSent \in Nat /\ CLIENT_BUFF_SIZE \in Nat /\ MAX_SIZE \in Nat
    BY RingGeometry, RingWindow DEF TInv, IInv, ReadTypeOK
  <2>2. (pushed + 1) * CLIENT_BUFF_SIZE <= MaxSent * CLIENT_BUFF_SIZE
    BY <2>1, SMT
  <2>3. (pushed + 1) * CLIENT_BUFF_SIZE = tail_index_offset + CLIENT_BUFF_SIZE
    BY <1>2, <2>1, SMT
  <2>4. MaxSent * CLIENT_BUFF_SIZE \in Nat /\ (pushed + 1) * CLIENT_BUFF_SIZE \in Nat
    BY <2>1, SMT
  <2> QED
    BY ONLY <1>2, <2>1, <2>2, <2>3, <2>4
<1> QED
  BY <1>1, <1>2 DEF TInv, TailPlace

(* It moves on by one item.                                                 *)
LEMMA PushTail ==
  ASSUME TInv, pushed < MaxSent, pushed' = pushed + 1,
         tail_index_offset' = Ring!Advance(tail_index_offset)
  PROVE  TailPlace'
<1>1. CASE MAX_SIZE % CLIENT_BUFF_SIZE = 0 /\ RingProofs!TailAligned(CLIENT_BUFF_SIZE)
  <2>1. CLIENT_BUFF_SIZE % CLIENT_BUFF_SIZE = 0
    BY RingGeometry
  <2>2. tail_index_offset' = RingProofs!Advance(tail_index_offset)
    BY DEF Ring!Advance, RingProofs!Advance
  <2>3. RingProofs!TailAligned(CLIENT_BUFF_SIZE)'
    BY <1>1, <2>1, <2>2, RingGeometry, RingItems, RingWindow, RingProofs!AlignedAdvance
  <2> QED
    BY <1>1, <2>3 DEF TailPlace
<1>2. CASE /\ MaxSent * CLIENT_BUFF_SIZE <= MAX_SIZE
           /\ tail_index_offset = pushed * CLIENT_BUFF_SIZE
  <2>1. pushed \in Nat /\ MaxSent \in Nat /\ CLIENT_BUFF_SIZE \in Nat \ {0} /\ MAX_SIZE \in Nat
    BY RingGeometry, RingWindow DEF TInv, IInv, ReadTypeOK
  <2>2. ASSUME pushed + 1 < MaxSent
        PROVE  tail_index_offset' = (pushed + 1) * CLIENT_BUFF_SIZE
    <3>1. (pushed + 1 + 1) * CLIENT_BUFF_SIZE <= MaxSent * CLIENT_BUFF_SIZE
      BY <2>1, <2>2, SMT
    <3>2. /\ (pushed + 1 + 1) * CLIENT_BUFF_SIZE = (pushed + 1) * CLIENT_BUFF_SIZE + CLIENT_BUFF_SIZE
          /\ (pushed + 1) * CLIENT_BUFF_SIZE = tail_index_offset + CLIENT_BUFF_SIZE
          /\ MaxSent * CLIENT_BUFF_SIZE \in Nat /\ (pushed + 1) * CLIENT_BUFF_SIZE \in Nat
      BY <1>2, <2>1, SMT
    <3>3. tail_index_offset + CLIENT_BUFF_SIZE \in 0 .. MAX_SIZE - 1 /\ MAX_SIZE \in Nat \ {0}
      BY ONLY <1>2, <2>1, <3>1, <3>2
    <3>4. (tail_index_offset + CLIENT_BUFF_SIZE) % MAX_SIZE = tail_index_offset + CLIENT_BUFF_SIZE
      BY <3>3, RingGeometry, RingItems, RingWindow, RingProofs!ModuloSmall
    <3> QED
      BY <3>2, <3>4 DEF Ring!Advance
  <2> QED
    BY <1>2, <2>2 DEF TailPlace
<1> QED
  BY <1>1, <1>2 DEF TInv, TailPlace

(* Locking changes nothing as long as the two are apart.                    *)
LEMMA LockKeepsRing ==
  ASSUME TInv, NEW thread, Lock(thread)
  PROVE  mutex = Free /\ UNCHANGED <<ringVars, overwritten>>
<1>1. local_buff \in [Ring!Addr -> Cell]
  BY DEF TInv, RingProofs!IInv, RingProofs!TypeOK, Ring!Addr, RingProofs!Addr
<1>2. \A a \in Ring!Addr : a \in Int /\ MAX_SIZE \in Int
  BY RingGeometry DEF Ring!Addr
<1>3. \A a \in Ring!Addr : local_buff[a] = IF a < MAX_SIZE THEN local_buff[a] ELSE Zero
  BY <1>2 DEF TInv, Apart
<1>4. local_buff' = local_buff
  BY <1>1, <1>3 DEF Lock
<1> QED
  BY <1>4 DEF TInv, Apart, Lock, ringVars

LEMMA RingStutter == ASSUME RingProofs!IInv, UNCHANGED ringVars PROVE RingProofs!IInv'
  BY DEF ringVars, RingProofs!IInv, RingProofs!TypeOK, RingProofs!TailFollows,
         RingProofs!Fits, RingProofs!PendingIntact, RingProofs!Slot, RingProofs!ItemAt

-----------------------------------------------------------------------------
(* The reader's part of a step.                                             *)
LEMMA ReaderStep == [Next]_vars => [ReadNext]_readVars
  BY DEF Next, Threads, Producer, ProducerTest, ProducerFull, ProducerReads,
         ProducerReading, ProducerPush, ProducerUnlock, ProducerLock, ConsumerLock,
         ConsumerTurn, DisplayTest, DisplayWrite, DisplayWrites, Pc,
         Interrupt, ReadNext, Network, vars

THEOREM ImplementsReadData == Spec => ReadSpec
<1>1. Init => ReadInit
  BY DEF Init
<1> QED
  BY <1>1, ReaderStep, PTL DEF Spec, ReadSpec

-----------------------------------------------------------------------------
(* The buffer's part, and the mutex.                                        *)
LEMMA InitTInv ==
  ASSUME Ring!SafeGeometry, Init
  PROVE  TInv
<1>1. IInv
  BY InitInv DEF Init
<1>2. RingProofs!IInv
  BY RingInit DEF Init
<1>3. Locked
  BY DEF Init, ReadInit, Locked, Free
<1>4. Backlog
  BY EmptySeq DEF Init, ReadInit, Ring!Init, Backlog
<1>5. TailPlace
  <2>1. CASE MAX_SIZE % CLIENT_BUFF_SIZE = 0
    <3>1. RingProofs!Init
      BY DEF Init, Ring!Init, RingProofs!Init, Ring!Addr, RingProofs!Addr
    <3>2. RingProofs!TailAligned(CLIENT_BUFF_SIZE)
      BY <3>1, RingGeometry, RingItems, RingWindow, RingProofs!InitAligned
    <3> QED
      BY <2>1, <3>2 DEF TailPlace
  <2>2. CASE MaxSent * CLIENT_BUFF_SIZE <= MAX_SIZE
    <3>1. 0 = 0 * CLIENT_BUFF_SIZE
      BY RingGeometry
    <3> QED
      BY <2>2, <3>1 DEF Init, ReadInit, Ring!Init, TailPlace
  <2> QED
    BY <2>1, <2>2 DEF Ring!SafeGeometry
<1>6. Apart
  BY DEF Init, Ring!Init, Apart
<1> QED
  BY <1>1, <1>2, <1>3, <1>4, <1>5, <1>6 DEF TInv

LEMMA Counts ==
  TInv => /\ pushed \in Nat /\ sent \in Nat /\ pushed <= sent /\ sent <= MaxSent
          /\ pending \in Seq(Commands) /\ Len(pending) \in Nat
  BY MaxSentAssumption, LenProperties
  DEF TInv, IInv, ReadTypeOK, RingProofs!IInv, RingProofs!TypeOK

(* What is pushed is a command, there is room for it, and the window of     *)
(* CircleBuffer never holds the push up.                                    *)
LEMMA PushStores ==
  ASSUME TInv, ProducerPush
  PROVE  /\ pushed \in Nat /\ pushed < sent /\ sent <= MaxSent
         /\ buffer = Command(pushed) /\ buffer \in Commands
         /\ Len(pending) < MaxSent
         /\ Ring!PushStored(buffer)
<1>1. IInv /\ IInv' /\ reader = "push"
  BY PushInv DEF TInv, ProducerPush, Push
<1>2. buffer = Command(pushed)
  BY <1>1 DEF IInv, ReadTypeOK, Counted, Command
<1>3. /\ pushed \in Nat /\ sent \in Nat /\ sent <= MaxSent
      /\ pushed + 1 <= sent
  BY <1>1, MaxSentAssumption DEF IInv, ReadTypeOK, ProducerPush, Push, connVars
<1>4. buffer \in Commands
  BY <1>2, <1>3, MaxSentAssumption DEF Commands
<1>5. pending \in Seq(Commands)
  BY DEF TInv, RingProofs!IInv, RingProofs!TypeOK
<1>6. Len(pending) < MaxSent
  BY <1>3, <1>5, LenProperties, MaxSentAssumption DEF TInv, Backlog
<1>7. Ring!PushStored(buffer)
  BY <1>1 DEF TInv, Locked, ProducerPush, Ring!push_circle_buff_item, Ring!PushRefused
<1> QED
  BY <1>2, <1>3, <1>4, <1>6, <1>7

(* The steps that leave the buffer alone.                                   *)
Quiet ==
    ProducerTest \/ ProducerLock \/ ProducerFull \/ ProducerReads \/ ProducerReading
        \/ ProducerUnlock \/ ConsumerLock \/ DisplayTest \/ DisplayWrite \/ Pc \/ Interrupt

LEMMA QuietTInv ==
  ASSUME TInv, IInv', Quiet
  PROVE  TInv' /\ UNCHANGED <<ringVars, pushed>>
<1>1. UNCHANGED <<ringVars, overwritten>>
  BY LockKeepsRing
  DEF Quiet, ProducerTest, ProducerFull, ProducerReads, ProducerReading,
      ProducerUnlock, ProducerLock, ConsumerLock, DisplayTest, DisplayWrite,
      DisplayWrites, Pc, threadVars, Interrupt
<1>2. UNCHANGED pushed
  BY DEF Quiet, ProducerTest, ProducerFull, ProducerReads, ProducerReading,
         ProducerUnlock, ProducerLock, ConsumerLock, DisplayTest, DisplayWrite,
         DisplayWrites, Pc, Interrupt,
         Network, SendCommand, Arrive, Fin, Rst, OtherWrites, OtherIsStuck, read_data, Reading,
         Fread, FreadFetches, FreadStuck,
         FreadCopies, FreadEnds, FreadReset, FreadFails, readVars, connVars, fileVars
<1>3. (Ring!is_buff_full)' <=> Ring!is_buff_full
  BY <1>1 DEF Ring!is_buff_full, ringVars
<1>4. Locked'
  <2> USE <1>3 DEF TInv, Locked, Free, readVars, loopVars
  <2>1. CASE ProducerTest \/ ProducerFull \/ ProducerUnlock
    BY <2>1 DEF ProducerTest, ProducerFull, ProducerUnlock
  <2>8. CASE ProducerLock
    BY <2>8, LockKeepsRing DEF ProducerLock, Lock
  <2>2. CASE ProducerReads
    BY <2>2 DEF ProducerReads, read_data
  <2>3. CASE ProducerReading
    <3>1. reader # "idle"
      BY <2>3 DEF ProducerReading, Reading, Fread, FreadFetches, FreadCopies, FreadEnds,
                      FreadReset, FreadFails, FreadStuck
    <3> QED
      BY <2>3, <3>1 DEF ProducerReading
  <2>4. CASE ConsumerLock
    BY <2>4, LockKeepsRing DEF ConsumerLock, Lock
  <2>5. CASE DisplayTest \/ DisplayWrite
    BY <2>5 DEF DisplayTest, DisplayWrite, DisplayWrites, OtherWrites, OtherIsStuck
  <2>6. CASE Pc
    BY <2>6 DEF Pc, threadVars, Network, SendCommand, Arrive, Fin, Rst
  <2>7. CASE Interrupt
    BY <2>7 DEF Interrupt
  <2> QED
    BY <2>1, <2>2, <2>3, <2>4, <2>5, <2>6, <2>7, <2>8 DEF Quiet
<1>5. Backlog' /\ TailPlace' /\ Apart'
  BY <1>1, <1>2 DEF TInv, Backlog, TailPlace, Apart, RingProofs!TailAligned, ringVars
<1>6. RingProofs!IInv'
  BY <1>1, RingStutter DEF TInv
<1> QED
  BY <1>1, <1>2, <1>4, <1>5, <1>6 DEF TInv

LEMMA PushTInv ==
  ASSUME Ring!SafeGeometry, TInv, IInv', ProducerPush
  PROVE  TInv'
<1>1. RingProofs!IInv'
  BY PushStores, RingPush DEF TInv
<1>2. Locked'
  BY DEF TInv, Locked, ProducerPush, Push, threadVars
<1>3. Backlog'
  <2>1. pending' = Append(pending, buffer) /\ pushed' = pushed + 1
    BY PushStores DEF Ring!PushStored, ProducerPush, Push
  <2>2. Len(pending') = Len(pending) + 1
    BY <2>1, PushStores, Counts, AppendProperties
  <2> QED
    BY <2>1, <2>2, Counts DEF TInv, Backlog
<1>4. pushed < MaxSent
  BY PushStores, MaxSentAssumption, Counts
<1>5. tail_index_offset + CLIENT_BUFF_SIZE <= MAX_SIZE
  BY <1>4, RoomAtEnd
<1>6. TailPlace'
  BY <1>4, PushStores, PushTail DEF Ring!PushStored, ProducerPush, Push
<1>7. Apart'
  <2>1. overwritten' = FALSE
    <3>1. tail_index_offset \in Nat
      BY DEF TInv, RingProofs!IInv, RingProofs!TypeOK
    <3>2. ~ (tail_index_offset + CLIENT_BUFF_SIZE > MAX_SIZE)
      BY <1>5, <3>1, RingGeometry
    <3> QED
      BY <3>2, Zenon DEF TInv, Apart, ProducerPush
  <2>2. ASSUME NEW a \in Ring!Addr, a >= MAX_SIZE PROVE local_buff'[a] = Zero
    <3>1. local_buff'[a] = IF a \in tail_index_offset .. tail_index_offset + CLIENT_BUFF_SIZE - 1
                           THEN buffer[a - tail_index_offset] ELSE local_buff[a]
      BY PushStores DEF Ring!PushStored, Ring!CopyTo
    <3>2. tail_index_offset \in Nat
      BY DEF TInv, RingProofs!IInv, RingProofs!TypeOK
    <3>3. a \notin tail_index_offset .. tail_index_offset + CLIENT_BUFF_SIZE - 1
      BY <1>5, <2>2, <3>2, RingGeometry DEF Ring!Addr
    <3> QED
      BY <2>2, <3>1, <3>3 DEF TInv, Apart
  <2> QED
    BY <2>1, <2>2 DEF Apart
<1> QED
  BY <1>1, <1>2, <1>3, <1>6, <1>7 DEF TInv

LEMMA TurnTInv ==
  ASSUME TInv, IInv', ConsumerTurn
  PROVE  TInv'
<1>1. reader = "idle" /\ reader' = "idle" /\ pushed' = pushed /\ sent' = sent
  BY DEF TInv, Locked, ConsumerTurn, readVars, connVars, loopVars
<1>2. Locked'
  BY <1>1 DEF TInv, Locked, ConsumerTurn, Free
<1>3. CASE UNCHANGED ringVars
  <2>1. Backlog' /\ TailPlace' /\ Apart'
    BY <1>1, <1>3
    DEF TInv, ConsumerTurn, Backlog, TailPlace, Apart, RingProofs!TailAligned, ringVars
  <2> QED
    BY <1>2, <1>3, <2>1, RingStutter DEF TInv
<1>4. CASE Ring!PullTaken
  <2>1. RingProofs!IInv' /\ pending # <<>> /\ pending' = Tail(pending)
    BY <1>4, RingPull DEF TInv
  <2>2. pending \in Seq(Commands)
    BY DEF TInv, RingProofs!IInv, RingProofs!TypeOK
  <2>3. Len(pending') = Len(pending) - 1 /\ Len(pending) \in Nat
    BY <2>1, <2>2, HeadTailProperties, LenProperties
  <2>4. Backlog'
    BY <1>1, <2>3, Counts DEF TInv, Backlog
  <2>5. TailPlace' /\ Apart'
    BY <1>1, <1>4
    DEF TInv, ConsumerTurn, Ring!PullTaken, TailPlace, Apart, RingProofs!TailAligned
  <2> QED
    BY <1>2, <2>1, <2>4, <2>5 DEF TInv
<1> QED
  BY <1>3, <1>4 DEF ConsumerTurn

LEMMA StepTInv ==
  ASSUME Ring!SafeGeometry, InterruptsAt \subseteq {0}, TInv, [Next]_vars
  PROVE  TInv'
<1>1. IInv'
  BY ReaderStep, StepInv DEF TInv
<1>2. CASE UNCHANGED vars
  <2>1. UNCHANGED ringVars /\ Locked'
    BY <1>2 DEF vars, readVars, connVars, loopVars, ringVars, threadVars, TInv, Locked,
                Ring!is_buff_full
  <2>2. Backlog' /\ TailPlace' /\ Apart'
    BY <1>2 DEF vars, readVars, ringVars, threadVars, TInv, Backlog, TailPlace, Apart,
                RingProofs!TailAligned
  <2> QED
    BY <1>1, <2>1, <2>2, RingStutter DEF TInv
<1>3. CASE Next
  BY <1>1, <1>3, QuietTInv, PushTInv, TurnTInv DEF Next, Threads, Producer, Quiet
<1> QED
  BY <1>2, <1>3

THEOREM TInvariance ==
  ASSUME Ring!SafeGeometry, InterruptsAt \subseteq {0}
  PROVE  Spec => []TInv
<1>1. Init => TInv
  BY InitTInv
<1>2. TInv /\ [Next]_vars => TInv'
  BY StepTInv
<1> QED
  BY <1>1, <1>2, PTL DEF Spec

(* In a safe geometry the reader, the buffer and the mutex keep their       *)
(* types, whatever the sizes are: the offsets stay inside the buffer, and   *)
(* the reader inside its own.                                               *)
THEOREM ThreadsTypeCorrect ==
  ASSUME Ring!SafeGeometry, InterruptsAt \subseteq {0}
  PROVE  Spec => []TypeOK
<1>1. TInv => TypeOK
  <2>1. RingProofs!TypeOK => Ring!TypeOK
    BY DEF Ring!TypeOK, RingProofs!TypeOK, Ring!Addr, RingProofs!Addr, Ring!Index,
           RingProofs!Index
  <2> QED
    BY <2>1 DEF TInv, IInv, Locked, Apart, RingProofs!IInv, TypeOK
<1> QED
  BY <1>1, TInvariance, PTL

(* Among the threads, too, read_data pushes the next command, whole.        *)
THEOREM ThreadsPushNextCommand ==
  ASSUME InterruptsAt \subseteq {0}
  PROVE  Spec => []PushesNextCommand
<1> QED
  BY ImplementsReadData, ReadPushesNextCommand, PTL

-----------------------------------------------------------------------------
(* The queue: what waits in the buffer, then what is still to be read.      *)

(* The commands from the p-th to the one before the n-th. *)
CommandsFrom(p, n) == [i \in 1 .. n - p |-> Command(p + i - 1)]

LEMMA CommandsFromIsSeq ==
  ASSUME NEW p \in Nat, NEW n \in Nat, p <= n, n <= MaxSent
  PROVE  /\ CommandsFrom(p, n) \in Seq(Commands) /\ Len(CommandsFrom(p, n)) = n - p
         /\ \A i \in 1 .. n - p : CommandsFrom(p, n)[i] = Command(p + i - 1)
<1>1. \A i \in 1 .. n - p : Command(p + i - 1) \in Commands
  BY MaxSentAssumption DEF Commands
<1> QED
  BY <1>1 DEF CommandsFrom

LEMMA UnreadIsSeq ==
  ASSUME TInv
  PROVE  /\ pending \in Seq(Commands) /\ Unread \in Seq(Commands)
         /\ Unread = CommandsFrom(pushed, sent)
         /\ Len(Unread) = sent - pushed
         /\ \A i \in 1 .. sent - pushed : Unread[i] = Command(pushed + i - 1)
<1>1. Unread = CommandsFrom(pushed, sent)
  BY DEF Unread, CommandsFrom
<1> QED
  BY <1>1, Counts, CommandsFromIsSeq

LEMMA QueueIs ==
  TInv => [i \in 1 .. Len(pending) |-> Ring!ItemAt(Ring!Slot(i))] \o Unread = pending \o Unread
  BY RingStored
  DEF TInv, RingProofs!Stored, RingProofs!ItemAt, RingProofs!Slot, RingProofs!SlotFrom,
      RingProofs!Index, Ring!ItemAt, Ring!Slot, Ring!SlotFrom, Ring!Index

Queue == pending \o Unread

LEMMA SendPuts ==
  ASSUME TInv, TInv', SendCommand, UNCHANGED ringVars
  PROVE  /\ Command(sent) \in Commands /\ UNCHANGED pulled
         /\ Queue' = Append(Queue, Command(sent))
<1>1. sent' = sent + 1 /\ pushed' = pushed /\ sent < MaxSent
  BY DEF SendCommand
<1>2. Command(sent) \in Commands
  BY <1>1, Counts, MaxSentAssumption DEF Commands
<1>3. /\ Unread' \in Seq(Commands) /\ Len(Unread') = sent + 1 - pushed
      /\ \A i \in 1 .. sent + 1 - pushed : Unread'[i] = Command(pushed + i - 1)
  <2>1. PICK n \in Nat : n = sent + 1
    BY Counts
  <2>2. Unread' = CommandsFrom(pushed, n)
    BY <1>1, <2>1 DEF Unread, CommandsFrom, Command
  <2>3. pushed \in Nat /\ pushed <= n /\ n <= MaxSent
    BY <1>1, <2>1, Counts, MaxSentAssumption
  <2>4. /\ CommandsFrom(pushed, n) \in Seq(Commands) /\ Len(CommandsFrom(pushed, n)) = n - pushed
        /\ \A i \in 1 .. n - pushed : CommandsFrom(pushed, n)[i] = Command(pushed + i - 1)
    BY ONLY <2>3, CommandsFromIsSeq
  <2>5. n - pushed = sent + 1 - pushed
    BY <2>1, Counts
  <2> QED
    BY ONLY <2>2, <2>4, <2>5
<1>4. Unread' = Append(Unread, Command(sent))
  <2>1. /\ Append(Unread, Command(sent)) \in Seq(Commands)
        /\ Len(Append(Unread, Command(sent))) = sent + 1 - pushed
    BY <1>2, UnreadIsSeq, Counts, AppendProperties
  <2>2. \A i \in 1 .. sent + 1 - pushed :
            Append(Unread, Command(sent))[i] = Command(pushed + i - 1)
    <3> SUFFICES ASSUME NEW i \in 1 .. sent + 1 - pushed
                 PROVE  Append(Unread, Command(sent))[i] = Command(pushed + i - 1)
      OBVIOUS
    <3>1. CASE i = Len(Unread) + 1
      <4>1. pushed + i - 1 = sent
        BY <3>1, UnreadIsSeq, Counts
      <4> QED
        BY <1>2, <3>1, <4>1, UnreadIsSeq, AppendProperties
    <3>2. CASE i # Len(Unread) + 1
      <4>1. i \in 1 .. sent - pushed
        BY <3>2, UnreadIsSeq, Counts
      <4>2. Append(Unread, Command(sent))[i] = Unread[i]
        BY <1>2, <4>1, UnreadIsSeq, AppendProperties
      <4> QED
        BY <4>1, <4>2, UnreadIsSeq
    <3> QED
      BY <3>1, <3>2
  <2> QED
    BY <1>3, <2>1, <2>2, SeqEqual
<1>5. pending' = pending /\ pulled' = pulled
  BY DEF ringVars
<1> QED
  BY <1>2, <1>4, <1>5, UnreadIsSeq, AppendLast DEF Queue

(* A push only moves the first command not yet read over into the buffer.   *)
LEMMA PushKeeps ==
  ASSUME TInv, TInv', ProducerPush
  PROVE  UNCHANGED <<Queue, pulled>>
<1>1. /\ pending' = Append(pending, Command(pushed)) /\ pulled' = pulled
      /\ pushed' = pushed + 1 /\ sent' = sent /\ pushed < sent
  BY PushStores DEF Ring!PushStored, ProducerPush, Push, connVars
<1>2. Unread # <<>> /\ Unread[1] = Command(pushed)
  BY <1>1, UnreadIsSeq, Counts, EmptySeq
<1>3. Unread' = Tail(Unread)
  <2>1. Unread' = CommandsFrom(pushed + 1, sent)
    BY <1>1 DEF Unread, CommandsFrom, Command
  <2>2. /\ pushed \in Nat /\ sent \in Nat /\ pushed + 1 \in Nat
        /\ pushed + 1 <= sent /\ sent <= MaxSent
        /\ sent - (pushed + 1) = sent - pushed - 1
    BY <1>1, Counts
  <2>3. /\ Unread' \in Seq(Commands) /\ Len(Unread') = sent - pushed - 1
        /\ \A i \in 1 .. sent - pushed - 1 : Unread'[i] = Command(pushed + 1 + i - 1)
    <3>1. /\ CommandsFrom(pushed + 1, sent) \in Seq(Commands)
          /\ Len(CommandsFrom(pushed + 1, sent)) = sent - (pushed + 1)
          /\ \A i \in 1 .. sent - (pushed + 1) :
                CommandsFrom(pushed + 1, sent)[i] = Command(pushed + 1 + i - 1)
      BY ONLY <2>2, CommandsFromIsSeq
    <3> QED
      BY ONLY <2>1, <2>2, <3>1
  <2>4. ASSUME NEW i \in 1 .. sent - pushed - 1
        PROVE  Unread'[i] = Unread[i + 1]
    <3>1. pushed + 1 + i - 1 = pushed + i /\ pushed + (i + 1) - 1 = pushed + i
          /\ i + 1 \in 1 .. sent - pushed
      BY ONLY <2>2, i \in 1 .. sent - pushed - 1
    <3>2. Unread[i + 1] = Command(pushed + (i + 1) - 1)
      BY <3>1, UnreadIsSeq
    <3> QED
      BY <2>3, <3>1, <3>2
  <2>5. /\ Tail(Unread) \in Seq(Commands) /\ Len(Tail(Unread)) = sent - pushed - 1
        /\ \A i \in 1 .. sent - pushed - 1 : Tail(Unread)[i] = Unread[i + 1]
    BY <1>2, UnreadIsSeq, Counts, HeadTailProperties
  <2> QED
    BY <2>3, <2>4, <2>5, SeqEqual
<1> QED
  BY <1>1, <1>2, <1>3, UnreadIsSeq, MoveFirst DEF Queue

LEMMA PullGets ==
  ASSUME TInv, Ring!PullTaken, UNCHANGED readVars
  PROVE  Queue # <<>> /\ pulled' = Head(Queue) /\ Queue' = Tail(Queue)
<1>1. pending # <<>> /\ pending' = Tail(pending) /\ pulled' = Head(pending)
  BY RingPull DEF TInv
<1>2. Unread' = Unread
  BY DEF Unread, Command, readVars, connVars
<1> QED
  BY <1>1, <1>2, UnreadIsSeq, DropFirst DEF Queue

LEMMA QuietKeeps ==
  ASSUME TInv, Quiet, UNCHANGED <<ringVars, pushed>>, ~ SendCommand
  PROVE  UNCHANGED <<Queue, pulled>>
<1>1. UNCHANGED sent
  BY DEF Quiet, ProducerTest, ProducerFull, ProducerReads, ProducerReading,
         ProducerUnlock, ProducerLock, ConsumerLock, DisplayTest, DisplayWrite,
         DisplayWrites, Pc, Interrupt,
         Network, Arrive, Fin, Rst, OtherWrites, OtherIsStuck, read_data, Reading,
         Fread, FreadFetches, FreadStuck,
         FreadCopies, FreadEnds, FreadReset, FreadFails, readVars, connVars
<1> QED
  BY <1>1 DEF Queue, Unread, Command, ringVars

LEMMA StepPipeline ==
  ASSUME Ring!SafeGeometry, InterruptsAt \subseteq {0}, TInv, TInv', [Next]_vars
  PROVE  [Pipeline!QNext]_(Pipeline!qvars)
<1>1. Queue = [i \in 1 .. Len(pending) |-> Ring!ItemAt(Ring!Slot(i))] \o Unread
  BY QueueIs DEF Queue
<1>2. Queue' = ([i \in 1 .. Len(pending) |-> Ring!ItemAt(Ring!Slot(i))] \o Unread)'
  <2>1. (TInv => [i \in 1 .. Len(pending) |-> Ring!ItemAt(Ring!Slot(i))] \o Unread
                    = pending \o Unread)'
    BY QueueIs, PTL
  <2> QED
    BY <2>1 DEF Queue
<1>3. ASSUME UNCHANGED <<Queue, pulled>> PROVE UNCHANGED Pipeline!qvars
  BY <1>1, <1>2, <1>3 DEF Pipeline!qvars
<1>4. CASE UNCHANGED vars
  BY <1>3, <1>4 DEF vars, readVars, connVars, ringVars, Queue, Unread, Command
<1>5. CASE Quiet
  <2>1. UNCHANGED <<ringVars, pushed>>
    BY <1>5, QuietTInv DEF TInv
  <2>2. CASE SendCommand
    <3>1. \E item \in Commands : Pipeline!Put(item)
      BY <1>1, <1>2, <2>1, <2>2, SendPuts DEF Pipeline!Put
    <3> QED
      BY <3>1 DEF Pipeline!QNext
  <2>3. CASE ~ SendCommand
    BY <1>3, <1>5, <2>1, <2>3, QuietKeeps
  <2> QED
    BY <2>2, <2>3
<1>6. CASE ProducerPush
  BY <1>3, <1>6, PushKeeps
<1>7. CASE ConsumerTurn
  <2>1. CASE UNCHANGED ringVars
    BY <1>3, <1>7, <2>1 DEF ConsumerTurn, readVars, connVars, ringVars, Queue, Unread, Command
  <2>2. CASE Ring!PullTaken
    <3>1. Pipeline!Get
      BY <1>1, <1>2, <1>7, <2>2, PullGets DEF ConsumerTurn, Pipeline!Get
    <3> QED
      BY <3>1 DEF Pipeline!QNext
  <2> QED
    BY <1>7, <2>1, <2>2 DEF ConsumerTurn
<1> QED
  BY <1>4, <1>5, <1>6, <1>7 DEF Next, Threads, Producer, Quiet

(* From the PC's writes to the consumer's pulls the three threads are one   *)
(* first-in first-out queue of whole commands.                              *)
THEOREM ImplementsPipeline ==
  ASSUME Ring!SafeGeometry, InterruptsAt \subseteq {0}
  PROVE  Spec => PipelineSpec
<1>1. Init => Pipeline!QInit
  <2> SUFFICES ASSUME Init PROVE Pipeline!QInit
    OBVIOUS
  <2>1. pending = <<>> /\ pulled = NoItem /\ sent = 0 /\ pushed = 0
    BY DEF Init, ReadInit, Ring!Init
  <2>2. Unread = <<>>
    BY <2>1, InitTInv, UnreadIsSeq, Counts, EmptySeq
  <2>3. pending \o Unread = <<>>
    BY <2>1, <2>2, EmptySeq, ConcatEmptySeq
  <2> QED
    BY <2>1, <2>3, InitTInv, QueueIs DEF Pipeline!QInit
<1>2. TInv /\ TInv' /\ [Next]_vars => [Pipeline!QNext]_(Pipeline!qvars)
  BY StepPipeline
<1> QED
  BY <1>1, <1>2, TInvariance, PTL DEF Spec, PipelineSpec, Pipeline!QSpec

(* In the program's own geometry, 32-byte commands in 280 bytes counted     *)
(* byte by byte, the threads are that queue for the first eight commands,   *)
(* however they are sent.  Run threads_ninth shows what happens to the      *)
(* ninth.                                                                   *)
THEOREM FirstEightAreWhole ==
  ASSUME CLIENT_BUFF_SIZE = 32, MAX_SIZE = 280, MaxSent <= 8, InterruptsAt \subseteq {0}
  PROVE  Spec => PipelineSpec
<1>1. Ring!SafeGeometry
  BY MaxSentAssumption DEF Ring!SafeGeometry
<1> QED
  BY <1>1, ImplementsPipeline
=============================================================================
