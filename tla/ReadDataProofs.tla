--------------------------- MODULE ReadDataProofs ---------------------------
(***************************************************************************)
(* read_data for commands of any size and any number of them, as long as a *)
(* read is interrupted only between commands (InterruptsAt): what it       *)
(* pushes is the next command of the stream.                               *)
(*                                                                         *)
(* The invariant counts the cells: what was consumed is the commands       *)
(* pushed and the part in buffer.  A stream that has ended and a FILE that *)
(* is stuck are the exceptions - read_data forgets the part it had, the    *)
(* count is lost, and nothing will ever be read again.                     *)
(***************************************************************************)
EXTENDS ReadData, TLAPS

(* Nothing more will be read. *)
NoMore == stuck \/ (tcp # "ESTABLISHED" /\ consumed = arrived)

Looping ==
    /\ reader = "while" => total_len > 0
    /\ reader = "fread" => rtn_len < total_len
    /\ reader \in {"while", "fread"} => NoMore \/ total_len = CLIENT_BUFF_SIZE

Counted ==
    /\ reader \in {"idle", "while"} =>
          NoMore \/ consumed = pushed * CLIENT_BUFF_SIZE
    /\ reader = "fread" =>
          NoMore \/ /\ consumed = pushed * CLIENT_BUFF_SIZE + rtn_len
                    /\ \A k \in Index : k < rtn_len => buffer[k] = <<pushed, k>>
    /\ reader = "push" =>
          /\ consumed = pushed * CLIENT_BUFF_SIZE + CLIENT_BUFF_SIZE
          /\ \A k \in Index : buffer[k] = <<pushed, k>>

IInv == ReadTypeOK /\ Looping /\ Counted

-----------------------------------------------------------------------------
(* Arithmetic of cells and commands. *)
LEMMA Cancel ==
  ASSUME NEW m \in Nat, NEW n \in Nat, NEW s \in Nat \ {0}, m * s < n * s
  PROVE  m < n
<1> SUFFICES ASSUME n <= m PROVE FALSE
  OBVIOUS
<1>1. PICK d \in Nat : m = n + d
  BY SMT
<1>2. m * s = n * s + d * s
  BY <1>1, SMT
<1>3. d * s >= 0
  BY SMT
<1> QED
  BY <1>2, <1>3, SMT

LEMMA CellOf ==
  ASSUME NEW p \in Nat, NEW r \in Index
  PROVE  Sent(p * CLIENT_BUFF_SIZE + r) = <<p, r>>
<1>1. r \in Nat /\ r < CLIENT_BUFF_SIZE /\ CLIENT_BUFF_SIZE \in Nat \ {0}
  BY SizeAssumption DEF Index
<1>2. (p * CLIENT_BUFF_SIZE + r) % CLIENT_BUFF_SIZE = r
  BY <1>1, SMTT(30)
<1>3. (p * CLIENT_BUFF_SIZE + r) \div CLIENT_BUFF_SIZE = p
  BY <1>1, SMTT(30)
<1> QED
  BY <1>2, <1>3 DEF Sent

(* A command that has begun to be read is one of those sent. *)
LEMMA Begun ==
  ASSUME IInv, reader = "fread", ~ stuck, consumed < fetched
  PROVE  /\ pushed < sent /\ pushed \in 0 .. MaxSent - 1
         /\ rtn_len \in Index
         /\ total_len = CLIENT_BUFF_SIZE
         /\ consumed = pushed * CLIENT_BUFF_SIZE + rtn_len
         /\ \A k \in Index : k < rtn_len => buffer[k] = <<pushed, k>>
<1>1. /\ sent \in Nat /\ sent <= MaxSent /\ pushed \in Nat /\ rtn_len \in Nat
      /\ CLIENT_BUFF_SIZE \in Nat \ {0} /\ MaxSent \in Nat
      /\ consumed \in Nat /\ arrived \in Nat /\ consumed < arrived
      /\ total_len \in Nat /\ total_len <= CLIENT_BUFF_SIZE
      /\ arrived <= sent * CLIENT_BUFF_SIZE
  BY SizeAssumption, MaxSentAssumption DEF IInv, ReadTypeOK
<1>2. /\ total_len = CLIENT_BUFF_SIZE /\ rtn_len < total_len
      /\ consumed = pushed * CLIENT_BUFF_SIZE + rtn_len
      /\ \A k \in Index : k < rtn_len => buffer[k] = <<pushed, k>>
  BY <1>1 DEF IInv, Looping, Counted, NoMore
<1>3. pushed * CLIENT_BUFF_SIZE \in Nat /\ sent * CLIENT_BUFF_SIZE \in Nat
  BY <1>1
<1>4. pushed * CLIENT_BUFF_SIZE < sent * CLIENT_BUFF_SIZE
  BY <1>1, <1>2, <1>3
<1>5. pushed < sent
  BY <1>1, <1>4, Cancel
<1> QED
  BY <1>1, <1>2, <1>5 DEF Index

-----------------------------------------------------------------------------
LEMMA InitInv == ReadInit => IInv
<1> SUFFICES ASSUME ReadInit PROVE IInv
  OBVIOUS
<1> USE SizeAssumption, MaxSentAssumption DEF ReadInit
<1>1. 0 * CLIENT_BUFF_SIZE = 0
  OBVIOUS
<1>2. buffer \in [Index -> Cell]
  BY DEF Cell
<1>3. ReadTypeOK
  <2>1. /\ arrived \in 0 .. sent * CLIENT_BUFF_SIZE
        /\ fetched \in 0 .. arrived /\ consumed \in 0 .. fetched
    BY <1>1
  <2>2. pushed \in 0 .. sent /\ sent \in 0 .. MaxSent
    OBVIOUS
  <2>3. total_len \in 0 .. CLIENT_BUFF_SIZE /\ rtn_len \in 0 .. CLIENT_BUFF_SIZE
    OBVIOUS
  <2>4. /\ tcp \in {"ESTABLISHED", "CLOSE_WAIT", "CLOSE"} /\ reset \in BOOLEAN
        /\ reader \in {"idle", "while", "fread", "push", "exit"}
        /\ ferror \in BOOLEAN /\ errno \in {"0", "ESPIPE"} \cup Transient
        /\ stuck \in BOOLEAN
    OBVIOUS
  <2> QED
    BY ONLY <1>2, <2>1, <2>2, <2>3, <2>4 DEF ReadTypeOK
<1>4. Looping /\ Counted
  BY <1>1 DEF Looping, Counted
<1> QED
  BY <1>3, <1>4 DEF IInv

(* The network only moves arrived on, and only while the connection stands. *)
LEMMA NetworkInv == IInv /\ Network => IInv'
<1> SUFFICES ASSUME IInv, Network PROVE IInv'
  OBVIOUS
<1> USE SizeAssumption, MaxSentAssumption DEF IInv, fileVars, loopVars
<1>1. CASE SendCommand
  <2>1. sent * CLIENT_BUFF_SIZE <= (sent + 1) * CLIENT_BUFF_SIZE
        /\ (sent + 1) * CLIENT_BUFF_SIZE \in Nat /\ sent * CLIENT_BUFF_SIZE \in Nat
    BY DEF ReadTypeOK
  <2>2. ReadTypeOK'
    BY <1>1, <2>1 DEF SendCommand, ReadTypeOK
  <2> QED
    BY <1>1, <2>2 DEF SendCommand, Looping, Counted, NoMore
<1>2. CASE Arrive
  BY <1>2 DEF Arrive, ReadTypeOK, Looping, Counted, NoMore
<1>3. CASE Fin
  BY <1>3 DEF Fin, ReadTypeOK, Looping, Counted, NoMore
<1>4. CASE Rst
  BY <1>4 DEF Rst, ReadTypeOK, Looping, Counted, NoMore
<1> QED
  BY <1>1, <1>2, <1>3, <1>4 DEF Network

LEMMA OtherInv == IInv /\ (OtherWrites \/ OtherIsStuck) => IInv'
<1> USE DEF IInv, connVars, fileVars, loopVars, ReadTypeOK, Looping, Counted, NoMore
<1>1. IInv /\ OtherWrites => IInv'
  BY DEF OtherWrites
<1>2. IInv /\ OtherIsStuck => IInv'
  BY DEF OtherIsStuck
<1> QED
  BY <1>1, <1>2

LEMMA CallInv == IInv /\ read_data => IInv'
<1> SUFFICES ASSUME IInv, read_data PROVE IInv'
  OBVIOUS
<1> USE SizeAssumption DEF IInv, read_data, connVars, fileVars
<1>1. ReadTypeOK'
  BY DEF ReadTypeOK, Cell
<1> QED
  BY <1>1 DEF Looping, Counted, NoMore

LEMMA FreadInv == IInv /\ Fread => IInv'
<1> SUFFICES ASSUME IInv, Fread PROVE IInv'
  OBVIOUS
<1> USE SizeAssumption DEF IInv, Fread, connVars, fileVars
<1>1. ReadTypeOK'
  BY DEF ReadTypeOK
<1>2. Looping'
  BY DEF Looping, NoMore
<1>3. Counted'
  <2>1. \A k \in Index : ~ (k < 0)
    BY DEF Index
  <2>2. pushed * CLIENT_BUFF_SIZE + 0 = pushed * CLIENT_BUFF_SIZE
    BY DEF ReadTypeOK
  <2> QED
    BY <2>1, <2>2 DEF Counted, NoMore
<1> QED
  BY <1>1, <1>2, <1>3

LEMMA FetchInv == IInv /\ FreadFetches => IInv'
  BY DEF IInv, FreadFetches, connVars, loopVars, ReadTypeOK, Looping, Counted, NoMore

LEMMA CopyInv == IInv /\ FreadCopies => IInv'
<1> SUFFICES ASSUME IInv, FreadCopies PROVE IInv'
  OBVIOUS
<1>1. /\ pushed < sent /\ pushed \in 0 .. MaxSent - 1
      /\ rtn_len \in Index
      /\ total_len = CLIENT_BUFF_SIZE
      /\ consumed = pushed * CLIENT_BUFF_SIZE + rtn_len
      /\ \A k \in Index : k < rtn_len => buffer[k] = <<pushed, k>>
  BY Begun DEF FreadCopies
<1>2. Sent(consumed) = <<pushed, rtn_len>>
  BY <1>1, CellOf, MaxSentAssumption
<1>3. buffer' = [buffer EXCEPT ![rtn_len] = <<pushed, rtn_len>>]
  BY <1>2 DEF FreadCopies
<1>4. buffer' \in [Index -> Cell]
  BY <1>1, <1>3 DEF IInv, ReadTypeOK, Cell
<1>5. \A k \in Index : k < rtn_len + 1 => buffer'[k] = <<pushed, k>>
  BY <1>1, <1>3 DEF IInv, ReadTypeOK, Index
<1> USE SizeAssumption, MaxSentAssumption DEF IInv, FreadCopies, connVars
<1>6. ReadTypeOK'
  BY <1>1, <1>4 DEF ReadTypeOK, Index
<1>7. Looping'
  BY <1>1 DEF Looping, Index, ReadTypeOK
<1>8. pushed * CLIENT_BUFF_SIZE \in Nat
  BY DEF ReadTypeOK
<1>9. CASE rtn_len + 1 = total_len
  <2>1. reader' = "push" /\ consumed' = pushed' * CLIENT_BUFF_SIZE + CLIENT_BUFF_SIZE
    BY <1>1, <1>8, <1>9 DEF Index
  <2>2. \A k \in Index : buffer'[k] = <<pushed', k>>
    BY <1>1, <1>5, <1>9 DEF Index
  <2> QED
    BY <1>6, <1>7, <2>1, <2>2 DEF Counted
<1>10. CASE rtn_len + 1 # total_len
  <2>1. reader' = "fread" /\ consumed' = pushed' * CLIENT_BUFF_SIZE + rtn_len'
    BY <1>1, <1>8, <1>10 DEF Index
  <2> QED
    BY <1>5, <1>6, <1>7, <2>1 DEF Counted
<1> QED
  BY <1>9, <1>10

(* At the end of the file nothing more will be read, whatever the loop does. *)
LEMMA EndInv == IInv /\ (FreadEnds \/ FreadReset) => IInv'
<1> USE SizeAssumption DEF IInv, connVars, fileVars
<1>1. ASSUME IInv, FreadEnds PROVE IInv'
  <2>1. NoMore'
    BY <1>1 DEF FreadEnds, NoMore
  <2>2. ReadTypeOK' /\ Looping'
    BY <1>1, <2>1 DEF FreadEnds, CarryOn, GiveUp, ReadTypeOK, Looping
  <2> QED
    BY <1>1, <2>1, <2>2 DEF FreadEnds, CarryOn, GiveUp, Counted
<1>2. ASSUME IInv, FreadReset PROVE IInv'
  BY <1>2 DEF FreadReset, ReadTypeOK, Looping, Counted
<1> QED
  BY <1>1, <1>2

(* Nor through a FILE that is stuck. *)
LEMMA StuckInv == IInv /\ FreadStuck => IInv'
<1> SUFFICES ASSUME IInv, FreadStuck PROVE IInv'
  OBVIOUS
<1> USE SizeAssumption DEF IInv, FreadStuck, GiveUp, connVars
<1>1. NoMore'
  BY DEF NoMore
<1>2. ReadTypeOK'
  BY DEF ReadTypeOK
<1> QED
  BY <1>1, <1>2 DEF Looping, Counted

(* An interrupt between two commands costs nothing. *)
LEMMA FailInv ==
  ASSUME InterruptsAt \subseteq {0}, IInv, NEW e \in Transient, FreadFails(e)
  PROVE  IInv'
<1> USE SizeAssumption DEF IInv, FreadFails, connVars
<1>1. rtn_len = 0 /\ rtn_len' = 0 /\ total_len' = total_len
  BY DEF CarryOn, GiveUp, ReadTypeOK
<1>2. ReadTypeOK'
  BY <1>1 DEF CarryOn, GiveUp, ReadTypeOK
<1>3. Looping'
  BY <1>1 DEF CarryOn, GiveUp, Looping, NoMore
<1>4. NoMore \/ consumed = pushed * CLIENT_BUFF_SIZE
  BY <1>1 DEF Counted, ReadTypeOK
<1> QED
  BY <1>2, <1>3, <1>4 DEF CarryOn, GiveUp, Counted, NoMore

LEMMA PushInv == IInv /\ Push => IInv'
<1> SUFFICES ASSUME IInv, Push PROVE IInv'
  OBVIOUS
<1> USE SizeAssumption, MaxSentAssumption DEF IInv, Push, connVars, fileVars
<1>1. consumed = (pushed + 1) * CLIENT_BUFF_SIZE
  BY DEF Counted, ReadTypeOK
<1>2. pushed + 1 <= sent
  <2>1. (pushed + 1) * CLIENT_BUFF_SIZE <= sent * CLIENT_BUFF_SIZE
    BY <1>1 DEF ReadTypeOK
  <2>2. sent * CLIENT_BUFF_SIZE < (sent + 1) * CLIENT_BUFF_SIZE
    BY DEF ReadTypeOK
  <2>3. (pushed + 1) * CLIENT_BUFF_SIZE < (sent + 1) * CLIENT_BUFF_SIZE
    BY <2>1, <2>2 DEF ReadTypeOK
  <2>4. pushed + 1 \in Nat /\ sent + 1 \in Nat
    BY DEF ReadTypeOK
  <2>5. pushed + 1 < sent + 1
    BY <2>3, <2>4, Cancel
  <2> QED
    BY <2>5 DEF ReadTypeOK
<1>3. ReadTypeOK'
  BY <1>2 DEF ReadTypeOK
<1> QED
  BY <1>1, <1>3 DEF Looping, Counted

LEMMA StepInv ==
  ASSUME InterruptsAt \subseteq {0}, IInv, [ReadNext]_readVars
  PROVE  IInv'
<1>1. CASE UNCHANGED readVars
  BY <1>1 DEF readVars, connVars, fileVars, loopVars, IInv, ReadTypeOK, Looping, Counted, NoMore
<1> QED
  BY <1>1, NetworkInv, OtherInv, CallInv, FreadInv, FetchInv, CopyInv, EndInv, StuckInv,
     FailInv, PushInv
  DEF ReadNext, Reading

-----------------------------------------------------------------------------
THEOREM Invariance ==
  ASSUME InterruptsAt \subseteq {0}
  PROVE  ReadSpec => []IInv
<1>1. IInv /\ [ReadNext]_readVars => IInv'
  BY StepInv
<1> QED
  BY InitInv, <1>1, PTL DEF ReadSpec

(* What is pushed is the next command, whole: the counts say where the      *)
(* buffer stands in the stream, and a part forgotten at the end of the      *)
(* stream is the last of it.                                                *)
THEOREM ReadPushesNextCommand ==
  ASSUME InterruptsAt \subseteq {0}
  PROVE  ReadSpec => []PushesNextCommand
<1>1. IInv => PushesNextCommand
  BY DEF IInv, ReadTypeOK, Counted, PushesNextCommand, Command
<1> QED
  BY <1>1, Invariance, PTL
=============================================================================
