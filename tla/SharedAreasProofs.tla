-------------------------- MODULE SharedAreasProofs --------------------------
(***************************************************************************)
(* For areas of any size, any values and any items: what SharedAreas       *)
(* states of its three areas. The inductive invariant says where in its    *)
(* turn each side may be (the valid word keeps them apart) and how far the *)
(* words already stored or copied agree with their source.                 *)
(***************************************************************************)
EXTENDS SharedAreas, TLAPS

(* Writer and reader take turns by the valid word, where there is one. *)
Turns ==
    /\ area = "service_info" => writer # "publish"
    /\ area # "service_info" =>
          /\ writer # "idle" => valid = 0
          /\ reader \in {"copy", "done"} => valid # 0

(* What has been stored so far is the item's. *)
StoredSoFar ==
    writer # "idle" =>
        /\ item \in Items[area]
        /\ \A w \in stored : memory[w] = item[w]
        /\ writer = "publish" => stored = Words

(* What is published is an item. *)
PublishedWhole == valid # 0 => memory \in Items[area]

(* What has been copied so far is the memory's. *)
CopiedSoFar ==
    /\ reader = "done" => copied = Words
    /\ area # "service_info" /\ reader \in {"copy", "done"} =>
          \A w \in copied : frame[w] = memory[w]

(* A frame that is ready for the PC. *)
FrameWhole ==
    /\ reader = "send" => area = "monitor_info" /\ frame \in Items[area] \cup {Blank}
    /\ NoTornFrame

(* The commands, and the area before the first. *)
Told == Items["service_info"] \cup {Blank}

CommandsWhole ==
    area = "service_info" => memory \in Told /\ frame \in Told /\ NoTornCommand

IInv ==
    /\ TypeOK
    /\ Turns
    /\ StoredSoFar
    /\ PublishedWhole
    /\ CopiedSoFar
    /\ FrameWhole
    /\ CommandsWhole

-----------------------------------------------------------------------------
(* The cleared structure is one of the contents, and a command's structure  *)
(* is the command: its parameters are 0.                                    *)
LEMMA BlankContents == Blank \in Contents
  BY ValueAssumption DEF Blank, Contents

LEMMA CallIsCommand ==
  ASSUME NEW c \in Items["service_info"]
  PROVE  Call(c) = c
<1>1. c \in Contents
  BY ItemsAssumption DEF Areas
<1>2. \A w \in Words : Call(c)[w] = c[w]
  BY <1>1, CommandAssumption, LastAssumption DEF Call, Blank, Contents, Words
<1> QED
  BY <1>1, <1>2 DEF Call, Blank, Contents

(* A word of one command put into another gives one of the two.             *)
LEMMA OneWord ==
  ASSUME NEW f \in Told, NEW g \in Told, NEW w \in Words
  PROVE  [f EXCEPT ![w] = g[w]] \in Told
<1>1. f \in Contents /\ g \in Contents
  BY ItemsAssumption, BlankContents DEF Told, Areas
<1>2. \A u \in Words \ {0} : f[u] = 0 /\ g[u] = 0
  BY CommandAssumption DEF Told, Blank
<1>3. CASE w = 0
  <2>1. \A u \in Words : [f EXCEPT ![w] = g[w]][u] = g[u]
    BY <1>1, <1>2, <1>3 DEF Contents
  <2>2. [f EXCEPT ![w] = g[w]] = g
    BY <1>1, <2>1 DEF Contents
  <2> QED
    BY <2>2
<1>4. CASE w # 0
  <2>1. [f EXCEPT ![w] = g[w]] = f
    BY <1>1, <1>2, <1>4 DEF Contents
  <2> QED
    BY <2>1
<1> QED
  BY <1>3, <1>4

LEMMA FullIsSet == \A a \in Areas : Full(a) \in Int /\ Full(a) # 0
  BY DEF Full

LEMMA SameContents ==
  ASSUME NEW f \in Contents, NEW g \in Contents, \A w \in Words : f[w] = g[w]
  PROVE  f = g
  BY DEF Contents

LEMMA ItemsAreContents == \A a \in Areas : Items[a] \subseteq Contents
  BY ItemsAssumption

-----------------------------------------------------------------------------
LEMMA InitInv == Init => IInv
<1> SUFFICES ASSUME Init PROVE IInv
  OBVIOUS
<1> USE DEF Init
<1>1. TypeOK
  BY BlankContents, ItemsAreContents, FullIsSet
  DEF TypeOK, LeftIn, Areas
<1>2. Turns /\ StoredSoFar /\ CopiedSoFar
  BY DEF Turns, StoredSoFar, CopiedSoFar
<1>3. PublishedWhole
  BY DEF PublishedWhole
<1>4. FrameWhole
  BY DEF FrameWhole, NoTornFrame
<1>5. CommandsWhole
  BY DEF CommandsWhole, NoTornCommand, Told, LeftIn
<1> QED
  BY <1>1, <1>2, <1>3, <1>4, <1>5 DEF IInv

(* A writer that starts: valid is clear, or is no matter. *)
LEMMA StartInv ==
  ASSUME IInv, NEW v \in Items[area], StartsWriting(v),
         area # "service_info" => valid = 0
  PROVE  IInv'
<1> USE DEF IInv, StartsWriting, readerVars
<1>1. TypeOK'
  BY DEF TypeOK
<1>2. Turns'
  BY DEF Turns
<1>3. StoredSoFar'
  BY DEF StoredSoFar
<1>4. PublishedWhole' /\ CopiedSoFar'
  BY DEF PublishedWhole, CopiedSoFar
<1>5. FrameWhole' /\ CommandsWhole'
  BY DEF FrameWhole, NoTornFrame, CommandsWhole, NoTornCommand
<1> QED
  BY <1>1, <1>2, <1>3, <1>4, <1>5

LEMMA StoreInv ==
  ASSUME IInv, NEW w \in Words, StoreWord(w)
  PROVE  IInv'
<1> USE DEF IInv, StoreWord, readerVars
<1>1. item \in Contents /\ area \in Areas
  BY BlankContents, ItemsAreContents DEF TypeOK
<1>2. memory' \in Contents
  BY <1>1 DEF TypeOK, Contents
<1>3. TypeOK'
  BY <1>2 DEF TypeOK
<1>4. Turns'
  BY DEF Turns, TypeOK
<1>5. StoredSoFar'
  BY <1>1 DEF StoredSoFar, TypeOK, Contents, Written
<1>6. PublishedWhole'
  BY DEF PublishedWhole, Turns, TypeOK
<1>7. CopiedSoFar'
  BY DEF CopiedSoFar, Turns, TypeOK
<1>8. FrameWhole'
  BY DEF FrameWhole, NoTornFrame
<1>9. CommandsWhole'
  BY OneWord DEF CommandsWhole, NoTornCommand, StoredSoFar, Told
<1> QED
  BY <1>3, <1>4, <1>5, <1>6, <1>7, <1>8, <1>9

LEMMA PublishInv == IInv /\ Publish => IInv'
<1> SUFFICES ASSUME IInv, Publish PROVE IInv'
  OBVIOUS
<1> USE DEF IInv, Publish, readerVars
<1>1. area # "service_info" /\ area \in Areas /\ valid = 0
  BY DEF Turns, TypeOK
<1>2. memory = item
  BY <1>1, ItemsAreContents, SameContents DEF StoredSoFar, TypeOK
<1>3. TypeOK'
  BY <1>1 DEF TypeOK
<1>4. Turns' /\ CopiedSoFar'
  BY <1>1 DEF Turns, CopiedSoFar
<1>5. StoredSoFar' /\ PublishedWhole'
  BY <1>2 DEF StoredSoFar, PublishedWhole
<1>6. FrameWhole' /\ CommandsWhole'
  BY <1>1 DEF FrameWhole, NoTornFrame, CommandsWhole, NoTornCommand
<1> QED
  BY <1>3, <1>4, <1>5, <1>6

LEMMA DisplayInv == IInv /\ controller_display_res => IInv'
<1> SUFFICES ASSUME IInv, controller_display_res PROVE IInv'
  OBVIOUS
<1> USE DEF IInv, controller_display_res, writerVars
<1>1. TypeOK'
  BY BlankContents DEF TypeOK
<1>2. Turns' /\ CopiedSoFar'
  BY DEF Turns, CopiedSoFar
<1>3. StoredSoFar' /\ PublishedWhole'
  BY DEF StoredSoFar, PublishedWhole
<1>4. FrameWhole' /\ CommandsWhole'
  BY DEF FrameWhole, NoTornFrame, CommandsWhole, NoTornCommand
<1> QED
  BY <1>1, <1>2, <1>3, <1>4

(* A reader that starts: valid is set, or there is none. *)
LEMMA StartReadInv ==
  ASSUME IInv, StartsReading, area # "monitor_info",
         area # "service_info" => valid # 0
  PROVE  IInv'
<1> USE DEF IInv, StartsReading, writerVars
<1>1. TypeOK'
  BY DEF TypeOK
<1>2. Turns' /\ CopiedSoFar'
  BY DEF Turns, CopiedSoFar
<1>3. StoredSoFar' /\ PublishedWhole'
  BY DEF StoredSoFar, PublishedWhole
<1>4. FrameWhole' /\ CommandsWhole'
  BY DEF FrameWhole, NoTornFrame, CommandsWhole, NoTornCommand
<1> QED
  BY <1>1, <1>2, <1>3, <1>4

LEMMA LoadInv ==
  ASSUME IInv, NEW w \in Words, LoadWord(w)
  PROVE  IInv'
<1> USE DEF IInv, LoadWord, writerVars
<1>1. frame' \in Contents
  BY DEF TypeOK, Contents
<1>2. TypeOK'
  BY <1>1 DEF TypeOK
<1>3. Turns'
  BY DEF Turns
<1>4. CopiedSoFar'
  BY DEF CopiedSoFar, TypeOK, Contents
<1>5. StoredSoFar' /\ PublishedWhole'
  BY DEF StoredSoFar, PublishedWhole
<1>6. FrameWhole'
  BY DEF FrameWhole, NoTornFrame
<1>7. CommandsWhole'
  BY OneWord DEF CommandsWhole, NoTornCommand
<1> QED
  BY <1>2, <1>3, <1>4, <1>5, <1>6, <1>7

(* What a reader has when it is done is what its writer published. *)
LEMMA CopyIsWhole ==
  ASSUME IInv, reader = "done", area # "service_info"
  PROVE  valid # 0 /\ frame = memory /\ frame \in Items[area]
<1>1. valid # 0 /\ copied = Words
  BY DEF IInv, Turns, CopiedSoFar
<1>2. frame = memory
  BY <1>1, SameContents DEF IInv, CopiedSoFar, TypeOK
<1> QED
  BY <1>1, <1>2 DEF IInv, PublishedWhole

LEMMA ClearInv == IInv /\ ClearValid => IInv'
<1> SUFFICES ASSUME IInv, ClearValid PROVE IInv'
  OBVIOUS
<1>1. valid # 0 /\ frame \in Items[area]
  BY CopyIsWhole DEF ClearValid
<1> USE DEF IInv, ClearValid, writerVars
<1>2. TypeOK'
  BY DEF TypeOK
<1>3. Turns' /\ CopiedSoFar'
  BY <1>1 DEF Turns, CopiedSoFar
<1>4. StoredSoFar' /\ PublishedWhole'
  BY DEF StoredSoFar, PublishedWhole
<1>5. FrameWhole' /\ CommandsWhole'
  BY <1>1 DEF FrameWhole, NoTornFrame, CommandsWhole
<1> QED
  BY <1>2, <1>3, <1>4, <1>5

LEMMA ToldInv == IInv /\ CoreIsTold => IInv'
<1> SUFFICES ASSUME IInv, CoreIsTold PROVE IInv'
  OBVIOUS
<1> USE DEF IInv, CoreIsTold, writerVars
<1>1. TypeOK'
  BY DEF TypeOK
<1>2. Turns' /\ CopiedSoFar'
  BY DEF Turns, CopiedSoFar
<1>3. StoredSoFar' /\ PublishedWhole'
  BY DEF StoredSoFar, PublishedWhole
<1>4. FrameWhole' /\ CommandsWhole'
  BY DEF FrameWhole, NoTornFrame, CommandsWhole, NoTornCommand, Told
<1> QED
  BY <1>1, <1>2, <1>3, <1>4

LEMMA SendInv == IInv /\ network_set => IInv'
<1> SUFFICES ASSUME IInv, network_set PROVE IInv'
  OBVIOUS
<1> USE DEF IInv, network_set, writerVars
<1>1. TypeOK'
  BY DEF TypeOK
<1>2. Turns' /\ CopiedSoFar'
  BY DEF Turns, CopiedSoFar
<1>3. StoredSoFar' /\ PublishedWhole'
  BY DEF StoredSoFar, PublishedWhole
<1>4. FrameWhole' /\ CommandsWhole'
  BY DEF FrameWhole, NoTornFrame, CommandsWhole
<1> QED
  BY <1>1, <1>2, <1>3, <1>4

LEMMA KillInv == IInv /\ (WriterKilled \/ ReaderKilled) => IInv'
<1>1. ASSUME IInv, WriterKilled PROVE IInv'
  BY <1>1 DEF IInv, WriterKilled, readerVars, TypeOK, Turns, StoredSoFar,
     PublishedWhole, CopiedSoFar, FrameWhole, NoTornFrame, CommandsWhole, NoTornCommand
<1>2. ASSUME IInv, ReaderKilled PROVE IInv'
  <2> USE <1>2 DEF IInv, ReaderKilled, writerVars
  <2>1. TypeOK'
    BY BlankContents DEF TypeOK
  <2>2. Turns' /\ StoredSoFar' /\ PublishedWhole' /\ CopiedSoFar'
    BY DEF Turns, StoredSoFar, PublishedWhole, CopiedSoFar
  <2>3. FrameWhole' /\ CommandsWhole'
    BY DEF FrameWhole, NoTornFrame, CommandsWhole
  <2> QED
    BY <2>1, <2>2, <2>3
<1> QED
  BY <1>1, <1>2

LEMMA StepInv == IInv /\ [Next]_vars => IInv'
<1> SUFFICES ASSUME IInv, [Next]_vars PROVE IInv'
  OBVIOUS
<1>1. ASSUME NEW v \in Items[area],
             Force_Virtual_Download(v) \/ CorePuts(v)
      PROVE  IInv'
  BY <1>1, StartInv DEF Force_Virtual_Download, CorePuts
<1>2. ASSUME NEW v \in Items[area], Servo_Force_Comm_Set_Cmd(v) PROVE IInv'
  <2>1. area = "service_info" /\ StartsWriting(v)
    BY <1>2, CallIsCommand DEF Servo_Force_Comm_Set_Cmd
  <2> QED
    BY <2>1, StartInv
<1>3. ASSUME NEW w \in Words, StoreWord(w) PROVE IInv'
  BY <1>3, StoreInv
<1>4. CASE Publish
  BY <1>4, PublishInv
<1>5. CASE controller_display_res
  BY <1>5, DisplayInv
<1>6. CASE CoreNotices
  BY <1>6, StartReadInv, FullIsSet DEF CoreNotices, Areas
<1>7. CASE CoreLooks
  BY <1>7, StartReadInv DEF CoreLooks
<1>8. ASSUME NEW w \in Words, LoadWord(w) PROVE IInv'
  BY <1>8, LoadInv
<1>9. CASE ClearValid
  BY <1>9, ClearInv
<1>10. CASE CoreIsTold
  BY <1>10, ToldInv
<1>11. CASE network_set
  BY <1>11, SendInv
<1>12. CASE WriterKilled \/ ReaderKilled
  BY <1>12, KillInv
<1>13. CASE UNCHANGED vars
  BY <1>13 DEF vars, writerVars, readerVars, IInv, TypeOK, Turns, StoredSoFar,
     PublishedWhole, CopiedSoFar, FrameWhole, NoTornFrame, CommandsWhole, NoTornCommand
<1> QED
  BY <1>1, <1>2, <1>3, <1>4, <1>5, <1>6, <1>7, <1>8, <1>9, <1>10, <1>11, <1>12, <1>13
  DEF Next, Write, Read

-----------------------------------------------------------------------------
(* The inductive invariant holds for every size of the areas. *)
THEOREM Invariance == Spec => []IInv
  BY InitInv, StepInv, PTL DEF Spec

(* Type correctness of the three areas and of those who use them. *)
THEOREM TypeCorrect == Spec => []TypeOK
<1>1. IInv => TypeOK
  BY DEF IInv
<1> QED
  BY <1>1, Invariance, PTL

(* Every frame the PC gets is one sample of the core or blank, with the     *)
(* child killed anywhere (Force_Monitor_Upload, controller_display_res).    *)
THEOREM FramesAreWhole == Spec => []NoTornFrame
<1>1. IInv => NoTornFrame
  BY DEF IInv, FrameWhole
<1> QED
  BY <1>1, Invariance, PTL

(* Every command the core reads is one that was given, without a valid word *)
(* (Servo_Force_Comm_Set_Cmd under the four calls of the deployed server).  *)
THEOREM CommandsAreWhole == Spec => []NoTornCommand
<1>1. IInv => NoTornCommand
  BY DEF IInv, CommandsWhole, NoTornCommand
<1> QED
  BY <1>1, Invariance, PTL

(* Nothing is stored into an area while valid is set.                       *)
LEMMA StableStep == IInv /\ [Next]_vars => [valid # 0 => memory' = memory]_vars
<1> SUFFICES ASSUME IInv, Next, valid # 0 PROVE memory' = memory
  OBVIOUS
<1>1. \A w \in Words : ~ StoreWord(w)
  BY DEF IInv, Turns, TypeOK, StoreWord
<1> QED
  BY <1>1 DEF Next, Write, Read, StartsWriting, StartsReading, Force_Virtual_Download,
     Servo_Force_Comm_Set_Cmd, CorePuts, Publish, controller_display_res, CoreNotices, CoreLooks,
     LoadWord, ClearValid, CoreIsTold, network_set, WriterKilled, ReaderKilled

(* What a reader reads never changes under it, kills of the server included *)
(* (Force_Virtual_Download's test of valid).                                *)
THEOREM ReadersAreUndisturbed == Spec => StableWhilePublished
  BY Invariance, StableStep, PTL DEF Spec, StableWhilePublished

-----------------------------------------------------------------------------
(* Refinement: the areas are one-place slots. *)

LEMMA InitSlot == Init => Slot!SInit
<1> SUFFICES ASSUME Init PROVE Slot!SInit
  OBVIOUS
<1>1. memory \in Contents
  BY InitInv DEF IInv, TypeOK
<1> QED
  BY <1>1 DEF Init, Slot!SInit

LEMMA StepSlot == IInv /\ [Next]_vars => [Slot!SNext]_(Slot!svars)
<1> SUFFICES ASSUME IInv, [Next]_vars PROVE [Slot!SNext]_(Slot!svars)
  OBVIOUS
<1>1. memory \in Contents /\ area \in Areas
  BY DEF IInv, TypeOK
<1>2. CASE Publish
  <2>1. valid = 0 /\ memory \in Items[area]
    <3>1. area # "service_info" /\ valid = 0
      BY <1>2 DEF IInv, Turns, Publish, TypeOK
    <3>2. memory = item
      BY <1>2, <1>1, ItemsAreContents, SameContents DEF IInv, StoredSoFar, Publish, TypeOK
    <3> QED
      BY <1>2, <3>1, <3>2 DEF IInv, StoredSoFar, Publish
  <2>2. valid' # 0 /\ memory' = memory /\ taken' = taken
    BY <1>1, <1>2, FullIsSet DEF Publish, readerVars
  <2> QED
    BY <1>1, <2>1, <2>2 DEF Slot!SNext, Slot!Put
<1>3. CASE ClearValid
  <2>1. valid # 0 /\ frame = memory
    BY <1>3, CopyIsWhole DEF ClearValid
  <2>2. memory # NoItem
    BY <1>1, NoItemAssumption
  <2>3. valid' = 0 /\ taken' = memory
    BY <1>3, <2>1 DEF ClearValid
  <2> QED
    BY <2>1, <2>2, <2>3 DEF Slot!SNext, Slot!Take
<1>4. CASE ~ Publish /\ ~ ClearValid
  <2>1. valid' = valid /\ taken' = taken
    BY <1>4 DEF Next, Write, Read, StartsWriting, StartsReading, Force_Virtual_Download,
       Servo_Force_Comm_Set_Cmd, CorePuts, StoreWord, controller_display_res, CoreNotices, CoreLooks,
       LoadWord, CoreIsTold, network_set, WriterKilled, ReaderKilled,
       vars, writerVars, readerVars
  <2>2. valid # 0 => memory' = memory
    BY StableStep DEF vars
  <2> QED
    BY <2>1, <2>2 DEF Slot!svars
<1> QED
  BY <1>2, <1>3, <1>4

(* Word by word, with kills and restarts: what a reader takes from an area  *)
(* with a valid word is what the writer put, whole, and once.               *)
THEOREM ImplementsSlot == Spec => SlotSpec
  BY InitSlot, StepSlot, Invariance, PTL DEF Spec, SlotSpec, Slot!SSpec
=============================================================================
