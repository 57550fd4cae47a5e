-------------------------- MODULE ForceServerProofs --------------------------
(***************************************************************************)
(* What ForceServer's processes keep for every number of connections,      *)
(* commands and samples.                                                   *)
(*                                                                         *)
(* Four invariants, each inductive given the ones before it:               *)
(*   Shape     the types, which connection the parent holds at each of its *)
(*             locations, and how much the ring holds there;               *)
(*   Children  OneUploader, and where the parent is while nobody lives;    *)
(*   Traffic   CommandsInOrder, and what is known of a connection that is  *)
(*             not accepted yet;                                           *)
(*   Order     SamplesInOrder, and where the samples not yet shown are.    *)
(***************************************************************************)
EXTENDS ForceServer, SequenceTheorems, TLAPS

(* The parent holds a connection except while it waits for one.             *)
HoldsConnection ==
    /\ parent \notin {"connect", "accept", "exited"} => fd \in Conns
    /\ parent \in {"connect", "accept"} => fd = NoValue

Shape == TypeOK /\ HoldsConnection /\ NetqAtMostOne

-----------------------------------------------------------------------------
(* The data.                                                                *)

LEMMA NoValueIsNoConnection == NoValue \notin Conns
  BY NoValueAssumption DEF Conns

(* Each state-machine button has its call.                                  *)
LEMMA ServiceTyped ==
    ASSUME NEW c \in DOMAIN Servo_Force_Comm_Cmd
    PROVE  Servo_Force_Comm_Cmd[c] \in ServiceCalls
  BY DEF Servo_Force_Comm_Cmd, ServiceCalls

(* The dispatch calls what each button is named after.                      *)
LEMMA CallsAreNamed == NamedCall = Servo_Force_Comm_Cmd
  BY DEF NamedCall, Servo_Force_Comm_Cmd

LEMMA ParamsTyped ==
    ASSUME NEW command \in Pc_Comm_Cmd_t
    PROVE  command.params \in Forces
  BY RestAssumption DEF Pc_Comm_Cmd_t

LEMMA ButtonTyped ==
    ASSUME NEW command \in Buttons
    PROVE  command \in Pc_Comm_Cmd_t
  BY ButtonsAssumption

LEMMA KilledTyped ==
    ASSUME kid \in [Conns -> Live \cup {"none", "dead"}], NEW p
    PROVE  Killed(p) \in [Conns -> Live \cup {"none", "dead"}]
  BY DEF Killed

-----------------------------------------------------------------------------
LEMMA InitShape == Init => Shape
  <1> SUFFICES ASSUME Init PROVE Shape
    OBVIOUS
  <1>1. published \in 0 .. MaxSamples /\ monitor \in Samples \cup {NoValue}
    BY BoundsAssumption DEF Init, Samples
  <1>2. virtual \in Forces \cup {NoValue} /\ applied = NoValue
    BY DEF Init, Virt!SInit
  <1>3. netq = <<>> /\ buff = NoValue
    BY DEF Init, Ring!QInit
  <1>4. TypeOK
    BY <1>1, <1>2, <1>3 DEF Init, TypeOK
  <1>5. HoldsConnection /\ NetqAtMostOne
    BY <1>3 DEF Init, HoldsConnection, NetqAtMostOne
  <1>6. QED BY <1>4, <1>5 DEF Shape

(* The PC's steps leave the processes alone. *)
LEMMA PcShape ==
    ASSUME Shape, NEW c \in Conns, Pc(c)
    PROVE  Shape'
  <1> USE DEF Shape, HoldsConnection, NetqAtMostOne, parentVars, kidVars, coreVars
  <1>1. CASE Connect(c)
    <2>1. backlog' \in Seq(Conns)
      BY <1>1, AppendProperties DEF Connect, TypeOK
    <2>2. tcp' \in [Conns -> {"unused", "ESTABLISHED", "CLOSE_WAIT", "CLOSE"}]
      BY <1>1 DEF Connect, TypeOK
    <2>3. /\ UNCHANGED <<reset, rx, parent, fd, pid, pid_child, netq, buff, handled>>
          /\ UNCHANGED <<kidVars, coreVars, service, sent>>
      BY <1>1 DEF Connect
    <2>4. QED BY <2>1, <2>2, <2>3 DEF TypeOK
  <1>2. CASE Disconnect(c)
    BY <1>2 DEF Disconnect, TypeOK
  <1>3. CASE Reset(c)
    BY <1>3 DEF Reset, TypeOK
  <1>4. ASSUME NEW command \in Buttons, Click(c, command)
        PROVE  Shape'
    BY <1>4, ButtonTyped DEF Click, TypeOK
  <1>5. QED BY <1>1, <1>2, <1>3, <1>4 DEF Pc

LEMMA ParentShape ==
    ASSUME Shape, Parent
    PROVE  Shape'
  <1> USE DEF Shape, HoldsConnection, NetqAtMostOne, netVars, kidVars, coreVars
  <1>1. CASE Accept
    BY <1>1, HeadTailProperties DEF Accept, TypeOK
  <1>2. CASE main_fork
    <2>1. /\ kid' \in [Conns -> Live \cup {"none", "dead"}]
          /\ inherited' \in [Conns -> Conns \cup {0, -1}]
      <3>1. CASE Forked
        BY <3>1 DEF Forked, TypeOK, Live
      <3>2. CASE UNCHANGED <<kid, inherited>>
        BY <3>2 DEF TypeOK
      <3>3. QED BY <1>2, <3>1, <3>2 DEF main_fork
    <2>2. /\ pid_child' \in Conns \cup {0, -1}
          /\ parent' \in {"signal", "exited"}
      BY <1>2 DEF main_fork
    <2>3. UNCHANGED <<netVars, fd, pid, netq, buff, handled, frame, shown, coreVars,
                      service, sent>>
      BY <1>2 DEF main_fork
    <2>4. fd \in Conns /\ netq = <<>>
      BY <1>2 DEF main_fork
    <2>5. TypeOK'
      BY <2>1, <2>2, <2>3 DEF TypeOK
    <2>6. HoldsConnection' /\ NetqAtMostOne'
      BY <2>2, <2>3, <2>4
    <2>7. QED BY <2>5, <2>6
  <1>3. CASE signal
    BY <1>3 DEF signal, TypeOK
  <1>4. CASE network_rcv
    <2>1. fd \in Conns /\ netq = <<>>
      BY <1>4 DEF network_rcv
    <2>2. Killed(pid_child) \in [Conns -> Live \cup {"none", "dead"}]
      BY KilledTyped DEF TypeOK
    <2>3. UNCHANGED <<netVars, pid_child, netq, buff, handled, inherited, frame, shown,
                      coreVars, service, sent>> /\ pid' = pid_child
      BY <1>4 DEF network_rcv
    <2>4. CASE StillConnected
      BY <2>1, <2>3, <2>4 DEF StillConnected, TypeOK
    <2>5. CASE Disconnected
      <3>1. kid' = Killed(pid_child) /\ fd' = NoValue /\ parent' = "accept"
        BY <2>5 DEF Disconnected
      <3>2. TypeOK'
        BY <2>2, <2>3, <3>1 DEF TypeOK
      <3>3. HoldsConnection' /\ NetqAtMostOne'
        BY <2>1, <2>3, <3>1
      <3>4. QED BY <3>2, <3>3
    <2>6. QED BY <1>4, <2>4, <2>5 DEF network_rcv
  <1>5. CASE read_data
    <2>1. fd \in Conns /\ netq = <<>> /\ rx[fd] \in Seq(Pc_Comm_Cmd_t)
      BY <1>5 DEF read_data, ReadCommand, ReadEnd, TypeOK
    <2>2. CASE rx[fd] # <<>>
      <3>1. Head(rx[fd]) \in Pc_Comm_Cmd_t /\ Tail(rx[fd]) \in Seq(Pc_Comm_Cmd_t)
        BY <2>1, <2>2, HeadTailProperties
      <3>2. netq' \in Seq(Pc_Comm_Cmd_t) /\ Len(netq') = 1
        <4>1. netq' = Append(netq, Head(rx[fd])) /\ Len(netq) = 0
          BY <1>5, <2>1, <2>2, EmptySeq DEF read_data, ReadCommand, ReadEnd
        <4>2. QED BY <2>1, <3>1, <4>1, AppendProperties DEF TypeOK
      <3>3. rx' = [rx EXCEPT ![fd] = Tail(rx[fd])] /\ parent' = "parse" /\ UNCHANGED reset
        BY <1>5, <2>2 DEF read_data, ReadCommand, ReadEnd
      <3>4. rx' \in [Conns -> Seq(Pc_Comm_Cmd_t)]
        BY <2>1, <3>1, <3>3 DEF TypeOK
      <3>5. QED BY <1>5, <2>1, <3>2, <3>3, <3>4 DEF read_data, ReadCommand, ReadEnd, TypeOK
    <2>3. CASE rx[fd] = <<>>
      BY <1>5, <2>1, <2>3 DEF read_data, ReadCommand, ReadEnd, TypeOK
    <2>4. QED BY <2>2, <2>3
  <1>6. CASE fork
    <2>1. /\ kid' \in [Conns -> Live \cup {"none", "dead"}]
          /\ inherited' \in [Conns -> Conns \cup {0, -1}]
      <3>1. CASE Forked
        BY <3>1 DEF Forked, TypeOK, Live
      <3>2. CASE UNCHANGED <<kid, inherited>>
        BY <3>2 DEF TypeOK
      <3>3. QED BY <1>6, <3>1, <3>2 DEF fork
    <2>2. pid' \in Conns \cup {0, -1} /\ parent' = "return"
      BY <1>6 DEF fork
    <2>3. UNCHANGED <<netVars, fd, pid_child, netq, buff, handled, frame, shown, coreVars,
                      service, sent>>
      BY <1>6 DEF fork
    <2>4. fd \in Conns /\ netq = <<>>
      BY <1>6 DEF fork
    <2>5. TypeOK'
      BY <2>1, <2>2, <2>3 DEF TypeOK
    <2>6. HoldsConnection' /\ NetqAtMostOne'
      BY <2>2, <2>3, <2>4
    <2>7. QED BY <2>5, <2>6
  <1>7. CASE return
    BY <1>7 DEF return, TypeOK
  <1>8. CASE controller_msg_parase
    <2>1. fd \in Conns
      BY <1>8 DEF controller_msg_parase, NothingToParse, ParseCommand
    <2>2. CASE netq = <<>>
      BY <1>8, <2>1, <2>2 DEF controller_msg_parase, NothingToParse, ParseCommand, Ring!Get, TypeOK
    <2>3. CASE netq # <<>>
      <3>1. Head(netq) \in Pc_Comm_Cmd_t /\ Tail(netq) \in Seq(Pc_Comm_Cmd_t)
        BY <2>3, HeadTailProperties DEF TypeOK
      <3>2. netq' = Tail(netq) /\ buff' = Head(netq) /\ Dispatch(Head(netq))
        BY <1>8, <2>3 DEF controller_msg_parase, NothingToParse, ParseCommand, Ring!Get
      <3>3. Len(netq') = 0 /\ netq' = <<>>
        <4>1. netq \in Seq(Pc_Comm_Cmd_t) /\ Len(netq) <= 1
          BY DEF TypeOK
        <4>2. Len(netq) # 0 /\ Len(netq) \in Nat
          BY <2>3, <4>1, EmptySeq
        <4>3. Len(netq') = Len(netq) - 1
          BY <2>3, <3>2, <4>1, HeadTailProperties
        <4>4. Len(netq') = 0
          BY <4>1, <4>2, <4>3
        <4>5. QED BY <3>1, <3>2, <4>4, EmptySeq
      <3>4. service' \in ServiceCalls \cup {NoValue}
        BY <3>2, ServiceTyped DEF Dispatch, TypeOK
      <3>5. virtual' \in Forces \cup {NoValue} /\ applied' \in Forces \cup {NoValue}
        BY <3>1, <3>2, ParamsTyped
        DEF Dispatch, Force_Virtual_Download, Virt!Put, TypeOK
      <3>6. handled' \in [Conns -> Seq(Pc_Comm_Cmd_t)]
        <4>1. handled' = [handled EXCEPT ![fd] = Append(handled[fd], Head(netq))]
          BY <1>8, <2>3 DEF controller_msg_parase, NothingToParse, ParseCommand
        <4>2. Append(handled[fd], Head(netq)) \in Seq(Pc_Comm_Cmd_t)
          BY <2>1, <3>1, AppendProperties DEF TypeOK
        <4>3. QED BY <2>1, <4>1, <4>2 DEF TypeOK
      <3>7. /\ UNCHANGED <<netVars, fd, pid, pid_child, kidVars, monitor, published, sent>>
            /\ parent' = "check"
        BY <1>8 DEF controller_msg_parase, NothingToParse, ParseCommand
      <3>8. buff' \in Pc_Comm_Cmd_t \cup {NoValue} /\ netq' \in Seq(Pc_Comm_Cmd_t)
        BY <3>1, <3>2
      <3>9. TypeOK'
        BY <3>4, <3>5, <3>6, <3>7, <3>8 DEF TypeOK
      <3>10. QED BY <2>1, <3>3, <3>7, <3>9
    <2>4. QED BY <2>2, <2>3
  <1>9. QED BY <1>1, <1>2, <1>3, <1>4, <1>5, <1>6, <1>7, <1>8 DEF Parent

LEMMA OtherShape ==
    ASSUME Shape, AcceptFails \/ Interrupt \/ Core \/ \E c \in Conns : Child(c) \/ InterruptChild(c)
    PROVE  Shape'
  <1> USE DEF Shape, HoldsConnection, NetqAtMostOne, netVars, parentVars, kidVars, coreVars
  <1>1. CASE AcceptFails
    BY <1>1 DEF AcceptFails, TypeOK
  <1>2. CASE Interrupt
    BY <1>2, KilledTyped DEF Interrupt, TypeOK
  <1>3. CASE Publish
    <2>1. published + 1 \in Samples /\ published + 1 \in 0 .. MaxSamples
      BY <1>3, BoundsAssumption DEF Publish, TypeOK, Samples
    <2>2. QED BY <1>3, <2>1 DEF Publish, TypeOK
  <1>4. CASE TakeForce
    BY <1>4 DEF TakeForce, Virt!Take, TypeOK
  <1>5. ASSUME NEW c \in Conns, Force_Monitor_Upload(c) \/ network_set_test(c)
        PROVE  Shape'
    <2>1. CASE Force_Monitor_Upload(c)
      <3>1. /\ kid' \in [Conns -> Live \cup {"none", "dead"}]
            /\ frame' \in [Conns -> Samples \cup {NoValue}]
            /\ monitor' \in Samples \cup {NoValue}
        BY <2>1 DEF Force_Monitor_Upload, TypeOK, Live
      <3>2. /\ UNCHANGED <<netVars, inherited, shown, published, virtual, applied, service, sent>>
            /\ UNCHANGED <<parent, fd, pid, pid_child, netq, buff, handled>>
        BY <2>1 DEF Force_Monitor_Upload
      <3>3. QED BY <3>1, <3>2 DEF TypeOK
    <2>2. CASE network_set_test(c)
      BY <2>2 DEF network_set_test, TypeOK, Live
    <2>3. QED BY <1>5, <2>1, <2>2
  <1>6. ASSUME NEW c \in Conns, network_set_write(c)
        PROVE  Shape'
    <2>1. kid' \in [Conns -> Live \cup {"none", "dead"}]
      BY <1>6 DEF network_set_write, WriteReaches, WriteIsAnswered, WriteFails, TypeOK, Live
    <2>2. shown' \in Seq(Conns \X Samples)
      <3>1. CASE frame[c] # NoValue /\ shown' = Append(shown, <<c, frame[c]>>)
        <4>1. <<c, frame[c]>> \in Conns \X Samples
          BY <3>1 DEF TypeOK
        <4>2. QED BY <3>1, <4>1, AppendProperties DEF TypeOK
      <3>2. CASE shown' = shown
        BY <3>2 DEF TypeOK
      <3>3. QED BY <1>6, <3>1, <3>2
                DEF network_set_write, WriteReaches, WriteIsAnswered, WriteFails
    <2>3. /\ tcp' \in [Conns -> {"unused", "ESTABLISHED", "CLOSE_WAIT", "CLOSE"}]
          /\ reset' \in [Conns -> BOOLEAN]
      BY <1>6 DEF network_set_write, WriteReaches, WriteIsAnswered, WriteFails, TypeOK
    <2>4. /\ UNCHANGED <<rx, backlog, inherited, frame, coreVars, service, sent>>
          /\ UNCHANGED <<parent, fd, pid, pid_child, netq, buff, handled>>
      BY <1>6 DEF network_set_write
    <2>5. QED BY <2>1, <2>2, <2>3, <2>4 DEF TypeOK
  <1>7. ASSUME NEW c \in Conns, InterruptChild(c)
        PROVE  Shape'
    <2>1. kid' \in [Conns -> Live \cup {"none", "dead"}]
      <3>1. Killed(inherited[c]) \in [Conns -> Live \cup {"none", "dead"}]
        BY KilledTyped DEF TypeOK
      <3>2. QED BY <1>7, <3>1 DEF InterruptChild
    <2>2. parent' \in {parent, "exited"}
      BY <1>7 DEF InterruptChild
    <2>3. UNCHANGED <<netVars, fd, pid, pid_child, netq, buff, handled, inherited, frame,
                      shown, coreVars, service, sent>>
      BY <1>7 DEF InterruptChild
    <2>4. TypeOK'
      <3>1. CASE parent' = parent
        BY <2>1, <2>3, <3>1 DEF TypeOK
      <3>2. CASE parent' = "exited"
        BY <2>1, <2>3, <3>2 DEF TypeOK
      <3>3. QED BY <2>2, <3>1, <3>2
    <2>5. HoldsConnection' /\ NetqAtMostOne'
      BY <2>2, <2>3
    <2>6. QED BY <2>4, <2>5
  <1>8. QED BY <1>1, <1>2, <1>3, <1>4, <1>5, <1>6, <1>7 DEF Core, Child

LEMMA StutterShape ==
    ASSUME Shape, UNCHANGED vars
    PROVE  Shape'
  BY DEF Shape, TypeOK, HoldsConnection, NetqAtMostOne,
         vars, netVars, parentVars, kidVars, coreVars

LEMMA ShapeInvariant == Spec => []Shape
  <1>1. Init => Shape
    BY InitShape
  <1>2. Shape /\ [Next]_vars => Shape'
    BY PcShape, ParentShape, OtherShape, StutterShape DEF Next
  <1>3. QED BY <1>1, <1>2, PTL DEF Spec

(* Every variable keeps its type, and the parent always has the connection  *)
(* it is about to test, read or fork for.                                   *)
THEOREM TypeCorrect == Spec => []TypeOK
  <1>1. Shape => TypeOK
    BY DEF Shape
  <1>2. QED BY <1>1, ShapeInvariant, PTL

(* The ring holds at most the command just read, for every traffic, failing *)
(* call and reconnect: the window of one item within which CircleBuffer's   *)
(* theorems make it a queue.                                                *)
THEOREM RingHoldsOne == Spec => []NetqAtMostOne
  <1>1. Shape => NetqAtMostOne
    BY DEF Shape
  <1>2. QED BY <1>1, ShapeInvariant, PTL

-----------------------------------------------------------------------------
(* Nobody lives while the parent waits for a connection or is about to fork. *)
NobodyLives ==
    parent \in {"connect", "main_fork", "accept", "fork"} =>
        \A c \in Conns : kid[c] \notin Live

Children == OneUploader /\ NobodyLives

LEMMA KilledIsDead ==
    ASSUME NEW p, NEW c \in Conns, Killed(p)[c] \in Live
    PROVE  kid[c] \in Live /\ p # c /\ p # -1
  BY DEF Killed, Live

(* A step that gives no child life, and keeps what the parent knows, keeps  *)
(* the invariant; one that ends the parent needs only the first.            *)
LEMMA NoBirth ==
    ASSUME Children, \A c \in Conns : kid'[c] \in Live => kid[c] \in Live,
           \/ UNCHANGED <<parent, fd, pid, pid_child>>
           \/ parent' = "exited"
    PROVE  Children'
  BY DEF Children, OneUploader, NobodyLives

LEMMA InitChildren == Init => Children
  BY DEF Init, Children, OneUploader, NobodyLives, Live

LEMMA PcChildren ==
    ASSUME Children, NEW c \in Conns, Pc(c)
    PROVE  Children'
  BY NoBirth DEF Pc, Connect, Click, Disconnect, Reset, parentVars, kidVars

LEMMA ForkChildren ==
    ASSUME Shape, Children, main_fork \/ fork
    PROVE  Children'
  <1>1. fd \in Conns /\ \A c \in Conns : kid[c] \notin Live
    BY DEF Shape, HoldsConnection, Children, NobodyLives, main_fork, fork
  <1>2. kid \in [Conns -> Live \cup {"none", "dead"}]
    BY DEF Shape, TypeOK
  <1>3. CASE kid' = kid
    <2>1. parent' \in {"exited", "return", "signal"}
      BY DEF main_fork, fork
    <2>2. QED BY <1>1, <1>3, <2>1 DEF Children, OneUploader, NobodyLives
  <1>4. CASE Forked /\ fd' = fd
             /\ \/ parent' = "signal" /\ pid_child' = fd
                \/ parent' = "return" /\ pid' = fd
    <2>1. \A c \in Conns : kid'[c] \in Live => c = fd
      BY <1>1, <1>2, <1>4 DEF Forked
    <2>2. OneUploader'
      BY <1>4, <2>1 DEF OneUploader
    <2>3. QED BY <1>4, <2>2 DEF Children, NobodyLives
  <1>5. QED BY <1>3, <1>4 DEF main_fork, fork

LEMMA ParentChildren ==
    ASSUME Shape, Children, Parent
    PROVE  Children'
  <1> USE DEF kidVars
  <1>1. CASE Accept
    <2>1. \A c \in Conns : kid'[c] \notin Live
      BY <1>1 DEF Accept, Children, NobodyLives
    <2>2. QED BY <2>1 DEF Children, OneUploader, NobodyLives
  <1>2. CASE main_fork \/ fork
    BY <1>2, ForkChildren
  <1>3. CASE signal
    BY <1>3 DEF signal, Children, OneUploader, NobodyLives
  <1>4. CASE network_rcv
    <2>1. CASE tcp[fd] = "ESTABLISHED"
      <3>1. UNCHANGED <<fd, kid, pid_child>> /\ parent = "check" /\ parent' \in {"parse", "read"}
        BY <1>4, <2>1 DEF network_rcv, StillConnected, Disconnected
      <3>2. QED BY <3>1 DEF Children, OneUploader, NobodyLives
    <2>2. CASE tcp[fd] # "ESTABLISHED"
      <3>1. \A c \in Conns : kid[c] \in Live => c = pid_child
        BY <1>4 DEF network_rcv, StillConnected, Disconnected, Children, OneUploader
      <3>2. kid' = Killed(pid_child)
        BY <1>4, <2>2 DEF network_rcv, StillConnected, Disconnected
      <3>3. \A c \in Conns : kid'[c] \notin Live
        BY <3>1, <3>2, KilledIsDead
      <3>4. QED BY <3>3 DEF Children, OneUploader, NobodyLives
    <2>3. QED BY <2>1, <2>2
  <1>5. CASE read_data
    <2>1. /\ parent = "read" /\ parent' \in {"parse", "exited"}
          /\ UNCHANGED <<fd, pid, pid_child, kid>>
      BY <1>5 DEF read_data, ReadCommand, ReadEnd
    <2>2. QED BY <2>1 DEF Children, OneUploader, NobodyLives
  <1>6. CASE return
    BY <1>6 DEF return, Children, OneUploader, NobodyLives
  <1>7. CASE controller_msg_parase
    BY <1>7 DEF controller_msg_parase, NothingToParse, ParseCommand, Children, OneUploader, NobodyLives
  <1>8. QED BY <1>1, <1>2, <1>3, <1>4, <1>5, <1>6, <1>7 DEF Parent

LEMMA OtherChildren ==
    ASSUME Shape, Children, AcceptFails \/ Interrupt \/ Core \/ \E c \in Conns : Child(c) \/ InterruptChild(c)
    PROVE  Children'
  <1> USE DEF parentVars, kidVars
  <1>1. CASE AcceptFails
    BY <1>1, NoBirth DEF AcceptFails
  <1>2. CASE Interrupt
    BY <1>2, NoBirth, KilledIsDead DEF Interrupt
  <1>3. CASE Core
    BY <1>3, NoBirth DEF Core, Publish, TakeForce
  <1>4. ASSUME NEW c \in Conns, Child(c)
        PROVE  Children'
    <2>1. kid[c] \in Live
      BY <1>4 DEF Child, Force_Monitor_Upload, network_set_test, network_set_write, Live
    <2>2. \A d \in Conns \ {c} : kid'[d] = kid[d]
      BY <1>4 DEF Child, Force_Monitor_Upload, network_set_test, network_set_write,
                  WriteReaches, WriteIsAnswered, WriteFails, Shape, TypeOK
    <2>3. UNCHANGED <<parent, fd, pid, pid_child>>
      BY <1>4 DEF Child, Force_Monitor_Upload, network_set_test, network_set_write
    <2>4. QED BY <2>1, <2>2, <2>3, NoBirth
  <1>5. ASSUME NEW c \in Conns, InterruptChild(c)
        PROVE  Children'
    <2>1. \A d \in Conns : kid'[d] \in Live => kid[d] \in Live
      BY <1>5, KilledIsDead, KilledTyped DEF InterruptChild, Shape, TypeOK, Live
    <2>2. \/ UNCHANGED <<parent, fd, pid, pid_child>>
          \/ parent' = "exited"
      BY <1>5 DEF InterruptChild
    <2>3. QED BY <2>1, <2>2, NoBirth
  <1>6. QED BY <1>1, <1>2, <1>3, <1>4, <1>5

LEMMA ChildrenInvariant == Spec => []Children
  <1>1. Init => Children
    BY InitChildren
  <1>2. Shape /\ Children /\ [Next]_vars => Children'
    <2> SUFFICES ASSUME Shape, Children, [Next]_vars PROVE Children'
      OBVIOUS
    <2>1. CASE UNCHANGED vars
      BY <2>1, NoBirth DEF vars, parentVars, kidVars
    <2>2. QED BY <2>1, PcChildren, ParentChildren, OtherChildren DEF Next
  <1>3. QED BY <1>1, <1>2, ShapeInvariant, PTL DEF Spec

(* Through every order of disconnects, kills, forks, failing forks, SIGPIPEs *)
(* and interrupts there is one uploading child at most, and the pid the      *)
(* parent would kill is its pid.                                             *)
THEOREM OneUploaderAlways == Spec => []OneUploader
  <1>1. Children => OneUploader
    BY DEF Children
  <1>2. QED BY <1>1, ChildrenInvariant, PTL

-----------------------------------------------------------------------------
(* Sequences.                                                               *)

LEMMA PrefixPointwise ==
    ASSUME NEW S, NEW s \in Seq(S), NEW t \in Seq(S)
    PROVE  IsPrefix(s, t) <=> Len(s) <= Len(t) /\ \A i \in 1 .. Len(s) : s[i] = t[i]
  <1>1. SubSeq(s, 1, Len(s)) = s
    BY SubSeqFull
  <1>2. SUFFICES ASSUME Len(s) <= Len(t)
                 PROVE  s = SubSeq(t, 1, Len(s)) <=> \A i \in 1 .. Len(s) : s[i] = t[i]
    BY <1>1 DEF IsPrefix
  <1>3. \A i \in 1 .. Len(s) : t[i] \in S
    BY <1>2, ElementOfSeq, LenProperties
  <1>4. /\ SubSeq(t, 1, Len(s)) \in Seq(S)
        /\ Len(SubSeq(t, 1, Len(s))) = Len(s)
        /\ \A i \in 1 .. Len(s) : SubSeq(t, 1, Len(s))[i] = t[i]
    BY <1>3, SubSeqProperties, LenProperties
  <1>5. QED BY <1>4, SeqEqual

LEMMA PrefixOfConcat ==
    ASSUME NEW S, NEW s \in Seq(S), NEW t \in Seq(S)
    PROVE  IsPrefix(s, s \o t)
  <1>1. s \o t \in Seq(S) /\ Len(s) <= Len(s \o t)
    BY ConcatProperties, LenProperties
  <1>2. \A i \in 1 .. Len(s) : s[i] = (s \o t)[i]
    BY ConcatProperties, LenProperties
  <1>3. QED BY <1>1, <1>2, PrefixPointwise

LEMMA PrefixOfAppend ==
    ASSUME NEW S, NEW s \in Seq(S), NEW t \in Seq(S), NEW x \in S, IsPrefix(s, t)
    PROVE  IsPrefix(s, Append(t, x))
  <1>1. Len(s) <= Len(t) /\ \A i \in 1 .. Len(s) : s[i] = t[i]
    BY PrefixPointwise
  <1>2. Append(t, x) \in Seq(S) /\ Len(s) <= Len(Append(t, x))
    BY <1>1, AppendProperties, LenProperties
  <1>3. \A i \in 1 .. Len(s) : s[i] = Append(t, x)[i]
    BY <1>1, AppendProperties, LenProperties
  <1>4. QED BY <1>2, <1>3, PrefixPointwise

LEMMA HeadThenTail ==
    ASSUME NEW S, NEW s \in Seq(S), s # <<>>
    PROVE  s = <<Head(s)>> \o Tail(s)
  <1>1. Head(s) \in S /\ Tail(s) \in Seq(S) /\ <<Head(s)>> \in Seq(S) /\ Head(s) = s[1]
    BY HeadTailProperties
  <1>2. Len(s) \in Nat /\ Len(s) # 0 /\ Len(<<Head(s)>>) = 1
    BY EmptySeq, LenProperties
  <1>3. Len(<<Head(s)>> \o Tail(s)) = Len(s) /\ <<Head(s)>> \o Tail(s) \in Seq(S)
    BY <1>1, <1>2, HeadTailProperties, ConcatProperties
  <1>4. \A i \in 1 .. Len(s) : s[i] = (<<Head(s)>> \o Tail(s))[i]
    BY <1>1, <1>2, HeadTailProperties, ConcatProperties
  <1>5. QED BY <1>3, <1>4, SeqEqual

(* Reading: the head of what is unread goes into the empty ring.            *)
LEMMA ReadKeepsOrder ==
    ASSUME NEW S, NEW h \in Seq(S), NEW r \in Seq(S), r # <<>>
    PROVE  (h \o <<>>) \o r = (h \o Append(<<>>, Head(r))) \o Tail(r)
  <1>1. Head(r) \in S /\ Tail(r) \in Seq(S) /\ <<Head(r)>> \in Seq(S)
    BY HeadTailProperties
  <1>2. h \o <<>> = h /\ Append(<<>>, Head(r)) = <<Head(r)>>
    BY ConcatEmptySeq
  <1>3. (h \o <<Head(r)>>) \o Tail(r) = h \o (<<Head(r)>> \o Tail(r))
    BY <1>1, ConcatAssociative
  <1>4. QED BY <1>2, <1>3, HeadThenTail

(* Dispatching: the one item of the ring becomes the last one handled.      *)
LEMMA DispatchKeepsOrder ==
    ASSUME NEW S, NEW h \in Seq(S), NEW q \in Seq(S), q # <<>>, Tail(q) = <<>>
    PROVE  h \o q = Append(h, Head(q)) \o Tail(q)
  <1>1. Head(q) \in S /\ <<Head(q)>> \in Seq(S)
    BY HeadTailProperties
  <1>2. q = <<Head(q)>>
    BY <1>1, HeadThenTail, ConcatEmptySeq
  <1>3. Append(h, Head(q)) \in Seq(S) /\ Append(h, Head(q)) = h \o <<Head(q)>>
    BY <1>1, AppendProperties, AppendIsConcat
  <1>4. QED BY <1>2, <1>3, ConcatEmptySeq

(* What follows h in a stream is the head of the next piece of it.          *)
LEMMA NextOfConcat ==
    ASSUME NEW S, NEW h \in Seq(S), NEW q \in Seq(S), NEW r \in Seq(S), q # <<>>
    PROVE  /\ Len(h) + 1 <= Len((h \o q) \o r)
           /\ ((h \o q) \o r)[Len(h) + 1] = Head(q)
  <1>1. /\ Len(h) \in Nat /\ Len(q) \in Nat /\ Len(r) \in Nat
        /\ Len(q) # 0 /\ Head(q) = q[1]
    BY EmptySeq, LenProperties, HeadTailProperties
  <1>2. PICK t \in Seq(S) : t = h \o q
    BY ConcatProperties
  <1>3. /\ Len(t) = Len(h) + Len(q)
        /\ t[Len(h) + 1] = q[1]
    BY <1>1, <1>2, ConcatProperties
  <1>4. Len(t \o r) = Len(t) + Len(r)
    BY ConcatProperties
  <1>5. (t \o r)[Len(h) + 1] = t[Len(h) + 1]
    <2>1. /\ Len(h) + 1 \in 1 .. Len(t) + Len(r)
          /\ Len(h) + 1 <= Len(t)
      BY <1>1, <1>3
    <2>2. QED BY <2>1, ConcatProperties
  <1>6. /\ Len(h) + 1 <= Len(t \o r)
        /\ (t \o r)[Len(h) + 1] = Head(q)
    BY <1>1, <1>3, <1>4, <1>5
  <1>7. QED BY <1>2, <1>6

-----------------------------------------------------------------------------
(* Nothing of a connection that is not accepted yet has been read.          *)
Untouched(c) == c # fd /\ handled[c] = <<>> /\ rx[c] = sent[c]

Waits(c) == \E i \in 1 .. Len(backlog) : backlog[i] = c

(* A connection waits in the backlog once, before it is accepted.           *)
NotAccepted ==
    /\ \A i, j \in 1 .. Len(backlog) : backlog[i] = backlog[j] => i = j
    /\ \A c \in Conns : Waits(c) => tcp[c] # "unused" /\ Untouched(c)
    /\ \A c \in Conns : tcp[c] = "unused" => Untouched(c)

Traffic == CommandsInOrder /\ NotAccepted

(* A step that leaves the commands and the waiting connections alone, and   *)
(* makes no connection unused.                                              *)
LEMMA TrafficUntouched ==
    ASSUME Traffic, UNCHANGED <<fd, netq, backlog, rx, sent, handled>>,
           \A c \in Conns : tcp'[c] = "unused" <=> tcp[c] = "unused"
    PROVE  Traffic'
  BY DEF Traffic, CommandsInOrder, NotAccepted, Untouched, Waits

LEMMA InitTraffic == Init => Traffic
  <1> SUFFICES ASSUME Init PROVE Traffic
    OBVIOUS
  <1>1. fd = NoValue /\ backlog = <<>> /\ \A c \in Conns : c # fd
    BY NoValueIsNoConnection DEF Init
  <1>2. \A c \in Conns : sent[c] = <<>> /\ handled[c] = <<>> /\ rx[c] = <<>>
    BY DEF Init
  <1>3. IsPrefix(<<>>, <<>>)
    <2>1. <<>> \in Seq(Conns) /\ Len(<<>>) = 0
      BY EmptySeq
    <2>2. IsPrefix(<<>>, <<>>) <=>
              Len(<<>>) <= Len(<<>>) /\ \A i \in 1 .. Len(<<>>) : <<>>[i] = <<>>[i]
      BY <2>1, PrefixPointwise
    <2>3. QED BY <2>1, <2>2
  <1>4. CommandsInOrder
    BY <1>1, <1>2, <1>3 DEF CommandsInOrder
  <1>5. NotAccepted
    BY <1>1, <1>2 DEF NotAccepted, Untouched, Waits
  <1>6. QED BY <1>4, <1>5 DEF Traffic

LEMMA ConnectTraffic ==
    ASSUME Shape, Traffic, NEW c \in Conns, Connect(c)
    PROVE  Traffic'
  <1>1. /\ UNCHANGED <<fd, netq, rx, sent, handled>>
        /\ tcp[c] = "unused"
        /\ tcp' = [tcp EXCEPT ![c] = "ESTABLISHED"]
        /\ backlog' = Append(backlog, c)
        /\ backlog \in Seq(Conns)
    BY DEF Connect, parentVars, Shape, TypeOK
  <1>2. /\ Len(backlog) \in Nat /\ Len(backlog') = Len(backlog) + 1
        /\ \A i \in 1 .. Len(backlog) : backlog'[i] = backlog[i]
        /\ backlog'[Len(backlog) + 1] = c
    BY <1>1, AppendProperties, LenProperties
  <1>3. ~ Waits(c) /\ Untouched(c)
    BY <1>1 DEF Traffic, NotAccepted
  <1>4. \A i, j \in 1 .. Len(backlog') : backlog'[i] = backlog'[j] => i = j
    BY <1>2, <1>3 DEF Traffic, NotAccepted, Waits
  <1>5. \A d \in Conns : Waits(d)' => d = c \/ Waits(d)
    BY <1>2 DEF Waits
  <1>6. \A d \in Conns : tcp'[d] = IF d = c THEN "ESTABLISHED" ELSE tcp[d]
    BY <1>1 DEF Shape, TypeOK
  <1>7. NotAccepted'
    BY <1>1, <1>3, <1>4, <1>5, <1>6 DEF Traffic, NotAccepted, Untouched
  <1>8. QED BY <1>1, <1>7 DEF Traffic, CommandsInOrder

LEMMA ClickTraffic ==
    ASSUME Shape, Traffic, NEW c \in Conns, NEW command \in Buttons, Click(c, command)
    PROVE  Traffic'
  <1>1. /\ UNCHANGED <<fd, netq, backlog, tcp, handled>>
        /\ tcp[c] = "ESTABLISHED"
        /\ command \in Pc_Comm_Cmd_t
    BY ButtonTyped DEF Click, parentVars
  <1>2. \A d \in Conns : /\ sent'[d] = IF d = c THEN Append(sent[d], command) ELSE sent[d]
                         /\ rx'[d] = IF d = c THEN Append(rx[d], command) ELSE rx[d]
    BY DEF Click, Shape, TypeOK
  <1>3. /\ sent[c] \in Seq(Pc_Comm_Cmd_t) /\ rx[c] \in Seq(Pc_Comm_Cmd_t)
        /\ handled[c] \in Seq(Pc_Comm_Cmd_t) /\ netq \in Seq(Pc_Comm_Cmd_t)
    BY DEF Shape, TypeOK
  <1>4. CommandsInOrder'
    <2>1. CASE fd = c
      <3>1. PICK g \in Seq(Pc_Comm_Cmd_t) : g = handled[c] \o netq
        BY <1>3, ConcatProperties
      <3>2. PICK r \in Seq(Pc_Comm_Cmd_t) : r = rx[c]
        BY <1>3
      <3>3. PICK u \in Seq(Pc_Comm_Cmd_t) : u = <<command>>
        <4>1. command \in Pc_Comm_Cmd_t
          BY <1>1
        <4>2. <<command>> \in Seq(Pc_Comm_Cmd_t)
          BY ONLY <4>1
        <4>3. QED BY ONLY <4>2
      <3>4. sent[c] = g \o r
        BY <2>1, <3>1, <3>2 DEF Traffic, CommandsInOrder
      <3>5. sent'[c] = (g \o r) \o u /\ rx'[c] = r \o u
        BY <1>1, <1>2, <1>3, <3>2, <3>3, <3>4, AppendIsConcat
      <3>6. (g \o r) \o u = g \o (r \o u)
        BY ConcatAssociative
      <3>7. sent'[c] = g \o rx'[c]
        BY <3>5, <3>6
      <3>8. g = handled'[c] \o netq'
        BY <1>1, <3>1
      <3>9. QED BY <1>1, <1>2, <2>1, <3>7, <3>8 DEF Traffic, CommandsInOrder
    <2>2. CASE fd # c
      <3>1. IsPrefix(handled[c], sent[c])
        BY <2>2 DEF Traffic, CommandsInOrder
      <3>2. IsPrefix(handled'[c], sent'[c])
        BY <1>1, <1>2, <1>3, <3>1, PrefixOfAppend
      <3>3. QED BY <1>1, <1>2, <2>2, <3>2 DEF Traffic, CommandsInOrder
    <2>3. QED BY <2>1, <2>2
  <1>5. NotAccepted'
    BY <1>1, <1>2 DEF Traffic, NotAccepted, Untouched, Waits
  <1>6. QED BY <1>4, <1>5 DEF Traffic

LEMMA AcceptTraffic ==
    ASSUME Shape, Traffic, Accept
    PROVE  Traffic'
  <1>1. /\ UNCHANGED <<netq, rx, sent, handled, tcp>>
        /\ fd = NoValue /\ netq = <<>>
        /\ fd' = Head(backlog) /\ backlog' = Tail(backlog)
        /\ backlog \in Seq(Conns) /\ backlog # <<>>
    BY DEF Accept, Shape, TypeOK, HoldsConnection, NetqAtMostOne
  <1>2. /\ Len(backlog) \in Nat /\ Len(backlog) # 0
        /\ Len(backlog') = Len(backlog) - 1
        /\ \A i \in 1 .. Len(backlog') : backlog'[i] = backlog[i + 1]
        /\ fd' = backlog[1]
    BY <1>1, HeadTailProperties, EmptySeq, LenProperties
  <1>3. fd' \in Conns /\ Waits(fd')
    BY <1>1, <1>2, HeadTailProperties DEF Waits
  <1>4. handled[fd'] = <<>> /\ sent[fd'] = rx[fd'] /\ tcp[fd'] # "unused"
    BY <1>3 DEF Traffic, NotAccepted, Untouched
  <1>5. \A c \in Conns : Waits(c)' => Waits(c) /\ c # fd'
    <2> SUFFICES ASSUME NEW c \in Conns, NEW i \in 1 .. Len(backlog'), backlog'[i] = c
                 PROVE  Waits(c) /\ c # fd'
      BY DEF Waits
    <2>1. i + 1 \in 1 .. Len(backlog) /\ backlog[i + 1] = c /\ i + 1 # 1 /\ 1 \in 1 .. Len(backlog)
      BY <1>2
    <2>2. QED BY <1>2, <2>1 DEF Waits, Traffic, NotAccepted
  <1>6. \A i, j \in 1 .. Len(backlog') : backlog'[i] = backlog'[j] => i = j
    <2> SUFFICES ASSUME NEW i \in 1 .. Len(backlog'), NEW j \in 1 .. Len(backlog'),
                        backlog'[i] = backlog'[j]
                 PROVE  i = j
      OBVIOUS
    <2>1. /\ i + 1 \in 1 .. Len(backlog) /\ j + 1 \in 1 .. Len(backlog)
          /\ backlog[i + 1] = backlog[j + 1]
      BY <1>2
    <2>2. i + 1 = j + 1
      BY <2>1 DEF Traffic, NotAccepted
    <2>3. QED BY <2>2
  <1>7. NotAccepted'
    BY <1>1, <1>4, <1>5, <1>6 DEF Traffic, NotAccepted, Untouched
  <1>8. sent[fd'] = handled[fd'] \o netq \o rx[fd']
    <2>1. rx[fd'] \in Seq(Pc_Comm_Cmd_t)
      BY <1>3 DEF Shape, TypeOK
    <2>2. QED BY <1>1, <1>4, <2>1, ConcatEmptySeq, EmptySeq
  <1>9. \A c \in Conns : IsPrefix(handled[c], sent[c])
    BY <1>1, NoValueIsNoConnection DEF Traffic, CommandsInOrder
  <1>10. CommandsInOrder'
    BY <1>1, <1>8, <1>9 DEF CommandsInOrder
  <1>11. QED BY <1>7, <1>10 DEF Traffic

LEMMA DisconnectTraffic ==
    ASSUME Shape, Traffic, network_rcv, tcp[fd] # "ESTABLISHED"
    PROVE  Traffic'
  <1>1. /\ UNCHANGED <<netq, rx, sent, handled, tcp, backlog>>
        /\ fd \in Conns /\ netq = <<>> /\ fd' = NoValue
    BY DEF network_rcv, StillConnected, Disconnected, netVars, Shape, HoldsConnection, NetqAtMostOne
  <1>2. /\ handled[fd] \in Seq(Pc_Comm_Cmd_t) /\ rx[fd] \in Seq(Pc_Comm_Cmd_t)
        /\ sent[fd] = handled[fd] \o netq \o rx[fd]
    BY <1>1 DEF Shape, TypeOK, Traffic, CommandsInOrder
  <1>3. IsPrefix(handled[fd], sent[fd])
    BY <1>1, <1>2, ConcatEmptySeq, PrefixOfConcat
  <1>4. CommandsInOrder'
    BY <1>1, <1>3, NoValueIsNoConnection DEF Traffic, CommandsInOrder
  <1>5. NotAccepted'
    BY <1>1, NoValueIsNoConnection DEF Traffic, NotAccepted, Untouched, Waits
  <1>6. QED BY <1>4, <1>5 DEF Traffic

LEMMA ReadTraffic ==
    ASSUME Shape, Traffic, read_data, rx[fd] # <<>>
    PROVE  Traffic'
  <1>1. /\ UNCHANGED <<fd, sent, handled, tcp, backlog>>
        /\ fd \in Conns /\ netq = <<>> /\ netq' = Append(netq, Head(rx[fd]))
        /\ rx' = [rx EXCEPT ![fd] = Tail(rx[fd])]
    BY DEF read_data, ReadCommand, ReadEnd, Shape, HoldsConnection, NetqAtMostOne
  <1>2. /\ handled[fd] \in Seq(Pc_Comm_Cmd_t) /\ rx[fd] \in Seq(Pc_Comm_Cmd_t)
        /\ sent[fd] = handled[fd] \o netq \o rx[fd]
    BY <1>1 DEF Shape, TypeOK, Traffic, CommandsInOrder
  <1>3. \A c \in Conns : rx'[c] = IF c = fd THEN Tail(rx[fd]) ELSE rx[c]
    BY <1>1 DEF Shape, TypeOK
  <1>4. sent'[fd] = handled'[fd] \o netq' \o rx'[fd]
    BY <1>1, <1>2, <1>3, ReadKeepsOrder
  <1>5. CommandsInOrder'
    BY <1>1, <1>4 DEF Traffic, CommandsInOrder
  <1>6. NotAccepted'
    BY <1>1, <1>3 DEF Traffic, NotAccepted, Untouched, Waits
  <1>7. QED BY <1>5, <1>6 DEF Traffic

LEMMA DispatchTraffic ==
    ASSUME Shape, Traffic, controller_msg_parase, netq # <<>>
    PROVE  Traffic'
  <1>1. /\ UNCHANGED <<fd, sent, rx, tcp, backlog>>
        /\ fd \in Conns /\ netq' = Tail(netq)
        /\ handled' = [handled EXCEPT ![fd] = Append(handled[fd], Head(netq))]
    BY DEF controller_msg_parase, NothingToParse, ParseCommand, netVars, Ring!Get, Shape, HoldsConnection
  <1>2. /\ handled[fd] \in Seq(Pc_Comm_Cmd_t) /\ netq \in Seq(Pc_Comm_Cmd_t)
        /\ sent[fd] = handled[fd] \o netq \o rx[fd]
    BY <1>1 DEF Shape, TypeOK, Traffic, CommandsInOrder
  <1>3. Tail(netq) = <<>>
    <2>1. Len(netq) <= 1 /\ Len(netq) \in Nat
      BY <1>2, LenProperties DEF Shape, NetqAtMostOne
    <2>2. Tail(netq) \in Seq(Pc_Comm_Cmd_t) /\ Len(Tail(netq)) = Len(netq) - 1
      BY <1>2, HeadTailProperties
    <2>3. Len(Tail(netq)) = 0
      BY <2>1, <2>2, LenProperties
    <2>4. QED BY <2>2, <2>3, EmptySeq
  <1>4. \A c \in Conns :
            handled'[c] = IF c = fd THEN Append(handled[fd], Head(netq)) ELSE handled[c]
    BY <1>1 DEF Shape, TypeOK
  <1>5. handled[fd] \o netq = handled'[fd] \o netq'
    <2>1. netq \in Seq(Pc_Comm_Cmd_t) /\ netq # <<>> /\ Tail(netq) = <<>>
      BY <1>2, <1>3
    <2>2. handled[fd] \o netq = Append(handled[fd], Head(netq)) \o Tail(netq)
      BY <1>2, <2>1, DispatchKeepsOrder
    <2>3. QED BY <1>1, <1>4, <2>2
  <1>6. CommandsInOrder'
    BY <1>1, <1>2, <1>4, <1>5 DEF Traffic, CommandsInOrder
  <1>7. NotAccepted'
    BY <1>1, <1>4 DEF Traffic, NotAccepted, Untouched, Waits
  <1>8. QED BY <1>6, <1>7 DEF Traffic

LEMMA PcTraffic ==
    ASSUME Shape, Traffic, NEW c \in Conns, Pc(c)
    PROVE  Traffic'
  <1>1. CASE Disconnect(c) \/ Reset(c)
    BY <1>1, TrafficUntouched DEF Disconnect, Reset, parentVars, Shape, TypeOK
  <1>2. QED BY <1>1, ConnectTraffic, ClickTraffic DEF Pc

LEMMA ParentTraffic ==
    ASSUME Shape, Traffic, Parent
    PROVE  Traffic'
  <1> USE TrafficUntouched DEF netVars
  <1>1. CASE main_fork \/ fork
    BY <1>1 DEF main_fork, fork
  <1>2. CASE signal \/ return
    BY <1>2 DEF signal, return
  <1>3. CASE network_rcv /\ tcp[fd] = "ESTABLISHED"
    BY <1>3 DEF network_rcv, StillConnected, Disconnected
  <1>4. CASE read_data /\ rx[fd] = <<>>
    BY <1>4 DEF read_data, ReadCommand, ReadEnd
  <1>5. CASE controller_msg_parase /\ netq = <<>>
    BY <1>5 DEF controller_msg_parase, NothingToParse, ParseCommand, Ring!Get
  <1>6. QED
    BY <1>1, <1>2, <1>3, <1>4, <1>5, AcceptTraffic, DisconnectTraffic, ReadTraffic,
       DispatchTraffic DEF Parent

LEMMA OtherTraffic ==
    ASSUME Shape, Traffic, AcceptFails \/ Interrupt \/ Core \/ \E c \in Conns : Child(c) \/ InterruptChild(c)
    PROVE  Traffic'
  <1> USE TrafficUntouched DEF netVars, parentVars
  <1>1. CASE AcceptFails \/ Interrupt
    BY <1>1 DEF AcceptFails, Interrupt
  <1>2. CASE Core
    BY <1>2 DEF Core, Publish, TakeForce
  <1>3. ASSUME NEW c \in Conns, Force_Monitor_Upload(c) \/ network_set_test(c)
        PROVE  Traffic'
    BY <1>3 DEF Force_Monitor_Upload, network_set_test
  <1>4. ASSUME NEW c \in Conns, network_set_write(c)
        PROVE  Traffic'
    <2>1. \A d \in Conns : tcp'[d] = "unused" <=> tcp[d] = "unused"
      BY <1>4 DEF network_set_write, WriteReaches, WriteIsAnswered, WriteFails, Shape, TypeOK
    <2>2. QED BY <1>4, <2>1 DEF network_set_write
  <1>5. ASSUME NEW c \in Conns, InterruptChild(c)
        PROVE  Traffic'
    BY <1>5 DEF InterruptChild
  <1>6. QED BY <1>1, <1>2, <1>3, <1>4, <1>5 DEF Child

LEMMA TrafficInvariant == Spec => []Traffic
  <1>1. Init => Traffic
    BY InitTraffic
  <1>2. Shape /\ Traffic /\ [Next]_vars => Traffic'
    <2> SUFFICES ASSUME Shape, Traffic, [Next]_vars PROVE Traffic'
      OBVIOUS
    <2>1. CASE UNCHANGED vars
      BY <2>1, TrafficUntouched DEF vars, netVars, parentVars
    <2>2. QED BY <2>1, PcTraffic, ParentTraffic, OtherTraffic DEF Next
  <1>3. QED BY <1>1, <1>2, ShapeInvariant, PTL DEF Spec

(* Commands are dispatched in the order of the clicks, none twice and none  *)
(* under another connection than its own; those of an ended connection that *)
(* are not dispatched were the last ones sent on it.                        *)
THEOREM CommandsStayInOrder == Spec => []CommandsInOrder
  <1>1. Traffic => CommandsInOrder
    BY DEF Traffic
  <1>2. QED BY <1>1, TrafficInvariant, PTL

-----------------------------------------------------------------------------
(* The PC has one socket: a connection begins after those before it ended.  *)
OneAfterAnother(states) ==
    \A c, d \in Conns :
        d < c /\ states[c] # "unused" => states[d] \notin {"unused", "ESTABLISHED"}

(* n is newer than everything the PC has been shown.                        *)
NewerThanShown(n) == \A i \in 1 .. Len(shown) : shown[i][2] < n

(* n is published, and older than the sample that waits in monitor_info.    *)
Old(n) == n <= published /\ (monitor # NoValue => n < monitor)

(* A child on its way to the write with a sample in its frame.              *)
Carries(c) == kid[c] \in {"check", "write"} /\ frame[c] # NoValue

ShownIsOld ==
    \A i \in 1 .. Len(shown) : tcp[shown[i][1]] # "unused" /\ Old(shown[i][2])

CarriedIsNewer ==
    \A c \in Conns : Carries(c) => Old(frame[c]) /\ NewerThanShown(frame[c])

Order ==
    /\ SamplesInOrder
    /\ OneAfterAnother(tcp)
    /\ monitor # NoValue => monitor = published
    /\ ShownIsOld
    /\ CarriedIsNewer

LEMMA InitOrder == Init => Order
  BY EmptySeq, BoundsAssumption
  DEF Init, Order, SamplesInOrder, OneAfterAnother, ShownIsOld, CarriedIsNewer, Carries

(* A step that shows, publishes and takes no sample.                        *)
LEMMA NoNews ==
    ASSUME Shape, Order, UNCHANGED <<monitor, published, shown, frame>>,
           OneAfterAnother(tcp)',
           \A c \in Conns : tcp[c] # "unused" => tcp'[c] # "unused",
           \A c \in Conns : kid'[c] \in {"check", "write"} => kid[c] \in {"check", "write"}
    PROVE  Order'
  <1>1. \A i \in 1 .. Len(shown) : shown[i][1] \in Conns
    <2>1. shown \in Seq(Conns \X Samples)
      BY DEF Shape, TypeOK
    <2>2. \A i \in 1 .. Len(shown) : shown[i] \in Conns \X Samples
      BY <2>1, ElementOfSeq
    <2>3. QED BY <2>2
  <1>2. ShownIsOld'
    BY <1>1 DEF Order, ShownIsOld, Old
  <1>3. CarriedIsNewer'
    BY DEF Order, CarriedIsNewer, Carries, Old, NewerThanShown
  <1>4. QED BY <1>2, <1>3 DEF Order, SamplesInOrder

LEMMA PcOrder ==
    ASSUME Shape, Order, NEW c \in Conns, Pc(c)
    PROVE  Order'
  <1> USE DEF kidVars, coreVars
  <1>1. tcp \in [Conns -> {"unused", "ESTABLISHED", "CLOSE_WAIT", "CLOSE"}] /\ Conns \subseteq Int
    BY BoundsAssumption DEF Shape, TypeOK, Conns
  <1>2. CASE Connect(c)
    <2>1. \A d \in Conns : d < c => tcp[d] \notin {"unused", "ESTABLISHED"}
      BY <1>1, <1>2, BoundsAssumption DEF Connect, Conns
    <2>2. tcp[c] = "unused" /\ \A d \in Conns : tcp'[d] = IF d = c THEN "ESTABLISHED" ELSE tcp[d]
      BY <1>1, <1>2 DEF Connect
    <2>3. OneAfterAnother(tcp)'
      BY <1>1, <2>1, <2>2 DEF Order, OneAfterAnother
    <2>4. QED BY <1>2, <2>2, <2>3, NoNews DEF Connect
  <1>3. CASE Disconnect(c) \/ Reset(c)
    <2>1. /\ tcp[c] = "ESTABLISHED"
          /\ \A d \in Conns : d # c => tcp'[d] = tcp[d]
          /\ tcp'[c] \in {"CLOSE_WAIT", "CLOSE"}
      BY <1>1, <1>3 DEF Disconnect, Reset
    <2>2. OneAfterAnother(tcp)'
      BY <2>1 DEF Order, OneAfterAnother
    <2>3. QED BY <1>3, <2>1, <2>2, NoNews DEF Disconnect, Reset
  <1>4. CASE \E command \in Buttons : Click(c, command)
    BY <1>4, NoNews DEF Click, Order, OneAfterAnother
  <1>5. QED BY <1>2, <1>3, <1>4 DEF Pc

LEMMA ParentOrder ==
    ASSUME Shape, Order, Parent \/ AcceptFails \/ Interrupt
    PROVE  Order'
  <1>1. UNCHANGED <<monitor, published, shown, frame, tcp>>
    BY DEF Parent, AcceptFails, Interrupt, Accept, main_fork, signal, network_rcv,
           read_data, fork, return, controller_msg_parase, netVars, kidVars, coreVars
  <1>2. kid \in [Conns -> Live \cup {"none", "dead"}]
    BY DEF Shape, TypeOK
  <1>3. \A c \in Conns : kid'[c] \in {"check", "write"} => kid[c] \in {"check", "write"}
    <2>1. \/ kid' = kid
          \/ Forked
          \/ \E p : kid' = Killed(p)
      BY DEF Parent, AcceptFails, Interrupt, Accept, main_fork, signal, network_rcv,
             StillConnected, Disconnected, read_data, fork, return,
             controller_msg_parase, kidVars
    <2>2. QED BY <1>2, <2>1 DEF Forked, Killed
  <1>4. QED BY <1>1, <1>3, NoNews DEF Order, OneAfterAnother

LEMMA CoreOrder ==
    ASSUME Shape, Order, Core
    PROVE  Order'
  <1>1. CASE TakeForce
    BY <1>1, NoNews DEF TakeForce, netVars, kidVars, Order, OneAfterAnother
  <1>2. CASE Publish
    <2>1. /\ UNCHANGED <<tcp, kid, frame, shown>>
          /\ published' = published + 1 /\ monitor' = published + 1
          /\ published \in Nat
      BY <1>2, BoundsAssumption DEF Publish, netVars, kidVars, Shape, TypeOK
    <2>2. /\ shown \in Seq(Conns \X Samples)
          /\ \A i \in 1 .. Len(shown) : shown[i][2] \in Int
      BY ElementOfSeq, BoundsAssumption DEF Shape, TypeOK, Samples
    <2>3. \A c \in Conns : Carries(c) => frame[c] \in Int
      BY BoundsAssumption DEF Shape, TypeOK, Samples, Carries
    <2>4. \A n \in Int : Old(n) => Old(n)'
      BY <2>1 DEF Old
    <2>5. ShownIsOld'
      BY <2>1, <2>2, <2>4 DEF Order, ShownIsOld
    <2>6. CarriedIsNewer'
      BY <2>1, <2>3, <2>4 DEF Order, CarriedIsNewer, Carries, NewerThanShown
    <2>7. QED BY <2>1, <2>5, <2>6 DEF Order, SamplesInOrder, OneAfterAnother
  <1>3. QED BY <1>1, <1>2 DEF Core

(* The child takes the sample that waits: it is newer than all shown.       *)
LEMMA UploadOrder ==
    ASSUME Shape, Order, NEW c \in Conns, Force_Monitor_Upload(c)
    PROVE  Order'
  <1>1. /\ UNCHANGED <<tcp, shown, published>>
        /\ monitor' = NoValue
        /\ frame'[c] = monitor
        /\ \A d \in Conns \ {c} : kid'[d] = kid[d] /\ frame'[d] = frame[d]
    BY DEF Force_Monitor_Upload, netVars, Shape, TypeOK
  <1>2. published \in Int /\ (monitor # NoValue => monitor = published)
    BY BoundsAssumption DEF Shape, TypeOK, Order
  <1>3. ShownIsOld'
    BY <1>1 DEF Order, ShownIsOld, Old
  <1>4. CarriedIsNewer'
    <2> SUFFICES ASSUME NEW d \in Conns, Carries(d)'
                 PROVE  Old(frame[d])' /\ NewerThanShown(frame[d])'
      BY DEF CarriedIsNewer
    <2>1. CASE d = c
      <3>1. frame'[d] = monitor /\ monitor # NoValue
        BY <1>1, <2>1 DEF Carries
      <3>2. NewerThanShown(monitor)
        BY <3>1 DEF Order, ShownIsOld, Old, NewerThanShown
      <3>3. QED BY <1>1, <1>2, <3>1, <3>2 DEF Old, NewerThanShown
    <2>2. CASE d # c
      BY <1>1, <2>2 DEF Order, CarriedIsNewer, Carries, Old, NewerThanShown
    <2>3. QED BY <2>1, <2>2
  <1>5. QED BY <1>1, <1>3, <1>4 DEF Order, SamplesInOrder, OneAfterAnother

(* The frame reaches the PC: nobody else carries one, and every connection  *)
(* that was shown anything began no later than this one.                    *)
LEMMA ShowOrder ==
    ASSUME Shape, Children, Order, NEW c \in Conns, network_set_write(c),
           WriteReaches(c), frame[c] # NoValue
    PROVE  Order'
  <1>1. /\ UNCHANGED <<tcp, monitor, published, frame>>
        /\ kid[c] = "write" /\ kid' = [kid EXCEPT ![c] = "upload"]
        /\ tcp[c] = "ESTABLISHED"
        /\ shown' = Append(shown, <<c, frame[c]>>)
    BY DEF network_set_write, WriteReaches, coreVars
  <1>2. /\ shown \in Seq(Conns \X Samples) /\ frame[c] \in Samples
        /\ <<c, frame[c]>> \in Conns \X Samples
        /\ Conns \subseteq Int /\ Samples \subseteq Int
    BY BoundsAssumption DEF Shape, TypeOK, Samples, Conns
  <1>3. /\ Len(shown) \in Nat /\ Len(shown') = Len(shown) + 1
        /\ \A i \in 1 .. Len(shown) : shown'[i] = shown[i]
        /\ shown'[Len(shown) + 1] = <<c, frame[c]>>
        /\ \A i \in 1 .. Len(shown) : shown[i] \in Conns \X Samples
    BY <1>1, <1>2, AppendProperties, LenProperties, ElementOfSeq
  <1>4. Old(frame[c]) /\ NewerThanShown(frame[c])
    BY <1>1 DEF Order, CarriedIsNewer, Carries
  <1>5. \A i \in 1 .. Len(shown) : shown[i][1] <= c /\ shown[i][2] < frame[c]
    <2> SUFFICES ASSUME NEW i \in 1 .. Len(shown)
                 PROVE  shown[i][1] <= c /\ shown[i][2] < frame[c]
      OBVIOUS
    <2>1. tcp[shown[i][1]] # "unused" /\ shown[i][1] \in Conns
      BY <1>3 DEF Order, ShownIsOld
    <2>2. ~ (c < shown[i][1])
      BY <1>1, <2>1 DEF Order, OneAfterAnother
    <2>3. QED BY <1>2, <1>4, <2>1, <2>2 DEF NewerThanShown
  <1>6. SamplesInOrder'
    <2> SUFFICES ASSUME NEW i \in 1 .. Len(shown'), NEW j \in 1 .. Len(shown'), i < j
                 PROVE  shown'[i][1] <= shown'[j][1] /\ shown'[i][2] < shown'[j][2]
      BY DEF SamplesInOrder
    <2>1. i \in 1 .. Len(shown) /\ shown'[i] = shown[i]
      BY <1>3
    <2>2. CASE j = Len(shown) + 1
      BY <1>3, <1>5, <2>1, <2>2
    <2>3. CASE j \in 1 .. Len(shown)
      BY <1>3, <2>1, <2>3 DEF Order, SamplesInOrder
    <2>4. QED BY <1>3, <2>2, <2>3
  <1>7. ShownIsOld'
    <2> SUFFICES ASSUME NEW i \in 1 .. Len(shown')
                 PROVE  tcp[shown'[i][1]] # "unused" /\ Old(shown'[i][2])
      BY <1>1 DEF ShownIsOld, Old
    <2>1. CASE i = Len(shown) + 1
      BY <1>1, <1>3, <1>4, <2>1
    <2>2. CASE i \in 1 .. Len(shown)
      BY <1>3, <2>2 DEF Order, ShownIsOld
    <2>3. QED BY <1>3, <2>1, <2>2
  <1>8. \A d \in Conns : ~ Carries(d)'
    <2>1. \A d \in Conns \ {c} : kid[d] \notin Live
      BY <1>1 DEF Children, OneUploader, Live
    <2>2. \A d \in Conns : kid'[d] = IF d = c THEN "upload" ELSE kid[d]
      BY <1>1 DEF Shape, TypeOK
    <2>3. QED BY <2>1, <2>2 DEF Carries, Live
  <1>9. QED BY <1>1, <1>6, <1>7, <1>8 DEF Order, CarriedIsNewer, OneAfterAnother

LEMMA ChildOrder ==
    ASSUME Shape, Children, Order, NEW c \in Conns, Child(c) \/ InterruptChild(c)
    PROVE  Order'
  <1>1. kid \in [Conns -> Live \cup {"none", "dead"}]
        /\ tcp \in [Conns -> {"unused", "ESTABLISHED", "CLOSE_WAIT", "CLOSE"}]
    BY DEF Shape, TypeOK
  <1>2. CASE network_set_test(c) \/ InterruptChild(c)
    <2>1. UNCHANGED <<monitor, published, shown, frame, tcp>>
      BY <1>2 DEF network_set_test, InterruptChild, netVars, coreVars
    <2>2. \A d \in Conns : kid'[d] \in {"check", "write"} => kid[d] \in {"check", "write"}
      BY <1>1, <1>2 DEF network_set_test, InterruptChild, Killed
    <2>3. QED BY <2>1, <2>2, NoNews DEF Order, OneAfterAnother
  <1>3. CASE network_set_write(c) /\ ~ (WriteReaches(c) /\ frame[c] # NoValue)
    <2>1. UNCHANGED <<monitor, published, shown, frame>>
      BY <1>3 DEF network_set_write, WriteReaches, WriteIsAnswered, WriteFails, coreVars
    <2>2. \A d \in Conns : kid'[d] \in {"check", "write"} => kid[d] \in {"check", "write"}
      BY <1>1, <1>3 DEF network_set_write, WriteReaches, WriteIsAnswered, WriteFails
    <2>3. \/ tcp' = tcp
          \/ tcp[c] = "CLOSE_WAIT" /\ tcp' = [tcp EXCEPT ![c] = "CLOSE"]
      BY <1>3 DEF network_set_write, WriteReaches, WriteIsAnswered, WriteFails
    <2>4. OneAfterAnother(tcp)' /\ \A d \in Conns : tcp[d] # "unused" => tcp'[d] # "unused"
      BY <1>1, <2>3 DEF Order, OneAfterAnother
    <2>5. QED BY <2>1, <2>2, <2>4, NoNews
  <1>4. QED BY <1>2, <1>3, UploadOrder, ShowOrder DEF Child

LEMMA OrderInvariant == Spec => []Order
  <1>1. Init => Order
    BY InitOrder
  <1>2. Shape /\ Children /\ Order /\ [Next]_vars => Order'
    <2> SUFFICES ASSUME Shape, Children, Order, [Next]_vars PROVE Order'
      OBVIOUS
    <2>1. CASE UNCHANGED vars
      BY <2>1, NoNews DEF vars, netVars, kidVars, coreVars, Order, OneAfterAnother
    <2>2. QED BY <2>1, PcOrder, ParentOrder, CoreOrder, ChildOrder DEF Next
  <1>3. QED BY <1>1, <1>2, ShapeInvariant, ChildrenInvariant, PTL DEF Spec

(* Whatever children are killed, interrupted and followed by others, and    *)
(* wherever, no sample reaches the PC twice or after a later one.           *)
THEOREM SamplesStayInOrder == Spec => []SamplesInOrder
  <1>1. Order => SamplesInOrder
    BY DEF Order
  <1>2. QED BY <1>1, OrderInvariant, PTL

-----------------------------------------------------------------------------
(* The processes implement the sequential service.                          *)

(* A child that lives is the child of the connection the parent holds, also *)
(* when the parent has ended and OneUploader says no more about it.         *)
Own == \A c \in Conns : kid[c] \in Live => fd = c

(* Connections wait in the order they were made, behind all accepted ones.  *)
InLine ==
    /\ \A i, j \in 1 .. Len(backlog) : i < j => backlog[i] < backlog[j]
    /\ \A c \in Accepted : \A i \in 1 .. Len(backlog) : c < backlog[i]

Sessions == Own /\ InLine

LEMMA InitSessions == Init => Sessions
  BY EmptySeq DEF Init, Sessions, Own, InLine, Live

LEMMA OwnStep ==
    ASSUME Shape, Own, Children', [Next]_vars
    PROVE  Own'
  <1>1. CASE parent' # "exited"
    BY <1>1 DEF Children, OneUploader, Own
  <1>2. ASSUME parent' = "exited"
        PROVE  fd' = fd /\ \A c \in Conns : kid'[c] \in Live => kid[c] \in Live
    <2> USE DEF netVars, parentVars, kidVars, coreVars
    <2>1. ASSUME NEW c \in Conns, Pc(c)
          PROVE  UNCHANGED <<fd, kid>>
      BY <2>1 DEF Pc, Connect, Click, Disconnect, Reset
    <2>2. ASSUME Parent
          PROVE  UNCHANGED <<fd, kid>>
      BY <1>2, <2>2 DEF Parent, Accept, main_fork, signal, network_rcv, StillConnected,
                        Disconnected, read_data, fork, return, controller_msg_parase
    <2>3. CASE AcceptFails \/ Interrupt
      BY <2>3, KilledIsDead DEF AcceptFails, Interrupt
    <2>4. CASE Core
      BY <2>4 DEF Core, Publish, TakeForce
    <2>5. ASSUME NEW c \in Conns, Child(c)
          PROVE  fd' = fd /\ \A d \in Conns : kid'[d] \in Live => kid[d] \in Live
      BY <2>5 DEF Child, Force_Monitor_Upload, network_set_test, network_set_write,
                  WriteReaches, WriteIsAnswered, WriteFails, Shape, TypeOK, Live
    <2>6. ASSUME NEW c \in Conns, InterruptChild(c)
          PROVE  fd' = fd /\ \A d \in Conns : kid'[d] \in Live => kid[d] \in Live
      BY <2>6, KilledIsDead, KilledTyped DEF InterruptChild, Shape, TypeOK, Live
    <2>7. CASE UNCHANGED vars
      BY <2>7 DEF vars
    <2>8. QED BY <2>1, <2>2, <2>3, <2>4, <2>5, <2>6, <2>7 DEF Next
  <1>3. QED BY <1>1, <1>2 DEF Own

(* Only accept and a new connection change who waits and who is accepted.   *)
LEMMA SameConnections ==
    ASSUME UNCHANGED backlog, \A c \in Conns : tcp'[c] = "unused" <=> tcp[c] = "unused"
    PROVE  Accepted' = Accepted
  BY DEF Accepted

LEMMA ConnectAccepts ==
    ASSUME Shape, NEW c \in Conns, Connect(c)
    PROVE  Accepted' = Accepted
  <1>1. /\ tcp[c] = "unused"
        /\ tcp' = [tcp EXCEPT ![c] = "ESTABLISHED"]
        /\ backlog' = Append(backlog, c)
        /\ backlog \in Seq(Conns)
        /\ \A d \in Conns : tcp'[d] = IF d = c THEN "ESTABLISHED" ELSE tcp[d]
    BY DEF Connect, Shape, TypeOK
  <1>2. /\ Len(backlog) \in Nat /\ Len(backlog') = Len(backlog) + 1
        /\ \A i \in 1 .. Len(backlog) : backlog'[i] = backlog[i]
        /\ backlog'[Len(backlog) + 1] = c
    BY <1>1, AppendProperties, LenProperties
  <1>3. \A d \in Conns : d \in Accepted <=> d \in Accepted'
    <2> SUFFICES ASSUME NEW d \in Conns PROVE d \in Accepted <=> d \in Accepted'
      OBVIOUS
    <2>1. CASE d = c
      BY <1>1, <1>2, <2>1 DEF Accepted
    <2>2. CASE d # c
      BY <1>1, <1>2, <2>2 DEF Accepted
    <2>3. QED BY <2>1, <2>2
  <1>4. QED BY <1>3 DEF Accepted

LEMMA AcceptAccepts ==
    ASSUME Shape, Traffic, Accept
    PROVE  /\ Head(backlog) \in Conns
           /\ fd' = Head(backlog)
           /\ Accepted' = Accepted \cup {Head(backlog)}
  <1>1. /\ backlog \in Seq(Conns) /\ backlog # <<>>
        /\ backlog' = Tail(backlog) /\ fd' = Head(backlog)
        /\ tcp' = tcp
    BY DEF Accept, Shape, TypeOK
  <1>2. /\ Len(backlog) \in Nat /\ Len(backlog) # 0
        /\ Len(backlog') = Len(backlog) - 1
        /\ \A i \in 1 .. Len(backlog') : backlog'[i] = backlog[i + 1]
        /\ Head(backlog) = backlog[1]
        /\ Head(backlog) \in Conns
    BY <1>1, HeadTailProperties, EmptySeq, LenProperties
  <1>3. tcp[Head(backlog)] # "unused"
    BY <1>2 DEF Traffic, NotAccepted, Waits
  <1>4. \A i \in 1 .. Len(backlog') : backlog'[i] # Head(backlog)
    <2> SUFFICES ASSUME NEW i \in 1 .. Len(backlog'), backlog[i + 1] = backlog[1]
                 PROVE  FALSE
      BY <1>2
    <2>1. i + 1 \in 1 .. Len(backlog) /\ 1 \in 1 .. Len(backlog) /\ i + 1 # 1
      BY <1>2
    <2>2. QED BY <2>1 DEF Traffic, NotAccepted
  <1>5. \A d \in Conns : d # Head(backlog) => (d \in Accepted <=> d \in Accepted')
    <2> SUFFICES ASSUME NEW d \in Conns, d # backlog[1]
                 PROVE  (\E i \in 1 .. Len(backlog) : backlog[i] = d)
                            <=> \E i \in 1 .. Len(backlog') : backlog'[i] = d
      BY <1>1, <1>2 DEF Accepted
    <2>1. ASSUME NEW i \in 1 .. Len(backlog), backlog[i] = d
          PROVE  \E k \in 1 .. Len(backlog') : backlog'[k] = d
      <3>1. i # 1
        BY <2>1
      <3>2. i - 1 \in 1 .. Len(backlog') /\ (i - 1) + 1 = i
        BY <1>2, <3>1
      <3>3. backlog'[i - 1] = d
        BY <1>2, <2>1, <3>2
      <3>4. QED BY <3>2, <3>3
    <2>2. ASSUME NEW i \in 1 .. Len(backlog'), backlog'[i] = d
          PROVE  \E k \in 1 .. Len(backlog) : backlog[k] = d
      BY <1>2, <2>2
    <2>3. QED BY <2>1, <2>2
  <1>6. Head(backlog) \in Accepted'
    BY <1>1, <1>2, <1>3, <1>4 DEF Accepted
  <1>7. Accepted \subseteq Conns /\ Accepted' \subseteq Conns
    BY DEF Accepted
  <1>8. QED BY <1>1, <1>2, <1>5, <1>6, <1>7
LEMMA InLineConnect ==
    ASSUME Shape, Traffic, Order, InLine, NEW c \in Conns, Connect(c)
    PROVE  InLine'
  <1>1. /\ tcp[c] = "unused"
        /\ backlog' = Append(backlog, c)
        /\ backlog \in Seq(Conns)
        /\ Conns \subseteq Int
    BY BoundsAssumption DEF Connect, Shape, TypeOK, Conns
  <1>2. /\ Len(backlog) \in Nat /\ Len(backlog') = Len(backlog) + 1
        /\ \A i \in 1 .. Len(backlog) : backlog'[i] = backlog[i] /\ backlog[i] \in Conns
        /\ backlog'[Len(backlog) + 1] = c
    BY <1>1, AppendProperties, LenProperties, ElementOfSeq
  <1>3. \A d \in Conns : tcp[d] # "unused" => d < c
    BY <1>1 DEF Order, OneAfterAnother
  <1>4. \A i \in 1 .. Len(backlog) : backlog[i] < c
    <2> SUFFICES ASSUME NEW i \in 1 .. Len(backlog) PROVE backlog[i] < c
      OBVIOUS
    <2>1. backlog[i] \in Conns /\ tcp[backlog[i]] # "unused"
      BY <1>2 DEF Traffic, NotAccepted, Waits
    <2>2. QED BY <1>3, <2>1
  <1>5. \A i, j \in 1 .. Len(backlog') : i < j => backlog'[i] < backlog'[j]
    <2> SUFFICES ASSUME NEW i \in 1 .. Len(backlog'), NEW j \in 1 .. Len(backlog'), i < j
                 PROVE  backlog'[i] < backlog'[j]
      OBVIOUS
    <2>1. i \in 1 .. Len(backlog)
      BY <1>2
    <2>2. CASE j = Len(backlog) + 1
      BY <1>2, <1>4, <2>1, <2>2
    <2>3. CASE j \in 1 .. Len(backlog)
      BY <1>2, <2>1, <2>3 DEF InLine
    <2>4. QED BY <1>2, <2>2, <2>3
  <1>6. ASSUME NEW d \in Accepted, NEW i \in 1 .. Len(backlog')
        PROVE  d < backlog'[i]
    <2>1. CASE i = Len(backlog) + 1
      BY <1>2, <1>3, <2>1 DEF Accepted
    <2>2. CASE i \in 1 .. Len(backlog)
      BY <1>2, <2>2 DEF InLine
    <2>3. QED BY <1>2, <2>1, <2>2
  <1>7. QED BY <1>5, <1>6, ConnectAccepts DEF InLine

LEMMA InLineAccept ==
    ASSUME Shape, Traffic, InLine, Accept
    PROVE  InLine'
  <1>1. /\ backlog \in Seq(Conns) /\ backlog # <<>> /\ backlog' = Tail(backlog)
    BY DEF Accept, Shape, TypeOK
  <1>2. /\ Len(backlog) \in Nat /\ Len(backlog) # 0
        /\ Len(backlog') = Len(backlog) - 1
        /\ \A i \in 1 .. Len(backlog') : backlog'[i] = backlog[i + 1]
        /\ Head(backlog) = backlog[1]
    BY <1>1, HeadTailProperties, EmptySeq, LenProperties
  <1>3. \A i \in 1 .. Len(backlog') : i + 1 \in 1 .. Len(backlog) /\ 1 \in 1 .. Len(backlog) /\ 1 < i + 1
    BY <1>2
  <1>4. \A i, j \in 1 .. Len(backlog') : i < j => backlog'[i] < backlog'[j]
    BY <1>2, <1>3 DEF InLine
  <1>5. ASSUME NEW d \in Accepted', NEW i \in 1 .. Len(backlog')
        PROVE  d < backlog'[i]
    BY <1>2, <1>3, AcceptAccepts DEF InLine
  <1>6. QED BY <1>4, <1>5 DEF InLine

(* Every other step leaves the line of waiting connections as it is.        *)
LEMMA LineUntouched ==
    ASSUME Shape, [Next]_vars, ~ Accept, ~ \E c \in Conns : Connect(c)
    PROVE  UNCHANGED backlog /\ Accepted' = Accepted
  <1> USE DEF netVars
  <1>1. CASE UNCHANGED <<tcp, backlog>>
    BY <1>1, SameConnections
  <1>2. ASSUME NEW c \in Conns, Disconnect(c) \/ Reset(c) \/ network_set_write(c)
        PROVE  UNCHANGED backlog /\ Accepted' = Accepted
    <2>1. UNCHANGED backlog
      BY <1>2 DEF Disconnect, Reset, network_set_write
    <2>2. \A d \in Conns : tcp'[d] = "unused" <=> tcp[d] = "unused"
      BY <1>2 DEF Disconnect, Reset, network_set_write, WriteReaches, WriteIsAnswered,
                  WriteFails, Shape, TypeOK
    <2>3. QED BY <2>1, <2>2, SameConnections
  <1>3. CASE Parent \/ AcceptFails \/ Interrupt
    BY <1>1, <1>3 DEF Parent, AcceptFails, Interrupt, main_fork, signal, network_rcv,
                      read_data, fork, return, controller_msg_parase
  <1>4. CASE Core \/ UNCHANGED vars
    BY <1>1, <1>4 DEF Core, Publish, TakeForce, vars
  <1>5. ASSUME NEW c \in Conns, Pc(c) \/ Child(c) \/ InterruptChild(c)
        PROVE  UNCHANGED backlog /\ Accepted' = Accepted
    BY <1>1, <1>2, <1>5 DEF Pc, Click, Child, InterruptChild, Force_Monitor_Upload,
                            network_set_test
  <1>6. QED BY <1>3, <1>4, <1>5 DEF Next

LEMMA SessionsInvariant == Spec => []Sessions
  <1>1. Init => Sessions
    BY InitSessions
  <1>2. Shape /\ Traffic /\ Order /\ Children' /\ Sessions /\ [Next]_vars => Sessions'
    <2> SUFFICES ASSUME Shape, Traffic, Order, Children', Sessions, [Next]_vars
                 PROVE  Sessions'
      OBVIOUS
    <2>1. Own'
      BY OwnStep DEF Sessions
    <2>2. CASE Accept \/ \E c \in Conns : Connect(c)
      BY <2>1, <2>2, InLineAccept, InLineConnect DEF Sessions
    <2>3. CASE ~ (Accept \/ \E c \in Conns : Connect(c))
      BY <2>1, <2>3, LineUntouched DEF Sessions, InLine
    <2>4. QED BY <2>2, <2>3
  <1>3. QED
    BY <1>1, <1>2, ShapeInvariant, ChildrenInvariant, TrafficInvariant, OrderInvariant,
       PTL DEF Spec

(* What the service sees of a step that only the processes notice.          *)
LEMMA ServiceStutters ==
    ASSUME UNCHANGED <<fd, sent, handled, service, virtual, applied, published, shown>>,
           Accepted' = Accepted, Ended' = Ended
    PROVE  UNCHANGED Service!fsvars
  BY DEF Service!fsvars, Service!sessionVars, Service!commandVars, Service!coreVars,
         Service!sampleVars

LEMMA InitServes == Init => Service!ServiceInit
  <1> SUFFICES ASSUME Init PROVE Service!ServiceInit
    OBVIOUS
  <1>1. Accepted = {} /\ Ended = {}
    BY DEF Init, Accepted, Ended
  <1>2. published \in {0, 1}
    BY BoundsAssumption DEF Init
  <1>3. virtual \in Forces \cup {NoValue} /\ applied = NoValue
    BY DEF Init, Virt!SInit
  <1>4. QED BY <1>1, <1>2, <1>3 DEF Init, Service!ServiceInit

LEMMA PcServes ==
    ASSUME Shape, NEW c \in Conns, Pc(c)
    PROVE  [Service!ServiceNext]_(Service!fsvars)
  <1> USE DEF parentVars, kidVars, coreVars
  <1>1. tcp \in [Conns -> {"unused", "ESTABLISHED", "CLOSE_WAIT", "CLOSE"}]
    BY DEF Shape, TypeOK
  <1>2. CASE Connect(c)
    <2>1. Ended' = Ended
      BY <1>1, <1>2 DEF Connect, Ended
    <2>2. QED BY <1>2, <2>1, ConnectAccepts, ServiceStutters DEF Connect
  <1>3. CASE Disconnect(c) \/ Reset(c)
    <2>1. /\ tcp[c] = "ESTABLISHED"
          /\ \A d \in Conns : d # c => tcp'[d] = tcp[d]
          /\ tcp'[c] \in {"CLOSE_WAIT", "CLOSE"}
      BY <1>1, <1>3 DEF Disconnect, Reset
    <2>2. c \notin Ended /\ Ended' = Ended \cup {c}
      BY <2>1 DEF Ended
    <2>3. Accepted' = Accepted
      BY <1>3, <2>1, SameConnections DEF Disconnect, Reset
    <2>4. Service!Leave(c)
      BY <1>3, <2>2, <2>3 DEF Disconnect, Reset, Service!Leave, Service!commandVars,
                              Service!coreVars, Service!sampleVars
    <2>5. QED BY <2>4 DEF Service!ServiceNext
  <1>4. ASSUME NEW command \in Buttons, Click(c, command)
        PROVE  Service!ServiceNext
    <2>1. c \notin Ended /\ Accepted' = Accepted /\ Ended' = Ended
      BY <1>4, SameConnections DEF Click, Ended
    <2>2. Service!Send(c, command)
      BY <1>4, <2>1 DEF Click, Service!Send, Service!sessionVars, Service!coreVars,
                        Service!sampleVars
    <2>3. QED BY <2>2, ButtonTyped DEF Service!ServiceNext
  <1>5. QED BY <1>2, <1>3, <1>4 DEF Pc

LEMMA AcceptServes ==
    ASSUME Shape, Traffic, InLine, Accept
    PROVE  Service!ServiceNext
  <1>1. /\ Head(backlog) \in Conns /\ fd' = Head(backlog)
        /\ Accepted' = Accepted \cup {Head(backlog)}
    BY AcceptAccepts
  <1>2. fd = NoValue /\ Ended' = Ended
    BY DEF Accept, Ended, Shape, HoldsConnection
  <1>3. \A d \in Accepted : d < Head(backlog)
    <2>1. Len(backlog) \in Nat /\ Len(backlog) # 0 /\ Head(backlog) = backlog[1]
      BY EmptySeq, LenProperties, HeadTailProperties DEF Accept, Shape, TypeOK
    <2>2. 1 \in 1 .. Len(backlog)
      BY <2>1
    <2>3. QED BY <2>1, <2>2 DEF InLine
  <1>4. Service!Begin(Head(backlog))
    BY <1>1, <1>2, <1>3
    DEF Accept, Service!Begin, Service!commandVars, Service!coreVars, Service!sampleVars,
        kidVars, coreVars
  <1>5. QED BY <1>1, <1>4 DEF Service!ServiceNext

LEMMA DisconnectServes ==
    ASSUME Shape, Traffic, network_rcv, tcp[fd] # "ESTABLISHED"
    PROVE  Service!ServiceNext
  <1>1. /\ UNCHANGED <<netVars, handled, service, sent, shown, coreVars>>
        /\ fd \in Conns /\ fd' = NoValue
    BY DEF network_rcv, StillConnected, Disconnected, Shape, HoldsConnection
  <1>2. tcp[fd] # "unused"
    BY <1>1 DEF Traffic, NotAccepted, Untouched
  <1>3. fd \in Ended /\ Ended' = Ended /\ Accepted' = Accepted
    BY <1>1, <1>2, SameConnections DEF Ended, netVars, Shape, TypeOK
  <1>4. Service!End
    BY <1>1, <1>3 DEF Service!End, Service!commandVars, Service!coreVars,
                      Service!sampleVars, coreVars
  <1>5. QED BY <1>4 DEF Service!ServiceNext

(* The one command in the ring is the first the session has not handled.    *)
LEMMA ParseServes ==
    ASSUME Shape, Traffic, controller_msg_parase, netq # <<>>
    PROVE  Service!ServiceNext
  <1> DEFINE command == Head(netq)
             done == handled[fd]
  <1>1. /\ UNCHANGED <<netVars, fd, kidVars, monitor, published, sent>>
        /\ fd \in Conns
        /\ handled' = [handled EXCEPT ![fd] = Append(handled[fd], Head(netq))]
        /\ Dispatch(command)
    BY DEF controller_msg_parase, NothingToParse, ParseCommand, Ring!Get, Shape, HoldsConnection
  <1>2. /\ done \in Seq(Pc_Comm_Cmd_t) /\ netq \in Seq(Pc_Comm_Cmd_t)
        /\ rx[fd] \in Seq(Pc_Comm_Cmd_t)
        /\ sent[fd] = done \o netq \o rx[fd]
    BY <1>1 DEF Shape, TypeOK, Traffic, CommandsInOrder
  <1>3. /\ Len(done) + 1 <= Len(sent[fd])
        /\ sent[fd][Len(done) + 1] = command
    <2>1. /\ Len(done) + 1 <= Len((done \o netq) \o rx[fd])
          /\ ((done \o netq) \o rx[fd])[Len(done) + 1] = command
      <3> HIDE DEF done
      <3>1. QED BY <1>2, NextOfConcat
    <2>2. QED BY <1>2, <2>1
  <1>4. Service!Tell(command) /\ UNCHANGED applied
    <2>1. NamedCall = Servo_Force_Comm_Cmd
      BY CallsAreNamed
    <2>2. CASE command.cmd \in DOMAIN Servo_Force_Comm_Cmd
      <3>1. command.cmd \notin {"FORCE_GIVE_START", "FORCE_GIVE_STOP"}
        BY <2>2 DEF Servo_Force_Comm_Cmd
      <3>2. QED BY <1>1, <2>2, <2>1, <3>1 DEF Dispatch, Service!Tell
    <2>3. CASE command.cmd \notin DOMAIN Servo_Force_Comm_Cmd
      <3>1. Force_Virtual_Download(command.params) /\ UNCHANGED service
        BY <1>1, <2>3 DEF Dispatch
      <3>2. /\ virtual' = IF virtual = NoValue THEN command.params ELSE virtual
            /\ UNCHANGED applied
        BY <3>1 DEF Force_Virtual_Download, Virt!Put
      <3>3. QED BY <2>3, <2>1, <3>1, <3>2 DEF Service!Tell
    <2>4. QED BY <2>2, <2>3
  <1>5. Accepted' = Accepted /\ Ended' = Ended
    BY <1>1, SameConnections DEF Ended, netVars
  <1> HIDE DEF command
  <1>6. fd # NoValue
    BY <1>1, NoValueIsNoConnection
  <1>7. handled' = [handled EXCEPT ![fd] = Append(@, sent[fd][Len(done) + 1])]
    BY <1>1, <1>3 DEF command
  <1>8. Service!Handle
    BY <1>1, <1>3, <1>4, <1>5, <1>6, <1>7
    DEF Service!Handle, Service!sessionVars, Service!sampleVars, kidVars
  <1>9. QED BY <1>8 DEF Service!ServiceNext

LEMMA ParentServes ==
    ASSUME Shape, Traffic, InLine, Parent \/ AcceptFails \/ Interrupt
    PROVE  [Service!ServiceNext]_(Service!fsvars)
  <1> USE DEF netVars, kidVars, coreVars
  <1>1. ASSUME UNCHANGED <<tcp, backlog, fd, sent, handled, service, virtual, applied,
                           published, shown>>
        PROVE  UNCHANGED Service!fsvars
    BY <1>1, ServiceStutters, SameConnections DEF Ended
  <1>2. CASE main_fork \/ signal \/ read_data \/ fork \/ return \/ AcceptFails \/ Interrupt
    BY <1>1, <1>2 DEF main_fork, signal, read_data, fork, return, AcceptFails, Interrupt
  <1>3. CASE network_rcv /\ tcp[fd] = "ESTABLISHED"
    BY <1>1, <1>3 DEF network_rcv, StillConnected, Disconnected
  <1>4. CASE controller_msg_parase /\ netq = <<>>
    BY <1>1, <1>4 DEF controller_msg_parase, NothingToParse, ParseCommand, Ring!Get
  <1>5. QED
    BY <1>2, <1>3, <1>4, AcceptServes, DisconnectServes, ParseServes DEF Parent

LEMMA CoreServes ==
    ASSUME Core
    PROVE  [Service!ServiceNext]_(Service!fsvars)
  <1> USE DEF netVars, parentVars, kidVars
  <1>1. Accepted' = Accepted /\ Ended' = Ended
    BY SameConnections DEF Core, Publish, TakeForce, Ended
  <1>2. CASE Publish
    <2>1. Service!Publish
      BY <1>1, <1>2 DEF Publish, Service!Publish, Service!sessionVars,
                        Service!commandVars, Service!coreVars
    <2>2. QED BY <2>1 DEF Service!ServiceNext
  <1>3. CASE TakeForce
    <2>1. Service!Take
      BY <1>1, <1>3 DEF TakeForce, Virt!Take, Service!Take, Service!sessionVars,
                        Service!commandVars, Service!sampleVars
    <2>2. QED BY <2>1 DEF Service!ServiceNext
  <1>4. QED BY <1>2, <1>3 DEF Core

LEMMA ShowServes ==
    ASSUME Shape, Order, Own, NEW c \in Conns, network_set_write(c), WriteReaches(c),
           frame[c] # NoValue
    PROVE  Service!ServiceNext
  <1>1. /\ UNCHANGED <<rx, backlog, tcp, parentVars, coreVars, service, sent>>
        /\ kid[c] = "write" /\ tcp[c] = "ESTABLISHED"
        /\ shown' = Append(shown, <<c, frame[c]>>)
    BY DEF network_set_write, WriteReaches
  <1>2. fd = c /\ fd # NoValue /\ fd \notin Ended
    BY <1>1, NoValueIsNoConnection DEF Own, Live, Ended
  <1>3. /\ frame[c] \in 1 .. published
        /\ \A i \in 1 .. Len(shown) : shown[i][2] < frame[c]
    <2>1. Old(frame[c]) /\ NewerThanShown(frame[c])
      BY <1>1 DEF Order, CarriedIsNewer, Carries
    <2>2. frame[c] \in Samples /\ published \in Int
      BY BoundsAssumption DEF Shape, TypeOK
    <2>3. QED BY <2>1, <2>2, BoundsAssumption DEF Old, NewerThanShown, Samples
  <1>4. Accepted' = Accepted /\ Ended' = Ended
    BY <1>1, SameConnections DEF Ended
  <1>5. Service!Show(frame[c])
    BY <1>1, <1>2, <1>3, <1>4
    DEF Service!Show, Service!sessionVars, Service!commandVars, Service!coreVars,
        parentVars, coreVars
  <1>6. QED BY <1>3, <1>5 DEF Service!ServiceNext

LEMMA ChildServes ==
    ASSUME Shape, Order, Own, NEW c \in Conns, Child(c) \/ InterruptChild(c)
    PROVE  [Service!ServiceNext]_(Service!fsvars)
  <1> USE DEF netVars, parentVars, coreVars
  <1>1. CASE Force_Monitor_Upload(c) \/ network_set_test(c) \/ InterruptChild(c)
    <2>1. Accepted' = Accepted /\ Ended' = Ended
      BY <1>1, SameConnections DEF Force_Monitor_Upload, network_set_test, InterruptChild, Ended
    <2>2. QED
      BY <1>1, <2>1, ServiceStutters DEF Force_Monitor_Upload, network_set_test, InterruptChild
  <1>2. CASE network_set_write(c) /\ ~ (WriteReaches(c) /\ frame[c] # NoValue)
    <2>1. UNCHANGED <<backlog, fd, sent, handled, service, virtual, applied, published, shown>>
      BY <1>2 DEF network_set_write, WriteReaches, WriteIsAnswered, WriteFails
    <2>2. \/ tcp' = tcp
          \/ tcp[c] = "CLOSE_WAIT" /\ tcp' = [tcp EXCEPT ![c] = "CLOSE"]
      BY <1>2 DEF network_set_write, WriteReaches, WriteIsAnswered, WriteFails
    <2>3. Ended' = Ended /\ \A d \in Conns : tcp'[d] = "unused" <=> tcp[d] = "unused"
      BY <2>2 DEF Ended, Shape, TypeOK
    <2>4. QED BY <2>1, <2>3, SameConnections, ServiceStutters
  <1>3. QED BY <1>1, <1>2, ShowServes DEF Child

LEMMA StepServes ==
    ASSUME Shape, Traffic, Order, Sessions, [Next]_vars
    PROVE  [Service!ServiceNext]_(Service!fsvars)
  <1>1. CASE UNCHANGED vars
    BY <1>1, ServiceStutters, SameConnections
    DEF vars, netVars, parentVars, kidVars, coreVars, Ended
  <1>2. CASE Next
    BY <1>2, PcServes, ParentServes, CoreServes, ChildServes DEF Next, Sessions
  <1>3. QED BY <1>1, <1>2

(* Whatever processes are forked, killed and interrupted, and wherever: to  *)
(* the PC and the core the server is one sequential program that serves one *)
(* connection after the other, keeps each until it has ended, carries out   *)
(* its commands in order, each once, and shows newer and newer samples.     *)
THEOREM ImplementsService == Spec => ServiceSpec
  <1>1. Init => Service!ServiceInit
    BY InitServes
  <1>2. Shape /\ Traffic /\ Order /\ Sessions /\ [Next]_vars
            => [Service!ServiceNext]_(Service!fsvars)
    BY StepServes
  <1>3. QED
    BY <1>1, <1>2, ShapeInvariant, TrafficInvariant, OrderInvariant, SessionsInvariant,
       PTL DEF Spec, ServiceSpec, Service!FSSpec
=============================================================================
