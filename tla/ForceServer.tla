----------------------------- MODULE ForceServer -----------------------------
(***************************************************************************)
(* The server of src/VirtualForce_linux as its processes run it: the       *)
(* parent's loop (main.c, network_rcv, controller_msg_parase), the child   *)
(* each connection gets for uploading (controller_display_res,             *)
(* network_set), and around them the PC's socket, the kernel and the force *)
(* core.                                                                   *)
(*                                                                         *)
(* Three components appear here by what they promise: the circular buffer  *)
(* as a FifoQueue (CircleBuffer implements it while at most Window items   *)
(* wait in it), and the areas virtual_info and monitor_info as             *)
(* OnePlaceSlots (SharedAreas implements them word by word).  The PC gives *)
(* a stop only after its start: PcClient's StopFollowsStart.               *)
(*                                                                         *)
(* A connection, the child forked for it and that child's pid carry the    *)
(* same number.  A command is whole: a fread in read_data gets its 32      *)
(* bytes or none.  kill(SIGKILL) ends the child at once.                   *)
(***************************************************************************)
EXTENDS Integers, Sequences, SequencesExt

CONSTANTS
    MaxConns,   \* bound: the connections the PC makes
    MaxCmds,    \* bound: the commands the PC sends on one connection
    MaxSamples, \* bound: the samples the core publishes
    Forces,     \* the force vectors
    Rest,       \* the vector of zeros
    Buttons,    \* the commands the PC's buttons send
    NoValue     \* no connection, an empty slot, a blank frame

Conns == 1 .. MaxConns
Samples == 1 .. MaxSamples

ASSUME BoundsAssumption ==
    MaxConns \in Nat /\ MaxCmds \in Nat /\ MaxSamples \in Nat
ASSUME RestAssumption == Rest \in Forces
ASSUME NoValueAssumption == NoValue \notin Int /\ NoValue \notin Forces

(* Mutant of Servo_Force_Comm_Cmd: the call for working is another one's. *)
WrongCall ==
    [Cmd_resetFault |-> "CMD_RESET_FAULT", Cmd_idle |-> "CMD_IDLE",
     Cmd_working |-> "CMD_SWITCH_MODE", Cmd_setFault |-> "CMD_SET_FAULT"]

(* What the force core is told for each state-machine command of the PC.   *)
Servo_Force_Comm_Cmd ==
    [Cmd_resetFault |-> "CMD_RESET_FAULT", Cmd_idle |-> "CMD_IDLE",
     Cmd_working |-> "CMD_WORKING", Cmd_setFault |-> "CMD_SET_FAULT"]

ServiceCalls == {"CMD_WORKING", "CMD_IDLE", "CMD_SET_FAULT", "CMD_RESET_FAULT"}

(* Pc_Comm_Cmd_t: only the start of a force has parameters that are not 0. *)
Pc_Comm_Cmd_t ==
    [cmd : DOMAIN Servo_Force_Comm_Cmd \cup {"FORCE_GIVE_STOP"}, params : {Rest}]
        \cup [cmd : {"FORCE_GIVE_START"}, params : Forces]

ASSUME ButtonsAssumption == Buttons \subseteq Pc_Comm_Cmd_t

VARIABLES
    tcp,        \* the server's end of each connection
    reset,      \* a reset of the connection no process has been told of yet
    rx,         \* commands received and unread (socket queue and stdio buffer)
    backlog,    \* connections waiting for accept
    parent,     \* where the parent is
    fd,         \* the connection in the parent's net_buff.fd and net_buff.fp
    pid,        \* network_rcv's pid: 0 none, -1 fork failed
    pid_child,  \* main's pid_child, which sighandler kills
    netq,       \* the commands in net_buff's circular buffer
    buff,       \* controller_msg_parase: the command pulled last
    kid,        \* where the child of each connection is
    inherited,  \* the pid_child in each child's memory, which its sighandler kills
    frame,      \* the sample in each child's frame, NoValue in a blank one
    monitor,    \* monitor_info: the sample published and not consumed
    virtual,    \* virtual_info: the force vector published and not consumed
    service,    \* service_info: the command last stored for the core
    applied,    \* the force vector the core applies
    sent,       \* history: the commands sent on each connection
    handled,    \* history: the commands dispatched while it was the parent's
    published,  \* history: the number of the last sample published
    shown       \* history: the samples that reached the PC, in order

netVars == <<tcp, reset, rx, backlog>>
parentVars == <<parent, fd, pid, pid_child, netq, buff, handled>>
kidVars == <<kid, inherited, frame, shown>>
coreVars == <<monitor, published, virtual, applied>>
vars == <<netVars, parentVars, kidVars, coreVars, service, sent>>

Live == {"upload", "check", "write"}

(* The circular buffer and the virtual-force mailbox, by what they promise. *)
Ring == INSTANCE FifoQueue WITH
    Items <- Pc_Comm_Cmd_t, NoItem <- NoValue, queue <- netq, taken <- buff

Virt == INSTANCE OnePlaceSlot WITH
    Values <- Forces, Leftover <- Forces, Empty <- NoValue, slot <- virtual, got <- applied

TypeOK ==
    /\ tcp \in [Conns -> {"unused", "ESTABLISHED", "CLOSE_WAIT", "CLOSE"}]
    /\ reset \in [Conns -> BOOLEAN]
    /\ rx \in [Conns -> Seq(Pc_Comm_Cmd_t)]
    /\ backlog \in Seq(Conns)
    /\ parent \in {"connect", "main_fork", "signal", "check", "read", "parse",
                   "accept", "fork", "return", "exited"}
    /\ fd \in Conns \cup {NoValue}
    /\ pid \in Conns \cup {0, -1}
    /\ pid_child \in Conns \cup {0, -1}
    /\ netq \in Seq(Pc_Comm_Cmd_t)
    /\ buff \in Pc_Comm_Cmd_t \cup {NoValue}
    /\ kid \in [Conns -> Live \cup {"none", "dead"}]
    /\ inherited \in [Conns -> Conns \cup {0, -1}]
    /\ frame \in [Conns -> Samples \cup {NoValue}]
    /\ monitor \in Samples \cup {NoValue}
    /\ virtual \in Forces \cup {NoValue}
    /\ service \in ServiceCalls \cup {NoValue}
    /\ applied \in Forces \cup {NoValue}
    /\ sent \in [Conns -> Seq(Pc_Comm_Cmd_t)]
    /\ handled \in [Conns -> Seq(Pc_Comm_Cmd_t)]
    /\ published \in 0 .. MaxSamples
    /\ shown \in Seq(Conns \X Samples)

(* Nothing clears the shared areas at start: both mailboxes may still hold  *)
(* what an earlier run left in them.                                        *)
Init ==
    /\ tcp = [c \in Conns |-> "unused"]
    /\ reset = [c \in Conns |-> FALSE]
    /\ rx = [c \in Conns |-> <<>>]
    /\ backlog = <<>>
    /\ parent = "connect"
    /\ fd = NoValue
    /\ pid = 0
    /\ pid_child = 0
    /\ kid = [c \in Conns |-> "none"]
    /\ inherited = [c \in Conns |-> 0]
    /\ frame = [c \in Conns |-> NoValue]
    /\ published \in 0 .. 1 \cap 0 .. MaxSamples
    /\ monitor = IF published = 0 THEN NoValue ELSE published
    /\ service = NoValue
    /\ sent = [c \in Conns |-> <<>>]
    /\ handled = [c \in Conns |-> <<>>]
    /\ shown = <<>>
    /\ Ring!QInit
    /\ Virt!SInit

-----------------------------------------------------------------------------
(* The PC (widget.cpp): one socket, used again after it was closed.         *)

(* A child inherits the listening socket too. *)
Listening == parent # "exited" \/ \E c \in Conns : kid[c] \in Live

Connect(c) ==
    /\ Listening
    /\ tcp[c] = "unused"
    /\ \A d \in 1 .. c - 1 : tcp[d] \notin {"unused", "ESTABLISHED"}
    /\ tcp' = [tcp EXCEPT ![c] = "ESTABLISHED"]
    /\ backlog' = Append(backlog, c)
    /\ UNCHANGED <<reset, rx, parentVars, kidVars, coreVars, service, sent>>

(* The force button gives its stop when it is released: after a start, the  *)
(* mouse can send nothing but the stop, and a stop only after a start.      *)
InHand(c) == sent[c] # <<>> /\ Last(sent[c]).cmd = "FORCE_GIVE_START"

Click(c, command) ==
    /\ tcp[c] = "ESTABLISHED"
    /\ Len(sent[c]) < MaxCmds
    /\ InHand(c) <=> command.cmd = "FORCE_GIVE_STOP"
    /\ rx' = [rx EXCEPT ![c] = Append(@, command)]
    /\ sent' = [sent EXCEPT ![c] = Append(@, command)]
    /\ UNCHANGED <<tcp, reset, backlog, parentVars, kidVars, coreVars, service>>

Disconnect(c) ==
    /\ tcp[c] = "ESTABLISHED"
    /\ tcp' = [tcp EXCEPT ![c] = "CLOSE_WAIT"]
    /\ UNCHANGED <<reset, rx, backlog, parentVars, kidVars, coreVars, service, sent>>

(* A reset: the PC closed with a frame unread, or the link was given up.    *)
(* What was received before it can still be read.                           *)
Reset(c) ==
    /\ tcp[c] = "ESTABLISHED"
    /\ tcp' = [tcp EXCEPT ![c] = "CLOSE"]
    /\ reset' = [reset EXCEPT ![c] = TRUE]
    /\ UNCHANGED <<rx, backlog, parentVars, kidVars, coreVars, service, sent>>

-----------------------------------------------------------------------------
(* The parent.                                                              *)

(* accept and fdopen, of network_client_connect and of network_rcv. *)
Accept ==
    /\ parent \in {"connect", "accept"}
    /\ backlog # <<>>
    /\ fd' = Head(backlog)
    /\ backlog' = Tail(backlog)
    /\ parent' = IF parent = "connect" THEN "main_fork" ELSE "fork"
    /\ UNCHANGED <<tcp, reset, rx, pid, pid_child, netq, buff, handled,
                   kidVars, coreVars, service, sent>>

AcceptFails ==
    /\ parent \in {"connect", "accept"}
    /\ parent' = "exited"
    /\ UNCHANGED <<netVars, fd, pid, pid_child, netq, buff, handled,
                   kidVars, coreVars, service, sent>>

Forked ==
    /\ kid' = [kid EXCEPT ![fd] = "upload"]
    /\ inherited' = [inherited EXCEPT ![fd] = pid_child]

main_fork ==
    /\ parent = "main_fork"
    /\ \/ Forked /\ pid_child' = fd /\ parent' = "signal"
       \/ pid_child' = -1 /\ parent' = "exited" /\ UNCHANGED <<kid, inherited>>
    /\ UNCHANGED <<netVars, fd, pid, netq, buff, handled, frame, shown,
                   coreVars, service, sent>>

signal ==
    /\ parent = "signal"
    /\ parent' = "check"
    /\ UNCHANGED <<netVars, fd, pid, pid_child, netq, buff, handled,
                   kidVars, coreVars, service, sent>>

(* kill(p, SIGKILL); for p = -1 it ends every process. *)
Killed(p) ==
    [c \in Conns |-> IF kid[c] \in Live /\ p \in {c, -1} THEN "dead" ELSE kid[c]]

CLIENT_BUFF_SIZE == 32
MAX_SIZE == 280

(* is_buff_full: one item more would bring the tail onto the head; with     *)
(* these sizes the 35th is the first that does.                             *)
RingFull == ((Len(netq) + 1) * CLIENT_BUFF_SIZE) % MAX_SIZE = 0

StillConnected ==
    /\ tcp[fd] = "ESTABLISHED"
    /\ parent' = IF RingFull THEN "parse" ELSE "read"
    /\ UNCHANGED <<fd, kid>>

(* Mutant of Disconnected: the child is not killed. *)
DisconnectWithoutKill ==
    /\ tcp[fd] # "ESTABLISHED"
    /\ fd' = NoValue
    /\ parent' = "accept"
    /\ UNCHANGED kid

Disconnected ==
    /\ tcp[fd] # "ESTABLISHED"
    /\ kid' = Killed(pid_child)
    /\ fd' = NoValue
    /\ parent' = "accept"

(* network_rcv, up to the call it blocks in: fread, or accept once the      *)
(* connection is no longer established.                                     *)
network_rcv ==
    /\ parent = "check"
    /\ pid' = pid_child
    /\ StillConnected \/ Disconnected
    /\ UNCHANGED <<netVars, pid_child, netq, buff, handled, inherited, frame,
                   shown, coreVars, service, sent>>

(* Mutant of ReadCommand: it goes on while there is something to read. *)
ReadOn ==
    /\ rx[fd] # <<>>
    /\ netq' = Append(netq, Head(rx[fd]))
    /\ rx' = [rx EXCEPT ![fd] = Tail(@)]
    /\ parent' = IF Len(rx[fd]) > 1 THEN "read" ELSE "parse"
    /\ UNCHANGED reset

ReadCommand ==
    /\ rx[fd] # <<>>
    /\ netq' = Append(netq, Head(rx[fd]))
    /\ rx' = [rx EXCEPT ![fd] = Tail(@)]
    /\ parent' = "parse"
    /\ UNCHANGED reset

(* Mutants of ReadEnd: it pushes its buffer all the same, or tries again.   *)
PushAtEnd ==
    /\ rx[fd] = <<>>
    /\ tcp[fd] # "ESTABLISHED"
    /\ netq' = Append(netq, [cmd |-> "Cmd_idle", params |-> Rest])
    /\ parent' = IF reset[fd] THEN "exited" ELSE "parse"
    /\ reset' = [reset EXCEPT ![fd] = FALSE]
    /\ UNCHANGED rx

RetryAtEnd ==
    /\ rx[fd] = <<>>
    /\ tcp[fd] # "ESTABLISHED"
    /\ parent' = IF reset[fd] THEN "exited" ELSE "read"
    /\ reset' = [reset EXCEPT ![fd] = FALSE]
    /\ UNCHANGED <<netq, rx>>

(* The end of the file, or the error the connection was reset with.         *)
ReadEnd ==
    /\ rx[fd] = <<>>
    /\ tcp[fd] # "ESTABLISHED"
    /\ parent' = IF reset[fd] THEN "exited" ELSE "parse"
    /\ reset' = [reset EXCEPT ![fd] = FALSE]
    /\ UNCHANGED <<netq, rx>>

(* read_data: a whole command goes into the ring; an end of file gives up;  *)
(* an error ends the server.                                                *)
read_data ==
    /\ parent = "read"
    /\ ReadCommand \/ ReadEnd
    /\ UNCHANGED <<tcp, backlog, fd, pid, pid_child, buff, handled,
                   kidVars, coreVars, service, sent>>

fork ==
    /\ parent = "fork"
    /\ parent' = "return"
    /\ \/ Forked /\ pid' = fd
       \/ pid' = -1 /\ UNCHANGED <<kid, inherited>>
    /\ UNCHANGED <<netVars, fd, pid_child, netq, buff, handled, frame, shown,
                   coreVars, service, sent>>

return ==
    /\ parent = "return"
    /\ pid_child' = pid
    /\ parent' = "parse"
    /\ UNCHANGED <<netVars, fd, pid, netq, buff, handled,
                   kidVars, coreVars, service, sent>>

-----------------------------------------------------------------------------
(* Mutant of Force_Virtual_Download: valid is not tested. *)
DownloadOverwrites(params) == virtual' = params /\ UNCHANGED applied

(* Force_Virtual_Download: dropped while the core has not taken the vector  *)
(* before.                                                                  *)
Force_Virtual_Download(params) ==
    \/ Virt!Put(params)
    \/ virtual # NoValue /\ UNCHANGED <<virtual, applied>>

Dispatch(command) ==
    \/ /\ command.cmd \in DOMAIN Servo_Force_Comm_Cmd
       /\ service' = Servo_Force_Comm_Cmd[command.cmd]
       /\ UNCHANGED <<virtual, applied>>
    \/ /\ command.cmd \in {"FORCE_GIVE_START", "FORCE_GIVE_STOP"}
       /\ Force_Virtual_Download(command.params)
       /\ UNCHANGED service

(* Mutant of NothingToParse: a ring with one command in it is taken for     *)
(* empty.                                                                   *)
NothingButOne ==
    /\ Len(netq) <= 1
    /\ UNCHANGED <<netq, buff, handled, virtual, applied, service>>

NothingToParse ==
    /\ netq = <<>>
    /\ UNCHANGED <<netq, buff, handled, virtual, applied, service>>

ParseCommand ==
    /\ Ring!Get
    /\ Dispatch(Head(netq))
    /\ handled' = [handled EXCEPT ![fd] = Append(@, Head(netq))]

controller_msg_parase ==
    /\ parent = "parse"
    /\ parent' = "check"
    /\ NothingToParse \/ ParseCommand
    /\ UNCHANGED <<netVars, fd, pid, pid_child, kidVars, monitor, published, sent>>

(* SIGINT to the parent: sighandler once it is installed, the default       *)
(* before.                                                                  *)
Interrupt ==
    /\ parent # "exited"
    /\ parent' = "exited"
    /\ kid' = IF parent \in {"connect", "main_fork", "signal"}
              THEN kid ELSE Killed(pid_child)
    /\ UNCHANGED <<netVars, fd, pid, pid_child, netq, buff, handled, inherited, frame,
                   shown, coreVars, service, sent>>

-----------------------------------------------------------------------------
(* The child of connection c: controller_display_res in a loop.             *)

(* Mutants of Force_Monitor_Upload: valid is not cleared; valid is compared *)
(* with the value the other mailbox uses.                                   *)
UploadKeepsValid(c) ==
    /\ kid[c] = "upload"
    /\ kid' = [kid EXCEPT ![c] = "check"]
    /\ frame' = [frame EXCEPT ![c] = monitor]
    /\ UNCHANGED <<netVars, parentVars, inherited, shown, coreVars, service, sent>>

UploadOtherFlag(c) ==
    /\ kid[c] = "upload"
    /\ kid' = [kid EXCEPT ![c] = "check"]
    /\ frame' = [frame EXCEPT ![c] = NoValue]
    /\ UNCHANGED <<netVars, parentVars, inherited, shown, coreVars, service, sent>>

(* Force_Monitor_Upload into a blank frame. *)
Force_Monitor_Upload(c) ==
    /\ kid[c] = "upload"
    /\ kid' = [kid EXCEPT ![c] = "check"]
    /\ frame' = [frame EXCEPT ![c] = monitor]
    /\ monitor' = NoValue
    /\ UNCHANGED <<netVars, parentVars, inherited, shown, published, virtual, applied,
                   service, sent>>

(* Mutant of network_set_test: it does not exit. *)
TestWithoutExit(c) ==
    /\ kid[c] = "check"
    /\ kid' = [kid EXCEPT ![c] = IF tcp[c] = "ESTABLISHED" THEN "write" ELSE "upload"]
    /\ UNCHANGED <<netVars, parentVars, inherited, frame, shown, coreVars, service, sent>>

(* network_set: the test of the connection, then the write to it. *)
network_set_test(c) ==
    /\ kid[c] = "check"
    /\ kid' = [kid EXCEPT ![c] = IF tcp[c] = "ESTABLISHED" THEN "write" ELSE "dead"]
    /\ UNCHANGED <<netVars, parentVars, inherited, frame, shown, coreVars, service, sent>>

WriteReaches(c) ==
    /\ tcp[c] = "ESTABLISHED"
    /\ shown' = IF frame[c] = NoValue THEN shown ELSE Append(shown, <<c, frame[c]>>)
    /\ kid' = [kid EXCEPT ![c] = "upload"]
    /\ UNCHANGED <<tcp, reset>>

(* The PC has closed its socket and answers with a reset. *)
WriteIsAnswered(c) ==
    /\ tcp[c] = "CLOSE_WAIT"
    /\ tcp' = [tcp EXCEPT ![c] = "CLOSE"]
    /\ kid' = [kid EXCEPT ![c] = "upload"]
    /\ UNCHANGED <<reset, shown>>

(* The first process to use a reset connection gets the error, which the    *)
(* child ignores; after that a write raises SIGPIPE.                        *)
WriteFails(c) ==
    /\ tcp[c] = "CLOSE"
    /\ reset' = [reset EXCEPT ![c] = FALSE]
    /\ kid' = [kid EXCEPT ![c] = IF reset[c] THEN "upload" ELSE "dead"]
    /\ UNCHANGED <<tcp, shown>>

network_set_write(c) ==
    /\ kid[c] = "write"
    /\ WriteReaches(c) \/ WriteIsAnswered(c) \/ WriteFails(c)
    /\ UNCHANGED <<rx, backlog, parentVars, inherited, frame, coreVars, service, sent>>

(* SIGINT to a child, as the keyboard sends it to both processes: the first  *)
(* child is forked before the handler is installed, the others run it with  *)
(* the pid_child of the time of their fork.                                 *)
InterruptChild(c) ==
    /\ kid[c] \in Live
    /\ kid' = [Killed(inherited[c]) EXCEPT ![c] = "dead"]
    /\ parent' = IF inherited[c] = -1 THEN "exited" ELSE parent
    /\ UNCHANGED <<netVars, fd, pid, pid_child, netq, buff, handled, inherited, frame,
                   shown, coreVars, service, sent>>

-----------------------------------------------------------------------------
(* The force core, which is not in the repository.                          *)
Publish ==
    /\ monitor = NoValue
    /\ published < MaxSamples
    /\ published' = published + 1
    /\ monitor' = published + 1
    /\ UNCHANGED <<netVars, parentVars, kidVars, virtual, applied, service, sent>>

TakeForce ==
    /\ Virt!Take
    /\ UNCHANGED <<netVars, parentVars, kidVars, monitor, published, service, sent>>

-----------------------------------------------------------------------------
Pc(c) ==
    Connect(c) \/ Disconnect(c) \/ Reset(c) \/ \E command \in Buttons : Click(c, command)

(* The steps the parent takes unless it is blocked or ended. *)
Parent ==
    Accept \/ main_fork \/ signal \/ network_rcv \/ read_data \/ fork \/ return
        \/ controller_msg_parase

Child(c) == Force_Monitor_Upload(c) \/ network_set_test(c) \/ network_set_write(c)

Core == Publish \/ TakeForce

Next ==
    \/ \E c \in Conns : Pc(c) \/ Child(c) \/ InterruptChild(c)
    \/ Parent \/ AcceptFails \/ Interrupt
    \/ Core

Spec == Init /\ [][Next]_vars

(* The kernel schedules the parent and every child; nothing is assumed of   *)
(* the PC, of the core, of failing calls or of signals.  A child's write    *)
(* ends because the PC's event loop keeps reading.                          *)
FairSpec == Spec /\ WF_vars(Parent) /\ \A c \in Conns : WF_vars(Child(c))

-----------------------------------------------------------------------------
(* The ring never holds more than the one command the parent has just read, *)
(* also across a reconnect: the window within which CircleBuffer is a       *)
(* queue, with room to spare, and its full test never meets it.             *)
NetqAtMostOne == Len(netq) <= 1 /\ (parent # "parse" /\ parent # "exited" => netq = <<>>)

(* As long as a connection is the parent's, every command the PC sent on it *)
(* is dispatched, in the ring, or still to be read, in the order of the     *)
(* clicks; nothing is dispatched twice, and no command of one connection    *)
(* is dispatched under another.                                             *)
CommandsInOrder ==
    \A c \in Conns :
        IF fd = c THEN sent[c] = handled[c] \o netq \o rx[c]
                  ELSE IsPrefix(handled[c], sent[c])

(* At most one process consumes the monitor area, and the parent knows its  *)
(* pid: what it kills at a disconnect is the child of the connection it     *)
(* holds.  So is what sighandler kills, but for one window: until           *)
(* network_rcv has returned ("return"), the pid of a new child is in its    *)
(* local variable, and an interrupt kills by the old pid_child.  That the   *)
(* child left behind ends all the same, UploaderEnds says.                  *)
OneUploader ==
    \A c \in Conns : kid[c] \in Live =>
        /\ \A d \in Conns \ {c} : kid[d] \notin Live
        /\ parent # "exited" =>
              fd = c /\ c = IF parent = "return" THEN pid ELSE pid_child

(* No sample reaches the PC twice or after a later one, not even on the     *)
(* next connection; and never on a connection older than the last one's.    *)
SamplesInOrder ==
    \A i, j \in 1 .. Len(shown) : i < j =>
        shown[i][1] <= shown[j][1] /\ shown[i][2] < shown[j][2]

(* The connections the parent has accepted. *)
Accepted == {c \in Conns : tcp[c] # "unused" /\ \A i \in 1 .. Len(backlog) : backlog[i] # c}

(* The connections that ended, as far as the server's kernel knows. *)
Ended == {c \in Conns : tcp[c] \in {"CLOSE_WAIT", "CLOSE"}}

(* The call each state-machine button is named after.                       *)
NamedCall ==
    [Cmd_working |-> "CMD_WORKING", Cmd_idle |-> "CMD_IDLE",
     Cmd_setFault |-> "CMD_SET_FAULT", Cmd_resetFault |-> "CMD_RESET_FAULT"]

(* Parent, children, signals and kills add up to one sequential service:    *)
(* one connection at a time, each later than the last and kept until it     *)
(* ends, its commands carried out one by one as they were sent, with their  *)
(* effect on the core, and its samples, each newer than all shown before on *)
(* any connection.                                                          *)
Service == INSTANCE ForceService WITH
    Commands <- Pc_Comm_Cmd_t, Call <- NamedCall, Nothing <- NoValue,
    session <- fd, begun <- Accepted, over <- Ended

ServiceSpec == Service!FSSpec

(* A PC that connects is accepted, whatever happened to the connections     *)
(* before it, unless the server ends (as it does when a read is the first   *)
(* to be told of a reset).                                                  *)
ClientServed ==
    \A c \in Conns :
        (\E i \in 1 .. Len(backlog) : backlog[i] = c) ~> (fd = c \/ parent = "exited")

(* While the PC stays connected, what it sends is dispatched, though the    *)
(* parent takes one command a round and a burst waits in the socket.        *)
CommandsHandled ==
    \A c \in Conns :
        sent[c] # handled[c] ~>
            (sent[c] = handled[c] \/ tcp[c] # "ESTABLISHED" \/ parent = "exited")

(* The child of a connection that has ended comes to an end, killed by the  *)
(* parent, by its own test or by SIGPIPE, even when no parent is left.      *)
UploaderEnds ==
    \A c \in Conns : (kid[c] \in Live /\ tcp[c] # "ESTABLISHED") ~> kid[c] = "dead"

(* A published sample is consumed as long as there is a child.              *)
SampleTaken ==
    \A c \in Conns :
        (monitor # NoValue /\ kid[c] \in Live) ~> (monitor = NoValue \/ kid[c] = "dead")

(* FORCE_GIVE_STOP, which the force button sends when it is released, ends   *)
(* the force: once it is dispatched, and no vector waits for the core any    *)
(* more, the vector the core took last is the stop's zeros.                  *)
ReleaseReachesCore ==
    (/\ parent # "parse"
     /\ buff # NoValue /\ buff.cmd = "FORCE_GIVE_STOP"
     /\ virtual = NoValue)
    => applied = Rest
=============================================================================
