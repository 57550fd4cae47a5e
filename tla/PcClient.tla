------------------------------ MODULE PcClient ------------------------------
(***************************************************************************)
(* The PC of src/SimForce_Qt (widget.cpp): the slots of its one socket, of *)
(* its buttons and of its timer, each run to its end by the event loop,    *)
(* against QTcpSocket's states and the server's stream of frames.          *)
(*                                                                         *)
(* A frame is sizeof(Force_Comm_Rcv_t) cells: the first holds head, and no *)
(* other cell looks like it.  A readyRead hands over all that has arrived, *)
(* so TCP decides how the stream is cut: into pieces of frames, frames, or *)
(* several at once.  A command is one of three kinds and is not cut here   *)
(* (ReadData cuts it).  A user has one mouse: while it holds the force     *)
(* button it clicks nothing else.                                          *)
(***************************************************************************)
EXTENDS Integers, Sequences

CONSTANTS
    FrameSize,  \* cells of a frame
    MaxFrames,  \* bound: the frames the server sends, on all connections
    MaxConns,   \* bound: the attempts to connect
    MaxClicks   \* bound: the commands the user gives

Conns == 1 .. MaxConns
Frames == 0 .. MaxFrames

ASSUME FrameSizeAssumption == FrameSize \in Nat \ {0}
ASSUME BoundsAssumption == MaxFrames \in Nat /\ MaxConns \in Nat /\ MaxClicks \in Nat

(* The n-th frame; rcvMsg is cleared at start, which is frame 0 here.       *)
Frame(n) == [i \in 1 .. FrameSize |-> <<n, i>>]

Cell == Frames \X (1 .. FrameSize)

HasHead(cell) == cell[2] = 1

Kinds == {"state", "FORCE_GIVE_START", "FORCE_GIVE_STOP"}

VARIABLES
    socket,         \* mClient's state
    conn,           \* the number of the latest attempt to connect
    wire,           \* cells the server has sent on it that have not arrived
    closed,         \* the server has closed its end
    rx,             \* cells mClient has received and not handed over
    outbox,         \* commands in mClient's write buffer
    flushed,        \* history: the commands given to the kernel on each connection
    btn_connect, btn_disconnect,    \* enabled
    held,           \* btn_force is held down
    rcvMsg,         \* the frame kept
    labels,         \* the frame in the labels, <<>> before the first timeout
    sent,           \* history: the number of the last frame sent
    clicks          \* history: the number of commands given

linkVars == <<conn, wire, closed, rx>>
buttonVars == <<btn_connect, btn_disconnect>>
sendVars == <<outbox, flushed, held, clicks>>
showVars == <<rcvMsg, labels>>
vars == <<socket, linkVars, buttonVars, sendVars, showVars, sent>>

TypeOK ==
    /\ socket \in {"Unconnected", "Connecting", "Connected", "Closing"}
    /\ conn \in 0 .. MaxConns
    /\ wire \in Seq(Cell) /\ rx \in Seq(Cell)
    /\ closed \in BOOLEAN
    /\ outbox \in Seq(Kinds)
    /\ flushed \in [Conns -> Seq(Kinds)]
    /\ btn_connect \in BOOLEAN /\ btn_disconnect \in BOOLEAN
    /\ held \in BOOLEAN
    /\ rcvMsg \in {Frame(n) : n \in Frames}
    /\ labels \in {Frame(n) : n \in Frames} \cup {<<>>}
    /\ sent \in Frames
    /\ clicks \in 0 .. MaxClicks

(* widget.ui leaves both buttons enabled. *)
Init ==
    /\ socket = "Unconnected"
    /\ conn = 0
    /\ wire = <<>> /\ rx = <<>>
    /\ closed = FALSE
    /\ outbox = <<>>
    /\ flushed = [c \in Conns |-> <<>>]
    /\ btn_connect = TRUE /\ btn_disconnect = TRUE
    /\ held = FALSE
    /\ rcvMsg = Frame(0)
    /\ labels = <<>>
    /\ sent = 0
    /\ clicks = 0

Up == socket \in {"Connected", "Closing"}

-----------------------------------------------------------------------------
(* The server and the network. *)
ServerSends ==
    /\ Up
    /\ ~ closed
    /\ sent < MaxFrames
    /\ sent' = sent + 1
    /\ wire' = wire \o Frame(sent + 1)
    /\ UNCHANGED <<socket, conn, closed, rx, buttonVars, sendVars, showVars>>

ServerCloses ==
    /\ Up
    /\ closed' = TRUE
    /\ UNCHANGED <<socket, conn, wire, rx, buttonVars, sendVars, showVars, sent>>

Arrive ==
    /\ Up
    /\ wire # <<>>
    /\ rx' = Append(rx, Head(wire))
    /\ wire' = Tail(wire)
    /\ UNCHANGED <<socket, conn, closed, buttonVars, sendVars, showVars, sent>>

-----------------------------------------------------------------------------
(* What becomes of the socket, and the slots called on the way.             *)

connectedSlot == btn_connect' = FALSE /\ btn_disconnect' = TRUE

(* Mutant of disconnectedSlot: the other button is forgotten. *)
disconnectedSlotHalf == btn_disconnect' = FALSE /\ UNCHANGED btn_connect

disconnectedSlot == btn_connect' = TRUE /\ btn_disconnect' = FALSE

(* The socket's buffers go with the connection. *)
Dropped == wire' = <<>> /\ rx' = <<>> /\ outbox' = <<>>

(* connectToHost does nothing but warn unless the socket is unconnected.    *)
on_btn_connect_clicked ==
    /\ btn_connect /\ ~ held
    /\ socket = "Unconnected"
    /\ conn < MaxConns
    /\ conn' = conn + 1
    /\ socket' = "Connecting"
    /\ closed' = FALSE
    /\ UNCHANGED <<wire, rx, buttonVars, sendVars, showVars, sent>>

Connected ==
    /\ socket = "Connecting"
    /\ socket' = "Connected"
    /\ connectedSlot
    /\ UNCHANGED <<linkVars, sendVars, showVars, sent>>

(* A failed attempt emits no signal the widget listens to. *)
ConnectFails ==
    /\ socket = "Connecting"
    /\ socket' = "Unconnected"
    /\ Dropped
    /\ UNCHANGED <<conn, closed, flushed, held, clicks, buttonVars, showVars, sent>>

(* disconnectFromHost closes at once unless there is something to write.    *)
Closes ==
    /\ Dropped
    /\ socket' = "Unconnected"
    /\ disconnectedSlot

on_btn_disconnect_clicked ==
    /\ btn_disconnect /\ ~ held
    /\ \/ /\ socket = "Connected" /\ outbox = <<>>
          /\ Closes
       \/ /\ socket = "Connected" /\ outbox # <<>>
          /\ socket' = "Closing"
          /\ UNCHANGED <<wire, rx, outbox>>
          /\ btn_connect' = TRUE /\ btn_disconnect' = FALSE
       \/ /\ socket # "Connected"
          /\ UNCHANGED <<socket, wire, rx, outbox>>
          /\ btn_connect' = TRUE /\ btn_disconnect' = FALSE
    /\ UNCHANGED <<conn, closed, flushed, held, clicks, showVars, sent>>

(* The event loop meets the server's close when it has read all before it;  *)
(* QTcpSocket disconnects by itself, and first writes what is to be written. *)
PeerClosed ==
    /\ socket = "Connected"
    /\ closed /\ wire = <<>> /\ rx = <<>>
    /\ \/ /\ outbox = <<>>
          /\ Closes
       \/ /\ outbox # <<>>
          /\ socket' = "Closing"
          /\ UNCHANGED <<wire, rx, outbox, buttonVars>>
    /\ UNCHANGED <<conn, closed, flushed, held, clicks, showVars, sent>>

(* A reset, or an error. *)
ConnectionLost ==
    /\ Up
    /\ Closes
    /\ UNCHANGED <<conn, closed, flushed, held, clicks, showVars, sent>>

(* The write buffer is written once the socket is connected; the last write *)
(* of a socket that closes ends it.                                         *)
Flush ==
    /\ Up
    /\ outbox # <<>>
    /\ flushed' = [flushed EXCEPT ![conn] = Append(@, Head(outbox))]
    /\ IF socket = "Closing" /\ Len(outbox) = 1
       THEN Closes
       ELSE /\ outbox' = Tail(outbox)
            /\ UNCHANGED <<socket, wire, rx, buttonVars>>
    /\ UNCHANGED <<conn, closed, held, clicks, showVars, sent>>

-----------------------------------------------------------------------------
(* Mutant of sendMsg: nothing is written before the socket is connected. *)
sendMsgConnected(kind) ==
    outbox' = IF Up THEN Append(outbox, kind) ELSE outbox

(* sendMsg: a write to a socket that connects is kept for later, one to an  *)
(* unconnected socket fails, unnoticed.                                     *)
sendMsg(kind) ==
    outbox' = IF socket # "Unconnected" THEN Append(outbox, kind) ELSE outbox

Given(kind) ==
    /\ sendMsg(kind)
    /\ clicks' = clicks + 1
    /\ UNCHANGED <<socket, linkVars, flushed, buttonVars, showVars, sent>>

(* on_btn_resetFault_clicked, on_btn_Idle_clicked, on_btn_working_clicked,  *)
(* on_btn_setFault_clicked.                                                 *)
on_btn_state_clicked ==
    /\ ~ held /\ clicks < MaxClicks
    /\ Given("state")
    /\ UNCHANGED held

on_btn_force_pressed ==
    /\ ~ held /\ clicks < MaxClicks - 1
    /\ Given("FORCE_GIVE_START")
    /\ held' = TRUE

on_btn_force_released ==
    /\ held
    /\ Given("FORCE_GIVE_STOP")
    /\ held' = FALSE

-----------------------------------------------------------------------------
(* Mutants of Accepted: the length is not compared, and the head is not. *)
AcceptedAnyLength(chunk) == HasHead(chunk[1]) /\ Len(chunk) >= FrameSize

AcceptedAnyHead(chunk) == Len(chunk) = FrameSize

(* Which chunks readyReadSlot copies to rcvMsg. *)
Accepted(chunk) == HasHead(chunk[1]) /\ Len(chunk) = FrameSize

(* readAll takes all there is, whether the slot keeps it or not.            *)
readyReadSlot ==
    /\ Up
    /\ rx # <<>>
    /\ rx' = <<>>
    /\ rcvMsg' = IF Accepted(rx) THEN rx ELSE rcvMsg
    /\ UNCHANGED <<socket, conn, wire, closed, buttonVars, sendVars, labels, sent>>

(* Mutant of updateShow: the labels are set once. *)
updateShowOnce ==
    /\ labels' = IF labels = <<>> THEN rcvMsg ELSE labels
    /\ UNCHANGED <<socket, linkVars, buttonVars, sendVars, rcvMsg, sent>>

(* Seven labels; state_str names the state. *)
updateMonitor == labels' = rcvMsg

(* The timer, every 100 ms, connected or not. *)
updateShow ==
    /\ updateMonitor
    /\ UNCHANGED <<socket, linkVars, buttonVars, sendVars, rcvMsg, sent>>

-----------------------------------------------------------------------------
Network == ServerSends \/ ServerCloses \/ Arrive \/ ConnectionLost

User ==
    \/ on_btn_connect_clicked \/ on_btn_disconnect_clicked
    \/ on_btn_state_clicked \/ on_btn_force_pressed \/ on_btn_force_released

Next ==
    \/ Network \/ User
    \/ Connected \/ ConnectFails \/ PeerClosed \/ Flush \/ readyReadSlot \/ updateShow

Spec == Init /\ [][Next]_vars

(* The event loop serves the socket and the timer.  Nothing is assumed of   *)
(* the user, the server and the network.                                    *)
FairSpec ==
    /\ Spec
    /\ WF_vars(readyReadSlot)
    /\ WF_vars(updateShow)

-----------------------------------------------------------------------------
(* However TCP cuts the stream, and across connections that end in the      *)
(* middle of a frame: what readyReadSlot keeps and what updateShow shows is *)
(* a frame the server sent, whole, and never an older one than before.      *)
Number(f) == CHOOSE n \in -1 .. MaxFrames + 1 :
    \/ n \in Frames /\ f = Frame(n)
    \/ n = -1 /\ f = <<>>
    \/ n = MaxFrames + 1 /\ f \notin {Frame(m) : m \in Frames} \cup {<<>>}

Feed == INSTANCE FrameFeed WITH
    Last <- MaxFrames, kept <- Number(rcvMsg), screen <- Number(labels)

FeedSpec == Feed!FSpec

(* The force button is a dead man's switch: on every connection a stop      *)
(* directly follows its start, and after a start nothing is written but its *)
(* stop - also when the button is pressed while the socket still connects,  *)
(* and when connections are lost with the button held.  ForceServer's PC    *)
(* relies on this.                                                          *)
Paired(s) ==
    \A i \in 1 .. Len(s) :
        s[i] = "FORCE_GIVE_STOP" <=> i > 1 /\ s[i - 1] = "FORCE_GIVE_START"

StopFollowsStart ==
    \A c \in Conns : Paired(flushed[c] \o IF c = conn THEN outbox ELSE <<>>)

(* The user is never locked out: a connected socket can be disconnected and *)
(* an unconnected one connected, whichever way the connection came to its   *)
(* end and whatever was clicked meanwhile.                                  *)
ButtonsFollowSocket ==
    /\ socket = "Connected" => btn_disconnect /\ ~ btn_connect
    /\ socket = "Unconnected" => btn_connect

(* The chunk test throws away frames that arrive together, and pieces; but  *)
(* the stream realigns by itself: whatever went wrong before, a frame that  *)
(* stands alone in the socket reaches the labels, unless more comes before  *)
(* the slot has run or the connection ends.                                 *)
LoneFrameShown ==
    \A n \in 1 .. MaxFrames :
        rx = Frame(n) ~> \/ Number(labels) >= n
                         \/ Len(rx) > FrameSize
                         \/ socket = "Unconnected"
=============================================================================
