----------------------------- MODULE ForceService -----------------------------
(***************************************************************************)
(* What the server promises the PC and the force core, whatever processes  *)
(* it runs as: one session at a time, each later than the ones before; in  *)
(* a session the commands of its connection are carried out one after the  *)
(* other, each once; and the PC is shown samples that get only newer.      *)
(*                                                                         *)
(* A command that is carried out either calls the core's state machine or  *)
(* puts a force vector where the core takes it, which is dropped if the    *)
(* core has not taken the one before.                                      *)
(***************************************************************************)
EXTENDS Integers, Sequences

CONSTANTS
    Conns,      \* the connections, numbered in the order they are made
    Commands,   \* the commands of the PC
    Forces,     \* the force vectors
    Call,       \* the call each state-machine command stands for
    Nothing     \* no session, no vector, no call yet

VARIABLES
    session,    \* the connection that is served
    begun,      \* the connections that are or were served
    over,       \* the connections that ended at the PC's end or on the way
    sent,       \* the commands sent on each connection
    handled,    \* the commands carried out of those
    service,    \* the call given to the core last
    virtual,    \* the vector that waits for the core
    applied,    \* the vector the core took last
    published,  \* the number of the core's newest sample
    shown       \* the samples shown to the PC, each with its connection

sessionVars == <<session, begun, over>>
commandVars == <<sent, handled>>
coreVars == <<service, virtual, applied>>
sampleVars == <<published, shown>>
fsvars == <<sessionVars, commandVars, coreVars, sampleVars>>

(* The areas are not cleared at start: a vector and a sample of an earlier  *)
(* run may wait in them.                                                    *)
ServiceInit ==
    /\ session = Nothing /\ begun = {} /\ over = {}
    /\ sent = [c \in Conns |-> <<>>] /\ handled = [c \in Conns |-> <<>>]
    /\ service = Nothing /\ virtual \in Forces \cup {Nothing} /\ applied = Nothing
    /\ published \in {0, 1} /\ shown = <<>>

Begin(c) ==
    /\ session = Nothing
    /\ \A d \in begun : d < c
    /\ session' = c
    /\ begun' = begun \cup {c}
    /\ UNCHANGED <<over, commandVars, coreVars, sampleVars>>

Leave(c) ==
    /\ c \notin over
    /\ over' = over \cup {c}
    /\ UNCHANGED <<session, begun, commandVars, coreVars, sampleVars>>

(* A session ends with its connection and for no other reason. *)
End ==
    /\ session \in over
    /\ session' = Nothing
    /\ UNCHANGED <<begun, over, commandVars, coreVars, sampleVars>>

Send(c, command) ==
    /\ c \notin over
    /\ sent' = [sent EXCEPT ![c] = Append(@, command)]
    /\ UNCHANGED <<sessionVars, handled, coreVars, sampleVars>>

Tell(command) ==
    \/ /\ command.cmd \in DOMAIN Call
       /\ service' = Call[command.cmd]
       /\ UNCHANGED virtual
    \/ /\ command.cmd \notin DOMAIN Call
       /\ virtual' = IF virtual = Nothing THEN command.params ELSE virtual
       /\ UNCHANGED service

(* The first command of the session that is not carried out yet; also when  *)
(* its connection has ended meanwhile.                                      *)
Handle ==
    LET next == Len(handled[session]) + 1
    IN  /\ session # Nothing
        /\ next <= Len(sent[session])
        /\ Tell(sent[session][next])
        /\ handled' = [handled EXCEPT ![session] = Append(@, sent[session][next])]
        /\ UNCHANGED <<sessionVars, sent, applied, sampleVars>>

Take ==
    /\ virtual # Nothing
    /\ applied' = virtual
    /\ virtual' = Nothing
    /\ UNCHANGED <<sessionVars, commandVars, service, sampleVars>>

Publish ==
    /\ published' = published + 1
    /\ UNCHANGED <<sessionVars, commandVars, coreVars, shown>>

(* A sample newer than all shown before, on whatever connection. *)
Show(n) ==
    /\ session # Nothing /\ session \notin over
    /\ \A i \in 1 .. Len(shown) : shown[i][2] < n
    /\ shown' = Append(shown, <<session, n>>)
    /\ UNCHANGED <<sessionVars, commandVars, coreVars, published>>

ServiceNext ==
    \/ End \/ Handle \/ Take \/ Publish
    \/ \E c \in Conns : Begin(c) \/ Leave(c) \/ \E command \in Commands : Send(c, command)
    \/ \E n \in 1 .. published : Show(n)

FSSpec == ServiceInit /\ [][ServiceNext]_fsvars
=============================================================================
