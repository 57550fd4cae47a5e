------------------------------ MODULE ReadData ------------------------------
(***************************************************************************)
(* read_data of network_client.c against the byte stream it reads: the PC  *)
(* writes whole commands, TCP hands them over in pieces of any size, and   *)
(* the connection may end, or a read be interrupted, between any two bytes *)
(* of a command.                                                           *)
(*                                                                         *)
(* The stream is counted in cells, CLIENT_BUFF_SIZE to a command, and cell *)
(* k is what Sent(k) says; counters tell how far the PC has written, the   *)
(* kernel has received, stdio has read ahead into the FILE's buffer and    *)
(* fread has copied.  The error flag of the FILE and errno are kept        *)
(* because the loop looks at them after any short fread, and nothing ever  *)
(* clears them.                                                            *)
(*                                                                         *)
(* The FILE is open for both directions.  In the deployed server reader    *)
(* and writer are processes with a FILE each; in the threaded one they     *)
(* share it, and C leaves open what a write does that follows a read       *)
(* without fseek or fflush between.  The build's library (glibc) looks     *)
(* whether cells are left that it has read ahead: if so it wants to seek   *)
(* back over them, which a socket cannot, and the FILE is left in the      *)
(* middle of writing for good.                                             *)
(***************************************************************************)
EXTENDS Integers

CONSTANTS
    CLIENT_BUFF_SIZE,   \* cells of a command, 32 bytes
    MaxSent,            \* bound: the commands the PC sends
    Zero,               \* a cell of the cleared buffer
    Transient,          \* the errors after which a stream can be read on
    InterruptsAt        \* bound: the places in a command at which they may hit

Index == 0 .. CLIENT_BUFF_SIZE - 1

ASSUME SizeAssumption == CLIENT_BUFF_SIZE \in Nat \ {0}
ASSUME MaxSentAssumption == MaxSent \in Nat \ {0}
ASSUME TransientAssumption == Transient \subseteq {"EINTR", "EAGAIN"}
ASSUME InterruptsAtAssumption == InterruptsAt \subseteq Index

(* What the k-th cell of the stream is, and the i-th command; from 0.       *)
Sent(k) == <<k \div CLIENT_BUFF_SIZE, k % CLIENT_BUFF_SIZE>>

Command(i) == [k \in Index |-> <<i, k>>]

Cell == ((0 .. MaxSent - 1) \X Index) \cup {Zero}

VARIABLES
    tcp,        \* the server's end of the connection
    reset,      \* a reset no call has reported yet
    sent,       \* commands the PC has written
    arrived,    \* cells the server's kernel has received
    fetched,    \* cells read from the kernel into the FILE's buffer
    consumed,   \* cells copied out of it
    reader,     \* where read_data is
    total_len,  \* what the loop still has to read
    rtn_len,    \* what the present fread has copied
    buffer,     \* read_data's local buffer
    ferror,     \* the error flag of net_ptr->fp
    errno,      \* the latest error, "0" at start
    stuck,      \* the FILE is left in the middle of a write
    pushed      \* history: the commands given to push_circle_buff_item

connVars == <<tcp, reset, sent, arrived>>
fileVars == <<fetched, consumed, ferror, errno, stuck>>
loopVars == <<reader, total_len, rtn_len, buffer>>
readVars == <<connVars, fileVars, loopVars, pushed>>

ReadTypeOK ==
    /\ tcp \in {"ESTABLISHED", "CLOSE_WAIT", "CLOSE"}
    /\ reset \in BOOLEAN
    /\ sent \in 0 .. MaxSent
    /\ arrived \in 0 .. sent * CLIENT_BUFF_SIZE
    /\ fetched \in 0 .. arrived
    /\ consumed \in 0 .. fetched
    /\ reader \in {"idle", "while", "fread", "push", "exit"}
    /\ total_len \in 0 .. CLIENT_BUFF_SIZE
    /\ rtn_len \in 0 .. CLIENT_BUFF_SIZE
    /\ buffer \in [Index -> Cell]
    /\ ferror \in BOOLEAN
    /\ errno \in {"0", "ESPIPE"} \cup Transient
    /\ stuck \in BOOLEAN
    /\ pushed \in 0 .. sent

ReadInit ==
    /\ tcp = "ESTABLISHED"
    /\ reset = FALSE
    /\ sent = 0
    /\ arrived = 0
    /\ fetched = 0
    /\ consumed = 0
    /\ reader = "idle"
    /\ total_len = 0
    /\ rtn_len = 0
    /\ buffer = [k \in Index |-> Zero]
    /\ ferror = FALSE
    /\ errno = "0"
    /\ stuck = FALSE
    /\ pushed = 0

-----------------------------------------------------------------------------
(* The PC and the network.                                                  *)
SendCommand ==
    /\ tcp = "ESTABLISHED"
    /\ sent < MaxSent
    /\ sent' = sent + 1
    /\ UNCHANGED <<tcp, reset, arrived, fileVars, loopVars, pushed>>

Arrive ==
    /\ tcp = "ESTABLISHED"
    /\ arrived < sent * CLIENT_BUFF_SIZE
    /\ arrived' = arrived + 1
    /\ UNCHANGED <<tcp, reset, sent, fileVars, loopVars, pushed>>

(* The FIN arrives behind everything sent; a reset overtakes it.            *)
Fin ==
    /\ tcp = "ESTABLISHED"
    /\ arrived = sent * CLIENT_BUFF_SIZE
    /\ tcp' = "CLOSE_WAIT"
    /\ UNCHANGED <<reset, sent, arrived, fileVars, loopVars, pushed>>

Rst ==
    /\ tcp = "ESTABLISHED"
    /\ tcp' = "CLOSE"
    /\ reset' = TRUE
    /\ UNCHANGED <<sent, arrived, fileVars, loopVars, pushed>>

(* Another user of the connection writes to it: a PC that has closed its    *)
(* end answers with a reset, and who meets a reset is told of it, once.     *)
OtherWrites ==
    /\ consumed = fetched /\ ~ stuck
    /\ tcp' = IF tcp = "CLOSE_WAIT" THEN "CLOSE" ELSE tcp
    /\ reset' = FALSE
    /\ UNCHANGED <<sent, arrived, fileVars, loopVars, pushed>>

(* The same through the reader's own FILE, with cells left in its buffer:   *)
(* nothing is written, now or later.                                        *)
OtherIsStuck ==
    /\ consumed < fetched \/ stuck
    /\ stuck' = TRUE
    /\ UNCHANGED <<fetched, consumed, ferror, errno, connVars, loopVars, pushed>>

-----------------------------------------------------------------------------
(* The call, with a cleared buffer. *)
read_data ==
    /\ reader = "idle"
    /\ reader' = "while"
    /\ total_len' = CLIENT_BUFF_SIZE
    /\ buffer' = [k \in Index |-> Zero]
    /\ UNCHANGED <<rtn_len, connVars, fileVars, pushed>>

(* The top of the loop: fread is called with what is still missing, and     *)
(* with the start of buffer.                                                *)
Fread ==
    /\ reader = "while"
    /\ reader' = "fread"
    /\ rtn_len' = 0
    /\ UNCHANGED <<total_len, buffer, connVars, fileVars, pushed>>

(* stdio reads all there is. *)
FreadFetches ==
    /\ reader = "fread" /\ ~ stuck
    /\ consumed = fetched
    /\ fetched < arrived
    /\ fetched' = arrived
    /\ UNCHANGED <<consumed, ferror, errno, stuck, connVars, loopVars, pushed>>

(* Mutant of FreadCopies: the test for the end is one cell late. *)
FreadCopiesLate ==
    /\ reader = "fread" /\ ~ stuck
    /\ consumed < fetched
    /\ buffer' = [buffer EXCEPT ![rtn_len] = Sent(consumed)]
    /\ consumed' = consumed + 1
    /\ rtn_len' = rtn_len + 1
    /\ reader' = IF rtn_len = total_len THEN "push" ELSE "fread"
    /\ UNCHANGED <<total_len, fetched, ferror, errno, stuck, connVars, pushed>>

FreadCopies ==
    /\ reader = "fread" /\ ~ stuck
    /\ consumed < fetched
    /\ buffer' = [buffer EXCEPT ![rtn_len] = Sent(consumed)]
    /\ consumed' = consumed + 1
    /\ rtn_len' = rtn_len + 1
    /\ reader' = IF rtn_len + 1 = total_len THEN "push" ELSE "fread"
    /\ UNCHANGED <<total_len, fetched, ferror, errno, stuck, connVars, pushed>>

(* A short fread that is not the end for the loop. *)
CarryOn ==
    /\ reader' = "while"
    /\ total_len' = total_len - rtn_len
    /\ UNCHANGED <<rtn_len, buffer>>

(* return -1: what was copied is forgotten. *)
GiveUp ==
    /\ reader' = "idle"
    /\ UNCHANGED <<total_len, rtn_len, buffer>>

(* Mutant of FreadEnds: what is in buffer is pushed at the end of the file. *)
FreadEndsPushing ==
    /\ reader = "fread" /\ ~ stuck
    /\ consumed = arrived
    /\ tcp # "ESTABLISHED" /\ ~ reset
    /\ reader' = "push"
    /\ UNCHANGED <<total_len, rtn_len, buffer, connVars, fileVars, pushed>>

(* The end of the file.  The loop asks for the error flag first: one that   *)
(* an interrupted read has left makes it carry on, for good.                *)
FreadEnds ==
    /\ reader = "fread" /\ ~ stuck
    /\ consumed = arrived
    /\ tcp # "ESTABLISHED" /\ ~ reset
    /\ IF ferror /\ errno = "EINTR" THEN CarryOn ELSE GiveUp
    /\ UNCHANGED <<connVars, fileVars, pushed>>

(* An error that passes, met while nothing has arrived.  One is enough, as  *)
(* the flag stays, and InterruptsAt bounds where it hits: the code would    *)
(* take these branches anywhere in a command.                               *)
FreadFails(error) ==
    /\ reader = "fread" /\ ~ stuck
    /\ consumed = arrived
    /\ tcp = "ESTABLISHED"
    /\ ~ ferror
    /\ rtn_len \in InterruptsAt
    /\ ferror' = TRUE
    /\ errno' = error
    /\ IF error = "EINTR" THEN CarryOn ELSE GiveUp
    /\ UNCHANGED <<fetched, consumed, stuck, connVars, pushed>>

(* Any other error: exit(1). *)
FreadReset ==
    /\ reader = "fread" /\ ~ stuck
    /\ consumed = arrived
    /\ reset
    /\ reset' = FALSE
    /\ reader' = "exit"
    /\ UNCHANGED <<total_len, rtn_len, buffer, tcp, sent, arrived, fileVars, pushed>>

(* A stuck FILE gives nothing, and no error flag either; with one left from *)
(* before the error is none of those the loop knows.                        *)
FreadStuck ==
    /\ reader = "fread" /\ stuck
    /\ errno' = "ESPIPE"
    /\ IF ferror THEN reader' = "exit" /\ UNCHANGED <<total_len, rtn_len, buffer>>
                 ELSE GiveUp
    /\ UNCHANGED <<fetched, consumed, ferror, stuck, connVars, pushed>>

(* The end of the loop with nothing missing: the push, and return 0.        *)
Push ==
    /\ reader = "push"
    /\ reader' = "idle"
    /\ pushed' = pushed + 1
    /\ UNCHANGED <<total_len, rtn_len, buffer, connVars, fileVars>>

-----------------------------------------------------------------------------
Network == SendCommand \/ Arrive \/ Fin \/ Rst

Reading ==
    \/ Fread \/ FreadFetches \/ FreadCopies \/ FreadEnds \/ FreadReset \/ FreadStuck
    \/ \E e \in Transient : FreadFails(e)

(* read_data is called again each time it has returned, by a caller that    *)
(* has tested the connection some time before.                              *)
ReadNext == Network \/ OtherWrites \/ OtherIsStuck \/ read_data \/ Reading \/ Push

ReadSpec == ReadInit /\ [][ReadNext]_readVars

-----------------------------------------------------------------------------
(* Whatever the pieces in which the stream arrives, and wherever it ends,   *)
(* the buffer read_data pushes is the next command of the stream, all of    *)
(* it: none is skipped, cut, or put together from two.  It is so as long as *)
(* a read is interrupted only before the first byte of a command            *)
(* (InterruptsAt within {0}): after one inside it, read_data stores what is *)
(* missing over what it has.                                                *)
PushesNextCommand == reader = "push" => buffer = Command(pushed)
=============================================================================
