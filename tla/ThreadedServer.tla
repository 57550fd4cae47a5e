--------------------------- MODULE ThreadedServer ---------------------------
(***************************************************************************)
(* The server as the main() under #if 0 of main.c runs it: three threads   *)
(* of one process - network_producer, controller_msg_process,              *)
(* controller_display_result - around the circular buffer and its mutex.   *)
(* It serves one connection ("how to reconnect" is an open comment).       *)
(*                                                                         *)
(* network_producer reads while it holds the mutex.  And it reads from the *)
(* FILE the display thread writes to: stdio locks a FILE for the length of *)
(* a call, so nothing is uploaded while fread waits for the PC; and an     *)
(* upload that finds cells read ahead leaves the FILE stuck (ReadData).    *)
(*                                                                         *)
(* The mutex is the next field of Net_Circle_Buff_t after local_buff: the  *)
(* cells behind the array, which CircleBuffer's copies run on into, are    *)
(* its own.  So a push that runs over the end overwrites the mutex, and    *)
(* the next thread that takes the mutex overwrites the item.               *)
(***************************************************************************)
EXTENDS ReadData, Sequences

CONSTANTS
    MAX_SIZE,   \* cells of the buffer
    NoItem      \* nothing was pulled yet

ASSUME MAX_SIZEAssumption == MAX_SIZE \in Nat /\ CLIENT_BUFF_SIZE <= MAX_SIZE

VARIABLES
    head_index_offset, tail_index_offset, local_buff, rc, pulled, pending,
    mutex,      \* net_buff.mutex: the thread that has it
    overwritten,    \* a push has run on into the mutex
    producer,   \* where network_producer is
    consumer,   \* where controller_msg_process is
    display,    \* where controller_display_result is
    exited      \* the process has ended

ringVars == <<head_index_offset, tail_index_offset, local_buff, rc, pulled, pending>>
threadVars == <<mutex, overwritten, producer, consumer, display, exited>>
vars == <<readVars, ringVars, threadVars>>

Free == "none"

Commands == {Command(i) : i \in 0 .. MaxSent - 1}

Ring == INSTANCE CircleBuffer WITH
    element_length <- CLIENT_BUFF_SIZE, buff_length <- MAX_SIZE,
    Items <- Commands, Window <- MaxSent

TypeOK ==
    /\ ReadTypeOK
    /\ Ring!TypeOK
    /\ mutex \in {Free, "producer", "consumer"}
    /\ overwritten \in BOOLEAN
    /\ producer \in {"getsockopt", "lock", "full", "read"}
    /\ consumer \in {"lock", "empty"}
    /\ display \in {"getsockopt", "write"}
    /\ exited \in BOOLEAN

Init ==
    /\ ReadInit
    /\ Ring!Init
    /\ mutex = Free
    /\ overwritten = FALSE
    /\ producer = "getsockopt"
    /\ consumer = "lock"
    /\ display = "getsockopt"
    /\ exited = FALSE

-----------------------------------------------------------------------------
(* pthread_mutex_lock.  It stores into the cells of the mutex, behind the   *)
(* array (the unlock does too, but nobody reads there before the next       *)
(* lock).  A mutex that was overwritten says nothing about who has it: the  *)
(* call may return at once or not at all.                                   *)
Lock(thread) ==
    /\ mutex = Free \/ overwritten
    /\ mutex' = thread
    /\ local_buff' = [a \in Ring!Addr |-> IF a < MAX_SIZE THEN local_buff[a] ELSE Zero]
    /\ UNCHANGED <<head_index_offset, tail_index_offset, rc, pulled, pending, overwritten>>

(* network_producer.  A connection that has ended leaves it in its test.    *)
ProducerTest ==
    /\ producer = "getsockopt"
    /\ tcp = "ESTABLISHED"
    /\ producer' = "lock"
    /\ UNCHANGED <<readVars, ringVars, mutex, overwritten, consumer, display, exited>>

ProducerLock ==
    /\ producer = "lock"
    /\ Lock("producer")
    /\ producer' = "full"
    /\ UNCHANGED <<readVars, consumer, display, exited>>

(* Mutant of ProducerFull: it goes on without giving the mutex back. *)
ProducerFullLocked ==
    /\ producer = "full"
    /\ Ring!is_buff_full
    /\ UNCHANGED <<readVars, ringVars, mutex, overwritten, producer, consumer, display, exited>>

ProducerFull ==
    /\ producer = "full"
    /\ Ring!is_buff_full
    /\ mutex' = Free
    /\ producer' = "getsockopt"
    /\ UNCHANGED <<readVars, ringVars, overwritten, consumer, display, exited>>

ProducerReads ==
    /\ producer = "full"
    /\ ~ Ring!is_buff_full
    /\ read_data
    /\ producer' = "read"
    /\ UNCHANGED <<ringVars, mutex, overwritten, consumer, display, exited>>

(* Inside read_data; an error of the connection ends the process.           *)
ProducerReading ==
    /\ Reading
    /\ exited' = (reader' = "exit")
    /\ UNCHANGED <<ringVars, mutex, overwritten, producer, consumer, display>>

ProducerPush ==
    /\ Push
    /\ Ring!push_circle_buff_item(buffer)
    /\ overwritten' = (overwritten \/ tail_index_offset + CLIENT_BUFF_SIZE > MAX_SIZE)
    /\ UNCHANGED <<mutex, producer, consumer, display, exited>>

ProducerUnlock ==
    /\ producer = "read"
    /\ reader = "idle"
    /\ mutex' = Free
    /\ producer' = "getsockopt"
    /\ UNCHANGED <<readVars, ringVars, overwritten, consumer, display, exited>>

-----------------------------------------------------------------------------
(* controller_msg_process; what it pulls it only prints.                    *)
ConsumerLock ==
    /\ consumer = "lock"
    /\ Lock("consumer")
    /\ consumer' = "empty"
    /\ UNCHANGED <<readVars, producer, display, exited>>

(* Up to the unlock: nothing to do, or one item. *)
ConsumerTurn ==
    /\ consumer = "empty"
    /\ \/ Ring!is_buff_empty /\ UNCHANGED ringVars
       \/ Ring!PullTaken
    /\ mutex' = Free
    /\ consumer' = "lock"
    /\ UNCHANGED <<readVars, overwritten, producer, display, exited>>

-----------------------------------------------------------------------------
(* Mutant of DisplayTest: without the exit. *)
DisplayTestOnly ==
    /\ display = "getsockopt"
    /\ tcp = "ESTABLISHED"
    /\ display' = "write"
    /\ UNCHANGED <<readVars, ringVars, mutex, overwritten, producer, consumer, exited>>

(* controller_display_result: the test of network_set, which ends the       *)
(* process when the connection has ended.                                   *)
DisplayTest ==
    /\ display = "getsockopt"
    /\ IF tcp = "ESTABLISHED" THEN display' = "write" /\ UNCHANGED exited
                              ELSE exited' = TRUE /\ UNCHANGED display
    /\ UNCHANGED <<readVars, ringVars, mutex, overwritten, producer, consumer>>

(* What a write on an ended connection does, ForceServer says; SIGPIPE ends *)
(* the process.                                                             *)
DisplayWrites ==
    \/ OtherWrites /\ exited' = (tcp = "CLOSE" /\ ~ reset)
    \/ OtherIsStuck /\ UNCHANGED exited

(* Mutant of DisplayWrite: under the mutex of the buffer. *)
DisplayWriteMutex ==
    /\ display = "write"
    /\ reader # "fread" /\ mutex = Free
    /\ display' = "getsockopt"
    /\ DisplayWrites
    /\ UNCHANGED <<ringVars, mutex, overwritten, producer, consumer>>

(* fwrite and fflush, once the FILE is not in use by fread. *)
DisplayWrite ==
    /\ display = "write"
    /\ reader # "fread"
    /\ display' = "getsockopt"
    /\ DisplayWrites
    /\ UNCHANGED <<ringVars, mutex, overwritten, producer, consumer>>

(* SIGINT has its default effect here. *)
Interrupt ==
    /\ exited' = TRUE
    /\ UNCHANGED <<readVars, ringVars, mutex, overwritten, producer, consumer, display>>

-----------------------------------------------------------------------------
Producer ==
    ProducerTest \/ ProducerFull \/ ProducerReads \/ ProducerReading \/ ProducerPush
        \/ ProducerUnlock

Threads ==
    Producer \/ ProducerLock \/ ConsumerLock \/ ConsumerTurn \/ DisplayTest \/ DisplayWrite

Pc == Network /\ UNCHANGED <<ringVars, threadVars>>

Next == ~ exited /\ (Threads \/ Pc \/ Interrupt)

Spec == Init /\ [][Next]_vars

(* The kernel schedules every thread.  A lock given back again and again is *)
(* taken in the end by the thread that waits for it: both loops call        *)
(* pthread_yield after the unlock of the mutex, and the unlock of a FILE    *)
(* wakes who waits for it.  Nothing is assumed of the PC, nor of a mutex     *)
(* that was overwritten.                                                    *)
FairSpec ==
    /\ Spec
    /\ WF_vars(~ exited /\ Producer)
    /\ WF_vars(~ exited /\ ConsumerTurn)
    /\ WF_vars(~ exited /\ DisplayTest)
    /\ SF_vars(~ exited /\ ~ overwritten /\ ProducerLock)
    /\ SF_vars(~ exited /\ ~ overwritten /\ ConsumerLock)
    /\ SF_vars(~ exited /\ DisplayWrite)

-----------------------------------------------------------------------------
(* From the PC's writes to the consumer's pulls, across the pieces in which *)
(* TCP delivers, the reader's loop, the wrap-around of the buffer and the   *)
(* full test, the server is one queue of commands: what controller_msg_     *)
(* process pulls is what was sent, whole, once and in order.  It is so      *)
(* where items fill the buffer without a rest, or before one has to run     *)
(* over its end; 32 bytes in 280 do so with the ninth command.              *)
Unread == [i \in 1 .. sent - pushed |-> Command(pushed + i - 1)]

Pipeline == INSTANCE FifoQueue WITH
    Items <- Commands,
    queue <- [i \in 1 .. Len(pending) |-> Ring!ItemAt(Ring!Slot(i))] \o Unread,
    taken <- pulled

PipelineSpec == Pipeline!QSpec

(* A command that has arrived is read, also when the buffer is full: the    *)
(* producer gives the mutex back and the consumer makes room.  Only an      *)
(* upload between two commands that arrived together ends all reading.      *)
ArrivedIsRead ==
    \A n \in 1 .. MaxSent :
        arrived >= n * CLIENT_BUFF_SIZE
            ~> (pushed >= n \/ tcp # "ESTABLISHED" \/ exited \/ stuck)

(* An upload waits for nobody but the PC: only a reader that stays inside   *)
(* fread, with nothing left to read, can keep the display thread from its   *)
(* FILE for good.                                                           *)
UploadWaitsForPc ==
    \/ []<>(display # "write" \/ exited)
    \/ <>[](reader = "fread" /\ consumed = arrived)

(* A connection that has ended takes the server down with it, whatever the  *)
(* three threads are waiting for, also when an interrupted read has left    *)
(* read_data in its loop, and when the FILE is stuck.                       *)
EndsAfterDisconnect == tcp # "ESTABLISHED" ~> exited
=============================================================================
