----------------------------- MODULE SharedAreas -----------------------------
(***************************************************************************)
(* The memory the server shares with the force core, area by area, one     *)
(* load or store per step (force_interface.c, and controller_display_res   *)
(* which calls it).  The areas have nothing in common, so a behaviour is   *)
(* about one of them, which the initial state picks:                       *)
(*                                                                         *)
(*   virtual_info   forces for the core         (Force_Virtual_Download)   *)
(*   monitor_info   samples of the core         (Force_Monitor_Upload)     *)
(*   service_info   state-machine commands for the core  (..._Set_Cmd)     *)
(*                                                                         *)
(* The first two have a valid word; service_info has none, and is written  *)
(* whether or not the core has looked.  Nothing clears an area when the    *)
(* server starts, and the server, or the child that uploads, may be killed *)
(* between any two stores and be started again.                            *)
(*                                                                         *)
(* These are the three areas mmap_init maps.  To what instruct_info and    *)
(* back_info point nothing is mapped, and their functions have no caller.  *)
(*                                                                         *)
(* The core's program is not in the repository.  Its side is the one the   *)
(* server relies on: it fills an area while valid is clear and then sets   *)
(* it, it reads an area while valid is set and then clears it.             *)
(***************************************************************************)
EXTENDS Integers

CONSTANTS
    Last,       \* the words of an area but valid are 0 .. Last
    Value,      \* the values of a word, 0 among them
    Items,      \* what is put into each area
    SM,         \* FORCE_CORE_STATE_e, the states of the core
    NoItem      \* "nothing"

Areas == {"virtual_info", "monitor_info", "service_info"}

Words == 0 .. Last

Contents == [Words -> Value]

(* A structure after bzero, or after ={0}. *)
Blank == [w \in Words |-> 0]

ASSUME LastAssumption == Last \in Nat
ASSUME ValueAssumption == 0 \in Value
ASSUME ItemsAssumption == Items \in [Areas -> SUBSET Contents]
ASSUME SampleAssumption == \A s \in Items["monitor_info"] : s[0] \in SM
ASSUME CommandAssumption ==
    \A c \in Items["service_info"] : \A w \in Words \ {0} : c[w] = 0
ASSUME NoItemAssumption == NoItem \notin Contents

(* Mutant of Call: the structure is not cleared first. *)
CallUncleared(c) == [w \in Words |-> IF w = 0 THEN c[0] ELSE c[0] - 1]

(* A command as its function builds it: the deployed four set the first     *)
(* word of a cleared ServoCoreProcessCall_t and no parameter.               *)
Call(c) == [Blank EXCEPT ![0] = c[0]]

(* What valid is set to, as an int: 0xdeadbeef in virtual_info.             *)
Full(a) == IF a = "virtual_info" THEN -559038737 ELSE 1

VARIABLES
    area,                   \* the area this behaviour is about
    valid, memory,          \* its words
    writer, item, stored,   \* where its writer is, what it writes, the words stored
    reader, frame, copied,  \* where its reader is, its copy, the words copied
    taken,      \* the latest copy for which the reader cleared valid
    uploaded,   \* the latest frame controller_display_res gave to network_set
    told        \* the latest command the core has read

writerVars == <<writer, item, stored>>
readerVars == <<reader, frame, copied, taken, uploaded, told>>
vars == <<area, valid, memory, writerVars, readerVars>>

TypeOK ==
    /\ area \in Areas
    /\ valid \in IF area = "service_info" THEN {0} ELSE {0, Full(area)}
    /\ memory \in Contents
    /\ writer \in {"idle", "store", "publish"}
    /\ item \in Items[area] \cup {Blank}
    /\ stored \subseteq Words
    /\ reader \in {"idle", "copy", "done", "send"}
    /\ frame \in Contents
    /\ copied \subseteq Words
    /\ taken \in Contents \cup {NoItem}
    /\ uploaded \in Contents \cup {NoItem}
    /\ told \in Contents \cup {NoItem}

(* What may lie in an area at start: an item of an earlier run if valid is  *)
(* set, also one cut short if not.  service_info is never half written, as  *)
(* the calls differ in one word.                                            *)
LeftIn(a) ==
    IF a = "service_info" THEN Items[a] \cup {Blank} ELSE Contents

Init ==
    /\ area \in Areas
    /\ valid \in IF area = "service_info" THEN {0} ELSE {0, Full(area)}
    /\ memory \in IF valid = 0 THEN LeftIn(area) ELSE Items[area]
    /\ writer = "idle" /\ item = Blank /\ stored = {}
    /\ reader = "idle" /\ frame = Blank /\ copied = {}
    /\ taken = NoItem /\ uploaded = NoItem /\ told = NoItem

-----------------------------------------------------------------------------
(* Writing. *)

StartsWriting(v) ==
    /\ writer = "idle"
    /\ writer' = "store"
    /\ item' = v
    /\ stored' = {}
    /\ UNCHANGED <<area, valid, memory, readerVars>>

(* Mutant of Force_Virtual_Download: valid is not tested. *)
DownloadUntested(v) == area = "virtual_info" /\ StartsWriting(v)

(* Force_Virtual_Download(v), up to its test; when the core has not taken   *)
(* the vector before, the new one is dropped.                               *)
Force_Virtual_Download(v) ==
    /\ area = "virtual_info"
    /\ valid = 0
    /\ StartsWriting(v)

Servo_Force_Comm_Set_Cmd(v) ==
    /\ area = "service_info"
    /\ StartsWriting(Call(v))

CorePuts(v) ==
    /\ area = "monitor_info"
    /\ valid = 0
    /\ StartsWriting(v)

(* The loop over the axes goes upward; memcpy has an order of its own, and  *)
(* so may the core.                                                         *)
InOrder(w) == area = "virtual_info" => \A u \in Words : u < w => u \in stored

Written == stored' = Words

StoreWord(w) ==
    /\ writer = "store"
    /\ w \notin stored /\ InOrder(w)
    /\ memory' = [memory EXCEPT ![w] = item[w]]
    /\ stored' = stored \cup {w}
    /\ writer' = IF ~ Written THEN "store"
                 ELSE IF area = "service_info" THEN "idle" ELSE "publish"
    /\ UNCHANGED <<area, valid, item, readerVars>>

(* Mutant of Publish: the flag is not the one the core waits for. *)
PublishOne ==
    /\ writer = "publish"
    /\ valid' = 1
    /\ writer' = "idle"
    /\ UNCHANGED <<area, memory, item, stored, readerVars>>

Publish ==
    /\ writer = "publish"
    /\ valid' = Full(area)
    /\ writer' = "idle"
    /\ UNCHANGED <<area, memory, item, stored, readerVars>>

-----------------------------------------------------------------------------
(* Reading. *)

(* Mutant of controller_display_res: valid is cleared before the copy. *)
DisplayClearsFirst ==
    /\ area = "monitor_info"
    /\ reader = "idle"
    /\ frame' = Blank
    /\ copied' = {}
    /\ reader' = IF valid = 1 THEN "copy" ELSE "send"
    /\ valid' = 0
    /\ UNCHANGED <<area, memory, writerVars, taken, uploaded, told>>

(* controller_display_res: a blank frame, then the test of                  *)
(* Force_Monitor_Upload; the frame stays blank when nothing is published.   *)
controller_display_res ==
    /\ area = "monitor_info"
    /\ reader = "idle"
    /\ frame' = Blank
    /\ copied' = {}
    /\ reader' = IF valid = 1 THEN "copy" ELSE "send"
    /\ UNCHANGED <<area, valid, memory, writerVars, taken, uploaded, told>>

StartsReading ==
    /\ reader = "idle"
    /\ reader' = "copy"
    /\ copied' = {}
    /\ UNCHANGED <<area, valid, memory, writerVars, frame, taken, uploaded, told>>

CoreNotices ==
    /\ area = "virtual_info"
    /\ valid = Full(area)
    /\ StartsReading

CoreLooks ==
    /\ area = "service_info"
    /\ StartsReading

(* force_state is read before memcpy reads the angles. *)
LoadWord(w) ==
    /\ reader = "copy"
    /\ w \notin copied
    /\ area = "monitor_info" /\ w # 0 => 0 \in copied
    /\ frame' = [frame EXCEPT ![w] = memory[w]]
    /\ copied' = copied \cup {w}
    /\ reader' = IF copied' = Words THEN "done" ELSE "copy"
    /\ UNCHANGED <<area, valid, memory, writerVars, taken, uploaded, told>>

ClearValid ==
    /\ reader = "done"
    /\ area # "service_info"
    /\ valid' = 0
    /\ taken' = frame
    /\ reader' = IF area = "monitor_info" THEN "send" ELSE "idle"
    /\ UNCHANGED <<area, memory, writerVars, frame, copied, uploaded, told>>

CoreIsTold ==
    /\ reader = "done"
    /\ area = "service_info"
    /\ told' = frame
    /\ reader' = "idle"
    /\ UNCHANGED <<area, valid, memory, writerVars, frame, copied, taken, uploaded>>

(* Mutant of network_set: the frame is sent before the copy has ended. *)
SendUnfinished ==
    /\ area = "monitor_info"
    /\ reader \in {"copy", "send"}
    /\ uploaded' = frame
    /\ reader' = "idle"
    /\ UNCHANGED <<area, valid, memory, writerVars, frame, copied, taken, told>>

network_set ==
    /\ area = "monitor_info"
    /\ reader = "send"
    /\ uploaded' = frame
    /\ reader' = "idle"
    /\ UNCHANGED <<area, valid, memory, writerVars, frame, copied, taken, told>>

-----------------------------------------------------------------------------
(* The server dies and is started again, or its child is killed at a        *)
(* disconnect and the next one starts over.                                 *)
WriterKilled ==
    /\ area # "monitor_info"
    /\ writer # "idle"
    /\ writer' = "idle"
    /\ UNCHANGED <<area, valid, memory, item, stored, readerVars>>

ReaderKilled ==
    /\ area = "monitor_info"
    /\ reader # "idle"
    /\ reader' = "idle"
    /\ frame' = Blank
    /\ copied' = {}
    /\ UNCHANGED <<area, valid, memory, writerVars, taken, uploaded, told>>

Write ==
    \/ \E v \in Items[area] : \/ Force_Virtual_Download(v)
                              \/ Servo_Force_Comm_Set_Cmd(v)
                              \/ CorePuts(v)
    \/ \E w \in Words : StoreWord(w)
    \/ Publish

Read ==
    \/ controller_display_res \/ CoreNotices \/ CoreLooks
    \/ \E w \in Words : LoadWord(w)
    \/ ClearValid \/ CoreIsTold \/ network_set

Next == Write \/ Read \/ WriterKilled \/ ReaderKilled

Spec == Init /\ [][Next]_vars

-----------------------------------------------------------------------------
(* What a reader reads does not change under it: from the moment valid is   *)
(* set until the reader clears it, no store reaches the area, even if the   *)
(* server is killed in the middle of writing and starts again.              *)
StableWhilePublished == [][valid # 0 => memory' = memory]_vars

(* A frame sent to the PC is one sample of the core, whole, or blank: never *)
(* a mixture of two samples, nor of a sample and blank words, wherever the  *)
(* child before was killed.                                                 *)
NoTornFrame ==
    area = "monitor_info" => uploaded \in Items[area] \cup {Blank, NoItem}

(* service_info has no valid word and the core may look at any moment, also *)
(* between two stores of a memcpy; still it reads a command that was given  *)
(* (or left from before), never one with another's parameters.              *)
NoTornCommand ==
    area = "service_info" => told \in Items[area] \cup {Blank, NoItem}

(* Kills included, an area with a valid word is a one-place slot: what its  *)
(* reader takes is what its writer put, whole, and it is taken once.        *)
Slot == INSTANCE OnePlaceSlot WITH
    Values <- UNION {Items[a] : a \in Areas},
    Leftover <- Contents,
    Empty <- NoItem,
    slot <- IF valid # 0 THEN memory ELSE NoItem,
    got <- taken

SlotSpec == Slot!SSpec

(* FORCE_CORE_STATE_e has no state 0 (SM_BOOT is commented out), so a frame *)
(* sent to the PC carries one of the states of the core.                    *)
FrameHasCoreState ==
    area = "monitor_info" /\ uploaded # NoItem => uploaded[0] \in SM
=============================================================================
