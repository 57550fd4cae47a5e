------------------------------ MODULE FrameFeed ------------------------------
(***************************************************************************)
(* What the PC's display promises: it keeps one frame, always a whole one, *)
(* and both the frame it keeps and the frame on the screen only go forward *)
(* in the order the frames were sent.  Frames may be left out.             *)
(***************************************************************************)
EXTENDS Integers

CONSTANT Last   \* the number of the last frame

VARIABLES
    kept,       \* the number of the frame kept, 0 before the first
    screen      \* the number of the frame on the screen, -1 before the first

fvars == <<kept, screen>>

FInit == kept = 0 /\ screen = -1

Keep(n) == n > kept /\ kept' = n /\ UNCHANGED screen

Draw == screen' = kept /\ UNCHANGED kept

FNext == Draw \/ \E n \in 1 .. Last : Keep(n)

FSpec == FInit /\ [][FNext]_fvars
=============================================================================
