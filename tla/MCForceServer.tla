--------------------------- MODULE MCForceServer ---------------------------
(* Buttons for model-checking ForceServer.                                 *)
EXTENDS ForceServer

Press(vector) == [cmd |-> "FORCE_GIVE_START", params |-> vector]
Release == [cmd |-> "FORCE_GIVE_STOP", params |-> Rest]
Button(name) == [cmd |-> name, params |-> Rest]

(* The force button: a stop after each start. *)
ForceOnly == {Press("f"), Release}

(* One of the state-machine buttons; the others differ in their table entry. *)
StateOnly == {Button("Cmd_working")}
=============================================================================
