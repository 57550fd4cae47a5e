-------------------------- MODULE MCThreadedServer --------------------------
(* Values for model-checking ThreadedServer. *)
EXTENDS ThreadedServer

MCZero == <<-1, 0>>

(* One schedule among many, for a run that looks for a single behaviour: a  *)
(* command is sent once the one before has been pulled, and is there before *)
(* the threads go on.                                                       *)
OneByOne ==
    /\ sent' # sent => pushed = sent /\ pending = <<>>
    /\ arrived < sent * CLIENT_BUFF_SIZE => arrived' # arrived

OneByOneSpec == Init /\ [][Next /\ OneByOne]_vars
=============================================================================
