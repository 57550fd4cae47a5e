--------------------------- MODULE MCSharedAreas ---------------------------
(* Three words are enough for a first, a middle and a last store.  Two      *)
(* samples differ in every word; a start gives some axes a force and the    *)
(* stop none; commands differ in their first word.                          *)
EXTENDS SharedAreas

Uniform(v) == [w \in Words |-> v]

MCItems ==
    [virtual_info |-> {Uniform(0), Uniform(1), [w \in Words |-> w % 2]},
     monitor_info |-> {Uniform(1), Uniform(2)},
     service_info |-> {[Uniform(0) EXCEPT ![0] = c] : c \in {1, 2}}]
=============================================================================
