---------------------------- MODULE MCEventQueue ----------------------------
(* A small instance of EventQueue: high events, normal events of two types   *)
(* (so that a batch can be filled and cut short), and buffered ones.         *)
EXTENDS EventQueue

MCKinds == {[type |-> "alert", priority |-> "high"],
            [type |-> "a", priority |-> "normal"],
            [type |-> "b", priority |-> "normal"],
            [type |-> "health", priority |-> "normal"]}
MCCapacity == [p \in Priority |-> IF p = "normal" THEN 2 ELSE 1]
MCInterests == {<<"s1", "b">>}
=============================================================================
