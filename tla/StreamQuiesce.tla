--------------------------- MODULE StreamQuiesce ---------------------------
(***************************************************************************)
(* What shutdownStreamCurl promises to PIC, without threads, flags or      *)
(* locks: service requests of a stream come and go; while the stream is    *)
(* quiescing none of its requests is added; and quiescing ends only when   *)
(* the stream has none left.                                               *)
(***************************************************************************)
CONSTANTS Streams, Requests, StreamOf

VARIABLES
    active,     \* the requests the teardown can still find
    quiescing   \* the streams whose shutdown waits for its requests to go

quiesceVars == <<active, quiescing>>

ActiveOf(s) == {r \in active : StreamOf[r] = s}

Init == active = {} /\ quiescing = {}

Register(r) ==
    /\ StreamOf[r] \notin quiescing
    /\ active' = active \union {r}
    /\ UNCHANGED quiescing

Retire(r) ==
    /\ active' = active \ {r}
    /\ UNCHANGED quiescing

BeginQuiesce(s) ==
    /\ quiescing' = quiescing \union {s}
    /\ UNCHANGED active

EndQuiesce(s) ==
    /\ s \in quiescing
    /\ ActiveOf(s) = {}
    /\ quiescing' = quiescing \ {s}
    /\ UNCHANGED active

Next ==
    \/ \E r \in Requests : Register(r) \/ Retire(r)
    \/ \E s \in Streams : BeginQuiesce(s) \/ EndQuiesce(s)

Spec == Init /\ [][Next]_quiesceVars
=============================================================================
