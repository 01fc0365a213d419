------------------------------- MODULE Delivery -------------------------------
(***************************************************************************)
(* What a stream promises the application that receives it: chunks of the  *)
(* track appear one by one, none disappears, the play head only goes        *)
(* forward, and `closed` is announced once every chunk is there, or once the *)
(* head is at the end if the application accepts holes.                     *)
(***************************************************************************)
EXTENDS Integers

CONSTANTS Chunk, End

VARIABLES
    got,      \* chunks the application can read
    at,       \* the play head
    accepts,  \* does the application accept holes?
    finished  \* has it been told that the stream is over?

vars == <<got, at, accepts, finished>>

Init ==
    /\ got = {}
    /\ at = 0
    /\ accepts = FALSE
    /\ finished = FALSE

MayFinish(g, h) == g = Chunk \/ (accepts /\ h = End)

\* A chunk arrives; the head may move on with it and the stream may be over.
Arrive(c) ==
    /\ c \notin got
    /\ got' = got \cup {c}
    /\ at' \in at .. End
    /\ finished' \in {finished, MayFinish(got', at')}
    /\ finished => finished'
    /\ UNCHANGED accepts

\* The application moves the head forward.
SeekForward ==
    /\ ~finished
    /\ at' \in at .. End
    /\ UNCHANGED <<got, accepts, finished>>

Accept ==
    /\ ~accepts /\ accepts' = TRUE
    /\ UNCHANGED <<got, at, finished>>

Next == (\E c \in Chunk : Arrive(c)) \/ SeekForward \/ Accept

Spec == Init /\ [][Next]_vars
=============================================================================
