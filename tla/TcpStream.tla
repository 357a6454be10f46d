----------------------------- MODULE TcpStream -----------------------------
(***************************************************************************)
(* What a mapped TCP flow promises the applications for one direction,     *)
(* whatever happens to the transports underneath: a byte stream with an    *)
(* end.  Either side may give the flow up, and then bytes may be missing   *)
(* at the end; no byte is invented, repeated, reordered or skipped, the    *)
(* end is only shown after everything before it, and a side reports the    *)
(* flow as finished only when the stream is complete at the far socket.    *)
(***************************************************************************)
EXTENDS Naturals, Sequences

VARIABLES
    taken,     \* how many bytes were taken from the writing application
    ended,     \* that application ended its stream
    got,       \* what the reading socket was given: the k-th byte is k
    closed,    \* the reading socket was shown the end
    writing,   \* the writing side still has the flow
    reading,   \* the reading side still has the flow
    finished   \* a side reported the flow as finished, not as broken

stream == <<taken, ended, got, closed, writing, reading, finished>>

Start ==
    /\ taken = 0 /\ ended = FALSE
    /\ got = <<>> /\ closed = FALSE
    /\ writing = TRUE /\ reading = TRUE /\ finished = FALSE

(* The writing application hands over more bytes, or ends its stream. *)
Take ==
    /\ writing /\ ~ended
    /\ \/ taken' > taken /\ UNCHANGED ended
       \/ ended' = TRUE /\ UNCHANGED taken
    /\ UNCHANGED <<got, closed>>

(* The next bytes reach the reading socket, and the end if none is left. *)
Give ==
    /\ reading
    /\ \E w \in 0..(taken - Len(got)) :
         got' = got \o [i \in 1..w |-> Len(got) + i]
    /\ \/ closed' = TRUE /\ ended /\ Len(got') = taken
       \/ UNCHANGED closed
    /\ UNCHANGED <<taken, ended>>

(* A side gives the flow up for good; it finishes a complete stream. *)
Leave ==
    /\ \/ writing /\ writing' = FALSE /\ UNCHANGED reading
       \/ reading /\ reading' = FALSE /\ UNCHANGED writing
    /\ \/ UNCHANGED finished
       \/ finished' = TRUE /\ closed'
Stay == UNCHANGED <<writing, reading, finished>>

Next ==
    \/ Stay /\ (Take \/ Give)
    \/ Leave /\ (Give \/ UNCHANGED <<taken, ended, got, closed>>)

Spec == Start /\ [][Next]_stream
=============================================================================
