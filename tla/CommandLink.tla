---------------------------- MODULE CommandLink ----------------------------
(***************************************************************************)
(* What the camera channel promises to the client's callback: the commands *)
(* the Camera vHAL sends on one connection reach the callback one at a     *)
(* time, whole, in the order they were sent and none twice.  Commands are  *)
(* lost in three ways only: the vHAL drops the connection, the client      *)
(* abandons it because a message arrived in parts, or the client ends; and *)
(* what is lost is the end of the sequence.                                *)
(***************************************************************************)
EXTENDS Sequences, Naturals

CONSTANT Commands

VARIABLES
    link,     \* "down", "up", "dropped" by the vHAL, "ended" for good
    queue,    \* commands sent and not yet handed to the callback
    running,  \* the command the callback runs on, or "none"
    torn      \* a connection was abandoned

lvars == <<link, queue, running, torn>>

Init == link = "down" /\ queue = <<>> /\ running = "none" /\ torn = FALSE

Up ==
    /\ link = "down"
    /\ link' = "up"
    /\ UNCHANGED <<queue, running, torn>>

Send(c) ==
    /\ link = "up"
    /\ queue' = Append(queue, c)
    /\ UNCHANGED <<link, running, torn>>

\* the callback gets the oldest command, and only after it finished the last
Deliver ==
    /\ link \in {"up", "dropped"}
    /\ queue # <<>> /\ running = "none"
    /\ running' = Head(queue)
    /\ queue' = Tail(queue)
    /\ UNCHANGED <<link, torn>>

Return ==
    /\ running # "none"
    /\ running' = "none"
    /\ UNCHANGED <<link, queue, torn>>

Drop ==
    /\ link = "up"
    /\ link' = "dropped"
    /\ \E n \in 0..Len(queue) : queue' = SubSeq(queue, 1, n)
    /\ UNCHANGED <<running, torn>>

\* the client gives up a connection that the vHAL dropped
Down ==
    /\ link = "dropped" /\ running = "none"
    /\ link' = "down"
    /\ queue' = <<>>
    /\ UNCHANGED <<running, torn>>

\* the client gives up a connection that is up, between two commands
Abandon ==
    /\ link = "up" /\ running = "none"
    /\ link' = "down"
    /\ queue' = <<>>
    /\ torn' = TRUE
    /\ UNCHANGED running

End ==
    /\ link' = "ended" /\ queue' = <<>> /\ running' = "none"
    /\ UNCHANGED torn

Next == \/ Up \/ Deliver \/ Return \/ Drop \/ Down \/ Abandon \/ End
        \/ \E c \in Commands : Send(c)

Spec == Init /\ [][Next]_lvars
=============================================================================
