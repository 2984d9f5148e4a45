----------------------------- MODULE FifoChannel -----------------------------
(***************************************************************************)
(* What a queue of the message bus promises its users, whatever it is      *)
(* implemented with.  A channel has one history of accepted messages and   *)
(* hands them out in that order, each to exactly one receiver.  Only a     *)
(* message offered to a closed channel, or one for which no memory can be  *)
(* had, is refused.  Closing keeps what was accepted available: only       *)
(* releasing the channel discards the undelivered rest.                    *)
(*                                                                         *)
(* MessageQueue implements this specification (run bus, theorem            *)
(* MessageQueueProofs!ImplementsFifoChannel).                              *)
(***************************************************************************)
EXTENDS Naturals, Sequences

CONSTANT Message              \* every message a sender may offer

VARIABLES accepted,           \* messages taken in, in the order of the sends
          delivered,          \* messages handed out, in the order of the receives
          closed,             \* no message is accepted any more
          released            \* the channel and what it held are gone

fifoVars == <<accepted, delivered, closed, released>>

Init ==
    /\ accepted = << >>
    /\ delivered = << >>
    /\ closed = FALSE
    /\ released = FALSE

Accept(m) ==
    /\ ~closed
    /\ ~released
    /\ accepted' = Append(accepted, m)
    /\ UNCHANGED <<delivered, closed, released>>

\* The next message in line, never a later one, even after Close.
Deliver ==
    /\ ~released
    /\ Len(delivered) < Len(accepted)
    /\ delivered' = Append(delivered, accepted[Len(delivered) + 1])
    /\ UNCHANGED <<accepted, closed, released>>

Close ==
    /\ ~released
    /\ closed' = TRUE
    /\ UNCHANGED <<accepted, delivered, released>>

Release ==
    /\ ~released
    /\ closed' = TRUE
    /\ released' = TRUE
    /\ UNCHANGED <<accepted, delivered>>

Next ==
    \/ \E m \in Message : Accept(m)
    \/ Deliver
    \/ Close
    \/ Release

Spec == Init /\ [][Next]_fifoVars
=============================================================================
