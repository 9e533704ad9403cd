------------------------------ MODULE Channel ------------------------------
(***************************************************************************)
(* What every message path of the library promises: the messages that are  *)
(* handed in come out once each, unchanged and in the order they went in.  *)
(* A path may stop at any point (a socket closes, a thread sleeps), so the *)
(* specification is pure safety: the output is always a prefix of the      *)
(* input.  TSQueue (one in-process queue), Session (both directions of a   *)
(* connection), Wire (its buffers) and Service (from the client's program  *)
(* to the server's) are shown to implement it.                             *)
(***************************************************************************)
EXTENDS Integers, Sequences

CONSTANT Items  \* what can be handed in

VARIABLES sent,  \* every message handed in, oldest first
          rcvd   \* every message that came out, oldest first

vars == <<sent, rcvd>>

Init == sent = << >> /\ rcvd = << >>

Send == /\ \E m \in Items : sent' = Append(sent, m)
        /\ UNCHANGED rcvd

Receive == /\ Len(rcvd) < Len(sent)
           /\ rcvd' = Append(rcvd, sent[Len(rcvd) + 1])
           /\ UNCHANGED sent

Next == Send \/ Receive

Spec == Init /\ [][Next]_vars
=============================================================================
