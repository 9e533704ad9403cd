----------------------------- MODULE NetMessage -----------------------------
(***************************************************************************)
(* message<T> (net_message.h): a header and a body that << and >> use as a *)
(* stack of plain data.  A datum is the sequence of its words, and sizes   *)
(* count words (of four bytes, the unit of what the programs send).        *)
(***************************************************************************)
EXTENDS Integers, Sequences

CONSTANTS UInt32,  \* how many values header.size has
          SizeT    \* how many values size_t has

ASSUME NetMessageAssumption == UInt32 \in Nat \ {0} /\ SizeT \in Nat \ {0}

Message(id) == [id |-> id, size |-> 0, body |-> << >>]

WithBody(msg, body) == [id |-> msg.id, size |-> Len(body) % UInt32, body |-> body]

(* msg << data.                                                            *)
Push(msg, data) == WithBody(msg, msg.body \o data)

(* msg >> data: what is copied begins at size() - sizeof(DataType), which  *)
(* wraps if the body is shorter; the copy is defined only inside the body. *)
Offset(msg, n) == (Len(msg.body) - n) % SizeT
PopDefined(msg, n) == Offset(msg, n) + n <= Len(msg.body)
Popped(msg, n) == SubSeq(msg.body, Offset(msg, n) + 1, Offset(msg, n) + n)
AfterPop(msg, n) == WithBody(msg, SubSeq(msg.body, 1, Offset(msg, n)))
=============================================================================
