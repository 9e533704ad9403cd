----------------------------- MODULE MCTSQueue -----------------------------
(***************************************************************************)
(* Instances of TSQueue for TLC; the .cfg files choose the threads, the    *)
(* uses and the bound of Update.                                           *)
(***************************************************************************)
EXTENDS TSQueue, TLC

(* main() of SimpleServer: Update(-1, true) behind the asio thread.        *)
ServerUse == [push |-> {"push_back"}, pop |-> {"pop_front"}, bWait |-> TRUE]

(* Every operation of the queue, and Update with its default, no wait.     *)
EveryOperation == [push |-> {"push_back", "push_front"},
                   pop |-> {"pop_front", "pop_back", "clear"}, bWait |-> FALSE]

OnlyServer == {ServerUse}
ServerOrEvery == {ServerUse, EveryOperation}

(* No action compares two items: they can be permuted (safety runs only).  *)
ItemSymmetry == Permutations(Items)
=============================================================================
