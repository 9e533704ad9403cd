------------------------------- MODULE MCWire -------------------------------
(***************************************************************************)
(* An instance of Wire for TLC: the words of the challenge, of its answer  *)
(* and of the data are told apart from each other and from the headers.    *)
(***************************************************************************)
EXTENDS Wire

MCChallenge == <<5, 0>>
MCAnswer == <<11, 12>>
MCOtherAnswer == <<13, 14>>
MCTimePoints == << <<21, 22>>, <<23, 24>> >>
MCOtherID == <<31>>

(* Once two writes have mixed nothing is claimed any more, and nothing is  *)
(* unmixed again.                                                          *)
Unmixed == mixed = {}
=============================================================================
