----------------------------- MODULE MCSession -----------------------------
(***************************************************************************)
(* Instances of Session for TLC: validation values as the Scramble module  *)
(* has them, and two messages besides ServerAccept, one with a body.       *)
(***************************************************************************)
EXTENDS Session, Scramble

CONSTANTS Ping,  \* ServerPing, whose body is a time point
          All    \* MessageAll, a header alone

MCMessages == {Accept, Ping, All}
MCHasBody == {Ping}

MCSentBy == [e \in Ends |-> IF e = "client" THEN {Ping, All} ELSE {Ping}]

CONSTANTS ClientSends, ServerSends
MCMaxSends == [e \in Ends |-> IF e = "client" THEN ClientSends ELSE ServerSends]

(* All eight values, or one of them where only the steps matter.           *)
MCValidationValues == Challenges
MCOneValue == {Challenge(5)}

Answers == [c \in Challenges |-> scramble(c)]
MCScrambled(x) == Answers[x]

(* Bound: the client's program sends in the sessions of one value; those   *)
(* of the other values are the handshake, ServerAccept and the closes.     *)
SendsWithOneValue ==
  m_nADVOut["server"] \in MCOneValue \cup {None} \/ sent["client"] = << >>

(* Arguments of scramble with at most two bits set, in different digits.   *)
TwoBits == [digit : Digits, bit : Bits]
MCInputs ==
  {[d \in Digits |-> IF d = p.digit THEN {p.bit} ELSE IF d = q.digit THEN {q.bit} ELSE {}] :
     p \in TwoBits, q \in TwoBits} \cup {Zero}

ASSUME ScrambleOnInputs == \A nInput \in MCInputs :
  /\ scramble(nInput) = ByPairs(nInput)
  /\ \A c \in Challenges : AnswersOnly(nInput, c)

(* Whichever of its eight values the server poses (net_connection.h: a     *)
(* time modulo sizeof(uint64_t)), the client answers that one: what it     *)
(* writes is the reference answer to the challenge the server waits on,    *)
(* and neither that challenge itself nor the answer to one of the other    *)
(* seven, whatever closes, fails or is sent meanwhile.  Connections that   *)
(* were given the same value have the same answer.                         *)
AnswersThisChallenge ==
  LET answer == m_nADVOut["client"]
      challenge == m_nADVOut["server"]
  IN  answer # None =>
        /\ answer = ByPairs(challenge) /\ answer # challenge
        /\ \A c \in Challenges \ {challenge} : scramble(c) # answer
=============================================================================
