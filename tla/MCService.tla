----------------------------- MODULE MCService -----------------------------
(***************************************************************************)
(* An instance of Service for TLC: two pings, which differ in their time   *)
(* point, and MessageAll, a header alone.                                  *)
(***************************************************************************)
EXTENDS Service

CONSTANTS Ping1, Ping2, All

MCMessages == {Accept, Ping1, Ping2, All}
MCHasBody == {Ping1, Ping2}
MCSentBy == [e \in Ends |-> IF e = "client" THEN {Ping1, Ping2, All} ELSE {Ping1, Ping2}]
MCMaxSends == [e \in Ends |-> IF e = "client" THEN 2 ELSE 3]

(* One challenge and another value to answer it: which, is Session's part. *)
MCValidationValues == {<<1>>}
MCScrambled(x) == <<1>> \o x

(* Two requests that differ, and of two pings Ping1 first: nothing tells   *)
(* them apart but their order.                                             *)
Requests == sent["client"] \in
  {<< >>, <<Ping1>>, <<All>>, <<Ping1, Ping2>>, <<Ping1, All>>, <<All, Ping1>>}

(* A cut before or after the first ping is sent, and with the main thread  *)
(* asleep until that ping is queued: up to then it only goes to sleep.     *)
Cuts == broken => /\ sent["client"] \in {<< >>, <<Ping1>>}
                  /\ pushed = << >> => "main" \in cvBlocking
=============================================================================
