-------------------------- MODULE DataplaneContract --------------------------
(***************************************************************************)
(* What the data plane of an endpoint promises: a table of the clients     *)
(* that are programmed.  A Request puts its client in, a Close takes its   *)
(* client out, at the moment NSM is told and not before; nothing else      *)
(* changes the table but a restart, which empties it.                      *)
(***************************************************************************)
CONSTANT Conn

VARIABLES
  programmed,  \* the clients that have their interface and their route
  told         \* told[c]: what NSM knows of connection c

Init == programmed = {} /\ told = [c \in Conn |-> "idle"]

Tell(c, from, to) == told[c] \in from /\ told' = [told EXCEPT ![c] = to]

Ask(c) == Tell(c, {"idle", "lost"}, "asked") /\ UNCHANGED programmed

(* The request does not get as far as the data plane.                      *)
Refuse(c) == Tell(c, {"idle", "lost"}, "refused") /\ UNCHANGED programmed

Program(c) == Tell(c, {"asked"}, "open") /\ programmed' = programmed \cup {c}

HangUp(c) == Tell(c, {"open", "refused", "lost"}, "closing") /\ UNCHANGED programmed

Remove(c) == Tell(c, {"closing"}, "idle") /\ programmed' = programmed \ {c}

Restart ==
  /\ programmed' = {}
  /\ told' = [c \in Conn |-> IF told[c] \in {"idle", "refused"} THEN told[c] ELSE "lost"]

Next ==
  \/ Restart
  \/ \E c \in Conn : Ask(c) \/ Refuse(c) \/ Program(c) \/ HangUp(c) \/ Remove(c)

Spec == Init /\ [][Next]_<<programmed, told>>
=============================================================================
