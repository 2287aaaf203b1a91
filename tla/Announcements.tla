---------------------------- MODULE Announcements ----------------------------
(***************************************************************************)
(* What a log of messages to the outside promises, whoever keeps it: a     *)
(* message is recorded, may be heard by its receiver any number of times   *)
(* while it is open, and gets one verdict, which is final; it is called    *)
(* delivered only after it was heard. Messages are recorded and verdicts   *)
(* passed several at a time.                                               *)
(***************************************************************************)
CONSTANT Messages

VARIABLES
  verdict,   (* of each message: unsent, open, delivered or failed         *)
  heard      (* messages a receiver has answered                           *)

announcedVars == <<verdict, heard>>

Init ==
  /\ verdict = [m \in Messages |-> "unsent"]
  /\ heard = {}

Announce(M) ==
  /\ M # {} /\ \A m \in M : verdict[m] = "unsent"
  /\ verdict' = [m \in Messages |-> IF m \in M THEN "open" ELSE verdict[m]]
  /\ UNCHANGED heard

Hear(m) ==
  /\ verdict[m] = "open"
  /\ heard' = heard \cup {m}
  /\ UNCHANGED verdict

Settle(delivered, failed) ==
  /\ delivered \subseteq heard /\ delivered \cap failed = {}
  /\ \A m \in delivered \cup failed : verdict[m] = "open"
  /\ verdict' = [m \in Messages |-> IF m \in delivered THEN "delivered"
                                   ELSE IF m \in failed THEN "failed" ELSE verdict[m]]
  /\ UNCHANGED heard

Next ==
  \/ \E M \in SUBSET Messages : Announce(M)
  \/ \E m \in Messages : Hear(m)
  \/ \E delivered, failed \in SUBSET Messages : Settle(delivered, failed)

Spec == Init /\ [][Next]_announcedVars
=============================================================================
