---------------------------- MODULE PostLedger ----------------------------
(***************************************************************************)
(* What the outbox promises about each post (README.md, "Every post goes   *)
(* through the outbox"): it reaches Slack at most once, and once more for  *)
(* every time the owner sends it again; it is reported delivered only if   *)
(* it is in Slack; it is never given up on and delivered at the same time. *)
(***************************************************************************)
EXTENDS Naturals

CONSTANT Posts

VARIABLES
  status,  \* what the ledger says of a post
  copies,  \* how often the post appeared in Slack
  grants   \* how often the owner sent it again

ledgerVars == <<status, copies, grants>>

Init ==
  /\ status = [p \in Posts |-> "none"]
  /\ copies = [p \in Posts |-> 0]
  /\ grants = [p \in Posts |-> 0]

Queue(p) ==
  /\ status[p] = "none"
  /\ status' = [status EXCEPT ![p] = "queued"]
  /\ UNCHANGED <<copies, grants>>

\* Slack publishes a copy, perhaps after the sender stopped waiting for it.
Publish(p) ==
  /\ status[p] # "none" /\ copies[p] <= grants[p]
  /\ copies' = [copies EXCEPT ![p] = @ + 1]
  /\ UNCHANGED <<status, grants>>

Confirm(p) ==
  /\ status[p] = "queued" /\ copies[p] >= 1
  /\ status' = [status EXCEPT ![p] = "delivered"]
  /\ UNCHANGED <<copies, grants>>

GiveUp(p) ==
  /\ status[p] = "queued"
  /\ \E s \in {"failed", "ambiguous"} : status' = [status EXCEPT ![p] = s]
  /\ UNCHANGED <<copies, grants>>

Resend(p) ==
  /\ status[p] \in {"failed", "ambiguous"}
  /\ status' = [status EXCEPT ![p] = "queued"]
  /\ grants' = [grants EXCEPT ![p] = @ + 1]
  /\ UNCHANGED copies

Next == \E p \in Posts : Queue(p) \/ Publish(p) \/ Confirm(p) \/ GiveUp(p) \/ Resend(p)

Spec == Init /\ [][Next]_ledgerVars
=============================================================================
