---------------------------- MODULE Obligations ----------------------------
(***************************************************************************)
(* What the attention ledger (attention/mod.rs) promises about each        *)
(* obligation to answer a message, whatever turns, reminders, deliveries,  *)
(* controls and crashes meet: it ends once and for good, it is answered    *)
(* only by a delivery, and while an answer may still arrive only the owner *)
(* can take it back.                                                       *)
(***************************************************************************)
CONSTANT Messages

VARIABLES
  ask,      \* the obligation of each message
  answers   \* of each message: the fates of the posts that answer it

obligationVars == <<ask, answers>>

Fates == {"pending", "ambiguous", "failed", "sent"}
Ended == {"answered", "declined", "expired", "owner_closed"}
States == {"none", "open", "deferred", "awaiting_delivery"} \cup Ended

Init == ask = [m \in Messages |-> "none"] /\ answers = [m \in Messages |-> {}]

Becomes(m, to) == ask'[m] = to

\* Nothing is on its way: no answer, or every one definitely failed.
Unanswered(m) ==
  \/ ask[m] \in {"open", "deferred"}
  \/ ask[m] = "awaiting_delivery" /\ answers[m] = {"failed"}

Open(m)    == ask[m] = "none" /\ Becomes(m, "open")
Queue(m)   == Unanswered(m) /\ Becomes(m, "awaiting_delivery") /\ "pending" \in answers'[m]
Dismiss(m) == Unanswered(m) /\ \E to \in {"deferred", "declined", "expired"} : Becomes(m, to)
Meet(m)    == ask[m] = "awaiting_delivery" /\ Becomes(m, "answered") /\ "sent" \in answers'[m]
Close(m)   == ask[m] \in {"open", "deferred", "awaiting_delivery"} /\ Becomes(m, "owner_closed")

\* A delivery is never forgotten, nor the answer that an obligation waits for.
Keeps(m) ==
  /\ "sent" \in answers[m] => "sent" \in answers'[m]
  /\ ask'[m] = "awaiting_delivery" => answers'[m] \ {"sent"} # {}

\* A reply or a clean moves many obligations in one step.
Next ==
  /\ ask' \in [Messages -> States] /\ answers' \in [Messages -> SUBSET Fates]
  /\ \A m \in Messages :
       /\ Open(m) \/ Queue(m) \/ Dismiss(m) \/ Meet(m) \/ Close(m) \/ ask'[m] = ask[m]
       /\ Keeps(m)

Spec == Init /\ [][Next]_obligationVars
=============================================================================
