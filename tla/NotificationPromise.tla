------------------------ MODULE NotificationPromise ------------------------
(***************************************************************************)
(* What the notification outbox promises the people it writes to: a        *)
(* notification is queued, and ends sent or given up.  It is booked as     *)
(* sent only after the channel has taken its message, what is sent is      *)
(* never queued again, and what is given up only when an administrator     *)
(* asks for it.                                                            *)
(***************************************************************************)
CONSTANT Notifications

VARIABLES
    outcome,   \* what the outbox books for each notification
    told       \* whether the channel has taken a message of it

promiseVars == <<outcome, told>>

PromiseInit ==
  /\ outcome = [n \in Notifications |-> "queued"]
  /\ told = [n \in Notifications |-> FALSE]

\* One notification in one step; the outbox books a whole batch at once.
PromiseStep(n) ==
  /\ told[n] => told'[n]
  /\ \/ outcome'[n] = outcome[n]
     \/ outcome[n] = "queued" /\ outcome'[n] = "sent" /\ told[n]
     \/ outcome[n] = "queued" /\ outcome'[n] = "given_up"
     \/ outcome[n] = "given_up" /\ outcome'[n] = "queued"

PromiseNext ==
  /\ outcome' \in [Notifications -> {"queued", "sent", "given_up"}]
  /\ told' \in [Notifications -> BOOLEAN]
  /\ \A n \in Notifications : PromiseStep(n)

PromiseSpec == PromiseInit /\ [][PromiseNext]_promiseVars
=============================================================================
