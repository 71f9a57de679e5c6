--------------------------- MODULE MessageDelivery ---------------------------
(***************************************************************************)
(* What the notifications subsystem promises about one message, without    *)
(* tables, schedules, batches or transactions: a message that was accepted *)
(* waits, is taken for delivery, and ends sent, given up or dropped.       *)
(*                                                                         *)
(* NotificationQueue implements it.                                        *)
(***************************************************************************)
EXTENDS Naturals

CONSTANTS
    Messages,
    MaxAttempts     \* how often delivery of a message may be attempted

VARIABLES
    stage,      \* where each message is
    calls,      \* attempts to deliver it
    delivered   \* times the customer got it

vars == <<stage, calls, delivered>>

Init ==
    /\ stage = [m \in Messages |-> "none"]
    /\ calls = [m \in Messages |-> 0]
    /\ delivered = [m \in Messages |-> 0]

At(M, from) == \A m \in M : stage[m] = from

Moved(M, to) == [m \in Messages |-> IF m \in M THEN to ELSE stage[m]]

\* A message is queued.
Accept(m) ==
    /\ At({m}, "none")
    /\ stage' = Moved({m}, "waiting")
    /\ UNCHANGED <<calls, delivered>>

\* Messages that became pointless are withdrawn before their turn.
Drop(M) ==
    /\ At(M, "waiting")
    /\ stage' = Moved(M, "dropped")
    /\ UNCHANGED <<calls, delivered>>

\* Messages are taken for delivery, several at once.
Take(M) ==
    /\ At(M, "waiting")
    /\ stage' = Moved(M, "taken")
    /\ UNCHANGED <<calls, delivered>>

\* Messages that were taken and not delivered wait again, while they have an
\* attempt left, or turn out to have been withdrawn.
GiveBack(M, D) ==
    /\ At(M \cup D, "taken")
    /\ \A m \in M \cup D : delivered[m] = 0 /\ calls[m] < MaxAttempts
    /\ stage' = [m \in Messages |-> IF m \in M THEN "waiting"
                                    ELSE IF m \in D THEN "dropped" ELSE stage[m]]
    /\ UNCHANGED <<calls, delivered>>

\* One attempt at a message that was not delivered yet, and what came of it.
Attempt(m) ==
    /\ At({m}, "taken")
    /\ delivered[m] = 0
    /\ calls[m] < MaxAttempts
    /\ calls' = [calls EXCEPT ![m] = @ + 1]
    /\ \/ delivered' = [delivered EXCEPT ![m] = 1]
       \/ UNCHANGED delivered
    /\ UNCHANGED stage

Sent(m) ==
    /\ At({m}, "taken")
    /\ delivered[m] = 1
    /\ stage' = Moved({m}, "sent")
    /\ UNCHANGED <<calls, delivered>>

GiveUp(m) ==
    /\ At({m}, "taken")
    /\ delivered[m] = 0
    /\ calls[m] = MaxAttempts
    /\ stage' = Moved({m}, "failed")
    /\ UNCHANGED <<calls, delivered>>

Next ==
    \/ \E m \in Messages : Accept(m) \/ Attempt(m) \/ Sent(m) \/ GiveUp(m)
    \/ \E M \in SUBSET Messages : Drop(M) \/ Take(M)
    \/ \E M, D \in SUBSET Messages : GiveBack(M, D)

Spec == Init /\ [][Next]_vars
=============================================================================
