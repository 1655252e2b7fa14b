--------------------------- MODULE AtMostOnceSend ---------------------------
(***************************************************************************)
(* What the WhatsApp outbox promises about every message it is asked to     *)
(* send: a claim precedes the delivery, a delivery happens at most once per *)
(* message, and a claim is given back for another attempt only when nothing *)
(* was delivered under it.  A claim whose outcome is in doubt is kept.      *)
(***************************************************************************)
EXTENDS Integers

CONSTANT Msg       \* the messages to be sent

VARIABLES
    status,        \* "open", "claimed" or "closed"
    deliveries     \* how often the provider accepted the message

Init ==
    /\ status = [m \in Msg |-> "open"]
    /\ deliveries = [m \in Msg |-> 0]

Claim(m) ==
    /\ status[m] = "open"
    /\ status' = [status EXCEPT ![m] = "claimed"]
    /\ UNCHANGED deliveries

Deliver(m) ==
    /\ status[m] = "claimed" /\ deliveries[m] = 0
    /\ deliveries' = [deliveries EXCEPT ![m] = 1]
    /\ UNCHANGED status

\* The attempt certainly failed: the message may be claimed again, or is
\* given up.
GiveBack(m, next) ==
    /\ status[m] = "claimed" /\ deliveries[m] = 0
    /\ status' = [status EXCEPT ![m] = next]
    /\ UNCHANGED deliveries

\* Messages nobody has claimed are withdrawn, several at once.
Withdraw(ms) ==
    /\ \A m \in ms : status[m] = "open"
    /\ status' = [m \in Msg |-> IF m \in ms THEN "closed" ELSE status[m]]
    /\ UNCHANGED deliveries

Next ==
    \/ \E m \in Msg : Claim(m) \/ Deliver(m)
    \/ \E m \in Msg, next \in {"open", "closed"} : GiveBack(m, next)
    \/ \E ms \in SUBSET Msg : Withdraw(ms)

Spec == Init /\ [][Next]_<<status, deliveries>>

=============================================================================
