-------------------------- MODULE MessageDelivery --------------------------
(***************************************************************************)
(* What the WeCom paths promise about one message: it reaches its reader   *)
(* at most once, and what the durable row says about it is never a lie.    *)
(* "open" is a claimed message whose outcome is not recorded (it may stay  *)
(* so forever after a crash), and "unknown" a row that records nothing     *)
(* about the delivery.  CustomerRouting (replies on the live customer      *)
(* channel), WeComCore (replies to bound staff) and StaffBooking (cards,   *)
(* feedback and customer messages) are shown to implement this module.     *)
(***************************************************************************)
EXTENDS Naturals

CONSTANT Message      \* the messages WeCom may deliver

VARIABLES verdict,    \* what the durable row says about the reply to m
          deliveries  \* how many replies to m the provider accepted

dvars == <<verdict, deliveries>>

Recorded == {"replied", "unreplied", "unknown"}

Init ==
  /\ verdict = [m \in Message |-> "unseen"]
  /\ deliveries = [m \in Message |-> 0]

\* The message identity is claimed, once and for all.
Claim(m) ==
  /\ verdict[m] = "unseen"
  /\ verdict' = [verdict EXCEPT ![m] = "open"]
  /\ UNCHANGED deliveries

\* The provider accepts the reply; it may do so after the sender gave up.
Deliver(m) ==
  /\ verdict[m] \in {"open", "unknown"}
  /\ deliveries[m] = 0
  /\ deliveries' = [deliveries EXCEPT ![m] = 1]
  /\ UNCHANGED verdict

\* The outcome is recorded: "replied" and "unreplied" are facts.
Record(m, v) ==
  /\ verdict[m] = "open"
  /\ v = "replied" => deliveries[m] = 1
  /\ v = "unreplied" => deliveries[m] = 0
  /\ verdict' = [verdict EXCEPT ![m] = v]
  /\ UNCHANGED deliveries

Next ==
  \E m \in Message :
    \/ Claim(m)
    \/ Deliver(m)
    \/ \E v \in Recorded : Record(m, v)

Spec == Init /\ [][Next]_dvars
=============================================================================
