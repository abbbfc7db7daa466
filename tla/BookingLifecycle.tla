-------------------------- MODULE BookingLifecycle --------------------------
(***************************************************************************)
(* What the store promises about a booking intent (the table of            *)
(* docs/job-ready/ARCHITECTURE_CONTRACT.md 4.4), whoever acts and however  *)
(* requests race: it is opened pending, at most one alternative is         *)
(* offered, a confirmed interval is final and survives the cancellation,   *)
(* a cancelled intent is terminal, and each change raises the version by   *)
(* one.                                                                    *)
(***************************************************************************)
EXTENDS Naturals

CONSTANTS Booking, Interval, None

VARIABLE life

Absent == [status |-> "absent", version |-> 0, offered |-> None, agreed |-> None]

Init == life = [b \in Booking |-> Absent]

Become(b, status, offered, agreed) ==
  life' = [life EXCEPT ![b] = [status |-> status, version |-> life[b].version + 1,
                               offered |-> offered, agreed |-> agreed]]

Open(b) == life[b].status = "absent" /\ Become(b, "pending_confirmation", None, None)

Offer(b, i) ==
  /\ life[b].status = "pending_confirmation"
  /\ Become(b, "alternative_proposed", i, None)

Agree(b, i) ==
  /\ \/ life[b].status = "pending_confirmation"
     \/ life[b].status = "alternative_proposed" /\ life[b].offered = i
  /\ Become(b, "confirmed", life[b].offered, i)

Cancel(b) ==
  /\ life[b].status \notin {"absent", "cancelled"}
  /\ Become(b, "cancelled", life[b].offered, life[b].agreed)

Next ==
  \E b \in Booking :
    \/ Open(b)
    \/ Cancel(b)
    \/ \E i \in Interval : Offer(b, i) \/ Agree(b, i)

Spec == Init /\ [][Next]_life
=============================================================================
