-------------------------- MODULE MediaSetDelivery --------------------------
(***************************************************************************)
(* What the transport of a media set over media promises: the recipient    *)
(* gets one edition of the media set, whole, or none at all, and never two *)
(* answers.                                                                *)
(***************************************************************************)
CONSTANTS Nothing, Refusal

VARIABLES
  editions,    \* the editions of the media set, as closely as the
               \* recipient looks at them
  delivered    \* what the recipient has

Init == delivered = Nothing

Deliver == delivered = Nothing /\ delivered' \in editions
Refuse == delivered = Nothing /\ delivered' = Refusal

Next == Deliver \/ Refuse

(* It changes in no other way, and there is an answer.                     *)
Safety == Init /\ [][Next]_delivered
Answers == WF_delivered(Next)

Spec == Safety /\ Answers
=============================================================================
