------------------------------ MODULE OrderedLink ------------------------------
(***************************************************************************)
(* What one direction of the bridge promises for one kind of message: the  *)
(* messages arrive in the order they were sent, each at most once, and     *)
(* nothing arrives that was not sent.  A link may stop at any time, which  *)
(* loses a suffix of what was sent.  Only a lossy link may also lose a     *)
(* message in the middle; the others keep their order.                     *)
(***************************************************************************)
EXTENDS Naturals, Sequences

CONSTANTS Messages, Lossy

VARIABLES sent, rcvd

linkVars == <<sent, rcvd>>

Init == sent = <<>> /\ rcvd = <<>>

Send == \E m \in Messages : sent' = Append(sent, m) /\ UNCHANGED rcvd

Deliver ==
    /\ Len(rcvd) < Len(sent)
    /\ rcvd' = Append(rcvd, sent[Len(rcvd) + 1])
    /\ UNCHANGED sent

Lose ==
    /\ Lossy
    /\ \E n \in Len(rcvd) + 1 .. Len(sent) :
          sent' = SubSeq(sent, 1, n - 1) \o SubSeq(sent, n + 1, Len(sent))
    /\ UNCHANGED rcvd

Next == Send \/ Deliver \/ Lose

Spec == Init /\ [][Next]_linkVars
=============================================================================
