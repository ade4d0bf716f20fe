--------------------------- MODULE MessageDelivery ---------------------------
(***************************************************************************)
(* What an encrypted conversation promises whatever the network does: an   *)
(* end opens only messages its peer sent, and each of them at most once.   *)
(***************************************************************************)
EXTENDS Naturals, Sequences

CONSTANT Party

VARIABLES sent,     \* how many messages each end sent
          opened    \* per end, how often it opened each message of its peer

deliveryVars == <<sent, opened>>

Counterpart(p) == CHOOSE q \in Party : q # p

Init ==
  /\ sent = [p \in Party |-> 0]
  /\ opened = [p \in Party |-> <<>>]

Send(p) ==
  /\ sent' = [sent EXCEPT ![p] = @ + 1]
  /\ opened' = [opened EXCEPT ![Counterpart(p)] = Append(@, 0)]

Open(p, m) ==
  /\ m \in 1 .. sent[Counterpart(p)]
  /\ opened[p][m] = 0
  /\ opened' = [opened EXCEPT ![p][m] = 1]
  /\ UNCHANGED sent

Next ==
  \E p \in Party : Send(p) \/ \E m \in 1 .. sent[Counterpart(p)] : Open(p, m)

Spec == Init /\ [][Next]_deliveryVars
=============================================================================
