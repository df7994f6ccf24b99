----------------------------- MODULE LossyChannel -----------------------------
(***************************************************************************)
(* What the path of a value from gatherd to reposd promises, and no more:  *)
(* values of one sender arrive in the order they were sent, each at most   *)
(* once, none that was not sent; what is on its way may be lost, and the   *)
(* sender is not told.                                                     *)
(***************************************************************************)
EXTENDS Naturals, Sequences

CONSTANTS Senders

VARIABLES sent,       \* of each sender: the number of its newest value
          channel,    \* of each sender: the values on their way
          delivered   \* of each sender: the values that arrived

vars == <<sent, channel, delivered>>

Init ==
  /\ sent = [s \in Senders |-> 0]
  /\ channel = [s \in Senders |-> <<>>]
  /\ delivered = [s \in Senders |-> <<>>]

Number(s) ==
  /\ sent' = [sent EXCEPT ![s] = @ + 1]
  /\ UNCHANGED <<channel, delivered>>

\* The newest value is sent, or sent again after it was lost.
Send(s) ==
  /\ \A i \in DOMAIN channel[s] : channel[s][i] # sent[s]
  /\ \A i \in DOMAIN delivered[s] : delivered[s][i] # sent[s]
  /\ channel' = [channel EXCEPT ![s] = Append(@, sent[s])]
  /\ UNCHANGED <<sent, delivered>>

Lose(s) ==
  /\ channel' = [channel EXCEPT ![s] = <<>>]
  /\ UNCHANGED <<sent, delivered>>

Deliver(s) ==
  /\ channel[s] # <<>>
  /\ delivered' = [delivered EXCEPT ![s] = Append(@, Head(channel[s]))]
  /\ channel' = [channel EXCEPT ![s] = Tail(@)]
  /\ UNCHANGED sent

Next == \E s \in Senders : Number(s) \/ Send(s) \/ Lose(s) \/ Deliver(s)

Spec == Init /\ [][Next]_vars
=============================================================================
