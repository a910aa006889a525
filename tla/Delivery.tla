------------------------------ MODULE Delivery ------------------------------
(***************************************************************************)
(* What the path from the validator to the ingester's handler promises     *)
(* about transactions: one is offered only if it is wanted, each offer is  *)
(* handled at most once, and whatever is lost is gone for good.  Nothing   *)
(* is promised about order, and nothing about a transaction being handled  *)
(* that was lost on the way.                                               *)
(***************************************************************************)
CONSTANT Message

VARIABLES wanted,     \* the messages the configuration asks for
          offered,    \* the messages that ever set out
          transit,    \* those on their way
          handled     \* those the ingester's handler has finished

vars == <<wanted, offered, transit, handled>>

Init ==
  /\ wanted \in SUBSET Message
  /\ offered = {} /\ transit = {} /\ handled = {}

Offer(m) ==
  /\ m \in wanted \ offered
  /\ offered' = offered \cup {m}
  /\ transit' = transit \cup {m}
  /\ UNCHANGED <<wanted, handled>>

Handle(m) ==
  /\ m \in transit
  /\ transit' = transit \ {m}
  /\ handled' = handled \cup {m}
  /\ UNCHANGED <<wanted, offered>>

\* What stops may lose messages, and start again with another configuration,
\* which concerns what is offered from then on.
Lose(lost) ==
  /\ lost \subseteq transit
  /\ transit' = transit \ lost
  /\ wanted' \in SUBSET Message
  /\ UNCHANGED <<offered, handled>>

Next ==
  \/ \E m \in Message : Offer(m) \/ Handle(m)
  \/ \E lost \in SUBSET transit : Lose(lost)

Spec == Init /\ [][Next]_vars
=============================================================================
