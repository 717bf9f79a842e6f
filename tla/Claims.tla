------------------------------- MODULE Claims -------------------------------
(***************************************************************************)
(* What registration promises, without handlers, hooks or services: each   *)
(* mailbox is given to the first party whose claim takes effect, for good, *)
(* and a party is told that it won only after its claim took effect and    *)
(* that it lost only if it never did and never will.                       *)
(***************************************************************************)
CONSTANTS Party, Mailbox, Nobody

VARIABLES
  owner,    \* the party each mailbox belongs to, or Nobody
  verdict   \* what each party has been told: "open", "won" or "lost"

Holds(p) == \E m \in Mailbox : owner[m] = p

Init ==
  /\ owner = [m \in Mailbox |-> Nobody]
  /\ verdict = [p \in Party |-> "open"]

Take(p, m) ==
  /\ owner[m] = Nobody
  /\ ~ Holds(p)
  /\ verdict[p] = "open"
  /\ owner' = [owner EXCEPT ![m] = p]
  /\ UNCHANGED verdict

Won(p) ==
  /\ verdict[p] = "open"
  /\ Holds(p)
  /\ verdict' = [verdict EXCEPT ![p] = "won"]
  /\ UNCHANGED owner

Lost(p) ==
  /\ verdict[p] = "open"
  /\ ~ Holds(p)
  /\ verdict' = [verdict EXCEPT ![p] = "lost"]
  /\ UNCHANGED owner

Next ==
  \E p \in Party : Won(p) \/ Lost(p) \/ \E m \in Mailbox : Take(p, m)

Spec == Init /\ [][Next]_<<owner, verdict>>

=============================================================================
