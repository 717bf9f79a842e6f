-------------------------------- MODULE Mutex --------------------------------
(***************************************************************************)
(* What a lock that may go while it is held promises: at most one party is *)
(* inside for each key, unless the key was disturbed while a party was     *)
(* inside; once nobody is inside, the key protects again.  Parties may     *)
(* leave together, when a process that runs several of them dies.          *)
(***************************************************************************)
CONSTANTS Party, Key

VARIABLES
  inside,    \* the pairs <<party, key>> in their critical section
  disturbed  \* the keys whose lock went with somebody inside

vars == <<inside, disturbed>>

Taken(k) == \E p \in Party : <<p, k>> \in inside

Init == inside = {} /\ disturbed = {}

Enter(p, k) ==
  /\ Taken(k) => k \in disturbed
  /\ inside' = inside \cup {<<p, k>>}
  /\ UNCHANGED disturbed

Leave ==
  /\ \E gone \in SUBSET inside : gone # {} /\ inside' = inside \ gone
  /\ disturbed' = {k \in disturbed : Taken(k)'}

Disturb ==
  /\ \E K \in SUBSET Key : (\A k \in K : Taken(k)) /\ disturbed' = disturbed \cup K
  /\ UNCHANGED inside

Next == Leave \/ Disturb \/ \E p \in Party, k \in Key : Enter(p, k)

Spec == Init /\ [][Next]_vars

=============================================================================
