------------------------- MODULE MCQubeNetwork -------------------------
(* A small instance of QubeNetwork for TLC, in two parts.                 *)
EXTENDS QubeNetwork, TLC

CONSTANTS n1, n2, q1

VARIABLE part   \* "pauses": q1 is paused, and only its netvm and the default
                \* change; "changes": of any kind, but n2 gets no netvm

MCInit == /\ part \in {"pauses", "changes"}
          /\ listed = Qubes
          /\ netvm = [q \in Qubes |-> IF q = q1 THEN Default ELSE NoQube]
          /\ default_netvm = n1
          /\ provides_network = [q \in Qubes |-> q # q1]
          /\ Init

MCNext ==
    /\ UNCHANGED part
    /\ Next
    /\ netvm'[n2] = netvm[n2]
    /\ part = "pauses" => /\ listed' = listed /\ provides_network' = provides_network
                          /\ netvm'[n1] = netvm[n1]
    /\ part = "changes" => power'[q1] # "Paused"

MCSpec == MCInit /\ [][MCNext]_<<part, vars>>
===========================================================================
