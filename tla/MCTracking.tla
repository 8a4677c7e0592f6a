----------------------------- MODULE MCTracking -----------------------------
(* Instances of Tracking for TLC. *)
EXTENDS Tracking, TLC

\* Two mailings reach one address.
EachItsMailing == [t \in Trace |-> t]

OneAddress == [t \in Trace |-> "e1"]

\* One code of the campaign, one that no tracker knows.
Attributed == ("k1" :> "c1") @@ ("k2" :> Gone)
=============================================================================
