---------------------------- MODULE MCSendEngine ----------------------------
(* Instances of SendEngine for TLC. *)
EXTENDS SendEngine, TLC

CONSTANTS m1, m2, r1, r2, e1, e2

OneMailing == {m1}
TwoMailings == {m1, m2}
TwoRecipients == {r1, r2}

OwnAddress == (r1 :> e1) @@ (r2 :> e2)
SharedAddress == (r1 :> e1) @@ (r2 :> e1)

Everyone == [m \in Mailing |-> Recipient]
Alone == [m \in Mailing |-> {m}]
Campaign == [m \in Mailing |-> Mailing]

\* m1 is older than m2.
ByName == [m \in Mailing |-> IF m = m1 THEN 1 ELSE 2]

\* m2 addresses nobody.
SecondEmpty == (m1 :> Recipient) @@ (m2 :> {})
=============================================================================
