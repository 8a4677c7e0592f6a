-------------------------- MODULE MailingLifecycle --------------------------
(***************************************************************************)
(* What the state column of a mailing promises: the machine declared in    *)
(* the schema, that a trigger enforces on every UPDATE.  One transaction   *)
(* may move several mailings, each along one declared edge.                *)
(***************************************************************************)
CONSTANT Mailing

VARIABLE state

State == {"draft", "in_queue", "sending", "done"}

\* launch; pickup; complete; complete_empty; cancel; unpark; retry_failed
Edges ==
    {<<"draft", "in_queue">>, <<"in_queue", "sending">>, <<"sending", "done">>,
     <<"in_queue", "done">>, <<"in_queue", "draft">>, <<"sending", "draft">>,
     <<"done", "draft">>, <<"sending", "in_queue">>, <<"done", "in_queue">>}

Init == state = [m \in Mailing |-> "draft"]

Next ==
    /\ state' \in [Mailing -> State]
    /\ \A m \in Mailing : state'[m] # state[m] => <<state[m], state'[m]>> \in Edges

Spec == Init /\ [][Next]_state
=============================================================================
