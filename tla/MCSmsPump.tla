------------------------------ MODULE MCSmsPump ------------------------------
(* Instances of SmsPump for TLC. *)
EXTENDS SmsPump, TLC

ToAll == [m \in Mailing |-> Phone]

\* The codes on both sides of the two limits.
SomeCodes ==
    {[len |-> 5, alphanumeric |-> TRUE], [len |-> 6, alphanumeric |-> TRUE],
     [len |-> 6, alphanumeric |-> FALSE], [len |-> 13, alphanumeric |-> TRUE]}

SomeReplies == {"STOP", "YES"}

\* A gateway's answers; a text is canceled only before dispatch.
Gateway ==
    {<<"ready", "process">>, <<"process", "pending">>, <<"pending", "sent">>,
     <<"pending", "bounce">>, <<"process", "exception">>, <<"process", "rejected">>,
     <<"ready", "canceled">>}

\* The shortest ways to a verdict.
Brief == {<<"ready", "process">>, <<"process", "sent">>, <<"process", "exception">>}
=============================================================================
