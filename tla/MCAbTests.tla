------------------------------ MODULE MCAbTests ------------------------------
(* Instances of AbTests for TLC. *)
EXTENDS AbTests, TLC

CONSTANTS e1, e2, s1, c2

\* Two drafts, one of them already attributed to a campaign; the other ids are for
\* promoted copies.
OneAttributed ==
    (1 :> [source |-> None, campaign |-> None]) @@ (2 :> [source |-> s1, campaign |-> c2])

OneEach == [t \in Test |-> (e1 :> 10) @@ (e2 :> 60)]

Clicked(sent, clicked) == [sent |-> sent, opened |-> sent, clicked |-> clicked, replied |-> 0]

\* The first draft has sent nothing or ties with the second; the copies are not ranked.
FewTallies ==
    [m \in Mailing |-> CASE m = 1 -> {Clicked(0, 0), Clicked(2, 1)}
                         [] m = 2 -> {Clicked(4, 2)}
                         [] OTHER -> {Clicked(0, 0)}]
=============================================================================
