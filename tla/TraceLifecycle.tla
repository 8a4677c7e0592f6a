--------------------------- MODULE TraceLifecycle ---------------------------
(***************************************************************************)
(* What a trace row promises to the statistics and to the audit: it is     *)
(* minted once, its status only moves forward along the declared machine,  *)
(* reply, bounce, error and cancel are final, its mail link is written     *)
(* once, and a retry hides an error row for good.                          *)
(***************************************************************************)
EXTENDS Naturals

CONSTANT Trace

VARIABLES status, live, link

Vars == <<status, live, link>>

\* The trigger on trace_status.
Successors ==
    [outgoing |-> {"process", "pending", "sent", "open", "reply", "bounce", "error", "cancel"},
     process  |-> {"pending", "sent", "open", "reply", "bounce", "error"},
     pending  |-> {"sent", "open", "reply", "bounce", "error"},
     sent     |-> {"open", "reply", "bounce", "error"},
     open     |-> {"reply", "bounce"},
     reply    |-> {}, bounce |-> {}, error |-> {}, cancel |-> {}]

Init ==
    /\ status = [t \in Trace |-> "absent"]
    /\ live = [t \in Trace |-> FALSE]
    /\ link = [t \in Trace |-> 0]

Same(t) == status'[t] = status[t] /\ live'[t] = live[t] /\ link'[t] = link[t]

Minted(t) ==
    /\ status[t] = "absent" /\ status'[t] \in {"outgoing", "cancel"}
    /\ live'[t] /\ link'[t] = 0

Advanced(t) ==
    /\ live[t] /\ status[t] # "absent" /\ status'[t] \in Successors[status[t]]
    /\ live'[t] /\ link'[t] = link[t]

Linked(t) ==
    /\ live[t] /\ link[t] = 0 /\ link'[t] \in Nat \ {0}
    /\ status'[t] = status[t] /\ live'[t]

Hidden(t) ==
    /\ live[t] /\ ~live'[t]
    /\ status[t] = "error" /\ status'[t] = "error" /\ link'[t] = link[t]

Next == \A t \in Trace : Same(t) \/ Minted(t) \/ Advanced(t) \/ Linked(t) \/ Hidden(t)

Spec == Init /\ [][Next]_Vars
=============================================================================
