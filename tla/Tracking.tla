------------------------------ MODULE Tracking ------------------------------
(***************************************************************************)
(* What happens to a mail trace once its mail is on the way: the public    *)
(* click and pixel legs, inbound replies and bounces, the sweep's          *)
(* reconcile and auto-blacklist arms, retry's soft delete and the          *)
(* generated transition routes an operator may call.  A leg is several     *)
(* transactions; legs, routes and sweep interleave, and a request may die  *)
(* between two of them.                                                    *)
(***************************************************************************)
EXTENDS Integers, FiniteSets

CONSTANTS
    Trace,          \* ids of mail traces
    MailingOf,      \* the mailing of each trace
    EmailOf,        \* the recipient of each trace
    Campaign,       \* the campaign denormalised on every trace
    Code,           \* short codes
    Attribution,    \* the campaign of each code, None if it has none, Gone if unknown
    None, Gone,
    Visitor,        \* concurrent public requests
    Operator,       \* concurrent transition routes
    Visited,        \* bound: the traces that visitors and operators touch
    RouteVerbs,     \* bound: the transition routes in use
    MaxBounces,     \* auto_blacklist_max_bounces
    SpreadDays,     \* auto_blacklist_spread_days
    MaxTime         \* bound: the moments the database clock tells apart

ASSUME TimeAssumption == MaxTime \in Nat \ {0} /\ MaxBounces \in Nat /\ SpreadDays \in Nat

ASSUME VisitedAssumption == Visited \subseteq Trace

VARIABLES
    trace,      \* the trace rows
    mail,       \* backbone-mail's row for each trace
    visit,      \* the local variables of each public request
    route,      \* those of each transition route
    settled,    \* the verdicts the reconcile arm has read and not yet applied
    listed,     \* the addresses the auto-blacklist arm has inserted
    now         \* the database clock

vars == <<trace, mail, visit, route, settled, listed, now>>

-----------------------------------------------------------------------------
Time == 0 .. MaxTime    \* 0: NULL

Status == {"outgoing", "process", "pending", "sent", "open", "reply", "bounce", "error",
           "cancel"}

\* bounced: failure_type is mail_bounce
TraceRow == [status : Status \cup {"absent"}, live : BOOLEAN, link : {0, 1}, bounced : BOOLEAN,
             created : Time, sent : Time, opened : Time, replied : Time, clicked : Time]

NoTrace == [status |-> "absent", live |-> FALSE, link |-> 0, bounced |-> FALSE,
            created |-> 0, sent |-> 0, opened |-> 0, replied |-> 0, clicked |-> 0]

\* accepted: the transport has the message, backbone-mail has not yet said so
MailState == {"none", "outgoing", "accepted", "sent", "exception"}

VisitRow == [pc : {"idle", "resolve", "open", "click"}, leg : {"click", "pixel"},
             trace : Trace \cup {None}, code : Code \cup {None}]

Idle == [pc |-> "idle", leg |-> "pixel", trace |-> None, code |-> None]

-----------------------------------------------------------------------------
(* The trace machine. *)

\* can_transition: the states each transition leaves
Sources ==
    LET Transient == {"outgoing", "process", "pending"}
    IN  [set_process     |-> {"outgoing"},
         set_pending     |-> {"outgoing", "process"},
         set_sent        |-> Transient,
         set_opened      |-> Transient \cup {"sent"},
         set_replied     |-> Transient \cup {"sent", "open"},
         set_bounced     |-> Transient \cup {"sent", "open"},
         set_bounced_sms |-> Transient,
         set_failed      |-> Transient \cup {"sent"},
         set_canceled    |-> {"outgoing"}]

Transition == DOMAIN Sources

\* target_state
Target ==
    [set_process |-> "process", set_pending |-> "pending", set_sent |-> "sent",
     set_opened |-> "open", set_replied |-> "reply", set_bounced |-> "bounce",
     set_bounced_sms |-> "bounce", set_failed |-> "error", set_canceled |-> "cancel"]

CanTransition(from, transition) == from \in Sources[transition]

\* Slip: nothing but the route's own check.
Unchecked(from, to) == TRUE

\* The trigger on trace_status: an UPDATE keeps the status or follows a declared edge.
Declared(from, to) ==
    from = to \/ \E transition \in Transition :
                    CanTransition(from, transition) /\ Target[transition] = to

\* NULL or the first stamp
Coalesce(stamp) == IF stamp = 0 THEN now ELSE stamp

-----------------------------------------------------------------------------
(* The verbs on a row: a conditional UPDATE, and no change where it matches nothing. *)

Moved(row, transition, stamped) ==
    IF row.live /\ CanTransition(row.status, transition)
    THEN [stamped EXCEPT !.status = Target[transition]] ELSE row

\* Slip: an acceptance that comes after the open is stamped all the same.
SetSentLate(row) ==
    IF row.live /\ row.status = "open" THEN [row EXCEPT !.sent = Coalesce(row.sent)]
    ELSE Moved(row, "set_sent", [row EXCEPT !.sent = Coalesce(row.sent)])

\* set_sent: the first stamp wins, the failure pair is cleared
SetSent(row) ==
    Moved(row, "set_sent", [row EXCEPT !.sent = Coalesce(row.sent), !.bounced = FALSE])

SetOpened(row) == Moved(row, "set_opened", [row EXCEPT !.opened = Coalesce(row.opened)])

\* Slip: the reply stamps the open afresh.
SetRepliedAfresh(row) ==
    Moved(row, "set_replied", [row EXCEPT !.replied = now, !.opened = now])

\* set_replied: a reply is a touch
SetReplied(row) ==
    Moved(row, "set_replied", [row EXCEPT !.replied = now, !.opened = Coalesce(row.opened)])

\* Slip: the failure type is taken for the status.
SetBouncedLabel(row) ==
    IF row.live /\ CanTransition(row.status, "set_bounced")
    THEN [row EXCEPT !.status = "mail_bounce"] ELSE row

\* set_bounced: the fact the auto-blacklist counts, and a touch
SetBounced(row) ==
    Moved(row, "set_bounced", [row EXCEPT !.bounced = TRUE, !.opened = Coalesce(row.opened)])

SetFailed(row) == Moved(row, "set_failed", row)

\* set_clicked: the last click, whatever the status
SetClicked(row) == IF row.live THEN [row EXCEPT !.clicked = now] ELSE row

-----------------------------------------------------------------------------
(* The mail's way out, as far as the trace sees it. *)

Mint(t) ==
    /\ trace[t].status = "absent"
    /\ \A u \in Trace : MailingOf[u] = MailingOf[t] => ~trace[u].live
    /\ trace' = [trace EXCEPT ![t] = [NoTrace EXCEPT !.status = "outgoing", !.live = TRUE,
                                                     !.created = now]]
    /\ UNCHANGED <<mail, visit, route, settled, listed, now>>

\* enqueue, then attach_mail_id: two transactions
Enqueue(t) ==
    /\ trace[t].status # "absent" /\ mail[t] = "none"
    /\ mail' = [mail EXCEPT ![t] = "outgoing"]
    /\ UNCHANGED <<trace, visit, route, settled, listed, now>>

Link(t) ==
    /\ mail[t] # "none" /\ trace[t].live /\ trace[t].link = 0
    /\ trace' = [trace EXCEPT ![t].link = 1]
    /\ UNCHANGED <<mail, visit, route, settled, listed, now>>

\* backbone-mail's queue: handed over and then recorded, or refused
Transport(t) ==
    /\ \E step \in {<<"outgoing", "accepted">>, <<"accepted", "sent">>,
                    <<"outgoing", "exception">>} :
        mail[t] = step[1] /\ mail' = [mail EXCEPT ![t] = step[2]]
    /\ UNCHANGED <<trace, visit, route, settled, listed, now>>

Received(t) == mail[t] \in {"accepted", "sent"}

\* settled_mails_for_reconcile
Settled ==
    {<<t, mail[t]>> : t \in {u \in Trace : /\ trace[u].live
                                          /\ trace[u].status = "outgoing"
                                          /\ trace[u].link = 1
                                          /\ mail[u] \in {"sent", "exception"}}}

ReadSettled ==
    /\ settled = {} /\ Settled # {}
    /\ settled' = Settled
    /\ UNCHANGED <<trace, mail, visit, route, listed, now>>

\* Each verdict is applied as it was read, to the row as it is by then.
Reconcile(v) ==
    /\ v \in settled
    /\ settled' = settled \ {v}
    /\ trace' = [trace EXCEPT ![v[1]] = IF v[2] = "sent" THEN SetSent(@) ELSE SetFailed(@)]
    /\ UNCHANGED <<mail, visit, route, listed, now>>

\* An inbound message is matched to the trace.
InboundReply(t) ==
    /\ t \in Visited /\ Received(t)
    /\ trace' = [trace EXCEPT ![t] = SetReplied(@)]
    /\ UNCHANGED <<mail, visit, route, settled, listed, now>>

InboundBounce(t) ==
    /\ Received(t)
    /\ trace' = [trace EXCEPT ![t] = SetBounced(@)]
    /\ UNCHANGED <<mail, visit, route, settled, listed, now>>

\* retry_failed frees the mailing's error traces
RetryFailed(m) ==
    LET failed == {t \in Trace : MailingOf[t] = m /\ trace[t].live /\ trace[t].status = "error"}
    IN  /\ failed # {}
        /\ trace' = [t \in Trace |-> IF t \in failed THEN [trace[t] EXCEPT !.live = FALSE]
                                     ELSE trace[t]]
        /\ UNCHANGED <<mail, visit, route, settled, listed, now>>

-----------------------------------------------------------------------------
(* The public legs. *)

SetVisit(r, local) ==
    /\ visit' = [visit EXCEPT ![r] = local]
    /\ UNCHANGED <<mail, route, settled, listed, now>>

\* route_trace: the probe of a live trace, in its own transaction
RouteTrace(r, leg, t, code) ==
    /\ visit[r].pc = "idle"
    /\ t \in Visited /\ Received(t)
    /\ trace[t].live
    /\ SetVisit(r, [pc |-> "resolve", leg |-> leg, trace |-> t, code |-> code])
    /\ UNCHANGED trace

\* Two unattributed halves are consistent, too.
Consistent(code) == Attribution[code] = Campaign

\* resolve_click: an inconsistent pair is refused; the short-link module counts the others
ResolveClick(r) ==
    /\ visit[r].pc = "resolve" /\ visit[r].leg = "click"
    /\ SetVisit(r, IF Consistent(visit[r].code) THEN [visit[r] EXCEPT !.pc = "open"] ELSE Idle)
    /\ UNCHANGED trace

\* check_consistency: the pixel only asks
CheckConsistency(r) ==
    /\ visit[r].pc = "resolve" /\ visit[r].leg = "pixel"
    /\ SetVisit(r, IF Consistent(visit[r].code) THEN [visit[r] EXCEPT !.pc = "open"] ELSE Idle)
    /\ UNCHANGED trace

\* Slip: the click is stamped before the open.
ClickThenOpen(r) ==
    /\ visit[r].pc = "open"
    /\ trace' = [trace EXCEPT ![visit[r].trace] =
                    IF visit[r].leg = "click" THEN SetClicked(@) ELSE SetOpened(@)]
    /\ SetVisit(r, IF visit[r].leg = "click" THEN [visit[r] EXCEPT !.pc = "click"] ELSE Idle)

\* set_opened in a transaction of its own; Skipped and Missing go on all the same
StampOpened(r) ==
    /\ visit[r].pc = "open"
    /\ trace' = [trace EXCEPT ![visit[r].trace] = SetOpened(@)]
    /\ SetVisit(r, IF visit[r].leg = "click" THEN [visit[r] EXCEPT !.pc = "click"] ELSE Idle)

StampClicked(r) ==
    /\ visit[r].pc = "click"
    /\ trace' = [trace EXCEPT ![visit[r].trace] = SetClicked(@)]
    /\ SetVisit(r, Idle)

\* The process dies, or the visitor hangs up and the handler is dropped.
Abandon(r) ==
    /\ visit[r].pc # "idle"
    /\ SetVisit(r, Idle)
    /\ UNCHANGED trace

-----------------------------------------------------------------------------
(* The transition routes: read the row, check in memory, update trace_status alone. *)

ReadForRoute(o, t, transition) ==
    /\ transition \in RouteVerbs
    /\ route[o] = None
    /\ t \in Visited /\ trace[t].live
    /\ CanTransition(trace[t].status, transition)
    /\ route' = [route EXCEPT ![o] = <<t, transition>>]
    /\ UNCHANGED <<trace, mail, visit, settled, listed, now>>

\* partial_update: refused by the trigger where the row has moved on in between
WriteForRoute(o, transition) ==
    /\ route[o] # None /\ route[o][2] = transition
    /\ LET t == route[o][1]
           to == Target[transition]
       IN  trace' = IF trace[t].live /\ Declared(trace[t].status, to)
                    THEN [trace EXCEPT ![t].status = to] ELSE trace
    /\ route' = [route EXCEPT ![o] = None]
    /\ UNCHANGED <<mail, visit, settled, listed, now>>

SetProcessTransition(o)    == WriteForRoute(o, "set_process")
SetPendingTransition(o)    == WriteForRoute(o, "set_pending")
SetSentTransition(o)       == WriteForRoute(o, "set_sent")
SetOpenedTransition(o)     == WriteForRoute(o, "set_opened")
SetRepliedTransition(o)    == WriteForRoute(o, "set_replied")
SetBouncedTransition(o)    == WriteForRoute(o, "set_bounced")
SetBouncedSmsTransition(o) == WriteForRoute(o, "set_bounced_sms")
SetFailedTransition(o)     == WriteForRoute(o, "set_failed")
SetCanceledTransition(o)   == WriteForRoute(o, "set_canceled")

-----------------------------------------------------------------------------
(* The auto-blacklist arm, one statement. *)

Bounces(email) ==
    {t \in Trace : EmailOf[t] = email /\ trace[t].live /\ trace[t].bounced}

Apart(t, u) == trace[t].created - trace[u].created > SpreadDays

\* Slip: a burst is enough.
MereCount(email) == Cardinality(Bounces(email)) >= MaxBounces

\* At least so many bounces of the window, spread over more than so many days.
Offender(email) ==
    /\ Cardinality(Bounces(email)) >= MaxBounces
    /\ \E t, u \in Bounces(email) : Apart(t, u)

AutoBlacklist ==
    /\ listed' = listed \cup {e \in {EmailOf[t] : t \in Trace} : Offender(e)}
    /\ UNCHANGED <<trace, mail, visit, route, settled, now>>

Tick ==
    /\ now < MaxTime
    /\ now' = now + 1
    /\ UNCHANGED <<trace, mail, visit, route, settled, listed>>

-----------------------------------------------------------------------------
Init ==
    /\ trace = [t \in Trace |-> NoTrace]
    /\ mail = [t \in Trace |-> "none"]
    /\ visit = [r \in Visitor |-> Idle]
    /\ route = [o \in Operator |-> None]
    /\ settled = {}
    /\ listed = {}
    /\ now = 1

Outbound ==
    \/ \E t \in Trace : \/ Mint(t) \/ Enqueue(t) \/ Link(t) \/ Transport(t)
                        \/ InboundReply(t) \/ InboundBounce(t)
    \/ ReadSettled
    \/ \E v \in Trace \X MailState : Reconcile(v)
    \/ \E t \in Trace : RetryFailed(MailingOf[t])
    \/ AutoBlacklist

Visit(r) ==
    \/ \E leg \in {"click", "pixel"}, t \in Trace, code \in Code : RouteTrace(r, leg, t, code)
    \/ ResolveClick(r)
    \/ CheckConsistency(r)
    \/ StampOpened(r)
    \/ StampClicked(r)
    \/ Abandon(r)

Route(o) ==
    \/ \E t \in Trace, transition \in Transition : ReadForRoute(o, t, transition)
    \/ SetProcessTransition(o)
    \/ SetPendingTransition(o)
    \/ SetSentTransition(o)
    \/ SetOpenedTransition(o)
    \/ SetRepliedTransition(o)
    \/ SetBouncedTransition(o)
    \/ SetBouncedSmsTransition(o)
    \/ SetFailedTransition(o)
    \/ SetCanceledTransition(o)

Next ==
    \/ Outbound
    \/ \E r \in Visitor : Visit(r)
    \/ \E o \in Operator : Route(o)
    \/ Tick

Spec == Init /\ [][Next]_vars

-----------------------------------------------------------------------------
(* Properties. *)

TypeOK ==
    /\ trace \in [Trace -> TraceRow]
    /\ mail \in [Trace -> MailState]
    /\ visit \in [Visitor -> VisitRow]
    /\ route \in [Operator -> {None} \cup (Trace \X Transition)]
    /\ settled \subseteq Trace \X MailState
    /\ listed \subseteq {EmailOf[t] : t \in Trace}
    /\ now \in 1 .. MaxTime

\* A click that is on the trace is never ahead of the open: whichever of the two stamps a
\* crash, a reconcile or a route gets between, a clicked trace has left the unread states.
ClickedIsTouched ==
    \A t \in Trace : trace[t].clicked # 0 =>
        trace[t].status \notin {"outgoing", "process", "pending", "sent"}

\* The stamps of a trace tell one story: sent, then opened, then replied.
Timeline ==
    \A t \in Trace : LET row == trace[t] IN
        /\ row.sent # 0 /\ row.opened # 0 => row.sent <= row.opened
        /\ row.opened # 0 /\ row.replied # 0 => row.opened <= row.replied
        /\ row.opened # 0 => row.created <= row.opened

\* The open stamp is the first touch, for good: pixels, clicks, replies and bounces that come
\* later, in any order, leave it alone.
FirstOpenKept ==
    [][\A t \in Trace : trace[t].opened # 0 => trace'[t].opened = trace[t].opened]_vars

\* The bounces of an address that stand.
Standing(email) ==
    {t \in Trace : EmailOf[t] = email /\ trace[t].live /\ trace[t].status = "bounce"}

\* An address is on the list only for a pattern that the rows still prove: as many bounces as
\* the rule asks for, of mailings far enough apart, which no later verb, route, retry or late
\* verdict has taken back.
ListedForAPattern ==
    \A email \in listed :
        /\ Cardinality(Standing(email)) >= MaxBounces
        /\ \E t, u \in Standing(email) : Apart(t, u)

Rows == INSTANCE TraceLifecycle WITH
    status <- [t \in Trace |-> trace[t].status],
    live   <- [t \in Trace |-> trace[t].live],
    link   <- [t \in Trace |-> trace[t].link]

\* The rows keep the promise of TraceLifecycle although the routes decide on a row they read
\* before: a stale transition is refused, or is still an edge of the machine.
ImplementsRows == Rows!Spec

\* "`sent` counts traces that were EVER submitted": a trace whose mail the transport took, and
\* that was opened, has its sent stamp once no reconcile will look at it again.
SentCountsSubmitted ==
    \A t \in Trace :
        trace[t].live /\ mail[t] = "sent" /\ trace[t].status \in {"open", "reply"} =>
            trace[t].sent # 0
=============================================================================
