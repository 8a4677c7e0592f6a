---------------------------- MODULE TrackingProofs ----------------------------
(***************************************************************************)
(* Theorems about Tracking, for any number of traces, requests and         *)
(* operators, whatever the codes are attributed to.                        *)
(***************************************************************************)
EXTENDS Tracking, TLAPS, FiniteSetTheorems

Unread == {"outgoing", "process", "pending", "sent"}

\* A trace nobody minted is not there and carries no stamp.
NeverStamped ==
    \A t \in Trace : trace[t].status = "absent" => trace[t].opened = 0 /\ ~trace[t].live

\* A leg past its start is about a trace that was minted.
LegsAreSomewhere ==
    \A r \in Visitor : visit[r].pc # "idle" =>
        visit[r].trace \in Trace /\ trace[visit[r].trace].status # "absent"

\* The click leg goes on to its second stamp when the row is touched, or not there any more.
ClickLegTouched ==
    \A r \in Visitor : visit[r].pc = "click" /\ trace[visit[r].trace].live =>
            trace[visit[r].trace].status \notin Unread

Sound ==
    /\ TypeOK
    /\ NeverStamped
    /\ LegsAreSomewhere
    /\ ClickLegTouched
    /\ ClickedIsTouched

-----------------------------------------------------------------------------
(* Rows. *)

LEMMA Targets ==
    ASSUME NEW transition \in Transition
    PROVE  /\ Target[transition] \in Status
           /\ Sources[transition] \subseteq Unread \cup {"open"}
           /\ Target[transition] \in Unread => Sources[transition] \subseteq Unread
  BY DEF Transition, Sources, Target, Status, Unread

LEMMA StampTyped ==
    ASSUME NEW stamp \in Time, now \in 1 .. MaxTime
    PROVE  /\ Coalesce(stamp) \in Time
           /\ stamp # 0 => Coalesce(stamp) = stamp
           /\ now \in Time
  BY TimeAssumption DEF Coalesce, Time

(* What no verb does to a row: revive it, take its open stamp, or send it back among the
   unread ones. *)
Progress(row, next) ==
    /\ next \in TraceRow
    /\ next.live => row.live
    /\ row.status = "absent" <=> next.status = "absent"
    /\ row.opened # 0 => next.opened = row.opened
    /\ row.status = "absent" => next.opened = row.opened
    /\ row.status \notin Unread => next.status \notin Unread
    /\ next.clicked # 0 => row.clicked # 0 \/ next.status \notin Unread

LEMMA MovedRow ==
    ASSUME NEW row \in TraceRow, NEW stamped \in TraceRow, NEW transition \in Transition,
           stamped.live = row.live, stamped.link = row.link,
           stamped.clicked = row.clicked,
           row.opened # 0 => stamped.opened = row.opened
    PROVE  Progress(row, Moved(row, transition, stamped))
  <1> DEFINE next == [stamped EXCEPT !.status = Target[transition]]
  <1>1. CASE row.live /\ CanTransition(row.status, transition)
    <2>1. row.status \in Unread \cup {"open"} /\ Target[transition] \in Status
      BY <1>1, Targets DEF CanTransition
    <2>2. row.status # "absent" /\ Target[transition] # "absent"
      BY <2>1 DEF Unread, Status
    <2>3. row.status \notin Unread => Target[transition] \notin Unread
      BY <1>1, Targets DEF CanTransition
    <2>4. /\ next \in TraceRow /\ next.status = Target[transition]
          /\ next.live = row.live /\ next.link = row.link
          /\ next.clicked = row.clicked /\ next.opened = stamped.opened
      BY <2>1 DEF TraceRow
    <2>5. Moved(row, transition, stamped) = next
      BY <1>1 DEF Moved
    <2> HIDE DEF next
    <2> QED
      BY <2>2, <2>3, <2>4, <2>5 DEF Progress
  <1>2. CASE ~(row.live /\ CanTransition(row.status, transition))
    BY <1>2 DEF Moved, Progress
  <1> QED
    BY <1>1, <1>2

LEMMA VerbsProgress ==
    ASSUME NEW row \in TraceRow, now \in 1 .. MaxTime
    PROVE  /\ Progress(row, SetSent(row))
           /\ Progress(row, SetOpened(row))
           /\ Progress(row, SetReplied(row))
           /\ Progress(row, SetBounced(row))
           /\ Progress(row, SetFailed(row))
  <1>1. {"set_sent", "set_opened", "set_replied", "set_bounced", "set_failed"}
            \subseteq Transition
    BY DEF Transition, Sources
  <1>2. /\ row.sent \in Time /\ row.opened \in Time
    BY DEF TraceRow
  <1>3. /\ Coalesce(row.sent) \in Time /\ Coalesce(row.opened) \in Time /\ now \in Time
        /\ row.opened # 0 => Coalesce(row.opened) = row.opened
    BY <1>2, StampTyped
  <1>4. Progress(row, SetSent(row))
    <2> DEFINE stamped == [row EXCEPT !.sent = Coalesce(row.sent), !.bounced = FALSE]
    <2>1. /\ stamped \in TraceRow /\ stamped.live = row.live /\ stamped.link = row.link
          /\ stamped.clicked = row.clicked /\ stamped.opened = row.opened
      BY <1>3 DEF TraceRow
    <2> HIDE DEF stamped
    <2>2. Progress(row, Moved(row, "set_sent", stamped))
      BY <1>1, <2>1, MovedRow
    <2> QED
      BY <2>2 DEF SetSent, stamped
  <1>5. Progress(row, SetOpened(row))
    <2> DEFINE stamped == [row EXCEPT !.opened = Coalesce(row.opened)]
    <2>1. /\ stamped \in TraceRow /\ stamped.live = row.live /\ stamped.link = row.link
          /\ stamped.clicked = row.clicked /\ stamped.opened = Coalesce(row.opened)
      BY <1>3 DEF TraceRow
    <2> HIDE DEF stamped
    <2>2. Progress(row, Moved(row, "set_opened", stamped))
      BY <1>1, <1>3, <2>1, MovedRow
    <2> QED
      BY <2>2 DEF SetOpened, stamped
  <1>6. Progress(row, SetReplied(row))
    <2> DEFINE stamped == [row EXCEPT !.replied = now, !.opened = Coalesce(row.opened)]
    <2>1. /\ stamped \in TraceRow /\ stamped.live = row.live /\ stamped.link = row.link
          /\ stamped.clicked = row.clicked /\ stamped.opened = Coalesce(row.opened)
      BY <1>3 DEF TraceRow
    <2> HIDE DEF stamped
    <2>2. Progress(row, Moved(row, "set_replied", stamped))
      BY <1>1, <1>3, <2>1, MovedRow
    <2> QED
      BY <2>2 DEF SetReplied, stamped
  <1>7. Progress(row, SetBounced(row))
    <2> DEFINE stamped == [row EXCEPT !.bounced = TRUE, !.opened = Coalesce(row.opened)]
    <2>1. /\ stamped \in TraceRow /\ stamped.live = row.live /\ stamped.link = row.link
          /\ stamped.clicked = row.clicked /\ stamped.opened = Coalesce(row.opened)
      BY <1>3 DEF TraceRow
    <2> HIDE DEF stamped
    <2>2. Progress(row, Moved(row, "set_bounced", stamped))
      BY <1>1, <1>3, <2>1, MovedRow
    <2> QED
      BY <2>2 DEF SetBounced, stamped
  <1>8. Progress(row, SetFailed(row))
    BY <1>1, MovedRow DEF SetFailed
  <1> QED
    BY <1>4, <1>5, <1>6, <1>7, <1>8

\* The pixel and the click leave a row that is there touched.
LEMMA OpenTouches ==
    ASSUME NEW row \in TraceRow
    PROVE  SetOpened(row).live => SetOpened(row).status \notin Unread
  <1>1. /\ CanTransition(row.status, "set_opened") <=> row.status \in Unread
        /\ Target["set_opened"] = "open"
    BY DEF CanTransition, Sources, Target, Unread
  <1>2. ASSUME NEW stamp
        PROVE  LET next == [[row EXCEPT !.opened = stamp] EXCEPT !.status = "open"]
               IN  next.status = "open" /\ next.live = row.live
    BY DEF TraceRow
  <1>3. "open" \notin Unread
    BY DEF Unread
  <1> QED
    BY <1>1, <1>2, <1>3 DEF SetOpened, Moved

\* The second stamp of the click leg.
LEMMA ClickProgress ==
    ASSUME NEW row \in TraceRow, now \in 1 .. MaxTime,
           row.live => row.status \notin Unread
    PROVE  Progress(row, SetClicked(row))
  <1>1. now \in Time
    BY TimeAssumption DEF Time
  <1>2. /\ [row EXCEPT !.clicked = now] \in TraceRow
        /\ [row EXCEPT !.clicked = now].status = row.status
        /\ [row EXCEPT !.clicked = now].opened = row.opened
        /\ [row EXCEPT !.clicked = now].live = row.live
    BY <1>1 DEF TraceRow
  <1>3. row.clicked # 0 \/ row.clicked = 0
    OBVIOUS
  <1> QED
    BY <1>2 DEF SetClicked, Progress

\* A route writes the status alone, along an edge of the machine.
LEMMA RouteProgress ==
    ASSUME NEW row \in TraceRow, NEW transition \in Transition, row.live,
           row.status # "absent", Declared(row.status, Target[transition])
    PROVE  Progress(row, [row EXCEPT !.status = Target[transition]])
  <1>1. Target[transition] \in Status /\ Target[transition] # "absent"
    BY Targets DEF Status
  <1>2. row.status \notin Unread => Target[transition] \notin Unread
    <2>1. CASE row.status = Target[transition]
      BY <2>1
    <2>2. ASSUME NEW edge \in Transition, CanTransition(row.status, edge),
                 Target[edge] = Target[transition]
          PROVE  row.status \notin Unread => Target[transition] \notin Unread
      BY <2>2, Targets DEF CanTransition
    <2> QED
      BY <2>1, <2>2 DEF Declared
  <1>3. ASSUME NEW to \in Status
        PROVE  LET next == [row EXCEPT !.status = to]
               IN  /\ next \in TraceRow /\ next.status = to /\ next.live = row.live
                   /\ next.opened = row.opened /\ next.clicked = row.clicked
    BY <1>3 DEF TraceRow
  <1> QED
    BY <1>1, <1>2, <1>3 DEF Progress

-----------------------------------------------------------------------------
(* Steps. *)

LEMMA SameProgress == ASSUME NEW row \in TraceRow PROVE Progress(row, row)
  <1>1. row.clicked # 0 => row.clicked # 0
    OBVIOUS
  <1> QED
    BY <1>1 DEF Progress

\* A step that writes one row, and writes it forward.
LEMMA OneRow ==
    ASSUME trace \in [Trace -> TraceRow], NEW t \in Trace, NEW next,
           Progress(trace[t], next), trace' = [trace EXCEPT ![t] = next]
    PROVE  /\ trace' \in [Trace -> TraceRow]
           /\ \A u \in Trace : Progress(trace[u], trace'[u])
  <1>1. next \in TraceRow
    BY DEF Progress
  <1>2. \A u \in Trace : trace'[u] = IF u = t THEN next ELSE trace[u]
    OBVIOUS
  <1> QED
    BY <1>1, <1>2, SameProgress

RowsGoOn ==
    /\ trace' \in [Trace -> TraceRow]
    /\ \A u \in Trace : Progress(trace[u], trace'[u])

LEMMA Idles ==
    ASSUME Sound, UNCHANGED trace
    PROVE  RowsGoOn
  BY SameProgress DEF RowsGoOn, Sound, TypeOK

LEMMA OutboundGoesOn ==
    ASSUME Sound, Outbound
    PROVE  RowsGoOn \/ \E t \in Trace : Mint(t)
  <1>1. trace \in [Trace -> TraceRow] /\ now \in 1 .. MaxTime
    BY DEF Sound, TypeOK
  <1>2. ASSUME NEW t \in Trace, Enqueue(t) \/ Transport(t)
        PROVE  RowsGoOn
    BY <1>2, Idles DEF Enqueue, Transport
  <1>3. ASSUME NEW t \in Trace, Link(t)
        PROVE  RowsGoOn
    <2>1. ASSUME NEW row \in TraceRow
          PROVE  Progress(row, [row EXCEPT !.link = 1])
      <3>1. LET next == [row EXCEPT !.link = 1]
            IN  /\ next \in TraceRow /\ next.status = row.status /\ next.live = row.live
                /\ next.opened = row.opened /\ next.clicked = row.clicked
        BY DEF TraceRow
      <3> QED
        BY <3>1 DEF Progress
    <2>2. trace' = [trace EXCEPT ![t] = [trace[t] EXCEPT !.link = 1]]
      BY <1>1, <1>3 DEF Link
    <2> QED
      BY <1>1, <2>1, <2>2, OneRow DEF RowsGoOn
  <1>4. ASSUME NEW t \in Trace, InboundReply(t)
        PROVE  RowsGoOn
    <2>1. trace' = [trace EXCEPT ![t] = SetReplied(trace[t])]
      BY <1>4 DEF InboundReply
    <2> QED
      BY <1>1, <2>1, VerbsProgress, OneRow DEF RowsGoOn
  <1>5. ASSUME NEW t \in Trace, InboundBounce(t)
        PROVE  RowsGoOn
    <2>1. trace' = [trace EXCEPT ![t] = SetBounced(trace[t])]
      BY <1>5 DEF InboundBounce
    <2> QED
      BY <1>1, <2>1, VerbsProgress, OneRow DEF RowsGoOn
  <1>6. ASSUME ReadSettled \/ AutoBlacklist
        PROVE  RowsGoOn
    BY <1>6, Idles DEF ReadSettled, AutoBlacklist
  <1>7. ASSUME NEW v \in Trace \X MailState, Reconcile(v)
        PROVE  RowsGoOn
    <2>1. v[1] \in Trace
      BY <1>7
    <2>2. trace' = [trace EXCEPT ![v[1]] = IF v[2] = "sent" THEN SetSent(trace[v[1]])
                                           ELSE SetFailed(trace[v[1]])]
      BY <1>7 DEF Reconcile
    <2>3. Progress(trace[v[1]], IF v[2] = "sent" THEN SetSent(trace[v[1]])
                                ELSE SetFailed(trace[v[1]]))
      BY <1>1, <2>1, VerbsProgress
    <2> QED
      BY <1>1, <2>1, <2>2, <2>3, OneRow DEF RowsGoOn
  <1>8. ASSUME NEW m, RetryFailed(m)
        PROVE  RowsGoOn
    <2> DEFINE failed == {t \in Trace : MailingOf[t] = m /\ trace[t].live
                                        /\ trace[t].status = "error"}
    <2>1. trace' = [t \in Trace |-> IF t \in failed THEN [trace[t] EXCEPT !.live = FALSE]
                                    ELSE trace[t]]
      BY <1>8 DEF RetryFailed
    <2>2. ASSUME NEW row \in TraceRow
          PROVE  Progress(row, [row EXCEPT !.live = FALSE])
      <3>1. LET next == [row EXCEPT !.live = FALSE]
            IN  /\ next \in TraceRow /\ next.status = row.status /\ next.live = FALSE
                /\ next.opened = row.opened /\ next.clicked = row.clicked
        BY DEF TraceRow
      <3> QED
        BY <3>1 DEF Progress
    <2> HIDE DEF failed
    <2>3. \A u \in Trace : Progress(trace[u], trace'[u])
      BY <1>1, <2>1, <2>2, SameProgress
    <2>4. \A u \in Trace : trace'[u] \in TraceRow
      BY <2>3 DEF Progress
    <2> QED
      BY <2>1, <2>3, <2>4 DEF RowsGoOn
  <1> QED
    BY <1>2, <1>3, <1>4, <1>5, <1>6, <1>7, <1>8 DEF Outbound

LEMMA VisitGoesOn ==
    ASSUME Sound, NEW r \in Visitor, Visit(r)
    PROVE  RowsGoOn
  <1>1. trace \in [Trace -> TraceRow] /\ now \in 1 .. MaxTime
    BY DEF Sound, TypeOK
  <1>2. CASE StampOpened(r)
    <2>1. visit[r].trace \in Trace
      BY <1>2 DEF StampOpened, Sound, LegsAreSomewhere
    <2>2. trace' = [trace EXCEPT ![visit[r].trace] = SetOpened(trace[visit[r].trace])]
      BY <1>2 DEF StampOpened
    <2> QED
      BY <1>1, <2>1, <2>2, VerbsProgress, OneRow DEF RowsGoOn
  <1>3. CASE StampClicked(r)
    <2>1. visit[r].trace \in Trace
      BY <1>3 DEF StampClicked, Sound, LegsAreSomewhere
    <2>2. trace[visit[r].trace].live => trace[visit[r].trace].status \notin Unread
      BY <1>3 DEF StampClicked, Sound, ClickLegTouched
    <2>3. trace' = [trace EXCEPT ![visit[r].trace] = SetClicked(trace[visit[r].trace])]
      BY <1>3 DEF StampClicked
    <2> QED
      BY <1>1, <2>1, <2>2, <2>3, ClickProgress, OneRow DEF RowsGoOn
  <1> QED
    BY <1>2, <1>3, Idles DEF Visit, RouteTrace, ResolveClick, CheckConsistency, Abandon

LEMMA WriteGoesOn ==
    ASSUME Sound, NEW o \in Operator, NEW transition \in Transition,
           WriteForRoute(o, transition)
    PROVE  RowsGoOn
  <1>1. trace \in [Trace -> TraceRow] /\ route \in [Operator -> {None} \cup (Trace \X Transition)]
    BY DEF Sound, TypeOK
  <1> DEFINE t  == route[o][1]
             to == Target[transition]
  <1>2. t \in Trace
    BY <1>1 DEF WriteForRoute
  <1>3. trace' = IF trace[t].live /\ Declared(trace[t].status, to)
                 THEN [trace EXCEPT ![t].status = to] ELSE trace
    BY DEF WriteForRoute
  <1> HIDE DEF t, to
  <1>4. CASE trace[t].live /\ Declared(trace[t].status, to)
    <2>1. trace[t].status # "absent"
      BY <1>2, <1>4 DEF Sound, NeverStamped
    <2>2. Progress(trace[t], [trace[t] EXCEPT !.status = to])
      BY <1>1, <1>2, <1>4, <2>1, RouteProgress DEF to
    <2>3. trace' = [trace EXCEPT ![t] = [trace[t] EXCEPT !.status = to]]
      BY <1>1, <1>2, <1>3, <1>4
    <2> QED
      BY <1>1, <1>2, <2>2, <2>3, OneRow DEF RowsGoOn
  <1>5. CASE ~(trace[t].live /\ Declared(trace[t].status, to))
    BY <1>3, <1>5, Idles
  <1> QED
    BY <1>4, <1>5

LEMMA RouteGoesOn ==
    ASSUME Sound, NEW o \in Operator, Route(o)
    PROVE  RowsGoOn
  <1>1. {"set_process", "set_pending", "set_sent", "set_opened", "set_replied",
         "set_bounced", "set_bounced_sms", "set_failed", "set_canceled"} \subseteq Transition
    BY DEF Transition, Sources
  <1>2. ASSUME NEW t \in Trace, NEW transition \in Transition, ReadForRoute(o, t, transition)
        PROVE  RowsGoOn
    BY <1>2, Idles DEF ReadForRoute
  <1> QED
    BY <1>1, <1>2, WriteGoesOn
       DEF Route, SetProcessTransition, SetPendingTransition, SetSentTransition,
           SetOpenedTransition, SetRepliedTransition, SetBouncedTransition,
           SetBouncedSmsTransition, SetFailedTransition, SetCanceledTransition

\* Every step but a mint takes every row forward.
LEMMA StepsGoOn ==
    ASSUME Sound, [Next]_vars
    PROVE  RowsGoOn \/ \E t \in Trace : Mint(t)
  <1>1. CASE Tick \/ UNCHANGED vars
    BY <1>1, Idles DEF Tick, vars
  <1> QED
    BY <1>1, OutboundGoesOn, VisitGoesOn, RouteGoesOn DEF Next

\* What a mint writes, and that it takes nothing from any other row.
LEMMA MintRow ==
    ASSUME Sound, NEW t \in Trace, Mint(t)
    PROVE  /\ trace' \in [Trace -> TraceRow]
           /\ trace[t].status = "absent"
           /\ trace'[t].status = "outgoing" /\ trace'[t].clicked = 0
           /\ \A u \in Trace : u # t => trace'[u] = trace[u]
  <1>1. trace \in [Trace -> TraceRow] /\ now \in Time
    BY TimeAssumption DEF Sound, TypeOK, Time
  <1> DEFINE row == [NoTrace EXCEPT !.status = "outgoing", !.live = TRUE, !.created = now]
  <1>2. /\ row \in TraceRow /\ row.status = "outgoing" /\ row.clicked = 0
    <2>1. 0 \in Time
      BY TimeAssumption DEF Time
    <2>2. NoTrace \in TraceRow /\ NoTrace.clicked = 0
      BY <2>1 DEF NoTrace, TraceRow
    <2>3. ASSUME NEW blank \in TraceRow, blank.clicked = 0
          PROVE  LET next == [blank EXCEPT !.status = "outgoing", !.live = TRUE,
                                           !.created = now]
                 IN  next \in TraceRow /\ next.status = "outgoing" /\ next.clicked = 0
      BY <1>1, <2>3 DEF TraceRow, Status
    <2> QED
      BY <2>2, <2>3
  <1>3. trace' = [trace EXCEPT ![t] = row] /\ trace[t].status = "absent"
    BY DEF Mint
  <1> HIDE DEF row
  <1> QED
    BY <1>1, <1>2, <1>3

\* The other variables keep their types, and every leg stays at a trace that was minted.
LEMMA OthersTyped ==
    ASSUME Sound, [Next]_vars
    PROVE  /\ mail' \in [Trace -> MailState]
           /\ visit' \in [Visitor -> VisitRow]
           /\ route' \in [Operator -> {None} \cup (Trace \X Transition)]
           /\ settled' \subseteq Trace \X MailState
           /\ listed' \subseteq {EmailOf[t] : t \in Trace}
           /\ now' \in 1 .. MaxTime
  <1>1. TypeOK
    BY DEF Sound
  <1>2. ASSUME Outbound
        PROVE  /\ mail' \in [Trace -> MailState]
               /\ UNCHANGED <<visit, route, now>>
               /\ settled' \subseteq Trace \X MailState
               /\ listed' \subseteq {EmailOf[t] : t \in Trace}
    <2>1. ASSUME NEW t \in Trace, Enqueue(t) \/ Transport(t)
          PROVE  /\ mail' \in [Trace -> MailState]
                 /\ UNCHANGED <<visit, route, now, settled, listed>>
      BY <1>1, <2>1 DEF Enqueue, Transport, TypeOK, MailState
    <2>2. Settled \subseteq Trace \X MailState
      BY <1>1 DEF Settled, TypeOK
    <2> QED
      BY <1>1, <1>2, <2>1, <2>2
         DEF Outbound, Mint, Link, InboundReply, InboundBounce, ReadSettled, Reconcile,
             RetryFailed, AutoBlacklist, TypeOK
  <1>3. ASSUME NEW r \in Visitor, Visit(r)
        PROVE  visit' \in [Visitor -> VisitRow] /\ UNCHANGED <<mail, route, settled, listed, now>>
    <2>1. Idle \in VisitRow
      BY DEF Idle, VisitRow
    <2>2. visit[r] \in VisitRow
      BY <1>1 DEF TypeOK
    <2>3. [visit[r] EXCEPT !.pc = "open"] \in VisitRow /\ [visit[r] EXCEPT !.pc = "click"] \in VisitRow
      BY <2>2 DEF VisitRow
    <2>4. ASSUME NEW leg \in {"click", "pixel"}, NEW t \in Trace, NEW code \in Code
          PROVE  [pc |-> "resolve", leg |-> leg, trace |-> t, code |-> code] \in VisitRow
      BY DEF VisitRow
    <2>5. \E local \in VisitRow : SetVisit(r, local)
      BY <1>3, <2>1, <2>3, <2>4
         DEF Visit, RouteTrace, ResolveClick, CheckConsistency, StampOpened, StampClicked, Abandon
    <2> QED
      BY <1>1, <2>5 DEF SetVisit, TypeOK
  <1>4. ASSUME NEW o \in Operator, Route(o)
        PROVE  /\ route' \in [Operator -> {None} \cup (Trace \X Transition)]
               /\ UNCHANGED <<mail, visit, settled, listed, now>>
    <2>1. ASSUME NEW transition, WriteForRoute(o, transition)
          PROVE  /\ route' \in [Operator -> {None} \cup (Trace \X Transition)]
                 /\ UNCHANGED <<mail, visit, settled, listed, now>>
      BY <1>1, <2>1 DEF WriteForRoute, TypeOK
    <2>2. ASSUME NEW t \in Trace, NEW transition \in Transition, ReadForRoute(o, t, transition)
          PROVE  /\ route' \in [Operator -> {None} \cup (Trace \X Transition)]
                 /\ UNCHANGED <<mail, visit, settled, listed, now>>
      BY <1>1, <2>2 DEF ReadForRoute, TypeOK
    <2> QED
      BY <1>4, <2>1, <2>2
         DEF Route, SetProcessTransition, SetPendingTransition, SetSentTransition,
             SetOpenedTransition, SetRepliedTransition, SetBouncedTransition,
             SetBouncedSmsTransition, SetFailedTransition, SetCanceledTransition
  <1>5. CASE Tick
    BY <1>1, <1>5, TimeAssumption DEF Tick, TypeOK
  <1>6. CASE UNCHANGED vars
    BY <1>1, <1>6 DEF vars, TypeOK
  <1> QED
    BY <1>1, <1>2, <1>3, <1>4, <1>5, <1>6 DEF Next, TypeOK

\* Rows that go on carry the facts about rows, and about the legs that stay where they are.
LEMMA RowsKeep ==
    ASSUME Sound, RowsGoOn
    PROVE  /\ NeverStamped' /\ ClickedIsTouched'
           /\ \A r \in Visitor : visit'[r] = visit[r] =>
                /\ visit'[r].pc # "idle" =>
                        visit'[r].trace \in Trace /\ trace'[visit'[r].trace].status # "absent"
                /\ visit'[r].pc = "click" /\ trace'[visit'[r].trace].live =>
                        trace'[visit'[r].trace].status \notin Unread
  <1>1. NeverStamped'
    BY DEF Sound, NeverStamped, RowsGoOn, Progress
  <1>2. ClickedIsTouched'
    BY DEF Sound, ClickedIsTouched, RowsGoOn, Progress, Unread
  <1>3. ASSUME NEW r \in Visitor, visit'[r] = visit[r], visit[r].pc # "idle"
        PROVE  /\ visit[r].trace \in Trace /\ trace'[visit[r].trace].status # "absent"
               /\ visit[r].pc = "click" /\ trace'[visit[r].trace].live =>
                       trace'[visit[r].trace].status \notin Unread
    <2>1. visit[r].trace \in Trace /\ trace[visit[r].trace].status # "absent"
      BY <1>3 DEF Sound, LegsAreSomewhere
    <2>2. Progress(trace[visit[r].trace], trace'[visit[r].trace])
      BY <2>1 DEF RowsGoOn
    <2>3. visit[r].pc = "click" /\ trace[visit[r].trace].live =>
            trace[visit[r].trace].status \notin Unread
      BY DEF Sound, ClickLegTouched
    <2> QED
      BY <2>1, <2>2, <2>3 DEF Progress
  <1> QED
    BY <1>1, <1>2, <1>3

\* A visit's own leg.
LEMMA LegKept ==
    ASSUME Sound, NEW r \in Visitor, Visit(r), RowsGoOn
    PROVE  LegsAreSomewhere' /\ ClickLegTouched'
  <1>1. visit \in [Visitor -> VisitRow] /\ trace \in [Trace -> TraceRow]
    BY DEF Sound, TypeOK
  <1> DEFINE Good(local) ==
        /\ local.pc # "idle" => local.trace \in Trace /\ trace'[local.trace].status # "absent"
        /\ local.pc = "click" /\ trace'[local.trace].live =>
                trace'[local.trace].status \notin Unread
  <1>2. ASSUME NEW local, Good(local), SetVisit(r, local)
        PROVE  LegsAreSomewhere' /\ ClickLegTouched'
    <2>1. \A q \in Visitor : visit'[q] = IF q = r THEN local ELSE visit[q]
      BY <1>1, <1>2 DEF SetVisit
    <2>2. \A q \in Visitor : Good(visit'[q])
      BY <1>2, <2>1, RowsKeep
    <2> QED
      BY <2>2 DEF LegsAreSomewhere, ClickLegTouched
  <1>3. Good(Idle)
    BY DEF Idle
  <1>4. ASSUME visit[r].pc # "idle"
        PROVE  /\ visit[r].trace \in Trace
               /\ trace[visit[r].trace].status # "absent"
               /\ trace'[visit[r].trace].status # "absent"
    BY <1>4 DEF Sound, LegsAreSomewhere, RowsGoOn, Progress
  <1>5. ASSUME NEW leg \in {"click", "pixel"}, NEW t \in Trace, NEW code \in Code,
               RouteTrace(r, leg, t, code)
        PROVE  LegsAreSomewhere' /\ ClickLegTouched'
    <2> DEFINE local == [pc |-> "resolve", leg |-> leg, trace |-> t, code |-> code]
    <2>1. trace[t].status # "absent" /\ UNCHANGED trace
      BY <1>5 DEF RouteTrace, Sound, NeverStamped
    <2>2. Good(local)
      BY <2>1
    <2> QED
      BY <1>2, <1>5, <2>2 DEF RouteTrace
  <1>6. ASSUME ResolveClick(r) \/ CheckConsistency(r)
        PROVE  LegsAreSomewhere' /\ ClickLegTouched'
    <2>1. visit[r].pc = "resolve" /\ visit[r] \in VisitRow
      BY <1>1, <1>6 DEF ResolveClick, CheckConsistency
    <2>2. [visit[r] EXCEPT !.pc = "open"].pc = "open"
          /\ [visit[r] EXCEPT !.pc = "open"].trace = visit[r].trace
      BY <2>1 DEF VisitRow
    <2>3. Good([visit[r] EXCEPT !.pc = "open"])
      BY <1>4, <2>1, <2>2
    <2> HIDE DEF Good
    <2> QED
      BY <1>2, <1>3, <1>6, <2>3 DEF ResolveClick, CheckConsistency
  <1>7. CASE StampOpened(r)
    <2>1. visit[r].pc = "open" /\ visit[r] \in VisitRow
      BY <1>1, <1>7 DEF StampOpened
    <2>2. [visit[r] EXCEPT !.pc = "click"].pc = "click"
          /\ [visit[r] EXCEPT !.pc = "click"].trace = visit[r].trace
      BY <2>1 DEF VisitRow
    <2>3. trace'[visit[r].trace] = SetOpened(trace[visit[r].trace])
      BY <1>1, <1>4, <1>7, <2>1 DEF StampOpened
    <2>4. trace'[visit[r].trace].live => trace'[visit[r].trace].status \notin Unread
      BY <1>1, <1>4, <2>1, <2>3, OpenTouches
    <2>5. Good([visit[r] EXCEPT !.pc = "click"])
      BY <1>4, <2>1, <2>2, <2>4
    <2> HIDE DEF Good
    <2> QED
      BY <1>2, <1>3, <1>7, <2>5 DEF StampOpened
  <1>8. CASE StampClicked(r) \/ Abandon(r)
    BY <1>2, <1>3, <1>8 DEF StampClicked, Abandon
  <1> QED
    BY <1>5, <1>6, <1>7, <1>8 DEF Visit

LEMMA SoundAtFirst == Init => Sound
  <1> SUFFICES ASSUME Init PROVE Sound
    OBVIOUS
  <1>1. 0 \in Time /\ 1 \in 1 .. MaxTime
    BY TimeAssumption DEF Time
  <1>2. /\ NoTrace \in TraceRow /\ NoTrace.status = "absent" /\ NoTrace.opened = 0
        /\ ~NoTrace.live /\ NoTrace.clicked = 0
    BY <1>1 DEF NoTrace, TraceRow
  <1>3. trace \in [Trace -> TraceRow] /\ \A t \in Trace : trace[t] = NoTrace
    BY <1>2 DEF Init
  <1>4. visit \in [Visitor -> VisitRow] /\ \A r \in Visitor : visit[r].pc = "idle"
    BY DEF Init, Idle, VisitRow
  <1>5. TypeOK
    BY <1>1, <1>3, <1>4 DEF Init, TypeOK, MailState
  <1> QED
    BY <1>2, <1>3, <1>4, <1>5
       DEF Sound, NeverStamped, LegsAreSomewhere, ClickLegTouched, ClickedIsTouched

LEMMA SoundKept ==
    ASSUME Sound, [Next]_vars
    PROVE  Sound'
  <1>1. TypeOK'
    BY StepsGoOn, MintRow, OthersTyped DEF TypeOK, RowsGoOn
  <1>2. ASSUME NEW t \in Trace, Mint(t)
        PROVE  Sound'
    <2>1. UNCHANGED visit
      BY <1>2 DEF Mint
    <2>2. NeverStamped'
      BY <1>2, MintRow DEF Sound, NeverStamped
    <2>3. LegsAreSomewhere' /\ ClickLegTouched'
      BY <1>2, <2>1, MintRow DEF Sound, LegsAreSomewhere, ClickLegTouched
    <2>4. ClickedIsTouched'
      BY <1>2, MintRow DEF Sound, ClickedIsTouched
    <2> QED
      BY <1>1, <2>2, <2>3, <2>4 DEF Sound
  <1>3. ASSUME NEW r \in Visitor, Visit(r)
        PROVE  Sound'
    BY <1>1, <1>3, VisitGoesOn, RowsKeep, LegKept DEF Sound
  <1>4. CASE RowsGoOn /\ UNCHANGED visit
    <2>1. LegsAreSomewhere' /\ ClickLegTouched'
      BY <1>4, RowsKeep DEF LegsAreSomewhere, ClickLegTouched
    <2> QED
      BY <1>1, <1>4, <2>1, RowsKeep DEF Sound
  <1>5. (\E r \in Visitor : Visit(r)) \/ UNCHANGED visit
    <2>1. ASSUME NEW o \in Operator, Route(o)
          PROVE  UNCHANGED visit
      BY <2>1 DEF Route, ReadForRoute, WriteForRoute, SetProcessTransition,
           SetPendingTransition, SetSentTransition, SetOpenedTransition,
           SetRepliedTransition, SetBouncedTransition, SetBouncedSmsTransition,
           SetFailedTransition, SetCanceledTransition
    <2> QED
      BY <2>1 DEF Next, Outbound, Mint, Enqueue, Link, Transport, InboundReply, InboundBounce,
           ReadSettled, Reconcile, RetryFailed, AutoBlacklist, Tick, vars
  <1> QED
    BY <1>2, <1>3, <1>4, <1>5, StepsGoOn

-----------------------------------------------------------------------------
(* Theorems. *)

LEMMA SpecSound == Spec => []Sound
  BY SoundAtFirst, SoundKept, PTL DEF Spec

\* Every row of trace_repository.rs, every leg and every route keeps its type.
THEOREM TrackingTypeCorrect == Spec => []TypeOK
  <1>1. Sound => TypeOK
    BY DEF Sound
  <1> QED
    BY <1>1, SpecSound, PTL

\* A clicked trace has left the unread states: the two stamps of the click leg
\* (trace_route_service.rs, record_click) stay in order through every crash, reconcile, retry and
\* route that gets between them.
THEOREM ClickIsATouch == Spec => []ClickedIsTouched
  <1>1. Sound => ClickedIsTouched
    BY DEF Sound
  <1> QED
    BY <1>1, SpecSound, PTL

\* The open stamp of a trace is never written twice, whichever verbs follow it.
THEOREM FirstOpenIsKept == Spec => FirstOpenKept
  <1>1. ASSUME Sound, [Next]_vars
        PROVE  \A t \in Trace : trace[t].opened # 0 => trace'[t].opened = trace[t].opened
    BY <1>1, StepsGoOn, MintRow DEF RowsGoOn, Progress, Sound, NeverStamped
  <1>2. Sound /\ [Next]_vars =>
            [\A t \in Trace : trace[t].opened # 0 => trace'[t].opened = trace[t].opened]_vars
    BY <1>1
  <1> QED
    BY <1>2, SpecSound, PTL DEF Spec, FirstOpenKept
-----------------------------------------------------------------------------
(* The story that a row's stamps tell. *)

\* Stamps in order, none of them ahead of the clock.
Ordered(row, n) ==
    /\ row.created <= n /\ row.sent <= n /\ row.opened <= n /\ row.replied <= n
    /\ row.sent # 0 /\ row.opened # 0 => row.sent <= row.opened
    /\ row.opened # 0 /\ row.replied # 0 => row.opened <= row.replied
    /\ row.opened # 0 => row.created <= row.opened
    /\ row.replied # 0 => row.opened # 0

(* Why no late verb spoils the order: a row with an open stamp has left the states that
   set_sent and set_opened start from, and a bounce that is counted is a bounce for good. *)
Chronicle(row, n) ==
    /\ Ordered(row, n)
    /\ row.opened # 0 => row.status \notin Unread
    /\ row.bounced => row.status = "bounce"

\* What a step of a row keeps.
Lasts(row, next) ==
    /\ Chronicle(next, now)
    /\ next.created = row.created
    /\ row.status = "bounce" => next.status = "bounce" /\ next.bounced = row.bounced
    /\ row.status = "bounce" /\ row.live => next.live

LEMMA SameLasts ==
    ASSUME NEW row \in TraceRow, Chronicle(row, now)
    PROVE  Lasts(row, row)
  BY DEF Lasts

LEMMA MovedLasts ==
    ASSUME NEW row \in TraceRow, NEW stamped \in TraceRow, NEW transition \in Transition,
           now \in 1 .. MaxTime, Chronicle(row, now),
           stamped.created = row.created,
           CanTransition(row.status, transition) =>
                /\ Ordered(stamped, now)
                /\ stamped.opened # 0 => Target[transition] \notin Unread
                /\ stamped.bounced => Target[transition] = "bounce"
    PROVE  Lasts(row, Moved(row, transition, stamped))
  <1> DEFINE next == [stamped EXCEPT !.status = Target[transition]]
  <1>1. CASE row.live /\ CanTransition(row.status, transition)
    <2>1. row.status \in Unread \cup {"open"}
      BY <1>1, Targets DEF CanTransition
    <2>2. row.status # "bounce"
      BY <2>1 DEF Unread
    <2>3. /\ next.status = Target[transition] /\ next.bounced = stamped.bounced
          /\ next.created = stamped.created /\ next.sent = stamped.sent
          /\ next.opened = stamped.opened /\ next.replied = stamped.replied
      BY DEF TraceRow
    <2>4. Moved(row, transition, stamped) = next
      BY <1>1 DEF Moved
    <2> HIDE DEF next
    <2>5. Ordered(next, now)
      BY <1>1, <2>3 DEF Ordered
    <2>6. Chronicle(next, now)
      BY <1>1, <2>3, <2>5 DEF Chronicle
    <2> QED
      BY <2>2, <2>3, <2>4, <2>6 DEF Lasts
  <1>2. CASE ~(row.live /\ CanTransition(row.status, transition))
    BY <1>2, SameLasts DEF Moved
  <1> QED
    BY <1>1, <1>2

LEMMA StampOrder ==
    ASSUME NEW stamp \in Time, now \in 1 .. MaxTime, stamp <= now
    PROVE  /\ Coalesce(stamp) \in Time /\ Coalesce(stamp) # 0 /\ Coalesce(stamp) <= now
           /\ stamp # 0 => Coalesce(stamp) = stamp
           /\ stamp = 0 => Coalesce(stamp) = now
           /\ now \in Time
  BY TimeAssumption DEF Coalesce, Time

LEMMA VerbsLast ==
    ASSUME NEW row \in TraceRow, now \in 1 .. MaxTime, Chronicle(row, now)
    PROVE  /\ Lasts(row, SetSent(row))
           /\ Lasts(row, SetOpened(row))
           /\ Lasts(row, SetReplied(row))
           /\ Lasts(row, SetBounced(row))
           /\ Lasts(row, SetFailed(row))
  <1>1. {"set_sent", "set_opened", "set_replied", "set_bounced", "set_failed"}
            \subseteq Transition
    BY DEF Transition, Sources
  <1>2. /\ row.created \in Time /\ row.sent \in Time /\ row.opened \in Time
        /\ row.replied \in Time /\ Ordered(row, now)
    BY DEF TraceRow, Chronicle
  <1> DEFINE cs == Coalesce(row.sent)
             co == Coalesce(row.opened)
  <1>3. /\ cs \in Time /\ cs # 0 /\ cs <= now
        /\ co \in Time /\ co # 0 /\ co <= now
        /\ row.opened # 0 => co = row.opened
        /\ row.opened = 0 => co = now
        /\ now \in Time
    BY <1>2, StampOrder DEF Ordered
  <1>4. /\ Target["set_sent"] = "sent" /\ Target["set_opened"] = "open"
        /\ Target["set_replied"] = "reply" /\ Target["set_bounced"] = "bounce"
        /\ Target["set_failed"] = "error"
        /\ CanTransition(row.status, "set_sent") => row.status \in Unread
        /\ \A transition \in Transition :
                CanTransition(row.status, transition) => row.status # "bounce"
    BY DEF Target, CanTransition, Sources, Transition, Unread
  <1>5. \A transition \in Transition : CanTransition(row.status, transition) => ~row.bounced
    BY <1>4 DEF Chronicle
  <1> HIDE DEF cs, co
  <1>6. Lasts(row, SetSent(row))
    <2> DEFINE stamped == [row EXCEPT !.sent = cs, !.bounced = FALSE]
    <2>1. /\ stamped \in TraceRow /\ stamped.created = row.created /\ stamped.sent = cs
          /\ stamped.opened = row.opened /\ stamped.replied = row.replied
          /\ stamped.bounced = FALSE
      BY <1>3 DEF TraceRow
    <2> HIDE DEF stamped
    <2>2. CanTransition(row.status, "set_sent") => row.opened = 0
      BY <1>4 DEF Chronicle
    <2>3. CanTransition(row.status, "set_sent") => Ordered(stamped, now)
      BY <1>2, <1>3, <2>1, <2>2 DEF Ordered
    <2>4. Lasts(row, Moved(row, "set_sent", stamped))
      BY <1>1, <2>1, <2>2, <2>3, MovedLasts
    <2> QED
      BY <2>4 DEF SetSent, stamped, cs
  <1>7. Lasts(row, SetOpened(row))
    <2> DEFINE stamped == [row EXCEPT !.opened = co]
    <2>1. /\ stamped \in TraceRow /\ stamped.created = row.created /\ stamped.sent = row.sent
          /\ stamped.opened = co /\ stamped.replied = row.replied
          /\ stamped.bounced = row.bounced
      BY <1>3 DEF TraceRow
    <2> HIDE DEF stamped
    <2>2. Ordered(stamped, now)
      BY <1>2, <1>3, <2>1 DEF Ordered
    <2>3. Lasts(row, Moved(row, "set_opened", stamped))
      BY <1>1, <1>4, <1>5, <2>1, <2>2, MovedLasts DEF Unread
    <2> QED
      BY <2>3 DEF SetOpened, stamped, co
  <1>8. Lasts(row, SetReplied(row))
    <2> DEFINE stamped == [row EXCEPT !.replied = now, !.opened = co]
    <2>1. /\ stamped \in TraceRow /\ stamped.created = row.created /\ stamped.sent = row.sent
          /\ stamped.opened = co /\ stamped.replied = now
          /\ stamped.bounced = row.bounced
      BY <1>3 DEF TraceRow
    <2> HIDE DEF stamped
    <2>2. Ordered(stamped, now)
      BY <1>2, <1>3, <2>1 DEF Ordered
    <2>3. Lasts(row, Moved(row, "set_replied", stamped))
      BY <1>1, <1>4, <1>5, <2>1, <2>2, MovedLasts DEF Unread
    <2> QED
      BY <2>3 DEF SetReplied, stamped, co
  <1>9. Lasts(row, SetBounced(row))
    <2> DEFINE stamped == [row EXCEPT !.bounced = TRUE, !.opened = co]
    <2>1. /\ stamped \in TraceRow /\ stamped.created = row.created /\ stamped.sent = row.sent
          /\ stamped.opened = co /\ stamped.replied = row.replied
      BY <1>3 DEF TraceRow
    <2> HIDE DEF stamped
    <2>2. Ordered(stamped, now)
      BY <1>2, <1>3, <2>1 DEF Ordered
    <2>3. Lasts(row, Moved(row, "set_bounced", stamped))
      BY <1>1, <1>4, <2>1, <2>2, MovedLasts DEF Unread
    <2> QED
      BY <2>3 DEF SetBounced, stamped, co
  <1>10. Lasts(row, SetFailed(row))
    <2>1. Lasts(row, Moved(row, "set_failed", row))
      BY <1>1, <1>2, <1>4, <1>5, MovedLasts DEF Unread
    <2> QED
      BY <2>1 DEF SetFailed
  <1> QED
    BY <1>6, <1>7, <1>8, <1>9, <1>10

LEMMA ClickLasts ==
    ASSUME NEW row \in TraceRow, Chronicle(row, now)
    PROVE  Lasts(row, SetClicked(row))
  <1>1. LET next == [row EXCEPT !.clicked = now]
        IN  /\ next.status = row.status /\ next.live = row.live /\ next.created = row.created
            /\ next.sent = row.sent /\ next.opened = row.opened /\ next.replied = row.replied
            /\ next.bounced = row.bounced
    BY DEF TraceRow
  <1>2. Chronicle([row EXCEPT !.clicked = now], now)
    BY <1>1 DEF Chronicle, Ordered
  <1> QED
    BY <1>1, <1>2 DEF SetClicked, Lasts

LEMMA RouteLasts ==
    ASSUME NEW row \in TraceRow, NEW transition \in Transition, Chronicle(row, now),
           Declared(row.status, Target[transition])
    PROVE  Lasts(row, [row EXCEPT !.status = Target[transition]])
  <1> DEFINE to == Target[transition]
  <1>1. to = row.status \/ row.status # "bounce"
    BY DEF Declared, CanTransition, Sources, Transition
  <1>2. row.status \notin Unread => to \notin Unread
    BY Targets DEF Declared, CanTransition
  <1> HIDE DEF to
  <1>3. LET next == [row EXCEPT !.status = to]
        IN  /\ next.status = to /\ next.live = row.live /\ next.created = row.created
            /\ next.sent = row.sent /\ next.opened = row.opened /\ next.replied = row.replied
            /\ next.bounced = row.bounced
    BY DEF TraceRow
  <1>4. Chronicle([row EXCEPT !.status = to], now)
    BY <1>1, <1>2, <1>3 DEF Chronicle, Ordered
  <1> QED
    BY <1>1, <1>3, <1>4 DEF Lasts, to

-----------------------------------------------------------------------------
(* Every step keeps the story of every row. *)

AllChronicles == \A t \in Trace : Chronicle(trace[t], now)

AllLast == \A t \in Trace : Lasts(trace[t], trace'[t])

LEMMA OneLasts ==
    ASSUME trace \in [Trace -> TraceRow], AllChronicles, NEW t \in Trace, NEW next,
           Lasts(trace[t], next), trace' = [trace EXCEPT ![t] = next]
    PROVE  AllLast
  BY SameLasts DEF AllLast, AllChronicles

LEMMA StillLasts ==
    ASSUME trace \in [Trace -> TraceRow], AllChronicles, UNCHANGED trace
    PROVE  AllLast
  BY SameLasts DEF AllLast, AllChronicles

LEMMA OutboundLasts ==
    ASSUME Sound, AllChronicles, Outbound
    PROVE  AllLast \/ \E t \in Trace : Mint(t)
  <1>1. trace \in [Trace -> TraceRow] /\ now \in 1 .. MaxTime
    BY DEF Sound, TypeOK
  <1>2. ASSUME NEW t \in Trace, Link(t)
        PROVE  AllLast
    <2>1. LET next == [trace[t] EXCEPT !.link = 1]
          IN  /\ next.status = trace[t].status /\ next.live = trace[t].live
              /\ next.created = trace[t].created /\ next.sent = trace[t].sent
              /\ next.opened = trace[t].opened /\ next.replied = trace[t].replied
              /\ next.bounced = trace[t].bounced
      BY <1>1 DEF TraceRow
    <2>2. Lasts(trace[t], [trace[t] EXCEPT !.link = 1])
      BY <2>1 DEF Lasts, Chronicle, Ordered, AllChronicles
    <2>3. trace' = [trace EXCEPT ![t] = [trace[t] EXCEPT !.link = 1]]
      BY <1>1, <1>2 DEF Link
    <2> QED
      BY <1>1, <2>2, <2>3, OneLasts
  <1>3. ASSUME NEW t \in Trace, InboundReply(t)
        PROVE  AllLast
    <2>1. trace' = [trace EXCEPT ![t] = SetReplied(trace[t])]
      BY <1>3 DEF InboundReply
    <2> QED
      BY <1>1, <2>1, VerbsLast, OneLasts DEF AllChronicles
  <1>4. ASSUME NEW t \in Trace, InboundBounce(t)
        PROVE  AllLast
    <2>1. trace' = [trace EXCEPT ![t] = SetBounced(trace[t])]
      BY <1>4 DEF InboundBounce
    <2> QED
      BY <1>1, <2>1, VerbsLast, OneLasts DEF AllChronicles
  <1>5. ASSUME NEW v \in Trace \X MailState, Reconcile(v)
        PROVE  AllLast
    <2>1. v[1] \in Trace
      BY <1>5
    <2>2. trace' = [trace EXCEPT ![v[1]] = IF v[2] = "sent" THEN SetSent(trace[v[1]])
                                           ELSE SetFailed(trace[v[1]])]
      BY <1>5 DEF Reconcile
    <2>3. Lasts(trace[v[1]], IF v[2] = "sent" THEN SetSent(trace[v[1]])
                             ELSE SetFailed(trace[v[1]]))
      BY <1>1, <2>1, VerbsLast DEF AllChronicles
    <2> QED
      BY <1>1, <2>1, <2>2, <2>3, OneLasts
  <1>6. ASSUME NEW m, RetryFailed(m)
        PROVE  AllLast
    <2> DEFINE failed == {t \in Trace : MailingOf[t] = m /\ trace[t].live
                                        /\ trace[t].status = "error"}
    <2>1. trace' = [t \in Trace |-> IF t \in failed THEN [trace[t] EXCEPT !.live = FALSE]
                                    ELSE trace[t]]
      BY <1>6 DEF RetryFailed
    <2>2. ASSUME NEW row \in TraceRow, Chronicle(row, now), row.status = "error"
          PROVE  Lasts(row, [row EXCEPT !.live = FALSE])
      <3>1. LET next == [row EXCEPT !.live = FALSE]
            IN  /\ next.status = row.status /\ next.created = row.created
                /\ next.sent = row.sent /\ next.opened = row.opened
                /\ next.replied = row.replied /\ next.bounced = row.bounced
        BY DEF TraceRow
      <3> QED
        BY <2>2, <3>1 DEF Lasts, Chronicle, Ordered
    <2>3. \A t \in failed : trace[t].status = "error"
      OBVIOUS
    <2> HIDE DEF failed
    <2> QED
      BY <1>1, <2>1, <2>2, <2>3, SameLasts DEF AllLast, AllChronicles
  <1>7. ASSUME NEW t \in Trace, Enqueue(t) \/ Transport(t)
        PROVE  AllLast
    BY <1>1, <1>7, StillLasts DEF Enqueue, Transport
  <1>8. CASE ReadSettled \/ AutoBlacklist
    BY <1>1, <1>8, StillLasts DEF ReadSettled, AutoBlacklist
  <1> QED
    BY <1>2, <1>3, <1>4, <1>5, <1>6, <1>7, <1>8 DEF Outbound

LEMMA VisitLasts ==
    ASSUME Sound, AllChronicles, NEW r \in Visitor, Visit(r)
    PROVE  AllLast
  <1>1. trace \in [Trace -> TraceRow] /\ now \in 1 .. MaxTime
    BY DEF Sound, TypeOK
  <1>2. CASE StampOpened(r)
    <2>1. visit[r].trace \in Trace
      BY <1>2 DEF StampOpened, Sound, LegsAreSomewhere
    <2>2. trace' = [trace EXCEPT ![visit[r].trace] = SetOpened(trace[visit[r].trace])]
      BY <1>2 DEF StampOpened
    <2> QED
      BY <1>1, <2>1, <2>2, VerbsLast, OneLasts DEF AllChronicles
  <1>3. CASE StampClicked(r)
    <2>1. visit[r].trace \in Trace
      BY <1>3 DEF StampClicked, Sound, LegsAreSomewhere
    <2>2. trace' = [trace EXCEPT ![visit[r].trace] = SetClicked(trace[visit[r].trace])]
      BY <1>3 DEF StampClicked
    <2> QED
      BY <1>1, <2>1, <2>2, ClickLasts, OneLasts DEF AllChronicles
  <1> QED
    BY <1>1, <1>2, <1>3, StillLasts
       DEF Visit, RouteTrace, ResolveClick, CheckConsistency, Abandon

LEMMA WriteLasts ==
    ASSUME Sound, AllChronicles, NEW o \in Operator, NEW transition \in Transition,
           WriteForRoute(o, transition)
    PROVE  AllLast
  <1>1. trace \in [Trace -> TraceRow] /\ route \in [Operator -> {None} \cup (Trace \X Transition)]
    BY DEF Sound, TypeOK
  <1> DEFINE t  == route[o][1]
             to == Target[transition]
  <1>2. t \in Trace
    BY <1>1 DEF WriteForRoute
  <1>3. trace' = IF trace[t].live /\ Declared(trace[t].status, to)
                 THEN [trace EXCEPT ![t].status = to] ELSE trace
    BY DEF WriteForRoute
  <1> HIDE DEF t, to
  <1>4. CASE trace[t].live /\ Declared(trace[t].status, to)
    <2>1. Lasts(trace[t], [trace[t] EXCEPT !.status = to])
      BY <1>1, <1>2, <1>4, RouteLasts DEF to, AllChronicles
    <2>2. trace' = [trace EXCEPT ![t] = [trace[t] EXCEPT !.status = to]]
      BY <1>1, <1>2, <1>3, <1>4
    <2> QED
      BY <1>1, <1>2, <2>1, <2>2, OneLasts
  <1>5. CASE ~(trace[t].live /\ Declared(trace[t].status, to))
    BY <1>1, <1>3, <1>5, StillLasts
  <1> QED
    BY <1>4, <1>5

LEMMA RouteGoesOnLasting ==
    ASSUME Sound, AllChronicles, NEW o \in Operator, Route(o)
    PROVE  AllLast
  <1>1. {"set_process", "set_pending", "set_sent", "set_opened", "set_replied",
         "set_bounced", "set_bounced_sms", "set_failed", "set_canceled"} \subseteq Transition
    BY DEF Transition, Sources
  <1>2. ASSUME NEW t \in Trace, NEW transition \in Transition, ReadForRoute(o, t, transition)
        PROVE  AllLast
    BY <1>2, StillLasts DEF ReadForRoute, Sound, TypeOK
  <1> QED
    BY <1>1, <1>2, WriteLasts
       DEF Route, SetProcessTransition, SetPendingTransition, SetSentTransition,
           SetOpenedTransition, SetRepliedTransition, SetBouncedTransition,
           SetBouncedSmsTransition, SetFailedTransition, SetCanceledTransition

LEMMA StepsLast ==
    ASSUME Sound, AllChronicles, [Next]_vars
    PROVE  AllLast \/ \E t \in Trace : Mint(t)
  <1>1. CASE Tick \/ UNCHANGED vars
    BY <1>1, StillLasts DEF Tick, vars, Sound, TypeOK
  <1> QED
    BY <1>1, OutboundLasts, VisitLasts, RouteGoesOnLasting DEF Next

\* The clock stands still in every step but its own.
LEMMA ClockGoesOn ==
    ASSUME Sound, [Next]_vars
    PROVE  now' = now \/ Tick
  <1>1. ASSUME NEW r \in Visitor, Visit(r)
        PROVE  now' = now
    BY <1>1 DEF Visit, RouteTrace, ResolveClick, CheckConsistency, StampOpened, StampClicked,
                Abandon, SetVisit
  <1>2. ASSUME NEW o \in Operator, Route(o)
        PROVE  now' = now
    BY <1>2 DEF Route, ReadForRoute, WriteForRoute, SetProcessTransition,
                SetPendingTransition, SetSentTransition, SetOpenedTransition,
                SetRepliedTransition, SetBouncedTransition, SetBouncedSmsTransition,
                SetFailedTransition, SetCanceledTransition
  <1> QED
    BY <1>1, <1>2 DEF Next, Outbound, Mint, Enqueue, Link, Transport, InboundReply,
         InboundBounce, ReadSettled, Reconcile, RetryFailed, AutoBlacklist, vars

\* A fresh row's story has one date, and the others' stories go on.
LEMMA MintLasts ==
    ASSUME Sound, AllChronicles, NEW t \in Trace, Mint(t)
    PROVE  /\ Chronicle(trace'[t], now)
           /\ \A u \in Trace : u # t => trace'[u] = trace[u]
           /\ trace[t].status = "absent"
  <1>1. now \in 1 .. MaxTime /\ trace \in [Trace -> TraceRow]
    BY DEF Sound, TypeOK
  <1> DEFINE row == [NoTrace EXCEPT !.status = "outgoing", !.live = TRUE, !.created = now]
  <1>2. /\ row.created = now /\ row.sent = 0 /\ row.opened = 0 /\ row.replied = 0
        /\ row.bounced = FALSE
    BY DEF NoTrace
  <1>3. trace' = [trace EXCEPT ![t] = row] /\ trace[t].status = "absent"
    BY DEF Mint
  <1> HIDE DEF row
  <1>4. Chronicle(row, now)
    BY <1>1, <1>2 DEF Chronicle, Ordered
  <1> QED
    BY <1>1, <1>3, <1>4

LEMMA ChroniclesKept ==
    ASSUME Sound, AllChronicles, [Next]_vars
    PROVE  AllChronicles'
  <1>1. \A t \in Trace : Chronicle(trace'[t], now)
    BY StepsLast, MintLasts DEF AllLast, Lasts, AllChronicles
  <1>2. CASE now' = now
    BY <1>1, <1>2 DEF AllChronicles
  <1>3. CASE Tick
    <2>1. now' = now + 1 /\ now \in 1 .. MaxTime /\ trace' = trace
      BY <1>3 DEF Tick, Sound, TypeOK
    <2>2. \A t \in Trace : /\ trace[t].created \in Time /\ trace[t].sent \in Time
                           /\ trace[t].opened \in Time /\ trace[t].replied \in Time
      BY DEF Sound, TypeOK, TraceRow
    <2>3. ASSUME NEW t \in Trace
          PROVE  Ordered(trace[t], now + 1)
      BY <2>1, <2>2 DEF Ordered, AllChronicles, Chronicle, Time
    <2> QED
      BY <2>1, <2>3 DEF AllChronicles, Chronicle
  <1> QED
    BY <1>2, <1>3, ClockGoesOn

LEMMA ChroniclesAtFirst == Init => AllChronicles
  <1> SUFFICES ASSUME Init, NEW t \in Trace PROVE Chronicle(trace[t], now)
    BY DEF AllChronicles
  <1>1. trace[t] = NoTrace /\ now = 1
    BY DEF Init
  <1>2. /\ NoTrace.created = 0 /\ NoTrace.sent = 0 /\ NoTrace.opened = 0
        /\ NoTrace.replied = 0 /\ NoTrace.bounced = FALSE
    BY DEF NoTrace
  <1> QED
    BY <1>1, <1>2 DEF Chronicle, Ordered

LEMMA SpecChronicles == Spec => [](Sound /\ AllChronicles)
  <1>1. Init => Sound /\ AllChronicles
    BY SoundAtFirst, ChroniclesAtFirst
  <1>2. Sound /\ AllChronicles /\ [Next]_vars => (Sound /\ AllChronicles)'
    BY SoundKept, ChroniclesKept
  <1> QED
    BY <1>1, <1>2, PTL DEF Spec

\* The stamps of a trace stand in order whichever of pixel, click, reply, bounce, late
\* reconcile and stale route come first (the Coalesce of set_opened and set_replied, and the
\* sources of set_sent, in trace_repository.rs).
THEOREM StampsInOrder == Spec => []Timeline
  <1>1. AllChronicles => Timeline
    BY DEF AllChronicles, Chronicle, Ordered, Timeline
  <1> QED
    BY <1>1, SpecChronicles, PTL

-----------------------------------------------------------------------------
(* What the auto-blacklist counted is never taken back. *)

Proven(email) ==
    /\ Cardinality(Standing(email)) >= MaxBounces
    /\ \E t, u \in Standing(email) : Apart(t, u)

LEMMA StandingFinite ==
    ASSUME IsFiniteSet(Trace), NEW email
    PROVE  /\ IsFiniteSet(Standing(email)) /\ IsFiniteSet(Standing(email)')
           /\ Cardinality(Standing(email)) \in Nat /\ Cardinality(Standing(email)') \in Nat
           /\ Standing(email) \subseteq Standing(email)' =>
                Cardinality(Standing(email)) <= Cardinality(Standing(email)')
  <1>1. Standing(email) \subseteq Trace /\ Standing(email)' \subseteq Trace
    BY DEF Standing
  <1>2. IsFiniteSet(Standing(email)) /\ IsFiniteSet(Standing(email)')
    BY <1>1, FS_Subset
  <1> QED
    BY <1>2, FS_Subset, FS_CardinalityType

LEMMA ListedKept ==
    ASSUME IsFiniteSet(Trace), Sound, AllChronicles, ListedForAPattern, [Next]_vars
    PROVE  ListedForAPattern'
  <1>0. trace \in [Trace -> TraceRow]
    BY DEF Sound, TypeOK
  <1>1. ASSUME NEW t \in Trace, trace[t].live, trace[t].status = "bounce"
        PROVE  /\ trace'[t].live /\ trace'[t].status = "bounce"
               /\ trace'[t].created = trace[t].created
    BY <1>1, StepsLast, MintLasts DEF AllLast, Lasts
  <1>2. ASSUME NEW email \in listed
        PROVE  Proven(email)'
    <2>1. Standing(email) \subseteq Standing(email)'
      BY <1>1 DEF Standing
    <2>2. Cardinality(Standing(email)) <= Cardinality(Standing(email)')
          /\ Cardinality(Standing(email)) \in Nat /\ Cardinality(Standing(email)') \in Nat
      BY <2>1, StandingFinite
    <2>3. Cardinality(Standing(email))' = Cardinality(Standing(email)')
      OBVIOUS
    <2>4. PICK t \in Standing(email), u \in Standing(email) : Apart(t, u)
      BY DEF ListedForAPattern
    <2>5. t \in Standing(email)' /\ u \in Standing(email)' /\ Apart(t, u)'
      BY <1>1, <2>1, <2>4 DEF Apart, Standing
    <2>6. Cardinality(Standing(email)) >= MaxBounces
      BY DEF ListedForAPattern
    <2>7. Cardinality(Standing(email)') >= MaxBounces
      BY <2>2, <2>6, TimeAssumption
    <2> QED
      BY <2>3, <2>5, <2>7 DEF Proven
  <1>3. CASE AutoBlacklist
    <2>1. listed' = listed \cup {e \in {EmailOf[t] : t \in Trace} : Offender(e)}
          /\ trace' = trace
      BY <1>3 DEF AutoBlacklist
    <2>2. ASSUME NEW email, Offender(email)
          PROVE  Proven(email)
      <3>1. Bounces(email) \subseteq Standing(email)
        BY DEF Bounces, Standing, AllChronicles, Chronicle
      <3>2. /\ Cardinality(Bounces(email)) <= Cardinality(Standing(email))
            /\ Cardinality(Bounces(email)) \in Nat /\ Cardinality(Standing(email)) \in Nat
        BY <3>1, StandingFinite, FS_Subset, FS_CardinalityType
      <3>3. Cardinality(Standing(email)) >= MaxBounces
        BY <2>2, <3>2, TimeAssumption DEF Offender
      <3> QED
        BY <2>2, <3>1, <3>3 DEF Offender, Proven
    <2>3. ASSUME NEW email, Proven(email)
          PROVE  Proven(email)'
      BY <2>1, <2>3 DEF Proven, Standing, Apart
    <2> QED
      BY <1>2, <2>1, <2>2, <2>3 DEF ListedForAPattern, Proven
  <1>4. CASE listed' = listed
    BY <1>2, <1>4 DEF ListedForAPattern, Proven
  <1>5. listed' = listed \/ AutoBlacklist
    <2>1. ASSUME NEW r \in Visitor, Visit(r)
          PROVE  listed' = listed
      BY <2>1 DEF Visit, RouteTrace, ResolveClick, CheckConsistency, StampOpened,
                  StampClicked, Abandon, SetVisit
    <2>2. ASSUME NEW o \in Operator, Route(o)
          PROVE  listed' = listed
      BY <2>2 DEF Route, ReadForRoute, WriteForRoute, SetProcessTransition,
                  SetPendingTransition, SetSentTransition, SetOpenedTransition,
                  SetRepliedTransition, SetBouncedTransition, SetBouncedSmsTransition,
                  SetFailedTransition, SetCanceledTransition
    <2> QED
      BY <2>1, <2>2 DEF Next, Outbound, Mint, Enqueue, Link, Transport, InboundReply,
           InboundBounce, ReadSettled, Reconcile, RetryFailed, Tick, vars
  <1> QED
    BY <1>3, <1>4, <1>5

\* Whoever is on the list has as many bounces as the rule asks, of mailings far enough apart,
\* and nothing that happens to these rows later, retry and late verdicts included, takes them
\* back (auto_blacklist_sweep in mailing_send_repository.rs).
THEOREM ListingIsProven ==
    ASSUME IsFiniteSet(Trace)
    PROVE  Spec => []ListedForAPattern
  <1>1. Init => ListedForAPattern
    BY DEF Init, ListedForAPattern
  <1>2. Sound /\ AllChronicles /\ ListedForAPattern /\ [Next]_vars => ListedForAPattern'
    BY ListedKept
  <1> QED
    BY <1>1, <1>2, SpecChronicles, PTL DEF Spec

-----------------------------------------------------------------------------
(* The rows of the database. *)

\* The ways a row may change under TraceLifecycle, as a relation on rows.
RowStep(old, new) ==
    \/ new.status = old.status /\ new.live = old.live /\ new.link = old.link
    \/ /\ old.status = "absent" /\ new.status \in {"outgoing", "cancel"}
       /\ new.live /\ new.link = 0
    \/ /\ old.live /\ old.status # "absent" /\ new.status \in Rows!Successors[old.status]
       /\ new.live /\ new.link = old.link
    \/ /\ old.live /\ old.link = 0 /\ new.link \in Nat \ {0}
       /\ new.status = old.status /\ new.live
    \/ /\ old.live /\ ~new.live
       /\ old.status = "error" /\ new.status = "error" /\ new.link = old.link

RowSteps == \A t \in Trace : RowStep(trace[t], trace'[t])

LEMMA SameIsStep == ASSUME NEW row PROVE RowStep(row, row)
  BY DEF RowStep

\* can_transition and target_state declare the edges of the machine, and no others.
LEMMA TransitionsAreEdges ==
    ASSUME NEW transition \in Transition, NEW from \in Sources[transition]
    PROVE  from # "absent" /\ Target[transition] \in Rows!Successors[from]
  <1>1. transition \in {"set_process", "set_pending", "set_sent", "set_opened", "set_replied",
                        "set_bounced", "set_bounced_sms", "set_failed", "set_canceled"}
    BY DEF Transition, Sources
  <1> QED
    BY <1>1 DEF Sources, Target, Rows!Successors

\* A verb of the repository.
LEMMA MovedIsStep ==
    ASSUME NEW row \in TraceRow, NEW stamped \in TraceRow, NEW transition \in Transition,
           stamped.live = row.live, stamped.link = row.link
    PROVE  RowStep(row, Moved(row, transition, stamped))
  <1>1. LET next == [stamped EXCEPT !.status = Target[transition]]
        IN  /\ next.status = Target[transition] /\ next.live = row.live
            /\ next.link = row.link
    BY DEF TraceRow
  <1>2. CASE row.live /\ CanTransition(row.status, transition)
    <2>1. row.status # "absent" /\ Target[transition] \in Rows!Successors[row.status]
      BY <1>2, TransitionsAreEdges DEF CanTransition
    <2> QED
      BY <1>1, <1>2, <2>1 DEF RowStep, Moved
  <1>3. CASE ~(row.live /\ CanTransition(row.status, transition))
    BY <1>3 DEF RowStep, Moved
  <1> QED
    BY <1>2, <1>3

LEMMA VerbsAreSteps ==
    ASSUME NEW row \in TraceRow, now \in 1 .. MaxTime
    PROVE  /\ RowStep(row, SetSent(row))
           /\ RowStep(row, SetOpened(row))
           /\ RowStep(row, SetReplied(row))
           /\ RowStep(row, SetBounced(row))
           /\ RowStep(row, SetFailed(row))
           /\ RowStep(row, SetClicked(row))
  <1>1. {"set_sent", "set_opened", "set_replied", "set_bounced", "set_failed"}
            \subseteq Transition
    BY DEF Transition, Sources
  <1>2. Coalesce(row.sent) \in Time /\ Coalesce(row.opened) \in Time /\ now \in Time
    BY StampTyped DEF TraceRow
  <1>3. LET stamped == [row EXCEPT !.sent = Coalesce(row.sent), !.bounced = FALSE]
        IN  stamped \in TraceRow /\ stamped.live = row.live /\ stamped.link = row.link
    BY <1>2 DEF TraceRow
  <1>4. LET stamped == [row EXCEPT !.opened = Coalesce(row.opened)]
        IN  stamped \in TraceRow /\ stamped.live = row.live /\ stamped.link = row.link
    BY <1>2 DEF TraceRow
  <1>5. LET stamped == [row EXCEPT !.replied = now, !.opened = Coalesce(row.opened)]
        IN  stamped \in TraceRow /\ stamped.live = row.live /\ stamped.link = row.link
    BY <1>2 DEF TraceRow
  <1>6. LET stamped == [row EXCEPT !.bounced = TRUE, !.opened = Coalesce(row.opened)]
        IN  stamped \in TraceRow /\ stamped.live = row.live /\ stamped.link = row.link
    BY <1>2 DEF TraceRow
  <1>7. RowStep(row, SetClicked(row))
    BY DEF SetClicked, RowStep, TraceRow
  <1>8. RowStep(row, SetSent(row))
    BY <1>1, <1>3, MovedIsStep DEF SetSent
  <1>9. RowStep(row, SetOpened(row))
    BY <1>1, <1>4, MovedIsStep DEF SetOpened
  <1>10. RowStep(row, SetReplied(row))
    BY <1>1, <1>5, MovedIsStep DEF SetReplied
  <1>11. RowStep(row, SetBounced(row))
    BY <1>1, <1>6, MovedIsStep DEF SetBounced
  <1>12. RowStep(row, SetFailed(row))
    BY <1>1, MovedIsStep DEF SetFailed
  <1> QED
    BY <1>7, <1>8, <1>9, <1>10, <1>11, <1>12

\* One row changes.
LEMMA OneIsStep ==
    ASSUME Sound, NEW t \in Trace, NEW next, trace' = [trace EXCEPT ![t] = next],
           RowStep(trace[t], next)
    PROVE  RowSteps
  BY SameIsStep DEF Sound, TypeOK, RowSteps

LEMMA OutboundTakesRowSteps ==
    ASSUME Sound, Outbound, trace' # trace
    PROVE  RowSteps
  <1>1. trace \in [Trace -> TraceRow] /\ now \in 1 .. MaxTime
    BY DEF Sound, TypeOK
  <1>2. ASSUME NEW t \in Trace, Mint(t)
        PROVE  RowSteps
    <2> DEFINE row == [NoTrace EXCEPT !.status = "outgoing", !.live = TRUE, !.created = now]
    <2>1. row.status = "outgoing" /\ row.live /\ row.link = 0
      BY DEF NoTrace
    <2>2. trace' = [trace EXCEPT ![t] = row] /\ trace[t].status = "absent"
      BY <1>2 DEF Mint
    <2> HIDE DEF row
    <2> QED
      BY <2>1, <2>2, OneIsStep DEF RowStep
  <1>3. ASSUME NEW t \in Trace, Link(t)
        PROVE  RowSteps
    <2> DEFINE row == [trace[t] EXCEPT !.link = 1]
    <2>1. row.status = trace[t].status /\ row.live = trace[t].live /\ row.link = 1
      BY <1>1 DEF TraceRow
    <2>2. trace' = [trace EXCEPT ![t] = row] /\ trace[t].live /\ trace[t].link = 0
      BY <1>1, <1>3 DEF Link
    <2> HIDE DEF row
    <2>3. RowStep(trace[t], row)
      BY <2>1, <2>2 DEF RowStep
    <2> QED
      BY <2>2, <2>3, OneIsStep
  <1>4. ASSUME NEW t \in Trace, InboundReply(t) \/ InboundBounce(t)
        PROVE  RowSteps
    <2>1. \E next \in {SetReplied(trace[t]), SetBounced(trace[t])} :
            trace' = [trace EXCEPT ![t] = next]
      BY <1>4 DEF InboundReply, InboundBounce
    <2> QED
      BY <1>1, <2>1, VerbsAreSteps, OneIsStep
  <1>5. ASSUME NEW v \in Trace \X MailState, Reconcile(v)
        PROVE  RowSteps
    <2>1. v[1] \in Trace
      BY <1>5
    <2>2. \E next \in {SetSent(trace[v[1]]), SetFailed(trace[v[1]])} :
            trace' = [trace EXCEPT ![v[1]] = next]
      BY <1>5 DEF Reconcile
    <2>3. /\ RowStep(trace[v[1]], SetSent(trace[v[1]]))
          /\ RowStep(trace[v[1]], SetFailed(trace[v[1]]))
      BY <1>1, <2>1, VerbsAreSteps
    <2> QED
      BY <2>1, <2>2, <2>3, OneIsStep
  <1>6. ASSUME NEW m, RetryFailed(m)
        PROVE  RowSteps
    <2> DEFINE failed == {t \in Trace : MailingOf[t] = m /\ trace[t].live
                                        /\ trace[t].status = "error"}
    <2>1. trace' = [t \in Trace |-> IF t \in failed THEN [trace[t] EXCEPT !.live = FALSE]
                                    ELSE trace[t]]
      BY <1>6 DEF RetryFailed
    <2>2. ASSUME NEW t \in failed
          PROVE  RowStep(trace[t], [trace[t] EXCEPT !.live = FALSE])
      BY <1>1 DEF RowStep, TraceRow
    <2> HIDE DEF failed
    <2> QED
      BY <2>1, <2>2, SameIsStep DEF RowSteps
  <1> QED
    BY <1>2, <1>3, <1>4, <1>5, <1>6 DEF Outbound, Enqueue, Transport, ReadSettled, AutoBlacklist

LEMMA VisitTakesRowSteps ==
    ASSUME Sound, NEW r \in Visitor, Visit(r), trace' # trace
    PROVE  RowSteps
  <1>1. \E next \in {SetOpened(trace[visit[r].trace]), SetClicked(trace[visit[r].trace])} :
            trace' = [trace EXCEPT ![visit[r].trace] = next]
    BY DEF Visit, RouteTrace, ResolveClick, CheckConsistency, StampOpened, StampClicked, Abandon
  <1>2. visit[r].trace \in Trace
    BY <1>1 DEF Sound, TypeOK
  <1>3. trace[visit[r].trace] \in TraceRow /\ now \in 1 .. MaxTime
    BY <1>2 DEF Sound, TypeOK
  <1> QED
    BY <1>1, <1>2, <1>3, VerbsAreSteps, OneIsStep

\* The state a route read may be gone; what the trigger then lets through is an edge still.
LEMMA RouteTakesRowSteps ==
    ASSUME Sound, NEW o \in Operator, Route(o), trace' # trace
    PROVE  RowSteps
  <1>1. ASSUME NEW transition \in Transition, WriteForRoute(o, transition)
        PROVE  RowSteps
    <2> DEFINE t == route[o][1]
               to == Target[transition]
               row == [trace[t] EXCEPT !.status = to]
    <2>1. /\ trace' = [trace EXCEPT ![t] = row] /\ trace[t].live
          /\ Declared(trace[t].status, to)
      BY <1>1 DEF WriteForRoute
    <2>2. t \in Trace
      BY <2>1 DEF Sound, TypeOK
    <2>3. row.status = to /\ row.live = trace[t].live /\ row.link = trace[t].link
      BY <2>2 DEF Sound, TypeOK, TraceRow
    <2>4. trace[t].status = to \/ (trace[t].status # "absent"
                                   /\ to \in Rows!Successors[trace[t].status])
      BY <2>1, TransitionsAreEdges DEF Declared, CanTransition
    <2> HIDE DEF row, to
    <2>5. RowStep(trace[t], row)
      BY <2>1, <2>3, <2>4 DEF RowStep
    <2> HIDE DEF t
    <2> QED
      BY <2>1, <2>2, <2>5, OneIsStep
  <1>2. {"set_process", "set_pending", "set_sent", "set_opened", "set_replied", "set_bounced",
         "set_bounced_sms", "set_failed", "set_canceled"} \subseteq Transition
    BY DEF Transition, Sources
  <1> QED
    BY <1>1, <1>2
       DEF Route, ReadForRoute, SetProcessTransition, SetPendingTransition, SetSentTransition,
           SetOpenedTransition, SetRepliedTransition, SetBouncedTransition,
           SetBouncedSmsTransition, SetFailedTransition, SetCanceledTransition

\* Legs, replies, bounces, verdicts, retries and routes that decide on a row they read before:
\* in any order, each changes a trace as its machine allows, or not at all.
THEOREM TrackingImplementsRows == Spec => ImplementsRows
  <1>1. Init => Rows!Init
    BY DEF Init, NoTrace, Rows!Init
  <1>2. Sound /\ [Next]_vars
        => [Rows!Next]_<<[t \in Trace |-> trace[t].status], [t \in Trace |-> trace[t].live],
                         [t \in Trace |-> trace[t].link]>>
    <2>1. Sound /\ RowSteps => Rows!Next
      BY DEF RowSteps, RowStep, Rows!Next, Rows!Same, Rows!Minted, Rows!Advanced, Rows!Linked,
             Rows!Hidden
    <2> SUFFICES ASSUME Sound, [Next]_vars
                 PROVE  Rows!Next \/ UNCHANGED trace
      OBVIOUS
    <2> QED
      BY <2>1, OutboundTakesRowSteps, VisitTakesRowSteps, RouteTakesRowSteps
         DEF Next, Tick, vars
  <1> QED
    BY <1>1, <1>2, SpecSound, PTL DEF Spec, ImplementsRows, Rows!Spec, Rows!Vars
===============================================================================
