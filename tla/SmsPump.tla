------------------------------- MODULE SmsPump -------------------------------
(***************************************************************************)
(* The sms channel: the suppression arm and the channel mints that a send  *)
(* walk composes, the STOP legs that feed the phone blacklist, the channel *)
(* guard of the sweep, and the delivery pump that closes a walked-out      *)
(* mailing once its last delivery is settled.  Pumps and sweeps overlap    *)
(* and any process may die between two transactions.                       *)
(*                                                                         *)
(* The walk itself and the trackers belong to other programs: the walk     *)
(* does what the verbs it must call ask of it, a tracker moves along       *)
(* TrackerMoves.                                                           *)
(***************************************************************************)
EXTENDS Integers, FiniteSets

CONSTANTS
    Mailing,        \* ids of sms mailings
    Phone,          \* canonical numbers, one for each recipient
    Audience,       \* the phones of a mailing's targeting report
    Pump,           \* concurrent executions of pump_once
    Sweeper,        \* concurrent sweeps, up to the channel guard
    None,
    TrackerMoves,   \* the moves a tracker may make
    Stoppable,      \* the phones whose owners may send STOP
    Replies,        \* the inbound texts, folded
    Codes,          \* the presented STOP codes
    Verbs,          \* operator verbs in use
    TraceBatch,     \* TRACE_BATCH
    MaxAttempts,    \* bound: the traces of one recipient in one mailing
    MaxCrashes      \* bound: crashes

ASSUME PhonesAssumption ==
    /\ Mailing \subseteq Nat
    /\ Phone \subseteq Nat
    /\ Audience \in [Mailing -> SUBSET Phone]
    /\ None \notin Mailing

ASSUME BoundsAssumption == TraceBatch \in Nat /\ MaxAttempts \in Nat /\ MaxCrashes \in Nat

VARIABLES
    mailing,    \* the mailing rows
    trace,      \* the trace rows
    tracker,    \* messaging.sms_trackers, by the trace whose text it follows
    stopped,    \* the active phone blacklist
    walk,       \* the send walk
    sweeper,    \* the mailing each sweep claimed before its walk was over
    pump,       \* the local variables of each pump pass
    crashes

vars == <<mailing, trace, tracker, stopped, walk, sweeper, pump, crashes>>

-----------------------------------------------------------------------------
(* Rows. *)

\* walked: metadata has sms_walk_complete; parked: it has send_error
MailingRow == [state : {"draft", "in_queue", "sending", "done"}, walked : BOOLEAN,
               parked : BOOLEAN]

Transients == {"outgoing", "process", "pending"}

Trace == Mailing \X Phone \X (1 .. MaxAttempts)

\* link: 1 once sms_uuid is attached
TraceRow == [status : Transients \cup {"absent", "sent", "bounce", "error", "cancel"},
             live : BOOLEAN, link : {0, 1}]

NoTrace == [status |-> "absent", live |-> FALSE, link |-> 0]

\* rejected: an exception whose code is in BOUNCE_CLASS_CODES
TrackerState == {"ready", "process", "pending", "sent", "bounce", "rejected", "exception",
                 "canceled"}

ASSUME MovesAssumption ==
    /\ TrackerMoves \subseteq TrackerState \X TrackerState
    /\ None \notin TrackerState

\* hand: phones to text; told: phones found listed; post: a trace minted, or one whose text
\* is queued and not yet attached
WalkRow == [pc : {"idle", "suppress", "mint", "post", "attach"}, job : Mailing \cup {None},
            hand : SUBSET Phone, told : SUBSET Phone, post : Trace \cup {None}]

NoWalk == [pc |-> "idle", job |-> None, hand |-> {}, told |-> {}, post |-> None]

PumpRow == [pc : {"idle", "advance", "infer"}, verdicts : SUBSET (Trace \X TrackerState),
            candidates : SUBSET Mailing, locked : Mailing \cup {None}]

NoPass == [pc |-> "idle", verdicts |-> {}, candidates |-> {}, locked |-> None]

-----------------------------------------------------------------------------
(* Statements on traces. *)

\* Slip: the verb forgets which states it may leave.
Dragged(row) == IF row.live THEN [row EXCEPT !.status = "pending"] ELSE row

Moved(row, sources, to) ==
    IF row.live /\ row.status \in sources THEN [row EXCEPT !.status = to] ELSE row

SetProcess(row)    == Moved(row, {"outgoing"}, "process")
SetPending(row)    == Moved(row, {"outgoing", "process"}, "pending")
SetSent(row)       == Moved(row, {"outgoing", "process", "pending"}, "sent")
SetBouncedSms(row) == Moved(row, {"outgoing", "process", "pending"}, "bounce")
SetFailed(row)     == Moved(row, {"outgoing", "sent", "process", "pending"}, "error")
SetCanceled(row)   == Moved(row, {"outgoing"}, "cancel")

\* Slip: a status of the tracker's vocabulary.
VerdictVerbatim(row, verdict) ==
    IF row.live /\ row.status \in Transients THEN [row EXCEPT !.status = verdict] ELSE row

\* map_verdict: the tracker's state as a verb; before dispatch there is nothing to do
Verdict(row, verdict) ==
    CASE verdict = "process"                -> SetProcess(row)
      [] verdict = "pending"                -> SetPending(row)
      [] verdict = "sent"                   -> SetSent(row)
      [] verdict \in {"bounce", "rejected"} -> SetBouncedSms(row)
      [] verdict = "exception"              -> SetFailed(row)
      [] verdict = "canceled"               -> SetCanceled(row)
      [] OTHER                              -> row

Attached(row) == IF row.live /\ row.link = 0 THEN [row EXCEPT !.link = 1] ELSE row

\* Slip: no fence on the channel mint.
Unfenced(m, p) == FALSE

\* The partial unique index that mint_trace_channel_fenced runs into.
Fenced(m, p) ==
    \E t \in Trace : /\ t[1] = m /\ t[2] = p /\ trace[t].live
                     /\ trace[t].status \notin {"absent", "cancel"}

\* The identifier the next row inserted for a phone gets.
IsNext(t) ==
    /\ trace[t].status = "absent"
    /\ \A k \in 1 .. t[3] - 1 : trace[<<t[1], t[2], k>>].status # "absent"

Minted(new, status) ==
    [t \in Trace |-> IF t \in new THEN [status |-> status, live |-> TRUE, link |-> 0]
                     ELSE trace[t]]

\* ORDER BY id
Before(t, u) ==
    \/ t[2] < u[2]
    \/ t[2] = u[2] /\ t[1] < u[1]
    \/ t[2] = u[2] /\ t[1] = u[1] /\ t[3] < u[3]

\* Slip: once handed to the gateway a trace is not asked about again.
UntouchedTransients ==
    {<<t, tracker[t]>> : t \in {u \in Trace : /\ trace[u].live
                                             /\ trace[u].status = "outgoing"
                                             /\ trace[u].link = 1
                                             /\ tracker[u] # None}}

\* sms_traces_with_tracker_verdicts: a batch of the transient traces that have a tracker
TrackedTransients ==
    LET joined == {t \in Trace : /\ trace[t].live
                                 /\ trace[t].status \in Transients
                                 /\ trace[t].link = 1
                                 /\ tracker[t] # None}
        batch  == {t \in joined : Cardinality({u \in joined : Before(u, t)}) < TraceBatch}
    IN  {<<t, tracker[t]>> : t \in batch}

\* Slip: the count of the port's origin, whose traces are written in the same pass.
InProcess(m) ==
    {t \in Trace : t[1] = m /\ trace[t].live /\ trace[t].status = "process"}

\* count_transient_sms_traces
Remaining(m) ==
    {t \in Trace : t[1] = m /\ trace[t].live /\ trace[t].status \in Transients}

-----------------------------------------------------------------------------
(* Statements on mailings.  A row that a pump has locked waits. *)

\* Slip: the lock does not repeat the whole predicate.
StillSending(row) == row.state = "sending"

\* The predicate of sms_done_inference_candidates ...
Candidate(row) == row.state = "sending" /\ row.walked /\ ~row.parked

\* ... and, again, of lock_mailing_for_done.
Lockable(row) == row.state = "sending" /\ row.walked /\ ~row.parked

Completed(row) == IF row.state = "sending" THEN [row EXCEPT !.state = "done"] ELSE row

\* mark_sms_walk_complete
Marked(row) ==
    IF row.state = "sending" /\ ~row.walked THEN [row EXCEPT !.walked = TRUE] ELSE row

Parked(row) ==
    IF row.state \in {"in_queue", "sending"}
    THEN [row EXCEPT !.state = "sending", !.parked = TRUE] ELSE row

Due(row) == row.state \in {"in_queue", "sending"} /\ ~row.parked

Free(m) == \A w \in Pump : pump[w].locked # m

Write(m, row) == Free(m) /\ mailing' = [mailing EXCEPT ![m] = row]

-----------------------------------------------------------------------------
(* The STOP legs and the phone blacklist. *)

IsStopReplyKeyword(text) == text \in {"STOP", "STOP SMS", "UNSUBSCRIBE"}

\* validate_stop_code, of a trimmed code
ValidateStopCode(code) == code.alphanumeric /\ code.len \in 6 .. 12

\* effect_stop, on a number that phone_format accepts: one add, the same row every time
EffectStop(p) ==
    /\ p \in Stoppable
    /\ stopped' = stopped \cup {p}
    /\ UNCHANGED <<mailing, trace, tracker, walk, sweeper, pump, crashes>>

HandleReply(text, p) == IsStopReplyKeyword(text) /\ EffectStop(p)

StopByCode(code, p) == ValidateStopCode(code) /\ EffectStop(p)

\* backbone-mail's remove
Unlist(p) ==
    /\ "unlist" \in Verbs
    /\ p \in stopped
    /\ stopped' = stopped \ {p}
    /\ UNCHANGED <<mailing, trace, tracker, walk, sweeper, pump, crashes>>

-----------------------------------------------------------------------------
(* Operator verbs: none of them touches the walk's mark. *)

Launch(m) ==
    /\ mailing[m].state = "draft"
    /\ Write(m, [mailing[m] EXCEPT !.state = "in_queue"])
    /\ UNCHANGED <<trace, tracker, stopped, walk, sweeper, pump, crashes>>

Cancel(m) ==
    /\ "cancel" \in Verbs
    /\ mailing[m].state # "draft"
    /\ Write(m, [mailing[m] EXCEPT !.state = "draft"])
    /\ UNCHANGED <<trace, tracker, stopped, walk, sweeper, pump, crashes>>

Requeue(m) ==
    /\ mailing[m].state = "sending"
    /\ mailing[m].parked
    /\ Write(m, [mailing[m] EXCEPT !.state = "in_queue", !.parked = FALSE])
    /\ UNCHANGED <<trace, tracker, stopped, walk, sweeper, pump, crashes>>

FailedTraces(m) == {t \in Trace : t[1] = m /\ trace[t].live /\ trace[t].status = "error"}

RetryFailed(m) ==
    /\ "retry" \in Verbs
    /\ FailedTraces(m) # {}
    /\ mailing[m].state = "done"
    /\ Write(m, [mailing[m] EXCEPT !.state = "in_queue"])
    /\ trace' = [t \in Trace |->
                    IF t \in FailedTraces(m) THEN [trace[t] EXCEPT !.live = FALSE]
                    ELSE trace[t]]
    /\ UNCHANGED <<tracker, stopped, walk, sweeper, pump, crashes>>

-----------------------------------------------------------------------------
(* The sweep, up to its channel guard. *)

\* The claim reads the mark; the drive of a walked-out mailing leaves it to the pump.
Claim(s, m) ==
    /\ sweeper[s] = None
    /\ Due(mailing[m])
    /\ Write(m, [mailing[m] EXCEPT !.state = "sending"])
    /\ sweeper' = [sweeper EXCEPT ![s] = IF mailing[m].walked THEN None ELSE m]
    /\ UNCHANGED <<trace, tracker, stopped, walk, pump, crashes>>

\* An sms mailing that reaches the mail walk is parked, on what the claim has read.
ParkAtGuard(s) ==
    /\ sweeper[s] # None
    /\ Write(sweeper[s], Parked(mailing[sweeper[s]]))
    /\ sweeper' = [sweeper EXCEPT ![s] = None]
    /\ UNCHANGED <<trace, tracker, stopped, walk, pump, crashes>>

-----------------------------------------------------------------------------
(* The send walk: claim, suppress, mint, enqueue, attach, mark. *)

\* Slip: the listed numbers stay in the send set.
Everyone(m) == Audience[m]

\* suppress_at_claim's split, on one batched probe of the blacklist
SendSet(m) == Audience[m] \ stopped

WalkClaims(m) ==
    /\ walk.pc = "idle"
    /\ Due(mailing[m])
    /\ ~mailing[m].walked
    /\ Write(m, [mailing[m] EXCEPT !.state = "sending"])
    /\ walk' = [pc |-> "suppress", job |-> m, hand |-> SendSet(m),
                told |-> Audience[m] \cap stopped, post |-> None]
    /\ UNCHANGED <<trace, tracker, stopped, sweeper, pump, crashes>>

\* The cancel traces, all in one transaction; an earlier pass may have left its own.
Suppress ==
    /\ walk.pc = "suppress"
    /\ \E new \in SUBSET Trace :
        /\ \A t \in new : t[1] = walk.job /\ IsNext(t)
        /\ {t[2] : t \in new} = walk.told
        /\ trace' = Minted(new, "cancel")
    /\ walk' = [walk EXCEPT !.pc = "mint"]
    /\ UNCHANGED <<mailing, tracker, stopped, sweeper, pump, crashes>>

\* A phone whose mint meets the fence is skipped.
MintSms(p) ==
    /\ walk.pc = "mint"
    /\ p \in walk.hand
    /\ IF Fenced(walk.job, p)
       THEN /\ walk' = [walk EXCEPT !.hand = @ \ {p}]
            /\ UNCHANGED trace
       ELSE \E t \in Trace :
            /\ t[1] = walk.job /\ t[2] = p /\ IsNext(t)
            /\ trace' = Minted({t}, "outgoing")
            /\ walk' = [walk EXCEPT !.pc = "post", !.hand = @ \ {p}, !.post = t]
    /\ UNCHANGED <<mailing, tracker, stopped, sweeper, pump, crashes>>

\* backbone-mail queues the text and its tracker together.
Post ==
    /\ walk.pc = "post"
    /\ tracker' = [tracker EXCEPT ![walk.post] = "ready"]
    /\ walk' = [walk EXCEPT !.pc = "attach"]
    /\ UNCHANGED <<mailing, trace, stopped, sweeper, pump, crashes>>

\* attach_sms_uuid
Attach ==
    /\ walk.pc = "attach"
    /\ trace' = [trace EXCEPT ![walk.post] = Attached(@)]
    /\ walk' = [walk EXCEPT !.pc = "mint", !.post = None]
    /\ UNCHANGED <<mailing, tracker, stopped, sweeper, pump, crashes>>

MarkWalkComplete ==
    /\ walk.pc = "mint"
    /\ walk.hand = {}
    /\ Write(walk.job, Marked(mailing[walk.job]))
    /\ walk' = NoWalk
    /\ UNCHANGED <<trace, tracker, stopped, sweeper, pump, crashes>>

\* A gateway's report, or the drainer's own outcome.
TrackerMove(t) ==
    /\ \E next \in TrackerState :
        /\ <<tracker[t], next>> \in TrackerMoves
        /\ tracker' = [tracker EXCEPT ![t] = next]
    /\ UNCHANGED <<mailing, trace, stopped, walk, sweeper, pump, crashes>>

-----------------------------------------------------------------------------
(* pump_once. *)

SetPass(w, pass) ==
    /\ pump' = [pump EXCEPT ![w] = pass]
    /\ UNCHANGED <<tracker, stopped, walk, sweeper, crashes>>

ReadVerdicts(w) ==
    /\ pump[w].pc = "idle"
    /\ SetPass(w, [NoPass EXCEPT !.pc = "advance", !.verdicts = TrackedTransients])
    /\ UNCHANGED <<mailing, trace>>

\* apply_verdict: a transaction for each verdict, as it was when the pass read it
ApplyVerdict(w, v) ==
    /\ v \in pump[w].verdicts
    /\ trace' = [trace EXCEPT ![v[1]] = Verdict(@, v[2])]
    /\ SetPass(w, [pump[w] EXCEPT !.verdicts = @ \ {v}])
    /\ UNCHANGED mailing

Scan(w) ==
    /\ pump[w].pc = "advance"
    /\ pump[w].verdicts = {}
    /\ SetPass(w, [pump[w] EXCEPT !.pc = "infer",
                        !.candidates = {m \in Mailing : Candidate(mailing[m])}])
    /\ UNCHANGED <<mailing, trace>>

\* Candidacy is established again under the row lock, or the candidate is passed over.
LockForDone(w, m) ==
    /\ pump[w].locked = None
    /\ m \in pump[w].candidates
    /\ Free(m)
    /\ SetPass(w, [pump[w] EXCEPT !.candidates = @ \ {m},
                        !.locked = IF Lockable(mailing[m]) THEN m ELSE None])
    /\ UNCHANGED <<mailing, trace>>

\* The count, the completion and the commit that releases the row.
InferDone(w) ==
    /\ pump[w].locked # None
    /\ mailing' = IF Remaining(pump[w].locked) = {}
                  THEN [mailing EXCEPT ![pump[w].locked] = Completed(@)] ELSE mailing
    /\ SetPass(w, [pump[w] EXCEPT !.locked = None])
    /\ UNCHANGED trace

EndPass(w) ==
    /\ pump[w].pc = "infer"
    /\ pump[w].candidates = {}
    /\ pump[w].locked = None
    /\ SetPass(w, NoPass)
    /\ UNCHANGED <<mailing, trace>>

\* A process dies: its open transaction is rolled back, its locals are gone.
Crash ==
    /\ crashes < MaxCrashes
    /\ crashes' = crashes + 1
    /\ \/ /\ walk.pc # "idle"
          /\ walk' = NoWalk
          /\ UNCHANGED pump
       \/ /\ \E w \in Pump : pump[w].pc # "idle" /\ pump' = [pump EXCEPT ![w] = NoPass]
          /\ UNCHANGED walk
    /\ UNCHANGED <<mailing, trace, tracker, stopped, sweeper>>

-----------------------------------------------------------------------------
Init ==
    /\ mailing = [m \in Mailing |-> [state |-> "draft", walked |-> FALSE, parked |-> FALSE]]
    /\ trace = [t \in Trace |-> NoTrace]
    /\ tracker = [t \in Trace |-> None]
    /\ stopped = {}
    /\ walk = NoWalk
    /\ sweeper = [s \in Sweeper |-> None]
    /\ pump = [w \in Pump |-> NoPass]
    /\ crashes = 0

Pass(w) ==
    \/ ReadVerdicts(w)
    \/ \E v \in Trace \X TrackerState : ApplyVerdict(w, v)
    \/ Scan(w)
    \/ \E m \in Mailing : LockForDone(w, m)
    \/ InferDone(w)
    \/ EndPass(w)

Walk ==
    \/ \E m \in Mailing : WalkClaims(m)
    \/ Suppress
    \/ \E p \in Phone : MintSms(p)
    \/ Post
    \/ Attach
    \/ MarkWalkComplete

Next ==
    \/ \E m \in Mailing : Launch(m) \/ Cancel(m) \/ Requeue(m) \/ RetryFailed(m)
    \/ \E p \in Phone : Unlist(p)
    \/ \E p \in Phone, text \in Replies : HandleReply(text, p)
    \/ \E p \in Phone, code \in Codes : StopByCode(code, p)
    \/ \E s \in Sweeper : ParkAtGuard(s) \/ \E m \in Mailing : Claim(s, m)
    \/ Walk
    \/ \E t \in Trace : TrackerMove(t)
    \/ \E w \in Pump : Pass(w)
    \/ Crash

Spec == Init /\ [][Next]_vars

\* The job runner keeps running passes; every text is settled in the end.
FairSpec ==
    /\ Spec
    /\ \A w \in Pump : WF_vars(Pass(w))
    /\ \A t \in Trace : WF_vars(TrackerMove(t))

-----------------------------------------------------------------------------
(* Properties. *)

TypeOK ==
    /\ mailing \in [Mailing -> MailingRow]
    /\ trace \in [Trace -> TraceRow]
    /\ tracker \in [Trace -> TrackerState \cup {None}]
    /\ stopped \subseteq Phone
    /\ walk \in WalkRow
    /\ sweeper \in [Sweeper -> Mailing \cup {None}]
    /\ pump \in [Pump -> PumpRow]
    /\ crashes \in 0 .. MaxCrashes

\* An sms mailing is done only when the whole audience was walked and no delivery is open:
\* every phone has its trace, sent, suppressed or freed by a retry, and none is transient.
DoneIsDelivered ==
    \A m \in Mailing : mailing[m].state = "done" =>
        /\ Remaining(m) = {}
        /\ \A p \in Audience[m] : trace[<<m, p, 1>>].status # "absent"

\* A mailing that the channel guard parked between a pump's scan and its lock, or while its
\* walk went on, is not completed behind the operator's back.
ParkedStaysOpen ==
    [][\A m \in Mailing :
        mailing[m].parked /\ mailing[m].state = "sending" => mailing'[m].state # "done"]_vars

\* A number gets one text of a mailing, however many passes, crashes, stops and returns:
\* another is queued only after the first was canceled before dispatch.
TextedOnce ==
    \A t, u \in Trace :
        /\ t[1] = u[1] /\ t[2] = u[2]
        /\ tracker[t] \notin {None, "canceled"}
        /\ tracker[u] \notin {None, "canceled"}
        => t = u

\* A number that was listed when a pass probed the blacklist is not texted by that pass, and
\* its suppression is on record before the first text of the pass goes out.
StopHonoured ==
    [][\A t \in Trace : tracker[t] = None /\ tracker'[t] # None =>
        /\ t[2] \notin walk.told
        /\ \A p \in walk.told : \E u \in Trace :
            u[1] = t[1] /\ u[2] = p /\ trace[u].live /\ trace[u].status = "cancel"]_vars

Rows == INSTANCE TraceLifecycle WITH
    status <- [t \in Trace |-> trace[t].status],
    live   <- [t \in Trace |-> trace[t].live],
    link   <- [t \in Trace |-> trace[t].link]

\* The rows keep the promise of TraceLifecycle on the sms edges too: verdicts that two pumps
\* apply late and out of order never take a trace back.
ImplementsRows == Rows!Spec

\* What the pump can close: walked out, not parked, every open trace linked to its tracker.
Closable(m) ==
    /\ Candidate(mailing[m])
    /\ \A t \in Remaining(m) : trace[t].link = 1

\* A mailing whose walk is over is closed in the end, a batch of traces at a time, though
\* passes race each other and may die.
EventuallyClosed == \A m \in Mailing : Closable(m) ~> ~Closable(m)

\* retry_failed re-opens the fence for a fresh trace: when the mailing is done again, each
\* recipient it freed has had one.
RetriedAreResent ==
    \A m \in Mailing : mailing[m].state = "done" =>
        \A t \in Trace : t[1] = m /\ trace[t].status = "error" /\ ~trace[t].live =>
            \E u \in Trace : /\ u[1] = m /\ u[2] = t[2] /\ u[3] > t[3]
                             /\ trace[u].status # "absent"
=============================================================================
