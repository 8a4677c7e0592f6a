-------------------------- MODULE SendEngineProofs --------------------------
(***************************************************************************)
(* Theorems about SendEngine, for every set of mailings, recipients and    *)
(* workers, every audience and every value of the knobs.                   *)
(***************************************************************************)
EXTENDS SendEngine, SequenceTheorems, TLAPS

(* A worker inside a drive has the mailing it drives, and between enqueue and
   attach the trace it enqueued and the number of its mail row. *)
EngagedRow(r) ==
    /\ r.pc \in {"repair", "relink", "walk", "link"} => r.job \in Mailing
    /\ r.pc \in {"relink", "link"} => r.post \in Trace /\ r.row \in Nat \ {0}

Engaged == \A w \in Worker : EngagedRow(worker[w])

TypeInv == TypeOK /\ Engaged

-----------------------------------------------------------------------------
(* Lemmas on rows. *)

\* Every statement on a mailing row yields a mailing row.
LEMMA MailingRowClosed ==
    ASSUME NEW row \in MailingRow, NEW later \in BOOLEAN
    PROVE  /\ Launched(row, later) \in MailingRow
           /\ Canceled(row) \in MailingRow
           /\ Requeued(row) \in MailingRow
           /\ Unparked(row) \in MailingRow
           /\ Flipped(row) \in MailingRow
           /\ Parked(row) \in MailingRow
           /\ Completed(row) \in MailingRow
           /\ CompletedEmpty(row) \in MailingRow
  BY DEF MailingRow, MailingState, Launched, Canceled, Requeued, Unparked, Flipped,
         Parked, Completed, CompletedEmpty

\* A trace verb keeps the row a row, live or hidden as it was, and linked as it was.
LEMMA MovedClosed ==
    ASSUME NEW row \in TraceRow, NEW sources, NEW to \in TraceStatus
    PROVE  /\ Moved(row, sources, to) \in TraceRow
           /\ Moved(row, sources, to).live = row.live
           /\ Moved(row, sources, to).link = row.link
  BY DEF TraceRow, Moved

LEMMA TraceRowClosed ==
    ASSUME NEW row \in TraceRow, NEW k \in Nat
    PROVE  /\ SetSent(row) \in TraceRow
           /\ SetOpened(row) \in TraceRow
           /\ SetReplied(row) \in TraceRow
           /\ SetBounced(row) \in TraceRow
           /\ SetFailed(row) \in TraceRow
           /\ Attached(row, k) \in TraceRow
  <1>1. {"sent", "open", "reply", "bounce", "error"} \subseteq TraceStatus
    BY DEF TraceStatus
  <1>2. Attached(row, k) \in TraceRow
    BY DEF Attached, TraceRow
  <1> QED
    BY <1>1, <1>2, MovedClosed DEF SetSent, SetOpened, SetReplied, SetBounced, SetFailed

\* One worker's row is replaced by another well-formed one.
LEMMA WorkerMoves ==
    ASSUME TypeInv, NEW w \in Worker, NEW r \in WorkerRow, EngagedRow(r),
           worker' = [worker EXCEPT ![w] = r]
    PROVE  worker' \in [Worker -> WorkerRow] /\ Engaged'
  BY DEF TypeInv, TypeOK, Engaged, EngagedRow

LEMMA AsleepTyped ==
    /\ Asleep \in WorkerRow /\ EngagedRow(Asleep)
    /\ \A c \in SUBSET Mailing :
        LET r == [Asleep EXCEPT !.pc = "drive", !.claims = c]
        IN  r \in WorkerRow /\ EngagedRow(r)
  BY DEF Asleep, WorkerRow, PC, EngagedRow

\* Rows are only inserted as fresh traces of a known status.
LEMMA MintTyped ==
    ASSUME TypeOK, NEW new, NEW status \in TraceStatus, Mint(new, status)
    PROVE  trace' \in [Trace -> TraceRow]
  BY DEF TypeOK, Mint, FreshTrace, TraceRow

-----------------------------------------------------------------------------
(* Type correctness. *)

LEMMA InitTyped == Init => TypeInv
  <1> SUFFICES ASSUME Init PROVE TypeInv
    OBVIOUS
  <1>1. mailing \in [Mailing -> MailingRow]
    BY DEF Init, MailingRow, MailingState
  <1>2. trace \in [Trace -> TraceRow]
    BY DEF Init, NoTrace, TraceRow
  <1>3. mails \in [Trace -> Seq(MailState)]
    BY DEF Init
  <1>4. worker \in [Worker -> WorkerRow] /\ Engaged
    BY AsleepTyped DEF Init, Engaged
  <1> QED
    BY <1>1, <1>2, <1>3, <1>4, MailingsAssumption DEF Init, TypeInv, TypeOK

LEMMA OperatorTyped ==
    ASSUME TypeInv, NEW m \in Mailing, Operator(m)
    PROVE  TypeInv'
  <1>1. CASE Launch(m)
    BY <1>1, MailingRowClosed DEF Launch, TypeInv, TypeOK, Engaged
  <1>2. CASE Cancel(m)
    BY <1>2, MailingRowClosed DEF Cancel, TypeInv, TypeOK, Engaged
  <1>3. CASE Requeue(m)
    BY <1>3, MailingRowClosed DEF Requeue, TypeInv, TypeOK, Engaged
  <1>4. CASE RetryFailed(m)
    <2>1. mailing' \in [Mailing -> MailingRow]
      BY <1>4, MailingRowClosed DEF RetryFailed, TypeInv, TypeOK
    <2>2. trace' \in [Trace -> TraceRow]
      BY <1>4 DEF RetryFailed, FailedTraces, TypeInv, TypeOK, TraceRow
    <2> QED
      BY <1>4, <2>1, <2>2 DEF RetryFailed, TypeInv, TypeOK, Engaged
  <1> QED
    BY <1>1, <1>2, <1>3, <1>4 DEF Operator

LEMMA OutsideTyped ==
    ASSUME TypeInv, Outside
    PROVE  TypeInv'
  <1>1. ASSUME NEW m \in Mailing, ComesDue(m)
        PROVE  TypeInv'
    BY <1>1 DEF ComesDue, TypeInv, TypeOK, MailingRow, Engaged
  <1>2. ASSUME NEW t \in Trace, Age(t)
        PROVE  TypeInv'
    BY <1>2 DEF Age, TypeInv, TypeOK, TraceRow, Engaged
  <1>3. ASSUME NEW t \in Trace, Tracked(t)
        PROVE  TypeInv'
    <2>1. PICK fact \in Events :
            trace' = [trace EXCEPT ![t] = CASE fact = "open"   -> SetOpened(@)
                                            [] fact = "reply"  -> SetReplied(@)
                                            [] fact = "bounce" -> SetBounced(@)]
      BY <1>3 DEF Tracked
    <2>2. trace[t] \in TraceRow /\ fact \in {"open", "reply", "bounce"}
      BY ScenarioAssumption DEF TypeInv, TypeOK
    <2>3. trace' \in [Trace -> TraceRow]
      BY <2>1, <2>2, TraceRowClosed DEF TypeInv, TypeOK
    <2> QED
      BY <1>3, <2>3 DEF Tracked, TypeInv, TypeOK, Engaged
  <1>4. ASSUME NEW t \in Trace, NEW k \in 1 .. MaxMails, NEW verdict \in {"sent", "exception"},
               Settle(t, k, verdict)
        PROVE  TypeInv'
    <2>1. mails[t] \in Seq(MailState) /\ verdict \in MailState
      BY DEF TypeInv, TypeOK, MailState
    <2>2. [mails[t] EXCEPT ![k] = verdict] \in Seq(MailState)
      BY <1>4, <2>1, ExceptSeq DEF Settle
    <2>3. mails' \in [Trace -> Seq(MailState)]
      BY <1>4, <2>2 DEF Settle, TypeInv, TypeOK
    <2> QED
      BY <1>4, <2>3 DEF Settle, TypeInv, TypeOK, Engaged
  <1>5. ASSUME NEW e \in Email, OptOut(e) \/ Resubscribe(e) \/ Blacklist(e)
        PROVE  TypeInv'
    BY <1>5, MailingsAssumption DEF OptOut, Resubscribe, Blacklist, TypeInv, TypeOK, Engaged
  <1> QED
    BY <1>1, <1>2, <1>3, <1>4, <1>5 DEF Outside

LEMMA ClaimTyped ==
    ASSUME TypeInv, NEW w \in Worker, NEW S \in SUBSET Mailing, Claim(w, S)
    PROVE  TypeInv'
  <1>1. PICK unparsed \in SUBSET (S \cap Fragile) :
            /\ mailing' = [m \in Mailing |->
                             IF m \in unparsed THEN Parked(mailing[m])
                             ELSE IF m \in S THEN Flipped(mailing[m]) ELSE mailing[m]]
            /\ worker' = [worker EXCEPT ![w] =
                             [Asleep EXCEPT !.pc = "drive", !.claims = S \ unparsed]]
    BY DEF Claim
  <1>2. mailing' \in [Mailing -> MailingRow]
    BY <1>1, MailingRowClosed DEF TypeInv, TypeOK
  <1>3. worker' \in [Worker -> WorkerRow] /\ Engaged'
    <2> DEFINE r == [Asleep EXCEPT !.pc = "drive", !.claims = S \ unparsed]
    <2>1. r \in WorkerRow /\ EngagedRow(r)
      BY AsleepTyped
    <2> QED
      BY <1>1, <2>1, WorkerMoves
  <1> QED
    BY <1>2, <1>3 DEF Claim, TypeInv, TypeOK

LEMMA NextDriveTyped ==
    ASSUME TypeInv, NEW w \in Worker
    PROVE  NextDrive(w) \in WorkerRow /\ EngagedRow(NextDrive(w))
  <1>1. worker[w].claims \in SUBSET Mailing
    BY DEF TypeInv, TypeOK, WorkerRow
  <1> QED
    BY <1>1, AsleepTyped DEF NextDrive

\* HandOn leaves a well-formed worker, whichever trace it drops.
LEMMA HandOnTyped ==
    ASSUME TypeInv, NEW w \in Worker, NEW t, HandOn(w, t)
    PROVE  worker' \in [Worker -> WorkerRow] /\ Engaged'
  <1> DEFINE r == [worker[w] EXCEPT
                     !.pc = CASE @ = "link"   -> "walk"
                              [] @ = "relink" -> "repair"
                              [] OTHER        -> @,
                     !.hand = @ \ {t}, !.post = None, !.row = 0]
  <1>1. worker[w] \in WorkerRow /\ EngagedRow(worker[w])
    BY DEF TypeInv, TypeOK, Engaged
  <1>2. r \in WorkerRow /\ EngagedRow(r)
    BY <1>1 DEF WorkerRow, PC, EngagedRow
  <1>3. worker' = [worker EXCEPT ![w] = r]
    BY DEF HandOn, TypeInv, TypeOK
  <1> QED
    BY <1>2, <1>3, WorkerMoves

LEMMA SlotsAreTraces == \A m, F : Slots(m, F) \subseteq Trace
  BY DEF Slots

\* The steps up to the end of the walk's decisions, and the last ones.
LEMMA SweepTyped ==
    ASSUME TypeInv, NEW w \in Worker,
           \/ ClaimNothing(w) \/ \E m \in Mailing : Drive(w, m)
           \/ DrivesDone(w) \/ DriveFails(w) \/ FinishEmpty(w) \/ Probe(w)
           \/ Finish(w) \/ Crash(w)
    PROVE  TypeInv'
  <1> DEFINE r == worker[w]
  <1>0. r \in WorkerRow /\ EngagedRow(r)
    BY DEF TypeInv, TypeOK, Engaged
  <1>1. CASE ClaimNothing(w)
    <2> DEFINE s == [r EXCEPT !.pc = "drive"]
    <2>1. s \in WorkerRow /\ EngagedRow(s)
      BY <1>0 DEF WorkerRow, PC, EngagedRow
    <2>2. worker' = [worker EXCEPT ![w] = s]
      BY <1>1 DEF ClaimNothing, TypeInv, TypeOK
    <2> QED
      BY <1>1, <2>1, <2>2, WorkerMoves DEF ClaimNothing, TypeInv, TypeOK
  <1>2. ASSUME NEW m \in Mailing, Drive(w, m)
        PROVE  TypeInv'
    <2> DEFINE s == [r EXCEPT !.pc = "repair", !.claims = @ \ {m}, !.job = m,
                              !.hand = Orphans(m)]
    <2>1. Orphans(m) \subseteq Trace
      BY DEF Orphans, OrphansOfAnyAge
    <2>2. s \in WorkerRow /\ EngagedRow(s)
      BY <1>0, <2>1 DEF WorkerRow, PC, EngagedRow
    <2>3. worker' = [worker EXCEPT ![w] = s]
      BY <1>2 DEF Drive, TypeInv, TypeOK
    <2> QED
      BY <1>2, <2>2, <2>3, WorkerMoves DEF Drive, TypeInv, TypeOK
  <1>3. CASE DrivesDone(w)
    <2> DEFINE s == [r EXCEPT !.pc = "reconcile"]
    <2>1. s \in WorkerRow /\ EngagedRow(s)
      BY <1>0 DEF WorkerRow, PC, EngagedRow
    <2>2. worker' = [worker EXCEPT ![w] = s]
      BY <1>3 DEF DrivesDone, TypeInv, TypeOK
    <2> QED
      BY <1>3, <2>1, <2>2, WorkerMoves DEF DrivesDone, TypeInv, TypeOK
  <1>4. CASE DriveFails(w) \/ FinishEmpty(w) \/ Finish(w)
    <2>1. worker' \in [Worker -> WorkerRow] /\ Engaged'
      BY <1>4, NextDriveTyped, WorkerMoves DEF DriveFails, FinishEmpty, Finish
    <2>2. r.job \in Mailing
      BY <1>0, <1>4 DEF DriveFails, FinishEmpty, Finish, EngagedRow
    <2>3. mailing[r.job] \in MailingRow
      BY <2>2 DEF TypeInv, TypeOK
    <2>4. /\ Parked(mailing[r.job]) \in MailingRow
          /\ CompletedEmpty(mailing[r.job]) \in MailingRow
          /\ Completed(mailing[r.job]) \in MailingRow
      BY <2>3, MailingRowClosed
    <2>5. mailing' \in [Mailing -> MailingRow]
      BY <1>4, <2>2, <2>4 DEF DriveFails, FinishEmpty, Finish, TypeInv, TypeOK
    <2> QED
      BY <1>4, <2>1, <2>5 DEF DriveFails, FinishEmpty, Finish, TypeInv, TypeOK
  <1>5. CASE Probe(w)
    <2> DEFINE unseen == {p \in Audience[r.job] :
                             ~SeenActive(r.job, p) /\ ~SuppressedHere(r.job, p)}
    <2>1. PICK first \in FirstOfEach(Audience[r.job]) :
            LET cancels == {p \in unseen : p \notin first \/ Suppressed(r.job, EmailOf[p])}
                send    == (unseen \ cancels) \cap Sample[r.job]
            IN  \E work \in SUBSET send :
                    worker' = [worker EXCEPT ![w].pc = "walk", ![w].cancels = cancels,
                                      ![w].work = work, ![w].more = work # send]
      BY <1>5 DEF Probe
    <2> DEFINE cancels == {p \in unseen : p \notin first \/ Suppressed(r.job, EmailOf[p])}
               send    == (unseen \ cancels) \cap Sample[r.job]
    <2>2. PICK work \in SUBSET send :
            worker' = [worker EXCEPT ![w].pc = "walk", ![w].cancels = cancels,
                              ![w].work = work, ![w].more = work # send]
      BY <2>1
    <2> DEFINE s == [r EXCEPT !.pc = "walk", !.cancels = cancels, !.work = work,
                              !.more = work # send]
    <2>3. r.job \in Mailing
      BY <1>0, <1>5 DEF Probe, EngagedRow
    <2>4. cancels \subseteq Recipient /\ work \subseteq Recipient /\ (work # send) \in BOOLEAN
      BY <2>3, MailingsAssumption
    <2>5. s \in WorkerRow /\ EngagedRow(s)
      <3> HIDE DEF cancels, send
      <3> QED
        BY <1>0, <2>3, <2>4 DEF WorkerRow, PC, EngagedRow
    <2>6. worker' = [worker EXCEPT ![w] = s]
      <3> HIDE DEF cancels, send
      <3> QED
        BY <2>2 DEF TypeInv, TypeOK
    <2> QED
      BY <1>5, <2>5, <2>6, WorkerMoves DEF Probe, TypeInv, TypeOK
  <1>6. CASE Crash(w)
    BY <1>6, AsleepTyped, WorkerMoves DEF Crash, TypeInv, TypeOK
  <1> QED
    BY <1>1, <1>2, <1>3, <1>4, <1>5, <1>6

LEMMA EnqueueErrTyped ==
    ASSUME TypeInv, NEW w \in Worker, NEW t, EnqueueErr(w, t)
    PROVE  TypeInv'
  <1>1. trace' \in [Trace -> TraceRow]
    BY TraceRowClosed DEF EnqueueErr, TypeInv, TypeOK
  <1> QED
    BY <1>1, HandOnTyped DEF EnqueueErr, TypeInv, TypeOK

\* The steps that insert, enqueue, link and settle traces.
LEMMA TraceStepTyped ==
    ASSUME TypeInv, NEW w \in Worker,
           \/ \E p \in Recipient : MintCancel(w, p)
           \/ MintBatch(w)
           \/ \E t \in Trace : Post(w, t)
           \/ Attach(w)
           \/ \E t \in Trace : PostRefused(w, t)
           \/ AttachFails(w)
           \/ Reconcile(w)
    PROVE  TypeInv'
  <1> DEFINE r == worker[w]
  <1>0. r \in WorkerRow /\ EngagedRow(r)
    BY DEF TypeInv, TypeOK, Engaged
  <1>1. ASSUME NEW p \in Recipient, MintCancel(w, p)
        PROVE  TypeInv'
    <2> DEFINE s == [r EXCEPT !.cancels = @ \ {p}]
    <2>1. s \in WorkerRow /\ EngagedRow(s)
      BY <1>0 DEF WorkerRow, EngagedRow
    <2>2. worker' = [worker EXCEPT ![w] = s]
      BY <1>1 DEF MintCancel, TypeInv, TypeOK
    <2>3. trace' \in [Trace -> TraceRow]
      BY <1>1, MintTyped DEF MintCancel, TypeInv, TraceStatus
    <2> QED
      BY <1>1, <2>1, <2>2, <2>3, WorkerMoves DEF MintCancel, TypeInv, TypeOK
  <1>2. CASE MintBatch(w)
    <2>1. PICK batch \in SUBSET r.work :
            LET free == {p \in batch : ~Fenced(r.job, p)}
            IN  /\ Mint(Slots(r.job, free), "outgoing")
                /\ worker' = [worker EXCEPT ![w].work = @ \ batch,
                                            ![w].hand = Slots(r.job, free)]
      BY <1>2 DEF MintBatch
    <2> DEFINE new == Slots(r.job, {p \in batch : ~Fenced(r.job, p)})
               s   == [r EXCEPT !.work = @ \ batch, !.hand = new]
    <2>2. new \subseteq Trace
      BY SlotsAreTraces
    <2>3. s \in WorkerRow /\ EngagedRow(s)
      <3> HIDE DEF new
      <3> QED
        BY <1>0, <2>2 DEF WorkerRow, EngagedRow
    <2>4. worker' = [worker EXCEPT ![w] = s]
      BY <2>1 DEF TypeInv, TypeOK
    <2>5. trace' \in [Trace -> TraceRow]
      BY <2>1, MintTyped DEF TypeInv, TraceStatus
    <2> QED
      BY <1>2, <2>3, <2>4, <2>5, WorkerMoves DEF MintBatch, TypeInv, TypeOK
  <1>3. ASSUME NEW t \in Trace, Post(w, t)
        PROVE  TypeInv'
    <2> DEFINE s == [r EXCEPT !.pc = IF @ = "walk" THEN "link" ELSE "relink",
                              !.post = t, !.row = Len(mails[t]) + 1]
    <2>1. mails[t] \in Seq(MailState) /\ "outgoing" \in MailState
      BY DEF TypeInv, TypeOK, MailState
    <2>2. Append(mails[t], "outgoing") \in Seq(MailState) /\ Len(mails[t]) + 1 \in Nat \ {0}
      BY <2>1
    <2>3. mails' \in [Trace -> Seq(MailState)]
      BY <1>3, <2>2 DEF Post, TypeInv, TypeOK
    <2>4. s \in WorkerRow /\ EngagedRow(s)
      BY <1>0, <1>3, <2>2 DEF Post, WorkerRow, PC, EngagedRow
    <2>5. worker' = [worker EXCEPT ![w] = s]
      BY <1>3 DEF Post, TypeInv, TypeOK
    <2> QED
      BY <1>3, <2>3, <2>4, <2>5, WorkerMoves DEF Post, TypeInv, TypeOK
  <1>4. CASE Attach(w)
    <2>1. r.row \in Nat
      BY <1>0 DEF WorkerRow
    <2>2. trace' \in [Trace -> TraceRow]
      BY <1>4, <2>1, TraceRowClosed DEF Attach, TypeInv, TypeOK
    <2> QED
      BY <1>4, <2>2, HandOnTyped DEF Attach, TypeInv, TypeOK
  <1>5. ASSUME NEW t \in Trace, PostRefused(w, t)
        PROVE  TypeInv'
    BY <1>5, EnqueueErrTyped DEF PostRefused
  <1>6. CASE AttachFails(w)
    BY <1>6, EnqueueErrTyped DEF AttachFails
  <1>7. CASE Reconcile(w)
    <2>1. \A t \in Trace : Reconciled(t) \in TraceRow
      BY TraceRowClosed DEF Reconciled, TypeInv, TypeOK
    <2>2. trace' \in [Trace -> TraceRow]
      BY <1>7, <2>1 DEF Reconcile
    <2> QED
      BY <1>7, <2>2, AsleepTyped, WorkerMoves DEF Reconcile, TypeInv, TypeOK
  <1> QED
    BY <1>1, <1>2, <1>3, <1>4, <1>5, <1>6, <1>7

LEMMA NextTyped == TypeInv /\ [Next]_vars => TypeInv'
  <1> SUFFICES ASSUME TypeInv, [Next]_vars PROVE TypeInv'
    OBVIOUS
  <1>1. CASE \E m \in Mailing : Operator(m)
    BY <1>1, OperatorTyped
  <1>2. CASE Outside
    BY <1>2, OutsideTyped
  <1>3. CASE \E w \in Worker, S \in SUBSET Mailing : Claim(w, S)
    BY <1>3, ClaimTyped
  <1>4. CASE \E w \in Worker : Step(w) \/ Crash(w)
    BY <1>4, SweepTyped, TraceStepTyped DEF Step
  <1>5. CASE UNCHANGED vars
    BY <1>5 DEF vars, TypeInv, TypeOK, Engaged
  <1> QED
    BY <1>1, <1>2, <1>3, <1>4, <1>5 DEF Next

\* The rows, the queue, the suppression lists and the workers' locals keep their
\* types, whatever operators, workers and the mail queue do.
THEOREM TypeCorrect == Spec => []TypeOK
  <1>1. TypeInv => TypeOK
    BY DEF TypeInv
  <1> QED
    BY <1>1, InitTyped, NextTyped, PTL DEF Spec

-----------------------------------------------------------------------------
(* The mint fence. *)

RowActive(row) == row.live /\ row.status \notin {"absent", "cancel"}

\* A statement on a trace row revives nothing that was absent, cancelled or hidden.
LEMMA StatementsReviveNothing ==
    ASSUME NEW row \in TraceRow, NEW k
    PROVE  /\ RowActive(SetSent(row)) => RowActive(row)
           /\ RowActive(SetOpened(row)) => RowActive(row)
           /\ RowActive(SetReplied(row)) => RowActive(row)
           /\ RowActive(SetBounced(row)) => RowActive(row)
           /\ RowActive(SetFailed(row)) => RowActive(row)
           /\ RowActive(Attached(row, k)) => RowActive(row)
  BY DEF RowActive, SetSent, SetOpened, SetReplied, SetBounced, SetFailed, Attached,
         Moved, TraceRow

\* What revives nothing cannot break the fence.
LEMMA FenceKept ==
    ASSUME MintFence, \A t \in Trace : RowActive(trace'[t]) => RowActive(trace[t])
    PROVE  MintFence'
  BY DEF MintFence, Active, RowActive

LEMMA FenceUnchanged ==
    ASSUME MintFence, UNCHANGED trace
    PROVE  MintFence'
  BY DEF MintFence, Active

\* A pair has one next identifier: below it every identifier is taken.
LEMMA NextIsUnique ==
    ASSUME NEW t \in Trace, NEW u \in Trace, t[1] = u[1], t[2] = u[2], IsNext(t), IsNext(u)
    PROVE  t = u
  <1>1. t = <<t[1], t[2], t[3]>> /\ u = <<u[1], u[2], u[3]>>
    BY DEF Trace
  <1>2. t[3] \in 1 .. MaxAttempts /\ u[3] \in 1 .. MaxAttempts /\ MaxAttempts \in Nat
    BY KnobsAssumption DEF Trace
  <1>3. ASSUME t[3] < u[3] PROVE FALSE
    <2>1. t[3] \in 1 .. u[3] - 1
      BY <1>2, <1>3
    <2>2. trace[<<u[1], u[2], t[3]>>].status # "absent"
      BY <2>1 DEF IsNext
    <2> QED
      BY <1>1, <2>2 DEF IsNext
  <1>4. ASSUME u[3] < t[3] PROVE FALSE
    <2>1. u[3] \in 1 .. t[3] - 1
      BY <1>2, <1>4
    <2>2. trace[<<t[1], t[2], u[3]>>].status # "absent"
      BY <2>1 DEF IsNext
    <2> QED
      BY <1>1, <2>2 DEF IsNext
  <1>5. t[3] = u[3]
    BY <1>2, <1>3, <1>4
  <1> QED
    BY <1>1, <1>5

\* The batch insert: whoever is minted was not fenced, and once per recipient.
LEMMA BatchFenced ==
    ASSUME TypeInv, MintFence, NEW m, NEW F, \A p \in F : ~Fenced(m, p),
           Mint(Slots(m, F), "outgoing")
    PROVE  MintFence'
  <1> SUFFICES ASSUME NEW t \in Trace, NEW u \in Trace, Active(t)', Active(u)',
                      t[1] = u[1], t[2] = u[2]
               PROVE  t = u
    BY DEF MintFence
  <1> DEFINE new == Slots(m, F)
  <1>1. \A v \in Trace : Active(v)' => v \in new \/ Active(v)
    BY DEF Mint, Active
  <1>2. \A v \in new, x \in Trace : v[1] = x[1] /\ v[2] = x[2] => ~Active(x)
    BY DEF Slots, Fenced
  <1>3. \A v \in new : v \in Trace /\ IsNext(v)
    BY DEF Slots
  <1> HIDE DEF new
  <1>4. CASE t \in new /\ u \in new
    BY <1>3, <1>4, NextIsUnique
  <1>5. CASE t \notin new /\ u \notin new
    BY <1>1, <1>5 DEF MintFence
  <1> QED
    BY <1>1, <1>2, <1>4, <1>5

LEMMA CancelFenced ==
    ASSUME TypeInv, MintFence, NEW new, Mint(new, "cancel")
    PROVE  MintFence'
  <1>1. \A t \in Trace : RowActive(trace'[t]) => RowActive(trace[t])
    BY DEF Mint, FreshTrace, RowActive
  <1> QED
    BY <1>1, FenceKept

LEMMA EnqueueErrFenced ==
    ASSUME TypeInv, MintFence, NEW w \in Worker, NEW t, EnqueueErr(w, t)
    PROVE  MintFence'
  <1>1. trace \in [Trace -> TraceRow]
    BY DEF TypeInv, TypeOK
  <1>2. \A u \in Trace : RowActive(trace'[u]) => RowActive(trace[u])
    BY <1>1, StatementsReviveNothing DEF EnqueueErr
  <1> QED
    BY <1>2, FenceKept

LEMMA StepFenced ==
    ASSUME TypeInv, MintFence, NEW w \in Worker, Step(w)
    PROVE  MintFence'
  <1>0. trace \in [Trace -> TraceRow]
    BY DEF TypeInv, TypeOK
  <1>1. CASE \/ ClaimNothing(w) \/ (\E m \in Mailing : Drive(w, m)) \/ DrivesDone(w)
             \/ DriveFails(w) \/ FinishEmpty(w) \/ Probe(w) \/ Finish(w)
             \/ (\E t \in Trace : Post(w, t))
    BY <1>1, FenceUnchanged DEF ClaimNothing, Drive, DrivesDone, DriveFails, FinishEmpty,
                                Probe, Finish, Post
  <1>2. ASSUME NEW p \in Recipient, MintCancel(w, p)
        PROVE  MintFence'
    BY <1>2, CancelFenced DEF MintCancel
  <1>3. CASE MintBatch(w)
    <2> DEFINE m == worker[w].job
    <2>1. PICK batch \in SUBSET worker[w].work :
            Mint(Slots(m, {p \in batch : ~Fenced(m, p)}), "outgoing")
      BY <1>3 DEF MintBatch
    <2>2. \A p \in {p \in batch : ~Fenced(m, p)} : ~Fenced(m, p)
      OBVIOUS
    <2> QED
      BY <2>1, <2>2, BatchFenced
  <1>4. CASE Attach(w)
    <2>1. \A t \in Trace : RowActive(trace'[t]) => RowActive(trace[t])
      BY <1>0, <1>4, StatementsReviveNothing DEF Attach
    <2> QED
      BY <2>1, FenceKept
  <1>5. CASE (\E t \in Trace : PostRefused(w, t)) \/ AttachFails(w)
    BY <1>5, EnqueueErrFenced DEF PostRefused, AttachFails
  <1>6. CASE Reconcile(w)
    <2>1. \A t \in Trace : RowActive(Reconciled(t)) => RowActive(trace[t])
      BY <1>0, StatementsReviveNothing DEF Reconciled
    <2>2. \A t \in Trace : RowActive(trace'[t]) => RowActive(trace[t])
      BY <1>6, <2>1 DEF Reconcile
    <2> QED
      BY <2>2, FenceKept
  <1> QED
    BY <1>1, <1>2, <1>3, <1>4, <1>5, <1>6 DEF Step

LEMMA OthersFenced ==
    ASSUME TypeInv, MintFence,
           \/ \E m \in Mailing : Operator(m)
           \/ Outside
           \/ \E w \in Worker, S \in SUBSET Mailing : Claim(w, S)
           \/ \E w \in Worker : Crash(w)
    PROVE  MintFence'
  <1>0. trace \in [Trace -> TraceRow]
    BY DEF TypeInv, TypeOK
  <1>1. ASSUME NEW m \in Mailing, Operator(m)
        PROVE  MintFence'
    <2>1. CASE RetryFailed(m)
      <3>1. \A t \in Trace : RowActive(trace'[t]) => RowActive(trace[t])
        BY <1>0, <2>1 DEF RetryFailed, RowActive, TraceRow
      <3> QED
        BY <3>1, FenceKept
    <2> QED
      BY <1>1, <2>1, FenceUnchanged DEF Operator, Launch, Cancel, Requeue
  <1>2. CASE Outside
    <2>1. ASSUME NEW t \in Trace, Age(t)
          PROVE  MintFence'
      <3>1. \A u \in Trace : RowActive(trace'[u]) => RowActive(trace[u])
        BY <1>0, <2>1 DEF Age, RowActive, TraceRow
      <3> QED
        BY <3>1, FenceKept
    <2>2. ASSUME NEW t \in Trace, Tracked(t)
          PROVE  MintFence'
      <3>1. PICK fact \in {"open", "reply", "bounce"} :
              trace' = [trace EXCEPT ![t] = CASE fact = "open"   -> SetOpened(@)
                                              [] fact = "reply"  -> SetReplied(@)
                                              [] fact = "bounce" -> SetBounced(@)]
        BY <2>2, ScenarioAssumption DEF Tracked
      <3>2. \A u \in Trace : RowActive(trace'[u]) => RowActive(trace[u])
        BY <1>0, <3>1, StatementsReviveNothing
      <3> QED
        BY <3>2, FenceKept
    <2> QED
      BY <1>2, <2>1, <2>2, FenceUnchanged
      DEF Outside, ComesDue, Settle, OptOut, Resubscribe, Blacklist
  <1>3. CASE \/ \E w \in Worker, S \in SUBSET Mailing : Claim(w, S)
             \/ \E w \in Worker : Crash(w)
    BY <1>3, FenceUnchanged DEF Claim, Crash
  <1> QED
    BY <1>1, <1>2, <1>3

\* No two live traces of one recipient of one mailing other than cancel traces,
\* for any number of workers that overlap, crash and repeat each other's work.
\* The fence is inductive with the types alone: nothing is assumed of the claims.
THEOREM MintFenceHolds == Spec => []MintFence
  <1>1. Init => TypeInv /\ MintFence
    BY InitTyped DEF Init, MintFence, Active, NoTrace
  <1>2. TypeInv /\ MintFence /\ [Next]_vars => (TypeInv /\ MintFence)'
    <2> SUFFICES ASSUME TypeInv, MintFence, [Next]_vars PROVE MintFence'
      BY NextTyped
    <2>1. CASE UNCHANGED vars
      BY <2>1, FenceUnchanged DEF vars
    <2> QED
      BY <2>1, StepFenced, OthersFenced DEF Next
  <1> QED
    BY <1>1, <1>2, PTL DEF Spec

=============================================================================
