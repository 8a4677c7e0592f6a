--------------------------- MODULE SendEngineApart ---------------------------
(***************************************************************************)
(* What the engine guarantees while its sweeps work apart, no two of them  *)
(* holding the same mailing at one time: what a done mailing has settled,  *)
(* that a first disposition stays the only one, and that shared addresses  *)
(* and, of sweeps that do not even hold variants of one campaign, campaign *)
(* siblings are mailed once.  A lone worker, as one job runner without     *)
(* overlap is, always works apart.  It rests on nobody else acting on a    *)
(* mailing between a probe and the inserts that follow from it; only where *)
(* nothing is retried, a done mailing has lost nobody to an overlap.       *)
(***************************************************************************)
EXTENDS SendEngineSafety, FiniteSetTheorems

OneWorker == \A v, w \in Worker : v = w

\* A lone worker works apart from nobody.
LEMMA AloneIsApart ==
    ASSUME OneWorker
    PROVE  [](ClaimsDisjoint /\ CampaignsDisjoint)
  <1>1. ClaimsDisjoint /\ CampaignsDisjoint
    BY DEF OneWorker, ClaimsDisjoint, CampaignsDisjoint
  <1> QED
    BY <1>1, PTL

\* A retry hides no send that a sibling's walk has counted.
RetryIsLocal == "retry" \in Verbs => \A m \in Mailing : Peers[m] = {m}

Driving(r) == r.pc \in {"repair", "relink", "walk", "link"}

\* The probe's decisions are being carried out.
Walking(r) == r.pc \in {"walk", "link"}

-----------------------------------------------------------------------------
(* What a step may do to the rows and to a walk. *)

\* A statement on a row neither hides it, nor mints, cancels or orphans it.
RowKept(old, new) ==
    /\ new.live = old.live
    /\ new.status = old.status \/ (SendRow(old) /\ SendRow(new))
    /\ OrphanRow(new) => OrphanRow(old)

\* A retry of the done mailing hides a failed trace.
Hidden(t) ==
    /\ "retry" \in Verbs
    /\ mailing[t[1]].state = "done"
    /\ mailing'[t[1]].state # "done"
    /\ trace[t].status = "error" /\ trace'[t].status = "error"
    /\ ~trace'[t].live

SameWalk(r, s) ==
    /\ Walking(r) /\ Walking(s)
    /\ s.job = r.job /\ s.cancels = r.cancels /\ s.work = r.work /\ s.more = r.more

\* A step that mints nothing and decides nothing.
Quiet ==
    /\ \A t \in Trace : RowKept(trace[t], trace'[t]) \/ Hidden(t)
    /\ \A w \in Worker : ~Walking(worker'[w]) \/ SameWalk(worker[w], worker'[w])

LEMMA VerbsKeepRows ==
    ASSUME NEW row \in TraceRow
    PROVE  /\ RowKept(row, SetSent(row)) /\ RowKept(row, SetOpened(row))
           /\ RowKept(row, SetReplied(row)) /\ RowKept(row, SetBounced(row))
           /\ RowKept(row, SetFailed(row)) /\ RowKept(row, row)
           /\ \A k \in Nat \ {0} : RowKept(row, Attached(row, k))
  BY DEF TraceRow, RowKept, SendRow, OrphanRow, SetSent, SetOpened, SetReplied, SetBounced,
         SetFailed, Moved, Attached

LEMMA QuietOutside ==
    ASSUME TypeInv, (\E m \in Mailing : Operator(m)) \/ Outside
    PROVE  Quiet
  <1>0. /\ trace \in [Trace -> TraceRow] /\ mailing \in [Mailing -> MailingRow]
        /\ worker' = worker
    BY DEF TypeInv, TypeOK, Operator, Launch, Cancel, Requeue, RetryFailed, Outside,
           ComesDue, Age, Settle, Tracked, OptOut, Resubscribe, Blacklist
  <1>1. \A w \in Worker : ~Walking(worker'[w]) \/ SameWalk(worker[w], worker'[w])
    BY <1>0 DEF SameWalk
  <1>2. ASSUME NEW m \in Mailing, RetryFailed(m)
        PROVE  \A t \in Trace : RowKept(trace[t], trace'[t]) \/ Hidden(t)
    <2>1. mailing[m].state = "done" /\ mailing'[m].state # "done" /\ "retry" \in Verbs
      BY <1>0, <1>2 DEF RetryFailed, Requeued, MailingRow
    <2>2. ASSUME NEW t \in Trace
          PROVE  RowKept(trace[t], trace'[t]) \/ Hidden(t)
      <3>1. CASE t \in FailedTraces(m)
        <4>1. /\ trace'[t] = [trace[t] EXCEPT !.live = FALSE]
              /\ t[1] = m /\ trace[t].status = "error"
          BY <1>2, <3>1 DEF RetryFailed, FailedTraces
        <4> QED
          BY <1>0, <2>1, <4>1 DEF Hidden, TraceRow
      <3>2. CASE t \notin FailedTraces(m)
        <4>1. trace'[t] = trace[t]
          BY <1>2, <3>2 DEF RetryFailed
        <4> QED
          BY <1>0, <4>1, VerbsKeepRows
      <3> QED
        BY <3>1, <3>2
    <2> QED
      BY <2>2
  <1>3. ASSUME NEW t \in Trace, Age(t)
        PROVE  \A u \in Trace : RowKept(trace[u], trace'[u])
    BY <1>0, <1>3 DEF Age, RowKept, OrphanRow, TraceRow
  <1>4. ASSUME NEW t \in Trace, Tracked(t)
        PROVE  \A u \in Trace : RowKept(trace[u], trace'[u])
    <2>1. PICK fact \in {"open", "reply", "bounce"} :
            trace' = [trace EXCEPT ![t] = CASE fact = "open"   -> SetOpened(@)
                                            [] fact = "reply"  -> SetReplied(@)
                                            [] fact = "bounce" -> SetBounced(@)]
      BY <1>4, ScenarioAssumption DEF Tracked
    <2> QED
      BY <1>0, <2>1, VerbsKeepRows
  <1>5. CASE trace' = trace
    BY <1>0, <1>1, <1>5, VerbsKeepRows DEF Quiet
  <1> QED
    BY <1>1, <1>2, <1>3, <1>4, <1>5
    DEF Quiet, Operator, Launch, Cancel, Requeue, Outside, ComesDue, Settle, OptOut,
        Resubscribe, Blacklist

\* Once the worker's own row is quiet, so is the step: the others stand.
LEMMA QuietWorker ==
    ASSUME TypeInv, NEW w \in Worker,
           \A v \in Worker : v # w => worker'[v] = worker[v],
           ~Walking(worker'[w]) \/ SameWalk(worker[w], worker'[w]),
           \A t \in Trace : RowKept(trace[t], trace'[t])
    PROVE  Quiet
  BY DEF Quiet, SameWalk

\* The hand moves on without the walk's decisions changing.
LEMMA HandOnSameWalk ==
    ASSUME TypeInv, NEW w \in Worker, NEW t, HandOn(w, t),
           worker[w].pc \in {"repair", "relink", "walk", "link"}
    PROVE  /\ worker'[w].pc = IF Walking(worker[w]) THEN "walk" ELSE "repair"
           /\ worker'[w].job = worker[w].job /\ worker'[w].claims = worker[w].claims
           /\ worker'[w].hand = worker[w].hand \ {t}
           /\ ~Walking(worker'[w]) \/ SameWalk(worker[w], worker'[w])
           /\ \A v \in Worker : v # w => worker'[v] = worker[v]
  BY DEF HandOn, TypeInv, TypeOK, WorkerRow, Walking, SameWalk

\* Between drives a worker walks nowhere.
LEMMA QuietIdle ==
    ASSUME TypeInv, NEW w \in Worker,
           \/ \E S \in SUBSET Mailing : Claim(w, S)
           \/ ClaimNothing(w) \/ (\E m \in Mailing : Drive(w, m)) \/ DrivesDone(w)
           \/ DriveFails(w) \/ FinishEmpty(w) \/ Finish(w) \/ Crash(w)
    PROVE  /\ Quiet /\ trace' = trace
           /\ worker'[w].pc \in {"idle", "drive", "repair", "reconcile"}
           /\ \A v \in Worker : v # w => worker'[v] = worker[v]
  <1> DEFINE r == worker[w]
  <1>0. /\ worker \in [Worker -> WorkerRow] /\ r \in WorkerRow
        /\ trace \in [Trace -> TraceRow]
    BY DEF TypeInv, TypeOK
  <1>1. /\ trace' = trace
        /\ \A v \in Worker : v # w => worker'[v] = worker[v]
    BY <1>0 DEF Claim, ClaimNothing, Drive, DrivesDone, DriveFails, FinishEmpty, Finish, Crash
  <1>2. worker'[w].pc \in {"idle", "drive", "repair", "reconcile"}
    <2>1. ASSUME NEW S \in SUBSET Mailing, Claim(w, S)
          PROVE  worker'[w].pc = "drive"
      <3>1. PICK c : worker' = [worker EXCEPT ![w] =
                                  [Asleep EXCEPT !.pc = "drive", !.claims = c]]
        BY <2>1 DEF Claim
      <3> QED
        BY <1>0, <3>1 DEF Asleep
    <2>2. ASSUME ClaimNothing(w) \/ DrivesDone(w)
          PROVE  worker'[w].pc \in {"drive", "reconcile"}
      BY <1>0, <2>2 DEF ClaimNothing, DrivesDone, WorkerRow
    <2>3. ASSUME NEW m \in Mailing, Drive(w, m)
          PROVE  worker'[w].pc = "repair"
      BY <1>0, <2>3 DEF Drive, WorkerRow
    <2>4. ASSUME DriveFails(w) \/ FinishEmpty(w) \/ Finish(w) \/ Crash(w)
          PROVE  worker'[w].pc \in {"idle", "drive"}
      <3>1. worker'[w] = NextDrive(w) \/ worker'[w] = Asleep
        BY <1>0, <2>4 DEF DriveFails, FinishEmpty, Finish, Crash
      <3>2. NextDrive(w).pc = "drive"
        BY DEF NextDrive, Asleep
      <3>3. Asleep.pc = "idle"
        BY DEF Asleep
      <3> QED
        BY <3>1, <3>2, <3>3
    <2> QED
      BY <2>1, <2>2, <2>3, <2>4
  <1>3. \A t \in Trace : RowKept(trace[t], trace'[t])
    BY <1>0, <1>1, VerbsKeepRows
  <1>4. ~Walking(worker'[w])
    BY <1>2 DEF Walking
  <1> QED
    BY <1>1, <1>2, <1>3, <1>4, QuietWorker

\* Enqueueing, linking and refusing carry a walk on.
LEMMA QuietHand ==
    ASSUME TypeInv, NEW w \in Worker,
           \/ \E t \in Trace : Post(w, t)
           \/ Attach(w)
           \/ \E t \in Trace : PostRefused(w, t)
           \/ AttachFails(w)
           \/ Reconcile(w)
    PROVE  Quiet
  <1> DEFINE r == worker[w]
  <1>0. /\ worker \in [Worker -> WorkerRow] /\ r \in WorkerRow /\ EngagedRow(r)
        /\ trace \in [Trace -> TraceRow]
    BY DEF TypeInv, TypeOK, Engaged
  <1>1. ASSUME NEW t \in Trace, Post(w, t)
        PROVE  Quiet
    <2>1. /\ worker'[w].pc = IF r.pc = "walk" THEN "link" ELSE "relink"
          /\ worker'[w].job = r.job /\ worker'[w].cancels = r.cancels
          /\ worker'[w].work = r.work /\ worker'[w].more = r.more
          /\ \A v \in Worker : v # w => worker'[v] = worker[v]
      BY <1>0, <1>1 DEF Post, WorkerRow
    <2>2. \A u \in Trace : RowKept(trace[u], trace'[u])
      BY <1>0, <1>1, VerbsKeepRows DEF Post
    <2> QED
      BY <2>1, <2>2, QuietWorker DEF Walking, SameWalk
  <1>2. CASE Attach(w)
    <2>1. r.pc \in {"relink", "link"} /\ r.post \in Trace /\ r.row \in Nat \ {0}
      BY <1>0, <1>2 DEF Attach, EngagedRow
    <2>2. \A u \in Trace : RowKept(trace[u], trace'[u])
      BY <1>0, <1>2, <2>1, VerbsKeepRows DEF Attach
    <2> QED
      BY <1>2, <2>1, <2>2, HandOnSameWalk, QuietWorker DEF Attach
  <1>3. ASSUME NEW t, EnqueueErr(w, t), r.pc \in {"repair", "relink", "walk", "link"}
        PROVE  Quiet
    <2>1. \A u \in Trace : RowKept(trace[u], trace'[u])
      BY <1>0, <1>3, VerbsKeepRows DEF EnqueueErr
    <2> QED
      BY <1>3, <2>1, HandOnSameWalk, QuietWorker DEF EnqueueErr
  <1>4. CASE Reconcile(w)
    <2>1. \A u \in Trace : RowKept(trace[u], Reconciled(u))
      BY <1>0, VerbsKeepRows DEF Reconciled
    <2>2. \A u \in Trace : RowKept(trace[u], trace'[u])
      BY <1>4, <2>1 DEF Reconcile
    <2>3. ~Walking(worker'[w]) /\ \A v \in Worker : v # w => worker'[v] = worker[v]
      BY <1>0, <1>4 DEF Reconcile, Asleep, Walking
    <2> QED
      BY <2>2, <2>3, QuietWorker
  <1> QED
    BY <1>1, <1>2, <1>3, <1>4 DEF PostRefused, AttachFails

Unseen(m) == {p \in Audience[m] : ~SeenActive(m, p) /\ ~SuppressedHere(m, p)}

\* What the probe decides.
LEMMA ProbeEffect ==
    ASSUME TypeInv, NEW w \in Worker, Probe(w)
    PROVE  LET m == worker[w].job
               s == worker'[w]
           IN  /\ s.pc = "walk" /\ s.job = m /\ s.hand = {} /\ s.claims = worker[w].claims
               /\ \E first \in FirstOfEach(Audience[m]) :
                    s.cancels = {p \in Unseen(m) : p \notin first \/ Suppressed(m, EmailOf[p])}
               /\ s.work \subseteq (Unseen(m) \ s.cancels) \cap Sample[m]
               /\ s.more \/ s.work = (Unseen(m) \ s.cancels) \cap Sample[m]
               /\ mailing' = mailing /\ trace' = trace
  <1> DEFINE r == worker[w]
             m == r.job
             cancels(F) == {p \in Unseen(m) : p \notin F \/ Suppressed(m, EmailOf[p])}
             send(F) == (Unseen(m) \ cancels(F)) \cap Sample[m]
  <1>0. worker \in [Worker -> WorkerRow] /\ r \in WorkerRow /\ r.pc = "repair" /\ r.hand = {}
    BY DEF TypeInv, TypeOK, Probe
  <1>1. PICK F \in FirstOfEach(Audience[m]) : \E work \in SUBSET send(F) :
          worker' = [worker EXCEPT ![w].pc = "walk", ![w].cancels = cancels(F),
                                   ![w].work = work, ![w].more = work # send(F)]
    BY DEF Probe, Unseen
  <1> HIDE DEF cancels, send
  <1>2. PICK work \in SUBSET send(F) :
          worker' = [worker EXCEPT ![w].pc = "walk", ![w].cancels = cancels(F),
                                   ![w].work = work, ![w].more = work # send(F)]
    BY <1>1
  <1>3. /\ worker'[w].pc = "walk" /\ worker'[w].job = m /\ worker'[w].hand = {}
        /\ worker'[w].cancels = cancels(F) /\ worker'[w].work = work
        /\ worker'[w].more = (work # send(F)) /\ worker'[w].claims = r.claims
    BY <1>0, <1>2 DEF WorkerRow
  <1>4. send(F) = (Unseen(m) \ worker'[w].cancels) \cap Sample[m]
    BY <1>3 DEF send
  <1> QED
    BY <1>3, <1>4 DEF Probe, cancels

\* A visible cancel: the recipient leaves the walk with a fresh cancel trace.
LEMMA MintCancelEffect ==
    ASSUME TypeInv, NEW w \in Worker, NEW p \in Recipient, MintCancel(w, p)
    PROVE  LET r == worker[w]
               s == worker'[w]
           IN  /\ r.pc = "walk" /\ s.pc = "walk" /\ s.job = r.job /\ s.claims = r.claims
               /\ s.hand = r.hand /\ s.work = r.work /\ s.more = r.more
               /\ p \in r.cancels /\ s.cancels = r.cancels \ {p}
               /\ HasSlots(r.job, {p}) /\ Mint(Slots(r.job, {p}), "cancel")
               /\ mailing' = mailing
  BY DEF MintCancel, TypeInv, TypeOK, WorkerRow

\* A batch: it leaves the work, and whoever is not fenced gets a fresh trace.
LEMMA MintBatchEffect ==
    ASSUME TypeInv, NEW w \in Worker, MintBatch(w)
    PROVE  LET r == worker[w]
               s == worker'[w]
           IN  /\ r.pc = "walk" /\ s.pc = "walk" /\ s.job = r.job /\ s.claims = r.claims
               /\ s.more = r.more /\ r.cancels = {} /\ s.cancels = {}
               /\ mailing' = mailing
               /\ \E batch \in SUBSET r.work :
                    LET free == {p \in batch : ~Fenced(r.job, p)}
                    IN  /\ s.work = r.work \ batch
                        /\ s.hand = Slots(r.job, free)
                        /\ HasSlots(r.job, free)
                        /\ Mint(Slots(r.job, free), "outgoing")
  <1> DEFINE r == worker[w]
  <1>0. worker \in [Worker -> WorkerRow] /\ r \in WorkerRow
    BY DEF TypeInv, TypeOK
  <1> DEFINE free(b) == {p \in b : ~Fenced(r.job, p)}
  <1>1. PICK batch \in SUBSET r.work :
          /\ HasSlots(r.job, free(batch))
          /\ Mint(Slots(r.job, free(batch)), "outgoing")
          /\ worker' = [worker EXCEPT ![w].work = @ \ batch,
                                      ![w].hand = Slots(r.job, free(batch))]
    BY DEF MintBatch
  <1> HIDE DEF free
  <1>2. /\ worker'[w].pc = r.pc /\ worker'[w].job = r.job /\ worker'[w].claims = r.claims
        /\ worker'[w].more = r.more /\ worker'[w].cancels = r.cancels
        /\ worker'[w].work = r.work \ batch
        /\ worker'[w].hand = Slots(r.job, free(batch))
    BY <1>0, <1>1 DEF WorkerRow
  <1>3. r.pc = "walk" /\ r.cancels = {} /\ mailing' = mailing
    BY DEF MintBatch
  <1> QED
    BY <1>1, <1>2, <1>3 DEF free

\* Whoever has a slot gets a row of the mailing.
LEMMA SlotMinted ==
    ASSUME NEW m, NEW F, HasSlots(m, F), NEW status, Mint(Slots(m, F), status), NEW p \in F
    PROVE  \E t \in Trace : /\ t[1] = m /\ t[2] = p /\ t \in Slots(m, F)
                            /\ trace'[t] = FreshTrace(status)
  <1>1. PICK t : t \in Slots(m, {p})
    BY DEF HasSlots
  <1>2. t \in Trace /\ t[1] = m /\ t[2] = p /\ t \in Slots(m, F)
    BY <1>1 DEF Slots
  <1> QED
    BY <1>2 DEF Mint

\* Every step is quiet but the probe and the two inserts.
LEMMA QuietOrWalks ==
    ASSUME TypeInv, [Next]_vars
    PROVE  \/ Quiet
           \/ \E w \in Worker : Probe(w) \/ (\E p \in Recipient : MintCancel(w, p)) \/ MintBatch(w)
  <1>1. CASE UNCHANGED vars
    <2>1. \A t \in Trace : RowKept(trace[t], trace'[t])
      BY <1>1, VerbsKeepRows DEF vars, TypeInv, TypeOK
    <2>2. worker' = worker
      BY <1>1 DEF vars
    <2> QED
      BY <2>1, <2>2 DEF Quiet, SameWalk
  <1>2. ASSUME NEW w \in Worker,
               Step(w) \/ Crash(w) \/ \E S \in SUBSET Mailing : Claim(w, S)
        PROVE  Quiet \/ Probe(w) \/ (\E p \in Recipient : MintCancel(w, p)) \/ MintBatch(w)
    BY <1>2, QuietIdle, QuietHand DEF Step
  <1> QED
    BY <1>1, <1>2, QuietOutside DEF Next

-----------------------------------------------------------------------------
(* A mailing is completed only by the worker that drives it, so that no mailing is
   done that a worker holds.  *)

UndoneRow(r) ==
    /\ r.pc \in {"idle", "reconcile"} => r.claims = {}
    /\ Driving(r) => r.job \notin r.claims
    /\ \A m \in r.claims : mailing[m].state # "done"
    /\ Driving(r) => mailing[r.job].state # "done"

Undone == \A w \in Worker : UndoneRow(worker[w])

\* No statement but the two completions makes a mailing done.
LEMMA OnlyCompletionsFinish ==
    ASSUME NEW row \in MailingRow, NEW later
    PROVE  /\ Launched(row, later).state = "done" => row.state = "done"
           /\ Canceled(row).state = "done" => row.state = "done"
           /\ Unparked(row).state = "done" => row.state = "done"
           /\ Requeued(row).state # "done"
           /\ Flipped(row).state = "done" => row.state = "done"
           /\ Parked(row).state = "done" => row.state = "done"
  BY DEF MailingRow, MailingState, Launched, Canceled, Unparked, Requeued, Flipped, Parked

LEMMA OperatorsFinishNothing ==
    ASSUME TypeInv, (\E m \in Mailing : Operator(m)) \/ Outside
    PROVE  \A m \in Mailing : mailing'[m].state = "done" => mailing[m].state = "done"
  <1>0. mailing \in [Mailing -> MailingRow]
    BY DEF TypeInv, TypeOK
  <1>1. ASSUME NEW m \in Mailing, Launch(m)
        PROVE  \A n \in Mailing : mailing'[n].state = "done" => mailing[n].state = "done"
    BY <1>0, <1>1, OnlyCompletionsFinish DEF Launch
  <1>2. ASSUME NEW m \in Mailing, Cancel(m)
        PROVE  \A n \in Mailing : mailing'[n].state = "done" => mailing[n].state = "done"
    BY <1>0, <1>2, OnlyCompletionsFinish DEF Cancel
  <1>3. ASSUME NEW m \in Mailing, Requeue(m)
        PROVE  \A n \in Mailing : mailing'[n].state = "done" => mailing[n].state = "done"
    BY <1>0, <1>3, OnlyCompletionsFinish DEF Requeue
  <1>4. ASSUME NEW m \in Mailing, RetryFailed(m)
        PROVE  \A n \in Mailing : mailing'[n].state = "done" => mailing[n].state = "done"
    BY <1>0, <1>4, OnlyCompletionsFinish DEF RetryFailed
  <1>5. ASSUME NEW m \in Mailing, ComesDue(m)
        PROVE  \A n \in Mailing : mailing'[n].state = "done" => mailing[n].state = "done"
    BY <1>0, <1>5 DEF ComesDue, MailingRow
  <1>6. CASE mailing' = mailing
    BY <1>6
  <1> QED
    BY <1>1, <1>2, <1>3, <1>4, <1>5, <1>6
    DEF Operator, Outside, Age, Tracked, Settle, OptOut, Resubscribe, Blacklist

\* Without a worker's step.
LEMMA UndoneOutside ==
    ASSUME TypeInv, Undone, UNCHANGED worker,
           \A m \in Mailing : mailing'[m].state = "done" => mailing[m].state = "done"
    PROVE  Undone'
  <1>1. ASSUME NEW w \in Worker
        PROVE  UndoneRow(worker[w])'
    <2>1. /\ worker[w].claims \subseteq Mailing
          /\ Driving(worker[w]) => worker[w].job \in Mailing
      BY DEF TypeInv, TypeOK, WorkerRow, Engaged, EngagedRow, Driving
    <2> QED
      BY <2>1 DEF Undone, UndoneRow, Driving
  <1> QED
    BY <1>1 DEF Undone

\* A driven mailing is not in another worker's hold.
LEMMA DrivenApart ==
    ASSUME TypeInv, ClaimsDisjoint, NEW v \in Worker, NEW w \in Worker, v # w,
           Driving(worker[w])
    PROVE  /\ worker[w].job \in Mailing
           /\ worker[w].job \notin worker[v].claims
           /\ Driving(worker[v]) => worker[w].job # worker[v].job
  <1>1. worker[w].job \in Mailing
    BY DEF TypeInv, Engaged, EngagedRow, Driving
  <1>2. worker[w].job \in Held(w)
    BY <1>1, NullAssumption DEF Held
  <1>3. worker[w].job \notin Held(v)
    BY <1>2 DEF ClaimsDisjoint
  <1> QED
    BY <1>1, <1>3, NullAssumption DEF Held

\* A step that completes at most the mailing its worker drives: only the worker's
\* own row is in question.
LEMMA UndoneStep ==
    ASSUME TypeInv, Undone, ClaimsDisjoint, NEW w \in Worker, UndoneRow(worker[w])',
           \A v \in Worker : v # w => worker'[v] = worker[v],
           \A m \in Mailing : mailing'[m].state = "done" =>
                mailing[m].state = "done" \/ (Driving(worker[w]) /\ m = worker[w].job)
    PROVE  Undone'
  <1>1. ASSUME NEW v \in Worker, v # w
        PROVE  UndoneRow(worker[v])'
    <2>1. /\ worker'[v] = worker[v] /\ UndoneRow(worker[v])
          /\ worker[v].claims \subseteq Mailing
          /\ Driving(worker[v]) => worker[v].job \in Mailing
      BY <1>1 DEF Undone, TypeInv, TypeOK, WorkerRow, Engaged, EngagedRow, Driving
    <2>2. Driving(worker[w]) =>
            /\ worker[w].job \notin worker[v].claims
            /\ Driving(worker[v]) => worker[w].job # worker[v].job
      BY <1>1, DrivenApart
    <2>3. \A m \in worker[v].claims : mailing'[m].state # "done"
      BY <2>1, <2>2 DEF UndoneRow
    <2>4. Driving(worker[v]) => mailing'[worker[v].job].state # "done"
      BY <2>1, <2>2 DEF UndoneRow
    <2> QED
      BY <2>1, <2>3, <2>4 DEF UndoneRow, Driving
  <1> QED
    BY <1>1 DEF Undone

LEMMA UndoneClaim ==
    ASSUME TypeInv, Undone, ClaimsDisjoint, NEW w \in Worker, NEW S \in SUBSET Mailing,
           Claim(w, S)
    PROVE  Undone'
  <1>1. PICK unparsed \in SUBSET (S \cap Fragile) :
            /\ mailing' = [m \in Mailing |->
                             IF m \in unparsed THEN Parked(mailing[m])
                             ELSE IF m \in S THEN Flipped(mailing[m]) ELSE mailing[m]]
            /\ worker' = [worker EXCEPT ![w] =
                             [Asleep EXCEPT !.pc = "drive", !.claims = S \ unparsed]]
    BY DEF Claim
  <1>2. worker'[w].pc = "drive" /\ worker'[w].claims = S \ unparsed
    BY <1>1 DEF Asleep, TypeInv, TypeOK
  <1>3. ASSUME NEW m \in S \ unparsed
        PROVE  mailing'[m].state # "done"
    <2>1. Due(m) /\ mailing[m] \in MailingRow /\ mailing'[m] = Flipped(mailing[m])
      BY <1>1 DEF Claim, TypeInv, TypeOK
    <2>2. mailing[m].state # "done"
      BY <2>1 DEF Due
    <2> QED
      BY <2>1, <2>2, OnlyCompletionsFinish
  <1>4. UndoneRow(worker[w])'
    BY <1>2, <1>3 DEF UndoneRow, Driving
  <1>5. \A m \in Mailing : mailing'[m].state = "done" => mailing[m].state = "done"
    <2>1. \A m \in Mailing : /\ mailing[m] \in MailingRow
                             /\ mailing'[m] \in {mailing[m], Flipped(mailing[m]), Parked(mailing[m])}
      BY <1>1 DEF TypeInv, TypeOK
    <2> QED
      BY <2>1, OnlyCompletionsFinish
  <1> QED
    BY <1>4, <1>5, OthersStand, UndoneStep

\* A drive's end changes the driven mailing, which is not among the claims.
LEMMA UndoneEnd ==
    ASSUME TypeInv, Undone, ClaimsDisjoint, NEW w \in Worker,
           DriveFails(w) \/ FinishEmpty(w) \/ Finish(w)
    PROVE  Undone'
  <1> DEFINE r == worker[w]
  <1>1. /\ worker \in [Worker -> WorkerRow] /\ r \in WorkerRow /\ UndoneRow(r)
        /\ mailing \in [Mailing -> MailingRow]
    BY DEF TypeInv, TypeOK, Undone
  <1>2. Driving(r) /\ worker'[w] = NextDrive(w)
    BY <1>1 DEF DriveFails, FinishEmpty, Finish, Driving
  <1>3. worker'[w].pc = "drive" /\ worker'[w].claims = r.claims
    BY <1>2 DEF NextDrive, Asleep
  <1>4. \A m \in Mailing : m # r.job => mailing'[m] = mailing[m]
    BY <1>1 DEF DriveFails, FinishEmpty, Finish
  <1>5. r.claims \subseteq Mailing
    BY <1>1 DEF WorkerRow
  <1>6. UndoneRow(worker[w])'
    BY <1>1, <1>2, <1>3, <1>4, <1>5 DEF UndoneRow, Driving
  <1>7. \A v \in Worker : v # w => worker'[v] = worker[v]
    BY OthersStand DEF Step
  <1> QED
    BY <1>2, <1>4, <1>6, <1>7, UndoneStep

\* A drive goes on: neither the mailings nor the worker's claim on them change.
LEMMA UndoneOn ==
    ASSUME TypeInv, Undone, ClaimsDisjoint, NEW w \in Worker, Step(w),
           mailing' = mailing, Driving(worker[w]), Driving(worker'[w]),
           worker'[w].job = worker[w].job, worker'[w].claims = worker[w].claims
    PROVE  Undone'
  <1>1. UndoneRow(worker[w])'
    BY DEF Undone, UndoneRow, Driving
  <1> QED
    BY <1>1, OthersStand, UndoneStep

LEMMA UndoneWorker ==
    ASSUME TypeInv, Undone, ClaimsDisjoint, NEW w \in Worker, Step(w) \/ Crash(w)
    PROVE  Undone'
  <1> DEFINE r == worker[w]
  <1>0. worker \in [Worker -> WorkerRow] /\ r \in WorkerRow /\ UndoneRow(r) /\ EngagedRow(r)
    BY DEF TypeInv, TypeOK, Undone, Engaged
  <1>14. \A v \in Worker : v # w => worker'[v] = worker[v]
    BY <1>0, OthersStand DEF Crash
  <1>1. CASE ClaimNothing(w)
    <2>1. worker'[w].pc = "drive" /\ worker'[w].claims = r.claims /\ r.claims = {}
      BY <1>0, <1>1 DEF ClaimNothing, WorkerRow, UndoneRow
    <2>2. UndoneRow(worker[w])'
      BY <2>1 DEF UndoneRow, Driving
    <2> QED
      BY <1>14, <1>1, <2>2, UndoneStep DEF ClaimNothing
  <1>2. ASSUME NEW m \in Mailing, Drive(w, m)
        PROVE  Undone'
    <2>1. /\ worker'[w].pc = "repair" /\ worker'[w].claims = r.claims \ {m}
          /\ worker'[w].job = m /\ m \in r.claims /\ mailing' = mailing
      BY <1>0, <1>2 DEF Drive, WorkerRow
    <2>2. UndoneRow(worker[w])'
      BY <1>0, <2>1 DEF UndoneRow, Driving
    <2> QED
      BY <1>14, <1>2, <2>2, UndoneStep DEF Drive
  <1>3. CASE DrivesDone(w)
    <2>1. worker'[w].pc = "reconcile" /\ worker'[w].claims = {}
      BY <1>0, <1>3 DEF DrivesDone, WorkerRow
    <2>2. UndoneRow(worker[w])'
      BY <2>1 DEF UndoneRow, Driving
    <2> QED
      BY <1>14, <1>3, <2>2, UndoneStep DEF DrivesDone
  <1>4. CASE Reconcile(w) \/ Crash(w)
    <2>1. worker'[w] = Asleep
      BY <1>0, <1>4 DEF Reconcile, Crash
    <2>2. UndoneRow(worker[w])'
      BY <2>1 DEF UndoneRow, Driving, Asleep
    <2> QED
      BY <1>14, <1>4, <2>2, UndoneStep DEF Reconcile, Crash
  <1>5. CASE Probe(w)
    BY <1>5, ProbeEffect, UndoneOn DEF Step, Driving, Probe
  <1>6. ASSUME NEW p \in Recipient, MintCancel(w, p)
        PROVE  Undone'
    BY <1>6, MintCancelEffect, UndoneOn DEF Step, Driving
  <1>7. CASE MintBatch(w)
    <2>1. /\ Driving(r) /\ Driving(worker'[w]) /\ mailing' = mailing
          /\ worker'[w].job = r.job /\ worker'[w].claims = r.claims
      BY <1>7, MintBatchEffect DEF Driving
    <2> QED
      BY <1>7, <2>1, UndoneOn DEF Step
  <1>8. ASSUME NEW t \in Trace, Post(w, t)
        PROVE  Undone'
    <2>1. /\ worker'[w].pc \in {"link", "relink"} /\ worker'[w].job = r.job
          /\ worker'[w].claims = r.claims
      BY <1>0, <1>8 DEF Post, WorkerRow
    <2>2. Driving(r) /\ mailing' = mailing
      BY <1>8 DEF Post, Driving
    <2> QED
      BY <1>8, <2>1, <2>2, UndoneOn DEF Step, Driving
  <1>9. ASSUME NEW t, HandOn(w, t), mailing' = mailing, Driving(r), Step(w)
        PROVE  Undone'
    <2>1. /\ worker'[w].pc \in {"walk", "repair"} /\ worker'[w].job = r.job
          /\ worker'[w].claims = r.claims
      BY <1>9, HandOnSameWalk DEF Driving
    <2> QED
      BY <1>9, <2>1, UndoneOn DEF Driving
  <1>10. CASE Attach(w)
    BY <1>9, <1>10 DEF Step, Attach, Driving
  <1>11. ASSUME NEW t \in Trace, PostRefused(w, t)
         PROVE  Undone'
    BY <1>9, <1>11 DEF Step, PostRefused, EnqueueErr, Driving
  <1>12. CASE AttachFails(w)
    BY <1>9, <1>12 DEF Step, AttachFails, EnqueueErr, Driving
  <1> QED
    BY <1>1, <1>2, <1>3, <1>4, <1>5, <1>6, <1>7, <1>8, <1>10, <1>11, <1>12, UndoneEnd
    DEF Step

LEMMA UndoneKept ==
    ASSUME TypeInv, Undone, ClaimsDisjoint, [Next]_vars
    PROVE  Undone'
  <1>1. CASE UNCHANGED vars
    BY <1>1, UndoneOutside DEF vars
  <1>2. CASE (\E m \in Mailing : Operator(m)) \/ Outside
    <2>1. worker' = worker
      BY <1>2 DEF Operator, Launch, Cancel, Requeue, RetryFailed, Outside,
           ComesDue, Age, Settle, Tracked, OptOut, Resubscribe, Blacklist
    <2> QED
      BY <1>2, <2>1, OperatorsFinishNothing, UndoneOutside
  <1> QED
    BY <1>1, <1>2, UndoneClaim, UndoneWorker DEF Next

LEMMA UndoneAtFirst == Init => Undone
  BY DEF Init, Undone, UndoneRow, Driving, Asleep

-----------------------------------------------------------------------------
(* Only rows that exist are live. *)

Present == \A t \in Trace : trace[t].live => trace[t].status # "absent"

LEMMA PresentKept ==
    ASSUME TypeInv, Present, [Next]_vars
    PROVE  Present'
  <1>1. CASE Quiet
    BY <1>1 DEF Quiet, Present, RowKept, Hidden, SendRow
  <1>2. ASSUME NEW w \in Worker,
               Probe(w) \/ (\E p \in Recipient : MintCancel(w, p)) \/ MintBatch(w)
        PROVE  Present'
    <2>1. CASE Probe(w)
      BY <2>1 DEF Probe, Present
    <2>2. ASSUME NEW new, NEW status \in {"outgoing", "cancel"}, Mint(new, status)
          PROVE  Present'
      BY <2>2 DEF Present, Mint, FreshTrace
    <2>3. ASSUME NEW p \in Recipient, MintCancel(w, p)
          PROVE  Present'
      BY <2>2, <2>3 DEF MintCancel
    <2>4. CASE MintBatch(w)
      <3>1. \E F : Mint(Slots(worker[w].job, F), "outgoing")
        BY <2>4, MintBatchEffect
      <3> QED
        BY <2>2, <3>1
    <2> QED
      BY <1>2, <2>1, <2>3, <2>4
  <1> QED
    BY <1>1, <1>2, QuietOrWalks

\* An insert overwrites no row that exists.
LEMMA MintSparesRows ==
    ASSUME NEW m, NEW F, NEW status, Mint(Slots(m, F), status),
           NEW t \in Trace, trace[t].status # "absent"
    PROVE  trace'[t] = trace[t]
  BY DEF Mint, Slots, IsNext

-----------------------------------------------------------------------------
(* Done means accounted. *)

\* A walk that will complete its mailing: whom it has not yet to cancel or to send
\* has been dealt with.
AccountingRow(r) ==
    Walking(r) /\ ~r.more =>
        \A p \in Audience[r.job] \cap Sample[r.job] :
            Accounted(r.job, p) \/ p \in r.cancels \cup r.work

(* The strengthening of DoneMeansAccounted, beside Unretried. *)
Accounting ==
    /\ DoneMeansAccounted
    /\ \A w \in Worker : AccountingRow(worker[w])

\* No retry undoes what a walk has counted: its mailing is not done, or there are no
\* retries.
Unretried ==
    "retry" \in Verbs =>
        \A w \in Worker : Walking(worker[w]) => mailing[worker[w].job].state # "done"

LEMMA UndoneIsUnretried ==
    ASSUME Undone
    PROVE  Unretried
  BY DEF Undone, UndoneRow, Unretried, Walking, Driving

\* What is accounted for stays so until the mailing itself is retried.
LEMMA AccountedStays ==
    ASSUME RetryIsLocal, NEW m \in Mailing, NEW p, Accounted(m, p),
           "retry" \notin Verbs \/ mailing[m].state # "done" \/ mailing'[m].state = "done",
           \A t \in Trace : RowKept(trace[t], trace'[t]) \/ Hidden(t)
    PROVE  Accounted(m, p)'
  <1>1. PICK t \in Trace : /\ t[2] = p /\ trace[t].live
                           /\ t[1] = m \/ (t[1] \in Peers[m] /\ trace[t].status # "cancel")
    BY DEF Accounted
  <1>2. ~Hidden(t)
    <2>1. SUFFICES ASSUME Hidden(t) PROVE FALSE
      OBVIOUS
    <2>2. t[1] = m
      BY <1>1, <2>1 DEF Hidden, RetryIsLocal
    <2> QED
      BY <2>1, <2>2 DEF Hidden
  <1>3. RowKept(trace[t], trace'[t])
    BY <1>2
  <1>4. trace'[t].live /\ (trace[t].status # "cancel" => trace'[t].status # "cancel")
    BY <1>1, <1>3 DEF RowKept, SendRow
  <1> QED
    BY <1>1, <1>4 DEF Accounted

\* An insert hides nobody.
LEMMA AccountedThroughMint ==
    ASSUME Present, NEW m, NEW p, Accounted(m, p), NEW n, NEW F, NEW status,
           Mint(Slots(n, F), status)
    PROVE  Accounted(m, p)'
  <1>1. PICK t \in Trace : /\ t[2] = p /\ trace[t].live
                           /\ t[1] = m \/ (t[1] \in Peers[m] /\ trace[t].status # "cancel")
    BY DEF Accounted
  <1>2. trace'[t] = trace[t]
    BY <1>1, MintSparesRows DEF Present
  <1> QED
    BY <1>1, <1>2 DEF Accounted

\* Done is reached only by the two completions, of the driven mailing.
LEMMA BecomesDone ==
    ASSUME TypeInv, [Next]_vars, NEW m \in Mailing, mailing'[m].state = "done",
           mailing[m].state # "done"
    PROVE  /\ trace' = trace
           /\ \E w \in Worker : m = worker[w].job /\ (FinishEmpty(w) \/ (Finish(w) /\ ~worker[w].more))
  <1>0. mailing \in [Mailing -> MailingRow]
    BY DEF TypeInv, TypeOK
  <1>1. CASE mailing' = mailing
    BY <1>1
  <1>2. CASE (\E n \in Mailing : Operator(n)) \/ Outside
    BY <1>2, OperatorsFinishNothing
  <1>3. ASSUME NEW w \in Worker, NEW S \in SUBSET Mailing, Claim(w, S)
        PROVE  FALSE
    <2>1. mailing'[m] \in {mailing[m], Flipped(mailing[m]), Parked(mailing[m])}
      BY <1>3 DEF Claim
    <2> QED
      BY <1>0, <2>1, OnlyCompletionsFinish
  <1>4. ASSUME NEW w \in Worker, DriveFails(w)
        PROVE  FALSE
    <2>1. mailing'[m] \in {mailing[m], Parked(mailing[m])}
      BY <1>0, <1>4 DEF DriveFails
    <2> QED
      BY <1>0, <2>1, OnlyCompletionsFinish
  <1>5. ASSUME NEW w \in Worker, FinishEmpty(w) \/ Finish(w)
        PROVE  /\ trace' = trace /\ m = worker[w].job
               /\ FinishEmpty(w) \/ (Finish(w) /\ ~worker[w].more)
    BY <1>0, <1>5 DEF FinishEmpty, Finish
  <1>6. ASSUME NEW w \in Worker, Step(w), ~DriveFails(w), ~FinishEmpty(w), ~Finish(w)
        PROVE  mailing' = mailing
    BY <1>6 DEF Step, ClaimNothing, Drive, DrivesDone, Probe, MintCancel, MintBatch, Post,
                Attach, PostRefused, AttachFails, EnqueueErr, Reconcile
  <1> QED
    BY <1>1, <1>2, <1>3, <1>4, <1>5, <1>6 DEF Next, vars, Crash

\* The walk's side: its decisions, and their execution; what other walks mint
\* meanwhile only adds to what is accounted for.
LEMMA AccountingRowKept ==
    ASSUME TypeInv, Present, Unretried, RetryIsLocal, [Next]_vars,
           NEW w \in Worker, AccountingRow(worker[w])
    PROVE  AccountingRow(worker[w])'
  <1> DEFINE r == worker[w]
             s == worker'[w]
  <1> PICK job : job = worker[w].job
    OBVIOUS
  <1>0. Walking(r) =>
            job \in Mailing /\ ("retry" \notin Verbs \/ mailing[job].state # "done")
    BY DEF Unretried, TypeInv, Engaged, EngagedRow, Walking
  <1>1. CASE Quiet
    <2>1. CASE ~Walking(s)
      BY <2>1 DEF AccountingRow, Walking
    <2>2. CASE SameWalk(r, s)
      <3>1. \A t \in Trace : RowKept(trace[t], trace'[t]) \/ Hidden(t)
        BY <1>1 DEF Quiet
      <3>2. job \in Mailing /\ ("retry" \notin Verbs \/ mailing[job].state # "done")
        BY <1>0, <2>2 DEF SameWalk
      <3>3. \A p : Accounted(job, p) => Accounted(job, p)'
        BY <3>1, <3>2, AccountedStays
      <3> QED
        BY <2>2, <3>3 DEF AccountingRow, SameWalk
    <2> QED
      BY <1>1, <2>1, <2>2 DEF Quiet
  <1>2. CASE Probe(w)
    <2>1. /\ s.pc = "walk" /\ s.job = job /\ trace' = trace
          /\ s.more \/ s.work = (Unseen(job) \ s.cancels) \cap Sample[job]
      BY <1>2, ProbeEffect
    <2>2. \A p \in Audience[job] : p \in Unseen(job) \/ Accounted(job, p)
      BY DEF Unseen, SeenActive, SuppressedHere, Active, SuppressedTrace, Accounted
    <2>3. \A p \in Audience[job] : p \in Unseen(job) \/ Accounted(job, p)'
      BY <2>1, <2>2 DEF Accounted
    <2> QED
      BY <2>1, <2>3 DEF AccountingRow
  <1>3. ASSUME NEW q \in Recipient, MintCancel(w, q)
        PROVE  AccountingRow(worker[w])'
    <2>1. /\ r.pc = "walk" /\ s.job = job /\ s.work = r.work /\ s.more = r.more
          /\ s.cancels = r.cancels \ {q}
          /\ HasSlots(job, {q}) /\ Mint(Slots(job, {q}), "cancel")
      BY <1>3, MintCancelEffect
    <2>2. Accounted(job, q)'
      <3>1. PICK t \in Trace : t[1] = job /\ t[2] = q /\ trace'[t] = FreshTrace("cancel")
        BY <2>1, SlotMinted
      <3> QED
        BY <3>1 DEF Accounted, FreshTrace
    <2>3. \A p : Accounted(job, p) => Accounted(job, p)'
      BY <2>1, AccountedThroughMint
    <2> QED
      BY <2>1, <2>2, <2>3 DEF AccountingRow, Walking
  <1>4. CASE MintBatch(w)
    <2> DEFINE free(b) == {p \in b : ~Fenced(job, p)}
    <2>1. PICK batch \in SUBSET r.work :
            /\ s.work = r.work \ batch
            /\ HasSlots(job, free(batch))
            /\ Mint(Slots(job, free(batch)), "outgoing")
      BY <1>4, MintBatchEffect
    <2>2. /\ r.pc = "walk" /\ s.job = job /\ s.more = r.more /\ r.cancels = {}
      BY <1>4, MintBatchEffect
    <2>3. \A p : Accounted(job, p) => Accounted(job, p)'
      BY <2>1, AccountedThroughMint
    <2>4. ASSUME NEW p \in batch
          PROVE  Accounted(job, p)'
      <3>1. CASE Fenced(job, p)
        <4>1. Accounted(job, p)
          BY <3>1 DEF Fenced, Active, Accounted
        <4> QED
          BY <2>3, <4>1
      <3>2. CASE p \in free(batch)
        <4>1. PICK t \in Trace : /\ t[1] = job /\ t[2] = p
                                 /\ trace'[t] = FreshTrace("outgoing")
          BY <2>1, <3>2, SlotMinted
        <4> QED
          BY <4>1 DEF Accounted, FreshTrace
      <3> QED
        BY <3>1, <3>2
    <2> QED
      BY <2>1, <2>2, <2>3, <2>4 DEF AccountingRow, Walking
  <1>5. ASSUME NEW v \in Worker, v # w,
               Probe(v) \/ (\E q \in Recipient : MintCancel(v, q)) \/ MintBatch(v)
        PROVE  AccountingRow(worker[w])'
    <2>1. s = r
      BY <1>5, OthersStand DEF Step
    <2>2. \A p : Accounted(job, p) => Accounted(job, p)'
      <3>1. CASE Probe(v)
        BY <3>1 DEF Probe, Accounted
      <3>2. ASSUME NEW q \in Recipient, MintCancel(v, q)
            PROVE  \A p : Accounted(job, p) => Accounted(job, p)'
        BY <3>2, AccountedThroughMint DEF MintCancel
      <3>3. CASE MintBatch(v)
        <4>1. \E F : Mint(Slots(worker[v].job, F), "outgoing")
          BY <3>3, MintBatchEffect
        <4> QED
          BY <4>1, AccountedThroughMint
      <3> QED
        BY <1>5, <3>1, <3>2, <3>3
    <2> QED
      BY <2>1, <2>2 DEF AccountingRow, Walking
  <1> QED
    BY <1>1, <1>2, <1>3, <1>4, <1>5, QuietOrWalks

LEMMA DoneAccountedKept ==
    ASSUME TypeInv, Present, RetryIsLocal, Accounting, [Next]_vars
    PROVE  DoneMeansAccounted'
  <1> SUFFICES ASSUME NEW m \in Mailing, mailing'[m].state = "done",
                      NEW p \in Audience[m] \cap Sample[m]
               PROVE  Accounted(m, p)'
    BY DEF DoneMeansAccounted
  <1>1. CASE mailing[m].state = "done"
    <2>1. Accounted(m, p)
      BY <1>1 DEF Accounting, DoneMeansAccounted
    <2>2. CASE Quiet
      BY <2>1, <2>2, AccountedStays DEF Quiet
    <2>3. ASSUME NEW w \in Worker,
                 Probe(w) \/ (\E q \in Recipient : MintCancel(w, q)) \/ MintBatch(w)
          PROVE  Accounted(m, p)'
      <3>1. CASE Probe(w)
        BY <2>1, <3>1 DEF Probe, Accounted
      <3>2. ASSUME NEW q \in Recipient, MintCancel(w, q)
            PROVE  Accounted(m, p)'
        BY <2>1, <3>2, AccountedThroughMint DEF MintCancel
      <3>3. CASE MintBatch(w)
        <4>1. \E F : Mint(Slots(worker[w].job, F), "outgoing")
          BY <3>3, MintBatchEffect
        <4> QED
          BY <2>1, <4>1, AccountedThroughMint
      <3> QED
        BY <2>3, <3>1, <3>2, <3>3
    <2> QED
      BY <2>2, <2>3, QuietOrWalks
  <1>2. CASE mailing[m].state # "done"
    <2>1. PICK w \in Worker :
            m = worker[w].job /\ (FinishEmpty(w) \/ (Finish(w) /\ ~worker[w].more))
      BY <1>2, BecomesDone
    <2>2. trace' = trace
      BY <1>2, BecomesDone
    <2>3. ~FinishEmpty(w)
      BY <2>1 DEF FinishEmpty
    <2>4. Accounted(m, p)
      BY <2>1, <2>3 DEF Accounting, AccountingRow, Finish, Walking
    <2> QED
      BY <2>2, <2>4 DEF Accounted
  <1> QED
    BY <1>1, <1>2

LEMMA AccountingKept ==
    ASSUME TypeInv, Present, Unretried, RetryIsLocal, Accounting, [Next]_vars
    PROVE  Accounting'
  <1>1. \A w \in Worker : AccountingRow(worker[w])'
    BY AccountingRowKept DEF Accounting
  <1> QED
    BY <1>1, DoneAccountedKept DEF Accounting

LEMMA AccountingAtFirst == Init => TypeInv /\ Present /\ Accounting
  BY InitTyped DEF Init, Present, NoTrace, Accounting, DoneMeansAccounted, AccountingRow,
                   Walking, Asleep

\* While no two sweeps hold the same mailing, die anywhere as they may, fail to
\* attach and be slow, and whatever operators do meanwhile, a mailing is done only
\* when every recipient it addresses has a live trace, its own or a sibling
\* variant's: budgeted passes, resumes, refusals, cancels, relaunches and retries
\* lose nobody.  Retries are for mailings without siblings: a sibling's retry hides
\* a trace this one counted.
THEOREM DoneIsAccountedApart ==
    ASSUME RetryIsLocal
    PROVE  Spec /\ []ClaimsDisjoint => []DoneMeansAccounted
  <1> DEFINE Inv == TypeInv /\ Present /\ Undone /\ Accounting
  <1>1. Init => Inv
    BY AccountingAtFirst, UndoneAtFirst
  <1>2. Inv /\ ClaimsDisjoint /\ [Next]_vars => Inv'
    BY NextTyped, PresentKept, UndoneKept, UndoneIsUnretried, AccountingKept
  <1>3. Inv => DoneMeansAccounted
    BY DEF Accounting
  <1> QED
    BY <1>1, <1>2, <1>3, PTL DEF Spec

\* The same for a lone worker.
THEOREM DoneIsAccounted ==
    ASSUME OneWorker, RetryIsLocal
    PROVE  Spec => []DoneMeansAccounted
  BY AloneIsApart, DoneIsAccountedApart, PTL

\* As long as no operator retries failed recipients, no overlap breaks this: however
\* many sweeps hold a mailing at once, with whatever faults, it is done only when
\* every recipient it addresses has a live trace.  What one sweep finds fenced,
\* another has minted.
THEOREM OverlapsLoseNobody ==
    ASSUME "retry" \notin Verbs
    PROVE  Spec => []DoneMeansAccounted
  <1> DEFINE Inv == TypeInv /\ Present /\ Accounting
  <1>1. Init => Inv
    BY AccountingAtFirst
  <1>2. RetryIsLocal /\ Unretried
    BY DEF RetryIsLocal, Unretried
  <1>3. Inv /\ [Next]_vars => Inv'
    BY <1>2, NextTyped, PresentKept, AccountingKept
  <1>4. Inv => DoneMeansAccounted
    BY DEF Accounting
  <1> QED
    BY <1>1, <1>3, <1>4, PTL DEF Spec

-----------------------------------------------------------------------------
(* The first disposition is the only one. *)

\* Whom the walk has still to cancel or to send has no live trace of the mailing,
\* and is not to be both.
DispositionRow(r) ==
    Walking(r) =>
        /\ r.cancels \cap r.work = {}
        /\ \A t \in Trace : t[1] = r.job /\ t[2] \in r.cancels \cup r.work => ~trace[t].live

Disposed ==
    /\ OneDisposition
    /\ \A w \in Worker : DispositionRow(worker[w])

\* One row each for recipients that had no live one.
LEMMA MintDisposes ==
    ASSUME OneDisposition, NEW m, NEW F, NEW status, Mint(Slots(m, F), status),
           \A t \in Trace : t[1] = m /\ t[2] \in F => ~trace[t].live
    PROVE  OneDisposition'
  <1> SUFFICES ASSUME NEW t \in Trace, NEW u \in Trace, trace'[t].live, trace'[u].live,
                      t[1] = u[1], t[2] = u[2]
               PROVE  t = u
    BY DEF OneDisposition
  <1> DEFINE new == Slots(m, F)
  <1>1. \A v \in Trace : trace'[v].live => v \in new \/ trace[v].live
    BY DEF Mint
  <1>2. \A v \in new : v[1] = m /\ v[2] \in F /\ IsNext(v)
    BY DEF Slots
  <1> HIDE DEF new
  <1>3. CASE t \in new /\ u \in new
    BY <1>2, <1>3, NextIsUnique
  <1>4. CASE t \notin new /\ u \notin new
    BY <1>1, <1>4 DEF OneDisposition
  <1> QED
    BY <1>1, <1>2, <1>3, <1>4

\* Those left in the walk keep having none.
LEMMA MintDisposesNoOther ==
    ASSUME NEW m, NEW F, NEW status, Mint(Slots(m, F), status),
           NEW t \in Trace, t[2] \notin F, ~trace[t].live
    PROVE  ~trace'[t].live
  BY DEF Mint, Slots

\* What is minted for a mailing that a worker drives is no row of another's walk.
LEMMA DispositionApart ==
    ASSUME TypeInv, ClaimsDisjoint, NEW w \in Worker, Driving(worker[w]),
           NEW F, NEW status, Mint(Slots(worker[w].job, F), status),
           NEW v \in Worker, v # w, worker'[v] = worker[v], DispositionRow(worker[v])
    PROVE  DispositionRow(worker[v])'
  <1>1. Walking(worker[v]) => worker[w].job # worker[v].job
    BY DrivenApart DEF Walking, Driving
  <1>2. \A t \in Trace : t[1] # worker[w].job => trace'[t] = trace[t]
    BY DEF Mint, Slots
  <1> QED
    BY <1>1, <1>2 DEF DispositionRow, Walking

LEMMA DisposedKept ==
    ASSUME TypeInv, Present, ClaimsDisjoint, Disposed, [Next]_vars
    PROVE  Disposed'
  <1>1. CASE Quiet
    <2>1. \A t \in Trace : trace'[t].live => trace[t].live
      BY <1>1 DEF Quiet, RowKept, Hidden
    <2>2. OneDisposition'
      BY <2>1 DEF Disposed, OneDisposition
    <2>3. ASSUME NEW w \in Worker
          PROVE  DispositionRow(worker[w])'
      BY <1>1, <2>1 DEF Quiet, SameWalk, Disposed, DispositionRow, Walking
    <2> QED
      BY <2>2, <2>3 DEF Disposed
  <1>2. ASSUME NEW w \in Worker,
               Probe(w) \/ (\E p \in Recipient : MintCancel(w, p)) \/ MintBatch(w)
        PROVE  Disposed'
    <2> DEFINE r == worker[w]
               s == worker'[w]
    <2> PICK job : job = worker[w].job
      OBVIOUS
    <2>0. DispositionRow(r) /\ OneDisposition
      BY DEF Disposed
    <2>4. \A v \in Worker : v # w => worker'[v] = worker[v] /\ DispositionRow(worker[v])
      BY <1>2, OthersStand DEF Step, Disposed
    <2>1. CASE Probe(w)
      <3>1. PICK F : s.cancels = {p \in Unseen(job) : p \notin F \/ Suppressed(job, EmailOf[p])}
        BY <2>1, ProbeEffect
      <3>2. /\ s.job = job /\ trace' = trace
            /\ s.work \subseteq (Unseen(job) \ s.cancels) \cap Sample[job]
        BY <2>1, ProbeEffect
      <3>3. job \in Mailing
        BY <2>1 DEF Probe, TypeInv, Engaged, EngagedRow
      <3>4. \A t \in Trace : t[1] = job /\ t[2] \in Unseen(job) => ~trace[t].live
        BY <3>3, MailingsAssumption
        DEF Unseen, SeenActive, SuppressedHere, Active, SuppressedTrace, Present
      <3>5. s.cancels \cap s.work = {} /\ s.cancels \cup s.work \subseteq Unseen(job)
        BY <3>1, <3>2
      <3>6. DispositionRow(worker[w])'
        BY <3>2, <3>4, <3>5 DEF DispositionRow
      <3> QED
        BY <2>0, <2>4, <3>2, <3>6 DEF Disposed, OneDisposition, DispositionRow, Walking
    <2>2. ASSUME NEW q \in Recipient, MintCancel(w, q)
          PROVE  Disposed'
      <3>1. /\ r.pc = "walk" /\ s.job = job /\ s.work = r.work /\ q \in r.cancels
            /\ s.cancels = r.cancels \ {q} /\ Mint(Slots(job, {q}), "cancel")
        BY <2>2, MintCancelEffect
      <3>2. OneDisposition'
        BY <2>0, <3>1, MintDisposes DEF DispositionRow, Walking
      <3>3. DispositionRow(worker[w])'
        BY <2>0, <3>1, MintDisposesNoOther DEF DispositionRow, Walking
      <3>4. \A v \in Worker : v # w => DispositionRow(worker[v])'
        BY <2>4, <3>1, DispositionApart DEF Driving
      <3> QED
        BY <3>2, <3>3, <3>4 DEF Disposed
    <2>3. CASE MintBatch(w)
      <3> DEFINE free(b) == {p \in b : ~Fenced(job, p)}
      <3>1. PICK batch \in SUBSET r.work :
              s.work = r.work \ batch /\ Mint(Slots(job, free(batch)), "outgoing")
        BY <2>3, MintBatchEffect
      <3>2. r.pc = "walk" /\ s.job = job /\ s.cancels = {}
        BY <2>3, MintBatchEffect
      <3>3. free(batch) \subseteq batch
        OBVIOUS
      <3> HIDE DEF free
      <3>4. OneDisposition'
        BY <2>0, <3>1, <3>2, <3>3, MintDisposes DEF DispositionRow, Walking
      <3>5. DispositionRow(worker[w])'
        BY <2>0, <3>1, <3>2, <3>3, MintDisposesNoOther DEF DispositionRow, Walking
      <3>6. \A v \in Worker : v # w => DispositionRow(worker[v])'
        BY <2>4, <3>1, <3>2, DispositionApart DEF Driving
      <3> QED
        BY <3>4, <3>5, <3>6 DEF Disposed
    <2> QED
      BY <1>2, <2>1, <2>2, <2>3
  <1> QED
    BY <1>1, <1>2, QuietOrWalks

\* While no two sweeps hold the same mailing, die anywhere as they may, no recipient
\* of a mailing ever has two live traces, cancel traces included: what a crash
\* interrupts is completed by the next pass, never repeated.
THEOREM FirstDispositionStaysApart ==
    Spec /\ []ClaimsDisjoint => []OneDisposition
  <1> DEFINE Inv == TypeInv /\ Present /\ Disposed
  <1>1. Init => Inv
    BY InitTyped DEF Init, Present, Disposed, OneDisposition, DispositionRow, Walking,
                     NoTrace, Asleep
  <1>2. Inv /\ ClaimsDisjoint /\ [Next]_vars => Inv'
    BY NextTyped, PresentKept, DisposedKept
  <1>3. Inv => OneDisposition
    BY DEF Disposed
  <1> QED
    BY <1>1, <1>2, <1>3, PTL DEF Spec

\* The same for a lone worker.
THEOREM FirstDispositionStays ==
    ASSUME OneWorker
    PROVE  Spec => []OneDisposition
  BY AloneIsApart, FirstDispositionStaysApart, PTL

-----------------------------------------------------------------------------
(* Done means enqueued. *)

\* Only a walk holds traces, those of the mailing it drives.
HandRow(r) ==
    /\ r.pc # "relink"
    /\ ~Walking(r) => r.hand = {}
    /\ \A t \in r.hand : t[1] = r.job

(* The strengthening of DoneMeansEnqueued, beside Undone.  Unlike Calm it lets
   orphans age, for a sweep meets none at the start of a drive. *)
Handed ==
    /\ \A w \in Worker : HandRow(worker[w])
    /\ \A t \in Trace : OrphanRow(trace[t]) => \E w \in Worker : t \in worker[w].hand

\* A step that keeps in hand every orphan its worker held or minted.
LEMMA HandedStep ==
    ASSUME Handed, NEW w \in Worker, HandRow(worker'[w]),
           \A v \in Worker : v # w => worker'[v] = worker[v],
           \A t \in Trace : OrphanRow(trace'[t]) =>
                t \in worker'[w].hand \/ (OrphanRow(trace[t]) /\ t \notin worker[w].hand)
    PROVE  Handed'
  <1>1. \A v \in Worker : HandRow(worker'[v])
    BY DEF Handed
  <1>2. ASSUME NEW t \in Trace, OrphanRow(trace'[t])
        PROVE  \E v \in Worker : t \in worker'[v].hand
    <2>1. CASE t \in worker'[w].hand
      BY <2>1
    <2>2. CASE OrphanRow(trace[t]) /\ t \notin worker[w].hand
      <3>1. PICK v \in Worker : t \in worker[v].hand
        BY <2>2 DEF Handed
      <3> QED
        BY <2>2, <3>1
    <2> QED
      BY <1>2, <2>1, <2>2
  <1> QED
    BY <1>1, <1>2 DEF Handed, HandRow, Walking, OrphanRow

\* A claimed mailing has no orphan: it would be in the hand of another that drives it.
LEMMA NoOrphans ==
    ASSUME TypeInv, Handed, ClaimsDisjoint, NEW w \in Worker, worker[w].hand = {},
           NEW m \in worker[w].claims
    PROVE  Orphans(m) = {}
  <1> SUFFICES ASSUME NEW t \in Trace, t[1] = m, OrphanRow(trace[t])
               PROVE  FALSE
    BY DEF Orphans, OrphansOfAnyAge, OrphanRow
  <1>1. PICK v \in Worker : t \in worker[v].hand
    BY DEF Handed
  <1>2. v # w /\ Driving(worker[v]) /\ worker[v].job = m
    BY <1>1 DEF Handed, HandRow, Walking, Driving
  <1> QED
    BY <1>2, DrivenApart

LEMMA HandedOutside ==
    ASSUME TypeInv, Handed, (\E m \in Mailing : Operator(m)) \/ Outside
    PROVE  Handed'
  <1>1. worker' = worker
    BY DEF Operator, Launch, Cancel, Requeue, RetryFailed, Outside,
           ComesDue, Age, Settle, Tracked, OptOut, Resubscribe, Blacklist
  <1>2. \A t \in Trace : OrphanRow(trace'[t]) => OrphanRow(trace[t])
    BY QuietOutside DEF Quiet, RowKept, Hidden, OrphanRow
  <1> QED
    BY <1>1, <1>2 DEF Handed, HandRow, Walking, OrphanRow

\* Between drives: the repair arm finds nothing to take into its hand.
LEMMA HandedIdle ==
    ASSUME TypeInv, Handed, ClaimsDisjoint, "crash" \notin Faults, NEW w \in Worker,
           \/ \E S \in SUBSET Mailing : Claim(w, S)
           \/ ClaimNothing(w) \/ (\E m \in Mailing : Drive(w, m)) \/ DrivesDone(w)
           \/ DriveFails(w) \/ FinishEmpty(w) \/ Finish(w)
    PROVE  Handed'
  <1> DEFINE r == worker[w]
  <1>0. worker \in [Worker -> WorkerRow] /\ r \in WorkerRow /\ HandRow(r)
    BY DEF TypeInv, TypeOK, Handed
  <1>1. r.hand = {}
    BY <1>0 DEF Claim, ClaimNothing, Drive, DrivesDone, DriveFails, FinishEmpty, Finish,
                HandRow, Walking
  <1>3. /\ trace' = trace
        /\ worker'[w].pc \in {"idle", "drive", "repair", "reconcile"}
        /\ \A v \in Worker : v # w => worker'[v] = worker[v]
    BY QuietIdle
  <1>4. worker'[w].hand = {}
    <2>1. ASSUME NEW S \in SUBSET Mailing, Claim(w, S)
          PROVE  worker'[w].hand = {}
      <3>1. PICK c : worker' = [worker EXCEPT ![w] =
                                  [Asleep EXCEPT !.pc = "drive", !.claims = c]]
        BY <2>1 DEF Claim
      <3> QED
        BY <1>0, <3>1 DEF Asleep
    <2>2. CASE ClaimNothing(w)
      BY <1>0, <1>1, <2>2 DEF ClaimNothing, WorkerRow
    <2>3. CASE DrivesDone(w)
      BY <1>0, <1>1, <2>3 DEF DrivesDone, WorkerRow
    <2>4. ASSUME NEW m \in Mailing, Drive(w, m)
          PROVE  worker'[w].hand = {}
      <3>1. Orphans(m) = {}
        BY <1>1, <2>4, NoOrphans DEF Drive
      <3> QED
        BY <1>0, <2>4, <3>1 DEF Drive, WorkerRow
    <2>5. ASSUME DriveFails(w) \/ FinishEmpty(w) \/ Finish(w)
          PROVE  worker'[w].hand = {}
      <3>1. worker'[w] = NextDrive(w)
        BY <1>0, <2>5 DEF DriveFails, FinishEmpty, Finish
      <3> QED
        BY <3>1 DEF NextDrive, Asleep
    <2> QED
      BY <2>1, <2>2, <2>3, <2>4, <2>5
  <1>5. HandRow(worker'[w])
    BY <1>3, <1>4 DEF HandRow
  <1> QED
    BY <1>1, <1>3, <1>5, HandedStep

\* A trace leaves the hand when it is an orphan no more.
LEMMA HandedHandOn ==
    ASSUME TypeInv, Handed, NEW w \in Worker, NEW t, HandOn(w, t),
           Walking(worker[w]),
           \A u \in Trace : OrphanRow(trace'[u]) => u # t /\ OrphanRow(trace[u])
    PROVE  Handed'
  <1>1. /\ worker'[w].pc = "walk" /\ worker'[w].job = worker[w].job
        /\ worker'[w].hand = worker[w].hand \ {t}
        /\ \A v \in Worker : v # w => worker'[v] = worker[v]
    BY HandOnSameWalk DEF Walking
  <1>2. HandRow(worker'[w])
    BY <1>1 DEF Handed, HandRow, Walking
  <1>3. \A u \in Trace : OrphanRow(trace'[u]) =>
            u \in worker'[w].hand \/ (OrphanRow(trace[u]) /\ u \notin worker[w].hand)
    BY <1>1
  <1> QED
    BY <1>1, <1>2, <1>3, HandedStep

LEMMA HandedEnqueueErr ==
    ASSUME TypeInv, Handed, NEW w \in Worker, NEW t \in Trace, EnqueueErr(w, t),
           Walking(worker[w])
    PROVE  Handed'
  <1>1. trace' = [trace EXCEPT ![t] = SetFailed(@)] /\ trace \in [Trace -> TraceRow]
    BY DEF EnqueueErr, Walking, TypeInv, TypeOK
  <1>2. \A u \in Trace : OrphanRow(trace'[u]) => u # t /\ OrphanRow(trace[u])
    BY <1>1, VerbsMakeNoOrphan
  <1> QED
    BY <1>2, HandedHandOn DEF EnqueueErr

LEMMA HandedWorker ==
    ASSUME TypeInv, Handed, ClaimsDisjoint, "crash" \notin Faults, NEW w \in Worker, Step(w)
    PROVE  Handed'
  <1> DEFINE r == worker[w]
             s == worker'[w]
  <1>0. /\ worker \in [Worker -> WorkerRow] /\ r \in WorkerRow /\ HandRow(r) /\ EngagedRow(r)
        /\ trace \in [Trace -> TraceRow]
        /\ \A v \in Worker : v # w => worker'[v] = worker[v]
    BY OthersStand DEF TypeInv, TypeOK, Handed, Engaged
  <1>1. CASE Probe(w)
    <2>1. s.hand = {} /\ s.pc = "walk" /\ trace' = trace
      BY <1>1, ProbeEffect
    <2>2. r.hand = {} /\ HandRow(s)
      BY <1>1, <2>1 DEF Probe, HandRow
    <2> QED
      BY <1>0, <2>1, <2>2, HandedStep
  <1>2. ASSUME NEW p \in Recipient, MintCancel(w, p)
        PROVE  Handed'
    <2>1. s.hand = r.hand /\ s.pc = "walk" /\ s.job = r.job
      BY <1>2, MintCancelEffect
    <2>2. \A t \in Trace : OrphanRow(trace'[t]) => OrphanRow(trace[t])
      BY <1>2 DEF MintCancel, Mint, FreshTrace, OrphanRow
    <2>3. HandRow(s)
      BY <1>0, <2>1 DEF HandRow, Walking
    <2> QED
      BY <1>0, <2>1, <2>2, <2>3, HandedStep
  <1>3. CASE MintBatch(w)
    <2>1. PICK F : s.hand = Slots(r.job, F) /\ Mint(Slots(r.job, F), "outgoing")
      BY <1>3, MintBatchEffect
    <2>2. s.pc = "walk" /\ s.job = r.job
      BY <1>3, MintBatchEffect
    <2>3. r.hand = {}
      BY <1>3 DEF MintBatch
    <2>4. \A t \in Trace : OrphanRow(trace'[t]) => t \in s.hand \/ OrphanRow(trace[t])
      BY <2>1 DEF Mint
    <2>5. HandRow(s)
      BY <2>1, <2>2 DEF HandRow, Walking, Slots
    <2> QED
      BY <1>0, <2>3, <2>4, <2>5, HandedStep
  <1>4. ASSUME NEW t \in Trace, Post(w, t)
        PROVE  Handed'
    <2>1. r.pc = "walk"
      BY <1>0, <1>4 DEF Post, HandRow, Walking
    <2>2. s.hand = r.hand /\ s.pc = "link" /\ s.job = r.job /\ trace' = trace
      BY <1>0, <1>4, <2>1 DEF Post, WorkerRow
    <2>3. HandRow(s)
      BY <1>0, <2>2 DEF HandRow, Walking
    <2> QED
      BY <1>0, <2>2, <2>3, HandedStep
  <1>5. CASE Attach(w)
    <2>1. r.pc = "link" /\ r.post \in Trace /\ r.row \in Nat \ {0}
      BY <1>0, <1>5 DEF Attach, HandRow, EngagedRow
    <2>2. \A u \in Trace : OrphanRow(trace'[u]) => u # r.post /\ OrphanRow(trace[u])
      BY <1>0, <1>5, <2>1, VerbsMakeNoOrphan DEF Attach
    <2> QED
      BY <1>5, <2>1, <2>2, HandedHandOn DEF Attach, Walking
  <1>6. ASSUME NEW t \in Trace, PostRefused(w, t)
        PROVE  Handed'
    BY <1>0, <1>6, HandedEnqueueErr DEF PostRefused, HandRow
  <1>7. CASE AttachFails(w)
    BY <1>0, <1>7, HandedEnqueueErr DEF AttachFails, HandRow, EngagedRow, Walking
  <1>8. CASE Reconcile(w)
    <2>1. r.hand = {} /\ s = Asleep
      BY <1>0, <1>8 DEF Reconcile, HandRow, Walking
    <2>2. \A t \in Trace : OrphanRow(trace'[t]) => OrphanRow(trace[t])
      BY <1>0, <1>8, VerbsMakeNoOrphan DEF Reconcile, Reconciled
    <2>3. HandRow(s)
      BY <2>1 DEF HandRow, Asleep
    <2> QED
      BY <1>0, <2>1, <2>2, <2>3, HandedStep
  <1> QED
    BY <1>1, <1>2, <1>3, <1>4, <1>5, <1>6, <1>7, <1>8, HandedIdle DEF Step

LEMMA HandedKept ==
    ASSUME TypeInv, Handed, ClaimsDisjoint, "crash" \notin Faults, [Next]_vars
    PROVE  Handed'
  <1>1. CASE UNCHANGED vars
    BY <1>1 DEF vars, Handed, HandRow, Walking, OrphanRow
  <1>2. \A w \in Worker : ~Crash(w)
    BY DEF Crash
  <1> QED
    BY <1>1, <1>2, HandedOutside, HandedIdle, HandedWorker DEF Next

\* While no two sweeps hold the same mailing and none dies, slow as they may be and
\* even if attachments fail, a mailing is done only when each of its outgoing traces
\* has its mail row: no completion passes over a trace that was minted and never
\* enqueued.
THEOREM DoneIsEnqueuedApart ==
    ASSUME "crash" \notin Faults
    PROVE  Spec /\ []ClaimsDisjoint => []DoneMeansEnqueued
  <1>1. Init => TypeInv /\ Undone /\ Handed
    <2>1. Init => Handed
      BY DEF Init, Handed, HandRow, Walking, OrphanRow, NoTrace, Asleep
    <2> QED
      BY <2>1, InitTyped, UndoneAtFirst
  <1>2. TypeInv /\ Undone /\ Handed /\ ClaimsDisjoint /\ [Next]_vars
            => (TypeInv /\ Undone /\ Handed)'
    BY NextTyped, UndoneKept, HandedKept
  <1>3. Undone /\ Handed => DoneMeansEnqueued
    <2> SUFFICES ASSUME Undone, Handed,
                        NEW t \in Trace, t \in OrphansOfAnyAge(t[1])
                 PROVE  mailing[t[1]].state # "done"
      BY DEF DoneMeansEnqueued
    <2>1. PICK w \in Worker : t \in worker[w].hand
      BY OrphansAreRows DEF Handed
    <2>2. Walking(worker[w]) /\ t[1] = worker[w].job
      BY <2>1 DEF Handed, HandRow
    <2> QED
      BY <2>2 DEF Undone, UndoneRow, Walking, Driving
  <1> QED
    BY <1>1, <1>2, <1>3, PTL DEF Spec

\* The same for a lone worker.
THEOREM DoneIsEnqueued ==
    ASSUME OneWorker, "crash" \notin Faults
    PROVE  Spec => []DoneMeansEnqueued
  BY AloneIsApart, DoneIsEnqueuedApart, PTL

-----------------------------------------------------------------------------
(* Campaign siblings are mailed once between them. *)

PeersAreMutual == \A m, n \in Mailing : m \in Peers[n] => n \in Peers[m]

\* The fence a campaign would need: one active trace per recipient among siblings.
\* The partial unique index does not span them, so the probe has to.
CampaignFence ==
    \A t, u \in Trace :
        Active(t) /\ Active(u) /\ t[1] \in Peers[u[1]] /\ t[2] = u[2] => t = u

\* Whom the walk has still to send is seen nowhere in the campaign.
UnseenRow(r) == Walking(r) => \A p \in r.work : ~SeenActive(r.job, p)

(* The strengthening of CampaignDisjoint, beside Calm and Once. *)
CampaignOnce ==
    /\ CampaignFence
    /\ \A w \in Worker : UnseenRow(worker[w])

\* A step that activates no row.
LEMMA CampaignWithoutMint ==
    ASSUME CampaignFence, \A t \in Trace : RowActive(trace'[t]) => RowActive(trace[t])
    PROVE  CampaignFence' /\ \A m, p : SeenActive(m, p)' => SeenActive(m, p)
  BY DEF CampaignFence, SeenActive, Active, RowActive

\* A batch for recipients that no sibling has an active trace of.
LEMMA MintCampaign ==
    ASSUME PeersAreMutual, CampaignFence, NEW m \in Mailing, NEW F,
           \A p \in F : ~SeenActive(m, p), Mint(Slots(m, F), "outgoing")
    PROVE  /\ CampaignFence'
           /\ \A p : p \notin F /\ ~SeenActive(m, p) => ~SeenActive(m, p)'
  <1> DEFINE new == Slots(m, F)
  <1>1. \A v \in Trace : Active(v)' => v \in new \/ Active(v)
    BY DEF Mint, Active
  <1>2. \A v \in new : v \in Trace /\ v[1] = m /\ v[2] \in F /\ IsNext(v)
    BY DEF Slots
  <1>3. \A x \in Trace : x[1] \in Peers[m] /\ x[2] \in F => ~Active(x)
    BY DEF SeenActive
  <1>4. \A v \in Trace : v[1] \in Mailing
    BY DEF Trace
  <1> HIDE DEF new
  <1>5. ASSUME NEW t \in Trace, NEW u \in Trace, Active(t)', Active(u)',
               t[1] \in Peers[u[1]], t[2] = u[2]
        PROVE  t = u
    <2>1. CASE t \in new /\ u \in new
      BY <1>2, <1>5, <2>1, NextIsUnique
    <2>2. CASE t \notin new /\ u \notin new
      BY <1>1, <1>5, <2>2 DEF CampaignFence
    <2>3. CASE t \in new /\ u \notin new
      <3>1. u[1] \in Peers[m] /\ u[2] \in F
        BY <1>2, <1>4, <1>5, <2>3 DEF PeersAreMutual
      <3> QED
        BY <1>1, <1>3, <1>5, <2>3, <3>1
    <2>4. CASE t \notin new /\ u \in new
      BY <1>1, <1>2, <1>3, <1>5, <2>4
    <2> QED
      BY <2>1, <2>2, <2>3, <2>4
  <1>6. CampaignFence'
    BY <1>5 DEF CampaignFence
  <1>7. ASSUME NEW p, p \notin F, ~SeenActive(m, p)
        PROVE  ~SeenActive(m, p)'
    BY <1>1, <1>2, <1>7 DEF SeenActive
  <1> QED
    BY <1>6, <1>7

\* What is minted for a mailing that a worker drives is not in the sight of another's
\* walk.
LEMMA UnseenApart ==
    ASSUME TypeInv, CampaignsDisjoint, NEW w \in Worker, Driving(worker[w]),
           NEW F, NEW status, Mint(Slots(worker[w].job, F), status),
           NEW v \in Worker, v # w, worker'[v] = worker[v], UnseenRow(worker[v])
    PROVE  UnseenRow(worker[v])'
  <1>1. Walking(worker[v]) => worker[w].job \notin Peers[worker[v].job]
    <2>1. SUFFICES ASSUME Walking(worker[v])
                   PROVE  worker[w].job \notin Peers[worker[v].job]
      OBVIOUS
    <2>2. worker[w].job \in Mailing /\ worker[v].job \in Mailing
      BY <2>1 DEF TypeInv, Engaged, EngagedRow, Driving, Walking
    <2>3. worker[w].job \in Held(w) /\ worker[v].job \in Held(v)
      BY <2>2, NullAssumption DEF Held
    <2> QED
      BY <2>3 DEF CampaignsDisjoint
  <1>2. \A t \in Trace : t[1] # worker[w].job => trace'[t] = trace[t]
    BY DEF Mint, Slots
  <1> QED
    BY <1>1, <1>2 DEF UnseenRow, Walking, SeenActive, Active

LEMMA CampaignKept ==
    ASSUME TypeInv, CampaignsDisjoint, PeersAreMutual, CampaignOnce, [Next]_vars
    PROVE  CampaignOnce'
  <1>1. CASE Quiet
    <2>1. \A t \in Trace : RowActive(trace'[t]) => RowActive(trace[t])
      BY <1>1 DEF Quiet, RowKept, Hidden, RowActive, SendRow
    <2>2. CampaignFence' /\ \A m, p : SeenActive(m, p)' => SeenActive(m, p)
      BY <2>1, CampaignWithoutMint DEF CampaignOnce
    <2>3. ASSUME NEW w \in Worker
          PROVE  UnseenRow(worker[w])'
      BY <1>1, <2>2 DEF Quiet, SameWalk, CampaignOnce, UnseenRow, Walking
    <2> QED
      BY <2>2, <2>3 DEF CampaignOnce
  <1>2. ASSUME NEW w \in Worker,
               Probe(w) \/ (\E p \in Recipient : MintCancel(w, p)) \/ MintBatch(w)
        PROVE  CampaignOnce'
    <2> DEFINE r == worker[w]
               s == worker'[w]
    <2> PICK job : job = worker[w].job
      OBVIOUS
    <2>0. UnseenRow(r) /\ CampaignFence
      BY DEF CampaignOnce
    <2>4. \A v \in Worker : v # w => worker'[v] = worker[v] /\ UnseenRow(worker[v])
      BY <1>2, OthersStand DEF Step, CampaignOnce
    <2>1. CASE Probe(w)
      <3>1. /\ s.job = job /\ trace' = trace
            /\ s.work \subseteq (Unseen(job) \ s.cancels) \cap Sample[job]
        BY <2>1, ProbeEffect
      <3>2. UnseenRow(worker[w])'
        BY <3>1 DEF UnseenRow, Unseen, SeenActive, Active
      <3>3. \A v \in Worker : v # w => UnseenRow(worker[v])'
        BY <2>4, <3>1 DEF UnseenRow, Walking, SeenActive, Active
      <3>4. CampaignFence'
        BY <2>0, <3>1 DEF CampaignFence, Active
      <3> QED
        BY <3>2, <3>3, <3>4 DEF CampaignOnce
    <2>2. ASSUME NEW q \in Recipient, MintCancel(w, q)
          PROVE  CampaignOnce'
      <3>1. r.pc = "walk" /\ s.job = job /\ s.work = r.work /\ Mint(Slots(job, {q}), "cancel")
        BY <2>2, MintCancelEffect
      <3>2. \A t \in Trace : RowActive(trace'[t]) => RowActive(trace[t])
        BY <3>1 DEF Mint, FreshTrace, RowActive
      <3>3. CampaignFence' /\ \A m, p : SeenActive(m, p)' => SeenActive(m, p)
        BY <2>0, <3>2, CampaignWithoutMint
      <3>4. UnseenRow(worker[w])'
        BY <2>0, <3>1, <3>3 DEF UnseenRow, Walking
      <3>5. \A v \in Worker : v # w => UnseenRow(worker[v])'
        BY <2>4, <3>1, UnseenApart DEF Driving
      <3> QED
        BY <3>3, <3>4, <3>5 DEF CampaignOnce
    <2>3. CASE MintBatch(w)
      <3> DEFINE free(b) == {p \in b : ~Fenced(job, p)}
      <3>1. PICK batch \in SUBSET r.work :
              s.work = r.work \ batch /\ Mint(Slots(job, free(batch)), "outgoing")
        BY <2>3, MintBatchEffect
      <3>2. r.pc = "walk" /\ s.job = job
        BY <2>3, MintBatchEffect
      <3>3. job \in Mailing
        BY <3>2 DEF TypeInv, Engaged, EngagedRow
      <3>4. free(batch) \subseteq batch
        OBVIOUS
      <3> HIDE DEF free
      <3>5. \A p \in r.work : ~SeenActive(job, p)
        BY <2>0, <3>2 DEF UnseenRow, Walking
      <3>6. \A p \in free(batch) : ~SeenActive(job, p)
        BY <3>1, <3>4, <3>5
      <3>7. /\ CampaignFence'
            /\ \A p : p \notin free(batch) /\ ~SeenActive(job, p) => ~SeenActive(job, p)'
        BY <2>0, <3>1, <3>3, <3>6, MintCampaign
      <3>8. UnseenRow(worker[w])'
        BY <3>1, <3>2, <3>4, <3>5, <3>7 DEF UnseenRow
      <3>9. \A v \in Worker : v # w => UnseenRow(worker[v])'
        BY <2>4, <3>1, <3>2, UnseenApart DEF Driving
      <3> QED
        BY <3>7, <3>8, <3>9 DEF CampaignOnce
    <2> QED
      BY <1>2, <2>1, <2>2, <2>3
  <1> QED
    BY <1>1, <1>2, QuietOrWalks

\* While no two sweeps hold variants of one campaign, and work without failures, the
\* variants never mail one address twice between them, however their sweeps, cancels,
\* relaunches and retries alternate, mail that failed in transport aside.
THEOREM SiblingsMailOnceApart ==
    ASSUME PeersAreMutual, DistinctAddresses,
           "crash" \notin Faults, "slow" \notin Faults, "attach" \notin Faults
    PROVE  Spec /\ []CampaignsDisjoint => []CampaignDisjoint
  <1> DEFINE Inv == TypeInv /\ Calm /\ Once /\ CampaignOnce
  <1>1. Init => Inv
    <2>1. Init => CampaignOnce
      BY DEF Init, CampaignOnce, CampaignFence, UnseenRow, Walking, Active, NoTrace, Asleep
    <2> QED
      BY <2>1, InitTyped, CalmAtFirst, OnceAtFirst
  <1>2. Inv /\ CampaignsDisjoint /\ [Next]_vars => Inv'
    BY NextTyped, CalmKept, OnceKept, CampaignKept
  <1>3. Inv => CampaignDisjoint
    <2> SUFFICES ASSUME Inv, NEW t \in Trace, NEW u \in Trace,
                        NEW k \in 1 .. MaxMails, NEW l \in 1 .. MaxMails,
                        Standing(t, k), Standing(u, l),
                        t[1] \in Peers[u[1]], EmailOf[t[2]] = EmailOf[u[2]]
                 PROVE  t = u /\ k = l
      BY DEF CampaignDisjoint
    <2>1. t[2] = u[2]
      BY DEF Trace, DistinctAddresses
    <2> QED
      BY <2>1, StandingIsActive DEF CampaignOnce, CampaignFence
  <1> QED
    BY <1>1, <1>2, <1>3, PTL DEF Spec

\* The same for a lone worker.
THEOREM SiblingsMailOnce ==
    ASSUME OneWorker, PeersAreMutual, DistinctAddresses,
           "crash" \notin Faults, "slow" \notin Faults, "attach" \notin Faults
    PROVE  Spec => []CampaignDisjoint
  BY AloneIsApart, SiblingsMailOnceApart, PTL

-----------------------------------------------------------------------------
(* Contacts that share an address are mailed once. *)

Twins(p, q) == p # q /\ EmailOf[p] = EmailOf[q]

SeenBySibling(m, p) == \E t \in Trace : t[1] \in Peers[m] \ {m} /\ t[2] = p /\ Active(t)

\* No walk of m will take p up.
Barred(m, p) == SuppressedHere(m, p) \/ SeenBySibling(m, p)

\* Whoever is sent to, the others with the address are cancelled first.
TwinRow(r) ==
    Walking(r) =>
        /\ r.cancels \cup r.work \subseteq Audience[r.job]
        /\ \A p \in r.work, q \in Audience[r.job] : Twins(p, q) =>
            /\ q \notin r.work
            /\ q \in r.cancels \/ Barred(r.job, q)
            /\ \A t \in Trace : t[1] = r.job /\ t[2] = q => ~SendRow(trace[t])

(* The strengthening of NoDoubleSend for shared addresses, beside Calm, Once and
   the mint fence.  It speaks of sends that were retried and hidden as well: a
   twin's cancel trace outlives them. *)
TwinsApart ==
    /\ \A t \in Trace : trace[t].status # "absent" => t[2] \in Audience[t[1]]
    /\ \A t \in Trace : SendRow(trace[t]) =>
        \A q \in Audience[t[1]] : Twins(t[2], q) => Barred(t[1], q)
    /\ \A t, u \in Trace :
        /\ SendRow(trace[t]) /\ SendRow(trace[u])
        /\ t[1] = u[1] /\ EmailOf[t[2]] = EmailOf[u[2]]
        => t[2] = u[2]
    /\ \A w \in Worker : TwinRow(worker[w])

\* No statement lifts a bar: retries hide failed sends, and none of a sibling.
LEMMA BarStays ==
    ASSUME RetryIsLocal, NEW m \in Mailing, NEW p, Barred(m, p),
           \A t \in Trace : RowKept(trace[t], trace'[t]) \/ Hidden(t)
    PROVE  Barred(m, p)'
  <1>1. CASE SuppressedHere(m, p)
    <2>1. PICK t \in Trace : t[1] = m /\ t[2] = p /\ trace[t].live /\ trace[t].status = "cancel"
      BY <1>1 DEF SuppressedHere, SuppressedTrace
    <2>2. trace'[t].live /\ trace'[t].status = "cancel"
      BY <2>1 DEF RowKept, Hidden, SendRow
    <2> QED
      BY <2>1, <2>2 DEF Barred, SuppressedHere, SuppressedTrace
  <1>2. CASE SeenBySibling(m, p)
    <2>1. PICK t \in Trace : t[1] \in Peers[m] \ {m} /\ t[2] = p /\ Active(t)
      BY <1>2 DEF SeenBySibling
    <2>2. ~Hidden(t)
      BY <2>1 DEF Hidden, RetryIsLocal
    <2>3. Active(t)'
      BY <2>1, <2>2 DEF Active, RowKept, SendRow
    <2> QED
      BY <2>1, <2>3 DEF Barred, SeenBySibling
  <1> QED
    BY <1>1, <1>2 DEF Barred

LEMMA BarThroughMint ==
    ASSUME NEW m, NEW p, Barred(m, p), NEW n, NEW F, NEW status, Mint(Slots(n, F), status)
    PROVE  Barred(m, p)'
  <1>1. CASE SuppressedHere(m, p)
    <2>1. PICK t \in Trace : t[1] = m /\ t[2] = p /\ trace[t].live /\ trace[t].status = "cancel"
      BY <1>1 DEF SuppressedHere, SuppressedTrace
    <2>2. trace'[t] = trace[t]
      BY <2>1, MintSparesRows
    <2> QED
      BY <2>1, <2>2 DEF Barred, SuppressedHere, SuppressedTrace
  <1>2. CASE SeenBySibling(m, p)
    <2>1. PICK t \in Trace : t[1] \in Peers[m] \ {m} /\ t[2] = p /\ Active(t)
      BY <1>2 DEF SeenBySibling
    <2>2. trace'[t] = trace[t]
      BY <2>1, MintSparesRows DEF Active
    <2> QED
      BY <2>1, <2>2 DEF Barred, SeenBySibling, Active
  <1> QED
    BY <1>1, <1>2 DEF Barred

\* The walk's order keeps one contact of each address.
LEMMA FirstOfTwins ==
    ASSUME IsFiniteSet(Recipient), NEW A \in SUBSET Recipient, NEW F \in FirstOfEach(A),
           NEW p \in F, NEW q \in F, EmailOf[p] = EmailOf[q]
    PROVE  p = q
  <1> DEFINE same == {x \in F : EmailOf[x] = EmailOf[p]}
  <1>1. F \subseteq A /\ p \in A
    BY DEF FirstOfEach
  <1>2. Cardinality(same) = 1
    BY <1>1 DEF FirstOfEach
  <1>3. IsFiniteSet(same)
    BY <1>1, FS_Subset
  <1>4. \E x : same = {x}
    BY <1>2, <1>3, FS_Singleton
  <1> QED
    BY <1>4

\* Other walks are of other mailings: what is minted meanwhile only adds bars.
LEMMA TwinsElsewhere ==
    ASSUME TypeInv, ClaimsDisjoint, NEW w \in Worker, Driving(worker[w]),
           NEW F, NEW status, Mint(Slots(worker[w].job, F), status),
           NEW v \in Worker, v # w, worker'[v] = worker[v], TwinRow(worker[v])
    PROVE  TwinRow(worker[v])'
  <1>1. Walking(worker[v]) => worker[w].job # worker[v].job
    BY DrivenApart DEF Walking, Driving
  <1>2. \A t \in Trace : t[1] # worker[w].job => trace'[t] = trace[t]
    BY DEF Mint, Slots
  <1>3. \A m, p : Barred(m, p) => Barred(m, p)'
    BY BarThroughMint
  <1> QED
    BY <1>1, <1>2, <1>3 DEF TwinRow, Walking

LEMMA TwinsProbe ==
    ASSUME TypeInv, TwinsApart, IsFiniteSet(Recipient),
           NEW w \in Worker, Probe(w)
    PROVE  TwinsApart'
  <1> DEFINE s == worker'[w]
  <1> PICK job : job = worker[w].job
    OBVIOUS
  <1>1. PICK F \in FirstOfEach(Audience[job]) :
          s.cancels = {p \in Unseen(job) : p \notin F \/ Suppressed(job, EmailOf[p])}
    BY ProbeEffect
  <1>2. /\ s.pc = "walk" /\ s.job = job /\ trace' = trace
        /\ s.work \subseteq (Unseen(job) \ s.cancels) \cap Sample[job]
    BY ProbeEffect
  <1>3. job \in Mailing /\ Audience[job] \in SUBSET Recipient
    BY MailingsAssumption DEF Probe, TypeInv, Engaged, EngagedRow
  <1>4. Unseen(job) \subseteq Audience[job] /\ s.work \subseteq Unseen(job) \cap F
    BY <1>1, <1>2 DEF Unseen
  <1>5. \A p \in Unseen(job) : ~Barred(job, p)
    BY DEF Unseen, Barred, SeenBySibling, SeenActive
  <1>6. ASSUME NEW p \in s.work, NEW q \in Audience[job], Twins(p, q)
        PROVE  /\ q \notin F /\ q \notin s.work
               /\ \A t \in Trace : t[1] = job /\ t[2] = q => ~SendRow(trace[t])
               /\ q \in s.cancels \/ Barred(job, q)
    <2>1. q \notin F
      BY <1>3, <1>4, <1>6, FirstOfTwins DEF Twins
    <2>2. p \in Audience[job] /\ Twins(q, p) /\ ~Barred(job, p)
      BY <1>4, <1>5, <1>6 DEF Twins
    <2>3. \A t \in Trace : t[1] = job /\ t[2] = q => ~SendRow(trace[t])
      BY <2>2 DEF TwinsApart
    <2>4. q \in Unseen(job) => q \in s.cancels
      BY <1>1, <2>1
    <2>5. SeenActive(job, q) => Barred(job, q)
      BY <2>3 DEF SeenActive, Barred, SeenBySibling, Active, SendRow
    <2>6. SuppressedHere(job, q) => Barred(job, q)
      BY DEF Barred
    <2> QED
      BY <1>4, <2>1, <2>3, <2>4, <2>5, <2>6 DEF Unseen
  <1>7. \A m, p : Barred(m, p)' <=> Barred(m, p)
    BY <1>2 DEF Barred, SuppressedHere, SuppressedTrace, SeenBySibling, Active
  <1>8. TwinRow(worker[w])'
    <2>1. s.cancels \cup s.work \subseteq Audience[job]
      BY <1>1, <1>4
    <2> QED
      BY <1>2, <1>6, <1>7, <2>1 DEF TwinRow
  <1>9. ASSUME NEW v \in Worker, v # w
        PROVE  TwinRow(worker[v])'
    <2>1. worker'[v] = worker[v] /\ TwinRow(worker[v])
      BY <1>9, OthersStand DEF Step, TwinsApart
    <2> QED
      BY <1>2, <1>7, <2>1 DEF TwinRow, Walking
  <1> QED
    BY <1>2, <1>7, <1>8, <1>9 DEF TwinsApart

LEMMA TwinsQuiet ==
    ASSUME TypeInv, TwinsApart, RetryIsLocal, Quiet
    PROVE  TwinsApart'
  <1>1. \A t \in Trace : /\ SendRow(trace'[t]) => SendRow(trace[t])
                         /\ trace'[t].status # "absent" => trace[t].status # "absent"
    BY DEF Quiet, RowKept, Hidden, SendRow
  <1>2. \A m \in Mailing : \A p : Barred(m, p) => Barred(m, p)'
    BY BarStays DEF Quiet
  <1>3. \A t \in Trace : t[1] \in Mailing
    BY DEF Trace
  <1>4. ASSUME NEW w \in Worker
        PROVE  TwinRow(worker[w])'
    <2> DEFINE r == worker[w]
               s == worker'[w]
    <2> PICK job : job = worker[w].job
      OBVIOUS
    <2>1. CASE ~Walking(s)
      BY <2>1 DEF TwinRow, Walking
    <2>2. CASE SameWalk(r, s)
      <3>1. job \in Mailing /\ s.job = job
        BY <2>2 DEF SameWalk, Walking, TypeInv, Engaged, EngagedRow
      <3>2. TwinRow(r)
        BY DEF TwinsApart
      <3> QED
        BY <1>1, <1>2, <2>2, <3>1, <3>2 DEF TwinRow, SameWalk
    <2> QED
      BY <2>1, <2>2 DEF Quiet
  <1> QED
    BY <1>1, <1>2, <1>3, <1>4 DEF TwinsApart

LEMMA TwinsCancel ==
    ASSUME TypeInv, TwinsApart, ClaimsDisjoint, NEW w \in Worker, NEW c \in Recipient,
           MintCancel(w, c)
    PROVE  TwinsApart'
  <1> DEFINE r == worker[w]
             s == worker'[w]
  <1> PICK job : job = worker[w].job
    OBVIOUS
  <1>1. /\ r.pc = "walk" /\ s.pc = "walk" /\ s.job = job /\ s.work = r.work
        /\ c \in r.cancels /\ s.cancels = r.cancels \ {c}
        /\ HasSlots(job, {c}) /\ Mint(Slots(job, {c}), "cancel")
    BY MintCancelEffect
  <1>2. TwinRow(r) /\ c \in Audience[job]
    BY <1>1 DEF TwinsApart, TwinRow, Walking
  <1>3. \A t \in Trace : SendRow(trace'[t]) => SendRow(trace[t])
    BY <1>1 DEF Mint, FreshTrace, SendRow
  <1>4. \A t \in Trace : trace'[t].status # "absent" => t[2] \in Audience[t[1]]
    BY <1>1, <1>2 DEF Mint, Slots, TwinsApart
  <1>5. \A m, p : Barred(m, p) => Barred(m, p)'
    BY <1>1, BarThroughMint
  <1>6. Barred(job, c)'
    <2>1. PICK t \in Trace : t[1] = job /\ t[2] = c /\ trace'[t] = FreshTrace("cancel")
      BY <1>1, SlotMinted
    <2> QED
      BY <2>1 DEF Barred, SuppressedHere, SuppressedTrace, FreshTrace
  <1>7. TwinRow(worker[w])'
    BY <1>1, <1>2, <1>3, <1>5, <1>6 DEF TwinRow, Walking
  <1>8. ASSUME NEW v \in Worker, v # w
        PROVE  TwinRow(worker[v])'
    <2>1. worker'[v] = worker[v] /\ TwinRow(worker[v])
      BY <1>8, OthersStand DEF Step, TwinsApart
    <2> QED
      BY <1>1, <1>8, <2>1, TwinsElsewhere DEF Driving
  <1> QED
    BY <1>3, <1>4, <1>5, <1>7, <1>8 DEF TwinsApart

LEMMA TwinsBatch ==
    ASSUME TypeInv, TwinsApart, ClaimsDisjoint, NEW w \in Worker, MintBatch(w)
    PROVE  TwinsApart'
  <1> DEFINE r == worker[w]
             s == worker'[w]
  <1> PICK job : job = worker[w].job
    OBVIOUS
  <1> DEFINE free(b) == {p \in b : ~Fenced(job, p)}
  <1>1. PICK batch \in SUBSET r.work :
          s.work = r.work \ batch /\ Mint(Slots(job, free(batch)), "outgoing")
    BY MintBatchEffect
  <1>2. r.pc = "walk" /\ s.pc = "walk" /\ s.job = job /\ r.cancels = {} /\ s.cancels = {}
    BY MintBatchEffect
  <1> DEFINE new == Slots(job, free(batch))
  <1>3. /\ \A v \in new : v \in Trace /\ v[1] = job /\ v[2] \in batch
        /\ \A v \in Trace : v \notin new => trace'[v] = trace[v]
    BY <1>1 DEF Slots, Mint
  <1>4. \A m, p : Barred(m, p) => Barred(m, p)'
    BY <1>1, BarThroughMint
  <1>10. ASSUME NEW v \in Worker, v # w
         PROVE  TwinRow(worker[v])'
    <2>1. worker'[v] = worker[v] /\ TwinRow(worker[v])
      BY <1>10, OthersStand DEF Step, TwinsApart
    <2> QED
      BY <1>1, <1>2, <1>10, <2>1, TwinsElsewhere DEF Driving
  <1> HIDE DEF new, free
  <1>5. /\ r.work \subseteq Audience[job]
        /\ \A p \in r.work, q \in Audience[job] : Twins(p, q) =>
            /\ q \notin r.work /\ Barred(job, q)
            /\ \A t \in Trace : t[1] = job /\ t[2] = q => ~SendRow(trace[t])
    BY <1>2 DEF TwinsApart, TwinRow, Walking
  <1>6. \A t \in Trace : trace'[t].status # "absent" => t[2] \in Audience[t[1]]
    BY <1>1, <1>3, <1>5 DEF TwinsApart
  <1>7. \A t \in Trace : SendRow(trace'[t]) =>
            \A q \in Audience[t[1]] : Twins(t[2], q) => Barred(t[1], q)'
    BY <1>1, <1>3, <1>4, <1>5 DEF TwinsApart
  <1>8. ASSUME NEW t \in Trace, NEW u \in Trace, SendRow(trace'[t]), SendRow(trace'[u]),
               t[1] = u[1], EmailOf[t[2]] = EmailOf[u[2]], t[2] # u[2]
        PROVE  FALSE
    <2>1. Twins(t[2], u[2]) /\ Twins(u[2], t[2])
      BY <1>8 DEF Twins
    <2>2. CASE t \notin new /\ u \notin new
      BY <1>3, <1>8, <2>2 DEF TwinsApart
    <2>3. t[2] \in Audience[t[1]] /\ u[2] \in Audience[t[1]]
      BY <1>6, <1>8 DEF SendRow
    <2>4. CASE t \in new
      BY <1>1, <1>3, <1>5, <1>8, <2>1, <2>3, <2>4
    <2>5. CASE u \in new
      BY <1>1, <1>3, <1>5, <1>8, <2>1, <2>3, <2>5
    <2> QED
      BY <2>2, <2>4, <2>5
  <1>9. TwinRow(worker[w])'
    <2>1. ASSUME NEW p \in s.work, NEW q \in Audience[job], Twins(p, q)
          PROVE  /\ q \notin s.work /\ Barred(job, q)'
                 /\ \A t \in Trace : t[1] = job /\ t[2] = q => ~SendRow(trace'[t])
      <3>1. /\ p \in r.work /\ q \notin r.work /\ Barred(job, q)
            /\ \A t \in Trace : t[1] = job /\ t[2] = q => ~SendRow(trace[t])
        BY <1>1, <1>5, <2>1
      <3> QED
        BY <1>1, <1>3, <1>4, <3>1
    <2> QED
      BY <1>1, <1>2, <1>5, <2>1 DEF TwinRow
  <1> QED
    BY <1>6, <1>7, <1>8, <1>9, <1>10 DEF TwinsApart

LEMMA TwinsKept ==
    ASSUME TypeInv, TwinsApart, IsFiniteSet(Recipient), ClaimsDisjoint, RetryIsLocal,
           [Next]_vars
    PROVE  TwinsApart'
  BY QuietOrWalks, TwinsQuiet, TwinsProbe, TwinsCancel, TwinsBatch

\* While no two sweeps hold the same mailing, and work without failures, contacts
\* that share an address get one mail between them, although every pass picks anew
\* which of them comes first: passes, cancels, relaunches and retries of a mailing
\* never send to a second one.  Retries are for mailings without siblings: a
\* sibling's send, not a cancel trace, may be what bars the second contact.
THEOREM SharedAddressMailedOnceApart ==
    ASSUME RetryIsLocal, IsFiniteSet(Recipient),
           "crash" \notin Faults, "slow" \notin Faults, "attach" \notin Faults
    PROVE  Spec /\ []ClaimsDisjoint => []NoDoubleSend
  <1> DEFINE Inv == TypeInv /\ Calm /\ Once /\ TwinsApart
  <1>1. Init => Inv
    <2>1. Init => TwinsApart
      BY DEF Init, TwinsApart, TwinRow, Walking, SendRow, NoTrace, Asleep
    <2> QED
      BY <2>1, InitTyped, CalmAtFirst, OnceAtFirst
  <1>2. Inv /\ ClaimsDisjoint /\ [Next]_vars => Inv'
    BY NextTyped, CalmKept, OnceKept, TwinsKept
  <1>3. Inv /\ MintFence => NoDoubleSend
    <2> SUFFICES ASSUME Inv, MintFence, NEW t \in Trace, NEW u \in Trace,
                        NEW k \in 1 .. MaxMails, NEW l \in 1 .. MaxMails,
                        Standing(t, k), Standing(u, l),
                        t[1] = u[1], EmailOf[t[2]] = EmailOf[u[2]]
                 PROVE  t = u /\ k = l
      BY DEF NoDoubleSend
    <2>1. Active(t) /\ Active(u) /\ k = 1 /\ l = 1
      BY StandingIsActive
    <2>2. t[2] = u[2]
      BY <2>1 DEF Active, SendRow, TwinsApart
    <2> QED
      BY <2>1, <2>2 DEF MintFence
  <1> QED
    BY <1>1, <1>2, <1>3, MintFenceHolds, PTL DEF Spec

\* The same for a lone worker.
THEOREM SharedAddressMailedOnce ==
    ASSUME OneWorker, RetryIsLocal, IsFiniteSet(Recipient),
           "crash" \notin Faults, "slow" \notin Faults, "attach" \notin Faults
    PROVE  Spec => []NoDoubleSend
  BY AloneIsApart, SharedAddressMailedOnceApart, PTL
=============================================================================
