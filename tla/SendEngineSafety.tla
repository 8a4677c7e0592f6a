-------------------------- MODULE SendEngineSafety --------------------------
(***************************************************************************)
(* What overlapping workers guarantee: as long as none of them dies and no *)
(* batch outlasts the repair grace, no minted recipient is forgotten and   *)
(* none is mailed twice; as long as the suppression lists stand still, no  *)
(* suppressed address is mailed.                                           *)
(***************************************************************************)
EXTENDS SendEngineProofs

-----------------------------------------------------------------------------
(* Nobody is forgotten. *)

OrphanRow(row) == row.live /\ row.status = "outgoing" /\ row.link = 0

\* Only a walk holds traces: the repair arm never finds any.
CalmRow(r) ==
    /\ r.pc # "relink"
    /\ r.pc \notin {"walk", "link"} => r.hand = {}

(* The strengthening of OrphansAreHeld.  An orphan that is held does not age, an
   orphan that did not age is not repaired, and so the walk that minted it is the
   only one that ever drops it, once it is linked or failed. *)
Calm ==
    /\ \A w \in Worker : CalmRow(worker[w])
    /\ \A t \in Trace : OrphanRow(trace[t]) =>
        /\ ~trace[t].aged
        /\ \E w \in Worker : t \in worker[w].hand

LEMMA OrphansAreRows ==
    ASSUME NEW t \in Trace
    PROVE  t \in OrphansOfAnyAge(t[1]) <=> OrphanRow(trace[t])
  BY DEF OrphansOfAnyAge, OrphanRow

\* A step of one worker, or a claim, leaves the others' locals alone.
LEMMA OthersStand ==
    ASSUME TypeInv, NEW w \in Worker, Step(w) \/ \E S \in SUBSET Mailing : Claim(w, S),
           NEW v \in Worker, v # w
    PROVE  worker'[v] = worker[v]
  BY DEF TypeInv, TypeOK, Step, Claim, ClaimNothing, Drive, DrivesDone, DriveFails,
         FinishEmpty, Probe, MintCancel, MintBatch, Post, Attach, PostRefused, AttachFails,
         EnqueueErr, HandOn, Finish, Reconcile

\* Without a new orphan and without a worker's step, calm stays.
LEMMA CalmOutside ==
    ASSUME Calm, UNCHANGED worker,
           \A t \in Trace : OrphanRow(trace'[t]) =>
                OrphanRow(trace[t]) /\ trace'[t].aged = trace[t].aged
    PROVE  Calm'
  BY DEF Calm, CalmRow

\* Nor does a worker's step disturb it that keeps in hand every orphan which the
\* worker held or minted.
LEMMA CalmStep ==
    ASSUME Calm, NEW w \in Worker,
           \A v \in Worker : v # w => worker'[v] = worker[v],
           CalmRow(worker'[w]),
           \A t \in Trace : OrphanRow(trace'[t]) =>
                /\ ~trace'[t].aged
                /\ t \in worker'[w].hand \/ (OrphanRow(trace[t]) /\ t \notin worker[w].hand)
    PROVE  Calm'
  <1>1. \A v \in Worker : CalmRow(worker'[v])
    BY DEF Calm
  <1>2. ASSUME NEW t \in Trace, OrphanRow(trace'[t])
        PROVE  \E v \in Worker : t \in worker'[v].hand
    <2>1. CASE t \in worker'[w].hand
      BY <2>1
    <2>2. CASE OrphanRow(trace[t]) /\ t \notin worker[w].hand
      <3>1. PICK v \in Worker : t \in worker[v].hand
        BY <2>2 DEF Calm
      <3> QED
        BY <2>2, <3>1
    <2> QED
      BY <1>2, <2>1, <2>2
  <1> QED
    BY <1>1, <1>2 DEF Calm, CalmRow, OrphanRow

\* No verb makes an orphan of another row, or makes one older.
LEMMA VerbsMakeNoOrphan ==
    ASSUME NEW row \in TraceRow
    PROVE  /\ ~OrphanRow(SetSent(row)) /\ ~OrphanRow(SetOpened(row))
           /\ ~OrphanRow(SetReplied(row)) /\ ~OrphanRow(SetBounced(row))
           /\ ~OrphanRow(SetFailed(row))
           /\ \A k \in Nat \ {0} : ~OrphanRow(Attached(row, k))
  BY DEF TraceRow, OrphanRow, SetSent, SetOpened, SetReplied, SetBounced, SetFailed,
         Moved, Attached

LEMMA CalmWithoutWorkers ==
    ASSUME TypeInv, Calm, "slow" \notin Faults, (\E m \in Mailing : Operator(m)) \/ Outside
    PROVE  Calm'
  <1>0. trace \in [Trace -> TraceRow]
    BY DEF TypeInv, TypeOK
  <1>1. ASSUME NEW m \in Mailing, RetryFailed(m)
        PROVE  Calm'
    <2>1. \A t \in Trace : OrphanRow(trace'[t]) =>
            OrphanRow(trace[t]) /\ trace'[t].aged = trace[t].aged
      BY <1>0, <1>1 DEF RetryFailed, FailedTraces, OrphanRow, TraceRow
    <2> QED
      BY <1>1, <2>1, CalmOutside DEF RetryFailed
  <1>2. ASSUME NEW t \in Trace, Age(t)
        PROVE  FALSE
    BY <1>2, OrphansAreRows DEF Age, Calm
  <1>3. ASSUME NEW t \in Trace, Tracked(t)
        PROVE  Calm'
    <2>1. PICK fact \in {"open", "reply", "bounce"} :
            trace' = [trace EXCEPT ![t] = CASE fact = "open"   -> SetOpened(@)
                                            [] fact = "reply"  -> SetReplied(@)
                                            [] fact = "bounce" -> SetBounced(@)]
      BY <1>3, ScenarioAssumption DEF Tracked
    <2>2. \A u \in Trace : OrphanRow(trace'[u]) =>
            OrphanRow(trace[u]) /\ trace'[u].aged = trace[u].aged
      BY <1>0, <2>1, VerbsMakeNoOrphan
    <2> QED
      BY <1>3, <2>2, CalmOutside DEF Tracked
  <1>4. CASE UNCHANGED <<trace, worker>>
    BY <1>4, CalmOutside
  <1> QED
    BY <1>1, <1>2, <1>3, <1>4
    DEF Operator, Launch, Cancel, Requeue, Outside, ComesDue, Settle, OptOut, Resubscribe,
        Blacklist

\* The steps that touch neither traces nor mails are those of a worker whose hand
\* is empty, and they leave it empty: there are no orphans to repair.
LEMMA IdleHand ==
    ASSUME TypeInv, Calm, "crash" \notin Faults, NEW w \in Worker,
           \/ \E S \in SUBSET Mailing : Claim(w, S)
           \/ ClaimNothing(w) \/ (\E m \in Mailing : Drive(w, m)) \/ DrivesDone(w)
           \/ DriveFails(w) \/ FinishEmpty(w) \/ Probe(w) \/ Finish(w)
    PROVE  /\ trace' = trace /\ mails' = mails
           /\ worker[w].hand = {} /\ worker[w].pc \notin {"relink", "link"}
           /\ worker'[w].hand = {} /\ worker'[w].pc \notin {"relink", "link"}
           /\ worker'[w].post \in {None, worker[w].post}
  <1>1. trace' = trace /\ mails' = mails
    BY DEF Claim, ClaimNothing, Drive, DrivesDone, DriveFails, FinishEmpty, Probe, Finish
  <1>2. worker[w].hand = {} /\ worker[w].pc \notin {"relink", "link"}
    BY DEF Claim, ClaimNothing, Drive, DrivesDone, DriveFails, FinishEmpty, Probe, Finish,
           Calm, CalmRow
  <1>3. \A m : Orphans(m) = {}
    BY OrphansAreRows DEF Calm, Orphans, OrphansOfAnyAge, OrphanRow
  <1>4. /\ worker'[w].hand = {} /\ worker'[w].pc \notin {"relink", "link"}
        /\ worker'[w].post \in {None, worker[w].post}
    <2>1. worker \in [Worker -> WorkerRow] /\ worker[w] \in WorkerRow
      BY DEF TypeInv, TypeOK
    <2>2. ASSUME NEW S \in SUBSET Mailing, Claim(w, S)
          PROVE  worker'[w].hand = {} /\ worker'[w].pc = "drive" /\ worker'[w].post = None
      <3>1. PICK c : worker' = [worker EXCEPT ![w] =
                                  [Asleep EXCEPT !.pc = "drive", !.claims = c]]
        BY <2>2 DEF Claim
      <3> QED
        BY <2>1, <3>1 DEF Asleep
    <2>3. ASSUME ClaimNothing(w) \/ DrivesDone(w)
          PROVE  /\ worker'[w].hand = {} /\ worker'[w].pc \in {"drive", "reconcile"}
                 /\ worker'[w].post = worker[w].post
      <3>1. PICK pc \in {"drive", "reconcile"} : worker' = [worker EXCEPT ![w].pc = pc]
        BY <2>3 DEF ClaimNothing, DrivesDone
      <3> QED
        BY <1>2, <2>1, <3>1 DEF WorkerRow
    <2>4. ASSUME Probe(w)
          PROVE  /\ worker'[w].hand = {} /\ worker'[w].pc = "walk"
                 /\ worker'[w].post = worker[w].post
      <3> DEFINE m       == worker[w].job
                 unseen  == {p \in Audience[m] : ~SeenActive(m, p) /\ ~SuppressedHere(m, p)}
                 cancels(F) == {p \in unseen : p \notin F \/ Suppressed(m, EmailOf[p])}
                 send(F) == (unseen \ cancels(F)) \cap Sample[m]
      <3>1. PICK F \in FirstOfEach(Audience[m]) : \E work \in SUBSET send(F) :
              worker' = [worker EXCEPT ![w].pc = "walk", ![w].cancels = cancels(F),
                                       ![w].work = work, ![w].more = work # send(F)]
        BY <2>4 DEF Probe
      <3> HIDE DEF cancels, send
      <3> QED
        BY <1>2, <2>1, <3>1 DEF WorkerRow
    <2>5. ASSUME NEW m \in Mailing, Drive(w, m)
          PROVE  /\ worker'[w].hand = {} /\ worker'[w].pc = "repair"
                 /\ worker'[w].post = worker[w].post
      BY <1>3, <2>1, <2>5 DEF Drive, WorkerRow
    <2>6. ASSUME DriveFails(w) \/ FinishEmpty(w) \/ Finish(w)
          PROVE  worker'[w].hand = {} /\ worker'[w].pc = "drive" /\ worker'[w].post = None
      <3>1. worker' = [worker EXCEPT ![w] = NextDrive(w)]
        BY <2>6 DEF DriveFails, FinishEmpty, Finish
      <3> QED
        BY <2>1, <3>1 DEF NextDrive, Asleep
    <2> QED
      BY <2>2, <2>3, <2>4, <2>5, <2>6
  <1> QED
    BY <1>1, <1>2, <1>4

LEMMA CalmIdleHand ==
    ASSUME TypeInv, Calm, "crash" \notin Faults, NEW w \in Worker,
           \/ \E S \in SUBSET Mailing : Claim(w, S)
           \/ ClaimNothing(w) \/ (\E m \in Mailing : Drive(w, m)) \/ DrivesDone(w)
           \/ DriveFails(w) \/ FinishEmpty(w) \/ Probe(w) \/ Finish(w)
    PROVE  Calm'
  <1>1. \A v \in Worker : v # w => worker'[v] = worker[v]
    BY OthersStand DEF Step
  <1>2. /\ trace' = trace /\ worker[w].hand = {}
        /\ worker'[w].hand = {} /\ worker'[w].pc # "relink"
    BY IdleHand
  <1> QED
    BY <1>1, <1>2, CalmStep DEF Calm, CalmRow

\* A trace leaves the hand when it is an orphan no more.
LEMMA CalmHandOn ==
    ASSUME TypeInv, Calm, NEW w \in Worker, NEW t, HandOn(w, t),
           worker[w].pc \in {"walk", "link"},
           \A u \in Trace : OrphanRow(trace'[u]) => u # t /\ trace'[u] = trace[u]
    PROVE  Calm'
  <1>1. \A v \in Worker : v # w => worker'[v] = worker[v]
    BY DEF HandOn, TypeInv, TypeOK
  <1>2. worker'[w].hand = worker[w].hand \ {t} /\ worker'[w].pc = "walk"
    BY DEF HandOn, TypeInv, TypeOK, WorkerRow
  <1>3. CalmRow(worker'[w])
    BY <1>2 DEF CalmRow
  <1>4. \A u \in Trace : OrphanRow(trace'[u]) =>
            /\ ~trace'[u].aged
            /\ u \in worker'[w].hand \/ (OrphanRow(trace[u]) /\ u \notin worker[w].hand)
    BY <1>2 DEF Calm
  <1> QED
    BY <1>1, <1>3, <1>4, CalmStep

LEMMA CalmEnqueueErr ==
    ASSUME TypeInv, Calm, NEW w \in Worker, NEW t \in Trace, EnqueueErr(w, t),
           worker[w].pc \in {"walk", "link"}
    PROVE  Calm'
  <1>1. trace' = [trace EXCEPT ![t] = SetFailed(@)] /\ trace[t] \in TraceRow
    BY DEF EnqueueErr, TypeInv, TypeOK
  <1>2. \A u \in Trace : OrphanRow(trace'[u]) => u # t /\ trace'[u] = trace[u]
    BY <1>1, VerbsMakeNoOrphan DEF TypeInv, TypeOK
  <1> QED
    BY <1>2, CalmHandOn DEF EnqueueErr

LEMMA CalmWorker ==
    ASSUME TypeInv, Calm, "crash" \notin Faults, NEW w \in Worker, Step(w)
    PROVE  Calm'
  <1> DEFINE r == worker[w]
  <1>0. /\ trace \in [Trace -> TraceRow]
        /\ CalmRow(r) /\ EngagedRow(r)
        /\ \A v \in Worker : v # w => worker'[v] = worker[v]
    BY OthersStand DEF TypeInv, TypeOK, Calm, Engaged
  <1>1. ASSUME NEW p \in Recipient, MintCancel(w, p)
        PROVE  Calm'
    <2>1. worker'[w].hand = r.hand /\ worker'[w].pc = r.pc
      BY <1>1 DEF MintCancel, TypeInv, TypeOK, WorkerRow
    <2>2. \A t \in Trace : OrphanRow(trace'[t]) => trace'[t] = trace[t]
      BY <1>1 DEF MintCancel, Mint, FreshTrace, OrphanRow
    <2> QED
      BY <1>0, <2>1, <2>2, CalmStep DEF CalmRow, Calm
  <1>2. CASE MintBatch(w)
    <2>1. PICK batch \in SUBSET r.work :
            LET free == {p \in batch : ~Fenced(r.job, p)}
            IN  /\ Mint(Slots(r.job, free), "outgoing")
                /\ worker' = [worker EXCEPT ![w].work = @ \ batch,
                                            ![w].hand = Slots(r.job, free)]
      BY <1>2 DEF MintBatch
    <2> DEFINE new == Slots(r.job, {p \in batch : ~Fenced(r.job, p)})
    <2>2. worker'[w].hand = new /\ worker'[w].pc = "walk" /\ r.hand = {}
      BY <1>2, <2>1 DEF MintBatch, TypeInv, TypeOK, WorkerRow
    <2>3. \A t \in Trace : IF t \in new THEN ~trace'[t].aged ELSE trace'[t] = trace[t]
      BY <2>1 DEF Mint, FreshTrace
    <2> HIDE DEF new
    <2>4. \A t \in Trace : OrphanRow(trace'[t]) =>
            /\ ~trace'[t].aged
            /\ t \in worker'[w].hand \/ (OrphanRow(trace[t]) /\ t \notin r.hand)
      BY <2>2, <2>3 DEF Calm
    <2> QED
      BY <1>0, <2>2, <2>4, CalmStep DEF CalmRow
  <1>3. ASSUME NEW t \in Trace, Post(w, t)
        PROVE  Calm'
    <2>1. r.pc = "walk"
      BY <1>0, <1>3 DEF Post, CalmRow
    <2>2. worker'[w].hand = r.hand /\ worker'[w].pc = "link" /\ trace' = trace
      BY <1>3, <2>1 DEF Post, TypeInv, TypeOK, WorkerRow
    <2> QED
      BY <1>0, <2>2, CalmStep DEF CalmRow, Calm
  <1>4. CASE Attach(w)
    <2>1. r.pc = "link" /\ r.post \in Trace /\ r.row \in Nat \ {0}
      BY <1>0, <1>4 DEF Attach, CalmRow, EngagedRow
    <2>2. \A u \in Trace : OrphanRow(trace'[u]) => u # r.post /\ trace'[u] = trace[u]
      BY <1>0, <1>4, <2>1, VerbsMakeNoOrphan DEF Attach
    <2> QED
      BY <1>4, <2>1, <2>2, CalmHandOn DEF Attach
  <1>5. ASSUME NEW t \in Trace, PostRefused(w, t)
        PROVE  Calm'
    BY <1>0, <1>5, CalmEnqueueErr DEF PostRefused, CalmRow
  <1>6. CASE AttachFails(w)
    BY <1>0, <1>6, CalmEnqueueErr DEF AttachFails, CalmRow, EngagedRow
  <1>7. CASE Reconcile(w)
    <2>1. worker'[w].hand = {} /\ worker'[w].pc = "idle" /\ r.hand = {}
      BY <1>0, <1>7 DEF Reconcile, Asleep, CalmRow, TypeInv, TypeOK
    <2>2. \A t \in Trace : OrphanRow(Reconciled(t)) => Reconciled(t) = trace[t]
      BY <1>0, VerbsMakeNoOrphan DEF Reconciled
    <2>3. \A t \in Trace : OrphanRow(trace'[t]) => trace'[t] = trace[t]
      BY <1>7, <2>2 DEF Reconcile
    <2> QED
      BY <1>0, <2>1, <2>3, CalmStep DEF CalmRow, Calm
  <1> QED
    BY <1>1, <1>2, <1>3, <1>4, <1>5, <1>6, <1>7, CalmIdleHand DEF Step

LEMMA CalmKept ==
    ASSUME TypeInv, Calm, "crash" \notin Faults, "slow" \notin Faults, [Next]_vars
    PROVE  Calm'
  <1>1. CASE UNCHANGED vars
    BY <1>1, CalmOutside DEF vars
  <1>2. \A w \in Worker : ~Crash(w)
    BY DEF Crash
  <1> QED
    BY <1>1, <1>2, CalmWithoutWorkers, CalmIdleHand, CalmWorker DEF Next

LEMMA CalmAtFirst == Init => Calm
  BY DEF Init, Calm, CalmRow, OrphanRow, NoTrace, Asleep

\* As long as no worker dies and no batch outlasts the repair grace, whatever
\* operators, recipients, other workers and the mail queue do, and even if
\* attachments fail, every minted recipient without a mail row is in the hands of
\* a worker that will still enqueue it or fail it.
THEOREM NobodyForgotten ==
    ASSUME "crash" \notin Faults, "slow" \notin Faults
    PROVE  Spec => []OrphansAreHeld
  <1>1. Calm => OrphansAreHeld
    BY OrphansAreRows DEF Calm, OrphansAreHeld
  <1>2. TypeInv /\ Calm /\ [Next]_vars => (TypeInv /\ Calm)'
    BY CalmKept, NextTyped
  <1>3. Init => TypeInv /\ Calm
    BY InitTyped, CalmAtFirst
  <1> QED
    BY <1>1, <1>2, <1>3, PTL DEF Spec

-----------------------------------------------------------------------------
(* Nobody is mailed twice. *)

\* One trace and its mail rows.  A failed trace has no mail row left standing, so
\* that a retry is safe; a hidden trace is a failed one.
SettledOnce(row, queue) ==
    /\ Len(queue) <= 1
    /\ row.status \in {"absent", "cancel"} => queue = <<>>
    /\ row.status = "error" => \A k \in 1 .. Len(queue) : queue[k] = "exception"
    /\ ~row.live => row.status \in {"absent", "error"}
    /\ row.link <= Len(queue)

\* What a worker holds and has not posted yet is an orphan without a mail row.
HoldsUnposted(r) ==
    /\ r.pc # "link" => r.post = None
    /\ r.pc = "link" => r.row <= Len(mails[r.post])
    /\ \A t \in r.hand : t = r.post \/ (OrphanRow(trace[t]) /\ mails[t] = <<>>)

(* The strengthening of NoDoubleSend, beside Calm and the mint fence. *)
Once ==
    /\ \A t \in Trace : SettledOnce(trace[t], mails[t])
    /\ \A w \in Worker : HoldsUnposted(worker[w])
    /\ \A v, w \in Worker : v # w => worker[v].hand \cap worker[w].hand = {}

Grows == \A t \in Trace, k \in Nat : k <= Len(mails[t]) => k <= Len(mails'[t])

StillHeld(t) ==
    OrphanRow(trace[t]) /\ mails[t] = <<>> => OrphanRow(trace'[t]) /\ mails'[t] = <<>>

\* A step that is no worker's.
LEMMA OnceOutside ==
    ASSUME TypeInv, Once, UNCHANGED worker, Grows, \A t \in Trace : StillHeld(t),
           \A t \in Trace : SettledOnce(trace'[t], mails'[t])
    PROVE  Once'
  <1>1. ASSUME NEW w \in Worker
        PROVE  HoldsUnposted(worker[w])'
    <2> DEFINE r == worker[w]
    <2>1. /\ r.hand \subseteq Trace /\ r.row \in Nat
          /\ r.pc = "link" => r.post \in Trace
          /\ mails \in [Trace -> Seq(MailState)] /\ worker' = worker
      BY DEF TypeInv, TypeOK, WorkerRow, Engaged, EngagedRow
    <2>2. HoldsUnposted(r)
      BY DEF Once
    <2>3. r.pc = "link" => r.row <= Len(mails'[r.post])
      BY <2>1, <2>2 DEF HoldsUnposted, Grows
    <2> QED
      BY <2>1, <2>2, <2>3 DEF HoldsUnposted, StillHeld
  <1> QED
    BY <1>1 DEF Once

\* A worker's step: what it holds afterwards is unposted, and it takes nothing that
\* another holds and spoils nothing of it.
LEMMA OnceStep ==
    ASSUME TypeInv, Once, NEW w \in Worker, Grows,
           \A v \in Worker : v # w => worker'[v] = worker[v],
           \A v \in Worker : v # w =>
                /\ worker'[w].hand \cap worker[v].hand = {}
                /\ \A t \in worker[v].hand : StillHeld(t),
           HoldsUnposted(worker[w])',
           \A t \in Trace : SettledOnce(trace'[t], mails'[t])
    PROVE  Once'
  <1>1. ASSUME NEW v \in Worker, v # w
        PROVE  HoldsUnposted(worker[v])'
    <2> DEFINE r == worker[v]
    <2>1. /\ r.hand \subseteq Trace /\ r.row \in Nat
          /\ r.pc = "link" => r.post \in Trace
          /\ worker'[v] = r
      BY <1>1 DEF TypeInv, TypeOK, WorkerRow, Engaged, EngagedRow
    <2>2. HoldsUnposted(r)
      BY DEF Once
    <2>3. r.pc = "link" => r.row <= Len(mails'[r.post])
      BY <2>1, <2>2 DEF HoldsUnposted, Grows
    <2>4. \A t \in r.hand : StillHeld(t)
      BY <1>1
    <2> QED
      BY <2>1, <2>2, <2>3, <2>4 DEF HoldsUnposted, StillHeld
  <1>2. \A v \in Worker : HoldsUnposted(worker[v])'
    BY <1>1
  <1>3. ASSUME NEW u \in Worker, NEW v \in Worker, u # v
        PROVE  worker'[u].hand \cap worker'[v].hand = {}
    <2>1. CASE u # w /\ v # w
      BY <1>3, <2>1 DEF Once
    <2> QED
      BY <1>3, <2>1
  <1> QED
    BY <1>2, <1>3 DEF Once

LEMMA SameMailsGrow ==
    ASSUME mails' = mails
    PROVE  Grows
  BY DEF Grows

\* What a worker holds exists and was not a suppression.
LEMMA HeldIsMinted ==
    ASSUME TypeInv, Calm, Once, NEW w \in Worker, NEW t \in worker[w].hand
    PROVE  t \in Trace /\ trace[t].status \notin {"absent", "cancel"}
  <1> DEFINE r == worker[w]
  <1>1. t \in Trace /\ HoldsUnposted(r) /\ CalmRow(r) /\ EngagedRow(r)
    BY DEF TypeInv, TypeOK, WorkerRow, Once, Calm, Engaged
  <1>2. CASE OrphanRow(trace[t])
    BY <1>1, <1>2 DEF OrphanRow
  <1>3. CASE t = r.post
    <2>1. r.pc = "link"
      BY <1>1, <1>3, NullAssumption DEF HoldsUnposted, Trace
    <2>2. r.row \in Nat \ {0} /\ r.row <= Len(mails[t])
      BY <1>1, <1>3, <2>1 DEF HoldsUnposted, EngagedRow
    <2>3. mails[t] # <<>>
      BY <2>2
    <2> QED
      BY <1>1, <2>3 DEF Once, SettledOnce
  <1> QED
    BY <1>1, <1>2, <1>3 DEF HoldsUnposted

\* A fact about mail that left the queue, on a trace with a mail row.
LEMMA FactsSettle ==
    ASSUME NEW row \in TraceRow, NEW queue \in Seq(MailState), SettledOnce(row, queue)
    PROVE  /\ SettledOnce(SetSent(row), queue)
           /\ SettledOnce(SetOpened(row), queue)
           /\ SettledOnce(SetReplied(row), queue)
           /\ SettledOnce(SetBounced(row), queue)
  BY DEF SettledOnce, TraceRow, SetSent, SetOpened, SetReplied, SetBounced, Moved

LEMMA OnceWithoutWorkers ==
    ASSUME TypeInv, Once, (\E m \in Mailing : Operator(m)) \/ Outside
    PROVE  Once'
  <1>0. /\ trace \in [Trace -> TraceRow] /\ mails \in [Trace -> Seq(MailState)]
        /\ \A t \in Trace : SettledOnce(trace[t], mails[t])
    BY DEF TypeInv, TypeOK, Once
  <1>1. ASSUME NEW m \in Mailing, RetryFailed(m)
        PROVE  Once'
    <2>1. \A t \in Trace : SettledOnce(trace'[t], mails'[t]) /\ StillHeld(t)
      BY <1>0, <1>1
      DEF RetryFailed, FailedTraces, SettledOnce, StillHeld, OrphanRow, TraceRow
    <2> QED
      BY <1>1, <2>1, OnceOutside, SameMailsGrow DEF RetryFailed
  <1>2. ASSUME NEW t \in Trace, Age(t)
        PROVE  Once'
    <2>1. \A u \in Trace : SettledOnce(trace'[u], mails'[u]) /\ StillHeld(u)
      BY <1>0, <1>2 DEF Age, SettledOnce, StillHeld, OrphanRow, TraceRow
    <2> QED
      BY <1>2, <2>1, OnceOutside, SameMailsGrow DEF Age
  <1>3. ASSUME NEW t \in Trace, Tracked(t)
        PROVE  Once'
    <2>1. PICK fact \in {"open", "reply", "bounce"} :
            trace' = [trace EXCEPT ![t] = CASE fact = "open"   -> SetOpened(@)
                                            [] fact = "reply"  -> SetReplied(@)
                                            [] fact = "bounce" -> SetBounced(@)]
      BY <1>3, ScenarioAssumption DEF Tracked
    <2>2. mails' = mails /\ mails[t] # <<>>
      BY <1>3 DEF Tracked, Arrived
    <2>3. \A u \in Trace : SettledOnce(trace'[u], mails'[u])
      BY <1>0, <2>1, <2>2, FactsSettle
    <2>4. \A u \in Trace : StillHeld(u)
      BY <1>0, <2>1, <2>2 DEF StillHeld
    <2> QED
      BY <1>3, <2>2, <2>3, <2>4, OnceOutside, SameMailsGrow DEF Tracked
  <1>4. ASSUME NEW t \in Trace, NEW k \in 1 .. MaxMails, NEW verdict, Settle(t, k, verdict)
        PROVE  Once'
    <2>1. /\ k \in 1 .. Len(mails[t]) /\ mails[t][k] = "outgoing" /\ trace' = trace
          /\ mails' = [mails EXCEPT ![t] = [mails[t] EXCEPT ![k] = verdict]]
      BY <1>4 DEF Settle
    <2> DEFINE queue == [mails[t] EXCEPT ![k] = verdict]
    <2>2. Len(queue) = Len(mails[t]) /\ mails[t] # <<>>
      BY <1>0, <2>1
    <2>3. SettledOnce(trace[t], queue)
      BY <1>0, <2>1, <2>2 DEF SettledOnce
    <2> HIDE DEF queue
    <2>4. \A u \in Trace : mails'[u] = IF u = t THEN queue ELSE mails[u]
      BY <1>0, <2>1 DEF queue
    <2>5. Grows /\ \A u \in Trace : StillHeld(u)
      BY <2>1, <2>2, <2>4 DEF Grows, StillHeld
    <2>6. \A u \in Trace : SettledOnce(trace'[u], mails'[u])
      BY <1>0, <2>1, <2>3, <2>4
    <2> QED
      BY <1>4, <2>5, <2>6, OnceOutside DEF Settle
  <1>5. CASE UNCHANGED <<trace, mails, worker>>
    BY <1>0, <1>5, OnceOutside, SameMailsGrow DEF StillHeld
  <1> QED
    BY <1>1, <1>2, <1>3, <1>4, <1>5
    DEF Operator, Launch, Cancel, Requeue, Outside, ComesDue, OptOut, Resubscribe, Blacklist

LEMMA OnceIdleHand ==
    ASSUME TypeInv, Calm, Once, "crash" \notin Faults, NEW w \in Worker,
           \/ \E S \in SUBSET Mailing : Claim(w, S)
           \/ ClaimNothing(w) \/ (\E m \in Mailing : Drive(w, m)) \/ DrivesDone(w)
           \/ DriveFails(w) \/ FinishEmpty(w) \/ Probe(w) \/ Finish(w)
    PROVE  Once'
  <1>1. \A v \in Worker : v # w => worker'[v] = worker[v]
    BY OthersStand DEF Step
  <1>2. /\ trace' = trace /\ mails' = mails
        /\ worker[w].pc # "link" /\ worker'[w].pc # "link"
        /\ worker'[w].hand = {} /\ worker'[w].post \in {None, worker[w].post}
    BY IdleHand
  <1>3. HoldsUnposted(worker[w])'
    BY <1>2 DEF Once, HoldsUnposted
  <1> QED
    BY <1>1, <1>2, <1>3, OnceStep, SameMailsGrow DEF Once, StillHeld

\* Fresh rows for identifiers that never had one, nor a mail row, nor a holder.
LEMMA MintSettles ==
    ASSUME TypeInv, Once, NEW new, \A t \in new : t \in Trace /\ IsNext(t),
           NEW status \in {"outgoing", "cancel"}, Mint(new, status), mails' = mails
    PROVE  /\ \A t \in Trace : SettledOnce(trace'[t], mails'[t]) /\ StillHeld(t)
           /\ \A t \in new : mails[t] = <<>>
  <1>1. /\ \A t \in Trace : SettledOnce(trace[t], mails[t])
        /\ mails \in [Trace -> Seq(MailState)]
    BY DEF Once, TypeInv, TypeOK
  <1>2. \A t \in new : mails[t] = <<>> /\ trace[t].status = "absent"
    BY <1>1 DEF SettledOnce, IsNext
  <1>3. \A t \in Trace : trace'[t] = IF t \in new THEN FreshTrace(status) ELSE trace[t]
    BY DEF Mint
  <1>4. SettledOnce(FreshTrace(status), <<>>)
    BY DEF SettledOnce, FreshTrace
  <1> QED
    BY <1>1, <1>2, <1>3, <1>4 DEF StillHeld, OrphanRow

LEMMA OnceMint ==
    ASSUME TypeInv, Calm, Once, NEW w \in Worker,
           (\E p \in Recipient : MintCancel(w, p)) \/ MintBatch(w)
    PROVE  Once'
  <1> DEFINE r == worker[w]
  <1>0. /\ \A v \in Worker : v # w => worker'[v] = worker[v]
        /\ mails' = mails /\ r.pc = "walk" /\ HoldsUnposted(r)
    BY OthersStand DEF Step, MintCancel, MintBatch, Once
  <1>1. ASSUME NEW p \in Recipient, MintCancel(w, p)
        PROVE  Once'
    <2> DEFINE new == Slots(r.job, {p})
    <2>1. /\ worker'[w].hand = r.hand /\ worker'[w].pc = r.pc
          /\ worker'[w].post = r.post
      BY <1>1 DEF MintCancel, TypeInv, TypeOK, WorkerRow
    <2>2. \A t \in new : t \in Trace /\ IsNext(t)
      BY DEF Slots
    <2>3. Mint(new, "cancel")
      BY <1>1 DEF MintCancel
    <2> HIDE DEF new
    <2>4. \A t \in Trace : SettledOnce(trace'[t], mails'[t]) /\ StillHeld(t)
      BY <1>0, <2>2, <2>3, MintSettles
    <2>5. \A v \in Worker : worker[v].hand \subseteq Trace
      BY DEF TypeInv, TypeOK, WorkerRow
    <2>6. HoldsUnposted(worker[w])'
      BY <1>0, <2>1, <2>4, <2>5 DEF HoldsUnposted, StillHeld
    <2>7. \A v \in Worker : v # w => /\ worker'[w].hand \cap worker[v].hand = {}
                                     /\ \A t \in worker[v].hand : StillHeld(t)
      BY <2>1, <2>4, <2>5 DEF Once
    <2> QED
      BY <1>0, <2>4, <2>6, <2>7, OnceStep, SameMailsGrow
  <1>2. CASE MintBatch(w)
    <2>1. PICK batch \in SUBSET r.work :
            LET free == {p \in batch : ~Fenced(r.job, p)}
            IN  /\ Mint(Slots(r.job, free), "outgoing")
                /\ worker' = [worker EXCEPT ![w].work = @ \ batch,
                                            ![w].hand = Slots(r.job, free)]
      BY <1>2 DEF MintBatch
    <2> DEFINE new == Slots(r.job, {p \in batch : ~Fenced(r.job, p)})
    <2>2. worker'[w].hand = new /\ worker'[w].pc = r.pc /\ worker'[w].post = r.post
      BY <2>1 DEF TypeInv, TypeOK, WorkerRow
    <2>3. \A t \in new : t \in Trace /\ IsNext(t)
      BY DEF Slots
    <2>4. Mint(new, "outgoing")
      BY <2>1
    <2> HIDE DEF new
    <2>5. /\ \A t \in Trace : SettledOnce(trace'[t], mails'[t]) /\ StillHeld(t)
          /\ \A t \in new : mails[t] = <<>>
      BY <1>0, <2>3, <2>4, MintSettles
    <2>6. \A t \in new : OrphanRow(trace'[t]) /\ mails'[t] = <<>>
      BY <1>0, <2>3, <2>4, <2>5 DEF Mint, FreshTrace, OrphanRow
    <2>7. HoldsUnposted(worker[w])'
      BY <1>0, <2>2, <2>6 DEF HoldsUnposted
    <2>8. \A v \in Worker : new \cap worker[v].hand = {}
      BY <2>3, HeldIsMinted DEF IsNext
    <2>9. \A v \in Worker : worker[v].hand \subseteq Trace
      BY DEF TypeInv, TypeOK, WorkerRow
    <2> QED
      BY <1>0, <2>2, <2>5, <2>7, <2>8, <2>9, OnceStep, SameMailsGrow
  <1> QED
    BY <1>1, <1>2

LEMMA OncePost ==
    ASSUME TypeInv, Calm, Once, NEW w \in Worker, NEW t \in Trace, Post(w, t)
    PROVE  Once'
  <1> DEFINE r == worker[w]
  <1>1. /\ r.pc = "walk" /\ t \in r.hand /\ r.post = None /\ t # None
        /\ OrphanRow(trace[t]) /\ mails[t] = <<>>
    BY NullAssumption DEF Post, Calm, CalmRow, Once, HoldsUnposted, Trace
  <1>2. /\ worker'[w].hand = r.hand /\ worker'[w].pc = "link"
        /\ worker'[w].post = t /\ worker'[w].row = 1
    BY <1>1 DEF Post, TypeInv, TypeOK, WorkerRow
  <1>3. /\ trace' = trace
        /\ \A u \in Trace : mails'[u] = IF u = t THEN <<"outgoing">> ELSE mails[u]
    BY <1>1 DEF Post, TypeInv, TypeOK
  <1>4. \A u \in Trace : SettledOnce(trace'[u], mails'[u])
    <2>1. SettledOnce(trace[t], <<"outgoing">>)
      BY <1>1 DEF Once, SettledOnce, OrphanRow
    <2> QED
      BY <1>3, <2>1 DEF Once
  <1>5. HoldsUnposted(worker[w])'
    <2>1. r.hand \subseteq Trace /\ HoldsUnposted(r)
      BY DEF TypeInv, TypeOK, WorkerRow, Once
    <2>2. ASSUME NEW u \in r.hand, u # t
          PROVE  OrphanRow(trace'[u]) /\ mails'[u] = <<>>
      <3>1. u \in Trace /\ u # r.post
        BY <1>1, <2>1, NullAssumption DEF Trace
      <3>2. OrphanRow(trace[u]) /\ mails[u] = <<>>
        BY <2>1, <3>1 DEF HoldsUnposted
      <3> QED
        BY <1>3, <2>2, <3>1, <3>2
    <2>3. worker'[w].row <= Len(mails'[worker'[w].post])
      <3> DEFINE row == worker'[w].row
                 n   == Len(mails'[worker'[w].post])
      <3>1. Len(mails'[t]) = 1
        BY <1>3
      <3>2. row = 1 /\ n = 1
        BY <1>2, <3>1
      <3> HIDE DEF row, n
      <3>3. row <= n
        BY <3>2
      <3> QED
        BY <3>3 DEF row, n
    <2> QED
      BY <1>2, <2>2, <2>3 DEF HoldsUnposted
  <1>6. \A v \in Worker : v # w => /\ worker'[w].hand \cap worker[v].hand = {}
                                   /\ \A u \in worker[v].hand : StillHeld(u)
    <2>1. \A v \in Worker : worker[v].hand \subseteq Trace
      BY DEF TypeInv, TypeOK, WorkerRow
    <2>2. \A v \in Worker : v # w => t \notin worker[v].hand
      BY <1>1 DEF Once
    <2> QED
      BY <1>2, <1>3, <2>1, <2>2 DEF Once, StillHeld
  <1>7. Grows
    BY <1>1, <1>3 DEF Grows
  <1>8. \A v \in Worker : v # w => worker'[v] = worker[v]
    BY DEF Post, TypeInv, TypeOK
  <1> QED
    BY <1>4, <1>5, <1>6, <1>7, <1>8, OnceStep

\* A trace leaves the hand, linked or failed, and no other row changes.
LEMMA OnceHandOn ==
    ASSUME TypeInv, Calm, Once, NEW w \in Worker, NEW t \in Trace, HandOn(w, t),
           worker[w].pc \in {"walk", "link"}, mails' = mails,
           worker[w].pc = "link" => t = worker[w].post,
           \A u \in Trace : u # t => trace'[u] = trace[u],
           SettledOnce(trace'[t], mails[t]),
           t \in worker[w].hand \/ mails[t] # <<>>
    PROVE  Once'
  <1> DEFINE r == worker[w]
  <1>0. r.hand \subseteq Trace /\ HoldsUnposted(r)
    BY DEF TypeInv, TypeOK, WorkerRow, Once
  <1>1. /\ worker'[w].hand = r.hand \ {t} /\ worker'[w].pc = "walk"
        /\ worker'[w].post = None
    BY DEF HandOn, TypeInv, TypeOK, WorkerRow
  <1>2. \A v \in Worker : v # w => worker'[v] = worker[v]
    BY DEF HandOn, TypeInv, TypeOK
  <1>3. \A u \in Trace : SettledOnce(trace'[u], mails'[u])
    BY DEF Once
  <1>4. ASSUME NEW u \in r.hand, u # t
        PROVE  OrphanRow(trace'[u]) /\ mails'[u] = <<>>
    <2>1. u # r.post
      <3>1. CASE r.pc = "link"
        BY <1>4, <3>1
      <3>2. CASE r.pc # "link"
        <4>1. r.post = None /\ u \in Trace
          BY <1>0, <1>4, <3>2 DEF HoldsUnposted
        <4> QED
          BY <4>1, NullAssumption DEF Trace
      <3> QED
        BY <3>1, <3>2
    <2>2. OrphanRow(trace[u]) /\ mails[u] = <<>>
      BY <1>0, <2>1 DEF HoldsUnposted
    <2> QED
      BY <1>0, <1>4, <2>2
  <1>5. HoldsUnposted(worker[w])'
    BY <1>1, <1>4 DEF HoldsUnposted
  <1>6. \A v \in Worker : v # w => /\ worker'[w].hand \cap worker[v].hand = {}
                                   /\ \A u \in worker[v].hand : StillHeld(u)
    <2>1. \A v \in Worker : worker[v].hand \subseteq Trace
      BY DEF TypeInv, TypeOK, WorkerRow
    <2>2. \A v \in Worker : v # w => t \notin worker[v].hand \/ mails[t] # <<>>
      BY DEF Once
    <2> QED
      BY <1>1, <2>1, <2>2 DEF Once, StillHeld
  <1> QED
    BY <1>2, <1>3, <1>5, <1>6, OnceStep, SameMailsGrow

LEMMA OnceWorker ==
    ASSUME TypeInv, Calm, Once, "crash" \notin Faults, "attach" \notin Faults,
           NEW w \in Worker, Step(w)
    PROVE  Once'
  <1> DEFINE r == worker[w]
  <1>0. /\ trace \in [Trace -> TraceRow] /\ mails \in [Trace -> Seq(MailState)]
        /\ CalmRow(r) /\ EngagedRow(r) /\ HoldsUnposted(r)
        /\ \A t \in Trace : SettledOnce(trace[t], mails[t])
    BY DEF TypeInv, TypeOK, Calm, Engaged, Once
  <1>1. CASE Attach(w)
    <2> DEFINE t == r.post
    <2>1. /\ r.pc = "link" /\ t \in Trace /\ r.row \in Nat \ {0}
          /\ r.row <= Len(mails[t]) /\ mails[t] # <<>>
      BY <1>0, <1>1 DEF Attach, CalmRow, EngagedRow, HoldsUnposted
    <2> HIDE DEF t
    <2>2. trace' = [trace EXCEPT ![t] = Attached(@, r.row)] /\ mails' = mails
      BY <1>1 DEF Attach, t
    <2>3. SettledOnce(Attached(trace[t], r.row), mails[t])
      BY <1>0, <2>1 DEF Attached, SettledOnce, TraceRow
    <2> QED
      BY <1>0, <1>1, <2>1, <2>2, <2>3, OnceHandOn DEF Attach, t
  <1>2. ASSUME NEW t \in Trace, PostRefused(w, t)
        PROVE  Once'
    <2>1. r.pc = "walk" /\ t \in r.hand
      BY <1>0, <1>2 DEF PostRefused, CalmRow
    <2>2. trace' = [trace EXCEPT ![t] = SetFailed(@)] /\ mails' = mails /\ HandOn(w, t)
      BY <1>2, <2>1 DEF PostRefused, EnqueueErr
    <2>3. OrphanRow(trace[t]) /\ mails[t] = <<>>
      BY <1>0, <2>1, NullAssumption DEF HoldsUnposted, Trace
    <2>4. SettledOnce(SetFailed(trace[t]), mails[t])
      BY <1>0, <2>3 DEF SettledOnce, SetFailed, Moved, OrphanRow, TraceRow
    <2> QED
      BY <1>0, <2>1, <2>2, <2>4, OnceHandOn
  <1>3. CASE Reconcile(w)
    <2>1. /\ worker'[w] = Asleep /\ mails' = mails
          /\ \A v \in Worker : v # w => worker'[v] = worker[v]
          /\ \A t \in Trace : trace'[t] = Reconciled(t)
      BY <1>3 DEF Reconcile, TypeInv, TypeOK
    <2>2. ASSUME NEW t \in Trace
          PROVE  SettledOnce(Reconciled(t), mails[t])
      <3>1. CASE /\ trace[t].live /\ trace[t].status = "outgoing" /\ trace[t].link # 0
                 /\ mails[t][trace[t].link] = "exception"
        <4>1. /\ trace[t] \in TraceRow /\ mails[t] \in Seq(MailState)
              /\ SettledOnce(trace[t], mails[t])
          BY <1>0
        <4> DEFINE k == trace[t].link
                   n == Len(mails[t])
        <4>2. k \in Nat /\ k # 0 /\ n \in Nat /\ n <= 1 /\ k <= n
          BY <3>1, <4>1 DEF SettledOnce, TraceRow
        <4> HIDE DEF k, n
        <4>3. k = 1 /\ n = 1
          BY <4>2
        <4>4. trace[t].link = 1 /\ Len(mails[t]) = 1
          BY <4>3 DEF k, n
        <4>5. mails[t][1] = "exception"
          BY <3>1, <4>4
        <4>6. SettledOnce(SetFailed(trace[t]), mails[t])
          BY <3>1, <4>1, <4>4, <4>5 DEF SettledOnce, SetFailed, Moved, TraceRow
        <4>7. Reconciled(t) = SetFailed(trace[t])
          BY <3>1 DEF Reconciled
        <4> QED
          BY <4>6, <4>7
      <3>2. Reconciled(t) \in {trace[t], SetSent(trace[t])}
            \/ (/\ trace[t].live /\ trace[t].status = "outgoing" /\ trace[t].link # 0
                /\ mails[t][trace[t].link] = "exception")
        BY DEF Reconciled
      <3> QED
        BY <1>0, <3>1, <3>2, FactsSettle
    <2>3. \A t \in Trace : StillHeld(t)
      BY <2>1 DEF StillHeld, OrphanRow, Reconciled
    <2>4. HoldsUnposted(worker[w])'
      BY <2>1 DEF HoldsUnposted, Asleep
    <2>5. \A v \in Worker : worker[v].hand \subseteq Trace
      BY DEF TypeInv, TypeOK, WorkerRow
    <2>6. worker'[w].hand = {}
      BY <2>1 DEF Asleep
    <2> QED
      BY <2>1, <2>2, <2>3, <2>4, <2>5, <2>6, OnceStep, SameMailsGrow
  <1> QED
    BY <1>1, <1>2, <1>3, OnceIdleHand, OnceMint, OncePost DEF Step, AttachFails

LEMMA OnceKept ==
    ASSUME TypeInv, Calm, Once, [Next]_vars,
           "crash" \notin Faults, "attach" \notin Faults
    PROVE  Once'
  <1>1. CASE UNCHANGED vars
    BY <1>1, OnceOutside, SameMailsGrow DEF vars, Once, StillHeld
  <1>2. \A w \in Worker : ~Crash(w)
    BY DEF Crash
  <1> QED
    BY <1>1, <1>2, OnceWithoutWorkers, OnceIdleHand, OnceWorker DEF Next

LEMMA OnceAtFirst == Init => Once
  BY DEF Init, Once, SettledOnce, HoldsUnposted, NoTrace, Asleep

DistinctAddresses == \A p, q \in Recipient : EmailOf[p] = EmailOf[q] => p = q

\* A standing mail row belongs to an active trace, and to the only row of it.
LEMMA StandingIsActive ==
    ASSUME TypeInv, Once, NEW t \in Trace, NEW k \in 1 .. MaxMails, Standing(t, k)
    PROVE  Active(t) /\ k = 1
  <1>1. SettledOnce(trace[t], mails[t]) /\ mails[t] \in Seq(MailState)
    BY DEF Once, TypeInv, TypeOK
  <1>2. k \in 1 .. Len(mails[t]) /\ mails[t][k] # "exception"
    BY DEF Standing
  <1> QED
    BY <1>1, <1>2 DEF SettledOnce, Active

LEMMA OnceMeansOnce ==
    ASSUME TypeInv, MintFence, Once, DistinctAddresses
    PROVE  NoDoubleSend
  <1> SUFFICES ASSUME NEW t \in Trace, NEW u \in Trace,
                      NEW k \in 1 .. MaxMails, NEW l \in 1 .. MaxMails,
                      Standing(t, k), Standing(u, l),
                      t[1] = u[1], EmailOf[t[2]] = EmailOf[u[2]]
               PROVE  t = u /\ k = l
    BY DEF NoDoubleSend
  <1>1. t[2] \in Recipient /\ u[2] \in Recipient
    BY DEF Trace
  <1>2. t[2] = u[2]
    BY <1>1 DEF DistinctAddresses
  <1> QED
    BY <1>2, StandingIsActive DEF MintFence

\* As long as no worker dies, no attachment fails and no batch outlasts the repair
\* grace, and recipients have addresses of their own, any number of overlapping
\* workers, retries, cancels and relaunches mail each recipient of a mailing at
\* most once, mail that failed in transport aside.
THEOREM NobodyMailedTwice ==
    ASSUME "crash" \notin Faults, "slow" \notin Faults, "attach" \notin Faults,
           DistinctAddresses
    PROVE  Spec => []NoDoubleSend
  <1>1. Init => TypeInv /\ Calm /\ Once
    BY InitTyped, CalmAtFirst, OnceAtFirst
  <1>2. TypeInv /\ Calm /\ Once /\ [Next]_vars => (TypeInv /\ Calm /\ Once)'
    BY NextTyped, CalmKept, OnceKept
  <1>3. TypeInv /\ Once /\ MintFence => NoDoubleSend
    BY OnceMeansOnce
  <1> QED
    BY <1>1, <1>2, <1>3, MintFenceHolds, PTL DEF Spec

-----------------------------------------------------------------------------
(* While the suppression lists stand still, no path of the engine enqueues mail to
   an address that is on them, even if workers die.  *)

Invited(t) == ~Suppressed(t[1], EmailOf[t[2]])

\* A row that was minted for sending.
SendRow(row) == row.status \notin {"absent", "cancel"}

\* What a worker is going to send; between two drives nothing is left over, so
\* that the next mailing does not inherit the walk of the last.
InvitedOnly(r) ==
    /\ \A t \in r.hand : Invited(t)
    /\ \A p \in r.work : ~Suppressed(r.job, EmailOf[p])
    /\ r.pc \in {"idle", "drive"} => r.work = {}

(* The strengthening of SuppressedNeverMailed: it follows an invited recipient
   from the probe over the walk's work and the minted trace, which an orphan's
   repair may take up from the table, to the mail row. *)
Courteous ==
    /\ \A t \in Trace : SendRow(trace[t]) \/ mails[t] # <<>> => Invited(t)
    /\ \A w \in Worker : InvitedOnly(worker[w])

-----------------------------------------------------------------------------
\* No verb turns an absent or a cancel row into one for sending.
LEMMA VerbsMintNothing ==
    ASSUME NEW row \in TraceRow, NEW k
    PROVE  /\ SendRow(SetSent(row)) => SendRow(row)
           /\ SendRow(SetOpened(row)) => SendRow(row)
           /\ SendRow(SetReplied(row)) => SendRow(row)
           /\ SendRow(SetBounced(row)) => SendRow(row)
           /\ SendRow(SetFailed(row)) => SendRow(row)
           /\ SendRow(Attached(row, k)) => SendRow(row)
  BY DEF TraceRow, SendRow, SetSent, SetOpened, SetReplied, SetBounced, SetFailed, Moved,
         Attached

\* Courtesy is kept by what mints and enqueues for invited recipients only.
LEMMA CourtesyStep ==
    ASSUME Courteous, UNCHANGED <<optOut, blacklist>>,
           \A t \in Trace : SendRow(trace'[t]) => SendRow(trace[t]) \/ Invited(t),
           \A t \in Trace : mails'[t] # <<>> => mails[t] # <<>> \/ Invited(t),
           \A w \in Worker : worker'[w] = worker[w] \/ InvitedOnly(worker'[w])
    PROVE  Courteous'
  <1>1. \A m, e : Suppressed(m, e)' <=> Suppressed(m, e)
    BY DEF Suppressed
  <1>2. \A t : Invited(t)' <=> Invited(t)
    BY DEF Invited, Suppressed
  <1>3. \A w \in Worker : InvitedOnly(worker'[w])
    BY DEF Courteous
  <1>4. \A w \in Worker : InvitedOnly(worker[w])'
    BY <1>1, <1>2, <1>3 DEF InvitedOnly
  <1>5. \A t \in Trace : SendRow(trace'[t]) \/ mails'[t] # <<>> => Invited(t)
    BY DEF Courteous
  <1> QED
    BY <1>2, <1>4, <1>5 DEF Courteous, SendRow

LEMMA CourtesyOutside ==
    ASSUME TypeInv, Courteous, "suppress" \notin Verbs,
           (\E m \in Mailing : Operator(m)) \/ Outside
    PROVE  Courteous'
  <1>0. /\ trace \in [Trace -> TraceRow]
        /\ UNCHANGED <<worker, optOut, blacklist>>
    BY DEF TypeInv, TypeOK, Operator, Launch, Cancel, Requeue, RetryFailed, Outside,
           ComesDue, Age, Settle, Tracked, OptOut, Resubscribe, Blacklist
  <1>1. ASSUME NEW t \in Trace, Tracked(t)
        PROVE  Courteous'
    <2>1. PICK fact \in {"open", "reply", "bounce"} :
            trace' = [trace EXCEPT ![t] = CASE fact = "open"   -> SetOpened(@)
                                            [] fact = "reply"  -> SetReplied(@)
                                            [] fact = "bounce" -> SetBounced(@)]
      BY <1>1, ScenarioAssumption DEF Tracked
    <2>2. \A u \in Trace : SendRow(trace'[u]) => SendRow(trace[u])
      BY <1>0, <2>1, VerbsMintNothing
    <2> QED
      BY <1>0, <1>1, <2>2, CourtesyStep DEF Tracked
  <1>2. ASSUME NEW t \in Trace, NEW k \in 1 .. MaxMails, NEW verdict, Settle(t, k, verdict)
        PROVE  Courteous'
    <2>1. \A u \in Trace : mails'[u] # <<>> => mails[u] # <<>>
      BY <1>2 DEF Settle, TypeInv, TypeOK
    <2> QED
      BY <1>0, <1>2, <2>1, CourtesyStep DEF Settle
  <1>3. ASSUME NEW t \in Trace, Age(t)
        PROVE  Courteous'
    <2>1. \A u \in Trace : SendRow(trace'[u]) => SendRow(trace[u])
      BY <1>0, <1>3 DEF Age, SendRow, TraceRow
    <2> QED
      BY <1>0, <1>3, <2>1, CourtesyStep DEF Age
  <1>4. ASSUME NEW m \in Mailing, RetryFailed(m)
        PROVE  Courteous'
    <2>1. \A u \in Trace : SendRow(trace'[u]) => SendRow(trace[u])
      BY <1>0, <1>4 DEF RetryFailed, SendRow, TraceRow
    <2> QED
      BY <1>0, <1>4, <2>1, CourtesyStep DEF RetryFailed
  <1>5. CASE UNCHANGED <<trace, mails>>
    BY <1>0, <1>5, CourtesyStep
  <1> QED
    BY <1>1, <1>2, <1>3, <1>4, <1>5
    DEF Operator, Launch, Cancel, Requeue, Outside, ComesDue, OptOut, Resubscribe, Blacklist

\* The steps that mint and enqueue nothing.
LEMMA CourtesyIdle ==
    ASSUME TypeInv, Courteous, NEW w \in Worker,
           \/ \E S \in SUBSET Mailing : Claim(w, S)
           \/ ClaimNothing(w) \/ (\E m \in Mailing : Drive(w, m)) \/ DrivesDone(w)
           \/ DriveFails(w) \/ FinishEmpty(w) \/ Finish(w) \/ Crash(w)
    PROVE  Courteous'
  <1> DEFINE r == worker[w]
  <1>0. /\ worker \in [Worker -> WorkerRow] /\ r \in WorkerRow
        /\ trace \in [Trace -> TraceRow] /\ InvitedOnly(r)
    BY DEF TypeInv, TypeOK, Courteous
  <1>1. /\ UNCHANGED <<trace, mails, optOut, blacklist>>
        /\ \A v \in Worker : v # w => worker'[v] = worker[v]
    BY <1>0 DEF Claim, ClaimNothing, Drive, DrivesDone, DriveFails, FinishEmpty, Finish, Crash
  <1>2. InvitedOnly(worker'[w])
    <2>1. ASSUME NEW S \in SUBSET Mailing, Claim(w, S)
          PROVE  InvitedOnly(worker'[w])
      <3>1. PICK c : worker' = [worker EXCEPT ![w] =
                                  [Asleep EXCEPT !.pc = "drive", !.claims = c]]
        BY <2>1 DEF Claim
      <3>2. worker'[w].hand = {} /\ worker'[w].work = {}
        BY <1>0, <3>1 DEF Asleep
      <3> QED
        BY <3>2 DEF InvitedOnly
    <2>2. ASSUME ClaimNothing(w) \/ DrivesDone(w)
          PROVE  InvitedOnly(worker'[w])
      <3>1. PICK pc \in {"drive", "reconcile"} : worker' = [worker EXCEPT ![w].pc = pc]
        BY <2>2 DEF ClaimNothing, DrivesDone
      <3>2. worker'[w] = [r EXCEPT !.pc = worker'[w].pc] /\ r.pc \in {"idle", "drive"}
        BY <1>0, <2>2, <3>1 DEF WorkerRow, ClaimNothing, DrivesDone
      <3> QED
        BY <1>0, <3>2 DEF InvitedOnly, WorkerRow
    <2>3. ASSUME NEW m \in Mailing, Drive(w, m)
          PROVE  InvitedOnly(worker'[w])
      <3>1. /\ worker'[w].hand = Orphans(m) /\ worker'[w].work = r.work
            /\ worker'[w].pc = "repair" /\ r.work = {}
        BY <1>0, <2>3 DEF Drive, WorkerRow, InvitedOnly
      <3>2. \A t \in Orphans(m) : Invited(t)
        BY DEF Orphans, OrphansOfAnyAge, Courteous, SendRow
      <3> QED
        BY <3>1, <3>2 DEF InvitedOnly
    <2>4. ASSUME DriveFails(w) \/ FinishEmpty(w) \/ Finish(w) \/ Crash(w)
          PROVE  InvitedOnly(worker'[w])
      <3>1. worker'[w] = NextDrive(w) \/ worker'[w] = Asleep
        BY <1>0, <2>4 DEF DriveFails, FinishEmpty, Finish, Crash
      <3>2. CASE worker'[w] = NextDrive(w)
        BY <3>2 DEF NextDrive, Asleep, InvitedOnly
      <3>3. CASE worker'[w] = Asleep
        BY <3>3 DEF Asleep, InvitedOnly
      <3> QED
        BY <3>1, <3>2, <3>3
    <2> QED
      BY <2>1, <2>2, <2>3, <2>4
  <1> QED
    BY <1>1, <1>2, CourtesyStep

\* The probe hands on those alone whom it found on no list.
LEMMA CourtesyProbe ==
    ASSUME TypeInv, Courteous, NEW w \in Worker, Probe(w)
    PROVE  Courteous'
  <1> DEFINE r       == worker[w]
             m       == r.job
             unseen  == {p \in Audience[m] : ~SeenActive(m, p) /\ ~SuppressedHere(m, p)}
             cancels(F) == {p \in unseen : p \notin F \/ Suppressed(m, EmailOf[p])}
             send(F) == (unseen \ cancels(F)) \cap Sample[m]
  <1>0. worker \in [Worker -> WorkerRow] /\ r \in WorkerRow /\ InvitedOnly(r)
    BY DEF TypeInv, TypeOK, Courteous
  <1>1. PICK F \in FirstOfEach(Audience[m]) : \E work \in SUBSET send(F) :
          worker' = [worker EXCEPT ![w].pc = "walk", ![w].cancels = cancels(F),
                                   ![w].work = work, ![w].more = work # send(F)]
    BY DEF Probe
  <1>2. \A p \in send(F) : ~Suppressed(m, EmailOf[p])
    OBVIOUS
  <1> HIDE DEF cancels, send
  <1>3. PICK work \in SUBSET send(F) :
          worker' = [worker EXCEPT ![w].pc = "walk", ![w].cancels = cancels(F),
                                   ![w].work = work, ![w].more = work # send(F)]
    BY <1>1
  <1>4. /\ worker'[w].pc = "walk" /\ worker'[w].hand = r.hand
        /\ worker'[w].work = work /\ worker'[w].job = r.job
        /\ \A v \in Worker : v # w => worker'[v] = worker[v]
    BY <1>0, <1>3 DEF WorkerRow
  <1>5. InvitedOnly(worker'[w])
    BY <1>0, <1>2, <1>4 DEF InvitedOnly
  <1> QED
    BY <1>4, <1>5, CourtesyStep DEF Probe

\* What is minted for sending comes out of the work, what is enqueued out of the
\* hand.
LEMMA CourtesyWalk ==
    ASSUME TypeInv, Courteous, NEW w \in Worker,
           \/ \E p \in Recipient : MintCancel(w, p)
           \/ MintBatch(w)
           \/ \E t \in Trace : Post(w, t)
    PROVE  Courteous'
  <1> DEFINE r == worker[w]
  <1>0. /\ worker \in [Worker -> WorkerRow] /\ r \in WorkerRow
        /\ mails \in [Trace -> Seq(MailState)] /\ InvitedOnly(r)
    BY DEF TypeInv, TypeOK, Courteous
  <1>1. ASSUME NEW p \in Recipient, MintCancel(w, p)
        PROVE  Courteous'
    <2>1. /\ worker'[w].hand = r.hand /\ worker'[w].work = r.work
          /\ worker'[w].pc = r.pc /\ worker'[w].job = r.job
          /\ \A v \in Worker : v # w => worker'[v] = worker[v]
      BY <1>0, <1>1 DEF MintCancel, WorkerRow
    <2>2. \A t \in Trace : SendRow(trace'[t]) => SendRow(trace[t])
      BY <1>1 DEF MintCancel, Mint, FreshTrace, SendRow
    <2>3. InvitedOnly(worker'[w])
      BY <1>0, <2>1 DEF InvitedOnly
    <2> QED
      BY <1>1, <2>1, <2>2, <2>3, CourtesyStep DEF MintCancel
  <1>2. CASE MintBatch(w)
    <2>1. PICK batch \in SUBSET r.work :
            LET free == {p \in batch : ~Fenced(r.job, p)}
            IN  /\ Mint(Slots(r.job, free), "outgoing")
                /\ worker' = [worker EXCEPT ![w].work = @ \ batch,
                                            ![w].hand = Slots(r.job, free)]
      BY <1>2 DEF MintBatch
    <2> DEFINE new == Slots(r.job, {p \in batch : ~Fenced(r.job, p)})
    <2>2. \A t \in new : Invited(t)
      BY <1>0, <2>1 DEF Slots, Invited, InvitedOnly
    <2>3. \A t \in Trace : t \notin new => trace'[t] = trace[t]
      BY <2>1 DEF Mint
    <2>4. /\ worker'[w].hand = new /\ worker'[w].work = r.work \ batch
          /\ worker'[w].pc = "walk" /\ worker'[w].job = r.job
          /\ \A v \in Worker : v # w => worker'[v] = worker[v]
      BY <1>0, <1>2, <2>1 DEF MintBatch, WorkerRow
    <2> HIDE DEF new
    <2>5. InvitedOnly(worker'[w])
      BY <1>0, <2>2, <2>4 DEF InvitedOnly
    <2>6. \A t \in Trace : SendRow(trace'[t]) => SendRow(trace[t]) \/ Invited(t)
      BY <2>2, <2>3
    <2> QED
      BY <1>2, <2>4, <2>5, <2>6, CourtesyStep DEF MintBatch
  <1>3. ASSUME NEW t \in Trace, Post(w, t)
        PROVE  Courteous'
    <2>1. /\ worker'[w].hand = r.hand /\ worker'[w].work = r.work
          /\ worker'[w].pc \in {"link", "relink"} /\ worker'[w].job = r.job
          /\ \A v \in Worker : v # w => worker'[v] = worker[v]
      BY <1>0, <1>3 DEF Post, WorkerRow
    <2>2. \A u \in Trace : mails'[u] # <<>> => mails[u] # <<>> \/ Invited(u)
      BY <1>0, <1>3 DEF Post, InvitedOnly
    <2>3. InvitedOnly(worker'[w])
      BY <1>0, <2>1 DEF InvitedOnly
    <2> QED
      BY <1>3, <2>1, <2>2, <2>3, CourtesyStep DEF Post
  <1> QED
    BY <1>1, <1>2, <1>3

\* Once a trace is dealt with it leaves the hand; its row only gets a link, or
\* moves along a verb.
LEMMA CourtesyHandOn ==
    ASSUME TypeInv, Courteous, NEW w \in Worker, NEW t, HandOn(w, t),
           UNCHANGED <<mails, optOut, blacklist>>,
           \A u \in Trace : SendRow(trace'[u]) => SendRow(trace[u])
    PROVE  Courteous'
  <1> DEFINE r == worker[w]
  <1>0. worker \in [Worker -> WorkerRow] /\ r \in WorkerRow /\ InvitedOnly(r)
    BY DEF TypeInv, TypeOK, Courteous
  <1>1. /\ worker'[w].hand = r.hand \ {t} /\ worker'[w].work = r.work
        /\ worker'[w].job = r.job
        /\ worker'[w].pc \in {"idle", "drive"} => worker'[w].pc = r.pc
        /\ \A v \in Worker : v # w => worker'[v] = worker[v]
    BY <1>0 DEF HandOn, WorkerRow
  <1>2. InvitedOnly(worker'[w])
    BY <1>0, <1>1 DEF InvitedOnly
  <1> QED
    BY <1>1, <1>2, CourtesyStep

LEMMA CourtesyWorker ==
    ASSUME TypeInv, Courteous, NEW w \in Worker, Step(w)
    PROVE  Courteous'
  <1>0. trace \in [Trace -> TraceRow] /\ worker \in [Worker -> WorkerRow]
    BY DEF TypeInv, TypeOK
  <1>1. CASE Attach(w)
    <2>1. \A u \in Trace : SendRow(trace'[u]) => SendRow(trace[u])
      BY <1>0, <1>1, VerbsMintNothing DEF Attach
    <2> QED
      BY <1>1, <2>1, CourtesyHandOn DEF Attach
  <1>2. ASSUME NEW t, EnqueueErr(w, t)
        PROVE  Courteous'
    <2>1. \A u \in Trace : SendRow(trace'[u]) => SendRow(trace[u])
      BY <1>0, <1>2, VerbsMintNothing DEF EnqueueErr
    <2> QED
      BY <1>2, <2>1, CourtesyHandOn DEF EnqueueErr
  <1>3. CASE Reconcile(w)
    <2>1. \A u \in Trace : SendRow(trace'[u]) => SendRow(trace[u])
      BY <1>0, <1>3, VerbsMintNothing DEF Reconcile, Reconciled
    <2>2. InvitedOnly(Asleep)
      BY DEF InvitedOnly, Asleep
    <2> QED
      BY <1>0, <1>3, <2>1, <2>2, CourtesyStep DEF Reconcile
  <1> QED
    BY <1>1, <1>2, <1>3, CourtesyIdle, CourtesyProbe, CourtesyWalk
    DEF Step, PostRefused, AttachFails

LEMMA CourtesyKept ==
    ASSUME TypeInv, Courteous, "suppress" \notin Verbs, [Next]_vars
    PROVE  Courteous'
  <1>1. CASE UNCHANGED vars
    BY <1>1, CourtesyStep DEF vars
  <1> QED
    BY <1>1, CourtesyOutside, CourtesyIdle, CourtesyWorker DEF Next

\* As long as the suppression lists do not change, no interleaving of workers that
\* may die anywhere, no resume, retry, repair or relaunch enqueues mail to an
\* opted-out address, nor to an excluded one for a mailing that uses the exclusion
\* list.
THEOREM NobodySuppressedMailed ==
    ASSUME "suppress" \notin Verbs
    PROVE  Spec => []SuppressedNeverMailed
  <1>1. Init => TypeInv /\ Courteous
    BY InitTyped DEF Init, Courteous, InvitedOnly, SendRow, NoTrace, Asleep
  <1>2. TypeInv /\ Courteous /\ [Next]_vars => (TypeInv /\ Courteous)'
    BY NextTyped, CourtesyKept
  <1>3. Courteous => SuppressedNeverMailed
    BY DEF Courteous, Invited, Suppressed, SuppressedNeverMailed
  <1> QED
    BY <1>1, <1>2, <1>3, PTL DEF Spec
=============================================================================
