----------------------------- MODULE SmsPumpProofs -----------------------------
(***************************************************************************)
(* Theorems about SmsPump, for any number of mailings, phones, pumps,      *)
(* sweeps and crashes, whatever the trackers do.                           *)
(***************************************************************************)
EXTENDS SmsPump, TLAPS

(* What a pump has locked is still what it established under the lock: the writers of a
   mailing row wait for it. *)
LockedIsLockable ==
    \A w \in Pump : pump[w].locked # None => Lockable(mailing[pump[w].locked])

LocksDisjoint ==
    \A w, v \in Pump : pump[w].locked # None /\ pump[w].locked = pump[v].locked => w = v

\* The phones of a walk are split once, and the trace it holds is one of the send set.
SplitKept ==
    /\ walk.pc # "idle" => walk.job \in Mailing /\ walk.hand \cap walk.told = {}
    /\ walk.pc \in {"post", "attach"} =>
            walk.post \in Trace /\ walk.post[1] = walk.job /\ walk.post[2] \notin walk.told

Told(p) ==
    \E u \in Trace : /\ u[1] = walk.job /\ u[2] = p
                     /\ trace[u].live /\ trace[u].status = "cancel"

\* From the mint on, the suppressions of the walk are on record.
ToldOnRecord ==
    walk.pc \in {"mint", "post", "attach"} => \A p \in walk.told : Told(p)

Sound ==
    /\ TypeOK
    /\ LockedIsLockable
    /\ LocksDisjoint
    /\ SplitKept
    /\ ToldOnRecord

-----------------------------------------------------------------------------
(* Rows. *)

\* A verb that leaves a live cancel alone.
KeepsCancel(row, next) ==
    /\ next \in TraceRow
    /\ row.live /\ row.status = "cancel" => next.live /\ next.status = "cancel"

LEMMA MovedRow ==
    ASSUME NEW row \in TraceRow, NEW sources, "cancel" \notin sources,
           NEW to \in {"process", "pending", "sent", "bounce", "error", "cancel"}
    PROVE  KeepsCancel(row, Moved(row, sources, to))
  <1>1. [row EXCEPT !.status = to] \in TraceRow
    BY DEF TraceRow, Transients
  <1> QED
    BY <1>1 DEF Moved, KeepsCancel

LEMMA VerdictRow ==
    ASSUME NEW row \in TraceRow, NEW verdict
    PROVE  KeepsCancel(row, Verdict(row, verdict))
  <1>1. /\ KeepsCancel(row, SetProcess(row))
        /\ KeepsCancel(row, SetPending(row))
        /\ KeepsCancel(row, SetSent(row))
        /\ KeepsCancel(row, SetBouncedSms(row))
        /\ KeepsCancel(row, SetFailed(row))
        /\ KeepsCancel(row, SetCanceled(row))
    BY MovedRow DEF SetProcess, SetPending, SetSent, SetBouncedSms, SetFailed, SetCanceled
  <1>2. KeepsCancel(row, row)
    BY DEF KeepsCancel
  <1> QED
    BY <1>1, <1>2 DEF Verdict

LEMMA AttachedRow ==
    ASSUME NEW row \in TraceRow
    PROVE  KeepsCancel(row, Attached(row))
  <1>1. LET next == [row EXCEPT !.link = 1]
        IN  next \in TraceRow /\ next.live = row.live /\ next.status = row.status
    BY DEF TraceRow
  <1> QED
    BY <1>1 DEF Attached, KeepsCancel

\* The rows after a step: typed, and no live cancel taken back.
CancelsStay ==
    /\ trace' \in [Trace -> TraceRow]
    /\ \A u \in Trace : KeepsCancel(trace[u], trace'[u])

LEMMA OneRow ==
    ASSUME trace \in [Trace -> TraceRow], NEW t \in Trace, NEW next,
           KeepsCancel(trace[t], next), trace' = [trace EXCEPT ![t] = next]
    PROVE  CancelsStay
  <1>1. \A u \in Trace : trace'[u] = IF u = t THEN next ELSE trace[u]
    OBVIOUS
  <1>2. \A u \in Trace : KeepsCancel(trace[u], trace[u])
    BY DEF KeepsCancel
  <1>3. \A u \in Trace : KeepsCancel(trace[u], trace'[u])
    BY <1>1, <1>2
  <1>4. next \in TraceRow
    BY DEF KeepsCancel
  <1> QED
    BY <1>3, <1>4 DEF CancelsStay

LEMMA SameRows ==
    ASSUME trace \in [Trace -> TraceRow], UNCHANGED trace
    PROVE  CancelsStay
  BY DEF CancelsStay, KeepsCancel

LEMMA MintedRows ==
    ASSUME trace \in [Trace -> TraceRow], NEW new \in SUBSET Trace,
           NEW status \in {"cancel", "outgoing"},
           \A t \in new : IsNext(t),
           trace' = Minted(new, status)
    PROVE  /\ CancelsStay
           /\ \A t \in new : trace'[t].status = status /\ trace'[t].live
  <1> DEFINE row == [status |-> status, live |-> TRUE, link |-> 0]
  <1>1. row \in TraceRow /\ row.status = status /\ row.live
    BY DEF TraceRow, Transients
  <1>2. trace' = [t \in Trace |-> IF t \in new THEN row ELSE trace[t]]
    BY DEF Minted
  <1> HIDE DEF row
  <1>3. \A t \in Trace : trace'[t] = IF t \in new THEN row ELSE trace[t]
    BY <1>2
  <1>4. \A t \in new : trace[t].status = "absent"
    BY DEF IsNext
  <1>5. \A u \in Trace : KeepsCancel(trace[u], trace'[u])
    BY <1>1, <1>3, <1>4 DEF KeepsCancel
  <1> QED
    BY <1>1, <1>2, <1>3, <1>5 DEF CancelsStay

LEMMA MailingRows ==
    ASSUME NEW row \in MailingRow
    PROVE  /\ Completed(row) \in MailingRow
           /\ Marked(row) \in MailingRow
           /\ Parked(row) \in MailingRow
           /\ [row EXCEPT !.state = "sending"] \in MailingRow
           /\ [row EXCEPT !.state = "draft"] \in MailingRow
           /\ [row EXCEPT !.state = "in_queue"] \in MailingRow
           /\ [row EXCEPT !.state = "in_queue", !.parked = FALSE] \in MailingRow
  BY DEF Completed, Marked, Parked, MailingRow

-----------------------------------------------------------------------------
(* Mailings and their locks. *)

\* Nobody but the pump that holds a row's lock takes the row to done.
LEMMA WritesMailing ==
    ASSUME TypeOK, NEW m \in Mailing, NEW row \in MailingRow, Write(m, row),
           UNCHANGED pump, LockedIsLockable, LocksDisjoint
    PROVE  /\ mailing' \in [Mailing -> MailingRow]
           /\ LockedIsLockable' /\ LocksDisjoint'
  <1>1. \A n \in Mailing : mailing'[n] = IF n = m THEN row ELSE mailing[n]
    BY DEF Write, TypeOK
  <1>2. \A w \in Pump : pump[w].locked # None =>
            pump[w].locked \in Mailing /\ pump[w].locked # m
    BY DEF Write, Free, TypeOK, PumpRow
  <1>3. LockedIsLockable'
    BY <1>1, <1>2 DEF LockedIsLockable, Lockable
  <1> QED
    BY <1>3 DEF Write, TypeOK, LocksDisjoint

LEMMA MailingUntouched ==
    ASSUME TypeOK, UNCHANGED <<mailing, pump>>, LockedIsLockable, LocksDisjoint
    PROVE  /\ mailing' \in [Mailing -> MailingRow]
           /\ LockedIsLockable' /\ LocksDisjoint'
  BY DEF TypeOK, LockedIsLockable, LocksDisjoint, Lockable

-----------------------------------------------------------------------------
(* Soundness is inductive. *)

LEMMA SoundAtFirst == Init => Sound
  <1> SUFFICES ASSUME Init PROVE Sound
    OBVIOUS
  <1>1. NoTrace \in TraceRow /\ NoWalk \in WalkRow /\ NoPass \in PumpRow
    BY DEF NoTrace, TraceRow, NoWalk, WalkRow, NoPass, PumpRow
  <1>2. [state |-> "draft", walked |-> FALSE, parked |-> FALSE] \in MailingRow
    BY DEF MailingRow
  <1>3. TypeOK
    BY <1>1, <1>2, BoundsAssumption DEF Init, TypeOK
  <1>4. walk.pc = "idle" /\ \A w \in Pump : pump[w].locked = None
    BY DEF Init, NoWalk, NoPass
  <1> QED
    BY <1>3, <1>4 DEF Sound, LockedIsLockable, LocksDisjoint, SplitKept, ToldOnRecord

\* The record of a walk survives a step that leaves the walk where it is.
LEMMA RecordStays ==
    ASSUME Sound, CancelsStay, UNCHANGED walk
    PROVE  SplitKept' /\ ToldOnRecord'
  <1>1. SplitKept'
    BY DEF Sound, SplitKept
  <1>2. ASSUME NEW p, Told(p)
        PROVE  Told(p)'
    BY <1>2 DEF Told, CancelsStay, KeepsCancel
  <1>3. ToldOnRecord'
    BY <1>2 DEF Sound, ToldOnRecord
  <1> QED
    BY <1>1, <1>3

OthersTyped ==
    /\ tracker \in [Trace -> TrackerState \cup {None}]
    /\ stopped \subseteq Phone
    /\ sweeper \in [Sweeper -> Mailing \cup {None}]
    /\ crashes \in 0 .. MaxCrashes

\* A step outside the walk.
LEMMA OutsideTheWalk ==
    ASSUME Sound, CancelsStay, UNCHANGED walk, OthersTyped', pump' \in [Pump -> PumpRow],
           mailing' \in [Mailing -> MailingRow], LockedIsLockable', LocksDisjoint'
    PROVE  Sound'
  <1>1. TypeOK'
    BY DEF Sound, TypeOK, OthersTyped, CancelsStay
  <1> QED
    BY <1>1, RecordStays DEF Sound

LEMMA VerbsKeep ==
    ASSUME Sound, NEW m \in Mailing, Launch(m) \/ Cancel(m) \/ Requeue(m) \/ RetryFailed(m)
    PROVE  Sound'
  <1>1. /\ mailing[m] \in MailingRow /\ trace \in [Trace -> TraceRow]
        /\ UNCHANGED <<pump, walk>> /\ OthersTyped' /\ pump' \in [Pump -> PumpRow]
    BY DEF Sound, TypeOK, OthersTyped, Launch, Cancel, Requeue, RetryFailed
  <1>2. \E row \in MailingRow : Write(m, row)
    BY <1>1, MailingRows DEF Launch, Cancel, Requeue, RetryFailed
  <1>3. mailing' \in [Mailing -> MailingRow] /\ LockedIsLockable' /\ LocksDisjoint'
    BY <1>1, <1>2, WritesMailing DEF Sound
  <1>4. CancelsStay
    <2>1. CASE RetryFailed(m)
      <3>1. \A row \in TraceRow : [row EXCEPT !.live = FALSE] \in TraceRow
        BY DEF TraceRow
      <3>2. \A t \in Trace : trace'[t] = IF t \in FailedTraces(m)
                                         THEN [trace[t] EXCEPT !.live = FALSE] ELSE trace[t]
        BY <2>1 DEF RetryFailed
      <3>3. \A t \in FailedTraces(m) : trace[t].status = "error"
        BY DEF FailedTraces
      <3>4. \A t \in Trace : KeepsCancel(trace[t], trace'[t])
        BY <1>1, <3>1, <3>2, <3>3 DEF KeepsCancel
      <3>5. trace' \in [Trace -> TraceRow]
        BY <1>1, <2>1, <3>1 DEF RetryFailed
      <3> QED
        BY <3>4, <3>5 DEF CancelsStay
    <2> QED
      BY <1>1, <2>1, SameRows DEF Launch, Cancel, Requeue
  <1> QED
    BY <1>1, <1>3, <1>4, OutsideTheWalk

LEMMA ListsKeep ==
    ASSUME Sound, NEW p \in Phone,
           Unlist(p) \/ EffectStop(p)
    PROVE  Sound'
  <1>1. /\ UNCHANGED <<mailing, trace, pump, walk>> /\ OthersTyped'
    BY DEF Sound, TypeOK, OthersTyped, Unlist, EffectStop
  <1> QED
    BY <1>1, SameRows, MailingUntouched, OutsideTheWalk DEF Sound, TypeOK

LEMMA SweepsKeep ==
    ASSUME Sound, NEW w \in Sweeper, ParkAtGuard(w) \/ \E m \in Mailing : Claim(w, m)
    PROVE  Sound'
  <1>1. /\ UNCHANGED <<trace, pump, walk>> /\ OthersTyped'
    BY DEF Sound, TypeOK, OthersTyped, ParkAtGuard, Claim
  <1>2. \E m \in Mailing, row \in MailingRow : Write(m, row)
    <2>1. CASE ParkAtGuard(w)
      <3>1. sweeper[w] \in Mailing
        BY <2>1 DEF ParkAtGuard, Sound, TypeOK
      <3> QED
        BY <2>1, <3>1, MailingRows DEF ParkAtGuard, Sound, TypeOK
    <2>2. ASSUME NEW m \in Mailing, Claim(w, m)
          PROVE  \E row \in MailingRow : Write(m, row)
      BY <2>2, MailingRows DEF Claim, Sound, TypeOK
    <2> QED
      BY <2>1, <2>2
  <1> QED
    BY <1>1, <1>2, SameRows, WritesMailing, OutsideTheWalk DEF Sound, TypeOK

LEMMA TrackersKeep ==
    ASSUME Sound, NEW t \in Trace, TrackerMove(t)
    PROVE  Sound'
  <1>1. UNCHANGED <<mailing, trace, pump, walk>> /\ OthersTyped'
    BY DEF Sound, TypeOK, OthersTyped, TrackerMove
  <1> QED
    BY <1>1, SameRows, MailingUntouched, OutsideTheWalk DEF Sound, TypeOK

-----------------------------------------------------------------------------
(* The walk. *)

\* A step of the walk, by what it leaves in its own variable.
LEMMA InTheWalk ==
    ASSUME Sound, CancelsStay, OthersTyped', UNCHANGED pump, walk' \in WalkRow,
           mailing' \in [Mailing -> MailingRow], LockedIsLockable', LocksDisjoint',
           SplitKept', ToldOnRecord'
    PROVE  Sound'
  BY DEF Sound, TypeOK, OthersTyped, CancelsStay

LEMMA WalkKeeps ==
    ASSUME Sound, Walk
    PROVE  Sound'
  <1>1. /\ trace \in [Trace -> TraceRow] /\ walk \in WalkRow
        /\ mailing \in [Mailing -> MailingRow]
    BY DEF Sound, TypeOK
  <1>2. NoWalk \in WalkRow /\ NoWalk.pc = "idle"
    BY DEF NoWalk, WalkRow
  <1>3. ASSUME NEW m \in Mailing, WalkClaims(m)
        PROVE  Sound'
    <2>1. walk' = [pc |-> "suppress", job |-> m, hand |-> Audience[m] \ stopped,
                   told |-> Audience[m] \cap stopped, post |-> None]
      BY <1>3 DEF WalkClaims, SendSet
    <2>2. Audience[m] \subseteq Phone
      BY PhonesAssumption
    <2>3. walk' \in WalkRow
      BY <2>1, <2>2 DEF WalkRow
    <2>4. SplitKept' /\ ToldOnRecord'
      BY <2>1 DEF SplitKept, ToldOnRecord
    <2>5. UNCHANGED <<trace, pump>> /\ OthersTyped'
      BY <1>3 DEF WalkClaims, Sound, TypeOK, OthersTyped
    <2>6. mailing' \in [Mailing -> MailingRow] /\ LockedIsLockable' /\ LocksDisjoint'
      BY <1>1, <1>3, <2>5, MailingRows, WritesMailing DEF WalkClaims, Sound
    <2> QED
      BY <1>1, <2>3, <2>4, <2>5, <2>6, SameRows, InTheWalk
  <1>4. CASE Suppress
    <2>1. PICK new \in SUBSET Trace :
            /\ \A t \in new : t[1] = walk.job /\ IsNext(t)
            /\ {t[2] : t \in new} = walk.told
            /\ trace' = Minted(new, "cancel")
      BY <1>4 DEF Suppress
    <2>2. CancelsStay /\ \A t \in new : trace'[t].status = "cancel" /\ trace'[t].live
      BY <1>1, <2>1, MintedRows
    <2>3. /\ walk' \in WalkRow /\ walk'.pc = "mint" /\ walk'.job = walk.job
          /\ walk'.hand = walk.hand /\ walk'.told = walk.told
      BY <1>1, <1>4 DEF Suppress, WalkRow
    <2>4. ToldOnRecord'
      <3>1. ASSUME NEW p \in walk.told
            PROVE  \E u \in Trace : /\ u[1] = walk.job /\ u[2] = p
                                    /\ trace'[u].live /\ trace'[u].status = "cancel"
        <4>1. PICK t \in new : t[2] = p
          BY <2>1
        <4> QED
          BY <2>1, <2>2, <4>1
      <3> QED
        BY <2>3, <3>1 DEF ToldOnRecord, Told
    <2>5. walk.pc = "suppress"
      BY <1>4 DEF Suppress
    <2>6. SplitKept'
      BY <2>3, <2>5 DEF SplitKept, Sound
    <2>7. UNCHANGED <<mailing, pump>> /\ OthersTyped'
      BY <1>4 DEF Suppress, Sound, TypeOK, OthersTyped
    <2> QED
      BY <2>2, <2>3, <2>4, <2>6, <2>7, MailingUntouched, InTheWalk DEF Sound
  <1>5. ASSUME NEW p \in Phone, MintSms(p)
        PROVE  Sound'
    <2>1. UNCHANGED <<mailing, pump>> /\ OthersTyped' /\ walk.pc = "mint" /\ p \in walk.hand
      BY <1>5 DEF MintSms, Sound, TypeOK, OthersTyped
    <2>2. CASE Fenced(walk.job, p)
      <3>1. /\ walk' \in WalkRow /\ walk'.pc = "mint" /\ walk'.job = walk.job
            /\ walk'.hand = walk.hand \ {p} /\ walk'.told = walk.told
        BY <1>1, <1>5, <2>1, <2>2 DEF MintSms, WalkRow
      <3>2. UNCHANGED trace
        BY <1>5, <2>2 DEF MintSms
      <3>3. SplitKept'
        BY <2>1, <3>1 DEF SplitKept, Sound
      <3>4. ToldOnRecord'
        BY <2>1, <3>1, <3>2 DEF ToldOnRecord, Told, Sound
      <3> QED
        BY <1>1, <2>1, <3>1, <3>2, <3>3, <3>4, SameRows, MailingUntouched, InTheWalk DEF Sound
    <2>3. CASE ~Fenced(walk.job, p)
      <3>1. PICK t \in Trace :
                /\ t[1] = walk.job /\ t[2] = p /\ IsNext(t)
                /\ trace' = Minted({t}, "outgoing")
                /\ walk' = [walk EXCEPT !.pc = "post", !.hand = @ \ {p}, !.post = t]
        BY <1>5, <2>3 DEF MintSms
      <3>2. CancelsStay
        BY <1>1, <3>1, MintedRows
      <3>3. /\ walk' \in WalkRow /\ walk'.pc = "post" /\ walk'.job = walk.job
            /\ walk'.hand = walk.hand \ {p} /\ walk'.told = walk.told /\ walk'.post = t
        BY <1>1, <3>1 DEF WalkRow
      <3>4. SplitKept'
        BY <2>1, <3>1, <3>3 DEF SplitKept, Sound
      <3>5. \A q \in walk.told : Told(q)
        BY <2>1 DEF Sound, ToldOnRecord
      <3>6. ToldOnRecord'
        BY <3>2, <3>3, <3>5 DEF ToldOnRecord, Told, CancelsStay, KeepsCancel
      <3> QED
        BY <2>1, <3>2, <3>3, <3>4, <3>6, MailingUntouched, InTheWalk DEF Sound
    <2> QED
      BY <2>2, <2>3
  <1>6. CASE Post
    <2>1. /\ walk' \in WalkRow /\ walk.pc = "post" /\ walk'.pc = "attach"
          /\ walk'.job = walk.job /\ walk'.hand = walk.hand /\ walk'.told = walk.told
          /\ walk'.post = walk.post
      BY <1>1, <1>6 DEF Post, WalkRow
    <2>2. UNCHANGED <<mailing, trace, pump>> /\ OthersTyped'
      <3>1. tracker' \in [Trace -> TrackerState \cup {None}]
        BY <1>6 DEF Post, Sound, TypeOK, TrackerState
      <3> QED
        BY <1>6, <3>1 DEF Post, Sound, TypeOK, OthersTyped
    <2>3. SplitKept'
      BY <2>1 DEF SplitKept, Sound
    <2>4. ToldOnRecord'
      BY <2>1, <2>2 DEF ToldOnRecord, Told, Sound
    <2> QED
      BY <1>1, <2>1, <2>2, <2>3, <2>4, SameRows, MailingUntouched, InTheWalk DEF Sound
  <1>7. CASE Attach
    <2>1. /\ walk' \in WalkRow /\ walk.pc = "attach" /\ walk'.pc = "mint"
          /\ walk'.job = walk.job /\ walk'.hand = walk.hand /\ walk'.told = walk.told
      BY <1>1, <1>7 DEF Attach, WalkRow
    <2>2. UNCHANGED <<mailing, pump>> /\ OthersTyped'
      BY <1>7 DEF Attach, Sound, TypeOK, OthersTyped
    <2>3. walk.post \in Trace
      BY <2>1 DEF Sound, SplitKept
    <2>4. trace' = [trace EXCEPT ![walk.post] = Attached(trace[walk.post])]
      BY <1>7 DEF Attach
    <2>5. CancelsStay
      BY <1>1, <2>3, <2>4, AttachedRow, OneRow
    <2>6. SplitKept'
      BY <2>1 DEF SplitKept, Sound
    <2>7. \A q \in walk.told : Told(q)
      BY <2>1 DEF Sound, ToldOnRecord
    <2>8. ToldOnRecord'
      BY <2>1, <2>5, <2>7 DEF ToldOnRecord, Told, CancelsStay, KeepsCancel
    <2> QED
      BY <2>1, <2>2, <2>5, <2>6, <2>8, MailingUntouched, InTheWalk DEF Sound
  <1>8. CASE MarkWalkComplete
    <2>1. walk.pc = "mint" /\ walk.job \in Mailing
      BY <1>8 DEF MarkWalkComplete, Sound, SplitKept
    <2>2. walk' = NoWalk /\ UNCHANGED <<trace, pump>> /\ OthersTyped'
      BY <1>8 DEF MarkWalkComplete, Sound, TypeOK, OthersTyped
    <2>3. mailing' \in [Mailing -> MailingRow] /\ LockedIsLockable' /\ LocksDisjoint'
      BY <1>1, <1>8, <2>1, <2>2, MailingRows, WritesMailing DEF MarkWalkComplete, Sound
    <2>4. SplitKept' /\ ToldOnRecord'
      BY <1>2, <2>2 DEF SplitKept, ToldOnRecord
    <2> QED
      BY <1>1, <1>2, <2>2, <2>3, <2>4, SameRows, InTheWalk
  <1> QED
    BY <1>3, <1>4, <1>5, <1>6, <1>7, <1>8 DEF Walk

-----------------------------------------------------------------------------
(* The pump, and the crash. *)

LEMMA PassKeeps ==
    ASSUME Sound, NEW w \in Pump, Pass(w)
    PROVE  Sound'
  <1>1. /\ trace \in [Trace -> TraceRow] /\ pump \in [Pump -> PumpRow]
        /\ mailing \in [Mailing -> MailingRow] /\ pump[w] \in PumpRow
    BY DEF Sound, TypeOK
  <1>2. UNCHANGED walk /\ OthersTyped'
    BY DEF Pass, ReadVerdicts, ApplyVerdict, Scan, LockForDone, InferDone, EndPass, SetPass,
           Sound, TypeOK, OthersTyped
  <1>3. NoPass \in PumpRow /\ NoPass.locked = None
    BY DEF NoPass, PumpRow
  <1>4. ASSUME NEW pass \in PumpRow, SetPass(w, pass), pass.locked \in {None, pump[w].locked},
               UNCHANGED mailing, CancelsStay
        PROVE  Sound'
    <2>1. /\ pump' \in [Pump -> PumpRow]
          /\ \A v \in Pump : pump'[v].locked # None => pump'[v].locked = pump[v].locked
      BY <1>1, <1>4 DEF SetPass
    <2>2. LockedIsLockable' /\ LocksDisjoint'
      BY <1>4, <2>1 DEF Sound, LockedIsLockable, LocksDisjoint, Lockable
    <2> QED
      BY <1>1, <1>2, <1>4, <2>1, <2>2, OutsideTheWalk
  <1>5. CASE ReadVerdicts(w)
    <2>1. TrackedTransients \subseteq Trace \X TrackerState
      <3> DEFINE joined == {t \in Trace : /\ trace[t].live
                                          /\ trace[t].status \in Transients
                                          /\ trace[t].link = 1
                                          /\ tracker[t] # None}
                 batch  == {t \in joined :
                                Cardinality({u \in joined : Before(u, t)}) < TraceBatch}
      <3>1. \A t \in joined : t \in Trace /\ tracker[t] \in TrackerState
        BY DEF Sound, TypeOK
      <3>2. TrackedTransients = {<<t, tracker[t]>> : t \in batch}
        BY DEF TrackedTransients
      <3>3. batch \subseteq joined
        OBVIOUS
      <3> HIDE DEF joined, batch
      <3> QED
        BY <3>1, <3>2, <3>3
    <2>2. ASSUME NEW pass \in PumpRow, NEW verdicts \in SUBSET (Trace \X TrackerState)
          PROVE  LET next == [pass EXCEPT !.pc = "advance", !.verdicts = verdicts]
                 IN  next \in PumpRow /\ next.locked = pass.locked
      BY DEF PumpRow
    <2> QED
      BY <1>1, <1>3, <1>4, <1>5, <2>1, <2>2, SameRows DEF ReadVerdicts
  <1>6. ASSUME NEW v \in Trace \X TrackerState, ApplyVerdict(w, v)
        PROVE  Sound'
    <2>1. LET next == [pump[w] EXCEPT !.verdicts = pump[w].verdicts \ {v}]
          IN  next \in PumpRow /\ next.locked = pump[w].locked
      BY <1>1 DEF PumpRow
    <2>2. trace' = [trace EXCEPT ![v[1]] = Verdict(trace[v[1]], v[2])] /\ v[1] \in Trace
      BY <1>6 DEF ApplyVerdict
    <2>3. CancelsStay
      BY <1>1, <2>2, VerdictRow, OneRow
    <2> QED
      BY <1>4, <1>6, <2>1, <2>3 DEF ApplyVerdict
  <1>7. CASE Scan(w)
    <2>1. ASSUME NEW candidates \in SUBSET Mailing
          PROVE  LET next == [pump[w] EXCEPT !.pc = "infer", !.candidates = candidates]
                 IN  next \in PumpRow /\ next.locked = pump[w].locked
      BY <1>1 DEF PumpRow
    <2>2. {m \in Mailing : Candidate(mailing[m])} \in SUBSET Mailing
      OBVIOUS
    <2> QED
      BY <1>1, <1>4, <1>7, <2>1, <2>2, SameRows DEF Scan
  <1>8. ASSUME NEW m \in Mailing, LockForDone(w, m)
        PROVE  Sound'
    <2> DEFINE lock == IF Lockable(mailing[m]) THEN m ELSE None
               pass == [pump[w] EXCEPT !.candidates = pump[w].candidates \ {m},
                                       !.locked = lock]
    <2>1. /\ pump' = [pump EXCEPT ![w] = pass]
          /\ pump[w].locked = None /\ Free(m) /\ UNCHANGED <<mailing, trace>>
      BY <1>8 DEF LockForDone, SetPass
    <2>2. pass \in PumpRow /\ pass.locked = lock
      BY <1>1 DEF PumpRow
    <2> HIDE DEF pass
    <2>3. /\ pump' \in [Pump -> PumpRow]
          /\ \A v \in Pump : pump'[v].locked = IF v = w THEN lock ELSE pump[v].locked
      BY <1>1, <2>1, <2>2
    <2>4. \A v \in Pump : pump[v].locked # m
      BY <2>1 DEF Free
    <2>5. m # None
      BY PhonesAssumption
    <2>6. LockedIsLockable'
      BY <2>1, <2>3, <2>5 DEF Sound, LockedIsLockable, Lockable
    <2>7. LocksDisjoint'
      BY <2>3, <2>4 DEF Sound, LocksDisjoint
    <2> QED
      BY <1>1, <1>2, <2>1, <2>3, <2>6, <2>7, SameRows, OutsideTheWalk
  <1>9. CASE InferDone(w)
    <2> DEFINE m    == pump[w].locked
               pass == [pump[w] EXCEPT !.locked = None]
    <2>1. m \in Mailing
      BY <1>1, <1>9 DEF InferDone, PumpRow
    <2>2. pass \in PumpRow /\ pass.locked = None
      BY <1>1 DEF PumpRow
    <2>3. /\ pump' = [pump EXCEPT ![w] = pass] /\ UNCHANGED trace /\ m # None
          /\ mailing' \in {mailing, [mailing EXCEPT ![m] = Completed(mailing[m])]}
      BY <1>9 DEF InferDone, SetPass
    <2> HIDE DEF pass, m
    <2>4. /\ pump' \in [Pump -> PumpRow]
          /\ \A v \in Pump : pump'[v].locked = IF v = w THEN None ELSE pump[v].locked
      BY <1>1, <2>2, <2>3
    <2>5. /\ mailing' \in [Mailing -> MailingRow]
          /\ \A n \in Mailing : n # m => mailing'[n] = mailing[n]
      BY <1>1, <2>1, <2>3, MailingRows
    <2>6. \A v \in Pump : v # w /\ pump[v].locked # None =>
            pump[v].locked \in Mailing /\ pump[v].locked # m
      BY <1>1, <2>3 DEF m, Sound, LocksDisjoint, PumpRow
    <2>7. LockedIsLockable'
      BY <2>4, <2>5, <2>6 DEF Sound, LockedIsLockable, Lockable
    <2>8. LocksDisjoint'
      BY <2>4 DEF Sound, LocksDisjoint
    <2> QED
      BY <1>1, <1>2, <2>3, <2>4, <2>5, <2>7, <2>8, SameRows, OutsideTheWalk
  <1>10. CASE EndPass(w)
    BY <1>1, <1>3, <1>4, <1>10, SameRows DEF EndPass
  <1> QED
    BY <1>5, <1>6, <1>7, <1>8, <1>9, <1>10 DEF Pass

LEMMA CrashKeeps ==
    ASSUME Sound, Crash
    PROVE  Sound'
  <1>1. /\ trace \in [Trace -> TraceRow] /\ pump \in [Pump -> PumpRow]
        /\ mailing \in [Mailing -> MailingRow]
    BY DEF Sound, TypeOK
  <1>2. UNCHANGED <<mailing, trace>> /\ OthersTyped' /\ CancelsStay
    <2>1. crashes' \in 0 .. MaxCrashes
      BY BoundsAssumption DEF Crash, Sound, TypeOK
    <2> QED
      BY <1>1, <2>1, SameRows DEF Crash, Sound, TypeOK, OthersTyped
  <1>3. CASE walk' = NoWalk /\ UNCHANGED pump
    <2>1. NoWalk \in WalkRow /\ NoWalk.pc = "idle"
      BY DEF NoWalk, WalkRow
    <2>2. SplitKept' /\ ToldOnRecord'
      BY <1>3, <2>1 DEF SplitKept, ToldOnRecord
    <2> QED
      BY <1>2, <1>3, <2>1, <2>2, MailingUntouched, InTheWalk DEF Sound
  <1>4. ASSUME NEW w \in Pump, pump' = [pump EXCEPT ![w] = NoPass], UNCHANGED walk
        PROVE  Sound'
    <2>1. NoPass \in PumpRow /\ NoPass.locked = None
      BY DEF NoPass, PumpRow
    <2>2. /\ pump' \in [Pump -> PumpRow]
          /\ \A v \in Pump : pump'[v].locked # None => pump'[v].locked = pump[v].locked
      BY <1>1, <1>4, <2>1
    <2>3. LockedIsLockable' /\ LocksDisjoint'
      BY <1>2, <2>2 DEF Sound, LockedIsLockable, LocksDisjoint, Lockable
    <2> QED
      BY <1>1, <1>2, <1>4, <2>2, <2>3, OutsideTheWalk
  <1> QED
    BY <1>3, <1>4 DEF Crash

LEMMA SoundKept ==
    ASSUME Sound, [Next]_vars
    PROVE  Sound'
  <1>1. CASE UNCHANGED vars
    <2>1. OthersTyped' /\ UNCHANGED <<mailing, trace, pump, walk>>
      BY <1>1 DEF vars, OthersTyped, Sound, TypeOK
    <2> QED
      BY <2>1, SameRows, MailingUntouched, OutsideTheWalk DEF Sound, TypeOK
  <1> QED
    BY <1>1, VerbsKeep, ListsKeep, SweepsKeep, WalkKeeps, TrackersKeep, PassKeeps, CrashKeeps
       DEF Next, HandleReply, StopByCode

LEMMA SpecSound == Spec => []Sound
  BY SoundAtFirst, SoundKept, PTL DEF Spec

-----------------------------------------------------------------------------
(* Theorems. *)

\* Every row of the sms channel keeps its type: a verdict is a verb's status, never a
\* tracker's.
THEOREM SmsTypeCorrect == Spec => []TypeOK
  <1>1. Sound => TypeOK
    BY DEF Sound
  <1> QED
    BY <1>1, SpecSound, PTL

\* A mailing parked while a pump was on its way to it is not completed: lock_mailing_for_done
\* repeats the candidates' predicate, and the lock keeps the answer true.
THEOREM ParkedIsLeftOpen == Spec => ParkedStaysOpen
  <1>1. ASSUME Sound, [Next]_vars, NEW m \in Mailing,
               mailing[m].parked, mailing[m].state = "sending"
        PROVE  mailing'[m].state # "done"
    <2>1. mailing \in [Mailing -> MailingRow] /\ pump \in [Pump -> PumpRow]
      BY <1>1 DEF Sound, TypeOK
    <2>2. ASSUME NEW n \in Mailing, NEW row, row.state # "done", Write(n, row)
          PROVE  mailing'[m].state # "done"
      BY <1>1, <2>1, <2>2 DEF Write
    <2>3. ASSUME NEW w \in Pump, InferDone(w)
          PROVE  mailing'[m] = mailing[m]
      <3>1. pump[w].locked # m
        BY <1>1, <2>3 DEF Sound, LockedIsLockable, Lockable, InferDone
      <3> QED
        BY <2>1, <2>3, <3>1 DEF InferDone
    <2>4. ASSUME NEW n \in Mailing,
                 Launch(n) \/ Cancel(n) \/ Requeue(n) \/ RetryFailed(n)
                    \/ WalkClaims(n) \/ \E s \in Sweeper : Claim(s, n)
          PROVE  mailing'[m].state # "done"
      <3>1. LET row == mailing[n]
            IN  /\ [row EXCEPT !.state = "in_queue"].state # "done"
                /\ [row EXCEPT !.state = "draft"].state # "done"
                /\ [row EXCEPT !.state = "sending"].state # "done"
                /\ [row EXCEPT !.state = "in_queue", !.parked = FALSE].state # "done"
        BY <2>1 DEF MailingRow
      <3> QED
        BY <2>2, <2>4, <3>1 DEF Launch, Cancel, Requeue, RetryFailed, WalkClaims, Claim
    <2>5. ASSUME NEW n \in Mailing, Write(n, Parked(mailing[n])) \/ Write(n, Marked(mailing[n]))
          PROVE  mailing'[m].state # "done"
      <3>1. /\ Parked(mailing[n]).state = "done" => mailing[n].state = "done"
            /\ Marked(mailing[n]).state = "done" => mailing[n].state = "done"
        BY <2>1 DEF Parked, Marked, MailingRow
      <3> QED
        BY <1>1, <2>1, <2>5, <3>1 DEF Write
    <2>6. ASSUME NEW s \in Sweeper, ParkAtGuard(s)
          PROVE  mailing'[m].state # "done"
      BY <1>1, <2>5, <2>6 DEF ParkAtGuard, Sound, TypeOK
    <2>7. ASSUME MarkWalkComplete
          PROVE  mailing'[m].state # "done"
      BY <1>1, <2>5, <2>7 DEF MarkWalkComplete, Sound, SplitKept
    <2>8. mailing' = mailing => mailing'[m].state # "done"
      BY <1>1
    <2>9. ASSUME Walk PROVE mailing'[m].state # "done"
      BY <2>4, <2>7, <2>8, <2>9 DEF Walk, Suppress, MintSms, Post, Attach
    <2>10. ASSUME NEW w \in Pump, Pass(w) PROVE mailing'[m].state # "done"
      BY <1>1, <2>3, <2>8, <2>10
         DEF Pass, ReadVerdicts, ApplyVerdict, Scan, LockForDone, EndPass, SetPass
    <2> QED
      BY <1>1, <2>4, <2>6, <2>8, <2>9, <2>10
         DEF Next, Unlist, HandleReply, StopByCode, EffectStop, TrackerMove, Crash, vars
  <1>2. Sound /\ [Next]_vars =>
            [\A m \in Mailing : mailing[m].parked /\ mailing[m].state = "sending" =>
                mailing'[m].state # "done"]_vars
    BY <1>1
  <1> QED
    BY <1>2, SpecSound, PTL DEF Spec, ParkedStaysOpen

\* suppress_at_claim is honoured by the pass that probed, and its cancel traces are there
\* before the first text.
THEOREM StopIsHonoured == Spec => StopHonoured
  <1>1. ASSUME Sound, [Next]_vars, NEW t \in Trace, tracker[t] = None, tracker'[t] # None
        PROVE  /\ t[2] \notin walk.told
               /\ \A p \in walk.told : \E u \in Trace :
                    u[1] = t[1] /\ u[2] = p /\ trace[u].live /\ trace[u].status = "cancel"
    <2>1. CASE Post
      <3>1. walk.pc = "post" /\ t = walk.post
        BY <1>1, <2>1 DEF Post, Sound, TypeOK
      <3> QED
        BY <1>1, <3>1 DEF Sound, SplitKept, ToldOnRecord, Told
    <2>2. ASSUME NEW u \in Trace, TrackerMove(u)
          PROVE  FALSE
      <3>1. PICK next \in TrackerState : <<tracker[u], next>> \in TrackerMoves
                /\ tracker' = [tracker EXCEPT ![u] = next]
        BY <2>2 DEF TrackerMove
      <3>2. tracker[u] \in TrackerState
        BY <3>1, MovesAssumption
      <3>3. u = t
        BY <1>1, <3>1 DEF Sound, TypeOK
      <3> QED
        BY <1>1, <3>2, <3>3, MovesAssumption
    <2> QED
      BY <1>1, <2>1, <2>2
         DEF Next, Launch, Cancel, Requeue, RetryFailed, Unlist, HandleReply, StopByCode,
             EffectStop, ParkAtGuard, Claim, Walk, WalkClaims, Suppress, MintSms, Attach,
             MarkWalkComplete, Pass, ReadVerdicts, ApplyVerdict, Scan, LockForDone, InferDone,
             EndPass, SetPass, Crash, vars
  <1>2. Sound /\ [Next]_vars =>
            [\A t \in Trace : tracker[t] = None /\ tracker'[t] # None =>
                /\ t[2] \notin walk.told
                /\ \A p \in walk.told : \E u \in Trace :
                    u[1] = t[1] /\ u[2] = p /\ trace[u].live /\ trace[u].status = "cancel"]_vars
    BY <1>1
  <1> QED
    BY <1>2, SpecSound, PTL DEF Spec, StopHonoured

-----------------------------------------------------------------------------
(* Done is delivered. *)

\* The traces of a recipient start with the first.
InOrder ==
    \A t \in Trace : trace[t].status # "absent" => trace[<<t[1], t[2], 1>>].status # "absent"

HasTrace(m, p) == <<m, p, 1>> \in Trace /\ trace[<<m, p, 1>>].status # "absent"

\* What a walk no longer holds in its hand has a trace.
WalkCovers ==
    /\ walk.pc = "suppress" => Audience[walk.job] \subseteq walk.hand \cup walk.told
    /\ walk.pc \in {"mint", "post", "attach"} =>
            \A p \in Audience[walk.job] : p \in walk.hand \/ HasTrace(walk.job, p)

\* A mailing is walked once: the mark comes with a trace for everyone, and after the walk.
WalkedIsCovered ==
    \A m \in Mailing : mailing[m].walked =>
        /\ \A p \in Audience[m] : HasTrace(m, p)
        /\ walk.pc # "idle" => walk.job # m

ClosedWhenDone ==
    \A m \in Mailing : mailing[m].state = "done" => mailing[m].walked /\ Remaining(m) = {}

Delivered == InOrder /\ WalkCovers /\ WalkedIsCovered /\ ClosedWhenDone

\* A row that is open now was open before, and it is minted if it was.
Forward(row, next) ==
    /\ next.live /\ next.status \in Transients => row.live /\ row.status \in Transients
    /\ row.status = "absent" <=> next.status = "absent"

LEMMA ForwardVerbs ==
    ASSUME NEW row \in TraceRow
    PROVE  /\ Forward(row, row)
           /\ Forward(row, Attached(row))
           /\ Forward(row, [row EXCEPT !.live = FALSE])
           /\ \A verdict : Forward(row, Verdict(row, verdict))
  <1>1. Forward(row, row)
    BY DEF Forward
  <1>2. Forward(row, Attached(row)) /\ Forward(row, [row EXCEPT !.live = FALSE])
    BY DEF Forward, Attached, TraceRow
  <1>3. ASSUME NEW sources \in SUBSET {"outgoing", "process", "pending", "sent"}, NEW to,
               to # "absent",
               to \in Transients => sources \subseteq Transients
        PROVE  Forward(row, Moved(row, sources, to))
    <2>1. LET next == [row EXCEPT !.status = to]
          IN  next.status = to /\ next.live = row.live
      BY DEF TraceRow
    <2> QED
      BY <1>3, <2>1 DEF Forward, Moved
  <1>4. /\ Forward(row, SetProcess(row)) /\ Forward(row, SetPending(row))
        /\ Forward(row, SetSent(row)) /\ Forward(row, SetBouncedSms(row))
        /\ Forward(row, SetFailed(row)) /\ Forward(row, SetCanceled(row))
    BY <1>3 DEF SetProcess, SetPending, SetSent, SetBouncedSms, SetFailed, SetCanceled,
                Transients
  <1> QED
    BY <1>1, <1>2, <1>4 DEF Verdict

RowsForward == \A t \in Trace : Forward(trace[t], trace'[t])

LEMMA FirstInTrace ==
    ASSUME NEW t \in Trace
    PROVE  /\ <<t[1], t[2], 1>> \in Trace
           /\ t = <<t[1], t[2], t[3]>> /\ t[3] \in 1 .. MaxAttempts
  BY BoundsAssumption DEF Trace

\* A mint starts where there is no trace yet, and fills in from the first.
LEMMA MintedInOrder ==
    ASSUME Sound, InOrder, NEW new \in SUBSET Trace, NEW status \in {"cancel", "outgoing"},
           \A t \in new : IsNext(t), trace' = Minted(new, status)
    PROVE  /\ InOrder'
           /\ \A t \in Trace : trace[t].status # "absent" => trace'[t].status # "absent"
           /\ \A t \in Trace \ new : trace'[t] = trace[t]
           /\ \A t \in new : trace'[t].status = status /\ trace'[<<t[1], t[2], 1>>].status # "absent"
  <1> DEFINE row == [status |-> status, live |-> TRUE, link |-> 0]
  <1>1. \A t \in Trace : trace'[t] = IF t \in new THEN row ELSE trace[t]
    BY DEF Minted
  <1>2. row.status = status /\ status # "absent"
    OBVIOUS
  <1> HIDE DEF row
  <1>3. \A t \in Trace : trace[t].status # "absent" => trace'[t].status # "absent"
    BY <1>1, <1>2
  <1>4. ASSUME NEW t \in new
        PROVE  trace'[<<t[1], t[2], 1>>].status # "absent"
    <2>1. CASE t[3] = 1
      BY <1>1, <1>2, <2>1, FirstInTrace
    <2>2. CASE t[3] # 1
      <3>1. 1 \in 1 .. t[3] - 1
        <4>1. t[3] \in 1 .. MaxAttempts
          BY FirstInTrace
        <4>2. \A k \in 1 .. MaxAttempts : k # 1 => 1 \in 1 .. k - 1
          BY BoundsAssumption
        <4> QED
          BY <2>2, <4>1, <4>2
      <3>2. trace[<<t[1], t[2], 1>>].status # "absent"
        BY <3>1 DEF IsNext
      <3> QED
        BY <1>3, <3>2, FirstInTrace
    <2> QED
      BY <2>1, <2>2
  <1>5. InOrder'
    BY <1>1, <1>3, <1>4, FirstInTrace DEF InOrder
  <1> QED
    BY <1>1, <1>2, <1>3, <1>4, <1>5

LEMMA TraceOfPhone ==
    ASSUME InOrder, NEW t \in Trace, trace[t].status # "absent"
    PROVE  HasTrace(t[1], t[2])
  BY FirstInTrace DEF InOrder, HasTrace

\* The facts about mailings survive a step that mints for no walked mailing.
LEMMA MailingsStay ==
    ASSUME Sound, Delivered,
           \A t \in Trace : trace[t].status # "absent" => trace'[t].status # "absent",
           \A t \in Trace :
                mailing[t[1]].walked /\ trace'[t].live /\ trace'[t].status \in Transients =>
                    trace[t].live /\ trace[t].status \in Transients,
           \A m \in Mailing : /\ mailing'[m].walked = mailing[m].walked
                              /\ mailing'[m].state = "done" => mailing[m].state = "done",
           walk'.pc # "idle" => /\ walk'.job \in Mailing
                                /\ walk.pc = "idle" => ~mailing[walk'.job].walked
                                /\ walk.pc # "idle" => walk'.job = walk.job
    PROVE  WalkedIsCovered' /\ ClosedWhenDone'
  <1>1. ASSUME NEW m, NEW p, HasTrace(m, p)
        PROVE  HasTrace(m, p)'
    BY <1>1 DEF HasTrace
  <1>2. WalkedIsCovered'
    BY <1>1 DEF WalkedIsCovered, Delivered
  <1>3. ASSUME NEW m \in Mailing, mailing'[m].state = "done"
        PROVE  mailing'[m].walked /\ Remaining(m)' = {}
    <2>1. mailing[m].walked /\ Remaining(m) = {}
      BY <1>3 DEF Delivered, ClosedWhenDone
    <2> QED
      BY <2>1 DEF Remaining
  <1> QED
    BY <1>2, <1>3 DEF ClosedWhenDone

\* A step that moves rows forward and neither the walk nor the end of a mailing.
LEMMA DeliveredStays ==
    ASSUME Sound, Delivered, RowsForward, UNCHANGED walk,
           \A m \in Mailing : /\ mailing'[m].walked = mailing[m].walked
                              /\ mailing'[m].state = "done" => mailing[m].state = "done"
    PROVE  Delivered'
  <1>1. \A t \in Trace : /\ trace[t].status # "absent" <=> trace'[t].status # "absent"
                         /\ trace'[t].live /\ trace'[t].status \in Transients =>
                                trace[t].live /\ trace[t].status \in Transients
    BY DEF RowsForward, Forward
  <1>2. InOrder'
    BY <1>1, FirstInTrace DEF InOrder, Delivered
  <1>3. ASSUME NEW m, NEW p, HasTrace(m, p)
        PROVE  HasTrace(m, p)'
    BY <1>1, <1>3 DEF HasTrace
  <1>4. WalkCovers'
    BY <1>3 DEF WalkCovers, Delivered
  <1>5. WalkedIsCovered' /\ ClosedWhenDone'
    BY <1>1, MailingsStay DEF Sound, SplitKept
  <1> QED
    BY <1>2, <1>4, <1>5 DEF Delivered

LEMMA SameForward == ASSUME Sound, UNCHANGED trace PROVE RowsForward
  BY ForwardVerbs DEF RowsForward, Sound, TypeOK

LEMMA VerbsDeliver ==
    ASSUME Sound, Delivered,
           \/ \E m \in Mailing : Launch(m) \/ Cancel(m) \/ Requeue(m) \/ RetryFailed(m)
           \/ \E s \in Sweeper : ParkAtGuard(s) \/ \E m \in Mailing : Claim(s, m)
           \/ \E p \in Phone : Unlist(p) \/ EffectStop(p)
           \/ \E t \in Trace : TrackerMove(t)
           \/ UNCHANGED vars
    PROVE  Delivered'
  <1>1. mailing \in [Mailing -> MailingRow] /\ trace \in [Trace -> TraceRow]
    BY DEF Sound, TypeOK
  <1>2. UNCHANGED walk
    BY DEF Launch, Cancel, Requeue, RetryFailed, ParkAtGuard, Claim, Unlist, EffectStop,
           TrackerMove, vars
  <1>3. RowsForward
    <2>1. ASSUME NEW m \in Mailing, RetryFailed(m)
          PROVE  RowsForward
      <3>1. \A t \in Trace : trace'[t] = IF t \in FailedTraces(m)
                                         THEN [trace[t] EXCEPT !.live = FALSE] ELSE trace[t]
        BY <2>1 DEF RetryFailed
      <3> QED
        BY <1>1, <3>1, ForwardVerbs DEF RowsForward
    <2> QED
      BY <2>1, SameForward DEF Launch, Cancel, Requeue, ParkAtGuard, Claim, Unlist,
           EffectStop, TrackerMove, vars
  <1> DEFINE Same(row, next) == /\ next.walked = row.walked
                                /\ next.state = "done" => row.state = "done"
  <1>4. \A m \in Mailing : Same(mailing[m], mailing'[m])
    <2>1. ASSUME NEW n \in Mailing, NEW row, Write(n, row), Same(mailing[n], row)
          PROVE  \A m \in Mailing : Same(mailing[m], mailing'[m])
      BY <1>1, <2>1 DEF Write
    <2>2. \A m \in Mailing :
            /\ Same(mailing[m], Parked(mailing[m]))
            /\ Same(mailing[m], [mailing[m] EXCEPT !.state = "in_queue"])
            /\ Same(mailing[m], [mailing[m] EXCEPT !.state = "draft"])
            /\ Same(mailing[m], [mailing[m] EXCEPT !.state = "sending"])
            /\ Same(mailing[m], [mailing[m] EXCEPT !.state = "in_queue", !.parked = FALSE])
      BY <1>1 DEF Parked, MailingRow
    <2>3. UNCHANGED mailing => \A m \in Mailing : Same(mailing[m], mailing'[m])
      OBVIOUS
    <2>4. ASSUME NEW s \in Sweeper, ParkAtGuard(s)
          PROVE  sweeper[s] \in Mailing
      BY <2>4 DEF ParkAtGuard, Sound, TypeOK
    <2> HIDE DEF Same
    <2> QED
      BY <2>1, <2>2, <2>3, <2>4
         DEF Launch, Cancel, Requeue, RetryFailed, ParkAtGuard, Claim, Unlist, EffectStop,
             TrackerMove, vars
  <1> QED
    BY <1>2, <1>3, <1>4, DeliveredStays

LEMMA WalkDelivers ==
    ASSUME Sound, Delivered, Walk
    PROVE  Delivered'
  <1>1. /\ mailing \in [Mailing -> MailingRow] /\ trace \in [Trace -> TraceRow]
        /\ walk \in WalkRow
    BY DEF Sound, TypeOK
  <1>2. ASSUME NEW m, NEW p, HasTrace(m, p),
               \A t \in Trace : trace[t].status # "absent" => trace'[t].status # "absent"
        PROVE  HasTrace(m, p)'
    BY <1>2 DEF HasTrace
  <1>3. ASSUME NEW m \in Mailing, WalkClaims(m)
        PROVE  Delivered'
    <2>1. /\ walk' = [pc |-> "suppress", job |-> m, hand |-> Audience[m] \ stopped,
                      told |-> Audience[m] \cap stopped, post |-> None]
          /\ UNCHANGED trace /\ walk.pc = "idle" /\ ~mailing[m].walked
      BY <1>3 DEF WalkClaims, SendSet
    <2>2. \A n \in Mailing : /\ mailing'[n].walked = mailing[n].walked
                             /\ mailing'[n].state = "done" => mailing[n].state = "done"
      BY <1>1, <1>3 DEF WalkClaims, Write, MailingRow
    <2>3. WalkedIsCovered' /\ ClosedWhenDone'
      BY <2>1, <2>2, MailingsStay
    <2>4. WalkCovers'
      BY <2>1 DEF WalkCovers
    <2>5. InOrder'
      BY <2>1 DEF Delivered, InOrder
    <2> QED
      BY <2>3, <2>4, <2>5 DEF Delivered
  <1>4. CASE Suppress
    <2>1. PICK new \in SUBSET Trace :
            /\ \A t \in new : t[1] = walk.job /\ IsNext(t)
            /\ {t[2] : t \in new} = walk.told
            /\ trace' = Minted(new, "cancel")
      BY <1>4 DEF Suppress
    <2>2. /\ InOrder'
          /\ \A t \in Trace : trace[t].status # "absent" => trace'[t].status # "absent"
          /\ \A t \in Trace \ new : trace'[t] = trace[t]
          /\ \A t \in new : trace'[t].status = "cancel" /\ trace'[<<t[1], t[2], 1>>].status # "absent"
      BY <2>1, MintedInOrder DEF Delivered
    <2>3. /\ walk.pc = "suppress" /\ walk'.pc = "mint" /\ walk'.job = walk.job
          /\ walk'.hand = walk.hand /\ walk'.told = walk.told /\ UNCHANGED mailing
      BY <1>1, <1>4 DEF Suppress, WalkRow
    <2>4. WalkCovers'
      <3>1. ASSUME NEW p \in walk.told
            PROVE  HasTrace(walk.job, p)'
        <4>1. PICK t \in new : t[2] = p
          BY <2>1
        <4>2. t[1] = walk.job /\ t \in Trace
          BY <2>1
        <4>3. /\ <<t[1], t[2], 1>> = <<walk.job, p, 1>>
              /\ <<t[1], t[2], 1>> \in Trace
          BY <4>1, <4>2, FirstInTrace
        <4>4. trace'[<<t[1], t[2], 1>>].status # "absent"
          BY <2>2
        <4> QED
          BY <2>3, <4>3, <4>4 DEF HasTrace
      <3>2. Audience[walk.job] \subseteq walk.hand \cup walk.told
        BY <2>3 DEF Delivered, WalkCovers
      <3> QED
        BY <2>3, <3>1, <3>2 DEF WalkCovers, HasTrace
    <2>5. \A t \in Trace : trace'[t].live /\ trace'[t].status \in Transients =>
                            trace[t].live /\ trace[t].status \in Transients
      BY <2>2 DEF Transients
    <2>6. WalkedIsCovered' /\ ClosedWhenDone'
      BY <2>2, <2>3, <2>5, MailingsStay DEF Sound, SplitKept
    <2> QED
      BY <2>2, <2>4, <2>6 DEF Delivered
  <1>5. ASSUME NEW p \in Phone, MintSms(p)
        PROVE  Delivered'
    <2>1. /\ UNCHANGED mailing /\ walk.pc = "mint" /\ p \in walk.hand
          /\ walk.job \in Mailing
          /\ \A q \in Audience[walk.job] : q \in walk.hand \/ HasTrace(walk.job, q)
      BY <1>5 DEF MintSms, Delivered, WalkCovers, Sound, SplitKept
    <2>2. CASE Fenced(walk.job, p)
      <3>1. /\ walk'.pc = "mint" /\ walk'.job = walk.job /\ walk'.hand = walk.hand \ {p}
            /\ UNCHANGED trace
        BY <1>1, <1>5, <2>1, <2>2 DEF MintSms, WalkRow
      <3>2. HasTrace(walk.job, p)
        BY <2>2, TraceOfPhone DEF Fenced, Delivered
      <3>3. WalkCovers'
        BY <2>1, <3>1, <3>2 DEF WalkCovers, HasTrace
      <3>4. WalkedIsCovered' /\ ClosedWhenDone'
        BY <2>1, <3>1, MailingsStay
      <3>5. InOrder'
        BY <3>1 DEF Delivered, InOrder
      <3> QED
        BY <3>3, <3>4, <3>5 DEF Delivered
    <2>3. CASE ~Fenced(walk.job, p)
      <3>1. PICK t \in Trace :
                /\ t[1] = walk.job /\ t[2] = p /\ IsNext(t)
                /\ trace' = Minted({t}, "outgoing")
                /\ walk' = [walk EXCEPT !.pc = "post", !.hand = @ \ {p}, !.post = t]
        BY <1>5, <2>3 DEF MintSms
      <3>2. /\ InOrder'
            /\ \A u \in Trace : trace[u].status # "absent" => trace'[u].status # "absent"
            /\ \A u \in Trace \ {t} : trace'[u] = trace[u]
            /\ trace'[<<t[1], t[2], 1>>].status # "absent"
        <4>1. {t} \in SUBSET Trace /\ \A u \in {t} : IsNext(u)
          BY <3>1
        <4> QED
          BY <3>1, <4>1, MintedInOrder DEF Delivered
      <3>3. walk'.pc = "post" /\ walk'.job = walk.job /\ walk'.hand = walk.hand \ {p}
        BY <1>1, <3>1 DEF WalkRow
      <3>4. HasTrace(walk.job, p)'
        BY <3>1, <3>2, <3>3, FirstInTrace DEF HasTrace
      <3>5. WalkCovers'
        <4>1. ASSUME NEW q \in Audience[walk.job], q \notin walk'.hand
              PROVE  HasTrace(walk.job, q)'
          BY <1>2, <2>1, <3>2, <3>3, <3>4, <4>1
        <4> QED
          BY <3>3, <4>1 DEF WalkCovers, HasTrace
      <3>6. ~mailing[walk.job].walked
        BY <2>1 DEF Delivered, WalkedIsCovered
      <3>7. WalkedIsCovered' /\ ClosedWhenDone'
        BY <2>1, <3>1, <3>2, <3>3, <3>6, MailingsStay
      <3> QED
        BY <3>2, <3>5, <3>7 DEF Delivered
    <2> QED
      BY <2>2, <2>3
  <1>6. CASE Post \/ Attach
    <2>1. /\ walk.pc \in {"post", "attach"} /\ walk'.pc \in {"attach", "mint"}
          /\ walk'.job = walk.job /\ walk'.hand = walk.hand /\ UNCHANGED mailing
      BY <1>1, <1>6 DEF Post, Attach, WalkRow
    <2>2. RowsForward
      <3>1. CASE Attach
        <4>1. walk.post \in Trace
          BY <3>1 DEF Attach, Sound, SplitKept
        <4>2. trace' = [trace EXCEPT ![walk.post] = Attached(trace[walk.post])]
          BY <3>1 DEF Attach
        <4> QED
          BY <1>1, <4>1, <4>2, ForwardVerbs DEF RowsForward
      <3> QED
        BY <1>6, <3>1, SameForward DEF Post
    <2>3. \A t \in Trace : /\ trace[t].status # "absent" <=> trace'[t].status # "absent"
                           /\ trace'[t].live /\ trace'[t].status \in Transients =>
                                  trace[t].live /\ trace[t].status \in Transients
      BY <2>2 DEF RowsForward, Forward
    <2>4. InOrder'
      BY <2>3, FirstInTrace DEF InOrder, Delivered
    <2>5. WalkCovers'
      <3>1. \A q \in Audience[walk.job] : q \in walk.hand \/ HasTrace(walk.job, q)
        BY <2>1 DEF Delivered, WalkCovers
      <3> QED
        BY <2>1, <2>3, <3>1 DEF WalkCovers, HasTrace
    <2>6. WalkedIsCovered' /\ ClosedWhenDone'
      BY <2>1, <2>3, MailingsStay DEF Sound, SplitKept
    <2> QED
      BY <2>4, <2>5, <2>6 DEF Delivered
  <1>7. CASE MarkWalkComplete
    <2>1. /\ walk.pc = "mint" /\ walk.hand = {} /\ walk' = NoWalk /\ UNCHANGED trace
          /\ walk.job \in Mailing
          /\ mailing' = [mailing EXCEPT ![walk.job] = Marked(mailing[walk.job])]
      BY <1>7 DEF MarkWalkComplete, Write, Sound, SplitKept
    <2>2. walk'.pc = "idle"
      BY <2>1 DEF NoWalk
    <2>3. \A p \in Audience[walk.job] : HasTrace(walk.job, p)
      BY <2>1 DEF Delivered, WalkCovers
    <2>4. \A m \in Mailing : mailing'[m].walked => mailing[m].walked \/ m = walk.job
      BY <1>1, <2>1
    <2>5. WalkedIsCovered'
      BY <2>1, <2>2, <2>3, <2>4 DEF WalkedIsCovered, HasTrace, Delivered
    <2>6. \A m \in Mailing : mailing'[m].state = "done" =>
                mailing[m].state = "done" /\ (mailing[m].walked => mailing'[m].walked)
      <3>1. /\ Marked(mailing[walk.job]).state = mailing[walk.job].state
            /\ mailing[walk.job].walked => Marked(mailing[walk.job]).walked
        BY <1>1, <2>1 DEF Marked, MailingRow
      <3> QED
        BY <1>1, <2>1, <3>1
    <2>7. ClosedWhenDone'
      BY <2>1, <2>6 DEF ClosedWhenDone, Remaining, Delivered
    <2>8. WalkCovers' /\ InOrder'
      BY <2>1, <2>2 DEF WalkCovers, InOrder, Delivered
    <2> QED
      BY <2>5, <2>7, <2>8 DEF Delivered
  <1> QED
    BY <1>3, <1>4, <1>5, <1>6, <1>7 DEF Walk

LEMMA PassDelivers ==
    ASSUME Sound, Delivered, NEW w \in Pump, Pass(w)
    PROVE  Delivered'
  <1>1. /\ mailing \in [Mailing -> MailingRow] /\ trace \in [Trace -> TraceRow]
        /\ pump \in [Pump -> PumpRow] /\ UNCHANGED walk
    BY DEF Sound, TypeOK, Pass, ReadVerdicts, ApplyVerdict, Scan, LockForDone, InferDone,
           EndPass, SetPass
  <1>2. ASSUME NEW v \in Trace \X TrackerState, ApplyVerdict(w, v)
        PROVE  Delivered'
    <2>1. trace' = [trace EXCEPT ![v[1]] = Verdict(trace[v[1]], v[2])] /\ UNCHANGED mailing
      BY <1>2 DEF ApplyVerdict
    <2>2. RowsForward
      BY <1>1, <2>1, ForwardVerbs DEF RowsForward
    <2> QED
      BY <1>1, <2>1, <2>2, DeliveredStays
  <1>3. CASE InferDone(w)
    <2> DEFINE m == pump[w].locked
    <2>1. m \in Mailing /\ Lockable(mailing[m])
      BY <1>1, <1>3 DEF InferDone, PumpRow, Sound, LockedIsLockable
    <2>2. mailing[m].walked
      BY <2>1 DEF Lockable
    <2>3. UNCHANGED trace /\ mailing' = IF Remaining(m) = {}
                                        THEN [mailing EXCEPT ![m] = Completed(mailing[m])]
                                        ELSE mailing
      BY <1>3 DEF InferDone
    <2> HIDE DEF m
    <2>4. /\ \A n \in Mailing : mailing'[n].walked = mailing[n].walked
          /\ \A n \in Mailing : mailing'[n].state = "done" =>
                mailing[n].state = "done" \/ (n = m /\ Remaining(m) = {})
      BY <1>1, <2>1, <2>3 DEF Completed, MailingRow
    <2>5. ClosedWhenDone'
      BY <2>2, <2>3, <2>4 DEF ClosedWhenDone, Remaining, Delivered
    <2>6. WalkedIsCovered'
      BY <1>1, <2>3, <2>4 DEF WalkedIsCovered, HasTrace, Delivered
    <2>7. InOrder' /\ WalkCovers'
      BY <1>1, <2>3 DEF InOrder, WalkCovers, HasTrace, Delivered
    <2> QED
      BY <2>5, <2>6, <2>7 DEF Delivered
  <1>4. ASSUME UNCHANGED <<mailing, trace>>
        PROVE  Delivered'
    BY <1>1, <1>4, SameForward, DeliveredStays
  <1> QED
    BY <1>2, <1>3, <1>4 DEF Pass, ReadVerdicts, Scan, LockForDone, EndPass

LEMMA CrashDelivers ==
    ASSUME Sound, Delivered, Crash
    PROVE  Delivered'
  <1>1. UNCHANGED <<mailing, trace>> /\ (walk'.pc = "idle" \/ UNCHANGED walk)
    BY DEF Crash, NoWalk
  <1>2. WalkCovers' /\ WalkedIsCovered'
    BY <1>1 DEF WalkCovers, WalkedIsCovered, HasTrace, Delivered
  <1>3. InOrder' /\ ClosedWhenDone'
    BY <1>1 DEF InOrder, ClosedWhenDone, Remaining, Delivered
  <1> QED
    BY <1>2, <1>3 DEF Delivered

LEMMA SpecDelivered == Spec => []Delivered
  <1>1. Init => Delivered
    <2> SUFFICES ASSUME Init PROVE Delivered
      OBVIOUS
    <2>1. walk.pc = "idle"
      BY DEF Init, NoWalk
    <2>2. \A t \in Trace : trace[t].status = "absent"
      BY DEF Init, NoTrace
    <2>3. \A m \in Mailing : ~mailing[m].walked
      <3>1. \A m \in Mailing :
                mailing[m] = [state |-> "draft", walked |-> FALSE, parked |-> FALSE]
        BY DEF Init
      <3>2. ~[state |-> "draft", walked |-> FALSE, parked |-> FALSE].walked
        OBVIOUS
      <3> QED
        BY <3>1, <3>2
    <2>4. \A m \in Mailing : mailing[m].state = "draft"
      BY DEF Init
    <2> QED
      BY <2>1, <2>2, <2>3, <2>4
         DEF Delivered, InOrder, WalkCovers, WalkedIsCovered, ClosedWhenDone
  <1>2. Sound /\ Delivered /\ [Next]_vars => Delivered'
    BY VerbsDeliver, WalkDelivers, PassDelivers, CrashDelivers DEF Next, HandleReply, StopByCode
  <1> QED
    BY <1>1, <1>2, SpecSound, PTL DEF Spec

\* An sms mailing is done only when everybody was walked and no delivery is open: the pump's
\* count (count_transient_sms_traces) is taken of a mailing that mints no more, whichever
\* pumps, sweeps, cancels, retries and crashes it meets.
THEOREM DoneMeansDelivered == Spec => []DoneIsDelivered
  <1>1. Delivered => DoneIsDelivered
    BY DEF Delivered, WalkedIsCovered, ClosedWhenDone, DoneIsDelivered, HasTrace
  <1> QED
    BY <1>1, SpecDelivered, PTL

-----------------------------------------------------------------------------
(* One text for each number. *)

\* A row whose text may go out or has gone out, whether or not a retry has hidden it.
Standing(row) == row.status \notin {"absent", "cancel"}

OneStanding ==
    \A t, u \in Trace :
        t[1] = u[1] /\ t[2] = u[2] /\ Standing(trace[t]) /\ Standing(trace[u]) => t = u

\* Only a retry hides a row, and only of a mailing that is walked and mints no more: for the
\* walks that mint, the fence sees every row.
HiddenIsWalked ==
    \A t \in Trace : trace[t].status # "absent" /\ ~trace[t].live => mailing[t[1]].walked

\* What a trace says of its text.
TextKnown(t) ==
    /\ trace[t].status = "absent" => tracker[t] = None
    /\ trace[t].status = "cancel" => tracker[t] \in {None, "canceled"}

\* The walk texts a trace that was minted and that no verdict can have moved.
PostIsFresh ==
    walk.pc = "post" => trace[walk.post].status = "outgoing" /\ tracker[walk.post] = None

\* A pump holds verdicts of texts only, and a cancel verdict is still true when it is applied.
VerdictsTrue ==
    \A w \in Pump : \A v \in pump[w].verdicts :
        /\ tracker[v[1]] # None
        /\ v[2] = "canceled" => tracker[v[1]] = "canceled"

Single ==
    /\ OneStanding
    /\ HiddenIsWalked
    /\ \A t \in Trace : TextKnown(t)
    /\ PostIsFresh
    /\ VerdictsTrue

\* The gateway does not revive a canceled text.
CanceledIsFinal == \A next \in TrackerState : <<"canceled", next>> \notin TrackerMoves

\* What a verb does to a row besides minting it.
Stays(row, next) ==
    /\ next.live = row.live
    /\ row.status = "absent" <=> next.status = "absent"
    /\ row.status = "cancel" => next.status = "cancel"

LEMMA VerbsStay ==
    ASSUME NEW row \in TraceRow
    PROVE  /\ Stays(row, row)
           /\ Stays(row, Attached(row)) /\ Attached(row).status = row.status
           /\ \A verdict : /\ Stays(row, Verdict(row, verdict))
                           /\ verdict # "canceled" /\ Verdict(row, verdict).status = "cancel" =>
                                   row.status = "cancel"
  <1>1. Stays(row, row)
    BY DEF Stays
  <1>2. Stays(row, Attached(row)) /\ Attached(row).status = row.status
    BY DEF Stays, Attached, TraceRow
  <1>3. ASSUME NEW sources \in SUBSET {"outgoing", "process", "pending", "sent"},
               NEW to \in {"process", "pending", "sent", "bounce", "error", "cancel"}
        PROVE  /\ Stays(row, Moved(row, sources, to))
               /\ to # "cancel" /\ Moved(row, sources, to).status = "cancel" =>
                       row.status = "cancel"
    <2>1. LET next == [row EXCEPT !.status = to]
          IN  next.status = to /\ next.live = row.live
      BY DEF TraceRow
    <2> QED
      BY <1>3, <2>1 DEF Stays, Moved
  <1>4. \A next \in {SetProcess(row), SetPending(row), SetSent(row), SetBouncedSms(row),
                     SetFailed(row)} :
            Stays(row, next) /\ (next.status = "cancel" => row.status = "cancel")
    BY <1>3 DEF SetProcess, SetPending, SetSent, SetBouncedSms, SetFailed
  <1>5. Stays(row, SetCanceled(row))
    BY <1>3 DEF SetCanceled
  <1> QED
    BY <1>1, <1>2, <1>4, <1>5 DEF Verdict

\* A mark is never taken off.
LEMMA MarksStay ==
    ASSUME Sound, [Next]_vars, NEW m \in Mailing, mailing[m].walked
    PROVE  mailing'[m].walked
  <1>1. mailing \in [Mailing -> MailingRow]
    BY DEF Sound, TypeOK
  <1>2. ASSUME NEW n \in Mailing, NEW row, Write(n, row), mailing[n].walked => row.walked
        PROVE  mailing'[m].walked
    BY <1>1, <1>2 DEF Write
  <1>3. \A n \in Mailing : mailing[n].walked =>
            /\ Parked(mailing[n]).walked /\ Marked(mailing[n]).walked
            /\ Completed(mailing[n]).walked
            /\ [mailing[n] EXCEPT !.state = "in_queue"].walked
            /\ [mailing[n] EXCEPT !.state = "draft"].walked
            /\ [mailing[n] EXCEPT !.state = "sending"].walked
            /\ [mailing[n] EXCEPT !.state = "in_queue", !.parked = FALSE].walked
    BY <1>1 DEF Parked, Marked, Completed, MailingRow
  <1>4. ASSUME NEW n \in Mailing, Launch(n) \/ Cancel(n) \/ Requeue(n) \/ RetryFailed(n)
        PROVE  mailing'[m].walked
    BY <1>2, <1>3, <1>4 DEF Launch, Cancel, Requeue, RetryFailed
  <1>5. ASSUME NEW s \in Sweeper, ParkAtGuard(s) \/ \E n \in Mailing : Claim(s, n)
        PROVE  mailing'[m].walked
    <2>1. sweeper[s] \in Mailing \cup {None}
      BY DEF Sound, TypeOK
    <2> QED
      BY <1>2, <1>3, <1>5, <2>1 DEF ParkAtGuard, Claim
  <1>6. CASE Walk
    <2>1. ASSUME NEW n \in Mailing, WalkClaims(n)
          PROVE  mailing'[m].walked
      BY <1>2, <1>3, <2>1 DEF WalkClaims
    <2>2. CASE MarkWalkComplete
      <3>1. walk.job \in Mailing
        BY <2>2 DEF MarkWalkComplete, Sound, SplitKept
      <3> QED
        BY <1>2, <1>3, <2>2, <3>1 DEF MarkWalkComplete
    <2> QED
      BY <1>6, <2>1, <2>2 DEF Walk, Suppress, MintSms, Post, Attach
  <1>7. ASSUME NEW w \in Pump, Pass(w)
        PROVE  mailing'[m].walked
    <2>1. pump[w].locked # None => pump[w].locked \in Mailing
      BY DEF Sound, TypeOK, PumpRow
    <2> QED
      BY <1>1, <1>3, <1>7, <2>1
         DEF Pass, ReadVerdicts, ApplyVerdict, Scan, LockForDone, InferDone, EndPass
  <1> QED
    BY <1>4, <1>5, <1>6, <1>7
       DEF Next, Unlist, HandleReply, StopByCode, EffectStop, TrackerMove, Crash, vars
LEMMA RowsStay ==
    ASSUME Sound, Single, [Next]_vars, \A t \in Trace : Stays(trace[t], trace'[t])
    PROVE  OneStanding' /\ HiddenIsWalked'
  <1>1. OneStanding'
    BY DEF OneStanding, Standing, Stays, Single
  <1>2. \A t \in Trace : t[1] \in Mailing
    BY DEF Trace
  <1>3. HiddenIsWalked'
    BY <1>2, MarksStay DEF HiddenIsWalked, Stays, Single
  <1> QED
    BY <1>1, <1>3

\* A step that reads no verdict, mints nothing and texts nobody.
LEMMA QuietStep ==
    ASSUME Sound, Single, [Next]_vars, UNCHANGED <<trace, tracker>>,
           walk'.pc = "post" => UNCHANGED walk,
           \A w \in Pump : pump'[w].verdicts \subseteq pump[w].verdicts
    PROVE  Single'
  <1>1. OneStanding' /\ HiddenIsWalked'
    BY VerbsStay, RowsStay DEF Sound, TypeOK
  <1>2. (\A t \in Trace : TextKnown(t))'
    BY DEF TextKnown, Single
  <1>3. PostIsFresh' /\ VerdictsTrue'
    BY DEF PostIsFresh, VerdictsTrue, Single
  <1> QED
    BY <1>1, <1>2, <1>3 DEF Single

LEMMA RetryKeepsSingle ==
    ASSUME Sound, Single, Delivered, [Next]_vars, NEW m \in Mailing, RetryFailed(m)
    PROVE  Single'
  <1>1. /\ trace \in [Trace -> TraceRow] /\ mailing \in [Mailing -> MailingRow]
        /\ mailing[m].state = "done" /\ UNCHANGED <<tracker, walk, pump>>
        /\ trace' = [t \in Trace |-> IF t \in FailedTraces(m)
                                     THEN [trace[t] EXCEPT !.live = FALSE] ELSE trace[t]]
    BY DEF RetryFailed, Sound, TypeOK
  <1>2. \A t \in Trace : /\ trace'[t].status = trace[t].status
                         /\ trace'[t].live # trace[t].live => t[1] = m
    <2>1. \A t \in Trace : trace'[t] = IF t \in FailedTraces(m)
                                       THEN [trace[t] EXCEPT !.live = FALSE] ELSE trace[t]
      BY <1>1
    <2>2. \A t \in Trace : [trace[t] EXCEPT !.live = FALSE].status = trace[t].status
      BY <1>1 DEF TraceRow
    <2> QED
      BY <2>1, <2>2 DEF FailedTraces
  <1>3. mailing'[m].walked
    BY <1>1, MarksStay DEF Delivered, ClosedWhenDone
  <1>4. HiddenIsWalked'
    <2>1. \A t \in Trace : t[1] \in Mailing
      BY DEF Trace
    <2> QED
      BY <1>2, <1>3, <2>1, MarksStay DEF HiddenIsWalked, Single
  <1>5. OneStanding'
    BY <1>2 DEF OneStanding, Standing, Single
  <1>6. (\A t \in Trace : TextKnown(t))'
    BY <1>1, <1>2 DEF TextKnown, Single
  <1>7. PostIsFresh' /\ VerdictsTrue'
    BY <1>1, <1>2 DEF PostIsFresh, VerdictsTrue, Single, Sound, SplitKept
  <1> QED
    BY <1>4, <1>5, <1>6, <1>7 DEF Single

\* A walk's mailing is not walked yet, so the fence has seen all its rows.
LEMMA FenceIsComplete ==
    ASSUME Sound, Single, Delivered, walk.pc # "idle", NEW p, ~Fenced(walk.job, p)
    PROVE  \A t \in Trace : t[1] = walk.job /\ t[2] = p => ~Standing(trace[t])
  <1>1. walk.job \in Mailing /\ ~mailing[walk.job].walked
    BY DEF Sound, SplitKept, Delivered, WalkedIsCovered
  <1> QED
    BY <1>1 DEF Fenced, Standing, HiddenIsWalked, Single

LEMMA MintKeepsSingle ==
    ASSUME Sound, Single, Delivered, [Next]_vars, Suppress \/ \E p \in Phone : MintSms(p)
    PROVE  Single'
  <1>1. /\ trace \in [Trace -> TraceRow] /\ walk \in WalkRow /\ UNCHANGED <<tracker, pump>>
    BY DEF Sound, TypeOK, Suppress, MintSms
  <1> DEFINE row(status) == [status |-> status, live |-> TRUE, link |-> 0]
  <1>2. ASSUME NEW new \in SUBSET Trace, NEW status \in {"cancel", "outgoing"},
               \A t \in new : IsNext(t), trace' = Minted(new, status)
        PROVE  /\ \A t \in Trace : trace'[t] = IF t \in new THEN row(status) ELSE trace[t]
               /\ HiddenIsWalked'
               /\ (\A t \in Trace : TextKnown(t))'
               /\ VerdictsTrue'
    <2>1. \A t \in Trace : trace'[t] = IF t \in new THEN row(status) ELSE trace[t]
      BY <1>2 DEF Minted
    <2>2. row(status).live /\ row(status).status = status
      OBVIOUS
    <2> HIDE DEF row
    <2>3. \A t \in Trace : t[1] \in Mailing
      BY DEF Trace
    <2>4. HiddenIsWalked'
      BY <2>1, <2>2, <2>3, MarksStay DEF HiddenIsWalked, Single
    <2>5. \A t \in new : tracker[t] = None
      BY <1>2 DEF IsNext, TextKnown, Single
    <2>6. (\A t \in Trace : TextKnown(t))'
      BY <1>1, <2>1, <2>2, <2>5 DEF TextKnown, Single
    <2>7. VerdictsTrue'
      BY <1>1 DEF VerdictsTrue, Single
    <2> QED
      BY <2>1, <2>4, <2>6, <2>7
  <1> HIDE DEF row
  <1>3. row("cancel").status = "cancel" /\ row("outgoing").status = "outgoing"
    BY DEF row
  <1>4. CASE Suppress
    <2>1. PICK new \in SUBSET Trace :
            /\ \A t \in new : IsNext(t)
            /\ trace' = Minted(new, "cancel")
      BY <1>4 DEF Suppress
    <2>2. walk'.pc = "mint"
      BY <1>1, <1>4 DEF Suppress, WalkRow
    <2>3. /\ \A t \in Trace : trace'[t] = IF t \in new THEN row("cancel") ELSE trace[t]
          /\ HiddenIsWalked' /\ (\A t \in Trace : TextKnown(t))' /\ VerdictsTrue'
      BY <1>2, <2>1
    <2>4. OneStanding'
      BY <1>3, <2>3 DEF OneStanding, Standing, Single
    <2> QED
      BY <2>2, <2>3, <2>4 DEF Single, PostIsFresh
  <1>5. ASSUME NEW p \in Phone, MintSms(p)
        PROVE  Single'
    <2>1. CASE Fenced(walk.job, p)
      <3>1. walk'.pc = "mint" /\ UNCHANGED trace
        BY <1>1, <1>5, <2>1 DEF MintSms, WalkRow
      <3> QED
        BY <1>1, <3>1, QuietStep
    <2>2. CASE ~Fenced(walk.job, p)
      <3>1. PICK n \in Trace : /\ n[1] = walk.job /\ n[2] = p /\ IsNext(n)
                               /\ trace' = Minted({n}, "outgoing")
                               /\ walk' = [walk EXCEPT !.pc = "post", !.hand = @ \ {p},
                                                       !.post = n]
        BY <1>5, <2>2 DEF MintSms
      <3>2. walk'.post = n
        BY <1>1, <3>1 DEF WalkRow
      <3>3. /\ \A t \in Trace : trace'[t] = IF t \in {n} THEN row("outgoing") ELSE trace[t]
            /\ HiddenIsWalked' /\ (\A t \in Trace : TextKnown(t))' /\ VerdictsTrue'
        <4>1. \A t \in {n} : IsNext(t)
          BY <3>1
        <4> QED
          BY <1>2, <3>1, <4>1
      <3>4. \A t \in Trace : t[1] = n[1] /\ t[2] = n[2] => ~Standing(trace[t])
        BY <1>5, <2>2, <3>1, FenceIsComplete DEF MintSms
      <3>5. OneStanding'
        BY <3>3, <3>4 DEF OneStanding, Standing, Single
      <3>6. PostIsFresh'
        BY <1>1, <1>3, <3>1, <3>2, <3>3 DEF PostIsFresh, IsNext, TextKnown, Single
      <3> QED
        BY <3>3, <3>5, <3>6 DEF Single
    <2> QED
      BY <2>1, <2>2
  <1> QED
    BY <1>4, <1>5

LEMMA TextKeepsSingle ==
    ASSUME Sound, Single, CanceledIsFinal, [Next]_vars,
           Post \/ Attach \/ \E t \in Trace : TrackerMove(t)
    PROVE  Single'
  <1>1. /\ trace \in [Trace -> TraceRow] /\ tracker \in [Trace -> TrackerState \cup {None}]
        /\ walk \in WalkRow /\ UNCHANGED pump
        /\ \A w \in Pump : \A v \in pump[w].verdicts : v[1] \in Trace
    BY DEF Sound, TypeOK, Post, Attach, TrackerMove, PumpRow
  <1>2. CASE Post
    <2>1. walk.post \in Trace /\ trace[walk.post].status = "outgoing"
          /\ tracker[walk.post] = None
      BY <1>2 DEF Post, Sound, SplitKept, PostIsFresh, Single
    <2>2. /\ \A t \in Trace : tracker'[t] = IF t = walk.post THEN "ready" ELSE tracker[t]
          /\ UNCHANGED trace /\ walk'.pc = "attach"
      BY <1>1, <1>2, <2>1 DEF Post, WalkRow
    <2>3. OneStanding' /\ HiddenIsWalked'
      BY <1>1, <2>2, VerbsStay, RowsStay
    <2>4. (\A t \in Trace : TextKnown(t))'
      BY <2>1, <2>2 DEF TextKnown, Single
    <2>5. VerdictsTrue'
      BY <1>1, <2>1, <2>2 DEF VerdictsTrue, Single
    <2> QED
      BY <2>2, <2>3, <2>4, <2>5 DEF Single, PostIsFresh
  <1>3. CASE Attach
    <2>1. walk.post \in Trace
      BY <1>3 DEF Attach, Sound, SplitKept
    <2>2. /\ trace' = [trace EXCEPT ![walk.post] = Attached(trace[walk.post])]
          /\ UNCHANGED tracker /\ walk'.pc = "mint"
      BY <1>1, <1>3 DEF Attach, WalkRow
    <2>3. \A t \in Trace : /\ Stays(trace[t], trace'[t])
                           /\ trace'[t].status = trace[t].status
      BY <1>1, <2>1, <2>2, VerbsStay
    <2>4. (\A t \in Trace : TextKnown(t))'
      BY <2>2, <2>3 DEF TextKnown, Single
    <2> QED
      BY <1>1, <2>2, <2>3, <2>4, RowsStay DEF Single, PostIsFresh, VerdictsTrue
  <1>4. ASSUME NEW n \in Trace, TrackerMove(n)
        PROVE  Single'
    <2>1. PICK next \in TrackerState : /\ <<tracker[n], next>> \in TrackerMoves
                                       /\ tracker' = [tracker EXCEPT ![n] = next]
      BY <1>4 DEF TrackerMove
    <2>2. tracker[n] \in TrackerState /\ tracker[n] # None /\ tracker[n] # "canceled"
      BY <2>1, MovesAssumption DEF CanceledIsFinal
    <2>3. next # None
      BY MovesAssumption
    <2>4. /\ \A t \in Trace : tracker'[t] = IF t = n THEN next ELSE tracker[t]
          /\ UNCHANGED <<trace, walk>>
      BY <1>1, <1>4, <2>1 DEF TrackerMove
    <2>5. OneStanding' /\ HiddenIsWalked'
      BY <1>1, <2>4, VerbsStay, RowsStay
    <2>6. (\A t \in Trace : TextKnown(t))'
      BY <2>2, <2>4 DEF TextKnown, Single
    <2>7. VerdictsTrue'
      BY <1>1, <2>2, <2>3, <2>4 DEF VerdictsTrue, Single
    <2>8. PostIsFresh'
      BY <2>2, <2>4 DEF PostIsFresh, Single, Sound, SplitKept
    <2> QED
      BY <2>5, <2>6, <2>7, <2>8 DEF Single
  <1> QED
    BY <1>2, <1>3, <1>4

LEMMA PassKeepsSingle ==
    ASSUME Sound, Single, [Next]_vars, NEW w \in Pump, Pass(w)
    PROVE  Single'
  <1>1. /\ trace \in [Trace -> TraceRow] /\ pump \in [Pump -> PumpRow]
        /\ UNCHANGED <<tracker, walk>>
    BY DEF Sound, TypeOK, Pass, ReadVerdicts, ApplyVerdict, Scan, LockForDone, InferDone,
           EndPass, SetPass
  <1>2. CASE ReadVerdicts(w)
    <2>1. UNCHANGED trace /\ pump' = [pump EXCEPT ![w] = [NoPass EXCEPT !.pc = "advance",
                                                            !.verdicts = TrackedTransients]]
      BY <1>2 DEF ReadVerdicts, SetPass
    <2>2. pump'[w].verdicts = TrackedTransients
          /\ \A u \in Pump : u # w => pump'[u] = pump[u]
      BY <1>1, <2>1 DEF NoPass
    <2>3. ASSUME NEW v \in TrackedTransients
          PROVE  tracker[v[1]] # None /\ v[2] = tracker[v[1]]
      <3>1. PICK t \in Trace : tracker[t] # None /\ v = <<t, tracker[t]>>
        BY DEF TrackedTransients
      <3>2. v[1] = t /\ v[2] = tracker[t]
        BY <3>1
      <3> QED
        BY <3>1, <3>2
    <2>4. VerdictsTrue'
      BY <1>1, <2>2, <2>3 DEF VerdictsTrue, Single
    <2>5. OneStanding' /\ HiddenIsWalked'
      BY <1>1, <2>1, VerbsStay, RowsStay
    <2> QED
      BY <1>1, <2>1, <2>4, <2>5 DEF Single, TextKnown, PostIsFresh
  <1>3. ASSUME NEW v \in Trace \X TrackerState, ApplyVerdict(w, v)
        PROVE  Single'
    <2>1. /\ v \in pump[w].verdicts /\ v[1] \in Trace
          /\ trace' = [trace EXCEPT ![v[1]] = Verdict(trace[v[1]], v[2])]
          /\ pump' = [pump EXCEPT ![w] = [pump[w] EXCEPT !.verdicts = @ \ {v}]]
      BY <1>3 DEF ApplyVerdict, SetPass
    <2>2. /\ tracker[v[1]] # None /\ v[2] = "canceled" => tracker[v[1]] = "canceled"
          /\ tracker[v[1]] # None
      BY <2>1 DEF VerdictsTrue, Single
    <2>3. \A t \in Trace : /\ Stays(trace[t], trace'[t])
                           /\ t # v[1] => trace'[t] = trace[t]
                           /\ v[2] # "canceled" /\ trace'[t].status = "cancel" =>
                                    trace[t].status = "cancel"
      BY <1>1, <2>1, VerbsStay
    <2>4. OneStanding' /\ HiddenIsWalked'
      BY <2>3, RowsStay
    <2>5. (\A t \in Trace : TextKnown(t))'
      BY <1>1, <2>2, <2>3 DEF TextKnown, Stays, Single
    <2>6. PostIsFresh'
      BY <1>1, <2>2, <2>3 DEF PostIsFresh, Single, Sound, SplitKept
    <2>7. \A u \in Pump : pump'[u].verdicts \subseteq pump[u].verdicts
      BY <1>1, <2>1 DEF PumpRow
    <2>8. VerdictsTrue'
      BY <1>1, <2>7 DEF VerdictsTrue, Single
    <2> QED
      BY <2>4, <2>5, <2>6, <2>8 DEF Single
  <1>4. CASE Scan(w) \/ (\E m \in Mailing : LockForDone(w, m)) \/ InferDone(w) \/ EndPass(w)
    <2>1. UNCHANGED trace
      BY <1>4 DEF Scan, LockForDone, InferDone, EndPass
    <2>2. CASE EndPass(w)
      BY <1>1, <2>1, <2>2, QuietStep DEF EndPass, SetPass, NoPass
    <2>3. ASSUME NEW pass, pump' = [pump EXCEPT ![w] = pass], pass.verdicts = pump[w].verdicts
          PROVE  Single'
      BY <1>1, <2>1, <2>3, QuietStep
    <2>4. CASE Scan(w)
      <3>1. [pump[w] EXCEPT !.pc = "infer",
                !.candidates = {m \in Mailing : Candidate(mailing[m])}].verdicts
            = pump[w].verdicts
        BY <1>1 DEF PumpRow
      <3> QED
        BY <2>3, <2>4, <3>1 DEF Scan, SetPass
    <2>5. ASSUME NEW m \in Mailing, LockForDone(w, m)
          PROVE  Single'
      <3>1. [pump[w] EXCEPT !.candidates = @ \ {m},
                !.locked = IF Lockable(mailing[m]) THEN m ELSE None].verdicts
            = pump[w].verdicts
        BY <1>1 DEF PumpRow
      <3> QED
        BY <2>3, <2>5, <3>1 DEF LockForDone, SetPass
    <2>6. CASE InferDone(w)
      <3>1. [pump[w] EXCEPT !.locked = None].verdicts = pump[w].verdicts
        BY <1>1 DEF PumpRow
      <3> QED
        BY <2>3, <2>6, <3>1 DEF InferDone, SetPass
    <2> QED
      BY <1>4, <2>2, <2>4, <2>5, <2>6
  <1> QED
    BY <1>2, <1>3, <1>4 DEF Pass

LEMMA SingleKept ==
    ASSUME Sound, Single, Delivered, CanceledIsFinal, [Next]_vars
    PROVE  Single'
  <1>1. CASE \/ \E m \in Mailing : Launch(m) \/ Cancel(m) \/ Requeue(m)
             \/ \E s \in Sweeper : ParkAtGuard(s) \/ \E m \in Mailing : Claim(s, m)
             \/ \E p \in Phone : Unlist(p) \/ EffectStop(p)
             \/ UNCHANGED vars
    BY <1>1, QuietStep
       DEF Launch, Cancel, Requeue, ParkAtGuard, Claim, Unlist, EffectStop, vars
  <1>2. CASE MarkWalkComplete \/ \E m \in Mailing : WalkClaims(m)
    <2>1. UNCHANGED <<trace, tracker, pump>>
      BY <1>2 DEF MarkWalkComplete, WalkClaims
    <2>2. CASE MarkWalkComplete
      BY <2>1, <2>2, QuietStep DEF MarkWalkComplete, NoWalk
    <2>3. ASSUME NEW m \in Mailing, WalkClaims(m)
          PROVE  walk'.pc = "suppress"
      BY <2>3 DEF WalkClaims
    <2> QED
      BY <1>2, <2>1, <2>2, <2>3, QuietStep
  <1>3. CASE Crash
    <2>1. UNCHANGED <<trace, tracker>> /\ (walk'.pc = "idle" \/ UNCHANGED walk)
      BY <1>3 DEF Crash, NoWalk
    <2>2. \A w \in Pump : pump'[w].verdicts \subseteq pump[w].verdicts
      BY <1>3 DEF Crash, NoPass, Sound, TypeOK
    <2> QED
      BY <2>1, <2>2, QuietStep
  <1> QED
    BY <1>1, <1>2, <1>3, RetryKeepsSingle, MintKeepsSingle, TextKeepsSingle, PassKeepsSingle
    DEF Next, Walk, HandleReply, StopByCode

\* A number is texted once for each mailing unless its text was canceled before dispatch,
\* whatever passes, crashes, stops, retries and late verdicts it meets: the fenced mint
\* (mint_trace_channel_fenced) sees every row, since a retry hides rows only where the walk is
\* over.
THEOREM TextIsSentOnce ==
    ASSUME CanceledIsFinal
    PROVE  Spec => []TextedOnce
  <1>1. Init => Single
    <2> SUFFICES ASSUME Init PROVE Single
      OBVIOUS
    <2>1. walk.pc = "idle" /\ \A w \in Pump : pump[w].verdicts = {}
      BY DEF Init, NoWalk, NoPass
    <2>2. \A t \in Trace : trace[t].status = "absent" /\ tracker[t] = None
      BY DEF Init, NoTrace
    <2> QED
      BY <2>1, <2>2
         DEF Single, OneStanding, Standing, HiddenIsWalked, TextKnown, PostIsFresh, VerdictsTrue
  <1>2. Sound /\ Delivered /\ Single /\ [Next]_vars => Single'
    BY SingleKept
  <1>3. Single => TextedOnce
    BY DEF Single, OneStanding, Standing, TextKnown, TextedOnce
  <1> QED
    BY <1>1, <1>2, <1>3, SpecSound, SpecDelivered, PTL DEF Spec

-----------------------------------------------------------------------------
(* The rows of the database. *)

\* The ways a row may change under TraceLifecycle, as a relation on rows.
RowStep(old, new) ==
    \/ new.status = old.status /\ new.live = old.live /\ new.link = old.link
    \/ /\ old.status = "absent" /\ new.status \in {"outgoing", "cancel"}
       /\ new.live /\ new.link = 0
    \/ /\ old.live /\ old.status # "absent" /\ new.status \in Rows!Successors[old.status]
       /\ new.live /\ new.link = old.link
    \/ /\ old.live /\ old.link = 0 /\ new.link \in Nat \ {0}
       /\ new.status = old.status /\ new.live
    \/ /\ old.live /\ ~new.live
       /\ old.status = "error" /\ new.status = "error" /\ new.link = old.link

RowSteps == \A t \in Trace : RowStep(trace[t], trace'[t])

LEMMA SameIsStep == ASSUME NEW row PROVE RowStep(row, row)
  BY DEF RowStep

\* A verb that leaves only states the trigger lets it leave.
LEMMA MovedIsStep ==
    ASSUME NEW row \in TraceRow, NEW to,
           NEW sources \in SUBSET {"outgoing", "process", "pending", "sent"},
           \A from \in sources : to \in Rows!Successors[from]
    PROVE  RowStep(row, Moved(row, sources, to))
  <1>1. LET next == [row EXCEPT !.status = to]
        IN  next.status = to /\ next.live = row.live /\ next.link = row.link
    BY DEF TraceRow
  <1>2. CASE row.live /\ row.status \in sources
    BY <1>1, <1>2 DEF RowStep, Moved
  <1>3. CASE ~(row.live /\ row.status \in sources)
    BY <1>3 DEF RowStep, Moved
  <1> QED
    BY <1>2, <1>3

LEMMA VerdictIsStep ==
    ASSUME NEW row \in TraceRow, NEW verdict
    PROVE  RowStep(row, Verdict(row, verdict))
  <1>1. /\ RowStep(row, SetProcess(row)) /\ RowStep(row, SetPending(row))
        /\ RowStep(row, SetSent(row)) /\ RowStep(row, SetBouncedSms(row))
        /\ RowStep(row, SetFailed(row)) /\ RowStep(row, SetCanceled(row))
    BY MovedIsStep DEF SetProcess, SetPending, SetSent, SetBouncedSms, SetFailed, SetCanceled,
                       Rows!Successors
  <1> QED
    BY <1>1, SameIsStep DEF Verdict

LEMMA AttachedIsStep ==
    ASSUME NEW row \in TraceRow
    PROVE  RowStep(row, Attached(row))
  <1>1. LET next == [row EXCEPT !.link = 1]
        IN  next.link = 1 /\ next.live = row.live /\ next.status = row.status
    BY DEF TraceRow
  <1> QED
    BY <1>1 DEF Attached, RowStep

\* One row changes.
LEMMA OneIsStep ==
    ASSUME Sound, NEW t \in Trace, NEW next, trace' = [trace EXCEPT ![t] = next],
           RowStep(trace[t], next)
    PROVE  RowSteps
  BY SameIsStep DEF Sound, TypeOK, RowSteps

LEMMA MintedIsStep ==
    ASSUME Sound, NEW new, \A t \in new : t \in Trace /\ IsNext(t),
           NEW status \in {"outgoing", "cancel"}, trace' = Minted(new, status)
    PROVE  RowSteps
  BY DEF Sound, TypeOK, RowSteps, RowStep, Minted, IsNext

LEMMA WalkTakesRowSteps ==
    ASSUME Sound, Walk, trace' # trace
    PROVE  RowSteps
  <1>1. CASE Suppress
    <2>1. PICK new \in SUBSET Trace : /\ \A t \in new : IsNext(t)
                                      /\ trace' = Minted(new, "cancel")
      BY <1>1 DEF Suppress
    <2> QED
      BY <2>1, MintedIsStep
  <1>2. ASSUME NEW p \in Phone, MintSms(p)
        PROVE  RowSteps
    <2>1. PICK t \in Trace : IsNext(t) /\ trace' = Minted({t}, "outgoing")
      BY <1>2 DEF MintSms
    <2> QED
      BY <2>1, MintedIsStep
  <1>3. CASE Attach
    <2>1. trace' = [trace EXCEPT ![walk.post] = Attached(trace[walk.post])]
      BY <1>3 DEF Attach
    <2>2. walk.post \in Trace
      BY <2>1 DEF Sound, TypeOK
    <2> QED
      BY <2>1, <2>2, AttachedIsStep, OneIsStep DEF Sound, TypeOK
  <1> QED
    BY <1>1, <1>2, <1>3 DEF Walk, WalkClaims, Post, MarkWalkComplete

LEMMA StepsTakeRowSteps ==
    ASSUME Sound, Next
    PROVE  RowSteps \/ UNCHANGED trace
  <1>1. ASSUME NEW m \in Mailing, RetryFailed(m)
        PROVE  RowSteps
    <2>1. trace' = [t \in Trace |-> IF t \in FailedTraces(m)
                                    THEN [trace[t] EXCEPT !.live = FALSE] ELSE trace[t]]
      BY <1>1 DEF RetryFailed
    <2>2. ASSUME NEW t \in FailedTraces(m)
          PROVE  RowStep(trace[t], [trace[t] EXCEPT !.live = FALSE])
      BY DEF FailedTraces, RowStep, Sound, TypeOK, TraceRow
    <2> QED
      BY <2>1, <2>2, SameIsStep DEF RowSteps
  <1>2. ASSUME NEW w \in Pump, Pass(w)
        PROVE  RowSteps \/ UNCHANGED trace
    <2>1. ASSUME NEW v \in Trace \X TrackerState, ApplyVerdict(w, v)
          PROVE  RowSteps
      <3>1. /\ v[1] \in Trace
            /\ trace' = [trace EXCEPT ![v[1]] = Verdict(trace[v[1]], v[2])]
        BY <2>1 DEF ApplyVerdict
      <3>2. trace[v[1]] \in TraceRow
        BY <3>1 DEF Sound, TypeOK
      <3> QED
        BY <3>1, <3>2, VerdictIsStep, OneIsStep
    <2> QED
      BY <1>2, <2>1 DEF Pass, ReadVerdicts, Scan, LockForDone, InferDone, EndPass
  <1> QED
    BY <1>1, <1>2, WalkTakesRowSteps
       DEF Next, Launch, Cancel, Requeue, Unlist, HandleReply, StopByCode, EffectStop,
           ParkAtGuard, Claim, TrackerMove, Crash

\* On the sms edges too, no step of two pumps, a walk and a retry, in any order, moves a trace
\* backwards, out of a final status or after it was hidden, or links it twice.
THEOREM SmsImplementsRows == Spec => ImplementsRows
  <1>1. Init => Rows!Init
    BY DEF Init, NoTrace, Rows!Init
  <1>2. Sound /\ [Next]_vars
        => [Rows!Next]_<<[t \in Trace |-> trace[t].status], [t \in Trace |-> trace[t].live],
                         [t \in Trace |-> trace[t].link]>>
    <2>1. Sound /\ RowSteps => Rows!Next
      BY DEF RowSteps, RowStep, Rows!Next, Rows!Same, Rows!Minted, Rows!Advanced, Rows!Linked,
             Rows!Hidden
    <2> SUFFICES ASSUME Sound, [Next]_vars
                 PROVE  Rows!Next \/ UNCHANGED trace
      OBVIOUS
    <2> QED
      BY <2>1, StepsTakeRowSteps DEF vars
  <1> QED
    BY <1>1, <1>2, SpecSound, PTL DEF Spec, ImplementsRows, Rows!Spec, Rows!Vars
===============================================================================
