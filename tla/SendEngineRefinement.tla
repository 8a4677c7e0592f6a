------------------------ MODULE SendEngineRefinement ------------------------
(***************************************************************************)
(* The send engine implements the row machines the database declares, for  *)
(* every value of the constants: no step ever moves a mailing or a trace   *)
(* along an edge that its trigger would refuse.                            *)
(***************************************************************************)
EXTENDS SendEngineProofs

-----------------------------------------------------------------------------
(* Mailings. *)

LegalMove(old, new) == new.state = old.state \/ <<old.state, new.state>> \in Lifecycle!Edges

\* Each UPDATE follows a declared edge or leaves the state alone.
LEMMA StatementsFollowEdges ==
    ASSUME NEW row \in MailingRow, NEW later \in BOOLEAN
    PROVE  /\ LegalMove(row, Launched(row, later))
           /\ LegalMove(row, Canceled(row))
           /\ LegalMove(row, Requeued(row))
           /\ LegalMove(row, Unparked(row))
           /\ LegalMove(row, Flipped(row))
           /\ LegalMove(row, Parked(row))
           /\ LegalMove(row, Completed(row))
           /\ LegalMove(row, CompletedEmpty(row))
  BY DEF MailingRow, MailingState, LegalMove, Launched, Canceled, Requeued, Unparked,
         Flipped, Parked, Completed, CompletedEmpty, Lifecycle!Edges

LEMMA MovesImplement ==
    ASSUME TypeInv', \A m \in Mailing : LegalMove(mailing[m], mailing'[m])
    PROVE  Lifecycle!Next
  <1>1. \A m \in Mailing : mailing'[m].state \in MailingState
    BY DEF TypeInv, TypeOK, MailingRow
  <1> QED
    BY <1>1 DEF LegalMove, Lifecycle!Next, Lifecycle!State, MailingState

LEMMA StepsMoveLegally ==
    ASSUME TypeInv, Next
    PROVE  \A m \in Mailing : LegalMove(mailing[m], mailing'[m])
  <1> DEFINE Legal == \A m \in Mailing : LegalMove(mailing[m], mailing'[m])
  <1>0. mailing \in [Mailing -> MailingRow]
    BY DEF TypeInv, TypeOK
  <1>1. CASE UNCHANGED mailing
    BY <1>1 DEF LegalMove
  <1>2. ASSUME NEW m \in Mailing, Operator(m)
        PROVE  Legal
    <2>1. CASE Launch(m)
      BY <1>0, <2>1, StatementsFollowEdges DEF Launch, LegalMove
    <2>2. CASE Cancel(m) \/ Requeue(m) \/ RetryFailed(m)
      <3>1. /\ LegalMove(mailing[m], Canceled(mailing[m]))
            /\ LegalMove(mailing[m], Unparked(mailing[m]))
            /\ LegalMove(mailing[m], Requeued(mailing[m]))
        BY <1>0, StatementsFollowEdges
      <3> QED
        BY <1>0, <2>2, <3>1 DEF Cancel, Requeue, RetryFailed, LegalMove
    <2> QED
      BY <1>2, <2>1, <2>2 DEF Operator
  <1>3. ASSUME Outside
        PROVE  Legal
    <2>1. ASSUME NEW m \in Mailing, ComesDue(m)
          PROVE  Legal
      BY <1>0, <2>1 DEF ComesDue, LegalMove, MailingRow
    <2> QED
      BY <1>1, <1>3, <2>1
      DEF Outside, Age, Tracked, Settle, OptOut, Resubscribe, Blacklist
  <1>4. ASSUME NEW w \in Worker, NEW S \in SUBSET Mailing, Claim(w, S)
        PROVE  Legal
    <2>1. PICK unparsed \in SUBSET (S \cap Fragile) :
            mailing' = [m \in Mailing |->
                          IF m \in unparsed THEN Parked(mailing[m])
                          ELSE IF m \in S THEN Flipped(mailing[m]) ELSE mailing[m]]
      BY <1>4 DEF Claim
    <2>2. \A m \in Mailing : /\ LegalMove(mailing[m], Parked(mailing[m]))
                             /\ LegalMove(mailing[m], Flipped(mailing[m]))
                             /\ LegalMove(mailing[m], mailing[m])
      BY <1>0, StatementsFollowEdges DEF LegalMove
    <2> QED
      BY <2>1, <2>2
  <1>5. ASSUME NEW w \in Worker, DriveFails(w) \/ FinishEmpty(w) \/ Finish(w)
        PROVE  Legal
    <2> DEFINE m == worker[w].job
    <2>1. m \in Mailing
      BY <1>5 DEF DriveFails, FinishEmpty, Finish, TypeInv, Engaged, EngagedRow
    <2>2. /\ LegalMove(mailing[m], Parked(mailing[m]))
          /\ LegalMove(mailing[m], Completed(mailing[m]))
          /\ LegalMove(mailing[m], CompletedEmpty(mailing[m]))
      BY <1>0, <2>1, StatementsFollowEdges
    <2> HIDE DEF m
    <2>3. \/ UNCHANGED mailing
          \/ mailing' = [mailing EXCEPT ![m] = Parked(@)]
          \/ mailing' = [mailing EXCEPT ![m] = Completed(@)]
          \/ mailing' = [mailing EXCEPT ![m] = CompletedEmpty(@)]
      BY <1>5 DEF DriveFails, FinishEmpty, Finish, m
    <2>4. ASSUME NEW n \in Mailing
          PROVE  LegalMove(mailing[n], mailing'[n])
      <3>1. mailing'[n] \in {mailing[n], Parked(mailing[n]), Completed(mailing[n]),
                              CompletedEmpty(mailing[n])}
        BY <1>0, <2>1, <2>3
      <3> QED
        BY <1>0, <3>1, StatementsFollowEdges DEF LegalMove
    <2> QED
      BY <2>4
  <1>6. ASSUME NEW w \in Worker, Step(w) \/ Crash(w),
               ~(DriveFails(w) \/ FinishEmpty(w) \/ Finish(w))
        PROVE  Legal
    BY <1>1, <1>6 DEF Step, Crash, ClaimNothing, Drive, DrivesDone, Probe, MintCancel,
        MintBatch, Post, Attach, PostRefused, AttachFails, EnqueueErr, Reconcile
  <1> QED
    BY <1>2, <1>3, <1>4, <1>5, <1>6 DEF Next

\* No interleaving of operators and workers takes a mailing along an edge that
\* the trigger on mailings.state refuses: launch, pick-up, parking, completion,
\* cancellation, un-parking and retry stay inside the declared machine.
THEOREM EngineImplementsLifecycle == Spec => ImplementsLifecycle
  <1>1. Init => Lifecycle!Init
    BY DEF Init, Lifecycle!Init
  <1>2. TypeInv /\ TypeInv' /\ [Next]_vars
        => [Lifecycle!Next]_([m \in Mailing |-> mailing[m].state])
    BY StepsMoveLegally, MovesImplement DEF vars
  <1> QED
    BY <1>1, <1>2, InitTyped, NextTyped, PTL DEF Spec, ImplementsLifecycle, Lifecycle!Spec

-----------------------------------------------------------------------------
(* Traces. *)

\* The ways a row may change under TraceLifecycle, as a relation on rows.
RowStep(old, new) ==
    \/ new.status = old.status /\ new.live = old.live /\ new.link = old.link
    \/ /\ old.status = "absent" /\ new.status \in {"outgoing", "cancel"}
       /\ new.live /\ new.link = 0
    \/ /\ old.live /\ old.status # "absent" /\ new.status \in Rows!Successors[old.status]
       /\ new.live /\ new.link = old.link
    \/ /\ old.live /\ old.link = 0 /\ new.link \in Nat \ {0}
       /\ new.status = old.status /\ new.live
    \/ /\ old.live /\ ~new.live
       /\ old.status = "error" /\ new.status = "error" /\ new.link = old.link

RowSteps == \A t \in Trace : RowStep(trace[t], trace'[t])

\* Every set_* verb keeps to the declared successors.
LEMMA VerbsFollowEdges ==
    ASSUME NEW row \in TraceRow
    PROVE  /\ RowStep(row, SetSent(row))
           /\ RowStep(row, SetOpened(row))
           /\ RowStep(row, SetReplied(row))
           /\ RowStep(row, SetBounced(row))
           /\ RowStep(row, SetFailed(row))
  BY DEF TraceRow, TraceStatus, RowStep, Rows!Successors, SetSent, SetOpened, SetReplied,
         SetBounced, SetFailed, Moved

LEMMA AttachLinksOnce ==
    ASSUME NEW row \in TraceRow, NEW k \in Nat \ {0}
    PROVE  RowStep(row, Attached(row, k))
  BY DEF TraceRow, RowStep, Attached

LEMMA UnchangedIsStep ==
    ASSUME UNCHANGED trace
    PROVE  RowSteps
  BY DEF RowSteps, RowStep

LEMMA MintIsStep ==
    ASSUME TypeInv, NEW new, \A t \in new : t \in Trace /\ IsNext(t),
           NEW status \in {"outgoing", "cancel"}, Mint(new, status)
    PROVE  RowSteps
  BY DEF TypeInv, TypeOK, RowSteps, RowStep, Mint, FreshTrace, IsNext

LEMMA EnqueueErrIsStep ==
    ASSUME TypeInv, NEW w, NEW t, EnqueueErr(w, t)
    PROVE  RowSteps
  <1>1. trace \in [Trace -> TraceRow]
    BY DEF TypeInv, TypeOK
  <1>2. CASE UNCHANGED trace
    BY <1>2, UnchangedIsStep
  <1>3. CASE trace' = [trace EXCEPT ![t] = SetFailed(@)]
    BY <1>1, <1>3, VerbsFollowEdges DEF RowSteps, RowStep
  <1> QED
    BY <1>2, <1>3 DEF EnqueueErr

LEMMA WorkerTakesRowSteps ==
    ASSUME TypeInv, NEW w \in Worker, Step(w)
    PROVE  RowSteps
  <1>0. trace \in [Trace -> TraceRow]
    BY DEF TypeInv, TypeOK
  <1>1. CASE \/ ClaimNothing(w) \/ (\E m \in Mailing : Drive(w, m)) \/ DrivesDone(w)
             \/ DriveFails(w) \/ FinishEmpty(w) \/ Probe(w) \/ Finish(w)
             \/ (\E t \in Trace : Post(w, t))
    BY <1>1, UnchangedIsStep DEF ClaimNothing, Drive, DrivesDone, DriveFails, FinishEmpty,
                                 Probe, Finish, Post
  <1>2. ASSUME NEW p \in Recipient, MintCancel(w, p)
        PROVE  RowSteps
    <2> DEFINE new == Slots(worker[w].job, {p})
    <2>1. \A t \in new : t \in Trace /\ IsNext(t)
      BY DEF Slots
    <2>2. Mint(new, "cancel")
      BY <1>2 DEF MintCancel
    <2> HIDE DEF new
    <2> QED
      BY <2>1, <2>2, MintIsStep
  <1>3. CASE MintBatch(w)
    <2> DEFINE m == worker[w].job
    <2>1. PICK batch \in SUBSET worker[w].work :
            Mint(Slots(m, {p \in batch : ~Fenced(m, p)}), "outgoing")
      BY <1>3 DEF MintBatch
    <2> DEFINE new == Slots(m, {p \in batch : ~Fenced(m, p)})
    <2>2. \A t \in new : t \in Trace /\ IsNext(t)
      BY DEF Slots
    <2>3. Mint(new, "outgoing")
      BY <2>1
    <2> HIDE DEF new
    <2> QED
      BY <2>2, <2>3, MintIsStep
  <1>4. CASE Attach(w)
    <2>1. worker[w].row \in Nat \ {0}
      BY <1>4 DEF Attach, TypeInv, Engaged, EngagedRow
    <2>2. \A t \in Trace : RowStep(trace[t], Attached(trace[t], worker[w].row))
      BY <1>0, <2>1, AttachLinksOnce
    <2> QED
      BY <1>0, <1>4, <2>2 DEF Attach, RowSteps, RowStep
  <1>5. CASE (\E t \in Trace : PostRefused(w, t)) \/ AttachFails(w)
    BY <1>5, EnqueueErrIsStep DEF PostRefused, AttachFails
  <1>6. CASE Reconcile(w)
    <2>1. \A t \in Trace : RowStep(trace[t], Reconciled(t))
      BY <1>0, VerbsFollowEdges DEF Reconciled, RowStep
    <2> QED
      BY <1>6, <2>1 DEF Reconcile, RowSteps
  <1> QED
    BY <1>1, <1>2, <1>3, <1>4, <1>5, <1>6 DEF Step

LEMMA OthersTakeRowSteps ==
    ASSUME TypeInv,
           \/ \E m \in Mailing : Operator(m)
           \/ Outside
           \/ \E w \in Worker, S \in SUBSET Mailing : Claim(w, S)
           \/ \E w \in Worker : Crash(w)
    PROVE  RowSteps
  <1>0. trace \in [Trace -> TraceRow]
    BY DEF TypeInv, TypeOK
  <1>1. ASSUME NEW m \in Mailing, RetryFailed(m)
        PROVE  RowSteps
    BY <1>0, <1>1 DEF RetryFailed, FailedTraces, TraceRow, RowSteps, RowStep
  <1>2. ASSUME NEW t \in Trace, Age(t)
        PROVE  RowSteps
    BY <1>0, <1>2 DEF Age, TraceRow, RowSteps, RowStep
  <1>3. ASSUME NEW t \in Trace, Tracked(t)
        PROVE  RowSteps
    <2>1. PICK fact \in {"open", "reply", "bounce"} :
            trace' = [trace EXCEPT ![t] = CASE fact = "open"   -> SetOpened(@)
                                            [] fact = "reply"  -> SetReplied(@)
                                            [] fact = "bounce" -> SetBounced(@)]
      BY <1>3, ScenarioAssumption DEF Tracked
    <2> QED
      BY <1>0, <2>1, VerbsFollowEdges DEF RowSteps, RowStep
  <1>4. CASE UNCHANGED trace
    BY <1>4, UnchangedIsStep
  <1> QED
    BY <1>1, <1>2, <1>3, <1>4
    DEF Operator, Launch, Cancel, Requeue, Outside, ComesDue, Settle, OptOut, Resubscribe,
        Blacklist, Claim, Crash

\* Every step of the engine changes each trace row in a way its machine allows.
LEMMA RowStepsImplement ==
    ASSUME TypeInv, TypeInv', RowSteps
    PROVE  Rows!Next
  BY DEF RowSteps, RowStep, Rows!Next, Rows!Same, Rows!Minted, Rows!Advanced, Rows!Linked,
         Rows!Hidden

\* Late verdicts, opens, bounces, refusals, repairs and retries, in any order, never
\* move a trace backwards, out of a final status or after it was hidden, and never
\* rewrite the link to its mail row.
THEOREM EngineImplementsRows == Spec => ImplementsRows
  <1>1. Init => Rows!Init
    BY DEF Init, NoTrace, Rows!Init
  <1>2. TypeInv /\ TypeInv' /\ [Next]_vars
        => [Rows!Next]_<<[t \in Trace |-> trace[t].status], [t \in Trace |-> trace[t].live],
                         [t \in Trace |-> trace[t].link]>>
    <2> SUFFICES ASSUME TypeInv, TypeInv', [Next]_vars
                 PROVE  Rows!Next \/ UNCHANGED trace
      OBVIOUS
    <2> QED
      BY WorkerTakesRowSteps, OthersTakeRowSteps, RowStepsImplement DEF Next, vars
  <1> QED
    BY <1>1, <1>2, InitTyped, NextTyped, PTL DEF Spec, ImplementsRows, Rows!Spec, Rows!Vars
=============================================================================
