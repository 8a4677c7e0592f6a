----------------------------- MODULE SendEngine -----------------------------
(***************************************************************************)
(* The mass-send engine of backbone-mailing, mail channel: the lifecycle   *)
(* verbs on a mailing row, and the send-queue sweep that several workers   *)
(* may run at the same time.  Every SQL transaction and every call to the  *)
(* external mail queue is one step, because that is where the workers, the *)
(* operators and the queue interleave and where a worker can die.          *)
(*                                                                         *)
(* A definition labelled as a slip is what the definition after it would   *)
(* be with one plausible mistake: the mutants of this project use them to  *)
(* see that a property notices.  No behaviour depends on them.             *)
(*                                                                         *)
(* A trace is the record that one recipient of one mailing was minted for  *)
(* sending or was suppressed.  Its identifier is <<mailing, recipient, n>>,*)
(* n counting the rows ever inserted for the pair: the code's fresh UUIDs  *)
(* up to renaming.                                                         *)
(***************************************************************************)
EXTENDS Naturals, Sequences, FiniteSets

CONSTANTS
    Mailing,        \* rows of mailing.mailings
    Recipient,      \* recipient ids of the target model
    Email,          \* lower-cased addresses
    Worker,         \* concurrent executions of send_queue_sweep
    None,           \* a NULL
    EmailOf,        \* the address of a recipient
    Audience,       \* what a mailing's domain resolves to
    Sample,         \* the recipients its A/B sampling keeps (all, without A/B)
    Peers,          \* the mailings whose traces count as seen: itself, or its campaign
    UsesExclusion,  \* the mailings with use_exclusion_list
    Fragile,        \* the mailings whose domain, resolver or scope may fail
    Suppressible,   \* the addresses that can be on a suppression list
    Verbs,          \* operator verbs in use besides launch
    Events,         \* tracking facts in use
    Faults,         \* failures in use
    Created,        \* the order of the mailings by creation time and id
    ClaimBatch,     \* cfg.claim_batch
    Budget,         \* cfg.recipients_per_pass
    BatchSize,      \* cfg.mail_enqueue_batch
    MaxAttempts,    \* bound: trace rows ever inserted per recipient of a mailing
    MaxMails        \* bound: mail rows ever enqueued for one trace

ASSUME EmailsAssumption == EmailOf \in [Recipient -> Email]

ASSUME MailingsAssumption ==
    /\ Audience \in [Mailing -> SUBSET Recipient]
    /\ Sample \in [Mailing -> SUBSET Recipient]
    /\ Peers \in [Mailing -> SUBSET Mailing]
    /\ \A m \in Mailing : m \in Peers[m]
    /\ UsesExclusion \subseteq Mailing
    /\ Fragile \subseteq Mailing
    /\ Suppressible \subseteq Email

ASSUME CreatedAssumption ==
    /\ Created \in [Mailing -> Nat]
    /\ \A m, n \in Mailing : Created[m] = Created[n] => m = n

ASSUME ScenarioAssumption ==
    /\ Verbs \subseteq {"schedule", "cancel", "requeue", "retry", "suppress"}
    /\ Events \subseteq {"open", "reply", "bounce"}
    /\ Faults \subseteq {"crash", "attach", "slow"}

ASSUME KnobsAssumption ==
    /\ ClaimBatch \in Nat \ {0}
    /\ Budget \in Nat \ {0}
    /\ BatchSize \in Nat \ {0}
    /\ MaxAttempts \in Nat \ {0}
    /\ MaxMails \in Nat \ {0}

ASSUME NullAssumption ==
    /\ None \notin Mailing
    /\ None \notin Mailing \X Recipient \X (1 .. MaxAttempts)

VARIABLES
    mailing,    \* the mailing rows
    trace,      \* the trace rows
    mails,      \* backbone-mail's queue: the rows enqueued for each trace
    optOut,     \* addresses with a live opt-out on any list
    blacklist,  \* addresses active on the exclusion list
    worker      \* the local variables of each sweep

vars == <<mailing, trace, mails, optOut, blacklist, worker>>

-----------------------------------------------------------------------------
(* Rows. *)

MailingState == {"draft", "in_queue", "sending", "done"}

\* parked: metadata carries send_error; waiting: schedule_date is in the future
MailingRow == [state : MailingState, parked : BOOLEAN, waiting : BOOLEAN]

TraceStatus == {"outgoing", "process", "pending", "sent", "open", "reply",
                "bounce", "error", "cancel"}

Trace == Mailing \X Recipient \X (1 .. MaxAttempts)

\* link: which of the trace's mail rows mail_id names, 0 for NULL;
\* aged: created at least REPAIR_GRACE_MINUTES ago
TraceRow == [status : TraceStatus \cup {"absent"}, live : BOOLEAN,
             link : Nat, aged : BOOLEAN]

NoTrace == [status |-> "absent", live |-> FALSE, link |-> 0, aged |-> FALSE]

FreshTrace(status) == [status |-> status, live |-> TRUE, link |-> 0, aged |-> FALSE]

MailState == {"outgoing", "sent", "exception"}

PC == {"idle", "drive", "repair", "relink", "walk", "link", "reconcile"}

\* claims: mailings of the claim still to drive; job: the one being driven;
\* hand: traces to enqueue next; post, row: the mail row enqueued and not yet
\* attached; cancels, work: what the walk decided; more: the budget ran out
WorkerRow == [pc : PC, claims : SUBSET Mailing, job : Mailing \cup {None},
              hand : SUBSET Trace, post : Trace \cup {None}, row : Nat,
              cancels : SUBSET Recipient, work : SUBSET Recipient, more : BOOLEAN]

Asleep == [pc |-> "idle", claims |-> {}, job |-> None, hand |-> {}, post |-> None,
           row |-> 0, cancels |-> {}, work |-> {}, more |-> FALSE]

Lesser(a, b) == IF a < b THEN a ELSE b

-----------------------------------------------------------------------------
(* Mailing row statements: each is one UPDATE with its WHERE state. *)

Launched(row, later) ==
    IF row.state = "draft" THEN [row EXCEPT !.state = "in_queue", !.waiting = later] ELSE row

Canceled(row) ==
    IF row.state # "draft" THEN [row EXCEPT !.state = "draft", !.waiting = FALSE] ELSE row

Requeued(row) == IF row.state = "done" THEN [row EXCEPT !.state = "in_queue"] ELSE row

Unparked(row) ==
    IF row.state = "sending" /\ row.parked
    THEN [row EXCEPT !.state = "in_queue", !.parked = FALSE] ELSE row

Flipped(row) == IF row.state = "in_queue" THEN [row EXCEPT !.state = "sending"] ELSE row

\* Slip: park without its WHERE state.
ParkedAnywhere(row) == [row EXCEPT !.state = "sending", !.parked = TRUE]

Parked(row) ==
    IF row.state \in {"in_queue", "sending"}
    THEN [row EXCEPT !.state = "sending", !.parked = TRUE] ELSE row

Completed(row) == IF row.state = "sending" THEN [row EXCEPT !.state = "done"] ELSE row

CompletedEmpty(row) ==
    IF row.state \in {"in_queue", "sending"} THEN [row EXCEPT !.state = "done"] ELSE row

\* Slip: claim only in_queue rows.
FreshOnly(m) ==
    mailing[m].state = "in_queue" /\ ~mailing[m].parked /\ ~mailing[m].waiting

\* The claim's WHERE clause.
Due(m) ==
    /\ mailing[m].state \in {"in_queue", "sending"}
    /\ ~mailing[m].parked
    /\ ~mailing[m].waiting

\* The claim's order: fresh mailings first, then the older ones.
Ahead(m, n) ==
    IF mailing[m].state = mailing[n].state THEN Created[m] < Created[n]
    ELSE mailing[m].state = "in_queue"

\* The batch a claim takes when no row is locked.
Front ==
    {m \in Mailing : /\ Due(m)
                     /\ Cardinality({n \in Mailing : Due(n) /\ Ahead(n, m)}) < ClaimBatch}

-----------------------------------------------------------------------------
(* Trace row statements and probes. *)

\* Slip: a verb without its source set.
ForcedTo(row, sources, to) == IF row.live THEN [row EXCEPT !.status = to] ELSE row

\* A set_* verb: the row moves if it is live and in one of the edge's sources.
Moved(row, sources, to) ==
    IF row.live /\ row.status \in sources THEN [row EXCEPT !.status = to] ELSE row

\* Each verb with its declared sources.
SetSent(row)    == Moved(row, {"outgoing", "process", "pending"}, "sent")
SetOpened(row)  == Moved(row, {"outgoing", "sent", "process", "pending"}, "open")
SetReplied(row) == Moved(row, {"outgoing", "sent", "open", "process", "pending"}, "reply")
SetBounced(row) == Moved(row, {"outgoing", "sent", "open", "process", "pending"}, "bounce")

\* Slip: a status outside the vocabulary.
FailedLabel(row) == Moved(row, {"outgoing", "sent", "process", "pending"}, "failed")

SetFailed(row)  == Moved(row, {"outgoing", "sent", "process", "pending"}, "error")

\* Slip: the link is overwritten.
Reattached(row, k) == IF row.live THEN [row EXCEPT !.link = k] ELSE row

\* mail_id is stamped only over NULL, on a live row.
Attached(row, k) == IF row.live /\ row.link = 0 THEN [row EXCEPT !.link = k] ELSE row

Active(t) == trace[t].live /\ trace[t].status \notin {"absent", "cancel"}

SuppressedTrace(t) == trace[t].live /\ trace[t].status = "cancel"

\* Slip: the fence covers outgoing rows only.
FencedUnsent(m, r) ==
    \E t \in Trace : t[1] = m /\ t[2] = r /\ Active(t) /\ trace[t].status = "outgoing"

\* The partial unique index on live non-cancel (mailing_id, recipient_id).
Fenced(m, r) == \E t \in Trace : t[1] = m /\ t[2] = r /\ Active(t)

\* Slip: the seen-list ignores the campaign.
SeenHere(m, r) == \E t \in Trace : t[1] = m /\ t[2] = r /\ Active(t)

\* Slip: the seen-list counts soft-deleted rows.
SeenEver(m, r) ==
    \E t \in Trace :
        t[1] \in Peers[m] /\ t[2] = r /\ trace[t].status \notin {"absent", "cancel"}

\* recipient_disposition: sent or claimed already, here or by a campaign sibling ...
SeenActive(m, r) == \E t \in Trace : t[1] \in Peers[m] /\ t[2] = r /\ Active(t)

\* Slip: earlier suppressions are not read.
NeverSuppressed(m, r) == FALSE

\* ... and visibly suppressed on this mailing in an earlier pass.
SuppressedHere(m, r) == \E t \in Trace : t[1] = m /\ t[2] = r /\ SuppressedTrace(t)

\* Slip: the opt-out probe is left out.
Uninvited(m, e) == m \in UsesExclusion /\ e \in blacklist

\* The exclusion list binds the mailings that use it, an opt-out binds them all.
Suppressed(m, e) == e \in optOut \/ (m \in UsesExclusion /\ e \in blacklist)

OrphansOfAnyAge(m) ==
    {t \in Trace : /\ t[1] = m
                   /\ trace[t].live
                   /\ trace[t].status = "outgoing"
                   /\ trace[t].link = 0}

\* outgoing_without_mail: the repair arm's input.
Orphans(m) == {t \in OrphansOfAnyAge(m) : trace[t].aged}

\* The identifier the next row inserted for a recipient of m gets.
IsNext(t) ==
    /\ trace[t].status = "absent"
    /\ \A k \in 1 .. t[3] - 1 : trace[<<t[1], t[2], k>>].status # "absent"

Slots(m, F) == {t \in Trace : t[1] = m /\ t[2] \in F /\ IsNext(t)}

HasSlots(m, F) == \A r \in F : Slots(m, {r}) # {}

Mint(new, status) ==
    trace' = [t \in Trace |-> IF t \in new THEN FreshTrace(status) ELSE trace[t]]

-----------------------------------------------------------------------------
(* Operator verbs and the outside world. *)

Launch(m) ==
    /\ mailing[m].state = "draft"
    /\ \E later \in BOOLEAN :
        /\ later => "schedule" \in Verbs
        /\ mailing' = [mailing EXCEPT ![m] = Launched(@, later)]
    /\ UNCHANGED <<trace, mails, optOut, blacklist, worker>>

Cancel(m) ==
    /\ "cancel" \in Verbs
    /\ mailing[m].state # "draft"
    /\ mailing' = [mailing EXCEPT ![m] = Canceled(@)]
    /\ UNCHANGED <<trace, mails, optOut, blacklist, worker>>

\* requeue_after_domain_fix
Requeue(m) ==
    /\ "requeue" \in Verbs
    /\ mailing[m].state = "sending"
    /\ mailing[m].parked
    /\ mailing' = [mailing EXCEPT ![m] = Unparked(@)]
    /\ UNCHANGED <<trace, mails, optOut, blacklist, worker>>

FailedTraces(m) ==
    {t \in Trace : t[1] = m /\ trace[t].live /\ trace[t].status = "error"}

\* Re-queue, then free the failed recipients from the fence, in one transaction.
RetryFailed(m) ==
    /\ "retry" \in Verbs
    /\ FailedTraces(m) # {}
    /\ mailing[m].state = "done"
    /\ mailing' = [mailing EXCEPT ![m] = Requeued(@)]
    /\ trace' = [t \in Trace |->
                    IF t \in FailedTraces(m) THEN [trace[t] EXCEPT !.live = FALSE]
                    ELSE trace[t]]
    /\ UNCHANGED <<mails, optOut, blacklist, worker>>

\* now() passes schedule_date.
ComesDue(m) ==
    /\ mailing[m].waiting
    /\ mailing' = [mailing EXCEPT ![m].waiting = FALSE]
    /\ UNCHANGED <<trace, mails, optOut, blacklist, worker>>

\* now() passes created_at + REPAIR_GRACE_MINUTES.  Unless "slow" is a fault, a
\* worker enqueues and attaches what it minted within the grace interval.
Age(t) ==
    /\ t \in OrphansOfAnyAge(t[1])
    /\ ~trace[t].aged
    /\ "slow" \in Faults \/ \A w \in Worker : t \notin worker[w].hand
    /\ trace' = [trace EXCEPT ![t].aged = TRUE]
    /\ UNCHANGED <<mailing, mails, optOut, blacklist, worker>>

\* backbone-mail's own sender settles a queued mail row.
Settle(t, k, verdict) ==
    /\ k \in 1 .. Len(mails[t])
    /\ mails[t][k] = "outgoing"
    /\ mails' = [mails EXCEPT ![t][k] = verdict]
    /\ UNCHANGED <<mailing, trace, optOut, blacklist, worker>>

Arrived(t) == \E k \in 1 .. Len(mails[t]) : mails[t][k] = "sent"

\* The pixel and click routes, an inbound reply, a bounce: only of a mail that
\* left the queue.
Tracked(t) ==
    /\ Arrived(t)
    /\ \E fact \in Events :
        trace' = [trace EXCEPT ![t] = CASE fact = "open"   -> SetOpened(@)
                                        [] fact = "reply"  -> SetReplied(@)
                                        [] fact = "bounce" -> SetBounced(@)]
    /\ UNCHANGED <<mailing, mails, optOut, blacklist, worker>>

OptOut(e) ==
    /\ "suppress" \in Verbs
    /\ e \in Suppressible \ optOut
    /\ optOut' = optOut \cup {e}
    /\ UNCHANGED <<mailing, trace, mails, blacklist, worker>>

\* A new subscription clears the opt-out.
Resubscribe(e) ==
    /\ "suppress" \in Verbs
    /\ e \in optOut
    /\ optOut' = optOut \ {e}
    /\ UNCHANGED <<mailing, trace, mails, blacklist, worker>>

Blacklist(e) ==
    /\ "suppress" \in Verbs
    /\ e \in Suppressible \ blacklist
    /\ blacklist' = blacklist \cup {e}
    /\ UNCHANGED <<mailing, trace, mails, optOut, worker>>

-----------------------------------------------------------------------------
(* The sweep. *)

\* What a worker keeps when the drive of one mailing ends.
NextDrive(w) == [Asleep EXCEPT !.pc = "drive", !.claims = worker[w].claims]

\* Claim, and flip or park, in one transaction.  SKIP LOCKED passes over rows
\* another transaction holds, so the claim is any batch of due rows, and Front
\* when nothing is held; the locks end with the transaction.
Claim(w, S) ==
    /\ worker[w].pc = "idle"
    /\ S # {}
    /\ Cardinality(S) <= ClaimBatch
    /\ \A m \in S : Due(m)
    /\ \E unparsed \in SUBSET (S \cap Fragile) :
        /\ mailing' = [m \in Mailing |->
                         IF m \in unparsed THEN Parked(mailing[m])
                         ELSE IF m \in S THEN Flipped(mailing[m]) ELSE mailing[m]]
        /\ worker' = [worker EXCEPT ![w] =
                         [Asleep EXCEPT !.pc = "drive", !.claims = S \ unparsed]]
    /\ UNCHANGED <<trace, mails, optOut, blacklist>>

\* A sweep that finds nothing to claim goes on to its later steps.
ClaimNothing(w) ==
    /\ worker[w].pc = "idle"
    /\ worker' = [worker EXCEPT ![w].pc = "drive"]
    /\ UNCHANGED <<mailing, trace, mails, optOut, blacklist>>

\* Open one claimed mailing and read its orphans.
Drive(w, m) ==
    /\ worker[w].pc = "drive"
    /\ m \in worker[w].claims
    /\ worker' = [worker EXCEPT ![w].pc = "repair", ![w].claims = @ \ {m},
                                ![w].job = m, ![w].hand = Orphans(m)]
    /\ UNCHANGED <<mailing, trace, mails, optOut, blacklist>>

DrivesDone(w) ==
    /\ worker[w].pc = "drive"
    /\ worker[w].claims = {}
    /\ worker' = [worker EXCEPT ![w].pc = "reconcile"]
    /\ UNCHANGED <<mailing, trace, mails, optOut, blacklist>>

\* The scope, the resolver or a statement between two batches fails, or (a fault)
\* the statement that would fail a refused trace: the mailing is parked with the
\* reason, the rest of the hand is dropped and the sweep goes on.
DriveFails(w) ==
    /\ worker[w].job \in Fragile
    /\ \/ worker[w].pc \in {"repair", "walk"} /\ worker[w].hand = {}
       \/ "crash" \in Faults /\ worker[w].pc \in {"walk", "link"}
    /\ mailing' = [mailing EXCEPT ![worker[w].job] = Parked(@)]
    /\ worker' = [worker EXCEPT ![w] = NextDrive(w)]
    /\ UNCHANGED <<trace, mails, optOut, blacklist>>

FinishEmpty(w) ==
    /\ worker[w].pc = "repair"
    /\ worker[w].hand = {}
    /\ Audience[worker[w].job] = {}
    /\ mailing' = [mailing EXCEPT ![worker[w].job] = CompletedEmpty(@)]
    /\ worker' = [worker EXCEPT ![w] = NextDrive(w)]
    /\ UNCHANGED <<trace, mails, optOut, blacklist>>

\* Slip: no collapse of duplicate addresses.
EveryContact(A) == {A}

\* The first contact of each address in walk order.  The resolver orders by
\* address only, so which of two contacts sharing one comes first is open.
FirstOfEach(A) ==
    {R \in SUBSET A :
        \A r \in A : Cardinality({p \in R : EmailOf[p] = EmailOf[r]}) = 1}

\* One transaction reads dispositions and suppression lists, then the walk
\* decides from that snapshot: skip, cancel visibly, or send within the budget.
Probe(w) ==
    LET m      == worker[w].job
        unseen == {r \in Audience[m] : ~SeenActive(m, r) /\ ~SuppressedHere(m, r)}
    IN  /\ worker[w].pc = "repair"
        /\ worker[w].hand = {}
        /\ Audience[m] # {}
        /\ \E first \in FirstOfEach(Audience[m]) :
            LET cancels == {r \in unseen : r \notin first \/ Suppressed(m, EmailOf[r])}
                send    == (unseen \ cancels) \cap Sample[m]
            IN  \E work \in SUBSET send :
                    /\ Cardinality(work) = Lesser(Budget, Cardinality(send))
                    /\ worker' = [worker EXCEPT ![w].pc = "walk", ![w].cancels = cancels,
                                      ![w].work = work, ![w].more = work # send]
        /\ UNCHANGED <<mailing, trace, mails, optOut, blacklist>>

\* A suppressed recipient gets a cancel trace of its own transaction; cancel rows
\* are outside the partial unique index.
MintCancel(w, r) ==
    LET m == worker[w].job
    IN  /\ worker[w].pc = "walk"
        /\ r \in worker[w].cancels
        /\ HasSlots(m, {r})
        /\ Mint(Slots(m, {r}), "cancel")
        /\ worker' = [worker EXCEPT ![w].cancels = @ \ {r}]
        /\ UNCHANGED <<mailing, mails, optOut, blacklist>>

\* One batch in one transaction; a recipient another worker's live trace fences
\* is skipped.
MintBatch(w) ==
    LET m == worker[w].job
    IN  /\ worker[w].pc = "walk"
        /\ worker[w].cancels = {}
        /\ worker[w].hand = {}
        /\ worker[w].work # {}
        /\ \E batch \in SUBSET worker[w].work :
            LET free == {r \in batch : ~Fenced(m, r)}
            IN  /\ Cardinality(batch) = Lesser(BatchSize, Cardinality(worker[w].work))
                /\ HasSlots(m, free)
                /\ Mint(Slots(m, free), "outgoing")
                /\ worker' = [worker EXCEPT ![w].work = @ \ batch,
                                            ![w].hand = Slots(m, free)]
        /\ UNCHANGED <<mailing, mails, optOut, blacklist>>

\* enqueue_one up to the queue's own commit: one more mail row exists.
Post(w, t) ==
    /\ worker[w].pc \in {"repair", "walk"}
    /\ t \in worker[w].hand
    /\ Len(mails[t]) < MaxMails
    /\ mails' = [mails EXCEPT ![t] = Append(@, "outgoing")]
    /\ worker' = [worker EXCEPT ![w].pc = IF @ = "walk" THEN "link" ELSE "relink",
                                ![w].post = t, ![w].row = Len(mails[t]) + 1]
    /\ UNCHANGED <<mailing, trace, optOut, blacklist>>

\* Back to the loop over the hand once its posted trace is dealt with.
HandOn(w, t) ==
    worker' = [worker EXCEPT ![w].pc = CASE @ = "link"   -> "walk"
                                         [] @ = "relink" -> "repair"
                                         [] OTHER        -> @,
                            ![w].hand = @ \ {t}, ![w].post = None, ![w].row = 0]

\* The rest of enqueue_one: attach_mail_id in a transaction of its own.
Attach(w) ==
    /\ worker[w].pc \in {"relink", "link"}
    /\ trace' = [trace EXCEPT ![worker[w].post] = Attached(@, worker[w].row)]
    /\ HandOn(w, worker[w].post)
    /\ UNCHANGED <<mailing, mails, optOut, blacklist>>

\* Slip: the walk, too, only logs.
EnqueueErrLogged(w, t) ==
    /\ HandOn(w, t)
    /\ UNCHANGED <<mailing, trace, mails, optOut, blacklist>>

\* enqueue_one errs on t: the walk fails the trace, the repair arm only logs.
EnqueueErr(w, t) ==
    /\ trace' = IF worker[w].pc \in {"walk", "link"}
                THEN [trace EXCEPT ![t] = SetFailed(@)] ELSE trace
    /\ HandOn(w, t)
    /\ UNCHANGED <<mailing, mails, optOut, blacklist>>

\* The queue refuses: no mail row.
PostRefused(w, t) ==
    /\ worker[w].pc \in {"repair", "walk"}
    /\ t \in worker[w].hand
    /\ EnqueueErr(w, t)

\* The attach transaction fails after the queue accepted the row.
AttachFails(w) ==
    /\ "attach" \in Faults
    /\ worker[w].pc \in {"relink", "link"}
    /\ EnqueueErr(w, worker[w].post)

\* Complete the mailing, or leave it sending when the budget ran out.
Finish(w) ==
    /\ worker[w].pc = "walk"
    /\ worker[w].cancels = {}
    /\ worker[w].hand = {}
    /\ worker[w].work = {}
    /\ mailing' = IF worker[w].more THEN mailing
                  ELSE [mailing EXCEPT ![worker[w].job] = Completed(@)]
    /\ worker' = [worker EXCEPT ![w] = NextDrive(w)]
    /\ UNCHANGED <<trace, mails, optOut, blacklist>>

\* The verdict of the mail row a live outgoing trace is linked to.
Reconciled(t) ==
    LET row == trace[t]
    IN  IF row.live /\ row.status = "outgoing" /\ row.link # 0
        THEN CASE mails[t][row.link] = "sent"      -> SetSent(row)
               [] mails[t][row.link] = "exception" -> SetFailed(row)
               [] OTHER                            -> row
        ELSE row

\* Step 7, over every mailing.  Of the later steps only the auto-blacklist can be
\* seen here, as Blacklist.
Reconcile(w) ==
    /\ worker[w].pc = "reconcile"
    /\ trace' = [t \in Trace |-> Reconciled(t)]
    /\ worker' = [worker EXCEPT ![w] = Asleep]
    /\ UNCHANGED <<mailing, mails, optOut, blacklist>>

\* The process dies, or an error aborts the sweep: its local state is gone.
Crash(w) ==
    /\ "crash" \in Faults
    /\ worker[w].pc # "idle"
    /\ worker' = [worker EXCEPT ![w] = Asleep]
    /\ UNCHANGED <<mailing, trace, mails, optOut, blacklist>>

-----------------------------------------------------------------------------
Init ==
    /\ mailing = [m \in Mailing |-> [state |-> "draft", parked |-> FALSE, waiting |-> FALSE]]
    /\ trace = [t \in Trace |-> NoTrace]
    /\ mails = [t \in Trace |-> <<>>]
    /\ optOut \in SUBSET Suppressible
    /\ blacklist \in SUBSET Suppressible
    /\ worker = [w \in Worker |-> Asleep]

Operator(m) == Launch(m) \/ Cancel(m) \/ Requeue(m) \/ RetryFailed(m)

Outside ==
    \/ \E m \in Mailing : ComesDue(m)
    \/ \E t \in Trace : Age(t)
    \/ \E t \in Trace : Tracked(t)
    \/ \E t \in Trace, k \in 1 .. MaxMails, verdict \in {"sent", "exception"} :
            Settle(t, k, verdict)
    \/ \E e \in Email : OptOut(e) \/ Resubscribe(e) \/ Blacklist(e)

\* One step of a sweep other than its claim.
Step(w) ==
    \/ ClaimNothing(w)
    \/ \E m \in Mailing : Drive(w, m)
    \/ DrivesDone(w)
    \/ DriveFails(w)
    \/ FinishEmpty(w)
    \/ Probe(w)
    \/ \E r \in Recipient : MintCancel(w, r)
    \/ MintBatch(w)
    \/ \E t \in Trace : Post(w, t)
    \/ Attach(w)
    \/ \E t \in Trace : PostRefused(w, t)
    \/ AttachFails(w)
    \/ Finish(w)
    \/ Reconcile(w)

Next ==
    \/ \E m \in Mailing : Operator(m)
    \/ Outside
    \/ \E w \in Worker, S \in SUBSET Mailing : Claim(w, S)
    \/ \E w \in Worker : Step(w)
    \/ \E w \in Worker : Crash(w)

Spec == Init /\ [][Next]_vars

\* The job runner keeps running sweeps and a started sweep keeps moving; row
\* locks last one transaction, so claims find no row of their batch locked again
\* and again, but what stays behind the batch is owed nothing; the clock moves.
\* Operators, the mail queue and the tracking routes owe nothing.
Fairness ==
    /\ \A w \in Worker : WF_vars(Step(w))
    /\ \A w \in Worker : SF_vars(Claim(w, Front))
    /\ \A m \in Mailing : WF_vars(ComesDue(m))

FairSpec == Spec /\ Fairness

-----------------------------------------------------------------------------
(* Properties. *)

TypeOK ==
    /\ mailing \in [Mailing -> MailingRow]
    /\ trace \in [Trace -> TraceRow]
    /\ mails \in [Trace -> Seq(MailState)]
    /\ optOut \subseteq Email
    /\ blacklist \subseteq Email
    /\ worker \in [Worker -> WorkerRow]

\* However workers overlap, crash, retry and resume, a recipient has at most one
\* live trace of a mailing that is not a cancel trace: the mint fence that the
\* send engine leans on instead of holding its claim locks.
MintFence ==
    \A t, u \in Trace : Active(t) /\ Active(u) /\ t[1] = u[1] /\ t[2] = u[2] => t = u

Standing(t, k) == k \in 1 .. Len(mails[t]) /\ mails[t][k] # "exception"

\* Overlapping workers never send twice: of all the mail rows ever enqueued for
\* one address of one mailing, at most one did not fail in transport.
NoDoubleSend ==
    \A t, u \in Trace : \A k, l \in 1 .. MaxMails :
        /\ Standing(t, k) /\ Standing(u, l)
        /\ t[1] = u[1] /\ EmailOf[t[2]] = EmailOf[u[2]]
        => t = u /\ k = l

\* The variants of a campaign never mail one address twice between them.
CampaignDisjoint ==
    \A t, u \in Trace : \A k, l \in 1 .. MaxMails :
        /\ Standing(t, k) /\ Standing(u, l)
        /\ t[1] \in Peers[u[1]] /\ EmailOf[t[2]] = EmailOf[u[2]]
        => t = u /\ k = l

\* An outgoing trace without a mail row link is in the hands of a running worker:
\* whatever operators do meanwhile, no minted recipient is forgotten.
OrphansAreHeld ==
    \A t \in Trace :
        t \in OrphansOfAnyAge(t[1]) => \E w \in Worker : t \in worker[w].hand

\* A recipient the mailing has dealt with: a live trace of its own, whatever its
\* status, or a live send by a sibling variant.
Accounted(m, r) ==
    \E t \in Trace :
        /\ t[2] = r /\ trace[t].live
        /\ t[1] = m \/ (t[1] \in Peers[m] /\ trace[t].status # "cancel")

\* A mailing is done only when every recipient it addresses is accounted for by a
\* live trace: budgeted passes, resumes, refusals and retries lose nobody.
DoneMeansAccounted ==
    \A m \in Mailing :
        mailing[m].state = "done" => \A r \in Audience[m] \cap Sample[m] : Accounted(m, r)

\* A mailing is done only when all its outgoing traces have their mail row.
DoneMeansEnqueued ==
    \A t \in Trace : mailing[t[1]].state = "done" => t \notin OrphansOfAnyAge(t[1])

\* The first disposition of a recipient stays the only one: no second cancel
\* trace, and no cancel trace beside a live send.
OneDisposition ==
    \A t, u \in Trace : trace[t].live /\ trace[u].live /\ t[1] = u[1] /\ t[2] = u[2] => t = u

\* While the suppression lists stand still, no path of the engine (walk, resume,
\* retry, repair, relaunch) enqueues mail to a suppressed address.
SuppressedNeverMailed ==
    \A t \in Trace : mails[t] # <<>> =>
        /\ EmailOf[t[2]] \notin optOut
        /\ t[1] \in UsesExclusion => EmailOf[t[2]] \notin blacklist

\* The mailings a sweep has claimed and not yet driven to the end.
Held(w) == worker[w].claims \cup ({worker[w].job} \ {None})

\* Two sweeps never hold the same mailing: what one has claimed no other claims
\* until its drive has ended.
ClaimsDisjoint == \A v, w \in Worker : v # w => Held(v) \cap Held(w) = {}

\* Nor do they hold two variants of one campaign.
CampaignsDisjoint ==
    \A v, w \in Worker : v # w => \A m \in Held(v), n \in Held(w) : m \notin Peers[n]

\* A launched mailing is one the sweep will claim once its schedule is due.
LaunchArms ==
    [][\A m \in Mailing :
        mailing[m].state = "draft" /\ mailing'[m].state = "in_queue" => ~mailing'[m].parked]_vars

\* The opt-out is evaluated at send time: a repair never enqueues mail to an
\* address that has opted out since its trace was minted.
RepairRespectsOptOut ==
    [][\A w \in Worker : worker[w].pc = "repair" /\ worker'[w].pc = "relink"
            => EmailOf[worker'[w].post[2]] \notin optOut]_vars

\* Cancel traces are outside the seen-list: a pass takes up every recipient that
\* has no live send and is suppressed no longer.
RetargetingMints ==
    [][\A w \in Worker : worker[w].pc = "repair" /\ worker'[w].pc = "walk"
            => \A r \in Audience[worker[w].job] \cap Sample[worker[w].job] :
                \/ SeenActive(worker[w].job, r)
                \/ Suppressed(worker[w].job, EmailOf[r])
                \/ r \in worker'[w].work \cup worker'[w].cancels
                \/ worker'[w].more]_vars

\* A queued mailing does not stay in the engine: it is done, or parked with its
\* error, or taken back by an operator.
Drains ==
    \A m \in Mailing :
        (mailing[m].state = "in_queue" /\ ~mailing[m].parked)
            ~> (mailing[m].state \in {"done", "draft"} \/ mailing[m].parked)

OperatorsRest == <>[][\A m \in Mailing : ~Operator(m)]_vars

\* The claim's order and limit starve nobody once the operators rest: although
\* fresh mailings go first and a resumed one waits behind all older ones, every
\* due mailing gets its passes until it is done, parked or taken back.
Served ==
    OperatorsRest =>
        \A m \in Mailing :
            Due(m) ~> (mailing[m].state \in {"done", "draft"} \/ mailing[m].parked)

-----------------------------------------------------------------------------
(* The engine implements the two declared row machines. *)

Lifecycle == INSTANCE MailingLifecycle WITH state <- [m \in Mailing |-> mailing[m].state]

\* No interleaving of verbs, claims, parks and completions takes a mailing along an
\* edge the trigger on mailings.state refuses.
ImplementsLifecycle == Lifecycle!Spec

Rows == INSTANCE TraceLifecycle WITH
            status <- [t \in Trace |-> trace[t].status],
            live   <- [t \in Trace |-> trace[t].live],
            link   <- [t \in Trace |-> trace[t].link]

\* No late verdict, open, bounce, refusal or repair moves a trace backwards, out of
\* a final status or after it was hidden, or rewrites its mail link.
ImplementsRows == Rows!Spec
=============================================================================
