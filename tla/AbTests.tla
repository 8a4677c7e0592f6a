------------------------------- MODULE AbTests -------------------------------
(***************************************************************************)
(* A/B tests of a campaign: the operator creates a test, binds draft       *)
(* mailings as variants and may pick the winner by hand; step 9 of the     *)
(* send sweep ranks the variants of a due test and promotes the winner, a  *)
(* copy that goes to the rest of the audience.  Several sweeps and several *)
(* operators work at once, one step for each transaction whose reads       *)
(* another one can overtake: a sweep claims mail mailings as their rows    *)
(* are then, drives one after the other through probe, batches and         *)
(* completion, and goes on to the promotions.  What happens to a trace     *)
(* after its mint, and all that parks a mailing, is in SendEngine.         *)
(***************************************************************************)
EXTENDS Integers, FiniteSets

CONSTANTS
    Mailing,        \* mailing ids, in the order of ORDER BY id; fresh ids are unused ones
    Test,           \* rows of mailing.mailing_ab_tests
    Campaign,
    Email,
    Sweeper,        \* concurrent executions of send_queue_sweep
    Operator,       \* concurrent calls of select_winner
    None,           \* a NULL
    Source,         \* utm sources
    Drafts,         \* the mailings written before any test, with their attribution
    Bucket,         \* the bucket of an address under a test's sampling seed
    Shares,         \* the percentages in use
    Selections,     \* the selections in use
    Tallies,        \* what the traces of a mailing may count when it is done
    Amounts,        \* what a source may have invoiced
    ClaimBatch,     \* claim_batch
    Budget,         \* recipients_per_pass
    Cancellable     \* the mailings an operator takes back

AxisNames == {"manual", "opened_ratio", "clicks_ratio", "replied_ratio", "sale_invoiced_amount"}

ASSUME IdsAssumption ==
    /\ Mailing \subseteq Nat
    /\ DOMAIN Drafts \subseteq Mailing
    /\ \A m \in DOMAIN Drafts :
            Drafts[m] \in [source : Source \cup {None}, campaign : Campaign \cup {None}]
    /\ None \notin Mailing
    /\ None \notin Test
    /\ None \notin Campaign
    /\ None \notin Source

ASSUME SamplingAssumption ==
    /\ Bucket \in [Test -> [Email -> 0 .. 99]]
    /\ Shares \subseteq 0 .. 100
    /\ Amounts \subseteq Nat

ASSUME AxesAssumption == Selections \subseteq AxisNames

ASSUME CancelAssumption == Cancellable \subseteq Mailing

ASSUME PassAssumption == ClaimBatch \in Nat \ {0} /\ Budget \in Nat \ {0}

Tally == [sent : Nat, opened : Nat, clicked : Nat, replied : Nat]

ASSUME TalliesAssumption == \A m \in Mailing : Tallies[m] \subseteq Tally

VARIABLES
    mailing,    \* the mailing rows
    test,       \* the test rows
    trace,      \* live non-cancel traces: who was sent what, under which campaign
    sweeper,    \* where each sweep is, and its local variables of step 9
    drive,      \* those of its claim and its drives
    operator    \* the local variables of each select_winner

vars == <<mailing, test, trace, sweeper, drive, operator>>

-----------------------------------------------------------------------------
(* Rows. *)

\* of: the variant a promoted copy was made of; it and the tally are history
MailingRow ==
    [state : {"absent", "draft", "in_queue", "sending", "done"}, campaign : Campaign \cup {None},
     test : Test \cup {None}, enabled : BOOLEAN, pc : 0 .. 100, source : Source \cup {None},
     tally : Tally, of : Mailing \cup {None}]

\* promote: promote_at is NULL, in the future or past
TestRow ==
    [live : BOOLEAN, campaign : Campaign \cup {None}, selection : AxisNames,
     promote : {"never", "later", "due"}, completed : BOOLEAN,
     winner : Mailing \cup {None}]

TraceRow == [mailing : Mailing, email : Email, campaign : Campaign \cup {None}, tested : BOOLEAN]

\* ClaimedMailing: what the claim has read of a row
Claimed == [id : Mailing, campaign : Campaign \cup {None}, test : Test \cup {None},
            enabled : BOOLEAN, pc : 0 .. 100]

NoTally == [sent |-> 0, opened |-> 0, clicked |-> 0, replied |-> 0]

Blank == [state |-> "absent", campaign |-> None, test |-> None, enabled |-> FALSE,
          pc |-> 10, source |-> None, tally |-> NoTally, of |-> None]

NoTest == [live |-> FALSE, campaign |-> None, selection |-> "opened_ratio",
           promote |-> "never", completed |-> FALSE, winner |-> None]

-----------------------------------------------------------------------------
(* Statements. *)

\* variant_mailing_ids: every mailing bound to the test, the promoted copy included
Variants(t) == {m \in Mailing : mailing[m].state # "absent" /\ mailing[m].test = t}

DoneVariants(t) == {m \in Variants(t) : mailing[m].state = "done"}

\* bind_variant: drafts only; a campaign the mailing already has is kept
Bound(row, t, pc) ==
    IF row.state = "draft"
    THEN [row EXCEPT !.test = t, !.enabled = TRUE, !.pc = pc,
                     !.campaign = IF @ = None THEN test[t].campaign ELSE @]
    ELSE row

\* promote_winner: the source is not copied
WinnerCopy(m, t) ==
    [Blank EXCEPT !.state = "draft", !.campaign = mailing[m].campaign, !.test = t,
                  !.pc = 100, !.of = m]

\* Slip: a state outside the vocabulary.
QueuedLabel(row) == [row EXCEPT !.state = "queued"]

\* queue_promoted_winner
Queued(row) == IF row.state = "draft" THEN [row EXCEPT !.state = "in_queue"] ELSE row

\* Slip: the stamp without its guard.
Restamped(row, m) == [row EXCEPT !.completed = TRUE, !.winner = m]

\* complete_ab_test
Stamped(row, m) ==
    IF row.completed THEN row ELSE [row EXCEPT !.completed = TRUE, !.winner = m]

\* ab_tests_due_for_promotion
Due == {t \in Test : test[t].live /\ ~test[t].completed /\ test[t].promote = "due"}

Rounded(part, whole) == (200 * part + whole) \div (2 * whole)

\* metric_expr: the tally an axis counts, opens for the axes that are not stored
Hits(tally, axis) ==
    CASE axis = "clicks_ratio"  -> tally.clicked
      [] axis = "replied_ratio" -> tally.replied
      [] OTHER                  -> tally.opened

\* rank_variants_by_metric: a mailing that sent nothing ranks at zero
Ratio(m, axis) ==
    IF mailing[m].tally.sent = 0 THEN 0
    ELSE Rounded(Hits(mailing[m].tally, axis), mailing[m].tally.sent)

\* Slip: equals wait for ever.
RankedAlone(t) ==
    {m \in DoneVariants(t) : \A n \in DoneVariants(t) \ {m} :
        Ratio(m, test[t].selection) > Ratio(n, test[t].selection)}

\* Best ratio first, the smaller id among equals.
Ranked(t) ==
    {m \in DoneVariants(t) : \A n \in DoneVariants(t) \ {m} :
        \/ Ratio(m, test[t].selection) > Ratio(n, test[t].selection)
        \/ Ratio(m, test[t].selection) = Ratio(n, test[t].selection) /\ m < n}

\* rank_variants_by_invoiced_amount: the variants that cite a source, by what the seam
\* says of it; nothing when none cites one
RankedByAmount(t, amount) ==
    LET citing == {m \in DoneVariants(t) : mailing[m].source # None}
        worth  == [m \in citing |-> amount[mailing[m].source]]
    IN  {m \in citing : \A n \in citing \ {m} :
            worth[m] > worth[n] \/ (worth[m] = worth[n] /\ m < n)}

\* The id of the next row inserted, fresh ids being alike.
IsNext(new) ==
    mailing[new].state = "absent" /\ \A m \in Mailing : m < new => mailing[m].state # "absent"

\* Slip: the stamp is a transaction of its own and the copy may be lost.
CrownInTwo(t, m) ==
    \E new \in Mailing :
        /\ IsNext(new)
        /\ mailing' \in {mailing, [mailing EXCEPT ![new] = Queued(WinnerCopy(m, t))]}
        /\ test' = [test EXCEPT ![t] = Stamped(@, m)]

\* The three writes that both promotions commit together, whether or not the stamp took.
Crown(t, m) ==
    \E new \in Mailing :
        /\ IsNext(new)
        /\ mailing' = [mailing EXCEPT ![new] = Queued(WinnerCopy(m, t))]
        /\ test' = [test EXCEPT ![t] = Stamped(@, m)]

-----------------------------------------------------------------------------
(* Operator verbs. *)

\* The partial UNIQUE(campaign_id) counts completed tests too.
CreateAbTest(t, c, selection) ==
    /\ ~test[t].live
    /\ \A u \in Test : test[u].live => test[u].campaign # c
    /\ \E promote \in {"never", "later"} :
        /\ selection = "manual" \/ promote # "never"
        /\ test' = [test EXCEPT ![t] = [NoTest EXCEPT !.live = TRUE, !.campaign = c,
                                            !.selection = selection, !.promote = promote]]
    /\ UNCHANGED <<mailing, trace, sweeper, drive, operator>>

BindVariant(m, t, pc) ==
    /\ test[t].live
    /\ mailing[m].state # "absent"
    /\ mailing' = [mailing EXCEPT ![m] = Bound(@, t, pc)]
    /\ UNCHANGED <<test, trace, sweeper, drive, operator>>

\* select_winner reads the test and its variants ...
SelectWinner(o, t, m) ==
    /\ operator[o] = None
    /\ test[t].live
    /\ ~test[t].completed
    /\ m \in Variants(t)
    /\ operator' = [operator EXCEPT ![o] = [test |-> t, winner |-> m]]
    /\ UNCHANGED <<mailing, test, trace, sweeper, drive>>

\* ... and writes on what it read.
SelectWinnerWrites(o) ==
    /\ operator[o] # None
    /\ Crown(operator[o].test, operator[o].winner)
    /\ operator' = [operator EXCEPT ![o] = None]
    /\ UNCHANGED <<trace, sweeper, drive>>

Launch(m) ==
    /\ mailing[m].state = "draft"
    /\ mailing' = [mailing EXCEPT ![m].state = "in_queue"]
    /\ UNCHANGED <<test, trace, sweeper, drive, operator>>

Cancel(m) ==
    /\ m \in Cancellable
    /\ mailing[m].state \in {"in_queue", "sending", "done"}
    /\ mailing' = [mailing EXCEPT ![m].state = "draft"]
    /\ UNCHANGED <<test, trace, sweeper, drive, operator>>

\* now() passes promote_at.
TimePasses(t) ==
    /\ test[t].promote = "later"
    /\ test' = [test EXCEPT ![t].promote = "due"]
    /\ UNCHANGED <<mailing, trace, sweeper, drive, operator>>

-----------------------------------------------------------------------------
(* The sampling and the engine. *)

\* ab_member: the buckets below pc, under the seed that all variants share
Member(t, e, pc) == Bucket[t][e] < pc

Fragment(c) == IF c.enabled THEN {e \in Email : Member(c.test, e, c.pc)} ELSE Email

\* Slip: the campaign is probed only for sampled mailings.
ProbedIfSampled(c) == IF c.enabled THEN c.campaign ELSE None

\* The campaign whose traces count as seen: of any mailing that carries a test, the
\* winner copy with its sampling off included.
Probed(c) == IF c.test # None THEN c.campaign ELSE None

\* Slip: a send under any campaign counts.
SeenAnywhere(c) == {x.email : x \in trace}

\* recipient_disposition
Seen(c) ==
    {x.email : x \in {y \in trace :
        y.mailing = c.id \/ (Probed(c) # None /\ y.campaign = Probed(c))}}

\* UNIQUE(mailing, recipient) over live traces
Fenced(m) == {x.email : x \in {y \in trace : y.mailing = m}}

Claimable == {m \in Mailing : mailing[m].state \in {"in_queue", "sending"}}

ClaimOf(m) == [id |-> m, campaign |-> mailing[m].campaign, test |-> mailing[m].test,
               enabled |-> mailing[m].enabled, pc |-> mailing[m].pc]

Undriven == [claims |-> {}, job |-> None, work |-> {}, more |-> FALSE]

Idle == [pc |-> "idle", due |-> {}, test |-> None, winner |-> None]

\* claim_due_mailings and flip_sending; the rows another claim has locked are skipped.
Claim(w) ==
    /\ sweeper[w].pc = "idle"
    /\ \E batch \in SUBSET Claimable :
        /\ Cardinality(batch) <= ClaimBatch
        /\ batch = {} => Claimable = {} \/ Sweeper # {w}
        /\ mailing' = [m \in Mailing |-> IF m \in batch
                                         THEN [mailing[m] EXCEPT !.state = "sending"]
                                         ELSE mailing[m]]
        /\ drive' = [drive EXCEPT ![w] = [Undriven EXCEPT !.claims = {ClaimOf(m) : m \in batch}]]
    /\ sweeper' = [sweeper EXCEPT ![w] = [Idle EXCEPT !.pc = "drive"]]
    /\ UNCHANGED <<test, trace, operator>>

\* drive_mailing reads the disposition and picks whom this pass sends to.
Probe(w, c) ==
    /\ sweeper[w].pc = "drive" /\ drive[w].job = None
    /\ c \in drive[w].claims
    /\ LET unseen == Fragment(c) \ Seen(c)
       IN  \E work \in SUBSET unseen :
            /\ Cardinality(work) <= Budget
            /\ work # unseen => Cardinality(work) = Budget
            /\ drive' = [drive EXCEPT ![w] = [claims |-> @.claims \ {c}, job |-> c,
                                             work |-> work, more |-> work # unseen]]
    /\ UNCHANGED <<mailing, test, trace, sweeper, operator>>

TraceOf(c, e) ==
    [mailing |-> c.id, email |-> e, campaign |-> c.campaign, tested |-> c.test # None]

\* One batch of fenced mints, on what the probe has found.
MintBatch(w) ==
    /\ drive[w].job # None
    /\ \E batch \in SUBSET drive[w].work :
        /\ batch # {}
        /\ trace' = trace \cup
                {TraceOf(drive[w].job, e) : e \in batch \ Fenced(drive[w].job.id)}
        /\ drive' = [drive EXCEPT ![w].work = @ \ batch]
    /\ UNCHANGED <<mailing, test, sweeper, operator>>

\* complete_mailing: nothing happens to a mailing that is no longer sending.
Completed(row, tally) ==
    IF row.state = "sending" THEN [row EXCEPT !.state = "done", !.tally = tally] ELSE row

\* The pass is over: the mailing is complete, or stays sending for the next one.
Finish(w) ==
    /\ drive[w].job # None /\ drive[w].work = {}
    /\ LET m == drive[w].job.id
       IN  IF drive[w].more THEN mailing' = mailing
           ELSE \E tally \in Tallies[m] :
                    mailing' = [mailing EXCEPT ![m] = Completed(@, tally)]
    /\ drive' = [drive EXCEPT ![w].job = None]
    /\ UNCHANGED <<test, trace, sweeper, operator>>

-----------------------------------------------------------------------------
(* Step 9 of the sweep. *)

\* promote_due_ab_tests reads the due tests once, after the drives.
ReadDue(w) ==
    /\ sweeper[w].pc = "drive" /\ drive[w].claims = {} /\ drive[w].job = None
    /\ sweeper' = [sweeper EXCEPT ![w] =
        IF Due = {} THEN Idle ELSE [Idle EXCEPT !.pc = "rank", !.due = Due]]
    /\ UNCHANGED <<mailing, test, trace, drive, operator>>

Dropped(w, t) ==
    IF sweeper[w].due = {t} THEN Idle ELSE [sweeper[w] EXCEPT !.due = @ \ {t}]

\* A manual test, one whose invoicing seam refuses, one with nothing to rank: left for a
\* later sweep.  (The scope of a variant always opens here.)
Skip(w, t) ==
    /\ sweeper[w].pc = "rank"
    /\ t \in sweeper[w].due
    /\ \/ test[t].selection \in {"manual", "sale_invoiced_amount"}
       \/ DoneVariants(t) = {}
    /\ sweeper' = [sweeper EXCEPT ![w] = Dropped(w, t)]
    /\ UNCHANGED <<mailing, test, trace, drive, operator>>

\* promote_one ranks in a transaction of its own, on whichever figures stand then.
Rank(w, t) ==
    /\ sweeper[w].pc = "rank"
    /\ t \in sweeper[w].due
    /\ test[t].selection # "manual"
    /\ \E amount \in [Source -> Amounts] :
        \E m \in IF test[t].selection = "sale_invoiced_amount"
                 THEN RankedByAmount(t, amount) ELSE Ranked(t) :
            sweeper' = [sweeper EXCEPT ![w] =
                [pc |-> "promote", due |-> @.due \ {t}, test |-> t, winner |-> m]]
    /\ UNCHANGED <<mailing, test, trace, drive, operator>>

\* promote_one writes without reading the test again.
Promote(w) ==
    /\ sweeper[w].pc = "promote"
    /\ Crown(sweeper[w].test, sweeper[w].winner)
    /\ sweeper' = [sweeper EXCEPT ![w] =
        IF @.due = {} THEN Idle ELSE [Idle EXCEPT !.pc = "rank", !.due = sweeper[w].due]]
    /\ UNCHANGED <<trace, drive, operator>>

-----------------------------------------------------------------------------
Init ==
    /\ mailing = [m \in Mailing |->
                    IF m \in DOMAIN Drafts
                    THEN [Blank EXCEPT !.state = "draft", !.source = Drafts[m].source,
                                       !.campaign = Drafts[m].campaign]
                    ELSE Blank]
    /\ test = [t \in Test |-> NoTest]
    /\ trace = {}
    /\ sweeper = [w \in Sweeper |-> Idle]
    /\ drive = [w \in Sweeper |-> Undriven]
    /\ operator = [o \in Operator |-> None]

Sweep(w) ==
    \/ Claim(w)
    \/ \E c \in drive[w].claims : Probe(w, c)
    \/ MintBatch(w)
    \/ Finish(w)
    \/ ReadDue(w)
    \/ \E t \in Test : Skip(w, t)
    \/ \E t \in Test : Rank(w, t)
    \/ Promote(w)

Next ==
    \/ \E t \in Test, c \in Campaign, s \in Selections : CreateAbTest(t, c, s)
    \/ \E m \in Mailing, t \in Test, pc \in Shares : BindVariant(m, t, pc)
    \/ \E o \in Operator, t \in Test, m \in Mailing : SelectWinner(o, t, m)
    \/ \E o \in Operator : SelectWinnerWrites(o)
    \/ \E m \in Mailing : Launch(m) \/ Cancel(m)
    \/ \E t \in Test : TimePasses(t)
    \/ \E w \in Sweeper : Sweep(w)

Spec == Init /\ [][Next]_vars

\* The job runner keeps running sweeps.
FairSpec == Spec /\ \A w \in Sweeper : WF_vars(Sweep(w))

-----------------------------------------------------------------------------
(* Properties. *)

TypeOK ==
    /\ mailing \in [Mailing -> MailingRow]
    /\ test \in [Test -> TestRow]
    /\ trace \subseteq TraceRow
    /\ sweeper \in [Sweeper -> [pc : {"idle", "drive", "rank", "promote"}, due : SUBSET Test,
                                test : Test \cup {None}, winner : Mailing \cup {None}]]
    /\ drive \in [Sweeper -> [claims : SUBSET Claimed, job : Claimed \cup {None},
                              work : SUBSET Email, more : BOOLEAN]]
    /\ operator \in [Operator -> [test : Test, winner : Mailing] \cup {None}]

\* The winner of a test is settled once: whatever sweeps and operators still hold from
\* before the completion, neither the stamp nor the named winner changes again.
WinnerStands ==
    [][\A t \in Test : test[t].completed =>
            test'[t].completed /\ test'[t].winner = test[t].winner]_vars

\* A completed test has its copy: the stamp and a queued copy of the named winner appear
\* together, whoever promoted and however many did.
CompletedHasCopy ==
    \A t \in Test : test[t].completed =>
        \E m \in Mailing : mailing[m].of # None /\ mailing[m].of = test[t].winner

\* An address gets one mailing of a campaign under test, from a variant or from any of the
\* promoted copies: a second copy, a relaunched variant, a rebound one or the rest of a
\* budgeted pass sends nothing twice.  Two sweeps that drive two of them at once may.
OneSendPerCampaign ==
    \A x, y \in trace :
        /\ x.tested /\ y.tested
        /\ x.email = y.email
        /\ x.campaign # None /\ x.campaign = y.campaign
        => x = y

\* The promotion reaches the remaining audience: once a promoted copy is done with its
\* sampling off, every address has had a mailing of the campaign.
RemainderReached ==
    \A m \in Mailing :
        mailing[m].of # None /\ mailing[m].state = "done" /\ ~mailing[m].enabled =>
            \A e \in Email : \E x \in trace :
                x.email = e /\ (x.mailing = m \/ x.campaign = mailing[m].campaign)

\* A test is promoted once: one copy of one winner goes out.
PromotedOnce ==
    \A m, n \in Mailing :
        mailing[m].of # None /\ mailing[n].of # None /\ mailing[m].test = mailing[n].test
            => m = n

\* No two sweeps are driving mailings of one campaign under test at once.
DrivesApart ==
    \A v, w \in Sweeper :
        LET c == drive[v].job
            d == drive[w].job
        IN  /\ v # w /\ c # None /\ d # None
            /\ c.test # None /\ d.test # None /\ c.campaign # None
            => c.campaign # d.campaign

\* The tests a sweep has read as due and not yet dealt with.
Promoting(w) == sweeper[w].due \cup ({sweeper[w].test} \ {None})

\* No two of the sweeps and operators are about to promote the same test.
PromotersApart ==
    /\ \A v, w \in Sweeper : v # w => Promoting(v) \cap Promoting(w) = {}
    /\ \A o, p \in Operator :
        o # p /\ operator[o] # None /\ operator[p] # None => operator[o].test # operator[p].test
    /\ \A w \in Sweeper, o \in Operator :
        operator[o] # None => operator[o].test \notin Promoting(w)

Rankable(t) ==
    /\ t \in Due
    /\ test[t].selection \notin {"manual", "sale_invoiced_amount"}
    /\ DoneVariants(t) # {}

\* A due test on a stored metric is promoted, as long as it keeps a done variant.
EventuallyPromoted == \A t \in Test : []<>(~Rankable(t))
=============================================================================
