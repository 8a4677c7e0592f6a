---------------------------- MODULE AbTestsProofs ----------------------------
(***************************************************************************)
(* Theorems about AbTests, for any number of tests, mailings, addresses,   *)
(* sweeps and operators, and for every sampling.                           *)
(***************************************************************************)
EXTENDS AbTests, TLAPS

(* What a sweep or an operator holds is a test that lives; a completed test lives, too, and a
   row that was never inserted is nobody's copy. *)
HeldLive ==
    /\ \A w \in Sweeper : \A t \in sweeper[w].due : test[t].live
    /\ \A w \in Sweeper : sweeper[w].pc = "promote" =>
            /\ sweeper[w].test \in Test /\ test[sweeper[w].test].live
            /\ sweeper[w].winner \in Mailing
    /\ \A o \in Operator : operator[o] # None => test[operator[o].test].live

CompletedLive == \A t \in Test : test[t].completed => test[t].live

AbsentUnused == \A m \in Mailing : mailing[m].state = "absent" => mailing[m].of = None

Sound == TypeOK /\ HeldLive /\ CompletedLive /\ AbsentUnused

SweeperRow == [pc : {"idle", "drive", "rank", "promote"}, due : SUBSET Test,
               test : Test \cup {None}, winner : Mailing \cup {None}]

DriveRow == [claims : SUBSET Claimed, job : Claimed \cup {None},
             work : SUBSET Email, more : BOOLEAN]

-----------------------------------------------------------------------------
(* Rows. *)

LEMMA BlankTyped == Blank \in MailingRow /\ NoTest \in TestRow
  <1>1. NoTally \in Tally
    BY DEF NoTally, Tally
  <1> QED
    BY <1>1 DEF Blank, MailingRow, NoTest, TestRow, AxisNames

LEMMA BoundRow ==
    ASSUME NEW row \in MailingRow, NEW t \in Test, NEW pc \in Shares, TypeOK
    PROVE  /\ Bound(row, t, pc) \in MailingRow
           /\ Bound(row, t, pc).state = row.state
           /\ Bound(row, t, pc).of = row.of
           /\ row.state # "draft" => Bound(row, t, pc) = row
           /\ row.state = "draft" => Bound(row, t, pc).enabled
  <1>1. pc \in 0 .. 100 /\ test[t].campaign \in Campaign \cup {None}
    BY SamplingAssumption DEF TypeOK, TestRow
  <1> QED
    BY <1>1 DEF Bound, MailingRow

LEMMA CopyRow ==
    ASSUME NEW m \in Mailing, NEW t \in Test, TypeOK
    PROVE  /\ Queued(WinnerCopy(m, t)) \in MailingRow
           /\ Queued(WinnerCopy(m, t)).state = "in_queue"
           /\ Queued(WinnerCopy(m, t)).of = m
           /\ Queued(WinnerCopy(m, t)).test = t
           /\ Queued(WinnerCopy(m, t)).enabled = FALSE
  <1>1. mailing[m].campaign \in Campaign \cup {None}
    BY DEF TypeOK, MailingRow
  <1>2. Blank \in MailingRow /\ Blank.enabled = FALSE
    BY BlankTyped DEF Blank
  <1>3. ASSUME NEW row \in MailingRow, row.enabled = FALSE, NEW pc \in 0 .. 100,
               NEW c \in Campaign \cup {None}
        PROVE  LET copy == [row EXCEPT !.state = "draft", !.campaign = c, !.test = t,
                                       !.pc = pc, !.of = m]
               IN  /\ copy \in MailingRow
                   /\ copy.state = "draft" /\ copy.of = m /\ copy.enabled = FALSE
    BY <1>3 DEF MailingRow
  <1>4. 100 \in 0 .. 100
    OBVIOUS
  <1>5. /\ WinnerCopy(m, t) \in MailingRow
        /\ WinnerCopy(m, t).state = "draft" /\ WinnerCopy(m, t).of = m
        /\ WinnerCopy(m, t).enabled = FALSE
    BY <1>1, <1>2, <1>3, <1>4 DEF WinnerCopy
  <1>6. WinnerCopy(m, t).test = t
    BY DEF WinnerCopy, Blank
  <1>7. ASSUME NEW row \in MailingRow, row.state = "draft"
        PROVE  /\ Queued(row) \in MailingRow /\ Queued(row).state = "in_queue"
               /\ Queued(row).of = row.of /\ Queued(row).test = row.test
               /\ Queued(row).enabled = row.enabled
    <2>1. Queued(row) = [row EXCEPT !.state = "in_queue"]
      BY <1>7 DEF Queued
    <2> QED
      BY <2>1 DEF MailingRow
  <1> QED
    BY <1>5, <1>6, <1>7

LEMMA StampedRow ==
    ASSUME NEW row \in TestRow, NEW m \in Mailing
    PROVE  /\ Stamped(row, m) \in TestRow
           /\ Stamped(row, m).live = row.live
           /\ Stamped(row, m).completed
           /\ row.completed => Stamped(row, m) = row
           /\ ~row.completed => Stamped(row, m).winner = m
  BY DEF Stamped, TestRow

\* The rows after a promotion: one row more, in the place of an absent one, and one stamp.
LEMMA Crowned ==
    ASSUME Sound, NEW t \in Test, NEW m \in Mailing, Crown(t, m)
    PROVE  /\ mailing' \in [Mailing -> MailingRow]
           /\ test' \in [Test -> TestRow]
           /\ \E new \in Mailing :
                /\ mailing[new].state = "absent"
                /\ mailing'[new].state = "in_queue" /\ mailing'[new].of = m
                /\ mailing'[new].test = t
                /\ \A n \in Mailing : n # new => mailing'[n] = mailing[n]
           /\ \A u \in Test : u # t => test'[u] = test[u]
           /\ test'[t] = Stamped(test[t], m)
  <1>1. PICK new \in Mailing :
            /\ IsNext(new)
            /\ mailing' = [mailing EXCEPT ![new] = Queued(WinnerCopy(m, t))]
            /\ test' = [test EXCEPT ![t] = Stamped(@, m)]
    BY DEF Crown
  <1>2. mailing[new].state = "absent"
    BY <1>1 DEF IsNext
  <1>3. mailing \in [Mailing -> MailingRow] /\ test \in [Test -> TestRow]
    BY DEF Sound, TypeOK
  <1>4. mailing' \in [Mailing -> MailingRow]
    BY <1>1, <1>3, CopyRow DEF Sound
  <1>5. test' \in [Test -> TestRow]
    BY <1>1, <1>3, StampedRow
  <1>6. /\ mailing'[new].state = "in_queue" /\ mailing'[new].of = m
        /\ mailing'[new].test = t
        /\ \A n \in Mailing : n # new => mailing'[n] = mailing[n]
    BY <1>1, <1>3, CopyRow DEF Sound
  <1>7. (\A u \in Test : u # t => test'[u] = test[u]) /\ test'[t] = Stamped(test[t], m)
    BY <1>1, <1>3
  <1> QED
    BY <1>2, <1>4, <1>5, <1>6, <1>7

-----------------------------------------------------------------------------
(* The drives. *)

\* A step of a sweep that claims or drives.
Engine(w) ==
    \/ Claim(w)
    \/ \E c \in drive[w].claims : Probe(w, c)
    \/ MintBatch(w)
    \/ Finish(w)

\* All that such a step does to a row: it is taken up, or closed by the end of a pass.
Driven(w, m) ==
    /\ mailing'[m] = mailing[m]
        \/ /\ mailing[m].state \in {"in_queue", "sending"}
           /\ mailing'[m].state = "sending"
        \/ /\ Finish(w) /\ m = drive[w].job.id /\ ~drive[w].more
           /\ mailing[m].state = "sending" /\ mailing'[m].state = "done"
    /\ mailing'[m].of = mailing[m].of
    /\ mailing'[m].test = mailing[m].test
    /\ mailing'[m].campaign = mailing[m].campaign
    /\ mailing'[m].enabled = mailing[m].enabled
    /\ mailing'[m].pc = mailing[m].pc

LEMMA RowTaken ==
    ASSUME NEW row \in MailingRow
    PROVE  LET taken == [row EXCEPT !.state = "sending"]
           IN  /\ taken \in MailingRow /\ taken.state = "sending" /\ taken.of = row.of
               /\ taken.test = row.test /\ taken.campaign = row.campaign
               /\ taken.enabled = row.enabled /\ taken.pc = row.pc
  BY DEF MailingRow

LEMMA RowClosed ==
    ASSUME NEW row \in MailingRow, NEW tally \in Tally
    PROVE  LET closed == Completed(row, tally)
           IN  /\ closed \in MailingRow /\ closed.of = row.of
               /\ closed.test = row.test /\ closed.campaign = row.campaign
               /\ closed.enabled = row.enabled /\ closed.pc = row.pc
               /\ closed = row \/ (row.state = "sending" /\ closed.state = "done")
  BY DEF MailingRow, Completed

LEMMA ClaimTyped ==
    ASSUME Sound, NEW m \in Mailing
    PROVE  ClaimOf(m) \in Claimed
  <1>1. mailing[m] \in MailingRow
    BY DEF Sound, TypeOK
  <1> QED
    BY <1>1 DEF ClaimOf, Claimed, MailingRow

LEMMA TraceTyped ==
    ASSUME NEW c \in Claimed, NEW e \in Email
    PROVE  TraceOf(c, e) \in TraceRow
  <1>1. (c.test # None) \in BOOLEAN
    OBVIOUS
  <1>2. c.id \in Mailing /\ c.campaign \in Campaign \cup {None}
    BY DEF Claimed
  <1> QED
    BY <1>1, <1>2, Zenon DEF TraceOf, TraceRow

LEMMA ClaimRows ==
    ASSUME Sound, NEW w \in Sweeper, Claim(w)
    PROVE  /\ mailing' \in [Mailing -> MailingRow]
           /\ drive' \in [Sweeper -> DriveRow]
           /\ \A m \in Mailing : Driven(w, m)
           /\ \A v \in Sweeper : v # w => drive'[v] = drive[v]
           /\ drive'[w].job = None
           /\ \A c \in drive'[w].claims : \E m \in Claimable : c = ClaimOf(m)
  <1>1. PICK batch \in SUBSET Claimable :
            /\ mailing' = [m \in Mailing |-> IF m \in batch
                                         THEN [mailing[m] EXCEPT !.state = "sending"]
                                         ELSE mailing[m]]
            /\ drive' = [drive EXCEPT ![w] =
                            [Undriven EXCEPT !.claims = {ClaimOf(m) : m \in batch}]]
    BY DEF Claim
  <1>2. mailing \in [Mailing -> MailingRow] /\ drive \in [Sweeper -> DriveRow]
    BY DEF Sound, TypeOK, DriveRow
  <1>3. batch \subseteq Mailing
    BY DEF Claimable
  <1>4. {ClaimOf(m) : m \in batch} \subseteq Claimed
    BY <1>3, ClaimTyped
  <1> DEFINE row == [Undriven EXCEPT !.claims = {ClaimOf(m) : m \in batch}]
  <1>5. ASSUME NEW rest \in DriveRow, NEW read \in SUBSET Claimed
        PROVE  LET taken == [rest EXCEPT !.claims = read]
               IN  taken \in DriveRow /\ taken.job = rest.job /\ taken.claims = read
    BY DEF DriveRow
  <1>6. row \in DriveRow /\ row.job = None /\ row.claims = {ClaimOf(m) : m \in batch}
    <2>1. Undriven \in DriveRow /\ Undriven.job = None
      BY DEF Undriven, DriveRow
    <2> QED
      BY <1>4, <1>5, <2>1
  <1>7. drive' = [drive EXCEPT ![w] = row]
    BY <1>1
  <1> HIDE DEF row
  <1>8. drive' \in [Sweeper -> DriveRow] /\ drive'[w] = row
        /\ \A v \in Sweeper : v # w => drive'[v] = drive[v]
    BY <1>2, <1>6, <1>7
  <1>9. ASSUME NEW m \in Mailing
        PROVE  mailing'[m] \in MailingRow /\ Driven(w, m)
    <2>1. CASE m \in batch
      <3>1. mailing'[m] = [mailing[m] EXCEPT !.state = "sending"]
        BY <1>1, <2>1
      <3>2. mailing[m].state \in {"in_queue", "sending"}
        BY <2>1 DEF Claimable
      <3> QED
        BY <1>2, <3>1, <3>2, RowTaken DEF Driven
    <2>2. CASE m \notin batch
      <3>1. mailing'[m] = mailing[m]
        BY <1>1, <2>2
      <3> QED
        BY <1>2, <3>1 DEF Driven
    <2> QED
      BY <2>1, <2>2
  <1>10. mailing' \in [Mailing -> MailingRow]
    BY <1>1, <1>9
  <1> QED
    BY <1>6, <1>8, <1>9, <1>10

\* The sweep's own record after a probe, a batch and the end of a pass.
LEMMA ProbeRow ==
    ASSUME Sound, NEW w \in Sweeper, NEW c \in drive[w].claims, Probe(w, c)
    PROVE  /\ c \in Claimed
           /\ drive' \in [Sweeper -> DriveRow]
           /\ \A v \in Sweeper : v # w => drive'[v] = drive[v]
           /\ drive'[w].claims = drive[w].claims \ {c}
           /\ drive'[w].job = c
           /\ drive'[w].work \subseteq Fragment(c) \ Seen(c)
           /\ ~drive'[w].more => drive'[w].work = Fragment(c) \ Seen(c)
  <1>1. PICK work \in SUBSET (Fragment(c) \ Seen(c)) :
            drive' = [drive EXCEPT ![w] = [claims |-> @.claims \ {c}, job |-> c, work |-> work,
                                           more |-> work # Fragment(c) \ Seen(c)]]
    BY DEF Probe
  <1>2. drive \in [Sweeper -> DriveRow] /\ drive[w].claims \subseteq Claimed
    BY DEF Sound, TypeOK, DriveRow
  <1>3. Fragment(c) \subseteq Email
    BY DEF Fragment
  <1> DEFINE row == [claims |-> drive[w].claims \ {c}, job |-> c, work |-> work,
                     more |-> work # Fragment(c) \ Seen(c)]
  <1>4. (work # Fragment(c) \ Seen(c)) \in BOOLEAN
    OBVIOUS
  <1>5. row \in DriveRow
    BY <1>2, <1>3, <1>4, Zenon DEF DriveRow
  <1>6. row.claims = drive[w].claims \ {c} /\ row.job = c /\ row.work = work
        /\ (~row.more => work = Fragment(c) \ Seen(c))
    OBVIOUS
  <1>7. drive' = [drive EXCEPT ![w] = row]
    BY <1>1
  <1> HIDE DEF row
  <1> QED
    BY <1>2, <1>5, <1>6, <1>7

LEMMA MintRow ==
    ASSUME Sound, NEW w \in Sweeper, MintBatch(w)
    PROVE  /\ drive[w].job \in Claimed
           /\ drive' \in [Sweeper -> DriveRow]
           /\ \A v \in Sweeper : v # w => drive'[v] = drive[v]
           /\ drive'[w].claims = drive[w].claims /\ drive'[w].job = drive[w].job
           /\ drive'[w].more = drive[w].more
           /\ \E batch \in SUBSET drive[w].work :
                /\ drive'[w].work = drive[w].work \ batch
                /\ trace' = trace \cup
                        {TraceOf(drive[w].job, e) : e \in batch \ Fenced(drive[w].job.id)}
           /\ trace' \subseteq TraceRow
  <1>1. PICK batch \in SUBSET drive[w].work :
            /\ trace' = trace \cup
                    {TraceOf(drive[w].job, e) : e \in batch \ Fenced(drive[w].job.id)}
            /\ drive' = [drive EXCEPT ![w].work = @ \ batch]
    BY DEF MintBatch
  <1>2. /\ drive \in [Sweeper -> DriveRow] /\ drive[w] \in DriveRow
        /\ drive[w].job \in Claimed /\ drive[w].work \subseteq Email
    BY DEF MintBatch, Sound, TypeOK, DriveRow
  <1> DEFINE row == [drive[w] EXCEPT !.work = drive[w].work \ batch]
  <1>3. /\ row \in DriveRow /\ row.claims = drive[w].claims /\ row.job = drive[w].job
        /\ row.more = drive[w].more /\ row.work = drive[w].work \ batch
    BY <1>2 DEF DriveRow
  <1>4. drive' = [drive EXCEPT ![w] = row]
    BY <1>1
  <1>5. trace' \subseteq TraceRow
    BY <1>1, <1>2, TraceTyped DEF Sound, TypeOK
  <1> HIDE DEF row
  <1> QED
    BY <1>1, <1>2, <1>3, <1>4, <1>5

LEMMA FinishRow ==
    ASSUME Sound, NEW w \in Sweeper, Finish(w)
    PROVE  /\ drive[w].job \in Claimed /\ drive[w].work = {}
           /\ mailing' \in [Mailing -> MailingRow]
           /\ drive' \in [Sweeper -> DriveRow]
           /\ \A m \in Mailing : Driven(w, m)
           /\ \A v \in Sweeper : v # w => drive'[v] = drive[v]
           /\ drive'[w].claims = drive[w].claims /\ drive'[w].job = None
  <1>1. /\ drive \in [Sweeper -> DriveRow] /\ drive[w] \in DriveRow
        /\ mailing \in [Mailing -> MailingRow]
        /\ drive[w].job \in Claimed /\ drive[w].work = {}
        /\ drive' = [drive EXCEPT ![w].job = None]
    BY DEF Finish, Sound, TypeOK, DriveRow
  <1> DEFINE row == [drive[w] EXCEPT !.job = None]
  <1>2. row \in DriveRow /\ row.claims = drive[w].claims /\ row.job = None
    BY <1>1 DEF DriveRow
  <1>3. drive' = [drive EXCEPT ![w] = row]
    BY <1>1
  <1> HIDE DEF row
  <1>4. drive[w].job.id \in Mailing
    BY <1>1 DEF Claimed
  <1>5. mailing' \in [Mailing -> MailingRow] /\ \A m \in Mailing : Driven(w, m)
    <2>1. CASE drive[w].more
      BY <1>1, <2>1 DEF Finish, Driven
    <2>2. CASE ~drive[w].more
      <3>1. PICK tally \in Tallies[drive[w].job.id] :
                mailing' = [mailing EXCEPT ![drive[w].job.id] = Completed(@, tally)]
        BY <2>2 DEF Finish
      <3>2. tally \in Tally
        BY <1>4, TalliesAssumption
      <3>3. /\ mailing'[drive[w].job.id] = Completed(mailing[drive[w].job.id], tally)
            /\ \A m \in Mailing : m # drive[w].job.id => mailing'[m] = mailing[m]
        BY <1>1, <1>4, <3>1
      <3>4. mailing' \in [Mailing -> MailingRow]
        BY <1>1, <1>4, <3>1, <3>2, RowClosed
      <3> QED
        BY <1>1, <1>4, <2>2, <3>2, <3>3, <3>4, RowClosed DEF Driven
    <2> QED
      BY <2>1, <2>2
  <1> QED
    BY <1>1, <1>2, <1>3, <1>5

\* What every step of a drive has in common.
LEMMA EngineRows ==
    ASSUME Sound, NEW w \in Sweeper, Engine(w)
    PROVE  /\ mailing' \in [Mailing -> MailingRow]
           /\ drive' \in [Sweeper -> DriveRow]
           /\ trace \subseteq trace' /\ trace' \subseteq TraceRow
           /\ UNCHANGED <<test, operator>>
           /\ \/ sweeper' = sweeper
              \/ sweeper' = [sweeper EXCEPT ![w] = [Idle EXCEPT !.pc = "drive"]]
           /\ \A m \in Mailing : Driven(w, m)
  <1>0. mailing \in [Mailing -> MailingRow] /\ trace \subseteq TraceRow
    BY DEF Sound, TypeOK
  <1>1. CASE Claim(w)
    BY <1>0, <1>1, ClaimRows DEF Claim
  <1>2. ASSUME NEW c \in drive[w].claims, Probe(w, c)
        PROVE  /\ drive' \in [Sweeper -> DriveRow]
               /\ UNCHANGED <<mailing, test, trace, sweeper, operator>>
    BY <1>2, ProbeRow DEF Probe
  <1>3. CASE MintBatch(w)
    BY <1>0, <1>3, MintRow DEF MintBatch, Driven
  <1>4. CASE Finish(w)
    BY <1>0, <1>4, FinishRow DEF Finish
  <1>5. ASSUME mailing' = mailing
        PROVE  \A m \in Mailing : Driven(w, m)
    BY <1>5 DEF Driven
  <1> QED
    BY <1>0, <1>1, <1>2, <1>3, <1>4, <1>5 DEF Engine

-----------------------------------------------------------------------------
(* Soundness is inductive. *)

LEMMA SoundAtFirst == Init => Sound
  <1> SUFFICES ASSUME Init PROVE Sound
    OBVIOUS
  <1>1. /\ mailing \in [Mailing -> MailingRow]
        /\ \A m \in Mailing : mailing[m].of = None
    <2>1. ASSUME NEW m \in DOMAIN Drafts
          PROVE  LET row == [Blank EXCEPT !.state = "draft", !.source = Drafts[m].source,
                                          !.campaign = Drafts[m].campaign]
                 IN  row \in MailingRow /\ row.of = None
      <3>1. Drafts[m] \in [source : Source \cup {None}, campaign : Campaign \cup {None}]
        BY IdsAssumption
      <3>2. Blank \in MailingRow /\ Blank.of = None
        BY BlankTyped DEF Blank
      <3>3. ASSUME NEW row \in MailingRow, row.of = None
            PROVE  LET draft == [row EXCEPT !.state = "draft", !.source = Drafts[m].source,
                                            !.campaign = Drafts[m].campaign]
                   IN  draft \in MailingRow /\ draft.of = None
        BY <3>1, <3>3 DEF MailingRow
      <3> QED
        BY <3>2, <3>3
    <2>2. Blank \in MailingRow /\ Blank.of = None
      BY BlankTyped DEF Blank
    <2> QED
      BY <2>1, <2>2 DEF Init
  <1>2. /\ test \in [Test -> TestRow]
        /\ \A t \in Test : ~test[t].completed
    BY BlankTyped DEF Init, NoTest
  <1>3. /\ sweeper \in [Sweeper -> SweeperRow]
        /\ \A w \in Sweeper : sweeper[w].due = {} /\ sweeper[w].pc = "idle"
    BY DEF Init, Idle, SweeperRow
  <1>4. /\ operator \in [Operator -> [test : Test, winner : Mailing] \cup {None}]
        /\ \A o \in Operator : operator[o] = None
    BY DEF Init
  <1>5. drive \in [Sweeper -> DriveRow]
    BY DEF Init, Undriven, DriveRow
  <1>6. TypeOK
    BY <1>1, <1>2, <1>3, <1>4, <1>5 DEF Init, TypeOK, SweeperRow, DriveRow
  <1> QED
    BY <1>1, <1>2, <1>3, <1>4, <1>6 DEF Sound, HeldLive, CompletedLive, AbsentUnused

\* Once a test lives it goes on living.
TestsGoOn == \A t \in Test : test[t].live => test'[t].live

\* What a step does to the tests and the mailings, seen from a holder of one of them.
LEMMA RowsChange ==
    ASSUME Sound, mailing' \in [Mailing -> MailingRow], test' \in [Test -> TestRow],
           trace' \subseteq TraceRow, UNCHANGED <<sweeper, drive, operator>>, TestsGoOn,
           CompletedLive', AbsentUnused'
    PROVE  Sound'
  <1>1. TypeOK'
    BY DEF Sound, TypeOK
  <1>2. HeldLive'
    BY DEF Sound, TypeOK, HeldLive, TestsGoOn
  <1> QED
    BY <1>1, <1>2 DEF Sound

LEMMA CreateKeeps ==
    ASSUME Sound, NEW t \in Test, NEW c \in Campaign, NEW s \in Selections,
           CreateAbTest(t, c, s)
    PROVE  Sound'
  <1>1. PICK promote \in {"never", "later"} :
            test' = [test EXCEPT ![t] = [NoTest EXCEPT !.live = TRUE, !.campaign = c,
                                            !.selection = s, !.promote = promote]]
    BY DEF CreateAbTest
  <1> DEFINE row == [NoTest EXCEPT !.live = TRUE, !.campaign = c,
                                   !.selection = s, !.promote = promote]
  <1>2. row \in TestRow /\ row.live
    BY BlankTyped, AxesAssumption DEF TestRow, NoTest
  <1>3. test \in [Test -> TestRow]
    BY DEF Sound, TypeOK
  <1>4. \A u \in Test : test'[u] = IF u = t THEN row ELSE test[u]
    BY <1>1, <1>3
  <1>5. test' \in [Test -> TestRow]
    BY <1>1, <1>2, <1>3
  <1>6. TestsGoOn /\ CompletedLive'
    BY <1>2, <1>4 DEF TestsGoOn, CompletedLive, Sound
  <1> QED
    BY <1>5, <1>6, RowsChange DEF CreateAbTest, Sound, TypeOK, AbsentUnused

LEMMA BindKeeps ==
    ASSUME Sound, NEW m \in Mailing, NEW t \in Test, NEW pc \in Shares, BindVariant(m, t, pc)
    PROVE  Sound'
  <1>1. mailing \in [Mailing -> MailingRow] /\ mailing' = [mailing EXCEPT ![m] = Bound(@, t, pc)]
    BY DEF BindVariant, Sound, TypeOK
  <1>2. mailing' \in [Mailing -> MailingRow]
    BY <1>1, BoundRow DEF Sound
  <1>3. AbsentUnused'
    BY <1>1, BoundRow DEF Sound, AbsentUnused
  <1> QED
    BY <1>2, <1>3, RowsChange DEF BindVariant, Sound, TypeOK, TestsGoOn, CompletedLive

LEMMA StatesKeep ==
    ASSUME Sound, NEW m \in Mailing, Launch(m) \/ Cancel(m)
    PROVE  Sound'
  <1>1. mailing \in [Mailing -> MailingRow]
    BY DEF Sound, TypeOK
  <1>2. /\ mailing[m].state # "absent"
        /\ \E state \in {"draft", "in_queue"} : mailing' = [mailing EXCEPT ![m].state = state]
    BY DEF Launch, Cancel
  <1>3. mailing' \in [Mailing -> MailingRow] /\ AbsentUnused'
    BY <1>1, <1>2 DEF MailingRow, Sound, AbsentUnused
  <1> QED
    BY <1>3, RowsChange DEF Launch, Cancel, Sound, TypeOK, TestsGoOn, CompletedLive

LEMMA TimeKeeps ==
    ASSUME Sound, NEW t \in Test, TimePasses(t)
    PROVE  Sound'
  <1>1. test \in [Test -> TestRow] /\ test' = [test EXCEPT ![t].promote = "due"]
    BY DEF TimePasses, Sound, TypeOK
  <1>2. test' \in [Test -> TestRow] /\ TestsGoOn /\ CompletedLive'
    BY <1>1 DEF TestRow, TestsGoOn, CompletedLive, Sound
  <1> QED
    BY <1>2, RowsChange DEF TimePasses, Sound, TypeOK, AbsentUnused

\* A promotion keeps the rows in order, whoever still holds the test.
LEMMA CrownKeeps ==
    ASSUME Sound, NEW t \in Test, NEW m \in Mailing, Crown(t, m), test[t].live
    PROVE  /\ mailing' \in [Mailing -> MailingRow] /\ test' \in [Test -> TestRow]
           /\ TestsGoOn /\ CompletedLive' /\ AbsentUnused'
  <1>1. test[t] \in TestRow
    BY DEF Sound, TypeOK
  <1>2. TestsGoOn /\ CompletedLive'
    BY <1>1, Crowned, StampedRow DEF TestsGoOn, CompletedLive, Sound
  <1>3. AbsentUnused'
    BY Crowned DEF AbsentUnused, Sound
  <1> QED
    BY <1>2, <1>3, Crowned

LEMMA SelectKeeps ==
    ASSUME Sound, NEW o \in Operator, NEW t \in Test, NEW m \in Mailing, SelectWinner(o, t, m)
    PROVE  Sound'
  <1>1. operator' = [operator EXCEPT ![o] = [test |-> t, winner |-> m]] /\ test[t].live
    BY DEF SelectWinner
  <1>2. TypeOK'
    BY <1>1 DEF SelectWinner, Sound, TypeOK
  <1>3. HeldLive'
    BY <1>1 DEF SelectWinner, Sound, TypeOK, HeldLive
  <1> QED
    BY <1>2, <1>3 DEF SelectWinner, Sound, CompletedLive, AbsentUnused

LEMMA SelectWritesKeeps ==
    ASSUME Sound, NEW o \in Operator, SelectWinnerWrites(o)
    PROVE  Sound'
  <1>1. operator[o] \in [test : Test, winner : Mailing] /\ operator[o] # None
    BY DEF SelectWinnerWrites, Sound, TypeOK
  <1>2. operator' = [operator EXCEPT ![o] = None] /\ UNCHANGED <<trace, sweeper, drive>>
    BY DEF SelectWinnerWrites
  <1>3. test[operator[o].test].live
    BY <1>1 DEF Sound, HeldLive
  <1>4. /\ mailing' \in [Mailing -> MailingRow] /\ test' \in [Test -> TestRow]
        /\ TestsGoOn /\ CompletedLive' /\ AbsentUnused'
    BY <1>1, <1>3, CrownKeeps DEF SelectWinnerWrites
  <1>5. TypeOK'
    BY <1>2, <1>4 DEF Sound, TypeOK
  <1>6. HeldLive'
    BY <1>2, <1>4 DEF Sound, TypeOK, HeldLive, TestsGoOn
  <1> QED
    BY <1>4, <1>5, <1>6 DEF Sound

\* One sweep's locals are replaced.
LEMMA SweeperMoves ==
    ASSUME Sound, NEW w \in Sweeper, NEW row \in SweeperRow,
           sweeper' = [sweeper EXCEPT ![w] = row],
           \A t \in row.due : test[t].live,
           row.pc = "promote" =>
                row.test \in Test /\ test[row.test].live /\ row.winner \in Mailing,
           mailing' \in [Mailing -> MailingRow], test' \in [Test -> TestRow],
           TestsGoOn, CompletedLive', AbsentUnused', trace' \subseteq TraceRow,
           drive' \in [Sweeper -> DriveRow], UNCHANGED operator
    PROVE  Sound'
  <1>1. TypeOK'
    BY DEF Sound, TypeOK, SweeperRow, DriveRow
  <1>2. ASSUME NEW v \in Sweeper
        PROVE  /\ \A t \in sweeper'[v].due : test'[t].live
               /\ sweeper'[v].pc = "promote" =>
                    /\ sweeper'[v].test \in Test /\ test'[sweeper'[v].test].live
                    /\ sweeper'[v].winner \in Mailing
    <2>1. CASE v = w
      <3>1. sweeper'[v] = row
        BY <2>1 DEF Sound, TypeOK
      <3> QED
        BY <3>1 DEF SweeperRow, TestsGoOn
    <2>2. CASE v # w
      <3>1. sweeper'[v] = sweeper[v] /\ sweeper[v].due \subseteq Test
        BY <2>2 DEF Sound, TypeOK
      <3> QED
        BY <3>1 DEF Sound, HeldLive, TestsGoOn
    <2> QED
      BY <2>1, <2>2
  <1>3. \A o \in Operator : operator'[o] # None => test'[operator'[o].test].live
    BY DEF Sound, TypeOK, HeldLive, TestsGoOn
  <1>4. HeldLive'
    BY <1>2, <1>3 DEF HeldLive
  <1> QED
    BY <1>1, <1>4 DEF Sound

LEMMA EngineKeeps ==
    ASSUME Sound, NEW w \in Sweeper, Engine(w)
    PROVE  Sound'
  <1> DEFINE row == [Idle EXCEPT !.pc = "drive"]
  <1>1. row \in SweeperRow /\ row.due = {} /\ row.pc = "drive"
    BY DEF Idle, SweeperRow
  <1>2. /\ mailing' \in [Mailing -> MailingRow] /\ test' \in [Test -> TestRow]
        /\ drive' \in [Sweeper -> DriveRow] /\ trace' \subseteq TraceRow
        /\ TestsGoOn /\ CompletedLive' /\ UNCHANGED operator
    BY EngineRows DEF Sound, TypeOK, TestsGoOn, CompletedLive
  <1>3. AbsentUnused'
    BY EngineRows DEF Sound, AbsentUnused, Driven
  <1>4. CASE sweeper' = sweeper
    <2>1. TypeOK' /\ HeldLive'
      BY <1>2, <1>4, EngineRows DEF Sound, TypeOK, HeldLive, SweeperRow, DriveRow
    <2> QED
      BY <1>2, <1>3, <2>1 DEF Sound
  <1>5. CASE sweeper' = [sweeper EXCEPT ![w] = row]
    <2> HIDE DEF row
    <2> QED
      BY <1>1, <1>2, <1>3, <1>5, SweeperMoves
  <1> QED
    BY <1>4, <1>5, EngineRows

LEMMA SweepKeeps ==
    ASSUME Sound, NEW w \in Sweeper, Sweep(w)
    PROVE  Sound'
  <1>1. /\ sweeper[w] \in SweeperRow /\ \A t \in sweeper[w].due : test[t].live
        /\ sweeper[w].due \subseteq Test
    BY DEF Sound, TypeOK, SweeperRow, HeldLive
  <1>2. Idle \in SweeperRow /\ Idle.due = {} /\ Idle.pc = "idle"
    BY DEF Idle, SweeperRow
  <1>3. ASSUME UNCHANGED <<mailing, test, trace, drive>>
        PROVE  /\ mailing' \in [Mailing -> MailingRow] /\ test' \in [Test -> TestRow]
               /\ TestsGoOn /\ CompletedLive' /\ AbsentUnused'
               /\ trace' \subseteq TraceRow /\ drive' \in [Sweeper -> DriveRow]
    BY <1>3 DEF Sound, TypeOK, TestsGoOn, CompletedLive, AbsentUnused, DriveRow
  <1>4. CASE ReadDue(w)
    <2> DEFINE row == IF Due = {} THEN Idle ELSE [Idle EXCEPT !.pc = "rank", !.due = Due]
    <2>1. row \in SweeperRow /\ row.pc # "promote" /\ row.due = Due
      BY <1>2 DEF SweeperRow, Due, Idle
    <2>2. sweeper' = [sweeper EXCEPT ![w] = row] /\ UNCHANGED <<mailing, test, trace, drive, operator>>
      BY <1>4 DEF ReadDue
    <2> HIDE DEF row
    <2> QED
      BY <1>3, <2>1, <2>2, SweeperMoves DEF Due
  <1>5. ASSUME NEW t \in Test, Skip(w, t)
        PROVE  Sound'
    <2>1. Dropped(w, t) \in SweeperRow /\ Dropped(w, t).due \subseteq sweeper[w].due
          /\ Dropped(w, t).pc # "promote"
      BY <1>1, <1>2, <1>5 DEF Skip, Dropped, SweeperRow
    <2> QED
      BY <1>1, <1>3, <1>5, <2>1, SweeperMoves DEF Skip
  <1>6. ASSUME NEW t \in Test, Rank(w, t)
        PROVE  Sound'
    <2>1. PICK m \in Mailing :
            sweeper' = [sweeper EXCEPT ![w] =
                [pc |-> "promote", due |-> @.due \ {t}, test |-> t, winner |-> m]]
      BY <1>6 DEF Rank, RankedByAmount, Ranked, DoneVariants, Variants
    <2> DEFINE row == [pc |-> "promote", due |-> sweeper[w].due \ {t}, test |-> t, winner |-> m]
    <2>2. row \in SweeperRow /\ row.due \subseteq sweeper[w].due /\ t \in sweeper[w].due
      BY <1>1, <1>6 DEF SweeperRow, Rank
    <2>3. sweeper' = [sweeper EXCEPT ![w] = row]
      BY <2>1
    <2>4. /\ \A u \in row.due : test[u].live
          /\ row.test \in Test /\ test[row.test].live /\ row.winner \in Mailing
      BY <1>1, <2>2
    <2>5. UNCHANGED <<mailing, test, trace, drive, operator>>
      BY <1>6 DEF Rank
    <2> HIDE DEF row
    <2> QED
      BY <1>3, <2>2, <2>3, <2>4, <2>5, SweeperMoves
  <1>7. CASE Promote(w)
    <2> DEFINE row == IF sweeper[w].due = {} THEN Idle
                      ELSE [Idle EXCEPT !.pc = "rank", !.due = sweeper[w].due]
    <2>1. /\ sweeper[w].test \in Test /\ test[sweeper[w].test].live
          /\ sweeper[w].winner \in Mailing /\ Crown(sweeper[w].test, sweeper[w].winner)
      BY <1>7 DEF Promote, Sound, HeldLive
    <2>2. row \in SweeperRow /\ row.pc # "promote" /\ row.due \subseteq sweeper[w].due
      BY <1>1, <1>2 DEF SweeperRow, Idle
    <2>3. sweeper' = [sweeper EXCEPT ![w] = row] /\ UNCHANGED <<trace, drive, operator>>
      BY <1>7 DEF Promote
    <2>4. trace' \subseteq TraceRow /\ drive' \in [Sweeper -> DriveRow]
      BY <2>3 DEF Sound, TypeOK, DriveRow
    <2> HIDE DEF row
    <2> QED
      BY <1>1, <2>1, <2>2, <2>3, <2>4, CrownKeeps, SweeperMoves
  <1> QED
    BY <1>4, <1>5, <1>6, <1>7, EngineKeeps DEF Sweep, Engine

LEMMA SoundKept ==
    ASSUME Sound, [Next]_vars
    PROVE  Sound'
  <1>1. CASE UNCHANGED vars
    BY <1>1 DEF vars, Sound, TypeOK, HeldLive, CompletedLive, AbsentUnused
  <1> QED
    BY <1>1, CreateKeeps, BindKeeps, SelectKeeps, SelectWritesKeeps, StatesKeep,
       TimeKeeps, SweepKeeps
       DEF Next

\* Every reachable state is well typed, and whatever is held is a live test.
THEOREM AbTypeCorrect == Spec => []TypeOK
  <1>1. Sound => TypeOK
    BY DEF Sound
  <1>2. Sound /\ [Next]_vars => Sound'
    BY SoundKept
  <1> QED
    BY <1>1, <1>2, SoundAtFirst, PTL DEF Spec

-----------------------------------------------------------------------------
(* The winner. *)

\* What WinnerStands says of one step.
StandStep ==
    \A t \in Test : test[t].completed =>
        test'[t].completed /\ test'[t].winner = test[t].winner

LEMMA CrownStands ==
    ASSUME Sound, NEW t \in Test, NEW m \in Mailing, Crown(t, m)
    PROVE  StandStep
  <1>1. test[t] \in TestRow
    BY DEF Sound, TypeOK
  <1> QED
    BY <1>1, Crowned, StampedRow DEF StandStep

LEMMA WinnerKept ==
    ASSUME Sound, [Next]_vars
    PROVE  StandStep
  <1>1. ASSUME test' = test
        PROVE  StandStep
    BY <1>1 DEF StandStep
  <1>2. ASSUME NEW t \in Test, NEW c \in Campaign, NEW s \in Selections, CreateAbTest(t, c, s)
        PROVE  StandStep
    <2>1. \A u \in Test : test[u].completed => test'[u] = test[u]
      BY <1>2 DEF CreateAbTest, Sound, CompletedLive, TypeOK
    <2> QED
      BY <2>1 DEF StandStep
  <1>4. ASSUME NEW t \in Test, TimePasses(t)
        PROVE  StandStep
    BY <1>4 DEF TimePasses, StandStep, Sound, TypeOK, TestRow
  <1>5. ASSUME NEW o \in Operator, SelectWinnerWrites(o)
        PROVE  StandStep
    <2>1. operator[o] \in [test : Test, winner : Mailing]
      BY <1>5 DEF SelectWinnerWrites, Sound, TypeOK
    <2> QED
      BY <1>5, <2>1, CrownStands DEF SelectWinnerWrites
  <1>6. ASSUME NEW w \in Sweeper, Sweep(w)
        PROVE  StandStep
    <2>1. CASE Promote(w)
      BY <2>1, CrownStands DEF Promote, Sound, HeldLive
    <2> QED
      BY <1>6, <2>1, <1>1, EngineRows DEF Sweep, Engine, ReadDue, Skip, Rank
  <1>7. CASE UNCHANGED vars
    BY <1>7, <1>1 DEF vars
  <1> QED
    BY <1>1, <1>2, <1>4, <1>5, <1>6, <1>7
       DEF Next, BindVariant, SelectWinner, Launch, Cancel

\* The stamp of a winner is final, though a promotion never reads the test again.
THEOREM WinnerIsFinal == Spec => WinnerStands
  <1>1. Sound /\ [Next]_vars => Sound'
    BY SoundKept
  <1>2. Sound /\ [Next]_vars =>
            [\A t \in Test : test[t].completed =>
                test'[t].completed /\ test'[t].winner = test[t].winner]_vars
    BY WinnerKept DEF StandStep
  <1> QED
    BY <1>1, <1>2, SoundAtFirst, PTL DEF Spec, WinnerStands

-----------------------------------------------------------------------------
(* The copy. *)

\* Rows keep the variant they were copied from.
CopiesStay ==
    \A m \in Mailing : mailing[m].of # None => mailing'[m].of = mailing[m].of

LEMMA CrownCopies ==
    ASSUME Sound, CompletedHasCopy, NEW t \in Test, NEW m \in Mailing, Crown(t, m)
    PROVE  CompletedHasCopy' /\ CopiesStay
  <1>1. PICK new \in Mailing :
            /\ mailing[new].state = "absent"
            /\ mailing'[new].of = m
            /\ \A n \in Mailing : n # new => mailing'[n] = mailing[n]
    BY Crowned
  <1>2. mailing[new].of = None /\ m # None
    BY <1>1, IdsAssumption DEF Sound, AbsentUnused
  <1>3. CopiesStay
    BY <1>1, <1>2 DEF CopiesStay
  <1>4. ASSUME NEW u \in Test, test'[u].completed
        PROVE  \E n \in Mailing : mailing'[n].of # None /\ mailing'[n].of = test'[u].winner
    <2>1. test[u] \in TestRow
      BY DEF Sound, TypeOK
    <2>2. CASE test[u].completed
      <3>1. test'[u].winner = test[u].winner
        BY <2>1, <2>2, Crowned, StampedRow
      <3>2. PICK n \in Mailing : mailing[n].of # None /\ mailing[n].of = test[u].winner
        BY <2>2 DEF CompletedHasCopy
      <3> QED
        BY <3>1, <3>2, <1>3 DEF CopiesStay
    <2>3. CASE ~test[u].completed
      <3>1. u = t /\ test'[u].winner = m
        BY <1>4, <2>1, <2>3, Crowned, StampedRow
      <3> QED
        BY <3>1, <1>1, <1>2
    <2> QED
      BY <2>2, <2>3
  <1> QED
    BY <1>3, <1>4 DEF CompletedHasCopy

LEMMA CopyKept ==
    ASSUME Sound, CompletedHasCopy, [Next]_vars
    PROVE  CompletedHasCopy'
  <1>1. ASSUME CopiesStay,
               \A t \in Test : test'[t].completed =>
                    test[t].completed /\ test'[t].winner = test[t].winner
        PROVE  CompletedHasCopy'
    BY <1>1 DEF CompletedHasCopy, CopiesStay
  <1>2. ASSUME UNCHANGED <<mailing, test>>
        PROVE  CompletedHasCopy'
    BY <1>2 DEF CompletedHasCopy
  <1>3. ASSUME NEW t \in Test, NEW c \in Campaign, NEW s \in Selections, CreateAbTest(t, c, s)
        PROVE  CompletedHasCopy'
    <2>1. \A u \in Test : u # t => test'[u] = test[u]
      BY <1>3 DEF CreateAbTest, Sound, TypeOK
    <2>2. ~test'[t].completed
      BY <1>3 DEF CreateAbTest, Sound, TypeOK, NoTest
    <2> QED
      BY <1>1, <1>3, <2>1, <2>2 DEF CreateAbTest, CopiesStay
  <1>5. ASSUME NEW t \in Test, TimePasses(t)
        PROVE  CompletedHasCopy'
    BY <1>1, <1>5 DEF TimePasses, Sound, TypeOK, TestRow, CopiesStay
  <1>6. ASSUME NEW m \in Mailing, NEW t \in Test, NEW pc \in Shares, BindVariant(m, t, pc)
        PROVE  CompletedHasCopy'
    <2>1. CopiesStay
      BY <1>6, BoundRow DEF BindVariant, CopiesStay, Sound, TypeOK
    <2> QED
      BY <1>1, <1>6, <2>1 DEF BindVariant
  <1>7. ASSUME NEW m \in Mailing, Launch(m) \/ Cancel(m)
        PROVE  CompletedHasCopy'
    <2>1. /\ mailing \in [Mailing -> MailingRow]
          /\ \E state \in {"draft", "in_queue"} : mailing' = [mailing EXCEPT ![m].state = state]
      BY <1>7 DEF Launch, Cancel, Sound, TypeOK
    <2>2. CopiesStay
      BY <2>1 DEF CopiesStay, MailingRow
    <2> QED
      BY <1>1, <1>7, <2>2 DEF Launch, Cancel
  <1>8. ASSUME NEW o \in Operator, SelectWinnerWrites(o)
        PROVE  CompletedHasCopy'
    <2>1. operator[o] \in [test : Test, winner : Mailing]
      BY <1>8 DEF SelectWinnerWrites, Sound, TypeOK
    <2> QED
      BY <1>8, <2>1, CrownCopies DEF SelectWinnerWrites
  <1>9. ASSUME NEW w \in Sweeper, Sweep(w)
        PROVE  CompletedHasCopy'
    <2>1. CASE Promote(w)
      BY <2>1, CrownCopies DEF Promote, Sound, HeldLive
    <2>2. CASE Engine(w)
      <3>1. CopiesStay
        BY <2>2, EngineRows DEF CopiesStay, Driven
      <3> QED
        BY <1>1, <2>2, <3>1, EngineRows
    <2> QED
      BY <1>9, <2>1, <2>2, <1>2 DEF Sweep, Engine, ReadDue, Skip, Rank
  <1>10. CASE UNCHANGED vars
    BY <1>10, <1>2 DEF vars
  <1> QED
    BY <1>2, <1>3, <1>5, <1>6, <1>7, <1>8, <1>9, <1>10 DEF Next, SelectWinner

\* A completed test has its copy, however many sweeps and operators promote at once.
THEOREM WinnerHasCopy == Spec => []CompletedHasCopy
  <1>1. Init => CompletedHasCopy
    <2>1. ~NoTest.completed
      BY DEF NoTest
    <2>2. ASSUME Init
          PROVE  \A t \in Test : test[t] = NoTest
      BY <2>2 DEF Init
    <2> QED
      BY <2>1, <2>2 DEF CompletedHasCopy
  <1>2. Sound /\ CompletedHasCopy /\ [Next]_vars => (Sound /\ CompletedHasCopy)'
    BY SoundKept, CopyKept
  <1> QED
    BY <1>1, <1>2, SoundAtFirst, PTL DEF Spec

-----------------------------------------------------------------------------
(* One copy. *)

\* At first nothing is a copy.
LEMMA NothingCopied ==
    ASSUME Init
    PROVE  \A m \in Mailing : mailing[m].of = None
  <1>1. Blank.of = None /\ Blank \in MailingRow
    BY BlankTyped DEF Blank
  <1>2. ASSUME NEW row \in MailingRow, NEW s, NEW c
        PROVE  [row EXCEPT !.state = "draft", !.source = s, !.campaign = c].of = row.of
    BY DEF MailingRow
  <1>3. ASSUME NEW m \in Mailing
        PROVE  mailing[m].of = None
    <2>1. mailing[m] = IF m \in DOMAIN Drafts
                       THEN [Blank EXCEPT !.state = "draft", !.source = Drafts[m].source,
                                          !.campaign = Drafts[m].campaign]
                       ELSE Blank
      BY DEF Init
    <2>2. [Blank EXCEPT !.state = "draft", !.source = Drafts[m].source,
                        !.campaign = Drafts[m].campaign].of = None
      BY <1>1, <1>2
    <2> QED
      BY <1>1, <2>1, <2>2
  <1> QED
    BY <1>3

\* What is about to be promoted has not been.
Unpromoted ==
    /\ \A w \in Sweeper : \A t \in sweeper[w].due : ~test[t].completed
    /\ \A w \in Sweeper : sweeper[w].pc = "promote" =>
            ~test[sweeper[w].test].completed /\ sweeper[w].test \notin sweeper[w].due
    /\ \A o \in Operator : operator[o] # None => ~test[operator[o].test].completed

\* A copy stands for a completed test, and goes out under it.
CopiesSettled ==
    \A m \in Mailing : mailing[m].of # None =>
        mailing[m].state # "draft" /\ mailing[m].test \in Test /\ test[mailing[m].test].completed

(* The strengthening of PromotedOnce, beside Sound. *)
OnePromotion == Unpromoted /\ CopiesSettled /\ PromotedOnce

\* A step that completes no test and makes no copy.
NoPromotion ==
    /\ \A t \in Test : test'[t].completed = test[t].completed
    /\ \A m \in Mailing :
        /\ mailing'[m].of = mailing[m].of
        /\ mailing[m].of # None /\ mailing[m].state # "draft" =>
                mailing'[m].test = mailing[m].test /\ mailing'[m].state # "draft"

LEMMA NoPromotionSettles ==
    ASSUME CopiesSettled, PromotedOnce, NoPromotion
    PROVE  CopiesSettled' /\ PromotedOnce'
  BY DEF CopiesSettled, PromotedOnce, NoPromotion

\* A promotion of a test that was not completed: no copy stood for it.
LEMMA CrownOnce ==
    ASSUME Sound, CopiesSettled, PromotedOnce, NEW t \in Test, NEW m \in Mailing, Crown(t, m),
           ~test[t].completed
    PROVE  CopiesSettled' /\ PromotedOnce'
  <1>1. PICK new \in Mailing :
            /\ mailing[new].state = "absent"
            /\ mailing'[new].state = "in_queue" /\ mailing'[new].of = m
            /\ mailing'[new].test = t
            /\ \A n \in Mailing : n # new => mailing'[n] = mailing[n]
    BY Crowned
  <1>2. \A n \in Mailing : mailing[n].of # None => mailing[n].test \in Test \ {t}
    BY DEF CopiesSettled
  <1>3. test'[t].completed
    BY Crowned, StampedRow DEF Sound, TypeOK
  <1>4. \A u \in Test : test[u].completed => test'[u].completed
    BY <1>3, Crowned
  <1>5. CopiesSettled'
    BY <1>1, <1>3, <1>4 DEF CopiesSettled
  <1>6. PromotedOnce'
    BY <1>1, <1>2 DEF PromotedOnce
  <1> QED
    BY <1>5, <1>6

\* Only promotions complete tests and make copies.  A copy is never a draft again: no
\* operator can take it back and bind it to another test.
LEMMA OthersPromoteNothing ==
    ASSUME Sound, Cancellable = {}, [Next]_vars,
           \A w \in Sweeper : ~Promote(w), \A o \in Operator : ~SelectWinnerWrites(o)
    PROVE  NoPromotion
  <1>0. /\ mailing \in [Mailing -> MailingRow] /\ test \in [Test -> TestRow]
    BY DEF Sound, TypeOK
  <1>1. ASSUME UNCHANGED <<mailing, test>>
        PROVE  NoPromotion
    BY <1>1 DEF NoPromotion
  <1>2. ASSUME NEW t \in Test, NEW c \in Campaign, NEW s \in Selections, CreateAbTest(t, c, s)
        PROVE  NoPromotion
    <2>1. \A u \in Test : u # t => test'[u] = test[u]
      BY <1>0, <1>2 DEF CreateAbTest
    <2>2. test'[t].completed = FALSE
      BY <1>0, <1>2 DEF CreateAbTest, NoTest
    <2>3. test[t].completed = FALSE
      BY <1>0, <1>2 DEF CreateAbTest, Sound, CompletedLive, TestRow
    <2> QED
      BY <1>2, <2>1, <2>2, <2>3 DEF CreateAbTest, NoPromotion
  <1>4. ASSUME NEW t \in Test, TimePasses(t)
        PROVE  NoPromotion
    BY <1>0, <1>4 DEF TimePasses, TestRow, NoPromotion
  <1>5. ASSUME NEW m \in Mailing, NEW t \in Test, NEW pc \in Shares, BindVariant(m, t, pc)
        PROVE  NoPromotion
    BY <1>0, <1>5, BoundRow DEF BindVariant, NoPromotion, Sound
  <1>6. ASSUME NEW m \in Mailing, Launch(m)
        PROVE  NoPromotion
    BY <1>0, <1>6 DEF Launch, MailingRow, NoPromotion
  <1>7. ASSUME NEW w \in Sweeper, Engine(w)
        PROVE  NoPromotion
    <2>1. UNCHANGED test /\ \A m \in Mailing : Driven(w, m)
      BY <1>7, EngineRows
    <2> QED
      BY <2>1 DEF NoPromotion, Driven
  <1>8. ASSUME NEW w \in Sweeper, Sweep(w)
        PROVE  NoPromotion
    BY <1>1, <1>7, <1>8 DEF Sweep, Engine, ReadDue, Skip, Rank
  <1> QED
    BY <1>1, <1>2, <1>4, <1>5, <1>6, <1>8 DEF Next, SelectWinner, Cancel, vars

\* While nothing is completed, a sweep or an operator only takes up what is not.
LEMMA UnpromotedWithout ==
    ASSUME Sound, Unpromoted, [Next]_vars, NoPromotion,
           \A w \in Sweeper : ~Promote(w), \A o \in Operator : ~SelectWinnerWrites(o)
    PROVE  Unpromoted'
  <1>0. /\ sweeper \in [Sweeper -> SweeperRow]
        /\ operator \in [Operator -> [test : Test, winner : Mailing] \cup {None}]
        /\ \A t \in Test : test'[t].completed = test[t].completed
    BY DEF Sound, TypeOK, SweeperRow, NoPromotion
  <1>1. CASE UNCHANGED <<sweeper, operator>>
    <2>1. /\ \A w \in Sweeper : sweeper[w].due \subseteq Test
          /\ \A w \in Sweeper : sweeper[w].pc = "promote" => sweeper[w].test \in Test
          /\ \A o \in Operator : operator[o] # None => operator[o].test \in Test
      BY <1>0 DEF SweeperRow, Sound, HeldLive
    <2> QED
      BY <1>0, <1>1, <2>1 DEF Unpromoted
  <1>2. ASSUME NEW o \in Operator, NEW t \in Test, NEW m \in Mailing, SelectWinner(o, t, m)
        PROVE  Unpromoted'
    BY <1>0, <1>2 DEF SelectWinner, Unpromoted
  <1>3. ASSUME NEW w \in Sweeper, Sweep(w)
        PROVE  Unpromoted'
    <2>1. UNCHANGED <<test, operator>> /\ \A v \in Sweeper : v # w => sweeper'[v] = sweeper[v]
      BY <1>0, <1>3, EngineRows DEF Sweep, Engine, ReadDue, Skip, Rank
    <2>2. ASSUME \A t \in sweeper'[w].due : ~test[t].completed,
                 sweeper'[w].pc = "promote" => ~test[sweeper'[w].test].completed
                                               /\ sweeper'[w].test \notin sweeper'[w].due
          PROVE  Unpromoted'
      BY <2>1, <2>2 DEF Unpromoted
    <2>3. CASE ReadDue(w)
      <3>1. sweeper'[w] = IF Due = {} THEN Idle ELSE [Idle EXCEPT !.pc = "rank", !.due = Due]
        BY <1>0, <2>3 DEF ReadDue
      <3>2. sweeper'[w].due = Due /\ sweeper'[w].pc # "promote"
        BY <3>1 DEF Idle
      <3> QED
        BY <2>2, <3>2 DEF Due
    <2>4. ASSUME NEW t \in Test, Skip(w, t)
          PROVE  Unpromoted'
      <3>1. sweeper'[w] = Dropped(w, t) /\ sweeper[w].pc = "rank"
        BY <1>0, <2>4 DEF Skip
      <3>2. sweeper'[w].due \subseteq sweeper[w].due /\ sweeper'[w].pc # "promote"
        BY <1>0, <3>1 DEF Dropped, Idle, SweeperRow
      <3> QED
        BY <2>2, <3>2 DEF Unpromoted
    <2>5. ASSUME NEW t \in Test, Rank(w, t)
          PROVE  Unpromoted'
      <3>1. PICK m : sweeper' = [sweeper EXCEPT ![w] =
                        [pc |-> "promote", due |-> @.due \ {t}, test |-> t, winner |-> m]]
        BY <2>5 DEF Rank
      <3>2. sweeper'[w].due = sweeper[w].due \ {t} /\ sweeper'[w].test = t
        BY <1>0, <3>1
      <3>3. t \in sweeper[w].due
        BY <2>5 DEF Rank
      <3> QED
        BY <2>2, <3>2, <3>3 DEF Unpromoted
    <2>6. CASE Engine(w)
      <3>1. sweeper'[w] = sweeper[w] \/ sweeper'[w] = [Idle EXCEPT !.pc = "drive"]
        BY <1>0, <2>6, EngineRows
      <3>2. CASE sweeper'[w] = sweeper[w]
        BY <2>2, <3>2 DEF Unpromoted
      <3>3. CASE sweeper'[w] = [Idle EXCEPT !.pc = "drive"]
        BY <2>2, <3>3 DEF Idle
      <3> QED
        BY <3>1, <3>2, <3>3
    <2> QED
      BY <1>3, <2>3, <2>4, <2>5, <2>6 DEF Sweep, Engine
  <1> QED
    BY <1>1, <1>2, <1>3
       DEF Next, CreateAbTest, BindVariant, Launch, Cancel, TimePasses, vars

\* A promotion completes its own test, which nobody else holds.
LEMMA PromoteOnce ==
    ASSUME Sound, OnePromotion, PromotersApart, NEW w \in Sweeper, Promote(w)
    PROVE  OnePromotion'
  <1> DEFINE t == sweeper[w].test
  <1>0. /\ sweeper \in [Sweeper -> SweeperRow]
        /\ operator \in [Operator -> [test : Test, winner : Mailing] \cup {None}]
    BY DEF Sound, TypeOK, SweeperRow
  <1>1. /\ t \in Test /\ sweeper[w].winner \in Mailing /\ Crown(t, sweeper[w].winner)
        /\ ~test[t].completed /\ t \notin sweeper[w].due
    BY DEF Promote, Sound, HeldLive, OnePromotion, Unpromoted
  <1>2. CopiesSettled' /\ PromotedOnce'
    BY <1>1, CrownOnce DEF OnePromotion
  <1>3. \A u \in Test : u # t => test'[u] = test[u]
    BY <1>1, Crowned
  <1>4. /\ sweeper'[w].due = sweeper[w].due \/ sweeper'[w].due = {}
        /\ sweeper'[w].pc # "promote"
    <2>1. sweeper'[w] = IF sweeper[w].due = {} THEN Idle
                        ELSE [Idle EXCEPT !.pc = "rank", !.due = sweeper[w].due]
      BY <1>0 DEF Promote
    <2> QED
      BY <2>1 DEF Idle
  <1>5. t \in Promoting(w)
    BY <1>1, IdsAssumption DEF Promoting
  <1>6. ASSUME NEW v \in Sweeper, v # w
        PROVE  /\ sweeper'[v] = sweeper[v] /\ t \notin sweeper[v].due
               /\ sweeper[v].pc = "promote" => sweeper[v].test # t
    <2>1. t \notin Promoting(v)
      BY <1>5, <1>6 DEF PromotersApart
    <2> QED
      BY <1>0, <1>1, <1>6, <2>1, IdsAssumption DEF Promote, Promoting
  <1>7. \A o \in Operator : operator[o] # None => operator[o].test # t
    BY <1>5 DEF PromotersApart
  <1>8. /\ operator' = operator
        /\ \A v \in Sweeper : sweeper[v].due \subseteq Test
        /\ \A v \in Sweeper : sweeper[v].pc = "promote" => sweeper[v].test \in Test
        /\ \A o \in Operator : operator[o] # None => operator[o].test \in Test
    BY <1>0 DEF Promote, SweeperRow, Sound, HeldLive
  <1> HIDE DEF t
  <1>9. \A v \in Sweeper : \A u \in sweeper'[v].due : ~test'[u].completed
    BY <1>1, <1>3, <1>4, <1>6, <1>8 DEF OnePromotion, Unpromoted, t
  <1>10. \A v \in Sweeper : sweeper'[v].pc = "promote" =>
            ~test'[sweeper'[v].test].completed /\ sweeper'[v].test \notin sweeper'[v].due
    BY <1>3, <1>4, <1>6, <1>8 DEF OnePromotion, Unpromoted
  <1>11. \A o \in Operator : operator'[o] # None => ~test'[operator'[o].test].completed
    BY <1>3, <1>7, <1>8 DEF OnePromotion, Unpromoted
  <1> QED
    BY <1>2, <1>9, <1>10, <1>11 DEF OnePromotion, Unpromoted

LEMMA SelectOnce ==
    ASSUME Sound, OnePromotion, PromotersApart, NEW o \in Operator, SelectWinnerWrites(o)
    PROVE  OnePromotion'
  <1> DEFINE t == operator[o].test
  <1>0. /\ sweeper \in [Sweeper -> SweeperRow]
        /\ operator \in [Operator -> [test : Test, winner : Mailing] \cup {None}]
    BY DEF Sound, TypeOK, SweeperRow
  <1>1. /\ operator[o] # None /\ t \in Test /\ operator[o].winner \in Mailing
        /\ Crown(t, operator[o].winner) /\ ~test[t].completed
    BY <1>0 DEF SelectWinnerWrites, OnePromotion, Unpromoted
  <1>2. CopiesSettled' /\ PromotedOnce'
    BY <1>1, CrownOnce DEF OnePromotion
  <1>3. \A u \in Test : u # t => test'[u] = test[u]
    BY <1>1, Crowned
  <1>4. /\ sweeper' = sweeper /\ operator'[o] = None
        /\ \A p \in Operator : p # o => operator'[p] = operator[p]
    BY <1>0 DEF SelectWinnerWrites
  <1>5. \A v \in Sweeper : /\ t \notin sweeper[v].due
                           /\ sweeper[v].pc = "promote" => sweeper[v].test # t
    BY <1>1, IdsAssumption DEF PromotersApart, Promoting
  <1>6. \A p \in Operator : p # o /\ operator[p] # None => operator[p].test # t
    BY <1>1 DEF PromotersApart
  <1>7. /\ \A v \in Sweeper : sweeper[v].due \subseteq Test
        /\ \A v \in Sweeper : sweeper[v].pc = "promote" => sweeper[v].test \in Test
        /\ \A p \in Operator : operator[p] # None => operator[p].test \in Test
    BY <1>0 DEF SweeperRow, Sound, HeldLive
  <1> HIDE DEF t
  <1>8. Unpromoted'
    BY <1>3, <1>4, <1>5, <1>6, <1>7 DEF OnePromotion, Unpromoted
  <1> QED
    BY <1>2, <1>8 DEF OnePromotion

LEMMA OnePromotionKept ==
    ASSUME Sound, OnePromotion, PromotersApart, Cancellable = {}, [Next]_vars
    PROVE  OnePromotion'
  <1>1. CASE /\ \A w \in Sweeper : ~Promote(w)
             /\ \A o \in Operator : ~SelectWinnerWrites(o)
    BY <1>1, OthersPromoteNothing, NoPromotionSettles, UnpromotedWithout DEF OnePromotion
  <1> QED
    BY <1>1, PromoteOnce, SelectOnce

\* As long as no two of the sweeps and operators are about to promote the same test, each
\* test is promoted once: one copy of one winner goes out.  It is their overlap, and nothing
\* else in the promotion, that sends a second one.  Without cancels, because a copy taken
\* back to draft can be bound to another test.
THEOREM PromotedOnceApart ==
    ASSUME Cancellable = {}
    PROVE  Spec /\ []PromotersApart => []PromotedOnce
  <1>1. Init => OnePromotion
    <2> SUFFICES ASSUME Init PROVE OnePromotion
      OBVIOUS
    <2>1. \A m \in Mailing : mailing[m].of = None
      BY NothingCopied
    <2>2. \A w \in Sweeper : sweeper[w].due = {} /\ sweeper[w].pc = "idle"
      BY DEF Init, Idle
    <2>3. \A o \in Operator : operator[o] = None
      BY DEF Init
    <2> QED
      BY <2>1, <2>2, <2>3 DEF OnePromotion, Unpromoted, CopiesSettled, PromotedOnce
  <1>2. Sound /\ OnePromotion /\ PromotersApart /\ [Next]_vars => (Sound /\ OnePromotion)'
    BY SoundKept, OnePromotionKept
  <1>3. OnePromotion => PromotedOnce
    BY DEF OnePromotion
  <1> QED
    BY <1>1, <1>2, <1>3, SoundAtFirst, PTL DEF Spec

-----------------------------------------------------------------------------
(* Who is sent what. *)

\* Only drives send, and only a sweep's own steps change what it drives.
LEMMA OnlyDrivesSend ==
    ASSUME [Next]_vars
    PROVE  UNCHANGED <<trace, drive>> \/ \E w \in Sweeper : Engine(w)
  <1>1. ASSUME NEW w \in Sweeper, Sweep(w)
        PROVE  UNCHANGED <<trace, drive>> \/ Engine(w)
    BY <1>1 DEF Sweep, Engine, ReadDue, Skip, Rank, Promote
  <1>2. CASE UNCHANGED vars
    BY <1>2 DEF vars
  <1> QED
    BY <1>1, <1>2
       DEF Next, CreateAbTest, BindVariant, SelectWinner, SelectWinnerWrites, Launch, Cancel,
           TimePasses

\* A drive under test with a campaign.
Sampling(c) == c # None /\ c.test # None /\ c.campaign # None

\* Whom a drive under test is still to send to has had nothing of its campaign.
WorkUnseen ==
    \A w \in Sweeper : Sampling(drive[w].job) =>
        \A x \in trace : x.tested /\ x.campaign = drive[w].job.campaign =>
            x.email \notin drive[w].work

(* The strengthening of OneSendPerCampaign, beside Sound. *)
OneSend == WorkUnseen /\ OneSendPerCampaign

LEMMA ProbeSendsUnseen ==
    ASSUME Sound, OneSend, NEW w \in Sweeper, NEW c \in drive[w].claims, Probe(w, c)
    PROVE  OneSend'
  <1>1. trace' = trace
    BY DEF Probe
  <1>2. ASSUME NEW v \in Sweeper, Sampling(drive'[v].job), NEW x \in trace, x.tested,
               x.campaign = drive'[v].job.campaign
        PROVE  x.email \notin drive'[v].work
    <2>1. CASE v = w
      <3>1. drive'[w].job = c /\ drive'[w].work \cap Seen(c) = {}
        BY ProbeRow
      <3>2. Probed(c) = c.campaign /\ Probed(c) # None
        BY <1>2, <2>1, <3>1 DEF Sampling, Probed
      <3>3. x.email \in Seen(c)
        BY <1>2, <2>1, <3>1, <3>2 DEF Seen
      <3> QED
        BY <2>1, <3>1, <3>3
    <2>2. CASE v # w
      BY <1>2, <2>2, ProbeRow DEF OneSend, WorkUnseen
    <2> QED
      BY <2>1, <2>2
  <1>3. WorkUnseen'
    BY <1>1, <1>2 DEF WorkUnseen, Sampling
  <1> QED
    BY <1>1, <1>3 DEF OneSend, OneSendPerCampaign

LEMMA MintSendsUnseen ==
    ASSUME Sound, OneSend, DrivesApart, NEW w \in Sweeper, MintBatch(w)
    PROVE  OneSend'
  <1> DEFINE c == drive[w].job
  <1>1. PICK batch \in SUBSET drive[w].work :
            /\ drive'[w].work = drive[w].work \ batch
            /\ trace' = trace \cup {TraceOf(c, e) : e \in batch \ Fenced(c.id)}
    BY MintRow
  <1>2. /\ c \in Claimed /\ c # None /\ drive'[w].job = c
        /\ \A v \in Sweeper : v # w => drive'[v] = drive[v]
    BY MintRow DEF MintBatch
  <1> DEFINE Fresh == {TraceOf(c, e) : e \in batch \ Fenced(c.id)}
  <1>3. ASSUME NEW x \in Fresh
        PROVE  /\ x.email \in batch /\ x.campaign = c.campaign
               /\ x.tested => c.test # None
               /\ x = TraceOf(c, x.email)
    <2>1. PICK e \in batch : x = TraceOf(c, e)
      OBVIOUS
    <2>2. x.email = e /\ x.campaign = c.campaign
      BY <2>1 DEF TraceOf
    <2>3. x.tested = (c.test # None)
      BY <2>1 DEF TraceOf
    <2> QED
      BY <2>1, <2>2, <2>3
  <1>4. trace' = trace \cup Fresh
    BY <1>1
  <1> HIDE DEF Fresh
  <1>5. ASSUME NEW v \in Sweeper, Sampling(drive'[v].job), NEW x \in trace', x.tested,
               x.campaign = drive'[v].job.campaign
        PROVE  x.email \notin drive'[v].work
    <2>1. CASE v = w
      <3>1. Sampling(c) /\ drive'[w].work = drive[w].work \ batch
        BY <1>1, <1>2, <1>5, <2>1
      <3>2. CASE x \in trace
        BY <1>2, <1>5, <2>1, <3>1, <3>2 DEF OneSend, WorkUnseen
      <3>3. CASE x \in Fresh
        BY <1>3, <2>1, <3>1, <3>3
      <3> QED
        BY <1>4, <3>2, <3>3
    <2>2. CASE v # w
      <3>1. drive'[v] = drive[v]
        BY <1>2, <2>2
      <3>2. CASE x \in trace
        BY <1>5, <3>1, <3>2 DEF OneSend, WorkUnseen
      <3>3. CASE x \in Fresh
        BY <1>2, <1>3, <1>5, <2>2, <3>1, <3>3 DEF DrivesApart, Sampling
      <3> QED
        BY <1>4, <3>2, <3>3
    <2> QED
      BY <2>1, <2>2
  <1>6. WorkUnseen'
    BY <1>5 DEF WorkUnseen, Sampling
  <1>7. ASSUME NEW x \in Fresh, NEW y \in trace, x.tested, y.tested, x.campaign # None,
               x.campaign = y.campaign
        PROVE  x.email # y.email
    <2>1. Sampling(c) /\ x.email \in drive[w].work /\ y.campaign = c.campaign
      BY <1>2, <1>3, <1>7 DEF Sampling
    <2> QED
      BY <1>7, <2>1 DEF OneSend, WorkUnseen
  <1>8. ASSUME NEW x \in Fresh, NEW y \in Fresh, x.email = y.email
        PROVE  x = y
    BY <1>3, <1>8
  <1>9. OneSendPerCampaign'
    BY <1>4, <1>7, <1>8 DEF OneSend, OneSendPerCampaign
  <1> QED
    BY <1>6, <1>9 DEF OneSend

LEMMA OneSendKept ==
    ASSUME Sound, OneSend, DrivesApart, [Next]_vars
    PROVE  OneSend'
  <1>1. CASE UNCHANGED <<trace, drive>>
    BY <1>1 DEF OneSend, WorkUnseen, Sampling, OneSendPerCampaign
  <1>2. ASSUME NEW w \in Sweeper, drive'[w].job = None, trace' = trace,
               \A v \in Sweeper : v # w => drive'[v] = drive[v]
        PROVE  OneSend'
    BY <1>2 DEF OneSend, WorkUnseen, Sampling, OneSendPerCampaign
  <1>3. ASSUME NEW w \in Sweeper, Engine(w)
        PROVE  OneSend'
    <2>1. CASE Claim(w)
      BY <1>2, <2>1, ClaimRows DEF Claim
    <2>2. CASE Finish(w)
      BY <1>2, <2>2, FinishRow DEF Finish
    <2> QED
      BY <1>3, <2>1, <2>2, ProbeSendsUnseen, MintSendsUnseen DEF Engine
  <1> QED
    BY <1>1, <1>3, OnlyDrivesSend

LEMMA NothingSent == Init => OneSend
  <1> SUFFICES ASSUME Init PROVE OneSend
    OBVIOUS
  <1>1. \A w \in Sweeper : drive[w].job = None
    BY DEF Init, Undriven
  <1> QED
    BY <1>1 DEF Init, OneSend, WorkUnseen, Sampling, OneSendPerCampaign

\* As long as no two sweeps drive mailings of one campaign under test at once, an address
\* gets one mailing of it, however many copies are promoted, variants relaunched and
\* passes needed (seen_emails under the probed campaign).  It is the overlap of two drives,
\* and nothing else, that mails an address twice.
THEOREM OneSendEachApart == Spec /\ []DrivesApart => []OneSendPerCampaign
  <1>1. Sound /\ OneSend /\ DrivesApart /\ [Next]_vars => (Sound /\ OneSend)'
    BY SoundKept, OneSendKept
  <1>2. OneSend => OneSendPerCampaign
    BY DEF OneSend
  <1> QED
    BY <1>1, <1>2, SoundAtFirst, NothingSent, PTL DEF Spec

\* With a single sweep there is no such overlap: one send to an address, for every sampling,
\* budget and size of a batch.
THEOREM OneSendEach ==
    ASSUME \A v, w \in Sweeper : v = w
    PROVE  Spec => []OneSendPerCampaign
  <1>1. DrivesApart
    BY DEF DrivesApart
  <1>2. Sound /\ OneSend /\ [Next]_vars => (Sound /\ OneSend)'
    BY <1>1, SoundKept, OneSendKept
  <1>3. OneSend => OneSendPerCampaign
    BY DEF OneSend
  <1> QED
    BY <1>2, <1>3, SoundAtFirst, NothingSent, PTL DEF Spec

-----------------------------------------------------------------------------
(* The remaining audience. *)

\* A row never inserted stays out of reach, and one that was keeps what its claims have read
\* of it until it is bound, which turns its sampling on.
RowsGoOn ==
    \A m \in Mailing : mailing[m].state # "absent" =>
        /\ mailing'[m].state # "absent"
        /\ ~mailing'[m].enabled =>
            /\ mailing'[m].campaign = mailing[m].campaign /\ mailing'[m].test = mailing[m].test
            /\ mailing'[m].pc = mailing[m].pc /\ ~mailing[m].enabled

LEMMA RowsKept ==
    ASSUME Sound, [Next]_vars
    PROVE  RowsGoOn
  <1>0. mailing \in [Mailing -> MailingRow]
    BY DEF Sound, TypeOK
  <1>1. ASSUME mailing' = mailing
        PROVE  RowsGoOn
    BY <1>1 DEF RowsGoOn
  <1>2. ASSUME NEW m \in Mailing, NEW t \in Test, NEW pc \in Shares, BindVariant(m, t, pc)
        PROVE  RowsGoOn
    BY <1>0, <1>2, BoundRow DEF BindVariant, RowsGoOn, Sound
  <1>3. ASSUME NEW m \in Mailing, Launch(m) \/ Cancel(m)
        PROVE  RowsGoOn
    <2>1. \E state \in {"draft", "in_queue"} : mailing' = [mailing EXCEPT ![m].state = state]
      BY <1>3 DEF Launch, Cancel
    <2> QED
      BY <1>0, <2>1 DEF RowsGoOn, MailingRow
  <1>4. ASSUME NEW t \in Test, NEW m \in Mailing, Crown(t, m)
        PROVE  RowsGoOn
    BY <1>4, Crowned DEF RowsGoOn
  <1>5. ASSUME NEW o \in Operator, SelectWinnerWrites(o)
        PROVE  RowsGoOn
    <2>1. operator[o] \in [test : Test, winner : Mailing]
      BY <1>5 DEF SelectWinnerWrites, Sound, TypeOK
    <2> QED
      BY <1>4, <1>5, <2>1 DEF SelectWinnerWrites
  <1>6. ASSUME NEW w \in Sweeper, Engine(w)
        PROVE  RowsGoOn
    <2>1. \A m \in Mailing : Driven(w, m)
      BY <1>6, EngineRows
    <2> QED
      BY <2>1 DEF RowsGoOn, Driven
  <1>7. ASSUME NEW w \in Sweeper, Sweep(w)
        PROVE  RowsGoOn
    <2>1. CASE Promote(w)
      BY <1>4, <2>1 DEF Promote, Sound, HeldLive
    <2> QED
      BY <1>1, <1>6, <1>7, <2>1 DEF Sweep, Engine, ReadDue, Skip, Rank
  <1> QED
    BY <1>1, <1>2, <1>3, <1>5, <1>7
       DEF Next, CreateAbTest, SelectWinner, TimePasses, vars

\* What a sweep has read of a mailing still holds, as long as its sampling is off.
StillRead(c) ==
    /\ mailing[c.id].state # "absent"
    /\ ~mailing[c.id].enabled =>
        /\ ~c.enabled /\ c.campaign = mailing[c.id].campaign

Snapshots ==
    \A w \in Sweeper :
        /\ \A c \in drive[w].claims : StillRead(c)
        /\ drive[w].job # None => StillRead(drive[w].job)

LEMMA ReadKept ==
    ASSUME Sound, [Next]_vars, NEW c \in Claimed, StillRead(c)
    PROVE  StillRead(c)'
  <1>1. c.id \in Mailing
    BY DEF Claimed
  <1> QED
    BY <1>1, RowsKept DEF RowsGoOn, StillRead

LEMMA SnapshotsKept ==
    ASSUME Sound, Snapshots, [Next]_vars
    PROVE  Snapshots'
  <1>0. /\ \A w \in Sweeper : drive[w].claims \subseteq Claimed
        /\ \A w \in Sweeper : drive[w].job # None => drive[w].job \in Claimed
    BY DEF Sound, TypeOK, DriveRow
  <1>1. ASSUME NEW v \in Sweeper, drive'[v] = drive[v]
        PROVE  /\ \A c \in drive'[v].claims : StillRead(c)'
               /\ drive'[v].job # None => StillRead(drive[v].job)'
    BY <1>0, <1>1, ReadKept DEF Snapshots
  <1>2. CASE UNCHANGED <<trace, drive>>
    BY <1>1, <1>2 DEF Snapshots
  <1>3. ASSUME NEW w \in Sweeper, Engine(w)
        PROVE  Snapshots'
    <2>1. ASSUME \A v \in Sweeper : v # w => drive'[v] = drive[v],
                 \A c \in drive'[w].claims : StillRead(c)',
                 drive'[w].job # None => drive'[w].job \in Claimed /\ StillRead(drive'[w].job)
          PROVE  Snapshots'
      <3>1. drive'[w].job # None => mailing'[drive'[w].job.id].state # "absent"
                /\ (~mailing'[drive'[w].job.id].enabled =>
                        ~drive'[w].job.enabled
                        /\ drive'[w].job.campaign = mailing'[drive'[w].job.id].campaign)
        BY <2>1, ReadKept DEF StillRead
      <3>2. \A v \in Sweeper : v # w => drive'[v] = drive[v]
        BY <2>1
      <3> QED
        BY <1>1, <2>1, <3>1, <3>2 DEF Snapshots, StillRead
    <2>2. CASE Claim(w)
      <3>1. ASSUME NEW c \in drive'[w].claims
            PROVE  StillRead(c)'
        <4>1. PICK m \in Claimable : c = ClaimOf(m)
          BY <2>2, ClaimRows
        <4>2. m \in Mailing /\ mailing[m].state # "absent" /\ Driven(w, m)
          BY <2>2, ClaimRows DEF Claimable
        <4>3. c.id = m /\ c.enabled = mailing[m].enabled /\ c.campaign = mailing[m].campaign
          BY <4>1 DEF ClaimOf
        <4> QED
          BY <4>2, <4>3 DEF StillRead, Driven
      <3> QED
        BY <2>1, <2>2, <3>1, ClaimRows
    <2>3. ASSUME NEW c \in drive[w].claims, Probe(w, c)
          PROVE  Snapshots'
      <3>1. c \in Claimed /\ StillRead(c)
        BY ProbeRow, <2>3 DEF Snapshots
      <3> QED
        BY <1>0, <2>1, <2>3, <3>1, ProbeRow, ReadKept DEF Snapshots
    <2>4. CASE MintBatch(w)
      BY <1>0, <2>1, <2>4, MintRow, ReadKept DEF Snapshots, MintBatch
    <2>5. CASE Finish(w)
      BY <1>0, <2>1, <2>5, FinishRow, ReadKept DEF Snapshots
    <2> QED
      BY <1>3, <2>2, <2>3, <2>4, <2>5 DEF Engine
  <1> QED
    BY <1>2, <1>3, OnlyDrivesSend

\* A claimed mailing reaches an address: by itself, or by another one of its campaign.
Reached(c, e) == \E x \in trace : x.email = e /\ (x.mailing = c.id \/ x.campaign = c.campaign)

\* The last pass of a drive without sampling leaves nobody out.
LastPass(w) ==
    LET c == drive[w].job
    IN  c # None /\ ~c.enabled /\ ~drive[w].more =>
            \A e \in Email : e \in drive[w].work \/ Reached(c, e)

(* The strengthening of RemainderReached, beside Sound. *)
Reaching == Snapshots /\ (\A w \in Sweeper : LastPass(w)) /\ RemainderReached

LEMMA LastPassKept ==
    ASSUME Sound, \A w \in Sweeper : LastPass(w), [Next]_vars
    PROVE  \A w \in Sweeper : LastPass(w)'
  <1>1. ASSUME NEW v \in Sweeper, drive'[v] = drive[v], trace \subseteq trace'
        PROVE  LastPass(v)'
    BY <1>1 DEF LastPass, Reached
  <1>2. CASE UNCHANGED <<trace, drive>>
    BY <1>1, <1>2
  <1>3. ASSUME NEW w \in Sweeper, Engine(w), NEW v \in Sweeper
        PROVE  LastPass(v)'
    <2>1. trace \subseteq trace'
      BY <1>3, EngineRows
    <2>2. CASE Claim(w)
      <3>1. v # w => drive'[v] = drive[v]
        BY <2>2, ClaimRows
      <3>2. drive'[w].job = None
        BY <2>2, ClaimRows
      <3> QED
        BY <1>1, <2>1, <3>1, <3>2 DEF LastPass
    <2>3. ASSUME NEW c \in drive[w].claims, Probe(w, c)
          PROVE  LastPass(v)'
      <3>1. v # w => drive'[v] = drive[v]
        BY <2>3, ProbeRow
      <3>2. CASE v = w
        <4>1. /\ trace' = trace /\ drive'[w].job = c
              /\ ~drive'[w].more => drive'[w].work = Fragment(c) \ Seen(c)
          BY <2>3, ProbeRow DEF Probe
        <4>2. ASSUME NEW e \in Seen(c)
              PROVE  Reached(c, e)
          <5>1. PICK x \in trace : /\ x.email = e
                                   /\ x.mailing = c.id
                                      \/ (Probed(c) # None /\ x.campaign = Probed(c))
            BY DEF Seen
          <5>2. Probed(c) # None => Probed(c) = c.campaign
            BY DEF Probed
          <5> QED
            BY <5>1, <5>2 DEF Reached
        <4>3. ~c.enabled => Fragment(c) = Email
          BY DEF Fragment
        <4> QED
          BY <3>2, <4>1, <4>2, <4>3 DEF LastPass, Reached
      <3> QED
        BY <1>1, <2>1, <3>1, <3>2
    <2>4. CASE MintBatch(w)
      <3>1. v # w => drive'[v] = drive[v]
        BY <2>4, MintRow
      <3>2. CASE v = w
        <4>0. PICK c : c = drive[w].job
          OBVIOUS
        <4>1. PICK batch \in SUBSET drive[w].work :
                /\ drive'[w].work = drive[w].work \ batch
                /\ trace' = trace \cup {TraceOf(c, e) : e \in batch \ Fenced(c.id)}
          BY <2>4, <4>0, MintRow
        <4>2. drive'[w].job = c /\ drive'[w].more = drive[w].more
          BY <2>4, <4>0, MintRow
        <4>3. ASSUME NEW e \in batch
              PROVE  Reached(c, e)'
          <5>1. CASE e \in Fenced(c.id)
            BY <2>1, <5>1 DEF Fenced, Reached
          <5>2. CASE e \notin Fenced(c.id)
            <6>1. TraceOf(c, e) \in trace'
              BY <4>1, <5>2
            <6>2. TraceOf(c, e).email = e /\ TraceOf(c, e).mailing = c.id
              BY DEF TraceOf
            <6> QED
              BY <6>1, <6>2 DEF Reached
          <5> QED
            BY <5>1, <5>2
        <4>4. \A e : Reached(c, e) => Reached(c, e)'
          BY <2>1 DEF Reached
        <4>5. ASSUME c # None, ~c.enabled, ~drive[w].more, NEW e \in Email
              PROVE  e \in drive'[w].work \/ Reached(c, e)'
          <5>1. e \in drive[w].work \/ Reached(c, e)
            BY <4>0, <4>5 DEF LastPass
          <5> QED
            BY <4>1, <4>3, <4>4, <5>1
        <4> QED
          BY <3>2, <4>0, <4>2, <4>5 DEF LastPass, Reached
      <3> QED
        BY <1>1, <2>1, <3>1, <3>2
    <2>5. CASE Finish(w)
      <3>1. v # w => drive'[v] = drive[v]
        BY <2>5, FinishRow
      <3>2. drive'[w].job = None
        BY <2>5, FinishRow
      <3> QED
        BY <1>1, <2>1, <3>1, <3>2 DEF LastPass
    <2> QED
      BY <1>3, <2>2, <2>3, <2>4, <2>5 DEF Engine
  <1> QED
    BY <1>2, <1>3, OnlyDrivesSend

\* A mailing is done by the end of a last pass, and its row then stays as it is until it is
\* done no more.
LEMMA DoneByDrive ==
    ASSUME Sound, [Next]_vars, NEW m \in Mailing, mailing'[m].state = "done"
    PROVE  \/ mailing'[m] = mailing[m]
           \/ \E w \in Sweeper : Finish(w) /\ m = drive[w].job.id /\ ~drive[w].more
  <1>1. mailing \in [Mailing -> MailingRow] /\ mailing[m] \in MailingRow
    BY DEF Sound, TypeOK
  <1>2. ASSUME NEW n \in Mailing, NEW t \in Test, NEW pc \in Shares, BindVariant(n, t, pc)
        PROVE  mailing'[m] = mailing[m]
    <2>1. CASE n = m
      <3>1. mailing'[m] = Bound(mailing[m], t, pc)
        BY <1>1, <1>2, <2>1 DEF BindVariant
      <3>2. mailing[m].state = "done"
        BY <1>1, <3>1, BoundRow DEF Sound
      <3> QED
        BY <1>1, <3>1, <3>2, BoundRow DEF Sound
    <2>2. CASE n # m
      BY <1>1, <1>2, <2>2 DEF BindVariant
    <2> QED
      BY <2>1, <2>2
  <1>3. ASSUME NEW n \in Mailing, Launch(n) \/ Cancel(n)
        PROVE  mailing'[m] = mailing[m]
    <2>1. [mailing[m] EXCEPT !.state = "in_queue"].state # "done"
          /\ [mailing[m] EXCEPT !.state = "draft"].state # "done"
      BY <1>1 DEF MailingRow
    <2>2. mailing' \in {[mailing EXCEPT ![n] = [mailing[n] EXCEPT !.state = "in_queue"]],
                        [mailing EXCEPT ![n] = [mailing[n] EXCEPT !.state = "draft"]]}
      BY <1>3 DEF Launch, Cancel
    <2> QED
      BY <1>1, <2>1, <2>2
  <1>4. ASSUME NEW t \in Test, NEW n \in Mailing, Crown(t, n)
        PROVE  mailing'[m] = mailing[m]
    BY <1>4, Crowned
  <1>5. ASSUME NEW w \in Sweeper, Engine(w)
        PROVE  mailing'[m] = mailing[m] \/ (Finish(w) /\ m = drive[w].job.id /\ ~drive[w].more)
    <2>1. Driven(w, m)
      BY <1>5, EngineRows
    <2> QED
      BY <2>1 DEF Driven
  <1>6. ASSUME NEW w \in Sweeper, Sweep(w)
        PROVE  mailing'[m] = mailing[m] \/ (Finish(w) /\ m = drive[w].job.id /\ ~drive[w].more)
    <2>1. CASE Promote(w)
      BY <1>4, <2>1 DEF Promote, Sound, HeldLive
    <2> QED
      BY <1>5, <1>6, <2>1 DEF Sweep, Engine, ReadDue, Skip, Rank
  <1>7. ASSUME NEW o \in Operator, SelectWinnerWrites(o)
        PROVE  mailing'[m] = mailing[m]
    <2>1. operator[o] \in [test : Test, winner : Mailing]
      BY <1>7 DEF SelectWinnerWrites, Sound, TypeOK
    <2> QED
      BY <1>4, <1>7, <2>1 DEF SelectWinnerWrites
  <1> QED
    BY <1>2, <1>3, <1>6, <1>7 DEF Next, CreateAbTest, SelectWinner, TimePasses, vars

LEMMA ReachKept ==
    ASSUME Sound, Reaching, [Next]_vars
    PROVE  RemainderReached'
  <1> SUFFICES ASSUME NEW m \in Mailing, mailing'[m].of # None, mailing'[m].state = "done",
                      ~mailing'[m].enabled, NEW e \in Email
               PROVE  \E x \in trace' :
                        x.email = e /\ (x.mailing = m \/ x.campaign = mailing'[m].campaign)
    BY DEF RemainderReached
  <1>1. trace \subseteq trace'
    BY OnlyDrivesSend, EngineRows
  <1>2. CASE mailing'[m] = mailing[m]
    BY <1>1, <1>2 DEF Reaching, RemainderReached
  <1>3. ASSUME NEW w \in Sweeper, Finish(w), m = drive[w].job.id, ~drive[w].more
        PROVE  \E x \in trace' :
                  x.email = e /\ (x.mailing = m \/ x.campaign = mailing'[m].campaign)
    <2>1. drive[w].job # None /\ drive[w].work = {} /\ Driven(w, m)
      BY <1>3, FinishRow DEF Finish
    <2>2. StillRead(drive[w].job)
      BY <2>1 DEF Reaching, Snapshots
    <2>3. ~drive[w].job.enabled /\ drive[w].job.campaign = mailing'[m].campaign
      BY <1>3, <2>1, <2>2 DEF StillRead, Driven
    <2>4. Reached(drive[w].job, e)
      BY <1>3, <2>1, <2>3 DEF Reaching, LastPass
    <2> QED
      BY <1>1, <1>3, <2>3, <2>4 DEF Reached
  <1> QED
    BY <1>2, <1>3, DoneByDrive

\* The promoted copy reaches whoever the variants left out, for every sampling, however
\* often the promotion happened, however its sweeps overlap and however many passes it takes
\* (seen_emails, promote_winner).
THEOREM CopyReachesAll == Spec => []RemainderReached
  <1>1. Init => Reaching
    <2> SUFFICES ASSUME Init PROVE Reaching
      OBVIOUS
    <2>1. \A w \in Sweeper : drive[w].job = None /\ drive[w].claims = {}
      BY DEF Init, Undriven
    <2>2. \A m \in Mailing : mailing[m].of = None
      BY NothingCopied
    <2> QED
      BY <2>1, <2>2 DEF Reaching, Snapshots, LastPass, RemainderReached
  <1>2. Sound /\ Reaching /\ [Next]_vars => (Sound /\ Reaching)'
    <2> SUFFICES ASSUME Sound, Reaching, [Next]_vars
                 PROVE  (Sound /\ Reaching)'
      OBVIOUS
    <2>1. Sound' /\ Snapshots' /\ RemainderReached'
      BY SoundKept, SnapshotsKept, ReachKept DEF Reaching
    <2>2. \A w \in Sweeper : LastPass(w)'
      BY LastPassKept DEF Reaching
    <2> QED
      BY <2>1, <2>2 DEF Reaching
  <1>3. Reaching => RemainderReached
    BY DEF Reaching
  <1> QED
    BY <1>1, <1>2, <1>3, SoundAtFirst, PTL DEF Spec
===============================================================================
