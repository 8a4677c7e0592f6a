--------------------------- MODULE AudiencesProofs ---------------------------
(***************************************************************************)
(* Theorems about Audiences, for any number of contacts, lists, mailings   *)
(* and requests.                                                           *)
(***************************************************************************)
EXTENDS Audiences, TLAPS

-----------------------------------------------------------------------------
(* Subscription rows. *)

SubsTyped == sub \in [Contact \X Audience -> SubRow]

LEMMA OptedOutRow ==
    ASSUME NEW row \in SubRow, NEW reason \in {"picked", "default"}
    PROVE  /\ OptedOut(row, reason) \in SubRow
           /\ row.state = "out" => OptedOut(row, reason) = row
  BY DEF OptedOut, SubRow

LEMMA SubsStay ==
    ASSUME SubsTyped, [Next]_vars
    PROVE  /\ SubsTyped'
           /\ \A pair \in Contact \X Audience :
                sub[pair].state = "out" /\ sub'[pair].state = "out" =>
                    sub'[pair].reason = sub[pair].reason
  <1> DEFINE Kept == \A pair \in Contact \X Audience :
                sub[pair].state = "out" /\ sub'[pair].state = "out" =>
                    sub'[pair].reason = sub[pair].reason
  <1> SUFFICES SubsTyped' /\ Kept
    OBVIOUS
  <1>1. ASSUME sub' = sub
        PROVE  SubsTyped' /\ Kept
    BY <1>1 DEF SubsTyped
  <1>2. ASSUME NEW s \in Subscriber, NEW c \in Contact, NEW a \in Audience, Subscribe(s, c, a)
        PROVE  SubsTyped' /\ Kept
    <2>1. sub' = [sub EXCEPT ![<<c, a>>] = [state |-> "in", reason |-> "none"]]
      BY <1>2 DEF Subscribe
    <2> QED
      BY <2>1 DEF SubsTyped, SubRow
  <1>3. ASSUME NEW c \in Contact, NEW a \in Audience, OptOut(c, a)
        PROVE  SubsTyped' /\ Kept
    <2>1. sub' = [sub EXCEPT ![<<c, a>>] = OptedOut(@, "picked")]
      BY <1>3 DEF OptOut
    <2>2. \A pair \in Contact \X Audience :
            sub'[pair] = sub[pair] \/ sub'[pair] = OptedOut(sub[pair], "picked")
      BY <2>1 DEF SubsTyped
    <2>3. \A pair \in Contact \X Audience : sub[pair] \in SubRow
      BY DEF SubsTyped
    <2>4. Kept
      BY <2>2, <2>3, OptedOutRow
    <2>5. SubsTyped'
      BY <2>1, <2>3, OptedOutRow DEF SubsTyped
    <2> QED
      BY <2>4, <2>5
  <1>4. ASSUME NEW c \in Contact, NEW a \in Audience, Remove(c, a)
        PROVE  SubsTyped' /\ Kept
    <2>1. sub' = [sub EXCEPT ![<<c, a>>] = [state |-> "removed", reason |-> "none"]]
      BY <1>4 DEF Remove
    <2> QED
      BY <2>1 DEF SubsTyped, SubRow
  <1>5. ASSUME NEW r \in Reader, CommitStop(r)
        PROVE  SubsTyped' /\ Kept
    <2>1. \A pair \in Contact \X Audience : sub[pair] \in SubRow
      BY DEF SubsTyped
    <2>2. sub' = [pair \in Contact \X Audience |->
                    IF pair[2] = leg[r].list /\ pair[1] \in leg[r].flipped
                    THEN OptedOut(sub[pair], "default") ELSE sub[pair]]
      BY <1>5 DEF CommitStop
    <2>3. SubsTyped'
      BY <2>1, <2>2, OptedOutRow DEF SubsTyped
    <2>4. Kept
      BY <2>1, <2>2, OptedOutRow
    <2> QED
      BY <2>3, <2>4
  <1>6. CASE UNCHANGED vars
    BY <1>6, <1>1 DEF vars
  <1>7. CASE Lists
    BY <1>7, <1>1, <1>2, <1>3, <1>4
       DEF Lists, CreateAudience, SoftDelete, CheckPublic, LockAudience, ProbeInUse,
           ArchiveAudience, SetArchiver
  <1>8. ASSUME NEW r \in Reader, Leg(r)
        PROVE  SubsTyped' /\ Kept
    BY <1>8, <1>1, <1>5
       DEF Leg, Unsubscribe, ReadContacts, FlipContact, Answer, Abandon
  <1>9. ASSUME NEW o \in Operator, Writes(o)
        PROVE  SubsTyped' /\ Kept
    BY <1>9, <1>1
       DEF Writes, CreateMailing, LaunchTransition, PickupTransition, CompleteTransition,
           CompleteEmptyTransition, CancelTransition, UnparkTransition, RetryFailedTransition,
           ReadForRoute, UpdateState, CommitWrite, SetWrite
  <1> QED
    BY <1>6, <1>7, <1>8, <1>9 DEF Next

\* The first opt-out of a subscription is kept, for any number of legs in any order.
THEOREM FirstOptOutIsKept == Spec => FirstOptOutKept
  <1>1. Init => SubsTyped
    BY DEF Init, SubsTyped, NoSub, SubRow
  <1>2. SubsTyped /\ [Next]_vars => SubsTyped'
    BY SubsStay
  <1>3. SubsTyped /\ [Next]_vars =>
            [\A pair \in Contact \X Audience :
                sub[pair].state = "out" /\ sub'[pair].state = "out" =>
                    sub'[pair].reason = sub[pair].reason]_vars
    BY SubsStay
  <1> QED
    BY <1>1, <1>2, <1>3, PTL DEF Spec, FirstOptOutKept

-----------------------------------------------------------------------------
(* The archive guard. *)

\* The lists' rows keep archives and mailing writes apart.
Apart ==
    \A x \in Archiver, o \in Operator :
        write[o].pc = "open" /\ write[o].to \in InFlight =>
            archiver[x].list \notin Shared(write[o].mailing)

LocksTyped ==
    /\ audience \in [Audience -> ListState]
    /\ archiver \in [Archiver -> ArchiverRow]
    /\ write \in [Operator -> WriteRow]
    /\ \A o \in Operator : write[o].pc # "idle" => write[o].mailing \in Mailing

Guarded == LocksTyped /\ Apart

\* A domain whose lists are all in the spelling of the database is one the guard can read.
AsStored ==
    \A m \in Mailing : \A term \in Domain[m] : \A v \in term.values : v.spelled = "as_stored"

LEMMA GuardReadsAll ==
    ASSUME AsStored, NEW m \in Mailing, NEW a \in Audience, Names(m, a)
    PROVE  a \in Spelled(m, {"as_stored"}) /\ a \in Shared(m)
  BY DEF AsStored, Names, ListsOf, Spelled, Shared

LEMMA SharedAreLists ==
    ASSUME NEW m \in Mailing
    PROVE  None \notin Shared(m)
  BY ListsAssumption, DomainAssumption DEF Shared, Spelled, Term, Value

LEMMA GuardedAtFirst == Init => Guarded
  <1> SUFFICES ASSUME Init PROVE Guarded
    OBVIOUS
  <1>1. audience \in [Audience -> ListState]
    BY DEF Init, ListState
  <1>2. archiver \in [Archiver -> ArchiverRow]
    BY DEF Init, ArchiverRow, NoArchive
  <1>3. write \in [Operator -> WriteRow] /\ \A o \in Operator : write[o].pc = "idle"
    BY DEF Init, WriteRow, NoWrite
  <1> QED
    BY <1>1, <1>2, <1>3 DEF Guarded, LocksTyped, Apart

\* One archiver's row is replaced: by nothing, or by a list that no open write shares.
LEMMA ArchiverMoves ==
    ASSUME Guarded, NEW x \in Archiver, NEW row \in ArchiverRow,
           archiver' = [archiver EXCEPT ![x] = row], write' = write,
           audience' \in [Audience -> ListState],
           row.list = None \/ row.list = archiver[x].list \/ ~Sharing(row.list)
    PROVE  Guarded'
  <1>1. LocksTyped'
    BY DEF Guarded, LocksTyped
  <1>2. ASSUME NEW y \in Archiver, NEW o \in Operator,
               write[o].pc = "open", write[o].to \in InFlight
        PROVE  archiver'[y].list \notin Shared(write[o].mailing)
    <2>1. archiver[y].list \notin Shared(write[o].mailing)
      BY <1>2 DEF Guarded, Apart
    <2>2. write[o].mailing \in Mailing
      BY <1>2 DEF Guarded, LocksTyped
    <2>3. CASE y = x
      BY <2>1, <2>2, <2>3, <1>2, SharedAreLists DEF Guarded, LocksTyped, Sharing
    <2>4. CASE y # x
      BY <2>1, <2>4 DEF Guarded, LocksTyped
    <2> QED
      BY <2>3, <2>4
  <1>3. Apart'
    BY <1>2 DEF Apart, Shared, Spelled
  <1> QED
    BY <1>1, <1>3 DEF Guarded

\* One mailing write is replaced: by one that is not open, or that no archive keeps out.
LEMMA WriteMoves ==
    ASSUME Guarded, NEW o \in Operator, NEW row \in WriteRow,
           write' = [write EXCEPT ![o] = row], archiver' = archiver, audience' = audience,
           row.pc # "idle" => row.mailing \in Mailing,
           row.pc = "open" => MayShare(row.mailing, row.to)
    PROVE  Guarded'
  <1>1. LocksTyped'
    BY DEF Guarded, LocksTyped
  <1>2. ASSUME NEW x \in Archiver, NEW p \in Operator,
               write'[p].pc = "open", write'[p].to \in InFlight
        PROVE  archiver[x].list \notin Shared(write'[p].mailing)
    <2>1. CASE p = o
      BY <1>2, <2>1 DEF Guarded, LocksTyped, MayShare
    <2>2. CASE p # o
      BY <1>2, <2>2 DEF Guarded, LocksTyped, Apart
    <2> QED
      BY <2>1, <2>2
  <1>3. Apart'
    BY <1>2 DEF Apart, Shared, Spelled
  <1> QED
    BY <1>1, <1>3 DEF Guarded

LEMMA UntouchedGuard ==
    ASSUME Guarded, UNCHANGED <<audience, archiver, write>>
    PROVE  Guarded'
  BY DEF Guarded, LocksTyped, Apart, Shared, Spelled

LEMMA ArchiverKeepsGuard ==
    ASSUME Guarded, NEW x \in Archiver,
           (\E a \in Audience : LockAudience(x, a)) \/ ProbeInUse(x) \/ ArchiveAudience(x)
    PROVE  Guarded'
  <1>1. ASSUME NEW a \in Audience, LockAudience(x, a)
        PROVE  Guarded'
    <2>1. [list |-> a, probed |-> FALSE] \in ArchiverRow
      BY DEF ArchiverRow
    <2> QED
      BY <1>1, <2>1, ArchiverMoves DEF LockAudience, SetArchiver, Guarded, LocksTyped
  <1>2. CASE ProbeInUse(x)
    <2>1. NoArchive \in ArchiverRow /\ NoArchive.list = None
      BY DEF NoArchive, ArchiverRow
    <2>2. /\ [archiver[x] EXCEPT !.probed = TRUE] \in ArchiverRow
          /\ [archiver[x] EXCEPT !.probed = TRUE].list = archiver[x].list
      BY DEF Guarded, LocksTyped, ArchiverRow
    <2>3. CASE InUse(archiver[x].list)
      BY <1>2, <2>1, <2>3, ArchiverMoves DEF ProbeInUse, SetArchiver, Guarded, LocksTyped
    <2>4. CASE ~InUse(archiver[x].list)
      BY <1>2, <2>2, <2>4, ArchiverMoves DEF ProbeInUse, SetArchiver, Guarded, LocksTyped
    <2> QED
      BY <2>3, <2>4
  <1>3. CASE ArchiveAudience(x)
    <2>1. NoArchive \in ArchiverRow /\ NoArchive.list = None
      BY DEF NoArchive, ArchiverRow
    <2>2. audience' \in [Audience -> ListState]
      BY <1>3 DEF ArchiveAudience, Guarded, LocksTyped, ListState
    <2> QED
      BY <1>3, <2>1, <2>2, ArchiverMoves DEF ArchiveAudience, SetArchiver
  <1> QED
    BY <1>1, <1>2, <1>3

LEMMA ReadKeepsGuard ==
    ASSUME Guarded, NEW o \in Operator, NEW m \in Mailing, NEW verb \in DOMAIN Machine,
           ReadForRoute(o, m, verb)
    PROVE  Guarded'
  <1>1. Machine[verb][2] \in {"draft", "in_queue", "sending", "done"}
    BY DEF Machine
  <1>2. [pc |-> "read", mailing |-> m, to |-> Machine[verb][2]] \in WriteRow
    BY <1>1 DEF WriteRow
  <1> QED
    BY <1>2, WriteMoves DEF ReadForRoute, SetWrite

LEMMA WritesKeepGuard ==
    ASSUME Guarded, NEW o \in Operator, Writes(o)
    PROVE  Guarded'
  <1>1. NoWrite \in WriteRow /\ NoWrite.pc = "idle"
    BY DEF NoWrite, WriteRow
  <1>2. ASSUME NEW m \in Mailing, CreateMailing(o, m)
        PROVE  Guarded'
    <2>1. [pc |-> "open", mailing |-> m, to |-> "draft"] \in WriteRow
      BY DEF WriteRow
    <2> QED
      BY <1>2, <2>1, WriteMoves DEF CreateMailing, SetWrite
  <1>3. CASE UpdateState(o)
    <2>1. /\ [write[o] EXCEPT !.pc = "open"] \in WriteRow
          /\ write[o].mailing \in Mailing
      BY <1>3 DEF UpdateState, Guarded, LocksTyped, WriteRow
    <2>2. /\ [write[o] EXCEPT !.pc = "open"].mailing = write[o].mailing
          /\ [write[o] EXCEPT !.pc = "open"].to = write[o].to
      BY DEF Guarded, LocksTyped, WriteRow
    <2>3. CASE Declared(mailing[write[o].mailing], write[o].to)
      BY <1>3, <2>1, <2>2, <2>3, WriteMoves DEF UpdateState, SetWrite
    <2>4. CASE ~Declared(mailing[write[o].mailing], write[o].to)
      BY <1>3, <1>1, <2>4, WriteMoves DEF UpdateState, SetWrite
    <2> QED
      BY <2>3, <2>4
  <1>4. CASE CommitWrite(o)
    BY <1>1, <1>4, WriteMoves DEF CommitWrite, SetWrite
  <1>5. {"launch", "pickup", "complete", "complete_empty", "cancel", "unpark", "retry_failed"}
            \subseteq DOMAIN Machine
    BY DEF Machine
  <1> QED
    BY <1>2, <1>3, <1>4, <1>5, ReadKeepsGuard
       DEF Writes, LaunchTransition, PickupTransition, CompleteTransition,
           CompleteEmptyTransition, CancelTransition, UnparkTransition, RetryFailedTransition

LEMMA GuardKept ==
    ASSUME Guarded, [Next]_vars
    PROVE  Guarded'
  <1>1. CASE UNCHANGED vars
    BY <1>1, UntouchedGuard DEF vars
  <1>2. ASSUME NEW a \in Audience, CreateAudience(a) \/ SoftDelete(a)
        PROVE  Guarded'
    <2>1. audience' \in [Audience -> ListState] /\ UNCHANGED <<archiver, write>>
      BY <1>2 DEF CreateAudience, SoftDelete, Guarded, LocksTyped, ListState
    <2> QED
      BY <2>1 DEF Guarded, LocksTyped, Apart, Shared, Spelled
  <1>3. CASE Lists
    BY <1>2, <1>3, ArchiverKeepsGuard, UntouchedGuard
       DEF Lists, CheckPublic, Subscribe, OptOut, Remove
  <1>4. ASSUME NEW r \in Reader, Leg(r)
        PROVE  Guarded'
    BY <1>4, UntouchedGuard
       DEF Leg, SetLeg, Unsubscribe, ReadContacts, FlipContact, CommitStop, Answer, Abandon
  <1> QED
    BY <1>1, <1>3, <1>4, WritesKeepGuard DEF Next

\* What ArchiveSafe says of one step.
SafeStep ==
    \A a \in Audience : audience[a] # "archived" /\ audience'[a] = "archived" =>
        /\ \A m \in Mailing : Names(m, a) => mailing[m] \notin InFlight
        /\ \A o \in Operator :
            write[o].pc = "open" /\ write[o].to \in InFlight => ~Names(write[o].mailing, a)

LEMMA StepIsSafe ==
    ASSUME AsStored, Guarded, [Next]_vars
    PROVE  SafeStep
  <1> SUFFICES ASSUME NEW a \in Audience, audience[a] # "archived", audience'[a] = "archived"
               PROVE  /\ \A m \in Mailing : Names(m, a) => mailing[m] \notin InFlight
                      /\ \A o \in Operator : write[o].pc = "open" /\ write[o].to \in InFlight
                            => ~Names(write[o].mailing, a)
    BY DEF SafeStep
  <1>1. ASSUME ~InUse(a), NEW m \in Mailing, Names(m, a)
        PROVE  mailing[m] \notin InFlight
    BY <1>1, GuardReadsAll DEF InUse
  <1>2. CASE audience' = audience
    BY <1>2
  <1>3. ASSUME NEW b \in Audience, CreateAudience(b)
        PROVE  FALSE
    BY <1>3 DEF CreateAudience, Guarded, LocksTyped
  <1>4. ASSUME NEW b \in Audience, SoftDelete(b)
        PROVE  a = b /\ ~InUse(a) /\ ~Sharing(a)
    BY <1>4 DEF SoftDelete, Guarded, LocksTyped
  <1>5. ASSUME NEW x \in Archiver, ArchiveAudience(x)
        PROVE  a = archiver[x].list /\ ~InUse(a)
    BY <1>5 DEF ArchiveAudience, Guarded, LocksTyped
  <1>6. ASSUME NEW o \in Operator, write[o].pc = "open", write[o].to \in InFlight,
               Names(write[o].mailing, a)
        PROVE  Sharing(a) /\ \A x \in Archiver : archiver[x].list # a
    <2>1. write[o].mailing \in Mailing
      BY <1>6 DEF Guarded, LocksTyped
    <2>2. a \in Shared(write[o].mailing)
      BY <1>6, <2>1, GuardReadsAll
    <2> QED
      BY <1>6, <2>2 DEF Sharing, Guarded, Apart
  <1>7. CASE \E b \in Audience : SoftDelete(b)
    BY <1>1, <1>4, <1>6, <1>7
  <1>8. CASE \E x \in Archiver : ArchiveAudience(x)
    BY <1>1, <1>5, <1>6, <1>8
  <1>9. CASE Lists
    BY <1>2, <1>3, <1>7, <1>8, <1>9
       DEF Lists, CheckPublic, Subscribe, OptOut, Remove, LockAudience, ProbeInUse
  <1>10. ASSUME NEW r \in Reader, Leg(r)
         PROVE  audience' = audience
    BY <1>10 DEF Leg, SetLeg, Unsubscribe, ReadContacts, FlipContact, CommitStop, Answer, Abandon
  <1>11. ASSUME NEW o \in Operator, Writes(o)
         PROVE  audience' = audience
    BY <1>11
       DEF Writes, CreateMailing, LaunchTransition, PickupTransition, CompleteTransition,
           CompleteEmptyTransition, CancelTransition, UnparkTransition, RetryFailedTransition,
           ReadForRoute, UpdateState, CommitWrite, SetWrite
  <1>12. CASE UNCHANGED vars
    BY <1>2, <1>12 DEF vars
  <1> QED
    BY <1>2, <1>9, <1>10, <1>11, <1>12 DEF Next

\* Where domains spell lists as the database does, no archive, no soft delete and no write of
\* a mailing ever leaves a mailing in flight on an archived list by overtaking one another.
THEOREM ArchiveIsSafe ==
    ASSUME AsStored
    PROVE  Spec => ArchiveSafe
  <1>1. Init => Guarded
    BY GuardedAtFirst
  <1>2. Guarded /\ [Next]_vars => Guarded'
    BY GuardKept
  <1>3. Guarded /\ [Next]_vars =>
            [\A a \in Audience : audience[a] # "archived" /\ audience'[a] = "archived" =>
                /\ \A m \in Mailing : Names(m, a) => mailing[m] \notin InFlight
                /\ \A o \in Operator :
                    write[o].pc = "open" /\ write[o].to \in InFlight =>
                        ~Names(write[o].mailing, a)]_vars
    BY StepIsSafe DEF SafeStep
  <1> QED
    BY <1>1, <1>2, <1>3, PTL DEF Spec, ArchiveSafe

-----------------------------------------------------------------------------
(* Types. *)

Address == {AddressOf[c] : c \in Contact}

\* A leg that runs has the address it was called with.
LegsTyped ==
    /\ leg \in [Reader -> LegRow]
    /\ \A r \in Reader : leg[r].pc # "idle" => leg[r].address \in Address

Typed ==
    /\ Guarded
    /\ SubsTyped
    /\ LegsTyped
    /\ mailing \in [Mailing -> {"absent"} \cup InFlight \cup {"done"}]
    /\ joining \in [Subscriber -> {None} \cup (Contact \X Audience)]
    /\ stopped \subseteq Address \X Audience

LEMMA ListsAreAudiences ==
    ASSUME NEW m \in Mailing, NEW ops
    PROVE  ListsOf(m, ops) \subseteq Audience
  BY DomainAssumption DEF ListsOf, Term, Value

LEMMA TypedAtFirst == Init => Typed
  <1> SUFFICES ASSUME Init PROVE Typed
    OBVIOUS
  <1>1. SubsTyped
    BY DEF Init, SubsTyped, NoSub, SubRow
  <1>2. NoLeg \in LegRow /\ NoLeg.pc = "idle"
    BY DEF NoLeg, LegRow
  <1>3. LegsTyped
    BY <1>2 DEF Init, LegsTyped
  <1>4. mailing \in [Mailing -> {"absent"} \cup InFlight \cup {"done"}]
    BY DEF Init, InFlight
  <1> QED
    BY <1>1, <1>3, <1>4, GuardedAtFirst DEF Init, Typed

\* One leg is replaced.
LEMMA LegMoves ==
    ASSUME LegsTyped, NEW r \in Reader, NEW row \in LegRow,
           leg' = [leg EXCEPT ![r] = row], row.pc # "idle" => row.address \in Address
    PROVE  LegsTyped'
  BY DEF LegsTyped

LEMMA LegStepTyped ==
    ASSUME Typed, NEW r \in Reader, Leg(r)
    PROVE  LegsTyped' /\ stopped' \subseteq Address \X Audience
  <1>1. /\ leg[r] \in LegRow /\ leg \in [Reader -> LegRow]
        /\ leg[r].pc # "idle" => leg[r].address \in Address
    BY DEF Typed, LegsTyped
  <1>2. NoLeg \in LegRow /\ NoLeg.pc = "idle"
    BY DEF NoLeg, LegRow
  <1>3. ASSUME NEW c \in Contact, NEW m \in Mailing, Unsubscribe(r, AddressOf[c], m)
        PROVE  LegsTyped' /\ UNCHANGED stopped
    <2> DEFINE row == [NoLeg EXCEPT !.pc = "next", !.address = AddressOf[c],
                                    !.todo = AudienceIdsOf[m], !.owed = PosAuds[m]]
    <2>1. AudienceIdsOf[m] \subseteq Audience /\ PosAuds[m] \subseteq Audience
      BY ListsAreAudiences DEF AudienceIdsOf, PosAuds
    <2>2. row \in LegRow /\ row.address \in Address
      BY <2>1 DEF NoLeg, LegRow, Address
    <2>3. leg' = [leg EXCEPT ![r] = row] /\ UNCHANGED stopped
      BY <1>3 DEF Unsubscribe, SetLeg
    <2> HIDE DEF row
    <2> QED
      BY <2>2, <2>3, LegMoves DEF Typed
  <1>4. ASSUME NEW a \in Audience, ReadContacts(r, a)
        PROVE  LegsTyped' /\ UNCHANGED stopped
    <2> DEFINE found == ContactIdsByEmail(leg[r].address)
               row == IF found = {} THEN [leg[r] EXCEPT !.todo = @ \ {a}]
                      ELSE [leg[r] EXCEPT !.pc = "flip", !.list = a, !.hand = found]
    <2>1. found \subseteq Contact
      BY DEF ContactIdsByEmail, Contacts
    <2>2. leg[r].pc = "next" /\ leg' = [leg EXCEPT ![r] = row] /\ UNCHANGED stopped
      BY <1>4 DEF ReadContacts, SetLeg
    <2> HIDE DEF found
    <2>3. row \in LegRow /\ row.address = leg[r].address
      BY <1>1, <2>1 DEF LegRow
    <2> HIDE DEF row
    <2> QED
      BY <1>1, <2>2, <2>3, LegMoves DEF Typed
  <1>5. CASE FlipContact(r)
    <2>1. PICK c \in leg[r].hand :
            leg' = [leg EXCEPT ![r] = [leg[r] EXCEPT !.hand = @ \ {c},
                        !.flipped = IF sub[<<c, leg[r].list>>].state = "in" THEN @ \cup {c} ELSE @]]
      BY <1>5 DEF FlipContact, SetLeg
    <2> DEFINE flipped == IF sub[<<c, leg[r].list>>].state = "in"
                          THEN leg[r].flipped \cup {c} ELSE leg[r].flipped
               row == [leg[r] EXCEPT !.hand = @ \ {c}, !.flipped = flipped]
    <2>2. flipped \subseteq Contact
      BY <1>1 DEF LegRow
    <2>3. leg' = [leg EXCEPT ![r] = row]
      BY <2>1
    <2> HIDE DEF flipped
    <2>4. row \in LegRow /\ row.address = leg[r].address /\ row.pc = leg[r].pc
      BY <1>1, <2>2 DEF LegRow
    <2> HIDE DEF row
    <2> QED
      BY <1>1, <1>5, <2>3, <2>4, LegMoves DEF Typed, FlipContact
  <1>6. CASE CommitStop(r)
    <2> DEFINE row == [leg[r] EXCEPT !.pc = "next", !.todo = @ \ {leg[r].list}, !.list = None,
                                     !.flipped = {}]
    <2>1. leg' = [leg EXCEPT ![r] = row] /\ leg[r].pc = "flip" /\ UNCHANGED stopped
      BY <1>6 DEF CommitStop, SetLeg
    <2>2. row \in LegRow /\ row.address = leg[r].address
      BY <1>1 DEF LegRow
    <2> HIDE DEF row
    <2> QED
      BY <1>1, <2>1, <2>2, LegMoves DEF Typed
  <1>7. CASE Answer(r)
    <2>1. leg' = [leg EXCEPT ![r] = NoLeg] /\ leg[r].pc = "next"
          /\ stopped' = stopped \cup {<<leg[r].address, a>> : a \in leg[r].owed}
      BY <1>7 DEF Answer, SetLeg
    <2>2. leg[r].owed \subseteq Audience /\ leg[r].address \in Address
      BY <1>1, <2>1 DEF LegRow
    <2>3. LegsTyped'
      BY <1>2, <2>1, LegMoves DEF Typed
    <2>4. {<<leg[r].address, a>> : a \in leg[r].owed} \subseteq Address \X Audience
      BY <2>2
    <2> QED
      BY <2>1, <2>3, <2>4 DEF Typed
  <1>8. CASE Abandon(r)
    BY <1>2, <1>8, LegMoves DEF Abandon, SetLeg, Typed
  <1>9. UNCHANGED stopped => stopped' \subseteq Address \X Audience
    BY DEF Typed, Address
  <1> QED
    BY <1>3, <1>4, <1>5, <1>6, <1>7, <1>8, <1>9 DEF Leg, FlipContact, Abandon

LEMMA ListStepTyped ==
    ASSUME Typed, Lists
    PROVE  /\ LegsTyped' /\ stopped' \subseteq Address \X Audience
           /\ joining' \in [Subscriber -> {None} \cup (Contact \X Audience)]
           /\ UNCHANGED mailing
  <1>1. ASSUME NEW s \in Subscriber, NEW c \in Contact, NEW a \in Audience,
               Subscribe(s, c, a)
        PROVE  /\ LegsTyped' /\ stopped' \subseteq Address \X Audience
               /\ joining' \in [Subscriber -> {None} \cup (Contact \X Audience)]
               /\ UNCHANGED mailing
    <2>1. \A r \in Reader : LET row == [leg[r] EXCEPT !.owed = @ \ {a}]
                            IN  /\ row \in LegRow /\ row.pc = leg[r].pc
                                /\ row.address = leg[r].address
      BY DEF Typed, LegsTyped, LegRow
    <2>2. leg' = [r \in Reader |-> IF leg[r].address = AddressOf[c]
                                   THEN [leg[r] EXCEPT !.owed = @ \ {a}] ELSE leg[r]]
      BY <1>1 DEF Subscribe
    <2>3. LegsTyped'
      BY <2>1, <2>2 DEF Typed, LegsTyped
    <2> QED
      BY <1>1, <2>3 DEF Subscribe, Typed
  <1>2. ASSUME NEW s \in Subscriber, NEW c \in Contact, NEW a \in Audience,
               CheckPublic(s, c, a)
        PROVE  joining' \in [Subscriber -> {None} \cup (Contact \X Audience)]
    BY <1>2 DEF CheckPublic, Typed
  <1>3. UNCHANGED <<leg, stopped>> => LegsTyped' /\ stopped' \subseteq Address \X Audience
    BY DEF Typed, LegsTyped
  <1>4. UNCHANGED joining => joining' \in [Subscriber -> {None} \cup (Contact \X Audience)]
    BY DEF Typed
  <1> QED
    BY <1>1, <1>2, <1>3, <1>4
       DEF Lists, CreateAudience, SoftDelete, CheckPublic, OptOut, Remove, LockAudience,
           ProbeInUse, ArchiveAudience, SetArchiver

LEMMA WriteStepTyped ==
    ASSUME Typed, NEW o \in Operator, Writes(o)
    PROVE  /\ mailing' \in [Mailing -> {"absent"} \cup InFlight \cup {"done"}]
           /\ UNCHANGED <<leg, joining, stopped>>
  <1>1. CASE CommitWrite(o)
    <2>1. write[o].to \in {"draft", "in_queue", "sending", "done"}
      BY DEF Typed, Guarded, LocksTyped, WriteRow
    <2> QED
      BY <1>1, <2>1 DEF CommitWrite, SetWrite, Typed, InFlight
  <1> QED
    BY <1>1
       DEF Typed, Writes, CreateMailing, LaunchTransition, PickupTransition,
           CompleteTransition, CompleteEmptyTransition, CancelTransition, UnparkTransition,
           RetryFailedTransition, ReadForRoute, UpdateState, SetWrite

LEMMA TypedKept ==
    ASSUME Typed, [Next]_vars
    PROVE  Typed'
  <1>1. Guarded' /\ SubsTyped'
    BY GuardKept, SubsStay DEF Typed
  <1>2. CASE UNCHANGED vars
    BY <1>1, <1>2 DEF Typed, LegsTyped, vars
  <1>3. CASE Lists
    BY <1>1, <1>3, ListStepTyped DEF Typed
  <1>4. ASSUME NEW r \in Reader, Leg(r)
        PROVE  Typed'
    <2>1. UNCHANGED <<mailing, joining>>
      BY <1>4 DEF Leg, Unsubscribe, ReadContacts, FlipContact, CommitStop, Answer, Abandon,
                  SetLeg
    <2> QED
      BY <1>1, <1>4, <2>1, LegStepTyped DEF Typed
  <1>5. ASSUME NEW o \in Operator, Writes(o)
        PROVE  Typed'
    BY <1>1, <1>5, WriteStepTyped DEF Typed, LegsTyped
  <1> QED
    BY <1>2, <1>3, <1>4, <1>5 DEF Next

LEMMA SpecTyped == Spec => []Typed
  BY TypedAtFirst, TypedKept, PTL DEF Spec

\* Every reachable state of subscriptions, lists, mailings and requests is well typed.
THEOREM AudiencesTypeCorrect == Spec => []TypeOK
  <1>1. Typed => TypeOK
    BY DEF Typed, SubsTyped, Guarded, LocksTyped, LegsTyped, Address, TypeOK
  <1> QED
    BY <1>1, SpecTyped, PTL

-----------------------------------------------------------------------------
(* The lifecycle of mailings. *)

\* What an UPDATE that waits for its commit will do to the row: bring it into being, or take
\* it along an edge that the trigger has seen.
Granted(from, to) == IF from = "absent" THEN to = "draft" ELSE Declared(from, to)

\* No two such writes are of one mailing, so the trigger's answer still holds at the commit.
Serial ==
    /\ \A o \in Operator : write[o].pc = "open" => Granted(mailing[write[o].mailing], write[o].to)
    /\ \A o, p \in Operator :
        write[o].pc = "open" /\ write[p].pc = "open" /\ write[o].mailing = write[p].mailing
            => o = p

\* The trigger knows no other edges than the schema.
LEMMA DeclaredEdges ==
    ASSUME NEW from, NEW to, Declared(from, to), from # to
    PROVE  <<from, to>> \in Lifecycle!Edges /\ from # "absent"
  <1>1. PICK verb \in DOMAIN Machine : from \in Machine[verb][1] /\ Machine[verb][2] = to
    BY DEF Declared
  <1>2. verb \in {"launch", "pickup", "complete", "complete_empty", "cancel", "unpark",
                  "retry_failed"}
    BY DEF Machine
  <1> QED
    BY <1>1, <1>2 DEF Machine, Lifecycle!Edges

LEMMA SerialAtFirst == Init => Serial
  <1> SUFFICES ASSUME Init PROVE Serial
    OBVIOUS
  <1>1. \A o \in Operator : write[o].pc = "idle"
    BY DEF Init, NoWrite
  <1> QED
    BY <1>1 DEF Serial

\* A write is replaced by one that is not open.
LEMMA WriteEnds ==
    ASSUME Typed, Serial, NEW o \in Operator, NEW row, row.pc # "open", mailing' = mailing,
           write' = [write EXCEPT ![o] = row]
    PROVE  Serial'
  BY DEF Typed, Guarded, LocksTyped, Serial

\* A write is replaced by one that has the mailing for itself.
LEMMA WriteOpens ==
    ASSUME Typed, Serial, NEW o \in Operator, NEW row, mailing' = mailing,
           write' = [write EXCEPT ![o] = row],
           Granted(mailing[row.mailing], row.to),
           \A p \in Operator : ~(write[p].pc = "open" /\ write[p].mailing = row.mailing)
    PROVE  Serial'
  BY DEF Typed, Guarded, LocksTyped, Serial

LEMMA WriteKeepsSerial ==
    ASSUME Typed, Serial, NEW o \in Operator, Writes(o)
    PROVE  Serial'
  <1>1. NoWrite.pc # "open"
    BY DEF NoWrite
  <1>2. ASSUME NEW m \in Mailing, CreateMailing(o, m)
        PROVE  Serial'
    <2> DEFINE row == [pc |-> "open", mailing |-> m, to |-> "draft"]
    <2>1. Granted(mailing[row.mailing], row.to)
      BY <1>2 DEF CreateMailing, Granted
    <2>2. /\ write' = [write EXCEPT ![o] = row] /\ mailing' = mailing
          /\ \A p \in Operator : write[p].mailing # row.mailing
      BY <1>2 DEF CreateMailing, SetWrite
    <2> HIDE DEF row
    <2> QED
      BY <2>1, <2>2, WriteOpens
  <1>3. ASSUME NEW m \in Mailing, NEW verb, ReadForRoute(o, m, verb)
        PROVE  Serial'
    BY <1>3, WriteEnds DEF ReadForRoute, SetWrite
  <1>4. CASE UpdateState(o)
    <2> DEFINE row == [write[o] EXCEPT !.pc = "open"]
    <2>1. row.mailing = write[o].mailing /\ row.to = write[o].to
      BY DEF Typed, Guarded, LocksTyped, WriteRow
    <2>2. write[o].to # "absent"
      BY DEF Typed, Guarded, LocksTyped, WriteRow
    <2>3. CASE Declared(mailing[write[o].mailing], write[o].to)
      <3>1. Granted(mailing[row.mailing], row.to)
        BY <2>1, <2>2, <2>3, DeclaredEdges DEF Granted
      <3>2. write' = [write EXCEPT ![o] = row] /\ mailing' = mailing
        BY <1>4, <2>3 DEF UpdateState, SetWrite
      <3>3. \A p \in Operator : ~(write[p].pc = "open" /\ write[p].mailing = row.mailing)
        BY <1>4, <2>1 DEF UpdateState
      <3> HIDE DEF row
      <3> QED
        BY <3>1, <3>2, <3>3, WriteOpens
    <2>4. CASE ~Declared(mailing[write[o].mailing], write[o].to)
      BY <1>1, <1>4, <2>4, WriteEnds DEF UpdateState, SetWrite
    <2> QED
      BY <2>3, <2>4
  <1>5. CASE CommitWrite(o)
    <2>1. /\ write' = [write EXCEPT ![o] = NoWrite]
          /\ mailing' = [mailing EXCEPT ![write[o].mailing] = write[o].to]
          /\ write[o].pc = "open"
      BY <1>5 DEF CommitWrite, SetWrite
    <2>2. \A p \in Operator : write'[p].pc = "open" => p # o /\ write'[p] = write[p]
      BY <1>1, <2>1 DEF Typed, Guarded, LocksTyped
    <2>3. \A p \in Operator : write'[p].pc = "open" =>
            mailing'[write'[p].mailing] = mailing[write[p].mailing]
      BY <2>1, <2>2 DEF Serial, Typed, Guarded, LocksTyped
    <2> QED
      BY <2>2, <2>3 DEF Serial
  <1> QED
    BY <1>2, <1>3, <1>4, <1>5
       DEF Writes, LaunchTransition, PickupTransition, CompleteTransition,
           CompleteEmptyTransition, CancelTransition, UnparkTransition, RetryFailedTransition

LEMMA SerialKept ==
    ASSUME Typed, Serial, [Next]_vars
    PROVE  Serial'
  <1>1. CASE UNCHANGED <<mailing, write>>
    BY <1>1 DEF Serial
  <1>2. CASE Lists
    BY <1>1, <1>2
       DEF Lists, CreateAudience, SoftDelete, CheckPublic, Subscribe, OptOut, Remove,
           LockAudience, ProbeInUse, ArchiveAudience, SetArchiver
  <1>3. ASSUME NEW r \in Reader, Leg(r)
        PROVE  Serial'
    BY <1>1, <1>3 DEF Leg, Unsubscribe, ReadContacts, FlipContact, CommitStop, Answer, Abandon,
                      SetLeg
  <1> QED
    BY <1>1, <1>2, <1>3, WriteKeepsSerial DEF Next, vars

\* Each step of the routes is one of the machine, or none.
LEMMA StepsFollowEdges ==
    ASSUME Typed, Typed', Serial, [Next]_vars
    PROVE  Lifecycle!Next \/ UNCHANGED mailing
  <1>1. CASE UNCHANGED vars
    BY <1>1 DEF vars
  <1>2. CASE Lists
    BY <1>2, ListStepTyped
  <1>3. ASSUME NEW r \in Reader, Leg(r)
        PROVE  UNCHANGED mailing
    BY <1>3 DEF Leg, Unsubscribe, ReadContacts, FlipContact, CommitStop, Answer, Abandon, SetLeg
  <1>4. ASSUME NEW o \in Operator, CommitWrite(o)
        PROVE  Lifecycle!Next
    <2> DEFINE Shown(state) == IF state = "absent" THEN "draft" ELSE state
    <2>1. /\ mailing' = [mailing EXCEPT ![write[o].mailing] = write[o].to]
          /\ write[o].pc = "open" /\ write[o].mailing \in Mailing
          /\ write[o].to # "absent"
      BY <1>4 DEF CommitWrite, Typed, Guarded, LocksTyped, WriteRow
    <2>2. Granted(mailing[write[o].mailing], write[o].to)
      BY <2>1 DEF Serial
    <2>3. ASSUME NEW m \in Mailing, Shown(mailing'[m]) # Shown(mailing[m])
          PROVE  <<Shown(mailing[m]), Shown(mailing'[m])>> \in Lifecycle!Edges
      <3>1. m = write[o].mailing /\ mailing'[m] = write[o].to
        BY <2>1, <2>3 DEF Typed
      <3> QED
        BY <2>1, <2>2, <2>3, <3>1, DeclaredEdges DEF Granted
    <2>4. \A m \in Mailing : Shown(mailing'[m]) \in Lifecycle!State
      BY DEF Typed, InFlight, Lifecycle!State
    <2> QED
      BY <2>3, <2>4 DEF Lifecycle!Next
  <1>5. ASSUME NEW o \in Operator, Writes(o), ~CommitWrite(o)
        PROVE  UNCHANGED mailing
    BY <1>5
       DEF Writes, CreateMailing, LaunchTransition, PickupTransition, CompleteTransition,
           CompleteEmptyTransition, CancelTransition, UnparkTransition, RetryFailedTransition,
           ReadForRoute, UpdateState
  <1> QED
    BY <1>1, <1>2, <1>3, <1>4, <1>5 DEF Next

\* The generated routes read a state, wait, and write another one; whatever others do in
\* between, a mailing only ever moves along an edge of the declared machine.
THEOREM RoutesImplementLifecycle == Spec => ImplementsLifecycle
  <1>1. Init => Lifecycle!Init
    BY DEF Init, Lifecycle!Init
  <1>2. Typed /\ Typed' /\ Serial /\ [Next]_vars
        => [Lifecycle!Next]_([m \in Mailing |->
                IF mailing[m] = "absent" THEN "draft" ELSE mailing[m]])
    BY StepsFollowEdges
  <1>3. Typed /\ Serial /\ [Next]_vars => Serial'
    BY SerialKept
  <1> QED
    BY <1>1, <1>2, <1>3, SerialAtFirst, TypedAtFirst, TypedKept, PTL
       DEF Spec, ImplementsLifecycle, Lifecycle!Spec

-----------------------------------------------------------------------------
(* The unsubscribe leg. *)

Subscribed(c, a) == sub[<<c, a>>].state = "in"

\* A list that a leg owes its caller, and that one of the caller's contacts is still
\* subscribed to, is still to be done; the contact is in hand, or flipped, if it is the turn.
Owes(row) ==
    row.pc # "idle" =>
        \A a \in row.owed, c \in Contact :
            AddressOf[c] = row.address /\ Subscribed(c, a) =>
                a \in row.todo /\ (row.pc = "flip" /\ row.list = a => c \in row.hand \cup row.flipped)

\* No contact of an address is subscribed to a list that the address has left.
Gone == \A c \in Contact, a \in Audience : <<AddressOf[c], a>> \in stopped => ~Subscribed(c, a)

Left == Gone /\ \A r \in Reader : Owes(leg[r])

LEMMA LeftAtFirst == Init => Left
  BY DEF Init, Left, Gone, Owes, NoLeg

\* Nobody joins.
NobodyJoins == \A c \in Contact, a \in Audience : Subscribed(c, a)' => Subscribed(c, a)

LEMMA OwesLess ==
    ASSUME Typed, NobodyJoins, NEW r \in Reader, Owes(leg[r]), leg'[r] = leg[r]
    PROVE  Owes(leg[r])'
  <1>1. leg[r].owed \subseteq Audience
    BY DEF Typed, LegsTyped, LegRow
  <1> QED
    BY <1>1 DEF NobodyJoins, Owes

\* One leg moves while nobody joins.
LEMMA LegKeepsLeft ==
    ASSUME Typed, Left, NobodyJoins, NEW r \in Reader, NEW row, leg' = [leg EXCEPT ![r] = row],
           Owes(leg[r])', Gone'
    PROVE  Left'
  <1>1. ASSUME NEW q \in Reader
        PROVE  Owes(leg[q])'
    <2>1. CASE q = r
      BY <2>1
    <2>2. CASE q # r
      BY <2>2, OwesLess DEF Left, Typed, LegsTyped
    <2> QED
      BY <2>1, <2>2
  <1> QED
    BY <1>1 DEF Left

LEMMA SubscribeKeepsLeft ==
    ASSUME Typed, Left, NEW s \in Subscriber, NEW c \in Contact, NEW a \in Audience,
           Subscribe(s, c, a)
    PROVE  Left'
  <1>1. \A d \in Contact, b \in Audience :
            Subscribed(d, b)' => Subscribed(d, b) \/ (d = c /\ b = a)
    BY DEF Subscribe, Subscribed, Typed, SubsTyped
  <1>2. stopped' = stopped \ {<<AddressOf[c], a>>}
    BY DEF Subscribe
  <1>3. Gone'
    BY <1>1, <1>2 DEF Left, Gone
  <1>4. ASSUME NEW r \in Reader
        PROVE  Owes(leg[r])'
    <2>1. leg[r].owed \subseteq Audience /\ leg[r] \in LegRow
      BY DEF Typed, LegsTyped, LegRow
    <2>2. CASE leg[r].address = AddressOf[c]
      <3> DEFINE row == [leg[r] EXCEPT !.owed = @ \ {a}]
      <3>1. leg'[r] = row
        BY <2>2 DEF Subscribe
      <3>2. /\ row.owed = leg[r].owed \ {a} /\ row.pc = leg[r].pc /\ row.todo = leg[r].todo
            /\ row.list = leg[r].list /\ row.hand = leg[r].hand
            /\ row.flipped = leg[r].flipped /\ row.address = leg[r].address
        BY <2>1 DEF LegRow
      <3> HIDE DEF row
      <3> QED
        BY <1>1, <2>1, <3>1, <3>2 DEF Left, Owes
    <2>3. CASE leg[r].address # AddressOf[c]
      <3>1. leg'[r] = leg[r]
        BY <2>3 DEF Subscribe
      <3> QED
        BY <1>1, <2>1, <2>3, <3>1 DEF Left, Owes
    <2> QED
      BY <2>2, <2>3
  <1> QED
    BY <1>3, <1>4 DEF Left

LEMMA LegStepKeepsLeft ==
    ASSUME Typed, Left, NEW r \in Reader, Leg(r)
    PROVE  Left'
  <1>0. leg[r] \in LegRow /\ leg \in [Reader -> LegRow] /\ Owes(leg[r])
    BY DEF Typed, LegsTyped, Left
  <1>1. UNCHANGED <<sub, stopped>> => NobodyJoins /\ Gone'
    BY DEF NobodyJoins, Subscribed, Left, Gone
  <1>2. NoLeg.pc = "idle"
    BY DEF NoLeg
  <1>3. ASSUME NEW c \in Contact, NEW m \in Mailing, Unsubscribe(r, AddressOf[c], m)
        PROVE  Left'
    <2> DEFINE row == [NoLeg EXCEPT !.pc = "next", !.address = AddressOf[c],
                                    !.todo = AudienceIdsOf[m], !.owed = PosAuds[m]]
    <2>1. row.owed = row.todo /\ row.pc = "next"
      BY DEF AudienceIdsOf, PosAuds, NoLeg
    <2>2. leg' = [leg EXCEPT ![r] = row] /\ UNCHANGED <<sub, stopped>>
      BY <1>3 DEF Unsubscribe, SetLeg
    <2> HIDE DEF row
    <2>3. Owes(leg[r])'
      BY <1>0, <2>1, <2>2 DEF Owes
    <2> QED
      BY <1>1, <2>2, <2>3, LegKeepsLeft
  <1>4. ASSUME NEW a \in Audience, ReadContacts(r, a)
        PROVE  Left'
    <2> DEFINE found == ContactIdsByEmail(leg[r].address)
    <2>1. \A c \in Contact : AddressOf[c] = leg[r].address /\ Subscribed(c, a) => c \in found
      BY DEF ContactIdsByEmail, Contacts, Subscribed
    <2> HIDE DEF found
    <2>2. UNCHANGED <<sub, stopped>> /\ leg[r].pc = "next"
      BY <1>4 DEF ReadContacts
    <2>3. CASE found = {}
      <3> DEFINE row == [leg[r] EXCEPT !.todo = @ \ {a}]
      <3>1. leg' = [leg EXCEPT ![r] = row]
        BY <1>4, <2>3 DEF ReadContacts, SetLeg, found
      <3>2. /\ row.pc = leg[r].pc /\ row.todo = leg[r].todo \ {a} /\ row.owed = leg[r].owed
            /\ row.address = leg[r].address
        BY <1>0 DEF LegRow
      <3> HIDE DEF row
      <3>3. leg'[r] = row
        BY <1>0, <3>1
      <3>4. Owes(leg[r])'
        BY <1>0, <2>1, <2>2, <2>3, <3>2, <3>3 DEF Owes, Subscribed
      <3> QED
        BY <1>1, <2>2, <3>1, <3>4, LegKeepsLeft
    <2>4. CASE found # {}
      <3> DEFINE row == [leg[r] EXCEPT !.pc = "flip", !.list = a, !.hand = found]
      <3>1. leg' = [leg EXCEPT ![r] = row]
        BY <1>4, <2>4 DEF ReadContacts, SetLeg, found
      <3>2. /\ row.todo = leg[r].todo /\ row.owed = leg[r].owed /\ row.list = a
            /\ row.address = leg[r].address /\ row.hand = found
        BY <1>0 DEF LegRow
      <3> HIDE DEF row
      <3>3. leg'[r] = row
        BY <1>0, <3>1
      <3>4. Owes(leg[r])'
        BY <1>0, <2>1, <2>2, <3>2, <3>3 DEF Owes, Subscribed
      <3> QED
        BY <1>1, <2>2, <3>1, <3>4, LegKeepsLeft
    <2> QED
      BY <2>3, <2>4
  <1>5. CASE FlipContact(r)
    <2>1. PICK c \in leg[r].hand :
            leg' = [leg EXCEPT ![r] = [leg[r] EXCEPT !.hand = @ \ {c},
                        !.flipped = IF sub[<<c, leg[r].list>>].state = "in" THEN @ \cup {c} ELSE @]]
      BY <1>5 DEF FlipContact, SetLeg
    <2> DEFINE flipped == IF Subscribed(c, leg[r].list)
                          THEN leg[r].flipped \cup {c} ELSE leg[r].flipped
               row == [leg[r] EXCEPT !.hand = @ \ {c}, !.flipped = flipped]
    <2>2. leg' = [leg EXCEPT ![r] = row]
      BY <2>1 DEF Subscribed
    <2>3. \A d \in leg[r].hand \cup leg[r].flipped :
            Subscribed(d, leg[r].list) => d \in (leg[r].hand \ {c}) \cup flipped
      OBVIOUS
    <2> HIDE DEF flipped
    <2>4. /\ row.todo = leg[r].todo /\ row.owed = leg[r].owed /\ row.list = leg[r].list
          /\ row.address = leg[r].address /\ row.pc = leg[r].pc
          /\ row.hand = leg[r].hand \ {c} /\ row.flipped = flipped
      BY <1>0 DEF LegRow
    <2> HIDE DEF row
    <2>5. leg'[r] = row /\ UNCHANGED <<sub, stopped>>
      BY <1>0, <1>5, <2>2 DEF FlipContact
    <2>6. Owes(leg[r])'
      BY <1>0, <2>3, <2>4, <2>5 DEF Owes, Subscribed
    <2> QED
      BY <1>1, <2>2, <2>5, <2>6, LegKeepsLeft
  <1>6. CASE CommitStop(r)
    <2> DEFINE row == [leg[r] EXCEPT !.pc = "next", !.todo = @ \ {leg[r].list}, !.list = None,
                                     !.flipped = {}]
    <2>1. /\ leg' = [leg EXCEPT ![r] = row] /\ leg[r].pc = "flip" /\ leg[r].hand = {}
          /\ UNCHANGED stopped
      BY <1>6 DEF CommitStop, SetLeg
    <2>2. /\ row.pc = "next" /\ row.todo = leg[r].todo \ {leg[r].list}
          /\ row.owed = leg[r].owed /\ row.address = leg[r].address
      BY <1>0 DEF LegRow
    <2> HIDE DEF row
    <2>3. sub' = [pair \in Contact \X Audience |->
                IF pair[2] = leg[r].list /\ pair[1] \in leg[r].flipped
                THEN OptedOut(sub[pair], "default") ELSE sub[pair]]
      BY <1>6 DEF CommitStop
    <2>4. \A c \in Contact, a \in Audience : Subscribed(c, a)' =>
            Subscribed(c, a) /\ ~(a = leg[r].list /\ c \in leg[r].flipped)
      BY <2>3 DEF Subscribed, OptedOut
    <2>5. NobodyJoins /\ Gone'
      BY <2>1, <2>4 DEF NobodyJoins, Left, Gone
    <2>6. leg'[r] = row /\ leg[r].owed \subseteq Audience
      BY <1>0, <2>1 DEF LegRow
    <2>7. Owes(leg[r])'
      BY <1>0, <2>1, <2>2, <2>4, <2>6 DEF Owes
    <2> QED
      BY <2>1, <2>5, <2>7, LegKeepsLeft
  <1>7. CASE Answer(r)
    <2>1. /\ leg' = [leg EXCEPT ![r] = NoLeg] /\ leg[r].pc = "next" /\ leg[r].todo = {}
          /\ stopped' = stopped \cup {<<leg[r].address, a>> : a \in leg[r].owed}
          /\ sub' = sub
      BY <1>7 DEF Answer, SetLeg
    <2>2. \A c \in Contact, a \in Audience :
            <<AddressOf[c], a>> \in stopped' =>
                <<AddressOf[c], a>> \in stopped \/ (AddressOf[c] = leg[r].address /\ a \in leg[r].owed)
      BY <2>1
    <2>3. Gone'
      BY <1>0, <2>1, <2>2 DEF Left, Gone, Owes, Subscribed
    <2>4. NobodyJoins
      BY <2>1 DEF NobodyJoins, Subscribed
    <2>5. Owes(leg[r])'
      BY <1>0, <1>2, <2>1 DEF Owes
    <2> QED
      BY <2>1, <2>3, <2>4, <2>5, LegKeepsLeft
  <1>8. CASE Abandon(r)
    <2>1. leg' = [leg EXCEPT ![r] = NoLeg] /\ UNCHANGED <<sub, stopped>>
      BY <1>8 DEF Abandon, SetLeg
    <2>2. Owes(leg[r])'
      BY <1>0, <1>2, <2>1 DEF Owes
    <2> QED
      BY <1>1, <2>1, <2>2, LegKeepsLeft
  <1> QED
    BY <1>3, <1>4, <1>5, <1>6, <1>7, <1>8 DEF Leg

LEMMA LeftKept ==
    ASSUME Typed, Left, [Next]_vars
    PROVE  Left'
  <1>1. ASSUME NobodyJoins, UNCHANGED <<leg, stopped>>
        PROVE  Left'
    <2>1. Gone'
      BY <1>1 DEF Left, Gone, NobodyJoins
    <2> QED
      BY <1>1, <2>1, OwesLess DEF Left
  <1>2. UNCHANGED sub => NobodyJoins
    BY DEF NobodyJoins, Subscribed
  <1>3. ASSUME NEW c \in Contact, NEW a \in Audience, OptOut(c, a) \/ Remove(c, a)
        PROVE  NobodyJoins /\ UNCHANGED <<leg, stopped>>
    <2>1. \/ UNCHANGED sub
          \/ \E row : row.state # "in" /\ sub' = [sub EXCEPT ![<<c, a>>] = row]
      BY <1>3 DEF OptOut, Remove, OptedOut
    <2>2. NobodyJoins
      BY <2>1 DEF NobodyJoins, Subscribed, Typed, SubsTyped
    <2> QED
      BY <1>3, <2>2 DEF OptOut, Remove
  <1>4. CASE Lists
    BY <1>1, <1>2, <1>3, <1>4, SubscribeKeepsLeft
       DEF Lists, CreateAudience, SoftDelete, CheckPublic, LockAudience, ProbeInUse,
           ArchiveAudience, SetArchiver
  <1>5. ASSUME NEW o \in Operator, Writes(o)
        PROVE  Left'
    BY <1>1, <1>2, <1>5
       DEF Writes, CreateMailing, LaunchTransition, PickupTransition, CompleteTransition,
           CompleteEmptyTransition, CancelTransition, UnparkTransition, RetryFailedTransition,
           ReadForRoute, UpdateState, CommitWrite, SetWrite
  <1>6. CASE UNCHANGED vars
    BY <1>1, <1>2, <1>6 DEF vars
  <1> QED
    BY <1>4, <1>5, <1>6, LegStepKeepsLeft DEF Next

\* A stop is kept: once a leg has answered, no contact row of the address, in any spelling,
\* is a recipient of a mailing to the lists it left, whatever other legs, crashes,
\* subscriptions and removals came in between, until somebody of that address joins again.
THEOREM StopIsKept == Spec => []StopReachesAll
  <1>1. Typed /\ Left => StopReachesAll
    <2> SUFFICES ASSUME Typed, Left, NEW m \in Mailing, PosAuds[m] # {},
                        NEW c \in ContactRecipients(m),
                        {AddressOf[c]} \X PosAuds[m] \subseteq stopped
                 PROVE  FALSE
      BY DEF StopReachesAll
    <2>1. PICK a \in PosAuds[m] : sub[<<c, a>>].state = "in"
      BY DEF ContactRecipients
    <2>2. c \in Contact /\ a \in Audience
      BY ListsAreAudiences DEF ContactRecipients, Contacts, PosAuds
    <2>3. <<AddressOf[c], a>> \in stopped
      OBVIOUS
    <2> QED
      BY <2>1, <2>2, <2>3 DEF Left, Gone, Subscribed
  <1>2. Typed /\ Left /\ [Next]_vars => Left'
    BY LeftKept
  <1> QED
    BY <1>1, <1>2, LeftAtFirst, TypedAtFirst, TypedKept, PTL DEF Spec
=============================================================================
