------------------------------ MODULE Audiences ------------------------------
(***************************************************************************)
(* Mailing lists: subscriptions and the ways out of them, the unsubscribe  *)
(* leg of the trace routes, the guard that keeps a list from being         *)
(* archived under a mailing, and the generated transition routes that move *)
(* mailings.  A transaction's writes are seen when it commits; the rows it *)
(* has locked make the others wait.                                        *)
(***************************************************************************)
EXTENDS Integers, FiniteSets

CONSTANTS
    Contact,        \* ids of contacts
    AddressOf,      \* the address of each contact, whatever its spelling
    Audience,       \* ids of lists
    Member,         \* bound: the subscriptions there may be, <<contact, list>>
    Opening,        \* bound: the lists that exist from the start
    Mailing,        \* ids of mailings
    Drafts,         \* bound: the mailings that exist from the start
    Domain,         \* the terms of each mailing's domain
    Reader,         \* concurrent unsubscribe requests
    Subscriber,     \* concurrent subscribe requests
    Archiver,       \* concurrent executions of archive_audience
    Operator,       \* concurrent writes of mailings
    Verbs,          \* bound: which single-statement verbs are in use
    None

ASSUME ListsAssumption ==
    /\ Contact \subseteq Nat
    /\ Member \subseteq Contact \X Audience
    /\ Opening \subseteq Audience
    /\ Drafts \subseteq Mailing
    /\ None \notin Audience
    /\ None \notin Mailing

VARIABLES
    sub,        \* the newest subscription row of each pair
    audience,   \* the lists
    mailing,    \* the state of each mailing
    leg,        \* the local variables of each unsubscribe request
    joining,    \* what each subscribe request has checked
    archiver,   \* the list each archive_audience has locked
    write,      \* the mailing write of each operator
    stopped     \* history: <<address, list>> that a reader has stopped for good

vars == <<sub, audience, mailing, leg, joining, archiver, write, stopped>>

-----------------------------------------------------------------------------
(* Rows. *)

SubRow == [state : {"none", "in", "out", "removed"}, reason : {"none", "picked", "default"}]

NoSub == [state |-> "none", reason |-> "none"]

ListState == {"absent", "public", "private", "archived"}

\* owed: the lists to be left, unless somebody of that address joins again meanwhile
LegRow == [pc : {"idle", "next", "flip"}, address : {AddressOf[c] : c \in Contact} \cup {None},
           todo : SUBSET Audience, list : Audience \cup {None}, hand : SUBSET Contact,
           flipped : SUBSET Contact, owed : SUBSET Audience]

NoLeg == [pc |-> "idle", address |-> None, todo |-> {}, list |-> None, hand |-> {},
          flipped |-> {}, owed |-> {}]

\* pc: read, before the UPDATE, or open, before the commit
WriteRow == [pc : {"idle", "read", "open"}, mailing : Mailing \cup {None},
             to : {"draft", "in_queue", "sending", "done"}]

NoWrite == [pc |-> "idle", mailing |-> None, to |-> "draft"]

ArchiverRow == [list : Audience \cup {None}, probed : BOOLEAN]

NoArchive == [list |-> None, probed |-> FALSE]

-----------------------------------------------------------------------------
(* Domains. *)

\* field_of; the contact columns are alike here
Field == {"contact", "mailing_audience_id", "unknown"}

Operators == {"=", "!=", "in", "not in", "like", "not like", "unknown"}

\* A list as a domain spells it.  Uuid::parse_str takes capitals, and digits without hyphens.
Value == [list : Audience, spelled : {"as_stored", "capitals", "bare", "garbled"}]

Term == [field : Field, op : Operators, values : SUBSET Value]

ASSUME DomainAssumption == \A m \in Mailing : Domain[m] \subseteq Term

\* parse_domain of one term: nothing outside the whitelists, one value unless the operator
\* takes an array, which may be empty, and lists by uuid
Parses(term) ==
    /\ term.field # "unknown" /\ term.op # "unknown"
    /\ term.op \notin {"in", "not in"} => \E v \in Value : term.values = {v}
    /\ term.field = "mailing_audience_id" => \A v \in term.values : v.spelled # "garbled"

\* The lists that the terms with one of these operators name; in whichever spelling.
ListsOf(m, ops) ==
    {v.list : v \in UNION {term.values : term \in
        {d \in Domain[m] : d.field = "mailing_audience_id" /\ d.op \in ops}}}

\* audience_ids_of: the lists of the positive terms, as the unsubscribe leg reads them
AudienceIdsOf == [m \in Mailing |-> ListsOf(m, {"=", "in"})]

\* pos_auds and neg_auds, as the resolver of recipients reads them
PosAuds == [m \in Mailing |-> ListsOf(m, {"=", "in"})]
NegAuds == [m \in Mailing |-> ListsOf(m, {"!=", "not in"})]

\* canonical_domain_json keeps the value of a term as it came: the database meets a list in
\* the stored JSON in the author's spelling.
Spelled(m, spellings) ==
    {v.list : v \in {u \in UNION {term.values : term \in Domain[m]} : u.spelled \in spellings}}

InFlight == {"draft", "in_queue", "sending"}

\* audience_in_use_by_mailings, and audience_cited_by_live_mailing of the trigger: the uuid's
\* own text, at any depth
InUse(a) == \E m \in Mailing : mailing[m] \in InFlight /\ a \in Spelled(m, {"as_stored"})

-----------------------------------------------------------------------------
(* Subscriptions. *)

\* A row that an unsubscribe has flipped and not yet committed.
Locked(c, a) == \E r \in Reader : leg[r].list = a /\ c \in leg[r].flipped

\* Slip: a repeated opt-out stamps again.
Restamped(row, reason) ==
    IF row.state \in {"in", "out"} THEN [state |-> "out", reason |-> reason] ELSE row

\* Slip: the default reason is not looked up.
Unresolved(row, reason) ==
    IF row.state = "in"
    THEN [state |-> "out", reason |-> IF reason = "default" THEN None ELSE reason] ELSE row

\* The opt-out flip, guarded on NOT opt_out.
OptedOut(row, reason) ==
    IF row.state = "in" THEN [state |-> "out", reason |-> reason] ELSE row

\* create_audience
CreateAudience(a) ==
    /\ audience[a] = "absent"
    /\ \E visibility \in {"public", "private"} : audience' = [audience EXCEPT ![a] = visibility]
    /\ UNCHANGED <<sub, mailing, leg, joining, archiver, write, stopped>>

\* subscribe, first half: only a live public list may be joined
CheckPublic(s, c, a) ==
    /\ joining[s] = None
    /\ <<c, a>> \in Member
    /\ audience[a] = "public"
    /\ joining' = [joining EXCEPT ![s] = <<c, a>>]
    /\ UNCHANGED <<sub, audience, mailing, leg, archiver, write, stopped>>

\* subscribe, second half: the two upserts and the commit; an opt-out is cleared
Subscribe(s, c, a) ==
    /\ joining[s] = <<c, a>>
    /\ ~Locked(c, a)
    /\ sub' = [sub EXCEPT ![<<c, a>>] = [state |-> "in", reason |-> "none"]]
    /\ joining' = [joining EXCEPT ![s] = None]
    /\ stopped' = stopped \ {<<AddressOf[c], a>>}
    /\ leg' = [r \in Reader |-> IF leg[r].address = AddressOf[c]
                                THEN [leg[r] EXCEPT !.owed = @ \ {a}] ELSE leg[r]]
    /\ UNCHANGED <<audience, mailing, archiver, write>>

\* opt_out of one contact, as a preferences page does it
OptOut(c, a) ==
    /\ "opt_out" \in Verbs
    /\ <<c, a>> \in Member /\ ~Locked(c, a)
    /\ sub' = [sub EXCEPT ![<<c, a>>] = OptedOut(@, "picked")]
    /\ UNCHANGED <<audience, mailing, leg, joining, archiver, write, stopped>>

\* remove: the row is soft-deleted, opted out or not
Remove(c, a) ==
    /\ "remove" \in Verbs
    /\ <<c, a>> \in Member /\ ~Locked(c, a)
    /\ sub[<<c, a>>].state \in {"in", "out"}
    /\ sub' = [sub EXCEPT ![<<c, a>>] = [state |-> "removed", reason |-> "none"]]
    /\ UNCHANGED <<audience, mailing, leg, joining, archiver, write, stopped>>

-----------------------------------------------------------------------------
(* The unsubscribe leg. *)

\* A contact row exists from its first subscription on.
Contacts == {c \in Contact : \E a \in Audience : sub[<<c, a>>].state # "none"}

\* Slip: the case-sensitive match, one contact.
ContactByEmail(address) ==
    {c \in Contacts : AddressOf[c] = address /\
        \A d \in Contacts : AddressOf[d] = address => c <= d}

\* contact_ids_by_email
ContactIdsByEmail(address) == {c \in Contacts : AddressOf[c] = address}

\* resolve_contact_recipients: a subscription in the union of the positive lists, whatever the
\* list has become since, and no row on a negative one, opted out or not
ContactRecipients(m) ==
    {c \in Contacts :
        /\ PosAuds[m] # {} => \E a \in PosAuds[m] : sub[<<c, a>>].state = "in"
        /\ \A a \in NegAuds[m] : sub[<<c, a>>].state \notin {"in", "out"}}

SetLeg(r, local) ==
    /\ leg' = [leg EXCEPT ![r] = local]
    /\ UNCHANGED <<audience, mailing, joining, archiver, write>>

\* unsubscribe: the probe and the domain of the trace's mailing are read
Unsubscribe(r, address, m) ==
    /\ leg[r].pc = "idle"
    /\ mailing[m] # "absent"
    /\ SetLeg(r, [NoLeg EXCEPT !.pc = "next", !.address = address, !.todo = AudienceIdsOf[m],
                    !.owed = PosAuds[m]])
    /\ UNCHANGED <<sub, stopped>>

\* unsubscribe_by_email opens its transaction and reads the contacts; NotFound goes on.
ReadContacts(r, a) ==
    /\ leg[r].pc = "next" /\ a \in leg[r].todo
    /\ LET found == ContactIdsByEmail(leg[r].address) IN
       SetLeg(r, IF found = {} THEN [leg[r] EXCEPT !.todo = @ \ {a}]
                 ELSE [leg[r] EXCEPT !.pc = "flip", !.list = a, !.hand = found])
    /\ UNCHANGED <<sub, stopped>>

\* One contact after the other, by id; a row in another transaction's hands is waited for.
FlipContact(r) ==
    /\ leg[r].pc = "flip"
    /\ \E c \in leg[r].hand :
        /\ \A d \in leg[r].hand : c <= d
        /\ \A q \in Reader \ {r} : ~(leg[q].list = leg[r].list /\ c \in leg[q].flipped)
        /\ SetLeg(r, [leg[r] EXCEPT !.hand = @ \ {c},
                        !.flipped = IF sub[<<c, leg[r].list>>].state = "in" THEN @ \cup {c} ELSE @])
    /\ UNCHANGED <<sub, stopped>>

CommitStop(r) ==
    /\ leg[r].pc = "flip" /\ leg[r].hand = {}
    /\ sub' = [pair \in Contact \X Audience |->
                IF pair[2] = leg[r].list /\ pair[1] \in leg[r].flipped
                THEN OptedOut(sub[pair], "default") ELSE sub[pair]]
    /\ SetLeg(r, [leg[r] EXCEPT !.pc = "next", !.todo = @ \ {leg[r].list}, !.list = None,
                                !.flipped = {}])
    /\ UNCHANGED stopped

\* Every list has been dealt with.
Answer(r) ==
    /\ leg[r].pc = "next" /\ leg[r].todo = {}
    /\ stopped' = stopped \cup {<<leg[r].address, a>> : a \in leg[r].owed}
    /\ SetLeg(r, NoLeg)
    /\ UNCHANGED sub

\* The process dies: an open transaction is rolled back, committed lists stay stopped.
Abandon(r) ==
    /\ leg[r].pc # "idle"
    /\ SetLeg(r, NoLeg)
    /\ UNCHANGED <<sub, stopped>>

-----------------------------------------------------------------------------
(* Writes of mailings.  Each takes a share lock on the lists the row names. *)

\* can_transition, and the transitions' targets
Machine ==
    [launch |-> <<{"draft"}, "in_queue">>, pickup |-> <<{"in_queue"}, "sending">>,
     complete |-> <<{"sending"}, "done">>, complete_empty |-> <<{"in_queue"}, "done">>,
     cancel |-> <<{"in_queue", "sending", "done"}, "draft">>,
     unpark |-> <<{"sending"}, "in_queue">>, retry_failed |-> <<{"done"}, "in_queue">>]

\* Slip: no trigger on the state.
Unchecked(from, to) == TRUE

\* The trigger on state.
Declared(from, to) ==
    from = to \/ \E verb \in DOMAIN Machine : from \in Machine[verb][1] /\ Machine[verb][2] = to

\* Slip: a mailing is written without a look at its lists.
Unlocked(m, to) == TRUE

\* The lists whose rows mailings_share_named_lists locks, by the form of a uuid.
Shared(m) == Spelled(m, {"as_stored", "capitals"})

\* No archive holds a list that the row will name in flight.
MayShare(m, to) ==
    to \in InFlight => \A x \in Archiver : archiver[x].list \notin Shared(m)

SetWrite(o, local) ==
    /\ write' = [write EXCEPT ![o] = local]
    /\ UNCHANGED <<sub, audience, leg, joining, archiver, stopped>>

\* create_mailing: the domain parses, then the INSERT of a draft
CreateMailing(o, m) ==
    /\ write[o].pc = "idle"
    /\ \A term \in Domain[m] : Parses(term)
    /\ mailing[m] = "absent" /\ \A p \in Operator : write[p].mailing # m
    /\ MayShare(m, "draft")
    /\ SetWrite(o, [pc |-> "open", mailing |-> m, to |-> "draft"])
    /\ UNCHANGED mailing

\* A transition route reads the row and checks the machine in memory ...
ReadForRoute(o, m, verb) ==
    /\ write[o].pc = "idle"
    /\ mailing[m] \in Machine[verb][1]
    /\ SetWrite(o, [pc |-> "read", mailing |-> m, to |-> Machine[verb][2]])
    /\ UNCHANGED mailing

LaunchTransition(o, m)        == ReadForRoute(o, m, "launch")
PickupTransition(o, m)        == ReadForRoute(o, m, "pickup")
CompleteTransition(o, m)      == ReadForRoute(o, m, "complete")
CompleteEmptyTransition(o, m) == ReadForRoute(o, m, "complete_empty")
CancelTransition(o, m)        == ReadForRoute(o, m, "cancel")
UnparkTransition(o, m)        == ReadForRoute(o, m, "unpark")
RetryFailedTransition(o, m)   == ReadForRoute(o, m, "retry_failed")

\* ... and updates state alone: both triggers have their say about the row as it is now.
UpdateState(o) ==
    /\ write[o].pc = "read"
    /\ \A p \in Operator : ~(write[p].pc = "open" /\ write[p].mailing = write[o].mailing)
    /\ IF Declared(mailing[write[o].mailing], write[o].to)
       THEN /\ MayShare(write[o].mailing, write[o].to)
            /\ SetWrite(o, [write[o] EXCEPT !.pc = "open"])
       ELSE SetWrite(o, NoWrite)
    /\ UNCHANGED mailing

CommitWrite(o) ==
    /\ write[o].pc = "open"
    /\ mailing' = [mailing EXCEPT ![write[o].mailing] = write[o].to]
    /\ SetWrite(o, NoWrite)

-----------------------------------------------------------------------------
(* The archive guard. *)

Sharing(a) ==
    \E o \in Operator : /\ write[o].pc = "open" /\ write[o].to \in InFlight
                        /\ a \in Shared(write[o].mailing)

Held(a) == \E x \in Archiver : archiver[x].list = a

SetArchiver(x, local) ==
    /\ archiver' = [archiver EXCEPT ![x] = local]
    /\ UNCHANGED <<sub, mailing, leg, joining, write, stopped>>

\* lock_audience: FOR UPDATE
LockAudience(x, a) ==
    /\ archiver[x].list = None
    /\ audience[a] \in {"public", "private"}
    /\ ~Sharing(a) /\ ~Held(a)
    /\ SetArchiver(x, [list |-> a, probed |-> FALSE])
    /\ UNCHANGED audience

\* audience_in_use_by_mailings: 409 and a rollback while a mailing in flight names the list
ProbeInUse(x) ==
    /\ archiver[x].list # None /\ ~archiver[x].probed
    /\ SetArchiver(x, IF InUse(archiver[x].list) THEN NoArchive
                      ELSE [archiver[x] EXCEPT !.probed = TRUE])
    /\ UNCHANGED audience

\* soft_delete_audience under the trigger, and the commit
ArchiveAudience(x) ==
    /\ archiver[x].probed
    /\ audience' = IF InUse(archiver[x].list) THEN audience
                   ELSE [audience EXCEPT ![archiver[x].list] = "archived"]
    /\ SetArchiver(x, NoArchive)

\* The generated soft delete: one statement, that the trigger alone guards.
SoftDelete(a) ==
    /\ "soft_delete" \in Verbs
    /\ audience[a] \in {"public", "private"}
    /\ ~Sharing(a) /\ ~Held(a)
    /\ ~InUse(a)
    /\ audience' = [audience EXCEPT ![a] = "archived"]
    /\ UNCHANGED <<sub, mailing, leg, joining, archiver, write, stopped>>

-----------------------------------------------------------------------------
Init ==
    /\ sub = [pair \in Contact \X Audience |-> NoSub]
    /\ audience = [a \in Audience |-> IF a \in Opening THEN "public" ELSE "absent"]
    /\ mailing = [m \in Mailing |-> IF m \in Drafts THEN "draft" ELSE "absent"]
    /\ leg = [r \in Reader |-> NoLeg]
    /\ joining = [s \in Subscriber |-> None]
    /\ archiver = [x \in Archiver |-> NoArchive]
    /\ write = [o \in Operator |-> NoWrite]
    /\ stopped = {}

Lists ==
    \/ \E a \in Audience : CreateAudience(a) \/ SoftDelete(a)
    \/ \E s \in Subscriber, c \in Contact, a \in Audience :
        CheckPublic(s, c, a) \/ Subscribe(s, c, a)
    \/ \E c \in Contact, a \in Audience : OptOut(c, a) \/ Remove(c, a)
    \/ \E x \in Archiver :
        \/ \E a \in Audience : LockAudience(x, a)
        \/ ProbeInUse(x)
        \/ ArchiveAudience(x)

Leg(r) ==
    \/ \E c \in Contact, m \in Mailing : Unsubscribe(r, AddressOf[c], m)
    \/ \E a \in Audience : ReadContacts(r, a)
    \/ FlipContact(r)
    \/ CommitStop(r)
    \/ Answer(r)
    \/ Abandon(r)

Writes(o) ==
    \/ \E m \in Mailing :
        \/ CreateMailing(o, m)
        \/ LaunchTransition(o, m)
        \/ PickupTransition(o, m)
        \/ CompleteTransition(o, m)
        \/ CompleteEmptyTransition(o, m)
        \/ CancelTransition(o, m)
        \/ UnparkTransition(o, m)
        \/ RetryFailedTransition(o, m)
    \/ UpdateState(o)
    \/ CommitWrite(o)

Next ==
    \/ Lists
    \/ \E r \in Reader : Leg(r)
    \/ \E o \in Operator : Writes(o)

Spec == Init /\ [][Next]_vars

-----------------------------------------------------------------------------
(* Properties. *)

TypeOK ==
    /\ sub \in [Contact \X Audience -> SubRow]
    /\ audience \in [Audience -> ListState]
    /\ mailing \in [Mailing -> {"absent"} \cup InFlight \cup {"done"}]
    /\ leg \in [Reader -> LegRow]
    /\ joining \in [Subscriber -> {None} \cup (Contact \X Audience)]
    /\ archiver \in [Archiver -> ArchiverRow]
    /\ write \in [Operator -> WriteRow]
    /\ stopped \subseteq {AddressOf[c] : c \in Contact} \X Audience

\* "An address the reader asked to stop must stop": once a leg has answered, whichever contact
\* rows the address has, in any spelling, and whatever came and went while the leg was under
\* way, no mailing to the lists it left resolves one of them as a recipient, until somebody of
\* that address joins again.
StopReachesAll ==
    \A m \in Mailing :
        PosAuds[m] # {} =>
            \A c \in ContactRecipients(m) : ~({AddressOf[c]} \X PosAuds[m] \subseteq stopped)

\* The first opt-out is the durable fact: a second one, by another leg or the preferences
\* page, in whatever order they wait for the row, changes nothing of it.
FirstOptOutKept ==
    [][\A pair \in Contact \X Audience :
        sub[pair].state = "out" /\ sub'[pair].state = "out" =>
            sub'[pair].reason = sub[pair].reason]_vars

Names(m, a) == a \in ListsOf(m, Operators)

\* A list is not archived while a mailing in draft, queue or sending names it, as the resolver
\* of recipients reads the domain, nor while a write that names it is uncommitted.
ArchiveSafe ==
    [][\A a \in Audience : audience[a] # "archived" /\ audience'[a] = "archived" =>
        /\ \A m \in Mailing : Names(m, a) => mailing[m] \notin InFlight
        /\ \A o \in Operator :
            write[o].pc = "open" /\ write[o].to \in InFlight => ~Names(write[o].mailing, a)]_vars

Lifecycle == INSTANCE MailingLifecycle WITH
    state <- [m \in Mailing |-> IF mailing[m] = "absent" THEN "draft" ELSE mailing[m]]

\* The routes decide on a state they read before, and still move mailings along declared edges.
ImplementsLifecycle == Lifecycle!Spec
=============================================================================
