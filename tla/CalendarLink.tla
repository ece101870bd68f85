------------------------------ MODULE CalendarLink ------------------------------
(***************************************************************************)
(* 1:1 meetings mirrored in the participants' external calendars.  The     *)
(* handlers that schedule, move, cancel or close a meeting queue a row of  *)
(* calendar_event_links for every linked account; syncCalendarLinks reads  *)
(* the waiting rows, then calls the calendar of each and writes back what  *)
(* came of it, while the handlers, the account holders and other runs of   *)
(* the job go on.  A "hand" is one row of a run's snapshot being worked    *)
(* on: it remembers the row as the run read it.                            *)
(***************************************************************************)
EXTENDS Integers, FiniteSets, Functions

CONSTANTS
    Meetings,    \* rows of meetings, all of one relation
    Accounts,    \* rows of connector_accounts the two participants may come to have
    Calendar,    \* the external calendar each of those accounts opens
    Events,      \* bound: external events that may ever be created
    Hands,       \* rows of snapshots in hand at once
    Overlap,     \* whether a run of the job may start before another has ended
    MaxAttempts, \* attempts before giving up (5)
    MaxSequence, \* bound: how often each meeting may be moved, called off or restored
    MaxTrouble,  \* bound: lost answers, failed updates and crashes
    None

ASSUME CalendarAssumption ==
    /\ None \notin Events
    /\ Overlap \in BOOLEAN
    /\ MaxAttempts \in Nat \ {0}
    /\ MaxSequence \in [Meetings -> Nat]
    /\ MaxTrouble \in Nat

VARIABLES
    meeting,  \* status and sequence: icalSequence, which stands for time and length
    account,  \* status of each account
    link,     \* the rows of calendar_event_links, by meeting and account
    event,    \* the external calendars
    hand,     \* the rows in hand
    fresh,    \* history: the last change was queued on the link with nobody at work on it
    trouble   \* history: lost answers, failed updates and crashes so far

vars == <<meeting, account, link, event, hand, fresh, trouble>>

Off == {"cancelled", "skipped"}
Linked == {"active", "error"}  \* an account row that exists
Free == [phase |-> "free"]
Unset == [status |-> "none", sequence |-> 0]
Planned == [status |-> "scheduled", sequence |-> 0]
NoLink == [status |-> "none"]
NoEvent == [status |-> "none"]

Holds(h, m, a) == hand[h] # Free /\ hand[h].m = m /\ hand[h].a = a
Held(m, a) == \E h \in Hands : Holds(h, m, a)

-------------------------------------------------------------------------------
(* Handlers of a meeting *)

NewLink(op) == [op |-> op, status |-> "pending", attempts |-> 0, event |-> None]

\* Mutant: attempts of an earlier change are kept.
RequeuedTired(l, op) == [l EXCEPT !.op = op, !.status = "pending"]
Requeued(l, op) == [l EXCEPT !.op = op, !.status = "pending", !.attempts = 0]

\* What queueing an operation does to a row: the removal of an event nobody
\* knows of is considered done at once.
Queued(l, op) ==
    CASE op = "delete" /\ l = NoLink -> NoLink
      [] op = "delete" /\ l # NoLink /\ l.event = None ->
            [l EXCEPT !.op = "delete", !.status = "deleted"]
      [] l # NoLink /\ (op = "upsert" \/ l.event # None) -> Requeued(l, op)
      [] OTHER -> NewLink(op)

\* enqueueMeeting: only accounts in good standing take part.
EnqueueMeeting(m, op) ==
    /\ link' = [link EXCEPT ![m] =
                 [a \in Accounts |-> IF account[a] = "active" THEN Queued(@[a], op) ELSE @[a]]]
    /\ fresh' = [fresh EXCEPT ![m] =
                  [a \in Accounts |-> account[a] = "active" /\ ~ Held(m, a)]]

\* createRelation and createMeeting: a meeting enters the agenda.
CreateMeeting(m) ==
    /\ meeting[m] = Unset
    /\ meeting' = [meeting EXCEPT ![m] = Planned]
    /\ EnqueueMeeting(m, "upsert")
    /\ UNCHANGED <<account, event, hand, trouble>>

\* updateMeeting: a new time or length, a new status, or both.
Rescheduled(m, moved, status) ==
    moved \/ (status = "scheduled" /\ meeting[m].status # "scheduled")
Cancelled(m, status) == status \in Off /\ meeting[m].status = "scheduled"

\* Mutant: a change of time does not reach the calendars.
MovedSilently(m, moved, status) ==
    \/ Cancelled(m, status) /\ EnqueueMeeting(m, "delete")
    \/ /\ ~ Cancelled(m, status) /\ Rescheduled(m, FALSE, status)
       /\ EnqueueMeeting(m, "upsert")
    \/ ~ Cancelled(m, status) /\ ~ Rescheduled(m, FALSE, status) /\ UNCHANGED <<link, fresh>>
Notify(m, moved, status) ==
    \/ Cancelled(m, status) /\ EnqueueMeeting(m, "delete")
    \/ /\ ~ Cancelled(m, status) /\ Rescheduled(m, moved, status)
       /\ EnqueueMeeting(m, "upsert")
    \/ ~ Cancelled(m, status) /\ ~ Rescheduled(m, moved, status) /\ UNCHANGED <<link, fresh>>

Changed(m, moved, status) == Cancelled(m, status) \/ Rescheduled(m, moved, status)
UpdateMeeting(m, moved, status) ==
    /\ meeting[m].status \notin {"none", "done"}
    /\ Changed(m, moved, status) => meeting[m].sequence < MaxSequence[m]
    /\ meeting' = [meeting EXCEPT
                    ![m].status = IF status = None THEN @ ELSE status,
                    ![m].sequence = IF Changed(m, moved, status) THEN @ + 1 ELSE @]
    /\ Notify(m, moved, status)
    /\ UNCHANGED <<account, event, hand, trouble>>

\* completeMeeting: the meeting is closed, whatever it was before, and the next
\* one, if any, is scheduled.  The event of a closed meeting stays as it is.
CompleteMeeting(m) ==
    /\ meeting[m].status \notin {"none", "done"}
    /\ meeting' = [meeting EXCEPT ![m].status = "done"]
    /\ UNCHANGED <<account, link, event, hand, fresh, trouble>>

CompleteAndSchedule(m, next) ==
    /\ meeting[m].status \notin {"none", "done"}
    /\ meeting[next] = Unset
    /\ meeting' = [meeting EXCEPT ![m].status = "done",
                                  ![next] = Planned]
    /\ EnqueueMeeting(next, "upsert")
    /\ UNCHANGED <<account, event, hand, trouble>>

-------------------------------------------------------------------------------
(* Accounts *)

\* callback: the account linked to this calendar is renewed, or a new one made.
Connect(a) ==
    /\ \/ account[a] \in Linked
       \/ /\ account[a] = "unused"
          /\ \A b \in Accounts :
                Calendar[b] = Calendar[a] => account[b] \in {"unused", "removed"}
    /\ account' = [account EXCEPT ![a] = "active"]
    /\ UNCHANGED <<meeting, link, event, hand, fresh, trouble>>

\* disconnect: the account's row is deleted; its links and its events are not.
Disconnect(a) ==
    /\ account[a] \in Linked
    /\ account' = [account EXCEPT ![a] = "removed"]
    /\ UNCHANGED <<meeting, link, event, hand, fresh, trouble>>

-------------------------------------------------------------------------------
(* A run of syncCalendarLinks over one row *)

Waiting(m, a) == link[m][a].status = "pending" /\ link[m][a].attempts < MaxAttempts

Take(h, m, a) ==
    /\ hand[h] = Free
    /\ link[m][a] # NoLink /\ Waiting(m, a)
    /\ Held(m, a) => Overlap
    /\ hand' = [hand EXCEPT ![h] =
                 [phase |-> "taken", m |-> m, a |-> a, op |-> link[m][a].op,
                  event |-> link[m][a].event, attempts |-> link[m][a].attempts + 1]]
    /\ UNCHANGED <<meeting, account, link, event, fresh, trouble>>

\* The row has been dealt with, one way or another: what is left is to say so.
\* event is the one the calendar answered with.
Ended(t, outcome, e) ==
    [phase |-> "mark", m |-> t.m, a |-> t.a, op |-> t.op, event |-> e,
     attempts |-> t.attempts, outcome |-> outcome]

\* The account is read afresh; the operation is the row's.
Read(h) ==
    LET t == hand[h]
    IN
    /\ t.phase = "taken"
    /\ hand' = [hand EXCEPT ![h] =
                 CASE account[t.a] \notin Linked -> Ended(t, "skip", t.event)
                   [] OTHER -> [phase |-> "linked", m |-> t.m, a |-> t.a, op |-> t.op,
                                event |-> t.event, attempts |-> t.attempts]]
    /\ UNCHANGED <<meeting, account, link, event, fresh, trouble>>

\* Then, with a token in hand, the meeting: what the calendar will be told of it.
ReadMeeting(h) ==
    LET t == hand[h]
    IN
    /\ t.phase = "linked"
    /\ hand' = [hand EXCEPT ![h] =
                 [phase |-> "call", m |-> t.m, a |-> t.a, op |-> t.op, event |-> t.event,
                  attempts |-> t.attempts, want |-> meeting[t.m].sequence]]
    /\ UNCHANGED <<meeting, account, link, event, fresh, trouble>>

\* What a call does to the calendar.  Without a known event a new one is made;
\* a removal finds the event or has nothing to do.
Live(e) == event[e] # NoEvent /\ event[e].live
Insert(t, e) ==
    /\ t.op = "upsert" /\ t.event = None
    /\ event[e] = NoEvent
    /\ event' = [event EXCEPT ![e] = [m |-> t.m, a |-> t.a, sequence |-> t.want, live |-> TRUE]]
Patch(t, e) ==
    /\ t.op = "upsert" /\ t.event = e
    /\ Live(e)
    /\ event' = [event EXCEPT ![e].sequence = t.want]
Remove(t, e) ==
    /\ t.op = "delete" /\ t.event = e
    /\ event' = [event EXCEPT ![e].live = FALSE]

\* A token renewed on the way is kept when all goes well, and puts the account right.
Renewed(a) == [account EXCEPT ![a] = IF @ \in Linked THEN "active" ELSE @]

\* The call succeeds, and so does its answer.
Done(t) == IF t.op = "delete" THEN "deleted" ELSE "synced"
Succeed(h, e) ==
    /\ hand[h].phase = "call"
    /\ Insert(hand[h], e) \/ Patch(hand[h], e) \/ Remove(hand[h], e)
    /\ hand' = [hand EXCEPT ![h] = Ended(@, Done(@), e)]
    /\ account' \in {account, Renewed(hand[h].a)}
    /\ UNCHANGED <<meeting, link, fresh, trouble>>

\* A removal without a known event calls nobody.
NothingToRemove(h) ==
    /\ hand[h].phase = "call" /\ hand[h].op = "delete" /\ hand[h].event = None
    /\ hand' = [hand EXCEPT ![h] = Ended(@, "deleted", None)]
    /\ account' \in {account, Renewed(hand[h].a)}
    /\ UNCHANGED <<meeting, link, event, fresh, trouble>>

\* The calendar acts and the answer is lost: ten seconds pass, the run sees an error.
LoseAnswer(h, e) ==
    /\ hand[h].phase = "call"
    /\ trouble < MaxTrouble
    /\ trouble' = trouble + 1
    /\ Insert(hand[h], e) \/ Patch(hand[h], e) \/ Remove(hand[h], e)
    /\ hand' = [hand EXCEPT ![h] = Ended(@, "error", @.event)]
    /\ UNCHANGED <<meeting, account, link, fresh>>

\* The turn comes to nothing: a read, the network, the service, an event that is no
\* more ("error"); a token that is refused or cannot be renewed ("unauthorized").
Fail(h, outcome) ==
    /\ \/ hand[h].phase \in {"linked", "call"}
       \/ hand[h].phase = "taken" /\ outcome = "error"
    /\ hand' = [hand EXCEPT ![h] = Ended(@, outcome, @.event)]
    /\ UNCHANGED <<meeting, account, link, event, fresh, trouble>>

\* The update of the row that closes its turn writes what the run knows, whatever
\* the row has become since it was read.
\* Mutant: the event that was made is not remembered.
OutcomeForgetful(l, t) ==
    [l EXCEPT !.attempts = t.attempts,
              !.status = CASE t.outcome = "skip" \/ t.outcome = "unauthorized" -> "failed"
                           [] t.outcome = "error" -> IF t.attempts >= MaxAttempts
                                                     THEN "failed" ELSE "pending"
                           [] OTHER -> t.outcome]
Outcome(l, t) ==
    [l EXCEPT !.attempts = t.attempts,
              !.event = IF t.outcome = "synced" THEN t.event ELSE @,
              !.status = CASE t.outcome = "skip" \/ t.outcome = "unauthorized" -> "failed"
                           [] t.outcome = "error" -> IF t.attempts >= MaxAttempts
                                                     THEN "failed" ELSE "pending"
                           [] OTHER -> t.outcome]

Mark(h) ==
    LET t == hand[h]
    IN
    /\ t.phase = "mark"
    /\ link' = [link EXCEPT ![t.m][t.a] = Outcome(@, t)]
    /\ hand' = [hand EXCEPT ![h] = IF t.outcome = "unauthorized"
                                   THEN [phase |-> "blame", m |-> t.m, a |-> t.a] ELSE Free]
    /\ UNCHANGED <<meeting, account, event, fresh, trouble>>

\* A refusal is then written on the account too, if it is still there.
Blame(h) ==
    /\ hand[h].phase = "blame"
    /\ account' = [account EXCEPT ![hand[h].a] = IF @ \in Linked THEN "error" ELSE @]
    /\ hand' = [hand EXCEPT ![h] = Free]
    /\ UNCHANGED <<meeting, link, event, fresh, trouble>>

\* The update fails: inside the try that counts as a failed attempt, and what the
\* calendar answered is forgotten.
MarkFails(h) ==
    /\ hand[h].phase = "mark" /\ hand[h].outcome \in {"skip", "synced", "deleted"}
    /\ trouble < MaxTrouble
    /\ trouble' = trouble + 1
    /\ hand' = [hand EXCEPT ![h].outcome = "error"]
    /\ UNCHANGED <<meeting, account, link, event, fresh>>

\* The worker dies, or the update in the catch fails and ends the run.
Crash(h) ==
    /\ hand[h] # Free
    /\ trouble < MaxTrouble
    /\ trouble' = trouble + 1
    /\ hand' = [hand EXCEPT ![h] = Free]
    /\ UNCHANGED <<meeting, account, link, event, fresh>>

-------------------------------------------------------------------------------
(* The specification *)

Init ==
    /\ meeting = [m \in Meetings |-> Unset]
    /\ account = [a \in Accounts |-> "unused"]
    /\ link = [m \in Meetings |-> [a \in Accounts |-> NoLink]]
    /\ event = [e \in Events |-> NoEvent]
    /\ hand = [h \in Hands |-> Free]
    /\ fresh = [m \in Meetings |-> [a \in Accounts |-> FALSE]]
    /\ trouble = 0

Handlers ==
    \E m \in Meetings :
        \/ CreateMeeting(m)
        \/ \E moved \in BOOLEAN, s \in Off \cup {"scheduled", None} : UpdateMeeting(m, moved, s)
        \/ CompleteMeeting(m)
        \/ \E next \in Meetings : CompleteAndSchedule(m, next)

Work(h) ==
    \/ Read(h) \/ ReadMeeting(h) \/ NothingToRemove(h)
    \/ \E e \in Events : Succeed(h, e) \/ LoseAnswer(h, e)
    \/ \E outcome \in {"error", "unauthorized"} : Fail(h, outcome)
    \/ Mark(h) \/ Blame(h)

Next ==
    \/ Handlers
    \/ \E a \in Accounts : Connect(a) \/ Disconnect(a)
    \/ \E h \in Hands :
        \/ \E m \in Meetings, a \in Accounts : Take(h, m, a)
        \/ Work(h) \/ MarkFails(h) \/ Crash(h)

\* The timer keeps starting the job and a run goes on to its end.
Fairness ==
    /\ \A m \in Meetings, a \in Accounts : WF_vars(\E h \in Hands : Take(h, m, a))
    /\ \A h \in Hands : WF_vars(Work(h))

Spec == Init /\ [][Next]_vars /\ Fairness

-------------------------------------------------------------------------------
(* Properties *)

LinkType ==
    {NoLink}
    \cup [op : {"upsert", "delete"}, status : {"pending", "synced", "deleted", "failed"},
          attempts : 0 .. MaxAttempts, event : Events \cup {None}]
EventType == {NoEvent} \cup [m : Meetings, a : Accounts, sequence : Nat, live : BOOLEAN]
HandType ==
    {Free}
    \cup [phase : {"taken", "linked"}, m : Meetings, a : Accounts, op : {"upsert", "delete"},
          event : Events \cup {None}, attempts : 1 .. MaxAttempts]
    \cup [phase : {"call"}, m : Meetings, a : Accounts, op : {"upsert", "delete"},
          event : Events \cup {None}, attempts : 1 .. MaxAttempts, want : Nat]
    \cup [phase : {"mark"}, m : Meetings, a : Accounts, op : {"upsert", "delete"},
          event : Events \cup {None}, attempts : 1 .. MaxAttempts,
          outcome : {"skip", "synced", "deleted", "error", "unauthorized"}]
    \cup [phase : {"blame"}, m : Meetings, a : Accounts]

\* Rows, events and what the runs hold have their types; no row passes five attempts.
TypeOK ==
    /\ meeting \in [Meetings -> [status : {"none", "scheduled", "done"} \cup Off,
                                 sequence : Nat]]
    /\ account \in [Accounts -> {"unused", "active", "error", "removed"}]
    /\ link \in [Meetings -> [Accounts -> LinkType]]
    /\ event \in [Events -> EventType]
    /\ hand \in [Hands -> HandType]
    /\ fresh \in [Meetings -> [Accounts -> BOOLEAN]]
    /\ trouble \in 0 .. MaxTrouble

Known(m, a) == link[m][a] # NoLink /\ link[m][a].event # None

\* A row says the truth about the calendar unless it was overtaken: if the last
\* change of the meeting found the account linked and nobody at work on the row,
\* then "synced" means the event is there as the meeting is, and "deleted" that
\* the event the row knows is gone, whatever runs overlap, fail or crash.
TruthUnlessOvertaken ==
    \A m \in Meetings, a \in Accounts :
        (fresh[m][a] /\ link[m][a] # NoLink) =>
            /\ link[m][a].status = "synced" =>
                 /\ Known(m, a) /\ Live(link[m][a].event)
                 /\ event[link[m][a].event].sequence = meeting[m].sequence
            /\ link[m][a].status = "deleted" => ~ (Known(m, a) /\ Live(link[m][a].event))

\* An event nobody knows of any more (not its row, not the run that made it) is
\* the work of a lost answer, a failed update or a crash, and each leaves only one.
Strays ==
    {e \in Events :
        /\ Live(e)
        /\ link[event[e].m][event[e].a].event # e
        /\ \A h \in Hands : hand[h] # Free => ~ (hand[h].phase = "mark" /\ hand[h].event = e)}
StraysExplained == ~ Overlap => Cardinality(Strays) <= trouble

\* Every queued operation is settled in the end, carried out or given up.
LinkSettles ==
    \A m \in Meetings, a \in Accounts :
        (link[m][a] # NoLink /\ link[m][a].status = "pending") ~> link[m][a].status # "pending"

===============================================================================
