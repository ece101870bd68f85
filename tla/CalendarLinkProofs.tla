--------------------------- MODULE CalendarLinkProofs ---------------------------
(***************************************************************************)
(* Proofs about CalendarLink, for any number of meetings, accounts and     *)
(* hands: the types and that a row tells the truth unless it was           *)
(* overtaken, whatever runs overlap; and that each stray event has its     *)
(* trouble, when they do not.                                              *)
(***************************************************************************)
EXTENDS CalendarLink, FiniteSetTheorems, TLAPS

Ops == {"upsert", "delete"}
Outcomes == {"skip", "synced", "deleted", "error", "unauthorized"}

-------------------------------------------------------------------------------
(* The inductive invariant *)

OwnedBy(e, m, a) == event[e] # NoEvent /\ event[e].m = m /\ event[e].a = a
AsMeeting(e, m) == Live(e) /\ event[e].sequence = meeting[m].sequence

\* A row knows only events made for it, and tells the truth unless overtaken.
LinkOK(m, a) ==
    link[m][a] # NoLink =>
        /\ link[m][a].event # None => OwnedBy(link[m][a].event, m, a)
        /\ fresh[m][a] /\ link[m][a].status = "synced" =>
             link[m][a].op = "upsert" /\ link[m][a].event # None /\ AsMeeting(link[m][a].event, m)
        /\ fresh[m][a] /\ link[m][a].status = "deleted" =>
             link[m][a].op = "delete" /\ (link[m][a].event # None => ~ Live(link[m][a].event))

\* A hand whose row was not overtaken does what the row asks for, and holds an
\* answer that is still true.
InStep(t) ==
    /\ t.op = link[t.m][t.a].op
    /\ t.op = "delete" => t.event = link[t.m][t.a].event
    /\ t.phase = "call" /\ t.op = "upsert" => t.want = meeting[t.m].sequence
    /\ t.phase = "mark" /\ t.outcome = "synced" => AsMeeting(t.event, t.m)
    /\ t.phase = "mark" /\ t.outcome = "deleted" => (t.event # None => ~ Live(t.event))

Sound(t) ==
    /\ t.event # None => OwnedBy(t.event, t.m, t.a)
    /\ t.phase = "mark" /\ t.outcome = "synced" => t.op = "upsert" /\ t.event # None
    /\ t.phase = "mark" /\ t.outcome = "deleted" => t.op = "delete"
    /\ fresh[t.m][t.a] => InStep(t)

HandOK(h) ==
    hand[h] # Free =>
        /\ link[hand[h].m][hand[h].a] # NoLink
        /\ hand[h].phase # "blame" => Sound(hand[h])

Links_OK == \A m \in Meetings, a \in Accounts : LinkOK(m, a)
Hands_OK == \A h \in Hands : HandOK(h)
Inv == TypeOK /\ Links_OK /\ Hands_OK

\* What is in a hand that is not free.
LEMMA HandFacts ==
    ASSUME TypeOK, NEW h \in Hands, hand[h] # Free
    PROVE  /\ hand[h].m \in Meetings /\ hand[h].a \in Accounts
           /\ hand[h].phase \in {"taken", "linked", "call", "mark", "blame"}
           /\ hand[h].phase # "blame" =>
                hand[h].op \in Ops /\ hand[h].event \in Events \cup {None}
                /\ hand[h].attempts \in 1 .. MaxAttempts
           /\ hand[h].phase = "call" => hand[h].want \in Nat
           /\ hand[h].phase = "mark" => hand[h].outcome \in Outcomes
<1>1. hand[h] \in HandType /\ hand[h] # Free
  BY DEF TypeOK
<1> QED BY <1>1 DEF HandType, Free, Ops, Outcomes

\* What a row is.
LEMMA LinkFacts ==
    ASSUME TypeOK, NEW m \in Meetings, NEW a \in Accounts, link[m][a] # NoLink
    PROVE  /\ link[m][a].op \in Ops /\ link[m][a].event \in Events \cup {None}
           /\ link[m][a].status \in {"pending", "synced", "deleted", "failed"}
           /\ link[m][a].attempts \in 0 .. MaxAttempts
<1>1. link[m][a] \in LinkType /\ link[m][a] # NoLink
  BY DEF TypeOK
<1> QED BY <1>1 DEF LinkType, NoLink, Ops

-------------------------------------------------------------------------------
(* The initial states *)

LEMMA InitInv == Init => Inv
<1> SUFFICES ASSUME Init PROVE Inv
  OBVIOUS
<1> USE CalendarAssumption
<1>1. TypeOK
  BY DEF Init, TypeOK, Unset, NoLink, NoEvent, Free, LinkType, EventType, HandType
<1>2. Links_OK
  BY DEF Init, Links_OK, LinkOK
<1>3. Hands_OK
  BY DEF Init, Hands_OK, HandOK
<1> QED BY <1>1, <1>2, <1>3 DEF Inv

-------------------------------------------------------------------------------
(* The handlers of a meeting *)

\* What queueing makes of a row.
LEMMA QueuedFacts ==
    ASSUME TypeOK, NEW m \in Meetings, NEW a \in Accounts, NEW op \in Ops
    PROVE  /\ Queued(link[m][a], op) \in LinkType
           /\ link[m][a] # NoLink => Queued(link[m][a], op) # NoLink
           /\ Queued(link[m][a], op) # NoLink =>
                /\ Queued(link[m][a], op).event =
                     IF link[m][a] = NoLink THEN None ELSE link[m][a].event
                /\ Queued(link[m][a], op).status # "synced"
                /\ Queued(link[m][a], op).status = "deleted" =>
                     Queued(link[m][a], op).op = "delete" /\ Queued(link[m][a], op).event = None
<1> DEFINE l == link[m][a]
<1> USE CalendarAssumption
<1>0. l \in LinkType
  BY DEF TypeOK
<1> HIDE DEF l
<1>1. CASE op = "delete" /\ l = NoLink
  <2>1. Queued(l, op) = NoLink
    BY <1>1 DEF Queued
  <2> QED BY <1>1, <2>1, <1>0 DEF l, LinkType
<1>2. CASE op = "delete" /\ l # NoLink /\ l.event = None
  <2>1. Queued(l, op) = [l EXCEPT !.op = "delete", !.status = "deleted"]
    BY <1>2 DEF Queued
  <2>2. l \in [op : {"upsert", "delete"}, status : {"pending", "synced", "deleted", "failed"},
               attempts : 0 .. MaxAttempts, event : Events \cup {None}]
    BY <1>0, <1>2 DEF LinkType
  <2>3. Queued(l, op) \in LinkType /\ Queued(l, op).event = None
        /\ Queued(l, op).status = "deleted" /\ Queued(l, op).op = "delete"
    BY <1>2, <2>1, <2>2 DEF LinkType
  <2>4. Queued(l, op) # NoLink
    BY <2>1, <2>2 DEF NoLink
  <2> QED BY <1>2, <2>3, <2>4 DEF l
<1>3. CASE l # NoLink /\ (op = "upsert" \/ l.event # None)
  <2>1. Queued(l, op) = [l EXCEPT !.op = op, !.status = "pending", !.attempts = 0]
    BY <1>3 DEF Queued, Requeued, Ops
  <2>2. l \in [op : {"upsert", "delete"}, status : {"pending", "synced", "deleted", "failed"},
               attempts : 0 .. MaxAttempts, event : Events \cup {None}]
    BY <1>0, <1>3 DEF LinkType
  <2>3. Queued(l, op) \in LinkType /\ Queued(l, op).event = l.event
        /\ Queued(l, op).status = "pending"
    <3>1. op \in {"upsert", "delete"} /\ 0 \in 0 .. MaxAttempts
      BY DEF Ops
    <3>2. Queued(l, op) \in [op : {"upsert", "delete"}, attempts : 0 .. MaxAttempts,
                             status : {"pending", "synced", "deleted", "failed"},
                             event : Events \cup {None}]
      BY <3>1, <2>1, <2>2
    <3>3. Queued(l, op).event = l.event /\ Queued(l, op).status = "pending"
      BY <2>1, <2>2
    <3> QED BY <3>2, <3>3 DEF LinkType
  <2>4. Queued(l, op) # NoLink
    BY <2>1, <2>2 DEF NoLink
  <2>5. Queued(l, op).status \notin {"synced", "deleted"}
    BY <2>3
  <2> HIDE DEF LinkType
  <2> QED BY <1>3, <2>3, <2>4, <2>5, Zenon DEF l
<1>4. CASE l = NoLink /\ op = "upsert"
  <2>1. Queued(l, op) = [op |-> op, status |-> "pending", attempts |-> 0, event |-> None]
    BY <1>4 DEF Queued, NewLink
  <2>2. Queued(l, op) \in LinkType /\ Queued(l, op).event = None
        /\ Queued(l, op).status = "pending"
    BY <1>4, <2>1 DEF LinkType
  <2>3. Queued(l, op) # NoLink
    BY <2>1 DEF NoLink
  <2> QED BY <1>4, <2>2, <2>3 DEF l
<1> QED BY <1>1, <1>2, <1>3, <1>4 DEF Ops

\* The effect of queueing on the rows and their freshness.
LEMMA EnqueueFacts ==
    ASSUME TypeOK, NEW m \in Meetings, NEW op \in Ops, EnqueueMeeting(m, op)
    PROVE  /\ link' \in [Meetings -> [Accounts -> LinkType]]
           /\ fresh' \in [Meetings -> [Accounts -> BOOLEAN]]
           /\ \A n \in Meetings, a \in Accounts :
                /\ n # m => link'[n][a] = link[n][a] /\ fresh'[n][a] = fresh[n][a]
                /\ fresh'[m][a] => (~ Held(m, a) /\ link'[m][a] = Queued(link[m][a], op))
                /\ link'[m][a] \in {link[m][a], Queued(link[m][a], op)}
<1>1. \A a \in Accounts : Queued(link[m][a], op) \in LinkType /\ link[m][a] \in LinkType
  BY QueuedFacts DEF TypeOK
<1> DEFINE row == [a \in Accounts |-> IF account[a] = "active" THEN Queued(link[m][a], op)
                                     ELSE link[m][a]]
           new == [a \in Accounts |-> account[a] = "active" /\ ~ Held(m, a)]
<1>2. link' = [link EXCEPT ![m] = row]
  BY DEF EnqueueMeeting
<1>3. fresh' = [fresh EXCEPT ![m] = new]
  BY DEF EnqueueMeeting
<1>4. row \in [Accounts -> LinkType]
  BY <1>1
<1>5. new \in [Accounts -> BOOLEAN]
  OBVIOUS
<1>6. \A a \in Accounts : /\ row[a] = IF account[a] = "active" THEN Queued(link[m][a], op)
                                      ELSE link[m][a]
                          /\ new[a] = (account[a] = "active" /\ ~ Held(m, a))
  OBVIOUS
<1> HIDE DEF row, new
<1>7. link \in [Meetings -> [Accounts -> LinkType]] /\ fresh \in [Meetings -> [Accounts -> BOOLEAN]]
  BY DEF TypeOK
<1>8. link' \in [Meetings -> [Accounts -> LinkType]] /\ link'[m] = row
      /\ \A n \in Meetings : n # m => link'[n] = link[n]
  BY <1>2, <1>4, <1>7
<1>9. fresh' \in [Meetings -> [Accounts -> BOOLEAN]] /\ fresh'[m] = new
      /\ \A n \in Meetings : n # m => fresh'[n] = fresh[n]
  BY <1>3, <1>5, <1>7
<1>10. ASSUME NEW n \in Meetings, NEW a \in Accounts
       PROVE  /\ n # m => link'[n][a] = link[n][a] /\ fresh'[n][a] = fresh[n][a]
              /\ fresh'[m][a] => (~ Held(m, a) /\ link'[m][a] = Queued(link[m][a], op))
              /\ link'[m][a] \in {link[m][a], Queued(link[m][a], op)}
  BY <1>6, <1>8, <1>9
<1> QED BY <1>8, <1>9, <1>10

\* Whatever is queued for one meeting, when nothing else about the others changes:
\* rows and hands stay as they should be.
LEMMA EnqueueInv ==
    ASSUME Inv, NEW m \in Meetings, NEW op \in Ops, EnqueueMeeting(m, op),
           UNCHANGED <<event, hand>>,
           \A n \in Meetings : n # m => meeting'[n].sequence = meeting[n].sequence
    PROVE  Links_OK' /\ Hands_OK'
<1>1. TypeOK
  BY DEF Inv
<1>2. \A n \in Meetings, a \in Accounts :
        /\ n # m => link'[n][a] = link[n][a] /\ fresh'[n][a] = fresh[n][a]
        /\ fresh'[m][a] => (~ Held(m, a) /\ link'[m][a] = Queued(link[m][a], op))
        /\ link'[m][a] \in {link[m][a], Queued(link[m][a], op)}
  BY <1>1, EnqueueFacts
<1>3. \A a \in Accounts :
        /\ link[m][a] # NoLink => Queued(link[m][a], op) # NoLink
        /\ Queued(link[m][a], op) # NoLink =>
             /\ Queued(link[m][a], op).event =
                  IF link[m][a] = NoLink THEN None ELSE link[m][a].event
             /\ Queued(link[m][a], op).status # "synced"
             /\ Queued(link[m][a], op).status = "deleted" =>
                  Queued(link[m][a], op).op = "delete" /\ Queued(link[m][a], op).event = None
  BY <1>1, QueuedFacts
<1>4. ASSUME NEW n \in Meetings, NEW a \in Accounts PROVE LinkOK(n, a)'
  <2>1. LinkOK(n, a)
    BY DEF Inv, Links_OK
  <2>2. CASE n # m
    BY <1>2, <2>1, <2>2 DEF LinkOK, OwnedBy, AsMeeting, Live
  <2>3. CASE n = m
    <3>1. CASE link'[m][a] = Queued(link[m][a], op)
      <4>1. link'[m][a] # NoLink =>
                /\ link'[m][a].event # None => link[m][a] # NoLink /\ link'[m][a].event = link[m][a].event
                /\ link'[m][a].status # "synced"
                /\ link'[m][a].status = "deleted" =>
                     link'[m][a].op = "delete" /\ link'[m][a].event = None
        BY <1>3, <3>1
      <4> QED BY <2>1, <2>3, <4>1 DEF LinkOK, OwnedBy
    <3>2. CASE link'[m][a] = link[m][a] /\ link'[m][a] # Queued(link[m][a], op)
      <4>1. ~ fresh'[m][a]
        BY <1>2, <3>2
      <4> QED BY <2>1, <2>3, <3>2, <4>1 DEF LinkOK, OwnedBy
    <3> QED BY <1>2, <3>1, <3>2
  <2> QED BY <2>2, <2>3
<1>5. ASSUME NEW h \in Hands PROVE HandOK(h)'
  <2> SUFFICES ASSUME hand[h] # Free
               PROVE  /\ link'[hand[h].m][hand[h].a] # NoLink
                      /\ hand[h].phase # "blame" => Sound(hand[h])'
    BY DEF HandOK
  <2>1. HandOK(h)
    BY DEF Inv, Hands_OK
  <2>2. hand[h].m \in Meetings /\ hand[h].a \in Accounts
    BY <1>1, HandFacts
  <2>3. CASE hand[h].m # m
    BY <1>2, <2>1, <2>2, <2>3 DEF HandOK, Sound, InStep, OwnedBy, AsMeeting, Live
  <2>4. CASE hand[h].m = m
    <3>1. Held(m, hand[h].a)
      BY <2>4 DEF Held, Holds
    <3>2. ~ fresh'[m][hand[h].a]
      BY <1>2, <2>2, <3>1
    <3>3. link'[m][hand[h].a] # NoLink
      BY <1>2, <1>3, <2>1, <2>2, <2>4 DEF HandOK
    <3> QED BY <2>1, <2>4, <3>2, <3>3 DEF HandOK, Sound, OwnedBy
  <2> QED BY <2>3, <2>4
<1> QED BY <1>4, <1>5 DEF Links_OK, Hands_OK

\* Steps that touch neither rows, hands, events nor the sequence of a meeting.
LEMMA AsideInv ==
    ASSUME Inv, TypeOK', UNCHANGED <<link, event, hand, fresh>>,
           \A n \in Meetings : meeting'[n].sequence = meeting[n].sequence
    PROVE  Inv'
<1>1. ASSUME NEW n \in Meetings, NEW a \in Accounts PROVE LinkOK(n, a)'
  BY DEF Inv, Links_OK, LinkOK, OwnedBy, AsMeeting, Live
<1>2. ASSUME NEW h \in Hands PROVE HandOK(h)'
  <2>1. HandOK(h) /\ (hand[h] # Free => hand[h].m \in Meetings)
    BY HandFacts DEF Inv, Hands_OK
  <2> QED BY <2>1 DEF HandOK, Sound, InStep, OwnedBy, AsMeeting, Live
<1> QED BY <1>1, <1>2 DEF Inv, Links_OK, Hands_OK

MeetingType == [status : {"none", "scheduled", "done"} \cup Off, sequence : Nat]

LEMMA HandlersInv == ASSUME Inv, Handlers PROVE Inv'
<1>1. TypeOK /\ meeting \in [Meetings -> MeetingType]
  BY DEF Inv, TypeOK, MeetingType
<1> USE DEF MeetingType, Off
<1>2. ASSUME NEW m \in Meetings, CreateMeeting(m) PROVE Inv'
  <2>1. /\ EnqueueMeeting(m, "upsert") /\ UNCHANGED <<account, event, hand, trouble>>
        /\ meeting' = [meeting EXCEPT ![m] = Planned]
    BY <1>2 DEF CreateMeeting
  <2>2. meeting' \in [Meetings -> MeetingType]
        /\ \A n \in Meetings : n # m => meeting'[n] = meeting[n]
    BY <1>1, <2>1 DEF Planned
  <2>3. Links_OK' /\ Hands_OK'
    BY <2>1, <2>2, EnqueueInv DEF Ops
  <2>4. TypeOK'
    BY <1>1, <2>1, <2>2, EnqueueFacts DEF TypeOK, Ops
  <2> QED BY <2>3, <2>4 DEF Inv
<1>3. ASSUME NEW m \in Meetings, NEW moved \in BOOLEAN,
             NEW s \in Off \cup {"scheduled", None}, UpdateMeeting(m, moved, s)
      PROVE  Inv'
  <2> DEFINE sequence == IF Changed(m, moved, s) THEN meeting[m].sequence + 1
                         ELSE meeting[m].sequence
             status == IF s = None THEN meeting[m].status ELSE s
  <2>1. /\ Notify(m, moved, s) /\ UNCHANGED <<account, event, hand, trouble>>
        /\ meeting' = [meeting EXCEPT ![m].status = status, ![m].sequence = sequence]
    BY <1>3 DEF UpdateMeeting
  <2>2. sequence \in Nat /\ status \in {"none", "scheduled", "done"} \cup Off
    BY <1>1
  <2> HIDE DEF status
  <2>3. /\ meeting' \in [Meetings -> MeetingType]
        /\ meeting'[m].sequence = sequence
        /\ \A n \in Meetings : n # m => meeting'[n] = meeting[n]
    <3> HIDE DEF sequence
    <3> QED BY <1>1, <2>1, <2>2
  <2>4. ASSUME NEW op \in Ops, EnqueueMeeting(m, op) PROVE Inv'
    <3>1. Links_OK' /\ Hands_OK'
      BY <2>1, <2>3, <2>4, EnqueueInv
    <3>2. TypeOK'
      BY <1>1, <2>1, <2>3, <2>4, EnqueueFacts DEF TypeOK
    <3> QED BY <3>1, <3>2 DEF Inv
  <2>5. ASSUME ~ Cancelled(m, s) /\ ~ Rescheduled(m, moved, s) /\ UNCHANGED <<link, fresh>>
        PROVE  Inv'
    <3>1. \A n \in Meetings : meeting'[n].sequence = meeting[n].sequence
      BY <2>3, <2>5 DEF Changed
    <3>2. TypeOK'
      BY <1>1, <2>1, <2>3, <2>5 DEF TypeOK
    <3> QED BY <2>1, <2>5, <3>1, <3>2, AsideInv
  <2> QED BY <2>1, <2>4, <2>5 DEF Notify, Ops
<1>4. ASSUME NEW m \in Meetings, CompleteMeeting(m) PROVE Inv'
  <2>1. /\ UNCHANGED <<account, link, event, hand, fresh, trouble>>
        /\ meeting' = [meeting EXCEPT ![m].status = "done"]
    BY <1>4 DEF CompleteMeeting
  <2>2. meeting' \in [Meetings -> MeetingType]
        /\ \A n \in Meetings : meeting'[n].sequence = meeting[n].sequence
    BY <1>1, <2>1
  <2>3. TypeOK'
    BY <1>1, <2>1, <2>2 DEF TypeOK
  <2> QED BY <2>1, <2>2, <2>3, AsideInv
<1>5. ASSUME NEW m \in Meetings, NEW next \in Meetings, CompleteAndSchedule(m, next) PROVE Inv'
  <2>1. /\ EnqueueMeeting(next, "upsert") /\ UNCHANGED <<account, event, hand, trouble>>
        /\ meeting[m].status \notin {"none", "done"} /\ meeting[next] = Unset
        /\ meeting' = [meeting EXCEPT ![m].status = "done", ![next] = Planned]
    BY <1>5 DEF CompleteAndSchedule
  <2>2. m # next
    BY <2>1 DEF Unset
  <2>3. meeting' \in [Meetings -> MeetingType]
        /\ \A n \in Meetings : n # next => meeting'[n].sequence = meeting[n].sequence
    BY <1>1, <2>1, <2>2 DEF Planned
  <2>4. Links_OK' /\ Hands_OK'
    BY <2>1, <2>3, EnqueueInv DEF Ops
  <2>5. TypeOK'
    BY <1>1, <2>1, <2>3, EnqueueFacts DEF TypeOK, Ops
  <2> QED BY <2>4, <2>5 DEF Inv
<1> QED BY <1>2, <1>3, <1>4, <1>5 DEF Handlers

-------------------------------------------------------------------------------
(* The runs of the job *)

\* A step of one hand that writes neither rows nor events.
LEMMA OneHandInv ==
    ASSUME Inv, NEW h \in Hands, TypeOK', UNCHANGED <<meeting, link, event, fresh>>,
           \A g \in Hands : g # h => hand'[g] = hand[g],
           HandOK(h)'
    PROVE  Inv'
<1>1. ASSUME NEW m \in Meetings, NEW a \in Accounts PROVE LinkOK(m, a)'
  BY DEF Inv, Links_OK, LinkOK, OwnedBy, AsMeeting, Live
<1>2. ASSUME NEW g \in Hands, g # h PROVE HandOK(g)'
  <2>1. HandOK(g) /\ hand'[g] = hand[g]
    BY <1>2 DEF Inv, Hands_OK
  <2> QED BY <2>1 DEF HandOK, Sound, InStep, OwnedBy, AsMeeting, Live
<1> QED BY <1>1, <1>2 DEF Inv, Links_OK, Hands_OK

LEMMA TakeInv ==
    ASSUME Inv, NEW h \in Hands, NEW m \in Meetings, NEW a \in Accounts, Take(h, m, a)
    PROVE  Inv'
<1> USE CalendarAssumption
<1> DEFINE t == [phase |-> "taken", m |-> m, a |-> a, op |-> link[m][a].op,
                 event |-> link[m][a].event, attempts |-> link[m][a].attempts + 1]
<1>1. /\ TypeOK /\ LinkOK(m, a)
      /\ link[m][a] # NoLink /\ link[m][a].attempts < MaxAttempts
      /\ hand' = [hand EXCEPT ![h] = t]
      /\ UNCHANGED <<meeting, account, link, event, fresh, trouble>>
  BY DEF Inv, Links_OK, Take, Waiting
<1>2. /\ link[m][a].op \in Ops /\ link[m][a].event \in Events \cup {None}
      /\ link[m][a].attempts \in 0 .. MaxAttempts
  BY <1>1, LinkFacts
<1>3. link[m][a].attempts + 1 \in 1 .. MaxAttempts
  BY <1>1, <1>2
<1>4. t \in HandType
  BY <1>2, <1>3 DEF HandType, Ops
<1>5. t # Free /\ t.m = m /\ t.a = a /\ t.phase = "taken" /\ t.op = link[m][a].op
      /\ t.event = link[m][a].event
  BY DEF Free
<1> HIDE DEF t
<1>6. hand' \in [Hands -> HandType] /\ hand'[h] = t /\ \A g \in Hands : g # h => hand'[g] = hand[g]
  BY <1>1, <1>4 DEF TypeOK
<1>7. TypeOK'
  BY <1>1, <1>6 DEF TypeOK
<1>8. HandOK(h)'
  BY <1>1, <1>5, <1>6 DEF HandOK, Sound, InStep, LinkOK, OwnedBy
<1> QED BY <1>1, <1>6, <1>7, <1>8, OneHandInv

\* What the account of a row and its owner amount to once an answer is written down.
LEMMA EndedFacts ==
    ASSUME TypeOK, NEW h \in Hands, hand[h].phase \in {"taken", "linked", "call"}, hand[h] # Free,
           NEW outcome \in Outcomes, NEW e \in Events \cup {None}
    PROVE  LET u == Ended(hand[h], outcome, e)
           IN  /\ u \in HandType /\ u # Free /\ u.phase = "mark"
               /\ u.m = hand[h].m /\ u.a = hand[h].a /\ u.op = hand[h].op
               /\ u.event = e /\ u.outcome = outcome
<1>1. /\ hand[h].m \in Meetings /\ hand[h].a \in Accounts /\ hand[h].op \in Ops
      /\ hand[h].attempts \in 1 .. MaxAttempts
  BY HandFacts
<1> QED BY <1>1 DEF Ended, HandType, Free, Ops, Outcomes

LEMMA ReadInv == ASSUME Inv, NEW h \in Hands, Read(h) PROVE Inv'
<1> DEFINE t == hand[h]
           skip == Ended(t, "skip", t.event)
           linked == [phase |-> "linked", m |-> t.m, a |-> t.a, op |-> t.op, event |-> t.event,
                      attempts |-> t.attempts]
<1>1. /\ TypeOK /\ HandOK(h) /\ t # Free /\ t.phase = "taken"
      /\ UNCHANGED <<meeting, account, link, event, fresh, trouble>>
  BY DEF Inv, Hands_OK, Read, Free
<1>2. /\ t.m \in Meetings /\ t.a \in Accounts /\ t.op \in Ops
      /\ t.event \in Events \cup {None} /\ t.attempts \in 1 .. MaxAttempts
  BY <1>1, HandFacts
<1>3. Sound(t) /\ link[t.m][t.a] # NoLink
  BY <1>1 DEF HandOK
<1>4. hand' = [hand EXCEPT ![h] = skip] \/ hand' = [hand EXCEPT ![h] = linked]
  BY DEF Read
<1>5. linked \in HandType
  BY <1>2 DEF HandType, Ops
<1>6. /\ linked # Free /\ linked.phase = "linked" /\ linked.m = t.m /\ linked.a = t.a
      /\ linked.op = t.op /\ linked.event = t.event
  BY DEF Free
<1>7. /\ skip \in HandType /\ skip # Free /\ skip.phase = "mark" /\ skip.m = t.m /\ skip.a = t.a
      /\ skip.op = t.op /\ skip.event = t.event /\ skip.outcome = "skip"
  BY <1>1, <1>2, EndedFacts DEF Outcomes
<1> HIDE DEF skip, linked
<1>8. /\ hand' \in [Hands -> HandType] /\ \A g \in Hands : g # h => hand'[g] = hand[g]
      /\ hand'[h] = skip \/ hand'[h] = linked
  <2>1. hand \in [Hands -> HandType]
    BY <1>1 DEF TypeOK
  <2> QED BY <1>4, <1>5, <1>7, <2>1
<1>9. TypeOK'
  BY <1>1, <1>8 DEF TypeOK
<1>10. HandOK(h)'
  <2>1. CASE hand'[h] = skip
    BY <1>1, <1>3, <1>7, <2>1 DEF HandOK, Sound, InStep, OwnedBy
  <2>2. CASE hand'[h] = linked
    BY <1>1, <1>3, <1>6, <2>2 DEF HandOK, Sound, InStep, OwnedBy
  <2> QED BY <1>8, <2>1, <2>2
<1> QED BY <1>1, <1>8, <1>9, <1>10, OneHandInv

LEMMA ReadMeetingInv == ASSUME Inv, NEW h \in Hands, ReadMeeting(h) PROVE Inv'
<1> DEFINE t == hand[h]
           call == [phase |-> "call", m |-> t.m, a |-> t.a, op |-> t.op, event |-> t.event,
                    attempts |-> t.attempts, want |-> meeting[t.m].sequence]
<1>1. /\ TypeOK /\ HandOK(h) /\ t # Free /\ t.phase = "linked"
      /\ hand' = [hand EXCEPT ![h] = call]
      /\ UNCHANGED <<meeting, account, link, event, fresh, trouble>>
  BY DEF Inv, Hands_OK, ReadMeeting, Free
<1>2. /\ t.m \in Meetings /\ t.a \in Accounts /\ t.op \in Ops
      /\ t.event \in Events \cup {None} /\ t.attempts \in 1 .. MaxAttempts
  BY <1>1, HandFacts
<1>3. Sound(t) /\ link[t.m][t.a] # NoLink
  BY <1>1 DEF HandOK
<1>4. call \in HandType
  <2>1. meeting[t.m].sequence \in Nat
    BY <1>1, <1>2 DEF TypeOK
  <2> QED BY <1>2, <2>1 DEF HandType, Ops
<1>5. /\ call # Free /\ call.phase = "call" /\ call.m = t.m /\ call.a = t.a /\ call.op = t.op
      /\ call.event = t.event /\ call.want = meeting[t.m].sequence
  BY DEF Free
<1> HIDE DEF call
<1>6. /\ hand' \in [Hands -> HandType] /\ \A g \in Hands : g # h => hand'[g] = hand[g]
      /\ hand'[h] = call
  BY <1>1, <1>4 DEF TypeOK
<1>7. TypeOK'
  BY <1>1, <1>6 DEF TypeOK
<1>8. HandOK(h)'
  BY <1>1, <1>3, <1>5, <1>6 DEF HandOK, Sound, InStep, OwnedBy
<1> QED BY <1>1, <1>6, <1>7, <1>8, OneHandInv

\* What renewing a token leaves of the accounts.
LEMMA RenewedFacts ==
    ASSUME TypeOK, NEW a \in Accounts, account' \in {account, Renewed(a)}
    PROVE  account' \in [Accounts -> {"unused", "active", "error", "removed"}]
<1>1. account \in [Accounts -> {"unused", "active", "error", "removed"}]
  BY DEF TypeOK
<1> QED BY <1>1 DEF Renewed

LEMMA NothingToRemoveInv == ASSUME Inv, NEW h \in Hands, NothingToRemove(h) PROVE Inv'
<1> DEFINE t == hand[h]
           new == Ended(t, "deleted", None)
<1>1. /\ TypeOK /\ HandOK(h) /\ t # Free /\ t.phase = "call" /\ t.op = "delete" /\ t.event = None
      /\ hand' = [hand EXCEPT ![h] = new] /\ account' \in {account, Renewed(t.a)}
      /\ UNCHANGED <<meeting, link, event, fresh, trouble>>
  BY DEF Inv, Hands_OK, NothingToRemove, Free
<1>2. Sound(t) /\ link[t.m][t.a] # NoLink /\ t.a \in Accounts
  BY <1>1, HandFacts DEF HandOK
<1>3. /\ new \in HandType /\ new # Free /\ new.phase = "mark" /\ new.m = t.m /\ new.a = t.a
      /\ new.op = t.op /\ new.event = None /\ new.outcome = "deleted"
  BY <1>1, EndedFacts DEF Outcomes
<1> HIDE DEF new
<1>4. hand' \in [Hands -> HandType] /\ hand'[h] = new /\ \A g \in Hands : g # h => hand'[g] = hand[g]
  BY <1>1, <1>3 DEF TypeOK
<1>5. account' \in [Accounts -> {"unused", "active", "error", "removed"}]
  BY <1>1, <1>2, RenewedFacts
<1>6. TypeOK'
  BY <1>1, <1>4, <1>5 DEF TypeOK
<1>7. HandOK(h)'
  BY <1>1, <1>2, <1>3, <1>4 DEF HandOK, Sound, InStep, OwnedBy
<1> QED BY <1>1, <1>4, <1>6, <1>7, OneHandInv

LEMMA FailInv ==
    ASSUME Inv, NEW h \in Hands, NEW outcome \in {"error", "unauthorized"}, Fail(h, outcome)
    PROVE  Inv'
<1> DEFINE t == hand[h]
           new == Ended(t, outcome, t.event)
<1>1. /\ TypeOK /\ HandOK(h) /\ t # Free /\ t.phase \in {"taken", "linked", "call"}
      /\ hand' = [hand EXCEPT ![h] = new]
      /\ UNCHANGED <<meeting, account, link, event, fresh, trouble>>
  BY DEF Inv, Hands_OK, Fail, Free
<1>2. t.event \in Events \cup {None} /\ Sound(t) /\ link[t.m][t.a] # NoLink
  BY <1>1, HandFacts DEF HandOK
<1>3. /\ new \in HandType /\ new # Free /\ new.phase = "mark" /\ new.m = t.m /\ new.a = t.a
      /\ new.op = t.op /\ new.event = t.event /\ new.outcome = outcome
  BY <1>1, <1>2, EndedFacts DEF Outcomes
<1> HIDE DEF new
<1>4. hand' \in [Hands -> HandType] /\ hand'[h] = new /\ \A g \in Hands : g # h => hand'[g] = hand[g]
  BY <1>1, <1>3 DEF TypeOK
<1>5. TypeOK'
  BY <1>1, <1>4 DEF TypeOK
<1>6. HandOK(h)'
  BY <1>1, <1>2, <1>3, <1>4 DEF HandOK, Sound, InStep, OwnedBy
<1> QED BY <1>1, <1>4, <1>5, <1>6, OneHandInv

\* What a call that does something makes of the events.
LEMMA CallFacts ==
    ASSUME Inv, NEW h \in Hands, NEW e \in Events, hand[h].phase = "call",
           Insert(hand[h], e) \/ Patch(hand[h], e) \/ Remove(hand[h], e)
    PROVE  /\ event' \in [Events -> EventType]
           /\ \A f \in Events : f # e => event'[f] = event[f]
           /\ event'[e] # NoEvent /\ event'[e].m = hand[h].m /\ event'[e].a = hand[h].a
           /\ event[e] # NoEvent => event[e].m = hand[h].m /\ event[e].a = hand[h].a
           /\ hand[h].op = "upsert" => event'[e].live /\ event'[e].sequence = hand[h].want
           /\ hand[h].op = "delete" => ~ event'[e].live /\ hand[h].event = e
           /\ hand[h].event # None => hand[h].event = e
<1> DEFINE t == hand[h]
<1> USE CalendarAssumption
<1>1. TypeOK /\ HandOK(h) /\ t # Free
  BY DEF Inv, Hands_OK, Free
<1>2. /\ t.m \in Meetings /\ t.a \in Accounts /\ t.op \in Ops /\ t.want \in Nat
      /\ t.event \in Events \cup {None}
  BY <1>1, HandFacts
<1>3. t.event # None => OwnedBy(t.event, t.m, t.a)
  BY <1>1 DEF HandOK, Sound
<1>4. event \in [Events -> EventType]
  BY <1>1 DEF TypeOK
<1>5. CASE Insert(t, e)
  <2> DEFINE new == [m |-> t.m, a |-> t.a, sequence |-> t.want, live |-> TRUE]
  <2>1. t.op = "upsert" /\ t.event = None /\ event[e] = NoEvent
        /\ event' = [event EXCEPT ![e] = new]
    BY <1>5 DEF Insert
  <2>2. new \in EventType
    BY <1>2 DEF EventType
  <2>3. new # NoEvent /\ new.m = t.m /\ new.a = t.a /\ new.live /\ new.sequence = t.want
    BY DEF NoEvent
  <2> HIDE DEF new
  <2>4. event' \in [Events -> EventType] /\ event'[e] = new
        /\ \A f \in Events : f # e => event'[f] = event[f]
    BY <1>4, <2>1, <2>2
  <2> QED BY <2>1, <2>3, <2>4
<1>6. ASSUME Patch(t, e) \/ Remove(t, e)
      PROVE  /\ t.event = e /\ event[e] # NoEvent /\ event[e].m = t.m /\ event[e].a = t.a
             /\ event[e] \in [m : Meetings, a : Accounts, sequence : Nat, live : BOOLEAN]
  <2>1. t.event = e /\ e # None
    BY <1>6 DEF Patch, Remove
  <2>2. event[e] # NoEvent /\ event[e].m = t.m /\ event[e].a = t.a
    BY <1>3, <2>1 DEF OwnedBy
  <2>3. event[e] \in EventType
    BY <1>4
  <2> QED BY <2>1, <2>2, <2>3 DEF EventType
<1>7. CASE Patch(t, e)
  <2> DEFINE new == [event[e] EXCEPT !.sequence = t.want]
  <2>1. t.op = "upsert" /\ event[e].live /\ event' = [event EXCEPT ![e] = new]
    BY <1>7 DEF Patch, Live
  <2>2. /\ new \in [m : Meetings, a : Accounts, sequence : Nat, live : BOOLEAN]
        /\ new.m = t.m /\ new.a = t.a /\ new.sequence = t.want /\ new.live = event[e].live
    BY <1>2, <1>6, <1>7
  <2>3. new # NoEvent
    BY <1>6, <1>7 DEF NoEvent
  <2> HIDE DEF new
  <2>4. new \in EventType
    BY <2>2 DEF EventType
  <2>5. event' \in [Events -> EventType] /\ event'[e] = new
        /\ \A f \in Events : f # e => event'[f] = event[f]
    BY <1>4, <2>1, <2>4
  <2> QED BY <1>6, <1>7, <2>1, <2>2, <2>3, <2>5
<1>8. CASE Remove(t, e)
  <2> DEFINE new == [event[e] EXCEPT !.live = FALSE]
  <2>1. t.op = "delete" /\ event' = [event EXCEPT ![e] = new]
    BY <1>8 DEF Remove
  <2>2. /\ new \in [m : Meetings, a : Accounts, sequence : Nat, live : BOOLEAN]
        /\ new.m = t.m /\ new.a = t.a /\ ~ new.live
    BY <1>6, <1>8
  <2>3. new # NoEvent
    BY <1>6, <1>8 DEF NoEvent
  <2> HIDE DEF new
  <2>4. new \in EventType
    BY <2>2 DEF EventType
  <2>5. event' \in [Events -> EventType] /\ event'[e] = new
        /\ \A f \in Events : f # e => event'[f] = event[f]
    BY <1>4, <2>1, <2>4
  <2> QED BY <1>6, <1>8, <2>1, <2>2, <2>3, <2>5
<1> QED BY <1>5, <1>7, <1>8

\* A call that does something, whether or not its answer arrives.
LEMMA CallInv ==
    ASSUME Inv, NEW h \in Hands, NEW e \in Events, hand[h].phase = "call",
           Insert(hand[h], e) \/ Patch(hand[h], e) \/ Remove(hand[h], e),
           \/ hand' = [hand EXCEPT ![h] = Ended(hand[h], Done(hand[h]), e)]
           \/ hand' = [hand EXCEPT ![h] = Ended(hand[h], "error", hand[h].event)],
           UNCHANGED <<meeting, link, fresh>>, trouble' \in 0 .. MaxTrouble,
           account' \in [Accounts -> {"unused", "active", "error", "removed"}]
    PROVE  Inv'
<1> DEFINE t == hand[h]
           answered == Ended(t, Done(t), e)
           lost == Ended(t, "error", t.event)
<1> USE CalendarAssumption
<1>1. TypeOK /\ HandOK(h) /\ t # Free
  BY DEF Inv, Hands_OK, Free
<1>2. /\ t.m \in Meetings /\ t.a \in Accounts /\ t.op \in Ops /\ t.want \in Nat
      /\ t.event \in Events \cup {None}
  BY <1>1, HandFacts
<1>3. Sound(t) /\ link[t.m][t.a] # NoLink
  BY <1>1 DEF HandOK
<1>4. /\ event' \in [Events -> EventType]
      /\ \A f \in Events : f # e => event'[f] = event[f]
      /\ event'[e] # NoEvent /\ event'[e].m = t.m /\ event'[e].a = t.a
      /\ event[e] # NoEvent => event[e].m = t.m /\ event[e].a = t.a
      /\ t.op = "upsert" => event'[e].live /\ event'[e].sequence = t.want
      /\ t.op = "delete" => ~ event'[e].live /\ t.event = e
      /\ t.event # None => t.event = e
  BY CallFacts
<1>5. fresh[t.m][t.a] => /\ t.op = link[t.m][t.a].op
                         /\ t.op = "upsert" => t.want = meeting[t.m].sequence
                         /\ t.op = "delete" => t.event = link[t.m][t.a].event
  BY <1>3 DEF Sound, InStep
<1>6. /\ answered \in HandType /\ answered # Free /\ answered.phase = "mark"
      /\ answered.m = t.m /\ answered.a = t.a /\ answered.op = t.op /\ answered.event = e
      /\ answered.outcome = IF t.op = "delete" THEN "deleted" ELSE "synced"
  BY <1>1, EndedFacts DEF Outcomes, Done
<1>7. /\ lost \in HandType /\ lost # Free /\ lost.phase = "mark"
      /\ lost.m = t.m /\ lost.a = t.a /\ lost.op = t.op /\ lost.event = t.event
      /\ lost.outcome = "error"
  BY <1>1, <1>2, EndedFacts DEF Outcomes
<1>8. hand' = [hand EXCEPT ![h] = answered] \/ hand' = [hand EXCEPT ![h] = lost]
  OBVIOUS
<1> HIDE DEF answered, lost
<1>9. /\ hand' \in [Hands -> HandType] /\ \A g \in Hands : g # h => hand'[g] = hand[g]
      /\ hand'[h] = answered \/ hand'[h] = lost
  <2>1. hand \in [Hands -> HandType]
    BY <1>1 DEF TypeOK
  <2> QED BY <1>6, <1>7, <1>8, <2>1
<1>10. TypeOK'
  BY <1>1, <1>4, <1>9 DEF TypeOK
<1>11. ASSUME NEW f \in Events, NEW m \in Meetings, NEW a \in Accounts, OwnedBy(f, m, a)
       PROVE  /\ event'[f] # NoEvent /\ event'[f].m = m /\ event'[f].a = a
              /\ f # e => event'[f] = event[f]
              /\ f = e => m = t.m /\ a = t.a
  BY <1>4, <1>11 DEF OwnedBy
<1>12. ASSUME NEW m \in Meetings, NEW a \in Accounts PROVE LinkOK(m, a)'
  <2> SUFFICES ASSUME link[m][a] # NoLink PROVE LinkOK(m, a)'
    BY DEF LinkOK
  <2> DEFINE l == link[m][a]
  <2>1. LinkOK(m, a) /\ l.event \in Events \cup {None} /\ l.op \in Ops
    BY <1>1, LinkFacts DEF Inv, Links_OK
  <2>2. CASE l.event = None
    BY <2>1, <2>2 DEF LinkOK
  <2>3. CASE l.event \in Events /\ l.event # e
    <3>1. OwnedBy(l.event, m, a)
      BY <2>1, <2>3 DEF LinkOK
    <3>2. event'[l.event] = event[l.event]
      BY <1>4, <2>3
    <3> QED BY <2>1, <2>3, <3>1, <3>2 DEF LinkOK, OwnedBy, AsMeeting, Live
  <2>4. CASE l.event = e
    <3>1. m = t.m /\ a = t.a
      BY <1>11, <2>1, <2>4 DEF LinkOK
    <3>2. fresh[m][a] /\ l.status = "synced" => event'[e].live /\ event'[e].sequence = meeting[m].sequence
      BY <1>4, <1>5, <2>1, <3>1 DEF LinkOK
    <3>3. fresh[m][a] /\ l.status = "deleted" => ~ event'[e].live
      BY <1>4, <1>5, <2>1, <3>1 DEF LinkOK
    <3> QED BY <1>4, <2>1, <2>4, <3>1, <3>2, <3>3 DEF LinkOK, OwnedBy, AsMeeting, Live
  <2> QED BY <2>1, <2>2, <2>3, <2>4
<1>13. ASSUME NEW g \in Hands, g # h PROVE HandOK(g)'
  <2> DEFINE s == hand[g]
  <2>0. hand'[g] = s
    BY <1>9, <1>13
  <2> SUFFICES ASSUME s # Free, s.phase # "blame" PROVE HandOK(g)'
    <3>1. s # Free => link[s.m][s.a] # NoLink
      BY DEF Inv, Hands_OK, HandOK
    <3> QED BY <2>0, <3>1 DEF HandOK
  <2>1. /\ s.m \in Meetings /\ s.a \in Accounts /\ s.op \in Ops
        /\ s.event \in Events \cup {None} /\ Sound(s) /\ link[s.m][s.a] # NoLink
    BY <1>1, HandFacts DEF Inv, Hands_OK, HandOK
  <2>2. CASE s.event = None
    BY <2>0, <2>1, <2>2 DEF HandOK, Sound, InStep
  <2>3. CASE s.event \in Events /\ s.event # e
    <3>1. OwnedBy(s.event, s.m, s.a) /\ event'[s.event] = event[s.event]
      BY <1>4, <2>1, <2>3 DEF Sound
    <3> QED BY <2>0, <2>1, <2>3, <3>1 DEF HandOK, Sound, InStep, OwnedBy, AsMeeting, Live
  <2>4. CASE s.event = e
    <3>1. s.m = t.m /\ s.a = t.a
      BY <1>11, <2>1, <2>4 DEF Sound
    <3>2. fresh[s.m][s.a] => t.op = s.op
      BY <1>5, <2>1, <3>1 DEF Sound, InStep
    <3>3. fresh[s.m][s.a] /\ s.phase = "mark" /\ s.outcome = "synced" =>
             event'[e].live /\ event'[e].sequence = meeting[s.m].sequence
      BY <1>4, <1>5, <2>1, <3>1, <3>2 DEF Sound
    <3>4. fresh[s.m][s.a] /\ s.phase = "mark" /\ s.outcome = "deleted" => ~ event'[e].live
      BY <1>4, <2>1, <3>2 DEF Sound
    <3> QED BY <1>4, <2>0, <2>1, <2>4, <3>1, <3>3, <3>4
            DEF HandOK, Sound, InStep, OwnedBy, AsMeeting, Live
  <2> QED BY <2>1, <2>2, <2>3, <2>4
<1>14. HandOK(h)'
  <2>1. e # None
    OBVIOUS
  <2>2. CASE hand'[h] = answered
    <3>1. t.op = "delete" => t.event = e
      BY <1>4
    <3> QED BY <1>2, <1>3, <1>4, <1>5, <1>6, <2>1, <2>2, <3>1
            DEF HandOK, Sound, InStep, OwnedBy, AsMeeting, Live, Ops
  <2>3. CASE hand'[h] = lost
    BY <1>3, <1>4, <1>5, <1>7, <2>3 DEF HandOK, Sound, InStep, OwnedBy
  <2> QED BY <1>9, <2>2, <2>3
<1> QED BY <1>10, <1>12, <1>13, <1>14 DEF Inv, Links_OK, Hands_OK

\* What the update that closes a turn makes of the row.
LEMMA OutcomeFacts ==
    ASSUME TypeOK, NEW h \in Hands, hand[h].phase = "mark", NEW m \in Meetings, NEW a \in Accounts,
           link[m][a] # NoLink
    PROVE  LET o == Outcome(link[m][a], hand[h])
           IN  /\ o \in LinkType /\ o # NoLink /\ o.op = link[m][a].op
               /\ o.event = IF hand[h].outcome = "synced" THEN hand[h].event ELSE link[m][a].event
               /\ o.status = "synced" => hand[h].outcome = "synced"
               /\ o.status = "deleted" => hand[h].outcome = "deleted"
<1> DEFINE t == hand[h]
           l == link[m][a]
           e == IF t.outcome = "synced" THEN t.event ELSE l.event
           status == CASE t.outcome = "skip" \/ t.outcome = "unauthorized" -> "failed"
                       [] t.outcome = "error" -> IF t.attempts >= MaxAttempts
                                                 THEN "failed" ELSE "pending"
                       [] OTHER -> t.outcome
<1> USE CalendarAssumption
<1>1. /\ t.event \in Events \cup {None} /\ t.attempts \in 1 .. MaxAttempts /\ t.outcome \in Outcomes
  BY HandFacts DEF Free
<1>2. l \in [op : {"upsert", "delete"}, status : {"pending", "synced", "deleted", "failed"},
             attempts : 0 .. MaxAttempts, event : Events \cup {None}]
  <2>1. l \in LinkType
    BY DEF TypeOK
  <2> QED BY <2>1 DEF LinkType
<1>3. /\ status \in {"pending", "synced", "deleted", "failed"}
      /\ status = "synced" => t.outcome = "synced"
      /\ status = "deleted" => t.outcome = "deleted"
  BY <1>1 DEF Outcomes
<1>4. e \in Events \cup {None}
  BY <1>1, <1>2
<1>5. t.attempts \in 0 .. MaxAttempts
  BY <1>1
<1>6. Outcome(l, t) = [l EXCEPT !.attempts = t.attempts, !.event = e, !.status = status]
  BY <1>2 DEF Outcome
<1> HIDE DEF e, status
<1>7. /\ Outcome(l, t) \in [op : {"upsert", "delete"},
                             status : {"pending", "synced", "deleted", "failed"},
                             attempts : 0 .. MaxAttempts, event : Events \cup {None}]
      /\ Outcome(l, t).op = l.op /\ Outcome(l, t).event = e /\ Outcome(l, t).status = status
  <2> HIDE DEF t, l
  <2> QED BY <1>2, <1>3, <1>4, <1>5, <1>6
<1>8. Outcome(l, t) # NoLink
  <2> HIDE DEF t, l
  <2> QED BY <1>2, <1>6 DEF NoLink
<1>9. Outcome(l, t) \in LinkType
  BY <1>7 DEF LinkType
<1> QED BY <1>3, <1>7, <1>8, <1>9 DEF e

LEMMA MarkInv == ASSUME Inv, NEW h \in Hands, Mark(h) PROVE Inv'
<1> DEFINE t == hand[h]
           o == Outcome(link[t.m][t.a], t)
           blame == [phase |-> "blame", m |-> t.m, a |-> t.a]
<1>1. /\ TypeOK /\ HandOK(h) /\ t # Free /\ t.phase = "mark"
      /\ UNCHANGED <<meeting, account, event, fresh, trouble>>
  BY DEF Inv, Hands_OK, Mark, Free
<1>2. /\ t.m \in Meetings /\ t.a \in Accounts /\ t.op \in Ops /\ t.event \in Events \cup {None}
      /\ Sound(t) /\ link[t.m][t.a] # NoLink
  BY <1>1, HandFacts DEF HandOK
<1>3. /\ o \in LinkType /\ o # NoLink /\ o.op = link[t.m][t.a].op
      /\ o.event = IF t.outcome = "synced" THEN t.event ELSE link[t.m][t.a].event
      /\ o.status = "synced" => t.outcome = "synced"
      /\ o.status = "deleted" => t.outcome = "deleted"
  BY <1>1, <1>2, OutcomeFacts
<1>4. /\ link' = [link EXCEPT ![t.m] = [link[t.m] EXCEPT ![t.a] = o]]
      /\ hand' = [hand EXCEPT ![h] = blame] \/ hand' = [hand EXCEPT ![h] = Free]
  <2>1. link \in [Meetings -> [Accounts -> LinkType]]
    BY <1>1 DEF TypeOK
  <2> QED BY <1>2, <2>1 DEF Mark
<1>5. blame \in HandType /\ blame # Free /\ blame.phase = "blame" /\ blame.m = t.m /\ blame.a = t.a
  BY <1>2 DEF HandType, Free
<1>6. Free \in HandType
  BY DEF HandType
<1> HIDE DEF o, blame
<1>7. /\ link' \in [Meetings -> [Accounts -> LinkType]]
      /\ link'[t.m][t.a] = o
      /\ \A m \in Meetings, a \in Accounts :
            (m # t.m \/ a # t.a) => link'[m][a] = link[m][a]
  <2>1. link \in [Meetings -> [Accounts -> LinkType]]
    BY <1>1 DEF TypeOK
  <2> DEFINE row == [link[t.m] EXCEPT ![t.a] = o]
  <2>2. /\ row \in [Accounts -> LinkType] /\ row[t.a] = o
        /\ \A a \in Accounts : a # t.a => row[a] = link[t.m][a]
    BY <1>2, <1>3, <2>1
  <2>3. link' = [link EXCEPT ![t.m] = row]
    BY <1>4
  <2> HIDE DEF row
  <2> QED BY <1>2, <2>1, <2>2, <2>3
<1>8. /\ hand' \in [Hands -> HandType] /\ \A g \in Hands : g # h => hand'[g] = hand[g]
      /\ hand'[h] = blame \/ hand'[h] = Free
  <2>1. hand \in [Hands -> HandType]
    BY <1>1 DEF TypeOK
  <2> QED BY <1>4, <1>5, <1>6, <2>1
<1>9. TypeOK'
  BY <1>1, <1>7, <1>8 DEF TypeOK
<1>10. fresh[t.m][t.a] => /\ t.op = link[t.m][t.a].op
                          /\ t.op = "delete" => t.event = link[t.m][t.a].event
                          /\ t.outcome = "synced" => AsMeeting(t.event, t.m)
                          /\ t.outcome = "deleted" => (t.event # None => ~ Live(t.event))
  BY <1>1, <1>2 DEF Sound, InStep
<1>11. /\ t.outcome = "synced" => t.op = "upsert" /\ t.event # None
       /\ t.outcome = "deleted" => t.op = "delete"
       /\ t.event # None => OwnedBy(t.event, t.m, t.a)
  BY <1>1, <1>2 DEF Sound
<1>12. ASSUME NEW m \in Meetings, NEW a \in Accounts PROVE LinkOK(m, a)'
  <2>1. LinkOK(m, a)
    BY DEF Inv, Links_OK
  <2>2. CASE m # t.m \/ a # t.a
    BY <1>1, <1>7, <2>1, <2>2 DEF LinkOK, OwnedBy, AsMeeting, Live
  <2>3. CASE m = t.m /\ a = t.a
    <3>1. o.event # None => OwnedBy(o.event, m, a)
      BY <1>2, <1>3, <1>11, <2>1, <2>3 DEF LinkOK
    <3>2. fresh[m][a] /\ o.status = "synced" =>
             o.op = "upsert" /\ o.event # None /\ AsMeeting(o.event, m)
      BY <1>3, <1>10, <1>11, <2>3
    <3>3. fresh[m][a] /\ o.status = "deleted" =>
             o.op = "delete" /\ (o.event # None => ~ Live(o.event))
      BY <1>3, <1>10, <1>11, <2>3
    <3>4. link'[m][a] = o
      BY <1>7, <2>3
    <3> QED BY <1>1, <3>1, <3>2, <3>3, <3>4 DEF LinkOK, OwnedBy, AsMeeting, Live
  <2> QED BY <2>2, <2>3
<1>13. ASSUME NEW g \in Hands, g # h PROVE HandOK(g)'
  <2> DEFINE s == hand[g]
  <2>0. hand'[g] = s
    BY <1>8, <1>13
  <2> SUFFICES ASSUME s # Free PROVE HandOK(g)'
    BY <2>0 DEF HandOK
  <2>1. s.m \in Meetings /\ s.a \in Accounts /\ link[s.m][s.a] # NoLink /\ HandOK(g)
    BY <1>1, HandFacts DEF Inv, Hands_OK, HandOK
  <2>2. CASE s.m # t.m \/ s.a # t.a
    <3>1. link'[s.m][s.a] = link[s.m][s.a]
      BY <1>7, <2>1, <2>2
    <3> QED BY <1>1, <2>0, <2>1, <3>1 DEF HandOK, Sound, InStep, OwnedBy, AsMeeting, Live
  <2>3. CASE s.m = t.m /\ s.a = t.a
    <3>1. link'[s.m][s.a] = o /\ o # NoLink
      BY <1>3, <1>7, <2>3
    <3>2. CASE s.phase = "blame"
      BY <2>0, <3>1, <3>2 DEF HandOK
    <3>3. CASE s.phase # "blame"
      <4>1. Sound(s)
        BY <2>1, <3>3 DEF HandOK
      <4>2. fresh[s.m][s.a] => s.op = o.op /\ (s.op = "delete" => s.event = o.event)
        BY <1>3, <1>10, <1>11, <2>3, <4>1 DEF Sound, InStep
      <4> QED BY <1>1, <2>0, <3>1, <4>1, <4>2 DEF HandOK, Sound, InStep, OwnedBy, AsMeeting, Live
    <3> QED BY <3>2, <3>3
  <2> QED BY <2>2, <2>3
<1>14. HandOK(h)'
  BY <1>3, <1>5, <1>7, <1>8 DEF HandOK
<1> QED BY <1>9, <1>12, <1>13, <1>14 DEF Inv, Links_OK, Hands_OK

LEMMA BlameInv == ASSUME Inv, NEW h \in Hands, Blame(h) PROVE Inv'
<1>1. /\ TypeOK /\ hand' = [hand EXCEPT ![h] = Free]
      /\ account' = [account EXCEPT ![hand[h].a] =
                       IF account[hand[h].a] \in Linked THEN "error" ELSE account[hand[h].a]]
      /\ UNCHANGED <<meeting, link, event, fresh, trouble>>
      /\ hand[h] # Free
  BY DEF Inv, Blame, Free
<1>2. hand[h].a \in Accounts
  BY <1>1, HandFacts
<1>3. /\ hand' \in [Hands -> HandType] /\ hand'[h] = Free
      /\ \A g \in Hands : g # h => hand'[g] = hand[g]
  BY <1>1 DEF TypeOK, HandType
<1>4. account' \in [Accounts -> {"unused", "active", "error", "removed"}]
  BY <1>1, <1>2 DEF TypeOK
<1>5. TypeOK'
  BY <1>1, <1>3, <1>4 DEF TypeOK
<1>6. HandOK(h)'
  BY <1>3 DEF HandOK
<1> QED BY <1>1, <1>3, <1>5, <1>6, OneHandInv

LEMMA MarkFailsInv == ASSUME Inv, NEW h \in Hands, MarkFails(h) PROVE Inv'
<1> DEFINE t == hand[h]
           new == [t EXCEPT !.outcome = "error"]
<1> USE CalendarAssumption
<1>1. /\ TypeOK /\ HandOK(h) /\ t # Free /\ t.phase = "mark"
      /\ hand' = [hand EXCEPT ![h] = new]
      /\ trouble < MaxTrouble /\ trouble' = trouble + 1
      /\ UNCHANGED <<meeting, account, link, event, fresh>>
  <2>1. hand \in [Hands -> HandType]
    BY DEF Inv, TypeOK
  <2> QED BY <2>1 DEF Inv, Hands_OK, MarkFails, Free
<1>2. t \in [phase : {"mark"}, m : Meetings, a : Accounts, op : {"upsert", "delete"},
             event : Events \cup {None}, attempts : 1 .. MaxAttempts, outcome : Outcomes]
  <2>1. t \in HandType
    BY <1>1 DEF TypeOK
  <2> QED BY <1>1, <2>1 DEF HandType, Free, Outcomes
<1>3. Sound(t) /\ link[t.m][t.a] # NoLink
  BY <1>1 DEF HandOK
<1>4. /\ new \in HandType /\ new # Free /\ new.phase = "mark" /\ new.m = t.m /\ new.a = t.a
      /\ new.op = t.op /\ new.event = t.event /\ new.outcome = "error"
  BY <1>2 DEF HandType, Free, Outcomes
<1> HIDE DEF new
<1>5. hand' \in [Hands -> HandType] /\ hand'[h] = new /\ \A g \in Hands : g # h => hand'[g] = hand[g]
  BY <1>1, <1>4 DEF TypeOK
<1>6. trouble' \in 0 .. MaxTrouble
  BY <1>1 DEF TypeOK
<1>7. TypeOK'
  BY <1>1, <1>5, <1>6 DEF TypeOK
<1>8. HandOK(h)'
  BY <1>1, <1>3, <1>4, <1>5 DEF HandOK, Sound, InStep, OwnedBy
<1> QED BY <1>1, <1>5, <1>7, <1>8, OneHandInv

LEMMA CrashInv == ASSUME Inv, NEW h \in Hands, Crash(h) PROVE Inv'
<1> USE CalendarAssumption
<1>1. /\ TypeOK /\ hand' = [hand EXCEPT ![h] = Free]
      /\ trouble < MaxTrouble /\ trouble' = trouble + 1
      /\ UNCHANGED <<meeting, account, link, event, fresh>>
  BY DEF Inv, Crash
<1>2. /\ hand' \in [Hands -> HandType] /\ hand'[h] = Free
      /\ \A g \in Hands : g # h => hand'[g] = hand[g]
  BY <1>1 DEF TypeOK, HandType
<1>3. trouble' \in 0 .. MaxTrouble
  BY <1>1 DEF TypeOK
<1>4. TypeOK'
  BY <1>1, <1>2, <1>3 DEF TypeOK
<1>5. HandOK(h)'
  BY <1>2 DEF HandOK
<1> QED BY <1>1, <1>2, <1>4, <1>5, OneHandInv

-------------------------------------------------------------------------------
(* The specification *)

LEMMA AccountsInv == ASSUME Inv, NEW a \in Accounts, Connect(a) \/ Disconnect(a) PROVE Inv'
<1>1. /\ TypeOK /\ UNCHANGED <<meeting, link, event, hand, fresh, trouble>>
      /\ account' \in [Accounts -> {"unused", "active", "error", "removed"}]
  BY DEF Inv, TypeOK, Connect, Disconnect
<1>2. TypeOK'
  BY <1>1 DEF TypeOK
<1> QED BY <1>1, <1>2, AsideInv

LEMMA WorkInv == ASSUME Inv, NEW h \in Hands, Work(h) PROVE Inv'
<1> USE CalendarAssumption
<1>1. ASSUME NEW e \in Events, Succeed(h, e) PROVE Inv'
  <2>1. trouble' \in 0 .. MaxTrouble
    BY <1>1 DEF Inv, TypeOK, Succeed
  <2>2. hand' = [hand EXCEPT ![h] = Ended(hand[h], Done(hand[h]), e)]
    <3>1. hand \in [Hands -> HandType]
      BY DEF Inv, TypeOK
    <3> QED BY <1>1, <3>1 DEF Succeed
  <2>3. account' \in [Accounts -> {"unused", "active", "error", "removed"}]
    <3>1. TypeOK /\ hand[h] # Free /\ account' \in {account, Renewed(hand[h].a)}
      BY <1>1 DEF Inv, Succeed, Free
    <3> QED BY <3>1, HandFacts, RenewedFacts
  <2> QED BY <1>1, <2>1, <2>2, <2>3, CallInv DEF Succeed
<1>2. ASSUME NEW e \in Events, LoseAnswer(h, e) PROVE Inv'
  <2>1. trouble' \in 0 .. MaxTrouble
    BY <1>2 DEF Inv, TypeOK, LoseAnswer
  <2>2. hand' = [hand EXCEPT ![h] = Ended(hand[h], "error", hand[h].event)]
    <3>1. hand \in [Hands -> HandType]
      BY DEF Inv, TypeOK
    <3> QED BY <1>2, <3>1 DEF LoseAnswer
  <2>3. account' \in [Accounts -> {"unused", "active", "error", "removed"}]
    BY <1>2 DEF Inv, TypeOK, LoseAnswer
  <2> QED BY <1>2, <2>1, <2>2, <2>3, CallInv DEF LoseAnswer
<1> QED BY <1>1, <1>2, ReadInv, ReadMeetingInv, NothingToRemoveInv, FailInv, MarkInv, BlameInv
        DEF Work

LEMMA NextInv == Inv /\ [Next]_vars => Inv'
<1> SUFFICES ASSUME Inv, [Next]_vars PROVE Inv'
  OBVIOUS
<1>1. CASE UNCHANGED vars
  <2>1. TypeOK'
    BY <1>1 DEF Inv, TypeOK, vars
  <2> QED BY <1>1, <2>1, AsideInv DEF vars
<1>2. CASE Next
  <2>1. ASSUME NEW h \in Hands,
               \/ \E m \in Meetings, a \in Accounts : Take(h, m, a)
               \/ Work(h) \/ MarkFails(h) \/ Crash(h)
        PROVE  Inv'
    BY <2>1, TakeInv, WorkInv, MarkFailsInv, CrashInv
  <2> QED BY <1>2, <2>1, HandlersInv, AccountsInv DEF Next
<1> QED BY <1>1, <1>2

LEMMA InvImplies == Inv => TypeOK /\ TruthUnlessOvertaken
<1> SUFFICES ASSUME Inv, NEW m \in Meetings, NEW a \in Accounts,
                    fresh[m][a], link[m][a] # NoLink
             PROVE  /\ link[m][a].status = "synced" =>
                         /\ Known(m, a) /\ Live(link[m][a].event)
                         /\ event[link[m][a].event].sequence = meeting[m].sequence
                    /\ link[m][a].status = "deleted" =>
                         ~ (Known(m, a) /\ Live(link[m][a].event))
  BY DEF Inv, TruthUnlessOvertaken
<1>1. LinkOK(m, a)
  BY DEF Inv, Links_OK
<1> QED BY <1>1 DEF LinkOK, AsMeeting, Known

LEMMA Invariance == Spec => []Inv
  BY InitInv, NextInv, PTL DEF Spec

\* Type correctness, attempts included: no row is tried more than MaxAttempts
\* times, whatever runs of syncCalendarLinks overlap.
THEOREM CalendarTypeCorrect == Spec => []TypeOK
<1>1. Inv => TypeOK
  BY InvImplies
<1> QED BY <1>1, Invariance, PTL

\* A row that was not overtaken says the truth about the calendar: for any number
\* of overlapping runs, failures and crashes of syncCalendarLinks.
THEOREM RowsTellTruth == Spec => []TruthUnlessOvertaken
<1>1. Inv => TruthUnlessOvertaken
  BY InvImplies
<1> QED BY <1>1, Invariance, PTL

-------------------------------------------------------------------------------
(* Stray events, when no run starts before another has ended *)

Apart(g, h) ==
    g # h /\ hand[g] # Free /\ hand[h] # Free => hand[g].m # hand[h].m \/ hand[g].a # hand[h].a
\* Hand h is about to write on its row that it made or changed event e.
Carries(h, e) == hand[h].phase = "mark" /\ hand[h].outcome = "synced" /\ hand[h].event = e
\* A hand works on the event its row knows, until it brings one to a row that knows none.
InHand(h) ==
    /\ hand[h].phase \in {"taken", "linked", "call"} =>
         hand[h].event = link[hand[h].m][hand[h].a].event
    /\ hand[h].phase = "mark" /\ hand[h].outcome = "synced" =>
         link[hand[h].m][hand[h].a].event \in {None, hand[h].event}
Rooted(e) == event[e] # NoEvent => link[event[e].m][event[e].a] # NoLink

Aligned ==
    /\ \A g, h \in Hands : Apart(g, h)
    /\ \A h \in Hands : InHand(h)
    /\ \A e \in Events : Rooted(e)

\* The events that are lost for good: a hand that holds one by chance, without an
\* answer to write, will not bring it back.
Lost == {e \in Events : /\ Live(e) /\ link[event[e].m][event[e].a].event # e
                        /\ \A h \in Hands : ~ Carries(h, e)}
Counted == IsFiniteSet(Lost) /\ Cardinality(Lost) <= trouble

LEMMA CountKeep ==
    ASSUME TypeOK, TypeOK', Counted, Lost' \subseteq Lost, trouble <= trouble'
    PROVE  Counted'
<1>1. /\ IsFiniteSet(Lost') /\ Cardinality(Lost') <= Cardinality(Lost)
      /\ Cardinality(Lost) \in Nat /\ Cardinality(Lost') \in Nat
  BY FS_Subset, FS_CardinalityType DEF Counted
<1>2. trouble \in Nat /\ trouble' \in Nat
  BY CalendarAssumption DEF TypeOK
<1> QED BY <1>1, <1>2 DEF Counted

LEMMA CountOne ==
    ASSUME TypeOK, Counted, NEW x, Lost' \subseteq Lost \cup {x}, trouble' = trouble + 1
    PROVE  Counted'
<1> DEFINE T == Lost \cup {x}
<1>1. /\ IsFiniteSet(T) /\ Cardinality(Lost) \in Nat
      /\ Cardinality(T) = Cardinality(Lost) \/ Cardinality(T) = Cardinality(Lost) + 1
  BY FS_AddElement, FS_CardinalityType DEF Counted
<1> HIDE DEF T
<1>2. Lost' \subseteq T
  BY DEF T
<1>3. IsFiniteSet(Lost') /\ Cardinality(Lost') <= Cardinality(T) /\ Cardinality(Lost') \in Nat
  BY <1>1, <1>2, FS_Subset, FS_CardinalityType
<1>4. trouble \in Nat
  BY CalendarAssumption DEF TypeOK
<1> QED BY <1>1, <1>3, <1>4 DEF Counted

\* What an event is made for.
LEMMA EventFacts ==
    ASSUME TypeOK, NEW e \in Events, event[e] # NoEvent
    PROVE  event[e].m \in Meetings /\ event[e].a \in Accounts
<1>1. event[e] \in EventType
  BY DEF TypeOK
<1> QED BY <1>1 DEF EventType

LEMMA FreeFacts == Free.phase = "free"
BY DEF Free

\* Steps that take no row's event away and touch neither hands nor events.
LEMMA SteadyStep ==
    ASSUME Inv, Aligned, UNCHANGED <<event, hand>>,
           \A m \in Meetings, a \in Accounts :
              link[m][a] # NoLink => link'[m][a] # NoLink /\ link'[m][a].event = link[m][a].event
    PROVE  Aligned' /\ Lost' \subseteq Lost
<1>1. TypeOK
  BY DEF Inv
<1>2. ASSUME NEW h \in Hands PROVE InHand(h)'
  <2>1. CASE hand[h] = Free
    BY <2>1, FreeFacts DEF InHand
  <2>2. CASE hand[h] # Free
    <3>1. /\ hand[h].m \in Meetings /\ hand[h].a \in Accounts
          /\ link[hand[h].m][hand[h].a] # NoLink /\ InHand(h)
      BY <1>1, <2>2, HandFacts DEF Inv, Hands_OK, HandOK, Aligned
    <3>2. link'[hand[h].m][hand[h].a].event = link[hand[h].m][hand[h].a].event
      BY <3>1
    <3> QED BY <3>1, <3>2 DEF InHand
  <2> QED BY <2>1, <2>2
<1>3. ASSUME NEW e \in Events PROVE Rooted(e)'
  BY <1>1, EventFacts DEF Aligned, Rooted
<1>4. ASSUME NEW e \in Lost' PROVE e \in Lost
  <2>1. e \in Events /\ event[e] # NoEvent /\ Live(e)
    BY DEF Lost, Live
  <2>2. event[e].m \in Meetings /\ event[e].a \in Accounts
    BY <1>1, <2>1, EventFacts
  <2>3. link[event[e].m][event[e].a] # NoLink
    BY <2>1 DEF Aligned, Rooted
  <2>4. link'[event[e].m][event[e].a].event = link[event[e].m][event[e].a].event
    BY <2>2, <2>3
  <2> QED BY <2>1, <2>4 DEF Lost, Carries
<1> QED BY <1>2, <1>3, <1>4 DEF Aligned, Apart

LEMMA EnqueueSteady ==
    ASSUME TypeOK, NEW n \in Meetings, NEW op \in Ops, EnqueueMeeting(n, op),
           NEW m \in Meetings, NEW a \in Accounts, link[m][a] # NoLink
    PROVE  link'[m][a] # NoLink /\ link'[m][a].event = link[m][a].event
<1>1. /\ n # m => link'[m][a] = link[m][a]
      /\ n = m => link'[m][a] \in {link[m][a], Queued(link[m][a], op)}
  BY EnqueueFacts
<1>2. /\ Queued(link[m][a], op) # NoLink
      /\ Queued(link[m][a], op).event = link[m][a].event
  BY QueuedFacts
<1> QED BY <1>1, <1>2

LEMMA HandlersAligned ==
    ASSUME Inv, Aligned, Handlers
    PROVE  Aligned' /\ Lost' \subseteq Lost /\ trouble' = trouble
<1>1. UNCHANGED <<event, hand, trouble>>
  BY DEF Handlers, CreateMeeting, UpdateMeeting, CompleteMeeting, CompleteAndSchedule
<1>2. \/ link' = link
      \/ \E n \in Meetings, op \in Ops : EnqueueMeeting(n, op)
  BY DEF Handlers, CreateMeeting, UpdateMeeting, Notify, CompleteMeeting, CompleteAndSchedule, Ops
<1>3. \A m \in Meetings, a \in Accounts :
        link[m][a] # NoLink => link'[m][a] # NoLink /\ link'[m][a].event = link[m][a].event
  BY <1>2, EnqueueSteady DEF Inv
<1> QED BY <1>1, <1>3, SteadyStep

\* A step of one hand that writes neither rows nor events.
LEMMA OneHandAligned ==
    ASSUME Aligned, NEW h \in Hands, UNCHANGED <<link, event>>,
           \A g \in Hands : g # h => hand'[g] = hand[g],
           \/ hand'[h] = Free
           \/ hand[h] # Free /\ hand'[h].m = hand[h].m /\ hand'[h].a = hand[h].a,
           InHand(h)'
    PROVE  /\ Aligned'
           /\ Lost' \subseteq Lost \cup {hand[h].event}
           /\ (\A e \in Events : Carries(h, e) => Carries(h, e)') => Lost' \subseteq Lost
<1>1. \A g, k \in Hands : Apart(g, k)'
  BY DEF Aligned, Apart
<1>2. \A g \in Hands : g # h => InHand(g)'
  BY DEF Aligned, InHand
<1>3. \A e \in Events : Rooted(e)'
  BY DEF Aligned, Rooted
<1>4. ASSUME NEW e \in Lost', e \notin Lost PROVE Carries(h, e) /\ ~ Carries(h, e)' /\ e \in Events
  <2>1. \A g \in Hands : g # h => (Carries(g, e)' <=> Carries(g, e))
    BY DEF Carries
  <2> QED BY <1>4, <2>1 DEF Lost, Live
<1>5. \A e : Carries(h, e) => e = hand[h].event
  BY DEF Carries
<1> QED BY <1>1, <1>2, <1>3, <1>4, <1>5 DEF Aligned

LEMMA TakeAligned ==
    ASSUME Inv, Aligned, ~ Overlap,
           NEW h \in Hands, NEW m \in Meetings, NEW a \in Accounts, Take(h, m, a)
    PROVE  Aligned' /\ Lost' \subseteq Lost /\ trouble' = trouble
<1> DEFINE t == [phase |-> "taken", m |-> m, a |-> a, op |-> link[m][a].op,
                 event |-> link[m][a].event, attempts |-> link[m][a].attempts + 1]
<1>1. /\ UNCHANGED <<link, event, trouble>> /\ hand[h] = Free /\ ~ Held(m, a)
      /\ hand'[h] = t /\ \A g \in Hands : g # h => hand'[g] = hand[g]
  BY DEF Inv, TypeOK, Take
<1>2. t.m = m /\ t.a = a /\ t.phase = "taken" /\ t.event = link[m][a].event
  OBVIOUS
<1> HIDE DEF t
<1>3. \A g \in Hands : g # h /\ hand[g] # Free => hand[g].m # m \/ hand[g].a # a
  BY <1>1 DEF Held, Holds
<1>4. \A g, k \in Hands : Apart(g, k)'
  BY <1>1, <1>2, <1>3 DEF Aligned, Apart
<1>5. \A g \in Hands : InHand(g)'
  BY <1>1, <1>2 DEF Aligned, InHand
<1>6. \A e \in Events : Rooted(e)'
  BY <1>1 DEF Aligned, Rooted
<1>7. ASSUME NEW e \in Lost' PROVE e \in Lost
  <2>1. \A g \in Hands : Carries(g, e) => Carries(g, e)'
    BY <1>1, FreeFacts DEF Carries
  <2> QED BY <1>1, <2>1 DEF Lost, Live
<1> QED BY <1>1, <1>4, <1>5, <1>6, <1>7 DEF Aligned

\* What becomes of a hand whose turn ends without an event to remember.
LEMMA EndedAligned ==
    ASSUME Inv, Aligned, NEW h \in Hands, hand[h].phase \in {"taken", "linked", "call"},
           NEW outcome \in Outcomes \ {"synced"}, NEW e,
           hand' = [hand EXCEPT ![h] = Ended(hand[h], outcome, e)], UNCHANGED <<link, event>>
    PROVE  Aligned' /\ Lost' \subseteq Lost
<1> DEFINE u == Ended(hand[h], outcome, e)
<1>1. hand'[h] = u /\ \A g \in Hands : g # h => hand'[g] = hand[g]
  BY DEF Inv, TypeOK
<1>2. u.m = hand[h].m /\ u.a = hand[h].a /\ u.phase = "mark" /\ u.outcome # "synced"
  BY DEF Ended
<1> HIDE DEF u
<1>3. InHand(h)'
  BY <1>1, <1>2 DEF InHand
<1>4. hand[h] # Free
  BY FreeFacts
<1>5. \A f \in Events : ~ Carries(h, f)
  BY DEF Carries
<1> QED BY <1>1, <1>2, <1>3, <1>4, <1>5, OneHandAligned

\* The two reads of a turn.
LEMMA ReadAligned ==
    ASSUME Inv, Aligned, NEW h \in Hands, Read(h) \/ ReadMeeting(h)
    PROVE  Aligned' /\ Lost' \subseteq Lost /\ trouble' = trouble
<1> DEFINE t == hand[h]
           linked == [phase |-> "linked", m |-> t.m, a |-> t.a, op |-> t.op, event |-> t.event,
                      attempts |-> t.attempts]
           call == [phase |-> "call", m |-> t.m, a |-> t.a, op |-> t.op, event |-> t.event,
                    attempts |-> t.attempts, want |-> meeting[t.m].sequence]
<1>1. /\ t.phase \in {"taken", "linked"} /\ UNCHANGED <<link, event, trouble>>
      /\ hand \in [Hands -> HandType]
  BY DEF Inv, TypeOK, Read, ReadMeeting
<1>2. CASE hand' = [hand EXCEPT ![h] = Ended(t, "skip", t.event)]
  BY <1>1, <1>2, EndedAligned DEF Outcomes
<1>3. ASSUME NEW new \in {linked, call}, hand' = [hand EXCEPT ![h] = new]
      PROVE  Aligned' /\ Lost' \subseteq Lost
  <2>1. /\ new.m = t.m /\ new.a = t.a /\ new.event = t.event /\ new.phase \in {"linked", "call"}
    BY <1>3
  <2>2. hand'[h] = new /\ \A g \in Hands : g # h => hand'[g] = hand[g]
    BY <1>1, <1>3
  <2>3. t # Free
    BY <1>1, FreeFacts
  <2>4. InHand(h)'
    BY <1>1, <2>1, <2>2 DEF Aligned, InHand
  <2>5. \A f \in Events : ~ Carries(h, f)
    BY <1>1 DEF Carries
  <2> QED BY <1>1, <2>1, <2>2, <2>3, <2>4, <2>5, OneHandAligned
<1>4. \/ hand' = [hand EXCEPT ![h] = Ended(t, "skip", t.event)]
      \/ hand' = [hand EXCEPT ![h] = linked]
      \/ hand' = [hand EXCEPT ![h] = call]
  BY DEF Read, ReadMeeting
<1> HIDE DEF linked, call
<1> QED BY <1>1, <1>2, <1>3, <1>4

\* A call that does something: only a lost answer leaves an event nobody knows.
LEMMA CallAligned ==
    ASSUME Inv, Aligned, NEW h \in Hands, NEW e \in Events,
           Succeed(h, e) \/ LoseAnswer(h, e)
    PROVE  /\ Aligned' /\ Lost' \subseteq Lost \cup {e}
           /\ Succeed(h, e) => Lost' \subseteq Lost
<1> DEFINE t == hand[h]
           answered == Ended(t, Done(t), e)
           lost == Ended(t, "error", t.event)
<1>1. /\ TypeOK /\ t.phase = "call" /\ t # Free /\ link' = link /\ InHand(h)
      /\ Insert(t, e) \/ Patch(t, e) \/ Remove(t, e)
  BY FreeFacts DEF Inv, Aligned, Succeed, LoseAnswer
<1>2. t.m \in Meetings /\ t.a \in Accounts /\ t.op \in Ops /\ link[t.m][t.a] # NoLink
  BY <1>1, HandFacts DEF Inv, Hands_OK, HandOK
<1>3. /\ \A f \in Events : f # e => event'[f] = event[f]
      /\ event'[e].m = t.m /\ event'[e].a = t.a
      /\ t.op = "delete" => ~ event'[e].live
      /\ t.event # None => t.event = e
  BY <1>1, CallFacts
<1>4. /\ answered.phase = "mark" /\ answered.m = t.m /\ answered.a = t.a /\ answered.event = e
      /\ answered.outcome = IF t.op = "delete" THEN "deleted" ELSE "synced"
  BY DEF Ended, Done
<1>5. lost.phase = "mark" /\ lost.m = t.m /\ lost.a = t.a /\ lost.outcome = "error"
  BY DEF Ended
<1>6. /\ \A g \in Hands : g # h => hand'[g] = hand[g]
      /\ Succeed(h, e) => hand'[h] = answered
      /\ hand'[h] = answered \/ hand'[h] = lost
  <2>1. hand \in [Hands -> HandType]
    BY <1>1 DEF TypeOK
  <2> QED BY <2>1 DEF Succeed, LoseAnswer
<1> HIDE DEF answered, lost
<1>7. \A g, k \in Hands : Apart(g, k)'
  BY <1>1, <1>4, <1>5, <1>6 DEF Aligned, Apart
<1>8. InHand(h)'
  <2>1. t.event = link[t.m][t.a].event
    BY <1>1 DEF InHand
  <2> QED BY <1>1, <1>3, <1>4, <1>5, <1>6, <2>1 DEF InHand
<1>9. \A g \in Hands : InHand(g)'
  BY <1>1, <1>6, <1>8 DEF Aligned, InHand
<1>10. \A f \in Events : Rooted(f)'
  BY <1>1, <1>2, <1>3 DEF Aligned, Rooted
<1>11. ASSUME NEW f \in Lost', f # e PROVE f \in Lost
  <2>1. \A g \in Hands : Carries(g, f) => Carries(g, f)'
    BY <1>1, <1>6 DEF Carries
  <2>2. f \in Events /\ event'[f] = event[f]
    BY <1>3, <1>11 DEF Lost
  <2> QED BY <1>1, <2>1, <2>2 DEF Lost, Live
<1>12. Succeed(h, e) => e \notin Lost'
  <2> SUFFICES ASSUME Succeed(h, e) PROVE e \notin Lost'
    OBVIOUS
  <2>1. CASE t.op = "delete"
    BY <1>3, <2>1 DEF Lost, Live
  <2>2. CASE t.op = "upsert"
    <3>1. Carries(h, e)'
      BY <1>4, <1>6, <2>2 DEF Carries
    <3> QED BY <3>1 DEF Lost
  <2> QED BY <1>2, <2>1, <2>2 DEF Ops
<1> QED BY <1>7, <1>9, <1>10, <1>11, <1>12 DEF Aligned

\* The update that closes a turn loses no event: the row it writes knew none, or
\* the one it writes.
LEMMA MarkAligned ==
    ASSUME Inv, Aligned, NEW h \in Hands, Mark(h)
    PROVE  Aligned' /\ Lost' \subseteq Lost /\ trouble' = trouble
<1> DEFINE t == hand[h]
           o == Outcome(link[t.m][t.a], t)
<1> USE CalendarAssumption
<1>1. /\ TypeOK /\ HandOK(h) /\ t # Free /\ t.phase = "mark" /\ InHand(h)
      /\ UNCHANGED <<event, trouble>>
  BY FreeFacts DEF Inv, Hands_OK, Mark, Aligned
<1>2. /\ t.m \in Meetings /\ t.a \in Accounts /\ link[t.m][t.a] # NoLink
      /\ t.outcome = "synced" => t.event # None
      /\ t.event # None => OwnedBy(t.event, t.m, t.a)
  BY <1>1, HandFacts DEF HandOK, Sound
<1>3. /\ o # NoLink
      /\ o.event = IF t.outcome = "synced" THEN t.event ELSE link[t.m][t.a].event
  BY <1>1, <1>2, OutcomeFacts
<1>4. /\ link'[t.m][t.a] = o
      /\ \A m \in Meetings, a \in Accounts :
            (m # t.m \/ a # t.a) => link'[m][a] = link[m][a]
  BY <1>1, <1>2 DEF Mark, TypeOK
<1>5. /\ \A g \in Hands : g # h => hand'[g] = hand[g]
      /\ \/ hand'[h] = Free
         \/ hand'[h].phase = "blame" /\ hand'[h].m = t.m /\ hand'[h].a = t.a
  BY <1>1 DEF Mark, TypeOK
<1> HIDE DEF o
<1>6. \A g, k \in Hands : Apart(g, k)'
  BY <1>1, <1>5 DEF Aligned, Apart
<1>7. ASSUME NEW g \in Hands PROVE InHand(g)'
  <2>1. CASE g = h
    BY <1>5, <2>1, FreeFacts DEF InHand
  <2>2. CASE g # h /\ hand[g] = Free
    BY <1>5, <2>2, FreeFacts DEF InHand
  <2>3. CASE g # h /\ hand[g] # Free
    <3>1. hand[g].m \in Meetings /\ hand[g].a \in Accounts
      BY <1>1, <2>3, HandFacts
    <3>2. hand[g].m # t.m \/ hand[g].a # t.a
      BY <1>1, <2>3 DEF Aligned, Apart
    <3> QED BY <1>4, <1>5, <2>3, <3>1, <3>2 DEF Aligned, InHand
  <2> QED BY <2>1, <2>2, <2>3
<1>8. ASSUME NEW e \in Events, event[e] # NoEvent
      PROVE  /\ link'[event[e].m][event[e].a] # NoLink
             /\ event[e].m \in Meetings /\ event[e].a \in Accounts
  BY <1>1, <1>3, <1>4, <1>8, EventFacts DEF Aligned, Rooted
<1>9. ASSUME NEW e \in Lost' PROVE e \in Lost
  <2>1. e \in Events /\ event[e] # NoEvent /\ Live(e) /\ e # None
    BY <1>1, <1>9 DEF Lost, Live
  <2>2. link'[event[e].m][event[e].a].event # e
    BY <1>1, <1>9 DEF Lost
  <2>3. \A g \in Hands : g # h => ~ Carries(g, e)
    BY <1>5, <1>9 DEF Lost, Carries
  <2>4. ~ Carries(h, e)
    <3> SUFFICES ASSUME Carries(h, e) PROVE FALSE
      OBVIOUS
    <3>1. t.outcome = "synced" /\ t.event = e /\ OwnedBy(e, t.m, t.a)
      BY <1>2, <2>1 DEF Carries
    <3> QED BY <1>3, <1>4, <2>2, <3>1 DEF OwnedBy
  <2>5. link[event[e].m][event[e].a].event # e
    <3> SUFFICES ASSUME link[event[e].m][event[e].a].event = e PROVE FALSE
      OBVIOUS
    <3>1. event[e].m = t.m /\ event[e].a = t.a
      BY <1>4, <1>8, <2>1, <2>2
    <3>2. t.outcome = "synced" /\ t.event # e
      BY <1>3, <1>4, <2>2, <3>1
    <3>3. e \in {None, t.event}
      BY <1>1, <3>1, <3>2 DEF InHand
    <3> QED BY <2>1, <3>2, <3>3
  <2> QED BY <2>1, <2>3, <2>4, <2>5 DEF Lost
<1> QED BY <1>1, <1>6, <1>7, <1>8, <1>9 DEF Aligned, Rooted

LEMMA BlameAligned ==
    ASSUME Inv, Aligned, NEW h \in Hands, Blame(h)
    PROVE  Aligned' /\ Lost' \subseteq Lost /\ trouble' = trouble
<1>1. /\ UNCHANGED <<link, event, trouble>> /\ hand'[h] = Free /\ hand[h].phase = "blame"
      /\ \A g \in Hands : g # h => hand'[g] = hand[g]
  BY DEF Inv, TypeOK, Blame
<1>2. InHand(h)' /\ \A f \in Events : ~ Carries(h, f)
  BY <1>1, FreeFacts DEF InHand, Carries
<1> QED BY <1>1, <1>2, OneHandAligned

\* A failed update and a crash lose at most the event that was in hand.
LEMMA TroubleAligned ==
    ASSUME Inv, Aligned, NEW h \in Hands, MarkFails(h) \/ Crash(h)
    PROVE  /\ Aligned' /\ Lost' \subseteq Lost \cup {hand[h].event} /\ trouble' = trouble + 1
<1>1. CASE Crash(h)
  <2>1. /\ UNCHANGED <<link, event>> /\ trouble' = trouble + 1 /\ hand'[h] = Free
        /\ \A g \in Hands : g # h => hand'[g] = hand[g]
    BY <1>1 DEF Inv, TypeOK, Crash
  <2>2. InHand(h)'
    BY <2>1, FreeFacts DEF InHand
  <2> QED BY <2>1, <2>2, OneHandAligned
<1>2. CASE MarkFails(h)
  <2> DEFINE t == hand[h]
             new == [t EXCEPT !.outcome = "error"]
  <2>1. /\ UNCHANGED <<link, event>> /\ trouble' = trouble + 1 /\ t.phase = "mark"
        /\ hand'[h] = new /\ t \in HandType
        /\ \A g \in Hands : g # h => hand'[g] = hand[g]
    BY <1>2 DEF Inv, TypeOK, MarkFails
  <2>2. new.m = t.m /\ new.a = t.a /\ new.outcome # "synced" /\ new.phase = "mark"
    BY <2>1 DEF HandType, Free
  <2>3. t # Free
    BY <2>1, FreeFacts
  <2> HIDE DEF new
  <2>4. InHand(h)'
    BY <2>1, <2>2 DEF InHand
  <2> QED BY <2>1, <2>2, <2>3, <2>4, OneHandAligned
<1> QED BY <1>1, <1>2

\* Runs that do not overlap: the rows and the hands stay aligned, and an event is
\* lost only by a step that is counted as trouble.
LEMMA StrayStep ==
    ASSUME Inv, Inv', ~ Overlap, Aligned, Counted, [Next]_vars
    PROVE  Aligned' /\ Counted'
<1>0. TypeOK /\ TypeOK' /\ trouble \in Nat
  BY CalendarAssumption DEF Inv, TypeOK
<1>1. ASSUME Lost' \subseteq Lost, trouble' = trouble PROVE Counted'
  BY <1>0, <1>1, CountKeep
<1>2. CASE UNCHANGED vars
  <2>1. Aligned' /\ Lost' \subseteq Lost
    BY <1>2, SteadyStep DEF vars
  <2> QED BY <1>1, <1>2, <2>1 DEF vars
<1>3. CASE Handlers
  BY <1>1, <1>3, HandlersAligned
<1>4. ASSUME NEW a \in Accounts, Connect(a) \/ Disconnect(a) PROVE Aligned' /\ Counted'
  <2>1. UNCHANGED <<link, event, hand, trouble>>
    BY <1>4 DEF Connect, Disconnect
  <2>2. Aligned' /\ Lost' \subseteq Lost
    BY <2>1, SteadyStep
  <2> QED BY <1>1, <2>1, <2>2
<1>5. ASSUME NEW h \in Hands, NEW m \in Meetings, NEW a \in Accounts, Take(h, m, a)
      PROVE  Aligned' /\ Counted'
  BY <1>1, <1>5, TakeAligned
<1>6. ASSUME NEW h \in Hands, Read(h) \/ ReadMeeting(h) PROVE Aligned' /\ Counted'
  BY <1>1, <1>6, ReadAligned
<1>7. ASSUME NEW h \in Hands, NothingToRemove(h) PROVE Aligned' /\ Counted'
  <2>1. /\ hand[h].phase = "call" /\ UNCHANGED <<link, event, trouble>>
        /\ hand' = [hand EXCEPT ![h] = Ended(hand[h], "deleted", None)]
    BY <1>7 DEF NothingToRemove, Inv, TypeOK
  <2>2. Aligned' /\ Lost' \subseteq Lost
    BY <2>1, EndedAligned DEF Outcomes
  <2> QED BY <1>1, <2>1, <2>2
<1>8. ASSUME NEW h \in Hands, NEW outcome \in {"error", "unauthorized"}, Fail(h, outcome)
      PROVE  Aligned' /\ Counted'
  <2>1. /\ hand[h].phase \in {"taken", "linked", "call"} /\ UNCHANGED <<link, event, trouble>>
        /\ hand' = [hand EXCEPT ![h] = Ended(hand[h], outcome, hand[h].event)]
    BY <1>8 DEF Fail, Inv, TypeOK
  <2>2. Aligned' /\ Lost' \subseteq Lost
    BY <2>1, EndedAligned DEF Outcomes
  <2> QED BY <1>1, <2>1, <2>2
<1>9. ASSUME NEW h \in Hands, NEW e \in Events, Succeed(h, e) PROVE Aligned' /\ Counted'
  <2>1. Aligned' /\ Lost' \subseteq Lost
    BY <1>9, CallAligned
  <2> QED BY <1>1, <1>9, <2>1 DEF Succeed
<1>10. ASSUME NEW h \in Hands, NEW e \in Events, LoseAnswer(h, e) PROVE Aligned' /\ Counted'
  <2>1. Aligned' /\ Lost' \subseteq Lost \cup {e} /\ trouble' = trouble + 1
    BY <1>10, CallAligned DEF LoseAnswer
  <2> QED BY <1>0, <2>1, CountOne
<1>11. ASSUME NEW h \in Hands, Mark(h) \/ Blame(h) PROVE Aligned' /\ Counted'
  BY <1>1, <1>11, MarkAligned, BlameAligned
<1>12. ASSUME NEW h \in Hands, MarkFails(h) \/ Crash(h) PROVE Aligned' /\ Counted'
  <2>1. Aligned' /\ Lost' \subseteq Lost \cup {hand[h].event} /\ trouble' = trouble + 1
    BY <1>12, TroubleAligned
  <2> QED BY <1>0, <2>1, CountOne
<1>13. ASSUME NEW h \in Hands, Work(h) PROVE Aligned' /\ Counted'
  BY <1>6, <1>7, <1>8, <1>9, <1>10, <1>11, <1>13 DEF Work
<1> QED
  BY <1>2, <1>3, <1>4, <1>5, <1>12, <1>13 DEF Next

LEMMA StrayInit == Init => Aligned /\ Counted
<1> SUFFICES ASSUME Init PROVE Aligned /\ Counted
  OBVIOUS
<1>1. Lost = {}
  BY DEF Init, Lost, Live
<1>2. Aligned
  BY FreeFacts DEF Init, Aligned, Apart, InHand, Rooted
<1> QED BY <1>1, <1>2, FS_EmptySet DEF Init, Counted

\* Each event nobody knows of any more has a lost answer, a failed update or a
\* crash of its own, as long as a run of syncCalendarLinks ends before the next
\* starts: for any number of rows in hand, meetings, accounts and failures.
THEOREM StraysAreTrouble == Spec => []StraysExplained
<1>1. Init => (~ Overlap => Aligned /\ Counted)
  BY StrayInit
<1>2. Inv /\ Inv' /\ (~ Overlap => Aligned /\ Counted) /\ [Next]_vars
        => (~ Overlap => Aligned /\ Counted)'
  BY StrayStep
<1>3. Inv /\ (~ Overlap => Aligned /\ Counted) => StraysExplained
  <2> SUFFICES ASSUME Inv, ~ Overlap, Counted PROVE Cardinality(Strays) <= trouble
    BY DEF StraysExplained
  <2>1. ASSUME NEW e \in Strays PROVE e \in Lost
    <3>1. e \in Events /\ Live(e) /\ link[event[e].m][event[e].a].event # e
      BY DEF Strays
    <3>2. ASSUME NEW h \in Hands, Carries(h, e) PROVE FALSE
      <4>1. hand[h] # Free /\ hand[h].phase = "mark" /\ hand[h].event = e
        BY <3>2, FreeFacts DEF Carries
      <4> QED BY <4>1 DEF Strays
    <3> QED BY <3>1, <3>2 DEF Lost
  <2>2. /\ IsFiniteSet(Strays) /\ Cardinality(Strays) <= Cardinality(Lost)
        /\ Cardinality(Strays) \in Nat /\ Cardinality(Lost) \in Nat
    BY <2>1, FS_Subset, FS_CardinalityType DEF Counted
  <2>3. trouble \in Nat
    BY CalendarAssumption DEF Inv, TypeOK
  <2> QED BY <2>2, <2>3 DEF Counted
<1> QED BY <1>1, <1>2, <1>3, Invariance, PTL DEF Spec

===============================================================================
