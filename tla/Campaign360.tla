----------------------------- MODULE Campaign360 -----------------------------
(***************************************************************************)
(* A 360 feedback campaign (f360.service.ts), seen from one of its         *)
(* subjects: raters are nominated, the nominations sent and approved, the  *)
(* collection started, each rater asked once, the campaign closed with a   *)
(* report, the report released. Every operation is a session under READ    *)
(* COMMITTED: its checks and what it reads at the beginning, what it       *)
(* writes when it commits, unaware of what is committed in between. Launch *)
(* alone is one step: a subject is unique in a campaign. Reminders, drafts *)
(* of answers and notifications change nothing of this.                    *)
(***************************************************************************)
EXTENDS Naturals, FiniteSets

CONSTANTS Fixed,       \* the raters every subject has: self and manager
          Nominees,    \* those who can be nominated, persons or external addresses
          CategoryOf,  \* the category of each rater
          Blank,       \* the raters who leave the one competency modelled unrated
          Rows,        \* the requests there can be: <<rater, n>>
          Releases,    \* the rules of release HR may choose
          Rules,       \* the campaigns: categories, threshold, who nominates, approval
          Connections, \* the transactions that may be open together
          MaxOverlaps  \* bound on the overlaps that matter, committed or pending

VARIABLES rules,   \* of the campaign, fixed by its launch
          db,      \* the committed rows: campaign, subject, requests, answers, report
          session, \* the open transaction of each connection
          crossed  \* history: what the sessions committed have missed, <<kind, of whom>>

vars == <<rules, db, session, crossed>>

Raters == Fixed \cup Nominees
Viewers == {"self", "manager", "hr"}
Nominating == {"nominating", "pending_approval", "approved"}
Rater(row) == row[1]
Category(row) == CategoryOf[row[1]]

ASSUME RatersAssumption == Fixed \cap Nominees = {} /\ DOMAIN CategoryOf = Raters
ASSUME BlankAssumption == Blank \subseteq Raters
ASSUME RowsAssumption == Rows \subseteq Raters \X Nat /\ \A r \in Fixed : <<r, 1>> \in Rows
ASSUME ReleasesAssumption == Releases \subseteq {"immediately", "manager", "after_debrief"}
ASSUME BoundAssumption == MaxOverlaps \in Nat
ASSUME RulesAssumption ==
  Rules \subseteq [anonymous: SUBSET {CategoryOf[r] : r \in Raters}, threshold: Nat \ {0},
                   least: Nat, most: Nat, nominationBy: {"subject", "manager", "hr"}, approval: BOOLEAN]

(***************************************************************************)
(* The report: each anonymous category with fewer answers than the         *)
(* threshold is merged with the others, and they are hidden if they are    *)
(* still too few. A competency's average is that of the answers shown that *)
(* rate it, as many as they are.                                           *)
(***************************************************************************)
AnswersOf(answers, category) == {a \in answers : Category(a[1]) = category}
Small(answers) == {k \in rules.anonymous : Cardinality(AnswersOf(answers, k)) < rules.threshold}
Merged(answers) == UNION {AnswersOf(answers, k) : k \in Small(answers)}

(* Mutant: the merged categories are shown whatever their answers. *)
ShownTogetherAlways(answers) ==
  {AnswersOf(answers, k) : k \in rules.anonymous \ Small(answers)} \cup ({Merged(answers)} \ {{}})

ShownTogether(answers) ==
  {AnswersOf(answers, k) : k \in rules.anonymous \ Small(answers)}
    \cup {g \in {Merged(answers)} : Cardinality(g) >= rules.threshold}

Averaged(shown) == {a \in shown : Rater(a[1]) \notin Blank}

(***************************************************************************)
(* Sessions.                                                               *)
(***************************************************************************)
Idle == [op |-> "none"]
Open == {c \in Connections : session[c] # Idle}

(* What a session misses that matters to it, when the other commits: a second request or
   answer of its own rater, an answer to the request it refuses, a start that asks the rater
   it nominates or the request it withdraws, or that moves its subject on, another start, an
   answer during the closing, a change of the rule during the closing. *)
Restart == <<"restart", "campaign">>
Phase == <<"phase", "campaign">>
Rule == <<"rule", "campaign">>

Missed(s, other) ==
  LET pair == <<s.op, other.op>>
      same == {s.arg} \cap {other.arg}
  IN CASE pair = <<"nominate", "nominate">> -> {<<"twice", r>> : r \in same}
       [] pair = <<"answer", "answer">>     -> {<<"twice", Rater(row)>> : row \in same}
       [] pair = <<"decline", "answer">>    -> {<<"refused", row>> : row \in same}
       [] pair = <<"nominate", "start">>    -> {<<"unasked", s.arg>>}
       [] pair = <<"start", "nominate">>    -> {<<"unasked", other.arg>>}
       [] pair = <<"remove", "start">>      -> {<<"withdrawn", s.arg>>}
       [] pair = <<"approve", "start">>     -> {Phase} \cup {<<"withdrawn", row>> : row \in s.arg}
       [] pair = <<"submit", "start">>      -> {Phase}
       [] pair = <<"start", "start">>       -> {Restart}
       [] pair = <<"answer", "close">>      -> {<<"late", s.arg>>}
       [] pair = <<"close", "answer">>      -> {<<"late", other.arg>>}
       [] pair \in {<<"change", "close">>, <<"close", "change">>} -> {Rule}
       [] OTHER -> {}

Begin(c, op, arg) ==
  /\ session[c] = Idle
  /\ session' = [session EXCEPT ![c] = [op |-> op, arg |-> arg, unaware |-> {}]]
  /\ UNCHANGED <<rules, db, crossed>>

Live(row) == db.request[row] \notin {"none", "rejected"}

CanNominate(viewer) ==
  /\ db.campaign = "nomination"
  /\ CASE viewer = "hr"      -> db.subject \in Nominating
       [] viewer = "self"    -> rules.nominationBy = "subject" /\ db.subject = "nominating"
       [] viewer = "manager" -> \/ rules.nominationBy = "manager" /\ db.subject = "nominating"
                                \/ rules.approval /\ db.subject = "pending_approval"

BeginNominate(c) ==
  \E r \in Nominees :
    /\ \E viewer \in Viewers : CanNominate(viewer)
    /\ Cardinality({row \in Rows : Live(row) /\ Category(row) = CategoryOf[r]}) < rules.most
    /\ \A row \in Rows : Live(row) => Rater(row) # r
    /\ Begin(c, "nominate", r)

BeginRemove(c) ==
  \E row \in Rows :
    /\ \E viewer \in Viewers : CanNominate(viewer)
    /\ db.request[row] = "proposed" /\ Rater(row) \in Nominees
    /\ Begin(c, "remove", row)

(* assertMinimums, were the rows given rejected. *)
Enough(rejected) ==
  \A k \in rules.anonymous :
    Cardinality({row \in Rows \ rejected : /\ db.request[row] \in {"proposed", "pending", "submitted"}
                                           /\ Category(row) = k}) >= rules.least

BeginSubmit(c) ==
  \E viewer \in Viewers :
    /\ db.campaign = "nomination" /\ db.subject = "nominating"
    /\ viewer = "self" => rules.nominationBy = "subject"
    /\ viewer = "manager" => rules.nominationBy # "subject"
    /\ Enough({})
    /\ Begin(c, "submit", IF rules.approval /\ viewer = "self" THEN "pending_approval" ELSE "approved")

(* By the manager or HR, with the nominations they reject. *)
BeginApprove(c) ==
  \E rejected \in SUBSET {row \in Rows : Rater(row) \in Nominees /\ Live(row)} :
    /\ db.campaign = "nomination" /\ db.subject \in {"pending_approval", "nominating"}
    /\ Enough(rejected)
    /\ Begin(c, "approve", rejected)

(* Mutant: the nominations of a subject not yet approved are left out. *)
ToAskApproved == {row \in Rows : db.request[row] = "proposed" /\ db.subject = "approved"}

ToAsk == {row \in Rows : db.request[row] = "proposed"}

BeginStart(c) == db.campaign = "nomination" /\ Begin(c, "start", ToAsk)

BeginAnswer(c) ==
  \E row \in Rows :
    /\ db.request[row] = "pending" /\ db.campaign = "collection"
    /\ Begin(c, "answer", row)

BeginDecline(c) ==
  \E row \in Rows :
    /\ db.request[row] = "pending" /\ Rater(row) \in Nominees
    /\ Begin(c, "decline", row)

(* The report is made of the answers there are, under the rule of release of now. *)
BeginClose(c) ==
  db.campaign = "collection" /\ Begin(c, "close", [answers |-> db.answers, release |-> db.release])

BeginChange(c) ==
  \E to \in Releases \ {db.release} : db.campaign # "closed" /\ Begin(c, "change", to)

(* Mutant: the debrief is not asked for. *)
ReleasableAnyhow == db.subject = "ready"

Releasable == db.subject = "ready" /\ (db.release = "after_debrief" => db.debriefed)

BeginRelease(c) == Releasable /\ Begin(c, "release", "released")

(* A debrief releases the report that was waiting for it. *)
BeginDebrief(c) ==
  /\ db.subject \in {"ready", "released"}
  /\ Begin(c, "debrief", db.release = "after_debrief" /\ db.subject = "ready")

(***************************************************************************)
(* What each operation writes.                                             *)
(***************************************************************************)
With(rows, from, to) ==
  [row \in Rows |-> IF row \in rows /\ db.request[row] \in from THEN to ELSE db.request[row]]
Existing == {"proposed", "rejected", "pending", "submitted", "declined", "expired"}

Free(r) == {row \in Rows : Rater(row) = r /\ ~Live(row)}

(* Mutant: the request stays open. *)
AnsweredOpen(row) ==
  [db EXCEPT !.answers = @ \cup {<<row, 1 + Cardinality({a \in @ : a[1] = row})>>}]

Answered(row) ==
  [db EXCEPT !.answers = @ \cup {<<row, 1 + Cardinality({a \in @ : a[1] = row})>>},
             !.request = With({row}, Existing, "submitted")]

(* Mutant: the subject is left where its nominations were. *)
StartedAlone(rows) == [db EXCEPT !.campaign = "collection", !.request = With(rows, Existing, "pending")]

Started(rows) ==
  [db EXCEPT !.campaign = "collection", !.subject = "collecting", !.request = With(rows, Existing, "pending")]

(* The second of two debriefs finds the report released and is undone. *)
Debriefed(releases) ==
  IF ~releases THEN [db EXCEPT !.debriefed = TRUE]
  ELSE IF db.subject = "ready" THEN [db EXCEPT !.debriefed = TRUE, !.subject = "released"]
  ELSE db

Nominated(r) ==
  [db EXCEPT !.request = With({CHOOSE row \in Free(r) : TRUE}, {"none", "rejected"}, "proposed")]
Removed(row) == [db EXCEPT !.request = With({row}, Existing, "none")]
Sent(status) == [db EXCEPT !.subject = status]
ApprovedBut(rejected) ==
  [db EXCEPT !.subject = "approved", !.request = With(rejected, Existing, "rejected")]
Declined(row) == [db EXCEPT !.request = With({row}, Existing, "declined")]
Closed(report, release) ==
  [db EXCEPT !.campaign = "closed", !.report = report,
             !.subject = IF release = "immediately" THEN "released" ELSE "ready",
             !.request = With(Rows, {"pending"}, "expired")]
Changed(release) == [db EXCEPT !.release = release]
Released(status) == [db EXCEPT !.subject = status]

After(s) ==
  CASE s.op = "nominate" -> Nominated(s.arg)
    [] s.op = "remove"   -> Removed(s.arg)
    [] s.op = "submit"   -> Sent(s.arg)
    [] s.op = "approve"  -> ApprovedBut(s.arg)
    [] s.op = "start"    -> Started(s.arg)
    [] s.op = "answer"   -> Answered(s.arg)
    [] s.op = "decline"  -> Declined(s.arg)
    [] s.op = "close"    -> Closed(s.arg.answers, s.arg.release)
    [] s.op = "change"   -> Changed(s.arg)
    [] s.op = "release"  -> Released(s.arg)
    [] s.op = "debrief"  -> Debriefed(s.arg)

Commit(c) ==
  LET s == session[c]
  IN /\ s # Idle
     /\ s.op = "nominate" => Free(s.arg) # {}
     /\ db' = After(s)
     /\ session' = [d \in Connections |->
          IF d = c \/ d \notin Open THEN Idle
          ELSE [session[d] EXCEPT !.unaware = @ \cup Missed(session[d], s)]]
     /\ crossed' = crossed \cup s.unaware
     /\ Cardinality(crossed' \cup UNION {session'[d].unaware : d \in Open'}) <= MaxOverlaps
     /\ UNCHANGED rules

(* The subject, and the requests to self and manager. *)
Launch ==
  /\ db.campaign = "draft"
  /\ db' = [db EXCEPT !.campaign = "nomination", !.subject = "nominating",
                      !.request = With({<<r, 1>> : r \in Fixed}, {"none"}, "proposed")]
  /\ UNCHANGED <<rules, session, crossed>>

Init ==
  /\ rules \in Rules
  /\ \E release \in Releases :
       db = [campaign |-> "draft", subject |-> "none", release |-> release, debriefed |-> FALSE,
             request |-> [row \in Rows |-> "none"], answers |-> {}, report |-> {}]
  /\ session = [c \in Connections |-> Idle]
  /\ crossed = {}

Request(c) ==
  \/ BeginNominate(c) \/ BeginRemove(c) \/ BeginSubmit(c) \/ BeginApprove(c)
  \/ BeginStart(c) \/ BeginAnswer(c) \/ BeginDecline(c)
  \/ BeginClose(c) \/ BeginChange(c) \/ BeginRelease(c) \/ BeginDebrief(c)

Next == Launch \/ \E c \in Connections : Request(c) \/ Commit(c)

Spec == Init /\ [][Next]_vars

(***************************************************************************)
(* Properties.                                                             *)
(***************************************************************************)

\* Rows, sessions and history have their types.
TypeOK ==
  /\ rules \in Rules
  /\ db.campaign \in {"draft", "nomination", "collection", "closed"}
  /\ db.subject \in {"none", "collecting", "ready", "released"} \cup Nominating
  /\ db.request \in [Rows -> {"none"} \cup Existing]
  /\ db.answers \subseteq Rows \X (Nat \ {0}) /\ db.report \subseteq db.answers

(* A category shown by itself in the report, or those it merges, have answers of as many
   people as the threshold, unless two nominations of one of these people or two submissions
   of one request overlapped, or two starts of the collection. The average of a competency is
   held to no threshold of its own (report.ts:138-148): it is that of fewer people only where
   some of the group left the competency unrated. *)
People(answers) == {Rater(a[1]) : a \in answers}

StandsForRaters ==
  \/ Restart \in crossed
  \/ \A shown \in ShownTogether(db.report) :
       \/ /\ Cardinality(People(shown)) >= rules.threshold
          /\ Cardinality(People(Averaged(shown))) >= rules.threshold \/ People(shown) \cap Blank # {}
       \/ \E r \in People(shown) : <<"twice", r>> \in crossed

(* A request is marked as submitted when it is answered, but where its refusal missed the
   answer or its withdrawal, a removal or a rejection, missed the start; the report of a
   closed campaign has every answer but those that overlapped the closing. Two overlapping
   starts undo both. *)
ReportIsWhole ==
  \/ Restart \in crossed
  \/ /\ \A row \in Rows :
          \/ row \in {a[1] : a \in db.answers} <=> db.request[row] = "submitted"
          \/ <<"refused", row>> \in crossed \/ <<"withdrawn", row>> \in crossed
     /\ db.campaign = "closed" => \A a \in db.answers \ db.report : <<"late", a[1]>> \in crossed

(* Once the collection starts nobody nominated is left unasked, but who was nominated by a
   session that overlapped the start. *)
EverybodyAsked ==
  db.campaign \in {"collection", "closed"} =>
    \A row \in Rows : db.request[row] = "proposed" => <<"unasked", Rater(row)>> \in crossed

(* Subject and campaign go through their phases together, unless the nominations were sent
   or approved by a session that missed the start, or two starts overlapped. *)
InStep ==
  \/ crossed \cap {Phase, Restart} # {}
  \/ /\ db.campaign = "draft" => db.subject = "none"
     /\ db.campaign = "nomination" => db.subject \in Nominating
     /\ db.campaign = "collection" => db.subject = "collecting"
     /\ db.campaign = "closed" => db.subject \in {"ready", "released"}

(* The subject reads the report when the rule of the campaign lets him, unless the rule was
   changed while the campaign was being closed or two starts overlapped. *)
ReleasedByRule ==
  crossed \cap {Rule, Restart} = {} =>
  /\ db.subject = "released" /\ db.release = "after_debrief" => db.debriefed
  /\ db.subject = "ready" => db.release # "immediately"
=============================================================================
