------------------------- MODULE Campaign360Proofs -------------------------
(***************************************************************************)
(* Proofs about Campaign360, for any raters, rows, rules of nomination and *)
(* release, number of connections and bound on the overlaps: its           *)
(* types, that the report stands for enough people and has every answer,   *)
(* that nobody is left unasked, that subject and campaign go together and  *)
(* that the report is read when the rule of release allows it.             *)
(***************************************************************************)
EXTENDS Campaign360, FiniteSetTheorems, TLAPS

(***************************************************************************)
(* The inductive invariant: the types of rows and sessions,                *)
(***************************************************************************)
Campaigns == {"draft", "nomination", "collection", "closed"}
Subjects == {"none", "nominating", "pending_approval", "approved", "collecting", "ready", "released"}
Kinds == {"twice", "refused", "unasked", "withdrawn", "late", "restart", "phase", "rule"}
Overlaps == Kinds \X (Raters \cup Rows \cup {"campaign"})
Given == SUBSET (Rows \X (Nat \ {0}))

Database ==
  [campaign: Campaigns, subject: Subjects, release: Releases, debriefed: BOOLEAN,
   request: [Rows -> {"none"} \cup Existing], answers: Given, report: Given]

Requests ==
  {Idle}
    \cup [op: {"nominate"}, arg: Nominees, unaware: SUBSET Overlaps]
    \cup [op: {"remove", "answer", "decline"}, arg: Rows, unaware: SUBSET Overlaps]
    \cup [op: {"submit"}, arg: {"pending_approval", "approved"}, unaware: SUBSET Overlaps]
    \cup [op: {"approve", "start"}, arg: SUBSET Rows, unaware: SUBSET Overlaps]
    \cup [op: {"close"}, arg: [answers: Given, release: Releases], unaware: SUBSET Overlaps]
    \cup [op: {"change"}, arg: Releases, unaware: SUBSET Overlaps]
    \cup [op: {"release"}, arg: {"released"}, unaware: SUBSET Overlaps]
    \cup [op: {"debrief"}, arg: BOOLEAN, unaware: SUBSET Overlaps]

Types ==
  /\ rules \in Rules
  /\ db \in Database
  /\ session \in [Connections -> Requests]
  /\ crossed \subseteq Overlaps
  /\ IsFiniteSet(db.answers) /\ db.report \subseteq db.answers

(***************************************************************************)
(* what a campaign not yet started has not, one row and one answer of each *)
(* rater, what a report needs,                                             *)
(***************************************************************************)
OneRow(rows) == \A a, b \in rows : Rater(a) = Rater(b) => a = b \/ <<"twice", Rater(a)>> \in crossed
AnsweredRows == {a[1] : a \in db.answers}
Begun == db.campaign \in {"collection", "closed"}

Asked ==
  {row \in Rows : db.request[row] = "pending"} \cup AnsweredRows
    \cup {session[c].arg : c \in {d \in Open : session[d].op = "answer"}}

Fresh ==
  /\ db.campaign = "draft" => db.subject = "none" /\ (\A row \in Rows : db.request[row] = "none")
  /\ db.campaign \in {"draft", "nomination"} =>
       /\ db.answers = {}
       /\ \A row \in Rows : db.request[row] \in {"none", "proposed", "rejected"}

OneNominated == db.campaign = "nomination" => OneRow({row \in Rows : Live(row)})
OneAsked == Restart \notin crossed => OneRow(Asked)
OneAnswer ==
  Restart \notin crossed =>
    /\ \A a \in db.answers : db.request[a[1]] # "pending"
    /\ \A a, b \in db.answers : a[1] = b[1] => a = b \/ <<"twice", Rater(a[1])>> \in crossed

ClosedStays == Restart \notin crossed /\ db.subject \in {"ready", "released"} => db.campaign = "closed"

(***************************************************************************)
(* what an open session relies on: it still holds, or the session is       *)
(* marked as unaware of what took it away;                                 *)
(***************************************************************************)
ReliesNominating(s) ==
  /\ s.op = "nominate" =>
       /\ db.campaign = "nomination" \/ <<"unasked", s.arg>> \in s.unaware
       /\ \/ db.campaign # "nomination" \/ <<"twice", s.arg>> \in s.unaware
          \/ \A row \in Rows : Live(row) => Rater(row) # s.arg
  /\ s.op = "remove" => db.campaign = "nomination" \/ <<"withdrawn", s.arg>> \in s.unaware
  /\ s.op \in {"submit", "approve"} => db.campaign = "nomination" \/ Phase \in s.unaware
  /\ s.op = "approve" =>
       db.campaign = "nomination" \/ \A row \in s.arg : <<"withdrawn", row>> \in s.unaware
  /\ s.op = "start" =>
       /\ db.campaign = "nomination" \/ Restart \in s.unaware
       /\ \A row \in Rows :
            db.request[row] = "proposed" => row \in s.arg \/ <<"unasked", Rater(row)>> \in s.unaware
       /\ OneRow(s.arg)

ReliesCollecting(s) ==
  /\ s.op = "answer" =>
       /\ Begun
       /\ db.campaign = "closed" => <<"late", s.arg>> \in s.unaware
       /\ db.request[s.arg] # "none" \/ <<"withdrawn", s.arg>> \in crossed
       /\ s.arg \notin AnsweredRows \/ <<"twice", Rater(s.arg)>> \in s.unaware \/ Restart \in crossed
  /\ s.op = "decline" => Begun /\ (db.request[s.arg] = "submitted" => <<"refused", s.arg>> \in s.unaware)
  /\ s.op = "close" =>
       /\ Begun /\ s.arg.answers \subseteq db.answers
       /\ \A a \in db.answers \ s.arg.answers : <<"late", a[1]>> \in s.unaware
       /\ s.arg.release = db.release \/ Rule \in s.unaware

ReliesReleasing(s) ==
  /\ s.op = "change" => db.campaign # "closed" \/ Rule \in s.unaware
  /\ s.op \in {"release", "debrief"} => db.campaign = "closed" \/ Restart \in crossed
  /\ s.op = "release" /\ crossed \cap {Rule, Restart} = {} =>
       (db.release = "after_debrief" => db.debriefed)

Relies(c) == ReliesNominating(session[c]) /\ ReliesCollecting(session[c]) /\ ReliesReleasing(session[c])

(* and a session about the nominations never meets a draft. *)
Inv ==
  /\ Types
  /\ Fresh /\ OneNominated /\ OneAsked /\ OneAnswer /\ ClosedStays
  /\ \A c \in Open : Relies(c) /\ (session[c].op # "change" => db.campaign # "draft")
  /\ EverybodyAsked /\ ReportIsWhole /\ InStep /\ ReleasedByRule

LEMMA Initially == Init => Inv
<1> SUFFICES ASSUME Init PROVE Inv
  OBVIOUS
<1>1. PICK release \in Releases :
        db = [campaign |-> "draft", subject |-> "none", release |-> release, debriefed |-> FALSE,
              request |-> [row \in Rows |-> "none"], answers |-> {}, report |-> {}]
  BY DEF Init
<1>2. Types
  <2>1. db \in Database
    BY <1>1 DEF Database, Campaigns, Subjects, Given
  <2>2. IsFiniteSet(db.answers) /\ db.report \subseteq db.answers
    BY <1>1, FS_EmptySet
  <2> QED BY <2>1, <2>2 DEF Init, Types, Requests
<1>3. Open = {}
  BY DEF Init, Open
<1>4. Fresh /\ OneNominated /\ OneAnswer /\ ClosedStays /\ EverybodyAsked
  BY <1>1 DEF Fresh, OneNominated, OneAnswer, ClosedStays, EverybodyAsked
<1>5. Asked = {}
  BY <1>1, <1>3 DEF Asked, AnsweredRows
<1>6. ReportIsWhole /\ InStep /\ ReleasedByRule
  BY <1>1 DEF ReportIsWhole, InStep, ReleasedByRule
<1> QED BY <1>2, <1>3, <1>4, <1>5, <1>6 DEF Inv, OneAsked, OneRow

(***************************************************************************)
(* A request begins.                                                       *)
(***************************************************************************)
LEMMA BeginKeeps ==
  ASSUME Inv, NEW c \in Connections, NEW op, NEW arg, Begin(c, op, arg),
         [op |-> op, arg |-> arg, unaware |-> {}] \in Requests,
         op # "change" => db.campaign # "draft",
         op = "answer" => arg \in Rows /\ db.request[arg] = "pending",
         ReliesNominating([op |-> op, arg |-> arg, unaware |-> {}]),
         ReliesCollecting([op |-> op, arg |-> arg, unaware |-> {}]),
         ReliesReleasing([op |-> op, arg |-> arg, unaware |-> {}])
  PROVE  Inv'
<1> DEFINE s == [op |-> op, arg |-> arg, unaware |-> {}]
<1>1. /\ session' = [session EXCEPT ![c] = s]
      /\ rules' = rules /\ db' = db /\ crossed' = crossed /\ s \in Requests /\ session[c] = Idle
  BY DEF Begin
<1>0. s.op = op /\ s.arg = arg
  OBVIOUS
<1>2. Types'
  BY <1>1 DEF Inv, Types
<1>3. \A d \in Open' : \/ d = c /\ session'[d] = s
                       \/ d # c /\ d \in Open /\ session'[d] = session[d]
  BY <1>1 DEF Open, Inv, Types
<1>4. ASSUME NEW d \in Open' PROVE Relies(d)' /\ (session'[d].op # "change" => db'.campaign # "draft")
  <2>1. CASE d = c /\ session'[d] = s
    <3>1. ReliesNominating(s)' /\ ReliesCollecting(s)' /\ ReliesReleasing(s)'
      BY <1>1 DEF ReliesNominating, ReliesCollecting, ReliesReleasing, Live, Begun, AnsweredRows, OneRow,
                  Restart, Phase, Rule
    <3>2. s.op # "change" => db'.campaign # "draft"
      BY <1>1
    <3> QED BY <2>1, <3>1, <3>2 DEF Relies
  <2>2. CASE d # c /\ d \in Open /\ session'[d] = session[d]
    <3>1. Relies(d) /\ (session[d].op # "change" => db.campaign # "draft")
      BY <2>2 DEF Inv
    <3> QED BY <1>1, <2>2, <3>1
          DEF Relies, ReliesNominating, ReliesCollecting, ReliesReleasing, Live, Begun, AnsweredRows, OneRow,
              Restart, Phase, Rule
  <2> QED BY <1>3, <2>1, <2>2
<1>5. Asked' \subseteq Asked
  <2>1. AnsweredRows' = AnsweredRows
    BY <1>1 DEF AnsweredRows
  <2> SUFFICES ASSUME NEW d \in Open', session'[d].op = "answer" PROVE session'[d].arg \in Asked
    BY <1>1, <2>1 DEF Asked
  <2> QED BY <1>3, <1>1, <1>0 DEF Asked
<1>6. OneAsked'
  BY <1>1, <1>5 DEF Inv, OneAsked, OneRow
<1>7. Fresh' /\ OneNominated' /\ OneAnswer' /\ ClosedStays'
  BY <1>1 DEF Inv, Fresh, OneNominated, OneAnswer, ClosedStays, OneRow, Live
<1>8. EverybodyAsked' /\ ReportIsWhole' /\ InStep' /\ ReleasedByRule'
  BY <1>1 DEF Inv, EverybodyAsked, ReportIsWhole, InStep, ReleasedByRule
<1> QED BY <1>2, <1>4, <1>6, <1>7, <1>8 DEF Inv

(* Nominating: removals, sending and approving find the campaign in its nomination. *)
LEMMA NominateBegins == ASSUME Inv, NEW c \in Connections, BeginNominate(c) PROVE Inv'
<1>1. PICK r \in Nominees : /\ \E viewer \in Viewers : CanNominate(viewer)
                            /\ \A row \in Rows : Live(row) => Rater(row) # r
                            /\ Begin(c, "nominate", r)
  BY DEF BeginNominate
<1> DEFINE s == [op |-> "nominate", arg |-> r, unaware |-> {}]
<1>2. db.campaign = "nomination" /\ s \in Requests
  BY <1>1 DEF CanNominate, Requests
<1>3. ReliesNominating(s) /\ ReliesCollecting(s) /\ ReliesReleasing(s)
  BY <1>1, <1>2 DEF ReliesNominating, ReliesCollecting, ReliesReleasing
<1> QED BY <1>1, <1>2, <1>3, BeginKeeps

LEMMA PhaseBegins ==
  ASSUME Inv, NEW c \in Connections, NEW op \in {"remove", "submit", "approve"}, NEW arg, Begin(c, op, arg),
         [op |-> op, arg |-> arg, unaware |-> {}] \in Requests, db.campaign = "nomination"
  PROVE  Inv'
<1> DEFINE s == [op |-> op, arg |-> arg, unaware |-> {}]
<1>1. ReliesNominating(s) /\ ReliesCollecting(s) /\ ReliesReleasing(s)
  BY DEF ReliesNominating, ReliesCollecting, ReliesReleasing
<1> QED BY <1>1, BeginKeeps

LEMMA RemoveBegins == ASSUME Inv, NEW c \in Connections, BeginRemove(c) PROVE Inv'
<1>1. PICK row \in Rows : (\E viewer \in Viewers : CanNominate(viewer)) /\ Begin(c, "remove", row)
  BY DEF BeginRemove
<1>2. db.campaign = "nomination" /\ [op |-> "remove", arg |-> row, unaware |-> {}] \in Requests
  BY <1>1 DEF CanNominate, Requests
<1> QED BY <1>1, <1>2, PhaseBegins

LEMMA SubmitBegins == ASSUME Inv, NEW c \in Connections, BeginSubmit(c) PROVE Inv'
<1>1. PICK status \in {"pending_approval", "approved"} : Begin(c, "submit", status)
  BY DEF BeginSubmit
<1>2. db.campaign = "nomination" /\ [op |-> "submit", arg |-> status, unaware |-> {}] \in Requests
  BY DEF BeginSubmit, Requests
<1> QED BY <1>1, <1>2, PhaseBegins

LEMMA ApproveBegins == ASSUME Inv, NEW c \in Connections, BeginApprove(c) PROVE Inv'
<1>1. PICK rejected \in SUBSET Rows : db.campaign = "nomination" /\ Begin(c, "approve", rejected)
  BY DEF BeginApprove
<1>2. [op |-> "approve", arg |-> rejected, unaware |-> {}] \in Requests
  BY DEF Requests
<1> QED BY <1>1, <1>2, PhaseBegins

LEMMA StartBegins == ASSUME Inv, NEW c \in Connections, BeginStart(c) PROVE Inv'
<1> DEFINE s == [op |-> "start", arg |-> ToAsk, unaware |-> {}]
<1>1. db.campaign = "nomination" /\ Begin(c, "start", ToAsk)
  BY DEF BeginStart
<1>2. s \in Requests
  BY DEF Requests, ToAsk
<1>3. OneRow(ToAsk)
  <2>1. ToAsk \subseteq {row \in Rows : Live(row)}
    BY DEF ToAsk, Live
  <2> QED BY <1>1, <2>1 DEF Inv, OneNominated, OneRow
<1>4. \A row \in Rows : db.request[row] = "proposed" => row \in ToAsk
  BY DEF ToAsk
<1>5. ReliesNominating(s) /\ ReliesCollecting(s) /\ ReliesReleasing(s)
  BY <1>1, <1>3, <1>4 DEF ReliesNominating, ReliesCollecting, ReliesReleasing
<1> QED BY <1>1, <1>2, <1>5, BeginKeeps

(* Collecting: a request that is pending has no answer yet. *)
LEMMA AnswerBegins == ASSUME Inv, NEW c \in Connections, BeginAnswer(c) PROVE Inv'
<1>1. PICK row \in Rows :
        db.request[row] = "pending" /\ db.campaign = "collection" /\ Begin(c, "answer", row)
  BY DEF BeginAnswer
<1> DEFINE s == [op |-> "answer", arg |-> row, unaware |-> {}]
<1>2. s \in Requests
  BY DEF Requests
<1>3. row \notin AnsweredRows \/ Restart \in crossed
  BY <1>1 DEF Inv, OneAnswer, AnsweredRows
<1>4. ReliesNominating(s) /\ ReliesCollecting(s) /\ ReliesReleasing(s)
  BY <1>1, <1>3 DEF ReliesNominating, ReliesCollecting, ReliesReleasing, Begun
<1> QED BY <1>1, <1>2, <1>4, BeginKeeps

LEMMA DeclineBegins == ASSUME Inv, NEW c \in Connections, BeginDecline(c) PROVE Inv'
<1>1. PICK row \in Rows : db.request[row] = "pending" /\ Begin(c, "decline", row)
  BY DEF BeginDecline
<1> DEFINE s == [op |-> "decline", arg |-> row, unaware |-> {}]
<1>2. s \in Requests
  BY DEF Requests
<1>3. Begun
  BY <1>1 DEF Inv, Types, Database, Campaigns, Fresh, Begun
<1>4. ReliesNominating(s) /\ ReliesCollecting(s) /\ ReliesReleasing(s)
  BY <1>1, <1>3 DEF ReliesNominating, ReliesCollecting, ReliesReleasing
<1> QED BY <1>1, <1>2, <1>3, <1>4, BeginKeeps DEF Begun

LEMMA CloseBegins == ASSUME Inv, NEW c \in Connections, BeginClose(c) PROVE Inv'
<1> DEFINE arg == [answers |-> db.answers, release |-> db.release]
           s == [op |-> "close", arg |-> arg, unaware |-> {}]
<1>1. db.campaign = "collection" /\ Begin(c, "close", arg)
  BY DEF BeginClose
<1>2. arg \in [answers: Given, release: Releases] /\ arg.answers = db.answers /\ arg.release = db.release
  BY DEF Inv, Types, Database
<1> HIDE DEF arg
<1>3. s \in Requests
  BY <1>2 DEF Requests
<1>4. ReliesNominating(s) /\ ReliesCollecting(s) /\ ReliesReleasing(s)
  BY <1>1, <1>2 DEF ReliesNominating, ReliesCollecting, ReliesReleasing, Begun
<1> QED BY <1>1, <1>3, <1>4, BeginKeeps

(* Releasing: a report is ready only in a closed campaign. *)
LEMMA ChangeBegins == ASSUME Inv, NEW c \in Connections, BeginChange(c) PROVE Inv'
<1>1. PICK to \in Releases : db.campaign # "closed" /\ Begin(c, "change", to)
  BY DEF BeginChange
<1> DEFINE s == [op |-> "change", arg |-> to, unaware |-> {}]
<1>2. s \in Requests
  BY DEF Requests
<1>3. ReliesNominating(s) /\ ReliesCollecting(s) /\ ReliesReleasing(s)
  BY <1>1 DEF ReliesNominating, ReliesCollecting, ReliesReleasing
<1> QED BY <1>1, <1>2, <1>3, BeginKeeps

LEMMA ReleaseBegins == ASSUME Inv, NEW c \in Connections, BeginRelease(c) PROVE Inv'
<1> DEFINE s == [op |-> "release", arg |-> "released", unaware |-> {}]
<1>1. Releasable /\ Begin(c, "release", "released")
  BY DEF BeginRelease
<1>2. s \in Requests /\ db.campaign # "draft" /\ (db.campaign = "closed" \/ Restart \in crossed)
  BY <1>1 DEF Requests, Releasable, Inv, ClosedStays, Fresh
<1>3. ReliesNominating(s) /\ ReliesCollecting(s) /\ ReliesReleasing(s)
  BY <1>1, <1>2 DEF ReliesNominating, ReliesCollecting, ReliesReleasing, Releasable
<1> QED BY <1>1, <1>2, <1>3, BeginKeeps

LEMMA DebriefBegins == ASSUME Inv, NEW c \in Connections, BeginDebrief(c) PROVE Inv'
<1> DEFINE arg == db.release = "after_debrief" /\ db.subject = "ready"
           s == [op |-> "debrief", arg |-> arg, unaware |-> {}]
<1>1. db.subject \in {"ready", "released"} /\ Begin(c, "debrief", arg) /\ arg \in BOOLEAN
  BY DEF BeginDebrief
<1> HIDE DEF arg
<1>2. s \in Requests /\ db.campaign # "draft" /\ (db.campaign = "closed" \/ Restart \in crossed)
  BY <1>1 DEF Requests, Inv, ClosedStays, Fresh
<1>3. ReliesNominating(s) /\ ReliesCollecting(s) /\ ReliesReleasing(s)
  BY <1>2 DEF ReliesNominating, ReliesCollecting, ReliesReleasing
<1> QED BY <1>1, <1>2, <1>3, BeginKeeps

(***************************************************************************)
(* A session commits: what the others become,                              *)
(***************************************************************************)
LEMMA MissedTypes ==
  ASSUME NEW s \in Requests, NEW other \in Requests, s # Idle, other # Idle
  PROVE  Missed(s, other) \subseteq Overlaps
<1>1. \A row \in Rows : Rater(row) \in Raters
  BY RowsAssumption DEF Rater
<1>2. Nominees \subseteq Raters
  BY DEF Raters
<1>3. s.op = "nominate" => s.arg \in Nominees
  BY DEF Requests
<1>4. other.op = "nominate" => other.arg \in Nominees
  BY DEF Requests
<1>5. s.op \in {"remove", "answer", "decline"} => s.arg \in Rows
  BY DEF Requests
<1>6. other.op \in {"remove", "answer", "decline"} => other.arg \in Rows
  BY DEF Requests
<1>7. s.op = "approve" => s.arg \subseteq Rows
  BY DEF Requests
<1> QED BY <1>1, <1>2, <1>3, <1>4, <1>5, <1>6, <1>7 DEF Missed, Overlaps, Kinds, Restart, Phase, Rule

(* A session that is open when the other commits misses what matters to it. *)
LEMMA MissedNominating ==
  ASSUME NEW s, NEW other
  PROVE  /\ s.op = "nominate" /\ other.op = "nominate" /\ s.arg = other.arg =>
              <<"twice", s.arg>> \in Missed(s, other)
         /\ s.op = "nominate" /\ other.op = "start" => <<"unasked", s.arg>> \in Missed(s, other)
         /\ s.op = "remove" /\ other.op = "start" => <<"withdrawn", s.arg>> \in Missed(s, other)
         /\ s.op \in {"submit", "approve"} /\ other.op = "start" => Phase \in Missed(s, other)
         /\ s.op = "approve" /\ other.op = "start" =>
              \A row \in s.arg : <<"withdrawn", row>> \in Missed(s, other)
         /\ s.op = "start" /\ other.op = "start" => Restart \in Missed(s, other)
         /\ s.op = "start" /\ other.op = "nominate" => <<"unasked", other.arg>> \in Missed(s, other)
BY DEF Missed

LEMMA MissedCollecting ==
  ASSUME NEW s, NEW other
  PROVE  /\ s.op = "answer" /\ other.op = "answer" /\ s.arg = other.arg =>
              <<"twice", Rater(s.arg)>> \in Missed(s, other)
         /\ s.op = "decline" /\ other.op = "answer" /\ s.arg = other.arg =>
              <<"refused", s.arg>> \in Missed(s, other)
         /\ s.op = "answer" /\ other.op = "close" => <<"late", s.arg>> \in Missed(s, other)
         /\ s.op = "close" /\ other.op = "answer" => <<"late", other.arg>> \in Missed(s, other)
         /\ s.op = "change" /\ other.op = "close" => Rule \in Missed(s, other)
         /\ s.op = "close" /\ other.op = "change" => Rule \in Missed(s, other)
BY DEF Missed

LEMMA OthersMiss ==
  ASSUME Inv, NEW c \in Connections, Commit(c), NEW d \in Open'
  PROVE  /\ d \in Open /\ d # c
         /\ session'[d].op = session[d].op /\ session'[d].arg = session[d].arg
         /\ session'[d].unaware = session[d].unaware \cup Missed(session[d], session[c])
         /\ session'[d] \in Requests
<1>1. /\ d \in Open /\ d # c
      /\ session'[d] = [session[d] EXCEPT !.unaware = @ \cup Missed(session[d], session[c])]
  BY DEF Commit, Open
<1>2. session[d] \in Requests /\ session[d] # Idle
  BY <1>1 DEF Inv, Types, Open
<1>3. Missed(session[d], session[c]) \subseteq Overlaps
  <2>1. session[c] \in Requests /\ session[c] # Idle
    BY DEF Inv, Types, Commit
  <2> QED BY <1>2, <2>1, MissedTypes
<1> QED BY <1>1, <1>2, <1>3 DEF Requests

(* what has to be shown of the rows for the others still to rely on them, *)
Follows(other) ==
  /\ \A row \in Rows :
       /\ db'.request[row] = "proposed" =>
            db.request[row] = "proposed" \/ (other.op = "nominate" /\ Rater(row) = other.arg)
       /\ db'.request[row] = "submitted" =>
            db.request[row] = "submitted" \/ (other.op = "answer" /\ row = other.arg)
       /\ db'.request[row] = "none" /\ Begun =>
            db.request[row] = "none" \/ <<"withdrawn", row>> \in crossed'
       /\ db'.campaign = "nomination" /\ Live(row)' =>
            Live(row) \/ (other.op = "nominate" /\ Rater(row) = other.arg)
  /\ db.campaign # "draft" => db'.campaign # "draft"
  /\ db.campaign = "nomination" => db'.campaign = "nomination" \/ other.op = "start"
  /\ db'.campaign = "nomination" => db.campaign = "nomination"
  /\ db'.campaign = "closed" => db.campaign = "closed" \/ other.op = "close"
  /\ db.campaign = "closed" => db'.campaign = "closed" \/ Restart \in crossed'
  /\ Begun => Begun'
  /\ db.answers \subseteq db'.answers
  /\ \A a \in db'.answers : a \in db.answers \/ (other.op = "answer" /\ a[1] = other.arg)
  /\ \/ db'.release = db.release
     \/ other.op = "change" /\ (db.campaign # "closed" \/ Rule \in crossed')
  /\ db.debriefed => db'.debriefed

LEMMA ReliesKept ==
  ASSUME Inv, NEW c \in Connections, Commit(c), Follows(session[c]), NEW d \in Open'
  PROVE  Relies(d)' /\ (session'[d].op # "change" => db'.campaign # "draft")
<1> DEFINE s == session[d]
           other == session[c]
<1>1. /\ d \in Open /\ s'.op = s.op /\ s'.arg = s.arg
      /\ s'.unaware = s.unaware \cup Missed(s, other) /\ s \in Requests /\ s # Idle
      /\ crossed \subseteq crossed'
  BY OthersMiss DEF Commit, Inv, Types, Open
<1>2. /\ ReliesNominating(s) /\ ReliesCollecting(s) /\ ReliesReleasing(s)
      /\ s.op # "change" => db.campaign # "draft"
  BY <1>1 DEF Inv, Relies
<1> HIDE DEF s, other
<1>f. Follows(other)
  BY DEF other
<1>3. ReliesNominating(s)'
  <2>1. ASSUME s.op = "nominate"
        PROVE  /\ db'.campaign = "nomination" \/ <<"unasked", s'.arg>> \in s'.unaware
               /\ \/ db'.campaign # "nomination" \/ <<"twice", s'.arg>> \in s'.unaware
                  \/ \A row \in Rows : Live(row)' => Rater(row) # s'.arg
    BY <1>1, <1>2, <1>f, <2>1, MissedNominating DEF ReliesNominating, Follows
  <2>2. ASSUME s.op = "remove"
        PROVE  db'.campaign = "nomination" \/ <<"withdrawn", s'.arg>> \in s'.unaware
    BY <1>1, <1>2, <1>f, <2>2, MissedNominating DEF ReliesNominating, Follows
  <2>3. ASSUME s.op \in {"submit", "approve"}
        PROVE  db'.campaign = "nomination" \/ Phase \in s'.unaware
    BY <1>1, <1>2, <1>f, <2>3, MissedNominating DEF ReliesNominating, Follows
  <2>4. ASSUME s.op = "approve"
        PROVE  db'.campaign = "nomination" \/ \A row \in s'.arg : <<"withdrawn", row>> \in s'.unaware
    BY <1>1, <1>2, <1>f, <2>4, MissedNominating DEF ReliesNominating, Follows
  <2>5. ASSUME s.op = "start"
        PROVE  /\ db'.campaign = "nomination" \/ Restart \in s'.unaware
               /\ \A row \in Rows :
                    db'.request[row] = "proposed" =>
                      row \in s'.arg \/ <<"unasked", Rater(row)>> \in s'.unaware
               /\ OneRow(s.arg)
    <3>1. db'.campaign = "nomination" \/ Restart \in s'.unaware
      BY <1>1, <1>2, <1>f, <2>5, MissedNominating DEF ReliesNominating, Follows
    <3>2. ASSUME NEW row \in Rows, db'.request[row] = "proposed"
          PROVE  row \in s'.arg \/ <<"unasked", Rater(row)>> \in s'.unaware
      <4>1. CASE db.request[row] = "proposed"
        BY <4>1, <1>1, <1>2, <2>5, <3>2 DEF ReliesNominating
      <4>2. CASE other.op = "nominate" /\ Rater(row) = other.arg
        BY <4>2, <1>1, <2>5, MissedNominating
      <4> QED BY <4>1, <4>2, <3>2, <1>f DEF Follows
    <3>3. OneRow(s.arg)
      BY <1>2, <2>5 DEF ReliesNominating
    <3> QED BY <3>1, <3>2, <3>3
  <2>6. s.op = "start" => OneRow(s.arg)'
    BY <1>1, <2>5 DEF OneRow
  <2>7. Restart' = Restart /\ Phase' = Phase
    BY DEF Restart, Phase
  <2> QED BY <1>1, <2>1, <2>2, <2>3, <2>4, <2>5, <2>6, <2>7 DEF ReliesNominating, s
<1>4. ReliesCollecting(s)'
  <2>1. ASSUME s.op = "answer"
        PROVE  /\ Begun'
               /\ db'.campaign = "closed" => <<"late", s'.arg>> \in s'.unaware
               /\ db'.request[s'.arg] # "none" \/ <<"withdrawn", s'.arg>> \in crossed'
               /\ \/ s'.arg \notin AnsweredRows' \/ <<"twice", Rater(s'.arg)>> \in s'.unaware
                  \/ Restart \in crossed'
    <3>1. s.arg \in Rows
      BY <1>1, <2>1 DEF Requests
    <3>2. \A row \in AnsweredRows' : row \in AnsweredRows \/ (other.op = "answer" /\ row = other.arg)
      BY <1>f DEF AnsweredRows, Follows
    <3>3. Begun' /\ (db'.campaign = "closed" => <<"late", s'.arg>> \in s'.unaware)
      BY <1>1, <1>2, <1>f, <2>1, MissedCollecting DEF ReliesCollecting, Follows
    <3>4. db'.request[s'.arg] # "none" \/ <<"withdrawn", s'.arg>> \in crossed'
      BY <1>1, <1>2, <1>f, <2>1, <3>1 DEF ReliesCollecting, Follows
    <3>5. \/ s'.arg \notin AnsweredRows' \/ <<"twice", Rater(s'.arg)>> \in s'.unaware
          \/ Restart \in crossed'
      BY <1>1, <1>2, <2>1, <3>2, MissedCollecting DEF ReliesCollecting
    <3> QED BY <3>3, <3>4, <3>5
  <2>2. ASSUME s.op = "decline"
        PROVE  Begun' /\ (db'.request[s'.arg] = "submitted" => <<"refused", s'.arg>> \in s'.unaware)
    <3>1. s.arg \in Rows
      BY <1>1, <2>2 DEF Requests
    <3>2. Begun'
      BY <1>2, <1>f, <2>2 DEF ReliesCollecting, Follows
    <3>3. ASSUME db'.request[s.arg] = "submitted" PROVE <<"refused", s'.arg>> \in s'.unaware
      <4>1. CASE db.request[s.arg] = "submitted"
        BY <4>1, <1>1, <1>2, <2>2 DEF ReliesCollecting
      <4>2. CASE other.op = "answer" /\ s.arg = other.arg
        BY <4>2, <1>1, <2>2, MissedCollecting
      <4> QED BY <4>1, <4>2, <3>1, <3>3, <1>f DEF Follows
    <3> QED BY <3>2, <3>3, <1>1
  <2>3. ASSUME s.op = "close"
        PROVE  /\ Begun' /\ s'.arg.answers \subseteq db'.answers
               /\ \A a \in db'.answers \ s'.arg.answers : <<"late", a[1]>> \in s'.unaware
               /\ s'.arg.release = db'.release \/ Rule \in s'.unaware
    <3>1. Begun' /\ s'.arg.answers \subseteq db'.answers
      BY <1>1, <1>2, <1>f, <2>3 DEF ReliesCollecting, Follows
    <3>2. ASSUME NEW a \in db'.answers, a \notin s'.arg.answers PROVE <<"late", a[1]>> \in s'.unaware
      <4>1. CASE a \in db.answers
        BY <4>1, <1>1, <1>2, <2>3, <3>2 DEF ReliesCollecting
      <4>2. CASE other.op = "answer" /\ a[1] = other.arg
        BY <4>2, <1>1, <2>3, MissedCollecting
      <4> QED BY <4>1, <4>2, <1>f DEF Follows
    <3>3. s'.arg.release = db'.release \/ Rule \in s'.unaware
      BY <1>1, <1>2, <1>f, <2>3, MissedCollecting DEF ReliesCollecting, Follows
    <3> QED BY <3>1, <3>2, <3>3
  <2>7. Restart' = Restart /\ Rule' = Rule
    BY DEF Restart, Rule
  <2> QED BY <1>1, <2>1, <2>2, <2>3, <2>7 DEF ReliesCollecting, s
<1>5. ReliesReleasing(s)'
  <2>1. ASSUME s.op = "change" PROVE db'.campaign # "closed" \/ Rule \in s'.unaware
    BY <1>1, <1>2, <1>f, <2>1, MissedCollecting DEF ReliesReleasing, Follows
  <2>2. ASSUME s.op \in {"release", "debrief"}
        PROVE  db'.campaign = "closed" \/ Restart \in crossed'
    BY <1>1, <1>2, <1>f, <2>2 DEF ReliesReleasing, Follows
  <2>3. ASSUME s.op = "release", crossed' \cap {Rule, Restart} = {}
        PROVE  db'.release = "after_debrief" => db'.debriefed
    BY <1>1, <1>2, <1>f, <2>3 DEF ReliesReleasing, Follows
  <2>7. Restart' = Restart /\ Rule' = Rule
    BY DEF Restart, Rule
  <2> QED BY <1>1, <2>1, <2>2, <2>3, <2>7 DEF ReliesReleasing, s
<1>6. s'.op # "change" => db'.campaign # "draft"
  BY <1>1, <1>2, <1>f DEF Follows
<1> QED BY <1>3, <1>4, <1>5, <1>6 DEF Relies, s

(* and what is left to show of the rows themselves. *)
LEMMA Committing ==
  ASSUME Inv, NEW c \in Connections, Commit(c)
  PROVE  /\ c \in Open /\ session[c] \in Requests /\ session[c] # Idle /\ db \in Database
         /\ db' = After(session[c])
         /\ rules' = rules /\ crossed' = crossed \cup session[c].unaware /\ crossed' \subseteq Overlaps
         /\ ReliesNominating(session[c]) /\ ReliesCollecting(session[c]) /\ ReliesReleasing(session[c])
         /\ session[c].op # "change" => db.campaign # "draft"
<1>1. /\ c \in Open /\ session[c] \in Requests /\ session[c] # Idle /\ db \in Database
      /\ db' = After(session[c])
      /\ rules' = rules /\ crossed' = crossed \cup session[c].unaware
  BY DEF Commit, Open, Inv, Types
<1>2. session[c].unaware \subseteq Overlaps
  BY <1>1 DEF Requests
<1> QED BY <1>1, <1>2 DEF Inv, Types, Relies

LEMMA CommitKeeps ==
  ASSUME Inv, NEW c \in Connections, Commit(c), Follows(session[c]),
         db' \in Database, IsFiniteSet(db'.answers), db'.report \subseteq db'.answers,
         Fresh', OneNominated', OneAsked', OneAnswer', ClosedStays',
         EverybodyAsked', ReportIsWhole', InStep', ReleasedByRule'
  PROVE  Inv'
<1>1. session' \in [Connections -> Requests]
  <2>1. session' = [d \in Connections |-> session'[d]]
    BY DEF Commit
  <2>2. ASSUME NEW d \in Connections PROVE session'[d] \in Requests
    <3>1. CASE d \in Open'
      BY <3>1, OthersMiss
    <3>2. CASE d \notin Open'
      BY <3>2 DEF Open, Requests
    <3> QED BY <3>1, <3>2
  <2> QED BY <2>1, <2>2
<1>2. Types'
  BY <1>1, Committing DEF Inv, Types
<1>3. \A d \in Open' : Relies(d)' /\ (session'[d].op # "change" => db'.campaign # "draft")
  BY ReliesKept
<1> QED BY <1>2, <1>3 DEF Inv

(* Nobody is asked by anything but a start. *)
LEMMA NobodyAsked ==
  ASSUME Inv, NEW c \in Connections, Commit(c),
         \A row \in Rows : db'.request[row] = "pending" => db.request[row] = "pending",
         \/ db'.answers = db.answers
         \/ session[c].op = "answer" /\ AnsweredRows' \subseteq AnsweredRows \cup {session[c].arg}
  PROVE  OneAsked'
<1>1. c \in Open /\ crossed \subseteq crossed'
  BY Committing
<1>2. AnsweredRows' \subseteq Asked
  <2>1. CASE db'.answers = db.answers
    BY <2>1 DEF AnsweredRows, Asked
  <2>2. CASE session[c].op = "answer" /\ AnsweredRows' \subseteq AnsweredRows \cup {session[c].arg}
    BY <2>2, <1>1 DEF Asked
  <2> QED BY <2>1, <2>2
<1>3. ASSUME NEW d \in Open', session'[d].op = "answer" PROVE session'[d].arg \in Asked
  BY <1>3, OthersMiss DEF Asked
<1>4. Asked' \subseteq Asked
  BY <1>2, <1>3 DEF Asked
<1> QED BY <1>1, <1>4 DEF Inv, OneAsked, OneRow

(***************************************************************************)
(* The operations on the subject and on the rule of release.               *)
(***************************************************************************)
LEMMA RequestsAlone ==
  ASSUME Inv, NEW c \in Connections, Commit(c),
         session[c].op \in {"submit", "release", "debrief", "change"}, db' \in Database,
         /\ db'.campaign = db.campaign /\ db'.request = db.request
         /\ db'.answers = db.answers /\ db'.report = db.report,
         db.debriefed => db'.debriefed,
         session[c].op = "change" => db'.subject = db.subject /\ (db.campaign # "closed" \/ Rule \in crossed'),
         session[c].op # "change" => db'.release = db.release,
         ClosedStays', InStep', ReleasedByRule'
  PROVE  Inv'
<1>1. /\ crossed \subseteq crossed' /\ rules' = rules
      /\ session[c].op # "change" => db.campaign # "draft"
  BY Committing
<1>2. Follows(session[c])
  BY <1>1 DEF Follows, Live, Begun
<1>3. OneAsked'
  BY NobodyAsked
<1>4. Fresh' /\ OneNominated' /\ OneAnswer'
  BY <1>1 DEF Inv, Fresh, OneNominated, OneAnswer, OneRow, Live
<1>5. EverybodyAsked' /\ ReportIsWhole'
  BY <1>1 DEF Inv, EverybodyAsked, ReportIsWhole
<1>6. IsFiniteSet(db'.answers) /\ db'.report \subseteq db'.answers
  BY DEF Inv, Types
<1> QED BY <1>2, <1>3, <1>4, <1>5, <1>6, CommitKeeps

LEMMA SubmitCommits == ASSUME Inv, NEW c \in Connections, Commit(c), session[c].op = "submit" PROVE Inv'
<1> DEFINE s == session[c]
<1>1. /\ s \in [op: {"submit"}, arg: {"pending_approval", "approved"}, unaware: SUBSET Overlaps]
      /\ db \in Database /\ db' = Sent(s.arg) /\ crossed' = crossed \cup s.unaware
      /\ db.campaign = "nomination" \/ Phase \in s.unaware
      /\ db.campaign # "draft"
  BY Committing DEF Requests, Idle, After, ReliesNominating
<1>2. /\ db' \in Database /\ db'.subject \in {"pending_approval", "approved"}
      /\ db'.campaign = db.campaign /\ db'.request = db.request /\ db'.release = db.release
      /\ db'.answers = db.answers /\ db'.report = db.report /\ db'.debriefed = db.debriefed
  BY <1>1 DEF Sent, Database, Subjects
<1>3. ClosedStays' /\ ReleasedByRule'
  BY <1>2 DEF ClosedStays, ReleasedByRule
<1>4. InStep'
  BY <1>1, <1>2 DEF InStep, Nominating
<1> QED BY <1>2, <1>3, <1>4, RequestsAlone

LEMMA ReleaseCommits == ASSUME Inv, NEW c \in Connections, Commit(c), session[c].op = "release" PROVE Inv'
<1> DEFINE s == session[c]
<1>1. /\ s \in [op: {"release"}, arg: {"released"}, unaware: SUBSET Overlaps]
      /\ db \in Database /\ db' = Released(s.arg) /\ crossed' = crossed \cup s.unaware
      /\ db.campaign = "closed" \/ Restart \in crossed
      /\ crossed \cap {Rule, Restart} = {} => (db.release = "after_debrief" => db.debriefed)
  BY Committing DEF Requests, Idle, After, ReliesReleasing
<1>2. /\ db' \in Database /\ db'.subject = "released"
      /\ db'.campaign = db.campaign /\ db'.request = db.request /\ db'.release = db.release
      /\ db'.answers = db.answers /\ db'.report = db.report /\ db'.debriefed = db.debriefed
  BY <1>1 DEF Released, Database, Subjects
<1>3. ClosedStays' /\ InStep' /\ ReleasedByRule'
  BY <1>1, <1>2 DEF ClosedStays, InStep, ReleasedByRule
<1> QED BY <1>2, <1>3, RequestsAlone

LEMMA DebriefCommits == ASSUME Inv, NEW c \in Connections, Commit(c), session[c].op = "debrief" PROVE Inv'
<1> DEFINE s == session[c]
<1>1. /\ s \in [op: {"debrief"}, arg: BOOLEAN, unaware: SUBSET Overlaps]
      /\ db \in Database /\ db' = Debriefed(s.arg) /\ crossed' = crossed \cup s.unaware
  BY Committing DEF Requests, Idle, After
<1>2. /\ db' \in Database
      /\ \/ db'.subject = db.subject
         \/ db.subject = "ready" /\ db'.subject = "released" /\ db'.debriefed
      /\ db'.campaign = db.campaign /\ db'.request = db.request /\ db'.release = db.release
      /\ db'.answers = db.answers /\ db'.report = db.report /\ (db.debriefed => db'.debriefed)
  BY <1>1 DEF Debriefed, Database, Subjects
<1>3. ClosedStays' /\ InStep' /\ ReleasedByRule'
  BY <1>1, <1>2 DEF Inv, ClosedStays, InStep, ReleasedByRule, Nominating
<1> QED BY <1>2, <1>3, RequestsAlone

LEMMA ChangeCommits == ASSUME Inv, NEW c \in Connections, Commit(c), session[c].op = "change" PROVE Inv'
<1> DEFINE s == session[c]
<1>1. /\ s \in [op: {"change"}, arg: Releases, unaware: SUBSET Overlaps]
      /\ db \in Database /\ db' = Changed(s.arg) /\ crossed' = crossed \cup s.unaware
      /\ db.campaign # "closed" \/ Rule \in s.unaware
  BY Committing DEF Requests, Idle, After, ReliesReleasing
<1>2. /\ db' \in Database /\ db'.subject = db.subject
      /\ db'.campaign = db.campaign /\ db'.request = db.request
      /\ db'.answers = db.answers /\ db'.report = db.report /\ db'.debriefed = db.debriefed
  BY <1>1 DEF Changed, Database
<1>3. ClosedStays' /\ InStep' /\ ReleasedByRule'
  BY <1>1, <1>2 DEF Inv, ClosedStays, InStep, ReleasedByRule
<1> QED BY <1>1, <1>2, <1>3, RequestsAlone

(***************************************************************************)
(* The operations on the nominations.                                      *)
(***************************************************************************)
LEMMA NominateCommits == ASSUME Inv, NEW c \in Connections, Commit(c), session[c].op = "nominate" PROVE Inv'
<1> DEFINE s == session[c]
           new == CHOOSE row \in Free(s.arg) : TRUE
<1>1. /\ s \in [op: {"nominate"}, arg: Nominees, unaware: SUBSET Overlaps]
      /\ db \in Database /\ db' = Nominated(s.arg) /\ crossed' = crossed \cup s.unaware
      /\ db.campaign = "nomination" \/ <<"unasked", s.arg>> \in s.unaware
      /\ \/ db.campaign # "nomination" \/ <<"twice", s.arg>> \in s.unaware
         \/ \A row \in Rows : Live(row) => Rater(row) # s.arg
      /\ db.campaign # "draft" /\ rules' = rules
  BY Committing DEF Requests, Idle, After, ReliesNominating
<1>2. new \in Rows /\ Rater(new) = s.arg /\ ~Live(new)
  BY <1>1 DEF Commit, Free
<1>3. db' = [db EXCEPT !.request = With({new}, {"none", "rejected"}, "proposed")]
  BY <1>1 DEF Nominated
<1> HIDE DEF new
<1>4. /\ db' \in Database
      /\ \A row \in Rows : db'.request[row] = IF row = new THEN "proposed" ELSE db.request[row]
      /\ db'.campaign = db.campaign /\ db'.subject = db.subject /\ db'.release = db.release
      /\ db'.answers = db.answers /\ db'.report = db.report /\ db'.debriefed = db.debriefed
  BY <1>1, <1>2, <1>3 DEF With, Live, Database, Existing
<1>5. Follows(s)
  BY <1>1, <1>2, <1>4 DEF Follows, Live, Begun
<1>6. OneAsked'
  BY <1>4, NobodyAsked
<1>7. OneNominated'
  <2> SUFFICES ASSUME db.campaign = "nomination", NEW a \in Rows, NEW b \in Rows, Live(a)', Live(b)',
                      Rater(a) = Rater(b), a # b
               PROVE  <<"twice", Rater(a)>> \in crossed'
    BY <1>4 DEF OneNominated, OneRow
  <2>1. \A row \in Rows : Live(row)' => row = new \/ Live(row)
    BY <1>4 DEF Live
  <2>2. CASE Live(a) /\ Live(b)
    BY <2>2, <1>1 DEF Inv, OneNominated, OneRow
  <2>3. CASE a = new \/ b = new
    <3>1. Rater(a) = s.arg /\ ((Live(a) /\ Rater(a) = s.arg) \/ (Live(b) /\ Rater(b) = s.arg))
      BY <2>1, <2>3, <1>2
    <3>2. <<"twice", s.arg>> \in s.unaware
      BY <3>1, <1>1
    <3> QED BY <3>1, <3>2, <1>1
  <2> QED BY <2>1, <2>2, <2>3
<1>8. Fresh' /\ OneAnswer' /\ ClosedStays'
  BY <1>1, <1>2, <1>4 DEF Inv, Types, Database, Given, Fresh, OneAnswer, ClosedStays
<1>9. EverybodyAsked' /\ InStep' /\ ReleasedByRule'
  <2>1. EverybodyAsked'
    BY <1>1, <1>2, <1>4 DEF Inv, EverybodyAsked
  <2>2. InStep' /\ ReleasedByRule'
    BY <1>1, <1>4 DEF Inv, InStep, ReleasedByRule, Nominating
  <2> QED BY <2>1, <2>2
<1>10. ReportIsWhole'
  <2>1. \A row \in Rows : db'.request[row] = "submitted" <=> db.request[row] = "submitted"
    BY <1>2, <1>4 DEF Live
  <2> QED BY <1>1, <1>4, <2>1 DEF Inv, ReportIsWhole
<1>11. IsFiniteSet(db'.answers) /\ db'.report \subseteq db'.answers
  BY <1>4 DEF Inv, Types
<1> QED BY <1>4, <1>5, <1>6, <1>7, <1>8, <1>9, <1>10, <1>11, CommitKeeps

LEMMA WithdrawalKeeps ==
  ASSUME Inv, NEW c \in Connections, Commit(c), db' \in Database,
         session[c].op \in {"remove", "approve"},
         \A row \in Rows : \/ db'.request[row] = db.request[row]
                           \/ /\ db.request[row] # "none" /\ db'.request[row] \in {"none", "rejected"}
                              /\ db.campaign = "nomination" \/ <<"withdrawn", row>> \in crossed',
         /\ db'.campaign = db.campaign /\ db'.release = db.release /\ db'.debriefed = db.debriefed
         /\ db'.answers = db.answers /\ db'.report = db.report,
         db'.subject = db.subject \/ (db'.subject = "approved" /\ session[c].op = "approve")
  PROVE  Inv'
<1>1. /\ crossed \subseteq crossed' /\ rules' = rules /\ db.campaign # "draft" /\ db \in Database
      /\ session[c].op = "approve" => db.campaign = "nomination" \/ Phase \in crossed'
  BY Committing DEF ReliesNominating
<1>2. Follows(session[c])
  BY <1>1 DEF Follows, Live, Begun
<1>3. OneAsked'
  BY NobodyAsked
<1>4. OneNominated'
  BY <1>1 DEF Inv, OneNominated, OneRow, Live
<1>5. Fresh' /\ OneAnswer' /\ ClosedStays'
  BY <1>1 DEF Inv, Database, Given, Fresh, OneAnswer, ClosedStays
<1>6. EverybodyAsked' /\ InStep' /\ ReleasedByRule'
  BY <1>1 DEF Inv, EverybodyAsked, InStep, ReleasedByRule, Nominating
<1>7. ReportIsWhole'
  <2>1. CASE db.campaign = "nomination"
    <3>1. db.answers = {} /\ \A row \in Rows : db'.request[row] # "submitted"
      BY <2>1 DEF Inv, Fresh
    <3> QED BY <3>1, <2>1 DEF ReportIsWhole
  <2>2. CASE db.campaign # "nomination"
    <3>1. \A row \in Rows : db'.request[row] = db.request[row] \/ <<"withdrawn", row>> \in crossed'
      BY <2>2, ZenonT(30)
    <3> QED BY <3>1, <1>1 DEF Inv, ReportIsWhole
  <2> QED BY <2>1, <2>2
<1>8. IsFiniteSet(db'.answers) /\ db'.report \subseteq db'.answers
  BY DEF Inv, Types
<1> QED BY <1>2, <1>3, <1>4, <1>5, <1>6, <1>7, <1>8, CommitKeeps

LEMMA RemoveCommits == ASSUME Inv, NEW c \in Connections, Commit(c), session[c].op = "remove" PROVE Inv'
<1> DEFINE s == session[c]
<1>1. /\ db \in Database /\ db' = Removed(s.arg) /\ s.unaware \subseteq crossed'
      /\ s \in [op: {"remove", "answer", "decline"}, arg: Rows, unaware: SUBSET Overlaps]
      /\ db.campaign = "nomination" \/ <<"withdrawn", s.arg>> \in s.unaware
  BY Committing DEF Requests, Idle, After, ReliesNominating
<1>2. /\ db' \in Database
      /\ \A row \in Rows : \/ db'.request[row] = db.request[row]
                           \/ row = s.arg /\ db.request[row] # "none" /\ db'.request[row] \in {"none", "rejected"}
      /\ db'.campaign = db.campaign /\ db'.release = db.release /\ db'.debriefed = db.debriefed
      /\ db'.answers = db.answers /\ db'.report = db.report /\ db'.subject = db.subject
  BY <1>1 DEF Removed, With, Database, Existing
<1>3. db.campaign = "nomination" \/ <<"withdrawn", s.arg>> \in crossed'
  BY <1>1
<1> QED BY <1>2, <1>3, WithdrawalKeeps

LEMMA ApproveCommits == ASSUME Inv, NEW c \in Connections, Commit(c), session[c].op = "approve" PROVE Inv'
<1> DEFINE s == session[c]
<1>1. /\ db \in Database /\ db' = ApprovedBut(s.arg) /\ s.unaware \subseteq crossed'
      /\ s \in [op: {"approve", "start"}, arg: SUBSET Rows, unaware: SUBSET Overlaps]
      /\ db.campaign = "nomination" \/ \A row \in s.arg : <<"withdrawn", row>> \in s.unaware
  BY Committing DEF Requests, Idle, After, ReliesNominating
<1>2. /\ db' \in Database
      /\ \A row \in Rows : \/ db'.request[row] = db.request[row]
                           \/ row \in s.arg /\ db.request[row] # "none" /\ db'.request[row] \in {"none", "rejected"}
      /\ db'.campaign = db.campaign /\ db'.release = db.release /\ db'.debriefed = db.debriefed
      /\ db'.answers = db.answers /\ db'.report = db.report /\ db'.subject = "approved"
  <2> DEFINE q == With(s.arg, Existing, "rejected")
  <2>1. q \in [Rows -> {"none"} \cup Existing]
    BY <1>1 DEF With, Database, Existing
  <2>2. \A row \in Rows : \/ q[row] = db.request[row]
                          \/ row \in s.arg /\ db.request[row] # "none" /\ q[row] \in {"none", "rejected"}
    BY DEF With, Existing
  <2>3. db' = [db EXCEPT !.subject = "approved", !.request = q]
    BY <1>1 DEF ApprovedBut
  <2> HIDE DEF q, s
  <2> QED BY <1>1, <2>1, <2>2, <2>3 DEF Database, Subjects
<1>3. \A row \in s.arg : db.campaign = "nomination" \/ <<"withdrawn", row>> \in crossed'
  <2>1. s.unaware \subseteq crossed'
    BY <1>1
  <2>2. db.campaign = "nomination" \/ \A row \in s.arg : <<"withdrawn", row>> \in s.unaware
    BY <1>1
  <2> HIDE DEF s
  <2> QED BY <2>1, <2>2, Zenon
<1> QED BY <1>2, <1>3, WithdrawalKeeps

(* The first start asks the rows nominated, one of each rater; another is a restart. *)
LEMMA StartCommits == ASSUME Inv, NEW c \in Connections, Commit(c), session[c].op = "start" PROVE Inv'
<1> DEFINE s == session[c]
<1>1. /\ s \in [op: {"approve", "start"}, arg: SUBSET Rows, unaware: SUBSET Overlaps]
      /\ db \in Database /\ db' = Started(s.arg) /\ crossed' = crossed \cup s.unaware
      /\ db.campaign = "nomination" \/ Restart \in s.unaware
      /\ \A row \in Rows :
           db.request[row] = "proposed" => row \in s.arg \/ <<"unasked", Rater(row)>> \in s.unaware
      /\ OneRow(s.arg)
      /\ db.campaign # "draft" /\ rules' = rules
  BY Committing DEF Requests, Idle, After, ReliesNominating
<1>2. /\ db' \in Database
      /\ \A row \in Rows : \/ db'.request[row] = db.request[row] /\ (row \notin s.arg \/ db.request[row] = "none")
                           \/ row \in s.arg /\ db.request[row] # "none" /\ db'.request[row] = "pending"
      /\ db'.campaign = "collection" /\ db'.subject = "collecting" /\ db'.release = db.release
      /\ db'.answers = db.answers /\ db'.report = db.report /\ db'.debriefed = db.debriefed
  <2> DEFINE q == With(s.arg, Existing, "pending")
  <2>1. q \in [Rows -> {"none"} \cup Existing]
    BY <1>1 DEF With, Database, Existing
  <2>2. \A row \in Rows : \/ q[row] = db.request[row] /\ (row \notin s.arg \/ db.request[row] = "none")
                          \/ row \in s.arg /\ db.request[row] # "none" /\ q[row] = "pending"
    BY <1>1 DEF With, Database, Existing
  <2>3. db' = [db EXCEPT !.campaign = "collection", !.subject = "collecting", !.request = q]
    BY <1>1 DEF Started
  <2> HIDE DEF q, s
  <2> QED BY <1>1, <2>1, <2>2, <2>3 DEF Database, Campaigns, Subjects
<1>3. Follows(s)
  BY <1>1, <1>2 DEF Follows, Begun, Live
<1>4. Restart \notin crossed' =>
        /\ db.campaign = "nomination" /\ db.answers = {}
        /\ \A row \in Rows : db.request[row] \in {"none", "proposed", "rejected"}
  BY <1>1 DEF Inv, Fresh
<1>5. OneAsked'
  <2> SUFFICES ASSUME Restart \notin crossed' PROVE OneRow(Asked)'
    BY DEF OneAsked
  <2>1. AnsweredRows' = {}
    BY <1>2, <1>4 DEF AnsweredRows
  <2>2. ASSUME NEW d \in Open', session'[d].op = "answer" PROVE FALSE
    <3>1. d \in Open /\ session[d].op = "answer"
      BY <2>2, OthersMiss
    <3>2. Begun
      BY <3>1 DEF Inv, Relies, ReliesCollecting
    <3> QED BY <3>2, <1>4 DEF Begun
  <2>3. \A row \in Rows : db'.request[row] = "pending" => row \in s.arg
    BY <1>2, <1>4
  <2>4. Asked' \subseteq s.arg
    BY <2>1, <2>2, <2>3 DEF Asked
  <2> QED BY <1>1, <2>4 DEF OneRow
<1>6. Fresh' /\ OneNominated' /\ ClosedStays' /\ InStep' /\ ReleasedByRule'
  BY <1>2 DEF Fresh, OneNominated, ClosedStays, InStep, ReleasedByRule
<1>7. OneAnswer'
  BY <1>1, <1>2, <1>4 DEF OneAnswer
<1>8. EverybodyAsked'
  BY <1>1, <1>2 DEF EverybodyAsked
<1>9. ReportIsWhole'
  BY <1>2, <1>4 DEF ReportIsWhole
<1>10. IsFiniteSet(db'.answers) /\ db'.report \subseteq db'.answers
  BY <1>2 DEF Inv, Types
<1> QED BY <1>2, <1>3, <1>5, <1>6, <1>7, <1>8, <1>9, <1>10, CommitKeeps

(***************************************************************************)
(* The operations of the collection.                                       *)
(***************************************************************************)
LEMMA AnswerCommits == ASSUME Inv, NEW c \in Connections, Commit(c), session[c].op = "answer" PROVE Inv'
<1> DEFINE s == session[c]
           n == 1 + Cardinality({a \in db.answers : a[1] = s.arg})
           new == <<s.arg, n>>
<1>1. /\ s \in [op: {"remove", "answer", "decline"}, arg: Rows, unaware: SUBSET Overlaps]
      /\ db \in Database /\ db' = Answered(s.arg) /\ crossed' = crossed \cup s.unaware
      /\ Begun /\ (db.campaign = "closed" => <<"late", s.arg>> \in s.unaware)
      /\ db.request[s.arg] # "none" \/ <<"withdrawn", s.arg>> \in crossed
      /\ s.arg \notin AnsweredRows \/ <<"twice", Rater(s.arg)>> \in s.unaware \/ Restart \in crossed
      /\ db.campaign # "draft" /\ rules' = rules
  BY Committing DEF Requests, Idle, After, ReliesCollecting
<1>2. new \in Rows \X (Nat \ {0}) /\ new[1] = s.arg
  <2>1. IsFiniteSet({a \in db.answers : a[1] = s.arg})
    BY FS_Subset DEF Inv, Types
  <2>2. n \in Nat \ {0}
    BY <2>1, FS_CardinalityType
  <2> HIDE DEF n
  <2> QED BY <1>1, <2>2
<1>3. db' = [db EXCEPT !.answers = @ \cup {new}, !.request = With({s.arg}, Existing, "submitted")]
  BY <1>1 DEF Answered
<1> HIDE DEF new, n
<1>4. /\ db' \in Database
      /\ \A row \in Rows : \/ db'.request[row] = db.request[row] /\ (row # s.arg \/ db.request[row] = "none")
                           \/ row = s.arg /\ db.request[row] # "none" /\ db'.request[row] = "submitted"
      /\ db'.campaign = db.campaign /\ db'.subject = db.subject /\ db'.release = db.release
      /\ db'.answers = db.answers \cup {new} /\ db'.report = db.report /\ db'.debriefed = db.debriefed
  <2> DEFINE q == With({s.arg}, Existing, "submitted")
             given == db.answers \cup {new}
  <2>1. q \in [Rows -> {"none"} \cup Existing]
    BY <1>1 DEF With, Database, Existing
  <2>2. \A row \in Rows : \/ q[row] = db.request[row] /\ (row # s.arg \/ db.request[row] = "none")
                          \/ row = s.arg /\ db.request[row] # "none" /\ q[row] = "submitted"
    BY <1>1 DEF With, Database, Existing
  <2>3. given \in Given
    BY <1>1, <1>2 DEF Database, Given
  <2>4. db' = [db EXCEPT !.answers = given, !.request = q]
    BY <1>3
  <2> HIDE DEF q, given
  <2>5. /\ db' \in Database /\ db'.request = q /\ db'.answers = given
        /\ db'.campaign = db.campaign /\ db'.subject = db.subject /\ db'.release = db.release
        /\ db'.report = db.report /\ db'.debriefed = db.debriefed
    BY <1>1, <2>1, <2>3, <2>4 DEF Database
  <2> QED BY <2>2, <2>5 DEF given
<1>5. Follows(s)
  BY <1>1, <1>2, <1>4 DEF Follows, Live, Begun
<1>6. AnsweredRows' = AnsweredRows \cup {s.arg}
  BY <1>2, <1>4 DEF AnsweredRows
<1>7. OneAsked'
  BY <1>4, <1>6, NobodyAsked
<1>8. Fresh' /\ OneNominated' /\ ClosedStays' /\ InStep' /\ ReleasedByRule'
  BY <1>1, <1>4 DEF Inv, Begun, Fresh, OneNominated, ClosedStays, InStep, ReleasedByRule
<1>9. OneAnswer'
  <2> SUFFICES ASSUME Restart \notin crossed'
               PROVE  /\ \A a \in db'.answers : db'.request[a[1]] # "pending"
                      /\ \A a, b \in db'.answers :
                           a[1] = b[1] => a = b \/ <<"twice", Rater(a[1])>> \in crossed'
    BY DEF OneAnswer
  <2>1. ASSUME NEW a \in db'.answers PROVE db'.request[a[1]] # "pending"
    <3>1. CASE a = new
      BY <3>1, <1>1, <1>2, <1>4
    <3>2. CASE a \in db.answers
      <4>1. a[1] \in Rows /\ db.request[a[1]] # "pending"
        BY <1>1, <3>2 DEF Inv, OneAnswer, Database, Given
      <4> QED BY <4>1, <1>4
    <3> QED BY <3>1, <3>2, <1>4
  <2>2. ASSUME NEW a \in db'.answers, NEW b \in db'.answers, a[1] = b[1], a # b
        PROVE  <<"twice", Rater(a[1])>> \in crossed'
    <3>1. CASE a \in db.answers /\ b \in db.answers
      <4>1. <<"twice", Rater(a[1])>> \in crossed
        BY <3>1, <1>1, <2>2 DEF Inv, OneAnswer
      <4> QED BY <4>1, <1>1
    <3>2. CASE a = new \/ b = new
      <4>1. a[1] = s.arg /\ (a \in db.answers \/ b \in db.answers)
        BY <3>2, <1>2, <1>4, <2>2
      <4>2. s.arg \in AnsweredRows
        BY <4>1, <2>2 DEF AnsweredRows
      <4>3. <<"twice", Rater(s.arg)>> \in s.unaware
        BY <4>2, <1>1
      <4> QED BY <4>1, <4>3, <1>1
    <3> QED BY <3>1, <3>2, <1>4
  <2> QED BY <2>1, <2>2
<1>10. EverybodyAsked'
  BY <1>1, <1>4 DEF Inv, EverybodyAsked
<1>11. ReportIsWhole'
  <2> SUFFICES ASSUME Restart \notin crossed'
               PROVE  /\ \A row \in Rows :
                           \/ row \in AnsweredRows' <=> db'.request[row] = "submitted"
                           \/ <<"refused", row>> \in crossed' \/ <<"withdrawn", row>> \in crossed'
                      /\ db'.campaign = "closed" =>
                           \A a \in db'.answers \ db'.report : <<"late", a[1]>> \in crossed'
    BY DEF ReportIsWhole, AnsweredRows
  <2>0. ReportIsWhole /\ Restart \notin crossed
    BY <1>1 DEF Inv
  <2>1. ASSUME NEW row \in Rows, <<"refused", row>> \notin crossed', <<"withdrawn", row>> \notin crossed'
        PROVE  row \in AnsweredRows' <=> db'.request[row] = "submitted"
    <3>1. row \in AnsweredRows <=> db.request[row] = "submitted"
      BY <2>0, <2>1, <1>1 DEF ReportIsWhole, AnsweredRows
    <3>2. CASE row = s.arg
      BY <3>2, <1>1, <1>4, <1>6, <2>1
    <3>3. CASE row # s.arg
      BY <3>1, <3>3, <1>4, <1>6
    <3> QED BY <3>2, <3>3
  <2>2. ASSUME db'.campaign = "closed", NEW a \in db'.answers, a \notin db'.report
        PROVE  <<"late", a[1]>> \in crossed'
    <3>1. CASE a = new
      BY <3>1, <2>2, <1>1, <1>2, <1>4
    <3>2. CASE a \in db.answers
      BY <3>2, <2>0, <2>2, <1>1, <1>4 DEF ReportIsWhole
    <3> QED BY <3>1, <3>2, <2>2, <1>4
  <2> QED BY <2>1, <2>2
<1>12. IsFiniteSet(db'.answers) /\ db'.report \subseteq db'.answers
  BY <1>4, FS_AddElement DEF Inv, Types
<1> QED BY <1>4, <1>5, <1>7, <1>8, <1>9, <1>10, <1>11, <1>12, CommitKeeps

LEMMA DeclineCommits == ASSUME Inv, NEW c \in Connections, Commit(c), session[c].op = "decline" PROVE Inv'
<1> DEFINE s == session[c]
<1>1. /\ s \in [op: {"remove", "answer", "decline"}, arg: Rows, unaware: SUBSET Overlaps]
      /\ db \in Database /\ db' = Declined(s.arg) /\ crossed' = crossed \cup s.unaware
      /\ Begun /\ (db.request[s.arg] = "submitted" => <<"refused", s.arg>> \in s.unaware)
      /\ db.campaign # "draft" /\ rules' = rules
  BY Committing DEF Requests, Idle, After, ReliesCollecting
<1>2. /\ db' \in Database
      /\ \A row \in Rows : \/ db'.request[row] = db.request[row]
                           \/ row = s.arg /\ db.request[row] # "none" /\ db'.request[row] = "declined"
      /\ db'.campaign = db.campaign /\ db'.subject = db.subject /\ db'.release = db.release
      /\ db'.answers = db.answers /\ db'.report = db.report /\ db'.debriefed = db.debriefed
  BY <1>1 DEF Declined, With, Database, Existing
<1>3. Follows(s)
  BY <1>1, <1>2 DEF Follows, Live, Begun
<1>4. OneAsked'
  BY <1>2, NobodyAsked
<1>5. Fresh' /\ OneNominated' /\ ClosedStays' /\ InStep' /\ ReleasedByRule' /\ EverybodyAsked'
  BY <1>1, <1>2 DEF Inv, Begun, Fresh, OneNominated, ClosedStays, InStep, ReleasedByRule, EverybodyAsked
<1>6. OneAnswer'
  BY <1>1, <1>2 DEF Inv, Database, Given, OneAnswer
<1>7. ReportIsWhole'
  <2>1. ASSUME NEW row \in Rows
        PROVE  \/ db'.request[row] = "submitted" <=> db.request[row] = "submitted"
               \/ <<"refused", row>> \in crossed'
    BY <1>1, <1>2
  <2> QED BY <1>1, <1>2, <2>1 DEF Inv, ReportIsWhole
<1>8. IsFiniteSet(db'.answers) /\ db'.report \subseteq db'.answers
  BY <1>2 DEF Inv, Types
<1> QED BY <1>2, <1>3, <1>4, <1>5, <1>6, <1>7, <1>8, CommitKeeps

LEMMA CloseCommits == ASSUME Inv, NEW c \in Connections, Commit(c), session[c].op = "close" PROVE Inv'
<1> DEFINE s == session[c]
<1>1. /\ s \in [op: {"close"}, arg: [answers: Given, release: Releases], unaware: SUBSET Overlaps]
      /\ db \in Database /\ db' = Closed(s.arg.answers, s.arg.release) /\ crossed' = crossed \cup s.unaware
      /\ Begun /\ s.arg.answers \subseteq db.answers
      /\ \A a \in db.answers \ s.arg.answers : <<"late", a[1]>> \in s.unaware
      /\ s.arg.release = db.release \/ Rule \in s.unaware
      /\ db.campaign # "draft" /\ rules' = rules
  BY Committing DEF Requests, Idle, After, ReliesCollecting
<1>2. /\ db' \in Database
      /\ \A row \in Rows : \/ db'.request[row] = db.request[row] /\ db.request[row] # "pending"
                           \/ db.request[row] = "pending" /\ db'.request[row] = "expired"
      /\ db'.campaign = "closed" /\ db'.release = db.release
      /\ db'.subject = IF s.arg.release = "immediately" THEN "released" ELSE "ready"
      /\ db'.answers = db.answers /\ db'.report = s.arg.answers /\ db'.debriefed = db.debriefed
  <2> DEFINE q == With(Rows, {"pending"}, "expired")
             given == s.arg.answers
             subject == IF s.arg.release = "immediately" THEN "released" ELSE "ready"
  <2>1. q \in [Rows -> {"none"} \cup Existing]
    BY <1>1 DEF With, Database, Existing
  <2>2. \A row \in Rows : \/ q[row] = db.request[row] /\ db.request[row] # "pending"
                          \/ db.request[row] = "pending" /\ q[row] = "expired"
    BY DEF With
  <2>3. db' = [db EXCEPT !.campaign = "closed", !.report = given, !.subject = subject, !.request = q]
    BY <1>1 DEF Closed
  <2>4. given \in Given /\ subject \in Subjects
    BY <1>1 DEF Subjects
  <2> HIDE DEF q, given, subject
  <2>5. /\ db' \in Database /\ db'.request = q /\ db'.campaign = "closed" /\ db'.release = db.release
        /\ db'.subject = subject /\ db'.answers = db.answers /\ db'.report = given
        /\ db'.debriefed = db.debriefed
    BY <1>1, <2>1, <2>3, <2>4 DEF Database, Campaigns
  <2> QED BY <2>2, <2>5 DEF given, subject
<1>3. Follows(s)
  BY <1>1, <1>2 DEF Follows, Live, Begun
<1>4. OneAsked'
  BY <1>2, NobodyAsked
<1>5. Fresh' /\ OneNominated' /\ ClosedStays' /\ InStep'
  BY <1>2 DEF Fresh, OneNominated, ClosedStays, InStep
<1>6. OneAnswer'
  BY <1>1, <1>2 DEF Inv, Database, Given, OneAnswer
<1>7. EverybodyAsked' /\ ReleasedByRule'
  BY <1>1, <1>2 DEF Inv, Begun, EverybodyAsked, ReleasedByRule
<1>8. ReportIsWhole'
  <2>1. \A row \in Rows : db'.request[row] = "submitted" <=> db.request[row] = "submitted"
    BY <1>2
  <2> QED BY <1>1, <1>2, <2>1 DEF Inv, ReportIsWhole
<1>9. IsFiniteSet(db'.answers) /\ db'.report \subseteq db'.answers
  BY <1>1, <1>2 DEF Inv, Types
<1> QED BY <1>2, <1>3, <1>4, <1>5, <1>6, <1>7, <1>8, <1>9, CommitKeeps

(***************************************************************************)
(* Every step keeps the invariant.                                         *)
(***************************************************************************)
LEMMA LaunchKeeps == ASSUME Inv, Launch PROVE Inv'
<1> DEFINE fixed == {<<r, 1>> : r \in Fixed}
           q == With(fixed, {"none"}, "proposed")
<1>1. /\ db.campaign = "draft" /\ db' = [db EXCEPT !.campaign = "nomination", !.subject = "nominating", !.request = q]
      /\ rules' = rules /\ session' = session /\ crossed' = crossed /\ db \in Database
  BY DEF Launch, Inv, Types
<1>2. /\ q \in [Rows -> {"none"} \cup Existing]
      /\ \A row \in Rows : q[row] \in {"none", "proposed"} /\ (q[row] = "proposed" => row \in fixed)
  BY <1>1 DEF With, Existing, Inv, Fresh
<1>3. OneRow(fixed)
  BY DEF OneRow, Rater
<1> HIDE DEF q, fixed
<1>4. /\ db' \in Database /\ db'.request = q /\ db'.answers = {} /\ db.answers = {}
      /\ db'.campaign = "nomination" /\ db'.subject = "nominating" /\ db'.release = db.release
      /\ db'.report = db.report /\ db'.debriefed = db.debriefed
  BY <1>1, <1>2 DEF Database, Campaigns, Subjects, Inv, Fresh
<1>5. \A d \in Open : session[d].op = "change"
  BY <1>1 DEF Inv
<1>6. \A d \in Open' : Relies(d)' /\ (session'[d].op # "change" => db'.campaign # "draft")
  <2>1. Open' = Open
    BY <1>1 DEF Open
  <2> SUFFICES ASSUME NEW d \in Open PROVE Relies(d)'
    BY <1>1, <1>4, <2>1
  <2>2. session'[d].op = "change" /\ db'.campaign # "closed"
    BY <1>1, <1>4, <1>5
  <2> QED BY <2>2 DEF Relies, ReliesNominating, ReliesCollecting, ReliesReleasing, OneRow
<1>7. OneNominated'
  <2>1. {row \in Rows : Live(row)'} \subseteq fixed
    BY <1>2, <1>4 DEF Live
  <2> QED BY <1>1, <1>3, <2>1 DEF OneNominated, OneRow
<1>8. Asked' = {}
  <2>1. \A d \in Open' : session'[d].op # "answer"
    BY <1>1, <1>5 DEF Open
  <2>2. \A row \in Rows : db'.request[row] # "pending"
    BY <1>2, <1>4
  <2> QED BY <1>4, <2>1, <2>2 DEF Asked, AnsweredRows
<1>9. OneAsked'
  BY <1>8 DEF OneAsked, OneRow
<1>10. Fresh' /\ OneAnswer' /\ ClosedStays' /\ EverybodyAsked'
  BY <1>2, <1>4 DEF Fresh, OneAnswer, ClosedStays, EverybodyAsked
<1>11. InStep' /\ ReleasedByRule'
  BY <1>4 DEF InStep, ReleasedByRule, Nominating
<1>12. ReportIsWhole'
  BY <1>2, <1>4 DEF ReportIsWhole
<1>13. Types'
  BY <1>1, <1>4, FS_EmptySet DEF Inv, Types
<1> QED BY <1>6, <1>7, <1>9, <1>10, <1>11, <1>12, <1>13 DEF Inv

LEMMA StepKeeps == Inv /\ [Next]_vars => Inv'
<1> SUFFICES ASSUME Inv, [Next]_vars PROVE Inv'
  OBVIOUS
<1>1. ASSUME NEW c \in Connections, Request(c) PROVE Inv'
  BY <1>1, NominateBegins, RemoveBegins, SubmitBegins, ApproveBegins, StartBegins, AnswerBegins,
     DeclineBegins, CloseBegins, ChangeBegins, ReleaseBegins, DebriefBegins DEF Request
<1>2. ASSUME NEW c \in Connections, Commit(c) PROVE Inv'
  <2>1. session[c].op \in {"nominate", "remove", "submit", "approve", "start", "answer", "decline",
                           "close", "change", "release", "debrief"}
    BY <1>2 DEF Inv, Types, Requests, Commit
  <2> QED BY <1>2, <2>1, NominateCommits, RemoveCommits, SubmitCommits, ApproveCommits, StartCommits,
             AnswerCommits, DeclineCommits, CloseCommits, ChangeCommits, ReleaseCommits, DebriefCommits
<1>3. CASE UNCHANGED vars
  <2>1. rules' = rules /\ db' = db /\ session' = session /\ crossed' = crossed
    BY <1>3 DEF vars
  <2>2. Types' /\ Fresh' /\ OneNominated' /\ OneAsked' /\ OneAnswer' /\ ClosedStays'
    BY <2>1 DEF Inv, Types, Fresh, OneNominated, OneAsked, OneAnswer, ClosedStays, OneRow, Live, Asked,
                AnsweredRows, Open
  <2>3. Open' = Open
    BY <2>1 DEF Open
  <2>4. \A c \in Open' : Relies(c)' /\ (session'[c].op # "change" => db'.campaign # "draft")
    BY <2>1, <2>3 DEF Inv, Relies, ReliesNominating, ReliesCollecting, ReliesReleasing, Begun, AnsweredRows,
                      Live, OneRow
  <2>5. EverybodyAsked' /\ ReportIsWhole' /\ InStep' /\ ReleasedByRule'
    BY <2>1 DEF Inv, EverybodyAsked, ReportIsWhole, InStep, ReleasedByRule
  <2> QED BY <2>2, <2>4, <2>5 DEF Inv
<1> QED BY <1>1, <1>2, <1>3, LaunchKeeps DEF Next

THEOREM InvHolds == Spec => []Inv
BY Initially, StepKeeps, PTL DEF Spec

(***************************************************************************)
(* The properties.                                                         *)
(***************************************************************************)

(* The rows keep their types, and a report is made of answers that were given. *)
THEOREM TypeCorrect == Spec => []TypeOK
<1>1. Inv => TypeOK
  <2> SUFFICES ASSUME Inv PROVE TypeOK
    OBVIOUS
  <2> QED BY DEF Inv, Types, Database, Campaigns, Subjects, Given, TypeOK, Nominating
<1> QED BY <1>1, InvHolds, PTL

(* The requests submitted are those answered, and the report has every answer, but for the
   rows and the overlaps that the property names. *)
THEOREM ReportIsWholeHolds == Spec => []ReportIsWhole
<1>1. Inv => ReportIsWhole
  BY DEF Inv
<1> QED BY <1>1, InvHolds, PTL

(* Nobody nominated is left unasked, but who was nominated while the collection started. *)
THEOREM EverybodyAskedHolds == Spec => []EverybodyAsked
<1>1. Inv => EverybodyAsked
  BY DEF Inv
<1> QED BY <1>1, InvHolds, PTL

(* Subject and campaign go through their phases together, but for those two overlaps. *)
THEOREM InStepHolds == Spec => []InStep
<1>1. Inv => InStep
  BY DEF Inv
<1> QED BY <1>1, InvHolds, PTL

(* The subject reads the report when the rule of release lets him, but for those two
   overlaps. *)
THEOREM ReleasedByRuleHolds == Spec => []ReleasedByRule
<1>1. Inv => ReleasedByRule
  BY DEF Inv
<1> QED BY <1>1, InvHolds, PTL

(* Answers of different raters, one each, are as many as the raters. *)
LEMMA AsManyRaters ==
  ASSUME NEW answers, IsFiniteSet(answers), \A a, b \in answers : Rater(a[1]) = Rater(b[1]) => a = b
  PROVE  Cardinality({Rater(a[1]) : a \in answers}) = Cardinality(answers)
<1> DEFINE raters == {Rater(a[1]) : a \in answers}
           f == [a \in answers |-> Rater(a[1])]
<1>1. f \in Injection(answers, raters)
  BY DEF Injection, IsInjective
<1>2. f \in Surjection(answers, raters)
  BY DEF Surjection
<1>3. f \in Bijection(answers, raters)
  BY <1>1, <1>2 DEF Bijection
<1> QED BY <1>3, FS_Bijection DEF ExistsBijection

(* A category shown by itself, or those the report merges, have answers of as many people as
   the threshold, and the averages are theirs but for who left the competency unrated, unless
   two nominations of one of these people, or two submissions of one request of his, or two
   starts overlapped. *)
THEOREM StandsForRatersHolds == Spec => []StandsForRaters
<1>1. Inv => StandsForRaters
  <2> SUFFICES ASSUME Inv, Restart \notin crossed, NEW shown \in ShownTogether(db.report),
                      \A r \in People(shown) : <<"twice", r>> \notin crossed
               PROVE  /\ Cardinality(People(shown)) >= rules.threshold
                      /\ \/ Cardinality(People(Averaged(shown))) >= rules.threshold
                         \/ People(shown) \cap Blank # {}
    BY DEF StandsForRaters
  <2>2. shown \subseteq db.answers
    BY DEF ShownTogether, Merged, AnswersOf, Inv, Types
  <2>3. IsFiniteSet(shown)
    BY <2>2, FS_Subset DEF Inv, Types
  <2>4. Cardinality(People(shown)) = Cardinality(shown)
    <3>1. ASSUME NEW a \in shown, NEW b \in shown, Rater(a[1]) = Rater(b[1]) PROVE a = b
      <4>1. Rater(a[1]) \in People(shown)
        BY DEF People
      <4>2. <<"twice", Rater(a[1])>> \notin crossed
        BY <4>1
      <4>3. a[1] = b[1]
        BY <2>2, <3>1, <4>2 DEF Inv, OneAsked, OneRow, Asked, AnsweredRows
      <4> QED BY <2>2, <4>2, <4>3 DEF Inv, OneAnswer
    <3> QED BY <3>1, <2>3, AsManyRaters DEF People
  <2>5. Cardinality(shown) >= rules.threshold
    <3>1. CASE shown = Merged(db.report) /\ Cardinality(shown) >= rules.threshold
      BY <3>1
    <3>2. ASSUME NEW k \in rules.anonymous \ Small(db.report), shown = AnswersOf(db.report, k)
          PROVE  Cardinality(shown) >= rules.threshold
      <4>1. ~(Cardinality(shown) < rules.threshold)
        BY <3>2 DEF Small
      <4>2. Cardinality(shown) \in Nat
        BY <2>3, FS_CardinalityType
      <4>3. rules.threshold \in Nat
        BY RulesAssumption DEF Inv, Types
      <4> QED BY <4>1, <4>2, <4>3
    <3> QED BY <3>1, <3>2 DEF ShownTogether
  <2>6. People(shown) \cap Blank = {} => Averaged(shown) = shown
    BY DEF People, Averaged
  <2> QED BY <2>4, <2>5, <2>6
<1> QED BY <1>1, InvHolds, PTL
=============================================================================
