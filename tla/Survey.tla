------------------------------- MODULE Survey -------------------------------
(***************************************************************************)
(* An engagement survey (surveys.service.ts): drafted, launched to its     *)
(* population, answered once by each invited person, closed by HR or by    *)
(* the daily job of the worker at its date, shared. A request, and the     *)
(* job, is a session under READ COMMITTED: it checks what it reads and     *)
(* writes later, unaware of what others commit in between. An answer keeps *)
(* the segment of its author; who he is is known to this model alone.      *)
(***************************************************************************)
EXTENDS Integers, FiniteSets

CONSTANTS People,      \* those who can be in the population
          Home,        \* the segment each is in: unit, manager or seniority
          Blank,       \* those who leave the one optional question blank
          Thresholds,  \* the anonymity thresholds HR may choose
          Connections, \* the transactions of the API that may be open together
          Worker       \* the worker's

VARIABLES db,      \* the committed rows of the survey
          session, \* the open transaction of each connection
          told,    \* history: the threshold of the last launch, 0 where it was not anonymous
          twice,   \* history: the people who sent two overlapping submissions
          crossed  \* history: pairs of operations, the first committed unaware of the second

vars == <<db, session, told, twice, crossed>>

Sessions == Connections \cup {Worker}
Operations == {"update", "launch", "respond", "close", "extend", "share", "sweep"}
Statuses == {"draft", "open", "closed", "shared"}
Dates == {"none", "future", "past"}

ASSUME PeopleAssumption == IsFiniteSet(People)
ASSUME HomeAssumption == DOMAIN Home = People
ASSUME BlankAssumption == Blank \subseteq People
ASSUME ThresholdsAssumption == Thresholds \subseteq Nat \ {0}
ASSUME WorkerAssumption == Worker \notin Connections

Rank(status) ==
  CASE status = "draft" -> 0 [] status = "open" -> 1 [] status = "closed" -> 2 [] status = "shared" -> 3

(***************************************************************************)
(* Results: a page over the answers of everybody or of one team, with the  *)
(* scores of each question, and the heatmap of the segments. The threshold *)
(* is compared with the answers of a page, whoever left a question blank,  *)
(* and the summary of a survey already shared is compared with none.       *)
(***************************************************************************)
Authors(answers) == {a[1] : a \in answers}
AnswersOf(segment) == {a \in db.answers : Home[a[1]] = segment}
Segments == {Home[p] : p \in Authors(db.answers)}
Pages == {db.answers} \cup {AnswersOf(s) : s \in Segments}

(* Mutant: as many answers as the threshold are not enough to be hidden, one less is. *)
ShownLax(answers) == Cardinality(answers) >= db.threshold - 1

Shown(answers) == Cardinality(answers) >= db.threshold

Displayed ==
  {page \in Pages : Shown(page)} \cup (IF db.status = "shared" THEN {db.answers} ELSE {})
Scores(page) == {a \in page : a[1] \notin Blank}

(* Mutant: a segment under the threshold is hidden alone. *)
HeatmapsPlain(segments) == {{s \in segments : ~Shown(AnswersOf(s))}}

(* The segments the heatmap hides: where one alone is under the threshold, the smallest
   of the others too, the first met of those that tie. *)
Smallest(segments) ==
  {s \in segments : \A t \in segments : Cardinality(AnswersOf(s)) <= Cardinality(AnswersOf(t))}
Heatmaps(segments) ==
  LET few == {s \in segments : ~Shown(AnswersOf(s))}
  IN IF Cardinality(few) = 1 /\ segments # few
     THEN {few \cup {s} : s \in Smallest(segments \ few)}
     ELSE {few}

(***************************************************************************)
(* Sessions.                                                               *)
(***************************************************************************)
Idle == [op |-> "none"]
Open == {c \in Sessions : session[c] # Idle}

Begin(c, op, arg) ==
  /\ session[c] = Idle
  /\ session' = [session EXCEPT ![c] = [op |-> op, arg |-> arg, unaware |-> {}]]
  /\ UNCHANGED <<db, told, twice, crossed>>

(* Mutant: anonymity changes at any time. *)
FrozenNever(field) == FALSE

Frozen(field) == field = "anonymous" /\ db.status # "draft"

BeginUpdate(c) ==
  \E field \in {"anonymous", "threshold", "closes"} :
    /\ ~Frozen(field)
    /\ \E to \in CASE field = "anonymous" -> BOOLEAN
                   [] field = "threshold" -> Thresholds
                   [] field = "closes" -> Dates :
         /\ db[field] # to
         /\ Begin(c, "update", [field |-> field, to |-> to])

(* Mutant: a survey already launched is launched again. *)
LaunchableAgain == db.status # "shared"

Launchable == db.status = "draft"

(* The population is resolved on the people of the day. *)
BeginLaunch(c) ==
  /\ Launchable
  /\ \E population \in (SUBSET People) \ {{}} :
       /\ db.anonymous => Cardinality(population) >= db.threshold
       /\ Begin(c, "launch", [to |-> population, promise |-> IF db.anonymous THEN db.threshold ELSE 0])

(* Mutant: the flag of the invitation is not looked at. *)
MayRespondTwice(p) == db.status = "open" /\ db.closes # "past" /\ p \in db.invited

MayRespond(p) == db.status = "open" /\ db.closes # "past" /\ p \in db.invited \ db.responded

BeginRespond(c) == \E p \in People : MayRespond(p) /\ Begin(c, "respond", p)

BeginClose(c) == db.status = "open" /\ Begin(c, "close", "closed")
BeginExtend(c) == db.status = "open" /\ Begin(c, "extend", "future")
BeginShare(c) == db.status \in {"closed", "shared"} /\ Begin(c, "share", "shared")
BeginSweep == db.status = "open" /\ db.closes = "past" /\ Begin(Worker, "sweep", "closed")

(* What a session may miss: another submission of its invitation, a launch, a change made
   during it, results shared while it closes. *)
Missed ==
  [update |-> {"launch"}, launch |-> {"update", "launch"}, respond |-> {"respond"},
   close |-> {"share"}, sweep |-> {"share"}, extend |-> {}, share |-> {}]
Misses(s, other) == other.op \in Missed[s.op] /\ (s.op = "respond" => other.arg = s.arg)

(* What each operation writes. *)
Updated(arg) == [db EXCEPT ![arg.field] = arg.to]
Launched(population) == [db EXCEPT !.status = "open", !.closes = "future", !.invited = @ \cup population]
Responded(p) ==
  [db EXCEPT !.responded = @ \cup {p},
             !.answers = @ \cup {<<p, 1 + Cardinality({a \in @ : a[1] = p})>>}]
Extended(date) == [db EXCEPT !.closes = date]
Closed(status) == [db EXCEPT !.status = status]
Swept(status) == [db EXCEPT !.status = status]
Shared(status) == [db EXCEPT !.status = status]

After(s) ==
  CASE s.op = "update"  -> Updated(s.arg)
    [] s.op = "launch"  -> Launched(s.arg.to)
    [] s.op = "respond" -> Responded(s.arg)
    [] s.op = "extend"  -> Extended(s.arg)
    [] s.op = "close"   -> Closed(s.arg)
    [] s.op = "sweep"   -> Swept(s.arg)
    [] s.op = "share"   -> Shared(s.arg)

Commit(c) ==
  LET s == session[c]
  IN /\ s # Idle
     /\ db' = After(s)
     /\ session' = [d \in Sessions |->
          IF d = c THEN Idle
          ELSE IF d \notin Open THEN Idle
          ELSE IF Misses(session[d], s) THEN [session[d] EXCEPT !.unaware = @ \cup {s.op}] ELSE session[d]]
     /\ told' = IF s.op = "launch" THEN s.arg.promise ELSE told
     /\ twice' = IF s.op = "respond" /\ "respond" \in s.unaware THEN twice \cup {s.arg} ELSE twice
     /\ crossed' = crossed \cup {<<s.op, op>> : op \in s.unaware}

(* The date comes. *)
Tick ==
  /\ db.closes = "future"
  /\ db' = [db EXCEPT !.closes = "past"]
  /\ UNCHANGED <<session, told, twice, crossed>>

Init ==
  /\ \E anonymous \in BOOLEAN, threshold \in Thresholds :
       db = [status |-> "draft", anonymous |-> anonymous, threshold |-> threshold, closes |-> "none",
             invited |-> {}, responded |-> {}, answers |-> {}]
  /\ session = [c \in Sessions |-> Idle]
  /\ told = 0
  /\ twice = {}
  /\ crossed = {}

Request(c) ==
  \/ BeginUpdate(c) \/ BeginLaunch(c) \/ BeginRespond(c)
  \/ BeginClose(c) \/ BeginExtend(c) \/ BeginShare(c)

Next ==
  \/ \E c \in Connections : Request(c)
  \/ BeginSweep
  \/ \E c \in Sessions : Commit(c)
  \/ Tick

Spec == Init /\ [][Next]_vars

(***************************************************************************)
(* Properties.                                                             *)
(***************************************************************************)

\* Rows, answers and requests have their types.
TypeOK ==
  /\ db.status \in Statuses /\ db.closes \in Dates
  /\ db.anonymous \in BOOLEAN /\ db.threshold \in Thresholds
  /\ db.responded \subseteq db.invited /\ db.invited \subseteq People
  /\ db.answers \subseteq People \X (Nat \ {0})
  /\ told \in Thresholds \cup {0} /\ twice \subseteq db.responded
  /\ \A c \in Open : session[c].op \in Operations /\ session[c].unaware \subseteq Missed[session[c].op]
  /\ crossed \subseteq Operations \X Operations

(* Everybody who has responded has answered, and a page of results displayed stands for as
   many people as the threshold, with two exceptions in the code: a page with the answers
   of somebody who sent two overlapping submissions, as respond reads his invitation before
   it flags it, and the summary of a survey already shared, which is displayed whatever its
   answers (engagement-survey.md:114 says that under the threshold there is no result). The
   scores of a question come from fewer only where some of those people left it blank. *)
StandsForPeople ==
  /\ Authors(db.answers) = db.responded
  /\ \A page \in Displayed :
       \/ /\ Cardinality(Authors(page)) >= db.threshold
          /\ Cardinality(Authors(Scores(page))) >= db.threshold \/ Authors(page) \cap Blank # {}
       \/ Authors(page) \cap twice # {}
       \/ db.status = "shared" /\ page = db.answers

(* Where the page of everybody is shown, the segments that the heatmap shows leave no
   segment alone to be found by subtraction. *)
NoneByDifference ==
  Shown(db.answers) => \A hidden \in Heatmaps(Segments) : Cardinality(hidden) # 1

(* The survey is as anonymous as its invitations said, and was sent to enough people for
   that, unless HR changed it while it was being launched. *)
AsTold ==
  db.status # "draft" /\ crossed \cap {<<"update", "launch">>, <<"launch", "update">>} = {} =>
    (db.anonymous <=> told > 0) /\ Cardinality(db.invited) >= told

(* A survey never goes back to an earlier status, unless a launch is committed unaware of
   another or a closure, the worker's too, unaware that the results have been shared. *)
Unaware(c) ==
  \/ session[c].op = "launch" /\ "launch" \in session[c].unaware
  \/ session[c].op \in {"close", "sweep"} /\ "share" \in session[c].unaware

NeverBack ==
  [][Rank(db'.status) >= Rank(db.status) \/ \E c \in Open : Unaware(c) /\ session'[c] = Idle]_vars
=============================================================================
