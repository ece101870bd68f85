--------------------------- MODULE JourneyProofs ---------------------------
(***************************************************************************)
(* Proofs about Journey, for any tasks, templates, number of connections   *)
(* and bound on reopenings: its types, that journey and workflow instance  *)
(* agree and a completed journey is done as long as no overtaken session   *)
(* commits, and when a completion can be missed at all.                    *)
(***************************************************************************)
EXTENDS Journey, TLAPS

(***************************************************************************)
(* The inductive invariant: types of rows and sessions, and what the       *)
(* session of each operation is about;                                     *)
(***************************************************************************)
Database ==
  [journey: {"active", "completed", "cancelled"}, inst: {"none", "running", "completed", "cancelled"},
   answered: SUBSET Tasks, task: [Tasks -> {"none", "open"} \cup Closed],
   run: [Tasks -> {"none", "active"} \cup Closed]]

Requests ==
  [op: {"update", "survey", "submit", "add", "daily"}, tasks: SUBSET Tasks,
   to: {"none", "open"} \cup Closed, step: {"begun", "marked", "read"}, closes: SUBSET Tasks,
   sync: {"none", "reopen", "wait", "end"}, finish: BOOLEAN]

Shaped(s) ==
  /\ s.op # "daily" => s.tasks = {TheTask(s)} /\ TheTask(s) \in Tasks
  /\ s.op = "update" => s.to # "none"
  /\ s.op = "survey" => TheTask(s) \in Of("survey") \cap plan.tasks /\ s.to \in {"none", "done"}
  /\ s.op = "submit" => TheTask(s) \in Of("form") \cap Staged /\ s.to = "done"
  /\ s.op = "add" => TheTask(s) \notin plan.tasks /\ s.step = "begun"
  /\ s.op = "daily" => s.tasks \subseteq Of("objective") /\ s.to = "done"
  /\ s.closes \subseteq s.tasks /\ (s.to = "none" => s.closes = {})
  /\ s.sync # "none" => s.op \in {"update", "survey", "submit"} /\ TheTask(s) \in Staged
  /\ s.sync = "reopen" => s.to = "open"
  /\ s.sync \in {"wait", "end"} => s.to \in Closed

RowsFit(st) ==
  /\ st \in Database /\ st.answered \subseteq Of("survey") /\ (~plan.engine => st.inst = "none")
  /\ \A t \in Tasks : (t \in plan.tasks => st.task[t] # "none") /\ (st.run[t] = "none" <=> t \notin Staged)

Types ==
  /\ plan \in Templates
  /\ RowsFit(db)
  /\ session \in [Sessions -> {Idle} \cup Requests]
  /\ \A c \in Open : Shaped(session[c])
  /\ reopens \in 0..MaxReopens
  /\ unread \subseteq late /\ late \subseteq Open
  /\ crossed \in BOOLEAN

(***************************************************************************)
(* what a session knows that no commit has overtaken, since it began or    *)
(* since it read the progress;                                             *)
(***************************************************************************)
SyncRead(s) ==
  IF s.op = "submit" /\ db.inst = "running" THEN IF GroupOver(db, TheTask(s)) THEN "end" ELSE "wait"
  ELSE Marked(s).sync

Knows(s) ==
  /\ s.op \in {"update", "add", "daily"} => db.journey = "active"
  /\ s.op = "survey" => (s.to = "none" <=> db.task[TheTask(s)] # "open")
  /\ s.op = "submit" => db.run[TheTask(s)] = "active"
  /\ s.step # "begun" => s.closes = Marked(s).closes
  /\ s.step = "marked" => s.sync = Marked(s).sync
  /\ s.step = "read" => s.sync = SyncRead(s)

(***************************************************************************)
(* and the rows, while only sessions not overtaken have committed.         *)
(***************************************************************************)
Quiet(st) == st.inst # "running" => \A t \in Tasks : st.run[t] # "active"
Asks(st, ts) == \A t \in Staged \cap ts : st.task[t] = "open" => st.inst = "running" /\ st.run[t] = "active"

Serial ==
  /\ Quiet(db)
  /\ db.journey = "active" => Asks(db, Tasks) /\ closedBy = "nobody"
  /\ db.journey # "active" => closedBy # "nobody" /\ (closedBy # "worker" => db.inst # "running")
  /\ closedBy \in {"progress", "worker"} => JourneyComplete(db.task)

Inv ==
  /\ Types
  /\ \A c \in Open \ late : Knows(session[c])
  /\ \A c \in Open \ unread : session[c].step = "read" => session[c].finish = Finishes(session[c])
  /\ ~crossed => Serial

LEMMA Initially == Init => Inv
<1> SUFFICES ASSUME Init PROVE Inv
  OBVIOUS
<1>1. Open = {} /\ late = {} /\ unread = {}
  BY DEF Init, Open
<1>0. plan.tasks \subseteq Tasks /\ plan \in Templates
  BY TemplatesAssumption DEF Init
<1>2. RowsFit(db)
  BY <1>0 DEF Init, RowsFit, Database, Closed, Staged
<1>3. Types
  <2>1. session \in [Sessions -> {Idle} \cup Requests]
    BY DEF Init
  <2>2. reopens \in 0..MaxReopens
    BY BoundAssumption DEF Init
  <2> QED BY <1>0, <1>1, <1>2, <2>1, <2>2 DEF Init, Types
<1>4. Serial
  BY <1>0 DEF Init, Serial, Quiet, Asks, Staged
<1> QED BY <1>1, <1>3, <1>4 DEF Inv

(* The task of a session about one task. *)
LEMMA OneTask == ASSUME NEW s, NEW t, s.tasks = {t} PROVE TheTask(s) = t
BY DEF TheTask

(***************************************************************************)
(* A request, or the daily job, begins.                                    *)
(***************************************************************************)
LEMMA BeginKeeps ==
  ASSUME Inv, NEW c \in Sessions, NEW op, NEW ts, NEW to, Begin(c, Session(op, ts, to)),
         Session(op, ts, to) \in Requests, Shaped(Session(op, ts, to)), Knows(Session(op, ts, to)),
         op = "update" /\ to = "open" => reopens < MaxReopens
  PROVE  Inv'
<1> DEFINE s == Session(op, ts, to)
<1>1. /\ session' = [session EXCEPT ![c] = s] /\ session[c] = Idle /\ s \in Requests /\ s # Idle
      /\ plan' = plan /\ db' = db /\ late' = late /\ unread' = unread /\ crossed' = crossed
      /\ closedBy' = closedBy /\ s.step = "begun" /\ Shaped(s) /\ Knows(s) /\ s.op = op /\ s.to = to
      /\ reopens' = IF s.op = "update" /\ s.to = "open" THEN reopens + 1 ELSE reopens
  BY DEF Begin, Session, Requests, Idle
<1> HIDE DEF s
<1>2. session' \in [Sessions -> {Idle} \cup Requests] /\ session'[c] = s
  BY <1>1 DEF Inv, Types
<1>3. Open' = Open \cup {c} /\ c \notin Open
  BY <1>1, <1>2 DEF Open
<1>4. \A d \in Open : session'[d] = session[d]
  BY <1>1, <1>3 DEF Inv, Types, Open
<1>5. reopens' \in 0..MaxReopens
  BY <1>1, BoundAssumption DEF Inv, Types
<1>6. Types'
  <2>1. \A d \in Open' : Shaped(session[d])'
    <3> SUFFICES ASSUME NEW d \in Open' PROVE Shaped(session[d])'
      OBVIOUS
    <3>1. CASE d = c
      BY <3>1, <1>1, <1>2 DEF Shaped, Of, Staged
    <3>2. CASE d # c
      BY <3>2, <1>1, <1>3, <1>4 DEF Inv, Types, Shaped, Of, Staged
    <3> QED BY <3>1, <3>2
  <2>2. RowsFit(db)'
    BY <1>1 DEF Inv, Types, RowsFit, Staged, Of
  <2> QED BY <1>1, <1>2, <1>3, <1>5, <2>1, <2>2 DEF Inv, Types
<1>7. \A d \in Open' \ late' : Knows(session[d])'
  <2> SUFFICES ASSUME NEW d \in Open' \ late' PROVE Knows(session[d])'
    OBVIOUS
  <2>1. CASE d = c
    BY <2>1, <1>1, <1>2 DEF Knows
  <2>2. CASE d # c
    <3>1. Knows(session[d]) /\ session'[d] = session[d]
      BY <2>2, <1>1, <1>3, <1>4 DEF Inv
    <3> QED BY <3>1, <1>1 DEF Knows, Marked, SyncRead, SyncOf, GroupOver, Staged
  <2> QED BY <2>1, <2>2
<1>8. \A d \in Open' \ unread' : session'[d].step = "read" => session'[d].finish = Finishes(session[d])'
  <2> SUFFICES ASSUME NEW d \in Open' \ unread', session'[d].step = "read"
               PROVE  session'[d].finish = Finishes(session[d])'
    OBVIOUS
  <2>1. d # c
    BY <1>1, <1>2
  <2>2. session'[d] = session[d] /\ session[d].finish = Finishes(session[d])
    BY <2>1, <1>1, <1>3, <1>4 DEF Inv
  <2> QED BY <2>2, <1>1 DEF Finishes, JourneyComplete, TasksOf
<1>9. ~crossed' => Serial'
  BY <1>1 DEF Inv, Serial, Quiet, Asks, Staged, JourneyComplete
<1> QED BY <1>6, <1>7, <1>8, <1>9 DEF Inv

LEMMA UpdateBegins == ASSUME Inv, NEW c \in Sessions, BeginUpdate(c) PROVE Inv'
<1>1. PICK t \in Tasks, to \in {"open"} \cup Closed :
        (to = "open" => reopens < MaxReopens) /\ Begin(c, Session("update", {t}, to))
  BY DEF BeginUpdate, Reopening
<1> DEFINE s == Session("update", {t}, to)
<1>2. /\ s \in Requests /\ TheTask(s) = t
      /\ s.op = "update" /\ s.tasks = {t} /\ s.to = to /\ s.step = "begun" /\ s.closes = {} /\ s.sync = "none"
  <2>1. /\ s \in Requests
        /\ s.op = "update" /\ s.tasks = {t} /\ s.to = to /\ s.step = "begun" /\ s.closes = {} /\ s.sync = "none"
    BY DEF Session, Requests, Closed
  <2> HIDE DEF s
  <2>2. TheTask(s) = t
    BY <2>1, OneTask
  <2> QED BY <2>1, <2>2
<1> HIDE DEF s
<1>3. Shaped(s) /\ Knows(s)
  BY <1>2 DEF Shaped, Knows, Closed, BeginUpdate
<1> QED BY <1>1, <1>2, <1>3, BeginKeeps DEF s

LEMMA SurveyBegins == ASSUME Inv, NEW c \in Sessions, BeginSurvey(c) PROVE Inv'
<1>1. PICK t \in Of("survey") \cap plan.tasks :
        Begin(c, Session("survey", {t}, IF db.task[t] = "open" THEN "done" ELSE "none"))
  BY DEF BeginSurvey
<1> DEFINE to == IF db.task[t] = "open" THEN "done" ELSE "none"
           s == Session("survey", {t}, to)
<1>0. to \in {"none", "done"} /\ (to = "none" <=> db.task[t] # "open") /\ t \in Tasks
  BY DEF Of
<1> HIDE DEF to
<1>2. /\ s \in Requests /\ TheTask(s) = t
      /\ s.op = "survey" /\ s.tasks = {t} /\ s.to = to /\ s.step = "begun" /\ s.closes = {} /\ s.sync = "none"
  <2>1. /\ s \in Requests
        /\ s.op = "survey" /\ s.tasks = {t} /\ s.to = to /\ s.step = "begun" /\ s.closes = {} /\ s.sync = "none"
    BY <1>0 DEF Session, Requests, Closed
  <2> HIDE DEF s
  <2>2. TheTask(s) = t
    BY <2>1, OneTask
  <2> QED BY <2>1, <2>2
<1> HIDE DEF s
<1>3. Shaped(s) /\ Knows(s)
  BY <1>0, <1>1, <1>2 DEF Shaped, Knows
<1>4. Begin(c, Session("survey", {t}, to))
  BY <1>1 DEF to
<1> QED BY <1>2, <1>3, <1>4, BeginKeeps DEF s

LEMMA SubmitBegins == ASSUME Inv, NEW c \in Sessions, BeginSubmit(c) PROVE Inv'
<1>1. PICK t \in Of("form") \cap Staged : db.run[t] = "active" /\ Begin(c, Session("submit", {t}, "done"))
  BY DEF BeginSubmit
<1> DEFINE s == Session("submit", {t}, "done")
<1>2. /\ s \in Requests /\ TheTask(s) = t /\ t \in Tasks
      /\ s.op = "submit" /\ s.tasks = {t} /\ s.to = "done" /\ s.step = "begun" /\ s.closes = {} /\ s.sync = "none"
  <2>1. /\ s \in Requests /\ t \in Tasks
        /\ s.op = "submit" /\ s.tasks = {t} /\ s.to = "done" /\ s.step = "begun" /\ s.closes = {} /\ s.sync = "none"
    BY DEF Session, Requests, Closed, Of
  <2> HIDE DEF s
  <2>2. TheTask(s) = t
    BY <2>1, OneTask
  <2> QED BY <2>1, <2>2
<1> HIDE DEF s
<1>3. Shaped(s) /\ Knows(s)
  BY <1>1, <1>2 DEF Shaped, Knows
<1> QED BY <1>1, <1>2, <1>3, BeginKeeps DEF s

LEMMA AddBegins == ASSUME Inv, NEW c \in Sessions, BeginAdd(c) PROVE Inv'
<1>1. PICK t \in Tasks \ plan.tasks : Begin(c, Session("add", {t}, "open"))
  BY DEF BeginAdd
<1> DEFINE s == Session("add", {t}, "open")
<1>2. /\ s \in Requests /\ TheTask(s) = t
      /\ s.op = "add" /\ s.tasks = {t} /\ s.to = "open" /\ s.step = "begun" /\ s.closes = {} /\ s.sync = "none"
  <2>1. /\ s \in Requests
        /\ s.op = "add" /\ s.tasks = {t} /\ s.to = "open" /\ s.step = "begun" /\ s.closes = {} /\ s.sync = "none"
    BY DEF Session, Requests, Closed
  <2> HIDE DEF s
  <2>2. TheTask(s) = t
    BY <2>1, OneTask
  <2> QED BY <2>1, <2>2
<1> HIDE DEF s
<1>3. Shaped(s) /\ Knows(s)
  BY <1>1, <1>2 DEF Shaped, Knows, BeginAdd
<1> QED BY <1>1, <1>2, <1>3, BeginKeeps DEF s

LEMMA DailyBegins == ASSUME Inv, BeginDaily PROVE Inv'
<1>1. PICK ts \in {{}, {t \in Of("objective") : db.task[t] = "open"}} : Begin(Worker, Session("daily", ts, "done"))
  BY DEF BeginDaily
<1> DEFINE s == Session("daily", ts, "done")
<1>0. ts \subseteq Of("objective") /\ ts \subseteq Tasks
  BY DEF Of
<1>2. /\ s \in Requests
      /\ s.op = "daily" /\ s.tasks = ts /\ s.to = "done" /\ s.step = "begun" /\ s.closes = {} /\ s.sync = "none"
  BY <1>0 DEF Session, Requests, Closed
<1> HIDE DEF s
<1>3. Shaped(s) /\ Knows(s)
  BY <1>0, <1>2 DEF Shaped, Knows, BeginDaily
<1> QED BY <1>1, <1>2, <1>3, BeginKeeps DEF s, Sessions

(***************************************************************************)
(* A session goes on: it updates its task, it reads the progress.          *)
(***************************************************************************)
LEMMA SyncType ==
  ASSUME NEW st, NEW t, NEW to \in {"none", "open"} \cup Closed
  PROVE  /\ SyncOf(st, t, to) \in {"none", "reopen", "wait", "end"}
         /\ SyncOf(st, t, to) # "none" => t \in Staged
         /\ SyncOf(st, t, to) = "reopen" => to = "open"
         /\ SyncOf(st, t, to) \in {"wait", "end"} => to \in Closed
BY DEF SyncOf, Closed

(* What a step of one session changes of it, and nothing else. *)
LEMMA StepKeepsOthers ==
  ASSUME Inv, NEW c \in Open, NEW s \in Requests, session' = [session EXCEPT ![c] = s],
         plan' = plan, db' = db, reopens' = reopens, crossed' = crossed, closedBy' = closedBy, late' = late,
         unread' \in {unread, unread \ {c}},
         s.op = session[c].op, s.tasks = session[c].tasks, s.to = session[c].to,
         Shaped(s), c \notin late => Knows(s), s.step = "read" => s.finish = Finishes(s)
  PROVE  Inv'
<1>1. /\ session' \in [Sessions -> {Idle} \cup Requests] /\ session'[c] = s /\ s # Idle
      /\ \A d \in Sessions \ {c} : session'[d] = session[d]
  BY DEF Inv, Types, Open, Requests, Idle
<1>2. Open' = Open
  BY <1>1 DEF Open
<1>3. Types'
  <2>1. \A d \in Open' : Shaped(session[d])'
    BY <1>1, <1>2 DEF Inv, Types, Shaped, Of, Staged, Open
  <2>2. RowsFit(db)'
    BY DEF Inv, Types, RowsFit, Staged, Of
  <2> QED BY <1>1, <1>2, <2>1, <2>2 DEF Inv, Types
<1>4. \A d \in Open' \ late' : Knows(session[d])'
  <2> SUFFICES ASSUME NEW d \in Open \ late PROVE Knows(session[d])'
    BY <1>2
  <2>1. Knows(session'[d])
    BY <1>1 DEF Inv, Open
  <2> QED BY <2>1 DEF Knows, Marked, SyncRead, SyncOf, GroupOver, Staged
<1>5. \A d \in Open' \ unread' : session'[d].step = "read" => session'[d].finish = Finishes(session[d])'
  <2> SUFFICES ASSUME NEW d \in Open \ unread', session'[d].step = "read"
               PROVE  session'[d].finish = Finishes(session[d])'
    BY <1>2
  <2>1. session'[d].finish = Finishes(session'[d])
    BY <1>1 DEF Inv, Open
  <2>2. TasksOf(session[d])' = TasksOf(session'[d])
    BY DEF TasksOf
  <2>3. Finishes(session[d])' <=> Finishes(session'[d])
    BY <2>2 DEF Finishes, JourneyComplete
  <2>4. Finishes(session[d])' \in BOOLEAN /\ Finishes(session'[d]) \in BOOLEAN
    BY DEF Finishes
  <2> QED BY <2>1, <2>3, <2>4, Zenon
<1>6. ~crossed' => Serial'
  BY DEF Inv, Serial, Quiet, Asks, Staged, JourneyComplete
<1> QED BY <1>3, <1>4, <1>5, <1>6 DEF Inv

(* What the update of its task decides depends on what the session is about alone. *)
LEMMA MarkedFields ==
  ASSUME NEW s \in Requests, Shaped(s), s.op # "add"
  PROVE  /\ Marked(s) \in Requests /\ Shaped(Marked(s))
         /\ Marked(s).op = s.op /\ Marked(s).tasks = s.tasks /\ Marked(s).to = s.to
         /\ Marked(s).step = "marked" /\ Marked(s).finish = s.finish
         /\ s.op = "submit" => /\ Marked(s).closes = {t \in s.tasks : db.inst = "running" /\ db.task[t] = "open"}
                               /\ Marked(s).sync = IF db.inst = "running" THEN "wait" ELSE "none"
         /\ s.op = "survey" /\ s.to = "none" => Marked(s).closes = {}
         /\ s.op = "update" \/ (s.op = "survey" /\ s.to # "none") => Marked(s).closes = s.tasks
         /\ s.op \in {"update", "survey"} => Marked(s).sync = SyncOf(db, TheTask(s), s.to)
         /\ s.op = "daily" => Marked(s).closes = s.tasks /\ Marked(s).sync = "none"
<1> DEFINE closes == CASE s.op = "submit" -> {t \in s.tasks : db.inst = "running" /\ db.task[t] = "open"}
                       [] s.op = "survey" /\ s.to = "none" -> {}
                       [] OTHER -> s.tasks
           sync == CASE s.op = "daily" -> "none"
                     [] s.op = "submit" -> IF db.inst = "running" THEN "wait" ELSE "none"
                     [] OTHER -> SyncOf(db, TheTask(s), s.to)
<1>1. /\ closes \subseteq s.tasks
      /\ s.op = "submit" => closes = {t \in s.tasks : db.inst = "running" /\ db.task[t] = "open"}
      /\ s.op = "survey" /\ s.to = "none" => closes = {}
      /\ s.op = "update" \/ (s.op = "survey" /\ s.to # "none") => closes = s.tasks
      /\ s.op = "daily" => closes = s.tasks
  OBVIOUS
<1>2. /\ s.op = "daily" => sync = "none"
      /\ s.op = "submit" => sync = IF db.inst = "running" THEN "wait" ELSE "none"
      /\ s.op \in {"update", "survey"} => sync = SyncOf(db, TheTask(s), s.to)
  OBVIOUS
<1>3. /\ sync \in {"none", "reopen", "wait", "end"}
      /\ sync # "none" => s.op \in {"update", "survey", "submit"} /\ TheTask(s) \in Staged
      /\ sync = "reopen" => s.to = "open"
      /\ sync \in {"wait", "end"} => s.to \in Closed
  BY <1>2, SyncType DEF Requests, Shaped, Closed
<1>4. Marked(s) = [s EXCEPT !.step = "marked", !.closes = closes, !.sync = sync]
  BY DEF Marked
<1> HIDE DEF closes, sync
<1>5. /\ Marked(s) \in Requests
      /\ Marked(s).op = s.op /\ Marked(s).tasks = s.tasks /\ Marked(s).to = s.to
      /\ Marked(s).step = "marked" /\ Marked(s).finish = s.finish
      /\ Marked(s).closes = closes /\ Marked(s).sync = sync
  BY <1>1, <1>3, <1>4 DEF Requests
<1>6. TheTask(Marked(s)) = TheTask(s)
  BY <1>5 DEF TheTask
<1>7. Shaped(Marked(s))
  <2>1. s.op \in {"update", "survey", "submit", "daily"}
    BY DEF Requests
  <2>2. s.to = "none" => closes = {}
    BY <1>1, <2>1 DEF Shaped
  <2> QED BY <1>1, <1>3, <1>5, <1>6, <2>1, <2>2 DEF Shaped
<1> QED BY <1>1, <1>2, <1>5, <1>7

(* It is the same whenever the rows are. *)
LEMMA MarkedSame ==
  ASSUME NEW s \in Requests, NEW m \in Requests, Shaped(s), Shaped(m), s.op # "add",
         m.op = s.op, m.tasks = s.tasks, m.to = s.to
  PROVE  Marked(m).closes = Marked(s).closes /\ Marked(m).sync = Marked(s).sync
<1>1. s.op \in {"update", "survey", "submit", "daily"}
  BY DEF Requests
<1>2. TheTask(m) = TheTask(s)
  BY DEF TheTask
<1>3. CASE s.op \in {"submit", "daily"}
  BY <1>3, MarkedFields
<1>4. CASE s.op \in {"update", "survey"}
  <2>1. Marked(s).sync = SyncOf(db, TheTask(s), s.to) /\ Marked(m).sync = SyncOf(db, TheTask(m), m.to)
    BY <1>4, MarkedFields
  <2>2. Marked(m).sync = Marked(s).sync
    BY <2>1, <1>2
  <2>3. s.op = "update" \/ (s.op = "survey" /\ s.to = "none") \/ (s.op = "survey" /\ s.to # "none")
    BY <1>4
  <2>4. Marked(m).closes = Marked(s).closes
    BY <2>3, MarkedFields
  <2> QED BY <2>2, <2>4
<1> QED BY <1>1, <1>3, <1>4

LEMMA MarkKeeps == ASSUME Inv, NEW c \in Sessions, Mark(c) PROVE Inv'
<1> DEFINE s == session[c]
           m == Marked(s)
<1>1. /\ c \in Open /\ s \in Requests /\ Shaped(s) /\ s.op # "add" /\ s.step = "begun"
      /\ session' = [session EXCEPT ![c] = m]
      /\ plan' = plan /\ db' = db /\ reopens' = reopens /\ crossed' = crossed /\ closedBy' = closedBy
      /\ late' = late /\ unread' = unread
  BY DEF Mark, Inv, Types, Open
<1>2. /\ m \in Requests /\ Shaped(m) /\ m.op = s.op /\ m.tasks = s.tasks /\ m.to = s.to /\ m.step = "marked"
  BY <1>1, MarkedFields
<1>3. TheTask(m) = TheTask(s)
  BY <1>2 DEF TheTask
<1>4. Marked(m).closes = m.closes /\ Marked(m).sync = m.sync
  BY <1>1, <1>2, MarkedSame
<1>5. c \notin late => Knows(m)
  <2> SUFFICES ASSUME c \notin late PROVE Knows(m)
    OBVIOUS
  <2>1. Knows(s)
    BY <1>1 DEF Inv
  <2> HIDE DEF s, m
  <2> QED BY <2>1, <1>2, <1>3, <1>4 DEF Knows
<1> QED BY <1>1, <1>2, <1>5, StepKeepsOthers

LEMMA ReadKeeps == ASSUME Inv, NEW c \in Sessions, ReadProgress(c) PROVE Inv'
<1> DEFINE s == session[c]
           r == [s EXCEPT !.step = "read", !.finish = Finishes(s),
                          !.sync = IF s.op = "submit" /\ @ = "wait" /\ GroupOver(db, TheTask(s)) THEN "end" ELSE @]
<1>1. /\ c \in Open /\ s \in Requests /\ Shaped(s) /\ s.step = "marked"
      /\ session' = [session EXCEPT ![c] = r]
      /\ plan' = plan /\ db' = db /\ reopens' = reopens /\ crossed' = crossed /\ closedBy' = closedBy
      /\ late' = late /\ unread' = unread \ {c}
  BY DEF ReadProgress, Inv, Types, Open
<1>2. s.op # "add" /\ (c \notin late => Knows(s))
  BY <1>1 DEF Shaped, Inv
<1> HIDE DEF s
<1>3. Finishes(s) \in BOOLEAN
  BY DEF Finishes
<1>4. /\ r \in Requests /\ r.op = s.op /\ r.tasks = s.tasks /\ r.to = s.to /\ r.closes = s.closes
      /\ r.step = "read" /\ r.finish = Finishes(s)
      /\ r.sync = IF s.op = "submit" /\ s.sync = "wait" /\ GroupOver(db, TheTask(s)) THEN "end" ELSE s.sync
  BY <1>1, <1>3 DEF Requests
<1> HIDE DEF r
<1>5. TheTask(r) = TheTask(s)
  BY <1>4 DEF TheTask
<1>6. Shaped(r)
  BY <1>1, <1>2, <1>4, <1>5 DEF Shaped
<1>7. r.finish = Finishes(r)
  BY <1>3, <1>4 DEF Finishes, TasksOf
<1>8. ASSUME c \notin late PROVE Knows(r)
  <2>1. Knows(s) /\ Marked(r).closes = Marked(s).closes /\ Marked(r).sync = Marked(s).sync
    BY <1>1, <1>2, <1>4, <1>6, <1>8, MarkedSame
  <2>2. s.sync = Marked(s).sync /\ s.closes = Marked(s).closes
    BY <1>1, <2>1 DEF Knows
  <2>3. s.op = "submit" => s.sync = IF db.inst = "running" THEN "wait" ELSE "none"
    BY <1>1, <1>2, <2>2, MarkedFields
  <2>4. r.sync = SyncRead(r)
    BY <1>4, <1>5, <2>1, <2>2, <2>3 DEF SyncRead
  <2> QED BY <1>1, <1>4, <1>5, <2>1, <2>2, <2>4 DEF Knows
<1> QED BY <1>1, <1>4, <1>6, <1>7, <1>8, StepKeepsOthers DEF s

(***************************************************************************)
(* A session is rolled back.                                               *)
(***************************************************************************)
LEMMA AbortKeeps == ASSUME Inv, NEW c \in Sessions, Abort(c) PROVE Inv'
<1>1. /\ session' = [session EXCEPT ![c] = Idle] /\ late' = late \ {c} /\ unread' = unread \ {c}
      /\ plan' = plan /\ db' = db /\ reopens' = reopens /\ crossed' = crossed /\ closedBy' = closedBy
  BY DEF Abort
<1>2. /\ session' \in [Sessions -> {Idle} \cup Requests]
      /\ Open' = Open \ {c} /\ \A d \in Open' : session'[d] = session[d]
  BY <1>1 DEF Inv, Types, Open
<1>3. Types'
  <2>1. \A d \in Open' : Shaped(session[d])'
    BY <1>1, <1>2 DEF Inv, Types, Shaped, Of, Staged
  <2>2. RowsFit(db)'
    BY <1>1 DEF Inv, Types, RowsFit, Staged, Of
  <2> QED BY <1>1, <1>2, <2>1, <2>2 DEF Inv, Types
<1>4. \A d \in Open' \ late' : Knows(session[d])'
  <2> SUFFICES ASSUME NEW d \in Open' \ late' PROVE Knows(session[d])'
    OBVIOUS
  <2>1. Knows(session[d]) /\ session'[d] = session[d]
    BY <1>1, <1>2 DEF Inv
  <2> QED BY <2>1, <1>1 DEF Knows, Marked, SyncRead, SyncOf, GroupOver, Staged
<1>5. \A d \in Open' \ unread' : session'[d].step = "read" => session'[d].finish = Finishes(session[d])'
  <2> SUFFICES ASSUME NEW d \in Open' \ unread', session'[d].step = "read"
               PROVE  session'[d].finish = Finishes(session[d])'
    OBVIOUS
  <2>1. session'[d] = session[d] /\ session[d].finish = Finishes(session[d])
    BY <1>1, <1>2 DEF Inv
  <2> QED BY <2>1, <1>1 DEF Finishes, JourneyComplete, TasksOf
<1>6. ~crossed' => Serial'
  BY <1>1 DEF Inv, Serial, Quiet, Asks, Staged, JourneyComplete
<1> QED BY <1>3, <1>4, <1>5, <1>6 DEF Inv

(***************************************************************************)
(* What the engine does keeps the rows within their types,                 *)
(***************************************************************************)
LEMMA EndedFits ==
  ASSUME NEW st, RowsFit(st), NEW status \in {"completed", "cancelled"}, plan.engine
  PROVE  /\ RowsFit(Ended(st, status)) /\ Quiet(Ended(st, status))
         /\ Ended(st, status).task = st.task /\ Ended(st, status).journey = st.journey
         /\ Ended(st, status).inst # "running"
<1> DEFINE runs == [t \in Tasks |-> IF st.run[t] = "active" THEN "skipped" ELSE st.run[t]]
           e == Ended(st, status)
<1>1. /\ runs \in [Tasks -> {"none", "active"} \cup Closed]
      /\ \A t \in Tasks : runs[t] # "active" /\ (runs[t] = "none" <=> st.run[t] = "none")
  BY DEF RowsFit, Database, Closed
<1>2. e = [st EXCEPT !.inst = status, !.run = runs]
  BY DEF Ended
<1> HIDE DEF runs, e
<1>3. /\ e \in Database /\ e.inst = status /\ e.run = runs /\ e.task = st.task /\ e.journey = st.journey
      /\ e.answered = st.answered
  BY <1>1, <1>2 DEF RowsFit, Database
<1>4. RowsFit(e)
  BY <1>1, <1>3 DEF RowsFit
<1> QED BY <1>1, <1>3, <1>4 DEF e, Quiet

LEMMA EndedIfRunningFits ==
  ASSUME NEW st, RowsFit(st), Quiet(st), NEW status \in {"completed", "cancelled"}
  PROVE  LET e == EndedIfRunning(st, status)
         IN RowsFit(e) /\ Quiet(e) /\ e.task = st.task /\ e.journey = st.journey /\ e.inst # "running"
BY EndedFits DEF EndedIfRunning, RowsFit

LEMMA ReopenedFits ==
  ASSUME plan \in Templates, NEW st, RowsFit(st), NEW ts \in SUBSET Staged
  PROVE  LET r == Reopened(st, ts)
         IN /\ RowsFit(r) /\ r.task = st.task /\ r.journey = st.journey
            /\ \A t \in ts : r.run[t] = "active"
            /\ \A t \in Tasks : st.run[t] = "active" => r.run[t] = "active"
            /\ r = st \/ r.inst = "running"
<1> DEFINE again == {t \in ts : st.run[t] # "active"}
           runs == [t \in Tasks |-> IF t \in again THEN "active" ELSE st.run[t]]
           r == Reopened(st, ts)
<1>1. CASE again = {}
  BY <1>1 DEF Reopened
<1>2. CASE again # {}
  <2>0. plan.engine /\ ts \subseteq Tasks
    BY <1>2, TemplatesAssumption DEF Staged
  <2>1. /\ runs \in [Tasks -> {"none", "active"} \cup Closed]
        /\ \A t \in Tasks : runs[t] = "none" <=> t \notin Staged
        /\ \A t \in Tasks : (t \in ts \/ st.run[t] = "active") => runs[t] = "active"
    BY DEF RowsFit, Database, Closed
  <2>2. r = [st EXCEPT !.inst = "running", !.run = runs]
    BY <1>2 DEF Reopened
  <2> HIDE DEF runs, r
  <2>3. /\ r \in Database /\ r.inst = "running" /\ r.run = runs /\ r.task = st.task /\ r.journey = st.journey
        /\ r.answered = st.answered
    BY <2>1, <2>2 DEF RowsFit, Database
  <2>4. RowsFit(r)
    BY <2>0, <2>1, <2>3 DEF RowsFit
  <2> QED BY <2>0, <2>1, <2>3, <2>4 DEF r
<1> QED BY <1>1, <1>2

LEMMA ConcludedFits ==
  ASSUME plan \in Templates, NEW st, RowsFit(st), NEW t \in Staged, NEW to \in Closed
  PROVE  LET c == [st EXCEPT !.run[t] = to]
         IN /\ RowsFit(c) /\ c.task = st.task /\ c.journey = st.journey /\ c.inst = st.inst
            /\ c.run[t] = to /\ \A u \in Tasks \ {t} : c.run[u] = st.run[u]
<1> DEFINE c == [st EXCEPT !.run[t] = to]
           runs == [st.run EXCEPT ![t] = to]
<1>1. t \in Tasks
  BY TemplatesAssumption DEF Staged
<1>2. /\ runs \in [Tasks -> {"none", "active"} \cup Closed] /\ runs[t] = to
      /\ \A u \in Tasks : runs[u] = "none" <=> u \notin Staged
      /\ \A u \in Tasks \ {t} : runs[u] = st.run[u]
  BY <1>1 DEF RowsFit, Database, Closed
<1>3. c = [st EXCEPT !.run = runs]
  OBVIOUS
<1> HIDE DEF runs, c
<1>4. /\ c \in Database /\ c.inst = st.inst /\ c.run = runs /\ c.task = st.task /\ c.journey = st.journey
      /\ c.answered = st.answered
  BY <1>2, <1>3 DEF RowsFit, Database
<1>5. RowsFit(c)
  BY <1>2, <1>4 DEF RowsFit
<1> QED BY <1>2, <1>4, <1>5 DEF c

LEMMA SyncedFits ==
  ASSUME plan \in Templates, NEW st, RowsFit(st), NEW t \in Staged, NEW to \in {"open"} \cup Closed,
         NEW sync \in {"reopen", "wait", "end"}, sync \in {"wait", "end"} => to \in Closed
  PROVE  LET y == Synced(st, t, to, sync)
         IN /\ RowsFit(y) /\ y.task = st.task /\ y.journey = st.journey
            /\ sync = "reopen" => /\ y.run[t] = "active" /\ (y = st \/ y.inst = "running")
                                  /\ \A u \in Tasks : st.run[u] = "active" => y.run[u] = "active"
            /\ sync = "wait" => /\ y.inst = st.inst
                                /\ \A u \in Tasks \ {t} : y.run[u] = st.run[u]
            /\ sync = "end" => Quiet(y) /\ y.inst # "running"
<1>0. plan.engine
  BY DEF Staged
<1>1. CASE sync = "reopen"
  BY <1>1, ReopenedFits DEF Synced
<1>2. CASE sync = "wait"
  <2> DEFINE c == [st EXCEPT !.run[t] = to]
  <2>1. /\ RowsFit(c) /\ c.task = st.task /\ c.journey = st.journey /\ c.inst = st.inst
        /\ \A u \in Tasks \ {t} : c.run[u] = st.run[u]
    BY <1>2, ConcludedFits
  <2>2. Synced(st, t, to, sync) = c
    BY <1>2 DEF Synced
  <2> HIDE DEF c
  <2> QED BY <1>2, <2>1, <2>2
<1>3. CASE sync = "end"
  <2> DEFINE c == [st EXCEPT !.run[t] = to]
  <2>1. RowsFit(c) /\ c.task = st.task /\ c.journey = st.journey
    BY <1>3, ConcludedFits
  <2>2. Synced(st, t, to, sync) = Ended(c, "completed")
    BY <1>3 DEF Synced
  <2> HIDE DEF c
  <2> QED BY <1>0, <1>3, <2>1, <2>2, EndedFits
<1> QED BY <1>1, <1>2, <1>3

(***************************************************************************)
(* and so does the commit of a session.                                    *)
(***************************************************************************)
Own(s) ==
  [db EXCEPT !.task = TasksOf(s),
             !.answered = IF s.op = "survey" THEN @ \cup s.tasks ELSE @,
             !.run = [t \in Tasks |-> IF s.op = "submit" /\ t \in s.tasks THEN "done" ELSE @[t]]]

WithSync(s) == IF s.sync = "none" THEN Own(s) ELSE Synced(Own(s), TheTask(s), s.to, s.sync)

LEMMA OwnFits ==
  ASSUME Inv, NEW s \in Requests, Shaped(s), s.op # "add"
  PROVE  /\ RowsFit(Own(s)) /\ Own(s).task = TasksOf(s) /\ Own(s).journey = db.journey
         /\ Own(s).inst = db.inst
         /\ \A t \in Tasks : Own(s).run[t] = IF s.op = "submit" /\ t \in s.tasks THEN "done" ELSE db.run[t]
<1> DEFINE o == Own(s)
           runs == [t \in Tasks |-> IF s.op = "submit" /\ t \in s.tasks THEN "done" ELSE db.run[t]]
           answers == IF s.op = "survey" THEN db.answered \cup s.tasks ELSE db.answered
<1>1. /\ runs \in [Tasks -> {"none", "active"} \cup Closed]
      /\ \A u \in Tasks : runs[u] = "none" <=> u \notin Staged
  BY DEF Inv, Types, RowsFit, Database, Closed, Shaped
<1>2. TasksOf(s) \in [Tasks -> {"none", "open"} \cup Closed] /\ \A t \in plan.tasks \cap Tasks : TasksOf(s)[t] # "none"
  BY DEF TasksOf, Inv, Types, RowsFit, Database, Requests, Shaped, Closed
<1>3. answers \subseteq Of("survey") /\ answers \subseteq Tasks
  BY DEF Inv, Types, RowsFit, Shaped, Of
<1>4. o = [db EXCEPT !.task = TasksOf(s), !.answered = answers, !.run = runs]
  BY DEF Own
<1>6. db \in Database /\ RowsFit(db)
  BY DEF Inv, Types, RowsFit
<1> HIDE DEF runs, answers, o
<1>5. /\ o \in Database /\ o.inst = db.inst /\ o.run = runs /\ o.task = TasksOf(s) /\ o.journey = db.journey
      /\ o.answered = answers
  BY <1>1, <1>2, <1>3, <1>4, <1>6 DEF Database
<1>7. RowsFit(o)
  BY <1>1, <1>2, <1>3, <1>5, <1>6 DEF RowsFit
<1> QED BY <1>5, <1>7 DEF o, runs

LEMMA WithSyncFits ==
  ASSUME Inv, NEW s \in Requests, Shaped(s), s.op # "add"
  PROVE  RowsFit(WithSync(s)) /\ WithSync(s).task = TasksOf(s) /\ WithSync(s).journey = db.journey
<1>1. CASE s.sync = "none"
  BY <1>1, OwnFits DEF WithSync
<1>2. CASE s.sync # "none"
  <2>1. /\ TheTask(s) \in Staged /\ s.to \in {"open"} \cup Closed /\ s.sync \in {"reopen", "wait", "end"}
        /\ s.sync \in {"wait", "end"} => s.to \in Closed
    BY <1>2 DEF Shaped, Requests, Closed
  <2>2. plan \in Templates /\ RowsFit(Own(s)) /\ Own(s).task = TasksOf(s) /\ Own(s).journey = db.journey
    BY OwnFits DEF Inv, Types
  <2> DEFINE o == Own(s)
             t == TheTask(s)
             to == s.to
             sync == s.sync
  <2>3. /\ t \in Staged /\ to \in {"open"} \cup Closed /\ sync \in {"reopen", "wait", "end"}
        /\ sync \in {"wait", "end"} => to \in Closed
        /\ plan \in Templates /\ RowsFit(o)
    BY <2>1, <2>2
  <2> HIDE DEF o, t, to, sync
  <2>4. /\ RowsFit(Synced(o, t, to, sync)) /\ Synced(o, t, to, sync).task = o.task
        /\ Synced(o, t, to, sync).journey = o.journey
    BY <2>3, SyncedFits
  <2> QED BY <1>2, <2>2, <2>4 DEF WithSync, o, t, to, sync
<1> QED BY <1>1, <1>2

(***************************************************************************)
(* A session not overtaken decided on the rows as they are: what it does   *)
(* to the instance fits them.                                              *)
(***************************************************************************)
LEMMA TasksAfter ==
  ASSUME NEW s \in Requests, NEW t \in Tasks
  PROVE  TasksOf(s)[t] = IF t \in s.closes THEN s.to ELSE db.task[t]
BY DEF TasksOf

LEMMA SyncFits ==
  ASSUME Inv, Serial, NEW s \in Requests, Shaped(s), s.op # "add", s.step = "read", Knows(s)
  PROVE  /\ s.sync \in {"wait", "end"} => db.inst = "running" /\ TasksOf(s)[TheTask(s)] # "open"
         /\ s.sync = "end" => GroupOver(db, TheTask(s))
         /\ s.sync = "reopen" => s.op = "update"
         /\ s.sync = "none" => /\ s.op # "submit"
                               /\ TheTask(s) \in Staged \cap s.closes /\ s.op # "daily" /\ s.to = "open" =>
                                    db.run[TheTask(s)] = "active"
<1> DEFINE t == TheTask(s)
<1>1. s.sync = SyncRead(s) /\ s.closes = Marked(s).closes
  BY DEF Knows
<1>2. s.op \in {"update", "survey", "submit", "daily"}
  BY DEF Requests
<1>3. CASE s.op = "daily"
  BY <1>1, <1>3, MarkedFields DEF SyncRead
<1>4. CASE s.op = "submit"
  <2>1. t \in Tasks /\ t \in s.tasks /\ s.to = "done" /\ db.inst = "running"
    BY <1>4 DEF Shaped, Knows, Serial, Quiet
  <2>2. s.sync = (IF GroupOver(db, t) THEN "end" ELSE "wait") /\ s.closes = {u \in s.tasks : db.task[u] = "open"}
    BY <1>1, <1>4, <2>1, MarkedFields DEF SyncRead
  <2>3. TasksOf(s)[t] # "open"
    BY <2>1, <2>2, TasksAfter
  <2> QED BY <1>4, <2>1, <2>2, <2>3
<1>5. CASE s.op \in {"update", "survey"}
  <2>1. s.sync = SyncOf(db, t, s.to) /\ t \in Tasks /\ s.tasks = {t}
    BY <1>1, <1>5, MarkedFields DEF SyncRead, Shaped
  <2>2. s.sync \in {"wait", "end"} => db.inst = "running" /\ s.to \in Closed
    BY <2>1 DEF SyncOf, Shaped
  <2>3. s.sync \in {"wait", "end"} => s.closes = s.tasks
    <3>1. s.op = "update" \/ (s.op = "survey" /\ s.to # "none") \/ s.to = "none"
      BY <1>5
    <3> QED BY <1>1, <1>5, <2>2, <3>1, MarkedFields DEF Closed
  <2>4. s.sync \in {"wait", "end"} => TasksOf(s)[t] # "open"
    BY <2>1, <2>2, <2>3, TasksAfter DEF Closed
  <2>5. (s.sync = "end" => GroupOver(db, t))
        /\ (s.sync = "none" /\ t \in Staged /\ s.to = "open" => db.run[t] = "active")
    BY <2>1 DEF SyncOf, Closed
  <2>6. s.sync = "reopen" => s.op = "update"
    BY <1>5 DEF Shaped
  <2> QED BY <1>5, <2>2, <2>4, <2>5, <2>6
<1> QED BY <1>2, <1>3, <1>4, <1>5

LEMMA SerialRows ==
  ASSUME Inv, Serial, NEW s \in Requests, Shaped(s), s.op # "add", s.step = "read", Knows(s)
  PROVE  /\ Quiet(WithSync(s))
         /\ db.journey = "active" => Asks(WithSync(s), Tasks)
         /\ s.op # "update" /\ db.inst # "running" => WithSync(s).inst # "running"
         /\ s.op # "update" /\ JourneyComplete(db.task) => JourneyComplete(TasksOf(s))
<1> DEFINE t == TheTask(s)
           w == WithSync(s)
           o == Own(s)
<1>1. /\ w.task = TasksOf(s) /\ o.task = TasksOf(s) /\ o.inst = db.inst /\ RowsFit(o)
      /\ \A u \in Tasks : o.run[u] = IF s.op = "submit" /\ u \in s.tasks THEN "done" ELSE db.run[u]
  BY WithSyncFits, OwnFits
<1>2. \A u \in Tasks : TasksOf(s)[u] = IF u \in s.closes THEN s.to ELSE db.task[u]
  BY TasksAfter
<1>3. plan \in Templates /\ Staged \subseteq Tasks /\ plan.required \subseteq Tasks
  BY TemplatesAssumption DEF Inv, Types, Staged
<1>4. s.op # "daily" => s.closes \subseteq {t} /\ s.tasks = {t}
  BY DEF Shaped
<1>5. s.op # "update" => s.to # "open"
  BY DEF Shaped, Requests
<1>6. s.op # "update" /\ JourneyComplete(db.task) => JourneyComplete(TasksOf(s))
  BY <1>2, <1>3, <1>5 DEF JourneyComplete
<1>7. /\ s.sync \in {"wait", "end"} => db.inst = "running" /\ TasksOf(s)[t] # "open"
      /\ s.sync = "end" => GroupOver(db, t)
      /\ s.sync = "reopen" => s.op = "update"
      /\ s.sync = "none" => /\ s.op # "submit"
                            /\ t \in Staged \cap s.closes /\ s.op # "daily" /\ s.to = "open" => db.run[t] = "active"
  BY SyncFits
<1>8. s.sync # "none" => t \in Staged /\ s.op # "daily"
  BY DEF Shaped
<1> DEFINE to == s.to
           sync == s.sync
           y == Synced(o, t, to, sync)
<1>9. ASSUME sync # "none"
      PROVE  /\ y.task = o.task
             /\ sync = "reopen" => /\ y.run[t] = "active" /\ (y = o \/ y.inst = "running")
                                   /\ \A u \in Tasks : o.run[u] = "active" => y.run[u] = "active"
             /\ sync = "wait" => y.inst = o.inst /\ \A u \in Tasks \ {t} : y.run[u] = o.run[u]
             /\ sync = "end" => Quiet(y) /\ y.inst # "running"
  <2>1. /\ t \in Staged /\ to \in {"open"} \cup Closed /\ sync \in {"reopen", "wait", "end"}
        /\ sync \in {"wait", "end"} => to \in Closed
    BY <1>8, <1>9 DEF Shaped, Requests, Closed
  <2> HIDE DEF o, t, to, sync
  <2> QED BY <1>1, <1>3, <2>1, SyncedFits
<1>10. (sync = "none" => w = o) /\ (sync # "none" => w = y) /\ sync \in {"none", "reopen", "wait", "end"}
  BY DEF WithSync, Requests
<1>11. Quiet(db) /\ (db.journey = "active" => \A u \in Staged : db.task[u] = "open" =>
                                          db.inst = "running" /\ db.run[u] = "active")
  BY <1>3 DEF Serial, Asks
<1> HIDE DEF o, t, to, sync, w, y
<1>12. CASE sync = "none"
  <2>1. Quiet(w) /\ (db.inst # "running" => w.inst # "running")
    BY <1>1, <1>7, <1>10, <1>11, <1>12 DEF Quiet, sync
  <2>2. ASSUME db.journey = "active", NEW u \in Staged \cap Tasks, TasksOf(s)[u] = "open"
        PROVE  w.inst = "running" /\ w.run[u] = "active"
    <3>1. CASE u \in s.closes
      <4>1. s.to = "open" /\ s.op # "daily" /\ u = t
        BY <1>2, <1>4, <1>5, <2>2, <3>1
      <4> QED BY <1>1, <1>7, <1>10, <1>11, <1>12, <3>1, <4>1 DEF Quiet, sync
    <3>2. CASE u \notin s.closes
      BY <1>1, <1>2, <1>7, <1>10, <1>11, <1>12, <2>2, <3>2 DEF sync
    <3> QED BY <3>1, <3>2
  <2> QED BY <1>1, <1>6, <2>1, <2>2 DEF Asks, w
<1>13. CASE sync = "reopen"
  <2>1. s.op = "update"
    BY <1>7, <1>13 DEF sync
  <2>2. Quiet(o) /\ (o.run[t] = "active" => o.inst = "running") /\ t \in Tasks
    BY <1>1, <1>3, <1>8, <1>11, <1>13, <2>1 DEF Quiet, sync
  <2>3. Quiet(w) /\ w.inst = "running" /\ w.run[t] = "active"
    BY <1>9, <1>10, <1>13, <2>2 DEF Quiet
  <2>4. ASSUME db.journey = "active", NEW u \in Staged \cap Tasks, TasksOf(s)[u] = "open"
        PROVE  w.run[u] = "active"
    <3>1. CASE u = t
      BY <2>3, <3>1
    <3>2. CASE u # t
      BY <1>1, <1>2, <1>4, <1>9, <1>10, <1>11, <1>13, <2>1, <2>4, <3>2
    <3> QED BY <3>1, <3>2
  <2> QED BY <1>1, <2>1, <2>3, <2>4 DEF Asks, w
<1>14. CASE sync = "wait"
  <2>1. w.inst = "running" /\ Quiet(w) /\ db.inst = "running" /\ s.op # "daily" /\ TasksOf(s)[t] # "open"
    BY <1>1, <1>7, <1>8, <1>9, <1>10, <1>14 DEF Quiet, sync
  <2>2. ASSUME db.journey = "active", NEW u \in Staged \cap Tasks, TasksOf(s)[u] = "open"
        PROVE  w.run[u] = "active"
    BY <1>1, <1>2, <1>4, <1>9, <1>10, <1>11, <1>14, <2>1, <2>2
  <2> QED BY <1>1, <1>6, <2>1, <2>2 DEF Asks, w
<1>15. CASE sync = "end"
  <2>1. /\ w.inst # "running" /\ Quiet(w) /\ db.inst = "running" /\ s.op # "daily" /\ TasksOf(s)[t] # "open"
        /\ GroupOver(db, t)
    BY <1>7, <1>8, <1>9, <1>10, <1>15 DEF sync
  <2>2. ASSUME db.journey = "active", NEW u \in Staged \cap Tasks PROVE TasksOf(s)[u] # "open"
    BY <1>2, <1>4, <1>11, <2>1, <2>2 DEF GroupOver, Closed
  <2> QED BY <1>1, <1>6, <2>1, <2>2 DEF Asks, w
<1> QED BY <1>10, <1>12, <1>13, <1>14, <1>15

(***************************************************************************)
(* A commit overtakes every session open, so the others need to know       *)
(* nothing; the rows it leaves have to fit.                                *)
(***************************************************************************)
LEMMA PublishKeeps ==
  ASSUME Inv, NEW c \in Sessions, NEW after, NEW writes, NEW who, Publish(c, after, writes, who), RowsFit(after),
         plan' = plan, session' = [session EXCEPT ![c] = Idle], reopens' \in 0..MaxReopens,
         ~crossed /\ c \notin late => Serial'
  PROVE  Inv'
<1>1. /\ db' = after /\ late' = (late \cup Open) \ {c}
      /\ unread' = (unread \ {c}) \cup {d \in Open \ {c} : session[d].step = "read"}
      /\ crossed' = (crossed \/ c \in late)
  BY DEF Publish
<1>2. /\ session' \in [Sessions -> {Idle} \cup Requests]
      /\ Open' = Open \ {c} /\ \A d \in Open' : session'[d] = session[d]
  BY DEF Inv, Types, Open
<1>3. late' = Open' /\ unread' \subseteq late'
  BY <1>1, <1>2 DEF Inv, Types
<1>4. Types'
  <2>1. \A d \in Open' : Shaped(session[d])'
    BY <1>2 DEF Inv, Types, Shaped, Of, Staged
  <2>2. RowsFit(db)'
    BY <1>1 DEF RowsFit, Staged, Of
  <2>3. crossed' \in BOOLEAN
    BY <1>1 DEF Inv, Types
  <2> QED BY <1>2, <1>3, <2>1, <2>2, <2>3 DEF Inv, Types
<1>5. \A d \in Open' \ unread' : session'[d].step # "read"
  BY <1>1, <1>2
<1>6. ~crossed' => Serial'
  BY <1>1
<1> QED BY <1>3, <1>4, <1>5, <1>6 DEF Inv

LEMMA CommitKeeps == ASSUME Inv, NEW c \in Sessions, Commit(c) PROVE Inv'
<1> DEFINE s == session[c]
           after == After(s)
           who == IF s.op = "daily" THEN "worker" ELSE "progress"
<1>1. /\ c \in Open /\ s \in Requests /\ Shaped(s) /\ (s.op # "add" => s.step = "read")
      /\ Publish(c, after, s.sync # "none", who)
      /\ session' = [session EXCEPT ![c] = Idle] /\ plan' = plan /\ reopens' \in 0..MaxReopens
  BY DEF Commit, Inv, Types, Open
<1>2. /\ s.op = "add" => after = [db EXCEPT !.task[TheTask(s)] = "open"]
      /\ s.op = "daily" => after = IF s.finish THEN [Own(s) EXCEPT !.journey = "completed"] ELSE WithSync(s)
      /\ s.op \in {"update", "survey", "submit"} =>
           after = IF s.finish THEN [EndedIfRunning(WithSync(s), "completed") EXCEPT !.journey = "completed"]
                   ELSE WithSync(s)
  BY <1>1 DEF After, Own, WithSync, Requests
<1>3. s.op \in {"update", "survey", "submit", "add", "daily"} /\ s.finish \in BOOLEAN
  BY <1>1 DEF Requests
<1>4. db' = after /\ (c \notin late => Knows(s)) /\ RowsFit(db)
      /\ (c \notin late /\ s.op # "add" => s.finish = Finishes(s))
      /\ closedBy' = IF after.journey = db.journey THEN closedBy
                      ELSE IF after.journey = "active" THEN "nobody" ELSE who
  BY <1>1 DEF Publish, Inv, Types
<1>5. plan \in Templates /\ plan.required \subseteq Tasks /\ Staged \subseteq Tasks /\ Staged \subseteq plan.tasks
  BY TemplatesAssumption DEF Inv, Types, Staged
<1> HIDE DEF after, s, who
<1>6. CASE s.op = "add"
  <2> DEFINE t == TheTask(s)
             task == [db.task EXCEPT ![t] = "open"]
  <2>1. t \in Tasks \ plan.tasks
    BY <1>1, <1>6 DEF Shaped
  <2> HIDE DEF t
  <2>2. /\ task \in [Tasks -> {"none", "open"} \cup Closed]
        /\ \A u \in plan.tasks : task[u] = db.task[u]
    BY <1>4, <2>1 DEF RowsFit, Database
  <2>3. after = [db EXCEPT !.task = task]
    BY <1>2, <1>6 DEF t
  <2> HIDE DEF task
  <2>4. /\ after \in Database /\ after.task = task /\ after.run = db.run /\ after.inst = db.inst
        /\ after.journey = db.journey /\ after.answered = db.answered
    BY <1>4, <2>2, <2>3 DEF RowsFit, Database
  <2>5. RowsFit(after)
    BY <1>4, <1>5, <2>2, <2>4 DEF RowsFit
  <2>6. ASSUME ~crossed, c \notin late PROVE Serial'
    <3>1. db.journey = "active" /\ Serial
      BY <1>4, <1>6, <2>6 DEF Knows, Inv
    <3>2. Quiet(db)' /\ closedBy' = "nobody" /\ db'.journey = "active"
      BY <1>4, <2>4, <3>1 DEF Serial, Quiet
    <3>3. Asks(db, Tasks)'
      BY <1>1, <1>4, <1>5, <2>2, <2>4, <3>1 DEF Serial, Asks, Staged
    <3> QED BY <3>2, <3>3 DEF Serial
  <2> QED BY <1>1, <2>5, <2>6, PublishKeeps
<1>7. ASSUME s.op # "add" PROVE Inv'
  <2> DEFINE w == WithSync(s)
             done == [w EXCEPT !.journey = "completed"]
             e == EndedIfRunning(w, "completed")
             ended == [e EXCEPT !.journey = "completed"]
  <2>1. RowsFit(w) /\ w.task = TasksOf(s) /\ w.journey = db.journey
    BY <1>1, <1>7, WithSyncFits
  <2>2. s.op = "daily" => w = Own(s)
    BY <1>1 DEF WithSync, Shaped
  <2>3. after = IF ~s.finish THEN w ELSE IF s.op = "daily" THEN done ELSE ended
    BY <1>2, <1>3, <1>7, <2>2
  <2> HIDE DEF w
  <2>4. RowsFit(done) /\ done.inst = w.inst /\ done.run = w.run /\ done.task = w.task /\ done.journey = "completed"
    BY <2>1 DEF RowsFit, Database
  <2>5. RowsFit(e) /\ e.task = w.task
    BY <2>1, EndedFits DEF EndedIfRunning, RowsFit
  <2> HIDE DEF e
  <2>6. /\ RowsFit(ended) /\ ended.inst = e.inst /\ ended.run = e.run /\ ended.task = e.task
        /\ ended.journey = "completed"
    BY <2>5 DEF RowsFit, Database
  <2> HIDE DEF done, ended
  <2>7. RowsFit(after)
    BY <1>3, <2>1, <2>3, <2>4, <2>6
  <2>8. ASSUME ~crossed, c \notin late PROVE Serial'
    <3>1. Serial /\ Knows(s) /\ s.finish = Finishes(s) /\ s.step = "read"
      BY <1>1, <1>4, <1>7, <2>8 DEF Inv
    <3>2. /\ Quiet(w)
          /\ db.journey = "active" => Asks(w, Tasks)
          /\ s.op # "update" /\ db.inst # "running" => w.inst # "running"
          /\ s.op # "update" /\ JourneyComplete(db.task) => JourneyComplete(TasksOf(s))
      BY <1>1, <1>7, <3>1, SerialRows DEF w
    <3>3. s.op \in {"update", "daily"} => db.journey = "active"
      BY <3>1 DEF Knows
    <3>4. s.finish => db.journey = "active" /\ JourneyComplete(TasksOf(s))
      BY <3>1, <3>3 DEF Finishes
    <3>5. CASE ~s.finish
      <4>1. db' = w /\ closedBy' = closedBy
        BY <1>4, <2>1, <2>3, <3>5
      <4>2. Quiet(db)' /\ (db.journey = "active" => Asks(db, Tasks)') /\ db'.journey = db.journey
            /\ db'.inst = w.inst /\ db'.task = TasksOf(s)
        BY <1>1, <2>1, <3>2, <4>1 DEF Quiet, Asks, Staged
      <4>3. db.journey # "active" => closedBy # "nobody" /\ (closedBy # "worker" => w.inst # "running")
        BY <3>1, <3>2, <3>3 DEF Serial
      <4>4. closedBy \in {"progress", "worker"} => JourneyComplete(TasksOf(s))
        BY <3>1, <3>2, <3>3 DEF Serial
      <4>5. closedBy' \in {"progress", "worker"} => JourneyComplete(db.task)'
        BY <1>1, <4>1, <4>2, <4>4 DEF JourneyComplete
      <4>6. db.journey = "active" => closedBy' = "nobody"
        BY <3>1, <4>1 DEF Serial
      <4> QED BY <4>1, <4>2, <4>3, <4>5, <4>6 DEF Serial
    <3>6. CASE s.finish /\ s.op = "daily"
      <4>1. db' = done /\ closedBy' = "worker"
        BY <1>4, <2>3, <2>4, <3>4, <3>6 DEF who
      <4>2. Quiet(db)' /\ db'.task = TasksOf(s) /\ db'.journey = "completed"
        BY <2>1, <2>4, <3>2, <4>1 DEF Quiet
      <4>3. JourneyComplete(db.task)'
        BY <1>1, <3>4, <3>6, <4>2 DEF JourneyComplete
      <4> QED BY <4>1, <4>2, <4>3 DEF Serial
    <3>7. CASE s.finish /\ s.op # "daily"
      <4>1. db' = ended /\ closedBy' = "progress"
        BY <1>4, <2>3, <2>6, <3>4, <3>7 DEF who
      <4>2. Quiet(e) /\ e.inst # "running"
        BY <2>1, <3>2, EndedIfRunningFits DEF e
      <4>3. Quiet(db)' /\ db'.task = TasksOf(s) /\ db'.journey = "completed" /\ db'.inst # "running"
        BY <2>1, <2>5, <2>6, <4>1, <4>2 DEF Quiet
      <4>4. JourneyComplete(db.task)'
        BY <1>1, <3>4, <3>7, <4>3 DEF JourneyComplete
      <4> QED BY <4>1, <4>3, <4>4 DEF Serial
    <3> QED BY <1>3, <3>5, <3>6, <3>7
  <2> QED BY <1>1, <2>7, <2>8, PublishKeeps
<1> QED BY <1>6, <1>7

(***************************************************************************)
(* HR changes the status of the journey.                                   *)
(***************************************************************************)
LEMMA UpdateJourneyKeeps == ASSUME Inv, NEW c \in Sessions, UpdateJourney(c) PROVE Inv'
<1> DEFINE Followed(to) == CASE ~plan.engine -> db
                             [] plan.engine /\ to = "active" -> Reopened(db, {t \in Staged : db.task[t] = "open"})
                             [] plan.engine /\ to # "active" -> EndedIfRunning(db, to)
           After2(to) == [Followed(to) EXCEPT !.journey = to]
<1>1. PICK to \in {"active", "completed", "cancelled"} \ {db.journey} :
        /\ Reopening(to = "active")
        /\ reopens' = IF to = "active" THEN reopens + 1 ELSE reopens
        /\ Publish(c, After2(to), plan.engine, "hr")
  BY DEF UpdateJourney
<1>2. /\ session[c] = Idle /\ plan' = plan /\ session' = session /\ RowsFit(db) /\ plan \in Templates
      /\ session' = [session EXCEPT ![c] = Idle] /\ c \notin late
  BY DEF UpdateJourney, Inv, Types, Open
<1>3. reopens' \in 0..MaxReopens
  BY <1>1, BoundAssumption DEF Reopening, Inv, Types
<1> DEFINE open == {t \in Staged : db.task[t] = "open"}
           f == Followed(to)
           after == After2(to)
<1>4. /\ ~plan.engine => f = db
      /\ plan.engine /\ to = "active" => f = Reopened(db, open)
      /\ plan.engine /\ to # "active" => f = EndedIfRunning(db, to)
  OBVIOUS
<1>5. plan.engine /\ to = "active" =>
        /\ RowsFit(f) /\ f.task = db.task
        /\ \A t \in open : f.run[t] = "active"
        /\ f = db \/ f.inst = "running"
  BY <1>2, <1>4, ReopenedFits
<1>6. plan.engine /\ to # "active" => RowsFit(f) /\ f.task = db.task /\ (Quiet(db) => Quiet(f) /\ f.inst # "running")
  BY <1>1, <1>2, <1>4, EndedFits DEF EndedIfRunning, RowsFit, Quiet
<1> HIDE DEF f
<1>7. RowsFit(f) /\ f.task = db.task
  BY <1>2, <1>4, <1>5, <1>6
<1>8. /\ RowsFit(after) /\ after.inst = f.inst /\ after.run = f.run /\ after.task = f.task /\ after.journey = to
  BY <1>1, <1>7 DEF RowsFit, Database, f
<1> HIDE DEF after
<1>9. ASSUME ~crossed, c \notin late PROVE Serial'
  <2>1. Serial
    BY <1>9 DEF Inv
  <2>2. db' = after /\ closedBy' = IF to = "active" THEN "nobody" ELSE "hr"
    BY <1>1, <1>8 DEF Publish, after
  <2>3. Quiet(f) /\ (to # "active" => f.inst # "running")
    BY <1>2, <1>4, <1>5, <1>6, <2>1 DEF Serial, Quiet, RowsFit
  <2>4. Quiet(db)'
    BY <1>8, <2>2, <2>3 DEF Quiet
  <2>5. to = "active" => Asks(db, Tasks)'
    <3> SUFFICES ASSUME to = "active", NEW t \in Staged \cap Tasks, db.task[t] = "open"
                 PROVE  f.inst = "running" /\ f.run[t] = "active"
      BY <1>2, <1>7, <1>8, <2>2 DEF Asks, Staged
    <3>1. plan.engine /\ f.run[t] = "active"
      BY <1>5 DEF Staged
    <3> QED BY <2>3, <3>1 DEF Quiet
  <2> QED BY <1>8, <2>2, <2>3, <2>4, <2>5 DEF Serial
<1>10. Publish(c, after, plan.engine, "hr")
  BY <1>1 DEF after
<1> QED BY <1>2, <1>3, <1>8, <1>9, <1>10, PublishKeeps

LEMMA StepKeeps == Inv /\ [Next]_vars => Inv'
<1> SUFFICES ASSUME Inv, [Next]_vars PROVE Inv'
  OBVIOUS
<1>1. CASE BeginDaily
  BY <1>1, DailyBegins
<1>2. ASSUME NEW c \in Sessions, Step(c) PROVE Inv'
  BY <1>2, MarkKeeps, ReadKeeps, CommitKeeps DEF Step
<1>3. ASSUME NEW c \in Connections, Request(c) \/ Abort(c) PROVE Inv'
  BY <1>3, UpdateBegins, SurveyBegins, SubmitBegins, AddBegins, UpdateJourneyKeeps, AbortKeeps DEF Request, Sessions
<1>4. CASE UNCHANGED vars
  <2>1. Open' = Open /\ Types'
    BY <1>4 DEF vars, Inv, Types, Open, Shaped, RowsFit, Of, Staged
  <2>2. \A d \in Open' \ late' : Knows(session[d])'
    <3> SUFFICES ASSUME NEW d \in Open \ late PROVE Knows(session[d])'
      BY <1>4, <2>1 DEF vars
    <3>1. Knows(session[d])
      BY DEF Inv
    <3> QED BY <1>4, <3>1 DEF vars, Knows, Marked, SyncRead, SyncOf, GroupOver, Staged
  <2>3. \A d \in Open' \ unread' : session'[d].step = "read" => session'[d].finish = Finishes(session[d])'
    <3> SUFFICES ASSUME NEW d \in Open \ unread, session[d].step = "read"
                 PROVE  session'[d].finish = Finishes(session[d])'
      BY <1>4, <2>1 DEF vars
    <3>1. session[d].finish = Finishes(session[d])
      BY DEF Inv
    <3> QED BY <1>4, <3>1 DEF vars, Finishes, JourneyComplete, TasksOf
  <2>4. (~crossed => Serial)'
    BY <1>4 DEF vars, Inv, Serial, Quiet, Asks, Staged, JourneyComplete
  <2> QED BY <2>1, <2>2, <2>3, <2>4 DEF Inv
<1> QED BY <1>1, <1>2, <1>3, <1>4 DEF Next

THEOREM InvHolds == Spec => []Inv
<1>1. Inv /\ [Next]_vars => Inv'
  BY StepKeeps
<1> QED BY Initially, <1>1, PTL DEF Spec

(* Rows and sessions keep their types: every task of the template has a status, and a run
   in the instance exactly if it is one of its stages. *)
THEOREM TypeCorrect == Spec => []TypeOK
<1>1. Inv => TypeOK
  BY DEF Inv, Types, RowsFit, Database, TypeOK
<1> QED BY InvHolds, <1>1, PTL

(* Whoever has a task of the template to do is asked by the engine, as long as no
   overtaken session commits. *)
THEOREM OpenTasksAskHolds == Spec => []OpenTasksAsk
<1>1. Inv => OpenTasksAsk
  BY TemplatesAssumption DEF Inv, Types, Serial, Asks, OpenTasksAsk, Staged
<1> QED BY InvHolds, <1>1, PTL

(* The engine asks nothing of a closed journey, unless the worker closed it. *)
THEOREM InstanceFollowsHolds == Spec => []InstanceFollows
<1>1. Inv => InstanceFollows
  BY DEF Inv, Serial, Quiet, InstanceFollows
<1> QED BY InvHolds, <1>1, PTL

(* A journey completes by itself only with nothing required left to do. *)
THEOREM CompletedIsDoneHolds == Spec => []CompletedIsDone
<1>1. Inv => CompletedIsDone
  BY DEF Inv, Serial, JourneyComplete, CompletedIsDone
<1> QED BY InvHolds, <1>1, PTL

(***************************************************************************)
(* When a completion is missed. A session which knows the progress either  *)
(* completes the journey or leaves something to do; one that holds the     *)
(* row of the instance knows it for sure, if every task is a stage closed  *)
(* that way and nothing is reopened: the others close nothing.             *)
(***************************************************************************)
Explained == IsStuck(db) => stuckBy \in {"hr", "blind"}

SameRow == Loose = {} /\ reopens = 0

Closing(s) ==
  /\ s.op \in {"update", "survey", "daily"} /\ s.to # "open" /\ (s.op = "daily" => s.tasks = {})
  /\ db.journey = "active" /\ s.step # "begun" /\ s.op # "daily" =>
       /\ s.sync = "none" => \A t \in s.closes : db.task[t] # "open"
       /\ s.sync = "end" => \A t \in Tasks \ {TheTask(s)} : db.task[t] # "open"
       /\ s.sync # "none" => TheTask(s) \in s.closes

Exact ==
  SameRow =>
    /\ \A c \in Open : Closing(session[c])
    /\ db.journey = "active" =>
         /\ Asks(db, Tasks)
         /\ \A c \in Sessions : HoldsInstance(c) => session[c].finish = JourneyComplete(TasksOf(session[c]))
    /\ stuckBy # "blind"

LEMMA SameRowShape ==
  ASSUME Inv, SameRow
  PROVE  Staged = Tasks /\ plan.tasks = Tasks /\ plan.engine /\ Of("form") = {} /\ Of("objective") = {}
<1>1. plan.tasks \subseteq Tasks /\ plan.tasks # {}
  BY TemplatesAssumption DEF Inv, Types
<1> QED BY <1>1 DEF SameRow, Loose, Staged, Of

Holding(s) == s.step = "read" /\ s.op \in {"update", "survey"} /\ s.sync # "none"

LEMMA HoldsIf == ASSUME NEW c PROVE HoldsInstance(c) <=> session[c] # Idle /\ Holding(session[c])
BY DEF HoldsInstance, SyncsFirst, Holding

(* A session that changes no row has only itself to account for. *)
LEMMA OneSession ==
  ASSUME Inv, Exact, NEW c \in Sessions, db' = db, plan' = plan, stuckBy' = stuckBy, reopens' = 0 => reopens = 0,
         session' \in [Sessions -> {Idle} \cup Requests], \A d \in Sessions \ {c} : session'[d] = session[d],
         SameRow /\ session'[c] # Idle /\ reopens' = 0 =>
           /\ Closing(session'[c])
           /\ db.journey = "active" /\ Holding(session'[c]) =>
                session'[c].finish = JourneyComplete(TasksOf(session'[c]))
  PROVE  Exact'
<1> SUFFICES ASSUME SameRow'
             PROVE  (/\ \A d \in Open : Closing(session[d])
                     /\ db.journey = "active" =>
                          /\ Asks(db, Tasks)
                          /\ \A d \in Sessions : HoldsInstance(d) =>
                               session[d].finish = JourneyComplete(TasksOf(session[d]))
                     /\ stuckBy # "blind")'
  BY DEF Exact
<1>1. SameRow /\ reopens' = 0
  BY DEF SameRow, Loose, Staged, Of
<1>2. \A d \in Open' : Closing(session[d])'
  <2> SUFFICES ASSUME NEW d \in Open' PROVE Closing(session[d])'
    OBVIOUS
  <2>1. Closing(session'[d])
    BY <1>1 DEF Exact, Open
  <2> QED BY <2>1 DEF Closing
<1>3. db.journey = "active" => Asks(db, Tasks)'
  BY <1>1 DEF Exact, Asks, Staged
<1>4. ASSUME db.journey = "active", NEW d \in Sessions, HoldsInstance(d)'
      PROVE  session'[d].finish = JourneyComplete(TasksOf(session[d]))'
  <2>1. session'[d] # Idle /\ Holding(session'[d])
    BY <1>4 DEF HoldsInstance, SyncsFirst, Holding
  <2>2. session'[d].finish = JourneyComplete(TasksOf(session'[d]))
    BY <1>1, <1>4, <2>1, HoldsIf DEF Exact
  <2> QED BY <2>2 DEF JourneyComplete, TasksOf
<1>5. stuckBy' # "blind"
  BY <1>1 DEF Exact
<1> QED BY <1>2, <1>3, <1>4, <1>5

LEMMA BeginExact ==
  ASSUME Inv, Exact, NEW c \in Sessions, NEW op, NEW ts, NEW to, Begin(c, Session(op, ts, to)),
         Session(op, ts, to) \in Requests,
         SameRow => op # "add" /\ op # "submit" /\ (op = "daily" => ts = {}) /\ (op \in {"survey", "daily"} => to # "open")
  PROVE  Exact'
<1> DEFINE s == Session(op, ts, to)
<1>1. /\ session' = [session EXCEPT ![c] = s] /\ s \in Requests
      /\ plan' = plan /\ db' = db /\ stuckBy' = stuckBy
      /\ s.step = "begun" /\ s.op = op /\ s.to = to /\ s.tasks = ts
      /\ reopens' = IF s.op = "update" /\ s.to = "open" THEN reopens + 1 ELSE reopens
  BY DEF Begin, Session
<1> HIDE DEF s
<1>2. session' \in [Sessions -> {Idle} \cup Requests] /\ session'[c] = s
      /\ \A d \in Sessions \ {c} : session'[d] = session[d]
  BY <1>1 DEF Inv, Types
<1>3. reopens \in Nat
  BY BoundAssumption DEF Inv, Types
<1>4. reopens' = 0 => reopens = 0 /\ ~(s.op = "update" /\ s.to = "open")
  BY <1>1, <1>3
<1>5. SameRow /\ reopens' = 0 => Closing(s) /\ ~Holding(s)
  BY <1>1, <1>4 DEF Closing, Holding, Requests
<1> QED BY <1>1, <1>2, <1>4, <1>5, OneSession

LEMMA BeginsExact ==
  ASSUME Inv, Exact, NEW c \in Sessions, BeginUpdate(c) \/ BeginSurvey(c) \/ BeginSubmit(c) \/ BeginAdd(c) \/ BeginDaily
  PROVE  Exact'
<1>1. CASE BeginUpdate(c)
  <2>1. PICK t \in Tasks, to \in {"open"} \cup Closed : Begin(c, Session("update", {t}, to))
    BY <1>1 DEF BeginUpdate
  <2>2. Session("update", {t}, to) \in Requests
    BY DEF Session, Requests, Closed
  <2> QED BY <2>1, <2>2, BeginExact
<1>2. CASE BeginSurvey(c)
  <2>1. PICK t \in Of("survey") \cap plan.tasks, to \in {"none", "done"} : Begin(c, Session("survey", {t}, to))
    BY <1>2 DEF BeginSurvey
  <2>2. Session("survey", {t}, to) \in Requests
    BY DEF Session, Requests, Closed, Of
  <2> QED BY <2>1, <2>2, BeginExact
<1>3. CASE BeginSubmit(c)
  <2>1. PICK t \in Of("form") \cap Staged : Begin(c, Session("submit", {t}, "done"))
    BY <1>3 DEF BeginSubmit
  <2>2. Session("submit", {t}, "done") \in Requests /\ ~SameRow
    BY SameRowShape DEF Session, Requests, Closed, Of
  <2> QED BY <2>1, <2>2, BeginExact
<1>4. CASE BeginAdd(c)
  <2>1. PICK t \in Tasks \ plan.tasks : Begin(c, Session("add", {t}, "open"))
    BY <1>4 DEF BeginAdd
  <2>2. Session("add", {t}, "open") \in Requests /\ ~SameRow
    BY SameRowShape DEF Session, Requests, Closed
  <2> QED BY <2>1, <2>2, BeginExact
<1>5. CASE BeginDaily
  <2>1. PICK ts \in {{}, {t \in Of("objective") : db.task[t] = "open"}} : Begin(Worker, Session("daily", ts, "done"))
    BY <1>5 DEF BeginDaily
  <2>2. Session("daily", ts, "done") \in Requests /\ (SameRow => ts = {}) /\ Worker \in Sessions
    BY SameRowShape DEF Session, Requests, Closed, Of, Sessions
  <2> QED BY <2>1, <2>2, BeginExact
<1> QED BY <1>1, <1>2, <1>3, <1>4, <1>5

LEMMA MarkExact == ASSUME Inv, Exact, NEW c \in Sessions, Mark(c) PROVE Exact'
<1> DEFINE s == session[c]
           m == Marked(s)
           t == TheTask(s)
<1>1. /\ c \in Open /\ s \in Requests /\ Shaped(s) /\ s.op # "add"
      /\ session' = [session EXCEPT ![c] = m]
      /\ plan' = plan /\ db' = db /\ reopens' = reopens /\ stuckBy' = stuckBy
  BY DEF Mark, Inv, Types, Open
<1>2. /\ m \in Requests /\ Shaped(m) /\ m.op = s.op /\ m.tasks = s.tasks /\ m.to = s.to /\ m.step = "marked"
      /\ s.op = "survey" /\ s.to = "none" => m.closes = {}
      /\ s.op = "update" \/ (s.op = "survey" /\ s.to # "none") => m.closes = s.tasks
      /\ s.op \in {"update", "survey"} => m.sync = SyncOf(db, t, s.to)
  BY <1>1, MarkedFields
<1>3. TheTask(m) = t
  BY <1>2 DEF TheTask
<1> HIDE DEF s, m, t
<1>4. ASSUME SameRow PROVE Closing(m) /\ ~Holding(m)
  <2>1. Closing(s) /\ (db.journey = "active" => Asks(db, Tasks)) /\ Staged = Tasks
    BY <1>1, <1>4, SameRowShape DEF Exact, s
  <2>2. ASSUME db.journey = "active", s.op \in {"update", "survey"}
        PROVE  /\ m.sync = "none" => \A u \in m.closes : db.task[u] # "open"
               /\ m.sync = "end" => \A u \in Tasks \ {t} : db.task[u] # "open"
               /\ m.sync # "none" => t \in m.closes
    <3>1. s.tasks = {t} /\ t \in Tasks /\ s.to # "open" /\ s.to \in {"none", "open"} \cup Closed
      BY <1>1, <2>1, <2>2 DEF Shaped, Closing, Requests, t
    <3>2. s.to = "none" => m.closes = {}
      BY <1>1, <1>2, <2>2 DEF Shaped
    <3>3. s.to # "none" => m.closes = {t}
      <4>1. s.to # "none" => s.op = "update" \/ (s.op = "survey" /\ s.to # "none")
        BY <2>2
      <4> QED BY <1>2, <3>1, <4>1
    <3>4. db.task[t] = "open" => db.inst = "running" /\ db.run[t] = "active"
      BY <2>1, <2>2, <3>1 DEF Asks
    <3>5. s.to # "none" /\ m.sync = "none" => db.task[t] # "open"
      BY <1>2, <2>1, <2>2, <3>1, <3>4 DEF SyncOf
    <3>6. m.sync = "end" => \A u \in Tasks \ {t} : db.task[u] # "open"
      BY <1>2, <2>1, <2>2, <3>1 DEF SyncOf, GroupOver, Asks, Closed
    <3>7. m.sync # "none" => s.to # "none"
      BY <1>2, <2>2 DEF SyncOf
    <3> QED BY <3>2, <3>3, <3>5, <3>6, <3>7
  <2> QED BY <1>2, <1>3, <2>1, <2>2 DEF Closing, Holding
<1>5. session' \in [Sessions -> {Idle} \cup Requests] /\ session'[c] = m
      /\ \A d \in Sessions \ {c} : session'[d] = session[d]
  BY <1>1, <1>2 DEF Inv, Types
<1> QED BY <1>1, <1>4, <1>5, OneSession

LEMMA ReadExact == ASSUME Inv, Exact, NEW c \in Sessions, ReadProgress(c) PROVE Exact'
<1> DEFINE s == session[c]
           r == [s EXCEPT !.step = "read", !.finish = Finishes(s),
                          !.sync = IF s.op = "submit" /\ @ = "wait" /\ GroupOver(db, TheTask(s)) THEN "end" ELSE @]
<1>1. /\ c \in Open /\ s \in Requests /\ s.step = "marked"
      /\ session' = [session EXCEPT ![c] = r]
      /\ plan' = plan /\ db' = db /\ reopens' = reopens /\ stuckBy' = stuckBy
  BY DEF ReadProgress, Inv, Types, Open
<1> HIDE DEF s
<1>2. Finishes(s) \in BOOLEAN
  BY DEF Finishes
<1>3. /\ r \in Requests /\ r.op = s.op /\ r.tasks = s.tasks /\ r.to = s.to /\ r.closes = s.closes
      /\ r.step = "read" /\ r.finish = Finishes(s) /\ (s.op # "submit" => r.sync = s.sync)
  BY <1>1, <1>2 DEF Requests
<1> HIDE DEF r
<1>4. TheTask(r) = TheTask(s) /\ TasksOf(r) = TasksOf(s)
  BY <1>3 DEF TheTask, TasksOf
<1>5. SameRow => Closing(s)
  BY <1>1 DEF Exact, s
<1>6. SameRow => Closing(r)
  BY <1>1, <1>3, <1>4, <1>5 DEF Closing
<1>7. db.journey = "active" /\ Holding(r) => r.finish = JourneyComplete(TasksOf(r))
  BY <1>2, <1>3, <1>4 DEF Holding, Finishes, JourneyComplete
<1>8. session' \in [Sessions -> {Idle} \cup Requests] /\ session'[c] = r
      /\ \A d \in Sessions \ {c} : session'[d] = session[d]
  BY <1>1, <1>3 DEF Inv, Types
<1> QED BY <1>1, <1>6, <1>7, <1>8, OneSession

LEMMA AbortExact == ASSUME Inv, Exact, NEW c \in Sessions, Abort(c) PROVE Exact'
<1>1. /\ session' \in [Sessions -> {Idle} \cup Requests] /\ session'[c] = Idle
      /\ \A d \in Sessions \ {c} : session'[d] = session[d]
      /\ plan' = plan /\ db' = db /\ reopens' = reopens /\ stuckBy' = stuckBy
  BY DEF Abort, Inv, Types
<1> QED BY <1>1, OneSession

LEMMA WaitFits ==
  ASSUME plan \in Templates, NEW st, RowsFit(st), NEW t \in Staged, NEW to \in Closed,
         NEW y, y = Synced(st, t, to, "wait")
  PROVE  y.inst = st.inst /\ \A u \in Tasks \ {t} : y.run[u] = st.run[u]
<1> DEFINE c == [st EXCEPT !.run[t] = to]
<1>1. c.inst = st.inst /\ \A u \in Tasks \ {t} : c.run[u] = st.run[u]
  BY ConcludedFits
<1>2. y = c
  BY DEF Synced
<1> HIDE DEF c
<1> QED BY <1>1, <1>2

(* A commit that leaves every open task open, or whose session holds the row alone. *)
LEMMA PublishExact ==
  ASSUME Inv, Exact, NEW c \in Sessions, plan' = plan, reopens' = 0 => reopens = 0,
         session' = [session EXCEPT ![c] = Idle],
         db'.journey = "active" =>
           /\ db.journey = "active"
           /\ SameRow => /\ Asks(db, Tasks)'
                         /\ \A t \in Tasks : db'.task[t] = "open" => db.task[t] = "open"
                         /\ \/ \A t \in Tasks : db.task[t] = "open" => db'.task[t] = "open"
                            \/ \A d \in Sessions \ {c} : ~HoldsInstance(d),
         SameRow => stuckBy' # "blind"
  PROVE  Exact'
<1> SUFFICES ASSUME SameRow'
             PROVE  (/\ \A d \in Open : Closing(session[d])
                     /\ db.journey = "active" =>
                          /\ Asks(db, Tasks)
                          /\ \A d \in Sessions : HoldsInstance(d) =>
                               session[d].finish = JourneyComplete(TasksOf(session[d]))
                     /\ stuckBy # "blind")'
  BY DEF Exact
<1>1. SameRow
  BY DEF SameRow, Loose, Staged, Of
<1>2. /\ \A d \in Sessions \ {c} : session'[d] = session[d]
      /\ session'[c] = Idle
  BY DEF Inv, Types
<1>3. \A d \in Open' : Closing(session[d])'
  <2> SUFFICES ASSUME NEW d \in Open' PROVE Closing(session[d])'
    OBVIOUS
  <2>1. session'[d] = session[d] /\ Closing(session[d]) /\ session[d] \in Requests /\ Shaped(session[d])
    BY <1>1, <1>2 DEF Exact, Open, Inv, Types
  <2>2. session[d].op # "daily" => session[d].closes \subseteq Tasks
    BY <2>1 DEF Requests
  <2>3. \A t \in Tasks : db'.journey = "active" /\ db.task[t] # "open" => db'.task[t] # "open"
    BY <1>1
  <2>4. db'.journey = "active" => db.journey = "active"
    OBVIOUS
  <2>5. Closing(session'[d])
    BY <2>1
  <2> DEFINE r == session'[d]
  <2>6. r.op # "daily" => r.closes \subseteq Tasks
    BY <2>1, <2>2
  <2> HIDE DEF r
  <2>7. /\ r.op \in {"update", "survey", "daily"} /\ r.to # "open" /\ (r.op = "daily" => r.tasks = {})
        /\ db'.journey = "active" /\ r.step # "begun" /\ r.op # "daily" =>
              /\ r.sync = "none" => \A t \in r.closes : db'.task[t] # "open"
              /\ r.sync = "end" => \A t \in Tasks \ {TheTask(r)} : db'.task[t] # "open"
              /\ r.sync # "none" => TheTask(r) \in r.closes
    BY <2>3, <2>4, <2>5, <2>6 DEF Closing, r
  <2> QED BY <2>7 DEF Closing, r
<1>4. ASSUME db'.journey = "active", NEW d \in Sessions, HoldsInstance(d)'
      PROVE  session'[d].finish = JourneyComplete(TasksOf(session[d]))'
  <2> DEFINE r == session'[d]
  <2>1. d # c /\ r = session[d] /\ HoldsInstance(d)
    BY <1>2, <1>4 DEF HoldsInstance, HoldsTask, SyncsFirst, Idle
  <2>2. r.finish = JourneyComplete(TasksOf(session[d])) /\ \A t \in Tasks : db'.task[t] = "open" <=> db.task[t] = "open"
    BY <1>1, <1>4, <2>1 DEF Exact
  <2>3. plan.required \subseteq Tasks
    BY TemplatesAssumption DEF Inv, Types
  <2>4. \A t \in Tasks : TasksOf(session[d])'[t] = "open" <=> TasksOf(session[d])[t] = "open"
    BY <2>1, <2>2 DEF TasksOf
  <2>5. JourneyComplete(TasksOf(session[d]))' <=> JourneyComplete(TasksOf(session[d]))
    BY <2>3, <2>4 DEF JourneyComplete
  <2>6. JourneyComplete(TasksOf(session[d]))' \in BOOLEAN /\ JourneyComplete(TasksOf(session[d])) \in BOOLEAN
    BY DEF JourneyComplete
  <2> HIDE DEF r
  <2>7. r.finish = JourneyComplete(TasksOf(session[d]))'
    BY <2>2, <2>5, <2>6, Zenon
  <2> QED BY <2>7 DEF r
<1> QED BY <1>1, <1>3, <1>4

LEMMA CommitExact == ASSUME Inv, Exact, NEW c \in Sessions, Commit(c) PROVE Exact'
<1> DEFINE s == session[c]
           after == After(s)
           w == WithSync(s)
           who == IF s.op = "daily" THEN "worker" ELSE "progress"
<1>1. /\ c \in Open /\ s \in Requests /\ Shaped(s) /\ (s.op # "add" => s.step = "read")
      /\ Publish(c, after, s.sync # "none", who)
      /\ session' = [session EXCEPT ![c] = Idle] /\ plan' = plan /\ reopens' = reopens
  BY DEF Commit, Inv, Types, Open
<1>2. db' = after
      /\ stuckBy' = IF ~IsStuck(after) THEN "nobody" ELSE IF IsStuck(db) THEN stuckBy
                    ELSE IF c \in unread THEN "blind" ELSE who
  BY <1>1 DEF Publish
<1>3. /\ s.op = "daily" => after = IF s.finish THEN [Own(s) EXCEPT !.journey = "completed"] ELSE w
      /\ s.op \in {"update", "survey", "submit"} =>
           after = IF s.finish THEN [EndedIfRunning(w, "completed") EXCEPT !.journey = "completed"] ELSE w
      /\ s.op = "add" => after.journey = db.journey
  BY <1>1 DEF After, Own, WithSync, Requests, Inv, Types, RowsFit, Database
<1>4. s.op # "add" => /\ RowsFit(w) /\ w.task = TasksOf(s) /\ w.journey = db.journey
                      /\ RowsFit(Own(s)) /\ Own(s).journey = db.journey
                      /\ RowsFit(EndedIfRunning(w, "completed"))
  BY <1>1, WithSyncFits, OwnFits, EndedFits DEF EndedIfRunning, RowsFit
<1>5. after.journey = "active" => db.journey = "active" /\ (s.op # "add" => ~s.finish /\ after = w)
  BY <1>1, <1>3, <1>4 DEF Requests, RowsFit, Database
<1>6. ASSUME SameRow, after.journey = "active"
      PROVE  /\ Asks(after, Tasks)
             /\ \A t \in Tasks : after.task[t] = "open" => db.task[t] = "open"
             /\ \/ \A t \in Tasks : db.task[t] = "open" => after.task[t] = "open"
                \/ \A d \in Sessions \ {c} : ~HoldsInstance(d)
             /\ (\A t \in Tasks : db.task[t] = "open" => after.task[t] = "open") \/ ~JourneyComplete(after.task)
  <2>1. /\ Closing(s) /\ db.journey = "active" /\ Asks(db, Tasks) /\ Staged = Tasks
        /\ HoldsInstance(c) => s.finish = JourneyComplete(TasksOf(s))
    BY <1>1, <1>5, <1>6, SameRowShape DEF Exact
  <2>2. /\ s.op \in {"update", "survey", "daily"} /\ s.to # "open" /\ (s.op = "daily" => s.tasks = {})
        /\ s.op # "daily" =>
              /\ s.sync = "none" => \A t \in s.closes : db.task[t] # "open"
              /\ s.sync = "end" => \A t \in Tasks \ {TheTask(s)} : db.task[t] # "open"
              /\ s.sync # "none" => TheTask(s) \in s.closes
    BY <1>1, <2>1 DEF Closing
  <2>3. ~s.finish /\ after = w /\ w.task = TasksOf(s)
    BY <1>4, <1>5, <1>6, <2>2
  <2>4. /\ Own(s).task = TasksOf(s) /\ Own(s).inst = db.inst /\ RowsFit(Own(s))
        /\ \A u \in Tasks : Own(s).run[u] = db.run[u]
    BY <1>1, <2>2, OwnFits
  <2>5. \A u \in Tasks : TasksOf(s)[u] = IF u \in s.closes THEN s.to ELSE db.task[u]
    BY <1>1, TasksAfter
  <2>6. s.closes \subseteq s.tasks /\ (s.op = "daily" => s.closes = {} /\ s.sync = "none")
    BY <1>1, <2>2 DEF Shaped
  <2>7. \A t \in Tasks : TasksOf(s)[t] = "open" => db.task[t] = "open"
    BY <2>2, <2>5
  <2>8. CASE s.sync = "none"
    <3>1. \A t \in Tasks : db.task[t] = "open" => TasksOf(s)[t] = "open"
      BY <2>2, <2>5, <2>6, <2>8
    <3>2. w = Own(s)
      BY <2>8 DEF WithSync
    <3>3. Asks(after, Tasks)
      BY <2>1, <2>3, <2>4, <2>7, <3>2 DEF Asks
    <3> QED BY <2>3, <2>7, <3>1, <3>3
  <2>9. CASE s.sync # "none"
    <3>1. HoldsInstance(c) /\ \A d \in Sessions \ {c} : ~HoldsInstance(d)
      <4>1. HoldsInstance(c)
        BY <1>1, <2>2, <2>6, <2>9, HoldsIf DEF Holding, Open
      <4>2. \A d \in Open \ {c} : ~HoldsInstance(d)
        BY <1>1, <2>9 DEF Publish
      <4> QED BY <4>1, <4>2 DEF Open, HoldsInstance
    <3>2. ~JourneyComplete(after.task)
      BY <2>1, <2>3, <3>1
    <3>3. \A u \in Tasks : TasksOf(s)[u] = "open" => u # TheTask(s)
      BY <2>2, <2>5, <2>6, <2>9
    <3>4. s.sync \in {"wait", "end"} /\ s.to \in Closed
      BY <1>1, <2>2, <2>9 DEF Requests, Shaped
    <3>5. s.sync # "end"
      <4>1. s.sync = "end" => \A u \in Tasks : TasksOf(s)[u] # "open"
        BY <2>2, <2>6, <2>7, <3>3
      <4>2. plan.required \subseteq Tasks
        BY TemplatesAssumption DEF Inv, Types
      <4> QED BY <2>3, <3>2, <4>1, <4>2 DEF JourneyComplete
    <3>6. w.inst = db.inst /\ \A u \in Tasks \ {TheTask(s)} : w.run[u] = db.run[u]
      <4> DEFINE o == Own(s)
                 t == TheTask(s)
                 to == s.to
      <4>1. t \in Staged /\ to \in Closed /\ plan \in Templates /\ RowsFit(o)
        BY <1>1, <2>4, <2>9, <3>4, <3>5 DEF Shaped, Inv, Types
      <4>2. w = Synced(o, t, to, "wait")
        BY <3>4, <3>5 DEF WithSync
      <4> HIDE DEF o, t, to, w
      <4>3. w.inst = o.inst /\ \A u \in Tasks \ {t} : w.run[u] = o.run[u]
        BY <4>1, <4>2, WaitFits
      <4> QED BY <2>4, <4>3 DEF o, t
    <3>7. Asks(after, Tasks)
      BY <2>1, <2>3, <2>7, <3>3, <3>6 DEF Asks
    <3> QED BY <2>3, <2>7, <3>1, <3>2, <3>7
  <2> QED BY <2>8, <2>9
<1> HIDE DEF after
<1>7. SameRow => stuckBy' # "blind"
  <2> SUFFICES ASSUME SameRow, IsStuck(after), ~IsStuck(db) PROVE FALSE
    <3>1. SameRow => stuckBy # "blind"
      BY DEF Exact
    <3> QED BY <1>2, <3>1
  <2>1. after.journey = "active" /\ JourneyComplete(after.task) /\ db.journey = "active"
    BY <1>5 DEF IsStuck
  <2>2. plan.required \subseteq Tasks
    BY TemplatesAssumption DEF Inv, Types
  <2> QED BY <1>6, <2>1, <2>2 DEF IsStuck, JourneyComplete
<1>8. after.journey = "active" /\ SameRow => Asks(db, Tasks)'
  BY <1>1, <1>2, <1>6 DEF Asks, Staged
<1> QED BY <1>1, <1>2, <1>5, <1>6, <1>7, <1>8, PublishExact

LEMMA UpdateJourneyExact == ASSUME Inv, Exact, NEW c \in Sessions, UpdateJourney(c) PROVE Exact'
<1>1. PICK to \in {"active", "completed", "cancelled"} :
        /\ reopens' = IF to = "active" THEN reopens + 1 ELSE reopens
        /\ \E f : db' = [f EXCEPT !.journey = to] /\ f \in Database
        /\ stuckBy' = IF ~IsStuck(db') THEN "nobody" ELSE IF IsStuck(db) THEN stuckBy
                      ELSE IF c \in unread THEN "blind" ELSE "hr"
  <2> DEFINE Followed(to) == CASE ~plan.engine -> db
                               [] plan.engine /\ to = "active" -> Reopened(db, {t \in Staged : db.task[t] = "open"})
                               [] plan.engine /\ to # "active" -> EndedIfRunning(db, to)
  <2>1. PICK to \in {"active", "completed", "cancelled"} \ {db.journey} :
          /\ reopens' = IF to = "active" THEN reopens + 1 ELSE reopens
          /\ Publish(c, [Followed(to) EXCEPT !.journey = to], plan.engine, "hr")
    BY DEF UpdateJourney
  <2>2. RowsFit(db) /\ plan \in Templates
    BY DEF Inv, Types
  <2>3. plan.engine /\ to = "active" => RowsFit(Followed(to))
    BY <2>2, ReopenedFits
  <2>4. plan.engine /\ to # "active" => RowsFit(Followed(to))
    BY <2>1, <2>2, EndedFits DEF EndedIfRunning
  <2>5. Followed(to) \in Database
    BY <2>2, <2>3, <2>4 DEF RowsFit
  <2> HIDE DEF Followed
  <2>6. db' = [Followed(to) EXCEPT !.journey = to]
        /\ stuckBy' = IF ~IsStuck(db') THEN "nobody" ELSE IF IsStuck(db) THEN stuckBy
                      ELSE IF c \in unread THEN "blind" ELSE "hr"
    BY <2>1 DEF Publish
  <2> QED BY <2>1, <2>5, <2>6
<1>2. /\ session' = [session EXCEPT ![c] = Idle] /\ plan' = plan /\ c \notin unread
      /\ reopens \in Nat
  BY BoundAssumption DEF UpdateJourney, Inv, Types, Open
<1>3. db'.journey = to
  BY <1>1 DEF Database
<1>4. CASE to = "active"
  <2>1. reopens' # 0
    BY <1>1, <1>2, <1>4
  <2> QED BY <2>1 DEF Exact, SameRow
<1>5. CASE to # "active"
  BY <1>1, <1>2, <1>3, <1>5, PublishExact DEF IsStuck
<1> QED BY <1>4, <1>5

LEMMA ExactKeeps == Inv /\ Exact /\ [Next]_vars => Exact'
<1> SUFFICES ASSUME Inv, Exact, [Next]_vars PROVE Exact'
  OBVIOUS
<1>1. CASE BeginDaily
  BY <1>1, BeginsExact DEF Sessions
<1>2. ASSUME NEW c \in Sessions, Step(c) PROVE Exact'
  BY <1>2, MarkExact, ReadExact, CommitExact DEF Step
<1>3. ASSUME NEW c \in Connections, Request(c) \/ Abort(c) PROVE Exact'
  BY <1>3, BeginsExact, UpdateJourneyExact, AbortExact DEF Request, Sessions
<1>4. CASE UNCHANGED vars
  <2>1. /\ session' = session /\ plan' = plan /\ db' = db /\ reopens' = reopens /\ stuckBy' = stuckBy
        /\ session' \in [Sessions -> {Idle} \cup Requests] /\ Worker \in Sessions
    BY <1>4 DEF vars, Inv, Types, Sessions
  <2>2. SameRow /\ session[Worker] # Idle =>
          /\ Closing(session[Worker])
          /\ db.journey = "active" /\ Holding(session[Worker]) =>
               session[Worker].finish = JourneyComplete(TasksOf(session[Worker]))
    BY <2>1, HoldsIf DEF Exact, Open
  <2> QED BY <2>1, <2>2, OneSession
<1> QED BY <1>1, <1>2, <1>3, <1>4 DEF Next

(***************************************************************************)
(* Only a commit makes an active journey complete without closing it, one  *)
(* whose session read the progress before another's, or HR's.              *)
(***************************************************************************)
LEMMA CommitExplained == ASSUME Inv, Explained, NEW c \in Sessions, Commit(c) PROVE Explained'
<1> DEFINE s == session[c]
           after == After(s)
           w == WithSync(s)
           who == IF s.op = "daily" THEN "worker" ELSE "progress"
<1>1. /\ c \in Open /\ s \in Requests /\ Shaped(s) /\ (s.op # "add" => s.step = "read")
      /\ Publish(c, after, s.sync # "none", who) /\ plan' = plan
  BY DEF Commit, Inv, Types, Open
<1>2. db' = after
      /\ stuckBy' = IF ~IsStuck(after) THEN "nobody" ELSE IF IsStuck(db) THEN stuckBy
                    ELSE IF c \in unread THEN "blind" ELSE who
  BY <1>1 DEF Publish
<1>3. ASSUME IsStuck(after), ~IsStuck(db), c \notin unread PROVE FALSE
  <2>1. /\ s.op = "daily" => after = IF s.finish THEN [Own(s) EXCEPT !.journey = "completed"] ELSE w
        /\ s.op \in {"update", "survey", "submit"} =>
             after = IF s.finish THEN [EndedIfRunning(w, "completed") EXCEPT !.journey = "completed"] ELSE w
        /\ s.op = "add" => after = [db EXCEPT !.task[TheTask(s)] = "open"]
    BY <1>1 DEF After, Own, WithSync, Requests
  <2>2. s.op # "add" => /\ RowsFit(w) /\ w.task = TasksOf(s) /\ w.journey = db.journey
                        /\ RowsFit(Own(s)) /\ RowsFit(EndedIfRunning(w, "completed"))
    BY <1>1, WithSyncFits, OwnFits, EndedFits DEF EndedIfRunning, RowsFit
  <2>3. plan.required \subseteq Tasks /\ RowsFit(db)
    BY TemplatesAssumption DEF Inv, Types
  <2> HIDE DEF after, w, s
  <2>4. CASE s.op = "add"
    <3>1. \A u \in Tasks : after.task[u] # "open" => db.task[u] # "open"
      BY <1>1, <2>1, <2>3, <2>4 DEF RowsFit, Database, Shaped
    <3>2. after.journey = db.journey
      BY <2>1, <2>3, <2>4 DEF RowsFit, Database
    <3> QED BY <1>3, <2>3, <3>1, <3>2 DEF IsStuck, JourneyComplete
  <2>5. CASE s.op # "add"
    <3>1. s.finish = Finishes(s) /\ s.finish \in BOOLEAN /\ s.op \in {"update", "survey", "submit", "daily"}
      BY <1>1, <1>3, <2>5 DEF Inv, Requests, s
    <3>2. ~s.finish /\ after = w
      BY <1>3, <2>1, <2>2, <2>5, <3>1 DEF IsStuck, RowsFit, Database
    <3>3. db.journey = "active" /\ JourneyComplete(TasksOf(s))
      BY <1>3, <2>2, <2>5, <3>2 DEF IsStuck
    <3>4. s.op = "submit" /\ s.closes = {}
      BY <3>1, <3>2, <3>3 DEF Finishes
    <3>5. \A u \in Tasks : TasksOf(s)[u] = db.task[u]
      BY <3>4 DEF TasksOf
    <3> QED BY <1>3, <2>3, <3>3, <3>5 DEF IsStuck, JourneyComplete
  <2> QED BY <2>4, <2>5
<1>4. IsStuck(db)' <=> IsStuck(after)
  BY <1>1, <1>2 DEF IsStuck, JourneyComplete
<1> HIDE DEF after
<1> QED BY <1>2, <1>3, <1>4 DEF Explained

LEMMA UpdateJourneyExplained == ASSUME Inv, Explained, NEW c \in Sessions, UpdateJourney(c) PROVE Explained'
<1>1. PICK after : Publish(c, after, plan.engine, "hr")
  BY DEF UpdateJourney
<1>2. db' = after
      /\ stuckBy' = IF ~IsStuck(after) THEN "nobody" ELSE IF IsStuck(db) THEN stuckBy
                    ELSE IF c \in unread THEN "blind" ELSE "hr"
  BY <1>1 DEF Publish
<1>3. IsStuck(db)' <=> IsStuck(after)
  BY <1>2 DEF UpdateJourney, IsStuck, JourneyComplete
<1> QED BY <1>2, <1>3 DEF Explained

LEMMA ExplainedKeeps == Inv /\ Explained /\ [Next]_vars => Explained'
<1> SUFFICES ASSUME Inv, Explained, [Next]_vars PROVE Explained'
  OBVIOUS
<1>1. ASSUME db' = db, plan' = plan, stuckBy' = stuckBy PROVE Explained'
  BY <1>1 DEF Explained, IsStuck, JourneyComplete
<1>2. CASE BeginDaily
  BY <1>1, <1>2 DEF BeginDaily, Begin
<1>3. ASSUME NEW c \in Sessions, Step(c) PROVE Explained'
  BY <1>1, <1>3, CommitExplained DEF Step, Mark, ReadProgress
<1>4. ASSUME NEW c \in Connections, Request(c) \/ Abort(c) PROVE Explained'
  BY <1>1, <1>4, UpdateJourneyExplained
  DEF Request, Sessions, Abort, BeginUpdate, BeginSurvey, BeginSubmit, BeginAdd, Begin
<1>5. CASE UNCHANGED vars
  BY <1>1, <1>5 DEF vars
<1> QED BY <1>2, <1>3, <1>4, <1>5 DEF Next

(* If every template asks for something, an active journey with nothing required left to do
   was reopened by HR, or the request that closed the last task had read the progress before
   another's commit; never the latter where every task is a stage other than a form and
   nothing was reopened. *)
THEOREM NobodyForgetsHolds ==
  ASSUME \A p \in Templates : p.required \cap p.tasks # {}
  PROVE  Spec => []NobodyForgets
<1>1. Init => Exact /\ Explained
  <2> SUFFICES ASSUME Init PROVE Exact /\ Explained
    OBVIOUS
  <2>1. Open = {} /\ \A c \in Sessions : ~HoldsInstance(c)
    BY DEF Init, Open, HoldsInstance
  <2>2. plan.tasks \subseteq Tasks /\ \E t \in plan.required : t \in plan.tasks
    BY TemplatesAssumption DEF Init
  <2>3. Asks(db, Tasks)
    BY <2>2 DEF Init, Asks, Staged
  <2>4. ~IsStuck(db)
    BY <2>2 DEF Init, IsStuck, JourneyComplete
  <2> QED BY <2>1, <2>3, <2>4 DEF Init, Exact, Explained
<1>2. Inv /\ Exact /\ Explained /\ [Next]_vars => (Inv /\ Exact /\ Explained)'
  BY StepKeeps, ExactKeeps, ExplainedKeeps
<1>3. Inv /\ Exact /\ Explained => NobodyForgets
  <2> SUFFICES ASSUME Inv, Exact, Explained, Stuck PROVE NobodyForgets
    BY DEF NobodyForgets
  <2>1. stuckBy \in {"hr", "blind"}
    BY DEF Explained, Stuck, IsStuck
  <2>2. stuckBy = "blind" => Loose # {} \/ reopens > 0
    BY BoundAssumption DEF Exact, SameRow, Inv, Types
  <2> QED BY <2>1, <2>2 DEF NobodyForgets
<1> QED BY Initially, <1>1, <1>2, <1>3, PTL DEF Spec
=============================================================================
