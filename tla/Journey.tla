------------------------------ MODULE Journey ------------------------------
(***************************************************************************)
(* An onboarding journey (onboarding.service.ts) on the workflow engine:   *)
(* each task of its template is a stage of one parallel group of a silent  *)
(* instance, tasks added later are not. A request is a session under READ  *)
(* COMMITTED: its checks, the update of its task (whose row it then        *)
(* holds), the update of the instance (whose row it then holds) with the   *)
(* progress read by afterProgress, its commit. The daily job of the worker *)
(* is a session too. A journey started by the worker has no instance.      *)
(***************************************************************************)
EXTENDS Naturals, FiniteSets

CONSTANTS Tasks,       \* all the tasks a journey may get
          Connections, \* the transactions of the API that may be open together
          Worker,      \* the worker's
          Templates,   \* tasks by kind, those required, those of the template, engine or not
          MaxReopens   \* bound on the reopenings of tasks and of the journey

VARIABLES plan,     \* the template and how the journey was started
          db,       \* the committed rows: journey, tasks, instance, latest run of each stage
          session,  \* the open transaction of each connection
          reopens,  \* history: how many times something was reopened
          late,     \* history: sessions overtaken by a commit since they began
          unread,   \* history: sessions overtaken since they read the progress
          crossed,  \* history: an overtaken session has committed
          closedBy, \* history: who closed the journey
          stuckBy   \* history: why a journey with nothing left to do is still active

vars == <<plan, db, session, reopens, late, unread, crossed, closedBy, stuckBy>>

Sessions == Connections \cup {Worker}
Kinds == {"task", "form", "survey", "objective"}
Closed == {"done", "skipped"}

ASSUME WorkerAssumption == Worker \notin Connections
ASSUME TemplatesAssumption ==
  Templates \subseteq [tasks: (SUBSET Tasks) \ {{}}, required: SUBSET Tasks,
                       kind: [Tasks -> Kinds], engine: BOOLEAN]
ASSUME BoundAssumption == MaxReopens \in Nat

Staged == IF plan.engine THEN plan.tasks ELSE {}
Of(kind) == {t \in Tasks : plan.kind[t] = kind}

(* Mutant: one required task is enough. *)
JourneyBegun(tasks) == \E t \in plan.required : tasks[t] # "open"

JourneyComplete(tasks) == \A t \in plan.required : tasks[t] # "open"
Stuck == db.journey = "active" /\ JourneyComplete(db.task)

(***************************************************************************)
(* What the engine does to the instance of a journey.                      *)
(* Mutant: the runs are left as they are. *)
EndedAlone(st, status) == [st EXCEPT !.inst = status]

(***************************************************************************)
Ended(st, status) ==
  [st EXCEPT !.inst = status,
             !.run = [t \in Tasks |-> IF @[t] = "active" THEN "skipped" ELSE @[t]]]

EndedIfRunning(st, status) == IF st.inst = "running" THEN Ended(st, status) ELSE st

(* Mutant: the instance is not set running again. *)
ReopenedRuns(st, ts) == [st EXCEPT !.run = [t \in Tasks |-> IF t \in ts THEN "active" ELSE @[t]]]

Reopened(st, ts) ==
  LET again == {t \in ts : st.run[t] # "active"}
  IN IF again = {} THEN st
     ELSE [st EXCEPT !.inst = "running",
                     !.run = [t \in Tasks |-> IF t \in again THEN "active" ELSE @[t]]]

(* syncTaskToEngine, as decided on the rows st when the run is read. *)
GroupOver(st, t) == \A u \in Staged \ {t} : st.run[u] \in Closed

SyncOf(st, t, to) ==
  IF t \notin Staged \/ to = "none" THEN "none"
  ELSE IF to = "open" THEN IF st.run[t] = "active" THEN "none" ELSE "reopen"
  ELSE IF st.run[t] # "active" \/ st.inst # "running" THEN "none"
  ELSE IF GroupOver(st, t) THEN "end" ELSE "wait"

Synced(st, t, to, sync) ==
  LET concluded == [st EXCEPT !.run[t] = to]
  IN CASE sync = "none"   -> st
       [] sync = "reopen" -> Reopened(st, {t})
       [] sync = "wait"   -> concluded
       [] sync = "end"    -> Ended(concluded, "completed")

(***************************************************************************)
(* Sessions.                                                               *)
(***************************************************************************)
Idle == [op |-> "none"]
Session(op, ts, to) ==
  [op |-> op, tasks |-> ts, to |-> to, step |-> "begun", closes |-> {}, sync |-> "none", finish |-> FALSE]

Open == {c \in Sessions : session[c] # Idle}
TheTask(s) == CHOOSE t \in s.tasks : TRUE

HoldsTask(c, t) == session[c] # Idle /\ session[c].step # "begun" /\ t \in session[c].tasks
HoldsRun(c, t) == HoldsTask(c, t) /\ (session[c].op = "submit" \/ session[c].sync # "none")
SyncsFirst(c) == session[c].op \in {"update", "survey"} /\ session[c].sync # "none"
HoldsInstance(c) == session[c] # Idle /\ session[c].step = "read" /\ SyncsFirst(c)

Reopening(is) == is => reopens < MaxReopens

Begin(c, s) ==
  /\ session[c] = Idle
  /\ session' = [session EXCEPT ![c] = s]
  /\ reopens' = IF s.op = "update" /\ s.to = "open" THEN reopens + 1 ELSE reopens
  /\ UNCHANGED <<plan, db, late, unread, crossed, closedBy, stuckBy>>

BeginUpdate(c) ==
  /\ db.journey = "active"
  /\ \E t \in Tasks, to \in {"open"} \cup Closed :
       /\ db.task[t] \notin {"none", to}
       /\ ~(to = "done" /\ plan.kind[t] = "survey")
       /\ Reopening(to = "open")
       /\ Begin(c, Session("update", {t}, to))

(* The journey need not be active. One response per survey: a later one is refused. *)
BeginSurvey(c) ==
  \E t \in Of("survey") \cap plan.tasks :
    /\ t \notin db.answered
    /\ Begin(c, Session("survey", {t}, IF db.task[t] = "open" THEN "done" ELSE "none"))

(* The form of a stage, submitted from its link: forms.submit holds the response. *)
BeginSubmit(c) ==
  \E t \in Of("form") \cap Staged :
    /\ db.run[t] = "active"
    /\ \A d \in Open : ~(session[d].op = "submit" /\ session[d].tasks = {t})
    /\ Begin(c, Session("submit", {t}, "done"))

BeginAdd(c) ==
  /\ db.journey = "active"
  /\ \E t \in Tasks \ plan.tasks :
       /\ db.task[t] = "none"
       /\ \A d \in Open : ~(session[d].op = "add" /\ session[d].tasks = {t})
       /\ Begin(c, Session("add", {t}, "open"))

(* The worker reads the active journeys and their open tasks; those that ask for an
   objective are closed if the person has one. *)
BeginDaily ==
  /\ db.journey = "active"
  /\ \E ts \in {{}, {t \in Of("objective") : db.task[t] = "open"}} :
       Begin(Worker, Session("daily", ts, "done"))

(* The update of the task or of the run; what the engine has to do is decided then. *)
Marked(s) ==
  [s EXCEPT !.step = "marked",
     !.closes = CASE s.op = "submit" -> {t \in s.tasks : db.inst = "running" /\ db.task[t] = "open"}
                  [] s.op = "survey" /\ s.to = "none" -> {}
                  [] OTHER -> s.tasks,
     !.sync = CASE s.op = "daily" -> "none"
                [] s.op = "submit" -> IF db.inst = "running" THEN "wait" ELSE "none"
                [] OTHER -> SyncOf(db, TheTask(s), s.to)]

Mark(c) ==
  /\ session[c] # Idle /\ session[c].op \in {"update", "survey", "submit", "daily"}
  /\ session[c].step = "begun"
  /\ \A d \in Open \ {c} : \A t \in session[c].tasks : ~HoldsTask(d, t)
  /\ session[c].op = "survey" => session[c].tasks \cap db.answered = {}
  /\ session' = [session EXCEPT ![c] = Marked(@)]
  /\ UNCHANGED <<plan, db, reopens, late, unread, crossed, closedBy, stuckBy>>

(* The update of the instance, one session at a time, and then afterProgress, or the
   last loop of the worker, which does not look at the status of the journey again. A
   submission reads the progress first and only then the runs of the group. *)
TasksOf(s) == [t \in Tasks |-> IF t \in s.closes THEN s.to ELSE db.task[t]]

(* Mutants: the request does not see its own update; the job looks only at the journeys
   whose tasks it has just closed. *)
FinishesBefore(s) ==
  /\ s.op # "daily" => db.journey = "active"
  /\ s.op = "submit" => s.closes # {}
  /\ JourneyComplete(IF s.op = "daily" THEN TasksOf(s) ELSE db.task)
FinishesOwn(s) ==
  /\ s.op # "daily" => db.journey = "active"
  /\ s.op \in {"submit", "daily"} => s.closes # {}
  /\ JourneyComplete(TasksOf(s))

Finishes(s) ==
  /\ s.op # "daily" => db.journey = "active"
  /\ s.op = "submit" => s.closes # {}
  /\ JourneyComplete(TasksOf(s))

ReadProgress(c) ==
  /\ session[c] # Idle /\ session[c].step = "marked"
  /\ SyncsFirst(c) => \A d \in Open \ {c} : ~HoldsInstance(d)
  /\ session' = [session EXCEPT
       ![c].step = "read",
       ![c].finish = Finishes(session[c]),
       ![c].sync = IF session[c].op = "submit" /\ @ = "wait" /\ GroupOver(db, TheTask(session[c]))
                   THEN "end" ELSE @]
  /\ unread' = unread \ {c}
  /\ UNCHANGED <<plan, db, reopens, late, crossed, closedBy, stuckBy>>

After(s) ==
  LET own == [db EXCEPT !.task = TasksOf(s),
                        !.answered = IF s.op = "survey" THEN @ \cup s.tasks ELSE @,
                        !.run = [t \in Tasks |-> IF s.op = "submit" /\ t \in s.tasks THEN "done" ELSE @[t]]]
      synced == IF s.sync = "none" THEN own ELSE Synced(own, TheTask(s), s.to, s.sync)
  IN CASE s.op = "add" -> [db EXCEPT !.task[TheTask(s)] = "open"]
       [] s.op = "daily" /\ s.finish -> [own EXCEPT !.journey = "completed"]
       [] s.op \notin {"add", "journey", "daily"} /\ s.finish ->
            [EndedIfRunning(synced, "completed") EXCEPT !.journey = "completed"]
       [] OTHER -> synced

IsStuck(st) == st.journey = "active" /\ JourneyComplete(st.task)

(* A row written waits for the session that holds it; where the two wait for each other
   one is the victim of the deadlock (Abort). *)
Publish(c, after, writesInstance, who) ==
  /\ \A d \in Open \ {c} :
       /\ writesInstance \/ after.inst # db.inst => ~HoldsInstance(d)
       /\ \A t \in Tasks : HoldsRun(d, t) => after.run[t] = db.run[t]
  /\ db' = after
  /\ late' = (late \cup Open) \ {c}
  /\ unread' = (unread \ {c}) \cup {d \in Open \ {c} : session[d].step = "read"}
  /\ crossed' = (crossed \/ c \in late)
  /\ closedBy' = IF after.journey = db.journey THEN closedBy
                 ELSE IF after.journey = "active" THEN "nobody" ELSE who
  /\ stuckBy' = IF ~IsStuck(after) THEN "nobody" ELSE IF IsStuck(db) THEN stuckBy
                ELSE IF c \in unread THEN "blind" ELSE who

Commit(c) ==
  LET s == session[c]
  IN /\ s # Idle /\ (s.step = "read" \/ s.op = "add")
     /\ Publish(c, After(s), s.sync # "none", IF s.op = "daily" THEN "worker" ELSE "progress")
     /\ session' = [session EXCEPT ![c] = Idle]
     /\ UNCHANGED <<plan, reopens>>

(* updateJourney, in one step: HR completes, cancels or reactivates. *)
UpdateJourney(c) ==
  /\ session[c] = Idle
  /\ \E to \in {"active", "completed", "cancelled"} \ {db.journey} :
       /\ Reopening(to = "active")
       /\ reopens' = IF to = "active" THEN reopens + 1 ELSE reopens
       /\ LET followed == CASE ~plan.engine -> db
                            [] plan.engine /\ to = "active" -> Reopened(db, {t \in Staged : db.task[t] = "open"})
                            [] plan.engine /\ to # "active" -> EndedIfRunning(db, to)
          IN Publish(c, [followed EXCEPT !.journey = to], plan.engine, "hr")
  /\ UNCHANGED <<plan, session>>

Abort(c) ==
  /\ session[c] # Idle
  /\ session' = [session EXCEPT ![c] = Idle]
  /\ late' = late \ {c} /\ unread' = unread \ {c}
  /\ UNCHANGED <<plan, db, reopens, crossed, closedBy, stuckBy>>

Init ==
  /\ plan \in Templates
  /\ db = [journey |-> "active", inst |-> IF plan.engine THEN "running" ELSE "none", answered |-> {},
           task |-> [t \in Tasks |-> IF t \in plan.tasks THEN "open" ELSE "none"],
           run |-> [t \in Tasks |-> IF t \in Staged THEN "active" ELSE "none"]]
  /\ session = [c \in Sessions |-> Idle]
  /\ late = {}
  /\ unread = {}
  /\ reopens = 0
  /\ crossed = FALSE
  /\ closedBy = "nobody"
  /\ stuckBy = "nobody"

Request(c) ==
  \/ BeginUpdate(c) \/ BeginSurvey(c) \/ BeginSubmit(c) \/ BeginAdd(c) \/ UpdateJourney(c)

Step(c) == Mark(c) \/ ReadProgress(c) \/ Commit(c)

Next ==
  \/ BeginDaily
  \/ \E c \in Sessions : Step(c)
  \/ \E c \in Connections : Request(c) \/ Abort(c)

Fairness ==
  /\ WF_vars(BeginDaily)
  /\ SF_vars(Mark(Worker)) /\ WF_vars(ReadProgress(Worker)) /\ SF_vars(Commit(Worker))
  /\ \A c \in Connections : WF_vars(Commit(c) \/ Abort(c))

Spec == Init /\ [][Next]_vars /\ Fairness

(***************************************************************************)
(* Properties.                                                             *)
(***************************************************************************)
(* Every task of the template has a status, and a run exactly if it is one of its stages. *)
TypeOK ==
  /\ plan \in Templates
  /\ db.journey \in {"active", "completed", "cancelled"}
  /\ db.inst \in {"none", "running", "completed", "cancelled"}
  /\ db.answered \subseteq Of("survey")
  /\ db.task \in [Tasks -> {"none", "open"} \cup Closed]
  /\ db.run \in [Tasks -> {"none", "active"} \cup Closed]
  /\ \A t \in Tasks : (t \in plan.tasks => db.task[t] # "none") /\ (db.run[t] = "none" <=> t \notin Staged)
  /\ reopens \in 0..MaxReopens
  /\ unread \subseteq late /\ late \subseteq Open

(* Tasks that reach the engine without holding the row of the instance first. *)
Loose == (Tasks \ Staged) \cup Of("form") \cup Of("objective")

(* An active journey has a required task open, unless HR has just reopened it or the
   request that closed the last one read the others before another's commit; the row of
   the instance excludes that where every task is an approval or survey of the template and
   nothing was reopened. *)
NobodyForgets == Stuck => \/ stuckBy = "hr"
                          \/ stuckBy = "blind" /\ (Loose # {} \/ reopens > 0)

(* Whoever has a task of the template to do is asked by the engine. *)
OpenTasksAsk ==
  ~crossed /\ db.journey = "active" =>
    \A t \in Staged : db.task[t] = "open" => db.inst = "running" /\ db.run[t] = "active"

(* The engine asks nothing of a closed journey, unless the worker closed it. *)
InstanceFollows ==
  ~crossed /\ db.journey # "active" /\ closedBy # "worker" =>
    db.inst # "running" /\ \A t \in Tasks : db.run[t] # "active"

(* A journey completes by itself only with nothing required left to do. *)
CompletedIsDone ==
  ~crossed /\ closedBy \in {"progress", "worker"} => \A t \in plan.required : db.task[t] # "open"

(* What the requests miss, the daily job repairs. *)
EventuallyCloses == Stuck ~> ~Stuck
=============================================================================
