----------------------------- MODULE AppEngine -----------------------------
(***************************************************************************)
(* An instance of a workflow of App Studio: the engine of                  *)
(* apps.service.ts with the pure functions of shared/src/apps/engine.ts.   *)
(* A stage is its position in the definition; a run is an attempt at it.   *)
(* A request is a session of three steps, as PostgreSQL's READ COMMITTED   *)
(* lets them interleave: its checks, the update of its own run (whose row  *)
(* it then holds) with the reads that follow, and its other writes with    *)
(* the commit.                                                             *)
(***************************************************************************)
EXTENDS Integers, Sequences, FiniteSets, SequencesExt

CONSTANTS Definitions,  \* definitions of workflows, each a sequence of stages
          Connections,  \* the transactions that may be open together
          MaxAttempts,  \* bound on the attempts at a stage
          MaxTurns      \* bound on the stages that one request activates

VARIABLES definition, \* the snapshot that the instance took at its launch
          inst,       \* the instance: status, outcome, current stages, runs by stage
          session,    \* the open transaction of each connection
          late,       \* history: connections that another commit has overtaken
          overtaken   \* history: an overtaken transaction has committed

vars == <<definition, inst, session, late, overtaken>>

End == 0      \* the target of a transition that ends the workflow
NoExit == -1  \* no transition of the stage matches
None == 0     \* no parallel group, no stage to send back to

StageTypes == {"form", "approval", "auto"}
RunStatuses == {"pending", "active", "done", "rejected", "skipped", "superseded"}

(***************************************************************************)
(* What the validator accepts. Groups are of consecutive stages.           *)
(***************************************************************************)
Stages(d) == DOMAIN d
GroupOf(d, i) == IF d[i].group = None THEN {i} ELSE {j \in Stages(d) : d[j].group = d[i].group}
Parallel(d, i) == d[i].group # None

StageType == [type : StageTypes, group : Nat, rejectTo : Nat, exits : SUBSET Nat]

WellFormed(d) ==
  /\ d \in Seq(StageType) \ {<<>>}
  /\ \A i \in Stages(d) :
       /\ d[i].exits \subseteq Stages(d) \cup {End}
       /\ d[i].rejectTo # None => d[i].type = "approval" /\ d[i].rejectTo \in 1..(i - 1) /\ ~Parallel(d, i)
       /\ \A j, k \in GroupOf(d, i) : \A m \in j..k : m \in GroupOf(d, i)

ASSUME DefinitionsAssumption == \A d \in Definitions : WellFormed(d)
ASSUME BoundAssumption == MaxAttempts \in Nat \ {0} /\ MaxTurns \in Nat

(* The transitions that may match when a stage is concluded: a form's answers
   choose among its exits or none; elsewhere the first exit matches the outcome. *)
Matching(stage) == IF stage.type = "form" THEN stage.exits \cup {NoExit}
                   ELSE IF stage.exits = {} THEN {NoExit} ELSE stage.exits

(***************************************************************************)
(* Runs, and what comes after a stage.                                     *)
(***************************************************************************)
(* Mutant: the first attempt instead of the latest. *)
Earliest(runs, i) == Head(runs[i])

Latest(runs, i) == Last(runs[i])
RunsIn(runs, i, status) == {a \in DOMAIN runs[i] : runs[i][a] = status}
Active(st) == {i \in DOMAIN st.runs : RunsIn(st.runs, i, "active") # {}}

Wait == [kind |-> "wait", stage |-> None]
Ended == [kind |-> "end", stage |-> None]
Onto(i) == [kind |-> "activate", stage |-> i]

(* Mutant: the rest of the group is not awaited. *)
AfterAnyDone(d, runs, i, exit) ==
  LET group == GroupOf(d, i)
      next == 1 + CHOOSE j \in group : \A k \in group : k <= j
  IN IF exit # NoExit THEN (IF exit = End THEN Ended ELSE Onto(exit))
     ELSE IF next \notin Stages(d) THEN Ended ELSE Onto(next)

AfterStageDone(d, runs, i, exit) ==
  LET group == GroupOf(d, i)
      next == 1 + CHOOSE j \in group : \A k \in group : k <= j
  IN IF exit # NoExit THEN (IF exit = End THEN Ended ELSE Onto(exit))
     ELSE IF \E j \in group : Latest(runs, j) \notin {"done", "skipped"} THEN Wait
     ELSE IF next \notin Stages(d) THEN Ended ELSE Onto(next)

(* Mutants: active runs are left; every run is skipped. *)
CompleteLess(st, outcome) ==
  [status |-> "completed", outcome |-> outcome, current |-> {},
   runs |-> [i \in DOMAIN st.runs |-> [a \in DOMAIN st.runs[i] |->
               IF st.runs[i][a] = "pending" THEN "skipped" ELSE st.runs[i][a]]]]
CompleteAll(st, outcome) ==
  [status |-> "completed", outcome |-> outcome, current |-> {},
   runs |-> [i \in DOMAIN st.runs |-> [a \in DOMAIN st.runs[i] |-> "skipped"]]]

Complete(st, outcome) ==
  [status |-> "completed", outcome |-> outcome, current |-> {},
   runs |-> [i \in DOMAIN st.runs |-> [a \in DOMAIN st.runs[i] |->
               IF st.runs[i][a] \in {"pending", "active"} THEN "skipped" ELSE st.runs[i][a]]]]

(* activate takes up the latest pending attempt, or adds one. *)
Opened(st, i, status) ==
  LET pending == RunsIn(st.runs, i, "pending")
  IN [st EXCEPT !.runs[i] =
        IF pending = {} THEN Append(@, status)
        ELSE [@ EXCEPT ![CHOOSE a \in pending : \A b \in pending : b <= a] = status]]

(* activate and advance call each other where a stage is automatic. "todo" is what is
   left to activate, in order: what an automatic stage leads to comes before the rest of
   its own group. "seen" is what advance reads of the instance. *)
Still(st) == [inst |-> st, todo |-> <<>>]

Activating(d, st, i) ==
  LET group == GroupOf(d, i)
      first == CHOOSE j \in group : \A k \in group : j <= k
  IN [inst |-> [st EXCEPT !.current = group], todo |-> [n \in 1..Cardinality(group) |-> first + n - 1]]

Advance(d, st, seen, i, exit) ==
  LET next == AfterStageDone(d, seen.runs, i, exit)
  IN CASE seen.status # "running" -> Still(st)
       [] seen.status = "running" /\ next.kind = "wait" -> Still([st EXCEPT !.current = seen.current \ {i}])
       [] seen.status = "running" /\ next.kind = "end" -> Still(Complete(st, "completed"))
       [] seen.status = "running" /\ next.kind = "activate" -> Activating(d, st, next.stage)

(* One stage of the loop of activate: an automatic one is concluded at once. *)
Turn(d, s) ==
  LET i == Head(s.todo)
      done == Opened(s.inst, i, "done")
      after == Advance(d, done, done, i, CHOOSE e \in Matching(d[i]) : TRUE)
  IN CASE s.todo = <<>> -> s
       [] s.todo # <<>> /\ d[i].type # "auto" -> [inst |-> Opened(s.inst, i, "active"), todo |-> Tail(s.todo)]
       [] s.todo # <<>> /\ d[i].type = "auto" -> [after EXCEPT !.todo = @ \o Tail(s.todo)]

Settled(d, s) ==
  LET turns[n \in 0..MaxTurns] == IF n = 0 THEN s ELSE Turn(d, turns[n - 1])
  IN turns[MaxTurns]

(* rejectPlan and what decideInternal does with it: the stages between get a new
   attempt to come, those to reopen are superseded and activated again. *)
Superseded(run, keep) == [run EXCEPT ![Len(run)] = IF @ \in keep THEN @ ELSE "superseded"]

Planned(d, runs, i) ==
  LET reopen == GroupOf(d, d[i].rejectTo)
      between == (d[i].rejectTo..i) \ reopen
  IN [j \in Stages(d) |->
        CASE j \in between -> Append(Superseded(runs[j], {"rejected"}), "pending")
          [] j \in reopen -> Superseded(runs[j], RunStatuses \ {"done", "active"})
          [] OTHER -> runs[j]]

SentBack(d, st, i) == Activating(d, [st EXCEPT !.runs = Planned(d, @, i)], d[i].rejectTo)

Launched(d) ==
  Activating(d, [status |-> "running", outcome |-> "none", current |-> {},
                 runs |-> [i \in Stages(d) |-> <<"pending">>]], 1)

(***************************************************************************)
(* Transactions.                                                           *)
(***************************************************************************)
Idle == [op |-> "none"]
Open == {c \in Connections : session[c] # Idle}
Held(c) == {<<session[d].stage, session[d].attempt>> : d \in {e \in Open \ {c} : session[e].marked}}

Request(op, i, a, exit) ==
  [op |-> op, stage |-> i, attempt |-> a, exit |-> exit, marked |-> FALSE, seen |-> Idle]

Begin(c, request) ==
  /\ session[c] = Idle
  /\ session' = [session EXCEPT ![c] = request]
  /\ UNCHANGED <<definition, inst, late, overtaken>>

(* forms.submit holds the row of the response before onFormSubmitted looks at the run. *)
BeginSubmit(c) ==
  \E i \in Stages(definition) : \E a \in RunsIn(inst.runs, i, "active"), exit \in Matching(definition[i]) :
    /\ definition[i].type = "form"
    /\ \A d \in Open : ~(session[d].op = "submit" /\ session[d].stage = i /\ session[d].attempt = a)
    /\ Begin(c, Request("submit", i, a, exit))

BeginDecide(c) ==
  \E i \in Stages(definition) : \E a \in RunsIn(inst.runs, i, "active"), exit \in Matching(definition[i]) :
    /\ definition[i].type = "approval"
    /\ inst.status = "running"
    /\ \E op \in {"approve", "reject"} : Begin(c, Request(op, i, a, exit))

BeginCancel(c) == inst.status = "running" /\ Begin(c, Request("cancel", 1, 0, NoExit))

Outcome(op) == IF op = "reject" THEN "rejected" ELSE "done"
Concluded(st, s) == [st EXCEPT !.runs[s.stage][s.attempt] = Outcome(s.op)]

(* The update of the run, which waits for whoever holds the row, and the reads after it. *)
Mark(c) ==
  /\ session[c] # Idle /\ session[c].op # "cancel" /\ ~session[c].marked
  /\ <<session[c].stage, session[c].attempt>> \notin Held(c)
  /\ session' = [session EXCEPT ![c] = [@ EXCEPT !.marked = TRUE, !.seen = Concluded(inst, session[c])]]
  /\ UNCHANGED <<definition, inst, late, overtaken>>

Cancelled(st) == [Complete(st, "none") EXCEPT !.status = "cancelled"]

Effect(s) ==
  LET mine == Concluded(inst, s)
  IN CASE s.op = "cancel" -> Still(Cancelled(inst))
       [] s.op \in {"submit", "approve"} -> Advance(definition, mine, s.seen, s.stage, s.exit)
       [] s.op = "reject" /\ definition[s.stage].rejectTo # None -> SentBack(definition, mine, s.stage)
       [] s.op = "reject" /\ definition[s.stage].rejectTo = None -> Still(Complete(mine, "rejected"))

(* A transaction cannot write a run that another holds: it waits, or one of the two
   is the victim of a deadlock (Abort). *)
Commit(c) ==
  /\ session[c] # Idle /\ (session[c].marked \/ session[c].op = "cancel")
  /\ LET after == Settled(definition, Effect(session[c]))
     IN /\ after.todo = <<>>
        /\ \A i \in Stages(definition) : Len(after.inst.runs[i]) <= MaxAttempts
        /\ \A r \in Held(c) : after.inst.runs[r[1]][r[2]] = inst.runs[r[1]][r[2]]
        /\ inst' = after.inst
  /\ session' = [session EXCEPT ![c] = Idle]
  /\ late' = (late \cup Open) \ {c}
  /\ overtaken' = (overtaken \/ c \in late)
  /\ UNCHANGED definition

Abort(c) ==
  /\ session[c] # Idle
  /\ session' = [session EXCEPT ![c] = Idle]
  /\ late' = late \ {c}
  /\ UNCHANGED <<definition, inst, overtaken>>

Init ==
  /\ definition \in Definitions
  /\ LET launch == Settled(definition, Launched(definition))
     IN launch.todo = <<>> /\ inst = launch.inst
  /\ session = [c \in Connections |-> Idle]
  /\ late = {}
  /\ overtaken = FALSE

Next == \E c \in Connections :
  \/ BeginSubmit(c) \/ BeginDecide(c) \/ BeginCancel(c)
  \/ Mark(c) \/ Commit(c) \/ Abort(c)

Spec == Init /\ [][Next]_vars

(***************************************************************************)
(* Types.                                                                  *)
(***************************************************************************)
InstanceType(d) ==
  [status : {"running", "completed", "cancelled"}, outcome : {"none", "completed", "rejected"},
   current : SUBSET Stages(d), runs : [Stages(d) -> Seq(RunStatuses) \ {<<>>}]]

SessionType(d) ==
  [op : {"submit", "approve", "reject", "cancel"}, stage : Stages(d), attempt : Nat,
   exit : Stages(d) \cup {End, NoExit}, marked : BOOLEAN, seen : InstanceType(d) \cup {Idle}]

TypeOK ==
  /\ definition \in Definitions
  /\ inst \in InstanceType(definition)
  /\ session \in [Connections -> SessionType(definition) \cup {Idle}]
  /\ late \subseteq Open
  /\ overtaken \in BOOLEAN

(***************************************************************************)
(* Properties.                                                             *)
(***************************************************************************)

(* A running instance has a run that somebody can conclude. If it has none, two
   transactions concluded the last stages of a parallel group together, each seeing
   the other's as active: the group is done and nobody went on. *)
SomebodyActs ==
  inst.status = "running" /\ Active(inst) = {} =>
    /\ overtaken
    /\ \E i \in Stages(definition) :
         /\ Cardinality(GroupOf(definition, i)) > 1
         /\ \A j \in GroupOf(definition, i) : Latest(inst.runs, j) \in {"done", "skipped"}

(* A stage of a group that may leave it: the others stay open behind the workflow. *)
Leaves(d) == \E i \in Stages(d) : Parallel(d, i) /\ d[i].exits # {}

(* A group with an automatic stage that is entered again over a transition, which supersedes
   nothing: the automatic stage finds the others done, as they were the last time, and
   activate goes on with the rest of the group after the workflow has moved away. *)
Automatic(d) == {i \in Stages(d) : d[i].type = "auto" /\ Parallel(d, i)}
Returns(d) ==
  \E i \in Automatic(d), k \in Stages(d) : \E j, m \in GroupOf(d, i), exit \in d[k].exits \ {End} :
    j <= k /\ exit <= m

Plain(d) == ~Leaves(d) /\ ~Returns(d)

(* Nobody is asked anything by an instance that is over, nor will be. *)
OverIsQuiet ==
  inst.status # "running" /\ ~overtaken /\ (Automatic(definition) = {} \/ Plain(definition)) =>
    \A i \in Stages(definition) : \A a \in DOMAIN inst.runs[i] : inst.runs[i][a] \notin {"pending", "active"}

(* The work is in one place: the stages with an active run are the current ones, each
   once, all of one group, whatever rejections and transitions led there. *)
OneFront ==
  ~overtaken /\ Plain(definition) =>
    /\ Active(inst) = inst.current
    /\ \A i \in inst.current : /\ Cardinality(RunsIn(inst.runs, i, "active")) = 1
                               /\ inst.current \subseteq GroupOf(definition, i)

(* What somebody decided stands: a concluded run changes only by being superseded, and
   no run that is over is active again. *)
DecisionsStand ==
  [][~overtaken' => \A i \in Stages(definition) : \A a \in DOMAIN inst.runs[i] :
       inst.runs[i][a] \notin {"pending", "active"} => inst'.runs[i][a] \in {inst.runs[i][a], "superseded"}]_vars
=============================================================================
