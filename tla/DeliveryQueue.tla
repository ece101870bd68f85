------------------------------ MODULE DeliveryQueue ------------------------------
(***************************************************************************)
(* The three outgoing queues and the jobs that empty them: dispatchEmails, *)
(* dispatchWebhooks and dispatchChat.  A job reads the due rows once, then *)
(* handles them one by one; each call to a provider and each update of a   *)
(* row is a step, and between any two of them another run of the same job  *)
(* may work on the same rows, or the worker may die.  The three jobs never *)
(* touch each other's rows: kind says which of them a behaviour is about.  *)
(***************************************************************************)
EXTENDS Integers, FiniteSets, Functions, FiniteSetsExt

CONSTANTS
    Rows,        \* rows of the queue, numbered in the order of createdAt
    Runs,        \* runs of the job that may be under way at once
    Kinds,       \* the jobs considered, among "email", "webhook" and "chat"
    Scheduler,   \* "timers" without REDIS_URL, "bullmq" with it, "once" from cron
    Bound,       \* webhooks of a workflow instance; messages for the Slack workspace
    Batch,       \* most rows one run takes (50)
    MaxAttempts, \* attempts before giving up (5)
    MaxAborts    \* bound: runs cut short by an exception or by the worker's death

ASSUME QueueAssumption ==
    /\ Rows \subseteq Nat
    /\ Kinds \subseteq {"email", "webhook", "chat"}
    /\ Scheduler \in {"timers", "bullmq", "once"}
    /\ MaxAttempts \in Nat \ {0, 1}
    /\ Batch \in Nat \ {0}
    /\ MaxAborts \in Nat

VARIABLES
    kind,                   \* the job, one of Kinds for the whole behaviour
    status, attempts, due,  \* the rows: due stands for "scheduledFor <= now"
    workspace,              \* the Slack workspace: "active", "error" or "absent"
    logged,                 \* events in the instance log, per row and outcome
    run,                    \* the runs under way
    tries, accepted, refused,  \* the providers' side of the story
    aborts

vars == <<kind, status, attempts, due, workspace, logged, run, tries, accepted, refused, aborts>>

Off == [phase |-> "off"]
Outcomes == {"sent", "failed"}

-------------------------------------------------------------------------------
(* Filling the queue *)

\* notify and enqueueRecognition insert a row that is due at once; the webhook
\* actions insert one whose first attempt, made by the request itself, failed.
FirstAttempts == IF kind = "webhook" THEN 1 ELSE 0
Enqueue(r) ==
    /\ status[r] = "none"
    /\ kind = "chat" /\ r \in Bound => workspace = "active"
    /\ status' = [status EXCEPT ![r] = "pending"]
    /\ attempts' = [attempts EXCEPT ![r] = FirstAttempts]
    /\ due' = [due EXCEPT ![r] = kind # "webhook"]
    /\ tries' = [tries EXCEPT ![r] = FirstAttempts]
    /\ \E a \in 0 .. FirstAttempts : accepted' = [accepted EXCEPT ![r] = a]
    /\ UNCHANGED <<kind, workspace, logged, run, refused, aborts>>

\* The back-off of a row runs out.
Elapse(r) ==
    /\ status[r] = "pending" /\ ~ due[r]
    /\ due' = [due EXCEPT ![r] = TRUE]
    /\ UNCHANGED <<kind, status, attempts, workspace, logged, run, tries, accepted, refused, aborts>>

\* An administrator links the Slack workspace, or removes it.
Reconnect ==
    /\ workspace' = "active"
    /\ UNCHANGED <<kind, status, attempts, due, logged, run, tries, accepted, refused, aborts>>
Disconnect ==
    /\ workspace' = "absent"
    /\ UNCHANGED <<kind, status, attempts, due, logged, run, tries, accepted, refused, aborts>>

-------------------------------------------------------------------------------
(* A run of the job *)

\* With Redis only four jobs are scheduled, of which one empties a queue.
Scheduled == Scheduler = "bullmq" => kind = "email"

\* Mutant: rows already settled are taken again.
ReadyAgain == {r \in Rows : status[r] # "none" /\ due[r] /\ attempts[r] < MaxAttempts}
Ready == {r \in Rows : status[r] = "pending" /\ due[r] /\ attempts[r] < MaxAttempts}
Oldest(S) == {r \in S : Cardinality({q \in S : q < r}) < Batch}

\* A run that finds nothing to do ends at once.
Start(x) ==
    /\ Scheduled
    /\ run[x] = Off
    /\ Ready # {}
    /\ run' = [run EXCEPT ![x] = [phase |-> "next", todo |-> Oldest(Ready),
                                  seen |-> attempts]]
    /\ UNCHANGED <<kind, status, attempts, due, workspace, logged, tries, accepted, refused, aborts>>

Current(x) == Min(run[x].todo)
Attempt(x) == run[x].seen[Current(x)] + 1

\* What the call can come to: an answer may be lost after the provider acted.
\* A chat message is skipped when nobody is linked, and without a live workspace.
Answers(r) ==
    IF kind # "chat" THEN {"ok", "error", "lost"}
    ELSE IF r \in Bound /\ workspace # "active" THEN {"skip", "error"}
    ELSE {"ok", "error", "lost", "skip", "unauthorized"}

Call(x, answer) ==
    LET r == Current(x)
    IN
    /\ run[x].phase = "next"
    /\ answer \in Answers(r)
    /\ tries' = [tries EXCEPT ![r] = @ + 1]
    /\ accepted' = [accepted EXCEPT ![r] = IF answer \in {"ok", "lost"} THEN @ + 1 ELSE @]
    /\ refused' = IF answer = "unauthorized" THEN refused \cup {r} ELSE refused
    /\ run' = [run EXCEPT ![x] = [phase |-> "mark", todo |-> @.todo, seen |-> @.seen,
                                  answer |-> IF answer = "lost" THEN "error" ELSE answer]]
    /\ UNCHANGED <<kind, status, attempts, due, workspace, logged, aborts>>

\* After a row: the next one, or the end of the run.
Moved(x) ==
    LET rest == run[x].todo \ {Current(x)}
    IN  IF rest = {} THEN Off ELSE [phase |-> "next", todo |-> rest, seen |-> run[x].seen]

\* Mutant: the last attempt is not final.
OutcomeLate(answer, n) ==
    CASE answer = "ok" -> "sent"
      [] answer = "skip" -> "skipped"
      [] answer = "unauthorized" \/ n > MaxAttempts -> "failed"
      [] OTHER -> "pending"
\* Mutant: the last attempt counts as a success.
OutcomeHopeful(answer, n) ==
    CASE answer = "ok" \/ n >= MaxAttempts -> "sent"
      [] answer = "skip" -> "skipped"
      [] answer = "unauthorized" -> "failed"
      [] OTHER -> "pending"
\* Mutant: one attempt too few.
OutcomeEarly(answer, n) ==
    CASE answer = "ok" -> "sent"
      [] answer = "skip" -> "skipped"
      [] answer = "unauthorized" \/ n >= MaxAttempts - 1 -> "failed"
      [] OTHER -> "pending"
Outcome(answer, n) ==
    CASE answer = "ok" -> "sent"
      [] answer = "skip" -> "skipped"
      [] answer = "unauthorized" \/ n >= MaxAttempts -> "failed"
      [] OTHER -> "pending"

\* The row of a webhook is followed by an event in the log of its instance, once
\* the outcome is final; the refused message of a workspace by its suspension.
Follows(r, answer, outcome) ==
    /\ r \in Bound
    /\ \/ kind = "webhook" /\ outcome \in Outcomes
       \/ kind = "chat" /\ answer = "unauthorized"

\* The update of the row writes the number of attempts the run computed from
\* what it had read, whatever the row holds by now.
Mark(x) ==
    LET r == Current(x)
        answer == run[x].answer
        outcome == Outcome(answer, Attempt(x))
    IN
    /\ run[x].phase = "mark"
    /\ status' = [status EXCEPT ![r] = outcome]
    /\ attempts' = [attempts EXCEPT ![r] = Attempt(x)]
    /\ due' = [due EXCEPT ![r] = IF answer \in {"ok", "skip"} THEN @ ELSE FALSE]
    /\ run' = [run EXCEPT ![x] =
                IF Follows(r, answer, outcome)
                THEN [phase |-> "follow", todo |-> @.todo, seen |-> @.seen, outcome |-> outcome]
                ELSE Moved(x)]
    /\ UNCHANGED <<kind, workspace, logged, tries, accepted, refused, aborts>>

Follow(x) ==
    LET r == Current(x)
    IN
    /\ run[x].phase = "follow"
    /\ IF kind = "webhook"
       THEN /\ logged' = [logged EXCEPT ![r][run[x].outcome] = @ + 1]
            /\ UNCHANGED workspace
       ELSE /\ workspace' = IF workspace = "absent" THEN "absent" ELSE "error"
            /\ UNCHANGED logged
    /\ run' = [run EXCEPT ![x] = Moved(x)]
    /\ UNCHANGED <<kind, status, attempts, due, tries, accepted, refused, aborts>>

\* Emails and chat messages are marked inside the try: an update that fails
\* after the provider took the message counts as a failed attempt.
MarkFails(x) ==
    /\ kind # "webhook"
    /\ run[x].phase = "mark" /\ run[x].answer \in {"ok", "skip"}
    /\ run' = [run EXCEPT ![x].answer = "error"]
    /\ UNCHANGED <<kind, status, attempts, due, workspace, logged, tries, accepted, refused, aborts>>

\* Any other exception ends the run where it is, and so does the worker's death.
Abort(x) ==
    /\ run[x] # Off
    /\ aborts < MaxAborts
    /\ aborts' = aborts + 1
    /\ run' = [run EXCEPT ![x] = Off]
    /\ UNCHANGED <<kind, status, attempts, due, workspace, logged, tries, accepted, refused>>

-------------------------------------------------------------------------------
(* The specification *)

Init ==
    /\ kind \in Kinds
    /\ status = [r \in Rows |-> "none"]
    /\ attempts = [r \in Rows |-> 0]
    /\ due = [r \in Rows |-> FALSE]
    /\ workspace = "active"
    /\ logged = [r \in Rows |-> [o \in Outcomes |-> 0]]
    /\ run = [x \in Runs |-> Off]
    /\ tries = [r \in Rows |-> 0]
    /\ accepted = [r \in Rows |-> 0]
    /\ refused = {}
    /\ aborts = 0

Work(x) == (\E answer \in {"ok", "error", "lost", "skip", "unauthorized"} : Call(x, answer))
            \/ Mark(x) \/ Follow(x)

Next ==
    \/ \E r \in Rows : Enqueue(r) \/ Elapse(r)
    \/ kind = "chat" /\ (Reconnect \/ Disconnect)
    \/ \E x \in Runs : Start(x) \/ Work(x) \/ MarkFails(x) \/ Abort(x)

\* The timer starts the job again and again, a run goes on until it ends, and
\* back-offs run out.
Fairness ==
    /\ \A r \in Rows : WF_vars(Elapse(r))
    /\ \A x \in Runs : WF_vars(Start(x)) /\ WF_vars(Work(x))

Spec == Init /\ [][Next]_vars /\ Fairness

-------------------------------------------------------------------------------
(* Properties *)

Seen == [Rows -> 0 .. MaxAttempts]
RunType ==
    {Off}
    \cup [phase : {"next"}, todo : SUBSET Rows, seen : Seen]
    \cup [phase : {"mark"}, todo : SUBSET Rows, seen : Seen,
          answer : {"ok", "error", "skip", "unauthorized"}]
    \cup [phase : {"follow"}, todo : SUBSET Rows, seen : Seen, outcome : Outcomes]

\* Rows and runs have their types: no attempt count passes the maximum.
TypeOK ==
    /\ kind \in Kinds
    /\ status \in [Rows -> {"none", "pending", "sent", "failed", "skipped"}]
    /\ attempts \in [Rows -> 0 .. MaxAttempts]
    /\ due \in [Rows -> BOOLEAN]
    /\ workspace \in {"active", "error", "absent"}
    /\ logged \in [Rows -> [Outcomes -> Nat]]
    /\ tries \in [Rows -> Nat]
    /\ accepted \in [Rows -> Nat]
    /\ refused \subseteq Rows
    /\ aborts \in 0 .. MaxAborts
    /\ run \in [Runs -> RunType]

\* A row stands as sent only if its provider took it: no error path, lost answer
\* or second run ever turns a message nobody received into a sent one.
SentWasAccepted == \A r \in Rows : status[r] = "sent" => accepted[r] > 0

\* Nobody gives up early: a row stands as failed only after as many attempts as
\* the code allows, all of them really made, or after the provider refused it.
GivesUpLate ==
    \A r \in Rows :
        /\ attempts[r] <= tries[r]
        /\ status[r] = "failed" => attempts[r] = MaxAttempts \/ r \in refused

\* The log of an instance tells how the delivery ended, once: never two outcomes,
\* never one the row does not have.
LogTellsOutcome ==
    \A r \in Rows, o \in Outcomes :
        logged[r][o] > 0 => status[r] = o /\ logged[r][o] = 1

\* Whatever is queued is settled in the end, sent or given up.
IsSettled == \A r \in Rows : status[r] = "pending" ~> status[r] \in {"sent", "failed", "skipped"}

\* A run that has the queue for itself keeps the promise of the abstract queue.
Promise == INSTANCE Outbox WITH state <- status
KeepsPromise == Promise!Spec

===============================================================================
