------------------------------ MODULE ReviewCycle ------------------------------
(***************************************************************************)
(* A review cycle: the reviews of its people (reviews.service.ts), the     *)
(* workflow instance behind each of them (apps.service.ts, through the     *)
(* definition that review-bridge.ts builds), and the calibration sessions  *)
(* in which ratings are compared before they are shared                    *)
(* (calibration.service.ts).  Every handler is one step: it runs in one    *)
(* database transaction.                                                   *)
(*                                                                         *)
(* A stage is its position in the definition.  Of the attempts at a stage  *)
(* only the latest is kept: all the code looks at, since a superseded one  *)
(* is never taken up again.                                                *)
(***************************************************************************)
EXTENDS Integers, FiniteSets

CONSTANTS
    Reviews,       \* one per person the population may include
    Sessions,      \* calibration sessions
    Templates,     \* review templates: [self, steps, sign]
    Ratings,       \* ratings on the template's scale
    OffScale,      \* numbers that are not on it
    None

ASSUME TemplatesAssumption ==
    Templates \subseteq [self : BOOLEAN, steps : Nat, sign : BOOLEAN]
ASSUME RatingsAssumption == None \notin Ratings \cup OffScale \cup Sessions

VARIABLES
    cycle,       \* review_cycles.status
    template,    \* the template the cycle is launched with
    review,      \* review[r]: the row of reviews
    inst,        \* inst[r]: the workflow instance of the review and its stage runs
    calibration, \* calibration[c]: status of the session
    signedOff,   \* history: approval steps given since the manager's last evaluation
    corrected    \* history: has the rating been corrected, on record, since then

vars == <<cycle, template, review, inst, calibration, signedOff, corrected>>

-------------------------------------------------------------------------------
(* The stages of an instance *)

Self == 0
Manager == 1
Share == template.steps + 2
Sign == template.steps + 3
Approvals == 2 .. (template.steps + 1)

Stages == (IF template.self THEN {Self} ELSE {}) \cup (1 .. Share)
          \cup (IF template.sign THEN {Sign} ELSE {})

\* The self-assessment and the manager's evaluation are open at the same time.
Group(s) == IF s \in {Self, Manager} THEN Stages \cap {Self, Manager} ELSE {s}
After(s) == IF s \in {Self, Manager} THEN Manager + 1 ELSE s + 1

RunStatus == {"pending", "active", "done", "rejected", "skipped"}
Outcomes == {"completed", "closed", "cancelled"}
Instances == [state : {"none", "running"} \cup Outcomes, run : [Stages -> RunStatus]]

Ran(e, s, status) == [e EXCEPT !.run = [e.run EXCEPT ![s] = status]]

\* An attempt that is not pending gives way to a new one.
Activated(e, keys) ==
    [e EXCEPT !.run = [s \in Stages |-> IF s \in keys THEN "active" ELSE e.run[s]]]

Completed(e, outcome) ==
    [state |-> outcome,
     run |-> [s \in Stages |-> IF e.run[s] \in {"pending", "active"} THEN "skipped"
                                                                     ELSE e.run[s]]]

\* Stage s has just been concluded: is its whole group?
GroupOver(e, s) == \A g \in Group(s) : e.run[g] \in {"done", "skipped"}

\* Mutant: the instance goes on from the first stage not concluded, so a step that had
\* approved an earlier evaluation is not asked again.
AdvancedSkipping(e, s) ==
    LET open == {t \in Stages : t > s /\ e.run[t] # "done"}
        next == CHOOSE t \in open : \A u \in open : t <= u
    IN  IF e.state # "running" \/ ~GroupOver(e, s) THEN e
        ELSE IF open # {} THEN Activated(e, {next})
        ELSE Completed(e, "completed")

\* Wait for the rest of the group, open the next stage, or end the instance.
Advanced(e, s) ==
    IF e.state # "running" \/ ~GroupOver(e, s) THEN e
    ELSE IF After(s) \in Stages THEN Activated(e, {After(s)})
    ELSE Completed(e, "completed")

Decided(e, s) == Advanced(Ran(e, s, "done"), s)

\* Share and signature are decided on the instance only if their stage is open.
DecidedIfOpen(e, s) == IF s \in Stages /\ e.run[s] = "active" THEN Decided(e, s) ELSE e

\* The target and what follows start over; the target's group is opened again.
Reopened(e, target) ==
    Activated([state |-> "running",
               run |-> [s \in Stages |-> IF s >= target THEN "pending" ELSE e.run[s]]],
              {s \in Group(target) : s >= target})

-------------------------------------------------------------------------------
(* The rows of reviews *)

Final == {"shared", "signed", "closed", "cancelled"}
Pending == {"pending_self", "pending_manager", "pending_approval", "pending_share"}
Rated == {"pending_approval", "pending_share", "shared", "signed", "closed"}
Values == Ratings \cup OffScale \cup {None}

Rows == [status : {"none"} \cup Pending \cup Final,
         selfAt : BOOLEAN, managerAt : BOOLEAN, sharedAt : BOOLEAN, signedAt : BOOLEAN,
         proposed : Values, final : Values, session : Sessions \cup {None}]

Launched(r) == review[r].status # "none"

NewRow(status) ==
    [status |-> status, selfAt |-> FALSE, managerAt |-> FALSE, sharedAt |-> FALSE,
     signedAt |-> FALSE, proposed |-> None, final |-> None, session |-> None]

\* What a review waits for, by the dates on its row.
StatusFor(row) ==
    IF row.status \in Final THEN row.status
    ELSE IF template.self /\ ~row.selfAt THEN "pending_self"
    ELSE IF ~row.managerAt THEN "pending_manager"
    ELSE "pending_share"

\* applySubmission: the form of stage s has been submitted, with the rating in it.
Submitted(row, s, rating) ==
    LET dated == IF s = Self THEN [row EXCEPT !.selfAt = TRUE]
                 ELSE [row EXCEPT !.managerAt = TRUE, !.proposed = rating, !.final = rating]
    IN  [dated EXCEPT !.status = StatusFor(dated)]

\* onEngineStageActivated: the review follows the stage that opens after s.
Followed(row, e, s) ==
    IF row.status \in Final \/ e.state # "running" \/ ~GroupOver(e, s) THEN row
    ELSE IF After(s) \in Approvals THEN [row EXCEPT !.status = "pending_approval"]
    ELSE IF After(s) = Share THEN [row EXCEPT !.status = "pending_share"]
    ELSE row

\* Mutant: the date of the evaluation is left in place.
UnratedDated(row, status) == [row EXCEPT !.status = status, !.final = None]

Unrated(row, status) == [row EXCEPT !.status = status, !.managerAt = FALSE, !.final = None]

-------------------------------------------------------------------------------
(* Handlers of the cycle *)

Put(f, r, x) == [f EXCEPT ![r] = x]

\* completeInternal: an instance that has already ended keeps its outcome.
ClosedInst(r) ==
    IF inst[r].state # "running" THEN inst[r]
    ELSE Completed(inst[r], IF review[r].status \in {"shared", "signed"} THEN "closed"
                                                                         ELSE "cancelled")

\* Mutant: those ready to be shared are forgotten too.
ClosedStatusLess(status) ==
    CASE status \in {"shared", "signed"} -> "closed"
      [] status \in {"pending_self", "pending_manager"} -> "cancelled"
      [] OTHER -> status

\* Those pending an approval are in neither of the two updates.
ClosedStatus(status) ==
    CASE status \in {"shared", "signed"} -> "closed"
      [] status \in {"pending_self", "pending_manager", "pending_share"} -> "cancelled"
      [] OTHER -> status

Launch(population) ==
    /\ cycle = "draft"
    /\ population # {}
    /\ cycle' = "active"
    /\ review' = [r \in Reviews |->
            IF r \in population
            THEN NewRow(IF template.self THEN "pending_self" ELSE "pending_manager")
            ELSE review[r]]
    /\ inst' = [r \in Reviews |->
            IF r \in population
            THEN Activated([state |-> "running", run |-> [s \in Stages |-> "pending"]],
                           Group(Manager))
            ELSE inst[r]]
    /\ UNCHANGED <<template, calibration, signedOff, corrected>>

CloseCycle ==
    /\ cycle = "active"
    /\ cycle' = "closed"
    /\ review' = [r \in Reviews |->
            [review[r] EXCEPT !.status = ClosedStatus(review[r].status)]]
    /\ inst' = [r \in Reviews |-> ClosedInst(r)]
    /\ UNCHANGED <<template, calibration, signedOff, corrected>>

-------------------------------------------------------------------------------
(* Handlers of a review *)

\* The form engine calls back only for a run that is still active.
SubmitStage(r, s, rating) ==
    LET e == Ran(inst[r], s, "done")
    IN  /\ Launched(r)
        /\ inst[r].run[s] = "active"
        /\ inst' = Put(inst, r, Advanced(e, s))
        /\ review' = Put(review, r, Followed(Submitted(review[r], s, rating), e, s))
        /\ UNCHANGED <<cycle, template, calibration>>

SubmitSelf(r) ==
    /\ Self \in Stages
    /\ SubmitStage(r, Self, None)
    /\ UNCHANGED <<signedOff, corrected>>

SubmitManager(r, rating) ==
    /\ SubmitStage(r, Manager, rating)
    /\ signedOff' = Put(signedOff, r, {})
    /\ corrected' = Put(corrected, r, FALSE)

\* The step approve finds active.
InApproval(r, s) ==
    /\ cycle = "active"
    /\ review[r].status = "pending_approval"
    /\ s \in Approvals
    /\ inst[r].run[s] = "active"

Approve(r, s) ==
    LET e == Ran(inst[r], s, "done")
    IN  /\ InApproval(r, s)
        /\ inst' = Put(inst, r, Advanced(e, s))
        /\ review' = Put(review, r, Followed(review[r], e, s))
        /\ signedOff' = Put(signedOff, r, signedOff[r] \cup {s})
        /\ UNCHANGED <<cycle, template, calibration, corrected>>

\* Back to the manager: only the manager's evaluation is opened again.
Return(r, s) ==
    /\ InApproval(r, s)
    /\ inst' = Put(inst, r, Activated(Ran(inst[r], s, "rejected"), {Manager}))
    /\ review' = Put(review, r, [Unrated(review[r], "pending_manager") EXCEPT !.proposed = None])
    /\ signedOff' = Put(signedOff, r, {})
    /\ corrected' = Put(corrected, r, FALSE)
    /\ UNCHANGED <<cycle, template, calibration>>

Held(r) == review[r].session # None /\ calibration[review[r].session] = "open"

\* Mutant: a review in approval is shared.
CanShareAny(r) ==
    /\ cycle = "active"
    /\ review[r].managerAt
    /\ ~review[r].sharedAt
    /\ ~Held(r)

CanShare(r) ==
    /\ cycle = "active"
    /\ review[r].managerAt
    /\ review[r].status # "pending_approval"
    /\ ~review[r].sharedAt
    /\ ~Held(r)

ShareReview(r) ==
    /\ CanShare(r)
    /\ review' = Put(review, r, [review[r] EXCEPT !.status = "shared", !.sharedAt = TRUE])
    /\ inst' = Put(inst, r, DecidedIfOpen(inst[r], Share))
    /\ UNCHANGED <<cycle, template, calibration, signedOff, corrected>>

SignReview(r) ==
    /\ review[r].status = "shared"
    /\ review' = Put(review, r, [review[r] EXCEPT !.status = "signed", !.signedAt = TRUE])
    /\ inst' = Put(inst, r, DecidedIfOpen(inst[r], Sign))
    /\ UNCHANGED <<cycle, template, calibration, signedOff, corrected>>

\* HR starts a stage over: nothing of what followed stands.
Reopen(r, target) ==
    /\ Launched(r)
    /\ target \in Stages \cap {Self, Manager}
    /\ cycle = "active"
    /\ inst' = Put(inst, r, Reopened(inst[r], target))
    /\ review' = Put(review, r,
            [Unrated(review[r], IF target = Self THEN "pending_self" ELSE "pending_manager")
                EXCEPT !.selfAt = review[r].selfAt /\ target # Self,
                       !.sharedAt = FALSE, !.signedAt = FALSE])
    /\ signedOff' = Put(signedOff, r, {})
    /\ corrected' = Put(corrected, r, FALSE)
    /\ UNCHANGED <<cycle, template, calibration>>

Corrected(r, rating) ==
    /\ review' = Put(review, r, [review[r] EXCEPT !.final = rating])
    /\ corrected' = Put(corrected, r, TRUE)
    /\ UNCHANGED <<cycle, template, inst, calibration, signedOff>>

\* HR corrects the rating at any time: neither cycle nor status are looked at.
OverrideRating(r, rating) ==
    /\ Launched(r)
    /\ rating \in Ratings
    /\ Corrected(r, rating)

-------------------------------------------------------------------------------
(* Handlers of calibration *)

\* Mutant: the sessions that are over are spared instead of those that are open.
OtherLocked(c) == {d \in Sessions \ {c} : calibration[d] = "locked"}

OtherOpen(c) == {d \in Sessions \ {c} : calibration[d] = "open"}

\* attachReviews: what left the perimeter is released, what is in it is taken
\* unless another open session has it.
Attached(c, perimeter) ==
    [r \in Reviews |->
        [review[r] EXCEPT !.session =
            IF /\ r \in perimeter /\ Launched(r) /\ review[r].status # "cancelled"
               /\ review[r].session \notin OtherOpen(c)
            THEN c
            ELSE IF review[r].session = c /\ r \notin perimeter THEN None
            ELSE review[r].session]]

CreateSession(c, perimeter) ==
    /\ calibration[c] = "none"
    /\ cycle # "closed"
    /\ calibration' = Put(calibration, c, "open")
    /\ review' = Attached(c, perimeter)
    /\ UNCHANGED <<cycle, template, inst, signedOff, corrected>>

UpdateSession(c, perimeter) ==
    /\ calibration[c] = "open"
    /\ review' = Attached(c, perimeter)
    /\ UNCHANGED <<cycle, template, inst, calibration, signedOff, corrected>>

SetRating(c, r, rating) ==
    /\ calibration[c] = "open"
    /\ cycle = "active"
    /\ review[r].session = c
    /\ review[r].status \in Rated
    /\ rating \in Ratings \cup {None}
    /\ rating # review[r].final
    /\ Corrected(r, rating)

LockSession(c) ==
    /\ calibration[c] = "open"
    /\ calibration' = Put(calibration, c, "locked")
    /\ UNCHANGED <<cycle, template, review, inst, signedOff, corrected>>

UnlockSession(c) ==
    /\ calibration[c] = "locked"
    /\ cycle = "active"
    /\ calibration' = Put(calibration, c, "open")
    /\ UNCHANGED <<cycle, template, review, inst, signedOff, corrected>>

-------------------------------------------------------------------------------
(* The specification *)

Init ==
    /\ cycle = "draft"
    /\ template \in Templates
    /\ review = [r \in Reviews |-> NewRow("none")]
    /\ inst = [r \in Reviews |-> [state |-> "none", run |-> [s \in Stages |-> "pending"]]]
    /\ calibration = [c \in Sessions |-> "none"]
    /\ signedOff = [r \in Reviews |-> {}]
    /\ corrected = [r \in Reviews |-> FALSE]

Next ==
    \/ \E population \in SUBSET Reviews : Launch(population)
    \/ CloseCycle
    \/ \E r \in Reviews :
        \/ SubmitSelf(r)
        \/ \E rating \in Values : SubmitManager(r, rating)
        \/ \E s \in Approvals : Approve(r, s) \/ Return(r, s)
        \/ ShareReview(r)
        \/ SignReview(r)
        \/ \E target \in {Self, Manager} : Reopen(r, target)
        \/ \E rating \in Values : OverrideRating(r, rating)
        \/ \E c \in Sessions, rating \in Values : SetRating(c, r, rating)
    \/ \E c \in Sessions :
        \/ \E perimeter \in SUBSET Reviews : CreateSession(c, perimeter) \/ UpdateSession(c, perimeter)
        \/ LockSession(c)
        \/ UnlockSession(c)

Spec == Init /\ [][Next]_vars

-------------------------------------------------------------------------------
(* What should hold *)

\* The tables keep their types, and a review exists exactly with its instance.
TypeOK ==
    /\ cycle \in {"draft", "active", "closed"}
    /\ template \in Templates
    /\ review \in [Reviews -> Rows]
    /\ inst \in [Reviews -> Instances]
    /\ calibration \in [Sessions -> {"none", "open", "locked"}]
    /\ signedOff \in [Reviews -> SUBSET Approvals]
    /\ corrected \in [Reviews -> BOOLEAN]
    /\ \A r \in Reviews : inst[r].state = "none" <=> ~Launched(r)

\* What a person is asked to do can be done: whatever a review is pending in an
\* active cycle, the stage of the instance that lets somebody do it is open.  The
\* two are written by different services, from different reads.
StagesInStep ==
    \A r \in Reviews : cycle = "active" /\ Launched(r) =>
        LET run == inst[r].run IN
        /\ run[Manager] = "active" <=> ~review[r].managerAt
        /\ template.self => (run[Self] = "active" <=> ~review[r].selfAt)
        /\ CASE review[r].status = "pending_self" -> run[Self] = "active"
             [] review[r].status = "pending_manager" -> run[Manager] = "active"
             [] review[r].status = "pending_approval" -> \E s \in Approvals : run[s] = "active"
             [] review[r].status = "pending_share" -> run[Share] = "active"
             [] OTHER -> review[r].sharedAt

\* One thing after the other: a stage is open only when all those before it are
\* concluded, through any series of returns and reopenings; so at most one
\* approval, the sharing or the signature is open at any time.
StagesInOrder ==
    \A r \in Reviews : \A s, g \in Stages :
        inst[r].run[s] = "active" /\ g < s /\ g \notin Group(s) => inst[r].run[g] = "done"

\* Approvals start over with every new evaluation of the manager: when a review
\* waits to be shared each step has been given since, and one that waits for a
\* step has all the steps before it.
ApprovalsCurrent ==
    \A r \in Reviews :
        /\ review[r].status = "pending_share" => signedOff[r] = Approvals
        /\ \A s \in Approvals : inst[r].run[s] = "active" => signedOff[r] = 2 .. (s - 1)

\* The rating shown is the manager's proposal unless a correction is on record: one
\* that was withdrawn, by a return or a reopening, does not stay behind.
RatingTraced ==
    \A r \in Reviews :
        review[r].final = (IF review[r].managerAt THEN review[r].proposed ELSE None)
        \/ corrected[r]

\* A closed cycle leaves nothing under way: every instance has ended, as cancelled
\* exactly if its review was never shared, and of those only the ones that waited
\* for an approval keep their status.
ClosedSettled ==
    cycle = "closed" => \A r \in Reviews : Launched(r) =>
        /\ inst[r].state \in Outcomes
        /\ \A s \in Stages : inst[r].run[s] \notin {"pending", "active"}
        /\ review[r].status \in {"closed", "cancelled", "pending_approval"}
        /\ inst[r].state = "cancelled" <=> review[r].status # "closed"

\* After the end of the cycle no handler moves a review or its instance: what can
\* still change is the rating, which HR may correct, and the calibration session.
ClosedStays ==
    [][cycle = "closed" =>
        /\ cycle' = "closed" /\ inst' = inst
        /\ \A r \in Reviews :
            review'[r] = [review[r] EXCEPT !.final = review'[r].final,
                                           !.session = review'[r].session]]_vars

BecomesShared(r) == ~review[r].sharedAt /\ review'[r].sharedAt

\* A review is shared with every approval of its chain, given to this evaluation,
\* or else before the person's own assessment, which is what opens the chain.
UnapprovedOnlyIfEarly ==
    [][\A r \in Reviews : BecomesShared(r) =>
        signedOff[r] = Approvals \/ (template.self /\ ~review[r].selfAt)]_vars

\* An open session keeps its reviews: another session does not take them over, and
\* only a change of its own perimeter releases them.
OpenSessionKeeps ==
    [][\A c \in Sessions, r \in Reviews :
        calibration[c] = "open" /\ review[r].session = c /\ review'[r].session # c =>
            review'[r].session = None /\ calibration' = calibration]_vars

===============================================================================
