--------------------------- MODULE ReviewCycleProofs ---------------------------
(***************************************************************************)
(* Proofs about ReviewCycle, for any reviews, sessions, templates and      *)
(* ratings: the types, and that each review and its workflow instance stay *)
(* in step through every series of requests.                               *)
(***************************************************************************)
EXTENDS ReviewCycle, TLAPS

-------------------------------------------------------------------------------
(* The inductive invariant: what holds of one review, its row, its instance *)
(* e and the approvals so given to it, while the cycle is in status c       *)

Quiet(e) == \A s \in Stages : e.run[s] \notin {"pending", "active"}

InOrder(e) ==
    \A s, g \in Stages :
        e.run[s] = "active" /\ g < s /\ g \notin Group(s) => e.run[g] = "done"

\* The evaluations are open or concluded, and their dates say which.
Dated(row, e) ==
    /\ e.run[Manager] \in {"active", "done"}
    /\ e.run[Manager] = "active" <=> ~row.managerAt
    /\ template.self => e.run[Self] \in {"active", "done"} /\ (e.run[Self] = "active" <=> ~row.selfAt)

\* The stage a review waits for is open.
Waits(row, e) ==
    /\ row.status = "pending_self" => template.self /\ e.run[Self] = "active"
    /\ row.status = "pending_manager" => e.run[Manager] = "active"
    /\ row.status = "pending_approval" => \E s \in Approvals : e.run[s] = "active"
    /\ row.status = "pending_share" => e.run[Share] = "active"
    /\ row.status \notin Pending => row.sharedAt

\* What is missing in StagesInStep for the steps to preserve it: the instance of a
\* review that waits for something runs, and no approval was given before the
\* evaluations are all in.
Running(row, e, so) ==
    /\ e.state \in {"running", "completed"}
    /\ row.status \notin {"closed", "cancelled"}
    /\ e.state = "completed" => row.status \in {"shared", "signed"}
    /\ e.run[Manager] = "active" => so = {}
    /\ template.self /\ e.run[Self] = "active" => so = {}

Approved(row, e, so) ==
    /\ row.status = "pending_share" => so = Approvals
    /\ \A s \in Approvals : e.run[s] = "active" => so = 2 .. (s - 1)

Settled(row, e) ==
    /\ e.state \in Outcomes
    /\ row.status \in {"closed", "cancelled", "pending_approval"}
    /\ e.state = "cancelled" <=> row.status # "closed"

Coherent(c, row, e, so) ==
    /\ e.state \in Outcomes => Quiet(e)
    /\ InOrder(e)
    /\ Approved(row, e, so)
    /\ row.status = "none" => ~row.managerAt /\ so = {} /\ \A s \in Stages : e.run[s] = "pending"
    /\ row.status # "none" =>
        /\ c # "draft"
        /\ c = "active" => Dated(row, e) /\ Waits(row, e) /\ Running(row, e, so)
        /\ c = "closed" => Settled(row, e)

Typed(row, e, so) ==
    /\ row \in Rows
    /\ e \in Instances
    /\ so \in SUBSET Approvals
    /\ e.state = "none" <=> row.status = "none"

Inv ==
    /\ TypeOK
    /\ \A r \in Reviews : Coherent(cycle, review[r], inst[r], signedOff[r])

-------------------------------------------------------------------------------
(* Stages and instances *)

\* Where the stages lie.
LEMMA StageFacts ==
    ASSUME template \in Templates
    PROVE  /\ template.steps \in Nat /\ template.self \in BOOLEAN
           /\ Stages \subseteq Nat /\ Approvals \subseteq Stages
           /\ Manager \in Stages /\ Share \in Stages /\ (Self \in Stages <=> template.self)
           /\ \A s \in Stages : s >= 2 => s \in Approvals \/ s = Share \/ s = Sign
           /\ \A s \in Approvals : s >= 2 /\ s < Share
           /\ Share >= 2 /\ Sign = Share + 1 /\ Self = 0 /\ Manager = 1
           /\ \A s \in Approvals : s + 1 \in Approvals \/ s + 1 = Share
           /\ (template.steps = 0 => Approvals = {})
           /\ (template.steps # 0 => 2 \in Approvals /\ Share > 2)
           /\ (template.steps = 0 => Share = 2)
<1>1. template.steps \in Nat /\ template.self \in BOOLEAN /\ template.sign \in BOOLEAN
  BY TemplatesAssumption
<1>2. QED BY <1>1 DEF Stages, Approvals, Manager, Share, Sign, Self

\* What stands where in an instance after each of the engine's operations.
LEMMA RanRuns ==
    ASSUME NEW e \in Instances, NEW s \in Stages, NEW status \in RunStatus
    PROVE  /\ Ran(e, s, status) \in Instances
           /\ Ran(e, s, status).state = e.state
           /\ \A t \in Stages :
                Ran(e, s, status).run[t] = IF t = s THEN status ELSE e.run[t]
  BY DEF Instances, Ran

LEMMA ActivatedRuns ==
    ASSUME NEW e \in Instances, NEW keys
    PROVE  /\ Activated(e, keys) \in Instances
           /\ Activated(e, keys).state = e.state
           /\ \A t \in Stages :
                Activated(e, keys).run[t] = IF t \in keys THEN "active" ELSE e.run[t]
  BY DEF Instances, Activated, RunStatus

LEMMA CompletedRuns ==
    ASSUME NEW e \in Instances, NEW outcome \in Outcomes
    PROVE  /\ Completed(e, outcome) \in Instances
           /\ Completed(e, outcome).state = outcome
           /\ \A t \in Stages :
                Completed(e, outcome).run[t] = IF e.run[t] \in {"pending", "active"} THEN "skipped"
                                                                                   ELSE e.run[t]
  BY DEF Instances, Completed, RunStatus, Outcomes

LEMMA ReopenedRuns ==
    ASSUME template \in Templates, NEW e \in Instances, NEW target \in Stages \cap {Self, Manager}
    PROVE  /\ Reopened(e, target) \in Instances
           /\ Reopened(e, target).state = "running"
           /\ \A t \in Stages :
                Reopened(e, target).run[t] =
                    IF t < target THEN e.run[t]
                    ELSE IF t \in {Self, Manager} THEN "active" ELSE "pending"
<1> DEFINE over == [state |-> "running",
                    run |-> [s \in Stages |-> IF s >= target THEN "pending" ELSE e.run[s]]]
<1>1. over \in Instances
  BY DEF Instances, RunStatus
<1>2. Reopened(e, target) = Activated(over, {s \in Group(target) : s >= target})
  BY DEF Reopened
<1>3. Group(target) = Stages \cap {Self, Manager}
  BY DEF Group
<1>4. \A t \in Stages : over.run[t] = IF t >= target THEN "pending" ELSE e.run[t]
  OBVIOUS
<1>5. over.state = "running"
  OBVIOUS
<1>6. \A t \in Stages : t \in Nat /\ target \in Nat
  BY StageFacts
<1> HIDE DEF over
<1>7. QED BY <1>1, <1>2, <1>3, <1>4, <1>5, <1>6, ActivatedRuns

LEMMA AdvancedRuns ==
    ASSUME NEW e \in Instances, NEW s \in Stages
    PROVE  /\ Advanced(e, s) \in Instances
           /\ e.state # "running" \/ ~GroupOver(e, s) => Advanced(e, s) = e
           /\ e.state = "running" /\ GroupOver(e, s) =>
                IF After(s) \in Stages
                THEN /\ Advanced(e, s).state = "running"
                     /\ \A t \in Stages :
                          Advanced(e, s).run[t] = IF t = After(s) THEN "active" ELSE e.run[t]
                ELSE /\ Advanced(e, s).state = "completed"
                     /\ \A t \in Stages :
                          Advanced(e, s).run[t] =
                            IF e.run[t] \in {"pending", "active"} THEN "skipped" ELSE e.run[t]
<1>1. CASE e.state # "running" \/ ~GroupOver(e, s)
  BY <1>1 DEF Advanced
<1>2. CASE e.state = "running" /\ GroupOver(e, s) /\ After(s) \in Stages
  <2>1. Advanced(e, s) = Activated(e, {After(s)})
    BY <1>2 DEF Advanced
  <2>2. QED BY <1>2, <2>1, ActivatedRuns
<1>3. CASE e.state = "running" /\ GroupOver(e, s) /\ After(s) \notin Stages
  <2>1. Advanced(e, s) = Completed(e, "completed")
    BY <1>3 DEF Advanced
  <2>2. "completed" \in Outcomes
    BY DEF Outcomes
  <2>3. QED BY <1>3, <2>1, <2>2, CompletedRuns
<1>4. QED BY <1>1, <1>2, <1>3

\* A stage that is open and is not one of the evaluations: all before it is done.
LEMMA BeforeOpen ==
    ASSUME template \in Templates, NEW e \in Instances, InOrder(e),
           NEW s \in Stages, s >= 2, e.run[s] = "active"
    PROVE  /\ \A g \in Stages : g < s => e.run[g] = "done"
           /\ \A t \in Stages : t # s => e.run[t] # "active"
<1>1. \A t \in Stages : t \in Nat
  BY StageFacts
<1>2. Group(s) = {s}
  BY <1>1 DEF Group, Self, Manager
<1>3. \A g \in Stages : g < s => e.run[g] = "done"
  BY <1>1, <1>2 DEF InOrder
<1>4. ASSUME NEW t \in Stages, t > s, e.run[t] = "active" PROVE FALSE
  <2>1. Group(t) = {t} /\ s \notin Group(t)
    BY <1>1, <1>4 DEF Group, Self, Manager
  <2>2. QED BY <1>1, <1>4, <2>1 DEF InOrder
<1>5. QED BY <1>1, <1>3, <1>4

\* While an evaluation is open, nothing after the evaluations is.
LEMMA EvaluationOpen ==
    ASSUME template \in Templates, NEW e \in Instances, InOrder(e),
           NEW s \in Stages \cap {Self, Manager}, e.run[s] = "active"
    PROVE  \A t \in Stages : t >= 2 => e.run[t] # "active"
  BY BeforeOpen, StageFacts DEF Self, Manager

\* Concluding a stage and advancing keeps the order.
LEMMA AdvancedInOrder ==
    ASSUME template \in Templates, NEW e \in Instances, InOrder(e), e.state = "running",
           NEW s \in Stages, e.run[s] = "active",
           \A g \in Stages \cap {Self, Manager} : e.run[g] \in {"active", "done"}
    PROVE  InOrder(Advanced(Ran(e, s, "done"), s))
<1> DEFINE x == Ran(e, s, "done")
           d == Advanced(x, s)
<1>1. "done" \in RunStatus
  BY DEF RunStatus
<1>2. /\ x \in Instances /\ x.state = "running"
      /\ \A t \in Stages : x.run[t] = IF t = s THEN "done" ELSE e.run[t]
  BY <1>1, RanRuns
<1>3. \A t \in Stages : t \in Nat
  BY StageFacts
<1>4. \A t, g \in Stages : x.run[t] = "active" /\ t >= 2 /\ g < t => x.run[g] = "done"
  BY <1>2, <1>3, BeforeOpen
<1>5. InOrder(x)
  BY <1>3, <1>4 DEF InOrder, Group, Self, Manager
<1>6. CASE ~GroupOver(x, s)
  BY <1>2, <1>5, <1>6, AdvancedRuns
<1>7. CASE GroupOver(x, s) /\ After(s) \notin Stages
  <2>1. \A t \in Stages : d.run[t] # "active"
    BY <1>2, <1>7, AdvancedRuns
  <2>2. QED BY <2>1 DEF InOrder
<1>8. CASE GroupOver(x, s) /\ After(s) \in Stages
  <2>1. \A t \in Stages : d.run[t] = IF t = After(s) THEN "active" ELSE x.run[t]
    BY <1>2, <1>8, AdvancedRuns
  <2>2. \A g \in Stages : g < After(s) => x.run[g] = "done"
    <3>1. CASE s \in {Self, Manager}
      <4>1. \A g \in Stages : g < After(s) => g \in Stages \cap {Self, Manager}
        BY <1>3, <3>1 DEF After, Self, Manager
      <4>2. \A g \in Stages \cap {Self, Manager} : x.run[g] \in {"done", "skipped"}
        BY <1>8, <3>1 DEF GroupOver, Group
      <4>3. QED BY <1>2, <4>1, <4>2
    <3>2. CASE s \notin {Self, Manager}
      BY <1>2, <1>3, <3>2, BeforeOpen DEF After, Self, Manager
    <3>3. QED BY <3>1, <3>2
  <2>3. \A t \in Stages : t # After(s) => x.run[t] # "active" \/ t < 2
    <3>1. CASE s \in {Self, Manager}
      BY <1>2, <1>3, <3>1, EvaluationOpen DEF Self, Manager
    <3>2. CASE s \notin {Self, Manager}
      BY <1>2, <1>3, <3>2, BeforeOpen DEF Self, Manager
    <3>3. QED BY <3>1, <3>2
  <2>4. After(s) \in Nat /\ After(s) >= 2
    BY <1>3 DEF After, Self, Manager
  <2>5. \A t, g \in Stages : d.run[t] = "active" /\ t >= 2 /\ g < t => d.run[g] = "done"
    BY <1>3, <2>1, <2>2, <2>3, <2>4
  <2>6. QED BY <1>3, <2>5 DEF InOrder, Group, Self, Manager
<1>9. QED BY <1>6, <1>7, <1>8

-------------------------------------------------------------------------------
(* What each handler does to one review *)

\* A stage is open only in a cycle that is active, under an instance that runs.
LEMMA OpenIsLive ==
    ASSUME template \in Templates, NEW c \in {"draft", "active", "closed"},
           NEW row, NEW e, NEW so, Typed(row, e, so), Coherent(c, row, e, so),
           NEW s \in Stages, e.run[s] = "active"
    PROVE  /\ c = "active" /\ e.state = "running"
           /\ row.status # "none" /\ row.status \notin {"closed", "cancelled"}
           /\ Dated(row, e) /\ Waits(row, e) /\ Running(row, e, so)
           /\ \A g \in Stages \cap {Self, Manager} : e.run[g] \in {"active", "done"}
<1>1. row.status # "none"
  BY DEF Coherent
<1>2. e.state \notin Outcomes
  BY DEF Coherent, Quiet
<1>3. c = "active"
  BY <1>1, <1>2 DEF Coherent, Settled
<1>4. Dated(row, e) /\ Waits(row, e) /\ Running(row, e, so)
  BY <1>1, <1>3 DEF Coherent
<1>5. e.state = "running" /\ row.status \notin {"closed", "cancelled"}
  BY <1>2, <1>4 DEF Running, Outcomes
<1>6. \A g \in Stages \cap {Self, Manager} : e.run[g] \in {"active", "done"}
  BY <1>4, StageFacts DEF Dated
<1>7. QED BY <1>1, <1>3, <1>4, <1>5, <1>6

LEMMA StatusForRow ==
    ASSUME template \in Templates, NEW row \in Rows, row.status # "none"
    PROVE  /\ StatusFor(row) \in Pending \cup Final
           /\ row.status \in Final => StatusFor(row) = row.status
           /\ row.status \notin Final =>
                \/ StatusFor(row) = "pending_self" /\ template.self /\ ~row.selfAt
                \/ StatusFor(row) = "pending_manager" /\ ~row.managerAt
                \/ StatusFor(row) = "pending_share" /\ row.managerAt /\ (template.self => row.selfAt)
  BY StageFacts DEF StatusFor, Pending, Final, Rows

\* The row after the form of an evaluation.
LEMMA SubmittedRow ==
    ASSUME template \in Templates, NEW row \in Rows, row.status # "none",
           NEW s \in {Self, Manager}, NEW rating \in Values
    PROVE  LET new == Submitted(row, s, rating) IN
           /\ new \in Rows
           /\ new.selfAt = (IF s = Self THEN TRUE ELSE row.selfAt)
           /\ new.managerAt = (IF s = Manager THEN TRUE ELSE row.managerAt)
           /\ new.sharedAt = row.sharedAt
           /\ new.status \in Pending \cup Final
           /\ row.status \in Final => new.status = row.status
           /\ row.status \notin Final =>
                \/ new.status = "pending_self" /\ template.self /\ ~new.selfAt
                \/ new.status = "pending_manager" /\ ~new.managerAt
                \/ new.status = "pending_share" /\ new.managerAt /\ (template.self => new.selfAt)
<1> DEFINE dated == IF s = Self THEN [row EXCEPT !.selfAt = TRUE]
                    ELSE [row EXCEPT !.managerAt = TRUE, !.proposed = rating, !.final = rating]
<1>1. dated \in Rows
  BY DEF Rows
<1>2. /\ dated.selfAt = (IF s = Self THEN TRUE ELSE row.selfAt)
      /\ dated.managerAt = (IF s = Manager THEN TRUE ELSE row.managerAt)
      /\ dated.sharedAt = row.sharedAt /\ dated.status = row.status
  <2>1. CASE s = Self
    BY <2>1 DEF Rows, Self, Manager
  <2>2. CASE s = Manager
    BY <2>2 DEF Rows, Self, Manager
  <2>3. QED BY <2>1, <2>2
<1>3. Submitted(row, s, rating) = [dated EXCEPT !.status = StatusFor(dated)]
  BY DEF Submitted
<1>4. StatusFor(dated) \in Pending \cup Final
  BY <1>1, <1>2, StatusForRow
<1> HIDE DEF dated
<1>5. /\ [dated EXCEPT !.status = StatusFor(dated)] \in Rows
      /\ [dated EXCEPT !.status = StatusFor(dated)].selfAt = dated.selfAt
      /\ [dated EXCEPT !.status = StatusFor(dated)].managerAt = dated.managerAt
      /\ [dated EXCEPT !.status = StatusFor(dated)].sharedAt = dated.sharedAt
      /\ [dated EXCEPT !.status = StatusFor(dated)].status = StatusFor(dated)
  BY <1>1, <1>4 DEF Rows
<1>6. QED BY <1>1, <1>2, <1>3, <1>4, <1>5, StatusForRow

\* The hook of the stage that opens changes the status only.
LEMMA FollowedRow ==
    ASSUME template \in Templates, NEW row \in Rows, NEW e \in Instances, NEW s \in Stages
    PROVE  LET new == Followed(row, e, s)
               opens == row.status \notin Final /\ e.state = "running" /\ GroupOver(e, s)
           IN
           /\ new \in Rows
           /\ new.selfAt = row.selfAt /\ new.managerAt = row.managerAt /\ new.sharedAt = row.sharedAt
           /\ new.proposed = row.proposed /\ new.final = row.final
           /\ new.status = IF opens /\ After(s) \in Approvals THEN "pending_approval"
                           ELSE IF opens /\ After(s) = Share THEN "pending_share"
                           ELSE row.status
<1>1. \A t \in Approvals : t # Share
  BY StageFacts
<1>2. \A status \in Pending :
        /\ [row EXCEPT !.status = status] \in Rows
        /\ [row EXCEPT !.status = status].status = status
        /\ [row EXCEPT !.status = status].selfAt = row.selfAt
        /\ [row EXCEPT !.status = status].managerAt = row.managerAt
        /\ [row EXCEPT !.status = status].sharedAt = row.sharedAt
        /\ [row EXCEPT !.status = status].proposed = row.proposed
        /\ [row EXCEPT !.status = status].final = row.final
  BY DEF Rows
<1>3. {"pending_approval", "pending_share"} \subseteq Pending
  BY DEF Pending
<1>4. QED BY <1>1, <1>2, <1>3 DEF Followed

LEMMA SubmittedCoherent ==
    ASSUME template \in Templates, NEW c \in {"draft", "active", "closed"},
           NEW row, NEW e, NEW so, Typed(row, e, so), Coherent(c, row, e, so),
           NEW s \in Stages \cap {Self, Manager}, e.run[s] = "active", NEW rating \in Values,
           NEW kept, kept = IF s = Manager THEN {} ELSE so
    PROVE  LET x == Ran(e, s, "done")
               new == Followed(Submitted(row, s, rating), x, s)
           IN  Typed(new, Advanced(x, s), kept) /\ Coherent(c, new, Advanced(x, s), kept)
<1> DEFINE x == Ran(e, s, "done")
           old == Submitted(row, s, rating)
           new == Followed(old, x, s)
           d == Advanced(x, s)
<1>1. /\ row \in Rows /\ e \in Instances /\ so \in SUBSET Approvals
      /\ s \in Stages /\ s \in {Self, Manager} /\ "done" \in RunStatus
  BY DEF Typed, RunStatus
<1>2. /\ c = "active" /\ e.state = "running"
      /\ row.status # "none" /\ row.status \notin {"closed", "cancelled"}
      /\ Dated(row, e) /\ Waits(row, e) /\ Running(row, e, so)
      /\ \A g \in Stages \cap {Self, Manager} : e.run[g] \in {"active", "done"}
  BY <1>1, OpenIsLive
<1>3. kept = {}
  BY <1>1, <1>2, StageFacts DEF Running, Self, Manager
<1>4. /\ x \in Instances /\ x.state = "running"
      /\ \A t \in Stages : x.run[t] = IF t = s THEN "done" ELSE e.run[t]
  BY <1>1, <1>2, RanRuns
<1>5. InOrder(e)
  BY DEF Coherent
<1>6. InOrder(d)
  BY <1>1, <1>2, <1>5, AdvancedInOrder
<1>7. /\ old \in Rows
      /\ old.selfAt = (IF s = Self THEN TRUE ELSE row.selfAt)
      /\ old.managerAt = (IF s = Manager THEN TRUE ELSE row.managerAt)
      /\ old.sharedAt = row.sharedAt
      /\ old.status \in Pending \cup Final
      /\ row.status \in Final => old.status = row.status
      /\ row.status \notin Final =>
            \/ old.status = "pending_self" /\ template.self /\ ~old.selfAt
            \/ old.status = "pending_manager" /\ ~old.managerAt
            \/ old.status = "pending_share" /\ old.managerAt /\ (template.self => old.selfAt)
  BY <1>1, <1>2, SubmittedRow
<1> HIDE DEF x, old
<1>8. /\ new \in Rows
      /\ new.selfAt = old.selfAt /\ new.managerAt = old.managerAt /\ new.sharedAt = old.sharedAt
      /\ new.status = IF old.status \notin Final /\ GroupOver(x, s) /\ After(s) \in Approvals
                      THEN "pending_approval"
                      ELSE IF old.status \notin Final /\ GroupOver(x, s) /\ After(s) = Share
                      THEN "pending_share"
                      ELSE old.status
  <2>1. template \in Templates /\ old \in Rows /\ x \in Instances /\ s \in Stages
    BY <1>1, <1>4, <1>7
  <2>2. new.status = IF old.status \notin Final /\ x.state = "running" /\ GroupOver(x, s)
                        /\ After(s) \in Approvals
                      THEN "pending_approval"
                      ELSE IF old.status \notin Final /\ x.state = "running" /\ GroupOver(x, s)
                        /\ After(s) = Share
                      THEN "pending_share"
                      ELSE old.status
    BY <2>1, FollowedRow
  <2>3. /\ new \in Rows
      /\ new.selfAt = old.selfAt /\ new.managerAt = old.managerAt /\ new.sharedAt = old.sharedAt
    BY <2>1, FollowedRow
  <2>4. QED BY <1>4, <2>2, <2>3
<1>9. /\ d \in Instances
      /\ ~GroupOver(x, s) => d = x
      /\ GroupOver(x, s) /\ After(s) \in Stages =>
            /\ d.state = "running"
            /\ \A t \in Stages : d.run[t] = IF t = After(s) THEN "active" ELSE x.run[t]
  BY <1>1, <1>4, AdvancedRuns
<1>10. /\ After(s) = 2 /\ After(s) \in Stages /\ (2 \in Approvals \/ Share = 2)
       /\ Manager \in Stages /\ Share \in Stages /\ (Self \in Stages <=> template.self)
       /\ Approvals \subseteq Stages /\ Stages \subseteq Nat
       /\ (\A t \in Approvals : t >= 2 /\ t # Share) /\ Self = 0 /\ Manager = 1 /\ Share >= 2
       /\ (Share = 2 => Approvals = {})
  BY <1>1, StageFacts DEF After
<1>11. row.status \in Final => row.sharedAt
  BY <1>2 DEF Waits, Pending, Final
<1>12. \A t \in Stages : t >= 2 => e.run[t] # "active"
  BY <1>1, <1>5, EvaluationOpen
<1>13. GroupOver(x, s) <=> \A g \in Stages \cap {Self, Manager} : x.run[g] = "done"
  BY <1>1, <1>2, <1>4 DEF GroupOver, Group
<1> HIDE DEF new, d
<1>14. d.state = "running"
  BY <1>4, <1>9, <1>10
<1>15. Dated(new, d)
  <2>1. \A t \in Stages \cap {Self, Manager} : d.run[t] = x.run[t]
    BY <1>9, <1>10
  <2>2. QED BY <1>1, <1>2, <1>4, <1>7, <1>8, <1>10, <2>1 DEF Dated
<1>16. new.status \in Pending \cup Final /\ new.status # "none"
  BY <1>7, <1>8 DEF Pending, Final
<1>17. Waits(new, d)
  <2>1. CASE row.status \in Final
    BY <1>7, <1>8, <1>11, <2>1 DEF Waits, Pending, Final
  <2>2. CASE row.status \notin Final /\ ~GroupOver(x, s)
    <3>1. new.status = old.status /\ d = x
      BY <1>8, <1>9, <2>2
    <3>2. ~(old.managerAt /\ (template.self => old.selfAt))
      BY <1>1, <1>2, <1>4, <1>7, <1>10, <1>13, <2>2 DEF Dated
    <3>3. QED BY <1>7, <1>8, <1>10, <1>15, <2>2, <3>1, <3>2 DEF Waits, Dated, Pending
  <2>3. CASE row.status \notin Final /\ GroupOver(x, s)
    <3>1. d.run[2] = "active" /\ old.status \notin Final
      BY <1>7, <1>9, <1>10, <2>3 DEF Final
    <3>2. new.status = IF 2 \in Approvals THEN "pending_approval" ELSE "pending_share"
      BY <1>8, <1>10, <2>3, <3>1
    <3>3. QED BY <1>10, <3>1, <3>2 DEF Waits, Pending
  <2>4. QED BY <2>1, <2>2, <2>3
<1>18. Running(new, d, kept)
  BY <1>2, <1>3, <1>7, <1>8, <1>14 DEF Running, Final
<1>19. Approved(new, d, kept)
  <2>1. new.status = "pending_share" => Approvals = {}
    <3>1. CASE GroupOver(x, s)
      BY <1>7, <1>8, <1>10, <3>1 DEF Final
    <3>2. CASE ~GroupOver(x, s)
      <4>1. new.status = old.status /\ d = x
        BY <1>8, <1>9, <3>2
      <4>2. ~(old.managerAt /\ (template.self => old.selfAt))
        BY <1>1, <1>2, <1>4, <1>7, <1>10, <1>13, <3>2 DEF Dated
      <4>3. QED BY <1>7, <4>1, <4>2 DEF Final
    <3>3. QED BY <3>1, <3>2
  <2>2. \A t \in Approvals : d.run[t] = "active" => t = 2
    BY <1>1, <1>4, <1>9, <1>10, <1>12
  <2>3. 2 .. (2 - 1) = {}
    OBVIOUS
  <2>4. QED BY <1>3, <2>1, <2>2, <2>3 DEF Approved
<1>20. Typed(new, d, kept)
  BY <1>3, <1>8, <1>9, <1>14, <1>16 DEF Typed
<1>21. Coherent(c, new, d, kept)
  BY <1>2, <1>6, <1>14, <1>15, <1>16, <1>17, <1>18, <1>19 DEF Coherent, Outcomes, d, x
<1>22. QED BY <1>20, <1>21 DEF x, old, new, d

LEMMA ApprovedCoherent ==
    ASSUME template \in Templates, NEW c \in {"draft", "active", "closed"},
           NEW row, NEW e, NEW so, Typed(row, e, so), Coherent(c, row, e, so),
           row.status = "pending_approval", NEW s \in Approvals, e.run[s] = "active"
    PROVE  LET x == Ran(e, s, "done")
               new == Followed(row, x, s)
           IN  /\ Typed(new, Advanced(x, s), so \cup {s})
               /\ Coherent(c, new, Advanced(x, s), so \cup {s})
<1> DEFINE x == Ran(e, s, "done")
           new == Followed(row, x, s)
           d == Advanced(x, s)
<1>1. /\ s \in Stages /\ s + 1 \in Stages /\ s \in Nat /\ s >= 2
      /\ s + 1 \in Approvals \/ s + 1 = Share
      /\ Manager \in Stages /\ (Self \in Stages <=> template.self)
      /\ Approvals \subseteq Stages /\ Stages \subseteq Nat /\ Self = 0 /\ Manager = 1
      /\ \A t \in Approvals : t >= 2 /\ t # Share
  BY StageFacts
<1>2. /\ row \in Rows /\ e \in Instances /\ so \in SUBSET Approvals /\ "done" \in RunStatus
      /\ row.status \notin Final
  BY DEF Typed, RunStatus, Final
<1>3. /\ c = "active" /\ e.state = "running"
      /\ Dated(row, e) /\ Running(row, e, so)
      /\ \A g \in Stages \cap {Self, Manager} : e.run[g] \in {"active", "done"}
  BY <1>1, OpenIsLive
<1>4. InOrder(e) /\ so = 2 .. (s - 1)
  BY DEF Coherent, Approved
<1>5. /\ \A g \in Stages : g < s => e.run[g] = "done"
      /\ \A t \in Stages : t # s => e.run[t] # "active"
  BY <1>1, <1>2, <1>4, BeforeOpen
<1>6. InOrder(d)
  BY <1>1, <1>2, <1>3, <1>4, AdvancedInOrder
<1>7. /\ x \in Instances /\ x.state = "running"
      /\ \A t \in Stages : x.run[t] = IF t = s THEN "done" ELSE e.run[t]
  BY <1>1, <1>2, <1>3, RanRuns
<1>8. GroupOver(x, s) /\ After(s) = s + 1
  BY <1>1, <1>7 DEF GroupOver, Group, After
<1> HIDE DEF x
<1>9. /\ d \in Instances /\ d.state = "running"
      /\ \A t \in Stages : d.run[t] = IF t = s + 1 THEN "active" ELSE x.run[t]
  BY <1>1, <1>7, <1>8, AdvancedRuns
<1>10. /\ new \in Rows
       /\ new.selfAt = row.selfAt /\ new.managerAt = row.managerAt /\ new.sharedAt = row.sharedAt
  BY <1>1, <1>2, <1>7, FollowedRow
<1>11. new.status = IF s + 1 \in Approvals THEN "pending_approval" ELSE "pending_share"
  <2>1. new.status = IF row.status \notin Final /\ x.state = "running" /\ GroupOver(x, s)
                        /\ After(s) \in Approvals
                      THEN "pending_approval"
                      ELSE IF row.status \notin Final /\ x.state = "running" /\ GroupOver(x, s)
                        /\ After(s) = Share
                      THEN "pending_share"
                      ELSE row.status
    BY <1>1, <1>2, <1>7, FollowedRow
  <2>2. QED BY <1>1, <1>2, <1>7, <1>8, <2>1
<1> HIDE DEF new, d
<1>12. \A t \in Stages \cap {Self, Manager} : d.run[t] = "done" /\ e.run[t] = "done"
  BY <1>1, <1>5, <1>7, <1>9
<1>13. Dated(new, d)
  BY <1>1, <1>3, <1>10, <1>12 DEF Dated
<1>14. Waits(new, d)
  BY <1>1, <1>9, <1>11 DEF Waits, Pending
<1>15. Running(new, d, so \cup {s})
  BY <1>1, <1>9, <1>11, <1>12 DEF Running
<1>16. so \cup {s} = 2 .. s
  BY <1>1, <1>4
<1>17. Approved(new, d, so \cup {s})
  <2>1. \A t \in Approvals : d.run[t] = "active" => t = s + 1
    BY <1>1, <1>5, <1>7, <1>9
  <2>2. new.status = "pending_share" => 2 .. s = Approvals
    BY <1>1, <1>11, StageFacts DEF Approvals, Share
  <2>3. (s + 1) - 1 = s
    BY <1>1
  <2>4. QED BY <1>16, <2>1, <2>2, <2>3 DEF Approved
<1>18. Typed(new, d, so \cup {s})
  BY <1>2, <1>9, <1>10, <1>11 DEF Typed
<1>19. Coherent(c, new, d, so \cup {s})
  <2>1. InOrder(d)
    BY <1>6 DEF d, x
  <2>2. QED BY <1>3, <1>9, <1>11, <1>13, <1>14, <1>15, <1>17, <2>1 DEF Coherent, Outcomes
<1>20. QED BY <1>18, <1>19 DEF x, new, d

LEMMA ReturnedCoherent ==
    ASSUME template \in Templates, NEW c \in {"draft", "active", "closed"},
           NEW row, NEW e, NEW so, Typed(row, e, so), Coherent(c, row, e, so),
           row.status = "pending_approval", NEW s \in Approvals, e.run[s] = "active"
    PROVE  LET d == Activated(Ran(e, s, "rejected"), {Manager})
               new == [Unrated(row, "pending_manager") EXCEPT !.proposed = None]
           IN  Typed(new, d, {}) /\ Coherent(c, new, d, {})
<1> DEFINE x == Ran(e, s, "rejected")
           d == Activated(x, {Manager})
           new == [Unrated(row, "pending_manager") EXCEPT !.proposed = None]
<1>1. /\ s \in Stages /\ s >= 2 /\ Manager \in Stages /\ (Self \in Stages <=> template.self)
      /\ Approvals \subseteq Stages /\ Stages \subseteq Nat /\ Self = 0 /\ Manager = 1
      /\ \A t \in Approvals : t >= 2
  BY StageFacts
<1>2. /\ row \in Rows /\ e \in Instances /\ "rejected" \in RunStatus
  BY DEF Typed, RunStatus
<1>3. /\ c = "active" /\ e.state = "running" /\ Dated(row, e)
  BY <1>1, OpenIsLive
<1>4. InOrder(e)
  BY DEF Coherent
<1>5. /\ \A g \in Stages : g < s => e.run[g] = "done"
      /\ \A t \in Stages : t # s => e.run[t] # "active"
  BY <1>1, <1>2, <1>4, BeforeOpen
<1>6. /\ x \in Instances /\ x.state = "running"
      /\ \A t \in Stages : x.run[t] = IF t = s THEN "rejected" ELSE e.run[t]
  BY <1>1, <1>2, <1>3, RanRuns
<1> HIDE DEF x
<1>7. /\ d \in Instances /\ d.state = "running"
      /\ \A t \in Stages : d.run[t] = IF t = Manager THEN "active" ELSE x.run[t]
  BY <1>6, ActivatedRuns
<1>8. /\ new \in Rows /\ new.status = "pending_manager" /\ new.managerAt = FALSE
      /\ new.selfAt = row.selfAt
  BY <1>2 DEF Rows, Unrated, Pending, Values
<1> HIDE DEF d, new
<1>9. \A t \in Stages : t >= 2 => d.run[t] # "active"
  BY <1>1, <1>5, <1>6, <1>7
<1>10. InOrder(d)
  BY <1>1, <1>9 DEF InOrder, Group, Self, Manager
<1>11. template.self => d.run[Self] = e.run[Self]
  BY <1>1, <1>6, <1>7
<1>12. Dated(new, d) /\ Waits(new, d) /\ Running(new, d, {}) /\ Approved(new, d, {})
  <2>1. Dated(new, d)
    BY <1>1, <1>3, <1>7, <1>8, <1>11 DEF Dated
  <2>2. Waits(new, d) /\ Running(new, d, {})
    BY <1>1, <1>7, <1>8 DEF Waits, Running, Pending
  <2>3. Approved(new, d, {})
    BY <1>1, <1>8, <1>9 DEF Approved
  <2>4. QED BY <2>1, <2>2, <2>3
<1>13. Typed(new, d, {})
  BY <1>7, <1>8 DEF Typed
<1>14. Coherent(c, new, d, {})
  BY <1>3, <1>7, <1>8, <1>10, <1>12 DEF Coherent, Outcomes
<1>15. QED BY <1>13, <1>14 DEF x, new, d

\* Share or signature, decided on the instance if it is their turn: the evaluations
\* stay as they are, and no approval opens.
LEMMA DecidedLast ==
    ASSUME template \in Templates, NEW e \in Instances, InOrder(e),
           e.state \in {"running", "completed"}, e.state \in Outcomes => Quiet(e),
           \A g \in Stages \cap {Self, Manager} : e.run[g] \in {"active", "done"},
           NEW s \in {Share, Sign}
    PROVE  LET d == DecidedIfOpen(e, s) IN
           /\ d \in Instances /\ d.state \in {"running", "completed"}
           /\ d.state \in Outcomes => Quiet(d)
           /\ InOrder(d)
           /\ \A t \in Stages \cap {Self, Manager} : d.run[t] = e.run[t]
           /\ \A t \in Approvals : d.run[t] = "active" => e.run[t] = "active"
<1> DEFINE x == Ran(e, s, "done")
           d == DecidedIfOpen(e, s)
<1>1. CASE ~(s \in Stages /\ e.run[s] = "active")
  BY <1>1 DEF DecidedIfOpen
<1>2. CASE s \in Stages /\ e.run[s] = "active"
  <2>1. /\ s >= 2 /\ s \in Nat /\ "done" \in RunStatus /\ Self = 0 /\ Manager = 1
        /\ Approvals \subseteq Stages /\ Stages \subseteq Nat /\ s + 1 \notin Approvals
        /\ \A t \in Approvals : t < s
    BY <1>2, StageFacts DEF RunStatus
  <2>2. e.state = "running"
    BY <1>2 DEF Quiet, Outcomes
  <2>3. d = Advanced(x, s)
    BY <1>2 DEF DecidedIfOpen, Decided
  <2>4. /\ x \in Instances /\ x.state = "running"
        /\ \A t \in Stages : x.run[t] = IF t = s THEN "done" ELSE e.run[t]
    BY <1>2, <2>1, <2>2, RanRuns
  <2>5. InOrder(Advanced(x, s))
    BY <1>2, <2>2, AdvancedInOrder
  <2>6. \A g \in Stages : g < s => e.run[g] = "done"
    BY <1>2, <2>1, BeforeOpen
  <2>7. GroupOver(x, s) /\ After(s) = s + 1
    BY <1>2, <2>1, <2>4 DEF GroupOver, Group, After
  <2> HIDE DEF x
  <2>8. /\ Advanced(x, s) \in Instances
        /\ IF s + 1 \in Stages
           THEN /\ Advanced(x, s).state = "running"
                /\ \A t \in Stages :
                     Advanced(x, s).run[t] = IF t = s + 1 THEN "active" ELSE x.run[t]
           ELSE /\ Advanced(x, s).state = "completed"
                /\ \A t \in Stages :
                     Advanced(x, s).run[t] =
                       IF x.run[t] \in {"pending", "active"} THEN "skipped" ELSE x.run[t]
    BY <1>2, <2>4, <2>7, AdvancedRuns
  <2>9. Advanced(x, s).state \in Outcomes => Quiet(Advanced(x, s))
    BY <2>8 DEF Quiet, Outcomes
  <2>10. \A t \in Stages : t < s => Advanced(x, s).run[t] = "done" /\ e.run[t] = "done"
    <3>1. ASSUME NEW t \in Stages, t < s
          PROVE  x.run[t] = "done" /\ e.run[t] = "done" /\ t # s + 1
      <4>1. t \in Nat /\ s \in Nat
        BY <2>1
      <4>2. t # s /\ t # s + 1
        BY <3>1, <4>1
      <4>3. QED BY <2>4, <2>6, <3>1, <4>2
    <3>2. CASE s + 1 \in Stages
      BY <2>8, <3>1, <3>2
    <3>3. CASE s + 1 \notin Stages
      BY <2>8, <3>1, <3>3
    <3>4. QED BY <3>1, <3>2, <3>3
  <2>11. /\ \A t \in Stages \cap {Self, Manager} : Advanced(x, s).run[t] = e.run[t]
         /\ \A t \in Approvals : Advanced(x, s).run[t] = "active" => e.run[t] = "active"
    <3>1. \A t \in Stages \cap {Self, Manager} : t < s
      BY <2>1
    <3>2. \A t \in Approvals : t \in Stages /\ t < s
      BY <2>1
    <3>3. QED BY <2>10, <3>1, <3>2
  <2>12. Advanced(x, s).state \in {"running", "completed"}
    BY <2>8
  <2>13. QED BY <2>3, <2>5, <2>8, <2>9, <2>11, <2>12 DEF x
<1>3. QED BY <1>1, <1>2

\* Sharing or signing.
LEMMA ConcludedCoherent ==
    ASSUME template \in Templates,
           NEW row, NEW e, NEW so, Typed(row, e, so), Coherent("active", row, e, so),
           row.status # "none", NEW s \in {Share, Sign}, NEW new \in Rows,
           new.status \in {"shared", "signed"}, new.sharedAt = TRUE,
           new.selfAt = row.selfAt, new.managerAt = row.managerAt
    PROVE  Typed(new, DecidedIfOpen(e, s), so) /\ Coherent("active", new, DecidedIfOpen(e, s), so)
<1> DEFINE d == DecidedIfOpen(e, s)
<1>1. /\ e \in Instances /\ so \in SUBSET Approvals /\ InOrder(e) /\ Approved(row, e, so)
      /\ Dated(row, e) /\ Running(row, e, so) /\ (e.state \in Outcomes => Quiet(e))
  BY DEF Coherent, Typed
<1>2. /\ e.state \in {"running", "completed"}
      /\ \A g \in Stages \cap {Self, Manager} : e.run[g] \in {"active", "done"}
  BY <1>1, StageFacts DEF Dated, Running
<1>3. /\ d \in Instances /\ d.state \in {"running", "completed"}
      /\ d.state \in Outcomes => Quiet(d)
      /\ InOrder(d)
      /\ \A t \in Stages \cap {Self, Manager} : d.run[t] = e.run[t]
      /\ \A t \in Approvals : d.run[t] = "active" => e.run[t] = "active"
  BY <1>1, <1>2, DecidedLast
<1> HIDE DEF d
<1>4. d.run[Manager] = e.run[Manager] /\ (template.self => d.run[Self] = e.run[Self])
  BY <1>3, StageFacts
<1>5. Dated(new, d)
  BY <1>1, <1>4 DEF Dated
<1>6. Waits(new, d)
  BY DEF Waits, Pending
<1>7. Running(new, d, so)
  BY <1>1, <1>3, <1>4 DEF Running
<1>8. Approved(new, d, so)
  BY <1>1, <1>3 DEF Approved
<1>9. Typed(new, d, so)
  BY <1>1, <1>3 DEF Typed
<1>10. Coherent("active", new, d, so)
  BY <1>3, <1>5, <1>6, <1>7, <1>8 DEF Coherent
<1>11. QED BY <1>9, <1>10 DEF d

LEMMA ReopenedCoherent ==
    ASSUME template \in Templates,
           NEW row, NEW e, NEW so, Typed(row, e, so), Coherent("active", row, e, so),
           row.status # "none", NEW target \in Stages \cap {Self, Manager}
    PROVE  LET d == Reopened(e, target)
               new == [Unrated(row, IF target = Self THEN "pending_self" ELSE "pending_manager")
                         EXCEPT !.selfAt = row.selfAt /\ target # Self,
                                !.sharedAt = FALSE, !.signedAt = FALSE]
           IN  Typed(new, d, {}) /\ Coherent("active", new, d, {})
<1> DEFINE d == Reopened(e, target)
           new == [Unrated(row, IF target = Self THEN "pending_self" ELSE "pending_manager")
                     EXCEPT !.selfAt = row.selfAt /\ target # Self,
                            !.sharedAt = FALSE, !.signedAt = FALSE]
<1>1. /\ Manager \in Stages /\ (Self \in Stages <=> template.self)
      /\ Approvals \subseteq Stages /\ Stages \subseteq Nat /\ Self = 0 /\ Manager = 1
      /\ \A t \in Approvals : t >= 2
  BY StageFacts
<1>2. row \in Rows /\ e \in Instances /\ Dated(row, e)
  BY DEF Typed, Coherent
<1>3. /\ d \in Instances /\ d.state = "running"
      /\ \A t \in Stages : d.run[t] = IF t < target THEN e.run[t]
                                      ELSE IF t \in {Self, Manager} THEN "active" ELSE "pending"
  BY <1>2, ReopenedRuns
<1>4. target = Self \/ target = Manager
  OBVIOUS
<1>5. /\ new \in Rows /\ new.managerAt = FALSE
      /\ target = Self => new.status = "pending_self" /\ new.selfAt = FALSE
      /\ target = Manager => new.status = "pending_manager" /\ new.selfAt = row.selfAt
  <2> DEFINE status == IF target = Self THEN "pending_self" ELSE "pending_manager"
             kept == row.selfAt /\ target # Self
  <2>1. /\ kept \in BOOLEAN /\ (target = Self => kept = FALSE)
        /\ target = Manager => kept = row.selfAt
    BY <1>1, <1>2 DEF Rows
  <2>2. /\ status \in Pending /\ (target = Self => status = "pending_self")
        /\ target = Manager => status = "pending_manager"
    BY <1>1 DEF Pending
  <2> HIDE DEF status, kept
  <2>3. Unrated(row, status) \in Rows /\ Unrated(row, status).managerAt = FALSE
        /\ Unrated(row, status).status = status
    BY <1>2, <2>2 DEF Rows, Unrated, Values
  <2>4. new = [Unrated(row, status) EXCEPT !.selfAt = kept, !.sharedAt = FALSE, !.signedAt = FALSE]
    BY DEF status, kept
  <2>5. new \in Rows /\ new.managerAt = FALSE /\ new.status = status /\ new.selfAt = kept
    BY <2>1, <2>3, <2>4 DEF Rows
  <2>6. QED BY <2>1, <2>2, <2>5
<1> HIDE DEF d, new
<1>6. /\ \A t \in Stages : t >= 2 => d.run[t] = "pending"
      /\ d.run[Manager] = "active"
      /\ target = Self => d.run[Self] = "active"
      /\ target = Manager /\ template.self => d.run[Self] = e.run[Self]
  BY <1>1, <1>3, <1>4
<1>7. InOrder(d)
  <2>1. \A t \in Stages : t >= 2 => d.run[t] # "active"
    BY <1>6
  <2>2. QED BY <1>1, <2>1 DEF InOrder, Group, Self, Manager
<1>8. Dated(new, d)
  BY <1>1, <1>2, <1>4, <1>5, <1>6 DEF Dated
<1>9. Waits(new, d)
  BY <1>1, <1>4, <1>5, <1>6 DEF Waits, Pending
<1>10. Running(new, d, {}) /\ Approved(new, d, {})
  BY <1>1, <1>3, <1>4, <1>5, <1>6 DEF Running, Approved
<1>11. Typed(new, d, {})
  BY <1>3, <1>4, <1>5 DEF Typed
<1>12. Coherent("active", new, d, {})
  BY <1>3, <1>4, <1>5, <1>7, <1>8, <1>9, <1>10 DEF Coherent, Outcomes
<1>13. QED BY <1>11, <1>12 DEF d, new

\* The end of the cycle.
LEMMA ClosedCoherent ==
    ASSUME template \in Templates, NEW r \in Reviews,
           Typed(review[r], inst[r], signedOff[r]),
           Coherent("active", review[r], inst[r], signedOff[r])
    PROVE  LET new == [review[r] EXCEPT !.status = ClosedStatus(review[r].status)] IN
           /\ Typed(new, ClosedInst(r), signedOff[r])
           /\ Coherent("closed", new, ClosedInst(r), signedOff[r])
<1> DEFINE row == review[r]
           e == inst[r]
           so == signedOff[r]
           new == [row EXCEPT !.status = ClosedStatus(row.status)]
           outcome == IF row.status \in {"shared", "signed"} THEN "closed" ELSE "cancelled"
           d == ClosedInst(r)
<1>1. /\ row \in Rows /\ e \in Instances /\ so \in SUBSET Approvals /\ outcome \in Outcomes
      /\ e.state = "none" <=> row.status = "none"
      /\ e.state \in {"none", "running"} \cup Outcomes
  BY DEF Typed, Outcomes, Instances
<1>2. /\ ClosedStatus(row.status) \in {"none"} \cup Pending \cup Final
      /\ new \in Rows /\ new.status = ClosedStatus(row.status) /\ new.managerAt = row.managerAt
  BY <1>1 DEF Rows, ClosedStatus, Pending, Final
<1>3. CASE row.status = "none"
  <2>1. new.status = "none" /\ d = e
    BY <1>1, <1>2, <1>3 DEF ClosedStatus, ClosedInst
  <2>2. QED BY <1>1, <1>2, <1>3, <2>1 DEF Typed, Coherent, Approved
<1>4. CASE row.status # "none"
  <2>1. /\ Running(row, e, so) /\ InOrder(e) /\ (e.state \in Outcomes => Quiet(e))
    BY <1>4 DEF Coherent
  <2>2. d = IF e.state # "running" THEN e ELSE Completed(e, outcome)
    BY DEF ClosedInst
  <2>3. /\ Completed(e, outcome) \in Instances /\ Completed(e, outcome).state = outcome
        /\ \A t \in Stages : Completed(e, outcome).run[t] =
                IF e.run[t] \in {"pending", "active"} THEN "skipped" ELSE e.run[t]
    BY <1>1, CompletedRuns
  <2>4. d \in Instances /\ d.state \in Outcomes /\ Quiet(d)
    BY <1>1, <2>1, <2>2, <2>3 DEF Quiet, Running, Outcomes
  <2>5. InOrder(d)
    BY <2>4 DEF Quiet, InOrder
  <2>6. /\ new.status \in {"closed", "cancelled", "pending_approval"}
        /\ new.status = "closed" <=> row.status \in {"shared", "signed"}
    BY <1>1, <1>2, <1>4, <2>1 DEF ClosedStatus, Rows, Pending, Final, Running
  <2>7. d.state = "cancelled" <=> row.status \notin {"shared", "signed"}
    BY <2>1, <2>2, <2>3 DEF Running
  <2> HIDE DEF new, d, row, e, so, outcome
  <2>8. Settled(new, d)
    BY <2>4, <2>6, <2>7 DEF Settled
  <2>9. Approved(new, d, so)
    BY <2>4, <2>6, StageFacts DEF Approved, Quiet
  <2>10. Typed(new, d, so)
    BY <1>1, <1>2, <2>4, <2>6 DEF Typed, Outcomes
  <2>11. Coherent("closed", new, d, so)
    BY <2>4, <2>5, <2>6, <2>8, <2>9 DEF Coherent
  <2>12. QED BY <2>10, <2>11 DEF row, e, so, new, d
<1>5. QED BY <1>3, <1>4

\* The launch.
LEMMA LaunchedCoherent ==
    ASSUME template \in Templates
    PROVE  LET new == NewRow(IF template.self THEN "pending_self" ELSE "pending_manager")
               d == Activated([state |-> "running", run |-> [s \in Stages |-> "pending"]],
                              Group(Manager))
           IN  Typed(new, d, {}) /\ Coherent("active", new, d, {})
<1> DEFINE x == [state |-> "running", run |-> [s \in Stages |-> "pending"]]
           d == Activated(x, Group(Manager))
           new == NewRow(IF template.self THEN "pending_self" ELSE "pending_manager")
<1>1. /\ Manager \in Stages /\ (Self \in Stages <=> template.self) /\ template.self \in BOOLEAN
      /\ Approvals \subseteq Stages /\ Stages \subseteq Nat /\ Self = 0 /\ Manager = 1
      /\ \A t \in Approvals : t >= 2
  BY StageFacts
<1>2. x \in Instances /\ x.state = "running" /\ \A s \in Stages : x.run[s] = "pending"
  BY DEF Instances, RunStatus
<1>3. Group(Manager) = Stages \cap {Self, Manager}
  BY DEF Group
<1> HIDE DEF x
<1>4. /\ d \in Instances /\ d.state = "running"
      /\ \A t \in Stages : d.run[t] = IF t \in {Self, Manager} THEN "active" ELSE "pending"
  BY <1>2, <1>3, ActivatedRuns
<1>5. /\ new \in Rows /\ new.selfAt = FALSE /\ new.managerAt = FALSE
      /\ new.status = IF template.self THEN "pending_self" ELSE "pending_manager"
  BY <1>1 DEF NewRow, Rows, Pending, Values
<1> HIDE DEF d, new
<1>6. /\ \A t \in Stages : t >= 2 => d.run[t] # "active"
      /\ d.run[Manager] = "active" /\ (template.self => d.run[Self] = "active")
  BY <1>1, <1>4
<1>7. InOrder(d)
  BY <1>1, <1>6 DEF InOrder, Group, Self, Manager
<1>8. Dated(new, d) /\ Running(new, d, {})
  BY <1>4, <1>5, <1>6 DEF Dated, Running
<1>9. Waits(new, d) /\ Approved(new, d, {})
  BY <1>1, <1>5, <1>6 DEF Waits, Approved, Pending
<1>10. Typed(new, d, {}) /\ Coherent("active", new, d, {})
  BY <1>4, <1>5, <1>7, <1>8, <1>9 DEF Typed, Coherent, Outcomes
<1>11. QED BY <1>10 DEF x, d, new

\* Handlers of the rating and of the sessions leave the rest of the row alone.
LEMMA KeptCoherent ==
    ASSUME NEW c, NEW row, NEW e, NEW so, Typed(row, e, so), Coherent(c, row, e, so),
           NEW new \in Rows, new.status = row.status, new.selfAt = row.selfAt,
           new.managerAt = row.managerAt, new.sharedAt = row.sharedAt
    PROVE  Typed(new, e, so) /\ Coherent(c, new, e, so)
  BY DEF Typed, Coherent, Dated, Waits, Running, Approved, Settled

-------------------------------------------------------------------------------
(* The invariant is inductive *)

LEMMA InvFacts ==
    ASSUME Inv
    PROVE  /\ template \in Templates /\ cycle \in {"draft", "active", "closed"}
           /\ review \in [Reviews -> Rows] /\ inst \in [Reviews -> Instances]
           /\ signedOff \in [Reviews -> SUBSET Approvals]
           /\ \A r \in Reviews : /\ Typed(review[r], inst[r], signedOff[r])
                                 /\ Coherent(cycle, review[r], inst[r], signedOff[r])
  BY DEF Inv, TypeOK, Typed, Launched

\* A step that leaves every review typed and coherent keeps the invariant.
LEMMA Framed ==
    ASSUME template \in Templates, template' = template,
           cycle' \in {"draft", "active", "closed"},
           calibration' \in [Sessions -> {"none", "open", "locked"}],
           corrected' \in [Reviews -> BOOLEAN],
           review' = [r \in Reviews |-> review'[r]], inst' = [r \in Reviews |-> inst'[r]],
           signedOff' = [r \in Reviews |-> signedOff'[r]],
           \A r \in Reviews : /\ Typed(review'[r], inst'[r], signedOff'[r])
                              /\ Coherent(cycle', review'[r], inst'[r], signedOff'[r])
    PROVE  Inv'
<1>1. Stages' = Stages /\ Approvals' = Approvals /\ Share' = Share
  BY DEF Stages, Approvals, Share, Sign, Self, Manager
<1>2. Instances' = Instances
  BY <1>1 DEF Instances
<1>3. /\ review' \in [Reviews -> Rows] /\ inst' \in [Reviews -> Instances]
      /\ signedOff' \in [Reviews -> SUBSET Approvals]
      /\ \A r \in Reviews : inst'[r].state = "none" <=> review'[r].status = "none"
  BY DEF Typed
<1>4. TypeOK'
  BY <1>1, <1>2, <1>3 DEF TypeOK, Launched
<1>5. ASSUME NEW r \in Reviews PROVE Coherent(cycle, review[r], inst[r], signedOff[r])'
  <2> DEFINE c == cycle'  row == review'[r]  e == inst'[r]  so == signedOff'[r]
  <2>1. Coherent(c, row, e, so)
    OBVIOUS
  <2>2. Self' = Self /\ Manager' = Manager
    BY DEF Self, Manager
  <2>3. QED
    BY <1>1, <2>1, <2>2 DEF Coherent, Quiet, InOrder, Group, Dated, Waits, Running, Approved, Settled
<1>6. QED BY <1>4, <1>5 DEF Inv

\* A handler of one review.
LEMMA OneReview ==
    ASSUME Inv, template' = template, cycle' = cycle, NEW r \in Reviews,
           calibration' = calibration, corrected' \in [Reviews -> BOOLEAN],
           NEW row, NEW e, NEW so, Typed(row, e, so), Coherent(cycle, row, e, so),
           review' = Put(review, r, row), inst' = Put(inst, r, e), signedOff' = Put(signedOff, r, so)
    PROVE  Inv'
<1>1. /\ review \in [Reviews -> Rows] /\ inst \in [Reviews -> Instances]
      /\ signedOff \in [Reviews -> SUBSET Approvals]
      /\ template \in Templates /\ cycle \in {"draft", "active", "closed"}
  BY InvFacts
<1>2. \A q \in Reviews :
        /\ review'[q] = IF q = r THEN row ELSE review[q]
        /\ inst'[q] = IF q = r THEN e ELSE inst[q]
        /\ signedOff'[q] = IF q = r THEN so ELSE signedOff[q]
  BY <1>1 DEF Put
<1>3. /\ review' = [q \in Reviews |-> review'[q]] /\ inst' = [q \in Reviews |-> inst'[q]]
      /\ signedOff' = [q \in Reviews |-> signedOff'[q]]
  BY <1>1 DEF Put
<1>4. \A q \in Reviews : /\ Typed(review'[q], inst'[q], signedOff'[q])
                         /\ Coherent(cycle', review'[q], inst'[q], signedOff'[q])
  <2>1. TAKE q \in Reviews
  <2>2. CASE q = r
    BY <1>2, <2>2
  <2>3. CASE q # r
    BY <1>2, <2>3, InvFacts
  <2>4. QED BY <2>2, <2>3
<1>5. calibration \in [Sessions -> {"none", "open", "locked"}]
  BY DEF Inv, TypeOK
<1>6. QED BY <1>1, <1>3, <1>4, <1>5, Framed

\* A handler that touches neither status nor dates.
LEMMA RowsKept ==
    ASSUME Inv, template' = template, cycle' = cycle, inst' = inst, signedOff' = signedOff,
           calibration' \in [Sessions -> {"none", "open", "locked"}],
           corrected' \in [Reviews -> BOOLEAN], review' \in [Reviews -> Rows],
           \A r \in Reviews : /\ review'[r].status = review[r].status
                              /\ review'[r].selfAt = review[r].selfAt
                              /\ review'[r].managerAt = review[r].managerAt
                              /\ review'[r].sharedAt = review[r].sharedAt
    PROVE  Inv'
<1>1. /\ inst \in [Reviews -> Instances] /\ signedOff \in [Reviews -> SUBSET Approvals]
      /\ template \in Templates /\ cycle \in {"draft", "active", "closed"}
  BY InvFacts
<1>2. ASSUME NEW r \in Reviews
      PROVE  /\ Typed(review'[r], inst'[r], signedOff'[r])
             /\ Coherent(cycle', review'[r], inst'[r], signedOff'[r])
  <2>1. Typed(review[r], inst[r], signedOff[r]) /\ Coherent(cycle, review[r], inst[r], signedOff[r])
    BY InvFacts
  <2>2. review'[r] \in Rows
    OBVIOUS
  <2>3. /\ Typed(review'[r], inst[r], signedOff[r])
        /\ Coherent(cycle, review'[r], inst[r], signedOff[r])
    BY <2>1, <2>2, KeptCoherent
  <2>4. QED BY <2>3
<1>3. /\ review' = [q \in Reviews |-> review'[q]] /\ inst' = [q \in Reviews |-> inst'[q]]
      /\ signedOff' = [q \in Reviews |-> signedOff'[q]]
  BY <1>1
<1>4. QED BY <1>1, <1>2, <1>3, Framed

\* A rating corrected, by HR or in calibration.
LEMMA CorrectedKeeps ==
    ASSUME Inv, NEW r \in Reviews, NEW rating \in Values, Corrected(r, rating)
    PROVE  Inv'
<1>1. review \in [Reviews -> Rows] /\ corrected \in [Reviews -> BOOLEAN]
      /\ calibration \in [Sessions -> {"none", "open", "locked"}]
  BY DEF Inv, TypeOK
<1>2. review' = Put(review, r, [review[r] EXCEPT !.final = rating])
  BY DEF Corrected
<1>3. [review[r] EXCEPT !.final = rating] \in Rows
  BY <1>1 DEF Rows
<1>4. review' \in [Reviews -> Rows]
  BY <1>1, <1>2, <1>3 DEF Put
<1>5. \A q \in Reviews : /\ review'[q].status = review[q].status
                         /\ review'[q].selfAt = review[q].selfAt
                         /\ review'[q].managerAt = review[q].managerAt
                         /\ review'[q].sharedAt = review[q].sharedAt
  <2>1. \A q \in Reviews :
          review'[q] = IF q = r THEN [review[r] EXCEPT !.final = rating] ELSE review[q]
    BY <1>1, <1>2 DEF Put
  <2>2. review[r] \in Rows
    BY <1>1
  <2>3. QED BY <2>1, <2>2 DEF Rows
<1>6. corrected' \in [Reviews -> BOOLEAN]
  BY <1>1 DEF Corrected, Put
<1>7. QED BY <1>1, <1>4, <1>5, <1>6, RowsKept DEF Corrected

\* A perimeter set or changed.
LEMMA AttachedKeeps ==
    ASSUME Inv, NEW c \in Sessions, NEW perimeter, review' = Attached(c, perimeter),
           calibration' \in [Sessions -> {"none", "open", "locked"}],
           UNCHANGED <<cycle, template, inst, signedOff, corrected>>
    PROVE  Inv'
<1>1. review \in [Reviews -> Rows] /\ corrected \in [Reviews -> BOOLEAN]
  BY DEF Inv, TypeOK
<1> DEFINE to(r) == IF /\ r \in perimeter /\ Launched(r) /\ review[r].status # "cancelled"
                       /\ review[r].session \notin OtherOpen(c)
                    THEN c
                    ELSE IF review[r].session = c /\ r \notin perimeter THEN None
                    ELSE review[r].session
<1>2. \A r \in Reviews : to(r) \in Sessions \cup {None}
  BY <1>1 DEF Rows
<1>3. review' = [r \in Reviews |-> [review[r] EXCEPT !.session = to(r)]]
  BY DEF Attached
<1> HIDE DEF to
<1>4. ASSUME NEW r \in Reviews
      PROVE  /\ review'[r] \in Rows
             /\ review'[r].status = review[r].status /\ review'[r].selfAt = review[r].selfAt
             /\ review'[r].managerAt = review[r].managerAt
             /\ review'[r].sharedAt = review[r].sharedAt
  <2>1. review[r] \in Rows
    BY <1>1
  <2>2. review'[r] = [review[r] EXCEPT !.session = to(r)]
    BY <1>3
  <2>3. QED BY <1>2, <2>1, <2>2 DEF Rows
<1>5. review' \in [Reviews -> Rows]
  BY <1>3, <1>4
<1>6. QED BY <1>1, <1>4, <1>5, RowsKept

LEMMA InitInv == Init => Inv
<1> SUFFICES ASSUME Init PROVE Inv
  OBVIOUS
<1>1. template \in Templates
  BY DEF Init
<1>2. NewRow("none") \in Rows /\ NewRow("none").status = "none" /\ ~NewRow("none").managerAt
  BY DEF NewRow, Rows, Values
<1> DEFINE e == [state |-> "none", run |-> [s \in Stages |-> "pending"]]
<1>3. e \in Instances /\ e.state = "none" /\ \A s \in Stages : e.run[s] = "pending"
  BY DEF Instances, RunStatus
<1> HIDE DEF e
<1>4. \A r \in Reviews : review[r] = NewRow("none") /\ inst[r] = e /\ signedOff[r] = {}
  BY DEF Init, e
<1>5. TypeOK
  <2>1. review \in [Reviews -> Rows] /\ inst \in [Reviews -> Instances]
    BY <1>2, <1>3 DEF Init, e
  <2>2. QED BY <1>1, <1>2, <1>3, <1>4, <2>1 DEF Init, TypeOK, Launched
<1>6. \A s \in Approvals : s \in Stages
  BY <1>1, StageFacts
<1>7. ASSUME NEW r \in Reviews PROVE Coherent(cycle, review[r], inst[r], signedOff[r])
  BY <1>2, <1>3, <1>4, <1>6 DEF Coherent, InOrder, Approved, Outcomes
<1>8. QED BY <1>5, <1>7 DEF Inv

LEMMA LaunchKeeps ==
    ASSUME Inv, NEW population \in SUBSET Reviews, Launch(population)
    PROVE  Inv'
<1> DEFINE row == NewRow(IF template.self THEN "pending_self" ELSE "pending_manager")
           e == Activated([state |-> "running", run |-> [s \in Stages |-> "pending"]], Group(Manager))
<1>1. /\ template \in Templates /\ template' = template /\ cycle = "draft" /\ cycle' = "active"
      /\ signedOff' = signedOff /\ signedOff \in [Reviews -> SUBSET Approvals]
      /\ calibration' \in [Sessions -> {"none", "open", "locked"}]
      /\ corrected' \in [Reviews -> BOOLEAN]
  BY DEF Inv, TypeOK, Launch
<1>2. /\ review' = [r \in Reviews |-> IF r \in population THEN row ELSE review[r]]
      /\ inst' = [r \in Reviews |-> IF r \in population THEN e ELSE inst[r]]
  BY DEF Launch
<1>3. Typed(row, e, {}) /\ Coherent("active", row, e, {})
  BY <1>1, LaunchedCoherent
<1> HIDE DEF row, e
<1>4. ASSUME NEW r \in Reviews
      PROVE  /\ Typed(review'[r], inst'[r], signedOff'[r])
             /\ Coherent(cycle', review'[r], inst'[r], signedOff'[r])
  <2>1. /\ Typed(review[r], inst[r], signedOff[r])
        /\ Coherent("draft", review[r], inst[r], signedOff[r])
    BY <1>1, InvFacts
  <2>2. review[r].status = "none" /\ signedOff[r] = {}
    BY <2>1 DEF Coherent
  <2>3. CASE r \in population
    BY <1>1, <1>2, <1>3, <2>2, <2>3
  <2>4. CASE r \notin population
    <3>1. Coherent("active", review[r], inst[r], signedOff[r])
      BY <2>1, <2>2 DEF Coherent
    <3>2. QED BY <1>1, <1>2, <2>1, <2>4, <3>1
  <2>5. QED BY <2>3, <2>4
<1>5. /\ review' = [q \in Reviews |-> review'[q]] /\ inst' = [q \in Reviews |-> inst'[q]]
      /\ signedOff' = [q \in Reviews |-> signedOff'[q]]
  BY <1>1, <1>2
<1>6. QED BY <1>1, <1>4, <1>5, Framed

LEMMA CloseCycleKeeps ==
    ASSUME Inv, CloseCycle
    PROVE  Inv'
<1>1. /\ template \in Templates /\ template' = template /\ cycle = "active" /\ cycle' = "closed"
      /\ signedOff' = signedOff /\ signedOff \in [Reviews -> SUBSET Approvals]
      /\ calibration' \in [Sessions -> {"none", "open", "locked"}]
      /\ corrected' \in [Reviews -> BOOLEAN]
  BY DEF Inv, TypeOK, CloseCycle
<1>2. /\ review' = [r \in Reviews |-> [review[r] EXCEPT !.status = ClosedStatus(review[r].status)]]
      /\ inst' = [r \in Reviews |-> ClosedInst(r)]
  BY DEF CloseCycle
<1>3. ASSUME NEW r \in Reviews
      PROVE  /\ Typed(review'[r], inst'[r], signedOff'[r])
             /\ Coherent(cycle', review'[r], inst'[r], signedOff'[r])
  <2> DEFINE new == [review[r] EXCEPT !.status = ClosedStatus(review[r].status)]
  <2>1. /\ Typed(review[r], inst[r], signedOff[r])
        /\ Coherent("active", review[r], inst[r], signedOff[r])
    BY <1>1, InvFacts
  <2>2. /\ Typed(new, ClosedInst(r), signedOff[r])
        /\ Coherent("closed", new, ClosedInst(r), signedOff[r])
    BY <1>1, <2>1, ClosedCoherent
  <2>3. review'[r] = new /\ inst'[r] = ClosedInst(r)
    BY <1>2
  <2>4. QED BY <1>1, <2>2, <2>3
<1>4. /\ review' = [q \in Reviews |-> review'[q]] /\ inst' = [q \in Reviews |-> inst'[q]]
      /\ signedOff' = [q \in Reviews |-> signedOff'[q]]
  BY <1>1, <1>2
<1>5. QED BY <1>1, <1>3, <1>4, Framed

LEMMA SubmitKeeps ==
    ASSUME Inv, NEW r \in Reviews, NEW s \in Stages \cap {Self, Manager}, NEW rating \in Values,
           SubmitStage(r, s, rating), corrected' \in [Reviews -> BOOLEAN],
           signedOff' = Put(signedOff, r, IF s = Manager THEN {} ELSE signedOff[r])
    PROVE  Inv'
<1> DEFINE row == review[r]  e == inst[r]  so == signedOff[r]
           x == Ran(e, s, "done")
           new == Followed(Submitted(row, s, rating), x, s)
           kept == IF s = Manager THEN {} ELSE so
<1>1. /\ template \in Templates /\ cycle \in {"draft", "active", "closed"}
      /\ Typed(row, e, so) /\ Coherent(cycle, row, e, so)
  BY InvFacts
<1>2. /\ e.run[s] = "active" /\ inst' = Put(inst, r, Advanced(x, s)) /\ review' = Put(review, r, new)
      /\ cycle' = cycle /\ template' = template /\ calibration' = calibration
  BY DEF SubmitStage
<1>3. Typed(new, Advanced(x, s), kept) /\ Coherent(cycle, new, Advanced(x, s), kept)
  BY <1>1, <1>2, SubmittedCoherent
<1>4. signedOff' = Put(signedOff, r, kept)
  OBVIOUS
<1> HIDE DEF row, e, so, x, new, kept
<1>5. QED BY <1>2, <1>3, <1>4, OneReview

LEMMA ApproveKeeps ==
    ASSUME Inv, NEW r \in Reviews, NEW s \in Approvals, Approve(r, s)
    PROVE  Inv'
<1> DEFINE row == review[r]  e == inst[r]  so == signedOff[r]
           x == Ran(e, s, "done")
           new == Followed(row, x, s)
<1>1. /\ template \in Templates /\ cycle \in {"draft", "active", "closed"}
      /\ Typed(row, e, so) /\ Coherent(cycle, row, e, so)
  BY InvFacts
<1>2. /\ e.run[s] = "active" /\ row.status = "pending_approval"
      /\ inst' = Put(inst, r, Advanced(x, s)) /\ review' = Put(review, r, new)
      /\ signedOff' = Put(signedOff, r, so \cup {s})
      /\ cycle' = cycle /\ template' = template /\ calibration' = calibration
  BY DEF Approve, InApproval
<1>3. Typed(new, Advanced(x, s), so \cup {s}) /\ Coherent(cycle, new, Advanced(x, s), so \cup {s})
  BY <1>1, <1>2, ApprovedCoherent
<1>4. corrected' \in [Reviews -> BOOLEAN]
  BY DEF Inv, TypeOK, Approve
<1> HIDE DEF row, e, so, x, new
<1>5. QED BY <1>2, <1>3, <1>4, OneReview

LEMMA ReturnKeeps ==
    ASSUME Inv, NEW r \in Reviews, NEW s \in Approvals, Return(r, s)
    PROVE  Inv'
<1> DEFINE row == review[r]  e == inst[r]  so == signedOff[r]
           d == Activated(Ran(e, s, "rejected"), {Manager})
           new == [Unrated(row, "pending_manager") EXCEPT !.proposed = None]
<1>1. /\ template \in Templates /\ cycle \in {"draft", "active", "closed"}
      /\ Typed(row, e, so) /\ Coherent(cycle, row, e, so)
  BY InvFacts
<1>2. /\ e.run[s] = "active" /\ row.status = "pending_approval"
      /\ inst' = Put(inst, r, d) /\ review' = Put(review, r, new)
      /\ signedOff' = Put(signedOff, r, {})
      /\ cycle' = cycle /\ template' = template /\ calibration' = calibration
  BY DEF Return, InApproval
<1>3. Typed(new, d, {}) /\ Coherent(cycle, new, d, {})
  BY <1>1, <1>2, ReturnedCoherent
<1>4. corrected' \in [Reviews -> BOOLEAN]
  BY DEF Inv, TypeOK, Return, Put
<1> HIDE DEF row, e, so, d, new
<1>5. QED BY <1>2, <1>3, <1>4, OneReview

LEMMA ShareKeeps ==
    ASSUME Inv, NEW r \in Reviews, ShareReview(r)
    PROVE  Inv'
<1> DEFINE row == review[r]  e == inst[r]  so == signedOff[r]
           d == DecidedIfOpen(e, Share)
           new == [row EXCEPT !.status = "shared", !.sharedAt = TRUE]
<1>1. /\ template \in Templates /\ row \in Rows /\ cycle = "active"
      /\ Typed(row, e, so) /\ Coherent("active", row, e, so)
  BY InvFacts DEF ShareReview, CanShare
<1>2. /\ row.managerAt /\ inst' = Put(inst, r, d) /\ review' = Put(review, r, new)
      /\ signedOff' = signedOff
      /\ cycle' = cycle /\ template' = template /\ calibration' = calibration
  BY DEF ShareReview, CanShare
<1>3. row.status # "none"
  BY <1>1, <1>2 DEF Coherent
<1>4. /\ new \in Rows /\ new.status \in {"shared", "signed"} /\ new.sharedAt = TRUE
      /\ new.selfAt = row.selfAt /\ new.managerAt = row.managerAt
  BY <1>1 DEF Rows, Final
<1> HIDE DEF row, e, so, new
<1>5. Typed(new, d, so) /\ Coherent("active", new, d, so)
  BY <1>1, <1>3, <1>4, ConcludedCoherent
<1>6. corrected' \in [Reviews -> BOOLEAN]
  BY DEF Inv, TypeOK, ShareReview
<1>7. signedOff' = Put(signedOff, r, so)
  BY <1>2, InvFacts DEF Put, so
<1> HIDE DEF d
<1>8. QED BY <1>1, <1>2, <1>5, <1>6, <1>7, OneReview

LEMMA SignKeeps ==
    ASSUME Inv, NEW r \in Reviews, SignReview(r)
    PROVE  Inv'
<1> DEFINE row == review[r]  e == inst[r]  so == signedOff[r]
           d == DecidedIfOpen(e, Sign)
           new == [row EXCEPT !.status = "signed", !.signedAt = TRUE]
<1>1. /\ template \in Templates /\ row \in Rows /\ cycle \in {"draft", "active", "closed"}
      /\ Typed(row, e, so) /\ Coherent(cycle, row, e, so)
  BY InvFacts
<1>2. /\ row.status = "shared" /\ inst' = Put(inst, r, d) /\ review' = Put(review, r, new)
      /\ signedOff' = signedOff
      /\ cycle' = cycle /\ template' = template /\ calibration' = calibration
  BY DEF SignReview
<1>3. cycle = "active" /\ row.sharedAt = TRUE
  BY <1>1, <1>2 DEF Coherent, Settled, Waits, Pending, Rows
<1>4. /\ new \in Rows /\ new.status \in {"shared", "signed"} /\ new.sharedAt = TRUE
      /\ new.selfAt = row.selfAt /\ new.managerAt = row.managerAt
  BY <1>1, <1>3 DEF Rows, Final
<1> HIDE DEF row, e, so, new
<1>5. Typed(new, d, so) /\ Coherent("active", new, d, so)
  BY <1>1, <1>2, <1>3, <1>4, ConcludedCoherent
<1>6. corrected' \in [Reviews -> BOOLEAN]
  BY DEF Inv, TypeOK, SignReview
<1>7. signedOff' = Put(signedOff, r, so)
  BY <1>2, InvFacts DEF Put, so
<1> HIDE DEF d
<1>8. QED BY <1>2, <1>3, <1>5, <1>6, <1>7, OneReview

LEMMA ReopenKeeps ==
    ASSUME Inv, NEW r \in Reviews, NEW target \in {Self, Manager}, Reopen(r, target)
    PROVE  Inv'
<1> DEFINE row == review[r]  e == inst[r]  so == signedOff[r]
           d == Reopened(e, target)
           new == [Unrated(row, IF target = Self THEN "pending_self" ELSE "pending_manager")
                     EXCEPT !.selfAt = row.selfAt /\ target # Self,
                            !.sharedAt = FALSE, !.signedAt = FALSE]
<1>1. /\ template \in Templates /\ cycle = "active"
      /\ Typed(row, e, so) /\ Coherent("active", row, e, so)
  BY InvFacts DEF Reopen
<1>2. /\ row.status # "none" /\ target \in Stages \cap {Self, Manager}
      /\ inst' = Put(inst, r, d) /\ review' = Put(review, r, new)
      /\ signedOff' = Put(signedOff, r, {})
      /\ cycle' = cycle /\ template' = template /\ calibration' = calibration
  BY DEF Reopen, Launched
<1>3. Typed(new, d, {}) /\ Coherent("active", new, d, {})
  BY <1>1, <1>2, ReopenedCoherent
<1>4. corrected' \in [Reviews -> BOOLEAN]
  BY DEF Inv, TypeOK, Reopen, Put
<1> HIDE DEF row, e, so, d, new
<1>5. QED BY <1>1, <1>2, <1>3, <1>4, OneReview

LEMMA NextInv == Inv /\ [Next]_vars => Inv'
<1> SUFFICES ASSUME Inv, [Next]_vars PROVE Inv'
  OBVIOUS
<1> USE DEF Put
<1>0. /\ calibration \in [Sessions -> {"none", "open", "locked"}] /\ corrected \in [Reviews -> BOOLEAN]
      /\ signedOff \in [Reviews -> SUBSET Approvals] /\ review \in [Reviews -> Rows]
      /\ template \in Templates
  BY DEF Inv, TypeOK
<1>1. ASSUME NEW population \in SUBSET Reviews, Launch(population) PROVE Inv'
  BY <1>1, LaunchKeeps
<1>2. CASE CloseCycle
  BY <1>2, CloseCycleKeeps
<1>3. ASSUME NEW r \in Reviews, SubmitSelf(r) PROVE Inv'
  <2>1. /\ SubmitStage(r, Self, None) /\ Self \in Stages \cap {Self, Manager} /\ None \in Values
        /\ corrected' \in [Reviews -> BOOLEAN] /\ signedOff' = signedOff
    BY <1>0, <1>3 DEF SubmitSelf, Values
  <2>2. signedOff' = Put(signedOff, r, IF Self = Manager THEN {} ELSE signedOff[r])
    BY <1>0, <2>1 DEF Self, Manager
  <2>3. QED BY <2>1, <2>2, SubmitKeeps
<1>4. ASSUME NEW r \in Reviews, NEW rating \in Values, SubmitManager(r, rating) PROVE Inv'
  <2>1. Manager \in Stages \cap {Self, Manager}
    BY <1>0, StageFacts
  <2>2. /\ SubmitStage(r, Manager, rating) /\ corrected' \in [Reviews -> BOOLEAN]
        /\ signedOff' = Put(signedOff, r, IF Manager = Manager THEN {} ELSE signedOff[r])
    BY <1>0, <1>4 DEF SubmitManager
  <2>3. QED BY <2>1, <2>2, SubmitKeeps
<1>5. ASSUME NEW r \in Reviews, NEW s \in Approvals, Approve(r, s) PROVE Inv'
  BY <1>5, ApproveKeeps
<1>6. ASSUME NEW r \in Reviews, NEW s \in Approvals, Return(r, s) PROVE Inv'
  BY <1>6, ReturnKeeps
<1>7. ASSUME NEW r \in Reviews, ShareReview(r) PROVE Inv'
  BY <1>7, ShareKeeps
<1>8. ASSUME NEW r \in Reviews, SignReview(r) PROVE Inv'
  BY <1>8, SignKeeps
<1>9. ASSUME NEW r \in Reviews, NEW target \in {Self, Manager}, Reopen(r, target) PROVE Inv'
  BY <1>9, ReopenKeeps
<1>10. ASSUME NEW r \in Reviews, NEW rating \in Values, OverrideRating(r, rating) PROVE Inv'
  BY <1>10, CorrectedKeeps DEF OverrideRating
<1>11. ASSUME NEW r \in Reviews, NEW c \in Sessions, NEW rating \in Values, SetRating(c, r, rating)
       PROVE  Inv'
  BY <1>11, CorrectedKeeps DEF SetRating
<1>12. ASSUME NEW c \in Sessions, NEW perimeter \in SUBSET Reviews, CreateSession(c, perimeter)
       PROVE  Inv'
  BY <1>0, <1>12, AttachedKeeps DEF CreateSession
<1>13. ASSUME NEW c \in Sessions, NEW perimeter \in SUBSET Reviews, UpdateSession(c, perimeter)
       PROVE  Inv'
  BY <1>0, <1>13, AttachedKeeps DEF UpdateSession
<1>14. ASSUME NEW c \in Sessions, LockSession(c) \/ UnlockSession(c) PROVE Inv'
  BY <1>0, <1>14, RowsKept DEF LockSession, UnlockSession
<1>15. CASE UNCHANGED vars
  BY <1>0, <1>15, RowsKept DEF vars
<1>16. QED
  BY <1>1, <1>2, <1>3, <1>4, <1>5, <1>6, <1>7, <1>8, <1>9, <1>10, <1>11, <1>12, <1>13, <1>14, <1>15
     DEF Next

THEOREM InvHolds == Spec => []Inv
<1>1. Init => Inv
  BY InitInv
<1>2. Inv /\ [Next]_vars => Inv'
  BY NextInv
<1>3. QED BY <1>1, <1>2, PTL DEF Spec

-------------------------------------------------------------------------------
(* What follows *)

\* The tables keep their types, and a review exists exactly with its instance.
THEOREM TypeCorrect == Spec => []TypeOK
<1>1. Inv => TypeOK
  BY DEF Inv
<1>2. QED BY <1>1, InvHolds, PTL

\* Whatever a review waits for in an active cycle, the stage of its instance that
\* lets somebody do it is open: services and engine never part.
THEOREM InStep == Spec => []StagesInStep
<1>1. Inv => StagesInStep
  <2> SUFFICES ASSUME Inv, NEW r \in Reviews, cycle = "active", Launched(r)
               PROVE  LET run == inst[r].run IN
                      /\ run[Manager] = "active" <=> ~review[r].managerAt
                      /\ template.self => (run[Self] = "active" <=> ~review[r].selfAt)
                      /\ CASE review[r].status = "pending_self" -> run[Self] = "active"
                           [] review[r].status = "pending_manager" -> run[Manager] = "active"
                           [] review[r].status = "pending_approval" ->
                                \E s \in Approvals : run[s] = "active"
                           [] review[r].status = "pending_share" -> run[Share] = "active"
                           [] OTHER -> review[r].sharedAt
    BY DEF StagesInStep
  <2>1. Dated(review[r], inst[r]) /\ Waits(review[r], inst[r])
    BY InvFacts DEF Coherent, Launched
  <2>2. QED BY <2>1 DEF Dated, Waits, Pending
<1>2. QED BY <1>1, InvHolds, PTL

\* A stage is open only when all those before it are concluded.
THEOREM InSequence == Spec => []StagesInOrder
<1>1. Inv => StagesInOrder
  BY DEF Inv, Coherent, InOrder, StagesInOrder
<1>2. QED BY <1>1, InvHolds, PTL

\* A review that waits to be shared has every approval of its chain, given to the
\* present evaluation, and one that waits for a step has those before it.
THEOREM ApprovalsStartOver == Spec => []ApprovalsCurrent
<1>1. Inv => ApprovalsCurrent
  BY DEF Inv, Coherent, Approved, ApprovalsCurrent
<1>2. QED BY <1>1, InvHolds, PTL

\* A closed cycle leaves nothing under way.
THEOREM ClosedIsSettled == Spec => []ClosedSettled
<1>1. Inv => ClosedSettled
  <2> SUFFICES ASSUME Inv, NEW r \in Reviews, cycle = "closed", Launched(r)
               PROVE  /\ inst[r].state \in Outcomes
                      /\ \A s \in Stages : inst[r].run[s] \notin {"pending", "active"}
                      /\ review[r].status \in {"closed", "cancelled", "pending_approval"}
                      /\ inst[r].state = "cancelled" <=> review[r].status # "closed"
    BY DEF ClosedSettled
  <2>1. Settled(review[r], inst[r]) /\ Quiet(inst[r])
    BY InvFacts DEF Coherent, Launched, Settled
  <2>2. QED BY <2>1 DEF Settled, Quiet
<1>2. QED BY <1>1, InvHolds, PTL

\* A review is shared with every approval of its chain, given to the present
\* evaluation, or else before the person's own assessment.
THEOREM SharedApprovedOrEarly == Spec => UnapprovedOnlyIfEarly
<1> DEFINE Step == \A r \in Reviews : BecomesShared(r) =>
                     signedOff[r] = Approvals \/ (template.self /\ ~review[r].selfAt)
<1>1. ASSUME Inv, NEW r \in Reviews, CanShare(r)
      PROVE  signedOff[r] = Approvals \/ (template.self /\ ~review[r].selfAt)
  <2>1. /\ Coherent("active", review[r], inst[r], signedOff[r]) /\ review[r] \in Rows
        /\ review[r].managerAt /\ ~review[r].sharedAt /\ review[r].status # "pending_approval"
    BY <1>1, InvFacts DEF CanShare
  <2>2. /\ Dated(review[r], inst[r]) /\ Waits(review[r], inst[r])
        /\ Approved(review[r], inst[r], signedOff[r])
    BY <2>1 DEF Coherent
  <2>3. review[r].status \in Pending
    BY <2>1, <2>2 DEF Waits
  <2>4. QED BY <2>1, <2>2, <2>3 DEF Dated, Waits, Approved, Pending
<1>2. ASSUME Inv, Next, NEW r \in Reviews, BecomesShared(r)
      PROVE  CanShare(r)
  <2>1. review \in [Reviews -> Rows]
    BY <1>2, InvFacts
  <2>2. ASSUME NEW q \in Reviews, ShareReview(q) PROVE CanShare(r)
    <3>1. q = r
      BY <1>2, <2>1, <2>2 DEF ShareReview, BecomesShared, Put
    <3>2. QED BY <2>2, <3>1 DEF ShareReview
  <2>3. ASSUME NEW q \in Reviews, NEW new, review' = Put(review, q, new),
               new.sharedAt = review[q].sharedAt \/ new.sharedAt = FALSE
        PROVE  FALSE
    BY <1>2, <2>1, <2>3 DEF Put, BecomesShared
  <2>4. ASSUME NEW q \in Reviews, NEW s \in {Self, Manager}, NEW rating \in Values,
               SubmitStage(q, s, rating)
        PROVE  FALSE
    <3> DEFINE x == Ran(inst[q], s, "done")
               old == Submitted(review[q], s, rating)
               new == Followed(old, x, s)
    <3>1. review[q].status # "none" /\ review' = Put(review, q, new)
      BY <2>4 DEF SubmitStage, Launched
    <3>2. template \in Templates /\ review[q] \in Rows
      BY <1>2, InvFacts
    <3>3. old \in Rows /\ old.sharedAt = review[q].sharedAt
      BY <2>4, <3>1, <3>2, SubmittedRow
    <3> HIDE DEF old, x
    <3>4. new.sharedAt = old.sharedAt
      BY <3>3 DEF Followed, Rows
    <3> HIDE DEF new
    <3>5. QED BY <2>3, <3>1, <3>3, <3>4
  <2>5. ASSUME NEW q \in Reviews, NEW s \in Approvals, Approve(q, s) PROVE FALSE
    <3> DEFINE new == Followed(review[q], Ran(inst[q], s, "done"), s)
    <3>1. review' = Put(review, q, new)
      BY <2>5 DEF Approve
    <3>2. new.sharedAt = review[q].sharedAt
      BY <2>1 DEF Followed, Rows
    <3> HIDE DEF new
    <3>3. QED BY <2>3, <3>1, <3>2
  <2>6. ASSUME NEW q \in Reviews, NEW s \in Approvals, Return(q, s) PROVE FALSE
    <3> DEFINE new == [Unrated(review[q], "pending_manager") EXCEPT !.proposed = None]
    <3>1. review' = Put(review, q, new)
      BY <2>6 DEF Return
    <3>2. new.sharedAt = review[q].sharedAt
      BY <2>1 DEF Unrated, Rows
    <3> HIDE DEF new
    <3>3. QED BY <2>3, <3>1, <3>2
  <2>7. ASSUME NEW q \in Reviews, SignReview(q) PROVE FALSE
    <3> DEFINE new == [review[q] EXCEPT !.status = "signed", !.signedAt = TRUE]
    <3>1. review' = Put(review, q, new) /\ new.sharedAt = review[q].sharedAt
      BY <2>1, <2>7 DEF SignReview, Rows
    <3> HIDE DEF new
    <3>2. QED BY <2>3, <3>1
  <2>8. ASSUME NEW q \in Reviews, NEW target \in {Self, Manager}, Reopen(q, target) PROVE FALSE
    <3> DEFINE row == Unrated(review[q], IF target = Self THEN "pending_self" ELSE "pending_manager")
               new == [row EXCEPT !.selfAt = review[q].selfAt /\ target # Self,
                                  !.sharedAt = FALSE, !.signedAt = FALSE]
    <3>1. review' = Put(review, q, new)
      BY <2>8 DEF Reopen
    <3>2. row = [review[q] EXCEPT !.status = (IF target = Self THEN "pending_self" ELSE "pending_manager"),
                                  !.managerAt = FALSE, !.final = None]
      BY DEF Unrated
    <3>3. new.sharedAt = FALSE
      BY <2>1, <3>2 DEF Rows
    <3> HIDE DEF new
    <3>4. QED BY <2>3, <3>1, <3>3
  <2>9. ASSUME NEW q \in Reviews, NEW rating, Corrected(q, rating) PROVE FALSE
    <3> DEFINE new == [review[q] EXCEPT !.final = rating]
    <3>1. review' = Put(review, q, new) /\ new.sharedAt = review[q].sharedAt
      BY <2>1, <2>9 DEF Corrected, Rows
    <3> HIDE DEF new
    <3>2. QED BY <2>3, <3>1
  <2>10. ASSUME NEW c, NEW perimeter, review' = Attached(c, perimeter) PROVE FALSE
    <3>1. review[r] \in Rows
      BY <2>1
    <3>2. QED BY <1>2, <2>10, <3>1 DEF Attached, BecomesShared, Rows
  <2>11. ASSUME NEW population \in SUBSET Reviews, Launch(population) PROVE FALSE
    <3>1. NewRow("pending_self").sharedAt = FALSE /\ NewRow("pending_manager").sharedAt = FALSE
      BY DEF NewRow
    <3>2. QED BY <1>2, <2>11, <3>1 DEF Launch, BecomesShared
  <2>12. CASE CloseCycle
    <3>1. review[r] \in Rows
      BY <2>1
    <3>2. QED BY <1>2, <2>12, <3>1 DEF CloseCycle, BecomesShared, Rows
  <2>13. ASSUME review' = review PROVE FALSE
    BY <1>2, <2>13 DEF BecomesShared
  <2>14. None \in Values
    BY DEF Values
  <2>15. QED
    BY <1>2, <2>2, <2>4, <2>5, <2>6, <2>7, <2>8, <2>9, <2>10, <2>11, <2>12, <2>13, <2>14
       DEF Next, SubmitSelf, SubmitManager, OverrideRating, SetRating, CreateSession, UpdateSession,
           LockSession, UnlockSession
<1>3. Inv /\ [Next]_vars => [Step]_vars
  BY <1>1, <1>2
<1>4. QED BY <1>3, InvHolds, PTL DEF Spec, UnapprovedOnlyIfEarly

\* After the end of the cycle nothing moves but ratings and sessions.
THEOREM ClosedIsFinal == Spec => ClosedStays
<1> DEFINE Step == cycle = "closed" =>
              /\ cycle' = "closed" /\ inst' = inst
              /\ \A r \in Reviews :
                    review'[r] = [review[r] EXCEPT !.final = review'[r].final,
                                                   !.session = review'[r].session]
<1>1. ASSUME Inv, Next, cycle = "closed" PROVE Step
  <2> DEFINE Kept == \A r \in Reviews :
                review'[r] = [review[r] EXCEPT !.final = review'[r].final,
                                               !.session = review'[r].session]
  <2>1. review \in [Reviews -> Rows]
    BY <1>1, InvFacts
  <2>2. ASSUME NEW r \in Reviews, NEW s \in Stages PROVE inst[r].run[s] # "active"
    BY <1>1, InvFacts DEF Coherent, Settled, Quiet
  <2>3. ASSUME NEW r \in Reviews, NEW rating, Corrected(r, rating)
        PROVE  cycle' = cycle /\ inst' = inst /\ Kept
    <3>1. /\ review' = Put(review, r, [review[r] EXCEPT !.final = rating])
          /\ cycle' = cycle /\ inst' = inst
      BY <2>3 DEF Corrected
    <3>2. \A q \in Reviews : review'[q] = IF q = r THEN [review[r] EXCEPT !.final = rating]
                                                  ELSE review[q]
      BY <2>1, <3>1 DEF Put
    <3>3. Kept
      BY <2>1, <3>2 DEF Rows
    <3>4. QED BY <3>1, <3>3
  <2>4. ASSUME NEW c \in Sessions, NEW perimeter, UpdateSession(c, perimeter)
        PROVE  cycle' = cycle /\ inst' = inst /\ Kept
    <3> DEFINE to(r) == IF /\ r \in perimeter /\ Launched(r) /\ review[r].status # "cancelled"
                           /\ review[r].session \notin OtherOpen(c)
                        THEN c
                        ELSE IF review[r].session = c /\ r \notin perimeter THEN None
                        ELSE review[r].session
    <3>1. review' = [r \in Reviews |-> [review[r] EXCEPT !.session = to(r)]]
      BY <2>4 DEF UpdateSession, Attached
    <3> HIDE DEF to
    <3>2. Kept
      BY <2>1, <3>1 DEF Rows
    <3>3. QED BY <2>4, <3>2 DEF UpdateSession
  <2>5. ASSUME UNCHANGED <<cycle, review, inst>> PROVE cycle' = cycle /\ inst' = inst /\ Kept
    BY <2>1, <2>5 DEF Rows
  <2>6. \A r \in Reviews : review[r].status # "shared"
    BY <1>1, InvFacts DEF Coherent, Settled
  <2>7. Approvals \subseteq Stages
    BY <1>1, InvFacts, StageFacts
  <2> HIDE DEF Kept
  <2>8. cycle' = cycle /\ inst' = inst /\ Kept
    BY <1>1, <2>2, <2>3, <2>4, <2>5, <2>6, <2>7, StageFacts, InvFacts
       DEF Next, Launch, CloseCycle, SubmitSelf, SubmitManager, SubmitStage, Approve, Return,
           InApproval, ShareReview, CanShare, SignReview, Reopen, OverrideRating, SetRating,
           CreateSession, LockSession, UnlockSession
  <2>9. QED BY <1>1, <2>8 DEF Kept
<1>2. ASSUME Inv, [Next]_vars PROVE [Step]_vars
  BY <1>1, <1>2
<1>3. Inv /\ [Next]_vars => [Step]_vars
  BY <1>2
<1>4. QED BY <1>3, InvHolds, PTL DEF Spec, ClosedStays

\* The rating shown is the one proposed unless a correction is on record.
THEOREM RatingsTraced == Spec => []RatingTraced
<1> DEFINE Traced(row, fixed) ==
              row.final = (IF row.managerAt THEN row.proposed ELSE None) \/ fixed
<1>1. Init => RatingTraced
  BY DEF Init, RatingTraced, NewRow
<1>2. ASSUME Inv, RatingTraced, Next PROVE RatingTraced'
  <2>1. review \in [Reviews -> Rows] /\ corrected \in [Reviews -> BOOLEAN] /\ template \in Templates
    BY <1>2 DEF Inv, TypeOK
  <2>2. \A r \in Reviews : Traced(review[r], corrected[r])
    BY <1>2 DEF RatingTraced
  <2>3. SUFFICES \A r \in Reviews : Traced(review'[r], corrected'[r])
    BY DEF RatingTraced
  <2>4. ASSUME NEW q \in Reviews, NEW new, NEW fixed, Traced(new, fixed),
               review' = Put(review, q, new), corrected' = Put(corrected, q, fixed)
        PROVE  \A r \in Reviews : Traced(review'[r], corrected'[r])
    <3>1. \A r \in Reviews : /\ review'[r] = IF r = q THEN new ELSE review[r]
                             /\ corrected'[r] = IF r = q THEN fixed ELSE corrected[r]
      BY <2>1, <2>4 DEF Put
    <3> HIDE DEF Traced
    <3>2. QED BY <2>2, <2>4, <3>1
  <2>5. ASSUME NEW q \in Reviews, NEW new, review' = Put(review, q, new), corrected' = corrected,
               new.final = review[q].final, new.proposed = review[q].proposed,
               new.managerAt = review[q].managerAt
        PROVE  \A r \in Reviews : Traced(review'[r], corrected'[r])
    <3>1. \A r \in Reviews : review'[r] = IF r = q THEN new ELSE review[r]
      BY <2>1, <2>5 DEF Put
    <3>2. QED BY <2>2, <2>5, <3>1
  <2>6. ASSUME NEW q \in Reviews, SubmitSelf(q)
        PROVE  \A r \in Reviews : Traced(review'[r], corrected'[r])
    <3> DEFINE x == Ran(inst[q], Self, "done")
               old == Submitted(review[q], Self, None)
               new == Followed(old, x, Self)
    <3>1. review' = Put(review, q, new) /\ corrected' = corrected
      BY <2>6 DEF SubmitSelf, SubmitStage
    <3>2. /\ old.final = review[q].final /\ old.proposed = review[q].proposed
          /\ old.managerAt = review[q].managerAt /\ review[q] \in Rows
      BY <2>1 DEF Submitted, Rows
    <3>3. review[q].status # "none" /\ None \in Values
      BY <2>6 DEF SubmitSelf, SubmitStage, Launched, Values
    <3>4. old \in Rows
      BY <2>1, <3>2, <3>3, SubmittedRow
    <3> HIDE DEF old, x
    <3>5. /\ new.final = old.final /\ new.proposed = old.proposed
          /\ new.managerAt = old.managerAt
      BY <3>4 DEF Followed, Rows
    <3> HIDE DEF new
    <3>6. QED BY <2>5, <3>1, <3>2, <3>5
  <2>7. ASSUME NEW q \in Reviews, NEW rating \in Values, SubmitManager(q, rating)
        PROVE  \A r \in Reviews : Traced(review'[r], corrected'[r])
    <3> DEFINE x == Ran(inst[q], Manager, "done")
               old == Submitted(review[q], Manager, rating)
               new == Followed(old, x, Manager)
    <3>1. review' = Put(review, q, new) /\ corrected' = Put(corrected, q, FALSE)
      BY <2>7 DEF SubmitManager, SubmitStage
    <3>2. old.final = rating /\ old.proposed = rating /\ old.managerAt = TRUE
      BY <2>1 DEF Submitted, Rows, Self, Manager
    <3>3. review[q].status # "none" /\ review[q] \in Rows
      BY <2>1, <2>7 DEF SubmitManager, SubmitStage, Launched
    <3>4. old \in Rows
      BY <2>1, <3>3, SubmittedRow
    <3> HIDE DEF old, x
    <3>5. /\ new.final = old.final /\ new.proposed = old.proposed
          /\ new.managerAt = old.managerAt
      BY <3>4 DEF Followed, Rows
    <3> HIDE DEF new
    <3>6. Traced(new, FALSE)
      BY <3>2, <3>5
    <3>7. QED BY <2>4, <3>1, <3>6
  <2>8. ASSUME NEW q \in Reviews, NEW s \in Approvals, Approve(q, s)
        PROVE  \A r \in Reviews : Traced(review'[r], corrected'[r])
    <3> DEFINE new == Followed(review[q], Ran(inst[q], s, "done"), s)
    <3>1. review' = Put(review, q, new) /\ corrected' = corrected
      BY <2>8 DEF Approve
    <3>2. /\ new.final = review[q].final /\ new.proposed = review[q].proposed
          /\ new.managerAt = review[q].managerAt
      BY <2>1 DEF Followed, Rows
    <3> HIDE DEF new
    <3>3. QED BY <2>5, <3>1, <3>2
  <2>9. ASSUME NEW q \in Reviews, NEW s \in Approvals, Return(q, s)
        PROVE  \A r \in Reviews : Traced(review'[r], corrected'[r])
    <3> DEFINE new == [Unrated(review[q], "pending_manager") EXCEPT !.proposed = None]
    <3>1. review' = Put(review, q, new) /\ corrected' = Put(corrected, q, FALSE)
      BY <2>9 DEF Return
    <3>2. new.final = None /\ new.managerAt = FALSE
      BY <2>1 DEF Unrated, Rows
    <3> HIDE DEF new
    <3>3. Traced(new, FALSE)
      BY <3>2
    <3>4. QED BY <2>4, <3>1, <3>3
  <2>10. ASSUME NEW q \in Reviews, NEW target \in {Self, Manager}, Reopen(q, target)
         PROVE  \A r \in Reviews : Traced(review'[r], corrected'[r])
    <3> DEFINE row == Unrated(review[q], IF target = Self THEN "pending_self" ELSE "pending_manager")
               new == [row EXCEPT !.selfAt = review[q].selfAt /\ target # Self,
                                  !.sharedAt = FALSE, !.signedAt = FALSE]
    <3>1. review' = Put(review, q, new) /\ corrected' = Put(corrected, q, FALSE)
      BY <2>10 DEF Reopen
    <3>2. row.final = None /\ row.managerAt = FALSE
          /\ new.final = row.final /\ new.managerAt = row.managerAt
      BY <2>1 DEF Unrated, Rows
    <3> HIDE DEF new, row
    <3>3. Traced(new, FALSE)
      BY <3>2
    <3>4. QED BY <2>4, <3>1, <3>3
  <2>11. ASSUME NEW q \in Reviews, ShareReview(q) \/ SignReview(q)
         PROVE  \A r \in Reviews : Traced(review'[r], corrected'[r])
    <3>1. \A status : LET new == [review[q] EXCEPT !.status = status, !.sharedAt = TRUE] IN
            /\ new.final = review[q].final /\ new.proposed = review[q].proposed
            /\ new.managerAt = review[q].managerAt
      BY <2>1 DEF Rows
    <3>2. \A status : LET new == [review[q] EXCEPT !.status = status, !.signedAt = TRUE] IN
            /\ new.final = review[q].final /\ new.proposed = review[q].proposed
            /\ new.managerAt = review[q].managerAt
      BY <2>1 DEF Rows
    <3> HIDE DEF Traced
    <3>3. QED BY <2>5, <2>11, <3>1, <3>2 DEF ShareReview, SignReview
  <2>12. ASSUME NEW q \in Reviews, NEW rating, Corrected(q, rating)
         PROVE  \A r \in Reviews : Traced(review'[r], corrected'[r])
    <3> DEFINE new == [review[q] EXCEPT !.final = rating]
    <3>1. review' = Put(review, q, new) /\ corrected' = Put(corrected, q, TRUE)
      BY <2>12 DEF Corrected
    <3>2. Traced(new, TRUE)
      OBVIOUS
    <3> HIDE DEF new, Traced
    <3>3. QED BY <2>4, <3>1, <3>2
  <2>13. ASSUME corrected' = corrected,
                \A r \in Reviews : /\ review'[r].final = review[r].final
                                   /\ review'[r].proposed = review[r].proposed
                                   /\ review'[r].managerAt = review[r].managerAt
         PROVE  \A r \in Reviews : Traced(review'[r], corrected'[r])
    BY <2>2, <2>13
  <2>14. ASSUME NEW c, NEW perimeter, review' = Attached(c, perimeter), corrected' = corrected
         PROVE  \A r \in Reviews : Traced(review'[r], corrected'[r])
    <3>1. \A r \in Reviews : review[r] \in Rows
      BY <2>1
    <3>2. \A r \in Reviews : /\ review'[r].final = review[r].final
                             /\ review'[r].proposed = review[r].proposed
                             /\ review'[r].managerAt = review[r].managerAt
      BY <2>14, <3>1 DEF Attached, Rows
    <3>3. QED BY <2>13, <2>14, <3>2
  <2>15. CASE CloseCycle
    <3>1. \A r \in Reviews : review[r] \in Rows
      BY <2>1
    <3>2. corrected' = corrected /\ \A r \in Reviews :
                /\ review'[r].final = review[r].final
                /\ review'[r].proposed = review[r].proposed
                /\ review'[r].managerAt = review[r].managerAt
      BY <2>15, <3>1 DEF CloseCycle, Rows
    <3>3. QED BY <2>13, <3>2
  <2>16. ASSUME NEW population \in SUBSET Reviews, Launch(population)
         PROVE  \A r \in Reviews : Traced(review'[r], corrected'[r])
    <3>1. \A status : NewRow(status).final = None /\ NewRow(status).managerAt = FALSE
      BY DEF NewRow
    <3>2. QED BY <2>2, <2>16, <3>1 DEF Launch
  <2> HIDE DEF Traced
  <2>17. QED
    BY <1>2, <2>6, <2>7, <2>8, <2>9, <2>10, <2>11, <2>12, <2>13, <2>14, <2>15, <2>16
       DEF Next, OverrideRating, SetRating, CreateSession, UpdateSession, LockSession, UnlockSession
<1>3. Inv /\ RatingTraced /\ [Next]_vars => RatingTraced'
  BY <1>2 DEF vars, RatingTraced
<1>4. QED BY <1>1, <1>3, InvHolds, PTL DEF Spec

\* An open session keeps its reviews until its own perimeter changes.
THEOREM SessionsKeep == Spec => OpenSessionKeeps
<1> DEFINE Step == \A c \in Sessions, r \in Reviews :
              calibration[c] = "open" /\ review[r].session = c /\ review'[r].session # c =>
                  review'[r].session = None /\ calibration' = calibration
           Same == \A r \in Reviews : review'[r].session = review[r].session
<1>1. ASSUME Inv, Next PROVE Step
  <2>1. review \in [Reviews -> Rows] /\ template \in Templates
    BY <1>1, InvFacts
  <2>2. ASSUME NEW q \in Reviews, NEW new, new.session = review[q].session,
               review' = Put(review, q, new)
        PROVE  Same
    BY <2>1, <2>2 DEF Put
  <2>3. ASSUME NEW q \in Reviews, NEW s \in {Self, Manager}, NEW rating \in Values,
               SubmitStage(q, s, rating)
        PROVE  Same
    <3> DEFINE x == Ran(inst[q], s, "done")
               old == Submitted(review[q], s, rating)
               new == Followed(old, x, s)
    <3>1. review[q] \in Rows /\ review[q].status # "none" /\ review' = Put(review, q, new)
      BY <2>1, <2>3 DEF SubmitStage, Launched
    <3>2. old.session = review[q].session
      BY <3>1 DEF Submitted, Rows
    <3>3. old \in Rows
      BY <2>1, <3>1, SubmittedRow
    <3> HIDE DEF old, x
    <3>4. new.session = old.session
      BY <3>3 DEF Followed, Rows
    <3> HIDE DEF new, Same
    <3>5. QED BY <2>2, <3>1, <3>2, <3>4
  <2>4. ASSUME NEW q \in Reviews, NEW s \in Approvals, Approve(q, s) \/ Return(q, s) PROVE Same
    <3> DEFINE on == Followed(review[q], Ran(inst[q], s, "done"), s)
               back == [Unrated(review[q], "pending_manager") EXCEPT !.proposed = None]
    <3>1. on.session = review[q].session /\ back.session = review[q].session
      BY <2>1 DEF Followed, Unrated, Rows
    <3>2. review' = Put(review, q, on) \/ review' = Put(review, q, back)
      BY <2>4 DEF Approve, Return
    <3> HIDE DEF on, back, Same
    <3>3. QED BY <2>2, <3>1, <3>2
  <2>5. ASSUME NEW q \in Reviews, ShareReview(q) \/ SignReview(q) PROVE Same
    <3> DEFINE shared == [review[q] EXCEPT !.status = "shared", !.sharedAt = TRUE]
               signed == [review[q] EXCEPT !.status = "signed", !.signedAt = TRUE]
    <3>1. shared.session = review[q].session /\ signed.session = review[q].session
      BY <2>1 DEF Rows
    <3>2. review' = Put(review, q, shared) \/ review' = Put(review, q, signed)
      BY <2>5 DEF ShareReview, SignReview
    <3> HIDE DEF shared, signed, Same
    <3>3. QED BY <2>2, <3>1, <3>2
  <2>6. ASSUME NEW q \in Reviews, NEW target \in {Self, Manager}, Reopen(q, target) PROVE Same
    <3> DEFINE row == Unrated(review[q], IF target = Self THEN "pending_self" ELSE "pending_manager")
               new == [row EXCEPT !.selfAt = review[q].selfAt /\ target # Self,
                                  !.sharedAt = FALSE, !.signedAt = FALSE]
    <3>1. review' = Put(review, q, new)
      BY <2>6 DEF Reopen
    <3>2. new.session = row.session /\ row.session = review[q].session
      BY <2>1 DEF Unrated, Rows
    <3> HIDE DEF new, row, Same
    <3>3. QED BY <2>2, <3>1, <3>2
  <2>7. ASSUME NEW q \in Reviews, NEW rating, Corrected(q, rating) PROVE Same
    <3> DEFINE new == [review[q] EXCEPT !.final = rating]
    <3>1. review' = Put(review, q, new) /\ new.session = review[q].session
      BY <2>1, <2>7 DEF Corrected, Rows
    <3> HIDE DEF new, Same
    <3>2. QED BY <2>2, <3>1
  <2>8. ASSUME CloseCycle \/ review' = review PROVE Same
    <3>1. \A r \in Reviews : review[r] \in Rows
      BY <2>1
    <3>2. QED BY <2>8, <3>1 DEF CloseCycle, Rows
  <2>9. Same => Step
    OBVIOUS
  <2>10. ASSUME NEW population \in SUBSET Reviews, Launch(population) PROVE Step
    <3>1. \A status : NewRow(status).session = None
      BY DEF NewRow
    <3>2. QED BY <2>10, <3>1 DEF Launch
  <2>11. ASSUME NEW d \in Sessions, NEW perimeter, review' = Attached(d, perimeter),
                calibration[d] = "none" \/ calibration' = calibration
         PROVE  Step
    <3> SUFFICES ASSUME NEW c \in Sessions, NEW r \in Reviews, calibration[c] = "open",
                        review[r].session = c, review'[r].session # c
                 PROVE  review'[r].session = None /\ calibration' = calibration
      OBVIOUS
    <3>1. review[r] \in Rows
      BY <2>1
    <3>2. review'[r].session =
              IF /\ r \in perimeter /\ Launched(r) /\ review[r].status # "cancelled"
                 /\ c \notin OtherOpen(d)
              THEN d
              ELSE IF c = d /\ r \notin perimeter THEN None ELSE c
      BY <2>11, <3>1 DEF Attached, Rows
    <3>3. c # d => c \in OtherOpen(d)
      BY DEF OtherOpen
    <3>4. c = d
      BY <3>2, <3>3
    <3>5. QED BY <2>11, <3>2, <3>4
  <2> HIDE DEF Same, Step
  <2>12. None \in Values
    BY DEF Values
  <2>13. QED
    BY <1>1, <2>3, <2>4, <2>5, <2>6, <2>7, <2>8, <2>9, <2>10, <2>11, <2>12
       DEF Next, SubmitSelf, SubmitManager, OverrideRating, SetRating, CreateSession, UpdateSession,
           LockSession, UnlockSession
<1>2. Inv /\ [Next]_vars => [Step]_vars
  BY <1>1
<1>3. QED BY <1>2, InvHolds, PTL DEF Spec, OpenSessionKeeps

===============================================================================
