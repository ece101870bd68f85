--------------------------- MODULE DeliveryQueueProofs ---------------------------
(***************************************************************************)
(* Proofs about DeliveryQueue, for any number of rows, of runs that        *)
(* overlap, of attempts and of runs cut short: the types, that a sent row  *)
(* was accepted and that nobody gives up early; and for a run that has the *)
(* queue for itself, that the rows keep the promise of Outbox.             *)
(***************************************************************************)
EXTENDS DeliveryQueue, WellFoundedInduction, FiniteSetTheorems, TLAPS

USE QueueAssumption DEF QueueAssumption

-------------------------------------------------------------------------------
(* The row a run is at *)

\* A nonempty set of natural numbers holds its minimum.
LEMMA MinIsMember ==
    ASSUME NEW S \in SUBSET Nat, S # {}
    PROVE  Min(S) \in S /\ \A r \in S : Min(S) <= r
<1>1. IsWellFoundedOn({ss \in Nat \X Nat : ss[1] < ss[2]}, Nat)
  BY NatLessThanWellFounded DEF OpToRel
<1>2. PICK m \in S : \A r \in S : ~(<<r, m>> \in {ss \in Nat \X Nat : ss[1] < ss[2]})
  BY <1>1, WFMin
<1>3. ASSUME NEW r \in S PROVE m <= r
  <2>1. ~(r < m)
    <3> SUFFICES ASSUME r < m PROVE FALSE
      OBVIOUS
    <3>1. <<r, m>> \in Nat \X Nat /\ <<r, m>>[1] < <<r, m>>[2]
      OBVIOUS
    <3>2. <<r, m>> \in {ss \in Nat \X Nat : ss[1] < ss[2]}
      BY <3>1, Zenon
    <3> QED BY <1>2, <3>2, Zenon
  <2> QED BY <2>1
<1> QED BY <1>3 DEF Min

\* A batch of due rows is a nonempty part of them.
LEMMA OldestIsPart ==
    ASSUME NEW S \in SUBSET Rows, S # {}
    PROVE  Oldest(S) \subseteq S /\ Oldest(S) # {}
<1>1. Min(S) \in S /\ (\A r \in S : Min(S) <= r) /\ S \subseteq Nat
  BY MinIsMember
<1>2. {q \in S : q < Min(S)} = {}
  <2> DEFINE m == Min(S)
  <2> HIDE DEF m
  <2>1. m \in Nat /\ \A q \in S : q \in Nat /\ m <= q
    BY <1>1 DEF m
  <2>2. ASSUME NEW q \in S PROVE ~(q < m)
    <3>1. q \in Nat /\ m \in Nat /\ m <= q
      BY <2>1
    <3> QED BY <3>1
  <2>3. {q \in S : q < m} = {}
    BY <2>2, Zenon
  <2> QED BY <2>3 DEF m
<1>3. Cardinality({q \in S : q < Min(S)}) < Batch
  BY <1>2, FS_EmptySet
<1> QED BY <1>1, <1>3 DEF Oldest

-------------------------------------------------------------------------------
(* The inductive invariant *)

\* What a run knows of its rows stays true: it read fewer attempts than were
\* made, and the answer it holds is one the provider gave.
RunOK(x) ==
    run[x] # Off =>
        /\ run[x].todo # {}
        /\ \A r \in run[x].todo :
            /\ run[x].seen[r] < MaxAttempts
            /\ run[x].seen[r] <= tries[r]
            /\ status[r] # "none"
        /\ run[x].phase = "mark" =>
            /\ run[x].seen[Current(x)] < tries[Current(x)]
            /\ run[x].answer = "ok" => accepted[Current(x)] > 0
            /\ run[x].answer = "unauthorized" => Current(x) \in refused

Runs_OK == \A x \in Runs : RunOK(x)
Inv == TypeOK /\ SentWasAccepted /\ GivesUpLate /\ Runs_OK

\* The run's current row, with the types of what the run holds.
LEMMA CurrentRow ==
    ASSUME TypeOK, NEW x \in Runs, RunOK(x), run[x] # Off
    PROVE  /\ Current(x) \in run[x].todo
           /\ Current(x) \in Rows
           /\ run[x].todo \subseteq Rows
           /\ run[x].seen \in Seen
           /\ run[x].seen[Current(x)] \in 0 .. MaxAttempts
           /\ \A r \in run[x].todo : r \in Rows /\ run[x].seen[r] \in Nat
           /\ Attempt(x) \in 1 .. MaxAttempts
           /\ run[x].phase \in {"next", "mark", "follow"}
<1>1. run[x] \in RunType
  BY DEF TypeOK
<1>2. /\ run[x].todo \subseteq Rows
      /\ run[x].seen \in Seen
      /\ run[x].phase \in {"next", "mark", "follow"}
  BY <1>1 DEF RunType
<1>3. run[x].todo \in SUBSET Nat /\ run[x].todo # {}
  BY <1>2 DEF RunOK
<1>4. Current(x) \in run[x].todo
  BY <1>3, MinIsMember DEF Current
<1>5. Current(x) \in Rows /\ run[x].seen[Current(x)] \in 0 .. MaxAttempts
  BY <1>2, <1>4 DEF Seen
<1>6. run[x].seen[Current(x)] < MaxAttempts
  BY <1>4 DEF RunOK
<1>7. Attempt(x) \in 1 .. MaxAttempts
  BY <1>5, <1>6 DEF Attempt
<1>8. \A r \in run[x].todo : r \in Rows /\ run[x].seen[r] \in Nat
  <2>1. \A r \in run[x].todo : r \in Rows /\ run[x].seen[r] \in 0 .. MaxAttempts
    BY <1>2 DEF Seen
  <2>2. 0 .. MaxAttempts \subseteq Nat
    OBVIOUS
  <2> QED BY <2>1, <2>2, Zenon
<1> QED BY <1>2, <1>4, <1>5, <1>7, <1>8

\* A run that does not move is not disturbed by others: the counts it relies on
\* only grow, and no row it holds leaves the queue.
LEMMA RunFrame ==
    ASSUME TypeOK, TypeOK', NEW y \in Runs, RunOK(y), run'[y] = run[y],
           \A r \in Rows : status[r] # "none" =>
                /\ status'[r] # "none"
                /\ tries[r] <= tries'[r]
                /\ accepted[r] <= accepted'[r],
           refused \subseteq refused'
    PROVE  RunOK(y)'
<1> SUFFICES ASSUME run[y] # Off PROVE RunOK(y)'
  BY DEF RunOK
<1>1. /\ Current(y) \in run[y].todo
      /\ run[y].todo \subseteq Rows
      /\ run[y].seen \in Seen
  BY CurrentRow
<1>2. Current(y)' = Current(y)
  BY DEF Current
<1>3. \A r \in run[y].todo : /\ r \in Rows
                             /\ run[y].seen[r] \in 0 .. MaxAttempts
                             /\ tries[r] \in Nat /\ tries'[r] \in Nat
                             /\ accepted[r] \in Nat /\ accepted'[r] \in Nat
  BY <1>1 DEF TypeOK, Seen
<1>4. ASSUME NEW r \in run[y].todo
      PROVE  run[y].seen[r] < MaxAttempts /\ run[y].seen[r] <= tries'[r] /\ status'[r] # "none"
  <2>1. run[y].seen[r] < MaxAttempts /\ run[y].seen[r] <= tries[r] /\ status[r] # "none"
    BY DEF RunOK
  <2>2. tries[r] <= tries'[r] /\ status'[r] # "none"
    BY <1>3, <2>1
  <2> QED BY <1>3, <2>1, <2>2
<1>5. run[y].phase = "mark" =>
        /\ run[y].seen[Current(y)] < tries'[Current(y)]
        /\ run[y].answer = "ok" => accepted'[Current(y)] > 0
        /\ run[y].answer = "unauthorized" => Current(y) \in refused'
  <2> DEFINE c == Current(y)
  <2>1. /\ c \in Rows /\ status[c] # "none"
        /\ run[y].seen[c] \in Nat /\ tries[c] \in Nat /\ tries'[c] \in Nat
        /\ accepted[c] \in Nat /\ accepted'[c] \in Nat
    BY <1>1, <1>3 DEF RunOK
  <2>2. tries[c] <= tries'[c] /\ accepted[c] <= accepted'[c]
    BY <2>1
  <2>3. run[y].phase = "mark" =>
          /\ run[y].seen[c] < tries[c]
          /\ run[y].answer = "ok" => accepted[c] > 0
          /\ run[y].answer = "unauthorized" => c \in refused
    BY DEF RunOK
  <2> HIDE DEF c
  <2>4. run[y].phase = "mark" =>
          /\ run[y].seen[c] < tries'[c]
          /\ run[y].answer = "ok" => accepted'[c] > 0
          /\ run[y].answer = "unauthorized" => c \in refused'
    BY <2>1, <2>2, <2>3
  <2> QED BY <2>4 DEF c
<1>6. run[y].todo # {}
  BY DEF RunOK
<1> QED BY <1>2, <1>4, <1>5, <1>6 DEF RunOK

\* Moving on leaves the run with rows it had before, or ends it.
LEMMA MovedOK ==
    ASSUME TypeOK, NEW x \in Runs, RunOK(x), run[x] # Off
    PROVE  /\ Moved(x) \in RunType
           /\ Moved(x) # Off =>
                /\ Moved(x).phase = "next"
                /\ Moved(x).todo # {}
                /\ Moved(x).todo = run[x].todo \ {Current(x)}
                /\ Moved(x).seen = run[x].seen
<1>1. run[x].todo \subseteq Rows /\ run[x].seen \in Seen
  BY CurrentRow
<1>2. Moved(x) \in RunType
  BY <1>1 DEF Moved, RunType
<1> QED BY <1>2 DEF Moved, Off

-------------------------------------------------------------------------------
(* The invariant is inductive *)

LEMMA InitInv == Init => Inv
<1> SUFFICES ASSUME Init PROVE Inv
  OBVIOUS
<1>1. TypeOK
  BY DEF Init, TypeOK, RunType, Off
<1>2. SentWasAccepted /\ GivesUpLate
  BY DEF Init, SentWasAccepted, GivesUpLate
<1>3. Runs_OK
  BY DEF Init, Runs_OK, RunOK
<1> QED BY <1>1, <1>2, <1>3 DEF Inv

LEMMA EnqueueInv ==
    ASSUME Inv, NEW r \in Rows, Enqueue(r)
    PROVE  Inv'
<1>1. TypeOK'
  BY DEF Inv, TypeOK, Enqueue, FirstAttempts
<1>2. \A q \in Rows : attempts'[q] <= tries'[q]
  BY DEF Inv, TypeOK, GivesUpLate, Enqueue, FirstAttempts
<1>3. \A q \in Rows : q # r => /\ status'[q] = status[q] /\ tries'[q] = tries[q]
                               /\ attempts'[q] = attempts[q] /\ accepted'[q] = accepted[q]
  BY DEF Inv, TypeOK, Enqueue
<1>4. status'[r] = "pending" /\ refused' = refused
  BY DEF Inv, TypeOK, Enqueue
<1>5. SentWasAccepted' /\ GivesUpLate'
  BY <1>2, <1>3, <1>4 DEF Inv, SentWasAccepted, GivesUpLate
<1>6. \A q \in Rows : status[q] # "none" =>
        status'[q] # "none" /\ tries[q] <= tries'[q] /\ accepted[q] <= accepted'[q]
  BY <1>3 DEF Inv, TypeOK, Enqueue
<1>7. ASSUME NEW y \in Runs PROVE RunOK(y)'
  BY <1>1, <1>4, <1>6, RunFrame DEF Inv, Runs_OK, Enqueue
<1> QED BY <1>1, <1>5, <1>7 DEF Inv, Runs_OK

\* The steps that touch neither the rows' states and counts nor the runs.
LEMMA AsideInv ==
    ASSUME Inv, UNCHANGED <<status, attempts, run, tries, accepted, refused>>, TypeOK'
    PROVE  Inv'
<1>1. SentWasAccepted' /\ GivesUpLate'
  BY DEF Inv, SentWasAccepted, GivesUpLate
<1>2. Runs_OK'
  BY DEF Inv, Runs_OK, RunOK, Current
<1> QED BY <1>1, <1>2 DEF Inv

LEMMA StartInv ==
    ASSUME Inv, NEW x \in Runs, Start(x)
    PROVE  Inv'
<1> DEFINE new == [phase |-> "next", todo |-> Oldest(Ready), seen |-> attempts]
<1>1. Oldest(Ready) \subseteq Ready /\ Oldest(Ready) # {}
  BY OldestIsPart DEF Start, Ready
<1>2. new \in RunType
  BY <1>1 DEF Inv, TypeOK, RunType, Ready, Seen
<1>3. run' = [run EXCEPT ![x] = new]
  BY DEF Start
<1> HIDE DEF new
<1>4. TypeOK'
  BY <1>2, <1>3 DEF Inv, TypeOK, Start
<1>5. SentWasAccepted' /\ GivesUpLate'
  BY DEF Inv, SentWasAccepted, GivesUpLate, Start
<1>6. ASSUME NEW y \in Runs, y # x PROVE RunOK(y)'
  <2>1. run'[y] = run[y]
    BY <1>3, <1>6 DEF Inv, TypeOK
  <2> QED BY <1>4, <2>1, RunFrame DEF Inv, Runs_OK, Start, TypeOK
<1>7. RunOK(x)'
  <2>1. run'[x] = new
    BY <1>3 DEF Inv, TypeOK
  <2>2. new.phase = "next" /\ new.todo = Oldest(Ready) /\ new.seen = attempts
    BY DEF new
  <2>3. \A r \in Oldest(Ready) : /\ attempts[r] < MaxAttempts
                                 /\ attempts[r] <= tries'[r]
                                 /\ status'[r] # "none"
    BY <1>1 DEF Inv, TypeOK, GivesUpLate, Ready, Start
  <2> QED BY <1>1, <2>1, <2>2, <2>3 DEF RunOK
<1> QED BY <1>4, <1>5, <1>6, <1>7 DEF Inv, Runs_OK

LEMMA CallInv ==
    ASSUME Inv, NEW x \in Runs,
           NEW answer \in {"ok", "error", "lost", "skip", "unauthorized"}, Call(x, answer)
    PROVE  Inv'
<1> DEFINE c == Current(x)
           given == IF answer = "lost" THEN "error" ELSE answer
           new == [phase |-> "mark", todo |-> run[x].todo, seen |-> run[x].seen,
                   answer |-> given]
<1>1. run[x] # Off /\ RunOK(x) /\ TypeOK /\ run[x].phase = "next"
  BY DEF Inv, Runs_OK, Call, Off
<1>2. /\ c \in run[x].todo /\ c \in Rows /\ run[x].todo \subseteq Rows
      /\ run[x].seen \in Seen
      /\ \A r \in run[x].todo : r \in Rows /\ run[x].seen[r] \in Nat
  BY <1>1, CurrentRow
<1>3. run' = [run EXCEPT ![x] = new]
  BY DEF Call
<1>4. new \in RunType
  BY <1>2 DEF RunType
<1>5. /\ tries' = [tries EXCEPT ![c] = tries[c] + 1]
      /\ accepted' = [accepted EXCEPT ![c] =
                        IF answer \in {"ok", "lost"} THEN accepted[c] + 1 ELSE accepted[c]]
      /\ refused' = IF answer = "unauthorized" THEN refused \cup {c} ELSE refused
      /\ UNCHANGED <<kind, status, attempts, due, workspace, logged, aborts>>
  BY DEF Call
<1>6. new.phase = "mark" /\ new.todo = run[x].todo /\ new.seen = run[x].seen
      /\ new.answer = given
  OBVIOUS
<1> HIDE DEF new, c
<1>7. tries' \in [Rows -> Nat] /\ accepted' \in [Rows -> Nat] /\ refused' \subseteq Rows
  BY <1>1, <1>2, <1>5 DEF TypeOK
<1>8. TypeOK'
  BY <1>1, <1>3, <1>4, <1>5, <1>7 DEF TypeOK
<1>9. \A r \in Rows : tries[r] <= tries'[r] /\ accepted[r] <= accepted'[r]
  BY <1>1, <1>2, <1>5 DEF TypeOK
<1>10. refused \subseteq refused'
  BY <1>5
<1>11. SentWasAccepted'
  <2> SUFFICES ASSUME NEW r \in Rows, status'[r] = "sent" PROVE accepted'[r] > 0
    BY DEF SentWasAccepted
  <2>1. accepted[r] > 0 /\ accepted[r] \in Nat /\ accepted'[r] \in Nat
    BY <1>5, <1>7 DEF Inv, SentWasAccepted, TypeOK
  <2> QED BY <1>9, <2>1
<1>12. GivesUpLate'
  <2> SUFFICES ASSUME NEW r \in Rows
               PROVE  /\ attempts'[r] <= tries'[r]
                      /\ status'[r] = "failed" => attempts'[r] = MaxAttempts \/ r \in refused'
    BY DEF GivesUpLate
  <2>1. /\ attempts[r] <= tries[r]
        /\ status[r] = "failed" => attempts[r] = MaxAttempts \/ r \in refused
        /\ attempts[r] \in Nat /\ tries[r] \in Nat /\ tries'[r] \in Nat
    BY <1>7 DEF Inv, GivesUpLate, TypeOK
  <2> QED BY <1>5, <1>9, <1>10, <2>1
<1>13. ASSUME NEW y \in Runs, y # x PROVE RunOK(y)'
  <2>1. run'[y] = run[y]
    BY <1>1, <1>3, <1>13 DEF TypeOK
  <2> QED BY <1>1, <1>5, <1>8, <1>9, <1>10, <2>1, RunFrame DEF Inv, Runs_OK
<1>14. RunOK(x)'
  <2>1. run'[x] = new
    BY <1>1, <1>3 DEF TypeOK
  <2>2. Current(x)' = c
    BY <1>6, <2>1 DEF Current, c
  <2>3. ASSUME NEW r \in run[x].todo
        PROVE  run[x].seen[r] < MaxAttempts /\ run[x].seen[r] <= tries'[r] /\ status'[r] # "none"
    <3>1. run[x].seen[r] < MaxAttempts /\ run[x].seen[r] <= tries[r] /\ status[r] # "none"
      BY <1>1 DEF RunOK
    <3>2. r \in Rows /\ run[x].seen[r] \in Nat /\ tries[r] \in Nat /\ tries'[r] \in Nat
      BY <1>1, <1>2, <1>7 DEF TypeOK
    <3> QED BY <1>5, <1>9, <3>1, <3>2
  <2>4. run[x].seen[c] < tries'[c]
    <3>1. run[x].seen[c] <= tries[c]
      BY <1>1, <1>2 DEF RunOK
    <3>2. tries[c] \in Nat /\ tries'[c] = tries[c] + 1 /\ run[x].seen[c] \in Nat
      BY <1>1, <1>2, <1>5 DEF TypeOK
    <3> QED BY <3>1, <3>2
  <2>5. given = "ok" => accepted'[c] > 0
    BY <1>1, <1>2, <1>5 DEF TypeOK
  <2>6. given = "unauthorized" => c \in refused'
    BY <1>5
  <2>7. run[x].todo # {}
    BY <1>2
  <2> QED BY <1>6, <2>1, <2>2, <2>3, <2>4, <2>5, <2>6, <2>7 DEF RunOK
<1> QED BY <1>8, <1>11, <1>12, <1>13, <1>14 DEF Inv, Runs_OK

LEMMA MarkInv ==
    ASSUME Inv, NEW x \in Runs, Mark(x)
    PROVE  Inv'
<1> DEFINE c == Current(x)
           answer == run[x].answer
           outcome == Outcome(answer, Attempt(x))
           new == IF Follows(c, answer, outcome)
                  THEN [phase |-> "follow", todo |-> run[x].todo, seen |-> run[x].seen,
                        outcome |-> outcome]
                  ELSE Moved(x)
<1>1. run[x] # Off /\ RunOK(x) /\ TypeOK /\ run[x].phase = "mark"
  BY DEF Inv, Runs_OK, Mark, Off
<1>2. /\ c \in run[x].todo /\ c \in Rows /\ run[x].todo \subseteq Rows
      /\ run[x].seen \in Seen
      /\ Attempt(x) \in 1 .. MaxAttempts
      /\ \A r \in run[x].todo : r \in Rows /\ run[x].seen[r] \in Nat
  BY <1>1, CurrentRow
<1>3. answer \in {"ok", "error", "skip", "unauthorized"}
  BY <1>1 DEF TypeOK, RunType, Off
<1>4. /\ run' = [run EXCEPT ![x] = new]
      /\ status' = [status EXCEPT ![c] = outcome]
      /\ attempts' = [attempts EXCEPT ![c] = Attempt(x)]
      /\ due' = [due EXCEPT ![c] = IF answer \in {"ok", "skip"} THEN due[c] ELSE FALSE]
      /\ UNCHANGED <<kind, workspace, logged, tries, accepted, refused, aborts>>
  BY DEF Mark
<1>5. /\ outcome \in {"sent", "skipped", "failed", "pending"}
      /\ outcome = "sent" => answer = "ok"
      /\ outcome = "failed" => answer = "unauthorized" \/ Attempt(x) >= MaxAttempts
  BY DEF Outcome
<1>6. Follows(c, answer, outcome) => outcome \in Outcomes
  BY <1>3 DEF Follows, Outcome, Outcomes
<1>7. new \in RunType
  BY <1>1, <1>2, <1>6, MovedOK DEF RunType
<1>8. new # Off =>
        /\ new.phase \in {"next", "follow"}
        /\ new.todo # {} /\ new.todo \subseteq run[x].todo
        /\ new.seen = run[x].seen
  BY <1>1, <1>2, MovedOK
<1> HIDE DEF new, c, answer, outcome
<1>9. TypeOK'
  <2>1. run' \in [Runs -> RunType]
    BY <1>1, <1>4, <1>7 DEF TypeOK
  <2>2. status' \in [Rows -> {"none", "pending", "sent", "failed", "skipped"}]
    BY <1>1, <1>2, <1>4, <1>5 DEF TypeOK
  <2>3. attempts' \in [Rows -> 0 .. MaxAttempts]
    <3>1. Attempt(x) \in 0 .. MaxAttempts
      BY <1>2
    <3> QED BY <1>1, <1>2, <1>4, <3>1 DEF TypeOK
  <2>4. due' \in [Rows -> BOOLEAN]
    BY <1>1, <1>2, <1>4 DEF TypeOK
  <2> QED BY <1>1, <1>4, <2>1, <2>2, <2>3, <2>4 DEF TypeOK
<1>10. /\ Attempt(x) \in Nat /\ tries[c] \in Nat /\ Attempt(x) <= tries[c]
       /\ answer = "ok" => accepted[c] > 0
       /\ answer = "unauthorized" => c \in refused
  <2>1. run[x].seen[c] < tries[c] /\ run[x].seen[c] \in Nat /\ tries[c] \in Nat
    BY <1>1, <1>2 DEF RunOK, c, TypeOK
  <2>2. Attempt(x) = run[x].seen[c] + 1
    BY DEF Attempt, c
  <2>3. /\ answer = "ok" => accepted[c] > 0
        /\ answer = "unauthorized" => c \in refused
    BY <1>1 DEF RunOK, c, answer
  <2> QED BY <2>1, <2>2, <2>3
<1>11. \A r \in Rows : /\ status'[r] = IF r = c THEN outcome ELSE status[r]
                       /\ attempts'[r] = IF r = c THEN Attempt(x) ELSE attempts[r]
  BY <1>1, <1>4 DEF TypeOK
<1>12. SentWasAccepted'
  BY <1>4, <1>5, <1>10, <1>11 DEF Inv, SentWasAccepted
<1>13. GivesUpLate'
  <2> SUFFICES ASSUME NEW r \in Rows
               PROVE  /\ attempts'[r] <= tries'[r]
                      /\ status'[r] = "failed" => attempts'[r] = MaxAttempts \/ r \in refused'
    BY DEF GivesUpLate
  <2>1. CASE r = c
    BY <1>2, <1>4, <1>5, <1>10, <1>11, <2>1
  <2>2. CASE r # c
    BY <1>4, <1>11, <2>2 DEF Inv, GivesUpLate
  <2> QED BY <2>1, <2>2
<1>14. \A r \in Rows : status[r] # "none" =>
         status'[r] # "none" /\ tries[r] <= tries'[r] /\ accepted[r] <= accepted'[r]
  BY <1>1, <1>4, <1>5, <1>11 DEF TypeOK
<1>15. ASSUME NEW y \in Runs, y # x PROVE RunOK(y)'
  <2>1. run'[y] = run[y]
    BY <1>1, <1>4, <1>15 DEF TypeOK
  <2> QED BY <1>1, <1>4, <1>9, <1>14, <2>1, RunFrame DEF Inv, Runs_OK
<1>16. RunOK(x)'
  <2>1. run'[x] = new
    BY <1>1, <1>4 DEF TypeOK
  <2>2. ASSUME NEW r \in run[x].todo
        PROVE  run[x].seen[r] < MaxAttempts /\ run[x].seen[r] <= tries'[r] /\ status'[r] # "none"
    BY <1>1, <1>2, <1>4, <1>14 DEF RunOK
  <2> QED BY <1>8, <2>1, <2>2 DEF RunOK
<1> QED BY <1>9, <1>12, <1>13, <1>15, <1>16 DEF Inv, Runs_OK

LEMMA FollowInv ==
    ASSUME Inv, NEW x \in Runs, Follow(x)
    PROVE  Inv'
<1> DEFINE new == Moved(x)
<1>1. run[x] # Off /\ RunOK(x) /\ TypeOK /\ run[x].phase = "follow"
  BY DEF Inv, Runs_OK, Follow, Off
<1>2. Current(x) \in Rows /\ run[x].outcome \in Outcomes
      /\ \A r \in run[x].todo : r \in Rows /\ run[x].seen[r] \in Nat
  BY <1>1, CurrentRow DEF TypeOK, RunType, Off
<1>3. /\ new \in RunType
      /\ new # Off =>
            /\ new.phase = "next" /\ new.todo # {}
            /\ new.todo \subseteq run[x].todo /\ new.seen = run[x].seen
  BY <1>1, MovedOK
<1>4. run' = [run EXCEPT ![x] = new]
      /\ UNCHANGED <<kind, status, attempts, due, tries, accepted, refused, aborts>>
  BY DEF Follow
<1> HIDE DEF new
<1>5. run' \in [Runs -> RunType]
  <2>1. run \in [Runs -> RunType]
    BY <1>1 DEF TypeOK
  <2> QED BY <1>3, <1>4, <2>1
<1>6. logged' \in [Rows -> [Outcomes -> Nat]]
  BY <1>1, <1>2 DEF TypeOK, Follow
<1>7. workspace' \in {"active", "error", "absent"}
  BY <1>1 DEF TypeOK, Follow
<1>8. TypeOK'
  BY <1>1, <1>4, <1>5, <1>6, <1>7 DEF TypeOK
<1>9. SentWasAccepted' /\ GivesUpLate'
  BY <1>4 DEF Inv, SentWasAccepted, GivesUpLate
<1>10. \A r \in Rows : status[r] # "none" =>
         status'[r] # "none" /\ tries[r] <= tries'[r] /\ accepted[r] <= accepted'[r]
  BY <1>1, <1>4 DEF TypeOK
<1>11. ASSUME NEW y \in Runs, y # x PROVE RunOK(y)'
  <2>1. run'[y] = run[y]
    BY <1>1, <1>4, <1>11 DEF TypeOK
  <2> QED BY <1>1, <1>4, <1>8, <1>10, <2>1, RunFrame DEF Inv, Runs_OK
<1>12. RunOK(x)'
  <2>1. run'[x] = new
    BY <1>1, <1>4 DEF TypeOK
  <2>2. \A r \in run[x].todo : /\ run[x].seen[r] < MaxAttempts
                               /\ run[x].seen[r] <= tries'[r]
                               /\ status'[r] # "none"
    BY <1>1, <1>4 DEF RunOK
  <2>3. CASE new = Off
    BY <2>1, <2>3 DEF RunOK
  <2>4. CASE new # Off
    <3>1. run'[x].phase # "mark" /\ run'[x].todo # {} /\ run'[x].seen = run[x].seen
      BY <1>3, <2>1, <2>4
    <3>2. \A r \in run'[x].todo : r \in run[x].todo
      BY <1>3, <2>1, <2>4
    <3> QED BY <2>2, <3>1, <3>2 DEF RunOK
  <2> QED BY <2>3, <2>4
<1> QED BY <1>8, <1>9, <1>11, <1>12 DEF Inv, Runs_OK

LEMMA MarkFailsInv ==
    ASSUME Inv, NEW x \in Runs, MarkFails(x)
    PROVE  Inv'
<1> DEFINE new == [run[x] EXCEPT !.answer = "error"]
<1>1. run[x] # Off /\ RunOK(x) /\ TypeOK /\ run[x].phase = "mark"
  BY DEF Inv, Runs_OK, MarkFails, Off
<1>2. \A r \in run[x].todo : r \in Rows /\ run[x].seen[r] \in Nat
  BY <1>1, CurrentRow
<1>3. /\ new \in RunType /\ new.answer = "error" /\ new.phase = "mark"
      /\ new.todo = run[x].todo /\ new.seen = run[x].seen
  BY <1>1 DEF TypeOK, RunType, Off
<1>4. run' = [run EXCEPT ![x] = new]
      /\ UNCHANGED <<kind, status, attempts, due, workspace, logged, tries, accepted, refused, aborts>>
  BY DEF MarkFails
<1> HIDE DEF new
<1>5. TypeOK'
  BY <1>1, <1>3, <1>4 DEF TypeOK
<1>6. SentWasAccepted' /\ GivesUpLate'
  BY <1>4 DEF Inv, SentWasAccepted, GivesUpLate
<1>7. \A r \in Rows : status[r] # "none" =>
        status'[r] # "none" /\ tries[r] <= tries'[r] /\ accepted[r] <= accepted'[r]
  BY <1>1, <1>4 DEF TypeOK
<1>8. ASSUME NEW y \in Runs, y # x PROVE RunOK(y)'
  <2>1. run'[y] = run[y]
    BY <1>1, <1>4, <1>8 DEF TypeOK
  <2> QED BY <1>1, <1>4, <1>5, <1>7, <2>1, RunFrame DEF Inv, Runs_OK
<1>9. RunOK(x)'
  <2>1. run'[x] = new
    BY <1>1, <1>4 DEF TypeOK
  <2>2. Current(x)' = Current(x)
    BY <1>3, <2>1 DEF Current
  <2>3. /\ run[x].todo # {}
        /\ run[x].seen[Current(x)] < tries[Current(x)]
        /\ \A r \in run[x].todo : /\ run[x].seen[r] < MaxAttempts
                                  /\ run[x].seen[r] <= tries[r]
                                  /\ status[r] # "none"
    BY <1>1 DEF RunOK
  <2> QED BY <1>3, <1>4, <2>1, <2>2, <2>3 DEF RunOK
<1> QED BY <1>5, <1>6, <1>8, <1>9 DEF Inv, Runs_OK

LEMMA AbortInv ==
    ASSUME Inv, NEW x \in Runs, Abort(x)
    PROVE  Inv'
<1>1. TypeOK'
  BY DEF Inv, TypeOK, Abort, RunType
<1>2. SentWasAccepted' /\ GivesUpLate'
  BY DEF Inv, SentWasAccepted, GivesUpLate, Abort
<1>3. ASSUME NEW y \in Runs PROVE RunOK(y)'
  <2>1. CASE y = x
    BY <2>1 DEF Inv, TypeOK, Abort, RunOK
  <2>2. CASE y # x
    <3>1. run'[y] = run[y]
      BY <2>2 DEF Inv, TypeOK, Abort
    <3>2. TypeOK /\ RunOK(y) /\ UNCHANGED <<status, tries, accepted, refused>>
      BY DEF Inv, Runs_OK, Abort
    <3>3. \A r \in Rows : status[r] # "none" =>
            status'[r] # "none" /\ tries[r] <= tries'[r] /\ accepted[r] <= accepted'[r]
      BY <3>2 DEF TypeOK
    <3> QED BY <1>1, <3>1, <3>2, <3>3, RunFrame
  <2> QED BY <2>1, <2>2
<1> QED BY <1>1, <1>2, <1>3 DEF Inv, Runs_OK

LEMMA NextInv == Inv /\ [Next]_vars => Inv'
<1> SUFFICES ASSUME Inv, [Next]_vars PROVE Inv'
  OBVIOUS
<1>1. ASSUME NEW r \in Rows, Enqueue(r) PROVE Inv'
  BY <1>1, EnqueueInv
<1>2. ASSUME NEW r \in Rows, Elapse(r) PROVE Inv'
  <2>1. TypeOK'
    BY <1>2 DEF Inv, TypeOK, Elapse
  <2> QED BY <1>2, <2>1, AsideInv DEF Elapse
<1>3. ASSUME Reconnect \/ Disconnect PROVE Inv'
  <2>1. TypeOK'
    BY <1>3 DEF Inv, TypeOK, Reconnect, Disconnect
  <2> QED BY <1>3, <2>1, AsideInv DEF Reconnect, Disconnect
<1>4. ASSUME NEW x \in Runs, Start(x) PROVE Inv'
  BY <1>4, StartInv
<1>5. ASSUME NEW x \in Runs, Work(x) PROVE Inv'
  BY <1>5, CallInv, MarkInv, FollowInv DEF Work
<1>6. ASSUME NEW x \in Runs, MarkFails(x) PROVE Inv'
  BY <1>6, MarkFailsInv
<1>7. ASSUME NEW x \in Runs, Abort(x) PROVE Inv'
  BY <1>7, AbortInv
<1>8. CASE UNCHANGED vars
  BY <1>8, AsideInv DEF vars, Inv, TypeOK
<1> QED BY <1>1, <1>2, <1>3, <1>4, <1>5, <1>6, <1>7, <1>8 DEF Next

\* dispatchEmails, dispatchWebhooks and dispatchChat keep the types of their rows,
\* and no count of attempts passes the maximum, however many runs overlap.
THEOREM QueueTypeCorrect == Spec => []TypeOK
<1>1. Inv => TypeOK
  BY DEF Inv
<1> QED BY <1>1, InitInv, NextInv, PTL DEF Spec

\* A row marked as sent was taken by its provider, whatever runs overlap, answers
\* are lost or updates fail.
THEOREM SentIsAccepted == Spec => []SentWasAccepted
<1>1. Inv => SentWasAccepted
  BY DEF Inv
<1> QED BY <1>1, InitInv, NextInv, PTL DEF Spec

\* A row is given up only after the allowed number of real attempts, or a refusal.
THEOREM NobodyGivesUpEarly == Spec => []GivesUpLate
<1>1. Inv => GivesUpLate
  BY DEF Inv
<1> QED BY <1>1, InitInv, NextInv, PTL DEF Spec

-------------------------------------------------------------------------------
(* A run that has the queue for itself keeps the promise of Outbox *)

\* The rows still to be handled are pending, but for the one whose event or
\* suspension is about to follow its marking.
Lone ==
    \A x \in Runs : run[x] # Off =>
        \A r \in run[x].todo :
            status[r] = "pending" \/ (run[x].phase = "follow" /\ r = Current(x))

LEMMA LoneStep ==
    ASSUME \A x, y \in Runs : x = y, Inv, Lone, [Next]_vars
    PROVE  Lone'
<1>1. TypeOK /\ \A x \in Runs : RunOK(x)
  BY DEF Inv, Runs_OK
<1>2. ASSUME NEW r \in Rows, Enqueue(r) PROVE Lone'
  <2>1. run' = run /\ \A q \in Rows : status[q] = "pending" => status'[q] = "pending"
    BY <1>1, <1>2 DEF Enqueue, TypeOK
  <2>2. \A x \in Runs : run[x] # Off => run[x].todo \subseteq Rows
    BY <1>1, CurrentRow
  <2>3. \A x \in Runs : Current(x)' = Current(x)
    BY <2>1 DEF Current
  <2> QED BY <2>1, <2>2, <2>3 DEF Lone
<1>3. ASSUME UNCHANGED <<status, run>> PROVE Lone'
  BY <1>3 DEF Lone, Current
<1>4. ASSUME NEW x \in Runs, Start(x) PROVE Lone'
  <2>1. run' = [run EXCEPT ![x] = [phase |-> "next", todo |-> Oldest(Ready), seen |-> attempts]]
        /\ status' = status
    BY <1>4 DEF Start
  <2>2. run'[x].todo = Oldest(Ready)
    BY <1>1, <2>1 DEF TypeOK
  <2>3. \A r \in Oldest(Ready) : status'[r] = "pending"
    BY <2>1 DEF Oldest, Ready
  <2> QED BY <2>2, <2>3 DEF Lone
<1>5. ASSUME NEW x \in Runs, NEW answer \in {"ok", "error", "lost", "skip", "unauthorized"},
             Call(x, answer)
      PROVE  Lone'
  <2>1. run'[x].todo = run[x].todo /\ status' = status /\ run[x].phase = "next" /\ run[x] # Off
    BY <1>1, <1>5 DEF Call, TypeOK, Off
  <2>2. \A r \in run'[x].todo : status'[r] = "pending"
    BY <2>1 DEF Lone
  <2> QED BY <2>2 DEF Lone
<1>6. ASSUME NEW x \in Runs, MarkFails(x) PROVE Lone'
  <2>1. run'[x].todo = run[x].todo /\ status' = status /\ run[x].phase = "mark" /\ run[x] # Off
    BY <1>1, <1>6 DEF MarkFails, TypeOK, Off, RunType
  <2>2. \A r \in run'[x].todo : status'[r] = "pending"
    BY <2>1 DEF Lone
  <2> QED BY <2>2 DEF Lone
<1>7. ASSUME NEW x \in Runs, Abort(x) PROVE Lone'
  <2>1. run'[x] = Off
    BY <1>1, <1>7 DEF Abort, TypeOK
  <2> QED BY <2>1 DEF Lone
<1>8. ASSUME NEW x \in Runs, Mark(x) PROVE Lone'
  <2> DEFINE c == Current(x)
  <2>1. run[x].phase = "mark" /\ run[x] # Off
    BY <1>8 DEF Mark, Off
  <2>2. \A r \in run[x].todo : status[r] = "pending"
    BY <2>1 DEF Lone
  <2>3. c \in Rows /\ run[x].todo \subseteq Rows
    BY <1>1, <2>1, CurrentRow
  <2>4. \A r \in run[x].todo \ {c} : status'[r] = "pending"
    BY <1>1, <1>8, <2>2, <2>3 DEF Mark, TypeOK
  <2>5. CASE Follows(c, run[x].answer, Outcome(run[x].answer, Attempt(x)))
    <3>1. run'[x] = [phase |-> "follow", todo |-> run[x].todo, seen |-> run[x].seen,
                     outcome |-> Outcome(run[x].answer, Attempt(x))]
      BY <1>1, <1>8, <2>5 DEF Mark, TypeOK
    <3>2. run'[x].phase = "follow" /\ run'[x].todo = run[x].todo
      BY <3>1
    <3>3. Current(x)' = c
      BY <3>2 DEF Current
    <3> QED BY <2>4, <3>2, <3>3 DEF Lone
  <2>6. CASE ~ Follows(c, run[x].answer, Outcome(run[x].answer, Attempt(x)))
    <3>1. run'[x] = Moved(x)
      BY <1>1, <1>8, <2>6 DEF Mark, TypeOK
    <3>2. run'[x] # Off => run'[x].todo = run[x].todo \ {c}
      BY <1>1, <2>1, <3>1, MovedOK
    <3> QED BY <2>4, <3>2 DEF Lone
  <2> QED BY <2>5, <2>6
<1>9. ASSUME NEW x \in Runs, Follow(x) PROVE Lone'
  <2>1. run[x].phase = "follow" /\ run[x] # Off /\ status' = status
    BY <1>9 DEF Follow, Off
  <2>2. \A r \in run[x].todo \ {Current(x)} : status'[r] = "pending"
    BY <2>1 DEF Lone
  <2>3. run'[x] = Moved(x)
    BY <1>1, <1>9 DEF Follow, TypeOK
  <2>4. run'[x] # Off => run'[x].todo = run[x].todo \ {Current(x)}
    BY <1>1, <2>1, <2>3, MovedOK
  <2> QED BY <2>2, <2>4 DEF Lone
<1>10. ASSUME NEW r \in Rows, Elapse(r) PROVE Lone'
  BY <1>3, <1>10 DEF Elapse
<1>11. ASSUME Reconnect \/ Disconnect PROVE Lone'
  BY <1>3, <1>11 DEF Reconnect, Disconnect
<1>12. CASE UNCHANGED vars
  BY <1>3, <1>12 DEF vars
<1> QED
  BY <1>2, <1>4, <1>5, <1>6, <1>7, <1>8, <1>9, <1>10, <1>11, <1>12 DEF Next, Work

LEMMA PromiseStep ==
    ASSUME \A x, y \in Runs : x = y, Inv, Lone, [Next]_vars
    PROVE  [Promise!Next]_(Promise!outboxVars)
<1>1. TypeOK /\ SentWasAccepted /\ GivesUpLate /\ \A x \in Runs : RunOK(x)
  BY DEF Inv, Runs_OK
<1>2. ASSUME NEW r \in Rows, Enqueue(r) PROVE Promise!Next
  <2>1. FirstAttempts \in {0, 1}
    BY DEF FirstAttempts
  <2>2. PICK a \in 0 .. FirstAttempts : accepted' = [accepted EXCEPT ![r] = a]
    BY <1>2 DEF Enqueue
  <2>3. a \in {0, 1} /\ a <= FirstAttempts
    BY <2>1
  <2>4. /\ status[r] = "none"
        /\ status' = [status EXCEPT ![r] = "pending"]
        /\ tries' = [tries EXCEPT ![r] = FirstAttempts]
        /\ UNCHANGED refused
    BY <1>2 DEF Enqueue
  <2>5. Promise!Queue(r)
    BY <2>1, <2>2, <2>3, <2>4 DEF Promise!Queue
  <2> QED BY <2>5 DEF Promise!Next
<1>3. ASSUME NEW x \in Runs, NEW answer \in {"ok", "error", "lost", "skip", "unauthorized"},
             Call(x, answer)
      PROVE  Promise!Next
  <2> DEFINE c == Current(x)
  <2>1. run[x].phase = "next" /\ run[x] # Off
    BY <1>3 DEF Call, Off
  <2>2. c \in Rows /\ c \in run[x].todo
    BY <1>1, <2>1, CurrentRow
  <2>3. status[c] = "pending"
    BY <2>1, <2>2 DEF Lone
  <2>4. /\ tries' = [tries EXCEPT ![c] = tries[c] + 1]
        /\ accepted' = [accepted EXCEPT ![c] =
                          IF answer \in {"ok", "lost"} THEN accepted[c] + 1 ELSE accepted[c]]
        /\ refused' \in {refused, refused \cup {c}}
        /\ status' = status
    BY <1>3 DEF Call
  <2> HIDE DEF c
  <2>5. accepted[c] \in Nat
    BY <1>1, <2>2 DEF TypeOK
  <2>6. \E a \in {0, 1} : accepted' = [accepted EXCEPT ![c] = accepted[c] + a]
    <3>1. CASE answer \in {"ok", "lost"}
      BY <2>4, <3>1
    <3>2. CASE answer \notin {"ok", "lost"}
      <4>1. accepted[c] + 0 = accepted[c]
        BY <2>5
      <4>2. accepted' = [accepted EXCEPT ![c] = accepted[c] + 0]
        BY <2>4, <3>2, <4>1
      <4> QED BY <4>2
    <3> QED BY <3>1, <3>2
  <2>7. Promise!Try(c)
    BY <2>3, <2>4, <2>6 DEF Promise!Try
  <2> QED BY <2>2, <2>7 DEF Promise!Next
<1>4. ASSUME NEW x \in Runs, Mark(x) PROVE Promise!Next \/ UNCHANGED Promise!outboxVars
  <2> DEFINE c == Current(x)
             answer == run[x].answer
             outcome == Outcome(answer, Attempt(x))
  <2>1. run[x].phase = "mark" /\ run[x] # Off
    BY <1>4 DEF Mark, Off
  <2>2. c \in Rows /\ c \in run[x].todo /\ Attempt(x) \in 1 .. MaxAttempts
        /\ run[x].seen[c] \in Nat
    BY <1>1, <2>1, CurrentRow
  <2>3. status[c] = "pending"
    BY <2>1, <2>2 DEF Lone
  <2>4. /\ run[x].seen[c] < tries[c]
        /\ answer = "ok" => accepted[c] > 0
        /\ answer = "unauthorized" => c \in refused
    BY <1>1, <2>1 DEF RunOK
  <2>5. tries[c] \in Nat /\ Attempt(x) = run[x].seen[c] + 1
    BY <1>1, <2>2 DEF TypeOK, Attempt
  <2>6. /\ status' = [status EXCEPT ![c] = outcome]
        /\ UNCHANGED <<tries, accepted, refused>>
    BY <1>4 DEF Mark
  <2>7. /\ outcome \in {"sent", "skipped", "failed", "pending"}
        /\ outcome = "sent" => answer = "ok"
        /\ outcome = "failed" => answer = "unauthorized" \/ Attempt(x) >= MaxAttempts
    BY DEF Outcome
  <2> HIDE DEF c, answer, outcome
  <2>8. CASE outcome = "pending"
    <3>1. status' = status
      BY <1>1, <2>2, <2>3, <2>6, <2>8 DEF TypeOK
    <3> QED BY <2>6, <3>1 DEF Promise!outboxVars
  <2>9. CASE outcome # "pending"
    <3>1. outcome = "sent" => accepted[c] > 0
      BY <2>4, <2>7
    <3>2. outcome = "failed" => tries[c] >= MaxAttempts \/ c \in refused
      BY <2>2, <2>4, <2>5, <2>7
    <3>3. tries[c] > 0
      BY <2>2, <2>4, <2>5
    <3>4. Promise!Settle(c, outcome)
      BY <2>3, <2>6, <3>1, <3>2, <3>3 DEF Promise!Settle
    <3>5. outcome \in Promise!Settled
      BY <2>7, <2>9 DEF Promise!Settled
    <3> QED BY <2>2, <3>4, <3>5 DEF Promise!Next
  <2> QED BY <2>8, <2>9
<1>5. ASSUME UNCHANGED <<status, tries, accepted, refused>>
      PROVE  UNCHANGED Promise!outboxVars
  BY <1>5 DEF Promise!outboxVars
<1>6. ASSUME NEW x \in Runs, Start(x) \/ Follow(x) \/ MarkFails(x) \/ Abort(x)
      PROVE  UNCHANGED Promise!outboxVars
  BY <1>5, <1>6 DEF Start, Follow, MarkFails, Abort
<1>7. ASSUME NEW r \in Rows, Elapse(r) PROVE UNCHANGED Promise!outboxVars
  BY <1>5, <1>7 DEF Elapse
<1>8. ASSUME Reconnect \/ Disconnect PROVE UNCHANGED Promise!outboxVars
  BY <1>5, <1>8 DEF Reconnect, Disconnect
<1>9. CASE UNCHANGED vars
  BY <1>5, <1>9 DEF vars
<1> QED BY <1>2, <1>3, <1>4, <1>6, <1>7, <1>8, <1>9 DEF Next, Work

\* A job whose runs never overlap implements the abstract queue: every message is
\* settled at most once, and settled as it really went.
THEOREM LoneRunKeepsPromise ==
    ASSUME \A x, y \in Runs : x = y
    PROVE  Spec => KeepsPromise
<1>1. Init => Promise!Init /\ Lone
  BY DEF Init, Promise!Init, Lone
<1>2. Inv /\ Lone /\ [Next]_vars => Lone'
  BY LoneStep
<1>3. Inv /\ Lone /\ [Next]_vars => [Promise!Next]_(Promise!outboxVars)
  BY PromiseStep
<1> QED
  BY <1>1, <1>2, <1>3, InitInv, NextInv, PTL DEF Spec, KeepsPromise, Promise!Spec

-------------------------------------------------------------------------------
(* A run that has the queue for itself logs every outcome once *)

\* Before the event of a row is written its instance has none, and the row stands
\* as the event will say.
FollowsOnce ==
    \A x \in Runs : (run[x] # Off /\ run[x].phase = "follow" /\ kind = "webhook") =>
        /\ status[Current(x)] = run[x].outcome
        /\ \A o \in Outcomes : logged[Current(x)][o] = 0
Logs == LogTellsOutcome /\ FollowsOnce

\* A row that is not settled has no event.
LEMMA PendingUnlogged ==
    ASSUME TypeOK, LogTellsOutcome, NEW r \in Rows, status[r] \notin Outcomes, NEW o \in Outcomes
    PROVE  logged[r][o] = 0
<1>1. logged[r][o] \in Nat
  BY DEF TypeOK
<1>2. ~ (logged[r][o] > 0)
  BY DEF LogTellsOutcome
<1> QED BY <1>1, <1>2

\* A step that writes no event and changes no settled row, nor a run about to write one.
LEMMA LogsAside ==
    ASSUME TypeOK, \A x \in Runs : RunOK(x), Logs, logged' = logged, kind' = kind,
           \A r \in Rows : status[r] \in Outcomes => status'[r] = status[r],
           \A x \in Runs :
              \/ run'[x] = run[x]
              \/ run'[x] # Off => run'[x].phase # "follow"
    PROVE  Logs'
<1>1. LogTellsOutcome'
  BY DEF Logs, LogTellsOutcome
<1>2. ASSUME NEW x \in Runs, run'[x] # Off, run'[x].phase = "follow", kind = "webhook"
      PROVE  status'[Current(x)'] = run'[x].outcome
             /\ \A o \in Outcomes : logged'[Current(x)'][o] = 0
  <2>1. run'[x] = run[x] /\ Current(x)' = Current(x)
    BY <1>2 DEF Current
  <2>2. status[Current(x)] = run[x].outcome /\ \A o \in Outcomes : logged[Current(x)][o] = 0
    BY <1>2, <2>1 DEF Logs, FollowsOnce
  <2>3. Current(x) \in Rows
    BY <1>2, <2>1, CurrentRow
  <2>4. run[x].outcome \in Outcomes
    <3>1. run[x] \in RunType
      BY DEF TypeOK
    <3> QED BY <1>2, <2>1, <3>1 DEF RunType, Off
  <2> QED BY <2>1, <2>2, <2>3, <2>4
<1> QED BY <1>1, <1>2 DEF Logs, FollowsOnce

LEMMA LogsStep ==
    ASSUME \A x, y \in Runs : x = y, Inv, Lone, Logs, [Next]_vars
    PROVE  Logs'
<1>1. TypeOK /\ \A x \in Runs : RunOK(x)
  BY DEF Inv, Runs_OK
<1>2. ASSUME NEW r \in Rows, Enqueue(r) PROVE Logs'
  <2>1. /\ logged' = logged /\ kind' = kind /\ run' = run
        /\ \A q \in Rows : status[q] \in Outcomes => status'[q] = status[q]
    BY <1>1, <1>2 DEF Enqueue, TypeOK, Outcomes
  <2> QED BY <1>1, <2>1, LogsAside
<1>3. ASSUME UNCHANGED <<logged, kind, status, run>> PROVE Logs'
  BY <1>1, <1>3, LogsAside
<1>4. ASSUME NEW x \in Runs, Start(x) PROVE Logs'
  <2>1. /\ logged' = logged /\ kind' = kind /\ status' = status
        /\ run' = [run EXCEPT ![x] = [phase |-> "next", todo |-> Oldest(Ready), seen |-> attempts]]
    BY <1>4 DEF Start
  <2>2. run'[x].phase = "next" /\ \A y \in Runs \ {x} : run'[y] = run[y]
    BY <1>1, <2>1 DEF TypeOK
  <2> QED BY <1>1, <2>1, <2>2, LogsAside
<1>5. ASSUME NEW x \in Runs, NEW answer \in {"ok", "error", "lost", "skip", "unauthorized"},
             Call(x, answer)
      PROVE  Logs'
  <2>1. /\ logged' = logged /\ kind' = kind /\ status' = status
        /\ run'[x].phase = "mark" /\ \A y \in Runs \ {x} : run'[y] = run[y]
    BY <1>1, <1>5 DEF Call, TypeOK
  <2> QED BY <1>1, <2>1, LogsAside
<1>6. ASSUME NEW x \in Runs, MarkFails(x) PROVE Logs'
  <2>1. /\ logged' = logged /\ kind' = kind /\ status' = status
        /\ run[x].phase = "mark" /\ run' = [run EXCEPT ![x].answer = "error"]
    BY <1>6 DEF MarkFails
  <2>2. run'[x].phase = "mark" /\ \A y \in Runs \ {x} : run'[y] = run[y]
    BY <1>1, <2>1 DEF TypeOK
  <2> QED BY <1>1, <2>1, <2>2, LogsAside
<1>7. ASSUME NEW x \in Runs, Abort(x) PROVE Logs'
  <2>1. /\ logged' = logged /\ kind' = kind /\ status' = status
        /\ run'[x] = Off /\ \A y \in Runs \ {x} : run'[y] = run[y]
    BY <1>1, <1>7 DEF Abort, TypeOK
  <2> QED BY <1>1, <2>1, LogsAside
<1>8. ASSUME NEW x \in Runs, Mark(x) PROVE Logs'
  <2> DEFINE c == Current(x)
             outcome == Outcome(run[x].answer, Attempt(x))
  <2>1. run[x].phase = "mark" /\ run[x] # Off
    BY <1>8 DEF Mark, Off
  <2>2. c \in Rows /\ c \in run[x].todo
    BY <1>1, <2>1, CurrentRow
  <2>3. status[c] = "pending"
    BY <2>1, <2>2 DEF Lone
  <2>4. \A o \in Outcomes : logged[c][o] = 0
    BY <1>1, <2>2, <2>3, PendingUnlogged DEF Logs, Outcomes
  <2>5. logged' = logged /\ kind' = kind /\ status' = [status EXCEPT ![c] = outcome]
    BY <1>8 DEF Mark
  <2>6. \A q \in Rows : status[q] \in Outcomes => status'[q] = status[q]
    BY <1>1, <2>2, <2>3, <2>5 DEF TypeOK, Outcomes
  <2>7. CASE Follows(c, run[x].answer, outcome)
    <3>1. run'[x] = [phase |-> "follow", todo |-> run[x].todo, seen |-> run[x].seen,
                     outcome |-> outcome]
      BY <1>1, <1>8, <2>7 DEF Mark, TypeOK
    <3>2. run'[x].outcome = outcome /\ run'[x].todo = run[x].todo
      BY <3>1
    <3>3. Current(x)' = c
      BY <3>2 DEF Current
    <3>4. status'[c] = outcome
      BY <1>1, <2>2, <2>5 DEF TypeOK
    <3>5. FollowsOnce'
      BY <2>4, <2>5, <3>2, <3>3, <3>4 DEF FollowsOnce
    <3>6. LogTellsOutcome'
      BY <2>5, <2>6 DEF Logs, LogTellsOutcome
    <3> QED BY <3>5, <3>6 DEF Logs
  <2>8. CASE ~ Follows(c, run[x].answer, outcome)
    <3>1. run'[x] = Moved(x) /\ \A y \in Runs \ {x} : run'[y] = run[y]
      BY <1>1, <1>8, <2>8 DEF Mark, TypeOK
    <3>2. run'[x] # Off => run'[x].phase # "follow"
      BY <3>1 DEF Moved
    <3> QED BY <1>1, <2>5, <2>6, <3>1, <3>2, LogsAside
  <2> QED BY <2>7, <2>8
<1>9. ASSUME NEW x \in Runs, Follow(x) PROVE Logs'
  <2> DEFINE c == Current(x)
  <2>1. run[x].phase = "follow" /\ run[x] # Off /\ status' = status /\ kind' = kind
    BY <1>9 DEF Follow, Off
  <2>2. c \in Rows
    BY <1>1, <2>1, CurrentRow
  <2>3. run'[x] = Moved(x)
    BY <1>1, <1>9 DEF Follow, TypeOK
  <2>4. run'[x] # Off => run'[x].phase # "follow"
    BY <2>3 DEF Moved
  <2>5. FollowsOnce'
    BY <2>4 DEF FollowsOnce
  <2>6. CASE kind = "webhook"
    <3> DEFINE o1 == run[x].outcome
    <3>1. logged' = [logged EXCEPT ![c][o1] = logged[c][o1] + 1]
      BY <1>9, <2>6 DEF Follow
    <3>2. status[c] = o1 /\ \A o \in Outcomes : logged[c][o] = 0
      BY <2>1, <2>6 DEF Logs, FollowsOnce
    <3> HIDE DEF c, o1
    <3>3. \A o \in Outcomes : logged'[c][o] = IF o = o1 THEN 1 ELSE 0
      BY <1>1, <2>2, <3>1, <3>2 DEF TypeOK
    <3>4. \A q \in Rows \ {c} : logged'[q] = logged[q]
      BY <1>1, <2>2, <3>1 DEF TypeOK
    <3>5. LogTellsOutcome'
      BY <2>1, <3>2, <3>3, <3>4 DEF Logs, LogTellsOutcome
    <3> QED BY <2>5, <3>5 DEF Logs
  <2>7. CASE kind # "webhook"
    <3>1. logged' = logged
      BY <1>9, <2>7 DEF Follow
    <3> QED BY <2>1, <2>5, <3>1 DEF Logs, LogTellsOutcome
  <2> QED BY <2>6, <2>7
<1>10. ASSUME NEW r \in Rows, Elapse(r) PROVE Logs'
  BY <1>3, <1>10 DEF Elapse
<1>11. ASSUME Reconnect \/ Disconnect PROVE Logs'
  BY <1>3, <1>11 DEF Reconnect, Disconnect
<1>12. CASE UNCHANGED vars
  BY <1>3, <1>12 DEF vars
<1> QED
  BY <1>2, <1>4, <1>5, <1>6, <1>7, <1>8, <1>9, <1>10, <1>11, <1>12 DEF Next, Work

\* The events that dispatchWebhooks leaves in the log of an instance tell the one
\* outcome of each delivery, once, however often its runs are cut short, as long as
\* they do not overlap.
THEOREM LoneRunLogsOnce ==
    ASSUME \A x, y \in Runs : x = y
    PROVE  Spec => []LogTellsOutcome
<1>1. Init => Lone /\ Logs
  BY DEF Init, Lone, Logs, LogTellsOutcome, FollowsOnce
<1>2. Inv /\ Lone /\ [Next]_vars => Lone'
  BY LoneStep
<1>3. Inv /\ Lone /\ Logs /\ [Next]_vars => Logs'
  BY LogsStep
<1>4. Logs => LogTellsOutcome
  BY DEF Logs
<1> QED
  BY <1>1, <1>2, <1>3, <1>4, InitInv, NextInv, PTL DEF Spec

===============================================================================
