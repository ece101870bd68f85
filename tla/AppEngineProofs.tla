-------------------------- MODULE AppEngineProofs --------------------------
(***************************************************************************)
(* Proofs about the engine of App Studio, for any definitions that the     *)
(* validator accepts and any number of overlapping transactions. A request *)
(* activates stages in turns (Turn): what each turn keeps, Settled keeps   *)
(* (SettledKeeps), whatever the number of turns.                           *)
(***************************************************************************)
EXTENDS AppEngine, FiniteSetTheorems, TLAPS

-------------------------------------------------------------------------------
(* The invariant *)

\* Instances, as long as none is over: an attempt to come is the last one of its stage,
\* and nothing is skipped before the end.
PendingLast(st) == \A i \in DOMAIN st.runs : \A a \in DOMAIN st.runs[i] :
                     st.runs[i][a] = "pending" => a = Len(st.runs[i])
Unskipped(st) == st.status = "running" =>
                   \A i \in DOMAIN st.runs : \A a \in DOMAIN st.runs[i] : st.runs[i][a] # "skipped"
Instances(d) == {st \in InstanceType(d) : PendingLast(st) /\ Unskipped(st)}

\* What a request has done so far and what it has left to activate.
Chains(d) == [inst : Instances(d), todo : Seq(Stages(d))]
Left(todo) == {todo[n] : n \in DOMAIN todo}

\* Every group has been entered, its stages active or done unless still to be activated,
\* or else waits to be.
Entered(d, s, i) == \A j \in GroupOf(d, i) : Latest(s.inst.runs, j) \in {"active", "done"} \/ j \in Left(s.todo)
Fresh(d, s, i) == \A j \in GroupOf(d, i) : Latest(s.inst.runs, j) = "pending" /\ j \notin Left(s.todo)
Grouped(d, s) == s.inst.status = "running" => \A i \in Stages(d) : Entered(d, s, i) \/ Fresh(d, s, i)

Alive(st) == \E i \in DOMAIN st.runs : Latest(st.runs, i) = "active"
Concluding(d, st) == \E i \in Stages(d) : /\ Cardinality(GroupOf(d, i)) > 1
                                          /\ \A j \in GroupOf(d, i) : Latest(st.runs, j) = "done"

Quiet(st) == \A i \in DOMAIN st.runs : \A a \in DOMAIN st.runs[i] : st.runs[i][a] \notin {"pending", "active"}
Resting(s) == s.inst.status # "running" => Quiet(s.inst) /\ s.inst.current = {} /\ s.todo = <<>>
InGroup(d, s) == Len(s.todo) > 1 => \A n \in DOMAIN s.todo : Parallel(d, s.todo[n])

\* The one group that is at work: its current stages are active or left to activate, the
\* others done. Groups with automatic stages are not done before they are entered.
Undone(st, j) == Latest(st.runs, j) \notin {"done", "skipped"}
ActiveLast(st) == \A i \in DOMAIN st.runs : \A a \in DOMAIN st.runs[i] :
                    st.runs[i][a] = "active" => a = Len(st.runs[i])
Beyond(d, g, i) == \A j \in GroupOf(d, g), k \in GroupOf(d, i) : j < k
AtWork(d, s, g) ==
  /\ s.inst.current # {} /\ s.inst.current \subseteq GroupOf(d, g)
  /\ Left(s.todo) \subseteq s.inst.current
  /\ Active(s.inst) = s.inst.current \ Left(s.todo)
  /\ \A j \in GroupOf(d, g) \ s.inst.current : Latest(s.inst.runs, j) = "done"
  /\ \A n, m \in DOMAIN s.todo : n < m => s.todo[n] < s.todo[m]
  /\ \A i \in GroupOf(d, g) \cap Automatic(d) : \A j \in Left(s.todo) : Undone(s.inst, j)
  /\ \A i \in Automatic(d) : Beyond(d, g, i) => \A j \in GroupOf(d, i) : Undone(s.inst, j)
OneGroup(d, s) ==
  /\ ActiveLast(s.inst)
  /\ Resting(s)
  /\ s.inst.status = "running" => \E g \in Stages(d) : AtWork(d, s, g)

\* Sessions: what each knows of the run that it concludes, whoever has overtaken it.
Decides(c) == session[c] # Idle /\ session[c].op # "cancel"
SessionOK(c) ==
  LET s == session[c]
  IN /\ s.attempt \in DOMAIN inst.runs[s.stage]
     /\ inst.runs[s.stage][s.attempt] # "pending"
     /\ s.exit \in Matching(definition[s.stage])
     /\ s.op \in {"approve", "reject"} => definition[s.stage].type = "approval"
     /\ s.marked => /\ s.seen \in Instances(definition)
                    /\ s.attempt \in DOMAIN s.seen.runs[s.stage]
                    /\ s.seen.runs[s.stage][s.attempt] = Outcome(s.op)
                    /\ Len(s.seen.runs[s.stage]) <= Len(inst.runs[s.stage])
                    /\ s.seen.status # "running" => inst.status # "running"
\* Unless a commit has overtaken it, what it knows is so.
KnowsOK(c) ==
  LET s == session[c]
  IN /\ s.op # "submit" => inst.status = "running"
     /\ s.op # "cancel" => inst.runs[s.stage][s.attempt] = "active"
     /\ s.op # "cancel" /\ s.marked => s.seen = Concluded(inst, s)

Inv ==
  /\ TypeOK
  /\ inst \in Instances(definition)
  /\ \A c \in Connections : Decides(c) => SessionOK(c)
  /\ \A c \in Open \ late : KnowsOK(c)
  /\ Grouped(definition, Still(inst))
  /\ inst.status = "running" => Alive(inst) \/ (overtaken /\ Concluding(definition, inst))
  /\ ~overtaken /\ Automatic(definition) = {} => Resting(Still(inst))
  /\ ~overtaken /\ Plain(definition) => OneGroup(definition, Still(inst))

-------------------------------------------------------------------------------
(* Turns *)

\* What holds at first and stays so holds for ever: an injection of a finite set into
\* itself is onto, so the set of the numbers below a counterexample would not be finite.
LEMMA Induction ==
    ASSUME NEW S, 0 \in S, \A n \in Nat : n \in S => n + 1 \in S
    PROVE  \A n \in Nat : n \in S
<1>1. SUFFICES ASSUME NEW n \in Nat, n \notin S PROVE FALSE
  OBVIOUS
<1> DEFINE A == {k \in 0..n : k \in S}
           next == [k \in A |-> k + 1]
<1>2. IsFiniteSet(0..n)
  BY FS_Interval
<1>3. IsFiniteSet(A)
  BY <1>2, FS_Subset
<1>4. \A k \in A : k + 1 \in A
  BY <1>1
<1>5. next \in Injection(A, A)
  BY <1>4 DEF Injection, IsInjective
<1>6. next \in Surjection(A, A)
  BY <1>3, <1>5, FS_Injection
<1>7. 0 \in A
  OBVIOUS
<1>8. PICK k \in A : next[k] = 0
  BY <1>6, <1>7 DEF Surjection
<1> QED BY <1>8

\* The least and the greatest of the numbers up to a bound.
LEMMA Least ==
    ASSUME NEW S, NEW b \in S, S \subseteq Nat
    PROVE  \E i \in S : \A j \in S : i <= j
<1>1. SUFFICES ASSUME \A i \in S : \E j \in S : j < i PROVE FALSE
  OBVIOUS
<1> DEFINE Above == {n \in Nat : \A j \in S : n <= j}
<1>2. 0 \in Above
  OBVIOUS
<1>3. ASSUME NEW n \in Nat, n \in Above PROVE n + 1 \in Above
  <2>1. n \notin S
    BY <1>1, <1>3
  <2> QED BY <2>1, <1>3
<1>4. \A n \in Nat : n \in Above
  <2> HIDE DEF Above
  <2> QED BY <1>2, <1>3, Induction
<1>5. b + 1 \in Above
  BY <1>4
<1> QED BY <1>5

LEMMA Greatest ==
    ASSUME NEW S, NEW n \in Nat, S \subseteq 1..n, S # {}
    PROVE  \E i \in S : \A j \in S : j <= i
<1> DEFINE R == {k \in 0..n : n - k \in S}
<1>1. PICK b \in S : TRUE
  OBVIOUS
<1>2. \A j \in S : n - j \in R
  <2>1. \A j \in S : j \in 1..n /\ n - j \in 0..n /\ n - (n - j) = j
    OBVIOUS
  <2> QED BY <2>1
<1>3. PICK k \in R : \A m \in R : k <= m
  <2> HIDE DEF R
  <2>1. n - b \in R /\ R \subseteq Nat
    BY <1>2 DEF R
  <2> QED BY <2>1, Least
<1>4. k \in 0..n /\ n - k \in S
  OBVIOUS
<1>5. \A j \in S : j \in 1..n /\ k <= n - j
  BY <1>2, <1>3
<1> QED BY <1>4, <1>5

LEMMA TurnsDefined ==
    ASSUME NEW d, NEW s, NEW m \in Nat
    PROVE  \E f : f = [n \in 0..m |-> IF n = 0 THEN s ELSE Turn(d, f[n - 1])]
<1> DEFINE S == {k \in Nat : \E f : f = [n \in 0..k |-> IF n = 0 THEN s ELSE Turn(d, f[n - 1])]}
<1>1. 0 \in S
  <2> DEFINE f == [n \in 0..0 |-> s]
  <2>1. f = [n \in 0..0 |-> IF n = 0 THEN s ELSE Turn(d, f[n - 1])]
    OBVIOUS
  <2> HIDE DEF f
  <2> QED BY <2>1
<1>2. ASSUME NEW k \in Nat, k \in S PROVE k + 1 \in S
  <2>1. PICK f : f = [n \in 0..k |-> IF n = 0 THEN s ELSE Turn(d, f[n - 1])]
    BY <1>2
  <2> DEFINE g == [n \in 0..(k + 1) |-> IF n = k + 1 THEN Turn(d, f[k]) ELSE f[n]]
  <2>2. ASSUME NEW n \in 0..(k + 1) PROVE g[n] = IF n = 0 THEN s ELSE Turn(d, g[n - 1])
    <3>1. CASE n = k + 1
      <4>1. g[n] = Turn(d, f[k]) /\ g[n - 1] = f[k] /\ n # 0
        BY <3>1
      <4> QED BY <4>1
    <3>2. CASE n # k + 1
      <4>1. n \in 0..k /\ g[n] = f[n] /\ (n # 0 => g[n - 1] = f[n - 1])
        BY <3>2
      <4>2. f[n] = IF n = 0 THEN s ELSE Turn(d, f[n - 1])
        BY <2>1, <4>1
      <4> QED BY <4>1, <4>2
    <3> QED BY <3>1, <3>2
  <2>3. g = [n \in 0..(k + 1) |-> g[n]]
    OBVIOUS
  <2>4. g = [n \in 0..(k + 1) |-> IF n = 0 THEN s ELSE Turn(d, g[n - 1])]
    <3> HIDE DEF g
    <3> QED BY <2>2, <2>3
  <2>5. \E h : h = [n \in 0..(k + 1) |-> IF n = 0 THEN s ELSE Turn(d, h[n - 1])]
    <3> HIDE DEF g
    <3> QED BY <2>4
  <2> QED BY <2>5
<1>3. m \in S
  <2> HIDE DEF S
  <2> QED BY <1>1, <1>2, Induction
<1> QED BY <1>3

\* What every turn keeps, the whole request keeps.
LEMMA SettledKeeps ==
    ASSUME NEW d, NEW T, NEW s \in T, \A x \in T : Turn(d, x) \in T
    PROVE  Settled(d, s) \in T
<1> DEFINE turns == CHOOSE f : f = [n \in 0..MaxTurns |-> IF n = 0 THEN s ELSE Turn(d, f[n - 1])]
           S == {n \in Nat : n <= MaxTurns => turns[n] \in T}
<1>1. MaxTurns \in Nat
  BY BoundAssumption
<1>2. turns = [n \in 0..MaxTurns |-> IF n = 0 THEN s ELSE Turn(d, turns[n - 1])]
  BY <1>1, TurnsDefined
<1>3. \A n \in 0..MaxTurns : turns[n] = IF n = 0 THEN s ELSE Turn(d, turns[n - 1])
  <2> HIDE DEF turns
  <2> QED BY <1>2
<1> HIDE DEF turns
<1>4. 0 \in S
  BY <1>1, <1>3
<1>5. ASSUME NEW n \in Nat, n \in S PROVE n + 1 \in S
  <2>1. SUFFICES ASSUME n + 1 <= MaxTurns PROVE turns[n + 1] \in T
    OBVIOUS
  <2>2. turns[n] \in T
    BY <2>1, <1>1, <1>5
  <2>3. turns[n + 1] = Turn(d, turns[n])
    BY <2>1, <1>1, <1>3
  <2> QED BY <2>2, <2>3
<1>6. MaxTurns \in S
  <2> HIDE DEF S
  <2> QED BY <1>1, <1>4, <1>5, Induction
<1> QED BY <1>1, <1>6 DEF Settled, turns

-------------------------------------------------------------------------------
(* Definitions *)

LEMMA Definition ==
    ASSUME NEW d \in Definitions
    PROVE  /\ Stages(d) = 1..Len(d) /\ Len(d) \in Nat \ {0}
           /\ \A i \in Stages(d) :
                /\ d[i] \in StageType
                /\ d[i].exits \subseteq Stages(d) \cup {End}
                /\ d[i].rejectTo # None => /\ d[i].type = "approval" /\ ~Parallel(d, i)
                                           /\ d[i].rejectTo \in Stages(d) /\ d[i].rejectTo < i
<1>1. WellFormed(d)
  BY DefinitionsAssumption
<1>2. d \in Seq(StageType) /\ d # <<>>
  BY <1>1 DEF WellFormed
<1>3. Stages(d) = 1..Len(d) /\ Len(d) \in Nat \ {0}
  BY <1>2 DEF Stages
<1>4. ASSUME NEW i \in Stages(d) PROVE d[i] \in StageType
  BY <1>2, <1>3
<1> QED BY <1>1, <1>3, <1>4 DEF WellFormed

\* The groups are a partition of the stages.
LEMMA Group ==
    ASSUME NEW d \in Definitions, NEW i \in Stages(d)
    PROVE  /\ i \in GroupOf(d, i) /\ GroupOf(d, i) \subseteq Stages(d)
           /\ \A j \in GroupOf(d, i) : GroupOf(d, j) = GroupOf(d, i) /\ (Parallel(d, j) <=> Parallel(d, i))
           /\ ~Parallel(d, i) => GroupOf(d, i) = {i}
           /\ \A j \in Stages(d) : i \in GroupOf(d, j) => GroupOf(d, j) = GroupOf(d, i)
BY DEF GroupOf, Parallel

LEMMA Span ==
    ASSUME NEW d \in Definitions, NEW i \in Stages(d)
    PROVE  \E a, b \in Stages(d) : /\ a <= b /\ GroupOf(d, i) = a..b
<1>1. GroupOf(d, i) \subseteq 1..Len(d) /\ Len(d) \in Nat /\ i \in GroupOf(d, i)
  BY Definition, Group
<1>2. PICK a \in GroupOf(d, i) : \A j \in GroupOf(d, i) : a <= j
  <2>1. GroupOf(d, i) \subseteq Nat
    BY <1>1
  <2> QED BY <1>1, <2>1, Least
<1>3. PICK b \in GroupOf(d, i) : \A j \in GroupOf(d, i) : j <= b
  <2>1. GroupOf(d, i) # {}
    BY <1>1
  <2> QED BY <1>1, <2>1, Greatest
<1>4. a..b \subseteq GroupOf(d, i)
  BY DefinitionsAssumption DEF WellFormed
<1>5. GroupOf(d, i) \subseteq a..b
  BY <1>1, <1>2, <1>3
<1>6. a \in Stages(d) /\ b \in Stages(d) /\ a <= b
  BY <1>1, <1>2, <1>3, Definition
<1>7. a <= b /\ GroupOf(d, i) = a..b
  BY <1>4, <1>5, <1>6
<1> DEFINE P(x, y) == x <= y /\ GroupOf(d, i) = x..y
<1>8. P(a, b)
  BY <1>7
<1>9. \E x, y \in Stages(d) : P(x, y)
  <2> HIDE DEF P
  <2> QED BY <1>6, <1>8
<1> QED BY <1>9

\* What activate begins with.
LEMMA ActivatingFacts ==
    ASSUME NEW d \in Definitions, NEW st, NEW i \in Stages(d)
    PROVE  LET x == Activating(d, st, i)
           IN /\ x = [inst |-> [st EXCEPT !.current = GroupOf(d, i)], todo |-> x.todo]
              /\ x.todo \in Seq(Stages(d))
              /\ Left(x.todo) = GroupOf(d, i)
              /\ \A n, m \in DOMAIN x.todo : n < m => x.todo[n] < x.todo[m]
              /\ Len(x.todo) > 1 => \A n \in DOMAIN x.todo : Parallel(d, x.todo[n])
              /\ x.todo # <<>>
<1> DEFINE group == GroupOf(d, i)
           first == CHOOSE j \in group : \A k \in group : j <= k
           todo == [n \in 1..Cardinality(group) |-> first + n - 1]
<1>1. PICK a, b \in Stages(d) : a <= b /\ group = a..b
  BY Span
<1>2. a \in Nat /\ b \in Nat
  BY Definition
<1>3. first = a
  <2>1. \E j \in group : \A k \in group : j <= k
    BY <1>1, <1>2
  <2>2. first \in group /\ \A k \in group : first <= k
    <3> HIDE DEF group
    <3> QED BY <2>1
  <2> QED BY <1>1, <1>2, <2>2
<1>4. Cardinality(group) = b - a + 1
  <2>1. Cardinality(a..b) = IF a > b THEN 0 ELSE b - a + 1
    BY <1>2, FS_Interval
  <2> QED BY <1>1, <1>2, <2>1
<1>5. todo = [n \in 1..(b - a + 1) |-> a + n - 1]
  <2> HIDE DEF first, group
  <2> QED BY <1>3, <1>4
<1> HIDE DEF first
<1>6. Activating(d, st, i) = [inst |-> [st EXCEPT !.current = group], todo |-> todo]
  BY DEF Activating, first
<1>7. group \subseteq Stages(d)
  BY Group
<1> DEFINE list == [n \in 1..(b - a + 1) |-> a + n - 1]
<1>8. list \in Seq(Stages(d)) /\ Len(list) = b - a + 1 /\ DOMAIN list = 1..(b - a + 1)
  <2>1. \A n \in 1..(b - a + 1) : a + n - 1 \in a..b
    BY <1>2
  <2>2. \A n \in 1..(b - a + 1) : a + n - 1 \in Stages(d)
    BY <2>1, <1>1, <1>7
  <2>3. b - a + 1 \in Nat
    BY <1>1, <1>2
  <2>4. list \in [1..(b - a + 1) -> Stages(d)]
    BY <2>2
  <2> HIDE DEF list
  <2> QED BY <2>3, <2>4
<1>9. Left(list) = group
  <2>1. \A j \in a..b : j - a + 1 \in 1..(b - a + 1) /\ list[j - a + 1] = j
    BY <1>2
  <2>2. \A n \in 1..(b - a + 1) : list[n] \in a..b
    BY <1>2
  <2> HIDE DEF list
  <2> QED BY <1>1, <1>8, <2>1, <2>2 DEF Left
<1>10. \A n, m \in 1..(b - a + 1) : n < m => list[n] < list[m]
  BY <1>2
<1>11. Len(list) > 1 => \A n \in 1..(b - a + 1) : Parallel(d, list[n])
  <2> SUFFICES ASSUME Len(list) > 1, NEW n \in 1..(b - a + 1) PROVE Parallel(d, list[n])
    OBVIOUS
  <2>1. list[n] \in group
    BY <1>8, <1>9 DEF Left
  <2>2. a \in group /\ b \in group /\ a # b
    BY <1>1, <1>2, <1>8
  <2>3. Parallel(d, i)
    BY <2>2, Group
  <2> QED BY <2>1, <2>3, Group
<1>12. list # <<>>
  BY <1>1, <1>2, <1>8
<1>13. Activating(d, st, i) = [inst |-> [st EXCEPT !.current = group], todo |-> list]
  BY <1>5, <1>6
<1> HIDE DEF list, group
<1>14. /\ Activating(d, st, i).todo = list
       /\ Activating(d, st, i) = [inst |-> [st EXCEPT !.current = group], todo |-> Activating(d, st, i).todo]
  BY <1>13
<1> QED BY <1>8, <1>9, <1>10, <1>11, <1>12, <1>14 DEF group

-------------------------------------------------------------------------------
(* What each operation does to the runs *)

\* No attempt disappears or is to come again, nor does an instance that is over run.
Grows(old, new) ==
  /\ \A i \in DOMAIN old.runs :
       /\ Len(old.runs[i]) <= Len(new.runs[i])
       /\ \A a \in DOMAIN old.runs[i] : old.runs[i][a] # "pending" => new.runs[i][a] # "pending"
  /\ old.status # "running" => new.status # "running"
\* What is concluded is at most superseded.
Stands(old, new) ==
  \A i \in DOMAIN old.runs : \A a \in DOMAIN old.runs[i] :
    old.runs[i][a] \notin {"pending", "active"} => new.runs[i][a] \in {old.runs[i][a], "superseded"}

LEMMA Runs ==
    ASSUME NEW d \in Definitions, NEW st \in InstanceType(d)
    PROVE  /\ DOMAIN st.runs = Stages(d)
           /\ \A i \in Stages(d) :
                /\ st.runs[i] \in Seq(RunStatuses)
                /\ Len(st.runs[i]) \in Nat \ {0}
                /\ \A a \in DOMAIN st.runs[i] : st.runs[i][a] \in RunStatuses
                /\ Latest(st.runs, i) = st.runs[i][Len(st.runs[i])]
                /\ Latest(st.runs, i) \in RunStatuses
<1>1. st.runs \in [Stages(d) -> Seq(RunStatuses) \ {<<>>}]
  BY DEF InstanceType
<1>2. ASSUME NEW i \in Stages(d)
      PROVE  /\ st.runs[i] \in Seq(RunStatuses) /\ Len(st.runs[i]) \in Nat \ {0}
  <2>1. st.runs[i] \in Seq(RunStatuses) /\ st.runs[i] # <<>>
    BY <1>1
  <2> QED BY <2>1
<1>3. ASSUME NEW i \in Stages(d), NEW a \in DOMAIN st.runs[i] PROVE st.runs[i][a] \in RunStatuses
  BY <1>2
<1> QED BY <1>1, <1>2, <1>3 DEF Latest, Last

\* The library's facts on sequences, as they are used here.
LEMMA Replaced ==
    ASSUME NEW S, NEW old \in Seq(S), Len(old) \in Nat \ {0}, NEW v \in S, NEW new,
           new = [old EXCEPT ![Len(old)] = v]
    PROVE  /\ new \in Seq(S) /\ new # <<>> /\ Len(new) = Len(old)
           /\ new[Len(new)] = v /\ \A a \in 1..Len(old) : a # Len(old) => new[a] = old[a]
OBVIOUS

LEMMA Appended ==
    ASSUME NEW S, NEW old \in Seq(S), Len(old) \in Nat \ {0}, NEW v \in S, NEW new,
           new = Append(old, v)
    PROVE  /\ new \in Seq(S) /\ new # <<>> /\ Len(new) = Len(old) + 1
           /\ new[Len(new)] = v /\ \A a \in 1..Len(old) : new[a] = old[a]
OBVIOUS

\* An instance whose runs have changed.
LEMMA Rerun ==
    ASSUME NEW d \in Definitions, NEW st \in InstanceType(d),
           NEW runs \in [Stages(d) -> Seq(RunStatuses) \ {<<>>}]
    PROVE  LET new == [st EXCEPT !.runs = runs]
           IN /\ new \in InstanceType(d) /\ new.runs = runs
              /\ new.status = st.status /\ new.outcome = st.outcome /\ new.current = st.current
BY DEF InstanceType

LEMMA OpenedFacts ==
    ASSUME NEW d \in Definitions, NEW st \in Instances(d), NEW i \in Stages(d),
           NEW status \in {"active", "done"}
    PROVE  LET new == Opened(st, i, status)
           IN /\ new \in Instances(d)
              /\ new.status = st.status /\ new.current = st.current
              /\ \A j \in Stages(d) \ {i} : new.runs[j] = st.runs[j]
              /\ Latest(new.runs, i) = status
              /\ \A a \in 1..Len(new.runs[i]) : a # Len(new.runs[i]) =>
                   a \in 1..Len(st.runs[i]) /\ new.runs[i][a] = st.runs[i][a] /\ st.runs[i][a] # "pending"
              /\ Grows(st, new) /\ Stands(st, new)
<1> DEFINE old == st.runs[i]
           waiting == RunsIn(st.runs, i, "pending")
           run == IF waiting = {} THEN Append(old, status)
                  ELSE [old EXCEPT ![CHOOSE a \in waiting : \A b \in waiting : b <= a] = status]
           runs == [st.runs EXCEPT ![i] = run]
           new == [st EXCEPT !.runs = runs]
<1>1. st \in InstanceType(d) /\ PendingLast(st) /\ Unskipped(st)
  BY DEF Instances
<1>2. Opened(st, i, status) = new
  <2>1. [st EXCEPT !.runs[i] = run] = [st EXCEPT !.runs = [st.runs EXCEPT ![i] = run]]
    OBVIOUS
  <2> QED BY <2>1 DEF Opened
<1>3. /\ DOMAIN st.runs = Stages(d) /\ old \in Seq(RunStatuses) /\ Len(old) \in Nat \ {0}
      /\ \A a \in 1..Len(old) : old[a] \in RunStatuses
  BY <1>1, Runs
<1>4. waiting \subseteq {Len(old)} /\ waiting = {a \in 1..Len(old) : old[a] = "pending"}
  BY <1>1, <1>3 DEF PendingLast, RunsIn
<1>5. /\ run \in Seq(RunStatuses) /\ run # <<>> /\ run[Len(run)] = status
      /\ \/ Len(run) = Len(old) + 1 /\ \A a \in 1..Len(old) : run[a] = old[a] /\ old[a] # "pending"
         \/ /\ Len(run) = Len(old) /\ old[Len(old)] = "pending"
            /\ \A a \in 1..Len(old) : a # Len(old) => run[a] = old[a] /\ old[a] # "pending"
  <2>1. status \in RunStatuses
    BY DEF RunStatuses
  <2>2. CASE waiting = {}
    <3>1. run = Append(old, status)
      BY <2>2
    <3>2. \A a \in 1..Len(old) : old[a] # "pending"
      BY <2>2, <1>4
    <3> HIDE DEF run, old, waiting
    <3> QED BY <1>3, <2>1, <3>1, <3>2, Appended
  <2>3. CASE waiting # {}
    <3>1. waiting = {Len(old)}
      BY <2>3, <1>4
    <3>2. (CHOOSE a \in waiting : \A b \in waiting : b <= a) = Len(old)
      <4>1. \E a \in waiting : \A b \in waiting : b <= a
        BY <3>1, <1>3
      <4>2. (CHOOSE a \in waiting : \A b \in waiting : b <= a) \in waiting
        <5> HIDE DEF waiting
        <5> QED BY <4>1
      <4> QED BY <4>2, <3>1
    <3>3. run = [old EXCEPT ![Len(old)] = status]
      <4> HIDE DEF waiting
      <4> QED BY <2>3, <3>2
    <3>4. old[Len(old)] = "pending"
      BY <3>1, <1>4
    <3>5. \A a \in 1..Len(old) : a # Len(old) => old[a] # "pending"
      BY <1>4
    <3> HIDE DEF run, old, waiting
    <3> QED BY <1>3, <2>1, <3>3, <3>4, <3>5, Replaced
  <2> QED BY <2>2, <2>3
<1>6. /\ Len(old) <= Len(run) /\ Len(run) \in Nat \ {0}
      /\ \A a \in (1..Len(run)) \ {Len(run)} : a \in 1..Len(old) /\ run[a] = old[a] /\ old[a] # "pending"
      /\ \A a \in 1..Len(old) : run[a] = old[a] \/ (old[a] = "pending" /\ run[a] = status)
  <2> HIDE DEF run, old
  <2> QED BY <1>5, <1>3
<1>7. runs \in [Stages(d) -> Seq(RunStatuses) \ {<<>>}]
  <2>1. st.runs \in [Stages(d) -> Seq(RunStatuses) \ {<<>>}]
    BY <1>1 DEF InstanceType
  <2> HIDE DEF run
  <2> QED BY <2>1, <1>5
<1>8. /\ new \in InstanceType(d) /\ new.runs = runs
      /\ new.status = st.status /\ new.current = st.current
  <2> HIDE DEF runs
  <2> QED BY <1>1, <1>7, Rerun
<1>9. new.runs[i] = run /\ \A j \in Stages(d) \ {i} : new.runs[j] = st.runs[j]
  <2>1. st.runs \in [Stages(d) -> Seq(RunStatuses) \ {<<>>}]
    BY <1>1 DEF InstanceType
  <2> HIDE DEF run, new
  <2> QED BY <1>8, <2>1
<1> HIDE DEF new, runs, run, waiting
<1>10. DOMAIN new.runs = Stages(d)
  BY <1>8, Runs
<1>11. PendingLast(new)
  <2> SUFFICES ASSUME NEW j \in Stages(d), NEW a \in DOMAIN new.runs[j], new.runs[j][a] = "pending"
               PROVE  a = Len(new.runs[j])
    BY <1>10 DEF PendingLast
  <2>1. CASE j = i
    BY <2>1, <1>9, <1>5, <1>6
  <2>2. CASE j # i
    BY <2>2, <1>9, <1>1, <1>3 DEF PendingLast
  <2> QED BY <2>1, <2>2
<1>12. Unskipped(new)
  <2> SUFFICES ASSUME st.status = "running", NEW j \in Stages(d), NEW a \in DOMAIN new.runs[j]
               PROVE  new.runs[j][a] # "skipped"
    BY <1>8, <1>10 DEF Unskipped
  <2>1. CASE j = i
    <3>1. CASE a = Len(run)
      BY <3>1, <2>1, <1>9, <1>5
    <3>2. CASE a # Len(run)
      <4>1. a \in DOMAIN old /\ new.runs[j][a] = old[a]
        BY <3>2, <2>1, <1>3, <1>9, <1>5, <1>6
      <4> QED BY <4>1, <1>1, <1>3 DEF Unskipped
    <3> QED BY <3>1, <3>2
  <2>2. CASE j # i
    BY <2>2, <1>9, <1>1, <1>3 DEF Unskipped
  <2> QED BY <2>1, <2>2
<1>13. Latest(new.runs, i) = status
  BY <1>8, <1>9, <1>5, Runs
<1>14. Grows(st, new) /\ Stands(st, new)
  <2>1. ASSUME NEW j \in Stages(d)
        PROVE  /\ Len(st.runs[j]) <= Len(new.runs[j])
               /\ \A a \in DOMAIN st.runs[j] : new.runs[j][a] = st.runs[j][a]
                                               \/ (st.runs[j][a] = "pending" /\ new.runs[j][a] = status)
    <3>1. CASE j = i
      BY <3>1, <1>3, <1>5, <1>6, <1>9
    <3>2. CASE j # i
      <4>1. new.runs[j] = st.runs[j] /\ Len(st.runs[j]) \in Nat
        BY <3>2, <1>1, <1>9, Runs
      <4> QED BY <4>1
    <3> QED BY <3>1, <3>2
  <2> QED BY <2>1, <1>3, <1>8 DEF Grows, Stands
<1>15. new \in Instances(d)
  BY <1>8, <1>11, <1>12 DEF Instances
<1>16. \A a \in 1..Len(new.runs[i]) : a # Len(new.runs[i]) =>
         a \in 1..Len(st.runs[i]) /\ new.runs[i][a] = st.runs[i][a] /\ st.runs[i][a] # "pending"
  BY <1>3, <1>5, <1>6, <1>9
<1> QED BY <1>2, <1>8, <1>9, <1>13, <1>14, <1>15, <1>16

\* The part of it on the latest attempts and those before.
IsOpened(d, old, i, status, new) ==
  /\ new \in Instances(d) /\ new.status = old.status /\ new.current = old.current
  /\ Latest(new.runs, i) = status
  /\ \A j \in Stages(d) : j # i => new.runs[j] = old.runs[j] /\ Latest(new.runs, j) = Latest(old.runs, j)
  /\ \A a \in 1..Len(new.runs[i]) :
       a # Len(new.runs[i]) => a \in 1..Len(old.runs[i]) /\ new.runs[i][a] = old.runs[i][a]

LEMMA OpenedLatest ==
    ASSUME NEW d \in Definitions, NEW st \in Instances(d), NEW i \in Stages(d), NEW status \in {"active", "done"}
    PROVE  IsOpened(d, st, i, status, Opened(st, i, status))
<1> DEFINE new == Opened(st, i, status)
<1>1. \A j \in Stages(d) \ {i} : new.runs[j] = st.runs[j]
  BY OpenedFacts
<1>2. Latest(new.runs, i) = status
  BY OpenedFacts
<1>3. new \in Instances(d) /\ new.status = st.status /\ new.current = st.current
  BY OpenedFacts
<1>4. \A a \in 1..Len(new.runs[i]) :
        a # Len(new.runs[i]) => a \in 1..Len(st.runs[i]) /\ new.runs[i][a] = st.runs[i][a]
  BY OpenedFacts
<1> HIDE DEF new
<1>5. \A j \in Stages(d) : j # i => Latest(new.runs, j) = Latest(st.runs, j)
  BY <1>1 DEF Latest, Last
<1>6. IsOpened(d, st, i, status, new)
  BY <1>1, <1>2, <1>3, <1>4, <1>5 DEF IsOpened
<1> QED BY <1>6 DEF new

LEMMA CompleteFacts ==
    ASSUME NEW d \in Definitions, NEW st \in InstanceType(d), NEW out \in {"completed", "rejected", "none"}
    PROVE  LET new == Complete(st, out)
           IN /\ new \in Instances(d) /\ new.status = "completed" /\ new.current = {}
              /\ Quiet(new) /\ Grows(st, new) /\ Stands(st, new)
              /\ new.runs \in [Stages(d) -> Seq(RunStatuses) \ {<<>>}]
<1> DEFINE At(i, a) == IF st.runs[i][a] \in {"pending", "active"} THEN "skipped" ELSE st.runs[i][a]
           Run(i) == [a \in DOMAIN st.runs[i] |-> At(i, a)]
           new == Complete(st, out)
<1>1. new = [status |-> "completed", outcome |-> out, current |-> {}, runs |-> [i \in DOMAIN st.runs |-> Run(i)]]
  BY DEF Complete
<1>2. DOMAIN st.runs = Stages(d)
  BY Runs
<1>3. ASSUME NEW i \in Stages(d)
      PROVE  /\ Run(i) \in Seq(RunStatuses) /\ Run(i) # <<>> /\ Len(Run(i)) = Len(st.runs[i])
             /\ DOMAIN Run(i) = DOMAIN st.runs[i]
             /\ \A a \in DOMAIN st.runs[i] : Run(i)[a] = At(i, a) /\ At(i, a) \in RunStatuses
  <2>1. st.runs[i] \in Seq(RunStatuses) /\ Len(st.runs[i]) \in Nat \ {0}
    BY Runs
  <2>2. DOMAIN st.runs[i] = 1..Len(st.runs[i])
    BY <2>1
  <2>3. \A a \in 1..Len(st.runs[i]) : At(i, a) \in RunStatuses
    <3>1. \A a \in 1..Len(st.runs[i]) : st.runs[i][a] \in RunStatuses
      BY <2>1
    <3> QED BY <3>1 DEF RunStatuses
  <2>4. Run(i) = [a \in 1..Len(st.runs[i]) |-> At(i, a)]
    BY <2>2
  <2> HIDE DEF At
  <2>5. Run(i) \in Seq(RunStatuses) /\ Len(Run(i)) = Len(st.runs[i])
    BY <2>1, <2>3, <2>4
  <2>6. Run(i) # <<>>
    BY <2>1, <2>5
  <2> QED BY <2>2, <2>3, <2>5, <2>6
<1> HIDE DEF Run
<1>4. [i \in DOMAIN st.runs |-> Run(i)] \in [Stages(d) -> Seq(RunStatuses) \ {<<>>}]
  BY <1>2, <1>3
<1>5. /\ new.status = "completed" /\ new.current = {} /\ new.runs = [i \in DOMAIN st.runs |-> Run(i)]
      /\ new \in InstanceType(d)
  BY <1>1, <1>4 DEF InstanceType
<1> HIDE DEF new
<1>6. DOMAIN new.runs = Stages(d) /\ \A i \in Stages(d) : new.runs[i] = Run(i)
  BY <1>2, <1>5
<1>7. Quiet(new)
  <2> SUFFICES ASSUME NEW i \in Stages(d), NEW a \in DOMAIN Run(i) PROVE Run(i)[a] \notin {"pending", "active"}
    BY <1>6 DEF Quiet
  <2> QED BY <1>3
<1>8. Grows(st, new) /\ Stands(st, new)
  <2>1. \A i \in Stages(d) : /\ Len(st.runs[i]) \in Nat /\ Len(new.runs[i]) = Len(st.runs[i])
                             /\ \A a \in DOMAIN st.runs[i] : new.runs[i][a] = At(i, a)
    BY <1>3, <1>6, Runs
  <2> QED BY <1>2, <1>5, <2>1 DEF Grows, Stands
<1>9. new \in Instances(d)
  BY <1>5, <1>7 DEF Instances, PendingLast, Unskipped, Quiet
<1> QED BY <1>4, <1>5, <1>7, <1>8, <1>9 DEF new

\* A run is concluded.
LEMMA ConcludedFacts ==
    ASSUME NEW d \in Definitions, NEW st \in Instances(d), NEW s, s.stage \in Stages(d),
           s.attempt \in DOMAIN st.runs[s.stage], st.runs[s.stage][s.attempt] # "pending"
    PROVE  LET new == Concluded(st, s)
               i == s.stage
               a == s.attempt
           IN /\ new \in Instances(d)
              /\ new.status = st.status /\ new.current = st.current
              /\ \A j \in Stages(d) \ {i} : new.runs[j] = st.runs[j]
              /\ new.runs[i][a] = Outcome(s.op) /\ Len(new.runs[i]) = Len(st.runs[i])
              /\ \A b \in 1..Len(st.runs[i]) : b # a => new.runs[i][b] = st.runs[i][b]
              /\ Grows(st, new)
              /\ st.runs[i][a] = "active" => Stands(st, new)
<1> DEFINE i == s.stage
           a == s.attempt
           v == Outcome(s.op)
<1>0. v \in {"done", "rejected"} /\ i \in Stages(d) /\ a \in DOMAIN st.runs[i] /\ st.runs[i][a] # "pending"
  BY DEF Outcome
<1>00. Concluded(st, s) = [st EXCEPT !.runs[i][a] = v]
  BY DEF Concluded
<1> HIDE DEF i, a, v
<1> DEFINE old == st.runs[i]
           run == [old EXCEPT ![a] = v]
           runs == [st.runs EXCEPT ![i] = run]
           new == [st EXCEPT !.runs = runs]
<1>1. st \in InstanceType(d) /\ PendingLast(st) /\ Unskipped(st)
  BY DEF Instances
<1>2. [st EXCEPT !.runs[i][a] = v] = new
  OBVIOUS
<1>3. DOMAIN st.runs = Stages(d) /\ old \in Seq(RunStatuses) /\ Len(old) \in Nat \ {0} /\ a \in 1..Len(old)
  BY <1>0, <1>1, Runs
<1>4. v \in RunStatuses
  BY <1>0 DEF RunStatuses
<1>5. /\ run \in Seq(RunStatuses) /\ Len(run) = Len(old) /\ run # <<>> /\ run[a] = v
      /\ \A b \in 1..Len(old) : b # a => run[b] = old[b]
  <2> HIDE DEF old
  <2> QED BY <1>3, <1>4
<1>6. runs \in [Stages(d) -> Seq(RunStatuses) \ {<<>>}]
  <2>1. st.runs \in [Stages(d) -> Seq(RunStatuses) \ {<<>>}]
    BY <1>1 DEF InstanceType
  <2> HIDE DEF run
  <2> QED BY <2>1, <1>5
<1>7. new \in InstanceType(d) /\ new.runs = runs /\ new.status = st.status /\ new.current = st.current
  <2> HIDE DEF runs
  <2> QED BY <1>1, <1>6, Rerun
<1>8. new.runs[i] = run /\ \A j \in Stages(d) \ {i} : new.runs[j] = st.runs[j]
  <2>1. st.runs \in [Stages(d) -> Seq(RunStatuses) \ {<<>>}]
    BY <1>1 DEF InstanceType
  <2> HIDE DEF run, new
  <2> QED BY <1>0, <1>7, <2>1
<1> HIDE DEF new, runs, run
<1>9. /\ DOMAIN new.runs = Stages(d)
      /\ \A j \in Stages(d) : Len(new.runs[j]) = Len(st.runs[j]) /\ DOMAIN new.runs[j] = DOMAIN st.runs[j]
  <2>1. DOMAIN run = DOMAIN old
    BY <1>3, <1>5
  <2> QED BY <1>5, <1>7, <1>8, <2>1, Runs
<1>10. \A j \in Stages(d) : \A b \in DOMAIN st.runs[j] :
         new.runs[j][b] = st.runs[j][b] \/ (j = i /\ b = a /\ new.runs[j][b] = v)
  BY <1>0, <1>3, <1>5, <1>8
<1>11. new \in Instances(d)
  <2>1. v # "pending" /\ v # "skipped"
    BY <1>0
  <2> QED BY <1>1, <1>3, <1>7, <1>9, <1>10, <2>1 DEF Instances, PendingLast, Unskipped
<1>12. Grows(st, new) /\ (st.runs[i][a] = "active" => Stands(st, new))
  <2>1. \A j \in Stages(d) : Len(st.runs[j]) \in Nat
    BY <1>1, Runs
  <2> QED BY <1>3, <1>7, <1>9, <1>10, <1>0, <2>1 DEF Grows, Stands
<1>13. \A b \in 1..Len(st.runs[i]) : b # a => new.runs[i][b] = st.runs[i][b]
  BY <1>3, <1>5, <1>8
<1> QED BY <1>00, <1>0, <1>2, <1>5, <1>7, <1>8, <1>11, <1>12, <1>13 DEF i, a, v

LEMMA SupersededFacts ==
    ASSUME NEW old \in Seq(RunStatuses), Len(old) \in Nat \ {0}, NEW keep
    PROVE  LET new == Superseded(old, keep)
           IN /\ new \in Seq(RunStatuses) /\ new # <<>> /\ Len(new) = Len(old)
              /\ new[Len(old)] = (IF old[Len(old)] \in keep THEN old[Len(old)] ELSE "superseded")
              /\ \A a \in 1..Len(old) : a # Len(old) => new[a] = old[a]
<1> DEFINE v == IF old[Len(old)] \in keep THEN old[Len(old)] ELSE "superseded"
           new == [old EXCEPT ![Len(old)] = v]
<1>1. old[Len(old)] \in RunStatuses
  OBVIOUS
<1>2. v \in RunStatuses
  BY <1>1 DEF RunStatuses
<1>3. Superseded(old, keep) = new
  BY DEF Superseded
<1> HIDE DEF v
<1>4. /\ new \in Seq(RunStatuses) /\ new # <<>> /\ Len(new) = Len(old) /\ new[Len(new)] = v
      /\ \A a \in 1..Len(old) : a # Len(old) => new[a] = old[a]
  BY <1>2, Replaced
<1> HIDE DEF new
<1> QED BY <1>3, <1>4 DEF v

\* An approval sends back.
Reopened(d, i) == GroupOf(d, d[i].rejectTo)
Between(d, i) == (d[i].rejectTo..i) \ Reopened(d, i)
Replanned(d, st, i) == [st EXCEPT !.runs = Planned(d, @, i)]

LEMMA PlannedFacts ==
    ASSUME NEW d \in Definitions, NEW st \in Instances(d), NEW i \in Stages(d), d[i].rejectTo # None
    PROVE  LET new == Replanned(d, st, i)
               reopen == Reopened(d, i)
               between == Between(d, i)
           IN /\ new \in Instances(d)
              /\ new.status = st.status /\ new.current = st.current
              /\ \A j \in Stages(d) \ (reopen \cup between) : new.runs[j] = st.runs[j]
              /\ \A j \in between : Latest(new.runs, j) = "pending"
              /\ \A j \in reopen : Latest(new.runs, j) \notin {"done", "active"}
              /\ \A j \in Stages(d) : \A a \in DOMAIN new.runs[j] :
                   new.runs[j][a] = "active" => a \in DOMAIN st.runs[j] /\ st.runs[j][a] = "active"
              /\ Grows(st, new) /\ Stands(st, new)
<1> DEFINE reopen == Reopened(d, i)
           between == Between(d, i)
           runs == Planned(d, st.runs, i)
           new == Replanned(d, st, i)
           Before(j) == st.runs[j]
           Closed(j) == Superseded(st.runs[j], {"rejected"})
           Again(j) == Superseded(st.runs[j], RunStatuses \ {"done", "active"})
<1>1. st \in InstanceType(d) /\ PendingLast(st) /\ Unskipped(st)
  BY DEF Instances
<1>2. /\ DOMAIN st.runs = Stages(d)
      /\ \A j \in Stages(d) : Before(j) \in Seq(RunStatuses) /\ Len(Before(j)) \in Nat \ {0}
  BY <1>1, Runs
<1>3. ASSUME NEW j \in Stages(d), j \in between
      PROVE  /\ runs[j] \in Seq(RunStatuses) /\ runs[j] # <<>> /\ Len(runs[j]) = Len(Before(j)) + 1
             /\ runs[j][Len(runs[j])] = "pending"
             /\ \A a \in 1..Len(Before(j)) : \/ runs[j][a] = Before(j)[a] /\ a # Len(Before(j))
                                             \/ runs[j][a] = "superseded"
                                             \/ runs[j][a] = "rejected" /\ Before(j)[a] = "rejected"
  <2>1. runs[j] = Append(Closed(j), "pending")
    BY <1>3 DEF Planned, Between, Reopened
  <2>2. /\ Closed(j) \in Seq(RunStatuses) /\ Len(Closed(j)) = Len(Before(j))
        /\ Closed(j)[Len(Before(j))] = (IF Before(j)[Len(Before(j))] \in {"rejected"}
                                        THEN Before(j)[Len(Before(j))] ELSE "superseded")
        /\ \A a \in 1..Len(Before(j)) : a # Len(Before(j)) => Closed(j)[a] = Before(j)[a]
    <3> HIDE DEF Before
    <3> QED BY <1>2, SupersededFacts DEF Before
  <2>3. "pending" \in RunStatuses
    BY DEF RunStatuses
  <2>4. Len(Closed(j)) \in Nat \ {0}
    BY <1>2, <2>2
  <2> HIDE DEF runs, Closed, Before
  <2>5. /\ runs[j] \in Seq(RunStatuses) /\ runs[j] # <<>> /\ Len(runs[j]) = Len(Closed(j)) + 1
        /\ runs[j][Len(runs[j])] = "pending" /\ \A a \in 1..Len(Closed(j)) : runs[j][a] = Closed(j)[a]
    BY <2>1, <2>2, <2>3, <2>4, Appended
  <2> QED BY <2>2, <2>5
<1>4. ASSUME NEW j \in Stages(d), j \in reopen
      PROVE  /\ runs[j] \in Seq(RunStatuses) /\ runs[j] # <<>> /\ Len(runs[j]) = Len(Before(j))
             /\ runs[j][Len(runs[j])] \notin {"done", "active"}
             /\ \A a \in 1..Len(Before(j)) : \/ runs[j][a] = Before(j)[a]
                                             \/ runs[j][a] = "superseded" /\ Before(j)[a] # "pending"
  <2>1. runs[j] = Again(j)
    BY <1>4 DEF Planned, Between, Reopened
  <2>2. /\ Again(j) \in Seq(RunStatuses) /\ Len(Again(j)) = Len(Before(j)) /\ Again(j) # <<>>
        /\ Again(j)[Len(Before(j))] = (IF Before(j)[Len(Before(j))] \in RunStatuses \ {"done", "active"}
                                       THEN Before(j)[Len(Before(j))] ELSE "superseded")
        /\ \A a \in 1..Len(Before(j)) : a # Len(Before(j)) => Again(j)[a] = Before(j)[a]
    <3> HIDE DEF Before
    <3> QED BY <1>2, SupersededFacts DEF Before
  <2>3. Before(j)[Len(Before(j))] \in RunStatuses
    BY <1>2
  <2> HIDE DEF runs, Again, Before
  <2> QED BY <2>1, <2>2, <2>3 DEF RunStatuses
<1>5. ASSUME NEW j \in Stages(d) \ (reopen \cup between) PROVE runs[j] = Before(j)
  BY DEF Planned, Between, Reopened
<1>6. runs \in [Stages(d) -> Seq(RunStatuses) \ {<<>>}]
  <2>1. \A j \in Stages(d) : runs[j] \in Seq(RunStatuses) \ {<<>>}
    <3> HIDE DEF runs, between, reopen
    <3>1. \A j \in Stages(d) : Before(j) # <<>>
      BY <1>2
    <3> QED BY <1>2, <1>3, <1>4, <1>5, <3>1
  <2>2. runs = [j \in Stages(d) |-> runs[j]]
    BY DEF Planned
  <2> HIDE DEF runs
  <2> QED BY <2>1, <2>2
<1>7. new \in InstanceType(d) /\ new.runs = runs /\ new.status = st.status /\ new.current = st.current
  <2> DEFINE moved == [st EXCEPT !.runs = runs]
  <2>1. new = moved
    BY DEF Replanned
  <2>2. moved \in InstanceType(d) /\ moved.runs = runs /\ moved.status = st.status /\ moved.current = st.current
    <3> HIDE DEF runs
    <3> QED BY <1>1, <1>6, Rerun
  <2> HIDE DEF moved, new, runs
  <2> QED BY <2>1, <2>2
<1> HIDE DEF new, runs, between, reopen
<1>8. ASSUME NEW j \in Stages(d), NEW a \in DOMAIN new.runs[j], new.runs[j][a] = "pending"
      PROVE  a = Len(new.runs[j])
  <2>1. CASE j \in between
    <3>1. a = Len(runs[j]) \/ a \in 1..Len(Before(j))
      BY <2>1, <1>2, <1>3, <1>7
    <3>2. CASE a = Len(runs[j])
      BY <3>2, <2>1, <1>3, <1>7, <1>8
    <3>3. CASE a \in 1..Len(Before(j))
      <4>1. \/ runs[j][a] = Before(j)[a] /\ a # Len(Before(j))
            \/ runs[j][a] = "superseded"
            \/ runs[j][a] = "rejected"
        BY <3>3, <2>1, <1>3
      <4> QED BY <3>3, <4>1, <1>1, <1>2, <1>7, <1>8 DEF PendingLast
    <3> QED BY <3>1, <3>2, <3>3
  <2>2. CASE j \in reopen
    BY <2>2, <1>2, <1>4, <1>7, <1>8, <1>1 DEF PendingLast
  <2>3. CASE j \notin between /\ j \notin reopen
    BY <2>3, <1>2, <1>5, <1>7, <1>8, <1>1 DEF PendingLast
  <2> QED BY <2>1, <2>2, <2>3
<1>9. ASSUME st.status = "running", NEW j \in Stages(d), NEW a \in DOMAIN new.runs[j]
      PROVE  new.runs[j][a] # "skipped"
  <2>1. CASE j \in between
    <3>1. a = Len(runs[j]) \/ a \in 1..Len(Before(j))
      BY <2>1, <1>2, <1>3, <1>7
    <3>2. CASE a = Len(runs[j])
      BY <3>2, <2>1, <1>3, <1>7, <1>9
    <3>3. CASE a \in 1..Len(Before(j))
      <4>1. \/ runs[j][a] = Before(j)[a] /\ a # Len(Before(j))
            \/ runs[j][a] = "superseded"
            \/ runs[j][a] = "rejected"
        BY <3>3, <2>1, <1>3
      <4> QED BY <3>3, <4>1, <1>1, <1>2, <1>7, <1>9 DEF Unskipped
    <3> QED BY <3>1, <3>2, <3>3
  <2>2. CASE j \in reopen
    BY <2>2, <1>2, <1>4, <1>7, <1>9, <1>1 DEF Unskipped
  <2>3. CASE j \notin between /\ j \notin reopen
    BY <2>3, <1>2, <1>5, <1>7, <1>9, <1>1 DEF Unskipped
  <2> QED BY <2>1, <2>2, <2>3
<1>10. DOMAIN new.runs = Stages(d)
  BY <1>7, Runs
<1>11. new \in Instances(d)
  BY <1>7, <1>8, <1>9, <1>10 DEF Instances, PendingLast, Unskipped
<1>12. ASSUME NEW j \in Stages(d), NEW a \in DOMAIN new.runs[j], new.runs[j][a] = "active"
       PROVE  a \in DOMAIN st.runs[j] /\ st.runs[j][a] = "active"
  <2>1. CASE j \in between
    BY <2>1, <1>2, <1>3, <1>7, <1>12
  <2>2. CASE j \in reopen
    BY <2>2, <1>2, <1>4, <1>7, <1>12
  <2>3. CASE j \notin between /\ j \notin reopen
    BY <2>3, <1>2, <1>5, <1>7, <1>12
  <2> QED BY <2>1, <2>2, <2>3
<1>13. ASSUME NEW j \in Stages(d)
       PROVE  /\ Len(st.runs[j]) <= Len(new.runs[j])
              /\ \A a \in DOMAIN st.runs[j] :
                   /\ st.runs[j][a] # "pending" => new.runs[j][a] # "pending"
                   /\ st.runs[j][a] \notin {"pending", "active"} => new.runs[j][a] \in {st.runs[j][a], "superseded"}
  <2>1. CASE j \in between
    BY <2>1, <1>2, <1>3, <1>7
  <2>2. CASE j \in reopen
    BY <2>2, <1>2, <1>4, <1>7
  <2>3. CASE j \notin between /\ j \notin reopen
    BY <2>3, <1>2, <1>5, <1>7
  <2> QED BY <2>1, <2>2, <2>3
<1>14. Grows(st, new) /\ Stands(st, new)
  BY <1>2, <1>7, <1>13 DEF Grows, Stands
<1>15. /\ \A j \in Stages(d) \cap between : Latest(new.runs, j) = "pending"
       /\ \A j \in Stages(d) \cap reopen : Latest(new.runs, j) \notin {"done", "active"}
  BY <1>3, <1>4, <1>7, Runs
<1>16. between \subseteq Stages(d) /\ reopen \subseteq Stages(d)
  BY Definition, Group DEF between, reopen, Between, Reopened
<1> QED BY <1>5, <1>7, <1>11, <1>12, <1>14, <1>15, <1>16 DEF new, runs, between, reopen

LEMMA CurrentFacts ==
    ASSUME NEW d \in Definitions, NEW st \in Instances(d), NEW current \in SUBSET Stages(d)
    PROVE  LET new == [st EXCEPT !.current = current]
           IN /\ new \in Instances(d) /\ new.status = st.status /\ new.runs = st.runs /\ new.current = current
              /\ Grows(st, new) /\ Stands(st, new)
<1> DEFINE new == [st EXCEPT !.current = current]
<1>1. st \in InstanceType(d)
  BY DEF Instances
<1>2. /\ new \in InstanceType(d) /\ new.status = st.status /\ new.runs = st.runs /\ new.current = current
  BY <1>1 DEF InstanceType
<1> HIDE DEF new
<1>3. new \in Instances(d)
  BY <1>2 DEF Instances, PendingLast, Unskipped
<1>4. \A i \in DOMAIN st.runs : Len(st.runs[i]) \in Nat
  BY <1>1, Runs
<1> QED BY <1>2, <1>3, <1>4 DEF Grows, Stands, new

-------------------------------------------------------------------------------
(* What comes after a stage *)

\* The stages of a group are all done, or skipped.
Over(d, st, i) == \A j \in GroupOf(d, i) : ~Undone(st, j)

LEMMA ExitFacts ==
    ASSUME NEW d \in Definitions, NEW i \in Stages(d)
    PROVE  /\ \A exit \in Matching(d[i]) : exit \in d[i].exits \cup {NoExit} /\ (exit = End \/ exit = NoExit \/ exit \in Stages(d))
           /\ d[i].type # "form" => (CHOOSE e \in Matching(d[i]) : TRUE) \in Matching(d[i])
           /\ End \notin Stages(d) /\ NoExit \notin Stages(d) /\ End # NoExit /\ NoExit \notin d[i].exits
<1>1. End \notin Stages(d) /\ NoExit \notin Stages(d) /\ End # NoExit
  BY Definition DEF End, NoExit
<1>2. d[i].exits \subseteq Stages(d) \cup {End}
  BY Definition
<1>3. \A exit \in Matching(d[i]) : exit \in d[i].exits \cup {NoExit}
  BY DEF Matching
<1>4. d[i].type # "form" => (CHOOSE e \in Matching(d[i]) : TRUE) \in Matching(d[i])
  BY DEF Matching
<1> QED BY <1>1, <1>2, <1>3, <1>4

LEMMA NextGroup ==
    ASSUME NEW d \in Definitions, NEW i \in Stages(d), NEW h \in Stages(d),
           h = 1 + CHOOSE j \in GroupOf(d, i) : \A k \in GroupOf(d, i) : k <= j
    PROVE  Beyond(d, i, h)
<1> DEFINE last == CHOOSE j \in GroupOf(d, i) : \A k \in GroupOf(d, i) : k <= j
<1>1. PICK a, b \in Stages(d) : a <= b /\ GroupOf(d, i) = a..b
  BY Span
<1>2. PICK p, q \in Stages(d) : p <= q /\ GroupOf(d, h) = p..q
  BY Span
<1>3. Stages(d) \subseteq Nat
  BY Definition
<1>4. last \in GroupOf(d, i) /\ \A k \in GroupOf(d, i) : k <= last
  <2>1. \E j \in GroupOf(d, i) : \A k \in GroupOf(d, i) : k <= j
    BY <1>1, <1>3
  <2> QED BY <2>1
<1> HIDE DEF last
<1>5. h = 1 + last
  BY DEF last
<1>6. h \notin GroupOf(d, i)
  BY <1>1, <1>3, <1>4, <1>5
<1>7. ASSUME NEW j \in GroupOf(d, i), NEW k \in GroupOf(d, h), k <= j PROVE FALSE
  <2>1. h \in GroupOf(d, h)
    BY Group
  <2>2. j <= h /\ j \in Nat /\ k \in Nat /\ j \in Stages(d)
    BY <1>1, <1>2, <1>3, <1>4, <1>5, <1>7, Group
  <2>3. j \in GroupOf(d, h)
    BY <1>2, <1>3, <1>7, <2>1, <2>2
  <2>4. GroupOf(d, h) = GroupOf(d, i)
    BY <2>2, <2>3, Group
  <2> QED BY <1>6, <2>1, <2>4
<1>8. \A j \in GroupOf(d, i) : \A k \in GroupOf(d, h) : j \in Nat /\ k \in Nat
  BY <1>3, Group
<1> QED BY <1>7, <1>8 DEF Beyond

LEMMA AdvanceCases ==
    ASSUME NEW d \in Definitions, NEW st, NEW seen, NEW i \in Stages(d), NEW exit \in Matching(d[i])
    PROVE  LET x == Advance(d, st, seen, i, exit)
           IN \/ seen.status # "running" /\ x = Still(st)
              \/ /\ seen.status = "running" /\ exit = NoExit /\ \E j \in GroupOf(d, i) : Undone(seen, j)
                 /\ x = Still([st EXCEPT !.current = seen.current \ {i}])
              \/ /\ seen.status = "running" /\ (exit = End \/ (exit = NoExit /\ Over(d, seen, i)))
                 /\ x = Still(Complete(st, "completed"))
              \/ /\ seen.status = "running"
                 /\ \E h \in Stages(d) :
                      /\ x = Activating(d, st, h)
                      /\ \/ exit # NoExit /\ h \in d[i].exits
                         \/ exit = NoExit /\ Over(d, seen, i) /\ Beyond(d, i, h)
<1> DEFINE next == AfterStageDone(d, seen.runs, i, exit)
           h == 1 + CHOOSE j \in GroupOf(d, i) : \A k \in GroupOf(d, i) : k <= j
           done == \A j \in GroupOf(d, i) : Latest(seen.runs, j) \in {"done", "skipped"}
<1>1. Over(d, seen, i) <=> done
  BY DEF Over, Undone
<1>2. ~done => \E j \in GroupOf(d, i) : Undone(seen, j)
  BY DEF Undone
<1>3. \/ exit = NoExit /\ ~done /\ next = Wait
      \/ (exit = End \/ (exit = NoExit /\ done)) /\ next = Ended
      \/ exit # NoExit /\ exit # End /\ next = Onto(exit)
      \/ exit = NoExit /\ done /\ h \in Stages(d) /\ next = Onto(h)
  <2> HIDE DEF h
  <2> QED BY ExitFacts DEF AfterStageDone, h
<1>4. exit # NoExit /\ exit # End => exit \in Stages(d) /\ exit \in d[i].exits
  BY ExitFacts
<1>5. h \in Stages(d) => Beyond(d, i, h)
  BY NextGroup
<1>6. /\ Wait.kind = "wait" /\ Ended.kind = "end"
      /\ \A j : Onto(j).kind = "activate" /\ Onto(j).stage = j
  BY DEF Wait, Ended, Onto
<1>7. CASE seen.status # "running"
  BY <1>7 DEF Advance
<1>8. CASE seen.status = "running"
  <2>1. CASE next = Wait /\ exit = NoExit /\ ~done
    <3>1. Advance(d, st, seen, i, exit) = Still([st EXCEPT !.current = seen.current \ {i}])
      BY <1>8, <2>1, <1>6 DEF Advance
    <3> QED BY <1>8, <2>1, <3>1, <1>2
  <2>2. CASE next = Ended /\ (exit = End \/ (exit = NoExit /\ done))
    <3>1. Advance(d, st, seen, i, exit) = Still(Complete(st, "completed"))
      BY <1>8, <2>2, <1>6 DEF Advance
    <3> QED BY <1>8, <2>2, <3>1, <1>1
  <2>3. ASSUME NEW g \in Stages(d), next = Onto(g)
        PROVE  Advance(d, st, seen, i, exit) = Activating(d, st, g)
    BY <1>8, <2>3, <1>6 DEF Advance
  <2>4. CASE next = Onto(exit) /\ exit # NoExit /\ exit # End
    BY <1>8, <2>3, <2>4, <1>4
  <2>5. CASE next = Onto(h) /\ exit = NoExit /\ done /\ h \in Stages(d)
    <3> HIDE DEF h
    <3> QED BY <1>8, <2>3, <2>5, <1>1, <1>5
  <2> QED BY <1>3, <2>1, <2>2, <2>4, <2>5
<1> QED BY <1>7, <1>8

Waiting(st, seen, i) == [st EXCEPT !.current = seen.current \ {i}]

LEMMA AdvanceForms ==
    ASSUME NEW d \in Definitions, NEW st, NEW seen, NEW i \in Stages(d), NEW exit \in Matching(d[i]),
           NEW x, x = Advance(d, st, seen, i, exit)
    PROVE  \/ seen.status # "running" /\ x = Still(st)
           \/ seen.status = "running" /\ (\E j \in GroupOf(d, i) : Undone(seen, j)) /\ x = Still(Waiting(st, seen, i))
           \/ x = Still(Complete(st, "completed"))
           \/ \E h \in Stages(d) : x = Activating(d, st, h)
BY AdvanceCases DEF Waiting

LEMMA AdvancePlaces ==
    ASSUME NEW d \in Definitions, NEW st, st.status = "running", NEW i \in Stages(d), NEW exit \in Matching(d[i]),
           NEW x, x = Advance(d, st, st, i, exit)
    PROVE  \/ (\E j \in GroupOf(d, i) : Undone(st, j)) /\ x = Still(Waiting(st, st, i))
           \/ (exit # NoExit \/ Over(d, st, i)) /\ x = Still(Complete(st, "completed"))
           \/ \E h \in Stages(d) : /\ x = Activating(d, st, h)
                                   /\ exit # NoExit \/ Over(d, st, i)
                                   /\ h \in d[i].exits \/ Beyond(d, i, h)
<1>1. NoExit \notin d[i].exits /\ End # NoExit
  BY ExitFacts
<1>2. exit # NoExit \/ exit = NoExit
  OBVIOUS
<1> DEFINE wait == Still(Waiting(st, st, i))
           end == Still(Complete(st, "completed"))
<1>3. \/ exit = NoExit /\ (\E j \in GroupOf(d, i) : Undone(st, j)) /\ x = wait
      \/ (exit = End \/ (exit = NoExit /\ Over(d, st, i))) /\ x = end
      \/ \E h \in Stages(d) : /\ x = Activating(d, st, h)
                              /\ \/ exit # NoExit /\ h \in d[i].exits
                                 \/ exit = NoExit /\ Over(d, st, i) /\ Beyond(d, i, h)
  BY AdvanceCases DEF Waiting
<1> HIDE DEF wait, end
<1> QED BY <1>1, <1>3 DEF wait, end

-------------------------------------------------------------------------------
(* A turn *)

LEMMA LeftFacts ==
    ASSUME NEW S, NEW todo \in Seq(S)
    PROVE  /\ todo # <<>> => /\ Head(todo) \in S /\ Tail(todo) \in Seq(S) /\ Len(Tail(todo)) = Len(todo) - 1
                             /\ Head(todo) = todo[1] /\ \A n \in 1..Len(Tail(todo)) : Tail(todo)[n] = todo[n + 1]
                             /\ Left(todo) = {Head(todo)} \cup Left(Tail(todo))
           /\ Left(todo) \subseteq S
           /\ todo = <<>> <=> Left(todo) = {}
<1>1. ASSUME todo # <<>>
      PROVE  /\ Head(todo) \in S /\ Tail(todo) \in Seq(S) /\ Len(Tail(todo)) = Len(todo) - 1
             /\ Head(todo) = todo[1] /\ \A n \in 1..Len(Tail(todo)) : Tail(todo)[n] = todo[n + 1]
             /\ Len(todo) \in Nat \ {0}
  BY <1>1
<1>2. ASSUME todo # <<>> PROVE Left(todo) = {Head(todo)} \cup Left(Tail(todo))
  <2>1. ASSUME NEW n \in 1..Len(todo) PROVE todo[n] \in {Head(todo)} \cup Left(Tail(todo))
    <3>1. CASE n = 1
      BY <3>1, <1>1, <1>2
    <3>2. CASE n # 1
      <4>1. n - 1 \in 1..Len(Tail(todo)) /\ Tail(todo)[n - 1] = todo[n]
        BY <3>2, <1>1, <1>2
      <4>2. n - 1 \in DOMAIN Tail(todo)
        BY <4>1, <1>1, <1>2
      <4> QED BY <4>1, <4>2 DEF Left
    <3> QED BY <3>1, <3>2
  <2>2. Head(todo) \in Left(todo)
    BY <1>1, <1>2 DEF Left
  <2>3. ASSUME NEW n \in 1..Len(Tail(todo)) PROVE Tail(todo)[n] \in Left(todo)
    <3>1. n + 1 \in DOMAIN todo /\ Tail(todo)[n] = todo[n + 1]
      BY <1>1, <1>2
    <3> QED BY <3>1 DEF Left
  <2>4. Left(Tail(todo)) \subseteq Left(todo)
    <3>1. DOMAIN Tail(todo) = 1..Len(Tail(todo))
      BY <1>1, <1>2
    <3> QED BY <2>3, <3>1 DEF Left
  <2>5. Left(todo) \subseteq {Head(todo)} \cup Left(Tail(todo))
    <3>1. DOMAIN todo = 1..Len(todo)
      OBVIOUS
    <3> QED BY <2>1, <3>1 DEF Left
  <2> QED BY <2>2, <2>4, <2>5
<1>3. Left(todo) \subseteq S
  BY DEF Left
<1>4. todo = <<>> => Left(todo) = {}
  BY DEF Left
<1> QED BY <1>1, <1>2, <1>3, <1>4

LEMMA LeftBoth ==
    ASSUME NEW S, NEW p \in Seq(S), NEW q \in Seq(S)
    PROVE  p \o q \in Seq(S) /\ Left(p \o q) = Left(p) \cup Left(q)
<1>1. p \o q \in Seq(S) /\ Len(p \o q) = Len(p) + Len(q) /\ Len(p) \in Nat /\ Len(q) \in Nat
  OBVIOUS
<1>2. \A n \in 1..(Len(p) + Len(q)) : (p \o q)[n] = IF n <= Len(p) THEN p[n] ELSE q[n - Len(p)]
  OBVIOUS
<1>3. ASSUME NEW n \in DOMAIN (p \o q) PROVE (p \o q)[n] \in Left(p) \cup Left(q)
  <2>1. n \in 1..(Len(p) + Len(q))
    BY <1>1
  <2>2. CASE n <= Len(p)
    <3>1. n \in DOMAIN p /\ (p \o q)[n] = p[n]
      BY <1>1, <1>2, <2>1, <2>2
    <3> QED BY <3>1 DEF Left
  <2>3. CASE ~ (n <= Len(p))
    <3>1. n - Len(p) \in DOMAIN q /\ (p \o q)[n] = q[n - Len(p)]
      BY <1>1, <1>2, <2>1, <2>3
    <3> QED BY <3>1 DEF Left
  <2> QED BY <2>2, <2>3
<1>4. ASSUME NEW n \in DOMAIN p PROVE p[n] \in Left(p \o q)
  <2>1. n \in 1..Len(p)
    OBVIOUS
  <2>2. n \in DOMAIN (p \o q) /\ (p \o q)[n] = p[n]
    BY <1>1, <1>2, <2>1
  <2> QED BY <2>2 DEF Left
<1>5. ASSUME NEW n \in DOMAIN q PROVE q[n] \in Left(p \o q)
  <2>1. n \in 1..Len(q)
    OBVIOUS
  <2>2. n + Len(p) \in DOMAIN (p \o q) /\ (p \o q)[n + Len(p)] = q[n]
    BY <1>1, <1>2, <2>1
  <2> QED BY <2>2 DEF Left
<1> QED BY <1>1, <1>3, <1>4, <1>5 DEF Left

\* A turn either opens a stage for somebody, or concludes an automatic one and advances.
LEMMA TurnCases ==
    ASSUME NEW d \in Definitions, NEW s \in Chains(d), s.todo # <<>>
    PROVE  LET i == Head(s.todo)
               rest == Tail(s.todo)
               done == Opened(s.inst, i, "done")
               x == Turn(d, s)
           IN \/ d[i].type # "auto" /\ x = [inst |-> Opened(s.inst, i, "active"), todo |-> rest]
              \/ /\ d[i].type = "auto"
                 /\ \E exit \in Matching(d[i]) :
                      LET after == Advance(d, done, done, i, exit)
                      IN x = [inst |-> after.inst, todo |-> after.todo \o rest]
<1> DEFINE i == Head(s.todo)
           done == Opened(s.inst, i, "done")
           exit == CHOOSE e \in Matching(d[i]) : TRUE
           after == Advance(d, done, done, i, exit)
<1>1. s.todo \in Seq(Stages(d))
  BY DEF Chains
<1>2. i \in Stages(d)
  BY <1>1, LeftFacts
<1>3. CASE d[i].type # "auto"
  <2>1. Turn(d, s) = [inst |-> Opened(s.inst, i, "active"), todo |-> Tail(s.todo)]
    BY <1>3 DEF Turn
  <2> QED BY <1>3, <2>1
<1>4. CASE d[i].type = "auto"
  <2>1. Turn(d, s) = [after EXCEPT !.todo = @ \o Tail(s.todo)]
    BY <1>4 DEF Turn
  <2>2. exit \in Matching(d[i])
    BY <1>2, <1>4, ExitFacts
  <2>3. after = [inst |-> after.inst, todo |-> after.todo]
    <3> HIDE DEF done, exit
    <3>1. \/ \E y : after = Still(y)
          \/ \E y : \E h \in Stages(d) : after = Activating(d, y, h)
      BY <1>2, <2>2, AdvanceCases
    <3>2. \A y : Still(y) = [inst |-> Still(y).inst, todo |-> Still(y).todo]
      BY DEF Still
    <3>3. \A y : \A h \in Stages(d) : Activating(d, y, h) = [inst |-> Activating(d, y, h).inst, todo |-> Activating(d, y, h).todo]
      BY DEF Activating
    <3> QED BY <3>1, <3>2, <3>3
  <2>4. Turn(d, s) = [inst |-> after.inst, todo |-> after.todo \o Tail(s.todo)]
    <3> HIDE DEF after
    <3> QED BY <2>1, <2>3
  <2> QED BY <1>4, <2>2, <2>4
<1> QED BY <1>3, <1>4

\* Keeping the attempts and what was concluded is a matter of each operation.
LEMMA Further ==
    ASSUME NEW d \in Definitions, NEW a \in InstanceType(d), NEW b \in InstanceType(d), NEW c \in InstanceType(d)
    PROVE  /\ Grows(a, b) /\ Grows(b, c) => Grows(a, c)
           /\ Grows(a, b) /\ Stands(a, b) /\ Stands(b, c) => Stands(a, c)
           /\ Grows(a, a) /\ Stands(a, a)
<1>1. /\ DOMAIN a.runs = Stages(d) /\ DOMAIN b.runs = Stages(d)
      /\ \A i \in Stages(d) : Len(a.runs[i]) \in Nat /\ Len(b.runs[i]) \in Nat /\ Len(c.runs[i]) \in Nat
  BY Runs
<1>2. \A i \in Stages(d) : DOMAIN a.runs[i] = 1..Len(a.runs[i]) /\ DOMAIN b.runs[i] = 1..Len(b.runs[i])
  BY Runs
<1>3. ASSUME Grows(a, b), NEW i \in Stages(d), NEW n \in DOMAIN a.runs[i] PROVE n \in DOMAIN b.runs[i]
  <2>1. Len(a.runs[i]) <= Len(b.runs[i])
    BY <1>1, <1>3 DEF Grows
  <2> QED BY <1>1, <1>2, <1>3, <2>1
<1>4. ASSUME Grows(a, b), Grows(b, c) PROVE Grows(a, c)
  BY <1>1, <1>3, <1>4 DEF Grows
<1>5. ASSUME Grows(a, b), Stands(a, b), Stands(b, c) PROVE Stands(a, c)
  <2> SUFFICES ASSUME NEW i \in Stages(d), NEW n \in DOMAIN a.runs[i], a.runs[i][n] \notin {"pending", "active"}
               PROVE  c.runs[i][n] \in {a.runs[i][n], "superseded"}
    BY <1>1 DEF Stands
  <2>1. b.runs[i][n] \in {a.runs[i][n], "superseded"}
    BY <1>1, <1>5 DEF Stands
  <2>2. n \in DOMAIN b.runs[i]
    BY <1>3, <1>5
  <2>3. c.runs[i][n] \in {b.runs[i][n], "superseded"}
    BY <1>1, <1>5, <2>1, <2>2 DEF Stands
  <2> QED BY <2>1, <2>3
<1> QED BY <1>1, <1>4, <1>5 DEF Grows, Stands

LEMMA ActivatingSound ==
    ASSUME NEW d \in Definitions, NEW st \in Instances(d), NEW i \in Stages(d)
    PROVE  LET x == Activating(d, st, i)
           IN /\ x \in Chains(d) /\ Grows(st, x.inst) /\ Stands(st, x.inst)
              /\ x.inst.status = st.status /\ x.inst.runs = st.runs /\ x.inst.current = GroupOf(d, i)
<1> DEFINE x == Activating(d, st, i)
           new == [st EXCEPT !.current = GroupOf(d, i)]
<1>1. x = [inst |-> new, todo |-> x.todo] /\ x.todo \in Seq(Stages(d))
  BY ActivatingFacts
<1>2. /\ new \in Instances(d) /\ Grows(st, new) /\ Stands(st, new)
      /\ new.status = st.status /\ new.runs = st.runs /\ new.current = GroupOf(d, i)
  BY Group, CurrentFacts
<1> HIDE DEF new, x
<1>3. x.inst = new /\ x \in Chains(d)
  BY <1>1, <1>2 DEF Chains
<1> QED BY <1>2, <1>3 DEF x

LEMMA StillFacts ==
    ASSUME NEW d \in Definitions, NEW st \in Instances(d)
    PROVE  Still(st) \in Chains(d) /\ Still(st).inst = st /\ Still(st).todo = <<>> /\ Left(Still(st).todo) = {}
<1>1. <<>> \in Seq(Stages(d)) /\ Left(<<>>) = {}
  BY DEF Left
<1> QED BY <1>1 DEF Still, Chains

LEMMA AdvanceSound ==
    ASSUME NEW d \in Definitions, NEW st \in Instances(d), NEW seen \in InstanceType(d), NEW i \in Stages(d),
           NEW exit \in Matching(d[i])
    PROVE  LET x == Advance(d, st, seen, i, exit)
           IN x \in Chains(d) /\ Grows(st, x.inst) /\ Stands(st, x.inst)
<1> DEFINE x == Advance(d, st, seen, i, exit)
           rest == seen.current \ {i}
<1>1. rest \subseteq Stages(d)
  BY DEF InstanceType
<1>2. st \in InstanceType(d)
  BY DEF Instances
<1>3. CASE x = Still(st)
  BY <1>2, <1>3, StillFacts, Further
<1>4. CASE x = Still([st EXCEPT !.current = rest])
  <2> DEFINE new == [st EXCEPT !.current = rest]
  <2>1. new \in Instances(d) /\ Grows(st, new) /\ Stands(st, new)
    <3> HIDE DEF rest
    <3> QED BY <1>1, CurrentFacts
  <2>2. x = Still(new)
    BY <1>4
  <2> HIDE DEF new, x
  <2>3. x \in Chains(d) /\ Grows(st, x.inst) /\ Stands(st, x.inst)
    BY <2>1, <2>2, StillFacts
  <2> QED BY <2>3 DEF x
<1>5. CASE x = Still(Complete(st, "completed"))
  BY <1>2, <1>5, StillFacts, CompleteFacts
<1>6. ASSUME NEW h \in Stages(d), x = Activating(d, st, h)
      PROVE  x \in Chains(d) /\ Grows(st, x.inst) /\ Stands(st, x.inst)
  BY <1>6, ActivatingSound
<1> HIDE DEF x
<1> QED BY <1>3, <1>4, <1>5, <1>6, AdvanceCases DEF x

LEMMA TurnSound ==
    ASSUME NEW d \in Definitions, NEW s \in Chains(d)
    PROVE  LET x == Turn(d, s)
           IN x \in Chains(d) /\ Grows(s.inst, x.inst) /\ Stands(s.inst, x.inst)
<1> DEFINE i == Head(s.todo)
           rest == Tail(s.todo)
           done == Opened(s.inst, i, "done")
           open == Opened(s.inst, i, "active")
           x == Turn(d, s)
<1>1. s.todo \in Seq(Stages(d)) /\ s.inst \in Instances(d) /\ s.inst \in InstanceType(d)
  BY DEF Chains, Instances
<1>2. CASE s.todo = <<>>
  <2>1. x = s
    BY <1>2 DEF Turn
  <2> QED BY <2>1, <1>1, Further
<1>3. CASE s.todo # <<>>
  <2>1. i \in Stages(d) /\ rest \in Seq(Stages(d))
    BY <1>1, <1>3, LeftFacts
  <2>2. CASE x = [inst |-> open, todo |-> rest]
    <3>1. open \in Instances(d) /\ Grows(s.inst, open) /\ Stands(s.inst, open)
      BY <1>1, <2>1, OpenedFacts
    <3> HIDE DEF open, rest
    <3> QED BY <2>1, <2>2, <3>1 DEF Chains
  <2>3. ASSUME NEW exit \in Matching(d[i]),
               x = [inst |-> Advance(d, done, done, i, exit).inst,
                    todo |-> Advance(d, done, done, i, exit).todo \o rest]
        PROVE  x \in Chains(d) /\ Grows(s.inst, x.inst) /\ Stands(s.inst, x.inst)
    <3> DEFINE after == Advance(d, done, done, i, exit)
    <3>1. done \in Instances(d) /\ Grows(s.inst, done) /\ Stands(s.inst, done)
      BY <1>1, <2>1, OpenedFacts
    <3> HIDE DEF done
    <3>2. done \in InstanceType(d)
      BY <3>1 DEF Instances
    <3>3. after \in Chains(d) /\ Grows(done, after.inst) /\ Stands(done, after.inst)
      BY <2>1, <2>3, <3>1, <3>2, AdvanceSound
    <3> HIDE DEF after, rest
    <3>4. after.inst \in Instances(d) /\ after.inst \in InstanceType(d) /\ after.todo \in Seq(Stages(d))
      BY <3>3 DEF Chains, Instances
    <3>5. after.todo \o rest \in Seq(Stages(d))
      BY <2>1, <3>4, LeftBoth
    <3>6. x.inst = after.inst /\ x \in Chains(d)
      BY <2>3, <3>4, <3>5 DEF after, Chains
    <3>7. Grows(s.inst, after.inst) /\ Stands(s.inst, after.inst)
      BY <1>1, <3>1, <3>2, <3>3, <3>4, Further
    <3> QED BY <3>6, <3>7
  <2> HIDE DEF x, done, open, rest
  <2> QED BY <1>3, <2>2, <2>3, TurnCases DEF x, done, open, rest
<1> QED BY <1>2, <1>3

LEMMA SettledSound ==
    ASSUME NEW d \in Definitions, NEW s \in Chains(d)
    PROVE  LET x == Settled(d, s)
           IN x \in Chains(d) /\ Grows(s.inst, x.inst) /\ Stands(s.inst, x.inst)
<1> DEFINE T == {x \in Chains(d) : Grows(s.inst, x.inst) /\ Stands(s.inst, x.inst)}
<1>1. \A x \in Chains(d) : x.inst \in InstanceType(d)
  BY DEF Chains, Instances
<1>2. s \in T
  BY <1>1, Further
<1>3. ASSUME NEW x \in T PROVE Turn(d, x) \in T
  <2>1. Turn(d, x) \in Chains(d) /\ Grows(x.inst, Turn(d, x).inst) /\ Stands(x.inst, Turn(d, x).inst)
    BY TurnSound
  <2> QED BY <1>1, <2>1, Further
<1>4. Settled(d, s) \in T
  <2> HIDE DEF T
  <2> QED BY <1>2, <1>3, SettledKeeps
<1> QED BY <1>4

-------------------------------------------------------------------------------
(* Groups are entered as a whole *)

LEMMA ActivatingGrouped ==
    ASSUME NEW d \in Definitions, NEW st \in Instances(d), NEW t \in Seq(Stages(d)), NEW h \in Stages(d),
           Grouped(d, [inst |-> st, todo |-> t])
    PROVE  LET x == Activating(d, st, h)
           IN Grouped(d, [inst |-> x.inst, todo |-> x.todo \o t])
<1> DEFINE x == Activating(d, st, h)
           s == [inst |-> st, todo |-> t]
           y == [inst |-> x.inst, todo |-> x.todo \o t]
<1>1. x.inst.status = st.status /\ x.inst.runs = st.runs /\ x.todo \in Seq(Stages(d)) /\ Left(x.todo) = GroupOf(d, h)
  BY ActivatingSound, ActivatingFacts
<1>2. s.inst = st /\ s.todo = t /\ y.inst = x.inst /\ y.todo = x.todo \o t
  OBVIOUS
<1> HIDE DEF x, y, s
<1>3. Left(y.todo) = GroupOf(d, h) \cup Left(t)
  BY <1>1, <1>2, LeftBoth
<1>4. ASSUME st.status = "running", NEW k \in Stages(d) PROVE Entered(d, y, k) \/ Fresh(d, y, k)
  <2>1. Entered(d, s, k) \/ Fresh(d, s, k)
    BY <1>2, <1>4 DEF Grouped, s
  <2>2. CASE \E j \in GroupOf(d, k) : j \in GroupOf(d, h)
    <3>1. GroupOf(d, k) = GroupOf(d, h)
      BY <2>2, Group
    <3> QED BY <3>1, <1>3 DEF Entered
  <2>3. CASE \A j \in GroupOf(d, k) : j \notin GroupOf(d, h)
    BY <2>1, <2>3, <1>1, <1>2, <1>3 DEF Entered, Fresh
  <2> QED BY <2>2, <2>3
<1> QED BY <1>1, <1>2, <1>4 DEF Grouped, y, x

LEMMA OpenedGrouped ==
    ASSUME NEW d \in Definitions, NEW s \in Chains(d), Grouped(d, s), s.todo # <<>>, NEW status \in {"active", "done"}
    PROVE  Grouped(d, [inst |-> Opened(s.inst, Head(s.todo), status), todo |-> Tail(s.todo)])
<1> DEFINE i == Head(s.todo)
           new == Opened(s.inst, i, status)
           y == [inst |-> new, todo |-> Tail(s.todo)]
<1>1. s.todo \in Seq(Stages(d)) /\ s.inst \in Instances(d)
  BY DEF Chains
<1>2. i \in Stages(d) /\ Left(s.todo) = {i} \cup Left(Tail(s.todo))
  BY <1>1, LeftFacts
<1>0. IsOpened(d, s.inst, i, status, new)
  <2>1. i \in Stages(d) /\ s.inst \in Instances(d)
    BY <1>1, <1>2
  <2> HIDE DEF i
  <2> QED BY <2>1, OpenedLatest
<1> HIDE DEF new, i
<1>3. /\ new.status = s.inst.status
      /\ \A j \in Stages(d) : Latest(new.runs, j) = IF j = i THEN status ELSE Latest(s.inst.runs, j)
  BY <1>0 DEF IsOpened
<1>4. y.inst = new /\ y.todo = Tail(s.todo)
  OBVIOUS
<1> HIDE DEF y
<1>6. ASSUME s.inst.status = "running", NEW k \in Stages(d) PROVE Entered(d, y, k) \/ Fresh(d, y, k)
  <2>1. Entered(d, s, k) \/ Fresh(d, s, k)
    BY <1>6 DEF Grouped
  <2>2. GroupOf(d, k) \subseteq Stages(d)
    BY Group
  <2>3. CASE Entered(d, s, k)
    <3> SUFFICES ASSUME NEW j \in GroupOf(d, k)
                 PROVE  Latest(y.inst.runs, j) \in {"active", "done"} \/ j \in Left(y.todo)
      BY DEF Entered
    <3>1. Latest(s.inst.runs, j) \in {"active", "done"} \/ j \in Left(s.todo)
      BY <2>3 DEF Entered
    <3>2. Latest(new.runs, j) = IF j = i THEN status ELSE Latest(s.inst.runs, j)
      BY <1>3, <2>2
    <3> QED BY <1>2, <1>4, <3>1, <3>2
  <2>4. CASE Fresh(d, s, k)
    <3> SUFFICES ASSUME NEW j \in GroupOf(d, k)
                 PROVE  Latest(y.inst.runs, j) = "pending" /\ j \notin Left(y.todo)
      BY DEF Fresh
    <3>1. Latest(s.inst.runs, j) = "pending" /\ j \notin Left(s.todo)
      BY <2>4 DEF Fresh
    <3>2. Latest(new.runs, j) = IF j = i THEN status ELSE Latest(s.inst.runs, j)
      BY <1>3, <2>2
    <3> QED BY <1>2, <1>4, <3>1, <3>2
  <2> QED BY <2>1, <2>3, <2>4
<1> QED BY <1>3, <1>4, <1>6 DEF Grouped, y, new, i

LEMMA TurnGrouped ==
    ASSUME NEW d \in Definitions, NEW s \in Chains(d), Grouped(d, s), s.todo # <<>>
    PROVE  LET x == Turn(d, s)
           IN Grouped(d, x) /\ (x.todo = <<>> /\ x.inst.status = "running" => Alive(x.inst))
<1> DEFINE i == Head(s.todo)
           rest == Tail(s.todo)
           done == Opened(s.inst, i, "done")
           open == Opened(s.inst, i, "active")
           x == Turn(d, s)
<1>1. s.todo \in Seq(Stages(d)) /\ s.inst \in Instances(d)
  BY DEF Chains
<1>2. i \in Stages(d) /\ rest \in Seq(Stages(d))
  BY <1>1, LeftFacts
<1>3. /\ open \in Instances(d) /\ Latest(open.runs, i) = "active"
      /\ done \in Instances(d) /\ Latest(done.runs, i) = "done"
  BY <1>1, <1>2, OpenedFacts
<1>4. /\ Grouped(d, [inst |-> open, todo |-> rest])
      /\ Grouped(d, [inst |-> done, todo |-> rest])
  BY OpenedGrouped
<1> HIDE DEF i, rest, done, open
<1>5. open \in InstanceType(d) /\ done \in InstanceType(d)
  BY <1>3 DEF Instances
<1>6. CASE x = [inst |-> open, todo |-> rest]
  <2>1. Alive(open)
    BY <1>2, <1>3, <1>5, Runs DEF Alive
  <2>2. x.inst = open /\ Grouped(d, x)
    BY <1>4, <1>6
  <2> HIDE DEF x
  <2> QED BY <2>1, <2>2 DEF x
<1>7. ASSUME NEW exit \in Matching(d[i]),
             x = [inst |-> Advance(d, done, done, i, exit).inst,
                  todo |-> Advance(d, done, done, i, exit).todo \o rest]
      PROVE  Grouped(d, x) /\ (x.todo = <<>> /\ x.inst.status = "running" => Alive(x.inst))
  <2> DEFINE after == Advance(d, done, done, i, exit)
             y == [inst |-> done, todo |-> rest]
  <2>1. after.inst = x.inst /\ after.todo \o rest = x.todo /\ y.inst = done /\ y.todo = rest
    BY <1>7
  <2> HIDE DEF x, y
  <2>2. Still(done).inst = done /\ Still(done).todo = <<>>
    BY DEF Still
  <2>3. ASSUME x.inst.status # "running" PROVE Grouped(d, x)
    BY <2>3 DEF Grouped
  <2>4. CASE done.status # "running" /\ after = Still(done)
    BY <2>1, <2>2, <2>3, <2>4
  <2>5. CASE /\ \E j \in GroupOf(d, i) : Undone(done, j)
             /\ after = Still([done EXCEPT !.current = done.current \ {i}])
    <3> DEFINE new == [done EXCEPT !.current = done.current \ {i}]
    <3>1. done.current \ {i} \in SUBSET Stages(d)
      BY <1>5 DEF InstanceType
    <3>2. new.status = done.status /\ new.runs = done.runs
      BY <1>3, <3>1, CurrentFacts
    <3> HIDE DEF new
    <3>3. after.inst = new /\ after.todo = <<>>
      BY <2>5 DEF new, Still
    <3>4. x.inst = new /\ x.todo = rest
      <4>1. <<>> \o rest = rest
        BY <1>2
      <4> QED BY <4>1, <2>1, <3>3
    <3>5. Grouped(d, x)
      BY <1>4, <2>1, <3>2, <3>4 DEF Grouped, Entered, Fresh, y
    <3>6. ASSUME x.todo = <<>>, x.inst.status = "running" PROVE Alive(x.inst)
      <4>1. Entered(d, x, i) \/ Fresh(d, x, i)
        BY <1>2, <3>5, <3>6 DEF Grouped
      <4>2. Latest(x.inst.runs, i) = "done" /\ i \in GroupOf(d, i)
        BY <1>2, <1>3, <3>2, <3>4, Group
      <4>3. Entered(d, x, i)
        BY <4>1, <4>2 DEF Fresh
      <4>4. PICK j \in GroupOf(d, i) : Undone(x.inst, j)
        BY <2>5, <3>2, <3>4 DEF Undone
      <4>5. Latest(x.inst.runs, j) = "active"
        <5>1. j \notin Left(x.todo)
          BY <3>6 DEF Left
        <5> QED BY <4>3, <4>4, <5>1 DEF Entered, Undone
      <4>6. j \in DOMAIN x.inst.runs
        BY <1>2, <1>5, <3>2, <3>4, Group, Runs
      <4> QED BY <4>5, <4>6 DEF Alive
    <3> QED BY <3>5, <3>6
  <2>6. CASE after = Still(Complete(done, "completed"))
    <3>1. Complete(done, "completed").status = "completed"
      BY <1>5, CompleteFacts
    <3>2. x.inst.status = "completed"
      BY <2>1, <2>6, <3>1 DEF Still
    <3> QED BY <2>3, <3>2
  <2>7. ASSUME NEW h \in Stages(d), after = Activating(d, done, h)
        PROVE  Grouped(d, x) /\ x.todo # <<>>
    <3>1. Grouped(d, [inst |-> after.inst, todo |-> after.todo \o rest])
      BY <1>2, <1>3, <1>4, <2>7, ActivatingGrouped
    <3>2. Grouped(d, x)
      BY <1>7, <3>1 DEF x
    <3>3. after.todo \in Seq(Stages(d)) /\ Left(after.todo) # {}
      BY <2>7, ActivatingFacts, Group
    <3>4. x.todo \in Seq(Stages(d)) /\ Left(x.todo) # {}
      <4>1. after.todo \o rest \in Seq(Stages(d)) /\ Left(after.todo \o rest) = Left(after.todo) \cup Left(rest)
        BY <1>2, <3>3, LeftBoth
      <4>2. Left(after.todo \o rest) # {}
        BY <3>3, <4>1
      <4> QED BY <2>1, <4>1, <4>2
    <3> QED BY <3>2, <3>4, LeftFacts
  <2> HIDE DEF after
  <2> QED BY <1>2, <1>7, <2>4, <2>5, <2>6, <2>7, <2>1, <2>2, <2>3, AdvanceCases DEF after
<1> HIDE DEF x
<1> QED BY <1>6, <1>7, TurnCases DEF x, done, open, rest, i

LEMMA SettledGrouped ==
    ASSUME NEW d \in Definitions, NEW s \in Chains(d), Grouped(d, s)
    PROVE  LET x == Settled(d, s)
           IN Grouped(d, x) /\ (x.todo = <<>> /\ x.inst.status = "running" => Alive(x.inst) \/ x = s)
<1> DEFINE Good(x) == x.todo = <<>> /\ x.inst.status = "running" => Alive(x.inst) \/ x = s
           T == {x \in Chains(d) : Grouped(d, x) /\ Good(x)}
<1>1. s \in T
  OBVIOUS
<1>2. ASSUME NEW x \in T PROVE Turn(d, x) \in T
  <2>1. CASE x.todo = <<>>
    BY <2>1 DEF Turn
  <2>2. CASE x.todo # <<>>
    BY <2>2, TurnSound, TurnGrouped
  <2> QED BY <2>1, <2>2
<1>3. Settled(d, s) \in T
  <2> HIDE DEF T
  <2> QED BY <1>1, <1>2, SettledKeeps
<1> QED BY <1>3

LEMMA LaunchedGrouped ==
    ASSUME NEW d \in Definitions
    PROVE  /\ Launched(d) \in Chains(d) /\ Grouped(d, Launched(d)) /\ Launched(d).todo # <<>>
           /\ Launched(d).inst.status = "running" /\ Launched(d).inst.current = GroupOf(d, 1) /\ 1 \in Stages(d)
           /\ Left(Launched(d).todo) = GroupOf(d, 1)
           /\ \A n, m \in DOMAIN Launched(d).todo : n < m => Launched(d).todo[n] < Launched(d).todo[m]
           /\ Len(Launched(d).todo) > 1 => \A n \in DOMAIN Launched(d).todo : Parallel(d, Launched(d).todo[n])
           /\ \A i \in Stages(d) : Launched(d).inst.runs[i] = <<"pending">>
<1> DEFINE st == [status |-> "running", outcome |-> "none", current |-> {}, runs |-> [i \in Stages(d) |-> <<"pending">>]]
           x == Launched(d)
<1>1. x = Activating(d, st, 1)
  BY DEF Launched
<1>2. <<"pending">> \in Seq(RunStatuses) \ {<<>>}
  BY DEF RunStatuses
<1>0. Len(<<"pending">>) = 1 /\ DOMAIN <<"pending">> = {1} /\ <<"pending">>[1] = "pending"
  OBVIOUS
<1>3. st \in InstanceType(d)
  <2>1. [i \in Stages(d) |-> <<"pending">>] \in [Stages(d) -> Seq(RunStatuses) \ {<<>>}]
    BY <1>2
  <2> QED BY <2>1 DEF InstanceType
<1>4. /\ DOMAIN st.runs = Stages(d) /\ st.status = "running" /\ \A i \in Stages(d) : st.runs[i] = <<"pending">>
  OBVIOUS
<1> HIDE DEF st, x
<1>5. st \in Instances(d)
  <2> DEFINE run == <<"pending">>
  <2>1. \A i \in Stages(d) : st.runs[i] = run
    BY <1>4
  <2>2. Len(run) = 1 /\ DOMAIN run = {1} /\ run[1] = "pending"
    BY <1>0
  <2> HIDE DEF run
  <2> QED BY <1>3, <1>4, <2>1, <2>2 DEF Instances, PendingLast, Unskipped
<1>6. 1 \in Stages(d)
  BY Definition
<1>7. /\ x \in Chains(d) /\ x.inst.status = st.status /\ x.inst.runs = st.runs /\ x.inst.current = GroupOf(d, 1)
  BY <1>1, <1>5, <1>6, ActivatingSound
<1>8. /\ Left(x.todo) = GroupOf(d, 1) /\ x.todo # <<>>
      /\ \A n, m \in DOMAIN x.todo : n < m => x.todo[n] < x.todo[m]
      /\ Len(x.todo) > 1 => \A n \in DOMAIN x.todo : Parallel(d, x.todo[n])
  BY <1>1, <1>5, <1>6, ActivatingFacts
<1>9. ASSUME NEW k \in Stages(d) PROVE Entered(d, x, k) \/ Fresh(d, x, k)
  <2>1. GroupOf(d, k) \subseteq Stages(d) /\ \A j \in GroupOf(d, k) : GroupOf(d, j) = GroupOf(d, k)
    BY Group
  <2>2. \A j \in GroupOf(d, k) : Latest(x.inst.runs, j) = "pending"
    <3> DEFINE run == <<"pending">>
    <3>1. \A i \in Stages(d) : x.inst.runs[i] = run
      BY <1>4, <1>7
    <3>2. Len(run) = 1 /\ run[1] = "pending"
      BY <1>0
    <3> HIDE DEF run
    <3> QED BY <2>1, <3>1, <3>2 DEF Latest, Last
  <2>3. CASE \E j \in GroupOf(d, k) : j \in GroupOf(d, 1)
    <3>1. GroupOf(d, k) = GroupOf(d, 1)
      BY <2>1, <2>3, <1>6, Group
    <3> QED BY <3>1, <1>8 DEF Entered
  <2>4. CASE \A j \in GroupOf(d, k) : j \notin GroupOf(d, 1)
    BY <2>2, <2>4, <1>8 DEF Fresh
  <2> QED BY <2>3, <2>4
<1> QED BY <1>4, <1>6, <1>7, <1>8, <1>9 DEF Grouped, x

\* An approval sends back to an earlier stage: the groups between are to be entered again.
LEMMA SentBackFacts ==
    ASSUME NEW d \in Definitions, NEW i \in Stages(d), d[i].rejectTo # None, NEW k \in Stages(d)
    PROVE  /\ d[i].rejectTo \in Stages(d) /\ i \in Between(d, i) /\ i \notin Reopened(d, i)
           /\ \/ GroupOf(d, k) = Reopened(d, i)
              \/ GroupOf(d, k) \subseteq Between(d, i)
              \/ GroupOf(d, k) \cap (Reopened(d, i) \cup Between(d, i)) = {}
<1> DEFINE r == d[i].rejectTo
           reopen == GroupOf(d, r)
<1>1. r \in Stages(d) /\ r < i /\ ~Parallel(d, i) /\ GroupOf(d, i) = {i} /\ Stages(d) \subseteq Nat
  BY Definition, Group
<1>2. r \in reopen /\ i \notin reopen
  <2>1. r \in GroupOf(d, r) /\ (i \in GroupOf(d, r) => GroupOf(d, r) = GroupOf(d, i))
    BY <1>1, Group
  <2> QED BY <2>1, <1>1
<1> HIDE DEF r, Between, Reopened
<1>3. PICK p, q \in Stages(d) : p <= q /\ GroupOf(d, k) = p..q
  BY Span
<1>4. CASE \E j \in GroupOf(d, k) : j \in reopen
  <2>1. GroupOf(d, k) = reopen
    BY <1>1, <1>4, Group
  <2> QED BY <1>1, <1>2, <2>1 DEF r, Between, Reopened
<1>5. CASE GroupOf(d, k) \cap reopen = {}
  <2>1. r \notin p..q
    BY <1>2, <1>3, <1>5
  <2>2. i \in p..q => p..q = {i}
    <3>1. i \in GroupOf(d, k) => GroupOf(d, k) = GroupOf(d, i)
      BY Group
    <3> QED BY <1>1, <1>3, <3>1
  <2>3. ASSUME NEW m \in p..q, m \in r..i PROVE p..q \subseteq r..i
    <3>1. r < p
      BY <1>1, <1>3, <2>1, <2>3
    <3>2. q <= i
      <4>1. CASE i < q
        <5>1. i \in p..q
          BY <1>1, <1>3, <2>3, <4>1
        <5> QED BY <1>1, <1>3, <2>2, <4>1, <5>1
      <4> QED BY <1>1, <1>3, <4>1
    <3> QED BY <1>1, <1>3, <3>1, <3>2
  <2>4. p..q \subseteq r..i \/ (p..q) \cap (r..i) = {}
    BY <2>3
  <2> QED BY <1>1, <1>2, <1>3, <1>5, <2>4 DEF r, Between, Reopened
<1> QED BY <1>4, <1>5

LEMMA SentBackGrouped ==
    ASSUME NEW d \in Definitions, NEW old \in Instances(d), Grouped(d, Still(old)),
           NEW st \in Instances(d), st.status = old.status,
           NEW i \in Stages(d), \A j \in Stages(d) \ {i} : st.runs[j] = old.runs[j],
           d[i].rejectTo # None
    PROVE  /\ SentBack(d, st, i) \in Chains(d) /\ Grouped(d, SentBack(d, st, i)) /\ SentBack(d, st, i).todo # <<>>
           /\ Grows(st, SentBack(d, st, i).inst) /\ Stands(st, SentBack(d, st, i).inst)
<1> DEFINE r == d[i].rejectTo
           reopen == Reopened(d, i)
           between == Between(d, i)
           new == Replanned(d, st, i)
           x == SentBack(d, st, i)
<1>1. x = Activating(d, new, r)
  BY DEF SentBack, Replanned
<1>2. new \in Instances(d) /\ new.status = st.status /\ Grows(st, new) /\ Stands(st, new)
  BY PlannedFacts
<1>3. /\ \A j \in Stages(d) \ (reopen \cup between) : new.runs[j] = st.runs[j]
      /\ \A j \in between : Latest(new.runs, j) = "pending"
  <2>1. \A j \in Stages(d) \ (reopen \cup between) : new.runs[j] = st.runs[j]
    BY PlannedFacts
  <2>2. \A j \in between : Latest(new.runs, j) = "pending"
    BY PlannedFacts
  <2> QED BY <2>1, <2>2
<1>4. r \in Stages(d) /\ i \in between
  BY SentBackFacts
<1> HIDE DEF new, x, r
<1>5. /\ x \in Chains(d) /\ Grows(new, x.inst) /\ Stands(new, x.inst)
      /\ x.inst.status = new.status /\ x.inst.runs = new.runs
  BY <1>1, <1>2, <1>4, ActivatingSound
<1>6. Left(x.todo) = reopen /\ x.todo # <<>>
  BY <1>1, <1>4, ActivatingFacts DEF r, Reopened
<1>7. ASSUME NEW k \in Stages(d), x.inst.status = "running" PROVE Entered(d, x, k) \/ Fresh(d, x, k)
  <2>1. CASE GroupOf(d, k) = reopen
    BY <2>1, <1>6 DEF Entered
  <2>2. CASE GroupOf(d, k) \subseteq between
    <3>1. between \cap reopen = {}
      BY DEF Between
    <3> QED BY <2>2, <3>1, <1>3, <1>5, <1>6 DEF Fresh
  <2>3. CASE GroupOf(d, k) \cap (reopen \cup between) = {}
    <3>1. Entered(d, Still(old), k) \/ Fresh(d, Still(old), k)
      BY <1>2, <1>5, <1>7, StillFacts DEF Grouped
    <3>2. GroupOf(d, k) \subseteq Stages(d)
      BY Group
    <3>3. \A j \in GroupOf(d, k) : x.inst.runs[j] = old.runs[j]
      <4> SUFFICES ASSUME NEW j \in GroupOf(d, k) PROVE x.inst.runs[j] = old.runs[j]
        OBVIOUS
      <4>1. j \in Stages(d) /\ j \notin reopen \cup between /\ j # i
        BY <2>3, <3>2, <1>4
      <4> HIDE DEF reopen, between
      <4> QED BY <4>1, <1>3, <1>5
    <3>4. \A j \in GroupOf(d, k) : Latest(x.inst.runs, j) = Latest(old.runs, j) /\ j \notin Left(x.todo)
      BY <2>3, <3>3, <1>6 DEF Latest, Last
    <3>5. Still(old).inst = old /\ Left(Still(old).todo) = {}
      BY StillFacts
    <3> QED BY <3>1, <3>4, <3>5 DEF Entered, Fresh
  <2> QED BY <2>1, <2>2, <2>3, SentBackFacts DEF r
<1>8. st \in InstanceType(d) /\ new \in InstanceType(d) /\ x.inst \in InstanceType(d)
  BY <1>2, <1>5 DEF Chains, Instances
<1>9. Grows(st, x.inst) /\ Stands(st, x.inst)
  BY <1>2, <1>5, <1>8, Further
<1> QED BY <1>5, <1>6, <1>7, <1>9 DEF Grouped, x

-------------------------------------------------------------------------------
(* What a request does *)

LEMMA OpenSession ==
    ASSUME Inv, NEW c \in Open
    PROVE  /\ definition \in Definitions /\ inst \in Instances(definition) /\ inst \in InstanceType(definition)
           /\ c \in Connections /\ session[c] # Idle
           /\ session[c].op \in {"submit", "approve", "reject", "cancel"}
           /\ session[c].stage \in Stages(definition)
           /\ session[c].marked \in BOOLEAN
           /\ session[c].op # "cancel" => SessionOK(c)
           /\ c \notin late => KnowsOK(c)
<1>1. session[c] \in SessionType(definition)
  BY DEF Inv, TypeOK, Open
<1>2. /\ session[c].op \in {"submit", "approve", "reject", "cancel"} /\ session[c].stage \in Stages(definition)
      /\ session[c].marked \in BOOLEAN
  BY <1>1 DEF SessionType
<1>3. /\ definition \in Definitions /\ inst \in Instances(definition) /\ inst \in InstanceType(definition)
      /\ c \in Connections /\ session[c] # Idle
  BY DEF Inv, TypeOK, Open
<1>4. session[c].op # "cancel" => SessionOK(c)
  BY <1>3 DEF Inv, Decides
<1>5. c \notin late => KnowsOK(c)
  BY DEF Inv
<1> QED BY <1>2, <1>3, <1>4, <1>5

\* The instance with the request's own run concluded.
LEMMA Mine ==
    ASSUME Inv, NEW c \in Open, session[c].op # "cancel", NEW s, s = session[c],
           NEW mine, mine = Concluded(inst, s)
    PROVE  /\ mine \in Instances(definition) /\ mine.status = inst.status /\ mine.current = inst.current
           /\ \A j \in Stages(definition) \ {s.stage} : mine.runs[j] = inst.runs[j]
           /\ Grows(inst, mine) /\ (c \notin late => Stands(inst, mine))
           /\ mine.runs[s.stage][s.attempt] = Outcome(s.op) /\ Len(mine.runs[s.stage]) = Len(inst.runs[s.stage])
           /\ \A b \in 1..Len(inst.runs[s.stage]) : b # s.attempt => mine.runs[s.stage][b] = inst.runs[s.stage][b]
           /\ \A j \in Stages(definition) :
                Latest(mine.runs, j) = IF j = s.stage /\ s.attempt = Len(inst.runs[j])
                                       THEN Outcome(s.op) ELSE Latest(inst.runs, j)
<1> DEFINE i == s.stage
           a == s.attempt
<1>1. definition \in Definitions /\ inst \in Instances(definition) /\ i \in Stages(definition)
  BY OpenSession
<1>2. a \in DOMAIN inst.runs[i] /\ inst.runs[i][a] # "pending" /\ (c \notin late => inst.runs[i][a] = "active")
  BY OpenSession DEF SessionOK, KnowsOK
<1>3. Outcome(s.op) \in {"done", "rejected"}
  BY DEF Outcome
<1>4. /\ mine \in Instances(definition) /\ mine.status = inst.status /\ mine.current = inst.current
      /\ \A j \in Stages(definition) \ {i} : mine.runs[j] = inst.runs[j]
      /\ mine.runs[i][a] = Outcome(s.op) /\ Len(mine.runs[i]) = Len(inst.runs[i])
      /\ \A b \in 1..Len(inst.runs[i]) : b # a => mine.runs[i][b] = inst.runs[i][b]
      /\ Grows(inst, mine)
      /\ inst.runs[i][a] = "active" => Stands(inst, mine)
  <2> DEFINE new == Concluded(inst, s)
  <2>1. mine = new
    OBVIOUS
  <2>2. new \in Instances(definition) /\ new.status = inst.status /\ new.current = inst.current
    BY <1>1, <1>2, ConcludedFacts
  <2>3. \A j \in Stages(definition) \ {i} : new.runs[j] = inst.runs[j]
    BY <1>1, <1>2, ConcludedFacts
  <2>4. new.runs[i][a] = Outcome(s.op) /\ Len(new.runs[i]) = Len(inst.runs[i])
    BY <1>1, <1>2, ConcludedFacts
  <2>6. \A b \in 1..Len(inst.runs[i]) : b # a => new.runs[i][b] = inst.runs[i][b]
    BY <1>1, <1>2, ConcludedFacts
  <2>5. Grows(inst, new) /\ (inst.runs[i][a] = "active" => Stands(inst, new))
    BY <1>1, <1>2, ConcludedFacts
  <2> HIDE DEF new
  <2> QED BY <2>1, <2>2, <2>3, <2>4, <2>5, <2>6
<1> HIDE DEF i, a
<1>5. inst \in InstanceType(definition) /\ mine \in InstanceType(definition)
  BY <1>1, <1>4 DEF Instances
<1>6. ASSUME NEW j \in Stages(definition)
      PROVE  Latest(mine.runs, j) = IF j = i /\ a = Len(inst.runs[j]) THEN Outcome(s.op) ELSE Latest(inst.runs, j)
  <2>1. CASE j # i
    BY <2>1, <1>4 DEF Latest, Last
  <2>2. CASE j = i
    <3>1. Len(inst.runs[i]) \in 1..Len(inst.runs[i])
      BY <1>1, <1>5, Runs
    <3>2. Latest(mine.runs, i) = mine.runs[i][Len(inst.runs[i])] /\ Latest(inst.runs, i) = inst.runs[i][Len(inst.runs[i])]
      BY <1>1, <1>4, <1>5, Runs
    <3> QED BY <2>2, <3>1, <3>2, <1>4
  <2> QED BY <2>1, <2>2
<1> QED BY <1>2, <1>4, <1>6 DEF i, a

LEMMA MineGrouped ==
    ASSUME Inv, NEW c \in Open, session[c].op \in {"submit", "approve"}
    PROVE  Grouped(definition, Still(Concluded(inst, session[c])))
<1> DEFINE s == session[c]
           d == definition
           mine == Concluded(inst, s)
<1>1. /\ d \in Definitions /\ inst \in Instances(d) /\ inst \in InstanceType(d) /\ s.stage \in Stages(d)
      /\ s.attempt \in DOMAIN inst.runs[s.stage] /\ inst.runs[s.stage][s.attempt] # "pending"
  BY OpenSession DEF SessionOK
<1>2. Outcome(s.op) = "done"
  BY DEF Outcome
<1>3. /\ mine \in Instances(d) /\ mine.status = inst.status
      /\ \A j \in Stages(d) : Latest(mine.runs, j) = IF j = s.stage /\ s.attempt = Len(inst.runs[j])
                                                     THEN Outcome(s.op) ELSE Latest(inst.runs, j)
  BY Mine
<1>4. /\ Still(mine).inst = mine /\ Left(Still(mine).todo) = {}
      /\ Still(inst).inst = inst /\ Left(Still(inst).todo) = {}
  BY <1>1, <1>3, StillFacts
<1>5. Grouped(d, Still(inst))
  BY DEF Inv
<1>6. Latest(inst.runs, s.stage) = "pending" => s.attempt # Len(inst.runs[s.stage])
  BY <1>1, Runs
<1>7. \A k \in Stages(d) : GroupOf(d, k) \subseteq Stages(d)
  BY <1>1, Group
<1> HIDE DEF mine, s, d
<1>8. ASSUME NEW k \in Stages(d), inst.status = "running" PROVE Entered(d, Still(mine), k) \/ Fresh(d, Still(mine), k)
  <2>1. CASE Entered(d, Still(inst), k)
    BY <2>1, <1>2, <1>3, <1>4, <1>7 DEF Entered
  <2>2. CASE Fresh(d, Still(inst), k)
    BY <2>2, <1>3, <1>4, <1>6, <1>7 DEF Fresh
  <2> QED BY <2>1, <2>2, <1>4, <1>5, <1>8 DEF Grouped
<1> QED BY <1>3, <1>4, <1>8 DEF Grouped, mine, s, d

\* The four ways in which a request may end, with the transition that it takes.
LEMMA EffectCases ==
    ASSUME Inv, NEW c \in Open, session[c].marked \/ session[c].op = "cancel", NEW s, s = session[c],
           NEW mine, mine = Concluded(inst, s)
    PROVE  \/ s.op = "cancel" /\ Effect(s) = Still(Cancelled(inst))
           \/ /\ s.op \in {"submit", "approve"} /\ Outcome(s.op) = "done" /\ s.marked
              /\ s.exit \in Matching(definition[s.stage])
              /\ Effect(s) = Advance(definition, mine, s.seen, s.stage, s.exit)
           \/ /\ s.op = "reject" /\ definition[s.stage].rejectTo # None
              /\ Effect(s) = SentBack(definition, mine, s.stage)
           \/ s.op = "reject" /\ Effect(s) = Still(Complete(mine, "rejected"))
<1>1. s.op \in {"submit", "approve", "reject", "cancel"} /\ (s.op # "cancel" => SessionOK(c))
  BY OpenSession
<1>2. CASE s.op = "cancel"
  BY <1>2 DEF Effect
<1>3. CASE s.op \in {"submit", "approve"}
  <2>1. Outcome(s.op) = "done" /\ s.marked /\ s.exit \in Matching(definition[s.stage])
    BY <1>1, <1>3 DEF Outcome, SessionOK
  <2>2. Effect(s) = Advance(definition, mine, s.seen, s.stage, s.exit)
    BY <1>3 DEF Effect
  <2> QED BY <1>3, <2>1, <2>2
<1>4. CASE s.op = "reject" /\ definition[s.stage].rejectTo # None
  BY <1>4 DEF Effect
<1>5. CASE s.op = "reject" /\ definition[s.stage].rejectTo = None
  BY <1>5 DEF Effect
<1> QED BY <1>1, <1>2, <1>3, <1>4, <1>5

LEMMA CancelledFacts ==
    ASSUME NEW d \in Definitions, NEW st \in InstanceType(d)
    PROVE  /\ Cancelled(st) \in Instances(d) /\ Cancelled(st).status = "cancelled" /\ Cancelled(st).current = {}
           /\ Quiet(Cancelled(st)) /\ Grows(st, Cancelled(st)) /\ Stands(st, Cancelled(st))
<1> DEFINE end == Complete(st, "none")
           new == [end EXCEPT !.status = "cancelled"]
<1>1. Cancelled(st) = new
  BY DEF Cancelled
<1>2. end \in Instances(d) /\ end.current = {} /\ Quiet(end) /\ Grows(st, end) /\ Stands(st, end)
  BY CompleteFacts
<1> HIDE DEF end
<1>3. end \in InstanceType(d)
  BY <1>2 DEF Instances
<1>4. /\ new \in InstanceType(d) /\ new.status = "cancelled" /\ new.runs = end.runs /\ new.current = end.current
  BY <1>3 DEF InstanceType
<1> HIDE DEF new
<1>5. new \in Instances(d)
  BY <1>2, <1>4 DEF Instances, PendingLast, Unskipped, Quiet
<1>6. Quiet(new) /\ Grows(st, new) /\ Stands(st, new)
  BY <1>2, <1>4 DEF Quiet, Grows, Stands
<1> QED BY <1>1, <1>2, <1>4, <1>5, <1>6

LEMMA EffectSound ==
    ASSUME Inv, NEW c \in Open, session[c].marked \/ session[c].op = "cancel"
    PROVE  LET x == Effect(session[c])
           IN /\ x \in Chains(definition) /\ Grouped(definition, x)
              /\ Grows(inst, x.inst) /\ (c \notin late => Stands(inst, x.inst))
<1> DEFINE s == session[c]
           d == definition
           mine == Concluded(inst, s)
           x == Effect(s)
<1>1. /\ d \in Definitions /\ inst \in Instances(d) /\ inst \in InstanceType(d) /\ s.stage \in Stages(d)
      /\ s.op # "cancel" => SessionOK(c)
  BY OpenSession
<1>2. /\ s.op # "cancel" => /\ mine \in Instances(d) /\ mine.status = inst.status
                            /\ \A j \in Stages(d) \ {s.stage} : mine.runs[j] = inst.runs[j]
                            /\ Grows(inst, mine) /\ (c \notin late => Stands(inst, mine))
  BY Mine
<1>3. s.op # "cancel" => mine \in InstanceType(d)
  BY <1>2 DEF Instances
<1>4. \/ s.op = "cancel" /\ x = Still(Cancelled(inst))
      \/ /\ s.op \in {"submit", "approve"} /\ s.marked /\ s.exit \in Matching(d[s.stage])
         /\ x = Advance(d, mine, s.seen, s.stage, s.exit)
      \/ s.op = "reject" /\ d[s.stage].rejectTo # None /\ x = SentBack(d, mine, s.stage)
      \/ s.op = "reject" /\ x = Still(Complete(mine, "rejected"))
  BY EffectCases
<1>5. Grouped(d, Still(inst))
  BY DEF Inv
<1>6. s.op \in {"submit", "approve"} => Grouped(d, Still(mine))
  BY MineGrouped
<1>7. s.op # "cancel" /\ s.marked => s.seen \in InstanceType(d)
  BY <1>1 DEF SessionOK, Instances
<1> HIDE DEF x, mine, s, d
<1>8. CASE x = Still(Cancelled(inst))
  <2>1. /\ Cancelled(inst) \in Instances(d) /\ Cancelled(inst).status = "cancelled"
        /\ Grows(inst, Cancelled(inst)) /\ Stands(inst, Cancelled(inst))
    BY <1>1, CancelledFacts
  <2>2. x \in Chains(d) /\ x.inst = Cancelled(inst)
    BY <1>1, <1>8, <2>1, StillFacts
  <2>3. Grouped(d, x)
    BY <2>1, <2>2 DEF Grouped
  <2> QED BY <2>1, <2>2, <2>3 DEF x, d, s
<1>9. CASE s.op = "reject" /\ x = Still(Complete(mine, "rejected"))
  <2> DEFINE new == Complete(mine, "rejected")
  <2>1. new \in Instances(d) /\ new.status = "completed" /\ Grows(mine, new) /\ Stands(mine, new)
    BY <1>1, <1>3, <1>9, CompleteFacts
  <2> HIDE DEF new
  <2>2. x \in Chains(d) /\ x.inst = new
    BY <1>1, <1>9, <2>1, StillFacts DEF new
  <2>3. new \in InstanceType(d)
    BY <2>1 DEF Instances
  <2>4. Grouped(d, x)
    BY <2>1, <2>2 DEF Grouped
  <2>5. Grows(inst, new) /\ (c \notin late => Stands(inst, new))
    BY <1>1, <1>2, <1>3, <1>9, <2>1, <2>3, Further
  <2> QED BY <2>2, <2>4, <2>5 DEF x, d, s
<1>10. CASE s.op = "reject" /\ d[s.stage].rejectTo # None /\ x = SentBack(d, mine, s.stage)
  <2>1. x \in Chains(d) /\ Grouped(d, x) /\ Grows(mine, x.inst) /\ Stands(mine, x.inst)
    BY <1>1, <1>2, <1>5, <1>10, SentBackGrouped
  <2>2. x.inst \in InstanceType(d)
    BY <2>1 DEF Chains, Instances
  <2>3. Grows(inst, x.inst) /\ (c \notin late => Stands(inst, x.inst))
    BY <1>1, <1>2, <1>3, <1>10, <2>1, <2>2, Further
  <2> QED BY <2>1, <2>3 DEF x, d, s
<1>11. CASE /\ s.op \in {"submit", "approve"} /\ s.marked /\ s.exit \in Matching(d[s.stage])
            /\ x = Advance(d, mine, s.seen, s.stage, s.exit)
  <2>1. x \in Chains(d) /\ Grows(mine, x.inst) /\ Stands(mine, x.inst)
    BY <1>1, <1>2, <1>7, <1>11, AdvanceSound
  <2>2. x.inst \in InstanceType(d)
    BY <2>1 DEF Chains, Instances
  <2>3. Grows(inst, x.inst) /\ (c \notin late => Stands(inst, x.inst))
    BY <1>1, <1>2, <1>3, <1>11, <2>1, <2>2, Further
  <2>4. Still(mine).inst = mine /\ Still(mine).todo = <<>> /\ Left(Still(mine).todo) = {}
    BY <1>1, <1>2, <1>11, StillFacts
  <2>5. CASE x = Still(mine)
    BY <2>1, <2>3, <2>5, <1>6, <1>11 DEF x, d, s
  <2>6. CASE x = Still(Waiting(mine, s.seen, s.stage))
    <3> DEFINE cur == s.seen.current \ {s.stage}
               new == Waiting(mine, s.seen, s.stage)
    <3>1. cur \in SUBSET Stages(d)
      BY <1>7, <1>11 DEF InstanceType
    <3>2. new.status = mine.status /\ new.runs = mine.runs /\ new \in Instances(d)
      <4>1. new = [mine EXCEPT !.current = cur]
        BY DEF Waiting
      <4> HIDE DEF cur, new
      <4> QED BY <1>1, <1>2, <1>11, <3>1, <4>1, CurrentFacts
    <3> HIDE DEF new
    <3>3. x.inst = new /\ Left(x.todo) = {}
      BY <1>1, <2>6, <3>2, StillFacts DEF new
    <3>4. Grouped(d, x)
      BY <1>6, <1>11, <2>4, <3>2, <3>3 DEF Grouped, Entered, Fresh
    <3> QED BY <2>1, <2>3, <3>4 DEF x, d, s
  <2>7. CASE x = Still(Complete(mine, "completed"))
    <3>1. Complete(mine, "completed").status = "completed"
      BY <1>1, <1>3, <1>11, CompleteFacts
    <3>2. x.inst.status = "completed"
      BY <2>7, <3>1 DEF Still
    <3>3. Grouped(d, x)
      BY <3>2 DEF Grouped
    <3> QED BY <2>1, <2>3, <3>3 DEF x, d, s
  <2>8. ASSUME NEW h \in Stages(d), x = Activating(d, mine, h) PROVE Grouped(d, x)
    <3>1. Grouped(d, [inst |-> mine, todo |-> <<>>])
      BY <1>6, <1>11 DEF Still
    <3>2. <<>> \in Seq(Stages(d))
      OBVIOUS
    <3>3. Grouped(d, [inst |-> x.inst, todo |-> x.todo \o <<>>])
      BY <1>1, <1>2, <1>11, <2>8, <3>1, <3>2, ActivatingGrouped
    <3>4. x.todo \o <<>> = x.todo /\ x = [inst |-> x.inst, todo |-> x.todo]
      <4>1. x.todo \in Seq(Stages(d)) /\ x = [inst |-> x.inst, todo |-> x.todo]
        BY <2>1 DEF Chains
      <4> QED BY <4>1
    <3> QED BY <3>3, <3>4
  <2>9. \/ x = Still(mine)
        \/ x = Still(Waiting(mine, s.seen, s.stage))
        \/ x = Still(Complete(mine, "completed"))
        \/ \E h \in Stages(d) : x = Activating(d, mine, h)
    BY <1>1, <1>11, AdvanceForms
  <2> QED BY <2>1, <2>3, <2>5, <2>6, <2>7, <2>8, <2>9 DEF x, d, s
<1> QED BY <1>4, <1>8, <1>9, <1>10, <1>11

\* Two of the same group make it a group of more than one.
LEMMA Several ==
    ASSUME NEW d \in Definitions, NEW i \in Stages(d), NEW j \in GroupOf(d, i), j # i
    PROVE  Cardinality(GroupOf(d, i)) > 1
<1>1. PICK a, b \in Stages(d) : a <= b /\ GroupOf(d, i) = a..b
  BY Span
<1>2. a \in Nat /\ b \in Nat /\ i \in a..b
  BY <1>1, Definition, Group
<1>3. a < b
  BY <1>1, <1>2
<1>4. Cardinality(a..b) = IF a > b THEN 0 ELSE b - a + 1
  BY <1>2, FS_Interval
<1> QED BY <1>1, <1>2, <1>3, <1>4

\* Whoever concludes a stage and finds another of its group undone leaves the instance to
\* somebody, unless a commit that it has not seen concluded the other.
LEMMA WaitingAlive ==
    ASSUME Inv, NEW c \in Open, session[c].op \in {"submit", "approve"}, session[c].marked,
           NEW s, s = session[c], NEW mine, mine = Concluded(inst, s), mine.status = "running",
           NEW k \in GroupOf(definition, s.stage), Undone(s.seen, k)
    PROVE  Alive(mine) \/ ((overtaken \/ c \in late) /\ Concluding(definition, mine))
<1> DEFINE d == definition
           i == s.stage
           a == s.attempt
<1>1. /\ d \in Definitions /\ inst \in Instances(d) /\ inst \in InstanceType(d) /\ i \in Stages(d)
      /\ SessionOK(c) /\ (c \notin late => KnowsOK(c))
  BY OpenSession
<1>2. Outcome(s.op) = "done"
  BY DEF Outcome
<1>3. /\ mine \in Instances(d) /\ mine.status = inst.status /\ mine.runs[i][a] = "done"
      /\ \A j \in Stages(d) : Latest(mine.runs, j) = IF j = i /\ a = Len(inst.runs[j])
                                                     THEN "done" ELSE Latest(inst.runs, j)
  BY <1>2, Mine
<1>4. mine \in InstanceType(d) /\ DOMAIN mine.runs = Stages(d) /\ DOMAIN inst.runs = Stages(d)
  BY <1>1, <1>3, Runs DEF Instances
<1>5. /\ a \in 1..Len(inst.runs[i]) /\ s.seen \in Instances(d) /\ s.seen \in InstanceType(d)
      /\ a \in 1..Len(s.seen.runs[i]) /\ s.seen.runs[i][a] = "done" /\ Len(s.seen.runs[i]) <= Len(inst.runs[i])
      /\ c \notin late => s.seen = mine
  <2>1. /\ a \in DOMAIN inst.runs[i] /\ s.seen \in Instances(d)
        /\ a \in DOMAIN s.seen.runs[i] /\ s.seen.runs[i][a] = "done" /\ Len(s.seen.runs[i]) <= Len(inst.runs[i])
    BY <1>1, <1>2 DEF SessionOK
  <2>2. c \notin late => s.seen = mine
    BY <1>1 DEF KnowsOK
  <2>3. s.seen \in InstanceType(d)
    BY <2>1 DEF Instances
  <2>4. DOMAIN inst.runs[i] = 1..Len(inst.runs[i]) /\ DOMAIN s.seen.runs[i] = 1..Len(s.seen.runs[i])
    BY <1>1, <2>3, Runs
  <2> QED BY <2>1, <2>2, <2>3, <2>4
<1>6. Alive(inst) \/ (overtaken /\ Concluding(d, inst))
  BY <1>3 DEF Inv
<1>7. \A j \in Stages(d) : GroupOf(d, j) \subseteq Stages(d) /\ j \in GroupOf(d, j)
  BY <1>1, Group
<1>8. Len(inst.runs[i]) \in Nat /\ Len(s.seen.runs[i]) \in Nat
  BY <1>1, <1>5, Runs
<1>9. CASE a # Len(inst.runs[i])
  <2>1. \A j \in Stages(d) : Latest(mine.runs, j) = Latest(inst.runs, j)
    BY <1>3, <1>9
  <2>2. CASE Alive(inst)
    BY <2>1, <2>2, <1>4 DEF Alive
  <2>3. CASE overtaken /\ Concluding(d, inst)
    BY <2>1, <2>3, <1>7 DEF Concluding
  <2> QED BY <1>6, <2>2, <2>3
<1>10. CASE a = Len(inst.runs[i])
  <2>1. Latest(mine.runs, i) = "done"
    BY <1>1, <1>3, <1>10
  <2>2. Grouped(d, Still(mine)) /\ Still(mine).inst = mine /\ Left(Still(mine).todo) = {}
    BY <1>1, <1>3, MineGrouped, StillFacts
  <2>3. Entered(d, Still(mine), i)
    BY <1>1, <1>7, <2>1, <2>2 DEF Grouped, Fresh
  <2>4. \A j \in GroupOf(d, i) : Latest(mine.runs, j) \in {"active", "done"}
    BY <2>2, <2>3 DEF Entered
  <2>5. CASE \E j \in GroupOf(d, i) : Latest(mine.runs, j) = "active"
    BY <2>5, <1>1, <1>4, <1>7 DEF Alive
  <2>6. CASE \A j \in GroupOf(d, i) : Latest(mine.runs, j) = "done"
    <3>1. c \in late
      BY <1>5, <2>6 DEF Undone
    <3>2. k # i
      <4>1. Len(s.seen.runs[i]) = a
        BY <1>5, <1>8, <1>10
      <4>2. Latest(s.seen.runs, i) = "done"
        BY <1>1, <1>5, <4>1, Runs
      <4> QED BY <4>2 DEF Undone
    <3>3. Cardinality(GroupOf(d, i)) > 1
      BY <1>1, <3>2, Several
    <3> QED BY <1>1, <2>6, <3>1, <3>3 DEF Concluding
  <2> QED BY <2>4, <2>5, <2>6
<1> QED BY <1>9, <1>10

LEMMA EffectAlive ==
    ASSUME Inv, NEW c \in Open, session[c].marked \/ session[c].op = "cancel", NEW x, x = Effect(session[c]),
           x.todo = <<>>, x.inst.status = "running"
    PROVE  Alive(x.inst) \/ ((overtaken \/ c \in late) /\ Concluding(definition, x.inst))
<1> DEFINE s == session[c]
           d == definition
           mine == Concluded(inst, s)
<1>1. /\ d \in Definitions /\ inst \in Instances(d) /\ inst \in InstanceType(d) /\ s.stage \in Stages(d)
      /\ s.op # "cancel" => SessionOK(c)
  BY OpenSession
<1>2. s.op # "cancel" => mine \in Instances(d) /\ mine.status = inst.status
  BY Mine
<1>3. s.op # "cancel" => mine \in InstanceType(d)
  BY <1>2 DEF Instances
<1>4. \/ s.op = "cancel" /\ x = Still(Cancelled(inst))
      \/ /\ s.op \in {"submit", "approve"} /\ s.marked /\ s.exit \in Matching(d[s.stage])
         /\ x = Advance(d, mine, s.seen, s.stage, s.exit)
      \/ s.op = "reject" /\ d[s.stage].rejectTo # None /\ x = SentBack(d, mine, s.stage)
      \/ s.op = "reject" /\ x = Still(Complete(mine, "rejected"))
  BY EffectCases
<1>5. x # Still(Cancelled(inst))
  BY <1>1, CancelledFacts, StillFacts
<1>6. ~ (s.op = "reject" /\ x = Still(Complete(mine, "rejected")))
  <2> SUFFICES ASSUME s.op = "reject", x = Still(Complete(mine, "rejected")) PROVE FALSE
    OBVIOUS
  <2>1. Complete(mine, "rejected").status = "completed"
    BY <1>1, <1>3, CompleteFacts
  <2> QED BY <2>1 DEF Still
<1>7. ~ (s.op = "reject" /\ d[s.stage].rejectTo # None /\ x = SentBack(d, mine, s.stage))
  <2>1. /\ Grouped(d, Still(inst))
        /\ s.op # "cancel" => \A j \in Stages(d) \ {s.stage} : mine.runs[j] = inst.runs[j]
    BY Mine DEF Inv
  <2> HIDE DEF mine
  <2> QED BY <1>1, <1>2, <2>1, SentBackGrouped
<1> HIDE DEF s, d, mine
<1>8. /\ s.op \in {"submit", "approve"} /\ s.marked /\ s.exit \in Matching(d[s.stage])
      /\ x = Advance(d, mine, s.seen, s.stage, s.exit)
  BY <1>4, <1>5, <1>6, <1>7
<1>9. s.seen \in Instances(d) /\ s.seen \in InstanceType(d) /\ (s.seen.status # "running" => inst.status # "running")
  BY <1>1, <1>8 DEF SessionOK, Instances, s, d
<1>10. \/ s.seen.status # "running" /\ x = Still(mine)
       \/ (\E k \in GroupOf(d, s.stage) : Undone(s.seen, k)) /\ x = Still(Waiting(mine, s.seen, s.stage))
       \/ x = Still(Complete(mine, "completed"))
       \/ \E h \in Stages(d) : x = Activating(d, mine, h)
  BY <1>1, <1>8, AdvanceForms
<1>11. ~ (s.seen.status # "running" /\ x = Still(mine))
  BY <1>2, <1>8, <1>9 DEF Still
<1>12. x # Still(Complete(mine, "completed"))
  <2>1. Complete(mine, "completed").status = "completed"
    BY <1>1, <1>3, <1>8, CompleteFacts
  <2> QED BY <2>1 DEF Still
<1>13. \A h \in Stages(d) : x # Activating(d, mine, h)
  BY <1>1, ActivatingFacts
<1>14. CASE (\E k \in GroupOf(d, s.stage) : Undone(s.seen, k)) /\ x = Still(Waiting(mine, s.seen, s.stage))
  <2> DEFINE new == Waiting(mine, s.seen, s.stage)
             cur == s.seen.current \ {s.stage}
  <2>1. cur \in SUBSET Stages(d)
    BY <1>9 DEF InstanceType
  <2>2. new.status = mine.status /\ new.runs = mine.runs
    <3>1. new = [mine EXCEPT !.current = cur]
      BY DEF Waiting
    <3> HIDE DEF cur, new
    <3> QED BY <1>1, <1>2, <1>8, <2>1, <3>1, CurrentFacts
  <2> HIDE DEF new
  <2>3. x.inst = new
    BY <1>14 DEF Still, new
  <2>4. mine.status = "running"
    BY <2>2, <2>3
  <2>5. Alive(mine) \/ ((overtaken \/ c \in late) /\ Concluding(d, mine))
    BY <1>8, <1>14, <2>4, WaitingAlive DEF s, d, mine
  <2>6. CASE Alive(mine)
    BY <2>2, <2>3, <2>6 DEF Alive
  <2>7. CASE (overtaken \/ c \in late) /\ Concluding(d, mine)
    BY <2>2, <2>3, <2>7 DEF Concluding, d
  <2> QED BY <2>5, <2>6, <2>7
<1> QED BY <1>10, <1>11, <1>12, <1>13, <1>14

-------------------------------------------------------------------------------
(* An instance that is over is at rest *)

LEMMA AdvanceResting ==
    ASSUME NEW d \in Definitions, NEW st \in Instances(d), st.status = "running",
           NEW seen \in InstanceType(d), seen.status = "running",
           NEW i \in Stages(d), NEW exit \in Matching(d[i]), NEW x, x = Advance(d, st, seen, i, exit)
    PROVE  Resting(x) /\ InGroup(d, x)
<1>1. st \in InstanceType(d)
  BY DEF Instances
<1>2. \/ x = Still(Waiting(st, seen, i))
      \/ x = Still(Complete(st, "completed"))
      \/ \E h \in Stages(d) : x = Activating(d, st, h)
  BY AdvanceForms
<1>3. \A y : Still(y).inst = y /\ Still(y).todo = <<>> /\ InGroup(d, Still(y))
  BY DEF Still, InGroup
<1>4. CASE x = Still(Waiting(st, seen, i))
  <2> DEFINE cur == seen.current \ {i}
             new == Waiting(st, seen, i)
  <2>1. new.status = st.status
    <3>1. cur \in SUBSET Stages(d)
      BY DEF InstanceType
    <3>2. new = [st EXCEPT !.current = cur]
      BY DEF Waiting
    <3> HIDE DEF cur, new
    <3> QED BY <3>1, <3>2, CurrentFacts
  <2> HIDE DEF new
  <2> QED BY <1>3, <1>4, <2>1 DEF Resting, new
<1>5. CASE x = Still(Complete(st, "completed"))
  <2>1. Quiet(Complete(st, "completed")) /\ Complete(st, "completed").current = {}
    BY <1>1, CompleteFacts
  <2> QED BY <1>3, <1>5, <2>1 DEF Resting
<1>6. ASSUME NEW h \in Stages(d), x = Activating(d, st, h) PROVE Resting(x) /\ InGroup(d, x)
  <2>1. x.inst.status = st.status
    BY <1>6, ActivatingSound
  <2>2. InGroup(d, x)
    BY <1>6, ActivatingFacts DEF InGroup
  <2> QED BY <2>1, <2>2 DEF Resting
<1> QED BY <1>2, <1>4, <1>5, <1>6

\* Where no group has an automatic stage, an automatic stage is the last to activate.
LEMMA TurnResting ==
    ASSUME NEW d \in Definitions, NEW s \in Chains(d), s.todo # <<>>, Automatic(d) = {}, Resting(s), InGroup(d, s)
    PROVE  Resting(Turn(d, s)) /\ InGroup(d, Turn(d, s))
<1> DEFINE i == Head(s.todo)
           rest == Tail(s.todo)
           done == Opened(s.inst, i, "done")
           open == Opened(s.inst, i, "active")
           x == Turn(d, s)
<1>1. /\ s.todo \in Seq(Stages(d)) /\ s.inst \in Instances(d)
      /\ i \in Stages(d) /\ rest \in Seq(Stages(d)) /\ Len(rest) = Len(s.todo) - 1 /\ i = s.todo[1]
      /\ \A n \in 1..Len(rest) : rest[n] = s.todo[n + 1]
  BY LeftFacts DEF Chains
<1>2. /\ open \in Instances(d) /\ open.status = s.inst.status
      /\ done \in Instances(d) /\ done.status = s.inst.status
  <2>0. i \in Stages(d) /\ s.inst \in Instances(d)
    BY <1>1
  <2> HIDE DEF i
  <2>1. open \in Instances(d) /\ open.status = s.inst.status
    BY <2>0, OpenedLatest DEF IsOpened
  <2>2. done \in Instances(d) /\ done.status = s.inst.status
    BY <2>0, OpenedLatest DEF IsOpened
  <2> QED BY <2>1, <2>2
<1>3. s.inst.status = "running"
  BY DEF Resting
<1>4. \/ d[i].type # "auto" /\ x = [inst |-> open, todo |-> rest]
      \/ /\ d[i].type = "auto"
         /\ \E exit \in Matching(d[i]) :
              x = [inst |-> Advance(d, done, done, i, exit).inst,
                   todo |-> Advance(d, done, done, i, exit).todo \o rest]
  BY TurnCases
<1>5. Len(s.todo) \in Nat \ {0} /\ Len(rest) \in Nat /\ (Len(rest) = 0 => rest = <<>>)
  <2>1. Len(s.todo) \in Nat \ {0}
    BY <1>1
  <2> HIDE DEF rest
  <2> QED BY <1>1, <2>1
<1> HIDE DEF i, rest, done, open, x
<1>6. CASE x = [inst |-> open, todo |-> rest]
  <2>1. x.inst.status = "running" /\ x.todo = rest
    BY <1>2, <1>3, <1>6
  <2>2. ASSUME Len(rest) > 1, NEW n \in DOMAIN rest PROVE Parallel(d, rest[n])
    <3>1. n + 1 \in DOMAIN s.todo /\ rest[n] = s.todo[n + 1] /\ Len(s.todo) > 1
      BY <1>1, <1>5, <2>2
    <3> QED BY <3>1 DEF InGroup
  <2> QED BY <2>1, <2>2 DEF Resting, InGroup, x
<1>7. ASSUME NEW exit \in Matching(d[i]), d[i].type = "auto",
             x = [inst |-> Advance(d, done, done, i, exit).inst, todo |-> Advance(d, done, done, i, exit).todo \o rest]
      PROVE  Resting(x) /\ InGroup(d, x)
  <2> DEFINE after == Advance(d, done, done, i, exit)
  <2>1. ~Parallel(d, i)
    BY <1>1, <1>7 DEF Automatic
  <2>2. rest = <<>>
    <3>1. 1 \in DOMAIN s.todo
      BY <1>1, <1>5
    <3>2. ~ (Len(s.todo) > 1)
      BY <2>1, <3>1, <1>1 DEF InGroup
    <3> QED BY <3>2, <1>1, <1>5
  <2>3. done \in InstanceType(d)
    BY <1>2 DEF Instances
  <2>4. after \in Chains(d) /\ Resting(after) /\ InGroup(d, after)
    BY <1>1, <1>2, <1>3, <1>7, <2>3, AdvanceSound, AdvanceResting
  <2> HIDE DEF after
  <2>5. after.todo \in Seq(Stages(d)) /\ x = [inst |-> after.inst, todo |-> after.todo \o <<>>]
    BY <1>7, <2>2, <2>4 DEF after, Chains
  <2>6. x.inst = after.inst /\ x.todo = after.todo
    BY <2>5
  <2> QED BY <2>4, <2>6 DEF Resting, InGroup
<1> QED BY <1>4, <1>6, <1>7 DEF x

LEMMA SettledResting ==
    ASSUME NEW d \in Definitions, NEW s \in Chains(d), Automatic(d) = {}, Resting(s), InGroup(d, s)
    PROVE  Resting(Settled(d, s))
<1> DEFINE T == {x \in Chains(d) : Resting(x) /\ InGroup(d, x)}
<1>1. s \in T
  OBVIOUS
<1>2. ASSUME NEW x \in T PROVE Turn(d, x) \in T
  <2>1. CASE x.todo = <<>>
    BY <2>1 DEF Turn
  <2>2. CASE x.todo # <<>>
    BY <2>2, TurnSound, TurnResting
  <2> QED BY <2>1, <2>2
<1>3. Settled(d, s) \in T
  <2> HIDE DEF T
  <2> QED BY <1>1, <1>2, SettledKeeps
<1> QED BY <1>3

\* What a request that no commit has overtaken may do.
LEMMA FreshEffect ==
    ASSUME Inv, NEW c \in Open \ late, session[c].marked \/ session[c].op = "cancel", Resting(Still(inst)),
           NEW s, s = session[c], NEW mine, mine = Concluded(inst, s), NEW x, x = Effect(s)
    PROVE  \/ x = Still(Cancelled(inst))
           \/ /\ inst.status = "running" /\ s.op # "cancel"
              /\ inst.runs[s.stage][s.attempt] = "active" /\ s.attempt \in DOMAIN inst.runs[s.stage]
              /\ \/ /\ s.exit \in Matching(definition[s.stage]) /\ Outcome(s.op) = "done"
                    /\ x = Advance(definition, mine, mine, s.stage, s.exit)
                 \/ s.op = "reject" /\ definition[s.stage].rejectTo # None /\ x = SentBack(definition, mine, s.stage)
                 \/ s.op = "reject" /\ x = Still(Complete(mine, "rejected"))
<1>1. /\ definition \in Definitions /\ inst \in InstanceType(definition) /\ s.stage \in Stages(definition)
      /\ s.op # "cancel" => SessionOK(c)
      /\ KnowsOK(c)
  BY OpenSession
<1>2. \/ s.op = "cancel" /\ x = Still(Cancelled(inst))
      \/ /\ s.op \in {"submit", "approve"} /\ Outcome(s.op) = "done" /\ s.marked
         /\ s.exit \in Matching(definition[s.stage])
         /\ x = Advance(definition, mine, s.seen, s.stage, s.exit)
      \/ s.op = "reject" /\ definition[s.stage].rejectTo # None /\ x = SentBack(definition, mine, s.stage)
      \/ s.op = "reject" /\ x = Still(Complete(mine, "rejected"))
  BY EffectCases
<1>3. ASSUME s.op # "cancel"
      PROVE  /\ inst.runs[s.stage][s.attempt] = "active" /\ s.attempt \in DOMAIN inst.runs[s.stage]
             /\ s.marked => s.seen = mine
  BY <1>1, <1>3 DEF SessionOK, KnowsOK
<1>4. ASSUME s.op # "cancel" PROVE inst.status = "running"
  <2>1. DOMAIN inst.runs = Stages(definition) /\ Still(inst).inst = inst
    BY <1>1, Runs DEF Still
  <2> QED BY <1>1, <1>3, <1>4, <2>1 DEF Resting, Quiet
<1> QED BY <1>2, <1>3, <1>4

LEMMA CommitResting ==
    ASSUME Inv, NEW c \in Open \ late, session[c].marked \/ session[c].op = "cancel", ~overtaken,
           Automatic(definition) = {}
    PROVE  Resting(Settled(definition, Effect(session[c])))
<1> DEFINE s == session[c]
           d == definition
           mine == Concluded(inst, s)
           x == Effect(s)
<1>1. Resting(Still(inst))
  BY DEF Inv
<1>2. /\ d \in Definitions /\ inst \in Instances(d) /\ inst \in InstanceType(d) /\ s.stage \in Stages(d)
      /\ x \in Chains(d)
  BY OpenSession, EffectSound
<1>3. s.op # "cancel" => mine \in Instances(d) /\ mine.status = inst.status
  BY Mine
<1>4. s.op # "cancel" => mine \in InstanceType(d)
  BY <1>3 DEF Instances
<1>5. \/ x = Still(Cancelled(inst))
      \/ /\ inst.status = "running" /\ s.op # "cancel"
         /\ \/ s.exit \in Matching(d[s.stage]) /\ x = Advance(d, mine, mine, s.stage, s.exit)
            \/ s.op = "reject" /\ d[s.stage].rejectTo # None /\ x = SentBack(d, mine, s.stage)
            \/ s.op = "reject" /\ x = Still(Complete(mine, "rejected"))
  BY <1>1, FreshEffect
<1>6. \A y : Still(y).inst = y /\ Still(y).todo = <<>> /\ InGroup(d, Still(y))
  BY DEF Still, InGroup
<1> HIDE DEF s, mine, x
<1>7. CASE x = Still(Cancelled(inst))
  <2>1. Quiet(Cancelled(inst)) /\ Cancelled(inst).current = {}
    BY <1>2, CancelledFacts
  <2>2. Resting(x) /\ InGroup(d, x)
    BY <1>6, <1>7, <2>1 DEF Resting
  <2> QED BY <1>2, <2>2, SettledResting DEF x, s
<1>8. CASE s.op # "cancel" /\ x = Still(Complete(mine, "rejected"))
  <2>1. Quiet(Complete(mine, "rejected")) /\ Complete(mine, "rejected").current = {}
    BY <1>2, <1>4, <1>8, CompleteFacts
  <2>2. Resting(x) /\ InGroup(d, x)
    BY <1>6, <1>8, <2>1 DEF Resting
  <2> QED BY <1>2, <2>2, SettledResting DEF x, s
<1>9. CASE /\ inst.status = "running" /\ s.op # "cancel" /\ s.exit \in Matching(d[s.stage])
           /\ x = Advance(d, mine, mine, s.stage, s.exit)
  <2>1. Resting(x) /\ InGroup(d, x)
    BY <1>2, <1>3, <1>4, <1>9, AdvanceResting
  <2> QED BY <1>2, <2>1, SettledResting DEF x, s
<1>10. CASE /\ inst.status = "running" /\ s.op # "cancel" /\ d[s.stage].rejectTo # None
            /\ x = SentBack(d, mine, s.stage)
  <2> DEFINE new == Replanned(d, mine, s.stage)
  <2>1. x = Activating(d, new, d[s.stage].rejectTo)
    BY <1>10 DEF SentBack, Replanned
  <2>2. new \in Instances(d) /\ new.status = mine.status
    BY <1>2, <1>3, <1>10, PlannedFacts
  <2>3. d[s.stage].rejectTo \in Stages(d)
    BY <1>2, <1>10, Definition
  <2> HIDE DEF new
  <2>4. x.inst.status = "running"
    BY <1>2, <1>3, <1>10, <2>1, <2>2, <2>3, ActivatingSound
  <2>5. InGroup(d, x)
    BY <1>2, <2>1, <2>3, ActivatingFacts DEF InGroup
  <2>6. Resting(x)
    BY <2>4 DEF Resting
  <2> QED BY <1>2, <2>5, <2>6, SettledResting DEF x, s
<1> QED BY <1>5, <1>7, <1>8, <1>9, <1>10

-------------------------------------------------------------------------------
(* The work is in one group *)

\* The stage i of the group at work has just been concluded, t is left to activate.
DoneAt(d, st, t, g, i) ==
  /\ i \in st.current /\ st.current \subseteq GroupOf(d, g)
  /\ Left(t) \subseteq st.current \ {i}
  /\ Active(st) = (st.current \ Left(t)) \ {i}
  /\ Latest(st.runs, i) = "done"
  /\ \A j \in GroupOf(d, g) \ st.current : Latest(st.runs, j) = "done"
  /\ \A n, m \in DOMAIN t : n < m => t[n] < t[m]
  /\ \A a \in GroupOf(d, g) \cap Automatic(d) : \A j \in Left(t) : Undone(st, j)
  /\ \A a \in Automatic(d) : Beyond(d, g, a) => \A j \in GroupOf(d, a) : Undone(st, j)
  /\ t # <<>> => d[i].type = "auto" /\ Parallel(d, i)
  /\ ActiveLast(st)

\* The latest attempt at a stage in work is the active one.
LEMMA ActiveFacts ==
    ASSUME NEW d \in Definitions, NEW st \in InstanceType(d), ActiveLast(st)
    PROVE  /\ Active(st) = {j \in Stages(d) : Latest(st.runs, j) = "active"}
           /\ \A j \in Active(st) : RunsIn(st.runs, j, "active") = {Len(st.runs[j])}
<1>1. DOMAIN st.runs = Stages(d)
  BY Runs
<1>2. ASSUME NEW j \in Stages(d)
      PROVE  /\ Len(st.runs[j]) \in DOMAIN st.runs[j] /\ Latest(st.runs, j) = st.runs[j][Len(st.runs[j])]
             /\ RunsIn(st.runs, j, "active") \subseteq {Len(st.runs[j])}
  <2>1. Len(st.runs[j]) \in Nat \ {0} /\ DOMAIN st.runs[j] = 1..Len(st.runs[j])
    BY Runs
  <2>2. Latest(st.runs, j) = st.runs[j][Len(st.runs[j])]
    BY Runs
  <2>3. RunsIn(st.runs, j, "active") \subseteq {Len(st.runs[j])}
    BY <1>1 DEF ActiveLast, RunsIn
  <2> QED BY <2>1, <2>2, <2>3
<1>3. \A j \in Stages(d) : (RunsIn(st.runs, j, "active") # {} <=> Latest(st.runs, j) = "active")
  BY <1>2 DEF RunsIn
<1>4. Active(st) = {j \in Stages(d) : RunsIn(st.runs, j, "active") # {}}
  BY <1>1 DEF Active
<1> QED BY <1>2, <1>3, <1>4

LEMMA AdvanceFront ==
    ASSUME NEW d \in Definitions, Plain(d), NEW st \in Instances(d), st.status = "running",
           NEW t \in Seq(Stages(d)), NEW g \in Stages(d), NEW i \in Stages(d), DoneAt(d, st, t, g, i),
           NEW exit \in Matching(d[i]), NEW x, x = Advance(d, st, st, i, exit),
           NEW y, y.inst = x.inst, y.todo = x.todo \o t
    PROVE  OneGroup(d, y)
<1>1. st \in InstanceType(d) /\ DOMAIN st.runs = Stages(d)
  BY Runs DEF Instances
<1>2. GroupOf(d, i) = GroupOf(d, g) /\ GroupOf(d, g) \subseteq Stages(d) /\ g \in GroupOf(d, g)
  BY Group DEF DoneAt
<1>3. i \in st.current /\ i \in GroupOf(d, g) /\ Left(t) \subseteq st.current \ {i}
  BY DEF DoneAt
<1>4. Parallel(d, i) => exit = NoExit
  <2>1. exit \in d[i].exits \cup {NoExit}
    BY ExitFacts
  <2> QED BY <2>1 DEF Plain, Leaves
<1>5. ASSUME exit # NoExit \/ Over(d, st, i)
      PROVE  t = <<>> /\ Active(st) = {}
  <2>1. CASE ~Parallel(d, i)
    <3>1. t = <<>>
      BY <2>1 DEF DoneAt
    <3>2. GroupOf(d, g) = {i}
      BY <1>2, <2>1, Group
    <3>3. Active(st) = {}
      BY <3>2 DEF DoneAt
    <3> QED BY <3>1, <3>3
  <2>2. CASE Parallel(d, i)
    <3>1. \A j \in GroupOf(d, g) : ~Undone(st, j)
      BY <1>2, <1>4, <1>5, <2>2 DEF Over
    <3>2. t = <<>>
      <4>1. SUFFICES ASSUME t # <<>> PROVE FALSE
        OBVIOUS
      <4>2. i \in Automatic(d)
        BY <2>2, <4>1 DEF DoneAt, Automatic
      <4>3. PICK j \in Left(t) : TRUE
        BY <4>1, LeftFacts
      <4>4. Undone(st, j)
        BY <1>3, <4>2 DEF DoneAt
      <4>5. j \in GroupOf(d, g)
        BY <1>3 DEF DoneAt
      <4> QED BY <3>1, <4>4, <4>5
    <3>3. Active(st) \subseteq GroupOf(d, g)
      BY DEF DoneAt
    <3>4. \A j \in Active(st) : Undone(st, j)
      BY <1>1, ActiveFacts DEF DoneAt, Undone
    <3> QED BY <3>1, <3>2, <3>3, <3>4
  <2> QED BY <2>1, <2>2
<1>6. \A s : s \in Seq(Stages(d)) => s \o <<>> = s /\ <<>> \o s = s
  OBVIOUS
<1>7. CASE (\E j \in GroupOf(d, i) : Undone(st, j)) /\ x = Still(Waiting(st, st, i))
  <2> DEFINE cur == st.current \ {i}
             new == Waiting(st, st, i)
  <2>1. new.status = st.status /\ new.runs = st.runs /\ new.current = cur
    <3>1. cur \in SUBSET Stages(d)
      BY <1>1 DEF InstanceType
    <3>2. new = [st EXCEPT !.current = cur]
      BY DEF Waiting
    <3> HIDE DEF cur, new
    <3> QED BY <3>1, <3>2, CurrentFacts
  <2> HIDE DEF new
  <2>2. y.inst = new /\ y.todo = t
    <3>1. x.inst = new /\ x.todo = <<>>
      BY <1>7 DEF Still, new
    <3> QED BY <3>1, <1>6
  <2>3. PICK j \in GroupOf(d, g) : Undone(st, j)
    BY <1>2, <1>7
  <2>4. j \in cur
    BY <2>3 DEF DoneAt, Undone
  <2>5. Active(new) = Active(st)
    BY <2>1 DEF Active
  <2>6. \A k : Undone(new, k) <=> Undone(st, k)
    BY <2>1 DEF Undone
  <2>7. AtWork(d, y, g)
    <3>1. y.inst.current # {} /\ y.inst.current \subseteq GroupOf(d, g)
      BY <2>1, <2>2, <2>4 DEF DoneAt
    <3>2. Left(y.todo) \subseteq y.inst.current
      BY <1>3, <2>1, <2>2
    <3>3. Active(y.inst) = y.inst.current \ Left(y.todo)
      BY <2>1, <2>2, <2>5 DEF DoneAt
    <3>4. \A k \in GroupOf(d, g) \ y.inst.current : Latest(y.inst.runs, k) = "done"
      BY <2>1, <2>2 DEF DoneAt
    <3>5. \A n, m \in DOMAIN y.todo : n < m => y.todo[n] < y.todo[m]
      BY <2>2 DEF DoneAt
    <3>6. /\ \A k \in GroupOf(d, g) \cap Automatic(d) : \A m \in Left(y.todo) : Undone(y.inst, m)
          /\ \A k \in Automatic(d) : Beyond(d, g, k) => \A m \in GroupOf(d, k) : Undone(y.inst, m)
      BY <2>2, <2>6 DEF DoneAt
    <3> QED BY <3>1, <3>2, <3>3, <3>4, <3>5, <3>6 DEF AtWork
  <2>8. ActiveLast(y.inst)
    BY <2>1, <2>2 DEF ActiveLast, DoneAt
  <2>9. y.inst.status = "running"
    BY <2>1, <2>2
  <2> QED BY <2>7, <2>8, <2>9 DEF OneGroup, Resting
<1>8. CASE (exit # NoExit \/ Over(d, st, i)) /\ x = Still(Complete(st, "completed"))
  <2> DEFINE new == Complete(st, "completed")
  <2>1. new.status = "completed" /\ Quiet(new) /\ new.current = {}
    BY <1>1, CompleteFacts
  <2> HIDE DEF new
  <2>2. y.inst = new /\ y.todo = <<>>
    <3>1. x.inst = new /\ x.todo = <<>>
      BY <1>8 DEF Still, new
    <3> QED BY <3>1, <1>5, <1>6, <1>8
  <2> QED BY <2>1, <2>2 DEF OneGroup, Resting, Quiet, ActiveLast
<1>9. ASSUME NEW h \in Stages(d), x = Activating(d, st, h), exit # NoExit \/ Over(d, st, i),
             h \in d[i].exits \/ Beyond(d, i, h)
      PROVE  OneGroup(d, y)
  <2>1. t = <<>> /\ Active(st) = {}
    BY <1>5, <1>9
  <2>2. x \in Chains(d) /\ x.inst.status = st.status /\ x.inst.runs = st.runs /\ x.inst.current = GroupOf(d, h)
    BY <1>9, ActivatingSound
  <2>3. Left(x.todo) = GroupOf(d, h) /\ \A n, m \in DOMAIN x.todo : n < m => x.todo[n] < x.todo[m]
    BY <1>9, ActivatingFacts
  <2>4. y.inst = x.inst /\ y.todo = x.todo
    <3>1. x.todo \in Seq(Stages(d))
      BY <2>2 DEF Chains
    <3> QED BY <3>1, <2>1, <1>6
  <2>5. h \in GroupOf(d, h) /\ GroupOf(d, h) \subseteq Stages(d) /\ Stages(d) \subseteq Nat
    BY Group, Definition
  <2>6. ASSUME NEW a \in Automatic(d), a \in GroupOf(d, h) \/ Beyond(d, h, a) PROVE Beyond(d, g, a)
    <3>1. a \in Stages(d)
      BY DEF Automatic
    <3>2. GroupOf(d, a) \subseteq Stages(d) /\ (a \in GroupOf(d, h) => GroupOf(d, a) = GroupOf(d, h))
      BY <3>1, Group
    <3>3. CASE h \in d[i].exits
      <4>1. ~Parallel(d, i)
        BY <3>3 DEF Plain, Leaves
      <4>2. GroupOf(d, g) = {i}
        BY <1>2, <4>1, Group
      <4>3. h # End
        BY ExitFacts
      <4>4. ASSUME NEW j \in GroupOf(d, a) PROVE i < j
        <5>1. \E m \in GroupOf(d, a) : h <= m
          <6>1. CASE a \in GroupOf(d, h)
            BY <6>1, <3>2, <2>5
          <6>2. CASE Beyond(d, h, a)
            BY <6>2, <2>5, <3>2, <4>4 DEF Beyond
          <6> QED BY <6>1, <6>2, <2>6
        <5>2. ~(j <= i)
          BY <3>3, <4>3, <5>1 DEF Plain, Returns
        <5> QED BY <5>2, <2>5, <3>2
      <4> QED BY <4>2, <4>4 DEF Beyond
    <3>4. CASE Beyond(d, i, h)
      <4>1. \A j \in GroupOf(d, g), k \in GroupOf(d, h) : j < k
        BY <1>2, <3>4 DEF Beyond
      <4>2. CASE a \in GroupOf(d, h)
        BY <3>2, <4>1, <4>2 DEF Beyond
      <4>3. CASE Beyond(d, h, a)
        <5>1. \A j \in GroupOf(d, g), k \in GroupOf(d, a) : j < h /\ h < k /\ j \in Nat /\ k \in Nat /\ h \in Nat
          BY <1>2, <2>5, <3>2, <4>1, <4>3 DEF Beyond
        <5> QED BY <5>1 DEF Beyond
      <4> QED BY <2>6, <4>2, <4>3
    <3> QED BY <1>9, <3>3, <3>4
  <2>7. \A a \in Automatic(d) : a \in GroupOf(d, h) \/ Beyond(d, h, a) => \A j \in GroupOf(d, a) : Undone(st, j)
    BY <2>6 DEF DoneAt
  <2>8. \A k : Undone(y.inst, k) <=> Undone(st, k)
    BY <2>2, <2>4 DEF Undone
  <2>9. AtWork(d, y, h)
    <3>1. y.inst.current # {} /\ y.inst.current \subseteq GroupOf(d, h) /\ Left(y.todo) \subseteq y.inst.current
      BY <2>2, <2>3, <2>4, <2>5
    <3>2. Active(y.inst) = y.inst.current \ Left(y.todo)
      BY <2>1, <2>2, <2>3, <2>4 DEF Active
    <3>3. \A k \in GroupOf(d, h) \ y.inst.current : Latest(y.inst.runs, k) = "done"
      BY <2>2, <2>4
    <3>4. \A n, m \in DOMAIN y.todo : n < m => y.todo[n] < y.todo[m]
      BY <2>3, <2>4
    <3>5. \A a \in GroupOf(d, h) \cap Automatic(d) : \A m \in Left(y.todo) : Undone(y.inst, m)
      <4>1. \A a \in GroupOf(d, h) : GroupOf(d, a) = GroupOf(d, h)
        BY Group
      <4> QED BY <4>1, <2>3, <2>4, <2>7, <2>8
    <3>6. \A a \in Automatic(d) : Beyond(d, h, a) => \A m \in GroupOf(d, a) : Undone(y.inst, m)
      BY <2>7, <2>8
    <3> QED BY <3>1, <3>2, <3>3, <3>4, <3>5, <3>6 DEF AtWork
  <2>10. ActiveLast(y.inst)
    BY <2>2, <2>4 DEF ActiveLast, DoneAt
  <2>11. y.inst.status = "running"
    BY <2>2, <2>4
  <2> QED BY <2>9, <2>10, <2>11 DEF OneGroup, Resting
<1>10. \/ (\E j \in GroupOf(d, i) : Undone(st, j)) /\ x = Still(Waiting(st, st, i))
       \/ (exit # NoExit \/ Over(d, st, i)) /\ x = Still(Complete(st, "completed"))
       \/ \E h \in Stages(d) : /\ x = Activating(d, st, h)
                               /\ exit # NoExit \/ Over(d, st, i)
                               /\ h \in d[i].exits \/ Beyond(d, i, h)
  BY AdvancePlaces
<1> QED BY <1>7, <1>8, <1>9, <1>10

\* Opening the first stage of those to activate: for somebody, or to conclude it at once.
LEMMA OpenedFront ==
    ASSUME NEW d \in Definitions, NEW s \in Chains(d), s.todo # <<>>, OneGroup(d, s),
           NEW g \in Stages(d), AtWork(d, s, g),
           NEW status \in {"active", "done"}
    PROVE  LET i == Head(s.todo)
               rest == Tail(s.todo)
               new == Opened(s.inst, i, status)
           IN /\ i \in Stages(d) /\ rest \in Seq(Stages(d)) /\ new \in Instances(d) /\ new.status = "running"
              /\ status = "active" => OneGroup(d, [inst |-> new, todo |-> rest])
              /\ status = "done" /\ d[i].type = "auto" => DoneAt(d, new, rest, g, i)
<1> DEFINE st == s.inst
           i == Head(s.todo)
           rest == Tail(s.todo)
           new == Opened(st, i, status)
<1>1. /\ s.todo \in Seq(Stages(d)) /\ st \in Instances(d)
      /\ i \in Stages(d) /\ rest \in Seq(Stages(d)) /\ Left(s.todo) = {i} \cup Left(rest)
  BY LeftFacts DEF Chains
<1>2. /\ Len(s.todo) \in Nat \ {0} /\ Len(rest) = Len(s.todo) - 1 /\ i = s.todo[1]
      /\ \A n \in 1..Len(rest) : rest[n] = s.todo[n + 1]
  <2>1. /\ Len(rest) = Len(s.todo) - 1 /\ i = s.todo[1]
        /\ \A n \in 1..Len(rest) : rest[n] = s.todo[n + 1]
    BY <1>1, LeftFacts
  <2>2. Len(s.todo) \in Nat \ {0}
    BY <1>1
  <2> QED BY <2>1, <2>2
<1>0. IsOpened(d, st, i, status, new)
  <2>1. st \in Instances(d) /\ i \in Stages(d)
    BY <1>1
  <2> HIDE DEF st, i
  <2> QED BY <2>1, OpenedLatest
<1>00. st.status = "running"
  BY DEF OneGroup, Resting
<1> HIDE DEF st, i, rest, new
<1>3. /\ new \in Instances(d) /\ new.status = "running" /\ new.current = st.current
      /\ \A j \in Stages(d) : Latest(new.runs, j) = IF j = i THEN status ELSE Latest(st.runs, j)
      /\ \A j \in Stages(d) \ {i} : new.runs[j] = st.runs[j]
  BY <1>0, <1>00 DEF IsOpened
<1>4. \A a \in 1..Len(new.runs[i]) : a # Len(new.runs[i]) => a \in 1..Len(st.runs[i]) /\ new.runs[i][a] = st.runs[i][a]
  BY <1>0 DEF IsOpened
<1>5. st \in InstanceType(d) /\ new \in InstanceType(d) /\ DOMAIN new.runs = Stages(d) /\ DOMAIN st.runs = Stages(d)
  BY <1>1, <1>3, Runs DEF Instances
<1>6. /\ st.current # {} /\ st.current \subseteq GroupOf(d, g) /\ Left(s.todo) \subseteq st.current
      /\ Active(st) = st.current \ Left(s.todo)
  BY DEF AtWork, st
<1>7. \A n, m \in DOMAIN s.todo : n < m => s.todo[n] < s.todo[m]
  BY DEF AtWork
<1>8. /\ i \notin Left(rest)
      /\ \A n, m \in DOMAIN rest : n < m => rest[n] < rest[m]
      /\ rest # <<>> => \E j \in Left(rest) : j # i
  <2>1. \A n \in 1..Len(rest) : n + 1 \in DOMAIN s.todo /\ rest[n] = s.todo[n + 1]
    BY <1>1, <1>2
  <2>2. 1 \in DOMAIN s.todo
    BY <1>1, <1>2
  <2>3. DOMAIN rest = 1..Len(rest)
    BY <1>1
  <2>4. \A n \in 1..Len(rest) : i < rest[n] /\ i \in Nat /\ rest[n] \in Nat
    <3>1. \A n \in 1..Len(rest) : i < rest[n]
      BY <1>2, <1>7, <2>1, <2>2
    <3>2. \A n \in 1..Len(rest) : rest[n] \in Stages(d)
      BY <1>1
    <3> QED BY <3>1, <3>2, <1>1, Definition
  <2>5. i \notin Left(rest)
    BY <2>3, <2>4 DEF Left
  <2>6. \A n, m \in 1..Len(rest) : n < m => rest[n] < rest[m]
    BY <1>2, <1>7, <2>1
  <2>7. ASSUME rest # <<>> PROVE \E j \in Left(rest) : j # i
    <3>1. Left(rest) # {}
      BY <1>1, <2>7, LeftFacts
    <3> QED BY <3>1, <2>5
  <2> QED BY <2>3, <2>5, <2>6, <2>7
<1>9. GroupOf(d, g) \subseteq Stages(d) /\ i \in GroupOf(d, g) /\ i \in st.current
      /\ \A a \in GroupOf(d, g) : GroupOf(d, a) = GroupOf(d, g)
  BY <1>1, <1>6, Group
<1>10. i \notin Active(st) /\ RunsIn(st.runs, i, "active") = {}
  BY <1>1, <1>5, <1>6 DEF Active
<1>12. ActiveLast(st)
  BY DEF st, OneGroup
<1>11. ActiveLast(new)
  <2> SUFFICES ASSUME NEW j \in Stages(d), NEW a \in DOMAIN new.runs[j], new.runs[j][a] = "active"
               PROVE  a = Len(new.runs[j])
    BY <1>5 DEF ActiveLast
  <2>1. CASE j = i
    <3>1. SUFFICES ASSUME a # Len(new.runs[j]) PROVE FALSE
      OBVIOUS
    <3>2. a \in DOMAIN st.runs[i] /\ st.runs[i][a] = "active"
      <4>1. DOMAIN new.runs[i] = 1..Len(new.runs[i]) /\ DOMAIN st.runs[i] = 1..Len(st.runs[i])
        BY <1>0, <1>5, Runs
      <4> QED BY <2>1, <3>1, <1>4, <4>1
    <3> QED BY <3>2, <1>10 DEF RunsIn
  <2>2. CASE j # i
    BY <2>2, <1>3, <1>5, <1>12 DEF ActiveLast
  <2> QED BY <2>1, <2>2
<1>13. /\ Active(st) = {j \in Stages(d) : Latest(st.runs, j) = "active"}
       /\ Active(new) = {j \in Stages(d) : Latest(new.runs, j) = "active"}
  BY <1>5, <1>11, <1>12, ActiveFacts
<1>14. \A j \in Stages(d) : j # i => (Undone(new, j) <=> Undone(st, j))
  BY <1>3 DEF Undone
<1>15. \A j \in GroupOf(d, g) \ new.current : Latest(new.runs, j) = "done"
  BY <1>3, <1>9 DEF AtWork, st
<1>16. \A a \in GroupOf(d, g) \cap Automatic(d) : \A j \in Left(rest) : Undone(new, j)
  <2>1. \A a \in GroupOf(d, g) \cap Automatic(d) : \A j \in Left(s.todo) : Undone(st, j)
    BY DEF AtWork, st
  <2>2. \A j \in Left(rest) : j \in Left(s.todo) /\ j # i /\ j \in Stages(d)
    BY <1>1, <1>6, <1>8, <1>9
  <2> QED BY <2>1, <2>2, <1>14
<1>17. \A a \in Automatic(d) : Beyond(d, g, a) => \A j \in GroupOf(d, a) : Undone(new, j)
  <2> SUFFICES ASSUME NEW a \in Automatic(d), Beyond(d, g, a), NEW j \in GroupOf(d, a) PROVE Undone(new, j)
    OBVIOUS
  <2>1. Undone(st, j)
    BY DEF AtWork, st
  <2>2. j \in Stages(d)
    BY Group DEF Automatic
  <2>3. j # i
    <3>1. i < j /\ i \in Nat /\ j \in Nat
      BY <1>1, <1>9, <2>2, Definition DEF Beyond
    <3> QED BY <3>1
  <2> QED BY <2>1, <2>2, <2>3, <1>14
<1>18. ASSUME status = "active" PROVE OneGroup(d, [inst |-> new, todo |-> rest])
  <2> DEFINE y == [inst |-> new, todo |-> rest]
  <2>1. y.inst = new /\ y.todo = rest
    OBVIOUS
  <2> HIDE DEF y
  <2>2. Active(new) = new.current \ Left(rest)
    <3>1. Active(new) = Active(st) \cup {i}
      BY <1>1, <1>3, <1>13, <1>18
    <3> QED BY <3>1, <1>1, <1>3, <1>6, <1>8, <1>9
  <2>3. Left(rest) \subseteq new.current /\ new.current # {} /\ new.current \subseteq GroupOf(d, g)
    BY <1>1, <1>3, <1>6
  <2>4. AtWork(d, y, g)
    BY <2>1, <2>2, <2>3, <1>8, <1>15, <1>16, <1>17 DEF AtWork
  <2> QED BY <2>1, <2>4, <1>3, <1>11 DEF OneGroup, Resting, y
<1>19. ASSUME status = "done", d[i].type = "auto" PROVE DoneAt(d, new, rest, g, i)
  <2>1. Active(new) = (new.current \ Left(rest)) \ {i}
    <3>1. Active(new) = Active(st)
      BY <1>1, <1>3, <1>10, <1>13, <1>19
    <3> QED BY <3>1, <1>1, <1>3, <1>6
  <2>2. i \in new.current /\ new.current \subseteq GroupOf(d, g) /\ Left(rest) \subseteq new.current \ {i}
    BY <1>1, <1>3, <1>6, <1>8, <1>9
  <2>3. Latest(new.runs, i) = "done"
    BY <1>1, <1>3, <1>19
  <2>4. rest # <<>> => Parallel(d, i)
    <3>1. ASSUME NEW j \in Left(rest), j # i PROVE Parallel(d, i)
      <4>1. j \in GroupOf(d, g) /\ GroupOf(d, i) = GroupOf(d, g)
        BY <1>1, <1>6, <1>9, <3>1
      <4> QED BY <4>1, <3>1, <1>1, Group
    <3> QED BY <3>1, <1>8
  <2> QED BY <2>1, <2>2, <2>3, <2>4, <1>8, <1>11, <1>15, <1>16, <1>17, <1>19 DEF DoneAt
<1> QED BY <1>1, <1>3, <1>18, <1>19 DEF st, i, rest, new

LEMMA TurnFront ==
    ASSUME NEW d \in Definitions, Plain(d), NEW s \in Chains(d), s.todo # <<>>, OneGroup(d, s)
    PROVE  OneGroup(d, Turn(d, s))
<1> DEFINE i == Head(s.todo)
           rest == Tail(s.todo)
           done == Opened(s.inst, i, "done")
           open == Opened(s.inst, i, "active")
           x == Turn(d, s)
<1>1. s.inst.status = "running" /\ ActiveLast(s.inst)
  BY DEF OneGroup, Resting
<1>2. PICK g \in Stages(d) : AtWork(d, s, g)
  BY <1>1 DEF OneGroup
<1>3. OneGroup(d, [inst |-> open, todo |-> rest])
  BY <1>2, OpenedFront
<1>4. /\ i \in Stages(d) /\ rest \in Seq(Stages(d)) /\ done \in Instances(d) /\ done.status = "running"
      /\ d[i].type = "auto" => DoneAt(d, done, rest, g, i)
  BY <1>2, OpenedFront
<1>5. \/ d[i].type # "auto" /\ x = [inst |-> open, todo |-> rest]
      \/ /\ d[i].type = "auto"
         /\ \E exit \in Matching(d[i]) :
              x = [inst |-> Advance(d, done, done, i, exit).inst,
                   todo |-> Advance(d, done, done, i, exit).todo \o rest]
  BY TurnCases
<1> HIDE DEF i, rest, done, open, x
<1>6. ASSUME NEW exit \in Matching(d[i]), d[i].type = "auto",
             x = [inst |-> Advance(d, done, done, i, exit).inst, todo |-> Advance(d, done, done, i, exit).todo \o rest]
      PROVE  OneGroup(d, x)
  <2> DEFINE after == Advance(d, done, done, i, exit)
  <2>1. x.inst = after.inst /\ x.todo = after.todo \o rest
    BY <1>6
  <2> QED BY <1>2, <1>4, <1>6, <2>1, AdvanceFront
<1> QED BY <1>3, <1>5, <1>6 DEF x

LEMMA SettledFront ==
    ASSUME NEW d \in Definitions, Plain(d), NEW s \in Chains(d), OneGroup(d, s)
    PROVE  OneGroup(d, Settled(d, s))
<1> DEFINE T == {x \in Chains(d) : OneGroup(d, x)}
<1>1. s \in T
  OBVIOUS
<1>2. ASSUME NEW x \in T PROVE Turn(d, x) \in T
  <2>1. CASE x.todo = <<>>
    BY <2>1 DEF Turn
  <2>2. CASE x.todo # <<>>
    BY <2>2, TurnSound, TurnFront
  <2> QED BY <2>1, <2>2
<1>3. Settled(d, s) \in T
  <2> HIDE DEF T
  <2> QED BY <1>1, <1>2, SettledKeeps
<1> QED BY <1>3

\* The instance with the own run concluded, where the run was active.
LEMMA MineFront ==
    ASSUME Inv, NEW c \in Open, session[c].op # "cancel", NEW s, s = session[c],
           s.attempt \in DOMAIN inst.runs[s.stage], inst.runs[s.stage][s.attempt] = "active",
           OneGroup(definition, Still(inst)), inst.status = "running",
           NEW mine, mine = Concluded(inst, s)
    PROVE  /\ s.stage \in inst.current /\ ActiveLast(mine) /\ Active(mine) = inst.current \ {s.stage}
           /\ Latest(mine.runs, s.stage) = Outcome(s.op)
           /\ \E g \in Stages(definition) : AtWork(definition, Still(inst), g)
<1> DEFINE d == definition
           i == s.stage
           a == s.attempt
<1>1. d \in Definitions /\ inst \in Instances(d) /\ inst \in InstanceType(d) /\ i \in Stages(d)
  BY OpenSession
<1>2. /\ mine \in Instances(d) /\ mine.status = inst.status
      /\ \A j \in Stages(d) \ {i} : mine.runs[j] = inst.runs[j]
      /\ mine.runs[i][a] = Outcome(s.op) /\ Len(mine.runs[i]) = Len(inst.runs[i])
      /\ \A b \in 1..Len(inst.runs[i]) : b # a => mine.runs[i][b] = inst.runs[i][b]
      /\ \A j \in Stages(d) : Latest(mine.runs, j) = IF j = i /\ a = Len(inst.runs[j])
                                                     THEN Outcome(s.op) ELSE Latest(inst.runs, j)
  BY Mine
<1>3. mine \in InstanceType(d) /\ DOMAIN mine.runs = Stages(d) /\ DOMAIN inst.runs = Stages(d)
  BY <1>1, <1>2, Runs DEF Instances
<1>4. DOMAIN inst.runs[i] = 1..Len(inst.runs[i]) /\ DOMAIN mine.runs[i] = 1..Len(inst.runs[i])
  BY <1>1, <1>2, <1>3, Runs
<1>5. Still(inst).inst = inst /\ Still(inst).todo = <<>> /\ Left(Still(inst).todo) = {}
  BY <1>1, StillFacts
<1>6. ActiveLast(inst) /\ a = Len(inst.runs[i])
  BY <1>1, <1>3, <1>5 DEF OneGroup, ActiveLast
<1>7. Outcome(s.op) # "active"
  BY DEF Outcome
<1>8. ActiveLast(mine)
  <2> SUFFICES ASSUME NEW j \in Stages(d), NEW b \in DOMAIN mine.runs[j], mine.runs[j][b] = "active"
               PROVE  b = Len(mine.runs[j])
    BY <1>3 DEF ActiveLast
  <2>1. CASE j = i
    <3>1. b # a /\ b \in 1..Len(inst.runs[i])
      BY <2>1, <1>2, <1>4, <1>7
    <3>2. inst.runs[i][b] = "active"
      BY <2>1, <3>1, <1>2
    <3> QED BY <3>1, <3>2, <1>1, <1>3, <1>4, <1>6 DEF ActiveLast
  <2>2. CASE j # i
    BY <2>2, <1>2, <1>3, <1>6 DEF ActiveLast
  <2> QED BY <2>1, <2>2
<1>9. /\ Active(inst) = {j \in Stages(d) : Latest(inst.runs, j) = "active"}
      /\ Active(mine) = {j \in Stages(d) : Latest(mine.runs, j) = "active"}
  BY <1>1, <1>3, <1>6, <1>8, ActiveFacts
<1>10. \E g \in Stages(d) : AtWork(d, Still(inst), g)
  BY <1>5 DEF OneGroup
<1>11. Active(inst) = inst.current
  BY <1>5, <1>10 DEF AtWork
<1>12. Latest(inst.runs, i) = "active"
  BY <1>1, <1>6, Runs
<1> HIDE DEF d, i, a
<1>13. i \in inst.current /\ Latest(mine.runs, i) = Outcome(s.op) /\ Active(mine) = inst.current \ {i}
  BY <1>1, <1>2, <1>6, <1>7, <1>9, <1>11, <1>12
<1> QED BY <1>8, <1>10, <1>13 DEF d, i

\* A rejection sends the work back to one group, with the later ones still to be entered.
LEMMA SentBackFront ==
    ASSUME NEW d \in Definitions, NEW st \in Instances(d), st.status = "running", ActiveLast(st), Active(st) = {},
           NEW i \in Stages(d), d[i].rejectTo # None,
           \A a \in Automatic(d) : Beyond(d, i, a) => \A j \in GroupOf(d, a) : Undone(st, j)
    PROVE  OneGroup(d, SentBack(d, st, i))
<1> DEFINE r == d[i].rejectTo
           new == Replanned(d, st, i)
           x == SentBack(d, st, i)
<1>1. x = Activating(d, new, r)
  BY DEF SentBack, Replanned
<1>2. new \in Instances(d) /\ new.status = st.status
  BY PlannedFacts
<1>3. \A j \in Stages(d) \ (Reopened(d, i) \cup Between(d, i)) : new.runs[j] = st.runs[j]
  BY PlannedFacts
<1>4. \A j \in Between(d, i) : Latest(new.runs, j) = "pending"
  BY PlannedFacts
<1>5. \A j \in Reopened(d, i) : Latest(new.runs, j) \notin {"done", "active"}
  BY PlannedFacts
<1>6. ASSUME NEW j \in Stages(d), NEW a \in DOMAIN new.runs[j] PROVE new.runs[j][a] # "active"
  <2>1. new.runs[j][a] = "active" => a \in DOMAIN st.runs[j] /\ st.runs[j][a] = "active"
    BY PlannedFacts
  <2>2. DOMAIN st.runs = Stages(d)
    BY Runs DEF Instances
  <2> HIDE DEF new
  <2> QED BY <2>1, <2>2 DEF Active, RunsIn
<1> HIDE DEF new
<1>7. r \in Stages(d) /\ Stages(d) \subseteq Nat /\ GroupOf(d, r) \subseteq Stages(d) /\ r \in GroupOf(d, r) /\ ~Parallel(d, i)
      /\ GroupOf(d, i) = {i} /\ r < i
  <2>1. r \in Stages(d) /\ Stages(d) \subseteq Nat /\ ~Parallel(d, i) /\ r < i
    BY Definition
  <2> HIDE DEF r
  <2> QED BY <2>1, Group
<1> HIDE DEF x, r
<1>8. /\ x \in Chains(d) /\ x.inst.status = "running" /\ x.inst.runs = new.runs /\ x.inst.current = GroupOf(d, r)
  BY <1>1, <1>2, <1>7, ActivatingSound
<1>9. Left(x.todo) = GroupOf(d, r) /\ \A n, m \in DOMAIN x.todo : n < m => x.todo[n] < x.todo[m]
  BY <1>1, <1>7, ActivatingFacts
<1>10. new \in InstanceType(d) /\ DOMAIN new.runs = Stages(d)
  BY <1>2, Runs DEF Instances
<1>11. ActiveLast(x.inst) /\ Active(x.inst) = {}
  BY <1>6, <1>8, <1>10 DEF ActiveLast, Active, RunsIn
<1>12. ASSUME NEW j \in GroupOf(d, r) PROVE Undone(x.inst, j)
  <2>1. Latest(new.runs, j) \notin {"done", "active"}
    BY <1>5 DEF Reopened, r
  <2>2. Latest(new.runs, j) # "skipped"
    <3>1. j \in Stages(d)
      BY <1>7
    <3>2. /\ Len(new.runs[j]) \in DOMAIN new.runs[j] /\ Latest(new.runs, j) = new.runs[j][Len(new.runs[j])]
      <4>1. Len(new.runs[j]) \in Nat \ {0} /\ DOMAIN new.runs[j] = 1..Len(new.runs[j])
        BY <1>10, <3>1, Runs
      <4>2. Latest(new.runs, j) = new.runs[j][Len(new.runs[j])]
        BY <1>10, <3>1, Runs
      <4> QED BY <4>1, <4>2
    <3>3. new.status = "running" /\ Unskipped(new)
      BY <1>2 DEF Instances
    <3> QED BY <3>1, <3>2, <3>3, <1>10 DEF Unskipped
  <2> QED BY <2>1, <2>2, <1>8 DEF Undone
<1>13. ASSUME NEW a \in Automatic(d), Beyond(d, r, a), NEW j \in GroupOf(d, a) PROVE Undone(x.inst, j)
  <2>1. a \in Stages(d) /\ Parallel(d, a)
    BY DEF Automatic
  <2>2. /\ GroupOf(d, a) \subseteq Stages(d) /\ a \in GroupOf(d, a) /\ \A k \in GroupOf(d, a) : Parallel(d, k)
    BY <2>1, Group
  <2>3. i \notin GroupOf(d, a)
    BY <2>2, <1>7
  <2>4. \A k \in GroupOf(d, a) : r < k /\ k \notin Reopened(d, i) /\ k \in Nat /\ k \in Stages(d)
    <3>1. \A k \in GroupOf(d, a) : k \notin GroupOf(d, r)
      <4> SUFFICES ASSUME NEW k \in GroupOf(d, a), k \in GroupOf(d, r) PROVE FALSE
        OBVIOUS
      <4>1. k < k /\ k \in Nat
        BY <1>7, <1>13 DEF Beyond
      <4> QED BY <4>1
    <3>2. \A k \in GroupOf(d, a) : r < k
      BY <1>7, <1>13 DEF Beyond
    <3> QED BY <3>1, <3>2, <2>2, <1>7 DEF Reopened, r
  <2>5. CASE j <= i
    <3>1. j \in Between(d, i)
      BY <2>4, <2>5, <1>7 DEF Between, r
    <3>2. Latest(new.runs, j) = "pending"
      BY <3>1, <1>4
    <3> QED BY <3>2, <1>8 DEF Undone
  <2>6. CASE ~(j <= i)
    <3>1. \A k \in GroupOf(d, a) : i < k
      <4> SUFFICES ASSUME NEW k \in GroupOf(d, a), k <= i PROVE FALSE
        BY <2>4, <1>7
      <4>1. i \in k..j
        BY <2>4, <2>6, <1>7
      <4>2. \A p, q \in GroupOf(d, a) : \A m \in p..q : m \in GroupOf(d, a)
        BY <2>1, DefinitionsAssumption DEF WellFormed
      <4> QED BY <4>1, <4>2, <2>3
    <3>2. Beyond(d, i, a)
      BY <3>1, <1>7 DEF Beyond
    <3>3. Undone(st, j)
      BY <3>2
    <3>4. j \in Stages(d) /\ j \notin Reopened(d, i) /\ j \notin Between(d, i)
      BY <2>4, <2>6, <1>7 DEF Between, r
    <3>5. x.inst.runs[j] = st.runs[j]
      BY <3>4, <1>3, <1>8
    <3> QED BY <3>3, <3>5 DEF Undone, Latest, Last
  <2> QED BY <2>5, <2>6
<1>14. AtWork(d, x, r)
  <2>1. x.inst.current # {} /\ x.inst.current \subseteq GroupOf(d, r) /\ Left(x.todo) \subseteq x.inst.current
    BY <1>7, <1>8, <1>9
  <2>2. Active(x.inst) = x.inst.current \ Left(x.todo)
    BY <1>8, <1>9, <1>11
  <2>3. \A j \in GroupOf(d, r) \ x.inst.current : Latest(x.inst.runs, j) = "done"
    BY <1>8
  <2>4. \A a \in GroupOf(d, r) \cap Automatic(d) : \A j \in Left(x.todo) : Undone(x.inst, j)
    BY <1>9, <1>12
  <2> QED BY <2>1, <2>2, <2>3, <2>4, <1>9, <1>13 DEF AtWork
<1> QED BY <1>7, <1>8, <1>11, <1>14 DEF OneGroup, Resting, x

LEMMA EndedFront ==
    ASSUME NEW d, NEW st, Quiet(st), st.current = {}, st.status # "running"
    PROVE  OneGroup(d, Still(st))
BY DEF OneGroup, Resting, ActiveLast, Quiet, Still

LEMMA LaunchedFront ==
    ASSUME NEW d \in Definitions
    PROVE  OneGroup(d, Launched(d))
<1> DEFINE x == Launched(d)
           run == <<"pending">>
<1>1. /\ x \in Chains(d) /\ x.inst.status = "running" /\ x.inst.current = GroupOf(d, 1) /\ 1 \in Stages(d)
      /\ Left(x.todo) = GroupOf(d, 1)
      /\ \A n, m \in DOMAIN x.todo : n < m => x.todo[n] < x.todo[m]
      /\ \A i \in Stages(d) : x.inst.runs[i] = run
  BY LaunchedGrouped
<1>2. Len(run) = 1 /\ DOMAIN run = {1} /\ run[1] = "pending"
  OBVIOUS
<1>3. DOMAIN x.inst.runs = Stages(d)
  BY <1>1, Runs DEF Chains, Instances
<1> HIDE DEF x, run
<1>4. Active(x.inst) = {} /\ ActiveLast(x.inst)
  BY <1>1, <1>2, <1>3 DEF Active, ActiveLast, RunsIn
<1>5. \A j \in Stages(d) : Undone(x.inst, j)
  BY <1>1, <1>2 DEF Undone, Latest, Last
<1>6. \A j \in Stages(d) : GroupOf(d, j) \subseteq Stages(d) /\ j \in GroupOf(d, j)
  BY Group
<1>7. \A a \in Automatic(d) : a \in Stages(d)
  BY DEF Automatic
<1>8. AtWork(d, x, 1)
  BY <1>1, <1>4, <1>5, <1>6, <1>7 DEF AtWork
<1> QED BY <1>1, <1>4, <1>8 DEF OneGroup, Resting, x

LEMMA EffectFront ==
    ASSUME Inv, NEW c \in Open \ late, session[c].marked \/ session[c].op = "cancel", ~overtaken, Plain(definition)
    PROVE  OneGroup(definition, Effect(session[c]))
<1> DEFINE s == session[c]
           d == definition
           mine == Concluded(inst, s)
           x == Effect(s)
<1>1. OneGroup(d, Still(inst))
  BY DEF Inv
<1>2. /\ d \in Definitions /\ inst \in Instances(d) /\ inst \in InstanceType(d) /\ s.stage \in Stages(d)
      /\ x \in Chains(d)
  BY OpenSession, EffectSound
<1>3. Resting(Still(inst))
  BY <1>1 DEF OneGroup
<1>4. \/ x = Still(Cancelled(inst))
      \/ /\ inst.status = "running" /\ s.op # "cancel"
         /\ inst.runs[s.stage][s.attempt] = "active" /\ s.attempt \in DOMAIN inst.runs[s.stage]
         /\ \/ /\ s.exit \in Matching(d[s.stage]) /\ Outcome(s.op) = "done"
               /\ x = Advance(d, mine, mine, s.stage, s.exit)
            \/ s.op = "reject" /\ d[s.stage].rejectTo # None /\ x = SentBack(d, mine, s.stage)
            \/ s.op = "reject" /\ x = Still(Complete(mine, "rejected"))
  BY <1>3, FreshEffect
<1>5. CASE x = Still(Cancelled(inst))
  <2>1. Quiet(Cancelled(inst)) /\ Cancelled(inst).current = {} /\ Cancelled(inst).status = "cancelled"
    BY <1>2, CancelledFacts
  <2> QED BY <1>5, <2>1, EndedFront
<1>6. CASE /\ inst.status = "running" /\ s.op # "cancel"
           /\ inst.runs[s.stage][s.attempt] = "active" /\ s.attempt \in DOMAIN inst.runs[s.stage]
  <2>1. /\ s.stage \in inst.current /\ ActiveLast(mine) /\ Active(mine) = inst.current \ {s.stage}
        /\ Latest(mine.runs, s.stage) = Outcome(s.op)
        /\ \E g \in Stages(d) : AtWork(d, Still(inst), g)
    BY <1>1, <1>6, MineFront
  <2>2. /\ mine \in Instances(d) /\ mine.status = inst.status /\ mine.current = inst.current
        /\ \A j \in Stages(d) \ {s.stage} : mine.runs[j] = inst.runs[j]
    BY <1>6, Mine
  <2>3. mine \in InstanceType(d)
    BY <2>2 DEF Instances
  <2>4. PICK g \in Stages(d) : AtWork(d, Still(inst), g)
    BY <2>1
  <2>5. Still(inst).inst = inst /\ Still(inst).todo = <<>> /\ Left(Still(inst).todo) = {}
    BY <1>2, StillFacts
  <2> HIDE DEF d, s, mine, x
  <2>6. GroupOf(d, s.stage) = GroupOf(d, g) /\ GroupOf(d, g) \subseteq Stages(d) /\ inst.current \subseteq GroupOf(d, g)
    <3>1. inst.current \subseteq GroupOf(d, g)
      BY <2>4, <2>5 DEF AtWork
    <3>2. GroupOf(d, g) \subseteq Stages(d) /\ \A j \in GroupOf(d, g) : GroupOf(d, j) = GroupOf(d, g)
      BY <1>2, Group
    <3> QED BY <2>1, <3>1, <3>2
  <2>7. \A j \in Stages(d) : j # s.stage => Latest(mine.runs, j) = Latest(inst.runs, j)
    BY <2>2 DEF Latest, Last
  <2>8. \A a \in Automatic(d) : Beyond(d, g, a) => \A j \in GroupOf(d, a) : Undone(mine, j)
    <3> SUFFICES ASSUME NEW a \in Automatic(d), Beyond(d, g, a), NEW j \in GroupOf(d, a) PROVE Undone(mine, j)
      OBVIOUS
    <3>1. Undone(inst, j)
      BY <2>4, <2>5 DEF AtWork
    <3>2. j \in Stages(d) /\ Stages(d) \subseteq Nat
      BY <1>2, Group, Definition DEF Automatic
    <3>3. s.stage < j
      BY <2>1, <2>6 DEF Beyond
    <3>4. j # s.stage
      BY <1>2, <3>2, <3>3
    <3> QED BY <2>7, <3>1, <3>2, <3>4 DEF Undone
  <2>9. \A j \in GroupOf(d, g) \ mine.current : Latest(mine.runs, j) = "done"
    BY <2>1, <2>2, <2>4, <2>5, <2>6, <2>7 DEF AtWork
  <2>10. CASE /\ s.exit \in Matching(d[s.stage]) /\ Outcome(s.op) = "done"
              /\ x = Advance(d, mine, mine, s.stage, s.exit)
    <3>1. Left(<<>>) = {} /\ <<>> \in Seq(Stages(d))
      BY DEF Left
    <3>2. DoneAt(d, mine, <<>>, g, s.stage)
      BY <2>1, <2>2, <2>6, <2>8, <2>9, <2>10, <3>1 DEF DoneAt
    <3>3. x.todo \in Seq(Stages(d))
      BY <1>2 DEF Chains
    <3>4. x.todo = x.todo \o <<>>
      BY <3>3
    <3>5. mine.status = "running"
      BY <1>6, <2>2
    <3> QED BY <1>2, <2>2, <2>10, <3>1, <3>2, <3>4, <3>5, AdvanceFront DEF d, x, s
  <2>11. CASE s.op = "reject" /\ d[s.stage].rejectTo # None /\ x = SentBack(d, mine, s.stage)
    <3>1. ~Parallel(d, s.stage)
      BY <1>2, <2>11, Definition
    <3>2. GroupOf(d, s.stage) = {s.stage}
      BY <1>2, <3>1, Group
    <3>3. Active(mine) = {}
      BY <2>1, <2>6, <3>2
    <3>4. \A a \in Automatic(d) : Beyond(d, s.stage, a) => \A j \in GroupOf(d, a) : Undone(mine, j)
      BY <2>6, <2>8 DEF Beyond
    <3>5. mine.status = "running"
      BY <1>6, <2>2
    <3> QED BY <1>2, <2>1, <2>2, <2>11, <3>3, <3>4, <3>5, SentBackFront DEF d, x, s
  <2>12. CASE s.op = "reject" /\ x = Still(Complete(mine, "rejected"))
    <3>1. /\ Quiet(Complete(mine, "rejected")) /\ Complete(mine, "rejected").current = {}
          /\ Complete(mine, "rejected").status = "completed"
      BY <1>2, <2>3, CompleteFacts
    <3> QED BY <2>12, <3>1, EndedFront DEF d, x, s
  <2> QED BY <1>4, <1>5, <2>10, <2>11, <2>12 DEF d, x, s
<1> QED BY <1>4, <1>5, <1>6

-------------------------------------------------------------------------------
(* The invariant holds *)

\* After a commit.
LEMMA CommitFacts ==
    ASSUME Inv, NEW c \in Open, session[c].marked \/ session[c].op = "cancel",
           NEW after, after = Settled(definition, Effect(session[c])), after.todo = <<>>
    PROVE  /\ after.inst \in Instances(definition) /\ Grows(inst, after.inst)
           /\ c \notin late => Stands(inst, after.inst)
           /\ Grouped(definition, Still(after.inst))
           /\ after.inst.status = "running" =>
                Alive(after.inst) \/ ((overtaken \/ c \in late) /\ Concluding(definition, after.inst))
           /\ ~overtaken /\ c \notin late /\ Automatic(definition) = {} => Resting(Still(after.inst))
           /\ ~overtaken /\ c \notin late /\ Plain(definition) => OneGroup(definition, Still(after.inst))
<1> DEFINE d == definition
           x == Effect(session[c])
<1>1. d \in Definitions /\ inst \in InstanceType(d)
  BY OpenSession
<1>2. x \in Chains(d) /\ Grouped(d, x) /\ Grows(inst, x.inst) /\ (c \notin late => Stands(inst, x.inst))
  BY EffectSound
<1>3. after \in Chains(d) /\ Grows(x.inst, after.inst) /\ Stands(x.inst, after.inst)
  BY <1>1, <1>2, SettledSound
<1>4. Grouped(d, after) /\ (after.inst.status = "running" => Alive(after.inst) \/ after = x)
  BY <1>1, <1>2, SettledGrouped
<1>5. after = x /\ after.inst.status = "running" =>
        Alive(after.inst) \/ ((overtaken \/ c \in late) /\ Concluding(d, after.inst))
  BY EffectAlive
<1>6. ~overtaken /\ c \notin late /\ Automatic(d) = {} => Resting(after)
  BY CommitResting
<1>7. ~overtaken /\ c \notin late /\ Plain(d) => OneGroup(d, after)
  BY <1>1, <1>2, EffectFront, SettledFront
<1> HIDE DEF d, x
<1>8. after = Still(after.inst) /\ after.inst \in Instances(d)
  BY <1>3 DEF Chains, Still
<1>9. x.inst \in InstanceType(d) /\ after.inst \in InstanceType(d)
  BY <1>2, <1>8 DEF Chains, Instances
<1>10. Grows(inst, after.inst) /\ (c \notin late => Stands(inst, after.inst))
  BY <1>1, <1>2, <1>3, <1>9, Further
<1> QED BY <1>4, <1>5, <1>6, <1>7, <1>8, <1>10 DEF d

LEMMA InitInv ==
    ASSUME Init
    PROVE  Inv
<1> DEFINE d == definition
           x == Launched(d)
           launch == Settled(d, x)
<1>1. d \in Definitions /\ launch.todo = <<>> /\ inst = launch.inst
  BY DEF Init
<1>2. session = [c \in Connections |-> Idle] /\ late = {} /\ overtaken = FALSE
  BY DEF Init
<1>3. /\ x \in Chains(d) /\ Grouped(d, x) /\ x.todo # <<>> /\ x.inst.status = "running"
      /\ Len(x.todo) > 1 => \A n \in DOMAIN x.todo : Parallel(d, x.todo[n])
  BY <1>1, LaunchedGrouped
<1>4. launch \in Chains(d) /\ Grouped(d, launch) /\ (launch.inst.status = "running" => Alive(launch.inst))
  BY <1>1, <1>3, SettledSound, SettledGrouped
<1>5. Automatic(d) = {} => Resting(launch)
  BY <1>1, <1>3, SettledResting DEF Resting, InGroup
<1>6. Plain(d) => OneGroup(d, launch)
  BY <1>1, <1>3, LaunchedFront, SettledFront
<1>7. Open = {} /\ \A c \in Connections : ~Decides(c)
  BY <1>2 DEF Open, Decides
<1> HIDE DEF launch, x, d
<1>8. launch = Still(inst) /\ inst \in Instances(d)
  BY <1>1, <1>4 DEF Chains, Still
<1>9. TypeOK
  BY <1>1, <1>2, <1>7, <1>8 DEF TypeOK, Instances, d
<1> QED BY <1>1, <1>2, <1>4, <1>5, <1>6, <1>7, <1>8, <1>9 DEF Inv, d

\* The part of the invariant on the instance, and what another session keeps.
LEMMA InstanceStays ==
    ASSUME Inv, UNCHANGED <<definition, inst, overtaken>>,
           TypeOK', \A c \in Connections : Decides(c)' => SessionOK(c)',
           \A c \in Open' \ late' : KnowsOK(c)'
    PROVE  Inv'
<1>1. definition' = definition /\ inst' = inst /\ overtaken' = overtaken
  OBVIOUS
<1> QED BY <1>1 DEF Inv

LEMMA SessionStays ==
    ASSUME Inv, NEW c \in Connections, Decides(c), session'[c] = session[c],
           definition' = definition, inst' \in Instances(definition), Grows(inst, inst')
    PROVE  SessionOK(c)'
<1> DEFINE s == session[c]
           i == s.stage
<1>1. c \in Open
  BY DEF Decides, Open
<1>2. definition \in Definitions /\ inst \in InstanceType(definition) /\ i \in Stages(definition) /\ SessionOK(c)
  BY <1>1, OpenSession DEF Decides
<1>3. inst' \in InstanceType(definition)
  BY DEF Instances
<1>4. /\ DOMAIN inst.runs = Stages(definition)
      /\ Len(inst.runs[i]) \in Nat /\ Len(inst'.runs[i]) \in Nat
      /\ DOMAIN inst.runs[i] = 1..Len(inst.runs[i]) /\ DOMAIN inst'.runs[i] = 1..Len(inst'.runs[i])
  <2>1. \A st \in InstanceType(definition) :
          /\ DOMAIN st.runs = Stages(definition)
          /\ Len(st.runs[i]) \in Nat /\ DOMAIN st.runs[i] = 1..Len(st.runs[i])
    BY <1>2, Runs
  <2> QED BY <1>2, <1>3, <2>1
<1>5. /\ Len(inst.runs[i]) <= Len(inst'.runs[i])
      /\ \A a \in DOMAIN inst.runs[i] : inst.runs[i][a] # "pending" => inst'.runs[i][a] # "pending"
      /\ inst.status # "running" => inst'.status # "running"
  BY <1>2, <1>4 DEF Grows
<1>6. /\ s.attempt \in DOMAIN inst.runs[i] /\ inst.runs[i][s.attempt] # "pending"
      /\ s.exit \in Matching(definition[i])
      /\ s.op \in {"approve", "reject"} => definition[i].type = "approval"
      /\ s.marked => /\ s.seen \in Instances(definition)
                     /\ s.attempt \in DOMAIN s.seen.runs[i]
                     /\ s.seen.runs[i][s.attempt] = Outcome(s.op)
                     /\ Len(s.seen.runs[i]) <= Len(inst.runs[i])
                     /\ s.seen.status # "running" => inst.status # "running"
  BY <1>2 DEF SessionOK
<1>7. s.attempt \in DOMAIN inst'.runs[i]
  <2>1. s.attempt \in 1..Len(inst.runs[i])
    BY <1>4, <1>6
  <2>2. s.attempt \in 1..Len(inst'.runs[i])
    BY <1>4, <1>5, <2>1
  <2> QED BY <1>4, <2>2
<1>8. s.marked => Len(s.seen.runs[i]) <= Len(inst'.runs[i])
  <2> SUFFICES ASSUME s.marked PROVE Len(s.seen.runs[i]) <= Len(inst'.runs[i])
    OBVIOUS
  <2>1. s.seen \in InstanceType(definition)
    BY <1>6 DEF Instances
  <2> DEFINE seen == Len(s.seen.runs[i])
             old == Len(inst.runs[i])
             new == Len(inst'.runs[i])
  <2>2. seen \in Nat /\ old \in Nat /\ new \in Nat
    BY <1>2, <1>4, <2>1, Runs
  <2>3. seen <= old /\ old <= new
    BY <1>5, <1>6
  <2> HIDE DEF seen, old, new
  <2>4. seen <= new
    BY <2>2, <2>3
  <2> QED BY <2>4 DEF seen, new
<1>9. inst'.runs[i][s.attempt] # "pending"
  BY <1>5, <1>6
<1> HIDE DEF s, i
<1>10. s = session'[c] /\ i = s.stage
  BY DEF s, i
<1> QED BY <1>5, <1>6, <1>7, <1>8, <1>9, <1>10 DEF SessionOK

\* A session that is not the one that acts is as it was.
LEMMA OthersStay ==
    ASSUME Inv, NEW c \in Connections, NEW s, session' = [session EXCEPT ![c] = s]
    PROVE  /\ session'[c] = s
           /\ \A e \in Connections : e # c => session'[e] = session[e] /\ (Decides(e)' <=> Decides(e))
           /\ Open' \ {c} = Open \ {c}
           /\ s # Idle => Open' = Open \cup {c}
           /\ s = Idle => Open' = Open \ {c}
<1>1. session \in [Connections -> SessionType(definition) \cup {Idle}]
  BY DEF Inv, TypeOK
<1>2. session'[c] = s /\ \A e \in Connections : e # c => session'[e] = session[e]
  BY <1>1
<1>3. \A e \in Connections : e # c => (Decides(e)' <=> Decides(e))
  BY <1>2 DEF Decides
<1> QED BY <1>2, <1>3 DEF Open

LEMMA BeginInv ==
    ASSUME Inv, NEW c \in Connections, NEW op \in {"submit", "approve", "reject", "cancel"},
           NEW i \in Stages(definition), NEW a \in Nat, NEW exit \in Stages(definition) \cup {End, NoExit},
           Begin(c, Request(op, i, a, exit)),
           op # "cancel" => a \in DOMAIN inst.runs[i] /\ inst.runs[i][a] = "active" /\ exit \in Matching(definition[i]),
           op \in {"approve", "reject"} => definition[i].type = "approval",
           op # "submit" => inst.status = "running"
    PROVE  Inv'
<1> DEFINE r == Request(op, i, a, exit)
<1>1. /\ r.op = op /\ r.stage = i /\ r.attempt = a /\ r.exit = exit /\ ~r.marked /\ r # Idle
      /\ r \in SessionType(definition)
  <2>1. /\ r.op = op /\ r.stage = i /\ r.attempt = a /\ r.exit = exit /\ ~r.marked
        /\ r \in SessionType(definition)
    BY DEF Request, SessionType
  <2>2. Idle.op = "none"
    BY DEF Idle
  <2>3. op # "none"
    OBVIOUS
  <2> QED BY <2>1, <2>2, <2>3
<1>2. session[c] = Idle /\ session' = [session EXCEPT ![c] = r] /\ UNCHANGED <<definition, inst, late, overtaken>>
  BY DEF Begin
<1> HIDE DEF r
<1>3. /\ session'[c] = r /\ \A e \in Connections : e # c => session'[e] = session[e] /\ (Decides(e)' <=> Decides(e))
      /\ Open' = Open \cup {c}
  BY <1>1, <1>2, OthersStay
<1>4. c \notin late
  BY <1>2 DEF Inv, TypeOK, Open
<1>5. TypeOK'
  <2>1. session' \in [Connections -> SessionType(definition) \cup {Idle}]
    BY <1>1, <1>2 DEF Inv, TypeOK
  <2> QED BY <1>2, <1>3, <2>1 DEF Inv, TypeOK
<1>6. ASSUME NEW e \in Connections, Decides(e)' PROVE SessionOK(e)'
  <2>1. CASE e = c
    <3>1. r.op # "cancel"
      BY <1>3, <1>6, <2>1 DEF Decides
    <3> QED BY <1>1, <1>2, <1>3, <2>1, <3>1 DEF SessionOK
  <2>2. CASE e # c
    <3>1. inst \in Instances(definition) /\ inst \in InstanceType(definition) /\ definition \in Definitions
      BY DEF Inv, TypeOK
    <3>2. Grows(inst, inst)
      BY <3>1, Further
    <3> QED BY <1>2, <1>3, <1>6, <2>2, <3>1, <3>2, SessionStays
  <2> QED BY <2>1, <2>2
<1>7. ASSUME NEW e \in Open' \ late' PROVE KnowsOK(e)'
  <2>1. CASE e = c
    BY <1>1, <1>2, <1>3, <2>1 DEF KnowsOK
  <2>2. CASE e # c
    <3>1. e \in Open \ late /\ e \in Connections
      BY <1>2, <1>3, <1>7, <2>2 DEF Open
    <3>2. KnowsOK(e)
      BY <3>1 DEF Inv
    <3> QED BY <1>2, <1>3, <2>2, <3>1, <3>2 DEF KnowsOK
  <2> QED BY <2>1, <2>2
<1> QED BY <1>2, <1>5, <1>6, <1>7, InstanceStays

LEMMA MarkInv ==
    ASSUME Inv, NEW c \in Connections, Mark(c)
    PROVE  Inv'
<1> DEFINE s == session[c]
           d == definition
           mine == Concluded(inst, s)
           r == [s EXCEPT !.marked = TRUE, !.seen = mine]
<1>1. /\ s # Idle /\ s.op # "cancel" /\ ~s.marked /\ session' = [session EXCEPT ![c] = r]
      /\ UNCHANGED <<definition, inst, late, overtaken>>
  BY DEF Mark
<1>2. c \in Open
  BY <1>1 DEF Open
<1>3. /\ d \in Definitions /\ inst \in Instances(d) /\ inst \in InstanceType(d) /\ s.stage \in Stages(d)
      /\ SessionOK(c) /\ (c \notin late => KnowsOK(c)) /\ s.op \in {"submit", "approve", "reject", "cancel"}
  BY <1>1, <1>2, OpenSession
<1>4. /\ mine \in Instances(d) /\ mine.status = inst.status
      /\ mine.runs[s.stage][s.attempt] = Outcome(s.op) /\ Len(mine.runs[s.stage]) = Len(inst.runs[s.stage])
  BY <1>1, <1>2, Mine
<1>5. mine \in InstanceType(d)
  BY <1>4 DEF Instances
<1>6. s \in SessionType(d)
  BY <1>1 DEF Inv, TypeOK
<1> HIDE DEF mine
<1>7. /\ r.op = s.op /\ r.stage = s.stage /\ r.attempt = s.attempt /\ r.exit = s.exit /\ r.marked /\ r.seen = mine
      /\ r \in SessionType(d)
  <2> HIDE DEF s, d
  <2> QED BY <1>5, <1>6 DEF SessionType
<1>8. r # Idle
  <2>1. Idle.op = "none"
    BY DEF Idle
  <2>2. r.op # "none"
    BY <1>3, <1>7
  <2> HIDE DEF r
  <2> QED BY <2>1, <2>2
<1> HIDE DEF r
<1>9. /\ session'[c] = r /\ \A e \in Connections : e # c => session'[e] = session[e] /\ (Decides(e)' <=> Decides(e))
      /\ Open' = Open \cup {c}
  BY <1>1, <1>8, OthersStay
<1>10. TypeOK'
  <2>1. session' \in [Connections -> SessionType(definition) \cup {Idle}]
    BY <1>1, <1>7 DEF Inv, TypeOK
  <2> QED BY <1>1, <1>9, <2>1 DEF Inv, TypeOK
<1>11. Concluded(inst, r) = mine
  BY <1>7 DEF Concluded, mine
<1>12. ASSUME NEW e \in Connections, Decides(e)' PROVE SessionOK(e)'
  <2>1. CASE e = c
    <3>1. Grows(inst, inst)
      BY <1>3, Further
    <3>2. /\ r.attempt \in DOMAIN inst.runs[r.stage] /\ inst.runs[r.stage][r.attempt] # "pending"
          /\ r.exit \in Matching(d[r.stage])
          /\ r.op \in {"approve", "reject"} => d[r.stage].type = "approval"
      BY <1>3, <1>7 DEF SessionOK
    <3>3. /\ r.seen \in Instances(d) /\ r.attempt \in DOMAIN r.seen.runs[r.stage]
          /\ r.seen.runs[r.stage][r.attempt] = Outcome(r.op)
          /\ Len(r.seen.runs[r.stage]) <= Len(inst.runs[r.stage])
          /\ r.seen.status # "running" => inst.status # "running"
      <4>1. /\ DOMAIN mine.runs[s.stage] = 1..Len(mine.runs[s.stage])
            /\ DOMAIN inst.runs[s.stage] = 1..Len(inst.runs[s.stage])
            /\ Len(inst.runs[s.stage]) \in Nat
        BY <1>3, <1>5, Runs
      <4>2. s.attempt \in DOMAIN mine.runs[s.stage]
        BY <1>3, <1>4, <4>1 DEF SessionOK
      <4>3. Len(mine.runs[s.stage]) <= Len(inst.runs[s.stage])
        BY <1>4, <4>1
      <4> QED BY <1>4, <1>7, <4>2, <4>3
    <3> QED BY <1>1, <1>9, <2>1, <3>2, <3>3 DEF SessionOK
  <2>2. CASE e # c
    <3>1. Grows(inst, inst)
      BY <1>3, Further
    <3> QED BY <1>1, <1>3, <1>9, <1>12, <2>2, <3>1, SessionStays
  <2> QED BY <2>1, <2>2
<1>13. ASSUME NEW e \in Open' \ late' PROVE KnowsOK(e)'
  <2>1. e \in Open \ late /\ e \in Connections
    BY <1>1, <1>2, <1>9, <1>13 DEF Open
  <2>2. KnowsOK(e)
    BY <2>1 DEF Inv
  <2>3. CASE e = c
    BY <1>1, <1>7, <1>9, <1>11, <2>2, <2>3 DEF KnowsOK
  <2>4. CASE e # c
    BY <1>1, <1>9, <2>1, <2>2, <2>4 DEF KnowsOK
  <2> QED BY <2>3, <2>4
<1> QED BY <1>1, <1>10, <1>12, <1>13, InstanceStays

LEMMA AbortInv ==
    ASSUME Inv, NEW c \in Connections, Abort(c)
    PROVE  Inv'
<1>1. /\ session' = [session EXCEPT ![c] = Idle] /\ late' = late \ {c} /\ UNCHANGED <<definition, inst, overtaken>>
  BY DEF Abort
<1>2. /\ session'[c] = Idle
      /\ \A e \in Connections : e # c => session'[e] = session[e] /\ (Decides(e)' <=> Decides(e))
      /\ Open' = Open \ {c}
  BY <1>1, OthersStay
<1>3. TypeOK'
  <2>1. session' \in [Connections -> SessionType(definition) \cup {Idle}]
    BY <1>1 DEF Inv, TypeOK
  <2> QED BY <1>1, <1>2, <2>1 DEF Inv, TypeOK
<1>4. ASSUME NEW e \in Connections, Decides(e)' PROVE SessionOK(e)'
  <2>1. e # c
    BY <1>2, <1>4 DEF Decides
  <2>2. inst \in Instances(definition) /\ inst \in InstanceType(definition) /\ definition \in Definitions
    BY DEF Inv, TypeOK
  <2>3. Grows(inst, inst)
    BY <2>2, Further
  <2> QED BY <1>1, <1>2, <1>4, <2>1, <2>2, <2>3, SessionStays
<1>5. ASSUME NEW e \in Open' \ late' PROVE KnowsOK(e)'
  <2>1. e \in Open \ late /\ e \in Connections /\ e # c
    BY <1>1, <1>2, <1>5 DEF Open
  <2>2. KnowsOK(e)
    BY <2>1 DEF Inv
  <2> QED BY <1>1, <1>2, <2>1, <2>2 DEF KnowsOK
<1> QED BY <1>1, <1>3, <1>4, <1>5, InstanceStays

LEMMA CommitStep ==
    ASSUME Inv, NEW c \in Connections, Commit(c)
    PROVE  /\ c \in Open /\ (session[c].marked \/ session[c].op = "cancel")
           /\ \E after : /\ after = Settled(definition, Effect(session[c])) /\ after.todo = <<>> /\ inst' = after.inst
           /\ session' = [session EXCEPT ![c] = Idle] /\ late' = (late \cup Open) \ {c}
           /\ overtaken' = (overtaken \/ c \in late) /\ definition' = definition
BY DEF Commit, Open

LEMMA CommitInv ==
    ASSUME Inv, NEW c \in Connections, Commit(c)
    PROVE  Inv'
<1>1. /\ c \in Open /\ (session[c].marked \/ session[c].op = "cancel")
      /\ session' = [session EXCEPT ![c] = Idle] /\ late' = (late \cup Open) \ {c}
      /\ overtaken' = (overtaken \/ c \in late) /\ definition' = definition
  BY CommitStep
<1>2. PICK after : /\ after = Settled(definition, Effect(session[c])) /\ after.todo = <<>> /\ inst' = after.inst
  BY CommitStep
<1>3. /\ inst' \in Instances(definition) /\ Grows(inst, inst')
      /\ Grouped(definition, Still(inst'))
      /\ inst'.status = "running" =>
           Alive(inst') \/ ((overtaken \/ c \in late) /\ Concluding(definition, inst'))
      /\ ~overtaken /\ c \notin late /\ Automatic(definition) = {} => Resting(Still(inst'))
      /\ ~overtaken /\ c \notin late /\ Plain(definition) => OneGroup(definition, Still(inst'))
  BY <1>1, <1>2, CommitFacts
<1>4. /\ session'[c] = Idle
      /\ \A e \in Connections : e # c => session'[e] = session[e] /\ (Decides(e)' <=> Decides(e))
      /\ Open' = Open \ {c}
  BY <1>1, OthersStay
<1>5. TypeOK'
  <2>1. session' \in [Connections -> SessionType(definition) \cup {Idle}]
    BY <1>1 DEF Inv, TypeOK
  <2>2. late \subseteq Open /\ overtaken' \in BOOLEAN
    BY <1>1 DEF Inv, TypeOK
  <2> QED BY <1>1, <1>3, <1>4, <2>1, <2>2 DEF Inv, TypeOK, Instances
<1>6. ASSUME NEW e \in Connections, Decides(e)' PROVE SessionOK(e)'
  <2>1. e # c
    BY <1>4, <1>6 DEF Decides
  <2> QED BY <1>1, <1>3, <1>4, <1>6, <2>1, SessionStays
<1>7. Open' \ late' = {}
  BY <1>1, <1>4
<1> QED BY <1>1, <1>3, <1>5, <1>6, <1>7 DEF Inv

LEMMA BeginTypes ==
    ASSUME Inv, NEW i \in Stages(definition), NEW a \in RunsIn(inst.runs, i, "active"),
           NEW exit \in Matching(definition[i])
    PROVE  /\ a \in DOMAIN inst.runs[i] /\ inst.runs[i][a] = "active" /\ a \in Nat
           /\ exit \in Stages(definition) \cup {End, NoExit}
<1>1. definition \in Definitions /\ inst \in InstanceType(definition)
  BY DEF Inv, TypeOK
<1>2. a \in DOMAIN inst.runs[i] /\ inst.runs[i][a] = "active"
  BY DEF RunsIn
<1>3. DOMAIN inst.runs[i] = 1..Len(inst.runs[i])
  BY <1>1, Runs
<1>4. a \in Nat
  BY <1>2, <1>3
<1> QED BY <1>1, <1>2, <1>4, ExitFacts

LEMMA NextInv ==
    ASSUME Inv, [Next]_vars
    PROVE  Inv'
<1>1. CASE UNCHANGED vars
  BY <1>1 DEF vars, Inv, TypeOK, Open, Decides, SessionOK, KnowsOK
<1>2. ASSUME NEW c \in Connections, BeginSubmit(c) PROVE Inv'
  <2>1. PICK i \in Stages(definition) : \E a \in RunsIn(inst.runs, i, "active"), exit \in Matching(definition[i]) :
                                          Begin(c, Request("submit", i, a, exit))
    BY <1>2 DEF BeginSubmit
  <2>2. PICK a \in RunsIn(inst.runs, i, "active"), exit \in Matching(definition[i]) :
          Begin(c, Request("submit", i, a, exit))
    BY <2>1
  <2>3. a \in DOMAIN inst.runs[i] /\ inst.runs[i][a] = "active" /\ a \in Nat
        /\ exit \in Stages(definition) \cup {End, NoExit}
    BY BeginTypes
  <2> QED BY <2>2, <2>3, BeginInv
<1>3. ASSUME NEW c \in Connections, BeginDecide(c) PROVE Inv'
  <2>1. PICK i \in Stages(definition) :
          /\ definition[i].type = "approval" /\ inst.status = "running"
          /\ \E a \in RunsIn(inst.runs, i, "active"), exit \in Matching(definition[i]), op \in {"approve", "reject"} :
               Begin(c, Request(op, i, a, exit))
    BY <1>3 DEF BeginDecide
  <2>2. PICK a \in RunsIn(inst.runs, i, "active"), exit \in Matching(definition[i]), op \in {"approve", "reject"} :
          Begin(c, Request(op, i, a, exit))
    BY <2>1
  <2>3. a \in DOMAIN inst.runs[i] /\ inst.runs[i][a] = "active" /\ a \in Nat
        /\ exit \in Stages(definition) \cup {End, NoExit}
    BY BeginTypes
  <2> QED BY <2>1, <2>2, <2>3, BeginInv
<1>4. ASSUME NEW c \in Connections, BeginCancel(c) PROVE Inv'
  <2>1. 1 \in Stages(definition)
    BY Definition DEF Inv, TypeOK
  <2>2. inst.status = "running" /\ Begin(c, Request("cancel", 1, 0, NoExit))
    BY <1>4 DEF BeginCancel
  <2> QED BY <2>1, <2>2, BeginInv
<1> QED BY <1>1, <1>2, <1>3, <1>4, MarkInv, AbortInv, CommitInv DEF Next

-------------------------------------------------------------------------------
(* Theorems *)

\* Whatever the definitions, the connections and the order of their steps.
THEOREM Invariance == Spec => []Inv
<1>1. Init => Inv
  BY InitInv
<1>2. Inv /\ [Next]_vars => Inv'
  BY NextInv
<1> QED BY <1>1, <1>2, PTL DEF Spec

\* The types.
THEOREM TypeCorrect == Spec => []TypeOK
<1>1. Inv => TypeOK
  BY DEF Inv
<1> QED BY <1>1, Invariance, PTL

\* A running instance has a run that somebody can conclude, unless two transactions
\* concluded the last stages of a parallel group together.
THEOREM SomebodyActsHolds == Spec => []SomebodyActs
<1>1. ASSUME Inv PROVE SomebodyActs
  <2> SUFFICES ASSUME inst.status = "running", Active(inst) = {}
               PROVE  overtaken /\ \E i \in Stages(definition) :
                        /\ Cardinality(GroupOf(definition, i)) > 1
                        /\ \A j \in GroupOf(definition, i) : Latest(inst.runs, j) \in {"done", "skipped"}
    BY DEF SomebodyActs
  <2>1. definition \in Definitions /\ inst \in InstanceType(definition)
    BY <1>1 DEF Inv, TypeOK
  <2>2. ~Alive(inst)
    <3> SUFFICES ASSUME NEW i \in DOMAIN inst.runs, Latest(inst.runs, i) = "active" PROVE FALSE
      BY DEF Alive
    <3>1. DOMAIN inst.runs = Stages(definition)
      BY <2>1, Runs
    <3>2. Len(inst.runs[i]) \in 1..Len(inst.runs[i]) /\ inst.runs[i][Len(inst.runs[i])] = "active"
      BY <2>1, <3>1, Runs
    <3>3. Len(inst.runs[i]) \in RunsIn(inst.runs, i, "active")
      <4>1. DOMAIN inst.runs[i] = 1..Len(inst.runs[i])
        BY <2>1, <3>1, Runs
      <4> QED BY <3>2, <4>1 DEF RunsIn
    <3> QED BY <3>3 DEF Active
  <2>3. overtaken /\ Concluding(definition, inst)
    BY <1>1, <2>2 DEF Inv
  <2> QED BY <2>3 DEF Concluding
<1> QED BY <1>1, Invariance, PTL

\* Nobody is asked anything by an instance that is over, nor will be, as long as no
\* overtaken transaction has committed and no automatic stage is left behind.
THEOREM OverIsQuietHolds == Spec => []OverIsQuiet
<1>1. ASSUME Inv PROVE OverIsQuiet
  <2> SUFFICES ASSUME inst.status # "running", ~overtaken, Automatic(definition) = {} \/ Plain(definition)
               PROVE  \A i \in Stages(definition) : \A a \in DOMAIN inst.runs[i] :
                        inst.runs[i][a] \notin {"pending", "active"}
    BY DEF OverIsQuiet
  <2>1. definition \in Definitions /\ inst \in InstanceType(definition)
    BY <1>1 DEF Inv, TypeOK
  <2>2. Resting(Still(inst))
    BY <1>1 DEF Inv, OneGroup
  <2>3. Quiet(inst)
    BY <2>2 DEF Resting, Still
  <2>4. DOMAIN inst.runs = Stages(definition)
    BY <2>1, Runs
  <2> QED BY <2>3, <2>4 DEF Quiet
<1> QED BY <1>1, Invariance, PTL

\* The work is in one place, whatever rejections and transitions led there.
THEOREM OneFrontHolds == Spec => []OneFront
<1>1. ASSUME Inv PROVE OneFront
  <2> SUFFICES ASSUME ~overtaken, Plain(definition)
               PROVE  /\ Active(inst) = inst.current
                      /\ \A i \in inst.current : /\ Cardinality(RunsIn(inst.runs, i, "active")) = 1
                                                 /\ inst.current \subseteq GroupOf(definition, i)
    BY DEF OneFront
  <2>1. definition \in Definitions /\ inst \in Instances(definition) /\ inst \in InstanceType(definition)
    BY <1>1 DEF Inv, TypeOK
  <2>2. Still(inst).inst = inst /\ Still(inst).todo = <<>> /\ Left(Still(inst).todo) = {}
    BY <2>1, StillFacts
  <2>3. ActiveLast(inst) /\ Resting(Still(inst))
        /\ (inst.status = "running" => \E g \in Stages(definition) : AtWork(definition, Still(inst), g))
    BY <1>1, <2>2 DEF Inv, OneGroup
  <2>4. \A j \in Active(inst) : RunsIn(inst.runs, j, "active") = {Len(inst.runs[j])}
    BY <2>1, <2>3, ActiveFacts
  <2>5. CASE inst.status = "running"
    <3>1. PICK g \in Stages(definition) : AtWork(definition, Still(inst), g)
      BY <2>3, <2>5
    <3>2. Active(inst) = inst.current /\ inst.current \subseteq GroupOf(definition, g)
      BY <2>2, <3>1 DEF AtWork
    <3>3. \A i \in inst.current : GroupOf(definition, i) = GroupOf(definition, g)
      BY <2>1, <3>1, <3>2, Group
    <3>4. \A i \in inst.current : Cardinality(RunsIn(inst.runs, i, "active")) = 1
      BY <2>4, <3>2, FS_Singleton
    <3> QED BY <3>2, <3>3, <3>4
  <2>6. CASE inst.status # "running"
    <3>1. inst.current = {} /\ Quiet(inst)
      BY <2>2, <2>3, <2>6 DEF Resting
    <3>2. Active(inst) = {}
      BY <3>1 DEF Active, RunsIn, Quiet
    <3> QED BY <3>1, <3>2
  <2> QED BY <2>5, <2>6
<1> QED BY <1>1, Invariance, PTL

\* What somebody decided stands: a concluded run changes only by being superseded.
THEOREM DecisionsStandHold == Spec => DecisionsStand
<1> DEFINE A == ~overtaken' => \A i \in Stages(definition) : \A a \in DOMAIN inst.runs[i] :
                  inst.runs[i][a] \notin {"pending", "active"} => inst'.runs[i][a] \in {inst.runs[i][a], "superseded"}
<1>1. ASSUME Inv, [Next]_vars PROVE [A]_vars
  <2>1. CASE inst' = inst
    BY <2>1
  <2>2. ASSUME NEW c \in Connections, Commit(c) PROVE A
    <3>1. /\ c \in Open /\ (session[c].marked \/ session[c].op = "cancel")
          /\ overtaken' = (overtaken \/ c \in late)
      BY <1>1, <2>2, CommitStep
    <3>2. PICK after : /\ after = Settled(definition, Effect(session[c])) /\ after.todo = <<>> /\ inst' = after.inst
      BY <1>1, <2>2, CommitStep
    <3>3. c \notin late => Stands(inst, inst')
      BY <1>1, <3>1, <3>2, CommitFacts
    <3>4. DOMAIN inst.runs = Stages(definition)
      BY <1>1, Runs DEF Inv, TypeOK
    <3> QED BY <3>1, <3>3, <3>4 DEF Stands
  <2>3. UNCHANGED vars => inst' = inst
    BY DEF vars
  <2>4. Next => inst' = inst \/ \E c \in Connections : Commit(c)
    BY DEF Next, BeginSubmit, BeginDecide, BeginCancel, Begin, Mark, Abort
  <2> QED BY <1>1, <2>1, <2>2, <2>3, <2>4
<1>2. Spec => [][A]_vars
  BY <1>1, Invariance, PTL DEF Spec
<1> QED BY <1>2 DEF DecisionsStand
=============================================================================
