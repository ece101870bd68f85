--------------------------- MODULE SurveyProofs ----------------------------
(***************************************************************************)
(* Proofs about Survey, for any population, segments, thresholds and       *)
(* number of connections: its types, that what is shown stands for enough  *)
(* people and is not found by subtraction, that the invitations are kept   *)
(* and that a survey goes back only where two overlapping operations do it.*)
(***************************************************************************)
EXTENDS Survey, FiniteSetTheorems, TLAPS

(***************************************************************************)
(* The inductive invariant.                                                *)
(***************************************************************************)
Rows ==
  [status: Statuses, anonymous: BOOLEAN, threshold: Thresholds, closes: Dates,
   invited: SUBSET People, responded: SUBSET People, answers: SUBSET (People \X (Nat \ {0}))]

Updates ==
  [field: {"anonymous"}, to: BOOLEAN] \cup [field: {"threshold"}, to: Thresholds]
    \cup [field: {"closes"}, to: Dates]

Requests ==
  {Idle}
    \cup [op: {"update"}, arg: Updates, unaware: SUBSET {"launch"}]
    \cup [op: {"launch"}, arg: [to: SUBSET People, promise: Thresholds \cup {0}],
          unaware: SUBSET {"update", "launch"}]
    \cup [op: {"respond"}, arg: People, unaware: SUBSET {"respond"}]
    \cup [op: {"close", "sweep"}, arg: {"closed"}, unaware: SUBSET {"share"}]
    \cup [op: {"extend"}, arg: {"future"}, unaware: {{}}]
    \cup [op: {"share"}, arg: {"shared"}, unaware: {{}}]

Types ==
  /\ db \in Rows
  /\ session \in [Sessions -> Requests]
  /\ told \in Thresholds \cup {0}
  /\ twice \subseteq People
  /\ crossed \subseteq Operations \X Operations

(* What an open session relies on still holds, or it is marked as unaware of the
   operation that took it away. *)
Relies(c) ==
  LET s == session[c]
  IN /\ s.op = "update" /\ s.arg.field = "anonymous" => db.status = "draft" \/ "launch" \in s.unaware
     /\ s.op = "launch" =>
          /\ db.status = "draft" \/ "launch" \in s.unaware
          /\ (db.anonymous <=> s.arg.promise > 0) \/ "update" \in s.unaware
          /\ Cardinality(s.arg.to) >= s.arg.promise
     /\ s.op = "respond" => s.arg \in db.invited /\ (s.arg \in db.responded => "respond" \in s.unaware)
     /\ s.op \in {"close", "sweep"} => db.status # "draft" /\ (db.status = "shared" => "share" \in s.unaware)
     /\ s.op = "share" => db.status # "draft"

(* Answers of those who have responded and of nobody else, one of each but of those who
   sent two overlapping submissions. *)
OnceEach ==
  /\ Authors(db.answers) = db.responded
  /\ twice \subseteq db.responded
  /\ \A a, b \in db.answers : a[1] = b[1] => a = b \/ a[1] \in twice

Inv ==
  /\ Types
  /\ db.responded \subseteq db.invited
  /\ IsFiniteSet(db.answers)
  /\ \A c \in Open : Relies(c)
  /\ OnceEach
  /\ AsTold

LEMMA Initially == Init => Inv
<1> SUFFICES ASSUME Init PROVE Inv
  OBVIOUS
<1>1. PICK anonymous \in BOOLEAN, threshold \in Thresholds :
        db = [status |-> "draft", anonymous |-> anonymous, threshold |-> threshold, closes |-> "none",
              invited |-> {}, responded |-> {}, answers |-> {}]
  BY DEF Init
<1>2. Types
  BY <1>1 DEF Init, Types, Rows, Requests, Statuses, Dates
<1>3. Open = {}
  BY DEF Init, Open
<1>4. OnceEach /\ AsTold
  BY <1>1 DEF Init, OnceEach, Authors, AsTold
<1>5. IsFiniteSet(db.answers)
  BY <1>1, FS_EmptySet
<1> QED BY <1>1, <1>2, <1>3, <1>4, <1>5 DEF Inv

(***************************************************************************)
(* A request begins.                                                       *)
(***************************************************************************)
LEMMA BeginKeeps ==
  ASSUME Inv, NEW c \in Sessions, NEW op, NEW arg, Begin(c, op, arg),
         [op |-> op, arg |-> arg, unaware |-> {}] \in Requests,
         session'[c] = [op |-> op, arg |-> arg, unaware |-> {}] => Relies(c)'
  PROVE  Inv'
<1>1. /\ session' = [session EXCEPT ![c] = [op |-> op, arg |-> arg, unaware |-> {}]]
      /\ db' = db /\ told' = told /\ twice' = twice /\ crossed' = crossed
  BY DEF Begin
<1>2. Types'
  BY <1>1 DEF Inv, Types
<1>3. ASSUME NEW d \in Open' PROVE Relies(d)'
  <2>1. CASE d = c
    BY <2>1, <1>1 DEF Inv, Types
  <2>2. CASE d # c
    <3>1. session'[d] = session[d] /\ d \in Open
      BY <2>2, <1>1, <1>3 DEF Open, Inv, Types
    <3> QED BY <3>1, <1>1 DEF Inv, Relies
  <2> QED BY <2>1, <2>2
<1> QED BY <1>1, <1>2, <1>3 DEF Inv, OnceEach, Authors, AsTold

(* A session that begins relies on what it has just read. *)
LEMMA StartsKnowing ==
  ASSUME Inv, NEW c \in Sessions, session[c] = Idle, NEW op, NEW arg, Begin(c, op, arg)
  PROVE  /\ db' = db
         /\ session'[c] = [op |-> op, arg |-> arg, unaware |-> {}]
BY DEF Begin, Inv, Types

LEMMA UpdateBegins == ASSUME Inv, NEW c \in Sessions, BeginUpdate(c) PROVE Inv'
<1>1. PICK field \in {"anonymous", "threshold", "closes"} :
        /\ ~Frozen(field)
        /\ \E to \in CASE field = "anonymous" -> BOOLEAN
                       [] field = "threshold" -> Thresholds
                       [] field = "closes" -> Dates : Begin(c, "update", [field |-> field, to |-> to])
  BY DEF BeginUpdate
<1>2. PICK to : /\ Begin(c, "update", [field |-> field, to |-> to])
                /\ [field |-> field, to |-> to] \in Updates
  <2>1. CASE field = "anonymous"
    BY <1>1, <2>1 DEF Updates
  <2>2. CASE field = "threshold"
    BY <1>1, <2>2 DEF Updates
  <2>3. CASE field = "closes"
    BY <1>1, <2>3 DEF Updates
  <2> QED BY <2>1, <2>2, <2>3
<1>3. /\ session[c] = Idle
      /\ [op |-> "update", arg |-> [field |-> field, to |-> to], unaware |-> {}] \in Requests
  BY <1>2 DEF Begin, Requests
<1>4. session'[c] = [op |-> "update", arg |-> [field |-> field, to |-> to], unaware |-> {}] => Relies(c)'
  BY <1>1, <1>2, <1>3, StartsKnowing DEF Relies, Frozen
<1> QED BY <1>2, <1>3, <1>4, BeginKeeps

LEMMA LaunchBegins == ASSUME Inv, NEW c \in Sessions, BeginLaunch(c) PROVE Inv'
<1>1. PICK population \in (SUBSET People) \ {{}} :
        /\ db.anonymous => Cardinality(population) >= db.threshold
        /\ Begin(c, "launch", [to |-> population, promise |-> IF db.anonymous THEN db.threshold ELSE 0])
  BY DEF BeginLaunch
<1> DEFINE promise == IF db.anonymous THEN db.threshold ELSE 0
           arg == [to |-> population, promise |-> promise]
<1>2. /\ db.anonymous \in BOOLEAN /\ db.threshold \in Thresholds /\ db.threshold \in Nat \ {0}
      /\ promise \in Thresholds \cup {0} /\ (db.anonymous <=> promise > 0)
  <2>1. db.anonymous \in BOOLEAN /\ db.threshold \in Thresholds /\ db.threshold \in Nat \ {0}
    BY ThresholdsAssumption DEF Inv, Types, Rows
  <2>2. CASE db.anonymous
    BY <2>1, <2>2
  <2>3. CASE ~db.anonymous
    BY <2>1, <2>3
  <2> QED BY <2>1, <2>2, <2>3
<1>3. Cardinality(population) \in Nat
  BY PeopleAssumption, FS_Subset, FS_CardinalityType
<1>4. Cardinality(population) >= promise
  BY <1>1, <1>2, <1>3
<1>5. session[c] = Idle /\ [op |-> "launch", arg |-> arg, unaware |-> {}] \in Requests
  BY <1>1, <1>2 DEF Begin, Requests
<1> HIDE DEF promise
<1>6. session'[c] = [op |-> "launch", arg |-> arg, unaware |-> {}] => Relies(c)'
  <2>1. db' = db /\ db.status = "draft"
    BY <1>1 DEF Begin, BeginLaunch, Launchable
  <2> QED BY <2>1, <1>2, <1>4 DEF Relies
<1>7. Begin(c, "launch", arg)
  BY <1>1 DEF promise
<1> QED BY <1>5, <1>6, <1>7, BeginKeeps

LEMMA RespondBegins == ASSUME Inv, NEW c \in Sessions, BeginRespond(c) PROVE Inv'
<1>1. PICK p \in People : MayRespond(p) /\ Begin(c, "respond", p)
  BY DEF BeginRespond
<1>2. session[c] = Idle /\ [op |-> "respond", arg |-> p, unaware |-> {}] \in Requests
  BY <1>1 DEF Begin, Requests
<1>3. session'[c] = [op |-> "respond", arg |-> p, unaware |-> {}] => Relies(c)'
  BY <1>1, <1>2, StartsKnowing DEF Relies, MayRespond
<1> QED BY <1>1, <1>2, <1>3, BeginKeeps

(* The others begin in a survey that is not a draft. *)
LEMMA OtherBegins ==
  ASSUME Inv, NEW c \in Sessions, db.status # "draft", NEW op, NEW arg, Begin(c, op, arg),
         \/ op \in {"close", "sweep"} /\ arg = "closed" /\ db.status = "open"
         \/ op = "extend" /\ arg = "future"
         \/ op = "share" /\ arg = "shared"
  PROVE  Inv'
<1>1. session[c] = Idle /\ [op |-> op, arg |-> arg, unaware |-> {}] \in Requests
  BY DEF Begin, Requests
<1>2. session'[c] = [op |-> op, arg |-> arg, unaware |-> {}] => Relies(c)'
  BY <1>1, StartsKnowing DEF Relies
<1> QED BY <1>1, <1>2, BeginKeeps

(***************************************************************************)
(* A session commits.                                                      *)
(***************************************************************************)

(* What the others become: unaware of the operation, where they miss it. *)
LEMMA OthersMiss ==
  ASSUME Inv, NEW c \in Sessions, Commit(c), NEW d \in Open'
  PROVE  /\ d \in Open /\ d # c
         /\ session'[d].op = session[d].op /\ session'[d].arg = session[d].arg
         /\ session'[d].unaware = IF Misses(session[d], session[c])
                                   THEN session[d].unaware \cup {session[c].op} ELSE session[d].unaware
         /\ session'[d] \in Requests
<1>1. /\ d \in Open /\ d # c
      /\ session'[d] = IF Misses(session[d], session[c])
                       THEN [session[d] EXCEPT !.unaware = @ \cup {session[c].op}] ELSE session[d]
  BY DEF Commit, Open, Inv, Types
<1>2. session[d] \in Requests /\ session[d] # Idle
  BY <1>1 DEF Inv, Types, Open
<1>3. CASE ~Misses(session[d], session[c])
  BY <1>1, <1>2, <1>3
<1>4. CASE Misses(session[d], session[c])
  <2>1. /\ session'[d].op = session[d].op /\ session'[d].arg = session[d].arg
        /\ session'[d].unaware = session[d].unaware \cup {session[c].op}
    BY <1>1, <1>2, <1>4 DEF Requests
  <2>2. session[c].op \in Missed[session[d].op]
    BY <1>4 DEF Misses
  <2>3. session'[d] \in Requests
    BY <1>1, <1>2, <1>4, <2>2 DEF Requests, Missed
  <2> QED BY <1>1, <1>4, <2>1, <2>3
<1> QED BY <1>3, <1>4

LEMMA ReliesKept ==
  ASSUME Inv, NEW c \in Sessions, Commit(c), NEW d \in Open',
         db.status = "draft" => db'.status = "draft" \/ session[c].op = "launch",
         db.status # "draft" => db'.status # "draft",
         db'.anonymous = db.anonymous \/ session[c].op = "update",
         db.invited \subseteq db'.invited,
         session[c].op # "respond" => db'.responded = db.responded,
         session[c].op = "respond" => db'.responded \subseteq db.responded \cup {session[c].arg},
         db'.status = "shared" => db.status = "shared" \/ session[c].op = "share"
  PROVE  Relies(d)'
<1>1. /\ d \in Open
      /\ session'[d].op = session[d].op /\ session'[d].arg = session[d].arg
      /\ session'[d].unaware = IF Misses(session[d], session[c])
                                THEN session[d].unaware \cup {session[c].op} ELSE session[d].unaware
  BY OthersMiss
<1>2. Relies(d)
  BY <1>1 DEF Inv
<1>m. /\ Missed["update"] = {"launch"} /\ Missed["launch"] = {"update", "launch"}
      /\ Missed["respond"] = {"respond"} /\ Missed["close"] = {"share"} /\ Missed["sweep"] = {"share"}
  BY DEF Missed
<1>3. ASSUME session[d].op = "update", session[d].arg.field = "anonymous"
      PROVE  db'.status = "draft" \/ "launch" \in session'[d].unaware
  BY <1>1, <1>2, <1>m, <1>3 DEF Relies, Misses
<1>4. ASSUME session[d].op = "launch"
      PROVE  /\ db'.status = "draft" \/ "launch" \in session'[d].unaware
             /\ (db'.anonymous <=> session[d].arg.promise > 0) \/ "update" \in session'[d].unaware
             /\ Cardinality(session[d].arg.to) >= session[d].arg.promise
  BY <1>1, <1>2, <1>m, <1>4 DEF Relies, Misses
<1>5. ASSUME session[d].op = "respond"
      PROVE  /\ session[d].arg \in db'.invited
             /\ session[d].arg \in db'.responded => "respond" \in session'[d].unaware
  BY <1>1, <1>2, <1>m, <1>5 DEF Relies, Misses
<1>6. ASSUME session[d].op \in {"close", "sweep"}
      PROVE  db'.status # "draft" /\ (db'.status = "shared" => "share" \in session'[d].unaware)
  BY <1>1, <1>2, <1>m, <1>6 DEF Relies, Misses
<1>7. session[d].op = "share" => db'.status # "draft"
  BY <1>2 DEF Relies
<1> QED BY <1>1, <1>3, <1>4, <1>5, <1>6, <1>7 DEF Relies

(* What is left to show of a commit: the row it writes and what was promised. *)
LEMMA CommitKeeps ==
  ASSUME Inv, NEW c \in Sessions, Commit(c),
         db' \in Rows, db'.responded \subseteq db'.invited, IsFiniteSet(db'.answers),
         told' \in Thresholds \cup {0}, twice' \subseteq People, \A d \in Open' : Relies(d)', OnceEach', AsTold'
  PROVE  Inv'
<1>1. session' \in [Sessions -> Requests]
  <2>1. session' = [d \in Sessions |-> session'[d]]
    BY DEF Commit
  <2>2. ASSUME NEW d \in Sessions PROVE session'[d] \in Requests
    <3>1. CASE d \in Open'
      BY <3>1, OthersMiss
    <3>2. CASE d \notin Open'
      BY <3>2 DEF Open, Requests
    <3> QED BY <3>1, <3>2
  <2> QED BY <2>1, <2>2
<1>2. crossed' \subseteq Operations \X Operations
  <2>1. session[c] \in Requests /\ session[c] # Idle
    BY DEF Inv, Types, Commit
  <2>2. session[c].op \in Operations /\ session[c].unaware \subseteq Operations
    BY <2>1 DEF Requests, Operations
  <2>3. crossed' = crossed \cup {<<session[c].op, op>> : op \in session[c].unaware}
    BY DEF Commit
  <2> QED BY <2>2, <2>3 DEF Inv, Types
<1> QED BY <1>1, <1>2 DEF Inv, Types

LEMMA UpdateCommits == ASSUME Inv, NEW c \in Sessions, Commit(c), session[c].op = "update" PROVE Inv'
<1> DEFINE s == session[c]
<1>1. /\ s \in [op: {"update"}, arg: Updates, unaware: SUBSET {"launch"}]
      /\ db \in Rows
  BY DEF Inv, Types, Commit, Requests, Idle
<1>2. /\ db' = [db EXCEPT ![s.arg.field] = s.arg.to]
      /\ told' = told /\ twice' = twice /\ crossed' = crossed \cup {<<"update", op>> : op \in s.unaware}
  BY <1>1 DEF Commit, After, Updated
<1>3. /\ db' \in Rows
      /\ db'.status = db.status /\ db'.invited = db.invited
      /\ db'.responded = db.responded /\ db'.answers = db.answers
      /\ s.arg.field # "anonymous" => db'.anonymous = db.anonymous
  <2>1. CASE s.arg.field = "anonymous"
    BY <1>1, <1>2, <2>1 DEF Rows, Updates
  <2>2. CASE s.arg.field = "threshold"
    BY <1>1, <1>2, <2>2 DEF Rows, Updates
  <2>3. CASE s.arg.field = "closes"
    BY <1>1, <1>2, <2>3 DEF Rows, Updates
  <2> QED BY <1>1, <2>1, <2>2, <2>3 DEF Updates
<1>4. \A d \in Open' : Relies(d)'
  BY <1>3, ReliesKept DEF Inv
<1>5. OnceEach'
  BY <1>2, <1>3 DEF Inv, OnceEach, Authors
<1>6. AsTold'
  <2>1. CASE s.arg.field = "anonymous" /\ db.status # "draft"
    <3>1. "launch" \in s.unaware
      BY <2>1 DEF Inv, Relies, Open, Commit
    <3> QED BY <1>2, <3>1 DEF AsTold
  <2>2. CASE s.arg.field # "anonymous" \/ db.status = "draft"
    BY <1>2, <1>3, <2>2 DEF Inv, AsTold
  <2> QED BY <2>1, <2>2
<1> QED BY <1>2, <1>3, <1>4, <1>5, <1>6, CommitKeeps DEF Inv, Types

LEMMA LaunchCommits == ASSUME Inv, NEW c \in Sessions, Commit(c), session[c].op = "launch" PROVE Inv'
<1> DEFINE s == session[c]
<1>1. /\ s \in [op: {"launch"}, arg: [to: SUBSET People, promise: Thresholds \cup {0}],
                unaware: SUBSET {"update", "launch"}]
      /\ db \in Rows
  BY DEF Inv, Types, Commit, Requests, Idle
<1>2. /\ db' = [db EXCEPT !.status = "open", !.closes = "future", !.invited = @ \cup s.arg.to]
      /\ told' = s.arg.promise /\ twice' = twice /\ crossed' = crossed \cup {<<"launch", op>> : op \in s.unaware}
  BY <1>1 DEF Commit, After, Launched
<1>3. /\ db' \in Rows
      /\ db'.status = "open" /\ db'.invited = db.invited \cup s.arg.to /\ db'.anonymous = db.anonymous
      /\ db'.responded = db.responded /\ db'.answers = db.answers
  BY <1>1, <1>2 DEF Rows, Statuses, Dates
<1>4. \A d \in Open' : Relies(d)'
  BY <1>3, ReliesKept
<1>5. OnceEach'
  BY <1>2, <1>3 DEF Inv, OnceEach, Authors
<1>6. AsTold'
  <2>1. CASE "update" \in s.unaware
    BY <1>2, <2>1 DEF AsTold
  <2>2. CASE "update" \notin s.unaware
    <3>1. (db.anonymous <=> s.arg.promise > 0) /\ Cardinality(s.arg.to) >= s.arg.promise
      BY <2>2 DEF Inv, Relies, Open, Commit
    <3>2. s.arg.to \subseteq db'.invited /\ IsFiniteSet(db'.invited)
      BY <1>3, PeopleAssumption, FS_Subset DEF Rows
    <3>3. Cardinality(s.arg.to) <= Cardinality(db'.invited)
      BY <3>2, FS_Subset
    <3>4. /\ Cardinality(s.arg.to) \in Nat /\ Cardinality(db'.invited) \in Nat
          /\ s.arg.promise \in Nat
      <4>1. s.arg.to \subseteq People /\ s.arg.promise \in Thresholds \cup {0}
        BY <1>1
      <4>2. IsFiniteSet(s.arg.to)
        BY <4>1, PeopleAssumption, FS_Subset
      <4>3. Cardinality(s.arg.to) \in Nat /\ Cardinality(db'.invited) \in Nat
        BY <4>2, <3>2, FS_CardinalityType
      <4>4. \A n \in Thresholds \cup {0} : n \in Nat
        BY ThresholdsAssumption
      <4>5. s.arg.promise \in Nat
        BY <4>1, <4>4, Zenon
      <4> QED BY <4>3, <4>5
    <3>5. Cardinality(db'.invited) >= s.arg.promise
      BY <3>1, <3>3, <3>4
    <3> QED BY <1>2, <1>3, <3>1, <3>5 DEF AsTold
  <2> QED BY <2>1, <2>2
<1> QED BY <1>1, <1>2, <1>3, <1>4, <1>5, <1>6, CommitKeeps DEF Inv, Types

(* Who has not responded has no answer yet; who has sent another submission meanwhile. *)
LEMMA RespondCommits == ASSUME Inv, NEW c \in Sessions, Commit(c), session[c].op = "respond" PROVE Inv'
<1> DEFINE s == session[c]
           p == s.arg
           n == 1 + Cardinality({a \in db.answers : a[1] = p})
<1>1. /\ s \in [op: {"respond"}, arg: People, unaware: SUBSET {"respond"}]
      /\ db \in Rows
  BY DEF Inv, Types, Commit, Requests, Idle
<1>2. /\ db' = [db EXCEPT !.responded = @ \cup {p}, !.answers = @ \cup {<<p, n>>}]
      /\ told' = told /\ crossed' = crossed \cup {<<"respond", op>> : op \in s.unaware}
      /\ twice' = IF "respond" \in s.unaware THEN twice \cup {p} ELSE twice
  BY <1>1 DEF Commit, After, Responded
<1>3. n \in Nat \ {0}
  <2>1. IsFiniteSet({a \in db.answers : a[1] = p})
    BY FS_Subset DEF Inv
  <2> QED BY <2>1, FS_CardinalityType
<1> HIDE DEF n
<1>4. /\ db'.status = db.status /\ db'.invited = db.invited /\ db'.anonymous = db.anonymous
      /\ db'.responded = db.responded \cup {p} /\ db'.answers = db.answers \cup {<<p, n>>}
      /\ db'.threshold = db.threshold /\ db'.closes = db.closes
  BY <1>1, <1>2 DEF Rows
<1>5. db' \in Rows
  <2>1. <<p, n>> \in People \X (Nat \ {0}) /\ p \in People
    BY <1>1, <1>3
  <2> DEFINE a == <<p, n>>
  <2> HIDE DEF a
  <2>2. db' = [db EXCEPT !.responded = @ \cup {p}, !.answers = @ \cup {a}]
    BY <1>2 DEF a
  <2>3. a \in People \X (Nat \ {0})
    BY <2>1 DEF a
  <2> QED BY <1>1, <2>1, <2>2, <2>3 DEF Rows
<1>6. Relies(c)
  BY DEF Inv, Open, Commit
<1>7. db'.responded \subseteq db'.invited /\ IsFiniteSet(db'.answers)
  <2>1. db'.responded \subseteq db'.invited
    BY <1>4, <1>6 DEF Inv, Relies
  <2>2. IsFiniteSet(db'.answers)
    <3>1. IsFiniteSet(db.answers) /\ db'.answers = db.answers \cup {<<p, n>>}
      BY <1>4 DEF Inv
    <3>2. IsFiniteSet(db.answers \cup {<<p, n>>})
      BY <3>1, FS_AddElement, Zenon
    <3> QED BY <3>1, <3>2, Zenon
  <2> QED BY <2>1, <2>2
<1>8. \A d \in Open' : Relies(d)'
  BY <1>1, <1>4, ReliesKept
<1>9. OnceEach'
  <2> DEFINE new == <<p, n>>
  <2>1. new[1] = p /\ db'.answers = db.answers \cup {new}
    BY <1>4
  <2> HIDE DEF new
  <2>2. Authors(db'.answers) = db'.responded
    <3>1. Authors(db.answers) = db.responded
      BY DEF Inv, OnceEach
    <3> QED BY <3>1, <1>4, <2>1 DEF Authors
  <2>3. twice \subseteq twice' /\ twice' \subseteq db'.responded
    BY <1>2, <1>4 DEF Inv, OnceEach
  <2>4. ASSUME NEW a \in db.answers, a[1] = p PROVE p \in twice'
    <3>1. p \in db.responded
      BY <2>4 DEF Inv, OnceEach, Authors
    <3>2. "respond" \in s.unaware
      BY <3>1, <1>1, <1>6 DEF Relies
    <3> QED BY <3>2, <1>2
  <2>5. ASSUME NEW a \in db'.answers, NEW b \in db'.answers, a[1] = b[1], a # b PROVE a[1] \in twice'
    <3>1. CASE a \in db.answers /\ b \in db.answers
      BY <3>1, <2>3, <2>5 DEF Inv, OnceEach
    <3>2. CASE a = new
      <4>1. b \in db.answers /\ b[1] = p
        BY <3>2, <2>1, <2>5
      <4> QED BY <4>1, <2>4, <2>5
    <3>3. CASE b = new
      <4>1. a \in db.answers /\ a[1] = p
        BY <3>3, <2>1, <2>5
      <4> QED BY <4>1, <2>4
    <3> QED BY <3>1, <3>2, <3>3, <2>1
  <2>6. Authors(db.answers)' = db'.responded
    BY <2>2 DEF Authors
  <2> QED BY <2>3, <2>5, <2>6 DEF OnceEach
<1>11. twice' \subseteq People
  BY <1>1, <1>2 DEF Inv, Types
<1>10. AsTold'
  BY <1>2, <1>4 DEF Inv, AsTold
<1> QED BY <1>2, <1>5, <1>7, <1>8, <1>9, <1>10, <1>11, CommitKeeps DEF Inv, Types

LEMMA ExtendCommits == ASSUME Inv, NEW c \in Sessions, Commit(c), session[c].op = "extend" PROVE Inv'
<1> DEFINE s == session[c]
<1>1. s \in [op: {"extend"}, arg: {"future"}, unaware: {{}}] /\ db \in Rows
  BY DEF Inv, Types, Commit, Requests, Idle
<1>2. db' = [db EXCEPT !.closes = "future"] /\ told' = told /\ twice' = twice /\ crossed \subseteq crossed'
  BY <1>1 DEF Commit, After, Extended
<1>3. /\ db' \in Rows
      /\ db'.status = db.status /\ db'.invited = db.invited /\ db'.anonymous = db.anonymous
      /\ db'.responded = db.responded /\ db'.answers = db.answers
  BY <1>1, <1>2 DEF Rows, Dates
<1>4. \A d \in Open' : Relies(d)'
  BY <1>3, ReliesKept
<1>5. OnceEach' /\ AsTold'
  BY <1>2, <1>3 DEF Inv, OnceEach, Authors, AsTold
<1> QED BY <1>2, <1>3, <1>4, <1>5, CommitKeeps DEF Inv, Types

(* Closing, by a request or by the job, and sharing. *)
LEMMA StatusCommits ==
  ASSUME Inv, NEW c \in Sessions, Commit(c), session[c].op \in {"close", "sweep", "share"}
  PROVE  Inv'
<1> DEFINE s == session[c]
<1>1. /\ s \in [op: {"close", "sweep"}, arg: {"closed"}, unaware: SUBSET {"share"}]
               \cup [op: {"share"}, arg: {"shared"}, unaware: {{}}]
      /\ db \in Rows
  BY DEF Inv, Types, Commit, Requests, Idle
<1>2. /\ db' = [db EXCEPT !.status = s.arg] /\ told' = told /\ twice' = twice /\ crossed \subseteq crossed'
      /\ db.status # "draft" /\ s.arg \in {"closed", "shared"}
      /\ s.arg = "shared" => s.op = "share"
  <2>1. db' = After(s)
    BY DEF Commit
  <2>2. After(s) = [db EXCEPT !.status = s.arg]
    BY DEF After, Closed, Swept, Shared
  <2>3. Relies(c)
    BY DEF Inv, Open, Commit
  <2>4. told' = told /\ twice' = twice /\ crossed \subseteq crossed'
    BY DEF Commit
  <2>5. s.arg \in {"closed", "shared"} /\ (s.arg = "shared" => s.op = "share")
    BY <1>1
  <2> QED BY <2>1, <2>2, <2>3, <2>4, <2>5 DEF Relies
<1>3. /\ db' \in Rows
      /\ db'.status = s.arg /\ db'.invited = db.invited /\ db'.anonymous = db.anonymous
      /\ db'.responded = db.responded /\ db'.answers = db.answers
  BY <1>1, <1>2 DEF Rows, Statuses
<1>4. \A d \in Open' : Relies(d)'
  BY <1>2, <1>3, ReliesKept
<1>5. OnceEach' /\ AsTold'
  BY <1>2, <1>3 DEF Inv, OnceEach, Authors, AsTold
<1> QED BY <1>2, <1>3, <1>4, <1>5, CommitKeeps DEF Inv, Types

(***************************************************************************)
(* Every step keeps the invariant.                                         *)
(***************************************************************************)
LEMMA StepKeeps == Inv /\ [Next]_vars => Inv'
<1> SUFFICES ASSUME Inv, [Next]_vars PROVE Inv'
  OBVIOUS
<1>1. ASSUME NEW c \in Connections, Request(c) PROVE Inv'
  <2>1. c \in Sessions
    BY DEF Sessions
  <2>2. CASE BeginClose(c)
    BY <2>1, <2>2, OtherBegins DEF BeginClose
  <2>3. CASE BeginExtend(c)
    BY <2>1, <2>3, OtherBegins DEF BeginExtend
  <2>4. CASE BeginShare(c)
    BY <2>1, <2>4, OtherBegins DEF BeginShare
  <2> QED BY <1>1, <2>1, <2>2, <2>3, <2>4, UpdateBegins, LaunchBegins, RespondBegins DEF Request
<1>2. CASE BeginSweep
  <2>1. Worker \in Sessions
    BY DEF Sessions
  <2> QED BY <1>2, <2>1, OtherBegins DEF BeginSweep
<1>3. ASSUME NEW c \in Sessions, Commit(c) PROVE Inv'
  <2>1. session[c].op \in {"update", "launch", "respond", "extend", "close", "sweep", "share"}
    BY <1>3 DEF Inv, Types, Requests, Commit
  <2> QED BY <1>3, <2>1, UpdateCommits, LaunchCommits, RespondCommits, ExtendCommits, StatusCommits
<1>4. CASE Tick
  <2>1. /\ db' = [db EXCEPT !.closes = "past"] /\ db \in Rows
        /\ session' = session /\ told' = told /\ twice' = twice /\ crossed' = crossed
    BY <1>4 DEF Tick, Inv, Types
  <2>2. /\ db' \in Rows
        /\ db'.status = db.status /\ db'.invited = db.invited /\ db'.anonymous = db.anonymous
        /\ db'.responded = db.responded /\ db'.answers = db.answers
    BY <2>1 DEF Rows, Dates
  <2>3. \A c \in Open' : Relies(c)'
    BY <2>1, <2>2 DEF Inv, Open, Relies
  <2> QED BY <2>1, <2>2, <2>3 DEF Inv, Types, OnceEach, Authors, AsTold
<1>5. CASE UNCHANGED vars
  BY <1>5 DEF vars, Inv, Types, Open, Relies, OnceEach, Authors, AsTold
<1> QED BY <1>1, <1>2, <1>3, <1>4, <1>5 DEF Next

THEOREM InvHolds == Spec => []Inv
BY Initially, StepKeeps, PTL DEF Spec

(***************************************************************************)
(* The properties.                                                         *)
(***************************************************************************)

(* Rows, sessions and history keep their types, and nobody answers uninvited. *)
THEOREM TypeCorrect == Spec => []TypeOK
<1>1. Inv => TypeOK
  <2> SUFFICES ASSUME Inv PROVE TypeOK
    OBVIOUS
  <2>1. /\ db.status \in Statuses /\ db.closes \in Dates
        /\ db.anonymous \in BOOLEAN /\ db.threshold \in Thresholds
        /\ db.responded \subseteq db.invited /\ db.invited \subseteq People
        /\ db.answers \subseteq People \X (Nat \ {0})
    BY DEF Inv, Types, Rows
  <2>2. ASSUME NEW c \in Open
        PROVE  session[c].op \in Operations /\ session[c].unaware \subseteq Missed[session[c].op]
    <3>1. session[c] \in Requests /\ session[c] # Idle
      BY DEF Inv, Types, Open
    <3> QED BY <3>1 DEF Requests, Operations, Missed
  <2> QED BY <2>1, <2>2 DEF Inv, Types, OnceEach, TypeOK
<1> QED BY <1>1, InvHolds, PTL

(* The survey is as anonymous, and reached as many people, as its invitations said,
   unless HR changed it while it was being launched. *)
THEOREM PromiseKept == Spec => []AsTold
<1>1. Inv => AsTold
  BY DEF Inv
<1> QED BY <1>1, InvHolds, PTL

(* Answers of different people, one each, are as many as the people. *)
LEMMA AsManyPeople ==
  ASSUME NEW page, IsFiniteSet(page), \A a, b \in page : a[1] = b[1] => a = b
  PROVE  Cardinality(Authors(page)) = Cardinality(page)
<1> DEFINE f == [a \in page |-> a[1]]
<1>1. f \in Bijection(page, Authors(page))
  <2>1. f \in Injection(page, Authors(page))
    BY DEF Injection, IsInjective, Authors
  <2>2. f \in Surjection(page, Authors(page))
    BY DEF Surjection, Authors
  <2> QED BY <2>1, <2>2 DEF Bijection
<1> QED BY <1>1, FS_Bijection DEF ExistsBijection

(* Everybody who has responded has answered, and what is displayed stands for as many people
   as the threshold, unless somebody among them sent two overlapping submissions or it is
   the summary of a survey already shared. *)
THEOREM StandsForPeopleHolds == Spec => []StandsForPeople
<1>1. Inv => StandsForPeople
  <2> SUFFICES ASSUME Inv, NEW page \in Displayed, Authors(page) \cap twice = {},
                      ~(db.status = "shared" /\ page = db.answers)
               PROVE  /\ Cardinality(Authors(page)) >= db.threshold
                      /\ \/ Cardinality(Authors(Scores(page))) >= db.threshold
                         \/ Authors(page) \cap Blank # {}
    BY DEF StandsForPeople, Inv, OnceEach
  <2>1. page \in Pages /\ Shown(page)
    BY DEF Displayed
  <2>2. page \subseteq db.answers
    BY <2>1 DEF Pages, AnswersOf
  <2>3. IsFiniteSet(page)
    BY <2>2, FS_Subset DEF Inv
  <2>4. ASSUME NEW a \in page, NEW b \in page, a[1] = b[1] PROVE a = b
    <3>1. a[1] \in Authors(page)
      BY DEF Authors
    <3>2. a[1] \notin twice
      BY <3>1
    <3> QED BY <3>2, <2>2, <2>4 DEF Inv, OnceEach
  <2>5. Cardinality(Authors(page)) = Cardinality(page)
    BY <2>3, <2>4, AsManyPeople
  <2>6. Authors(page) \cap Blank = {} => Scores(page) = page
    BY DEF Authors, Scores
  <2> QED BY <2>1, <2>5, <2>6 DEF Shown
<1> QED BY <1>1, InvHolds, PTL

(* The segments of finitely many answers are finitely many. *)
LEMMA FewSegments == ASSUME IsFiniteSet(db.answers) PROVE IsFiniteSet(Segments)
<1> DEFINE f == [a \in db.answers |-> Home[a[1]]]
<1>1. f \in Surjection(db.answers, Segments)
  BY DEF Surjection, Segments, Authors
<1> QED BY <1>1, FS_Surjection

(* Where the page of everybody is shown, no segment is hidden alone, to be found by
   subtracting those that the heatmap shows. *)
THEOREM NeverAlone == Spec => []NoneByDifference
<1>1. Inv => NoneByDifference
  <2> SUFFICES ASSUME Inv, Shown(db.answers), NEW hidden \in Heatmaps(Segments), Cardinality(hidden) = 1
               PROVE  FALSE
    BY DEF NoneByDifference
  <2> DEFINE few == {s \in Segments : ~Shown(AnswersOf(s))}
  <2>1. IsFiniteSet(few)
    BY FewSegments, FS_Subset DEF Inv
  <2>2. ASSUME Cardinality(few) = 1, Segments # few, NEW s \in Smallest(Segments \ few), hidden = few \cup {s}
        PROVE  FALSE
    <3>1. s \notin few
      BY <2>2 DEF Smallest
    <3>2. Cardinality(hidden) = Cardinality(few) + 1
      BY <3>1, <2>1, <2>2, FS_AddElement
    <3> QED BY <3>2, <2>2
  <2>3. ASSUME Cardinality(few) = 1, Segments = few PROVE FALSE
    <3>1. PICK s : few = {s}
      BY <2>1, <2>3, FS_Singleton
    <3>2. \A a \in db.answers : Home[a[1]] = s
      BY <3>1, <2>3 DEF Segments, Authors
    <3>3. AnswersOf(s) = db.answers
      BY <3>2 DEF AnswersOf
    <3>4. s \in few
      BY <3>1
    <3> QED BY <3>3, <3>4
  <2>4. CASE Cardinality(few) = 1 /\ Segments # few
    BY <2>4, <2>2 DEF Heatmaps
  <2>5. CASE ~(Cardinality(few) = 1 /\ Segments # few)
    <3>1. hidden = few
      BY <2>5 DEF Heatmaps
    <3> QED BY <3>1, <2>5, <2>3
  <2> QED BY <2>4, <2>5
<1> QED BY <1>1, InvHolds, PTL

(* The status goes back only where a launch is committed unaware of another, or a closure
   unaware that the results have been shared. *)
LEMMA Forward ==
  ASSUME Inv, NEW c \in Sessions, Commit(c), ~(Unaware(c))
  PROVE  Rank(db'.status) >= Rank(db.status)
<1>1. /\ session[c] \in Requests /\ session[c] # Idle /\ Relies(c) /\ db \in Rows
      /\ db' = After(session[c])
  BY DEF Inv, Types, Commit, Open
<1>2. CASE session[c].op = "update"
  <2>1. db' = Updated(session[c].arg) /\ session[c].arg.field \in {"anonymous", "threshold", "closes"}
    BY <1>1, <1>2 DEF After, Requests, Updates
  <2>2. db'.status = db.status
    BY <2>1, <1>1 DEF Updated, Rows
  <2> QED BY <2>2, <1>1 DEF Rank, Rows, Statuses
<1>3. CASE session[c].op = "launch"
  <2>1. db' = Launched(session[c].arg.to) /\ db.status = "draft"
    BY <1>1, <1>3 DEF After, Relies, Unaware
  <2>2. db'.status = "open"
    BY <2>1, <1>1 DEF Launched, Rows
  <2> QED BY <2>1, <2>2 DEF Rank
<1>4. CASE session[c].op = "respond"
  <2>1. db'.status = db.status
    BY <1>1, <1>4 DEF After, Responded, Rows
  <2> QED BY <2>1, <1>1 DEF Rank, Rows, Statuses
<1>5. CASE session[c].op = "extend"
  <2>1. db'.status = db.status
    BY <1>1, <1>5 DEF After, Extended, Rows
  <2> QED BY <2>1, <1>1 DEF Rank, Rows, Statuses
<1>6. CASE session[c].op \in {"close", "sweep"}
  <2>1. session[c].arg = "closed" /\ db.status \in {"open", "closed"}
    BY <1>1, <1>6 DEF Requests, Relies, Unaware, Rows, Statuses
  <2>2. db'.status = "closed"
    BY <2>1, <1>1, <1>6 DEF After, Closed, Swept, Rows
  <2> QED BY <2>1, <2>2 DEF Rank
<1>7. CASE session[c].op = "share"
  <2>1. db'.status = "shared"
    BY <1>1, <1>7 DEF After, Shared, Rows, Requests
  <2> QED BY <2>1, <1>1 DEF Rank, Rows, Statuses
<1> QED BY <1>1, <1>2, <1>3, <1>4, <1>5, <1>6, <1>7 DEF Requests

(* A survey never goes back to an earlier status, but for those two overlaps. *)
THEOREM NeverBackHolds == Spec => NeverBack
<1>1. ASSUME Inv, [Next]_vars
      PROVE  [Rank(db'.status) >= Rank(db.status) \/ \E c \in Open : Unaware(c) /\ session'[c] = Idle]_vars
  <2>0. db \in Rows /\ Rank(db.status) \in Nat
    BY <1>1 DEF Inv, Types, Rank, Rows, Statuses
  <2>1. ASSUME NEW c \in Sessions, Commit(c)
        PROVE  Rank(db'.status) >= Rank(db.status) \/ \E d \in Open : Unaware(d) /\ session'[d] = Idle
    <3>1. c \in Open /\ session'[c] = Idle
      BY <2>1 DEF Commit, Open
    <3> QED BY <3>1, <1>1, <2>1, Forward
  <2>2. ASSUME NEW c \in Connections, Request(c) PROVE db' = db
    BY <2>2 DEF Request, BeginUpdate, BeginLaunch, BeginRespond, BeginClose, BeginExtend, BeginShare, Begin
  <2>3. ASSUME BeginSweep PROVE db' = db
    BY <2>3 DEF BeginSweep, Begin
  <2>4. ASSUME Tick PROVE db'.status = db.status
    BY <2>4, <2>0 DEF Tick, Rows
  <2> QED BY <1>1, <2>0, <2>1, <2>2, <2>3, <2>4 DEF Next
<1> QED BY <1>1, InvHolds, PTL DEF Spec, NeverBack
=============================================================================
