------------------------------- MODULE WelfareTx -------------------------------
(***************************************************************************)
(* The welfare account under the transactions the program really opens:    *)
(* tenant-tx.interceptor.ts wraps a request in one READ COMMITTED          *)
(* transaction, reminders.ts the daily job, and no statement locks what it *)
(* reads.  A session begins by reading what its handler checks, and later  *)
(* commits the writes it computed from that, or aborts.  The reads of one  *)
(* handler are taken together; writes meet only at the commit, where the   *)
(* UPDATE of a row waits for the transaction that already wrote it.        *)
(* Handlers that decide nothing from what they read stay single steps.     *)
(***************************************************************************)
EXTENDS WelfareLedger

CONSTANTS
    Sessions,     \* database connections
    MaxReleases   \* bound: a request released so often is not decided again

VARIABLES
    session,   \* session[x]: the operation in progress and what it has read
    overtaken  \* history: sessions whose reads another step has since rewritten

Idle == [op |-> "idle"]
Verbs == {"cancelled", "rejected", "approved", "needs_docs"}

txVars == <<vars, session, overtaken>>

-------------------------------------------------------------------------------
(* Which rows an operation reads before it decides, and which it writes *)

Everyone == {<<"person", p>> : p \in Persons}
AllRequests == {<<"request", r>> : r \in Requests}

Reads(w) ==
    CASE w.op = "create" -> {<<"plan", w.pl>>, <<"person", w.p>>}
      [] w.op = "decide" -> {<<"request", w.r>>}
      [] w.op = "premium" -> {<<"plan", w.pl>>, <<"choice", w.p>>, <<"premium", w.pl>>}
      [] w.op = "activate" -> {<<"plan", w.pl>>}
      [] w.op = "close" -> {<<"plan", w.pl>>} \cup Everyone
      [] w.op = "source" -> {<<"plan", w.pl>>, <<"sources">>}
      [] w.op = "reminders" -> {<<"plan", pl>> : pl \in Plans} \cup {<<"sources">>}
      [] w.op = "export" -> AllRequests
      [] w.op = "confirm" -> {<<"batch", w.b>>}
      [] OTHER -> {}

Writes(w) ==
    CASE w.op = "create" -> {<<"request", w.r>>, <<"person", w.p>>}
      [] w.op = "decide" -> {<<"request", w.r>>, <<"person", req[w.r].person>>}
      [] w.op = "premium" -> {<<"choice", w.p>>, <<"person", w.p>>} \cup
                             (IF w.new THEN {<<"premium", w.pl>>} ELSE {})
      [] w.op = "activate" -> {<<"plan", w.pl>>, <<"sources">>} \cup Everyone
      [] w.op = "close" -> {<<"plan", w.pl>>} \cup Everyone
      [] w.op = "source" -> {<<"sources">>} \cup Everyone \cup
                            (IF w.f.premium THEN {<<"premium", w.pl>>} ELSE {})
      [] w.op = "reminders" -> {<<"sources">>} \cup Everyone
      [] w.op = "export" -> {<<"batch", w.b>>} \cup {<<"request", r>> : r \in w.toPay}
      [] w.op = "confirm" -> {<<"batch", w.b>>} \cup AllRequests
      [] OTHER -> {}

Others(x) == Sessions \ {x}
Busy == {x \in Sessions : session[x] # Idle}
Running(op) == {x \in Sessions : session[x].op = op}

-------------------------------------------------------------------------------
(* The reads *)

Begin(x, w) ==
    /\ session[x] = Idle
    /\ session' = [session EXCEPT ![x] = w]
    /\ overtaken' = overtaken \ {x}
    /\ UNCHANGED vars

\* Mutant: the request goes in whatever the balance is.
BeginCreateBlind(x, r, p, pl, k) ==
    /\ req[r].status = "none" /\ status[pl] = "active" /\ p \in Population(terms[pl])
    /\ category[k.cat] # None
    /\ \A y \in Running("create") : session[y].r # r
    /\ Begin(x, [op |-> "create", r |-> r, p |-> p, pl |-> pl, k |-> k,
                 taxable |-> TaxableOf(p, k)])

\* A new row has an id of its own: no two sessions insert the same one.
BeginCreate(x, r, p, pl, k) ==
    /\ CanCreateRequest(r, p, pl, k)
    /\ \A y \in Running("create") : session[y].r # r
    /\ Begin(x, [op |-> "create", r |-> r, p |-> p, pl |-> pl, k |-> k,
                 taxable |-> TaxableOf(p, k)])

BeginDecide(x, r, verb) ==
    /\ CanDecide(r)
    /\ entries[r]["release"] < MaxReleases
    /\ Begin(x, [op |-> "decide", r |-> r, verb |-> verb])

\* A new source has an id of its own too, whether HR adds it or a choice inserts it.
Unclaimed(s) == \A y \in Running("source") \cup Running("premium") : session[y].s # s

BeginPremium(x, p, pl, percent) ==
    /\ CanChoosePremium(p, pl, percent)
    /\ \E s \in Sources :
        /\ PremiumSource(pl, s)
        /\ source[s] = None => Unclaimed(s)
        /\ Begin(x, [op |-> "premium", p |-> p, pl |-> pl, s |-> s, new |-> source[s] = None,
                     amount |-> RoundPercent(terms[pl].premium, percent)])

\* The UPDATE comes before the due sources are read: these are read at the commit.
BeginActivate(x, pl) ==
    /\ CanActivatePlan(pl)
    /\ Begin(x, [op |-> "activate", pl |-> pl])

BeginClose(x, pl) ==
    /\ CanClosePlan(pl)
    /\ Begin(x, [op |-> "close", pl |-> pl, lost |-> [p \in Persons |-> Lost(pl, p)]])

BeginSource(x, s, pl, f) ==
    /\ CanAddSource(s, pl)
    /\ Unclaimed(s)
    /\ Begin(x, [op |-> "source", s |-> s, pl |-> pl, f |-> f, pops |-> ApiPopulations,
                 due |-> Due(WithSource(s, pl, f), {pl} \cap ActivePlans)])

\* One worker process, one reminders job at a time.
BeginReminders(x) ==
    /\ Running("reminders") = {}
    /\ Begin(x, [op |-> "reminders", due |-> Due(source, ActivePlans),
                 pops |-> WorkerPopulations])

BeginExport(x, b) ==
    /\ CanCreateBatch(b)
    /\ \A y \in Running("export") : session[y].b # b
    /\ Begin(x, [op |-> "export", b |-> b, toPay |-> ToPay])

BeginConfirm(x, b) ==
    /\ CanConfirmBatch(b)
    /\ Begin(x, [op |-> "confirm", b |-> b])

-------------------------------------------------------------------------------
(* The writes *)

Decide(r, verb) ==
    CASE verb = "approved" -> DoApprove(r)
      [] verb = "needs_docs" -> SetNeedsDocs(r)
      [] OTHER -> Release(r, verb)

Write(w) ==
    CASE w.op = "create" -> DoCreateRequest(w.r, w.p, w.pl, w.k, w.taxable)
      [] w.op = "decide" -> Decide(w.r, w.verb)
      [] w.op = "premium" -> DoChoosePremium(w.p, w.pl, w.amount, w.s)
      [] w.op = "activate" -> DoActivatePlan(w.pl)
      [] w.op = "close" -> DoClosePlan(w.pl, w.lost)
      [] w.op = "source" -> DoAddSource(w.s, w.pl, w.f, w.due, w.pops)
      [] w.op = "reminders" -> DoRunReminders(w.due, w.pops)
      [] w.op = "export" -> DoCreateBatch(w.b, w.toPay)
      [] w.op = "confirm" -> DoConfirmBatch(w.b)

Commit(x) ==
    /\ session[x] # Idle
    /\ Write(session[x])
    /\ session' = [session EXCEPT ![x] = Idle]
    /\ overtaken' = (overtaken \ {x}) \cup
            {y \in Busy \ {x} : Reads(session[y]) \cap Writes(session[x]) # {}}

\* An error, a deadlock victim, a lost connection: nothing is written.
Abort(x) ==
    /\ session[x] # Idle
    /\ session' = [session EXCEPT ![x] = Idle]
    /\ overtaken' = overtaken \ {x}
    /\ UNCHANGED vars

\* The handlers that stay single steps, and the world outside the module.
Settings ==
    \/ \E pl \in Plans, t \in Terms : CreatePlan(pl, t) \/ UpdatePlan(pl, t)
    \/ \E pl \in Plans, p \in Persons, n \in Adjustments : Adjust(pl, p, n)
    \/ \E c \in Categories, f \in CategoryForms : UpsertCategory(c, f)
    \/ \E table \in LimitTables : PutThresholds(table)
    \/ LoadPresets
    \/ \E p \in Persons, value \in BOOLEAN : Declare(p, value)
    \/ \E p \in Persons : Hire(p) \/ Leave(p)
    \/ Tick
SettingsStep == Settings /\ UNCHANGED session /\ overtaken' = Busy

-------------------------------------------------------------------------------
(* The specification *)

TxInit == Init /\ session = [x \in Sessions |-> Idle] /\ overtaken = {}

TxNext ==
    \/ \E x \in Sessions :
        \/ \E r \in Requests, p \in Persons, pl \in Plans, k \in Claims :
                BeginCreate(x, r, p, pl, k)
        \/ \E r \in Requests, verb \in Verbs : BeginDecide(x, r, verb)
        \/ \E p \in Persons, pl \in Plans, percent \in UNION {t.percents : t \in Terms} :
                BeginPremium(x, p, pl, percent)
        \/ \E pl \in Plans : BeginActivate(x, pl) \/ BeginClose(x, pl)
        \/ \E s \in Sources, pl \in Plans, f \in SourceForms : BeginSource(x, s, pl, f)
        \/ BeginReminders(x)
        \/ \E b \in Batches : BeginExport(x, b) \/ BeginConfirm(x, b)
        \/ Commit(x)
        \/ Abort(x)
    \/ SettingsStep

TxSpec == TxInit /\ [][TxNext]_txVars

-------------------------------------------------------------------------------
(* What survives any interleaving *)

\* What a person has reserved, released and spent in a plan is still explained by
\* the movements that carry that person's requests, however often they were written.
RegisterExplained ==
    \A pl \in Plans, p \in Persons, k \in EntryKinds :
        LET mine == {r \in Requests : /\ req[r].status # "none"
                                      /\ req[r].plan = pl /\ req[r].person = p}
        IN  led[pl][p][k] = Sum([r \in mine |-> entries[r][k] * req[r].amount], mine)

\* The serial account is left only by overtaken sessions: a commit none of whose
\* reads was rewritten since they were made is a step of WelfareLedger.  Locking
\* what Reads names would therefore make every serial invariant hold.
SerialUnlessOvertaken ==
    [][(\E x \in Busy \ overtaken : session'[x] = Idle) => Next \/ UNCHANGED vars]_txVars

===============================================================================
