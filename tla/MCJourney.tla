----------------------------- MODULE MCJourney -----------------------------
EXTENDS Journey, TLC

CONSTANTS t1, t2

Plan(tasks, required, k1, k2, engine) ==
  [tasks |-> tasks, required |-> required, kind |-> t1 :> k1 @@ t2 :> k2, engine |-> engine]

MCTemplates ==
  { Plan({t1, t2}, {t1, t2}, "task", "survey", TRUE),
    Plan({t1, t2}, {t1}, "form", "task", TRUE),
    Plan({t1}, {t1, t2}, "objective", "task", TRUE),
    Plan({t1, t2}, {t1, t2}, "form", "survey", FALSE) }
=============================================================================
