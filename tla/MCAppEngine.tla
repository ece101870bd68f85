---------------------------- MODULE MCAppEngine ----------------------------
EXTENDS AppEngine

Form == [type |-> "form", group |-> 0, rejectTo |-> 0, exits |-> {}]
Approval == [Form EXCEPT !.type = "approval"]
Auto == [Form EXCEPT !.type = "auto"]
In(group, stage) == [stage EXCEPT !.group = group]
Back(i, stage) == [stage EXCEPT !.rejectTo = i]
Goto(exits, stage) == [stage EXCEPT !.exits = exits]

MCDefinitions ==
  { <<Form, Back(1, Approval), Approval, Auto>>,                        \* training request
    <<In(1, Form), In(1, Form), Back(1, Approval)>>,                    \* project review
    <<Form, In(1, Approval), In(1, Approval), Auto>>,
    <<Goto({3, End}, Form), Back(1, Approval), Auto, Goto({1}, Approval)>>,
    <<In(1, Auto), In(1, Auto), In(2, Form), In(2, Auto), Back(3, Approval)>>,
    <<In(1, Goto({3}, Form)), In(1, Form), Back(1, Approval)>>,         \* leaves its group
    <<In(1, Goto({End}, Auto)), In(1, Form), Approval>>,                \* so does this
    <<Goto({1}, Form), In(1, Auto), In(1, Form), Back(2, Approval)>>,
    <<In(1, Auto), In(1, Form), Goto({1}, Form)>> }                     \* enters its group again
=============================================================================
