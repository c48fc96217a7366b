---------------------------- MODULE MCRuleEngine ----------------------------
(***************************************************************************)
(* Instances of RuleEngine for TLC: weeks of seven days of four seconds,   *)
(* minutes of two seconds.                                                 *)
(***************************************************************************)
EXTENDS RuleEngine

CONSTANTS p1, p2, s1, s2

Always == [days |-> {}, start |-> 0, end |-> 0]

Rule(conds, logic, range) ==
  [active |-> TRUE, range |-> range, logic |-> logic, commands |-> 1, conds |-> conds]

Daily == [kind |-> "daily", time |-> 1, days |-> {1, 7}]
Simple == [kind |-> "simple", start |-> Boot + 1, interval |-> 2, count |-> 2]
Smoke == [kind |-> "data", service |-> "smoke", op |-> ">=", value |-> 1]

TimerRules ==
  <<Rule(<<Daily>>, "and", Always),
    Rule(<<Simple>>, "and", Always),
    Rule(<<Smoke>>, "and", Always),
    [Rule(<<Smoke, Daily>>, "or", [days |-> {1}, start |-> 2, end |-> 0])
       EXCEPT !.commands = 2]>>

ReportRules ==
  <<Rule(<<Smoke>>, "and", Always),
    [Rule(<<Daily>>, "and", Always) EXCEPT !.active = FALSE]>>

=============================================================================
