------------------------------- MODULE RuleMap -------------------------------
(***************************************************************************)
(* What the client-side rule store promises to the rest of the SDK: a map  *)
(* from rule identifiers to the version of the rule in force.  A rule is   *)
(* only ever replaced by a strictly newer version of itself; it may be     *)
(* forgotten (deleted by the platform, or dropped when its replacement     *)
(* cannot be parsed), and a restart forgets everything held in memory.     *)
(*                                                                         *)
(* RuleStore is shown to implement this specification.                     *)
(***************************************************************************)
EXTENDS Integers

CONSTANTS RuleIds,   \* identifiers of the rules the platform configures
          Versions,  \* values of ruleVersionInShadow
          NoRule     \* "no version of this rule is held"

VARIABLE held        \* held[r]: the version of rule r in force, or NoRule

TypeOK == held \in [RuleIds -> Versions \cup {NoRule}]

Init == held = [r \in RuleIds |-> NoRule]

\* A version is installed over nothing or over an older version.
Install(r, v) ==
  /\ held[r] = NoRule \/ v > held[r]
  /\ held' = [held EXCEPT ![r] = v]

Forget(r) == held' = [held EXCEPT ![r] = NoRule]

ForgetAll == held' = [r \in RuleIds |-> NoRule]

Next ==
  \/ \E r \in RuleIds, v \in Versions : Install(r, v)
  \/ \E r \in RuleIds : Forget(r)
  \/ ForgetAll

Spec == Init /\ [][Next]_held

=============================================================================
