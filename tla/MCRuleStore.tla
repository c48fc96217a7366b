----------------------------- MODULE MCRuleStore -----------------------------
(***************************************************************************)
(* Instances of RuleStore for TLC.                                         *)
(***************************************************************************)
EXTENDS RuleStore

CONSTANTS r1, r2

MCRuleIds == {r1, r2}
MCVersions == {1, 2}

Of(forms) == [id : MCRuleIds, ver : MCVersions, form : forms]
UpTo2(S) == {<<>>} \cup {<<a>> : a \in S} \cup {<<a, b>> : a, b \in S}

\* Payloads of at most two rules that all parse.
GoodPayloads == UpTo2(Of({"ok"}))

\* Payloads of at most two rules that may lack their id or version, where the loop
\* stops, but whose bodies all parse.
ReadablePayloads == UpTo2(Of({"ok", "head"}))

MCShadows == UNION {[S -> MCVersions \cup {Deletion}] : S \in SUBSET MCRuleIds \ {{}}}

\* Rule r1 in two versions that may be malformed, a sound rule r2, an unreadable
\* one, one at a time: enough for malformed bodies to pile up in the JSON text.
FaultyPayloads ==
  {<<[id |-> r1, ver |-> v, form |-> f]>> : v \in MCVersions, f \in {"ok", "body"}}
    \cup {<<[id |-> r2, ver |-> 1, form |-> f]>> : f \in {"ok", "head"}}
FaultyShadows == {r1 :> 2, r1 :> Deletion, r2 :> Deletion}

\* An existing but empty file, as touch leaves it, and a file of one rule.
MCFiles ==
  {[state |-> "torn", rules |-> <<>>],
   [state |-> "good", rules |-> <<[id |-> r1, ver |-> 1, form |-> "ok"]>>]}

\* A file cut short, or one of at most two rules, the same rule twice included.
ReadableFiles ==
  {[state |-> "torn", rules |-> <<>>]}
    \cup [state : {"good"}, rules : UpTo2(Of({"ok", "head"}))]

NoFile == {[state |-> "absent", rules |-> <<>>]}

NoFileOrEmpty == NoFile \cup {[state |-> "torn", rules |-> <<>>]}

=============================================================================
