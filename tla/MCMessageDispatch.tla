-------------------------- MODULE MCMessageDispatch --------------------------
(* Instances of MessageDispatch: the messages that come and the callbacks.  *)
EXTENDS MessageDispatch

S(id, type, has, fault) == [id |-> id, type |-> type, has |-> has, fault |-> fault]

Mail(topic, services) == [topic |-> topic, json |-> TRUE, system |-> FALSE, object |-> FALSE,
                         services |-> services]

Lists(S_, n) == UNION {[1..m -> S_] : m \in 0..n}

\* Services of a shadow or of a property message, and of an event.
Shadows == {S("plain", "absent", Fields, "none"), S("plain", "absent", {"desired"}, "none"),
            S("plain", "absent", {}, "none"), S("absent", "absent", {"desired"}, "none"),
            S("rule", "absent", Fields, "none"), S("detect", "absent", {"reported"}, "none")}

Events == {S("sub", "notify", {}, "none"), S("sub", "notify", {}, "fails"),
           S("rule", "rule", {}, "none"), S("rule", "rule", {}, "noparas"),
           S("config", "update", {}, "none"), S("ota", "upgrade", {}, "none"),
           S("log", "absent", {}, "none")}

OtherEvents == {S("config", "update", {}, "fails"), S("ota", "version_query", {}, "none"),
                S("ntp", "response", {}, "none"), S("ntp", "response", {}, "fails"),
                S("softbus", "info", {}, "none"), S("softbus", "info", {}, "noparas"), S("tunnel", "notify", {}, "none"),
                S("file", "url", {}, "none"), S("other", "other", {}, "none"), S("absent", "x", {}, "none")}

ListMessages ==
  {Mail({"set"}, ss) : ss \in Lists(Shadows, 3)} \union
  {Mail({"shadow"}, ss) : ss \in Lists(Shadows, 3)} \union
  {Mail({"events"}, ss) : ss \in Lists(Events, 3)} \union
  {Mail({"events"}, ss) : ss \in Lists(OtherEvents, 1)} \union
  {Mail({"events"}, ss) : ss \in [1..2 -> {S("softbus", "info", {}, "none"), S("sub", "notify", {}, "fails")}]}

Marks == {Order[n] : n \in DOMAIN Order}

\* A topic with one mark or with two, with each of the forms of a payload.
PlainMessages ==
  {[topic |-> t, json |-> j, system |-> j /\ s, object |-> j /\ b, services |-> <<>>] :
     t \in {{}} \union {{m, o} : m, o \in Marks}, j \in BOOLEAN, s \in BOOLEAN, b \in BOOLEAN}

\* Lists one after the other.
PairMessages ==
  {Mail({t}, ss) : t \in {"shadow", "set"}, ss \in [1..2 -> Shadows]} \union
  {Mail({"events"}, ss) : ss \in [1..4 -> {S("sub", "notify", {}, "none")}]} \union
  {Mail({"shadow"}, ss) : ss \in [1..4 -> {S("rule", "absent", {"desired"}, "none")}]}

\* Setters of one callback each, and SetTagEventsOps with one of the operations.
Each(cbs) == [n \in DOMAIN cbs |-> [sets |-> {cbs[n]}, given |-> {cbs[n]}]]

TagEventsOps(cb) == [sets |-> {EventCallback[e] : e \in DOMAIN EventCallback}, given |-> {cb}]

Scene(registrations, mail, n, requests) ==
  [registrations |-> registrations, mail |-> mail, messages |-> n, requests |-> requests]

AgentScenarios ==
  [lists    |-> Scene(Each(<<"onDeviceConfig", "onDeviceShadow", "onPropertiesSet", "onSubDevice", "onEventDown">>)
                        \o <<TagEventsOps("onSoftBus")>>, ListMessages, 1, FALSE),
   payloads |-> Scene(Each(<<"onOtherUndefined", "onRawMessage", "onMessage", "onUserTopicRawMessage",
                             "onUserTopicMessage", "onCmd", "onBridgesDeviceLogin">>), PlainMessages, 1, FALSE),
   pairs    |-> Scene(Each(<<"onEventDown", "onPropertiesSet", "onDeviceShadow">>), PairMessages, 2, FALSE),
   bridge   |-> Scene(Each(<<"onBridgesDeviceLogin">>), {}, 0, TRUE)]

UndefinedScenarios == [undefined |-> Scene(Each(<<"onOtherUndefined">>), PlainMessages, 1, FALSE)]
=============================================================================
