--------------------------- MODULE MessageDispatch ---------------------------
(***************************************************************************)
(* What the MQTT thread does with a message (MqttBase_OnMessageArrived and *)
(* callback_func.c): it tells the handler from the topic, takes a list of  *)
(* services apart into an array, hands rules and settings to the rule      *)
(* manager and the anomaly detection, and calls what the application has   *)
(* registered.  The application registers callbacks at any time; threads   *)
(* of it make the requests of Bridge, and the answers come as messages.    *)
(*                                                                         *)
(* A topic is the set of the marks (substrings) that it contains.  A       *)
(* service of a list is a record, and the number of a service stands for   *)
(* the strings that are printed from it.                                   *)
(***************************************************************************)
EXTENDS Bridge, Integers, FiniteSets, SequencesExt

CONSTANTS
  MaxServices,      \* MAX_SERVICE_COUNT
  MaxEvents,        \* MAX_EVENT_COUNT
  Scenarios         \* what the application registers, in order, and makes use of; and bounds:
                    \* the messages that may come, and how many do

Fields == {"desired", "reported"}

\* A service: its id and event_type, what it has, and what is wrong with its parameters.
Service == [id : STRING, type : STRING, has : SUBSET Fields, fault : {"none", "fails", "noparas"}]

\* A message: whether it is JSON, has the system's format, and has an object for its content
\* or its paras.
Message == [topic : SUBSET STRING, json : BOOLEAN, system : BOOLEAN, object : BOOLEAN, services : Seq(Service)]

Callback == STRING \ {"none"}

\* A call of a setter: the callbacks that it sets, and those of them that are not NULL.
Setting == {r \in [sets : SUBSET Callback, given : SUBSET Callback] : r.given \subseteq r.sets}

Scenario == [registrations : Seq(Setting), mail : SUBSET Message, messages : Nat, requests : BOOLEAN]

ASSUME DispatchAssumption ==
  /\ MaxServices \in Nat /\ MaxEvents \in Nat
  /\ \A s \in DOMAIN Scenarios : Scenarios[s] \in Scenario

VARIABLES
  registered,   \* how many of the Registrations were made
  callbacks,    \* the callbacks that are set
  wired,        \* onMessageA is set
  pc, msg,      \* where the MQTT thread stands, and the message in hand
  k, i,         \* the service that its loop is at, and how many places are taken
  places,       \* device_shadow->shadow or prop_set->services or event->services
  strs,         \* desired_str and reported_str, or prop
  live,         \* the strings printed for the message that are allocated
  calls,        \* history: the calls made for the message
  updates,      \* history: what was handed to the rule manager and the detection for it
  early,        \* history: the callbacks that were set when it came, and are still
  scenario,     \* one of the Scenarios
  messages      \* how many messages of it are left to come

list == <<k, i, places, strs, live>>
thread == <<pc, msg, list, calls, updates, early>>
budget == <<scenario, messages>>
application == <<registered, callbacks, wired>>
dispatchVars == <<bridgeVars, application, thread, budget>>

Registrations == Scenarios[scenario].registrations

-----------------------------------------------------------------------------
(* Registration.                                                           *)

\* These do not call MqttBase_SetMessageArrivedCallback.
Unwired == {"onDeviceConfig", "log", "ruleSendMsg", "protocol"}

\* Set...Callback sets one callback; SetTagEventsOps sets all of tagEventsOps at once, and
\* those that are NULL in ops are gone.
SetCallback ==
  LET r == Registrations[registered + 1] IN
  /\ registered < Len(Registrations)
  /\ registered' = registered + 1
  /\ callbacks' = (callbacks \ r.sets) \union r.given
  /\ wired' = (wired \/ ~ (r.sets \subseteq Unwired))
  /\ early' = early \intersect callbacks'
  /\ UNCHANGED <<bridgeVars, pc, msg, list, calls, updates, budget>>

-----------------------------------------------------------------------------
(* Topics, and the callbacks of their handlers.                            *)

\* The order in which OnMessageArrived and OnBridgeArrived look for the marks.
Order == <<"bootstrap", "messages", "v3", "command", "set", "get", "shadow", "user", "events",
           "m2m", "login", "logout", "reset_secret", "disconnect">>

Route(topic) ==
  LET found == {n \in DOMAIN Order : Order[n] \in topic}
  IN  IF found = {} THEN "undefined" ELSE Order[CHOOSE n \in found : \A o \in found : n <= o]

OneCallback == [bootstrap |-> "onBootstrap", v3 |-> "onCmdV3", command |-> "onCmd",
                get |-> "onPropertiesGet", m2m |-> "onM2mMessage"]

RawCallback == [messages |-> "onRawMessage", user |-> "onUserTopicRawMessage"]

SystemCallback == [messages |-> "onMessage", user |-> "onUserTopicMessage"]

BridgeCallback == [login |-> "onBridgesDeviceLogin", logout |-> "onBridgesDeviceLogout",
                   reset_secret |-> "onBridgesDeviceResetSecret",
                   disconnect |-> "onBridgesDeviceDisconnect"]

ListCallback == [set |-> "onPropertiesSet", shadow |-> "onDeviceShadow", events |-> "onEventDown"]

\* tagEventsOps, tagOtaOps and onDeviceConfig.
EventCallback == [sub |-> "onSubDevice", ntp |-> "onNTP", log |-> "onDeviceLog",
                  softbus |-> "onSoftBus", tunnel |-> "onTunnelManager", file |-> "onFileManager"]

OtaCallback == [version_query |-> "onDeviceVersionUp", upgrade |-> "onUrlResponse"]

IsConfig(e) == e.id = "config" /\ e.type = "update"

\* What is called for one service of an event.
ServiceCallback(e) ==
  CASE e.id \in DOMAIN EventCallback -> EventCallback[e.id]
    [] e.id = "ota" /\ e.type \in DOMAIN OtaCallback -> OtaCallback[e.type]
    [] IsConfig(e) -> "onDeviceConfig"
    [] OTHER -> "none"

ForSdk(e) == e.id \in {"rule", "detect"}

Shown(cb, what) == [cb |-> cb, shown |-> what]

\* A callback is called if it is set.
Made(c) == IF c.cb \in callbacks THEN <<c>> ELSE <<>>

Call(c) == calls' = calls \o Made(c)

\* The result of a configuration is reported whether or not there was a callback for it.
ResultReported(e, n) == IF IsConfig(e) THEN <<Shown("IOTA_RptDeviceConfigRst", n)>> ELSE <<>>

Returns == pc' = "idle"

-----------------------------------------------------------------------------
(* Arrival.                                                                *)

NoMessage == [topic |-> {}, json |-> FALSE, system |-> FALSE, object |-> FALSE, services |-> <<>>]

EmptyPlace == [service |-> 0, desired |-> 0, reported |-> 0]

NoStrings == [desired |-> 0, reported |-> 0]

\* onMessageA is called if it is set; otherwise the message is gone.  What is left of the
\* strings of the message before is out of reach for good.
MqttBase_OnMessageArrived(m) ==
  /\ pc = "idle"
  /\ msg' = m
  /\ pc' = IF wired THEN "route" ELSE "idle"
  /\ calls' = <<>> /\ updates' = <<>> /\ early' = callbacks
  /\ k' = 0 /\ i' = 0 /\ places' = <<>> /\ strs' = <<>> /\ live' = {}
  /\ UNCHANGED application

\* The platform sends a message.
Arrive ==
  /\ messages > 0
  /\ \E m \in Scenarios[scenario].mail : MqttBase_OnMessageArrived(m)
  /\ messages' = messages - 1
  /\ UNCHANGED <<bridgeVars, scenario>>

\* The platform answers a request.
Answer(r) ==
  /\ \E o \in BOOLEAN :
       MqttBase_OnMessageArrived([NoMessage EXCEPT !.topic = {r.kind}, !.json = TRUE, !.object = o])
  /\ Answered(r)
  /\ UNCHANGED budget

-----------------------------------------------------------------------------
(* Handlers with one payload.                                              *)

\* Strings that are printed for a message and that no path frees: the content of a message in
\* the system's format, the paras of a new secret, and the bus_infos of an event.
Unfreed == {"content", "paras", "bus_infos"}

\* OnBootstrapDownArrived, OnV1DevicesArrived, OnCommandsArrived, OnPropertiesGetArrived,
\* OnM2mMessagesDownArrived.  The paras of a command are freed after the call.
OnOneArrived ==
  /\ pc = "route" /\ Route(msg.topic) \in DOMAIN OneCallback
  /\ Call(Shown(OneCallback[Route(msg.topic)], <<>>))
  /\ Returns
  /\ UNCHANGED <<msg, list, updates, early>>

\* OnRawMessageDownArrived, OnUserTpoicRawMessage.
OnRawArrived ==
  /\ pc = "route" /\ Route(msg.topic) \in DOMAIN RawCallback
  /\ Call(Shown(RawCallback[Route(msg.topic)], <<>>))
  /\ pc' = "system"
  /\ UNCHANGED <<msg, list, updates, early>>

\* GetMessageInSystemFormat.
InSystemFormat == msg.system

\* The rest of OnMessagesDownArrived and OnUserTopicArrived; an object is printed.
OnSystemArrived ==
  /\ pc = "system"
  /\ IF InSystemFormat THEN Call(Shown(SystemCallback[Route(msg.topic)], <<>>)) ELSE UNCHANGED calls
  /\ live' = IF InSystemFormat /\ msg.object THEN {<<0, "content">>} ELSE live
  /\ Returns
  /\ UNCHANGED <<msg, k, i, places, strs, updates, early>>

\* OnBridgeArrived returns 0 for a message that it handled, and negative for any other.
OnBridgeArrived ==
  /\ pc = "route" /\ Route(msg.topic) \in DOMAIN BridgeCallback
  /\ Call(Shown(BridgeCallback[Route(msg.topic)], <<>>))
  /\ live' = IF Route(msg.topic) = "reset_secret" /\ msg.object THEN {<<0, "paras">>} ELSE live
  /\ pc' = "undefined"
  /\ UNCHANGED <<msg, k, i, places, strs, updates, early>>

OnOtherUndefinedTopicArrived ==
  /\ pc = "undefined"
  /\ Call(Shown("onOtherUndefined", <<>>))
  /\ Returns
  /\ UNCHANGED <<msg, list, updates, early>>

\* A topic without any of the marks: OnBridgeArrived is negative, goto EXIT.
OnNothingArrived ==
  /\ pc = "route" /\ Route(msg.topic) = "undefined"
  /\ Returns
  /\ UNCHANGED <<msg, list, calls, updates, early>>

-----------------------------------------------------------------------------
(* Handlers with a list of services.                                       *)

\* Lists that are not taken: too long, or an event that cannot be parsed.
Refused(m) ==
  LET r == Route(m.topic)
  IN  \/ r \in {"set", "shadow"} /\ Len(m.services) >= MaxServices
      \/ r = "events" /\ (Len(m.services) > MaxEvents \/ ~ m.json)

\* OnPropertiesSetArrived, OnShadowGetResponseArrived and OnEventsDownArrived up to the loop.
ListBegins ==
  /\ pc = "route" /\ Route(msg.topic) \in DOMAIN ListCallback
  /\ pc' = IF Refused(msg) THEN "idle" ELSE "loop"
  /\ k' = 1 /\ i' = 0
  /\ places' = [n \in DOMAIN msg.services |-> EmptyPlace]
  /\ strs' = [n \in DOMAIN msg.services |-> NoStrings]
  /\ UNCHANGED <<msg, live, calls, updates, early>>

InLoop(r) == pc = "loop" /\ Route(msg.topic) = r /\ k <= Len(msg.services)

\* An update of the rule manager or the detection; it is handed a string, or NULL.
Handing(e, string) == [service |-> k, id |-> e.id, string |-> string]

\* A defect: the settings of the detection are not handed on.
UpdateRulesOnly(e, string) == updates' = IF e.id = "rule" THEN Append(updates, Handing(e, string)) ELSE updates

\* The update of a service for the SDK.
Update(e, string) == updates' = IF ForSdk(e) THEN Append(updates, Handing(e, string)) ELSE updates

\* cJSON_Print of what the service has.
Printed(e, f) == IF f \in e.has THEN k ELSE 0

Strings(e, S) == {<<k, f>> : f \in e.has \intersect S}

\* The loop of OnPropertiesSetArrived: what is for the SDK is shown to the application too.
PropertiesService ==
  LET e == msg.services[k] IN
  /\ InLoop("set")
  /\ k' = k + 1
  /\ IF e.id = "absent"
       THEN UNCHANGED <<i, places, strs, live, updates>>
       ELSE /\ places' = [places EXCEPT ![i + 1] = [service |-> k, desired |-> Printed(e, "desired"),
                                                    reported |-> 0]]
            /\ strs' = [strs EXCEPT ![i + 1].desired = Printed(e, "desired")]
            /\ live' = live \union Strings(e, {"desired"})
            /\ Update(e, Printed(e, "desired"))
            /\ i' = i + 1
  /\ UNCHANGED <<pc, msg, calls, early>>

\* What the place of a service holds: what the service does not have is left as it was.
ShadowPlace(e) == [f \in DOMAIN EmptyPlace |-> IF f = "service" \/ f \in e.has THEN k ELSE places[i + 1][f]]

\* A defect: a service for the SDK takes its place in the array.
PlaceAlways(e) == i + 1

\* A defect: the count is raised at the end of the loop as well.
PlaceTwice(e) == IF ForSdk(e) THEN i + 1 ELSE i + 2

\* A service for the SDK gives its place back.
PlaceAfter(e) == IF ForSdk(e) THEN i ELSE i + 1

\* A defect: the strings of a service for the SDK are not freed in the loop.
StringsKept(e, ss) == ss

\* MemFree of both strings.
StringsAfter(e, ss) == IF ForSdk(e) THEN NoStrings ELSE ss

\* The loop of OnShadowGetResponseArrived.
ShadowService ==
  LET e == msg.services[k]
      ss == [f \in Fields |-> IF f \in e.has THEN k ELSE strs[i + 1][f]]
      left == StringsAfter(e, ss)
  IN
  /\ InLoop("shadow")
  /\ k' = k + 1
  /\ places' = [places EXCEPT ![i + 1] = ShadowPlace(e)]
  /\ strs' = [strs EXCEPT ![i + 1] = left]
  /\ live' = (live \union Strings(e, Fields)) \ {<<ss[f], f>> : f \in {g \in Fields : left[g] # ss[g]}}
  /\ Update(e, ss.desired)
  /\ i' = PlaceAfter(e)
  /\ UNCHANGED <<pc, msg, calls, early>>

\* The sub-handlers that may return -1, and the rule without parameters that returns -2.
Fails(e) ==
  \/ e.fault = "fails" /\ e.id \in {"sub", "ntp", "config"}
  \/ e.fault = "noparas" /\ e.id = "rule"

Incomplete(e) == e.id = "absent" \/ e.type = "absent"

\* The return in the loop leaves the whole event.
Aborts(e) == ~ Incomplete(e) /\ Fails(e)

\* bus_infos, if the service has paras.
BusInfos(e) == IF e.id = "softbus" /\ ~ Incomplete(e) /\ e.fault # "noparas" THEN {<<k, "bus_infos">>} ELSE {}

\* OnEventsDownArrivedJosnSplicing.  The payload of a rule is printed and freed here.
EventService ==
  LET e == msg.services[k] IN
  /\ InLoop("events")
  /\ IF Aborts(e)
       THEN Returns /\ UNCHANGED <<k, i, places, live, calls, updates>>
       ELSE /\ k' = k + 1
            /\ IF Incomplete(e) \/ e.id = "rule"
                 THEN UNCHANGED <<i, places, calls>>
                 ELSE /\ i' = i + 1
                      /\ places' = [places EXCEPT ![i + 1].service = k]
                      /\ calls' = calls \o Made(Shown(ServiceCallback(e), k)) \o ResultReported(e, k)
            /\ updates' = IF ~ Incomplete(e) /\ e.id = "rule" THEN Append(updates, Handing(e, k))
                                                              ELSE updates
            /\ live' = live \union BusInfos(e)
            /\ UNCHANGED pc
  /\ UNCHANGED <<msg, strs, early>>

\* What the application finds in a place: a string, NULL, or a string that was freed.
Seen(n) ==
  [f \in DOMAIN EmptyPlace |->
     IF f = "service" \/ places[n][f] = 0 \/ <<places[n][f], f>> \in live THEN places[n][f] ELSE -1]

\* A defect: the last place is not freed.
FreedButLast == 1..(i - 1)

\* for (j = 0; j < i; j++)
Freed == 1..i

\* After the loop the callback is shown the places that are taken; then the strings of these
\* are freed, and of an event the soft_bus_paras without their bus_infos.
ListEnds ==
  /\ pc = "loop" /\ k > Len(msg.services)
  /\ Call(Shown(ListCallback[Route(msg.topic)], [n \in 1..i |-> Seen(n)]))
  /\ live' = live \ {<<strs[n][f], f>> : n \in Freed, f \in Fields}
  /\ Returns
  /\ UNCHANGED <<msg, k, i, places, strs, updates, early>>

-----------------------------------------------------------------------------
OnMessageArrived ==
  /\ \/ OnOneArrived \/ OnRawArrived \/ OnSystemArrived
     \/ OnBridgeArrived \/ OnOtherUndefinedTopicArrived \/ OnNothingArrived
     \/ ListBegins \/ PropertiesService \/ ShadowService \/ EventService \/ ListEnds
  /\ UNCHANGED <<bridgeVars, application, budget>>

Application ==
  /\ Scenarios[scenario].requests
  /\ \E c \in Callers : Caller(c)
  /\ UNCHANGED <<application, thread, budget>>

DispatchInit ==
  /\ BridgeInit
  /\ registered = 0 /\ callbacks = {} /\ wired = FALSE
  /\ pc = "idle" /\ msg = NoMessage
  /\ k = 0 /\ i = 0 /\ places = <<>> /\ strs = <<>> /\ live = {}
  /\ calls = <<>> /\ updates = <<>> /\ early = {}
  /\ scenario \in DOMAIN Scenarios /\ messages = Scenarios[scenario].messages

DispatchNext ==
  \/ SetCallback \/ Application
  \/ Arrive \/ (\E r \in asked : Answer(r))
  \/ OnMessageArrived

DispatchSpec == DispatchInit /\ [][DispatchNext]_dispatchVars

-----------------------------------------------------------------------------
(* Properties.                                                             *)

Numbers(m) == 0..Len(m.services)

DispatchTypeOK ==
  /\ BridgeTypeOK
  /\ registered \in 0..Len(Registrations) /\ callbacks \subseteq Callback /\ wired \in BOOLEAN
  /\ pc \in {"idle", "route", "system", "undefined", "loop"}
  /\ k \in 0..(Len(msg.services) + 1) /\ i \in Numbers(msg)
  /\ \A n \in DOMAIN places : places[n] \in [DOMAIN EmptyPlace -> Numbers(msg)]
  /\ \A n \in DOMAIN strs : strs[n] \in [Fields -> Numbers(msg)]
  /\ live \subseteq Numbers(msg) \X (Fields \union Unfreed)
  /\ early \subseteq callbacks

\* The services of a list before the first that fails.
Reached(m) ==
  {n \in DOMAIN m.services : Route(m.topic) = "events" =>
     \A o \in 1..n : Incomplete(m.services[o]) \/ ~ Fails(m.services[o])}

\* The services that the callback for the list is shown.
Listed(m) ==
  {n \in DOMAIN m.services :
     CASE Route(m.topic) = "set"    -> m.services[n].id # "absent"
       [] Route(m.topic) = "shadow" -> ~ ForSdk(m.services[n])
       [] OTHER -> ~ Incomplete(m.services[n]) /\ m.services[n].id # "rule"}

\* The services that are handed on.
HandedOn(m) ==
  {n \in DOMAIN m.services :
     IF Route(m.topic) = "events" THEN m.services[n].id = "rule" /\ ~ Incomplete(m.services[n])
                                  ELSE ForSdk(m.services[n])}

\* What a callback should be told of a message, and in its turn.
At(turn, cb, told) == [turn |-> turn, cb |-> cb, told |-> told]

\* What is due for services ns of an event.
EventDue(m, ns) ==
  {At(2 * n, ServiceCallback(m.services[n]), n) : n \in {o \in ns : ~ Incomplete(m.services[o])}}
    \union {At(2 * n + 1, "IOTA_RptDeviceConfigRst", n) : n \in {o \in ns : IsConfig(m.services[o])}}

\* What is due for a message, from the message alone.
Due(m) ==
  LET r == Route(m.topic) IN
  CASE r \in DOMAIN OneCallback    -> {At(0, OneCallback[r], <<>>)}
    [] r \in DOMAIN RawCallback    -> {At(0, RawCallback[r], <<>>)} \union
                                      (IF m.system THEN {At(1, SystemCallback[r], <<>>)} ELSE {})
    [] r \in DOMAIN BridgeCallback -> {At(0, BridgeCallback[r], <<>>)}
    [] r \in DOMAIN ListCallback /\ ~ Refused(m) ->
         (IF r = "events" THEN EventDue(m, Reached(m)) ELSE {}) \union
         (IF Reached(m) = DOMAIN m.services
            THEN {At(2 * Len(m.services) + 2, ListCallback[r], Listed(m))} ELSE {})
    [] OTHER -> {}

ForList(c) == c.cb \in {ListCallback[r] : r \in DOMAIN ListCallback}

\* A call is the one that is due; of a list it tells the services that it shows.
Tells(c, d) ==
  c.cb = d.cb /\ d.told = IF ForList(c) THEN {c.shown[n].service : n \in DOMAIN c.shown} ELSE c.shown

\* Services that follow one another as in the message, none twice.
InOrder(s) == \A n, o \in DOMAIN s : n < o => s[n].service < s[o].service

\* Calls cs are among what is due, each once and in its turn, and what is due to one of the
\* callbacks cbs is among them; a list is shown in order.
Carry(cs, due, cbs) ==
  /\ \A n \in DOMAIN cs : cs[n].cb # "onOtherUndefined" => \E d \in due : Tells(cs[n], d)
  /\ \A d \in due : d.cb \in cbs => \E n \in DOMAIN cs : Tells(cs[n], d)
  /\ \A n, o \in DOMAIN cs : \A d, e \in due :
       n < o /\ Tells(cs[n], d) /\ Tells(cs[o], e) => d.turn < e.turn
  /\ \A n \in DOMAIN cs : ForList(cs[n]) => InOrder(cs[n].shown)

Handled == pc = "idle" /\ msg # NoMessage /\ early \ Unwired # {}

\* Every message reaches the callbacks of its topic that stay set while it is handled, each
\* once and in order, with exactly the services that are for the application; an event of
\* which one service fails stops there, after the calls for the services before it.
Delivered == Handled => Carry(calls, Due(msg), early \union {"IOTA_RptDeviceConfigRst"})

\* Updates us are those of services ns of the message, in order and each once, with the
\* service's own string or none.
Hand(us, m, ns) ==
  /\ {us[n].service : n \in DOMAIN us} = ns
  /\ InOrder(us)
  /\ \A n \in DOMAIN us :
       LET e == m.services[us[n].service]
       IN  /\ us[n].id = e.id
           /\ us[n].string = IF Route(m.topic) = "events" \/ "desired" \in e.has THEN us[n].service ELSE 0

\* Rules and settings of a list that is not refused are handed on once, in order, with their
\* own string or none, whether or not there is a callback for the message: all of them from
\* properties and shadows, and from an event those before its first service that fails.  The
\* return in the loop drops the rules behind that one with the rest of the event.
UpdatesOnce ==
  Handled =>
    Hand(updates, msg, IF Route(msg.topic) \in DOMAIN ListCallback /\ ~ Refused(msg)
                         THEN Reached(msg) \intersect HandedOn(msg) ELSE {})

\* What a callback is shown of a service is the service's own and allocated, or NULL.  The
\* exception: a service that lacks what a service for the SDK just before it had.
ShownIsOwn ==
  \A c \in ToSet(calls) : c.cb \in {"onPropertiesSet", "onDeviceShadow"} =>
    \A p \in ToSet(c.shown) : \A f \in Fields :
      \/ p[f] = p.service /\ f \in msg.services[p.service].has
      \/ p[f] = 0 /\ (f \notin msg.services[p.service].has \/ (c.cb = "onPropertiesSet" /\ f = "reported"))
      \/ /\ p[f] = -1 /\ f \notin msg.services[p.service].has
         /\ \E m \in 1..(p.service - 1) :
              /\ f \in msg.services[m].has
              /\ \A o \in m..(p.service - 1) : ForSdk(msg.services[o])

\* What was printed for the services of a list is freed on every path when the handler
\* returns, with the string of a service for the SDK freed in the loop already.  What may be
\* left of a message is only what the code never frees: its content (GetMessageInSystemFormat),
\* the paras of a new secret, or the bus_infos of its services.
ListStringsFreed == pc = "idle" => \A s \in live : s[2] \in Unfreed

\* The documentation: a message of no known topic reaches the callback for such messages.
UndefinedReachesCallback ==
  (Handled /\ Route(msg.topic) = "undefined" /\ "onOtherUndefined" \in early)
    => \E c \in ToSet(calls) : c.cb = "onOtherUndefined"

=============================================================================
