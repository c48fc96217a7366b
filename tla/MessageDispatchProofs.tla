------------------------ MODULE MessageDispatchProofs ------------------------
(***************************************************************************)
(* What the MQTT thread tells the application, hands on, shows and frees,  *)
(* for every list of services, every limit and every use of the callbacks. *)
(*                                                                         *)
(* In the loop of a list the strings that are allocated are those of the   *)
(* places that are taken; the place after them may hold what was printed   *)
(* from a service for the SDK, and what was freed with it.                 *)
(***************************************************************************)
EXTENDS MessageDispatch, BridgeProofs

\* The services of the message in hand, and whether one of them has a field.
Count == Len(msg.services)
Has(n) == msg.services[n].has

\* The callbacks that are shown an array of services with strings.
ArrayCallbacks == {"onPropertiesSet", "onDeviceShadow"}

\* What a place is.
Place == [DOMAIN EmptyPlace -> Int]

\* What is called for a message, or for a service of an event, but not for a list.
PlainCalls ==
  Range(OneCallback) \cup Range(RawCallback) \cup Range(SystemCallback) \cup Range(BridgeCallback)
    \cup Range(EventCallback) \cup Range(OtaCallback)
    \cup {"onDeviceConfig", "none", "IOTA_RptDeviceConfigRst", "onOtherUndefined"}

\* What the application is told.
Telling == [cb : PlainCalls \cup Range(ListCallback), shown : Seq(Place) \cup Nat]

\* The message in hand has services, the calls for it are calls, and the loop is one of a list.
InHand ==
  /\ msg.services \in Seq(Service)
  /\ calls \in Seq(Telling)
  /\ scenario \in DOMAIN Scenarios
  /\ pc = "system" => Route(msg.topic) \in DOMAIN SystemCallback
  /\ pc = "loop" =>
       /\ Route(msg.topic) \in DOMAIN ListCallback
       /\ DOMAIN places = 1..Count /\ DOMAIN strs = 1..Count
       /\ k >= 1 /\ i < k

\* Strings that no path frees.
Unowned == (0..Count) \X Unfreed

\* Nothing is allocated when a handler begins.  In the loop of properties or a shadow the
\* strings that are allocated are those of the places that are taken; an event has none of
\* these, and neither has a message that is done with.
Allocated ==
  /\ pc \in {"route", "system"} => live = {}
  /\ pc # "loop" => live \subseteq Unowned
  /\ pc = "loop" =>
       /\ \A n \in (i + 1)..Count : strs[n] = NoStrings
       /\ IF Route(msg.topic) = "events" THEN live \subseteq Unowned
            ELSE \A x \in live : \E n \in 1..i, f \in Fields : x = <<strs[n][f], f>>

\* What service s finds in place of a field that it lacks: nothing, or what the services for
\* the SDK just before it have left.
Left(m, f, s) ==
  \/ m = 0
  \/ m \in 1..(s - 1) /\ f \in Has(m) /\ \A o \in m..(s - 1) : ForSdk(msg.services[o])

\* The places that the loop of a property message has filled.
PropertiesPlaced ==
  \A n \in 1..i :
    LET s == places[n].service
    IN  /\ s \in 1..(k - 1)
        /\ places[n].reported = 0
        /\ IF "desired" \in Has(s) THEN places[n].desired = s /\ <<s, "desired">> \in live
                                   ELSE places[n].desired = 0

\* The places that the loop of a shadow has filled, and those it has not.
ShadowPlaced ==
  /\ \A n \in 1..i :
       LET s == places[n].service
       IN  /\ s \in 1..(k - 1)
           /\ \A f \in Fields : IF f \in Has(s) THEN places[n][f] = s /\ <<s, f>> \in live
                                               ELSE Left(places[n][f], f, s)
  /\ \A n \in (i + 1)..Count, f \in Fields :
       IF n = i + 1 THEN Left(places[n][f], f, k) ELSE places[n][f] = 0
  /\ \A m \in 0..Count, f \in Fields : <<m, f>> \in live => m \in 1..(k - 1) /\ ~ ForSdk(msg.services[m])

\* What the loops over properties and over a shadow have placed so far.
Placed ==
  /\ pc = "loop" /\ Route(msg.topic) = "set" => PropertiesPlaced
  /\ pc = "loop" /\ Route(msg.topic) = "shadow" => ShadowPlaced

\* The types of what the MQTT thread works on.
LoopTyped ==
  /\ pc \in {"idle", "route", "system", "undefined", "loop"}
  /\ k \in 0..(Count + 1) /\ i \in 0..Count
  /\ \A n \in DOMAIN places : places[n] \in [DOMAIN EmptyPlace -> 0..Count]
  /\ \A n \in DOMAIN strs : strs[n] \in [Fields -> 0..Count]
  /\ live \subseteq (0..Count) \X (Fields \cup Unfreed)

\* The invariant of the MQTT thread.
ThreadInvariant == LoopTyped /\ InHand /\ Allocated /\ Placed /\ ShownIsOwn

-----------------------------------------------------------------------------
(* Calls.                                                                  *)

\* What a call that is made may show of the message in hand.
Own(c) ==
  c.cb \in ArrayCallbacks =>
    \A p \in ToSet(c.shown) : \A f \in Fields :
      \/ p[f] = p.service /\ f \in Has(p.service)
      \/ p[f] = 0 /\ (f \notin Has(p.service) \/ (c.cb = "onPropertiesSet" /\ f = "reported"))
      \/ /\ p[f] = -1 /\ f \notin Has(p.service)
         /\ \E m \in 1..(p.service - 1) :
              /\ f \in Has(m)
              /\ \A o \in m..(p.service - 1) : ForSdk(msg.services[o])

\* The elements of a sequence.
LEMMA Elements ==
  ASSUME NEW S, NEW s \in Seq(S)
  PROVE  ToSet(s) = {s[n] : n \in 1..Len(s)}
BY DEF ToSet

\* ShownIsOwn looks at every call.
LEMMA OwnCalls ==
  ASSUME calls \in Seq(Telling)
  PROVE  ShownIsOwn <=> \A n \in 1..Len(calls) : Own(calls[n])
<1>1. ShownIsOwn <=> \A c \in ToSet(calls) : Own(c)
  BY Zenon DEF ShownIsOwn, Own, ArrayCallbacks, Has
<1>2. ToSet(calls) = {calls[n] : n \in 1..Len(calls)}
  BY Elements
<1> QED BY <1>1, <1>2

\* Sequences are put together in any order.
LEMMA Associative ==
  ASSUME NEW S, NEW a \in Seq(S), NEW b \in Seq(S), NEW c \in Seq(S)
  PROVE  (a \o b) \o c = a \o (b \o c)
<1>1. a \o b \in Seq(S) /\ Len(a \o b) = Len(a) + Len(b)
  OBVIOUS
<1>2. b \o c \in Seq(S) /\ Len(b \o c) = Len(b) + Len(c)
  OBVIOUS
<1> QED BY <1>1, <1>2

\* More calls of their own do no harm.
LEMMA MoreCalls ==
  ASSUME calls \in Seq(Telling), ShownIsOwn, UNCHANGED msg,
         NEW t \in Seq(Telling), \A n \in 1..Len(t) : Own(t[n]), calls' = calls \o t
  PROVE  calls' \in Seq(Telling) /\ ShownIsOwn'
<1>1. calls' \in Seq(Telling) /\ Len(calls') = Len(calls) + Len(t)
  OBVIOUS
<1>2. \A n \in 1..Len(calls') : calls'[n] = IF n <= Len(calls) THEN calls[n] ELSE t[n - Len(calls)]
  OBVIOUS
<1>3. \A n \in 1..Len(calls) : Own(calls[n])
  BY OwnCalls
<1>4. \A n \in 1..Len(calls') : Own(calls'[n])
  BY <1>2, <1>3
<1>5. \A c : Own(c) <=> Own(c)'
  BY ZenonT(60) DEF Own, Has
<1>6. ToSet(calls') = {calls'[n] : n \in 1..Len(calls')}
  <2>1. \A s \in Seq(Telling) : ToSet(s) = {s[n] : n \in 1..Len(s)}
    BY Elements
  <2> QED BY ONLY <1>1, <2>1
<1>7. \A c \in ToSet(calls') : Own(c)'
  BY <1>4, <1>5, <1>6
<1> QED BY <1>1, <1>7, Zenon DEF ShownIsOwn, Own, ArrayCallbacks, Has

\* The callback for a message that is no list is none of those for arrays.
LEMMA PlainCallbacks == PlainCalls \cap ArrayCallbacks = {} /\ \A e : ServiceCallback(e) \in PlainCalls
<1>1. Range(OneCallback) \cap ArrayCallbacks = {}
  BY DEF OneCallback, ArrayCallbacks, Range
<1>2. Range(RawCallback) \cap ArrayCallbacks = {}
  BY DEF RawCallback, ArrayCallbacks, Range
<1>3. Range(SystemCallback) \cap ArrayCallbacks = {}
  BY DEF SystemCallback, ArrayCallbacks, Range
<1>4. Range(BridgeCallback) \cap ArrayCallbacks = {}
  BY DEF BridgeCallback, ArrayCallbacks, Range
<1>5. Range(EventCallback) \cap ArrayCallbacks = {}
  BY DEF EventCallback, ArrayCallbacks, Range
<1>6. Range(OtaCallback) \cap ArrayCallbacks = {}
  BY DEF OtaCallback, ArrayCallbacks, Range
<1>7. {"onDeviceConfig", "none", "IOTA_RptDeviceConfigRst", "onOtherUndefined"} \cap ArrayCallbacks = {}
  BY DEF ArrayCallbacks
<1>8. \A e : ServiceCallback(e) \in PlainCalls
  BY DEF ServiceCallback, PlainCalls, Range
<1> QED BY <1>1, <1>2, <1>3, <1>4, <1>5, <1>6, <1>7, <1>8 DEF PlainCalls

\* Without a call nothing is shown.
LEMMA SameCalls == ShownIsOwn /\ UNCHANGED <<msg, calls>> => ShownIsOwn'
<1> SUFFICES ASSUME ShownIsOwn, UNCHANGED <<msg, calls>> PROVE ShownIsOwn'
  OBVIOUS
<1>1. \A c : Own(c) <=> Own(c)'
  BY ZenonT(60) DEF Own, Has
<1>2. \A c \in ToSet(calls) : Own(c)
  BY Zenon DEF ShownIsOwn, Own, ArrayCallbacks, Has
<1>3. \A c \in ToSet(calls)' : Own(c)'
  BY <1>1, <1>2, Zenon
<1> QED BY <1>3, Zenon DEF ShownIsOwn, Own, ArrayCallbacks, Has

\* A call without an array of services.
LEMMA PlainCall ==
  ASSUME calls \in Seq(Telling), ShownIsOwn, UNCHANGED msg,
         NEW cb \in PlainCalls, NEW what \in Seq(Place) \cup Nat, Call(Shown(cb, what))
  PROVE  calls' \in Seq(Telling) /\ ShownIsOwn'
<1>1. Shown(cb, what) \in Telling /\ Own(Shown(cb, what))
  BY PlainCallbacks DEF Shown, Telling, Own
<1>2. \A n \in 1..Len(Made(Shown(cb, what))) : Own(Made(Shown(cb, what))[n])
  BY <1>1 DEF Made
<1>3. Made(Shown(cb, what)) \in Seq(Telling)
  BY <1>1 DEF Made
<1> QED BY <1>2, <1>3, MoreCalls DEF Call


-----------------------------------------------------------------------------
(* The steps of the MQTT thread.                                           *)

\* A place is typed like what it is made from.
LEMMA PlaceFields == DOMAIN EmptyPlace = Fields \cup {"service"} /\ "service" \notin Fields
BY DEF EmptyPlace, Fields

\* A message arrives.
LEMMA ArrivalKeeps ==
  ASSUME ThreadInvariant, NEW m, m.services \in Seq(Service), MqttBase_OnMessageArrived(m), UNCHANGED scenario
  PROVE  ThreadInvariant'
<1>1. /\ msg' = m /\ pc' \in {"route", "idle"} /\ calls' = <<>> /\ live' = {}
      /\ k' = 0 /\ i' = 0 /\ places' = <<>> /\ strs' = <<>>
  BY DEF MqttBase_OnMessageArrived
<1>2. LoopTyped'
  BY <1>1 DEF LoopTyped, Count
<1>3. InHand'
  BY <1>1 DEF ThreadInvariant, InHand
<1>4. ToSet(calls') = {}
  BY <1>1 DEF ToSet
<1>5. ShownIsOwn'
  BY <1>4, Zenon DEF ShownIsOwn
<1>6. Allocated' /\ Placed'
  BY <1>1 DEF Allocated, Placed
<1> QED BY <1>2, <1>3, <1>5, <1>6 DEF ThreadInvariant

\* A handler that has no loop.
LEMMA PlainKeeps ==
  ASSUME ThreadInvariant, UNCHANGED <<msg, k, i, places, strs>>, UNCHANGED scenario, pc # "loop",
         live' = {} \/ (pc' # "system" /\ live' \subseteq Unowned),
         pc' \in {"idle", "undefined", "system"}, pc' = "system" => Route(msg.topic) \in DOMAIN SystemCallback,
         calls' \in Seq(Telling), ShownIsOwn'
  PROVE  ThreadInvariant'
<1>0. Count' = Count /\ Unowned' = Unowned /\ Unowned \subseteq (0..Count) \X (Fields \cup Unfreed)
  BY DEF Count, Unowned
<1>1. LoopTyped'
  BY <1>0 DEF ThreadInvariant, LoopTyped
<1>2. InHand'
  BY DEF ThreadInvariant, InHand
<1>3. Allocated' /\ Placed'
  BY <1>0 DEF Allocated, Placed
<1> QED BY <1>1, <1>2, <1>3 DEF ThreadInvariant

\* The handlers with one payload call one callback each.
LEMMA OneKeeps ==
  ASSUME ThreadInvariant, UNCHANGED scenario,
         \/ OnOneArrived \/ OnRawArrived \/ OnSystemArrived
         \/ OnBridgeArrived \/ OnOtherUndefinedTopicArrived \/ OnNothingArrived
  PROVE  ThreadInvariant'
<1> USE DEF Returns
<1> DEFINE r == Route(msg.topic)
<1>0. /\ DOMAIN SystemCallback = DOMAIN RawCallback /\ <<>> \in Seq(Place)
      /\ calls \in Seq(Telling) /\ ShownIsOwn
      /\ pc = "system" => r \in DOMAIN SystemCallback
      /\ pc \in {"route", "system"} => live = {}
      /\ pc # "loop" => live \subseteq Unowned
  BY DEF SystemCallback, RawCallback, ThreadInvariant, InHand, Allocated
<1>n. <<0, "content">> \in Unowned /\ <<0, "paras">> \in Unowned
  BY DEF Unowned, Unfreed, Count, ThreadInvariant, InHand
<1>1. CASE OnOneArrived
  <2>1. OneCallback[r] \in PlainCalls
    BY <1>1 DEF OnOneArrived, PlainCalls, Range
  <2>2. UNCHANGED <<msg, k, i, places, strs, live>> /\ pc = "route" /\ pc' = "idle" /\ Call(Shown(OneCallback[r], <<>>))
    BY <1>1 DEF OnOneArrived, list
  <2>3. calls' \in Seq(Telling) /\ ShownIsOwn'
    BY <1>0, <2>1, <2>2, PlainCall
  <2>4. /\ pc # "loop" /\ pc' # "system" /\ pc' \in {"idle", "undefined", "system"}
        /\ live' \subseteq Unowned
    BY <1>0, <1>n, <2>2
  <2> QED BY <2>2, <2>3, <2>4, PlainKeeps
<1>2. CASE OnRawArrived
  <2>1. RawCallback[r] \in PlainCalls
    BY <1>2 DEF OnRawArrived, PlainCalls, Range
  <2>2. /\ UNCHANGED <<msg, k, i, places, strs, live>> /\ pc = "route" /\ pc' = "system"
        /\ Call(Shown(RawCallback[r], <<>>)) /\ r \in DOMAIN RawCallback
    BY <1>2 DEF OnRawArrived, list
  <2>3. calls' \in Seq(Telling) /\ ShownIsOwn'
    BY <1>0, <2>1, <2>2, PlainCall
  <2>4. pc # "loop" /\ live' = {} /\ pc' \in {"idle", "undefined", "system"}
    BY <1>0, <2>2
  <2> QED BY <1>0, <2>2, <2>3, <2>4, PlainKeeps
<1>3. CASE OnSystemArrived
  <2>1. SystemCallback[r] \in PlainCalls
    BY <1>0, <1>3 DEF OnSystemArrived, PlainCalls, Range
  <2>2. calls' \in Seq(Telling) /\ ShownIsOwn'
    <3>1. CASE InSystemFormat
      BY <1>0, <1>3, <2>1, <3>1, PlainCall DEF OnSystemArrived
    <3>2. CASE ~ InSystemFormat
      BY <1>0, <1>3, <3>2, SameCalls DEF OnSystemArrived
    <3> QED BY <3>1, <3>2
  <2>3. /\ UNCHANGED <<msg, k, i, places, strs>> /\ pc = "system" /\ pc' = "idle"
        /\ live' \in {live, {<<0, "content">>}}
    BY <1>3 DEF OnSystemArrived
  <2>4. /\ pc # "loop" /\ pc' # "system" /\ pc' \in {"idle", "undefined", "system"}
        /\ live' \subseteq Unowned
    BY <1>0, <1>n, <2>3
  <2> QED BY <2>2, <2>3, <2>4, PlainKeeps
<1>4. CASE OnBridgeArrived
  <2>1. BridgeCallback[r] \in PlainCalls
    BY <1>4 DEF OnBridgeArrived, PlainCalls, Range
  <2>2. /\ UNCHANGED <<msg, k, i, places, strs>> /\ pc = "route" /\ pc' = "undefined"
        /\ Call(Shown(BridgeCallback[r], <<>>)) /\ live' \in {live, {<<0, "paras">>}}
    BY <1>4 DEF OnBridgeArrived
  <2>3. calls' \in Seq(Telling) /\ ShownIsOwn'
    BY <1>0, <2>1, <2>2, PlainCall
  <2>4. /\ pc # "loop" /\ pc' # "system" /\ pc' \in {"idle", "undefined", "system"}
        /\ live' \subseteq Unowned
    BY <1>0, <1>n, <2>2
  <2> QED BY <2>2, <2>3, <2>4, PlainKeeps
<1>5. CASE OnOtherUndefinedTopicArrived
  <2>1. "onOtherUndefined" \in PlainCalls
    BY DEF PlainCalls
  <2>2. /\ UNCHANGED <<msg, k, i, places, strs, live>> /\ pc = "undefined" /\ pc' = "idle"
        /\ Call(Shown("onOtherUndefined", <<>>))
    BY <1>5 DEF OnOtherUndefinedTopicArrived, list
  <2>3. calls' \in Seq(Telling) /\ ShownIsOwn'
    BY <1>0, <2>1, <2>2, PlainCall
  <2>4. /\ pc # "loop" /\ pc' # "system" /\ pc' \in {"idle", "undefined", "system"}
        /\ live' \subseteq Unowned
    BY <1>0, <1>n, <2>2
  <2> QED BY <2>2, <2>3, <2>4, PlainKeeps
<1>6. CASE OnNothingArrived
  <2>1. UNCHANGED <<msg, calls>>
    BY <1>6 DEF OnNothingArrived
  <2>2. ShownIsOwn'
    BY <1>0, <2>1, SameCalls
  <2>3. UNCHANGED <<msg, k, i, places, strs, live>> /\ pc # "loop" /\ pc' = "idle" /\ live' = {}
    BY <1>0, <1>6 DEF OnNothingArrived, list
  <2> QED BY <1>0, <2>1, <2>2, <2>3, PlainKeeps
<1> QED BY <1>1, <1>2, <1>3, <1>4, <1>5, <1>6

\* A loop begins with nothing in its places.
LEMMA BeginKeeps ==
  ASSUME ThreadInvariant, ListBegins, UNCHANGED scenario
  PROVE  ThreadInvariant'
<1> USE DEF ThreadInvariant, ListBegins
<1>1. /\ UNCHANGED <<msg, calls, live>> /\ live = {} /\ k' = 1 /\ i' = 0
      /\ pc' \in {"idle", "loop"} /\ Route(msg.topic) \in DOMAIN ListCallback
      /\ DOMAIN places' = 1..Count /\ DOMAIN strs' = 1..Count /\ Count \in Nat
      /\ \A n \in 1..Count : places'[n] = EmptyPlace /\ strs'[n] = NoStrings
  BY DEF Allocated, InHand, Count
<1>2. EmptyPlace \in [DOMAIN EmptyPlace -> 0..Count] /\ NoStrings \in [Fields -> 0..Count]
  BY <1>1 DEF EmptyPlace, NoStrings, Fields
<1>3. LoopTyped'
  BY <1>1, <1>2 DEF LoopTyped, Count
<1>4. InHand'
  BY <1>1 DEF InHand, Count
<1>5. ShownIsOwn'
  BY <1>1, SameCalls
<1>6. Allocated'
  BY <1>1 DEF Allocated, Count
<1>7. \A f \in Fields : EmptyPlace[f] = 0
  BY DEF EmptyPlace, Fields
<1>8. PropertiesPlaced' /\ ShadowPlaced'
  BY <1>1, <1>7 DEF PropertiesPlaced, ShadowPlaced, Left, Count
<1> QED BY <1>3, <1>4, <1>5, <1>6, <1>8 DEF Placed

\* What is known at the head of a loop that has a service to look at.
AtService ==
  /\ pc = "loop"
  /\ msg.services \in Seq(Service) /\ Count \in Nat /\ k \in 1..Count /\ i \in 0..(k - 1) /\ i + 1 \in 1..Count
  /\ msg.services[k] \in Service /\ msg.services[k].has \subseteq Fields
  /\ DOMAIN places = 1..Count /\ DOMAIN strs = 1..Count
  /\ \A n \in 1..Count : places[n] \in [DOMAIN EmptyPlace -> 0..Count] /\ strs[n] \in [Fields -> 0..Count]
  /\ \A n \in (i + 1)..Count : strs[n] = NoStrings

\* The strings that are allocated in the loop over properties or a shadow.
Taken ==
  /\ live \subseteq (0..Count) \X Fields
  /\ \A x \in live : \E n \in 1..i, f \in Fields : x = <<strs[n][f], f>>

\* A step of a list works on a service of the message, with a place left for it.
LEMMA ServiceInHand ==
  ASSUME ThreadInvariant, NEW r, InLoop(r)
  PROVE  /\ AtService /\ Route(msg.topic) = r /\ r \in DOMAIN ListCallback
         /\ IF r = "events" THEN live \subseteq Unowned ELSE Taken
<1>1. pc = "loop" /\ Route(msg.topic) = r /\ k <= Len(msg.services)
  BY DEF InLoop
<1>2. /\ r \in DOMAIN ListCallback /\ msg.services \in Seq(Service) /\ k >= 1 /\ i < k
      /\ DOMAIN places = 1..Count /\ DOMAIN strs = 1..Count
  BY <1>1 DEF ThreadInvariant, InHand
<1>3. Count \in Nat /\ Count = Len(msg.services)
  BY <1>2 DEF Count
<1>4. k \in 1..Count /\ i \in 0..(k - 1) /\ i + 1 \in 1..Count
  BY <1>1, <1>2, <1>3 DEF ThreadInvariant, LoopTyped
<1>5. msg.services[k] \in Service
  BY <1>2, <1>3, <1>4
<1>6. msg.services[k].has \subseteq Fields
  BY <1>5 DEF Service
<1>7. \A n \in 1..Count : places[n] \in [DOMAIN EmptyPlace -> 0..Count] /\ strs[n] \in [Fields -> 0..Count]
  BY <1>2 DEF ThreadInvariant, LoopTyped
<1>8. \A n \in (i + 1)..Count : strs[n] = NoStrings
  BY <1>1 DEF ThreadInvariant, Allocated
<1>9. CASE r = "events"
  BY <1>1, <1>2, <1>3, <1>4, <1>5, <1>6, <1>7, <1>8, <1>9 DEF AtService, ThreadInvariant, Allocated
<1>10. CASE r # "events"
  <2>1. \A x \in live : \E n \in 1..i, f \in Fields : x = <<strs[n][f], f>>
    BY <1>1, <1>10 DEF ThreadInvariant, Allocated
  <2>2. \A n \in 1..i, f \in Fields : strs[n][f] \in 0..Count
    BY <1>3, <1>4, <1>7
  <2>3. live \subseteq (0..Count) \X Fields
    BY <2>1, <2>2
  <2> QED BY <1>1, <1>2, <1>3, <1>4, <1>5, <1>6, <1>7, <1>8, <1>10, <2>1, <2>3 DEF AtService, Taken
<1> QED BY <1>9, <1>10

\* A service of a property message.
LEMMA PropertiesKeeps ==
  ASSUME ThreadInvariant, PropertiesService, UNCHANGED scenario
  PROVE  ThreadInvariant'
<1> DEFINE e == msg.services[k]
           D == Printed(e, "desired")
<1>1. InLoop("set") /\ k' = k + 1 /\ UNCHANGED <<pc, msg, calls>>
  BY DEF PropertiesService
<1>0. AtService /\ Taken
  BY <1>1, ServiceInHand
<1> USE <1>0 DEF AtService, Taken
<1>2. ShownIsOwn' /\ Count' = Count
  BY <1>1, SameCalls DEF ThreadInvariant, Count
<1>3. PropertiesPlaced /\ Route(msg.topic) = "set"
  BY <1>1 DEF InLoop, ThreadInvariant, Placed
<1>4. CASE UNCHANGED <<i, places, strs, live>>
  <2>1. LoopTyped'
    BY <1>1, <1>2, <1>4 DEF ThreadInvariant, LoopTyped
  <2>2. InHand'
    BY <1>1, <1>2, <1>4 DEF ThreadInvariant, InHand
  <2>3. Allocated'
    <3>1. pc' = "loop" /\ Route(msg.topic)' = "set"
      BY <1>1, <1>3
    <3> QED BY <1>2, <1>4, <3>1 DEF Allocated
  <2>4. PropertiesPlaced'
    <3>1. k' - 1 = k /\ \A s : Has(s)' = Has(s)
      BY <1>1 DEF Has
    <3>2. \A s \in 1..(k - 1) : s \in 1..k
      OBVIOUS
    <3> QED BY ONLY <1>3, <1>4, <3>1, <3>2 DEF PropertiesPlaced
  <2>5. Placed'
    BY <1>1, <1>3, <2>4 DEF Placed
  <2> QED BY <1>2, <2>1, <2>2, <2>3, <2>5 DEF ThreadInvariant
<1>5. CASE i' # i
  <2>1. /\ places' = [places EXCEPT ![i + 1] = [service |-> k, desired |-> D, reported |-> 0]]
        /\ strs' = [strs EXCEPT ![i + 1].desired = D]
        /\ live' = live \cup Strings(e, {"desired"})
        /\ i' = i + 1
    BY <1>5 DEF PropertiesService
  <2>2. /\ D = IF "desired" \in e.has THEN k ELSE 0
        /\ D \in 0..Count /\ k \in 0..Count /\ i + 1 \in 1..Count /\ i \in Nat /\ k \in Nat /\ i < k
    BY DEF Printed
  <2>3. /\ \A x : x \in live' <=> x \in live \/ ("desired" \in e.has /\ x = <<k, "desired">>)
        /\ live' \subseteq (0..Count) \X Fields
    BY <2>1, <2>2, SMTT(30) DEF Strings, Fields
  <2>4. /\ DOMAIN places' = 1..Count
        /\ \A n \in 1..Count : n # i + 1 => places'[n] = places[n]
        /\ places'[i + 1].service = k /\ places'[i + 1].desired = D /\ places'[i + 1].reported = 0
        /\ places'[i + 1] \in [DOMAIN EmptyPlace -> 0..Count]
    <3> DEFINE q == [service |-> k, desired |-> D, reported |-> 0]
    <3>1. q \in [DOMAIN EmptyPlace -> 0..Count] /\ q.service = k /\ q.desired = D /\ q.reported = 0
      BY <2>2, SMTT(30) DEF EmptyPlace
    <3>2. places' = [places EXCEPT ![i + 1] = q]
      BY <2>1
    <3> HIDE DEF q
    <3> QED BY <2>2, <3>1, <3>2
  <2>5. /\ DOMAIN strs' = 1..Count
        /\ \A n \in 1..Count : n # i + 1 => strs'[n] = strs[n]
        /\ strs'[i + 1] \in [Fields -> 0..Count] /\ strs'[i + 1]["desired"] = D
    <3> DEFINE q == [strs[i + 1] EXCEPT !.desired = D]
    <3>1. q \in [Fields -> 0..Count] /\ q["desired"] = D
      BY <2>2 DEF Fields
    <3>2. strs' = [strs EXCEPT ![i + 1] = q]
      BY <2>1
    <3> HIDE DEF q
    <3> QED BY <2>2, <3>1, <3>2
  <2>6. LoopTyped'
    <3>1. \A n \in 1..Count : places'[n] \in [DOMAIN EmptyPlace -> 0..Count] /\ strs'[n] \in [Fields -> 0..Count]
      BY <2>4, <2>5
    <3>2. pc' = "loop" /\ k' \in 0..(Count + 1) /\ i' \in 0..Count
      BY <1>1, <2>1, <2>2
    <3> QED BY <1>2, <2>3, <2>4, <2>5, <3>1, <3>2 DEF LoopTyped
  <2>7. InHand'
    BY <1>1, <1>2, <2>1, <2>2, <2>4, <2>5 DEF ThreadInvariant, InHand
  <2>8. Allocated'
    <3>1. ASSUME NEW x \in live' PROVE \E n \in 1..i', f \in Fields : x = <<strs'[n][f], f>>
      <4>1. CASE x \in live
        <5>1. PICK n \in 1..i, f \in Fields : x = <<strs[n][f], f>>
          BY <4>1
        <5>2. n \in 1..Count /\ n # i + 1 /\ n \in 1..(i + 1)
          BY <2>2
        <5> QED BY <2>1, <2>5, <5>1, <5>2
      <4>2. CASE "desired" \in e.has /\ x = <<k, "desired">>
        BY <2>1, <2>2, <2>5, <4>2 DEF Fields
      <4> QED BY <2>3, <3>1, <4>1, <4>2
    <3>2. \A n \in (i' + 1)..Count : strs'[n] = NoStrings
      BY <2>1, <2>2, <2>5
    <3> QED BY <1>1, <1>2, <1>3, <3>1, <3>2 DEF Allocated, InLoop
  <2>9. PropertiesPlaced'
    <3>1. ASSUME NEW n \in 1..i'
          PROVE  LET s == places'[n].service
                 IN  /\ s \in 1..k
                     /\ places'[n].reported = 0
                     /\ IF "desired" \in Has(s) THEN places'[n].desired = s /\ <<s, "desired">> \in live'
                                                ELSE places'[n].desired = 0
      <4>1. CASE n = i + 1
        <5>1. "desired" \in Has(k) => <<k, "desired">> \in live'
          BY <2>3 DEF Has
        <5>2. k \in 1..k /\ (D = IF "desired" \in Has(k) THEN k ELSE 0)
          BY <2>2 DEF Has
        <5> QED BY ONLY <2>4, <4>1, <5>1, <5>2
      <4>2. CASE n # i + 1
        <5>1. n \in 1..i /\ places'[n] = places[n]
          BY <2>1, <2>2, <2>4, <4>2
        <5>2. LET s == places[n].service
              IN  /\ s \in 1..(k - 1)
                  /\ places[n].reported = 0
                  /\ IF "desired" \in Has(s) THEN places[n].desired = s /\ <<s, "desired">> \in live
                                             ELSE places[n].desired = 0
          BY ONLY <1>3, <5>1 DEF PropertiesPlaced
        <5>3. \A x : x \in live => x \in live'
          BY ONLY <2>3
        <5> QED BY ONLY <2>2, <5>1, <5>2, <5>3
      <4> QED BY <4>1, <4>2
    <3>2. k' - 1 = k /\ \A s : Has(s)' = Has(s)
      BY <1>1, <2>2 DEF Has
    <3> QED BY <3>1, <3>2 DEF PropertiesPlaced
  <2> QED BY <1>1, <1>2, <1>3, <2>6, <2>7, <2>8, <2>9 DEF ThreadInvariant, Placed
<1> QED BY <1>4, <1>5 DEF PropertiesService

\* What the loop of a shadow does to its place, its strings and what is allocated.
LEMMA ShadowMoves ==
  ASSUME ThreadInvariant, ShadowService
  PROVE  LET e == msg.services[k] IN
         /\ DOMAIN places' = 1..Count /\ DOMAIN strs' = 1..Count
         /\ \A n \in 1..Count : n # i + 1 => places'[n] = places[n] /\ strs'[n] = strs[n]
         /\ places'[i + 1] \in [DOMAIN EmptyPlace -> 0..Count]
         /\ places'[i + 1].service = k
         /\ \A f \in Fields : places'[i + 1][f] = IF f \in e.has THEN k ELSE places[i + 1][f]
         /\ IF ForSdk(e)
              THEN i' = i /\ strs'[i + 1] = NoStrings /\ live' = live
              ELSE /\ i' = i + 1
                   /\ strs'[i + 1] \in [Fields -> 0..Count]
                   /\ \A f \in Fields : strs'[i + 1][f] = IF f \in e.has THEN k ELSE 0
                   /\ \A x : x \in live' <=> x \in live \/ \E f \in e.has : x = <<k, f>>
<1> DEFINE e == msg.services[k]
           ss == [f \in Fields |-> IF f \in e.has THEN k ELSE strs[i + 1][f]]
           left == StringsAfter(e, ss)
<1>0. InLoop("shadow")
  BY DEF ShadowService
<1>1. AtService /\ Taken
  BY <1>0, ServiceInHand
<1>2. ShadowPlaced
  BY <1>0 DEF InLoop, ThreadInvariant, Placed
<1> USE <1>1 DEF AtService, Taken
<1>3. /\ places' = [places EXCEPT ![i + 1] = ShadowPlace(e)]
      /\ strs' = [strs EXCEPT ![i + 1] = left]
      /\ live' = (live \cup Strings(e, Fields)) \ {<<ss[f], f>> : f \in {g \in Fields : left[g] # ss[g]}}
      /\ i' = PlaceAfter(e)
  BY DEF ShadowService
<1>4. /\ ShadowPlace(e) \in [DOMAIN EmptyPlace -> 0..Count]
      /\ ShadowPlace(e).service = k
      /\ \A f \in Fields : ShadowPlace(e)[f] = IF f \in e.has THEN k ELSE places[i + 1][f]
  BY PlaceFields, SMTT(30) DEF ShadowPlace
<1>5. \A f \in Fields : NoStrings[f] = 0
  BY DEF NoStrings, Fields
<1>6. /\ ss \in [Fields -> 0..Count]
      /\ \A f \in Fields : ss[f] = IF f \in e.has THEN k ELSE 0
  BY <1>5
<1>7. NoStrings \in [Fields -> 0..Count]
  BY DEF NoStrings, Fields
<1>8. CASE ForSdk(e)
  <2>1. left = NoStrings /\ i' = i
    BY <1>3, <1>8 DEF StringsAfter, PlaceAfter
  <2>2. \A x : x \in live => ~ \E f \in Fields : x = <<k, f>>
    BY <1>2 DEF ShadowPlaced
  <2>3. {<<ss[f], f>> : f \in {g \in Fields : left[g] # ss[g]}} = Strings(e, Fields)
    <3>1. \A f \in Fields : left[f] # ss[f] <=> f \in e.has
      BY <1>5, <1>6, <2>1
    <3>2. \A f \in e.has : ss[f] = k
      BY <1>6
    <3>3. {g \in Fields : left[g] # ss[g]} = e.has /\ e.has \cap Fields = e.has
      BY <3>1
    <3> HIDE DEF left, ss
    <3> QED BY <3>2, <3>3 DEF Strings
  <2>4. live' = live
    <3>1. \A x : x \in Strings(e, Fields) => \E f \in Fields : x = <<k, f>>
      BY DEF Strings
    <3> QED BY <1>3, <2>2, <2>3, <3>1
  <2> HIDE DEF left, ss
  <2> QED BY <1>3, <1>4, <1>8, <2>1, <2>4
<1>9. CASE ~ ForSdk(e)
  <2>1. left = ss /\ i' = i + 1
    BY <1>3, <1>9 DEF StringsAfter, PlaceAfter
  <2>2. live' = live \cup Strings(e, Fields)
    BY <1>3, <2>1
  <2>3. \A x : x \in live' <=> x \in live \/ \E f \in e.has : x = <<k, f>>
    BY <2>2 DEF Strings
  <2> HIDE DEF left, ss
  <2> QED BY <1>3, <1>4, <1>6, <1>9, <2>1, <2>3
<1> QED BY <1>8, <1>9

\* A service of a shadow.
LEMMA ShadowKeeps ==
  ASSUME ThreadInvariant, ShadowService, UNCHANGED scenario
  PROVE  ThreadInvariant'
<1> DEFINE e == msg.services[k]
<1>1. InLoop("shadow") /\ k' = k + 1 /\ UNCHANGED <<pc, msg, calls>>
  BY DEF ShadowService
<1>2. AtService /\ Taken
  BY <1>1, ServiceInHand
<1> USE <1>2 DEF AtService, Taken
<1>3. ShownIsOwn' /\ Count' = Count /\ \A n : Has(n)' = Has(n)
  BY <1>1, SameCalls DEF ThreadInvariant, Count, Has
<1>4. ShadowPlaced /\ Route(msg.topic) = "shadow"
  BY <1>1 DEF InLoop, ThreadInvariant, Placed
<1>5. /\ DOMAIN places' = 1..Count /\ DOMAIN strs' = 1..Count
      /\ \A n \in 1..Count : n # i + 1 => places'[n] = places[n] /\ strs'[n] = strs[n]
      /\ places'[i + 1] \in [DOMAIN EmptyPlace -> 0..Count]
      /\ places'[i + 1].service = k
      /\ \A f \in Fields : places'[i + 1][f] = IF f \in e.has THEN k ELSE places[i + 1][f]
  BY ShadowMoves
<1>6. ForSdk(e) => i' = i /\ strs'[i + 1] = NoStrings /\ live' = live
  BY ShadowMoves
<1>7. ~ ForSdk(e) => /\ i' = i + 1
                     /\ strs'[i + 1] \in [Fields -> 0..Count]
                     /\ \A f \in Fields : strs'[i + 1][f] = IF f \in e.has THEN k ELSE 0
                     /\ \A x : x \in live' <=> x \in live \/ \E f \in e.has : x = <<k, f>>
  BY ShadowMoves
<1>8. i' \in {i, i + 1} /\ i' \in 0..k /\ NoStrings \in [Fields -> 0..Count] /\ i \in Nat /\ k \in 1..Count /\ k' - 1 = k
      /\ i' \in Nat /\ Count \in Nat
  BY <1>1, <1>6, <1>7 DEF NoStrings, Fields
<1>j. PICK j \in Nat : j = i'
  BY <1>8
<1>k. j \in {i, i + 1} /\ j <= k /\ i \in Nat /\ k \in Nat /\ k <= Count /\ Count \in Nat
  BY <1>8, <1>j
<1>9. LoopTyped'
  <2>1. \A n \in 1..Count : places'[n] \in [DOMAIN EmptyPlace -> 0..Count] /\ strs'[n] \in [Fields -> 0..Count]
    BY <1>5, <1>6, <1>7, <1>8
  <2>2. live' \subseteq (0..Count) \X Fields
    <3>1. CASE ForSdk(e)
      BY <1>6, <3>1
    <3>2. CASE ~ ForSdk(e)
      <4>1. \A f \in e.has : <<k, f>> \in (0..Count) \X Fields
        BY <1>8
      <4> QED BY <1>7, <3>2, <4>1
    <3> QED BY <3>1, <3>2
  <2> QED BY <1>1, <1>3, <1>5, <1>8, <2>1, <2>2, SMTT(60) DEF LoopTyped
<1>10. InHand'
  BY <1>1, <1>3, <1>5, <1>8 DEF ThreadInvariant, InHand
<1>11. Allocated'
  <2>1. ASSUME NEW x \in live' PROVE \E n \in 1..i', f \in Fields : x = <<strs'[n][f], f>>
    <3>1. CASE x \in live
      <4>1. PICK n \in 1..i, f \in Fields : x = <<strs[n][f], f>>
        BY <3>1
      <4>2. n \in 1..Count /\ n # i + 1 /\ n \in 1..i'
        BY <1>8
      <4> QED BY <1>5, <4>1, <4>2
    <3>2. CASE x \notin live
      <4>1. PICK f \in e.has : x = <<k, f>>
        BY <1>6, <1>7, <3>2
      <4>2. i' = i + 1 /\ strs'[i + 1][f] = k
        BY <1>6, <1>7, <3>2, <4>1
      <4>3. i + 1 \in 1..i'
        BY <1>8, <4>2
      <4> QED BY <4>1, <4>2, <4>3
    <3> QED BY <3>1, <3>2
  <2>2. \A n \in (j + 1)..Count : strs'[n] = NoStrings
    <3> TAKE n \in (j + 1)..Count
    <3>1. n \in (i + 1)..Count /\ n \in 1..Count
      BY ONLY <1>k, n \in (j + 1)..Count
    <3>2. CASE n = i + 1
      <4>1. j # i + 1
        BY ONLY <1>k, <3>2, n \in (j + 1)..Count
      <4>2. ForSdk(e)
        BY <1>7, <1>j, <4>1
      <4> QED BY <1>6, <3>2, <4>2
    <3>3. CASE n # i + 1
      BY <1>5, <3>1, <3>3
    <3> QED BY <3>2, <3>3
  <2> QED BY <1>1, <1>3, <1>4, <1>j, <2>1, <2>2 DEF Allocated
<1>12. ASSUME NEW m \in Nat, NEW f \in Fields, f \notin e.has, Left(m, f, k)
       PROVE  ForSdk(e) => Left(m, f, k + 1)
  <2>1. \A o \in m..(k + 1 - 1) : o = k \/ o \in m..(k - 1)
    BY <1>8
  <2>2. m # 0 => m \in 1..(k + 1 - 1) /\ f \in Has(m) /\ \A o \in m..(k - 1) : ForSdk(msg.services[o])
    BY <1>8, <1>12 DEF Left
  <2> QED BY <2>1, <2>2, SMTT(30) DEF Left
<1>13. ForSdk(e) => \A f \in e.has : Left(k, f, k + 1)
  BY <1>8 DEF Left, Has
<1>14. ShadowPlaced'
  <2>1. ASSUME NEW n \in 1..i'
        PROVE  LET s == places'[n].service
               IN  /\ s \in 1..k
                   /\ \A f \in Fields : IF f \in Has(s) THEN places'[n][f] = s /\ <<s, f>> \in live'
                                                       ELSE Left(places'[n][f], f, s)
    <3>1. CASE n = i + 1
      <4>1. ~ ForSdk(e)
        BY <1>6, <1>8, <3>1
      <4>2. \A f \in Fields : IF f \in Has(k) THEN places'[n][f] = k /\ <<k, f>> \in live'
                                            ELSE Left(places'[n][f], f, k)
        <5>1. \A f \in Fields : Left(places[n][f], f, k)
          BY <1>4, <1>8, <3>1 DEF ShadowPlaced
        <5>2. \A f \in Has(k) : <<k, f>> \in live'
          BY <1>7, <4>1 DEF Has
        <5> QED BY <1>5, <3>1, <5>1, <5>2 DEF Has
      <4>3. places'[n].service = k /\ k \in 1..k
        BY <1>5, <1>8, <3>1
      <4> QED BY ONLY <4>2, <4>3
    <3>2. CASE n # i + 1
      <4>0. n \in 1..i /\ n \in 1..Count
        <5>1. n \in 1..j
          BY <1>j
        <5> QED BY ONLY <1>k, <3>2, <5>1
      <4>1. n \in 1..i /\ places'[n] = places[n]
        BY <1>5, <3>2, <4>0
      <4>2. live \subseteq live'
        BY <1>6, <1>7
      <4> DEFINE s == places[n].service
      <4>3. s \in 1..(k - 1)
        BY <1>4, <4>1 DEF ShadowPlaced
      <4>4. \A f \in Fields : IF f \in Has(s) THEN places[n][f] = s /\ <<s, f>> \in live
                                             ELSE Left(places[n][f], f, s)
        BY <1>4, <4>1 DEF ShadowPlaced
      <4>5. s \in 1..k
        BY <1>8, <4>3
      <4> QED BY <4>1, <4>2, <4>4, <4>5
    <3> QED BY <3>1, <3>2
  <2>2. ASSUME NEW n \in (j + 1)..Count, NEW f \in Fields
        PROVE  IF n = j + 1 THEN Left(places'[n][f], f, k + 1) ELSE places'[n][f] = 0
    <3>1. CASE n = i + 1
      <4>1. ForSdk(e) /\ j = i
        <5>1. j # i + 1
          BY ONLY <1>k, <3>1, n \in (j + 1)..Count
        <5> QED BY <1>7, <1>8, <1>j, <5>1
      <4>2. CASE f \in e.has
        BY <1>5, <1>13, <3>1, <4>1, <4>2
      <4>3. CASE f \notin e.has
        <5>1. Left(places[n][f], f, k) /\ places[n][f] \in Nat
          BY <1>4, <1>8, <3>1, PlaceFields DEF ShadowPlaced
        <5> QED BY <1>5, <1>12, <3>1, <4>1, <4>3, <5>1
      <4> QED BY <4>2, <4>3
    <3>2. CASE n # i + 1
      <4>1. n \in (i + 1)..Count /\ n \in 1..Count
        <5> QED BY ONLY <1>k, n \in (j + 1)..Count
      <4>2. places'[n][f] = 0
        BY <1>4, <1>5, <3>2, <4>1 DEF ShadowPlaced
      <4> QED BY <4>2 DEF Left
    <3> QED BY <3>1, <3>2
  <2>3. ASSUME NEW m \in 0..Count, NEW f \in Fields, <<m, f>> \in live'
        PROVE  m \in 1..k /\ ~ ForSdk(msg.services[m])
    <3>1. CASE <<m, f>> \in live
      <4>1. m \in 1..(k - 1) /\ ~ ForSdk(msg.services[m])
        BY <1>4, <3>1 DEF ShadowPlaced
      <4> QED BY <1>8, <4>1
    <3>2. CASE <<m, f>> \notin live
      <4>1. ~ ForSdk(e) /\ m = k
        BY <1>6, <1>7, <2>3, <3>2
      <4> QED BY <1>8, <4>1
    <3> QED BY <3>1, <3>2
  <2>4. \A m, f, s : Left(m, f, s)' <=> Left(m, f, s)
    BY <1>1, <1>3, Zenon DEF Left
  <2> QED BY <1>1, <1>3, <1>8, <1>j, <2>1, <2>2, <2>3, <2>4 DEF ShadowPlaced
<1> QED BY <1>1, <1>3, <1>4, <1>9, <1>10, <1>11, <1>14 DEF ThreadInvariant, Placed

\* A service of an event.
LEMMA EventKeeps ==
  ASSUME ThreadInvariant, EventService, UNCHANGED scenario
  PROVE  ThreadInvariant'
<1> DEFINE e == msg.services[k]
<1>1. InLoop("events") /\ UNCHANGED <<msg, strs>>
  BY DEF EventService
<1>2. AtService /\ Route(msg.topic) = "events" /\ live \subseteq Unowned
  BY <1>1, ServiceInHand
<1> USE <1>2 DEF AtService
<1>l. live' \subseteq Unowned
  <2>1. <<k, "bus_infos">> \in Unowned
    BY DEF Unowned, Unfreed
  <2>2. BusInfos(e) \subseteq Unowned
    BY <2>1 DEF BusInfos
  <2>3. live' = live \/ live' = live \cup BusInfos(e)
    BY DEF EventService
  <2> QED BY <2>2, <2>3
<1>3. calls \in Seq(Telling) /\ ShownIsOwn /\ Count' = Count
  BY <1>1 DEF ThreadInvariant, InHand, Count
<1>4. calls' \in Seq(Telling) /\ ShownIsOwn'
  <2>1. CASE UNCHANGED calls
    BY <1>1, <1>3, <2>1, SameCalls
  <2>2. CASE calls' = calls \o Made(Shown(ServiceCallback(e), k)) \o ResultReported(e, k)
    <3> DEFINE m == Made(Shown(ServiceCallback(e), k))
               t == ResultReported(e, k)
    <3>1. Shown(ServiceCallback(e), k) \in Telling /\ Own(Shown(ServiceCallback(e), k))
      BY PlainCallbacks DEF Shown, Telling, Own
    <3>2. Shown("IOTA_RptDeviceConfigRst", k) \in Telling /\ Own(Shown("IOTA_RptDeviceConfigRst", k))
      BY PlainCallbacks DEF Shown, Telling, Own, PlainCalls
    <3>3. m \in Seq(Telling) /\ \A n \in 1..Len(m) : Own(m[n])
      BY <3>1 DEF Made
    <3>4. t \in Seq(Telling) /\ \A n \in 1..Len(t) : Own(t[n])
      BY <3>2 DEF ResultReported
    <3> HIDE DEF m, t
    <3>5. m \o t \in Seq(Telling) /\ \A n \in 1..Len(m \o t) : Own((m \o t)[n])
      <4>1. m \o t \in Seq(Telling) /\ Len(m) \in Nat /\ Len(t) \in Nat /\ Len(m \o t) = Len(m) + Len(t)
        BY <3>3, <3>4
      <4>2. \A n \in 1..Len(m \o t) : (m \o t)[n] = IF n <= Len(m) THEN m[n] ELSE t[n - Len(m)]
        BY <3>3, <3>4
      <4> QED BY <3>3, <3>4, <4>1, <4>2
    <3>6. calls' = calls \o (m \o t)
      <4>1. calls' = (calls \o m) \o t
        BY <2>2 DEF m, t
      <4>2. calls \in Seq(Telling) /\ m \in Seq(Telling) /\ t \in Seq(Telling)
        BY ONLY <1>3, <3>3, <3>4
      <4>3. (calls \o m) \o t = calls \o (m \o t)
        BY ONLY <4>2, Associative
      <4> QED BY ONLY <4>1, <4>3
    <3> QED BY <1>1, <1>3, <3>5, <3>6, MoreCalls
  <2> QED BY <2>1, <2>2 DEF EventService
<1>5. \/ pc' = "idle" /\ UNCHANGED <<k, i, places>>
      \/ pc' = "loop" /\ k' = k + 1 /\ UNCHANGED <<i, places>>
      \/ pc' = "loop" /\ k' = k + 1 /\ i' = i + 1 /\ places' = [places EXCEPT ![i + 1].service = k]
  BY DEF EventService, Returns
<1>6. /\ i' \in 0..Count /\ k' \in 1..(Count + 1) /\ i <= i' /\ i' < k'
      /\ DOMAIN places' = 1..Count /\ pc' \in {"idle", "loop"}
      /\ \A n \in (i + 1)..Count : NoStrings = strs'[n]
  BY <1>1, <1>5
<1>7. \A n \in 1..Count : places'[n] \in [DOMAIN EmptyPlace -> 0..Count]
  <2>1. CASE UNCHANGED places
    BY <2>1
  <2>2. CASE places' = [places EXCEPT ![i + 1].service = k]
    <3> DEFINE q == [places[i + 1] EXCEPT !.service = k]
    <3>1. q \in [DOMAIN EmptyPlace -> 0..Count]
      <4>1. places[i + 1] \in [DOMAIN EmptyPlace -> 0..Count] /\ k \in 0..Count
        OBVIOUS
      <4> QED BY ONLY <4>1 DEF EmptyPlace
    <3>2. places' = [places EXCEPT ![i + 1] = q]
      BY <2>2
    <3> HIDE DEF q
    <3> QED BY <3>1, <3>2
  <2> QED BY <1>5, <2>1, <2>2
<1>8. LoopTyped'
  <2>1. Unowned \subseteq (0..Count) \X (Fields \cup Unfreed)
    BY DEF Unowned
  <2> QED BY <1>1, <1>3, <1>l, <1>6, <1>7, <2>1 DEF LoopTyped
<1>9. InHand'
  BY <1>1, <1>2, <1>3, <1>4, <1>6 DEF ThreadInvariant, InHand
<1>10. Allocated'
  <2>1. PICK j \in Nat : j = i'
    BY <1>6
  <2>2. i \in Nat /\ i <= j /\ Count \in Nat
    BY <1>6, <2>1
  <2>3. ASSUME NEW n \in (j + 1)..Count PROVE strs'[n] = NoStrings
    <3>1. n \in (i + 1)..Count
      BY ONLY <2>2, n \in (j + 1)..Count
    <3> QED BY <1>6, <3>1
  <2>4. Unowned' = Unowned
    BY <1>3 DEF Unowned
  <2> QED BY <1>1, <1>2, <1>3, <1>l, <1>6, <2>1, <2>3, <2>4 DEF Allocated
<1>11. Placed'
  BY <1>1, <1>2 DEF Placed
<1> QED BY <1>4, <1>8, <1>9, <1>10, <1>11 DEF ThreadInvariant

\* What is shown of the places of a list is the services' own.
LEMMA SeenIsOwn ==
  ASSUME ThreadInvariant, pc = "loop", k = Count + 1, NEW n \in 1..i, NEW f \in Fields,
         Route(msg.topic) \in {"set", "shadow"}
  PROVE  LET p == Seen(n)
         IN  \/ p[f] = p.service /\ f \in Has(p.service)
             \/ p[f] = 0 /\ (f \notin Has(p.service) \/ (Route(msg.topic) = "set" /\ f = "reported"))
             \/ /\ p[f] = -1 /\ f \notin Has(p.service)
                /\ \E m \in 1..(p.service - 1) :
                     /\ f \in Has(m)
                     /\ \A o \in m..(p.service - 1) : ForSdk(msg.services[o])
<1> DEFINE s == places[n].service
           r == Route(msg.topic)
<1>1. Count \in Nat /\ msg.services \in Seq(Service)
  BY DEF ThreadInvariant, InHand, Count
<1>2. /\ Seen(n).service = s
      /\ Seen(n)[f] = IF places[n][f] = 0 \/ <<places[n][f], f>> \in live THEN places[n][f] ELSE -1
  BY PlaceFields DEF Seen
<1>3. CASE r = "set"
  <2>1. PropertiesPlaced
    BY <1>3 DEF ThreadInvariant, Placed
  <2>2. /\ s \in 1..(k - 1) /\ places[n]["reported"] = 0
        /\ IF "desired" \in Has(s) THEN places[n]["desired"] = s /\ <<s, "desired">> \in live
                                   ELSE places[n]["desired"] = 0
    BY <2>1 DEF PropertiesPlaced
  <2>3. f = "desired" \/ f = "reported"
    BY DEF Fields
  <2> QED BY <1>2, <1>3, <2>2, <2>3
<1>4. CASE r = "shadow"
  <2>1. ShadowPlaced
    BY <1>4 DEF ThreadInvariant, Placed
  <2>2. s \in 1..(k - 1) /\ IF f \in Has(s) THEN places[n][f] = s /\ <<s, f>> \in live
                                            ELSE Left(places[n][f], f, s)
    BY <2>1 DEF ShadowPlaced
  <2>3. CASE f \in Has(s)
    BY <1>2, <2>2, <2>3
  <2>4. CASE f \notin Has(s) /\ places[n][f] = 0
    BY <1>2, <2>4
  <2>5. CASE f \notin Has(s) /\ places[n][f] # 0
    <3> DEFINE m == places[n][f]
    <3>1. m \in 1..(s - 1) /\ f \in Has(m) /\ \A o \in m..(s - 1) : ForSdk(msg.services[o])
      BY <2>2, <2>5 DEF Left
    <3>2. ForSdk(msg.services[m]) /\ m \in 0..Count
      BY <1>1, <2>2, <3>1
    <3>3. <<m, f>> \notin live
      BY <2>1, <3>2 DEF ShadowPlaced
    <3> QED BY <1>2, <2>5, <3>1, <3>3
  <2> QED BY <2>3, <2>4, <2>5
<1> QED BY <1>3, <1>4

\* The callback is called, and all is freed.
LEMMA EndKeeps ==
  ASSUME ThreadInvariant, ListEnds, UNCHANGED scenario
  PROVE  ThreadInvariant'
<1> DEFINE r == Route(msg.topic)
           shown == [n \in 1..i |-> Seen(n)]
           c == Shown(ListCallback[r], shown)
<1>1. /\ pc = "loop" /\ pc' = "idle" /\ UNCHANGED <<msg, k, i, places, strs>> /\ Call(c)
      /\ live' = live \ {<<strs[n][f], f>> : n \in Freed, f \in Fields}
  BY DEF ListEnds, Returns
<1>2. /\ r \in DOMAIN ListCallback /\ msg.services \in Seq(Service) /\ calls \in Seq(Telling)
      /\ Count \in Nat /\ i \in 0..Count /\ DOMAIN places = 1..Count
  BY <1>1 DEF ThreadInvariant, InHand, LoopTyped, Count
<1>3. k = Count + 1
  BY <1>2 DEF ListEnds, ThreadInvariant, LoopTyped, Count
<1>u. Unowned' = Unowned /\ Unowned \subseteq (0..Count) \X (Fields \cup Unfreed)
  BY <1>1 DEF Unowned, Count
<1>4. live' \subseteq Unowned
  <2>0. Allocated
    BY DEF ThreadInvariant
  <2>1. CASE r = "events"
    <3>1. live \subseteq Unowned
      BY <1>1, <2>0, <2>1 DEF Allocated
    <3> QED BY <1>1, <3>1
  <2>2. CASE r # "events"
    <3>1. \A x \in live : \E n \in Freed, f \in Fields : x = <<strs[n][f], f>>
      BY <1>1, <2>0, <2>2 DEF Allocated, Freed
    <3>2. live' = {}
      BY <1>1, <3>1
    <3> QED BY <3>2
  <2> QED BY <2>1, <2>2
<1>5. shown \in Seq(Place) /\ ToSet(shown) = {Seen(n) : n \in 1..i}
  <2>1. ASSUME NEW n \in 1..i PROVE Seen(n) \in Place
    <3>1. places[n] \in [DOMAIN EmptyPlace -> 0..Count]
      BY <1>2, SMTT(60) DEF ThreadInvariant, LoopTyped
    <3> QED BY <1>2, <3>1 DEF Seen, Place
  <2>2. shown \in Seq(Place) /\ DOMAIN shown = 1..i
    BY <1>2, <2>1
  <2> QED BY <2>2 DEF ToSet
<1>6. c \in Telling
  BY <1>2, <1>5 DEF Shown, Telling, Range
<1>7. Own(c)
  <2>1. r \in {"set", "shadow"} \/ c.cb \notin ArrayCallbacks
    BY <1>2 DEF ListCallback, Shown, ArrayCallbacks
  <2>2. r = "set" => c.cb = "onPropertiesSet"
    BY DEF ListCallback, Shown
  <2>3. c.shown = shown
    BY DEF Shown
  <2>4. ASSUME r \in {"set", "shadow"}, NEW n \in 1..i, NEW f \in Fields
        PROVE  LET p == Seen(n)
               IN  \/ p[f] = p.service /\ f \in Has(p.service)
                   \/ p[f] = 0 /\ (f \notin Has(p.service) \/ (c.cb = "onPropertiesSet" /\ f = "reported"))
                   \/ /\ p[f] = -1 /\ f \notin Has(p.service)
                      /\ \E m \in 1..(p.service - 1) :
                           /\ f \in Has(m)
                           /\ \A o \in m..(p.service - 1) : ForSdk(msg.services[o])
    BY <1>1, <1>3, <2>2, <2>4, SeenIsOwn
  <2> HIDE DEF shown, c, r
  <2> QED BY <1>5, <2>1, <2>3, <2>4 DEF Own
<1>8. calls' \in Seq(Telling) /\ ShownIsOwn'
  <2> HIDE DEF c
  <2>1. Made(c) \in Seq(Telling) /\ \A n \in 1..Len(Made(c)) : Own(Made(c)[n])
    BY <1>6, <1>7 DEF Made
  <2>2. calls' = calls \o Made(c) /\ ShownIsOwn /\ UNCHANGED msg
    BY <1>1 DEF Call, ThreadInvariant
  <2> QED BY <1>2, <2>1, <2>2, MoreCalls
<1>9. LoopTyped'
  BY <1>1, <1>u, <1>4 DEF ThreadInvariant, LoopTyped, Count
<1>10. InHand' /\ Allocated' /\ Placed'
  BY <1>1, <1>u, <1>4, <1>8 DEF ThreadInvariant, InHand, Allocated, Placed
<1> QED BY <1>8, <1>9, <1>10 DEF ThreadInvariant

-----------------------------------------------------------------------------
(* The composition.                                                        *)

\* What the registration and the bridge add to the types.
Outside ==
  /\ BridgeTypeOK
  /\ registered \in 0..Len(Registrations) /\ callbacks \subseteq Callback /\ wired \in BOOLEAN
  /\ early \subseteq callbacks

\* The types are those of the thread and those outside it.
LEMMA TypesTogether == Outside /\ ThreadInvariant => DispatchTypeOK
BY DEF Outside, ThreadInvariant, LoopTyped, DispatchTypeOK, Numbers, Count

\* A step of the composition is one of the bridge or leaves its variables alone.
LEMMA StepIsBridgeStep == [DispatchNext]_dispatchVars => [BridgeNext]_bridgeVars
<1> SUFFICES ASSUME [DispatchNext]_dispatchVars PROVE [BridgeNext]_bridgeVars
  OBVIOUS
<1>1. CASE UNCHANGED dispatchVars
  BY <1>1 DEF dispatchVars
<1>2. CASE SetCallback
  BY <1>2 DEF SetCallback
<1>3. CASE Application
  BY <1>3 DEF Application, BridgeNext
<1>4. CASE Arrive
  BY <1>4 DEF Arrive
<1>5. ASSUME NEW r \in asked, Answer(r) PROVE BridgeNext
  BY <1>5 DEF Answer, BridgeNext
<1>6. CASE OnMessageArrived
  BY <1>6 DEF OnMessageArrived
<1> QED BY <1>1, <1>2, <1>3, <1>4, <1>5, <1>6 DEF DispatchNext

\* Registration, requests and steps that change nothing leave the MQTT thread alone.
LEMMA QuietKeeps == ThreadInvariant /\ UNCHANGED <<pc, msg, list, calls, scenario>> => ThreadInvariant'
<1> SUFFICES ASSUME ThreadInvariant, UNCHANGED <<pc, msg, list, calls, scenario>> PROVE ThreadInvariant'
  OBVIOUS
<1>1. UNCHANGED <<pc, msg, k, i, places, strs, live, calls>>
  BY DEF list
<1>2. ShownIsOwn'
  BY <1>1, SameCalls DEF ThreadInvariant
<1>3. /\ Count' = Count /\ (\A n : Has(n)' = Has(n)) /\ Unowned' = Unowned
      /\ \A m, f, s : Left(m, f, s)' = Left(m, f, s)
  BY <1>1, Zenon DEF Count, Has, Left, Unowned
<1>4. LoopTyped' /\ InHand' /\ Allocated'
  <2>1. scenario' = scenario
    OBVIOUS
  <2>2. LoopTyped'
    BY <1>1, <1>3 DEF ThreadInvariant, LoopTyped
  <2>3. InHand'
    BY <1>1, <1>3, <2>1 DEF ThreadInvariant, InHand
  <2>4. Allocated'
    BY <1>1, <1>3 DEF ThreadInvariant, Allocated
  <2> QED BY <2>2, <2>3, <2>4
<1>5. Placed'
  BY <1>1, <1>3 DEF ThreadInvariant, Placed, PropertiesPlaced, ShadowPlaced
<1> QED BY <1>2, <1>4, <1>5 DEF ThreadInvariant

\* Messages that come have services.
LEMMA MailHasServices ==
  ASSUME scenario \in DOMAIN Scenarios
  PROVE  /\ \A m \in Scenarios[scenario].mail : m.services \in Seq(Service)
         /\ \A m : m = NoMessage => m.services \in Seq(Service)
         /\ Registrations \in Seq(Setting) /\ Len(Registrations) \in Nat
<1>1. Scenarios[scenario] \in Scenario
  BY DispatchAssumption
<1>2. Scenarios[scenario].mail \subseteq Message /\ Registrations \in Seq(Setting) /\ Len(Registrations) \in Nat
  BY <1>1 DEF Scenario, Registrations
<1>3. \A m \in Message : m.services \in Seq(Service)
  BY DEF Message
<1>4. NoMessage.services \in Seq(Service)
  BY DEF NoMessage
<1> QED BY <1>2, <1>3, <1>4

\* Every step of the composition preserves the invariant of the MQTT thread.
LEMMA ThreadStep == ThreadInvariant /\ [DispatchNext]_dispatchVars => ThreadInvariant'
<1> SUFFICES ASSUME ThreadInvariant, [DispatchNext]_dispatchVars PROVE ThreadInvariant'
  OBVIOUS
<1>1. CASE UNCHANGED dispatchVars
  BY <1>1, QuietKeeps DEF dispatchVars, thread, budget
<1>2. CASE SetCallback
  BY <1>2, QuietKeeps DEF SetCallback, budget
<1>3. CASE Application
  BY <1>3, QuietKeeps DEF Application, thread, budget
<1>4. scenario \in DOMAIN Scenarios
  BY DEF ThreadInvariant, InHand
<1>5. CASE Arrive
  <2>1. PICK m \in Scenarios[scenario].mail : MqttBase_OnMessageArrived(m) /\ UNCHANGED scenario
    BY <1>5 DEF Arrive
  <2> QED BY <1>4, <2>1, MailHasServices, ArrivalKeeps
<1>6. ASSUME NEW r \in asked, Answer(r) PROVE ThreadInvariant'
  <2>0. PICK o \in BOOLEAN :
          MqttBase_OnMessageArrived([NoMessage EXCEPT !.topic = {r.kind}, !.json = TRUE, !.object = o])
    BY <1>6 DEF Answer
  <2> DEFINE m == [NoMessage EXCEPT !.topic = {r.kind}, !.json = TRUE, !.object = o]
  <2>1. MqttBase_OnMessageArrived(m) /\ UNCHANGED scenario
    BY <1>6, <2>0 DEF Answer, budget
  <2>2. m.services = <<>>
    BY DEF NoMessage
  <2> HIDE DEF m
  <2>3. m.services \in Seq(Service)
    BY <2>2
  <2> QED BY <2>1, <2>3, ArrivalKeeps
<1>7. CASE OnMessageArrived
  <2>1. UNCHANGED scenario
    BY <1>7 DEF OnMessageArrived, budget
  <2> QED BY <1>7, <2>1, OneKeeps, BeginKeeps, PropertiesKeeps, ShadowKeeps, EventKeeps, EndKeeps
          DEF OnMessageArrived
<1> QED BY <1>1, <1>2, <1>3, <1>5, <1>6, <1>7 DEF DispatchNext

\* What was registered early is registered still.
LEMMA OutsideStep ==
  Outside /\ scenario \in DOMAIN Scenarios /\ [DispatchNext]_dispatchVars => Outside'
<1> SUFFICES ASSUME Outside, scenario \in DOMAIN Scenarios, [DispatchNext]_dispatchVars PROVE Outside'
  OBVIOUS
<1>1. BridgeTypeOK'
  BY StepIsBridgeStep, TypesStep DEF Outside
<1>2. UNCHANGED scenario
  BY DEF DispatchNext, dispatchVars, budget, SetCallback, Application, Arrive, Answer, OnMessageArrived
<1>3. CASE SetCallback
  <2> DEFINE g == Registrations[registered + 1]
  <2>1. /\ registered < Len(Registrations) /\ registered' = registered + 1 /\ UNCHANGED scenario
        /\ callbacks' = (callbacks \ g.sets) \cup g.given
        /\ wired' = (wired \/ ~ (g.sets \subseteq Unwired)) /\ early' = early \cap callbacks'
    BY <1>3 DEF SetCallback, budget
  <2>2. Registrations' = Registrations /\ Len(Registrations) \in Nat /\ Registrations \in Seq(Setting)
    BY <2>1, MailHasServices DEF Registrations
  <2>3. registered \in Nat /\ registered' \in 0..Len(Registrations) /\ registered + 1 \in 1..Len(Registrations)
    BY <2>1, <2>2 DEF Outside
  <2>4. g \in Setting
    BY <2>2, <2>3
  <2>5. callbacks' \subseteq Callback
    BY <2>1, <2>4 DEF Setting, Outside
  <2>6. wired' \in BOOLEAN
    BY <2>1
  <2> QED BY <1>1, <2>1, <2>2, <2>3, <2>5, <2>6 DEF Outside
<1>4. CASE UNCHANGED <<registered, callbacks, wired>> /\ early' \in {early, callbacks}
  <2>1. Registrations' = Registrations
    BY <1>2 DEF Registrations
  <2> QED BY <1>1, <1>4, <2>1 DEF Outside
<1>5. CASE Application \/ UNCHANGED dispatchVars
  BY <1>4, <1>5 DEF Application, dispatchVars, thread, application
<1>6. CASE Arrive \/ \E r \in asked : Answer(r)
  BY <1>4, <1>6 DEF Arrive, Answer, MqttBase_OnMessageArrived, application
<1>7. CASE OnMessageArrived
  <2>1. UNCHANGED <<registered, callbacks, wired, early>>
    BY <1>7 DEF application, OnMessageArrived, OnOneArrived, OnRawArrived, OnSystemArrived, OnBridgeArrived,
                OnOtherUndefinedTopicArrived, OnNothingArrived, ListBegins, PropertiesService,
                ShadowService, EventService, ListEnds
  <2> QED BY <1>4, <2>1
<1> QED BY <1>3, <1>5, <1>6, <1>7 DEF DispatchNext

\* The invariant of the composition holds at first.
LEMMA DispatchInitial == DispatchInit => Outside /\ ThreadInvariant
<1> SUFFICES ASSUME DispatchInit PROVE Outside /\ ThreadInvariant
  OBVIOUS
<1>1. /\ registered = 0 /\ callbacks = {} /\ wired = FALSE /\ pc = "idle" /\ msg = NoMessage /\ scenario \in DOMAIN Scenarios
      /\ k = 0 /\ i = 0 /\ places = <<>> /\ strs = <<>> /\ live = {} /\ calls = <<>> /\ early = {}
  BY DEF DispatchInit
<1>2. BridgeTypeOK
  BY IdInvariantInit DEF DispatchInit, IdInvariant
<1>3. Outside
  <2>1. registered \in 0..Len(Registrations)
    BY <1>1, MailHasServices
  <2>2. wired \in BOOLEAN /\ callbacks \subseteq Callback /\ early \subseteq callbacks
    BY <1>1
  <2> QED BY <1>2, <2>1, <2>2 DEF Outside
<1>4. msg.services = <<>>
  BY <1>1 DEF NoMessage
<1>5. LoopTyped /\ InHand /\ Allocated /\ Placed
  BY <1>1, <1>4 DEF LoopTyped, InHand, Allocated, Placed, Count
<1>6. ToSet(calls) = {}
  BY <1>1 DEF ToSet
<1>7. ShownIsOwn
  BY <1>6, Zenon DEF ShownIsOwn
<1> QED BY <1>3, <1>5, <1>7 DEF ThreadInvariant

\* The invariant holds in every behaviour of the MQTT thread and the application.
THEOREM DispatchInvariance == DispatchSpec => [](Outside /\ ThreadInvariant)
<1>1. Outside /\ ThreadInvariant /\ [DispatchNext]_dispatchVars => (Outside /\ ThreadInvariant)'
  BY ThreadStep, OutsideStep DEF ThreadInvariant, InHand
<1> QED BY DispatchInitial, <1>1, PTL DEF DispatchSpec

\* Every state is well typed: the count of places that a list has taken never exceeds the
\* services of the message, for lists of every length.
THEOREM DispatchTypes == DispatchSpec => []DispatchTypeOK
BY DispatchInvariance, TypesTogether, PTL

\* What a callback is shown of a service is the service's own, or NULL; only a service
\* behind one for the SDK may be shown a string that was freed.
THEOREM OwnStringsAreShown == DispatchSpec => []ShownIsOwn
<1>1. ThreadInvariant => ShownIsOwn
  BY DEF ThreadInvariant
<1> QED BY DispatchInvariance, <1>1, PTL

\* No string that was printed for a service of a property message or a shadow outlives its
\* handler, for lists of every length and every mixture of services: what is left of any
\* message is of the three kinds that the code never frees.
THEOREM ListStringsAreFreed == DispatchSpec => []ListStringsFreed
<1>1. ThreadInvariant => ListStringsFreed
  BY DEF ThreadInvariant, Allocated, Unowned, ListStringsFreed
<1> QED BY DispatchInvariance, <1>1, PTL

\* The composition only takes steps of the bridge, so what holds of the bridge holds in it.
LEMMA DispatchImplementsBridge == DispatchSpec => BridgeSpec
<1>1. DispatchInit => BridgeInit
  BY DEF DispatchInit
<1> QED BY <1>1, StepIsBridgeStep, PTL DEF DispatchSpec, BridgeSpec

\* So in the composition the ids stay within the limit ...
THEOREM RangeInComposition == DispatchSpec => []IdsInRange
BY DispatchImplementsBridge, IdsStayInRange, PTL

\* ... and an answer tells its request.
THEOREM AnswersTellRequests == DispatchSpec => []IdsDistinct
BY DispatchImplementsBridge, IdsTellRequests, PTL

-----------------------------------------------------------------------------
(* What is due for a message.                                              *)

\* A call tells at most one thing, to its own callback.
LEMMA TellsOne ==
  \A c, d, e : Tells(c, d) => c.cb = d.cb /\ (Tells(c, e) => d.cb = e.cb /\ d.told = e.told)
BY Zenon DEF Tells

\* Nothing is due to nobody.
LEMMA CarryNothing == \A cbs : Carry(<<>>, {}, cbs)
BY DEF Carry

\* The calls before the last and the last.
LEMMA LastCall ==
  ASSUME NEW S, NEW cs \in Seq(S), NEW c \in S
  PROVE  /\ DOMAIN cs = 1..Len(cs) /\ Len(cs) \in Nat
         /\ DOMAIN Append(cs, c) = 1..(Len(cs) + 1)
         /\ Append(cs, c)[Len(cs) + 1] = c
         /\ \A n \in 1..Len(cs) : Append(cs, c)[n] = cs[n]
OBVIOUS

\* What comes in a later turn is told by no call before.
LEMMA CarryNew ==
  ASSUME NEW cs, NEW due, NEW cbs, Carry(cs, due, cbs),
         NEW d, d.cb # "onOtherUndefined", \A e \in due : ~ (e.cb = d.cb /\ e.told = d.told),
         NEW n \in DOMAIN cs
  PROVE  ~ Tells(cs[n], d)
<1> SUFFICES ASSUME Tells(cs[n], d) PROVE FALSE
  OBVIOUS
<1>1. cs[n].cb # "onOtherUndefined"
  BY TellsOne, Zenon
<1>2. PICK e \in due : Tells(cs[n], e)
  BY <1>1, Zenon DEF Carry
<1>3. d.cb = e.cb /\ d.told = e.told
  BY <1>2, TellsOne, ZenonT(30)
<1> QED BY <1>3

\* Nobody waits for what is due next.
LEMMA CarrySkip ==
  ASSUME NEW cs, NEW due, NEW cbs, Carry(cs, due, cbs),
         NEW d, d.cb # "onOtherUndefined", d.cb \notin cbs,
         \A e \in due : ~ (e.cb = d.cb /\ e.told = d.told)
  PROVE  Carry(cs, due \cup {d}, cbs)
<1>1. ASSUME NEW n \in DOMAIN cs PROVE ~ Tells(cs[n], d)
  BY CarryNew
<1> QED BY <1>1, Zenon DEF Carry

\* A call of what is due next.
LEMMA CarryCall ==
  ASSUME NEW cs \in Seq(Telling), NEW due, NEW cbs, Carry(cs, due, cbs),
         NEW d, d.cb # "onOtherUndefined", NEW c \in Telling, Tells(c, d),
         \A e \in due : e.turn < d.turn /\ ~ (e.cb = d.cb /\ e.told = d.told),
         ForList(c) => InOrder(c.shown)
  PROVE  Carry(Append(cs, c), due \cup {d}, cbs)
<1> DEFINE cs2 == Append(cs, c)
           l == Len(cs) + 1
<1>1. ASSUME NEW n \in DOMAIN cs PROVE ~ Tells(cs[n], d)
  BY CarryNew
<1>2. \A e \in due : ~ Tells(c, e)
  BY TellsOne, Zenon
<1>3. /\ DOMAIN cs = 1..Len(cs) /\ Len(cs) \in Nat /\ DOMAIN cs2 = 1..l /\ cs2[l] = c
      /\ \A n \in 1..Len(cs) : cs2[n] = cs[n]
  BY LastCall
<1>4. /\ DOMAIN cs \subseteq DOMAIN cs2 /\ l \in DOMAIN cs2
      /\ \A n \in DOMAIN cs2 : (n \in DOMAIN cs /\ cs2[n] = cs[n]) \/ (n = l /\ cs2[n] = c)
      /\ \A n \in DOMAIN cs : cs2[n] = cs[n]
      /\ \A n, o \in DOMAIN cs2 : n < o => n \in DOMAIN cs
  <2>1. l = Len(cs) + 1
    OBVIOUS
  <2> HIDE DEF cs2, l
  <2> QED BY ONLY <1>3, <2>1
<1> HIDE DEF cs2, l
<1>5. \A n \in DOMAIN cs2 : cs2[n].cb # "onOtherUndefined" => \E x \in due \cup {d} : Tells(cs2[n], x)
  BY <1>4, Zenon DEF Carry
<1>6. \A x \in due \cup {d} : x.cb \in cbs => \E n \in DOMAIN cs2 : Tells(cs2[n], x)
  BY <1>3, <1>4, Zenon DEF Carry
<1>7. ASSUME NEW n \in DOMAIN cs2, NEW o \in DOMAIN cs2, NEW x \in due \cup {d}, NEW e \in due \cup {d},
             n < o, Tells(cs2[n], x), Tells(cs2[o], e)
      PROVE  x.turn < e.turn
  <2>1. n \in DOMAIN cs /\ x \in due
    BY <1>1, <1>4, <1>7, Zenon
  <2>2. CASE o \in DOMAIN cs
    <3>1. e \in due
      BY <1>1, <1>4, <1>7, <2>2, Zenon
    <3> QED BY <1>4, <1>7, <2>1, <2>2, <3>1, Zenon DEF Carry
  <2>3. CASE o \notin DOMAIN cs
    <3>1. e = d
      BY <1>2, <1>4, <1>7, <2>3, Zenon
    <3> QED BY <2>1, <3>1
  <2> QED BY <2>2, <2>3
<1>8. \A n \in DOMAIN cs2 : ForList(cs2[n]) => InOrder(cs2[n].shown)
  BY <1>4, Zenon DEF Carry
<1> QED BY <1>5, <1>6, <1>7, <1>8, Zenon DEF Carry, cs2

\* What is due next is called if it is registered.
LEMMA CarryMade ==
  ASSUME NEW cs \in Seq(Telling), NEW due, NEW cbs, Carry(cs, due, cbs),
         NEW d, d.cb # "onOtherUndefined", NEW c \in Telling, Tells(c, d),
         \A e \in due : e.turn < d.turn /\ ~ (e.cb = d.cb /\ e.told = d.told),
         ForList(c) => InOrder(c.shown), d.cb \in cbs => d.cb \in callbacks
  PROVE  Carry(cs \o Made(c), due \cup {d}, cbs) /\ cs \o Made(c) \in Seq(Telling)
<1>1. c.cb = d.cb
  BY TellsOne
<1>2. CASE c.cb \in callbacks
  <2>1. cs \o Made(c) = Append(cs, c) /\ Append(cs, c) \in Seq(Telling)
    BY <1>2 DEF Made
  <2>2. Carry(Append(cs, c), due \cup {d}, cbs)
    BY CarryCall
  <2> QED BY <2>1, <2>2
<1>3. CASE c.cb \notin callbacks
  <2>1. cs \o Made(c) = cs
    BY <1>3 DEF Made
  <2>2. d.cb \notin cbs
    BY <1>1, <1>3
  <2>3. Carry(cs, due \cup {d}, cbs)
    BY <2>2, CarrySkip
  <2> QED BY <2>1, <2>3
<1> QED BY <1>2, <1>3

\* The call for a topic that is not known comes in addition.
LEMMA CarryOther ==
  ASSUME NEW cs \in Seq(Telling), NEW due, NEW cbs, Carry(cs, due, cbs),
         NEW c \in Telling, c.cb = "onOtherUndefined", \A d \in due : d.cb # "onOtherUndefined"
  PROVE  Carry(cs \o Made(c), due, cbs)
<1>1. CASE c.cb \in callbacks
  <2> DEFINE cs2 == Append(cs, c)
             l == Len(cs) + 1
  <2>1. cs \o Made(c) = cs2
    BY <1>1 DEF Made
  <2>2. (\A d \in due : ~ Tells(c, d)) /\ ~ ForList(c)
    BY DEF Tells, ForList, ListCallback
  <2>3. /\ DOMAIN cs = 1..Len(cs) /\ Len(cs) \in Nat /\ DOMAIN cs2 = 1..l /\ cs2[l] = c
        /\ \A n \in 1..Len(cs) : cs2[n] = cs[n]
    BY LastCall
  <2>4. /\ DOMAIN cs \subseteq DOMAIN cs2
        /\ \A n \in DOMAIN cs2 : (n \in DOMAIN cs /\ cs2[n] = cs[n]) \/ cs2[n] = c
        /\ \A n \in DOMAIN cs : cs2[n] = cs[n]
    <3>1. l = Len(cs) + 1
      OBVIOUS
    <3> HIDE DEF cs2, l
    <3> QED BY ONLY <2>3, <3>1
  <2> HIDE DEF cs2, l
  <2>5. \A n \in DOMAIN cs2 : cs2[n].cb # "onOtherUndefined" => \E x \in due : Tells(cs2[n], x)
    BY <2>4, Zenon DEF Carry
  <2>6. \A x \in due : x.cb \in cbs => \E n \in DOMAIN cs2 : Tells(cs2[n], x)
    BY <2>4, Zenon DEF Carry
  <2>7. \A n \in DOMAIN cs2 : (\E x \in due : Tells(cs2[n], x)) => n \in DOMAIN cs /\ cs2[n] = cs[n]
    BY <2>2, <2>4, Zenon
  <2>8. \A n, o \in DOMAIN cs2 : \A d, e \in due : n < o /\ Tells(cs2[n], d) /\ Tells(cs2[o], e) => d.turn < e.turn
    BY <2>7, Zenon DEF Carry
  <2>9. \A n \in DOMAIN cs2 : ForList(cs2[n]) => InOrder(cs2[n].shown)
    BY <2>2, <2>4, Zenon DEF Carry
  <2> QED BY <2>1, <2>5, <2>6, <2>8, <2>9, Zenon DEF Carry
<1>2. CASE c.cb \notin callbacks
  BY <1>2 DEF Made
<1> QED BY <1>1, <1>2

\* What was registered when the message came, and the report that is made in any case.
Awaited == early \cup {"IOTA_RptDeviceConfigRst"}

\* What was handed on.
HandedRecord == [service : Nat, id : STRING, string : Nat]

\* The services that are to be handed on when the message is done with.
ToHandOn ==
  IF Route(msg.topic) \in DOMAIN ListCallback /\ ~ Refused(msg) THEN Reached(msg) \cap HandedOn(msg) ELSE {}

\* What is due for the services that the loop has left behind.
DueInLoop == IF Route(msg.topic) = "events" THEN EventDue(msg, 1..(k - 1)) ELSE {}

\* The loop has dealt with the services before the one in hand: with what is due for them,
\* what is handed on of them and the places that they take.
LoopDelivers ==
  /\ ~ Refused(msg) /\ 1..(k - 1) \subseteq Reached(msg)
  /\ Carry(calls, DueInLoop, Awaited)
  /\ Hand(updates, msg, 1..(k - 1) \cap HandedOn(msg))
  /\ \A n, o \in 1..i : n < o => places[n].service < places[o].service
  /\ {places[n].service : n \in 1..i} = 1..(k - 1) \cap Listed(msg)

\* What the MQTT thread has done for the message in hand, wherever it stands.
DeliveryInvariant ==
  /\ Delivered /\ UpdatesOnce
  /\ updates \in Seq(HandedRecord)
  /\ pc = "route" => calls = <<>> /\ updates = <<>>
  /\ pc = "system" => updates = <<>> /\ Carry(calls, {At(0, RawCallback[Route(msg.topic)], <<>>)}, Awaited)
  /\ pc = "undefined" => /\ updates = <<>> /\ Route(msg.topic) \in DOMAIN BridgeCallback
                         /\ Carry(calls, Due(msg), Awaited)
  /\ pc = "loop" => LoopDelivers

\* A callback that is not one of the few wires the arrival of messages.
Wiring == ~ wired => callbacks \subseteq Unwired

\* No topic is of two kinds.
LEMMA RoutesDiffer ==
  /\ DOMAIN OneCallback = {"bootstrap", "v3", "command", "get", "m2m"}
  /\ DOMAIN RawCallback = {"messages", "user"} /\ DOMAIN SystemCallback = {"messages", "user"}
  /\ DOMAIN BridgeCallback = {"login", "logout", "reset_secret", "disconnect"}
  /\ DOMAIN ListCallback = {"set", "shadow", "events"}
BY DEF OneCallback, RawCallback, SystemCallback, BridgeCallback, ListCallback

\* What is due to the callbacks of a topic without a list ...
LEMMA DuePlain ==
  ASSUME NEW m, NEW r, r = Route(m.topic)
  PROVE  /\ r \in DOMAIN OneCallback => Due(m) = {At(0, OneCallback[r], <<>>)}
         /\ r \in DOMAIN RawCallback => Due(m) = {At(0, RawCallback[r], <<>>)} \cup
                                          (IF m.system THEN {At(1, SystemCallback[r], <<>>)} ELSE {})
         /\ r \in DOMAIN BridgeCallback => Due(m) = {At(0, BridgeCallback[r], <<>>)}
         /\ r = "undefined" => Due(m) = {}
BY RoutesDiffer DEF Due

\* ... and to those of a list.
LEMMA DueList ==
  ASSUME NEW m, NEW r \in DOMAIN ListCallback, r = Route(m.topic)
  PROVE  Due(m) = IF Refused(m) THEN {} ELSE
                    (IF r = "events" THEN EventDue(m, Reached(m)) ELSE {}) \cup
                    (IF Reached(m) = DOMAIN m.services
                       THEN {At(2 * Len(m.services) + 2, ListCallback[r], Listed(m))} ELSE {})
BY RoutesDiffer DEF Due

\* What is called for a message or for a service of it is none of the list callbacks.
LEMMA PlainIsNoList ==
  /\ \A c : c.cb \in PlainCalls => ~ ForList(c)
  /\ \A c, d : c.cb \in PlainCalls /\ c.cb = d.cb /\ c.shown = d.told => Tells(c, d)
<1>1. Range(OneCallback) \cap Range(ListCallback) = {}
  BY DEF OneCallback, ListCallback, Range
<1>2. Range(RawCallback) \cap Range(ListCallback) = {}
  BY DEF RawCallback, ListCallback, Range
<1>3. Range(SystemCallback) \cap Range(ListCallback) = {}
  BY DEF SystemCallback, ListCallback, Range
<1>4. Range(BridgeCallback) \cap Range(ListCallback) = {}
  BY DEF BridgeCallback, ListCallback, Range
<1>5. Range(EventCallback) \cap Range(ListCallback) = {}
  BY DEF EventCallback, ListCallback, Range
<1>6. Range(OtaCallback) \cap Range(ListCallback) = {}
  BY DEF OtaCallback, ListCallback, Range
<1>7. {"onDeviceConfig", "none", "IOTA_RptDeviceConfigRst", "onOtherUndefined"} \cap Range(ListCallback) = {}
  BY DEF ListCallback, Range
<1>8. PlainCalls \cap Range(ListCallback) = {}
  BY <1>1, <1>2, <1>3, <1>4, <1>5, <1>6, <1>7 DEF PlainCalls
<1>9. \A c : ForList(c) <=> c.cb \in Range(ListCallback)
  BY DEF ForList, Range
<1> QED BY <1>8, <1>9, Zenon DEF Tells

\* The callbacks of a payload, none of which is the one for unknown topics.
Payloads == PlainCalls \ {"onOtherUndefined", "IOTA_RptDeviceConfigRst"}

\* Every callback that the topic chooses is one of those.
LEMMA PlainTopics ==
  /\ \A r \in DOMAIN OneCallback : OneCallback[r] \in Payloads
  /\ \A r \in DOMAIN RawCallback : /\ RawCallback[r] \in Payloads /\ SystemCallback[r] \in Payloads
                                   /\ SystemCallback[r] # RawCallback[r]
  /\ \A r \in DOMAIN BridgeCallback : BridgeCallback[r] \in Payloads
<1>1. \A r \in DOMAIN OneCallback : OneCallback[r] \in PlainCalls
  BY DEF PlainCalls, Range
<1>2. \A r \in DOMAIN RawCallback : RawCallback[r] \in PlainCalls
  BY DEF PlainCalls, Range
<1>3. \A r \in DOMAIN RawCallback : SystemCallback[r] \in PlainCalls
  BY RoutesDiffer DEF PlainCalls, Range
<1>4. \A r \in DOMAIN BridgeCallback : BridgeCallback[r] \in PlainCalls
  BY DEF PlainCalls, Range
<1>5. \A r \in DOMAIN OneCallback : OneCallback[r] \notin {"onOtherUndefined", "IOTA_RptDeviceConfigRst"}
  BY DEF OneCallback
<1>6. \A r \in DOMAIN RawCallback : /\ RawCallback[r] \notin {"onOtherUndefined", "IOTA_RptDeviceConfigRst"}
                                    /\ SystemCallback[r] \notin {"onOtherUndefined", "IOTA_RptDeviceConfigRst"}
                                    /\ SystemCallback[r] # RawCallback[r]
  BY DEF RawCallback, SystemCallback
<1>7. \A r \in DOMAIN BridgeCallback : BridgeCallback[r] \notin {"onOtherUndefined", "IOTA_RptDeviceConfigRst"}
  BY DEF BridgeCallback
<1> QED BY <1>1, <1>2, <1>3, <1>4, <1>5, <1>6, <1>7, Zenon DEF Payloads

\* A handler has done what is due.
LEMMA DoneKeeps ==
  ASSUME pc' = "idle", UNCHANGED <<msg, early>>, updates' \in Seq(HandedRecord),
         Carry(calls', Due(msg), Awaited), Hand(updates', msg, ToHandOn)
  PROVE  DeliveryInvariant'
<1>1. Delivered'
  BY DEF Delivered, Awaited
<1>2. UpdatesOnce'
  BY DEF UpdatesOnce, ToHandOn
<1> QED BY <1>1, <1>2 DEF DeliveryInvariant

\* No list, nothing to hand on.
LEMMA NothingHandedOn == \A m : Hand(<<>>, m, {})
BY DEF Hand, InOrder

\* The callback of a topic is the first call for a message.
LEMMA FirstCall ==
  ASSUME calls = <<>>, NEW cb \in Payloads, Outside, Call(Shown(cb, <<>>))
  PROVE  Carry(calls', {At(0, cb, <<>>)}, Awaited)
<1> DEFINE c == Shown(cb, <<>>)
           d == At(0, cb, <<>>)
<1>1. c \in Telling /\ ~ ForList(c) /\ Tells(c, d) /\ d.cb = cb
  BY PlainIsNoList DEF Shown, At, Telling, Payloads
<1>2. Carry(calls, {}, Awaited)
  BY CarryNothing
<1>3. d.cb \in Awaited => d.cb \in callbacks
  BY <1>1 DEF Outside, Awaited, Payloads
<1>4. calls \in Seq(Telling)
  OBVIOUS
<1>5. calls' = calls \o Made(c)
  BY DEF Call
<1>7. d.cb # "onOtherUndefined"
  BY <1>1 DEF Payloads
<1> HIDE DEF c, d
<1>6. Carry(calls \o Made(c), {} \cup {d}, Awaited)
  BY <1>1, <1>2, <1>3, <1>4, <1>7, CarryMade
<1> QED BY <1>5, <1>6 DEF d

-----------------------------------------------------------------------------
(* What the steps of the MQTT thread deliver.                             *)

\* A message arrives.
LEMMA ArrivalDelivers ==
  ASSUME NEW m, MqttBase_OnMessageArrived(m), Wiring
  PROVE  DeliveryInvariant'
<1>1. /\ pc' = IF wired THEN "route" ELSE "idle"
      /\ calls' = <<>> /\ updates' = <<>> /\ early' = callbacks
  BY DEF MqttBase_OnMessageArrived
<1>2. ~ Handled'
  BY <1>1 DEF Handled, Wiring
<1>3. Delivered' /\ UpdatesOnce'
  BY <1>2 DEF Delivered, UpdatesOnce
<1> QED BY <1>1, <1>3 DEF DeliveryInvariant

\* Handlers with one payload: each calls what is due.
LEMMA OneDelivers ==
  ASSUME Outside, ThreadInvariant, DeliveryInvariant,
         \/ OnOneArrived \/ OnRawArrived \/ OnSystemArrived
         \/ OnBridgeArrived \/ OnOtherUndefinedTopicArrived \/ OnNothingArrived
  PROVE  DeliveryInvariant'
<1> USE DEF Returns
<1> DEFINE r == Route(msg.topic)
<1>0. /\ calls \in Seq(Telling)
      /\ pc = "route" => calls = <<>> /\ updates = <<>>
      /\ pc = "system" => /\ updates = <<>> /\ Carry(calls, {At(0, RawCallback[r], <<>>)}, Awaited)
                          /\ r \in DOMAIN RawCallback
      /\ pc = "undefined" => updates = <<>> /\ Carry(calls, Due(msg), Awaited) /\ r \in DOMAIN BridgeCallback
  BY RoutesDiffer DEF ThreadInvariant, InHand, DeliveryInvariant
<1>1. ASSUME pc' = "idle", UNCHANGED <<msg, early, updates>>, updates = <<>>, Carry(calls', Due(msg), Awaited),
             r \notin DOMAIN ListCallback
      PROVE  DeliveryInvariant'
  <2>1. Hand(updates', msg, ToHandOn)
    BY <1>1, NothingHandedOn DEF ToHandOn
  <2> QED BY <1>1, <2>1, DoneKeeps
<1>2. CASE OnOneArrived
  <2>1. /\ pc = "route" /\ pc' = "idle" /\ UNCHANGED <<msg, early, updates>> /\ r \in DOMAIN OneCallback
        /\ Call(Shown(OneCallback[r], <<>>))
    BY <1>2 DEF OnOneArrived
  <2>2. Carry(calls', {At(0, OneCallback[r], <<>>)}, Awaited)
    BY <1>0, <2>1, PlainTopics, FirstCall
  <2> QED BY <1>0, <1>1, <2>1, <2>2, DuePlain, RoutesDiffer
<1>3. CASE OnRawArrived
  <2>1. /\ pc = "route" /\ pc' = "system" /\ UNCHANGED <<msg, early, updates>> /\ r \in DOMAIN RawCallback
        /\ Call(Shown(RawCallback[r], <<>>))
    BY <1>3 DEF OnRawArrived
  <2>2. Carry(calls', {At(0, RawCallback[r], <<>>)}, Awaited)
    BY <1>0, <2>1, PlainTopics, FirstCall
  <2>3. Delivered' /\ UpdatesOnce'
    BY <2>1 DEF Delivered, UpdatesOnce, Handled
  <2>4. updates' = <<>> /\ Carry(calls', {At(0, RawCallback[r'], <<>>)}, Awaited')
    BY <1>0, <2>1, <2>2 DEF Awaited
  <2> QED BY <2>1, <2>3, <2>4 DEF DeliveryInvariant
<1>4. CASE OnSystemArrived
  <2> DEFINE c == Shown(SystemCallback[r], <<>>)
             d == At(1, SystemCallback[r], <<>>)
             first == {At(0, RawCallback[r], <<>>)}
  <2>1. /\ pc = "system" /\ pc' = "idle" /\ UNCHANGED <<msg, early, updates>>
        /\ IF msg.system THEN Call(c) ELSE UNCHANGED calls
    BY <1>4 DEF OnSystemArrived, InSystemFormat
  <2>2. SystemCallback[r] \in Payloads /\ SystemCallback[r] # RawCallback[r] /\ r \in DOMAIN RawCallback
    BY <1>0, <2>1, PlainTopics
  <2>3. c \in Telling /\ ~ ForList(c) /\ Tells(c, d) /\ d.cb = SystemCallback[r] /\ d.cb # "onOtherUndefined"
    BY <2>2, PlainIsNoList DEF Shown, At, Telling, Payloads
  <2>4. d.cb \in Awaited => d.cb \in callbacks
    BY <2>2, <2>3 DEF Awaited, Outside, Payloads
  <2>5. \A e \in first : e.turn < d.turn /\ ~ (e.cb = d.cb /\ e.told = d.told)
    BY <2>2 DEF At
  <2>6. Carry(calls, first, Awaited) /\ calls \in Seq(Telling)
    BY <1>0, <2>1
  <2>7. Due(msg) = first \cup (IF msg.system THEN {d} ELSE {}) /\ r \notin DOMAIN ListCallback
    BY <2>2, DuePlain, RoutesDiffer
  <2> HIDE DEF c, d, first
  <2>8. Carry(calls \o Made(c), first \cup {d}, Awaited)
    BY <2>3, <2>4, <2>5, <2>6, CarryMade
  <2>9. Carry(calls', Due(msg), Awaited)
    <3>1. CASE msg.system
      BY <2>1, <2>7, <2>8, <3>1 DEF Call
    <3>2. CASE ~ msg.system
      BY <2>1, <2>6, <2>7, <3>2
    <3> QED BY <3>1, <3>2
  <2> QED BY <1>0, <1>1, <2>1, <2>7, <2>9
<1>5. CASE OnBridgeArrived
  <2>1. /\ pc = "route" /\ pc' = "undefined" /\ UNCHANGED <<msg, early, updates>> /\ r \in DOMAIN BridgeCallback
        /\ Call(Shown(BridgeCallback[r], <<>>))
    BY <1>5 DEF OnBridgeArrived
  <2>2. Carry(calls', {At(0, BridgeCallback[r], <<>>)}, Awaited)
    BY <1>0, <2>1, PlainTopics, FirstCall
  <2>3. Delivered' /\ UpdatesOnce'
    BY <2>1 DEF Delivered, UpdatesOnce, Handled
  <2>4. Due(msg) = {At(0, BridgeCallback[r], <<>>)}
    BY <2>1, DuePlain
  <2>5. updates' = <<>> /\ Carry(calls', Due(msg'), Awaited')
    BY <1>0, <2>1, <2>2, <2>4 DEF Awaited
  <2> QED BY <2>1, <2>3, <2>5 DEF DeliveryInvariant
<1>6. CASE OnOtherUndefinedTopicArrived
  <2> DEFINE c == Shown("onOtherUndefined", <<>>)
  <2>1. pc = "undefined" /\ pc' = "idle" /\ UNCHANGED <<msg, early, updates>> /\ Call(c)
    BY <1>6 DEF OnOtherUndefinedTopicArrived
  <2>2. c \in Telling /\ c.cb = "onOtherUndefined"
    BY DEF Shown, Telling, PlainCalls
  <2>3. \A d \in Due(msg) : d.cb # "onOtherUndefined"
    <3>1. Due(msg) = {At(0, BridgeCallback[r], <<>>)} /\ BridgeCallback[r] \in Payloads
      BY <1>0, <2>1, DuePlain, PlainTopics
    <3> QED BY <3>1 DEF At, Payloads
  <2> HIDE DEF c
  <2>4. Carry(calls \o Made(c), Due(msg), Awaited)
    BY <1>0, <2>1, <2>2, <2>3, CarryOther
  <2>5. r \notin DOMAIN ListCallback
    BY <1>0, <2>1, RoutesDiffer
  <2> QED BY <1>0, <1>1, <2>1, <2>4, <2>5 DEF Call
<1>7. CASE OnNothingArrived
  <2>1. pc = "route" /\ pc' = "idle" /\ UNCHANGED <<msg, early, updates, calls>> /\ r = "undefined"
    BY <1>7 DEF OnNothingArrived
  <2>2. Carry(calls', Due(msg), Awaited)
    BY <1>0, <2>1, DuePlain, CarryNothing
  <2> QED BY <1>0, <1>1, <2>1, <2>2, RoutesDiffer
<1> QED BY <1>2, <1>3, <1>4, <1>5, <1>6, <1>7

\* A list that is refused has no calls due; one that is not begins with none.
LEMMA BeginDelivers ==
  ASSUME ThreadInvariant, DeliveryInvariant, ListBegins
  PROVE  DeliveryInvariant'
<1> DEFINE r == Route(msg.topic)
<1>1. /\ pc = "route" /\ UNCHANGED <<msg, early, updates, calls>> /\ r \in DOMAIN ListCallback
      /\ pc' = (IF Refused(msg) THEN "idle" ELSE "loop") /\ k' = 1 /\ i' = 0
  BY DEF ListBegins
<1>2. calls = <<>> /\ updates = <<>>
  BY <1>1 DEF DeliveryInvariant
<1>3. CASE Refused(msg)
  <2>1. Due(msg) = {} /\ ToHandOn = {}
    BY <1>1, <1>3, DueList DEF ToHandOn
  <2>2. Carry(calls', Due(msg), Awaited) /\ Hand(updates', msg, ToHandOn)
    BY <1>1, <1>2, <2>1, CarryNothing, NothingHandedOn
  <2> QED BY <1>1, <1>2, <1>3, <2>2, DoneKeeps
<1>4. CASE ~ Refused(msg)
  <2>1. DueInLoop' = {} /\ 1..(k' - 1) = {} /\ 1..i' = {}
    BY <1>1 DEF DueInLoop, EventDue
  <2>2. Carry(calls', DueInLoop', Awaited') /\ Hand(updates', msg', 1..(k' - 1) \cap HandedOn(msg'))
    BY <1>1, <1>2, <2>1, CarryNothing, NothingHandedOn
  <2>3. ~ Refused(msg')
    BY <1>1, <1>4
  <2>4. LoopDelivers'
    <3>1. {places'[n].service : n \in 1..i'} = 1..(k' - 1) \cap Listed(msg')
      BY <2>1
    <3> QED BY <2>1, <2>2, <2>3, <3>1 DEF LoopDelivers
  <2>5. Delivered' /\ UpdatesOnce'
    BY <1>1, <1>4 DEF Delivered, UpdatesOnce, Handled
  <2> QED BY <1>1, <1>2, <1>4, <2>4, <2>5 DEF DeliveryInvariant
<1> QED BY <1>3, <1>4

\* One more update, for a later service.
LEMMA HandMore ==
  ASSUME NEW us \in Seq(HandedRecord), NEW m, NEW ns, Hand(us, m, ns), NEW u \in HandedRecord,
         \A n \in ns : n < u.service, u.id = m.services[u.service].id,
         u.string = IF Route(m.topic) = "events" \/ "desired" \in m.services[u.service].has THEN u.service ELSE 0
  PROVE  Hand(Append(us, u), m, ns \cup {u.service})
<1> DEFINE us2 == Append(us, u)
           l == Len(us) + 1
<1>1. /\ DOMAIN us = 1..Len(us) /\ Len(us) \in Nat /\ DOMAIN us2 = 1..l /\ us2[l] = u
      /\ \A n \in 1..Len(us) : us2[n] = us[n]
  BY LastCall
<1>2. /\ DOMAIN us \subseteq DOMAIN us2 /\ l \in DOMAIN us2
      /\ \A n \in DOMAIN us2 : (n \in DOMAIN us /\ us2[n] = us[n]) \/ (n = l /\ us2[n] = u)
      /\ \A n \in DOMAIN us : us2[n] = us[n]
      /\ \A n, o \in DOMAIN us2 : n < o => n \in DOMAIN us
  <2>1. l = Len(us) + 1
    OBVIOUS
  <2> HIDE DEF us2, l
  <2> QED BY ONLY <1>1, <2>1
<1> HIDE DEF us2, l
<1>3. {us2[n].service : n \in DOMAIN us2} = ns \cup {u.service}
  <2>1. {us[n].service : n \in DOMAIN us} = ns
    BY DEF Hand
  <2>2. ASSUME NEW n \in DOMAIN us2 PROVE us2[n].service \in {us[o].service : o \in DOMAIN us} \cup {u.service}
    BY <1>2
  <2>3. ASSUME NEW n \in DOMAIN us PROVE us[n].service \in {us2[o].service : o \in DOMAIN us2}
    BY <1>2
  <2>4. u.service \in {us2[o].service : o \in DOMAIN us2}
    BY <1>1, <1>2
  <2> QED BY <2>1, <2>2, <2>3, <2>4
<1>4. InOrder(us2)
  <2>1. \A n \in DOMAIN us : us[n].service < u.service
    BY DEF Hand
  <2>2. ASSUME NEW n \in DOMAIN us2, NEW o \in DOMAIN us2, n < o PROVE us2[n].service < us2[o].service
    <3>1. n \in DOMAIN us /\ us2[n] = us[n]
      BY <1>2, <2>2
    <3>2. CASE o \in DOMAIN us
      BY <1>2, <2>2, <3>1, <3>2, Zenon DEF Hand, InOrder
    <3>3. CASE o \notin DOMAIN us
      BY <1>2, <2>1, <3>1, <3>3, Zenon
    <3> QED BY <3>2, <3>3
  <2> QED BY <2>2 DEF InOrder
<1>5. ASSUME NEW n \in DOMAIN us2
      PROVE  LET e == m.services[us2[n].service]
             IN  /\ us2[n].id = e.id
                 /\ us2[n].string = IF Route(m.topic) = "events" \/ "desired" \in e.has THEN us2[n].service ELSE 0
  <2>1. CASE n \in DOMAIN us
    BY <1>2, <2>1, Zenon DEF Hand
  <2>2. CASE us2[n] = u
    BY <2>2, Zenon
  <2> QED BY <1>2, <2>1, <2>2
<1> QED BY <1>3, <1>4, <1>5, Zenon DEF Hand, us2

\* The service in hand is handed on if it is for the SDK.
LEMMA ServiceHanded ==
  ASSUME AtService, updates \in Seq(HandedRecord), Hand(updates, msg, 1..(k - 1) \cap HandedOn(msg)),
         NEW string \in Nat,
         updates' = (IF k \in HandedOn(msg) THEN Append(updates, Handing(msg.services[k], string)) ELSE updates),
         k \in HandedOn(msg) =>
           string = IF Route(msg.topic) = "events" \/ "desired" \in msg.services[k].has THEN k ELSE 0
  PROVE  updates' \in Seq(HandedRecord) /\ Hand(updates', msg, 1..k \cap HandedOn(msg))
<1> DEFINE u == Handing(msg.services[k], string)
<1>1. u \in HandedRecord /\ u.service = k /\ u.id = msg.services[k].id /\ u.string = string
  BY DEF Handing, HandedRecord, AtService, Service
<1>2. k \in Nat /\ \A n \in 1..(k - 1) : n < k
  BY DEF AtService
<1>3. CASE k \in HandedOn(msg)
  <2>1. 1..k \cap HandedOn(msg) = (1..(k - 1) \cap HandedOn(msg)) \cup {k}
    BY <1>2, <1>3 DEF AtService
  <2>2. updates' = Append(updates, u) /\ updates' \in Seq(HandedRecord)
    BY <1>1, <1>3
  <2> HIDE DEF u
  <2>3. Hand(Append(updates, u), msg, (1..(k - 1) \cap HandedOn(msg)) \cup {u.service})
    BY <1>1, <1>2, <1>3, HandMore
  <2> QED BY <1>1, <2>1, <2>2, <2>3
<1>4. CASE k \notin HandedOn(msg)
  <2>1. 1..k \cap HandedOn(msg) = 1..(k - 1) \cap HandedOn(msg)
    BY <1>2, <1>4
  <2> QED BY <1>4, <2>1
<1> QED BY <1>3, <1>4

\* The service in hand takes the next place if it is listed.
LEMMA ServicePlaced ==
  ASSUME AtService, LoopDelivers,
         i' = (IF k \in Listed(msg) THEN i + 1 ELSE i),
         \A n \in 1..i : places'[n].service = places[n].service,
         k \in Listed(msg) => places'[i + 1].service = k
  PROVE  /\ \A n, o \in 1..i' : n < o => places'[n].service < places'[o].service
         /\ {places'[n].service : n \in 1..i'} = 1..k \cap Listed(msg)
<1>1. /\ \A n, o \in 1..i : n < o => places[n].service < places[o].service
      /\ {places[n].service : n \in 1..i} = 1..(k - 1) \cap Listed(msg)
      /\ i \in Nat /\ k \in Nat \ {0}
  <2>1. i \in Nat /\ k \in Nat \ {0}
    BY DEF AtService
  <2> QED BY <2>1 DEF LoopDelivers
<1>2. CASE k \in Listed(msg)
  <2>1. i' = i + 1 /\ \A n \in 1..(i + 1) : n \in 1..i \/ n = i + 1
    BY <1>1, <1>2
  <2>2. 1..k \cap Listed(msg) = (1..(k - 1) \cap Listed(msg)) \cup {k}
    BY <1>1, <1>2
  <2>3. \A n \in 1..i : places'[n].service \in 1..(k - 1)
    BY <1>1
  <2>4. ASSUME NEW n \in 1..i', NEW o \in 1..i', n < o PROVE places'[n].service < places'[o].service
    <3>1. n \in 1..i
      BY <1>1, <2>1, <2>4
    <3>2. CASE o \in 1..i
      BY <1>1, <2>4, <3>1, <3>2
    <3>3. CASE o = i + 1
      <4>1. places'[n].service \in 1..(k - 1) /\ places'[o].service = k
        BY <1>2, <2>3, <3>1, <3>3
      <4> QED BY <1>1, <4>1
    <3> QED BY <2>1, <3>2, <3>3
  <2>5. 1..i \subseteq 1..i' /\ i + 1 \in 1..i'
    BY <1>1, <2>1
  <2>6. {places'[n].service : n \in 1..i'} = {places[n].service : n \in 1..i} \cup {k}
    BY <1>2, <2>1, <2>5, Zenon
  <2> QED BY <1>1, <2>2, <2>4, <2>6
<1>3. CASE k \notin Listed(msg)
  <2>1. 1..k \cap Listed(msg) = 1..(k - 1) \cap Listed(msg) /\ i' = i
    BY <1>1, <1>3
  <2>2. {places'[n].service : n \in 1..i'} = {places[n].service : n \in 1..i}
    BY <2>1, Zenon
  <2> QED BY <1>1, <2>1, <2>2
<1> QED BY <1>2, <1>3

\* The loop goes on behind a service that it has dealt with.
LEMMA ServiceDelivers ==
  ASSUME AtService, DeliveryInvariant, pc' = "loop", k' = k + 1, UNCHANGED <<msg, early>>,
         k \in Reached(msg), NEW string \in Nat,
         updates' = (IF k \in HandedOn(msg) THEN Append(updates, Handing(msg.services[k], string)) ELSE updates),
         k \in HandedOn(msg) =>
           string = (IF Route(msg.topic) = "events" \/ "desired" \in msg.services[k].has THEN k ELSE 0),
         i' = (IF k \in Listed(msg) THEN i + 1 ELSE i),
         \A n \in 1..i : places'[n].service = places[n].service,
         k \in Listed(msg) => places'[i + 1].service = k,
         Carry(calls', IF Route(msg.topic) = "events" THEN EventDue(msg, 1..k) ELSE {}, Awaited)
  PROVE  DeliveryInvariant'
<1>1. LoopDelivers /\ updates \in Seq(HandedRecord)
  BY DEF AtService, DeliveryInvariant
<1>2. updates' \in Seq(HandedRecord) /\ Hand(updates', msg, 1..k \cap HandedOn(msg))
  BY <1>1, ServiceHanded DEF LoopDelivers
<1>3. /\ \A n, o \in 1..i' : n < o => places'[n].service < places'[o].service
      /\ {places'[n].service : n \in 1..i'} = 1..k \cap Listed(msg)
  BY <1>1, ServicePlaced
<1>4. k' - 1 = k /\ k \in Nat
  BY DEF AtService
<1>5. ~ Refused(msg) /\ 1..k \subseteq Reached(msg)
  BY <1>1, <1>4 DEF LoopDelivers
<1>6. Carry(calls', DueInLoop', Awaited')
  BY <1>4 DEF DueInLoop, Awaited
<1>7. LoopDelivers'
  BY <1>2, <1>3, <1>4, <1>5, <1>6 DEF LoopDelivers
<1>8. Delivered' /\ UpdatesOnce'
  BY DEF Delivered, UpdatesOnce, Handled
<1> QED BY <1>2, <1>7, <1>8 DEF DeliveryInvariant

\* The services of a list that is no event are all reached.
LEMMA AllReached ==
  ASSUME AtService, Route(msg.topic) # "events"
  PROVE  Reached(msg) = DOMAIN msg.services /\ k \in Reached(msg)
BY DEF Reached, AtService, Count

\* A service of a property message.
LEMMA PropertiesDelivers ==
  ASSUME ThreadInvariant, DeliveryInvariant, PropertiesService
  PROVE  DeliveryInvariant'
<1> DEFINE e == msg.services[k]
           D == Printed(e, "desired")
<1>1. InLoop("set") /\ k' = k + 1 /\ UNCHANGED <<pc, msg, calls, early>>
  BY DEF PropertiesService
<1>2. AtService /\ Route(msg.topic) = "set"
  BY <1>1, ServiceInHand
<1>3. k \in DOMAIN msg.services /\ i \in Nat /\ i + 1 \in DOMAIN places /\ k \in Nat
  BY <1>2 DEF AtService, Count
<1>4. k \in Listed(msg) <=> e.id # "absent"
  BY <1>2, <1>3 DEF Listed
<1>5. k \in HandedOn(msg) <=> ForSdk(e)
  BY <1>2, <1>3 DEF HandedOn
<1>6. ForSdk(e) => e.id # "absent"
  BY DEF ForSdk
<1>7. D \in Nat /\ (D = IF "desired" \in e.has THEN k ELSE 0)
  BY <1>3 DEF Printed
<1>8. updates' = IF k \in HandedOn(msg) THEN Append(updates, Handing(e, D)) ELSE updates
  BY <1>5, <1>6 DEF PropertiesService, Update
<1>9. /\ i' = IF k \in Listed(msg) THEN i + 1 ELSE i
      /\ \A n \in 1..i : places'[n].service = places[n].service
      /\ k \in Listed(msg) => places'[i + 1].service = k
  <2>1. CASE e.id = "absent"
    BY <1>4, <2>1 DEF PropertiesService
  <2>2. CASE e.id # "absent"
    <3>1. i' = i + 1 /\ places' = [places EXCEPT ![i + 1] = [service |-> k, desired |-> D, reported |-> 0]]
      BY <2>2 DEF PropertiesService
    <3>2. \A n \in 1..i : n # i + 1
      BY <1>3
    <3> HIDE DEF D
    <3> QED BY <1>3, <1>4, <2>2, <3>1, <3>2
  <2> QED BY <2>1, <2>2
<1>10. pc' = "loop" /\ Carry(calls', {}, Awaited)
  BY <1>1, <1>2 DEF AtService, DeliveryInvariant, LoopDelivers, DueInLoop
<1>11. k \in Reached(msg)
  BY <1>2, AllReached
<1> HIDE DEF D
<1> QED BY <1>1, <1>2, <1>7, <1>8, <1>9, <1>10, <1>11, ServiceDelivers

\* A service of a shadow.
LEMMA ShadowDelivers ==
  ASSUME ThreadInvariant, DeliveryInvariant, ShadowService
  PROVE  DeliveryInvariant'
<1> DEFINE e == msg.services[k]
           ss == [f \in Fields |-> IF f \in e.has THEN k ELSE strs[i + 1][f]]
           D == ss.desired
<1>1. InLoop("shadow") /\ k' = k + 1 /\ UNCHANGED <<pc, msg, calls, early>> /\ Update(e, D)
  BY DEF ShadowService
<1>2. AtService /\ Route(msg.topic) = "shadow"
  BY <1>1, ServiceInHand
<1>3. k \in DOMAIN msg.services /\ i \in Nat /\ i + 1 \in 1..Count /\ k \in Nat /\ Count \in Nat
  BY <1>2 DEF AtService, Count
<1>4. k \in Listed(msg) <=> ~ ForSdk(e)
  BY <1>2, <1>3 DEF Listed
<1>5. k \in HandedOn(msg) <=> ForSdk(e)
  BY <1>2, <1>3 DEF HandedOn
<1>6. D \in Nat /\ (D = IF "desired" \in e.has THEN k ELSE 0)
  <2>1. strs[i + 1] = NoStrings
    BY <1>2, <1>3 DEF AtService
  <2> QED BY <1>3, <2>1 DEF NoStrings, Fields
<1> HIDE DEF D, ss
<1>7. updates' = IF k \in HandedOn(msg) THEN Append(updates, Handing(e, D)) ELSE updates
  BY <1>1, <1>5 DEF Update
<1>8. /\ i' = IF k \in Listed(msg) THEN i + 1 ELSE i
      /\ \A n \in 1..i : places'[n].service = places[n].service
      /\ k \in Listed(msg) => places'[i + 1].service = k
  <2>1. /\ \A n \in 1..Count : n # i + 1 => places'[n] = places[n]
        /\ places'[i + 1].service = k
        /\ i' = IF ForSdk(e) THEN i ELSE i + 1
    BY ShadowMoves
  <2>2. \A n \in 1..i : n \in 1..Count /\ n # i + 1
    BY <1>3
  <2> QED BY <1>4, <2>1, <2>2
<1>9. pc' = "loop" /\ Carry(calls', {}, Awaited)
  BY <1>1, <1>2 DEF AtService, DeliveryInvariant, LoopDelivers, DueInLoop
<1>10. k \in Reached(msg)
  BY <1>2, AllReached
<1> QED BY <1>1, <1>2, <1>6, <1>7, <1>8, <1>9, <1>10, ServiceDelivers

\* What is due for one more service of an event.
LEMMA EventDueNext ==
  ASSUME NEW m, NEW n \in Nat \ {0}
  PROVE  EventDue(m, 1..n) =
           EventDue(m, 1..(n - 1))
             \cup (IF Incomplete(m.services[n]) THEN {} ELSE {At(2 * n, ServiceCallback(m.services[n]), n)})
             \cup (IF IsConfig(m.services[n]) THEN {At(2 * n + 1, "IOTA_RptDeviceConfigRst", n)} ELSE {})
<1> DEFINE A(s) == {At(2 * o, ServiceCallback(m.services[o]), o) : o \in {p \in s : ~ Incomplete(m.services[p])}}
           B(s) == {At(2 * o + 1, "IOTA_RptDeviceConfigRst", o) : o \in {p \in s : IsConfig(m.services[p])}}
<1>1. \A s : EventDue(m, s) = A(s) \cup B(s)
  BY DEF EventDue
<1>2. 1..n = 1..(n - 1) \cup {n}
  OBVIOUS
<1>3. \A s : A(s \cup {n}) =
             A(s) \cup (IF Incomplete(m.services[n]) THEN {} ELSE {At(2 * n, ServiceCallback(m.services[n]), n)})
  OBVIOUS
<1>4. \A s : B(s \cup {n}) =
             B(s) \cup (IF IsConfig(m.services[n]) THEN {At(2 * n + 1, "IOTA_RptDeviceConfigRst", n)} ELSE {})
  OBVIOUS
<1> HIDE DEF A, B
<1> QED BY <1>1, <1>2, <1>3, <1>4

\* What is due for the services before n of an event comes before what is due for n.
LEMMA EventDueBefore ==
  ASSUME NEW m, NEW n \in Nat \ {0}, NEW d \in EventDue(m, 1..(n - 1))
  PROVE  /\ d.turn \in Nat /\ d.turn < 2 * n /\ d.told \in 1..(n - 1)
         /\ d.cb \in PlainCalls
<1>1. CASE \E o \in 1..(n - 1) : d = At(2 * o, ServiceCallback(m.services[o]), o)
  <2>1. PICK o \in 1..(n - 1) : d = At(2 * o, ServiceCallback(m.services[o]), o)
    BY <1>1
  <2>2. d.turn = 2 * o /\ d.told = o /\ d.cb = ServiceCallback(m.services[o])
    BY <2>1 DEF At
  <2> QED BY <2>2, PlainCallbacks
<1>2. CASE \E o \in 1..(n - 1) : d = At(2 * o + 1, "IOTA_RptDeviceConfigRst", o)
  <2>1. PICK o \in 1..(n - 1) : d = At(2 * o + 1, "IOTA_RptDeviceConfigRst", o)
    BY <1>2
  <2>2. d.turn = 2 * o + 1 /\ d.told = o /\ d.cb = "IOTA_RptDeviceConfigRst"
    BY <2>1 DEF At
  <2> QED BY <2>2 DEF PlainCalls
<1> QED BY <1>1, <1>2 DEF EventDue

\* Nobody registers a callback for the services that have none.
LEMMA NoneIsNoCallback == Outside => "none" \notin callbacks /\ "none" \notin Awaited
BY DEF Outside, Callback, Awaited

\* The callbacks for services of an event.
LEMMA ServicePayloads ==
  \A e : ServiceCallback(e) \in Payloads /\ (e.id = "rule" => ServiceCallback(e) = "none")
<1>1. \A e : ServiceCallback(e) \in PlainCalls
  BY PlainCallbacks
<1>2. \A e : ServiceCallback(e) \notin {"onOtherUndefined", "IOTA_RptDeviceConfigRst"}
  BY DEF ServiceCallback, EventCallback, OtaCallback
<1>3. \A e : e.id = "rule" => ServiceCallback(e) = "none"
  BY DEF ServiceCallback, EventCallback, IsConfig
<1> QED BY <1>1, <1>2, <1>3, Zenon DEF Payloads

\* What the calls carry after a service of an event that does not fail.
LEMMA EventCarries ==
  ASSUME Outside, ThreadInvariant, DeliveryInvariant, EventService, ~ Aborts(msg.services[k])
  PROVE  Carry(calls', EventDue(msg, 1..k), Awaited)
<1> DEFINE e == msg.services[k]
           before == EventDue(msg, 1..(k - 1))
           d == At(2 * k, ServiceCallback(e), k)
           c == Shown(ServiceCallback(e), k)
           d2 == At(2 * k + 1, "IOTA_RptDeviceConfigRst", k)
           c2 == Shown("IOTA_RptDeviceConfigRst", k)
<1>1. AtService /\ Route(msg.topic) = "events"
  BY ServiceInHand DEF EventService
<1>2. k \in Nat \ {0}
  BY <1>1 DEF AtService
<1>3. Carry(calls, before, Awaited) /\ calls \in Seq(Telling) /\ scenario \in DOMAIN Scenarios
  BY <1>1 DEF AtService, DeliveryInvariant, LoopDelivers, DueInLoop, ThreadInvariant, InHand
<1>4. EventDue(msg, 1..k) = before \cup (IF Incomplete(e) THEN {} ELSE {d}) \cup (IF IsConfig(e) THEN {d2} ELSE {})
  BY <1>2, EventDueNext
<1>5. \A x \in before : x.turn \in Nat /\ x.turn < 2 * k /\ x.told \in 1..(k - 1) /\ x.cb \in PlainCalls
  BY <1>2, EventDueBefore
<1>6. /\ d.turn = 2 * k /\ d.cb = ServiceCallback(e) /\ d.told = k
      /\ d2.turn = 2 * k + 1 /\ d2.cb = "IOTA_RptDeviceConfigRst" /\ d2.told = k
  BY DEF At
<1>7. ServiceCallback(e) \in Payloads /\ "IOTA_RptDeviceConfigRst" \in PlainCalls
  BY ServicePayloads DEF PlainCalls
<1>8. /\ c \in Telling /\ ~ ForList(c) /\ Tells(c, d) /\ d.cb # "onOtherUndefined"
      /\ c2 \in Telling /\ ~ ForList(c2) /\ Tells(c2, d2) /\ d2.cb # "onOtherUndefined"
  BY <1>2, <1>6, <1>7, PlainIsNoList DEF Shown, Telling, Payloads
<1>9. \A x \in before : x.turn < d.turn /\ ~ (x.cb = d.cb /\ x.told = d.told)
  BY <1>2, <1>5, <1>6
<1>10. \A x \in before \cup {d} : x.turn < d2.turn /\ ~ (x.cb = d2.cb /\ x.told = d2.told)
  <2>1. \A x \in before : x.turn < d2.turn /\ ~ (x.cb = d2.cb /\ x.told = d2.told)
    BY <1>2, <1>5, <1>6
  <2>2. d.turn < d2.turn /\ d.cb # d2.cb
    BY <1>2, <1>6, <1>7 DEF Payloads
  <2> QED BY <2>1, <2>2
<1>11. d.cb \in Awaited => d.cb \in callbacks
  BY <1>6, <1>7 DEF Awaited, Outside, Payloads
<1>12. IsConfig(e) => ~ Incomplete(e) /\ e.id # "rule"
  BY DEF IsConfig, Incomplete
<1> HIDE DEF e, before, d, c, d2, c2
<1>13. CASE Incomplete(e)
  <2>1. UNCHANGED calls
    BY <1>13 DEF EventService, e
  <2> QED BY <1>3, <1>4, <1>12, <1>13, <2>1
<1>14. CASE ~ Incomplete(e) /\ e.id = "rule"
  <2>1. UNCHANGED calls
    BY <1>14 DEF EventService, e
  <2>2. d.cb \notin Awaited
    BY <1>3, <1>6, <1>14, ServicePayloads, NoneIsNoCallback
  <2>3. Carry(calls, before \cup {d}, Awaited)
    BY <1>3, <1>8, <1>9, <2>2, CarrySkip
  <2> QED BY <1>4, <1>12, <1>14, <2>1, <2>3
<1>15. CASE ~ Incomplete(e) /\ e.id # "rule"
  <2>1. calls' = (calls \o Made(c)) \o ResultReported(e, k)
    BY <1>15 DEF EventService, e, c
  <2>2. Carry(calls \o Made(c), before \cup {d}, Awaited) /\ calls \o Made(c) \in Seq(Telling)
    BY <1>3, <1>8, <1>9, <1>11, CarryMade
  <2>3. CASE IsConfig(e)
    <3>1. ResultReported(e, k) = <<c2>>
      BY <2>3 DEF ResultReported, c2
    <3>2. calls' = Append(calls \o Made(c), c2)
      BY <1>8, <2>1, <2>2, <3>1
    <3>3. Carry(Append(calls \o Made(c), c2), (before \cup {d}) \cup {d2}, Awaited)
      BY <1>8, <1>10, <2>2, CarryCall
    <3> QED BY <1>4, <1>15, <2>3, <3>2, <3>3
  <2>4. CASE ~ IsConfig(e)
    <3>1. calls' = calls \o Made(c)
      BY <2>1, <2>2, <2>4 DEF ResultReported
    <3> QED BY <1>4, <1>15, <2>2, <2>4, <3>1
  <2> QED BY <2>3, <2>4
<1> QED BY <1>13, <1>14, <1>15

\* A service of an event.
LEMMA EventDelivers ==
  ASSUME Outside, ThreadInvariant, DeliveryInvariant, EventService
  PROVE  DeliveryInvariant'
<1> DEFINE e == msg.services[k]
<1>1. AtService /\ Route(msg.topic) = "events" /\ UNCHANGED <<msg, early>> /\ "events" \in DOMAIN ListCallback
  BY ServiceInHand, RoutesDiffer DEF EventService
<1>2. k \in DOMAIN msg.services /\ i \in Nat /\ i + 1 \in DOMAIN places /\ k \in Nat \ {0}
  BY <1>1 DEF AtService, Count
<1>3. LoopDelivers /\ updates \in Seq(HandedRecord)
  BY <1>1 DEF AtService, DeliveryInvariant
<1>4. 1..(k - 1) \subseteq Reached(msg) /\ ~ Refused(msg)
  BY <1>3 DEF LoopDelivers
<1>5. CASE Aborts(e)
  <2>1. pc' = "idle" /\ UNCHANGED <<calls, updates>>
    BY <1>5 DEF EventService, Returns
  <2>2. Reached(msg) = 1..(k - 1)
    <3>1. ASSUME NEW n \in Reached(msg) PROVE n \in 1..(k - 1)
      <4>1. n \in DOMAIN msg.services /\ \A o \in 1..n : Incomplete(msg.services[o]) \/ ~ Fails(msg.services[o])
        BY <1>1 DEF Reached
      <4>2. ~ (Incomplete(e) \/ ~ Fails(e))
        BY <1>5 DEF Aborts
      <4>3. k \notin 1..n
        BY <4>1, <4>2
      <4>4. n \in Nat \ {0}
        BY <1>1, <4>1 DEF AtService
      <4> QED BY <1>2, <4>3, <4>4
    <3> QED BY <1>4, <3>1
  <2>3. Reached(msg) # DOMAIN msg.services
    BY <1>2, <2>2
  <2>4. Due(msg) = EventDue(msg, 1..(k - 1))
    BY <1>1, <1>4, <2>2, <2>3, DueList
  <2>5. ToHandOn = 1..(k - 1) \cap HandedOn(msg)
    BY <1>1, <1>4, <2>2 DEF ToHandOn
  <2>6. Carry(calls', Due(msg), Awaited) /\ Hand(updates', msg, ToHandOn)
    BY <1>1, <1>3, <2>1, <2>4, <2>5 DEF LoopDelivers, DueInLoop
  <2> QED BY <1>1, <1>3, <2>1, <2>6, DoneKeeps
<1>6. CASE ~ Aborts(e)
  <2>1. Carry(calls', EventDue(msg, 1..k), Awaited)
    BY <1>6, EventCarries
  <2>2. k \in Reached(msg)
    <3>1. ASSUME NEW o \in 1..k PROVE Incomplete(msg.services[o]) \/ ~ Fails(msg.services[o])
      <4>1. CASE o = k
        BY <1>6, <4>1 DEF Aborts
      <4>2. CASE o # k
        <5>1. o \in 1..(k - 1) /\ o \in 1..o
          BY <1>2, <4>2
        <5>2. o \in Reached(msg)
          BY <1>4, <5>1
        <5> QED BY <1>1, <5>1, <5>2 DEF Reached
      <4> QED BY <4>1, <4>2
    <3> QED BY <1>2, <3>1 DEF Reached
  <2>3. k \in Listed(msg) <=> ~ Incomplete(e) /\ e.id # "rule"
    BY <1>1, <1>2 DEF Listed
  <2>4. k \in HandedOn(msg) <=> ~ Incomplete(e) /\ e.id = "rule"
    BY <1>1, <1>2 DEF HandedOn
  <2>5. updates' = IF k \in HandedOn(msg) THEN Append(updates, Handing(e, k)) ELSE updates
    BY <1>6, <2>4 DEF EventService
  <2>6. pc' = "loop" /\ k' = k + 1
    BY <1>1, <1>6 DEF EventService, AtService
  <2>7. /\ i' = IF k \in Listed(msg) THEN i + 1 ELSE i
        /\ \A n \in 1..i : places'[n].service = places[n].service
        /\ k \in Listed(msg) => places'[i + 1].service = k
    <3>1. CASE k \notin Listed(msg)
      BY <1>6, <2>3, <3>1 DEF EventService
    <3>2. CASE k \in Listed(msg)
      <4> DEFINE q == [places[i + 1] EXCEPT !.service = k]
      <4>1. i' = i + 1 /\ places' = [places EXCEPT ![i + 1] = q]
        BY <1>6, <2>3, <3>2 DEF EventService
      <4>2. q.service = k
        <5>1. places[i + 1] \in [DOMAIN EmptyPlace -> 0..Count]
          BY <1>1, <1>2 DEF AtService
        <5> QED BY <5>1 DEF EmptyPlace
      <4>3. \A n \in 1..i : n # i + 1
        BY <1>2
      <4> HIDE DEF q
      <4> QED BY <1>2, <3>2, <4>1, <4>2, <4>3
    <3> QED BY <3>1, <3>2
  <2>8. k \in Nat /\ (k \in HandedOn(msg) => k = IF Route(msg.topic) = "events" \/ "desired" \in e.has THEN k ELSE 0)
    BY <1>1, <1>2
  <2> QED BY <1>1, <2>1, <2>2, <2>5, <2>6, <2>7, <2>8, ServiceDelivers
<1> QED BY <1>5, <1>6

\* The callback for the list.
LEMMA EndDelivers ==
  ASSUME Outside, ThreadInvariant, DeliveryInvariant, ListEnds
  PROVE  DeliveryInvariant'
<1> DEFINE r == Route(msg.topic)
           shown == [n \in 1..i |-> Seen(n)]
           c == Shown(ListCallback[r], shown)
           d == At(2 * Count + 2, ListCallback[r], Listed(msg))
<1>1. /\ pc = "loop" /\ pc' = "idle" /\ UNCHANGED <<msg, updates, early>> /\ calls' = calls \o Made(c)
  BY DEF ListEnds, Returns, Call
<1>2. /\ r \in DOMAIN ListCallback /\ msg.services \in Seq(Service) /\ calls \in Seq(Telling)
      /\ Count \in Nat /\ i \in 0..Count /\ DOMAIN places = 1..Count /\ DOMAIN msg.services = 1..Count
  BY <1>1 DEF ThreadInvariant, InHand, LoopTyped, Count
<1>3. k = Count + 1 /\ k - 1 = Count
  <2>1. k > Count /\ k \in 0..(Count + 1)
    BY DEF ListEnds, ThreadInvariant, LoopTyped, Count
  <2> QED BY <1>2, <2>1
<1>4. LoopDelivers /\ updates \in Seq(HandedRecord)
  BY <1>1 DEF DeliveryInvariant
<1>5. Reached(msg) = 1..Count /\ ~ Refused(msg) /\ Listed(msg) \subseteq 1..Count
  BY <1>2, <1>3, <1>4 DEF LoopDelivers, Reached, Listed
<1>6. shown \in Seq(Place) /\ DOMAIN shown = 1..i /\ \A n \in 1..i : shown[n].service = places[n].service
  <2>1. ASSUME NEW n \in 1..i PROVE Seen(n) \in Place /\ Seen(n).service = places[n].service
    <3>0. n \in DOMAIN places
      BY <1>2
    <3>1. places[n] \in [DOMAIN EmptyPlace -> 0..Count]
      BY <3>0 DEF ThreadInvariant, LoopTyped
    <3>2. Seen(n) \in Place
      BY <1>2, <3>1 DEF Seen, Place
    <3>3. Seen(n).service = places[n].service
      BY PlaceFields DEF Seen
    <3> QED BY <3>2, <3>3
  <2> QED BY <1>2, <2>1
<1>7. /\ c.cb = ListCallback[r] /\ c.shown = shown /\ c \in Telling /\ ForList(c)
      /\ d.turn = 2 * Count + 2 /\ d.cb = ListCallback[r] /\ d.told = Listed(msg)
  BY <1>2, <1>6 DEF Shown, Telling, Range, At, ForList
<1>8. ListCallback[r] \notin PlainCalls
  BY <1>7, PlainIsNoList
<1> HIDE DEF shown
<1>9. InOrder(c.shown)
  BY <1>4, <1>6, <1>7 DEF InOrder, LoopDelivers
<1>10. Tells(c, d)
  <2>1. {shown[n].service : n \in DOMAIN shown} = {places[n].service : n \in 1..i}
    BY <1>6
  <2>2. {places[n].service : n \in 1..i} = Listed(msg)
    BY <1>3, <1>4, <1>5 DEF LoopDelivers
  <2> QED BY <1>7, <2>1, <2>2 DEF Tells
<1>11. d.cb # "onOtherUndefined" /\ (d.cb \in Awaited => d.cb \in callbacks)
  BY <1>7, <1>8 DEF PlainCalls, Awaited, Outside
<1>12. \A x \in DueInLoop : x.turn < d.turn /\ ~ (x.cb = d.cb /\ x.told = d.told)
  <2>1. ASSUME NEW x \in EventDue(msg, 1..(k - 1)) PROVE x.turn \in Nat /\ x.turn < 2 * k /\ x.cb \in PlainCalls
    <3>1. k \in Nat \ {0}
      BY <1>2, <1>3
    <3> QED BY <3>1, EventDueBefore
  <2> QED BY <1>2, <1>3, <1>7, <1>8, <2>1 DEF DueInLoop
<1>13. Due(msg) = DueInLoop \cup {d}
  <2>1. Due(msg) = (IF r = "events" THEN EventDue(msg, Reached(msg)) ELSE {}) \cup {d}
    BY <1>2, <1>5, DueList DEF Count
  <2> QED BY <1>3, <1>5, <2>1 DEF DueInLoop
<1> HIDE DEF c, d
<1>14. Carry(calls \o Made(c), DueInLoop \cup {d}, Awaited)
  BY <1>2, <1>4, <1>7, <1>9, <1>10, <1>11, <1>12, CarryMade DEF LoopDelivers
<1>15. ToHandOn = 1..(k - 1) \cap HandedOn(msg)
  BY <1>2, <1>3, <1>5 DEF ToHandOn
<1>16. Hand(updates', msg, ToHandOn)
  BY <1>1, <1>4, <1>15 DEF LoopDelivers
<1> QED BY <1>1, <1>4, <1>13, <1>14, <1>16, DoneKeeps

-----------------------------------------------------------------------------
(* Delivery in the composition.                                            *)

\* What is carried to some is carried to fewer.
LEMMA CarryFewer ==
  ASSUME NEW cs, NEW due, NEW cbs, Carry(cs, due, cbs), NEW fewer, fewer \subseteq cbs
  PROVE  Carry(cs, due, fewer)
BY Zenon DEF Carry

\* Registration, requests and steps that change nothing leave what was delivered alone; it may
\* be that fewer callbacks are set than when the message came.
LEMMA QuietDelivers ==
  ASSUME DeliveryInvariant, UNCHANGED <<pc, msg, list, calls, updates>>, early' \subseteq early
  PROVE  DeliveryInvariant'
<1>1. UNCHANGED <<pc, msg, k, i, places, calls, updates>>
  BY DEF list
<1>2. Handled' => Handled
  BY <1>1 DEF Handled
<1>3. Awaited' \subseteq Awaited
  BY DEF Awaited
<1>4. \A due : Carry(calls, due, Awaited) => Carry(calls, due, Awaited')
  BY <1>3, CarryFewer
<1>5. Delivered'
  <2>1. Delivered => (Handled => Carry(calls, Due(msg), Awaited))
    BY DEF Delivered, Awaited
  <2>2. Handled' => Carry(calls, Due(msg), Awaited')
    BY <1>2, <1>4, <2>1 DEF DeliveryInvariant
  <2> QED BY <1>1, <2>2 DEF Delivered, Awaited
<1>6. UpdatesOnce'
  BY <1>1, <1>2 DEF DeliveryInvariant, UpdatesOnce
<1>7. LoopDelivers => LoopDelivers'
  <2> SUFFICES ASSUME LoopDelivers PROVE LoopDelivers'
    OBVIOUS
  <2>1. DueInLoop' = DueInLoop
    BY <1>1, Zenon DEF DueInLoop
  <2>2. Carry(calls', DueInLoop', Awaited')
    BY <1>1, <1>4, <2>1 DEF LoopDelivers
  <2> QED BY <1>1, <2>2 DEF LoopDelivers
<1> QED BY <1>1, <1>4, <1>5, <1>6, <1>7 DEF DeliveryInvariant

\* Every step delivers what is due.
LEMMA DeliveryStep ==
  Outside /\ ThreadInvariant /\ Wiring /\ DeliveryInvariant /\ [DispatchNext]_dispatchVars => DeliveryInvariant'
<1> SUFFICES ASSUME Outside, ThreadInvariant, Wiring, DeliveryInvariant, [DispatchNext]_dispatchVars
             PROVE  DeliveryInvariant'
  OBVIOUS
<1>1. CASE UNCHANGED dispatchVars
  BY <1>1, QuietDelivers DEF dispatchVars, thread
<1>2. CASE SetCallback
  BY <1>2, QuietDelivers DEF SetCallback
<1>3. CASE Application
  BY <1>3, QuietDelivers DEF Application, thread
<1>4. CASE Arrive
  BY <1>4, ArrivalDelivers DEF Arrive
<1>5. ASSUME NEW r \in asked, Answer(r) PROVE DeliveryInvariant'
  BY <1>5, ArrivalDelivers DEF Answer
<1>6. CASE OnMessageArrived
  BY <1>6, OneDelivers, BeginDelivers, PropertiesDelivers, ShadowDelivers, EventDelivers, EndDelivers
     DEF OnMessageArrived
<1> QED BY <1>1, <1>2, <1>3, <1>4, <1>5, <1>6 DEF DispatchNext

\* A registration wires the arrival of messages unless it is one of the few.
LEMMA WiringStep ==
  Outside /\ scenario \in DOMAIN Scenarios /\ Wiring /\ [DispatchNext]_dispatchVars => Wiring'
<1> SUFFICES ASSUME Outside, scenario \in DOMAIN Scenarios, Wiring, [DispatchNext]_dispatchVars PROVE Wiring'
  OBVIOUS
<1>1. CASE SetCallback
  <2> DEFINE g == Registrations[registered + 1]
  <2>1. /\ registered < Len(Registrations)
        /\ callbacks' = (callbacks \ g.sets) \cup g.given
        /\ wired' = (wired \/ ~ (g.sets \subseteq Unwired))
    BY <1>1 DEF SetCallback
  <2>2. Registrations \in Seq(Setting) /\ registered + 1 \in 1..Len(Registrations)
    BY <2>1, MailHasServices DEF Outside
  <2>3. g \in Setting
    BY <2>2
  <2>4. g.given \subseteq g.sets
    BY <2>3 DEF Setting
  <2> QED BY <2>1, <2>4 DEF Wiring
<1>2. CASE ~ SetCallback
  <2>1. UNCHANGED <<callbacks, wired>>
    BY <1>2 DEF DispatchNext, dispatchVars, application, Application, Arrive, Answer, MqttBase_OnMessageArrived,
                OnMessageArrived
  <2> QED BY <2>1 DEF Wiring
<1> QED BY <1>1, <1>2

\* Nothing is delivered and nobody is registered at first.
LEMMA DeliveryInitial == DispatchInit => Wiring /\ DeliveryInvariant
<1> SUFFICES ASSUME DispatchInit PROVE Wiring /\ DeliveryInvariant
  OBVIOUS
<1>1. callbacks = {} /\ pc = "idle" /\ msg = NoMessage /\ updates = <<>>
  BY DEF DispatchInit
<1>2. ~ Handled
  BY <1>1 DEF Handled
<1> QED BY <1>1, <1>2 DEF Wiring, DeliveryInvariant, Delivered, UpdatesOnce

\* What is due has been delivered in every behaviour, wherever the MQTT thread stands.
THEOREM DeliveryInvariance == DispatchSpec => [](Wiring /\ DeliveryInvariant)
<1>1. ThreadInvariant => scenario \in DOMAIN Scenarios
  BY DEF ThreadInvariant, InHand
<1>2. Outside /\ ThreadInvariant /\ Wiring /\ DeliveryInvariant /\ [DispatchNext]_dispatchVars
        => (Wiring /\ DeliveryInvariant)'
  BY <1>1, DeliveryStep, WiringStep
<1> QED BY DeliveryInitial, DispatchInvariance, <1>2, PTL DEF DispatchSpec

\* Every message reaches the callbacks of its topic, each once and in order, with exactly
\* the services that are for the application, whatever is registered or taken back meanwhile.
THEOREM MessagesAreDelivered == DispatchSpec => []Delivered
<1>1. DeliveryInvariant => Delivered
  BY DEF DeliveryInvariant
<1> QED BY DeliveryInvariance, <1>1, PTL

\* Rules and settings of a list are handed on once, in order, with their own strings: of
\* properties and shadows all of them, of an event those before its first service that fails.
THEOREM UpdatesAreHandedOnce == DispatchSpec => []UpdatesOnce
<1>1. DeliveryInvariant => UpdatesOnce
  BY DEF DeliveryInvariant
<1> QED BY DeliveryInvariance, <1>1, PTL
=============================================================================
