------------------------------- MODULE Bridge -------------------------------
(***************************************************************************)
(* The requests of a bridge (iota_bridge.c, bridge_topic_data.c).  Threads *)
(* of the application log devices in and out, reset their secrets and ask  *)
(* for their shadows; a request without an id of its own draws one from    *)
(* the counter gBridgeRequestId, which wraps after MaxId and has no lock.  *)
(* The platform's answer carries the id.                                   *)
(*                                                                         *)
(* The C sources are built without optimisation: the increment is a load   *)
(* and a store, and the comparison reads the counter again.                *)
(***************************************************************************)
EXTENDS Naturals

CONSTANTS
  MaxId,        \* 65535
  Callers,      \* threads of the application
  Kinds,        \* the functions that draw an id, among those of the platform's answers
  MaxDraws      \* bound: no request is made once the counter was incremented so often

ASSUME BridgeAssumption ==
  /\ MaxId \in Nat \ {0} /\ MaxDraws \in Nat
  /\ Kinds \subseteq {"login", "logout", "reset_secret", "shadow"}

VARIABLES
  gBridgeRequestId,
  at,           \* where each caller stands
  drawn,        \* its request: the kind, the id, its number, and whether it drew the id alone
  loaded,       \* the value that its increment has read
  draws,        \* history: how often the counter was incremented
  asked         \* the requests sent and not answered yet

bridgeVars == <<gBridgeRequestId, at, drawn, loaded, draws, asked>>

\* A caller inside getBridgeRequestId.
Drawing == {"print", "load", "store", "check", "wrap"}

Requests == [kind : Kinds \union {"none"}, id : Nat, nth : Nat, alone : BOOLEAN]

BridgeTypeOK ==
  /\ gBridgeRequestId \in Nat
  /\ at \in [Callers -> Drawing \union {"idle", "send"}]
  /\ drawn \in [Callers -> Requests]
  /\ loaded \in [Callers -> Nat]
  /\ draws \in Nat
  /\ asked \subseteq Requests

\* The variables of a call that was not made yet, or that has returned.
NoRequest == [kind |-> "none", id |-> 0, nth |-> 0, alone |-> TRUE]

BridgeInit ==
  /\ gBridgeRequestId = 1
  /\ at = [c \in Callers |-> "idle"]
  /\ drawn = [c \in Callers |-> NoRequest]
  /\ loaded = [c \in Callers |-> 0]
  /\ draws = 0
  /\ asked = {}

Busy(c) == {d \in Callers \ {c} : at[d] \in Drawing}

\* A request without an id of its own is made.
Request(c, kind) ==
  /\ at[c] = "idle" /\ draws < MaxDraws
  /\ at' = [at EXCEPT ![c] = "print"]
  /\ drawn' = [d \in Callers |->
                 CASE d = c       -> [kind |-> kind, id |-> 0, nth |-> 0, alone |-> Busy(c) = {}]
                   [] d \in Busy(c) -> [drawn[d] EXCEPT !.alone = FALSE]
                   [] OTHER       -> drawn[d]]
  /\ UNCHANGED <<gBridgeRequestId, loaded, draws, asked>>

\* snprintf_s of the counter.
PrintId(c) ==
  /\ at[c] = "print"
  /\ drawn' = [drawn EXCEPT ![c].id = gBridgeRequestId]
  /\ at' = [at EXCEPT ![c] = "load"]
  /\ UNCHANGED <<gBridgeRequestId, loaded, draws, asked>>

\* gBridgeRequestId++.
LoadId(c) ==
  /\ at[c] = "load"
  /\ loaded' = [loaded EXCEPT ![c] = gBridgeRequestId]
  /\ at' = [at EXCEPT ![c] = "store"]
  /\ UNCHANGED <<gBridgeRequestId, drawn, draws, asked>>

StoreId(c) ==
  /\ at[c] = "store"
  /\ gBridgeRequestId' = loaded[c] + 1
  /\ draws' = draws + 1
  /\ drawn' = [drawn EXCEPT ![c].nth = draws + 1]
  /\ at' = [at EXCEPT ![c] = "check"]
  /\ UNCHANGED <<loaded, asked>>

\* A defect: the counter wraps when it is found at the limit, not beyond it.
TooLargeEarly == gBridgeRequestId >= MaxId

\* A defect: the comparison expects the counter one beyond the limit.
TooLargeExactly == gBridgeRequestId = MaxId + 1

\* if (gBridgeRequestId > 65535)
TooLarge == gBridgeRequestId > MaxId

CheckId(c) ==
  /\ at[c] = "check"
  /\ at' = [at EXCEPT ![c] = IF TooLarge THEN "wrap" ELSE "send"]
  /\ UNCHANGED <<gBridgeRequestId, drawn, loaded, draws, asked>>

WrapId(c) ==
  /\ at[c] = "wrap"
  /\ gBridgeRequestId' = 0
  /\ at' = [at EXCEPT ![c] = "send"]
  /\ UNCHANGED <<drawn, loaded, draws, asked>>

(***************************************************************************)
(* The rest of the call: the payload is built and Bridge_ReportDeviceData  *)
(* publishes it.  It fails when the payload cannot be built or the client  *)
(* refuses.  Birdge_SetTopic ends without returning its topic, so that the *)
(* topic may also be lost; the call then fails as well.  The id is gone.   *)
(***************************************************************************)
Bridge_ReportDeviceData(c, sent) ==
  /\ at[c] = "send"
  /\ asked' = IF sent THEN asked \union {drawn[c]} ELSE asked
  /\ at' = [at EXCEPT ![c] = "idle"]
  /\ drawn' = [drawn EXCEPT ![c] = NoRequest] /\ loaded' = [loaded EXCEPT ![c] = 0]
  /\ UNCHANGED <<gBridgeRequestId, draws>>

\* The platform answers a request (see MessageDispatch), in any order.
Answered(r) ==
  /\ r \in asked
  /\ asked' = asked \ {r}
  /\ UNCHANGED <<gBridgeRequestId, at, drawn, loaded, draws>>

Caller(c) ==
  \/ \E kind \in Kinds : Request(c, kind)
  \/ PrintId(c) \/ LoadId(c) \/ StoreId(c) \/ CheckId(c) \/ WrapId(c)
  \/ \E sent \in BOOLEAN : Bridge_ReportDeviceData(c, sent)

BridgeNext == (\E c \in Callers : Caller(c)) \/ (\E r \in asked : Answered(r))

BridgeSpec == BridgeInit /\ [][BridgeNext]_bridgeVars

-----------------------------------------------------------------------------
\* A request that was drawn while no other was has an id of five digits at most, which
\* fits in presetRequestId, whatever calls raced before it: when the last of them leaves
\* getBridgeRequestId the counter has wrapped.
IdsInRange == \A r \in asked : r.alone => r.id <= MaxId

\* An answer tells its request: two requests that wait for an answer, and that were drawn
\* while no other was, have different ids unless the counter was incremented more than
\* MaxId times from one to the other; whatever calls raced between them.
IdsDistinct ==
  \A r, s \in asked :
    (r.alone /\ s.alone /\ r.nth < s.nth /\ s.nth - r.nth <= MaxId) => r.id # s.id
=============================================================================
