---------------------------- MODULE BridgeProofs ----------------------------
(***************************************************************************)
(* The ids of Bridge, for every number of callers and every MaxId.         *)
(*                                                                         *)
(* A request that left the increment behind is counted.  Of a counted      *)
(* request that drew its id alone, the counter is never further ahead than *)
(* it was incremented since: each store adds one to a value that was the   *)
(* counter's earlier.  So the counter is back at the id only after MaxId   *)
(* increments.                                                             *)
(***************************************************************************)
EXTENDS Bridge, TLAPS

\* The requests that have incremented the counter.
Counted == {r \in asked \union {drawn[c] : c \in {d \in Callers : at[d] \in {"check", "wrap", "send"}}} : r.alone}

\* How many increments lead from the id of r to the value v, the one of r left out.
Ahead(r, v) == IF v > r.id THEN v - r.id - 1 ELSE v + MaxId - r.id

\* Only a call that will wrap the counter leaves it beyond the limit.
WrapPending == gBridgeRequestId > MaxId => \E c \in Callers : at[c] \in {"check", "wrap"}

\* A call that is alone is the only one.
AloneIsOnly ==
  \A c \in Callers : (at[c] \in Drawing /\ drawn[c].alone) =>
    \A d \in Callers : d # c => at[d] \notin Drawing

\* What a call that is alone has read is what it printed.
AloneReads ==
  \A c \in Callers : drawn[c].alone =>
    /\ at[c] = "load" => gBridgeRequestId = drawn[c].id
    /\ at[c] = "store" => loaded[c] = drawn[c].id
    /\ at[c] \in {"load", "store"} => drawn[c].id <= MaxId

\* What a counted request holds was drawn already.
CountedInRange == \A r \in Counted : r.id <= MaxId /\ r.nth <= draws

\* The counter, what an increment has read, and what a wrap will store.
NotTooFar ==
  \A r \in Counted :
    /\ Ahead(r, gBridgeRequestId) <= draws - r.nth
    /\ \A c \in Callers :
         /\ at[c] = "store" => Ahead(r, loaded[c]) <= draws - r.nth
         /\ at[c] = "wrap" => MaxId - r.id <= draws - r.nth
         /\ (at[c] \in {"load", "store"} /\ drawn[c].id = r.id) => MaxId <= draws - r.nth

\* Two counted requests that are not too far apart differ.
CountedDistinct ==
  \A r, s \in Counted : (r.nth < s.nth /\ s.nth - r.nth <= MaxId) => r.id # s.id

\* The inductive invariant of the ids.
IdInvariant ==
  /\ BridgeTypeOK
  /\ WrapPending /\ AloneIsOnly /\ AloneReads
  /\ CountedInRange /\ NotTooFar /\ CountedDistinct

-----------------------------------------------------------------------------
(* Types.                                                                  *)

\* A request changes no type; no other call stops being what it was.
LEMMA RequestTypes ==
  ASSUME BridgeTypeOK, NEW c \in Callers, NEW kind \in Kinds, Request(c, kind)
  PROVE  /\ drawn' \in [Callers -> Requests]
         /\ \A d \in Callers \ {c} :
              /\ at'[d] = at[d]
              /\ drawn'[d].id = drawn[d].id /\ drawn'[d].nth = drawn[d].nth
              /\ drawn'[d].alone => drawn'[d] = drawn[d] /\ at[d] \notin Drawing
<1> DEFINE New(d) == CASE d = c       -> [kind |-> kind, id |-> 0, nth |-> 0, alone |-> Busy(c) = {}]
                       [] d \in Busy(c) -> [drawn[d] EXCEPT !.alone = FALSE]
                       [] OTHER       -> drawn[d]
<1>1. drawn' = [d \in Callers |-> New(d)]
  BY DEF Request
<1>2. \A d \in Callers : drawn[d] \in Requests
  BY DEF BridgeTypeOK
<1>3. New(c) \in Requests
  <2>1. New(c) = [kind |-> kind, id |-> 0, nth |-> 0, alone |-> Busy(c) = {}]
    BY DEF Busy
  <2>2. (Busy(c) = {}) \in BOOLEAN
    OBVIOUS
  <2>3. \A b \in BOOLEAN : [kind |-> kind, id |-> 0, nth |-> 0, alone |-> b] \in Requests
    BY DEF Requests
  <2> QED BY <2>1, <2>2, <2>3, Zenon
<1>4. ASSUME NEW d \in Callers \ {c}
      PROVE  /\ New(d) \in Requests
             /\ New(d).id = drawn[d].id /\ New(d).nth = drawn[d].nth
             /\ New(d).alone => New(d) = drawn[d] /\ d \notin Busy(c)
  <2>1. CASE d \in Busy(c)
    <3>1. New(d) = [drawn[d] EXCEPT !.alone = FALSE]
      BY <1>4, <2>1
    <3> QED BY <1>2, <1>4, <3>1 DEF Requests
  <2>2. CASE d \notin Busy(c)
    <3>1. New(d) = drawn[d]
      BY <1>4, <2>2
    <3> QED BY <1>2, <1>4, <2>2, <3>1
  <2> QED BY <2>1, <2>2
<1>5. \A d \in Callers \ {c} : at'[d] = at[d]
  BY DEF Request, BridgeTypeOK
<1>6. \A d \in Callers : drawn'[d] = New(d)
  BY <1>1
<1>7. drawn' \in [Callers -> Requests]
  BY <1>1, <1>3, <1>4
<1>8. \A d \in Callers \ {c} : d \notin Busy(c) <=> at[d] \notin Drawing
  BY DEF Busy
<1> HIDE DEF New
<1> QED BY <1>4, <1>5, <1>6, <1>7, <1>8

\* Every step keeps the types.
LEMMA TypesStep == BridgeTypeOK /\ [BridgeNext]_bridgeVars => BridgeTypeOK'
<1> SUFFICES ASSUME BridgeTypeOK, [BridgeNext]_bridgeVars PROVE BridgeTypeOK'
    OBVIOUS
<1> USE DEF BridgeTypeOK
<1>1. ASSUME NEW c \in Callers, NEW kind \in Kinds, Request(c, kind) PROVE BridgeTypeOK'
  BY <1>1, RequestTypes DEF Request, Drawing
<1>2. ASSUME NEW c \in Callers, PrintId(c) PROVE BridgeTypeOK'
  BY <1>2, SMTT(30) DEF PrintId, Drawing, Requests
<1>3. ASSUME NEW c \in Callers, LoadId(c) PROVE BridgeTypeOK'
  BY <1>3 DEF LoadId, Drawing
<1>4. ASSUME NEW c \in Callers, StoreId(c) PROVE BridgeTypeOK'
  BY <1>4 DEF StoreId, Drawing, Requests
<1>5. ASSUME NEW c \in Callers, CheckId(c) PROVE BridgeTypeOK'
  BY <1>5 DEF CheckId, Drawing
<1>6. ASSUME NEW c \in Callers, WrapId(c) PROVE BridgeTypeOK'
  BY <1>6 DEF WrapId, Drawing
<1>7. ASSUME NEW c \in Callers, NEW sent \in BOOLEAN, Bridge_ReportDeviceData(c, sent) PROVE BridgeTypeOK'
  BY <1>7 DEF Bridge_ReportDeviceData, Drawing, NoRequest, Requests
<1>8. ASSUME NEW r \in asked, Answered(r) PROVE BridgeTypeOK'
  BY <1>8 DEF Answered
<1>9. CASE UNCHANGED bridgeVars
  BY <1>9 DEF bridgeVars
<1> QED BY <1>1, <1>2, <1>3, <1>4, <1>5, <1>6, <1>7, <1>8, <1>9 DEF BridgeNext, Caller

-----------------------------------------------------------------------------
(* The steps that count no request.                                        *)

\* What is ahead of an id is a natural number, one increment adds at most one to it, and
\* MaxId increments lead back to the id.
LEMMA AheadFacts ==
  ASSUME NEW r \in Requests, r.id <= MaxId, NEW v \in Nat
  PROVE  /\ Ahead(r, v) \in Nat
         /\ Ahead(r, v + 1) <= Ahead(r, v) + 1
         /\ v = r.id => Ahead(r, v) = MaxId
         /\ v = r.id + 1 => Ahead(r, v) = 0
         /\ v > MaxId => MaxId - r.id <= Ahead(r, v)
         /\ Ahead(r, 0) = MaxId - r.id
BY BridgeAssumption DEF Ahead, Requests

\* A step that adds no counted request, and no increment, keeps the order of the others.
LEMMA FewerCounted ==
  ASSUME CountedInRange, CountedDistinct, Counted' \subseteq Counted, draws' = draws
  PROVE  CountedInRange' /\ CountedDistinct'
BY DEF CountedInRange, CountedDistinct

\* The counted requests are requests.
LEMMA CountedAreRequests == BridgeTypeOK => Counted \subseteq Requests
BY DEF Counted, BridgeTypeOK

\* A request is made.
LEMMA RequestStep ==
  ASSUME IdInvariant, NEW c \in Callers, NEW kind \in Kinds, Request(c, kind), BridgeTypeOK'
  PROVE  IdInvariant'
<1> USE DEF IdInvariant
<1>1. at[c] = "idle" /\ at'[c] = "print" /\ UNCHANGED <<gBridgeRequestId, loaded, draws, asked>>
  BY DEF Request, BridgeTypeOK
<1>2. \A d \in Callers \ {c} :
         /\ at'[d] = at[d]
         /\ drawn'[d].id = drawn[d].id /\ drawn'[d].nth = drawn[d].nth
         /\ drawn'[d].alone => drawn'[d] = drawn[d] /\ at[d] \notin Drawing
  BY RequestTypes
<1>3. Counted' \subseteq Counted
  BY <1>1, <1>2 DEF Counted
<1>4. WrapPending'
  BY <1>1, <1>2 DEF WrapPending
<1>5. AloneIsOnly'
  <2>1. drawn'[c].alone => \A d \in Callers : d # c => at[d] \notin Drawing
    <3>1. drawn'[c].alone = (Busy(c) = {})
      BY DEF Request, Busy
    <3> QED BY <3>1 DEF Busy
  <2> QED BY <1>1, <1>2, <2>1 DEF AloneIsOnly, Drawing
<1>6. AloneReads'
  BY <1>1, <1>2 DEF AloneReads, Drawing
<1>7. NotTooFar'
  BY <1>1, <1>2, <1>3 DEF NotTooFar, Ahead
<1> QED BY <1>1, <1>3, <1>4, <1>5, <1>6, <1>7, FewerCounted

\* The counter is printed.
LEMMA PrintStep ==
  ASSUME IdInvariant, NEW c \in Callers, PrintId(c), BridgeTypeOK'
  PROVE  IdInvariant'
<1> USE DEF IdInvariant
<1>1. /\ at[c] = "print" /\ at'[c] = "load" /\ drawn'[c].id = gBridgeRequestId
      /\ drawn'[c].alone = drawn[c].alone
      /\ UNCHANGED <<gBridgeRequestId, loaded, draws, asked>>
  BY DEF PrintId, BridgeTypeOK, Requests
<1>2. \A d \in Callers \ {c} : at'[d] = at[d] /\ drawn'[d] = drawn[d]
  BY DEF PrintId, BridgeTypeOK
<1>3. Counted' \subseteq Counted
  BY <1>1, <1>2 DEF Counted
<1>4. WrapPending'
  BY <1>1, <1>2 DEF WrapPending
<1>5. AloneIsOnly'
  BY <1>1, <1>2 DEF AloneIsOnly, Drawing
<1>6. AloneReads'
  <2>1. drawn[c].alone => gBridgeRequestId <= MaxId
    BY <1>1, BridgeAssumption DEF WrapPending, AloneIsOnly, Drawing, BridgeTypeOK
  <2> QED BY <1>1, <1>2, <2>1 DEF AloneReads
<1>7. NotTooFar'
  <2> SUFFICES ASSUME NEW r \in Counted', NEW d \in Callers
               PROVE  /\ (Ahead(r, gBridgeRequestId) <= draws - r.nth)'
                      /\ (at[d] = "store" => Ahead(r, loaded[d]) <= draws - r.nth)'
                      /\ (at[d] = "wrap" => MaxId - r.id <= draws - r.nth)'
                      /\ ((at[d] \in {"load", "store"} /\ drawn[d].id = r.id) => MaxId <= draws - r.nth)'
      BY DEF NotTooFar
  <2>1. r \in Counted /\ r \in Requests /\ r.id <= MaxId
    BY <1>3, CountedAreRequests DEF CountedInRange
  <2>2. Ahead(r, gBridgeRequestId) <= draws - r.nth
    BY <2>1 DEF NotTooFar
  <2>3. gBridgeRequestId = r.id => MaxId <= draws - r.nth
    BY <2>1, <2>2, AheadFacts DEF BridgeTypeOK
  <2> QED BY <1>1, <1>2, <2>1, <2>2, <2>3 DEF NotTooFar, Ahead
<1> QED BY <1>1, <1>3, <1>4, <1>5, <1>6, <1>7, FewerCounted

\* The increment reads the counter.
LEMMA LoadStep ==
  ASSUME IdInvariant, NEW c \in Callers, LoadId(c), BridgeTypeOK'
  PROVE  IdInvariant'
<1> USE DEF IdInvariant
<1>1. /\ at[c] = "load" /\ at'[c] = "store" /\ loaded'[c] = gBridgeRequestId
      /\ UNCHANGED <<gBridgeRequestId, drawn, draws, asked>>
  BY DEF LoadId, BridgeTypeOK
<1>2. \A d \in Callers \ {c} : at'[d] = at[d] /\ loaded'[d] = loaded[d]
  BY DEF LoadId, BridgeTypeOK
<1>3. Counted' \subseteq Counted
  BY <1>1, <1>2 DEF Counted
<1>4. WrapPending'
  BY <1>1, <1>2 DEF WrapPending
<1>5. AloneIsOnly'
  BY <1>1, <1>2 DEF AloneIsOnly, Drawing
<1>6. AloneReads'
  BY <1>1, <1>2 DEF AloneReads
<1>7. NotTooFar'
  BY <1>1, <1>2, <1>3 DEF NotTooFar, Ahead
<1> QED BY <1>1, <1>3, <1>4, <1>5, <1>6, <1>7, FewerCounted

\* The counter is compared.
LEMMA CheckStep ==
  ASSUME IdInvariant, NEW c \in Callers, CheckId(c), BridgeTypeOK'
  PROVE  IdInvariant'
<1> USE DEF IdInvariant
<1>1. /\ at[c] = "check" /\ at'[c] = IF TooLarge THEN "wrap" ELSE "send"
      /\ UNCHANGED <<gBridgeRequestId, drawn, loaded, draws, asked>>
  BY DEF CheckId, BridgeTypeOK
<1>2. \A d \in Callers \ {c} : at'[d] = at[d]
  BY DEF CheckId, BridgeTypeOK
<1>3. Counted' \subseteq Counted
  BY <1>1, <1>2 DEF Counted
<1>4. WrapPending'
  BY <1>1, <1>2 DEF WrapPending, TooLarge
<1>5. AloneIsOnly'
  BY <1>1, <1>2 DEF AloneIsOnly, Drawing
<1>6. AloneReads'
  BY <1>1, <1>2 DEF AloneReads
<1>7. NotTooFar'
  <2> SUFFICES ASSUME NEW r \in Counted', NEW d \in Callers
               PROVE  /\ (Ahead(r, gBridgeRequestId) <= draws - r.nth)'
                      /\ (at[d] = "store" => Ahead(r, loaded[d]) <= draws - r.nth)'
                      /\ (at[d] = "wrap" => MaxId - r.id <= draws - r.nth)'
                      /\ ((at[d] \in {"load", "store"} /\ drawn[d].id = r.id) => MaxId <= draws - r.nth)'
      BY DEF NotTooFar
  <2>1. r \in Counted /\ r \in Requests /\ r.id <= MaxId
    BY <1>3, CountedAreRequests DEF CountedInRange
  <2>2. TooLarge => MaxId - r.id <= draws - r.nth
    <3>1. Ahead(r, gBridgeRequestId) <= draws - r.nth
      BY <2>1 DEF NotTooFar
    <3>2. TooLarge => MaxId - r.id <= Ahead(r, gBridgeRequestId)
      BY <2>1, AheadFacts DEF TooLarge, BridgeTypeOK
    <3>3. Ahead(r, gBridgeRequestId) \in Nat
      BY <2>1, AheadFacts DEF BridgeTypeOK
    <3> QED BY <2>1, <3>1, <3>2, <3>3, BridgeAssumption DEF BridgeTypeOK, Requests
  <2> QED BY <1>1, <1>2, <2>1, <2>2 DEF NotTooFar, Ahead
<1> QED BY <1>1, <1>3, <1>4, <1>5, <1>6, <1>7, FewerCounted

\* The counter wraps.
LEMMA WrapStep ==
  ASSUME IdInvariant, NEW c \in Callers, WrapId(c), BridgeTypeOK'
  PROVE  IdInvariant'
<1> USE DEF IdInvariant
<1>1. /\ at[c] = "wrap" /\ at'[c] = "send" /\ gBridgeRequestId' = 0
      /\ UNCHANGED <<drawn, loaded, draws, asked>>
  BY DEF WrapId, BridgeTypeOK
<1>2. \A d \in Callers \ {c} : at'[d] = at[d]
  BY DEF WrapId, BridgeTypeOK
<1>3. Counted' \subseteq Counted
  BY <1>1, <1>2 DEF Counted
<1>4. WrapPending'
  BY <1>1, BridgeAssumption DEF WrapPending
<1>5. AloneIsOnly'
  BY <1>1, <1>2 DEF AloneIsOnly, Drawing
<1>6. AloneReads'
  BY <1>1, <1>2 DEF AloneReads, AloneIsOnly, Drawing
<1>7. NotTooFar'
  <2> SUFFICES ASSUME NEW r \in Counted', NEW d \in Callers
               PROVE  /\ (Ahead(r, gBridgeRequestId) <= draws - r.nth)'
                      /\ (at[d] = "store" => Ahead(r, loaded[d]) <= draws - r.nth)'
                      /\ (at[d] = "wrap" => MaxId - r.id <= draws - r.nth)'
                      /\ ((at[d] \in {"load", "store"} /\ drawn[d].id = r.id) => MaxId <= draws - r.nth)'
      BY DEF NotTooFar
  <2>1. r \in Counted /\ r \in Requests /\ r.id <= MaxId
    BY <1>3, CountedAreRequests DEF CountedInRange
  <2>2. Ahead(r, 0) <= draws - r.nth
    BY <1>1, <2>1, AheadFacts DEF NotTooFar
  <2> QED BY <1>1, <1>2, <2>1, <2>2 DEF NotTooFar, Ahead
<1> QED BY <1>1, <1>3, <1>4, <1>5, <1>6, <1>7, FewerCounted

\* The request is published, or not, and the call returns.
LEMMA ReportStep ==
  ASSUME IdInvariant, NEW c \in Callers, NEW sent \in BOOLEAN, Bridge_ReportDeviceData(c, sent), BridgeTypeOK'
  PROVE  IdInvariant'
<1> USE DEF IdInvariant
<1>1. /\ at[c] = "send" /\ at'[c] = "idle"
      /\ asked' \subseteq asked \union {drawn[c]}
      /\ UNCHANGED <<gBridgeRequestId, draws>>
  BY DEF Bridge_ReportDeviceData, BridgeTypeOK
<1>2. \A d \in Callers \ {c} : at'[d] = at[d] /\ drawn'[d] = drawn[d] /\ loaded'[d] = loaded[d]
  BY DEF Bridge_ReportDeviceData, BridgeTypeOK
<1>3. Counted' \subseteq Counted
  BY <1>1, <1>2 DEF Counted
<1>4. WrapPending'
  BY <1>1, <1>2 DEF WrapPending
<1>5. AloneIsOnly'
  BY <1>1, <1>2 DEF AloneIsOnly, Drawing
<1>6. AloneReads'
  BY <1>1, <1>2 DEF AloneReads
<1>7. NotTooFar'
  BY <1>1, <1>2, <1>3 DEF NotTooFar, Ahead
<1> QED BY <1>1, <1>3, <1>4, <1>5, <1>6, <1>7, FewerCounted

-----------------------------------------------------------------------------
(* The step that counts a request.                                         *)

\* The increment stores.
LEMMA StoreStep ==
  ASSUME IdInvariant, NEW c \in Callers, StoreId(c), BridgeTypeOK'
  PROVE  IdInvariant'
<1> USE DEF IdInvariant
<1>1. /\ at[c] = "store" /\ at'[c] = "check" /\ gBridgeRequestId' = loaded[c] + 1
      /\ draws' = draws + 1 /\ draws \in Nat /\ loaded[c] \in Nat
      /\ drawn'[c].id = drawn[c].id /\ drawn'[c].alone = drawn[c].alone /\ drawn'[c].nth = draws + 1
      /\ drawn'[c] \in Requests /\ drawn[c] \in Requests
      /\ UNCHANGED <<loaded, asked>>
  BY DEF StoreId, BridgeTypeOK, Requests
<1>2. \A d \in Callers \ {c} : at'[d] = at[d] /\ drawn'[d] = drawn[d]
  BY DEF StoreId, BridgeTypeOK
<1>3. Counted' \subseteq Counted \union (IF drawn[c].alone THEN {drawn'[c]} ELSE {})
  BY <1>1, <1>2 DEF Counted
<1>4. WrapPending'
  BY <1>1 DEF WrapPending
<1>5. AloneIsOnly'
  BY <1>1, <1>2 DEF AloneIsOnly, Drawing
<1>6. AloneReads'
  BY <1>1, <1>2 DEF AloneReads, AloneIsOnly, Drawing
<1>7. \A r \in Counted : r \in Requests /\ r.id <= MaxId /\ r.nth <= draws
  BY CountedAreRequests DEF CountedInRange
<1>8. drawn[c].alone => loaded[c] = drawn[c].id /\ drawn[c].id <= MaxId
  BY <1>1 DEF AloneReads
<1>9. CountedInRange'
  BY <1>1, <1>3, <1>7, <1>8 DEF CountedInRange, Requests
<1>10. NotTooFar'
  <2> SUFFICES ASSUME NEW r \in Counted', NEW d \in Callers
               PROVE  /\ (Ahead(r, gBridgeRequestId) <= draws - r.nth)'
                      /\ (at[d] = "store" => Ahead(r, loaded[d]) <= draws - r.nth)'
                      /\ (at[d] = "wrap" => MaxId - r.id <= draws - r.nth)'
                      /\ ((at[d] \in {"load", "store"} /\ drawn[d].id = r.id) => MaxId <= draws - r.nth)'
      BY DEF NotTooFar
  <2>1. CASE r \in Counted
    <3>1. r \in Requests /\ r.id <= MaxId /\ r.nth \in Nat /\ r.id \in Nat
      BY <1>7, <2>1 DEF Requests
    <3>2. Ahead(r, loaded[c]) <= draws - r.nth
      BY <1>1, <2>1 DEF NotTooFar
    <3>3. Ahead(r, loaded[c] + 1) <= (draws + 1) - r.nth
      BY <1>1, <3>1, <3>2, AheadFacts
    <3>4. /\ at[d] = "store" => Ahead(r, loaded[d]) \in Nat /\ Ahead(r, loaded[d]) <= draws - r.nth
          /\ at[d] = "wrap" => MaxId - r.id <= draws - r.nth
          /\ (at[d] \in {"load", "store"} /\ drawn[d].id = r.id) => MaxId <= draws - r.nth
      BY <2>1, <3>1, AheadFacts DEF NotTooFar, BridgeTypeOK
    <3> HIDE DEF IdInvariant
    <3>5. /\ at[d] = "store" => Ahead(r, loaded[d]) <= (draws + 1) - r.nth
          /\ at[d] = "wrap" => MaxId - r.id <= (draws + 1) - r.nth
          /\ (at[d] \in {"load", "store"} /\ drawn[d].id = r.id) => MaxId <= (draws + 1) - r.nth
      BY <1>1, <3>1, <3>4, BridgeAssumption
    <3> QED BY <1>1, <1>2, <3>3, <3>5 DEF Ahead
  <2>2. CASE r \notin Counted
    <3>1. r = drawn'[c] /\ drawn[c].alone
      BY <1>3, <2>2
    <3>2. loaded[c] + 1 = r.id + 1 /\ r.id <= MaxId /\ r \in Requests /\ r.nth = draws + 1
      BY <1>1, <1>8, <3>1
    <3>3. Ahead(r, loaded[c] + 1) = 0
      BY <1>1, <3>2, AheadFacts
    <3>4. \A e \in Callers : at'[e] \notin {"store", "wrap", "load"}
      BY <1>1, <1>2, <3>1 DEF AloneIsOnly, Drawing
    <3> QED BY <1>1, <3>2, <3>3, <3>4 DEF Ahead
  <2> QED BY <2>1, <2>2
<1>11. CountedDistinct'
  <2> SUFFICES ASSUME NEW r \in Counted', NEW s \in Counted', r.nth < s.nth, s.nth - r.nth <= MaxId
               PROVE  r.id # s.id
      BY DEF CountedDistinct
  <2>1. CASE r \in Counted /\ s \in Counted
    BY <2>1 DEF CountedDistinct
  <2>2. CASE r \in Counted /\ s \notin Counted
    <3>1. s = drawn'[c]
      BY <1>3, <2>2
    <3>2. drawn[c].id = r.id => MaxId <= draws - r.nth
      BY <1>1, <2>2 DEF NotTooFar
    <3> QED BY <1>1, <1>7, <2>2, <3>1, <3>2, BridgeAssumption DEF Requests
  <2>3. CASE r \notin Counted
    <3>1. r.nth = draws + 1
      BY <1>1, <1>3, <2>3
    <3>2. s.nth <= draws + 1 /\ s.nth \in Nat
      BY <1>1, <1>3, <1>7 DEF Requests
    <3> QED BY <1>1, <3>1, <3>2
  <2> QED BY <2>1, <2>2, <2>3
<1> QED BY <1>4, <1>5, <1>6, <1>9, <1>10, <1>11

-----------------------------------------------------------------------------
(* The theorems.                                                           *)

\* The invariant holds at first, and every step keeps it.
LEMMA IdInvariantInit == BridgeInit => IdInvariant
<1> SUFFICES ASSUME BridgeInit PROVE IdInvariant
    OBVIOUS
<1>1. BridgeTypeOK
  BY DEF BridgeInit, BridgeTypeOK, NoRequest, Requests, Drawing
<1>2. Counted = {}
  BY DEF BridgeInit, Counted
<1> QED BY <1>1, <1>2, BridgeAssumption
        DEF BridgeInit, IdInvariant, WrapPending, AloneIsOnly, AloneReads, Drawing,
            CountedInRange, NotTooFar, CountedDistinct

\* Every step of a caller or of the platform preserves the invariant of the ids.
LEMMA IdInvariantStep == IdInvariant /\ [BridgeNext]_bridgeVars => IdInvariant'
<1> SUFFICES ASSUME IdInvariant, [BridgeNext]_bridgeVars PROVE IdInvariant'
    OBVIOUS
<1>1. BridgeTypeOK'
  BY TypesStep DEF IdInvariant
<1>2. ASSUME NEW c \in Callers, Caller(c) PROVE IdInvariant'
  BY <1>1, <1>2, RequestStep, PrintStep, LoadStep, StoreStep, CheckStep, WrapStep, ReportStep DEF Caller
<1>3. ASSUME NEW r \in asked, Answered(r) PROVE IdInvariant'
  <2>1. UNCHANGED <<gBridgeRequestId, at, drawn, loaded, draws>> /\ asked' \subseteq asked
    BY <1>3 DEF Answered
  <2>2. Counted' \subseteq Counted
    BY <2>1 DEF Counted
  <2>3. CountedInRange' /\ CountedDistinct'
    BY <2>1, <2>2, FewerCounted DEF IdInvariant
  <2>4. NotTooFar'
    BY <2>1, <2>2 DEF IdInvariant, NotTooFar, Ahead
  <2> QED BY <1>1, <2>1, <2>3, <2>4 DEF IdInvariant, WrapPending, AloneIsOnly, AloneReads
<1>4. CASE UNCHANGED bridgeVars
  BY <1>4 DEF bridgeVars, IdInvariant, BridgeTypeOK, WrapPending, AloneIsOnly, AloneReads, CountedInRange,
              NotTooFar, CountedDistinct, Counted, Ahead
<1> QED BY <1>2, <1>3, <1>4 DEF BridgeNext

\* The requests that wait for an answer are counted.
LEMMA AskedIsCounted == IdInvariant => IdsInRange /\ IdsDistinct
BY DEF IdInvariant, CountedInRange, CountedDistinct, Counted, IdsInRange, IdsDistinct

\* The variables of the requests keep their types.
THEOREM BridgeTypes == BridgeSpec => []BridgeTypeOK
<1>1. BridgeInit => BridgeTypeOK
  BY IdInvariantInit DEF IdInvariant
<1> QED BY <1>1, TypesStep, PTL DEF BridgeSpec

\* An id that was drawn alone never exceeds the limit.
THEOREM IdsStayInRange == BridgeSpec => []IdsInRange
BY IdInvariantInit, IdInvariantStep, AskedIsCounted, PTL DEF BridgeSpec

\* Requests that wait for an answer and drew their ids alone are told apart by them.
THEOREM IdsTellRequests == BridgeSpec => []IdsDistinct
BY IdInvariantInit, IdInvariantStep, AskedIsCounted, PTL DEF BridgeSpec
=============================================================================
