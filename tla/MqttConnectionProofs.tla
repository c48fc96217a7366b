------------------------ MODULE MqttConnectionProofs ------------------------
(***************************************************************************)
(* The invariants of MqttConnection, for every set of clients and every    *)
(* bound.                                                                  *)
(*                                                                         *)
(* That regular use has one client rests on g_loginLocker: a thread that   *)
(* is about to create a client found none under the lock, and no other     *)
(* thread can have made one since.  IOTA_Destroy does not take the lock;   *)
(* it only takes clients away, and it clears the parameters and the key    *)
(* before a handler that outlives it comes to its connect.                 *)
(***************************************************************************)
EXTENDS MqttConnection, TLAPS

\* The places of a thread inside MqttBase_CreateConnection.
Section == {"prepare", "create", "connect"}

\* In regular use g_loginLocker is held by the thread inside MqttBase_CreateConnection.
LoginLock == regular => \A t \in Threads : pc[t] \in Section <=> lock = t

\* In regular use the thread that is about to create a client finds none.
NoneToCreate == regular => \A t \in Threads : pc[t] = "create" => ~ createFlag

\* Before the first IOTA_Init nothing is set up.
Fresh ==
  inits = 0 =>
    /\ ~ initFlag /\ ~ workDir
    /\ pc[App] \in {"idle", "releasing"} /\ pc[Callback] = "idle"
    /\ live = {} /\ client = NoClient /\ ~ wanted

\* Once the SDK is destroyed there is nothing to connect with.
Destroyed ==
  /\ pc[App] = "releasing" => ~ initFlag
  /\ ~ initFlag /\ pc[App] # "releasing" => ~ workDir /\ config = {} /\ ~ key

\* In regular use the handler does not run while the device is connected.
UpIsQuiet ==
  regular => \A c \in live : link[c] = "up" => pc[Callback] = "idle"

\* In regular use a device that is not wanted is down, and no handler is at work that
\* could connect it.
Silent ==
  regular /\ ~ wanted /\ pc[App] # "releasing" =>
    /\ \A c \in live : link[c] = "down"
    /\ initFlag => pc[Callback] = "idle"

\* Every back-off follows a fault of its own.
RetriesCounted == retryTimes <= faults /\ (pc[Callback] = "backoff" => retryTimes < faults)

\* The inductive invariant of the connection.
ConnectionInvariant ==
  /\ TypeOK /\ RetriesCounted
  /\ NoDanglingClient /\ FlagMatchesClient /\ OneClient
  /\ LoginLock /\ NoneToCreate /\ Fresh /\ Destroyed /\ UpIsQuiet /\ Silent

-----------------------------------------------------------------------------
\* A wait is a number.
LEMMA WaitIsInt ==
  ASSUME NEW n \in Nat, NEW r \in RandomBackOffs
  PROVE  WaitTimeUntilNextRetry(n, r) \in Int
<1>1. r \in Int /\ LowBound \in Int
  BY BackoffAssumption DEF RandomBackOffs, LowBound, HighBound
<1>2. Power(n) \in Nat
  BY BackoffAssumption DEF Power
<1>3. \A x \in Int : AsLong(x) \in Int
  BY BackoffAssumption DEF AsLong
<1>4. BackOffWithJitter(n, r) \in Int
  <2>1. ShiftedLeft(r + LowBound, Power(n)) \in Int
    <3> DEFINE p == Power(n)
               x == r + LowBound
    <3>1. CASE p >= LongBits
      BY <3>1 DEF ShiftedLeft
    <3>2. CASE p < LongBits
      <4>1. 2^(LongBits - p) \in Nat \ {0} /\ 2^p \in Nat \ {0}
        <5>1. LongBits - p \in 0..LongBits /\ p \in 0..LongBits
          BY <3>2, <1>2, BackoffAssumption
        <5> QED BY <5>1, PowerAssumption
      <4>2. x % 2^(LongBits - p) \in Int
        BY <4>1, <1>1
      <4> QED BY <3>2, <4>1, <4>2, <1>2, BackoffAssumption DEF ShiftedLeft
    <3> QED BY <3>1, <3>2, <1>2, BackoffAssumption
  <2> QED BY <2>1, <1>3 DEF BackOffWithJitter
<1> QED BY <1>3, <1>4, BackoffAssumption DEF WaitTimeUntilNextRetry

\* The invariant holds at first.
LEMMA InvariantInit == Init => ConnectionInvariant
<1> SUFFICES ASSUME Init PROVE ConnectionInvariant
  OBVIOUS
<1> USE DEF Threads, App, Callback, NoThread
<1>1. TypeOK
  <2>1. /\ initFlag \in BOOLEAN /\ workDir \in BOOLEAN /\ key \in BOOLEAN /\ createFlag \in BOOLEAN
        /\ wanted \in BOOLEAN /\ regular \in BOOLEAN
    BY Zenon DEF Init
  <2> QED BY <2>1, ConnectionAssumption DEF Init, TypeOK
<1>2. NoDanglingClient /\ FlagMatchesClient /\ OneClient
  BY DEF Init, NoDanglingClient, FlagMatchesClient, OneClient
<1>3. LoginLock /\ NoneToCreate /\ RetriesCounted
  BY DEF Init, LoginLock, NoneToCreate, RetriesCounted, Section
<1>4. Fresh /\ Destroyed /\ UpIsQuiet /\ Silent
  BY DEF Init, Fresh, Destroyed, UpIsQuiet, Silent
<1> QED BY <1>1, <1>2, <1>3, <1>4 DEF ConnectionInvariant

\* Every step preserves the invariant.
LEMMA InvariantStep == ConnectionInvariant /\ [Next]_vars => ConnectionInvariant'
<1> SUFFICES ASSUME ConnectionInvariant, [Next]_vars
             PROVE  ConnectionInvariant'
  OBVIOUS
<1> USE ConnectionAssumption
    DEF ConnectionInvariant, TypeOK, RetriesCounted, NoDanglingClient, FlagMatchesClient, OneClient,
        LoginLock, NoneToCreate, Fresh, Destroyed, UpIsQuiet, Silent, Threads, App, Callback, NoThread, Section,
        Goto, setup, retry, counts
<1>1. ASSUME NEW ok \in BOOLEAN, MqttBase_init(ok) PROVE ConnectionInvariant'
  <2>1. TypeOK'
    <3>1. /\ initFlag' \in BOOLEAN /\ workDir' \in BOOLEAN /\ lock' \in Threads \cup {NoThread}
          /\ regular' \in BOOLEAN
      BY <1>1 DEF MqttBase_init
    <3>2. inits' \in 0..MaxInits
      BY <1>1 DEF MqttBase_init
    <3> QED BY <1>1, <3>1, <3>2 DEF MqttBase_init
  <2>2. RetriesCounted'
    BY <1>1 DEF MqttBase_init
  <2>3. NoDanglingClient'
    BY <1>1 DEF MqttBase_init
  <2>4. FlagMatchesClient'
    BY <1>1 DEF MqttBase_init
  <2>5. OneClient'
    BY <1>1 DEF MqttBase_init
  <2>6. LoginLock'
    BY <1>1 DEF MqttBase_init
  <2>7. NoneToCreate'
    BY <1>1 DEF MqttBase_init
  <2>8. Fresh'
    BY <1>1 DEF MqttBase_init
  <2>9. Destroyed'
    BY <1>1 DEF MqttBase_init
  <2>10. UpIsQuiet'
    BY <1>1 DEF MqttBase_init
  <2>11. Silent'
    BY <1>1 DEF MqttBase_init
  <2> QED BY <2>1, <2>2, <2>3, <2>4, <2>5, <2>6, <2>7, <2>8, <2>9, <2>10, <2>11
<1>2. ASSUME NEW i \in Items, MqttBase_SetConfig(i) PROVE ConnectionInvariant'
  BY <1>2 DEF MqttBase_SetConfig, Items
<1>3. ASSUME SetResetSecret PROVE ConnectionInvariant'
  BY <1>3 DEF SetResetSecret
<1>4. ASSUME AppConnect PROVE ConnectionInvariant'
  BY <1>4 DEF AppConnect
<1>5. ASSUME IOTA_DisConnect PROVE ConnectionInvariant'
  BY <1>5 DEF IOTA_DisConnect
<1>6. ASSUME DestroyBegins PROVE ConnectionInvariant'
  BY <1>6 DEF DestroyBegins
<1>7. ASSUME DestroyEnds PROVE ConnectionInvariant'
  <2>1. TypeOK'
    BY <1>7 DEF DestroyEnds
  <2>2. RetriesCounted'
    BY <1>7 DEF DestroyEnds
  <2>3. NoDanglingClient'
    BY <1>7 DEF DestroyEnds
  <2>4. FlagMatchesClient'
    BY <1>7 DEF DestroyEnds
  <2>5. OneClient'
    BY <1>7 DEF DestroyEnds
  <2>6. LoginLock'
    BY <1>7 DEF DestroyEnds
  <2>7. NoneToCreate'
    BY <1>7 DEF DestroyEnds
  <2>8. Fresh'
    BY <1>7 DEF DestroyEnds
  <2>9. Destroyed'
    BY <1>7 DEF DestroyEnds
  <2>10. UpIsQuiet'
    BY <1>7 DEF DestroyEnds
  <2>11. Silent'
    BY <1>7 DEF DestroyEnds
  <2> QED BY <2>1, <2>2, <2>3, <2>4, <2>5, <2>6, <2>7, <2>8, <2>9, <2>10, <2>11
<1>8. ASSUME BackoffEnds PROVE ConnectionInvariant'
  BY <1>8 DEF BackoffEnds
<1>9. ASSUME NEW t \in Threads, LockLogin(t) PROVE ConnectionInvariant'
  BY <1>9 DEF LockLogin
<1>10. ASSUME NEW t \in Threads, Prepare(t) PROVE ConnectionInvariant'
  <2>1. TypeOK'
    BY <1>10, ZenonT(60) DEF Prepare
  <2>2. RetriesCounted'
    BY <1>10 DEF Prepare
  <2>3. NoDanglingClient'
    BY <1>10 DEF Prepare
  <2>4. FlagMatchesClient'
    BY <1>10 DEF Prepare
  <2>5. OneClient'
    BY <1>10 DEF Prepare
  <2>6. LoginLock'
    BY <1>10 DEF Prepare
  <2>7. NoneToCreate'
    BY <1>10 DEF Prepare
  <2>8. Fresh'
    BY <1>10 DEF Prepare
  <2>9. Destroyed'
    BY <1>10 DEF Prepare, Items
  <2>10. UpIsQuiet'
    BY <1>10 DEF Prepare
  <2>11. Silent'
    BY <1>10 DEF Prepare
  <2> QED BY <2>1, <2>2, <2>3, <2>4, <2>5, <2>6, <2>7, <2>8, <2>9, <2>10, <2>11
<1>11. ASSUME NEW t \in Threads, Create(t) PROVE ConnectionInvariant'
  <2>1. TypeOK'
    BY <1>11 DEF Create
  <2>2. RetriesCounted'
    BY <1>11 DEF Create
  <2>3. NoDanglingClient'
    BY <1>11 DEF Create
  <2>4. FlagMatchesClient'
    BY <1>11 DEF Create
  <2>5. OneClient'
    BY <1>11 DEF Create
  <2>6. LoginLock'
    BY <1>11 DEF Create
  <2>7. NoneToCreate'
    BY <1>11 DEF Create
  <2>8. Fresh'
    BY <1>11 DEF Create
  <2>9. Destroyed'
    BY <1>11 DEF Create
  <2>10. UpIsQuiet'
    BY <1>11 DEF Create
  <2>11. Silent'
    BY <1>11 DEF Create
  <2> QED BY <2>1, <2>2, <2>3, <2>4, <2>5, <2>6, <2>7, <2>8, <2>9, <2>10, <2>11
<1>12. ASSUME NEW t \in Threads, Connect(t) PROVE ConnectionInvariant'
  <2>1. TypeOK'
    BY <1>12 DEF Connect
  <2>2. RetriesCounted'
    BY <1>12 DEF Connect
  <2>3. NoDanglingClient'
    BY <1>12 DEF Connect
  <2>4. FlagMatchesClient'
    BY <1>12 DEF Connect
  <2>5. OneClient'
    BY <1>12 DEF Connect
  <2>6. LoginLock'
    BY <1>12 DEF Connect
  <2>7. NoneToCreate'
    BY <1>12 DEF Connect
  <2>8. Fresh'
    BY <1>12 DEF Connect
  <2>9. Destroyed'
    BY <1>12 DEF Connect
  <2>10. UpIsQuiet'
    BY <1>12 DEF Connect
  <2>11. Silent'
    BY <1>12 DEF Connect
  <2> QED BY <2>1, <2>2, <2>3, <2>4, <2>5, <2>6, <2>7, <2>8, <2>9, <2>10, <2>11
<1>13. ASSUME NEW c \in Clients, ConnectDone(c) PROVE ConnectionInvariant'
  BY <1>13 DEF ConnectDone
<1>14. ASSUME NEW c \in Clients, ConnectFails(c) PROVE ConnectionInvariant'
  <2>1. TypeOK'
    <3>1. wait' \in Int
      BY <1>14, WaitIsInt DEF ConnectFails
    <3> QED BY <1>14, <3>1 DEF ConnectFails
  <2>2. RetriesCounted'
    BY <1>14 DEF ConnectFails
  <2>3. NoDanglingClient'
    BY <1>14 DEF ConnectFails
  <2>4. FlagMatchesClient'
    BY <1>14 DEF ConnectFails
  <2>5. OneClient'
    BY <1>14 DEF ConnectFails
  <2>6. LoginLock'
    BY <1>14 DEF ConnectFails
  <2>7. NoneToCreate'
    BY <1>14 DEF ConnectFails
  <2>8. Fresh'
    BY <1>14 DEF ConnectFails
  <2>9. Destroyed'
    BY <1>14 DEF ConnectFails
  <2>10. UpIsQuiet'
    BY <1>14 DEF ConnectFails
  <2>11. Silent'
    BY <1>14 DEF ConnectFails
  <2> QED BY <2>1, <2>2, <2>3, <2>4, <2>5, <2>6, <2>7, <2>8, <2>9, <2>10, <2>11
<1>15. CASE UNCHANGED vars
  BY <1>15 DEF vars
<1> QED BY <1>1, <1>2, <1>3, <1>4, <1>5, <1>6, <1>7, <1>8, <1>9, <1>10, <1>11, <1>12, <1>13, <1>14, <1>15
        DEF Next, AppRuns, CallbackRuns, LibraryRuns, InCreateConnection

-----------------------------------------------------------------------------
(* How long a wait is.                                                     *)

\* long is wide enough for the powers that the faults can reach.  In milliseconds the
\* largest sum is 1000 + 2000 * 2^31 < 2^42: a long of 64 bits is, one of 32 is not.
WideLong ==
  \A p \in 0..MaxPower : p < MaxFaults =>
    /\ p < LongBits
    /\ 2 * Factor <= 2^(LongBits - p)
    /\ MinBackoff + 2 * Factor * 2^p < 2^(LongBits - 1)

\* No power and no jitter makes the wait overflow a long that is wide enough.
LEMMA WaitFits ==
  ASSUME WideLong, NEW n \in Nat, n < MaxFaults, NEW r \in RandomBackOffs
  PROVE  WaitTimeUntilNextRetry(n, r) \in MinBackoff..MaxBackoff
<1> DEFINE p == Power(n)
           x == r + LowBound
           y == 2^p
           m == 2^(LongBits - p)
           top == 2^(LongBits - 1)
<1>1. p \in 0..MaxPower /\ p < MaxFaults
  BY ConnectionAssumption, BackoffAssumption DEF Power
<1>2. x \in Nat /\ x < 2 * Factor
  BY BackoffAssumption DEF RandomBackOffs, LowBound, HighBound
<1>3. /\ p < LongBits
      /\ 2 * Factor <= m
      /\ MinBackoff + 2 * Factor * y < top
  BY <1>1 DEF WideLong
<1>4. y \in Nat \ {0} /\ m \in Nat \ {0} /\ top \in Nat \ {0}
  <2>1. p \in 0..LongBits /\ LongBits - p \in 0..LongBits /\ LongBits - 1 \in 0..LongBits
    BY <1>1, <1>3, BackoffAssumption
  <2> QED BY <2>1, PowerAssumption
<1> HIDE DEF p, x, y, m, top
<1>5. x % m = x
  BY <1>2, <1>3, <1>4, BackoffAssumption
<1>6. ShiftedLeft(x, p) = x * y
  <2>1. ~ (p >= LongBits)
    BY <1>1, <1>3, BackoffAssumption
  <2>2. ShiftedLeft(x, p) = (x % m) * y
    BY <2>1 DEF ShiftedLeft, m, y
  <2> QED BY <2>2, <1>5
<1>7. x * y \in Nat /\ x * y <= 2 * Factor * y
  BY <1>2, <1>4, BackoffAssumption
<1>8. \A z \in Int : z < top => AsLong(z) = z
  BY <1>4 DEF AsLong, top
<1>9. BackOffWithJitter(n, r) = x * y
  <2>1. BackOffWithJitter(n, r) = AsLong(ShiftedLeft(x, p))
    BY DEF BackOffWithJitter, x, p
  <2>2. x * y < top
    BY <1>3, <1>4, <1>7, BackoffAssumption
  <2> QED BY <2>1, <2>2, <1>6, <1>7, <1>8
<1>10. AsLong(MinBackoff + x * y) = MinBackoff + x * y
  BY <1>3, <1>4, <1>7, <1>8, BackoffAssumption
<1> QED BY <1>7, <1>9, <1>10, BackoffAssumption DEF WaitTimeUntilNextRetry

\* The inductive invariant holds in every behaviour.
THEOREM Invariant == Spec => []ConnectionInvariant
BY InvariantInit, InvariantStep, PTL DEF Spec

\* The variables of the connection keep their types.
THEOREM TypeCorrect == Spec => []TypeOK
BY Invariant, PTL DEF ConnectionInvariant

\* g_client is NULL or a client that exists, whatever the application calls.
THEOREM ClientExists == Spec => []NoDanglingClient
BY Invariant, PTL DEF ConnectionInvariant

\* In regular use the flag tells whether there is a client.
THEOREM FlagTellsClient == Spec => []FlagMatchesClient
BY Invariant, PTL DEF ConnectionInvariant

\* In regular use no client is made beside g_client.
THEOREM NoSecondClient == Spec => []OneClient
BY Invariant, PTL DEF ConnectionInvariant

\* In regular use nothing connects after IOTA_DisConnect or IOTA_Destroy.
THEOREM SilenceAfterDisconnect == Spec => []StaysDisconnected
<1>1. ConnectionInvariant => StaysDisconnected
  BY DEF ConnectionInvariant, Silent, StaysDisconnected
<1> QED BY <1>1, Invariant, PTL

\* With a long that is wide enough every wait is within its bounds, however many
\* failures there are.
THEOREM WaitsInBounds == WideLong /\ Spec => []WaitInBounds
<1> SUFFICES ASSUME WideLong PROVE Spec => []WaitInBounds
  OBVIOUS
<1>1. Init => WaitInBounds
  BY DEF Init, WaitInBounds
<1>2. WaitInBounds /\ ConnectionInvariant /\ [Next]_vars => WaitInBounds'
  <2> SUFFICES ASSUME WaitInBounds, ConnectionInvariant, [Next]_vars
               PROVE  WaitInBounds'
    OBVIOUS
  <2>1. ASSUME NEW c \in Clients, ConnectFails(c) PROVE WaitInBounds'
    <3>1. retryTimes \in Nat /\ retryTimes < MaxFaults
      BY <2>1, ConnectionAssumption DEF ConnectionInvariant, TypeOK, RetriesCounted, ConnectFails
    <3> QED BY <2>1, <3>1, WaitFits DEF ConnectFails, WaitInBounds
  <2>2. CASE UNCHANGED <<wait, faults>>
    BY <2>2 DEF WaitInBounds
  <2> QED BY <2>1, <2>2
          DEF Next, AppRuns, CallbackRuns, LibraryRuns, InCreateConnection, vars, MqttBase_init, MqttBase_SetConfig,
              SetResetSecret, AppConnect, IOTA_DisConnect, DestroyBegins, DestroyEnds, BackoffEnds, LockLogin, Prepare,
              Create, Connect, ConnectDone, counts, retry
<1> QED BY <1>1, <1>2, Invariant, PTL DEF Spec
=============================================================================
