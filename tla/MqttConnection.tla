--------------------------- MODULE MqttConnection ---------------------------
(***************************************************************************)
(* The life of the MQTT connection: mqtt_base.c and the default callbacks  *)
(* of iota_defaultCallback.c.  Threads:                                    *)
(*                                                                         *)
(*   "app"       the application: IOTA_Init, IOTA_ConnectConfigSet,        *)
(*               IOTA_Connect, IOTA_DisConnect, IOTA_Destroy;              *)
(*   "callback"  the MQTT library's thread.  After a failed connect or a   *)
(*               lost connection it runs IOTA_HandleConnectFailure, which  *)
(*               sleeps for the back-off and calls IOTA_Connect again.     *)
(*                                                                         *)
(* g_loginLocker serialises MqttBase_CreateConnection and                  *)
(* MqttBase_SetConfig; MqttBase_init and MqttBase_destory do not take it.  *)
(*                                                                         *)
(* The MQTT library is external.  A client is made by MQTTAsync_create and *)
(* lives until MQTTAsync_destroy.  An operation on a NULL client, and a    *)
(* disconnect of a client that is not connected, fail; a connect of a      *)
(* client that is connecting or connected changes nothing.  While a        *)
(* callback runs the library handles no other event.  Authentication is by *)
(* secret.  There is no clock: a sleep ends at some time, and wait is the  *)
(* length the handler computed for it.                                     *)
(***************************************************************************)
EXTENDS Backoff

CONSTANTS
  Clients,      \* handles the library may give out
  NoClient,     \* NULL
  MaxInits,     \* bound: calls of IOTA_Init
  RepeatInit,   \* TRUE: the application may call IOTA_Init when it is initialised
  MaxFaults,    \* bound: failed connects and lost connections, in regular use
  AnyFaults,    \* bound: the same in any other use
  ResetSecret,  \* TRUE: the application may set RESET_SECRET_IN_PROGRESS
  SyncErrors    \* what may fail at once: "prepare", the password or the certificates;
                \* "create" and "connect", calls of the library

ASSUME ConnectionAssumption ==
  /\ NoClient \notin Clients
  /\ MaxInits \in Nat /\ MaxFaults \in Nat /\ AnyFaults \in 0..MaxFaults
  /\ RepeatInit \in BOOLEAN /\ ResetSecret \in BOOLEAN
  /\ SyncErrors \subseteq {"prepare", "create", "connect"}

App == "app"
Callback == "callback"
NoThread == "none"
Threads == {App, Callback}
Items == {"address", "password"}

VARIABLES
  initFlag,    \* g_initFlag
  workDir,     \* g_workDir is set
  config,      \* the parameters of the connection that are set
  key,         \* g_encryptedPassword is set
  createFlag,  \* g_mqttClientCreateFlag
  client,      \* g_client
  lock,        \* owner of g_loginLocker
  pc,          \* where each thread is
  live,        \* the library's clients
  link,        \* the library's view of each client's connection
  wanted,      \* history: the application connected and has not disconnected
  regular,     \* history: one call of IOTA_Init, no reset of the secret, and no
               \* connect that failed at once
  retryTimes,  \* static: back-offs of the process so far
  wait,        \* waitTimeUntilNextRetry of the last of them; 0: none yet
  inits,       \* calls of IOTA_Init so far
  faults       \* failed connects and lost connections so far

vars == <<initFlag, workDir, config, key, createFlag, client, lock, pc, live, link,
          wanted, regular, retryTimes, wait, inits, faults>>
setup == <<initFlag, workDir, config>>
retry == <<retryTimes, wait>>
counts == <<regular, retry, inits, faults>>

TypeOK ==
  /\ initFlag \in BOOLEAN /\ workDir \in BOOLEAN
  /\ config \subseteq Items
  /\ key \in BOOLEAN /\ createFlag \in BOOLEAN
  /\ client \in Clients \cup {NoClient}
  /\ lock \in Threads \cup {NoThread}
  /\ pc \in [Threads -> {"idle", "backoff", "wantLogin", "prepare", "create", "connect",
                         "releasing"}]
  /\ live \subseteq Clients
  /\ link \in [Clients -> {"down", "connecting", "up"}]
  /\ wanted \in BOOLEAN /\ regular \in BOOLEAN
  /\ retryTimes \in 0..MaxFaults /\ wait \in Int
  /\ inits \in 0..MaxInits /\ faults \in 0..MaxFaults

Init ==
  /\ initFlag = FALSE /\ workDir = FALSE /\ config = {} /\ key = FALSE
  /\ createFlag = FALSE /\ client = NoClient /\ lock = NoThread
  /\ pc = [t \in Threads |-> "idle"]
  /\ live = {}
  /\ link = [c \in Clients |-> "down"]
  /\ wanted = FALSE /\ regular = TRUE /\ retryTimes = 0 /\ wait = 0 /\ inits = 0 /\ faults = 0

Goto(t, label) == pc' = [pc EXCEPT ![t] = label]

-----------------------------------------------------------------------------
(* The application's set-up.                                               *)

\* MqttBase_init.  The parameters and the client are forgotten before the call is
\* found to be a repetition or the path to be unusable.
MqttBase_init(accessible) ==
  /\ pc[App] = "idle"
  /\ inits < MaxInits
  /\ RepeatInit \/ ~ initFlag
  /\ inits' = inits + 1
  /\ regular' = (regular /\ inits = 0)
  /\ config' = {}
  /\ client' = NoClient
  /\ IF initFlag \/ ~ accessible
     THEN UNCHANGED <<initFlag, workDir, lock>>
     ELSE initFlag' = TRUE /\ workDir' = TRUE /\ lock' = NoThread
  /\ UNCHANGED <<key, createFlag, pc, live, link, wanted, retry, faults>>

\* MqttBase_SetConfig of the address, port and device id, or of the password.  The
\* application does it after IOTA_Init, as the demos do.
MqttBase_SetConfig(item) ==
  /\ pc[App] = "idle"
  /\ initFlag
  /\ lock = NoThread
  /\ config' = config \cup {item}
  /\ UNCHANGED <<initFlag, workDir, key, createFlag, client, lock, pc, live, link, wanted,
                 counts>>

\* MqttBase_SetConfig of RESET_SECRET_IN_PROGRESS with "0".
SetResetSecret ==
  /\ ResetSecret
  /\ pc[App] = "idle"
  /\ lock = NoThread
  /\ createFlag' = FALSE
  /\ regular' = FALSE
  /\ UNCHANGED <<setup, key, client, lock, pc, live, link, wanted, retry, inits, faults>>

-----------------------------------------------------------------------------
(* MqttBase_CreateConnection.  A thread that returns is "idle": the        *)
(* application is back from IOTA_Connect, the callback is over.            *)

\* The application calls IOTA_Connect.  Without a work path it fails at once.
AppConnect ==
  /\ pc[App] = "idle"
  /\ workDir
  /\ Goto(App, "wantLogin")
  /\ UNCHANGED <<setup, key, createFlag, client, lock, live, link, wanted, counts>>

\* Bug: the handler gives up when the back-off is over.
BackoffGivesUp ==
  /\ pc[Callback] = "backoff"
  /\ Goto(Callback, "idle")
  /\ UNCHANGED <<setup, key, createFlag, client, lock, live, link, wanted, counts>>

\* IOTA_HandleConnectFailure after its sleep: it connects, once.
BackoffEnds ==
  /\ pc[Callback] = "backoff"
  /\ retryTimes' = retryTimes + 1
  /\ Goto(Callback, IF workDir THEN "wantLogin" ELSE "idle")
  /\ UNCHANGED <<setup, key, createFlag, client, lock, live, link, wanted, regular, wait,
                 inits, faults>>

LockLogin(t) ==
  /\ pc[t] = "wantLogin"
  /\ lock = NoThread
  /\ lock' = t
  /\ Goto(t, "prepare")
  /\ UNCHANGED <<setup, key, createFlag, client, live, link, wanted, counts>>

\* Bug: an early return keeps g_loginLocker.
PrepareKeepsLock(t) ==
  /\ pc[t] = "prepare"
  /\ key' = (key \/ (~ createFlag /\ config = Items))
  /\ Goto(t, IF createFlag THEN "connect" ELSE IF config = Items THEN "create" ELSE "idle")
  /\ UNCHANGED <<setup, createFlag, client, lock, live, link, wanted, counts>>

\* Bug: a client is made for every connection.
PrepareAlwaysCreates(t) ==
  /\ pc[t] = "prepare"
  /\ key' = (key \/ config = Items)
  /\ Goto(t, IF config = Items THEN "create" ELSE "idle")
  /\ lock' = IF config = Items THEN lock ELSE NoThread
  /\ UNCHANGED <<setup, createFlag, client, live, link, wanted, counts>>

\* An existing client is used again; a new one needs all parameters, its password is
\* encrypted here and, for MQTTS, its SSL options are set, where the certificates may
\* be missing.
Prepare(t) ==
  /\ pc[t] = "prepare"
  /\ \/ /\ createFlag
        /\ Goto(t, "connect")
        /\ UNCHANGED <<key, lock>>
     \/ /\ ~ createFlag /\ config = Items
        /\ key' = TRUE
        /\ Goto(t, "create")
        /\ UNCHANGED lock
     \/ /\ ~ createFlag /\ (config # Items \/ "prepare" \in SyncErrors)
        /\ lock' = NoThread
        /\ Goto(t, "idle")
        /\ key' \in {key, key \/ config = Items}
  /\ UNCHANGED <<setup, createFlag, client, live, link, wanted, counts>>

\* Bug: a failed create leaves an undefined handle.
CreateUndefined(t) ==
  /\ pc[t] = "create"
  /\ \/ \E c \in Clients \ live :
          live' = live \cup {c} /\ client' = c /\ createFlag' = TRUE
     \/ /\ "create" \in SyncErrors
        /\ client' = "undefined"
        /\ UNCHANGED <<live, createFlag>>
  /\ Goto(t, "connect")
  /\ UNCHANGED <<setup, key, lock, link, wanted, counts>>

\* MQTTAsync_createWithOptions and MQTTAsync_setCallbacks.  A failure is logged and
\* the connection tried all the same.
Create(t) ==
  /\ pc[t] = "create"
  /\ \/ \E c \in Clients \ live :
          /\ live' = live \cup {c}
          /\ link' = [link EXCEPT ![c] = "down"]
          /\ client' = c
          /\ createFlag' = TRUE
     \/ /\ "create" \in SyncErrors \/ Clients = live
        /\ UNCHANGED <<live, link, client, createFlag>>
  /\ Goto(t, "connect")
  /\ UNCHANGED <<setup, key, lock, wanted, counts>>

\* The copies of user name and password, MQTTAsync_connect, and the return.
Connect(t) ==
  /\ pc[t] = "connect"
  /\ \/ /\ key /\ client \in live
        /\ link' = [link EXCEPT ![client] = IF @ = "down" THEN "connecting" ELSE @]
        /\ wanted' = (wanted \/ t = App)
        /\ UNCHANGED regular
     \/ /\ ~ key \/ client \notin live
        /\ UNCHANGED <<link, wanted, regular>>
     \/ /\ key /\ client \in live /\ "connect" \in SyncErrors
        /\ regular' = FALSE
        /\ UNCHANGED <<link, wanted>>
  /\ lock' = NoThread
  /\ Goto(t, "idle")
  /\ UNCHANGED <<setup, key, createFlag, client, live, retry, inits, faults>>

-----------------------------------------------------------------------------
(* Disconnecting.                                                          *)

\* MqttBase_ReleaseConnection for a client that is connected.
IOTA_DisConnect ==
  /\ pc[App] = "idle"
  /\ client \in live
  /\ link[client] = "up"
  /\ link' = [link EXCEPT ![client] = "down"]
  /\ wanted' = FALSE
  /\ UNCHANGED <<setup, key, createFlag, client, lock, pc, live, counts>>

\* MqttBase_destory up to its sleep of one second.
DestroyBegins ==
  /\ pc[App] = "idle"
  /\ link' = [c \in Clients |-> IF c = client /\ link[c] = "up" THEN "down" ELSE link[c]]
  /\ initFlag' = FALSE
  /\ wanted' = FALSE
  /\ Goto(App, "releasing")
  /\ UNCHANGED <<workDir, config, key, createFlag, client, lock, live, counts>>

\* Bug: the flag outlives the client.
DestroyKeepsFlag ==
  /\ pc[App] = "releasing"
  /\ workDir' = FALSE
  /\ config' = {}
  /\ key' = FALSE
  /\ live' = live \ {client}
  /\ client' = NoClient
  /\ Goto(App, "idle")
  /\ UNCHANGED <<initFlag, createFlag, lock, link, wanted, counts>>

\* Bug: g_client keeps the handle of the destroyed client.
DestroyKeepsHandle ==
  /\ pc[App] = "releasing"
  /\ workDir' = FALSE
  /\ config' = {}
  /\ key' = FALSE
  /\ createFlag' = FALSE
  /\ live' = live \ {client}
  /\ Goto(App, "idle")
  /\ UNCHANGED <<initFlag, client, lock, link, wanted, counts>>

\* Bug: the parameters and the work path are not freed.
DestroyKeepsConfig ==
  /\ pc[App] = "releasing"
  /\ createFlag' = FALSE
  /\ live' = live \ {client}
  /\ client' = NoClient
  /\ Goto(App, "idle")
  /\ UNCHANGED <<setup, key, lock, link, wanted, counts>>

\* Its rest: the parameters are freed, the client is destroyed.
DestroyEnds ==
  /\ pc[App] = "releasing"
  /\ workDir' = FALSE
  /\ config' = {}
  /\ key' = FALSE
  /\ createFlag' = FALSE
  /\ live' = live \ {client}
  /\ client' = NoClient
  /\ Goto(App, "idle")
  /\ UNCHANGED <<initFlag, lock, link, wanted, counts>>

-----------------------------------------------------------------------------
(* The MQTT library.                                                       *)

ConnectDone(c) ==
  /\ pc[Callback] = "idle"
  /\ c \in live /\ link[c] = "connecting"
  /\ link' = [link EXCEPT ![c] = "up"]
  /\ UNCHANGED <<setup, key, createFlag, client, lock, pc, live, wanted, counts>>

\* onFailure of a connect, or connectionLost: both run IOTA_HandleConnectFailure,
\* which computes the back-off and sleeps.
ConnectFails(c) ==
  /\ pc[Callback] = "idle"
  /\ c \in live /\ link[c] # "down"
  /\ faults < IF regular THEN MaxFaults ELSE AnyFaults
  /\ faults' = faults + 1
  /\ link' = [link EXCEPT ![c] = "down"]
  /\ \E r \in RandomBackOffs : wait' = WaitTimeUntilNextRetry(retryTimes, r)
  /\ Goto(Callback, "backoff")
  /\ UNCHANGED <<setup, key, createFlag, client, lock, live, wanted, regular, retryTimes,
                 inits>>

-----------------------------------------------------------------------------
InCreateConnection(t) == LockLogin(t) \/ Prepare(t) \/ Create(t) \/ Connect(t)
AppRuns == InCreateConnection(App) \/ DestroyEnds
CallbackRuns == InCreateConnection(Callback) \/ BackoffEnds
LibraryRuns == \E c \in Clients : ConnectDone(c) \/ ConnectFails(c)

Next ==
  \/ \E ok \in BOOLEAN : MqttBase_init(ok)
  \/ \E i \in Items : MqttBase_SetConfig(i)
  \/ SetResetSecret \/ AppConnect \/ IOTA_DisConnect \/ DestroyBegins
  \/ AppRuns \/ CallbackRuns \/ LibraryRuns

\* Calls and callbacks that began go on, sleeps end, and the library resolves a
\* connect; what the application calls, and when, is its own.  A thread that waits
\* for g_loginLocker gets it even if the application connects again and again.
Fairness ==
  /\ WF_vars(AppRuns)
  /\ WF_vars(CallbackRuns) /\ SF_vars(LockLogin(Callback))
  /\ \A c \in Clients : WF_vars(ConnectDone(c))

Spec == Init /\ [][Next]_vars
FairSpec == Spec /\ Fairness

-----------------------------------------------------------------------------
(* Properties.                                                             *)

\* In regular use g_mqttClientCreateFlag tells whether g_client is a client: a
\* connect never takes the NULL client for one that exists.
FlagMatchesClient == regular => (createFlag <=> client # NoClient)

\* In regular use no client of the library is lost: only g_client exists, so that
\* IOTA_Destroy releases all there is and no message arrives twice.
OneClient == regular => live = {client} \ {NoClient}

\* Whatever the application calls and whoever else is connecting, g_client is NULL or
\* a client that was not destroyed.
NoDanglingClient == client # NoClient => client \in live

Up == client \in live /\ link[client] = "up"

\* "The device will reconnect at intervals until the connection is successful", in
\* regular use.
Reconnects == wanted ~> Up \/ ~ wanted \/ ~ regular

\* The same for every use of the SDK, which does not hold.
AlwaysReconnects == wanted ~> Up \/ ~ wanted

\* Every wait is between IOTA_MIN_BACKOFF and IOTA_MAX_BACKOFF, after however many failures
\* in the life of the process: the power is limited before its product with the jitter
\* overflows a long, and the wait before it is slept.
WaitInBounds == faults > 0 => wait \in MinBackoff..MaxBackoff

\* In regular use an active disconnection triggers no reconnection: not after
\* IOTA_DisConnect, and not after IOTA_Destroy, even when it ran while the handler
\* slept or was inside MqttBase_CreateConnection.
StaysDisconnected ==
  regular /\ ~ wanted /\ pc[App] = "idle" => \A c \in live : link[c] = "down"

\* Every early return of MqttBase_CreateConnection gives g_loginLocker back, so that
\* no call waits for ever.
CallsEnd == \A t \in Threads : pc[t] # "idle" ~> pc[t] = "idle"

=============================================================================
