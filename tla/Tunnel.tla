------------------------------- MODULE Tunnel -------------------------------
(***************************************************************************)
(* The remote login tunnel: wss_client.c, ssh_client.c and HandleTunnelMgr *)
(* of iota_defaultCallback.c.  The platform notifies the device, which     *)
(* opens a WebSocket and, on request, a login shell over SSH.  Threads:    *)
(*                                                                         *)
(*   "mqtt"    the MQTT callback thread, in WssClientCreate;               *)
(*   a context its loop thread, in WssClientListenerOnMsg and              *)
(*             WssClientListenerOnClose;                                   *)
(*   a connection  the thread WssClientCloseConn that closes it after a    *)
(*             failed connect, and runs its WssClientListenerOnClose;      *)
(*   a session the thread SSHClientRead started with it.                   *)
(*                                                                         *)
(* g_channelLocker (lock) protects the freeing and the reading of the      *)
(* channel; nothing protects g_Conn, g_Ctx and the making of a session.    *)
(*                                                                         *)
(* noPoll and libssh are external.  Closing a connection calls its close   *)
(* listener on the closing thread, if one is set; the loop thread closes a *)
(* connection that the peer closed or lost.  A call on NULL fails.  libssh *)
(* handles the packets of the server, the closing of the channel among     *)
(* them, inside ssh_channel_read_nonblocking.  Memory and threads do not   *)
(* run out.                                                                *)
(***************************************************************************)
EXTENDS Naturals, FiniteSets

CONSTANTS
  Conns, Ctxs, Sessions,  \* what the libraries may give out, each once
  None,                   \* NULL
  RetryTimes,             \* TUNNEL_WSSCLIENT_CONN_RETRY_TIMES
  MaxNotifies,            \* bound: notifications
  MaxMsgs                 \* bound: messages over the tunnel

ASSUME TunnelAssumption ==
  /\ None \notin Conns \cup Ctxs \cup Sessions
  /\ Conns \cap Ctxs = {} /\ Conns \cap Sessions = {} /\ Ctxs \cap Sessions = {}
  /\ "mqtt" \notin Conns \cup Ctxs \cup Sessions
  /\ RetryTimes \in Nat \ {0}
  /\ IsFiniteSet(Ctxs) /\ IsFiniteSet(Sessions)
  /\ MaxNotifies \in 0..Cardinality(Ctxs) /\ MaxMsgs \in 0..Cardinality(Sessions)

Mqtt == "mqtt"
Threads == {Mqtt} \cup Ctxs \cup Conns

VARIABLES
  gConn, gCtx,  \* g_Conn, g_Ctx
  conn,         \* each connection: its state, context and close listener
  ctx,          \* each context
  session,      \* g_SSHSession
  channel,      \* g_SSHChannel: the session it is a channel of
  ssh,          \* each session: unused, live or freed
  lock,         \* owner of g_channelLocker
  th,           \* each thread: where it is, the connection it handles, and the
                \* connects of its loop so far
  reader,       \* where SSHClientRead of each session is
  notifies,     \* notifications so far
  msgs,         \* messages so far
  overlap,      \* history: two threads were in handlers at once
  timedOut      \* history: a reconnect timed out

wss == <<gConn, gCtx, conn, ctx>>
shell == <<session, channel, ssh, reader>>
counts == <<notifies, msgs>>
history == <<overlap, timedOut>>
vars == <<wss, shell, lock, th, counts, history>>

PCs == {"idle", "closeOld", "destroyNew", "new", "ready",
        "check", "checkNormal", "destroyRetry", "destroyFinish", "retryNew", "retryReady", "listen", "finish",
        "closing", "destroyCreate", "sshNew", "sshConnect", "sshChannel", "sshShell",
        "destroyFailed"}

TypeOK ==
  /\ gConn \in Conns \cup {None} /\ gCtx \in Ctxs \cup {None}
  /\ conn \in [Conns -> [state : {"unused", "pending", "open", "closed"},
                         ctx : Ctxs \cup {None}, listens : BOOLEAN, hears : BOOLEAN]]
  /\ ctx \in [Ctxs -> {"unused", "running", "freed"}]
  /\ session \in Sessions \cup {None} /\ channel \in Sessions \cup {None}
  /\ ssh \in [Sessions -> {"unused", "live", "freed"}]
  /\ lock \in Sessions \cup {None}
  /\ th \in [Threads -> [at : PCs, conn : Conns \cup {None}, tries : 0..(RetryTimes - 1)]]
  /\ reader \in [Sessions -> {"none", "reading", "callback"}]
  /\ notifies \in 0..MaxNotifies /\ msgs \in 0..MaxMsgs
  /\ overlap \in BOOLEAN /\ timedOut \in BOOLEAN

Idle == [at |-> "idle", conn |-> None, tries |-> 0]

Init ==
  /\ gConn = None /\ gCtx = None
  /\ conn = [c \in Conns |-> [state |-> "unused", ctx |-> None,
                              listens |-> FALSE, hears |-> FALSE]]
  /\ ctx = [x \in Ctxs |-> "unused"]
  /\ session = None /\ channel = None
  /\ ssh = [s \in Sessions |-> "unused"]
  /\ lock = None
  /\ th = [t \in Threads |-> Idle]
  /\ reader = [s \in Sessions |-> "none"]
  /\ notifies = 0 /\ msgs = 0
  /\ overlap = FALSE /\ timedOut = FALSE

At(t, label) == th[t].at = label
Moved(t, label) == IF label = "idle" THEN Idle ELSE [th[t] EXCEPT !.at = label]
Goto(t, label) == th' = [th EXCEPT ![t] = Moved(t, label)]

\* Thread t enters a handler for connection c.
Busy == {t \in Threads : th[t] # Idle}
Enter(t, label, c) ==
  /\ th' = [th EXCEPT ![t] = [at |-> label, conn |-> c, tries |-> 0]]
  /\ overlap' = (overlap \/ Busy \ {t} # {})

\* Bug: one connect too many.
NextTriedOnceMore(t, again, end) ==
  [th EXCEPT ![t] = IF th[t].tries < RetryTimes
                    THEN [th[t] EXCEPT !.at = again, !.tries = th[t].tries + 1]
                    ELSE Moved(t, end)]

\* The next round of a loop of connects, or its end.
NextTried(t, again, end) ==
  [th EXCEPT ![t] = IF th[t].tries + 1 < RetryTimes
                    THEN [th[t] EXCEPT !.at = again, !.tries = th[t].tries + 1]
                    ELSE Moved(t, end)]
NextTry(t, again, end) == th' = NextTried(t, again, end)

\* The libraries give out handles that were not used before.
Fresh(S) == CHOOSE h \in S : TRUE

-----------------------------------------------------------------------------
(* SSHClientSessionDestroy, with where each caller goes on.                *)

After == [destroyNew |-> "new", destroyRetry |-> "retryNew", destroyFinish |-> "finish",
          destroyCreate |-> "sshNew", destroyFailed |-> "idle"]

\* Bug: the mutex is kept.
DestroyKeepsLock(t) ==
  /\ th[t].at \in DOMAIN After
  /\ lock = None
  /\ lock' = t
  /\ ssh' = IF session = None THEN ssh ELSE [ssh EXCEPT ![session] = "freed"]
  /\ session' = None /\ channel' = None
  /\ Goto(t, After[th[t].at])
  /\ UNCHANGED <<wss, reader, counts, history>>

SSHClientSessionDestroy(t) ==
  /\ th[t].at \in DOMAIN After
  /\ lock = None
  /\ ssh' = IF session = None THEN ssh ELSE [ssh EXCEPT ![session] = "freed"]
  /\ session' = None /\ channel' = None
  /\ Goto(t, After[th[t].at])
  /\ UNCHANGED <<wss, reader, lock, counts, history>>

-----------------------------------------------------------------------------
(* The MQTT callback thread: WssClientCreate.                              *)

\* HandleTunnelMgr with a URL that can be split.  A context and its loop thread are
\* made if there is none.
HandleTunnelMgr ==
  /\ At(Mqtt, "idle")
  /\ notifies < MaxNotifies
  /\ notifies' = notifies + 1
  /\ IF gCtx # None
     THEN UNCHANGED <<gCtx, ctx>>
     ELSE LET x == Fresh({y \in Ctxs : ctx[y] = "unused"})
          IN ctx' = [ctx EXCEPT ![x] = "running"] /\ gCtx' = x
  /\ Enter(Mqtt, "closeOld", None)
  /\ UNCHANGED <<gConn, conn, shell, lock, msgs, timedOut>>

\* Bug: the old connection is only forgotten.
CloseOldForgets ==
  /\ At(Mqtt, "closeOld")
  /\ Goto(Mqtt, IF gConn = None THEN "new" ELSE "destroyNew")
  /\ gConn' = None
  /\ UNCHANGED <<gCtx, ctx, conn, shell, lock, counts, history>>

\* WssClientConnect(HW_FALSE): the old connection loses its listener and is closed.
CloseOld ==
  /\ At(Mqtt, "closeOld")
  /\ IF gConn = None
     THEN Goto(Mqtt, "new") /\ UNCHANGED conn
     ELSE /\ conn' = [conn EXCEPT ![gConn].listens = FALSE, ![gConn].state = "closed"]
          /\ Goto(Mqtt, "destroyNew")
  /\ gConn' = None
  /\ UNCHANGED <<gCtx, ctx, shell, lock, counts, history>>

\* nopoll_conn_tls_new in the context of the moment.
NewConn(listens) ==
  LET unused == {c \in Conns : conn[c].state = "unused"}
  IN /\ unused # {} /\ gCtx # None
     /\ gConn' = Fresh(unused)
     /\ conn' = [conn EXCEPT ![Fresh(unused)] =
                   [state |-> "pending", ctx |-> gCtx, listens |-> listens, hears |-> FALSE]]

New ==
  /\ At(Mqtt, "new")
  /\ \/ NewConn(TRUE) /\ Goto(Mqtt, "ready")
     \/ gConn' = None /\ NextTry(Mqtt, "closeOld", "idle") /\ UNCHANGED conn
  /\ UNCHANGED <<gCtx, ctx, shell, lock, counts, history>>

\* The connection becomes ready in time and gets its message listener, or a thread
\* is started that closes it.
ReadyInTime ==
  /\ gConn # None
  /\ conn[gConn].state \in {"pending", "open"}
  /\ conn' = [conn EXCEPT ![gConn].state = "open", ![gConn].hears = TRUE]

Ready ==
  /\ At(Mqtt, "ready")
  /\ \/ ReadyInTime /\ Goto(Mqtt, "idle") /\ UNCHANGED overlap
     \/ /\ gConn # None
        /\ th' = [NextTried(Mqtt, "closeOld", "idle") EXCEPT
                    ![gConn] = [at |-> "closing", conn |-> gConn, tries |-> 0]]
        /\ overlap' = TRUE
        /\ UNCHANGED conn
     \/ /\ gConn = None
        /\ NextTry(Mqtt, "closeOld", "idle")
        /\ UNCHANGED <<conn, overlap>>
  /\ UNCHANGED <<gConn, gCtx, ctx, shell, lock, counts, timedOut>>

-----------------------------------------------------------------------------
(* WssClientListenerOnClose, on a loop thread or on a closing thread.      *)

\* The loop thread of c's context finds c closed.
LoopCloses(c, normal) ==
  LET x == conn[c].ctx
  IN /\ conn[c].state \in {"pending", "open"}
     /\ ctx[x] = "running" /\ At(x, "idle")
     /\ conn' = [conn EXCEPT ![c].state = "closed"]
     /\ IF conn[c].listens
        THEN Enter(x, IF normal THEN "checkNormal" ELSE "check", c)
        ELSE UNCHANGED <<th, overlap>>
     /\ UNCHANGED <<gConn, gCtx, ctx, shell, lock, counts, timedOut>>

\* WssClientCloseConn: nopoll_conn_close on a thread of its own.
WssClientCloseConn(c) ==
  /\ c \in Conns /\ At(c, "closing")
  /\ conn' = [conn EXCEPT ![c].state = "closed"]
  /\ Goto(c, IF conn[c].state # "closed" /\ conn[c].listens THEN "check" ELSE "idle")
  /\ UNCHANGED <<gConn, gCtx, ctx, shell, lock, counts, history>>

\* Bug: the reconnection leaves the shell of the lost connection running.
OnCloseKeepsShell(t) ==
  /\ th[t].at \in {"check", "checkNormal"}
  /\ Goto(t, IF gConn # None /\ th[t].conn # gConn THEN "idle"
             ELSE IF At(t, "checkNormal") THEN "finish" ELSE "retryNew")
  /\ UNCHANGED <<wss, shell, lock, counts, history>>

\* A listener of a connection that is no longer the current one does nothing; a
\* normal end, or one that forbids it, is not followed by a reconnection.
OnClose(t) ==
  /\ th[t].at \in {"check", "checkNormal"}
  /\ Goto(t, IF gConn # None /\ th[t].conn # gConn THEN "idle"
             ELSE IF At(t, "checkNormal") THEN "destroyFinish" ELSE "destroyRetry")
  /\ UNCHANGED <<wss, shell, lock, counts, history>>

\* WssClientConnect(HW_TRUE): no close listener yet, nothing is closed.
RetryNew(t) ==
  /\ At(t, "retryNew")
  /\ \/ NewConn(FALSE) /\ Goto(t, "retryReady")
     \/ gConn' = None /\ NextTry(t, "retryNew", "finish") /\ UNCHANGED conn
  /\ UNCHANGED <<gCtx, ctx, shell, lock, counts, history>>

\* A connection that is not ready in time is left as it is: it may be ready later.
RetryReady(t) ==
  /\ At(t, "retryReady")
  /\ \/ ReadyInTime /\ Goto(t, "listen") /\ UNCHANGED timedOut
     \/ /\ timedOut' = (timedOut \/ (gConn # None /\ conn[gConn].state # "closed"))
        /\ NextTry(t, "retryNew", "finish") /\ UNCHANGED conn
  /\ UNCHANGED <<gConn, gCtx, ctx, shell, lock, counts, overlap>>

\* Bug: a connection made by the reconnection gets no close listener.
ListenNot(t) ==
  /\ At(t, "listen")
  /\ Goto(t, "idle")
  /\ UNCHANGED <<wss, shell, lock, counts, history>>

Listen(t) ==
  /\ At(t, "listen")
  /\ conn' = IF gConn = None THEN conn ELSE [conn EXCEPT ![gConn].listens = TRUE]
  /\ Goto(t, "idle")
  /\ UNCHANGED <<gConn, gCtx, ctx, shell, lock, counts, history>>

\* The tunnel is given up.
Finish(t) ==
  /\ At(t, "finish")
  /\ gConn' = None /\ gCtx' = None
  /\ ctx' = [ctx EXCEPT ![conn[th[t].conn].ctx] = "freed"]
  /\ Goto(t, "idle")
  /\ UNCHANGED <<conn, shell, lock, counts, history>>

\* A handshake that was given up completes after all.
LateReady(c) ==
  /\ conn[c].state = "pending"
  /\ ctx[conn[c].ctx] = "running"
  /\ conn' = [conn EXCEPT ![c].state = "open"]
  /\ UNCHANGED <<gConn, gCtx, ctx, shell, lock, th, counts, history>>

-----------------------------------------------------------------------------
(* WssClientListenerOnMsg: the request for a login shell.                  *)

\* SSHClientCreate for a request that can be parsed.
OnConnectRequest(x, c) ==
  /\ ctx[x] = "running" /\ At(x, "idle")
  /\ conn[c].state = "open" /\ conn[c].ctx = x /\ conn[c].hears
  /\ msgs < MaxMsgs
  /\ msgs' = msgs + 1
  /\ Enter(x, "destroyCreate", c)
  /\ UNCHANGED <<wss, shell, lock, notifies, timedOut>>

SshNew(x) ==
  /\ At(x, "sshNew")
  /\ LET s == Fresh({u \in Sessions : ssh[u] = "unused"})
     IN ssh' = [ssh EXCEPT ![s] = "live"] /\ session' = s
  /\ Goto(x, "sshConnect")
  /\ UNCHANGED <<wss, channel, reader, lock, counts, history>>

\* ssh_connect, the known host, the password: any may fail.
SshConnect(x) ==
  /\ At(x, "sshConnect")
  /\ Goto(x, IF session = None THEN "destroyFailed" ELSE "sshChannel")
     \/ Goto(x, "destroyFailed")
  /\ UNCHANGED <<wss, shell, lock, counts, history>>

\* SSHClientInteractiveShellSession: the channel, then the shell and the reader.
SshChannel(x) ==
  /\ At(x, "sshChannel")
  /\ channel' = session
  /\ Goto(x, IF session = None THEN "destroyFailed" ELSE "sshShell")
  /\ UNCHANGED <<wss, session, ssh, reader, lock, counts, history>>

SshShell(x) ==
  /\ At(x, "sshShell")
  /\ \/ /\ channel # None
        /\ reader' = [reader EXCEPT ![channel] = "reading"]
        /\ Goto(x, "idle")
     \/ Goto(x, "destroyFailed") /\ UNCHANGED reader
  /\ UNCHANGED <<wss, session, channel, ssh, lock, counts, history>>

-----------------------------------------------------------------------------
(* SSHClientRead, the thread of session s; it reads whatever g_SSHChannel  *)
(* is, again and again, and sends what it read over g_Conn.                *)

\* Reading of NULL fails and ends the thread.
ReadFails(s) ==
  /\ reader[s] = "reading" /\ lock = None
  /\ channel = None
  /\ reader' = [reader EXCEPT ![s] = "none"]
  /\ UNCHANGED <<wss, session, channel, ssh, lock, th, counts, history>>

\* The server closed the channel.  libssh calls SSHClientOnChannelClose inside the
\* read, and SSHClientSessionDestroy waits for the mutex that its caller holds.
SSHClientOnChannelClose(s) ==
  /\ reader[s] = "reading" /\ lock = None
  /\ channel # None
  /\ lock' = s
  /\ reader' = [reader EXCEPT ![s] = "callback"]
  /\ UNCHANGED <<wss, session, channel, ssh, th, counts, history>>

-----------------------------------------------------------------------------
Listener(t) ==
  \/ SSHClientSessionDestroy(t)
  \/ WssClientCloseConn(t) \/ OnClose(t) \/ RetryNew(t) \/ RetryReady(t) \/ Listen(t) \/ Finish(t)
  \/ SshNew(t) \/ SshConnect(t) \/ SshChannel(t) \/ SshShell(t)
Step(t) == Listener(t) \/ (t = Mqtt /\ (CloseOld \/ New \/ Ready))

Next ==
  \/ HandleTunnelMgr
  \/ \E t \in Threads : Step(t)
  \/ \E c \in Conns : LateReady(c) \/ \E normal \in BOOLEAN : LoopCloses(c, normal)
  \/ \E x \in Ctxs, c \in Conns : OnConnectRequest(x, c)
  \/ \E s \in Sessions : ReadFails(s) \/ SSHClientOnChannelClose(s)

\* Threads in a handler run and get the mutex, which readers hold briefly; what the
\* platform sends and the network does is open.
Fairness == WF_vars(\E t \in Threads : Step(t))

Spec == Init /\ [][Next]_vars
FairSpec == Spec /\ Fairness

-----------------------------------------------------------------------------
(* Properties.                                                             *)

\* A reader that closes the session inside its own read holds the mutex for ever.
Stuck == \E s \in Sessions : reader[s] = "callback"

\* "Only one connection will be established on one device, the new connection will
\* close the old one": no connection but g_Conn is open or being made.  This holds as
\* long as no two handlers have overlapped and no reconnect has timed out; a connect
\* that fails on the MQTT thread, a notification during a reconnection, and a
\* handshake that completes late each break it.
OneConnection ==
  ~ overlap /\ ~ timedOut =>
    \A c \in Conns : conn[c].state \in {"pending", "open"} => c = gConn

\* A tunnel that was lost is being restored or given up: g_Conn never stays a closed
\* connection that no handler knows of, unless handlers have overlapped.
ClosedIsNoticed ==
  ~ overlap /\ gConn # None /\ conn[gConn].state = "closed" => Busy # {}

\* A login shell never outlives the tunnel it was opened through: between handlers
\* that did not overlap there is a session only while the connection is open.
ShellNeedsTunnel ==
  ~ overlap /\ Busy = {} /\ session # None => gConn # None /\ conn[gConn].state = "open"

\* However handlers overlap, each ends, also those of the MQTT callback thread; except
\* when the server has closed a shell.
HandlersEnd == Busy # {} ~> Busy = {} \/ Stuck

\* "SSH idles for too long, the session will be closed": a session whose channel the
\* server closed is destroyed.  It is not.
IdleShellCloses == \A s \in Sessions : reader[s] = "callback" ~> session = None

=============================================================================
