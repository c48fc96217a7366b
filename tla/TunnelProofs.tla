---------------------------- MODULE TunnelProofs ----------------------------
(***************************************************************************)
(* The invariants of Tunnel, for any number of connections, contexts and   *)
(* sessions.                                                               *)
(*                                                                         *)
(* While no two handlers have overlapped, one thread at most is inside     *)
(* one, and the loop thread that is inside one is that of g_Ctx, which     *)
(* serves g_Conn: so nobody closes the connection under its hands.  The    *)
(* invariant says for every place of that thread what it has made sure of. *)
(***************************************************************************)
EXTENDS Tunnel, FiniteSetTheorems, TLAPS

\* A connection that the platform may still use, one whose closing somebody hears, and the state of g_Conn.
Live(c) == conn[c].state \in {"pending", "open"}
Known(c) == Live(c) /\ (conn[c].listens \/ conn[c].hears)
IsOpen == gConn # None /\ conn[gConn].state = "open"

\* Where the MQTT thread, a loop thread while it makes a shell, and any loop thread may be.
MqttPCs == {"idle", "closeOld", "destroyNew", "new", "ready"}
ShellPCs == {"destroyCreate", "sshNew", "sshConnect", "sshChannel", "sshShell", "destroyFailed"}
CtxPCs == PCs \ {"closeOld", "destroyNew", "new", "ready", "closing"}
\* Where the thread of WssClientCloseConn may be; it runs what a loop thread runs.
ConnPCs == {"idle", "closing", "check", "destroyRetry", "destroyFinish",
            "retryNew", "retryReady", "listen", "finish"}

\* Which thread may be where, and that a thread outside a handler holds nothing.
Roles ==
  /\ \A t \in Threads : th[t].at = "idle" => th[t] = Idle
  /\ th[Mqtt].at \in MqttPCs
  /\ \A x \in Ctxs : th[x].at \in CtxPCs
  /\ \A c \in Conns : th[c].at \in ConnPCs

\* The contexts and sessions that were given out, and the messages that still want a session.
UsedCtxs == {x \in Ctxs : ctx[x] # "unused"}
UsedSessions == {s \in Sessions : ssh[s] # "unused"}
Requests == {x \in Ctxs : th[x].at \in {"destroyCreate", "sshNew"}}

\* What is referred to was given out before.
Linked ==
  /\ \A c \in Conns : conn[c].state # "unused" => conn[c].ctx \in UsedCtxs
  /\ gCtx # None => gCtx \in UsedCtxs
  /\ gConn # None => conn[gConn].state # "unused"
  /\ session # None => session \in UsedSessions
  /\ \A t \in Ctxs \cup Conns : th[t].at # "idle" =>
       th[t].conn \in Conns /\ conn[th[t].conn].state # "unused"
  /\ \A c \in Conns : th[c].at # "idle" => th[c].conn = c

\* Every context was made for a notification of its own, every session for a message.
Counted ==
  /\ Cardinality(UsedCtxs) <= notifies
  /\ Cardinality(UsedSessions) + Cardinality(Requests) <= msgs

\* One thread at most is in a handler, and none that closes a connection.
Alone ==
  /\ \A t, u \in Threads : th[t].at # "idle" /\ th[u].at # "idle" => t = u
  /\ \A c \in Conns : th[c].at = "idle"

\* The current connection belongs to the current context.
Current == gConn # None => gCtx # None /\ conn[gConn].ctx = gCtx /\ conn[gConn].state # "unused"

\* A connection that has a listener is the current one.
KnownIsCurrent == \A c \in Conns : Known(c) => c = gConn

\* Outside handlers the connection is alive and its closing is listened for.
Rest ==
  (\A t \in Threads : th[t].at \in {"idle", "closeOld"}) =>
    /\ gConn # None => Live(gConn) /\ conn[gConn].listens
    /\ session # None => IsOpen

\* What the thread in WssClientCreate has made sure of.
Creating ==
  /\ th[Mqtt].at \in {"destroyNew", "new"} => gConn = None
  /\ th[Mqtt].at \in {"new", "ready"} => session = None
  /\ th[Mqtt].at = "ready" => gConn # None /\ Live(gConn) /\ conn[gConn].listens

\* What the loop thread has made sure of.
Looping ==
  \A x \in Ctxs :
    /\ th[x].at # "idle" => x = gCtx
    /\ th[x].at \in {"check", "checkNormal", "destroyRetry", "destroyFinish"} =>
         gConn # None /\ th[x].conn = gConn /\ conn[gConn].state = "closed"
    /\ th[x].at \in {"retryNew", "retryReady", "listen", "finish"} => session = None
    /\ th[x].at \in {"retryNew", "retryReady", "finish"} => (gConn # None => ~ Known(gConn))
    /\ th[x].at \in {"retryNew", "finish"} => (~ timedOut => (gConn # None => ~ Live(gConn)))
    /\ th[x].at = "retryReady" => gConn # None /\ Live(gConn)
    /\ th[x].at = "listen" => IsOpen
    /\ th[x].at \in ShellPCs => IsOpen /\ conn[gConn].listens

\* No connection but the current one is alive, unless a reconnect has timed out.
OnlyCurrent == ~ timedOut => \A c \in Conns : Live(c) => c = gConn

\* All of this as long as no two handlers have overlapped.
Undisturbed ==
  ~ overlap =>
    /\ Alone /\ Current /\ KnownIsCurrent /\ Rest /\ Creating /\ Looping /\ OnlyCurrent

\* The inductive invariant of the tunnel.
TunnelInvariant == TypeOK /\ Roles /\ Linked /\ Counted /\ Undisturbed

-----------------------------------------------------------------------------
\* A handle that is given out is one of those asked for.
LEMMA FreshIsIn ==
  ASSUME NEW S, S # {}
  PROVE  Fresh(S) \in S
BY DEF Fresh

\* The MQTT thread is none of the others.
LEMMA ThreadsDiffer == Mqtt \notin Ctxs /\ Mqtt \notin Conns /\ Ctxs \cap Conns = {}
BY TunnelAssumption DEF Mqtt

\* What a thread holds.
ThreadState == [at : PCs, conn : Conns \cup {None}, tries : 0..(RetryTimes - 1)]

\* What becomes of the threads when t goes on to one of the labels.
Moves(t, labels) ==
  /\ th' \in [Threads -> ThreadState]
  /\ \A u \in Threads \ {t} : th'[u] = th[u]
  /\ th'[t].at \in labels
  /\ th'[t].at = "idle" => th'[t] = Idle
  /\ th'[t].at # "idle" => th'[t].conn = th[t].conn

\* Every thread is in such a state.
LEMMA ThreadTyped == TypeOK => th \in [Threads -> ThreadState]
BY DEF TypeOK, ThreadState

\* So is a thread outside a handler.
LEMMA IdleTyped == Idle \in ThreadState /\ Idle.at = "idle"
BY TunnelAssumption DEF Idle, ThreadState, PCs

\* A thread that goes on keeps its connection; one that returns holds nothing.
LEMMA GotoMoves ==
  ASSUME TypeOK, NEW t \in Threads, NEW label \in PCs, Goto(t, label)
  PROVE  Moves(t, {label})
<1>1. th \in [Threads -> ThreadState]
  BY ThreadTyped
<1>2. CASE label = "idle"
  BY <1>1, <1>2, IdleTyped DEF Goto, Moved, Moves
<1>3. CASE label # "idle"
  <2>1. th' = [th EXCEPT ![t] = [th[t] EXCEPT !.at = label]]
    BY <1>3 DEF Goto, Moved
  <2>2. [th[t] EXCEPT !.at = label] \in ThreadState
    BY <1>1 DEF ThreadState
  <2>3. [th[t] EXCEPT !.at = label].at = label /\ [th[t] EXCEPT !.at = label].conn = th[t].conn
    BY <1>1 DEF ThreadState
  <2> QED BY <1>1, <1>3, <2>1, <2>2, <2>3 DEF Moves
<1> QED BY <1>2, <1>3

\* The retries of a loop stay below the limit.
LEMMA TriesInRange ==
  ASSUME TypeOK, NEW t \in Threads, NEW again \in PCs \ {"idle"}, NEW end \in PCs
  PROVE  /\ NextTried(t, again, end) \in [Threads -> ThreadState]
         /\ \A u \in Threads \ {t} : NextTried(t, again, end)[u] = th[u]
         /\ NextTried(t, again, end)[t].at \in {again, end}
         /\ NextTried(t, again, end)[t].at = "idle" => NextTried(t, again, end)[t] = Idle
         /\ NextTried(t, again, end)[t].at # "idle" => NextTried(t, again, end)[t].conn = th[t].conn
<1>1. th \in [Threads -> ThreadState] /\ RetryTimes \in Nat \ {0}
  BY ThreadTyped, TunnelAssumption
<1>2. CASE th[t].tries + 1 < RetryTimes
  <2>0. th[t] \in ThreadState /\ th[t].tries \in 0..(RetryTimes - 1) /\ th[t].tries + 1 \in 0..(RetryTimes - 1)
    BY <1>1, <1>2 DEF ThreadState
  <2> DEFINE tried == [th[t] EXCEPT !.at = again, !.tries = th[t].tries + 1]
  <2>1. NextTried(t, again, end) = [th EXCEPT ![t] = tried]
    BY <1>2 DEF NextTried
  <2>2. tried \in ThreadState /\ tried.at = again /\ tried.conn = th[t].conn
    BY <2>0 DEF ThreadState
  <2> HIDE DEF tried
  <2> QED BY <1>1, <2>1, <2>2
<1>3. CASE ~ (th[t].tries + 1 < RetryTimes)
  <2>1. NextTried(t, again, end) = [th EXCEPT ![t] = Moved(t, end)]
    BY <1>3 DEF NextTried
  <2>2. Moved(t, end) \in ThreadState /\ Moved(t, end).at = end
    BY <1>1, IdleTyped DEF Moved, ThreadState
  <2>3. end = "idle" => Moved(t, end) = Idle
    BY DEF Moved
  <2>4. end # "idle" => Moved(t, end).conn = th[t].conn
    BY <1>1 DEF Moved, ThreadState
  <2> QED BY <1>1, <2>1, <2>2, <2>3, <2>4
<1> QED BY <1>2, <1>3

\* A retry of a loop goes on with it or leaves it.
LEMMA RetryMoves ==
  ASSUME TypeOK, NEW t \in Threads, NEW again \in PCs \ {"idle"}, NEW end \in PCs, NextTry(t, again, end)
  PROVE  Moves(t, {again, end})
<1>1. th' = NextTried(t, again, end)
  BY DEF NextTry
<1> QED BY <1>1, TriesInRange DEF Moves

\* A thread enters a handler.
LEMMA EnterMoves ==
  ASSUME TypeOK, NEW t \in Threads, NEW label \in PCs, NEW c \in Conns \cup {None}, Enter(t, label, c)
  PROVE  /\ th' \in [Threads -> ThreadState]
         /\ \A u \in Threads \ {t} : th'[u] = th[u]
         /\ th'[t].at = label /\ th'[t].conn = c
         /\ overlap' \in BOOLEAN
         /\ ~ overlap' => ~ overlap /\ \A u \in Threads \ {t} : th[u] = Idle
<1>1. th \in [Threads -> ThreadState] /\ RetryTimes \in Nat \ {0}
  BY ThreadTyped, TunnelAssumption
<1>2. overlap' = (overlap \/ Busy \ {t} # {})
  BY DEF Enter
<1>3. overlap' \in BOOLEAN
  BY <1>2
<1>4. ~ overlap' => ~ overlap /\ Busy \ {t} = {}
  BY <1>2
<1>5. ~ overlap' => \A u \in Threads \ {t} : th[u] = Idle
  BY <1>4 DEF Busy
<1>6. [at |-> label, conn |-> c, tries |-> 0] \in ThreadState
  BY <1>1 DEF ThreadState
<1> QED BY <1>1, <1>3, <1>4, <1>5, <1>6 DEF Enter

\* There is a context for every notification ...
LEMMA ContextIsLeft ==
  ASSUME TypeOK, Counted, notifies < MaxNotifies
  PROVE  {y \in Ctxs : ctx[y] = "unused"} # {}
<1>1. IsFiniteSet(Ctxs) /\ MaxNotifies \in 0..Cardinality(Ctxs) /\ Cardinality(Ctxs) \in Nat
  BY TunnelAssumption, FS_CardinalityType
<1>2. SUFFICES ASSUME {y \in Ctxs : ctx[y] = "unused"} = {} PROVE FALSE
  OBVIOUS
<1>3. UsedCtxs = Ctxs
  BY <1>2 DEF UsedCtxs
<1> QED BY <1>1, <1>3 DEF Counted, TypeOK

\* ... and a session for every message.
LEMMA SessionIsLeft ==
  ASSUME TypeOK, Counted, NEW x \in Ctxs, th[x].at = "sshNew"
  PROVE  {u \in Sessions : ssh[u] = "unused"} # {}
<1>1. IsFiniteSet(Ctxs) /\ IsFiniteSet(Sessions) /\ MaxMsgs \in 0..Cardinality(Sessions) /\ Cardinality(Sessions) \in Nat
  BY TunnelAssumption, FS_CardinalityType
<1>2. SUFFICES ASSUME {u \in Sessions : ssh[u] = "unused"} = {} PROVE FALSE
  OBVIOUS
<1>3. UsedSessions = Sessions
  BY <1>2 DEF UsedSessions
<1>4. IsFiniteSet(Requests) /\ x \in Requests
  BY <1>1, FS_Subset DEF Requests
<1>5. Cardinality(Requests) \in Nat /\ Cardinality(Requests) # 0
  BY <1>4, FS_CardinalityType, FS_EmptySet
<1>6. msgs \in 0..MaxMsgs
  BY DEF TypeOK
<1>7. Cardinality(Sessions) + Cardinality(Requests) <= msgs
  BY <1>3 DEF Counted
<1> QED BY <1>1, <1>5, <1>6, <1>7

-----------------------------------------------------------------------------
\* Where every step of a thread in a handler leads.
LEMMA StepsMove ==
  ASSUME TypeOK, NEW t \in Threads
  PROVE  /\ SSHClientSessionDestroy(t) => Moves(t, {After[th[t].at]})
         /\ WssClientCloseConn(t) => Moves(t, {"check", "idle"})
         /\ OnClose(t) => Moves(t, {"idle", "destroyFinish", "destroyRetry"})
         /\ RetryNew(t) => Moves(t, {"retryReady", "retryNew", "finish"})
         /\ RetryReady(t) => Moves(t, {"listen", "retryNew", "finish"})
         /\ Listen(t) => Moves(t, {"idle"})
         /\ Finish(t) => Moves(t, {"idle"})
         /\ SshNew(t) => Moves(t, {"sshConnect"})
         /\ SshConnect(t) => Moves(t, {"destroyFailed", "sshChannel"})
         /\ SshChannel(t) => Moves(t, {"destroyFailed", "sshShell"})
         /\ SshShell(t) => Moves(t, {"destroyFailed", "idle"})
         /\ CloseOld => Moves(Mqtt, {"new", "destroyNew"})
         /\ New => Moves(Mqtt, {"ready", "closeOld", "idle"})
<1>0. /\ \A label \in PCs : Goto(t, label) => Moves(t, {label})
      /\ \A label \in PCs : Goto(Mqtt, label) => Moves(Mqtt, {label})
      /\ \A again \in PCs \ {"idle"}, end \in PCs : NextTry(t, again, end) => Moves(t, {again, end})
      /\ \A again \in PCs \ {"idle"}, end \in PCs : NextTry(Mqtt, again, end) => Moves(Mqtt, {again, end})
  BY GotoMoves, RetryMoves DEF Threads
<1>1. SSHClientSessionDestroy(t) => Moves(t, {After[th[t].at]})
  <2>1. ASSUME SSHClientSessionDestroy(t) PROVE After[th[t].at] \in PCs /\ Goto(t, After[th[t].at])
    BY <2>1 DEF SSHClientSessionDestroy, After, PCs
  <2> QED BY <1>0, <2>1
<1>2. WssClientCloseConn(t) => Moves(t, {"check", "idle"})
  <2>1. WssClientCloseConn(t) => Goto(t, "check") \/ Goto(t, "idle")
    BY DEF WssClientCloseConn
  <2> QED BY <1>0, <2>1 DEF PCs, Moves
<1>3. OnClose(t) => Moves(t, {"idle", "destroyFinish", "destroyRetry"})
  <2>1. OnClose(t) => Goto(t, "idle") \/ Goto(t, "destroyFinish") \/ Goto(t, "destroyRetry")
    BY DEF OnClose
  <2> QED BY <1>0, <2>1 DEF PCs, Moves
<1>4. RetryNew(t) => Moves(t, {"retryReady", "retryNew", "finish"})
  <2>1. RetryNew(t) => Goto(t, "retryReady") \/ NextTry(t, "retryNew", "finish")
    BY DEF RetryNew
  <2> QED BY <1>0, <2>1 DEF PCs, Moves
<1>5. RetryReady(t) => Moves(t, {"listen", "retryNew", "finish"})
  <2>1. RetryReady(t) => Goto(t, "listen") \/ NextTry(t, "retryNew", "finish")
    BY DEF RetryReady
  <2> QED BY <1>0, <2>1 DEF PCs, Moves
<1>6. Listen(t) => Moves(t, {"idle"})
  <2>1. Listen(t) => Goto(t, "idle")
    BY DEF Listen
  <2> QED BY <1>0, <2>1 DEF PCs, Moves
<1>7. Finish(t) => Moves(t, {"idle"})
  <2>1. Finish(t) => Goto(t, "idle")
    BY DEF Finish
  <2> QED BY <1>0, <2>1 DEF PCs, Moves
<1>8. SshNew(t) => Moves(t, {"sshConnect"})
  <2>1. SshNew(t) => Goto(t, "sshConnect")
    BY DEF SshNew
  <2> QED BY <1>0, <2>1 DEF PCs, Moves
<1>9. SshConnect(t) => Moves(t, {"destroyFailed", "sshChannel"})
  <2>1. SshConnect(t) => Goto(t, "destroyFailed") \/ Goto(t, "sshChannel")
    BY DEF SshConnect
  <2> QED BY <1>0, <2>1 DEF PCs, Moves
<1>10. SshChannel(t) => Moves(t, {"destroyFailed", "sshShell"})
  <2>1. SshChannel(t) => Goto(t, "destroyFailed") \/ Goto(t, "sshShell")
    BY DEF SshChannel
  <2> QED BY <1>0, <2>1 DEF PCs, Moves
<1>11. SshShell(t) => Moves(t, {"destroyFailed", "idle"})
  <2>1. SshShell(t) => Goto(t, "destroyFailed") \/ Goto(t, "idle")
    BY DEF SshShell
  <2> QED BY <1>0, <2>1 DEF PCs, Moves
<1>12. CloseOld => Moves(Mqtt, {"new", "destroyNew"})
  <2>1. CloseOld => Goto(Mqtt, "new") \/ Goto(Mqtt, "destroyNew")
    BY DEF CloseOld
  <2> QED BY <1>0, <2>1 DEF PCs, Moves
<1>13. New => Moves(Mqtt, {"ready", "closeOld", "idle"})
  <2>1. New => Goto(Mqtt, "ready") \/ NextTry(Mqtt, "closeOld", "idle")
    BY DEF New
  <2> QED BY <1>0, <2>1 DEF PCs, Moves
<1> QED BY <1>1, <1>2, <1>3, <1>4, <1>5, <1>6, <1>7, <1>8, <1>9, <1>10, <1>11, <1>12, <1>13

\* What becomes of the threads when a connect of the MQTT thread ends: it goes on, or
\* WssClientCloseConn is started.
LEMMA ReadyMoves ==
  ASSUME TypeOK, Ready
  PROVE  \/ Moves(Mqtt, {"closeOld", "idle"}) /\ UNCHANGED overlap
         \/ /\ gConn \in Conns /\ overlap' = TRUE
            /\ th' \in [Threads -> ThreadState]
            /\ \A u \in Threads \ {Mqtt, gConn} : th'[u] = th[u]
            /\ th'[Mqtt].at \in {"closeOld", "idle"}
            /\ th'[Mqtt].at = "idle" => th'[Mqtt] = Idle
            /\ th'[gConn].at = "closing"
<1>0. Mqtt \in Threads /\ "closeOld" \in PCs \ {"idle"} /\ "idle" \in PCs
  BY DEF Threads, PCs
<1>1. CASE Goto(Mqtt, "idle") /\ UNCHANGED overlap
  BY <1>0, <1>1, GotoMoves DEF Moves
<1>2. CASE NextTry(Mqtt, "closeOld", "idle") /\ UNCHANGED overlap
  BY <1>0, <1>2, RetryMoves
<1>3. CASE /\ gConn # None /\ overlap' = TRUE
           /\ th' = [NextTried(Mqtt, "closeOld", "idle") EXCEPT
                       ![gConn] = [at |-> "closing", conn |-> gConn, tries |-> 0]]
  <2> DEFINE tried == NextTried(Mqtt, "closeOld", "idle")
  <2>1. /\ tried \in [Threads -> ThreadState]
        /\ \A u \in Threads \ {Mqtt} : tried[u] = th[u]
        /\ tried[Mqtt].at \in {"closeOld", "idle"}
        /\ tried[Mqtt].at = "idle" => tried[Mqtt] = Idle
    BY <1>0, TriesInRange
  <2>2. gConn \in Conns /\ gConn # Mqtt /\ gConn \in Threads
    BY <1>3, ThreadsDiffer DEF TypeOK, Threads
  <2>3. [at |-> "closing", conn |-> gConn, tries |-> 0] \in ThreadState
    BY <2>2, TunnelAssumption DEF ThreadState, PCs
  <2>4. th' = [tried EXCEPT ![gConn] = [at |-> "closing", conn |-> gConn, tries |-> 0]]
    BY <1>3
  <2> HIDE DEF tried
  <2>5. th' \in [Threads -> ThreadState] /\ th'[gConn] = [at |-> "closing", conn |-> gConn, tries |-> 0]
    BY <2>1, <2>2, <2>3, <2>4
  <2>6. \A u \in Threads \ {gConn} : th'[u] = tried[u]
    BY <2>1, <2>4
  <2>7. th'[Mqtt] = tried[Mqtt] /\ \A u \in Threads \ {Mqtt, gConn} : th'[u] = th[u]
    BY <1>0, <2>1, <2>2, <2>6
  <2> QED BY <1>3, <2>1, <2>2, <2>5, <2>7
<1> QED BY <1>1, <1>2, <1>3 DEF Ready

\* What is known of a connection.
ConnState == [state : {"unused", "pending", "open", "closed"},
              ctx : Ctxs \cup {None}, listens : BOOLEAN, hears : BOOLEAN]

\* No connection but c changes, and c keeps its context.
Changes(c) ==
  /\ conn' \in [Conns -> ConnState]
  /\ \A d \in Conns \ {c} : conn'[d] = conn[d]
  /\ conn'[c].ctx = conn[c].ctx

\* Every connection is in such a state.
LEMMA ConnTyped == TypeOK => conn \in [Conns -> ConnState]
BY DEF TypeOK, ConnState

\* Making a connection.
LEMMA NewConnMakes ==
  ASSUME TypeOK, NEW listens \in BOOLEAN, NewConn(listens)
  PROVE  \E c \in Conns :
           /\ conn[c].state = "unused" /\ gConn' = c /\ gCtx \in Ctxs
           /\ conn' \in [Conns -> ConnState]
           /\ \A d \in Conns \ {c} : conn'[d] = conn[d]
           /\ conn'[c] = [state |-> "pending", ctx |-> gCtx, listens |-> listens, hears |-> FALSE]
<1> DEFINE c == Fresh({d \in Conns : conn[d].state = "unused"})
           new == [state |-> "pending", ctx |-> gCtx, listens |-> listens, hears |-> FALSE]
<1>1. c \in Conns /\ conn[c].state = "unused"
  BY FreshIsIn DEF NewConn
<1>2. gCtx \in Ctxs /\ gConn' = c /\ conn' = [conn EXCEPT ![c] = new]
  BY DEF NewConn, TypeOK
<1>3. new \in ConnState
  BY <1>2 DEF ConnState
<1> HIDE DEF c, new
<1>4. conn' \in [Conns -> ConnState] /\ conn'[c] = new /\ \A d \in Conns \ {c} : conn'[d] = conn[d]
  BY ConnTyped, <1>1, <1>2, <1>3
<1> QED BY <1>1, <1>2, <1>4 DEF new

\* A connection that goes on to a state.
LEMMA StateChanges ==
  ASSUME TypeOK, NEW c \in Conns, NEW s \in {"pending", "open", "closed"},
         conn' = [conn EXCEPT ![c].state = s]
  PROVE  /\ Changes(c) /\ conn'[c].state = s
         /\ conn'[c].listens = conn[c].listens /\ conn'[c].hears = conn[c].hears
<1>1. [conn[c] EXCEPT !.state = s] \in ConnState
  BY ConnTyped DEF ConnState
<1> QED BY <1>1, ConnTyped DEF Changes, ConnState

\* A connection that is ready gets its message listener.
LEMMA ReadyChanges ==
  ASSUME TypeOK, ReadyInTime
  PROVE  /\ gConn \in Conns /\ conn[gConn].state \in {"pending", "open"}
         /\ Changes(gConn) /\ conn'[gConn].state = "open" /\ conn'[gConn].hears
         /\ conn'[gConn].listens = conn[gConn].listens
<1>1. gConn \in Conns
  BY DEF ReadyInTime, TypeOK
<1>2. [conn[gConn] EXCEPT !.state = "open", !.hears = TRUE] \in ConnState
  BY <1>1, ConnTyped DEF ConnState
<1>3. conn' = [conn EXCEPT ![gConn] = [conn[gConn] EXCEPT !.state = "open", !.hears = TRUE]]
  BY <1>1, ConnTyped DEF ReadyInTime
<1> QED BY <1>1, <1>2, <1>3, ConnTyped DEF Changes, ConnState, ReadyInTime

\* The old connection is closed without its listener.
LEMMA CloseOldChanges ==
  ASSUME TypeOK, CloseOld, gConn # None
  PROVE  gConn \in Conns /\ Changes(gConn) /\ conn'[gConn].state = "closed"
<1>1. gConn \in Conns
  BY DEF TypeOK
<1>2. [conn[gConn] EXCEPT !.listens = FALSE, !.state = "closed"] \in ConnState
  BY <1>1, ConnTyped DEF ConnState
<1>3. conn' = [conn EXCEPT ![gConn] = [conn[gConn] EXCEPT !.listens = FALSE, !.state = "closed"]]
  BY <1>1, ConnTyped DEF CloseOld
<1> QED BY <1>1, <1>2, <1>3, ConnTyped DEF Changes, ConnState

-----------------------------------------------------------------------------
\* Every step keeps the types: the libraries have a handle for every call that takes one.
LEMMA TypeStep == TypeOK /\ Roles /\ Linked /\ Counted /\ [Next]_vars => TypeOK'
<1> SUFFICES ASSUME TypeOK, Roles, Linked, Counted, [Next]_vars PROVE TypeOK'
  OBVIOUS
<1> USE DEF wss, shell, counts, history
<1>1. CASE HandleTunnelMgr
  <2>1. Mqtt \in Threads /\ "closeOld" \in PCs
    BY DEF PCs, Threads
  <2>2. Enter(Mqtt, "closeOld", None) /\ notifies' \in 0..MaxNotifies
    BY <1>1, TunnelAssumption DEF HandleTunnelMgr, TypeOK
  <2>3. th' \in [Threads -> ThreadState] /\ overlap' \in BOOLEAN
    BY <2>1, <2>2, EnterMoves DEF ThreadState
  <2>4. Fresh({y \in Ctxs : ctx[y] = "unused"}) \in Ctxs
    BY <1>1, ContextIsLeft, FreshIsIn DEF HandleTunnelMgr
  <2> QED BY <1>1, <2>2, <2>3, <2>4 DEF HandleTunnelMgr, TypeOK, ThreadState
<1>2. CASE CloseOld
  <2>1. th' \in [Threads -> ThreadState]
    BY <1>2, StepsMove DEF Moves, Threads, ThreadState
  <2>2. conn' \in [Conns -> ConnState]
    BY <1>2, ConnTyped, CloseOldChanges DEF CloseOld, Changes
  <2> QED BY <1>2, <2>1, <2>2 DEF CloseOld, TypeOK, ThreadState, ConnState
<1>3. CASE New
  <2>1. th' \in [Threads -> ThreadState]
    BY <1>3, StepsMove DEF Moves, Threads, ThreadState
  <2>2. conn' \in [Conns -> ConnState] /\ gConn' \in Conns \cup {None}
    <3>1. CASE NewConn(TRUE)
      BY <3>1, NewConnMakes
    <3>2. CASE gConn' = None /\ UNCHANGED conn
      BY <3>2, ConnTyped
    <3> QED BY <1>3, <3>1, <3>2 DEF New
  <2> QED BY <1>3, <2>1, <2>2 DEF New, TypeOK, ThreadState, ConnState
<1>4. CASE Ready
  <2>1. th' \in [Threads -> ThreadState] /\ overlap' \in BOOLEAN
    BY <1>4, ReadyMoves DEF Moves, ThreadState, TypeOK
  <2>2. conn' \in [Conns -> ConnState]
    BY <1>4, ConnTyped, ReadyChanges DEF Ready, Changes
  <2> QED BY <1>4, <2>1, <2>2 DEF Ready, TypeOK, ThreadState, ConnState
<1>5. ASSUME NEW t \in Threads, SSHClientSessionDestroy(t) PROVE TypeOK'
  <2>1. th' \in [Threads -> ThreadState]
    BY <1>5, StepsMove DEF Moves, ThreadState
  <2> QED BY <1>5, <2>1 DEF SSHClientSessionDestroy, TypeOK, ThreadState
<1>6. ASSUME NEW t \in Threads, WssClientCloseConn(t) PROVE TypeOK'
  <2>1. th' \in [Threads -> ThreadState]
    BY <1>6, StepsMove DEF Moves, ThreadState
  <2> QED BY <1>6, <2>1, ZenonT(60) DEF WssClientCloseConn, TypeOK, ThreadState
<1>7. ASSUME NEW t \in Threads, OnClose(t) PROVE TypeOK'
  <2>1. th' \in [Threads -> ThreadState]
    BY <1>7, StepsMove DEF Moves, ThreadState
  <2> QED BY <1>7, <2>1 DEF OnClose, TypeOK, ThreadState
<1>8. ASSUME NEW t \in Threads, RetryNew(t) PROVE TypeOK'
  <2>1. th' \in [Threads -> ThreadState]
    BY <1>8, StepsMove DEF Moves, ThreadState
  <2>2. conn' \in [Conns -> ConnState] /\ gConn' \in Conns \cup {None}
    <3>1. CASE NewConn(FALSE)
      BY <3>1, NewConnMakes
    <3>2. CASE gConn' = None /\ UNCHANGED conn
      BY <3>2, ConnTyped
    <3> QED BY <1>8, <3>1, <3>2 DEF RetryNew
  <2> QED BY <1>8, <2>1, <2>2 DEF RetryNew, TypeOK, ThreadState, ConnState
<1>9. ASSUME NEW t \in Threads, RetryReady(t) PROVE TypeOK'
  <2>1. th' \in [Threads -> ThreadState]
    BY <1>9, StepsMove DEF Moves, ThreadState
  <2>2. conn' \in [Conns -> ConnState]
    BY <1>9, ConnTyped, ReadyChanges DEF RetryReady, Changes
  <2> QED BY <1>9, <2>1, <2>2 DEF RetryReady, TypeOK, ThreadState, ConnState
<1>10. ASSUME NEW t \in Threads, Listen(t) PROVE TypeOK'
  <2>1. th' \in [Threads -> ThreadState]
    BY <1>10, StepsMove DEF Moves, ThreadState
  <2> QED BY <1>10, <2>1, ZenonT(60) DEF Listen, TypeOK, ThreadState
<1>11. ASSUME NEW t \in Threads, Finish(t) PROVE TypeOK'
  <2>1. th' \in [Threads -> ThreadState]
    BY <1>11, StepsMove DEF Moves, ThreadState
  <2> QED BY <1>11, <2>1 DEF Finish, TypeOK, ThreadState
<1>12. ASSUME NEW t \in Threads, SshNew(t) PROVE TypeOK'
  <2>1. th' \in [Threads -> ThreadState]
    BY <1>12, StepsMove DEF Moves, ThreadState
  <2>2. t \in Ctxs
    BY <1>12 DEF SshNew, At, Roles, Threads, MqttPCs, ConnPCs
  <2>3. Fresh({u \in Sessions : ssh[u] = "unused"}) \in Sessions
    BY <1>12, <2>2, SessionIsLeft, FreshIsIn DEF SshNew, At
  <2> QED BY <1>12, <2>1, <2>3 DEF SshNew, TypeOK, ThreadState
<1>13. ASSUME NEW t \in Threads, SshConnect(t) PROVE TypeOK'
  <2>1. th' \in [Threads -> ThreadState]
    BY <1>13, StepsMove DEF Moves, ThreadState
  <2> QED BY <1>13, <2>1 DEF SshConnect, TypeOK, ThreadState
<1>14. ASSUME NEW t \in Threads, SshChannel(t) PROVE TypeOK'
  <2>1. th' \in [Threads -> ThreadState]
    BY <1>14, StepsMove DEF Moves, ThreadState
  <2> QED BY <1>14, <2>1 DEF SshChannel, TypeOK, ThreadState
<1>15. ASSUME NEW t \in Threads, SshShell(t) PROVE TypeOK'
  <2>1. th' \in [Threads -> ThreadState]
    BY <1>15, StepsMove DEF Moves, ThreadState
  <2> QED BY <1>15, <2>1 DEF SshShell, TypeOK, ThreadState
<1>16. ASSUME NEW c \in Conns, LateReady(c) PROVE TypeOK'
  BY <1>16 DEF LateReady, TypeOK
<1>17. ASSUME NEW c \in Conns, NEW normal \in BOOLEAN, LoopCloses(c, normal) PROVE TypeOK'
  <2>0. conn[c].ctx \in Threads /\ "check" \in PCs /\ "checkNormal" \in PCs
    BY <1>17 DEF LoopCloses, PCs, Threads, Linked, UsedCtxs
  <2>1. th' \in [Threads -> ThreadState] /\ overlap' \in BOOLEAN
    <3>1. CASE Enter(conn[c].ctx, IF normal THEN "checkNormal" ELSE "check", c)
      BY <2>0, <3>1, EnterMoves DEF ThreadState
    <3>2. CASE UNCHANGED <<th, overlap>>
      BY <3>2, ThreadTyped DEF TypeOK
    <3> QED BY <1>17, <3>1, <3>2 DEF LoopCloses
  <2>2. UNCHANGED <<gConn, gCtx, ctx, session, channel, ssh, reader, lock, notifies, msgs, timedOut>>
    BY <1>17 DEF LoopCloses
  <2>3. conn' = [conn EXCEPT ![c].state = "closed"]
    BY <1>17 DEF LoopCloses
  <2> QED BY <1>17, <2>1, <2>2, <2>3, ZenonT(60) DEF TypeOK, ThreadState
<1>18. ASSUME NEW x \in Ctxs, NEW c \in Conns, OnConnectRequest(x, c) PROVE TypeOK'
  <2>0. x \in Threads /\ "destroyCreate" \in PCs /\ Enter(x, "destroyCreate", c) /\ msgs' \in 0..MaxMsgs
    BY <1>18, TunnelAssumption DEF OnConnectRequest, PCs, Threads, TypeOK
  <2>1. th' \in [Threads -> ThreadState] /\ overlap' \in BOOLEAN
    BY <2>0, EnterMoves DEF ThreadState
  <2> QED BY <1>18, <2>0, <2>1 DEF OnConnectRequest, TypeOK, ThreadState
<1>19. ASSUME NEW s \in Sessions, ReadFails(s) PROVE TypeOK'
  BY <1>19 DEF ReadFails, TypeOK
<1>20. ASSUME NEW s \in Sessions, SSHClientOnChannelClose(s) PROVE TypeOK'
  BY <1>20 DEF SSHClientOnChannelClose, TypeOK
<1>21. CASE UNCHANGED vars
  BY <1>21 DEF vars, TypeOK
<1> QED
  BY <1>1, <1>2, <1>3, <1>4, <1>5, <1>6, <1>7, <1>8, <1>9, <1>10, <1>11, <1>12, <1>13, <1>14,
     <1>15, <1>16, <1>17, <1>18, <1>19, <1>20, <1>21
  DEF Next, Step, Listener

-----------------------------------------------------------------------------
\* A thread that moves among the places of its kind keeps the roles.
LEMMA RolesKept ==
  ASSUME TypeOK, Roles, NEW t \in Threads, NEW labels, Moves(t, labels),
         t = Mqtt => labels \subseteq MqttPCs, t \in Ctxs => labels \subseteq CtxPCs,
         t \in Conns => labels \subseteq ConnPCs
  PROVE  Roles'
<1>1. \A u \in Threads : u # t => th'[u] = th[u]
  BY DEF Moves
<1>2. th'[t].at \in labels /\ (th'[t].at = "idle" => th'[t] = Idle)
  BY DEF Moves
<1> QED BY <1>1, <1>2, ThreadsDiffer DEF Roles, Threads

\* Each thread stays in its role.
LEMMA RolesStep == TypeOK /\ Roles /\ Linked /\ [Next]_vars => Roles'
<1> SUFFICES ASSUME TypeOK, Roles, Linked, [Next]_vars PROVE Roles'
  OBVIOUS
<1> USE DEF history, shell, wss
<1>0. /\ \A t \in Threads : \A labels :
           Moves(t, labels) /\ (t = Mqtt => labels \subseteq MqttPCs) /\ (t \in Ctxs => labels \subseteq CtxPCs)
             /\ (t \in Conns => labels \subseteq ConnPCs) => Roles'
      /\ Mqtt \in Threads
      /\ \A t \in Threads : /\ t = Mqtt => th[t].at \in MqttPCs
                            /\ t \in Ctxs => th[t].at \in CtxPCs
                            /\ t \in Conns => th[t].at \in ConnPCs
  <2>1. \A t \in Threads : \A labels :
           Moves(t, labels) /\ (t = Mqtt => labels \subseteq MqttPCs) /\ (t \in Ctxs => labels \subseteq CtxPCs)
             /\ (t \in Conns => labels \subseteq ConnPCs) => Roles'
    BY RolesKept
  <2>2. /\ Mqtt \in Threads
        /\ \A t \in Threads : /\ t = Mqtt => th[t].at \in MqttPCs
                              /\ t \in Ctxs => th[t].at \in CtxPCs
                              /\ t \in Conns => th[t].at \in ConnPCs
    BY DEF Threads, Roles
  <2> QED BY <2>1, <2>2
<1>1. CASE HandleTunnelMgr
  <2>1. Enter(Mqtt, "closeOld", None) /\ "closeOld" \in PCs
    BY <1>1 DEF HandleTunnelMgr, PCs
  <2>2. \A u \in Threads \ {Mqtt} : th'[u] = th[u]
    BY <1>0, <2>1, EnterMoves
  <2>3. th'[Mqtt].at = "closeOld"
    BY <1>0, <2>1, EnterMoves
  <2> QED BY <1>0, <2>2, <2>3, ThreadsDiffer DEF Roles, Threads, MqttPCs
<1>2. CASE CloseOld
  <2>1. Moves(Mqtt, {"new", "destroyNew"})
    BY <1>2, <1>0, StepsMove
  <2> QED BY <1>0, <2>1, ThreadsDiffer DEF MqttPCs
<1>3. CASE New
  <2>1. Moves(Mqtt, {"ready", "closeOld", "idle"})
    BY <1>3, <1>0, StepsMove
  <2> QED BY <1>0, <2>1, ThreadsDiffer DEF MqttPCs
<1>4. CASE Ready
  <2>1. CASE Moves(Mqtt, {"closeOld", "idle"})
    BY <1>0, <2>1, ThreadsDiffer DEF MqttPCs
  <2>2. CASE ~ Moves(Mqtt, {"closeOld", "idle"})
    <3>1. /\ gConn \in Conns /\ \A u \in Threads \ {Mqtt, gConn} : th'[u] = th[u]
          /\ th'[Mqtt].at \in {"closeOld", "idle"} /\ (th'[Mqtt].at = "idle" => th'[Mqtt] = Idle)
          /\ th'[gConn].at = "closing"
      BY <1>4, <2>2, ReadyMoves
    <3> QED BY <3>1, ThreadsDiffer DEF Roles, Threads, MqttPCs, ConnPCs
  <2> QED BY <2>1, <2>2
<1>5. ASSUME NEW t \in Threads, SSHClientSessionDestroy(t) PROVE Roles'
  <2>1. Moves(t, {After[th[t].at]})
    BY <1>5, StepsMove
  <2>2. /\ t = Mqtt => {After[th[t].at]} \subseteq MqttPCs
        /\ t \in Ctxs => {After[th[t].at]} \subseteq CtxPCs
        /\ t \in Conns => {After[th[t].at]} \subseteq ConnPCs
    BY <1>0, <1>5, ThreadsDiffer
    DEF SSHClientSessionDestroy, At, MqttPCs, CtxPCs, ConnPCs, PCs, After
  <2> QED BY <1>0, <2>1, <2>2
<1>6. ASSUME NEW t \in Threads, WssClientCloseConn(t) PROVE Roles'
  <2>1. Moves(t, {"check", "idle"})
    BY <1>6, StepsMove
  <2>2. /\ t = Mqtt => {"check", "idle"} \subseteq MqttPCs
        /\ t \in Ctxs => {"check", "idle"} \subseteq CtxPCs
        /\ t \in Conns => {"check", "idle"} \subseteq ConnPCs
    BY <1>0, <1>6, ThreadsDiffer DEF WssClientCloseConn, At, MqttPCs, CtxPCs, ConnPCs, PCs
  <2> QED BY <1>0, <2>1, <2>2
<1>7. ASSUME NEW t \in Threads, OnClose(t) PROVE Roles'
  <2>1. Moves(t, {"idle", "destroyFinish", "destroyRetry"})
    BY <1>7, StepsMove
  <2>2. /\ t = Mqtt => {"idle", "destroyFinish", "destroyRetry"} \subseteq MqttPCs
        /\ t \in Ctxs => {"idle", "destroyFinish", "destroyRetry"} \subseteq CtxPCs
        /\ t \in Conns => {"idle", "destroyFinish", "destroyRetry"} \subseteq ConnPCs
    BY <1>0, <1>7, ThreadsDiffer DEF OnClose, At, MqttPCs, CtxPCs, ConnPCs, PCs
  <2> QED BY <1>0, <2>1, <2>2
<1>8. ASSUME NEW t \in Threads, RetryNew(t) PROVE Roles'
  <2>1. Moves(t, {"retryReady", "retryNew", "finish"})
    BY <1>8, StepsMove
  <2>2. /\ t = Mqtt => {"retryReady", "retryNew", "finish"} \subseteq MqttPCs
        /\ t \in Ctxs => {"retryReady", "retryNew", "finish"} \subseteq CtxPCs
        /\ t \in Conns => {"retryReady", "retryNew", "finish"} \subseteq ConnPCs
    BY <1>0, <1>8, ThreadsDiffer DEF RetryNew, At, MqttPCs, CtxPCs, ConnPCs, PCs
  <2> QED BY <1>0, <2>1, <2>2
<1>9. ASSUME NEW t \in Threads, RetryReady(t) PROVE Roles'
  <2>1. Moves(t, {"listen", "retryNew", "finish"})
    BY <1>9, StepsMove
  <2>2. /\ t = Mqtt => {"listen", "retryNew", "finish"} \subseteq MqttPCs
        /\ t \in Ctxs => {"listen", "retryNew", "finish"} \subseteq CtxPCs
        /\ t \in Conns => {"listen", "retryNew", "finish"} \subseteq ConnPCs
    BY <1>0, <1>9, ThreadsDiffer DEF RetryReady, At, MqttPCs, CtxPCs, ConnPCs, PCs
  <2> QED BY <1>0, <2>1, <2>2
<1>10. ASSUME NEW t \in Threads, Listen(t) PROVE Roles'
  <2>1. Moves(t, {"idle"})
    BY <1>10, StepsMove
  <2>2. /\ t = Mqtt => {"idle"} \subseteq MqttPCs
        /\ t \in Ctxs => {"idle"} \subseteq CtxPCs
        /\ t \in Conns => {"idle"} \subseteq ConnPCs
    BY <1>0, <1>10, ThreadsDiffer DEF Listen, At, MqttPCs, CtxPCs, ConnPCs, PCs
  <2> QED BY <1>0, <2>1, <2>2
<1>11. ASSUME NEW t \in Threads, Finish(t) PROVE Roles'
  <2>1. Moves(t, {"idle"})
    BY <1>11, StepsMove
  <2>2. /\ t = Mqtt => {"idle"} \subseteq MqttPCs
        /\ t \in Ctxs => {"idle"} \subseteq CtxPCs
        /\ t \in Conns => {"idle"} \subseteq ConnPCs
    BY <1>0, <1>11, ThreadsDiffer DEF Finish, At, MqttPCs, CtxPCs, ConnPCs, PCs
  <2> QED BY <1>0, <2>1, <2>2
<1>12. ASSUME NEW t \in Threads, SshNew(t) PROVE Roles'
  <2>1. Moves(t, {"sshConnect"})
    BY <1>12, StepsMove
  <2>2. /\ t = Mqtt => {"sshConnect"} \subseteq MqttPCs
        /\ t \in Ctxs => {"sshConnect"} \subseteq CtxPCs
        /\ t \in Conns => {"sshConnect"} \subseteq ConnPCs
    BY <1>0, <1>12, ThreadsDiffer DEF SshNew, At, MqttPCs, CtxPCs, ConnPCs, PCs
  <2> QED BY <1>0, <2>1, <2>2
<1>13. ASSUME NEW t \in Threads, SshConnect(t) PROVE Roles'
  <2>1. Moves(t, {"destroyFailed", "sshChannel"})
    BY <1>13, StepsMove
  <2>2. /\ t = Mqtt => {"destroyFailed", "sshChannel"} \subseteq MqttPCs
        /\ t \in Ctxs => {"destroyFailed", "sshChannel"} \subseteq CtxPCs
        /\ t \in Conns => {"destroyFailed", "sshChannel"} \subseteq ConnPCs
    BY <1>0, <1>13, ThreadsDiffer DEF SshConnect, At, MqttPCs, CtxPCs, ConnPCs, PCs
  <2> QED BY <1>0, <2>1, <2>2
<1>14. ASSUME NEW t \in Threads, SshChannel(t) PROVE Roles'
  <2>1. Moves(t, {"destroyFailed", "sshShell"})
    BY <1>14, StepsMove
  <2>2. /\ t = Mqtt => {"destroyFailed", "sshShell"} \subseteq MqttPCs
        /\ t \in Ctxs => {"destroyFailed", "sshShell"} \subseteq CtxPCs
        /\ t \in Conns => {"destroyFailed", "sshShell"} \subseteq ConnPCs
    BY <1>0, <1>14, ThreadsDiffer DEF SshChannel, At, MqttPCs, CtxPCs, ConnPCs, PCs
  <2> QED BY <1>0, <2>1, <2>2
<1>15. ASSUME NEW t \in Threads, SshShell(t) PROVE Roles'
  <2>1. Moves(t, {"destroyFailed", "idle"})
    BY <1>15, StepsMove
  <2>2. /\ t = Mqtt => {"destroyFailed", "idle"} \subseteq MqttPCs
        /\ t \in Ctxs => {"destroyFailed", "idle"} \subseteq CtxPCs
        /\ t \in Conns => {"destroyFailed", "idle"} \subseteq ConnPCs
    BY <1>0, <1>15, ThreadsDiffer DEF SshShell, At, MqttPCs, CtxPCs, ConnPCs, PCs
  <2> QED BY <1>0, <2>1, <2>2
<1>16. ASSUME NEW c \in Conns, LateReady(c) PROVE Roles'
  BY <1>16 DEF LateReady, Roles
<1>17. ASSUME NEW c \in Conns, NEW normal \in BOOLEAN, LoopCloses(c, normal) PROVE Roles'
  <2> DEFINE x == conn[c].ctx
  <2>0. x \in Ctxs
    BY <1>17 DEF LoopCloses, Linked, UsedCtxs
  <2>1. CASE Enter(x, IF normal THEN "checkNormal" ELSE "check", c)
    <3>1. (IF normal THEN "checkNormal" ELSE "check") \in PCs /\ x \in Threads
      BY <2>0 DEF PCs, Threads
    <3>2. \A u \in Threads \ {x} : th'[u] = th[u]
      BY <2>1, <3>1, EnterMoves
    <3>3. th'[x].at \in {"checkNormal", "check"}
      BY <2>1, <3>1, EnterMoves
    <3> HIDE DEF x
    <3> QED BY <2>0, <3>1, <3>2, <3>3, ThreadsDiffer DEF Roles, Threads, CtxPCs, PCs
  <2>2. CASE UNCHANGED th
    BY <2>2 DEF Roles
  <2> QED BY <1>17, <2>1, <2>2 DEF LoopCloses
<1>18. ASSUME NEW x \in Ctxs, NEW c \in Conns, OnConnectRequest(x, c) PROVE Roles'
  <2>1. Enter(x, "destroyCreate", c) /\ "destroyCreate" \in PCs /\ x \in Threads
    BY <1>18 DEF OnConnectRequest, PCs, Threads
  <2>2. \A u \in Threads \ {x} : th'[u] = th[u]
    BY <2>1, EnterMoves
  <2>3. th'[x].at = "destroyCreate"
    BY <2>1, EnterMoves
  <2> QED BY <1>0, <2>1, <2>2, <2>3, ThreadsDiffer DEF Roles, Threads, CtxPCs, PCs
<1>19. ASSUME NEW s \in Sessions, ReadFails(s) PROVE Roles'
  BY <1>19 DEF ReadFails, Roles
<1>20. ASSUME NEW s \in Sessions, SSHClientOnChannelClose(s) PROVE Roles'
  BY <1>20 DEF SSHClientOnChannelClose, Roles
<1>21. CASE UNCHANGED vars
  BY <1>21 DEF vars, Roles
<1> QED
  BY <1>1, <1>2, <1>3, <1>4, <1>5, <1>6, <1>7, <1>8, <1>9, <1>10, <1>11, <1>12, <1>13, <1>14,
     <1>15, <1>16, <1>17, <1>18, <1>19, <1>20, <1>21
  DEF Next, Step, Listener

\* What is referred to was given out.
LEMMA LinkedStep == TypeOK /\ Roles /\ Linked /\ Counted /\ [Next]_vars => Linked'
<1> SUFFICES ASSUME TypeOK, Roles, Linked, Counted, [Next]_vars PROVE Linked'
  OBVIOUS
<1> USE DEF history, shell, wss, UsedCtxs, UsedSessions
<1>0. /\ Mqtt \in Threads /\ Mqtt \notin Ctxs \cup Conns /\ Ctxs \cap Conns = {}
      /\ \A t \in Ctxs \cup Conns : t \in Threads
      /\ conn \in [Conns -> ConnState] /\ ctx \in [Ctxs -> {"unused", "running", "freed"}]
      /\ gConn \in Conns \cup {None} /\ session \in Sessions \cup {None}
      /\ ssh \in [Sessions -> {"unused", "live", "freed"}]
  BY ThreadsDiffer DEF Threads, TypeOK, ConnState
<1>1. CASE HandleTunnelMgr
  <2>1. \A u \in Ctxs \cup Conns : th'[u] = th[u]
    <3>1. Enter(Mqtt, "closeOld", None) /\ "closeOld" \in PCs
      BY <1>1 DEF HandleTunnelMgr, PCs
    <3> QED BY <1>0, <3>1, EnterMoves
  <2>2. Fresh({y \in Ctxs : ctx[y] = "unused"}) \in Ctxs
    BY <1>1, ContextIsLeft, FreshIsIn DEF HandleTunnelMgr
  <2> QED BY <1>0, <1>1, <2>1, <2>2 DEF HandleTunnelMgr, Linked
<1>2. CASE CloseOld
  <2>1. \A u \in Ctxs \cup Conns : th'[u].at # "idle" => th'[u].conn = th[u].conn /\ th[u].at # "idle"
    BY <1>0, <1>2, StepsMove DEF Moves, CloseOld, At
  <2>2. \A d \in Conns : conn[d].state # "unused" => conn'[d].state # "unused" /\ conn'[d].ctx = conn[d].ctx
    BY <1>0, <1>2, CloseOldChanges DEF CloseOld, Changes
  <2>3. \A d \in Conns : conn[d].state = "unused" => conn'[d].state = "unused"
    BY <1>0, <1>2, CloseOldChanges DEF CloseOld, Changes, Linked, At
  <2> QED BY <1>0, <1>2, <2>1, <2>2, <2>3 DEF CloseOld, Linked
<1>3. CASE New
  <2>1. \A u \in Ctxs \cup Conns : th'[u].at # "idle" => th'[u].conn = th[u].conn /\ th[u].at # "idle"
    BY <1>0, <1>3, StepsMove DEF Moves, New, At
  <2>2. UNCHANGED <<gCtx, ctx, session, ssh>>
    BY <1>3 DEF New
  <2>3. CASE NewConn(TRUE)
    <3>0. TRUE \in BOOLEAN
      OBVIOUS
    <3>1. PICK c \in Conns : /\ conn[c].state = "unused" /\ gConn' = c /\ gCtx \in Ctxs
                             /\ \A d \in Conns \ {c} : conn'[d] = conn[d]
                             /\ conn'[c] = [state |-> "pending", ctx |-> gCtx, listens |-> TRUE, hears |-> FALSE]
      BY <2>3, NewConnMakes
    <3>2. gCtx # None
      BY <3>1, TunnelAssumption
    <3> QED BY <1>0, <2>1, <2>2, <3>1, <3>2 DEF Linked
  <2>4. CASE gConn' = None /\ UNCHANGED conn
    BY <1>0, <2>1, <2>2, <2>4 DEF Linked
  <2> QED BY <1>3, <2>3, <2>4 DEF New
<1>4. CASE Ready
  <2>1. UNCHANGED <<gConn, gCtx, ctx, session, ssh>>
    BY <1>4 DEF Ready
  <2>2. /\ \A d \in Conns : conn[d].state # "unused" => conn'[d].state # "unused" /\ conn'[d].ctx = conn[d].ctx
        /\ \A d \in Conns : conn[d].state = "unused" => conn'[d].state = "unused"
    <3>1. CASE ReadyInTime
      BY <1>0, <3>1, ReadyChanges DEF Changes
    <3> QED BY <1>0, <1>4, <3>1 DEF Ready
  <2>3. \A u \in Ctxs \cup Conns : th'[u].at # "idle" =>
          th'[u].conn \in Conns /\ conn[th'[u].conn].state # "unused" /\ (u \in Conns => th'[u].conn = u)
    <3>1. CASE \A u \in Ctxs \cup Conns : th'[u] = th[u]
      BY <3>1 DEF Linked
    <3>2. CASE /\ gConn # None
               /\ th' = [NextTried(Mqtt, "closeOld", "idle") EXCEPT
                           ![gConn] = [at |-> "closing", conn |-> gConn, tries |-> 0]]
      <4> DEFINE tried == NextTried(Mqtt, "closeOld", "idle")
      <4>1. tried \in [Threads -> ThreadState] /\ \A u \in Threads \ {Mqtt} : tried[u] = th[u]
        BY <1>0, TriesInRange DEF PCs
      <4>2. th' = [tried EXCEPT ![gConn] = [at |-> "closing", conn |-> gConn, tries |-> 0]]
        BY <3>2
      <4> HIDE DEF tried
      <4>3. gConn \in Conns
        BY <1>0, <3>2
      <4>4. \A u \in Ctxs \cup Conns : u # gConn => th'[u] = th[u]
        BY <1>0, <4>1, <4>2
      <4>5. th'[gConn].conn = gConn
        BY <1>0, <4>1, <4>2, <4>3
      <4> QED BY <3>2, <4>3, <4>4, <4>5 DEF Linked
    <3>3. CASE Moves(Mqtt, {"closeOld", "idle"})
      BY <1>0, <3>1, <3>3 DEF Moves
    <3>4. Goto(Mqtt, "idle") \/ NextTry(Mqtt, "closeOld", "idle") => Moves(Mqtt, {"closeOld", "idle"})
      BY <1>0, GotoMoves, RetryMoves DEF PCs, Moves
    <3> QED BY <1>4, <3>2, <3>3, <3>4 DEF Ready
  <2> QED BY <1>0, <2>1, <2>2, <2>3 DEF Linked
<1>5. ASSUME NEW t \in Threads, SSHClientSessionDestroy(t) PROVE Linked'
  <2>1. \A u \in Ctxs \cup Conns : th'[u].at # "idle" => th'[u].conn = th[u].conn /\ th[u].at # "idle"
    BY <1>0, <1>5, StepsMove DEF Moves, SSHClientSessionDestroy, After, At
  <2> QED BY <1>0, <1>5, <2>1 DEF SSHClientSessionDestroy, Linked
<1>6. ASSUME NEW t \in Threads, WssClientCloseConn(t) PROVE Linked'
  <2>1. \A u \in Ctxs \cup Conns : th'[u].at # "idle" => th'[u].conn = th[u].conn /\ th[u].at # "idle"
    BY <1>0, <1>6, StepsMove DEF Moves, WssClientCloseConn, At
  <2>2. \A d \in Conns : conn[d].state # "unused" => conn'[d].state # "unused" /\ conn'[d].ctx = conn[d].ctx
    BY <1>0, <1>6, StateChanges DEF WssClientCloseConn, Changes
  <2>3. \A d \in Conns : conn[d].state = "unused" => conn'[d].state = "unused"
    BY <1>0, <1>6, StateChanges DEF WssClientCloseConn, Changes, Linked, At
  <2> QED BY <1>0, <1>6, <2>1, <2>2, <2>3 DEF WssClientCloseConn, Linked
<1>7. ASSUME NEW t \in Threads, OnClose(t) PROVE Linked'
  <2>1. \A u \in Ctxs \cup Conns : th'[u].at # "idle" => th'[u].conn = th[u].conn /\ th[u].at # "idle"
    BY <1>0, <1>7, StepsMove DEF Moves, OnClose, At
  <2> QED BY <1>0, <1>7, <2>1 DEF OnClose, Linked
<1>8. ASSUME NEW t \in Threads, RetryNew(t) PROVE Linked'
  <2>1. \A u \in Ctxs \cup Conns : th'[u].at # "idle" => th'[u].conn = th[u].conn /\ th[u].at # "idle"
    BY <1>0, <1>8, StepsMove DEF Moves, RetryNew, At
  <2>2. UNCHANGED <<gCtx, ctx, session, ssh>>
    BY <1>8 DEF RetryNew
  <2>3. CASE NewConn(FALSE)
    <3>0. FALSE \in BOOLEAN
      OBVIOUS
    <3>1. PICK c \in Conns : /\ conn[c].state = "unused" /\ gConn' = c /\ gCtx \in Ctxs
                             /\ \A d \in Conns \ {c} : conn'[d] = conn[d]
                             /\ conn'[c] = [state |-> "pending", ctx |-> gCtx, listens |-> FALSE, hears |-> FALSE]
      BY <2>3, NewConnMakes
    <3>2. gCtx # None
      BY <3>1, TunnelAssumption
    <3> QED BY <1>0, <2>1, <2>2, <3>1, <3>2 DEF Linked
  <2>4. CASE gConn' = None /\ UNCHANGED conn
    BY <1>0, <2>1, <2>2, <2>4 DEF Linked
  <2> QED BY <1>8, <2>3, <2>4 DEF RetryNew
<1>9. ASSUME NEW t \in Threads, RetryReady(t) PROVE Linked'
  <2>1. \A u \in Ctxs \cup Conns : th'[u].at # "idle" => th'[u].conn = th[u].conn /\ th[u].at # "idle"
    BY <1>0, <1>9, StepsMove DEF Moves, RetryReady, At
  <2>2. \A d \in Conns : conn[d].state # "unused" => conn'[d].state # "unused" /\ conn'[d].ctx = conn[d].ctx
    BY <1>0, <1>9, ReadyChanges DEF RetryReady, Changes
  <2>3. \A d \in Conns : conn[d].state = "unused" => conn'[d].state = "unused"
    BY <1>0, <1>9, ReadyChanges DEF RetryReady, Changes, Linked, At
  <2> QED BY <1>0, <1>9, <2>1, <2>2, <2>3 DEF RetryReady, Linked
<1>10. ASSUME NEW t \in Threads, Listen(t) PROVE Linked'
  <2>1. \A u \in Ctxs \cup Conns : th'[u].at # "idle" => th'[u].conn = th[u].conn /\ th[u].at # "idle"
    BY <1>0, <1>10, StepsMove DEF Moves, Listen, At
  <2> QED BY <1>0, <1>10, <2>1 DEF Listen, Linked
<1>11. ASSUME NEW t \in Threads, Finish(t) PROVE Linked'
  <2>1. \A u \in Ctxs \cup Conns : th'[u].at # "idle" => th'[u].conn = th[u].conn /\ th[u].at # "idle"
    BY <1>0, <1>11, StepsMove DEF Moves, Finish, At
  <2> QED BY <1>0, <1>11, <2>1 DEF Finish, Linked
<1>12. ASSUME NEW t \in Threads, SshNew(t) PROVE Linked'
  <2>1. \A u \in Ctxs \cup Conns : th'[u].at # "idle" => th'[u].conn = th[u].conn /\ th[u].at # "idle"
    BY <1>0, <1>12, StepsMove DEF Moves, SshNew, At
  <2>2. t \in Ctxs
    BY <1>12 DEF SshNew, At, Roles, Threads, MqttPCs, ConnPCs
  <2>3. Fresh({u \in Sessions : ssh[u] = "unused"}) \in Sessions
    BY <1>12, <2>2, SessionIsLeft, FreshIsIn DEF SshNew, At
  <2> QED BY <1>0, <1>12, <2>1, <2>3 DEF SshNew, Linked
<1>13. ASSUME NEW t \in Threads, SshConnect(t) PROVE Linked'
  <2>1. \A u \in Ctxs \cup Conns : th'[u].at # "idle" => th'[u].conn = th[u].conn /\ th[u].at # "idle"
    BY <1>0, <1>13, StepsMove DEF Moves, SshConnect, At
  <2> QED BY <1>0, <1>13, <2>1 DEF SshConnect, Linked
<1>14. ASSUME NEW t \in Threads, SshChannel(t) PROVE Linked'
  <2>1. \A u \in Ctxs \cup Conns : th'[u].at # "idle" => th'[u].conn = th[u].conn /\ th[u].at # "idle"
    BY <1>0, <1>14, StepsMove DEF Moves, SshChannel, At
  <2> QED BY <1>0, <1>14, <2>1 DEF SshChannel, Linked
<1>15. ASSUME NEW t \in Threads, SshShell(t) PROVE Linked'
  <2>1. \A u \in Ctxs \cup Conns : th'[u].at # "idle" => th'[u].conn = th[u].conn /\ th[u].at # "idle"
    BY <1>0, <1>15, StepsMove DEF Moves, SshShell, At
  <2> QED BY <1>0, <1>15, <2>1 DEF SshShell, Linked
<1>16. ASSUME NEW c \in Conns, LateReady(c) PROVE Linked'
  <2>1. /\ \A d \in Conns : conn[d].state # "unused" => conn'[d].state # "unused" /\ conn'[d].ctx = conn[d].ctx
        /\ \A d \in Conns : conn[d].state = "unused" => conn'[d].state = "unused"
    BY <1>16, StateChanges DEF LateReady, Changes
  <2> QED BY <1>0, <1>16, <2>1 DEF LateReady, Linked
<1>17. ASSUME NEW c \in Conns, NEW normal \in BOOLEAN, LoopCloses(c, normal) PROVE Linked'
  <2> DEFINE x == conn[c].ctx
  <2>0. x \in Ctxs /\ x \in Threads
    BY <1>0, <1>17 DEF LoopCloses, Linked
  <2>1. /\ \A d \in Conns : conn[d].state # "unused" => conn'[d].state # "unused" /\ conn'[d].ctx = conn[d].ctx
        /\ \A d \in Conns : conn[d].state = "unused" => conn'[d].state = "unused"
    BY <1>17, StateChanges DEF LoopCloses, Changes
  <2>2. UNCHANGED <<gConn, gCtx, ctx, session, ssh>>
    BY <1>17 DEF LoopCloses
  <2>3. \A u \in Ctxs \cup Conns : th'[u].at # "idle" =>
          th'[u].conn \in Conns /\ conn[th'[u].conn].state # "unused" /\ (u \in Conns => th'[u].conn = u)
    <3>1. CASE Enter(x, IF normal THEN "checkNormal" ELSE "check", c)
      <4>1. (IF normal THEN "checkNormal" ELSE "check") \in PCs
        BY DEF PCs
      <4>2. \A u \in Threads \ {x} : th'[u] = th[u]
        BY <2>0, <3>1, <4>1, EnterMoves
      <4>3. th'[x].conn = c
        BY <2>0, <3>1, <4>1, EnterMoves
      <4>4. conn[c].state # "unused"
        BY <1>17 DEF LoopCloses
      <4> HIDE DEF x
      <4> QED BY <1>0, <2>0, <4>2, <4>3, <4>4 DEF Linked
    <3>2. CASE UNCHANGED th
      BY <3>2 DEF Linked
    <3> QED BY <1>17, <3>1, <3>2 DEF LoopCloses
  <2> QED BY <1>0, <2>1, <2>2, <2>3 DEF Linked
<1>18. ASSUME NEW x \in Ctxs, NEW c \in Conns, OnConnectRequest(x, c) PROVE Linked'
  <2>1. Enter(x, "destroyCreate", c) /\ "destroyCreate" \in PCs
    BY <1>18 DEF OnConnectRequest, PCs
  <2>2. \A u \in Threads \ {x} : th'[u] = th[u]
    BY <1>0, <2>1, EnterMoves
  <2>3. th'[x].conn = c
    BY <1>0, <2>1, EnterMoves
  <2> QED BY <1>0, <1>18, <2>2, <2>3 DEF OnConnectRequest, Linked
<1>19. ASSUME NEW s \in Sessions, ReadFails(s) PROVE Linked'
  BY <1>19 DEF ReadFails, Linked
<1>20. ASSUME NEW s \in Sessions, SSHClientOnChannelClose(s) PROVE Linked'
  BY <1>20 DEF SSHClientOnChannelClose, Linked
<1>21. CASE UNCHANGED vars
  BY <1>21 DEF vars, Linked
<1> QED
  BY <1>1, <1>2, <1>3, <1>4, <1>5, <1>6, <1>7, <1>8, <1>9, <1>10, <1>11, <1>12, <1>13, <1>14,
     <1>15, <1>16, <1>17, <1>18, <1>19, <1>20, <1>21
  DEF Next, Step, Listener

\* The notifications and messages count what was given out.
LEMMA CountedStep == TypeOK /\ Roles /\ Linked /\ Counted /\ [Next]_vars => Counted'
<1> SUFFICES ASSUME TypeOK, Roles, Linked, Counted, [Next]_vars PROVE Counted'
  OBVIOUS
<1> USE DEF history, shell, wss, counts
<1>0. /\ Mqtt \in Threads /\ Mqtt \notin Ctxs /\ Ctxs \subseteq Threads /\ Ctxs \cap Conns = {}
      /\ notifies \in Nat /\ msgs \in Nat
      /\ IsFiniteSet(UsedCtxs) /\ IsFiniteSet(UsedSessions) /\ IsFiniteSet(Requests)
      /\ Cardinality(UsedCtxs) \in Nat /\ Cardinality(UsedSessions) \in Nat /\ Cardinality(Requests) \in Nat
  <2>1. IsFiniteSet(UsedCtxs) /\ IsFiniteSet(UsedSessions) /\ IsFiniteSet(Requests)
    BY TunnelAssumption, FS_Subset DEF UsedCtxs, UsedSessions, Requests
  <2> QED BY <2>1, ThreadsDiffer, FS_CardinalityType DEF Threads, TypeOK
<1>a. ASSUME UNCHANGED counts, UsedCtxs' \subseteq UsedCtxs, UsedSessions' \subseteq UsedSessions,
             Requests' \subseteq Requests
      PROVE  Counted'
  <2>1. /\ IsFiniteSet(UsedCtxs') /\ IsFiniteSet(UsedSessions') /\ IsFiniteSet(Requests')
        /\ Cardinality(UsedCtxs') <= Cardinality(UsedCtxs)
        /\ Cardinality(UsedSessions') <= Cardinality(UsedSessions)
        /\ Cardinality(Requests') <= Cardinality(Requests)
    BY <1>0, <1>a, FS_Subset
  <2>2. Cardinality(UsedCtxs') \in Nat /\ Cardinality(UsedSessions') \in Nat /\ Cardinality(Requests') \in Nat
    BY <2>1, FS_CardinalityType
  <2> QED BY <1>0, <1>a, <2>1, <2>2 DEF Counted
<1>b. ASSUME UNCHANGED <<ctx, ssh>> PROVE UsedCtxs' = UsedCtxs /\ UsedSessions' = UsedSessions
  BY <1>b DEF UsedCtxs, UsedSessions
<1>c. ASSUME NEW t \in Threads, NEW labels, Moves(t, labels), labels \cap {"destroyCreate", "sshNew"} = {}
      PROVE  Requests' \subseteq Requests
  BY <1>0, <1>c DEF Requests, Moves
<1>1. CASE HandleTunnelMgr
  <2> DEFINE x == Fresh({y \in Ctxs : ctx[y] = "unused"})
  <2>1. Requests' = Requests
    <3>1. Enter(Mqtt, "closeOld", None) /\ "closeOld" \in PCs
      BY <1>1 DEF HandleTunnelMgr, PCs
    <3>2. \A u \in Ctxs : th'[u] = th[u]
      BY <1>0, <3>1, EnterMoves
    <3> QED BY <3>2 DEF Requests
  <2>2. x \in Ctxs /\ ctx[x] = "unused"
    BY <1>1, ContextIsLeft, FreshIsIn DEF HandleTunnelMgr
  <2>3. /\ UNCHANGED <<ssh, msgs>> /\ notifies' = notifies + 1 /\ UsedSessions' = UsedSessions
        /\ ctx' = ctx \/ ctx' = [ctx EXCEPT ![x] = "running"]
    BY <1>1 DEF HandleTunnelMgr, UsedSessions
  <2> HIDE DEF x
  <2>4. UsedCtxs' = UsedCtxs \/ (UsedCtxs' = UsedCtxs \cup {x} /\ x \notin UsedCtxs)
    BY <2>2, <2>3 DEF UsedCtxs, TypeOK
  <2>5. Cardinality(UsedCtxs') <= Cardinality(UsedCtxs) + 1 /\ Cardinality(UsedCtxs') \in Nat
    <3>1. CASE UsedCtxs' = UsedCtxs
      BY <1>0, <3>1
    <3>2. CASE UsedCtxs' = UsedCtxs \cup {x} /\ x \notin UsedCtxs
      <4>1. Cardinality(UsedCtxs') = Cardinality(UsedCtxs) + 1
        BY <1>0, <3>2, FS_AddElement
      <4> QED BY <1>0, <4>1
    <3> QED BY <2>4, <3>1, <3>2
  <2> QED BY <1>0, <2>1, <2>3, <2>5 DEF Counted
<1>2. CASE CloseOld
  <2>1. Moves(Mqtt, {"new", "destroyNew"})
    BY <1>0, <1>2, StepsMove
  <2>2. Requests' \subseteq Requests
    BY <1>0, <1>c, <2>1
  <2>3. UNCHANGED <<ctx, ssh, notifies, msgs>>
    BY <1>2 DEF CloseOld
  <2> QED BY <1>a, <1>b, <2>2, <2>3
<1>3. CASE New
  <2>1. Moves(Mqtt, {"ready", "closeOld", "idle"})
    BY <1>0, <1>3, StepsMove
  <2>2. Requests' \subseteq Requests
    BY <1>0, <1>c, <2>1
  <2>3. UNCHANGED <<ctx, ssh, notifies, msgs>>
    BY <1>3 DEF New
  <2> QED BY <1>a, <1>b, <2>2, <2>3
<1>4. CASE Ready
  <2>1. Requests' \subseteq Requests
    BY <1>0, <1>4, ReadyMoves DEF Moves, Requests
  <2>2. UNCHANGED <<ctx, ssh, notifies, msgs>>
    BY <1>4 DEF Ready
  <2> QED BY <1>a, <1>b, <2>1, <2>2
<1>5. ASSUME NEW t \in Threads, SSHClientSessionDestroy(t) PROVE Counted'
  <2>1. Moves(t, {After[th[t].at]})
    BY <1>5, StepsMove
  <2>2. Requests' \subseteq Requests
    <3>1. th'[t].at = "sshNew" => th[t].at = "destroyCreate"
      BY <1>5, <2>1 DEF SSHClientSessionDestroy, Moves, After
    <3>2. th'[t].at # "destroyCreate"
      BY <1>5, <2>1 DEF SSHClientSessionDestroy, Moves, After
    <3> QED BY <1>0, <2>1, <3>1, <3>2 DEF Requests, Moves
  <2>3. UNCHANGED <<ctx, notifies, msgs>> /\ ssh' \in {ssh, [ssh EXCEPT ![session] = "freed"]}
        /\ (session = None => ssh' = ssh)
    BY <1>5 DEF SSHClientSessionDestroy
  <2>4. UsedSessions' \subseteq UsedSessions
    BY <2>3 DEF UsedSessions, TypeOK, Linked
  <2>5. UsedCtxs' = UsedCtxs
    BY <2>3 DEF UsedCtxs
  <2> QED BY <1>a, <2>2, <2>3, <2>4, <2>5
<1>6. ASSUME NEW t \in Threads, WssClientCloseConn(t) PROVE Counted'
  <2>1. Moves(t, {"check", "idle"})
    BY <1>6, StepsMove
  <2>2. Requests' \subseteq Requests
    BY <1>c, <2>1
  <2>3. UNCHANGED <<ctx, ssh, notifies, msgs>>
    BY <1>6 DEF WssClientCloseConn
  <2> QED BY <1>a, <1>b, <2>2, <2>3
<1>7. ASSUME NEW t \in Threads, OnClose(t) PROVE Counted'
  <2>1. Moves(t, {"idle", "destroyFinish", "destroyRetry"})
    BY <1>7, StepsMove
  <2>2. Requests' \subseteq Requests
    BY <1>c, <2>1
  <2>3. UNCHANGED <<ctx, ssh, notifies, msgs>>
    BY <1>7 DEF OnClose
  <2> QED BY <1>a, <1>b, <2>2, <2>3
<1>8. ASSUME NEW t \in Threads, RetryNew(t) PROVE Counted'
  <2>1. Moves(t, {"retryReady", "retryNew", "finish"})
    BY <1>8, StepsMove
  <2>2. Requests' \subseteq Requests
    BY <1>c, <2>1
  <2>3. UNCHANGED <<ctx, ssh, notifies, msgs>>
    BY <1>8 DEF RetryNew
  <2> QED BY <1>a, <1>b, <2>2, <2>3
<1>9. ASSUME NEW t \in Threads, RetryReady(t) PROVE Counted'
  <2>1. Moves(t, {"listen", "retryNew", "finish"})
    BY <1>9, StepsMove
  <2>2. Requests' \subseteq Requests
    BY <1>c, <2>1
  <2>3. UNCHANGED <<ctx, ssh, notifies, msgs>>
    BY <1>9 DEF RetryReady
  <2> QED BY <1>a, <1>b, <2>2, <2>3
<1>10. ASSUME NEW t \in Threads, Listen(t) PROVE Counted'
  <2>1. Moves(t, {"idle"})
    BY <1>10, StepsMove
  <2>2. Requests' \subseteq Requests
    BY <1>c, <2>1
  <2>3. UNCHANGED <<ctx, ssh, notifies, msgs>>
    BY <1>10 DEF Listen
  <2> QED BY <1>a, <1>b, <2>2, <2>3
<1>11. ASSUME NEW t \in Threads, Finish(t) PROVE Counted'
  <2>1. Moves(t, {"idle"})
    BY <1>11, StepsMove
  <2>2. Requests' \subseteq Requests
    BY <1>c, <2>1
  <2>3. UNCHANGED <<ssh, notifies, msgs>> /\ UsedSessions' = UsedSessions
    BY <1>11 DEF Finish, UsedSessions
  <2>4. conn[th[t].conn].ctx \in UsedCtxs
    BY <1>11 DEF Finish, At, Linked, Roles, Threads, MqttPCs
  <2>5. UsedCtxs' \subseteq UsedCtxs
    BY <1>11, <2>4 DEF Finish, UsedCtxs, TypeOK
  <2> QED BY <1>a, <2>2, <2>3, <2>5
<1>12. ASSUME NEW t \in Threads, SshNew(t) PROVE Counted'
  <2> DEFINE s == Fresh({u \in Sessions : ssh[u] = "unused"})
  <2>1. t \in Ctxs /\ th[t].at = "sshNew"
    BY <1>12 DEF SshNew, At, Roles, Threads, MqttPCs, ConnPCs
  <2>2. s \in Sessions /\ ssh[s] = "unused"
    BY <2>1, SessionIsLeft, FreshIsIn
  <2>3. ssh' = [ssh EXCEPT ![s] = "live"] /\ UNCHANGED <<ctx, notifies, msgs>>
    BY <1>12 DEF SshNew
  <2> HIDE DEF s
  <2>4. UsedSessions' = UsedSessions \cup {s} /\ s \notin UsedSessions
    BY <2>2, <2>3 DEF UsedSessions, TypeOK
  <2>5. Moves(t, {"sshConnect"})
    BY <1>12, StepsMove
  <2>6. Requests' = Requests \ {t} /\ t \in Requests
    BY <1>0, <2>1, <2>5 DEF Requests, Moves
  <2>7. Cardinality(UsedSessions') = Cardinality(UsedSessions) + 1
    BY <1>0, <2>4, FS_AddElement
  <2>8. Cardinality(Requests') = Cardinality(Requests) - 1
    BY <1>0, <2>6, FS_RemoveElement
  <2>9. UsedCtxs' = UsedCtxs
    BY <2>3 DEF UsedCtxs
  <2> QED BY <1>0, <2>3, <2>7, <2>8, <2>9 DEF Counted
<1>13. ASSUME NEW t \in Threads, SshConnect(t) PROVE Counted'
  <2>1. Moves(t, {"destroyFailed", "sshChannel"})
    BY <1>13, StepsMove
  <2>2. Requests' \subseteq Requests
    BY <1>c, <2>1
  <2>3. UNCHANGED <<ctx, ssh, notifies, msgs>>
    BY <1>13 DEF SshConnect
  <2> QED BY <1>a, <1>b, <2>2, <2>3
<1>14. ASSUME NEW t \in Threads, SshChannel(t) PROVE Counted'
  <2>1. Moves(t, {"destroyFailed", "sshShell"})
    BY <1>14, StepsMove
  <2>2. Requests' \subseteq Requests
    BY <1>c, <2>1
  <2>3. UNCHANGED <<ctx, ssh, notifies, msgs>>
    BY <1>14 DEF SshChannel
  <2> QED BY <1>a, <1>b, <2>2, <2>3
<1>15. ASSUME NEW t \in Threads, SshShell(t) PROVE Counted'
  <2>1. Moves(t, {"destroyFailed", "idle"})
    BY <1>15, StepsMove
  <2>2. Requests' \subseteq Requests
    BY <1>c, <2>1
  <2>3. UNCHANGED <<ctx, ssh, notifies, msgs>>
    BY <1>15 DEF SshShell
  <2> QED BY <1>a, <1>b, <2>2, <2>3
<1>16. ASSUME NEW c \in Conns, LateReady(c) PROVE Counted'
  <2>1. UNCHANGED <<ctx, ssh, notifies, msgs, th>>
    BY <1>16 DEF LateReady
  <2>2. Requests' = Requests
    BY <2>1 DEF Requests
  <2> QED BY <1>a, <1>b, <2>1, <2>2
<1>17. ASSUME NEW c \in Conns, NEW normal \in BOOLEAN, LoopCloses(c, normal) PROVE Counted'
  <2> DEFINE x == conn[c].ctx
  <2>1. x \in Ctxs /\ x \in Threads
    BY <1>0, <1>17 DEF LoopCloses, Linked, UsedCtxs
  <2>2. Requests' \subseteq Requests
    <3>1. CASE Enter(x, IF normal THEN "checkNormal" ELSE "check", c)
      <4>1. (IF normal THEN "checkNormal" ELSE "check") \in PCs
        BY DEF PCs
      <4>2. \A u \in Threads \ {x} : th'[u] = th[u]
        BY <2>1, <3>1, <4>1, EnterMoves
      <4>3. th'[x].at \in {"checkNormal", "check"}
        BY <2>1, <3>1, <4>1, EnterMoves
      <4> HIDE DEF x
      <4> QED BY <1>0, <4>2, <4>3 DEF Requests
    <3>2. CASE UNCHANGED th
      BY <3>2 DEF Requests
    <3> QED BY <1>17, <3>1, <3>2 DEF LoopCloses
  <2>3. UNCHANGED <<ctx, ssh, notifies, msgs>>
    BY <1>17 DEF LoopCloses
  <2> QED BY <1>a, <1>b, <2>2, <2>3
<1>18. ASSUME NEW x \in Ctxs, NEW c \in Conns, OnConnectRequest(x, c) PROVE Counted'
  <2>1. Enter(x, "destroyCreate", c) /\ "destroyCreate" \in PCs /\ th[x].at = "idle"
    BY <1>18 DEF OnConnectRequest, PCs, At
  <2>2. \A u \in Threads \ {x} : th'[u] = th[u]
    BY <1>0, <2>1, EnterMoves
  <2>3. th'[x].at = "destroyCreate"
    BY <1>0, <2>1, EnterMoves
  <2>4. Requests' = Requests \cup {x} /\ x \notin Requests
    BY <1>0, <2>1, <2>2, <2>3 DEF Requests
  <2>5. Cardinality(Requests') = Cardinality(Requests) + 1
    BY <1>0, <2>4, FS_AddElement
  <2>6. UNCHANGED <<ctx, ssh, notifies>> /\ msgs' = msgs + 1
    BY <1>18 DEF OnConnectRequest
  <2> QED BY <1>0, <1>b, <2>5, <2>6 DEF Counted
<1>19. ASSUME NEW s \in Sessions, ReadFails(s) PROVE Counted'
  <2>1. UNCHANGED <<ctx, ssh, notifies, msgs, th>>
    BY <1>19 DEF ReadFails
  <2>2. Requests' = Requests
    BY <2>1 DEF Requests
  <2> QED BY <1>a, <1>b, <2>1, <2>2
<1>20. ASSUME NEW s \in Sessions, SSHClientOnChannelClose(s) PROVE Counted'
  <2>1. UNCHANGED <<ctx, ssh, notifies, msgs, th>>
    BY <1>20 DEF SSHClientOnChannelClose
  <2>2. Requests' = Requests
    BY <2>1 DEF Requests
  <2> QED BY <1>a, <1>b, <2>1, <2>2
<1>21. CASE UNCHANGED vars
  <2>1. UNCHANGED <<ctx, ssh, notifies, msgs, th>>
    BY <1>21 DEF vars
  <2>2. Requests' = Requests
    BY <2>1 DEF Requests
  <2> QED BY <1>a, <1>b, <2>1, <2>2
<1> QED
  BY <1>1, <1>2, <1>3, <1>4, <1>5, <1>6, <1>7, <1>8, <1>9, <1>10, <1>11, <1>12, <1>13, <1>14,
     <1>15, <1>16, <1>17, <1>18, <1>19, <1>20, <1>21
  DEF Next, Step, Listener

-----------------------------------------------------------------------------
\* Handlers that do not overlap do not disturb each other.
LEMMA UndisturbedStep == TunnelInvariant /\ [Next]_vars => Undisturbed'
<1> DEFINE Result == Alone /\ Current /\ KnownIsCurrent /\ Rest /\ Creating /\ Looping /\ OnlyCurrent
<1> SUFFICES ASSUME TunnelInvariant, [Next]_vars, ~ overlap'
             PROVE  Result'
  BY DEF Undisturbed
<1> USE DEF TunnelInvariant, history, shell, wss, counts
<1>s. ASSUME ~ overlap
      PROVE  Alone /\ Current /\ KnownIsCurrent /\ Rest /\ Creating /\ Looping /\ OnlyCurrent
  BY <1>s DEF Undisturbed
<1>0. /\ Mqtt \in Threads /\ Mqtt \notin Ctxs \cup Conns /\ Ctxs \cap Conns = {}
      /\ Threads = {Mqtt} \cup Ctxs \cup Conns
      /\ None \notin Conns \cup Ctxs /\ gConn \in Conns \cup {None} /\ gCtx \in Ctxs \cup {None}
      /\ th[Mqtt].at \in MqttPCs /\ (\A x \in Ctxs : th[x].at \in CtxPCs)
      /\ conn \in [Conns -> ConnState]
  BY ThreadsDiffer, TunnelAssumption, ConnTyped DEF Threads, TypeOK, Roles
\* Of a thread in a handler: it is alone, and so it stays.
<1>a. ASSUME ~ overlap, NEW t \in Threads, th[t].at # "idle", NEW labels, Moves(t, labels)
      PROVE  /\ t \in {Mqtt} \cup Ctxs
             /\ \A u \in Threads \ {t} : th[u].at = "idle" /\ th'[u].at = "idle"
             /\ th'[t].at \in labels
             /\ th'[t].at # "idle" => th'[t].conn = th[t].conn
             /\ Alone'
  <2>1. \A u \in Threads \ {t} : th[u].at = "idle" /\ th'[u].at = "idle"
    BY <1>s, <1>a DEF Alone, Moves
  <2>2. t \in {Mqtt} \cup Ctxs
    BY <1>s, <1>a DEF Alone, Threads
  <2>3. Alone'
    BY <1>0, <2>1, <2>2 DEF Alone
  <2> QED BY <1>a, <2>1, <2>2, <2>3 DEF Moves
\* Nothing that is spoken of changes.
<1>b. ASSUME UNCHANGED <<gConn, gCtx, conn, session, th, timedOut, overlap>> PROVE Result'
  <2>1. Alone' /\ Current' /\ KnownIsCurrent'
    BY <1>s, <1>b DEF Alone, Current, KnownIsCurrent, Known, Live
  <2>2. Rest' /\ Creating'
    BY <1>s, <1>b DEF Rest, Creating, Live, IsOpen
  <2>3. Looping' /\ OnlyCurrent'
    BY <1>s, <1>b DEF Looping, OnlyCurrent, Known, Live, IsOpen
  <2> QED BY <2>1, <2>2, <2>3
\* Of a thread that enters a handler: it is alone, if no two overlap.
<1>c. ASSUME NEW t \in {Mqtt} \cup Ctxs, NEW label \in PCs, NEW c \in Conns \cup {None}, Enter(t, label, c), th[t].at = "idle"
      PROVE  /\ ~ overlap
             /\ \A u \in Threads : th[u].at = "idle"
             /\ \A u \in Threads \ {t} : th'[u].at = "idle"
             /\ th'[t].at = label /\ th'[t].conn = c
             /\ Alone'
  <2>0. t \in Threads
    BY <1>0
  <2>1. /\ \A u \in Threads \ {t} : th'[u] = th[u]
        /\ th'[t].at = label /\ th'[t].conn = c
        /\ ~ overlap /\ \A u \in Threads \ {t} : th[u] = Idle
    BY <1>c, <2>0, EnterMoves
  <2>2. \A u \in Threads : th[u].at = "idle"
    BY <1>c, <2>1, IdleTyped
  <2>3. \A u \in Threads \ {t} : th'[u].at = "idle"
    BY <2>1, <2>2
  <2>4. Alone'
    BY <1>0, <2>3 DEF Alone
  <2> QED BY <2>1, <2>2, <2>3, <2>4
<1>1. CASE HandleTunnelMgr
  <2>1. Enter(Mqtt, "closeOld", None) /\ th[Mqtt].at = "idle" /\ "closeOld" \in PCs
    BY <1>1 DEF HandleTunnelMgr, At, PCs
  <2>2. /\ ~ overlap /\ (\A u \in Threads : th[u].at = "idle") /\ (\A u \in Threads \ {Mqtt} : th'[u].at = "idle")
        /\ th'[Mqtt].at = "closeOld" /\ Alone'
    BY <1>c, <2>1
  <2>3. UNCHANGED <<gConn, conn, session, timedOut>> /\ (gCtx # None => gCtx' = gCtx)
    BY <1>1 DEF HandleTunnelMgr
  <2>10. Current'
    BY <1>0, <1>s, <1>1, <2>2, <2>3 DEF At, Current
  <2>11. KnownIsCurrent'
    BY <1>0, <1>s, <1>1, <2>2, <2>3 DEF At, KnownIsCurrent, Known, Live
  <2>12. Rest'
    BY <1>0, <1>s, <1>1, <2>2, <2>3 DEF At, Rest, Live, IsOpen
  <2>13. Creating'
    BY <1>0, <1>s, <1>1, <2>2, <2>3 DEF At, Creating, Live
  <2>14. Looping'
    BY <1>0, <1>s, <1>1, <2>2, <2>3 DEF At, Looping, Known, Live, IsOpen, ShellPCs
  <2>15. OnlyCurrent'
    BY <1>0, <1>s, <1>1, <2>2, <2>3 DEF At, OnlyCurrent, Live
  <2> QED BY <2>2, <2>10, <2>11, <2>12, <2>13, <2>14, <2>15
<1>2. CASE CloseOld
  <2>1. Moves(Mqtt, {"new", "destroyNew"}) /\ th[Mqtt].at # "idle" /\ ~ overlap
    BY <1>2, <1>0, StepsMove DEF CloseOld, At
  <2>2. /\ Mqtt \in {Mqtt} \cup Ctxs /\ (\A u \in Threads \ {Mqtt} : th[u].at = "idle" /\ th'[u].at = "idle")
        /\ th'[Mqtt].at \in {"new", "destroyNew"} /\ (th'[Mqtt].at # "idle" => th'[Mqtt].conn = th[Mqtt].conn) /\ Alone'
    BY <1>a, <1>0, <2>1
  <2>3. gConn = None => th'[Mqtt].at = "new" /\ conn' = conn
    BY <1>2, <1>0, GotoMoves DEF CloseOld, Moves, PCs
  <2>4. gConn # None => /\ th'[Mqtt].at = "destroyNew" /\ conn'[gConn].state = "closed"
                        /\ \A d \in Conns \ {gConn} : conn'[d] = conn[d]
    BY <1>2, <1>0, GotoMoves, CloseOldChanges DEF CloseOld, Moves, Changes, PCs
  <2>10. Current'
    BY <1>0, <1>s, <1>2, <2>1, <2>2, <2>3, <2>4 DEF CloseOld, At, Current
  <2>11. KnownIsCurrent'
    BY <1>0, <1>s, <1>2, <2>1, <2>2, <2>3, <2>4 DEF CloseOld, At, KnownIsCurrent, Known, Live
  <2>12. Rest'
    BY <1>0, <1>s, <1>2, <2>1, <2>2, <2>3, <2>4 DEF CloseOld, At, Rest, Live, IsOpen
  <2>13. Creating'
    BY <1>0, <1>s, <1>2, <2>1, <2>2, <2>3, <2>4
    DEF CloseOld, At, Creating, Live, Rest, IsOpen, Looping, ShellPCs, MqttPCs, Known
  <2>14. Looping'
    BY <1>0, <1>s, <1>2, <2>1, <2>2, <2>3, <2>4
    DEF CloseOld, At, Looping, Known, Live, IsOpen, ShellPCs
  <2>15. OnlyCurrent'
    BY <1>0, <1>s, <1>2, <2>1, <2>2, <2>3, <2>4 DEF CloseOld, At, OnlyCurrent, Live
  <2> QED BY <2>2, <2>10, <2>11, <2>12, <2>13, <2>14, <2>15
<1>3. CASE New
  <2>1. Moves(Mqtt, {"ready", "closeOld", "idle"}) /\ th[Mqtt].at # "idle" /\ ~ overlap
    BY <1>3, <1>0, StepsMove DEF New, At
  <2>2. /\ Mqtt \in {Mqtt} \cup Ctxs /\ (\A u \in Threads \ {Mqtt} : th[u].at = "idle" /\ th'[u].at = "idle")
        /\ th'[Mqtt].at \in {"ready", "closeOld", "idle"} /\ (th'[Mqtt].at # "idle" => th'[Mqtt].conn = th[Mqtt].conn) /\ Alone'
    BY <1>a, <1>0, <2>1
  <2>3. UNCHANGED <<gCtx, session, timedOut>>
    BY <1>3 DEF New
  <2>4. CASE NewConn(TRUE) /\ Goto(Mqtt, "ready")
    <3>1. PICK c \in Conns : /\ conn[c].state = "unused" /\ gConn' = c /\ gCtx \in Ctxs
                             /\ conn' \in [Conns -> ConnState]
                             /\ \A d \in Conns \ {c} : conn'[d] = conn[d]
                             /\ conn'[c] = [state |-> "pending", ctx |-> gCtx, listens |-> TRUE, hears |-> FALSE]
      BY <2>4, NewConnMakes
    <3>2. conn'[c].state = "pending" /\ conn'[c].ctx = gCtx /\ conn'[c].listens = TRUE /\ conn'[c].hears = FALSE
      BY <3>1
    <3>3. th'[Mqtt].at = "ready"
      BY <1>0, <2>4, GotoMoves DEF Moves, PCs
    <3>10. Current'
      BY <1>0, <1>s, <1>3, <2>1, <2>2, <2>3, <3>1, <3>2, <3>3 DEF At, New, Current
    <3>11. KnownIsCurrent'
      BY <1>0, <1>s, <1>3, <2>1, <2>2, <2>3, <3>1, <3>2, <3>3
      DEF At, New, KnownIsCurrent, Known, Live, Current, Creating
    <3>12. Rest'
      BY <1>0, <1>s, <1>3, <2>1, <2>2, <2>3, <3>1, <3>2, <3>3 DEF At, New, Rest, Live, IsOpen
    <3>13. Creating'
      BY <1>0, <1>s, <1>3, <2>1, <2>2, <2>3, <3>1, <3>2, <3>3 DEF At, New, Creating, Live
    <3>14. Looping'
      BY <1>0, <1>s, <1>3, <2>1, <2>2, <2>3, <3>1, <3>2, <3>3
      DEF At, New, Looping, Known, Live, IsOpen, ShellPCs
    <3>15. OnlyCurrent'
      BY <1>0, <1>s, <1>3, <2>1, <2>2, <2>3, <3>1, <3>2, <3>3
      DEF At, New, OnlyCurrent, Live, Current, Creating
    <3> QED BY <2>2, <3>10, <3>11, <3>12, <3>13, <3>14, <3>15
  <2>5. CASE gConn' = None /\ NextTry(Mqtt, "closeOld", "idle") /\ UNCHANGED conn
    <3>1. th'[Mqtt].at \in {"closeOld", "idle"}
      BY <1>0, <2>5, RetryMoves DEF Moves, PCs
    <3>10. Current'
      BY <1>0, <1>s, <1>3, <2>1, <2>2, <2>3, <2>5, <3>1 DEF At, New, Current
    <3>11. KnownIsCurrent'
      BY <1>0, <1>s, <1>3, <2>1, <2>2, <2>3, <2>5, <3>1
      DEF At, New, KnownIsCurrent, Known, Live, Current, Creating
    <3>12. Rest'
      BY <1>0, <1>s, <1>3, <2>1, <2>2, <2>3, <2>5, <3>1
      DEF At, New, Rest, Live, IsOpen, Current, Creating
    <3>13. Creating'
      BY <1>0, <1>s, <1>3, <2>1, <2>2, <2>3, <2>5, <3>1 DEF At, New, Creating, Live
    <3>14. Looping'
      BY <1>0, <1>s, <1>3, <2>1, <2>2, <2>3, <2>5, <3>1
      DEF At, New, Looping, Known, Live, IsOpen, ShellPCs
    <3>15. OnlyCurrent'
      BY <1>0, <1>s, <1>3, <2>1, <2>2, <2>3, <2>5, <3>1
      DEF At, New, OnlyCurrent, Live, Current, Creating
    <3> QED BY <2>2, <3>10, <3>11, <3>12, <3>13, <3>14, <3>15
  <2> QED BY <1>3, <2>4, <2>5 DEF New
<1>4. CASE Ready
  <2>0. th[Mqtt].at = "ready" /\ UNCHANGED <<gConn, gCtx, session, timedOut>>
    BY <1>4 DEF Ready, At
  <2>1. UNCHANGED overlap
    BY <1>4 DEF Ready
  <2>2. gConn \in Conns /\ conn[gConn].state \in {"pending", "open"} /\ conn[gConn].listens
    BY <1>s, <1>0, <2>0, <2>1 DEF Creating, Live
  <2>3. ReadyInTime /\ Goto(Mqtt, "idle")
    BY <1>0, <1>4, <2>2 DEF Ready
  <2>4. /\ conn'[gConn].state = "open" /\ conn'[gConn].ctx = conn[gConn].ctx
        /\ conn'[gConn].listens = conn[gConn].listens
        /\ \A d \in Conns \ {gConn} : conn'[d] = conn[d]
    BY <2>3, ReadyChanges DEF Changes
  <2>5. Moves(Mqtt, {"idle"})
    BY <1>0, <2>3, GotoMoves DEF PCs
  <2>6. /\ (\A u \in Threads \ {Mqtt} : th[u].at = "idle" /\ th'[u].at = "idle")
        /\ th'[Mqtt].at = "idle" /\ Alone'
    BY <1>0, <1>a, <2>0, <2>1, <2>5
  <2>10. Current'
    BY <1>0, <1>s, <1>4, <2>0, <2>1, <2>2, <2>4, <2>6 DEF At, Current
  <2>11. KnownIsCurrent'
    BY <1>0, <1>s, <1>4, <2>0, <2>1, <2>2, <2>4, <2>6 DEF At, KnownIsCurrent, Known, Live
  <2>12. Rest'
    BY <1>0, <1>s, <1>4, <2>0, <2>1, <2>2, <2>4, <2>6 DEF At, Rest, Live, IsOpen
  <2>13. Creating'
    BY <1>0, <1>s, <1>4, <2>0, <2>1, <2>2, <2>4, <2>6 DEF At, Creating, Live
  <2>14. Looping'
    BY <1>0, <1>s, <1>4, <2>0, <2>1, <2>2, <2>4, <2>6
    DEF At, Looping, Known, Live, IsOpen, ShellPCs
  <2>15. OnlyCurrent'
    BY <1>0, <1>s, <1>4, <2>0, <2>1, <2>2, <2>4, <2>6 DEF At, OnlyCurrent, Live
  <2> QED BY <2>6, <2>10, <2>11, <2>12, <2>13, <2>14, <2>15
<1>5. ASSUME NEW t \in Threads, SSHClientSessionDestroy(t) PROVE Result'
  <2>1. Moves(t, {After[th[t].at]}) /\ th[t].at # "idle" /\ ~ overlap
    BY <1>5, <1>0, StepsMove DEF SSHClientSessionDestroy, At, After
  <2>2. /\ t \in {Mqtt} \cup Ctxs /\ (\A u \in Threads \ {t} : th[u].at = "idle" /\ th'[u].at = "idle")
        /\ th'[t].at \in {After[th[t].at]} /\ (th'[t].at # "idle" => th'[t].conn = th[t].conn) /\ Alone'
    BY <1>a, <1>0, <2>1
  <2>10. Current'
    BY <1>0, <1>s, <1>5, <2>1, <2>2 DEF SSHClientSessionDestroy, At, After, Current
  <2>11. KnownIsCurrent'
    BY <1>0, <1>s, <1>5, <2>1, <2>2
    DEF SSHClientSessionDestroy, At, After, KnownIsCurrent, Known, Live
  <2>12. Rest'
    BY <1>0, <1>s, <1>5, <2>1, <2>2
    DEF SSHClientSessionDestroy, At, After, Rest, Live, IsOpen, Looping, ShellPCs, MqttPCs
  <2>13. Creating'
    BY <1>0, <1>s, <1>5, <2>1, <2>2 DEF SSHClientSessionDestroy, At, After, Creating, Live
  <2>14. Looping'
    BY <1>0, <1>s, <1>5, <2>1, <2>2
    DEF SSHClientSessionDestroy, At, After, Looping, Known, Live, IsOpen, ShellPCs
  <2>15. OnlyCurrent'
    BY <1>0, <1>s, <1>5, <2>1, <2>2 DEF SSHClientSessionDestroy, At, After, OnlyCurrent, Live
  <2> QED BY <2>2, <2>10, <2>11, <2>12, <2>13, <2>14, <2>15
<1>6. ASSUME NEW t \in Threads, WssClientCloseConn(t) PROVE Result'
  <2>1. Moves(t, {"check", "idle"}) /\ th[t].at # "idle" /\ ~ overlap
    BY <1>6, <1>0, StepsMove DEF WssClientCloseConn, At
  <2>2. /\ t \in {Mqtt} \cup Ctxs /\ (\A u \in Threads \ {t} : th[u].at = "idle" /\ th'[u].at = "idle")
        /\ th'[t].at \in {"check", "idle"} /\ (th'[t].at # "idle" => th'[t].conn = th[t].conn) /\ Alone'
    BY <1>a, <1>0, <2>1
  <2>10. Current'
    BY <1>0, <1>s, <1>6, <2>1, <2>2 DEF WssClientCloseConn, At, Current
  <2>11. KnownIsCurrent'
    BY <1>0, <1>s, <1>6, <2>1, <2>2 DEF WssClientCloseConn, At, KnownIsCurrent, Known, Live
  <2>12. Rest'
    BY <1>0, <1>s, <1>6, <2>1, <2>2 DEF WssClientCloseConn, At, Rest, Live, IsOpen
  <2>13. Creating'
    BY <1>0, <1>s, <1>6, <2>1, <2>2 DEF WssClientCloseConn, At, Creating, Live
  <2>14. Looping'
    BY <1>0, <1>s, <1>6, <2>1, <2>2
    DEF WssClientCloseConn, At, Looping, Known, Live, IsOpen, ShellPCs
  <2>15. OnlyCurrent'
    BY <1>0, <1>s, <1>6, <2>1, <2>2 DEF WssClientCloseConn, At, OnlyCurrent, Live
  <2> QED BY <2>2, <2>10, <2>11, <2>12, <2>13, <2>14, <2>15
<1>7. ASSUME NEW t \in Threads, OnClose(t) PROVE Result'
  <2>1. Moves(t, {"idle", "destroyFinish", "destroyRetry"}) /\ th[t].at # "idle" /\ ~ overlap
    BY <1>7, <1>0, StepsMove DEF OnClose, At
  <2>2. /\ t \in {Mqtt} \cup Ctxs /\ (\A u \in Threads \ {t} : th[u].at = "idle" /\ th'[u].at = "idle")
        /\ th'[t].at \in {"idle", "destroyFinish", "destroyRetry"} /\ (th'[t].at # "idle" => th'[t].conn = th[t].conn) /\ Alone'
    BY <1>a, <1>0, <2>1
  <2>3. th'[t].at # "idle"
    <3>1. t \in Ctxs /\ gConn # None /\ th[t].conn = gConn
      BY <1>0, <1>s, <1>7, <2>1, <2>2 DEF OnClose, Looping, MqttPCs
    <3>2. Goto(t, "destroyFinish") \/ Goto(t, "destroyRetry")
      BY <1>7, <3>1 DEF OnClose
    <3> QED BY <3>2, GotoMoves DEF Moves, PCs
  <2>10. Current'
    BY <1>0, <1>s, <1>7, <2>1, <2>2, <2>3 DEF OnClose, At, Current
  <2>11. KnownIsCurrent'
    BY <1>0, <1>s, <1>7, <2>1, <2>2, <2>3 DEF OnClose, At, KnownIsCurrent, Known, Live
  <2>12. Rest'
    BY <1>0, <1>s, <1>7, <2>1, <2>2, <2>3 DEF OnClose, At, Rest, Live, IsOpen
  <2>13. Creating'
    BY <1>0, <1>s, <1>7, <2>1, <2>2, <2>3 DEF OnClose, At, Creating, Live
  <2>14. Looping'
    BY <1>0, <1>s, <1>7, <2>1, <2>2, <2>3 DEF OnClose, At, Looping, Known, Live, IsOpen, ShellPCs
  <2>15. OnlyCurrent'
    BY <1>0, <1>s, <1>7, <2>1, <2>2, <2>3 DEF OnClose, At, OnlyCurrent, Live
  <2> QED BY <2>2, <2>10, <2>11, <2>12, <2>13, <2>14, <2>15
<1>8. ASSUME NEW t \in Threads, RetryNew(t) PROVE Result'
  <2>1. Moves(t, {"retryReady", "retryNew", "finish"}) /\ th[t].at # "idle" /\ ~ overlap
    BY <1>8, <1>0, StepsMove DEF RetryNew, At
  <2>2. /\ t \in {Mqtt} \cup Ctxs /\ (\A u \in Threads \ {t} : th[u].at = "idle" /\ th'[u].at = "idle")
        /\ th'[t].at \in {"retryReady", "retryNew", "finish"} /\ (th'[t].at # "idle" => th'[t].conn = th[t].conn) /\ Alone'
    BY <1>a, <1>0, <2>1
  <2>3. UNCHANGED <<gCtx, session, timedOut>>
    BY <1>8 DEF RetryNew
  <2>4. CASE NewConn(FALSE) /\ Goto(t, "retryReady")
    <3>1. PICK c \in Conns : /\ conn[c].state = "unused" /\ gConn' = c /\ gCtx \in Ctxs
                             /\ conn' \in [Conns -> ConnState]
                             /\ \A d \in Conns \ {c} : conn'[d] = conn[d]
                             /\ conn'[c] = [state |-> "pending", ctx |-> gCtx, listens |-> FALSE, hears |-> FALSE]
      BY <2>4, NewConnMakes
    <3>2. conn'[c].state = "pending" /\ conn'[c].ctx = gCtx /\ conn'[c].listens = FALSE /\ conn'[c].hears = FALSE
      BY <3>1
    <3>3. th'[t].at = "retryReady"
      BY <1>0, <2>4, GotoMoves DEF Moves, PCs
    <3>10. Current'
      BY <1>0, <1>s, <1>8, <2>1, <2>2, <2>3, <3>1, <3>2, <3>3 DEF At, RetryNew, Current
    <3>11. KnownIsCurrent'
      BY <1>0, <1>s, <1>8, <2>1, <2>2, <2>3, <3>1, <3>2, <3>3
      DEF At, RetryNew, KnownIsCurrent, Known, Live, Looping, ShellPCs, MqttPCs
    <3>12. Rest'
      BY <1>0, <1>s, <1>8, <2>1, <2>2, <2>3, <3>1, <3>2, <3>3 DEF At, RetryNew, Rest, Live, IsOpen
    <3>13. Creating'
      BY <1>0, <1>s, <1>8, <2>1, <2>2, <2>3, <3>1, <3>2, <3>3 DEF At, RetryNew, Creating, Live
    <3>14. Looping'
      BY <1>0, <1>s, <1>8, <2>1, <2>2, <2>3, <3>1, <3>2, <3>3
      DEF At, RetryNew, Looping, Known, Live, IsOpen, ShellPCs
    <3>15. OnlyCurrent'
      BY <1>0, <1>s, <1>8, <2>1, <2>2, <2>3, <3>1, <3>2, <3>3
      DEF At, RetryNew, OnlyCurrent, Live, Looping, ShellPCs, MqttPCs
    <3> QED BY <2>2, <3>10, <3>11, <3>12, <3>13, <3>14, <3>15
  <2>5. CASE gConn' = None /\ NextTry(t, "retryNew", "finish") /\ UNCHANGED conn
    <3>1. th'[t].at \in {"retryNew", "finish"}
      BY <1>0, <2>5, RetryMoves DEF Moves, PCs
    <3>10. Current'
      BY <1>0, <1>s, <1>8, <2>1, <2>2, <2>3, <2>5, <3>1 DEF At, RetryNew, Current
    <3>11. KnownIsCurrent'
      BY <1>0, <1>s, <1>8, <2>1, <2>2, <2>3, <2>5, <3>1
      DEF At, RetryNew, KnownIsCurrent, Known, Live, Looping, ShellPCs, MqttPCs
    <3>12. Rest'
      BY <1>0, <1>s, <1>8, <2>1, <2>2, <2>3, <2>5, <3>1 DEF At, RetryNew, Rest, Live, IsOpen
    <3>13. Creating'
      BY <1>0, <1>s, <1>8, <2>1, <2>2, <2>3, <2>5, <3>1 DEF At, RetryNew, Creating, Live
    <3>14. Looping'
      BY <1>0, <1>s, <1>8, <2>1, <2>2, <2>3, <2>5, <3>1
      DEF At, RetryNew, Looping, Known, Live, IsOpen, ShellPCs
    <3>15. OnlyCurrent'
      BY <1>0, <1>s, <1>8, <2>1, <2>2, <2>3, <2>5, <3>1
      DEF At, RetryNew, OnlyCurrent, Live, Looping, ShellPCs, MqttPCs
    <3> QED BY <2>2, <3>10, <3>11, <3>12, <3>13, <3>14, <3>15
  <2> QED BY <1>8, <2>4, <2>5 DEF RetryNew
<1>9. ASSUME NEW t \in Threads, RetryReady(t) PROVE Result'
  <2>1. Moves(t, {"listen", "retryNew", "finish"}) /\ th[t].at # "idle" /\ ~ overlap
    BY <1>9, <1>0, StepsMove DEF RetryReady, At
  <2>2. /\ t \in {Mqtt} \cup Ctxs /\ (\A u \in Threads \ {t} : th[u].at = "idle" /\ th'[u].at = "idle")
        /\ th'[t].at \in {"listen", "retryNew", "finish"} /\ (th'[t].at # "idle" => th'[t].conn = th[t].conn) /\ Alone'
    BY <1>a, <1>0, <2>1
  <2>3. UNCHANGED <<gCtx, gConn, session>>
    BY <1>9 DEF RetryReady
  <2>4. CASE ReadyInTime /\ Goto(t, "listen") /\ UNCHANGED timedOut
    <3>1. /\ gConn \in Conns /\ conn'[gConn].state = "open" /\ conn'[gConn].ctx = conn[gConn].ctx
          /\ \A d \in Conns \ {gConn} : conn'[d] = conn[d]
          /\ conn[gConn].state \in {"pending", "open"}
      BY <2>4, ReadyChanges DEF Changes
    <3>3. th'[t].at = "listen"
      BY <1>0, <2>4, GotoMoves DEF Moves, PCs
    <3>10. Current'
      BY <1>0, <1>s, <1>9, <2>1, <2>2, <2>3, <2>4, <3>1, <3>3 DEF At, RetryReady, Current
    <3>11. KnownIsCurrent'
      BY <1>0, <1>s, <1>9, <2>1, <2>2, <2>3, <2>4, <3>1, <3>3
      DEF At, RetryReady, KnownIsCurrent, Known, Live
    <3>12. Rest'
      BY <1>0, <1>s, <1>9, <2>1, <2>2, <2>3, <2>4, <3>1, <3>3
      DEF At, RetryReady, Rest, Live, IsOpen
    <3>13. Creating'
      BY <1>0, <1>s, <1>9, <2>1, <2>2, <2>3, <2>4, <3>1, <3>3 DEF At, RetryReady, Creating, Live
    <3>14. Looping'
      BY <1>0, <1>s, <1>9, <2>1, <2>2, <2>3, <2>4, <3>1, <3>3
      DEF At, RetryReady, Looping, Known, Live, IsOpen, ShellPCs
    <3>15. OnlyCurrent'
      BY <1>0, <1>s, <1>9, <2>1, <2>2, <2>3, <2>4, <3>1, <3>3
      DEF At, RetryReady, OnlyCurrent, Live
    <3> QED BY <2>2, <3>10, <3>11, <3>12, <3>13, <3>14, <3>15
  <2>5. CASE /\ timedOut' = (timedOut \/ (gConn # None /\ conn[gConn].state # "closed"))
             /\ NextTry(t, "retryNew", "finish") /\ UNCHANGED conn
    <3>1. th'[t].at \in {"retryNew", "finish"}
      BY <1>0, <2>5, RetryMoves DEF Moves, PCs
    <3>2. ~ timedOut' => ~ timedOut /\ (gConn # None => conn[gConn].state = "closed")
      BY <2>5
    <3>10. Current'
      BY <1>0, <1>s, <1>9, <2>1, <2>2, <2>3, <2>5, <3>1, <3>2 DEF At, RetryReady, Current
    <3>11. KnownIsCurrent'
      BY <1>0, <1>s, <1>9, <2>1, <2>2, <2>3, <2>5, <3>1, <3>2
      DEF At, RetryReady, KnownIsCurrent, Known, Live
    <3>12. Rest'
      BY <1>0, <1>s, <1>9, <2>1, <2>2, <2>3, <2>5, <3>1, <3>2
      DEF At, RetryReady, Rest, Live, IsOpen
    <3>13. Creating'
      BY <1>0, <1>s, <1>9, <2>1, <2>2, <2>3, <2>5, <3>1, <3>2 DEF At, RetryReady, Creating, Live
    <3>14. Looping'
      BY <1>0, <1>s, <1>9, <2>1, <2>2, <2>3, <2>5, <3>1, <3>2
      DEF At, RetryReady, Looping, Known, Live, IsOpen, ShellPCs
    <3>15. OnlyCurrent'
      BY <1>0, <1>s, <1>9, <2>1, <2>2, <2>3, <2>5, <3>1, <3>2
      DEF At, RetryReady, OnlyCurrent, Live
    <3> QED BY <2>2, <3>10, <3>11, <3>12, <3>13, <3>14, <3>15
  <2> QED BY <1>9, <2>4, <2>5 DEF RetryReady
<1>10. ASSUME NEW t \in Threads, Listen(t) PROVE Result'
  <2>1. Moves(t, {"idle"}) /\ th[t].at # "idle" /\ ~ overlap
    BY <1>10, <1>0, StepsMove DEF Listen, At
  <2>2. /\ t \in {Mqtt} \cup Ctxs /\ (\A u \in Threads \ {t} : th[u].at = "idle" /\ th'[u].at = "idle")
        /\ th'[t].at \in {"idle"} /\ (th'[t].at # "idle" => th'[t].conn = th[t].conn) /\ Alone'
    BY <1>a, <1>0, <2>1
  <2>10. Current'
    BY <1>0, <1>s, <1>10, <2>1, <2>2 DEF Listen, At, Current
  <2>11. KnownIsCurrent'
    BY <1>0, <1>s, <1>10, <2>1, <2>2 DEF Listen, At, KnownIsCurrent, Known, Live
  <2>12. Rest'
    BY <1>0, <1>s, <1>10, <2>1, <2>2
    DEF Listen, At, Rest, Live, IsOpen, Looping, ShellPCs, MqttPCs
  <2>13. Creating'
    BY <1>0, <1>s, <1>10, <2>1, <2>2 DEF Listen, At, Creating, Live
  <2>14. Looping'
    BY <1>0, <1>s, <1>10, <2>1, <2>2 DEF Listen, At, Looping, Known, Live, IsOpen, ShellPCs
  <2>15. OnlyCurrent'
    BY <1>0, <1>s, <1>10, <2>1, <2>2 DEF Listen, At, OnlyCurrent, Live
  <2> QED BY <2>2, <2>10, <2>11, <2>12, <2>13, <2>14, <2>15
<1>11. ASSUME NEW t \in Threads, Finish(t) PROVE Result'
  <2>1. Moves(t, {"idle"}) /\ th[t].at # "idle" /\ ~ overlap
    BY <1>11, <1>0, StepsMove DEF Finish, At
  <2>2. /\ t \in {Mqtt} \cup Ctxs /\ (\A u \in Threads \ {t} : th[u].at = "idle" /\ th'[u].at = "idle")
        /\ th'[t].at \in {"idle"} /\ (th'[t].at # "idle" => th'[t].conn = th[t].conn) /\ Alone'
    BY <1>a, <1>0, <2>1
  <2>10. Current'
    BY <1>0, <1>s, <1>11, <2>1, <2>2 DEF Finish, At, Current
  <2>11. KnownIsCurrent'
    BY <1>0, <1>s, <1>11, <2>1, <2>2
    DEF Finish, At, KnownIsCurrent, Known, Live, Looping, ShellPCs, MqttPCs
  <2>12. Rest'
    BY <1>0, <1>s, <1>11, <2>1, <2>2
    DEF Finish, At, Rest, Live, IsOpen, Looping, ShellPCs, MqttPCs
  <2>13. Creating'
    BY <1>0, <1>s, <1>11, <2>1, <2>2 DEF Finish, At, Creating, Live
  <2>14. Looping'
    BY <1>0, <1>s, <1>11, <2>1, <2>2 DEF Finish, At, Looping, Known, Live, IsOpen, ShellPCs
  <2>15. OnlyCurrent'
    BY <1>0, <1>s, <1>11, <2>1, <2>2 DEF Finish, At, OnlyCurrent, Live, Looping, ShellPCs, MqttPCs
  <2> QED BY <2>2, <2>10, <2>11, <2>12, <2>13, <2>14, <2>15
<1>12. ASSUME NEW t \in Threads, SshNew(t) PROVE Result'
  <2>1. Moves(t, {"sshConnect"}) /\ th[t].at # "idle" /\ ~ overlap
    BY <1>12, <1>0, StepsMove DEF SshNew, At
  <2>2. /\ t \in {Mqtt} \cup Ctxs /\ (\A u \in Threads \ {t} : th[u].at = "idle" /\ th'[u].at = "idle")
        /\ th'[t].at \in {"sshConnect"} /\ (th'[t].at # "idle" => th'[t].conn = th[t].conn) /\ Alone'
    BY <1>a, <1>0, <2>1
  <2>10. Current'
    BY <1>0, <1>s, <1>12, <2>1, <2>2 DEF SshNew, At, Current
  <2>11. KnownIsCurrent'
    BY <1>0, <1>s, <1>12, <2>1, <2>2 DEF SshNew, At, KnownIsCurrent, Known, Live
  <2>12. Rest'
    BY <1>0, <1>s, <1>12, <2>1, <2>2 DEF SshNew, At, Rest, Live, IsOpen
  <2>13. Creating'
    BY <1>0, <1>s, <1>12, <2>1, <2>2 DEF SshNew, At, Creating, Live
  <2>14. Looping'
    BY <1>0, <1>s, <1>12, <2>1, <2>2 DEF SshNew, At, Looping, Known, Live, IsOpen, ShellPCs
  <2>15. OnlyCurrent'
    BY <1>0, <1>s, <1>12, <2>1, <2>2 DEF SshNew, At, OnlyCurrent, Live
  <2> QED BY <2>2, <2>10, <2>11, <2>12, <2>13, <2>14, <2>15
<1>13. ASSUME NEW t \in Threads, SshConnect(t) PROVE Result'
  <2>1. Moves(t, {"destroyFailed", "sshChannel"}) /\ th[t].at # "idle" /\ ~ overlap
    BY <1>13, <1>0, StepsMove DEF SshConnect, At
  <2>2. /\ t \in {Mqtt} \cup Ctxs /\ (\A u \in Threads \ {t} : th[u].at = "idle" /\ th'[u].at = "idle")
        /\ th'[t].at \in {"destroyFailed", "sshChannel"} /\ (th'[t].at # "idle" => th'[t].conn = th[t].conn) /\ Alone'
    BY <1>a, <1>0, <2>1
  <2>10. Current'
    BY <1>0, <1>s, <1>13, <2>1, <2>2 DEF SshConnect, At, Current
  <2>11. KnownIsCurrent'
    BY <1>0, <1>s, <1>13, <2>1, <2>2 DEF SshConnect, At, KnownIsCurrent, Known, Live
  <2>12. Rest'
    BY <1>0, <1>s, <1>13, <2>1, <2>2 DEF SshConnect, At, Rest, Live, IsOpen
  <2>13. Creating'
    BY <1>0, <1>s, <1>13, <2>1, <2>2 DEF SshConnect, At, Creating, Live
  <2>14. Looping'
    BY <1>0, <1>s, <1>13, <2>1, <2>2 DEF SshConnect, At, Looping, Known, Live, IsOpen, ShellPCs
  <2>15. OnlyCurrent'
    BY <1>0, <1>s, <1>13, <2>1, <2>2 DEF SshConnect, At, OnlyCurrent, Live
  <2> QED BY <2>2, <2>10, <2>11, <2>12, <2>13, <2>14, <2>15
<1>14. ASSUME NEW t \in Threads, SshChannel(t) PROVE Result'
  <2>1. Moves(t, {"destroyFailed", "sshShell"}) /\ th[t].at # "idle" /\ ~ overlap
    BY <1>14, <1>0, StepsMove DEF SshChannel, At
  <2>2. /\ t \in {Mqtt} \cup Ctxs /\ (\A u \in Threads \ {t} : th[u].at = "idle" /\ th'[u].at = "idle")
        /\ th'[t].at \in {"destroyFailed", "sshShell"} /\ (th'[t].at # "idle" => th'[t].conn = th[t].conn) /\ Alone'
    BY <1>a, <1>0, <2>1
  <2>10. Current'
    BY <1>0, <1>s, <1>14, <2>1, <2>2 DEF SshChannel, At, Current
  <2>11. KnownIsCurrent'
    BY <1>0, <1>s, <1>14, <2>1, <2>2 DEF SshChannel, At, KnownIsCurrent, Known, Live
  <2>12. Rest'
    BY <1>0, <1>s, <1>14, <2>1, <2>2 DEF SshChannel, At, Rest, Live, IsOpen
  <2>13. Creating'
    BY <1>0, <1>s, <1>14, <2>1, <2>2 DEF SshChannel, At, Creating, Live
  <2>14. Looping'
    BY <1>0, <1>s, <1>14, <2>1, <2>2 DEF SshChannel, At, Looping, Known, Live, IsOpen, ShellPCs
  <2>15. OnlyCurrent'
    BY <1>0, <1>s, <1>14, <2>1, <2>2 DEF SshChannel, At, OnlyCurrent, Live
  <2> QED BY <2>2, <2>10, <2>11, <2>12, <2>13, <2>14, <2>15
<1>15. ASSUME NEW t \in Threads, SshShell(t) PROVE Result'
  <2>1. Moves(t, {"destroyFailed", "idle"}) /\ th[t].at # "idle" /\ ~ overlap
    BY <1>15, <1>0, StepsMove DEF SshShell, At
  <2>2. /\ t \in {Mqtt} \cup Ctxs /\ (\A u \in Threads \ {t} : th[u].at = "idle" /\ th'[u].at = "idle")
        /\ th'[t].at \in {"destroyFailed", "idle"} /\ (th'[t].at # "idle" => th'[t].conn = th[t].conn) /\ Alone'
    BY <1>a, <1>0, <2>1
  <2>10. Current'
    BY <1>0, <1>s, <1>15, <2>1, <2>2 DEF SshShell, At, Current
  <2>11. KnownIsCurrent'
    BY <1>0, <1>s, <1>15, <2>1, <2>2 DEF SshShell, At, KnownIsCurrent, Known, Live
  <2>12. Rest'
    BY <1>0, <1>s, <1>15, <2>1, <2>2
    DEF SshShell, At, Rest, Live, IsOpen, Looping, ShellPCs, MqttPCs
  <2>13. Creating'
    BY <1>0, <1>s, <1>15, <2>1, <2>2 DEF SshShell, At, Creating, Live
  <2>14. Looping'
    BY <1>0, <1>s, <1>15, <2>1, <2>2 DEF SshShell, At, Looping, Known, Live, IsOpen, ShellPCs
  <2>15. OnlyCurrent'
    BY <1>0, <1>s, <1>15, <2>1, <2>2 DEF SshShell, At, OnlyCurrent, Live
  <2> QED BY <2>2, <2>10, <2>11, <2>12, <2>13, <2>14, <2>15
<1>16. ASSUME NEW c \in Conns, LateReady(c) PROVE Result'
  <2>1. /\ conn'[c].state = "open" /\ conn'[c].ctx = conn[c].ctx
        /\ conn'[c].listens = conn[c].listens /\ conn'[c].hears = conn[c].hears
        /\ \A d \in Conns \ {c} : conn'[d] = conn[d]
    BY <1>16, StateChanges DEF LateReady, Changes
  <2>2. UNCHANGED <<gConn, gCtx, session, th, timedOut, overlap>> /\ conn[c].state = "pending"
    BY <1>16 DEF LateReady
  <2>3. Alone'
    BY <1>s, <2>2 DEF Alone
  <2>10. Current'
    BY <1>0, <1>s, <1>16, <2>1, <2>2 DEF At, Current
  <2>11. KnownIsCurrent'
    BY <1>0, <1>s, <1>16, <2>1, <2>2 DEF At, KnownIsCurrent, Known, Live
  <2>12. Rest'
    BY <1>0, <1>s, <1>16, <2>1, <2>2 DEF At, Rest, Live, IsOpen
  <2>13. Creating'
    BY <1>0, <1>s, <1>16, <2>1, <2>2 DEF At, Creating, Live
  <2>14. Looping'
    BY <1>0, <1>s, <1>16, <2>1, <2>2 DEF At, Looping, Known, Live, IsOpen, ShellPCs
  <2>15. OnlyCurrent'
    BY <1>0, <1>s, <1>16, <2>1, <2>2 DEF At, OnlyCurrent, Live
  <2> QED BY <2>3, <2>10, <2>11, <2>12, <2>13, <2>14, <2>15
<1>17. ASSUME NEW c \in Conns, NEW normal \in BOOLEAN, LoopCloses(c, normal) PROVE Result'
  <2> DEFINE x == conn[c].ctx
  <2>1. /\ x \in Ctxs /\ th[x].at = "idle" /\ conn[c].state \in {"pending", "open"}
        /\ UNCHANGED <<gConn, gCtx, session, timedOut>>
    BY <1>17 DEF LoopCloses, Linked, UsedCtxs, At
  <2>2. /\ conn'[c].state = "closed" /\ conn'[c].ctx = conn[c].ctx
        /\ conn'[c].listens = conn[c].listens /\ conn'[c].hears = conn[c].hears
        /\ \A d \in Conns \ {c} : conn'[d] = conn[d]
    BY <1>17, StateChanges DEF LoopCloses, Changes
  <2>3. CASE conn[c].listens /\ Enter(x, IF normal THEN "checkNormal" ELSE "check", c)
    <3>1. (IF normal THEN "checkNormal" ELSE "check") \in PCs
      BY DEF PCs
    <3> HIDE DEF x
    <3>2. /\ ~ overlap /\ (\A u \in Threads : th[u].at = "idle") /\ (\A u \in Threads \ {x} : th'[u].at = "idle")
          /\ th'[x].at = (IF normal THEN "checkNormal" ELSE "check") /\ th'[x].conn = c /\ Alone'
      BY <1>c, <2>1, <2>3, <3>1
    <3>3. c = gConn
      BY <1>s, <2>1, <2>3, <3>2 DEF KnownIsCurrent, Known, Live
    <3>4. x = gCtx
      BY <1>s, <1>0, <3>2, <3>3 DEF Current, x
    <3>5. th'[x].at \in {"checkNormal", "check"}
      BY <3>2
    <3>10. Current'
      BY <1>0, <1>s, <1>17, <2>1, <2>2, <3>2, <3>3, <3>4, <3>5 DEF At, Current
    <3>11. KnownIsCurrent'
      BY <1>0, <1>s, <1>17, <2>1, <2>2, <3>2, <3>3, <3>4, <3>5 DEF At, KnownIsCurrent, Known, Live
    <3>12. Rest'
      BY <1>0, <1>s, <1>17, <2>1, <2>2, <3>2, <3>3, <3>4, <3>5 DEF At, Rest, Live, IsOpen
    <3>13. Creating'
      BY <1>0, <1>s, <1>17, <2>1, <2>2, <3>2, <3>3, <3>4, <3>5 DEF At, Creating, Live
    <3>14. Looping'
      BY <1>0, <1>s, <1>17, <2>1, <2>2, <3>2, <3>3, <3>4, <3>5
      DEF At, Looping, Known, Live, IsOpen, ShellPCs
    <3>15. OnlyCurrent'
      BY <1>0, <1>s, <1>17, <2>1, <2>2, <3>2, <3>3, <3>4, <3>5 DEF At, OnlyCurrent, Live
    <3> QED BY <3>2, <3>10, <3>11, <3>12, <3>13, <3>14, <3>15
  <2>4. CASE ~ conn[c].listens /\ UNCHANGED <<th, overlap>>
    <3>0. ~ overlap /\ Alone'
      BY <1>s, <2>4 DEF Alone
    <3>1. c # gConn
      <4>1. SUFFICES ASSUME c = gConn PROVE FALSE
        OBVIOUS
      <4>2. gConn # None /\ x = gCtx
        BY <1>s, <1>0, <3>0, <4>1 DEF Current
      <4>3. \A u \in Threads : u # Mqtt => th[u].at = "idle"
        BY <1>s, <1>0, <2>1, <3>0, <4>2 DEF Looping, Alone
      <4>4. th[Mqtt].at \notin {"idle", "closeOld"}
        BY <1>s, <1>0, <2>4, <3>0, <4>1, <4>2, <4>3 DEF Rest
      <4> QED BY <1>s, <1>0, <2>4, <3>0, <4>1, <4>2, <4>4 DEF Creating, MqttPCs
    <3>10. Current'
      BY <1>0, <1>s, <1>17, <2>1, <2>2, <2>4, <3>0, <3>1 DEF At, Current
    <3>11. KnownIsCurrent'
      BY <1>0, <1>s, <1>17, <2>1, <2>2, <2>4, <3>0, <3>1 DEF At, KnownIsCurrent, Known, Live
    <3>12. Rest'
      BY <1>0, <1>s, <1>17, <2>1, <2>2, <2>4, <3>0, <3>1 DEF At, Rest, Live, IsOpen
    <3>13. Creating'
      BY <1>0, <1>s, <1>17, <2>1, <2>2, <2>4, <3>0, <3>1 DEF At, Creating, Live
    <3>14. Looping'
      BY <1>0, <1>s, <1>17, <2>1, <2>2, <2>4, <3>0, <3>1
      DEF At, Looping, Known, Live, IsOpen, ShellPCs
    <3>15. OnlyCurrent'
      BY <1>0, <1>s, <1>17, <2>1, <2>2, <2>4, <3>0, <3>1 DEF At, OnlyCurrent, Live
    <3> QED BY <3>0, <3>10, <3>11, <3>12, <3>13, <3>14, <3>15
  <2> QED BY <1>17, <2>3, <2>4 DEF LoopCloses
<1>18. ASSUME NEW x \in Ctxs, NEW c \in Conns, OnConnectRequest(x, c) PROVE Result'
  <2>1. Enter(x, "destroyCreate", c) /\ th[x].at = "idle" /\ "destroyCreate" \in PCs
    BY <1>18 DEF OnConnectRequest, At, PCs
  <2>2. /\ ~ overlap /\ (\A u \in Threads : th[u].at = "idle") /\ (\A u \in Threads \ {x} : th'[u].at = "idle")
        /\ th'[x].at = "destroyCreate" /\ Alone'
    BY <1>c, <2>1
  <2>3. /\ UNCHANGED <<gConn, gCtx, conn, session, timedOut>>
        /\ conn[c].state = "open" /\ conn[c].ctx = x /\ conn[c].hears
    BY <1>18 DEF OnConnectRequest
  <2>10. Current'
    BY <1>0, <1>s, <1>18, <2>2, <2>3 DEF At, Current
  <2>11. KnownIsCurrent'
    BY <1>0, <1>s, <1>18, <2>2, <2>3 DEF At, KnownIsCurrent, Known, Live
  <2>12. Rest'
    BY <1>0, <1>s, <1>18, <2>2, <2>3 DEF At, Rest, Live, IsOpen
  <2>13. Creating'
    BY <1>0, <1>s, <1>18, <2>2, <2>3 DEF At, Creating, Live
  <2>14. Looping'
    BY <1>0, <1>s, <1>18, <2>2, <2>3
    DEF At, Current, KnownIsCurrent, Rest, Creating, Looping, OnlyCurrent, Known, Live, IsOpen,
       ShellPCs, MqttPCs
  <2>15. OnlyCurrent'
    BY <1>0, <1>s, <1>18, <2>2, <2>3 DEF At, OnlyCurrent, Live
  <2> QED BY <2>2, <2>10, <2>11, <2>12, <2>13, <2>14, <2>15
<1>19. ASSUME NEW s \in Sessions, ReadFails(s) PROVE Result'
  BY <1>19, <1>b DEF ReadFails
<1>20. ASSUME NEW s \in Sessions, SSHClientOnChannelClose(s) PROVE Result'
  BY <1>20, <1>b DEF SSHClientOnChannelClose
<1>21. CASE UNCHANGED vars
  BY <1>21, <1>b DEF vars
<1> QED
  BY <1>1, <1>2, <1>3, <1>4, <1>5, <1>6, <1>7, <1>8, <1>9, <1>10, <1>11, <1>12, <1>13, <1>14,
     <1>15, <1>16, <1>17, <1>18, <1>19, <1>20, <1>21
  DEF Next, Step, Listener

-----------------------------------------------------------------------------
(* The theorems.                                                           *)

\* At first no handle is given out and no thread is in a handler.
LEMMA InvariantInit == Init => TunnelInvariant
<1> SUFFICES ASSUME Init PROVE TunnelInvariant
  OBVIOUS
<1> USE TunnelAssumption, ThreadsDiffer, IdleTyped DEF Init
<1>1. TypeOK
  <2>1. conn \in [Conns -> ConnState] /\ th \in [Threads -> ThreadState]
    BY DEF ConnState
  <2>2. 0 \in 0..MaxNotifies /\ 0 \in 0..MaxMsgs
    BY FS_CardinalityType
  <2>3. overlap \in BOOLEAN /\ timedOut \in BOOLEAN
    OBVIOUS
  <2> QED BY <2>1, <2>2, <2>3 DEF TypeOK, ConnState, ThreadState
<1>2. Roles
  BY DEF Roles, Threads, MqttPCs, CtxPCs, ConnPCs, PCs
<1>3. Linked
  BY DEF Linked, Threads
<1>4. Counted
  <2>1. UsedCtxs = {} /\ UsedSessions = {} /\ Requests = {}
    BY DEF UsedCtxs, UsedSessions, Requests, Threads
  <2> QED BY <2>1, FS_EmptySet DEF Counted
<1>5. Undisturbed
  <2>1. \A t \in Threads : th[t].at = "idle"
    OBVIOUS
  <2>2. Alone /\ Creating /\ Looping
    BY <2>1 DEF Alone, Creating, Looping, Threads, ShellPCs
  <2>3. Current /\ KnownIsCurrent /\ Rest /\ OnlyCurrent
    BY DEF Current, KnownIsCurrent, Rest, OnlyCurrent, Known, Live
  <2> QED BY <2>2, <2>3 DEF Undisturbed
<1> QED BY <1>1, <1>2, <1>3, <1>4, <1>5 DEF TunnelInvariant

\* The invariant holds in every behaviour of the tunnel.
THEOREM TunnelInvariance == Spec => []TunnelInvariant
<1>1. TunnelInvariant /\ [Next]_vars => TunnelInvariant'
  BY TypeStep, RolesStep, LinkedStep, CountedStep, UndisturbedStep DEF TunnelInvariant
<1> QED BY InvariantInit, <1>1, PTL DEF Spec

\* Every state is well typed: noPoll and libssh are never asked for a handle beyond the
\* notifications and the messages that came.
THEOREM TunnelTypes == Spec => []TypeOK
BY TunnelInvariance, PTL DEF TunnelInvariant

\* No connection but g_Conn is open or being made, as long as no two handlers have
\* overlapped and no reconnect has timed out.
THEOREM OneConnectionAtATime == Spec => []OneConnection
<1>1. TunnelInvariant => OneConnection
  BY DEF TunnelInvariant, Undisturbed, OnlyCurrent, Live, OneConnection
<1> QED BY TunnelInvariance, <1>1, PTL

\* WssClientListenerOnClose gets to know of the closing of g_Conn, as long as no two
\* handlers have overlapped.
THEOREM LostTunnelIsNoticed == Spec => []ClosedIsNoticed
<1>1. TunnelInvariant => ClosedIsNoticed
  <2> SUFFICES ASSUME TunnelInvariant, ~ overlap, gConn # None, conn[gConn].state = "closed", Busy = {}
               PROVE  FALSE
    BY DEF ClosedIsNoticed
  <2>1. \A t \in Threads : th[t].at = "idle"
    BY IdleTyped DEF Busy
  <2> QED BY <2>1 DEF TunnelInvariant, Undisturbed, Rest, Live
<1> QED BY TunnelInvariance, <1>1, PTL

\* Between handlers that did not overlap g_SSHSession is set only while g_Conn is open.
THEOREM NoShellWithoutTunnel == Spec => []ShellNeedsTunnel
<1>1. TunnelInvariant => ShellNeedsTunnel
  <2> SUFFICES ASSUME TunnelInvariant, ~ overlap, Busy = {}, session # None
               PROVE  gConn # None /\ conn[gConn].state = "open"
    BY DEF ShellNeedsTunnel
  <2>1. \A t \in Threads : th[t].at = "idle"
    BY IdleTyped DEF Busy
  <2> QED BY <2>1 DEF TunnelInvariant, Undisturbed, Rest, IsOpen
<1> QED BY TunnelInvariance, <1>1, PTL

=============================================================================
