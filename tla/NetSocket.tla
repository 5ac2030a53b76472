------------------------------ MODULE NetSocket ------------------------------
(***************************************************************************)
(* Stream sockets of the runtime, from the script's Socket and Server      *)
(* (packages/runtime/src/tcp.ts) through the poll registry of tcp.cc and   *)
(* the TLS contexts of tls.cc to the descriptors of the system.            *)
(*                                                                         *)
(* A descriptor is a number that the system hands out again as soon as it  *)
(* is closed, so everything that remembers one must have given it up by    *)
(* then.  What remembers one: the Socket (fd, pendingFd), a promise that   *)
(* was resolved with it, a write that is not done (which alone does not    *)
(* give it up), a TLS context, a poll with pending operations, a handle    *)
(* whose uv_close callback is to close it, and the server.                 *)
(*                                                                         *)
(* The loop runs poll callbacks, close callbacks and the script's          *)
(* continuations on one thread, in any order as far as two sockets are     *)
(* concerned; each action is one of these callbacks.  Continuations run    *)
(* once a turn of the loop is over (main.cc:1816): callbacks, those of     *)
(* uv_close too, come between an operation and what awaits it.             *)
(* Bytes are left out.                                                     *)
(***************************************************************************)
EXTENDS Integers, FiniteSets

CONSTANTS
  Sockets,  \* sockets made by the script or by the server
  Secure,   \* those connected with secureTransport "on"
  Fds       \* descriptors of the system's table

NetAssumption == Secure \subseteq Sockets /\ Fds \subseteq Nat \ {0} /\ IsFiniteSet(Fds)

VARIABLES
  owner,    \* descriptor -> who opened it, or Nobody
  js,       \* the script's side of each socket (SocketInternal, write)
  ops,      \* descriptor -> pending operations of its entry in g_tcp_fds
  handles,  \* poll handles whose uv_close callback has not run
  ctx,      \* the TLS context of each socket
  server    \* the listening server

netVars == <<owner, js, ops, handles, ctx, server>>

NoFd == 0
Nobody == "nobody"
Closing(f, close) == [fd |-> f, close |-> close]
Op(s, kind) == [socket |-> s, kind |-> kind]
Idle == [at |-> "idle", fd |-> NoFd, pending |-> NoFd, landed |-> NoFd, tlsFd |-> NoFd,
         resume |-> NoFd, tls |-> FALSE, closing |-> FALSE]
NoContext == [life |-> "none", fd |-> NoFd, reading |-> "no", writing |-> FALSE,
              poll |-> "none", wantFree |-> FALSE]

\* The system hands out the lowest free number.
Lowest(f) == owner[f] = Nobody /\ \A g \in Fds : owner[g] = Nobody => f <= g

NativeSame == UNCHANGED <<ops, handles>>

-----------------------------------------------------------------------------
(* nx_tcp_close: with a poll on the descriptor its operations are dropped  *)
(* and the close callback closes it, without one it is closed here.        *)
CloseAtOnce(F) ==
  /\ ops' = [f \in Fds |-> IF f \in F THEN {} ELSE ops[f]]
  /\ handles' = handles \union {Closing(f, FALSE) : f \in {g \in F : ops[g] # {}}}
  /\ owner' = [f \in Fds |-> IF f \in F THEN Nobody ELSE owner[f]]

CloseFds(F) ==
  /\ ops' = [f \in Fds |-> IF f \in F THEN {} ELSE ops[f]]
  /\ handles' = handles \union {Closing(f, TRUE) : f \in {g \in F : ops[g] # {}}}
  /\ owner' = [f \in Fds |-> IF f \in F /\ ops[f] = {} THEN Nobody ELSE owner[f]]

(* op_finish: the operation leaves its list, and the last one takes the    *)
(* poll with it (at the end of the dispatch).                              *)
FinishOp(f, op, close) ==
  /\ ops' = [ops EXCEPT ![f] = @ \ {op}]
  /\ handles' = IF ops[f] = {op} THEN handles \union {Closing(f, close)} ELSE handles

(* tls_teardown of a context: the poll's close callback is the last user   *)
(* of the struct and closes the descriptor; without a poll both happen     *)
(* here.  Pending operations are the caller's to settle.                   *)
FreedAnyway(c) == [c EXCEPT !.life = "freed"]
Freed(c) == IF c.poll = "closing" THEN [c EXCEPT !.wantFree = TRUE] ELSE FreedAnyway(c)
TornDown(c, wantFree) ==
  IF c.life = "torn" THEN IF wantFree THEN Freed(c) ELSE c
  ELSE IF c.poll = "open"
       THEN [c EXCEPT !.life = "torn", !.poll = "closing", !.wantFree = wantFree]
       ELSE [c EXCEPT !.life = IF wantFree THEN "freed" ELSE "torn", !.fd = NoFd]
ClosesHere(c) == IF c.life = "live" /\ c.poll # "open" THEN {c.fd} \ {NoFd} ELSE {}

(* $.tlsClose settles what is in flight, so that no promise hangs.         *)
Unsettled(c) == c
Settled(c) == [c EXCEPT !.reading = "no", !.writing = FALSE]

-----------------------------------------------------------------------------
(* Socket.close, after which nothing of the socket holds a descriptor but  *)
(* what closes it.  A socket whose handshake has not produced a context    *)
(* leaves its descriptor to native code (tcp.ts:282).                      *)
PlainFds(j) ==
  ({j.pending} \union (IF j.tls \/ j.tlsFd # NoFd THEN {} ELSE {j.fd})) \ {NoFd}

ForgetfulClose(j) == [j EXCEPT !.closing = TRUE, !.fd = NoFd, !.tls = FALSE, !.tlsFd = NoFd]
ClosedJs(j) == [ForgetfulClose(j) EXCEPT !.pending = NoFd]

CloseSocket(s, at) ==
  LET j == js[s]
      c == Settled(ctx[s]) IN
  /\ js' = [js EXCEPT ![s] = [ClosedJs(j) EXCEPT !.at = at]]
  /\ ctx' = IF j.tls THEN [ctx EXCEPT ![s] = TornDown(c, FALSE)] ELSE ctx
  /\ IF j.tls
     THEN NativeSame /\ owner' = [f \in Fds |-> IF f \in ClosesHere(c) THEN Nobody ELSE owner[f]]
     ELSE CloseFds(PlainFds(j))

Close(s) ==
  /\ js[s].at # "idle" /\ ~js[s].closing
  /\ CloseSocket(s, js[s].at)
  /\ UNCHANGED server

-----------------------------------------------------------------------------
(* connect() of tcp.ts: the name is resolved on the pool first.            *)
New(s) ==
  /\ js[s].at = "idle"
  /\ js' = [js EXCEPT ![s].at = "resolving"]
  /\ NativeSame /\ UNCHANGED <<owner, ctx, server>>

(* The name does not resolve, there is no descriptor, or connect() fails   *)
(* at once and the descriptor is closed again.                             *)
Unreached(s) ==
  /\ js[s].at = "resolving"
  /\ js' = [js EXCEPT ![s].at = "failed"]
  /\ NativeSame /\ UNCHANGED <<owner, ctx, server>>

(* connect() succeeds at once: the promise is resolved with the number.    *)
Connected(s, f) ==
  /\ js[s].at = "resolving" /\ Lowest(f)
  /\ owner' = [owner EXCEPT ![f] = s]
  /\ js' = [js EXCEPT ![s] = [@ EXCEPT !.at = "landed", !.landed = f]]
  /\ NativeSame /\ UNCHANGED <<ctx, server>>

(* connect() is under way: the script learns the number at once, and       *)
(* aborts the attempt if the socket was closed meanwhile (tcp.ts:214).     *)
Connects(s, f) ==
  /\ js[s].at = "resolving" /\ Lowest(f)
  /\ IF js[s].closing
     THEN /\ js' = [js EXCEPT ![s].at = "done"]
          /\ handles' = handles \union {Closing(f, TRUE)}
          /\ UNCHANGED ops
     ELSE /\ js' = [js EXCEPT ![s] = [@ EXCEPT !.at = "connecting", !.pending = f]]
          /\ ops' = [ops EXCEPT ![f] = {Op(s, "connect")}]
          /\ UNCHANGED handles
  /\ owner' = [owner EXCEPT ![f] = s]
  /\ UNCHANGED <<ctx, server>>

(* connect_on_ready: JS forgets the pending number before it hears of the  *)
(* outcome, and a failed attempt is closed by native code.                 *)
Remembered(j) == j
Forgotten(j) == [j EXCEPT !.pending = NoFd]

ConnectReady(s, f, connected) ==
  /\ Op(s, "connect") \in ops[f]
  /\ FinishOp(f, Op(s, "connect"), ~connected)
  /\ js' = [js EXCEPT ![s] =
       IF connected THEN [Forgotten(@) EXCEPT !.at = "landed", !.landed = f]
       ELSE [Forgotten(@) EXCEPT !.at = "failed"]]
  /\ UNCHANGED <<owner, ctx, server>>

-----------------------------------------------------------------------------
(* The continuation of connect: a socket that was closed meanwhile closes  *)
(* the number itself, a plain one opens, a secure one hands the number to  *)
(* a TLS context, whose set-up may throw before there is a poll, or before *)
(* there is a context at all (tls.cc:432): then nobody has the number.     *)
LateIsLost(s) ==
  /\ js[s].closing
  /\ js' = [js EXCEPT ![s] = [@ EXCEPT !.at = "done", !.landed = NoFd]]
  /\ NativeSame /\ UNCHANGED <<owner, ctx>>
LateIsClosed(s) ==
  /\ js[s].closing
  /\ js' = [js EXCEPT ![s] = [@ EXCEPT !.at = "done", !.landed = NoFd]]
  /\ CloseFds({js[s].landed})
  /\ UNCHANGED ctx

Opens(s) ==
  /\ ~js[s].closing /\ s \notin Secure
  /\ js' = [js EXCEPT ![s] = [@ EXCEPT !.at = "open", !.fd = js[s].landed, !.landed = NoFd]]
  /\ NativeSame /\ UNCHANGED <<owner, ctx>>

KeptToo(j) == [j EXCEPT !.tlsFd = j.landed, !.fd = j.landed, !.landed = NoFd]
HandedOver(j) == [j EXCEPT !.tlsFd = j.landed, !.landed = NoFd]

Handshakes(s) ==
  /\ ~js[s].closing /\ s \in Secure
  /\ \E made \in {"no", "context", "poll"} :
       /\ js' = [js EXCEPT ![s] =
            [HandedOver(@) EXCEPT !.at = IF made = "poll" THEN "handshaking" ELSE "failed"]]
       /\ ctx' = [ctx EXCEPT ![s] =
            CASE made = "no"      -> [NoContext EXCEPT !.life = "unmade"]
              [] made = "context" -> [NoContext EXCEPT !.life = "live", !.fd = js[s].landed]
              [] made = "poll"    -> [NoContext EXCEPT !.life = "live", !.fd = js[s].landed,
                                                       !.reading = "handshake", !.poll = "open"]]
  /\ NativeSame /\ UNCHANGED owner

Landed(s) ==
  /\ js[s].at = "landed"
  /\ LateIsClosed(s) \/ Opens(s) \/ Handshakes(s)
  /\ UNCHANGED server

(* The chain was rejected: its catch closes the socket.                    *)
Failed(s) ==
  /\ js[s].at = "failed"
  /\ IF js[s].closing
     THEN /\ js' = [js EXCEPT ![s].at = "done"]
          /\ NativeSame /\ UNCHANGED <<owner, ctx>>
     ELSE CloseSocket(s, "done")
  /\ UNCHANGED server

-----------------------------------------------------------------------------
(* tls_drive_op of a handshake: one that is refused tears its context      *)
(* down, as the script never gets it; one whose poll breaks leaves the     *)
(* context to the collector.                                               *)
HandshakeReady(s, outcome) ==
  /\ ctx[s].reading = "handshake"
  /\ LET c == [ctx[s] EXCEPT !.reading = "no"] IN
     ctx' = [ctx EXCEPT ![s] = IF outcome = "refused" THEN TornDown(c, FALSE) ELSE c]
  /\ js' = [js EXCEPT ![s].at = IF outcome = "agreed" THEN "shaken" ELSE "failed"]
  /\ NativeSame /\ UNCHANGED <<owner, server>>

(* The script receives the context.  It does not look at `closing`.        *)
Shaken(s) ==
  /\ js[s].at = "shaken"
  /\ js' = [js EXCEPT ![s] = [@ EXCEPT !.at = "open", !.tls = TRUE]]
  /\ NativeSame /\ UNCHANGED <<owner, ctx, server>>

Usable(s) == js[s].at = "open" /\ ~js[s].closing

(* A read or a write of a plain socket joins the poll of its descriptor.   *)
Begin(s, kind) ==
  /\ Usable(s) /\ js[s].fd # NoFd
  /\ Op(s, kind) \notin ops[js[s].fd]
  /\ kind = "write" => js[s].resume = NoFd
  /\ ops' = [ops EXCEPT ![js[s].fd] = @ \union {Op(s, kind)}]
  /\ UNCHANGED <<owner, js, handles, ctx, server>>

(* The socket may take a part of what is written: write() has the number   *)
(* and goes on with the rest when its continuation runs.                   *)
Ready(s, f, kind) ==
  /\ Op(s, kind) \in ops[f]
  /\ FinishOp(f, Op(s, kind), FALSE)
  /\ \E resume \in {NoFd, f} :
       /\ resume = f => kind = "write"
       /\ js' = [js EXCEPT ![s].resume = IF kind = "write" THEN resume ELSE @]
  /\ UNCHANGED <<owner, ctx, server>>

(* It does not look at `closing`.  A closed number cannot be polled.       *)
WritesOn(s) ==
  LET f == js[s].resume IN
  /\ f # NoFd
  /\ js' = [js EXCEPT ![s].resume = NoFd]
  /\ ops' = IF owner[f] = Nobody THEN ops ELSE [ops EXCEPT ![f] = @ \union {Op(s, "write")}]
  /\ UNCHANGED <<owner, handles, ctx, server>>

(* A write that goes on after its socket was closed joins the poll of a    *)
(* number that is about to be closed or that is another's by now.  What    *)
(* this does to the next owner is not modelled: a behaviour ends here.     *)
Strays == \E f \in Fds : \E op \in ops[f] : js[op.socket].closing

(* A read of a secure one tries at once, and both wait on the one poll.    *)
TlsBegin(s) ==
  /\ Usable(s) /\ js[s].tls
  /\ \/ ctx[s].reading = "no" /\ ctx' = [ctx EXCEPT ![s].reading = "read"]
     \/ ~ctx[s].writing /\ ctx' = [ctx EXCEPT ![s].writing = TRUE]
  /\ NativeSame /\ UNCHANGED <<owner, js, server>>

TlsReady(s) ==
  /\ \/ ctx[s].reading = "read" /\ ctx' = [ctx EXCEPT ![s].reading = "no"]
     \/ ctx[s].writing /\ ctx' = [ctx EXCEPT ![s].writing = FALSE]
  /\ NativeSame /\ UNCHANGED <<owner, js, server>>

-----------------------------------------------------------------------------
(* uv__run_closing_handles: all close callbacks, at the end of a turn.     *)
ClosedByCallback ==
  {h.fd : h \in {g \in handles : g.close}}
    \union ({ctx[s].fd : s \in {t \in Sockets : ctx[t].poll = "closing"}} \ {NoFd})
CloseCallbacks ==
  /\ handles # {} \/ \E s \in Sockets : ctx[s].poll = "closing"
  /\ handles' = {}
  /\ ctx' = [s \in Sockets |->
       IF ctx[s].poll # "closing" THEN ctx[s]
       ELSE [ctx[s] EXCEPT !.poll = "none", !.fd = NoFd,
                           !.life = IF ctx[s].wantFree THEN "freed" ELSE "torn"]]
  /\ owner' = [f \in Fds |-> IF f \in ClosedByCallback THEN Nobody ELSE owner[f]]
  /\ UNCHANGED <<js, ops, server>>

(* The finalizer of a context nothing refers to any more: not the socket,  *)
(* not a pending handshake, not a promise resolved with it.                *)
Referenced(s) == js[s].tls \/ ctx[s].reading = "handshake" \/ js[s].at = "shaken"

Collect(s) ==
  /\ ctx[s].life \in {"live", "torn"} /\ ~ctx[s].wantFree /\ ~Referenced(s)
  /\ ctx' = [ctx EXCEPT ![s] = TornDown(ctx[s], TRUE)]
  /\ owner' = [f \in Fds |-> IF f \in ClosesHere(ctx[s]) THEN Nobody ELSE owner[f]]
  /\ NativeSame /\ UNCHANGED <<js, server>>

(* The server: its poll is stopped and its descriptor closed in one call,  *)
(* or by its finalizer.  An accepted descriptor is a connected socket.     *)
Listen(f) ==
  /\ server.at = "idle" /\ Lowest(f)
  /\ owner' = [owner EXCEPT ![f] = "server"]
  /\ server' = [at |-> "listening", fd |-> f]
  /\ NativeSame /\ UNCHANGED <<js, ctx>>

Accept(s, f) ==
  /\ server.at = "listening" /\ js[s].at = "idle" /\ s \notin Secure /\ Lowest(f)
  /\ owner' = [owner EXCEPT ![f] = s]
  /\ js' = [js EXCEPT ![s] = [@ EXCEPT !.at = "landed", !.landed = f]]
  /\ NativeSame /\ UNCHANGED <<ctx, server>>

CloseServer ==
  /\ server.at = "listening"
  /\ owner' = [owner EXCEPT ![server.fd] = Nobody]
  /\ server' = [at |-> "closed", fd |-> NoFd]
  /\ NativeSame /\ UNCHANGED <<js, ctx>>

-----------------------------------------------------------------------------
NetInit ==
  /\ owner = [f \in Fds |-> Nobody]
  /\ js = [s \in Sockets |-> Idle]
  /\ ops = [f \in Fds |-> {}]
  /\ handles = {}
  /\ ctx = [s \in Sockets |-> NoContext]
  /\ server = [at |-> "idle", fd |-> NoFd]

Script(s) ==
  \/ New(s) \/ Close(s) \/ Landed(s) \/ Failed(s) \/ Shaken(s) \/ TlsBegin(s) \/ WritesOn(s)
  \/ \E kind \in {"read", "write"} : Begin(s, kind)

Loop(s) ==
  \/ Unreached(s) \/ TlsReady(s) \/ Collect(s)
  \/ \E f \in Fds : Connected(s, f) \/ Connects(s, f) \/ Accept(s, f)
  \/ \E f \in Fds, connected \in BOOLEAN : ConnectReady(s, f, connected)
  \/ \E outcome \in {"agreed", "refused", "broken"} : HandshakeReady(s, outcome)
  \/ \E f \in Fds, kind \in {"read", "write"} : Ready(s, f, kind)

NetNext ==
  /\ ~Strays
  /\ \/ \E s \in Sockets : Script(s) \/ Loop(s)
     \/ CloseCallbacks
     \/ CloseServer
     \/ \E f \in Fds : Listen(f)

NetSpec == NetInit /\ [][NetNext]_netVars

-----------------------------------------------------------------------------
(* Everything that remembers a descriptor of a socket.                     *)
Holds(s, f) ==
  \/ f \in {js[s].fd, js[s].pending, js[s].landed, ctx[s].fd}
  \/ js[s].resume = f /\ ~js[s].closing
  \/ \E op \in ops[f] : op.socket = s

(* Whoever remembers a descriptor owns it, and what will close it closes   *)
(* an open one: no call reaches a number that was closed and handed out    *)
(* again (tcp.ts:41, tcp.cc:103, tls.cc:147).                              *)
HoldersOwn ==
  /\ \A s \in Sockets, f \in Fds : Holds(s, f) => owner[f] = s
  /\ \A h \in handles : h.close => owner[h.fd] \in Sockets
  /\ server.at = "listening" => owner[server.fd] = "server"

(* At most one of them closes it: the socket, a continuation, the context  *)
(* or a close callback.                                                    *)
Closers(f) ==
  {<<s, "socket">> : s \in {t \in Sockets : f \in {js[t].fd, js[t].pending}}}
    \union {<<s, "continuation">> : s \in {t \in Sockets : js[t].landed = f}}
    \union {<<s, "context">> : s \in {t \in Sockets : ctx[t].fd = f}}
    \union {<<h, "callback">> : h \in {g \in handles : g.fd = f /\ g.close}}
OneCloser == \A f \in Fds : Cardinality(Closers(f)) <= 1

(* libuv allows one poll per descriptor, and a descriptor is not closed    *)
(* under it (tcp.cc:36, 106).                                              *)
Polled(f) == ops[f] # {} \/ \E s \in Sockets : ctx[s].fd = f /\ ctx[s].poll = "open"
OnePollPerFd ==
  \A f \in Fds : ops[f] # {} => ~\E s \in Sockets : ctx[s].fd = f /\ ctx[s].poll = "open"
NotClosedUnderPoll ==
  [][\A f \in Fds : owner[f] # Nobody /\ owner'[f] = Nobody => ~Polled(f)]_netVars

(* The struct of a context is freed once nothing uses it: the script, an   *)
(* operation, or the close callback of its poll; and closing it leaves no  *)
(* operation unanswered (tls.cc:108, 178).                                 *)
ContextsSettle ==
  \A s \in Sockets :
    /\ ctx[s].life = "freed" => ctx[s].poll = "none" /\ ~Referenced(s)
    /\ ctx[s].life \in {"torn", "freed"} => ctx[s].reading = "no" /\ ~ctx[s].writing

\* No continuation of a closed socket and no callback is to come.
AtRest(s) ==
  /\ js[s].closing /\ js[s].at \notin {"resolving", "landed", "failed", "shaken"}
  /\ ~\E h \in handles : owner[h.fd] = s
  /\ ctx[s].poll # "closing"
ConnectionClosed(s) == AtRest(s) => \A f \in Fds : owner[f] # s

(* close() closes the underlying connection (tcp.ts:245), also of a socket *)
(* whose connecting went through: once it is at rest, it owns nothing.     *)
ClosedIsClosed == \A s \in Sockets : js[s].at = "open" => ConnectionClosed(s)

(* Closing does so for plain sockets, and for secure ones unless they were *)
(* closed during the handshake, or the handshake threw: a context that was *)
(* never polled waits for the collector, and without a context nothing     *)
(* closes the descriptor ever (tcp.ts:282, tls.cc:432).                    *)
PlainIsClosed ==
  \A s \in Sockets :
    \/ ConnectionClosed(s)
    \/ s \in Secure /\ (ctx[s].life \in {"live", "unmade"} \/ ctx[s].reading = "handshake")

(* Descriptors, polls and contexts have one owner each, whichever of       *)
(* script, operation and close callback comes last (tcp.cc, tls.cc), as    *)
(* long as no write goes on after a close: HoldersOwn fails when one does. *)
DescriptorsAccounted ==
  /\ [](Strays \/ (HoldersOwn /\ OneCloser /\ OnePollPerFd /\ ContextsSettle /\ PlainIsClosed))
  /\ NotClosedUnderPoll
=============================================================================
