-------------------------- MODULE SessionLifecycle ---------------------------
(***************************************************************************)
(* The Server, its Sessions, and the threads that run their callbacks.     *)
(*                                                                         *)
(* The main thread runs the io_service.  Every accepted connection brings  *)
(* one more thread, which runs Session::Start and then the io_service, and *)
(* never leaves it: the acceptor always has work.  A callback is run by    *)
(* any thread of this pool that is free.  The callbacks of a session are   *)
(* wrapped in its strand and exclude each other; Timeout is not, and holds *)
(* a bare pointer to the session.                                          *)
(***************************************************************************)
EXTENDS Integers, Sequences, FiniteSets

CONSTANTS
  Sessions,   \* bound: the Session objects the server may construct
  MayLeave,   \* sessions whose client may go away
  MayTie,     \* sessions whose timer may expire while a callback is due
  MayStall,   \* sessions that may keep a handler or a client busy for ever
  None        \* no session

ASSUME SessionAssumption ==
  /\ IsFiniteSet(Sessions) /\ None \notin Sessions
  /\ MayLeave \subseteq Sessions /\ MayTie \subseteq Sessions /\ MayStall \subseteq Sessions

VARIABLES
  status,      \* the process: "up", "undefined" (data race)
  cur_session, \* cur_session_, the session waiting for a connection
  accept,      \* the async_accept: "waiting", or its HandleAccept is due
  thread,      \* the thread a session was given, and where it is
  timer,       \* _timer and its callback
  read,        \* the async_read, or what the HandleRead due was given
  routing,     \* sessions in HandleRead, past its test of timeout_check, with a request
  closing,     \* sessions in Timeout, between its write and its close
  socket,      \* socket_
  peer,        \* the client is there
  timeout_check,
  sending,     \* sessions whose reply is not yet all with the client
  written,     \* HandleWrite callbacks due
  got          \* the responses the client received

server  == <<cur_session, accept>>
running == <<routing, closing>>
reply   == <<sending, written, got>>
vars    == <<status, server, thread, timer, read, running, socket, peer, timeout_check, reply>>

Responses == {"reply", "refused", "timeout", "cut"}
Arrivals  == {"request", "upgrade", "bad"}   \* bad: a parse error, or an early end

Pool       == {s \in Sessions : thread[s] = "pool"}
FreeThread(n) == Cardinality(routing) + Cardinality(closing) + n <= 1 + Cardinality(Pool)

(* A session no shared pointer is held to no longer exists. *)
Alive(s) ==
  \/ s = cur_session \/ thread[s] # "none"
  \/ read[s] # "off" \/ s \in routing \/ s \in sending \/ written[s] > 0

Init ==
  /\ status = "up"
  /\ cur_session \in Sessions /\ accept = "waiting"
  /\ thread = [s \in Sessions |-> "none"]
  /\ timer = [s \in Sessions |-> "off"]
  /\ read = [s \in Sessions |-> "off"]
  /\ routing = {} /\ closing = {}
  /\ socket = [s \in Sessions |-> IF s = cur_session THEN "unopened" ELSE "none"]
  /\ peer = [s \in Sessions |-> TRUE]
  /\ timeout_check = [s \in Sessions |-> FALSE]
  /\ sending = {} /\ written = [s \in Sessions |-> 0]
  /\ got = [s \in Sessions |-> <<>>]

-----------------------------------------------------------------------------
(***************************************************************************)
(* Mutants: plausible bugs that the properties below must catch.  Nothing  *)
(* uses them.                                                              *)
(***************************************************************************)
(* HandleAccept returns on an error. *)
StopOnError ==
  /\ status = "up" /\ FreeThread(1) /\ accept = "connected"
  /\ thread' = [thread EXCEPT ![cur_session] = "spawned"]
  /\ LET unused == {s \in Sessions : socket[s] = "none"}
     IN  IF unused = {}
         THEN cur_session' = None /\ UNCHANGED socket
         ELSE \E s \in unused : cur_session' = s /\ socket' = [socket EXCEPT ![s] = "unopened"]
  /\ accept' = "waiting"
  /\ UNCHANGED <<status, timer, read, running, peer, timeout_check, reply>>

(* Start returns instead of running the io_service. *)
StartReturns(s) ==
  /\ status = "up" /\ thread[s] = "joining"
  /\ thread' = [thread EXCEPT ![s] = "none"]
  /\ UNCHANGED <<status, server, timer, read, running, socket, peer, timeout_check, reply>>

(* Timeout does not set timeout_check. *)
ForgetCheck(s) ==
  /\ status = "up" /\ FreeThread(1) /\ timer[s] = "expired" /\ s \notin sending
  /\ timer' = [timer EXCEPT ![s] = "done"]
  /\ closing' = closing \cup {s}
  /\ written' = [written EXCEPT ![s] = @ + 1]
  /\ got' = IF socket[s] = "open" /\ peer[s] THEN [got EXCEPT ![s] = Append(@, "timeout")] ELSE got
  /\ UNCHANGED <<status, server, thread, read, routing, socket, peer, timeout_check, sending>>

(* A write that fails is tried once more. *)
WriteAgain(s, response) ==
  /\ written' = [written EXCEPT ![s] = @ + IF socket[s] = "open" /\ peer[s] THEN 1 ELSE 2]
  /\ got' = IF socket[s] = "open" /\ peer[s] THEN [got EXCEPT ![s] = Append(@, response)] ELSE got
  /\ UNCHANGED sending

(* HandleRead no longer cancels the timer. *)
KeepTimer(s) == UNCHANGED timer

(* The WebsocketHandler is lent socket_, and HandleWrite closes it. *)
CloseMoved(s) ==
  /\ status = "up" /\ Cardinality(routing) + Cardinality(closing) <= Cardinality(Pool)
  /\ s \notin routing /\ written[s] > 0
  /\ written' = [written EXCEPT ![s] = @ - 1]
  /\ socket' = [socket EXCEPT ![s] = "closed"]
  /\ UNCHANGED <<status, server, thread, timer, read, running, peer, timeout_check, sending, got>>

-----------------------------------------------------------------------------
(***************************************************************************)
(* Server                                                                  *)
(***************************************************************************)

(* async_accept completes. *)
Connect ==
  /\ status = "up" /\ cur_session # None /\ accept = "waiting"
  /\ \/ /\ accept' = "connected"
        /\ socket' = [socket EXCEPT ![cur_session] = "open"]
     \/ accept' = "failed" /\ UNCHANGED socket
  /\ UNCHANGED <<status, cur_session, thread, timer, read, running, peer, timeout_check, reply>>

(***************************************************************************)
(* HandleAccept gives the new session a detached thread, or drops it, and  *)
(* in either case StartAccept constructs the next one.                     *)
(***************************************************************************)
HandleAccept ==
  /\ status = "up" /\ FreeThread(1) /\ accept \in {"connected", "failed"}
  /\ thread' = IF accept = "connected" THEN [thread EXCEPT ![cur_session] = "spawned"] ELSE thread
  /\ LET unused  == {s \in Sessions : socket[s] = "none"}
         dropped == IF accept = "failed" THEN [socket EXCEPT ![cur_session] = "dropped"] ELSE socket
     IN  IF unused = {}
         THEN cur_session' = None /\ socket' = dropped
         ELSE \E s \in unused : cur_session' = s /\ socket' = [dropped EXCEPT ![s] = "unopened"]
  /\ accept' = "waiting"
  /\ UNCHANGED <<status, timer, read, running, peer, timeout_check, reply>>

-----------------------------------------------------------------------------
(***************************************************************************)
(* Session::Start, on the thread of the session: arm the timer, start to   *)
(* read, run the io_service.                                               *)
(***************************************************************************)
Start(s) ==
  /\ status = "up" /\ thread[s] = "spawned"
  /\ timer' = [timer EXCEPT ![s] = "armed"]
  /\ thread' = [thread EXCEPT ![s] = "starting"]
  /\ UNCHANGED <<status, server, read, running, socket, peer, timeout_check, reply>>

StartRead(s) ==
  /\ status = "up" /\ thread[s] = "starting"
  /\ read' = [read EXCEPT ![s] = IF socket[s] = "open" THEN "pending" ELSE "failed"]
  /\ thread' = [thread EXCEPT ![s] = "joining"]
  /\ UNCHANGED <<status, server, timer, running, socket, peer, timeout_check, reply>>

JoinPool(s) ==
  /\ status = "up" /\ thread[s] = "joining"
  /\ thread' = [thread EXCEPT ![s] = "pool"]
  /\ UNCHANGED <<status, server, timer, read, running, socket, peer, timeout_check, reply>>

(***************************************************************************)
(* What the client does, and the clock.  The timer of a session that is    *)
(* not in MayTie never expires while a callback of the session waits for a *)
(* thread, nor does its request arrive while Timeout does.  It may well    *)
(* expire while a handler runs or a long reply is sent.                    *)
(***************************************************************************)
Disconnect(s) ==
  /\ status = "up" /\ s \in MayLeave /\ peer[s] /\ socket[s] = "open"
  /\ peer' = [peer EXCEPT ![s] = FALSE]
  /\ UNCHANGED <<status, server, thread, timer, read, running, socket, timeout_check, reply>>

Receive(s) ==
  /\ status = "up" /\ read[s] = "pending" /\ peer[s]
  /\ s \in MayTie \/ timer[s] = "armed"
  /\ \E kind \in Arrivals : read' = [read EXCEPT ![s] = kind]
  /\ UNCHANGED <<status, server, thread, timer, running, socket, peer, timeout_check, reply>>

ReadFails(s) ==
  /\ status = "up" /\ read[s] = "pending" /\ ~peer[s]
  /\ read' = [read EXCEPT ![s] = "failed"]
  /\ UNCHANGED <<status, server, thread, timer, running, socket, peer, timeout_check, reply>>

Due(s) == read[s] \in Arrivals \cup {"failed"} \/ written[s] > 0

Expire(s) ==
  /\ status = "up" /\ timer[s] = "armed"
  /\ s \in MayTie \/ ~Due(s)
  /\ timer' = [timer EXCEPT ![s] = "expired"]
  /\ UNCHANGED <<status, server, thread, read, running, socket, peer, timeout_check, reply>>

(* The client has taken all of the reply, or the write fails. *)
SendDone(s) ==
  /\ status = "up" /\ s \in sending
  /\ sending' = sending \ {s}
  /\ written' = [written EXCEPT ![s] = @ + 1]
  /\ got' = IF peer[s] THEN [got EXCEPT ![s] = Append(@, "reply")] ELSE got
  /\ UNCHANGED <<status, server, thread, timer, read, running, socket, peer, timeout_check>>

-----------------------------------------------------------------------------
(***************************************************************************)
(* An async_write on socket_: it fails at once when the socket is closed,  *)
(* was moved to a WebsocketHandler, or has lost its client.  What is short *)
(* is with the client before async_write returns.                          *)
(***************************************************************************)
Writable(s) == socket[s] = "open" /\ peer[s]

Write(s, response) ==
  /\ written' = [written EXCEPT ![s] = @ + 1]
  /\ got' = IF Writable(s) THEN [got EXCEPT ![s] = Append(@, response)] ELSE got
  /\ UNCHANGED sending

WriteLong(s) ==
  /\ Writable(s)
  /\ sending' = sending \cup {s}
  /\ UNCHANGED <<written, got>>

(* The close of socket_ ends n writes, a long one among them. *)
Cut(s, n) ==
  /\ sending' = sending \ {s}
  /\ written' = [written EXCEPT ![s] = @ + n]
  /\ got' = IF peer[s] THEN [got EXCEPT ![s] = Append(@, "cut")] ELSE got

(* timer.cancel(): it does not call back an expiry that is already due. *)
Cancel(s) == timer' = [timer EXCEPT ![s] = IF @ = "armed" THEN "aborted" ELSE @]

(***************************************************************************)
(* HandleRead with PrepareResponse, on the strand.  After an upgrade it    *)
(* still writes, to the socket it has just moved away.  After an error it  *)
(* leaves the timer armed.                                                 *)
(***************************************************************************)
HandleReadLate(s) ==
  /\ status = "up" /\ FreeThread(1) /\ s \notin routing
  /\ read[s] \in Arrivals \cup {"failed"} /\ timeout_check[s]
  /\ read' = [read EXCEPT ![s] = "off"]
  /\ UNCHANGED <<status, server, thread, timer, running, socket, peer, timeout_check, reply>>

HandleRead(s) ==
  /\ status = "up" /\ FreeThread(1) /\ s \notin routing
  /\ read[s] \in Arrivals \cup {"failed"} /\ ~timeout_check[s]
  /\ read' = [read EXCEPT ![s] = "off"]
  /\ \/ /\ read[s] = "request"
        /\ Cancel(s)
        /\ routing' = routing \cup {s}
        /\ UNCHANGED <<socket, reply>>
     \/ /\ read[s] = "upgrade"
        /\ Cancel(s)
        /\ socket' = [socket EXCEPT ![s] = "moved"]
        /\ written' = [written EXCEPT ![s] = @ + 1]
        /\ UNCHANGED <<routing, sending, got>>
     \/ /\ read[s] \in {"bad", "failed"}
        /\ Write(s, "refused")
        /\ UNCHANGED <<timer, routing, socket>>
  /\ UNCHANGED <<status, server, thread, closing, peer, timeout_check>>

(* RouteRequest returns, and HandleRead writes the response. *)
Respond(s) ==
  /\ status = "up" /\ s \in routing
  /\ routing' = routing \ {s}
  /\ Write(s, "reply") \/ WriteLong(s)
  /\ UNCHANGED <<status, server, thread, timer, read, closing, socket, peer, timeout_check>>

HandleWrite(s) ==
  /\ status = "up" /\ FreeThread(1) /\ s \notin routing /\ written[s] > 0
  /\ written' = [written EXCEPT ![s] = @ - 1]
  /\ socket' = [socket EXCEPT ![s] = IF @ = "open" THEN "closed" ELSE @]
  /\ UNCHANGED <<status, server, thread, timer, read, running, peer, timeout_check, sending, got>>

(***************************************************************************)
(* Timeout.  It is not on the strand: an expiry that cancel() came too     *)
(* late for runs beside RouteRequest.  It overwrites res and writes it; a  *)
(* reply still being sent is cut, for the close aborts both writes.  Then  *)
(* it closes the socket, which aborts the read and a reply begun meanwhile.*)
(***************************************************************************)
TimeoutAborted(s) ==
  /\ status = "up" /\ FreeThread(1) /\ timer[s] = "aborted"
  /\ timer' = [timer EXCEPT ![s] = "done"]
  /\ UNCHANGED <<status, server, thread, read, running, socket, peer, timeout_check, reply>>

Timeout(s) ==
  /\ status = "up" /\ FreeThread(1) /\ timer[s] = "expired"
  /\ timer' = [timer EXCEPT ![s] = "done"]
  /\ timeout_check' = [timeout_check EXCEPT ![s] = TRUE]
  /\ closing' = closing \cup {s}
  /\ \/ s \notin sending /\ Write(s, "timeout")
     \/ s \in sending /\ Cut(s, 2)
  /\ UNCHANGED <<status, server, thread, read, routing, socket, peer>>

TimeoutClose(s) ==
  /\ status = "up" /\ s \in closing
  /\ closing' = closing \ {s}
  /\ socket' = [socket EXCEPT ![s] = IF @ = "open" THEN "closed" ELSE @]
  /\ read' = [read EXCEPT ![s] = IF @ = "pending" THEN "failed" ELSE @]
  /\ \/ s \notin sending /\ UNCHANGED reply
     \/ s \in sending /\ Cut(s, 1)
  /\ UNCHANGED <<status, server, thread, timer, routing, peer, timeout_check>>

(***************************************************************************)
(* Two threads in one session: Timeout together with Start or with a       *)
(* callback of the strand, on socket_ and res.  One such pair is never far *)
(* away: the HandleWrite of Timeout's own write may run before Timeout     *)
(* closes the socket.  What happens then is anything, a double close of    *)
(* the descriptor among it.                                                *)
(***************************************************************************)
Races(s) ==
  \/ s \in closing /\ FreeThread(1) /\ written[s] > 0
  \/ s \in closing /\ (s \in routing \/ thread[s] = "starting")
  \/ timer[s] = "expired" /\ FreeThread(1) /\ (s \in routing \/ thread[s] = "starting")
  \/ timer[s] = "expired" /\ FreeThread(2) /\ (Due(s) \/ s \in sending)

Race(s) ==
  /\ status = "up" /\ Races(s)
  /\ status' = "undefined"
  /\ UNCHANGED <<server, thread, timer, read, running, socket, peer, timeout_check, reply>>

-----------------------------------------------------------------------------
Callback(s) ==
  \/ HandleReadLate(s) \/ HandleRead(s) \/ HandleWrite(s)
  \/ TimeoutAborted(s) \/ Timeout(s) \/ TimeoutClose(s)

Work(s) == Start(s) \/ StartRead(s) \/ JoinPool(s) \/ ReadFails(s) \/ Expire(s) \/ Callback(s)

Next ==
  \/ Connect \/ HandleAccept
  \/ \E s \in Sessions :
       Work(s) \/ Disconnect(s) \/ Receive(s) \/ Respond(s) \/ SendDone(s) \/ Race(s)

Spec == Init /\ [][Next]_vars

(***************************************************************************)
(* Threads that can run do, and a due callback is taken by a free thread.  *)
(* A request handler returns and a client reads what it is sent, except    *)
(* for the sessions of MayStall.  No client has to send anything.          *)
(***************************************************************************)
FairSpec ==
  /\ Spec
  /\ WF_vars(HandleAccept)
  /\ \A s \in Sessions : WF_vars(Work(s))
  /\ \A s \in Sessions \ MayStall : WF_vars(Respond(s)) /\ WF_vars(SendDone(s))

-----------------------------------------------------------------------------
(***************************************************************************)
(* Properties                                                              *)
(***************************************************************************)

(* Every variable keeps its type.  No session is ever owed more than two   *)
(* HandleWrites: that of its response and that of its timeout              *)
(* (session.h:26-58, session.cc:43-45, 81-83).                             *)
TypeOK ==
  /\ status \in {"up", "undefined"}
  /\ cur_session \in Sessions \cup {None}
  /\ accept \in {"waiting", "connected", "failed"}
  /\ thread \in [Sessions -> {"none", "spawned", "starting", "joining", "pool"}]
  /\ timer \in [Sessions -> {"off", "armed", "expired", "aborted", "done"}]
  /\ read \in [Sessions -> Arrivals \cup {"off", "pending", "failed"}]
  /\ routing \in SUBSET Sessions /\ closing \in SUBSET Sessions
  /\ socket \in [Sessions -> {"none", "unopened", "open", "closed", "moved", "dropped"}]
  /\ peer \in [Sessions -> BOOLEAN] /\ timeout_check \in [Sessions -> BOOLEAN]
  /\ sending \in SUBSET Sessions /\ written \in [Sessions -> 0..2]
  /\ got \in [Sessions -> Seq(Responses)]

(* The bare pointer in the callback of the timer, and the one Timeout runs *)
(* with, are valid: the session still exists.  It does because its thread  *)
(* never leaves io_service_.run() (session.cc:55, 62).                     *)
TimerSafe ==
  \A s \in Sessions :
    timer[s] \in {"armed", "expired", "aborted"} \/ s \in closing => Alive(s)

(* A thread is left for the acceptor, the timers and the other sessions,   *)
(* however many handlers are blocked: every request that is being handled  *)
(* has brought a thread (session.cc:62, server.cc:45-49).                  *)
SpareThread ==
  Cardinality(routing) <= Cardinality({s \in Sessions : thread[s] \in {"joining", "pool"}})

(* Once its client was told that it timed out, no request is taken up: a   *)
(* HandleRead that comes later neither routes it nor hands the connection  *)
(* over, also when it arrives while the timer expires.  Only one that was  *)
(* past its test already, a tie, goes on (session.cc:42, 67-69, 89-96).    *)
ToldTimeout(s) == got[s] # <<>> /\ got[s][1] = "timeout"

NoWorkAfterTimeout ==
  [][\A s \in Sessions : ToldTimeout(s) =>
       /\ s \in routing' => s \in routing /\ s \in MayTie
       /\ socket'[s] = "moved" => socket[s] = "moved"]_vars

(* A client that stays gets exactly one whole response before the session  *)
(* closes the connection, and never a second one, also not from the timer  *)
(* that a failed read leaves armed, unless the timer may tie with a        *)
(* callback (session.cc:33-47, 66-84, 121-126).                            *)
OneResponse ==
  \A s \in Sessions \ MayTie :
    /\ Len(got[s]) <= 1
    /\ socket[s] = "closed" /\ peer[s] => Len(got[s]) = 1 /\ got[s][1] # "cut"

(* A connection handed to a WebsocketHandler is neither written nor closed *)
(* by its session any more, although HandleRead goes on to write and the   *)
(* timer may be due (session.cc:81-83, 91-94).                             *)
HandedOver ==
  [][\A s \in Sessions :
       socket[s] = "moved" => socket'[s] = "moved" /\ got'[s] = got[s]]_vars

(* The server goes on accepting, whatever the sessions do and also after   *)
(* an accept that failed (server.cc:27-41).                                *)
Accepting == (accept # "waiting") ~> (accept = "waiting" \/ status # "up")

(* Every open connection comes to an end, also while others block in a     *)
(* handler or do not read: it is closed, or handed over                    *)
(* (server.cc:27-41, session.cc:33-63, 121-126).                           *)
Ended ==
  \A s \in Sessions \ MayStall :
    (socket[s] = "open") ~> (socket[s] \in {"closed", "moved"} \/ status # "up")
=============================================================================
