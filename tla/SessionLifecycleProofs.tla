------------------------ MODULE SessionLifecycleProofs ------------------------
(***************************************************************************)
(* Theorems about SessionLifecycle, for every finite set of sessions.      *)
(*                                                                         *)
(* Almost every step is a step of one session.  SessionInv(s) is what is   *)
(* true of a session by itself; it is inductive together with TypeOK, and  *)
(* implies the invariants of the runs and HandedOver.                      *)
(***************************************************************************)
EXTENDS SessionLifecycle, FiniteSetTheorems, TLAPS

Joined == {"joining", "pool"}

(* What the thread of a session has done so far, and what its timer and    *)
(* its callbacks can therefore be doing.                                   *)
Lifecycle(s) ==
  /\ timer[s] = "off" <=> thread[s] \in {"none", "spawned"}
  /\ read[s] # "off" \/ s \in routing \/ s \in sending => thread[s] \in Joined
  /\ socket[s] = "none" \/ s = cur_session => thread[s] = "none"
  /\ s = cur_session => socket[s] # "none"
  /\ s \in closing => timeout_check[s]
  /\ timeout_check[s] => timer[s] = "done"

(* HandleRead is still to come. *)
Unread(s) == thread[s] \in {"none", "spawned", "starting"} \/ read[s] # "off"

(* HandleRead is still to come, runs, or its response is being sent. *)
Answering(s) == Unread(s) \/ s \in routing \/ s \in sending

(* The timer may still write. *)
Ticking(s) == timer[s] \in {"off", "armed", "expired"}

(* Each session writes once for its request and once for its timer, and is *)
(* in one place at a time; a socket that was moved was moved by HandleRead.*)
Owed(s) ==
  /\ s \in routing => ~Unread(s) /\ s \notin sending
  /\ s \in sending => ~Unread(s)
  /\ socket[s] = "moved" => ~Answering(s)
  /\ Answering(s) /\ Ticking(s) => written[s] = 0
  /\ Answering(s) \/ Ticking(s) => written[s] <= 1

(* The session knows that its client was told that it timed out.           *)
TimedOut(s) == ToldTimeout(s) => timeout_check[s]

(* While the timer cannot tie with a callback: which of the two answers    *)
(* the client, and that it does before the socket is closed.               *)
Single(s) ==
  /\ Unread(s) /\ ~timeout_check[s] =>
       got[s] = <<>> /\ s \notin routing /\ s \notin sending /\ written[s] = 0
  /\ s \in routing \/ s \in sending =>
       /\ got[s] = <<>> /\ written[s] = 0 /\ read[s] = "off"
       /\ timer[s] \in {"aborted", "done"} /\ ~timeout_check[s]
  /\ s \notin routing \/ s \notin sending
  /\ Len(got[s]) \in {0, 1}
  /\ got[s] # <<>> => got[s][1] # "cut"
  /\ socket[s] = "open" /\ got[s] # <<>> => written[s] > 0
  /\ socket[s] = "open" /\ peer[s] /\ (written[s] > 0 \/ s \in closing) => got[s] # <<>>
  /\ socket[s] = "closed" /\ peer[s] => got[s] # <<>>
  /\ timer[s] = "expired" /\ socket[s] = "open" /\ peer[s] =>
       read[s] \in {"off", "pending"} /\ written[s] = 0
  /\ read[s] \in Arrivals => timer[s] = "armed"

SessionInv(s) ==
  /\ Lifecycle(s)
  /\ Owed(s)
  /\ TimedOut(s)
  /\ s \notin MayTie => Single(s)

Inv == TypeOK /\ \A s \in Sessions : SessionInv(s)

-----------------------------------------------------------------------------
(* A session whose part of the state does not change keeps its invariant.  *)
LEMMA Frame ==
  ASSUME NEW t \in Sessions, SessionInv(t),
         thread'[t] = thread[t], timer'[t] = timer[t], read'[t] = read[t],
         socket'[t] = socket[t], peer'[t] = peer[t], timeout_check'[t] = timeout_check[t],
         written'[t] = written[t], got'[t] = got[t],
         t \in routing' <=> t \in routing, t \in closing' <=> t \in closing,
         t \in sending' <=> t \in sending, t = cur_session' <=> t = cur_session
  PROVE  SessionInv(t)'
<1>1. Lifecycle(t)'
  BY DEF SessionInv, Lifecycle, Joined
<1>2. Owed(t)'
  BY DEF SessionInv, Owed, Answering, Ticking, Unread
<1>3. TimedOut(t)'
  BY DEF SessionInv, TimedOut, ToldTimeout
<1>4. t \notin MayTie => Single(t)'
  BY DEF SessionInv, Single, Unread
<1> QED
  BY <1>1, <1>2, <1>3, <1>4 DEF SessionInv

(* What Append does to what a client received. *)
LEMMA Appended ==
  ASSUME NEW q \in Seq(Responses), NEW x \in Responses
  PROVE  /\ Append(q, x) \in Seq(Responses) /\ Append(q, x) # <<>>
         /\ Len(Append(q, x)) = Len(q) + 1
         /\ q = <<>> => Append(q, x)[1] = x
         /\ q # <<>> => Append(q, x)[1] = q[1]
OBVIOUS

(* Which sequences are empty. *)
LEMMA EmptyLen == Len(<<>>) = 0 /\ \A q \in Seq(Responses) : q # <<>> => Len(q) # 0
OBVIOUS

(* What one more response does to what the clients received. *)
LEMMA Told ==
  ASSUME got \in [Sessions -> Seq(Responses)], NEW s \in Sessions, NEW x \in Responses,
         got' = [got EXCEPT ![s] = Append(@, x)]
  PROVE  /\ got' \in [Sessions -> Seq(Responses)] /\ \A t \in Sessions \ {s} : got'[t] = got[t]
         /\ got'[s] # <<>> /\ Len(got'[s]) = Len(got[s]) + 1
         /\ got[s] = <<>> => got'[s][1] = x /\ Len(got'[s]) = 1
         /\ got[s] # <<>> => got'[s][1] = got[s][1]
<1>1. got[s] \in Seq(Responses) /\ got'[s] = Append(got[s], x)
  OBVIOUS
<1>2. /\ got'[s] \in Seq(Responses) /\ got'[s] # <<>> /\ Len(got'[s]) = Len(got[s]) + 1
      /\ got[s] = <<>> => got'[s][1] = x
      /\ got[s] # <<>> => got'[s][1] = got[s][1]
  BY <1>1, Appended
<1>3. got[s] = <<>> => Len(got'[s]) = 1
  BY <1>2
<1> QED
  BY <1>2, <1>3

(* What an async_write does to the session that issues it. *)
LEMMA Writes ==
  ASSUME TypeOK, NEW s \in Sessions, NEW x \in Responses, Write(s, x)
  PROVE  /\ written'[s] = written[s] + 1 /\ \A t \in Sessions \ {s} : written'[t] = written[t]
         /\ sending' = sending
         /\ got' \in [Sessions -> Seq(Responses)] /\ \A t \in Sessions \ {s} : got'[t] = got[t]
         /\ ~(socket[s] = "open" /\ peer[s]) => got'[s] = got[s]
         /\ socket[s] = "open" /\ peer[s] =>
              /\ got'[s] # <<>>
              /\ got[s] = <<>> => got'[s][1] = x /\ Len(got'[s]) = 1
              /\ got[s] # <<>> => got'[s][1] = got[s][1]
<1>1. /\ written'[s] = written[s] + 1 /\ \A t \in Sessions \ {s} : written'[t] = written[t]
      /\ sending' = sending /\ got \in [Sessions -> Seq(Responses)]
  BY DEF Write, TypeOK
<1>2. CASE Writable(s)
  <2>1. got' = [got EXCEPT ![s] = Append(@, x)]
    BY <1>2 DEF Write
  <2> QED
    BY <1>1, <1>2, <2>1, Told DEF Writable
<1>3. CASE ~Writable(s)
  BY <1>1, <1>3 DEF Write, Writable
<1> QED
  BY <1>2, <1>3

(* What the end of n writes does to the session they belong to.            *)
LEMMA Cuts ==
  ASSUME TypeOK, NEW s \in Sessions, NEW n \in Nat, Cut(s, n)
  PROVE  /\ written'[s] = written[s] + n /\ \A t \in Sessions \ {s} : written'[t] = written[t]
         /\ DOMAIN written' = Sessions /\ written' = [t \in Sessions |-> written'[t]]
         /\ sending' = sending \ {s}
         /\ got' \in [Sessions -> Seq(Responses)] /\ \A t \in Sessions \ {s} : got'[t] = got[t]
<1>1. /\ written'[s] = written[s] + n /\ \A t \in Sessions \ {s} : written'[t] = written[t]
      /\ DOMAIN written' = Sessions /\ written' = [t \in Sessions |-> written'[t]]
      /\ sending' = sending \ {s} /\ got \in [Sessions -> Seq(Responses)]
  BY DEF Cut, TypeOK
<1>2. CASE peer[s]
  <2>1. got' = [got EXCEPT ![s] = Append(@, "cut")]
    BY <1>2 DEF Cut
  <2> QED
    BY <1>1, <2>1, Told DEF Responses
<1>3. CASE ~peer[s]
  BY <1>1, <1>3 DEF Cut
<1> QED
  BY <1>2, <1>3

(* The range of written follows from what is owed. *)
LEMMA WrittenType ==
  ASSUME TypeOK, NEW s \in Sessions, \A t \in Sessions \ {s} : written'[t] = written[t],
         DOMAIN written' = Sessions, written' = [t \in Sessions |-> written'[t]], written'[s] \in 0..2
  PROVE  written' \in [Sessions -> 0..2]
BY DEF TypeOK

(* The invariant holds before the first connection. *)
LEMMA InitInv == Init => Inv
<1> SUFFICES ASSUME Init PROVE Inv
  OBVIOUS
<1> USE SessionAssumption DEF Init
<1>1. TypeOK
  BY DEF TypeOK, Arrivals, Responses
<1>2. ASSUME NEW s \in Sessions PROVE SessionInv(s)
  BY DEF SessionInv, Lifecycle, Joined, Owed, Answering, Ticking, Unread, TimedOut, ToldTimeout,
     Single, Arrivals
<1> QED
  BY <1>1, <1>2 DEF Inv

(* Every step keeps the invariant: the step of a session by what it does   *)
(* to that session, the others by Frame.                                   *)
LEMMA NextInv == Inv /\ [Next]_vars => Inv'
<1> SUFFICES ASSUME Inv, [Next]_vars PROVE Inv'
  OBVIOUS
<1> USE SessionAssumption DEF server, running, reply
<1>0. TypeOK /\ \A s \in Sessions : SessionInv(s)
  BY DEF Inv
<1>a. ASSUME NEW s \in Sessions
      PROVE  /\ SessionInv(s) /\ written[s] \in 0..2 /\ got[s] \in Seq(Responses)
             /\ thread[s] \in {"none", "spawned", "starting", "joining", "pool"}
             /\ timer[s] \in {"off", "armed", "expired", "aborted", "done"}
             /\ read[s] \in {"request", "upgrade", "bad", "off", "pending", "failed"}
  BY <1>0 DEF TypeOK, Arrivals
<1>1. ASSUME NEW s \in Sessions, Start(s) PROVE Inv'
  <2>1. /\ thread'[s] = "starting" /\ timer'[s] = "armed" /\ read'[s] = read[s]
        /\ socket'[s] = socket[s] /\ peer'[s] = peer[s]
        /\ timeout_check'[s] = timeout_check[s] /\ written'[s] = written[s]
        /\ got'[s] = got[s] /\ routing' = routing /\ closing' = closing
        /\ sending' = sending /\ cur_session' = cur_session /\ thread[s] = "spawned"
    BY <1>0, <1>1 DEF Start, TypeOK
  <2>2. SessionInv(s)'
    <3>1. Lifecycle(s)'
      BY <1>a, <2>1 DEF SessionInv, Lifecycle, Joined
    <3>2. Owed(s)'
      BY <1>a, <2>1 DEF SessionInv, Lifecycle, Joined, Owed, Answering, Ticking, Unread
    <3>3. TimedOut(s)'
      BY <1>a, <2>1 DEF SessionInv, Lifecycle, Owed, Answering, TimedOut, ToldTimeout
    <3>4. s \notin MayTie => Single(s)'
      BY <1>a, <2>1 DEF SessionInv, Lifecycle, Joined, Owed, Answering, Single, Unread, Arrivals
    <3> QED
      BY <3>1, <3>2, <3>3, <3>4 DEF SessionInv
  <2>3. \A t \in Sessions \ {s} : SessionInv(t)'
    BY <1>0, <1>1, Frame DEF Start, TypeOK
  <2>4. TypeOK'
    BY <1>0, <1>1 DEF Start, TypeOK, Arrivals
  <2> QED
    BY <2>2, <2>3, <2>4 DEF Inv
<1>2. ASSUME NEW s \in Sessions, StartRead(s) PROVE Inv'
  <2>1. /\ thread'[s] = "joining" /\ timer'[s] = timer[s]
        /\ read'[s] \in {"pending", "failed"} /\ socket'[s] = socket[s]
        /\ peer'[s] = peer[s] /\ timeout_check'[s] = timeout_check[s]
        /\ written'[s] = written[s] /\ got'[s] = got[s] /\ routing' = routing
        /\ closing' = closing /\ sending' = sending /\ cur_session' = cur_session
        /\ (read'[s] = "pending" <=> socket[s] = "open") /\ thread[s] = "starting"
    BY <1>0, <1>2 DEF StartRead, TypeOK
  <2>2. SessionInv(s)'
    <3>1. Lifecycle(s)'
      BY <1>a, <2>1 DEF SessionInv, Lifecycle, Joined
    <3>2. Owed(s)'
      BY <1>a, <2>1 DEF SessionInv, Lifecycle, Joined, Owed, Answering, Ticking, Unread
    <3>3. TimedOut(s)'
      BY <1>a, <2>1 DEF SessionInv, Lifecycle, Owed, Answering, TimedOut, ToldTimeout
    <3>4. s \notin MayTie => Single(s)'
      BY <1>a, <2>1 DEF SessionInv, Lifecycle, Joined, Owed, Answering, Single, Unread, Arrivals
    <3> QED
      BY <3>1, <3>2, <3>3, <3>4 DEF SessionInv
  <2>3. \A t \in Sessions \ {s} : SessionInv(t)'
    BY <1>0, <1>2, Frame DEF StartRead, TypeOK
  <2>4. TypeOK'
    BY <1>0, <1>2 DEF StartRead, TypeOK, Arrivals
  <2> QED
    BY <2>2, <2>3, <2>4 DEF Inv
<1>3. ASSUME NEW s \in Sessions, JoinPool(s) PROVE Inv'
  <2>1. /\ thread'[s] = "pool" /\ timer'[s] = timer[s] /\ read'[s] = read[s]
        /\ socket'[s] = socket[s] /\ peer'[s] = peer[s]
        /\ timeout_check'[s] = timeout_check[s] /\ written'[s] = written[s]
        /\ got'[s] = got[s] /\ routing' = routing /\ closing' = closing
        /\ sending' = sending /\ cur_session' = cur_session /\ thread[s] = "joining"
    BY <1>0, <1>3 DEF JoinPool, TypeOK
  <2>2. SessionInv(s)'
    <3>1. Lifecycle(s)'
      BY <1>a, <2>1 DEF SessionInv, Lifecycle, Joined
    <3>2. Owed(s)'
      BY <1>a, <2>1 DEF SessionInv, Lifecycle, Joined, Owed, Answering, Ticking, Unread
    <3>3. TimedOut(s)'
      BY <1>a, <2>1 DEF SessionInv, Lifecycle, Owed, Answering, TimedOut, ToldTimeout
    <3>4. s \notin MayTie => Single(s)'
      BY <1>a, <2>1 DEF SessionInv, Lifecycle, Joined, Owed, Answering, Single, Unread, Arrivals
    <3> QED
      BY <3>1, <3>2, <3>3, <3>4 DEF SessionInv
  <2>3. \A t \in Sessions \ {s} : SessionInv(t)'
    BY <1>0, <1>3, Frame DEF JoinPool, TypeOK
  <2>4. TypeOK'
    BY <1>0, <1>3 DEF JoinPool, TypeOK, Arrivals
  <2> QED
    BY <2>2, <2>3, <2>4 DEF Inv
<1>4. ASSUME NEW s \in Sessions, Disconnect(s) PROVE Inv'
  <2>1. /\ thread'[s] = thread[s] /\ timer'[s] = timer[s] /\ read'[s] = read[s]
        /\ socket'[s] = socket[s] /\ ~peer'[s] /\ timeout_check'[s] = timeout_check[s]
        /\ written'[s] = written[s] /\ got'[s] = got[s] /\ routing' = routing
        /\ closing' = closing /\ sending' = sending /\ cur_session' = cur_session
    BY <1>0, <1>4 DEF Disconnect, TypeOK
  <2>2. SessionInv(s)'
    <3>1. Lifecycle(s)'
      BY <1>a, <2>1 DEF SessionInv, Lifecycle, Joined
    <3>2. Owed(s)'
      BY <1>a, <2>1 DEF SessionInv, Lifecycle, Joined, Owed, Answering, Ticking, Unread
    <3>3. TimedOut(s)'
      BY <1>a, <2>1 DEF SessionInv, Lifecycle, Owed, Answering, TimedOut, ToldTimeout
    <3>4. s \notin MayTie => Single(s)'
      BY <1>a, <2>1 DEF SessionInv, Lifecycle, Joined, Owed, Answering, Single, Unread, Arrivals
    <3> QED
      BY <3>1, <3>2, <3>3, <3>4 DEF SessionInv
  <2>3. \A t \in Sessions \ {s} : SessionInv(t)'
    BY <1>0, <1>4, Frame DEF Disconnect, TypeOK
  <2>4. TypeOK'
    BY <1>0, <1>4 DEF Disconnect, TypeOK, Arrivals
  <2> QED
    BY <2>2, <2>3, <2>4 DEF Inv
<1>5. ASSUME NEW s \in Sessions, Receive(s) PROVE Inv'
  <2>1. /\ thread'[s] = thread[s] /\ timer'[s] = timer[s]
        /\ read'[s] \in {"request", "upgrade", "bad"} /\ socket'[s] = socket[s]
        /\ peer'[s] = peer[s] /\ timeout_check'[s] = timeout_check[s]
        /\ written'[s] = written[s] /\ got'[s] = got[s] /\ routing' = routing
        /\ closing' = closing /\ sending' = sending /\ cur_session' = cur_session
        /\ read[s] = "pending" /\ (s \in MayTie \/ timer[s] = "armed")
    BY <1>0, <1>5 DEF Receive, Arrivals, TypeOK
  <2>2. SessionInv(s)'
    <3>1. Lifecycle(s)'
      BY <1>a, <2>1 DEF SessionInv, Lifecycle, Joined
    <3>2. Owed(s)'
      BY <1>a, <2>1 DEF SessionInv, Lifecycle, Joined, Owed, Answering, Ticking, Unread
    <3>3. TimedOut(s)'
      BY <1>a, <2>1 DEF SessionInv, Lifecycle, Owed, Answering, TimedOut, ToldTimeout
    <3>4. s \notin MayTie => Single(s)'
      BY <1>a, <2>1 DEF SessionInv, Lifecycle, Joined, Owed, Answering, Single, Unread, Arrivals
    <3> QED
      BY <3>1, <3>2, <3>3, <3>4 DEF SessionInv
  <2>3. \A t \in Sessions \ {s} : SessionInv(t)'
    BY <1>0, <1>5, Frame DEF Receive, Arrivals, TypeOK
  <2>4. TypeOK'
    BY <1>0, <1>5 DEF Receive, Arrivals, TypeOK, Arrivals
  <2> QED
    BY <2>2, <2>3, <2>4 DEF Inv
<1>6. ASSUME NEW s \in Sessions, ReadFails(s) PROVE Inv'
  <2>1. /\ thread'[s] = thread[s] /\ timer'[s] = timer[s] /\ read'[s] = "failed"
        /\ socket'[s] = socket[s] /\ peer'[s] = peer[s]
        /\ timeout_check'[s] = timeout_check[s] /\ written'[s] = written[s]
        /\ got'[s] = got[s] /\ routing' = routing /\ closing' = closing
        /\ sending' = sending /\ cur_session' = cur_session /\ read[s] = "pending"
        /\ ~peer[s]
    BY <1>0, <1>6 DEF ReadFails, TypeOK
  <2>2. SessionInv(s)'
    <3>1. Lifecycle(s)'
      BY <1>a, <2>1 DEF SessionInv, Lifecycle, Joined
    <3>2. Owed(s)'
      BY <1>a, <2>1 DEF SessionInv, Lifecycle, Joined, Owed, Answering, Ticking, Unread
    <3>3. TimedOut(s)'
      BY <1>a, <2>1 DEF SessionInv, Lifecycle, Owed, Answering, TimedOut, ToldTimeout
    <3>4. s \notin MayTie => Single(s)'
      BY <1>a, <2>1 DEF SessionInv, Lifecycle, Joined, Owed, Answering, Single, Unread, Arrivals
    <3> QED
      BY <3>1, <3>2, <3>3, <3>4 DEF SessionInv
  <2>3. \A t \in Sessions \ {s} : SessionInv(t)'
    BY <1>0, <1>6, Frame DEF ReadFails, TypeOK
  <2>4. TypeOK'
    BY <1>0, <1>6 DEF ReadFails, TypeOK, Arrivals
  <2> QED
    BY <2>2, <2>3, <2>4 DEF Inv
<1>7. ASSUME NEW s \in Sessions, Expire(s) PROVE Inv'
  <2>1. /\ thread'[s] = thread[s] /\ timer'[s] = "expired" /\ read'[s] = read[s]
        /\ socket'[s] = socket[s] /\ peer'[s] = peer[s]
        /\ timeout_check'[s] = timeout_check[s] /\ written'[s] = written[s]
        /\ got'[s] = got[s] /\ routing' = routing /\ closing' = closing
        /\ sending' = sending /\ cur_session' = cur_session /\ timer[s] = "armed"
        /\ (s \in MayTie \/ (read[s] \notin {"request", "upgrade", "bad", "failed"} /\ ~(written[s] > 0)))
    BY <1>0, <1>7 DEF Expire, Due, Arrivals, TypeOK
  <2>2. SessionInv(s)'
    <3>1. Lifecycle(s)'
      BY <1>a, <2>1 DEF SessionInv, Lifecycle, Joined
    <3>2. Owed(s)'
      BY <1>a, <2>1 DEF SessionInv, Lifecycle, Joined, Owed, Answering, Ticking, Unread
    <3>3. TimedOut(s)'
      BY <1>a, <2>1 DEF SessionInv, Lifecycle, Owed, Answering, TimedOut, ToldTimeout
    <3>4. s \notin MayTie => Single(s)'
      BY <1>a, <2>1 DEF SessionInv, Lifecycle, Joined, Owed, Answering, Single, Unread, Arrivals
    <3> QED
      BY <3>1, <3>2, <3>3, <3>4 DEF SessionInv
  <2>3. \A t \in Sessions \ {s} : SessionInv(t)'
    BY <1>0, <1>7, Frame DEF Expire, Due, Arrivals, TypeOK
  <2>4. TypeOK'
    BY <1>0, <1>7 DEF Expire, Due, Arrivals, TypeOK, Arrivals
  <2> QED
    BY <2>2, <2>3, <2>4 DEF Inv
<1>8. ASSUME NEW s \in Sessions, SendDone(s) PROVE Inv'
  <2>1. CASE peer[s]
    <3>1. /\ thread'[s] = thread[s] /\ timer'[s] = timer[s] /\ read'[s] = read[s]
          /\ socket'[s] = socket[s] /\ peer'[s] = peer[s]
          /\ timeout_check'[s] = timeout_check[s] /\ written'[s] = written[s] + 1
          /\ routing' = routing /\ closing' = closing /\ s \notin sending'
          /\ cur_session' = cur_session /\ s \in sending /\ peer[s] /\ got'[s] # <<>>
          /\ (got[s] = <<>> => got'[s][1] = "reply" /\ Len(got'[s]) = 1)
          /\ (got[s] # <<>> => got'[s][1] = got[s][1])
      <4>1. got' = [got EXCEPT ![s] = Append(@, "reply")] /\ got \in [Sessions -> Seq(Responses)]
        BY <1>0, <1>8, <2>1 DEF SendDone, Responses, TypeOK
      <4>2. /\ got'[s] # <<>>
            /\ (got[s] = <<>> => got'[s][1] = "reply" /\ Len(got'[s]) = 1)
            /\ (got[s] # <<>> => got'[s][1] = got[s][1])
        BY <4>1, Told DEF Responses
      <4> QED
        BY <1>0, <1>8, <2>1, <4>2 DEF SendDone, Responses, TypeOK
    <3>2. SessionInv(s)'
      <4>1. Lifecycle(s)'
        BY <1>a, <3>1 DEF SessionInv, Lifecycle, Joined
      <4>2. Owed(s)'
        BY <1>a, <3>1 DEF SessionInv, Lifecycle, Joined, Owed, Answering, Ticking, Unread
      <4>3. TimedOut(s)'
        BY <1>a, <3>1 DEF SessionInv, Lifecycle, Owed, Answering, TimedOut, ToldTimeout
      <4>4. ASSUME s \notin MayTie PROVE Single(s)'
        <5>1. Single(s) /\ s \in Sessions /\ (got'[s] = got[s] \/ got[s] = <<>>)
          BY <1>a, <3>1, <4>4 DEF SessionInv, Lifecycle, Joined, Owed, Answering, Single,
             Unread, Arrivals
        <5>2. /\ Len(got'[s]) \in {0, 1} /\ (got'[s] # <<>> => got'[s][1] # "cut")
              /\ socket[s] = "open" /\ peer[s] => got'[s] # <<>>
          BY <3>1, <5>1, EmptyLen DEF Single
        <5> QED
          BY <1>a, <3>1, <5>1, <5>2 DEF SessionInv, Lifecycle, Joined, Owed, Answering,
             Single, Unread, Arrivals
      <4> QED
        BY <4>1, <4>2, <4>3, <4>4 DEF SessionInv
    <3>3. ASSUME NEW t \in Sessions, t # s PROVE SessionInv(t)'
      <4>1. written'[t] = written[t] /\ got'[t] = got[t]
        BY <1>0, <1>8, <2>1, Told, <3>3 DEF SendDone, Responses, TypeOK
      <4> QED
        BY <1>0, <1>8, <2>1, <3>3, <4>1, Frame DEF SendDone, Responses, Write, TypeOK
    <3>4. written' \in [Sessions -> 0..2]
      <4>1. written'[s] \in 0..2
        BY <1>a, <3>1, <3>2 DEF SessionInv, Lifecycle, Owed, Answering, Ticking, Unread
      <4>2. DOMAIN written' = Sessions /\ written' = [t \in Sessions |-> written'[t]]
        BY <1>0, <1>8, <2>1 DEF SendDone, Responses, Write, TypeOK
      <4>3. \A t \in Sessions \ {s} : written'[t] = written[t]
        BY <1>0, <1>8, <2>1 DEF SendDone, Responses, Write, TypeOK
      <4> QED
        BY <1>0, <4>1, <4>2, <4>3, WrittenType
    <3>5. got' \in [Sessions -> Seq(Responses)]
      BY <1>0, <1>8, <2>1, Told DEF SendDone, Responses, TypeOK
    <3>6. TypeOK'
      BY <1>0, <1>8, <2>1, <3>4, <3>5 DEF SendDone, Responses, Write, Arrivals, TypeOK
    <3> QED
      BY <3>2, <3>3, <3>6 DEF Inv
  <2>2. CASE ~peer[s]
    <3>1. /\ thread'[s] = thread[s] /\ timer'[s] = timer[s] /\ read'[s] = read[s]
          /\ socket'[s] = socket[s] /\ peer'[s] = peer[s]
          /\ timeout_check'[s] = timeout_check[s] /\ written'[s] = written[s] + 1
          /\ got'[s] = got[s] /\ routing' = routing /\ closing' = closing
          /\ s \notin sending' /\ cur_session' = cur_session /\ s \in sending /\ ~peer[s]
      BY <1>0, <1>8, <2>2 DEF SendDone, TypeOK
    <3>2. SessionInv(s)'
      <4>1. Lifecycle(s)'
        BY <1>a, <3>1 DEF SessionInv, Lifecycle, Joined
      <4>2. Owed(s)'
        BY <1>a, <3>1 DEF SessionInv, Lifecycle, Joined, Owed, Answering, Ticking, Unread
      <4>3. TimedOut(s)'
        BY <1>a, <3>1 DEF SessionInv, Lifecycle, Owed, Answering, TimedOut, ToldTimeout
      <4>4. s \notin MayTie => Single(s)'
        BY <1>a, <3>1 DEF SessionInv, Lifecycle, Joined, Owed, Answering, Single, Unread, Arrivals
      <4> QED
        BY <4>1, <4>2, <4>3, <4>4 DEF SessionInv
    <3>3. \A t \in Sessions \ {s} : SessionInv(t)'
      BY <1>0, <1>8, <2>2, Frame DEF SendDone, TypeOK
    <3>4. written' \in [Sessions -> 0..2]
      <4>1. written'[s] \in 0..2
        BY <1>a, <3>1, <3>2 DEF SessionInv, Lifecycle, Owed, Answering, Ticking, Unread
      <4>2. DOMAIN written' = Sessions /\ written' = [t \in Sessions |-> written'[t]]
        BY <1>0, <1>8, <2>2 DEF SendDone, Write, TypeOK
      <4>3. \A t \in Sessions \ {s} : written'[t] = written[t]
        BY <1>0, <1>8, <2>2 DEF SendDone, Write, TypeOK
      <4> QED
        BY <1>0, <4>1, <4>2, <4>3, WrittenType
    <3>5. got' \in [Sessions -> Seq(Responses)]
      BY <1>0, <1>8, <2>2 DEF SendDone, TypeOK
    <3>6. TypeOK'
      BY <1>0, <1>8, <2>2, <3>4, <3>5 DEF SendDone, Write, Arrivals, TypeOK
    <3> QED
      BY <3>2, <3>3, <3>6 DEF Inv
  <2> QED
    BY <1>a, <1>8, <2>1, <2>2 DEF SendDone
<1>9. ASSUME NEW s \in Sessions, HandleReadLate(s) PROVE Inv'
  <2>1. /\ thread'[s] = thread[s] /\ timer'[s] = timer[s] /\ read'[s] = "off"
        /\ socket'[s] = socket[s] /\ peer'[s] = peer[s]
        /\ timeout_check'[s] = timeout_check[s] /\ written'[s] = written[s]
        /\ got'[s] = got[s] /\ routing' = routing /\ closing' = closing
        /\ sending' = sending /\ cur_session' = cur_session /\ timeout_check[s]
        /\ read[s] \in {"request", "upgrade", "bad", "failed"}
    BY <1>0, <1>9 DEF HandleReadLate, Arrivals, TypeOK
  <2>2. SessionInv(s)'
    <3>1. Lifecycle(s)'
      BY <1>a, <2>1 DEF SessionInv, Lifecycle, Joined
    <3>2. Owed(s)'
      BY <1>a, <2>1 DEF SessionInv, Lifecycle, Joined, Owed, Answering, Ticking, Unread
    <3>3. TimedOut(s)'
      BY <1>a, <2>1 DEF SessionInv, Lifecycle, Owed, Answering, TimedOut, ToldTimeout
    <3>4. s \notin MayTie => Single(s)'
      BY <1>a, <2>1 DEF SessionInv, Lifecycle, Joined, Owed, Answering, Single, Unread, Arrivals
    <3> QED
      BY <3>1, <3>2, <3>3, <3>4 DEF SessionInv
  <2>3. \A t \in Sessions \ {s} : SessionInv(t)'
    BY <1>0, <1>9, Frame DEF HandleReadLate, Arrivals, TypeOK
  <2>4. TypeOK'
    BY <1>0, <1>9 DEF HandleReadLate, Arrivals, TypeOK, Arrivals
  <2> QED
    BY <2>2, <2>3, <2>4 DEF Inv
<1>10. ASSUME NEW s \in Sessions, HandleRead(s) PROVE Inv'
  <2>1. CASE read[s] = "request"
    <3>1. /\ thread'[s] = thread[s]
          /\ timer'[s] = (IF timer[s] = "armed" THEN "aborted" ELSE timer[s])
          /\ read'[s] = "off" /\ socket'[s] = socket[s] /\ peer'[s] = peer[s]
          /\ timeout_check'[s] = timeout_check[s] /\ written'[s] = written[s]
          /\ got'[s] = got[s] /\ s \in routing' /\ closing' = closing /\ sending' = sending
          /\ cur_session' = cur_session /\ ~timeout_check[s] /\ read[s] = "request"
      BY <1>0, <1>10, <2>1 DEF HandleRead, Cancel, TypeOK
    <3>2. SessionInv(s)'
      <4>1. Lifecycle(s)'
        BY <1>a, <3>1 DEF SessionInv, Lifecycle, Joined
      <4>2. Owed(s)'
        BY <1>a, <3>1 DEF SessionInv, Lifecycle, Joined, Owed, Answering, Ticking, Unread
      <4>3. TimedOut(s)'
        BY <1>a, <3>1 DEF SessionInv, Lifecycle, Owed, Answering, TimedOut, ToldTimeout
      <4>4. s \notin MayTie => Single(s)'
        BY <1>a, <3>1 DEF SessionInv, Lifecycle, Joined, Owed, Answering, Single, Unread, Arrivals
      <4> QED
        BY <4>1, <4>2, <4>3, <4>4 DEF SessionInv
    <3>3. \A t \in Sessions \ {s} : SessionInv(t)'
      BY <1>0, <1>10, <2>1, Frame DEF HandleRead, Cancel, TypeOK
    <3>4. TypeOK'
      BY <1>0, <1>10, <2>1 DEF HandleRead, Cancel, TypeOK, Arrivals
    <3> QED
      BY <3>2, <3>3, <3>4 DEF Inv
  <2>2. CASE read[s] = "upgrade"
    <3>1. /\ thread'[s] = thread[s]
          /\ timer'[s] = (IF timer[s] = "armed" THEN "aborted" ELSE timer[s])
          /\ read'[s] = "off" /\ socket'[s] = "moved" /\ peer'[s] = peer[s]
          /\ timeout_check'[s] = timeout_check[s] /\ written'[s] = written[s] + 1
          /\ got'[s] = got[s] /\ routing' = routing /\ closing' = closing
          /\ sending' = sending /\ cur_session' = cur_session /\ ~timeout_check[s]
          /\ read[s] = "upgrade"
      BY <1>0, <1>10, <2>2 DEF HandleRead, Cancel, TypeOK
    <3>2. SessionInv(s)'
      <4>1. Lifecycle(s)'
        BY <1>a, <3>1 DEF SessionInv, Lifecycle, Joined
      <4>2. Owed(s)'
        BY <1>a, <3>1 DEF SessionInv, Lifecycle, Joined, Owed, Answering, Ticking, Unread
      <4>3. TimedOut(s)'
        BY <1>a, <3>1 DEF SessionInv, Lifecycle, Owed, Answering, TimedOut, ToldTimeout
      <4>4. s \notin MayTie => Single(s)'
        BY <1>a, <3>1 DEF SessionInv, Lifecycle, Joined, Owed, Answering, Single, Unread, Arrivals
      <4> QED
        BY <4>1, <4>2, <4>3, <4>4 DEF SessionInv
    <3>3. \A t \in Sessions \ {s} : SessionInv(t)'
      BY <1>0, <1>10, <2>2, Frame DEF HandleRead, Cancel, TypeOK
    <3>4. written' \in [Sessions -> 0..2]
      <4>1. written'[s] \in 0..2
        BY <1>a, <3>1, <3>2 DEF SessionInv, Lifecycle, Owed, Answering, Ticking, Unread
      <4>2. DOMAIN written' = Sessions /\ written' = [t \in Sessions |-> written'[t]]
        BY <1>0, <1>10, <2>2 DEF HandleRead, Cancel, Write, TypeOK
      <4>3. \A t \in Sessions \ {s} : written'[t] = written[t]
        BY <1>0, <1>10, <2>2 DEF HandleRead, Cancel, Write, TypeOK
      <4> QED
        BY <1>0, <4>1, <4>2, <4>3, WrittenType
    <3>5. got' \in [Sessions -> Seq(Responses)]
      BY <1>0, <1>10, <2>2 DEF HandleRead, Cancel, TypeOK
    <3>6. TypeOK'
      BY <1>0, <1>10, <2>2, <3>4, <3>5 DEF HandleRead, Cancel, Write, Arrivals, TypeOK
    <3> QED
      BY <3>2, <3>3, <3>6 DEF Inv
  <2>3. CASE read[s] \notin {"request", "upgrade"}
    <3>1. /\ thread'[s] = thread[s] /\ timer'[s] = timer[s] /\ read'[s] = "off"
          /\ socket'[s] = socket[s] /\ peer'[s] = peer[s]
          /\ timeout_check'[s] = timeout_check[s] /\ written'[s] = written[s] + 1
          /\ routing' = routing /\ closing' = closing /\ sending' = sending
          /\ cur_session' = cur_session /\ ~timeout_check[s]
          /\ read[s] \in {"bad", "failed"}
          /\ (~(socket[s] = "open" /\ peer[s]) => got'[s] = got[s])
          /\ (socket[s] = "open" /\ peer[s] => got'[s] # <<>>)
          /\ (socket[s] = "open" /\ peer[s] /\ got[s] = <<>> => got'[s][1] = "refused" /\ Len(got'[s]) = 1)
          /\ (socket[s] = "open" /\ peer[s] /\ got[s] # <<>> => got'[s][1] = got[s][1])
      BY <1>0, <1>10, <2>3, Writes DEF HandleRead, Responses, TypeOK
    <3>2. SessionInv(s)'
      <4>1. Lifecycle(s)'
        BY <1>a, <3>1 DEF SessionInv, Lifecycle, Joined
      <4>2. Owed(s)'
        BY <1>a, <3>1 DEF SessionInv, Lifecycle, Joined, Owed, Answering, Ticking, Unread
      <4>3. TimedOut(s)'
        BY <1>a, <3>1 DEF SessionInv, Lifecycle, Owed, Answering, TimedOut, ToldTimeout
      <4>4. ASSUME s \notin MayTie PROVE Single(s)'
        <5>1. Single(s) /\ s \in Sessions /\ (got'[s] = got[s] \/ got[s] = <<>>)
          BY <1>a, <3>1, <4>4 DEF SessionInv, Lifecycle, Joined, Owed, Answering, Single,
             Unread, Arrivals
        <5>2. /\ Len(got'[s]) \in {0, 1} /\ (got'[s] # <<>> => got'[s][1] # "cut")
              /\ socket[s] = "open" /\ peer[s] => got'[s] # <<>>
          BY <3>1, <5>1, EmptyLen DEF Single
        <5> QED
          BY <1>a, <3>1, <5>1, <5>2 DEF SessionInv, Lifecycle, Joined, Owed, Answering,
             Single, Unread, Arrivals
      <4> QED
        BY <4>1, <4>2, <4>3, <4>4 DEF SessionInv
    <3>3. ASSUME NEW t \in Sessions, t # s PROVE SessionInv(t)'
      <4>1. written'[t] = written[t] /\ got'[t] = got[t]
        BY <1>0, <1>10, <2>3, Writes, <3>3 DEF HandleRead, Responses, TypeOK
      <4> QED
        BY <1>0, <1>10, <2>3, <3>3, <4>1, Frame DEF HandleRead, Responses, Write, TypeOK
    <3>4. written' \in [Sessions -> 0..2]
      <4>1. written'[s] \in 0..2
        BY <1>a, <3>1, <3>2 DEF SessionInv, Lifecycle, Owed, Answering, Ticking, Unread
      <4>2. DOMAIN written' = Sessions /\ written' = [t \in Sessions |-> written'[t]]
        BY <1>0, <1>10, <2>3 DEF HandleRead, Responses, Write, TypeOK
      <4>3. \A t \in Sessions \ {s} : written'[t] = written[t]
        BY <1>0, <1>10, <2>3 DEF HandleRead, Responses, Write, TypeOK
      <4> QED
        BY <1>0, <4>1, <4>2, <4>3, WrittenType
    <3>5. got' \in [Sessions -> Seq(Responses)]
      BY <1>0, <1>10, <2>3, Writes DEF HandleRead, Responses, TypeOK
    <3>6. TypeOK'
      BY <1>0, <1>10, <2>3, <3>4, <3>5 DEF HandleRead, Responses, Write, Arrivals, TypeOK
    <3> QED
      BY <3>2, <3>3, <3>6 DEF Inv
  <2> QED
    BY <1>a, <1>10, <2>1, <2>2, <2>3 DEF HandleRead
<1>11. ASSUME NEW s \in Sessions, Respond(s) PROVE Inv'
  <2>1. CASE Write(s, "reply")
    <3>1. /\ thread'[s] = thread[s] /\ timer'[s] = timer[s] /\ read'[s] = read[s]
          /\ socket'[s] = socket[s] /\ peer'[s] = peer[s]
          /\ timeout_check'[s] = timeout_check[s] /\ written'[s] = written[s] + 1
          /\ s \notin routing' /\ closing' = closing /\ sending' = sending
          /\ cur_session' = cur_session /\ s \in routing
          /\ (~(socket[s] = "open" /\ peer[s]) => got'[s] = got[s])
          /\ (socket[s] = "open" /\ peer[s] => got'[s] # <<>>)
          /\ (socket[s] = "open" /\ peer[s] /\ got[s] = <<>> => got'[s][1] = "reply" /\ Len(got'[s]) = 1)
          /\ (socket[s] = "open" /\ peer[s] /\ got[s] # <<>> => got'[s][1] = got[s][1])
      BY <1>0, <1>11, <2>1, Writes DEF Respond, Responses, TypeOK
    <3>2. SessionInv(s)'
      <4>1. Lifecycle(s)'
        BY <1>a, <3>1 DEF SessionInv, Lifecycle, Joined
      <4>2. Owed(s)'
        BY <1>a, <3>1 DEF SessionInv, Lifecycle, Joined, Owed, Answering, Ticking, Unread
      <4>3. TimedOut(s)'
        BY <1>a, <3>1 DEF SessionInv, Lifecycle, Owed, Answering, TimedOut, ToldTimeout
      <4>4. ASSUME s \notin MayTie PROVE Single(s)'
        <5>1. Single(s) /\ s \in Sessions /\ (got'[s] = got[s] \/ got[s] = <<>>)
          BY <1>a, <3>1, <4>4 DEF SessionInv, Lifecycle, Joined, Owed, Answering, Single,
             Unread, Arrivals
        <5>2. /\ Len(got'[s]) \in {0, 1} /\ (got'[s] # <<>> => got'[s][1] # "cut")
              /\ socket[s] = "open" /\ peer[s] => got'[s] # <<>>
          BY <3>1, <5>1, EmptyLen DEF Single
        <5> QED
          BY <1>a, <3>1, <5>1, <5>2 DEF SessionInv, Lifecycle, Joined, Owed, Answering,
             Single, Unread, Arrivals
      <4> QED
        BY <4>1, <4>2, <4>3, <4>4 DEF SessionInv
    <3>3. ASSUME NEW t \in Sessions, t # s PROVE SessionInv(t)'
      <4>1. written'[t] = written[t] /\ got'[t] = got[t]
        BY <1>0, <1>11, <2>1, Writes, <3>3 DEF Respond, Responses, TypeOK
      <4> QED
        BY <1>0, <1>11, <2>1, <3>3, <4>1, Frame DEF Respond, Responses, Write, TypeOK
    <3>4. written' \in [Sessions -> 0..2]
      <4>1. written'[s] \in 0..2
        BY <1>a, <3>1, <3>2 DEF SessionInv, Lifecycle, Owed, Answering, Ticking, Unread
      <4>2. DOMAIN written' = Sessions /\ written' = [t \in Sessions |-> written'[t]]
        BY <1>0, <1>11, <2>1 DEF Respond, Responses, Write, TypeOK
      <4>3. \A t \in Sessions \ {s} : written'[t] = written[t]
        BY <1>0, <1>11, <2>1 DEF Respond, Responses, Write, TypeOK
      <4> QED
        BY <1>0, <4>1, <4>2, <4>3, WrittenType
    <3>5. got' \in [Sessions -> Seq(Responses)]
      BY <1>0, <1>11, <2>1, Writes DEF Respond, Responses, TypeOK
    <3>6. TypeOK'
      BY <1>0, <1>11, <2>1, <3>4, <3>5 DEF Respond, Responses, Write, Arrivals, TypeOK
    <3> QED
      BY <3>2, <3>3, <3>6 DEF Inv
  <2>2. CASE WriteLong(s)
    <3>1. /\ thread'[s] = thread[s] /\ timer'[s] = timer[s] /\ read'[s] = read[s]
          /\ socket'[s] = socket[s] /\ peer'[s] = peer[s]
          /\ timeout_check'[s] = timeout_check[s] /\ written'[s] = written[s]
          /\ got'[s] = got[s] /\ s \notin routing' /\ closing' = closing /\ s \in sending'
          /\ cur_session' = cur_session /\ s \in routing
      BY <1>0, <1>11, <2>2 DEF Respond, WriteLong, TypeOK
    <3>2. SessionInv(s)'
      <4>1. Lifecycle(s)'
        BY <1>a, <3>1 DEF SessionInv, Lifecycle, Joined
      <4>2. Owed(s)'
        BY <1>a, <3>1 DEF SessionInv, Lifecycle, Joined, Owed, Answering, Ticking, Unread
      <4>3. TimedOut(s)'
        BY <1>a, <3>1 DEF SessionInv, Lifecycle, Owed, Answering, TimedOut, ToldTimeout
      <4>4. s \notin MayTie => Single(s)'
        BY <1>a, <3>1 DEF SessionInv, Lifecycle, Joined, Owed, Answering, Single, Unread, Arrivals
      <4> QED
        BY <4>1, <4>2, <4>3, <4>4 DEF SessionInv
    <3>3. \A t \in Sessions \ {s} : SessionInv(t)'
      BY <1>0, <1>11, <2>2, Frame DEF Respond, WriteLong, TypeOK
    <3>4. TypeOK'
      BY <1>0, <1>11, <2>2 DEF Respond, WriteLong, TypeOK, Arrivals
    <3> QED
      BY <3>2, <3>3, <3>4 DEF Inv
  <2> QED
    BY <1>a, <1>11, <2>1, <2>2 DEF Respond
<1>12. ASSUME NEW s \in Sessions, HandleWrite(s) PROVE Inv'
  <2>1. /\ thread'[s] = thread[s] /\ timer'[s] = timer[s] /\ read'[s] = read[s]
        /\ socket'[s] = (IF socket[s] = "open" THEN "closed" ELSE socket[s])
        /\ peer'[s] = peer[s] /\ timeout_check'[s] = timeout_check[s]
        /\ written'[s] = written[s] - 1 /\ got'[s] = got[s] /\ routing' = routing
        /\ closing' = closing /\ sending' = sending /\ cur_session' = cur_session
        /\ written[s] > 0 /\ s \notin routing
    BY <1>0, <1>12 DEF HandleWrite, TypeOK
  <2>2. SessionInv(s)'
    <3>1. Lifecycle(s)'
      BY <1>a, <2>1 DEF SessionInv, Lifecycle, Joined
    <3>2. Owed(s)'
      BY <1>a, <2>1 DEF SessionInv, Lifecycle, Joined, Owed, Answering, Ticking, Unread
    <3>3. TimedOut(s)'
      BY <1>a, <2>1 DEF SessionInv, Lifecycle, Owed, Answering, TimedOut, ToldTimeout
    <3>4. s \notin MayTie => Single(s)'
      BY <1>a, <2>1 DEF SessionInv, Lifecycle, Joined, Owed, Answering, Single, Unread, Arrivals
    <3> QED
      BY <3>1, <3>2, <3>3, <3>4 DEF SessionInv
  <2>3. \A t \in Sessions \ {s} : SessionInv(t)'
    BY <1>0, <1>12, Frame DEF HandleWrite, TypeOK
  <2>4. written' \in [Sessions -> 0..2]
    <3>1. written'[s] \in 0..2
      BY <1>a, <2>1, <2>2 DEF SessionInv, Lifecycle, Owed, Answering, Ticking, Unread
    <3>2. DOMAIN written' = Sessions /\ written' = [t \in Sessions |-> written'[t]]
      BY <1>0, <1>12 DEF HandleWrite, Write, TypeOK
    <3>3. \A t \in Sessions \ {s} : written'[t] = written[t]
      BY <1>0, <1>12 DEF HandleWrite, Write, TypeOK
    <3> QED
      BY <1>0, <3>1, <3>2, <3>3, WrittenType
  <2>5. got' \in [Sessions -> Seq(Responses)]
    BY <1>0, <1>12 DEF HandleWrite, TypeOK
  <2>6. TypeOK'
    BY <1>0, <1>12, <2>4, <2>5 DEF HandleWrite, Write, Arrivals, TypeOK
  <2> QED
    BY <2>2, <2>3, <2>6 DEF Inv
<1>13. ASSUME NEW s \in Sessions, TimeoutAborted(s) PROVE Inv'
  <2>1. /\ thread'[s] = thread[s] /\ timer'[s] = "done" /\ read'[s] = read[s]
        /\ socket'[s] = socket[s] /\ peer'[s] = peer[s]
        /\ timeout_check'[s] = timeout_check[s] /\ written'[s] = written[s]
        /\ got'[s] = got[s] /\ routing' = routing /\ closing' = closing
        /\ sending' = sending /\ cur_session' = cur_session /\ timer[s] = "aborted"
    BY <1>0, <1>13 DEF TimeoutAborted, TypeOK
  <2>2. SessionInv(s)'
    <3>1. Lifecycle(s)'
      BY <1>a, <2>1 DEF SessionInv, Lifecycle, Joined
    <3>2. Owed(s)'
      BY <1>a, <2>1 DEF SessionInv, Lifecycle, Joined, Owed, Answering, Ticking, Unread
    <3>3. TimedOut(s)'
      BY <1>a, <2>1 DEF SessionInv, Lifecycle, Owed, Answering, TimedOut, ToldTimeout
    <3>4. s \notin MayTie => Single(s)'
      BY <1>a, <2>1 DEF SessionInv, Lifecycle, Joined, Owed, Answering, Single, Unread, Arrivals
    <3> QED
      BY <3>1, <3>2, <3>3, <3>4 DEF SessionInv
  <2>3. \A t \in Sessions \ {s} : SessionInv(t)'
    BY <1>0, <1>13, Frame DEF TimeoutAborted, TypeOK
  <2>4. TypeOK'
    BY <1>0, <1>13 DEF TimeoutAborted, TypeOK, Arrivals
  <2> QED
    BY <2>2, <2>3, <2>4 DEF Inv
<1>14. ASSUME NEW s \in Sessions, Timeout(s) PROVE Inv'
  <2>1. CASE s \notin sending /\ Write(s, "timeout")
    <3>1. /\ thread'[s] = thread[s] /\ timer'[s] = "done" /\ read'[s] = read[s]
          /\ socket'[s] = socket[s] /\ peer'[s] = peer[s] /\ timeout_check'[s]
          /\ written'[s] = written[s] + 1 /\ routing' = routing /\ s \in closing'
          /\ sending' = sending /\ cur_session' = cur_session /\ timer[s] = "expired"
          /\ s \notin sending
          /\ (~(socket[s] = "open" /\ peer[s]) => got'[s] = got[s])
          /\ (socket[s] = "open" /\ peer[s] => got'[s] # <<>>)
          /\ (socket[s] = "open" /\ peer[s] /\ got[s] = <<>> => got'[s][1] = "timeout" /\ Len(got'[s]) = 1)
          /\ (socket[s] = "open" /\ peer[s] /\ got[s] # <<>> => got'[s][1] = got[s][1])
      BY <1>0, <1>14, <2>1, Writes DEF Timeout, Responses, TypeOK
    <3>2. SessionInv(s)'
      <4>1. Lifecycle(s)'
        BY <1>a, <3>1 DEF SessionInv, Lifecycle, Joined
      <4>2. Owed(s)'
        BY <1>a, <3>1 DEF SessionInv, Lifecycle, Joined, Owed, Answering, Ticking, Unread
      <4>3. TimedOut(s)'
        BY <1>a, <3>1 DEF SessionInv, Lifecycle, Owed, Answering, TimedOut, ToldTimeout
      <4>4. ASSUME s \notin MayTie PROVE Single(s)'
        <5>1. Single(s) /\ s \in Sessions /\ (got'[s] = got[s] \/ got[s] = <<>>)
          BY <1>a, <3>1, <4>4 DEF SessionInv, Lifecycle, Joined, Owed, Answering, Single,
             Unread, Arrivals
        <5>2. /\ Len(got'[s]) \in {0, 1} /\ (got'[s] # <<>> => got'[s][1] # "cut")
              /\ socket[s] = "open" /\ peer[s] => got'[s] # <<>>
          BY <3>1, <5>1, EmptyLen DEF Single
        <5> QED
          BY <1>a, <3>1, <5>1, <5>2 DEF SessionInv, Lifecycle, Joined, Owed, Answering,
             Single, Unread, Arrivals
      <4> QED
        BY <4>1, <4>2, <4>3, <4>4 DEF SessionInv
    <3>3. ASSUME NEW t \in Sessions, t # s PROVE SessionInv(t)'
      <4>1. written'[t] = written[t] /\ got'[t] = got[t]
        BY <1>0, <1>14, <2>1, Writes, <3>3 DEF Timeout, Responses, TypeOK
      <4> QED
        BY <1>0, <1>14, <2>1, <3>3, <4>1, Frame DEF Timeout, Responses, Write, TypeOK
    <3>4. written' \in [Sessions -> 0..2]
      <4>1. written'[s] \in 0..2
        BY <1>a, <3>1, <3>2 DEF SessionInv, Lifecycle, Owed, Answering, Ticking, Unread
      <4>2. DOMAIN written' = Sessions /\ written' = [t \in Sessions |-> written'[t]]
        BY <1>0, <1>14, <2>1 DEF Timeout, Responses, Write, TypeOK
      <4>3. \A t \in Sessions \ {s} : written'[t] = written[t]
        BY <1>0, <1>14, <2>1 DEF Timeout, Responses, Write, TypeOK
      <4> QED
        BY <1>0, <4>1, <4>2, <4>3, WrittenType
    <3>5. got' \in [Sessions -> Seq(Responses)]
      BY <1>0, <1>14, <2>1, Writes DEF Timeout, Responses, TypeOK
    <3>6. TypeOK'
      BY <1>0, <1>14, <2>1, <3>4, <3>5 DEF Timeout, Responses, Write, Arrivals, TypeOK
    <3> QED
      BY <3>2, <3>3, <3>6 DEF Inv
  <2>2. CASE s \in sending /\ Cut(s, 2)
    <3>1. /\ thread'[s] = thread[s] /\ timer'[s] = "done" /\ read'[s] = read[s]
          /\ socket'[s] = socket[s] /\ peer'[s] = peer[s] /\ timeout_check'[s]
          /\ routing' = routing /\ s \in closing' /\ cur_session' = cur_session
          /\ timer[s] = "expired" /\ s \in sending
      BY <1>0, <1>14, <2>2 DEF Timeout, TypeOK
    <3>2. /\ written'[s] = written[s] + 2 /\ \A t \in Sessions \ {s} : written'[t] = written[t]
          /\ DOMAIN written' = Sessions /\ written' = [t \in Sessions |-> written'[t]]
          /\ sending' = sending \ {s}
          /\ got' \in [Sessions -> Seq(Responses)] /\ \A t \in Sessions \ {s} : got'[t] = got[t]
      BY <1>0, <2>2, Cuts
    <3>3. SessionInv(s)'
      <4>1. Lifecycle(s)'
        BY <1>a, <3>1, <3>2 DEF SessionInv, Lifecycle, Joined
      <4>2. Owed(s)'
        BY <1>a, <3>1, <3>2 DEF SessionInv, Lifecycle, Joined, Owed, Answering, Ticking, Unread
      <4>3. TimedOut(s)'
        BY <3>1 DEF TimedOut
      <4>4. s \in MayTie
        BY <1>a, <3>1 DEF SessionInv, Single
      <4> QED
        BY <4>1, <4>2, <4>3, <4>4 DEF SessionInv
    <3>4. ASSUME NEW t \in Sessions, t # s PROVE SessionInv(t)'
      BY <1>0, <1>14, <3>2, <3>4, Frame DEF Timeout, TypeOK
    <3>5. written' \in [Sessions -> 0..2]
      <4>1. written'[s] \in 0..2
        BY <1>a, <3>1, <3>2 DEF SessionInv, Owed, Answering, Ticking
      <4> QED
        BY <1>0, <3>2, <4>1, WrittenType
    <3>6. TypeOK'
      BY <1>0, <1>14, <3>2, <3>5 DEF Timeout, Arrivals, TypeOK
    <3> QED
      BY <3>3, <3>4, <3>6 DEF Inv
  <2> QED
    BY <1>14, <2>1, <2>2 DEF Timeout
<1>15. ASSUME NEW s \in Sessions, TimeoutClose(s) PROVE Inv'
  <2>1. /\ thread'[s] = thread[s] /\ timer'[s] = timer[s]
        /\ read'[s] = (IF read[s] = "pending" THEN "failed" ELSE read[s])
        /\ socket'[s] = (IF socket[s] = "open" THEN "closed" ELSE socket[s])
        /\ peer'[s] = peer[s] /\ timeout_check'[s] = timeout_check[s]
        /\ routing' = routing /\ s \notin closing' /\ cur_session' = cur_session /\ s \in closing
    BY <1>0, <1>15 DEF TimeoutClose, TypeOK
  <2>2. CASE s \notin sending /\ UNCHANGED reply
    <3>1. written'[s] = written[s] /\ got'[s] = got[s] /\ sending' = sending
      BY <2>2
    <3>2. SessionInv(s)'
      <4>1. Lifecycle(s)'
        BY <1>a, <2>1, <3>1 DEF SessionInv, Lifecycle, Joined
      <4>2. Owed(s)'
        BY <1>a, <2>1, <3>1 DEF SessionInv, Lifecycle, Joined, Owed, Answering, Ticking, Unread
      <4>3. TimedOut(s)'
        BY <1>a, <2>1, <3>1 DEF SessionInv, TimedOut, ToldTimeout
      <4>4. s \notin MayTie => Single(s)'
        BY <1>a, <2>1, <3>1 DEF SessionInv, Lifecycle, Joined, Owed, Answering, Single, Unread, Arrivals
      <4> QED
        BY <4>1, <4>2, <4>3, <4>4 DEF SessionInv
    <3>3. \A t \in Sessions \ {s} : SessionInv(t)'
      BY <1>0, <1>15, <2>2, Frame DEF TimeoutClose, TypeOK
    <3>4. TypeOK'
      BY <1>0, <1>15, <2>2 DEF TimeoutClose, TypeOK, Arrivals
    <3> QED
      BY <3>2, <3>3, <3>4 DEF Inv
  <2>3. CASE s \in sending /\ Cut(s, 1)
    <3>1. /\ written'[s] = written[s] + 1 /\ \A t \in Sessions \ {s} : written'[t] = written[t]
          /\ DOMAIN written' = Sessions /\ written' = [t \in Sessions |-> written'[t]]
          /\ sending' = sending \ {s}
          /\ got' \in [Sessions -> Seq(Responses)] /\ \A t \in Sessions \ {s} : got'[t] = got[t]
      BY <1>0, <2>3, Cuts
    <3>2. SessionInv(s)'
      <4>1. Lifecycle(s)'
        BY <1>a, <2>1, <3>1 DEF SessionInv, Lifecycle, Joined
      <4>2. Owed(s)'
        BY <1>a, <2>1, <2>3, <3>1 DEF SessionInv, Lifecycle, Joined, Owed, Answering, Ticking, Unread
      <4>3. TimedOut(s)'
        BY <1>a, <2>1 DEF SessionInv, Lifecycle, TimedOut
      <4>4. s \in MayTie
        BY <1>a, <2>1, <2>3 DEF SessionInv, Lifecycle, Single
      <4> QED
        BY <4>1, <4>2, <4>3, <4>4 DEF SessionInv
    <3>3. ASSUME NEW t \in Sessions, t # s PROVE SessionInv(t)'
      BY <1>0, <1>15, <3>1, <3>3, Frame DEF TimeoutClose, TypeOK
    <3>4. written' \in [Sessions -> 0..2]
      <4>1. written'[s] \in 0..2
        BY <1>a, <2>3, <3>1, SMTT(60) DEF SessionInv, Owed, Answering, Ticking
      <4> QED
        BY <1>0, <3>1, <4>1, WrittenType
    <3>5. TypeOK'
      BY <1>0, <1>15, <3>1, <3>4 DEF TimeoutClose, Arrivals, TypeOK
    <3> QED
      BY <3>2, <3>3, <3>5 DEF Inv
  <2> QED
    BY <1>15, <2>2, <2>3 DEF TimeoutClose
<1>16. ASSUME NEW s \in Sessions, Race(s) PROVE Inv'
  <2>1. TypeOK'
    BY <1>0, <1>16 DEF Race, TypeOK
  <2> QED
    BY <1>0, <1>16, <2>1, Frame DEF Race, Inv
<1>17. ASSUME Connect PROVE Inv'
  <2>0. PICK s \in Sessions : s = cur_session
    BY <1>0, <1>17 DEF Connect, TypeOK
  <2>1. s = cur_session /\ TypeOK'
    BY <1>0, <1>17, <2>0 DEF Connect, TypeOK
  <2>2. /\ thread[s] = "none" /\ timer[s] = "off" /\ read[s] = "off" /\ ~timeout_check[s]
        /\ s \notin routing /\ s \notin sending /\ s \notin closing
        /\ s \notin MayTie => got[s] = <<>> /\ written[s] = 0
    BY <1>a, <2>1 DEF SessionInv, Lifecycle, Joined, Single, Unread
  <2>3. SessionInv(s)'
    <3>1. /\ socket'[s] \in {"open", socket[s]} /\ cur_session' = s
          /\ UNCHANGED <<thread, timer, read, routing, closing, peer, timeout_check, sending, written, got>>
      BY <1>0, <1>17, <2>1 DEF Connect, TypeOK
    <3>2. Lifecycle(s)' /\ Owed(s)' /\ TimedOut(s)'
      BY <1>a, <2>1, <2>2, <3>1 DEF SessionInv, Lifecycle, Joined, Owed, Answering, Ticking,
         Unread, TimedOut, ToldTimeout
    <3>3. s \notin MayTie => Single(s)'
      BY <1>a, <2>1, <2>2, <3>1 DEF SessionInv, Single, Unread, Arrivals
    <3> QED
      BY <3>2, <3>3 DEF SessionInv
  <2>4. \A t \in Sessions \ {s} : SessionInv(t)'
    BY <1>0, <1>17, <2>1, Frame DEF Connect, TypeOK
  <2> QED
    BY <2>1, <2>3, <2>4 DEF Inv
<1>18. ASSUME HandleAccept PROVE Inv'
  <2>1. TypeOK'
    <3>1. thread' \in [Sessions -> {"none", "spawned", "starting", "joining", "pool"}]
      BY <1>0, <1>18 DEF HandleAccept, TypeOK
    <3>2. cur_session' \in Sessions \cup {None}
      BY <1>0, <1>18 DEF HandleAccept, TypeOK
    <3>3. socket' \in [Sessions -> {"none", "unopened", "open", "closed", "moved", "dropped"}]
      <4> DEFINE dropped == IF accept = "failed" THEN [socket EXCEPT ![cur_session] = "dropped"] ELSE socket
      <4>1. dropped \in [Sessions -> {"none", "unopened", "open", "closed", "moved", "dropped"}]
        BY <1>0 DEF TypeOK
      <4>2. socket' = dropped \/ \E t \in Sessions : socket' = [dropped EXCEPT ![t] = "unopened"]
        BY <1>18 DEF HandleAccept
      <4> QED
        BY <4>1, <4>2
    <3> QED
      BY <1>0, <1>18, <3>1, <3>2, <3>3 DEF HandleAccept, TypeOK
  <2>2. /\ cur_session' = None \/ (cur_session' \in Sessions /\ socket[cur_session'] = "none")
        /\ UNCHANGED <<timer, read, routing, closing, peer, timeout_check, sending, written, got>>
        /\ \A t \in Sessions \ {cur_session, cur_session'} : thread'[t] = thread[t] /\ socket'[t] = socket[t]
    BY <1>0, <1>18 DEF HandleAccept, TypeOK
  <2>3. ASSUME NEW t \in Sessions, t # cur_session, t # cur_session' PROVE SessionInv(t)'
    BY <1>0, <2>2, <2>3, Frame
  <2>4. ASSUME NEW t \in Sessions, t = cur_session PROVE SessionInv(t)'
    <3>1. /\ thread[t] = "none" /\ socket[t] # "none" /\ t # cur_session' /\ socket[t] # "moved"
          /\ t \notin MayTie => got[t] = <<>> /\ written[t] = 0
      BY <1>a, <2>2, <2>4 DEF SessionInv, Lifecycle, Joined, Owed, Answering, Single, Unread
    <3>2. thread'[t] \in {"none", "spawned"} /\ socket'[t] \in {socket[t], "dropped"}
      BY <1>0, <1>18, <2>2, <2>4, <3>1 DEF HandleAccept, TypeOK
    <3>3. Lifecycle(t)' /\ Owed(t)' /\ TimedOut(t)'
      BY <1>a, <2>2, <3>1, <3>2 DEF SessionInv, Lifecycle, Joined, Owed, Answering, Ticking,
         Unread, TimedOut, ToldTimeout
    <3>4. t \notin MayTie => Single(t)'
      BY <1>a, <2>2, <3>1, <3>2 DEF SessionInv, Lifecycle, Joined, Single, Unread, Arrivals
    <3> QED
      BY <3>3, <3>4 DEF SessionInv
  <2>5. ASSUME NEW t \in Sessions, t = cur_session', t # cur_session PROVE SessionInv(t)'
    <3>1. /\ thread[t] = "none" /\ thread'[t] = "none" /\ socket[t] = "none" /\ socket'[t] = "unopened"
      BY <1>0, <1>a, <1>18, <2>2, <2>5 DEF HandleAccept, TypeOK, SessionInv, Lifecycle
    <3>2. Lifecycle(t)' /\ Owed(t)' /\ TimedOut(t)'
      BY <1>a, <2>2, <3>1 DEF SessionInv, Lifecycle, Joined, Owed, Answering, Ticking, Unread,
         TimedOut, ToldTimeout
    <3>3. t \notin MayTie => Single(t)'
      BY <1>a, <2>2, <3>1 DEF SessionInv, Single, Unread
    <3> QED
      BY <3>2, <3>3 DEF SessionInv
  <2> QED
    BY <2>1, <2>3, <2>4, <2>5 DEF Inv
<1>19. CASE UNCHANGED vars
  <2>1. TypeOK'
    BY <1>0, <1>19 DEF vars, TypeOK
  <2> QED
    BY <1>0, <1>19, <2>1, Frame DEF vars, Inv
<1> QED
  BY <1>1, <1>2, <1>3, <1>4, <1>5, <1>6, <1>7, <1>8, <1>9, <1>10, <1>11, <1>12, <1>13, <1>14,
     <1>15, <1>16, <1>17, <1>18, <1>19 DEF Next, Work, Callback

(* The invariant holds in every reachable state. *)
LEMMA Invariance == Spec => []Inv
BY InitInv, NextInv, PTL DEF Spec

-----------------------------------------------------------------------------
(* The types, among them that a session is owed at most two HandleWrites   *)
(* (session.cc:43-45, 81-83).                                              *)
THEOREM TypeCorrect == Spec => []TypeOK
<1>1. Inv => TypeOK
  BY DEF Inv
<1> QED
  BY <1>1, Invariance, PTL

(* The bare pointer of the timer's callback is valid as long as the timer  *)
(* or Timeout needs it (session.cc:55, 62).                                *)
THEOREM TimerCorrect == Spec => []TimerSafe
<1>1. Inv => TimerSafe
  BY DEF Inv, SessionInv, Lifecycle, TimerSafe, Alive
<1> QED
  BY <1>1, Invariance, PTL

(* A request that is being handled has brought a thread, however many are  *)
(* (session.cc:62, server.cc:45-49).                                       *)
THEOREM SpareCorrect == Spec => []SpareThread
<1>1. Inv => SpareThread
  <2> SUFFICES ASSUME Inv PROVE SpareThread
    OBVIOUS
  <2> DEFINE J == {s \in Sessions : thread[s] \in {"joining", "pool"}}
  <2>1. routing \subseteq J
    BY DEF Inv, TypeOK, SessionInv, Lifecycle, Joined
  <2>2. IsFiniteSet(J)
    BY SessionAssumption, FS_Subset
  <2> QED
    BY <2>1, <2>2, FS_Subset DEF SpareThread
<1> QED
  BY <1>1, Invariance, PTL

(* Once its client was told that it timed out no request is taken up, and  *)
(* only one that tied with the timer still is in its handler               *)
(* (session.cc:42, 67-69, 89-96).                                          *)
THEOREM TimeoutIsFinal == Spec => NoWorkAfterTimeout
<1>1. Inv /\ [Next]_vars =>
        [\A s \in Sessions : ToldTimeout(s) =>
           /\ s \in routing' => s \in routing /\ s \in MayTie
           /\ socket'[s] = "moved" => socket[s] = "moved"]_vars
  <2> SUFFICES ASSUME Inv, Next, NEW s \in Sessions, ToldTimeout(s)
               PROVE  /\ s \in routing' => s \in routing /\ s \in MayTie
                      /\ socket'[s] = "moved" => socket[s] = "moved"
    OBVIOUS
  <2> USE DEF server, running, reply
  <2>1. TypeOK /\ SessionInv(s) /\ timeout_check[s]
    BY DEF Inv, SessionInv, TimedOut
  <2>2. s \in routing => s \in MayTie
    BY <2>1 DEF SessionInv, Single
  <2>3. (s \in routing' => s \in routing) /\ (socket'[s] = "moved" => socket[s] = "moved")
    <3>1. CASE Connect
      BY <2>1, <3>1 DEF Connect, TypeOK
    <3>2. CASE HandleAccept
      <4>1. routing' = routing /\ socket'[s] \in {socket[s], "dropped", "unopened"}
        BY <2>1, <3>2, ZenonT(60) DEF HandleAccept, TypeOK
      <4> QED
        BY <4>1
    <3>3. ASSUME NEW t \in Sessions, Work(t) \/ Disconnect(t) \/ Receive(t) \/ Respond(t) \/ SendDone(t) \/ Race(t)
          PROVE  (s \in routing' => s \in routing) /\ (socket'[s] = "moved" => socket[s] = "moved")
      <4>1. CASE Start(t) \/ StartRead(t) \/ JoinPool(t) \/ ReadFails(t) \/ Expire(t) \/ HandleReadLate(t)
                 \/ TimeoutAborted(t) \/ Disconnect(t) \/ Receive(t) \/ Race(t)
        BY <4>1 DEF Start, StartRead, JoinPool, ReadFails, Expire, HandleReadLate,
           TimeoutAborted, Disconnect, Receive, Race
      <4>2. CASE HandleRead(t)
        BY <2>1, <4>2 DEF HandleRead, TypeOK
      <4>3. CASE HandleWrite(t) \/ TimeoutClose(t) \/ Timeout(t)
        BY <2>1, <4>3 DEF HandleWrite, TimeoutClose, Timeout, TypeOK
      <4>4. CASE Respond(t) \/ SendDone(t)
        BY <4>4 DEF Respond, SendDone
      <4> QED
        BY <3>3, <4>1, <4>2, <4>3, <4>4 DEF Work, Callback
    <3> QED
      BY <3>1, <3>2, <3>3 DEF Next
  <2> QED
    BY <2>2, <2>3
<1> QED
  BY <1>1, Invariance, PTL DEF Spec, NoWorkAfterTimeout

(* Without a tie of timer and callback, a client that stays gets one whole *)
(* response and no second one (session.cc:33-47, 66-84, 121-126).          *)
THEOREM AnsweredOnce == Spec => []OneResponse
<1>1. Inv => OneResponse
  <2> SUFFICES ASSUME Inv, NEW s \in Sessions \ MayTie
               PROVE  /\ Len(got[s]) <= 1
                      /\ socket[s] = "closed" /\ peer[s] => Len(got[s]) = 1 /\ got[s][1] # "cut"
    BY DEF OneResponse
  <2>1. Single(s) /\ got[s] \in Seq(Responses)
    BY DEF Inv, TypeOK, SessionInv
  <2>2. got[s] # <<>> => Len(got[s]) # 0
    BY <2>1, EmptyLen
  <2>3. Len(got[s]) = 0 \/ Len(got[s]) = 1
    BY <2>1 DEF Single
  <2>4. Len(got[s]) <= 1
    <3>1. \A n : n = 0 \/ n = 1 => n <= 1
      OBVIOUS
    <3> QED
      BY <2>3, <3>1, Zenon
  <2>5. socket[s] = "closed" /\ peer[s] => got[s] # <<>> /\ got[s][1] # "cut"
    BY <2>1 DEF Single
  <2> QED
    BY <2>2, <2>3, <2>4, <2>5
<1> QED
  BY <1>1, Invariance, PTL

(* A connection handed to a WebsocketHandler stays its own                 *)
(* (session.cc:81-83, 91-94).                                              *)
THEOREM HandedOverForGood == Spec => HandedOver
<1>1. Inv /\ [Next]_vars =>
        [\A s \in Sessions : socket[s] = "moved" => socket'[s] = "moved" /\ got'[s] = got[s]]_vars
  <2> SUFFICES ASSUME Inv, Next, NEW s \in Sessions, socket[s] = "moved"
               PROVE  socket'[s] = "moved" /\ got'[s] = got[s]
    OBVIOUS
  <2> USE DEF server, running, reply
  <2>1. TypeOK /\ s \notin routing /\ s \notin sending /\ s # cur_session /\ socket[s] # "none"
    BY DEF Inv, SessionInv, Lifecycle, Owed, Answering, Unread
  <2>2. CASE Connect
    BY <2>1, <2>2 DEF Connect, TypeOK
  <2>3. CASE HandleAccept
    BY <2>1, <2>3 DEF HandleAccept, TypeOK
  <2>4. ASSUME NEW t \in Sessions, Work(t) \/ Disconnect(t) \/ Receive(t) \/ Race(t)
        PROVE  socket'[s] = "moved" /\ got'[s] = got[s]
    <3>1. CASE Start(t) \/ StartRead(t) \/ JoinPool(t) \/ ReadFails(t) \/ Expire(t) \/ HandleReadLate(t)
               \/ TimeoutAborted(t) \/ Disconnect(t) \/ Receive(t) \/ Race(t)
      BY <3>1 DEF Start, StartRead, JoinPool, ReadFails, Expire, HandleReadLate,
         TimeoutAborted, Disconnect, Receive, Race
    <3>2. CASE HandleRead(t)
      BY <2>1, <3>2 DEF HandleRead, Write, Writable, TypeOK
    <3>3. CASE HandleWrite(t)
      BY <2>1, <3>3 DEF HandleWrite, TypeOK
    <3>4. CASE Timeout(t) \/ TimeoutClose(t)
      BY <2>1, <3>4 DEF Timeout, TimeoutClose, Write, Writable, Cut, TypeOK
    <3> QED
      BY <2>4, <3>1, <3>2, <3>3, <3>4 DEF Work, Callback
  <2>5. ASSUME NEW t \in Sessions, Respond(t) \/ SendDone(t) PROVE socket'[s] = "moved" /\ got'[s] = got[s]
    BY <2>1, <2>5 DEF Respond, SendDone, Write, WriteLong, Writable, TypeOK
  <2> QED
    BY <2>2, <2>3, <2>4, <2>5 DEF Next
<1> QED
  BY <1>1, Invariance, PTL DEF Spec, HandedOver
=============================================================================
