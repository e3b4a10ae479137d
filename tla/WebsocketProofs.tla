--------------------------- MODULE WebsocketProofs ----------------------------
(***************************************************************************)
(* Theorems about WebsocketChannels, for every set of handlers and         *)
(* channels, finite or not, and any number of messages.                    *)
(***************************************************************************)
EXTENDS WebsocketChannels, SequenceTheorems, TLAPS

(***************************************************************************)
(* The inductive invariant: the types, and three parts that each speak of  *)
(* one handler at a time.                                                  *)
(***************************************************************************)
Types ==
  /\ status \in {"up", "down", "undefined"}
  /\ map \in SUBSET Channels /\ members \in [Channels -> SUBSET Handlers]
  /\ at \in [Handlers -> Stages] /\ connected \in [Handlers -> BOOLEAN]
  /\ sends \in [Handlers -> Nat] /\ todo \in [Handlers -> SUBSET Handlers]
  /\ posted \in [Handlers -> Seq(Message)] /\ queue \in [Handlers -> Seq(Message)]
  /\ delivered \in [Handlers -> Seq(Message)]
  /\ writes \in [Handlers -> Int]
  /\ completion \in [Handlers -> {"none", "ok", "error"}]

(* A handler with members to serve has a message for them. *)
Sending(h) == sends[h] <= MaxSends[h] /\ (todo[h] # {} => sends[h] > 0)

(* Where a handler is says in which set of members it can be. *)
Membership(h) ==
  /\ at[h] = "joining" => Channel(h) \in map
  /\ at[h] \in {"reading", "delivering"} => h \in members[Channel(h)]
  /\ \A c \in Channels : h \in members[c] =>
       /\ c = Channel(h) /\ c \in map
       /\ at[h] \in {"reading", "delivering", "stopped", "dying"}

(* A write is in progress exactly when something waits in the queue, as    *)
(* long as the connection lasts; an error means that it has ended.         *)
Writing(h) ==
  /\ writes[h] \in 0..1
  /\ completion[h] # "none" => writes[h] = 1
  /\ completion[h] = "error" => ~connected[h]
  /\ writes[h] = 1 => queue[h] # <<>>
  /\ queue[h] # <<>> /\ connected[h] => writes[h] = 1

Inv == Types /\ \A h \in Handlers : Sending(h) /\ Membership(h) /\ Writing(h)

-----------------------------------------------------------------------------
(* At the start nobody is anywhere. *)
LEMMA InitInv == Init => Inv
BY ChannelAssumption DEF Init, Inv, Types, Stages, Sending, Membership, Writing, Channel

(* A step that moves one handler along its chain, and nothing else. *)
LEMMA GotoInv ==
  ASSUME Inv, NEW h \in Handlers, NEW stage,
         \/ stage \in {"stopped", "dying"}
         \/ at[h] \in {"new", "accepting"} /\ stage \in {"accepting", "accepted"}
         \/ at[h] = "delivering" /\ stage = "reading",
         Goto(h, stage),
         UNCHANGED <<status, pointers, todo, sends, connected, posted, output>>
  PROVE  Inv'
<1>1. Types'
  BY DEF Inv, Types, Goto, pointers, output, Stages
<1>2. ASSUME NEW k \in Handlers PROVE Sending(k)' /\ Writing(k)'
  BY DEF Inv, Sending, Writing, pointers, output
<1>3. ASSUME NEW k \in Handlers PROVE Membership(k)'
  BY DEF Inv, Types, Membership, Channel, Goto, pointers, Stages
<1> QED
  BY <1>1, <1>2, <1>3 DEF Inv

(* A step that leaves the handlers where they are, and does not touch what *)
(* they write, keeps what is said of these two.                            *)
LEMMA MembershipFrame ==
  ASSUME Inv, NEW k \in Handlers, UNCHANGED <<pointers, at>>
  PROVE  Membership(k)'
BY DEF Inv, Membership, Channel, pointers

(* The same for its write,                                                 *)
LEMMA WritingFrame ==
  ASSUME Inv, NEW k \in Handlers, UNCHANGED <<connected, queue, writes, completion>>
  PROVE  Writing(k)'
BY DEF Inv, Writing

(* and for what it sends.                                                  *)
LEMMA SendingFrame ==
  ASSUME Inv, NEW k \in Handlers, UNCHANGED sends, todo'[k] \subseteq todo[k]
  PROVE  Sending(k)'
BY DEF Inv, Sending

(* The handler is about to join, and its channel has an entry. *)
LEMMA OnConnectInv ==
  ASSUME Inv, NEW h \in Handlers, OnConnect(h)
  PROVE  Inv'
<1>1. Types'
  BY ChannelAssumption DEF Inv, Types, OnConnect, Die, Goto, Channel, output, Stages
<1>2. ASSUME NEW k \in Handlers PROVE Sending(k)' /\ Writing(k)'
  BY SendingFrame, WritingFrame DEF OnConnect, output
<1>3. ASSUME NEW k \in Handlers PROVE Membership(k)'
  BY DEF Inv, Types, OnConnect, Die, Goto, Membership, Channel, Stages
<1> QED
  BY <1>1, <1>2, <1>3 DEF Inv

(* The handler enters its own channel, which has an entry. *)
LEMMA JoinInv ==
  ASSUME Inv, NEW h \in Handlers, Join(h)
  PROVE  Inv'
<1>1. Types'
  BY ChannelAssumption DEF Inv, Types, Join, Goto, Channel, output, Stages
<1>2. ASSUME NEW k \in Handlers PROVE Sending(k)' /\ Writing(k)'
  BY SendingFrame, WritingFrame DEF Join, output
<1>3. ASSUME NEW k \in Handlers PROVE Membership(k)'
  BY ChannelAssumption DEF Inv, Types, Join, Goto, Membership, Channel, Stages
<1> QED
  BY <1>1, <1>2, <1>3 DEF Inv

(* The handler leaves its channel before it is gone. *)
LEMMA RemoveInv ==
  ASSUME Inv, NEW h \in Handlers, Remove(h)
  PROVE  Inv'
<1>1. /\ status' \in {"up", "down", "undefined"}
      /\ members' \in {members, [members EXCEPT ![Channel(h)] = @ \ {h}]}
      /\ at' \in [Handlers -> Stages]
  BY DEF Inv, Types, Remove, Die, Goto, Stages
<1>2. members \in [Channels -> SUBSET Handlers] /\ members' \in [Channels -> SUBSET Handlers]
  BY <1>1 DEF Inv, Types
<1>3. Types'
  BY <1>1, <1>2 DEF Inv, Types, Remove, output
<1>4. ASSUME NEW k \in Handlers PROVE Sending(k)' /\ Writing(k)'
  BY SendingFrame, WritingFrame DEF Remove, output
<1>5. ASSUME NEW k \in Handlers PROVE Membership(k)'
  <2>1. CASE UNCHANGED <<members, at>>
    BY <2>1, MembershipFrame DEF Remove, pointers
  <2>2. CASE /\ Channel(h) \in map /\ map' = map
             /\ members' = [members EXCEPT ![Channel(h)] = @ \ {h}]
             /\ at' = [at EXCEPT ![h] = "gone"]
    <3>1. \A c \in Channels : \A j \in Handlers :
            j \in members'[c] <=> j \in members[c] /\ ~(c = Channel(h) /\ j = h)
      BY <1>2, <2>2
    <3>2. Channel(k) \in Channels
      BY ChannelAssumption DEF Channel
    <3>3. at'[k] = IF k = h THEN "gone" ELSE at[k]
      BY <2>2 DEF Inv, Types
    <3>4. Channel(k)' = Channel(k)
      BY DEF Channel
    <3>5. Membership(k)
      BY DEF Inv
    <3> QED
      BY <2>2, <3>1, <3>2, <3>3, <3>4, <3>5 DEF Membership
  <2> QED
    BY <2>1, <2>2 DEF Remove, Goto
<1> QED
  BY <1>3, <1>4, <1>5 DEF Inv

(* The copy of the members holds handlers, and there is a message for them. *)
LEMMA OnRecieveInv ==
  ASSUME Inv, NEW h \in Handlers, OnRecieve(h)
  PROVE  Inv'
<1>a. Channel(h) \in Channels /\ members[Channel(h)] \in SUBSET Handlers
  BY ChannelAssumption DEF Inv, Types, Channel
<1>b. /\ sends' = [sends EXCEPT ![h] = @ + 1] /\ sends' \in [Handlers -> Nat]
      /\ todo' = [todo EXCEPT ![h] = members[Channel(h)]] /\ todo' \in [Handlers -> SUBSET Handlers]
      /\ sends[h] < MaxSends[h]
  BY <1>a DEF Inv, Types, OnRecieve
<1>1. Types'
  BY <1>b DEF Inv, Types, OnRecieve, Goto, output, pointers, Stages
<1>2. ASSUME NEW k \in Handlers PROVE Sending(k)'
  <2>1. CASE k = h
    <3>1. sends[h] \in Nat /\ MaxSends'[h] = MaxSends[h] /\ MaxSends[h] \in Nat
      BY ChannelAssumption DEF Inv, Types
    <3>2. sends'[h] = sends[h] + 1
      BY <1>b DEF Inv, Types
    <3>3. sends'[h] <= MaxSends[h] /\ sends'[h] > 0
      BY <1>b, <3>1, <3>2
    <3> QED
      BY <2>1, <3>1, <3>3 DEF Sending
  <2>2. CASE k # h
    BY <1>b, <2>2 DEF Inv, Types, Sending
  <2> QED
    BY <2>1, <2>2
<1>3. ASSUME NEW k \in Handlers PROVE Writing(k)'
  BY WritingFrame DEF OnRecieve, output
<1>4. ASSUME NEW k \in Handlers PROVE Membership(k)'
  BY DEF Inv, Types, OnRecieve, Goto, Membership, Channel, pointers, Stages
<1> QED
  BY <1>1, <1>2, <1>3, <1>4 DEF Inv

(* What is posted is a message. *)
LEMMA DeliverInv ==
  ASSUME Inv, NEW h \in Handlers, Deliver(h)
  PROVE  Inv'
<1>1. PICK k \in todo[h] :
        /\ todo' = [todo EXCEPT ![h] = @ \ {k}]
        /\ status' \in {status, "down"}
        /\ posted' \in {posted, [posted EXCEPT ![k] = Append(@, <<h, sends[h]>>)]}
  BY DEF Deliver, Die
<1>2. k \in Handlers
  BY <1>1 DEF Inv, Types
<1>3. <<h, sends[h]>> \in Message
  <2>1. sends[h] \in Nat /\ MaxSends[h] \in Nat /\ sends[h] > 0 /\ sends[h] <= MaxSends[h]
    BY <1>1, ChannelAssumption DEF Inv, Types, Sending
  <2> QED
    BY <2>1 DEF Message
<1>4. posted' \in [Handlers -> Seq(Message)]
  <2>1. posted \in [Handlers -> Seq(Message)]
    BY DEF Inv, Types
  <2>2. Append(posted[k], <<h, sends[h]>>) \in Seq(Message)
    BY <1>2, <1>3, <2>1
  <2> QED
    BY <1>1, <1>2, <2>1, <2>2
<1>5. Types'
  BY <1>1, <1>4 DEF Inv, Types, Deliver, output, pointers
<1>6. ASSUME NEW j \in Handlers PROVE Sending(j)'
  BY <1>1, SendingFrame DEF Inv, Types, Deliver
<1>7. ASSUME NEW j \in Handlers PROVE Writing(j)' /\ Membership(j)'
  BY WritingFrame, MembershipFrame DEF Deliver, output
<1> QED
  BY <1>5, <1>6, <1>7 DEF Inv

(* The queue is not empty and a write is in progress afterwards. *)
LEMMA OnBroadcastInv ==
  ASSUME Inv, NEW h \in Handlers, OnBroadcast(h)
  PROVE  Inv'
<1>1. posted[h] \in Seq(Message) /\ posted[h] # <<>> /\ queue[h] \in Seq(Message)
  BY DEF Inv, Types, OnBroadcast
<1>2. Tail(posted[h]) \in Seq(Message) /\ Append(queue[h], Head(posted[h])) \in Seq(Message)
  BY <1>1
<1>3. Types'
  BY <1>2 DEF Inv, Types, OnBroadcast, pointers, chain
<1>4. ASSUME NEW k \in Handlers PROVE Sending(k)' /\ Membership(k)'
  BY SendingFrame, MembershipFrame DEF OnBroadcast, pointers, chain
<1>5. Append(queue[h], Head(posted[h])) # <<>>
  BY <1>1
<1>6. ASSUME NEW k \in Handlers PROVE Writing(k)'
  BY <1>5 DEF Inv, Types, Writing, OnBroadcast
<1> QED
  BY <1>3, <1>4, <1>6 DEF Inv

(* The front of the queue stays, and an error means a lost connection. *)
LEMMA WriteEndsInv ==
  ASSUME Inv, NEW h \in Handlers, WriteEnds(h)
  PROVE  Inv'
<1>1. queue[h] \in Seq(Message) /\ queue[h] # <<>> /\ delivered[h] \in Seq(Message)
  BY DEF Inv, Types, Writing, WriteEnds
<1>2. Append(delivered[h], Head(queue[h])) \in Seq(Message)
  BY <1>1
<1>a. /\ delivered' \in {delivered, [delivered EXCEPT ![h] = Append(@, Head(queue[h]))]}
      /\ completion' \in [Handlers -> {"none", "ok", "error"}]
  BY DEF Inv, Types, WriteEnds
<1>b. delivered' \in [Handlers -> Seq(Message)]
  BY <1>a, <1>2 DEF Inv, Types
<1>3. Types'
  BY <1>a, <1>b DEF Inv, Types, WriteEnds, pointers, chain
<1>4. ASSUME NEW k \in Handlers PROVE Sending(k)' /\ Membership(k)'
  BY SendingFrame, MembershipFrame DEF WriteEnds, pointers, chain
<1>5. ASSUME NEW k \in Handlers PROVE Writing(k)'
  BY DEF Inv, Types, Writing, WriteEnds
<1> QED
  BY <1>3, <1>4, <1>5 DEF Inv

(* The next write starts exactly when something is left. *)
LEMMA OnWriteInv ==
  ASSUME Inv, NEW h \in Handlers, OnWrite(h)
  PROVE  Inv'
<1>1. queue[h] \in Seq(Message) /\ queue[h] # <<>>
  BY DEF Inv, Types, Writing, OnWrite
<1>2. Tail(queue[h]) \in Seq(Message) /\ (Tail(queue[h]) # <<>> <=> Len(queue[h]) > 1)
  <2>1. Tail(queue[h]) \in Seq(Message) /\ Len(Tail(queue[h])) = Len(queue[h]) - 1
    BY <1>1
  <2>2. Len(queue[h]) \in Nat
    BY <1>1
  <2>3. Tail(queue[h]) = <<>> <=> Len(Tail(queue[h])) = 0
    BY <2>1, EmptySeq
  <2>4. queue[h] = <<>> <=> Len(queue[h]) = 0
    BY <1>1, EmptySeq
  <2>5. Len(queue[h]) - 1 = 0 <=> ~(Len(queue[h]) > 1)
    <3>1. \A n \in Nat : n # 0 => (n - 1 = 0 <=> ~(n > 1))
      OBVIOUS
    <3>2. Len(queue[h]) # 0
      BY <1>1, <2>4
    <3> QED
      BY <2>2, <3>1, <3>2
  <2> QED
    BY <2>1, <2>3, <2>5
<1>a. /\ queue' \in {queue, [queue EXCEPT ![h] = Tail(@)]}
      /\ writes' \in [Handlers -> Int] /\ completion' \in [Handlers -> {"none", "ok", "error"}]
  BY DEF Inv, Types, OnWrite
<1>b. queue' \in [Handlers -> Seq(Message)]
  BY <1>a, <1>2 DEF Inv, Types
<1>3. Types'
  BY <1>a, <1>b DEF Inv, Types, OnWrite, pointers, chain
<1>4. ASSUME NEW k \in Handlers PROVE Sending(k)' /\ Membership(k)'
  BY SendingFrame, MembershipFrame DEF OnWrite, pointers, chain
<1>5. ASSUME NEW k \in Handlers PROVE Writing(k)'
  BY <1>2, SMTT(60) DEF Inv, Types, Writing, OnWrite
<1> QED
  BY <1>3, <1>4, <1>5 DEF Inv

(* A lost connection leaves the writes as they are. *)
LEMMA DisconnectInv ==
  ASSUME Inv, NEW h \in Handlers, Disconnect(h)
  PROVE  Inv'
<1>1. Types'
  BY DEF Inv, Types, Disconnect, pointers, chain, output
<1>2. ASSUME NEW k \in Handlers PROVE Sending(k)' /\ Membership(k)'
  BY SendingFrame, MembershipFrame DEF Disconnect, pointers, chain
<1>3. ASSUME NEW k \in Handlers PROVE Writing(k)'
  BY DEF Inv, Types, Writing, Disconnect, output
<1> QED
  BY <1>1, <1>2, <1>3 DEF Inv

(* Nothing but the status changes. *)
LEMMA RaceInv ==
  ASSUME Inv, status' \in {"up", "down", "undefined"},
         UNCHANGED <<pointers, chain, connected, posted, output>>
  PROVE  Inv'
BY DEF Inv, Types, Sending, Membership, Writing, Channel, pointers, chain, output

(* Every step preserves the invariant. *)
LEMMA NextInv == Inv /\ [Next]_vars => Inv'
<1> SUFFICES ASSUME Inv, [Next]_vars PROVE Inv'
  OBVIOUS
<1>1. CASE UNCHANGED vars
  BY <1>1, RaceInv DEF vars, Inv, Types
<1>2. ASSUME NEW h \in Handlers, Run(h) PROVE Inv'
  BY <1>2, GotoInv DEF Run
<1>3. ASSUME NEW h \in Handlers, HandshakeDone(h) PROVE Inv'
  BY <1>3, GotoInv DEF HandshakeDone
<1>4. ASSUME NEW h \in Handlers, HandshakeFails(h) PROVE Inv'
  BY <1>4, GotoInv DEF HandshakeFails
<1>5. ASSUME NEW h \in Handlers, ReadAgain(h) PROVE Inv'
  BY <1>5, GotoInv DEF ReadAgain
<1>6. ASSUME NEW h \in Handlers, ReadFails(h) PROVE Inv'
  BY <1>6, GotoInv DEF ReadFails
<1>7. ASSUME NEW h \in Handlers, Expire(h) PROVE Inv'
  BY <1>7, GotoInv DEF Expire
<1>8. ASSUME NEW h \in Handlers, Race(h) PROVE Inv'
  BY <1>8, RaceInv DEF Race
<1> QED
  BY <1>1, <1>2, <1>3, <1>4, <1>5, <1>6, <1>7, <1>8, OnConnectInv, JoinInv, RemoveInv,
     OnRecieveInv, DeliverInv, OnBroadcastInv, WriteEndsInv, OnWriteInv, DisconnectInv
     DEF Next, Work

(* Hence the invariant holds for ever. *)
LEMMA Invariant == Spec => []Inv
  BY InitInv, NextInv, PTL DEF Spec

-----------------------------------------------------------------------------
(* Every variable keeps its type, and no handler ever has two writes in    *)
(* progress (websocket_handler.cc:95, 112).                                *)
THEOREM TypeCorrect == Spec => []TypeOK
<1>1. Inv => TypeOK
  BY DEF Inv, Types, Writing, TypeOK
<1> QED
  BY <1>1, Invariant, PTL

(* No channel points to a handler that is gone                             *)
(* (global_websocket_state.cc:29-54, websocket_handler.cc:22).             *)
THEOREM MembersCorrect == Spec => []MembersAlive
<1>1. Inv => MembersAlive
  BY DEF Inv, Types, Membership, MembersAlive
<1> QED
  BY <1>1, Invariant, PTL

(* No reference into map_ outlives its entry                               *)
(* (global_websocket_state.cc:22-26, 31-36, 43-54).                        *)
THEOREM EntriesCorrect == Spec => []EntryOutlivesUse
<1>1. Inv => EntryOutlivesUse
  BY ChannelAssumption DEF Inv, Membership, EntryOutlivesUse, Channel, GetChannels
<1> QED
  BY <1>1, Invariant, PTL

(* The buffer of a write in progress stays in the queue, and no message    *)
(* waits in vain (websocket_handler.cc:93-117).                            *)
THEOREM WritesCorrect == Spec => []WriteInProgress
<1>1. Inv => WriteInProgress
  BY DEF Inv, Types, Writing, WriteInProgress
<1> QED
  BY <1>1, Invariant, PTL

-----------------------------------------------------------------------------
(***************************************************************************)
(* The order of messages.  What a client has got, what its handler still   *)
(* has to write and what is posted to its strand are one stream, which     *)
(* grows at its end and only there: OnBroadcast, a write and its OnWrite   *)
(* move the borders between the three parts.                               *)
(***************************************************************************)
Unwritten(h) == IF completion[h] = "ok" THEN Tail(queue[h]) ELSE queue[h]
Chain(d, q, p) == (d \o q) \o p
Stream(h)    == Chain(delivered[h], Unwritten(h), posted[h])

(* The messages of a sender in a sequence form a run. *)
Ordered(seq) ==
  \A i, j \in DOMAIN seq :
    i < j /\ seq[i][1] = seq[j][1] =>
      /\ seq[i][2] < seq[j][2]
      /\ seq[j][2] > seq[i][2] + 1 =>
           \E k \in (i + 1)..(j - 1) : seq[k] = <<seq[i][1], seq[i][2] + 1>>

Expected(h) == at[h] \notin {"dying", "gone"}

(* The last message of s that h has been given, or would have been. *)
Due(s, h) == IF h \in todo[s] THEN sends[s] - 1 ELSE sends[s]

(* A stream holds no message of s beyond the last that was due. *)
Past(s, h) == \A i \in DOMAIN Stream(h) : Stream(h)[i][1] = s => Stream(h)[i][2] <= Due(s, h)

(* Who has been given a message of s has been given all those after it. *)
Gapless(s, h) ==
  \A i \in DOMAIN Stream(h) :
    status = "up" /\ Expected(h) /\ Stream(h)[i][1] = s /\ Stream(h)[i][2] < Due(s, h) =>
      \E k \in DOMAIN Stream(h) : k > i /\ Stream(h)[k] = <<s, Stream(h)[i][2] + 1>>

(* Who is given messages of s is in its channel until it is destroyed. *)
Known(s, h) ==
  h \in todo[s] \/ (\E i \in DOMAIN Stream(h) : Stream(h)[i][1] = s) =>
    ~Expected(h) \/ h \in members[Channel(s)]

(* Only a handler inside Broadcast has members left to serve. *)
Busy(s) == todo[s] # {} => at[s] = "delivering"

Kept(s, h) == Past(s, h) /\ Gapless(s, h) /\ Known(s, h)

OrderInv ==
  /\ Inv
  /\ \A h \in Handlers : Ordered(Stream(h)) /\ Busy(h)
  /\ \A s, h \in Handlers : Kept(s, h)

(* Moving the front of one sequence to the end of another, side by side.   *)
LEMMA MoveFront ==
  ASSUME NEW S, NEW q \in Seq(S), NEW p \in Seq(S), p # <<>>
  PROVE  Append(q, Head(p)) \o Tail(p) = q \o p
<1>1. /\ Head(p) \in S /\ Tail(p) \in Seq(S) /\ p = <<Head(p)>> \o Tail(p)
  BY HeadTailProperties, HeadTailAppend
<1>2. Append(q, Head(p)) = q \o <<Head(p)>>
  BY <1>1, AppendIsConcat
<1>3. <<Head(p)>> \in Seq(S)
  BY <1>1
<1> QED
  BY <1>1, <1>2, <1>3, ConcatAssociative

(* The same with a third sequence in front: the border between what is     *)
(* queued and what is posted moves.                                        *)
LEMMA MoveBehind ==
  ASSUME NEW S, NEW d \in Seq(S), NEW q \in Seq(S), NEW p \in Seq(S), p # <<>>
  PROVE  Chain(d, Append(q, Head(p)), Tail(p)) = Chain(d, q, p)
<1> DEFINE a == Append(q, Head(p))
           t == Tail(p)
<1>1. a \in Seq(S) /\ t \in Seq(S)
  BY HeadTailProperties, AppendProperties
<1>5. a \o t = q \o p
  BY MoveFront, Zenon
<1> HIDE DEF a, t
<1>2. (d \o a) \o t = d \o (a \o t)
  BY <1>1, SMT
<1>3. @ = d \o (q \o p)
  BY <1>5, Zenon
<1>4. @ = (d \o q) \o p
  BY SMT
<1> QED
  BY <1>2, <1>3, <1>4 DEF a, t, Chain

(* What is posted comes at the end of the stream. *)
LEMMA PostedAtEnd ==
  ASSUME NEW S, NEW d \in Seq(S), NEW q \in Seq(S), NEW p \in Seq(S), NEW x \in S
  PROVE  Chain(d, q, Append(p, x)) = Append(Chain(d, q, p), x)
<1> DEFINE a == d \o q
           e == <<x>>
<1>1. a \in Seq(S) /\ e \in Seq(S) /\ Append(p, x) = p \o e
  BY AppendIsConcat
<1>2. a \o p \in Seq(S)
  BY <1>1
<1>3. Append(a \o p, x) = (a \o p) \o e
  BY <1>2, AppendIsConcat
<1> HIDE DEF a, e
<1>4. (a \o p) \o e = a \o (p \o e)
  BY <1>1, ConcatAssociative, SMTT(60)
<1> QED
  BY <1>1, <1>3, <1>4 DEF a, Chain

(* What is put at the end of a queue does not matter to its front. *)
LEMMA TailOfAppend ==
  ASSUME NEW S, NEW q \in Seq(S), q # <<>>, NEW x \in S
  PROVE  Tail(Append(q, x)) = Append(Tail(q), x)
<1>1. Len(q) \in Nat \ {0}
  BY EmptySeq
<1>2. /\ Tail(q) \in Seq(S) /\ Len(Tail(q)) = Len(q) - 1
      /\ \A i \in 1..Len(Tail(q)) : Tail(q)[i] = q[i + 1]
  BY HeadTailProperties
<1>3. Append(q, x) \in Seq(S) /\ Append(q, x) # <<>> /\ Append(Tail(q), x) \in Seq(S)
  BY <1>2, AppendProperties
<1>4. /\ Len(Tail(Append(q, x))) = Len(q) /\ Tail(Append(q, x)) \in Seq(S)
      /\ Len(Append(Tail(q), x)) = Len(q)
  BY <1>1, <1>2, <1>3, HeadTailProperties, AppendProperties
<1>5. ASSUME NEW i \in 1..Len(q) PROVE Tail(Append(q, x))[i] = Append(Tail(q), x)[i]
  <2>1. Tail(Append(q, x))[i] = Append(q, x)[i + 1]
    BY <1>3, <1>4, HeadTailProperties
  <2>2. CASE i = Len(q)
    <3>1. Append(q, x)[i + 1] = x
      BY <2>2, AppendProperties
    <3>2. Append(Tail(q), x)[Len(Tail(q)) + 1] = x /\ Len(Tail(q)) + 1 = Len(q)
      BY <1>1, <1>2, AppendProperties
    <3> QED
      BY <2>1, <2>2, <3>1, <3>2
  <2>3. CASE i # Len(q)
    <3>1. i \in 1..Len(Tail(q)) /\ i + 1 \in 1..Len(q)
      <4>1. \A n \in Nat : \A j \in 1..n : j # n => j \in 1..(n - 1) /\ j + 1 \in 1..n
        OBVIOUS
      <4>2. Len(q) \in Nat /\ Len(Tail(q)) = Len(q) - 1
        BY <1>1, <1>2
      <4> QED
        BY <2>3, <4>1, <4>2, Zenon
    <3>2. Append(q, x)[i + 1] = q[i + 1] /\ Append(Tail(q), x)[i] = Tail(q)[i]
      BY <1>2, <3>1, AppendProperties
    <3> QED
      BY <1>2, <2>1, <3>1, <3>2
  <2> QED
    BY <2>2, <2>3
<1> QED
  BY <1>3, <1>4, <1>5, SeqEqual, Zenon

(* A stream is a sequence of messages. *)
LEMMA StreamType ==
  ASSUME Inv, NEW h \in Handlers
  PROVE  /\ delivered[h] \in Seq(Message) /\ posted[h] \in Seq(Message)
         /\ Unwritten(h) \in Seq(Message) /\ Stream(h) \in Seq(Message)
<1>1. /\ delivered[h] \in Seq(Message) /\ posted[h] \in Seq(Message) /\ queue[h] \in Seq(Message)
      /\ completion[h] = "ok" => queue[h] # <<>>
  BY DEF Inv, Types, Writing
<1>2. Unwritten(h) \in Seq(Message)
  BY <1>1 DEF Unwritten
<1> QED
  BY <1>1, <1>2 DEF Stream, Chain

(* A message is its sender and a number. *)
LEMMA MessageType ==
  ASSUME NEW m \in Message
  PROVE  m = <<m[1], m[2]>> /\ m[1] \in Handlers /\ m[2] \in Nat
BY ChannelAssumption DEF Message

(* OnBroadcast takes what was posted over into the queue. *)
LEMMA OnBroadcastStream ==
  ASSUME Inv, NEW h \in Handlers, OnBroadcast(h), NEW k \in Handlers
  PROVE  Stream(k)' = Stream(k)
<1>1. CASE k # h
  BY <1>1 DEF Inv, Types, OnBroadcast, Stream, Unwritten
<1>2. CASE k = h
  <2>1. /\ delivered[h] \in Seq(Message) /\ posted[h] \in Seq(Message) /\ posted[h] # <<>>
        /\ Unwritten(h) \in Seq(Message) /\ queue[h] \in Seq(Message)
        /\ completion[h] = "ok" => queue[h] # <<>>
    BY StreamType DEF OnBroadcast, Inv, Types, Writing
  <2>2. Head(posted[h]) \in Message /\ Tail(posted[h]) \in Seq(Message)
    BY <2>1
  <2>3. /\ posted'[h] = Tail(posted[h]) /\ queue'[h] = Append(queue[h], Head(posted[h]))
        /\ completion'[h] = completion[h] /\ delivered'[h] = delivered[h]
    BY DEF OnBroadcast, Inv, Types
  <2>4. Unwritten(h)' = Append(Unwritten(h), Head(posted[h]))
    <3>1. CASE completion[h] = "ok"
      <4>1. Tail(Append(queue[h], Head(posted[h]))) = Append(Tail(queue[h]), Head(posted[h]))
        BY <2>1, <2>2, <3>1, TailOfAppend
      <4> QED
        BY <2>3, <3>1, <4>1 DEF Unwritten
    <3>2. CASE completion[h] # "ok"
      BY <2>3, <3>2 DEF Unwritten
    <3> QED
      BY <3>1, <3>2
  <2> QED
    <3>1. Stream(h)' = Chain(delivered[h], Append(Unwritten(h), Head(posted[h])), Tail(posted[h]))
      BY <2>3, <2>4, Zenon DEF Stream
    <3>2. @ = Chain(delivered[h], Unwritten(h), posted[h])
      BY <2>1, MoveBehind
    <3> QED
      BY <1>2, <3>1, <3>2, Zenon DEF Stream
<1> QED
  BY <1>1, <1>2

(* What is written goes from what is to be written to what is. *)
LEMMA WriteEndsStream ==
  ASSUME Inv, NEW h \in Handlers, WriteEnds(h), NEW k \in Handlers
  PROVE  Stream(k)' = Stream(k)
<1>1. CASE k # h
  BY <1>1 DEF Inv, Types, WriteEnds, Stream, Unwritten
<1>2. CASE k = h
  <2>1. /\ delivered[h] \in Seq(Message) /\ queue[h] \in Seq(Message) /\ queue[h] # <<>>
        /\ Unwritten(h) = queue[h]
    BY DEF Inv, Types, Writing, WriteEnds, Unwritten
  <2>2. CASE completion'[h] = "ok"
    <3>1. delivered'[h] = Append(delivered[h], Head(queue[h])) /\ Unwritten(h)' = Tail(queue[h])
      BY <2>2 DEF Inv, Types, WriteEnds, Unwritten
    <3>2. delivered'[h] \o Unwritten(h)' = delivered[h] \o Unwritten(h)
      BY <2>1, <3>1, MoveFront, ZenonT(60)
    <3> QED
      BY <1>2, <3>2 DEF Stream, Chain, WriteEnds
  <2>3. CASE completion'[h] # "ok"
    <3>1. delivered'[h] = delivered[h] /\ Unwritten(h)' = queue[h]
      BY <2>3 DEF Inv, Types, WriteEnds, Unwritten
    <3> QED
      BY <1>2, <2>1, <3>1 DEF Stream, WriteEnds
  <2> QED
    BY <2>2, <2>3
<1> QED
  BY <1>1, <1>2

(* What has been written has left the stream of what is to be written. *)
LEMMA OnWriteStream ==
  ASSUME Inv, NEW h \in Handlers, OnWrite(h), NEW k \in Handlers
  PROVE  Stream(k)' = Stream(k)
<1>1. Unwritten(k)' = Unwritten(k)
  BY DEF Inv, Types, OnWrite, Unwritten
<1> QED
  BY <1>1 DEF Stream, OnWrite

(* A sequence stays ordered when the message after the last one of its     *)
(* sender is put at its end.                                               *)
LEMMA OrderedAppend ==
  ASSUME NEW seq \in Seq(Message), Ordered(seq), NEW s, NEW n \in Nat, <<s, n>> \in Message,
         \A i \in DOMAIN seq : seq[i][1] = s => seq[i][2] < n,
         \A i \in DOMAIN seq : seq[i][1] = s /\ seq[i][2] < n - 1 =>
           \E k \in DOMAIN seq : k > i /\ seq[k] = <<s, seq[i][2] + 1>>
  PROVE  Ordered(Append(seq, <<s, n>>))
<1> DEFINE new == Append(seq, <<s, n>>)
<1>1. /\ DOMAIN seq = 1..Len(seq) /\ Len(seq) \in Nat /\ DOMAIN new = 1..(Len(seq) + 1)
      /\ \A i \in DOMAIN seq : new[i] = seq[i]
      /\ new[Len(seq) + 1] = <<s, n>>
  BY AppendProperties
<1>2. \A i \in DOMAIN seq : seq[i][2] \in Nat
  BY MessageType
<1> SUFFICES ASSUME NEW i \in DOMAIN new, NEW j \in DOMAIN new, i < j, new[i][1] = new[j][1]
             PROVE  /\ new[i][2] < new[j][2]
                    /\ new[j][2] > new[i][2] + 1 =>
                         \E k \in (i + 1)..(j - 1) : new[k] = <<new[i][1], new[i][2] + 1>>
  BY DEF Ordered
<1> HIDE DEF new
<1>3. i \in DOMAIN seq
  BY <1>1
<1>4. CASE j \in DOMAIN seq
  <2>1. /\ seq[i][2] < seq[j][2]
        /\ seq[j][2] > seq[i][2] + 1 =>
             \E k \in (i + 1)..(j - 1) : seq[k] = <<seq[i][1], seq[i][2] + 1>>
    BY <1>1, <1>3, <1>4, ZenonT(60) DEF Ordered
  <2>2. \A k \in (i + 1)..(j - 1) : k \in DOMAIN seq
    BY <1>1, <1>3, <1>4
  <2> QED
    BY <1>1, <1>3, <1>4, <2>1, <2>2
<1>5. CASE j = Len(seq) + 1
  <2>1. new[j] = <<s, n>> /\ seq[i][1] = s /\ new[i] = seq[i]
    BY <1>1, <1>3, <1>5
  <2>2. new[i][2] < new[j][2]
    BY <1>3, <2>1
  <2>3. ASSUME new[j][2] > new[i][2] + 1
        PROVE  \E k \in (i + 1)..(j - 1) : new[k] = <<new[i][1], new[i][2] + 1>>
    <3>1. seq[i][2] < n - 1
      BY <1>2, <1>3, <2>1, <2>3
    <3>2. PICK k \in DOMAIN seq : k > i /\ seq[k] = <<s, seq[i][2] + 1>>
      BY <1>3, <2>1, <3>1
    <3>3. k \in (i + 1)..(j - 1) /\ new[k] = seq[k]
      BY <1>1, <1>3, <1>5, <3>2
    <3> QED
      BY <2>1, <3>2, <3>3
  <2> QED
    BY <2>2, <2>3
<1> QED
  BY <1>1, <1>4, <1>5, SMTT(60)

(* The beginning of an ordered sequence is ordered. *)
LEMMA OrderedPrefix ==
  ASSUME NEW S, NEW u \in Seq(S), NEW v \in Seq(S), Ordered(u \o v)
  PROVE  Ordered(u)
<1>1. /\ DOMAIN u = 1..Len(u) /\ Len(u) \in Nat /\ Len(v) \in Nat
      /\ DOMAIN (u \o v) = 1..(Len(u) + Len(v))
      /\ \A i \in 1..Len(u) : (u \o v)[i] = u[i]
  BY ConcatProperties
<1> DEFINE w == u \o v
<1>2. Ordered(w)
  OBVIOUS
<1> HIDE DEF w
<1>3. \A i \in DOMAIN u : i \in DOMAIN w /\ w[i] = u[i]
  BY <1>1 DEF w
<1>4. \A i, j \in DOMAIN u : \A k \in (i + 1)..(j - 1) : k \in DOMAIN u
  BY <1>1
<1> SUFFICES ASSUME NEW i \in DOMAIN u, NEW j \in DOMAIN u, i < j, u[i][1] = u[j][1]
             PROVE  /\ u[i][2] < u[j][2]
                    /\ u[j][2] > u[i][2] + 1 =>
                         \E k \in (i + 1)..(j - 1) : u[k] = <<u[i][1], u[i][2] + 1>>
  BY DEF Ordered
<1>5. /\ w[i][2] < w[j][2]
      /\ w[j][2] > w[i][2] + 1 =>
           \E k \in (i + 1)..(j - 1) : w[k] = <<w[i][1], w[i][2] + 1>>
  BY <1>2, <1>3, ZenonT(60) DEF Ordered
<1> QED
  BY <1>3, <1>4, <1>5

(* A step that leaves the streams, and whom a sender still has to serve,   *)
(* keeps what is said of sender and member.                                *)
LEMMA KeptFrame ==
  ASSUME NEW s \in Handlers, NEW h \in Handlers, Kept(s, h),
         Stream(h)' = Stream(h), UNCHANGED <<todo, sends>>, status' = "up" => status = "up",
         Expected(h)' => Expected(h),
         h \in members[Channel(s)] => ~Expected(h)' \/ (h \in members[Channel(s)])'
  PROVE  Kept(s, h)'
<1>1. Due(s, h)' = Due(s, h)
  BY DEF Due
<1>2. Past(s, h)'
  BY <1>1 DEF Kept, Past
<1>3. Gapless(s, h)'
  BY <1>1 DEF Kept, Gapless
<1>4. Known(s, h)'
  BY DEF Kept, Known
<1> QED
  BY <1>2, <1>3, <1>4 DEF Kept

(* Steps that leave streams, senders and their messages as they are. *)
LEMMA QuietOrder ==
  ASSUME OrderInv, Inv',
         UNCHANGED <<todo, sends>>, status' = "up" => status = "up",
         \A k \in Handlers : Stream(k)' = Stream(k),
         \A k \in Handlers : Expected(k)' => Expected(k),
         \A k \in Handlers : todo[k] # {} => at'[k] = at[k],
         \A k \in Handlers : \A c \in Channels :
           k \in members[c] => ~Expected(k)' \/ k \in members'[c]
  PROVE  OrderInv'
<1>1. ASSUME NEW k \in Handlers PROVE (Ordered(Stream(k)) /\ Busy(k))'
  BY SMTT(60) DEF OrderInv, Ordered, Busy
<1>2. ASSUME NEW s \in Handlers, NEW k \in Handlers PROVE Kept(s, k)'
  BY KeptFrame, ChannelAssumption DEF OrderInv, Channel
<1> QED
  BY <1>1, <1>2 DEF OrderInv

(* Of these, the steps that leave the output alone, too.  *)
LEMMA SilentOrder ==
  ASSUME OrderInv, Inv', NEW h \in Handlers,
         UNCHANGED <<todo, sends, posted, output>>, status' = "up" => status = "up",
         \/ UNCHANGED at
         \/ /\ \E stage \in Stages : at' = [at EXCEPT ![h] = stage]
            /\ todo[h] = {}
            /\ Expected(h) \/ ~Expected(h)',
         \A k \in Handlers : \A c \in Channels :
           k \in members[c] => ~Expected(k)' \/ k \in members'[c]
  PROVE  OrderInv'
<1>1. \A k \in Handlers : Stream(k)' = Stream(k)
  BY DEF Stream, Unwritten, output
<1>2. \A k \in Handlers : Expected(k)' => Expected(k)
  BY SMTT(60) DEF Expected, OrderInv, Inv, Types
<1>3. \A k \in Handlers : todo[k] # {} => at'[k] = at[k]
  BY ZenonT(60) DEF OrderInv, Inv, Types
<1> QED
  BY <1>1, <1>2, <1>3, QuietOrder

(* A handler outside Broadcast has nobody left to serve. *)
LEMMA NotBusy ==
  ASSUME OrderInv, NEW h \in Handlers, at[h] # "delivering"
  PROVE  todo[h] = {}
BY DEF OrderInv, Busy

(* A message comes in.  Who has been given the last one is served next:    *)
(* it is in the channel as long as it has not been destroyed.              *)
LEMMA OnRecieveOrder ==
  ASSUME OrderInv, NEW h \in Handlers, OnRecieve(h)
  PROVE  OrderInv'
<1>1. Inv'
  BY OnRecieveInv DEF OrderInv
<1>2. \A k \in Handlers : Stream(k)' = Stream(k)
  BY DEF OnRecieve, Stream, Unwritten, output
<1>3. /\ status' = status /\ members' = members
      /\ \A k \in Handlers : Expected(k)' => Expected(k)
      /\ sends[h] \in Nat /\ sends'[h] = sends[h] + 1 /\ at'[h] = "delivering"
      /\ todo'[h] = members[Channel(h)] /\ todo[h] = {}
      /\ \A k \in Handlers \ {h} :
           sends'[k] = sends[k] /\ todo'[k] = todo[k] /\ at'[k] = at[k]
  BY NotBusy DEF OnRecieve, OrderInv, Inv, Types, Goto, Expected, pointers
<1>4. ASSUME NEW k \in Handlers PROVE (Ordered(Stream(k)) /\ Busy(k))'
  <2>1. Ordered(Stream(k))'
    BY <1>2 DEF OrderInv, Ordered
  <2>2. Busy(k)'
    BY <1>3 DEF OrderInv, Busy
  <2> QED
    BY <2>1, <2>2
<1>5. ASSUME NEW k \in Handlers, NEW s \in Handlers, s # h PROVE Kept(s, k)'
  <2>1. Due(s, k)' = Due(s, k) /\ Kept(s, k)
    BY <1>3, <1>5 DEF Due, OrderInv
  <2>2. Past(s, k)' /\ Gapless(s, k)'
    BY <1>2, <1>3, <2>1 DEF Kept, Past, Gapless
  <2>3. Known(s, k)'
    BY <1>2, <1>3, <1>5, <2>1 DEF Kept, Known, Channel
  <2> QED
    BY <2>2, <2>3 DEF Kept
<1>6. ASSUME NEW k \in Handlers PROVE Kept(h, k)'
  <2>1. Kept(h, k) /\ Due(h, k) = sends[h] /\ k \notin todo[h]
    BY <1>3 DEF Due, OrderInv
  <2>2. /\ Due(h, k)' \in {sends[h], sends[h] + 1}
        /\ k \in members[Channel(h)] => Due(h, k)' = sends[h]
    BY <1>3 DEF Due
  <2>3. \A i \in DOMAIN Stream(k) : Stream(k)[i][2] \in Nat
    BY StreamType, MessageType DEF OrderInv
  <2>4. Past(h, k)'
    BY <1>2, <1>3, <2>1, <2>2, <2>3 DEF Kept, Past
  <2>5. Known(h, k)'
    BY <1>2, <1>3, <2>1 DEF Kept, Known, Channel
  <2>6. Gapless(h, k)'
    <3>1. CASE k \in members[Channel(h)]
      BY <1>2, <1>3, <2>1, <2>2, <3>1 DEF Kept, Gapless
    <3>2. CASE k \notin members[Channel(h)]
      BY <1>2, <1>3, <2>1, <3>2 DEF Kept, Known, Gapless
    <3> QED
      BY <3>1, <3>2
  <2> QED
    BY <2>4, <2>5, <2>6 DEF Kept
<1> QED
  BY <1>1, <1>4, <1>5, <1>6 DEF OrderInv

(* A message is posted at the end of the stream of one member, or that     *)
(* member gets none: then it is being destroyed, or the process ends.      *)
LEMMA DeliverOrder ==
  ASSUME OrderInv, NEW s \in Handlers, Deliver(s)
  PROVE  OrderInv'
<1>1. Inv'
  BY DeliverInv DEF OrderInv
<1>2. PICK h \in todo[s] :
        /\ todo' = [todo EXCEPT ![s] = @ \ {h}]
        /\ \/ ~Alive(h) /\ UNCHANGED <<status, posted>>
           \/ Alive(h) /\ ~connected[h] /\ Die /\ UNCHANGED posted
           \/ /\ Alive(h) /\ UNCHANGED status
              /\ posted' = [posted EXCEPT ![h] = Append(@, <<s, sends[s]>>)]
  BY DEF Deliver
<1>3. h \in Handlers /\ status = "up"
  BY <1>2 DEF OrderInv, Inv, Types, Deliver
<1>4. UNCHANGED <<members, at, sends, queue, completion, delivered>>
  BY DEF Deliver, output, pointers
<1>5. \A r, k \in Handlers : k \in todo'[r] <=> k \in todo[r] /\ ~(r = s /\ k = h)
  BY <1>2 DEF OrderInv, Inv, Types
<1>6. \A k \in Handlers : Busy(k)' /\ (Expected(k)' <=> Expected(k))
  <2>1. \A k \in Handlers : todo'[k] \subseteq todo[k]
    BY <1>2 DEF OrderInv, Inv, Types
  <2> QED
    BY <1>4, <2>1 DEF OrderInv, Busy, Expected
<1>7. sends[s] \in Nat \ {0} /\ <<s, sends[s]>> \in Message
  <2>1. sends[s] \in Nat /\ MaxSends[s] \in Nat /\ sends[s] > 0 /\ sends[s] <= MaxSends[s]
    BY <1>2, ChannelAssumption DEF OrderInv, Inv, Types, Sending
  <2> QED
    BY <2>1 DEF Message
<1>8. Due(s, h) = sends[s] - 1 /\ Due(s, h)' = sends[s]
  BY <1>2, <1>3, <1>4, <1>5 DEF Due
<1>9. \A r, k \in Handlers : ~(r = s /\ k = h) => Due(r, k)' = Due(r, k)
  BY <1>4, <1>5 DEF Due
<1>10. \A k \in Handlers : \A i \in DOMAIN Stream(k) : Stream(k)[i][2] \in Nat
  BY StreamType, MessageType DEF OrderInv
<1>11. CASE UNCHANGED posted /\ (status' = "up" => ~Alive(h))
  <2>1. \A k \in Handlers : Stream(k)' = Stream(k)
    BY <1>4, <1>11 DEF Stream, Unwritten
  <2>2. \A k \in Handlers : Ordered(Stream(k))'
    BY <2>1 DEF OrderInv, Ordered
  <2>3. Channel(s) \in Channels /\ (Expected(h) => h \in members[Channel(s)])
    BY <1>2, <1>3, ChannelAssumption DEF OrderInv, Kept, Known, Channel
  <2>4. status' = "up" => ~Expected(h)
    BY <1>3, <1>11, <2>3 DEF OrderInv, Inv, Membership, Alive, Expected
  <2>5. ASSUME NEW r \in Handlers, NEW k \in Handlers PROVE Kept(r, k)'
    <3>1. Kept(r, k)
      BY DEF OrderInv
    <3>2. Past(r, k)'
      <4>1. CASE r = s /\ k = h
        BY <1>7, <1>8, <1>10, <2>1, <3>1, <4>1 DEF Kept, Past
      <4>2. CASE ~(r = s /\ k = h)
        BY <1>9, <2>1, <3>1, <4>2 DEF Kept, Past
      <4> QED
        BY <4>1, <4>2
    <3>3. Gapless(r, k)'
      <4>1. CASE r = s /\ k = h
        BY <1>6, <2>4, <4>1 DEF Gapless
      <4>2. CASE ~(r = s /\ k = h)
        BY <1>3, <1>6, <1>9, <2>1, <3>1, <4>2 DEF Kept, Gapless
      <4> QED
        BY <4>1, <4>2
    <3>4. Known(r, k)'
      BY <1>4, <1>5, <1>6, <2>1, <3>1 DEF Kept, Known, Channel
    <3> QED
      BY <3>2, <3>3, <3>4 DEF Kept
  <2> QED
    BY <1>1, <1>6, <2>2, <2>5 DEF OrderInv
<1>12. CASE /\ Alive(h) /\ UNCHANGED status
            /\ posted' = [posted EXCEPT ![h] = Append(@, <<s, sends[s]>>)]
  <2> DEFINE old == Stream(h)
             new == Stream(h)'
  <2>1. \A k \in Handlers \ {h} : Stream(k)' = Stream(k)
    BY <1>4, <1>12 DEF Stream, Unwritten, OrderInv, Inv, Types
  <2>2. old \in Seq(Message) /\ new = Append(old, <<s, sends[s]>>)
    <3>1. /\ delivered[h] \in Seq(Message) /\ Unwritten(h) \in Seq(Message)
          /\ posted[h] \in Seq(Message) /\ old \in Seq(Message)
      BY <1>3, StreamType DEF OrderInv
    <3>2. new = Chain(delivered[h], Unwritten(h), Append(posted[h], <<s, sends[s]>>))
      BY <1>3, <1>4, <1>12 DEF Stream, Unwritten, OrderInv, Inv, Types
    <3>3. ASSUME NEW d \in Seq(Message), NEW q \in Seq(Message), NEW p \in Seq(Message),
                 NEW m \in Message
          PROVE  Chain(d, q, Append(p, m)) = Append(Chain(d, q, p), m)
      BY PostedAtEnd
    <3> QED
      BY <1>7, <3>1, <3>2, <3>3, ZenonT(60) DEF Stream
  <2>3. /\ DOMAIN old = 1..Len(old) /\ Len(old) \in Nat /\ DOMAIN new = 1..(Len(old) + 1)
        /\ \A i \in DOMAIN old : new[i] = old[i]
        /\ new[Len(old) + 1] = <<s, sends[s]>>
    BY <1>7, <2>2, AppendProperties
  <2>4. Expected(h) /\ Kept(s, h)
    BY <1>3, <1>12 DEF OrderInv, Alive, Expected
  <2>5. Ordered(Stream(h))'
    <3>1. \A i \in DOMAIN old : old[i][1] = s => old[i][2] < sends[s]
      BY <1>7, <1>8, <1>10, <1>3, <2>4 DEF Kept, Past
    <3>2. \A i \in DOMAIN old : old[i][1] = s /\ old[i][2] < sends[s] - 1 =>
            \E k \in DOMAIN old : k > i /\ old[k] = <<s, old[i][2] + 1>>
      BY <1>3, <1>8, <2>4 DEF Kept, Gapless
    <3>3. Ordered(old)
      BY <1>3 DEF OrderInv
    <3>4. Ordered(Append(old, <<s, sends[s]>>))
      BY <1>7, <2>2, <3>1, <3>2, <3>3, OrderedAppend
    <3>5. Ordered(Stream(h))' = Ordered(new)
      BY DEF Ordered
    <3> QED
      BY <2>2, <3>4, <3>5
  <2>6. ASSUME NEW k \in Handlers \ {h} PROVE Ordered(Stream(k))'
    BY <2>1, SMTT(60) DEF OrderInv, Ordered
  <2>7. ASSUME NEW r \in Handlers, NEW k \in Handlers, k # h PROVE Kept(r, k)'
    <3>1. Kept(r, k) /\ Stream(k)' = Stream(k) /\ Due(r, k)' = Due(r, k)
      BY <1>9, <2>1, <2>7 DEF OrderInv
    <3>2. Past(r, k)' /\ Gapless(r, k)'
      BY <1>6, <1>12, <3>1 DEF Kept, Past, Gapless
    <3>3. Known(r, k)'
      BY <1>4, <1>5, <1>6, <3>1 DEF Kept, Known, Channel
    <3> QED
      BY <3>2, <3>3 DEF Kept
  <2>8. ASSUME NEW r \in Handlers, r # s PROVE Kept(r, h)'
    <3>1. Kept(r, h) /\ Due(r, h)' = Due(r, h)
      BY <1>3, <1>9, <2>8 DEF OrderInv
    <3>2. /\ \A i \in DOMAIN new : new[i][1] = r => i \in DOMAIN old /\ new[i] = old[i]
          /\ \A i \in DOMAIN old : i \in DOMAIN new /\ new[i] = old[i]
      BY <2>3, <2>8
    <3>3. Past(r, h)'
      BY <2>3, <3>1, <3>2 DEF Kept, Past
    <3>4. Gapless(r, h)'
      BY <1>3, <1>6, <1>12, <3>1, <3>2 DEF Kept, Gapless
    <3>5. Known(r, h)'
      BY <1>3, <1>4, <1>5, <1>6, <3>1, <3>2 DEF Kept, Known, Channel
    <3> QED
      BY <3>3, <3>4, <3>5 DEF Kept
  <2>9. Kept(s, h)'
    <3>1. Past(s, h)'
      BY <1>7, <1>8, <1>10, <1>3, <2>3, <2>4 DEF Kept, Past
    <3>2. Known(s, h)'
      BY <1>2, <1>4, <1>6, <2>4 DEF Kept, Known, Channel
    <3>3. Gapless(s, h)'
      <4>1. ASSUME NEW i \in DOMAIN new, new[i][1] = s, new[i][2] < sends[s]
            PROVE  \E k \in DOMAIN new : k > i /\ new[k] = <<s, new[i][2] + 1>>
        <5>1. i \in DOMAIN old /\ new[i] = old[i] /\ old[i][2] \in Nat
          BY <1>3, <1>7, <1>10, <2>3, <4>1
        <5>2. CASE old[i][2] < sends[s] - 1
          <6>1. PICK k \in DOMAIN old : k > i /\ old[k] = <<s, old[i][2] + 1>>
            BY <1>3, <1>8, <2>4, <4>1, <5>1, <5>2 DEF Kept, Gapless
          <6> QED
            BY <2>3, <5>1, <6>1
        <5>3. CASE old[i][2] = sends[s] - 1
          BY <1>7, <2>3, <5>1, <5>3
        <5> QED
          BY <1>7, <4>1, <5>1, <5>2, <5>3
      <4> QED
        BY <1>8, <4>1 DEF Gapless
    <3> QED
      BY <3>1, <3>2, <3>3 DEF Kept
  <2> QED
    BY <1>1, <1>6, <2>5, <2>6, <2>7, <2>8, <2>9 DEF OrderInv
<1> QED
  BY <1>2, <1>11, <1>12 DEF Die

(* Nothing is posted at the start. *)
LEMMA InitOrder == Init => OrderInv
<1> SUFFICES ASSUME Init PROVE OrderInv
  OBVIOUS
<1>1. \A h \in Handlers : Stream(h) = <<>> /\ todo[h] = {}
  <2>1. <<>> \o <<>> = <<>>
    OBVIOUS
  <2> QED
    BY <2>1 DEF Init, Stream, Chain, Unwritten
<1>2. \A h \in Handlers : DOMAIN Stream(h) = {}
  BY <1>1
<1>3. \A h \in Handlers : Ordered(Stream(h)) /\ Busy(h)
  BY <1>1, <1>2 DEF Ordered, Busy
<1>4. \A s, h \in Handlers : Kept(s, h)
  BY <1>1, <1>2 DEF Kept, Past, Gapless, Known
<1> QED
  BY <1>3, <1>4, InitInv DEF OrderInv

(* Every step keeps the order. *)
LEMMA NextOrder == OrderInv /\ [Next]_vars => OrderInv'
<1> SUFFICES ASSUME OrderInv, [Next]_vars PROVE OrderInv'
  OBVIOUS
<1>i. Inv /\ Inv'
  BY NextInv DEF OrderInv
<1>t. /\ \A c \in Channels : members[c] \in SUBSET Handlers
      /\ members \in [Channels -> SUBSET Handlers]
  BY <1>i DEF Inv, Types
<1>1. CASE UNCHANGED vars
  BY <1>1, <1>i, QuietOrder
     DEF vars, Stream, Unwritten, Expected, pointers, chain, output
<1>2. ASSUME NEW h \in Handlers, Run(h) \/ HandshakeDone(h) \/ HandshakeFails(h)
      PROVE  OrderInv'
  BY <1>2, <1>i, SilentOrder, NotBusy
     DEF Run, HandshakeDone, HandshakeFails, Goto, Expected, pointers, Stages
<1>3. ASSUME NEW h \in Handlers, ReadAgain(h) \/ ReadFails(h) \/ Expire(h) PROVE OrderInv'
  BY <1>3, <1>i, SilentOrder, NotBusy
     DEF ReadAgain, ReadFails, Expire, Goto, Expected, pointers, Stages
<1>4. ASSUME NEW h \in Handlers, OnConnect(h) PROVE OrderInv'
  BY <1>4, <1>i, SilentOrder, NotBusy DEF OnConnect, Die, Goto, Expected, Stages
<1>5. ASSUME NEW h \in Handlers, Join(h) PROVE OrderInv'
  BY <1>5, <1>i, <1>t, SilentOrder, NotBusy DEF Join, Goto, Expected, Stages
<1>6. ASSUME NEW h \in Handlers, Remove(h) PROVE OrderInv'
  <2>1. /\ UNCHANGED <<todo, sends, posted, output>> /\ todo[h] = {} /\ at[h] = "dying"
        /\ status' = "up" => status = "up"
    BY <1>6, NotBusy DEF Remove
  <2>2. \/ UNCHANGED at
        \/ \E stage \in Stages : at' = [at EXCEPT ![h] = stage]
    BY <1>6 DEF Remove, Goto, Stages
  <2>3. Expected(h) \/ ~Expected(h)'
    BY <1>6, <1>i DEF Remove, Goto, Expected, Inv, Types
  <2>4. ASSUME NEW k \in Handlers, NEW c \in Channels, k \in members[c]
        PROVE  ~Expected(k)' \/ k \in members'[c]
    <3>1. CASE k = h
      BY <1>6, <1>i, <3>1, <2>4 DEF Remove, Goto, Expected, Inv, Types
    <3>2. CASE k # h
      BY <1>6, <1>t, <2>4, <3>2 DEF Remove
    <3> QED
      BY <3>1, <3>2
  <2> QED
    BY <1>i, <2>1, <2>2, <2>3, <2>4, SilentOrder
<1>7. ASSUME NEW h \in Handlers, Disconnect(h) \/ Race(h) PROVE OrderInv'
  BY <1>7, <1>i, SilentOrder DEF Disconnect, Race, chain, pointers
<1>8. ASSUME NEW h \in Handlers, OnBroadcast(h) PROVE OrderInv'
  <2>1. \A k \in Handlers : Stream(k)' = Stream(k)
    BY <1>8, <1>i, OnBroadcastStream
  <2> QED
    BY <1>8, <1>i, <2>1, QuietOrder DEF OnBroadcast, chain, pointers, Expected
<1>9. ASSUME NEW h \in Handlers, WriteEnds(h) PROVE OrderInv'
  <2>1. \A k \in Handlers : Stream(k)' = Stream(k)
    BY <1>9, <1>i, WriteEndsStream
  <2> QED
    BY <1>9, <1>i, <2>1, QuietOrder DEF WriteEnds, chain, pointers, Expected
<1>10. ASSUME NEW h \in Handlers, OnWrite(h) PROVE OrderInv'
  <2>1. \A k \in Handlers : Stream(k)' = Stream(k)
    BY <1>10, <1>i, OnWriteStream
  <2> QED
    BY <1>10, <1>i, <2>1, QuietOrder DEF OnWrite, chain, pointers, Expected
<1> QED
  BY <1>1, <1>2, <1>3, <1>4, <1>5, <1>6, <1>7, <1>8, <1>9, <1>10, OnRecieveOrder, DeliverOrder
     DEF Next, Work

(* The messages of one sender reach a client as a run, without gap,        *)
(* repetition or change of order (websocket_handler.cc:70-75).             *)
THEOREM OrderCorrect == Spec => []SenderOrder
<1>1. OrderInv => SenderOrder
  <2> SUFFICES ASSUME OrderInv, NEW h \in Handlers PROVE Ordered(delivered[h])
    BY DEF Ordered, SenderOrder
  <2>1. /\ delivered[h] \in Seq(Message) /\ Unwritten(h) \in Seq(Message)
        /\ posted[h] \in Seq(Message) /\ delivered[h] \o Unwritten(h) \in Seq(Message)
    BY StreamType, ConcatProperties DEF OrderInv
  <2>2. Ordered(delivered[h] \o Unwritten(h) \o posted[h])
    BY DEF OrderInv, Stream, Chain
  <2>3. Ordered(delivered[h] \o Unwritten(h))
    BY <2>1, <2>2, OrderedPrefix
  <2> QED
    BY <2>1, <2>3, OrderedPrefix
<1> QED
  BY <1>1, InitOrder, NextOrder, PTL DEF Spec
=============================================================================
