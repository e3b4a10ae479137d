-------------------------- MODULE WebsocketChannels --------------------------
(***************************************************************************)
(* The chat channels: GlobalWebsocketState and the WebsocketHandlers that  *)
(* share it, one per upgraded connection.                                  *)
(*                                                                         *)
(* A handler has no owner: it lives as long as an asynchronous operation,  *)
(* a callback or a task posted to its strand holds a shared pointer to it. *)
(* The channels hold bare pointers.  Callbacks run on any thread of the    *)
(* pool; only the tasks of one strand exclude each other.  A callback is   *)
(* one action up to the next point where another thread can see or change  *)
(* what it uses.  map_mutex_ and the mutex of a channel guard single       *)
(* accesses and are never nested, so each section is part of one action.   *)
(***************************************************************************)
EXTENDS Integers, Sequences, FiniteSets

CONSTANTS
  Handlers,   \* the connections that ask for an upgrade
  Channels,   \* targets of their requests
  ChannelOf,  \* ChannelOf[h]: the target h asked for
  MayFail,    \* handlers whose handshake may fail
  MayLeave,   \* handlers whose connection may end
  MaxSends    \* bound: messages each client sends

ASSUME ChannelAssumption ==
  /\ ChannelOf \in [Handlers -> Channels]
  /\ MayFail \subseteq Handlers /\ MayLeave \subseteq Handlers
  /\ MaxSends \in [Handlers -> Nat]

VARIABLES
  status,     \* the process: "up", "down" (terminated), "undefined" (data race)
  map,        \* map_: the channels it has an entry for
  members,    \* map_: the handlers in the set of each channel
  at,         \* where the accept-read-broadcast chain of each handler is
  connected,  \* the TCP connection of the handler is up
  sends,      \* messages received from the client of each handler
  todo,       \* the local v of Broadcast: members still to be given the message
  posted,     \* messages in the tasks posted to the strand, not yet run
  queue,      \* queue_
  writes,     \* async_writes started whose OnWrite has not run
  completion, \* the OnWrite about to run: "none", "ok", "error"
  delivered   \* messages written to the connection of each handler

pointers == <<map, members>>
chain    == <<at, todo, sends>>
output   == <<queue, writes, completion, delivered>>
vars     == <<status, pointers, chain, connected, posted, output>>

Message == UNION {{s} \X (1..MaxSends[s]) : s \in Handlers}
Stages  == {"new", "accepting", "accepted", "joining", "reading", "delivering",
            "stopped", "dying", "gone"}

Channel(h) == ChannelOf[h]
Alive(h)   == at[h] \notin {"new", "dying", "gone"}
Goto(h, stage) == at' = [at EXCEPT ![h] = stage]
Die        == status' = "down"   \* an exception no frame of the thread catches

Init ==
  /\ status = "up"
  /\ map = {} /\ members = [c \in Channels |-> {}]
  /\ at = [h \in Handlers |-> "new"]
  /\ connected = [h \in Handlers |-> TRUE]
  /\ sends = [h \in Handlers |-> 0]
  /\ todo = [h \in Handlers |-> {}]
  /\ posted = [h \in Handlers |-> <<>>] /\ queue = [h \in Handlers |-> <<>>]
  /\ writes = [h \in Handlers |-> 0]
  /\ completion = [h \in Handlers |-> "none"]
  /\ delivered = [h \in Handlers |-> <<>>]

-----------------------------------------------------------------------------
(***************************************************************************)
(* Mutants: plausible bugs that the properties below must catch.  Nothing  *)
(* uses them.                                                              *)
(***************************************************************************)
(* The destructor does not take the handler out of its channel. *)
ForgetRemove(h) ==
  /\ status = "up" /\ at[h] = "dying"
  /\ Goto(h, "gone")
  /\ UNCHANGED <<status, pointers, todo, sends, connected, posted, output>>

(* The last member to leave a channel takes its entry away. *)
EraseEmpty(h) ==
  /\ status = "up" /\ at[h] = "dying"
  /\ members' = [members EXCEPT ![Channel(h)] = @ \ {h}]
  /\ map' = IF members[Channel(h)] \subseteq {h} THEN map \ {Channel(h)} ELSE map
  /\ Goto(h, "gone")
  /\ UNCHANGED <<status, todo, sends, connected, posted, output>>

(* OnBroadcast writes at once, whatever is in the queue. *)
WriteAtOnce(h) ==
  /\ status = "up" /\ posted[h] # <<>>
  /\ posted' = [posted EXCEPT ![h] = Tail(@)]
  /\ queue' = [queue EXCEPT ![h] = Append(@, Head(posted[h]))]
  /\ writes' = [writes EXCEPT ![h] = @ + 1]
  /\ UNCHANGED <<status, pointers, chain, connected, completion, delivered>>

(* OnRecieve reads again after an error. *)
ReadOn(h) ==
  /\ status = "up" /\ at[h] = "reading" /\ ~connected[h]
  /\ UNCHANGED vars

(* The next read is started before the members have been given the message. *)
ReadTooSoon(s) ==
  /\ status = "up" /\ at[s] = "delivering"
  /\ Goto(s, "reading")
  /\ UNCHANGED <<status, pointers, todo, sends, connected, posted, output>>

(* OnWrite forgets to start the next write. *)
StopAfterWrite(h) ==
  /\ status = "up" /\ completion[h] # "none"
  /\ completion' = [completion EXCEPT ![h] = "none"]
  /\ queue' = IF completion[h] = "ok" THEN [queue EXCEPT ![h] = Tail(@)] ELSE queue
  /\ writes' = [writes EXCEPT ![h] = @ - 1]
  /\ UNCHANGED <<status, pointers, chain, connected, posted, delivered>>

-----------------------------------------------------------------------------
(***************************************************************************)
(* Run starts the handshake.  The lambda given to async_accept holds the   *)
(* only pointer to the handler.                                            *)
(***************************************************************************)
Run(h) ==
  /\ status = "up" /\ at[h] = "new"
  /\ Goto(h, "accepting")
  /\ UNCHANGED <<status, pointers, todo, sends, connected, posted, output>>

HandshakeDone(h) ==
  /\ status = "up" /\ at[h] = "accepting" /\ connected[h]
  /\ Goto(h, "accepted")
  /\ UNCHANGED <<status, pointers, todo, sends, connected, posted, output>>

(* OnConnect(ec) with an error: it returns, and with it goes the pointer. *)
HandshakeFails(h) ==
  /\ status = "up" /\ at[h] = "accepting"
  /\ h \in MayFail \/ ~connected[h]
  /\ Goto(h, "stopped")
  /\ UNCHANGED <<status, pointers, todo, sends, connected, posted, output>>

(***************************************************************************)
(* OnConnect without error.  When the connection has ended meanwhile,      *)
(* remote_endpoint throws, or still knows the peer; then the handler joins *)
(* and its first read fails.  GlobalWebsocketState::Add makes the entry of *)
(* the channel under map_mutex_, then inserts under the mutex of the       *)
(* channel.                                                                *)
(***************************************************************************)
OnConnect(h) ==
  /\ status = "up" /\ at[h] = "accepted"
  /\ \/ ~connected[h] /\ Die /\ UNCHANGED <<map, at>>
     \/ map' = map \cup {Channel(h)} /\ Goto(h, "joining") /\ UNCHANGED status
  /\ UNCHANGED <<members, todo, sends, connected, posted, output>>

Join(h) ==
  /\ status = "up" /\ at[h] = "joining"
  /\ members' = [members EXCEPT ![Channel(h)] = @ \cup {h}]
  /\ Goto(h, "delivering")
  /\ UNCHANGED <<status, map, sends, todo, connected, posted, output>>

(***************************************************************************)
(* OnRecieve: GlobalWebsocketState::Broadcast copies the members of the    *)
(* channel, itself among them, as weak pointers, then locks one after the  *)
(* other and hands it the message.  WebsocketHandler::Broadcast asks for   *)
(* the remote endpoint, which may throw on a connection that has ended,    *)
(* and posts to the strand of the member.                                  *)
(***************************************************************************)
OnRecieve(s) ==
  /\ status = "up" /\ at[s] = "reading" /\ connected[s] /\ sends[s] < MaxSends[s]
  /\ sends' = [sends EXCEPT ![s] = @ + 1]
  /\ todo' = [todo EXCEPT ![s] = members[Channel(s)]]
  /\ Goto(s, "delivering")
  /\ UNCHANGED <<status, pointers, connected, posted, output>>

Deliver(s) ==
  /\ status = "up" /\ at[s] = "delivering"
  /\ \E h \in todo[s] :
       /\ todo' = [todo EXCEPT ![s] = @ \ {h}]
       /\ \/ ~Alive(h) /\ UNCHANGED <<status, posted>>
          \/ Alive(h) /\ ~connected[h] /\ Die /\ UNCHANGED posted
          \/ /\ Alive(h) /\ UNCHANGED status
             /\ posted' = [posted EXCEPT ![h] = Append(@, <<s, sends[s]>>)]
  /\ UNCHANGED <<pointers, at, sends, connected, output>>

ReadAgain(s) ==
  /\ status = "up" /\ at[s] = "delivering" /\ todo[s] = {}
  /\ Goto(s, "reading")
  /\ UNCHANGED <<status, pointers, todo, sends, connected, posted, output>>

(* OnRecieve with an error: the chain of reads ends. *)
ReadFails(h) ==
  /\ status = "up" /\ at[h] = "reading" /\ ~connected[h]
  /\ Goto(h, "stopped")
  /\ UNCHANGED <<status, pointers, todo, sends, connected, posted, output>>

(***************************************************************************)
(* OnBroadcast, on the strand, and OnWrite, on any thread: a handler       *)
(* writes the front of queue_, which stays there until it is written.      *)
(* After an error OnWrite leaves queue_ as it is and writes no more.  A    *)
(* write to a connection that has ended may still succeed.                 *)
(***************************************************************************)
OnBroadcast(h) ==
  /\ status = "up" /\ posted[h] # <<>>
  /\ posted' = [posted EXCEPT ![h] = Tail(@)]
  /\ queue' = [queue EXCEPT ![h] = Append(@, Head(posted[h]))]
  /\ writes' = [writes EXCEPT ![h] = IF queue[h] = <<>> THEN @ + 1 ELSE @]
  /\ UNCHANGED <<status, pointers, chain, connected, completion, delivered>>

WriteEnds(h) ==
  /\ status = "up" /\ writes[h] > 0 /\ completion[h] = "none"
  /\ \/ /\ delivered' = [delivered EXCEPT ![h] = Append(@, Head(queue[h]))]
        /\ completion' = [completion EXCEPT ![h] = "ok"]
     \/ /\ ~connected[h] /\ UNCHANGED delivered
        /\ completion' = [completion EXCEPT ![h] = "error"]
  /\ UNCHANGED <<status, pointers, chain, connected, posted, queue, writes>>

OnWrite(h) ==
  /\ status = "up" /\ completion[h] # "none"
  /\ completion' = [completion EXCEPT ![h] = "none"]
  /\ \/ /\ completion[h] = "ok"
        /\ queue' = [queue EXCEPT ![h] = Tail(@)]
        /\ writes' = [writes EXCEPT ![h] = IF Len(queue[h]) > 1 THEN @ ELSE @ - 1]
     \/ /\ completion[h] = "error"
        /\ writes' = [writes EXCEPT ![h] = @ - 1] /\ UNCHANGED queue
  /\ UNCHANGED <<status, pointers, chain, connected, posted, delivered>>

(***************************************************************************)
(* The last pointer goes: the destructor runs and calls Remove.  map_.at   *)
(* throws when the channel has no entry, and a destructor that throws      *)
(* ends the process.  Until Remove has the lock of the channel, others     *)
(* still find the handler there, but no longer get a pointer to it.        *)
(***************************************************************************)
Expire(h) ==
  /\ status = "up" /\ at[h] = "stopped"
  /\ posted[h] = <<>> /\ writes[h] = 0
  /\ Goto(h, "dying")
  /\ UNCHANGED <<status, pointers, todo, sends, connected, posted, output>>

Remove(h) ==
  /\ status = "up" /\ at[h] = "dying"
  /\ \/ Channel(h) \notin map /\ Die /\ UNCHANGED <<members, at>>
     \/ /\ Channel(h) \in map /\ UNCHANGED status
        /\ members' = [members EXCEPT ![Channel(h)] = @ \ {h}]
        /\ Goto(h, "gone")
  /\ UNCHANGED <<map, todo, sends, connected, posted, output>>

(* The answer of the WebsocketInfoHandler, read under map_mutex_. *)
GetChannels == map

(* The peer closes or resets the connection, or it times out. *)
Disconnect(h) ==
  /\ status = "up" /\ h \in MayLeave /\ connected[h] /\ Alive(h)
  /\ connected' = [connected EXCEPT ![h] = FALSE]
  /\ UNCHANGED <<status, pointers, chain, posted, output>>

(***************************************************************************)
(* Two threads in one handler.  No completion handler is bound to the      *)
(* strand, so OnWrite may run together with the OnBroadcast on the strand  *)
(* (both change queue_), and either may start a write on ws_ while a third *)
(* starts a read.  What happens then is anything: a lost or repeated       *)
(* message, two writes at once, an abort.                                  *)
(***************************************************************************)
StartsRead(h) == at[h] = "delivering" /\ todo[h] = {}

Races(h) ==
  \/ posted[h] # <<>> /\ completion[h] = "ok"
  \/ StartsRead(h) /\ posted[h] # <<>> /\ queue[h] = <<>>
  \/ StartsRead(h) /\ completion[h] = "ok" /\ Len(queue[h]) > 1

Race(h) ==
  /\ status = "up" /\ Races(h)
  /\ status' = "undefined"
  /\ UNCHANGED <<pointers, chain, connected, posted, output>>

Work(h) ==
  \/ HandshakeFails(h) \/ HandshakeDone(h) \/ OnConnect(h) \/ Join(h)
  \/ Deliver(h) \/ ReadAgain(h) \/ ReadFails(h)
  \/ OnBroadcast(h) \/ WriteEnds(h) \/ OnWrite(h)
  \/ Expire(h) \/ Remove(h)

Next == \E h \in Handlers : Run(h) \/ OnRecieve(h) \/ Work(h) \/ Disconnect(h) \/ Race(h)

Spec == Init /\ [][Next]_vars

(***************************************************************************)
(* The pool has a thread for every session, so what is ready to run runs.  *)
(* That a write ends is assumed of the clients: they read, or fall silent  *)
(* and the idle timeout ends the connection.                               *)
(***************************************************************************)
FairSpec == Spec /\ \A h \in Handlers : WF_vars(Work(h))

-----------------------------------------------------------------------------
(***************************************************************************)
(* Properties                                                              *)
(***************************************************************************)

(* Every variable keeps its type.  That writes stays at most 1 is the      *)
(* one-write-at-a-time rule of websocket::stream (websocket_handler.cc:95, *)
(* 112).                                                                   *)
TypeOK ==
  /\ status \in {"up", "down", "undefined"}
  /\ map \in SUBSET Channels /\ members \in [Channels -> SUBSET Handlers]
  /\ at \in [Handlers -> Stages] /\ connected \in [Handlers -> BOOLEAN]
  /\ sends \in [Handlers -> Nat] /\ todo \in [Handlers -> SUBSET Handlers]
  /\ posted \in [Handlers -> Seq(Message)] /\ queue \in [Handlers -> Seq(Message)]
  /\ delivered \in [Handlers -> Seq(Message)]
  /\ writes \in [Handlers -> 0..1]
  /\ completion \in [Handlers -> {"none", "ok", "error"}]

(* The bare pointers of a channel never outlive their handlers, every      *)
(* handler that reads is in its channel                                    *)
(* (global_websocket_state.cc:29-54, websocket_handler.cc:22).             *)
MembersAlive ==
  \A c \in Channels :
    /\ \A h \in members[c] : at[h] \in {"reading", "delivering", "stopped", "dying"}
    /\ \A h \in Handlers :
         at[h] \in {"reading", "delivering"} /\ Channel(h) = c => h \in members[c]

(* Add, Remove and Broadcast use a reference to the entry of a channel     *)
(* after they have given map_mutex_ back: the entry is there as long as a  *)
(* handler is on the way in or is a member, so the reference stays valid,  *)
(* map_.at in Broadcast does not throw, and a channel in use is listed     *)
(* (global_websocket_state.cc:22-26, 31-36, 43-54, 64-76).                 *)
EntryOutlivesUse ==
  \A h \in Handlers :
    at[h] = "joining" \/ h \in members[Channel(h)] => Channel(h) \in GetChannels

(* The buffer being written is the front of queue_ and stays alive until   *)
(* OnWrite; a message waits without a write in progress only on a          *)
(* connection that has ended (websocket_handler.cc:93-117).                *)
WriteInProgress ==
  \A h \in Handlers :
    /\ completion[h] # "none" => writes[h] = 1
    /\ writes[h] = 1 => queue[h] # <<>>
    /\ queue[h] # <<>> /\ connected[h] => writes[h] = 1

(* What is written to a client of the messages of one sender is a run      *)
(* without gap, repetition or change of order: the sender reads its next   *)
(* message only after it has posted the last one to all                    *)
(* (websocket_handler.cc:70-75).                                           *)
SenderOrder ==
  \A h \in Handlers : \A i, j \in DOMAIN delivered[h] :
    LET m == delivered[h][i]
        n == delivered[h][j]
    IN  i < j /\ m[1] = n[1] =>
          /\ m[2] < n[2]
          /\ n[2] > m[2] + 1 =>
               \E k \in (i + 1)..(j - 1) : delivered[h][k] = <<m[1], m[2] + 1>>

(* A message reaches every member the sender found in its channel, unless  *)
(* that member's connection ends or the process stops                      *)
(* (global_websocket_state.cc:46-61).                                      *)
Delivered ==
  \A s, h \in Handlers : \A k \in 1..MaxSends[s] :
    (at[s] = "delivering" /\ sends[s] = k /\ h \in todo[s]) ~>
      \/ <<s, k>> \in {delivered[h][i] : i \in DOMAIN delivered[h]}
      \/ ~connected[h] \/ status # "up"

(* A handler whose connection has ended is destroyed and leaves its        *)
(* channel: no cycle of pointers, no operation that never ends keeps it    *)
(* (websocket_handler.cc:22, 64-68).                                       *)
Released ==
  \A h \in Handlers :
    (at[h] = "reading" /\ ~connected[h]) ~>
      (at[h] = "gone" /\ h \notin members[Channel(h)]) \/ status # "up"
=============================================================================
