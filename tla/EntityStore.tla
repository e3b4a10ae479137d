---------------------------- MODULE EntityStore ------------------------------
(***************************************************************************)
(* What the CRUD service promises its clients: a store of numbered         *)
(* instances per entity.  A request for an instance takes effect at one    *)
(* moment between its arrival and its response, or not at all.  A list has *)
(* a start and an end: it names every instance that is there all the time  *)
(* in between, and none that is not there at a moment in between, but it   *)
(* need not be the set of instances of any one moment.                     *)
(***************************************************************************)
EXTENDS Integers

CONSTANTS
  Clients,     \* those who have requests in progress
  Entities,    \* entity names, as clients spell them
  Place,       \* Place[e]: two spellings with one place name one entity
  Ids,         \* instance numbers
  Requests,    \* records [method, target, body]
  None,        \* no instance; no body
  NoAnswer,    \* what a client has before its first response
  Answer(_,_,_)  \* the response with this code, these ids and this body

VARIABLES
  store,    \* store[e][i]: the content of instance i of e, or None
  state,    \* state[c]: "idle", "pending", "listing" or "done"
  request,  \* the request of each client
  answer,   \* the answer of a client whose request is done
  owed,     \* the instances a list has still to name before its end
  named,    \* the instances a list has named
  fresh     \* nothing has been lost so far

lists == <<owed, named>>
vars  == <<store, state, request, answer, lists, fresh>>

Stored(e)    == {i \in Ids : store[e][i] # None}
Spellings(e) == {f \in Entities : Place[f] = Place[e]}
Shared(e)    == UNION {Stored(f) : f \in Spellings(e)}
E(c)         == request[c].target.entity
I(c)         == request[c].target.id
Asks(c, method) == state[c] = "pending" /\ request[c].method = method

Init ==
  /\ store = [e \in Entities |-> [i \in Ids |-> None]]
  /\ state = [c \in Clients |-> "idle"]
  /\ request \in [Clients -> Requests]
  /\ answer = [c \in Clients |-> NoAnswer]
  /\ owed = [c \in Clients |-> {}] /\ named = [c \in Clients |-> {}]
  /\ fresh = TRUE

Invoke(c) ==
  /\ state[c] \in {"idle", "done"}
  /\ state' = [state EXCEPT ![c] = "pending"]
  /\ \E r \in Requests : request' = [request EXCEPT ![c] = r]
  /\ answer' = [answer EXCEPT ![c] = NoAnswer]
  /\ UNCHANGED <<store, lists, fresh>>

Done(c, code, names, body) ==
  /\ state' = [state EXCEPT ![c] = "done"]
  /\ answer' = [answer EXCEPT ![c] = Answer(code, names, body)]
  /\ UNCHANGED <<request, fresh>>

(* POST: the lowest number the entity does not use. *)
Create(c) ==
  /\ Asks(c, "POST")
  /\ \E n \in Ids : /\ n \notin Stored(E(c)) /\ 1..(n - 1) \subseteq Stored(E(c))
                    /\ store' = [store EXCEPT ![E(c)][n] = request[c].body]
                    /\ Done(c, 200, {n}, None)
  /\ UNCHANGED lists

Update(c) ==
  /\ Asks(c, "PUT") /\ I(c) \in Stored(E(c))
  /\ store' = [store EXCEPT ![E(c)][I(c)] = request[c].body]
  /\ Done(c, 200, {I(c)}, None) /\ UNCHANGED lists

Remove(c) ==
  /\ Asks(c, "DELETE") /\ I(c) \in Stored(E(c))
  /\ store' = [store EXCEPT ![E(c)][I(c)] = None]
  /\ owed' = [d \in Clients |-> IF state[d] = "listing" /\ E(d) \in Spellings(E(c))
                                THEN owed[d] \ {I(c)} ELSE owed[d]]
  /\ Done(c, 200, {I(c)}, None) /\ UNCHANGED named

(* GET of one instance, under any spelling of its entity. *)
Read(c) ==
  /\ Asks(c, "GET")
  /\ \E e \in Spellings(E(c)) :
       /\ I(c) \in Stored(e)
       /\ Done(c, 200, {I(c)}, store[e][I(c)])
  /\ UNCHANGED <<store, lists>>

Missing(c) ==
  /\ \E m \in {"GET", "PUT", "DELETE"} : Asks(c, m)
  /\ I(c) \notin Stored(E(c))
  /\ Done(c, 404, {}, None) /\ UNCHANGED <<store, lists>>

(* GET of an entity without instances. *)
EmptyList(c) ==
  /\ Asks(c, "GET") /\ Stored(E(c)) = {}
  /\ Done(c, 200, {}, None) /\ UNCHANGED <<store, lists>>

(* GET of an entity: from its start a list owes every instance there is.   *)
StartList(c) ==
  /\ Asks(c, "GET")
  /\ state' = [state EXCEPT ![c] = "listing"]
  /\ \E all \in SUBSET Ids : Stored(E(c)) \subseteq all /\ owed' = [owed EXCEPT ![c] = all]
  /\ UNCHANGED <<store, request, answer, named, fresh>>

(* It names an instance that is there, or one a POST is just creating; and *)
(* once the server has lost instances, maybe one of these.                 *)
Name(c) ==
  /\ state[c] = "listing"
  /\ \E i \in Ids \ named[c] :
       /\ \/ i \in Shared(E(c)) \/ ~fresh
          \/ \E d \in Clients : Asks(d, "POST") /\ E(d) \in Spellings(E(c))
       /\ named' = [named EXCEPT ![c] = @ \cup {i}]
       /\ owed' = [owed EXCEPT ![c] = @ \ {i}]
  /\ UNCHANGED <<store, state, request, answer, fresh>>

EndList(c) ==
  /\ state[c] = "listing" /\ owed[c] = {}
  /\ Done(c, 200, named[c], None)
  /\ named' = [named EXCEPT ![c] = {}]
  /\ UNCHANGED <<store, owed>>

(* An error answer: the request has had no effect and will have none. *)
Reject(c) ==
  /\ state[c] = "pending"
  /\ \E code \in {400, 500} : Done(c, code, {}, None)
  /\ UNCHANGED <<store, lists>>

(* The server starts again: it knows no instance and no request. *)
Lose ==
  /\ store' = [e \in Entities |-> [i \in Ids |-> None]]
  /\ state' = [c \in Clients |-> "idle"]
  /\ answer' = [c \in Clients |-> NoAnswer]
  /\ owed' = [c \in Clients |-> {}] /\ named' = [c \in Clients |-> {}]
  /\ fresh' = FALSE
  /\ UNCHANGED request

Next ==
  \/ \E c \in Clients : \/ Invoke(c) \/ Create(c) \/ Update(c) \/ Remove(c)
                        \/ Read(c) \/ Missing(c) \/ Reject(c)
                        \/ EmptyList(c) \/ StartList(c) \/ Name(c) \/ EndList(c)
  \/ Lose

Spec == Init /\ [][Next]_vars
=============================================================================
