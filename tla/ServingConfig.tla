---------------------------- MODULE ServingConfig -----------------------------
(***************************************************************************)
(* The start of the process: main parses the configuration, and reads the  *)
(* port and the table of handler factories from the statements of the      *)
(* server blocks.                                                          *)
(*                                                                         *)
(* A word is a sequence of symbols: the separators that the code looks for *)
(* in paths are told apart, a name is one symbol.                          *)
(***************************************************************************)
EXTENDS ConfigParser, FiniteSetsExt

CONSTANTS
  NumberOf,  \* the words that consist of digits, and their numbers
  MaxInt     \* the largest int, above which stoi throws

ShortRange == 65536   \* the values of a short

ASSUME PortAssumption ==
  MaxInt \in Nat /\ MaxInt > ShortRange /\ \A n \in DOMAIN NumberOf : NumberOf[n] \in Nat

Slash == "/"
Query == "?"
Root  == <<Slash>>

Factory ==   \* the names of handlers in a configuration; TestHandler is another
  {<<"StaticHandler">>, <<"EchoHandler">>, <<"CrudHandler">>, <<"HealthHandler">>,
   <<"WebsocketInfoHandler">>}
Test     == <<"TestHandler">>
NotFound == <<"NotFoundHandler">>

VARIABLES
  phase,      \* "parse", "port", "paths", "serving", "refused" (main returns 1),
              \*   "thrown" (main returns 0), "down" (terminated while it served)
  next,       \* the statement SetPaths looks at
  port_,
  listening,  \* the port of the acceptor
  handler_factories_  \* path -> the handler created, and the statement that said so

startup == <<parser, phase, next, port_, listening, handler_factories_>>

StartupInit ==
  /\ ParserInit
  /\ phase = "parse" /\ next = 1
  /\ port_ = 0 /\ listening = 0
  /\ handler_factories_ = <<>>

-----------------------------------------------------------------------------
InServer(i) ==
  LET outer == statements_[i].within
  IN  outer # 0 /\ statements_[outer].within = 0 /\ statements_[outer].tokens[1] = <<"server">>

IsA(i, keyword, size) ==
  InServer(i) /\ Len(statements_[i].tokens) >= size /\ statements_[i].tokens[1] = <<keyword>>

IsPort(i)     == IsA(i, "listen", 2) /\ statements_[i].tokens[2] \in DOMAIN NumberOf
IsLocation(i) == IsA(i, "location", 3)
Path(i)       == statements_[i].tokens[2]
Handler(i)    == statements_[i].tokens[3]

-----------------------------------------------------------------------------
(***************************************************************************)
(* Mutants: plausible bugs that the properties must catch.  Nothing uses   *)
(* them.                                                                   *)
(***************************************************************************)
(* The duplicate is looked for only where a factory would be created. *)
DuplicateOfBlock(i) ==
  IsLocation(i) /\ statements_[i].block /\ Path(i) \in DOMAIN handler_factories_

(* A duplicate overwrites, as the unordered_map does. *)
NeverDuplicate(i) == FALSE

(* The endpoint is given the int. *)
WidePort == port_

-----------------------------------------------------------------------------
ParseConfig ==
  /\ phase = "parse" /\ parsed = "no" /\ Parse
  /\ UNCHANGED <<phase, next, port_, listening, handler_factories_>>

(* Undefined behaviour is left where it is: nothing more is said of it. *)
Parsed ==
  /\ phase = "parse" /\ parsed \in {"true", "false"}
  /\ phase' = IF parsed = "true" THEN "port" ELSE "refused"
  /\ UNCHANGED <<parser, next, port_, listening, handler_factories_>>

SetPortNumber ==
  /\ phase = "port"
  /\ LET ports == {i \in DOMAIN statements_ : IsPort(i)}
         port  == NumberOf[statements_[Min(ports)].tokens[2]]
     IN \/ /\ ports = {}
           /\ phase' = "refused" /\ UNCHANGED port_
        \/ /\ ports # {} /\ port > MaxInt
           /\ phase' = "thrown" /\ UNCHANGED port_
        \/ /\ ports # {} /\ port <= MaxInt
           /\ phase' = "paths" /\ port_' = port
  /\ UNCHANGED <<parser, next, listening, handler_factories_>>

(* The path a location registers a factory at. *)
RegisteredPath(i) == IF Handler(i) = Test THEN Path(i) \o <<Slash, "sleep">> ELSE Path(i)

Registers(i) == IsLocation(i) /\ statements_[i].block /\ Handler(i) \in Factory \cup {Test}

IsDuplicate(i) == IsLocation(i) /\ Path(i) \in DOMAIN handler_factories_

With(factories, path, factory) ==
  [p \in DOMAIN factories \cup {path} |-> IF p = path THEN factory ELSE factories[p]]

(* One turn of the loops of SetPaths. *)
SetPath ==
  /\ phase = "paths" /\ next \in DOMAIN statements_
  /\ \/ /\ IsDuplicate(next)
        /\ phase' = "refused" /\ UNCHANGED <<next, handler_factories_>>
     \/ /\ ~IsDuplicate(next) /\ ~Registers(next)
        /\ next' = next + 1 /\ UNCHANGED <<phase, handler_factories_>>
     \/ /\ ~IsDuplicate(next) /\ Registers(next)
        /\ next' = next + 1
        /\ handler_factories_' = With(handler_factories_, RegisteredPath(next),
                                      [handler |-> Handler(next), statement |-> next])
        /\ UNCHANGED phase
  /\ UNCHANGED <<parser, port_, listening>>

IsValidURI(path) ==
  Len(path) > 1 /\ path[1] = Slash /\ \A i \in DOMAIN path : path[i] # Query

ListenPort == port_ % ShortRange   \* a short, then the unsigned short of the endpoint

(* The end of SetPaths, and the Server that main starts when it succeeds. *)
ValidatePaths ==
  /\ phase = "paths" /\ next > Len(statements_)
  /\ handler_factories_' =
       With(handler_factories_, Root, [handler |-> NotFound, statement |-> 0])
  /\ \/ /\ \E p \in DOMAIN handler_factories_ : ~IsValidURI(p)
        /\ phase' = "refused" /\ UNCHANGED listening
     \/ /\ \A p \in DOMAIN handler_factories_ : IsValidURI(p)
        /\ phase' = "serving" /\ listening' = ListenPort
  /\ UNCHANGED <<parser, next, port_>>

Startup == ParseConfig \/ Parsed \/ SetPortNumber \/ SetPath \/ ValidatePaths

-----------------------------------------------------------------------------
StartupTypeOK ==
  /\ ParserTypeOK
  /\ phase \in {"parse", "port", "paths", "serving", "refused", "thrown", "down"}
  /\ next \in 1 .. Len(statements_) + 1
  /\ port_ \in Nat /\ listening \in 0 .. ShortRange - 1
  /\ \A p \in DOMAIN handler_factories_ :
       /\ handler_factories_[p].handler \in Factory \cup {Test, NotFound}
       /\ handler_factories_[p].statement \in 0 .. next - 1

(* Whether a parsed configuration is one a server may run: the first port  *)
(* of digits fits an int, every path that would be registered is a URI,    *)
(* and no location has the path that one before it registers.  The path    *)
(* that a TestHandler registers is not its location's, and may repeat one. *)
FirstPort(i) == IsPort(i) /\ \A j \in 1 .. i - 1 : ~IsPort(j)

Acceptable ==
  /\ \E i \in DOMAIN statements_ : FirstPort(i) /\ NumberOf[statements_[i].tokens[2]] <= MaxInt
  /\ \A i \in DOMAIN statements_ : Registers(i) =>
       LET path == RegisteredPath(i)
       IN  /\ Len(path) > 1 /\ path[1] = Slash
           /\ \A k \in DOMAIN path : path[k] # Query
           /\ \A j \in i + 1 .. Len(statements_) : IsLocation(j) => Path(j) # path

(* The process serves exactly the files that parse and are Acceptable,     *)
(* whatever the order of their statements, on the first port they name     *)
(* (SetPortNumber, SetPaths and ValidatePaths, and main which returns 1).   *)
StartsIfAcceptable ==
  /\ phase = "serving" =>
       /\ parsed = "true" /\ Acceptable
       /\ \E i \in DOMAIN statements_ :
            FirstPort(i) /\ (NumberOf[statements_[i].tokens[2]] - listening) % ShortRange = 0
  /\ phase \in {"refused", "thrown"} => parsed = "false" \/ ~Acceptable

(* What the process serves is what its locations say.  Every location has  *)
(* its factory in the table, but for those that SetPaths drops without an  *)
(* error: one without a block or with the name of no handler, which it     *)
(* passes over, and one that a later TestHandler replaces, whose path the  *)
(* duplicate check does not look up (serving_config.cc:92-120).  Every     *)
(* factory but the NotFoundHandler's is that of such a location.           *)
PassedOver(i) == ~statements_[i].block \/ Handler(i) \notin Factory \cup {Test}

Stands(i) ==
  LET f == handler_factories_[RegisteredPath(i)]
  IN  f.statement = i \/ (f.statement > i /\ f.handler = Test)

LocationsServed ==
  phase = "serving" =>
    /\ \A i \in DOMAIN statements_ : IsLocation(i) =>
         PassedOver(i) \/ (RegisteredPath(i) \in DOMAIN handler_factories_ /\ Stands(i))
    /\ \A p \in DOMAIN handler_factories_ \ {Root} :
         LET f == handler_factories_[p]
         IN  /\ f.statement \in DOMAIN statements_ /\ IsLocation(f.statement)
             /\ ~PassedOver(f.statement)
             /\ RegisteredPath(f.statement) = p /\ Handler(f.statement) = f.handler
    /\ handler_factories_[Root].handler = NotFound
=============================================================================
