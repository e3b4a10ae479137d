--------------------------- MODULE RequestHandlers ----------------------------
(***************************************************************************)
(* The handlers that RouteRequest creates and calls: the static handler as *)
(* a whole, the CRUD handler up to the point where CrudStore takes over,   *)
(* and the handlers whose response is fixed.  With the modules it extends  *)
(* this is one process from the configuration file to the responses.       *)
(*                                                                         *)
(* The static handler looks at its file several times, and others may      *)
(* rewrite or remove the file in between.                                  *)
(***************************************************************************)
EXTENDS RequestDispatcher

CONSTANTS
  Sizes,         \* the sizes of files
  BufferSize,    \* of buffer_arr
  MAX_FILE_SIZE,
  MaxVersion     \* bound: how often the file is rewritten during a request

ASSUME FileAssumption ==
  /\ Sizes \subseteq Nat /\ MaxVersion \in Nat
  /\ BufferSize \in Nat \ {0} /\ MAX_FILE_SIZE \in Nat

VARIABLES
  file_path_,
  root,     \* the local root of InitRoot
  file,     \* what file_path_ names: whether it is there, its version and size
  opened,   \* the stream has found the file
  body,     \* bytes of res.body(): version and position in the file
  result    \* res.result(), and the status HandleRequest returned

handler == <<file_path_, root, file, opened, body, result>>
vars    == <<startup, request, handler>>

NoFile   == [there |-> FALSE, version |-> 0, size |-> 0]
NoResult == [code |-> 0, status |-> 0]

HandlerInit ==
  /\ file_path_ = <<>> /\ root = <<>>
  /\ file = NoFile /\ opened = FALSE /\ body = <<>>
  /\ result = NoResult

Init == StartupInit /\ RequestInit /\ HandlerInit

Kind == handler_factories_[answer.matched].handler

Finish(code) ==
  pc' = "done" /\ result' = [code |-> code, status |-> code]

(* An exception in a handler ends the process: main catches it and         *)
(* returns, the thread of a session does not catch it.                     *)
Throw == phase' = "down"

StartupRest == <<parser, next, port_, listening, handler_factories_>>
RequestRest == <<target, uri_base_path, cur_path, answer>>
StaticRest  == <<RequestRest, StartupRest, file_path_, root>>

-----------------------------------------------------------------------------
(***************************************************************************)
(* Mutants: plausible bugs that the properties must catch.  Nothing uses   *)
(* them.                                                                   *)
(***************************************************************************)
(* The last chunk, which is not full, is dropped with the end of the file. *)
ReadFull ==
  /\ pc = "static_read"
  /\ IF Len(body) + BufferSize <= file.size
     THEN /\ body' = body \o [i \in 1 .. BufferSize |-> <<file.version, Len(body) + i>>]
          /\ UNCHANGED <<pc, result>>
     ELSE pc' = "done" /\ UNCHANGED <<body, result>>
  /\ UNCHANGED <<StaticRest, phase, file, opened>>

(* The loop of InitRoot goes on to the directory "/". *)
AtSlash == root = Root

-----------------------------------------------------------------------------
(***************************************************************************)
(* I_FileHandlerFactory: the root of the location, a slash, the path.      *)
(***************************************************************************)
GetRoot(i) ==
  LET inner  == {j \in DOMAIN statements_ : statements_[j].within = i}
      tokens == statements_[CHOOSE j \in inner : TRUE].tokens
  IN  IF Cardinality(inner) # 1 \/ Len(tokens) < 2 \/ tokens[1] # <<"root">> THEN <<>>
      ELSE IF tokens[2] # <<>> /\ Last(tokens[2]) = Slash THEN tokens[2] ELSE Append(tokens[2], Slash)

GetCompleteFilePath == GetRoot(handler_factories_[answer.matched].statement) \o answer.given

(***************************************************************************)
(* boost::filesystem::path.  A path that begins with exactly two slashes   *)
(* and a name begins with the name of a host, "//host": this is its first  *)
(* element, "//host/" is the directory above all others, and neither has   *)
(* "/" above it.  Three slashes are no more than one.                      *)
(***************************************************************************)
HasHost(path) == Len(path) > 2 /\ path[1] = Slash /\ path[2] = Slash /\ path[3] # Slash

Host(path) == SubSeq(path, 1, Min({i \in Slashes(path) : i > 2} \cup {Len(path) + 1}) - 1)

IsHost(path) == HasHost(path) /\ path = Host(path)

Filename(path) ==
  IF IsHost(path) THEN path
  ELSE SubSeq(path, Max(Slashes(path) \cup {0}) + 1, Len(path))

Above(path) == IF TrimRight(Parent(path)) = <<>> THEN Root ELSE TrimRight(Parent(path))

ParentPath(path) ==
  IF Slashes(path) = {} \/ path = Root \/ IsHost(path) THEN <<>>
  ELSE IF HasHost(path) /\ Above(path) = Host(path) /\ Last(path) # Slash
       THEN Append(Host(path), Slash)
       ELSE Above(path)

(***************************************************************************)
(* The handlers whose response does not depend on anything modelled here.  *)
(***************************************************************************)
FixedResponse(kind, code) ==
  /\ pc = "handle" /\ Kind = kind
  /\ Finish(code)
  /\ UNCHANGED <<startup, RequestRest, file_path_, root, file, opened, body>>

EchoResponse     == FixedResponse(<<"EchoHandler">>, 200)
HealthResponse   == FixedResponse(<<"HealthHandler">>, 200)
SleepResponse    == FixedResponse(Test, 200)
ChannelsResponse == FixedResponse(<<"WebsocketInfoHandler">>, 200)
NotFoundResponse == FixedResponse(NotFound, 404)

Respond ==
  EchoResponse \/ HealthResponse \/ SleepResponse \/ ChannelsResponse \/ NotFoundResponse

(***************************************************************************)
(* CrudHandler: ParseTarget and the loop of InitRoot that looks for the    *)
(* first directory of the path.                                            *)
(***************************************************************************)
HasId(path)  == Filename(path) \in DOMAIN NumberOf
Entity(path) == IF HasId(path) THEN ParentPath(path) ELSE path

CreateCrudHandler ==
  /\ pc = "handle" /\ Kind = <<"CrudHandler">>
  /\ file_path_' = GetCompleteFilePath /\ root' = file_path_'
  /\ IF HasId(file_path_') /\ NumberOf[Filename(file_path_')] > MaxInt
     THEN Throw /\ UNCHANGED <<pc, result>>
     ELSE IF Entity(file_path_') = <<>>
     THEN Finish(400) /\ UNCHANGED phase
     ELSE pc' = "climb" /\ UNCHANGED <<phase, result>>
  /\ UNCHANGED <<StartupRest, RequestRest, file, opened, body>>

AtTop == ParentPath(root) = Root

Climb ==
  /\ pc = "climb" /\ ~AtTop
  /\ root' = ParentPath(root)
  /\ UNCHANGED <<startup, request, file_path_, file, opened, body, result>>

(* CreateDir may fail.  When it does not, InitRoot returns OK, and         *)
(* CrudStore says what the response is.                                    *)
RootFound ==
  /\ pc = "climb" /\ AtTop
  /\ Finish(200) \/ Finish(500)
  /\ UNCHANGED <<StaticRest, phase, file, opened, body>>

(***************************************************************************)
(* StaticHandler                                                           *)
(***************************************************************************)
CreateStaticHandler ==
  /\ pc = "handle" /\ Kind = <<"StaticHandler">>
  /\ file_path_' = GetCompleteFilePath
  /\ file' \in {NoFile} \cup [there : {TRUE}, version : {0}, size : Sizes]
  /\ pc' = "static_check"
  /\ UNCHANGED <<startup, RequestRest, root, opened, body, result>>

(* Where the privileged directories are is left open.  is_regular_file and *)
(* file_size throw when they cannot look at the file, file_size also when  *)
(* it has gone.                                                            *)
CheckFile ==
  /\ pc = "static_check"
  /\ \/ Finish(403) /\ UNCHANGED phase
     \/ Throw /\ UNCHANGED <<pc, result>>
     \/ ~file.there /\ Finish(404) /\ UNCHANGED phase
     \/ file.there /\ pc' = "static_size" /\ UNCHANGED <<phase, result>>
  /\ UNCHANGED <<StaticRest, file, opened, body>>

CheckSize ==
  /\ pc = "static_size"
  /\ \/ Throw /\ UNCHANGED <<pc, result>>
     \/ file.there /\ file.size > MAX_FILE_SIZE - 1 /\ Finish(400) /\ UNCHANGED phase
     \/ /\ file.there /\ file.size <= MAX_FILE_SIZE - 1
        /\ pc' = "static_open" /\ result' = [code |-> 200, status |-> 200]
        /\ UNCHANGED phase
  /\ UNCHANGED <<StaticRest, file, opened, body>>

(* The open fails when the file has gone, and may fail when it has not.    *)
(* The loop is not entered then, and the response is an empty 200.         *)
OpenStream ==
  /\ pc = "static_open"
  /\ opened' \in {FALSE, file.there}
  /\ pc' = IF opened' THEN "static_read" ELSE "done"
  /\ UNCHANGED <<StaticRest, phase, file, body, result>>

(* One turn of the loop.  A read that is not filled has met the end of the *)
(* file; one that fails is the status returned, and the response stays.    *)
Available == {i \in Len(body) + 1 .. Len(body) + BufferSize : i <= file.size}

ReadChunk ==
  /\ pc = "static_read"
  /\ \/ /\ body' = body \o [i \in 1 .. Cardinality(Available) |-> <<file.version, Len(body) + i>>]
        /\ pc' = IF Cardinality(Available) = BufferSize THEN pc ELSE "done"
        /\ UNCHANGED result
     \/ /\ pc' = "done" /\ result' = [result EXCEPT !.status = 500]
        /\ UNCHANGED body
  /\ UNCHANGED <<StaticRest, phase, file, opened>>

(* Somebody else rewrites the file in place, or removes its name. *)
ChangeFile ==
  /\ phase = "serving" /\ file.there /\ pc # "done"
  /\ \/ /\ file.version < MaxVersion
        /\ \E n \in Sizes : file' = [file EXCEPT !.version = @ + 1, !.size = n]
     \/ file' = [file EXCEPT !.there = FALSE]
  /\ UNCHANGED <<startup, request, file_path_, root, opened, body, result>>

Static == CheckFile \/ CheckSize \/ OpenStream \/ ReadChunk

(* The session has the response and forgets the call. *)
Return ==
  /\ pc = "done" /\ pc' = "idle"
  /\ target' = <<>> /\ uri_base_path' = <<>> /\ cur_path' = <<>>
  /\ answer' = BadRequest
  /\ file_path_' = <<>> /\ root' = <<>> /\ file' = NoFile /\ opened' = FALSE
  /\ body' = <<>> /\ result' = NoResult
  /\ UNCHANGED startup

-----------------------------------------------------------------------------
Handle ==
  /\ phase = "serving"
  /\ Respond \/ CreateCrudHandler \/ Climb \/ RootFound \/ CreateStaticHandler \/ Static \/ Return

Work ==
  \/ Startup /\ UNCHANGED <<request, handler>>
  \/ Route /\ UNCHANGED handler
  \/ Handle

Next ==
  \/ Work \/ ChangeFile
  \/ \E uri \in Targets : (Refuse(uri) \/ RouteRequest(uri)) /\ UNCHANGED handler

Spec == Init /\ [][Next]_vars

(* main and the thread of a request run on. *)
FairSpec == Spec /\ WF_vars(Work)

-----------------------------------------------------------------------------
Places == {"idle", "loop", "handle", "climb", "static_check", "static_size", "static_open",
           "static_read", "done"}

TypeOK ==
  /\ StartupTypeOK /\ RequestTypeOK
  /\ pc \in Places /\ opened \in BOOLEAN
  /\ file.there \in BOOLEAN /\ file.version \in 0 .. MaxVersion /\ file.size \in Sizes \cup {0}
  /\ result.code \in {0, 200, 400, 403, 404, 500} /\ result.status \in {0, 200, 400, 403, 404, 500}

(* The body is the file in order, without gap or repetition, whoever       *)
(* rewrites it meanwhile.  If nobody does, a 200 whose stream was opened   *)
(* and read without error carries the whole file, which is below the       *)
(* limit, even when the file is removed before the last read               *)
(* (static_handler.cc:85, 142-157).                                         *)
WholeFile ==
  /\ \A i \in DOMAIN body : body[i][2] = i /\ (i > 1 => body[i][1] >= body[i - 1][1])
  /\ pc = "done" /\ opened /\ result.status = 200 /\ file.version = 0 =>
       Len(body) = file.size /\ file.size < MAX_FILE_SIZE

(* What InitRoot finds is the first directory of the path (Topmost).  When *)
(* the location names a root other than "/", and no name of the path is    *)
(* "..", the directory of the entity is this one or lies in it: creating   *)
(* the root creates nothing where an instance should be                    *)
(* (crud_handler.cc:289-293).  Without a root, or with "/", a target may   *)
(* make of the path "/7" the root to create.  With "..", which the handler *)
(* does not look for (53-64, 280-299), nothing is said of where the entity *)
(* is.                                                                     *)
DotDot == ".."

Topmost(dir) == \E k \in 1 .. Len(dir) - 1 : Slashes(dir) = 1 .. k

RootAboveEntity ==
  pc = "done" /\ root # <<>> /\ result.code # 400 =>
    LET entity == Entity(file_path_)
    IN  /\ Topmost(root)
        /\ /\ Without(GetRoot(handler_factories_[answer.matched].statement), Slash) # {}
           /\ \A i \in DOMAIN file_path_ : file_path_[i] # DotDot
           => entity = root \/ IsPrefix(Append(root, Slash), entity)

(* InitRoot climbs for ever when "/" is not above its file: when the root  *)
(* of the location is not absolute, and when the path has a host.          *)
Hangs == pc = "climb" /\ (file_path_[1] # Slash \/ HasHost(file_path_))

(* Every start and every request comes to an end, with the exception of    *)
(* Hangs: the parser reads on, each turn of the loop of RouteRequest and   *)
(* of InitRoot leaves a shorter path, and a file is read to its end.  And  *)
(* the exceptions are no more than the code needs: these never end.        *)
Ends ==
  /\ (phase \in {"parse", "port", "paths"}) ~> (phase \notin {"parse", "port", "paths"} \/ parsed = "undefined")
  /\ (pc \notin {"idle", "done"}) ~> (pc = "done" \/ phase = "down" \/ Hangs)
  /\ [][Hangs => Hangs']_vars
=============================================================================
