-------------------------- MODULE RequestDispatcher ---------------------------
(***************************************************************************)
(* RequestDispatcher::RouteRequest over the table that ServingConfig       *)
(* built: the exact path first, then one level less at a time.  A call     *)
(* shares nothing it writes with another, so one at a time is modelled.    *)
(***************************************************************************)
EXTENDS ServingConfig

CONSTANTS
  Targets   \* the request targets, sequences of symbols

ASSUME TargetAssumption == Targets \subseteq Seq(STRING)

VARIABLES
  pc,             \* "idle", "loop", "handle", "done", and in a handler the places of
                  \*   RequestHandlers
  target,         \* req.target()
  uri_base_path,
  cur_path,
  answer          \* the path matched and the path its handler was given

request == <<pc, target, uri_base_path, cur_path, answer>>

BadRequest == [matched |-> <<>>, given |-> <<>>]   \* no factory is at ""
OutOfRange == <<"out_of_range">>                   \* substr throws

RequestInit ==
  /\ pc = "idle" /\ target = <<>> /\ uri_base_path = <<>>
  /\ cur_path = <<>> /\ answer = BadRequest

-----------------------------------------------------------------------------
(***************************************************************************)
(* Mutants: plausible bugs that the properties must catch.  Nothing uses   *)
(* them.                                                                   *)
(***************************************************************************)
(* One character too few is left out. *)
SubstrFrom(s, n) == IF n - 1 <= Len(s) THEN SubSeq(s, n, Len(s)) ELSE OutOfRange

(* The slash stays at the end of the parent. *)
ParentWithSlash(s) ==
  LET slashes == {i \in DOMAIN s : s[i] = Slash}
  IN  IF slashes = {} THEN s ELSE SubSeq(s, 1, Max(slashes))

(* The first level is what is left, and not the last what is removed. *)
FirstLevel(s) ==
  LET slashes == {i \in DOMAIN s : s[i] = Slash} \ {1}
  IN  IF slashes = {} THEN <<>> ELSE SubSeq(s, 1, Min(slashes) - 1)

-----------------------------------------------------------------------------
Without(s, symbol) == {i \in DOMAIN s : s[i] # symbol}
Slashes(s) == {i \in DOMAIN s : s[i] = Slash}

BeforeQuery(uri) == SubSeq(uri, 1, Min({i \in DOMAIN uri : uri[i] = Query} \cup {Len(uri) + 1}) - 1)
TrimRight(s)     == SubSeq(s, 1, Max(Without(s, Slash) \cup {0}))

ExtractUriBasePath(uri) ==
  LET stripped == TrimRight(BeforeQuery(uri))
  IN  IF stripped = <<>> THEN Root ELSE stripped

(* s.substr(0, s.rfind('/')), all of s if there is no slash *)
Parent(s) == IF Slashes(s) = {} THEN s ELSE SubSeq(s, 1, Max(Slashes(s)) - 1)

(* s.substr(n) *)
Substr(s, n) == IF n <= Len(s) THEN SubSeq(s, n + 1, Len(s)) ELSE OutOfRange

Answered(path, given) == answer' = [matched |-> path, given |-> given]

(* An unsupported verb or version. *)
Refuse(uri) ==
  /\ phase = "serving" /\ pc = "idle"
  /\ target' = uri /\ pc' = "done" /\ answer' = BadRequest
  /\ UNCHANGED <<startup, uri_base_path, cur_path>>

RouteRequest(uri) ==
  /\ phase = "serving" /\ pc = "idle"
  /\ target' = uri /\ uri_base_path' = ExtractUriBasePath(uri)
  /\ \/ /\ uri_base_path' \in DOMAIN handler_factories_
        /\ Answered(uri_base_path', uri_base_path')
        /\ pc' = "handle" /\ UNCHANGED cur_path
     \/ /\ uri_base_path' \notin DOMAIN handler_factories_
        /\ cur_path' = Parent(uri_base_path')
        /\ pc' = "loop" /\ UNCHANGED answer
  /\ UNCHANGED startup

InLoop == pc = "loop" /\ Slashes(cur_path) # {}

MatchLevel ==
  /\ InLoop /\ cur_path \in DOMAIN handler_factories_
  /\ Answered(cur_path, Substr(uri_base_path, Len(cur_path) + 1))
  /\ pc' = "handle"
  /\ UNCHANGED <<startup, target, uri_base_path, cur_path>>

StripLevel ==
  /\ InLoop /\ cur_path \notin DOMAIN handler_factories_
  /\ cur_path' = Parent(cur_path)
  /\ UNCHANGED <<startup, pc, target, uri_base_path, answer>>

NoMatch ==
  /\ pc = "loop" /\ Slashes(cur_path) = {}
  /\ answer' = BadRequest /\ pc' = "done"
  /\ UNCHANGED <<startup, target, uri_base_path, cur_path>>

Route == MatchLevel \/ StripLevel \/ NoMatch

-----------------------------------------------------------------------------
Symbols == {Slash} \cup UNION {ToSet(t) : t \in Targets}

RequestTypeOK ==
  /\ target \in Targets \cup {<<>>}
  /\ uri_base_path \in Seq(Symbols) /\ cur_path \in Seq(Symbols)
  /\ answer.matched \in {<<>>} \cup DOMAIN handler_factories_ /\ answer.given \in Seq(Symbols)

Routed == pc \notin {"idle", "loop"} /\ uri_base_path # <<>>

(* The answer is that of the longest registered path which is the base     *)
(* path or ends at one of its slashes, and 400 when there is none          *)
(* (the comment above the loop: longest prefix matching).                  *)
LongestMatch ==
  Routed =>
    LET Matching == {p \in DOMAIN handler_factories_ :
                       p = uri_base_path \/ IsPrefix(Append(p, Slash), uri_base_path)}
    IN  IF Matching = {} THEN answer.matched = <<>>
        ELSE /\ answer.matched \in Matching
             /\ \A p \in Matching : Len(p) <= Len(answer.matched)

(* Nothing of the target is lost or invented on the way to the handler:    *)
(* the path matched, a slash and the path given are the base path, which   *)
(* differs from the target by trailing slashes and a query.  The substr of *)
(* the loop therefore never throws, though "//x" does enter the body with  *)
(* cur_path = "/", which the comment there excludes.                       *)
Recomposed ==
  Routed =>
    LET matched == answer.matched
        before == {i \in DOMAIN target : \A j \in 1 .. i : target[j] # Query}
        names  == {i \in before : target[i] # Slash}
    IN  /\ \/ matched = <<>> /\ answer.given = <<>>
           \/ matched = uri_base_path /\ answer.given = matched
           \/ Append(matched, Slash) \o answer.given = uri_base_path
        /\ IF names = {} THEN uri_base_path = Root
           ELSE /\ IsPrefix(uri_base_path, target)
                /\ Len(uri_base_path) \in names
                /\ \A i \in before : i > Len(uri_base_path) => target[i] = Slash
=============================================================================
