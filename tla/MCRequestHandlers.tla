-------------------------- MODULE MCRequestHandlers ---------------------------
(***************************************************************************)
(* Small instances of RequestHandlers.  Names are single symbols: "a",     *)
(* "sleep" (the last level of the path of a TestHandler) and the digits    *)
(* "7" and "9", of which "9" stands for a number above MaxInt.             *)
(***************************************************************************)
EXTENDS RequestHandlers

CONSTANTS
  MaxLexemes,   \* bound: lexemes of a file of any kind
  MaxStructure, \* bound: lexemes of a file of words, braces and semicolons
  MaxTarget,    \* bound: symbols in a request target
  MaxLocations  \* bound: locations in a configuration

MCNumberOf == [w \in {<<"7">>, <<"9">>, <<"80">>, <<"70000">>} |->
                 CASE w = <<"7">> -> 7 [] w = <<"9">> -> MaxInt + 1
                   [] w = <<"80">> -> 80 [] w = <<"70000">> -> 70000]

(***************************************************************************)
(* Files for the parser.  A normal token ends only at a blank, a brace, a  *)
(* semicolon or a quote.                                                   *)
(***************************************************************************)
W == Normal(<<"a">>)
Q == Quoted(<<"'", Backslash, "'", Backslash, Backslash, "'">>)

IsFile(f) == \A i \in 1 .. Len(f) - 1 :
               f[i].type = "Normal" => f[i + 1].type \notin {"Normal", "Comment"}

ShortFiles ==
  {f \in BoundedSeq({W, Q, Space, Break, Comment, Open, Close, Semicolon, Unclosed}, MaxLexemes)
           \cup BoundedSeq({W, Open, Close, Semicolon}, MaxStructure) : IsFile(f)}

(***************************************************************************)
(* Configurations, as text.                                                *)
(***************************************************************************)
Spaced(words) == FlattenSeq([i \in DOMAIN words |->
                   IF i = 1 THEN <<Normal(words[i])>> ELSE <<Space, Normal(words[i])>>])

Block(words, inner) == Spaced(words) \o <<Space, Open, Break>> \o inner \o <<Close, Break>>
Statement(words)   == Spaced(words) \o <<Semicolon, Break>>

Listen(port)      == Statement(<<<<"listen">>, port>>)
Location(p, h)    == Block(<<<<"location">>, p, h>>, <<>>)
FileServer(p, h, r) == Block(<<<<"location">>, p, h>>, Statement(<<<<"root">>, r>>))
Server(inner)     == Block(<<<<"server">>>>, inner)

A     == <<Slash, "a">>
Echo  == <<"EchoHandler">>
Paths == {<<"a">>, Root, A, A \o Root, A \o A, A \o <<Slash, "sleep">>, A \o <<Query>>}

Locations ==
  {Location(p, Echo) : p \in Paths}
    \cup {Location(p, Test) : p \in {Root, A, A \o A}}
    \cup {Statement(<<<<"location">>, A, Echo>>), Location(A, <<"UnknownHandler">>)}

Ports == {<<"80">>, <<"70000">>, <<"9">>, <<"a">>}

(* Roots of file servers: with and without a last slash, of no level, of   *)
(* one and of two, and relative.                                           *)
Roots == {Root, A, <<Slash, "m", Slash, "a", Slash>>, <<"m">>}

Configs ==
  {Server(Listen(<<"80">>) \o FlattenSeq(ls)) : ls \in BoundedSeq(Locations, MaxLocations)}
    \cup {Server(FlattenSeq([i \in DOMAIN ps |-> Listen(ps[i])]) \o Location(A, Echo)) :
            ps \in BoundedSeq(Ports, 2)}
    \cup {Location(A, Echo) \o Server(Location(A, Echo)) \o Server(Listen(<<"80">>)),
          Server(Listen(<<"80">>) \o Block(<<<<"http">>>>, Location(A, Echo)))}

FileConfigs ==
  {Server(Listen(<<"80">>) \o l) :
     l \in {FileServer(A, <<"CrudHandler">>, r) : r \in Roots}
             \cup {Location(A, <<"HealthHandler">>), Location(A, <<"WebsocketInfoHandler">>),
                   Location(A, <<"CrudHandler">>), FileServer(A, <<"StaticHandler">>, A)}}

MCFiles == ShortFiles \cup Configs \cup FileConfigs

(***************************************************************************)
(* Targets                                                                 *)
(***************************************************************************)
MCTargets ==
  BoundedSeq({Slash, Query, "a"}, MaxTarget)
    \cup {t \o <<Slash, "sleep">> \o u : t \in BoundedSeq({Slash, "a"}, 2),
                                         u \in BoundedSeq({Slash, "a"}, 2)}
    \cup {A \o t \o <<n>> : t \in {<<Slash>>, <<Slash, Slash>>, <<Slash, Slash, Slash>>,
                                   <<Slash, "a", Slash>>, <<Slash, DotDot, Slash>>},
                            n \in {"7", "9"}}
    \cup {A \o <<Slash, DotDot>> \o A, A \o <<Slash, DotDot, Slash, DotDot>> \o A}

-----------------------------------------------------------------------------
(***************************************************************************)
(* What the documentation says and the code does not do, with the small    *)
(* instances that show it.                                                 *)
(***************************************************************************)
OneTarget == {A \o A}

SleepTwice ==
  {Server(Listen(<<"80">>) \o FlattenSeq(ls)) :
     ls \in BoundedSeq({Location(A, Echo), Location(A, Test), Location(A \o A, Echo),
                        Location(A \o <<Slash, "sleep">>, Echo)}, 3)}

(* A server that has started has no two locations of one path: the comment *)
(* before the check says that SetPaths must refuse them, as it "cannot     *)
(* check for this error in postprocessing since a duplicate value is       *)
(* simple overwritten in a unordered_map" (serving_config.cc:95-97).  The  *)
(* check looks up the path of the location and not the one that a          *)
(* TestHandler registers, "/sleep" behind it.                              *)
DuplicatesRefused ==
  phase = "serving" =>
    \A i, j \in DOMAIN statements_ :
      Registers(i) /\ Registers(j) /\ RegisteredPath(i) = RegisteredPath(j) => i = j
=============================================================================
